----------------------------- MODULE LaunchTask -----------------------------
(***************************************************************************)
(* A launch: the LaunchTask with its steps and the LaunchController around  *)
(* it, from the moment launchInstance() starts the task.                   *)
(*                                                                         *)
(* Steps differ in how they end and what abort() does to them:             *)
(*   plain    TextPrint, CheckJava, ScanModFolders...: cannot be aborted   *)
(*   query    LookupServerAddress, PrintServers: ends when aborted         *)
(*   task     TaskStepWrapper, AutoInstallJava: a task with a dialog       *)
(*   command  PreLaunchCommand, PostLaunchCommand: a process               *)
(*   game     LauncherPartLaunch: a process that waits for a word          *)
(* What a step does within one call may take turns of its own here.        *)
(* QuitAfterGameStop, which ends the program, is left out.                 *)
(*                                                                         *)
(* A box is a modal dialog and a nested event loop: everything goes on     *)
(* under it, but the user reaches the top one only, and the code that      *)
(* opened it continues when it is closed and the top.                      *)
(***************************************************************************)
EXTENDS Naturals, Sequences

CONSTANT Launches   \* the chains of steps: sequences of kinds

Kinds == {"plain", "query", "task", "command", "game"}

\* the first step prints the version
ASSUME LaunchesAssumption ==
    Launches \subseteq {kinds \in Seq(Kinds) : kinds # <<>> /\ Head(kinds) = "plain"}

VARIABLES
    kinds,      \* m_steps
    current,    \* currentStep, from 1
    state,      \* LaunchTask::State
    task,       \* Task::State of the launch task
    running,    \* BaseInstance::m_isRunning
    passed,     \* the steps that succeeded
    finalized,  \* the steps that were finalized, in that order
    process,    \* of the current step: "none", "Starting", "Running"
    killed,     \* LoggedProcess::m_is_aborting
    mayProceed, \* of the game
    told,       \* what the game was told: "nothing", "launch", "abort"
    controller, \* whether the LaunchController is there
    profiled,   \* whether a profiler is set
    profiler,   \* "idle", "starting", "ready"
    boxes,      \* the last opened first, each with the step that was current
    aborted     \* history: abort() of the launch task returned true

setup == <<kinds, profiled>>
outcome == <<task, running, finalized>>
child == <<process, killed, mayProceed, told>>
owner == <<controller, profiler>>
vars == <<setup, current, state, outcome, passed, child, owner, boxes, aborted>>

Boxes == {"progress", "profiler", "failure", "kill"}

TypeOK ==
    /\ kinds \in Launches /\ profiled \in BOOLEAN
    /\ current \in 1..Len(kinds)
    /\ state \in {"Running", "Waiting", "Aborted"}
    /\ task \in {"Running", "Succeeded", "Failed"}
    /\ running \in BOOLEAN /\ controller \in BOOLEAN /\ aborted \in BOOLEAN
    /\ passed \subseteq 1..Len(kinds)
    /\ finalized \in Seq(1..Len(kinds))
    /\ process \in {"none", "Starting", "Running"}
    /\ killed \in BOOLEAN /\ mayProceed \in BOOLEAN
    /\ told \in {"nothing", "launch", "abort"}
    /\ profiler \in {"idle", "starting", "ready"}
    /\ boxes \in Seq(Boxes \X (1..Len(kinds)))

Active == task = "Running"
Kind == kinds[current]
Box(name) == <<name, current>>
Top(name) == boxes # <<>> /\ Head(boxes)[1] = name

-----------------------------------------------------------------------------
(* The steps one after the other.  "open" are the boxes before.            *)

\* start() of step i.  A task asks for progress; the controller makes it proceed
\* and opens a dialog.
StartStep(i, open) ==
    /\ current' = i
    /\ process' = IF kinds[i] \in {"command", "game"} THEN "Starting" ELSE "none"
    /\ killed' = FALSE /\ mayProceed' = FALSE /\ told' = "nothing"
    /\ \/ kinds[i] = "task" /\ state' = "Waiting" /\ boxes' = <<<<"progress", i>>>> \o open
       \/ kinds[i] # "task" /\ boxes' = open /\ UNCHANGED state
    /\ UNCHANGED <<outcome, owner>>

\* Mutants of FinalizeSteps: the first step is forgotten, one before it is taken.
FinalizeStepsButFirst(result) ==
    /\ finalized' = finalized \o [n \in 1..(current - 1) |-> current + 1 - n]
    /\ task' = result /\ running' = FALSE
FinalizeStepsTooFar(result) ==
    /\ finalized' = finalized \o [n \in 1..(current + 1) |-> current + 1 - n]
    /\ task' = result /\ running' = FALSE
FinalizeSteps(result) ==
    /\ finalized' = finalized \o [n \in 1..current |-> current + 1 - n]
    /\ task' = result /\ running' = FALSE

\* The controller reports what the launch did and is let go of, with its profiler.
End(result, open) ==
    /\ FinalizeSteps(result)
    /\ controller' = FALSE /\ profiler' = "idle"
    /\ boxes' = open /\ process' = "none"
    /\ UNCHANGED <<current, killed, mayProceed, told>>

\* onStepFinished of a step that succeeded ...
StepSucceeds(open) ==
    /\ passed' = passed \cup {current}
    /\ \/ current < Len(kinds) /\ StartStep(current + 1, open)
       \/ current = Len(kinds) /\ End("Succeeded", open) /\ UNCHANGED state

\* ... or did not
StepFails(open) == End("Failed", open) /\ UNCHANGED passed

-----------------------------------------------------------------------------
(* proceed() and abort() of the launch task.                               *)

\* LaunchTask::proceed, with "phase" and "may" as the state and mayProceed
Proceed(phase, may) ==
    LET go == phase = "Waiting" /\ Kind = "game" /\ may
    IN  /\ told' = IF go THEN "launch" ELSE told
        /\ mayProceed' = (may /\ ~go)

\* abort() of a process.  A game that waits for a word gets one; it reads no
\* other afterwards.
\* Mutant of KillProcess: the process is not told, and ends as it likes.
KillProcessUnmarked(may) == mayProceed' = may /\ UNCHANGED <<told, killed>>
KillProcess(may) ==
    mayProceed' = may /\ killed' = (killed \/ process # "none") /\ UNCHANGED told

\* Mutant of StopProcess: a waiting game hears nothing.
StopProcessSilently(may) ==
    \/ Kind = "game" /\ may /\ mayProceed' = FALSE /\ UNCHANGED <<told, killed>>
    \/ ~(Kind = "game" /\ may) /\ KillProcess(may)
StopProcess(may) ==
    \/ Kind = "game" /\ may /\ mayProceed' = FALSE /\ told' = "abort" /\ UNCHANGED killed
    \/ ~(Kind = "game" /\ may) /\ KillProcess(may)

AbortProcess(may, open) ==
    /\ Kind \in {"command", "game"}
    /\ StopProcess(may)
    /\ state' = "Aborted" /\ aborted' = TRUE /\ boxes' = open
    /\ UNCHANGED <<current, outcome, passed, process>>

\* abort() of a query, which ends it.  (The dialog of a task is above every box
\* as long as the task runs: nobody gets to abort the launch.)
AbortQuery(open) ==
    /\ Active /\ Kind = "query"
    /\ StepFails(open)
    /\ state' = "Aborted" /\ aborted' = TRUE

\* an abort that is too late, a second one, or one of a step that cannot abort
AbortNothing(open) ==
    /\ state = "Aborted" \/ ~Active \/ Kind = "plain"
    /\ boxes' = open
    /\ UNCHANGED <<current, state, outcome, passed, child, aborted>>

-----------------------------------------------------------------------------
(* How steps end.                                                          *)

PlainEnds ==
    /\ Active /\ Kind = "plain"
    /\ StepSucceeds(boxes) \/ (StepFails(boxes) /\ UNCHANGED state)
    /\ UNCHANGED <<setup, aborted>>

\* a query that finds nothing has succeeded, too
QueryEnds ==
    /\ Active /\ Kind = "query"
    /\ StepSucceeds(boxes)
    /\ UNCHANGED <<setup, aborted>>

TaskEnds ==
    /\ Active /\ Kind = "task"
    /\ StepSucceeds(boxes) \/ (StepFails(boxes) /\ UNCHANGED state)
    /\ UNCHANGED <<setup, aborted>>

CommandRuns ==
    /\ process = "Starting" /\ Kind = "command"
    /\ process' = "Running"
    /\ UNCHANGED <<setup, current, state, outcome, passed, killed, mayProceed, told, owner, boxes, aborted>>

\* LauncherPartLaunch::on_state(Running) with readyForLaunch of the controller
GameRuns ==
    /\ process = "Starting" /\ Kind = "game"
    /\ process' = "Running"
    /\ state' = "Waiting"
    /\ \/ /\ ~profiled /\ Proceed("Waiting", TRUE)
          /\ UNCHANGED <<killed, owner, aborted>>
       \/ /\ profiled /\ mayProceed' = TRUE
          /\ profiler' = "starting"
          /\ UNCHANGED <<killed, told, controller, aborted>>
    /\ UNCHANGED <<setup, current, outcome, passed, boxes>>

\* the same when the profiler is not as it should be
GameRunsUnprofiled ==
    /\ process = "Starting" /\ Kind = "game" /\ profiled
    /\ process' = "Running"
    /\ mayProceed' = FALSE /\ told' = "abort" /\ UNCHANGED killed
    /\ state' = "Aborted" /\ aborted' = TRUE
    /\ controller' = FALSE /\ UNCHANGED profiler
    /\ UNCHANGED <<setup, current, outcome, passed, boxes>>

ProcessFailsToStart ==
    /\ process = "Starting"
    /\ StepFails(boxes)
    /\ UNCHANGED <<setup, state, aborted>>

ProcessFails ==
    /\ process = "Running"
    /\ StepFails(boxes)
    /\ UNCHANGED <<setup, state, aborted>>

\* the exit code is 0: never of a game that was not told to launch
ProcessSucceeds ==
    /\ process = "Running" /\ ~killed
    /\ Kind = "game" => told = "launch"
    /\ StepSucceeds(boxes)
    /\ UNCHANGED <<setup, aborted>>

-----------------------------------------------------------------------------
(* The controller, its boxes and the profiler.                             *)

\* Application::kill
Kill ==
    /\ running /\ controller /\ boxes = <<>>
    /\ state # "Aborted" /\ Kind \notin {"plain", "task"}
    /\ boxes' = <<Box("kill")>>
    /\ UNCHANGED <<setup, current, state, outcome, passed, child, owner, aborted>>

KillRefused ==
    /\ Top("kill")
    /\ boxes' = Tail(boxes)
    /\ UNCHANGED <<setup, current, state, outcome, passed, child, owner, aborted>>

KillConfirmed ==
    /\ Top("kill")
    /\ \/ state # "Aborted" /\ AbortProcess(mayProceed, Tail(boxes)) /\ UNCHANGED owner
       \/ state # "Aborted" /\ AbortQuery(Tail(boxes))
       \/ AbortNothing(Tail(boxes)) /\ UNCHANGED owner
    /\ UNCHANGED setup

\* the button of the progress dialog aborts the step itself, which may refuse
SkipButton ==
    /\ Active /\ Top("progress") /\ Head(boxes) = Box("progress")
    /\ StepFails(boxes)
    /\ UNCHANGED <<setup, state, aborted>>

\* its step is over
CloseProgress ==
    /\ Top("progress") /\ ~(Active /\ Head(boxes) = Box("progress"))
    /\ boxes' = Tail(boxes)
    /\ UNCHANGED <<setup, current, state, outcome, passed, child, owner, aborted>>

ProfilerReady ==
    /\ profiler = "starting"
    /\ profiler' = "ready"
    /\ boxes' = <<Box("profiler")>> \o boxes
    /\ UNCHANGED <<setup, current, state, outcome, passed, child, controller, aborted>>

ProfilerFails ==
    /\ profiler # "idle"
    /\ profiler' = "idle"
    /\ boxes' = <<Box("failure")>> \o boxes
    /\ UNCHANGED <<setup, current, state, outcome, passed, child, controller, aborted>>

\* The box outlives the controller it belongs to.  Then the code after it uses
\* what was deleted: it does its work or, in the end, nothing.
LaunchProfiled ==
    /\ Top("profiler")
    /\ boxes' = Tail(boxes)
    /\ \/ Proceed(state, mayProceed)
       \/ ~controller /\ UNCHANGED <<mayProceed, told>>
    /\ UNCHANGED <<setup, current, state, outcome, passed, process, killed, owner, aborted>>

AbortProfiled ==
    /\ Top("failure")
    /\ \/ state # "Aborted" /\ AbortProcess(mayProceed, Tail(boxes))
       \/ AbortNothing(Tail(boxes))
    /\ controller' = FALSE /\ profiler' = "idle"
    /\ UNCHANGED setup

-----------------------------------------------------------------------------
Init ==
    /\ kinds \in Launches /\ profiled \in BOOLEAN
    /\ current = 1 /\ state = "Running" /\ task = "Running" /\ running = TRUE
    /\ passed = {} /\ finalized = <<>>
    /\ process = "none" /\ killed = FALSE /\ mayProceed = FALSE /\ told = "nothing"
    /\ controller = TRUE /\ profiler = "idle"
    /\ boxes = <<>> /\ aborted = FALSE

Next ==
    \/ PlainEnds \/ QueryEnds \/ TaskEnds
    \/ CommandRuns \/ GameRuns \/ GameRunsUnprofiled
    \/ ProcessFailsToStart \/ ProcessFails \/ ProcessSucceeds
    \/ Kill \/ KillRefused \/ KillConfirmed
    \/ SkipButton \/ CloseProgress
    \/ ProfilerReady \/ ProfilerFails \/ LaunchProfiled \/ AbortProfiled

\* A process ends by itself, except for a game that waits for a word.  Dialogs
\* close after their step, and the user answers questions.  Nothing is expected
\* of a profiler.
Fairness ==
    /\ WF_vars(PlainEnds) /\ WF_vars(QueryEnds) /\ WF_vars(TaskEnds)
    /\ WF_vars(CommandRuns \/ GameRuns \/ ProcessFailsToStart)
    /\ WF_vars((Kind = "command" \/ killed \/ told # "nothing") /\ (ProcessFails \/ ProcessSucceeds))
    /\ WF_vars(CloseProgress)
    /\ WF_vars(KillRefused \/ KillConfirmed)
    /\ WF_vars(LaunchProfiled) /\ WF_vars(AbortProfiled)

Spec == Init /\ [][Next]_vars /\ Fairness

-----------------------------------------------------------------------------
(* Properties.                                                             *)

\* However a launch ends, each step that was started has been finalized once,
\* the last first, and the instance is not running; a launch only succeeds when
\* every step did; and nothing is finalized before.
CleanedUp ==
    /\ Active => finalized = <<>> /\ running
    /\ ~Active => finalized = [n \in 1..current |-> current + 1 - n] /\ ~running
    /\ task = "Succeeded" <=> passed = 1..Len(kinds)

\* Once abort() has returned true no further step is started, whatever the
\* current one still does and whichever boxes were open.
NothingStartsAfterAbort == [][aborted => current' = current /\ passed' = passed]_vars

\* Every launch comes to an end, with no box left open: by itself when it is not
\* to be profiled, and otherwise when it is aborted.
Ends == running /\ (~profiled \/ aborted) ~> ~running /\ boxes = <<>>
=============================================================================
