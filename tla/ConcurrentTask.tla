--------------------------- MODULE ConcurrentTask ---------------------------
(***************************************************************************)
(* The composite tasks of src/launcher/tasks: ConcurrentTask and its two   *)
(* subclasses SequentialTask and MultipleOptionsTask, driving sub tasks    *)
(* that follow Task.cpp.                                                   *)
(*                                                                         *)
(* Everything runs on one thread.  What interleaves are the entries of     *)
(* Qt's event queue: executeNextSubTask of the job and start of a sub task *)
(* are only ever posted (Qt::QueuedConnection), the signals of a sub task  *)
(* are direct calls.  Each action is one such turn of the event loop: a    *)
(* posted call, a call by the owner of the job (addTask, start, abort,     *)
(* clear), or the end of a sub task's own asynchronous work.               *)
(***************************************************************************)
EXTENDS Naturals, Sequences, FiniteSets

CONSTANTS
    Tasks,          \* the sub tasks
    Job,            \* the composite task as the receiver of a posted event
    Abortable,      \* the sub tasks whose canAbort() is true
    MaxConcurrent,  \* m_total_max_size of a plain ConcurrentTask
    Kinds,          \* which of the three classes the job may be
    MaxRuns,        \* bound: how often the job is started
    ReuseAborted    \* does the owner clear() and start again what it aborted?

ASSUME TasksAssumption == IsFiniteSet(Tasks) /\ Job \notin Tasks
ASSUME AbortableAssumption == Abortable \subseteq Tasks
ASSUME MaxConcurrentAssumption == MaxConcurrent \in Nat \ {0}
ASSUME KindsAssumption ==
    Kinds \subseteq {"ConcurrentTask", "SequentialTask", "MultipleOptionsTask"}

VARIABLES
    kind,     \* the class of the job; never changes
    state,    \* Task::m_state of the job
    queue,    \* m_queue
    doing,    \* m_doing; a sub task's signals are connected while it is here
    done,     \* m_done
    failed,   \* m_failed
    deaf,     \* sub tasks whose aborted() signal abort() disconnected
    sub,      \* Task::m_state of each sub task
    events,   \* the event queue: an entry names its receiver
    signals,  \* history: the terminal signals of this run, in order
    added,    \* history: the sub tasks added since the last clear(), in order
    runs      \* history: the number of calls of start()

jobVars == <<queue, doing, done, failed>>
vars == <<kind, state, queue, doing, done, failed, deaf, sub, events, signals, added, runs>>

TaskState == {"Inactive", "Running", "Succeeded", "Failed", "AbortedByUser"}
Terminal == {"Succeeded", "Failed", "AbortedByUser"}

Elements(s) == {s[i] : i \in DOMAIN s}

\* mutant: every class keeps the limit of a plain ConcurrentTask
MaxSizeForAll == MaxConcurrent

MaxSize == IF kind = "ConcurrentTask" THEN MaxConcurrent ELSE 1

TypeOK ==
    /\ kind \in Kinds
    /\ state \in TaskState
    /\ queue \in Seq(Tasks)
    /\ doing \subseteq Tasks
    /\ done \subseteq Tasks
    /\ failed \subseteq done
    /\ deaf \subseteq Tasks
    /\ sub \in [Tasks -> TaskState]
    /\ events \in Seq(Tasks \cup {Job})
    /\ signals \in Seq(Terminal)
    /\ added \in Seq(Tasks)
    /\ runs \in Nat

Init ==
    /\ kind \in Kinds
    /\ state = "Inactive"
    /\ queue = <<>>
    /\ doing = {} /\ done = {} /\ failed = {}
    /\ deaf = {}
    /\ sub = [t \in Tasks |-> "Inactive"]
    /\ events = <<>>
    /\ signals = <<>>
    /\ added = <<>>
    /\ runs = 0

(***************************************************************************)
(* Task::emitSucceeded, emitFailed and emitAborted share one shape: nothing *)
(* unless the task is running, else the state and the terminal signal.     *)
(***************************************************************************)
\* mutant: without the check of isRunning()
EmitAlways(outcome) == state' = outcome /\ signals' = Append(signals, outcome)

Emit(outcome) ==
    IF state = "Running"
    THEN state' = outcome /\ signals' = Append(signals, outcome)
    ELSE UNCHANGED <<state, signals>>

-----------------------------------------------------------------------------
(* What the owner of the job calls.                                        *)

\* A sub task is added once, to a job whose end has not been reported.
AddTask(t) ==
    /\ signals = <<>>
    /\ sub[t] = "Inactive" /\ t \notin Elements(queue) \cup doing \cup Elements(events)
    /\ t \notin Elements(added)
    /\ queue' = Append(queue, t)
    /\ added' = Append(added, t)
    /\ UNCHANGED <<kind, state, doing, done, failed, deaf, sub, events, signals, runs>>

\* Task::start and ConcurrentTask::executeTask: one posted call per slot.
Start ==
    /\ signals = <<>> /\ runs < MaxRuns
    /\ state # "Running"
    /\ state' = "Running"
    /\ events' = events \o [i \in 1..MaxSize |-> Job]
    /\ runs' = runs + 1
    /\ UNCHANGED <<kind, jobVars, deaf, sub, signals, added>>

\* With nothing in flight the signals are emitted past the running check, and
\* m_state stays what it was.  Otherwise Task::abort is called on every sub
\* task in m_doing, which keeps its entries.
Abort ==
    /\ signals = <<>> /\ state \in {"Inactive", "Running"}
    /\ queue' = <<>>
    /\ \/ /\ doing = {}
          /\ signals' = Append(signals, "AbortedByUser")
          /\ UNCHANGED <<state, deaf, sub>>
       \/ /\ doing # {}
          /\ deaf' = deaf \cup doing
          /\ sub' = [t \in Tasks |->
                IF t \in doing \cap Abortable /\ sub[t] = "Running"
                THEN "AbortedByUser" ELSE sub[t]]
          /\ Emit(IF doing \subseteq Abortable THEN "AbortedByUser" ELSE "Failed")
    /\ UNCHANGED <<kind, doing, done, failed, events, added, runs>>

\* clear() before the job is used again; m_doing is not among what it resets.
Clear ==
    /\ state # "Running"
    /\ signals # <<>> /\ runs < MaxRuns
    /\ ReuseAborted \/ (signals \in {<<"Succeeded">>, <<"Failed">>} /\ deaf = {})
    /\ done' = {} /\ failed' = {}
    /\ queue' = <<>>
    /\ signals' = <<>> /\ added' = <<>>
    /\ UNCHANGED <<kind, state, doing, deaf, sub, events, runs>>

-----------------------------------------------------------------------------
(* Posted calls.                                                           *)

NextPosted == events # <<>> /\ Head(events) = Job

OptionFound ==
    kind = "MultipleOptionsTask" /\ Cardinality(done) # Cardinality(failed)
OptionsExhausted ==
    kind = "MultipleOptionsTask" /\ ~OptionFound /\ queue = <<>>

\* MultipleOptionsTask::executeNextSubTask, the part before the base class
SettleOptions ==
    /\ NextPosted
    /\ \/ OptionFound /\ Emit("Succeeded")
       \/ OptionsExhausted /\ Emit("Failed")
    /\ events' = Tail(events)
    /\ UNCHANGED <<kind, jobVars, deaf, sub, added, runs>>

\* mutant: one sub task too many
MayStartOneMore == state = "Running" /\ Cardinality(doing) <= MaxSize

MayStartMore == state = "Running" /\ Cardinality(doing) < MaxSize

\* the early returns of ConcurrentTask::executeNextSubTask
SkipNext ==
    /\ NextPosted /\ ~OptionFound /\ ~OptionsExhausted
    /\ ~MayStartMore \/ (queue = <<>> /\ doing # {})
    /\ events' = Tail(events)
    /\ UNCHANGED <<kind, state, jobVars, deaf, sub, signals, added, runs>>

\* mutant: an empty queue is enough to finish
FinishJobEarly ==
    /\ NextPosted /\ ~OptionFound /\ ~OptionsExhausted
    /\ MayStartMore /\ queue = <<>>
    /\ Emit(IF failed = {} THEN "Succeeded" ELSE "Failed")
    /\ events' = Tail(events)
    /\ UNCHANGED <<kind, jobVars, deaf, sub, added, runs>>

FinishJob ==
    /\ NextPosted /\ ~OptionFound /\ ~OptionsExhausted
    /\ MayStartMore /\ queue = <<>> /\ doing = {}
    /\ Emit(IF failed = {} THEN "Succeeded" ELSE "Failed")
    /\ events' = Tail(events)
    /\ UNCHANGED <<kind, jobVars, deaf, sub, added, runs>>

\* mutant: the start of the sub task is not posted
StartSubTaskUnposted ==
    /\ NextPosted /\ ~OptionFound /\ ~OptionsExhausted
    /\ MayStartMore /\ queue # <<>>
    /\ doing' = doing \cup {Head(queue)}
    /\ deaf' = deaf \ {Head(queue)}
    /\ queue' = Tail(queue)
    /\ events' = Tail(events)
    /\ UNCHANGED <<kind, state, done, failed, sub, signals, added, runs>>

StartSubTask ==
    /\ NextPosted /\ ~OptionFound /\ ~OptionsExhausted
    /\ MayStartMore /\ queue # <<>>
    /\ doing' = doing \cup {Head(queue)}
    /\ deaf' = deaf \ {Head(queue)}
    /\ queue' = Tail(queue)
    /\ events' = Append(Tail(events), Head(queue))
    /\ UNCHANGED <<kind, state, done, failed, sub, signals, added, runs>>

ExecuteNextSubTask == SettleOptions \/ SkipNext \/ FinishJob \/ StartSubTask

\* Task::start of a sub task: whatever its state, except when it is running
RunSubTask(t) ==
    /\ events # <<>> /\ Head(events) = t
    /\ sub' = [sub EXCEPT ![t] = "Running"]
    /\ events' = Tail(events)
    /\ UNCHANGED <<kind, state, jobVars, deaf, signals, added, runs>>

-----------------------------------------------------------------------------
(* The signals of a sub task.                                              *)

\* mutants: the end of a sub task is not followed by another call ...
SubTaskFinishedQuietly(t, ok) ==
    /\ done' = done \cup {t}
    /\ failed' = IF ok THEN failed ELSE failed \cup {t}
    /\ doing' = doing \ {t}
    /\ UNCHANGED <<kind, queue, deaf, added, runs, events>>

\* ... a failure is not remembered ...
SubTaskFinishedForgiven(t, ok) ==
    /\ done' = done \cup {t}
    /\ doing' = doing \ {t}
    /\ events' = Append(events, Job)
    /\ UNCHANGED <<kind, queue, deaf, added, runs, failed>>

\* ... or a failure is not counted as done
SubTaskFinishedApart(t, ok) ==
    /\ done' = IF ok THEN done \cup {t} ELSE done
    /\ failed' = IF ok THEN failed ELSE failed \cup {t}
    /\ doing' = doing \ {t}
    /\ events' = Append(events, Job)
    /\ UNCHANGED <<kind, queue, deaf, added, runs>>

SubTaskFinished(t, ok) ==
    /\ done' = done \cup {t}
    /\ failed' = IF ok THEN failed ELSE failed \cup {t}
    /\ doing' = doing \ {t}
    /\ events' = Append(events, Job)
    /\ UNCHANGED <<kind, queue, deaf, added, runs>>

\* SequentialTask::subTaskFailed fails the job before the base class runs
SubTaskFailed(t) ==
    /\ IF kind = "SequentialTask" THEN Emit("Failed") ELSE UNCHANGED <<state, signals>>
    /\ SubTaskFinished(t, FALSE)

SubTaskSucceeds(t) ==
    /\ sub[t] = "Running"
    /\ sub' = [sub EXCEPT ![t] = "Succeeded"]
    /\ SubTaskFinished(t, TRUE)
    /\ UNCHANGED <<state, signals>>

SubTaskFails(t) ==
    /\ sub[t] = "Running"
    /\ sub' = [sub EXCEPT ![t] = "Failed"]
    /\ SubTaskFailed(t)

\* a sub task that aborts by itself, without the job asking
SubTaskAborts(t) ==
    /\ sub[t] = "Running"
    /\ sub' = [sub EXCEPT ![t] = "AbortedByUser"]
    /\ IF t \in deaf
       THEN UNCHANGED <<kind, state, jobVars, deaf, events, signals, added, runs>>
       ELSE SubTaskFailed(t)

SubTaskEnds(t) == SubTaskSucceeds(t) \/ SubTaskFails(t) \/ SubTaskAborts(t)

-----------------------------------------------------------------------------
EventLoop == ExecuteNextSubTask \/ \E t \in Tasks : RunSubTask(t)

Next ==
    \/ \E t \in Tasks : AddTask(t)
    \/ Start
    \/ Abort
    \/ Clear
    \/ SettleOptions
    \/ SkipNext
    \/ FinishJob
    \/ StartSubTask
    \/ \E t \in Tasks : RunSubTask(t)
    \/ \E t \in Tasks : SubTaskSucceeds(t)
    \/ \E t \in Tasks : SubTaskFails(t)
    \/ \E t \in Tasks : SubTaskAborts(t)

Spec == Init /\ [][Next]_vars

\* The event loop keeps running, and the work of every sub task ends.
Fairness ==
    /\ WF_vars(EventLoop)
    /\ \A t \in Tasks : WF_vars(SubTaskEnds(t))

FairSpec == Spec /\ Fairness

-----------------------------------------------------------------------------
(* Properties.                                                             *)

\* While the job runs something will still call executeNextSubTask: a posted
\* call, or a sub task that is running or posted and whose end posts one.
NoLostWakeup ==
    state = "Running" =>
        \/ Job \in Elements(events)
        \/ \E t \in doing : sub[t] = "Running" \/ t \in Elements(events)

\* A job whose only report was "succeeded" had all of its sub tasks succeed;
\* a MultipleOptionsTask had exactly one do so (the class stops at the first).
HonestSuccess ==
    signals = <<"Succeeded">> =>
        LET good == {t \in Elements(added) : sub[t] = "Succeeded"}
        IN  IF kind = "MultipleOptionsTask"
            THEN Cardinality(good) = 1
            ELSE good = Elements(added)

\* The one-at-a-time classes try the sub tasks in the order they were added,
\* and go on to the next one only after the earlier ones went well
\* (SequentialTask) or did not (MultipleOptionsTask).
TriedInOrder ==
    kind # "ConcurrentTask" =>
        \A i, j \in DOMAIN added :
            i < j /\ sub[added[j]] # "Inactive" =>
                sub[added[i]] \in IF kind = "SequentialTask"
                                  THEN {"Succeeded"} ELSE {"Failed", "AbortedByUser"}

\* Only an owner who called abort() can hear a second terminal signal.
SingleOutcome == Len(signals) > 1 => signals[1] = "AbortedByUser"

\* A job that ended without abort() leaves no sub task running or about to.
NoOrphans ==
    signals \in {<<"Succeeded">>, <<"Failed">>} /\ deaf = {} =>
        /\ \A t \in Tasks : sub[t] # "Running"
        /\ Elements(events) \subseteq {Job}

\* A started job ends, also when its owner uses it again or aborts it.
Terminates == state = "Running" ~> state # "Running"

\* The job implements the pool of sub tasks its owner thinks of.
PhaseOf(t) ==
    CASE t \in doing -> "active"
      [] t \in Elements(queue) -> "waiting"
      [] t \in failed -> "bad"
      [] t \in done \ failed -> "ok"
      [] OTHER -> "new"

Pool == INSTANCE TaskPool WITH
    phase <- [t \in Tasks |-> PhaseOf(t)],
    width <- MaxSize,
    goal <- IF kind = "MultipleOptionsTask" THEN "any" ELSE "all"

ImplementsPool == Pool!PoolSpec
=============================================================================
