--------------------------- MODULE LaunchTask_proofs ---------------------------
(***************************************************************************)
(* Proofs about a launch, for any chains of steps: however it ends it is   *)
(* cleaned up once, and an abort that returned true is kept.               *)
(***************************************************************************)
EXTENDS LaunchTask, SequenceTheorems, TLAPS

HasProcess == Kind \in {"command", "game"}

(* Steps succeed one after the other; a launch fails at its current step.  *)
InTurn ==
    /\ task \in {"Running", "Failed"} => passed = 1..(current - 1)
    /\ task = "Succeeded" => passed = 1..Len(kinds)

(* There is a process exactly while a step with one is at work, and a game *)
(* that may proceed is running.                                            *)
OneProcess ==
    /\ Active => (process = "none" <=> ~HasProcess)
    /\ ~Active => process = "none"
    /\ Active /\ mayProceed => process = "Running"

(* After an abort nothing but a process is left, and it is killed or a     *)
(* game that was told to end.                                              *)
Stopped ==
    aborted /\ Active =>
        /\ HasProcess
        /\ \/ killed
           \/ Kind = "game" /\ told = "abort" /\ ~mayProceed /\ process = "Running"

Finalized ==
    /\ Active => finalized = <<>> /\ running
    /\ ~Active => finalized = [n \in 1..current |-> current + 1 - n] /\ ~running

Progress == InTurn /\ OneProcess /\ Stopped /\ Finalized

IInv == TypeOK /\ Progress

-----------------------------------------------------------------------------
(* Steps and boxes.                                                        *)

LEMMA Chain ==
    ASSUME TypeOK
    PROVE  /\ kinds \in Seq(Kinds) /\ Len(kinds) \in Nat /\ Len(kinds) >= 1
           /\ DOMAIN kinds = 1..Len(kinds)
           /\ \A i \in 1..Len(kinds) : kinds[i] \in Kinds
           /\ current \in 1..Len(kinds) /\ current \in Nat
<1>1. kinds \in Seq(Kinds) /\ kinds # <<>>
    BY LaunchesAssumption DEF TypeOK
<1>2. Len(kinds) \in Nat /\ Len(kinds) >= 1 /\ DOMAIN kinds = 1..Len(kinds)
    BY <1>1, EmptySeq, LenProperties
<1>3. \A i \in 1..Len(kinds) : kinds[i] \in Kinds
    BY <1>1, <1>2, ElementOfSeq
<1> QED
    BY <1>1, <1>2, <1>3 DEF TypeOK

(* One more box on top, or one less.                                       *)
LEMMA BoxOpened ==
    ASSUME NEW S, NEW open \in Seq(S), NEW b \in S
    PROVE  <<b>> \o open \in Seq(S)
<1>1. <<b>> \in Seq(S)
    OBVIOUS
<1> QED
    BY <1>1, ConcatProperties

LEMMA BoxClosed ==
    ASSUME TypeOK, boxes # <<>>
    PROVE  Tail(boxes) \in Seq(Boxes \X (1..Len(kinds)))
    BY HeadTailProperties DEF TypeOK

(* The steps that are finalized, the last first.                           *)
LastFirst(n) == [i \in 1..n |-> n + 1 - i]

LEMMA LastFirstSeq ==
    ASSUME NEW m \in Nat, NEW n \in 1..m
    PROVE  LastFirst(n) \in Seq(1..m) /\ <<>> \o LastFirst(n) = LastFirst(n)
<1>1. LastFirst(n) \in [1..n -> 1..m] /\ n \in Nat
    BY DEF LastFirst
<1>2. LastFirst(n) \in Seq(1..m)
    BY <1>1, SeqDef
<1> QED
    BY <1>2, ConcatEmptySeq

-----------------------------------------------------------------------------
(* The ends of steps.                                                      *)

BoxStack == Seq(Boxes \X (1..Len(kinds)))

LEMMA EndKeeps ==
    ASSUME IInv, Active, NEW result \in {"Succeeded", "Failed"}, NEW open \in BoxStack,
           End(result, open), UNCHANGED setup,
           result = "Failed" => passed' = passed,
           result = "Succeeded" => current = Len(kinds) /\ passed' = passed \cup {current},
           state' \in {"Running", "Waiting", "Aborted"}, aborted' \in BOOLEAN
    PROVE  IInv'
<1>1. /\ finalized' = finalized \o LastFirst(current) /\ task' = result /\ running' = FALSE
      /\ controller' = FALSE /\ profiler' = "idle" /\ boxes' = open /\ process' = "none"
      /\ UNCHANGED <<current, killed, mayProceed, told, kinds, profiled>>
    BY DEF End, FinalizeSteps, LastFirst, setup
<1>2. finalized' = LastFirst(current) /\ LastFirst(current) \in Seq(1..Len(kinds))
    BY <1>1, Chain, LastFirstSeq DEF IInv, Progress, Finalized
<1>3. passed = 1..(current - 1)
    BY DEF IInv, Progress, InTurn, Active
<1>4. passed' \subseteq 1..Len(kinds) /\ (result = "Failed" => passed' = 1..(current - 1))
      /\ (result = "Succeeded" => passed' = 1..Len(kinds))
  <2>1. current \in 1..Len(kinds) /\ Len(kinds) \in Nat
      BY Chain DEF IInv
  <2>2. CASE result = "Failed"
      BY <1>3, <2>1, <2>2
  <2>3. CASE result = "Succeeded"
    <3>1. current = Len(kinds) /\ passed' = (1..(current - 1)) \cup {current}
        BY <1>3, <2>3
    <3>2. (1..(current - 1)) \cup {current} = 1..current
        BY <2>1
    <3> QED
        BY <2>1, <2>3, <3>1, <3>2
  <2> QED
      BY <2>2, <2>3
<1>5. TypeOK'
    BY <1>1, <1>2, <1>4 DEF IInv, TypeOK, BoxStack
<1>6. ~Active'
    BY <1>1 DEF Active
<1>7. InTurn'
    BY <1>1, <1>4 DEF InTurn
<1>8. OneProcess' /\ Stopped'
    BY <1>1, <1>6 DEF OneProcess, Stopped
<1>9. Finalized'
    BY <1>1, <1>2, <1>6 DEF Finalized, LastFirst
<1> QED
    BY <1>5, <1>7, <1>8, <1>9 DEF IInv, Progress

LEMMA StepFailsKeeps ==
    ASSUME IInv, Active, NEW open \in BoxStack, StepFails(open), UNCHANGED setup,
           state' \in {"Running", "Waiting", "Aborted"}, aborted' \in BOOLEAN
    PROVE  IInv'
    BY EndKeeps DEF StepFails

LEMMA StepSucceedsKeeps ==
    ASSUME IInv, Active, ~aborted, StepSucceeds(boxes), UNCHANGED <<setup, aborted>>
    PROVE  IInv'
<1>1. boxes \in BoxStack /\ state \in {"Running", "Waiting", "Aborted"}
    BY DEF IInv, TypeOK, BoxStack
<1>2. CASE current = Len(kinds) /\ End("Succeeded", boxes) /\ UNCHANGED state /\ passed' = passed \cup {current}
    BY <1>1, <1>2, EndKeeps DEF IInv, TypeOK
<1>3. CASE current < Len(kinds) /\ StartStep(current + 1, boxes) /\ passed' = passed \cup {current}
  <2> DEFINE i == current + 1
  <2>1. /\ current' = i /\ i \in 1..Len(kinds) /\ i \in Nat
        /\ process' = IF kinds[i] \in {"command", "game"} THEN "Starting" ELSE "none"
        /\ killed' = FALSE /\ mayProceed' = FALSE /\ told' = "nothing"
        /\ UNCHANGED <<task, running, finalized, controller, profiler, kinds, profiled, aborted>>
      BY <1>3, Chain DEF StartStep, outcome, owner, setup, IInv
  <2>2. state' \in {"Running", "Waiting", "Aborted"} /\ boxes' \in BoxStack
    <3>1. CASE state' = "Waiting" /\ boxes' = <<<<"progress", i>>>> \o boxes
      <4>1. <<"progress", i>> \in Boxes \X (1..Len(kinds))
          BY <2>1 DEF Boxes
      <4> QED
          BY <1>1, <3>1, <4>1, BoxOpened DEF BoxStack
    <3>2. CASE boxes' = boxes /\ UNCHANGED state
        BY <1>1, <3>2
    <3> QED
        BY <1>3, <3>1, <3>2 DEF StartStep
  <2>3. passed' = 1..(i - 1) /\ passed' \subseteq 1..Len(kinds)
    <3>1. passed = 1..(current - 1) /\ passed' = passed \cup {current}
        BY <1>3 DEF IInv, Progress, InTurn, Active
    <3> QED
        BY <3>1, Chain DEF IInv
  <2>4. TypeOK'
      BY <2>1, <2>2, <2>3 DEF IInv, TypeOK, BoxStack
  <2>5. Active' /\ task' = "Running"
      BY <2>1 DEF Active
  <2>6. InTurn'
      BY <2>1, <2>3, <2>5 DEF InTurn
  <2>7. OneProcess'
      BY <2>1, <2>5 DEF OneProcess, HasProcess, Kind
  <2>8. Stopped'
      BY <2>1 DEF Stopped
  <2>9. Finalized'
      BY <2>1, <2>5 DEF IInv, Progress, Finalized
  <2> QED
      BY <2>4, <2>6, <2>7, <2>8, <2>9 DEF IInv, Progress
<1> QED
    BY <1>2, <1>3 DEF StepSucceeds

(* Only a step that an abort does not stop, or that was not aborted, ends  *)
(* with success.                                                           *)
LEMMA PlainEndsKeeps == ASSUME IInv, PlainEnds PROVE IInv'
<1>1. /\ Active /\ Kind = "plain" /\ UNCHANGED <<setup, aborted>>
      /\ StepSucceeds(boxes) \/ (StepFails(boxes) /\ UNCHANGED state)
    BY DEF PlainEnds
<1>2. ~aborted
    BY <1>1 DEF IInv, Progress, Stopped, HasProcess
<1>3. boxes \in BoxStack /\ state \in {"Running", "Waiting", "Aborted"} /\ aborted \in BOOLEAN
    BY DEF IInv, TypeOK, BoxStack
<1> QED
    BY <1>1, <1>2, <1>3, StepSucceedsKeeps, StepFailsKeeps

LEMMA QueryEndsKeeps == ASSUME IInv, QueryEnds PROVE IInv'
<1>1. ~aborted
    BY DEF QueryEnds, IInv, Progress, Stopped, HasProcess
<1> QED
    BY <1>1, StepSucceedsKeeps DEF QueryEnds

LEMMA TaskEndsKeeps == ASSUME IInv, TaskEnds PROVE IInv'
<1>1. /\ Active /\ Kind = "task" /\ UNCHANGED <<setup, aborted>>
      /\ StepSucceeds(boxes) \/ (StepFails(boxes) /\ UNCHANGED state)
    BY DEF TaskEnds
<1>2. ~aborted
    BY <1>1 DEF IInv, Progress, Stopped, HasProcess
<1>3. boxes \in BoxStack /\ state \in {"Running", "Waiting", "Aborted"} /\ aborted \in BOOLEAN
    BY DEF IInv, TypeOK, BoxStack
<1> QED
    BY <1>1, <1>2, <1>3, StepSucceedsKeeps, StepFailsKeeps

LEMMA ProcessFailsToStartKeeps == ASSUME IInv, ProcessFailsToStart PROVE IInv'
<1>1. Active
    BY DEF ProcessFailsToStart, IInv, Progress, OneProcess
<1>2. boxes \in BoxStack /\ state \in {"Running", "Waiting", "Aborted"} /\ aborted \in BOOLEAN
    BY DEF IInv, TypeOK, BoxStack
<1> QED
    BY <1>1, <1>2, StepFailsKeeps DEF ProcessFailsToStart, setup

LEMMA ProcessFailsKeeps == ASSUME IInv, ProcessFails PROVE IInv'
<1>1. Active
    BY DEF ProcessFails, IInv, Progress, OneProcess
<1>2. boxes \in BoxStack /\ state \in {"Running", "Waiting", "Aborted"} /\ aborted \in BOOLEAN
    BY DEF IInv, TypeOK, BoxStack
<1> QED
    BY <1>1, <1>2, StepFailsKeeps DEF ProcessFails, setup

LEMMA ProcessSucceedsKeeps == ASSUME IInv, ProcessSucceeds PROVE IInv'
<1>1. Active
    BY DEF ProcessSucceeds, IInv, Progress, OneProcess
<1>2. ~aborted
    BY <1>1 DEF ProcessSucceeds, IInv, Progress, Stopped
<1> QED
    BY <1>1, <1>2, StepSucceedsKeeps DEF ProcessSucceeds

-----------------------------------------------------------------------------
(* The rest leaves the steps where they are.                               *)

SameStep == UNCHANGED <<kinds, profiled, current, task, running, finalized, passed>>

LEMMA SameStepKeeps ==
    ASSUME IInv, SameStep,
           boxes' \in BoxStack, state' \in {"Running", "Waiting", "Aborted"},
           profiler' \in {"idle", "starting", "ready"}, controller' \in BOOLEAN,
           killed' \in BOOLEAN, mayProceed' \in BOOLEAN, aborted' \in BOOLEAN,
           told' \in {"nothing", "launch", "abort"}, process' \in {"none", "Starting", "Running"},
           OneProcess', Stopped'
    PROVE  IInv'
<1>1. TypeOK'
    BY DEF IInv, TypeOK, SameStep, BoxStack
<1>2. InTurn' /\ Finalized'
    BY DEF IInv, Progress, InTurn, Finalized, Active, SameStep
<1> QED
    BY <1>1, <1>2 DEF IInv, Progress

LEMMA AbortProcessKeeps ==
    ASSUME IInv, NEW open \in BoxStack, AbortProcess(mayProceed, open), UNCHANGED setup,
           controller' \in BOOLEAN, profiler' \in {"idle", "starting", "ready"}
    PROVE  IInv'
<1>1. /\ HasProcess /\ StopProcess(mayProceed)
      /\ state' = "Aborted" /\ aborted' = TRUE /\ boxes' = open
      /\ SameStep /\ process' = process
    BY DEF AbortProcess, HasProcess, SameStep, outcome, setup
<1>2. /\ Active' = Active /\ Kind' = Kind /\ HasProcess' = HasProcess
    BY <1>1 DEF SameStep, Active, Kind, HasProcess
<1>3. CASE Kind = "game" /\ mayProceed /\ mayProceed' = FALSE /\ told' = "abort" /\ UNCHANGED killed
  <2>1. OneProcess' /\ Stopped'
      BY <1>1, <1>2, <1>3 DEF IInv, Progress, OneProcess, Stopped
  <2> QED
      BY <1>1, <1>3, <2>1, SameStepKeeps DEF IInv, TypeOK
<1>4. CASE mayProceed' = mayProceed /\ killed' = (killed \/ process # "none") /\ told' = told
  <2>1. Active => killed'
      BY <1>1, <1>4 DEF IInv, Progress, OneProcess
  <2>2. OneProcess' /\ Stopped'
      BY <1>1, <1>2, <1>4, <2>1 DEF IInv, Progress, OneProcess, Stopped
  <2>3. killed' \in BOOLEAN
      BY <1>4 DEF IInv, TypeOK
  <2> QED
      BY <1>1, <1>4, <2>2, <2>3, SameStepKeeps DEF IInv, TypeOK
<1> QED
    BY <1>1, <1>3, <1>4 DEF StopProcess, KillProcess

(* Where the process, the words to the game and the abort stay the same.   *)
LEMMA SameChildKeeps ==
    ASSUME IInv, SameStep, UNCHANGED <<child, aborted>>,
           boxes' \in BoxStack, state' \in {"Running", "Waiting", "Aborted"},
           profiler' \in {"idle", "starting", "ready"}, controller' \in BOOLEAN
    PROVE  IInv'
<1>1. Active' = Active /\ Kind' = Kind /\ HasProcess' = HasProcess
    BY DEF SameStep, Active, Kind, HasProcess
<1>2. UNCHANGED <<process, killed, mayProceed, told>>
    BY DEF child
<1>3. OneProcess' /\ Stopped'
    BY <1>1, <1>2 DEF IInv, Progress, OneProcess, Stopped
<1> QED
    BY <1>2, <1>3, SameStepKeeps DEF IInv, TypeOK

LEMMA Owned ==
    ASSUME IInv
    PROVE  /\ boxes \in BoxStack /\ state \in {"Running", "Waiting", "Aborted"}
           /\ profiler \in {"idle", "starting", "ready"} /\ controller \in BOOLEAN
           /\ aborted \in BOOLEAN
           /\ boxes # <<>> => Tail(boxes) \in BoxStack
           /\ \A name \in Boxes : <<Box(name)>> \o boxes \in BoxStack
<1>1. boxes \in BoxStack
    BY DEF IInv, TypeOK, BoxStack
<1>2. ASSUME NEW name \in Boxes PROVE <<Box(name)>> \o boxes \in BoxStack
  <2>1. Box(name) \in Boxes \X (1..Len(kinds))
      BY DEF Box, IInv, TypeOK
  <2> QED
      BY <1>1, <2>1, BoxOpened DEF BoxStack
<1>3. boxes # <<>> => Tail(boxes) \in BoxStack
    BY BoxClosed DEF IInv, BoxStack
<1> QED
    BY <1>1, <1>2, <1>3 DEF IInv, TypeOK

LEMMA CommandRunsKeeps == ASSUME IInv, CommandRuns PROVE IInv'
<1>1. /\ process = "Starting" /\ Kind = "command" /\ process' = "Running"
      /\ SameStep /\ UNCHANGED <<state, killed, mayProceed, told, controller, profiler, boxes, aborted>>
    BY DEF CommandRuns, SameStep, setup, outcome, owner
<1>2. Active' = Active /\ Kind' = Kind /\ HasProcess' = HasProcess
    BY <1>1 DEF SameStep, Active, Kind, HasProcess
<1>3. OneProcess' /\ Stopped'
    BY <1>1, <1>2 DEF IInv, Progress, OneProcess, Stopped, HasProcess
<1> QED
    BY <1>1, <1>3, SameStepKeeps, Owned DEF IInv, TypeOK

LEMMA GameRunsKeeps == ASSUME IInv, GameRuns PROVE IInv'
<1>1. /\ process = "Starting" /\ Kind = "game" /\ process' = "Running" /\ state' = "Waiting"
      /\ SameStep /\ UNCHANGED <<killed, controller, boxes, aborted>>
    BY DEF GameRuns, SameStep, setup, outcome, owner
<1>2. /\ told' \in {told, "launch"} /\ mayProceed' \in BOOLEAN /\ profiler' \in {profiler, "starting"}
    BY DEF GameRuns, Proceed, owner
<1>3. Active /\ Active' /\ Kind' = Kind /\ HasProcess
    BY <1>1 DEF IInv, Progress, OneProcess, SameStep, Active, Kind, HasProcess
<1>4. HasProcess'
    BY <1>3 DEF HasProcess
<1>5. OneProcess'
    BY <1>1, <1>3, <1>4 DEF OneProcess
<1>6. Stopped'
    BY <1>1, <1>3, <1>4 DEF IInv, Progress, Stopped
<1> QED
    BY <1>1, <1>2, <1>5, <1>6, SameStepKeeps, Owned DEF IInv, TypeOK

LEMMA GameRunsUnprofiledKeeps == ASSUME IInv, GameRunsUnprofiled PROVE IInv'
<1>1. /\ process = "Starting" /\ Kind = "game" /\ process' = "Running" /\ state' = "Aborted"
      /\ mayProceed' = FALSE /\ told' = "abort" /\ aborted' = TRUE /\ controller' = FALSE
      /\ SameStep /\ UNCHANGED <<killed, profiler, boxes>>
    BY DEF GameRunsUnprofiled, SameStep, setup, outcome
<1>2. Active' = Active /\ Kind' = Kind /\ HasProcess' /\ Active
    BY <1>1 DEF IInv, Progress, OneProcess, SameStep, Active, Kind, HasProcess
<1>3. OneProcess' /\ Stopped'
    BY <1>1, <1>2 DEF OneProcess, Stopped
<1> QED
    BY <1>1, <1>3, SameStepKeeps, Owned DEF IInv, TypeOK

LEMMA KillKeeps == ASSUME IInv, Kill PROVE IInv'
<1>1. boxes = <<>> /\ boxes' = <<Box("kill")>> /\ "kill" \in Boxes
    BY DEF Kill, Boxes
<1>2. boxes' \in BoxStack
  <2>1. Box("kill") \in Boxes \X (1..Len(kinds))
      BY <1>1 DEF Box, IInv, TypeOK
  <2> QED
      BY <1>1, <2>1 DEF BoxStack
<1>3. SameStep /\ UNCHANGED <<child, aborted, state, profiler, controller>>
    BY DEF Kill, SameStep, setup, outcome, owner
<1> QED
    BY <1>2, <1>3, Owned, SameChildKeeps

LEMMA BoxClosedKeeps ==
    ASSUME IInv, KillRefused \/ CloseProgress PROVE IInv'
<1>1. boxes # <<>> /\ boxes' = Tail(boxes)
    BY DEF KillRefused, CloseProgress, Top
<1>2. SameStep /\ UNCHANGED <<child, aborted, state, profiler, controller>>
    BY DEF KillRefused, CloseProgress, SameStep, setup, outcome, owner
<1> QED
    BY <1>1, <1>2, Owned, SameChildKeeps

LEMMA AbortNothingKeeps ==
    ASSUME IInv, NEW open \in BoxStack, AbortNothing(open), UNCHANGED setup,
           controller' \in BOOLEAN, profiler' \in {"idle", "starting", "ready"}
    PROVE  IInv'
<1>1. boxes' = open /\ SameStep /\ UNCHANGED <<child, aborted, state>>
    BY DEF AbortNothing, SameStep, setup, outcome
<1> QED
    BY <1>1, Owned, SameChildKeeps

LEMMA KillConfirmedKeeps == ASSUME IInv, KillConfirmed PROVE IInv'
<1>1. boxes # <<>> /\ Tail(boxes) \in BoxStack /\ UNCHANGED setup
    BY Owned DEF KillConfirmed, Top
<1>2. CASE AbortProcess(mayProceed, Tail(boxes)) /\ UNCHANGED owner
    BY <1>1, <1>2, Owned, AbortProcessKeeps DEF owner
<1>3. CASE AbortQuery(Tail(boxes))
  <2>1. Active /\ StepFails(Tail(boxes)) /\ state' = "Aborted" /\ aborted' = TRUE
      BY <1>3 DEF AbortQuery
  <2> QED
      BY <1>1, <2>1, StepFailsKeeps
<1>4. CASE AbortNothing(Tail(boxes)) /\ UNCHANGED owner
    BY <1>1, <1>4, Owned, AbortNothingKeeps DEF owner
<1> QED
    BY <1>2, <1>3, <1>4 DEF KillConfirmed

LEMMA SkipButtonKeeps == ASSUME IInv, SkipButton PROVE IInv'
<1>1. Active /\ StepFails(boxes) /\ UNCHANGED <<setup, state, aborted>>
    BY DEF SkipButton
<1> QED
    BY <1>1, Owned, StepFailsKeeps

LEMMA ProfilerReadyKeeps == ASSUME IInv, ProfilerReady PROVE IInv'
<1>1. boxes' = <<Box("profiler")>> \o boxes /\ "profiler" \in Boxes /\ profiler' = "ready"
    BY DEF ProfilerReady, Boxes
<1>2. SameStep /\ UNCHANGED <<child, aborted, state, controller>>
    BY DEF ProfilerReady, SameStep, setup, outcome
<1> QED
    BY <1>1, <1>2, Owned, SameChildKeeps

LEMMA ProfilerFailsKeeps == ASSUME IInv, ProfilerFails PROVE IInv'
<1>1. boxes' = <<Box("failure")>> \o boxes /\ "failure" \in Boxes /\ profiler' = "idle"
    BY DEF ProfilerFails, Boxes
<1>2. SameStep /\ UNCHANGED <<child, aborted, state, controller>>
    BY DEF ProfilerFails, SameStep, setup, outcome
<1> QED
    BY <1>1, <1>2, Owned, SameChildKeeps

LEMMA LaunchProfiledKeeps == ASSUME IInv, LaunchProfiled PROVE IInv'
<1>1. /\ boxes # <<>> /\ boxes' = Tail(boxes) /\ SameStep
      /\ UNCHANGED <<state, process, killed, controller, profiler, aborted>>
    BY DEF LaunchProfiled, Top, SameStep, setup, outcome, owner
<1>2. \/ told' = "launch" /\ mayProceed /\ mayProceed' = FALSE
      \/ told' = told /\ mayProceed' = mayProceed
    BY DEF LaunchProfiled, Proceed, IInv, TypeOK
<1>3. Active' = Active /\ Kind' = Kind /\ HasProcess' = HasProcess
    BY <1>1 DEF SameStep, Active, Kind, HasProcess
<1>4. OneProcess' /\ Stopped'
    BY <1>1, <1>2, <1>3 DEF IInv, Progress, OneProcess, Stopped
<1>5. boxes' \in BoxStack /\ state' \in {"Running", "Waiting", "Aborted"}
      /\ profiler' \in {"idle", "starting", "ready"} /\ controller' \in BOOLEAN
      /\ aborted' \in BOOLEAN
    BY <1>1, Owned
<1>6. killed' \in BOOLEAN /\ process' \in {"none", "Starting", "Running"}
    BY <1>1 DEF IInv, TypeOK
<1>7. mayProceed' \in BOOLEAN
    BY <1>2 DEF IInv, TypeOK
<1>8. told' \in {"nothing", "launch", "abort"}
    BY <1>2 DEF IInv, TypeOK
<1>9. SameStep
    BY <1>1
<1> QED
    BY <1>4, <1>5, <1>6, <1>7, <1>8, <1>9, SameStepKeeps

LEMMA AbortProfiledKeeps == ASSUME IInv, AbortProfiled PROVE IInv'
<1>1. boxes # <<>> /\ Tail(boxes) \in BoxStack /\ UNCHANGED setup
      /\ controller' = FALSE /\ profiler' = "idle"
    BY Owned DEF AbortProfiled, Top
<1> QED
    BY <1>1, AbortProcessKeeps, AbortNothingKeeps DEF AbortProfiled

-----------------------------------------------------------------------------
LEMMA InitIInv == Init => IInv
<1> SUFFICES ASSUME Init PROVE IInv
    OBVIOUS
<1>1. kinds # <<>> /\ kinds \in Seq(Kinds) /\ Head(kinds) = "plain"
    BY LaunchesAssumption DEF Init
<1>2. Len(kinds) \in Nat /\ Len(kinds) >= 1 /\ kinds[1] = "plain"
    BY <1>1, EmptySeq, LenProperties, HeadTailProperties
<1>3. TypeOK
  <2>1. <<>> \in Seq(1..Len(kinds)) /\ <<>> \in Seq(Boxes \X (1..Len(kinds)))
      BY EmptySeq
  <2>2. finalized \in Seq(1..Len(kinds)) /\ boxes \in Seq(Boxes \X (1..Len(kinds)))
      BY <2>1 DEF Init
  <2>3. kinds \in Launches /\ current \in 1..Len(kinds) /\ passed \subseteq 1..Len(kinds)
      BY <1>2 DEF Init
  <2>4. profiled \in BOOLEAN /\ running \in BOOLEAN /\ controller \in BOOLEAN
        /\ aborted \in BOOLEAN /\ killed \in BOOLEAN /\ mayProceed \in BOOLEAN
      BY DEF Init
  <2>5. state = "Running" /\ task = "Running" /\ process = "none" /\ told = "nothing"
        /\ profiler = "idle"
      BY DEF Init
  <2> QED
      BY <2>2, <2>3, <2>4, <2>5 DEF TypeOK
<1>4. Active /\ current = 1 /\ task = "Running" /\ passed = {} /\ Kind = "plain"
    BY <1>2 DEF Init, Active, Kind
<1>5. InTurn
    BY <1>4 DEF InTurn
<1>6. OneProcess /\ Stopped /\ Finalized
    BY <1>4 DEF Init, OneProcess, Stopped, Finalized, HasProcess
<1> QED
    BY <1>3, <1>5, <1>6 DEF IInv, Progress

LEMMA StutterKeeps == ASSUME IInv, UNCHANGED vars PROVE IInv'
<1>1. SameStep /\ UNCHANGED <<child, aborted, boxes, state, profiler, controller>>
    BY DEF vars, setup, outcome, child, owner, SameStep
<1> QED
    BY <1>1, Owned, SameChildKeeps

LEMMA NextKeeps == IInv /\ [Next]_vars => IInv'
<1> SUFFICES ASSUME IInv, [Next]_vars PROVE IInv'
    OBVIOUS
<1>1. CASE PlainEnds \/ QueryEnds \/ TaskEnds
    BY <1>1, PlainEndsKeeps, QueryEndsKeeps, TaskEndsKeeps
<1>2. CASE CommandRuns \/ GameRuns \/ GameRunsUnprofiled
    BY <1>2, CommandRunsKeeps, GameRunsKeeps, GameRunsUnprofiledKeeps
<1>3. CASE ProcessFailsToStart \/ ProcessFails \/ ProcessSucceeds
    BY <1>3, ProcessFailsToStartKeeps, ProcessFailsKeeps, ProcessSucceedsKeeps
<1>4. CASE Kill \/ KillRefused \/ KillConfirmed
    BY <1>4, KillKeeps, BoxClosedKeeps, KillConfirmedKeeps
<1>5. CASE SkipButton \/ CloseProgress
    BY <1>5, SkipButtonKeeps, BoxClosedKeeps
<1>6. CASE ProfilerReady \/ ProfilerFails \/ LaunchProfiled \/ AbortProfiled
    BY <1>6, ProfilerReadyKeeps, ProfilerFailsKeeps, LaunchProfiledKeeps, AbortProfiledKeeps
<1>7. CASE UNCHANGED vars
    BY <1>7, StutterKeeps
<1> QED
    BY <1>1, <1>2, <1>3, <1>4, <1>5, <1>6, <1>7 DEF Next

LEMMA Invariance == Spec => []IInv
    BY InitIInv, NextKeeps, PTL DEF Spec

(* A step that succeeds was not aborted; every other one, and the steps of *)
(* the user, leave the launch at its step.                                 *)
LEMMA AbortedStays ==
    ASSUME IInv, aborted, [Next]_vars PROVE current' = current /\ passed' = passed
<1>1. CASE PlainEnds \/ QueryEnds \/ TaskEnds
  <2>1. Active /\ Kind \in {"plain", "query", "task"}
      BY <1>1 DEF PlainEnds, QueryEnds, TaskEnds
  <2> QED
      BY <2>1 DEF IInv, Progress, Stopped, HasProcess
<1>2. CASE CommandRuns \/ GameRuns \/ GameRunsUnprofiled
    BY <1>2 DEF CommandRuns, GameRuns, GameRunsUnprofiled
<1>3. CASE ProcessFailsToStart \/ ProcessFails
    BY <1>3 DEF ProcessFailsToStart, ProcessFails, StepFails, End
<1>4. CASE ProcessSucceeds
    BY <1>4 DEF ProcessSucceeds, IInv, Progress, OneProcess, Stopped
<1>5. CASE Kill \/ KillRefused \/ KillConfirmed
    BY <1>5 DEF Kill, KillRefused, KillConfirmed, AbortProcess, AbortQuery, AbortNothing, StepFails, End
<1>6. CASE SkipButton \/ CloseProgress
    BY <1>6 DEF SkipButton, CloseProgress, StepFails, End
<1>7. CASE ProfilerReady \/ ProfilerFails \/ LaunchProfiled \/ AbortProfiled
    BY <1>7 DEF ProfilerReady, ProfilerFails, LaunchProfiled, AbortProfiled, AbortProcess, AbortNothing
<1>8. CASE UNCHANGED vars
    BY <1>8 DEF vars
<1> QED
    BY <1>1, <1>2, <1>3, <1>4, <1>5, <1>6, <1>7, <1>8 DEF Next

LEMMA CleanedUpFollows == IInv => CleanedUp
<1> SUFFICES ASSUME IInv PROVE CleanedUp
    OBVIOUS
<1>1. (Active => finalized = <<>> /\ running)
      /\ (~Active => finalized = [n \in 1..current |-> current + 1 - n] /\ ~running)
    BY DEF IInv, Progress, Finalized
<1>2. task = "Succeeded" => passed = 1..Len(kinds)
    BY DEF IInv, Progress, InTurn
<1>3. task # "Succeeded" => passed # 1..Len(kinds)
  <2> SUFFICES ASSUME task # "Succeeded" PROVE passed # 1..Len(kinds)
      OBVIOUS
  <2>1. passed = 1..(current - 1)
      BY DEF IInv, TypeOK, Progress, InTurn
  <2>2. current \in 1..Len(kinds) /\ current \notin 1..(current - 1)
      BY Chain DEF IInv
  <2> QED
      BY <2>1, <2>2
<1> QED
    BY <1>1, <1>2, <1>3 DEF CleanedUp

(* Everything about a launch stays in its type, whatever steps it has.     *)
THEOREM TypeCorrect == Spec => []TypeOK
<1>1. IInv => TypeOK
    BY DEF IInv
<1> QED
    BY <1>1, Invariance, PTL

(* Every step that was started is finalized once, the last first, when the *)
(* launch ends and not before, and success is the success of every step    *)
(* (LaunchTask::onStepFinished, finalizeSteps).                            *)
THEOREM LaunchIsCleanedUp == Spec => []CleanedUp
    BY Invariance, CleanedUpFollows, PTL

(* After abort() returned true the launch stays at its step, whatever the  *)
(* process, the profiler and the open boxes still do (LaunchTask::abort).  *)
THEOREM AbortIsKept == Spec => NothingStartsAfterAbort
<1>1. IInv /\ [Next]_vars => [aborted => current' = current /\ passed' = passed]_vars
    BY AbortedStays
<1> QED
    BY <1>1, Invariance, PTL DEF Spec, NothingStartsAfterAbort

=============================================================================
