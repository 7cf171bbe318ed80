------------------------ MODULE ConcurrentTask_proofs ------------------------
(***************************************************************************)
(* Theorems about ConcurrentTask, for every set of sub tasks, every        *)
(* concurrency limit and each of the three classes: types and reports,     *)
(* progress, what the end of a job says about its sub tasks, their order,  *)
(* and that a job is a TaskPool.  Where a theorem is about an owner who    *)
(* does not use an aborted job again it says so (ConcurrentTask::clear     *)
(* leaves m_doing as it is).                                               *)
(***************************************************************************)
EXTENDS ConcurrentTask, SequenceTheorems, FiniteSetTheorems, TLAPS

-----------------------------------------------------------------------------
(* Sequences as queues: what is in them after a push or a pop.             *)

\* No element of T occurs twice in s.
Once(s, T) == \A i, j \in DOMAIN s : s[i] = s[j] /\ s[i] \in T => i = j

LEMMA ElementsEmpty == Elements(<<>>) = {}
  BY DEF Elements

LEMMA ElementsType ==
  ASSUME NEW S, NEW s \in Seq(S)
  PROVE  Elements(s) \subseteq S
  BY DEF Elements

LEMMA ElementsAppend ==
  ASSUME NEW S, NEW s \in Seq(S), NEW e \in S
  PROVE  Elements(Append(s, e)) = Elements(s) \cup {e}
<1> DEFINE a == Append(s, e)
<1>1. a \in Seq(S) /\ Len(a) = Len(s) + 1 /\ Len(s) \in Nat
      /\ DOMAIN a = 1..Len(a) /\ DOMAIN s = 1..Len(s)
  BY AppendProperties, LenProperties
<1>2. a[Len(s) + 1] = e /\ \A i \in 1..Len(s) : a[i] = s[i]
  BY AppendProperties
<1> HIDE DEF a
<1>3. Elements(a) \subseteq Elements(s) \cup {e}
  BY <1>1, <1>2 DEF Elements
<1>4. Elements(s) \cup {e} \subseteq Elements(a)
  BY <1>1, <1>2 DEF Elements
<1>5. QED
  BY <1>3, <1>4 DEF a

LEMMA ElementsTail ==
  ASSUME NEW S, NEW s \in Seq(S), s # <<>>
  PROVE  /\ Elements(s) = Elements(Tail(s)) \cup {Head(s)}
         /\ Tail(s) \in Seq(S) /\ Head(s) \in S
<1> DEFINE r == Tail(s)
<1>1. /\ Head(s) = s[1] /\ Head(s) \in S
      /\ r \in Seq(S) /\ Len(r) = Len(s) - 1
      /\ \A i \in 1..Len(r) : r[i] = s[i + 1]
  BY HeadTailProperties
<1>2. /\ Len(s) \in Nat \ {0} /\ DOMAIN s = 1..Len(s)
      /\ DOMAIN r = 1..Len(r)
  BY <1>1, EmptySeq, LenProperties
<1> HIDE DEF r
<1>3. Elements(r) \cup {Head(s)} \subseteq Elements(s)
  <2>1. Head(s) \in Elements(s)
    BY <1>1, <1>2 DEF Elements
  <2>2. ASSUME NEW i \in 1..Len(r) PROVE r[i] \in Elements(s)
    <3>1. i + 1 \in 1..Len(s)
      BY <1>1, <1>2
    <3>2. QED
      BY <1>1, <1>2, <3>1 DEF Elements
  <2>3. QED
    BY <1>2, <2>1, <2>2 DEF Elements
<1>4. ASSUME NEW i \in 1..Len(s)
      PROVE  s[i] \in Elements(r) \cup {Head(s)}
  <2>1. CASE i = 1
    BY <2>1, <1>1
  <2>2. CASE i # 1
    <3>1. i - 1 \in 1..Len(r) /\ r[i - 1] = s[i]
      BY <2>2, <1>1, <1>2
    <3>2. QED
      BY <3>1, <1>2 DEF Elements
  <2>3. QED
    BY <2>1, <2>2
<1>5. QED
  BY <1>1, <1>2, <1>3, <1>4 DEF Elements, r

LEMMA ElementsConcat ==
  ASSUME NEW S, NEW s \in Seq(S), NEW e \in S, NEW n \in Nat \ {0}
  PROVE  /\ s \o [i \in 1..n |-> e] \in Seq(S)
         /\ Elements(s \o [i \in 1..n |-> e]) = Elements(s) \cup {e}
<1> DEFINE t == [i \in 1..n |-> e]
           c == s \o t
<1>1. t \in Seq(S) /\ Len(t) = n
  <2>1. t \in [1..n -> S]
    OBVIOUS
  <2>2. QED
    BY <2>1, SeqDef
<1>2. /\ c \in Seq(S) /\ Len(c) = Len(s) + n /\ Len(s) \in Nat
      /\ DOMAIN c = 1..Len(c) /\ DOMAIN s = 1..Len(s)
      /\ \A i \in 1..(Len(s) + n) : c[i] = IF i <= Len(s) THEN s[i] ELSE t[i - Len(s)]
  BY <1>1, ConcatProperties, LenProperties
<1>3. \A i \in 1..n : t[i] = e
  OBVIOUS
<1> HIDE DEF t, c
<1>4. Elements(c) \subseteq Elements(s) \cup {e}
  BY <1>2, <1>3 DEF Elements
<1>5. Elements(s) \subseteq Elements(c)
  BY <1>2 DEF Elements
<1>6. e \in Elements(c)
  <2>1. Len(s) + 1 \in DOMAIN c /\ c[Len(s) + 1] = e
    BY <1>2, <1>3
  <2>2. QED
    BY <2>1 DEF Elements
<1>7. QED
  BY <1>2, <1>4, <1>5, <1>6 DEF t, c

LEMMA OnceAppend ==
  ASSUME NEW S, NEW T, NEW s \in Seq(S), NEW e \in S,
         Once(s, T), e \notin T \/ e \notin Elements(s)
  PROVE  Once(Append(s, e), T)
<1> DEFINE a == Append(s, e)
<1>1. /\ Len(a) = Len(s) + 1 /\ Len(s) \in Nat
      /\ DOMAIN a = 1..Len(a) /\ DOMAIN s = 1..Len(s)
      /\ a[Len(s) + 1] = e /\ \A i \in 1..Len(s) : a[i] = s[i]
  BY AppendProperties, LenProperties
<1> HIDE DEF a
<1>2. Once(a, T)
  BY <1>1 DEF Once, Elements
<1>3. QED
  BY <1>2 DEF a

LEMMA OnceTail ==
  ASSUME NEW S, NEW T, NEW s \in Seq(S), s # <<>>, Once(s, T)
  PROVE  /\ Once(Tail(s), T)
         /\ Head(s) \in T => Head(s) \notin Elements(Tail(s))
<1> DEFINE r == Tail(s)
<1>1. /\ Head(s) = s[1]
      /\ Len(r) = Len(s) - 1 /\ Len(s) \in Nat \ {0}
      /\ DOMAIN s = 1..Len(s) /\ DOMAIN r = 1..Len(r)
      /\ \A i \in 1..Len(r) : r[i] = s[i + 1]
  BY HeadTailProperties, EmptySeq, LenProperties
<1> HIDE DEF r
<1>2. Once(r, T)
  <2>1. SUFFICES ASSUME NEW i \in DOMAIN r, NEW j \in DOMAIN r, r[i] = r[j], r[i] \in T
                 PROVE  i = j
    BY DEF Once
  <2>2. i + 1 \in DOMAIN s /\ j + 1 \in DOMAIN s /\ s[i + 1] = s[j + 1] /\ s[i + 1] \in T
    BY <2>1, <1>1
  <2>3. i + 1 = j + 1
    BY <2>2 DEF Once
  <2>4. QED
    BY <2>3, <1>1
<1>3. Head(s) \in T => Head(s) \notin Elements(r)
  <2>1. SUFFICES ASSUME NEW i \in DOMAIN r, r[i] = s[1], s[1] \in T
                 PROVE  FALSE
    BY <1>1 DEF Elements
  <2>2. i + 1 \in DOMAIN s /\ 1 \in DOMAIN s /\ s[i + 1] = s[1] /\ i + 1 # 1
    BY <2>1, <1>1
  <2>3. QED
    BY <2>1, <2>2 DEF Once
<1>4. QED
  BY <1>2, <1>3 DEF r

LEMMA OnceConcat ==
  ASSUME NEW S, NEW T, NEW s \in Seq(S), NEW e \in S, NEW n \in Nat \ {0},
         Once(s, T), e \notin T
  PROVE  Once(s \o [i \in 1..n |-> e], T)
<1> DEFINE t == [i \in 1..n |-> e]
           c == s \o t
<1>1. t \in Seq(S) /\ Len(t) = n /\ \A i \in 1..n : t[i] = e
  <2>1. t \in [1..n -> S]
    OBVIOUS
  <2>2. QED
    BY <2>1, SeqDef
<1>2. /\ Len(c) = Len(s) + n /\ Len(s) \in Nat
      /\ DOMAIN c = 1..Len(c) /\ DOMAIN s = 1..Len(s)
      /\ \A i \in 1..(Len(s) + n) : c[i] = IF i <= Len(s) THEN s[i] ELSE t[i - Len(s)]
  BY <1>1, ConcatProperties, LenProperties
<1> HIDE DEF t, c
<1>3. \A i \in DOMAIN c : c[i] \in T => i \in DOMAIN s /\ c[i] = s[i]
  BY <1>1, <1>2
<1>4. Once(c, T)
  BY <1>3 DEF Once
<1>5. QED
  BY <1>4 DEF t, c

-----------------------------------------------------------------------------
(* Type correctness.                                                       *)

LEMMA MaxSizeType == MaxSize \in Nat \ {0}
  BY MaxConcurrentAssumption DEF MaxSize

\* What a report does to the fields it writes.
LEMMA EmitType ==
  ASSUME NEW outcome \in Terminal, TypeOK, Emit(outcome)
  PROVE  state' \in TaskState /\ signals' \in Seq(Terminal)
<1>1. CASE state = "Running"
  <2>1. Append(signals, outcome) \in Seq(Terminal)
    BY AppendProperties DEF TypeOK
  <2>2. Terminal \subseteq TaskState
    BY DEF Terminal, TaskState
  <2>3. QED
    BY <1>1, <2>1, <2>2 DEF Emit
<1>2. CASE state # "Running"
  BY <1>2 DEF Emit, TypeOK
<1>3. QED
  BY <1>1, <1>2

\* The posted calls that are left after one has been taken.
LEMMA TakenPost ==
  ASSUME TypeOK, events # <<>>
  PROVE  Tail(events) \in Seq(Tasks \cup {Job}) /\ Head(events) \in Tasks \cup {Job}
  BY ElementsTail DEF TypeOK

LEMMA FinishedType ==
  ASSUME NEW t \in Tasks, NEW ok \in BOOLEAN, TypeOK, SubTaskFinished(t, ok)
  PROVE  /\ kind' \in Kinds /\ queue' \in Seq(Tasks) /\ doing' \subseteq Tasks
         /\ done' \subseteq Tasks /\ failed' \subseteq done' /\ deaf' \subseteq Tasks
         /\ events' \in Seq(Tasks \cup {Job}) /\ added' \in Seq(Tasks) /\ runs' \in Nat
<1>1. events' \in Seq(Tasks \cup {Job})
  BY AppendProperties DEF TypeOK, SubTaskFinished
<1>2. QED
  BY <1>1 DEF TypeOK, SubTaskFinished

LEMMA SubTaskFailedType ==
  ASSUME NEW t \in Tasks, TypeOK, SubTaskFailed(t),
         sub' = [sub EXCEPT ![t] = "Failed"] \/ sub' = [sub EXCEPT ![t] = "AbortedByUser"]
  PROVE  TypeOK'
<1>1. state' \in TaskState /\ signals' \in Seq(Terminal)
  <2>1. CASE kind = "SequentialTask"
    <3>1. Emit("Failed") /\ "Failed" \in Terminal
      BY <2>1 DEF SubTaskFailed, Terminal
    <3>2. QED
      BY <3>1, EmitType
  <2>2. CASE kind # "SequentialTask"
    BY <2>2 DEF SubTaskFailed, TypeOK
  <2>3. QED
    BY <2>1, <2>2
<1>2. SubTaskFinished(t, FALSE)
  BY DEF SubTaskFailed
<1>3. sub' \in [Tasks -> TaskState]
  BY DEF TypeOK, TaskState
<1>4. QED
  BY <1>1, <1>2, <1>3, FinishedType DEF TypeOK

LEMMA TypeInit == Init => TypeOK
  BY DEF Init, TypeOK, TaskState

LEMMA TypeStep == TypeOK /\ [Next]_vars => TypeOK'
<1> SUFFICES ASSUME TypeOK, [Next]_vars
             PROVE  TypeOK'
  OBVIOUS
<1>1. ASSUME NEW t \in Tasks, AddTask(t)
      PROVE  TypeOK'
  <2>1. queue' \in Seq(Tasks) /\ added' \in Seq(Tasks)
    BY <1>1, AppendProperties DEF AddTask, TypeOK
  <2>2. QED
    BY <1>1, <2>1 DEF AddTask, TypeOK
<1>2. CASE Start
  <2>1. events' \in Seq(Tasks \cup {Job})
    BY <1>2, MaxSizeType, ElementsConcat DEF Start, TypeOK
  <2>2. state' \in TaskState /\ runs' \in Nat
    BY <1>2 DEF Start, TypeOK, TaskState
  <2>3. QED
    BY <1>2, <2>1, <2>2 DEF Start, TypeOK, jobVars
<1>3. CASE Abort
  <2>1. CASE doing = {}
    <3>1. signals' \in Seq(Terminal)
      <4>1. signals' = Append(signals, "AbortedByUser")
        BY <1>3, <2>1 DEF Abort
      <4>2. signals \in Seq(Terminal) /\ "AbortedByUser" \in Terminal
        BY DEF TypeOK, Terminal
      <4>3. QED
        BY <4>1, <4>2, AppendProperties
    <3>2. QED
      BY <1>3, <2>1, <3>1 DEF Abort, TypeOK
  <2>2. CASE doing # {}
    <3>1. state' \in TaskState /\ signals' \in Seq(Terminal)
      <4>1. \E outcome \in Terminal : Emit(outcome)
        BY <1>3, <2>2 DEF Abort, Terminal
      <4>2. QED
        BY <4>1, EmitType
    <3>2. sub' \in [Tasks -> TaskState]
      BY <1>3, <2>2 DEF Abort, TypeOK, TaskState
    <3>3. QED
      BY <1>3, <2>2, <3>1, <3>2 DEF Abort, TypeOK
  <2>3. QED
    BY <2>1, <2>2
<1>4. CASE Clear
  BY <1>4 DEF Clear, TypeOK
<1>5. CASE SettleOptions
  <2>1. state' \in TaskState /\ signals' \in Seq(Terminal)
    <3>1. \E outcome \in Terminal : Emit(outcome)
      BY <1>5 DEF SettleOptions, Terminal
    <3>2. QED
      BY <3>1, EmitType
  <2>2. QED
    BY <1>5, <2>1, TakenPost DEF SettleOptions, NextPosted, jobVars, TypeOK
<1>6. CASE SkipNext
  BY <1>6, TakenPost DEF SkipNext, NextPosted, jobVars, TypeOK
<1>7. CASE FinishJob
  <2>1. state' \in TaskState /\ signals' \in Seq(Terminal)
    <3>1. \E outcome \in Terminal : Emit(outcome)
      BY <1>7 DEF FinishJob, Terminal
    <3>2. QED
      BY <3>1, EmitType
  <2>2. QED
    BY <1>7, <2>1, TakenPost DEF FinishJob, NextPosted, jobVars, TypeOK
<1>8. CASE StartSubTask
  <2>1. Head(queue) \in Tasks /\ Tail(queue) \in Seq(Tasks)
    BY <1>8, ElementsTail DEF StartSubTask, TypeOK
  <2>2. events' \in Seq(Tasks \cup {Job})
    BY <1>8, <2>1, TakenPost, AppendProperties DEF StartSubTask, NextPosted
  <2>3. QED
    BY <1>8, <2>1, <2>2 DEF StartSubTask, TypeOK
<1>9. ASSUME NEW t \in Tasks, RunSubTask(t)
      PROVE  TypeOK'
  BY <1>9, TakenPost DEF RunSubTask, jobVars, TypeOK, TaskState
<1>10. ASSUME NEW t \in Tasks, SubTaskSucceeds(t)
       PROVE  TypeOK'
  <2>1. sub' \in [Tasks -> TaskState]
    BY <1>10 DEF SubTaskSucceeds, TypeOK, TaskState
  <2>2. SubTaskFinished(t, TRUE) /\ UNCHANGED <<state, signals>>
    BY <1>10 DEF SubTaskSucceeds
  <2>3. QED
    BY <2>1, <2>2, FinishedType DEF TypeOK
<1>11. ASSUME NEW t \in Tasks, SubTaskFails(t)
       PROVE  TypeOK'
  BY <1>11, SubTaskFailedType DEF SubTaskFails
<1>12. ASSUME NEW t \in Tasks, SubTaskAborts(t)
       PROVE  TypeOK'
  <2>1. CASE t \in deaf
    BY <1>12, <2>1 DEF SubTaskAborts, jobVars, TypeOK, TaskState
  <2>2. CASE t \notin deaf
    BY <1>12, <2>2, SubTaskFailedType DEF SubTaskAborts
  <2>3. QED
    BY <2>1, <2>2
<1>13. CASE UNCHANGED vars
  BY <1>13 DEF vars, TypeOK
<1>14. QED
  BY <1>1, <1>2, <1>3, <1>4, <1>5, <1>6, <1>7, <1>8, <1>9, <1>10, <1>11, <1>12, <1>13
     DEF Next

\* Every field of a composite task and of its sub tasks keeps its type.
THEOREM TypeCorrect == Spec => []TypeOK
<1>1. QED
  BY TypeInit, TypeStep, PTL DEF Spec

-----------------------------------------------------------------------------
(* A second terminal signal is heard only after an abort() of the owner.    *)
(* Not inductive alone: a job that is aborted with nothing in flight goes   *)
(* on running, so the invariant says which first signal a running job may   *)
(* have given.                                                             *)

AbortedFirst ==
  /\ signals # <<>> /\ state = "Running" => signals[1] = "AbortedByUser"
  /\ Len(signals) > 1 => signals[1] = "AbortedByUser"

LEMMA EmitOutcome ==
  ASSUME NEW outcome \in Terminal, TypeOK, AbortedFirst, Emit(outcome)
  PROVE  AbortedFirst'
<1>1. CASE state = "Running"
  <2> DEFINE s == signals
  <2>1. /\ s \in Seq(Terminal) /\ Len(s) \in Nat
        /\ Len(Append(s, outcome)) = Len(s) + 1
        /\ \A i \in 1..Len(s) : Append(s, outcome)[i] = s[i]
    BY AppendProperties, LenProperties DEF TypeOK
  <2>2. state' = outcome /\ outcome # "Running" /\ signals' = Append(s, outcome)
    BY <1>1 DEF Emit, Terminal
  <2>3. CASE signals = <<>>
    BY <2>1, <2>2, <2>3 DEF AbortedFirst
  <2>4. CASE signals # <<>>
    <3>1. 1 \in 1..Len(s) /\ s[1] = "AbortedByUser"
      BY <1>1, <2>1, <2>4, EmptySeq DEF AbortedFirst
    <3>2. QED
      BY <2>1, <2>2, <3>1 DEF AbortedFirst
  <2>5. QED
    BY <2>3, <2>4
<1>2. CASE state # "Running"
  BY <1>2 DEF Emit, AbortedFirst
<1>3. QED
  BY <1>1, <1>2

LEMMA SubTaskFailedOutcome ==
  ASSUME NEW t \in Tasks, TypeOK, AbortedFirst, SubTaskFailed(t)
  PROVE  AbortedFirst'
<1>1. CASE kind = "SequentialTask"
  <2>1. Emit("Failed") /\ "Failed" \in Terminal
    BY <1>1 DEF SubTaskFailed, Terminal
  <2>2. QED
    BY <2>1, EmitOutcome
<1>2. CASE kind # "SequentialTask"
  BY <1>2 DEF SubTaskFailed, AbortedFirst
<1>3. QED
  BY <1>1, <1>2

LEMMA OutcomeStep == TypeOK /\ AbortedFirst /\ [Next]_vars => AbortedFirst'
<1> SUFFICES ASSUME TypeOK, AbortedFirst, [Next]_vars
             PROVE  AbortedFirst'
  OBVIOUS
<1>1. ASSUME NEW t \in Tasks, AddTask(t)
      PROVE  AbortedFirst'
  BY <1>1 DEF AddTask, AbortedFirst
<1>2. CASE Start
  BY <1>2 DEF Start, AbortedFirst
<1>3. CASE Abort
  <2>1. CASE doing = {}
    <3>1. signals' = <<"AbortedByUser">>
      BY <1>3, <2>1 DEF Abort
    <3>2. QED
      BY <3>1 DEF AbortedFirst
  <2>2. CASE doing # {}
    <3>1. \E outcome \in Terminal : Emit(outcome)
      BY <1>3, <2>2 DEF Abort, Terminal
    <3>2. QED
      BY <3>1, EmitOutcome
  <2>3. QED
    BY <2>1, <2>2
<1>4. CASE Clear
  BY <1>4 DEF Clear, AbortedFirst
<1>5. CASE SettleOptions
  <2>1. \E outcome \in Terminal : Emit(outcome)
    BY <1>5 DEF SettleOptions, Terminal
  <2>2. QED
    BY <2>1, EmitOutcome
<1>6. CASE SkipNext
  BY <1>6 DEF SkipNext, AbortedFirst
<1>7. CASE FinishJob
  <2>1. \E outcome \in Terminal : Emit(outcome)
    BY <1>7 DEF FinishJob, Terminal
  <2>2. QED
    BY <2>1, EmitOutcome
<1>8. CASE StartSubTask
  BY <1>8 DEF StartSubTask, AbortedFirst
<1>9. ASSUME NEW t \in Tasks, RunSubTask(t)
      PROVE  AbortedFirst'
  BY <1>9 DEF RunSubTask, AbortedFirst
<1>10. ASSUME NEW t \in Tasks, SubTaskSucceeds(t)
       PROVE  AbortedFirst'
  BY <1>10 DEF SubTaskSucceeds, AbortedFirst
<1>11. ASSUME NEW t \in Tasks, SubTaskFails(t)
       PROVE  AbortedFirst'
  BY <1>11, SubTaskFailedOutcome DEF SubTaskFails
<1>12. ASSUME NEW t \in Tasks, SubTaskAborts(t)
       PROVE  AbortedFirst'
  <2>1. CASE t \in deaf
    BY <1>12, <2>1 DEF SubTaskAborts, AbortedFirst
  <2>2. CASE t \notin deaf
    BY <1>12, <2>2, SubTaskFailedOutcome DEF SubTaskAborts
  <2>3. QED
    BY <2>1, <2>2
<1>13. CASE UNCHANGED vars
  BY <1>13 DEF vars, AbortedFirst
<1>14. QED
  BY <1>1, <1>2, <1>3, <1>4, <1>5, <1>6, <1>7, <1>8, <1>9, <1>10, <1>11, <1>12, <1>13
     DEF Next

\* Only an owner who called abort() can hear a second terminal signal of the
\* same run of a composite task.
THEOREM OneOutcome == Spec => []SingleOutcome
<1>1. Init => AbortedFirst
  BY DEF Init, AbortedFirst
<1>2. AbortedFirst => SingleOutcome
  BY DEF AbortedFirst, SingleOutcome
<1>3. QED
  BY <1>1, <1>2, OutcomeStep, TypeCorrect, PTL DEF Spec

-----------------------------------------------------------------------------
(* What cannot have happened before the job or a sub task began.           *)

\* A job that was never started has nothing in flight.
InactiveIdle == state = "Inactive" => doing = {}

\* What was disconnected is in m_doing, or has been started.
DeafStarted == \A t \in deaf : t \in doing \/ sub[t] # "Inactive"

Begun == InactiveIdle /\ DeafStarted

\* A report leaves the job not running, and heard of if it was running.
LEMMA EmitEnds ==
  ASSUME NEW outcome \in Terminal, TypeOK, Emit(outcome)
  PROVE  /\ state' # "Running"
         /\ state = "Running" \/ signals # <<>> => signals' # <<>>
         /\ state' = "Inactive" => state = "Inactive"
<1>1. CASE state = "Running"
  <2>1. signals' # <<>>
    BY <1>1, AppendProperties DEF Emit, TypeOK
  <2>2. QED
    BY <1>1, <2>1 DEF Emit, Terminal
<1>2. CASE state # "Running"
  BY <1>2 DEF Emit
<1>3. QED
  BY <1>1, <1>2

\* A turn that starts nothing.
LEMMA SameBegun ==
  ASSUME TypeOK, Begun, doing' = doing, deaf' = deaf,
         state' = state \/ state' = "Running" \/ (\E outcome \in Terminal : Emit(outcome)),
         \A u \in Tasks : sub'[u] = sub[u] \/ sub'[u] # "Inactive"
  PROVE  Begun'
<1>1. state' = "Inactive" => state = "Inactive"
  BY EmitEnds
<1>2. deaf \subseteq Tasks
  BY DEF TypeOK
<1>3. QED
  BY <1>1, <1>2 DEF Begun, InactiveIdle, DeafStarted

\* The end of a sub task.
LEMMA FinishedBegun ==
  ASSUME NEW t \in Tasks, NEW ok \in BOOLEAN, NEW ended \in TaskState \ {"Inactive"},
         TypeOK, Begun, SubTaskFinished(t, ok),
         sub' = [sub EXCEPT ![t] = ended],
         state' = state \/ (\E outcome \in Terminal : Emit(outcome))
  PROVE  Begun'
<1>1. doing' = doing \ {t} /\ deaf' = deaf
  BY DEF SubTaskFinished
<1>2. state' = "Inactive" => state = "Inactive"
  BY EmitEnds
<1>3. deaf \subseteq Tasks /\ sub'[t] # "Inactive" /\ \A u \in Tasks \ {t} : sub'[u] = sub[u]
  BY DEF TypeOK
<1>4. QED
  BY <1>1, <1>2, <1>3 DEF Begun, InactiveIdle, DeafStarted

LEMMA SubTaskFailedBegun ==
  ASSUME NEW t \in Tasks, NEW ended \in TaskState \ {"Inactive"}, TypeOK, Begun,
         SubTaskFailed(t), sub' = [sub EXCEPT ![t] = ended]
  PROVE  Begun'
<1>1. /\ SubTaskFinished(t, FALSE)
      /\ state' = state \/ (\E outcome \in Terminal : Emit(outcome))
  BY DEF SubTaskFailed, Terminal
<1>2. QED
  BY <1>1, FinishedBegun

LEMMA BegunStep == TypeOK /\ Begun /\ [Next]_vars => Begun'
<1> SUFFICES ASSUME TypeOK, Begun, [Next]_vars
             PROVE  Begun'
  OBVIOUS
<1>1. ASSUME NEW t \in Tasks, AddTask(t)
      PROVE  Begun'
  BY <1>1, SameBegun DEF AddTask
<1>2. CASE Start
  BY <1>2, SameBegun DEF Start, jobVars
<1>3. CASE Abort
  <2>1. doing' = doing /\ deaf' \subseteq deaf \cup doing
    BY <1>3 DEF Abort
  <2>2. state' = "Inactive" => state = "Inactive"
    BY <1>3 DEF Abort, Emit
  <2>3. \A u \in Tasks : sub'[u] = sub[u] \/ sub'[u] = "AbortedByUser"
    BY <1>3 DEF Abort
  <2>4. deaf \subseteq Tasks
    BY DEF TypeOK
  <2>5. QED
    BY <2>1, <2>2, <2>3, <2>4 DEF Begun, InactiveIdle, DeafStarted
<1>4. CASE Clear
  BY <1>4, SameBegun DEF Clear
<1>5. CASE SettleOptions
  <2>1. \E outcome \in Terminal : Emit(outcome)
    BY <1>5 DEF SettleOptions, Terminal
  <2>2. QED
    BY <1>5, <2>1, SameBegun DEF SettleOptions, jobVars
<1>6. CASE SkipNext
  BY <1>6, SameBegun DEF SkipNext, jobVars
<1>7. CASE FinishJob
  <2>1. \E outcome \in Terminal : Emit(outcome)
    BY <1>7 DEF FinishJob, Terminal
  <2>2. QED
    BY <1>7, <2>1, SameBegun DEF FinishJob, jobVars
<1>8. CASE StartSubTask
  BY <1>8 DEF StartSubTask, MayStartMore, Begun, InactiveIdle, DeafStarted
<1>9. ASSUME NEW t \in Tasks, RunSubTask(t)
      PROVE  Begun'
  <2>1. \A u \in Tasks : sub'[u] = sub[u] \/ sub'[u] # "Inactive"
    BY <1>9 DEF RunSubTask, TypeOK
  <2>2. QED
    BY <1>9, <2>1, SameBegun DEF RunSubTask, jobVars
<1>10. ASSUME NEW t \in Tasks, SubTaskSucceeds(t)
       PROVE  Begun'
  <2>1. "Succeeded" \in TaskState \ {"Inactive"}
    BY DEF TaskState
  <2>2. QED
    BY <1>10, <2>1, FinishedBegun DEF SubTaskSucceeds
<1>11. ASSUME NEW t \in Tasks, SubTaskFails(t)
       PROVE  Begun'
  <2>1. "Failed" \in TaskState \ {"Inactive"}
    BY DEF TaskState
  <2>2. QED
    BY <1>11, <2>1, SubTaskFailedBegun DEF SubTaskFails
<1>12. ASSUME NEW t \in Tasks, SubTaskAborts(t)
       PROVE  Begun'
  <2>1. CASE t \in deaf
    <3>1. \A u \in Tasks : sub'[u] = sub[u] \/ sub'[u] # "Inactive"
      BY <1>12 DEF SubTaskAborts, TypeOK
    <3>2. QED
      BY <1>12, <2>1, <3>1, SameBegun DEF SubTaskAborts, jobVars
  <2>2. CASE t \notin deaf
    <3>1. "AbortedByUser" \in TaskState \ {"Inactive"}
      BY DEF TaskState
    <3>2. QED
      BY <1>12, <2>2, <3>1, SubTaskFailedBegun DEF SubTaskAborts
  <2>3. QED
    BY <2>1, <2>2
<1>13. CASE UNCHANGED vars
  BY <1>13, SameBegun DEF vars
<1>14. QED
  BY <1>1, <1>2, <1>3, <1>4, <1>5, <1>6, <1>7, <1>8, <1>9, <1>10, <1>11, <1>12, <1>13
     DEF Next

-----------------------------------------------------------------------------
(* A running job is never forgotten by the event loop.  abort() leaves the  *)
(* sub tasks it disconnected in m_doing, where they could keep a later run  *)
(* waiting, so this holds for an owner that does not use an aborted job     *)
(* again.                                                                  *)

\* What is in m_doing runs, is posted to run, or was disconnected.
DoingAlive == \A t \in doing : sub[t] = "Running" \/ t \in Elements(events) \/ t \in deaf

\* Disconnecting goes with the end of the job.
DeafEnded == deaf # {} => state # "Running" /\ signals # <<>>

\* A running job has a posted call, or something in flight.
Progress == state = "Running" => Job \in Elements(events) \/ doing # {}

Wakeup == DoingAlive /\ DeafEnded /\ Progress

LEMMA PostedCalls ==
  ASSUME NEW s \in Seq(Tasks \cup {Job}), NEW n \in Nat \ {0}
  PROVE  Elements(s \o [i \in 1..n |-> Job]) = Elements(s) \cup {Job}
<1> DEFINE S == Tasks \cup {Job}
<1>1. s \in Seq(S) /\ Job \in S
  OBVIOUS
<1> HIDE DEF S
<1>2. QED
  BY <1>1, ElementsConcat

LEMMA PostedStart ==
  ASSUME NEW s \in Seq(Tasks \cup {Job}), NEW t \in Tasks \cup {Job}
  PROVE  Elements(Append(s, t)) = Elements(s) \cup {t}
<1> DEFINE S == Tasks \cup {Job}
<1>1. s \in Seq(S) /\ t \in S
  OBVIOUS
<1> HIDE DEF S
<1>2. QED
  BY <1>1, ElementsAppend

LEMMA TakenElements ==
  ASSUME TypeOK, events # <<>>
  PROVE  Elements(events) = Elements(Tail(events)) \cup {Head(events)}
  BY ElementsTail DEF TypeOK

LEMMA FinishedWakeup ==
  ASSUME NEW t \in Tasks, NEW ok \in BOOLEAN, NEW ended \in TaskState,
         TypeOK, Wakeup, SubTaskFinished(t, ok),
         sub' = [sub EXCEPT ![t] = ended],
         (state' = state /\ signals' = signals) \/ (\E outcome \in Terminal : Emit(outcome))
  PROVE  Wakeup'
<1>1. Elements(events') = Elements(events) \cup {Job} /\ doing' = doing \ {t} /\ deaf' = deaf
  BY ElementsAppend DEF SubTaskFinished, TypeOK
<1>2. DoingAlive'
  BY <1>1 DEF Wakeup, DoingAlive, TypeOK
<1>3. DeafEnded'
  <2>1. CASE state' = state /\ signals' = signals
    BY <2>1, <1>1 DEF Wakeup, DeafEnded
  <2>2. CASE \E outcome \in Terminal : Emit(outcome)
    BY <2>2, <1>1, EmitEnds DEF Wakeup, DeafEnded
  <2>3. QED
    BY <2>1, <2>2
<1>4. Progress'
  BY <1>1 DEF Progress
<1>5. QED
  BY <1>2, <1>3, <1>4 DEF Wakeup

LEMMA SubTaskFailedWakeup ==
  ASSUME NEW t \in Tasks, NEW ended \in TaskState, TypeOK, Wakeup, SubTaskFailed(t),
         sub' = [sub EXCEPT ![t] = ended]
  PROVE  Wakeup'
<1>1. SubTaskFinished(t, FALSE)
  BY DEF SubTaskFailed
<1>2. (state' = state /\ signals' = signals) \/ (\E outcome \in Terminal : Emit(outcome))
  BY DEF SubTaskFailed, Terminal
<1>3. QED
  BY <1>1, <1>2, FinishedWakeup

LEMMA WakeupStep ==
  ASSUME ReuseAborted = FALSE
  PROVE  TypeOK /\ Begun /\ Wakeup /\ [Next]_vars => Wakeup'
<1> SUFFICES ASSUME TypeOK, Begun, Wakeup, [Next]_vars
             PROVE  Wakeup'
  OBVIOUS
<1>1. ASSUME NEW t \in Tasks, AddTask(t)
      PROVE  Wakeup'
  BY <1>1 DEF AddTask, Wakeup, DoingAlive, DeafEnded, Progress
<1>2. CASE Start
  <2>1. Elements(events') = Elements(events) \cup {Job}
    <3>1. events \in Seq(Tasks \cup {Job}) /\ Job \in Tasks \cup {Job}
      BY DEF TypeOK
    <3>2. Elements(events \o [i \in 1..MaxSize |-> Job]) = Elements(events) \cup {Job}
      BY <3>1, MaxSizeType, PostedCalls
    <3>3. QED
      BY <1>2, <3>2 DEF Start
  <2>2. QED
    BY <1>2, <2>1
       DEF Start, jobVars, Wakeup, DoingAlive, DeafEnded, Progress
<1>3. CASE Abort
  <2>1. CASE doing = {}
    <3>1. signals' # <<>>
      BY <1>3, <2>1 DEF Abort
    <3>2. QED
      BY <1>3, <2>1, <3>1 DEF Abort, Wakeup, DoingAlive, DeafEnded, Progress
  <2>2. CASE doing # {}
    <3>1. state = "Running"
      BY <1>3, <2>2 DEF Abort, Begun, InactiveIdle
    <3>2. \E outcome \in Terminal : Emit(outcome)
      BY <1>3, <2>2 DEF Abort, Terminal
    <3>3. state' # "Running" /\ signals' # <<>> /\ state' # "Inactive"
      BY <3>1, <3>2, EmitEnds
    <3>4. doing' \subseteq deaf'
      BY <1>3, <2>2 DEF Abort
    <3>5. QED
      BY <3>3, <3>4 DEF Wakeup, DoingAlive, DeafEnded, Progress
  <2>3. QED
    BY <2>1, <2>2
<1>4. CASE Clear
  <2>1. deaf = {}
    BY <1>4 DEF Clear
  <2>2. QED
    BY <1>4, <2>1 DEF Clear, Wakeup, DoingAlive, DeafEnded, Progress
<1>5. CASE SettleOptions
  <2>1. \E outcome \in Terminal : Emit(outcome)
    BY <1>5 DEF SettleOptions, Terminal
  <2>2. Elements(events) = Elements(events') \cup {Job}
    BY <1>5, TakenElements DEF SettleOptions, NextPosted
  <2>3. DoingAlive'
    BY <1>5, <2>2, TasksAssumption DEF SettleOptions, jobVars, Wakeup, DoingAlive, TypeOK
  <2>4. QED
    BY <1>5, <2>1, <2>3, EmitEnds
       DEF SettleOptions, jobVars, Wakeup, DeafEnded, Progress
<1>6. CASE SkipNext
  <2>1. Elements(events) = Elements(events') \cup {Job}
    BY <1>6, TakenElements DEF SkipNext, NextPosted
  <2>2. state = "Running" => doing # {}
    <3>1. Cardinality({}) = 0
      BY FS_EmptySet
    <3>2. state = "Running" /\ doing = {} => MayStartMore
      BY <3>1, MaxSizeType DEF MayStartMore
    <3>3. QED
      BY <1>6, <3>2 DEF SkipNext
  <2>3. QED
    BY <1>6, <2>1, <2>2, TasksAssumption
       DEF SkipNext, jobVars, TypeOK, Wakeup, DoingAlive, DeafEnded, Progress
<1>7. CASE FinishJob
  <2>1. \E outcome \in Terminal : Emit(outcome)
    BY <1>7 DEF FinishJob, Terminal
  <2>2. doing' = {} /\ deaf' = deaf
    BY <1>7 DEF FinishJob, jobVars
  <2>3. QED
    BY <1>7, <2>1, <2>2, EmitEnds
       DEF FinishJob, MayStartMore, Wakeup, DoingAlive, DeafEnded, Progress
<1>8. CASE StartSubTask
  <2>1. Head(queue) \in Tasks
    BY <1>8, ElementsTail DEF StartSubTask, TypeOK
  <2>2. Elements(events) = Elements(Tail(events)) \cup {Job}
        /\ Elements(events') = Elements(Tail(events)) \cup {Head(queue)}
    <3>1. /\ events # <<>> /\ Head(events) = Job
          /\ events' = Append(Tail(events), Head(queue))
      BY <1>8 DEF StartSubTask, NextPosted
    <3>2. Tail(events) \in Seq(Tasks \cup {Job}) /\ Head(queue) \in Tasks \cup {Job}
      BY <2>1, <3>1, TakenPost
    <3>3. Elements(Append(Tail(events), Head(queue)))
            = Elements(Tail(events)) \cup {Head(queue)}
      BY <3>2, PostedStart
    <3>4. QED
      BY <3>1, <3>3, TakenElements
  <2>3. state' = "Running" /\ deaf = {} /\ deaf' = {} /\ signals' = signals
    BY <1>8 DEF StartSubTask, MayStartMore, Wakeup, DeafEnded
  <2>4. DoingAlive'
    BY <1>8, <2>2, <2>3, TasksAssumption DEF StartSubTask, Wakeup, DoingAlive, TypeOK
  <2>5. Head(queue) \in doing'
    BY <1>8 DEF StartSubTask
  <2>6. QED
    BY <2>3, <2>4, <2>5 DEF Wakeup, DeafEnded, Progress
<1>9. ASSUME NEW t \in Tasks, RunSubTask(t)
      PROVE  Wakeup'
  <2>1. Elements(events) = Elements(events') \cup {t}
    BY <1>9, TakenElements DEF RunSubTask
  <2>2. DoingAlive'
    BY <1>9, <2>1 DEF RunSubTask, jobVars, TypeOK, Wakeup, DoingAlive
  <2>3. QED
    BY <1>9, <2>1, <2>2, TasksAssumption
       DEF RunSubTask, jobVars, Wakeup, DeafEnded, Progress
<1>10. ASSUME NEW t \in Tasks, SubTaskSucceeds(t)
       PROVE  Wakeup'
  <2>1. "Succeeded" \in TaskState
    BY DEF TaskState
  <2>2. QED
    BY <1>10, <2>1, FinishedWakeup DEF SubTaskSucceeds
<1>11. ASSUME NEW t \in Tasks, SubTaskFails(t)
       PROVE  Wakeup'
  <2>1. "Failed" \in TaskState
    BY DEF TaskState
  <2>2. QED
    BY <1>11, <2>1, SubTaskFailedWakeup DEF SubTaskFails
<1>12. ASSUME NEW t \in Tasks, SubTaskAborts(t)
       PROVE  Wakeup'
  <2>1. CASE t \in deaf
    <3>1. state # "Running"
      BY <2>1 DEF Wakeup, DeafEnded
    <3>2. QED
      BY <1>12, <2>1, <3>1
         DEF SubTaskAborts, jobVars, TypeOK, Wakeup, DoingAlive, DeafEnded, Progress
  <2>2. CASE t \notin deaf
    <3>1. "AbortedByUser" \in TaskState
      BY DEF TaskState
    <3>2. QED
      BY <1>12, <2>2, <3>1, SubTaskFailedWakeup DEF SubTaskAborts
  <2>3. QED
    BY <2>1, <2>2
<1>13. CASE UNCHANGED vars
  BY <1>13 DEF vars, Wakeup, DoingAlive, DeafEnded, Progress
<1>14. QED
  BY <1>1, <1>2, <1>3, <1>4, <1>5, <1>6, <1>7, <1>8, <1>9, <1>10, <1>11, <1>12, <1>13
     DEF Next

\* While a job runs, a call of executeNextSubTask is posted or a sub task will
\* post one when it ends: no run waits for something that cannot come.
THEOREM NoWakeupIsLost ==
  ASSUME ReuseAborted = FALSE
  PROVE  Spec => []NoLostWakeup
<1>1. Init => Begun /\ Wakeup
  BY DEF Init, Begun, InactiveIdle, DeafStarted, Wakeup, DoingAlive, DeafEnded, Progress
<1>2. Wakeup => NoLostWakeup
  BY DEF Wakeup, DoingAlive, DeafEnded, Progress, NoLostWakeup
<1>3. QED
  BY <1>1, <1>2, BegunStep, WakeupStep, TypeCorrect, PTL DEF Spec

-----------------------------------------------------------------------------
(* Where a sub task is: waiting, posted, running or ended, one at a time.   *)

\* What waits in m_queue is there once and has not been touched.
QueueFresh ==
  /\ Once(queue, Tasks)
  /\ \A t \in Elements(queue) : sub[t] = "Inactive" /\ t \notin doing /\ t \notin Elements(events)

\* The start of a sub task is posted once, for one of m_doing.
PostedOnce ==
  /\ Once(events, Tasks)
  /\ \A t \in Elements(events) : t \in Tasks => t \in doing /\ sub[t] = "Inactive"

\* What runs is in m_doing.
RunningDoing == \A t \in Tasks : sub[t] = "Running" => t \in doing

InPlace == QueueFresh /\ PostedOnce /\ RunningDoing

\* The queue of posted calls after one was taken.
LEMMA TakenOnce ==
  ASSUME TypeOK, events # <<>>, NEW T, Once(events, T)
  PROVE  /\ Once(Tail(events), T)
         /\ Head(events) \in T => Head(events) \notin Elements(Tail(events))
  BY OnceTail DEF TypeOK

\* The queue of posted calls after executeNextSubTask was posted once more.
LEMMA PostedOnceMore ==
  ASSUME TypeOK, NEW T, Once(events, T), Job \notin T \/ Job \notin Elements(events)
  PROVE  /\ Once(Append(events, Job), T)
         /\ Elements(Append(events, Job)) = Elements(events) \cup {Job}
<1>1. events \in Seq(Tasks \cup {Job}) /\ Job \in Tasks \cup {Job}
  BY DEF TypeOK
<1> DEFINE S == Tasks \cup {Job}
<1> HIDE DEF S
<1>2. events \in Seq(S) /\ Job \in S
  BY <1>1 DEF S
<1>3. QED
  BY <1>2, OnceAppend, ElementsAppend

\* A turn that only takes a call of executeNextSubTask.
LEMMA TakenInPlace ==
  ASSUME TypeOK, InPlace, NextPosted, events' = Tail(events),
         UNCHANGED <<queue, doing, sub>>
  PROVE  InPlace'
<1>1. /\ Elements(events) = Elements(events') \cup {Job}
      /\ Once(events', Tasks)
  BY TakenElements, TakenOnce DEF NextPosted, InPlace, PostedOnce
<1>2. QED
  BY <1>1 DEF InPlace, QueueFresh, PostedOnce, RunningDoing

\* The end of a sub task.
LEMMA FinishedInPlace ==
  ASSUME NEW t \in Tasks, NEW ok \in BOOLEAN, NEW ended \in TaskState \ {"Running"},
         TypeOK, InPlace, SubTaskFinished(t, ok), sub[t] = "Running",
         sub' = [sub EXCEPT ![t] = ended]
  PROVE  InPlace'
<1>1. /\ Elements(events') = Elements(events) \cup {Job}
      /\ Once(events', Tasks)
  BY PostedOnceMore, TasksAssumption DEF SubTaskFinished, InPlace, PostedOnce
<1>2. /\ doing' = doing \ {t} /\ queue' = queue
      /\ sub'[t] = ended /\ \A u \in Tasks \ {t} : sub'[u] = sub[u]
      /\ ended # "Running"
  BY DEF SubTaskFinished, TypeOK
<1>3. Elements(queue) \subseteq Tasks
  BY ElementsType DEF TypeOK
<1>4. QueueFresh'
  <2>1. \A u \in Elements(queue) : u # t /\ u # Job
    BY <1>3, TasksAssumption DEF InPlace, QueueFresh
  <2>2. QED
    BY <1>1, <1>2, <1>3, <2>1 DEF InPlace, QueueFresh
<1>5. PostedOnce'
  <2>1. \A u \in Elements(events) : u \in Tasks => u # t
    BY DEF InPlace, PostedOnce
  <2>2. QED
    BY <1>1, <1>2, <2>1, TasksAssumption DEF InPlace, PostedOnce
<1>6. RunningDoing'
  BY <1>2 DEF InPlace, RunningDoing
<1>7. QED
  BY <1>4, <1>5, <1>6 DEF InPlace

LEMMA InPlaceStep == TypeOK /\ InPlace /\ [Next]_vars => InPlace'
<1> SUFFICES ASSUME TypeOK, InPlace, [Next]_vars
             PROVE  InPlace'
  OBVIOUS
<1>q. Elements(queue) \subseteq Tasks
  BY ElementsType DEF TypeOK
<1>1. ASSUME NEW t \in Tasks, AddTask(t)
      PROVE  InPlace'
  <2>1. Elements(queue') = Elements(queue) \cup {t} /\ Once(queue', Tasks)
    <3>1. queue \in Seq(Tasks) /\ queue' = Append(queue, t) /\ t \notin Elements(queue)
      BY <1>1 DEF AddTask, TypeOK
    <3>2. QED
      BY <3>1, OnceAppend, ElementsAppend DEF InPlace, QueueFresh
  <2>2. sub[t] = "Inactive" /\ t \notin doing /\ t \notin Elements(events)
        /\ UNCHANGED <<doing, sub, events>>
    BY <1>1 DEF AddTask
  <2>3. QED
    BY <2>1, <2>2 DEF InPlace, QueueFresh, PostedOnce, RunningDoing
<1>2. CASE Start
  <2>1. Elements(events') = Elements(events) \cup {Job} /\ Once(events', Tasks)
    <3> DEFINE S == Tasks \cup {Job}
    <3>1. events \in Seq(S) /\ Job \in S
      BY DEF TypeOK
    <3> HIDE DEF S
    <3>2. events' = events \o [i \in 1..MaxSize |-> Job] /\ Once(events, Tasks)
      BY <1>2 DEF Start, InPlace, PostedOnce
    <3>3. Elements(events \o [i \in 1..MaxSize |-> Job]) = Elements(events) \cup {Job}
      BY <3>1, MaxSizeType, ElementsConcat
    <3>4. Once(events \o [i \in 1..MaxSize |-> Job], Tasks)
      BY <3>1, <3>2, MaxSizeType, OnceConcat, TasksAssumption
    <3>5. QED
      BY <3>2, <3>3, <3>4
  <2>2. UNCHANGED <<queue, doing, sub>>
    BY <1>2 DEF Start, jobVars
  <2>3. QED
    BY <2>1, <2>2, <1>q, TasksAssumption DEF InPlace, QueueFresh, PostedOnce, RunningDoing
<1>3. CASE Abort
  <2>1. queue' = <<>> /\ doing' = doing /\ events' = events
    BY <1>3 DEF Abort
  <2>2. \A t \in Tasks : sub'[t] = sub[t] \/ (sub[t] = "Running" /\ sub'[t] = "AbortedByUser")
    BY <1>3 DEF Abort
  <2>3. QueueFresh'
    BY <2>1, ElementsEmpty DEF QueueFresh, Once
  <2>4. QED
    BY <2>1, <2>2, <2>3 DEF InPlace, PostedOnce, RunningDoing
<1>4. CASE Clear
  <2>1. queue' = <<>> /\ UNCHANGED <<doing, sub, events>>
    BY <1>4 DEF Clear
  <2>2. QueueFresh'
    BY <2>1, ElementsEmpty DEF QueueFresh, Once
  <2>3. QED
    BY <2>1, <2>2 DEF InPlace, PostedOnce, RunningDoing
<1>5. CASE SettleOptions
  BY <1>5, TakenInPlace DEF SettleOptions, jobVars
<1>6. CASE SkipNext
  BY <1>6, TakenInPlace DEF SkipNext, jobVars
<1>7. CASE FinishJob
  BY <1>7, TakenInPlace DEF FinishJob, jobVars
<1>8. CASE StartSubTask
  <2> DEFINE h == Head(queue)
  <2>1. /\ Elements(queue) = Elements(queue') \cup {h}
        /\ Once(queue', Tasks) /\ h \notin Elements(queue') /\ h \in Tasks
    <3>1. queue \in Seq(Tasks) /\ queue # <<>> /\ queue' = Tail(queue) /\ Once(queue, Tasks)
      BY <1>8 DEF StartSubTask, TypeOK, InPlace, QueueFresh
    <3>2. QED
      BY <3>1, OnceTail, ElementsTail
  <2>2. events # <<>> /\ Head(events) = Job /\ events' = Append(Tail(events), h)
    BY <1>8 DEF StartSubTask, NextPosted
  <2>3. Elements(events) = Elements(Tail(events)) \cup {Job} /\ Once(Tail(events), Tasks)
    BY <2>2, TakenElements, TakenOnce DEF InPlace, PostedOnce
  <2>4. sub[h] = "Inactive" /\ h \notin doing /\ h \notin Elements(events)
    BY <2>1 DEF InPlace, QueueFresh
  <2>5. Elements(events') = Elements(Tail(events)) \cup {h} /\ Once(events', Tasks)
    <3>1. Tail(events) \in Seq(Tasks \cup {Job}) /\ h \in Tasks \cup {Job}
      BY <2>1, <2>2, TakenPost
    <3>2. Elements(Append(Tail(events), h)) = Elements(Tail(events)) \cup {h}
      BY <3>1, PostedStart
    <3>3. h \notin Elements(Tail(events))
      BY <2>3, <2>4
    <3> DEFINE S == Tasks \cup {Job}
               r == Tail(events)
    <3>4. r \in Seq(S) /\ h \in S
      BY <3>1
    <3> HIDE DEF S, r
    <3>5. Once(Append(r, h), Tasks)
      BY <3>3, <3>4, <2>3, OnceAppend DEF r
    <3>6. QED
      BY <2>2, <3>2, <3>5 DEF r
  <2>6. doing' = doing \cup {h} /\ sub' = sub
    BY <1>8 DEF StartSubTask
  <2> HIDE DEF h
  <2>7. QueueFresh'
    BY <2>1, <2>3, <2>5, <2>6 DEF InPlace, QueueFresh
  <2>8. PostedOnce' /\ RunningDoing'
    BY <2>3, <2>4, <2>5, <2>6 DEF InPlace, PostedOnce, RunningDoing
  <2>9. QED
    BY <2>7, <2>8 DEF InPlace
<1>9. ASSUME NEW t \in Tasks, RunSubTask(t)
      PROVE  InPlace'
  <2>1. /\ Elements(events) = Elements(events') \cup {t} /\ Once(events', Tasks)
        /\ t \notin Elements(events')
    BY <1>9, TakenElements, TakenOnce DEF RunSubTask, InPlace, PostedOnce
  <2>2. /\ queue' = queue /\ doing' = doing /\ t \in doing
        /\ \A u \in Tasks \ {t} : sub'[u] = sub[u]
    BY <1>9, <2>1 DEF RunSubTask, jobVars, TypeOK, InPlace, PostedOnce
  <2>3. \A u \in Elements(queue) : u # t
    BY <2>1 DEF InPlace, QueueFresh
  <2>4. QED
    BY <2>1, <2>2, <2>3, <1>q DEF InPlace, QueueFresh, PostedOnce, RunningDoing
<1>10. ASSUME NEW t \in Tasks, SubTaskSucceeds(t)
       PROVE  InPlace'
  <2>1. "Succeeded" \in TaskState \ {"Running"}
    BY DEF TaskState
  <2>2. QED
    BY <1>10, <2>1, FinishedInPlace DEF SubTaskSucceeds
<1>11. ASSUME NEW t \in Tasks, SubTaskFails(t)
       PROVE  InPlace'
  <2>1. "Failed" \in TaskState \ {"Running"}
    BY DEF TaskState
  <2>2. QED
    BY <1>11, <2>1, FinishedInPlace DEF SubTaskFails, SubTaskFailed
<1>12. ASSUME NEW t \in Tasks, SubTaskAborts(t)
       PROVE  InPlace'
  <2>1. CASE t \in deaf
    <3>1. /\ sub[t] = "Running" /\ sub' = [sub EXCEPT ![t] = "AbortedByUser"]
          /\ UNCHANGED <<queue, doing, events>>
      BY <1>12, <2>1 DEF SubTaskAborts, jobVars
    <3>2. \A u \in Tasks : sub'[u] = sub[u] \/ (sub[u] = "Running" /\ sub'[u] = "AbortedByUser")
      BY <3>1 DEF TypeOK
    <3>3. QED
      BY <3>1, <3>2, <1>q DEF InPlace, QueueFresh, PostedOnce, RunningDoing
  <2>2. CASE t \notin deaf
    <3>1. "AbortedByUser" \in TaskState \ {"Running"}
      BY DEF TaskState
    <3>2. QED
      BY <1>12, <2>2, <3>1, FinishedInPlace DEF SubTaskAborts, SubTaskFailed
  <2>3. QED
    BY <2>1, <2>2
<1>13. CASE UNCHANGED vars
  BY <1>13 DEF vars, InPlace, QueueFresh, PostedOnce, RunningDoing
<1>14. QED
  BY <1>1, <1>2, <1>3, <1>4, <1>5, <1>6, <1>7, <1>8, <1>9, <1>10, <1>11, <1>12, <1>13
     DEF Next

-----------------------------------------------------------------------------
(* The classes that run one sub task at a time, and what an ended job keeps *)
(* in m_doing.                                                             *)

\* SequentialTask and MultipleOptionsTask have at most one sub task in m_doing.
AtMostOne == kind # "ConcurrentTask" => \A t, u \in doing : t = u

\* A MultipleOptionsTask has one call of executeNextSubTask in the air, or one
\* sub task that will post it; until abort() left a sub task to itself.
SingleToken ==
  kind = "MultipleOptionsTask" /\ deaf = {} =>
    /\ Once(events, {Job})
    /\ Job \in Elements(events) => doing = {} /\ state = "Running"

\* Unless it was aborted, a job that does not run has nothing in m_doing.
Calm == state # "Running" /\ deaf = {} => doing = {}

Slots == AtMostOne /\ SingleToken /\ Calm

\* The state only changes by a report, which ends a running job.
LEMMA EmitStops ==
  ASSUME NEW outcome \in Terminal, Emit(outcome)
  PROVE  state' # "Running" /\ (state # "Running" => state' = state)
  BY DEF Emit, Terminal

\* A turn that takes a call of executeNextSubTask and starts nothing.
LEMMA TakenSlots ==
  ASSUME TypeOK, Slots, NextPosted, events' = Tail(events),
         UNCHANGED <<kind, doing, deaf>>,
         state' = state \/ doing = {} \/ deaf # {}
  PROVE  Slots'
<1>1. /\ Elements(events) = Elements(events') \cup {Job} /\ Job \in {Job}
      /\ kind = "MultipleOptionsTask" /\ deaf = {} =>
           Once(events', {Job}) /\ Job \notin Elements(events')
  BY TakenElements, TakenOnce DEF NextPosted, Slots, SingleToken
<1>2. QED
  BY <1>1 DEF Slots, AtMostOne, SingleToken, Calm

\* The end of a sub task, which may end the job if it is a SequentialTask.
LEMMA FinishedSlots ==
  ASSUME NEW t \in Tasks, NEW ok \in BOOLEAN, TypeOK, InPlace, Slots,
         SubTaskFinished(t, ok), sub[t] = "Running",
         state' = state \/ kind = "SequentialTask"
  PROVE  Slots'
<1>1. t \in doing /\ doing' = doing \ {t} /\ deaf' = deaf /\ kind' = kind
      /\ events' = Append(events, Job)
  BY DEF InPlace, RunningDoing, SubTaskFinished
<1>2. kind # "ConcurrentTask" => doing' = {}
  BY <1>1 DEF Slots, AtMostOne
<1>3. AtMostOne' /\ Calm'
  BY <1>1, <1>2 DEF Slots, AtMostOne, Calm
<1>4. ASSUME kind = "MultipleOptionsTask", deaf = {}
      PROVE  Once(events', {Job}) /\ state' = "Running"
  <2>1. Job \notin Elements(events) /\ Once(events, {Job})
    BY <1>1, <1>4 DEF Slots, SingleToken
  <2>2. Once(events', {Job})
    BY <1>1, <2>1, PostedOnceMore
  <2>3. state' = state /\ state = "Running"
    BY <1>1, <1>4 DEF Slots, Calm
  <2>4. QED
    BY <2>2, <2>3
<1>5. SingleToken'
  BY <1>1, <1>2, <1>4 DEF SingleToken
<1>6. QED
  BY <1>3, <1>5 DEF Slots

LEMMA SubTaskFailedSlots ==
  ASSUME NEW t \in Tasks, TypeOK, InPlace, Slots, SubTaskFailed(t), sub[t] = "Running"
  PROVE  Slots'
<1>1. SubTaskFinished(t, FALSE) /\ (state' = state \/ kind = "SequentialTask")
  BY DEF SubTaskFailed
<1>2. QED
  BY <1>1, FinishedSlots

LEMMA SlotsStep == TypeOK /\ Begun /\ InPlace /\ Slots /\ [Next]_vars => Slots'
<1> SUFFICES ASSUME TypeOK, Begun, InPlace, Slots, [Next]_vars
             PROVE  Slots'
  OBVIOUS
<1>1. ASSUME NEW t \in Tasks, AddTask(t)
      PROVE  Slots'
  BY <1>1 DEF AddTask, Slots, AtMostOne, SingleToken, Calm
<1>2. CASE Start
  <2>1. /\ state # "Running" /\ state' = "Running"
        /\ deaf = {} => doing = {}
    BY <1>2 DEF Start, Slots, Calm
  <2>2. kind' = kind /\ doing' = doing /\ deaf' = deaf
    BY <1>2 DEF Start, jobVars
  <2>3. ASSUME kind = "MultipleOptionsTask", deaf = {}
        PROVE  Once(events', {Job})
    <3>1. Job \notin Elements(events) /\ Once(events, {Job})
      BY <2>1, <2>3 DEF Slots, SingleToken
    <3>2. events' = Append(events, Job)
      <4>1. MaxSize = 1 /\ events' = events \o [i \in 1..1 |-> Job]
        BY <1>2, <2>3 DEF Start, MaxSize
      <4>2. [i \in 1..1 |-> Job] = <<Job>>
        OBVIOUS
      <4>3. events \in Seq(Tasks \cup {Job}) /\ Job \in Tasks \cup {Job}
        BY DEF TypeOK
      <4>4. events \o <<Job>> = Append(events, Job)
        BY <4>3, AppendIsConcat
      <4>5. QED
        BY <4>1, <4>2, <4>4
    <3>3. QED
      BY <3>1, <3>2, PostedOnceMore
  <2>4. QED
    BY <2>1, <2>2, <2>3 DEF Slots, AtMostOne, SingleToken, Calm
<1>3. CASE Abort
  <2>1. kind' = kind /\ doing' = doing /\ events' = events
    BY <1>3 DEF Abort
  <2>2. (doing = {} /\ state' = state /\ deaf' = deaf) \/ (doing # {} /\ deaf' # {})
    BY <1>3 DEF Abort
  <2>3. QED
    BY <2>1, <2>2 DEF Slots, AtMostOne, SingleToken, Calm
<1>4. CASE Clear
  BY <1>4 DEF Clear, Slots, AtMostOne, SingleToken, Calm
<1>5. CASE SettleOptions
  <2>1. deaf = {} => doing = {}
    <3>1. kind = "MultipleOptionsTask" /\ Job \in Elements(events)
      BY <1>5, TakenElements
         DEF SettleOptions, OptionFound, OptionsExhausted, NextPosted
    <3>2. QED
      BY <3>1 DEF Slots, SingleToken
  <2>2. QED
    BY <1>5, <2>1, TakenSlots DEF SettleOptions, jobVars
<1>6. CASE SkipNext
  BY <1>6, TakenSlots DEF SkipNext, jobVars
<1>7. CASE FinishJob
  BY <1>7, TakenSlots DEF FinishJob, jobVars
<1>8. CASE StartSubTask
  <2>1. state = "Running" /\ state' = "Running" /\ kind' = kind
        /\ doing' = doing \cup {Head(queue)}
    BY <1>8 DEF StartSubTask, MayStartMore
  <2>a. deaf' = {} => deaf = {}
    <3>1. Head(queue) \in Elements(queue)
      BY <1>8, ElementsTail DEF StartSubTask, TypeOK
    <3>2. Head(queue) \notin deaf
      BY <3>1 DEF InPlace, QueueFresh, Begun, DeafStarted
    <3>3. QED
      BY <1>8, <3>2 DEF StartSubTask
  <2>2. AtMostOne'
    <3>1. ASSUME kind # "ConcurrentTask"
          PROVE  doing = {}
      <4>1. Cardinality(doing) < 1
        BY <1>8, <3>1 DEF StartSubTask, MayStartMore, MaxSize
      <4>2. IsFiniteSet(doing)
        BY TasksAssumption, FS_Subset DEF TypeOK
      <4>3. QED
        BY <4>1, <4>2, FS_EmptySet, FS_CardinalityType
    <3>2. QED
      BY <2>1, <3>1 DEF AtMostOne
  <2>3. SingleToken'
    <3>1. SUFFICES ASSUME kind = "MultipleOptionsTask", deaf = {}
                   PROVE  Once(events', {Job}) /\ Job \notin Elements(events')
      BY <2>1, <2>a DEF SingleToken
    <3> DEFINE S == Tasks \cup {Job}
               r == Tail(events)
               h == Head(queue)
    <3>2. h \in Tasks /\ h # Job
      BY <1>8, ElementsTail, TasksAssumption DEF StartSubTask, TypeOK
    <3>3. /\ events # <<>> /\ Head(events) = Job /\ Job \in {Job} /\ events' = Append(r, h)
          /\ Once(events, {Job})
      BY <1>8, <3>1 DEF StartSubTask, NextPosted, Slots, SingleToken
    <3>4. Once(r, {Job}) /\ Job \notin Elements(r)
      BY <3>3, TakenOnce
    <3>5. r \in Seq(S) /\ h \in S
      BY <3>2, <3>3, TakenPost
    <3> HIDE DEF S, r, h
    <3>6. Once(Append(r, h), {Job}) /\ Elements(Append(r, h)) = Elements(r) \cup {h}
      BY <3>2, <3>4, <3>5, OnceAppend, ElementsAppend
    <3>7. QED
      BY <3>2, <3>3, <3>4, <3>6
  <2>4. QED
    BY <2>1, <2>2, <2>3 DEF Slots, Calm
<1>9. ASSUME NEW t \in Tasks, RunSubTask(t)
      PROVE  Slots'
  <2>1. Elements(events) = Elements(events') \cup {t}
        /\ (Once(events, {Job}) => Once(events', {Job}))
    BY <1>9, TakenElements, TakenOnce DEF RunSubTask
  <2>2. UNCHANGED <<kind, state, doing, deaf>>
    BY <1>9 DEF RunSubTask, jobVars
  <2>3. QED
    BY <2>1, <2>2 DEF Slots, AtMostOne, SingleToken, Calm
<1>10. ASSUME NEW t \in Tasks, SubTaskSucceeds(t)
       PROVE  Slots'
  BY <1>10, FinishedSlots DEF SubTaskSucceeds
<1>11. ASSUME NEW t \in Tasks, SubTaskFails(t)
       PROVE  Slots'
  BY <1>11, SubTaskFailedSlots DEF SubTaskFails
<1>12. ASSUME NEW t \in Tasks, SubTaskAborts(t)
       PROVE  Slots'
  <2>1. CASE t \in deaf
    BY <1>12, <2>1 DEF SubTaskAborts, jobVars, Slots, AtMostOne, SingleToken, Calm
  <2>2. CASE t \notin deaf
    BY <1>12, <2>2, SubTaskFailedSlots DEF SubTaskAborts
  <2>3. QED
    BY <2>1, <2>2
<1>13. CASE UNCHANGED vars
  BY <1>13 DEF vars, Slots, AtMostOne, SingleToken, Calm
<1>14. QED
  BY <1>1, <1>2, <1>3, <1>4, <1>5, <1>6, <1>7, <1>8, <1>9, <1>10, <1>11, <1>12, <1>13
     DEF Next

-----------------------------------------------------------------------------
(* What ended.                                                             *)

\* m_done holds what ended, m_failed what did not end well, and neither what
\* still waits or runs.
Placed ==
  /\ doing \cap done = {}
  /\ \A t \in Elements(queue) : t \notin done
  /\ \A t \in done \ failed : sub[t] = "Succeeded"
  /\ \A t \in failed : sub[t] \in {"Failed", "AbortedByUser"}

\* A turn that leaves the sub tasks where they are; those in m_doing may move.
LEMMA SamePlaced ==
  ASSUME TypeOK, Placed, UNCHANGED <<doing, done, failed>>,
         Elements(queue') \subseteq Elements(queue),
         \A t \in Tasks \ doing : sub'[t] = sub[t]
  PROVE  Placed'
<1>1. done \subseteq Tasks \ doing /\ failed \subseteq done
  BY DEF TypeOK, Placed
<1>2. QED
  BY <1>1 DEF Placed

\* The end of a sub task.
LEMMA FinishedPlaced ==
  ASSUME NEW t \in Tasks, NEW ok \in BOOLEAN, NEW ended \in Terminal,
         TypeOK, InPlace, Placed, SubTaskFinished(t, ok), sub[t] = "Running",
         sub' = [sub EXCEPT ![t] = ended],
         ended = "Succeeded" <=> ok
  PROVE  Placed'
<1>1. /\ t \in doing /\ doing' = doing \ {t} /\ queue' = queue
      /\ done' = done \cup {t} /\ failed' = IF ok THEN failed ELSE failed \cup {t}
      /\ sub'[t] = ended /\ \A u \in Tasks \ {t} : sub'[u] = sub[u]
  BY DEF InPlace, RunningDoing, SubTaskFinished, TypeOK
<1>2. t \notin done /\ t \notin failed /\ t \notin Elements(queue)
  BY <1>1 DEF TypeOK, Placed, InPlace, QueueFresh
<1>3. done \subseteq Tasks /\ failed \subseteq done
  BY DEF TypeOK
<1>4. \A u \in done' \ failed' : sub'[u] = "Succeeded"
  BY <1>1, <1>3 DEF Placed
<1>5. \A u \in failed' : sub'[u] \in {"Failed", "AbortedByUser"}
  BY <1>1, <1>2, <1>3 DEF Placed, Terminal
<1>6. QED
  BY <1>1, <1>2, <1>4, <1>5 DEF Placed

LEMMA SubTaskFailedPlaced ==
  ASSUME NEW t \in Tasks, NEW ended \in {"Failed", "AbortedByUser"},
         TypeOK, InPlace, Placed, SubTaskFailed(t), sub[t] = "Running",
         sub' = [sub EXCEPT ![t] = ended]
  PROVE  Placed'
<1>1. SubTaskFinished(t, FALSE) /\ ended \in Terminal /\ ended # "Succeeded"
  BY DEF SubTaskFailed, Terminal
<1>2. QED
  BY <1>1, FinishedPlaced

LEMMA PlacedStep == TypeOK /\ InPlace /\ Placed /\ [Next]_vars => Placed'
<1> SUFFICES ASSUME TypeOK, InPlace, Placed, [Next]_vars
             PROVE  Placed'
  OBVIOUS
<1>1. ASSUME NEW t \in Tasks, AddTask(t)
      PROVE  Placed'
  <2>1. Elements(queue') = Elements(queue) \cup {t}
    BY <1>1, ElementsAppend DEF AddTask, TypeOK
  <2>2. t \notin done
    BY <1>1 DEF AddTask, Placed
  <2>3. QED
    BY <1>1, <2>1, <2>2 DEF AddTask, Placed
<1>2. CASE Start
  BY <1>2, SamePlaced DEF Start, jobVars
<1>3. CASE Abort
  <2>1. Elements(queue') = {}
    BY <1>3, ElementsEmpty DEF Abort
  <2>2. \A t \in Tasks \ doing : sub'[t] = sub[t]
    BY <1>3 DEF Abort
  <2>3. QED
    BY <1>3, <2>1, <2>2, SamePlaced DEF Abort
<1>4. CASE Clear
  BY <1>4, ElementsEmpty DEF Clear, Placed
<1>5. CASE SettleOptions \/ SkipNext \/ FinishJob
  BY <1>5, SamePlaced DEF SettleOptions, SkipNext, FinishJob, jobVars
<1>6. CASE StartSubTask
  <2> DEFINE h == Head(queue)
  <2>1. Elements(queue) = Elements(queue') \cup {h}
    BY <1>6, ElementsTail DEF StartSubTask, TypeOK
  <2>2. doing' = doing \cup {h} /\ UNCHANGED <<done, failed, sub>>
    BY <1>6 DEF StartSubTask
  <2> HIDE DEF h
  <2>3. QED
    BY <2>1, <2>2 DEF Placed
<1>7. ASSUME NEW t \in Tasks, RunSubTask(t)
      PROVE  Placed'
  <2>1. t \in doing
    BY <1>7, TakenElements DEF RunSubTask, InPlace, PostedOnce
  <2>2. \A u \in Tasks \ doing : sub'[u] = sub[u]
    BY <1>7, <2>1 DEF RunSubTask, TypeOK
  <2>3. QED
    BY <1>7, <2>2, SamePlaced DEF RunSubTask, jobVars
<1>8. ASSUME NEW t \in Tasks, SubTaskSucceeds(t)
      PROVE  Placed'
  <2>1. "Succeeded" \in Terminal
    BY DEF Terminal
  <2>2. QED
    BY <1>8, <2>1, FinishedPlaced DEF SubTaskSucceeds
<1>9. ASSUME NEW t \in Tasks, SubTaskFails(t)
      PROVE  Placed'
  BY <1>9, SubTaskFailedPlaced DEF SubTaskFails
<1>10. ASSUME NEW t \in Tasks, SubTaskAborts(t)
       PROVE  Placed'
  <2>1. CASE t \in deaf
    <3>1. t \in doing
      BY <1>10 DEF SubTaskAborts, InPlace, RunningDoing
    <3>2. \A u \in Tasks \ doing : sub'[u] = sub[u]
      BY <1>10, <3>1 DEF SubTaskAborts, TypeOK
    <3>3. QED
      BY <1>10, <2>1, <3>2, SamePlaced DEF SubTaskAborts, jobVars
  <2>2. CASE t \notin deaf
    BY <1>10, <2>2, SubTaskFailedPlaced DEF SubTaskAborts
  <2>3. QED
    BY <2>1, <2>2
<1>11. CASE UNCHANGED vars
  BY <1>11, SamePlaced DEF vars
<1>12. QED
  BY <1>1, <1>2, <1>3, <1>4, <1>5, <1>6, <1>7, <1>8, <1>9, <1>10, <1>11 DEF Next

-----------------------------------------------------------------------------
(* What holds of any job, also of one that is used again after an abort.   *)

Tidy == TypeOK /\ AbortedFirst /\ Begun /\ InPlace /\ Slots /\ Placed

LEMMA TidyInit == Init => Tidy
<1> SUFFICES ASSUME Init
             PROVE  Tidy
  OBVIOUS
<1>1. TypeOK
  BY TypeInit
<1>2. AbortedFirst /\ Begun
  BY DEF Init, AbortedFirst, Begun, InactiveIdle, DeafStarted
<1>3. Elements(queue) = {} /\ Elements(events) = {}
  BY ElementsEmpty DEF Init
<1>4. \A T : Once(queue, T) /\ Once(events, T)
  BY DEF Init, Once
<1>5. InPlace
  BY <1>3, <1>4 DEF Init, InPlace, QueueFresh, PostedOnce, RunningDoing
<1>6. Slots
  BY <1>3, <1>4 DEF Init, Slots, AtMostOne, SingleToken, Calm
<1>7. Placed
  BY <1>3 DEF Init, Placed
<1>8. QED
  BY <1>1, <1>2, <1>5, <1>6, <1>7 DEF Tidy

LEMMA TidyStep == Tidy /\ [Next]_vars => Tidy'
  BY TypeStep, OutcomeStep, BegunStep, InPlaceStep, SlotsStep, PlacedStep DEF Tidy

\* A job that ended by itself, well or badly, has no sub task that still runs
\* or is about to be started: nothing writes to the instance behind its back.
THEOREM NothingIsOrphaned == Spec => []NoOrphans
<1>1. Tidy => NoOrphans
  <2> SUFFICES ASSUME Tidy, signals \in {<<"Succeeded">>, <<"Failed">>}, deaf = {}
               PROVE  /\ \A t \in Tasks : sub[t] # "Running"
                      /\ Elements(events) \subseteq {Job}
    BY DEF NoOrphans
  <2>1. state # "Running"
    <3>1. signals # <<>> /\ signals[1] # "AbortedByUser"
      OBVIOUS
    <3>2. QED
      BY <3>1 DEF Tidy, AbortedFirst
  <2>2. doing = {}
    BY <2>1 DEF Tidy, Slots, Calm
  <2>3. Elements(events) \subseteq Tasks \cup {Job}
    BY ElementsType DEF Tidy, TypeOK
  <2>4. QED
    BY <2>2, <2>3 DEF Tidy, InPlace, PostedOnce, RunningDoing
<1>2. QED
  BY <1>1, TidyInit, TidyStep, PTL DEF Spec

-----------------------------------------------------------------------------
(* What success says.  The invariant accounts for every sub task that was   *)
(* added until the first report, in a job that is not used again after an   *)
(* abort.                                                                  *)

\* Nothing that was added is lost, and nothing else is there.
Accounted == signals = <<>> => Elements(added) = Elements(queue) \cup doing \cup done

\* A MultipleOptionsTask stops at the first sub task that does well.
OneGood ==
  kind = "MultipleOptionsTask" /\ signals = <<>> =>
    /\ \A t, u \in done \ failed : t = u
    /\ done # failed => doing = {}

\* A job that told its sub tasks to stop did not report success.
DeafTold == deaf # {} => signals # <<>> /\ signals[1] # "Succeeded"

\* A report is either the first of its run or leaves what was reported first.
LEMMA EmitSignals ==
  ASSUME NEW outcome \in Terminal, TypeOK, Emit(outcome)
  PROVE  /\ signals' = <<>> => signals = <<>>
         /\ signals # <<>> => signals' # <<>> /\ signals'[1] = signals[1]
         /\ signals' = <<"Succeeded">> =>
              signals = <<"Succeeded">> \/ (signals = <<>> /\ outcome = "Succeeded")
<1>1. CASE state = "Running"
  <2> DEFINE s == signals
             a == Append(s, outcome)
  <2>1. /\ s \in Seq(Terminal) /\ Len(s) \in Nat /\ Len(a) = Len(s) + 1
        /\ a[Len(s) + 1] = outcome /\ \A i \in 1..Len(s) : a[i] = s[i]
    BY AppendProperties, LenProperties DEF TypeOK
  <2>2. signals' = a
    BY <1>1 DEF Emit
  <2>3. a # <<>> /\ (s # <<>> => Len(s) # 0)
    BY <2>1, EmptySeq
  <2>4. a = <<"Succeeded">> => s = <<>> /\ outcome = "Succeeded"
    <3>1. SUFFICES ASSUME a = <<"Succeeded">>
                   PROVE  Len(s) = 0 /\ a[1] = "Succeeded"
      BY <2>1, EmptySeq
    <3>2. QED
      BY <2>1, <3>1
  <2>5. QED
    BY <2>1, <2>2, <2>3, <2>4
<1>2. CASE state # "Running"
  BY <1>2 DEF Emit
<1>3. QED
  BY <1>1, <1>2

\* A turn that only reports, or only takes a posted call.
LEMMA ReportAccounted ==
  ASSUME TypeOK, Accounted, OneGood,
         UNCHANGED <<kind, queue, doing, done, failed, added>>,
         signals' = signals \/ (\E outcome \in Terminal : Emit(outcome))
  PROVE  Accounted' /\ OneGood'
<1>1. signals' = <<>> => signals = <<>>
  BY EmitSignals
<1>2. QED
  BY <1>1 DEF Accounted, OneGood

LEMMA FinishedAccounted ==
  ASSUME NEW t \in Tasks, NEW ok \in BOOLEAN,
         Tidy, Accounted, OneGood, SubTaskFinished(t, ok), sub[t] = "Running",
         signals' = signals \/ (\E outcome \in Terminal : Emit(outcome))
  PROVE  Accounted' /\ OneGood'
<1>1. /\ t \in doing /\ doing' = doing \ {t} /\ queue' = queue /\ added' = added
      /\ kind' = kind
      /\ done' = done \cup {t} /\ failed' = IF ok THEN failed ELSE failed \cup {t}
  BY DEF Tidy, InPlace, RunningDoing, SubTaskFinished
<1>2. signals' = <<>> => signals = <<>>
  BY EmitSignals DEF Tidy
<1>3. Accounted'
  BY <1>1, <1>2 DEF Accounted
<1>4. OneGood'
  <2>1. SUFFICES ASSUME kind = "MultipleOptionsTask", signals = <<>>
                 PROVE  (\A v, u \in done' \ failed' : v = u) /\ doing' = {}
    BY <1>1, <1>2 DEF OneGood
  <2>2. done = failed
    BY <1>1, <2>1 DEF OneGood
  <2>3. doing' = {}
    BY <1>1, <2>1 DEF Tidy, Slots, AtMostOne
  <2>4. QED
    BY <1>1, <2>2, <2>3
<1>5. QED
  BY <1>3, <1>4

LEMMA SubTaskFailedAccounted ==
  ASSUME NEW t \in Tasks, Tidy, Accounted, OneGood, SubTaskFailed(t), sub[t] = "Running"
  PROVE  Accounted' /\ OneGood'
<1>1. SubTaskFinished(t, FALSE)
  BY DEF SubTaskFailed
<1>2. signals' = signals \/ (\E outcome \in Terminal : Emit(outcome))
  BY DEF SubTaskFailed, Terminal
<1>3. QED
  BY <1>1, <1>2, FinishedAccounted

LEMMA AccountedStep ==
  ASSUME ReuseAborted = FALSE
  PROVE  Tidy /\ Accounted /\ OneGood /\ [Next]_vars => Accounted' /\ OneGood'
<1> SUFFICES ASSUME Tidy, Accounted, OneGood, [Next]_vars
             PROVE  Accounted' /\ OneGood'
  OBVIOUS
<1>t. TypeOK
  BY DEF Tidy
<1>1. ASSUME NEW t \in Tasks, AddTask(t)
      PROVE  Accounted' /\ OneGood'
  <2>1. /\ Elements(queue') = Elements(queue) \cup {t}
        /\ Elements(added') = Elements(added) \cup {t}
    BY <1>1, <1>t, ElementsAppend DEF AddTask, TypeOK
  <2>2. QED
    BY <1>1, <2>1 DEF AddTask, Accounted, OneGood
<1>2. CASE Start
  BY <1>2, <1>t, ReportAccounted DEF Start, jobVars
<1>3. CASE Abort
  <2>1. signals' # <<>>
    <3>1. CASE doing = {}
      BY <1>3, <3>1 DEF Abort
    <3>2. CASE doing # {}
      <4>1. state = "Running" /\ \E outcome \in Terminal : Emit(outcome)
        BY <1>3, <3>2 DEF Abort, Terminal, Tidy, Begun, InactiveIdle
      <4>2. QED
        BY <4>1, <1>t, EmitEnds
    <3>3. QED
      BY <3>1, <3>2
  <2>2. QED
    BY <2>1 DEF Accounted, OneGood
<1>4. CASE Clear
  <2>1. doing = {} /\ doing' = {} /\ done' = {} /\ failed' = {}
    BY <1>4 DEF Clear, Tidy, Slots, Calm
  <2>2. Elements(queue') = {} /\ Elements(added') = {}
    BY <1>4, ElementsEmpty DEF Clear
  <2>3. QED
    BY <2>1, <2>2 DEF Accounted, OneGood
<1>5. CASE SettleOptions
  <2>1. \E outcome \in Terminal : Emit(outcome)
    BY <1>5 DEF SettleOptions, Terminal
  <2>2. QED
    BY <1>5, <1>t, <2>1, ReportAccounted DEF SettleOptions, jobVars
<1>6. CASE SkipNext
  BY <1>6, <1>t, ReportAccounted DEF SkipNext, jobVars
<1>7. CASE FinishJob
  <2>1. \E outcome \in Terminal : Emit(outcome)
    BY <1>7 DEF FinishJob, Terminal
  <2>2. QED
    BY <1>7, <1>t, <2>1, ReportAccounted DEF FinishJob, jobVars
<1>8. CASE StartSubTask
  <2> DEFINE h == Head(queue)
  <2>1. /\ Elements(queue) = Elements(queue') \cup {h} /\ h \notin Elements(queue')
    <3>1. queue \in Seq(Tasks) /\ queue # <<>> /\ queue' = Tail(queue) /\ Once(queue, Tasks)
      BY <1>8, <1>t DEF StartSubTask, TypeOK, Tidy, InPlace, QueueFresh
    <3>2. QED
      BY <3>1, OnceTail, ElementsTail
  <2>2. doing' = doing \cup {h} /\ UNCHANGED <<kind, done, failed, sub, signals, added>>
    BY <1>8 DEF StartSubTask
  <2>3. kind = "MultipleOptionsTask" => done = failed
    <3>1. SUFFICES ASSUME kind = "MultipleOptionsTask"
                   PROVE  done = failed
      OBVIOUS
    <3>2. Cardinality(done) = Cardinality(failed)
      BY <1>8, <3>1 DEF StartSubTask, OptionFound
    <3>3. IsFiniteSet(done) /\ failed \subseteq done
      BY <1>t, TasksAssumption, FS_Subset DEF TypeOK
    <3>4. QED
      BY <3>2, <3>3, FS_Subset
  <2> HIDE DEF h
  <2>4. Accounted'
    BY <2>1, <2>2 DEF Accounted
  <2>5. OneGood'
    BY <2>2, <2>3 DEF OneGood
  <2>6. QED
    BY <2>4, <2>5
<1>9. ASSUME NEW t \in Tasks, RunSubTask(t)
      PROVE  Accounted' /\ OneGood'
  BY <1>9 DEF RunSubTask, jobVars, Accounted, OneGood
<1>10. ASSUME NEW t \in Tasks, SubTaskSucceeds(t)
       PROVE  Accounted' /\ OneGood'
  BY <1>10, FinishedAccounted DEF SubTaskSucceeds
<1>11. ASSUME NEW t \in Tasks, SubTaskFails(t)
       PROVE  Accounted' /\ OneGood'
  BY <1>11, SubTaskFailedAccounted DEF SubTaskFails
<1>12. ASSUME NEW t \in Tasks, SubTaskAborts(t)
       PROVE  Accounted' /\ OneGood'
  <2>1. CASE t \in deaf
    BY <1>12, <2>1 DEF SubTaskAborts, jobVars, Accounted, OneGood
  <2>2. CASE t \notin deaf
    BY <1>12, <2>2, SubTaskFailedAccounted DEF SubTaskAborts
  <2>3. QED
    BY <2>1, <2>2
<1>13. CASE UNCHANGED vars
  BY <1>13 DEF vars, jobVars, Accounted, OneGood
<1>14. QED
  BY <1>1, <1>2, <1>3, <1>4, <1>5, <1>6, <1>7, <1>8, <1>9, <1>10, <1>11, <1>12, <1>13
     DEF Next

\* A report keeps the first one where it was.
LEMMA ReportDeaf ==
  ASSUME TypeOK, DeafTold, deaf' = deaf,
         signals' = signals \/ (\E outcome \in Terminal : Emit(outcome))
  PROVE  DeafTold'
  BY EmitSignals DEF DeafTold

LEMMA FailedDeaf ==
  ASSUME NEW t \in Tasks, TypeOK, DeafTold, SubTaskFailed(t)
  PROVE  DeafTold'
<1>1. signals' = signals \/ (\E outcome \in Terminal : Emit(outcome))
  BY DEF SubTaskFailed, Terminal
<1>2. QED
  BY <1>1, ReportDeaf DEF SubTaskFailed, SubTaskFinished

LEMMA DeafStep ==
  ASSUME ReuseAborted = FALSE
  PROVE  Tidy /\ DeafTold /\ [Next]_vars => DeafTold'
<1> SUFFICES ASSUME Tidy, DeafTold, [Next]_vars
             PROVE  DeafTold'
  OBVIOUS
<1>t. TypeOK
  BY DEF Tidy
<1>1. ASSUME NEW t \in Tasks, AddTask(t)
      PROVE  DeafTold'
  BY <1>1, <1>t, ReportDeaf DEF AddTask
<1>2. CASE Start
  BY <1>2, <1>t, ReportDeaf DEF Start
<1>3. CASE Abort
  <2>1. CASE doing = {}
    BY <1>3, <2>1 DEF Abort, DeafTold
  <2>2. CASE doing # {}
    <3>1. state = "Running" /\ signals = <<>>
      BY <1>3, <2>2 DEF Abort, Tidy, Begun, InactiveIdle
    <3>2. \E outcome \in {"AbortedByUser", "Failed"} : signals' = Append(<<>>, outcome)
      BY <1>3, <2>2, <3>1 DEF Abort, Emit
    <3>3. signals' # <<>> /\ signals'[1] # "Succeeded"
      BY <3>2
    <3>4. QED
      BY <3>3 DEF DeafTold
  <2>3. QED
    BY <2>1, <2>2
<1>4. CASE Clear
  BY <1>4 DEF Clear, DeafTold
<1>5. CASE SettleOptions
  <2>1. \E outcome \in Terminal : Emit(outcome)
    BY <1>5 DEF SettleOptions, Terminal
  <2>2. QED
    BY <1>5, <1>t, <2>1, ReportDeaf DEF SettleOptions
<1>6. CASE SkipNext
  BY <1>6, <1>t, ReportDeaf DEF SkipNext
<1>7. CASE FinishJob
  <2>1. \E outcome \in Terminal : Emit(outcome)
    BY <1>7 DEF FinishJob, Terminal
  <2>2. QED
    BY <1>7, <1>t, <2>1, ReportDeaf DEF FinishJob
<1>8. CASE StartSubTask
  BY <1>8 DEF StartSubTask, DeafTold
<1>9. ASSUME NEW t \in Tasks, RunSubTask(t)
      PROVE  DeafTold'
  BY <1>9, <1>t, ReportDeaf DEF RunSubTask
<1>10. ASSUME NEW t \in Tasks, SubTaskSucceeds(t)
       PROVE  DeafTold'
  BY <1>10, <1>t, ReportDeaf DEF SubTaskSucceeds, SubTaskFinished
<1>11. ASSUME NEW t \in Tasks, SubTaskFails(t)
       PROVE  DeafTold'
  BY <1>11, <1>t, FailedDeaf DEF SubTaskFails
<1>12. ASSUME NEW t \in Tasks, SubTaskAborts(t)
       PROVE  DeafTold'
  BY <1>12, <1>t, FailedDeaf, ReportDeaf DEF SubTaskAborts
<1>13. CASE UNCHANGED vars
  BY <1>13 DEF vars, DeafTold
<1>14. QED
  BY <1>1, <1>2, <1>3, <1>4, <1>5, <1>6, <1>7, <1>8, <1>9, <1>10, <1>11, <1>12, <1>13
     DEF Next

Honest == Tidy /\ Wakeup /\ Accounted /\ OneGood /\ DeafTold /\ HonestSuccess

\* The sub tasks that were added and did well are m_done without m_failed, once
\* nothing is in flight.
LEMMA GoodOnes ==
  ASSUME Tidy, Accounted, signals = <<>>, doing = {}
  PROVE  {t \in Elements(added) : sub[t] = "Succeeded"} = done \ failed
<1>1. Elements(added) = Elements(queue) \cup done
  BY DEF Accounted
<1>2. \A t \in Elements(queue) : sub[t] # "Succeeded"
  BY DEF Tidy, InPlace, QueueFresh
<1>3. \A t \in failed : sub[t] # "Succeeded"
  BY DEF Tidy, Placed
<1>4. \A t \in done \ failed : sub[t] = "Succeeded"
  BY DEF Tidy, Placed
<1>5. QED
  BY <1>1, <1>2, <1>3, <1>4

\* A MultipleOptionsTask that finds something done and not failed reports it.
LEMMA OptionsHonest ==
  ASSUME Honest, SettleOptions, signals = <<>>, OptionFound
  PROVE  HonestSuccess'
<1>1. kind = "MultipleOptionsTask" /\ done # failed /\ failed \subseteq done
  BY DEF OptionFound, Honest, Tidy, TypeOK
<1>2. doing = {} /\ \A t, u \in done \ failed : t = u
  BY <1>1 DEF Honest, OneGood
<1>x. PICK x \in done : x \notin failed
  BY <1>1
<1>3. done \ failed = {x}
  BY <1>2, <1>x
<1>4. {t \in Elements(added) : sub[t] = "Succeeded"} = {x}
  BY <1>2, <1>3, GoodOnes DEF Honest
<1>5. Cardinality({x}) = 1
  BY FS_Singleton
<1>6. kind' = kind /\ added' = added /\ sub' = sub
  BY DEF SettleOptions
<1>7. QED
  BY <1>1, <1>4, <1>5, <1>6 DEF HonestSuccess

\* A job without a failure, with nothing waiting and nothing in flight.
LEMMA FinishHonest ==
  ASSUME Honest, FinishJob, signals = <<>>, failed = {}
  PROVE  HonestSuccess'
<1>1. queue = <<>> /\ doing = {} /\ kind # "MultipleOptionsTask"
  BY DEF FinishJob, OptionsExhausted
<1>2. {t \in Elements(added) : sub[t] = "Succeeded"} = done
  BY <1>1, GoodOnes DEF Honest
<1>3. Elements(added) = done
  BY <1>1, ElementsEmpty DEF Honest, Accounted
<1>4. kind' = kind /\ added' = added /\ sub' = sub
  BY DEF FinishJob
<1>5. QED
  BY <1>1, <1>2, <1>3, <1>4 DEF HonestSuccess

\* Nothing moves any more after a report of success.
LEMMA SuccessIsFinal ==
  ASSUME Honest, signals = <<"Succeeded">>
  PROVE  /\ state # "Running"
         /\ \A t \in Tasks : sub[t] # "Running" /\ t \notin Elements(events)
<1>1. signals # <<>> /\ signals[1] = "Succeeded"
  OBVIOUS
<1>2. state # "Running" /\ deaf = {}
  BY <1>1 DEF Honest, Tidy, AbortedFirst, DeafTold
<1>3. doing = {}
  BY <1>2 DEF Honest, Tidy, Slots, Calm
<1>4. QED
  BY <1>2, <1>3 DEF Honest, Tidy, InPlace, PostedOnce, RunningDoing

\* A step that leaves the sub tasks alone and does not report success.
LEMMA SameHonest ==
  ASSUME HonestSuccess, UNCHANGED <<kind, added, sub>>,
         signals' = <<"Succeeded">> => signals = <<"Succeeded">>
  PROVE  HonestSuccess'
  BY DEF HonestSuccess

\* The end of a sub task never reports success by itself.
LEMMA FinishedHonest ==
  ASSUME NEW t \in Tasks, Honest, sub[t] = "Running",
         signals' = signals \/ Emit("Failed")
  PROVE  HonestSuccess'
<1>1. signals # <<"Succeeded">>
  BY SuccessIsFinal
<1>2. "Failed" \in Terminal
  BY DEF Terminal
<1>3. signals' # <<"Succeeded">>
  BY <1>1, <1>2, EmitSignals DEF Honest, Tidy
<1>4. QED
  BY <1>3 DEF HonestSuccess

LEMMA HonestStep == Honest /\ [Next]_vars => HonestSuccess'
<1> SUFFICES ASSUME Honest, [Next]_vars
             PROVE  HonestSuccess'
  OBVIOUS
<1>t. TypeOK /\ HonestSuccess
  BY DEF Honest, Tidy
<1>1. ASSUME NEW t \in Tasks, AddTask(t)
      PROVE  HonestSuccess'
  BY <1>1 DEF AddTask, HonestSuccess
<1>2. CASE Start
  BY <1>2, <1>t, SameHonest DEF Start
<1>3. CASE Abort
  <2>1. \E outcome \in {"AbortedByUser", "Failed"} :
          signals' = Append(<<>>, outcome) \/ signals' = <<>>
    BY <1>3 DEF Abort, Emit
  <2>2. signals' # <<"Succeeded">>
    BY <2>1
  <2>3. QED
    BY <2>2 DEF HonestSuccess
<1>4. CASE Clear
  BY <1>4 DEF Clear, HonestSuccess
<1>5. CASE SettleOptions
  <2>1. "Succeeded" \in Terminal /\ "Failed" \in Terminal
    BY DEF Terminal
  <2>2. CASE signals = <<>> /\ OptionFound
    BY <1>5, <2>2, OptionsHonest
  <2>3. CASE signals # <<>> \/ ~OptionFound
    <3>1. signals' = <<"Succeeded">> => signals = <<"Succeeded">>
      <4>1. CASE OptionFound
        BY <1>5, <1>t, <2>1, <2>3, <4>1, EmitSignals DEF SettleOptions, OptionsExhausted
      <4>2. CASE ~OptionFound
        BY <1>5, <1>t, <2>1, <4>2, EmitSignals DEF SettleOptions
      <4>3. QED
        BY <4>1, <4>2
    <3>2. QED
      BY <1>5, <1>t, <3>1, SameHonest DEF SettleOptions
  <2>4. QED
    BY <2>2, <2>3
<1>6. CASE SkipNext
  BY <1>6, <1>t, SameHonest DEF SkipNext
<1>7. CASE FinishJob
  <2>1. "Succeeded" \in Terminal /\ "Failed" \in Terminal
    BY DEF Terminal
  <2>2. CASE signals = <<>> /\ failed = {}
    BY <1>7, <2>2, FinishHonest
  <2>3. CASE signals # <<>> \/ failed # {}
    <3>1. signals' = <<"Succeeded">> => signals = <<"Succeeded">>
      BY <1>7, <1>t, <2>1, <2>3, EmitSignals DEF FinishJob
    <3>2. QED
      BY <1>7, <1>t, <3>1, SameHonest DEF FinishJob
  <2>4. QED
    BY <2>2, <2>3
<1>8. CASE StartSubTask
  BY <1>8, <1>t, SameHonest DEF StartSubTask
<1>9. ASSUME NEW t \in Tasks, RunSubTask(t)
      PROVE  HonestSuccess'
  <2>1. signals # <<"Succeeded">>
    <3>1. t \in Elements(events)
      BY <1>9, <1>t, TakenElements DEF RunSubTask
    <3>2. QED
      BY <3>1, SuccessIsFinal
  <2>2. QED
    BY <1>9, <2>1 DEF RunSubTask, HonestSuccess
<1>10. ASSUME NEW t \in Tasks, SubTaskSucceeds(t)
       PROVE  HonestSuccess'
  BY <1>10, FinishedHonest DEF SubTaskSucceeds
<1>11. ASSUME NEW t \in Tasks, SubTaskFails(t)
       PROVE  HonestSuccess'
  BY <1>11, FinishedHonest DEF SubTaskFails, SubTaskFailed
<1>12. ASSUME NEW t \in Tasks, SubTaskAborts(t)
       PROVE  HonestSuccess'
  BY <1>12, FinishedHonest DEF SubTaskAborts, SubTaskFailed
<1>13. CASE UNCHANGED vars
  BY <1>13, <1>t, SameHonest DEF vars
<1>14. QED
  BY <1>1, <1>2, <1>3, <1>4, <1>5, <1>6, <1>7, <1>8, <1>9, <1>10, <1>11, <1>12, <1>13
     DEF Next

LEMMA HonestInit == Init => Honest
<1> SUFFICES ASSUME Init
             PROVE  Honest
  OBVIOUS
<1>1. Elements(queue) = {} /\ Elements(added) = {}
  BY ElementsEmpty DEF Init
<1>2. Wakeup /\ Accounted /\ OneGood /\ DeafTold /\ HonestSuccess
  BY <1>1 DEF Init, Wakeup, DoingAlive, DeafEnded, Progress, Accounted, OneGood, DeafTold,
              HonestSuccess
<1>3. QED
  BY <1>2, TidyInit DEF Honest

LEMMA HonestAlways ==
  ASSUME ReuseAborted = FALSE
  PROVE  Honest /\ [Next]_vars => Honest'
  BY TidyStep, WakeupStep, AccountedStep, DeafStep, HonestStep DEF Honest, Tidy

\* The first and only report of a run says "succeeded" only if every sub task
\* that was added did well, or one of them did for a MultipleOptionsTask.
THEOREM SuccessIsHonest ==
  ASSUME ReuseAborted = FALSE
  PROVE  Spec => []HonestSuccess
<1>1. Honest => HonestSuccess
  BY DEF Honest
<1>2. QED
  BY <1>1, HonestInit, HonestAlways, PTL DEF Spec

-----------------------------------------------------------------------------
(* The classes that try one sub task at a time: the queue is the rest of    *)
(* what was added, and everything before the last one that was started      *)
(* ended the way that lets the job go on.                                  *)

Expected ==
  IF kind = "SequentialTask" THEN {"Succeeded"} ELSE {"Failed", "AbortedByUser"}

\* The first n sub tasks that were added have been started, and no others.
Frontier(n) ==
  /\ \A j \in (n + 1)..Len(added) : sub[added[j]] = "Inactive" /\ added[j] \notin doing
  /\ \A i \in 1..(n - 1) : sub[added[i]] \in Expected /\ added[i] \notin doing
  /\ signals = <<>> => /\ Len(queue) = Len(added) - n
                       /\ \A k \in 1..Len(queue) : queue[k] = added[n + k]

\* Until the first report: nothing that was added is lost, it only runs while
\* the job does, and ends it by failing.  What an aborted run left behind in
\* m_doing was not added.
AddedRuns ==
  signals = <<>> =>
    /\ Elements(added) \subseteq Elements(queue) \cup doing \cup done
    /\ \A t \in doing : t \in Elements(added) => state = "Running"
    /\ kind = "SequentialTask" => \A t \in failed : t \notin Elements(added)

InOrder ==
  /\ Once(added, Tasks)
  /\ signals # <<>> /\ state = "Running" => queue = <<>>
  /\ AddedRuns
  /\ kind # "ConcurrentTask" => \E n \in 0..Len(added) : Frontier(n)

\* What is added, and what waits, by position.
LEMMA AddedShape ==
  ASSUME TypeOK
  PROVE  /\ Len(added) \in Nat /\ DOMAIN added = 1..Len(added)
         /\ \A i \in 1..Len(added) : added[i] \in Tasks
         /\ Len(queue) \in Nat /\ DOMAIN queue = 1..Len(queue)
  BY LenProperties, ElementOfSeq DEF TypeOK

\* The end of a sub task, or a change of one in m_doing: the frontier stays.
LEMMA SameFrontier ==
  ASSUME TypeOK, InOrder,
         UNCHANGED <<kind, added>>, doing' \subseteq doing,
         \A u \in Tasks \ doing : sub'[u] = sub[u],
         signals' = <<>> => signals = <<>> /\ queue' = queue
  PROVE  kind' # "ConcurrentTask" => \E n \in 0..Len(added') : Frontier(n)'
<1> SUFFICES ASSUME kind # "ConcurrentTask"
             PROVE  \E n \in 0..Len(added) : Frontier(n)'
  OBVIOUS
<1>1. PICK n \in 0..Len(added) : Frontier(n)
  BY DEF InOrder
<1>a. Len(added) \in Nat /\ \A i \in 1..Len(added) : added[i] \in Tasks
  BY AddedShape
<1>2. ASSUME NEW j \in (n + 1)..Len(added)
      PROVE  sub'[added[j]] = "Inactive" /\ added[j] \notin doing'
  <2>1. added[j] \in Tasks
    BY <1>a, <1>1, <1>2
  <2>2. sub[added[j]] = "Inactive" /\ added[j] \notin doing
    BY <1>1 DEF Frontier
  <2>3. QED
    BY <2>1, <2>2
<1>3. ASSUME NEW i \in 1..(n - 1)
      PROVE  sub'[added[i]] \in Expected /\ added[i] \notin doing'
  <2>1. added[i] \in Tasks
    BY <1>a, <1>1, <1>3
  <2>2. sub[added[i]] \in Expected /\ added[i] \notin doing
    BY <1>1 DEF Frontier
  <2>3. QED
    BY <2>1, <2>2
<1>4. Expected' = Expected
  BY DEF Expected
<1>5. Frontier(n)'
  BY <1>1, <1>2, <1>3, <1>4 DEF Frontier
<1>6. QED
  BY <1>5

\* A turn that only reports, or only takes a posted call.
LEMMA ReportInOrder ==
  ASSUME TypeOK, InOrder, UNCHANGED <<kind, queue, doing, done, failed, sub, added>>,
         (state' = state /\ signals' = signals) \/ (\E outcome \in Terminal : Emit(outcome))
  PROVE  InOrder'
<1>1. /\ signals' = <<>> => signals = <<>> /\ state' = state
      /\ state' = "Running" => state = "Running" /\ signals' = signals
  BY EmitSignals, EmitStops, EmitEnds DEF Emit
<1>2. kind' # "ConcurrentTask" => \E n \in 0..Len(added') : Frontier(n)'
  BY <1>1, SameFrontier
<1>3. AddedRuns'
  BY <1>1 DEF InOrder, AddedRuns, Elements
<1>4. QED
  BY <1>1, <1>2, <1>3 DEF InOrder

LEMMA FinishedInOrder ==
  ASSUME NEW t \in Tasks, NEW ok \in BOOLEAN, NEW ended \in TaskState,
         Tidy, InOrder, SubTaskFinished(t, ok), sub[t] = "Running",
         sub' = [sub EXCEPT ![t] = ended],
         (state' = state /\ signals' = signals) \/ (\E outcome \in Terminal : Emit(outcome)),
         ~ok /\ kind = "SequentialTask" => Emit("Failed")
  PROVE  InOrder'
<1>t. TypeOK
  BY DEF Tidy
<1>1. t \in doing
  BY DEF Tidy, InPlace, RunningDoing
<1>2. /\ doing' = doing \ {t} /\ done' = done \cup {t} /\ UNCHANGED <<kind, queue, added>>
      /\ failed' = IF ok THEN failed ELSE failed \cup {t}
      /\ \A u \in Tasks \ doing : sub'[u] = sub[u]
  BY <1>1 DEF SubTaskFinished
<1>3. /\ signals' = <<>> => signals = <<>>
      /\ state' = "Running" => state = "Running" /\ signals' = signals
  BY <1>t, EmitSignals, EmitStops DEF Emit
<1>4. kind' # "ConcurrentTask" => \E n \in 0..Len(added') : Frontier(n)'
  BY <1>t, <1>2, <1>3, SameFrontier
<1>5. AddedRuns'
  <2>1. SUFFICES ASSUME signals' = <<>>
                 PROVE  /\ Elements(added') \subseteq Elements(queue') \cup doing' \cup done'
                        /\ \A u \in doing' : u \in Elements(added') => state' = "Running"
                        /\ kind' = "SequentialTask" =>
                             \A u \in failed' : u \notin Elements(added')
    BY DEF AddedRuns
  <2>2. /\ signals = <<>> /\ AddedRuns
        /\ Elements(queue') = Elements(queue) /\ Elements(added') = Elements(added)
    BY <1>2, <1>3, <2>1 DEF InOrder
  <2>3. state' = state
    <3>1. CASE state = "Running"
      BY <1>t, <2>1, <3>1, EmitEnds
    <3>2. CASE state # "Running"
      BY <3>2 DEF Emit
    <3>3. QED
      BY <3>1, <3>2
  <2>4. ASSUME kind = "SequentialTask", ~ok
        PROVE  t \notin Elements(added)
    <3>1. Emit("Failed") /\ "Failed" \in Terminal
      BY <2>4 DEF Terminal
    <3>2. state # "Running"
      BY <1>t, <2>1, <3>1, EmitEnds
    <3>3. QED
      BY <1>1, <2>2, <3>2 DEF AddedRuns
  <2>5. QED
    BY <1>2, <2>2, <2>3, <2>4 DEF AddedRuns
<1>6. QED
  BY <1>2, <1>3, <1>4, <1>5 DEF InOrder

LEMMA SubTaskFailedInOrder ==
  ASSUME NEW t \in Tasks, NEW ended \in TaskState, Tidy, InOrder,
         SubTaskFailed(t), sub[t] = "Running", sub' = [sub EXCEPT ![t] = ended]
  PROVE  InOrder'
<1>1. /\ SubTaskFinished(t, FALSE)
      /\ kind = "SequentialTask" => Emit("Failed")
      /\ (state' = state /\ signals' = signals) \/ (\E outcome \in Terminal : Emit(outcome))
  BY DEF SubTaskFailed, Terminal
<1>2. QED
  BY <1>1, FinishedInOrder

LEMMA AddedInOrder ==
  ASSUME NEW t \in Tasks, TypeOK, Placed, InOrder, AddTask(t)
  PROVE  InOrder'
<1> DEFINE a == added
           q == queue
<1>1. /\ a \in Seq(Tasks) /\ q \in Seq(Tasks)
      /\ added' = Append(a, t) /\ queue' = Append(q, t) /\ signals = <<>> /\ signals' = <<>>
      /\ t \notin Elements(a) /\ sub[t] = "Inactive" /\ t \notin doing
      /\ UNCHANGED <<kind, state, doing, done, failed, sub>>
  BY DEF AddTask, TypeOK
<1>2. /\ Len(a) \in Nat /\ Len(added') = Len(a) + 1
      /\ added'[Len(a) + 1] = t /\ \A i \in 1..Len(a) : added'[i] = a[i]
      /\ Len(q) \in Nat /\ Len(queue') = Len(q) + 1
      /\ queue'[Len(q) + 1] = t /\ \A i \in 1..Len(q) : queue'[i] = q[i]
  BY <1>1, AppendProperties, LenProperties
<1>3. /\ Once(added', Tasks) /\ Elements(added') = Elements(added) \cup {t}
      /\ Elements(queue') = Elements(queue) \cup {t}
  BY <1>1, OnceAppend, ElementsAppend DEF InOrder
<1>4. ASSUME kind # "ConcurrentTask"
      PROVE  \E n \in 0..Len(added') : Frontier(n)'
  <2>1. PICK n \in 0..Len(a) : Frontier(n)
    BY <1>4 DEF InOrder
  <2>2. \A j \in (n + 1)..Len(added') : sub[added'[j]] = "Inactive" /\ added'[j] \notin doing
    BY <1>1, <1>2, <2>1 DEF Frontier
  <2>3. \A i \in 1..(n - 1) : sub[added'[i]] \in Expected /\ added'[i] \notin doing
    BY <1>2, <2>1 DEF Frontier
  <2>4. Len(queue') = Len(added') - n
    BY <1>1, <1>2, <2>1 DEF Frontier
  <2>5. \A k \in 1..Len(queue') : queue'[k] = added'[n + k]
    <3>1. Len(q) = Len(a) - n /\ \A k \in 1..Len(q) : q[k] = a[n + k]
      BY <1>1, <2>1 DEF Frontier
    <3>2. ASSUME NEW k \in 1..Len(queue')
          PROVE  queue'[k] = added'[n + k]
      <4>1. CASE k = Len(q) + 1
        <5>1. n + k = Len(a) + 1
          BY <1>2, <2>1, <3>1, <4>1
        <5>2. QED
          BY <1>2, <4>1, <5>1
      <4>2. CASE k # Len(q) + 1
        <5>1. k \in 1..Len(q) /\ n + k \in 1..Len(a)
          BY <1>2, <2>1, <3>1, <4>2
        <5>2. QED
          BY <1>2, <3>1, <5>1
      <4>3. QED
        BY <4>1, <4>2
    <3>3. QED
      BY <3>2
  <2>6. Expected' = Expected
    BY <1>1 DEF Expected
  <2>7. Frontier(n)'
    BY <1>1, <2>2, <2>3, <2>4, <2>5, <2>6 DEF Frontier
  <2>8. QED
    BY <1>2, <2>1, <2>7
<1>5. t \notin failed
  BY <1>1 DEF Placed
<1>6. AddedRuns'
  BY <1>1, <1>3, <1>5 DEF InOrder, AddedRuns
<1>7. QED
  BY <1>1, <1>3, <1>4, <1>6 DEF InOrder

LEMMA StartedInOrder ==
  ASSUME Tidy, InOrder, StartSubTask
  PROVE  InOrder'
<1> DEFINE q == queue
<1>t. TypeOK
  BY DEF Tidy
<1>1. /\ q \in Seq(Tasks) /\ q # <<>> /\ queue' = Tail(q) /\ doing' = doing \cup {Head(q)}
      /\ UNCHANGED <<kind, state, done, failed, sub, signals, added>> /\ state = "Running"
  BY <1>t DEF StartSubTask, MayStartMore, TypeOK
<1>2. signals = <<>>
  BY <1>1 DEF InOrder
<1>3. /\ Len(q) \in Nat \ {0} /\ Head(q) = q[1]
      /\ Len(queue') = Len(q) - 1 /\ \A k \in 1..Len(queue') : queue'[k] = q[k + 1]
  BY <1>1, HeadTailProperties, EmptySeq, LenProperties
<1>4. AddedRuns'
  <2>1. Elements(queue) = Elements(queue') \cup {Head(q)} /\ Elements(added') = Elements(added)
    BY <1>1, ElementsTail
  <2>2. QED
    BY <1>1, <1>2, <2>1 DEF InOrder, AddedRuns
<1>5. ASSUME kind # "ConcurrentTask"
      PROVE  \E n \in 0..Len(added') : Frontier(n)'
  <2>1. PICK n \in 0..Len(added) : Frontier(n)
    BY <1>5 DEF InOrder
  <2>2. Len(q) = Len(added) - n /\ \A k \in 1..Len(q) : q[k] = added[n + k]
    BY <1>2, <2>1 DEF Frontier
  <2>3. n + 1 \in 1..Len(added) /\ Head(q) = added[n + 1]
    BY <1>t, <1>3, <2>1, <2>2, AddedShape
  <2>4. \A i, j \in 1..Len(added) : added[i] = added[j] => i = j
    BY <1>t, AddedShape DEF InOrder, Once
  <2>5. doing = {}
    <3>1. Cardinality(doing) < 1
      BY <1>5 DEF StartSubTask, MayStartMore, MaxSize
    <3>2. IsFiniteSet(doing)
      BY <1>t, TasksAssumption, FS_Subset DEF TypeOK
    <3>3. QED
      BY <3>1, <3>2, FS_EmptySet, FS_CardinalityType
  <2>6. ASSUME n \in 1..Len(added)
        PROVE  sub[added[n]] \in Expected
    <3> DEFINE u == added[n]
    <3>1. u \in Elements(added)
      BY <1>t, <2>6, AddedShape DEF Elements
    <3>2. u \notin Elements(queue)
      <4>1. ASSUME NEW k \in 1..Len(q)
            PROVE  q[k] # u
        <5>1. n + k \in 1..Len(added) /\ n + k # n /\ q[k] = added[n + k]
          BY <1>t, <1>3, <2>1, <2>2, <4>1, AddedShape
        <5>2. QED
          BY <2>4, <2>6, <5>1
      <4>2. QED
        BY <1>t, <4>1, AddedShape DEF Elements
    <3>3. u \in done
      BY <1>2, <2>5, <3>1, <3>2 DEF InOrder, AddedRuns
    <3> HIDE DEF u
    <3>4. CASE kind = "SequentialTask"
      <4>1. u \notin failed
        BY <1>2, <3>1, <3>4 DEF InOrder, AddedRuns
      <4>2. QED
        BY <3>3, <3>4, <4>1 DEF u, Expected, Tidy, Placed
    <3>5. CASE kind = "MultipleOptionsTask"
      <4>1. Cardinality(done) = Cardinality(failed)
        BY <3>5 DEF StartSubTask, OptionFound
      <4>2. IsFiniteSet(done) /\ failed \subseteq done
        BY <1>t, TasksAssumption, FS_Subset DEF TypeOK
      <4>3. u \in failed
        BY <3>3, <4>1, <4>2, FS_Subset
      <4>4. QED
        BY <3>5, <4>3 DEF u, Expected, Tidy, Placed
    <3>6. QED
      BY <1>t, <1>5, <3>4, <3>5, KindsAssumption DEF TypeOK
  <2> DEFINE m == n + 1
  <2>7. \A j \in (m + 1)..Len(added) : sub[added[j]] = "Inactive" /\ added[j] \notin doing'
    BY <1>1, <2>1, <2>3, <2>4, <2>5 DEF Frontier
  <2>8. \A i \in 1..(m - 1) : sub[added[i]] \in Expected /\ added[i] \notin doing'
    <3>1. SUFFICES ASSUME NEW i \in 1..n
                   PROVE  sub[added[i]] \in Expected /\ added[i] \notin doing'
      BY <2>1
    <3>2. i \in 1..Len(added) /\ i # n + 1
      BY <2>1, <2>3
    <3>3. added[i] \notin doing'
      BY <1>1, <2>3, <2>4, <2>5, <3>2
    <3>4. sub[added[i]] \in Expected
      <4>1. CASE i = n
        BY <2>6, <3>2, <4>1
      <4>2. CASE i # n
        BY <2>1, <4>2 DEF Frontier
      <4>3. QED
        BY <4>1, <4>2
    <3>5. QED
      BY <3>3, <3>4
  <2>9. Len(queue') = Len(added) - m /\ \A k \in 1..Len(queue') : queue'[k] = added[m + k]
    <3>1. Len(added) \in Nat
      BY <1>t, AddedShape
    <3>2. Len(queue') = Len(added) - m
      BY <1>3, <2>1, <2>2, <3>1
    <3>3. ASSUME NEW k \in 1..Len(queue')
          PROVE  queue'[k] = added[m + k]
      <4>1. k + 1 \in 1..Len(q) /\ n + (k + 1) = m + k
        BY <1>3, <2>1, <3>3
      <4>2. QED
        BY <1>3, <2>2, <4>1
    <3>4. QED
      BY <3>2, <3>3
  <2>10. Expected' = Expected
    BY <1>1 DEF Expected
  <2>11. m \in 0..Len(added')
    BY <1>1, <2>3
  <2> HIDE DEF m
  <2>12. Frontier(m)'
    BY <1>1, <2>7, <2>8, <2>9, <2>10 DEF Frontier
  <2>13. QED
    BY <2>11, <2>12
<1>6. QED
  BY <1>1, <1>2, <1>4, <1>5 DEF InOrder

LEMMA InOrderStep == Tidy /\ InOrder /\ [Next]_vars => InOrder'
<1> SUFFICES ASSUME Tidy, InOrder, [Next]_vars
             PROVE  InOrder'
  OBVIOUS
<1>t. TypeOK /\ Placed
  BY DEF Tidy
<1>1. ASSUME NEW t \in Tasks, AddTask(t)
      PROVE  InOrder'
  BY <1>1, <1>t, AddedInOrder
<1>2. CASE Start
  <2>1. /\ signals = <<>> /\ UNCHANGED <<kind, queue, doing, done, failed, sub, added, signals>>
    BY <1>2 DEF Start, jobVars
  <2>2. kind' # "ConcurrentTask" => \E n \in 0..Len(added') : Frontier(n)'
    BY <1>t, <2>1, SameFrontier
  <2>3. AddedRuns'
    BY <1>2, <2>1 DEF Start, InOrder, AddedRuns, Elements
  <2>4. QED
    BY <2>1, <2>2, <2>3 DEF InOrder
<1>3. CASE Abort
  <2>1. signals' # <<>>
    <3>1. CASE doing = {}
      BY <1>3, <3>1 DEF Abort
    <3>2. CASE doing # {}
      <4>1. state = "Running" /\ \E outcome \in Terminal : Emit(outcome)
        BY <1>3, <3>2 DEF Abort, Terminal, Tidy, Begun, InactiveIdle
      <4>2. QED
        BY <4>1, <1>t, EmitEnds
    <3>3. QED
      BY <3>1, <3>2
  <2>2. /\ queue' = <<>> /\ UNCHANGED <<kind, doing, failed, added>>
        /\ \A u \in Tasks \ doing : sub'[u] = sub[u]
    BY <1>3 DEF Abort
  <2>3. kind' # "ConcurrentTask" => \E n \in 0..Len(added') : Frontier(n)'
    BY <1>t, <2>1, <2>2, SameFrontier
  <2>4. QED
    BY <2>1, <2>2, <2>3 DEF InOrder, AddedRuns
<1>4. CASE Clear
  <2>1. queue' = <<>> /\ added' = <<>> /\ signals' = <<>> /\ failed' = {}
    BY <1>4 DEF Clear
  <2>2. Frontier(0)'
    BY <2>1 DEF Frontier
  <2>3. Once(added', Tasks)
    BY <2>1 DEF Once
  <2>4. 0 \in 0..Len(added')
    BY <2>1
  <2>5. AddedRuns'
    BY <2>1, ElementsEmpty DEF AddedRuns
  <2>6. QED
    BY <2>1, <2>2, <2>3, <2>4, <2>5 DEF InOrder
<1>5. CASE SettleOptions
  <2>1. \E outcome \in Terminal : Emit(outcome)
    BY <1>5 DEF SettleOptions, Terminal
  <2>2. QED
    BY <1>5, <1>t, <2>1, ReportInOrder DEF SettleOptions, jobVars
<1>6. CASE SkipNext
  BY <1>6, <1>t, ReportInOrder DEF SkipNext, jobVars
<1>7. CASE FinishJob
  <2>1. \E outcome \in Terminal : Emit(outcome)
    BY <1>7 DEF FinishJob, Terminal
  <2>2. QED
    BY <1>7, <1>t, <2>1, ReportInOrder DEF FinishJob, jobVars
<1>8. CASE StartSubTask
  BY <1>8, StartedInOrder
<1>9. ASSUME NEW t \in Tasks, RunSubTask(t)
      PROVE  InOrder'
  <2>1. t \in doing
    BY <1>9, <1>t, TakenElements DEF RunSubTask, Tidy, InPlace, PostedOnce
  <2>2. /\ UNCHANGED <<kind, state, queue, doing, done, failed, added, signals>>
        /\ \A u \in Tasks \ doing : sub'[u] = sub[u]
    BY <1>9, <2>1 DEF RunSubTask, jobVars
  <2>3. kind' # "ConcurrentTask" => \E n \in 0..Len(added') : Frontier(n)'
    BY <1>t, <2>2, SameFrontier
  <2>4. AddedRuns'
    BY <2>2 DEF InOrder, AddedRuns, Elements
  <2>5. QED
    BY <2>2, <2>3, <2>4 DEF InOrder
<1>10. ASSUME NEW t \in Tasks, SubTaskSucceeds(t)
       PROVE  InOrder'
  <2>1. "Succeeded" \in TaskState
    BY DEF TaskState
  <2>2. QED
    BY <1>10, <2>1, FinishedInOrder DEF SubTaskSucceeds
<1>11. ASSUME NEW t \in Tasks, SubTaskFails(t)
       PROVE  InOrder'
  <2>1. "Failed" \in TaskState
    BY DEF TaskState
  <2>2. QED
    BY <1>11, <2>1, SubTaskFailedInOrder DEF SubTaskFails
<1>12. ASSUME NEW t \in Tasks, SubTaskAborts(t)
       PROVE  InOrder'
  <2>1. CASE t \in deaf
    <3>1. t \in doing
      BY <1>12 DEF SubTaskAborts, Tidy, InPlace, RunningDoing
    <3>2. /\ UNCHANGED <<kind, state, queue, doing, done, failed, added, signals>>
          /\ \A u \in Tasks \ doing : sub'[u] = sub[u]
      BY <1>12, <2>1, <3>1 DEF SubTaskAborts, jobVars
    <3>3. kind' # "ConcurrentTask" => \E n \in 0..Len(added') : Frontier(n)'
      BY <1>t, <3>2, SameFrontier
    <3>4. AddedRuns'
      BY <3>2 DEF InOrder, AddedRuns, Elements
    <3>5. QED
      BY <3>2, <3>3, <3>4 DEF InOrder
  <2>2. CASE t \notin deaf
    <3>1. "AbortedByUser" \in TaskState
      BY DEF TaskState
    <3>2. QED
      BY <1>12, <2>2, <3>1, SubTaskFailedInOrder DEF SubTaskAborts
  <2>3. QED
    BY <2>1, <2>2
<1>13. CASE UNCHANGED vars
  BY <1>13, <1>t, ReportInOrder DEF vars, jobVars
<1>14. QED
  BY <1>1, <1>2, <1>3, <1>4, <1>5, <1>6, <1>7, <1>8, <1>9, <1>10, <1>11, <1>12, <1>13
     DEF Next

\* A SequentialTask starts a sub task only when all that were added before it
\* succeeded, a MultipleOptionsTask only when none of them did.
THEOREM OneAfterTheOther == Spec => []TriedInOrder
<1>1. Init => Tidy /\ InOrder
  <2> SUFFICES ASSUME Init
               PROVE  Tidy /\ InOrder
    OBVIOUS
  <2>1. added = <<>> /\ queue = <<>> /\ doing = {} /\ failed = {} /\ state = "Inactive"
    BY DEF Init
  <2>2. Frontier(0) /\ 0 \in 0..Len(added) /\ Once(added, Tasks)
    BY <2>1 DEF Frontier, Once
  <2>3. InOrder
    BY <2>1, <2>2, ElementsEmpty DEF InOrder, AddedRuns
  <2>4. QED
    BY <2>3, TidyInit
<1>2. Tidy /\ InOrder /\ [Next]_vars => Tidy' /\ InOrder'
  BY TidyStep, InOrderStep
<1>3. Tidy /\ InOrder => TriedInOrder
  <2> SUFFICES ASSUME Tidy, InOrder, kind # "ConcurrentTask",
                      NEW i \in DOMAIN added, NEW j \in DOMAIN added,
                      i < j, sub[added[j]] # "Inactive"
               PROVE  sub[added[i]] \in Expected
    BY DEF TriedInOrder, Expected
  <2>1. Len(added) \in Nat /\ DOMAIN added = 1..Len(added)
    BY AddedShape DEF Tidy
  <2>2. PICK n \in 0..Len(added) : Frontier(n)
    BY DEF InOrder
  <2>3. j \notin (n + 1)..Len(added)
    BY <2>2 DEF Frontier
  <2>4. i \in 1..(n - 1)
    BY <2>1, <2>2, <2>3
  <2>5. QED
    BY <2>2, <2>4 DEF Frontier
<1>4. QED
  BY <1>1, <1>2, <1>3, PTL DEF Spec

-----------------------------------------------------------------------------
(* A composite task implements TaskPool, for every set of sub tasks and    *)
(* every limit: the queue, the posted calls and the connected signals are  *)
(* a way to run sub tasks "width" at a time, and no more than that.        *)

\* The phase of each sub task, as the refinement mapping has it.
Phase == [t \in Tasks |-> PhaseOf(t)]
Goal == IF kind = "MultipleOptionsTask" THEN "any" ELSE "all"

\* Where the phases come from: the four places a sub task can be in exclude
\* each other.
LEMMA PhaseCases ==
  ASSUME Tidy, NEW t \in Tasks
  PROVE  /\ Phase[t] = PhaseOf(t)
         /\ PhaseOf(t) = "active" <=> t \in doing
         /\ PhaseOf(t) = "waiting" <=> t \in Elements(queue)
         /\ PhaseOf(t) = "bad" <=> t \in failed
         /\ PhaseOf(t) = "ok" <=> t \in done \ failed
         /\ PhaseOf(t) = "new" <=>
              t \notin doing /\ t \notin Elements(queue) /\ t \notin done
<1>1. failed \subseteq done
  BY DEF Tidy, TypeOK
<1>2. t \in doing => t \notin Elements(queue) /\ t \notin done
  BY DEF Tidy, InPlace, QueueFresh, Placed
<1>3. t \in Elements(queue) => t \notin done
  BY DEF Tidy, Placed
<1>4. QED
  BY <1>1, <1>2, <1>3 DEF Phase, PhaseOf

LEMMA PhaseSets ==
  ASSUME Tidy
  PROVE  /\ Pool!In("active") = doing
         /\ Pool!In("waiting") = Elements(queue)
         /\ Pool!In("bad") = failed
         /\ Pool!In("ok") = done \ failed
<1>1. doing \subseteq Tasks /\ Elements(queue) \subseteq Tasks
      /\ done \subseteq Tasks /\ failed \subseteq done
  BY ElementsType DEF Tidy, TypeOK
<1>2. \A p : Pool!In(p) = {t \in Tasks : Phase[t] = p}
  BY DEF Pool!In, Phase
<1>3. QED
  BY <1>1, <1>2, PhaseCases

LEMMA PoolStart == Init => Pool!PoolInit
<1> SUFFICES ASSUME Init
             PROVE  Pool!PoolInit
  OBVIOUS
<1>1. Elements(queue) = {}
  BY ElementsEmpty DEF Init
<1>2. [t \in Tasks |-> PhaseOf(t)] = [t \in Tasks |-> "new"]
  BY <1>1 DEF Init, PhaseOf
<1>3. QED
  BY <1>2, MaxSizeType DEF Init, Pool!PoolInit

\* A turn that changes nothing the owner can see of the pool but its state.
LEMMA SameView ==
  ASSUME UNCHANGED <<kind, doing, queue, done, failed>>
  PROVE  /\ [t \in Tasks |-> PhaseOf(t)]' = [t \in Tasks |-> PhaseOf(t)]
         /\ MaxSize' = MaxSize
         /\ (IF kind = "MultipleOptionsTask" THEN "any" ELSE "all")'
              = IF kind = "MultipleOptionsTask" THEN "any" ELSE "all"
  BY DEF PhaseOf, Elements, MaxSize

LEMMA FinishedPool ==
  ASSUME NEW t \in Tasks, NEW ok \in BOOLEAN, Tidy, SubTaskFinished(t, ok),
         sub[t] = "Running",
         state' = state \/ (~ok /\ kind = "SequentialTask" /\ Emit("Failed"))
  PROVE  Pool!Finish(t, IF ok THEN "ok" ELSE "bad")
<1> DEFINE result == IF ok THEN "ok" ELSE "bad"
<1>1. t \in doing
  BY DEF Tidy, InPlace, RunningDoing
<1>2. /\ doing' = doing \ {t} /\ queue' = queue /\ kind' = kind
      /\ done' = done \cup {t} /\ failed' = IF ok THEN failed ELSE failed \cup {t}
  BY DEF SubTaskFinished
<1>3. t \notin Elements(queue) /\ t \notin done /\ t \notin failed
  BY <1>1 DEF Tidy, TypeOK, InPlace, QueueFresh, Placed
<1>4. Elements(queue)' = Elements(queue)
  BY <1>2 DEF Elements
<1>5. PhaseOf(t)' = result
  BY <1>2, <1>3, <1>4 DEF PhaseOf
<1>6. \A u \in Tasks \ {t} : PhaseOf(u)' = PhaseOf(u)
  BY <1>2, <1>4 DEF PhaseOf
<1>7. [u \in Tasks |-> PhaseOf(u)]' = [[u \in Tasks |-> PhaseOf(u)] EXCEPT ![t] = result]
  BY <1>5, <1>6
<1>8. PhaseOf(t) = "active"
  BY <1>1, PhaseCases
<1>9. state' = state \/ (state = "Running" /\ ~ok /\ Goal = "all" /\ state' = "Failed")
  BY DEF Emit, Goal
<1>10. MaxSize' = MaxSize /\ Goal' = Goal
  BY <1>2 DEF MaxSize, Goal
<1>11. QED
  BY <1>7, <1>8, <1>9, <1>10 DEF Pool!Finish, Goal

\* The pool counts as the job does.
LEMMA SameCount == \A S : Pool!Cardinality(S) = Cardinality(S)
  BY DEF Pool!Cardinality, Cardinality

LEMMA StartedPool ==
  ASSUME Tidy, StartSubTask, NEW h \in Tasks, h = Head(queue)
  PROVE  Pool!Begin(h)
<1>1. Elements(queue) = Elements(queue') \cup {h} /\ h \notin Elements(queue')
  <2>1. queue \in Seq(Tasks) /\ queue # <<>> /\ queue' = Tail(queue) /\ Once(queue, Tasks)
    BY DEF StartSubTask, Tidy, TypeOK, InPlace, QueueFresh
  <2>2. QED
    BY <2>1, OnceTail, ElementsTail
<1>2. /\ doing' = doing \cup {h} /\ UNCHANGED <<kind, state, done, failed>>
      /\ state = "Running" /\ Cardinality(doing) < MaxSize
  BY DEF StartSubTask, MayStartMore
<1>3. Elements(queue)' = Elements(queue) \ {h}
  BY <1>1 DEF Elements
<1>4. h \in Elements(queue) /\ h \notin done /\ failed \subseteq done
  BY <1>1 DEF Tidy, TypeOK, Placed
<1>5. PhaseOf(h)' = "active"
  BY <1>2, <1>3, <1>4 DEF PhaseOf
<1>6. \A u \in Tasks \ {h} : PhaseOf(u)' = PhaseOf(u)
  BY <1>2, <1>3 DEF PhaseOf
<1>7. [u \in Tasks |-> PhaseOf(u)]' = [[u \in Tasks |-> PhaseOf(u)] EXCEPT ![h] = "active"]
  BY <1>5, <1>6
<1>8. PhaseOf(h) = "waiting"
  BY <1>4, PhaseCases
<1>9. Pool!Cardinality(Pool!In("active")) < MaxSize
  BY <1>2, PhaseSets, SameCount
<1>10. MaxSize' = MaxSize /\ Goal' = Goal
  BY <1>2 DEF MaxSize, Goal
<1>11. QED
  BY <1>2, <1>7, <1>8, <1>9, <1>10 DEF Pool!Begin, Goal

\* The report of success, and of failure, is one the pool may make.
LEMMA EndedPool ==
  ASSUME Tidy, FinishJob \/ SettleOptions, state = "Running"
  PROVE  Pool!Succeed \/ Pool!Fail
<1> DEFINE good == Pool!Succeed
           bad == Pool!Fail
<1>1. UNCHANGED <<kind, doing, queue, done, failed>>
  BY DEF FinishJob, SettleOptions, jobVars
<1>2. Goal' = Goal
  BY <1>1 DEF Goal
<1>3. failed \subseteq done /\ IsFiniteSet(done)
  BY TasksAssumption, FS_Subset DEF Tidy, TypeOK
<1>4. CASE FinishJob
  <2>1. queue = <<>> /\ doing = {} /\ kind # "MultipleOptionsTask"
        /\ state' = IF failed = {} THEN "Succeeded" ELSE "Failed"
    BY <1>4 DEF FinishJob, OptionsExhausted, Emit
  <2>2. Elements(queue) = {} /\ Goal = "all"
    BY <2>1, ElementsEmpty DEF Goal
  <2>3. /\ Pool!In("waiting") = {} /\ Pool!In("active") = {} /\ Pool!In("bad") = failed
    BY <2>1, <2>2, PhaseSets
  <2>4. CASE failed = {}
    BY <1>1, <1>2, <2>1, <2>2, <2>3, <2>4, SameView DEF Pool!Succeed, Goal
  <2>5. CASE failed # {}
    BY <1>1, <1>2, <2>1, <2>2, <2>3, <2>5, SameView DEF Pool!Fail, Goal
  <2>6. QED
    BY <2>4, <2>5
<1>5. CASE SettleOptions
  <2>1. Goal = "any"
    BY <1>5 DEF SettleOptions, OptionFound, OptionsExhausted, Goal
  <2>2. CASE OptionFound
    <3>1. done # failed /\ state' = "Succeeded"
      BY <1>5, <2>2 DEF SettleOptions, OptionFound, OptionsExhausted, Emit
    <3>2. Pool!In("ok") # {}
      BY <1>3, <3>1, PhaseSets
    <3>3. QED
      BY <1>1, <1>2, <2>1, <3>1, <3>2, SameView DEF Pool!Succeed, Goal
  <2>3. CASE ~OptionFound
    <3>1. OptionsExhausted /\ state' = "Failed"
      BY <1>5, <2>3 DEF SettleOptions, Emit
    <3>2. done = failed /\ Elements(queue) = {}
      BY <1>3, <2>3, <3>1, ElementsEmpty, FS_Subset DEF OptionFound, OptionsExhausted
    <3>3. Pool!In("waiting") = {} /\ Pool!In("ok") = {}
      BY <3>2, PhaseSets
    <3>4. QED
      BY <1>1, <1>2, <2>1, <3>1, <3>3, SameView DEF Pool!Fail, Goal
  <2>4. QED
    BY <2>2, <2>3
<1>6. QED
  BY <1>4, <1>5

LEMMA AbortedPool ==
  ASSUME Tidy, Abort
  PROVE  Pool!GiveUp
<1>1. /\ queue' = <<>> /\ UNCHANGED <<kind, doing, done, failed>>
      /\ state' = state \/ (state = "Running" /\ doing # {} /\ state' \in {"AbortedByUser", "Failed"})
  BY DEF Abort, Emit
<1>2. Elements(queue)' = {}
  BY <1>1, ElementsEmpty DEF Elements
<1>3. \A u \in Tasks : PhaseOf(u)' = IF PhaseOf(u) = "waiting" THEN "new" ELSE PhaseOf(u)
  <2> SUFFICES ASSUME NEW u \in Tasks
               PROVE  PhaseOf(u)' = IF PhaseOf(u) = "waiting" THEN "new" ELSE PhaseOf(u)
    OBVIOUS
  <2>1. CASE u \in Elements(queue)
    <3>1. u \notin doing /\ u \notin done /\ failed \subseteq done
      BY <2>1 DEF Tidy, TypeOK, InPlace, QueueFresh, Placed
    <3>2. PhaseOf(u) = "waiting" /\ PhaseOf(u)' = "new"
      BY <1>1, <1>2, <2>1, <3>1, PhaseCases DEF PhaseOf
    <3>3. QED
      BY <3>2
  <2>2. CASE u \notin Elements(queue)
    <3>1. PhaseOf(u) # "waiting" /\ PhaseOf(u)' = PhaseOf(u)
      BY <1>1, <1>2, <2>2, PhaseCases DEF PhaseOf
    <3>2. QED
      BY <3>1
  <2>3. QED
    BY <2>1, <2>2
<1>4. [u \in Tasks |-> PhaseOf(u)]' = Pool!WithdrawWaiting
  BY <1>3 DEF Pool!WithdrawWaiting
<1>5. MaxSize' = MaxSize /\ Goal' = Goal
  BY <1>1 DEF MaxSize, Goal
<1>6. QED
  BY <1>1, <1>4, <1>5, PhaseSets DEF Pool!GiveUp, Goal

LEMMA ClearedPool ==
  ASSUME Tidy, Clear
  PROVE  Pool!Forget
<1>1. /\ state # "Running" /\ queue' = <<>> /\ done' = {} /\ failed' = {}
      /\ UNCHANGED <<kind, state, doing>>
  BY DEF Clear
<1>2. Elements(queue)' = {}
  BY <1>1, ElementsEmpty DEF Elements
<1>3. \A u \in Tasks : PhaseOf(u)' = IF PhaseOf(u) = "active" THEN "active" ELSE "new"
  BY <1>1, <1>2, PhaseCases DEF PhaseOf
<1>4. MaxSize' = MaxSize /\ Goal' = Goal
  BY <1>1 DEF MaxSize, Goal
<1>5. QED
  BY <1>1, <1>3, <1>4 DEF Pool!Forget, Goal

LEMMA AddedPool ==
  ASSUME Tidy, NEW t \in Tasks, AddTask(t)
  PROVE  Pool!Submit(t)
<1>1. /\ UNCHANGED <<kind, state, doing, done, failed>> /\ t \notin doing
      /\ t \notin Elements(queue) /\ sub[t] = "Inactive"
  BY DEF AddTask
<1>2. Elements(queue)' = Elements(queue) \cup {t}
  <2>1. Elements(Append(queue, t)) = Elements(queue) \cup {t}
    BY ElementsAppend DEF Tidy, TypeOK
  <2>2. QED
    BY <2>1 DEF AddTask, Elements
<1>3. t \notin done /\ failed \subseteq done
  BY <1>1 DEF Tidy, TypeOK, Placed
<1>4. PhaseOf(t) = "new" /\ PhaseOf(t)' = "waiting"
  BY <1>1, <1>2, <1>3 DEF PhaseOf
<1>5. \A u \in Tasks \ {t} : PhaseOf(u)' = PhaseOf(u)
  BY <1>1, <1>2 DEF PhaseOf
<1>6. [u \in Tasks |-> PhaseOf(u)]' = [[u \in Tasks |-> PhaseOf(u)] EXCEPT ![t] = "waiting"]
  BY <1>4, <1>5
<1>7. MaxSize' = MaxSize /\ Goal' = Goal
  BY <1>1 DEF MaxSize, Goal
<1>8. QED
  BY <1>1, <1>4, <1>6, <1>7 DEF Pool!Submit, Goal

LEMMA PoolStep == Tidy /\ [Next]_vars => [Pool!PoolNext]_(Pool!poolVars)
<1> SUFFICES ASSUME Tidy, [Next]_vars
             PROVE  Pool!PoolNext \/ UNCHANGED Pool!poolVars
  OBVIOUS
<1>1. ASSUME NEW t \in Tasks, AddTask(t)
      PROVE  Pool!PoolNext
  BY <1>1, AddedPool DEF Pool!PoolNext
<1>2. CASE Start
  <2>1. state # "Running" /\ state' = "Running" /\ UNCHANGED <<kind, doing, queue, done, failed>>
    BY <1>2 DEF Start, jobVars
  <2>2. Pool!Launch
    BY <2>1, SameView DEF Pool!Launch
  <2>3. QED
    BY <2>2 DEF Pool!PoolNext
<1>3. CASE Abort
  BY <1>3, AbortedPool DEF Pool!PoolNext
<1>4. CASE Clear
  BY <1>4, ClearedPool DEF Pool!PoolNext
<1>5. CASE SettleOptions \/ FinishJob
  <2>1. CASE state = "Running"
    BY <1>5, <2>1, EndedPool DEF Pool!PoolNext
  <2>2. CASE state # "Running"
    <3>1. UNCHANGED <<kind, state, doing, queue, done, failed>>
      BY <1>5, <2>2 DEF SettleOptions, FinishJob, Emit, jobVars
    <3>2. QED
      BY <3>1, SameView DEF Pool!poolVars
  <2>3. QED
    BY <2>1, <2>2
<1>6. CASE SkipNext
  <2>1. UNCHANGED <<kind, state, doing, queue, done, failed>>
    BY <1>6 DEF SkipNext, jobVars
  <2>2. QED
    BY <2>1, SameView DEF Pool!poolVars
<1>7. CASE StartSubTask
  <2>1. Head(queue) \in Tasks
    BY <1>7, ElementsTail DEF StartSubTask, Tidy, TypeOK
  <2>2. QED
    BY <1>7, <2>1, StartedPool DEF Pool!PoolNext
<1>8. ASSUME NEW t \in Tasks, RunSubTask(t)
      PROVE  UNCHANGED Pool!poolVars
  <2>1. UNCHANGED <<kind, state, doing, queue, done, failed>>
    BY <1>8 DEF RunSubTask, jobVars
  <2>2. QED
    BY <2>1, SameView DEF Pool!poolVars
<1>9. ASSUME NEW t \in Tasks, SubTaskSucceeds(t)
      PROVE  Pool!PoolNext
  <2>1. Pool!Finish(t, IF TRUE THEN "ok" ELSE "bad")
    BY <1>9, FinishedPool DEF SubTaskSucceeds
  <2>2. QED
    BY <2>1 DEF Pool!PoolNext
<1>10. ASSUME NEW t \in Tasks, SubTaskFailed(t), sub[t] = "Running"
       PROVE  Pool!PoolNext
  <2>1. Pool!Finish(t, IF FALSE THEN "ok" ELSE "bad")
    BY <1>10, FinishedPool DEF SubTaskFailed
  <2>2. QED
    BY <2>1 DEF Pool!PoolNext
<1>11. ASSUME NEW t \in Tasks, SubTaskFails(t)
       PROVE  Pool!PoolNext
  BY <1>10, <1>11 DEF SubTaskFails
<1>12. ASSUME NEW t \in Tasks, SubTaskAborts(t)
       PROVE  Pool!PoolNext \/ UNCHANGED Pool!poolVars
  <2>1. CASE t \in deaf
    <3>1. UNCHANGED <<kind, state, doing, queue, done, failed>>
      BY <1>12, <2>1 DEF SubTaskAborts, jobVars
    <3>2. QED
      BY <3>1, SameView DEF Pool!poolVars
  <2>2. CASE t \notin deaf
    BY <1>10, <1>12, <2>2 DEF SubTaskAborts
  <2>3. QED
    BY <2>1, <2>2
<1>13. CASE UNCHANGED vars
  <2>1. UNCHANGED <<kind, state, doing, queue, done, failed>>
    BY <1>13 DEF vars, jobVars
  <2>2. QED
    BY <2>1, SameView DEF Pool!poolVars
<1>14. QED
  BY <1>1, <1>2, <1>3, <1>4, <1>5, <1>6, <1>7, <1>8, <1>9, <1>11, <1>12, <1>13 DEF Next

\* A composite task does what the code that owns it is promised by TaskPool,
\* whichever of the three classes it is, and also when it is used again after
\* an abort that left sub tasks in m_doing.
THEOREM JobIsAPool == Spec => ImplementsPool
<1>1. QED
  BY TidyInit, TidyStep, PoolStart, PoolStep, PTL DEF Spec, ImplementsPool, Pool!PoolSpec
=============================================================================
