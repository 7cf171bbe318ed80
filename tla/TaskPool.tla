------------------------------ MODULE TaskPool ------------------------------
(***************************************************************************)
(* What a composite task promises the code that owns it, whatever class it *)
(* is: its sub tasks run at most "width" at a time and only while it runs, *)
(* a sub task that was handed in is not lost, and the job's outcome agrees *)
(* with theirs.  No queue, no event loop, no signals.                      *)
(***************************************************************************)
EXTENDS Naturals, FiniteSets

CONSTANT Tasks

VARIABLES
    state,   \* Task::State of the job
    phase,   \* where each sub task stands
    width,   \* how many may be active together
    goal     \* "all": every sub task must do; "any": one is enough

poolVars == <<state, phase, width, goal>>

Phases == {"new", "waiting", "active", "ok", "bad"}

In(p) == {t \in Tasks : phase[t] = p}

PoolInit ==
    /\ state = "Inactive"
    /\ phase = [t \in Tasks |-> "new"]
    /\ width \in Nat \ {0}
    /\ goal \in {"all", "any"}

Submit(t) ==
    /\ phase[t] = "new"
    /\ phase' = [phase EXCEPT ![t] = "waiting"]
    /\ UNCHANGED <<state, width, goal>>

Launch ==
    /\ state # "Running"
    /\ state' = "Running"
    /\ UNCHANGED <<phase, width, goal>>

Begin(t) ==
    /\ state = "Running"
    /\ phase[t] = "waiting"
    /\ Cardinality(In("active")) < width
    /\ phase' = [phase EXCEPT ![t] = "active"]
    /\ UNCHANGED <<state, width, goal>>

\* A sub task may fail the whole job at once, where all are needed.
Finish(t, result) ==
    /\ phase[t] = "active"
    /\ phase' = [phase EXCEPT ![t] = result]
    /\ \/ UNCHANGED state
       \/ state = "Running" /\ result = "bad" /\ goal = "all" /\ state' = "Failed"
    /\ UNCHANGED <<width, goal>>

\* Success: all that were handed in did well, or one did where one is enough.
Succeed ==
    /\ state = "Running"
    /\ IF goal = "all"
       THEN In("waiting") \cup In("active") \cup In("bad") = {}
       ELSE In("ok") # {}
    /\ state' = "Succeeded"
    /\ UNCHANGED <<phase, width, goal>>

\* Failure, once all were tried: one of them failed, or none did well.
Fail ==
    /\ state = "Running"
    /\ In("waiting") = {}
    /\ IF goal = "all" THEN In("active") = {} /\ In("bad") # {} ELSE In("ok") = {}
    /\ state' = "Failed"
    /\ UNCHANGED <<phase, width, goal>>

WithdrawWaiting == [t \in Tasks |-> IF phase[t] = "waiting" THEN "new" ELSE phase[t]]

\* The owner gives up: what waits is withdrawn, what is active may linger.
GiveUp ==
    /\ phase' = WithdrawWaiting
    /\ \/ UNCHANGED state
       \/ /\ state = "Running"
          /\ In("active") # {}
          /\ state' \in {"AbortedByUser", "Failed"}
    /\ UNCHANGED <<width, goal>>

\* The owner makes an ended job ready for another use.
Forget ==
    /\ state # "Running"
    /\ phase' = [t \in Tasks |-> IF phase[t] = "active" THEN "active" ELSE "new"]
    /\ UNCHANGED <<state, width, goal>>

PoolNext ==
    \/ \E t \in Tasks : Submit(t) \/ Begin(t) \/ Finish(t, "ok") \/ Finish(t, "bad")
    \/ Launch \/ Succeed \/ Fail \/ GiveUp \/ Forget

PoolSpec == PoolInit /\ [][PoolNext]_poolVars
=============================================================================
