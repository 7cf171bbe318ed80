------------------------------- MODULE NetJob -------------------------------
(***************************************************************************)
(* src/launcher/net/NetJob: a ConcurrentTask whose sub tasks are network   *)
(* requests.  It overrides executeNextSubTask (automatic retries), abort,  *)
(* and emitFailed (a modal "Do you want to retry?" box, whose exec() is a  *)
(* nested event loop: posted calls and replies keep arriving under it).    *)
(*                                                                         *)
(* A request is seen from outside, as NetRequest.cpp behaves towards its   *)
(* job: start() answers at once (cache hit, sink failure) or opens a reply *)
(* that ends later; abort() is answered only where a reply is open.        *)
(***************************************************************************)
EXTENDS Naturals, Sequences, FiniteSets, SequencesExt

CONSTANTS
    Requests,       \* the Net::NetRequest objects
    Job,            \* the job as the receiver of a posted event
    MaxConcurrent,  \* m_total_max_size (NumberOfConcurrentDownloads)
    AskRetry,       \* m_ask_retry
    ManualRetries   \* the setting NumberOfManualRetries

ASSUME RequestsAssumption == IsFiniteSet(Requests) /\ Job \notin Requests
ASSUME LimitsAssumption ==
    MaxConcurrent \in Nat \ {0} /\ AskRetry \in BOOLEAN /\ ManualRetries \in Nat

VARIABLES
    state,      \* Task::m_state of the job
    queue,      \* m_queue
    doing,      \* m_doing
    done,       \* m_done
    failed,     \* m_failed
    sub,        \* Task::m_state of each request
    live,       \* the requests whose m_reply has not finished
    try,        \* m_try
    manualTry,  \* m_manual_try
    dialogs,    \* retry questions on screen, each one nested in the one before
    events,     \* the event queue: an entry names its receiver
    signals,    \* history: the terminal signals of the job, in order
    joined,     \* history: m_try when a request was handed in, 4 before that
    attempts    \* history: how often each request was executed

tables == <<queue, doing, done, failed>>
vars == <<state, tables, sub, live, try, manualTry, dialogs, events, signals, joined, attempts>>

TaskState == {"Inactive", "Running", "Succeeded", "Failed", "AbortedByUser"}
Terminal == {"Succeeded", "Failed", "AbortedByUser"}
Elements(s) == {s[i] : i \in DOMAIN s}

TypeOK ==
    /\ state \in TaskState
    /\ queue \in Seq(Requests)
    /\ doing \subseteq Requests /\ done \subseteq Requests /\ failed \subseteq Requests
    /\ sub \in [Requests -> TaskState]
    /\ live \subseteq doing
    /\ try \in 0..3
    /\ manualTry \in 0..ManualRetries
    /\ dialogs \in 0..manualTry
    /\ events \in Seq(Requests \cup {Job})
    /\ signals \in Seq(Terminal)
    /\ joined \in [Requests -> 0..4]
    /\ attempts \in [Requests -> Nat]

Init ==
    /\ state = "Inactive"
    /\ queue = <<>> /\ doing = {} /\ done = {} /\ failed = {}
    /\ sub = [r \in Requests |-> "Inactive"] /\ live = {}
    /\ try = 1 /\ manualTry = 0 /\ dialogs = 0
    /\ events = <<>> /\ signals = <<>>
    /\ joined = [r \in Requests |-> 4] /\ attempts = [r \in Requests |-> 0]

added == {r \in Requests : joined[r] # 4}

Emit(outcome) ==
    IF state = "Running"
    THEN state' = outcome /\ signals' = Append(signals, outcome)
    ELSE UNCHANGED <<state, signals>>

-----------------------------------------------------------------------------
(* The owner of the job.                                                   *)

\* Not under an open question: the box is application modal, and the jobs that
\* are added to while they run (icons) never ask.
AddNetAction(r) ==
    /\ signals = <<>> /\ r \notin added /\ dialogs = 0
    /\ queue' = Append(queue, r)
    /\ joined' = [joined EXCEPT ![r] = try]
    /\ UNCHANGED <<state, doing, done, failed, sub, live, try, manualTry, dialogs, events, signals, attempts>>

Start ==
    /\ state = "Inactive"
    /\ state' = "Running"
    /\ events' = events \o [i \in 1..MaxConcurrent |-> Job]
    /\ UNCHANGED <<tables, sub, live, try, manualTry, dialogs, signals, joined, attempts>>

\* What waits is failed.  Every request in m_doing is told; only one with an
\* open reply answers, and is taken out by subTaskFailed before the job ends.
\* (Nobody presses Abort under the modal box.)
Abort ==
    /\ state = "Running" /\ dialogs = 0
    /\ queue' = <<>>
    /\ failed' = failed \cup Elements(queue) \cup live
    /\ done' = done \cup live
    /\ doing' = doing \ live
    /\ sub' = [r \in Requests |-> IF r \in doing THEN "AbortedByUser" ELSE sub[r]]
    /\ live' = {}
    /\ events' = events \o [i \in 1..Cardinality(live) |-> Job]
    /\ Emit("AbortedByUser")
    /\ UNCHANGED <<try, manualTry, dialogs, joined, attempts>>

-----------------------------------------------------------------------------
(* executeNextSubTask, entered with "tries" in m_try, "open" boxes on      *)
(* screen, and "rest" in the event queue.                                  *)

AllFailed(tries) ==
    /\ state = "Running" /\ queue = <<>> /\ doing = {}
    /\ failed # {} /\ tries < 3

\* mutant: the requests stay in m_done
RetryStillDone(rest, tries, open) ==
    /\ AllFailed(tries)
    /\ \E order \in SetToSeqs(failed) :
        /\ queue' = Tail(order)
        /\ doing' = {Head(order)}
        /\ events' = Append(rest, Head(order))
    /\ failed' = {} /\ UNCHANGED done
    /\ try' = tries + 1
    /\ dialogs' = open
    /\ UNCHANGED <<state, sub, live, manualTry, signals, joined, attempts>>

\* All failed requests are queued again, in the order of a hash table, and the
\* base class starts the first.
Retry(rest, tries, open) ==
    /\ AllFailed(tries)
    /\ \E order \in SetToSeqs(failed) :
        /\ queue' = Tail(order)
        /\ doing' = {Head(order)}
        /\ events' = Append(rest, Head(order))
    /\ failed' = {} /\ done' = done \ failed
    /\ try' = tries + 1
    /\ dialogs' = open
    /\ UNCHANGED <<state, sub, live, manualTry, signals, joined, attempts>>

MayStartMore == state = "Running" /\ Cardinality(doing) < MaxConcurrent

Skip(rest, tries, open) ==
    /\ ~MayStartMore \/ (queue = <<>> /\ doing # {})
    /\ events' = rest /\ try' = tries /\ dialogs' = open
    /\ UNCHANGED <<state, tables, sub, live, manualTry, signals, joined, attempts>>

StartSubTask(rest, tries, open) ==
    /\ MayStartMore /\ queue # <<>>
    /\ doing' = doing \cup {Head(queue)}
    /\ queue' = Tail(queue)
    /\ events' = Append(rest, Head(queue))
    /\ try' = tries /\ dialogs' = open
    /\ UNCHANGED <<state, done, failed, sub, live, manualTry, signals, joined, attempts>>

AllSucceeded(rest, tries, open) ==
    /\ MayStartMore /\ queue = <<>> /\ doing = {} /\ failed = {}
    /\ Emit("Succeeded")
    /\ events' = rest /\ try' = tries /\ dialogs' = open
    /\ UNCHANGED <<tables, sub, live, manualTry, joined, attempts>>

\* NetJob::emitFailed: ask while a manual retry is left and some request found
\* its host (isOnline), else fail.
RunOut(rest, tries, open) ==
    /\ MayStartMore /\ queue = <<>> /\ doing = {} /\ failed # {}
    /\ \/ /\ AskRetry /\ manualTry < ManualRetries
          /\ manualTry' = manualTry + 1
          /\ dialogs' = open + 1
          /\ UNCHANGED <<state, signals>>
       \/ /\ Emit("Failed")
          /\ dialogs' = open
          /\ UNCHANGED manualTry
    /\ events' = rest /\ try' = tries
    /\ UNCHANGED <<tables, sub, live, joined, attempts>>

ExecuteNextSubTask(rest, tries, open) ==
    \/ Retry(rest, tries, open)
    \/ ~AllFailed(tries) /\ \/ Skip(rest, tries, open)
                            \/ StartSubTask(rest, tries, open)
                            \/ AllSucceeded(rest, tries, open)
                            \/ RunOut(rest, tries, open)

NextPosted == events # <<>> /\ Head(events) = Job

RunNext == NextPosted /\ ExecuteNextSubTask(Tail(events), try, dialogs)

\* the innermost box returns to the emitFailed that opened it
AnswerYes == dialogs > 0 /\ ExecuteNextSubTask(events, 0, dialogs - 1)

AnswerNo ==
    /\ dialogs > 0
    /\ dialogs' = dialogs - 1
    /\ Emit("Failed")
    /\ UNCHANGED <<tables, sub, live, try, manualTry, events, joined, attempts>>

-----------------------------------------------------------------------------
(* The requests.                                                           *)

\* mutants: a failure is not remembered, and the next call is not posted
SubTaskFinishedForgiven(r, result, rest) ==
    /\ sub' = [sub EXCEPT ![r] = result]
    /\ live' = live \ {r}
    /\ done' = done \cup {r}
    /\ doing' = doing \ {r}
    /\ events' = Append(rest, Job)
    /\ UNCHANGED <<state, queue, failed, try, manualTry, dialogs, signals, joined>>

SubTaskFinishedQuietly(r, result, rest) ==
    /\ sub' = [sub EXCEPT ![r] = result]
    /\ live' = live \ {r}
    /\ done' = done \cup {r}
    /\ failed' = IF result = "Succeeded" THEN failed ELSE failed \cup {r}
    /\ doing' = doing \ {r}
    /\ events' = rest
    /\ UNCHANGED <<state, queue, try, manualTry, dialogs, signals, joined>>

\* ConcurrentTask::subTaskFinished, with "rest" in the event queue
SubTaskFinished(r, result, rest) ==
    /\ sub' = [sub EXCEPT ![r] = result]
    /\ live' = live \ {r}
    /\ done' = done \cup {r}
    /\ failed' = IF result = "Succeeded" THEN failed ELSE failed \cup {r}
    /\ doing' = doing \ {r}
    /\ events' = Append(rest, Job)
    /\ UNCHANGED <<state, queue, try, manualTry, dialogs, signals, joined>>

Posted(r) == events # <<>> /\ Head(events) = r

\* Task::start of a request, which opens a reply ...
OpenReply(r) ==
    /\ Posted(r)
    /\ sub' = [sub EXCEPT ![r] = "Running"]
    /\ live' = live \cup {r}
    /\ attempts' = [attempts EXCEPT ![r] = @ + 1]
    /\ events' = Tail(events)
    /\ UNCHANGED <<state, tables, try, manualTry, dialogs, signals, joined>>

\* ... or settles at once: the cache entry is fresh, or the sink cannot be set up
SettleAtOnce(r, result) ==
    /\ Posted(r)
    /\ attempts' = [attempts EXCEPT ![r] = @ + 1]
    /\ SubTaskFinished(r, result, Tail(events))

EndReply(r, result) ==
    /\ r \in live
    /\ SubTaskFinished(r, result, events)
    /\ UNCHANGED attempts

Outcomes == {"Succeeded", "Failed"}

RunRequest(r) == OpenReply(r) \/ \E result \in Outcomes : SettleAtOnce(r, result)

-----------------------------------------------------------------------------
Next ==
    \/ \E r \in Requests : AddNetAction(r)
    \/ Start
    \/ Abort
    \/ RunNext
    \/ AnswerYes
    \/ AnswerNo
    \/ \E r \in Requests : OpenReply(r)
    \/ \E r \in Requests, result \in Outcomes : SettleAtOnce(r, result)
    \/ \E r \in Requests, result \in Outcomes : EndReply(r, result)

Spec == Init /\ [][Next]_vars

\* The event loop runs (a nested one too), replies end, the user answers.
Fairness ==
    /\ WF_vars(RunNext \/ \E r \in Requests : RunRequest(r))
    /\ \A r \in Requests : WF_vars(\E result \in Outcomes : EndReply(r, result))
    /\ WF_vars(AnswerYes \/ AnswerNo)

FairSpec == Spec /\ Fairness

-----------------------------------------------------------------------------
(* Properties.                                                             *)

\* Every request that was handed in is in exactly one of the three tables as
\* long as the job runs; the retries move requests but lose or copy none.
NothingLost ==
    state = "Running" =>
        /\ Elements(queue) \cup doing \cup done = added
        /\ Elements(queue) \cap doing = {}
        /\ (Elements(queue) \cup doing) \cap done = {}
        /\ Cardinality(Elements(queue)) = Len(queue)

\* "up to 3 times" (NetJob.cpp), and as many again for every manual retry.
AttemptsBounded == \A r \in Requests : attempts[r] <= 3 * (1 + ManualRetries)

\* A job that reports failure attempted each request that is still failed
\* three times, or in every round since it was handed in.
TriedEnough ==
    signals = <<"Failed">> => \A r \in failed : attempts[r] >= 4 - joined[r]

\* What the retries have to keep: the tables stay whole, and each request is
\* attempted often enough before the job gives up, and not without a limit.
RetriesOK == TypeOK /\ NothingLost /\ AttemptsBounded /\ TriedEnough

\* A job that reports success had every one of its requests succeed.
HonestSuccess ==
    signals = <<"Succeeded">> => \A r \in added : sub[r] = "Succeeded"

\* A job that was started ends.
Terminates == state = "Running" ~> state # "Running"
=============================================================================
