----------------------------- MODULE NetJob_proofs -----------------------------
(***************************************************************************)
(* Proofs about download jobs, for any set of requests, any concurrency,   *)
(* and any number of manual retries: the retries keep the tables whole and *)
(* the attempts within their bounds, and a success is one of every request.*)
(***************************************************************************)
EXTENDS NetJob, SequenceTheorems, FiniteSetTheorems, TLAPS

(* No element of T occurs twice in s.                                      *)
Once(s, T) == \A i, j \in DOMAIN s : s[i] = s[j] /\ s[i] \in T => i = j

(* The requests that are still to be attempted in this round: they wait in *)
(* the queue, or their start is posted.                                    *)
Pending == Elements(queue) \cup (doing \ live)

(* Succeeded for good: only failed requests are tried again.               *)
Good == done \ failed

(* The tables and the event queue: a request is in one place, and the ones *)
(* that are under way without a reply are the ones with a posted start.    *)
Placed ==
    /\ Once(queue, Requests) /\ Once(events, Requests)
    /\ Elements(events) \cap Requests = doing \ live
    /\ Elements(queue) \cup doing \cup done \cup failed \subseteq added
    /\ Elements(queue) \cap (doing \cup done) = {} /\ doing \cap done = {}
    /\ \A r \in Requests \ added : attempts[r] = 0

Phases ==
    \/ signals = <<>> /\ state \in {"Inactive", "Running"}
    \/ state \in Terminal /\ signals = <<state>>

(* Until the job has reported, nothing is lost, what did not fail has      *)
(* succeeded, and every other request was attempted in each round.         *)
Whole ==
    signals = <<>> =>
        /\ added \subseteq Elements(queue) \cup doing \cup done
        /\ failed \subseteq done
        /\ \A r \in Good : sub[r] = "Succeeded"
        /\ \A r \in added \ Good : attempts[r] + joined[r] >= try
        /\ \A r \in added \ (Good \cup Pending) : attempts[r] + joined[r] >= try + 1

(* With the question on screen, or answered "no", all three tries are over.*)
Afterwards ==
    /\ dialogs > 0 \/ signals = <<"Failed">> =>
         \A r \in added \ Good : attempts[r] + joined[r] >= 4
    /\ signals = <<"Succeeded">> => doing = {} /\ \A r \in added : sub[r] = "Succeeded"

(* The rounds so far: three for each question that was answered.           *)
Budget == try + 3 * (manualTry - dialogs)

Rounds ==
    /\ try = 0 => manualTry > 0
    /\ \A r \in Requests : attempts[r] <= Budget
    /\ \A r \in Pending : attempts[r] + 1 <= Budget

Placement == Placed /\ Phases

IInv == TypeOK /\ Placement /\ Whole /\ Afterwards /\ Rounds

-----------------------------------------------------------------------------
(* The queue and the event queue as sequences.                             *)

LEMMA ElementsEmpty == Elements(<<>>) = {}
    BY DEF Elements

LEMMA ElementsType ==
  ASSUME NEW S, NEW s \in Seq(S)
  PROVE  Elements(s) \subseteq S
    BY DEF Elements

LEMMA ElementsAppend ==
  ASSUME NEW S, NEW s \in Seq(S), NEW e \in S
  PROVE  Elements(Append(s, e)) = Elements(s) \cup {e}
<1> DEFINE a == Append(s, e)
<1>1. a \in Seq(S) /\ Len(a) = Len(s) + 1 /\ Len(s) \in Nat
      /\ DOMAIN a = 1..Len(a) /\ DOMAIN s = 1..Len(s)
    BY AppendProperties, LenProperties
<1>2. a[Len(s) + 1] = e /\ \A i \in 1..Len(s) : a[i] = s[i]
    BY AppendProperties
<1> HIDE DEF a
<1>3. Elements(a) \subseteq Elements(s) \cup {e}
    BY <1>1, <1>2 DEF Elements
<1>4. Elements(s) \cup {e} \subseteq Elements(a)
    BY <1>1, <1>2 DEF Elements
<1>5. QED
    BY <1>3, <1>4 DEF a

LEMMA ElementsTail ==
  ASSUME NEW S, NEW s \in Seq(S), s # <<>>
  PROVE  /\ Elements(s) = Elements(Tail(s)) \cup {Head(s)}
         /\ Tail(s) \in Seq(S) /\ Head(s) \in S
<1> DEFINE r == Tail(s)
<1>1. /\ Head(s) = s[1] /\ Head(s) \in S
      /\ r \in Seq(S) /\ Len(r) = Len(s) - 1
      /\ \A i \in 1..Len(r) : r[i] = s[i + 1]
    BY HeadTailProperties
<1>2. /\ Len(s) \in Nat \ {0} /\ DOMAIN s = 1..Len(s)
      /\ DOMAIN r = 1..Len(r)
    BY <1>1, EmptySeq, LenProperties
<1> HIDE DEF r
<1>3. Elements(r) \cup {Head(s)} \subseteq Elements(s)
  <2>1. Head(s) \in Elements(s)
    BY <1>1, <1>2 DEF Elements
  <2>2. ASSUME NEW i \in 1..Len(r) PROVE r[i] \in Elements(s)
    <3>1. i + 1 \in 1..Len(s)
      BY <1>1, <1>2
    <3>2. QED
      BY <1>1, <1>2, <3>1 DEF Elements
  <2>3. QED
    BY <1>2, <2>1, <2>2 DEF Elements
<1>4. ASSUME NEW i \in 1..Len(s)
      PROVE  s[i] \in Elements(r) \cup {Head(s)}
  <2>1. CASE i = 1
    BY <2>1, <1>1
  <2>2. CASE i # 1
    <3>1. i - 1 \in 1..Len(r) /\ r[i - 1] = s[i]
      BY <2>2, <1>1, <1>2
    <3>2. QED
      BY <3>1, <1>2 DEF Elements
  <2>3. QED
    BY <2>1, <2>2
<1>5. QED
    BY <1>1, <1>2, <1>3, <1>4 DEF Elements, r

LEMMA OnceAppend ==
  ASSUME NEW S, NEW T, NEW s \in Seq(S), NEW e \in S,
         Once(s, T), e \notin T \/ e \notin Elements(s)
  PROVE  Once(Append(s, e), T)
<1> DEFINE a == Append(s, e)
<1>1. /\ Len(a) = Len(s) + 1 /\ Len(s) \in Nat
      /\ DOMAIN a = 1..Len(a) /\ DOMAIN s = 1..Len(s)
      /\ a[Len(s) + 1] = e /\ \A i \in 1..Len(s) : a[i] = s[i]
    BY AppendProperties, LenProperties
<1> HIDE DEF a
<1>2. Once(a, T)
    BY <1>1 DEF Once, Elements
<1>3. QED
    BY <1>2 DEF a

LEMMA OnceTail ==
  ASSUME NEW S, NEW T, NEW s \in Seq(S), s # <<>>, Once(s, T)
  PROVE  /\ Once(Tail(s), T)
         /\ Head(s) \in T => Head(s) \notin Elements(Tail(s))
<1> DEFINE r == Tail(s)
<1>1. /\ Head(s) = s[1]
      /\ Len(r) = Len(s) - 1 /\ Len(s) \in Nat \ {0}
      /\ DOMAIN s = 1..Len(s) /\ DOMAIN r = 1..Len(r)
      /\ \A i \in 1..Len(r) : r[i] = s[i + 1]
    BY HeadTailProperties, EmptySeq, LenProperties
<1> HIDE DEF r
<1>2. Once(r, T)
  <2>1. SUFFICES ASSUME NEW i \in DOMAIN r, NEW j \in DOMAIN r, r[i] = r[j], r[i] \in T
                 PROVE  i = j
    BY DEF Once
  <2>2. i + 1 \in DOMAIN s /\ j + 1 \in DOMAIN s /\ s[i + 1] = s[j + 1] /\ s[i + 1] \in T
    BY <2>1, <1>1
  <2>3. i + 1 = j + 1
    BY <2>2 DEF Once
  <2>4. QED
    BY <2>3, <1>1
<1>3. Head(s) \in T => Head(s) \notin Elements(r)
  <2>1. SUFFICES ASSUME NEW i \in DOMAIN r, r[i] = s[1], s[1] \in T
                 PROVE  FALSE
    BY <1>1 DEF Elements
  <2>2. i + 1 \in DOMAIN s /\ 1 \in DOMAIN s /\ s[i + 1] = s[1] /\ i + 1 # 1
    BY <2>1, <1>1
  <2>3. QED
    BY <2>1, <2>2 DEF Once
<1>4. QED
    BY <1>2, <1>3 DEF r

(* Calls of the job that are posted at the end of the event queue.         *)
Calls(n) == [i \in 1..n |-> Job]

LEMMA CallsPosted ==
    ASSUME NEW n \in Nat, NEW s \in Seq(Requests \cup {Job}), Once(s, Requests)
    PROVE  /\ s \o Calls(n) \in Seq(Requests \cup {Job})
           /\ Once(s \o Calls(n), Requests)
           /\ Elements(s \o Calls(n)) \cap Requests = Elements(s) \cap Requests
<1> DEFINE t == Calls(n)
           c == s \o t
           S == Requests \cup {Job}
           T == Requests
<1>1. t \in Seq(S) /\ Len(t) = n /\ \A i \in 1..n : t[i] = Job
  <2>1. t \in [1..n -> S] /\ \A i \in 1..n : t[i] = Job
      BY DEF Calls
  <2> QED
      BY <2>1, SeqDef
<1>2. /\ c \in Seq(S) /\ Len(c) = Len(s) + n /\ Len(s) \in Nat
      /\ DOMAIN c = 1..Len(c) /\ DOMAIN s = 1..Len(s)
      /\ \A i \in 1..(Len(s) + n) : c[i] = IF i <= Len(s) THEN s[i] ELSE t[i - Len(s)]
    BY <1>1, ConcatProperties, LenProperties
<1> HIDE DEF t, c
<1>3. \A i \in DOMAIN c : c[i] \in T => i \in DOMAIN s /\ c[i] = s[i]
    BY <1>1, <1>2, RequestsAssumption
<1>4. \A i \in DOMAIN s : i \in DOMAIN c /\ c[i] = s[i]
    BY <1>2
<1>5. Once(c, T)
    BY <1>3 DEF Once
<1>6. Elements(c) \cap T = Elements(s) \cap T
    BY <1>3, <1>4 DEF Elements
<1> QED
    BY <1>2, <1>5, <1>6 DEF t, c

(* A queue without repetitions is as long as it has elements.              *)
LEMMA OnceLen ==
    ASSUME NEW S, NEW s \in Seq(S), Once(s, S)
    PROVE  Cardinality(Elements(s)) = Len(s)
<1> DEFINE n == Len(s)
<1>1. n \in Nat /\ DOMAIN s = 1..n /\ s \in [1..n -> S]
    BY LenProperties
<1>2. s \in Surjection(1..n, Elements(s)) /\ s \in Injection(1..n, Elements(s))
  <2>1. s \in [1..n -> Elements(s)]
      BY <1>1 DEF Elements
  <2>2. \A t \in Elements(s) : \E i \in 1..n : s[i] = t
      BY <1>1 DEF Elements
  <2>3. \A i, j \in 1..n : s[i] = s[j] => i = j
      BY <1>1 DEF Once
  <2> QED
      BY <1>1, <2>1, <2>2, <2>3 DEF Surjection, Injection, IsInjective
<1>3. IsFiniteSet(1..n) /\ Cardinality(1..n) = n
    BY <1>1, FS_Interval
<1> HIDE DEF n
<1>4. Cardinality(Elements(s)) = Cardinality(1..n)
    BY <1>2, <1>3, FS_Surjection
<1> QED
    BY <1>3, <1>4 DEF n

(* Some order of the failed requests, head and rest.                       *)
LEMMA Ordered ==
    ASSUME NEW F, F \subseteq Requests, F # {}, NEW order \in SetToSeqs(F)
    PROVE  /\ Head(order) \in F /\ Tail(order) \in Seq(F)
           /\ Elements(Tail(order)) = F \ {Head(order)}
           /\ Once(Tail(order), Requests)
<1> DEFINE n == Cardinality(F)
<1>1. IsFiniteSet(F) /\ n \in Nat /\ n # 0
    BY RequestsAssumption, FS_Subset, FS_CardinalityType, FS_EmptySet
<1>2. order \in [1..n -> F] /\ \A i, j \in 1..n : i # j => order[i] # order[j]
    BY DEF SetToSeqs
<1> HIDE DEF n
<1>3. order \in Seq(F) /\ DOMAIN order = 1..n /\ order # <<>>
    BY <1>1, <1>2, SeqDef, EmptySeq
<1>4. order \in Injection(1..n, F)
    BY <1>2, <1>3 DEF Injection, IsInjective
<1>5. IsFiniteSet(1..n) /\ Cardinality(1..n) = n
    BY <1>1, FS_Interval
<1>6. order \in Surjection(1..n, F)
  <2>1. Cardinality(1..n) = Cardinality(F)
      BY <1>5 DEF n
  <2> QED
      BY <1>1, <1>4, <2>1, FS_Injection
<1>7. Elements(order) = F
    BY <1>3, <1>6 DEF Surjection, Elements
<1>8. Once(order, Requests)
    BY <1>2, <1>3 DEF Once
<1>9. /\ Elements(order) = Elements(Tail(order)) \cup {Head(order)}
      /\ Tail(order) \in Seq(F) /\ Head(order) \in F
    BY <1>3, ElementsTail
<1>10. Once(Tail(order), Requests) /\ Head(order) \notin Elements(Tail(order))
    BY <1>3, <1>8, <1>9, OnceTail
<1> QED
    BY <1>7, <1>9, <1>10

(* Taking a posted call, and posting one.                                  *)
LEMMA Taken ==
    ASSUME TypeOK, Placed, events # <<>>
    PROVE  /\ Tail(events) \in Seq(Requests \cup {Job}) /\ Once(Tail(events), Requests)
           /\ Head(events) \in Requests \cup {Job}
           /\ Elements(Tail(events)) \cap Requests = (doing \ live) \ {Head(events)}
<1>1. /\ Elements(events) = Elements(Tail(events)) \cup {Head(events)}
      /\ Tail(events) \in Seq(Requests \cup {Job}) /\ Head(events) \in Requests \cup {Job}
    BY ElementsTail DEF TypeOK
<1>2. /\ Once(Tail(events), Requests)
      /\ Head(events) \in Requests => Head(events) \notin Elements(Tail(events))
    BY OnceTail DEF TypeOK, Placed
<1> QED
    BY <1>1, <1>2 DEF Placed

LEMMA Posting ==
    ASSUME NEW rest \in Seq(Requests \cup {Job}), Once(rest, Requests),
           NEW e \in Requests \cup {Job}, e \notin Elements(rest) \/ e = Job
    PROVE  /\ Append(rest, e) \in Seq(Requests \cup {Job}) /\ Once(Append(rest, e), Requests)
           /\ Elements(Append(rest, e)) \cap Requests
                = (Elements(rest) \cap Requests) \cup ({e} \ {Job})
<1>1. Append(rest, e) \in Seq(Requests \cup {Job})
    BY AppendProperties
<1>2. Elements(Append(rest, e)) = Elements(rest) \cup {e}
    BY ElementsAppend
<1>3. Once(Append(rest, e), Requests)
    BY OnceAppend, RequestsAssumption
<1> QED
    BY <1>1, <1>2, <1>3, RequestsAssumption

(* One report, and only from a running job.                                *)
LEMMA EmitOnce ==
    ASSUME Phases, state = "Running", NEW outcome \in Terminal, Emit(outcome)
    PROVE  state' = outcome /\ signals' = <<outcome>> /\ signals = <<>>
    BY DEF Phases, Emit, Terminal

LEMMA Reported ==
    ASSUME NEW t \in Terminal
    PROVE  <<t>> # <<>> /\ <<t>>[1] = t /\ <<t>> \in Seq(Terminal)
    OBVIOUS

LEMMA BudgetType ==
    ASSUME TypeOK PROVE Budget \in Nat /\ manualTry \in Nat /\ dialogs \in Nat /\ try \in Nat
<1>1. manualTry \in Nat /\ dialogs \in Nat /\ dialogs <= manualTry /\ try \in Nat
    BY LimitsAssumption DEF TypeOK
<1> QED
    BY <1>1 DEF Budget

LEMMA Counts ==
    ASSUME TypeOK
    PROVE  /\ added \subseteq Requests
           /\ \A r \in Requests : attempts[r] \in Nat /\ joined[r] \in 0..4 /\ joined[r] \in Nat
<1>1. added \subseteq Requests
    BY DEF TypeOK, added
<1>2. \A r \in Requests : attempts[r] \in Nat
    BY DEF TypeOK
<1>3. \A r \in Requests : joined[r] \in 0..4
    BY DEF TypeOK
<1> QED
    BY <1>1, <1>2, <1>3

-----------------------------------------------------------------------------
(* The owner of the job.                                                   *)

LEMMA AddNetActionKeeps ==
    ASSUME IInv, NEW r \in Requests, AddNetAction(r) PROVE IInv'
<1>1. /\ r \notin added /\ dialogs = 0 /\ signals = <<>>
      /\ queue' = Append(queue, r) /\ joined' = [joined EXCEPT ![r] = try]
      /\ UNCHANGED <<state, doing, done, failed, sub, live, try, manualTry, dialogs, events, signals, attempts>>
    BY DEF AddNetAction
<1>2. queue' \in Seq(Requests) /\ Elements(queue') = Elements(queue) \cup {r} /\ Once(queue', Requests)
    BY <1>1, ElementsAppend, OnceAppend, AppendProperties DEF IInv, TypeOK, Placement, Placed
<1>3. joined' \in [Requests -> 0..4] /\ joined'[r] = try /\ try \in 0..3
      /\ \A q \in Requests : q # r => joined'[q] = joined[q]
    BY <1>1 DEF IInv, TypeOK
<1>4. added' = added \cup {r}
    BY <1>3 DEF added
<1>5. TypeOK'
    BY <1>1, <1>2, <1>3 DEF IInv, TypeOK
<1>6. Placement'
    BY <1>1, <1>2, <1>4 DEF IInv, Placement, Placed, Phases
<1>7. Pending' = Pending \cup {r} /\ Good' = Good /\ Budget' = Budget /\ attempts[r] = 0
    BY <1>1, <1>2 DEF IInv, Placement, Placed, Pending, Good, Budget
<1>8. Whole'
    BY <1>1, <1>2, <1>3, <1>4, <1>7 DEF IInv, TypeOK, Whole, added
<1>9. (Afterwards /\ Rounds)'
  <2>1. Afterwards'
      BY <1>1, Reported DEF Afterwards, Terminal
  <2>2. Budget >= 1
      BY <1>1, BudgetType, LimitsAssumption DEF IInv, Rounds, Budget, TypeOK
  <2>3. Rounds'
      BY <1>1, <1>7, <2>2 DEF IInv, Rounds
  <2> QED
      BY <2>1, <2>3
<1> QED
    BY <1>5, <1>6, <1>8, <1>9 DEF IInv

LEMMA StartKeeps ==
    ASSUME IInv, Start PROVE IInv'
<1>1. /\ state = "Inactive" /\ state' = "Running"
      /\ UNCHANGED <<queue, doing, done, failed, sub, live, try, manualTry, dialogs, signals, joined, attempts>>
    BY DEF Start, tables
<1>2. events' = events \o [i \in 1..MaxConcurrent |-> Job]
    BY DEF Start
<1>3. /\ events' \in Seq(Requests \cup {Job}) /\ Once(events', Requests)
      /\ Elements(events') \cap Requests = Elements(events) \cap Requests
  <2>1. /\ events \in Seq(Requests \cup {Job}) /\ Once(events, Requests)
        /\ Job \in Requests \cup {Job} /\ Job \notin Requests /\ MaxConcurrent \in Nat
      BY RequestsAssumption, LimitsAssumption DEF IInv, TypeOK, Placement, Placed
  <2>2. events' = events \o Calls(MaxConcurrent)
      BY <1>2 DEF Calls
  <2> QED
      BY <2>1, <2>2, CallsPosted
<1>4. TypeOK'
    BY <1>1, <1>3 DEF IInv, TypeOK, TaskState
<1>5. signals = <<>>
    BY <1>1 DEF IInv, Placement, Phases, Terminal
<1>6. Placement'
    BY <1>1, <1>3, <1>5 DEF IInv, Placement, Placed, Phases, added
<1>7. (Whole /\ Afterwards /\ Rounds)'
    BY <1>1 DEF IInv, Whole, Afterwards, Rounds, Pending, Good, Budget, added
<1> QED
    BY <1>4, <1>6, <1>7 DEF IInv

LEMMA AbortKeeps ==
    ASSUME IInv, Abort PROVE IInv'
<1>1. /\ state = "Running" /\ dialogs = 0
      /\ queue' = <<>> /\ failed' = failed \cup Elements(queue) \cup live
      /\ done' = done \cup live /\ doing' = doing \ live /\ live' = {}
      /\ sub' = [r \in Requests |-> IF r \in doing THEN "AbortedByUser" ELSE sub[r]]
      /\ UNCHANGED <<try, manualTry, dialogs, joined, attempts>>
    BY DEF Abort
<1>2. state' = "AbortedByUser" /\ signals' = <<"AbortedByUser">> /\ signals = <<>>
    BY <1>1, EmitOnce DEF Abort, IInv, Placement, Terminal
<1>3. /\ events' \in Seq(Requests \cup {Job}) /\ Once(events', Requests)
      /\ Elements(events') \cap Requests = Elements(events) \cap Requests
  <2>1. events' = events \o Calls(Cardinality(live))
      BY DEF Abort, Calls
  <2>2. Cardinality(live) \in Nat
      BY RequestsAssumption, FS_Subset, FS_CardinalityType DEF IInv, TypeOK
  <2>3. /\ events \in Seq(Requests \cup {Job}) /\ Once(events, Requests)
        /\ Job \in Requests \cup {Job} /\ Job \notin Requests
      BY RequestsAssumption DEF IInv, TypeOK, Placement, Placed
  <2> QED
      BY <2>1, <2>2, <2>3, CallsPosted
<1>4. Elements(queue') = {} /\ Once(queue', Requests) /\ queue' \in Seq(Requests)
    BY <1>1, ElementsEmpty DEF Once
<1>5. Elements(queue) \subseteq Requests
    BY ElementsType DEF IInv, TypeOK
<1>6. TypeOK'
  <2>1. sub' \in [Requests -> TaskState]
      BY <1>1 DEF IInv, TypeOK, TaskState
  <2>2. state' \in TaskState /\ signals' \in Seq(Terminal)
      BY <1>2, Reported DEF TaskState, Terminal
  <2> QED
      BY <1>1, <1>3, <1>4, <1>5, <2>1, <2>2 DEF IInv, TypeOK
<1>7. Placement'
    BY <1>1, <1>2, <1>3, <1>4 DEF IInv, TypeOK, Placement, Placed, Phases, Terminal, added
<1>8. Whole' /\ Afterwards'
    BY <1>1, <1>2, Reported DEF Whole, Afterwards, Terminal
<1>9. Rounds'
    BY <1>1, <1>4 DEF IInv, Rounds, Pending, Budget
<1> QED
    BY <1>6, <1>7, <1>8, <1>9 DEF IInv

-----------------------------------------------------------------------------
(* executeNextSubTask. "rest" is the event queue without the call that is  *)
(* executed, if it is one; "tries" and "open" are what m_try and the boxes *)
(* on screen are on entry.                                                 *)

Entered(rest, tries, open) ==
    /\ rest \in Seq(Requests \cup {Job}) /\ Once(rest, Requests)
    /\ Elements(rest) \cap Requests = doing \ live
    /\ tries \in 0..3 /\ tries <= try
    /\ open \in 0..manualTry /\ open <= dialogs
    /\ Budget <= tries + 3 * (manualTry - open)
    /\ tries = 0 => manualTry > 0

LEMMA RetryKeeps ==
    ASSUME IInv, NEW rest, NEW tries, NEW open, Entered(rest, tries, open), Retry(rest, tries, open)
    PROVE  IInv'
<1>1. /\ state = "Running" /\ queue = <<>> /\ doing = {} /\ failed # {} /\ tries < 3
      /\ failed' = {} /\ done' = done \ failed /\ try' = tries + 1 /\ dialogs' = open
      /\ UNCHANGED <<state, sub, live, manualTry, signals, joined, attempts>>
    BY DEF Retry, AllFailed
<1>2. PICK order \in SetToSeqs(failed) :
          queue' = Tail(order) /\ doing' = {Head(order)} /\ events' = Append(rest, Head(order))
    BY DEF Retry
<1> DEFINE h == Head(order)
           t == Tail(order)
<1>3. h \in failed /\ t \in Seq(failed) /\ Elements(t) = failed \ {h} /\ Once(t, Requests)
    BY <1>1, Ordered DEF IInv, TypeOK
<1>4. queue' = t /\ doing' = {h} /\ events' = Append(rest, h)
    BY <1>2
<1> HIDE DEF h, t
<1>5. h \in Requests /\ t \in Seq(Requests)
  <2>1. failed \subseteq Requests
      BY DEF IInv, TypeOK
  <2>2. Seq(failed) \subseteq Seq(Requests)
      BY <2>1
  <2> QED
      BY <1>3, <2>1, <2>2
<1>6. live = {} /\ h \notin Elements(rest)
    BY <1>1, <1>5 DEF IInv, TypeOK, Entered
<1>7. /\ events' \in Seq(Requests \cup {Job}) /\ Once(events', Requests)
      /\ Elements(events') \cap Requests = {h}
  <2>1. h # Job
      BY <1>5, RequestsAssumption
  <2> QED
      BY <1>1, <1>4, <1>5, <1>6, <2>1, Posting DEF Entered
<1>8. signals = <<>> /\ failed \subseteq done /\ added = done
  <2>1. signals = <<>>
      BY <1>1 DEF IInv, Placement, Phases, Terminal
  <2> QED
      BY <1>1, <2>1, ElementsEmpty DEF IInv, Whole, Placement, Placed
<1>9. TypeOK'
    BY <1>1, <1>3, <1>4, <1>5, <1>6, <1>7 DEF IInv, TypeOK, Entered
<1>10. added' = added
    BY <1>1 DEF added
<1>11. Placement'
    BY <1>1, <1>3, <1>4, <1>5, <1>6, <1>7, <1>8, <1>10 DEF IInv, Placement, Placed, Phases
<1>12. Pending' = failed /\ Good' = Good
    BY <1>1, <1>3, <1>4, <1>6 DEF Pending, Good
<1>13. Pending = {}
    BY <1>1, ElementsEmpty DEF Pending
<1>14. tries \in Nat /\ try \in Nat /\ tries <= try
    BY BudgetType DEF IInv, Entered
<1>15. Whole'
  <2>1. added' \subseteq Elements(queue') \cup doing' \cup done'
      BY <1>1, <1>3, <1>4, <1>8, <1>10
  <2>2. \A r \in added \ Good : attempts[r] + joined[r] >= tries + 1
    <3> SUFFICES ASSUME NEW r \in added \ Good PROVE attempts[r] + joined[r] >= tries + 1
        OBVIOUS
    <3>1. attempts[r] + joined[r] >= try + 1
        BY <1>8, <1>13 DEF IInv, Whole
    <3>2. TypeOK
        BY DEF IInv
    <3>3. attempts[r] \in Nat /\ joined[r] \in Nat
        BY <3>2, Counts
    <3> QED
        BY <1>14, <3>1, <3>3
  <2>3. added' \ (Good' \cup Pending') = {}
      BY <1>8, <1>10, <1>12 DEF Good
  <2>4. failed' \subseteq done' /\ \A r \in Good' : sub'[r] = "Succeeded"
      BY <1>1, <1>8, <1>12 DEF IInv, Whole
  <2> QED
      BY <1>1, <1>10, <1>12, <2>1, <2>2, <2>3, <2>4 DEF Whole
<1>16. Afterwards'
  <2>1. dialogs' > 0 => dialogs > 0
      BY <1>1, BudgetType DEF IInv, Entered
  <2>2. signals' = <<>> /\ signals' # <<"Failed">> /\ signals' # <<"Succeeded">>
      BY <1>1, <1>8
  <2> QED
      BY <1>1, <1>10, <1>12, <2>1, <2>2 DEF IInv, Afterwards
<1>17. Rounds'
  <2>1. Budget' = tries + 1 + 3 * (manualTry - open) /\ Budget' \in Nat /\ Budget \in Nat
        /\ Budget' >= Budget + 1
    <3>1. Budget' = tries + 1 + 3 * (manualTry - open)
        BY <1>1 DEF Budget
    <3>2. Budget \in Nat /\ manualTry \in Nat /\ tries \in 0..3 /\ open \in 0..manualTry
        BY BudgetType DEF IInv, Entered
    <3>3. Budget <= tries + 3 * (manualTry - open)
        BY DEF Entered
    <3> HIDE DEF Budget
    <3> QED
        BY <3>1, <3>2, <3>3
  <2>2. \A r \in Requests : attempts[r] \in Nat /\ attempts[r] <= Budget
      BY DEF IInv, Rounds, TypeOK
  <2>3. \A r \in Requests : attempts[r] + 1 <= Budget'
      BY <2>1, <2>2
  <2>4. try' # 0 /\ Pending' \subseteq Requests
      BY <1>1, <1>12, <1>14 DEF IInv, TypeOK
  <2>5. \A r \in Requests : attempts[r] <= Budget'
      BY <2>1, <2>2
  <2> QED
      BY <1>1, <2>3, <2>4, <2>5 DEF Rounds
<1> QED
    BY <1>9, <1>11, <1>15, <1>16, <1>17 DEF IInv

(* Where nothing but m_try and the boxes on screen changes.                *)
LEMMA SameTables ==
    ASSUME IInv, NEW rest, NEW tries, NEW open, Entered(rest, tries, open),
           events' = rest, try' = tries, dialogs' = open,
           UNCHANGED <<queue, doing, done, failed, sub, live, manualTry, joined, attempts>>,
           state' \in TaskState, signals' \in Seq(Terminal)
    PROVE  TypeOK' /\ Placed' /\ Rounds'
<1>1. TypeOK'
    BY DEF IInv, TypeOK, Entered
<1>2. Placed'
    BY DEF IInv, Placement, Placed, Entered, added
<1>3. Budget' = tries + 3 * (manualTry - open) /\ Budget \in Nat /\ Budget' \in Nat /\ Budget' >= Budget
  <2>1. Budget' = tries + 3 * (manualTry - open)
      BY DEF Budget
  <2>2. Budget \in Nat /\ manualTry \in Nat /\ tries \in 0..3 /\ open \in 0..manualTry
      BY BudgetType DEF IInv, Entered
  <2>3. Budget <= tries + 3 * (manualTry - open)
      BY DEF Entered
  <2> HIDE DEF Budget
  <2> QED
      BY <2>1, <2>2, <2>3
<1>4. \A r \in Requests : attempts[r] \in Nat /\ attempts[r] <= Budget
    BY DEF IInv, Rounds, TypeOK
<1>5. \A r \in Pending : r \in Requests /\ attempts[r] + 1 <= Budget
    BY ElementsType DEF IInv, Rounds, TypeOK, Pending
<1>6. Pending' = Pending
    BY DEF Pending
<1>7. Rounds'
  <2>1. \A r \in Requests : attempts[r] <= Budget'
      BY <1>3, <1>4
  <2>2. \A r \in Pending : attempts[r] + 1 <= Budget'
      BY <1>3, <1>4, <1>5
  <2>3. try' = 0 => manualTry' > 0
      BY DEF Entered
  <2> QED
      BY <1>6, <2>1, <2>2, <2>3 DEF Rounds
<1> QED
    BY <1>1, <1>2, <1>7

LEMMA LowerTry ==
    ASSUME IInv, NEW tries \in Nat, tries <= try, NEW r \in added
    PROVE  /\ attempts[r] + joined[r] >= try => attempts[r] + joined[r] >= tries
           /\ attempts[r] + joined[r] >= try + 1 => attempts[r] + joined[r] >= tries + 1
<1>1. r \in Requests /\ try \in Nat
    BY BudgetType DEF IInv, added
<1>2. attempts[r] \in Nat /\ joined[r] \in 0..4
    BY <1>1 DEF IInv, TypeOK
<1> QED
    BY <1>1, <1>2

LEMMA SkipKeeps ==
    ASSUME IInv, NEW rest, NEW tries, NEW open, Entered(rest, tries, open), Skip(rest, tries, open)
    PROVE  IInv'
<1>1. /\ events' = rest /\ try' = tries /\ dialogs' = open
      /\ UNCHANGED <<state, queue, doing, done, failed, sub, live, manualTry, signals, joined, attempts>>
    BY DEF Skip, tables
<1>2. TypeOK' /\ Placed' /\ Rounds'
    BY <1>1, SameTables DEF IInv, TypeOK
<1>3. added' = added /\ Good' = Good /\ Pending' = Pending /\ Phases'
    BY <1>1 DEF IInv, Placement, Phases, added, Good, Pending
<1>4. Whole'
    BY <1>1, <1>3, LowerTry DEF IInv, Whole, Entered
<1>5. Afterwards'
  <2>1. dialogs' > 0 => dialogs > 0
      BY <1>1, BudgetType DEF IInv, Entered
  <2> QED
      BY <1>1, <1>3, <2>1 DEF IInv, Afterwards
<1> QED
    BY <1>2, <1>3, <1>4, <1>5 DEF IInv, Placement

LEMMA StartSubTaskKeeps ==
    ASSUME IInv, NEW rest, NEW tries, NEW open, Entered(rest, tries, open),
           StartSubTask(rest, tries, open)
    PROVE  IInv'
<1> DEFINE h == Head(queue)
           t == Tail(queue)
<1>1. /\ state = "Running" /\ queue # <<>>
      /\ doing' = doing \cup {h} /\ queue' = t /\ events' = Append(rest, h)
      /\ try' = tries /\ dialogs' = open
      /\ UNCHANGED <<state, done, failed, sub, live, manualTry, signals, joined, attempts>>
    BY DEF StartSubTask, MayStartMore
<1>2. /\ Elements(queue) = Elements(t) \cup {h} /\ t \in Seq(Requests) /\ h \in Requests
      /\ Once(t, Requests) /\ h \notin Elements(t)
    BY <1>1, ElementsTail, OnceTail DEF IInv, TypeOK, Placement, Placed
<1> HIDE DEF h, t
<1>3. h \notin doing /\ h \notin done /\ h \notin live /\ h \notin Elements(rest)
    BY <1>2 DEF IInv, TypeOK, Placement, Placed, Entered
<1>4. /\ events' \in Seq(Requests \cup {Job}) /\ Once(events', Requests)
      /\ Elements(events') \cap Requests = (doing \ live) \cup {h}
  <2>1. h # Job
      BY <1>2, RequestsAssumption
  <2> QED
      BY <1>1, <1>2, <1>3, <2>1, Posting DEF Entered
<1>5. TypeOK'
    BY <1>1, <1>2, <1>4 DEF IInv, TypeOK, Entered
<1>6. added' = added /\ Good' = Good /\ Pending' = Pending
    BY <1>1, <1>2, <1>3 DEF added, Good, Pending
<1>7. Placement'
    BY <1>1, <1>2, <1>3, <1>4, <1>6 DEF IInv, Placement, Placed, Phases
<1>8. Whole'
    BY <1>1, <1>2, <1>6, LowerTry DEF IInv, Whole, Entered
<1>9. Afterwards'
  <2>1. dialogs' > 0 => dialogs > 0
      BY <1>1, BudgetType DEF IInv, Entered
  <2>2. signals' = <<>> /\ signals' # <<"Failed">> /\ signals' # <<"Succeeded">>
      BY <1>1 DEF IInv, Placement, Phases, Terminal
  <2> QED
      BY <1>1, <1>6, <2>1, <2>2 DEF IInv, Afterwards
<1>10. Rounds'
  <2>1. Budget' = tries + 3 * (manualTry - open) /\ Budget \in Nat /\ Budget' \in Nat /\ Budget' >= Budget
      BY <1>1, BudgetType DEF IInv, Budget, Entered
  <2>2. \A r \in Requests : attempts[r] \in Nat /\ attempts[r] <= Budget
      BY DEF IInv, Rounds, TypeOK
  <2>3. \A r \in Pending : r \in Requests /\ attempts[r] + 1 <= Budget
      BY ElementsType DEF IInv, Rounds, TypeOK, Pending
  <2>4. \A r \in Requests : attempts[r] <= Budget'
      BY <2>1, <2>2
  <2>5. \A r \in Pending : attempts[r] + 1 <= Budget'
      BY <2>1, <2>2, <2>3
  <2> QED
      BY <1>1, <1>6, <2>4, <2>5 DEF Rounds, Entered
<1> QED
    BY <1>5, <1>7, <1>8, <1>9, <1>10 DEF IInv

LEMMA AllSucceededKeeps ==
    ASSUME IInv, NEW rest, NEW tries, NEW open, Entered(rest, tries, open),
           AllSucceeded(rest, tries, open)
    PROVE  IInv'
<1>1. /\ state = "Running" /\ queue = <<>> /\ doing = {} /\ failed = {}
      /\ Emit("Succeeded")
      /\ events' = rest /\ try' = tries /\ dialogs' = open
      /\ UNCHANGED <<queue, doing, done, failed, sub, live, manualTry, joined, attempts>>
    BY DEF AllSucceeded, MayStartMore, tables
<1>2. state' = "Succeeded" /\ signals' = <<"Succeeded">> /\ signals = <<>>
    BY <1>1, EmitOnce DEF IInv, Placement, Terminal
<1>3. TypeOK' /\ Placed' /\ Rounds'
    BY <1>1, <1>2, SameTables, Reported DEF TaskState, Terminal
<1>4. Good = added /\ \A r \in Good : sub[r] = "Succeeded"
    BY <1>1, <1>2, ElementsEmpty DEF IInv, Placement, Placed, Whole, Good
<1>5. added' = added /\ Good' = Good
    BY <1>1 DEF added, Good
<1>6. Phases' /\ Whole' /\ Afterwards'
    BY <1>1, <1>2, <1>4, <1>5, Reported DEF Phases, Whole, Afterwards, Terminal
<1> QED
    BY <1>3, <1>6 DEF IInv, Placement

LEMMA RunOutKeeps ==
    ASSUME IInv, NEW rest, NEW tries, NEW open, Entered(rest, tries, open),
           RunOut(rest, tries, open), ~AllFailed(tries)
    PROVE  IInv'
<1>1. /\ state = "Running" /\ queue = <<>> /\ doing = {} /\ failed # {}
      /\ events' = rest /\ try' = tries
      /\ UNCHANGED <<queue, doing, done, failed, sub, live, joined, attempts>>
    BY DEF RunOut, MayStartMore, tables
<1>2. tries = 3 /\ try = 3
  <2>1. ~(tries < 3)
      BY <1>1 DEF AllFailed
  <2> QED
      BY <2>1 DEF IInv, TypeOK, Entered
<1>3. signals = <<>>
    BY <1>1 DEF IInv, Placement, Phases, Terminal
<1>4. added' = added /\ Good' = Good /\ Pending' = Pending
    BY <1>1 DEF added, Good, Pending
<1>5. \A r \in added \ Good : attempts[r] + joined[r] >= 4
    BY <1>1, <1>2, <1>3, ElementsEmpty DEF IInv, Whole, Pending
<1>6. CASE manualTry' = manualTry + 1 /\ manualTry < ManualRetries
           /\ dialogs' = open + 1 /\ UNCHANGED <<state, signals>>
  <2>1. manualTry \in Nat /\ open \in Nat /\ dialogs' \in 0..manualTry' /\ manualTry' \in 0..ManualRetries
      BY <1>6, BudgetType, LimitsAssumption DEF IInv, TypeOK, Entered
  <2>2. TypeOK'
      BY <1>1, <1>6, <2>1 DEF IInv, TypeOK, Entered
  <2>3. Placement'
      BY <1>1, <1>4, <1>6 DEF IInv, Placement, Placed, Phases, Entered
  <2>4. Whole'
      BY <1>1, <1>2, <1>4, <1>6 DEF IInv, Whole
  <2>5. Afterwards'
      BY <1>3, <1>4, <1>5, <1>6, <1>1, Reported DEF Afterwards, Terminal
  <2>6. Budget' = tries + 3 * (manualTry - open) /\ Budget' >= Budget /\ Budget \in Nat /\ Budget' \in Nat
      BY <1>1, <1>6, <2>1, BudgetType DEF IInv, Budget, Entered
  <2>7. \A r \in Requests : attempts[r] \in Nat /\ attempts[r] <= Budget
      BY DEF IInv, Rounds, TypeOK
  <2>8. \A r \in Requests : attempts[r] <= Budget'
      BY <2>6, <2>7
  <2>9. Pending = {}
      BY <1>1, ElementsEmpty DEF Pending
  <2>10. Rounds'
      BY <1>1, <1>2, <1>4, <2>8, <2>9 DEF Rounds
  <2> QED
      BY <2>2, <2>3, <2>4, <2>5, <2>10 DEF IInv
<1>7. CASE Emit("Failed") /\ dialogs' = open /\ UNCHANGED manualTry
  <2>1. state' = "Failed" /\ signals' = <<"Failed">>
      BY <1>1, <1>7, EmitOnce DEF IInv, Placement, Terminal
  <2>2. TypeOK' /\ Placed' /\ Rounds'
      BY <1>1, <1>7, <2>1, SameTables, Reported DEF TaskState, Terminal
  <2>3. Phases' /\ Whole' /\ Afterwards'
    <3>1. signals' # <<>> /\ signals' # <<"Succeeded">>
        BY <2>1
    <3> QED
        BY <1>1, <1>4, <1>5, <2>1, <3>1 DEF Phases, Whole, Afterwards, Terminal
  <2> QED
      BY <2>2, <2>3 DEF IInv, Placement
<1> QED
    BY <1>6, <1>7 DEF RunOut

LEMMA ExecuteNextSubTaskKeeps ==
    ASSUME IInv, NEW rest, NEW tries, NEW open, Entered(rest, tries, open),
           ExecuteNextSubTask(rest, tries, open)
    PROVE  IInv'
    BY RetryKeeps, SkipKeeps, StartSubTaskKeeps, AllSucceededKeeps, RunOutKeeps
    DEF ExecuteNextSubTask

LEMMA RunNextKeeps ==
    ASSUME IInv, RunNext PROVE IInv'
<1>1. events # <<>> /\ Head(events) = Job /\ ExecuteNextSubTask(Tail(events), try, dialogs)
    BY DEF RunNext, NextPosted
<1>2. /\ Tail(events) \in Seq(Requests \cup {Job}) /\ Once(Tail(events), Requests)
      /\ Elements(Tail(events)) \cap Requests = doing \ live
    BY <1>1, Taken, RequestsAssumption DEF IInv, Placement, TypeOK
<1>3. Entered(Tail(events), try, dialogs)
    BY <1>2, BudgetType DEF Entered, IInv, TypeOK, Rounds, Budget
<1> QED
    BY <1>1, <1>3, ExecuteNextSubTaskKeeps

LEMMA AnswerYesKeeps ==
    ASSUME IInv, AnswerYes PROVE IInv'
<1>1. dialogs > 0 /\ ExecuteNextSubTask(events, 0, dialogs - 1)
    BY DEF AnswerYes
<1>2. /\ events \in Seq(Requests \cup {Job}) /\ Once(events, Requests)
      /\ Elements(events) \cap Requests = doing \ live
    BY DEF IInv, TypeOK, Placement, Placed
<1>3. /\ 0 <= try /\ dialogs - 1 \in 0..manualTry /\ dialogs - 1 <= dialogs /\ manualTry > 0
      /\ Budget <= 0 + 3 * (manualTry - (dialogs - 1))
    BY <1>1, BudgetType DEF IInv, TypeOK, Budget
<1>4. Entered(events, 0, dialogs - 1)
    BY <1>2, <1>3 DEF Entered
<1> QED
    BY <1>1, <1>4, ExecuteNextSubTaskKeeps

LEMMA AnswerNoKeeps ==
    ASSUME IInv, AnswerNo PROVE IInv'
<1>1. /\ dialogs > 0 /\ dialogs' = dialogs - 1 /\ Emit("Failed")
      /\ UNCHANGED <<queue, doing, done, failed, sub, live, try, manualTry, events, joined, attempts>>
    BY DEF AnswerNo, tables
<1>2. /\ events \in Seq(Requests \cup {Job}) /\ Once(events, Requests)
      /\ Elements(events) \cap Requests = doing \ live
    BY DEF IInv, TypeOK, Placement, Placed
<1>3. Entered(events, try, dialogs - 1)
  <2>1. /\ dialogs - 1 \in 0..manualTry /\ dialogs - 1 <= dialogs
        /\ Budget <= try + 3 * (manualTry - (dialogs - 1))
      BY <1>1, BudgetType DEF IInv, TypeOK, Budget
  <2> QED
      BY <1>2, <2>1, BudgetType DEF Entered, IInv, TypeOK, Rounds
<1>4. added' = added /\ Good' = Good
    BY <1>1 DEF added, Good
<1>5. \A r \in added \ Good : attempts[r] + joined[r] >= 4
    BY <1>1 DEF IInv, Afterwards
<1>6. CASE state = "Running"
  <2>1. state' = "Failed" /\ signals' = <<"Failed">>
      BY <1>1, <1>6, EmitOnce DEF IInv, Placement, Terminal
  <2>2. TypeOK' /\ Placed' /\ Rounds'
      BY <1>1, <1>3, <2>1, SameTables, Reported DEF TaskState, Terminal
  <2>3. Phases' /\ Whole' /\ Afterwards'
    <3>1. signals' # <<>> /\ signals' # <<"Succeeded">>
        BY <2>1
    <3> QED
        BY <1>1, <1>4, <1>5, <2>1, <3>1 DEF Phases, Whole, Afterwards, Terminal
  <2> QED
      BY <2>2, <2>3 DEF IInv, Placement
<1>7. CASE state # "Running"
  <2>1. UNCHANGED <<state, signals>>
      BY <1>1, <1>7 DEF Emit
  <2>2. TypeOK' /\ Placed' /\ Rounds'
      BY <1>1, <1>3, <2>1, SameTables DEF IInv, TypeOK
  <2>3. Phases' /\ Whole' /\ Afterwards'
      BY <1>1, <1>4, <1>5, <2>1
      DEF IInv, Placement, Phases, Whole, Afterwards, Good, Pending
  <2> QED
      BY <2>2, <2>3 DEF IInv, Placement
<1> QED
    BY <1>6, <1>7

-----------------------------------------------------------------------------
(* The requests.                                                           *)

LEMMA OpenReplyKeeps ==
    ASSUME IInv, NEW r \in Requests, OpenReply(r) PROVE IInv'
<1>1. /\ events # <<>> /\ Head(events) = r
      /\ sub' = [sub EXCEPT ![r] = "Running"] /\ live' = live \cup {r}
      /\ attempts' = [attempts EXCEPT ![r] = attempts[r] + 1]
      /\ events' = Tail(events)
      /\ UNCHANGED <<state, queue, doing, done, failed, try, manualTry, dialogs, signals, joined>>
    BY DEF OpenReply, Posted, tables
<1>2. /\ events' \in Seq(Requests \cup {Job}) /\ Once(events', Requests)
      /\ Elements(events') \cap Requests = (doing \ live) \ {r}
    BY <1>1, Taken DEF IInv, Placement
<1>3. r \in doing /\ r \notin live /\ r \notin Elements(queue) /\ r \notin done
  <2>1. r \in Elements(events)
      BY <1>1, ElementsTail DEF IInv, TypeOK
  <2> QED
      BY <2>1 DEF IInv, Placement, Placed
<1>4. /\ attempts' \in [Requests -> Nat] /\ attempts'[r] = attempts[r] + 1
      /\ \A q \in Requests : q # r => attempts'[q] = attempts[q]
      /\ \A q \in Requests : attempts[q] \in Nat /\ joined[q] \in 0..4
      /\ sub' \in [Requests -> TaskState]
      /\ \A q \in Requests : q # r => sub'[q] = sub[q]
    BY <1>1 DEF IInv, TypeOK, TaskState
<1>5. TypeOK'
    BY <1>1, <1>2, <1>3, <1>4 DEF IInv, TypeOK
<1>6. added' = added /\ Good' = Good /\ Pending' = Pending \ {r} /\ r \in Pending
    BY <1>1, <1>3 DEF added, Good, Pending
<1>7. Placement'
    BY <1>1, <1>2, <1>3, <1>4, <1>6 DEF IInv, Placement, Placed, Phases
<1>8. try \in Nat /\ added \subseteq Requests /\ Good \subseteq Requests
    BY BudgetType DEF IInv, TypeOK, added, Good
<1>9. Whole'
  <2> SUFFICES ASSUME signals = <<>> PROVE Whole'
      BY <1>1 DEF Whole
  <2>1. \A q \in added \ Good : attempts'[q] + joined[q] >= try
    <3>1. \A q \in added \ Good : attempts[q] + joined[q] >= try
        BY DEF IInv, Whole
    <3> SUFFICES ASSUME NEW q \in added \ Good PROVE attempts'[q] + joined[q] >= try
        OBVIOUS
    <3> QED
        BY <1>4, <1>8, <3>1
  <2>2. \A q \in added \ (Good \cup Pending') : attempts'[q] + joined[q] >= try + 1
    <3> SUFFICES ASSUME NEW q \in added \ (Good \cup Pending') PROVE attempts'[q] + joined[q] >= try + 1
        OBVIOUS
    <3>1. CASE q = r
      <4>1. attempts[r] + joined[r] >= try
          BY <3>1, <1>6 DEF IInv, Whole
      <4> QED
          BY <3>1, <4>1, <1>4, <1>8
    <3>2. CASE q # r
        BY <3>2, <1>4, <1>6, <1>8 DEF IInv, Whole
    <3> QED
        BY <3>1, <3>2
  <2>3. \A q \in Good : sub'[q] = "Succeeded"
      BY <1>3, <1>4, <1>8 DEF IInv, Whole, Good
  <2> QED
      BY <1>1, <1>6, <2>1, <2>2, <2>3 DEF IInv, Whole
<1>10. Afterwards'
  <2>1. \A q \in added \ Good : attempts[q] + joined[q] >= 4 => attempts'[q] + joined[q] >= 4
      BY <1>4, <1>8
  <2>2. signals # <<"Succeeded">>
      BY <1>3 DEF IInv, Afterwards
  <2> QED
      BY <1>1, <1>6, <2>1, <2>2 DEF IInv, Afterwards
<1>11. Rounds'
  <2>1. Budget' = Budget /\ Budget \in Nat
      BY <1>1, BudgetType DEF IInv, Budget
  <2>2. attempts'[r] <= Budget
      BY <1>4, <1>6 DEF IInv, Rounds
  <2>3. \A q \in Requests : q # r => attempts'[q] <= Budget
      BY <1>4 DEF IInv, Rounds
  <2>4. \A q \in Pending' : attempts'[q] + 1 <= Budget
    <3>1. Pending \subseteq Requests
        BY ElementsType DEF IInv, TypeOK, Pending
    <3> QED
        BY <1>4, <1>6, <3>1 DEF IInv, Rounds
  <2> QED
      BY <1>1, <2>1, <2>2, <2>3, <2>4 DEF IInv, Rounds
<1> QED
    BY <1>5, <1>7, <1>9, <1>10, <1>11 DEF IInv

(* A request is finished: it was under way, and where it had not opened a  *)
(* reply its attempt is counted with its result.                           *)
LEMMA SubTaskFinishedKeeps ==
    ASSUME IInv, NEW r \in Requests, NEW result \in Outcomes, NEW rest,
           SubTaskFinished(r, result, rest), r \in doing,
           rest \in Seq(Requests \cup {Job}), Once(rest, Requests),
           Elements(rest) \cap Requests = (doing \ live) \ {r},
           \/ r \in live /\ attempts' = attempts
           \/ r \notin live /\ attempts' = [attempts EXCEPT ![r] = attempts[r] + 1]
    PROVE  IInv'
<1>1. /\ sub' = [sub EXCEPT ![r] = result] /\ live' = live \ {r}
      /\ done' = done \cup {r} /\ doing' = doing \ {r}
      /\ failed' = IF result = "Succeeded" THEN failed ELSE failed \cup {r}
      /\ events' = Append(rest, Job)
      /\ UNCHANGED <<state, queue, try, manualTry, dialogs, signals, joined>>
    BY DEF SubTaskFinished
<1>2. /\ events' \in Seq(Requests \cup {Job}) /\ Once(events', Requests)
      /\ Elements(events') \cap Requests = (doing \ live) \ {r}
    BY <1>1, Posting
<1>3. r \in added /\ r \notin Elements(queue) /\ r \notin done
    BY DEF IInv, Placement, Placed
<1>4. /\ attempts' \in [Requests -> Nat]
      /\ attempts'[r] = IF r \in live THEN attempts[r] ELSE attempts[r] + 1
      /\ \A q \in Requests : q # r => attempts'[q] = attempts[q]
      /\ \A q \in Requests : attempts[q] \in Nat /\ joined[q] \in 0..4
    BY DEF IInv, TypeOK
<1>5. /\ sub' \in [Requests -> TaskState] /\ sub'[r] = result
      /\ \A q \in Requests : q # r => sub'[q] = sub[q]
    BY <1>1 DEF IInv, TypeOK, TaskState, Outcomes
<1>6. TypeOK'
  <2>1. failed' \subseteq Requests /\ done' \subseteq Requests /\ doing' \subseteq Requests /\ live' \subseteq doing'
      BY <1>1 DEF IInv, TypeOK
  <2> QED
      BY <1>1, <1>2, <1>4, <1>5, <2>1 DEF IInv, TypeOK
<1>7. /\ added' = added /\ Pending' = Pending \ {r}
      /\ r \notin live => r \in Pending
    BY <1>1, <1>3 DEF added, Pending
<1>8. Placement'
  <2>1. failed' \subseteq failed \cup {r}
      BY <1>1
  <2>2. doing' \ live' = (doing \ live) \ {r}
      BY <1>1
  <2> QED
      BY <1>1, <1>2, <1>3, <1>4, <1>7, <2>1, <2>2 DEF IInv, Placement, Placed, Phases
<1>9. Good \subseteq Good' /\ Good' \subseteq Good \cup {r} /\ r \notin Good
      /\ Good' \subseteq Requests /\ added \subseteq Requests
    BY <1>1, <1>3 DEF IInv, TypeOK, Good, added
<1>10. try \in Nat
    BY BudgetType DEF IInv
<1>11. Whole'
  <2> SUFFICES ASSUME signals = <<>> PROVE Whole'
      BY <1>1 DEF Whole
  <2>1. \A q \in added \ Good : attempts'[q] + joined[q] >= try
    <3>1. \A q \in added \ Good : attempts[q] + joined[q] >= try
        BY DEF IInv, Whole
    <3> SUFFICES ASSUME NEW q \in added \ Good PROVE attempts'[q] + joined[q] >= try
        OBVIOUS
    <3> QED
        BY <1>4, <1>9, <1>10, <3>1
  <2>2. \A q \in added \ (Good \cup Pending') : attempts'[q] + joined[q] >= try + 1
    <3> SUFFICES ASSUME NEW q \in added \ (Good \cup Pending') PROVE attempts'[q] + joined[q] >= try + 1
        OBVIOUS
    <3>1. CASE q = r /\ r \notin live
      <4>1. attempts[r] + joined[r] >= try
          BY <3>1, <1>9 DEF IInv, Whole
      <4>2. attempts'[r] = attempts[r] + 1 /\ attempts[r] \in Nat /\ joined[r] \in 0..4
          BY <3>1, <1>4
      <4> QED
          BY <3>1, <4>1, <4>2, <1>10
    <3>2. CASE q = r /\ r \in live
      <4>1. r \notin Pending
          BY <3>2, <1>3 DEF Pending
      <4>2. attempts[r] + joined[r] >= try + 1
          BY <3>2, <4>1, <1>9 DEF IInv, Whole
      <4> QED
          BY <3>2, <4>2, <1>4
    <3>3. CASE q # r
        BY <3>3, <1>4, <1>7, <1>9 DEF IInv, Whole
    <3> QED
        BY <3>1, <3>2, <3>3
  <2>3. failed' \subseteq done' /\ r \notin failed
      BY <1>1, <1>3 DEF IInv, Whole
  <2>4. \A q \in Good' : sub'[q] = "Succeeded"
    <3> SUFFICES ASSUME NEW q \in Good' PROVE sub'[q] = "Succeeded"
        OBVIOUS
    <3>1. CASE q = r
        BY <3>1, <1>1, <1>5 DEF Good
    <3>2. CASE q # r
        BY <3>2, <1>5, <1>9 DEF IInv, Whole
    <3> QED
        BY <3>1, <3>2
  <2>5. added \subseteq Elements(queue) \cup doing' \cup done'
      BY <1>1 DEF IInv, Whole
  <2> QED
      BY <1>1, <1>7, <1>9, <2>1, <2>2, <2>3, <2>4, <2>5 DEF Whole
<1>12. Afterwards'
  <2>1. \A q \in added \ Good : attempts[q] + joined[q] >= 4 => attempts'[q] + joined[q] >= 4
      BY <1>4, <1>9
  <2>2. signals # <<"Succeeded">>
      BY DEF IInv, Afterwards
  <2> QED
      BY <1>1, <1>7, <1>9, <2>1, <2>2 DEF IInv, Afterwards
<1>13. Rounds'
  <2>1. Budget' = Budget /\ Budget \in Nat
      BY <1>1, BudgetType DEF IInv, Budget
  <2>2. attempts'[r] <= Budget
      BY <1>4, <1>7, <2>1 DEF IInv, Rounds
  <2>3. \A q \in Requests : q # r => attempts'[q] <= Budget
      BY <1>4 DEF IInv, Rounds
  <2>4. \A q \in Pending' : attempts'[q] + 1 <= Budget
    <3>1. Pending \subseteq Requests
        BY ElementsType DEF IInv, TypeOK, Pending
    <3> QED
        BY <1>4, <1>7, <3>1 DEF IInv, Rounds
  <2> QED
      BY <1>1, <2>1, <2>2, <2>3, <2>4 DEF IInv, Rounds
<1> QED
    BY <1>6, <1>8, <1>11, <1>12, <1>13 DEF IInv

LEMMA SettleAtOnceKeeps ==
    ASSUME IInv, NEW r \in Requests, NEW result \in Outcomes, SettleAtOnce(r, result)
    PROVE  IInv'
<1>1. /\ events # <<>> /\ Head(events) = r
      /\ attempts' = [attempts EXCEPT ![r] = attempts[r] + 1]
      /\ SubTaskFinished(r, result, Tail(events))
    BY DEF SettleAtOnce, Posted
<1>2. /\ Tail(events) \in Seq(Requests \cup {Job}) /\ Once(Tail(events), Requests)
      /\ Elements(Tail(events)) \cap Requests = (doing \ live) \ {r}
    BY <1>1, Taken DEF IInv, Placement
<1>3. r \in doing /\ r \notin live
  <2>1. r \in Elements(events)
      BY <1>1, ElementsTail DEF IInv, TypeOK
  <2> QED
      BY <2>1 DEF IInv, Placement, Placed
<1> QED
    BY <1>1, <1>2, <1>3, SubTaskFinishedKeeps

LEMMA EndReplyKeeps ==
    ASSUME IInv, NEW r \in Requests, NEW result \in Outcomes, EndReply(r, result)
    PROVE  IInv'
<1>1. r \in live /\ attempts' = attempts /\ SubTaskFinished(r, result, events)
    BY DEF EndReply
<1>2. /\ events \in Seq(Requests \cup {Job}) /\ Once(events, Requests)
      /\ Elements(events) \cap Requests = (doing \ live) \ {r} /\ r \in doing
    BY <1>1 DEF IInv, TypeOK, Placement, Placed
<1> QED
    BY <1>1, <1>2, SubTaskFinishedKeeps

-----------------------------------------------------------------------------
LEMMA InitIInv == Init => IInv
<1> SUFFICES ASSUME Init PROVE IInv
    OBVIOUS
<1>1. /\ state = "Inactive" /\ queue = <<>> /\ doing = {} /\ done = {} /\ failed = {}
      /\ sub = [r \in Requests |-> "Inactive"] /\ live = {}
      /\ try = 1 /\ manualTry = 0 /\ dialogs = 0 /\ events = <<>> /\ signals = <<>>
      /\ joined = [r \in Requests |-> 4] /\ attempts = [r \in Requests |-> 0]
    BY DEF Init
<1>2. Elements(queue) = {} /\ Elements(events) = {} /\ Once(queue, Requests) /\ Once(events, Requests)
    BY <1>1, ElementsEmpty DEF Once
<1>3. added = {} /\ Pending = {} /\ Good = {}
    BY <1>1, <1>2 DEF added, Pending, Good
<1>4. TypeOK
    BY <1>1, LimitsAssumption DEF TypeOK, TaskState
<1>5. Placement
    BY <1>1, <1>2, <1>3 DEF Placement, Placed, Phases
<1>6. Whole /\ Afterwards
    BY <1>1, <1>2, <1>3 DEF Whole, Afterwards
<1>7. Rounds
    BY <1>1, <1>3 DEF Rounds, Budget
<1> QED
    BY <1>4, <1>5, <1>6, <1>7 DEF IInv

LEMMA StutterKeeps == ASSUME IInv, UNCHANGED vars PROVE IInv'
    BY DEF vars, tables, IInv, TypeOK, Placement, Placed, Phases, Whole, Afterwards, Rounds,
           Pending, Good, Budget, added

LEMMA NextKeeps == IInv /\ [Next]_vars => IInv'
<1> SUFFICES ASSUME IInv, [Next]_vars PROVE IInv'
    OBVIOUS
<1>1. CASE \E r \in Requests : AddNetAction(r)
    BY <1>1, AddNetActionKeeps
<1>2. CASE Start
    BY <1>2, StartKeeps
<1>3. CASE Abort
    BY <1>3, AbortKeeps
<1>4. CASE RunNext
    BY <1>4, RunNextKeeps
<1>5. CASE AnswerYes
    BY <1>5, AnswerYesKeeps
<1>6. CASE AnswerNo
    BY <1>6, AnswerNoKeeps
<1>7. CASE \E r \in Requests : OpenReply(r)
    BY <1>7, OpenReplyKeeps
<1>8. CASE \E r \in Requests, result \in Outcomes : SettleAtOnce(r, result)
    BY <1>8, SettleAtOnceKeeps
<1>9. CASE \E r \in Requests, result \in Outcomes : EndReply(r, result)
    BY <1>9, EndReplyKeeps
<1>10. CASE UNCHANGED vars
    BY <1>10, StutterKeeps
<1> QED
    BY <1>1, <1>2, <1>3, <1>4, <1>5, <1>6, <1>7, <1>8, <1>9, <1>10 DEF Next

LEMMA Invariance == Spec => []IInv
    BY InitIInv, NextKeeps, PTL DEF Spec

(* What the invariant says of the bounds that the comments promise.        *)
LEMMA RetriesInOrder == IInv => RetriesOK
<1> SUFFICES ASSUME IInv PROVE RetriesOK
    OBVIOUS
<1>1. NothingLost
  <2> SUFFICES ASSUME state = "Running"
               PROVE  /\ Elements(queue) \cup doing \cup done = added
                      /\ Elements(queue) \cap doing = {}
                      /\ (Elements(queue) \cup doing) \cap done = {}
                      /\ Cardinality(Elements(queue)) = Len(queue)
      BY DEF NothingLost
  <2>1. signals = <<>>
      BY DEF IInv, Placement, Phases, Terminal
  <2>2. Cardinality(Elements(queue)) = Len(queue)
      BY OnceLen DEF IInv, TypeOK, Placement, Placed
  <2> QED
      BY <2>1, <2>2 DEF IInv, Placement, Placed, Whole
<1>2. AttemptsBounded
  <2>1. Budget <= 3 * (1 + ManualRetries) /\ Budget \in Nat
      BY BudgetType, LimitsAssumption DEF IInv, TypeOK, Budget
  <2>2. \A r \in Requests : attempts[r] \in Nat /\ attempts[r] <= Budget
      BY DEF IInv, TypeOK, Rounds
  <2> QED
      BY <2>1, <2>2, LimitsAssumption DEF AttemptsBounded
<1>3. TriedEnough
  <2> SUFFICES ASSUME signals = <<"Failed">>, NEW r \in failed PROVE attempts[r] >= 4 - joined[r]
      BY DEF TriedEnough
  <2>1. r \in added \ Good /\ r \in Requests
      BY DEF IInv, TypeOK, Placement, Placed, Good
  <2>2. attempts[r] + joined[r] >= 4 /\ attempts[r] \in Nat /\ joined[r] \in 0..4
      BY <2>1 DEF IInv, TypeOK, Afterwards
  <2> QED
      BY <2>2
<1> QED
    BY <1>1, <1>2, <1>3 DEF RetriesOK, IInv

(* Through every automatic and manual retry the tables of a job stay whole,*)
(* no request is attempted more often than the retries allow, and a job    *)
(* that gives up has tried what failed three times, or in every round since*)
(* it was added (NetJob::executeNextSubTask, emitFailed).                  *)
THEOREM RetriesAreKept == Spec => []RetriesOK
    BY Invariance, RetriesInOrder, PTL

(* A job that reports success had each of its requests succeed, and none   *)
(* is undone by a late event.                                              *)
THEOREM SuccessIsOfAll == Spec => []HonestSuccess
<1>1. IInv => HonestSuccess
    BY DEF IInv, Afterwards, HonestSuccess
<1> QED
    BY <1>1, Invariance, PTL

=============================================================================
