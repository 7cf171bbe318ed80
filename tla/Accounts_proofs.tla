---------------------------- MODULE Accounts_proofs ----------------------------
(***************************************************************************)
(* Proofs about the account list, for any accounts, refresh steps, acts of *)
(* the user and bounds: its count of active accounts is right, and the     *)
(* background refresh never falls asleep.                                  *)
(***************************************************************************)
EXTENDS Accounts, SequenceTheorems, FiniteSetTheorems, TLAPS

-----------------------------------------------------------------------------
(* Searching a sequence.                                                   *)

LEMMA Smaller == IsWellFoundedOn({ss \in Nat \X Nat : ss[1] < ss[2]}, Nat)
BY NatLessThanWellFounded DEF OpToRel

LEMMA Least ==
    ASSUME NEW I \in SUBSET Nat, I # {}
    PROVE  Min(I) \in I /\ \A i \in I : Min(I) <= i
<1> DEFINE Less == {ss \in Nat \X Nat : ss[1] < ss[2]}
<1>1. PICK m \in I : \A i \in I : ~(<<i, m>> \in Less)
  <2>1. IsWellFoundedOn(Less, Nat)
      BY Smaller
  <2> HIDE DEF Less
  <2> QED
      BY <2>1, WFMin
<1>2. ASSUME NEW i \in I PROVE m <= i
  <2>1. <<i, m>> \in Nat \X Nat /\ <<i, m>>[1] = i /\ <<i, m>>[2] = m
      OBVIOUS
  <2>2. ~(i < m)
      BY <1>1, <2>1
  <2> QED
      BY <2>2
<1> QED
    BY <1>2 DEF Min

(* The first of the places in I, or 0.                                     *)
LEMMA FirstOf ==
    ASSUME NEW n \in Nat, NEW I \in SUBSET (1..n), NEW k, k = IF I # {} THEN Min(I) ELSE 0
    PROVE  k \in 0..n /\ (k # 0 => k \in I) /\ (k = 0 => I = {})
<1>1. CASE I # {}
  <2>1. I \in SUBSET Nat
      OBVIOUS
  <2>2. Min(I) \in I
      BY <1>1, <2>1, Least
  <2>3. k = Min(I) /\ Min(I) \in 1..n
      BY <1>1, <2>2
  <2> QED
      BY <1>1, <2>2, <2>3
<1>2. CASE I = {}
    BY <1>2
<1> QED
    BY <1>1, <1>2

(* s[k] is not in t any more.                                              *)
Without(s, k, t) ==
    /\ Len(t) = Len(s) - 1
    /\ \A i \in 1..Len(t) : t[i] = IF i < k THEN s[i] ELSE s[i + 1]

LEMMA RemoveAtIs ==
    ASSUME NEW S, NEW s \in Seq(S), NEW k \in 1..Len(s)
    PROVE  RemoveAt(s, k) \in Seq(S) /\ Without(s, k, RemoveAt(s, k))
<1> DEFINE a == SubSeq(s, 1, k - 1)
           b == SubSeq(s, k + 1, Len(s))
<1>1. Len(s) \in Nat /\ k \in Nat /\ 1 <= k /\ k <= Len(s)
    BY LenProperties
<1>2. a \in Seq(S) /\ Len(a) = k - 1 /\ \A i \in 1..(k - 1) : a[i] = s[i]
  <2>1. 1 \in 1..(Len(s) + 1) /\ k - 1 \in 0..Len(s)
      BY <1>1
  <2> QED
      BY <1>1, <2>1, SubSeqProperties
<1>3. b \in Seq(S) /\ Len(b) = Len(s) - k /\ \A i \in 1..(Len(s) - k) : b[i] = s[k + i]
  <2>1. k + 1 \in 1..(Len(s) + 1) /\ Len(s) \in k..Len(s)
      BY <1>1
  <2> QED
      BY <1>1, <2>1, SubSeqProperties
<1>4. RemoveAt(s, k) = a \o b
    BY DEF RemoveAt
<1> HIDE DEF a, b
<1>5. a \o b \in Seq(S) /\ Len(a \o b) = Len(s) - 1
      /\ \A i \in 1..(Len(s) - 1) : (a \o b)[i] = IF i <= k - 1 THEN a[i] ELSE b[i - (k - 1)]
  <2>1. a \o b \in Seq(S) /\ Len(a \o b) = Len(a) + Len(b)
        /\ \A i \in 1..(Len(a) + Len(b)) :
             (a \o b)[i] = IF i <= Len(a) THEN a[i] ELSE b[i - Len(a)]
      BY <1>2, <1>3, ConcatProperties
  <2>2. Len(a) + Len(b) = Len(s) - 1
      BY <1>1, <1>2, <1>3
  <2> QED
      BY <1>2, <2>1, <2>2
<1>6. ASSUME NEW i \in 1..(Len(s) - 1)
      PROVE  (a \o b)[i] = IF i < k THEN s[i] ELSE s[i + 1]
  <2>1. CASE i < k
      BY <1>1, <1>2, <1>5, <2>1
  <2>2. CASE ~(i < k)
    <3>1. i - (k - 1) \in 1..(Len(s) - k) /\ k + (i - (k - 1)) = i + 1
        BY <1>1, <2>2
    <3> QED
        BY <1>1, <1>3, <1>5, <2>2, <3>1
  <2> QED
      BY <1>1, <2>1, <2>2
<1> QED
    BY <1>4, <1>5, <1>6 DEF Without

LEMMA RemoveFirstIs ==
    ASSUME NEW S, NEW s \in Seq(S), NEW e
    PROVE  \/ /\ \A i \in 1..Len(s) : s[i] # e
              /\ RemoveFirst(s, e) = s
           \/ \E k \in 1..Len(s) :
                 s[k] = e /\ RemoveFirst(s, e) \in Seq(S) /\ Without(s, k, RemoveFirst(s, e))
<1>1. CASE \E i \in 1..Len(s) : s[i] = e
  <2> DEFINE I == {i \in 1..Len(s) : s[i] = e}
             k == IF I # {} THEN Min(I) ELSE 0
  <2>1. RemoveFirst(s, e) = RemoveAt(s, k)
      BY <1>1 DEF RemoveFirst, SelectInSeq
  <2>2. Len(s) \in Nat /\ I # {} /\ I \in SUBSET (1..Len(s))
      BY <1>1, LenProperties
  <2>3. k \in I
    <3>1. k \in 0..Len(s) /\ (k # 0 => k \in I) /\ (k = 0 => I = {})
      <4> HIDE DEF I
      <4> QED
          BY <2>2, FirstOf
    <3> HIDE DEF I, k
    <3> QED
        BY <2>2, <3>1
  <2> HIDE DEF k
  <2>4. k \in 1..Len(s) /\ s[k] = e
      BY <2>3
  <2> QED
      BY <2>1, <2>4, RemoveAtIs
<1>2. CASE \A i \in 1..Len(s) : s[i] # e
    BY <1>2 DEF RemoveFirst
<1> QED
    BY <1>1, <1>2

-----------------------------------------------------------------------------
(* A queue in which each account stands once, but for the place p.         *)

OnceBut(s, p) ==
    \A i, j \in 1..Len(s) : i # p /\ j # p /\ s[i] = s[j] => i = j

LEMMA OnceButLength ==
    ASSUME NEW s \in Seq(Accounts), NEW p \in 0..Len(s), OnceBut(s, p)
    PROVE  Len(s) <= Cardinality(Accounts) + 1
<1> DEFINE D == (1..Len(s)) \ {p}
           f == [i \in D |-> s[i]]
<1>1. Len(s) \in Nat /\ \A i \in 1..Len(s) : s[i] \in Accounts
    BY LenProperties, ElementOfSeq
<1>2. f \in [D -> Accounts] /\ \A i, j \in D : f[i] = f[j] => i = j
    BY <1>1 DEF OnceBut
<1>3. f \in Injection(D, Accounts)
    BY <1>2 DEF Injection, IsInjective
<1>4. IsFiniteSet(Accounts) /\ Cardinality(Accounts) \in Nat
    BY AccountsAssumption, FS_CardinalityType
<1>5. Cardinality(D) <= Cardinality(Accounts)
    BY <1>3, <1>4, FS_Injection
<1>6. IsFiniteSet(1..Len(s)) /\ Cardinality(1..Len(s)) = Len(s)
  <2>1. 1 \in Int /\ Len(s) \in Int
      BY <1>1
  <2>2. IsFiniteSet(1..Len(s)) /\ Cardinality(1..Len(s)) = IF 1 > Len(s) THEN 0 ELSE Len(s) - 1 + 1
      BY <2>1, FS_Interval
  <2> QED
      BY <1>1, <2>2
<1>7. Cardinality(D) >= Len(s) - 1
  <2>1. Cardinality(D) = IF p \in 1..Len(s) THEN Cardinality(1..Len(s)) - 1
                                            ELSE Cardinality(1..Len(s))
      BY <1>6, FS_RemoveElement
  <2> HIDE DEF D
  <2> QED
      BY <1>1, <1>6, <2>1
<1>8. Cardinality(D) \in Nat
    BY <1>3, <1>4, FS_Injection, FS_CardinalityType
<1> QED
    BY <1>1, <1>4, <1>5, <1>7, <1>8

(* What is left of a queue after its first k places.                       *)
LEMMA Rest ==
    ASSUME NEW s \in Seq(Accounts), NEW p \in 0..Len(s), OnceBut(s, p), NEW k \in 0..Len(s)
    PROVE  /\ SubSeq(s, k + 1, Len(s)) \in Seq(Accounts)
           /\ \E r \in 0..Len(SubSeq(s, k + 1, Len(s))) :
                OnceBut(SubSeq(s, k + 1, Len(s)), r) /\ (p = 0 => r = 0)
<1> DEFINE t == SubSeq(s, k + 1, Len(s))
<1>1. Len(s) \in Nat /\ k \in Nat /\ p \in Nat /\ \A i \in 1..Len(s) : s[i] \in Accounts
    BY LenProperties, ElementOfSeq
<1>2. t \in Seq(Accounts) /\ Len(t) = Len(s) - k /\ \A i \in 1..(Len(s) - k) : t[i] = s[k + i]
  <2>1. k + 1 \in Int /\ Len(s) \in Int /\ \A i \in (k + 1)..Len(s) : s[i] \in Accounts
      BY <1>1
  <2>2. /\ t \in Seq(Accounts)
        /\ Len(t) = IF k + 1 <= Len(s) THEN Len(s) - (k + 1) + 1 ELSE 0
        /\ \A i \in 1..(Len(s) - (k + 1) + 1) : t[i] = s[k + 1 + i - 1]
      BY <2>1, SubSeqProperties
  <2>3. Len(s) - (k + 1) + 1 = Len(s) - k /\ \A i \in 1..(Len(s) - k) : k + 1 + i - 1 = k + i
      BY <1>1
  <2>4. Len(t) = Len(s) - k
      BY <1>1, <2>2
  <2> HIDE DEF t
  <2> QED
      BY <2>2, <2>3, <2>4
<1> HIDE DEF t
<1> DEFINE r == IF p > k THEN p - k ELSE 0
<1>3. r \in 0..Len(t) /\ (p = 0 => r = 0)
    BY <1>1, <1>2
<1>4. ASSUME NEW i \in 1..Len(t), NEW j \in 1..Len(t), i # r, j # r, t[i] = t[j]
      PROVE  i = j
  <2>1. t[i] = s[k + i] /\ t[j] = s[k + j] /\ k + i \in 1..Len(s) /\ k + j \in 1..Len(s)
      BY <1>1, <1>2, <1>4
  <2>2. k + i # p /\ k + j # p
      BY <1>1, <1>2, <1>4
  <2>3. k + i = k + j
      BY <1>4, <2>1, <2>2 DEF OnceBut
  <2> QED
      BY <1>1, <1>2, <2>3
<1>5. OnceBut(t, r)
    BY <1>4 DEF OnceBut
<1> QED
    BY <1>2, <1>3, <1>5 DEF t

(* Some account to the front.                                              *)
Fronted(s, a) == <<a>> \o RemoveFirst(s, a)

LEMMA FrontedIs ==
    ASSUME NEW a \in Accounts, NEW t \in Seq(Accounts)
    PROVE  /\ <<a>> \o t \in Seq(Accounts) /\ Len(<<a>> \o t) = Len(t) + 1
           /\ (<<a>> \o t)[1] = a
           /\ \A i \in 2..(Len(t) + 1) : (<<a>> \o t)[i] = t[i - 1]
<1>1. <<a>> \in Seq(Accounts) /\ Len(<<a>>) = 1 /\ <<a>>[1] = a /\ Len(t) \in Nat
    BY LenProperties
<1>2. <<a>> \o t \in Seq(Accounts) /\ Len(<<a>> \o t) = 1 + Len(t)
      /\ \A i \in 1..(1 + Len(t)) : (<<a>> \o t)[i] = IF i <= 1 THEN <<a>>[i] ELSE t[i - 1]
    BY <1>1, ConcatProperties
<1> QED
    BY <1>1, <1>2

LEMMA ToFront ==
    ASSUME NEW s \in Seq(Accounts), NEW p \in 0..Len(s), OnceBut(s, p), NEW a \in Accounts
    PROVE  /\ Fronted(s, a) \in Seq(Accounts)
           /\ \E r \in 0..Len(Fronted(s, a)) : OnceBut(Fronted(s, a), r) /\ (p = 0 => r = 0)
<1> DEFINE t == RemoveFirst(s, a)
           q == <<a>> \o t
<1>1. Len(s) \in Nat /\ p \in Nat
    BY LenProperties
<1>2. CASE (\A i \in 1..Len(s) : s[i] # a) /\ t = s
  <2>1. q \in Seq(Accounts) /\ Len(q) = Len(s) + 1 /\ q[1] = a
        /\ \A i \in 2..(Len(s) + 1) : q[i] = s[i - 1]
      BY <1>2, FrontedIs
  <2> HIDE DEF q, t
  <2> DEFINE r == IF p = 0 THEN 0 ELSE p + 1
  <2>2. r \in 0..Len(q) /\ (p = 0 => r = 0)
      BY <1>1, <2>1
  <2>3. ASSUME NEW i \in 1..Len(q), NEW j \in 1..Len(q), i # r, j # r, q[i] = q[j]
        PROVE  i = j
    <3>1. CASE i = 1 /\ j = 1
        BY <3>1
    <3>2. CASE i = 1 /\ j # 1
      <4>1. j - 1 \in 1..Len(s) /\ q[j] = s[j - 1]
          BY <1>1, <2>1, <3>2
      <4> QED
          BY <1>2, <2>1, <2>3, <3>2, <4>1
    <3>3. CASE i # 1 /\ j = 1
      <4>1. i - 1 \in 1..Len(s) /\ q[i] = s[i - 1]
          BY <1>1, <2>1, <3>3
      <4> QED
          BY <1>2, <2>1, <2>3, <3>3, <4>1
    <3>4. CASE i # 1 /\ j # 1
      <4>1. i - 1 \in 1..Len(s) /\ q[i] = s[i - 1] /\ j - 1 \in 1..Len(s) /\ q[j] = s[j - 1]
          BY <1>1, <2>1, <3>4
      <4>2. i - 1 # p /\ j - 1 # p
          BY <1>1, <2>1, <2>3, <3>4, <4>1
      <4>3. i - 1 = j - 1
          BY <2>3, <4>1, <4>2 DEF OnceBut
      <4> QED
          BY <1>1, <2>1, <4>3
    <3> QED
        BY <3>1, <3>2, <3>3, <3>4
  <2>4. OnceBut(q, r)
      BY <2>3 DEF OnceBut
  <2> QED
      BY <2>1, <2>2, <2>4 DEF Fronted, q, t
<1>3. ASSUME NEW k \in 1..Len(s), s[k] = a, t \in Seq(Accounts), Without(s, k, t)
      PROVE  /\ q \in Seq(Accounts)
             /\ \E r \in 0..Len(q) : OnceBut(q, r) /\ (p = 0 => r = 0)
  <2>1. q \in Seq(Accounts) /\ Len(q) = Len(t) + 1 /\ q[1] = a
        /\ \A i \in 2..(Len(t) + 1) : q[i] = t[i - 1]
      BY <1>3, FrontedIs
  <2>2. Len(q) = Len(s) /\ Len(t) = Len(s) - 1
      BY <1>1, <1>3, <2>1 DEF Without
  <2> HIDE DEF q
  <2> DEFINE Old(i) == IF i = 1 THEN k ELSE IF i <= k THEN i - 1 ELSE i
             r == IF p = 0 THEN 0 ELSE IF p = k THEN 1 ELSE IF p < k THEN p + 1 ELSE p
  <2>3. ASSUME NEW i \in 1..Len(q) PROVE Old(i) \in 1..Len(s) /\ q[i] = s[Old(i)]
    <3>1. CASE i = 1
        BY <1>1, <1>3, <2>1, <2>2, <3>1
    <3>2. CASE i # 1
      <4>1. i - 1 \in 1..Len(t) /\ q[i] = t[i - 1]
          BY <1>1, <2>1, <2>2, <3>2
      <4>2. t[i - 1] = IF i - 1 < k THEN s[i - 1] ELSE s[i - 1 + 1]
          BY <1>3, <4>1 DEF Without
      <4>3. i - 1 + 1 = i /\ (i - 1 < k <=> i <= k)
          BY <1>1, <2>2
      <4> QED
          BY <1>1, <2>2, <3>2, <4>1, <4>2, <4>3
    <3> QED
        BY <3>1, <3>2
  <2>4. r \in 0..Len(q) /\ (p = 0 => r = 0)
      BY <1>1, <2>2
  <2>5. \A i \in 1..Len(q) : i # r => Old(i) # p
      BY <1>1, <2>2
  <2>6. \A i, j \in 1..Len(q) : Old(i) = Old(j) => i = j
      BY <1>1, <2>2
  <2> HIDE DEF Old, r
  <2>7. OnceBut(q, r)
      BY <2>3, <2>5, <2>6 DEF OnceBut
  <2> QED
      BY <2>1, <2>4, <2>7
<1> QED
    BY <1>2, <1>3, RemoveFirstIs DEF Fronted


(* The queue of FillQueue: the default account at its end, then others.    *)
LEMMA Filled ==
    ASSUME NEW s \in Seq(Accounts), OnceBut(s, 0),
           NEW d, NEW q, q = s \/ (d \in Accounts /\ q = Append(s, d)),
           NEW n \in Nat, NEW D \in SUBSET Accounts, D \cap Range(q) = {},
           NEW more \in [1..n -> D], \A i, j \in 1..n : more[i] = more[j] => i = j
    PROVE  /\ q \o more \in Seq(Accounts)
           /\ \E p \in 0..Len(q \o more) : OnceBut(q \o more, p)
<1>1. Len(s) \in Nat /\ \A i \in 1..Len(s) : s[i] \in Accounts
    BY LenProperties, ElementOfSeq
<1>2. PICK p \in 0..Len(q) :
        /\ q \in Seq(Accounts) /\ Len(q) \in Nat
        /\ \A i \in 1..Len(q) : i # p => i \in 1..Len(s) /\ q[i] = s[i]
  <2>1. CASE q = s
      BY <1>1, <2>1
  <2>2. CASE d \in Accounts /\ q = Append(s, d)
    <3>1. q \in Seq(Accounts) /\ Len(q) = Len(s) + 1 /\ \A i \in 1..Len(s) : q[i] = s[i]
        BY <2>2, AppendProperties
    <3>2. Len(s) + 1 \in 0..Len(q) /\ \A i \in 1..Len(q) : i # Len(s) + 1 => i \in 1..Len(s)
        BY <1>1, <3>1
    <3>3. \A i \in 1..Len(q) : i # Len(s) + 1 => i \in 1..Len(s) /\ q[i] = s[i]
        BY <3>1, <3>2
    <3>4. Len(q) \in Nat
        BY <1>1, <3>1
    <3> QED
        BY <3>1, <3>2, <3>3, <3>4
  <2> QED
      BY <2>1, <2>2
<1>3. more \in Seq(Accounts) /\ Len(more) = n /\ \A i \in 1..n : more[i] \in D
  <2>1. more \in [1..n -> Accounts] /\ \A i \in 1..n : more[i] \in D
      OBVIOUS
  <2> QED
      BY <2>1, IsASeq, LenProperties
<1> DEFINE t == q \o more
<1>4. t \in Seq(Accounts) /\ Len(t) = Len(q) + n
      /\ \A i \in 1..(Len(q) + n) : t[i] = IF i <= Len(q) THEN q[i] ELSE more[i - Len(q)]
  <2>1. t \in Seq(Accounts) /\ Len(t) = Len(q) + Len(more)
        /\ \A i \in 1..(Len(q) + Len(more)) :
             t[i] = IF i <= Len(q) THEN q[i] ELSE more[i - Len(q)]
    <3>1. q \in Seq(Accounts) /\ more \in Seq(Accounts)
        BY <1>2, <1>3
    <3> QED
        BY <3>1, ConcatProperties
  <2> HIDE DEF t
  <2> QED
      BY <1>3, <2>1
<1>5. \A i \in 1..Len(q) : q[i] \notin D
    BY <1>2 DEF Range
<1> HIDE DEF t
<1>6. ASSUME NEW i \in 1..Len(t), NEW j \in 1..Len(t), i # p, j # p, t[i] = t[j]
      PROVE  i = j
  <2>1. CASE i <= Len(q) /\ j <= Len(q)
    <3>1. i \in 1..Len(s) /\ j \in 1..Len(s) /\ t[i] = s[i] /\ t[j] = s[j]
        BY <1>2, <1>4, <1>6, <2>1
    <3>2. i # 0 /\ j # 0
        BY <1>1, <3>1
    <3> QED
        BY <1>6, <3>1, <3>2 DEF OnceBut
  <2>2. CASE ~(i <= Len(q)) /\ ~(j <= Len(q))
    <3>1. i - Len(q) \in 1..n /\ j - Len(q) \in 1..n
        BY <1>2, <1>4, <2>2
    <3>2. i - Len(q) = j - Len(q)
        BY <1>4, <1>6, <2>2, <3>1
    <3> QED
        BY <1>2, <1>4, <3>2
  <2>3. CASE i <= Len(q) /\ ~(j <= Len(q))
    <3>1. i \in 1..Len(q) /\ t[i] = q[i] /\ j - Len(q) \in 1..n /\ t[j] = more[j - Len(q)]
        BY <1>2, <1>4, <2>3
    <3> QED
        BY <1>3, <1>5, <1>6, <3>1
  <2>4. CASE ~(i <= Len(q)) /\ j <= Len(q)
    <3>1. j \in 1..Len(q) /\ t[j] = q[j] /\ i - Len(q) \in 1..n /\ t[i] = more[i - Len(q)]
        BY <1>2, <1>4, <2>4
    <3> QED
        BY <1>3, <1>5, <1>6, <3>1
  <2> QED
      BY <2>1, <2>2, <2>3, <2>4
<1>7. OnceBut(t, p)
    BY <1>6 DEF OnceBut
<1>8. p \in 0..Len(t)
  <2>1. Len(t) = Len(q) + n
      BY <1>4
  <2> QED
      BY <1>2, <2>1
<1> QED
    BY <1>4, <1>7, <1>8 DEF t

-----------------------------------------------------------------------------
(* The rows of the list.                                                   *)

LEMMA RowGone ==
    ASSUME NEW s \in Seq(Accounts), IsInjective(s), NEW a \in Range(s)
    PROVE  /\ RemoveFirst(s, a) \in Seq(Accounts) /\ IsInjective(RemoveFirst(s, a))
           /\ Range(RemoveFirst(s, a)) = Range(s) \ {a}
<1> DEFINE t == RemoveFirst(s, a)
<1>1. Len(s) \in Nat /\ DOMAIN s = 1..Len(s) /\ \E i \in 1..Len(s) : s[i] = a
    BY LenProperties DEF Range
<1>2. PICK k \in 1..Len(s) : s[k] = a /\ t \in Seq(Accounts) /\ Without(s, k, t)
    BY <1>1, RemoveFirstIs
<1> HIDE DEF t
<1>3. DOMAIN t = 1..Len(t) /\ Len(t) = Len(s) - 1
    BY <1>2, LenProperties DEF Without
<1> DEFINE Old(i) == IF i < k THEN i ELSE i + 1
<1>4. \A i \in 1..Len(t) : Old(i) \in 1..Len(s) /\ Old(i) # k /\ t[i] = s[Old(i)]
    BY <1>1, <1>2, <1>3 DEF Without
<1>5. \A i, j \in 1..Len(t) : Old(i) = Old(j) => i = j
    BY <1>1, <1>3
<1>6. \A j \in 1..Len(s) : j # k => \E i \in 1..Len(t) : Old(i) = j
  <2> TAKE j \in 1..Len(s)
  <2> HAVE j # k
  <2>1. CASE j < k
    <3>1. j \in 1..Len(t) /\ Old(j) = j
        BY <1>1, <1>3, <2>1
    <3> QED
        BY <3>1
  <2>2. CASE ~(j < k)
    <3>1. j - 1 \in 1..Len(t) /\ Old(j - 1) = j
        BY <1>1, <1>3, <2>2
    <3> QED
        BY <3>1
  <2> QED
      BY <2>1, <2>2
<1> HIDE DEF Old
<1>7. IsInjective(t)
  <2> SUFFICES ASSUME NEW i \in 1..Len(t), NEW j \in 1..Len(t), t[i] = t[j] PROVE i = j
      BY <1>3 DEF IsInjective
  <2>1. Old(i) = Old(j)
      BY <1>1, <1>4 DEF IsInjective
  <2> QED
      BY <1>5, <2>1
<1>8. \A i \in 1..Len(s) : i # k => s[i] # a
    BY <1>1, <1>2 DEF IsInjective
<1>9. Range(t) = Range(s) \ {a}
  <2>1. ASSUME NEW b \in Range(t) PROVE b \in Range(s) \ {a}
      BY <1>1, <1>3, <1>4, <1>8, <2>1 DEF Range
  <2>2. ASSUME NEW b \in Range(s), b # a PROVE b \in Range(t)
    <3>1. PICK j \in 1..Len(s) : s[j] = b
        BY <1>1, <2>2 DEF Range
    <3>2. PICK i \in 1..Len(t) : Old(i) = j
        BY <1>2, <1>6, <2>2, <3>1
    <3> QED
        BY <1>3, <1>4, <3>1, <3>2 DEF Range
  <2> QED
      BY <2>1, <2>2
<1> QED
    BY <1>2, <1>7, <1>9 DEF t

LEMMA RowAdded ==
    ASSUME NEW s \in Seq(Accounts), IsInjective(s), NEW a \in Accounts, a \notin Range(s)
    PROVE  /\ Append(s, a) \in Seq(Accounts) /\ IsInjective(Append(s, a))
           /\ Range(Append(s, a)) = Range(s) \cup {a}
<1> DEFINE t == Append(s, a)
<1>1. Len(s) \in Nat /\ DOMAIN s = 1..Len(s) /\ \A i \in 1..Len(s) : s[i] # a
    BY LenProperties DEF Range
<1>2. t \in Seq(Accounts) /\ Len(t) = Len(s) + 1 /\ t[Len(s) + 1] = a
      /\ \A i \in 1..Len(s) : t[i] = s[i]
    BY AppendProperties
<1> HIDE DEF t
<1>3. DOMAIN t = 1..(Len(s) + 1)
    BY <1>2, LenProperties
<1>4. 1..(Len(s) + 1) = (1..Len(s)) \cup {Len(s) + 1}
    BY <1>1
<1>5. IsInjective(t)
    BY <1>1, <1>2, <1>3, <1>4 DEF IsInjective
<1>6. Range(t) = Range(s) \cup {a}
    BY <1>1, <1>2, <1>3, <1>4 DEF Range
<1> QED
    BY <1>2, <1>5, <1>6 DEF t

LEMMA RowReplaced ==
    ASSUME NEW s \in Seq(Accounts), IsInjective(s), NEW a \in Accounts, a \notin Range(s),
           NEW k \in 1..Len(s)
    PROVE  /\ [s EXCEPT ![k] = a] \in Seq(Accounts) /\ IsInjective([s EXCEPT ![k] = a])
           /\ Range([s EXCEPT ![k] = a]) = (Range(s) \ {s[k]}) \cup {a}
<1> DEFINE t == [s EXCEPT ![k] = a]
<1>1. Len(s) \in Nat /\ DOMAIN s = 1..Len(s) /\ \A i \in 1..Len(s) : s[i] # a
    BY LenProperties DEF Range
<1>2. t \in Seq(Accounts)
    BY ExceptSeq
<1>3. DOMAIN t = 1..Len(s) /\ t[k] = a /\ \A i \in 1..Len(s) : i # k => t[i] = s[i]
    BY <1>1
<1> HIDE DEF t
<1>4. IsInjective(t)
    BY <1>1, <1>3 DEF IsInjective
<1>5. \A i \in 1..Len(s) : i # k => s[i] # s[k]
    BY <1>1 DEF IsInjective
<1>6. Range(t) = (Range(s) \ {s[k]}) \cup {a}
    BY <1>1, <1>3, <1>5 DEF Range
<1> QED
    BY <1>2, <1>4, <1>6 DEF t


-----------------------------------------------------------------------------
(* The inductive invariant.                                                *)

RowsOK == rows \in Seq(Accounts) /\ IsInjective(rows) /\ default \in Range(rows) \cup {None}

Datum  == [state : States, validity : Validities, stale : BOOLEAN, uses : Nat]
DataOK == acct \in [Accounts -> Datum]

FlowKinds == [st : {"none", "created", "running"}, step : Nat, heard : BOOLEAN]
FlowsOK   == flow \in [Accounts -> FlowKinds] /\ \A a \in Accounts : flow[a].step <= Len(Steps[a])

(* An account is queued once, but for the default that FillQueue put at    *)
(* the end; the list is filled when no account is queued twice.            *)
Waiting(q, armed) ==
    /\ q \in Seq(Accounts)
    /\ \E p \in 0..Len(q) : OnceBut(q, p) /\ (armed \cap {"boot", "refresh"} # {} => p = 0)
QueueOK == Waiting(queue, timers) /\ timers \subseteq {"boot", "refresh", "next"}

TaskOK ==
    /\ task \in [of : Accounts \cup {None}, fate : {"live", "aborted", "silent"}]
    /\ activity \in Nat /\ cut \in BOOLEAN

Logins  == [pc : {"off", "check", "wait", "claim"}, of : Accounts \cup {None},
            online : BOOLEAN, tries : 0..3]
LoginOK == login \in Logins /\ (login.pc # "off" => login.of \in Accounts)

BoundsOK == acts \in 0..MaxActs /\ launches \in 0..MaxLaunches /\ lost \in Nat

(* Until the list is started there are no refreshes and no logins.         *)
BootFirst ==
    "boot" \in timers => /\ timers = {"boot"} /\ queue = <<>> /\ login.pc = "off"
                         /\ \A a \in Accounts : ~Active(a)

(* An account that has not been added is not used by anyone.               *)
Fresh ==
    \A a \in Accounts : acct[a].state = "Unchecked" /\ a \notin Range(Loaded)
                          => ~InList(a) /\ ~Active(a) /\ login.of # a

(* Every game, and the login, is a launch.                                 *)
UsesOK ==
    \A a \in Accounts : acct[a].uses + (IF login.pc = "off" THEN 0 ELSE 1) <= launches

IInv ==
    /\ RowsOK /\ DataOK /\ FlowsOK /\ QueueOK /\ TaskOK /\ LoginOK /\ BoundsOK
    /\ BootFirst /\ Fresh /\ UsesOK /\ ActivityCounted /\ ListAlive

LEMMA IsListOK == IInv => ListOK
<1> SUFFICES ASSUME IInv PROVE ListOK
    OBVIOUS
<1> USE DEF IInv
<1>1. Len(queue) <= Cardinality(Accounts) + 1
    BY OnceButLength DEF QueueOK, Waiting
<1>2. acct \in [Accounts -> [state : States, validity : Validities,
                             stale : BOOLEAN, uses : 0..MaxLaunches]]
  <2>1. ASSUME NEW a \in Accounts
        PROVE  acct[a] \in [state : States, validity : Validities,
                            stale : BOOLEAN, uses : 0..MaxLaunches]
    <3>1. acct[a] \in Datum /\ acct[a].uses \in Nat /\ launches \in 0..MaxLaunches /\ MaxLaunches \in Nat
        BY AccountsAssumption DEF DataOK, Datum, BoundsOK
    <3>2. acct[a].uses + (IF login.pc = "off" THEN 0 ELSE 1) <= launches
        BY DEF UsesOK
    <3>3. acct[a].uses \in 0..MaxLaunches
        BY <3>1, <3>2
    <3> QED
        BY <3>1, <3>3 DEF Datum
  <2> QED
      BY <2>1 DEF DataOK
<1>3. TypeOK
    BY <1>1, <1>2 DEF TypeOK, RowsOK, FlowsOK, FlowKinds, QueueOK, Waiting, TaskOK, LoginOK,
                      Logins, BoundsOK
<1> QED
    BY <1>3 DEF ListOK

-----------------------------------------------------------------------------
(* Counting the active rows.                                               *)

Busy == {a \in Range(rows) : Active(a)}

LEMMA RowsFinite ==
    ASSUME RowsOK
    PROVE  /\ Range(rows) \in SUBSET Accounts
           /\ IsFiniteSet(Busy) /\ Cardinality(Busy) \in Nat
<1>1. Range(rows) \in SUBSET Accounts
  <2>1. DOMAIN rows = 1..Len(rows) /\ \A i \in 1..Len(rows) : rows[i] \in Accounts
      BY LenProperties, ElementOfSeq DEF RowsOK
  <2> QED
      BY <2>1 DEF Range
<1>2. Busy \in SUBSET Accounts
    BY <1>1 DEF Busy
<1>3. IsFiniteSet(Busy)
    BY <1>2, AccountsAssumption, FS_Subset
<1> QED
    BY <1>1, <1>3, FS_CardinalityType

(* Nothing that counts has changed.                                        *)
LEMMA CountKept ==
    ASSUME RowsOK, ActivityCounted, Busy' = Busy, UNCHANGED <<activity, lost>>
    PROVE  ActivityCounted'
BY DEF ActivityCounted, Busy

(* One more account of the list is active.                                 *)
LEMMA CountUp ==
    ASSUME RowsOK, BoundsOK, ActivityCounted, NEW a, a \notin Busy, Busy' = Busy \cup {a},
           activity' = activity + 1, lost' = lost
    PROVE  ActivityCounted'
<1>1. Cardinality(Busy') = Cardinality(Busy) + 1
    BY RowsFinite, FS_AddElement
<1>2. activity = lost + Cardinality(Busy) /\ Cardinality(Busy) \in Nat /\ lost \in Nat
    BY RowsFinite DEF ActivityCounted, Busy, BoundsOK
<1>3. activity' = lost' + Cardinality(Busy')
    BY <1>1, <1>2
<1> QED
    BY <1>3 DEF ActivityCounted, Busy

(* One less is, or an active one has left the list.                        *)
LEMMA CountDown ==
    ASSUME RowsOK, BoundsOK, TaskOK, ActivityCounted, NEW a, Busy' = Busy \ {a},
           \/ a \in Busy /\ lost' = lost /\ activity' = IF activity > 0 THEN activity - 1
                                                                       ELSE activity
           \/ activity' = activity /\ lost' = lost + IF a \in Busy THEN 1 ELSE 0
    PROVE  ActivityCounted'
<1>1. Cardinality(Busy') = IF a \in Busy THEN Cardinality(Busy) - 1 ELSE Cardinality(Busy)
    BY RowsFinite, FS_RemoveElement
<1>2. /\ activity = lost + Cardinality(Busy) /\ Cardinality(Busy) \in Nat /\ lost \in Nat
      /\ a \in Busy => Cardinality(Busy) # 0
  <2>1. a \in Busy => Cardinality(Busy) # 0
      BY RowsFinite, FS_EmptySet
  <2> QED
      BY <2>1, RowsFinite DEF ActivityCounted, Busy, BoundsOK
<1>3. activity' = lost' + Cardinality(Busy')
  <2> DEFINE n == Cardinality(Busy)
             m == Cardinality(Busy')
             in == a \in Busy
  <2>1. n \in Nat /\ lost \in Nat /\ activity = lost + n /\ (in => n # 0)
        /\ m = IF in THEN n - 1 ELSE n
      BY <1>1, <1>2
  <2>2. \/ in /\ lost' = lost /\ activity' = IF activity > 0 THEN activity - 1 ELSE activity
        \/ activity' = activity /\ lost' = lost + IF in THEN 1 ELSE 0
      OBVIOUS
  <2> HIDE DEF n, m, in
  <2>3. activity' = lost' + m
    <3>1. CASE in
        BY <2>1, <2>2, <3>1
    <3>2. CASE ~in
        BY <2>1, <2>2, <3>2
    <3> QED
        BY <3>1, <3>2
  <2> QED
      BY <2>3 DEF m
<1> QED
    BY <1>3 DEF ActivityCounted, Busy


-----------------------------------------------------------------------------
(* The refreshes.                                                          *)

(* The flow of a is running, and the list listens to it.                   *)
Begun(a) ==
    /\ task' = [of |-> a, fate |-> "live"]
    /\ activity' = IF Active(a) THEN activity ELSE activity + 1
    /\ \E f \in FlowKinds : /\ f.st = "running" /\ f.heard /\ f.step <= Len(Steps[a])
                            /\ flow' = [flow EXCEPT ![a] = f]
    /\ \/ Active(a) /\ acct' = acct
       \/ acct' = [acct EXCEPT ![a].state = "Working"]

LEMMA TryNextDoes ==
    ASSUME IInv, NEW q \in Seq(Accounts), NEW p \in 0..Len(q), OnceBut(q, p),
           NEW armed \in SUBSET {"refresh", "next"}, "refresh" \in armed => p = 0,
           TryNext(q, armed)
    PROVE  /\ Waiting(queue', timers') /\ timers' \in SUBSET {"refresh", "next"}
           /\ cut' = FALSE
           /\ \/ timers' # {} /\ UNCHANGED <<flow, acct, activity, task>>
              \/ \E a \in Range(rows) : Begun(a)
<1> DEFINE I == {i \in 1..Len(q) : InList(q[i])}
           k == IF I # {} THEN Min(I) ELSE 0
<1>1. SelectInSeq(q, InList) = k
    BY DEF SelectInSeq
<1>2. Len(q) \in Nat /\ k \in 0..Len(q) /\ (k # 0 => k \in I)
  <2>1. Len(q) \in Nat /\ I \in SUBSET (1..Len(q))
      BY LenProperties
  <2> HIDE DEF I
  <2> QED
      BY <2>1, FirstOf
<1>3. k # 0 => k \in 1..Len(q) /\ InList(q[k])
    BY <1>2
<1> HIDE DEF k, I
<1>4. cut' = FALSE
    BY DEF TryNext
<1>5. CASE k = 0
  <2>1. queue' = <<>> /\ timers' = armed \cup {"refresh"} /\ UNCHANGED <<flow, acct, activity, task>>
      BY <1>1, <1>5 DEF TryNext
  <2>2. Waiting(<<>>, timers')
    <3>1. <<>> \in Seq(Accounts) /\ Len(<<>>) = 0
        BY EmptySeq
    <3>2. OnceBut(<<>>, 0)
        BY <3>1 DEF OnceBut
    <3> QED
        BY <3>1, <3>2 DEF Waiting
  <2> QED
      BY <1>4, <2>1, <2>2
<1>6. CASE k # 0
  <2> DEFINE a == q[k]
  <2>1. /\ queue' = SubSeq(q, k + 1, Len(q)) /\ timers' = armed
        /\ task' = [of |-> a, fate |-> "live"]
        /\ activity' = IF Active(a) THEN activity ELSE activity + 1
        /\ IF flow[a].st = "running"
           THEN flow' = [flow EXCEPT ![a].heard = TRUE] /\ UNCHANGED acct
           ELSE /\ flow' = [flow EXCEPT ![a] = [st |-> "running", step |-> 1, heard |-> TRUE]]
                /\ acct' = [acct EXCEPT ![a].state = "Working"]
      BY <1>1, <1>6 DEF TryNext
  <2>2. a \in Range(rows) /\ a \in Accounts
      BY <1>3, <1>6, RowsFinite DEF InList, IInv
  <2> HIDE DEF a
  <2>3. Waiting(queue', timers')
    <3>1. PICK r \in 0..Len(SubSeq(q, k + 1, Len(q))) :
            /\ SubSeq(q, k + 1, Len(q)) \in Seq(Accounts)
            /\ OnceBut(SubSeq(q, k + 1, Len(q)), r) /\ (p = 0 => r = 0)
        BY <1>2, Rest
    <3> QED
        BY <2>1, <3>1 DEF Waiting
  <2>4. \E f \in FlowKinds : /\ f.st = "running" /\ f.heard /\ f.step <= Len(Steps[a])
                             /\ flow' = [flow EXCEPT ![a] = f]
    <3>1. flow[a] \in FlowKinds /\ flow[a].step <= Len(Steps[a]) /\ 1 <= Len(Steps[a])
      <4>1. Steps[a] \in Seq({"msa", "service", "always"}) /\ Steps[a] # <<>>
          BY <2>2, AccountsAssumption
      <4>2. Len(Steps[a]) \in Nat /\ Len(Steps[a]) # 0
          BY <4>1, EmptySeq, LenProperties
      <4> QED
          BY <2>2, <4>2 DEF IInv, FlowsOK
    <3>2. CASE flow[a].st = "running"
      <4> DEFINE f == [flow[a] EXCEPT !.heard = TRUE]
      <4>1. f \in FlowKinds /\ f.st = "running" /\ f.heard /\ f.step = flow[a].step
          BY <3>1, <3>2 DEF FlowKinds
      <4>2. flow' = [flow EXCEPT ![a] = f]
          BY <2>1, <3>2
      <4> QED
          BY <3>1, <4>1, <4>2
    <3>3. CASE flow[a].st # "running"
      <4> DEFINE f == [st |-> "running", step |-> 1, heard |-> TRUE]
      <4>1. f \in FlowKinds /\ f.st = "running" /\ f.heard /\ f.step = 1
          BY DEF FlowKinds
      <4>2. flow' = [flow EXCEPT ![a] = f]
          BY <2>1, <3>3
      <4> HIDE DEF f
      <4> QED
          BY <3>1, <4>1, <4>2
    <3> QED
        BY <3>2, <3>3
  <2>5. (Active(a) /\ acct' = acct) \/ acct' = [acct EXCEPT ![a].state = "Working"]
      BY <2>1 DEF Active
  <2> QED
      BY <1>4, <2>1, <2>2, <2>3, <2>4, <2>5 DEF Begun
<1> QED
    BY <1>5, <1>6

(* What a step that starts refreshes keeps.                                *)
Kept ==
    /\ RowsOK' /\ DataOK' /\ FlowsOK' /\ QueueOK' /\ TaskOK'
    /\ "boot" \notin timers' /\ ActivityCounted' /\ ListAlive'
    /\ \A a \in Accounts :
         /\ acct'[a].uses = acct[a].uses
         /\ acct'[a].state = "Unchecked" /\ a \notin Range(Loaded)
              => acct[a].state = "Unchecked" /\ ~InList(a) /\ flow'[a].st = "none"

LEMMA TryNextKeeps ==
    ASSUME IInv, NEW q \in Seq(Accounts), NEW p \in 0..Len(q), OnceBut(q, p),
           NEW armed \in SUBSET {"refresh", "next"}, "refresh" \in armed => p = 0,
           TryNext(q, armed), UNCHANGED <<rows, default, lost>>
    PROVE  Kept
<1>1. /\ Waiting(queue', timers') /\ timers' \in SUBSET {"refresh", "next"}
      /\ cut' = FALSE
      /\ \/ timers' # {} /\ UNCHANGED <<flow, acct, activity, task>>
         \/ \E a \in Range(rows) : Begun(a)
    BY TryNextDoes
<1>2. RowsOK' /\ QueueOK' /\ "boot" \notin timers'
  <2>1. RowsOK'
      BY DEF IInv, RowsOK
  <2>2. QueueOK' /\ "boot" \notin timers'
      BY <1>1 DEF QueueOK
  <2> QED
      BY <2>1, <2>2
<1>3. CASE timers' # {} /\ UNCHANGED <<flow, acct, activity, task>>
  <2>1. DataOK' /\ FlowsOK' /\ TaskOK'
      BY <1>1, <1>3 DEF IInv, DataOK, FlowsOK, TaskOK
  <2>2. ActivityCounted'
    <3>1. Busy' = Busy
        BY <1>3 DEF Busy, Active
    <3> QED
        BY <1>3, <3>1, CountKept DEF IInv
  <2>3. ListAlive'
      BY <1>3 DEF ListAlive
  <2>4. \A a \in Accounts :
         /\ acct'[a].uses = acct[a].uses
         /\ acct'[a].state = "Unchecked" /\ a \notin Range(Loaded)
              => acct[a].state = "Unchecked" /\ ~InList(a) /\ flow'[a].st = "none"
      BY <1>3 DEF IInv, Fresh, Active
  <2> QED
      BY <1>2, <2>1, <2>2, <2>3, <2>4 DEF Kept
<1>4. ASSUME NEW a \in Range(rows), Begun(a) PROVE Kept
  <2>1. a \in Accounts
      BY RowsFinite DEF IInv
  <2>2. PICK f \in FlowKinds : /\ f.st = "running" /\ f.heard /\ f.step <= Len(Steps[a])
                               /\ flow' = [flow EXCEPT ![a] = f]
      BY <1>4 DEF Begun
  <2>3. FlowsOK' /\ flow'[a] = f /\ \A b \in Accounts : b # a => flow'[b] = flow[b]
      BY <2>1, <2>2 DEF IInv, FlowsOK
  <2>4. /\ DataOK' /\ ((Active(a) /\ acct'[a] = acct[a]) \/ acct'[a].state = "Working")
        /\ \A b \in Accounts : acct'[b].uses = acct[b].uses /\ (b # a => acct'[b] = acct[b])
    <3>1. CASE Active(a) /\ acct' = acct
        BY <3>1 DEF IInv, DataOK
    <3>2. CASE acct' = [acct EXCEPT ![a].state = "Working"]
      <4> DEFINE d == [acct[a] EXCEPT !.state = "Working"]
      <4>1. acct[a] \in Datum /\ acct \in [Accounts -> Datum]
          BY <2>1 DEF IInv, DataOK
      <4>2. d \in Datum /\ d.state = "Working" /\ d.uses = acct[a].uses
          BY <4>1 DEF Datum, States
      <4>3. acct' = [acct EXCEPT ![a] = d]
          BY <3>2
      <4> HIDE DEF d
      <4> QED
          BY <2>1, <4>1, <4>2, <4>3 DEF DataOK
    <3> QED
        BY <1>4, <3>1, <3>2 DEF Begun
  <2>5. TaskOK'
    <3>1. activity' \in Nat
        BY <1>4 DEF IInv, TaskOK, Begun
    <3>2. task' \in [of : Accounts \cup {None}, fate : {"live", "aborted", "silent"}]
        BY <1>4, <2>1 DEF Begun
    <3> QED
        BY <1>1, <3>1, <3>2 DEF TaskOK
  <2>6. ActivityCounted'
    <3>1. CASE Active(a)
      <4>1. Busy' = Busy
          BY <2>2, <2>3, <3>1, RowsFinite DEF Busy, Active, IInv
      <4>2. activity' = activity
          BY <1>4, <3>1 DEF Begun
      <4> QED
          BY <4>1, <4>2, CountKept DEF IInv
    <3>2. CASE ~Active(a)
      <4>1. a \notin Busy /\ Busy' = Busy \cup {a}
          BY <2>2, <2>3, <3>2, RowsFinite DEF Busy, Active, IInv
      <4>2. activity' = activity + 1
          BY <1>4, <3>2 DEF Begun
      <4> QED
          BY <4>1, <4>2, CountUp DEF IInv
    <3> QED
        BY <3>1, <3>2
  <2>7. ListAlive'
      BY <2>1, <2>2, <2>3 DEF ListAlive
  <2>8. ASSUME NEW b \in Accounts, acct'[b].state = "Unchecked", b \notin Range(Loaded)
        PROVE  acct[b].state = "Unchecked" /\ ~InList(b) /\ flow'[b].st = "none"
    <3>1. b # a
        BY <1>4, <2>1, <2>4, <2>8 DEF IInv, Fresh, InList
    <3> QED
        BY <2>3, <2>4, <2>8, <3>1 DEF IInv, Fresh, Active
  <2> QED
      BY <1>2, <2>3, <2>4, <2>5, <2>6, <2>7, <2>8 DEF Kept
<1> QED
    BY <1>1, <1>3, <1>4


LEMMA RequestKeeps ==
    ASSUME IInv, Booted, NEW a \in Accounts, RequestRefresh(a), UNCHANGED <<rows, default, lost>>
    PROVE  Kept
<1> DEFINE q == Fronted(queue, a)
<1>1. PICK p \in 0..Len(queue) :
        /\ queue \in Seq(Accounts) /\ OnceBut(queue, p)
        /\ timers \cap {"boot", "refresh"} # {} => p = 0
    BY DEF IInv, QueueOK, Waiting
<1>2. timers \in SUBSET {"refresh", "next"}
    BY DEF IInv, QueueOK, Booted
<1>3. PICK r \in 0..Len(q) : q \in Seq(Accounts) /\ OnceBut(q, r) /\ (p = 0 => r = 0)
    BY <1>1, ToFront
<1>4. "refresh" \in timers => r = 0
    BY <1>1, <1>3
<1>5. CASE activity = 0
  <2>1. TryNext(q, timers)
      BY <1>5 DEF RequestRefresh, Fronted
  <2> HIDE DEF q
  <2> QED
      BY <1>2, <1>3, <1>4, <2>1, TryNextKeeps
<1>6. CASE activity # 0
  <2>1. queue' = q /\ UNCHANGED <<flow, acct, activity, task, timers, cut>>
      BY <1>6 DEF RequestRefresh, Fronted
  <2> HIDE DEF q
  <2>2. QueueOK'
    <3>1. timers' \cap {"boot", "refresh"} # {} => r = 0
        BY <1>2, <1>4, <2>1
    <3> QED
        BY <1>2, <1>3, <2>1, <3>1 DEF QueueOK, Waiting
  <2>3. RowsOK' /\ DataOK' /\ FlowsOK' /\ TaskOK'
      BY <2>1 DEF IInv, RowsOK, DataOK, FlowsOK, TaskOK
  <2>4. ActivityCounted'
    <3>1. Busy' = Busy
        BY <2>1 DEF Busy, Active
    <3> QED
        BY <2>1, <3>1, CountKept DEF IInv
  <2>5. ListAlive'
      BY <2>1 DEF ListAlive, IInv
  <2>6. "boot" \notin timers'
      BY <1>2, <2>1
  <2>7. \A b \in Accounts :
         /\ acct'[b].uses = acct[b].uses
         /\ acct'[b].state = "Unchecked" /\ b \notin Range(Loaded)
              => acct[b].state = "Unchecked" /\ ~InList(b) /\ flow'[b].st = "none"
      BY <2>1 DEF IInv, Fresh, Active
  <2> QED
      BY <2>2, <2>3, <2>4, <2>5, <2>6, <2>7 DEF Kept
<1> QED
    BY <1>5, <1>6

(* With the same login and the same rows, the rest follows.                *)
LEMMA KeptIsEnough ==
    ASSUME IInv, Kept, UNCHANGED <<rows, login>>, BoundsOK', launches' = launches
    PROVE  IInv'
<1>1. RowsOK' /\ DataOK' /\ FlowsOK' /\ QueueOK' /\ TaskOK' /\ ActivityCounted' /\ ListAlive'
    BY DEF Kept
<1>2. LoginOK' /\ BootFirst'
    BY DEF IInv, LoginOK, BootFirst, Kept
<1>3. Fresh'
    BY DEF IInv, Fresh, Active, InList, Kept
<1>4. UsesOK'
    BY DEF IInv, UsesOK, Kept
<1> QED
    BY <1>1, <1>2, <1>3, <1>4 DEF IInv

LEMMA FillQueueStep ==
    ASSUME IInv, NEW timer \in {"boot", "refresh"}, FillQueue(timer) PROVE IInv'
<1> DEFINE q1 == IF default # None /\ ShouldRefresh(default) THEN Append(queue, default) ELSE queue
           due == {a \in Range(rows) : a # default /\ ShouldRefresh(a) /\ a \notin Range(q1)}
           Row(a) == CHOOSE i \in DOMAIN rows : rows[i] = a
<1>1. PICK more \in [1..Cardinality(due) -> due] :
        /\ \A i, j \in DOMAIN more : i < j => Row(more[i]) < Row(more[j])
        /\ TryNext(q1 \o more, timers \ {timer})
    BY DEF FillQueue
<1>2. timer \in timers /\ UNCHANGED <<rows, default, login, done, lost>>
    BY DEF FillQueue
<1>3. queue \in Seq(Accounts) /\ OnceBut(queue, 0)
  <2>1. timers \cap {"boot", "refresh"} # {}
      BY <1>2
  <2> QED
      BY <2>1 DEF IInv, QueueOK, Waiting
<1>4. timers \ {timer} \in SUBSET {"next"}
    BY <1>2 DEF IInv, QueueOK, BootFirst
<1>5. due \in SUBSET Accounts /\ Cardinality(due) \in Nat /\ due \cap Range(q1) = {}
  <2>1. due \in SUBSET Accounts
      BY RowsFinite DEF IInv
  <2>2. Cardinality(due) \in Nat
    <3> HIDE DEF due
    <3> QED
        BY <2>1, AccountsAssumption, FS_Subset, FS_CardinalityType
  <2> QED
      BY <2>1, <2>2
<1>6. q1 = queue \/ (default \in Accounts /\ q1 = Append(queue, default))
    BY RowsFinite DEF IInv, RowsOK
<1>7. \A i, j \in 1..Cardinality(due) : more[i] = more[j] => i = j
  <2>1. \A a \in due : Row(a) \in Nat
    <3> TAKE a \in due
    <3>1. DOMAIN rows = 1..Len(rows) /\ Len(rows) \in Nat
        BY LenProperties DEF IInv, RowsOK
    <3>2. \E i \in DOMAIN rows : rows[i] = a
        BY DEF Range
    <3>3. Row(a) \in DOMAIN rows
        BY <3>2
    <3> HIDE DEF Row
    <3> QED
        BY <3>1, <3>3
  <2> HIDE DEF Row, due
  <2>2. DOMAIN more = 1..Cardinality(due) /\ \A i \in 1..Cardinality(due) : more[i] \in due
      OBVIOUS
  <2>3. ASSUME NEW i \in 1..Cardinality(due), NEW j \in 1..Cardinality(due), more[i] = more[j]
        PROVE  ~(i < j)
    <3>1. Row(more[i]) \in Nat /\ Row(more[j]) = Row(more[i])
        BY <2>1, <2>2, <2>3
    <3>2. i < j => Row(more[i]) < Row(more[j])
        BY <1>1, <2>2
    <3> QED
        BY <3>1, <3>2
  <2>4. \A i, j \in 1..Cardinality(due) : ~(i < j) /\ ~(j < i) => i = j
      BY <1>5
  <2> QED
      BY <2>3, <2>4
<1> HIDE DEF Row, due, q1
<1>8. PICK p \in 0..Len(q1 \o more) : q1 \o more \in Seq(Accounts) /\ OnceBut(q1 \o more, p)
    BY <1>3, <1>5, <1>6, <1>7, Filled
<1>9. Kept
  <2>1. timers \ {timer} \in SUBSET {"refresh", "next"} /\ "refresh" \notin timers \ {timer}
      BY <1>4
  <2>2. UNCHANGED <<rows, default, lost>>
      BY <1>2
  <2> QED
      BY <1>1, <1>8, <2>1, <2>2, TryNextKeeps
<1>10. BoundsOK' /\ launches' = launches /\ UNCHANGED <<rows, login>>
    BY <1>2 DEF IInv, BoundsOK, done
<1> QED
    BY <1>9, <1>10, KeptIsEnough

LEMMA NextTimeoutStep ==
    ASSUME IInv, NextTimeout PROVE IInv'
<1>1. "next" \in timers /\ TryNext(queue, timers \ {"next"})
      /\ UNCHANGED <<rows, default, login, done, lost>>
    BY DEF NextTimeout
<1>2. PICK p \in 0..Len(queue) :
        /\ queue \in Seq(Accounts) /\ OnceBut(queue, p)
        /\ timers \cap {"boot", "refresh"} # {} => p = 0
    BY DEF IInv, QueueOK, Waiting
<1>3. timers \ {"next"} \in SUBSET {"refresh", "next"} /\ ("refresh" \in timers \ {"next"} => p = 0)
    BY <1>1, <1>2 DEF IInv, QueueOK, BootFirst
<1>4. Kept
    BY <1>1, <1>2, <1>3, TryNextKeeps
<1>5. BoundsOK' /\ launches' = launches /\ UNCHANGED <<rows, login>>
    BY <1>1 DEF IInv, BoundsOK, done
<1> QED
    BY <1>4, <1>5, KeptIsEnough

LEMMA RefreshClickedStep ==
    ASSUME IInv, NEW a \in Accounts, RefreshClicked(a) PROVE IInv'
<1>1. Booted /\ RequestRefresh(a) /\ UNCHANGED <<rows, default, login, lost>>
    BY DEF RefreshClicked, UserAct
<1>2. Kept
    BY <1>1, RequestKeeps
<1>3. acts < MaxActs /\ acts' = acts + 1 /\ UNCHANGED launches
    BY DEF RefreshClicked, UserAct
<1>4. BoundsOK'
    BY <1>1, <1>3, AccountsAssumption DEF IInv, BoundsOK
<1> QED
    BY <1>1, <1>2, <1>3, <1>4, KeptIsEnough

LEMMA StartLoginStep ==
    ASSUME IInv, NEW a \in Accounts, NEW online \in BOOLEAN, StartLogin(a, online) PROVE IInv'
<1>1. /\ login.pc = "off" /\ Booted /\ InList(a)
      /\ launches < MaxLaunches /\ launches' = launches + 1
      /\ login' = [pc |-> "check", of |-> a, online |-> online, tries |-> 0]
      /\ UNCHANGED <<rows, default, acts, lost>>
    BY DEF StartLogin
<1>2. Kept
  <2>1. CASE RequestRefresh(a)
      BY <1>1, <2>1, RequestKeeps
  <2>2. CASE UNCHANGED <<flow, acct, queue, timers, activity, task, cut>>
    <3>1. RowsOK' /\ DataOK' /\ FlowsOK' /\ QueueOK' /\ TaskOK'
        BY <1>1, <2>2 DEF IInv, RowsOK, DataOK, FlowsOK, QueueOK, TaskOK
    <3>2. ActivityCounted'
      <4>1. Busy' = Busy
          BY <1>1, <2>2 DEF Busy, Active
      <4> QED
          BY <1>1, <2>2, <4>1, CountKept DEF IInv
    <3>3. ListAlive' /\ "boot" \notin timers'
        BY <1>1, <2>2 DEF IInv, ListAlive, Booted
    <3>4. \A b \in Accounts :
         /\ acct'[b].uses = acct[b].uses
         /\ acct'[b].state = "Unchecked" /\ b \notin Range(Loaded)
              => acct[b].state = "Unchecked" /\ ~InList(b) /\ flow'[b].st = "none"
        BY <2>2 DEF IInv, Fresh, Active
    <3> QED
        BY <3>1, <3>2, <3>3, <3>4 DEF Kept
  <2> QED
      BY <2>1, <2>2 DEF StartLogin
<1>3. RowsOK' /\ DataOK' /\ FlowsOK' /\ QueueOK' /\ TaskOK' /\ ActivityCounted' /\ ListAlive'
      /\ BootFirst'
    BY <1>2 DEF Kept, BootFirst
<1>4. LoginOK'
    BY <1>1 DEF LoginOK, Logins
<1>5. BoundsOK'
    BY <1>1, AccountsAssumption DEF IInv, BoundsOK
<1>6. Fresh'
  <2> SUFFICES ASSUME NEW b \in Accounts, acct'[b].state = "Unchecked", b \notin Range(Loaded)
               PROVE  ~InList(b)' /\ ~Active(b)' /\ login'.of # b
      BY DEF Fresh
  <2>1. ~InList(b) /\ flow'[b].st = "none"
      BY <1>2 DEF Kept
  <2>2. b # a
      BY <1>1, <2>1
  <2> QED
      BY <1>1, <2>1, <2>2 DEF InList, Active
<1>7. UsesOK'
  <2> SUFFICES ASSUME NEW b \in Accounts PROVE acct'[b].uses + 1 <= launches'
      BY <1>1 DEF UsesOK
  <2>1. acct[b].uses + 0 <= launches /\ acct[b].uses \in Nat /\ launches \in Nat
      BY <1>1 DEF IInv, UsesOK, DataOK, Datum, BoundsOK
  <2>2. acct'[b].uses = acct[b].uses
      BY <1>2 DEF Kept
  <2> QED
      BY <1>1, <2>1, <2>2
<1> QED
    BY <1>3, <1>4, <1>5, <1>6, <1>7 DEF IInv


-----------------------------------------------------------------------------
(* The flows.                                                              *)

(* What happens to one account that is not new.                            *)
LEMMA OneAccount ==
    ASSUME IInv, NEW a \in Accounts, NEW d \in Datum, d.state # "Unchecked",
           acct' = [acct EXCEPT ![a] = d]
    PROVE  /\ DataOK'
           /\ \A b \in Accounts : acct'[b].state = "Unchecked" => b # a /\ acct'[b] = acct[b]
           /\ \A b \in Accounts : b # a => acct'[b].uses = acct[b].uses
           /\ acct'[a] = d
BY DEF IInv, DataOK

LEMMA OneFlow ==
    ASSUME IInv, NEW a \in Accounts, NEW f \in FlowKinds, f.step <= Len(Steps[a]),
           flow' = [flow EXCEPT ![a] = f]
    PROVE  FlowsOK' /\ flow'[a] = f /\ \A b \in Accounts : b # a => flow'[b] = flow[b]
BY DEF IInv, FlowsOK

LEMMA NoFlowIs ==
    ASSUME NEW a \in Accounts
    PROVE  NoFlow \in FlowKinds /\ NoFlow.st = "none" /\ ~NoFlow.heard /\ NoFlow.step <= Len(Steps[a])
<1>1. Len(Steps[a]) \in Nat
    BY AccountsAssumption, LenProperties
<1> QED
    BY <1>1 DEF NoFlow, FlowKinds

(* The rows that are active when a is not any more.                        *)
LEMMA BusyWithout ==
    ASSUME IInv, NEW a \in Accounts, flow'[a].st = "none", rows' = rows,
           \A b \in Accounts : b # a => flow'[b] = flow[b]
    PROVE  Busy' = Busy \ {a}
BY RowsFinite DEF IInv, Busy, Active

LEMMA BusySame ==
    ASSUME IInv, rows' = rows,
           \A b \in Accounts : (flow'[b].st # "none") <=> (flow[b].st # "none")
    PROVE  Busy' = Busy
BY RowsFinite DEF IInv, Busy, Active

LEMMA EndFlowStep ==
    ASSUME IInv, NEW a \in Accounts, flow[a].st = "running",
           NEW state \in States \ {"Unchecked"}, EndFlow(a, state)
    PROVE  IInv'
<1> DEFINE d == [acct[a] EXCEPT !.state = state,
                                !.stale = @ /\ state # "Online",
                                !.validity = CASE state = "Online"  -> "Certain"
                                               [] state = "Expired" -> "None"
                                               [] OTHER             -> @]
<1>1. /\ acct' = [acct EXCEPT ![a] = d]
      /\ flow' = [flow EXCEPT ![a] = NoFlow]
      /\ activity' = IF InList(a) /\ activity > 0 THEN activity - 1 ELSE activity
      /\ IF flow[a].heard THEN task' = NoTask /\ timers' = timers \cup {"next"}
                          ELSE UNCHANGED <<task, timers>>
      /\ login' = IF login.pc = "wait" /\ login.of = a THEN [login EXCEPT !.pc = "check"]
                                                       ELSE login
      /\ UNCHANGED <<rows, default, queue, acts, launches, lost, cut>>
  <2>1. acct' = [acct EXCEPT ![a] = d]
      BY DEF EndFlow
  <2> QED
      BY <2>1 DEF EndFlow, done
<1>2. d \in Datum /\ d.state = state /\ d.uses = acct[a].uses
  <2>1. acct[a] \in Datum
      BY DEF IInv, DataOK
  <2>2. acct[a].stale \in BOOLEAN /\ acct[a].validity \in Validities /\ acct[a].uses \in Nat
      BY <2>1 DEF Datum
  <2> DEFINE v == CASE state = "Online"  -> "Certain"
                    [] state = "Expired" -> "None"
                    [] OTHER             -> acct[a].validity
             stale == acct[a].stale /\ state # "Online"
  <2>3. v \in Validities
      BY <2>2 DEF Validities
  <2>4. stale \in BOOLEAN
      BY <2>2
  <2>5. d = [acct[a] EXCEPT !.state = state, !.stale = stale, !.validity = v]
      BY <2>1 DEF Datum
  <2> HIDE DEF v, stale, d
  <2> QED
      BY <2>1, <2>3, <2>4, <2>5 DEF Datum
<1> HIDE DEF d
<1>3. DataOK' /\ (\A b \in Accounts : acct'[b].state = "Unchecked" => b # a /\ acct'[b] = acct[b])
      /\ (\A b \in Accounts : acct'[b].uses = acct[b].uses)
  <2>1. d.state # "Unchecked" /\ acct' = [acct EXCEPT ![a] = d]
      BY <1>1, <1>2
  <2>2. /\ DataOK' /\ acct'[a] = d
        /\ \A b \in Accounts : acct'[b].state = "Unchecked" => b # a /\ acct'[b] = acct[b]
        /\ \A b \in Accounts : b # a => acct'[b].uses = acct[b].uses
      BY <1>2, <2>1, OneAccount
  <2> QED
      BY <1>2, <2>2
<1>4. FlowsOK' /\ flow'[a] = NoFlow /\ (\A b \in Accounts : b # a => flow'[b] = flow[b])
    BY <1>1, NoFlowIs, OneFlow
<1>5. RowsOK' /\ BoundsOK'
    BY <1>1 DEF IInv, RowsOK, BoundsOK
<1>6. timers' \subseteq timers \cup {"next"} /\ timers \subseteq timers'
    BY <1>1
<1>7. QueueOK'
  <2>1. timers' \cap {"boot", "refresh"} = timers \cap {"boot", "refresh"}
        /\ timers' \subseteq {"boot", "refresh", "next"}
      BY <1>6 DEF IInv, QueueOK
  <2> QED
      BY <1>1, <2>1 DEF IInv, QueueOK, Waiting
<1>8. TaskOK'
  <2>1. activity \in Nat /\ activity' \in Nat
      BY <1>1 DEF IInv, TaskOK
  <2>2. task' \in [of : Accounts \cup {None}, fate : {"live", "aborted", "silent"}]
      BY <1>1 DEF IInv, TaskOK, NoTask
  <2> QED
      BY <1>1, <2>1, <2>2 DEF IInv, TaskOK
<1>9. login' \in Logins /\ login'.of = login.of /\ (login.pc = "off" <=> login'.pc = "off")
    BY <1>1 DEF IInv, LoginOK, Logins
<1>10. LoginOK' /\ UsesOK'
    BY <1>1, <1>3, <1>9 DEF IInv, LoginOK, UsesOK
<1>11. BootFirst'
  <2>1. "boot" \notin timers
      BY DEF IInv, BootFirst, Active
  <2> QED
      BY <1>6, <2>1 DEF BootFirst
<1>12. Fresh'
    BY <1>1, <1>3, <1>4, <1>9, NoFlowIs DEF IInv, Fresh, InList, Active
<1>13. ActivityCounted'
  <2>1. Busy' = Busy \ {a}
      BY <1>1, <1>4, NoFlowIs, BusyWithout
  <2>2. a \in Busy <=> InList(a)
      BY DEF Busy, Active, InList
  <2>3. CASE InList(a)
    <3>1. activity' = IF activity > 0 THEN activity - 1 ELSE activity
        BY <1>1, <2>3
    <3> QED
        BY <1>1, <2>1, <2>2, <2>3, <3>1, CountDown DEF IInv
  <2>4. CASE ~InList(a)
    <3>1. Busy' = Busy /\ activity' = activity
        BY <1>1, <2>1, <2>2, <2>4
    <3> QED
        BY <1>1, <3>1, CountKept DEF IInv
  <2> QED
      BY <2>3, <2>4
<1>14. ListAlive'
  <2>1. CASE flow[a].heard
    <3>1. "next" \in timers'
        BY <1>1, <2>1
    <3> QED
        BY <3>1 DEF ListAlive
  <2>2. CASE ~flow[a].heard
      BY <1>1, <1>4, <2>2 DEF IInv, ListAlive
  <2> QED
      BY <2>1, <2>2
<1> QED
    BY <1>3, <1>4, <1>5, <1>7, <1>8, <1>10, <1>11, <1>12, <1>13, <1>14 DEF IInv

(* A flow goes on, or starts: an account that is working, as it was.       *)
LEMMA GoesOn ==
    ASSUME IInv, NEW a \in Accounts, Active(a),
           NEW f \in FlowKinds, f.st = "running", f.step <= Len(Steps[a]), f.heard = flow[a].heard,
           flow' = [flow EXCEPT ![a] = f],
           acct' = [acct EXCEPT ![a].state = "Working"],
           UNCHANGED <<list, login, done, lost, cut>>
    PROVE  IInv'
<1> DEFINE d == [acct[a] EXCEPT !.state = "Working"]
<1>1. UNCHANGED <<rows, default, queue, timers, activity, task, login, acts, launches, lost, cut>>
    BY DEF list, done
<1>2. d \in Datum /\ d.state = "Working" /\ d.uses = acct[a].uses
  <2>1. acct[a] \in Datum
      BY DEF IInv, DataOK
  <2> QED
      BY <2>1 DEF Datum, States
<1>3. acct' = [acct EXCEPT ![a] = d]
    OBVIOUS
<1> HIDE DEF d
<1>4. DataOK' /\ (\A b \in Accounts : acct'[b].state = "Unchecked" => b # a /\ acct'[b] = acct[b])
      /\ (\A b \in Accounts : acct'[b].uses = acct[b].uses)
  <2>1. /\ DataOK'
        /\ \A b \in Accounts : acct'[b].state = "Unchecked" => b # a /\ acct'[b] = acct[b]
        /\ \A b \in Accounts : b # a => acct'[b].uses = acct[b].uses
        /\ acct'[a] = d
    <3>1. d \in Datum /\ d.state # "Unchecked"
        BY <1>2
    <3> QED
        BY <1>3, <3>1, OneAccount
  <2> QED
      BY <1>2, <2>1
<1>5. FlowsOK' /\ flow'[a] = f /\ (\A b \in Accounts : b # a => flow'[b] = flow[b])
    BY OneFlow
<1>6. RowsOK' /\ BoundsOK' /\ QueueOK' /\ TaskOK' /\ LoginOK'
    BY <1>1 DEF IInv, RowsOK, BoundsOK, QueueOK, TaskOK, LoginOK
<1>7. UsesOK'
    BY <1>1, <1>4 DEF IInv, UsesOK
<1>8. BootFirst'
    BY <1>1 DEF IInv, BootFirst
<1>9. Fresh'
    BY <1>1, <1>4, <1>5 DEF IInv, Fresh, InList, Active
<1>10. ActivityCounted'
  <2>1. Busy' = Busy
      BY <1>1, <1>5, BusySame DEF Active
  <2> QED
      BY <1>1, <2>1, CountKept DEF IInv
<1>11. ListAlive'
    BY <1>1, <1>5 DEF IInv, ListAlive
<1> QED
    BY <1>4, <1>5, <1>6, <1>7, <1>8, <1>9, <1>10, <1>11 DEF IInv

LEMMA StepFinishedStep ==
    ASSUME IInv, NEW a \in Accounts, StepFinished(a) PROVE IInv'
<1>1. flow[a].st = "running"
    BY DEF StepFinished
<1>2. PICK outcome \in Outcomes(Steps[a][flow[a].step]) :
         CASE outcome # "Working" -> EndFlow(a, outcome)
           [] outcome = "Working" /\ flow[a].step = Len(Steps[a]) -> EndFlow(a, "Online")
           [] OTHER -> /\ flow' = [flow EXCEPT ![a].step = @ + 1]
                       /\ acct' = [acct EXCEPT ![a].state = "Working"]
                       /\ UNCHANGED <<list, login, done, lost, cut>>
    BY DEF StepFinished
<1>3. outcome \in States \ {"Unchecked"}
    BY DEF Outcomes, States
<1>4. CASE outcome # "Working"
  <2>1. EndFlow(a, outcome)
      BY <1>2, <1>4
  <2> QED
      BY <1>1, <1>3, <2>1, EndFlowStep
<1>5. CASE outcome = "Working" /\ flow[a].step = Len(Steps[a])
  <2>1. EndFlow(a, "Online")
      BY <1>2, <1>5
  <2>2. "Online" \in States \ {"Unchecked"}
      BY DEF States
  <2> QED
      BY <1>1, <2>1, <2>2, EndFlowStep
<1>6. CASE outcome = "Working" /\ flow[a].step # Len(Steps[a])
  <2> DEFINE f == [flow[a] EXCEPT !.step = @ + 1]
  <2>1. /\ flow' = [flow EXCEPT ![a].step = @ + 1]
        /\ acct' = [acct EXCEPT ![a].state = "Working"]
        /\ UNCHANGED <<list, login, done, lost, cut>>
      BY <1>2, <1>6
  <2>2. flow[a] \in FlowKinds /\ flow[a].step <= Len(Steps[a]) /\ Len(Steps[a]) \in Nat
    <3>1. Len(Steps[a]) \in Nat
        BY AccountsAssumption, LenProperties
    <3> QED
        BY <3>1 DEF IInv, FlowsOK
  <2>3. f \in FlowKinds /\ f.st = "running" /\ f.step = flow[a].step + 1 /\ f.heard = flow[a].heard
      BY <1>1, <2>2 DEF FlowKinds
  <2>4. flow[a].step + 1 <= Len(Steps[a])
      BY <1>6, <2>2 DEF FlowKinds
  <2>5. flow' = [flow EXCEPT ![a] = f]
      BY <2>1
  <2> HIDE DEF f
  <2>6. Active(a)
      BY <1>1 DEF Active
  <2> QED
      BY <2>1, <2>3, <2>4, <2>5, <2>6, GoesOn
<1> QED
    BY <1>4, <1>5, <1>6

LEMMA StartPostedStep ==
    ASSUME IInv, NEW a \in Accounts, StartPosted(a) PROVE IInv'
<1> DEFINE f == [flow[a] EXCEPT !.st = "running", !.step = 1]
<1>1. flow[a].st = "created" /\ flow' = [flow EXCEPT ![a] = f]
      /\ acct' = [acct EXCEPT ![a].state = "Working"]
      /\ UNCHANGED <<list, login, done, lost, cut>>
    BY DEF StartPosted
<1>2. 1 <= Len(Steps[a])
  <2>1. Steps[a] \in Seq({"msa", "service", "always"}) /\ Steps[a] # <<>>
      BY AccountsAssumption
  <2>2. Len(Steps[a]) \in Nat /\ Len(Steps[a]) # 0
      BY <2>1, EmptySeq, LenProperties
  <2> QED
      BY <2>2
<1>3. f \in FlowKinds /\ f.st = "running" /\ f.step = 1 /\ f.heard = flow[a].heard
  <2>1. flow[a] \in FlowKinds
      BY DEF IInv, FlowsOK
  <2> QED
      BY <2>1 DEF FlowKinds
<1>4. Active(a)
    BY <1>1 DEF Active
<1> HIDE DEF f
<1> QED
    BY <1>1, <1>2, <1>3, <1>4, GoesOn


(* A flow is destroyed, the list knowing only the pointer to it.           *)
LEMMA AbortFlowStep ==
    ASSUME IInv, AbortFlow PROVE IInv'
<1> DEFINE a == login.of
<1>1. /\ login.pc = "wait" /\ flow[a].st = "running"
      /\ flow' = [flow EXCEPT ![a] = NoFlow]
      /\ activity' = IF InList(a) /\ activity > 0 THEN activity - 1 ELSE activity
      /\ task' = IF task.of = a THEN [task EXCEPT !.fate = "aborted"] ELSE task
      /\ cut' = (cut \/ flow[a].heard)
      /\ login' = [login EXCEPT !.pc = "check"]
      /\ UNCHANGED <<rows, default, acct, queue, timers, acts, launches, lost>>
    BY DEF AbortFlow, done
<1>2. a \in Accounts
    BY <1>1 DEF IInv, LoginOK
<1>3. login' \in Logins /\ login'.of = a /\ login'.pc = "check"
    BY <1>1 DEF IInv, LoginOK, Logins
<1> HIDE DEF a
<1>4. FlowsOK' /\ flow'[a] = NoFlow /\ (\A b \in Accounts : b # a => flow'[b] = flow[b])
    BY <1>1, <1>2, NoFlowIs, OneFlow
<1>5. RowsOK' /\ BoundsOK' /\ DataOK' /\ QueueOK'
    BY <1>1 DEF IInv, RowsOK, BoundsOK, DataOK, QueueOK
<1>6. TaskOK'
  <2>1. activity' \in Nat
      BY <1>1 DEF IInv, TaskOK
  <2>2. task' \in [of : Accounts \cup {None}, fate : {"live", "aborted", "silent"}]
      BY <1>1 DEF IInv, TaskOK
  <2>3. flow[a].heard \in BOOLEAN /\ cut \in BOOLEAN
      BY <1>2 DEF IInv, FlowsOK, FlowKinds, TaskOK
  <2> QED
      BY <1>1, <2>1, <2>2, <2>3 DEF TaskOK
<1>7. LoginOK'
    BY <1>2, <1>3 DEF LoginOK
<1>8. UsesOK'
    BY <1>1, <1>3 DEF IInv, UsesOK
<1>9. BootFirst'
    BY <1>1 DEF IInv, BootFirst
<1>10. Fresh'
    BY <1>1, <1>3, <1>4, NoFlowIs, <1>2 DEF IInv, Fresh, InList, Active, a
<1>11. ActivityCounted'
  <2>1. Busy' = Busy \ {a}
      BY <1>1, <1>2, <1>4, NoFlowIs, BusyWithout
  <2>2. a \in Busy <=> InList(a)
      BY <1>1 DEF Busy, Active, InList
  <2>3. CASE InList(a)
    <3>1. activity' = IF activity > 0 THEN activity - 1 ELSE activity
        BY <1>1, <2>3
    <3> QED
        BY <1>1, <2>1, <2>2, <2>3, <3>1, CountDown DEF IInv
  <2>4. CASE ~InList(a)
    <3>1. Busy' = Busy /\ activity' = activity
        BY <1>1, <2>1, <2>2, <2>4
    <3> QED
        BY <1>1, <3>1, CountKept DEF IInv
  <2> QED
      BY <2>3, <2>4
<1>12. ListAlive'
  <2>1. CASE flow[a].heard
      BY <1>1, <2>1 DEF ListAlive
  <2>2. CASE ~flow[a].heard
      BY <1>1, <1>4, <2>2 DEF IInv, ListAlive
  <2> QED
      BY <2>1, <2>2
<1> QED
    BY <1>4, <1>5, <1>6, <1>7, <1>8, <1>9, <1>10, <1>11, <1>12 DEF IInv

LEMMA DeleteAccountStep ==
    ASSUME IInv, NEW a \in Accounts, DeleteAccount(a) PROVE IInv'
<1>1. /\ ~InList(a) /\ Active(a)
      /\ flow' = [flow EXCEPT ![a] = NoFlow]
      /\ task' = IF task.of = a THEN [task EXCEPT !.fate = "silent"] ELSE task
      /\ cut' = (cut \/ flow[a].heard)
      /\ UNCHANGED <<rows, default, acct, queue, timers, activity, login, acts, launches, lost>>
    BY DEF DeleteAccount, done
<1>2. FlowsOK' /\ flow'[a] = NoFlow /\ (\A b \in Accounts : b # a => flow'[b] = flow[b])
    BY <1>1, NoFlowIs, OneFlow
<1>3. RowsOK' /\ BoundsOK' /\ DataOK' /\ QueueOK' /\ LoginOK'
    BY <1>1 DEF IInv, RowsOK, BoundsOK, DataOK, QueueOK, LoginOK
<1>4. TaskOK'
  <2>1. task' \in [of : Accounts \cup {None}, fate : {"live", "aborted", "silent"}]
      BY <1>1 DEF IInv, TaskOK
  <2>2. flow[a].heard \in BOOLEAN /\ cut \in BOOLEAN
      BY DEF IInv, FlowsOK, FlowKinds, TaskOK
  <2> QED
      BY <1>1, <2>1, <2>2 DEF IInv, TaskOK
<1>5. UsesOK'
    BY <1>1 DEF IInv, UsesOK
<1>6. BootFirst'
    BY <1>1 DEF IInv, BootFirst
<1>7. Fresh'
    BY <1>1, <1>2, NoFlowIs DEF IInv, Fresh, InList, Active
<1>8. ActivityCounted'
  <2>1. Busy' = Busy
      BY <1>1, <1>2, NoFlowIs, BusyWithout DEF Busy, InList
  <2> QED
      BY <1>1, <2>1, CountKept DEF IInv
<1>9. ListAlive'
  <2>1. CASE flow[a].heard
      BY <1>1, <2>1 DEF ListAlive
  <2>2. CASE ~flow[a].heard
      BY <1>1, <1>2, <2>2 DEF IInv, ListAlive
  <2> QED
      BY <2>1, <2>2
<1> QED
    BY <1>2, <1>3, <1>4, <1>5, <1>6, <1>7, <1>8, <1>9 DEF IInv

(* The data of one account that is not new, and nothing that counts.       *)
LEMMA DataOnly ==
    ASSUME IInv, NEW a \in Accounts, NEW d \in Datum, d.state # "Unchecked" \/ d.state = acct[a].state,
           acct' = [acct EXCEPT ![a] = d],
           TaskOK', UNCHANGED <<rows, default, queue, timers, activity, flow, lost, cut>>,
           BoundsOK', launches' = launches,
           login' = login /\ d.uses <= acct[a].uses
    PROVE  IInv'
<1>1. DataOK' /\ acct'[a] = d /\ (\A b \in Accounts : b # a => acct'[b] = acct[b])
    BY DEF IInv, DataOK
<1>2. RowsOK' /\ FlowsOK' /\ QueueOK' /\ LoginOK' /\ BootFirst' /\ ListAlive'
  <2>1. RowsOK' /\ FlowsOK' /\ QueueOK'
      BY DEF IInv, RowsOK, FlowsOK, QueueOK
  <2>2. LoginOK' /\ BootFirst' /\ ListAlive'
      BY DEF IInv, LoginOK, BootFirst, Active, ListAlive
  <2> QED
      BY <2>1, <2>2
<1>3. Fresh'
    BY <1>1 DEF IInv, Fresh, InList, Active
<1>4. UsesOK'
  <2> SUFFICES ASSUME NEW b \in Accounts
               PROVE  acct'[b].uses + (IF login'.pc = "off" THEN 0 ELSE 1) <= launches'
      BY DEF UsesOK
  <2>1. acct[b].uses + (IF login.pc = "off" THEN 0 ELSE 1) <= launches
      BY DEF IInv, UsesOK
  <2>2. acct[b].uses \in Nat /\ acct'[b].uses \in Nat /\ launches \in Nat
      BY <1>1 DEF IInv, DataOK, Datum, BoundsOK
  <2>3. acct'[b].uses <= acct[b].uses
      BY <1>1, <2>2
  <2> QED
      BY <2>1, <2>2, <2>3
<1>5. ActivityCounted'
  <2>1. Busy' = Busy
      BY DEF Busy, Active
  <2> QED
      BY <2>1, CountKept DEF IInv
<1> QED
    BY <1>1, <1>2, <1>3, <1>4, <1>5 DEF IInv

LEMMA LateReplyStep ==
    ASSUME IInv, LateReply PROVE IInv'
<1>1. /\ task' = [task EXCEPT !.fate = "silent"]
      /\ UNCHANGED <<rows, default, queue, timers, activity, flow, login, acts, launches, lost, cut>>
    BY DEF LateReply, done
<1>2. PICK outcome \in States \ {"Unchecked"} : acct' = [acct EXCEPT ![task.of].state = outcome]
    BY DEF LateReply, Outcomes, States
<1>3. TaskOK' /\ BoundsOK'
    BY <1>1 DEF IInv, TaskOK, BoundsOK
<1>4. CASE task.of \in Accounts
  <2> DEFINE d == [acct[task.of] EXCEPT !.state = outcome]
  <2>1. acct[task.of] \in Datum
      BY <1>4 DEF IInv, DataOK
  <2>2. d \in Datum /\ d.state # "Unchecked" /\ d.uses = acct[task.of].uses
      BY <2>1 DEF Datum
  <2>3. acct' = [acct EXCEPT ![task.of] = d]
      BY <1>2
  <2>4. d.uses <= acct[task.of].uses
      BY <2>1, <2>2 DEF Datum
  <2> HIDE DEF d
  <2> QED
      BY <1>1, <1>3, <1>4, <2>2, <2>3, <2>4, DataOnly
<1>5. CASE task.of \notin Accounts
  <2>1. acct' = acct
      BY <1>2, <1>5 DEF IInv, DataOK
  <2>2. RowsOK' /\ DataOK' /\ FlowsOK' /\ QueueOK' /\ LoginOK'
      BY <1>1, <2>1 DEF IInv, RowsOK, DataOK, FlowsOK, QueueOK, LoginOK
  <2>3. BootFirst' /\ Fresh' /\ UsesOK' /\ ActivityCounted' /\ ListAlive'
      BY <1>1, <2>1 DEF IInv, BootFirst, Fresh, UsesOK, ActivityCounted, ListAlive, Active, InList
  <2> QED
      BY <1>3, <2>2, <2>3 DEF IInv
<1> QED
    BY <1>4, <1>5

LEMMA GameEndsStep ==
    ASSUME IInv, NEW a \in Accounts, GameEnds(a) PROVE IInv'
<1> DEFINE d == [acct[a] EXCEPT !.uses = @ - 1]
<1>1. acct[a].uses > 0 /\ acct' = [acct EXCEPT ![a] = d]
      /\ UNCHANGED <<rows, default, queue, timers, activity, task, flow, login, acts, launches,
                     lost, cut>>
    BY DEF GameEnds, list, done
<1>2. acct[a] \in Datum /\ acct[a].uses \in Nat
    BY DEF IInv, DataOK, Datum
<1>3. d \in Datum /\ d.state = acct[a].state /\ d.uses = acct[a].uses - 1
    BY <1>1, <1>2 DEF Datum
<1>4. TaskOK' /\ BoundsOK'
    BY <1>1 DEF IInv, TaskOK, BoundsOK
<1>5. d.uses <= acct[a].uses
    BY <1>2, <1>3
<1> HIDE DEF d
<1> QED
    BY <1>1, <1>3, <1>4, <1>5, DataOnly

LEMMA AgeStep ==
    ASSUME IInv, NEW a \in Accounts, Age(a) PROVE IInv'
<1> DEFINE d == [acct[a] EXCEPT !.stale = TRUE]
<1>1. acct' = [acct EXCEPT ![a] = d] /\ acts < MaxActs /\ acts' = acts + 1
      /\ UNCHANGED <<rows, default, queue, timers, activity, task, flow, login, launches,
                     lost, cut>>
    BY DEF Age, UserAct, list
<1>2. acct[a] \in Datum /\ acct[a].uses \in Nat
    BY DEF IInv, DataOK, Datum
<1>3. d \in Datum /\ d.state = acct[a].state /\ d.uses = acct[a].uses
    BY <1>2 DEF Datum
<1>4. TaskOK' /\ BoundsOK'
    BY <1>1, AccountsAssumption DEF IInv, TaskOK, BoundsOK
<1>5. d.uses <= acct[a].uses
    BY <1>2, <1>3
<1> HIDE DEF d
<1> QED
    BY <1>1, <1>3, <1>4, <1>5, DataOnly


-----------------------------------------------------------------------------
(* The login.                                                              *)

LEMMA LoginOnly ==
    ASSUME IInv, UNCHANGED <<list, acct, flow, done, lost, cut>>,
           login' \in Logins, login'.pc # "off" => login'.of \in Accounts,
           login'.of \in {login.of, None} \cup Range(rows), login.pc # "off"
    PROVE  IInv'
<1>1. UNCHANGED <<rows, default, queue, timers, activity, task, acct, flow, acts, launches, lost, cut>>
    BY DEF list, done
<1>2. RowsOK' /\ DataOK' /\ FlowsOK' /\ QueueOK' /\ TaskOK' /\ BoundsOK' /\ LoginOK'
    BY <1>1 DEF IInv, RowsOK, DataOK, FlowsOK, QueueOK, TaskOK, BoundsOK, LoginOK
<1>3. BootFirst' /\ ListAlive'
    BY <1>1 DEF IInv, BootFirst, ListAlive, Active
<1>4. ActivityCounted'
  <2>1. Busy' = Busy
      BY <1>1 DEF Busy, Active
  <2> QED
      BY <1>1, <2>1, CountKept DEF IInv
<1>5. UsesOK'
  <2> SUFFICES ASSUME NEW a \in Accounts
               PROVE  acct'[a].uses + (IF login'.pc = "off" THEN 0 ELSE 1) <= launches'
      BY DEF UsesOK
  <2>1. acct[a].uses + 1 <= launches /\ acct[a].uses \in Nat /\ launches \in Nat
      BY DEF IInv, UsesOK, DataOK, Datum, BoundsOK
  <2> QED
      BY <1>1, <2>1
<1>6. Fresh'
  <2>1. None \notin Accounts
      BY AccountsAssumption
  <2> QED
      BY <1>1, <2>1 DEF IInv, Fresh, InList, Active
<1> QED
    BY <1>2, <1>3, <1>4, <1>5, <1>6 DEF IInv

LEMMA NoLoginIs == NoLogin \in Logins /\ NoLogin.pc = "off" /\ NoLogin.of = None
BY DEF NoLogin, Logins

LEMMA AnswerContinueStep ==
    ASSUME IInv, NEW yes \in BOOLEAN, AnswerContinue(yes) PROVE IInv'
<1>1. /\ login.pc = "check" /\ UNCHANGED <<list, acct, flow, done, lost, cut>>
      /\ login' = IF yes THEN [login EXCEPT !.tries = 0] ELSE NoLogin
    BY DEF AnswerContinue
<1>2. login \in Logins /\ login.of \in Accounts
    BY <1>1 DEF IInv, LoginOK
<1>3. CASE yes
  <2>1. login' \in Logins /\ login'.of = login.of
      BY <1>1, <1>2, <1>3 DEF Logins
  <2> QED
      BY <1>1, <1>2, <2>1, LoginOnly
<1>4. CASE ~yes
    BY <1>1, <1>4, NoLoginIs, LoginOnly
<1> QED
    BY <1>3, <1>4

(* The account that ClaimAccount finds is one of the list.                 *)
LEMMA ClaimedIs ==
    ASSUME IInv, NEW a
    PROVE  Claimed(a) \in 0..Len(rows) /\ Len(rows) \in Nat
           /\ (Claimed(a) # 0 => rows[Claimed(a)] \in Range(rows))
<1> DEFINE I == {i \in 1..Len(rows) : Profile[rows[i]] = Profile[a]}
<1>1. Claimed(a) = IF I # {} THEN Min(I) ELSE 0
    BY DEF Claimed, SelectInSeq
<1>2. Len(rows) \in Nat /\ DOMAIN rows = 1..Len(rows) /\ I \in SUBSET (1..Len(rows))
    BY LenProperties DEF IInv, RowsOK
<1>3. Claimed(a) \in 0..Len(rows) /\ (Claimed(a) # 0 => Claimed(a) \in I)
  <2> HIDE DEF I
  <2> QED
      BY <1>1, <1>2, FirstOf
<1> HIDE DEF I
<1>4. Claimed(a) # 0 => Claimed(a) \in DOMAIN rows
    BY <1>2, <1>3
<1> QED
    BY <1>2, <1>3, <1>4 DEF Range

(* Another round, or the end of the login.                                 *)
LEMMA RoundLeft ==
    ASSUME IInv, login.pc = "check", login.tries < 3, NEW pc \in {"check", "wait", "claim"}
    PROVE  /\ login \in Logins /\ login.of \in Accounts
           /\ [login EXCEPT !.tries = @ + 1] \in Logins
           /\ [login EXCEPT !.tries = @ + 1].of = login.of
           /\ [login EXCEPT !.tries = @ + 1, !.pc = pc] \in Logins
           /\ [login EXCEPT !.tries = @ + 1, !.pc = pc].of = login.of
           /\ [login EXCEPT !.tries = @ + 1, !.pc = pc].pc = pc
<1>1. login \in Logins /\ login.of \in Accounts
    BY DEF IInv, LoginOK
<1>2. login.tries \in 0..3 /\ login.tries + 1 \in 0..3
    BY <1>1 DEF Logins
<1> QED
    BY <1>1, <1>2 DEF Logins

LEMMA RoundOnlineStep ==
    ASSUME IInv, RoundOnline PROVE IInv'
<1> DEFINE k == Claimed(login.of)
<1>1. /\ login.pc = "check" /\ login.tries < 3 /\ UNCHANGED <<list, acct, flow, done, lost, cut>>
      /\ login' \in {NoLogin, [login EXCEPT !.tries = @ + 1]}
                    \cup (IF login.online /\ k # 0
                          THEN {[login EXCEPT !.pc = "claim", !.of = rows[k]]} ELSE {})
    BY DEF RoundOnline, Round
<1>2. k # 0 => rows[k] \in Range(rows)
    BY ClaimedIs
<1> HIDE DEF k
<1>3. login \in Logins /\ login.of \in Accounts /\ [login EXCEPT !.tries = @ + 1] \in Logins
      /\ [login EXCEPT !.tries = @ + 1].of = login.of
    BY <1>1, RoundLeft
<1>4. CASE login' = NoLogin
    BY <1>1, <1>4, NoLoginIs, LoginOnly
<1>5. CASE login' = [login EXCEPT !.tries = @ + 1]
    BY <1>1, <1>3, <1>5, LoginOnly
<1>6. CASE k # 0 /\ login' = [login EXCEPT !.pc = "claim", !.of = rows[k]]
  <2>1. rows[k] \in Accounts
      BY <1>2, <1>6, RowsFinite DEF IInv
  <2>2. login' \in Logins /\ login'.of = rows[k]
      BY <1>3, <1>6, <2>1 DEF Logins
  <2> QED
      BY <1>1, <1>2, <1>6, <2>1, <2>2, LoginOnly
<1> QED
    BY <1>1, <1>4, <1>5, <1>6

LEMMA RoundOfflineStep ==
    ASSUME IInv, RoundOffline PROVE IInv'
<1>1. /\ login.pc = "check" /\ login.tries < 3 /\ UNCHANGED <<list, acct, flow, done, lost, cut>>
      /\ login' \in {NoLogin, [login EXCEPT !.tries = @ + 1]}
    BY DEF RoundOffline, Round
<1>2. login.of \in Accounts /\ [login EXCEPT !.tries = @ + 1] \in Logins
      /\ [login EXCEPT !.tries = @ + 1].of = login.of
    BY <1>1, RoundLeft
<1>3. CASE login' = NoLogin
    BY <1>1, <1>3, NoLoginIs, LoginOnly
<1>4. CASE login' = [login EXCEPT !.tries = @ + 1]
    BY <1>1, <1>2, <1>4, LoginOnly
<1> QED
    BY <1>1, <1>3, <1>4

LEMMA RoundWorkingStep ==
    ASSUME IInv, RoundWorking PROVE IInv'
<1> DEFINE pc == IF Active(login.of) THEN "wait" ELSE "check"
<1>1. /\ login.pc = "check" /\ login.tries < 3 /\ UNCHANGED <<list, acct, flow, done, lost, cut>>
      /\ login' = [login EXCEPT !.tries = @ + 1, !.pc = pc]
    BY DEF RoundWorking, Round
<1>2. pc \in {"check", "wait", "claim"}
    OBVIOUS
<1> HIDE DEF pc
<1>3. login.of \in Accounts /\ login' \in Logins /\ login'.of = login.of
    BY <1>1, <1>2, RoundLeft
<1> QED
    BY <1>1, <1>3, LoginOnly

LEMMA RoundBrokenStep ==
    ASSUME IInv, NEW state, RoundBroken(state) PROVE IInv'
<1>1. login.pc = "check" /\ login' = NoLogin /\ UNCHANGED <<list, acct, flow, done, lost, cut>>
    BY DEF RoundBroken, Round
<1> QED
    BY <1>1, NoLoginIs, LoginOnly

LEMMA RoundRefreshStep ==
    ASSUME IInv, NEW state, RoundRefresh(state) PROVE IInv'
<1> DEFINE a == login.of
<1>1. /\ login.pc = "check" /\ login.tries < 3
      /\ login' = [login EXCEPT !.pc = "wait", !.tries = @ + 1]
      /\ IF Active(a) THEN UNCHANGED <<flow, activity>>
         ELSE /\ flow' = [flow EXCEPT ![a].st = "created"]
              /\ activity' = IF InList(a) THEN activity + 1 ELSE activity
      /\ UNCHANGED <<rows, default, acct, queue, timers, task, acts, launches, lost, cut>>
    BY DEF RoundRefresh, Round, done
<1>2. login' \in Logins /\ login'.of = a /\ login'.pc = "wait" /\ a \in Accounts
  <2>1. login' = [login EXCEPT !.tries = @ + 1, !.pc = "wait"] /\ login \in Logins
      BY <1>1, RoundLeft DEF Logins
  <2> QED
      BY <1>1, <2>1, RoundLeft
<1> HIDE DEF a
<1>3. CASE Active(a)
  <2>1. UNCHANGED <<list, acct, flow, done, lost, cut>>
      BY <1>1, <1>3 DEF list, done
  <2> QED
      BY <1>1, <1>2, <2>1, LoginOnly DEF a
<1>4. CASE ~Active(a)
  <2> DEFINE f == [flow[a] EXCEPT !.st = "created"]
  <2>1. flow[a] \in FlowKinds /\ flow[a].step <= Len(Steps[a])
      BY <1>2 DEF IInv, FlowsOK
  <2>2. f \in FlowKinds /\ f.st = "created" /\ f.step = flow[a].step /\ f.heard = flow[a].heard
      BY <2>1 DEF FlowKinds
  <2>3. flow' = [flow EXCEPT ![a] = f] /\ f.step <= Len(Steps[a])
      BY <1>1, <1>4, <2>1, <2>2
  <2> HIDE DEF f
  <2>4. FlowsOK' /\ flow'[a] = f /\ \A b \in Accounts : b # a => flow'[b] = flow[b]
      BY <1>2, <2>2, <2>3, OneFlow
  <2>5. RowsOK' /\ DataOK' /\ QueueOK' /\ BoundsOK' /\ LoginOK'
      BY <1>1, <1>2 DEF IInv, RowsOK, DataOK, QueueOK, BoundsOK, LoginOK
  <2>6. TaskOK'
    <3>1. activity' \in Nat
        BY <1>1, <1>4 DEF IInv, TaskOK
    <3> QED
        BY <1>1, <3>1 DEF IInv, TaskOK
  <2>7. BootFirst'
      BY <1>1 DEF IInv, BootFirst
  <2>8. Fresh'
      BY <1>1, <1>2, <2>4 DEF IInv, Fresh, InList, Active, a
  <2>9. UsesOK'
      BY <1>1, <1>2 DEF IInv, UsesOK
  <2>10. ActivityCounted'
    <3>1. CASE InList(a)
      <4>1. a \notin Busy /\ Busy' = Busy \cup {a}
          BY <1>1, <1>4, <2>2, <2>4, <3>1, RowsFinite DEF IInv, Busy, Active, InList
      <4>2. activity' = activity + 1
          BY <1>1, <1>4, <3>1
      <4> QED
          BY <1>1, <4>1, <4>2, CountUp DEF IInv
    <3>2. CASE ~InList(a)
      <4>1. Busy' = Busy
          BY <1>1, <2>4, <3>2, RowsFinite DEF IInv, Busy, Active, InList
      <4>2. activity' = activity
          BY <1>1, <1>4, <3>2
      <4> QED
          BY <1>1, <4>1, <4>2, CountKept DEF IInv
    <3> QED
        BY <3>1, <3>2
  <2>11. ListAlive'
      BY <1>1, <2>2, <2>4 DEF IInv, ListAlive
  <2> QED
      BY <2>4, <2>5, <2>6, <2>7, <2>8, <2>9, <2>10, <2>11 DEF IInv
<1> QED
    BY <1>3, <1>4

LEMMA ClaimStep ==
    ASSUME IInv, Claim PROVE IInv'
<1> DEFINE a == login.of
           d == [acct[a] EXCEPT !.uses = @ + 1]
<1>1. /\ login.pc = "claim" /\ acct' = [acct EXCEPT ![a] = d] /\ login' = NoLogin
      /\ UNCHANGED <<rows, default, queue, timers, activity, task, flow, acts, launches, lost, cut>>
    BY DEF Claim, list, done
<1>2. a \in Accounts
    BY <1>1 DEF IInv, LoginOK
<1>3. d \in Datum /\ d.state = acct[a].state /\ d.uses = acct[a].uses + 1
  <2>1. acct[a] \in Datum /\ acct[a].uses \in Nat
      BY <1>2 DEF IInv, DataOK, Datum
  <2> QED
      BY <2>1 DEF Datum
<1> HIDE DEF d, a
<1>4. DataOK' /\ acct'[a] = d /\ \A b \in Accounts : b # a => acct'[b] = acct[b]
    BY <1>1, <1>2, <1>3 DEF IInv, DataOK
<1>5. RowsOK' /\ FlowsOK' /\ QueueOK' /\ TaskOK' /\ BoundsOK' /\ LoginOK'
    BY <1>1, NoLoginIs DEF IInv, RowsOK, FlowsOK, QueueOK, TaskOK, BoundsOK, LoginOK
<1>6. BootFirst' /\ ListAlive'
    BY <1>1 DEF IInv, BootFirst, ListAlive
<1>7. ActivityCounted'
  <2>1. Busy' = Busy
      BY <1>1 DEF Busy, Active
  <2> QED
      BY <1>1, <2>1, CountKept DEF IInv
<1>8. Fresh'
  <2>1. None \notin Accounts
      BY AccountsAssumption
  <2> QED
      BY <1>1, <1>2, <1>3, <1>4, <2>1, NoLoginIs DEF IInv, Fresh, InList, Active
<1>9. UsesOK'
  <2> SUFFICES ASSUME NEW b \in Accounts PROVE acct'[b].uses <= launches
    <3>1. login'.pc = "off" /\ launches' = launches
        BY <1>1, NoLoginIs
    <3>2. \A b \in Accounts : acct'[b].uses \in Nat
        BY <1>4 DEF DataOK, Datum
    <3> QED
        BY <3>1, <3>2 DEF UsesOK
  <2>1. acct[b].uses + 1 <= launches /\ acct[b].uses \in Nat /\ launches \in Nat
      BY <1>1 DEF IInv, UsesOK, DataOK, Datum, BoundsOK
  <2>2. acct'[b].uses = IF b = a THEN acct[b].uses + 1 ELSE acct[b].uses
      BY <1>3, <1>4
  <2> QED
      BY <2>1, <2>2
<1> QED
    BY <1>4, <1>5, <1>6, <1>7, <1>8, <1>9 DEF IInv


-----------------------------------------------------------------------------
(* The accounts page.                                                      *)

(* What only the rows decide: a step that changes them.                    *)
LEMMA RowsOnly ==
    ASSUME IInv, RowsOK', ActivityCounted', BoundsOK', DataOK', launches' = launches,
           UNCHANGED <<flow, queue, timers, activity, task, login, cut>>,
           \A a \in Accounts : acct'[a].uses = acct[a].uses,
           \A a \in Accounts : acct'[a].state = "Unchecked" /\ a \notin Range(Loaded)
                                 => acct[a].state = "Unchecked" /\ a \notin Range(rows')
    PROVE  IInv'
<1>1. FlowsOK' /\ QueueOK' /\ TaskOK' /\ LoginOK'
    BY DEF IInv, FlowsOK, QueueOK, TaskOK, LoginOK
<1>2. BootFirst' /\ ListAlive'
    BY DEF IInv, BootFirst, ListAlive, Active
<1>3. Fresh'
    BY DEF IInv, Fresh, InList, Active
<1>4. UsesOK'
    BY DEF IInv, UsesOK
<1> QED
    BY <1>1, <1>2, <1>3, <1>4 DEF IInv

LEMMA RemoveAccountStep ==
    ASSUME IInv, NEW a \in Accounts, RemoveAccount(a) PROVE IInv'
<1>1. /\ a \in Range(rows) /\ rows' = RemoveFirst(rows, a)
      /\ default' = IF default = a THEN None ELSE default
      /\ lost' = lost + IF Active(a) THEN 1 ELSE 0
      /\ acts < MaxActs /\ acts' = acts + 1 /\ launches' = launches
      /\ UNCHANGED <<acct, flow, queue, timers, activity, task, login, cut>>
    BY DEF RemoveAccount, UserAct, InList
<1>2. rows' \in Seq(Accounts) /\ IsInjective(rows') /\ Range(rows') = Range(rows) \ {a}
    BY <1>1, RowGone DEF IInv, RowsOK
<1>3. RowsOK'
    BY <1>1, <1>2 DEF IInv, RowsOK
<1>4. BoundsOK' /\ DataOK'
  <2>1. lost \in Nat /\ lost' \in Nat
      BY <1>1 DEF IInv, BoundsOK
  <2> QED
      BY <1>1, <2>1, AccountsAssumption DEF IInv, BoundsOK, DataOK
<1>5. ActivityCounted'
  <2>1. Busy' = Busy \ {a} /\ (a \in Busy <=> Active(a))
      BY <1>1, <1>2 DEF Busy, Active
  <2>2. activity' = activity /\ lost' = lost + IF a \in Busy THEN 1 ELSE 0
      BY <1>1, <2>1
  <2> QED
      BY <2>1, <2>2, CountDown DEF IInv
<1>6. \A b \in Accounts : acct'[b].state = "Unchecked" /\ b \notin Range(Loaded)
                            => acct[b].state = "Unchecked" /\ b \notin Range(rows')
    BY <1>1, <1>2 DEF IInv, Fresh, InList
<1> QED
    BY <1>1, <1>3, <1>4, <1>5, <1>6, RowsOnly

LEMMA AddAccountStep ==
    ASSUME IInv, NEW a \in Accounts, AddAccount(a) PROVE IInv'
<1> DEFINE k == Claimed(a)
           d == [acct[a] EXCEPT !.state = "Online", !.validity = "Certain"]
<1>1. /\ acct[a].state = "Unchecked" /\ a \notin Range(Loaded) /\ a \notin Range(rows)
      /\ acct' = [acct EXCEPT ![a] = d]
      /\ IF k = 0 THEN rows' = Append(rows, a) /\ UNCHANGED <<default, lost>>
         ELSE /\ rows' = [rows EXCEPT ![k] = a]
              /\ default' = IF default = rows[k] THEN a ELSE default
              /\ lost' = lost + IF Active(rows[k]) THEN 1 ELSE 0
      /\ acts < MaxActs /\ acts' = acts + 1 /\ launches' = launches
      /\ UNCHANGED <<flow, queue, timers, activity, task, login, cut>>
    BY DEF AddAccount, UserAct, InList
<1>2. k \in 0..Len(rows) /\ Len(rows) \in Nat /\ (k # 0 => rows[k] \in Range(rows))
    BY ClaimedIs
<1>3. d \in Datum /\ d.state = "Online" /\ d.uses = acct[a].uses
  <2>1. acct[a] \in Datum
      BY DEF IInv, DataOK
  <2> QED
      BY <2>1 DEF Datum, States, Validities
<1> HIDE DEF k, d
<1>4. DataOK' /\ acct'[a] = d /\ \A b \in Accounts : b # a => acct'[b] = acct[b]
    BY <1>1, <1>3 DEF IInv, DataOK
<1>5. ~Active(a) /\ a # None
    BY <1>1, AccountsAssumption DEF IInv, Fresh
<1>6. RowsOK' /\ BoundsOK' /\ ActivityCounted' /\ Range(rows') \subseteq Range(rows) \cup {a}
  <2>1. CASE k = 0
    <3>1. rows' = Append(rows, a) /\ default' = default /\ lost' = lost
        BY <1>1, <2>1
    <3>2. rows' \in Seq(Accounts) /\ IsInjective(rows') /\ Range(rows') = Range(rows) \cup {a}
        BY <1>1, <3>1, RowAdded DEF IInv, RowsOK
    <3>3. RowsOK' /\ BoundsOK'
        BY <1>1, <3>1, <3>2, AccountsAssumption DEF IInv, RowsOK, BoundsOK
    <3>4. Busy' = Busy
        BY <1>1, <1>5, <3>2 DEF Busy, Active
    <3>5. ActivityCounted'
        BY <1>1, <3>1, <3>4, CountKept DEF IInv
    <3> QED
        BY <3>2, <3>3, <3>5
  <2>2. CASE k # 0
    <3> DEFINE r == rows[k]
    <3>1. /\ rows' = [rows EXCEPT ![k] = a]
          /\ default' = IF default = r THEN a ELSE default
          /\ lost' = lost + IF Active(r) THEN 1 ELSE 0
        BY <1>1, <2>2
    <3>2. /\ rows' \in Seq(Accounts) /\ IsInjective(rows')
          /\ Range(rows') = (Range(rows) \ {r}) \cup {a} /\ r \in Range(rows)
      <4>1. k \in 1..Len(rows)
          BY <1>2, <2>2
      <4> QED
          BY <1>1, <1>2, <2>2, <3>1, <4>1, RowReplaced DEF IInv, RowsOK
    <3> HIDE DEF r
    <3>3. RowsOK'
        BY <3>1, <3>2 DEF IInv, RowsOK
    <3>4. BoundsOK'
      <4>1. lost \in Nat /\ lost' \in Nat
          BY <3>1 DEF IInv, BoundsOK
      <4> QED
          BY <1>1, <4>1, AccountsAssumption DEF IInv, BoundsOK
    <3>5. ActivityCounted'
      <4>1. Busy' = Busy \ {r} /\ (r \in Busy <=> Active(r))
          BY <1>1, <1>5, <3>2 DEF Busy, Active
      <4>2. activity' = activity /\ lost' = lost + IF r \in Busy THEN 1 ELSE 0
          BY <1>1, <3>1, <4>1
      <4> QED
          BY <4>1, <4>2, CountDown DEF IInv
    <3> QED
        BY <3>2, <3>3, <3>4, <3>5
  <2> QED
      BY <2>1, <2>2
<1>7. \A b \in Accounts : acct'[b].state = "Unchecked" /\ b \notin Range(Loaded)
                            => acct[b].state = "Unchecked" /\ b \notin Range(rows')
  <2> SUFFICES ASSUME NEW b \in Accounts, acct'[b].state = "Unchecked", b \notin Range(Loaded)
               PROVE  acct[b].state = "Unchecked" /\ b \notin Range(rows')
      OBVIOUS
  <2>1. b # a /\ acct[b].state = "Unchecked"
      BY <1>3, <1>4
  <2>2. b \notin Range(rows)
      BY <2>1 DEF IInv, Fresh, InList
  <2> QED
      BY <1>6, <2>1, <2>2
<1>8. \A b \in Accounts : acct'[b].uses = acct[b].uses
    BY <1>3, <1>4
<1> QED
    BY <1>1, <1>4, <1>6, <1>7, <1>8, RowsOnly

LEMMA SetDefaultAccountStep ==
    ASSUME IInv, NEW a, SetDefaultAccount(a) PROVE IInv'
<1>1. /\ a = None \/ a \in Range(rows)
      /\ default' = a
      /\ acts < MaxActs /\ acts' = acts + 1 /\ launches' = launches
      /\ UNCHANGED <<rows, acct, flow, queue, timers, activity, task, login, lost, cut>>
    BY DEF SetDefaultAccount, UserAct, InList
<1>2. RowsOK' /\ BoundsOK' /\ DataOK'
    BY <1>1, AccountsAssumption DEF IInv, RowsOK, BoundsOK, DataOK
<1>3. ActivityCounted'
  <2>1. Busy' = Busy
      BY <1>1 DEF Busy, Active
  <2> QED
      BY <1>1, <2>1, CountKept DEF IInv
<1>4. \A b \in Accounts : acct'[b].state = "Unchecked" /\ b \notin Range(Loaded)
                            => acct[b].state = "Unchecked" /\ b \notin Range(rows')
    BY <1>1 DEF IInv, Fresh, InList
<1> QED
    BY <1>1, <1>2, <1>3, <1>4, RowsOnly

-----------------------------------------------------------------------------
(* The specification.                                                      *)

LEMMA InitIInv == Init => IInv
<1> SUFFICES ASSUME Init PROVE IInv
    OBVIOUS
<1>1. /\ rows = Loaded /\ default \in Range(Loaded) \cup {None}
      /\ acct \in [Accounts -> [state : {"Unchecked"}, validity : {"Assumed"},
                                stale : {FALSE}, uses : {0}]]
      /\ flow = [a \in Accounts |-> NoFlow]
      /\ queue = <<>> /\ timers = {"boot"} /\ activity = 0
      /\ task = NoTask /\ login = NoLogin
      /\ acts = 0 /\ launches = 0 /\ lost = 0 /\ cut = FALSE
    BY DEF Init
<1>2. RowsOK /\ BoundsOK
    BY <1>1, AccountsAssumption DEF RowsOK, BoundsOK
<1>3. DataOK /\ \A a \in Accounts : acct[a].uses = 0
  <2> SUFFICES ASSUME NEW a \in Accounts PROVE acct[a] \in Datum /\ acct[a].uses = 0
      BY <1>1 DEF DataOK
  <2>1. acct[a] \in [state : {"Unchecked"}, validity : {"Assumed"}, stale : {FALSE}, uses : {0}]
      BY <1>1
  <2>2. acct[a].uses = 0
      BY <2>1
  <2>3. "Unchecked" \in States /\ "Assumed" \in Validities /\ FALSE \in BOOLEAN /\ 0 \in Nat
      BY DEF States, Validities
  <2>4. acct[a] \in Datum
      BY <2>1, <2>3 DEF Datum
  <2> QED
      BY <2>2, <2>4
<1>4. FlowsOK /\ \A a \in Accounts : ~Active(a) /\ ~flow[a].heard
    BY <1>1, NoFlowIs DEF FlowsOK, Active
<1>5. QueueOK
  <2>1. <<>> \in Seq(Accounts) /\ Len(<<>>) = 0 /\ OnceBut(<<>>, 0)
      BY EmptySeq DEF OnceBut
  <2> QED
      BY <1>1, <2>1 DEF QueueOK, Waiting
<1>6. TaskOK
    BY <1>1 DEF TaskOK, NoTask
<1>7. LoginOK /\ login.pc = "off" /\ login.of = None
    BY <1>1, NoLoginIs DEF LoginOK
<1>8. BootFirst
    BY <1>1, <1>4, <1>7 DEF BootFirst
<1>9. Fresh
    BY <1>1, <1>4, <1>7, AccountsAssumption DEF Fresh, InList
<1>10. UsesOK
    BY <1>1, <1>3, <1>7 DEF UsesOK
<1>11. ActivityCounted
  <2>1. Busy = {}
      BY <1>2, <1>4, RowsFinite DEF Busy
  <2>2. Cardinality(Busy) = 0
      BY <2>1, FS_EmptySet
  <2> QED
      BY <1>1, <2>2 DEF ActivityCounted, Busy
<1>12. ListAlive
    BY <1>1 DEF ListAlive
<1> QED
    BY <1>2, <1>3, <1>4, <1>5, <1>6, <1>7, <1>8, <1>9, <1>10, <1>11, <1>12 DEF IInv

LEMMA StepIInv == IInv /\ [Next]_vars => IInv'
<1> SUFFICES ASSUME IInv, [Next]_vars PROVE IInv'
    OBVIOUS
<1>1. CASE Timeout
    BY <1>1, FillQueueStep, NextTimeoutStep DEF Timeout
<1>2. CASE LoginStep
    BY <1>2, RoundOnlineStep, RoundOfflineStep, RoundWorkingStep, RoundRefreshStep,
       RoundBrokenStep, AnswerContinueStep DEF LoginStep
<1>3. CASE User
    BY <1>3, AgeStep, RemoveAccountStep, AddAccountStep, RefreshClickedStep, GameEndsStep,
       StartLoginStep, SetDefaultAccountStep, AbortFlowStep, ClaimStep DEF User
<1>4. CASE LateReply
    BY <1>4, LateReplyStep
<1>5. ASSUME NEW a \in Accounts, StepFinished(a) \/ StartPosted(a) \/ DeleteAccount(a)
      PROVE  IInv'
    BY <1>5, StepFinishedStep, StartPostedStep, DeleteAccountStep
<1>6. CASE UNCHANGED vars
  <2>1. UNCHANGED <<rows, default, queue, timers, activity, task, acct, flow, login, acts,
                    launches, lost, cut>>
      BY <1>6 DEF vars, list, done
  <2>2. RowsOK' /\ DataOK' /\ FlowsOK' /\ QueueOK' /\ TaskOK' /\ LoginOK' /\ BoundsOK'
      BY <2>1 DEF IInv, RowsOK, DataOK, FlowsOK, QueueOK, TaskOK, LoginOK, BoundsOK
  <2>3. BootFirst' /\ Fresh' /\ UsesOK' /\ ActivityCounted' /\ ListAlive'
      BY <2>1 DEF IInv, BootFirst, Fresh, UsesOK, ActivityCounted, ListAlive, Active, InList
  <2> QED
      BY <2>2, <2>3 DEF IInv
<1> QED
    BY <1>1, <1>2, <1>3, <1>4, <1>5, <1>6 DEF Next

(* The account list never loses track of its refreshes: it knows how many  *)
(* accounts are active, which decides whether a requested refresh starts   *)
(* at once, and always has a timer or a flow that will go on with the next *)
(* (AccountList.cpp:220, :610, :632, :657).                                *)
THEOREM TrackIsKept == Spec => []ListOK
<1>1. Init => IInv
    BY InitIInv
<1>2. IInv /\ [Next]_vars => IInv'
    BY StepIInv
<1>3. IInv => ListOK
    BY IsListOK
<1> QED
    BY <1>1, <1>2, <1>3, PTL DEF Spec
=============================================================================
