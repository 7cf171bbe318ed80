------------------------- MODULE InstanceContent_proofs ----------------------
EXTENDS ResourceFolder, ComponentUpdate, SequenceTheorems, FiniteSetTheorems,
        WellFoundedInduction, TLAPS

-----------------------------------------------------------------------------
(* Sequences and numbers. *)

LEMMA RemoveAtIs ==
    ASSUME NEW S, NEW s \in Seq(S), NEW i \in DOMAIN s
    PROVE  /\ RemoveAt(s, i) \in Seq(S) /\ Len(RemoveAt(s, i)) = Len(s) - 1
           /\ DOMAIN RemoveAt(s, i) = 1..(Len(s) - 1)
           /\ \A j \in 1..(Len(s) - 1) :
                RemoveAt(s, i)[j] = IF j < i THEN s[j] ELSE s[j + 1]
<1> DEFINE a == SubSeq(s, 1, i - 1)
           b == SubSeq(s, i + 1, Len(s))
           n == Len(s)
<1>1. a \in Seq(S) /\ Len(a) = i - 1 /\ \A j \in 1..(i - 1) : a[j] = s[j]
    OBVIOUS
<1>2. b \in Seq(S) /\ Len(b) = n - i /\ \A j \in 1..(n - i) : b[j] = s[i + j]
    OBVIOUS
<1>3. RemoveAt(s, i) = a \o b
    BY DEF RemoveAt
<1>4. n \in Nat /\ i \in 1..n
    OBVIOUS
<1> HIDE DEF a, b, n
<1>5. a \o b \in Seq(S) /\ Len(a \o b) = n - 1
    <2>1. a \o b \in Seq(S) /\ Len(a \o b) = Len(a) + Len(b)
        BY <1>1, <1>2, ConcatProperties
    <2> QED BY <2>1, <1>1, <1>2, <1>4
<1>6. ASSUME NEW j \in 1..(n - 1)
      PROVE  (a \o b)[j] = IF j < i THEN s[j] ELSE s[j + 1]
    <2>1. (a \o b)[j] = IF j <= i - 1 THEN a[j] ELSE b[j - (i - 1)]
        <3>1. j \in 1..(Len(a) + Len(b))
            BY <1>1, <1>2, <1>4
        <3>2. (a \o b)[j] = IF j <= Len(a) THEN a[j] ELSE b[j - Len(a)]
            BY <1>1, <1>2, <3>1, ConcatProperties
        <3> QED BY <3>2, <1>1
    <2>2. CASE j < i
        BY <2>1, <2>2, <1>1, <1>4
    <2>3. CASE ~(j < i)
        <3>1. j - (i - 1) \in 1..(n - i) /\ i + (j - (i - 1)) = j + 1
            BY <2>3, <1>4
        <3>2. ~(j <= i - 1)
            BY <2>3, <1>4
        <3>3. (a \o b)[j] = b[j - (i - 1)]
            BY <2>1, <3>2
        <3>4. b[j - (i - 1)] = s[i + (j - (i - 1))]
            BY <3>1, <1>2
        <3> QED BY <2>3, <3>1, <3>3, <3>4
    <2> QED BY <2>2, <2>3
<1>7. DOMAIN (a \o b) = 1..(n - 1)
    BY <1>5
<1> QED BY <1>3, <1>5, <1>6, <1>7 DEF n

LEMMA InsertAtIs ==
    ASSUME NEW S, NEW s \in Seq(S), NEW i \in DOMAIN s, NEW e \in S
    PROVE  /\ InsertAt(s, i, e) \in Seq(S) /\ Len(InsertAt(s, i, e)) = Len(s) + 1
           /\ DOMAIN InsertAt(s, i, e) = 1..(Len(s) + 1)
           /\ \A j \in 1..(Len(s) + 1) :
                InsertAt(s, i, e)[j] = IF j < i THEN s[j] ELSE IF j = i THEN e ELSE s[j - 1]
<1> DEFINE a == SubSeq(s, 1, i - 1)
           b == SubSeq(s, i, Len(s))
           n == Len(s)
           c == a \o <<e>>
<1>1. a \in Seq(S) /\ Len(a) = i - 1 /\ \A j \in 1..(i - 1) : a[j] = s[j]
    OBVIOUS
<1>2. b \in Seq(S) /\ Len(b) = n - i + 1 /\ \A j \in 1..(n - i + 1) : b[j] = s[i + j - 1]
    OBVIOUS
<1>3. InsertAt(s, i, e) = c \o b
    BY DEF InsertAt
<1>4. n \in Nat /\ i \in 1..n
    OBVIOUS
<1> HIDE DEF a, b, n
<1>5. c \in Seq(S) /\ Len(c) = i /\ \A j \in 1..i : c[j] = IF j < i THEN s[j] ELSE e
    BY <1>1, <1>4
<1> HIDE DEF c
<1>6. c \o b \in Seq(S) /\ Len(c \o b) = n + 1
    <2>1. c \o b \in Seq(S) /\ Len(c \o b) = Len(c) + Len(b)
        BY <1>2, <1>5, ConcatProperties
    <2>2. Len(c) = i /\ Len(b) = n - i + 1 /\ n \in Int /\ i \in Int
        BY <1>2, <1>4, <1>5
    <2> QED BY ONLY <2>1, <2>2
<1>7. ASSUME NEW j \in 1..(n + 1)
      PROVE  (c \o b)[j] = IF j < i THEN s[j] ELSE IF j = i THEN e ELSE s[j - 1]
    <2>1. (c \o b)[j] = IF j <= i THEN c[j] ELSE b[j - i]
        <3>1. j \in 1..(Len(c) + Len(b))
            BY <1>2, <1>4, <1>5
        <3>2. (c \o b)[j] = IF j <= Len(c) THEN c[j] ELSE b[j - Len(c)]
            BY <1>2, <1>5, <3>1, ConcatProperties
        <3> QED BY <3>2, <1>5
    <2>2. CASE j <= i
        BY <2>1, <2>2, <1>4, <1>5
    <2>3. CASE ~(j <= i)
        <3>1. j - i \in 1..(n - i + 1) /\ i + (j - i) - 1 = j - 1
            BY <2>3, <1>4
        <3>2. (c \o b)[j] = s[j - 1]
            BY <2>1, <2>3, <3>1, <1>2
        <3> QED BY <3>2, <2>3, <1>4
    <2> QED BY <2>2, <2>3
<1>8. DOMAIN (c \o b) = 1..(n + 1)
    BY <1>6
<1> QED BY <1>3, <1>6, <1>7, <1>8 DEF n

\* A set of numbers that is not empty has a least one.
LEMMA LeastExists ==
    ASSUME NEW S \in SUBSET Nat, S # {}
    PROVE  \E m \in S : \A x \in S : m <= x
<1> DEFINE R == {p \in Nat \X Nat : p[1] < p[2]}
<1>1. IsWellFoundedOn(R, Nat)
    BY NatLessThanWellFounded DEF OpToRel
<1> HIDE DEF R
<1>2. \E m \in S : \A x \in S : ~(<<x, m>> \in R)
    BY <1>1, WFMin
<1>3. PICK m \in S : \A x \in S : ~(<<x, m>> \in R)
    BY <1>2
<1>4. ASSUME NEW x \in S PROVE m <= x
    <2>1. ~(<<x, m>> \in R) /\ x \in Nat /\ m \in Nat
        BY <1>3
    <2>2. ~(x < m)
        BY <2>1 DEF R
    <2> QED BY <2>1, <2>2
<1> QED BY <1>4

LEMMA SmallestIs ==
    ASSUME NEW S \in SUBSET Nat, S # {}
    PROVE  Min(S) \in S /\ \A x \in S : Min(S) <= x
BY LeastExists DEF Min

\* A finite set of numbers that is not empty has a greatest one.
LEMMA GreatestIs ==
    ASSUME NEW S \in SUBSET Nat, S # {}, IsFiniteSet(S)
    PROVE  Max(S) \in S /\ \A x \in S : Max(S) >= x
<1> DEFINE Bad(n) == \E T \in SUBSET Nat : /\ T # {} /\ IsFiniteSet(T) /\ Cardinality(T) = n
                                          /\ ~ \E m \in T : \A x \in T : m >= x
           Bads == {n \in Nat : Bad(n)}
<1>1. Bads = {}
    <2> SUFFICES ASSUME Bads # {} PROVE FALSE
        OBVIOUS
    <2>1. PICK n \in Bads : \A k \in Bads : n <= k
        <3>1. Bads \in SUBSET Nat
            OBVIOUS
        <3> HIDE DEF Bads
        <3> QED BY <3>1, LeastExists
    <2>2. PICK T \in SUBSET Nat : /\ T # {} /\ IsFiniteSet(T) /\ Cardinality(T) = n
                                  /\ ~ \E m \in T : \A x \in T : m >= x
        OBVIOUS
    <2>3. PICK t \in T : TRUE
        BY <2>2
    <2>4. IsFiniteSet(T \ {t}) /\ Cardinality(T \ {t}) = n - 1
        BY <2>2, <2>3, FS_RemoveElement
    <2>5. n \in Nat /\ n - 1 \in Nat
        BY <2>4, FS_CardinalityType
    <2>6. n - 1 \notin Bads
        BY <2>1, <2>5
    <2>7. T \ {t} # {} => \E m \in T \ {t} : \A x \in T \ {t} : m >= x
        BY <2>2, <2>4, <2>5, <2>6
    <2>8. CASE T \ {t} = {}
        BY <2>2, <2>3, <2>8
    <2>9. CASE T \ {t} # {}
        <3>1. PICK m \in T \ {t} : \A x \in T \ {t} : m >= x
            BY <2>7, <2>9
        <3>2. CASE m >= t
            BY <2>2, <3>1, <3>2
        <3>3. CASE ~(m >= t)
            BY <2>2, <2>3, <3>1, <3>3
        <3> QED BY <3>2, <3>3
    <2> QED BY <2>8, <2>9
<1>2. Cardinality(S) \in Nat
    BY FS_CardinalityType
<1>3. \E m \in S : \A x \in S : m >= x
    BY <1>1, <1>2
<1> QED BY <1>3 DEF Max

-----------------------------------------------------------------------------
(* ComponentUpdate: the invariant. *)

Actions == {"none", "change", "latest", "important", "remove"}

\* A component of the list, and a load of the update.
Comps == [uid : Uids, version : AnyVersion, cached : AnyVersion,
          requires : SUBSET Requirement, volatile : BOOLEAN, dependencyOnly : BOOLEAN,
          important : BOOLEAN, loaded : BOOLEAN, data : AnyVersion,
          action : [kind : Actions, version : AnyVersion]]
LoadStatus == [what : Uids \X AnyVersion, state : {"running", "succeeded", "failed"}]

Distinct(list) == \A i, j \in DOMAIN list : list[i].uid = list[j].uid => i = j

\* An action that changes a version knows to which.
Aimed(c) == c.action.kind = "change" => c.action.version \in Versions

Proper(list) ==
    list \in Seq(Comps) /\ Distinct(list) /\ \A i \in DOMAIN list : Aimed(list[i])

ListTyped == Proper(components)

LoadsTyped ==
    /\ loads \in [DOMAIN loads -> LoadStatus]
    /\ phase = "wait" => /\ \E place \in DOMAIN loads : loads[place].state = "running"
                         /\ \A p, q \in DOMAIN loads : loads[p].what[1] = loads[q].what[1] => p = q

ToAddTyped ==
    phase = "add" =>
      /\ toAdd \in [DOMAIN toAdd -> [place : DOMAIN components, version : AnyVersion]]
      /\ DOMAIN toAdd \subseteq Uids \ Listed(components)

RestTyped ==
    /\ phase \in {"none", "load", "wait", "actions", "resolve", "add", "crashed"}
    /\ online \in BOOLEAN /\ addedActions \in BOOLEAN
    /\ meta \subseteq disk /\ disk \subseteq Uids \X Versions
    /\ edits \in 0..MaxEdits /\ outcome \in {"none", "succeeded", "failed"}
    /\ misfiled \in BOOLEAN /\ blind \in BOOLEAN

Typed == ListTyped /\ LoadsTyped /\ ToAddTyped /\ RestTyped

\* A component that counts as loaded has cached what its version says.
Sound(c, known) ==
    c.loaded => /\ c.data = c.version /\ c.cached = c.version /\ c.version \in Versions
                /\ c.requires = Meta[c.uid][c.version]
                /\ c.volatile = (c.uid \in VolatileUids)
                /\ <<c.uid, c.version>> \in known

\* One that does not has a load of its own to wait for.
Awaited(c, waits) ==
    c.loaded \/ /\ c.data = c.version
                /\ \E place \in DOMAIN waits : /\ waits[place].what = <<c.uid, c.version>>
                                               /\ waits[place].state # "succeeded"

LoadedWell ==
    ~misfiled /\ ~blind => \A i \in DOMAIN components :
        /\ Sound(components[i], meta)
        /\ phase = "wait" => Awaited(components[i], loads)
        /\ phase \in {"actions", "resolve"} => components[i].loaded

EndsResolved == outcome = "succeeded" => phase = "none" /\ SuccessMeansResolved

IInv == Typed /\ LoadedWell /\ EndsResolved

-----------------------------------------------------------------------------
(* Constants, components and requirements. *)

LEMMA VersionFacts ==
    /\ Versions \subseteq Nat /\ NoVersion \notin Versions
    /\ AnyVersion \subseteq Nat /\ IsFiniteSet(AnyVersion)
    /\ \A uid \in Uids, v \in Versions : Meta[uid][v] \in SUBSET Requirement
<1>1. Versions \subseteq Nat /\ NoVersion \notin Versions
    BY ComponentAssumption DEF NoVersion
<1>2. AnyVersion \subseteq Nat
    BY <1>1 DEF AnyVersion, NoVersion
<1>3. IsFiniteSet(AnyVersion)
    BY ComponentAssumption, FS_AddElement DEF AnyVersion
<1>4. \A uid \in Uids, v \in Versions : Meta[uid][v] \in SUBSET Requirement
    BY ComponentAssumption
<1> QED BY <1>1, <1>2, <1>3, <1>4

\* A new component has everything but its uid and version to learn.
LEMMA ComponentIs ==
    ASSUME NEW uid \in Uids, NEW v \in AnyVersion, NEW dep \in BOOLEAN
    PROVE  /\ Component(uid, v, dep) \in Comps
           /\ Component(uid, v, dep).uid = uid
           /\ ~Component(uid, v, dep).loaded
           /\ Component(uid, v, dep).action.kind = "none"
BY DEF Component, Comps, NoAction, Actions, AnyVersion

\* Everything but what is cached of the metadata stays.
Kept(c, d) == d.uid = c.uid /\ d.dependencyOnly = c.dependencyOnly /\ d.action = c.action

LEMMA UpdatedIs ==
    ASSUME NEW c \in Comps, NEW known \in SUBSET (Uids \X Versions)
    PROVE  /\ Updated(c, known) \in Comps
           /\ Kept(c, Updated(c, known))
           /\ Updated(c, known).version = c.version
           /\ Updated(c, known).loaded = c.loaded
           /\ Updated(c, known).data = c.data
           /\ <<c.uid, c.data>> \in known =>
                /\ Updated(c, known).cached = c.data
                /\ Updated(c, known).requires = Meta[c.uid][c.data]
                /\ Updated(c, known).volatile = (c.uid \in VolatileUids)
<1>1. CASE <<c.uid, c.data>> \in known
    <2>1. c.uid \in Uids /\ c.data \in Versions
        BY <1>1
    <2>2. Meta[c.uid][c.data] \in SUBSET Requirement
        BY <2>1, VersionFacts
    <2> DEFINE vol == c.uid \in VolatileUids
               req == Meta[c.uid][c.data]
    <2>3. vol \in BOOLEAN /\ c.data \in AnyVersion
        BY DEF Comps
    <2>4. Updated(c, known) = [c EXCEPT !.cached = c.data, !.requires = req, !.volatile = vol]
        BY <1>1 DEF Updated
    <2> HIDE DEF vol, req
    <2>5. [c EXCEPT !.cached = c.data, !.requires = req, !.volatile = vol] \in Comps
        BY <2>2, <2>3 DEF Comps, req
    <2>6. /\ Kept(c, Updated(c, known)) /\ Updated(c, known).version = c.version
          /\ Updated(c, known).loaded = c.loaded /\ Updated(c, known).data = c.data
          /\ Updated(c, known).cached = c.data /\ Updated(c, known).requires = req
        BY <2>4 DEF Kept, Comps
    <2>7. Updated(c, known).volatile = vol
        BY <2>4 DEF Comps
    <2> QED BY <2>4, <2>5, <2>6, <2>7 DEF vol, req
<1>2. CASE <<c.uid, c.data>> \notin known
    BY <1>2 DEF Updated, Comps, Kept
<1> QED BY <1>1, <1>2

LEMMA WithVersionIs ==
    ASSUME NEW c \in Comps, NEW v \in AnyVersion, NEW known \in SUBSET (Uids \X Versions)
    PROVE  /\ WithVersion(c, v, known) \in Comps
           /\ Kept(c, WithVersion(c, v, known))
           /\ WithVersion(c, v, known).version = v
           /\ Sound(c, known) => Sound(WithVersion(c, v, known), known)
           /\ v = c.version => WithVersion(c, v, known) = c
<1>1. CASE v = c.version
    BY <1>1 DEF WithVersion, Kept
<1>2. CASE v # c.version /\ ~c.loaded
    BY <1>2 DEF WithVersion, Kept, Comps, Sound
<1>3. CASE v # c.version /\ c.loaded
    <2> DEFINE ready == <<c.uid, v>> \in known
               d == [c EXCEPT !.version = v, !.cached = v,
                              !.data = IF ready THEN v ELSE NoVersion, !.loaded = ready]
    <2>1. d \in Comps /\ Kept(c, d) /\ d.version = v /\ d.loaded = ready
        <3> DEFINE data == IF ready THEN v ELSE NoVersion
        <3>1. data \in AnyVersion /\ ready \in BOOLEAN
            BY DEF AnyVersion
        <3> HIDE DEF data, ready
        <3>2. [c EXCEPT !.version = v, !.cached = v, !.data = data, !.loaded = ready] \in Comps
            BY <3>1 DEF Comps
        <3> QED BY <3>2 DEF Comps, Kept, data
    <2>2. ready => d.data = v /\ d.uid = c.uid
        BY DEF Comps
    <2>3. WithVersion(c, v, known) = Updated(d, known)
        BY <1>3 DEF WithVersion
    <2> HIDE DEF d
    <2>4. Updated(d, known) \in Comps /\ Kept(d, Updated(d, known)) /\ Updated(d, known).version = v
        BY <2>1, UpdatedIs
    <2>5. Kept(c, Updated(d, known))
        BY <2>1, <2>4 DEF Kept
    <2>6. Sound(Updated(d, known), known)
        <3>1. CASE ready
            <4>1. v \in Versions
                BY <3>1
            <4>2. <<d.uid, d.data>> \in known
                BY <3>1, <2>2
            <4> QED BY <2>1, <2>2, <3>1, <4>1, <4>2, UpdatedIs DEF Sound, Kept
        <3>2. CASE ~ready
            BY <2>1, <3>2, UpdatedIs DEF Sound
        <3> QED BY <3>1, <3>2
    <2> QED BY <1>3, <2>3, <2>4, <2>5, <2>6
<1> QED BY <1>1, <1>2, <1>3

\* What an action of an update makes of a component.
LEMMA WaitedIs ==
    ASSUME NEW c \in Comps, NEW v \in Versions, NEW arrives \in BOOLEAN,
           meta \in SUBSET (Uids \X Versions)
    PROVE  LET w == Waited(c, v, arrives) IN
           /\ w \in Comps /\ Kept(c, w) /\ w.version = v /\ w.loaded
           /\ Sound(c, meta) /\ arrives /\ (v = c.version => c.loaded) =>
                Sound(w, meta \cup {<<c.uid, v>>})
<1> DEFINE known == IF arrives THEN meta \cup {<<c.uid, v>>} ELSE meta
           set == WithVersion(c, v, meta)
           d == [set EXCEPT !.data = v, !.loaded = TRUE]
<1>1. set \in Comps /\ Kept(c, set) /\ set.version = v /\ (Sound(c, meta) => Sound(set, meta))
    BY WithVersionIs DEF AnyVersion
<1>2. Waited(c, v, arrives) = IF set.loaded THEN set ELSE Updated(d, known)
    BY DEF Waited
<1>3. c.uid \in Uids
    BY DEF Comps
<1>4. known \in SUBSET (Uids \X Versions)
    BY <1>3
<1> HIDE DEF set, known
<1>5. d \in Comps /\ Kept(set, d) /\ d.version = v /\ d.loaded = TRUE /\ d.data = v
    BY <1>1 DEF Comps, Kept, AnyVersion
<1> HIDE DEF d
<1>6. Updated(d, known) \in Comps /\ Kept(d, Updated(d, known))
      /\ Updated(d, known).version = v /\ Updated(d, known).loaded
    BY <1>4, <1>5, UpdatedIs
<1>7. Kept(c, Updated(d, known))
    BY <1>1, <1>5, <1>6 DEF Kept
<1>8. ASSUME Sound(c, meta), arrives PROVE Sound(Waited(c, v, arrives), meta \cup {<<c.uid, v>>})
    <2>1. CASE set.loaded
        BY <1>1, <1>2, <1>8, <2>1 DEF Sound
    <2>2. CASE ~set.loaded
        <3>1. d.uid = c.uid
            BY <1>1, <1>5 DEF Kept
        <3>2. <<d.uid, d.data>> \in known /\ known = meta \cup {<<c.uid, v>>}
            BY <1>5, <1>8, <3>1 DEF known
        <3>3. Sound(Updated(d, known), known)
            BY <1>4, <1>5, <3>2, UpdatedIs DEF Sound, Kept
        <3> QED BY <1>2, <2>2, <3>2, <3>3
    <2> QED BY <2>1, <2>2
<1> QED BY <1>1, <1>2, <1>6, <1>7, <1>8

-----------------------------------------------------------------------------
(* What the components of a list require. *)

LEMMA PlaceIs ==
    ASSUME NEW list, NEW uid \in Listed(list)
    PROVE  Place(list, uid) \in DOMAIN list /\ list[Place(list, uid)].uid = uid
BY DEF Place, Listed

LEMMA AskedIs ==
    ASSUME components \in Seq(Comps), NEW uid
    PROVE  /\ Asked(uid) \in SUBSET Requirement
           /\ Exact(uid) \in SUBSET Versions
<1>1. \A i \in DOMAIN components : components[i].requires \subseteq Requirement
    <2> TAKE i \in DOMAIN components
    <2>1. components[i] \in Comps
        OBVIOUS
    <2> QED BY <2>1 DEF Comps
<1>2. Asked(uid) \subseteq Requirement
    BY <1>1 DEF Asked
<1>3. \A r \in Requirement : r.equals \in AnyVersion
    BY DEF Requirement
<1> QED BY <1>2, <1>3 DEF Exact, AnyVersion

LEMMA DecidedIs ==
    ASSUME components \in Seq(Comps), NEW uid \in Required
    PROVE  Decided(uid) \in AnyVersion
<1>1. CASE Exact(uid) # {}
    BY <1>1, AskedIs DEF Decided, AnyVersion
<1>2. Suggested(uid) \in AnyVersion
    <2> DEFINE S == {r.suggests : r \in Asked(uid)}
    <2>1. S \subseteq AnyVersion
        BY AskedIs DEF Requirement
    <2>2. S # {}
        BY DEF Required
    <2>3. Suggested(uid) = Max(S)
        BY DEF Suggested
    <2> HIDE DEF S
    <2>4. S \in SUBSET Nat /\ IsFiniteSet(S)
        BY <2>1, VersionFacts, FS_Subset
    <2>5. Max(S) \in S
        BY <2>2, <2>4, GreatestIs
    <2> QED BY <2>1, <2>3, <2>5
<1>3. ASSUME Important \in Listed(components)
      PROVE  components[Place(components, Important)].cached \in AnyVersion
    <2>1. components[Place(components, Important)] \in Comps
        BY <1>3, PlaceIs
    <2> QED BY <2>1 DEF Comps
<1>4. Fallback[uid] \in AnyVersion
    BY ComponentAssumption DEF Required
<1> QED BY <1>1, <1>2, <1>3, <1>4 DEF Decided

LEMMA FirstDependeeIs ==
    ASSUME components \in Seq(Comps), NEW uid \in Required
    PROVE  FirstDependee(uid) \in DOMAIN components
<1> DEFINE S == {i \in DOMAIN components : Needs(components[i], uid)}
<1>1. S # {}
    BY DEF Required, Asked, Needs
<1>2. S \in SUBSET Nat
    <2>1. DOMAIN components \subseteq Nat
        OBVIOUS
    <2> QED BY <2>1
<1>3. FirstDependee(uid) = Min(S)
    BY DEF FirstDependee
<1> HIDE DEF S
<1>4. Min(S) \in S
    BY <1>1, <1>2, SmallestIs
<1> QED BY <1>3, <1>4 DEF S

LEMMA AdditionsAre ==
    ASSUME components \in Seq(Comps)
    PROVE  /\ Additions \in [DOMAIN Additions -> [place : DOMAIN components, version : AnyVersion]]
           /\ DOMAIN Additions \subseteq Uids \ Listed(components)
<1>1. \A uid \in Missing : /\ FirstDependee(uid) \in DOMAIN components
                           /\ Decided(uid) \in AnyVersion
    BY FirstDependeeIs, DecidedIs DEF Missing
<1>2. Missing \subseteq Uids \ Listed(components)
    BY DEF Missing, Required
<1> QED BY <1>1, <1>2 DEF Additions

-----------------------------------------------------------------------------
(* What the list becomes. *)

Among(new, list) == \A j \in DOMAIN new : \E k \in DOMAIN list : new[j] = list[k]

LEMMA ChangedList ==
    ASSUME NEW list, Proper(list), NEW new \in [DOMAIN list -> Comps],
           \A i \in DOMAIN list : new[i].uid = list[i].uid /\ Aimed(new[i])
    PROVE  Proper(new) /\ DOMAIN new = DOMAIN list
<1>1. new \in Seq(Comps)
    <2>1. Len(list) \in Nat /\ DOMAIN list = 1..Len(list)
        BY DEF Proper
    <2> QED BY <2>1
<1> QED BY <1>1 DEF Proper, Distinct

LEMMA ChangedOne ==
    ASSUME NEW list, Proper(list), NEW i \in DOMAIN list, NEW c \in Comps,
           c.uid = list[i].uid, Aimed(c)
    PROVE  /\ Proper([list EXCEPT ![i] = c])
           /\ DOMAIN [list EXCEPT ![i] = c] = DOMAIN list
           /\ \A j \in DOMAIN list : [list EXCEPT ![i] = c][j] = IF j = i THEN c ELSE list[j]
<1> DEFINE new == [list EXCEPT ![i] = c]
<1>1. list \in [DOMAIN list -> Comps]
    BY DEF Proper
<1>2. new \in [DOMAIN list -> Comps] /\ \A j \in DOMAIN list : new[j] = IF j = i THEN c ELSE list[j]
    BY <1>1
<1>3. \A j \in DOMAIN list : new[j].uid = list[j].uid /\ Aimed(new[j])
    BY <1>2 DEF Proper
<1> HIDE DEF new
<1>4. Proper(new) /\ DOMAIN new = DOMAIN list
    BY <1>2, <1>3, ChangedList
<1> QED BY <1>2, <1>4 DEF new

LEMMA OneLess ==
    ASSUME NEW list, Proper(list), NEW i \in DOMAIN list
    PROVE  Proper(RemoveAt(list, i)) /\ Among(RemoveAt(list, i), list)
<1> DEFINE n == Len(list)
           new == RemoveAt(list, i)
           from(j) == IF j < i THEN j ELSE j + 1
<1>1. list \in Seq(Comps) /\ n \in Nat /\ DOMAIN list = 1..n
    BY DEF Proper
<1>2. new \in Seq(Comps) /\ DOMAIN new = 1..(n - 1)
    BY <1>1, RemoveAtIs
<1>3. \A j \in DOMAIN new : new[j] = IF j < i THEN list[j] ELSE list[j + 1]
    BY <1>1, <1>2, RemoveAtIs
<1> HIDE DEF new, n
<1>4. \A j \in DOMAIN new : from(j) \in DOMAIN list /\ new[j] = list[from(j)]
    BY <1>1, <1>2, <1>3
<1>5. \A j, k \in DOMAIN new : from(j) = from(k) => j = k
    BY <1>1, <1>2
<1> HIDE DEF from
<1>6. Distinct(new)
    BY <1>4, <1>5 DEF Distinct, Proper
<1>7. \A j \in DOMAIN new : Aimed(new[j])
    BY <1>4 DEF Proper
<1>8. Among(new, list)
    BY <1>4 DEF Among
<1> QED BY <1>2, <1>6, <1>7, <1>8 DEF Proper, new

LEMMA OneMore ==
    ASSUME NEW list, Proper(list), NEW i \in DOMAIN list,
           NEW c \in Comps, Aimed(c), c.uid \notin Listed(list)
    PROVE  LET new == InsertAt(list, i, c) IN
           /\ Proper(new) /\ DOMAIN list \subseteq DOMAIN new
           /\ \A j \in DOMAIN new : new[j] = c \/ \E k \in DOMAIN list : new[j] = list[k]
<1> DEFINE n == Len(list)
           new == InsertAt(list, i, c)
           from(j) == IF j < i THEN j ELSE j - 1
<1>1. list \in Seq(Comps) /\ n \in Nat /\ DOMAIN list = 1..n
    BY DEF Proper
<1> HIDE DEF new
<1>11. list \in Seq(Comps) /\ i \in DOMAIN list /\ c \in Comps
    BY <1>1
<1>12. /\ new \in Seq(Comps) /\ DOMAIN new = 1..(Len(list) + 1)
      /\ \A j \in 1..(Len(list) + 1) :
           new[j] = IF j < i THEN list[j] ELSE IF j = i THEN c ELSE list[j - 1]
    BY ONLY <1>11, InsertAtIs DEF new
<1>2. new \in Seq(Comps) /\ DOMAIN new = 1..(n + 1)
    BY <1>12
<1>3. \A j \in DOMAIN new : new[j] = IF j < i THEN list[j] ELSE IF j = i THEN c ELSE list[j - 1]
    BY <1>12
<1> HIDE DEF new, n
<1>4. \A j \in DOMAIN new : j # i => from(j) \in DOMAIN list /\ new[j] = list[from(j)]
    BY <1>1, <1>2, <1>3
<1>5. \A j, k \in DOMAIN new : j # i /\ k # i /\ from(j) = from(k) => j = k
    BY <1>1, <1>2
<1>6. i \in DOMAIN new /\ new[i] = c /\ DOMAIN list \subseteq DOMAIN new
    BY <1>1, <1>2, <1>3
<1> HIDE DEF from
<1>7. \A j \in DOMAIN new : j # i => new[j].uid # c.uid
    BY <1>4 DEF Listed
<1>8. Distinct(new)
    BY <1>4, <1>5, <1>6, <1>7 DEF Distinct, Proper
<1>9. \A j \in DOMAIN new : Aimed(new[j])
    BY <1>4, <1>6 DEF Proper
<1>10. \A j \in DOMAIN new : new[j] = c \/ \E k \in DOMAIN list : new[j] = list[k]
    BY <1>4, <1>6
<1> QED BY <1>2, <1>6, <1>8, <1>9, <1>10 DEF Proper, new

LEMMA OneAtTheEnd ==
    ASSUME NEW list, Proper(list),
           NEW c \in Comps, Aimed(c), c.uid \notin Listed(list)
    PROVE  LET new == Append(list, c) IN
           /\ Proper(new)
           /\ \A j \in DOMAIN new : new[j] = c \/ \E k \in DOMAIN list : new[j] = list[k]
<1> DEFINE n == Len(list)
           new == Append(list, c)
<1>1. list \in Seq(Comps) /\ n \in Nat /\ DOMAIN list = 1..n
    BY DEF Proper
<1>2. new \in Seq(Comps) /\ DOMAIN new = 1..(n + 1)
    BY <1>1
<1>3. \A j \in DOMAIN new : new[j] = IF j = n + 1 THEN c ELSE list[j]
    BY <1>1
<1> HIDE DEF new, n
<1>4. \A j \in DOMAIN new : j # n + 1 => j \in DOMAIN list /\ new[j] = list[j]
    BY <1>1, <1>2, <1>3
<1>5. \A j \in DOMAIN new : j # n + 1 => new[j].uid # c.uid
    BY <1>4 DEF Listed
<1>6. \A j \in DOMAIN new : j = n + 1 => new[j] = c
    BY <1>3
<1>7. Distinct(new)
    BY <1>4, <1>5, <1>6 DEF Distinct, Proper
<1>8. \A j \in DOMAIN new : Aimed(new[j])
    BY <1>4, <1>6 DEF Proper
<1>9. \A j \in DOMAIN new : new[j] = c \/ \E k \in DOMAIN list : new[j] = list[k]
    BY <1>4, <1>6
<1> QED BY <1>2, <1>7, <1>8, <1>9 DEF Proper, new

LEMMA TwoSwapped ==
    ASSUME NEW list, Proper(list), NEW i \in DOMAIN list, i + 1 \in DOMAIN list
    PROVE  LET new == [list EXCEPT ![i] = list[i + 1], ![i + 1] = list[i]] IN
           Proper(new) /\ DOMAIN new = DOMAIN list /\ Among(new, list) /\ Among(list, new)
<1> DEFINE n == Len(list)
           new == [list EXCEPT ![i] = list[i + 1], ![i + 1] = list[i]]
           from(j) == IF j = i THEN i + 1 ELSE IF j = i + 1 THEN i ELSE j
<1>1. list \in Seq(Comps) /\ n \in Nat /\ DOMAIN list = 1..n
    BY DEF Proper
<1>2. DOMAIN new = DOMAIN list /\ new \in Seq(Comps)
    BY <1>1
<1>3. \A j \in DOMAIN list : from(j) \in DOMAIN list /\ new[j] = list[from(j)]
    BY <1>1
<1>4. \A j \in DOMAIN list : from(from(j)) = j
    BY <1>1
<1> HIDE DEF new, n, from
<1>5. Distinct(new)
    BY <1>2, <1>3, <1>4 DEF Distinct, Proper
<1>6. \A j \in DOMAIN new : Aimed(new[j])
    BY <1>2, <1>3 DEF Proper
<1>7. Among(new, list) /\ Among(list, new)
    BY <1>2, <1>3, <1>4 DEF Among
<1> QED BY <1>2, <1>5, <1>6, <1>7 DEF Proper, new

-----------------------------------------------------------------------------
(* The initial state, and what the steps have in common. *)

LEMMA InitIInv == Init => IInv
<1> SUFFICES ASSUME Init PROVE IInv
    OBVIOUS
<1> DEFINE c(i) == Component(FirstList[i][1], FirstList[i][2], FALSE)
           d(i) == [c(i) EXCEPT !.important = (FirstList[i][1] = Important)]
<1>1. ASSUME NEW i \in DOMAIN FirstList
      PROVE  /\ d(i) \in Comps /\ d(i).uid = FirstList[i][1] /\ ~d(i).loaded
             /\ d(i).action.kind = "none"
    <2> DEFINE yes == FirstList[i][1] = Important
    <2>1. FirstList[i][1] \in Uids /\ FirstList[i][2] \in AnyVersion
        BY ComponentAssumption DEF AnyVersion
    <2>2. c(i) \in Comps /\ c(i).uid = FirstList[i][1] /\ ~c(i).loaded /\ c(i).action.kind = "none"
        BY <2>1, ComponentIs
    <2>3. yes \in BOOLEAN
        OBVIOUS
    <2>4. d(i) = [c(i) EXCEPT !.important = yes]
        OBVIOUS
    <2> HIDE DEF yes, c, d
    <2> QED BY <2>2, <2>3, <2>4 DEF Comps
<1>2. components = [i \in DOMAIN FirstList |-> d(i)]
    BY DEF Init
<1> HIDE DEF d
<1>3. DOMAIN components = DOMAIN FirstList /\ \A i \in DOMAIN components : components[i] = d(i)
    BY <1>2
<1>4. components \in Seq(Comps)
    <2>1. Len(FirstList) \in Nat /\ DOMAIN FirstList = 1..Len(FirstList)
        BY ComponentAssumption
    <2> QED BY <1>1, <1>2, <2>1
<1>5. Distinct(components)
    BY <1>1, <1>3, ComponentAssumption DEF Distinct
<1>6. \A i \in DOMAIN components : Aimed(components[i])
    BY <1>1, <1>3 DEF Aimed
<1>7. ListTyped
    BY <1>4, <1>5, <1>6 DEF ListTyped, Proper
<1>8. LoadsTyped /\ ToAddTyped
    BY DEF Init, LoadsTyped, ToAddTyped
<1>9. RestTyped
    <2>1. 0 \in 0..MaxEdits
        BY ComponentAssumption
    <2>2. /\ phase = "none" /\ online = TRUE /\ addedActions = FALSE /\ meta = {} /\ disk = {}
          /\ edits = 0 /\ outcome = "none" /\ misfiled = FALSE /\ blind = FALSE
        BY DEF Init
    <2> QED BY <2>1, <2>2 DEF RestTyped
<1>10. LoadedWell
    <2>1. \A i \in DOMAIN components : ~components[i].loaded
        BY <1>1, <1>3
    <2>2. \A i \in DOMAIN components : Sound(components[i], meta)
        BY <2>1 DEF Sound
    <2>3. phase = "none"
        BY DEF Init
    <2> QED BY <2>2, <2>3 DEF LoadedWell
<1>11. EndsResolved
    BY DEF EndsResolved, Init
<1> QED BY <1>7, <1>8, <1>9, <1>10, <1>11 DEF IInv, Typed

LEMMA SoundGrows ==
    ASSUME NEW c, NEW known, Sound(c, known), NEW more, known \subseteq more
    PROVE  Sound(c, more)
BY DEF Sound

\* While an update runs none has succeeded.
LEMMA NotYetEnded ==
    ASSUME IInv, phase # "none"
    PROVE  outcome \in {"none", "failed"}
BY DEF IInv, EndsResolved, Typed, RestTyped

LEMMA ElementsAreTyped ==
    ASSUME ListTyped, NEW i \in DOMAIN components
    PROVE  components[i] \in Comps /\ Aimed(components[i])
BY DEF ListTyped, Proper

-----------------------------------------------------------------------------
(* loadComponents. *)

LEMMA AtHandIs ==
    ASSUME IInv, NEW hashed
    PROVE  /\ meta \subseteq AtHand(hashed) /\ AtHand(hashed) \subseteq disk
           /\ AtHand(hashed) \in SUBSET (Uids \X Versions)
BY DEF AtHand, IInv, Typed, RestTyped

LEMMA LoadedIs ==
    ASSUME IInv, NEW c \in Comps, NEW hashed
    PROVE  /\ Loaded(c, hashed) \in Comps /\ Kept(c, Loaded(c, hashed)) /\ Loaded(c, hashed).version = c.version
           /\ Loads(c, hashed) => Loaded(c, hashed).data = c.version /\ ~Loaded(c, hashed).loaded
           /\ ~Loads(c, hashed) => Loaded(c, hashed).loaded
           /\ ~Loads(c, hashed) /\ ~c.loaded => Sound(Loaded(c, hashed), meta \cup {<<c.uid, c.version>>})
           /\ c.loaded /\ Sound(c, meta) => Sound(Loaded(c, hashed), meta)
<1> DEFINE d == [c EXCEPT !.data = c.version]
           e == [c EXCEPT !.data = c.version, !.loaded = TRUE]
<1>1. d \in Comps /\ Kept(c, d) /\ d.version = c.version /\ d.data = c.version /\ d.loaded = c.loaded
    BY DEF Comps, Kept
<1>2. e \in Comps /\ Kept(c, e) /\ e.version = c.version /\ e.data = c.version /\ e.loaded = TRUE
    BY DEF Comps, Kept
<1>3. CASE Loads(c, hashed)
    <2>1. Loaded(c, hashed) = d
        BY <1>3 DEF Loaded
    <2>2. ~c.loaded
        BY <1>3 DEF Loads
    <2> HIDE DEF d, e
    <2> QED BY <1>1, <1>3, <2>1, <2>2
<1>4. CASE ~Loads(c, hashed) /\ ~c.loaded
    <2>1. Loaded(c, hashed) = Updated(e, AtHand(hashed)) /\ <<c.uid, c.version>> \in AtHand(hashed)
        BY <1>4 DEF Loaded, Loads
    <2> HIDE DEF d, e
    <2>2. <<e.uid, e.data>> \in AtHand(hashed) /\ c.version \in Versions /\ e.uid = c.uid
        BY <1>2, <2>1, AtHandIs DEF Kept
    <2>3. /\ Loaded(c, hashed) \in Comps /\ Kept(e, Loaded(c, hashed)) /\ Loaded(c, hashed).version = c.version
          /\ Loaded(c, hashed).loaded /\ Loaded(c, hashed).data = c.version /\ Loaded(c, hashed).cached = c.version
          /\ Loaded(c, hashed).requires = Meta[c.uid][c.version]
          /\ Loaded(c, hashed).volatile = (c.uid \in VolatileUids)
        BY <1>2, <2>1, <2>2, AtHandIs, UpdatedIs
    <2>4. Kept(c, Loaded(c, hashed))
        BY <1>2, <2>3 DEF Kept
    <2>5. Sound(Loaded(c, hashed), meta \cup {<<c.uid, c.version>>})
        BY <2>2, <2>3, <2>4 DEF Sound, Kept
    <2> QED BY <1>4, <2>3, <2>4, <2>5
<1>5. CASE c.loaded
    <2>1. Loaded(c, hashed) = Updated(c, AtHand(hashed)) /\ ~Loads(c, hashed)
        BY <1>5 DEF Loaded, Loads
    <2>2. Loaded(c, hashed) \in Comps /\ Kept(c, Loaded(c, hashed)) /\ Loaded(c, hashed).version = c.version /\ Loaded(c, hashed).loaded
        <3>1. AtHand(hashed) \in SUBSET (Uids \X Versions)
            BY AtHandIs
        <3>2. /\ Updated(c, AtHand(hashed)) \in Comps /\ Kept(c, Updated(c, AtHand(hashed)))
              /\ Updated(c, AtHand(hashed)).version = c.version /\ Updated(c, AtHand(hashed)).loaded = c.loaded
            BY <3>1, UpdatedIs
        <3> QED BY <1>5, <2>1, <3>2
    <2>3. ASSUME Sound(c, meta) PROVE Sound(Loaded(c, hashed), meta)
        <3>1. c.data = c.version /\ c.version \in Versions /\ <<c.uid, c.version>> \in meta
            BY <1>5, <2>3 DEF Sound
        <3>2. <<c.uid, c.data>> \in AtHand(hashed)
            BY <3>1, AtHandIs
        <3>3. /\ Loaded(c, hashed).data = c.version /\ Loaded(c, hashed).cached = c.version
              /\ Loaded(c, hashed).requires = Meta[c.uid][c.version]
              /\ Loaded(c, hashed).volatile = (c.uid \in VolatileUids)
            BY <2>1, <3>1, <3>2, AtHandIs, UpdatedIs
        <3> QED BY <2>2, <3>1, <3>3 DEF Sound, Kept
    <2> QED BY <1>5, <2>1, <2>2, <2>3
<1> QED BY <1>3, <1>4, <1>5

LEMMA LoadKeeps ==
    ASSUME IInv, NEW hashed, LoadComponents(hashed)
    PROVE  IInv'
<1> DEFINE missing == {i \in DOMAIN components : Loads(components[i], hashed)}
           read == {<<components[i].uid, components[i].version>> :
                      i \in {j \in DOMAIN components \ missing : ~components[j].loaded}}
<1>1. /\ phase = "load" /\ components' = [i \in DOMAIN components |-> Loaded(components[i], hashed)]
      /\ meta' = meta \cup read
      /\ loads' = [i \in missing |-> [what  |-> <<components[i].uid, components[i].version>>,
                                      state |-> "running"]]
      /\ addedActions' = FALSE
      /\ UNCHANGED <<online, toAdd, disk, edits, misfiled, blind>>
    BY DEF LoadComponents
<1>2. \/ phase' = "actions" /\ missing = {} /\ outcome' = outcome
      \/ phase' = "wait" /\ missing # {} /\ outcome' = outcome
      \/ phase' = "none" /\ outcome' = "failed"
    BY DEF LoadComponents, Ends
<1>3. \A i \in DOMAIN components : components[i] \in Comps /\ Aimed(components[i])
    BY ElementsAreTyped DEF IInv, Typed
<1>4. /\ DOMAIN components' = DOMAIN components
      /\ \A i \in DOMAIN components : components'[i] = Loaded(components[i], hashed)
    BY <1>1
<1>5. read \subseteq AtHand(hashed)
    BY DEF Loads
<1>6. ListTyped'
    <2>1. \A i \in DOMAIN components : /\ Loaded(components[i], hashed) \in Comps
                                       /\ Loaded(components[i], hashed).uid = components[i].uid
                                       /\ Aimed(Loaded(components[i], hashed))
        BY <1>3, LoadedIs DEF Kept, Aimed
    <2>2. components' \in [DOMAIN components -> Comps]
        BY <1>1, <2>1
    <2>3. Proper(components)
        BY DEF IInv, Typed, ListTyped
    <2>4. Proper(components')
        BY <1>4, <2>1, <2>2, <2>3, ChangedList
    <2> QED BY <2>4 DEF ListTyped
<1>7. LoadsTyped'
    <2>1. \A i \in missing : <<components[i].uid, components[i].version>> \in Uids \X AnyVersion
        BY <1>3 DEF Comps
    <2>2. loads' \in [DOMAIN loads' -> LoadStatus] /\ DOMAIN loads' = missing
        BY <1>1, <2>1 DEF LoadStatus
    <2>3. \A i \in missing : loads'[i].state = "running" /\ loads'[i].what[1] = components[i].uid
        BY <1>1
    <2>4. \A i, j \in missing : components[i].uid = components[j].uid => i = j
        BY DEF IInv, Typed, ListTyped, Proper, Distinct
    <2> HIDE DEF missing
    <2>5. phase' = "wait" => missing # {}
        BY <1>2
    <2> QED BY <2>2, <2>3, <2>4, <2>5 DEF LoadsTyped
<1>8. ToAddTyped'
    BY <1>2 DEF ToAddTyped
<1>9. RestTyped'
    <2>1. meta' \subseteq disk'
        BY <1>1, <1>5, AtHandIs DEF IInv, Typed, RestTyped
    <2> HIDE DEF missing, read
    <2> QED BY <1>1, <1>2, <2>1 DEF RestTyped, IInv, Typed
<1>10. LoadedWell'
    <2> SUFFICES ASSUME ~misfiled', ~blind', NEW i \in DOMAIN components'
                 PROVE  /\ Sound(components'[i], meta')
                        /\ phase' = "wait" => Awaited(components'[i], loads')
                        /\ phase' \in {"actions", "resolve"} => components'[i].loaded
        BY DEF LoadedWell
    <2> DEFINE c == components[i]
    <2>1. i \in DOMAIN components /\ components'[i] = Loaded(c, hashed) /\ c \in Comps
        BY <1>3, <1>4
    <2>2. Sound(c, meta)
        BY <1>1, <2>1 DEF IInv, LoadedWell
    <2>3. Sound(Loaded(c, hashed), meta')
        <3>1. CASE c.loaded
            <4>1. meta \subseteq meta'
                BY <1>1
            <4> HIDE DEF c, read
            <4>2. Sound(Loaded(c, hashed), meta)
                BY <2>1, <2>2, <3>1, LoadedIs
            <4> QED BY <4>1, <4>2, SoundGrows
        <3>2. CASE ~c.loaded /\ ~Loads(c, hashed)
            <4>1. <<c.uid, c.version>> \in read
                BY <2>1, <3>2
            <4>2. meta \cup {<<c.uid, c.version>>} \subseteq meta'
                BY <1>1, <4>1
            <4> HIDE DEF c, read
            <4>3. Sound(Loaded(c, hashed), meta \cup {<<c.uid, c.version>>})
                BY <2>1, <3>2, LoadedIs
            <4> QED BY <4>2, <4>3, SoundGrows
        <3>3. CASE Loads(c, hashed)
            <4>1. ~Loaded(c, hashed).loaded
                BY <2>1, <3>3, LoadedIs
            <4> QED BY <4>1 DEF Sound
        <3> QED BY <3>1, <3>2, <3>3 DEF Loads
    <2>4. Loads(c, hashed) => Awaited(Loaded(c, hashed), loads')
        <3> SUFFICES ASSUME Loads(c, hashed) PROVE Awaited(Loaded(c, hashed), loads')
            OBVIOUS
        <3>1. i \in DOMAIN loads' /\ loads'[i].what = <<c.uid, c.version>> /\ loads'[i].state = "running"
            BY <1>1, <2>1
        <3>2. Loaded(c, hashed).data = c.version /\ Loaded(c, hashed).uid = c.uid /\ Loaded(c, hashed).version = c.version
            BY <2>1, LoadedIs DEF Kept
        <3> HIDE DEF c
        <3> QED BY <3>1, <3>2 DEF Awaited
    <2>5. ~Loads(c, hashed) => Loaded(c, hashed).loaded
        BY <2>1, LoadedIs
    <2>6. phase' \in {"actions", "resolve"} => ~Loads(c, hashed)
        BY <1>2, <2>1
    <2> HIDE DEF c
    <2> QED BY <2>1, <2>3, <2>4, <2>5, <2>6 DEF Awaited
<1>11. EndsResolved'
    <2>1. outcome' # "succeeded"
        BY <1>1, <1>2, NotYetEnded
    <2> QED BY <2>1 DEF EndsResolved
<1> QED BY <1>6, <1>7, <1>8, <1>9, <1>10, <1>11 DEF IInv, Typed

-----------------------------------------------------------------------------
(* The answers of the metadata server. *)

LEMMA RepliedIs ==
    ASSUME IInv, NEW place \in DOMAIN loads, NEW state \in {"succeeded", "failed"}
    PROVE  LET answers == Replied(place, state) IN
           /\ answers \in [DOMAIN loads -> LoadStatus] /\ DOMAIN answers = DOMAIN loads
           /\ \A p \in DOMAIN loads : /\ answers[p].what = loads[p].what
                                      /\ answers[p].state = IF p = place THEN state ELSE loads[p].state
           /\ loads[place].what \in Uids \X AnyVersion
<1> DEFINE new == [loads[place] EXCEPT !.state = state]
           answers == Replied(place, state)
<1>1. loads \in [DOMAIN loads -> LoadStatus]
    BY DEF IInv, Typed, LoadsTyped
<1>2. loads[place] \in LoadStatus
    BY <1>1
<1>3. new \in LoadStatus /\ new.what = loads[place].what /\ new.state = state
      /\ loads[place].what \in Uids \X AnyVersion
    BY <1>2 DEF LoadStatus
<1>4. answers = [loads EXCEPT ![place] = new]
    BY DEF Replied
<1> HIDE DEF new, answers
<1>5. answers \in [DOMAIN loads -> LoadStatus] /\ DOMAIN answers = DOMAIN loads
    BY <1>1, <1>3, <1>4
<1>6. \A p \in DOMAIN loads : answers[p] = IF p = place THEN new ELSE loads[p]
    BY <1>1, <1>4
<1> QED BY <1>3, <1>5, <1>6 DEF answers

LEMMA FinishedIs ==
    ASSUME NEW answers, CheckIfAllFinished(answers)
    PROVE  \/ /\ phase' = phase /\ outcome' = outcome
              /\ \E j \in DOMAIN answers : answers[j].state = "running"
           \/ /\ phase' = "actions" /\ outcome' = outcome
              /\ \A j \in DOMAIN answers : answers[j].state = "succeeded"
           \/ phase' = "none" /\ outcome' = "failed"
BY DEF CheckIfAllFinished, Ends

LEMMA ProperFun ==
    ASSUME NEW list, Proper(list)
    PROVE  list \in [DOMAIN list -> Comps]
BY DEF Proper

LEMMA RemoteSuccessKeeps ==
    ASSUME IInv, NEW place \in DOMAIN loads, RemoteLoadSucceeded(place)
    PROVE  IInv'
<1> DEFINE what == loads[place].what
           c == components[place]
           d == [c EXCEPT !.loaded = TRUE]
           new == Updated(d, meta')
<1>1. /\ phase = "wait" /\ loads[place].state = "running" /\ what[2] # NoVersion
      /\ loads' = Replied(place, "succeeded")
      /\ meta' = meta \cup {what} /\ disk' = disk \cup {what}
      /\ UNCHANGED <<online, cursor, addedActions, toAdd, edits, blind>>
    BY DEF RemoteLoadSucceeded
<1>2. \/ /\ place \in DOMAIN components /\ components' = [components EXCEPT ![place] = new]
         /\ misfiled' = (misfiled \/ c.uid # what[1])
         /\ CheckIfAllFinished(loads')
      \/ phase' = "crashed" /\ components' = components /\ outcome' = outcome /\ misfiled' = misfiled
    BY DEF RemoteLoadSucceeded
<1>3. /\ loads' \in [DOMAIN loads -> LoadStatus] /\ DOMAIN loads' = DOMAIN loads
      /\ \A p \in DOMAIN loads : /\ loads'[p].what = loads[p].what
                                 /\ loads'[p].state = IF p = place THEN "succeeded" ELSE loads[p].state
      /\ what \in Uids \X Versions
    <2>1. what \in Uids \X AnyVersion
        BY RepliedIs
    <2>2. what \in Uids \X Versions
        BY <1>1, <2>1 DEF AnyVersion
    <2> QED BY <1>1, <2>2, RepliedIs
<1>4. phase' = phase => outcome' = outcome /\ \E j \in DOMAIN loads' : loads'[j].state = "running"
    BY <1>1, <1>2, FinishedIs
<1>5. phase' = "actions" => \A j \in DOMAIN loads' : loads'[j].state = "succeeded"
    BY <1>1, <1>2, FinishedIs
<1>6. phase' \in {"wait", "actions", "none", "crashed"} /\ (outcome' = outcome \/ outcome' = "failed")
    BY <1>1, <1>2, FinishedIs
<1>7. meta' \in SUBSET (Uids \X Versions) /\ disk' \in SUBSET (Uids \X Versions) /\ meta' \subseteq disk'
      /\ misfiled' \in BOOLEAN /\ meta \subseteq meta'
    BY <1>1, <1>2, <1>3 DEF IInv, Typed, RestTyped
<1>8. ASSUME place \in DOMAIN components
      PROVE  /\ c \in Comps /\ d \in Comps /\ Kept(c, d) /\ d.version = c.version /\ d.data = c.data
             /\ new \in Comps /\ new.uid = c.uid /\ Aimed(new) /\ new.loaded
    <2>1. c \in Comps /\ Aimed(c)
        BY <1>8, ElementsAreTyped DEF IInv, Typed
    <2>2. d \in Comps /\ Kept(c, d) /\ d.version = c.version /\ d.data = c.data /\ d.loaded = TRUE
        BY <2>1 DEF Comps, Kept
    <2> HIDE DEF c, d, what
    <2>3. new \in Comps /\ Kept(d, new) /\ new.loaded
        BY <1>7, <2>2, UpdatedIs
    <2> QED BY <2>1, <2>2, <2>3 DEF Kept, Aimed
<1>9. ListTyped' /\ DOMAIN components' = DOMAIN components
    <2>1. Proper(components)
        BY DEF IInv, Typed, ListTyped
    <2> HIDE DEF c, d, new, what
    <2>2. CASE components' = components
        BY <2>1, <2>2 DEF ListTyped
    <2>3. CASE /\ place \in DOMAIN components /\ components' = [components EXCEPT ![place] = new]
               /\ misfiled' = (misfiled \/ c.uid # what[1])
        <3>1. new \in Comps /\ new.uid = components[place].uid /\ Aimed(new)
            BY <1>8, <2>3 DEF c
        <3>2. Proper(components') /\ DOMAIN components' = DOMAIN components
            BY <2>1, <2>3, <3>1, ChangedOne
        <3> QED BY <2>3, <3>2 DEF ListTyped
    <2> QED BY <1>2, <2>2, <2>3
<1>10. LoadsTyped'
    <2>1. phase' = "wait" => \E p \in DOMAIN loads' : loads'[p].state = "running"
        BY <1>1, <1>4
    <2>2. \A p, q \in DOMAIN loads : loads[p].what[1] = loads[q].what[1] => p = q
        BY <1>1 DEF IInv, Typed, LoadsTyped
    <2>3. \A p, q \in DOMAIN loads' : loads'[p].what[1] = loads'[q].what[1] => p = q
        BY <1>3, <2>2
    <2> QED BY <1>3, <2>1, <2>3 DEF LoadsTyped
<1>11. ToAddTyped'
    BY <1>6 DEF ToAddTyped
<1>12. RestTyped'
    <2> HIDE DEF what, c, d, new
    <2> QED BY <1>1, <1>6, <1>7 DEF RestTyped, IInv, Typed
<1>14. EndsResolved'
    <2>1. outcome' # "succeeded"
        BY <1>1, <1>6, NotYetEnded
    <2> QED BY <2>1 DEF EndsResolved
<1>13. CASE phase' = "crashed" /\ components' = components /\ misfiled' = misfiled
    <2>1. ASSUME ~misfiled', ~blind', NEW i \in DOMAIN components'
          PROVE  Sound(components'[i], meta')
        <3>1. Sound(components[i], meta) /\ components'[i] = components[i]
            BY <1>1, <1>13, <2>1 DEF IInv, LoadedWell
        <3> HIDE DEF what, c, d, new
        <3> QED BY <1>7, <3>1, SoundGrows
    <2>2. LoadedWell'
        BY <1>13, <2>1 DEF LoadedWell
    <2> QED BY <2>2, <1>9, <1>10, <1>11, <1>12, <1>14 DEF IInv, Typed
<1>15. CASE /\ place \in DOMAIN components /\ components' = [components EXCEPT ![place] = new]
            /\ misfiled' = (misfiled \/ c.uid # what[1])
    <2>1. ASSUME ~misfiled', ~blind', NEW i \in DOMAIN components'
          PROVE  /\ Sound(components'[i], meta')
                 /\ components'[i].loaded \/ Awaited(components'[i], loads')
        <3>1. i \in DOMAIN components /\ ~misfiled /\ ~blind /\ c.uid = what[1]
            BY <1>1, <1>9, <1>15, <2>1
        <3>2. Sound(components[i], meta) /\ Awaited(components[i], loads)
            BY <1>1, <3>1 DEF IInv, LoadedWell
        <3>3. CASE i = place
            <4>1. c.data = c.version /\ <<c.uid, c.version>> \in meta'
                <5>1. CASE c.loaded
                    BY <1>7, <3>2, <3>3, <5>1 DEF Sound
                <5>2. CASE ~c.loaded
                    <6>1. PICK p \in DOMAIN loads : loads[p].what = <<c.uid, c.version>> /\ c.data = c.version
                        BY <3>2, <3>3, <5>2 DEF Awaited
                    <6>2. loads[p].what[1] = loads[place].what[1]
                        BY <6>1, <3>1
                    <6>3. p = place
                        BY <1>1, <6>2 DEF IInv, Typed, LoadsTyped
                    <6> QED BY <1>1, <6>1, <6>3
                <5> QED BY <5>1, <5>2
            <4>2. d \in Comps /\ d.uid = c.uid /\ d.data = c.version /\ d.version = c.version
                  /\ new.loaded
                BY <1>8, <1>15, <4>1 DEF Kept
            <4>3. components'[i] = new
                BY <1>9, <1>15, <3>1, <3>3, ProperFun DEF IInv, Typed, ListTyped
            <4> HIDE DEF c, d, what
            <4>4. <<d.uid, d.data>> \in meta' /\ d.data \in Versions
                BY <1>7, <4>1, <4>2
            <4>5. Sound(new, meta')
                BY <1>7, <4>2, <4>4, UpdatedIs DEF Sound, Kept
            <4> QED BY <4>2, <4>3, <4>5
        <3>4. CASE i # place
            <4>1. components'[i] = components[i]
                BY <1>15, <3>1, <3>4, ProperFun DEF IInv, Typed, ListTyped
            <4>2. Sound(components[i], meta')
                BY <1>7, <3>2, SoundGrows
            <4>3. ASSUME ~components[i].loaded
                  PROVE  Awaited(components[i], loads')
                <5>1. components[i].data = components[i].version
                    BY <3>2, <4>3 DEF Awaited
                <5>2. PICK p \in DOMAIN loads :
                          /\ loads[p].what = <<components[i].uid, components[i].version>>
                          /\ loads[p].state # "succeeded"
                    BY <3>2, <4>3 DEF Awaited
                <5>3. p # place
                    <6>1. SUFFICES ASSUME p = place PROVE FALSE
                        OBVIOUS
                    <6>2. components[place].uid = components[i].uid
                        BY <3>1, <5>2, <6>1
                    <6> QED BY <1>15, <3>1, <3>4, <6>2 DEF IInv, Typed, ListTyped, Proper, Distinct
                <5>4. p \in DOMAIN loads' /\ loads'[p].what = loads[p].what /\ loads'[p].state # "succeeded"
                    BY <1>3, <5>2, <5>3
                <5> QED BY <5>1, <5>2, <5>4 DEF Awaited
            <4> QED BY <4>1, <4>2, <4>3
        <3> QED BY <3>3, <3>4
    <2>2. ASSUME phase' = "actions", NEW e, e.loaded \/ Awaited(e, loads')
          PROVE  e.loaded
        BY <1>5, <2>2 DEF Awaited
    <2>3. ASSUME ~misfiled', ~blind', NEW i \in DOMAIN components'
          PROVE  /\ Sound(components'[i], meta')
                 /\ phase' = "wait" => Awaited(components'[i], loads')
                 /\ phase' \in {"actions", "resolve"} => components'[i].loaded
        <3>1. Sound(components'[i], meta') /\ (components'[i].loaded \/ Awaited(components'[i], loads'))
            BY <2>1, <2>3
        <3>2. phase' = "wait" => Awaited(components'[i], loads')
            BY <3>1 DEF Awaited
        <3>3. phase' = "actions" => components'[i].loaded
            BY <2>2, <3>1
        <3> QED BY <1>6, <3>1, <3>2, <3>3
    <2>4. LoadedWell'
        BY <2>3 DEF LoadedWell
    <2> QED BY <2>4, <1>9, <1>10, <1>11, <1>12, <1>14 DEF IInv, Typed
<1> QED BY <1>2, <1>13, <1>15

LEMMA RemoteFailureKeeps ==
    ASSUME IInv, NEW place \in DOMAIN loads, RemoteLoadFailed(place)
    PROVE  IInv'
<1>1. /\ phase = "wait" /\ loads[place].state = "running"
      /\ loads' = Replied(place, "failed") /\ CheckIfAllFinished(loads')
      /\ UNCHANGED <<components, online, cursor, addedActions, toAdd, meta, disk, edits,
                     misfiled, blind>>
    BY DEF RemoteLoadFailed
<1>2. /\ loads' \in [DOMAIN loads -> LoadStatus] /\ DOMAIN loads' = DOMAIN loads
      /\ \A p \in DOMAIN loads : /\ loads'[p].what = loads[p].what
                                 /\ loads'[p].state = IF p = place THEN "failed" ELSE loads[p].state
    BY <1>1, RepliedIs
<1>3. \/ phase' = "wait" /\ outcome' = outcome /\ \E j \in DOMAIN loads' : loads'[j].state = "running"
      \/ phase' = "none" /\ outcome' = "failed"
    <2>1. ~ \A j \in DOMAIN loads' : loads'[j].state = "succeeded"
        BY <1>2
    <2> QED BY <1>1, <2>1, FinishedIs
<1>4. ListTyped' /\ ToAddTyped'
    BY <1>1, <1>3 DEF IInv, Typed, ListTyped, ToAddTyped
<1>5. LoadsTyped'
    <2>1. \A p, q \in DOMAIN loads : loads[p].what[1] = loads[q].what[1] => p = q
        BY <1>1 DEF IInv, Typed, LoadsTyped
    <2>2. \A p, q \in DOMAIN loads' : loads'[p].what[1] = loads'[q].what[1] => p = q
        BY <1>2, <2>1
    <2> QED BY <1>2, <1>3, <2>2 DEF LoadsTyped
<1>6. RestTyped'
    BY <1>1, <1>3 DEF RestTyped, IInv, Typed
<1>7. LoadedWell'
    <2>1. ASSUME NEW c, Awaited(c, loads) PROVE Awaited(c, loads')
        BY <1>2, <2>1 DEF Awaited
    <2> QED BY <1>1, <1>3, <2>1 DEF IInv, LoadedWell
<1>8. EndsResolved'
    <2>1. outcome' # "succeeded"
        BY <1>1, <1>3, NotYetEnded
    <2> QED BY <2>1 DEF EndsResolved
<1> QED BY <1>4, <1>5, <1>6, <1>7, <1>8 DEF IInv, Typed

-----------------------------------------------------------------------------
(* performUpdateActions. *)

\* What each of its steps leaves: a proper list, all of it loaded.
GoesOn ==
    /\ Proper(components') /\ meta' \subseteq disk' /\ disk' \subseteq Uids \X Versions
    /\ blind' \in BOOLEAN /\ addedActions' \in BOOLEAN
    /\ ~misfiled /\ ~blind' =>
         \A i \in DOMAIN components' : Sound(components'[i], meta') /\ components'[i].loaded

LEMMA GoingOnKeeps ==
    ASSUME IInv, phase = "actions", phase' \in {"actions", "resolve"}, GoesOn,
           UNCHANGED <<online, loads, toAdd, edits, outcome, misfiled>>
    PROVE  IInv'
<1>1. ListTyped' /\ LoadsTyped' /\ ToAddTyped'
    BY DEF IInv, Typed, GoesOn, ListTyped, LoadsTyped, ToAddTyped
<1>2. RestTyped'
    BY DEF IInv, Typed, GoesOn, RestTyped
<1>3. LoadedWell'
    BY DEF GoesOn, LoadedWell
<1>4. EndsResolved'
    BY NotYetEnded DEF EndsResolved
<1> QED BY <1>1, <1>2, <1>3, <1>4 DEF IInv, Typed

LEMMA MetaIs ==
    ASSUME IInv
    PROVE  /\ meta \in SUBSET (Uids \X Versions) /\ disk \in SUBSET (Uids \X Versions)
           /\ meta \subseteq disk /\ blind \in BOOLEAN /\ addedActions \in BOOLEAN
           /\ misfiled \in BOOLEAN /\ Proper(components)
           /\ components \in [DOMAIN components -> Comps]
           /\ phase = "actions" /\ ~misfiled /\ ~blind =>
                \A i \in DOMAIN components : Sound(components[i], meta) /\ components[i].loaded
BY ProperFun DEF IInv, Typed, RestTyped, ListTyped, LoadedWell

\* The same component with another action.
LEMMA ActedIs ==
    ASSUME NEW c \in Comps, NEW action \in [kind : Actions, version : AnyVersion], NEW known
    PROVE  LET d == [c EXCEPT !.action = action] IN
           /\ d \in Comps /\ d.uid = c.uid /\ d.loaded = c.loaded /\ d.action = action
           /\ Sound(c, known) => Sound(d, known)
BY DEF Comps, Sound

LEMMA NoActionIs == NoAction \in [kind : Actions, version : AnyVersion] /\ NoAction.kind = "none"
BY DEF NoAction, Actions, AnyVersion

LEMMA NothingGoesOn ==
    ASSUME IInv, phase = "actions", NEW i \in DOMAIN components,
           components' = [components EXCEPT ![i].action = NoAction],
           UNCHANGED <<addedActions, meta, disk, blind>>
    PROVE  GoesOn
<1> DEFINE d == [components[i] EXCEPT !.action = NoAction]
<1>1. components[i] \in Comps
    BY MetaIs
<1>2. /\ d \in Comps /\ d.uid = components[i].uid /\ d.loaded = components[i].loaded
      /\ d.action = NoAction /\ (Sound(components[i], meta) => Sound(d, meta))
    BY <1>1, ActedIs, NoActionIs
<1>3. components' = [components EXCEPT ![i] = d]
    OBVIOUS
<1>4. Aimed(d)
    BY <1>2, NoActionIs DEF Aimed
<1> HIDE DEF d
<1>5. Proper(components)
    BY MetaIs
<1>6. /\ Proper(components') /\ DOMAIN components' = DOMAIN components
      /\ \A j \in DOMAIN components : components'[j] = IF j = i THEN d ELSE components[j]
    BY ONLY <1>2, <1>3, <1>4, <1>5, i \in DOMAIN components, ChangedOne
<1>7. ~misfiled /\ ~blind' =>
        \A j \in DOMAIN components' : Sound(components'[j], meta') /\ components'[j].loaded
    BY <1>2, <1>6, MetaIs
<1> QED BY <1>6, <1>7, MetaIs DEF GoesOn

LEMMA ChangeGoesOn ==
    ASSUME IInv, phase = "actions", NEW i \in DOMAIN components, NEW version \in Versions,
           ChangeVersion(i, version)
    PROVE  GoesOn
<1> DEFINE c == components[i]
           what == <<c.uid, version>>
           had == version = c.version \/ what \in meta
<1>1. PICK arrives \in BOOLEAN :
        /\ had => arrives
        /\ components' = [components EXCEPT ![i] = [Waited(c, version, arrives) EXCEPT !.action = NoAction]]
        /\ IF had THEN UNCHANGED <<meta, disk, blind>>
           ELSE IF arrives
           THEN meta' = meta \cup {what} /\ disk' = disk \cup {what} /\ UNCHANGED blind
           ELSE blind' = TRUE /\ UNCHANGED <<meta, disk>>
        /\ UNCHANGED addedActions
    BY DEF ChangeVersion
<1> DEFINE w == Waited(c, version, arrives)
           d == [w EXCEPT !.action = NoAction]
<1>2. c \in Comps /\ c.uid \in Uids /\ what \in Uids \X Versions
    BY MetaIs DEF Comps
<1>3. meta' \subseteq disk' /\ disk' \subseteq Uids \X Versions /\ blind' \in BOOLEAN /\ meta \subseteq meta'
    <2> HIDE DEF what, c
    <2> QED BY <1>1, <1>2, MetaIs
<1>4. w \in Comps /\ Kept(c, w) /\ w.loaded
    BY <1>2, MetaIs, WaitedIs
<1>5. d \in Comps /\ d.uid = c.uid /\ d.loaded /\ Aimed(d) /\ (Sound(w, meta') => Sound(d, meta'))
    <2> HIDE DEF w, c
    <2>1. d \in Comps /\ d.uid = w.uid /\ d.loaded = w.loaded /\ d.action = NoAction
          /\ (Sound(w, meta') => Sound(d, meta'))
        BY <1>4, ActedIs, NoActionIs
    <2> QED BY <1>4, <2>1, NoActionIs DEF Kept, Aimed
<1>6. components' = [components EXCEPT ![i] = d]
    BY <1>1
<1>7. ASSUME ~misfiled, ~blind' PROVE Sound(w, meta')
    <2>1. ~blind /\ arrives
        BY <1>1, <1>7, MetaIs
    <2>2. Sound(c, meta) /\ c.loaded
        BY <1>7, <2>1, MetaIs
    <2>3. Sound(w, meta \cup {what})
        BY <1>2, <2>1, <2>2, MetaIs, WaitedIs
    <2>4. CASE meta' = meta \cup {what}
        BY <2>3, <2>4
    <2>5. CASE meta' = meta /\ what \in meta
        <3>1. meta \cup {what} = meta'
            BY <2>5
        <3> QED BY <2>3, <3>1
    <2>6. CASE meta' = meta /\ version = c.version
        <3>1. <<c.uid, c.version>> \in meta
            BY <2>2 DEF Sound
        <3>2. meta \cup {what} = meta'
            BY <2>6, <3>1
        <3> QED BY <2>3, <3>2
    <2> QED BY <1>1, <2>1, <2>4, <2>5, <2>6
<1> HIDE DEF d
<1>8. Proper(components) /\ d.uid = components[i].uid
    BY <1>5, MetaIs
<1>9. /\ Proper(components') /\ DOMAIN components' = DOMAIN components
      /\ \A j \in DOMAIN components : components'[j] = IF j = i THEN d ELSE components[j]
    BY ONLY <1>5, <1>6, <1>8, i \in DOMAIN components, ChangedOne
<1>10. ASSUME ~misfiled, ~blind', NEW j \in DOMAIN components'
       PROVE  Sound(components'[j], meta') /\ components'[j].loaded
    <2>1. CASE j = i
        BY <1>5, <1>7, <1>9, <1>10, <2>1
    <2>2. CASE j # i
        <3>1. ~blind
            BY <1>1, <1>10, MetaIs
        <3>2. Sound(components[j], meta) /\ components[j].loaded /\ components'[j] = components[j]
            BY <1>9, <1>10, <2>2, <3>1, MetaIs
        <3> QED BY <1>3, <3>2, SoundGrows
    <2> QED BY <2>1, <2>2
<1> QED BY <1>1, <1>3, <1>9, <1>10, MetaIs DEF GoesOn

LEMMA ImportantGoesOn ==
    ASSUME IInv, phase = "actions", NEW i \in DOMAIN components, ImportantChanged(i)
    PROVE  GoesOn
<1> DEFINE c == components[i]
           old == IF c.action.version = NoVersion THEN {} ELSE Meta[c.uid][c.action.version]
           dropped == {r.uid : r \in old} \ {r.uid : r \in c.requires}
           what == <<c.uid, c.action.version>>
           Linked(d) == Needs(d, c.uid) \/ Needs(c, d.uid)
           Follow(d) ==
               LET r == CHOOSE q \in c.requires : q.uid = d.uid IN
               IF Needs(c, d.uid) /\ Wish(r) # NoVersion
               THEN [kind |-> "change", version |-> Wish(r)]
               ELSE [kind |-> "latest", version |-> c.cached]
           remove == [kind |-> "remove", version |-> NoVersion]
<1>1. PICK told \in BOOLEAN :
        LET known  == IF told /\ what[2] # NoVersion THEN {what} ELSE {}
            leaves == IF told THEN dropped ELSE {} IN
        /\ meta' = meta \cup known /\ disk' = disk \cup known
        /\ components' = [j \in DOMAIN components |->
             LET d == components[j] IN
             IF j = i THEN [d EXCEPT !.action = NoAction]
             ELSE IF Linked(d) THEN [d EXCEPT !.action = Follow(d)]
             ELSE IF d.uid \in leaves THEN [d EXCEPT !.action = remove]
             ELSE d]
        /\ addedActions' = (addedActions \/ components' # [components EXCEPT ![i].action = NoAction])
        /\ UNCHANGED blind
    BY DEF ImportantChanged
<1>2. c \in Comps /\ c.uid \in Uids /\ c.action.version \in AnyVersion /\ c.cached \in AnyVersion
      /\ c.requires \subseteq Requirement
    BY MetaIs DEF Comps
<1>3. meta' \subseteq disk' /\ disk' \subseteq Uids \X Versions /\ blind' \in BOOLEAN
      /\ meta \subseteq meta' /\ addedActions' \in BOOLEAN
    <2>1. what[2] # NoVersion => what \in Uids \X Versions
        BY <1>2 DEF AnyVersion
    <2>2. addedActions' \in BOOLEAN
        BY <1>1
    <2> HIDE DEF what, c
    <2> QED BY <1>1, <2>1, <2>2, MetaIs
<1>4. ASSUME NEW d, Linked(d)
      PROVE  /\ Follow(d) \in [kind : Actions, version : AnyVersion]
             /\ Follow(d).kind = "change" => Follow(d).version \in Versions
    <2> DEFINE r == CHOOSE q \in c.requires : q.uid = d.uid
    <2>1. CASE Needs(c, d.uid) /\ Wish(r) # NoVersion
        <3>1. r \in Requirement
            BY <1>2, <2>1 DEF Needs
        <3>2. Wish(r) \in Versions
            BY <2>1, <3>1 DEF Wish, Requirement, AnyVersion
        <3>3. Follow(d) = [kind |-> "change", version |-> Wish(r)]
            BY <2>1
        <3> HIDE DEF Follow, r
        <3> QED BY <3>2, <3>3 DEF Actions, AnyVersion
    <2>2. CASE ~(Needs(c, d.uid) /\ Wish(r) # NoVersion)
        <3>1. Follow(d) = [kind |-> "latest", version |-> c.cached]
            BY <2>2
        <3> HIDE DEF Follow
        <3> QED BY <1>2, <3>1 DEF Actions
    <2> QED BY <2>1, <2>2
<1>5. remove \in [kind : Actions, version : AnyVersion] /\ remove.kind = "remove"
    BY DEF Actions, AnyVersion
<1> HIDE DEF remove, Follow, Linked, c
<1>6. /\ DOMAIN components' = DOMAIN components
      /\ \A j \in DOMAIN components : LET d == components[j] IN
           \/ components'[j] = [d EXCEPT !.action = NoAction]
           \/ Linked(d) /\ components'[j] = [d EXCEPT !.action = Follow(d)]
           \/ components'[j] = [d EXCEPT !.action = remove]
           \/ components'[j] = d
    BY <1>1
<1>7. ASSUME NEW j \in DOMAIN components
      PROVE  /\ components'[j] \in Comps /\ components'[j].uid = components[j].uid
             /\ components'[j].loaded = components[j].loaded /\ Aimed(components'[j])
             /\ Sound(components[j], meta) => Sound(components'[j], meta)
    <2>1. components[j] \in Comps /\ Aimed(components[j])
        BY MetaIs DEF Proper
    <2>2. CASE components'[j] = components[j]
        BY <2>1, <2>2
    <2>3. ASSUME NEW a \in [kind : Actions, version : AnyVersion],
                 a.kind = "change" => a.version \in Versions,
                 components'[j] = [components[j] EXCEPT !.action = a]
          PROVE  /\ components'[j] \in Comps /\ components'[j].uid = components[j].uid
                 /\ components'[j].loaded = components[j].loaded /\ Aimed(components'[j])
                 /\ Sound(components[j], meta) => Sound(components'[j], meta)
        <3>1. /\ components'[j] \in Comps /\ components'[j].uid = components[j].uid
              /\ components'[j].loaded = components[j].loaded /\ components'[j].action = a
              /\ Sound(components[j], meta) => Sound(components'[j], meta)
            BY <2>1, <2>3, ActedIs
        <3> QED BY <2>3, <3>1 DEF Aimed
    <2>4. CASE components'[j] = [components[j] EXCEPT !.action = NoAction]
        <3>1. NoAction \in [kind : Actions, version : AnyVersion] /\ NoAction.kind # "change"
            BY NoActionIs
        <3> QED BY <2>3, <2>4, <3>1
    <2>5. CASE Linked(components[j]) /\ components'[j] = [components[j] EXCEPT !.action = Follow(components[j])]
        <3>1. /\ Follow(components[j]) \in [kind : Actions, version : AnyVersion]
              /\ Follow(components[j]).kind = "change" => Follow(components[j]).version \in Versions
            BY <1>4, <2>5
        <3> QED BY <2>3, <2>5, <3>1
    <2>6. CASE components'[j] = [components[j] EXCEPT !.action = remove]
        <3>1. remove.kind # "change"
            BY <1>5
        <3> QED BY <1>5, <2>3, <2>6, <3>1
    <2> QED BY <1>6, <2>2, <2>4, <2>5, <2>6
<1>8. components' \in [DOMAIN components -> Comps]
    <2>1. components' = [j \in DOMAIN components |-> components'[j]]
        BY <1>1
    <2> QED BY <1>7, <2>1
<1>9. Proper(components')
    BY <1>7, <1>8, MetaIs, ChangedList
<1>10. ASSUME ~misfiled, ~blind', NEW j \in DOMAIN components'
       PROVE  Sound(components'[j], meta') /\ components'[j].loaded
    <2>1. j \in DOMAIN components /\ Sound(components[j], meta) /\ components[j].loaded
        BY <1>1, <1>6, <1>10, MetaIs
    <2>2. Sound(components'[j], meta) /\ components'[j].loaded
        BY <1>7, <2>1
    <2> QED BY <1>3, <2>2, SoundGrows
<1> QED BY <1>3, <1>9, <1>10 DEF GoesOn

LEMMA RemoveGoesOn ==
    ASSUME IInv, phase = "actions", NEW i \in DOMAIN components, RemoveComponent(i)
    PROVE  GoesOn
<1>1. CASE components[i].important
    BY <1>1, NothingGoesOn DEF RemoveComponent
<1>2. CASE ~components[i].important
    <2>1. components' = RemoveAt(components, i) /\ UNCHANGED <<addedActions, meta, disk, blind>>
        BY <1>2 DEF RemoveComponent
    <2>2. Proper(components') /\ Among(components', components)
        BY <2>1, MetaIs, OneLess
    <2> QED BY <2>1, <2>2, MetaIs DEF GoesOn, Among
<1> QED BY <1>1, <1>2

LEMMA ActionsKeep ==
    ASSUME IInv, PerformUpdateActions
    PROVE  IInv'
<1>1. phase = "actions" /\ UNCHANGED <<online, loads, toAdd, edits, outcome, misfiled>>
    BY DEF PerformUpdateActions
<1>2. CASE cursor \in DOMAIN components
    <2> DEFINE c == components[cursor]
    <2>1. PerformAction(cursor) /\ phase' = phase
        BY <1>2 DEF PerformUpdateActions
    <2>2. c \in Comps /\ Aimed(c)
        BY <1>2, MetaIs DEF Proper
    <2>3. \/ c.action.kind = "change" /\ ChangeVersion(cursor, c.action.version)
          \/ ImportantChanged(cursor)
          \/ RemoveComponent(cursor)
          \/ /\ c.action.kind = "latest" /\ c.action.version # NoVersion
             /\ Recommended[c.uid][c.action.version] # NoVersion
             /\ ChangeVersion(cursor, Recommended[c.uid][c.action.version])
          \/ NothingToDo(cursor)
        BY <2>1 DEF PerformAction
    <2>4. GoesOn
        <3>1. CASE c.action.kind = "change" /\ ChangeVersion(cursor, c.action.version)
            <4>1. c.action.version \in Versions
                BY <2>2, <3>1 DEF Aimed
            <4> QED BY <1>1, <1>2, <3>1, <4>1, ChangeGoesOn
        <3>2. CASE ImportantChanged(cursor)
            BY <1>1, <1>2, <3>2, ImportantGoesOn
        <3>3. CASE RemoveComponent(cursor)
            BY <1>1, <1>2, <3>3, RemoveGoesOn
        <3>4. CASE /\ c.action.kind = "latest" /\ c.action.version # NoVersion
                   /\ Recommended[c.uid][c.action.version] # NoVersion
                   /\ ChangeVersion(cursor, Recommended[c.uid][c.action.version])
            <4>1. c.uid \in Uids /\ c.action.version \in Versions
                BY <2>2, <3>4 DEF Comps, AnyVersion
            <4> HIDE DEF c
            <4>2. Recommended[c.uid][c.action.version] \in AnyVersion
                BY <4>1, ComponentAssumption
            <4>3. Recommended[c.uid][c.action.version] \in Versions
                BY <3>4, <4>2 DEF AnyVersion
            <4> QED BY <1>1, <1>2, <3>4, <4>3, ChangeGoesOn
        <3>5. CASE NothingToDo(cursor)
            BY <1>1, <1>2, <3>5, NothingGoesOn DEF NothingToDo
        <3> QED BY <2>3, <3>1, <3>2, <3>3, <3>4, <3>5
    <2> QED BY <1>1, <2>1, <2>4, GoingOnKeeps
<1>3. CASE cursor \notin DOMAIN components
    <2>1. /\ phase' \in {"actions", "resolve"} /\ addedActions' = FALSE
          /\ UNCHANGED <<components, meta, disk, blind>>
        BY <1>3 DEF PerformUpdateActions
    <2>2. GoesOn
        BY <1>1, <2>1, MetaIs DEF GoesOn
    <2> QED BY <1>1, <2>1, <2>2, GoingOnKeeps
<1> QED BY <1>2, <1>3

-----------------------------------------------------------------------------
(* resolveDependencies. *)

\* The list as SuccessMeansResolved wants it.
ResolvedIn(list) ==
    \A i \in DOMAIN list : LET c == list[i] IN
        /\ c.cached = c.version
        /\ \A r \in Meta[c.uid][c.version] :
             \E d \in ToSet(list) : d.uid = r.uid /\ r.equals \in {NoVersion, d.version}
        /\ c.dependencyOnly /\ c.uid \in VolatileUids =>
             \E d \in ToSet(list) : \E r \in Meta[d.uid][d.version] : r.uid = c.uid

LEMMA ElementsAre ==
    ASSUME NEW list
    PROVE  /\ \A i \in DOMAIN list : list[i] \in ToSet(list)
           /\ \A d \in ToSet(list) : \E i \in DOMAIN list : d = list[i]
BY DEF ToSet

LEMMA NothingLeftToDo ==
    ASSUME IInv, phase = "resolve", Obsolete = {}, Missing \cup OtherVersion = {},
           ~misfiled, ~blind
    PROVE  ResolvedIn(components)
<1>1. \A i \in DOMAIN components : /\ components[i] \in Comps
                                   /\ Sound(components[i], meta) /\ components[i].loaded
    BY MetaIs DEF IInv, LoadedWell
<1>2. \A i \in DOMAIN components : LET c == components[i] IN
         /\ c.cached = c.version /\ c.requires = Meta[c.uid][c.version]
         /\ c.requires \subseteq Requirement /\ c.volatile = (c.uid \in VolatileUids)
    BY <1>1 DEF Sound, Comps
<1> SUFFICES ASSUME NEW i \in DOMAIN components
             PROVE  LET c == components[i] IN
                    /\ \A r \in Meta[c.uid][c.version] :
                         \E d \in ToSet(components) : d.uid = r.uid /\ r.equals \in {NoVersion, d.version}
                    /\ c.dependencyOnly /\ c.uid \in VolatileUids =>
                         \E d \in ToSet(components) : \E r \in Meta[d.uid][d.version] : r.uid = c.uid
    BY <1>2 DEF ResolvedIn
<1> DEFINE c == components[i]
<1>3. ASSUME NEW r \in Meta[c.uid][c.version]
      PROVE  \E d \in ToSet(components) : d.uid = r.uid /\ r.equals \in {NoVersion, d.version}
    <2>1. r \in c.requires /\ r.uid \in Uids
        BY <1>2 DEF Requirement
    <2>2. r \in Asked(r.uid)
        BY <2>1 DEF Asked
    <2>3. r.uid \in Required
        BY <2>1, <2>2 DEF Required
    <2>4. r.uid \in Listed(components)
        BY <2>3 DEF Missing
    <2> DEFINE p == Place(components, r.uid)
    <2>5. p \in DOMAIN components /\ components[p].uid = r.uid
        BY <2>4, PlaceIs
    <2>6. r.equals # NoVersion => r.equals \in Exact(r.uid)
        BY <2>2 DEF Exact
    <2>7. r.equals # NoVersion => components[p].cached = r.equals
        BY <2>3, <2>4, <2>6 DEF OtherVersion
    <2>8. components[p].cached = components[p].version /\ components[p] \in ToSet(components)
        BY <1>2, <2>5, ElementsAre
    <2> HIDE DEF p, c
    <2>9. components[p].uid = r.uid /\ r.equals \in {NoVersion, components[p].version}
        BY <2>5, <2>7, <2>8
    <2> QED BY <2>8, <2>9
<1>4. ASSUME c.dependencyOnly, c.uid \in VolatileUids
      PROVE  \E d \in ToSet(components) : \E r \in Meta[d.uid][d.version] : r.uid = c.uid
    <2>1. c \in ToSet(components) /\ c.volatile
        BY <1>2, <1>4, ElementsAre
    <2>2. c.uid \in Required
        BY <1>4, <2>1 DEF Obsolete
    <2>3. PICK r \in Asked(c.uid) : TRUE
        BY <2>2 DEF Required
    <2>4. PICK j \in DOMAIN components : r \in components[j].requires /\ r.uid = c.uid
        BY <2>3 DEF Asked
    <2>5. r \in Meta[components[j].uid][components[j].version] /\ components[j] \in ToSet(components)
        BY <1>2, <2>4, ElementsAre
    <2> QED BY <2>4, <2>5
<1> QED BY <1>3, <1>4

LEMMA ChangesAre ==
    ASSUME IInv
    PROVE  /\ Proper(WithChanges(components)) /\ DOMAIN WithChanges(components) = DOMAIN components
           /\ \A i \in DOMAIN components :
                /\ WithChanges(components)[i].uid = components[i].uid
                /\ Sound(components[i], meta) => Sound(WithChanges(components)[i], meta)
<1> DEFINE new == WithChanges(components)
           to(i) == CHOOSE v \in Exact(components[i].uid) : TRUE
<1>1. /\ DOMAIN new = DOMAIN components
      /\ new = [i \in DOMAIN components |-> new[i]]
      /\ \A i \in DOMAIN components :
           new[i] = IF components[i].uid \in OtherVersion
                    THEN WithVersion(components[i], to(i), meta) ELSE components[i]
    BY DEF WithChanges
<1>2. components \in Seq(Comps)
    BY MetaIs DEF Proper
<1>3. ASSUME NEW i \in DOMAIN components, components[i].uid \in OtherVersion
      PROVE  to(i) \in AnyVersion
    <2>1. Exact(components[i].uid) # {}
        BY <1>3 DEF OtherVersion
    <2> QED BY <1>2, <2>1, AskedIs DEF AnyVersion
<1> HIDE DEF to, new
<1>4. ASSUME NEW i \in DOMAIN components
      PROVE  /\ new[i] \in Comps /\ new[i].uid = components[i].uid /\ Aimed(new[i])
             /\ Sound(components[i], meta) => Sound(new[i], meta)
    <2>1. components[i] \in Comps /\ Aimed(components[i])
        BY MetaIs DEF Proper
    <2>2. CASE components[i].uid \in OtherVersion
        <3>1. new[i] = WithVersion(components[i], to(i), meta) /\ to(i) \in AnyVersion
            BY <1>1, <1>3, <2>2
        <3>2. /\ new[i] \in Comps /\ Kept(components[i], new[i])
              /\ Sound(components[i], meta) => Sound(new[i], meta)
            BY <2>1, <3>1, MetaIs, WithVersionIs
        <3> QED BY <2>1, <3>2 DEF Kept, Aimed
    <2>3. CASE components[i].uid \notin OtherVersion
        BY <1>1, <2>1, <2>3
    <2> QED BY <2>2, <2>3
<1>5. new \in [DOMAIN components -> Comps]
    BY <1>1, <1>4
<1>6. Proper(new)
    BY <1>4, <1>5, MetaIs, ChangedList
<1> QED BY <1>1, <1>4, <1>6 DEF new

LEMMA ResolveKeeps ==
    ASSUME IInv, ResolveDependencies
    PROVE  IInv'
<1>1. /\ phase = "resolve"
      /\ UNCHANGED <<online, loads, cursor, addedActions, meta, disk, edits, misfiled, blind>>
    BY DEF ResolveDependencies
<1>2. outcome \in {"none", "failed"}
    BY <1>1, NotYetEnded
<1>3. \/ phase' = "none" /\ outcome' = "failed" /\ UNCHANGED <<components, toAdd>>
      \/ Removable # {} /\ components' = RemoveAt(components, Min(Removable))
           /\ UNCHANGED <<phase, toAdd, outcome>>
      \/ UNCHANGED <<components, phase, toAdd, outcome>>
      \/ /\ Obsolete = {} /\ Missing \cup OtherVersion = {}
         /\ phase' = "none" /\ outcome' = "succeeded" /\ UNCHANGED <<components, toAdd>>
      \/ /\ components' = WithChanges(components) /\ toAdd' = Additions
         /\ phase' = "add" /\ UNCHANGED outcome
    BY DEF ResolveDependencies, Ends
<1>4. /\ \A i \in DOMAIN components : ~misfiled /\ ~blind =>
           Sound(components[i], meta) /\ components[i].loaded
      /\ Proper(components) /\ components \in Seq(Comps)
    BY <1>1, MetaIs DEF IInv, LoadedWell, Proper
<1>5. RestTyped'
    BY <1>1, <1>3 DEF IInv, Typed, RestTyped
<1>6. LoadsTyped'
    BY <1>1, <1>3 DEF IInv, Typed, LoadsTyped
<1>7. CASE phase' = "none" /\ UNCHANGED <<components, toAdd>> /\ outcome' = "failed"
    <2>1. ListTyped' /\ ToAddTyped' /\ LoadedWell' /\ EndsResolved'
        BY <1>1, <1>4, <1>7 DEF ListTyped, ToAddTyped, LoadedWell, EndsResolved
    <2> QED BY <1>5, <1>6, <2>1 DEF IInv, Typed
<1>8. CASE Removable # {} /\ components' = RemoveAt(components, Min(Removable))
             /\ UNCHANGED <<phase, toAdd, outcome>>
    <2>1. Removable \in SUBSET Nat /\ Removable \subseteq DOMAIN components
        <3>1. DOMAIN components \subseteq Nat
            BY <1>4
        <3> QED BY <3>1 DEF Removable
    <2>2. Min(Removable) \in DOMAIN components
        BY <1>8, <2>1, SmallestIs
    <2>3. Proper(components') /\ Among(components', components)
        BY <1>4, <1>8, <2>2, OneLess
    <2>4. ListTyped' /\ ToAddTyped'
        BY <1>1, <1>8, <2>3 DEF ListTyped, ToAddTyped
    <2>5. LoadedWell' /\ EndsResolved'
        BY <1>1, <1>2, <1>4, <1>8, <2>3 DEF LoadedWell, EndsResolved, Among
    <2> QED BY <1>5, <1>6, <2>4, <2>5 DEF IInv, Typed
<1>9. CASE UNCHANGED <<components, phase, toAdd, outcome>>
    <2>1. ListTyped' /\ ToAddTyped' /\ LoadedWell' /\ EndsResolved'
        BY <1>1, <1>2, <1>4, <1>9 DEF ListTyped, ToAddTyped, LoadedWell, EndsResolved
    <2> QED BY <1>5, <1>6, <2>1 DEF IInv, Typed
<1>10. CASE /\ Obsolete = {} /\ Missing \cup OtherVersion = {}
            /\ phase' = "none" /\ outcome' = "succeeded" /\ UNCHANGED <<components, toAdd>>
    <2>1. ListTyped' /\ ToAddTyped' /\ LoadedWell'
        BY <1>1, <1>4, <1>10 DEF ListTyped, ToAddTyped, LoadedWell
    <2>2. ~misfiled' /\ ~blind' => ResolvedIn(components)
        BY <1>1, <1>10, NothingLeftToDo
    <2>3. ~misfiled' /\ ~blind' => ResolvedIn(components')
        BY <1>10, <2>2
    <2>4. EndsResolved'
        BY <1>10, <2>3 DEF EndsResolved, SuccessMeansResolved, ResolvedIn
    <2> QED BY <1>5, <1>6, <2>1, <2>4 DEF IInv, Typed
<1>11. CASE /\ components' = WithChanges(components) /\ toAdd' = Additions
            /\ phase' = "add" /\ UNCHANGED outcome
    <2>1. /\ Proper(components') /\ DOMAIN components' = DOMAIN components
          /\ \A i \in DOMAIN components :
               /\ components'[i].uid = components[i].uid
               /\ Sound(components[i], meta) => Sound(components'[i], meta)
        BY <1>11, ChangesAre
    <2>2. Listed(components') = Listed(components)
        BY <2>1 DEF Listed
    <2>3. /\ toAdd' \in [DOMAIN toAdd' -> [place : DOMAIN components', version : AnyVersion]]
          /\ DOMAIN toAdd' \subseteq Uids \ Listed(components')
        BY <1>4, <1>11, <2>1, <2>2, AdditionsAre
    <2>4. ListTyped' /\ ToAddTyped'
        BY <2>1, <2>3 DEF ListTyped, ToAddTyped
    <2>5. LoadedWell' /\ EndsResolved'
        BY <1>1, <1>2, <1>4, <1>11, <2>1 DEF LoadedWell, EndsResolved
    <2> QED BY <1>5, <1>6, <2>4, <2>5 DEF IInv, Typed
<1> QED BY <1>3, <1>7, <1>8, <1>9, <1>10, <1>11

LEMMA AddKeeps ==
    ASSUME IInv, AddMissing
    PROVE  IInv'
<1>1. /\ phase = "add"
      /\ UNCHANGED <<online, loads, cursor, addedActions, meta, disk, edits, outcome, misfiled, blind>>
    BY DEF AddMissing
<1>2. outcome \in {"none", "failed"}
    BY <1>1, NotYetEnded
<1>3. \/ phase' = "load" /\ UNCHANGED <<components, toAdd>>
      \/ \E uid \in DOMAIN toAdd :
           /\ components' = InsertAt(components, toAdd[uid].place, Component(uid, toAdd[uid].version, TRUE))
           /\ toAdd' = [other \in DOMAIN toAdd \ {uid} |-> toAdd[other]]
           /\ UNCHANGED phase
    BY DEF AddMissing
<1>4. /\ \A i \in DOMAIN components : ~misfiled /\ ~blind => Sound(components[i], meta)
      /\ Proper(components)
    BY MetaIs DEF IInv, LoadedWell
<1>5. RestTyped' /\ LoadsTyped' /\ EndsResolved'
    <2>1. phase' \in {"load", "add"}
        BY <1>1, <1>3
    <2> QED BY <1>1, <1>2, <2>1 DEF IInv, Typed, RestTyped, LoadsTyped, EndsResolved
<1>6. CASE phase' = "load" /\ UNCHANGED <<components, toAdd>>
    <2>1. ListTyped' /\ ToAddTyped' /\ LoadedWell'
        BY <1>1, <1>4, <1>6 DEF ListTyped, ToAddTyped, LoadedWell
    <2> QED BY <1>5, <2>1 DEF IInv, Typed
<1>7. ASSUME NEW uid \in DOMAIN toAdd,
             components' = InsertAt(components, toAdd[uid].place, Component(uid, toAdd[uid].version, TRUE)),
             toAdd' = [other \in DOMAIN toAdd \ {uid} |-> toAdd[other]],
             UNCHANGED phase
      PROVE  IInv'
    <2> DEFINE c == Component(uid, toAdd[uid].version, TRUE)
               place == toAdd[uid].place
    <2>1. /\ toAdd \in [DOMAIN toAdd -> [place : DOMAIN components, version : AnyVersion]]
          /\ DOMAIN toAdd \subseteq Uids \ Listed(components)
        BY <1>1 DEF IInv, Typed, ToAddTyped
    <2>2. place \in DOMAIN components /\ toAdd[uid].version \in AnyVersion /\ uid \in Uids
        BY <2>1
    <2>3. c \in Comps /\ c.uid = uid /\ ~c.loaded /\ Aimed(c)
        BY <2>2, ComponentIs DEF Aimed
    <2>4. components' = InsertAt(components, place, c)
        BY <1>7
    <2> HIDE DEF c, place
    <2>5. c.uid \notin Listed(components)
        BY <2>1, <2>3
    <2>6. /\ Proper(components') /\ DOMAIN components \subseteq DOMAIN components'
          /\ \A j \in DOMAIN components' :
               components'[j] = c \/ \E k \in DOMAIN components : components'[j] = components[k]
        BY <1>4, <2>2, <2>3, <2>4, <2>5, OneMore
    <2>7. ToAddTyped'
        <3>1. DOMAIN toAdd' = DOMAIN toAdd \ {uid} /\ \A u \in DOMAIN toAdd' : toAdd'[u] = toAdd[u]
            BY <1>7
        <3>2. \A u \in DOMAIN toAdd' : toAdd'[u] \in [place : DOMAIN components', version : AnyVersion]
            BY <2>1, <2>6, <3>1
        <3>3. toAdd' \in [DOMAIN toAdd' -> [place : DOMAIN components', version : AnyVersion]]
            BY <1>7, <3>1, <3>2
        <3>4. Listed(components') \subseteq Listed(components) \cup {uid}
            BY <2>3, <2>6 DEF Listed
        <3>5. DOMAIN toAdd' \subseteq Uids \ Listed(components')
            BY <2>1, <3>1, <3>4
        <3> QED BY <3>3, <3>5 DEF ToAddTyped
    <2>8. LoadedWell'
        <3>1. ASSUME ~misfiled', ~blind', NEW j \in DOMAIN components'
              PROVE  Sound(components'[j], meta')
            <4>1. Sound(c, meta)
                BY <2>3 DEF Sound
            <4> QED BY <1>1, <1>4, <2>6, <3>1, <4>1
        <3> QED BY <1>1, <1>7, <3>1 DEF LoadedWell
    <2>9. ListTyped'
        BY <2>6 DEF ListTyped
    <2> QED BY <1>5, <2>7, <2>8, <2>9 DEF IInv, Typed
<1> QED BY <1>3, <1>6, <1>7

-----------------------------------------------------------------------------
(* The user. *)

\* An update that starts again has only its list to keep.
LEMMA RestartKeeps ==
    ASSUME IInv, UserActs, phase' \in {"none", "load"}, outcome' = "none",
           online' \in BOOLEAN, addedActions' \in BOOLEAN, Proper(components'),
           meta' \subseteq disk, disk' = disk, misfiled' \in BOOLEAN, blind' \in BOOLEAN,
           loads' \in [DOMAIN loads' -> LoadStatus],
           ~misfiled' /\ ~blind' => \A i \in DOMAIN components' : Sound(components'[i], meta')
    PROVE  IInv'
<1>1. ListTyped' /\ LoadsTyped' /\ ToAddTyped' /\ LoadedWell' /\ EndsResolved'
    BY DEF ListTyped, LoadsTyped, ToAddTyped, LoadedWell, EndsResolved
<1>2. edits' \in 0..MaxEdits
    BY ComponentAssumption DEF UserActs, IInv, Typed, RestTyped
<1>3. RestTyped'
    BY <1>2 DEF IInv, Typed, RestTyped
<1> QED BY <1>1, <1>3 DEF IInv, Typed

LEMMA NoLoads == << >> \in [DOMAIN << >> -> LoadStatus]
OBVIOUS

LEMMA ResolveIs ==
    ASSUME NEW net \in BOOLEAN, Resolve(net)
    PROVE  /\ phase' = "load" /\ outcome' = "none" /\ online' \in BOOLEAN
           /\ addedActions' \in BOOLEAN /\ loads' \in [DOMAIN loads' -> LoadStatus]
BY NoLoads DEF Resolve

\* A list that is read from its file has nothing loaded.
LEMMA RereadIs ==
    ASSUME NEW list, Proper(list), Reads(list)
    PROVE  Proper(components') /\ \A i \in DOMAIN components' : ~components'[i].loaded
<1>1. components' = [i \in DOMAIN list |-> Reread(list[i])]
    BY DEF Reads
<1>2. ASSUME NEW i \in DOMAIN list
      PROVE  /\ Reread(list[i]) \in Comps /\ Reread(list[i]).uid = list[i].uid
             /\ ~Reread(list[i]).loaded /\ Aimed(Reread(list[i]))
    <2>1. list[i] \in Comps
        BY DEF Proper
    <2>2. NoAction \in [kind : Actions, version : AnyVersion] /\ NoVersion \in AnyVersion
        BY NoActionIs DEF AnyVersion
    <2>3. /\ Reread(list[i]) \in Comps /\ Reread(list[i]).uid = list[i].uid
          /\ Reread(list[i]).loaded = FALSE /\ Reread(list[i]).action = NoAction
        BY <2>1, <2>2 DEF Reread, Comps
    <2> QED BY <2>3, NoActionIs DEF Aimed
<1>3. /\ components' \in [DOMAIN list -> Comps] /\ DOMAIN components' = DOMAIN list
      /\ \A i \in DOMAIN list : components'[i] = Reread(list[i])
    BY <1>1, <1>2
<1>4. Proper(components')
    BY <1>2, <1>3, ChangedList
<1> QED BY <1>2, <1>3, <1>4

\* Another list made of what was in it, read again or not.
LEMMA ReloadKeeps ==
    ASSUME IInv, UserActs, NEW list, NEW net \in BOOLEAN, Reload(list, net),
           Proper(list), Among(list, components), UNCHANGED <<meta, disk>>
    PROVE  IInv'
<1>1. CASE phase = "wait"
    <2>1. components' = list /\ UNCHANGED <<task, outcome, misfiled, blind>>
        BY <1>1 DEF Reload
    <2>2. ListTyped' /\ LoadsTyped' /\ ToAddTyped'
        BY <1>1, <2>1 DEF IInv, Typed, ListTyped, LoadsTyped, ToAddTyped, task
    <2>3. edits' \in 0..MaxEdits
        BY ComponentAssumption DEF UserActs, IInv, Typed, RestTyped
    <2>4. RestTyped'
        BY <2>1, <2>3 DEF IInv, Typed, RestTyped, task
    <2>5. ASSUME ~misfiled', ~blind', NEW j \in DOMAIN components'
          PROVE  Sound(components'[j], meta') /\ Awaited(components'[j], loads')
        <3>1. PICK k \in DOMAIN components : components'[j] = components[k]
            BY <2>1, <2>5 DEF Among
        <3>2. Sound(components[k], meta) /\ Awaited(components[k], loads)
            BY <1>1, <2>1, <2>5 DEF IInv, LoadedWell
        <3> QED BY <2>1, <3>1, <3>2 DEF task
    <2>6. LoadedWell'
        BY <1>1, <2>1, <2>5 DEF LoadedWell, task
    <2>7. EndsResolved'
        BY <1>1, <2>1, NotYetEnded DEF EndsResolved
    <2> QED BY <2>2, <2>4, <2>6, <2>7 DEF IInv, Typed
<1>2. CASE phase # "wait"
    <2>1. Reads(list) /\ Resolve(net)
        BY <1>2 DEF Reload
    <2>2. Proper(components') /\ \A i \in DOMAIN components' : ~components'[i].loaded
        BY <2>1, RereadIs
    <2>3. \A i \in DOMAIN components' : Sound(components'[i], meta')
        BY <2>2 DEF Sound
    <2>4. misfiled' \in BOOLEAN /\ blind' \in BOOLEAN
        BY <2>1 DEF Reads
    <2>5. meta' \subseteq disk
        BY MetaIs
    <2> QED BY <2>1, <2>2, <2>3, <2>4, <2>5, ResolveIs, RestartKeeps
<1> QED BY <1>1, <1>2

LEMMA SetVersionKeeps ==
    ASSUME IInv, NEW i \in DOMAIN components, NEW version \in Versions,
           SetComponentVersion(i, version)
    PROVE  IInv'
<1> DEFINE c == components[i]
           set == WithVersion(c, version, meta)
           important == c.uid = Important
           action == IF important THEN [kind |-> "important", version |-> c.cached] ELSE c.action
           new == [set EXCEPT !.important = important, !.action = action]
<1>1. /\ UserActs /\ components' = [components EXCEPT ![i] = new] /\ Resolve(TRUE)
      /\ UNCHANGED <<meta, disk, misfiled, blind>>
    BY DEF SetComponentVersion
<1>2. c \in Comps /\ Aimed(c)
    BY MetaIs DEF Proper
<1>3. set \in Comps /\ Kept(c, set) /\ (Sound(c, meta) => Sound(set, meta))
    BY <1>2, MetaIs, WithVersionIs DEF AnyVersion
<1>4. /\ action \in [kind : Actions, version : AnyVersion] /\ important \in BOOLEAN
      /\ action.kind = "change" => action.version \in Versions
    BY <1>2 DEF Comps, Aimed, Actions
<1> HIDE DEF important, action, set, c
<1>5. /\ new \in Comps /\ new.uid = set.uid /\ new.action = action
      /\ (Sound(set, meta) => Sound(new, meta))
    BY <1>3, <1>4 DEF Comps, Sound
<1>6. Aimed(new) /\ new.uid = components[i].uid
    BY <1>3, <1>4, <1>5 DEF Aimed, Kept, c
<1> HIDE DEF new
<1>7. Proper(components)
    BY MetaIs
<1>8. /\ Proper(components') /\ DOMAIN components' = DOMAIN components
      /\ \A j \in DOMAIN components : components'[j] = IF j = i THEN new ELSE components[j]
    BY ONLY <1>1, <1>5, <1>6, <1>7, i \in DOMAIN components, ChangedOne
<1>9. ASSUME ~misfiled', ~blind', NEW j \in DOMAIN components'
      PROVE  Sound(components'[j], meta')
    <2>1. Sound(components[j], meta) /\ Sound(c, meta)
        BY <1>1, <1>8, <1>9 DEF IInv, LoadedWell, c
    <2> QED BY <1>1, <1>3, <1>5, <1>8, <2>1
<1>10. meta' \subseteq disk /\ disk' = disk /\ misfiled' \in BOOLEAN /\ blind' \in BOOLEAN
    BY <1>1, MetaIs
<1> QED BY <1>1, <1>8, <1>9, <1>10, ResolveIs, RestartKeeps

LEMMA AddComponentKeeps ==
    ASSUME IInv, NEW uid \in Uids, NEW version \in Versions, AddComponent(uid, version)
    PROVE  IInv'
<1> DEFINE c == Component(uid, version, FALSE)
<1>1. /\ UserActs /\ uid \notin Listed(components) /\ components' = Append(components, c)
      /\ Resolve(TRUE) /\ UNCHANGED <<meta, disk, misfiled, blind>>
    BY DEF AddComponent
<1>2. c \in Comps /\ c.uid = uid /\ ~c.loaded /\ Aimed(c)
    BY ComponentIs DEF Aimed, AnyVersion
<1> HIDE DEF c
<1>3. c.uid \notin Listed(components)
    BY <1>1, <1>2
<1>4. /\ Proper(components')
      /\ \A j \in DOMAIN components' :
           components'[j] = c \/ \E k \in DOMAIN components : components'[j] = components[k]
    BY <1>1, <1>2, <1>3, MetaIs, OneAtTheEnd
<1>5. ASSUME ~misfiled', ~blind', NEW j \in DOMAIN components'
      PROVE  Sound(components'[j], meta')
    <2>1. Sound(c, meta)
        BY <1>2 DEF Sound
    <2>2. \A k \in DOMAIN components : Sound(components[k], meta)
        BY <1>1, <1>5 DEF IInv, LoadedWell
    <2> QED BY <1>1, <1>4, <1>5, <2>1, <2>2
<1>6. meta' \subseteq disk /\ disk' = disk /\ misfiled' \in BOOLEAN /\ blind' \in BOOLEAN
    BY <1>1, MetaIs
<1> QED BY <1>1, <1>4, <1>5, <1>6, ResolveIs, RestartKeeps

LEMMA MoveKeeps ==
    ASSUME IInv, NEW i \in DOMAIN components, Move(i)
    PROVE  IInv'
<1>1. /\ UserActs /\ i + 1 \in DOMAIN components
      /\ components' = [components EXCEPT ![i] = components[i + 1], ![i + 1] = components[i]]
      /\ UNCHANGED <<task, outcome, misfiled, blind, meta, disk>>
    BY DEF Move
<1>2. /\ Proper(components') /\ DOMAIN components' = DOMAIN components
      /\ Among(components', components) /\ Among(components, components')
    BY <1>1, MetaIs, TwoSwapped
<1>3. ListTyped' /\ LoadsTyped'
    BY <1>1, <1>2 DEF IInv, Typed, ListTyped, LoadsTyped, task
<1>4. ToAddTyped'
    BY <1>1 DEF UserActs, ToAddTyped, task
<1>5. edits' \in 0..MaxEdits
    BY <1>1, ComponentAssumption DEF UserActs, IInv, Typed, RestTyped
<1>6. RestTyped'
    BY <1>1, <1>5 DEF IInv, Typed, RestTyped, task
<1>7. LoadedWell'
    <2>1. ASSUME ~misfiled', ~blind', NEW j \in DOMAIN components'
          PROVE  /\ Sound(components'[j], meta')
                 /\ phase' = "wait" => Awaited(components'[j], loads')
        <3>1. PICK k \in DOMAIN components : components'[j] = components[k]
            BY <1>2, <2>1 DEF Among
        <3>2. Sound(components[k], meta) /\ (phase = "wait" => Awaited(components[k], loads))
            BY <1>1, <2>1 DEF IInv, LoadedWell
        <3> QED BY <1>1, <3>1, <3>2 DEF task
    <2>2. phase' \notin {"actions", "resolve"}
        BY <1>1 DEF UserActs, task
    <2> QED BY <2>1, <2>2 DEF LoadedWell
<1>8. EndsResolved'
    <2> SUFFICES ASSUME outcome' = "succeeded"
                 PROVE  phase' = "none" /\ (~misfiled' /\ ~blind' => ResolvedIn(components'))
        BY DEF EndsResolved, SuccessMeansResolved, ResolvedIn
    <2>1. phase = "none" /\ (~misfiled /\ ~blind => ResolvedIn(components))
        BY <1>1 DEF IInv, EndsResolved, SuccessMeansResolved, ResolvedIn
    <2>2. ToSet(components') = ToSet(components)
        BY <1>2 DEF ToSet, Among
    <2>3. ASSUME ResolvedIn(components) PROVE ResolvedIn(components')
        <3>1. \A j \in DOMAIN components' : \E k \in DOMAIN components : components'[j] = components[k]
            BY <1>2 DEF Among
        <3> DEFINE Good(c, S) ==
                /\ c.cached = c.version
                /\ \A r \in Meta[c.uid][c.version] :
                     \E d \in S : d.uid = r.uid /\ r.equals \in {NoVersion, d.version}
                /\ c.dependencyOnly /\ c.uid \in VolatileUids =>
                     \E d \in S : \E r \in Meta[d.uid][d.version] : r.uid = c.uid
        <3>2. \A k \in DOMAIN components : Good(components[k], ToSet(components))
            BY <2>3 DEF ResolvedIn
        <3>3. (\A j \in DOMAIN components' : Good(components'[j], ToSet(components')))
                => ResolvedIn(components')
            BY DEF ResolvedIn
        <3> HIDE DEF Good
        <3> QED BY <2>2, <3>1, <3>2, <3>3
    <2> QED BY <1>1, <2>1, <2>3 DEF task
<1> QED BY <1>3, <1>4, <1>6, <1>7, <1>8 DEF IInv, Typed

LEMMA NextKeeps ==
    ASSUME IInv, Next
    PROVE  IInv'
<1>1. CASE \E hashed \in SUBSET Uids : LoadComponents(hashed)
    BY <1>1, LoadKeeps
<1>2. CASE \E place \in DOMAIN loads : RemoteLoadSucceeded(place) \/ RemoteLoadFailed(place)
    BY <1>2, RemoteSuccessKeeps, RemoteFailureKeeps
<1>3. CASE PerformUpdateActions
    BY <1>3, ActionsKeep
<1>4. CASE ResolveDependencies
    BY <1>4, ResolveKeeps
<1>5. CASE AddMissing
    BY <1>5, AddKeeps
<1>6. CASE \E i \in DOMAIN components, v \in Versions : SetComponentVersion(i, v)
    BY <1>6, SetVersionKeeps
<1>7. CASE \E uid \in Uids, v \in Versions : AddComponent(uid, v)
    BY <1>7, AddComponentKeeps
<1>8. ASSUME NEW i \in DOMAIN components, RemoveRow(i) PROVE IInv'
    <2>1. /\ UserActs /\ Reload(RemoveAt(components, i), TRUE) /\ UNCHANGED <<meta, disk>>
        BY <1>8 DEF RemoveRow
    <2>2. Proper(RemoveAt(components, i)) /\ Among(RemoveAt(components, i), components)
        BY MetaIs, OneLess
    <2> QED BY <2>1, <2>2, ReloadKeeps
<1>9. ASSUME NEW i \in DOMAIN components, Move(i) PROVE IInv'
    BY <1>9, MoveKeeps
<1>10. ASSUME NEW net \in BOOLEAN, ReloadList(net) PROVE IInv'
    <2>1. /\ UserActs /\ Reload(components, net) /\ UNCHANGED <<meta, disk>>
        BY <1>10 DEF ReloadList
    <2>2. Proper(components) /\ Among(components, components)
        BY MetaIs DEF Among
    <2> QED BY <2>1, <2>2, ReloadKeeps
<1>11. CASE Restart
    <2>1. /\ phase = "none" /\ UserActs /\ Reads(components) /\ meta' = {} /\ outcome' = "none"
          /\ UNCHANGED <<task, disk>>
        BY <1>11 DEF Restart
    <2>2. Proper(components') /\ \A i \in DOMAIN components' : ~components'[i].loaded
        BY <2>1, MetaIs, RereadIs
    <2>3. \A i \in DOMAIN components' : Sound(components'[i], meta')
        BY <2>2 DEF Sound
    <2>4. /\ misfiled' \in BOOLEAN /\ blind' \in BOOLEAN /\ phase' = "none" /\ meta' \subseteq disk
          /\ online' \in BOOLEAN /\ addedActions' \in BOOLEAN
          /\ loads' \in [DOMAIN loads' -> LoadStatus]
        BY <2>1 DEF Reads, task, IInv, Typed, RestTyped, LoadsTyped
    <2> QED BY <2>1, <2>2, <2>3, <2>4, RestartKeeps
<1> QED BY <1>1, <1>2, <1>3, <1>4, <1>5, <1>6, <1>7, <1>8, <1>9, <1>10, <1>11
        DEF Next, TaskStep, User

LEMMA StutterKeeps ==
    ASSUME IInv, UNCHANGED vars
    PROVE  IInv'
BY DEF vars, task, IInv, Typed, ListTyped, LoadsTyped, ToAddTyped, RestTyped, LoadedWell,
       EndsResolved, SuccessMeansResolved, Listed

-----------------------------------------------------------------------------

LEMMA Invariance == Spec => []IInv
<1>1. IInv /\ [Next]_vars => IInv'
    BY NextKeeps, StutterKeeps
<1> QED BY <1>1, InitIInv, PTL DEF Spec

\* Whatever the user does to the list, before an update and while it waits for
\* the metadata server, a uid stays listed once, what is cached in memory is on
\* disk, and an update that waits has an answer to wait for.
THEOREM ListIsTyped == Spec => []TypeOK
<1>1. IInv => TypeOK
    <2> SUFFICES ASSUME IInv PROVE TypeOK
        OBVIOUS
    <2>1. \A i \in DOMAIN components :
            /\ components[i] \in Comps
            /\ \A j \in DOMAIN components : components[j].uid = components[i].uid => j = i
        BY MetaIs DEF Proper, Distinct
    <2>2. \A i \in DOMAIN components : LET c == components[i] IN
            /\ c.uid \in Uids /\ c.version \in AnyVersion /\ c.cached \in AnyVersion
            /\ c.requires \subseteq Requirement /\ c.data \in AnyVersion
            /\ c.action.kind \in {"none", "change", "latest", "important", "remove"}
        BY <2>1 DEF Comps, Actions
    <2>3. disk \subseteq Uids \X AnyVersion
        BY MetaIs DEF AnyVersion
    <2> QED BY <2>1, <2>2, <2>3 DEF IInv, Typed, RestTyped, LoadsTyped, TypeOK
<1> QED BY <1>1, Invariance, PTL

\* An update that ends well leaves a list that is closed under what its
\* metadata requires: nothing is missing, nothing has another version than the
\* one asked for, and no volatile dependency is left that nothing requires.
THEOREM SuccessIsResolved == Spec => []SuccessMeansResolved
<1>1. IInv => SuccessMeansResolved
    BY DEF IInv, EndsResolved, SuccessMeansResolved
<1> QED BY <1>1, Invariance, PTL

-----------------------------------------------------------------------------
(* ResourceFolder: the invariant. *)

Kinds == {"start", "finished", "delete"}
Events == {<<"loaded">>, <<"updated">>} \cup (Kinds \X Nat) \cup ({"parsed"} \X Nat \X BOOLEAN)

\* What is posted once.
Once(queue) ==
    \A i, j \in DOMAIN queue :
       queue[i] = queue[j] /\ queue[i][1] \in {"updated", "start", "finished"} => i = j

Rows == [id : Ids, time : 0..changes, ticket : Nat, unknown : BOOLEAN]

RowIds == {rows[i].id : i \in DOMAIN rows}

FilesTyped ==
    /\ folder \in [DOMAIN folder -> 0..changes] /\ DOMAIN folder \subseteq Ids
    /\ changes \in 0..MaxChanges /\ unseen \in BOOLEAN
    /\ watching \in BOOLEAN /\ visits \in 0..MaxVisits
    /\ slipped \in BOOLEAN /\ clashed \in BOOLEAN /\ mistaken \in BOOLEAN /\ alive \in BOOLEAN

UpdateTyped ==
    /\ update \in {"none", "reading", "posted"} /\ scheduled \in BOOLEAN
    /\ scheduled => update # "none"
    /\ update = "posted" <=> <<"updated">> \in ToSet(events)
    /\ result \in [DOMAIN result -> 0..changes] /\ DOMAIN result \subseteq Ids

RowsTyped ==
    /\ rows \in Seq(Rows)
    /\ \A i \in DOMAIN rows : rows[i].ticket \in (DOMAIN parse) \cup {NoTicket}
    /\ index \in [DOMAIN index -> Nat] /\ DOMAIN index \subseteq Ids

Tasks == [id : Ids, aborted : BOOLEAN, unknown : BOOLEAN,
          object : {"listed", "leaving", "gone"}]

TasksTyped ==
    /\ DOMAIN parse \in SUBSET (Nat \ {0}) /\ IsFiniteSet(DOMAIN parse)
    /\ \A t \in DOMAIN parse : parse[t] \in Tasks

\* A task is in the queue of the pool, runs, or has ended.
PoolTyped ==
    /\ waiting \in Seq(DOMAIN parse) /\ IsInjective(waiting)
    /\ doing \subseteq DOMAIN parse \ ToSet(waiting) /\ Cardinality(doing) <= Slots

EventsTyped ==
    /\ events \in Seq(Events) /\ Once(events)
    /\ \A t \in Nat : <<"start", t>> \in ToSet(events) => t \in doing
    /\ \A t \in Nat : <<"finished", t>> \in ToSet(events) =>
                         t \in DOMAIN parse \ (doing \cup ToSet(waiting))

NeverBoth(ids) == \A n \in Names : ~(<<n, On>> \in ids /\ <<n, Off>> \in ids)

\* What lets a row take the name of its twin.
RowsApart ==
    /\ ~clashed => NeverBoth(RowIds)
    /\ NeverBoth(DOMAIN result)

FolderIInv ==
    /\ FilesTyped /\ UpdateTyped /\ RowsTyped /\ TasksTyped /\ PoolTyped /\ EventsTyped
    /\ RowsApart /\ IndexMatches

-----------------------------------------------------------------------------
(* Numbers in order, sets as sequences, functions that are extended. *)

LEMMA NthIs ==
    ASSUME NEW S \in SUBSET Nat, IsFiniteSet(S), NEW i \in 1..Cardinality(S)
    PROVE  Nth(S, i) \in S /\ Cardinality({y \in S : y <= Nth(S, i)}) = i
<1> DEFINE Up(k) == {y \in S : y <= k}
           Ks == {k \in Nat : Cardinality(Up(k)) >= i}
<1>0. \A y \in S : y \in Nat
    OBVIOUS
<1>1. Cardinality(S) \in Nat /\ i \in Nat /\ i >= 1 /\ i <= Cardinality(S)
    BY FS_CardinalityType
<1>2. \A k : Up(k) \subseteq S /\ IsFiniteSet(Up(k)) /\ Cardinality(Up(k)) \in Nat
    <2> TAKE k
    <2>1. Up(k) \in SUBSET S
        OBVIOUS
    <2> HIDE DEF Up
    <2> QED BY <2>1, FS_Subset, FS_CardinalityType
<1>3. Ks # {}
    <2>1. S # {}
        BY <1>1, FS_EmptySet
    <2>2. Max(S) \in S /\ \A x \in S : Max(S) >= x
        BY <2>1, GreatestIs
    <2>3. Up(Max(S)) = S /\ Max(S) \in Nat
        BY <2>2
    <2> QED BY <1>1, <2>3
<1>4. PICK k \in Ks : \A x \in Ks : k <= x
    <2>1. Ks \in SUBSET Nat
        OBVIOUS
    <2> HIDE DEF Ks
    <2> QED BY <1>3, <2>1, LeastExists
<1>5. k \in Nat /\ Cardinality(Up(k)) >= i
    OBVIOUS
<1>6. k \in S
    <2> SUFFICES ASSUME k \notin S PROVE FALSE
        OBVIOUS
    <2>1. CASE k = 0
        <3>1. \A y \in S : y <= k => y = k
            BY <1>0, <2>1
        <3>2. \A y \in S : ~(y <= k)
            BY <3>1
        <3>3. Up(k) = {}
            BY <3>2
        <3> HIDE DEF Up
        <3> QED BY <1>1, <1>5, <3>3, FS_EmptySet
    <2>2. CASE k # 0
        <3>1. k - 1 \in Nat
            BY <1>5, <2>2
        <3>2. \A y \in S : y <= k <=> y <= k - 1
            BY <1>0, <1>5, <3>1
        <3>3. Up(k - 1) = Up(k)
            BY <3>2
        <3>4. k - 1 \in Ks
            BY <1>5, <3>1, <3>3
        <3>5. k <= k - 1
            BY <1>4, <3>4
        <3> QED BY <1>5, <3>5
    <2> QED BY <2>1, <2>2
<1>7. Cardinality(Up(k)) = i
    <2> DEFINE low == {y \in S : y < k}
    <2>1. low \in SUBSET S
        OBVIOUS
    <2>2. Up(k) = low \cup {k} /\ k \notin low
        <3>1. \A y \in S : y <= k <=> y < k \/ y = k
            BY <1>0, <1>5
        <3>2. ~(k < k) /\ k <= k
            BY <1>5
        <3> QED BY <1>6, <3>1, <3>2
    <2>3. IsFiniteSet(low) /\ Cardinality(low) \in Nat
        BY <2>1, FS_Subset, FS_CardinalityType
    <2>4. Cardinality(low) < i
        <3>1. CASE k = 0
            <4>1. \A y \in S : ~(y < k)
                BY <1>0, <3>1
            <4>2. low = {}
                BY <4>1
            <4> QED BY <1>1, <4>2, FS_EmptySet
        <3>2. CASE k # 0
            <4>1. k - 1 \in Nat /\ ~(k <= k - 1)
                BY <1>5, <3>2
            <4>2. \A y \in S : y < k <=> y <= k - 1
                BY <1>0, <1>5, <4>1
            <4>3. low = Up(k - 1)
                BY <4>2
            <4>4. k - 1 \notin Ks
                BY <1>4, <4>1
            <4>5. ~(Cardinality(Up(k - 1)) >= i)
                BY <4>1, <4>4
            <4> QED BY <1>1, <2>3, <4>3, <4>5
        <3> QED BY <3>1, <3>2
    <2> HIDE DEF low
    <2>5. Cardinality(Up(k)) = Cardinality(low) + 1
        <3>1. Cardinality(low \cup {k}) = Cardinality(low) + 1
            BY <2>2, <2>3, FS_AddElement
        <3> QED BY <2>2, <3>1
    <2> HIDE DEF Up
    <2> QED BY <1>1, <1>5, <2>3, <2>4, <2>5
<1> QED BY <1>6, <1>7 DEF Nth

LEMMA NthAscends ==
    ASSUME NEW S \in SUBSET Nat, IsFiniteSet(S),
           NEW i \in 1..Cardinality(S), NEW j \in 1..Cardinality(S), i < j
    PROVE  Nth(S, i) < Nth(S, j)
<1> DEFINE Up(k) == {y \in S : y <= k}
           a == Nth(S, i)
           b == Nth(S, j)
<1>1. a \in Nat /\ b \in Nat /\ Cardinality(Up(a)) = i /\ Cardinality(Up(b)) = j
    BY NthIs
<1> SUFFICES ASSUME b <= a PROVE FALSE
    BY <1>1
<1>2. Up(b) \in SUBSET Up(a) /\ Up(a) \in SUBSET S
    <2>1. \A y \in S : y \in Nat
        OBVIOUS
    <2>2. \A y \in S : y <= b => y <= a
        BY <1>1, <2>1
    <2> HIDE DEF a, b
    <2> QED BY <2>2
<1> HIDE DEF Up
<1>3. Cardinality(Up(b)) <= Cardinality(Up(a))
    BY <1>2, FS_Subset
<1> QED BY <1>1, <1>3, FS_CardinalityType

\* Only the first of some numbers from 1 on can be 1.
LEMMA NthIsNotOne ==
    ASSUME NEW S \in SUBSET (Nat \ {0}), IsFiniteSet(S), NEW i \in 1..Cardinality(S), i > 1
    PROVE  Nth(S, i) # 1
<1>1. 1 \in 1..Cardinality(S)
    BY FS_CardinalityType
<1>2. S \in SUBSET Nat
    OBVIOUS
<1>3. Nth(S, 1) < Nth(S, i)
    BY <1>1, <1>2, NthAscends
<1>4. Nth(S, 1) \in S
    BY <1>1, <1>2, NthIs
<1>5. Nth(S, i) \in S
    BY <1>2, NthIs
<1>6. \A y \in S : y \in Nat /\ y >= 1
    OBVIOUS
<1>7. Nth(S, 1) \in Nat /\ Nth(S, 1) >= 1 /\ Nth(S, i) \in Nat
    BY <1>4, <1>5, <1>6
<1> QED BY <1>3, <1>7

LEMMA FirstNumbers ==
    ASSUME NEW n \in Nat
    PROVE  IsFiniteSet(1..n) /\ Cardinality(1..n) = n
<1>1. 1 \in Int /\ n \in Int
    OBVIOUS
<1>2. IsFiniteSet(1..n) /\ Cardinality(1..n) = IF 1 > n THEN 0 ELSE n - 1 + 1
    BY <1>1, FS_Interval
<1> QED BY <1>2

LEMMA SetToSeqIs ==
    ASSUME NEW S, IsFiniteSet(S)
    PROVE  /\ SetToSeq(S) \in Seq(S) /\ Len(SetToSeq(S)) = Cardinality(S)
           /\ Cardinality(S) \in Nat /\ ToSet(SetToSeq(S)) = S
           /\ \A i, j \in DOMAIN SetToSeq(S) : SetToSeq(S)[i] = SetToSeq(S)[j] => i = j
<1> DEFINE n == Cardinality(S)
           f == SetToSeq(S)
<1>1. n \in Nat /\ ExistsBijection(1..n, S)
    BY FS_CardinalityType
<1>2. \E g \in [1..n -> S] : IsInjective(g)
    BY <1>1 DEF ExistsBijection, Bijection, Injection
<1>3. f \in [1..n -> S] /\ IsInjective(f)
    BY <1>2 DEF SetToSeq
<1> HIDE DEF n, f
<1>4. f \in Injection(1..n, S)
    BY <1>3 DEF Injection
<1>5. f \in Surjection(1..n, S)
    <2>1. IsFiniteSet(1..n) /\ Cardinality(1..n) = n
        BY <1>1, FirstNumbers
    <2> QED BY <1>4, <2>1, FS_Injection DEF n
<1>6. ToSet(f) = S
    BY <1>3, <1>5 DEF Surjection, ToSet
<1>7. f \in Seq(S) /\ Len(f) = n
    BY <1>1, <1>3
<1> QED BY <1>1, <1>3, <1>6, <1>7 DEF IsInjective, f, n

LEMMA PutIs ==
    ASSUME NEW f, NEW x, NEW y
    PROVE  /\ DOMAIN Put(f, x, y) = (DOMAIN f) \cup {x}
           /\ Put(f, x, y)[x] = y
           /\ \A z \in DOMAIN f : z # x => Put(f, x, y)[z] = f[z]
           /\ \A S : y \in S /\ (\A z \in DOMAIN f : f[z] \in S) =>
                Put(f, x, y) \in [(DOMAIN f) \cup {x} -> S]
BY DEF Put

-----------------------------------------------------------------------------
(* Tickets. *)

LEMMA FreeTicketsAre ==
    ASSUME TasksTyped, NEW n \in Nat
    PROVE  LET ticket == FreeTickets(n) IN
           /\ ticket \in Seq((Nat \ {0}) \ DOMAIN parse) /\ Len(ticket) = n
           /\ \A i, j \in 1..n : ticket[i] = ticket[j] => i = j
<1> DEFINE m == Cardinality(DOMAIN parse)
           free == (1..(n + m)) \ DOMAIN parse
           ticket == FreeTickets(n)
<1>1. IsFiniteSet(DOMAIN parse) /\ m \in Nat
    BY FS_CardinalityType DEF TasksTyped
<1>2. IsFiniteSet(1..(n + m)) /\ Cardinality(1..(n + m)) = n + m
    <2>1. n + m \in Nat
        BY <1>1
    <2> QED BY <2>1, FirstNumbers
<1>3. free \in SUBSET (Nat \ {0})
    BY <1>1
<1>4. IsFiniteSet(free) /\ Cardinality(free) >= n /\ Cardinality(free) \in Nat
    <2> DEFINE both == (1..(n + m)) \cap DOMAIN parse
    <2>1. IsFiniteSet(free) /\ Cardinality(free) = Cardinality(1..(n + m)) - Cardinality(both)
        BY <1>2, FS_Difference
    <2>2. IsFiniteSet(both) /\ Cardinality(both) <= m
        BY <1>1, FS_Intersection
    <2> HIDE DEF free, both, m
    <2> QED BY <1>1, <1>2, <2>1, <2>2, FS_CardinalityType
<1>5. ticket = [i \in 1..n |-> Nth(free, i)]
    BY DEF FreeTickets
<1> HIDE DEF ticket
<1>6. \A i \in 1..n : i \in 1..Cardinality(free)
    BY <1>4
<1>7. \A i \in 1..n : ticket[i] = Nth(free, i)
    BY <1>5
<1>8. \A i \in 1..n : ticket[i] \in free
    <2> HIDE DEF free
    <2>1. free \in SUBSET Nat
        BY <1>3
    <2>2. \A i \in 1..Cardinality(free) : Nth(free, i) \in free
        BY <1>4, <2>1, NthIs
    <2> QED BY <1>6, <1>7, <2>2
<1>9. \A i \in 1..n : ticket[i] \in (Nat \ {0}) \ DOMAIN parse
    BY <1>3, <1>8
<1>10. ticket \in [1..n -> (Nat \ {0}) \ DOMAIN parse]
    BY <1>5, <1>7, <1>9
<1>11. ASSUME NEW i \in 1..n, NEW j \in 1..n, ticket[i] = ticket[j] PROVE i = j
    <2> HIDE DEF free
    <2>1. free \in SUBSET Nat
        BY <1>3
    <2>2. i < j => ticket[i] < ticket[j]
        BY <1>4, <1>6, <1>7, <2>1, NthAscends
    <2>3. j < i => ticket[j] < ticket[i]
        BY <1>4, <1>6, <1>7, <2>1, NthAscends
    <2>4. ticket[i] \in Nat
        BY <1>10
    <2> QED BY <1>11, <2>2, <2>3, <2>4
<1> QED BY <1>10, <1>11 DEF ticket

LEMMA PlacesAre ==
    ASSUME NEW S, NEW table \in Seq(S)
    PROVE  /\ DOMAIN Places(table) = {table[i].id : i \in DOMAIN table}
           /\ Places(table) \in [DOMAIN Places(table) -> Nat]
           /\ (\A i, j \in DOMAIN table : table[i].id = table[j].id => i = j) =>
                \A i \in DOMAIN table : Places(table)[table[i].id] = i - 1
<1> DEFINE last(id) == CHOOSE i \in DOMAIN table :
                          /\ table[i].id = id
                          /\ \A j \in DOMAIN table : table[j].id = id => j <= i
           ids == {table[i].id : i \in DOMAIN table}
<1>1. Places(table) = [id \in ids |-> last(id) - 1]
    BY DEF Places
<1>2. ASSUME NEW id \in ids PROVE last(id) \in DOMAIN table /\ table[last(id)].id = id
    <2> DEFINE here == {i \in DOMAIN table : table[i].id = id}
    <2>1. here \in SUBSET DOMAIN table /\ here # {} /\ DOMAIN table = 1..Len(table) /\ Len(table) \in Nat
        OBVIOUS
    <2> HIDE DEF here
    <2>2. here \in SUBSET Nat /\ IsFiniteSet(here)
        BY <2>1, FirstNumbers, FS_Subset
    <2>3. \E i \in here : \A j \in here : j <= i
        BY <2>1, <2>2, GreatestIs
    <2>4. \E i \in DOMAIN table : /\ table[i].id = id
                                  /\ \A j \in DOMAIN table : table[j].id = id => j <= i
        BY <2>3 DEF here
    <2> QED BY <2>4
<1> HIDE DEF last
<1>3. ASSUME \A i, j \in DOMAIN table : table[i].id = table[j].id => i = j, NEW i \in DOMAIN table
      PROVE  Places(table)[table[i].id] = i - 1
    <2>1. last(table[i].id) = i
        BY <1>2, <1>3
    <2> QED BY <1>1, <2>1
<1>4. \A i \in DOMAIN table : i - 1 \in Nat
    OBVIOUS
<1>5. \A id \in ids : last(id) - 1 \in Nat
    BY <1>2, <1>4
<1> QED BY <1>1, <1>3, <1>5

-----------------------------------------------------------------------------
(* The event queue. *)

LEMMA TailIs ==
    ASSUME NEW S, NEW queue \in Seq(S), queue # << >>
    PROVE  /\ Tail(queue) \in Seq(S) /\ Head(queue) \in S
           /\ ToSet(queue) = {Head(queue)} \cup ToSet(Tail(queue))
           /\ Once(queue) => Once(Tail(queue))
           /\ Once(queue) /\ Head(queue)[1] \in {"updated", "start", "finished"}
                => Head(queue) \notin ToSet(Tail(queue))
<1> DEFINE rest == Tail(queue)
           n == Len(queue)
<1>1. n \in Nat /\ n >= 1 /\ DOMAIN queue = 1..n /\ Head(queue) = queue[1]
    OBVIOUS
<1>2. rest \in Seq(S) /\ DOMAIN rest = 1..(n - 1) /\ \A i \in 1..(n - 1) : rest[i] = queue[i + 1]
    OBVIOUS
<1> HIDE DEF rest, n
<1>3. \A i \in DOMAIN queue : i # 1 => i - 1 \in DOMAIN rest /\ queue[i] = rest[i - 1]
    BY <1>1, <1>2
<1>4. \A i \in DOMAIN rest : i + 1 \in DOMAIN queue /\ rest[i] = queue[i + 1] /\ i + 1 # 1
    BY <1>1, <1>2
<1>5. 1 \in DOMAIN queue
    BY <1>1
<1>6. ToSet(queue) = {Head(queue)} \cup ToSet(rest)
    BY <1>1, <1>3, <1>4, <1>5 DEF ToSet
<1>7. ASSUME Once(queue) PROVE Once(rest)
    <2>1. \A i, j \in DOMAIN rest : i + 1 = j + 1 => i = j
        BY <1>1, <1>2
    <2> QED BY <1>4, <1>7, <2>1 DEF Once
<1>8. ASSUME Once(queue), Head(queue)[1] \in {"updated", "start", "finished"}, Head(queue) \in ToSet(rest)
      PROVE  FALSE
    <2>1. PICK i \in DOMAIN rest : rest[i] = queue[1]
        BY <1>1, <1>8 DEF ToSet
    <2>2. i + 1 \in DOMAIN queue /\ queue[i + 1] = queue[1] /\ i + 1 # 1
        BY <1>4, <2>1
    <2> QED BY <1>1, <1>5, <1>8, <2>2 DEF Once
<1>9. Head(queue) \in S
    BY <1>1, <1>5
<1> QED BY <1>2, <1>6, <1>7, <1>8, <1>9 DEF rest

LEMMA JoinedIs ==
    ASSUME NEW S, NEW queue \in Seq(S), NEW more \in Seq(S)
    PROVE  /\ queue \o more \in Seq(S) /\ ToSet(queue \o more) = ToSet(queue) \cup ToSet(more)
           /\ DOMAIN (queue \o more) \subseteq Int /\ Len(queue) \in Int
           /\ \A i \in DOMAIN (queue \o more) :
                 IF i <= Len(queue) THEN i \in DOMAIN queue /\ (queue \o more)[i] = queue[i]
                 ELSE i - Len(queue) \in DOMAIN more /\ (queue \o more)[i] = more[i - Len(queue)]
<1> DEFINE n == Len(queue)
           m == Len(more)
           all == queue \o more
<1>1. n \in Nat /\ m \in Nat /\ DOMAIN queue = 1..n /\ DOMAIN more = 1..m
    OBVIOUS
<1>2. /\ all \in Seq(S) /\ Len(all) = n + m
      /\ \A i \in 1..(n + m) : all[i] = IF i <= n THEN queue[i] ELSE more[i - n]
    BY ConcatProperties
<1>3. DOMAIN all = 1..(n + m)
    BY <1>2
<1> HIDE DEF n, m, all
<1>4. \A i \in DOMAIN all : IF i <= n THEN i \in DOMAIN queue /\ all[i] = queue[i]
                            ELSE i - n \in DOMAIN more /\ all[i] = more[i - n]
    BY <1>1, <1>2, <1>3
<1>5. \A i \in DOMAIN queue : i \in DOMAIN all /\ all[i] = queue[i]
    BY <1>1, <1>2, <1>3
<1>6. \A i \in DOMAIN more : i + n \in DOMAIN all /\ all[i + n] = more[i]
    BY <1>1, <1>2, <1>3
<1>7. ToSet(all) = ToSet(queue) \cup ToSet(more)
    BY <1>4, <1>5, <1>6 DEF ToSet
<1>8. DOMAIN all \subseteq Int /\ n \in Int
    BY <1>1, <1>3
<1> QED BY <1>2, <1>4, <1>7, <1>8 DEF all, n

LEMMA JoinedOnce ==
    ASSUME NEW S, NEW queue \in Seq(S), NEW more \in Seq(S), Once(queue), Once(more),
           \A e \in ToSet(more) : e[1] \in {"updated", "start", "finished"} => e \notin ToSet(queue)
    PROVE  Once(queue \o more)
<1> DEFINE n == Len(queue)
           all == queue \o more
<1>1. /\ DOMAIN all \subseteq Int /\ n \in Int
      /\ \A i \in DOMAIN all : IF i <= n THEN i \in DOMAIN queue /\ all[i] = queue[i]
                               ELSE i - n \in DOMAIN more /\ all[i] = more[i - n]
    BY JoinedIs
<1> HIDE DEF n, all
<1> SUFFICES ASSUME NEW i \in DOMAIN all, NEW j \in DOMAIN all, all[i] = all[j],
                    all[i][1] \in {"updated", "start", "finished"}
             PROVE  i = j
    BY DEF Once, all
<1>2. CASE i <= n /\ j <= n
    BY <1>1, <1>2 DEF Once
<1>3. CASE ~(i <= n) /\ ~(j <= n)
    <2>1. i - n = j - n
        BY <1>1, <1>3 DEF Once
    <2> QED BY <1>1, <2>1
<1>4. CASE i <= n /\ ~(j <= n)
    BY <1>1, <1>4 DEF ToSet
<1>5. CASE ~(i <= n) /\ j <= n
    BY <1>1, <1>5 DEF ToSet
<1> QED BY <1>2, <1>3, <1>4, <1>5

LEMMA JoinedApart ==
    ASSUME NEW S, NEW queue \in Seq(S), NEW more \in Seq(S), IsInjective(queue), IsInjective(more),
           ToSet(queue) \cap ToSet(more) = {}
    PROVE  IsInjective(queue \o more)
<1> DEFINE n == Len(queue)
           all == queue \o more
<1>1. /\ DOMAIN all \subseteq Int /\ n \in Int
      /\ \A i \in DOMAIN all : IF i <= n THEN i \in DOMAIN queue /\ all[i] = queue[i]
                               ELSE i - n \in DOMAIN more /\ all[i] = more[i - n]
    BY JoinedIs
<1> HIDE DEF n, all
<1> SUFFICES ASSUME NEW i \in DOMAIN all, NEW j \in DOMAIN all, all[i] = all[j]
             PROVE  i = j
    BY DEF IsInjective, all
<1>2. CASE i <= n /\ j <= n
    BY <1>1, <1>2 DEF IsInjective
<1>3. CASE ~(i <= n) /\ ~(j <= n)
    <2>1. i - n = j - n
        BY <1>1, <1>3 DEF IsInjective
    <2> QED BY <1>1, <2>1
<1>4. CASE i <= n /\ ~(j <= n)
    BY <1>1, <1>4 DEF ToSet
<1>5. CASE ~(i <= n) /\ j <= n
    BY <1>1, <1>5 DEF ToSet
<1> QED BY <1>2, <1>3, <1>4, <1>5

LEMMA UnpostedIs ==
    ASSUME NEW S, NEW queue \in Seq(S), NEW event
    PROVE  LET rest == Unposted(queue, event) IN
           /\ rest \in Seq(S) /\ ToSet(rest) \subseteq ToSet(queue)
           /\ \A e \in ToSet(queue) : e # event => e \in ToSet(rest)
           /\ Once(queue) => Once(rest)
<1>1. CASE event \notin ToSet(queue)
    BY <1>1 DEF Unposted
<1>2. CASE event \in ToSet(queue)
    <2> DEFINE i == CHOOSE k \in DOMAIN queue : queue[k] = event
               n == Len(queue)
               rest == RemoveAt(queue, i)
               from(j) == IF j < i THEN j ELSE j + 1
    <2>1. i \in DOMAIN queue /\ queue[i] = event
        BY <1>2 DEF ToSet
    <2>2. Unposted(queue, event) = rest
        BY <1>2 DEF Unposted
    <2>3. n \in Nat /\ DOMAIN queue = 1..n
        OBVIOUS
    <2> HIDE DEF i
    <2>4. /\ rest \in Seq(S) /\ DOMAIN rest = 1..(n - 1)
          /\ \A j \in 1..(n - 1) : rest[j] = IF j < i THEN queue[j] ELSE queue[j + 1]
        BY <2>1, RemoveAtIs
    <2> HIDE DEF rest, n
    <2>5. \A j \in DOMAIN rest : from(j) \in DOMAIN queue /\ rest[j] = queue[from(j)]
        BY <2>1, <2>3, <2>4
    <2>6. \A j, k \in DOMAIN rest : from(j) = from(k) => j = k
        BY <2>1, <2>3, <2>4
    <2>7. \A k \in DOMAIN queue : k # i => \E j \in DOMAIN rest : k = from(j)
        <3> SUFFICES ASSUME NEW k \in DOMAIN queue, k # i
                     PROVE  \E j \in DOMAIN rest : k = from(j)
            OBVIOUS
        <3>1. CASE k < i
            <4>1. k \in DOMAIN rest /\ k = from(k)
                BY <2>1, <2>3, <2>4, <3>1
            <4> QED BY <4>1
        <3>2. CASE ~(k < i)
            <4>1. k - 1 \in DOMAIN rest /\ k = from(k - 1)
                BY <2>1, <2>3, <2>4, <3>2
            <4> QED BY <4>1
        <3> QED BY <3>1, <3>2
    <2> HIDE DEF from
    <2>8. ToSet(rest) \subseteq ToSet(queue)
        BY <2>5 DEF ToSet
    <2>9. \A e \in ToSet(queue) : e # event => e \in ToSet(rest)
        BY <2>1, <2>5, <2>7 DEF ToSet
    <2>10. Once(queue) => Once(rest)
        BY <2>5, <2>6 DEF Once
    <2> QED BY <2>2, <2>4, <2>8, <2>9, <2>10
<1> QED BY <1>1, <1>2

\* The events that tell of deleted resources are no others.
LEMMA DeletionsAre ==
    ASSUME NEW tickets, tickets \subseteq Nat, IsFiniteSet(tickets)
    PROVE  LET queue == SetToSeq({<<"delete", t>> : t \in tickets}) IN
           /\ queue \in Seq(Events) /\ Once(queue)
           /\ \A e \in ToSet(queue) : e[1] = "delete"
<1> DEFINE S == {<<"delete", t>> : t \in tickets}
           queue == SetToSeq(S)
<1>1. S \subseteq Kinds \X Nat /\ \A e \in S : e[1] = "delete"
    <2>1. \A t \in tickets : <<"delete", t>> \in Kinds \X Nat /\ <<"delete", t>>[1] = "delete"
        BY DEF Kinds
    <2>2. \A e \in S : e \in Kinds \X Nat /\ e[1] = "delete"
        BY <2>1
    <2> QED BY <2>2
<1>2. IsFiniteSet(S)
    <2> DEFINE f == [t \in tickets |-> <<"delete", t>>]
    <2>1. f \in [tickets -> S] /\ \A e \in S : \E t \in tickets : f[t] = e
        OBVIOUS
    <2>2. f \in Surjection(tickets, S)
        BY <2>1 DEF Surjection
    <2> HIDE DEF f, S
    <2> QED BY <2>2, FS_Surjection
<1> HIDE DEF S
<1>3. queue \in Seq(S) /\ ToSet(queue) = S
    BY <1>2, SetToSeqIs
<1> HIDE DEF queue
<1>4. \A i \in DOMAIN queue : queue[i] \in S
    BY <1>3
<1>5. queue \in Seq(Events)
    BY <1>1, <1>3, <1>4 DEF Events
<1>6. Once(queue)
    BY <1>1, <1>4 DEF Once
<1> QED BY <1>1, <1>3, <1>5, <1>6 DEF queue, S

-----------------------------------------------------------------------------
(* The start, and the frames of the actions. *)

LEMMA FolderStart == FolderInit => FolderIInv
<1> SUFFICES ASSUME FolderInit PROVE FolderIInv
    OBVIOUS
<1>1. /\ rows = << >> /\ index = << >> /\ parse = << >> /\ result = << >>
      /\ waiting = << >> /\ events = << >> /\ doing = {}
      /\ update = "none" /\ scheduled = FALSE
    BY DEF FolderInit
<1>2. MaxChanges \in Nat /\ MaxVisits \in Nat /\ Slots \in Nat /\ Initial \subseteq Names
    BY FolderAssumption
<1>3. /\ DOMAIN << >> = {} /\ ToSet(<< >>) = {}
      /\ \A S : << >> \in Seq(S) /\ << >> \in [{} -> S]
    BY DEF ToSet
<1>4. /\ DOMAIN folder = {<<n, On>> : n \in Initial} /\ folder \in [DOMAIN folder -> 0..changes]
      /\ changes = 0
    BY DEF FolderInit
<1>5. FilesTyped
    <2>1. DOMAIN folder \subseteq Ids
        BY <1>2, <1>4 DEF Ids
    <2>2. changes \in 0..MaxChanges /\ visits \in 0..MaxVisits
        BY <1>2 DEF FolderInit
    <2> QED BY <1>4, <2>1, <2>2 DEF FilesTyped, FolderInit
<1>6. UpdateTyped
    BY <1>1, <1>3 DEF UpdateTyped
<1>7. RowsTyped
    BY <1>1, <1>3 DEF RowsTyped
<1>8. TasksTyped
    BY <1>1, <1>3, FS_EmptySet DEF TasksTyped
<1>9. PoolTyped
    BY <1>1, <1>2, <1>3, FS_EmptySet DEF PoolTyped, IsInjective
<1>10. EventsTyped
    BY <1>1, <1>3 DEF EventsTyped, Once
<1>11. RowsApart
    <2>1. RowIds = {} /\ DOMAIN result = {}
        BY <1>1, <1>3 DEF RowIds
    <2> QED BY <2>1 DEF RowsApart, NeverBoth
<1>12. IndexMatches
    BY <1>1, <1>3 DEF IndexMatches
<1> QED BY <1>5, <1>6, <1>7, <1>8, <1>9, <1>10, <1>11, <1>12 DEF FolderIInv

LEMMA ListKept ==
    ASSUME RowsTyped, RowsApart, IndexMatches, UNCHANGED <<shown, changes, clashed, DOMAIN result>>,
           DOMAIN parse' = DOMAIN parse
    PROVE  RowsTyped' /\ RowsApart' /\ IndexMatches'
<1>1. /\ rows' = rows /\ index' = index /\ changes' = changes /\ clashed' = clashed
      /\ DOMAIN result' = DOMAIN result
    BY DEF shown
<1>2. RowIds' = RowIds /\ Rows' = Rows
    BY <1>1 DEF RowIds, Rows
<1>4. RowsApart'
    BY <1>1, <1>2 DEF RowsApart
<1>5. RowsTyped'
    BY <1>1, <1>2 DEF RowsTyped
<1>6. IndexMatches'
    BY <1>1 DEF IndexMatches
<1> QED BY <1>4, <1>5, <1>6

\* The tasks and the queue, when only places in other parts change.
LEMMA TasksKept ==
    ASSUME TasksTyped, PoolTyped, EventsTyped, UNCHANGED <<parsing, events>>
    PROVE  TasksTyped' /\ PoolTyped' /\ EventsTyped'
<1>1. parse' = parse /\ waiting' = waiting /\ doing' = doing /\ events' = events
    BY DEF parsing
<1> QED BY <1>1 DEF TasksTyped, PoolTyped, EventsTyped

LEMMA OneIs ==
    ASSUME NEW S, NEW e \in S
    PROVE  <<e>> \in Seq(S) /\ ToSet(<<e>>) = {e} /\ Once(<<e>>)
BY DEF ToSet, Once

LEMMA TwoAre ==
    ASSUME NEW S, NEW a \in S, NEW b \in S, a # b
    PROVE  <<a, b>> \in Seq(S) /\ ToSet(<<a, b>>) = {a, b} /\ Once(<<a, b>>)
<1>1. DOMAIN <<a, b>> = {1, 2}
    OBVIOUS
<1>2. <<a, b>>[1] = a /\ <<a, b>>[2] = b
    OBVIOUS
<1> QED BY <1>1, <1>2 DEF ToSet, Once

-----------------------------------------------------------------------------
(* Rows and results, name by name. *)

LEMMA StillApart ==
    ASSUME RowsApart, UNCHANGED <<clashed, result>>, ~clashed => NeverBoth(RowIds')
    PROVE  RowsApart'
BY DEF RowsApart, NeverBoth

LEMMA FormsAre == /\ On = 0 /\ Off = 1 /\ On # Off /\ On \notin Duplicates /\ Off \notin Duplicates
                  /\ Duplicates \in SUBSET Nat
<1>1. MaxDuplicates \in Nat
    BY FolderAssumption
<1> QED BY <1>1 DEF On, Off, Duplicates

\* A duplicate that is free, when there is one.
LEMMA UniqueNameIs ==
    ASSUME NEW id \in Ids, Duplicated(id) => Free(id[1]) # {}
    PROVE  /\ UniqueName(id) \in Ids
           /\ ~Duplicated(id) => UniqueName(id) = id
           /\ Duplicated(id) => \E k \in Duplicates : UniqueName(id) = <<id[1], k>>
<1>1. CASE ~Duplicated(id)
    BY <1>1 DEF UniqueName
<1>2. CASE Duplicated(id)
    <2> DEFINE S == Free(id[1])
    <2>1. S \in SUBSET Duplicates /\ S # {}
        BY <1>2 DEF Free
    <2> HIDE DEF S
    <2>2. Min(S) \in Duplicates
        BY <2>1, FormsAre, SmallestIs
    <2>3. UniqueName(id) = <<id[1], Min(S)>>
        BY <1>2 DEF UniqueName, S
    <2>4. id[1] \in Names
        BY DEF Ids
    <2> QED BY <1>2, <2>2, <2>3, <2>4 DEF Ids
<1> QED BY <1>1, <1>2

-----------------------------------------------------------------------------
(* The worker thread and the helper. *)

LEMMA ReadFolderKeeps ==
    ASSUME FolderIInv, ReadFolder
    PROVE  FolderIInv'
<1> DEFINE after == [id \in {UniqueName(i) : i \in DOMAIN folder} |->
                       folder[CHOOSE i \in DOMAIN folder : UniqueName(i) = id]]
<1>1. /\ update = "reading" /\ update' = "posted" /\ folder' = after /\ result' = after
      /\ unseen' = (unseen \/ (watching /\ after # folder))
      /\ events' = events \o << <<"loaded">>, <<"updated">> >>
      /\ UNCHANGED <<changes, watching, visits, scheduled, rows, index, parse, waiting, doing,
                     slipped, clashed, mistaken, alive>>
    BY DEF ReadFolder, page, shown, parsing, ghosts
<1>2. FilesTyped /\ UpdateTyped /\ RowsTyped /\ TasksTyped /\ PoolTyped /\ EventsTyped
      /\ RowsApart /\ IndexMatches
    BY DEF FolderIInv
<1>3. DOMAIN after = {UniqueName(i) : i \in DOMAIN folder}
    OBVIOUS
<1>4. \A id \in DOMAIN folder :
         /\ id \in Ids /\ UniqueName(id) \in Ids
         /\ ~Duplicated(id) => UniqueName(id) = id
         /\ Duplicated(id) => \E k \in Duplicates : UniqueName(id) = <<id[1], k>>
    <2> TAKE id \in DOMAIN folder
    <2>1. id \in Ids /\ (Duplicated(id) => Free(id[1]) # {})
        BY <1>2 DEF FilesTyped, ReadFolder
    <2> QED BY <2>1, UniqueNameIs
<1>5. after \in [DOMAIN after -> 0..changes]
    <2>1. \A id \in DOMAIN after : after[id] \in 0..changes
        BY <1>2 DEF FilesTyped
    <2> QED BY <2>1
<1>6. NeverBoth(DOMAIN after)
    <2> SUFFICES ASSUME NEW n \in Names, <<n, On>> \in DOMAIN after, <<n, Off>> \in DOMAIN after
                 PROVE  FALSE
        BY DEF NeverBoth
    <2>1. PICK a \in DOMAIN folder : UniqueName(a) = <<n, On>>
        BY <1>3
    <2>2. PICK b \in DOMAIN folder : UniqueName(b) = <<n, Off>>
        BY <1>3
    <2>3. a = <<n, On>> /\ b = <<n, Off>> /\ ~Duplicated(b)
        BY <1>4, <2>1, <2>2, FormsAre
    <2> QED BY <2>3 DEF Duplicated
<1> HIDE DEF after
<1>7. FilesTyped'
    <2>1. unseen' \in BOOLEAN
        BY <1>1, <1>2 DEF FilesTyped
    <2>2. DOMAIN after \subseteq Ids
        BY <1>3, <1>4
    <2> QED BY <1>1, <1>2, <1>5, <2>1, <2>2 DEF FilesTyped
<1>8. /\ events' \in Seq(Events) /\ Once(events')
      /\ ToSet(events') = ToSet(events) \cup {<<"loaded">>, <<"updated">>}
    <2>1. <<"loaded">> \in Events /\ <<"updated">> \in Events /\ <<"loaded">> # <<"updated">>
        BY DEF Events
    <2>2. <<"updated">> \notin ToSet(events)
        BY <1>1, <1>2 DEF UpdateTyped
    <2>3. /\ << <<"loaded">>, <<"updated">> >> \in Seq(Events) /\ Once(<< <<"loaded">>, <<"updated">> >>)
          /\ ToSet(<< <<"loaded">>, <<"updated">> >>) = {<<"loaded">>, <<"updated">>}
        BY <2>1, TwoAre
    <2>4. events \in Seq(Events) /\ Once(events)
        BY <1>2 DEF EventsTyped
    <2> DEFINE more == << <<"loaded">>, <<"updated">> >>
    <2>5. \A e \in ToSet(more) : e[1] \in {"updated", "start", "finished"} => e \notin ToSet(events)
        <3>1. <<"loaded">>[1] \notin {"updated", "start", "finished"}
            OBVIOUS
        <3> QED BY <2>2, <2>3, <3>1
    <2> HIDE DEF more
    <2>6. events' = events \o more /\ more \in Seq(Events) /\ Once(more)
          /\ ToSet(more) = {<<"loaded">>, <<"updated">>}
        BY <1>1, <2>3 DEF more
    <2>7. Once(events \o more)
        BY ONLY <2>4, <2>5, <2>6, JoinedOnce
    <2>8. events \o more \in Seq(Events) /\ ToSet(events \o more) = ToSet(events) \cup ToSet(more)
        BY ONLY <2>4, <2>6, JoinedIs
    <2> QED BY <2>6, <2>7, <2>8
<1>9. UpdateTyped'
    <2>1. <<"updated">> \in ToSet(events')
        BY <1>8
    <2>2. DOMAIN after \subseteq Ids
        BY <1>3, <1>4
    <2> QED BY <1>1, <1>2, <1>5, <2>1, <2>2 DEF UpdateTyped
<1>10. RowsTyped'
    BY <1>1, <1>2 DEF RowsTyped, Rows
<1>11. TasksTyped' /\ PoolTyped'
    BY <1>1, <1>2 DEF TasksTyped, PoolTyped
<1>12. EventsTyped'
    <2>1. \A t : <<"start", t>> \notin {<<"loaded">>, <<"updated">>}
                 /\ <<"finished", t>> \notin {<<"loaded">>, <<"updated">>}
        OBVIOUS
    <2> QED BY <1>1, <1>2, <1>8, <2>1 DEF EventsTyped
<1>13. RowsApart'
    <2>1. RowIds' = RowIds
        BY <1>1 DEF RowIds
    <2>2. DOMAIN result' = DOMAIN after /\ clashed' = clashed
        BY <1>1
    <2> QED BY <1>2, <1>6, <2>1, <2>2 DEF RowsApart, NeverBoth
<1>14. IndexMatches'
    BY <1>1, <1>2 DEF IndexMatches
<1> QED BY <1>7, <1>9, <1>10, <1>11, <1>12, <1>13, <1>14 DEF FolderIInv

\* What the GUI thread leaves in its queue when it takes an event.
LEMMA EventTaken ==
    ASSUME UpdateTyped, EventsTyped, events # << >>
    PROVE  /\ Tail(events) \in Seq(Events) /\ Once(Tail(events)) /\ Head(events) \in Events
           /\ ToSet(events) = {Head(events)} \cup ToSet(Tail(events))
           /\ Head(events)[1] \in {"updated", "start", "finished"} =>
                Head(events) \notin ToSet(Tail(events))
           /\ Head(events) # <<"updated">> =>
                (update = "posted" <=> <<"updated">> \in ToSet(Tail(events)))
           /\ \A t \in Nat : <<"start", t>> \in ToSet(Tail(events)) => t \in doing
           /\ \A t \in Nat : <<"finished", t>> \in ToSet(Tail(events)) =>
                                t \in DOMAIN parse \ (doing \cup ToSet(waiting))
<1>1. events \in Seq(Events) /\ Once(events)
    BY DEF EventsTyped
<1>2. /\ Tail(events) \in Seq(Events) /\ Once(Tail(events)) /\ Head(events) \in Events
      /\ ToSet(events) = {Head(events)} \cup ToSet(Tail(events))
      /\ Head(events)[1] \in {"updated", "start", "finished"} =>
                Head(events) \notin ToSet(Tail(events))
    BY <1>1, TailIs
<1> QED BY <1>2 DEF UpdateTyped, EventsTyped

LEMMA UpdateFinishedKeeps ==
    ASSUME FolderIInv, UpdateFinished
    PROVE  FolderIInv'
<1>1. /\ events # << >> /\ Head(events) = <<"updated">> /\ events' = Tail(events)
      /\ update' = (IF scheduled THEN "reading" ELSE "none") /\ scheduled' = FALSE
      /\ UNCHANGED <<folder, changes, unseen, watching, visits, result, rows, index,
                     parse, waiting, doing, slipped, clashed, mistaken, alive>>
    BY DEF UpdateFinished, files, page, shown, parsing, ghosts
<1>2. FilesTyped /\ UpdateTyped /\ RowsTyped /\ TasksTyped /\ PoolTyped /\ EventsTyped
      /\ RowsApart /\ IndexMatches
    BY DEF FolderIInv
<1>3. <<"updated">>[1] \in {"updated", "start", "finished"}
    OBVIOUS
<1>4. /\ events' \in Seq(Events) /\ Once(events') /\ <<"updated">> \notin ToSet(events')
      /\ \A t \in Nat : <<"start", t>> \in ToSet(events') => t \in doing
      /\ \A t \in Nat : <<"finished", t>> \in ToSet(events') =>
                           t \in DOMAIN parse \ (doing \cup ToSet(waiting))
    BY <1>1, <1>2, <1>3, EventTaken
<1>5. FilesTyped'
    BY <1>1, <1>2 DEF FilesTyped
<1>6. UpdateTyped'
    BY <1>1, <1>2, <1>4 DEF UpdateTyped
<1>7. EventsTyped' /\ TasksTyped' /\ PoolTyped'
    BY <1>1, <1>2, <1>4 DEF EventsTyped, TasksTyped, PoolTyped
<1>8. RowsTyped' /\ RowsApart' /\ IndexMatches'
    BY <1>1, <1>2, ListKept DEF shown
<1> QED BY <1>5, <1>6, <1>7, <1>8 DEF FolderIInv

LEMMA HelperStartsKeeps ==
    ASSUME FolderIInv, HelperStarts
    PROVE  FolderIInv'
<1> DEFINE first == Head(waiting)
           event == <<"start", first>>
<1>1. /\ waiting # << >> /\ Cardinality(doing) < Slots
      /\ doing' = doing \cup {first} /\ waiting' = Tail(waiting) /\ events' = Append(events, event)
      /\ UNCHANGED <<folder, changes, unseen, watching, visits, update, scheduled, result, rows,
                     index, parse, slipped, clashed, mistaken, alive>>
    BY DEF HelperStarts, files, page, updating, shown, ghosts
<1>2. FilesTyped /\ UpdateTyped /\ RowsTyped /\ TasksTyped /\ PoolTyped /\ EventsTyped
      /\ RowsApart /\ IndexMatches
    BY DEF FolderIInv
<1>3. /\ Tail(waiting) \in Seq(DOMAIN parse) /\ first \in DOMAIN parse
      /\ ToSet(waiting) = {first} \cup ToSet(Tail(waiting))
    BY <1>1, <1>2, TailIs DEF PoolTyped
<1>4. IsInjective(Tail(waiting)) /\ first \notin ToSet(Tail(waiting))
    <2> DEFINE n == Len(waiting)
               rest == Tail(waiting)
    <2>1. waiting \in Seq(DOMAIN parse) /\ IsInjective(waiting)
        BY <1>2 DEF PoolTyped
    <2>2. n \in Nat /\ n >= 1 /\ DOMAIN waiting = 1..n /\ first = waiting[1]
        BY <1>1, <2>1
    <2>3. DOMAIN rest = 1..(n - 1) /\ \A i \in 1..(n - 1) : rest[i] = waiting[i + 1]
        BY <1>1, <2>1
    <2> HIDE DEF rest, n, first
    <2>4. \A i \in DOMAIN rest : i + 1 \in DOMAIN waiting /\ rest[i] = waiting[i + 1] /\ i + 1 # 1
        BY <2>2, <2>3
    <2>5. 1 \in DOMAIN waiting /\ \A i, j \in DOMAIN rest : i + 1 = j + 1 => i = j
        BY <2>2, <2>3
    <2>6. IsInjective(rest)
        BY <2>1, <2>4, <2>5 DEF IsInjective
    <2>7. first \notin ToSet(rest)
        BY <2>1, <2>2, <2>4, <2>5 DEF IsInjective, ToSet
    <2> QED BY <2>6, <2>7 DEF rest
<1>5. first \notin doing /\ first \in Nat /\ doing \subseteq DOMAIN parse
    BY <1>2, <1>3 DEF PoolTyped, TasksTyped
<1>6. /\ events' \in Seq(Events) /\ Once(events') /\ ToSet(events') = ToSet(events) \cup {event}
    <2>1. event \in Events
        BY <1>5 DEF Events, Kinds
    <2>2. event \notin ToSet(events)
        BY <1>2, <1>5 DEF EventsTyped
    <2> HIDE DEF event
    <2>3. <<event>> \in Seq(Events) /\ Once(<<event>>) /\ ToSet(<<event>>) = {event}
        BY <2>1, OneIs
    <2>4. events \in Seq(Events) /\ Once(events)
        BY <1>2 DEF EventsTyped
    <2>5. events' = events \o <<event>>
        BY <1>1, <2>1, <2>4
    <2>6. \A e \in ToSet(<<event>>) :
             e[1] \in {"updated", "start", "finished"} => e \notin ToSet(events)
        BY <2>2, <2>3
    <2>7. Once(events \o <<event>>)
        BY ONLY <2>3, <2>4, <2>6, JoinedOnce
    <2>8. /\ events \o <<event>> \in Seq(Events)
          /\ ToSet(events \o <<event>>) = ToSet(events) \cup ToSet(<<event>>)
        <3> DEFINE last == <<event>>
        <3>1. last \in Seq(Events) /\ events \in Seq(Events)
            BY <2>3, <2>4
        <3> HIDE DEF last
        <3>2. events \o last \in Seq(Events) /\ ToSet(events \o last) = ToSet(events) \cup ToSet(last)
            BY ONLY <3>1, JoinedIs
        <3> QED BY <3>2 DEF last
    <2> QED BY <2>3, <2>5, <2>7, <2>8
<1>7. FilesTyped'
    BY <1>1, <1>2 DEF FilesTyped
<1>8. UpdateTyped'
    <2>1. <<"updated">> # event
        OBVIOUS
    <2> QED BY <1>1, <1>2, <1>6, <2>1 DEF UpdateTyped
<1>9. TasksTyped'
    BY <1>1, <1>2 DEF TasksTyped
<1>10. PoolTyped'
    <2>1. IsFiniteSet(doing)
        BY <1>2, <1>5, FS_Subset DEF TasksTyped
    <2>2. Cardinality(doing \cup {first}) = Cardinality(doing) + 1
        BY <1>5, <2>1, FS_AddElement
    <2>3. Cardinality(doing) \in Nat /\ Slots \in Nat
        BY <2>1, FS_CardinalityType, FolderAssumption
    <2>4. Cardinality(doing') <= Slots
        BY <1>1, <2>2, <2>3
    <2>5. doing' \subseteq DOMAIN parse \ ToSet(waiting')
        BY <1>1, <1>2, <1>3, <1>4 DEF PoolTyped
    <2> QED BY <1>1, <1>3, <1>4, <2>4, <2>5 DEF PoolTyped
<1>11. EventsTyped'
    <2>1. \A t : <<"finished", t>> # event /\ (<<"start", t>> = event => t = first)
        OBVIOUS
    <2>2. doing \cup ToSet(waiting) = doing' \cup ToSet(waiting')
        BY <1>1, <1>3
    <2> HIDE DEF event, first
    <2>3. \A t \in Nat : <<"start", t>> \in ToSet(events') => t \in doing'
        BY <1>1, <1>2, <1>6, <2>1 DEF EventsTyped
    <2>4. \A t \in Nat : <<"finished", t>> \in ToSet(events') =>
                           t \in DOMAIN parse' \ (doing' \cup ToSet(waiting'))
        BY <1>1, <1>2, <1>6, <2>1, <2>2 DEF EventsTyped
    <2> QED BY <1>6, <2>3, <2>4 DEF EventsTyped
<1>12. RowsTyped' /\ RowsApart' /\ IndexMatches'
    BY <1>1, <1>2, ListKept DEF shown
<1> QED BY <1>7, <1>8, <1>9, <1>10, <1>11, <1>12 DEF FolderIInv

-----------------------------------------------------------------------------
(* The parse tasks. *)

LEMMA ParseRunsKeeps ==
    ASSUME FolderIInv, NEW t \in DOMAIN parse, ParseRuns(t)
    PROVE  FolderIInv'
<1> DEFINE event == <<"finished", t>>
           start == <<"start", t>>
<1>1. /\ events # << >> /\ Head(events) = start /\ doing' = doing \ {t}
      /\ UNCHANGED <<folder, changes, unseen, watching, visits, update, scheduled, result, rows,
                     index, parse, waiting, slipped, clashed, alive>>
    BY DEF ParseRuns, files, page, updating, shown
<1>2. PICK ok \in BOOLEAN :
         /\ events' = Tail(events) \o (IF ok /\ parse[t].aborted THEN << >>
                                       ELSE << <<"parsed", t, ok>> >>) \o <<event>>
         /\ mistaken' = (mistaken \/ (/\ parse[t].id \in DOMAIN folder /\ IsPack(parse[t].id)
                                     /\ parse[t].unknown))
    <2> DEFINE there == parse[t].id \in DOMAIN folder /\ IsPack(parse[t].id)
               oks == IF parse[t].object = "gone" THEN BOOLEAN ELSE {there /\ ~parse[t].unknown}
    <2>1. PICK ok \in oks :
             /\ events' = Tail(events) \o (IF ok /\ parse[t].aborted THEN << >>
                                           ELSE << <<"parsed", t, ok>> >>) \o <<event>>
             /\ mistaken' = (mistaken \/ (there /\ parse[t].unknown))
        BY Zenon DEF ParseRuns
    <2>2. oks \subseteq BOOLEAN
        OBVIOUS
    <2> QED BY <2>1, <2>2, Zenon
<1>3. FilesTyped /\ UpdateTyped /\ RowsTyped /\ TasksTyped /\ PoolTyped /\ EventsTyped
      /\ RowsApart /\ IndexMatches
    BY DEF FolderIInv
<1> DEFINE rest == Tail(events)
           said == IF ok /\ parse[t].aborted THEN << >> ELSE << <<"parsed", t, ok>> >>
<1>4. t \in Nat
    BY <1>3 DEF TasksTyped
<1>5. start[1] \in {"updated", "start", "finished"} /\ start # <<"updated">> /\ event # <<"updated">>
    OBVIOUS
<1>6. /\ rest \in Seq(Events) /\ Once(rest) /\ start \notin ToSet(rest)
      /\ ToSet(events) = {start} \cup ToSet(rest)
      /\ update = "posted" <=> <<"updated">> \in ToSet(rest)
      /\ \A u \in Nat : <<"start", u>> \in ToSet(rest) => u \in doing
      /\ \A u \in Nat : <<"finished", u>> \in ToSet(rest) =>
                           u \in DOMAIN parse \ (doing \cup ToSet(waiting))
    BY <1>1, <1>3, <1>5, EventTaken
<1>7. t \in doing /\ t \notin ToSet(waiting)
    BY <1>3, <1>4, <1>6 DEF EventsTyped, PoolTyped
<1>8. event \notin ToSet(rest)
    BY <1>4, <1>6, <1>7
<1>9. /\ said \in Seq(Events) /\ Once(said) /\ \A e \in ToSet(said) : e[1] = "parsed"
    <2>1. <<"parsed", t, ok>> \in Events
        BY <1>4 DEF Events
    <2>2. \A e \in {<<"parsed", t, ok>>} : e[1] = "parsed"
        OBVIOUS
    <2>3. CASE ok /\ parse[t].aborted
        BY <2>3 DEF ToSet, Once
    <2>4. CASE ~(ok /\ parse[t].aborted)
        BY <2>1, <2>2, <2>4, OneIs
    <2> QED BY <2>3, <2>4
<1>10. event \in Events /\ event[1] = "finished"
    BY <1>4 DEF Events, Kinds
<1> HIDE DEF rest, said
<1>11. /\ rest \o said \in Seq(Events) /\ Once(rest \o said)
       /\ ToSet(rest \o said) = ToSet(rest) \cup ToSet(said)
    <2>1. "parsed" \notin {"updated", "start", "finished"}
        OBVIOUS
    <2>2. \A e \in ToSet(said) : e[1] \in {"updated", "start", "finished"} => e \notin ToSet(rest)
        BY <1>9, <2>1
    <2> QED BY <1>6, <1>9, <2>2, JoinedIs, JoinedOnce
<1>12. event \notin ToSet(said) /\ <<"updated">> \notin ToSet(said)
       /\ \A u : <<"start", u>> \notin ToSet(said) /\ <<"finished", u>> \notin ToSet(said)
    <2>1. /\ <<"updated">>[1] # "parsed" /\ event[1] # "parsed"
          /\ \A u : <<"start", u>>[1] # "parsed" /\ <<"finished", u>>[1] # "parsed"
        OBVIOUS
    <2> HIDE DEF event
    <2> QED BY <1>9, <2>1
<1>13. /\ events' \in Seq(Events) /\ Once(events')
       /\ ToSet(events') = ToSet(rest) \cup ToSet(said) \cup {event}
    <2> HIDE DEF event
    <2>1. <<event>> \in Seq(Events) /\ Once(<<event>>) /\ ToSet(<<event>>) = {event}
        BY <1>10, OneIs
    <2>2. \A e \in ToSet(<<event>>) :
             e[1] \in {"updated", "start", "finished"} => e \notin ToSet(rest \o said)
        BY <1>8, <1>11, <1>12, <2>1
    <2>3. events' = (rest \o said) \o <<event>>
        BY <1>2 DEF rest, said
    <2>4. Once((rest \o said) \o <<event>>)
        BY ONLY <1>11, <2>1, <2>2, JoinedOnce
    <2>5. /\ (rest \o said) \o <<event>> \in Seq(Events)
          /\ ToSet((rest \o said) \o <<event>>) = ToSet(rest \o said) \cup ToSet(<<event>>)
        <3> DEFINE before == rest \o said
                   after == <<event>>
        <3>1. before \in Seq(Events) /\ after \in Seq(Events)
            BY <1>11, <2>1
        <3> HIDE DEF before, after
        <3>2. before \o after \in Seq(Events) /\ ToSet(before \o after) = ToSet(before) \cup ToSet(after)
            BY ONLY <3>1, JoinedIs
        <3> QED BY <3>2 DEF before, after
    <2> QED BY <1>11, <2>1, <2>3, <2>4, <2>5
<1>14. FilesTyped'
    BY <1>1, <1>2, <1>3 DEF FilesTyped
<1>15. UpdateTyped'
    <2>1. <<"updated">> \in ToSet(events') <=> <<"updated">> \in ToSet(rest)
        BY <1>5, <1>12, <1>13
    <2> QED BY <1>1, <1>3, <1>6, <2>1 DEF UpdateTyped
<1>16. TasksTyped'
    BY <1>1, <1>3 DEF TasksTyped
<1>17. PoolTyped'
    <2>1. IsFiniteSet(doing)
        BY <1>3, FS_Subset DEF TasksTyped, PoolTyped
    <2>2. Cardinality(doing \ {t}) = Cardinality(doing) - 1
        BY <1>7, <2>1, FS_RemoveElement
    <2>3. Cardinality(doing) \in Nat /\ Slots \in Nat /\ Cardinality(doing) <= Slots
        BY <1>3, <2>1, FS_CardinalityType, FolderAssumption DEF PoolTyped
    <2>4. Cardinality(doing') <= Slots
        BY <1>1, <2>2, <2>3
    <2> QED BY <1>1, <1>3, <2>4 DEF PoolTyped
<1>18. EventsTyped'
    <2>1. \A u : <<"start", u>> # event /\ (<<"finished", u>> = event => u = t)
                 /\ (<<"start", u>> \in ToSet(rest) => u # t)
        BY <1>6
    <2> HIDE DEF event, start
    <2>2. \A u \in Nat : <<"start", u>> \in ToSet(events') => u \in doing'
        BY <1>1, <1>6, <1>12, <1>13, <2>1
    <2>3. \A u \in Nat : <<"finished", u>> \in ToSet(events') =>
                           u \in DOMAIN parse' \ (doing' \cup ToSet(waiting'))
        BY <1>1, <1>6, <1>7, <1>12, <1>13, <2>1
    <2> QED BY <1>13, <2>2, <2>3 DEF EventsTyped
<1>19. RowsTyped' /\ RowsApart' /\ IndexMatches'
    BY <1>1, <1>3, ListKept DEF shown
<1> QED BY <1>14, <1>15, <1>16, <1>17, <1>18, <1>19 DEF FolderIInv

\* The queue once an event was taken that is not about the update or the end
\* of a task, and deletions were posted.
LEMMA EventsQuiet ==
    ASSUME UpdateTyped, EventsTyped, events # << >>, Head(events)[1] \in {"loaded", "parsed", "delete"},
           events' \in Seq(Events), Once(events'),
           \A e \in ToSet(events') : e \in ToSet(Tail(events)) \/ e[1] = "delete",
           ToSet(Tail(events)) \subseteq ToSet(events'),
           doing' = doing, DOMAIN parse \subseteq DOMAIN parse',
           ToSet(waiting') \cap DOMAIN parse \subseteq ToSet(waiting),
           UNCHANGED <<update, scheduled, result, changes>>
    PROVE  UpdateTyped' /\ EventsTyped'
<1>1. Head(events) # <<"updated">>
    <2>1. <<"updated">>[1] \notin {"loaded", "parsed", "delete"}
        OBVIOUS
    <2> QED BY <2>1
<1>2. /\ update = "posted" <=> <<"updated">> \in ToSet(Tail(events))
      /\ \A t \in Nat : <<"start", t>> \in ToSet(Tail(events)) => t \in doing
      /\ \A t \in Nat : <<"finished", t>> \in ToSet(Tail(events)) =>
                            t \in DOMAIN parse \ (doing \cup ToSet(waiting))
    BY <1>1, EventTaken
<1>3. <<"updated">>[1] # "delete" /\ \A t : <<"start", t>>[1] # "delete" /\ <<"finished", t>>[1] # "delete"
    OBVIOUS
<1>4. <<"updated">> \in ToSet(events') <=> <<"updated">> \in ToSet(Tail(events))
    BY <1>3
<1>5. UpdateTyped'
    BY <1>2, <1>4 DEF UpdateTyped
<1>6. \A t \in Nat : <<"start", t>> \in ToSet(events') => t \in doing'
    BY <1>2, <1>3
<1>7. \A t \in Nat : <<"finished", t>> \in ToSet(events') =>
                        t \in DOMAIN parse' \ (doing' \cup ToSet(waiting'))
    BY <1>2, <1>3
<1> QED BY <1>5, <1>6, <1>7 DEF EventsTyped

LEMMA DeletionsPosted ==
    ASSUME NEW queue \in Seq(Events), Once(queue),
           NEW tickets, tickets \subseteq Nat, IsFiniteSet(tickets)
    PROVE  LET all == queue \o SetToSeq({<<"delete", t>> : t \in tickets}) IN
           /\ all \in Seq(Events) /\ Once(all) /\ ToSet(queue) \subseteq ToSet(all)
           /\ \A e \in ToSet(all) : e \in ToSet(queue) \/ e[1] = "delete"
<1> DEFINE more == SetToSeq({<<"delete", t>> : t \in tickets})
<1>1. more \in Seq(Events) /\ Once(more) /\ \A e \in ToSet(more) : e[1] = "delete"
    BY DeletionsAre
<1> HIDE DEF more
<1>2. \A e \in ToSet(more) : e[1] \in {"updated", "start", "finished"} => e \notin ToSet(queue)
    BY <1>1
<1>3. Once(queue \o more)
    BY ONLY <1>1, <1>2, Once(queue), queue \in Seq(Events), JoinedOnce
<1>4. queue \o more \in Seq(Events) /\ ToSet(queue \o more) = ToSet(queue) \cup ToSet(more)
    BY ONLY <1>1, queue \in Seq(Events), JoinedIs
<1> QED BY <1>1, <1>3, <1>4 DEF more

LEMMA IndexRebuilt ==
    ASSUME rows' \in Seq(Rows), changes' = changes, index' = Places(rows'),
           ~clashed' => \A i, j \in DOMAIN rows' : rows'[i].id = rows'[j].id => i = j,
           \A i \in DOMAIN rows' : rows'[i].ticket \in (DOMAIN parse') \cup {NoTicket}
    PROVE  RowsTyped' /\ IndexMatches'
<1>1. /\ DOMAIN index' = {rows'[i].id : i \in DOMAIN rows'} /\ index' \in [DOMAIN index' -> Nat]
      /\ ~clashed' => \A i \in DOMAIN rows' : index'[rows'[i].id] = i - 1
    BY PlacesAre
<1>2. \A i \in DOMAIN rows' : rows'[i] \in Rows
    OBVIOUS
<1>3. \A i \in DOMAIN rows' : rows'[i].id \in Ids
    BY <1>2 DEF Rows
<1>4. Rows' = Rows
    BY DEF Rows
<1>5. RowsTyped'
    BY <1>1, <1>3, <1>4 DEF RowsTyped
<1>6. IndexMatches'
    BY <1>1 DEF IndexMatches
<1> QED BY <1>5, <1>6

\* No two rows have one name.
LEMMA RowsDiffer ==
    ASSUME RowsTyped, IndexMatches, ~clashed, NEW i \in DOMAIN rows, NEW j \in DOMAIN rows, rows[i].id = rows[j].id
    PROVE  i = j
<1>1. i - 1 = j - 1
    BY DEF IndexMatches
<1>2. i \in Nat /\ j \in Nat
    BY DEF RowsTyped
<1> QED BY <1>1, <1>2

LEMMA ForgetRowKeeps ==
    ASSUME FolderIInv, NEW place \in Nat, place < Len(rows), events # << >>,
           Head(events)[1] \in {"loaded", "parsed", "delete"}, ForgetRow(place),
           UNCHANGED <<files, page, updating, waiting, doing, clashed, mistaken>>, slipped' \in BOOLEAN
    PROVE  FolderIInv'
<1> DEFINE t == rows[place + 1].ticket
           gone == {t} \cap DOMAIN parse
<1>1. /\ rows' = RemoveAt(rows, place + 1) /\ index' = Places(rows')
      /\ parse' = [u \in DOMAIN parse |-> IF u = t THEN [parse[u] EXCEPT !.object = "leaving"]
                                                   ELSE parse[u]]
      /\ events' = Tail(events) \o SetToSeq({<<"delete", u>> : u \in gone}) /\ alive' = alive
    <2>1. place \in Nat /\ Len(rows) \in Nat
        BY DEF FolderIInv, RowsTyped
    <2>2. ~(place >= Len(rows))
        BY <2>1
    <2> QED BY <2>2 DEF ForgetRow, Deletions
<1>2. UNCHANGED <<folder, changes, unseen, watching, visits, update, scheduled, result, waiting, doing>>
    BY DEF files, page, updating
<1>3. FilesTyped /\ UpdateTyped /\ RowsTyped /\ TasksTyped /\ PoolTyped /\ EventsTyped
      /\ RowsApart /\ IndexMatches
    BY DEF FolderIInv
<1>4. DOMAIN parse' = DOMAIN parse /\ \A u \in DOMAIN parse : parse'[u] \in Tasks
    <2>1. ASSUME NEW u \in DOMAIN parse PROVE parse'[u] \in Tasks
        <3>1. parse[u] \in Tasks
            BY <1>3 DEF TasksTyped
        <3>2. CASE u = t
            BY <1>1, <3>1, <3>2 DEF Tasks
        <3>3. CASE u # t
            BY <1>1, <3>1, <3>3
        <3> QED BY <3>2, <3>3
    <2> QED BY <1>1, <2>1
<1>5. gone \subseteq Nat /\ IsFiniteSet(gone)
    <2>1. gone \in SUBSET DOMAIN parse
        OBVIOUS
    <2> HIDE DEF gone
    <2> QED BY <1>3, <2>1, FS_Subset DEF TasksTyped
<1> HIDE DEF gone
<1>6. /\ events' \in Seq(Events) /\ Once(events')
      /\ \A e \in ToSet(events') : e \in ToSet(Tail(events)) \/ e[1] = "delete"
      /\ ToSet(Tail(events)) \subseteq ToSet(events')
    <2>1. Tail(events) \in Seq(Events) /\ Once(Tail(events))
        BY <1>3, EventTaken
    <2> HIDE DEF t
    <2> QED BY <1>1, <1>5, <2>1, DeletionsPosted
<1> HIDE DEF t
<1>7. UpdateTyped' /\ EventsTyped'
    BY <1>2, <1>3, <1>4, <1>6, EventsQuiet
<1>8. FilesTyped'
    BY <1>1, <1>2, <1>3 DEF FilesTyped
<1>9. TasksTyped' /\ PoolTyped'
    BY <1>2, <1>3, <1>4 DEF TasksTyped, PoolTyped
<1> DEFINE n == Len(rows)
           from(i) == IF i < place + 1 THEN i ELSE i + 1
<1>10. n \in Nat /\ DOMAIN rows = 1..n /\ place + 1 \in DOMAIN rows /\ rows \in Seq(Rows)
    BY <1>3 DEF RowsTyped
<1>11. /\ rows' \in Seq(Rows) /\ DOMAIN rows' = 1..(n - 1)
       /\ \A i \in 1..(n - 1) : rows'[i] = IF i < place + 1 THEN rows[i] ELSE rows[i + 1]
    BY <1>1, <1>10, RemoveAtIs
<1> HIDE DEF n
<1>12. /\ \A i \in DOMAIN rows' : from(i) \in DOMAIN rows /\ rows'[i] = rows[from(i)]
       /\ \A i, j \in DOMAIN rows' : from(i) = from(j) => i = j
    BY <1>10, <1>11
<1> HIDE DEF from
<1>13. ~clashed => \A i, j \in DOMAIN rows' : rows'[i].id = rows'[j].id => i = j
    BY <1>3, <1>12, RowsDiffer
<1>14. \A i \in DOMAIN rows' : rows'[i].ticket \in (DOMAIN parse') \cup {NoTicket}
    BY <1>3, <1>4, <1>12 DEF RowsTyped
<1>15. RowsTyped' /\ IndexMatches'
    BY <1>1, <1>2, <1>11, <1>13, <1>14, IndexRebuilt
<1>16. RowsApart'
    <2>1. RowIds' \subseteq RowIds
        BY <1>12 DEF RowIds
    <2>2. ~clashed => NeverBoth(RowIds')
        BY <1>3, <2>1 DEF RowsApart, NeverBoth
    <2> QED BY <1>2, <1>3, <2>2, StillApart
<1> QED BY <1>7, <1>8, <1>9, <1>15, <1>16 DEF FolderIInv

\* The flag of a row used outside the list says so, and no more.
LEMMA OnlyTheFlags ==
    ASSUME FolderIInv, slipped' \in BOOLEAN, alive' \in BOOLEAN,
           UNCHANGED <<files, page, updating, shown, parsing, events, clashed, mistaken>>
    PROVE  FolderIInv'
<1>1. UNCHANGED <<folder, changes, unseen, watching, visits, update, scheduled, result, rows, index,
                  parse, waiting, doing, events>>
    BY DEF files, page, updating, shown, parsing
<1>2. FilesTyped /\ UpdateTyped /\ RowsTyped /\ TasksTyped /\ PoolTyped /\ EventsTyped
      /\ RowsApart /\ IndexMatches
    BY DEF FolderIInv
<1>3. FilesTyped'
    BY <1>1, <1>2 DEF FilesTyped
<1>4. UpdateTyped'
    BY <1>1, <1>2 DEF UpdateTyped
<1>5. TasksTyped' /\ PoolTyped' /\ EventsTyped'
    BY <1>1, <1>2 DEF TasksTyped, PoolTyped, EventsTyped
<1>6. RowsTyped' /\ RowsApart' /\ IndexMatches'
    BY <1>1, <1>2, ListKept DEF shown
<1> QED BY <1>3, <1>4, <1>5, <1>6 DEF FolderIInv

LEMMA ParseReportsKeeps ==
    ASSUME FolderIInv, NEW t \in DOMAIN parse, NEW ok \in BOOLEAN, ParseReports(t, ok)
    PROVE  FolderIInv'
<1>1. /\ events # << >> /\ Head(events) = <<"parsed", t, ok>>
      /\ UNCHANGED <<files, page, updating, waiting, doing, clashed, mistaken>>
    BY DEF ParseReports
<1>2. FilesTyped /\ UpdateTyped /\ RowsTyped /\ TasksTyped /\ PoolTyped /\ EventsTyped
      /\ RowsApart /\ IndexMatches
    BY DEF FolderIInv
<1>3. Head(events)[1] \in {"loaded", "parsed", "delete"}
    BY <1>1
<1>4. PICK id \in Ids :
         /\ slipped' = (slipped \/ id \notin DOMAIN index \/ parse[t].object = "gone")
         /\ IF ok
            THEN /\ index' = IF id \in DOMAIN index THEN index ELSE Put(index, id, 0)
                 /\ events' = Tail(events)
                 /\ UNCHANGED <<rows, parse, alive>>
            ELSE ForgetRow(IF id \in DOMAIN index THEN index[id] ELSE 0)
    <2>1. parse[t].id \in Ids
        BY <1>2 DEF TasksTyped, Tasks
    <2> QED BY <2>1, Zenon DEF ParseReports
<1>5. slipped' \in BOOLEAN
    BY <1>2, <1>4 DEF FilesTyped
<1>6. CASE ~ok
    <2> DEFINE place == IF id \in DOMAIN index THEN index[id] ELSE 0
    <2>1. place \in Nat /\ Len(rows) \in Nat
        BY <1>2 DEF RowsTyped
    <2>2. ForgetRow(place)
        BY <1>4, <1>6
    <2> HIDE DEF place
    <2>3. CASE place < Len(rows)
        BY <1>1, <1>3, <1>5, <2>1, <2>2, <2>3, ForgetRowKeeps
    <2>4. CASE ~(place < Len(rows))
        <3>1. place >= Len(rows)
            BY <2>1, <2>4
        <3>2. alive' = FALSE /\ UNCHANGED <<shown, parse, events>>
            BY <2>2, <3>1 DEF ForgetRow
        <3> QED BY <1>1, <1>5, <3>2, OnlyTheFlags DEF parsing
    <2> QED BY <2>3, <2>4
<1>7. CASE ok
    <2>1. /\ index' = (IF id \in DOMAIN index THEN index ELSE Put(index, id, 0))
          /\ events' = Tail(events)
          /\ UNCHANGED <<folder, changes, unseen, watching, visits, update, scheduled, result, rows,
                         parse, waiting, doing, alive>>
        BY <1>1, <1>4, <1>7 DEF files, page, updating
    <2>2. FilesTyped'
        BY <1>1, <1>2, <1>5, <2>1 DEF FilesTyped
    <2>3. UpdateTyped' /\ EventsTyped'
        <3>1. Tail(events) \in Seq(Events) /\ Once(Tail(events))
            BY <1>1, <1>2, EventTaken
        <3> QED BY <1>1, <1>2, <1>3, <2>1, <3>1, EventsQuiet
    <2>4. TasksTyped' /\ PoolTyped'
        BY <1>2, <2>1 DEF TasksTyped, PoolTyped
    <2>5. RowsApart'
        <3>1. RowIds' = RowIds
            BY <2>1 DEF RowIds
        <3>2. ~clashed => NeverBoth(RowIds')
            BY <1>2, <3>1 DEF RowsApart
        <3> QED BY <1>1, <1>2, <2>1, <3>2, StillApart
    <2>6. /\ DOMAIN index \subseteq DOMAIN index' /\ DOMAIN index' \subseteq Ids
          /\ index' \in [DOMAIN index' -> Nat]
          /\ \A other \in DOMAIN index : index'[other] = index[other]
        <3>1. CASE id \in DOMAIN index
            BY <1>2, <2>1, <3>1 DEF RowsTyped
        <3>2. CASE id \notin DOMAIN index
            <4>1. index' = Put(index, id, 0)
                BY <2>1, <3>2
            <4>2. DOMAIN index' = DOMAIN index \cup {id}
                BY <4>1, PutIs
            <4>3. \A other \in DOMAIN index : index'[other] = index[other]
                BY <3>2, <4>1 DEF Put
            <4>4. index' \in [DOMAIN index' -> Nat]
                BY <1>2, <4>1 DEF RowsTyped, Put
            <4> QED BY <1>2, <4>2, <4>3, <4>4 DEF RowsTyped
        <3> QED BY <3>1, <3>2
    <2>7. RowsTyped'
        BY <1>2, <2>1, <2>6 DEF RowsTyped, Rows
    <2>8. IndexMatches'
        BY <1>1, <1>2, <2>1, <2>6 DEF IndexMatches
    <2> QED BY <2>2, <2>3, <2>4, <2>5, <2>7, <2>8 DEF FolderIInv
<1> QED BY <1>6, <1>7

LEMMA ParseEndsKeeps ==
    ASSUME FolderIInv, NEW t \in DOMAIN parse, ParseEnds(t)
    PROVE  FolderIInv'
<1> DEFINE event == <<"finished", t>>
           rest == Tail(events)
<1>1. /\ events # << >> /\ Head(events) = event /\ events' = Unposted(rest, <<"delete", t>>)
      /\ parse' = [u \in DOMAIN parse \ {t} |-> parse[u]]
      /\ rows' = [i \in DOMAIN rows |->
                    IF rows[i].ticket = t THEN [rows[i] EXCEPT !.ticket = NoTicket] ELSE rows[i]]
      /\ UNCHANGED <<folder, changes, unseen, watching, visits, update, scheduled, result, index,
                     waiting, doing, slipped, clashed, mistaken, alive>>
    BY DEF ParseEnds, files, page, updating, ghosts
<1>2. FilesTyped /\ UpdateTyped /\ RowsTyped /\ TasksTyped /\ PoolTyped /\ EventsTyped
      /\ RowsApart /\ IndexMatches
    BY DEF FolderIInv
<1>3. t \in Nat /\ t # 0
    BY <1>2 DEF TasksTyped
<1>4. event[1] \in {"updated", "start", "finished"} /\ event # <<"updated">>
    OBVIOUS
<1>5. /\ rest \in Seq(Events) /\ Once(rest) /\ event \notin ToSet(rest)
      /\ ToSet(events) = {event} \cup ToSet(rest)
      /\ update = "posted" <=> <<"updated">> \in ToSet(rest)
      /\ \A u \in Nat : <<"start", u>> \in ToSet(rest) => u \in doing
      /\ \A u \in Nat : <<"finished", u>> \in ToSet(rest) =>
                           u \in DOMAIN parse \ (doing \cup ToSet(waiting))
    BY <1>1, <1>2, <1>4, EventTaken
<1>6. t \in DOMAIN parse \ (doing \cup ToSet(waiting))
    BY <1>2, <1>3, <1>5 DEF EventsTyped
<1>7. /\ events' \in Seq(Events) /\ Once(events') /\ ToSet(events') \subseteq ToSet(rest)
      /\ <<"updated">> \in ToSet(rest) => <<"updated">> \in ToSet(events')
    <2>1. <<"updated">> # <<"delete", t>>
        OBVIOUS
    <2> HIDE DEF rest
    <2> QED BY <1>1, <1>5, <2>1, UnpostedIs
<1>8. DOMAIN parse' = DOMAIN parse \ {t} /\ \A u \in DOMAIN parse \ {t} : parse'[u] = parse[u]
    BY <1>1
<1>9. FilesTyped'
    BY <1>1, <1>2 DEF FilesTyped
<1>10. UpdateTyped'
    BY <1>1, <1>2, <1>5, <1>7 DEF UpdateTyped
<1>11. TasksTyped'
    BY <1>2, <1>8, FS_Subset DEF TasksTyped
<1>12. PoolTyped'
    <2>1. waiting' \in Seq(DOMAIN parse')
        <3>1. waiting \in Seq(DOMAIN parse) /\ \A i \in DOMAIN waiting : waiting[i] # t
            BY <1>2, <1>6 DEF PoolTyped, ToSet
        <3>2. \A i \in 1..Len(waiting) : waiting[i] \in DOMAIN parse \ {t}
            BY <3>1
        <3> QED BY <1>1, <1>8, <3>1, <3>2
    <2> QED BY <1>1, <1>2, <1>6, <1>8, <2>1 DEF PoolTyped
<1>13. EventsTyped'
    <2>1. \A u : <<"finished", u>> \in ToSet(rest) => u # t
        BY <1>5
    <2> HIDE DEF rest
    <2> QED BY <1>1, <1>5, <1>7, <1>8, <2>1 DEF EventsTyped
<1>14. /\ DOMAIN rows' = DOMAIN rows /\ Len(rows') = Len(rows)
       /\ \A i \in DOMAIN rows : /\ rows'[i] \in Rows /\ rows'[i].id = rows[i].id
                                 /\ rows'[i].ticket \in (DOMAIN parse') \cup {NoTicket}
    <2>1. ASSUME NEW i \in DOMAIN rows
          PROVE  /\ rows'[i] \in Rows /\ rows'[i].id = rows[i].id
                 /\ rows'[i].ticket \in (DOMAIN parse') \cup {NoTicket}
        <3>1. rows[i] \in Rows /\ rows[i].ticket \in (DOMAIN parse) \cup {NoTicket}
            BY <1>2 DEF RowsTyped
        <3>2. CASE rows[i].ticket = t
            <4>1. rows'[i] = [rows[i] EXCEPT !.ticket = NoTicket]
                BY <1>1, <3>2
            <4> QED BY <3>1, <4>1 DEF Rows, NoTicket
        <3>3. CASE rows[i].ticket # t
            BY <1>1, <1>8, <3>1, <3>3 DEF Rows
        <3> QED BY <3>2, <3>3
    <2>2. rows \in Seq(Rows)
        BY <1>2 DEF RowsTyped
    <2>3. DOMAIN rows' = 1..Len(rows)
        BY <1>1, <2>2
    <2>4. Len(rows') = Len(rows)
        BY <1>1, <2>2
    <2> QED BY <1>1, <2>1, <2>4
<1>15. RowsTyped'
    <2>1. rows \in Seq(Rows) /\ Rows' = Rows
        BY <1>1, <1>2 DEF RowsTyped, Rows
    <2>2. rows' \in Seq(Rows)
        <3>1. Len(rows) \in Nat /\ DOMAIN rows = 1..Len(rows)
            BY <2>1
        <3>2. rows' = [i \in 1..Len(rows) |-> rows'[i]]
            BY <1>1, <3>1
        <3>3. \A i \in 1..Len(rows) : rows'[i] \in Rows
            BY <1>14, <3>1
        <3> QED BY ONLY <3>1, <3>2, <3>3
    <2> QED BY <1>1, <1>2, <1>14, <2>1, <2>2 DEF RowsTyped
<1>16. RowsApart'
    <2>1. RowIds' = RowIds
        BY <1>14 DEF RowIds
    <2>2. ~clashed => NeverBoth(RowIds')
        BY <1>2, <2>1 DEF RowsApart
    <2> QED BY <1>1, <1>2, <2>2, StillApart
<1>17. IndexMatches'
    BY <1>1, <1>2, <1>14 DEF IndexMatches
<1> QED BY <1>9, <1>10, <1>11, <1>12, <1>13, <1>15, <1>16, <1>17 DEF FolderIInv

LEMMA ResourceDeletedKeeps ==
    ASSUME FolderIInv, NEW t \in DOMAIN parse, ResourceDeleted(t)
    PROVE  FolderIInv'
<1>1. /\ events # << >> /\ Head(events) = <<"delete", t>> /\ events' = Tail(events)
      /\ parse' = [u \in DOMAIN parse |->
                     IF u = t THEN [parse[u] EXCEPT !.object = "gone"] ELSE parse[u]]
      /\ UNCHANGED <<folder, changes, unseen, watching, visits, update, scheduled, result, rows,
                     index, waiting, doing, slipped, clashed, mistaken, alive>>
    BY DEF ResourceDeleted, files, page, updating, shown, ghosts
<1>2. FilesTyped /\ UpdateTyped /\ RowsTyped /\ TasksTyped /\ PoolTyped /\ EventsTyped
      /\ RowsApart /\ IndexMatches
    BY DEF FolderIInv
<1>3. Head(events)[1] \in {"loaded", "parsed", "delete"}
    BY <1>1
<1>4. DOMAIN parse' = DOMAIN parse /\ \A u \in DOMAIN parse : parse'[u] \in Tasks
    <2>1. ASSUME NEW u \in DOMAIN parse PROVE parse'[u] \in Tasks
        <3>1. parse[u] \in Tasks
            BY <1>2 DEF TasksTyped
        <3>2. CASE u = t
            BY <1>1, <3>1, <3>2 DEF Tasks
        <3>3. CASE u # t
            BY <1>1, <3>1, <3>3
        <3> QED BY <3>2, <3>3
    <2> QED BY <1>1, <2>1
<1>5. UpdateTyped' /\ EventsTyped'
    <2>1. Tail(events) \in Seq(Events) /\ Once(Tail(events))
        BY <1>1, <1>2, EventTaken
    <2> QED BY <1>1, <1>2, <1>3, <1>4, <2>1, EventsQuiet
<1>6. FilesTyped'
    BY <1>1, <1>2 DEF FilesTyped
<1>7. TasksTyped' /\ PoolTyped'
    BY <1>1, <1>2, <1>4 DEF TasksTyped, PoolTyped
<1>8. RowsTyped' /\ RowsApart' /\ IndexMatches'
    BY <1>1, <1>2, <1>4, ListKept DEF shown
<1> QED BY <1>5, <1>6, <1>7, <1>8 DEF FolderIInv

-----------------------------------------------------------------------------
(* The folder and the page. *)

LEMMA UpdateAsked ==
    ASSUME FilesTyped, UpdateTyped, Update \/ UNCHANGED updating,
           changes' \in {changes, changes + 1}, UNCHANGED events
    PROVE  UpdateTyped' /\ result' = result
<1>1. /\ update' \in {"none", "reading", "posted"} /\ scheduled' \in BOOLEAN
      /\ scheduled' => update' # "none"
      /\ update' = "posted" <=> update = "posted"
      /\ result' = result
    <2>1. /\ update \in {"none", "reading", "posted"} /\ scheduled \in BOOLEAN
          /\ scheduled => update # "none"
        BY DEF UpdateTyped
    <2>2. CASE UNCHANGED updating
        BY <2>1, <2>2 DEF updating
    <2>3. CASE Update /\ update = "none"
        <3>1. update' = "reading" /\ scheduled' = scheduled /\ result' = result
            BY <2>3 DEF Update
        <3> QED BY <2>1, <2>3, <3>1
    <2>4. CASE Update /\ update # "none"
        <3>1. update' = update /\ scheduled' = TRUE /\ result' = result
            BY <2>4 DEF Update
        <3> QED BY <2>1, <2>4, <3>1
    <2> QED BY <2>2, <2>3, <2>4
<1>2. result' \in [DOMAIN result' -> 0..changes']
    <2>1. changes \in Nat
        BY DEF FilesTyped
    <2>2. \A x \in 0..changes : x \in 0..changes'
        BY <2>1
    <2>3. result \in [DOMAIN result -> 0..changes]
        BY DEF UpdateTyped
    <2> QED BY <1>1, <2>2, <2>3
<1> QED BY <1>1, <1>2 DEF UpdateTyped

\* A change of the folder that moves no row, and may mark rows and their tasks.
LEMMA MarkedChangeKeeps ==
    ASSUME FolderIInv, changes < MaxChanges, changes' = changes + 1,
           DOMAIN folder' \subseteq Ids, \A id \in DOMAIN folder' : folder'[id] \in 0..changes',
           folder' = [id \in DOMAIN folder' |-> folder'[id]], unseen' \in BOOLEAN,
           Update \/ UNCHANGED updating,
           rows' \in Seq(Rows), DOMAIN rows' = DOMAIN rows,
           \A i \in DOMAIN rows : rows'[i].id = rows[i].id /\ rows'[i].ticket = rows[i].ticket,
           DOMAIN parse' = DOMAIN parse, \A t \in DOMAIN parse : parse'[t] \in Tasks,
           UNCHANGED <<page, index, waiting, doing, events, ghosts>>
    PROVE  FolderIInv'
<1>1. UNCHANGED <<watching, visits, index, waiting, doing, events, slipped, clashed, mistaken, alive>>
    BY DEF page, ghosts
<1>2. FilesTyped /\ UpdateTyped /\ RowsTyped /\ TasksTyped /\ PoolTyped /\ EventsTyped
      /\ RowsApart /\ IndexMatches
    BY DEF FolderIInv
<1>3. changes \in Nat /\ changes' \in 0..MaxChanges
    BY <1>2, FolderAssumption DEF FilesTyped
<1>4. UpdateTyped' /\ result' = result
    BY <1>1, <1>2, UpdateAsked
<1>5. FilesTyped'
    <2>1. folder' \in [DOMAIN folder' -> 0..changes']
        OBVIOUS
    <2> QED BY <1>1, <1>2, <1>3, <2>1 DEF FilesTyped
<1>6. TasksTyped' /\ PoolTyped' /\ EventsTyped'
    BY <1>1, <1>2 DEF TasksTyped, PoolTyped, EventsTyped
<1>7. RowsTyped'
    <2>1. \A x \in 0..changes : x \in 0..changes'
        BY <1>3
    <2>2. \A row \in Rows : row \in Rows'
        BY <2>1 DEF Rows
    <2>3. rows' \in Seq(Rows')
        BY <2>2
    <2>4. \A i \in DOMAIN rows' : rows'[i].ticket \in (DOMAIN parse') \cup {NoTicket}
        BY <1>2 DEF RowsTyped
    <2> QED BY <1>1, <1>2, <2>3, <2>4 DEF RowsTyped
<1>8. RowsApart'
    <2>1. RowIds' = RowIds
        BY DEF RowIds
    <2> QED BY <1>1, <1>2, <1>4, <2>1 DEF RowsApart
<1>9. IndexMatches'
    BY <1>1, <1>2 DEF IndexMatches
<1> QED BY <1>4, <1>5, <1>6, <1>7, <1>8, <1>9 DEF FolderIInv

\* One that marks none.
LEMMA ChangeKeeps ==
    ASSUME FolderIInv, changes < MaxChanges, changes' = changes + 1,
           DOMAIN folder' \subseteq Ids, \A id \in DOMAIN folder' : folder'[id] \in 0..changes',
           folder' = [id \in DOMAIN folder' |-> folder'[id]], unseen' \in BOOLEAN,
           Update \/ UNCHANGED updating,
           UNCHANGED <<page, shown, parsing, events, ghosts>>
    PROVE  FolderIInv'
<1>1. rows' = rows /\ parse' = parse /\ UNCHANGED <<index, waiting, doing>>
    BY DEF shown, parsing
<1>2. rows' \in Seq(Rows) /\ \A t \in DOMAIN parse : parse'[t] \in Tasks
    BY <1>1 DEF FolderIInv, RowsTyped, TasksTyped
<1> QED BY <1>1, <1>2, MarkedChangeKeeps

\* A file that is written, and is no duplicate.
LEMMA WithKeeps ==
    ASSUME FolderIInv, NEW id \in Ids, id[2] \in {On, Off}, Change(With(id, changes + 1)),
           Update \/ UNCHANGED updating,
           UNCHANGED <<page, shown, parsing, events, ghosts>>
    PROVE  FolderIInv'
<1>1. /\ changes < MaxChanges /\ changes' = changes + 1 /\ unseen' = (unseen \/ watching)
      /\ folder' = Put(folder, id, changes + 1)
    BY DEF Change, With
<1>2. FilesTyped
    BY DEF FolderIInv
<1>3. DOMAIN folder' = DOMAIN folder \cup {id} /\ folder' = [z \in DOMAIN folder' |-> folder'[z]]
    BY <1>1 DEF Put
<1>4. \A z \in DOMAIN folder' : folder'[z] \in 0..changes'
    <2>1. changes \in Nat
        BY <1>2 DEF FilesTyped
    <2>2. changes + 1 \in 0..changes' /\ \A x \in 0..changes : x \in 0..changes'
        BY <1>1, <2>1
    <2> QED BY <1>1, <1>2, <2>2 DEF FilesTyped, Put
<1>6. DOMAIN folder' \subseteq Ids /\ unseen' \in BOOLEAN
    BY <1>1, <1>2, <1>3 DEF FilesTyped
<1> QED BY <1>1, <1>3, <1>4, <1>6, ChangeKeeps

LEMMA WithoutKeeps ==
    ASSUME FolderIInv, NEW id, Change(Without(id)),
           Update \/ UNCHANGED updating,
           UNCHANGED <<page, shown, parsing, events, ghosts>>
    PROVE  FolderIInv'
<1>1. /\ changes < MaxChanges /\ changes' = changes + 1 /\ unseen' = (unseen \/ watching)
      /\ folder' = [i \in DOMAIN folder \ {id} |-> folder[i]]
    BY DEF Change, Without
<1>2. FilesTyped
    BY DEF FolderIInv
<1>3. DOMAIN folder' = DOMAIN folder \ {id} /\ folder' = [z \in DOMAIN folder' |-> folder'[z]]
    BY <1>1
<1>4. \A z \in DOMAIN folder' : folder'[z] \in 0..changes'
    <2>1. changes \in Nat
        BY <1>2 DEF FilesTyped
    <2>2. \A x \in 0..changes : x \in 0..changes'
        BY <1>1, <2>1
    <2> QED BY <1>1, <1>2, <2>2 DEF FilesTyped
<1>6. DOMAIN folder' \subseteq Ids /\ unseen' \in BOOLEAN
    BY <1>1, <1>2, <1>3 DEF FilesTyped
<1> QED BY <1>1, <1>3, <1>4, <1>6, ChangeKeeps

LEMMA FileWrittenKeeps ==
    ASSUME FolderIInv, NEW id \in Ids, FileWritten(id)
    PROVE  FolderIInv'
BY WithKeeps DEF FileWritten

LEMMA FileRemovedKeeps ==
    ASSUME FolderIInv, NEW id \in Ids, FileRemoved(id)
    PROVE  FolderIInv'
BY WithoutKeeps DEF FileRemoved

LEMMA InstallResourceKeeps ==
    ASSUME FolderIInv, NEW id \in Ids, NEW copied \in BOOLEAN, InstallResource(id, copied)
    PROVE  FolderIInv'
<1>1. /\ id[2] \in {On, Off} /\ (Update \/ UNCHANGED updating)
      /\ UNCHANGED <<page, shown, parsing, events, ghosts>>
    BY DEF InstallResource
<1>2. CASE copied
    <2>1. Change(With(id, changes + 1))
        <3>1. /\ alive /\ changes < MaxChanges /\ changes' = changes + 1 /\ unseen' = (unseen \/ watching)
              /\ folder' = IF copied THEN With(id, changes + 1) ELSE Without(id)
            BY Zenon DEF InstallResource, Change
        <3>2. folder' = With(id, changes + 1)
            BY <1>2, <3>1, Zenon
        <3> QED BY <3>1, <3>2, Zenon DEF Change
    <2> QED BY <1>1, <2>1, WithKeeps
<1>3. CASE ~copied
    <2>1. Change(Without(id))
        BY <1>3, Zenon DEF InstallResource
    <2> QED BY <1>1, <2>1, WithoutKeeps
<1> QED BY <1>2, <1>3

LEMMA UninstallResourceKeeps ==
    ASSUME FolderIInv, NEW i \in DOMAIN rows, NEW deleted \in BOOLEAN,
           UninstallResource(i, deleted)
    PROVE  FolderIInv'
<1> DEFINE id == rows[i].id
<1>1. /\ rows' = [rows EXCEPT ![i].unknown = TRUE]
      /\ parse' = [t \in DOMAIN parse |->
                     IF t = rows[i].ticket THEN [parse[t] EXCEPT !.unknown = TRUE] ELSE parse[t]]
      /\ Update /\ UNCHANGED <<page, index, waiting, doing, events, ghosts>>
    BY DEF UninstallResource
<1>2. FilesTyped /\ RowsTyped /\ TasksTyped
    BY DEF FolderIInv
<1>3. /\ changes < MaxChanges /\ changes' = changes + 1
      /\ folder' = [f \in DOMAIN folder' |-> folder[f]] /\ DOMAIN folder' \subseteq DOMAIN folder
      /\ unseen' \in BOOLEAN
    <2>1. CASE deleted
        <3>1. Change(Without(id))
            BY <2>1 DEF UninstallResource
        <3>2. /\ changes < MaxChanges /\ changes' = changes + 1 /\ unseen' = (unseen \/ watching)
              /\ folder' = [f \in DOMAIN folder \ {id} |-> folder[f]]
            BY <3>1 DEF Change, Without
        <3> QED BY <1>2, <3>2 DEF FilesTyped
    <2>2. CASE ~deleted
        <3>1. changes < MaxChanges /\ changes' = changes + 1 /\ folder' = folder /\ unseen' = unseen
            BY <2>2 DEF UninstallResource
        <3> QED BY <1>2, <3>1 DEF FilesTyped
    <2> QED BY <2>1, <2>2
<1>4. DOMAIN folder' \subseteq Ids /\ \A f \in DOMAIN folder' : folder'[f] \in 0..changes'
    <2>1. \A x \in 0..changes : x \in 0..changes'
        BY <1>2, <1>3 DEF FilesTyped
    <2> QED BY <1>2, <1>3, <2>1 DEF FilesTyped
<1>5. folder' = [f \in DOMAIN folder' |-> folder'[f]]
    BY <1>3
<1>6. /\ rows' \in Seq(Rows) /\ DOMAIN rows' = DOMAIN rows
      /\ \A j \in DOMAIN rows : rows'[j].id = rows[j].id /\ rows'[j].ticket = rows[j].ticket
    <2>1. rows \in Seq(Rows) /\ rows[i] \in Rows
        BY <1>2 DEF RowsTyped
    <2>2. [rows[i] EXCEPT !.unknown = TRUE] \in Rows
          /\ [rows[i] EXCEPT !.unknown = TRUE].id = rows[i].id
          /\ [rows[i] EXCEPT !.unknown = TRUE].ticket = rows[i].ticket
        BY <2>1 DEF Rows
    <2>3. rows' = [rows EXCEPT ![i] = [rows[i] EXCEPT !.unknown = TRUE]]
        BY <1>1
    <2> HIDE DEF Rows
    <2> QED BY <2>1, <2>2, <2>3
<1>7. DOMAIN parse' = DOMAIN parse /\ \A t \in DOMAIN parse : parse'[t] \in Tasks
    <2>1. ASSUME NEW t \in DOMAIN parse PROVE parse'[t] \in Tasks
        <3>1. parse[t] \in Tasks
            BY <1>2 DEF TasksTyped
        <3>2. CASE t = rows[i].ticket
            BY <1>1, <3>1, <3>2 DEF Tasks
        <3>3. CASE t # rows[i].ticket
            BY <1>1, <3>1, <3>3
        <3> QED BY <3>2, <3>3
    <2> QED BY <1>1, <2>1
<1> HIDE DEF id
<1> QED BY <1>1, <1>3, <1>4, <1>5, <1>6, <1>7, MarkedChangeKeeps

\* The page and the watcher ask for updates and change nothing else.
LEMMA PageKeeps ==
    ASSUME FolderIInv, watching' \in BOOLEAN, visits' \in 0..MaxVisits, unseen' \in BOOLEAN,
           Update \/ UNCHANGED updating,
           UNCHANGED <<folder, changes, shown, parsing, events, ghosts>>
    PROVE  FolderIInv'
<1>1. UNCHANGED <<rows, index, parse, waiting, doing, slipped, clashed, mistaken, alive>>
    BY DEF shown, parsing, ghosts
<1>2. FilesTyped /\ UpdateTyped /\ RowsTyped /\ TasksTyped /\ PoolTyped /\ EventsTyped
      /\ RowsApart /\ IndexMatches
    BY DEF FolderIInv
<1>3. UpdateTyped' /\ result' = result
    BY <1>2, UpdateAsked
<1>4. FilesTyped'
    BY <1>1, <1>2 DEF FilesTyped
<1>5. TasksTyped' /\ PoolTyped' /\ EventsTyped'
    BY <1>2, TasksKept
<1>6. RowsTyped' /\ RowsApart' /\ IndexMatches'
    BY <1>1, <1>2, <1>3, ListKept
<1> QED BY <1>3, <1>4, <1>5, <1>6 DEF FolderIInv

LEMMA DirectoryChangedKeeps ==
    ASSUME FolderIInv, DirectoryChanged
    PROVE  FolderIInv'
<1>1. watching' = watching /\ visits' = visits /\ unseen' = FALSE
    BY DEF DirectoryChanged, page
<1>2. watching \in BOOLEAN /\ visits \in 0..MaxVisits
    BY DEF FolderIInv, FilesTyped
<1> QED BY <1>1, <1>2, PageKeeps DEF DirectoryChanged

LEMMA StartWatchingKeeps ==
    ASSUME FolderIInv, StartWatching
    PROVE  FolderIInv'
<1>1. visits < MaxVisits /\ watching' = TRUE /\ visits' = visits + 1 /\ unseen' = FALSE
    BY DEF StartWatching
<1>2. visits \in 0..MaxVisits /\ MaxVisits \in Nat
    BY FolderAssumption DEF FolderIInv, FilesTyped
<1>3. visits' \in 0..MaxVisits
    BY <1>1, <1>2
<1> QED BY <1>1, <1>3, PageKeeps DEF StartWatching

LEMMA StopWatchingKeeps ==
    ASSUME FolderIInv, StopWatching
    PROVE  FolderIInv'
<1>1. visits' = visits /\ watching' = FALSE /\ unseen' = FALSE
    BY DEF StopWatching
<1>2. visits \in 0..MaxVisits
    BY DEF FolderIInv, FilesTyped
<1> QED BY <1>1, <1>2, PageKeeps DEF StopWatching

LEMMA SetResourceEnabledKeeps ==
    ASSUME FolderIInv, NEW i \in DOMAIN rows, SetResourceEnabled(i)
    PROVE  FolderIInv'
<1> DEFINE old == rows[i].id
           n == old[1]
           new == EnabledName(old)
<1>1. /\ old[2] \in {On, Off} /\ old \in DOMAIN folder /\ new \notin DOMAIN folder
      /\ Duplicated(<<n, Off>>) => Free(n) # {}
      /\ clashed' = (clashed \/ \E j \in DOMAIN rows : rows[j].id = new)
      /\ changes < MaxChanges /\ changes' = changes + 1 /\ unseen' = (unseen \/ watching)
      /\ folder' = [id \in (DOMAIN folder \ {old}) \cup {new} |->
                      IF id = new THEN folder[old] ELSE folder[id]]
      /\ rows' = [rows EXCEPT ![i].id = new]
      /\ index' = Put([id \in DOMAIN index \ {old} |-> index[id]], new, i - 1)
      /\ parse' = [t \in DOMAIN parse |-> IF t = rows[i].ticket THEN [parse[t] EXCEPT !.id = new]
                                                                ELSE parse[t]]
      /\ UNCHANGED <<watching, visits, update, scheduled, result, waiting, doing, events, slipped, mistaken, alive>>
    BY DEF SetResourceEnabled, Change, page, updating, ghosts
<1>2. FilesTyped /\ UpdateTyped /\ RowsTyped /\ TasksTyped /\ PoolTyped /\ EventsTyped
      /\ RowsApart /\ IndexMatches
    BY DEF FolderIInv
<1>3. /\ rows \in Seq(Rows) /\ rows[i] \in Rows /\ i \in Nat /\ i - 1 \in Nat
      /\ changes \in Nat /\ changes' \in 0..MaxChanges
    BY <1>1, <1>2, FolderAssumption DEF RowsTyped, FilesTyped
<1>4. old \in Ids /\ old = <<n, old[2]>> /\ n \in Names /\ <<n, Off>> \in Ids /\ <<n, On>> \in Ids
    BY <1>3 DEF Rows, Ids
<1>5. \/ new \in {<<n, On>>, <<n, Off>>}
      \/ \E k \in Duplicates : new = <<n, k>>
    BY <1>1, <1>4, UniqueNameIs DEF EnabledName
<1>6. new \in Ids
    BY <1>4, <1>5 DEF Ids
<1>7. old \in RowIds /\ (~clashed => \A j \in DOMAIN rows : rows[j].id = old => j = i)
    BY <1>2, RowsDiffer DEF RowIds
<1> HIDE DEF old, n, new
<1>8. ~clashed' => ~clashed /\ new \notin RowIds
    BY <1>1 DEF RowIds
<1>9. /\ DOMAIN rows' = DOMAIN rows /\ Len(rows') = Len(rows)
      /\ rows'[i].id = new /\ rows'[i].ticket = rows[i].ticket /\ rows'[i].time = rows[i].time
      /\ \A j \in DOMAIN rows : j # i => rows'[j] = rows[j]
      /\ rows' = [j \in DOMAIN rows |-> rows'[j]]
    <2>1. rows' = [j \in DOMAIN rows |-> IF j = i THEN [rows[j] EXCEPT !.id = new] ELSE rows[j]]
        BY <1>1, <1>3
    <2>2. rows'[i] = [rows[i] EXCEPT !.id = new] /\ \A j \in DOMAIN rows : j # i => rows'[j] = rows[j]
        BY <2>1
    <2>3. DOMAIN rows' = DOMAIN rows /\ rows' = [j \in DOMAIN rows |-> rows'[j]]
        BY <2>1
    <2>4. Len(rows') = Len(rows)
        BY <1>3, <2>1
    <2>5. rows'[i].id = new /\ rows'[i].ticket = rows[i].ticket /\ rows'[i].time = rows[i].time
        BY <1>3, <2>2 DEF Rows
    <2> QED BY <2>2, <2>3, <2>4, <2>5
<1>10. FilesTyped'
    <2>1. \A id \in DOMAIN folder : folder[id] \in 0..changes /\ id \in Ids
        BY <1>2 DEF FilesTyped
    <2>2. \A x \in 0..changes : x \in 0..changes'
        BY <1>1, <1>3
    <2>3. DOMAIN folder' \subseteq Ids /\ folder' \in [DOMAIN folder' -> 0..changes']
        BY <1>1, <1>6, <2>1, <2>2
    <2>4. unseen' \in BOOLEAN
        BY <1>1, <1>2 DEF FilesTyped
    <2> QED BY <1>1, <1>2, <1>3, <2>3, <2>4 DEF FilesTyped
<1>11. UpdateTyped'
    BY <1>1, <1>2, UpdateAsked DEF updating
<1>12. /\ DOMAIN index' = (DOMAIN index \ {old}) \cup {new} /\ index'[new] = i - 1
       /\ \A id \in DOMAIN index : id # old /\ id # new => index'[id] = index[id]
       /\ index' \in [DOMAIN index' -> Nat]
    <2>1. \A id \in DOMAIN index : index[id] \in Nat
        BY <1>2 DEF RowsTyped
    <2> QED BY <1>1, <1>3, <2>1 DEF Put
<1>13. DOMAIN parse' = DOMAIN parse /\ \A t \in DOMAIN parse : parse'[t] \in Tasks
    <2>1. ASSUME NEW t \in DOMAIN parse PROVE parse'[t] \in Tasks
        <3>1. parse[t] \in Tasks
            BY <1>2 DEF TasksTyped
        <3>2. CASE t = rows[i].ticket
            BY <1>1, <1>6, <3>1, <3>2 DEF Tasks
        <3>3. CASE t # rows[i].ticket
            BY <1>1, <3>1, <3>3
        <3> QED BY <3>2, <3>3
    <2> QED BY <1>1, <2>1
<1>14. TasksTyped' /\ PoolTyped' /\ EventsTyped'
    BY <1>1, <1>2, <1>13 DEF TasksTyped, PoolTyped, EventsTyped
<1>15. RowsTyped'
    <2>1. \A x \in 0..changes : x \in 0..changes'
        BY <1>1, <1>3
    <2>2. \A row \in Rows : row \in Rows'
        BY <2>1 DEF Rows
    <2>3. rows'[i] \in Rows
        BY <1>1, <1>3, <1>6 DEF Rows
    <2>4. \A j \in DOMAIN rows : rows[j] \in Rows
        BY <1>3
    <2>5. \A j \in DOMAIN rows : rows'[j] \in Rows'
        BY <1>9, <2>2, <2>3, <2>4
    <2>6. rows' \in Seq(Rows')
        BY <1>3, <1>9, <2>5
    <2>7. \A j \in DOMAIN rows' : rows'[j].ticket \in (DOMAIN parse') \cup {NoTicket}
        BY <1>2, <1>9, <1>13 DEF RowsTyped
    <2> QED BY <1>2, <1>6, <1>12, <2>6, <2>7 DEF RowsTyped
<1>16. ~clashed => RowIds' = (RowIds \ {old}) \cup {new}
    BY <1>7, <1>9 DEF RowIds
<1>17. IndexMatches'
    <2>1. ASSUME ~clashed', NEW j \in DOMAIN rows
          PROVE  rows'[j].id \in DOMAIN index' /\ index'[rows'[j].id] = j - 1
        <3>1. CASE j = i
            BY <1>9, <1>12, <3>1
        <3>2. CASE j # i
            <4>1. rows'[j] = rows[j] /\ rows[j].id # old /\ rows[j].id # new
                BY <1>7, <1>8, <1>9, <2>1, <3>2 DEF RowIds
            <4> QED BY <1>2, <1>8, <1>12, <2>1, <4>1 DEF IndexMatches
        <3> QED BY <3>1, <3>2
    <2> QED BY <1>9, <2>1 DEF IndexMatches
<1>18. RowsApart'
    <2>1. ASSUME ~clashed', NEW m \in Names, <<m, On>> \in RowIds', <<m, Off>> \in RowIds'
          PROVE  FALSE
        <3>1. ~clashed /\ RowIds' = (RowIds \ {old}) \cup {new} /\ NeverBoth(RowIds)
            BY <1>2, <1>8, <1>16, <2>1 DEF RowsApart
        <3>2. m = n
            BY <1>5, <2>1, <3>1 DEF NeverBoth
        <3>3. <<n, On>> \in RowIds \/ <<n, Off>> \in RowIds
            BY <1>1, <1>4, <1>7
        <3>4. new # old
            BY <1>1
        <3> QED BY <1>1, <1>4, <1>7, <2>1, <3>1, <3>2, <3>4 DEF NeverBoth
    <2> QED BY <1>1, <1>2, <2>1 DEF RowsApart, NeverBoth
<1> QED BY <1>10, <1>11, <1>14, <1>15, <1>17, <1>18 DEF FolderIInv

-----------------------------------------------------------------------------
(* applyUpdates. *)

LEMMA IdsAreFinite == IsFiniteSet(Ids)
<1> DEFINE forms == {On, Off} \cup Duplicates
<1>1. forms \in SUBSET 0..(1 + MaxDuplicates) /\ 0 \in Int /\ 1 + MaxDuplicates \in Int
    BY FolderAssumption DEF On, Off, Duplicates
<1>2. IsFiniteSet(0..(1 + MaxDuplicates))
    BY <1>1, FS_Interval
<1> HIDE DEF forms
<1>3. IsFiniteSet(forms)
    BY <1>1, <1>2, FS_Subset
<1>4. IsFiniteSet(Names)
    BY FolderAssumption
<1> QED BY <1>3, <1>4, FS_Product DEF Ids, forms

\* The places of the rows that are left, in ascending order; the first row is
\* not among them when it is erased.
LEMMA OthersAre ==
    ASSUME RowsTyped, IndexMatches, NEW gone, gone \subseteq DOMAIN index,
           OnFirst(gone) <= Cardinality(Others(gone))
    PROVE  LET m == Cardinality(Others(gone)) - OnFirst(gone)
               place(i) == Nth(Others(gone), i + OnFirst(gone))
           IN /\ m \in Nat
              /\ \A i \in 1..m : place(i) \in DOMAIN rows /\ (~clashed => rows[place(i)].id \notin gone)
              /\ \A i, j \in 1..m : place(i) = place(j) => i = j
<1> DEFINE S == Others(gone)
           c == Cardinality(S)
           f == OnFirst(gone)
           m == c - f
           place(i) == Nth(S, i + f)
           atFirst == {id \in gone : index[id] = 0}
<1>1. rows \in Seq(Rows) /\ Len(rows) \in Nat /\ DOMAIN rows = 1..Len(rows)
    BY DEF RowsTyped
<1>2. S \in SUBSET DOMAIN rows
    BY DEF Others
<1>3. IsFiniteSet(S) /\ c \in Nat
    <2>1. IsFiniteSet(DOMAIN rows)
        BY <1>1, FirstNumbers
    <2> HIDE DEF S
    <2> QED BY <1>2, <2>1, FS_Subset, FS_CardinalityType
<1>4. S \in SUBSET (Nat \ {0}) /\ S \in SUBSET Nat
    <2>1. DOMAIN rows \subseteq Nat \ {0}
        BY <1>1
    <2> HIDE DEF S
    <2> QED BY <1>2, <2>1
<1>5. IsFiniteSet(atFirst) /\ f = Cardinality(atFirst) /\ f \in Nat
    <2>1. atFirst \in SUBSET Ids
        BY DEF RowsTyped
    <2>2. f = Cardinality(atFirst)
        BY DEF OnFirst
    <2> HIDE DEF atFirst, f
    <2> QED BY <2>1, <2>2, IdsAreFinite, FS_Subset, FS_CardinalityType
<1>6. f <= c
    OBVIOUS
<1> HIDE DEF c, f
<1>7. m \in Nat /\ \A i \in 1..m : i \in Int /\ i + f \in 1..c /\ (f # 0 => i + f > 1)
    BY <1>3, <1>5, <1>6
<1> HIDE DEF m, S
<1>8. \A i \in 1..m : place(i) \in S
    BY <1>3, <1>4, <1>7, NthIs DEF c
<1>9. ASSUME ~clashed, NEW i \in 1..m, rows[place(i)].id \in gone PROVE FALSE
    <2> DEFINE p == place(i)
    <2>1. p \in S /\ p \in DOMAIN rows
        BY <1>2, <1>8
    <2>2. index[rows[p].id] = p - 1
        BY <1>9, <2>1 DEF IndexMatches
    <2>3. p = 1
        <3>1. p = 1 \/ p - 1 \notin {index[id] : id \in gone}
            BY <2>1 DEF S, Others
        <3> QED BY <1>9, <2>2, <3>1
    <2>4. rows[p].id \in atFirst
        BY <1>9, <2>2, <2>3
    <2>5. f # 0
        <3> HIDE DEF atFirst
        <3> QED BY <1>5, <2>4, FS_EmptySet
    <2>6. i + f \in 1..Cardinality(S) /\ i + f > 1
        BY <1>7, <2>5 DEF c
    <2>7. Nth(S, i + f) # 1
        BY <1>3, <1>4, <2>6, NthIsNotOne
    <2> QED BY <2>3, <2>7
<1>10. ASSUME NEW i \in 1..m, NEW j \in 1..m, place(i) = place(j) PROVE i = j
    <2>1. i \in Int /\ j \in Int /\ f \in Int
        BY <1>5, <1>7
    <2>2. i + f \in 1..Cardinality(S) /\ j + f \in 1..Cardinality(S)
        BY <1>7 DEF c
    <2>3. i + f < j + f => place(i) < place(j)
        BY <1>3, <1>4, <2>2, NthAscends
    <2>4. j + f < i + f => place(j) < place(i)
        BY <1>3, <1>4, <2>2, NthAscends
    <2>5. place(i) \in Nat
        BY <1>4, <1>8
    <2> QED BY <1>10, <2>1, <2>3, <2>4, <2>5
<1> QED BY <1>2, <1>7, <1>8, <1>9, <1>10 DEF S, c, f, m

LEMMA OnUpdateSucceededKeeps ==
    ASSUME FolderIInv, OnUpdateSucceeded
    PROVE  FolderIInv'
<1> DEFINE current == DOMAIN index
           new     == DOMAIN result
           changed == {id \in current : Changed(id)}
           gone    == current \ new
           added   == new \ current
           fresh(s) == SetToSeq(s) \o SetToSeq(added)
           ticket(s) == FreeTickets(Len(fresh(s)))
           given(s, id) == ticket(s)[CHOOSE i \in DOMAIN fresh(s) : fresh(s)[i] = id]
           row(s, id) == [id |-> id, time |-> result[id], ticket |-> given(s, id),
                         unknown |-> FALSE]
           kept(s) == [i \in DOMAIN rows |->
                         IF \E id \in s : index[id] = i - 1
                         THEN row(s, CHOOSE id \in s : index[id] = i - 1)
                         ELSE rows[i]]
           after(s) == [i \in 1..(Cardinality(Others(gone)) - OnFirst(gone)) |->
                          kept(s)[Nth(Others(gone), i + OnFirst(gone))]]
           appended(s) == [i \in 1..Cardinality(added) |-> row(s, SetToSeq(added)[i])]
           left(s) == {rows[i].ticket : i \in DOMAIN rows}
                        \ {after(s)[i].ticket : i \in DOMAIN after(s)}
           short(s) == {given(s, id) : id \in s} \ {after(s)[i].ticket : i \in DOMAIN after(s)}
           dead == \/ Beyond(current \cap new) \/ Beyond(gone)
                   \/ OnFirst(gone) > Cardinality(Others(gone))
<1>1. PICK last \in {s \in SUBSET changed :
                       /\ \A a, b \in s : index[a] = index[b] => a = b
                       /\ \A c \in changed : \E a \in s : index[a] = index[c]} :
         IF dead
         THEN alive' = FALSE /\ UNCHANGED <<shown, parsing, events>>
         ELSE /\ rows' = after(last) \o appended(last)
              /\ index' = Places(rows')
              /\ parse' = [t \in ToSet(ticket(last)) \cup DOMAIN parse |->
                             IF t \notin ToSet(ticket(last)) THEN Leave(left(last))[t]
                             ELSE [id |-> fresh(last)[CHOOSE i \in DOMAIN fresh(last) : ticket(last)[i] = t],
                                   aborted |-> t \in short(last), unknown |-> FALSE,
                                   object |-> IF t \in short(last) THEN "leaving" ELSE "listed"]]
              /\ waiting' = waiting \o ticket(last)
              /\ events' = Tail(events) \o Deletions(left(last))
                           \o SetToSeq({<<"delete", t>> : t \in short(last)})
              /\ UNCHANGED <<doing, alive>>
    BY Zenon DEF OnUpdateSucceeded, ApplyUpdates
<1>2. FilesTyped /\ UpdateTyped /\ RowsTyped /\ TasksTyped /\ PoolTyped /\ EventsTyped
      /\ RowsApart /\ IndexMatches
    BY DEF FolderIInv
<1>3. /\ events # << >> /\ Head(events) = <<"loaded">>
      /\ UNCHANGED <<folder, changes, unseen, watching, visits, update, scheduled, result, slipped, clashed,
                     mistaken>>
    BY DEF OnUpdateSucceeded, files, page, updating
<1>4. Head(events)[1] \in {"loaded", "parsed", "delete"}
    BY <1>3
<1>5. CASE dead
    <2>1. alive' = FALSE /\ UNCHANGED <<shown, parsing, events>>
        BY <1>1, <1>5
    <2>2. slipped' \in BOOLEAN /\ UNCHANGED <<files, page, updating, clashed, mistaken>>
        BY <1>2, <1>3 DEF FilesTyped, files, page, updating
    <2> QED BY <2>1, <2>2, OnlyTheFlags
<1> SUFFICES ASSUME ~dead PROVE FolderIInv'
    BY <1>5
<1> DEFINE queue == fresh(last)
           tickets == ticket(last)
           Given(id) == given(last, id)
           Row(id) == row(last, id)
           held == kept(last)
           rest == after(last)
           more == appended(last)
           lost == left(last)
           brief == short(last)
<1>6. /\ rows' = rest \o more
      /\ index' = Places(rows')
      /\ parse' = [t \in ToSet(tickets) \cup DOMAIN parse |->
                     IF t \notin ToSet(tickets) THEN Leave(lost)[t]
                     ELSE [id |-> queue[CHOOSE i \in DOMAIN queue : tickets[i] = t],
                           aborted |-> t \in brief, unknown |-> FALSE,
                           object |-> IF t \in brief THEN "leaving" ELSE "listed"]]
      /\ waiting' = waiting \o tickets
      /\ events' = Tail(events) \o Deletions(lost) \o SetToSeq({<<"delete", t>> : t \in brief})
      /\ doing' = doing /\ alive' = alive
    BY <1>1
<1>7. /\ OnFirst(gone) <= Cardinality(Others(gone))
      /\ \A a, b \in last : index[a] = index[b] => a = b
      /\ last \subseteq current /\ last \subseteq new /\ current \subseteq Ids /\ new \subseteq Ids
    <2>1. last \subseteq changed /\ \A a, b \in last : index[a] = index[b] => a = b
        BY <1>1
    <2>2. \A id \in changed : id \in current /\ id \in new
        BY DEF Changed
    <2>3. current \subseteq Ids /\ new \subseteq Ids
        BY <1>2 DEF RowsTyped, UpdateTyped
    <2>4. OnFirst(gone) <= Cardinality(Others(gone))
        <3>1. ~(OnFirst(gone) > Cardinality(Others(gone)))
            OBVIOUS
        <3>2. OnFirst(gone) \in Int /\ Cardinality(Others(gone)) \in Int
            <4>1. {id \in gone : index[id] = 0} \in SUBSET Ids
                BY <2>3
            <4>2. OnFirst(gone) \in Nat
                BY <4>1, IdsAreFinite, FS_Subset, FS_CardinalityType DEF OnFirst
            <4>3. Others(gone) \in SUBSET DOMAIN rows /\ IsFiniteSet(DOMAIN rows)
                BY <1>2, FirstNumbers DEF Others, RowsTyped
            <4>4. Cardinality(Others(gone)) \in Nat
                BY <4>3, FS_Subset, FS_CardinalityType
            <4> QED BY <4>2, <4>4
        <3> QED BY <3>1, <3>2
    <2> HIDE DEF changed
    <2> QED BY <2>1, <2>2, <2>3, <2>4
<1>8. IsFiniteSet(last) /\ IsFiniteSet(added) /\ added \subseteq new /\ last \cap added = {}
    <2>1. last \in SUBSET Ids /\ added \in SUBSET Ids
        BY <1>7
    <2> QED BY <1>7, <2>1, IdsAreFinite, FS_Subset
<1>9. /\ SetToSeq(added) \in Seq(added) /\ Len(SetToSeq(added)) = Cardinality(added)
      /\ Cardinality(added) \in Nat
      /\ \A i, j \in DOMAIN SetToSeq(added) : SetToSeq(added)[i] = SetToSeq(added)[j] => i = j
    BY <1>8, SetToSeqIs
<1>10. queue \in Seq(Ids) /\ ToSet(queue) = last \cup added
    <2> DEFINE a == SetToSeq(last)
               b == SetToSeq(added)
    <2>1. a \in Seq(last) /\ ToSet(a) = last /\ b \in Seq(added) /\ ToSet(b) = added
        BY <1>8, SetToSeqIs
    <2>2. last \subseteq Ids /\ added \subseteq Ids
        BY <1>7
    <2> HIDE DEF a, b, added
    <2>3. a \in Seq(Ids) /\ b \in Seq(Ids)
        BY <2>1, <2>2
    <2>4. a \o b \in Seq(Ids) /\ ToSet(a \o b) = ToSet(a) \cup ToSet(b)
        BY ONLY <2>3, JoinedIs
    <2> QED BY <2>1, <2>4 DEF a, b, added
<1> HIDE DEF fresh
<1>11. /\ Len(queue) \in Nat /\ DOMAIN queue = 1..Len(queue)
       /\ tickets \in Seq((Nat \ {0}) \ DOMAIN parse) /\ Len(tickets) = Len(queue)
       /\ \A i, j \in 1..Len(queue) : tickets[i] = tickets[j] => i = j
    <2>1. Len(queue) \in Nat /\ DOMAIN queue = 1..Len(queue)
        BY <1>10
    <2> DEFINE n == Len(queue)
    <2>2. n \in Nat /\ TasksTyped
        BY <1>2, <2>1
    <2> HIDE DEF n
    <2>3. /\ FreeTickets(n) \in Seq((Nat \ {0}) \ DOMAIN parse) /\ Len(FreeTickets(n)) = n
          /\ \A i, j \in 1..n : FreeTickets(n)[i] = FreeTickets(n)[j] => i = j
        BY ONLY <2>2, FreeTicketsAre
    <2>4. tickets = FreeTickets(n)
        BY DEF n
    <2> HIDE DEF queue, tickets
    <2> QED BY <2>1, <2>3, <2>4 DEF n
<1> HIDE DEF ticket
<1>12. DOMAIN tickets = DOMAIN queue /\ IsInjective(tickets) /\ ToSet(tickets) \subseteq (Nat \ {0}) \ DOMAIN parse
    BY <1>11 DEF IsInjective, ToSet
<1>13. IsFiniteSet(ToSet(tickets))
    <2>1. tickets \in Surjection(DOMAIN tickets, ToSet(tickets))
        BY <1>11 DEF Surjection, ToSet
    <2>2. IsFiniteSet(DOMAIN tickets)
        BY <1>11, <1>12, FirstNumbers
    <2> QED BY <2>1, <2>2, FS_Surjection
<1>14. \A id \in last \cup added : Given(id) \in ToSet(tickets)
    <2> TAKE id \in last \cup added
    <2>1. \E i \in DOMAIN queue : queue[i] = id
        BY <1>10 DEF ToSet
    <2>2. \E i \in DOMAIN tickets : Given(id) = tickets[i]
        BY <1>12, <2>1
    <2> QED BY <2>2 DEF ToSet
<1> HIDE DEF given
<1>15. \A id \in last \cup added :
          Row(id) \in Rows /\ Row(id).id = id /\ Row(id).ticket \in ToSet(tickets)
    <2> TAKE id \in last \cup added
    <2>1. id \in Ids /\ result[id] \in 0..changes
        BY <1>2, <1>7, <1>8 DEF UpdateTyped
    <2>2. Given(id) \in Nat /\ Given(id) \in ToSet(tickets)
        BY <1>12, <1>14
    <2> QED BY <2>1, <2>2 DEF Rows
<1> HIDE DEF row
<1> DEFINE Ok(r) == r \in Rows /\ r.ticket \in ToSet(tickets) \cup DOMAIN parse \cup {NoTicket}
\* The rows before any is erased: each is found by its name at its own place.
<1>16. \A i \in DOMAIN rows :
          /\ Ok(held[i])
          /\ ~clashed => held[i].id \in current /\ index[held[i].id] = i - 1
          /\ held[i].id \in new \/ held[i].id = rows[i].id
    <2> TAKE i \in DOMAIN rows
    <2>1. CASE \E id \in last : index[id] = i - 1
        <3> DEFINE id == CHOOSE x \in last : index[x] = i - 1
        <3>1. id \in last /\ index[id] = i - 1
            BY <2>1
        <3>2. held[i] = Row(id)
            BY <2>1
        <3> HIDE DEF id, held
        <3> QED BY <1>7, <1>15, <3>1, <3>2
    <2>2. CASE ~(\E id \in last : index[id] = i - 1)
        <3>1. held[i] = rows[i]
            BY <2>2
        <3> HIDE DEF held
        <3> QED BY <1>2, <3>1 DEF RowsTyped, IndexMatches
    <2> QED BY <2>1, <2>2
<1> HIDE DEF kept, Ok
<1> DEFINE m == Cardinality(Others(gone)) - OnFirst(gone)
           place(i) == Nth(Others(gone), i + OnFirst(gone))
<1>17. /\ m \in Nat
       /\ \A i \in 1..m : place(i) \in DOMAIN rows /\ (~clashed => rows[place(i)].id \notin gone)
       /\ \A i, j \in 1..m : place(i) = place(j) => i = j
    <2>1. gone \subseteq DOMAIN index
        OBVIOUS
    <2> HIDE DEF gone
    <2> QED BY <1>2, <1>7, <2>1, OthersAre
<1>18. rest = [i \in 1..m |-> held[place(i)]]
    OBVIOUS
<1> HIDE DEF m, place, after
<1>19. \A i \in 1..m : Ok(rest[i]) /\ (~clashed => rest[i].id \in current /\ rest[i].id \in new)
    <2> TAKE i \in 1..m
    <2>1. place(i) \in DOMAIN rows /\ (~clashed => rows[place(i)].id \notin gone)
        BY <1>17
    <2>2. rest[i] = held[place(i)]
        BY <1>18
    <2> QED BY <1>16, <2>1, <2>2
<1>20. ~clashed => \A i, j \in 1..m : rest[i].id = rest[j].id => i = j
    <2> SUFFICES ASSUME ~clashed, NEW i \in 1..m, NEW j \in 1..m, rest[i].id = rest[j].id PROVE i = j
        OBVIOUS
    <2>1. place(i) \in DOMAIN rows /\ place(j) \in DOMAIN rows
        BY <1>17
    <2>2. rest[i] = held[place(i)] /\ rest[j] = held[place(j)]
        BY <1>18
    <2>3. place(i) - 1 = place(j) - 1
        BY <1>16, <2>1, <2>2
    <2>4. place(i) \in Nat /\ place(j) \in Nat
        BY <1>2, <2>1 DEF RowsTyped
    <2>5. place(i) = place(j)
        BY <2>3, <2>4
    <2> QED BY <1>17, <2>5
<1>21. \A i \in 1..Cardinality(added) :
          Ok(more[i]) /\ more[i].id = SetToSeq(added)[i] /\ more[i].id \in added
    <2> TAKE i \in 1..Cardinality(added)
    <2>1. more[i] = Row(SetToSeq(added)[i]) /\ SetToSeq(added)[i] \in added
        BY <1>9
    <2> HIDE DEF more, added
    <2> QED BY <1>15, <2>1 DEF Ok
<1>22. DOMAIN more = 1..Cardinality(added) /\ DOMAIN SetToSeq(added) = 1..Cardinality(added)
    BY <1>9
<1>23. rest \in Seq(Rows) /\ DOMAIN rest = 1..m /\ more \in Seq(Rows)
    <2> DEFINE c == Cardinality(added)
    <2>1. \A i \in 1..m : rest[i] \in Rows
        BY <1>19 DEF Ok
    <2>2. \A i \in 1..c : more[i] \in Rows
        BY <1>21 DEF Ok
    <2>3. more = [i \in 1..c |-> more[i]]
        OBVIOUS
    <2>4. rest = [i \in 1..m |-> rest[i]] /\ m \in Nat
        BY <1>17, <1>18
    <2>5. c \in Nat
        BY <1>9
    <2> HIDE DEF rest, more, c
    <2>6. rest \in Seq(Rows) /\ DOMAIN rest = 1..m
        BY ONLY <2>1, <2>4
    <2>7. more \in Seq(Rows)
        BY ONLY <2>2, <2>3, <2>5
    <2> QED BY <2>6, <2>7
<1> HIDE DEF appended
<1> DEFINE n == Len(rest)
<1>24. /\ rows' \in Seq(Rows) /\ DOMAIN rows' \subseteq Int /\ n \in Int
       /\ \A i \in DOMAIN rows' : IF i <= n THEN i \in DOMAIN rest /\ rows'[i] = rest[i]
                                  ELSE i - n \in DOMAIN more /\ rows'[i] = more[i - n]
    <2> HIDE DEF rest, more
    <2>1. rows' = rest \o more /\ rest \in Seq(Rows) /\ more \in Seq(Rows)
        BY <1>6, <1>23
    <2> QED BY ONLY <2>1, JoinedIs
<1> HIDE DEF n, Row
<1>25. \A i \in DOMAIN rows' : Ok(rows'[i]) /\ (~clashed => rows'[i].id \in new)
    <2> TAKE i \in DOMAIN rows'
    <2>1. CASE i <= n
        BY <1>19, <1>23, <1>24, <2>1
    <2>2. CASE ~(i <= n)
        <3>1. rows'[i] = more[i - n] /\ i - n \in 1..Cardinality(added)
            BY <1>22, <1>24, <2>2
        <3> QED BY <1>8, <1>21, <3>1
    <2> QED BY <2>1, <2>2
<1>26. ~clashed => \A i, j \in DOMAIN rows' : rows'[i].id = rows'[j].id => i = j
    <2> SUFFICES ASSUME ~clashed, NEW i \in DOMAIN rows', NEW j \in DOMAIN rows', rows'[i].id = rows'[j].id
                 PROVE  i = j
        OBVIOUS
    <2>1. \A k \in DOMAIN rows' : k <= n => k \in 1..m /\ rows'[k] = rest[k] /\ rows'[k].id \in current
        BY <1>19, <1>23, <1>24
    <2>2. \A k \in DOMAIN rows' : ~(k <= n) =>
             /\ k - n \in DOMAIN SetToSeq(added) /\ rows'[k].id = SetToSeq(added)[k - n]
             /\ rows'[k].id \in added
        <3> TAKE k \in DOMAIN rows'
        <3> SUFFICES ASSUME ~(k <= n)
                     PROVE  /\ k - n \in DOMAIN SetToSeq(added) /\ rows'[k].id = SetToSeq(added)[k - n]
                            /\ rows'[k].id \in added
            OBVIOUS
        <3>1. k - n \in DOMAIN more /\ rows'[k] = more[k - n]
            BY <1>24
        <3>2. k - n \in 1..Cardinality(added) /\ k - n \in DOMAIN SetToSeq(added)
            BY <1>22, <3>1
        <3> QED BY <1>21, <3>1, <3>2
    <2>3. \A id \in added : id \notin current
        OBVIOUS
    <2>4. i \in Int /\ j \in Int /\ n \in Int
        BY <1>24
    <2> HIDE DEF rest, more, added, current
    <2>5. CASE i <= n /\ j <= n
        BY <1>20, <2>1, <2>5
    <2>6. CASE ~(i <= n) /\ ~(j <= n)
        <3>1. i - n = j - n
            BY <1>9, <2>2, <2>6
        <3> QED BY <2>4, <3>1
    <2>7. CASE i <= n /\ ~(j <= n)
        BY <2>1, <2>2, <2>3, <2>7
    <2>8. CASE ~(i <= n) /\ j <= n
        BY <2>1, <2>2, <2>3, <2>8
    <2> QED BY <2>5, <2>6, <2>7, <2>8
<1> HIDE DEF lost, brief, left, short
<1>27. DOMAIN parse' = ToSet(tickets) \cup DOMAIN parse
    BY <1>6
<1>28. RowsTyped' /\ IndexMatches'
    <2>1. \A i \in DOMAIN rows' : rows'[i].ticket \in (DOMAIN parse') \cup {NoTicket}
        BY <1>25, <1>27 DEF Ok
    <2> QED BY <1>3, <1>6, <1>24, <1>26, <2>1, IndexRebuilt
<1>29. RowsApart'
    <2>1. ~clashed => RowIds' \subseteq DOMAIN result
        BY <1>25 DEF RowIds
    <2>2. ~clashed => NeverBoth(RowIds')
        BY <1>2, <2>1 DEF RowsApart, NeverBoth
    <2> QED BY <1>2, <1>3, <2>2, StillApart
<1>30. TasksTyped'
    <2>1. ASSUME NEW t \in ToSet(tickets) PROVE parse'[t] \in Tasks
        <3> DEFINE id == queue[CHOOSE i \in DOMAIN queue : tickets[i] = t]
                   aborted == t \in brief
                   object == IF t \in brief THEN "leaving" ELSE "listed"
        <3>1. parse'[t] = [id |-> id, aborted |-> aborted, unknown |-> FALSE, object |-> object]
            BY <1>6
        <3>2. \E i \in DOMAIN queue : tickets[i] = t
            BY <1>12 DEF ToSet
        <3>3. id \in Ids
            BY <1>10, <3>2
        <3>4. aborted \in BOOLEAN /\ object \in {"leaving", "listed"}
            OBVIOUS
        <3> HIDE DEF id, aborted, object
        <3> QED BY <3>1, <3>3, <3>4 DEF Tasks
    <2>2. ASSUME NEW t \in DOMAIN parse PROVE parse'[t] \in Tasks
        <3>1. t \notin ToSet(tickets) /\ parse[t] \in Tasks
            BY <1>2, <1>12 DEF TasksTyped
        <3>2. parse'[t] = Leave(lost)[t]
            BY <1>6, <3>1
        <3>3. parse'[t] = IF t \in lost THEN [parse[t] EXCEPT !.aborted = TRUE, !.object = "leaving"]
                          ELSE parse[t]
            BY <3>2 DEF Leave
        <3>4. [parse[t] EXCEPT !.aborted = TRUE, !.object = "leaving"] \in Tasks
            BY <3>1 DEF Tasks
        <3> QED BY <3>1, <3>3, <3>4
    <2>3. IsFiniteSet(ToSet(tickets) \cup DOMAIN parse)
        BY <1>2, <1>13, FS_Union DEF TasksTyped
    <2>4. ToSet(tickets) \cup DOMAIN parse \in SUBSET (Nat \ {0})
        BY <1>2, <1>12 DEF TasksTyped
    <2> QED BY <1>27, <2>1, <2>2, <2>3, <2>4 DEF TasksTyped
<1>31. ToSet(waiting') = ToSet(waiting) \cup ToSet(tickets) /\ PoolTyped'
    <2> DEFINE all == ToSet(tickets) \cup DOMAIN parse
    <2>1. waiting \in Seq(DOMAIN parse) /\ IsInjective(waiting) /\ ToSet(waiting) \subseteq DOMAIN parse
        BY <1>2 DEF PoolTyped, ToSet
    <2>2. waiting \in Seq(all) /\ tickets \in Seq(all)
        <3>1. \A i \in DOMAIN tickets : tickets[i] \in ToSet(tickets)
            BY DEF ToSet
        <3> QED BY <1>11, <2>1, <3>1
    <2>3. ToSet(waiting) \cap ToSet(tickets) = {}
        BY <1>12, <2>1
    <2> HIDE DEF all, tickets
    <2>4. waiting' \in Seq(all) /\ ToSet(waiting') = ToSet(waiting) \cup ToSet(tickets)
        BY ONLY <1>6, <2>2, JoinedIs
    <2>5. IsInjective(waiting')
        BY ONLY <1>6, <1>12, <2>1, <2>2, <2>3, JoinedApart
    <2>6. doing' \subseteq DOMAIN parse' \ ToSet(waiting')
        BY <1>2, <1>6, <1>12, <1>27, <2>4 DEF PoolTyped
    <2> QED BY <1>2, <1>6, <1>27, <2>4, <2>5, <2>6 DEF PoolTyped, all
<1>32. /\ events' \in Seq(Events) /\ Once(events')
       /\ \A e \in ToSet(events') : e \in ToSet(Tail(events)) \/ e[1] = "delete"
       /\ ToSet(Tail(events)) \subseteq ToSet(events')
    <2> DEFINE known == lost \cap DOMAIN parse
               first == Tail(events) \o SetToSeq({<<"delete", t>> : t \in known})
    <2>1. Tail(events) \in Seq(Events) /\ Once(Tail(events))
        BY <1>2, <1>3, EventTaken
    <2>2. known \subseteq Nat /\ IsFiniteSet(known)
        <3>1. known \in SUBSET DOMAIN parse
            OBVIOUS
        <3> HIDE DEF known
        <3> QED BY <1>2, <3>1, FS_Subset DEF TasksTyped
    <2>3. brief \subseteq Nat /\ IsFiniteSet(brief)
        <3>1. brief \in SUBSET ToSet(tickets)
            BY <1>14 DEF brief, short
        <3> QED BY <1>12, <1>13, <3>1, FS_Subset
    <2> HIDE DEF known
    <2>4. /\ first \in Seq(Events) /\ Once(first) /\ ToSet(Tail(events)) \subseteq ToSet(first)
          /\ \A e \in ToSet(first) : e \in ToSet(Tail(events)) \/ e[1] = "delete"
        BY <2>1, <2>2, DeletionsPosted
    <2>5. events' = first \o SetToSeq({<<"delete", t>> : t \in brief})
        BY <1>6 DEF Deletions, known
    <2> HIDE DEF first
    <2>6. /\ events' \in Seq(Events) /\ Once(events') /\ ToSet(first) \subseteq ToSet(events')
          /\ \A e \in ToSet(events') : e \in ToSet(first) \/ e[1] = "delete"
        BY <2>3, <2>4, <2>5, DeletionsPosted
    <2> QED BY <2>4, <2>6
<1>33. UpdateTyped' /\ EventsTyped'
    <2>1. ToSet(waiting') \cap DOMAIN parse \subseteq ToSet(waiting)
        BY <1>12, <1>31
    <2>2. DOMAIN parse \subseteq DOMAIN parse'
        BY <1>27
    <2> QED BY <1>2, <1>3, <1>4, <1>6, <1>32, <2>1, <2>2, EventsQuiet
<1>34. FilesTyped'
    BY <1>2, <1>3, <1>6 DEF FilesTyped
<1> QED BY <1>28, <1>29, <1>30, <1>31, <1>33, <1>34 DEF FolderIInv

-----------------------------------------------------------------------------

LEMMA FolderKept == FolderIInv /\ [FolderNext]_folderVars => FolderIInv'
<1> SUFFICES ASSUME FolderIInv, [FolderNext]_folderVars PROVE FolderIInv'
    OBVIOUS
<1>1. CASE GuiEvent
    <2>1. CASE UpdateFinished
        BY <2>1, UpdateFinishedKeeps
    <2>2. CASE OnUpdateSucceeded
        BY <2>2, OnUpdateSucceededKeeps
    <2>3. CASE \E t \in DOMAIN parse : ParseRuns(t)
        BY <2>3, ParseRunsKeeps
    <2>4. CASE \E t \in DOMAIN parse, ok \in BOOLEAN : ParseReports(t, ok)
        BY <2>4, ParseReportsKeeps
    <2>5. CASE \E t \in DOMAIN parse : ParseEnds(t)
        BY <2>5, ParseEndsKeeps
    <2>6. CASE \E t \in DOMAIN parse : ResourceDeleted(t)
        BY <2>6, ResourceDeletedKeeps
    <2> QED BY <1>1, <2>1, <2>2, <2>3, <2>4, <2>5, <2>6 DEF GuiEvent
<1>2. CASE ReadFolder
    BY <1>2, ReadFolderKeeps
<1>3. CASE HelperStarts
    BY <1>3, HelperStartsKeeps
<1>4. CASE DirectoryChanged
    BY <1>4, DirectoryChangedKeeps
<1>5. CASE Actors
    <2>1. CASE \E id \in Ids : FileWritten(id)
        BY <2>1, FileWrittenKeeps
    <2>2. CASE \E id \in Ids : FileRemoved(id)
        BY <2>2, FileRemovedKeeps
    <2>3. CASE \E id \in Ids, copied \in BOOLEAN : InstallResource(id, copied)
        BY <2>3, InstallResourceKeeps
    <2>4. CASE \E i \in DOMAIN rows, deleted \in BOOLEAN : UninstallResource(i, deleted)
        BY <2>4, UninstallResourceKeeps
    <2>5. CASE \E i \in DOMAIN rows : SetResourceEnabled(i)
        BY <2>5, SetResourceEnabledKeeps
    <2>6. CASE StartWatching
        BY <2>6, StartWatchingKeeps
    <2>7. CASE StopWatching
        BY <2>7, StopWatchingKeeps
    <2> QED BY <1>5, <2>1, <2>2, <2>3, <2>4, <2>5, <2>6, <2>7 DEF Actors
<1>6. CASE UNCHANGED folderVars
    <2>1. slipped' \in BOOLEAN /\ alive' \in BOOLEAN /\ clashed' = clashed /\ mistaken' = mistaken
        BY <1>6 DEF folderVars, ghosts, FolderIInv, FilesTyped
    <2> QED BY <1>6, <2>1, OnlyTheFlags DEF folderVars
<1> QED BY <1>1, <1>2, <1>3, <1>4, <1>5, <1>6 DEF FolderNext

LEMMA FolderInvariance == FolderSpec => []FolderIInv
BY FolderStart, FolderKept, PTL DEF FolderSpec

\* Whatever the user, other programs, the worker thread and the parse tasks do
\* to the folder and the list: the list, the index, the parse tasks and the
\* queue of the GUI thread keep their types, a request for an update is only
\* remembered while one runs, and the end of an update is posted for exactly
\* the update that has read the folder.
THEOREM FolderIsTyped == FolderSpec => []FolderTypeOK
<1>1. FolderIInv => FolderTypeOK
    <2> SUFFICES ASSUME FolderIInv PROVE FolderTypeOK
        OBVIOUS
    <2>1. FilesTyped /\ UpdateTyped /\ RowsTyped /\ TasksTyped /\ PoolTyped /\ EventsTyped
        BY DEF FolderIInv
    <2>2. \A id \in DOMAIN folder : folder[id] \in 0..changes
        BY <2>1 DEF FilesTyped
    <2>3. update = "posted" <=> \E i \in DOMAIN events : events[i] = <<"updated">>
        BY <2>1 DEF UpdateTyped, ToSet
    <2>4. \A i \in DOMAIN rows : /\ rows[i].id \in Ids /\ rows[i].time \in 0..changes
                                 /\ rows[i].ticket \in (DOMAIN parse) \cup {NoTicket}
                                 /\ rows[i].unknown \in BOOLEAN
        <3>1. \A i \in DOMAIN rows : rows[i] \in Rows
            BY <2>1 DEF RowsTyped
        <3> QED BY <2>1, <3>1 DEF RowsTyped, Rows
    <2>5. \A t \in DOMAIN parse : parse[t].id \in Ids /\ parse[t].unknown \in BOOLEAN
        BY <2>1 DEF TasksTyped, Tasks
    <2>6. \A i \in DOMAIN waiting : waiting[i] \in DOMAIN parse
        BY <2>1 DEF PoolTyped
    <2>7. doing \subseteq DOMAIN parse /\ Cardinality(doing) <= Slots
        BY <2>1 DEF PoolTyped
    <2>8. /\ update \in {"none", "reading", "posted"} /\ scheduled \in BOOLEAN
          /\ scheduled => update # "none"
          /\ DOMAIN result \subseteq Ids /\ DOMAIN index \subseteq Ids
        BY <2>1 DEF UpdateTyped, RowsTyped
    <2>9. /\ DOMAIN folder \subseteq Ids /\ changes \in 0..MaxChanges
          /\ watching \in BOOLEAN /\ visits \in 0..MaxVisits /\ unseen \in BOOLEAN
          /\ slipped \in BOOLEAN /\ clashed \in BOOLEAN /\ mistaken \in BOOLEAN /\ alive \in BOOLEAN
        BY <2>1 DEF FilesTyped
    <2> QED BY <2>2, <2>3, <2>4, <2>5, <2>6, <2>7, <2>8, <2>9 DEF FolderTypeOK
<1> QED BY <1>1, FolderInvariance, PTL

\* Every row of the list is found in the index under its name, at its place:
\* updates, failed parses and renamed files that come between each other never
\* leave two rows of one name, or a row that the next step looks for elsewhere.
THEOREM RowsAreFound == FolderSpec => []IndexMatches
<1>1. FolderIInv => IndexMatches
    BY DEF FolderIInv
<1> QED BY <1>1, FolderInvariance, PTL
=============================================================================
