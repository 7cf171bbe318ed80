--------------------------- MODULE NetRequest_proofs ---------------------------
(***************************************************************************)
(* Proofs about one network request and its entry in the cache index, for  *)
(* any number of starts, redirects, requests and changes of the file.      *)
(***************************************************************************)
EXTENDS NetRequest, TLAPS

Receiving == reply \in {"open", "errored"}

(* A request that nobody started has no reply, nor one that is gone.       *)
Quiet ==
    /\ ~alive => reply = "none" /\ signals = <<>>
    /\ starts = 0 => reply = "none"
    /\ Receiving => signals = <<>>

(* What a request under way knows: nothing was written yet, or the body is *)
(* not empty; the server was asked for an entry that there is; an error is *)
(* forgiven over a file.                                                   *)
UnderWay ==
    /\ Receiving /\ state = "Running" /\ ~wrote => body = "empty"
    /\ Receiving /\ asked => cached /\ entry.at # 0
    /\ Receiving /\ state = "Succeeded" => useLocal /\ (wiped \/ disk # "absent")

(* An entry made for the present file has its checksum (an empty one       *)
(* aside), and none is a checksum that a validator would have refused.     *)
Describes(e) ==
    /\ e.at <= mtime
    /\ e.at = 0 => e.stale
    /\ e.at = mtime /\ disk \notin {"absent", "empty"} => e.md5 = disk
    /\ checked => e.md5 \notin {"bad", "empty"}

(* The entry of a request is about the present file or a missing one.      *)
Current ==
    cached /\ alive /\ entry.at # 0 =>
        /\ entry.at = mtime \/ disk = "absent"
        /\ wiped \/ disk # "absent"

Indexes ==
    /\ mtime > 0
    /\ checked => disk # "empty"
    /\ Describes(entry) /\ Describes(index)
    /\ Current

(* An evicted entry is stale in memory, and once saved in the index.       *)
Buried ==
    /\ evicted # "no" => entry.stale
    /\ evicted = "saved" => index.stale

Reported == signals = <<>> \/ \E t \in Terminal : signals = <<t>>

IInv == TypeOK /\ Reported /\ Quiet /\ UnderWay /\ Indexes /\ Buried /\ SuccessMeansFile

(* What downloadFinished makes of a reply: the state that the request is   *)
(* taken to be in.                                                         *)
Outcome(st) ==
    /\ st \in TaskState
    /\ st = "Running" => state = "Running"
    /\ st = "Succeeded" => useLocal /\ (wiped \/ disk # "absent")

-----------------------------------------------------------------------------
(* The first report of a start is a sequence of one.                       *)
LEMMA FirstReport ==
    ASSUME NEW t \in Terminal
    PROVE  /\ Append(<<>>, t) = <<t>>
           /\ <<t>> \in Seq(Terminal) /\ Len(<<t>>) = 1
           /\ <<t>> # <<>>
           /\ <<t>>[1] = t
    OBVIOUS

USE DEF Receiving

(* The type invariant, one variable at a time.                             *)
CacheTyped ==
    /\ disk \in Files /\ mtime \in Nat /\ entry \in Entry /\ index \in Entry
    /\ listed \in BOOLEAN /\ saving \in BOOLEAN
    /\ evicted \in {"no", "pending", "saved"}

ConfigTyped ==
    /\ cached \in BOOLEAN /\ checked \in BOOLEAN /\ useLocal \in BOOLEAN /\ leftover \in BOOLEAN
    /\ alive \in BOOLEAN /\ wiped \in BOOLEAN /\ requests \in 0..MaxRequests

RequestTyped ==
    /\ wrote \in BOOLEAN /\ asked \in BOOLEAN /\ crashed \in BOOLEAN
    /\ state \in TaskState
    /\ reply \in {"none", "open", "errored", "closed"}
    /\ temp \in {"none", "open", "deleted", "cancelled"}
    /\ body \in Bodies
    /\ signals \in Seq(Terminal)
    /\ starts \in 0..MaxStarts /\ redirects \in 0..MaxRedirects
    /\ Receiving /\ state = "Running" => temp \in {"open", "deleted"}

Typed == CacheTyped /\ ConfigTyped /\ RequestTyped

LEMMA TypedIsTypeOK == TypeOK <=> Typed
    BY DEF TypeOK, CacheTypeOK, Typed, CacheTyped, ConfigTyped, RequestTyped

LEMMA TypedIsTypeOKNext == TypeOK' <=> Typed'
    BY DEF TypeOK, CacheTypeOK, Typed, CacheTyped, ConfigTyped, RequestTyped

-----------------------------------------------------------------------------
(* Entries.                                                                *)

LEMMA NoEntryFacts ==
    NoEntry \in Entry /\ NoEntry.stale /\ NoEntry.at = 0 /\ NoEntry.md5 = "absent"
    BY DEF NoEntry, Entry, Files

LEMMA EntryFields ==
    ASSUME NEW e \in Entry
    PROVE  e.stale \in BOOLEAN /\ e.md5 \in Files /\ e.at \in Nat
    BY DEF Entry

LEMMA Touched ==
    ASSUME NEW e \in Entry, NEW t \in Nat, NEW f, f = [e EXCEPT !.at = t]
    PROVE  f \in Entry /\ f.stale = e.stale /\ f.md5 = e.md5 /\ f.at = t
    BY DEF Entry

Stale(e) == [e EXCEPT !.stale = TRUE]

LEMMA Staled ==
    ASSUME NEW e \in Entry
    PROVE  /\ Stale(e) \in Entry
           /\ Stale(e).stale = TRUE /\ Stale(e).md5 = e.md5 /\ Stale(e).at = e.at
<1>1. Stale(e) \in Entry
    BY DEF Entry, Stale
<1>2. Stale(e).stale = TRUE /\ Stale(e).md5 = e.md5 /\ Stale(e).at = e.at
    BY DEF Entry, Stale
<1> QED
    BY <1>1, <1>2

(* What is written to the index file: the entry, or none for a stale one.  *)
LEMMA IndexedFacts ==
    ASSUME CacheTyped
    PROVE  /\ Indexed \in Entry
           /\ Indexed = entry \/ Indexed = NoEntry
           /\ entry.stale => Indexed = NoEntry
    BY NoEntryFacts, EntryFields DEF Indexed, CacheTyped

LEMMA DescribesNone ==
    ASSUME CacheTyped, mtime > 0 PROVE Describes(NoEntry)
    BY NoEntryFacts DEF Describes, CacheTyped

(* What resolveEntry returns: no entry, or the one that there is, brought  *)
(* up to the time of the file, with its checksum if it is this file's.     *)
LEMMA ResolvedFacts ==
    ASSUME Typed, Indexes, NEW expired \in BOOLEAN, NEW e, e = Resolved(expired)
    PROVE  /\ e \in Entry
           /\ Disowned(expired) => e = NoEntry
           /\ ~Disowned(expired) => /\ e.at = mtime /\ e.stale = entry.stale /\ e.md5 = entry.md5
                                    /\ disk # "absent"
           /\ Describes(e)
           /\ entry.stale => e.stale
<1>1. CASE Disowned(expired)
  <2>1. e = NoEntry
      BY <1>1 DEF Resolved
  <2> QED
      BY <2>1, <1>1, NoEntryFacts DEF Indexes, Describes, Typed, CacheTyped
<1>2. CASE ~Disowned(expired)
  <2>1. e = [entry EXCEPT !.at = mtime]
      BY <1>2 DEF Resolved
  <2>2. e \in Entry /\ e.stale = entry.stale /\ e.md5 = entry.md5 /\ e.at = mtime
      BY <2>1, Touched DEF Typed, CacheTyped
  <2>3. disk # "absent" /\ (entry.at = mtime \/ entry.md5 = disk)
      BY <1>2 DEF Disowned
  <2> QED
      BY <2>2, <2>3, <1>2 DEF Indexes, Describes, Typed, CacheTyped
<1> QED
    BY <1>1, <1>2

-----------------------------------------------------------------------------
\* INIT
LEMMA BlankTyped == Blank => RequestTyped' /\ (Reported /\ Quiet /\ UnderWay /\ SuccessMeansFile)'
<1> SUFFICES ASSUME Blank PROVE RequestTyped' /\ (Reported /\ Quiet /\ UnderWay /\ SuccessMeansFile)'
    OBVIOUS
<1>1. signals' = <<>> /\ signals' \in Seq(Terminal) /\ signals' # <<"Succeeded">>
    BY DEF Blank
<1>2. 0 \in 0..MaxStarts /\ 0 \in 0..MaxRedirects
    BY BoundsAssumption
<1>3. RequestTyped'
    BY <1>1, <1>2 DEF Blank, RequestTyped, TaskState, Bodies
<1> QED
    BY <1>1, <1>3 DEF Blank, Reported, Quiet, UnderWay, SuccessMeansFile

LEMMA NewRequestKeeps ==
    ASSUME IInv, NEW expired \in BOOLEAN, NewRequest(expired)
    PROVE  IInv'
<1> USE BoundsAssumption
<1>t. Typed
    BY TypedIsTypeOK DEF IInv
<1> DEFINE e == Resolved(expired)
<1>1. /\ e \in Entry
      /\ Disowned(expired) => e = NoEntry
      /\ ~Disowned(expired) => e.at = mtime /\ disk # "absent"
      /\ Describes(e)
      /\ entry.stale => e.stale
    BY <1>t, ResolvedFacts DEF IInv
<1>2. \/ entry' = e /\ listed' \in BOOLEAN /\ saving' \in BOOLEAN
      \/ ~cached /\ UNCHANGED <<entry, listed, saving>>
    BY <1>t DEF NewRequest, ResolveEntry, cache, Disowned, Typed, CacheTyped
<1>3. /\ UNCHANGED <<index, evicted, disk, mtime, cached, checked, useLocal, leftover>>
      /\ alive' = TRUE /\ requests' = requests + 1 /\ requests < MaxRequests
      /\ Blank
    BY DEF NewRequest, ResolveEntry, cache, file, config
<1> HIDE DEF e
<1>4. CacheTyped'
    BY <1>t, <1>1, <1>2, <1>3 DEF Typed, CacheTyped
<1>5. ConfigTyped' /\ RequestTyped'
  <2>1. requests' \in 0..MaxRequests
      BY <1>t, <1>3 DEF Typed, ConfigTyped
  <2>2. cached' \in BOOLEAN /\ checked' \in BOOLEAN /\ useLocal' \in BOOLEAN /\ leftover' \in BOOLEAN
        /\ alive' \in BOOLEAN /\ wiped' \in BOOLEAN
      BY <1>t, <1>3 DEF Typed, ConfigTyped, Blank
  <2> QED
      BY <1>3, <2>1, <2>2, BlankTyped DEF ConfigTyped
<1>6. (Reported /\ Quiet /\ UnderWay)'
    BY <1>3, BlankTyped
<1>7. Indexes'
    BY <1>t, <1>1, <1>2, <1>3, NoEntryFacts
    DEF IInv, Indexes, Describes, Current, Blank, Typed, CacheTyped
<1>8. (Buried /\ SuccessMeansFile)'
    BY <1>1, <1>2, <1>3, BlankTyped DEF IInv, Buried
<1> QED
    BY <1>4, <1>5, <1>6, <1>7, <1>8, TypedIsTypeOKNext DEF IInv, Typed

LEMMA RelaunchKeeps ==
    ASSUME IInv, NEW orderly \in BOOLEAN, Relaunch(orderly)
    PROVE  IInv'
<1> USE BoundsAssumption
<1>t. Typed
    BY TypedIsTypeOK DEF IInv
<1> DEFINE i == Indexed
<1>1. i \in Entry /\ (i = entry \/ i = NoEntry) /\ (entry.stale => i = NoEntry)
    BY <1>t, IndexedFacts DEF Typed
<1>2. /\ index' = IF orderly THEN i ELSE index
      /\ entry' = index' /\ listed' \in BOOLEAN /\ saving' = FALSE
      /\ evicted' = IF evicted = "pending" THEN IF orderly THEN "saved" ELSE "no" ELSE evicted
      /\ UNCHANGED <<disk, mtime, cached, checked, useLocal, leftover, requests>>
      /\ alive' = FALSE
      /\ Blank
    BY DEF Relaunch, Restart, file, config
<1> HIDE DEF i
<1>4. CacheTyped'
    BY <1>t, <1>1, <1>2 DEF Typed, CacheTyped
<1>5. ConfigTyped' /\ RequestTyped'
    BY <1>t, <1>2, BlankTyped DEF Typed, ConfigTyped, Blank
<1>6. (Reported /\ Quiet /\ UnderWay)'
    BY <1>2, BlankTyped
<1>7. Indexes'
    BY <1>t, <1>1, <1>2, NoEntryFacts
    DEF IInv, Indexes, Describes, Current, Typed, CacheTyped
<1>8. (Buried /\ SuccessMeansFile)'
    BY <1>t, <1>1, <1>2, NoEntryFacts, BlankTyped DEF IInv, Buried, Typed, CacheTyped
<1> QED
    BY <1>4, <1>5, <1>6, <1>7, <1>8, TypedIsTypeOKNext DEF IInv, Typed

LEMMA ChangedOutsideKeeps ==
    ASSUME IInv, NEW content \in {"absent", "bad"}, ChangedOutside(content)
    PROVE  IInv'
<1>t. Typed
    BY TypedIsTypeOK DEF IInv
<1>2. /\ ~alive /\ disk' = content /\ mtime' = mtime + 1
      /\ UNCHANGED <<entry, listed, index, saving, evicted>>
      /\ UNCHANGED <<config, life, state, reply, sink, asked, crashed, signals, starts, redirects>>
    BY DEF ChangedOutside, ChangeFile, cache
<1>4. CacheTyped'
    BY <1>t, <1>2 DEF Typed, CacheTyped, Files, Bodies
<1>5. ConfigTyped' /\ RequestTyped'
    BY <1>t, <1>2 DEF Typed, ConfigTyped, RequestTyped, config, life, sink
<1>6. (Reported /\ Quiet /\ UnderWay)'
    BY <1>2 DEF IInv, Reported, Quiet, UnderWay, config, life, sink
<1>7. Indexes'
    BY <1>t, <1>2, EntryFields
    DEF IInv, Indexes, Describes, Current, Typed, CacheTyped, config, life
<1>8. (Buried /\ SuccessMeansFile)'
    BY <1>2 DEF IInv, Buried, Quiet, SuccessMeansFile, config, life
<1> QED
    BY <1>4, <1>5, <1>6, <1>7, <1>8, TypedIsTypeOKNext DEF IInv, Typed

LEMMA SaveTimeoutKeeps ==
    ASSUME IInv, NEW ok \in BOOLEAN, SaveTimeout(ok)
    PROVE  IInv'
<1>t. Typed
    BY TypedIsTypeOK DEF IInv
<1> DEFINE i == Indexed
<1>1. i \in Entry /\ (i = entry \/ i = NoEntry) /\ (entry.stale => i = NoEntry)
    BY <1>t, IndexedFacts DEF Typed
<1>2. /\ \/ index' = i /\ evicted' = Saved
         \/ UNCHANGED <<index, evicted>>
      /\ saving' = FALSE
      /\ UNCHANGED <<entry, listed, disk, mtime>>
      /\ UNCHANGED <<config, life, state, reply, sink, asked, crashed, signals, starts, redirects>>
    BY DEF SaveTimeout, SaveNow, file
<1> HIDE DEF i
<1>4. CacheTyped'
    BY <1>t, <1>1, <1>2 DEF Typed, CacheTyped, Saved
<1>5. ConfigTyped' /\ RequestTyped'
    BY <1>t, <1>2 DEF Typed, ConfigTyped, RequestTyped, config, life, sink
<1>6. (Reported /\ Quiet /\ UnderWay)'
    BY <1>2 DEF IInv, Reported, Quiet, UnderWay, config, life, sink
<1>7. Indexes'
    BY <1>t, <1>1, <1>2, NoEntryFacts
    DEF IInv, Indexes, Describes, Current, Typed, CacheTyped, config, life
<1>8. (Buried /\ SuccessMeansFile)'
    BY <1>1, <1>2, NoEntryFacts DEF IInv, Buried, SuccessMeansFile, Saved, config, life
<1> QED
    BY <1>4, <1>5, <1>6, <1>7, <1>8, TypedIsTypeOKNext DEF IInv, Typed

LEMMA EvictKeeps ==
    ASSUME IInv, NEW expired \in BOOLEAN, Evict(expired)
    PROVE  IInv'
<1>t. Typed
    BY TypedIsTypeOK DEF IInv
<1> DEFINE r == Resolved(expired)
           e == Stale(r)
<1>1. /\ r \in Entry
      /\ Disowned(expired) => r = NoEntry
      /\ ~Disowned(expired) => r.at = mtime /\ disk # "absent"
      /\ Describes(r)
    BY <1>t, ResolvedFacts DEF IInv
<1>2. /\ entry' = e /\ listed' \in BOOLEAN /\ saving' = TRUE /\ evicted' = "pending"
      /\ UNCHANGED <<index, disk, mtime>>
      /\ UNCHANGED <<config, life, state, reply, sink, asked, crashed, signals, starts, redirects>>
      /\ reply # "open" /\ signals = <<"Succeeded">>
    BY DEF Evict, EvictEntry, Disowned, file, Stale
<1> HIDE DEF r
<1>3. e \in Entry /\ e.stale = TRUE /\ e.md5 = r.md5 /\ e.at = r.at
    BY <1>1, Staled
<1> HIDE DEF e
<1>4. CacheTyped'
    BY <1>t, <1>2, <1>3 DEF Typed, CacheTyped
<1>5. ConfigTyped' /\ RequestTyped'
    BY <1>t, <1>2 DEF Typed, ConfigTyped, RequestTyped, config, life, sink
<1>6. (Reported /\ Quiet /\ UnderWay)'
    BY <1>2, FirstReport DEF IInv, Reported, Quiet, UnderWay, Terminal, config, life, sink
<1>7. Indexes'
    BY <1>t, <1>1, <1>2, <1>3, NoEntryFacts
    DEF IInv, Indexes, Describes, Current, Typed, CacheTyped, config, life
<1>8. (Buried /\ SuccessMeansFile)'
    BY <1>2, <1>3 DEF IInv, Buried, SuccessMeansFile, config, life
<1> QED
    BY <1>4, <1>5, <1>6, <1>7, <1>8, TypedIsTypeOKNext DEF IInv, Typed

LEMMA ClearMetadataKeeps ==
    ASSUME IInv, NEW deleted \in BOOLEAN, NEW saved \in BOOLEAN, ClearMetadata(deleted, saved)
    PROVE  IInv'
<1>t. Typed
    BY TypedIsTypeOK DEF IInv
<1> DEFINE e == Stale(entry)
<1>1. e \in Entry /\ e.stale = TRUE /\ e.md5 = entry.md5 /\ e.at = entry.at
    BY <1>t, Staled DEF Typed, CacheTyped
<1>2. /\ entry' = e /\ listed' = FALSE /\ saving' \in BOOLEAN
      /\ \/ index' = NoEntry /\ evicted' = "saved"
         \/ index' = index /\ evicted' = "pending"
      /\ \/ disk' = "absent" /\ mtime' = mtime + 1
         \/ UNCHANGED <<disk, mtime>>
      /\ temp' \in {temp, "deleted"} /\ (temp' # temp => temp = "open")
      /\ wiped' = alive
      /\ UNCHANGED <<config, alive, requests, state, reply, wrote, body, asked, crashed, signals, starts, redirects>>
    BY <1>t DEF ClearMetadata, EvictAll, ChangeFile, file, Typed, CacheTyped, Stale
<1> HIDE DEF e
<1>4. CacheTyped'
  <2>1. entry' \in Entry /\ index' \in Entry /\ listed' \in BOOLEAN /\ saving' \in BOOLEAN
      BY <1>t, <1>1, <1>2, NoEntryFacts DEF Typed, CacheTyped
  <2>2. disk' \in Files /\ mtime' \in Nat /\ evicted' \in {"no", "pending", "saved"}
      BY <1>t, <1>2 DEF Typed, CacheTyped, Files
  <2> QED
      BY <2>1, <2>2 DEF CacheTyped
<1>5. ConfigTyped' /\ RequestTyped'
    BY <1>t, <1>2 DEF Typed, ConfigTyped, RequestTyped, config
<1>6. (Reported /\ Quiet /\ UnderWay)'
  <2>1. (Reported /\ Quiet)'
      BY <1>2 DEF IInv, Reported, Quiet
  <2>2. UnderWay'
      BY <1>t, <1>1, <1>2 DEF IInv, UnderWay, Quiet, config, Typed, ConfigTyped
  <2> QED
      BY <2>1, <2>2
<1>7. Indexes'
    BY <1>t, <1>1, <1>2, NoEntryFacts, EntryFields
    DEF IInv, Indexes, Describes, Current, Typed, CacheTyped, config
<1>8. (Buried /\ SuccessMeansFile)'
  <2>1. Buried'
      BY <1>1, <1>2, NoEntryFacts DEF IInv, Buried
  <2>2. SuccessMeansFile'
    <3>1. CASE alive
        BY <3>1, <1>2 DEF SuccessMeansFile
    <3>2. CASE ~alive
        BY <3>2, <1>2 DEF SuccessMeansFile, IInv, Quiet
    <3> QED
        BY <3>1, <3>2
  <2> QED
      BY <2>1, <2>2
<1> QED
    BY <1>4, <1>5, <1>6, <1>7, <1>8, TypedIsTypeOKNext DEF IInv, Typed

-----------------------------------------------------------------------------
(* The request. What its steps leave alone keeps the cache index in order. *)

Untouched == UNCHANGED <<config, life, file, cache>>

LEMMA UntouchedKeeps ==
    ASSUME IInv, Untouched
    PROVE  CacheTyped' /\ ConfigTyped' /\ Indexes' /\ Buried'
<1>t. Typed
    BY TypedIsTypeOK DEF IInv
<1>1. CacheTyped' /\ ConfigTyped'
    BY <1>t DEF Typed, CacheTyped, ConfigTyped, Untouched, config, life, file, cache
<1>2. Indexes' /\ Buried'
    BY DEF IInv, Indexes, Describes, Current, Buried, Untouched, config, life, file, cache
<1> QED
    BY <1>1, <1>2

LEMMA ExecuteTaskKeeps ==
    ASSUME IInv, alive, Untouched, crashed' = crashed,
           NEW held \in {"none", "closed"}, ExecuteTask(<<>>, held),
           starts' \in 0..MaxStarts, starts' # 0, redirects' \in 0..MaxRedirects
    PROVE  IInv'
<1>t. Typed
    BY TypedIsTypeOK DEF IInv
<1>u. CacheTyped' /\ ConfigTyped' /\ Indexes' /\ Buried'
    BY UntouchedKeeps
<1>c. alive' /\ wiped' = wiped /\ cached' = cached /\ entry' = entry /\ disk' = disk
      /\ checked' = checked /\ useLocal' = useLocal
    BY DEF Untouched, config, life, file, cache
<1>1. CASE CacheHit(<<>>, held)
  <2>1. /\ cached /\ ~entry.stale /\ state' = "Succeeded" /\ signals' = <<"Succeeded">>
        /\ reply' = held /\ UNCHANGED <<temp, wrote, body, asked>>
      BY <1>1, FirstReport DEF CacheHit, FreshEntry, sink, Terminal
  <2>2. RequestTyped'
      BY <1>t, <2>1, FirstReport DEF Typed, RequestTyped, TaskState, Terminal
  <2>3. (Reported /\ Quiet /\ UnderWay)'
      BY <1>c, <2>1 DEF Reported, Quiet, UnderWay, Terminal
  <2>4. disk \in {"absent", "old", "empty", "good", "bad"}
      BY <1>t DEF Typed, CacheTyped, Files, Bodies
  <2>5. SuccessMeansFile'
      BY <1>c, <2>1, <2>4 DEF IInv, Indexes, Describes, Current, SuccessMeansFile
  <2> QED
      BY <1>u, <2>2, <2>3, <2>5, TypedIsTypeOKNext DEF IInv, Typed
<1>2. CASE InitFails(<<>>, held)
  <2>1. /\ state' = "Failed" /\ signals' = <<"Failed">> /\ reply' = held /\ asked' = asked
        /\ UNCHANGED <<temp, wrote, body>> \/ (temp' = "open" /\ wrote' = FALSE /\ body' = "empty")
      BY <1>2, FirstReport DEF InitFails, NewTemp, sink, Terminal
  <2>2. RequestTyped'
      BY <1>t, <2>1, FirstReport DEF Typed, RequestTyped, TaskState, Terminal, Bodies
  <2>3. (Reported /\ Quiet /\ UnderWay)'
      BY <1>c, <2>1 DEF Reported, Quiet, UnderWay, Terminal
  <2>5. SuccessMeansFile'
      BY <2>1 DEF SuccessMeansFile
  <2> QED
      BY <1>u, <2>2, <2>3, <2>5, TypedIsTypeOKNext DEF IInv, Typed
<1>3. CASE SendRequest(<<>>)
  <2>1. /\ state' = "Running" /\ signals' = <<>> /\ reply' = "open"
        /\ temp' = "open" /\ wrote' = FALSE /\ body' = "empty"
        /\ asked' \in BOOLEAN /\ (asked' => cached /\ entry.at # 0)
      BY <1>3, <1>t DEF SendRequest, NewTemp, HasLocalData, Typed, ConfigTyped
  <2>2. RequestTyped'
    <3>1. asked' \in BOOLEAN /\ wrote' \in BOOLEAN /\ crashed' \in BOOLEAN
        BY <1>t, <2>1 DEF Typed, RequestTyped
    <3>2. signals' \in Seq(Terminal) /\ state' \in TaskState /\ body' \in Bodies
        BY <2>1 DEF TaskState, Bodies
    <3> QED
        BY <2>1, <3>1, <3>2 DEF RequestTyped
  <2>3. (Reported /\ Quiet /\ UnderWay)'
      BY <1>c, <2>1 DEF Reported, Quiet, UnderWay
  <2>5. SuccessMeansFile'
      BY <2>1 DEF SuccessMeansFile
  <2> QED
      BY <1>u, <2>2, <2>3, <2>5, TypedIsTypeOKNext DEF IInv, Typed
<1> QED
    BY <1>1, <1>2, <1>3 DEF ExecuteTask

LEMMA StartKeeps == ASSUME IInv, Start PROVE IInv'
<1>t. Typed
    BY TypedIsTypeOK DEF IInv
<1>1. /\ alive /\ Untouched /\ UNCHANGED <<crashed, redirects>>
      /\ starts' \in 0..MaxStarts /\ starts' # 0
    BY <1>t, BoundsAssumption DEF Start, Untouched, Typed, RequestTyped
<1>2. reply \in {"none", "closed"}
    BY <1>t, FirstReport DEF Start, IInv, Quiet, Typed, RequestTyped, Terminal
<1>3. CASE state # "Running"
    BY <1>t, <1>1, <1>2, <1>3, ExecuteTaskKeeps DEF Start, Typed, RequestTyped
<1>4. CASE state = "Running"
  <2>1. signals' = <<>> /\ UNCHANGED <<state, reply, temp, wrote, body, asked>>
      BY <1>4 DEF Start, sink
  <2>2. RequestTyped'
      BY <1>t, <1>1, <2>1 DEF Typed, RequestTyped
  <2>3. (Reported /\ Quiet /\ UnderWay /\ SuccessMeansFile)'
      BY <1>1, <1>2, <2>1 DEF IInv, Reported, Quiet, UnderWay, SuccessMeansFile, Untouched, life
  <2> QED
      BY <1>1, <2>2, <2>3, UntouchedKeeps, TypedIsTypeOKNext DEF IInv, Typed
<1> QED
    BY <1>3, <1>4

LEMMA WriteChunkKeeps == ASSUME IInv, WriteChunk PROVE IInv'
<1>t. Typed
    BY TypedIsTypeOK DEF IInv
<1>1. /\ Untouched /\ wrote' = TRUE /\ body' \in {"good", "bad"}
      /\ UNCHANGED <<state, reply, temp, asked, crashed, signals, starts, redirects>>
    BY DEF WriteChunk, Untouched, life
<1>2. RequestTyped'
    BY <1>t, <1>1 DEF Typed, RequestTyped, Bodies
<1>3. (Reported /\ Quiet /\ UnderWay /\ SuccessMeansFile)'
    BY <1>1 DEF IInv, Reported, Quiet, UnderWay, SuccessMeansFile, Untouched, config, life, file, cache
<1> QED
    BY <1>1, <1>2, <1>3, UntouchedKeeps, TypedIsTypeOKNext DEF IInv, Typed

LEMMA WriteChunkFailsKeeps == ASSUME IInv, WriteChunkFails PROVE IInv'
<1>t. Typed
    BY TypedIsTypeOK DEF IInv
<1>1. /\ Untouched /\ state' = "Failed" /\ temp' = "none" /\ wrote' = FALSE
      /\ UNCHANGED <<reply, body, asked, crashed, signals, starts, redirects>>
    BY DEF WriteChunkFails, Untouched, life
<1>2. RequestTyped'
    BY <1>t, <1>1 DEF Typed, RequestTyped, TaskState
<1>3. (Reported /\ Quiet /\ UnderWay /\ SuccessMeansFile)'
    BY <1>1 DEF IInv, Reported, Quiet, UnderWay, SuccessMeansFile, Untouched, config, life, file, cache
<1> QED
    BY <1>1, <1>2, <1>3, UntouchedKeeps, TypedIsTypeOKNext DEF IInv, Typed

LEMMA AfterErrorOutcome == Outcome(AfterError) /\ AfterError \in {"Succeeded", "Failed"}
    BY DEF AfterError, Outcome, HasLocalData, TaskState

LEMMA ErrorOccurredKeeps == ASSUME IInv, ErrorOccurred PROVE IInv'
<1>t. Typed
    BY TypedIsTypeOK DEF IInv
<1>1. /\ Untouched /\ reply = "open" /\ reply' = "errored"
      /\ state' \in {"Failed", "Succeeded"}
      /\ state' = "Succeeded" => useLocal /\ (wiped \/ disk # "absent")
      /\ UNCHANGED <<temp, wrote, body, asked, crashed, signals, starts, redirects>>
    BY AfterErrorOutcome DEF ErrorOccurred, Untouched, life, sink, Outcome
<1>2. RequestTyped'
    BY <1>t, <1>1 DEF Typed, RequestTyped, TaskState
<1>3. (Reported /\ Quiet /\ UnderWay /\ SuccessMeansFile)'
    BY <1>1 DEF IInv, Reported, Quiet, UnderWay, SuccessMeansFile, Untouched, config, life, file, cache
<1> QED
    BY <1>1, <1>2, <1>3, UntouchedKeeps, TypedIsTypeOKNext DEF IInv, Typed

-----------------------------------------------------------------------------
(* downloadFinished: whatever it makes of the reply, one report at most    *)
(* follows, and none that the file does not justify.                       *)

LEMMA SettledTyped ==
    ASSUME RequestTyped, NEW t \in Terminal, signals' \in {<<>>, <<t>>},
           reply' = "closed", UNCHANGED starts, redirects' \in 0..MaxRedirects,
           wrote' \in BOOLEAN, asked' = asked, crashed' \in BOOLEAN, state' \in TaskState,
           temp' \in {"none", "open", "deleted", "cancelled"}, body' \in Bodies
    PROVE  RequestTyped'
<1>0. <<>> \in Seq(Terminal) /\ <<t>> \in Seq(Terminal)
    BY FirstReport
<1>1. signals' \in Seq(Terminal)
    BY <1>0
<1> QED
    BY <1>1 DEF RequestTyped

LEMMA AbortSinkFacts ==
    ASSUME RequestTyped, signals = <<>>, NEW t \in Terminal,
           NEW output \in {"none", "open", "deleted", "cancelled"}, AbortSink(output, t)
    PROVE  /\ signals' \in {<<>>, <<t>>}
           /\ temp' \in {"none", "cancelled"}
           /\ crashed' \in BOOLEAN
    BY FirstReport DEF AbortSink, RequestTyped

LEMMA NoSuccess ==
    ASSUME NEW t \in Terminal, t # "Succeeded", signals' \in {<<>>, <<t>>}
    PROVE  SuccessMeansFile'
<1>1. <<t>>[1] = t /\ <<"Succeeded">>[1] = "Succeeded" /\ <<t>> # <<>> /\ <<"Succeeded">> # <<>>
    OBVIOUS
<1>2. signals' # <<"Succeeded">>
    BY <1>1
<1> QED
    BY <1>2 DEF SuccessMeansFile

LEMMA FollowRedirectKeeps ==
    ASSUME IInv, Receiving, NEW st \in TaskState, FollowRedirect(st), UNCHANGED <<config, life, starts>>
    PROVE  IInv'
<1>t. Typed
    BY TypedIsTypeOK DEF IInv
<1>1. /\ Untouched /\ crashed' = crashed /\ redirects' \in 0..MaxRedirects
      /\ starts' \in 0..MaxStarts /\ starts' # 0 /\ signals = <<>> /\ alive
    BY <1>t, BoundsAssumption DEF FollowRedirect, Untouched, Typed, RequestTyped, IInv, Quiet
<1>2. CASE st = "AbortedByUser"
  <2>1. /\ state' = "AbortedByUser" /\ signals' = <<"AbortedByUser">> /\ reply' = "closed"
        /\ UNCHANGED <<temp, wrote, body, asked>>
      BY <1>1, <1>2, FirstReport DEF FollowRedirect, sink, Terminal
  <2>2. RequestTyped'
      BY <1>t, <1>1, <2>1, SettledTyped DEF Typed, RequestTyped, TaskState, Terminal
  <2>3. (Reported /\ Quiet /\ UnderWay)'
      BY <1>1, <2>1 DEF Reported, Quiet, UnderWay, Terminal, Untouched, life
  <2>4. SuccessMeansFile'
      BY <2>1 DEF SuccessMeansFile
  <2> QED
      BY <1>1, <2>2, <2>3, <2>4, UntouchedKeeps, TypedIsTypeOKNext DEF IInv, Typed
<1>3. CASE st # "AbortedByUser"
    BY <1>1, <1>3, ExecuteTaskKeeps DEF FollowRedirect
<1> QED
    BY <1>2, <1>3

(* Every way out of downloadFinished but a success that finalizeCache made.*)
LEMMA SettledWithoutCommit ==
    ASSUME IInv, Receiving, UNCHANGED <<config, life, starts>>,
           NEW t \in Terminal, signals' \in {<<>>, <<t>>},
           t = "Succeeded" => useLocal /\ (wiped \/ disk # "absent"),
           reply' = "closed", UNCHANGED <<asked, file, cache, redirects>>,
           wrote' \in BOOLEAN, crashed' \in BOOLEAN, state' \in TaskState,
           temp' \in {"none", "cancelled"}, body' \in Bodies
    PROVE  IInv'
<1>t. Typed
    BY TypedIsTypeOK DEF IInv
<1>1. Untouched /\ alive /\ starts # 0
    BY DEF Untouched, IInv, Quiet
<1>2. RequestTyped'
    BY <1>t, SettledTyped DEF Typed, RequestTyped
<1>3. (Reported /\ Quiet /\ UnderWay)'
    BY <1>1 DEF Reported, Quiet, UnderWay, Untouched, life
<1>4. SuccessMeansFile'
  <2>1. CASE t # "Succeeded"
      BY <2>1, NoSuccess
  <2>2. CASE t = "Succeeded"
      BY <2>2 DEF SuccessMeansFile, config, life, file
  <2> QED
      BY <2>1, <2>2
<1> QED
    BY <1>1, <1>2, <1>3, <1>4, UntouchedKeeps, TypedIsTypeOKNext DEF IInv, Typed

LEMMA FinalizeKeeps ==
    ASSUME IInv, Receiving, NEW status \in Statuses, Finalize(state, status), reply' = "closed",
           UNCHANGED <<config, life, starts>>
    PROVE  IInv'
<1>t. Typed
    BY TypedIsTypeOK DEF IInv
<1>1. /\ state = "Running" /\ state' = "Succeeded" /\ signals' = <<"Succeeded">> /\ temp' = "none"
      /\ UNCHANGED <<wrote, body, asked, crashed, redirects>>
      /\ alive /\ starts # 0
    BY FirstReport DEF Finalize, IInv, Quiet, Terminal
<1>c. /\ cached' = cached /\ checked' = checked /\ useLocal' = useLocal /\ leftover' = leftover
      /\ alive' = alive /\ requests' = requests /\ wiped' = wiped
    BY DEF config, life
<1>2. RequestTyped'
    BY <1>t, <1>1, SettledTyped DEF Typed, RequestTyped, TaskState, Terminal
<1>3. (Reported /\ Quiet /\ UnderWay)'
    BY <1>1, <1>c DEF Reported, Quiet, UnderWay, Terminal
<1> DEFINE md5 == Md5
<1>4. /\ wrote => md5 = body
      /\ ~wrote => md5 = entry.md5
      /\ md5 \in Files
    BY <1>t, EntryFields DEF Md5, Typed, CacheTyped, RequestTyped, Files
<1>5. \/ /\ ~cached
         /\ UNCHANGED <<entry, listed, index, saving, evicted>>
      \/ /\ cached
         /\ entry' = [stale |-> FALSE, md5 |-> md5, at |-> mtime']
         /\ listed' = TRUE /\ saving' = TRUE /\ evicted' = "no" /\ index' = index
    BY DEF Finalize, UpdateEntry, cache
<1> HIDE DEF md5
<1>6. \/ /\ disk' = body /\ mtime' = mtime + 1
         /\ checked => body = "good"
      \/ /\ UNCHANGED <<disk, mtime>>
         /\ ~wrote /\ asked
  <2>1. CASE Commits(status)
      BY <2>1 DEF Finalize, Valid, ChangeFile
  <2>2. CASE ~Commits(status)
      BY <2>2, <1>t DEF Finalize, Commits, Statuses, file, Typed, RequestTyped
  <2> QED
      BY <2>1, <2>2
<1>7. /\ ~wrote => body = "empty"
      /\ asked => cached /\ entry.at # 0
    BY <1>1 DEF IInv, UnderWay
<1>8. /\ disk' \in Files /\ mtime' \in Nat /\ mtime' >= mtime
    BY <1>t, <1>6 DEF Typed, CacheTyped, RequestTyped, Files
<1>9. CASE ~cached
  <2>1. UNCHANGED <<entry, listed, index, saving, evicted>>
      BY <1>5, <1>9
  <2>2. disk' = body /\ mtime' = mtime + 1 /\ (checked => body = "good")
      BY <1>6, <1>7, <1>9
  <2>3. CacheTyped' /\ ConfigTyped'
      BY <1>t, <1>c, <1>8, <2>1 DEF Typed, CacheTyped, ConfigTyped
  <2>4. Indexes'
      BY <1>t, <1>c, <1>9, <2>1, <2>2, EntryFields
      DEF Typed, CacheTyped, IInv, Indexes, Describes, Current
  <2>5. (Buried /\ SuccessMeansFile)'
      BY <1>t, <1>1, <1>c, <2>1, <2>2
      DEF IInv, Buried, SuccessMeansFile, Typed, RequestTyped, Bodies
  <2> QED
      BY <1>2, <1>3, <2>3, <2>4, <2>5, TypedIsTypeOKNext DEF IInv, Typed
<1>10. CASE cached
  <2> DEFINE e == [stale |-> FALSE, md5 |-> md5, at |-> mtime']
  <2>1. /\ entry' = e /\ listed' = TRUE /\ saving' = TRUE /\ evicted' = "no" /\ index' = index
      BY <1>5, <1>10
  <2>2. e \in Entry /\ e.stale = FALSE /\ e.md5 = md5 /\ e.at = mtime'
      BY <1>4, <1>8 DEF Entry
  <2> HIDE DEF e
  <2>3. CacheTyped' /\ ConfigTyped'
      BY <1>t, <1>c, <1>8, <2>1, <2>2 DEF Typed, CacheTyped, ConfigTyped
  <2>4. /\ disk' \notin {"absent", "empty"} => md5 = disk'
        /\ checked => md5 \notin {"bad", "empty"} /\ disk' # "empty"
        /\ wiped \/ disk' # "absent"
    <3>1. CASE disk' = body /\ mtime' = mtime + 1 /\ (checked => body = "good")
        BY <1>t, <1>4, <1>7, <3>1 DEF Typed, RequestTyped, Bodies, IInv, Indexes, Describes
    <3>2. CASE UNCHANGED <<disk, mtime>> /\ ~wrote /\ asked
        BY <1>1, <1>4, <1>7, <3>2 DEF IInv, Indexes, Describes, Current
    <3> QED
        BY <1>6, <3>1, <3>2
  <2>5. Indexes'
      BY <1>t, <1>c, <1>6, <1>8, <2>1, <2>2, <2>4, EntryFields
      DEF Typed, CacheTyped, IInv, Indexes, Describes, Current
  <2>6. Buried'
      BY <2>1 DEF IInv, Buried
  <2>7. SuccessMeansFile'
    <3>1. disk' \in {"absent", "old", "empty", "good", "bad"}
        BY <1>8 DEF Files, Bodies
    <3> QED
        BY <1>1, <1>c, <1>10, <2>4, <3>1 DEF SuccessMeansFile
  <2> QED
      BY <1>2, <1>3, <2>3, <2>5, <2>6, <2>7, TypedIsTypeOKNext DEF IInv, Typed
<1> QED
    BY <1>t, <1>9, <1>10 DEF Typed, ConfigTyped

LEMMA SettleKeeps ==
    ASSUME IInv, Receiving, NEW st \in TaskState, Outcome(st), Settle(st),
           UNCHANGED <<config, life, starts>>
    PROVE  IInv'
<1>t. Typed
    BY TypedIsTypeOK DEF IInv
<1>1. signals = <<>> /\ reply' = "closed"
    BY DEF IInv, Quiet, Settle
<1>2. CASE ReportDecided(st)
  <2>1. /\ st \in Terminal /\ AbortSink(temp, st) /\ state' = st
        /\ UNCHANGED <<wrote, body, asked, file, cache, redirects>>
      BY <1>2 DEF ReportDecided
  <2>2. signals' \in {<<>>, <<st>>} /\ temp' \in {"none", "cancelled"} /\ crashed' \in BOOLEAN
      BY <1>t, <1>1, <2>1, AbortSinkFacts DEF Typed, RequestTyped
  <2>3. wrote' \in BOOLEAN /\ body' \in Bodies
      BY <1>t, <2>1 DEF Typed, RequestTyped
  <2> QED
      BY <1>1, <2>1, <2>2, <2>3, SettledWithoutCommit DEF Outcome
<1>3. CASE WriteRemaining(st)
  <2>1. /\ \E output \in {temp, "none"} : AbortSink(output, "Failed")
        /\ wrote' \in BOOLEAN /\ body' \in Bodies /\ state' \in TaskState
        /\ UNCHANGED <<asked, file, cache, redirects>>
      BY <1>t, <1>3 DEF WriteRemaining, Typed, RequestTyped, TaskState, Bodies
  <2>2. signals' \in {<<>>, <<"Failed">>} /\ temp' \in {"none", "cancelled"} /\ crashed' \in BOOLEAN
      BY <1>t, <1>1, <2>1, AbortSinkFacts DEF Typed, RequestTyped, Terminal
  <2> QED
      BY <1>1, <2>1, <2>2, SettledWithoutCommit DEF Terminal
<1>4. ASSUME NEW status \in Statuses, FinalizeFails(st, status) PROVE IInv'
  <2>1. /\ AbortSink(temp, "Failed") /\ state' = "Failed"
        /\ UNCHANGED <<wrote, body, asked, file, cache, redirects>>
      BY <1>4 DEF FinalizeFails
  <2>2. signals' \in {<<>>, <<"Failed">>} /\ temp' \in {"none", "cancelled"} /\ crashed' \in BOOLEAN
      BY <1>t, <1>1, <2>1, AbortSinkFacts DEF Typed, RequestTyped, Terminal
  <2>3. wrote' \in BOOLEAN /\ body' \in Bodies /\ state' \in TaskState
      BY <1>t, <2>1 DEF Typed, RequestTyped, TaskState
  <2> QED
      BY <1>1, <2>1, <2>2, <2>3, SettledWithoutCommit DEF Terminal
<1>5. ASSUME NEW status \in Statuses, Finalize(st, status) PROVE IInv'
  <2>1. st = state
      BY <1>5 DEF Finalize, Outcome
  <2> QED
      BY <1>1, <1>5, <2>1, FinalizeKeeps
<1> QED
    BY <1>2, <1>3, <1>4, <1>5 DEF Settle

LEMMA DownloadFinishedKeeps ==
    ASSUME IInv, Receiving, NEW st \in TaskState, Outcome(st), DownloadFinished(st),
           UNCHANGED <<config, life, starts>>
    PROVE  IInv'
<1>1. AfterError \in TaskState /\ Outcome(AfterError)
    BY AfterErrorOutcome DEF TaskState
<1> QED
    BY <1>1, FollowRedirectKeeps, SettleKeeps DEF DownloadFinished

LEMMA ReplyFinishedKeeps == ASSUME IInv, ReplyFinished PROVE IInv'
<1>1. state \in TaskState /\ Receiving
    BY DEF IInv, TypeOK, ReplyFinished
<1>2. Outcome(state)
    BY <1>1 DEF IInv, UnderWay, Outcome
<1> QED
    BY <1>1, <1>2, DownloadFinishedKeeps DEF ReplyFinished

LEMMA AbortKeeps == ASSUME IInv, Abort PROVE IInv'
<1>t. Typed
    BY TypedIsTypeOK DEF IInv
<1>1. CASE Receiving
  <2>1. "AbortedByUser" \in TaskState /\ Outcome("AbortedByUser")
      BY DEF TaskState, Outcome
  <2> QED
      BY <1>1, <2>1, DownloadFinishedKeeps DEF Abort
<1>2. CASE ~Receiving
  <2>1. /\ Untouched /\ state' = "AbortedByUser"
        /\ UNCHANGED <<reply, temp, wrote, body, asked, crashed, signals, starts, redirects>>
      BY <1>2 DEF Abort, Untouched, sink
  <2>2. RequestTyped'
      BY <1>t, <1>2, <2>1 DEF Typed, RequestTyped, TaskState
  <2>3. (Reported /\ Quiet /\ UnderWay /\ SuccessMeansFile)'
      BY <1>2, <2>1 DEF IInv, Reported, Quiet, UnderWay, SuccessMeansFile, Untouched, config, life, file, cache
  <2> QED
      BY <2>1, <2>2, <2>3, UntouchedKeeps, TypedIsTypeOKNext DEF IInv, Typed
<1> QED
    BY <1>1, <1>2

-----------------------------------------------------------------------------
LEMMA InitIInv == Init => IInv
<1> SUFFICES ASSUME Init PROVE IInv
    OBVIOUS
<1>1. CacheTyped /\ Indexes /\ Buried
  <2>1. disk \in {"absent", "old"} /\ mtime = 1 /\ entry = index
        /\ listed \in BOOLEAN /\ saving = FALSE /\ evicted = "no" /\ alive = FALSE
      BY DEF Init, CacheInit
  <2>2. index = NoEntry \/ (disk = "old" /\ index = [stale |-> FALSE, md5 |-> "old", at |-> 1])
      BY DEF Init, CacheInit
  <2>3. index \in Entry /\ index.at \in {0, 1} /\ index.md5 \in {"absent", "old"}
        /\ (index.at = 1 => disk = "old" /\ index.md5 = "old")
        /\ (index.at = 0 => index.stale)
    <3>1. CASE index = NoEntry
        BY <3>1, NoEntryFacts
    <3>2. CASE disk = "old" /\ index = [stale |-> FALSE, md5 |-> "old", at |-> 1]
        BY <3>2 DEF Entry, Files
    <3> QED
        BY <2>2, <3>1, <3>2
  <2>4. CacheTyped
      BY <2>1, <2>3 DEF CacheTyped, Files
  <2>5. Indexes
      BY <2>1, <2>3 DEF Indexes, Describes, Current
  <2>6. Buried
      BY <2>1 DEF Buried
  <2> QED
      BY <2>4, <2>5, <2>6
<1>2. ConfigTyped
  <2>1. 0 \in 0..MaxRequests
      BY BoundsAssumption
  <2> QED
      BY <2>1 DEF Init, ConfigTyped
<1>3. RequestTyped
  <2>1. 0 \in 0..MaxStarts /\ 0 \in 0..MaxRedirects /\ <<>> \in Seq(Terminal)
      BY BoundsAssumption
  <2> QED
      BY <2>1 DEF Init, RequestTyped, TaskState, Bodies
<1>4. Reported /\ Quiet /\ UnderWay /\ SuccessMeansFile
  <2>1. signals = <<>> /\ signals # <<"Succeeded">> /\ reply = "none"
      BY DEF Init
  <2> QED
      BY <2>1 DEF Reported, Quiet, UnderWay, SuccessMeansFile
<1> QED
    BY <1>1, <1>2, <1>3, <1>4, TypedIsTypeOK DEF IInv, Typed

LEMMA StutterKeeps == ASSUME IInv, UNCHANGED vars PROVE IInv'
    BY DEF vars, config, life, sink, file, cache, IInv, TypeOK, CacheTypeOK, Reported, Quiet,
           UnderWay, Indexes, Describes, Current, Buried, SuccessMeansFile

LEMMA NextKeeps == IInv /\ [Next]_vars => IInv'
<1> SUFFICES ASSUME IInv, [Next]_vars PROVE IInv'
    OBVIOUS
<1>1. CASE Start
    BY <1>1, StartKeeps
<1>2. CASE Abort
    BY <1>2, AbortKeeps
<1>3. CASE WriteChunk
    BY <1>3, WriteChunkKeeps
<1>4. CASE WriteChunkFails
    BY <1>4, WriteChunkFailsKeeps
<1>5. CASE ErrorOccurred
    BY <1>5, ErrorOccurredKeeps
<1>6. CASE ReplyFinished
    BY <1>6, ReplyFinishedKeeps
<1>7. CASE \E expired \in BOOLEAN : NewRequest(expired) \/ Evict(expired)
    BY <1>7, NewRequestKeeps, EvictKeeps
<1>8. CASE \E orderly \in BOOLEAN : Relaunch(orderly)
    BY <1>8, RelaunchKeeps
<1>9. CASE \E content \in {"absent", "bad"} : ChangedOutside(content)
    BY <1>9, ChangedOutsideKeeps
<1>10. CASE \E ok \in BOOLEAN : SaveTimeout(ok)
    BY <1>10, SaveTimeoutKeeps
<1>11. CASE \E deleted, saved \in BOOLEAN : ClearMetadata(deleted, saved)
    BY <1>11, ClearMetadataKeeps
<1>12. CASE UNCHANGED vars
    BY <1>12, StutterKeeps
<1> QED
    BY <1>1, <1>2, <1>3, <1>4, <1>5, <1>6, <1>7, <1>8, <1>9, <1>10, <1>11, <1>12 DEF Next

LEMMA Invariance == Spec => []IInv
    BY InitIInv, NextKeeps, PTL DEF Spec

(* What the parts say together about the entry of a request.               *)
LEMMA FreshMatches == IInv => FreshEntryMatchesFile
<1> SUFFICES ASSUME IInv, cached, alive, ~entry.stale, ~wiped, disk # "empty"
             PROVE  entry.md5 = disk
    BY DEF FreshEntryMatchesFile
<1>1. entry.at # 0
    BY DEF IInv, Indexes, Describes
<1>2. entry.at = mtime /\ disk # "absent"
    BY <1>1 DEF IInv, Indexes, Current
<1> QED
    BY <1>2 DEF IInv, Indexes, Describes

LEMMA ReportsInOrder == IInv => ReportsOK
<1> SUFFICES ASSUME IInv PROVE OneReport
    BY DEF IInv, ReportsOK
<1>1. Len(signals) <= 1
  <2>1. CASE signals = <<>>
      BY <2>1
  <2>2. ASSUME NEW t \in Terminal, signals = <<t>> PROVE Len(signals) <= 1
      BY <2>2, FirstReport
  <2> QED
      BY <2>1, <2>2 DEF IInv, Reported
<1> QED
    BY <1>1 DEF OneReport, IInv, Quiet

(* Every start of a request is answered at most once and not before its    *)
(* reply is closed, with everything in its type (NetRequest.cpp).          *)
THEOREM OneReportPerStart == Spec => []ReportsOK
    BY Invariance, ReportsInOrder, PTL

(* "Succeeded" is only heard over a file, and where a checksum was given   *)
(* over the file expected, whatever errors, redirects, aborts, retries,    *)
(* crashes and changes of the file came before (downloadFinished, the      *)
(* sinks and the cache index together).                                    *)
THEOREM SuccessIsJustified == Spec => []SuccessMeansFile
<1>1. IInv => SuccessMeansFile
    BY DEF IInv
<1> QED
    BY <1>1, Invariance, PTL

(* A resolved entry that counts as fresh has the checksum of the file that *)
(* is there now (HttpMetaCache::resolveEntry, MetaCacheSink::finalizeCache,*)
(* Load and SaveNow).                                                      *)
THEOREM FreshEntryIsTrue == Spec => []FreshEntryMatchesFile
    BY Invariance, FreshMatches, PTL

(* No entry that was evicted is taken for fresh again before it is fetched,*)
(* not even after a restart (HttpMetaCache::evictEntry and Load).          *)
THEOREM EvictionIsKept == Spec => []EvictionHolds
<1>1. IInv => EvictionHolds
    BY DEF IInv, Buried, EvictionHolds
<1> QED
    BY <1>1, Invariance, PTL

=============================================================================
