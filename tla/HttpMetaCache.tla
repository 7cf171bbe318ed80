---------------------------- MODULE HttpMetaCache ----------------------------
(***************************************************************************)
(* The index of downloaded files (HttpMetaCache), seen from one path: the  *)
(* file, the entry in memory that the download of the path holds, and the  *)
(* index file, which is written thirty seconds after a change. A crash     *)
(* loses what was not written yet; the next start reads the index and      *)
(* presumes its entries fresh until they are resolved.                     *)
(*                                                                         *)
(* A file is its content and the time of its last change; an entry the     *)
(* checksum and the time it was made for.                                  *)
(***************************************************************************)
EXTENDS Naturals

VARIABLES
    disk,      \* the file: "absent", "old", or the body it was committed from
    mtime,     \* the time of its last change
    entry,     \* the MetaEntry of the path that the download holds
    listed,    \* it is in m_entries; if not, none is
    index,     \* the entry of the path in the index file
    saving,    \* saveBatchingTimer is armed
    evicted    \* history: the entry was evicted, "pending" until that is saved

cache == <<entry, listed, index, saving, evicted>>
file  == <<disk, mtime>>

Bodies == {"empty", "good", "bad"}
Files  == {"absent", "old"} \cup Bodies

Entry   == [stale : BOOLEAN, md5 : Files, at : Nat]
NoEntry == [stale |-> TRUE, md5 |-> "absent", at |-> 0]

CacheTypeOK ==
    /\ disk \in Files /\ mtime \in Nat
    /\ entry \in Entry /\ index \in Entry
    /\ {listed, saving} \subseteq BOOLEAN
    /\ evicted \in {"no", "pending", "saved"}

(* A first start, with the index of an earlier session or without one.     *)
CacheInit ==
    /\ disk \in {"absent", "old"} /\ mtime = 1
    /\ index \in {NoEntry} \cup {[stale |-> FALSE, md5 |-> d, at |-> 1] : d \in {disk} \cap {"old"}}
    /\ entry = index /\ listed = (index # NoEntry)
    /\ saving = FALSE /\ evicted = "no"

ChangeFile(content) == disk' = content /\ mtime' = mtime + 1

-----------------------------------------------------------------------------

(* resolveEntry: the entry, unless the file is gone, has another content,  *)
(* or is too old; then the entry is disowned and a new stale one returned. *)
Disowned(expired) ==
    \/ ~listed \/ disk = "absent" \/ expired
    \/ entry.at # mtime /\ entry.md5 # disk

Resolved(expired) ==
    IF Disowned(expired) THEN NoEntry ELSE [entry EXCEPT !.at = mtime]

ResolveEntry(expired) ==
    /\ entry' = Resolved(expired)
    /\ listed' = ~Disowned(expired)
    /\ saving' = (saving \/ (listed' /\ entry.at # mtime))
    /\ UNCHANGED <<index, evicted>>

(* finalizeCache and updateEntry, after the file became "content".         *)
UpdateEntry(md5, time) ==
    /\ entry' = [stale |-> FALSE, md5 |-> md5, at |-> time]
    /\ listed' = TRUE /\ saving' = TRUE
    /\ evicted' = "no"
    /\ UNCHANGED index

(* A file that turned out useless: its entry is looked up and evicted.     *)
EvictEntry(expired) ==
    /\ entry' = [Resolved(expired) EXCEPT !.stale = TRUE]
    /\ listed' = ~Disowned(expired)
    /\ saving' = TRUE
    /\ evicted' = "pending"
    /\ UNCHANGED index

(* mutant: stale entries are written like the others                       *)
IndexedAll == IF listed THEN [entry EXCEPT !.stale = FALSE] ELSE NoEntry

(* What is written: stale entries are dead.                                *)
Indexed == IF listed /\ ~entry.stale THEN entry ELSE NoEntry

Saved == IF evicted = "pending" THEN "saved" ELSE evicted

(* The write may fail, which is only logged.                               *)
SaveNow(ok) ==
    /\ saving
    /\ saving' = FALSE
    /\ IF ok THEN index' = Indexed /\ evicted' = Saved
             ELSE UNCHANGED <<index, evicted>>
    /\ UNCHANGED <<entry, listed>>

(* "Clear metadata": everything is evicted, its folder deleted if that can *)
(* be done, and the index saved if that works.                             *)
EvictAll(deleted, saved) ==
    /\ entry' = [entry EXCEPT !.stale = TRUE]
    /\ listed' = FALSE
    /\ saving' = (saving \/ listed)
    /\ index' = IF saved THEN NoEntry ELSE index
    /\ evicted' = IF saved THEN "saved" ELSE "pending"
    /\ IF deleted /\ disk # "absent" THEN ChangeFile("absent") ELSE UNCHANGED file

(* The destructor saves, a crash does not; then Load.                      *)
Restart(orderly) ==
    /\ index' = IF orderly THEN Indexed ELSE index
    /\ entry' = index' /\ listed' = (index' # NoEntry)
    /\ saving' = FALSE
    /\ evicted' = IF evicted = "pending" THEN IF orderly THEN "saved" ELSE "no" ELSE evicted
=============================================================================
