------------------------- MODULE InstanceList_proofs -------------------------
(***************************************************************************)
(* Proofs about the two modules of InstanceList.cpp.  The instance list    *)
(* and its groups, for any folders, groups, bounds and other folders: what *)
(* is saved comes back, an instance gets the group it is made for, and the *)
(* counts of the groups stay right.  The staging wrapper, for every        *)
(* back-off series and every number of commits: BackoffOK is inductive     *)
(* together with Wrapped, which relates the states of the wrapper, its     *)
(* child and the staging folder.                                           *)
(***************************************************************************)
EXTENDS InstanceGroups, InstanceStaging, SequenceTheorems, FiniteSetTheorems, TLAPS


(* The group file says the same as the list of every instance that was     *)
(* listed at the last save, or the list has not looked into it and has     *)
(* nothing of its own to say.                                              *)
Agrees(id) ==
    /\ file.group[id] = group[id] \/ (~loaded /\ group[id] = Ungrouped /\ collapsed = {})
    /\ file.group[id] = group[id] => (group[id] \in collapsed <=> group[id] \in file.hidden)

Saved == fileState = "good" => \A id \in listed \ unsaved : Agrees(id)

IInv == TypeOK /\ Saved

Files == [group : [Ids -> Names], hidden : SUBSET Groups]

(* The types of what saving and what reading a file changes.               *)
DiskTyped == fileState \in {"none", "bad", "good"} /\ file \in Files /\ unsaved \subseteq Ids
MemoryTyped ==
    group \in [Ids -> Names] /\ refs \in [Groups -> Nat] /\ collapsed \subseteq Groups
    /\ loaded \in BOOLEAN
ListTyped == folders \subseteq Ids /\ listed \subseteq Ids
TrashTyped == trash \in Seq(Entries) /\ Len(trash) <= MaxTrash

LEMMA TypeParts == TypeOK <=> DiskTyped /\ MemoryTyped /\ ListTyped /\ TrashTyped
BY DEF TypeOK, DiskTyped, MemoryTyped, ListTyped, TrashTyped, Files

LEMMA TypePartsNext == TypeOK' <=> DiskTyped' /\ MemoryTyped' /\ ListTyped' /\ TrashTyped'
BY DEF TypeOK, DiskTyped, MemoryTyped, ListTyped, TrashTyped, Files

-----------------------------------------------------------------------------
(* Counting.                                                               *)

LEMMA MembersFinite ==
    ASSUME NEW index, NEW g
    PROVE  /\ IsFiniteSet(Members(index, g)) /\ Cardinality(Members(index, g)) \in Nat
           /\ Members(index, g) \subseteq Ids
<1>1. Members(index, g) \subseteq Ids
    BY DEF Members
<1>2. IsFiniteSet(Ids)
    BY GroupsAssumption
<1>3. IsFiniteSet(Members(index, g))
    BY <1>1, <1>2, FS_Subset
<1> QED
    BY <1>1, <1>3, FS_CardinalityType

LEMMA CountTyped ==
    ASSUME NEW index PROVE Count(index) \in [Groups -> Nat]
BY MembersFinite DEF Count

LEMMA CountersTyped ==
    ASSUME NEW r \in [Groups -> Nat], NEW g
    PROVE  Increase(r, g) \in [Groups -> Nat] /\ Decrease(r, g) \in [Groups -> Nat]
BY DEF Increase, Decrease

(* One instance more in a group, or one less, is one more or less to count.*)
LEMMA CountMoved ==
    ASSUME NEW index \in [Ids -> Names], NEW id \in Ids, NEW g \in Names
    PROVE  Count([index EXCEPT ![id] = g]) = Increase(Decrease(Count(index), index[id]), g)
<1> DEFINE moved == [index EXCEPT ![id] = g]
<1>1. ASSUME NEW h \in Groups
      PROVE  Count(moved)[h] = Increase(Decrease(Count(index), index[id]), g)[h]
  <2> DEFINE before == Members(index, h)
             after == Members(moved, h)
  <2>1. /\ Count(moved)[h] = Cardinality(after) /\ Count(index)[h] = Cardinality(before)
        /\ Increase(Decrease(Count(index), index[id]), g)[h] =
             (IF h = index[id] /\ Cardinality(before) > 0
              THEN Cardinality(before) - 1 ELSE Cardinality(before))
             + (IF h = g THEN 1 ELSE 0)
    <3>1. Count(index)[h] = Cardinality(before) /\ Cardinality(before) \in Nat
        BY MembersFinite DEF Count
    <3>2. Count(moved)[h] = Cardinality(after)
        BY DEF Count
    <3>3. Decrease(Count(index), index[id])[h] =
            IF h = index[id] /\ Cardinality(before) > 0
            THEN Cardinality(before) - 1 ELSE Cardinality(before)
        BY <3>1 DEF Decrease
    <3> QED
        BY <3>1, <3>2, <3>3 DEF Increase
  <2>2. IsFiniteSet(before) /\ Cardinality(before) \in Nat
      BY MembersFinite
  <2>3. \A i \in Ids : moved[i] = IF i = id THEN g ELSE index[i]
      OBVIOUS
  <2>4. CASE h = index[id] /\ h = g
    <3>1. after = before
        BY <2>3, <2>4 DEF Members
    <3>2. id \in before
        BY <2>4 DEF Members
    <3>3. Cardinality(before) # 0
        BY <2>2, <3>2, FS_EmptySet
    <3> QED
        BY <2>1, <2>2, <2>4, <3>1, <3>3
  <2>5. CASE h = index[id] /\ h # g
    <3>1. after = before \ {id}
        BY <2>3, <2>5 DEF Members
    <3>2. id \in before
        BY <2>5 DEF Members
    <3>3. Cardinality(before \ {id}) = Cardinality(before) - 1
        BY <2>2, <3>2, FS_RemoveElement
    <3>4. Cardinality(before) # 0
        BY <2>2, <3>2, FS_EmptySet
    <3>5. Count(moved)[h] = Cardinality(before) - 1
        BY <2>1, <3>1, <3>3
    <3>6. Cardinality(before) > 0
        BY <2>2, <3>4
    <3>7. Increase(Decrease(Count(index), index[id]), g)[h] = Cardinality(before) - 1 + 0
        BY <2>1, <2>5, <3>6
    <3> QED
        BY <2>2, <3>5, <3>7
  <2>6. CASE h # index[id] /\ h = g
    <3>1. after = before \cup {id}
        BY <2>3, <2>6 DEF Members
    <3>2. id \notin before
        BY <2>6 DEF Members
    <3>3. Cardinality(before \cup {id}) = Cardinality(before) + 1
        BY <2>2, <3>2, FS_AddElement
    <3> QED
        BY <2>1, <2>2, <2>6, <3>1, <3>3
  <2>7. CASE h # index[id] /\ h # g
    <3>1. after = before
        BY <2>3, <2>7 DEF Members
    <3> QED
        BY <2>1, <2>2, <2>7, <3>1
  <2> QED
      BY <2>4, <2>5, <2>6, <2>7
<1> HIDE DEF moved
<1>2. Count(moved) \in [Groups -> Nat] /\ Count(index) \in [Groups -> Nat]
    BY CountTyped
<1>3. Increase(Decrease(Count(index), index[id]), g) \in [Groups -> Nat]
    BY <1>2, CountersTyped
<1>4. Count(moved) = Increase(Decrease(Count(index), index[id]), g)
    BY <1>1, <1>2, <1>3
<1> QED
    BY <1>4 DEF moved

(* No instance was counted for no group.                                   *)
LEMMA UngroupedUncounted ==
    ASSUME NEW r \in [Groups -> Nat]
    PROVE  Increase(r, Ungrouped) = r /\ Decrease(r, Ungrouped) = r
<1>1. \A h \in Groups : h # Ungrouped
    BY GroupsAssumption
<1> QED
    BY <1>1 DEF Increase, Decrease

-----------------------------------------------------------------------------
(* Types.                                                                  *)

LEMMA SaveTyped ==
    ASSUME DiskTyped, NEW index \in [Ids -> Names], NEW ids, NEW hidden \in SUBSET Groups,
           NEW late \in SUBSET Ids, Save(index, ids, hidden, late)
    PROVE  DiskTyped'
<1>1. CASE /\ fileState' = "good" /\ unsaved' = late
           /\ file' = [group |-> [id \in Ids |-> IF id \in ids THEN index[id] ELSE Ungrouped],
                       hidden |-> {g \in hidden : Members(index, g) \cap ids # {}}]
  <2>1. [id \in Ids |-> IF id \in ids THEN index[id] ELSE Ungrouped] \in [Ids -> Names]
      BY DEF Names
  <2> QED
      BY <1>1, <2>1 DEF DiskTyped, Files
<1>2. CASE UNCHANGED disk /\ unsaved' = Ids
    BY <1>2 DEF disk, DiskTyped
<1> QED
    BY <1>1, <1>2 DEF Save

LEMMA LoadTyped ==
    ASSUME MemoryTyped, NEW index \in [Ids -> Names], NEW r \in [Groups -> Nat],
           NEW contents \in Files, NEW ids \in SUBSET Ids, NEW found,
           LoadList(ids, index, r, found, contents)
    PROVE  MemoryTyped' /\ listed' \subseteq Ids
<1>1. contents.group \in [Ids -> Names] /\ contents.hidden \subseteq Groups
    BY DEF Files
<1>2. CASE group' = index /\ refs' = r /\ UNCHANGED <<collapsed, loaded>>
    BY <1>2 DEF LoadList, MemoryTyped
<1>3. CASE LoadGroups(contents)
    BY <1>1, <1>3, CountTyped DEF LoadList, LoadGroups, MemoryTyped
<1> QED
    BY <1>2, <1>3 DEF LoadList

LEMMA RegroupedTyped ==
    ASSUME MemoryTyped, NEW id \in Ids, NEW g \in Names
    PROVE  [group EXCEPT ![id] = g] \in [Ids -> Names] /\ group[id] \in Names
BY DEF MemoryTyped

LEMMA SetInstanceGroupTyped ==
    ASSUME TypeOK, NEW id \in Ids, NEW g \in Names, SetInstanceGroup(id, g)
    PROVE  TypeOK'
<1>1. DiskTyped /\ MemoryTyped /\ ListTyped /\ TrashTyped
    BY TypeParts
<1>2. /\ group' \in [Ids -> Names]
      /\ refs' = Increase(Decrease(refs, group[id]), g)
      /\ collapsed' \subseteq Groups /\ loaded' = loaded
    BY <1>1, RegroupedTyped DEF SetInstanceGroup, StillCollapsed, MemoryTyped
<1>3. MemoryTyped'
    BY <1>1, <1>2, CountersTyped DEF MemoryTyped
<1>4. DiskTyped'
  <2>1. Save(group', listed, collapsed', {}) /\ collapsed' \in SUBSET Groups /\ {} \in SUBSET Ids
      BY <1>2 DEF SetInstanceGroup
  <2> QED
      BY <1>1, <1>2, <2>1, SaveTyped
<1>5. ListTyped' /\ TrashTyped'
    BY <1>1 DEF SetInstanceGroup, ListTyped, TrashTyped
<1> QED
    BY <1>3, <1>4, <1>5, TypePartsNext

LEMMA RegroupTyped ==
    ASSUME TypeOK, NEW g \in Groups, NEW new \in Names, Regroup(g, new),
           refs' \in [Groups -> Nat], collapsed' \in SUBSET Groups
    PROVE  TypeOK'
<1>1. DiskTyped /\ MemoryTyped /\ ListTyped /\ TrashTyped
    BY TypeParts
<1>2. group' \in [Ids -> Names] /\ loaded' = loaded
    BY <1>1 DEF Regroup, MemoryTyped
<1>3. MemoryTyped'
    BY <1>1, <1>2 DEF MemoryTyped
<1>4. DiskTyped'
    BY <1>1, <1>2, SaveTyped DEF Regroup
<1>5. ListTyped' /\ TrashTyped'
    BY <1>1 DEF Regroup, ListTyped, TrashTyped
<1> QED
    BY <1>3, <1>4, <1>5, TypePartsNext

LEMMA DeleteGroupTyped ==
    ASSUME TypeOK, NEW g \in Groups, DeleteGroup(g) PROVE TypeOK'
<1>1. refs' \in [Groups -> Nat] /\ collapsed' \in SUBSET Groups
    BY DEF DeleteGroup, TypeOK
<1>2. Ungrouped \in Names /\ Regroup(g, Ungrouped)
    BY DEF Names, DeleteGroup
<1> QED
    BY <1>1, <1>2, RegroupTyped

LEMMA RenameGroupTyped ==
    ASSUME TypeOK, NEW src \in Groups, NEW dst \in Groups, RenameGroup(src, dst)
    PROVE  TypeOK'
<1>1. Cardinality(Members(group, src) \cap listed) \in Nat
  <2>1. IsFiniteSet(Members(group, src))
      BY MembersFinite
  <2>2. Members(group, src) \cap listed \subseteq Members(group, src)
      OBVIOUS
  <2> QED
      BY <2>1, <2>2, FS_Subset, FS_CardinalityType
<1>2. refs' \in [Groups -> Nat]
    BY <1>1 DEF RenameGroup, TypeOK
<1>3. collapsed' \in SUBSET Groups
    BY DEF RenameGroup, TypeOK
<1>4. dst \in Names /\ Regroup(src, dst)
    BY DEF Names, RenameGroup
<1> QED
    BY <1>2, <1>3, <1>4, RegroupTyped

LEMMA GroupStateChangedTyped ==
    ASSUME TypeOK, NEW g \in Groups, GroupStateChanged(g) PROVE TypeOK'
<1>1. DiskTyped /\ MemoryTyped /\ ListTyped /\ TrashTyped
    BY TypeParts
<1>2. collapsed' \subseteq Groups /\ UNCHANGED <<group, refs, loaded>>
    BY <1>1 DEF GroupStateChanged, MemoryTyped
<1>3. MemoryTyped' /\ group \in [Ids -> Names]
    BY <1>1, <1>2 DEF MemoryTyped
<1>4. DiskTyped'
    BY <1>1, <1>2, <1>3, SaveTyped DEF GroupStateChanged
<1>5. ListTyped' /\ TrashTyped'
    BY <1>1 DEF GroupStateChanged, ListTyped, TrashTyped
<1> QED
    BY <1>3, <1>4, <1>5, TypePartsNext

LEMMA UngroupTyped ==
    ASSUME TypeOK, NEW id \in Ids, Ungroup(id), folders' \subseteq Ids, TrashTyped'
    PROVE  TypeOK'
<1>1. DiskTyped /\ MemoryTyped /\ ListTyped
    BY TypeParts
<1>2. Ungrouped \in Names
    BY DEF Names
<1>3. /\ group' \in [Ids -> Names]
      /\ refs' = Decrease(refs, group[id])
      /\ collapsed' \subseteq Groups /\ loaded' = loaded /\ listed' = listed
    BY <1>1, <1>2, RegroupedTyped DEF Ungroup, StillCollapsed, MemoryTyped
<1>4. MemoryTyped'
    BY <1>1, <1>3, CountersTyped DEF MemoryTyped
<1>5. DiskTyped'
  <2>1. Save(group', listed, collapsed', {}) /\ collapsed' \in SUBSET Groups /\ {} \in SUBSET Ids
      BY <1>3 DEF Ungroup
  <2> QED
      BY <1>1, <1>3, <2>1, SaveTyped
<1>6. ListTyped'
    BY <1>1, <1>3 DEF ListTyped
<1> QED
    BY <1>4, <1>5, <1>6, TypePartsNext

LEMMA TrashInstanceTyped ==
    ASSUME TypeOK, NEW id \in Ids, TrashInstance(id) PROVE TypeOK'
<1> DEFINE item == [id |-> id, group |-> group[id], here |-> TRUE]
<1>1. item \in Entries
  <2>1. group[id] \in Names
      BY DEF TypeOK
  <2> QED
      BY <2>1 DEF Entries
<1>2. trash' = <<item>> \o trash /\ Len(trash) < MaxTrash
    BY DEF TrashInstance
<1> HIDE DEF item
<1>3. TrashTyped'
  <2>1. trash \in Seq(Entries) /\ MaxTrash \in Nat
      BY GroupsAssumption DEF TypeOK
  <2>2. <<item>> \in Seq(Entries) /\ Len(<<item>>) = 1
      BY <1>1
  <2>3. <<item>> \o trash \in Seq(Entries) /\ Len(<<item>> \o trash) = 1 + Len(trash)
      BY <2>1, <2>2, ConcatProperties
  <2>4. Len(trash) \in Nat
      BY <2>1, LenProperties
  <2> QED
      BY <1>2, <2>1, <2>3, <2>4 DEF TrashTyped
<1>4. Ungroup(id) /\ folders' \subseteq Ids
    BY DEF TrashInstance, TypeOK
<1> QED
    BY <1>3, <1>4, UngroupTyped

LEMMA DeleteInstanceTyped ==
    ASSUME TypeOK, NEW id \in Ids, DeleteInstance(id) PROVE TypeOK'
<1>1. Ungroup(id) /\ folders' \subseteq Ids /\ TrashTyped'
    BY DEF DeleteInstance, TypeOK, TrashTyped
<1> QED
    BY <1>1, UngroupTyped

(* What a restored folder is called.                                       *)
FreeNames(top) ==
    IF ~top.here THEN Ids ELSE IF top.id \in folders THEN Ids \ folders ELSE {top.id}

(* Taking back from the trash, one fact at a time.                         *)
LEMMA UndoEffect ==
    ASSUME TypeOK, UndoTrashInstance
    PROVE  /\ trash # <<>> /\ Head(trash) \in Entries /\ trash' = Tail(trash)
           /\ \E id \in FreeNames(Head(trash)) :
                /\ id \in Ids
                /\ \/ folders' = folders
                   \/ Head(trash).here /\ folders' = folders \cup {id}
                /\ Save([group EXCEPT ![id] = Head(trash).group], listed, collapsed,
                        folders' \ listed)
                /\ LoadList(folders', [group EXCEPT ![id] = Head(trash).group],
                            Increase(refs, Head(trash).group), fileState', file')
<1>1. trash # <<>> /\ trash' = Tail(trash) /\ trash \in Seq(Entries)
    BY DEF UndoTrashInstance, TypeOK
<1>2. Head(trash) \in Entries
    BY <1>1, HeadTailProperties
<1>3. Head(trash).id \in Ids
    BY <1>2 DEF Entries
<1>4. FreeNames(Head(trash)) \subseteq Ids
    BY <1>3 DEF FreeNames
<1> QED
    BY <1>1, <1>2, <1>4 DEF UndoTrashInstance, FreeNames

LEMMA UndoTyped == ASSUME TypeOK, UndoTrashInstance PROVE TypeOK'
<1>1. DiskTyped /\ MemoryTyped /\ ListTyped /\ TrashTyped
    BY TypeParts
<1>2. trash # <<>> /\ Head(trash) \in Entries /\ trash' = Tail(trash)
    BY UndoEffect
<1>3. PICK id \in FreeNames(Head(trash)) :
        /\ id \in Ids
        /\ \/ folders' = folders
           \/ Head(trash).here /\ folders' = folders \cup {id}
        /\ Save([group EXCEPT ![id] = Head(trash).group], listed, collapsed,
                folders' \ listed)
        /\ LoadList(folders', [group EXCEPT ![id] = Head(trash).group],
                    Increase(refs, Head(trash).group), fileState', file')
    BY UndoEffect
<1>4. Head(trash).group \in Names
    BY <1>2 DEF Entries
<1>5. [group EXCEPT ![id] = Head(trash).group] \in [Ids -> Names]
    BY <1>1, <1>3, <1>4, RegroupedTyped
<1>6. Increase(refs, Head(trash).group) \in [Groups -> Nat]
    BY <1>1, CountersTyped DEF MemoryTyped
<1>7. folders' \in SUBSET Ids /\ folders' \ listed \in SUBSET Ids /\ collapsed \in SUBSET Groups
    BY <1>1, <1>3 DEF ListTyped, MemoryTyped
<1>8. DiskTyped'
    BY <1>1, <1>3, <1>5, <1>7, SaveTyped
<1>9. file' \in Files
    BY <1>8 DEF DiskTyped
<1>10. MemoryTyped' /\ listed' \subseteq Ids
    BY <1>1, <1>3, <1>5, <1>6, <1>7, <1>9, LoadTyped
<1>11. ListTyped'
    BY <1>7, <1>10 DEF ListTyped
<1>12. TrashTyped'
  <2>1. trash \in Seq(Entries) /\ Len(trash) <= MaxTrash /\ MaxTrash \in Nat
      BY <1>1, GroupsAssumption DEF TrashTyped
  <2>2. Tail(trash) \in Seq(Entries) /\ Len(Tail(trash)) = Len(trash) - 1
      BY <1>2, <2>1, HeadTailProperties
  <2>3. Len(trash) \in Nat
      BY <2>1, LenProperties
  <2> QED
      BY <1>2, <2>1, <2>2, <2>3 DEF TrashTyped
<1> QED
    BY <1>8, <1>10, <1>11, <1>12, TypePartsNext

LEMMA CommitTyped ==
    ASSUME TypeOK, NEW id \in Ids, NEW g \in Names, Commit(id, g) PROVE TypeOK'
<1>1. DiskTyped /\ MemoryTyped /\ ListTyped /\ TrashTyped
    BY TypeParts
<1>2. folders' \in SUBSET Ids /\ {} \in SUBSET Ids
    BY <1>1 DEF Commit, ListTyped
<1>3. [group EXCEPT ![id] = g] \in [Ids -> Names] /\ Increase(refs, g) \in [Groups -> Nat]
    BY <1>1, RegroupedTyped, CountersTyped DEF MemoryTyped
<1>4. MemoryTyped' /\ listed' \subseteq Ids
  <2>1. file \in Files
      BY <1>1 DEF DiskTyped
  <2> QED
      BY <1>1, <1>2, <1>3, <2>1, LoadTyped DEF Commit
<1>5. DiskTyped'
  <2>1. group' \in [Ids -> Names] /\ collapsed' \in SUBSET Groups
      BY <1>4 DEF MemoryTyped
  <2> QED
      BY <1>1, <1>2, <2>1, SaveTyped DEF Commit
<1>6. ListTyped' /\ TrashTyped'
    BY <1>1, <1>2, <1>4 DEF Commit, ListTyped, TrashTyped
<1> QED
    BY <1>4, <1>5, <1>6, TypePartsNext

LEMMA CommitOverrideTyped ==
    ASSUME TypeOK, NEW id \in Ids, CommitOverride(id) PROVE TypeOK'
<1>1. DiskTyped /\ MemoryTyped /\ ListTyped /\ TrashTyped
    BY TypeParts
<1>2. folders' \in SUBSET Ids /\ {} \in SUBSET Ids
    BY <1>1 DEF CommitOverride, ListTyped
<1>3. MemoryTyped' /\ listed' \subseteq Ids
  <2>1. file \in Files /\ group \in [Ids -> Names] /\ refs \in [Groups -> Nat]
      BY <1>1 DEF DiskTyped, MemoryTyped
  <2> QED
      BY <1>1, <1>2, <2>1, LoadTyped DEF CommitOverride
<1>4. DiskTyped'
  <2>1. group' \in [Ids -> Names] /\ collapsed' \in SUBSET Groups
      BY <1>3 DEF MemoryTyped
  <2> QED
      BY <1>1, <1>2, <2>1, SaveTyped DEF CommitOverride
<1>5. ListTyped' /\ TrashTyped'
    BY <1>1, <1>2, <1>3 DEF CommitOverride, ListTyped, TrashTyped
<1> QED
    BY <1>3, <1>4, <1>5, TypePartsNext

LEMMA DirectoryChangedTyped == ASSUME TypeOK, DirectoryChanged PROVE TypeOK'
<1>1. DiskTyped /\ MemoryTyped /\ ListTyped /\ TrashTyped
    BY TypeParts
<1>2. MemoryTyped' /\ listed' \subseteq Ids
  <2>1. file \in Files /\ group \in [Ids -> Names] /\ refs \in [Groups -> Nat]
        /\ folders \in SUBSET Ids
      BY <1>1 DEF DiskTyped, MemoryTyped, ListTyped
  <2> QED
      BY <1>1, <2>1, LoadTyped DEF DirectoryChanged
<1>3. DiskTyped' /\ ListTyped' /\ TrashTyped'
    BY <1>1, <1>2 DEF DirectoryChanged, DiskTyped, ListTyped, TrashTyped, disk
<1> QED
    BY <1>2, <1>3, TypePartsNext

(* What another folder holds is a folder's.                                *)
LEMMA InstFolderChangedTyped ==
    ASSUME TypeOK, NEW to \in Elsewhere, InstFolderChanged(to) PROVE TypeOK'
<1>1. MemoryTyped /\ TrashTyped
    BY TypeParts
<1>2. to.ids \subseteq Ids /\ to.state \in {"none", "bad", "good"} /\ to.file \in Files
    BY GroupsAssumption DEF Files, Names
<1>3. DiskTyped' /\ ListTyped'
    BY <1>2 DEF InstFolderChanged, DiskTyped, ListTyped
<1>4. MemoryTyped'
  <2>1. CASE UNCHANGED <<group, refs, collapsed>> /\ loaded' = FALSE
      BY <1>1, <2>1 DEF MemoryTyped
  <2>2. CASE LoadGroups(to.file)
    <3>1. to.file.group \in [Ids -> Names] /\ to.file.hidden \subseteq Groups
        BY <1>2 DEF Files
    <3> QED
        BY <1>1, <2>2, <3>1, CountTyped DEF LoadGroups, MemoryTyped
  <2> QED
      BY <2>1, <2>2 DEF InstFolderChanged
<1>5. TrashTyped'
  <2>1. trash \in Seq(Entries) /\ Len(trash) <= MaxTrash
      BY <1>1 DEF TrashTyped
  <2>2. Len(trash) \in Nat /\ DOMAIN trash = 1..Len(trash)
        /\ \A i \in 1..Len(trash) : trash[i] \in Entries
      BY <2>1, LenProperties, ElementOfSeq
  <2>3. trash' = [i \in 1..Len(trash) |-> [trash[i] EXCEPT !.here = FALSE]]
      BY <2>2 DEF InstFolderChanged
  <2>4. \A i \in 1..Len(trash) : [trash[i] EXCEPT !.here = FALSE] \in Entries
      BY <2>2 DEF Entries
  <2>5. trash' \in [1..Len(trash) -> Entries]
      BY <2>3, <2>4
  <2>6. trash' \in Seq(Entries)
      BY <2>2, <2>5, SeqDef
  <2>7. Len(trash') = Len(trash)
      BY <2>2, <2>5, <2>6, LenProperties
  <2> QED
      BY <2>1, <2>6, <2>7 DEF TrashTyped
<1> QED
    BY <1>3, <1>4, <1>5, TypePartsNext

LEMMA NoGroupsTyped == NoGroups \in [Ids -> Names]
BY DEF NoGroups, Names

LEMMA EmptyTrash == <<>> \in Seq(Entries) /\ Len(<<>>) <= MaxTrash
<1>1. MaxTrash \in Nat
    BY GroupsAssumption
<1> QED
    BY <1>1, EmptySeq

LEMMA RestartTyped == ASSUME TypeOK, Restart PROVE TypeOK'
<1>1. DiskTyped /\ MemoryTyped /\ ListTyped
    BY TypeParts
<1>2. DiskTyped' /\ ListTyped'
    BY <1>1 DEF Restart, DiskTyped, ListTyped, disk
<1>3. TrashTyped'
    BY EmptyTrash DEF Restart, TrashTyped
<1>4. MemoryTyped'
  <2>1. file.group \in [Ids -> Names] /\ file.hidden \subseteq Groups
      BY <1>1 DEF DiskTyped, Files
  <2> QED
      BY <2>1, NoGroupsTyped, CountTyped DEF Restart, MemoryTyped
<1> QED
    BY <1>2, <1>3, <1>4, TypePartsNext

LEMMA NextTyped == TypeOK /\ [Next]_vars => TypeOK'
<1> SUFFICES ASSUME TypeOK, [Next]_vars PROVE TypeOK'
    OBVIOUS
<1>1. CASE \E id \in Ids, g \in Names : SetInstanceGroup(id, g) \/ Commit(id, g)
    BY <1>1, SetInstanceGroupTyped, CommitTyped
<1>2. CASE \E g \in Groups : DeleteGroup(g) \/ GroupStateChanged(g)
    BY <1>2, DeleteGroupTyped, GroupStateChangedTyped
<1>3. CASE \E src, dst \in Groups : RenameGroup(src, dst)
    BY <1>3, RenameGroupTyped
<1>4. CASE \E id \in Ids : TrashInstance(id) \/ DeleteInstance(id) \/ CommitOverride(id)
    BY <1>4, TrashInstanceTyped, DeleteInstanceTyped, CommitOverrideTyped
<1>5. CASE \E id \in Ids : Appears(id) \/ Vanishes(id)
    BY <1>5 DEF Appears, Vanishes, TypeOK, disk, memory
<1>6. CASE UndoTrashInstance
    BY <1>6, UndoTyped
<1>7. CASE DirectoryChanged \/ Restart
    BY <1>7, DirectoryChangedTyped, RestartTyped
<1>8. CASE \E to \in Elsewhere : InstFolderChanged(to)
    BY <1>8, InstFolderChangedTyped
<1>9. CASE UNCHANGED vars
    BY <1>9 DEF vars, disk, memory, TypeOK
<1> QED
    BY <1>1, <1>2, <1>3, <1>4, <1>5, <1>6, <1>7, <1>8, <1>9 DEF Next

LEMMA InitTyped == Init => TypeOK
<1> SUFFICES ASSUME Init PROVE TypeOK
    OBVIOUS
<1>1. MemoryTyped
    BY NoGroupsTyped, CountTyped DEF Init, MemoryTyped
<1>2. DiskTyped
    BY NoGroupsTyped DEF Init, DiskTyped, Files
<1>3. ListTyped /\ TrashTyped
    BY EmptyTrash DEF Init, ListTyped, TrashTyped
<1> QED
    BY <1>1, <1>2, <1>3, TypeParts

(* Folders, memory, file and trash keep their types.                       *)
THEOREM TypeCorrect == Spec => []TypeOK
BY InitTyped, NextTyped, PTL DEF Spec

-----------------------------------------------------------------------------
(* What the group file says.                                               *)

(* A save that worked has written what the list says.                      *)
LEMMA Written ==
    ASSUME NEW index \in [Ids -> Names], NEW ids, NEW hidden, NEW late \in SUBSET Ids,
           Save(index, ids, hidden, late),
           NEW id \in Ids, id \in ids, id \notin unsaved'
    PROVE  /\ file'.group[id] = index[id]
           /\ index[id] \in hidden <=> index[id] \in file'.hidden
<1>1. /\ file' = [group |-> [i \in Ids |-> IF i \in ids THEN index[i] ELSE Ungrouped],
                  hidden |-> {g \in hidden : Members(index, g) \cap ids # {}}]
    BY DEF Save
<1>2. id \in Members(index, index[id]) \cap ids
    BY DEF Members
<1> QED
    BY <1>1, <1>2

LEMMA SaveAgrees ==
    ASSUME NEW ids, NEW late \in SUBSET Ids, group' \in [Ids -> Names],
           Save(group', ids, collapsed', late), listed' \subseteq Ids, listed' \ late \subseteq ids
    PROVE  Saved'
<1> SUFFICES ASSUME NEW id \in listed' \ unsaved' PROVE Agrees(id)'
    BY DEF Saved
<1>1. id \in Ids /\ unsaved' # Ids
    OBVIOUS
<1>2. unsaved' = late
    BY <1>1 DEF Save
<1>3. id \in ids
    BY <1>2
<1>4. file'.group[id] = group'[id] /\ (group'[id] \in collapsed' <=> group'[id] \in file'.hidden)
    BY <1>1, <1>3, Written
<1> QED
    BY <1>4 DEF Agrees

LEMMA SetInstanceGroupSaved ==
    ASSUME IInv, TypeOK', NEW id \in Ids, NEW g \in Names, SetInstanceGroup(id, g)
    PROVE  Saved'
<1>1. Save(group', listed, collapsed', {}) /\ listed' = listed /\ {} \in SUBSET Ids
    BY DEF SetInstanceGroup
<1> QED
    BY <1>1, SaveAgrees DEF TypeOK

LEMMA RegroupSaved ==
    ASSUME IInv, TypeOK', NEW g, NEW new, Regroup(g, new)
    PROVE  Saved'
<1>1. Save(group', listed, collapsed', {}) /\ listed' = listed /\ {} \in SUBSET Ids
    BY DEF Regroup
<1> QED
    BY <1>1, SaveAgrees DEF TypeOK

LEMMA GroupStateChangedSaved ==
    ASSUME IInv, TypeOK', NEW g, GroupStateChanged(g)
    PROVE  Saved'
<1>1. Save(group', listed, collapsed', {}) /\ listed' = listed /\ {} \in SUBSET Ids
    BY DEF GroupStateChanged
<1> QED
    BY <1>1, SaveAgrees DEF TypeOK

LEMMA UngroupSaved ==
    ASSUME IInv, TypeOK', NEW id, Ungroup(id)
    PROVE  Saved'
<1>1. Save(group', listed, collapsed', {}) /\ listed' = listed /\ {} \in SUBSET Ids
    BY DEF Ungroup
<1> QED
    BY <1>1, SaveAgrees DEF TypeOK

LEMMA CommitSaved ==
    ASSUME IInv, TypeOK', NEW id, NEW g, Commit(id, g) \/ CommitOverride(id)
    PROVE  Saved'
<1>1. Save(group', listed', collapsed', {}) /\ {} \in SUBSET Ids
    BY DEF Commit, CommitOverride
<1> QED
    BY <1>1, SaveAgrees DEF TypeOK

(* The file is written before it is read: it says what the list says.      *)
LEMMA UndoSaved == ASSUME IInv, TypeOK', UndoTrashInstance PROVE Saved'
<1>1. TypeOK /\ group \in [Ids -> Names] /\ folders' \subseteq Ids /\ listed \subseteq Ids
    BY DEF IInv, TypeOK
<1>2. PICK id \in Ids :
        /\ Save([group EXCEPT ![id] = Head(trash).group], listed, collapsed, folders' \ listed)
        /\ LoadList(folders', [group EXCEPT ![id] = Head(trash).group],
                    Increase(refs, Head(trash).group), fileState', file')
    BY <1>1, UndoEffect
<1> DEFINE index == [group EXCEPT ![id] = Head(trash).group]
           late == folders' \ listed
<1>3. index \in [Ids -> Names]
  <2>1. Head(trash).group \in Names
      BY <1>1, UndoEffect DEF Entries
  <2> QED
      BY <1>1, <2>1
<1>4. late \in SUBSET Ids /\ listed' = folders' /\ listed' \ late \subseteq listed
    BY <1>1, <1>2 DEF LoadList
<1>5. Save(index, listed, collapsed, late)
    BY <1>2
<1>6. CASE group' = index /\ UNCHANGED <<collapsed, loaded>>
  <2>1. Save(group', listed, collapsed', late) /\ listed' \subseteq Ids
      BY <1>1, <1>4, <1>5, <1>6
  <2> QED
      BY <1>3, <1>4, <1>6, <2>1, SaveAgrees
<1>7. CASE LoadGroups(file')
  <2>1. group' = file'.group /\ collapsed' = collapsed \cup file'.hidden
      BY <1>7 DEF LoadGroups
  <2> SUFFICES ASSUME NEW i \in listed' \ unsaved' PROVE Agrees(i)'
      BY DEF Saved
  <2>2. i \in Ids /\ unsaved' # Ids
      BY <1>1, <1>4
  <2>3. unsaved' = late
      BY <1>5, <2>2 DEF Save
  <2>4. i \in listed
      BY <1>4, <2>3
  <2>5. file'.group[i] = index[i] /\ (index[i] \in collapsed <=> index[i] \in file'.hidden)
      BY <1>3, <1>4, <1>5, <2>2, <2>4, Written
  <2> QED
      BY <2>1, <2>5 DEF Agrees
<1> QED
    BY <1>2, <1>6, <1>7 DEF LoadList

LEMMA DirectoryChangedSaved == ASSUME IInv, TypeOK', DirectoryChanged PROVE Saved'
<1>1. /\ LoadList(folders, group, refs, fileState, file) /\ UNCHANGED <<fileState, file>>
      /\ unsaved' = unsaved \cup (listed' \ listed)
    BY DEF DirectoryChanged, disk
<1> SUFFICES ASSUME fileState = "good", NEW id \in listed' \ unsaved' PROVE Agrees(id)'
    BY <1>1 DEF Saved
<1>2. id \in listed \ unsaved
    BY <1>1
<1>3. Agrees(id)
    BY <1>2 DEF IInv, Saved
<1>4. CASE UNCHANGED <<group, collapsed, loaded>>
    BY <1>1, <1>3, <1>4 DEF Agrees
<1>5. CASE LoadGroups(file)
  <2>1. group' = file.group /\ collapsed' = collapsed \cup file.hidden
      BY <1>5 DEF LoadGroups
  <2>2. CASE file.group[id] = group[id]
      BY <1>1, <1>3, <2>1, <2>2 DEF Agrees
  <2>3. CASE collapsed = {}
      BY <1>1, <2>1, <2>3 DEF Agrees
  <2> QED
      BY <1>3, <2>2, <2>3 DEF Agrees
<1> QED
    BY <1>1, <1>4, <1>5 DEF LoadList

LEMMA InstFolderChangedSaved ==
    ASSUME IInv, TypeOK', NEW to, InstFolderChanged(to) PROVE Saved'
<1>1. unsaved' = Ids /\ listed' \subseteq Ids
    BY DEF InstFolderChanged, TypeOK
<1> QED
    BY <1>1 DEF Saved

LEMMA RestartSaved == ASSUME IInv, TypeOK', Restart PROVE Saved'
<1>1. UNCHANGED <<fileState, file>> /\ listed' \subseteq Ids
    BY DEF Restart, disk, TypeOK
<1> SUFFICES ASSUME NEW id \in Ids PROVE Agrees(id)'
    BY <1>1 DEF Saved
<1>2. CASE group' = NoGroups /\ collapsed' = {} /\ loaded' = FALSE
  <2>1. group'[id] = Ungrouped
      BY <1>2 DEF NoGroups
  <2>2. Ungrouped \notin file'.hidden
      BY GroupsAssumption DEF TypeOK
  <2> QED
      BY <1>2, <2>1, <2>2 DEF Agrees
<1>3. CASE group' = file.group /\ collapsed' = file.hidden
    BY <1>1, <1>3 DEF Agrees
<1> QED
    BY <1>2, <1>3 DEF Restart

LEMMA OutsideSaved ==
    ASSUME IInv, NEW id, Appears(id) \/ Vanishes(id) \/ UNCHANGED vars
    PROVE  Saved'
<1>1. UNCHANGED <<fileState, file, listed, group, collapsed, loaded, unsaved>>
    BY DEF Appears, Vanishes, vars, disk, memory
<1> QED
    BY <1>1 DEF IInv, Saved, Agrees

LEMMA NextKeeps == IInv /\ [Next]_vars => IInv'
<1> SUFFICES ASSUME IInv, [Next]_vars PROVE IInv'
    OBVIOUS
<1>1. TypeOK'
    BY NextTyped DEF IInv
<1>2. CASE \E id \in Ids, g \in Names : SetInstanceGroup(id, g) \/ Commit(id, g)
    BY <1>1, <1>2, SetInstanceGroupSaved, CommitSaved DEF IInv
<1>3. CASE \E g \in Groups : DeleteGroup(g) \/ GroupStateChanged(g)
    BY <1>1, <1>3, RegroupSaved, GroupStateChangedSaved DEF IInv, DeleteGroup
<1>4. CASE \E src, dst \in Groups : RenameGroup(src, dst)
    BY <1>1, <1>4, RegroupSaved DEF IInv, RenameGroup
<1>5. CASE \E id \in Ids : TrashInstance(id) \/ DeleteInstance(id)
    BY <1>1, <1>5, UngroupSaved DEF IInv, TrashInstance, DeleteInstance
<1>6. CASE \E id \in Ids : CommitOverride(id)
    BY <1>1, <1>6, CommitSaved DEF IInv
<1>7. CASE (\E id \in Ids : Appears(id) \/ Vanishes(id)) \/ UNCHANGED vars
    BY <1>1, <1>7, OutsideSaved DEF IInv
<1>8. CASE UndoTrashInstance \/ DirectoryChanged \/ Restart
    BY <1>1, <1>8, UndoSaved, DirectoryChangedSaved, RestartSaved DEF IInv
<1>9. CASE \E to \in Elsewhere : InstFolderChanged(to)
    BY <1>1, <1>9, InstFolderChangedSaved DEF IInv
<1> QED
    BY <1>2, <1>3, <1>4, <1>5, <1>6, <1>7, <1>8, <1>9 DEF Next

LEMMA InitIInv == Init => IInv
<1> SUFFICES ASSUME Init PROVE IInv
    OBVIOUS
<1>1. fileState # "good"
    BY DEF Init
<1> QED
    BY <1>1, InitTyped DEF IInv, Saved

LEMMA Invariance == Spec => []IInv
BY InitIInv, NextKeeps, PTL DEF Spec

-----------------------------------------------------------------------------
(* Steps.                                                                  *)

(* What a restart that reads the group file brings back is what was there: *)
(* the group of every instance that was listed at the last save, and       *)
(* whether it is collapsed.                                                *)
THEOREM RestartBringsBack == Spec => RestartKeeps
<1>1. ASSUME IInv, [Next]_vars, loaded', Restart, NEW id \in (listed \cap folders) \ unsaved
      PROVE  /\ loaded \/ group[id] # Ungrouped => group'[id] = group[id]
             /\ group[id] \in collapsed <=> group[id] \in collapsed' \cap {group'[id]}
  <2>1. fileState = "good" /\ group' = file.group /\ collapsed' = file.hidden
      BY <1>1 DEF Restart
  <2>2. Agrees(id)
      BY <1>1, <2>1 DEF IInv, Saved
  <2> QED
      BY <2>1, <2>2 DEF Agrees
<1>2. IInv /\ [Next]_vars =>
        [loaded' /\ Restart =>
          \A id \in (listed \cap folders) \ unsaved :
              /\ loaded \/ group[id] # Ungrouped => group'[id] = group[id]
              /\ group[id] \in collapsed <=> group[id] \in collapsed' \cap {group'[id]}]_vars
    BY <1>1
<1> QED
    BY <1>2, Invariance, PTL DEF Spec, RestartKeeps

(* A new instance, and one that is taken back, is in its group.            *)
THEOREM NewInstanceIsGrouped == Spec => GroupSticks
<1>1. ASSUME TypeOK, TypeOK', NEW id \in folders' \ folders, loaded \/ fileState # "good",
             NEW g \in Names, Commit(id, g)
      PROVE  group'[id] = g
  <2>1. group' = [group EXCEPT ![id] = g]
      BY <1>1 DEF Commit, LoadList, NeedsGroups
  <2>2. id \in Ids /\ group \in [Ids -> Names]
      BY <1>1 DEF Commit, TypeOK
  <2> QED
      BY <2>1, <2>2
<1>2. ASSUME TypeOK, NEW id \in folders' \ folders, loaded, UndoTrashInstance
      PROVE  group'[id] = Head(trash).group
  <2>1. PICK i \in Ids :
          /\ folders' = folders \/ folders' = folders \cup {i}
          /\ LoadList(folders', [group EXCEPT ![i] = Head(trash).group],
                      Increase(refs, Head(trash).group), fileState', file')
      BY <1>2, UndoEffect
  <2>2. id = i
      BY <1>2, <2>1
  <2>3. group' = [group EXCEPT ![i] = Head(trash).group]
      BY <1>2, <2>1 DEF LoadList, NeedsGroups
  <2>4. group \in [Ids -> Names]
      BY <1>2 DEF TypeOK
  <2> QED
      BY <2>2, <2>3, <2>4
<1>3. TypeOK /\ [Next]_vars =>
        [\A id \in folders' \ folders :
          /\ loaded \/ fileState # "good" => \A g \in Names : Commit(id, g) => group'[id] = g
          /\ loaded /\ UndoTrashInstance => group'[id] = Head(trash).group]_vars
    BY <1>1, <1>2, NextTyped
<1> QED
    BY <1>3, TypeCorrect, PTL DEF Spec, GroupSticks

-----------------------------------------------------------------------------
(* Counts.                                                                 *)

Counted == Strays = {} /\ refs = Count(group)

LEMMA NoStray ==
    ASSUME Strays = {}, NEW id \in Ids, group[id] # Ungrouped
    PROVE  id \in folders \cap listed
BY DEF Strays

LEMMA LoadCounts ==
    ASSUME NEW index, NEW r, r = Count(index), NEW ids, NEW found, NEW contents,
           LoadList(ids, index, r, found, contents)
    PROVE  refs' = Count(group')
BY DEF LoadList, LoadGroups

LEMMA UngroupCounts ==
    ASSUME TypeOK, Counted, NEW id \in Ids, Ungroup(id) PROVE refs' = Count(group')
<1>1. group \in [Ids -> Names] /\ Ungrouped \in Names
    BY DEF TypeOK, Names
<1>2. Count(group') = Increase(Decrease(refs, group[id]), Ungrouped)
    BY <1>1, CountMoved DEF Ungroup, Counted
<1>3. refs' = Decrease(refs, group[id]) /\ refs' \in [Groups -> Nat]
  <2>1. refs \in [Groups -> Nat]
      BY DEF TypeOK
  <2> QED
      BY <2>1, CountersTyped DEF Ungroup
<1> QED
    BY <1>2, <1>3, UngroupedUncounted

(* An instance without a group gets one.                                   *)
LEMMA GroupedCounts ==
    ASSUME TypeOK, Counted, NEW id \in Ids, id \notin folders, NEW g \in Names
    PROVE  Increase(refs, g) = Count([group EXCEPT ![id] = g])
<1>1. group \in [Ids -> Names] /\ refs \in [Groups -> Nat]
    BY DEF TypeOK
<1>2. group[id] = Ungrouped
    BY NoStray DEF Counted
<1>3. Count([group EXCEPT ![id] = g]) = Increase(Decrease(refs, Ungrouped), g)
    BY <1>1, <1>2, CountMoved DEF Counted
<1> QED
    BY <1>1, <1>3, UngroupedUncounted

LEMMA UndoCounts ==
    ASSUME TypeOK, Counted, UndoTrashInstance, Head(trash).here
    PROVE  refs' = Count(group')
<1>1. PICK id \in FreeNames(Head(trash)) :
        /\ id \in Ids
        /\ LoadList(folders', [group EXCEPT ![id] = Head(trash).group],
                    Increase(refs, Head(trash).group), fileState', file')
    BY UndoEffect
<1>2. id \notin folders
    BY <1>1 DEF FreeNames
<1>3. Head(trash).group \in Names
    BY UndoEffect DEF Entries
<1> QED
    BY <1>1, <1>2, <1>3, GroupedCounts, LoadCounts

LEMMA CommitCounts ==
    ASSUME TypeOK, Counted, NEW id \in Ids, NEW g \in Names, Commit(id, g)
    PROVE  refs' = Count(group')
<1>1. id \notin folders
      /\ LoadList(folders', [group EXCEPT ![id] = g], Increase(refs, g), fileState, file)
    BY DEF Commit
<1> QED
    BY <1>1, GroupedCounts, LoadCounts

(* A group whose instances are given another name, or none.                *)
LEMMA RegroupedMembers ==
    ASSUME TypeOK, Counted, NEW g \in Groups, NEW new \in Names, new # g, Regroup(g, new),
           NEW h \in Groups
    PROVE  Members(group', h) = IF h = g THEN {}
                                ELSE IF h = new THEN Members(group, h) \cup Members(group, g)
                                ELSE Members(group, h)
<1>1. \A id \in Ids : group[id] = g => id \in listed
    BY NoStray, GroupsAssumption DEF Counted
<1>2. \A id \in Ids : group'[id] = IF group[id] = g THEN new ELSE group[id]
    BY <1>1 DEF Regroup
<1> QED
    BY <1>2 DEF Members

LEMMA DeleteGroupCounts ==
    ASSUME TypeOK, Counted, NEW g \in Groups, DeleteGroup(g) PROVE refs' = Count(group')
<1>1. refs \in [Groups -> Nat] /\ refs' = [refs EXCEPT ![g] = 0] /\ Regroup(g, Ungrouped)
    BY DEF TypeOK, DeleteGroup
<1>2. Ungrouped \in Names /\ Ungrouped \notin Groups
    BY GroupsAssumption DEF Names
<1>3. ASSUME NEW h \in Groups PROVE refs'[h] = Count(group')[h]
  <2>1. h # Ungrouped /\ Ungrouped # g
      BY <1>2
  <2>2. Members(group', h) = IF h = g THEN {} ELSE Members(group, h)
      BY <1>1, <1>2, <2>1, RegroupedMembers
  <2>3. refs[h] = Cardinality(Members(group, h))
      BY DEF Counted, Count
  <2>4. Count(group')[h] = Cardinality(Members(group', h))
      BY DEF Count
  <2> QED
      BY <1>1, <2>2, <2>3, <2>4, FS_EmptySet
<1>4. refs' \in [Groups -> Nat] /\ Count(group') \in [Groups -> Nat]
    BY <1>1, CountTyped
<1> QED
    BY <1>3, <1>4

LEMMA RenameGroupCounts ==
    ASSUME TypeOK, Counted, NEW src \in Groups, NEW dst \in Groups, RenameGroup(src, dst)
    PROVE  refs' = Count(group')
<1>1. refs \in [Groups -> Nat] /\ Regroup(src, dst) /\ src # dst /\ refs[dst] = 0
      /\ refs' = [refs EXCEPT ![src] = 0,
                              ![dst] = Cardinality(Members(group, src) \cap listed)]
    BY DEF TypeOK, RenameGroup
<1>2. Members(group, dst) = {}
  <2>1. Cardinality(Members(group, dst)) = 0
      BY <1>1 DEF Counted, Count
  <2> QED
      BY <2>1, MembersFinite, FS_EmptySet
<1>3. Members(group, src) \cap listed = Members(group, src)
  <2>1. \A id \in Ids : group[id] = src => id \in listed
      BY NoStray, GroupsAssumption DEF Counted
  <2> QED
      BY <2>1 DEF Members
<1>4. ASSUME NEW h \in Groups PROVE refs'[h] = Count(group')[h]
  <2>1. dst \in Names
      BY DEF Names
  <2>2. Members(group', h) = IF h = src THEN {}
                             ELSE IF h = dst THEN Members(group, src) ELSE Members(group, h)
      BY <1>1, <1>2, <2>1, RegroupedMembers
  <2>3. refs[h] = Cardinality(Members(group, h))
      BY DEF Counted, Count
  <2>4. Count(group')[h] = Cardinality(Members(group', h))
      BY DEF Count
  <2> QED
      BY <1>1, <1>3, <2>2, <2>3, <2>4, FS_EmptySet
<1>5. refs' \in [Groups -> Nat] /\ Count(group') \in [Groups -> Nat]
  <2>1. Cardinality(Members(group, src)) \in Nat
      BY MembersFinite
  <2> QED
      BY <1>1, <1>3, <2>1, CountTyped
<1> QED
    BY <1>4, <1>5

LEMMA NextCounts ==
    ASSUME TypeOK, Counted, [Next]_vars, UndoTrashInstance => Head(trash).here
    PROVE  refs' = Count(group')
<1>1. CASE \E id \in Ids, g \in Names : SetInstanceGroup(id, g)
  <2>1. PICK id \in Ids, g \in Names : SetInstanceGroup(id, g)
      BY <1>1
  <2>2. group \in [Ids -> Names]
      BY DEF TypeOK
  <2> QED
      BY <2>1, <2>2, CountMoved DEF SetInstanceGroup, Counted
<1>2. CASE \E g \in Groups : DeleteGroup(g)
    BY <1>2, DeleteGroupCounts
<1>3. CASE \E src, dst \in Groups : RenameGroup(src, dst)
    BY <1>3, RenameGroupCounts
<1>4. CASE \E g \in Groups : GroupStateChanged(g)
    BY <1>4 DEF GroupStateChanged, Counted
<1>5. CASE \E id \in Ids : TrashInstance(id) \/ DeleteInstance(id)
    BY <1>5, UngroupCounts DEF TrashInstance, DeleteInstance
<1>6. CASE UndoTrashInstance
    BY <1>6, UndoCounts
<1>7. CASE \E id \in Ids, g \in Names : Commit(id, g)
    BY <1>7, CommitCounts
<1>8. CASE (\E id \in Ids : CommitOverride(id)) \/ DirectoryChanged
    BY <1>8, LoadCounts DEF CommitOverride, DirectoryChanged, Counted
<1>9. CASE (\E id \in Ids : Appears(id) \/ Vanishes(id)) \/ UNCHANGED vars
    BY <1>9 DEF Appears, Vanishes, vars, memory, Counted
<1>10. CASE (\E to \in Elsewhere : InstFolderChanged(to)) \/ Restart
    BY <1>10 DEF InstFolderChanged, Restart, LoadGroups, Counted
<1> QED
    BY <1>1, <1>2, <1>3, <1>4, <1>5, <1>6, <1>7, <1>8, <1>9, <1>10 DEF Next

(* The counts stay right while every entry belongs to a listed instance    *)
(* whose folder is there, unless something is taken back into a folder     *)
(* that is no longer the list's.                                           *)
THEOREM CountsStayRight == Spec => CountsKept
<1>1. TypeOK /\ [Next]_vars =>
        [/\ Strays = {} /\ refs = Count(group)
         /\ UndoTrashInstance => Head(trash).here
         => refs' = Count(group')]_vars
    BY NextCounts DEF Counted
<1> QED
    BY <1>1, TypeCorrect, PTL DEF Spec, CountsKept

-----------------------------------------------------------------------------
(* The staging wrapper (InstanceStaging). *)

\* What the owner's kind and the reports say of the wrapper: a page never
\* starts it, a report is its end, the window's child starts with it; and what
\* replaces an instance stays whole in the staging folder until it is let go of.
Wrapped ==
    /\ owner = "page" => state = "Inactive"
    /\ owner = "window" /\ state = "Inactive" => child = "Inactive"
    /\ child = "Inactive" => attempts = 0
    /\ state \in {"Inactive", "Running"} => signals = <<>>
    /\ override /\ alive /\ child = "Succeeded" => staging = "whole"

StagingIInv == BackoffOK /\ Wrapped

USE DEF TaskState, Terminal, Contents

\* What appending to a sequence gives.
LEMMA AppendType == ASSUME NEW S, NEW s \in Seq(S), NEW x \in S PROVE Append(s, x) \in Seq(S)
OBVIOUS

LEMMA AppendOnly ==
    ASSUME NEW S, NEW s \in Seq(S), NEW x \in S, NEW y
    PROVE  Append(s, x) = <<y>> => x = y
<1>1. Len(Append(s, x)) = Len(s) + 1 /\ Append(s, x)[Len(s) + 1] = x /\ Len(s) \in Nat
    OBVIOUS
<1>2. Len(<<y>>) = 1 /\ <<y>>[1] = y
    OBVIOUS
<1>3. Append(s, x) = <<y>> => Len(s) = 0
    BY <1>1, <1>2
<1> QED BY <1>1, <1>2, <1>3

\* The doubled interval stays in the series.
LEMMA NextInSeries ==
    ASSUME backoff \in MinBackoff..MaxBackoff
    PROVE  NextBackoff \in MinBackoff..MaxBackoff
BY BackoffAssumption DEF NextBackoff

\* A wrapper that has not tried a commit yet is in good order.
LEMMA StagingStart == StagingInit => StagingIInv
BY BackoffAssumption DEF StagingInit, StagingIInv, BackoffOK, StagingTypeOK, Patience, Wrapped

\* A commit keeps the folders' types, and a blocked override what it copies from.
LEMMA CommitTypes ==
    ASSUME StagingTypeOK, CommitDone \/ CommitBlocked
    PROVE  /\ staging' \in Contents \cup {"none", "gone"}
           /\ target' \in {"old", "mixed", "new"}
           /\ committed' \in Seq(Contents)
           /\ override => staging' = staging
<1>1. \A c \in Contents : Append(committed, c) \in Seq(Contents)
    <2> HIDE DEF Contents
    <2> QED BY AppendType DEF StagingTypeOK
<1>2. CASE CommitDone
    BY <1>1, <1>2 DEF StagingTypeOK, CommitDone, OverrideDone, MoveDone
<1>3. CASE CommitBlocked
    BY <1>1, <1>3 DEF StagingTypeOK, CommitBlocked, OverrideBlocked, MoveBlocked
<1> QED BY <1>2, <1>3

\* childSucceeded, called by the child or by the timer.
LEMMA CommitKeeps ==
    ASSUME StagingIInv, ChildSucceeded, alive, child' = "Succeeded",
           child = "Running" \/ timer # 0,
           child = "Running" => staging = "whole",
           UNCHANGED <<config, abortable, alive>>
    PROVE  StagingIInv'
<1> USE DEF StagingIInv, BackoffOK, StagingTypeOK, config
<1>1. NextBackoff \in MinBackoff..MaxBackoff
    BY NextInSeries
<1>2. /\ staging' \in Contents \cup {"none", "gone"}
      /\ target' \in {"old", "mixed", "new"}
      /\ committed' \in Seq(Contents)
      /\ override => staging' = staging
    BY CommitTypes DEF ChildSucceeded, RetryOrGiveUp
<1>3. attempts' \in 0..MaxAttempts /\ attempts' > 0 /\ backoff' \in MinBackoff..MaxBackoff
    BY <1>1, BackoffAssumption, SMT DEF ChildSucceeded
<1>4. /\ state' \in TaskState /\ signals' \in Seq(Terminal)
      /\ timer' \in {0} \cup MinBackoff..MaxBackoff
      /\ state' = "Running" => timer' < MaxBackoff /\ timer' # 0
      /\ state' # state => state = "Running" /\ state' \in Terminal
      /\ state' = state => signals' = signals
  <2>0. \A o \in Terminal : Append(signals, o) \in Seq(Terminal)
    <3> HIDE DEF Terminal
    <3> QED BY AppendType
  <2>1. CASE CommitDone /\ Emit("Succeeded") /\ UNCHANGED timer
    BY <2>0, <2>1, SMT DEF Emit, Patience, Wrapped
  <2>2. CASE RetryOrGiveUp
    <3>1. CASE GiveUp
      <4>1. Emit("Failed") /\ timer' = timer
        BY <2>2, <3>1 DEF RetryOrGiveUp
      <4>2. /\ state' \in TaskState /\ signals' \in Seq(Terminal)
            /\ state' # "Running"
            /\ state' # state => state = "Running" /\ state' \in Terminal
            /\ state' = state => signals' = signals
        BY <2>0, <4>1 DEF Emit
      <4> QED BY <4>1, <4>2
    <3>2. CASE ~GiveUp
      <4>1. timer' = backoff /\ UNCHANGED <<state, signals>>
        BY <2>2, <3>2 DEF RetryOrGiveUp
      <4>2. backoff \in MinBackoff..MaxBackoff /\ backoff # MaxBackoff /\ backoff # 0
        BY <3>2, BackoffAssumption DEF GiveUp
      <4> QED BY <4>1, <4>2, BackoffAssumption
    <3> QED BY <3>1, <3>2
  <2> QED BY <2>1, <2>2 DEF ChildSucceeded
<1>5. StagingTypeOK' /\ Patience'
    BY <1>2, <1>3, <1>4, SMT DEF Patience
<1>6. child \in {"Running", "Succeeded"}
    BY SMT
<1>7. override => staging = "whole"
    BY <1>6 DEF Wrapped
<1>8. Wrapped'
    BY <1>2, <1>3, <1>4, <1>6, <1>7 DEF Wrapped
<1> QED BY <1>5, <1>8

\* Every step keeps the invariant.
LEMMA StagingKeeps == StagingIInv /\ [StagingNext]_stagingVars => StagingIInv'
<1> SUFFICES ASSUME StagingIInv, [StagingNext]_stagingVars PROVE StagingIInv'
    OBVIOUS
<1> USE DEF StagingIInv, BackoffOK, StagingTypeOK, config, stagingDisk
<1>0. \A o \in Terminal : Append(signals, o) \in Seq(Terminal)
    <2> HIDE DEF Terminal
    <2> QED BY AppendType
<1>1. CASE SetAbortable
    BY <1>1 DEF SetAbortable, Patience, Wrapped
<1>2. CASE FillStaging
    BY <1>2 DEF FillStaging, Patience, Wrapped
<1>3. CASE ChildSucceeds
    BY <1>3, CommitKeeps DEF ChildSucceeds
<1>4. CASE ChildFails
    BY <1>0, <1>4 DEF ChildFails, DestroyStaging, Emit, Patience, Wrapped
<1>5. CASE ChildAborts
    BY <1>0, <1>5 DEF ChildAborts, DestroyStaging, Emit, Patience, Wrapped
<1>6. CASE BackoffTimeout
    BY <1>6, CommitKeeps DEF BackoffTimeout
<1>7. CASE StartWrapper
    BY <1>0, <1>7 DEF StartWrapper, Patience, Wrapped
<1>8. CASE StartChild
    BY <1>8 DEF StartChild, Patience, Wrapped
<1>9. CASE AbortWrapper
    BY <1>0, <1>9 DEF AbortWrapper, DestroyStaging, Emit, Patience, Wrapped
<1>10. CASE OwnerReturns
    <2>1. /\ alive' = FALSE /\ timer' = 0
          /\ UNCHANGED <<owner, override, state, child, abortable, backoff, staging, target, committed,
                         signals, attempts>>
        BY <1>10 DEF OwnerReturns
    <2>2. StagingTypeOK'
        <3>1. timer' \in {0} \cup MinBackoff..MaxBackoff /\ alive' \in BOOLEAN
            BY <2>1
        <3>2. /\ owner' \in {"window", "page"} /\ override' \in BOOLEAN
              /\ staging' \in Contents \cup {"none", "gone"} /\ committed' \in Seq(Contents)
            BY <2>1
        <3> QED BY <2>1, <3>1, <3>2
    <2>4. Wrapped'
        BY <2>1 DEF Wrapped
    <2>3. state # "Running"
        <3>1. owner = "window" => signals # <<>>
            BY <1>10 DEF OwnerReturns, DialogClosed
        <3>2. owner \in {"window", "page"}
            OBVIOUS
        <3> QED BY <3>1, <3>2 DEF Wrapped
    <2>5. Patience'
        BY <2>1, <2>3 DEF Patience
    <2> QED BY <2>2, <2>4, <2>5
<1>11. CASE NextLaunch
    BY <1>11 DEF NextLaunch, DestroyStaging, Patience, Wrapped
<1>12. CASE UNCHANGED stagingVars
    BY <1>12 DEF stagingVars, Patience, Wrapped
<1> QED BY <1>1, <1>2, <1>3, <1>4, <1>5, <1>6, <1>7, <1>8, <1>9, <1>10, <1>11, <1>12 DEF StagingNext

LEMMA StagingInvariance == StagingSpec => []StagingIInv
BY StagingStart, StagingKeeps, PTL DEF StagingSpec

\* The state of the back-off, whatever its limits: a wrapper that runs has not
\* tried yet or has a timer armed below the limit (InstanceStaging::childSucceeded).
THEOREM RetriesAreTimed == StagingSpec => []BackoffOK
BY StagingInvariance, PTL DEF StagingIInv

\* A report of success comes with the commit (childSucceeded).
LEMMA SuccessStep ==
    ASSUME StagingIInv, [StagingNext]_stagingVars, signals # signals', signals' = <<"Succeeded">>
    PROVE  IF override THEN target' = "new"
                       ELSE Len(committed') > Len(committed) /\ staging' = "gone"
<1> USE DEF StagingIInv, BackoffOK, StagingTypeOK, config, stagingDisk
<1>1. \A o \in Terminal : Append(signals, o) = <<"Succeeded">> => o = "Succeeded"
    <2> HIDE DEF Terminal
    <2> QED BY AppendOnly
<1>2. ChildSucceeds \/ BackoffTimeout
    BY <1>1 DEF StagingNext, stagingVars, SetAbortable, FillStaging, ChildFails, ChildAborts, StartWrapper,
                StartChild, AbortWrapper, OwnerReturns, NextLaunch, Emit
<1>3. CommitDone
    BY <1>1, <1>2 DEF ChildSucceeds, BackoffTimeout, ChildSucceeded, RetryOrGiveUp, Emit
<1>4. override => staging = "whole"
    BY <1>2 DEF ChildSucceeds, BackoffTimeout, Wrapped
<1> QED BY <1>3, <1>4 DEF CommitDone, OverrideDone, MoveDone

\* Success is only announced by a step that put the instance in its place.
THEOREM SuccessIsACommit == StagingSpec => SuccessCommits
<1>1. StagingIInv /\ [StagingNext]_stagingVars =>
        [signals # signals' /\ signals' = <<"Succeeded">> =>
            IF override THEN target' = "new"
                        ELSE Len(committed') > Len(committed) /\ staging' = "gone"]_stagingVars
    BY SuccessStep
<1> QED BY <1>1, StagingInvariance, PTL DEF StagingSpec, SuccessCommits
=============================================================================
