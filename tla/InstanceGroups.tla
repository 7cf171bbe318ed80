--------------------------- MODULE InstanceGroups ---------------------------
(***************************************************************************)
(* The InstanceList with its groups: the instance folders, what the list   *)
(* keeps in memory, and the group file instgroups.json, over the user's    *)
(* operations, changes of the folder from outside, failures of the file    *)
(* system and restarts of the launcher.                                    *)
(*                                                                         *)
(* The list's own folder watch counts as resumed (m_watchLevel is 1 from   *)
(* the constructor on), so every instancesChanged() runs loadList at once. *)
(* instanceSet and m_instances then name the same instances whenever an    *)
(* operation is over, and are one variable here.  An operation that is cut *)
(* off by a crash is the same operation failing, and then Restart.         *)
(***************************************************************************)
EXTENDS Naturals, Sequences, FiniteSets

CONSTANTS
    Ids,        \* names of instance folders
    Groups,     \* names of groups
    Ungrouped,  \* the empty name, or no entry: no group
    Elsewhere,  \* bound: what other instance folders hold
    MaxTrash,   \* bound: depth of the trash history
    MaxRefs     \* bound: a reference count, which stray entries drive up

ASSUME GroupsAssumption ==
    /\ IsFiniteSet(Ids) /\ IsFiniteSet(Groups) /\ Ungrouped \notin Groups /\ MaxTrash \in Nat
    /\ MaxRefs \in Nat
    /\ \A e \in Elsewhere :
          /\ e.ids \subseteq Ids /\ e.state \in {"none", "bad", "good"}
          /\ e.file \in [group : [Ids -> Groups \cup {Ungrouped}], hidden : SUBSET Groups]

VARIABLES
    folders,    \* the folders with an instance.cfg
    fileState,  \* the group file: "none", "bad" (cannot be read), "good"
    file,       \* its contents, when it is good
    listed,     \* the ids of m_instances, and instanceSet
    group,      \* m_instanceGroupIndex
    refs,       \* m_groupNameCache; 0 for a group that is not in it
    collapsed,  \* m_collapsedGroups
    loaded,     \* m_groupsLoaded
    trash,      \* m_trashHistory, the last first
    unsaved     \* history: listed since the last save, or at a save that failed

memory == <<group, refs, collapsed, loaded>>
disk == <<fileState, file>>
vars == <<folders, disk, listed, memory, trash, unsaved>>

Names == Groups \cup {Ungrouped}

\* TrashHistoryItem; "here" tells whether its path is in the current folder
Entries == [id : Ids, group : Names, here : BOOLEAN]

TypeOK ==
    /\ folders \subseteq Ids /\ listed \subseteq Ids /\ unsaved \subseteq Ids
    /\ fileState \in {"none", "bad", "good"}
    /\ file \in [group : [Ids -> Names], hidden : SUBSET Groups]
    /\ group \in [Ids -> Names]
    /\ refs \in [Groups -> Nat]
    /\ collapsed \subseteq Groups
    /\ loaded \in BOOLEAN
    /\ trash \in Seq(Entries) /\ Len(trash) <= MaxTrash

Members(index, g) == {id \in Ids : index[id] = g}
NoGroups == [id \in Ids |-> Ungrouped]
Count(index) == [g \in Groups |-> Cardinality(Members(index, g))]

\* increaseGroupCount and decreaseGroupCount (which forgets a group that is no
\* longer counted, its collapsed state included)
Increase(r, g) == [h \in Groups |-> IF h = g THEN r[h] + 1 ELSE r[h]]
\* Mutant of Decrease: a group that is not counted gets counted below zero.
DecreaseBelowZero(r, g) == [h \in Groups |-> IF h = g THEN r[h] - 1 ELSE r[h]]
Decrease(r, g) == [h \in Groups |-> IF h = g /\ r[h] > 0 THEN r[h] - 1 ELSE r[h]]
BelowBound(g) == g \in Groups => refs[g] < MaxRefs
StillCollapsed(r, g) == {h \in collapsed : h = g => r[h] > 1}

-----------------------------------------------------------------------------
(* The group file.                                                         *)

\* saveGroupList: the groups of the instances in "ids", and which of them are
\* collapsed.  "late" are the instances listed only afterwards.
Save(index, ids, hidden, late) ==
    \/ /\ fileState' = "good"
       /\ file' = [group |-> [id \in Ids |-> IF id \in ids THEN index[id] ELSE Ungrouped],
                   hidden |-> {g \in hidden : Members(index, g) \cap ids # {}}]
       /\ unsaved' = late
    \/ UNCHANGED disk /\ unsaved' = Ids

\* loadInstance of an instance that was not listed tries loadGroupList until it
\* has worked once.
\* Mutant of NeedsGroups: the file is read again for every new instance.
NeedsGroupsAlways(ids) == ids \ listed # {}
NeedsGroups(ids) == ~loaded /\ ids \ listed # {}

\* loadGroupList: what is collapsed is kept
LoadGroups(contents) ==
    /\ group' = contents.group
    /\ refs' = Count(contents.group)
    /\ collapsed' = collapsed \cup contents.hidden
    /\ loaded' = TRUE

\* loadList, with "index" and "r" as the entries and counts before it, and
\* "state" and "contents" as the group file; reading it may fail
LoadList(ids, index, r, state, contents) ==
    /\ listed' = ids
    /\ \/ group' = index /\ refs' = r /\ UNCHANGED <<collapsed, loaded>>
       \/ NeedsGroups(ids) /\ state = "good" /\ LoadGroups(contents)

-----------------------------------------------------------------------------
(* The user's operations on groups.                                        *)

SetInstanceGroup(id, g) ==
    /\ id \in listed
    /\ group[id] # g \/ g = Ungrouped
    /\ BelowBound(g)
    /\ group' = [group EXCEPT ![id] = g]
    /\ refs' = Increase(Decrease(refs, group[id]), g)
    /\ collapsed' = StillCollapsed(refs, group[id])
    /\ Save(group', listed, collapsed', {})
    /\ UNCHANGED <<folders, listed, loaded, trash>>

\* deleteGroup and renameGroup, of a group in the view, go through the listed
\* instances; a new name must not be in getGroups().
\* Mutant of Regroup: nothing is saved.
RegroupUnsaved(g, new) ==
    /\ Members(group, g) \cap listed # {}
    /\ group' = [id \in Ids |-> IF id \in listed /\ group[id] = g THEN new ELSE group[id]]
    /\ UNCHANGED <<folders, disk, listed, loaded, trash, unsaved>>
Regroup(g, new) ==
    /\ Members(group, g) \cap listed # {}
    /\ group' = [id \in Ids |-> IF id \in listed /\ group[id] = g THEN new ELSE group[id]]
    /\ Save(group', listed, collapsed', {})
    /\ UNCHANGED <<folders, listed, loaded, trash>>

DeleteGroup(g) ==
    /\ refs' = [refs EXCEPT ![g] = 0]
    /\ collapsed' = collapsed \ {g}
    /\ Regroup(g, Ungrouped)

RenameGroup(src, dst) ==
    /\ refs[dst] = 0 /\ src # dst
    /\ refs' = [refs EXCEPT ![src] = 0, ![dst] = Cardinality(Members(group, src) \cap listed)]
    /\ collapsed' = IF src \in collapsed THEN (collapsed \ {src}) \cup {dst} ELSE collapsed
    /\ Regroup(src, dst)

\* the view collapses or expands a group it shows
GroupStateChanged(g) ==
    /\ Members(group, g) \cap listed # {}
    /\ collapsed' = IF g \in collapsed THEN collapsed \ {g} ELSE collapsed \cup {g}
    /\ Save(group, listed, collapsed', {})
    /\ UNCHANGED <<folders, listed, group, refs, loaded, trash>>

-----------------------------------------------------------------------------
(* The user's operations on instances.                                     *)

\* trashInstance and deleteInstance: the group goes first and the file is saved,
\* then the folder goes.  Where it does not, both leave the same behind.
\* Mutant of Ungroup: the group still counts the instance.
UngroupUncounted(id) ==
    /\ id \in listed
    /\ group' = [group EXCEPT ![id] = Ungrouped]
    /\ UNCHANGED <<refs, collapsed>>
    /\ Save(group', listed, collapsed', {})
    /\ UNCHANGED <<listed, loaded>>
Ungroup(id) ==
    /\ id \in listed
    /\ group' = [group EXCEPT ![id] = Ungrouped]
    /\ refs' = Decrease(refs, group[id])
    /\ collapsed' = StillCollapsed(refs, group[id])
    /\ Save(group', listed, collapsed', {})
    /\ UNCHANGED <<listed, loaded>>

TrashInstance(id) ==
    /\ Len(trash) < MaxTrash
    /\ id \in folders
    /\ Ungroup(id)
    /\ folders' = folders \ {id}
    /\ trash' = <<[id |-> id, group |-> group[id], here |-> TRUE]>> \o trash

DeleteInstance(id) ==
    /\ Ungroup(id)
    /\ folders' \in {folders, folders \ {id}}
    /\ UNCHANGED trash

\* A restored folder gets its old name, or one with "1" after it until it is
\* free where it came from, which need not be the current folder any more.
\* Whether the folder could be moved back is not looked at.
UndoTrashInstance ==
    /\ trash # <<>>
    /\ BelowBound(Head(trash).group)
    /\ LET top == Head(trash)
       IN  \E id \in IF ~top.here THEN Ids
                    ELSE IF top.id \in folders THEN Ids \ folders ELSE {top.id} :
             LET index == [group EXCEPT ![id] = top.group]
             IN  /\ folders' = folders \/ (top.here /\ folders' = folders \cup {id})
                 /\ Save(index, listed, collapsed, folders' \ listed)
                 /\ LoadList(folders', index, Increase(refs, top.group), fileState', file')
    /\ trash' = Tail(trash)

\* commitStagedInstance of a new instance ...
Commit(id, g) ==
    /\ id \notin folders
    /\ BelowBound(g)
    /\ folders' = folders \cup {id}
    /\ LoadList(folders', [group EXCEPT ![id] = g], Increase(refs, g), fileState, file)
    /\ Save(group', listed', collapsed', {})
    /\ UNCHANGED trash

\* ... and over an old one
CommitOverride(id) ==
    /\ id \in listed
    /\ folders' = folders \cup {id}
    /\ LoadList(folders', group, refs, fileState, file)
    /\ Save(group', listed', collapsed', {})
    /\ UNCHANGED trash

-----------------------------------------------------------------------------
(* The world outside.                                                      *)

Appears(id) ==
    /\ id \notin folders
    /\ folders' = folders \cup {id}
    /\ UNCHANGED <<disk, listed, memory, trash, unsaved>>

Vanishes(id) ==
    /\ id \in folders
    /\ folders' = folders \ {id}
    /\ UNCHANGED <<disk, listed, memory, trash, unsaved>>

\* The report of the watcher, at any time after the change, or never: saving
\* takes the folder off the watcher for a moment.
DirectoryChanged ==
    /\ folders # listed
    /\ LoadList(folders, group, refs, fileState, file)
    /\ unsaved' = unsaved \cup (listed' \ listed)
    /\ UNCHANGED <<folders, disk, trash>>

\* on_InstFolderChanged: another folder is chosen, with what some launcher left
\* there.  Entries, counts and looks stay unless the group file of that folder
\* is read; the trash history keeps its paths.  The groups are saved in the folder
\* that is left, which is then out of sight (bound: it is not chosen again).
InstFolderChanged(to) ==
    /\ folders' = to.ids /\ listed' = to.ids
    /\ fileState' = to.state /\ file' = to.file
    /\ \/ UNCHANGED <<group, refs, collapsed>> /\ loaded' = FALSE
       \/ to.ids # {} /\ to.state = "good" /\ LoadGroups(to.file)
    /\ unsaved' = Ids
    /\ trash' = [i \in DOMAIN trash |-> [trash[i] EXCEPT !.here = FALSE]]

\* The launcher ends, or crashes, and is started again.
Restart ==
    /\ listed' = folders
    /\ \/ group' = NoGroups /\ refs' = Count(NoGroups) /\ collapsed' = {} /\ loaded' = FALSE
       \/ /\ fileState = "good" /\ folders # {}
          /\ group' = file.group /\ refs' = Count(file.group)
          /\ collapsed' = file.hidden /\ loaded' = TRUE
    /\ trash' = <<>> /\ unsaved' = {}
    /\ UNCHANGED <<folders, disk>>

-----------------------------------------------------------------------------
\* a first start, with folders and a group file of an earlier version around
Init ==
    /\ folders \in SUBSET Ids /\ listed = folders
    /\ fileState \in {"none", "bad"}
    /\ file = [group |-> NoGroups, hidden |-> {}]
    /\ group = NoGroups /\ refs = Count(NoGroups) /\ collapsed = {}
    /\ loaded = FALSE
    /\ trash = <<>> /\ unsaved = {}

Next ==
    \/ \E id \in Ids, g \in Names : SetInstanceGroup(id, g)
    \/ \E g \in Groups : DeleteGroup(g)
    \/ \E src, dst \in Groups : RenameGroup(src, dst)
    \/ \E g \in Groups : GroupStateChanged(g)
    \/ \E id \in Ids : TrashInstance(id)
    \/ \E id \in Ids : DeleteInstance(id)
    \/ UndoTrashInstance
    \/ \E id \in Ids, g \in Names : Commit(id, g)
    \/ \E id \in Ids : CommitOverride(id)
    \/ \E id \in Ids : Appears(id)
    \/ \E id \in Ids : Vanishes(id)
    \/ DirectoryChanged
    \/ \E to \in Elsewhere : InstFolderChanged(to)
    \/ Restart

Spec == Init /\ [][Next]_vars

-----------------------------------------------------------------------------
(* Properties.                                                             *)

\* Group and look of every listed instance survive a restart that can read the
\* group file, unless the instance turned up, or a save failed, since the last
\* save.  (What an unread file would have said is not known to the list.)
RestartKeeps ==
    [][loaded' /\ Restart =>
          \A id \in (listed \cap folders) \ unsaved :
              /\ loaded \/ group[id] # Ungrouped => group'[id] = group[id]
              /\ group[id] \in collapsed <=> group[id] \in collapsed' \cap {group'[id]}]_vars

\* An instance that is made for a group, or is taken back from the trash, is in
\* its group, unless the list still has to read a group file: reading it drops
\* the new entry.  (Taking back from the trash writes one, before it reads.)
GroupSticks ==
    [][\A id \in folders' \ folders :
          /\ loaded \/ fileState # "good" => \A g \in Names : Commit(id, g) => group'[id] = g
          /\ loaded /\ UndoTrashInstance => group'[id] = Head(trash).group]_vars

\* Entries that no folder or no listed instance answers to.
Strays == {id \in Ids \ (folders \cap listed) : group[id] # Ungrouped}

\* The reference counts of the groups stay right as long as there are no such
\* entries (the operations on groups only look at listed instances), and unless
\* something is put back into a folder that is no longer the list's.
CountsKept ==
    [][/\ Strays = {} /\ refs = Count(group)
       /\ UndoTrashInstance => Head(trash).here
       => refs' = Count(group')]_vars
=============================================================================
