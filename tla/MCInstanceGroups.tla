-------------------------- MODULE MCInstanceGroups --------------------------
(***************************************************************************)
(* InstanceGroups for TLC: no instance and no group is special, and every  *)
(* property is about states and steps, so either may be renamed.           *)
(***************************************************************************)
EXTENDS InstanceGroups, TLC

(* Another folder has no group file, or one with all instances in a group  *)
(* that is collapsed. What is in it may change at once (Appears).         *)
OtherFolders ==
    {[ids |-> ids, state |-> "none",
      file |-> [group |-> [id \in Ids |-> Ungrouped], hidden |-> {}]] : ids \in {{}, Ids}}
    \cup {[ids |-> Ids, state |-> "good",
           file |-> [group |-> [id \in Ids |-> g], hidden |-> {g}]] : g \in Groups}

Alike == Permutations(Ids) \cup Permutations(Groups)
=============================================================================
