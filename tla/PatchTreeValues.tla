---------------------------- MODULE PatchTreeValues ----------------------------
(***************************************************************************)
(* The values of the addition and deletion trees of a patch tree, in the   *)
(* compressed form the program is built with (COMPRESSED_ADD_VALUES,       *)
(* COMPRESSED_DEL_VALUES): patch/patch_tree_addition_value.cc and          *)
(* patch/patch_tree_deletion_value.{h,cc}.  A key that is not in a tree    *)
(* has the value whose list of patches is empty.                           *)
(*                                                                         *)
(* The outer argument of an operator is the max_patch_id member of the     *)
(* C++ value: one more than the id it was constructed or last bumped with. *)
(***************************************************************************)
EXTENDS IntervalList, Patterns

\* The default PatchPositions(): no position.
NoPositions == [k \in Kinds |-> -1]

NoAddition == [patches |-> EmptyList, local |-> EmptyList]
NoDeletion == [patches |-> EmptyList, local |-> EmptyList,
               positions |-> [id \in {} |-> NoPositions]]
NoReduced  == [patches |-> EmptyList, local |-> EmptyList]

-----------------------------------------------------------------------------
(* PatchTreeAdditionValue *)

AddPatch(v, id) == [v EXCEPT !.patches = Addition(v.patches, id)]
DelPatch(v, id) == [v EXCEPT !.patches = Deletion(v.patches, id)]

SetLocalChange(v, id)   == [v EXCEPT !.local = Addition(v.local, id)]
UnsetLocalChange(v, id) == [v EXCEPT !.local = Deletion(v.local, id)]
IsLocalAddition(v, id)  == IsIn(v.local, id)

IsPatchId(v, id, outer) == id >= 0 /\ id < outer /\ IsIn(v.patches, id)

\* get_patch_id_at(0) and get_patch_id_at(get_size() - 1): -1 when there is none.
FirstPatchId(v, outer) ==
  IF Elements(v.patches, outer) = {} THEN -1 ELSE FirstElement(v.patches, outer)
LastPatchId(v, outer) ==
  IF Elements(v.patches, outer) = {} THEN -1 ELSE LastElement(v.patches, outer)

\* add and del raise the member to one more than the id.
Bumped(outer, id) == IF id >= outer THEN id + 1 ELSE outer

-----------------------------------------------------------------------------
(* PatchTreeDeletionValue *)

(***************************************************************************)
(* DeltaPatchPositionsContainerV2: positions are stored for an id only     *)
(* when they differ from those in force before it; an entry for the id     *)
(* itself is overwritten.  Deleting an id leaves the entries alone.        *)
(***************************************************************************)
EntriesUpTo(positions, id) == {e \in DOMAIN positions : e <= id}

InsertPositionsOnce(positions, id, new) ==                       \* mutant
  IF DOMAIN positions = {} THEN [e \in {id} |-> new] ELSE positions
InsertPositionsInPlace(positions, id, new) ==                    \* mutant
  LET before == EntriesUpTo(positions, id) IN
  IF before = {} THEN [e \in {id} |-> new] ELSE [positions EXCEPT ![Max(before)] = new]
InsertPositions(positions, id, new) ==
  LET before == EntriesUpTo(positions, id)
      inserted == [e \in DOMAIN positions \cup {id} |->
                     IF e = id THEN new ELSE positions[e]]
  IN IF \/ DOMAIN positions = {}
        \/ before # {} /\ (Max(before) = id \/ positions[Max(before)] # new)
     THEN inserted
     ELSE positions

GetPositions(positions, id) ==
  LET before == EntriesUpTo(positions, id) IN
  IF before = {} THEN NoPositions ELSE positions[Max(before)]

\* DVIntervalList::addition and ::deletion
AddElement(v, id, local, positions) ==
  [patches   |-> Addition(v.patches, id),
   local     |-> IF local THEN Addition(v.local, id) ELSE v.local,
   positions |-> InsertPositions(v.positions, id, positions)]

DelElement(v, id) ==
  [patches   |-> Deletion(v.patches, id),
   local     |-> Deletion(v.local, id),
   positions |-> v.positions]

\* is_local_change: of the id's element, or of the last one when the id has none.
IsLocalDeletion(v, id, outer) ==
  /\ Elements(v.patches, outer) # {}
  /\ IF Spans(v.patches, id, outer)
     THEN IsIn(v.local, id)
     ELSE IsIn(v.local, LastElement(v.patches, outer))

\* get(id).get_patch_positions(): of the id's element, or of the last one.
PositionsOf(v, id, outer) ==
  GetPositions(v.positions,
    IF Spans(v.patches, id, outer) THEN id ELSE LastElement(v.patches, outer))

(***************************************************************************)
(* to_reduced: the value stored in the POS and OSP trees.  The elements    *)
(* below the outer limit are added one by one to a fresh value; nothing is *)
(* ever deleted from it.  The first addition opens an interval that the    *)
(* others lie in (run IntervalListOps, MembersReadded).                    *)
(***************************************************************************)
AddedInOrder(ids) == IF ids = {} THEN EmptyList ELSE Opened(Min(ids))

ToReduced(v, outer) ==
  LET ids == Elements(v.patches, outer) IN
  [patches |-> AddedInOrder(ids),
   local   |-> AddedInOrder({id \in ids : IsIn(v.local, id)})]
===============================================================================
