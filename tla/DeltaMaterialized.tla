--------------------------- MODULE DeltaMaterialized ---------------------------
(***************************************************************************)
(* Delta materialized queries within one chain (get_delta_materialized in  *)
(* controller/controller.cc, controller/triple_delta_iterator.cc): the     *)
(* triples that two versions do not share.  One iterator merges the        *)
(* deletion and the addition tree; what a triple was in the two versions   *)
(* is told from the pair of its values (patch/patch_tree_value.cc).        *)
(*                                                                         *)
(* Like version queries these read the trees without a lock and are        *)
(* evaluated in every state of a chain, also within a merge.               *)
(***************************************************************************)
EXTENDS VersionMaterialized

SnapshotId == MinPatchId - 1

-----------------------------------------------------------------------------
(* PatchTreeValue: a triple with the values the trees hold for it *)

\* v.full: the deletion is that of the SPO tree, not a reduced one.
AdditionIds(v) == additions[v.triple].patches
DeletionIds(v) ==
  IF v.full THEN deletions[v.triple].patches ELSE reduced[v.triple].patches

\* get_addition_patch_id and get_deletion_patch_id, exact: an index, not an id.
AdditionIndex(v, id) == IF v.addition THEN GetIndex(AdditionIds(v), id, Outer) ELSE -1
DeletionIndex(v, id) == IF v.deletion THEN GetIndex(DeletionIds(v), id, Outer) ELSE -1

EarliestUpTo(has, list, id) ==                                   \* mutant
  LET ids == {e \in Elements(list, Outer) : e <= id}
  IN IF has /\ ids # {} THEN Min(ids) ELSE -1

\* The same, not exact: the last id up to the one asked for.
LatestUpTo(has, list, id) ==
  LET ids == {e \in Elements(list, Outer) : e <= id}
  IN IF has /\ ids # {} THEN Max(ids) ELSE -1
LatestAddition(v, id) == LatestUpTo(v.addition, AdditionIds(v), id)
LatestDeletion(v, id) == LatestUpTo(v.deletion, DeletionIds(v), id)

\* exists_in_snapshot: the first deletion comes before the first addition.
ExistsInSnapshotUnordered(v) == v.deletion                       \* mutant
ExistsInSnapshot(v) ==
  /\ v.deletion
  /\ v.addition => FirstElement(DeletionIds(v), Outer) < FirstElement(AdditionIds(v), Outer)

IsPresent(v, id) ==
  IF AdditionIndex(v, id) = -1 /\ DeletionIndex(v, id) = -1
  THEN ExistsInSnapshot(v)
  ELSE DeletionIndex(v, id) < AdditionIndex(v, id)

IsExact(v, id) == IF v.addition THEN IsPatchId(additions[v.triple], id, Outer)
                  ELSE DeletionIndex(v, id) >= 0

\* is_local_change: the addition speaks for both.
IsLocalChange(v, id) ==
  IF v.addition THEN IsLocalAddition(additions[v.triple], id)
  ELSE v.deletion /\ IsLocalDeletion(IF v.full THEN deletions[v.triple]
                                                ELSE reduced[v.triple], id, Outer)

-----------------------------------------------------------------------------
(* PatchTreeIterator::next over both trees *)

\* The triples one cursor stops at: those that match and changed up to the id.
ChangedUpTo(values, k, pattern, id) ==
  Traversed(k, {t \in Matching(Triples, k, pattern) :
                \E e \in Elements(values[t].patches, Outer) : e <= id})

(***************************************************************************)
(* The two cursors go through the tree of the pattern's order, and the     *)
(* triples under them are compared in SPO order.  A triple that both stand *)
(* on is squashed into one value, or the later of its two values is taken. *)
(***************************************************************************)
Merged(k, pattern, id, squash) ==
  LET D == ChangedUpTo(IF IsDefaultTree(k) THEN deletions ELSE reduced, k, pattern, id)
      A == ChangedUpTo(additions, k, pattern, id)
      value(t, addition, deletion) ==
        [triple |-> t, addition |-> addition, deletion |-> deletion, full |-> IsDefaultTree(k)]
      both(t) ==
        LET v == value(t, TRUE, TRUE)
            added == LatestAddition(v, id) > LatestDeletion(v, id)
        IN IF squash THEN v ELSE value(t, added, ~added)
      from[d \in 1 .. Len(D) + 1, a \in 1 .. Len(A) + 1] ==
        CASE d > Len(D) /\ a > Len(A) -> <<>>
          [] d > Len(D) /\ a <= Len(A) -> <<value(A[a], TRUE, FALSE)>> \o from[d, a + 1]
          [] d <= Len(D) /\ a > Len(A) -> <<value(D[d], FALSE, TRUE)>> \o from[d + 1, a]
          [] OTHER ->
               CASE D[d] = A[a] -> <<both(D[d])>> \o from[d + 1, a + 1]
                 [] D[d] > A[a] -> <<value(A[a], TRUE, FALSE)>> \o from[d, a + 1]
                 [] D[d] < A[a] -> <<value(D[d], FALSE, TRUE)>> \o from[d + 1, a]
  IN from[1, 1]

-----------------------------------------------------------------------------
(* The iterators and the query *)

Flagged(values, id) ==
  [i \in DOMAIN values |-> <<values[i].triple, AdditionIndex(values[i], id) >= 0>>]

\* ForwardPatchTripleDeltaIterator: from the snapshot to a version.
ForwardPatch(k, pattern, id) ==
  Flagged(SelectSeq(Merged(k, pattern, id, TRUE),
            LAMBDA v : /\ ~IsLocalChange(v, id)
                       /\ AdditionIndex(v, id) >= 0 \/ ExistsInSnapshot(v)), id)

\* ForwardDiffPatchTripleDeltaIterator: between two versions after the snapshot.
ForwardDiff(k, pattern, start, end) ==
  Flagged(SelectSeq(Merged(k, pattern, end, TRUE),
            LAMBDA v : IsPresent(v, start) # IsPresent(v, end)), end)

\* get_delta_materialized for two versions of the chain, from offset 0.
Delta(k, pattern, start, end) ==
  CASE end <= start -> <<>>
    [] end > start /\ start # SnapshotId -> ForwardDiff(k, pattern, start, end)
    [] end > start /\ start = SnapshotId -> ForwardPatch(k, pattern, end)

\* get_delta_materialized_count with estimates: all changes of both versions.
ChangeCount(k, pattern, id) ==
  IF id = SnapshotId THEN 0
  ELSE DeletionCount(k, pattern, id) + AdditionCount(k, pattern, id)
DeltaEstimate(k, pattern, start, end) ==
  ChangeCount(k, pattern, start) + ChangeCount(k, pattern, end)

-----------------------------------------------------------------------------

(***************************************************************************)
(* reconstruct_patch: the changes of a version as a patch again, each with *)
(* its flag of a local change, or without the local changes.  The flag is  *)
(* taken from the patch before where the value has nothing for this one.   *)
(***************************************************************************)
Reconstructed(id, ignoreLocalChanges) ==
  LET changes == SelectSeq(Merged("___", <<0, 0, 0>>, id, FALSE),
                           LAMBDA v : ignoreLocalChanges => ~IsLocalChange(v, id))
  IN [i \in DOMAIN changes |->
        [triple |-> changes[i].triple,
         addition |-> LatestAddition(changes[i], id) >= 0,
         local |-> IF IsExact(changes[i], id) THEN IsLocalChange(changes[i], id)
                   ELSE IsLocalChange(changes[i], id - 1)]]

-----------------------------------------------------------------------------

Versions == SnapshotId .. patchId - 1

(***************************************************************************)
(* A delta query returns, in order and each once, exactly the triples that *)
(* are in one of its two versions and not in the other, flagged with where *)
(* they are: for every two published versions of a chain, also while a     *)
(* later patch is merged (patterns of the SPO tree).  The estimate is no   *)
(* less than what is returned while no triple of the snapshot has been     *)
(* deleted and added again.                                                *)
(***************************************************************************)
DeltaExact ==
  \A start, end \in Versions : start < end =>
    LET before == Version(start)
        after == Version(end)
        changed == (before \ after) \cup (after \ before)
    IN \A q \in Queries : IsDefaultTree(q[1]) =>
         LET sorted == Traversed(q[1], Matching(changed, q[1], q[2]))
             delta == Delta(q[1], q[2], start, end)
         IN /\ delta = [i \in DOMAIN sorted |-> <<sorted[i], sorted[i] \in after>>]
            /\ (\A t \in snapshot : ~(InAdditions(t) /\ InDeletions(t))) =>
                 DeltaEstimate(q[1], q[2], start, end) >= Len(delta)

(***************************************************************************)
(* The patch reconstructed from the trees (get_patch) gives the version    *)
(* when it is applied to the snapshot, and holds nothing that does not     *)
(* change it: also for triples that came and went several times.           *)
(***************************************************************************)
ReconstructedExact ==
  \A id \in Published :
    LET patch == Range(Reconstructed(id, TRUE))
        added == {e.triple : e \in {f \in patch : f.addition}}
        deleted == {e.triple : e \in {f \in patch : ~f.addition}}
    IN /\ (snapshot \ deleted) \cup added = Version(id)
       /\ added \cap snapshot = {} /\ deleted \subseteq snapshot
===============================================================================
