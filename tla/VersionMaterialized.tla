-------------------------- MODULE VersionMaterialized --------------------------
(***************************************************************************)
(* Version materialized queries (get_version_materialized in               *)
(* controller/controller.cc, SnapshotPatchIteratorTripleID): the matches   *)
(* of a pattern in one version, from an offset on.  A result is the        *)
(* snapshot's matches without the deletions, and then the additions.       *)
(*                                                                         *)
(* A query reads the tree several times and takes no lock.  What it reads  *)
(* of a published version does not change (PublishedStable, ReadsStable),  *)
(* so a query is one expression here, evaluated in every state of a chain, *)
(* also between two iterations of a merge.                                 *)
(***************************************************************************)
EXTENDS PatchTree, SequencesExt

After(seq, offset) == SubSeq(seq, offset + 1, Len(seq))

\* The triples in the order of a kind's tree.
InTreeOrder == [k \in AllKinds |-> SortedIn(k, Triples)]

\* What a cursor over that tree stops at.
Traversed(k, S) == SelectSeq(InTreeOrder[k], LAMBDA t : t \in S)

(***************************************************************************)
(* search_with_offset on HDT, an external library: it keeps the triples of *)
(* a snapshot in SPO order and returns the matches of the kinds in use in  *)
(* that order.  An offset behind the last match leaves none.               *)
(***************************************************************************)
SnapshotFrom(k, pattern, offset) ==
  After(Traversed("___", Matching(snapshot, k, pattern)), offset)

(***************************************************************************)
(* deletion_iterator_from and one step of it, in the SPO tree whatever the *)
(* pattern.  With an early break it ends at the first triple that does not *)
(* match; triples that match and are no deletion of the version are passed.*)
(***************************************************************************)
FirstDeletion(k, pattern, id, from) ==
  LET stops == {t \in Triples : t >= from /\ InDeletions(t)
                                /\ (Pattern(k, t) # pattern \/ IsDeletion(t, id))}
  IN IF stops # {} /\ Pattern(k, Min(stops)) = pattern THEN Min(stops) ELSE NoTriple

\* The second of the pair that deletion_count returns.
LargestDeletion(k, pattern, id) ==
  LET last == LastDeletions(k, pattern, id) IN
  IF last = {} THEN NoTriple ELSE CHOOSE t \in last : TRUE

\* snapshot_offset: how many deletions come before the snapshot triple.
SnapshotOffset(k, pattern, id, firstTriple) ==
  LET found == FirstDeletion(k, pattern, id, firstTriple) IN
  IF found # NoTriple THEN PositionsOf(deletions[found], id, id + 1)[k]
  ELSE IF firstTriple < LargestDeletion(k, pattern, id) THEN 0
  ELSE DeletionCount(k, pattern, id)

(***************************************************************************)
(* The loop over check_offseted_deletions: skipping deletions brings other *)
(* deletions before the first triple, so that the offset is added again,   *)
(* until it no longer grows.  addedOffset[a] is where the loop that stands *)
(* at a ends.                                                              *)
(***************************************************************************)
AddedOffsetOnce(k, pattern, id, offset) ==                                \* mutant
  LET it == SnapshotFrom(k, pattern, offset)
  IN IF it = <<>> THEN 0 ELSE SnapshotOffset(k, pattern, id, Head(it))
AddedOffset(k, pattern, id, offset) ==
  LET matches == SnapshotFrom(k, pattern, offset)
      loop[a \in 0 .. Cardinality(Triples)] ==
        LET it == After(matches, a) IN
        IF it = <<>> THEN a
        ELSE LET added == SnapshotOffset(k, pattern, id, Head(it)) IN
             IF a < added THEN loop[added] ELSE added
  IN loop[0]

\* addition_iterator_from: the additions in the order of the pattern's tree.
AdditionsFrom(k, pattern, id, offset) ==
  After(Traversed(k, {t \in Matching(Triples, k, pattern) : IsAddition(t, id)}),
        Max({offset, 0}))

\* addition_offset, when the snapshot iterator has ended.
AdditionOffset(k, pattern, id, offset) ==
  offset - Len(SnapshotFrom(k, pattern, 0)) + DeletionCount(k, pattern, id)

Result(k, pattern, id, offset) ==
  SelectSeq(SnapshotFrom(k, pattern, offset + AddedOffset(k, pattern, id, offset)),
            LAMBDA t : ~IsDeletion(t, id))
    \o AdditionsFrom(k, pattern, id, AdditionOffset(k, pattern, id, offset))

-----------------------------------------------------------------------------

Queries == {<<k, Pattern(k, t)>> : k \in Kinds, t \in Triples}

\* From every offset on, all results without as many of the first ones.
OffsetsDropPrefix(k, pattern, id, all) ==
  \A offset \in 1 .. Cardinality(Triples) :
    Result(k, pattern, id, offset) = After(all, offset)

(***************************************************************************)
(* controller.h says the iterator returns the matches "with a certain      *)
(* offset in the list of all triples for the given patch id".              *)
(***************************************************************************)
OffsetExact ==
  \A q \in Queries : \A id \in Published :
    OffsetsDropPrefix(q[1], q[2], id, Result(q[1], q[2], id, 0))

(***************************************************************************)
(* What a query reads of a published version is the same before and after  *)
(* every step of a merge: the membership of a triple, the positions of a   *)
(* deletion and the counts it computes offsets with.  Counts that go       *)
(* through a reduced tree are left out: those move with the next append.   *)
(***************************************************************************)
ReadsStable ==
  [][\A id \in Published :
       /\ \A t \in Triples :
            /\ IsDeletion(t, id)' = IsDeletion(t, id)
            /\ IsAddition(t, id)' = IsAddition(t, id)
            /\ IsDeletion(t, id) => PositionsOf(deletions[t], id, id + 1)'
                                      = PositionsOf(deletions[t], id, id + 1)
       /\ \A q \in Queries : IsDefaultTree(q[1]) =>
            DeletionCount(q[1], q[2], id)' = DeletionCount(q[1], q[2], id)]_vars
===============================================================================
