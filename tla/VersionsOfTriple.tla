--------------------------- MODULE VersionsOfTriple ---------------------------
(***************************************************************************)
(* Version queries within one chain (get_version in                        *)
(* controller/controller.cc, PatchTreeTripleVersionsIteratorV2 in          *)
(* controller/triple_versions_iterator.cc): every triple of any version,   *)
(* with the versions it is in.  And the counts that go with the three      *)
(* kinds of query.                                                         *)
(***************************************************************************)
EXTENDS DeltaMaterialized

(***************************************************************************)
(* eraseDeletedVersions: all versions from the first to max_patch_id       *)
(* without those of the deletion value, whatever its local changes.        *)
(***************************************************************************)
VersionsFrom(t, first) ==
  (first .. maxPatchId) \ Elements(deletions[t].patches, Outer)

VersionsOfLastAddition(t) ==                                     \* mutant
  VersionsFrom(t, IF t \in snapshot THEN SnapshotId ELSE LastPatchId(additions[t], Outer))

\* Triples of the snapshot start with it, others with their first addition.
VersionsOf(t) ==
  VersionsFrom(t, IF t \in snapshot THEN SnapshotId ELSE FirstPatchId(additions[t], Outer))

(***************************************************************************)
(* The merge of the snapshot's matches with all keys of the addition tree, *)
(* both in the order of the pattern's tree; a triple of both comes once.   *)
(***************************************************************************)
VersionQuery(k, pattern) ==
  LET triples == SortedIn(k, Matching(snapshot \cup {t \in Triples : InAdditions(t)}, k, pattern))
  IN [i \in DOMAIN triples |-> [triple |-> triples[i], versions |-> VersionsOf(triples[i])]]

-----------------------------------------------------------------------------
(* Counts *)

SnapshotCount(k, pattern) == Cardinality(Matching(snapshot, k, pattern))

\* get_version_materialized_count
MaterializedCount(k, pattern, id) ==
  IF id = SnapshotId THEN SnapshotCount(k, pattern)
  ELSE SnapshotCount(k, pattern) - DeletionCount(k, pattern, id) + AdditionCount(k, pattern, id)

VersionCountOfLatest(k, pattern) ==                              \* mutant
  SnapshotCount(k, pattern) + AdditionCount(k, pattern, maxPatchId)

\* get_version_count without estimates: every key of the addition tree.
VersionCount(k, pattern) ==
  SnapshotCount(k, pattern) + Cardinality(Matching({t \in Triples : InAdditions(t)}, k, pattern))

-----------------------------------------------------------------------------

(***************************************************************************)
(* A version query names for every triple exactly the published versions   *)
(* it is in, and returns every triple of a published version once, in the  *)
(* order of the tree.  While a patch is merged the versions are claimed of *)
(* the triples of published versions only; otherwise nothing else is       *)
(* returned.  Once the first patch is complete: max_patch_id names it      *)
(* before.                                                                 *)
(***************************************************************************)
VersionsExact ==
  \A q \in Queries :
    LET result == VersionQuery(q[1], q[2])
        returned == {result[i].triple : i \in DOMAIN result}
        published(t) == {id \in Versions : t \in Version(id)}
    IN /\ \A i, j \in DOMAIN result :
            i < j => Precedes(q[1], result[i].triple, result[j].triple)
       /\ \A t \in Matching(Triples, q[1], q[2]) : published(t) # {} => t \in returned
       /\ \A i \in DOMAIN result :
            LET versions == result[i].versions
                exact == published(result[i].triple)
            IN maxPatchId < patchId /\ (appending => exact # {}) =>
                 versions = exact /\ exact # {}

(***************************************************************************)
(* The tests of version queries expect get_version_count to be the number  *)
(* of triples that get_version returns.                                    *)
(***************************************************************************)
VersionCountExact ==
  ~appending => \A q \in Queries : VersionCount(q[1], q[2]) = Len(VersionQuery(q[1], q[2]))

(***************************************************************************)
(* While no triple of the snapshot was deleted and added again: the count  *)
(* of a version query is the number of triples it returns, and that of a   *)
(* version materialized query, put together from three counters, is the    *)
(* number of matches in the version, also while a patch is merged.         *)
(***************************************************************************)
CountsUnlessReturned ==
  (\A t \in snapshot : ~(InAdditions(t) /\ InDeletions(t))) =>
    /\ VersionCountExact
    /\ \A q \in Queries : \A id \in Versions :
         MaterializedCount(q[1], q[2], id) = Cardinality(Matching(Version(id), q[1], q[2]))

(***************************************************************************)
(* Under the same condition: the count of a version materialized query is  *)
(* the length of what the query's iterators return, and an offset leaves   *)
(* out as many of it from the front (for patterns of the SPO tree).        *)
(***************************************************************************)
ResultsFitUnlessReturned ==
  (\A t \in snapshot : ~(InAdditions(t) /\ InDeletions(t))) =>
    \A q \in Queries : \A id \in Versions :
      LET all == Result(q[1], q[2], id, 0)
      IN /\ MaterializedCount(q[1], q[2], id) = Len(all)
         /\ id \in Published /\ IsDefaultTree(q[1]) => OffsetsDropPrefix(q[1], q[2], id, all)
===============================================================================
