------------------------------- MODULE PatchTree -------------------------------
(***************************************************************************)
(* One patch tree (patch/patch_tree.cc, patch/triple_store.cc): the delta  *)
(* chain that follows a snapshot.  append_unsafe merges a sorted patch P   *)
(* with the deletion tree D and the addition tree A: the patch's iterator  *)
(* and a cursor of each tree stand on a triple or have ended, how the      *)
(* three compare selects the branch, and the branch says which of them     *)
(* step, over the records that the loop itself has written by then.  Every *)
(* iteration is a step here, from one comparison to the next, because      *)
(* readers take no lock and see the trees between any two of them.         *)
(*                                                                         *)
(* The POS and OSP addition trees hold the values of the SPO tree and are  *)
(* written with it, so one function stands for the three.  The POS and OSP *)
(* deletion trees hold reduced values, the function `reduced`.             *)
(***************************************************************************)
EXTENDS PatchTreeValues, Bags

CONSTANTS
  MinPatchId,         \* the first patch id of the chain, min_patch_id
  LastAppended,       \* bound: the largest patch id that is appended
  MinAdditionCount,   \* MIN_ADDITION_COUNT
  ValidDeltasOnly     \* additions are of absent, deletions of present triples

ASSUME ParametersAssumption ==
  /\ MinPatchId \in Nat \ {0}
  /\ LastAppended \in Nat /\ MinPatchId <= LastAppended
  /\ LastAppended + 1 < MaxValue
  /\ MinAdditionCount \in Nat
  /\ ValidDeltasOnly \in BOOLEAN

VARIABLES
  snapshot,      \* the triples of the snapshot the chain starts from
  additions,     \* the SPO, POS and OSP addition trees
  deletions,     \* the SPO deletion tree
  reduced,       \* the POS and OSP deletion trees
  maxPatchId,    \* max_patch_id
  counts,        \* count_additions: <<patch id, pattern>> to a number
  tempCounts,    \* temp_count_additions
  appending,     \* append_unsafe is running
  patchId,       \* its patch_id argument, or that of the next append
  patchAdds, patchDels,  \* the patch it merges
  patchAt, deletionAt, additionAt,  \* P, D and A: what was read last, or End
  addMax,        \* max_patch_id of its addition_value variable
  positionCount  \* its counters of patch positions, by kind and pattern

trees == <<additions, deletions, reduced>>
cursors == <<patchAt, deletionAt, additionAt>>
merge == <<appending, patchId, patchAdds, patchDels, cursors, addMax, positionCount>>
vars  == <<snapshot, trees, maxPatchId, counts, tempCounts, merge>>

-----------------------------------------------------------------------------
(* Reading, with values constructed for max_patch_id *)

Outer == maxPatchId + 1

InAdditions(t) == DOMAIN additions[t].patches # {}
InDeletions(t) == DOMAIN deletions[t].patches # {}

\* next_addition with an exact patch filter and the local changes filtered.
IsAddition(t, id) ==
  IsPatchId(additions[t], id, Outer) /\ ~IsLocalAddition(additions[t], id)

\* next_deletion with an exact patch filter and the local changes filtered, on the SPO tree.
IsDeletion(t, id) ==
  Spans(deletions[t].patches, id, Outer) /\ ~IsLocalDeletion(deletions[t], id, Outer)

\* The same on the POS and OSP trees.
IsReducedDeletion(t, id) ==
  Spans(reduced[t].patches, id, Outer) /\ ~IsLocalDeletion(reduced[t], id, Outer)

(***************************************************************************)
(* get_version_materialized and SnapshotPatchIteratorTripleID: the         *)
(* snapshot triples that are no deletion, then the additions.              *)
(***************************************************************************)
Materialized(id) ==
  {t \in snapshot : ~IsDeletion(t, id)} \cup {t \in Triples : IsAddition(t, id)}

\* The version of the id before the chain's first is the snapshot.
Version(id) == IF id < MinPatchId THEN snapshot ELSE Materialized(id)

\* get_addition_count and addition_count, for a patch id of the chain.
AdditionCount(k, pattern, id) ==
  IF <<id, pattern>> \in DOMAIN counts THEN counts[<<id, pattern>>]
  ELSE Cardinality({t \in Matching(Triples, k, pattern) : IsAddition(t, id)})

\* last_deletion_value: the last match in the order of the pattern's tree.
LastDeletions(k, pattern, id) ==
  LET matches == {t \in Matching(Triples, k, pattern) :
                    IF IsDefaultTree(k) THEN IsDeletion(t, id) ELSE IsReducedDeletion(t, id)}
  IN {t \in matches : \A u \in matches : u = t \/ Precedes(k, u, t)}

\* deletion_count: one more than the last match's position.
DeletionCount(k, pattern, id) ==
  LET last == LastDeletions(k, pattern, id) IN
  IF last = {} THEN 0
  ELSE LET t == CHOOSE u \in last : TRUE IN PositionsOf(deletions[t], id, Outer)[k] + 1

-----------------------------------------------------------------------------
(* Writing *)

WriteAddition(t, v) == additions' = [additions EXCEPT ![t] = v]

\* insertDeletionSingle with a value: the full one, and its reduced form.
WriteDeletion(t, v, outer) ==
  /\ deletions' = [deletions EXCEPT ![t] = v]
  /\ reduced' = IF v = deletions[t] THEN reduced
                ELSE [reduced EXCEPT ![t] = ToReduced(v, outer)]

\* insertAdditionSingle and insertDeletionSingle without a value: a fresh one replaces it.
FreshAdditionUnflagged(local) == AddPatch(NoAddition, patchId)   \* mutant
FreshAdditionForOuter(local) == AddPatch(NoAddition, patchId + 1)   \* mutant
FreshAddition(local) ==
  LET v == AddPatch(NoAddition, patchId) IN IF local THEN SetLocalChange(v, patchId) ELSE v
FreshDeletion(local, positions) == AddElement(NoDeletion, patchId, local, positions)

\* increment_addition_counts: one more for every pattern of the triple.
Counted(id, t) == SetToBag({<<id, Pattern(k, t)>> : k \in Kinds})
CountedIf(condition, id, t) == IF condition THEN Counted(id, t) ELSE EmptyBag

\* Patch::positions: the triple's rank, from 0, under every pattern; it counts the triple.
Rank(k, pattern) ==
  IF <<k, pattern>> \in DOMAIN positionCount THEN positionCount[<<k, pattern>>] ELSE 0
PositionsNow(t) == [k \in Kinds |-> Rank(k, Pattern(k, t))]
CountPosition(t) ==
  positionCount' = positionCount (+) SetToBag({<<k, Pattern(k, t)>> : k \in Kinds})

\* The positions of an element: none for a local change, else those of triple t.
PositionsUnless(local, t) == IF local THEN NoPositions ELSE PositionsNow(t)
CountPositionUnless(local, t) == IF local THEN UNCHANGED positionCount ELSE CountPosition(t)

-----------------------------------------------------------------------------
(* append_unsafe *)

PatchKeys    == patchAdds \cup patchDels
DeletionKeys == {t \in Triples : InDeletions(t)}
AdditionKeys == {t \in Triples : InAdditions(t)}

\* An iterator that has no more elements, a cursor that gets no record.
End == -1

First(keys) == IF keys = {} THEN End ELSE Min(keys)

\* step and get: the first record behind the cursor, of those there are by then.
Stepped(at, keys) == First({t \in keys : t > at})

\* p_lt_d, p_gt_d and the others; p_eq_d and p_eq_a.
Less(x, y)  == x # End /\ (y = End \/ x < y)
Equal(x, y) == x # End /\ x = y

AllEnded == patchAt = End /\ deletionAt = End /\ additionAt = End

(***************************************************************************)
(* The should_step flags of a branch: the end of its iteration, where no   *)
(* cursor continues that has ended, and the reading of the next.           *)
(***************************************************************************)
Step(patch, inDeletions, inAdditions) ==
  /\ patchAt' = IF patch THEN Stepped(patchAt, PatchKeys) ELSE patchAt
  /\ deletionAt' = IF inDeletions /\ deletionAt # End
                   THEN Stepped(deletionAt, DeletionKeys') ELSE deletionAt
  /\ additionAt' = IF inAdditions /\ additionAt # End
                   THEN Stepped(additionAt, AdditionKeys') ELSE additionAt
  /\ UNCHANGED <<snapshot, maxPatchId, counts, appending, patchId, patchAdds, patchDels>>

\* The triple of patch_element: P, or its last element once the patch has ended.
PatchElementTriple ==
  IF patchAt # End THEN patchAt
  ELSE IF PatchKeys # {} THEN Max(PatchKeys) ELSE NoTriple

\* Counts an addition for the id it is not local in, and for "any version".
CountAdditionAlsoDeleted(t, v, outer, countPatch) ==             \* mutant
  tempCounts' = tempCounts
    (+) CountedIf(~IsLocalAddition(v, patchId), patchId, t)
    (+) CountedIf(~IsLocalAddition(v, FirstPatchId(v, outer)), 0, t)
CountAddition(t, v, outer, countPatch) ==
  tempCounts' = tempCounts
    (+) CountedIf(countPatch /\ ~IsLocalAddition(v, patchId), patchId, t)
    (+) CountedIf(~IsLocalAddition(v, FirstPatchId(v, outer)), 0, t)

BeginAppend ==
  /\ ~appending
  /\ patchId <= LastAppended
  /\ \E adds \in SUBSET Triples : \E dels \in SUBSET (Triples \ adds) :
       /\ ValidDeltasOnly =>
            adds \cap Version(maxPatchId) = {} /\ dels \subseteq Version(maxPatchId)
       /\ patchAdds' = adds
       /\ patchDels' = dels
  /\ appending' = TRUE
  /\ patchAt' = First(PatchKeys')
  /\ deletionAt' = First(DeletionKeys)      \* cursor_deletions->jump()
  /\ additionAt' = First(AdditionKeys)
  /\ addMax' = maxPatchId + 1
  /\ positionCount' = EmptyBag      \* clear_temp_insertion_trees
  /\ UNCHANGED <<snapshot, trees, maxPatchId, counts, tempCounts, patchId>>

\* D < P, D < A
CarryDeletion(t) ==
  LET v == deletions[t]
      local == IsLocalDeletion(v, patchId, Outer)
      positions == PositionsUnless(local, t)
      started == /\ Elements(v.patches, Outer) # {}
                 /\ FirstElement(v.patches, Outer) <= patchId
      present == /\ Spans(v.patches, patchId, Outer)
                 /\ GetPositions(v.positions, patchId) = positions
  IN
  /\ Less(t, patchAt) /\ Less(t, additionAt)
  /\ CountPositionUnless(local \/ ~started, t)
  /\ IF started /\ ~present
     THEN WriteDeletion(t, AddElement(v, patchId, FALSE, positions), Outer)
     ELSE UNCHANGED <<deletions, reduced>>
  /\ UNCHANGED <<additions, tempCounts, addMax>>
  /\ Step(FALSE, TRUE, FALSE)

\* A < P, A < D
CarryAddition(t) ==
  LET v == additions[t]
      add == FirstPatchId(v, addMax) <= patchId /\ ~IsPatchId(v, patchId, addMax)
      new == IF add THEN AddPatch(v, patchId) ELSE v
  IN
  /\ Less(t, patchAt) /\ Less(t, deletionAt)
  /\ WriteAddition(t, new)
  /\ addMax' = IF add THEN Bumped(addMax, patchId) ELSE addMax
  /\ CountAddition(t, new, addMax', TRUE)
  /\ UNCHANGED <<deletions, reduced, positionCount>>
  /\ Step(FALSE, FALSE, TRUE)

\* P < A, P < D, an addition
InsertAddition(t) ==
  /\ Less(t, additionAt) /\ Less(t, deletionAt) /\ t \in patchAdds
  /\ WriteAddition(t, FreshAddition(FALSE))
  /\ tempCounts' = tempCounts (+) Counted(patchId, t) (+) Counted(0, t)
  /\ UNCHANGED <<deletions, reduced, addMax, positionCount>>
  /\ Step(TRUE, FALSE, FALSE)

\* P < A, P < D, a deletion
InsertDeletion(t) ==
  /\ Less(t, additionAt) /\ Less(t, deletionAt) /\ t \in patchDels
  /\ WriteDeletion(t, FreshDeletion(FALSE, PositionsNow(t)), patchId + 1)
  /\ CountPosition(t)
  /\ UNCHANGED <<additions, tempCounts, addMax>>
  /\ Step(TRUE, FALSE, FALSE)

\* P = D, P < A, an addition: it becomes a local change.
ReturnDeletedSteppingAdditions(t) ==                             \* mutant
  /\ Equal(t, deletionAt) /\ Less(t, additionAt) /\ t \in patchAdds
  /\ WriteDeletion(t, DelElement(deletions[t], patchId), Outer)
  /\ WriteAddition(t, FreshAddition(TRUE))
  /\ UNCHANGED <<tempCounts, addMax, positionCount>>
  /\ Step(FALSE, FALSE, TRUE)
ReturnDeleted(t) ==
  /\ Equal(t, deletionAt) /\ Less(t, additionAt) /\ t \in patchAdds
  /\ WriteDeletion(t, DelElement(deletions[t], patchId), Outer)
  /\ WriteAddition(t, FreshAddition(TRUE))
  /\ UNCHANGED <<tempCounts, addMax, positionCount>>
  /\ Step(TRUE, TRUE, FALSE)

\* P = D, P < A, a deletion: the previous deletion value is carried over.
DeleteAgain(t) ==
  LET v == deletions[t]
      local == IsLocalDeletion(v, patchId, Outer)
  IN
  /\ Equal(t, deletionAt) /\ Less(t, additionAt) /\ t \in patchDels
  /\ WriteDeletion(t, AddElement(v, patchId, local, PositionsUnless(local, t)), Outer)
  /\ CountPositionUnless(local, t)
  /\ UNCHANGED <<additions, tempCounts, addMax>>
  /\ Step(TRUE, TRUE, FALSE)

\* P = A, P < D, a deletion: it becomes a local change.
DeleteAdded(t) ==
  LET new == UnsetLocalChange(DelPatch(additions[t], patchId), patchId) IN
  /\ Equal(t, additionAt) /\ Less(t, deletionAt) /\ t \in patchDels
  /\ WriteAddition(t, new)
  /\ WriteDeletion(t, FreshDeletion(TRUE, NoPositions), patchId + 1)
  /\ addMax' = Bumped(addMax, patchId)
  /\ CountAddition(t, new, addMax', FALSE)
  /\ UNCHANGED positionCount
  /\ Step(TRUE, FALSE, TRUE)

\* P = A, P < D, an addition: the previous addition value is carried over.
AddAgain(t) ==
  LET new == AddPatch(additions[t], patchId) IN
  /\ Equal(t, additionAt) /\ Less(t, deletionAt) /\ t \in patchAdds
  /\ WriteAddition(t, new)
  /\ addMax' = Bumped(addMax, patchId)
  /\ CountAddition(t, new, addMax', TRUE)
  /\ UNCHANGED <<deletions, reduced, positionCount>>
  /\ Step(TRUE, FALSE, TRUE)

(***************************************************************************)
(* The last else: D and A stand on one triple, which is carried on when P  *)
(* is larger and inverted when P is the same triple.  The tree with the    *)
(* larger last patch id holds the current state.  The positions are those  *)
(* of triple p, which the code takes from patch_element in both cases.     *)
(***************************************************************************)
NoneSmallest ==
  /\ ~AllEnded
  /\ ~(Less(deletionAt, patchAt) /\ Less(deletionAt, additionAt))
  /\ ~(Less(additionAt, patchAt) /\ Less(additionAt, deletionAt))
  /\ ~(Less(patchAt, additionAt) /\ Less(patchAt, deletionAt))
  /\ ~(Equal(patchAt, deletionAt) /\ Less(patchAt, additionAt))
  /\ ~(Equal(patchAt, additionAt) /\ Less(patchAt, deletionAt))

LastAddition(t) == LastPatchId(additions[t], patchId)
LastDeletion(t) == LastElement(deletions[t].patches, Outer)

WasLocalSwapped(t) == IF LastAddition(t) > LastDeletion(t)       \* mutant
                      THEN IsLocalDeletion(deletions[t], patchId, Outer)
                      ELSE IsLocalAddition(additions[t], patchId)
WasLocal(t) == IF LastAddition(t) < LastDeletion(t)
               THEN IsLocalDeletion(deletions[t], patchId, Outer)
               ELSE IsLocalAddition(additions[t], patchId)

SettleAsAddition(t, local) ==
  LET new == AddPatch(additions[t], patchId) IN
  /\ WriteAddition(t, IF local THEN SetLocalChange(new, patchId) ELSE new)
  /\ WriteDeletion(t, DelElement(deletions[t], patchId), Outer)
  /\ UNCHANGED positionCount

SettleAsDeletionKeepingAddition(t, local, p) ==                  \* mutant
  /\ WriteDeletion(t, AddElement(deletions[t], patchId, local, PositionsUnless(local, p)), Outer)
  /\ UNCHANGED additions
  /\ CountPositionUnless(local, p)
SettleAsDeletion(t, local, p) ==
  LET new == DelPatch(additions[t], patchId) IN
  /\ WriteDeletion(t, AddElement(deletions[t], patchId, local, PositionsUnless(local, p)), Outer)
  /\ WriteAddition(t, IF IsLocalAddition(new, patchId)
                      THEN UnsetLocalChange(new, patchId) ELSE new)
  /\ CountPositionUnless(local, p)

\* invert: P is the triple as well.
Settle(t, invert, p) ==
  LET local       == WasLocal(t) # invert
      addAddition == (LastAddition(t) > LastDeletion(t)) # invert
      addDeletion == (LastDeletion(t) > LastAddition(t)) # invert
  IN
  /\ NoneSmallest
  /\ addMax' = patchId + 1
  /\ tempCounts' = tempCounts
       (+) CountedIf(~IsLocalAddition(additions[t], FirstPatchId(additions[t], patchId + 1)), 0, t)
       (+) CountedIf(addAddition /\ ~local, patchId, t)
  /\ CASE addAddition -> SettleAsAddition(t, local)
       [] ~addAddition /\ addDeletion -> SettleAsDeletion(t, local, p)
       [] OTHER -> UNCHANGED <<trees, positionCount>>
  /\ Step(invert, TRUE, TRUE)

CarryBoth(t)  == Less(t, patchAt) /\ Settle(t, FALSE, PatchElementTriple)
InvertBoth(t) == ~Less(t, patchAt) /\ Settle(t, TRUE, PatchElementTriple)

(***************************************************************************)
(* flush_addition_counts: cursor->jump() is followed by cursor->step()     *)
(* before the first get, so the record the hash database iterates first,   *)
(* whichever it is, is passed over.  The rest is stored if large enough.   *)
(***************************************************************************)
Flushed(first) ==
  LET stored == {key \in DOMAIN tempCounts \ {first} : tempCounts[key] >= MinAdditionCount}
  IN [key \in stored \cup DOMAIN counts |->
        IF key \in stored THEN tempCounts[key] ELSE counts[key]]

LargerPatchIdOffByOne == patchId + 1                             \* mutant
LargerPatchId == IF patchId > maxPatchId THEN patchId ELSE maxPatchId

FinishAppend ==
  /\ appending
  /\ AllEnded
  /\ IF tempCounts = EmptyBag THEN UNCHANGED counts
     ELSE \E first \in DOMAIN tempCounts : counts' = Flushed(first)
  /\ tempCounts' = EmptyBag
  /\ maxPatchId' = LargerPatchId
  /\ appending' = FALSE
  /\ patchAdds' = {} /\ patchDels' = {}
  /\ patchId' = patchId + 1       \* the caller goes on with the next id
  /\ positionCount' = EmptyBag
  /\ addMax' = maxPatchId' + 1
  /\ UNCHANGED <<snapshot, trees, cursors>>

-----------------------------------------------------------------------------

Init ==
  /\ snapshot \in SUBSET Triples
  /\ additions = [t \in Triples |-> NoAddition]
  /\ deletions = [t \in Triples |-> NoDeletion]
  /\ reduced = [t \in Triples |-> NoReduced]
  /\ maxPatchId = MinPatchId
  /\ counts = EmptyBag /\ tempCounts = EmptyBag
  /\ appending = FALSE /\ patchId = MinPatchId
  /\ patchAdds = {} /\ patchDels = {}
  /\ patchAt = End /\ deletionAt = End /\ additionAt = End
  /\ addMax = MinPatchId + 1
  /\ positionCount = EmptyBag

MergeStep ==
  \/ CarryDeletion(deletionAt)
  \/ CarryAddition(additionAt)
  \/ InsertAddition(patchAt)
  \/ InsertDeletion(patchAt)
  \/ ReturnDeleted(patchAt)
  \/ DeleteAgain(patchAt)
  \/ DeleteAdded(patchAt)
  \/ AddAgain(patchAt)
  \/ CarryBoth(deletionAt)
  \/ InvertBoth(deletionAt)

\* The bound is reached, or nobody appends: the tree is only read.
Quiet == ~appending /\ patchId > LastAppended /\ UNCHANGED vars

Next == BeginAppend \/ (appending /\ MergeStep) \/ FinishAppend \/ Quiet

Spec == Init /\ [][Next]_vars

\* append_unsafe is one call: once begun, the merge loop runs to its end.
FairSpec == Spec /\ WF_vars(appending /\ MergeStep) /\ WF_vars(FinishAppend)

-----------------------------------------------------------------------------

Published == MinPatchId .. patchId - 1

IsLists(v) == IsList(v.patches) /\ IsList(v.local)

\* A value of the addition trees, or a reduced one.
IsPlainValue(v) == v = [patches |-> v.patches, local |-> v.local] /\ IsLists(v)

IsPositions(f) ==
  /\ f = [id \in DOMAIN f |-> f[id]]
  /\ DOMAIN f \subseteq Nat
  /\ \A id \in DOMAIN f : f[id] \in [Kinds -> Nat \cup {-1}]

IsDeletionValue(v) ==
  /\ v = [patches |-> v.patches, local |-> v.local, positions |-> v.positions]
  /\ IsLists(v) /\ IsPositions(v.positions)

TypeOK ==
  /\ snapshot \subseteq Triples
  /\ additions = [t \in Triples |-> additions[t]]
  /\ deletions = [t \in Triples |-> deletions[t]]
  /\ reduced = [t \in Triples |-> reduced[t]]
  /\ \A t \in Triples : /\ IsPlainValue(additions[t]) /\ IsPlainValue(reduced[t])
                        /\ IsDeletionValue(deletions[t])
  /\ maxPatchId \in MinPatchId .. LastAppended
  /\ patchId \in MinPatchId .. LastAppended + 1
  /\ appending \in BOOLEAN
  /\ patchAdds \subseteq Triples /\ patchDels \subseteq Triples
  /\ patchAdds \cap patchDels = {}
  /\ {patchAt, deletionAt, additionAt} \subseteq Triples \cup {End}
  /\ addMax \in Nat
  /\ IsABag(tempCounts) /\ IsABag(positionCount)
  /\ \A key \in DOMAIN counts : counts[key] \in Nat

(***************************************************************************)
(* No list of the trees is ever extended or cut in front of its first      *)
(* interval, where interval_list.h steps back from begin(): whatever the   *)
(* merge still has to do with patchId is defined, for every triple, in     *)
(* every branch, and also for the reduced values it rebuilds.              *)
(***************************************************************************)
ListCallsDefined ==
  \A t \in Triples :
    /\ Reaches(additions[t].patches, patchId) /\ Reaches(additions[t].local, patchId)
    /\ Reaches(deletions[t].patches, patchId) /\ Reaches(deletions[t].local, patchId)

(***************************************************************************)
(* "we will never store +/- at the same time for the same patch id"        *)
(* (patch_tree.cc, the D = A branch): a triple is added or deleted in a    *)
(* published version, never both, whatever deltas were appended.           *)
(***************************************************************************)
Exclusive ==
  \A t \in Triples : \A id \in Published :
    ~(IsPatchId(additions[t], id, Outer) /\ Spans(deletions[t].patches, id, Outer))

(***************************************************************************)
(* The local change flags of append_unsafe are exact: the additions a      *)
(* reader takes from a published version are not in the snapshot and the   *)
(* deletions are, so that merging the two with the snapshot returns no     *)
(* triple twice and hides none that is not there                           *)
(* (SnapshotPatchIteratorTripleID relies on it).                           *)
(***************************************************************************)
ChangesRelateToSnapshot ==
  \A t \in Triples : \A id \in Published :
    /\ IsAddition(t, id) => t \notin snapshot
    /\ IsDeletion(t, id) => t \in snapshot

(***************************************************************************)
(* A stored addition count is the number of additions an iteration over    *)
(* the version finds: for every published version and pattern, also when   *)
(* flush_addition_counts passed over a record or a later append rewrote    *)
(* the counts (get_addition_count, increment_addition_counts).             *)
(***************************************************************************)
AdditionCountExact ==
  \A k \in Kinds : \A p \in {Pattern(k, t) : t \in Triples} : \A id \in Published :
    AdditionCount(k, p, id)
      = Cardinality({t \in Matching(Triples, k, p) : IsAddition(t, id)})

(***************************************************************************)
(* patch_tree.h says deletion_count returns the "amount of deletions       *)
(* matching the given triple pattern for the given patch id".              *)
(***************************************************************************)
DeletionCountExact ==
  \A k \in Kinds : \A p \in {Pattern(k, t) : t \in Triples} : \A id \in Published :
    DeletionCount(k, p, id)
      = Cardinality({t \in Matching(Triples, k, p) : IsDeletion(t, id)})

(***************************************************************************)
(* The same while no triple of the snapshot has been deleted and added     *)
(* again: the ranks that the merge stores, carries on and rewrites as      *)
(* other deletions come, are local changes or stay, add up to the count of *)
(* every published version (Patch::positions, the delta positions          *)
(* container, last_deletion_value).                                        *)
(***************************************************************************)
DeletionCountExactUnlessReturned ==
  (\A t \in snapshot : ~(InAdditions(t) /\ InDeletions(t))) => DeletionCountExact

(***************************************************************************)
(* Readers take no lock: no step of a merge, and no later append, changes  *)
(* what a published version contains.                                      *)
(***************************************************************************)
PublishedStable ==
  [][\A id \in MinPatchId - 1 .. patchId - 1 : Version(id)' = Version(id)]_vars

(***************************************************************************)
(* Every append returns: for every way in which the three cursors compare  *)
(* there is a branch, and its should_step flags take the loop nearer to    *)
(* where all three have ended, although it writes records in front of,     *)
(* under and behind the cursors (append_unsafe).                           *)
(***************************************************************************)
AppendReturns == appending ~> ~appending

(***************************************************************************)
(* With valid deltas a chain implements the abstract store: exactly the    *)
(* last step of an append publishes the version the delta describes.       *)
(***************************************************************************)
Store == INSTANCE VersionedStore WITH
  versions <- [i \in 1 .. patchId - MinPatchId + 1 |-> Version(MinPatchId + i - 2)],
  busy <- appending, adds <- patchAdds, dels <- patchDels

ImplementsStore == Store!Spec
=============================================================================
