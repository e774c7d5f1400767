------------------------------ MODULE QueryProofs ------------------------------
(***************************************************************************)
(* Theorems about what queries read of a patch tree: that it stays the     *)
(* same while patches are merged, that the versions a version query names  *)
(* are those the triple is in, that the positions stored of deletions are  *)
(* their ranks and the POS and OSP trees follow the SPO tree, and that the *)
(* counts put together from them are exact.                                *)
(***************************************************************************)
EXTENDS VersionsOfTriple, PatchTreeProofs

-----------------------------------------------------------------------------
(* Positions *)

\* Two delta position containers with the same entries in front of p.
SameBelow(f, g, p) ==
  \A id \in Nat : id < p => /\ id \in DOMAIN g <=> id \in DOMAIN f
                            /\ id \in DOMAIN f => g[id] = f[id]

\* A deletion value in place of d has no entry but at p that is new, and, when d has a
\* patch, keeps the positions in front of p.
PositionsKept(d, e, p) ==
  /\ DOMAIN e.positions \subseteq DOMAIN d.positions \cup {p}
  /\ DOMAIN d.patches # {} => SameBelow(d.positions, e.positions, p)

(***************************************************************************)
(* The positions in force at an id are those of an entry up to it.         *)
(***************************************************************************)
LEMMA SamePositions ==
  ASSUME NEW p \in Nat, NEW f, NEW g, IsPositions(f), IsPositions(g), SameBelow(f, g, p),
         NEW id \in Nat, id < p
  PROVE  GetPositions(g, id) = GetPositions(f, id)
<1>1. DOMAIN f \subseteq Nat /\ DOMAIN g \subseteq Nat
  BY DEF IsPositions
<1>2. EntriesUpTo(g, id) = EntriesUpTo(f, id)
  <2>1. \A e \in Nat : e <= id => (e \in DOMAIN g <=> e \in DOMAIN f)
    BY DEF SameBelow
  <2>2. QED
    BY <1>1, <2>1 DEF EntriesUpTo
<1>3. CASE EntriesUpTo(f, id) = {}
  BY <1>2, <1>3 DEF GetPositions
<1>4. CASE EntriesUpTo(f, id) # {}
  <2>1. PICK before : before = EntriesUpTo(f, id)
    OBVIOUS
  <2>2. before \subseteq Nat /\ before # {} /\ \A e \in before : e <= id
    BY <1>1, <1>4, <2>1 DEF EntriesUpTo
  <2>3. PICK last : last = Max(before)
    OBVIOUS
  <2>4. last \in before
    BY <2>2, <2>3, MaxOfBounded
  <2>5. last \in Nat /\ last < p /\ last \in DOMAIN f
    BY <2>1, <2>2, <2>4 DEF EntriesUpTo
  <2>6. g[last] = f[last]
    BY <2>5 DEF SameBelow
  <2>7. QED
    BY <1>2, <1>4, <2>1, <2>3, <2>6 DEF GetPositions
<1>5. QED
  BY <1>3, <1>4

\* insert_positions writes an entry of its own id only.
LEMMA InsertedBelow ==
  ASSUME NEW f, NEW p \in Nat, NEW new
  PROVE  /\ SameBelow(f, InsertPositions(f, p, new), p)
         /\ DOMAIN InsertPositions(f, p, new) \subseteq DOMAIN f \cup {p}
<1>1. PICK g : g = [e \in DOMAIN f \cup {p} |-> IF e = p THEN new ELSE f[e]]
  OBVIOUS
<1>2. SameBelow(f, g, p) /\ SameBelow(f, f, p) /\ DOMAIN g \subseteq DOMAIN f \cup {p}
  BY <1>1 DEF SameBelow
<1>3. InsertPositions(f, p, new) = g \/ InsertPositions(f, p, new) = f
  BY <1>1, Zenon DEF InsertPositions
<1>4. QED
  BY <1>2, <1>3

\* A step keeps the positions of the deletion values, in front of the id it merges.
AllPositionsKept == \A u \in Triples : PositionsKept(deletions[u], deletions'[u], patchId)

(***************************************************************************)
(* The writes of the merge to a deletion tree: an element of the id is     *)
(* added or deleted, or a fresh value replaces one that has none.          *)
(***************************************************************************)
LEMMA WritesKeepPositions ==
  ASSUME IInv, NEW t \in Triples
  PROVE  /\ deletions' = deletions => AllPositionsKept
         /\ \A local, new, outer :
              WriteDeletion(t, AddElement(deletions[t], patchId, local, new), outer)
                => AllPositionsKept
         /\ \A outer : WriteDeletion(t, DelElement(deletions[t], patchId), outer)
                => AllPositionsKept
         /\ \A local, new, outer :
              ~InDeletions(t) /\ WriteDeletion(t, FreshDeletion(local, new), outer)
                => AllPositionsKept
<1>1. \A d, p : PositionsKept(d, d, p)
  BY DEF PositionsKept, SameBelow
<1>2. ASSUME NEW w, NEW outer, WriteDeletion(t, w, outer), PositionsKept(deletions[t], w, patchId)
      PROVE  AllPositionsKept
  <2>1. deletions'[t] = w /\ \A u \in Triples \ {t} : deletions'[u] = deletions[u]
    BY <1>2, Written
  <2>2. ASSUME NEW u \in Triples PROVE PositionsKept(deletions[u], deletions'[u], patchId)
    BY <1>1, <1>2, <2>1
  <2>3. QED
    BY <2>2 DEF AllPositionsKept
<1>3. \A local, new :
        PositionsKept(deletions[t], AddElement(deletions[t], patchId, local, new), patchId)
  BY Ids, InsertedBelow DEF PositionsKept, AddElement
<1>4. PositionsKept(deletions[t], DelElement(deletions[t], patchId), patchId)
  BY DEF PositionsKept, DelElement, SameBelow
<1>5. ~InDeletions(t) =>
        \A local, new : PositionsKept(deletions[t], FreshDeletion(local, new), patchId)
  <2>1. \A local, new : DOMAIN FreshDeletion(local, new).positions \subseteq {patchId}
    BY Ids, InsertedBelow DEF FreshDeletion, AddElement, NoDeletion
  <2>2. QED
    BY <2>1 DEF PositionsKept, InDeletions
<1>6. deletions' = deletions => AllPositionsKept
  BY <1>1 DEF AllPositionsKept
<1>7. QED
  BY <1>2, <1>3, <1>4, <1>5, <1>6

\* Every branch of the merge.
LEMMA MergeKeepsPositions ==
  ASSUME IInv, MergeStep
  PROVE  AllPositionsKept
<1>1. \E t \in Triples : Merges(t)
  BY StepsMerge DEF todo
<1>2. ASSUME NEW t \in Triples, CarryDeletionAt(t) PROVE AllPositionsKept
  BY <1>2, WritesKeepPositions DEF CarryDeletionAt, CarryDeletion, Takes
<1>3. ASSUME NEW t \in Triples,
             CarryAdditionAt(t) \/ InsertAdditionAt(t) \/ AddAgainAt(t)
      PROVE  AllPositionsKept
  BY <1>3, WritesKeepPositions
  DEF CarryAdditionAt, CarryAddition, InsertAdditionAt, InsertAddition, AddAgainAt, AddAgain,
      Takes
<1>4. ASSUME NEW t \in Triples, InsertDeletionAt(t) \/ DeleteAddedAt(t)
      PROVE  AllPositionsKept
  BY <1>4, WritesKeepPositions
  DEF InsertDeletionAt, InsertDeletion, DeleteAddedAt, DeleteAdded, Takes
<1>5. ASSUME NEW t \in Triples, ReturnDeletedAt(t) PROVE AllPositionsKept
  BY <1>5, WritesKeepPositions DEF ReturnDeletedAt, ReturnDeleted, Takes
<1>6. ASSUME NEW t \in Triples, DeleteAgainAt(t) PROVE AllPositionsKept
  BY <1>6, WritesKeepPositions DEF DeleteAgainAt, DeleteAgain, Takes
<1>7. ASSUME NEW t \in Triples, NEW invert, NEW q, SettleAt(t, invert, q) PROVE AllPositionsKept
  <2>1. \/ \E local : SettleAsAddition(t, local)
        \/ \E local : SettleAsDeletion(t, local, q)
        \/ deletions' = deletions
    BY <1>7 DEF SettleAt, Settle, trees, Takes
  <2>2. ASSUME NEW local, SettleAsAddition(t, local) PROVE AllPositionsKept
    BY <2>2, WritesKeepPositions DEF SettleAsAddition
  <2>3. ASSUME NEW local, SettleAsDeletion(t, local, q) PROVE AllPositionsKept
    BY <2>3, WritesKeepPositions DEF SettleAsDeletion
  <2>4. QED
    BY <2>1, <2>2, <2>3, WritesKeepPositions
<1>8. QED
  BY <1>1, <1>2, <1>3, <1>4, <1>5, <1>6, <1>7 DEF Merges, CarryBothAt, InvertBothAt

\* Every step.
LEMMA StepKeepsPositions ==
  ASSUME IInv, [Next]_vars
  PROVE  AllPositionsKept
<1>1. CASE appending /\ MergeStep
  BY <1>1, MergeKeepsPositions
<1>2. CASE BeginAppend \/ FinishAppend \/ UNCHANGED vars
  BY <1>2 DEF BeginAppend, FinishAppend, vars, trees, AllPositionsKept, PositionsKept, SameBelow
<1>3. QED
  BY <1>1, <1>2 DEF Next, Quiet

-----------------------------------------------------------------------------
(* What a query reads *)

\* What PositionsOf finds of a deletion of the version, whatever outer limit it is read with.
LEMMA PositionsSeen ==
  ASSUME NEW d, NEW id \in Nat, NEW outer \in Nat, id < outer, NEW other \in Nat, id < other,
         id < MaxValue, IsDeletionValue(d), Spans(d.patches, id, outer)
  PROVE  PositionsOf(d, id, other) = GetPositions(d.positions, id)
<1>1. Holds(d.patches, id)
  BY SpansIsHolds DEF IsDeletionValue, IsLists
<1>2. Spans(d.patches, id, other)
  BY <1>1, SpansIsHolds DEF IsDeletionValue, IsLists
<1>3. QED
  BY <1>2 DEF PositionsOf

\* A step keeps the deletions and additions of a published version and their positions.
LEMMA TripleReadsKept ==
  ASSUME IInv, IInv', [Next]_vars, NEW id \in Published, NEW t \in Triples
  PROVE  /\ IsDeletion(t, id)' <=> IsDeletion(t, id)
         /\ IsAddition(t, id)' <=> IsAddition(t, id)
         /\ IsDeletion(t, id) =>
              /\ GetPositions(deletions'[t].positions, id) = GetPositions(deletions[t].positions, id)
              /\ PositionsOf(deletions[t], id, Outer) = GetPositions(deletions[t].positions, id)
              /\ PositionsOf(deletions[t], id, id + 1) = GetPositions(deletions[t].positions, id)
              /\ PositionsOf(deletions'[t], id, Outer') = GetPositions(deletions'[t].positions, id)
              /\ PositionsOf(deletions'[t], id, id + 1)
                   = GetPositions(deletions'[t].positions, id)
<1>1. /\ patchId <= patchId'
      /\ \A u \in Triples : /\ Keeps(additions[u], additions'[u], patchId)
                            /\ Keeps(deletions[u], deletions'[u], patchId)
  BY ValuesKept
<1>2. /\ id \in Nat /\ id < patchId /\ id < MaxValue
      /\ Outer \in Nat /\ Outer' \in Nat /\ id < Outer /\ id < Outer' /\ id + 1 \in Nat
  BY <1>1, PublishedIds
<1>3. /\ IsDeletion(t, id)' <=> IsDeletion(t, id)
      /\ IsAddition(t, id)' <=> IsAddition(t, id)
  BY <1>1, ChangesKept
<1>4. patchId \in Nat /\ IsDeletionValue(deletions[t]) /\ IsDeletionValue(deletions'[t])
  BY ParametersAssumption DEF IInv, TypeOK
<1>5. CASE IsDeletion(t, id)
  <2>1. Spans(deletions[t].patches, id, Outer) /\ Spans(deletions'[t].patches, id, Outer')
    BY <1>3, <1>5 DEF IsDeletion
  <2>2. DOMAIN deletions[t].patches # {}
    BY <2>1 DEF Spans
  <2>3. SameBelow(deletions[t].positions, deletions'[t].positions, patchId)
    BY <2>2, StepKeepsPositions DEF AllPositionsKept, PositionsKept
  <2>4. GetPositions(deletions'[t].positions, id) = GetPositions(deletions[t].positions, id)
    BY <1>2, <1>4, <2>3, SamePositions DEF IsDeletionValue
  <2>5. /\ PositionsOf(deletions[t], id, Outer) = GetPositions(deletions[t].positions, id)
        /\ PositionsOf(deletions[t], id, id + 1) = GetPositions(deletions[t].positions, id)
    BY <1>2, <1>4, <2>1, PositionsSeen
  <2>6. /\ PositionsOf(deletions'[t], id, Outer') = GetPositions(deletions'[t].positions, id)
        /\ PositionsOf(deletions'[t], id, id + 1) = GetPositions(deletions'[t].positions, id)
    BY <1>2, <1>4, <2>1, PositionsSeen
  <2>7. QED
    BY <1>3, <2>4, <2>5, <2>6
<1>6. QED
  BY <1>3, <1>5

\* The reads of a version that ReadsStable is about.
ReadsKept ==
  \A id \in Published :
    /\ \A t \in Triples :
         /\ IsDeletion(t, id)' = IsDeletion(t, id)
         /\ IsAddition(t, id)' = IsAddition(t, id)
         /\ IsDeletion(t, id) => PositionsOf(deletions[t], id, id + 1)'
                                   = PositionsOf(deletions[t], id, id + 1)
    /\ \A q \in Queries : IsDefaultTree(q[1]) =>
         DeletionCount(q[1], q[2], id)' = DeletionCount(q[1], q[2], id)

\* The count of deletions in the SPO tree is read off the positions of one of them.
LEMMA DeletionCountKept ==
  ASSUME IInv, IInv', [Next]_vars, NEW id \in Published, NEW k, NEW pattern, IsDefaultTree(k)
  PROVE  DeletionCount(k, pattern, id)' = DeletionCount(k, pattern, id)
<1>1. PICK last : last = LastDeletions(k, pattern, id)
  OBVIOUS
<1>2. last \subseteq Triples /\ \A t \in last : IsDeletion(t, id)
  BY <1>1 DEF LastDeletions, Matching
<1>3. LastDeletions(k, pattern, id)' = last
  BY <1>1, TripleReadsKept DEF LastDeletions, Matching
<1>4. CASE last = {}
  BY <1>1, <1>3, <1>4 DEF DeletionCount
<1>5. CASE last # {}
  <2>1. PICK t : t = CHOOSE u \in last : TRUE
    OBVIOUS
  <2>2. t \in last
    BY <1>5, <2>1
  <2>3. t \in Triples /\ IsDeletion(t, id)
    BY <1>2, <2>2
  <2>4. PositionsOf(deletions'[t], id, Outer') = PositionsOf(deletions[t], id, Outer)
    BY <2>3, TripleReadsKept
  <2>5. DeletionCount(k, pattern, id) = PositionsOf(deletions[t], id, Outer)[k] + 1
    BY <1>1, <1>5, <2>1 DEF DeletionCount
  <2>6. DeletionCount(k, pattern, id)' = PositionsOf(deletions'[t], id, Outer')[k] + 1
    BY <1>3, <1>5, <2>1 DEF DeletionCount
  <2>7. QED
    BY <2>4, <2>5, <2>6
<1>6. QED
  BY <1>4, <1>5

\* So each step keeps all of them.
LEMMA StepKeepsReads == IInv /\ IInv' /\ [Next]_vars => ReadsKept
<1> SUFFICES ASSUME IInv, IInv', [Next]_vars, NEW id \in Published
             PROVE  /\ \A t \in Triples :
                         /\ IsDeletion(t, id)' = IsDeletion(t, id)
                         /\ IsAddition(t, id)' = IsAddition(t, id)
                         /\ IsDeletion(t, id) => PositionsOf(deletions[t], id, id + 1)'
                                                   = PositionsOf(deletions[t], id, id + 1)
                    /\ \A q \in Queries : IsDefaultTree(q[1]) =>
                         DeletionCount(q[1], q[2], id)' = DeletionCount(q[1], q[2], id)
  BY DEF ReadsKept
<1>1. ASSUME NEW t \in Triples
      PROVE  /\ IsDeletion(t, id)' = IsDeletion(t, id)
             /\ IsAddition(t, id)' = IsAddition(t, id)
  <2>1. /\ IsDeletion(t, id) \in BOOLEAN /\ IsDeletion(t, id)' \in BOOLEAN
        /\ IsAddition(t, id) \in BOOLEAN /\ IsAddition(t, id)' \in BOOLEAN
    BY DEF IsDeletion, IsAddition
  <2>2. QED
    BY <2>1, TripleReadsKept
<1>2. ASSUME NEW t \in Triples, IsDeletion(t, id)
      PROVE  PositionsOf(deletions[t], id, id + 1)' = PositionsOf(deletions[t], id, id + 1)
  BY <1>2, TripleReadsKept
<1>3. QED
  BY <1>1, <1>2, DeletionCountKept

(***************************************************************************)
(* A query takes no lock and reads the tree several times (controller.cc   *)
(* get_version_materialized): each step of a merge, for every delta,       *)
(* leaves what it reads of a published version: the changes, the positions *)
(* of the deletions and the counts that offsets are computed with.         *)
(***************************************************************************)
THEOREM ReadsAreStable == Spec => ReadsStable
<1>1. IInv /\ IInv' /\ [Next]_vars => [ReadsKept]_vars
  BY StepKeepsReads
<1>2. QED
  BY <1>1, Inductive, PTL DEF Spec, ReadsStable, ReadsKept

-----------------------------------------------------------------------------
(* The versions of a triple *)

(***************************************************************************)
(* The invariant that adds to SInv what the values of a triple say of the  *)
(* earlier versions: from the first id of either value on, each published  *)
(* id is in exactly one of them.                                           *)
(***************************************************************************)
OneOfBoth ==
  \A t \in Triples : \A e, id \in Published :
    e <= id /\ (Holds(additions[t].patches, e) \/ Holds(deletions[t].patches, e))
      => (Holds(additions[t].patches, id) <=> ~Holds(deletions[t].patches, id))

\* The end of an append publishes the id that it completed.
LEMMA FinishOneOfBoth == ASSUME IInv, SInv, OneOfBoth, FinishAppend PROVE OneOfBoth'
<1>1. /\ appending /\ Remaining = {} /\ patchId' = patchId + 1
      /\ additions' = additions /\ deletions' = deletions
  BY NothingLeft DEF FinishAppend, trees
<1>2. patchId \in Nat /\ MinPatchId \in Nat
  BY Ids
<1>3. SUFFICES ASSUME NEW t \in Triples, NEW e \in Published', NEW id \in Published', e <= id,
                      Holds(additions[t].patches, e) \/ Holds(deletions[t].patches, e)
               PROVE  Holds(additions[t].patches, id) <=> ~Holds(deletions[t].patches, id)
  BY <1>1 DEF OneOfBoth
<1>4. e \in MinPatchId .. patchId /\ id \in MinPatchId .. patchId
  BY <1>1, <1>2, <1>3 DEF Published
<1>5. CASE id = patchId
  <2>1. AtRest(t, patchId)
    BY <1>1, AllMerged
  <2>2. DOMAIN additions[t].patches # {} \/ DOMAIN deletions[t].patches # {}
    BY <1>3 DEF Holds
  <2>3. QED
    BY <1>5, <2>1, <2>2 DEF AtRest, Complete
<1>6. CASE id # patchId
  <2>1. e \in Published /\ id \in Published
    BY <1>2, <1>3, <1>4, <1>6 DEF Published
  <2>2. QED
    BY <1>3, <2>1 DEF OneOfBoth
<1>7. QED
  BY <1>5, <1>6

\* Every step keeps it.
LEMMA NextOneOfBoth == IInv /\ SInv /\ OneOfBoth /\ [Next]_vars => OneOfBoth'
<1> SUFFICES ASSUME IInv, SInv, OneOfBoth, [Next]_vars PROVE OneOfBoth'
  OBVIOUS
<1>1. CASE FinishAppend
  BY <1>1, FinishOneOfBoth
<1>2. CASE patchId' = patchId
  <2>1. Published' = Published /\ \A id \in Published : id \in Nat /\ id < patchId
    BY <1>2, Ids DEF Published
  <2>2. \A t \in Triples : /\ Keeps(additions[t], additions'[t], patchId)
                           /\ Keeps(deletions[t], deletions'[t], patchId)
    BY ValuesKept
  <2>3. \A t \in Triples : \A id \in Published :
          /\ Holds(additions'[t].patches, id) <=> Holds(additions[t].patches, id)
          /\ Holds(deletions'[t].patches, id) <=> Holds(deletions[t].patches, id)
    BY <2>1, <2>2 DEF Keeps
  <2>4. QED
    BY <2>1, <2>3 DEF OneOfBoth
<1>3. CASE appending /\ MergeStep
  <2>1. PICK t \in Triples : Branch(t)
    BY <1>3, EveryBranch
  <2>2. QED
    BY <1>2, <2>1 DEF Branch, Pass
<1>4. QED
  BY <1>1, <1>2, <1>3 DEF Next, Quiet, BeginAppend, vars, merge, cursors

(***************************************************************************)
(* Each published id from the first one of a triple on is either an        *)
(* addition or a deletion of it, whatever valid deltas come later.         *)
(***************************************************************************)
THEOREM AlwaysOneOfBoth ==
  ASSUME ValidDeltasOnly
  PROVE  Spec => []OneOfBoth
<1>1. Init => OneOfBoth
  <2> SUFFICES ASSUME Init PROVE OneOfBoth
    OBVIOUS
  <2>1. Published = {}
    BY ParametersAssumption DEF Init, Published
  <2>2. QED
    BY <2>1 DEF OneOfBoth
<1>2. IInv /\ SInv /\ OneOfBoth /\ [Next]_vars => OneOfBoth'
  BY NextOneOfBoth
<1>3. QED
  BY <1>1, <1>2, Inductive, AlwaysComplete, PTL DEF Spec

(***************************************************************************)
(* Once the first patch is complete, the ids below the outer limit are the *)
(* published ones, and the virtual vector of a list has those it holds.    *)
(***************************************************************************)
LEMMA ElementsHeld ==
  ASSUME IInv, maxPatchId < patchId, NEW l, Settled(l, patchId)
  PROVE  /\ Outer = patchId /\ maxPatchId = patchId - 1
         /\ Elements(l, Outer) = {id \in Nat : id < patchId /\ Holds(l, id)}
<1>1. patchId \in Nat /\ patchId < MaxValue /\ MaxValue \in Nat /\ maxPatchId \in Nat
  BY Ids, MaxValueAssumption
<1>2. maxPatchId = patchId - 1
  BY <1>1 DEF IInv
<1>3. Outer = patchId
  BY <1>1, <1>2 DEF Outer
<1>4. \A s \in DOMAIN l : /\ s \in Nat /\ l[s] \in Nat /\ s <= patchId
                          /\ l[s] <= patchId \/ l[s] = MaxValue
  BY DEF Settled, IsList
<1>5. ASSUME NEW s \in DOMAIN l
      PROVE  s .. (EndOf(l, s, Outer) - 1) = {id \in Nat : id < patchId /\ s <= id /\ id < l[s]}
  BY <1>1, <1>3, <1>4 DEF EndOf
<1>6. Elements(l, Outer) = UNION {{id \in Nat : id < patchId /\ s <= id /\ id < l[s]} : s \in DOMAIN l}
  BY <1>5 DEF Elements
<1>7. QED
  BY <1>2, <1>3, <1>6 DEF Holds

\* The triple is in a version after the snapshot when its values say so.
LEMMA InVersion ==
  ASSUME IInv, SInv, NEW id \in SnapshotId .. patchId - 1, NEW t \in Triples
  PROVE  t \in Version(id) <=> In(t, id)
BY VersionIs DEF SnapshotId

\* Nothing is held in front of the chain.
LEMMA NotBeforeChain ==
  ASSUME IInv, SInv, NEW t \in Triples, NEW id \in Nat,
         Holds(additions[t].patches, id) \/ Holds(deletions[t].patches, id)
  PROVE  MinPatchId <= id
<1>1. Solid(additions[t].patches) /\ Solid(deletions[t].patches)
  BY DEF SInv, AtRest, Complete
<1>2. Settled(additions[t].patches, patchId) /\ Settled(deletions[t].patches, patchId)
  BY DEF IInv, SettledValue
<1>3. ASSUME NEW l, Solid(l), Settled(l, patchId), Holds(l, id) PROVE MinPatchId <= id
  BY <1>3, Ids DEF Solid, Holds, Settled, IsList
<1>4. QED
  BY <1>1, <1>2, <1>3

(***************************************************************************)
(* eraseDeletedVersions on a triple that is in some published version.     *)
(***************************************************************************)
LEMMA VersionsOfIs ==
  ASSUME IInv, SInv, OneOfBoth, maxPatchId < patchId, NEW t \in Triples,
         NEW some \in Versions, In(t, some)
  PROVE  VersionsOf(t) = {id \in Versions : In(t, id)}
<1> DEFINE a == additions[t].patches
           d == deletions[t].patches
<1>1. /\ patchId \in Nat /\ MinPatchId \in Nat \ {0} /\ SnapshotId \in Nat
      /\ SnapshotId = MinPatchId - 1 /\ some \in Nat /\ some < patchId
      /\ Versions = SnapshotId .. patchId - 1
  BY Ids, ParametersAssumption DEF SnapshotId, Versions
<1>2. Settled(a, patchId) /\ Settled(d, patchId)
  BY DEF IInv, SettledValue
<1> HIDE DEF a, d
<1>3. /\ maxPatchId = patchId - 1
      /\ Elements(a, Outer) = {id \in Nat : id < patchId /\ Holds(a, id)}
      /\ Elements(d, Outer) = {id \in Nat : id < patchId /\ Holds(d, id)}
  BY <1>2, ElementsHeld
<1>4. \A first \in Nat : VersionsFrom(t, first) = {id \in first .. patchId - 1 : ~Holds(d, id)}
  <2>1. \A first \in Nat : \A id \in first .. patchId - 1 : id \in Nat /\ id < patchId
    BY <1>1
  <2>2. \A first \in Nat :
          VersionsFrom(t, first) = (first .. patchId - 1) \ {id \in Nat : id < patchId /\ Holds(d, id)}
    BY <1>3 DEF VersionsFrom, d
  <2>3. QED
    BY <2>1, <2>2
<1>5. CASE t \in snapshot
  <2>1. VersionsOf(t) = VersionsFrom(t, SnapshotId)
    BY <1>5 DEF VersionsOf
  <2>2. QED
    BY <1>1, <1>4, <1>5, <2>1 DEF In, d
<1>6. CASE t \notin snapshot
  <2>1. Holds(a, some)
    BY <1>6 DEF In, a
  <2>2. PICK held : held = Elements(a, Outer)
    OBVIOUS
  <2>3. held \subseteq Nat /\ some \in held
    BY <1>1, <1>3, <2>1, <2>2
  <2>4. PICK first : first = Min(held)
    OBVIOUS
  <2>5. first \in held /\ \A id \in held : first <= id
    BY <2>3, <2>4, MinOfNat
  <2>6. first \in Nat /\ first < patchId /\ Holds(a, first) /\ MinPatchId <= first
    BY <1>3, <2>2, <2>5, NotBeforeChain DEF a
  <2>7. VersionsOf(t) = VersionsFrom(t, first)
    BY <1>6, <2>2, <2>3, <2>4 DEF VersionsOf, FirstPatchId, FirstElement, a
  <2>8. \A id \in Nat : id < patchId /\ Holds(a, id) => first <= id
    BY <1>3, <2>2, <2>5
  <2>9. \A id \in first .. patchId - 1 : Holds(a, id) <=> ~Holds(d, id)
    <3>1. \A id \in first .. patchId - 1 : id \in Published /\ first <= id
      BY <1>1, <2>6 DEF Published
    <3>2. first \in Published
      BY <1>1, <2>6 DEF Published
    <3>3. QED
      BY <2>6, <3>1, <3>2 DEF OneOfBoth, a, d
  <2>10. \A id \in Versions : In(t, id) <=> id \in first .. patchId - 1 /\ ~Holds(d, id)
    <3>1. \A id \in Versions : In(t, id) <=> Holds(a, id)
      BY <1>6 DEF In, a
    <3>2. \A id \in Versions : id \in Nat /\ id < patchId
      BY <1>1
    <3>3. \A id \in Versions : Holds(a, id) => id \in first .. patchId - 1
      BY <1>1, <2>6, <2>8, <3>2
    <3>4. QED
      BY <2>9, <3>1, <3>3
  <2>11. first .. patchId - 1 \subseteq Versions
    BY <1>1, <2>6
  <2>12. VersionsFrom(t, first) = {id \in first .. patchId - 1 : ~Holds(d, id)}
    BY <1>4, <2>6
  <2>13. QED
    BY <2>7, <2>10, <2>11, <2>12
<1>7. QED
  BY <1>5, <1>6

-----------------------------------------------------------------------------
(* Orders *)

\* The order of two triples of components.
LEMMA LexicographicIs ==
  ASSUME NEW a \in Nat, NEW b \in Nat, NEW c \in Nat, NEW x \in Nat, NEW y \in Nat, NEW z \in Nat
  PROVE  Lexicographic(<<a, b, c>>, <<x, y, z>>)
           <=> a < x \/ (a = x /\ b < y) \/ (a = x /\ b = y /\ c < z)
<1> DEFINE f == <<a, b, c>>
           g == <<x, y, z>>
           At(i) == f[i] < g[i] /\ \A j \in 1 .. i - 1 : f[j] = g[j]
<1>1. /\ f[1] = a /\ f[2] = b /\ f[3] = c
      /\ g[1] = x /\ g[2] = y /\ g[3] = z
  OBVIOUS
<1> HIDE DEF f, g
<1>2. 1 .. 3 = {1, 2, 3} /\ 1 .. 1 - 1 = {} /\ 1 .. 2 - 1 = {1} /\ 1 .. 3 - 1 = {1, 2}
  OBVIOUS
<1>3. At(1) <=> a < x
  BY <1>1, <1>2
<1>4. At(2) <=> a = x /\ b < y
  BY <1>1, <1>2
<1>5. At(3) <=> a = x /\ b = y /\ c < z
  BY <1>1, <1>2
<1>6. Lexicographic(f, g) <=> \E i \in 1 .. 3 : At(i)
  BY DEF Lexicographic
<1> HIDE DEF At
<1>7. Lexicographic(f, g) <=> At(1) \/ At(2) \/ At(3)
  BY <1>2, <1>6
<1>8. QED
  BY <1>3, <1>4, <1>5, <1>7 DEF f, g

(***************************************************************************)
(* Each of the three trees orders the triples: no triple precedes itself,  *)
(* of two one precedes the other, and preceding is transitive.             *)
(***************************************************************************)
LEMMA PrecedesOrders ==
  ASSUME NEW k
  PROVE  /\ \A t \in Triples : ~Precedes(k, t, t)
         /\ \A t, u \in Triples : t # u => Precedes(k, t, u) \/ Precedes(k, u, t)
         /\ \A t, u, v \in Triples : Precedes(k, t, u) /\ Precedes(k, u, v) => Precedes(k, t, v)
<1> DEFINE Smaller(f, g, h, t, u) == \/ f[t] < f[u]
                                     \/ f[t] = f[u] /\ g[t] < g[u]
                                     \/ f[t] = f[u] /\ g[t] = g[u] /\ h[t] < h[u]
<1>1. \A t \in Triples : /\ t \in Nat
                         /\ Subject[t] \in Nat /\ Predicate[t] \in Nat /\ Object[t] \in Nat
  BY TriplesAssumption, ComponentsAssumption
<1>2. ASSUME NEW f \in [Triples -> Nat], NEW g \in [Triples -> Nat], NEW h \in [Triples -> Nat],
             NEW t \in Triples, NEW u \in Triples
      PROVE  Lexicographic(<<f[t], g[t], h[t]>>, <<f[u], g[u], h[u]>>) <=> Smaller(f, g, h, t, u)
  <2>1. f[t] \in Nat /\ g[t] \in Nat /\ h[t] \in Nat /\ f[u] \in Nat /\ g[u] \in Nat /\ h[u] \in Nat
    OBVIOUS
  <2>2. QED
    BY <2>1, LexicographicIs
<1>3. /\ Subject \in [Triples -> Nat] /\ Predicate \in [Triples -> Nat]
      /\ Object \in [Triples -> Nat]
  BY ComponentsAssumption
<1>4. \A t, u \in Triples : t < u <=> Smaller(Subject, Predicate, Object, t, u)
  <2> SUFFICES ASSUME NEW t \in Triples, NEW u \in Triples
               PROVE  t < u <=> Smaller(Subject, Predicate, Object, t, u)
    OBVIOUS
  <2>1. t < u <=> Lexicographic(<<Subject[t], Predicate[t], Object[t]>>,
                                <<Subject[u], Predicate[u], Object[u]>>)
    BY OrderAssumption
  <2>2. Lexicographic(<<Subject[t], Predicate[t], Object[t]>>,
                      <<Subject[u], Predicate[u], Object[u]>>)
          <=> Smaller(Subject, Predicate, Object, t, u)
    BY <1>2, <1>3
  <2>3. QED
    BY <2>1, <2>2
\* Two triples differ in a component.
<1>5. ASSUME NEW t \in Triples, NEW u \in Triples, t # u
      PROVE  Subject[t] # Subject[u] \/ Predicate[t] # Predicate[u] \/ Object[t] # Object[u]
  BY <1>1, <1>4, <1>5
<1>6. CASE Order(k) = "SPO"
  <2>1. \A t, u \in Triples : Precedes(k, t, u) <=> t < u
    BY <1>6 DEF Precedes
  <2>2. QED
    BY <1>1, <2>1
<1>7. CASE Order(k) = "POS"
  <2>1. \A t, u \in Triples : Precedes(k, t, u) <=> Smaller(Predicate, Object, Subject, t, u)
    <3> SUFFICES ASSUME NEW t \in Triples, NEW u \in Triples
                 PROVE  Precedes(k, t, u) <=> Smaller(Predicate, Object, Subject, t, u)
      OBVIOUS
    <3>1. Precedes(k, t, u) <=> Lexicographic(<<Predicate[t], Object[t], Subject[t]>>,
                                              <<Predicate[u], Object[u], Subject[u]>>)
      BY <1>7 DEF Precedes
    <3>2. QED
      BY <1>2, <1>3, <3>1
  <2>2. QED
    BY <1>1, <1>5, <2>1
<1>8. CASE Order(k) = "OSP"
  <2>1. \A t, u \in Triples : Precedes(k, t, u) <=> Smaller(Object, Subject, Predicate, t, u)
    <3> SUFFICES ASSUME NEW t \in Triples, NEW u \in Triples
                 PROVE  Precedes(k, t, u) <=> Smaller(Object, Subject, Predicate, t, u)
      OBVIOUS
    <3>1. Precedes(k, t, u) <=> Lexicographic(<<Object[t], Subject[t], Predicate[t]>>,
                                              <<Object[u], Subject[u], Predicate[u]>>)
      BY <1>8 DEF Precedes
    <3>2. QED
      BY <1>2, <1>3, <3>1
  <2>2. QED
    BY <1>1, <1>5, <2>1
<1>9. QED
  BY <1>6, <1>7, <1>8 DEF Order

\* How many triples of the set come before the triple.
Preceding(k, S, t) == {u \in S : Precedes(k, u, t)}
Place(k, S, t)  == Cardinality(Preceding(k, S, t))

(***************************************************************************)
(* The places of a set's triples are the numbers below its size, each of   *)
(* one triple, and grow in the order of the tree.                          *)
(***************************************************************************)
LEMMA Places ==
  ASSUME NEW k, NEW S, S \subseteq Triples
  PROVE  /\ IsFiniteSet(S) /\ Cardinality(S) \in Nat
         /\ \A t \in S : Place(k, S, t) \in 0 .. Cardinality(S) - 1
         /\ \A t, u \in S : Place(k, S, t) < Place(k, S, u) <=> Precedes(k, t, u)
         /\ \A i \in 0 .. Cardinality(S) - 1 : \E t \in S : Place(k, S, t) = i
<1> DEFINE n == Cardinality(S)
<1>1. IsFiniteSet(S) /\ n \in Nat
  BY TriplesAssumption, FS_Subset, FS_CardinalityType
<1>2. \A t \in S : Preceding(k, S, t) \subseteq S /\ t \notin Preceding(k, S, t)
  BY PrecedesOrders DEF Preceding
<1>3. \A t \in S : Place(k, S, t) \in 0 .. n - 1
  <2> SUFFICES ASSUME NEW t \in S PROVE Place(k, S, t) \in 0 .. n - 1
    OBVIOUS
  <2>1. IsFiniteSet(S \ {t}) /\ Cardinality(S \ {t}) = n - 1
    BY <1>1, FS_RemoveElement
  <2>2. Preceding(k, S, t) \in SUBSET (S \ {t})
    BY <1>2
  <2>3. IsFiniteSet(Preceding(k, S, t)) /\ Place(k, S, t) <= n - 1
    BY <2>1, <2>2, FS_Subset DEF Place
  <2>4. Place(k, S, t) \in Nat
    BY <2>3, FS_CardinalityType DEF Place
  <2>5. QED
    BY <1>1, <2>3, <2>4
<1>4. ASSUME NEW t \in S, NEW u \in S, Precedes(k, t, u)
      PROVE  Place(k, S, t) < Place(k, S, u)
  <2>1. Preceding(k, S, t) \in SUBSET Preceding(k, S, u)
    BY <1>4, PrecedesOrders DEF Preceding
  <2>2. t \in Preceding(k, S, u) /\ t \notin Preceding(k, S, t)
    BY <1>2, <1>4 DEF Preceding
  <2>3. IsFiniteSet(Preceding(k, S, u))
    BY <1>1, <1>2, FS_Subset
  <2>4. Place(k, S, t) <= Place(k, S, u) /\ Place(k, S, t) # Place(k, S, u)
    BY <2>1, <2>2, <2>3, FS_Subset DEF Place
  <2>5. QED
    BY <1>3, <2>4
<1>5. ASSUME NEW t \in S, NEW u \in S, Place(k, S, t) < Place(k, S, u)
      PROVE  Precedes(k, t, u)
  <2>1. t # u /\ ~(Place(k, S, u) < Place(k, S, t))
    BY <1>3, <1>5
  <2>2. ~Precedes(k, u, t)
    BY <1>4, <2>1
  <2>3. QED
    BY <2>1, <2>2, PrecedesOrders
<1>6. ASSUME NEW i \in 0 .. n - 1 PROVE \E t \in S : Place(k, S, t) = i
  <2>1. PICK place : place = [t \in S |-> Place(k, S, t)]
    OBVIOUS
  <2>2. place \in [S -> 0 .. n - 1] /\ \A t \in S : place[t] = Place(k, S, t)
    BY <1>3, <2>1
  <2>3. \A t, u \in S : place[t] = place[u] => t = u
    <3> SUFFICES ASSUME NEW t \in S, NEW u \in S, t # u PROVE place[t] # place[u]
      OBVIOUS
    <3>1. Place(k, S, t) < Place(k, S, u) \/ Place(k, S, u) < Place(k, S, t)
      BY <1>4, PrecedesOrders
    <3>2. QED
      BY <1>3, <2>2, <3>1
  <2>4. place \in Injection(S, 0 .. n - 1)
    BY <2>2, <2>3 DEF Injection, IsInjective
  <2>5. n - 1 \in Int /\ 0 \in Int
    BY <1>1
  <2>6. IsFiniteSet(0 .. n - 1) /\ Cardinality(0 .. n - 1) = n
    <3>1. n = 0 \/ n > 0
      BY <1>1
    <3>2. QED
      BY <1>1, <2>5, <3>1, FS_Interval
  <2>7. place \in Surjection(S, 0 .. n - 1)
    BY <2>4, <2>6, FS_Injection
  <2>8. QED
    BY <2>2, <2>7 DEF Surjection
<1>7. QED
  BY <1>1, <1>3, <1>4, <1>5, <1>6

(***************************************************************************)
(* The sorted triples of a set: each of them once, in the tree's order.    *)
(***************************************************************************)
LEMMA SortedFacts ==
  ASSUME NEW k, NEW S, S \subseteq Triples
  PROVE  /\ DOMAIN SortedIn(k, S) = 1 .. Cardinality(S)
         /\ \A i \in DOMAIN SortedIn(k, S) : SortedIn(k, S)[i] \in S
         /\ \A i, j \in DOMAIN SortedIn(k, S) :
              i < j => Precedes(k, SortedIn(k, S)[i], SortedIn(k, S)[j])
         /\ \A t \in S : \E i \in DOMAIN SortedIn(k, S) : SortedIn(k, S)[i] = t
<1> DEFINE n == Cardinality(S)
           sorted == SortedIn(k, S)
<1>1. DOMAIN sorted = 1 .. n
  BY DEF SortedIn
<1>2. \A i \in 1 .. n : sorted[i] = CHOOSE t \in S : Place(k, S, t) = i - 1
  BY DEF SortedIn, Place, Preceding
<1> HIDE DEF sorted
<1>3. \A i \in 1 .. n : sorted[i] \in S /\ Place(k, S, sorted[i]) = i - 1
  <2> SUFFICES ASSUME NEW i \in 1 .. n PROVE sorted[i] \in S /\ Place(k, S, sorted[i]) = i - 1
    OBVIOUS
  <2>1. i - 1 \in 0 .. n - 1
    BY Places
  <2>2. \E t \in S : Place(k, S, t) = i - 1
    BY <2>1, Places
  <2>3. QED
    BY <1>2, <2>2
<1>4. ASSUME NEW i \in 1 .. n, NEW j \in 1 .. n, i < j
      PROVE  Precedes(k, sorted[i], sorted[j])
  <2>1. Place(k, S, sorted[i]) < Place(k, S, sorted[j])
    BY <1>3, <1>4, Places
  <2>2. QED
    BY <1>3, <2>1, Places
<1>5. ASSUME NEW t \in S PROVE \E i \in 1 .. n : sorted[i] = t
  <2>1. PICK i : i = Place(k, S, t) + 1
    OBVIOUS
  <2>2. i \in 1 .. n /\ Place(k, S, t) = i - 1
    BY <2>1, Places
  <2>3. sorted[i] = t
    <3>1. sorted[i] \in S /\ Place(k, S, sorted[i]) = i - 1
      BY <1>3, <2>2
    <3>2. ~Precedes(k, t, sorted[i]) /\ ~Precedes(k, sorted[i], t)
      BY <2>2, <3>1, Places
    <3>3. QED
      BY <3>1, <3>2, PrecedesOrders
  <2>4. QED
    BY <2>2, <2>3
<1>6. QED
  BY <1>1, <1>3, <1>4, <1>5 DEF sorted

-----------------------------------------------------------------------------
(* Version queries *)

PublishedOf(t) == {id \in Versions : t \in Version(id)}

\* The triples that a version query looks up the versions of.
Found == snapshot \cup {t \in Triples : InAdditions(t)}

(***************************************************************************)
(* The triples found are those of a published version, except that during  *)
(* an append those of the coming version are among them; and the iterator  *)
(* names for each triple the versions it is in.                            *)
(***************************************************************************)
LEMMA TripleVersions ==
  ASSUME IInv, SInv, OneOfBoth, NEW t \in Triples
  PROVE  /\ PublishedOf(t) # {} => t \in Found
         /\ ~appending /\ t \in Found => PublishedOf(t) # {}
         /\ maxPatchId < patchId /\ PublishedOf(t) # {} => VersionsOf(t) = PublishedOf(t)
<1>1. /\ patchId \in Nat /\ MinPatchId \in Nat \ {0} /\ MinPatchId <= patchId
      /\ SnapshotId = MinPatchId - 1 /\ Versions = SnapshotId .. patchId - 1
  <2>1. patchId \in Nat /\ MinPatchId \in Nat \ {0} /\ MinPatchId <= patchId
    BY Ids, ParametersAssumption DEF IInv, TypeOK
  <2>2. QED
    BY <2>1 DEF SnapshotId, Versions
<1>2. PublishedOf(t) = {id \in Versions : In(t, id)}
  <2>1. \A id \in Versions : t \in Version(id) <=> In(t, id)
    BY <1>1, InVersion
  <2>2. QED
    BY <2>1 DEF PublishedOf
<1>3. ASSUME PublishedOf(t) # {} PROVE t \in Found
  <2>1. PICK id \in Versions : In(t, id)
    BY <1>2, <1>3
  <2>2. QED
    BY <2>1 DEF In, Holds, InAdditions, Found
<1>4. ASSUME ~appending, t \in Found PROVE PublishedOf(t) # {}
  <2>1. CASE t \in snapshot
    <3>1. SnapshotId \in Versions /\ SnapshotId < MinPatchId
      BY <1>1
    <3>2. t \in Version(SnapshotId)
      BY <2>1, <3>1 DEF Version
    <3>3. QED
      BY <3>1, <3>2 DEF PublishedOf
  <2>2. CASE t \notin snapshot
    <3>1. Solid(additions[t].patches) /\ Settled(additions[t].patches, patchId - 1)
      BY <1>4 DEF SInv, Passed, AtRest, Complete, SettledValue
    <3>2. PICK s : s \in DOMAIN additions[t].patches
      BY <1>4, <2>2 DEF Found, InAdditions
    <3>3. /\ MinPatchId <= s /\ s < additions[t].patches[s]
          /\ s \in Nat /\ s <= patchId - 1
      BY <3>1, <3>2 DEF Solid, Settled, IsList
    <3>4. Holds(additions[t].patches, s)
      BY <3>2, <3>3 DEF Holds
    <3>5. s \in Versions /\ In(t, s)
      BY <1>1, <2>2, <3>3, <3>4 DEF In
    <3>6. QED
      BY <1>2, <3>5
  <2>3. QED
    BY <2>1, <2>2
<1>5. ASSUME maxPatchId < patchId, PublishedOf(t) # {} PROVE VersionsOf(t) = PublishedOf(t)
  <2>1. PICK some \in Versions : In(t, some)
    BY <1>2, <1>5
  <2>2. QED
    BY <1>2, <1>5, <2>1, VersionsOfIs
<1>6. QED
  BY <1>3, <1>4, <1>5

\* A version query is right of all its triples at once.
LEMMA QueryExact == IInv /\ SInv /\ OneOfBoth => VersionsExact
<1> SUFFICES ASSUME IInv, SInv, OneOfBoth PROVE VersionsExact
  OBVIOUS
<1> SUFFICES ASSUME NEW q \in Queries
             PROVE  LET result == VersionQuery(q[1], q[2])
                        returned == {result[i].triple : i \in DOMAIN result}
                        published(t) == {id \in Versions : t \in Version(id)}
                    IN /\ \A i, j \in DOMAIN result :
                            i < j => Precedes(q[1], result[i].triple, result[j].triple)
                       /\ \A t \in Matching(Triples, q[1], q[2]) :
                            published(t) # {} => t \in returned
                       /\ \A i \in DOMAIN result :
                            LET versions == result[i].versions
                                exact == published(result[i].triple)
                            IN maxPatchId < patchId /\ (appending => exact # {}) =>
                                 versions = exact /\ exact # {}
  BY DEF VersionsExact
<1> DEFINE found == Matching(Found, q[1], q[2])
           sorted == SortedIn(q[1], found)
           result == VersionQuery(q[1], q[2])
<1>1. found \subseteq Triples /\ Found \subseteq Triples
  BY DEF Matching, Found, IInv, TypeOK
<1>2. /\ DOMAIN result = DOMAIN sorted
      /\ \A i \in DOMAIN sorted : /\ result[i].triple = sorted[i]
                                  /\ result[i].versions = VersionsOf(sorted[i])
  BY DEF VersionQuery, Found
<1>3. /\ \A i \in DOMAIN sorted : sorted[i] \in found
      /\ \A i, j \in DOMAIN sorted : i < j => Precedes(q[1], sorted[i], sorted[j])
      /\ \A t \in found : \E i \in DOMAIN sorted : sorted[i] = t
  BY <1>1, SortedFacts
<1> HIDE DEF sorted, result
<1>4. \A i, j \in DOMAIN result : i < j => Precedes(q[1], result[i].triple, result[j].triple)
  BY <1>2, <1>3
<1>5. \A t \in Matching(Triples, q[1], q[2]) :
        PublishedOf(t) # {} => t \in {result[i].triple : i \in DOMAIN result}
  <2> SUFFICES ASSUME NEW t \in Matching(Triples, q[1], q[2]), PublishedOf(t) # {}
               PROVE  \E i \in DOMAIN result : result[i].triple = t
    OBVIOUS
  <2>1. t \in found
    BY TripleVersions DEF Matching
  <2>2. QED
    BY <1>2, <1>3, <2>1
<1>6. ASSUME NEW i \in DOMAIN result, maxPatchId < patchId,
             appending => PublishedOf(result[i].triple) # {}
      PROVE  /\ result[i].versions = PublishedOf(result[i].triple)
             /\ PublishedOf(result[i].triple) # {}
  <2>1. PICK t : t = sorted[i]
    OBVIOUS
  <2>2. t \in Found /\ t \in Triples
    BY <1>1, <1>2, <1>3, <1>6, <2>1 DEF Matching
  <2>3. result[i].triple = t /\ result[i].versions = VersionsOf(t)
    BY <1>2, <1>6, <2>1
  <2>4. PublishedOf(t) # {}
    BY <1>6, <2>2, <2>3, TripleVersions
  <2>5. VersionsOf(t) = PublishedOf(t)
    BY <1>6, <2>2, <2>4, TripleVersions
  <2>6. QED
    BY <2>3, <2>4, <2>5
<1>7. QED
  BY <1>4, <1>5, <1>6 DEF result, PublishedOf

(***************************************************************************)
(* Whatever valid deltas are appended and however a query interleaves with *)
(* a merge, it returns each triple of a published version once, in order,  *)
(* with exactly the versions it is in (PatchTreeTripleVersionsIteratorV2). *)
(***************************************************************************)
THEOREM ChainVersionsExact ==
  ASSUME ValidDeltasOnly
  PROVE  Spec => []VersionsExact
BY QueryExact, Inductive, AlwaysComplete, AlwaysOneOfBoth, PTL
-----------------------------------------------------------------------------
(* Deletion counts *)

(***************************************************************************)
(* The condition of DeletionCountExactUnlessReturned.                      *)
(***************************************************************************)
NoneReturned == \A t \in snapshot : ~(InAdditions(t) /\ InDeletions(t))

\* The deletions that come before t among those of the version that t shares the pattern with.
DeletedBefore(k, t, id) ==
  {u \in snapshot : u < t /\ Pattern(k, u) = Pattern(k, t) /\ Holds(deletions[u].patches, id)}

RanksOf(t, id) == [k \in Kinds |-> Cardinality(DeletedBefore(k, t, id))]

\* If the triple is a deletion of the version, its positions are its ranks in it.
Ranked(t, id) ==
  Holds(deletions[t].patches, id) => GetPositions(deletions[t].positions, id) = RanksOf(t, id)

\* The deletions of the coming version that the merge has passed.
PassedDeletions(k, p) ==
  {u \in snapshot : Passed(u) /\ Pattern(k, u) = p /\ Holds(deletions[u].patches, patchId)}

(***************************************************************************)
(* The inductive invariant of positions, with SInv: no position is stored  *)
(* for an id to come; and as long as no triple of the snapshot has         *)
(* returned, the counters of positions are the numbers of deletions        *)
(* passed, and the positions in force at a complete id are the ranks in    *)
(* its version.                                                            *)
(***************************************************************************)
RankInv ==
  /\ \A t \in Triples : \A e \in DOMAIN deletions[t].positions : e <= patchId
  /\ NoneReturned =>
       /\ appending => \A k \in Kinds : \A p \in PatternsOf(k) :
                         Rank(k, p) = Cardinality(PassedDeletions(k, p))
       /\ \A t \in snapshot : /\ \A id \in Published : Ranked(t, id)
                              /\ Passed(t) => Ranked(t, patchId)

\* The merge goes through the triples in order.
LEMMA PassedInOrder ==
  ASSUME IInv, NEW u \in Triples \ todo, NEW w \in todo
  PROVE  u < w
<1>1. u \in Nat /\ w \in Nat
  BY TriplesAssumption DEF todo
<1>2. PICK at \in {patchAt, deletionAt, additionAt} : at # End /\ at <= w
  BY DEF todo
<1>3. ~(at <= u) /\ at \in Nat
  BY <1>2, TriplesAssumption DEF todo, IInv, TypeOK
<1>4. QED
  BY <1>1, <1>2, <1>3

\* The id is the first that the list holds.
Begins(l, id) == id \in Nat /\ Holds(l, id) /\ \A e \in Nat : Holds(l, e) => id <= e

\* The reduced value of a deletion that begins at the id, by whether the snapshot has the triple.
ReducedFrom(id, old) ==
  [patches |-> Opened(id), local |-> IF old THEN EmptyList ELSE Opened(id)]

(***************************************************************************)
(* What the POS and OSP trees hold: of a deletion only its first id.       *)
(***************************************************************************)
ReducedInv ==
  \A t \in Triples :
    IF InDeletions(t)
    THEN \E id \in Nat : /\ Begins(deletions[t].patches, id)
                         /\ reduced[t] = ReducedFrom(id, t \in snapshot)
    ELSE reduced[t] = NoReduced

(***************************************************************************)
(* Positions inserted at an id behind all entries are in force at it.      *)
(***************************************************************************)
LEMMA InsertedAtEnd ==
  ASSUME NEW f, IsPositions(f), NEW p \in Nat, \A e \in DOMAIN f : e <= p, NEW new
  PROVE  GetPositions(InsertPositions(f, p, new), p) = new
<1>1. PICK g : g = [e \in DOMAIN f \cup {p} |-> IF e = p THEN new ELSE f[e]]
  OBVIOUS
<1>2. DOMAIN f \subseteq Nat
  BY DEF IsPositions
<1>3. EntriesUpTo(f, p) = DOMAIN f /\ EntriesUpTo(g, p) = DOMAIN f \cup {p}
  BY <1>1 DEF EntriesUpTo
<1>4. GetPositions(g, p) = new
  <2>1. PICK last : last = Max(DOMAIN f \cup {p})
    OBVIOUS
  <2>2. last \in DOMAIN f \cup {p} /\ p <= last
    BY <1>2, <2>1, MaxOfBounded
  <2>3. last = p
    BY <1>2, <2>2
  <2>4. GetPositions(g, p) = g[last]
    BY <1>3, <2>1 DEF GetPositions
  <2>5. QED
    BY <1>1, <2>3, <2>4
<1>5. CASE InsertPositions(f, p, new) = g
  BY <1>4, <1>5
<1>6. CASE InsertPositions(f, p, new) # g
  <2>1. /\ InsertPositions(f, p, new) = f /\ DOMAIN f # {}
        /\ f[Max(DOMAIN f)] = new
    BY <1>1, <1>3, <1>6 DEF InsertPositions
  <2>2. QED
    BY <1>3, <2>1 DEF GetPositions
<1>7. QED
  BY <1>5, <1>6

\* What insertDeletionSingle leaves in the reduced trees.
LEMMA ReducedWritten ==
  ASSUME IInv, NEW t \in Triples, NEW w, NEW outer, WriteDeletion(t, w, outer)
  PROVE  /\ deletions'[t] = w
         /\ reduced'[t] = IF w = deletions[t] THEN reduced[t] ELSE ToReduced(w, outer)
         /\ \A u \in Triples \ {t} : reduced'[u] = reduced[u]
BY Written DEF IInv, TypeOK, WriteDeletion

(***************************************************************************)
(* to_reduced of a value whose flags follow the snapshot, read up to an    *)
(* id that its list is settled at.                                         *)
(***************************************************************************)
LEMMA ReducedIs ==
  ASSUME NEW v, NEW outer \in Nat, outer <= MaxValue,
         NEW p \in Nat, Settled(v.patches, p),
         NEW old \in BOOLEAN, v.local = IF old THEN EmptyList ELSE v.patches,
         NEW first, Begins(v.patches, first), first < outer
  PROVE  ToReduced(v, outer) = ReducedFrom(first, old)
<1>1. PICK ids : ids = Elements(v.patches, outer)
  OBVIOUS
<1>2. /\ first \in Nat /\ Holds(v.patches, first)
      /\ \A e \in Nat : Holds(v.patches, e) => first <= e
  BY DEF Begins
<1>3. \A s \in DOMAIN v.patches : s \in Nat /\ v.patches[s] \in Nat
  BY DEF Settled, IsList
<1>4. \A e \in ids : e \in Nat /\ Holds(v.patches, e)
  <2>1. \A s \in DOMAIN v.patches : \A e \in s .. (EndOf(v.patches, s, outer) - 1) :
          e \in Nat /\ s <= e /\ e < v.patches[s]
    BY <1>3, MaxValueAssumption DEF EndOf
  <2>2. QED
    BY <1>1, <2>1 DEF Elements, Holds
<1>5. first \in ids
  <2>1. PICK s \in DOMAIN v.patches : s <= first /\ first < v.patches[s]
    BY <1>2 DEF Holds
  <2>2. first \in s .. (EndOf(v.patches, s, outer) - 1)
    BY <1>2, <1>3, <2>1 DEF EndOf
  <2>3. QED
    BY <1>1, <2>1, <2>2 DEF Elements
<1>6. Min(ids) = first
  <2>1. PICK least : least = Min(ids)
    OBVIOUS
  <2>2. least \in ids /\ least <= first
    BY <1>4, <1>5, <2>1, MinOfNat
  <2>3. QED
    BY <1>2, <1>4, <2>1, <2>2
<1>7. AddedInOrder(ids) = Opened(first)
  BY <1>5, <1>6 DEF AddedInOrder
<1>8. {e \in ids : IsIn(v.local, e)} = IF old THEN {} ELSE ids
  <2>1. \A e \in ids : IsIn(v.patches, e) /\ ~IsIn(EmptyList, e)
    BY <1>4, IsInIsHolds, EmptyListFacts
  <2>2. QED
    BY <2>1
<1>9. ToReduced(v, outer) = [patches |-> AddedInOrder(ids),
                             local |-> AddedInOrder({e \in ids : IsIn(v.local, e)})]
  BY <1>1 DEF ToReduced
<1>10. AddedInOrder({}) = EmptyList
  BY DEF AddedInOrder
<1>11. QED
  BY <1>7, <1>8, <1>9, <1>10 DEF ReducedFrom

\* The triple stays in the snapshot and the delta wants it out, or leaves it out.
Leaves(t) == t \in snapshot /\ ~Wanted(t)

\* What a branch does with positions: a triple that leaves is counted and takes its ranks.
RanksOnce(t) ==
  IF Leaves(t)
  THEN /\ CountPosition(t)
       /\ GetPositions(deletions'[t].positions, patchId) = PositionsNow(t)
  ELSE positionCount' = positionCount

(***************************************************************************)
(* A deletion that the delta does not name is counted and takes the ranks  *)
(* of its triple, also where the value is left as it is.                   *)
(***************************************************************************)
LEMMA CarryDeletionRanks ==
  ASSUME IInv, SInv, appending, NEW t \in todo, CarryDeletionAt(t),
         \A e \in DOMAIN deletions[t].positions : e <= patchId
  PROVE  RanksOnce(t)
<1> DEFINE v == deletions[t]
<1>1. /\ Known(t) /\ ~InPatch(t) /\ InDeletions(t) /\ ~InAdditions(t)
      /\ AtRest(t, patchId - 1) /\ IsDeletionValue(v) /\ patchId \in Nat
      /\ 0 < patchId /\ patchId < MaxValue /\ MinPatchId \in Nat /\ t \in Triples
  BY KnownBefore, Facts, Ids DEF CarryDeletionAt, CarryDeletion, Takes
<1>2. t \in snapshot /\ Holds(v.patches, patchId) /\ v.local = EmptyList
  BY <1>1 DEF Known, FlagsMatch
<1>3. Leaves(t)
  BY <1>1, <1>2 DEF Known, Leaves, Wanted, InPatch
<1>4. /\ Settled(v.patches, patchId - 1) /\ Settled(v.patches, patchId) /\ Solid(v.patches)
      /\ DOMAIN v.patches # {} /\ Holds(v.patches, patchId - 1)
  BY <1>1, <1>2 DEF Known, Steady, InDeletions
<1> HIDE DEF v
<1>5. maxPatchId < patchId
  <2>1. PICK s \in DOMAIN v.patches : MinPatchId <= s /\ s <= patchId - 1 /\ s \in Nat
    BY <1>4 DEF Solid, Settled, IsList
  <2>2. patchId # MinPatchId
    BY <1>1, <2>1
  <2>3. QED
    BY <1>1, <2>2 DEF IInv
<1>6. /\ Outer = patchId /\ Elements(v.patches, Outer) = {id \in Nat : id < patchId /\ Holds(v.patches, id)}
  BY <1>4, <1>5, ElementsHeld
<1>7. /\ Elements(v.patches, Outer) # {}
      /\ FirstElement(v.patches, Outer) <= patchId
  <2>1. PICK ids : ids = Elements(v.patches, Outer)
    OBVIOUS
  <2>2. ids \subseteq Nat /\ patchId - 1 \in ids
    BY <1>1, <1>4, <1>6, <2>1
  <2>3. PICK first : first = Min(ids)
    OBVIOUS
  <2>4. first \in Nat /\ first <= patchId - 1
    BY <2>2, <2>3, MinOfNat
  <2>5. QED
    BY <1>1, <2>1, <2>2, <2>3, <2>4 DEF FirstElement
<1>8. ~IsLocalDeletion(v, patchId, Outer)
  <2>1. \A e : ~IsIn(EmptyList, e)
    BY DEF EmptyList, IsIn, UpTo
  <2>2. QED
    BY <1>2, <2>1 DEF IsLocalDeletion, v
<1>9. PICK positions : positions = PositionsNow(t)
  OBVIOUS
<1>10. /\ CountPosition(t)
       /\ \/ WriteDeletion(t, AddElement(v, patchId, FALSE, positions), Outer)
          \/ deletions' = deletions /\ GetPositions(v.positions, patchId) = positions
  BY <1>7, <1>8, <1>9
  DEF CarryDeletionAt, CarryDeletion, v, PositionsUnless, CountPositionUnless, Takes
<1>11. GetPositions(deletions'[t].positions, patchId) = positions
  <2>1. CASE WriteDeletion(t, AddElement(v, patchId, FALSE, positions), Outer)
    <3>1. deletions'[t].positions = InsertPositions(v.positions, patchId, positions)
      BY <1>1, <2>1, Written DEF AddElement
    <3>2. QED
      BY <1>1, <3>1, InsertedAtEnd DEF IsDeletionValue, v
  <2>2. CASE deletions' = deletions /\ GetPositions(v.positions, patchId) = positions
    BY <2>2 DEF v
  <2>3. QED
    BY <1>10, <2>1, <2>2
<1>12. QED
  BY <1>3, <1>9, <1>10, <1>11 DEF RanksOnce

\* A triple of the snapshot that the delta deletes for the first time.
LEMMA InsertDeletionRanks ==
  ASSUME IInv, SInv, appending, NEW t \in todo, InsertDeletionAt(t)
  PROVE  RanksOnce(t)
<1>1. /\ Known(t) /\ t \in patchDels /\ ~InDeletions(t) /\ ~InAdditions(t)
      /\ t \in Triples /\ patchId \in Nat
  BY KnownBefore, Facts DEF InsertDeletionAt, InsertDeletion, Takes
<1>2. Leaves(t)
  BY <1>1 DEF Known, Leaves, Wanted
<1>3. PICK positions : positions = PositionsNow(t)
  OBVIOUS
<1>4. CountPosition(t) /\ WriteDeletion(t, FreshDeletion(FALSE, positions), patchId + 1)
  BY <1>3 DEF InsertDeletionAt, InsertDeletion, Takes
<1>5. deletions'[t].positions = InsertPositions(NoDeletion.positions, patchId, positions)
  <2>1. deletions'[t] = FreshDeletion(FALSE, positions)
    BY <1>1, <1>4, Written
  <2>2. QED
    BY <2>1 DEF FreshDeletion, AddElement
<1>6. IsPositions(NoDeletion.positions) /\ DOMAIN NoDeletion.positions = {}
  BY DEF NoDeletion, IsPositions
<1>7. GetPositions(deletions'[t].positions, patchId) = positions
  BY <1>1, <1>5, <1>6, InsertedAtEnd
<1>8. QED
  BY <1>2, <1>3, <1>4, <1>7 DEF RanksOnce

(***************************************************************************)
(* A triple in both trees is not of the snapshot while none has returned,  *)
(* and so a local change, which is not counted.                            *)
(***************************************************************************)
LEMMA SettleRanks ==
  ASSUME IInv, SInv, NoneReturned, appending, NEW t \in todo, CarryBothAt(t) \/ InvertBothAt(t)
  PROVE  RanksOnce(t)
<1>1. PICK invert \in BOOLEAN : (invert <=> InPatch(t)) /\ \E q : SettleAt(t, invert, q)
  BY DEF CarryBothAt, SettleAt, InvertBothAt, Takes
<1> DEFINE local == WasLocal(t) # invert
           addAddition == (LastAddition(t) > LastDeletion(t)) # invert
           addDeletion == (LastDeletion(t) > LastAddition(t)) # invert
<1>2. /\ InDeletions(t) /\ InAdditions(t)
      /\ CASE addAddition -> SettleAsAddition(t, local)
           [] ~addAddition /\ addDeletion -> \E q : SettleAsDeletion(t, local, q)
           [] OTHER -> UNCHANGED <<trees, positionCount>>
  BY <1>1 DEF SettleAt, Settle, Takes
<1>3. t \notin snapshot
  BY <1>2 DEF NoneReturned
<1>4. /\ addAddition <=> Wanted(t)
      /\ addDeletion <=> ~Wanted(t)
      /\ local <=> (Wanted(t) <=> t \in snapshot)
  BY <1>1, <1>2, SettleChoices
<1> HIDE DEF local, addAddition, addDeletion
<1>5. positionCount' = positionCount
  BY <1>2, <1>3, <1>4 DEF SettleAsAddition, SettleAsDeletion, CountPositionUnless
<1>6. QED
  BY <1>3, <1>5 DEF RanksOnce, Leaves

\* Every branch.
LEMMA BranchRanks ==
  ASSUME IInv, SInv, NoneReturned, appending, NEW t \in todo, Merges(t),
         \A e \in DOMAIN deletions[t].positions : e <= patchId
  PROVE  RanksOnce(t)
<1>1. Known(t) /\ t \in Triples
  BY KnownBefore, Facts
<1>2. ASSUME positionCount' = positionCount, t \notin snapshot \/ Wanted(t) PROVE RanksOnce(t)
  BY <1>2 DEF RanksOnce, Leaves
<1>3. CASE CarryAdditionAt(t) \/ DeleteAddedAt(t)
  <2>1. /\ InAdditions(t) /\ ~InDeletions(t)
        /\ positionCount' = positionCount
    BY <1>3 DEF CarryAdditionAt, CarryAddition, DeleteAddedAt, DeleteAdded, Takes
  <2>2. QED
    BY <1>1, <1>2, <2>1 DEF Known
<1>4. CASE InsertAdditionAt(t) \/ ReturnDeletedAt(t)
  BY <1>2, <1>4 DEF InsertAdditionAt, InsertAddition, ReturnDeletedAt, ReturnDeleted, Wanted, Takes
<1>5. CASE DeleteAgainAt(t) \/ AddAgainAt(t)
  BY <1>1, <1>5 DEF Known, DeleteAgainAt, DeleteAgain, AddAgainAt, AddAgain, Takes
<1>6. QED
  BY <1>3, <1>4, <1>5, CarryDeletionRanks, InsertDeletionRanks, SettleRanks DEF Merges

\* A key that a tree has stays in it.
LEMMA KeysStay ==
  ASSUME IInv, SInv, appending, NEW t \in todo, Merges(t), NEW u \in Triples
  PROVE  /\ InAdditions(u) => InAdditions(u)'
         /\ InDeletions(u) => InDeletions(u)'
<1>1. Outcome(t) /\ Separates(t) /\ Known(t) /\ patchId \in Nat /\ 0 < patchId
      /\ MinPatchId <= patchId /\ patchId < MaxValue
  BY MergeFacts, KnownBefore, Facts
<1>2. CASE u # t
  BY <1>1, <1>2 DEF Separates, InAdditions, InDeletions
<1>3. CASE u = t
  <2>1. \A l : Steady(l) => /\ DOMAIN Addition(l, patchId) # {}
                            /\ DOMAIN Deletion(l, patchId) = DOMAIN l
    BY <1>1, AddedList, DeletedList DEF Steady
  <2>2. \/ Added(additions[t], deletions[t], additions'[t], deletions'[t], patchId)
        \/ Removed(additions[t], deletions[t], additions'[t], deletions'[t], patchId)
    BY <1>1 DEF Outcome, NowAdded, NowRemoved
  <2>3. QED
    BY <1>1, <1>3, <2>1, <2>2 DEF Known, Added, Removed, InAdditions, InDeletions
<1>4. QED
  BY <1>2, <1>3

(***************************************************************************)
(* What the merge of triple t does to the deletions of the coming version  *)
(* among the triples passed: t joins them if it leaves.                    *)
(***************************************************************************)
LEMMA PassedAfter ==
  ASSUME IInv, SInv, SInv', RankInv, appending, NEW t \in todo, Merges(t), NEW u \in snapshot
  PROVE  /\ Holds(deletions'[t].patches, patchId) /\ t \in snapshot <=> Leaves(t)
         /\ Passed(u)' /\ Holds(deletions'[u].patches, patchId)
              <=> \/ u # t /\ Passed(u) /\ Holds(deletions[u].patches, patchId)
                  \/ u = t /\ Leaves(t)
         /\ u # t => deletions'[u] = deletions[u]
         /\ Passed(u) => u < t
<1>1. Branch(t) /\ Separates(t) /\ IsNext(t) /\ t \in Triples /\ u \in Triples
  BY MergeFacts, Facts DEF IInv, TypeOK
<1>2. /\ snapshot' = snapshot /\ appending' = appending /\ patchId' = patchId
      /\ todo' \subseteq {w \in todo : w > t}
      /\ \A w \in todo : w # t /\ w \notin todo' => w \notin Remaining
  BY <1>1 DEF Branch, Pass
<1>3. u # t => deletions'[u] = deletions[u]
  BY <1>1 DEF Separates
<1>4. Passed(u) => u < t
  BY <1>1, PassedInOrder DEF Passed
<1>5. Holds(deletions'[t].patches, patchId) /\ t \in snapshot <=> Leaves(t)
  <2>1. Passed(t)'
    BY <1>1, <1>2, TriplesAssumption DEF Passed
  <2>2. In(t, patchId)' <=> Wanted(t)'
    BY <1>1, <2>1 DEF SInv
  <2>3. Wanted(t)' <=> Wanted(t)
    BY <1>1, LatestKept
  <2>4. QED
    BY <1>2, <2>2, <2>3 DEF In, Leaves
<1>6. CASE u = t
  <2>1. Passed(t)' /\ ~Passed(t)
    BY <1>1, <1>2, TriplesAssumption DEF Passed
  <2>2. QED
    BY <1>3, <1>4, <1>5, <1>6, <2>1
<1>7. CASE u # t /\ u \in todo
  <2>1. ~Passed(u)
    BY <1>7 DEF Passed
  <2>2. Passed(u)' => ~Holds(deletions[u].patches, patchId)
    <3>1. SUFFICES ASSUME Passed(u)' PROVE ~Holds(deletions[u].patches, patchId)
      OBVIOUS
    <3>2. u \notin Remaining
      BY <1>2, <1>7, <3>1 DEF Passed
    <3>3. QED
      BY <1>7, <3>2 DEF Remaining, InDeletions, Holds
  <2>3. QED
    BY <1>3, <1>4, <1>5, <1>7, <2>1, <2>2
<1>8. CASE u # t /\ u \notin todo
  BY <1>2, <1>3, <1>4, <1>5, <1>8 DEF Passed
<1>9. QED
  BY <1>6, <1>7, <1>8

(***************************************************************************)
(* The counters of positions, which count a triple once for each kind.     *)
(***************************************************************************)
LEMMA PositionCounted ==
  ASSUME IInv, NEW t, NEW k \in Kinds, NEW p
  PROVE  /\ CountPosition(t) =>
              Rank(k, p)' = Rank(k, p) + (IF Pattern(k, t) = p THEN 1 ELSE 0)
         /\ positionCount' = positionCount => Rank(k, p)' = Rank(k, p)
         /\ Rank(k, p) \in Nat
<1>1. \A key \in DOMAIN positionCount : positionCount[key] \in Nat
  BY DEF IInv, TypeOK, IsABag
<1>2. Rank(k, p) \in Nat
  BY <1>1 DEF Rank
<1>3. positionCount' = positionCount => Rank(k, p)' = Rank(k, p)
  BY DEF Rank
<1>4. ASSUME CountPosition(t)
      PROVE  Rank(k, p)' = Rank(k, p) + (IF Pattern(k, t) = p THEN 1 ELSE 0)
  <2>1. PICK keys : keys = {<<j, Pattern(j, t)>> : j \in Kinds}
    OBVIOUS
  <2>2. PICK once : once = SetToBag(keys)
    OBVIOUS
  <2>3. once = [key \in keys |-> 1]
    BY <2>2 DEF SetToBag
  <2>4. positionCount' = positionCount (+) once
    BY <1>4, <2>1, <2>2 DEF CountPosition
  <2>5. positionCount' = [key \in DOMAIN positionCount \cup DOMAIN once |->
                            (IF key \in DOMAIN positionCount THEN positionCount[key] ELSE 0)
                              + (IF key \in DOMAIN once THEN once[key] ELSE 0)]
    BY <2>4 DEF (+)
  <2>6. <<k, p>> \in keys <=> Pattern(k, t) = p
    BY <2>1
  <2>7. QED
    BY <1>1, <2>3, <2>5, <2>6 DEF Rank
<1>5. QED
  BY <1>2, <1>3, <1>4

\* A set of deletions is finite.
LEMMA DeletionsFinite ==
  ASSUME IInv, NEW S, S \subseteq snapshot
  PROVE  IsFiniteSet(S) /\ Cardinality(S) \in Nat
<1>1. S \in SUBSET Triples
  BY DEF IInv, TypeOK
<1>2. IsFiniteSet(S)
  BY <1>1, TriplesAssumption, FS_Subset
<1>3. QED
  BY <1>2, FS_CardinalityType

\* What a step leaves of the values of a published version.
LEMMA PublishedKept ==
  ASSUME IInv, [Next]_vars, NEW u \in Triples, NEW id \in Published
  PROVE  /\ Holds(deletions'[u].patches, id) <=> Holds(deletions[u].patches, id)
         /\ Holds(deletions[u].patches, id) =>
              GetPositions(deletions'[u].positions, id) = GetPositions(deletions[u].positions, id)
<1>1. id \in Nat /\ id < patchId /\ patchId \in Nat
  BY Ids DEF Published
<1>2. Holds(deletions'[u].patches, id) <=> Holds(deletions[u].patches, id)
  BY <1>1, ValuesKept DEF Keeps
<1>3. ASSUME Holds(deletions[u].patches, id)
      PROVE  GetPositions(deletions'[u].positions, id) = GetPositions(deletions[u].positions, id)
  <2>1. SameBelow(deletions[u].positions, deletions'[u].positions, patchId)
    BY <1>3, StepKeepsPositions DEF AllPositionsKept, PositionsKept, Holds
  <2>2. IsPositions(deletions[u].positions) /\ IsPositions(deletions'[u].positions)
    <3>1. IInv'
      BY NextIInv
    <3>2. QED
      BY <3>1 DEF IInv, TypeOK, IsDeletionValue
  <2>3. QED
    BY <1>1, <2>1, <2>2, SamePositions
<1>4. QED
  BY <1>2, <1>3

\* So its ranks stay, when the snapshot does.
LEMMA RankedKept ==
  ASSUME IInv, [Next]_vars, snapshot' = snapshot, NEW u \in snapshot, NEW id \in Published,
         Ranked(u, id)
  PROVE  Ranked(u, id)'
<1>1. snapshot \subseteq Triples
  BY DEF IInv, TypeOK
<1>2. \A k : DeletedBefore(k, u, id)' = DeletedBefore(k, u, id)
  BY <1>1, PublishedKept DEF DeletedBefore
<1>3. RanksOf(u, id)' = RanksOf(u, id)
  BY <1>2 DEF RanksOf
<1>4. QED
  BY <1>1, <1>3, PublishedKept DEF Ranked

(***************************************************************************)
(* A branch keeps the counters of positions right.                         *)
(***************************************************************************)
LEMMA MergeRank ==
  ASSUME IInv, SInv, SInv', RankInv, NoneReturned, appending, NEW t \in todo, Merges(t),
         NEW k \in Kinds, NEW p \in PatternsOf(k)
  PROVE  Rank(k, p)' = Cardinality(PassedDeletions(k, p)')
<1>1. RanksOnce(t) /\ t \in Triples
  BY BranchRanks, Facts DEF RankInv
<1>2. PICK passed : passed = PassedDeletions(k, p)
  OBVIOUS
<1>3. /\ Rank(k, p) = Cardinality(passed) /\ IsFiniteSet(passed) /\ t \notin passed
  <2>1. passed \subseteq snapshot /\ t \notin passed
    BY <1>2 DEF PassedDeletions, Passed
  <2>2. Rank(k, p) = Cardinality(passed)
    BY <1>2 DEF RankInv
  <2>3. QED
    BY <2>1, <2>2, DeletionsFinite
<1>4. PassedDeletions(k, p)' = passed \cup {u \in {t} : Leaves(u) /\ Pattern(k, u) = p}
  <2>1. snapshot' = snapshot /\ patchId' = patchId
    BY MergeFacts DEF Branch, Pass
  <2>2. PassedDeletions(k, p)' = {u \in snapshot : /\ Passed(u)' /\ Pattern(k, u) = p
                                                   /\ Holds(deletions'[u].patches, patchId)}
    BY <2>1 DEF PassedDeletions
  <2>3. QED
    BY <1>2, <1>3, <2>2, PassedAfter DEF PassedDeletions, Leaves
<1>5. CASE Leaves(t) /\ Pattern(k, t) = p
  <2>1. PassedDeletions(k, p)' = passed \cup {t}
    BY <1>4, <1>5
  <2>2. Rank(k, p)' = Rank(k, p) + 1
    BY <1>1, <1>5, PositionCounted DEF RanksOnce
  <2>3. QED
    BY <1>3, <2>1, <2>2, FS_AddElement
<1>6. CASE ~(Leaves(t) /\ Pattern(k, t) = p)
  <2>1. PassedDeletions(k, p)' = passed
    BY <1>4, <1>6
  <2>2. Rank(k, p)' = Rank(k, p)
    BY <1>1, <1>6, PositionCounted DEF RanksOnce
  <2>3. QED
    BY <1>3, <2>1, <2>2
<1>7. QED
  BY <1>5, <1>6

(***************************************************************************)
(* A branch gives its triple its ranks, and leaves those of the others.    *)
(***************************************************************************)
LEMMA MergeRanked ==
  ASSUME IInv, SInv, SInv', RankInv, NoneReturned, appending, NEW t \in todo, Merges(t),
         NEW u \in snapshot, Passed(u)'
  PROVE  Ranked(u, patchId)'
<1>1. /\ RanksOnce(t) /\ snapshot' = snapshot /\ patchId' = patchId
      /\ t \in Triples /\ u \in Triples
  BY BranchRanks, Facts, MergeFacts DEF RankInv, Branch, Pass, IInv, TypeOK
<1>2. SUFFICES ASSUME Holds(deletions'[u].patches, patchId)
               PROVE  GetPositions(deletions'[u].positions, patchId) = RanksOf(u, patchId)'
  BY <1>1 DEF Ranked
<1>3. CASE u = t
  <2>1. Leaves(t)
    BY <1>2, <1>3, PassedAfter
  <2>2. GetPositions(deletions'[t].positions, patchId) = PositionsNow(t)
    BY <1>1, <2>1 DEF RanksOnce
  <2>3. \A k \in Kinds : Rank(k, Pattern(k, t)) = Cardinality(DeletedBefore(k, t, patchId)')
    <3> SUFFICES ASSUME NEW k \in Kinds
                 PROVE  Rank(k, Pattern(k, t)) = Cardinality(DeletedBefore(k, t, patchId)')
      OBVIOUS
    <3>1. Rank(k, Pattern(k, t)) = Cardinality(PassedDeletions(k, Pattern(k, t)))
      BY <1>1 DEF RankInv, PatternsOf
    <3>2. ASSUME NEW w \in snapshot, w < t, Holds(deletions'[w].patches, patchId)
          PROVE  Passed(w)'
      BY <1>1, <3>2, MergeFacts, TriplesAssumption DEF Branch, Pass, Passed, IInv, TypeOK
    <3>3. ~(t < t)
      BY <1>1, TriplesAssumption
    <3>4. \A w \in snapshot : w < t /\ Holds(deletions'[w].patches, patchId)
                                <=> Passed(w) /\ Holds(deletions[w].patches, patchId)
      <4> SUFFICES ASSUME NEW w \in snapshot
                   PROVE  w < t /\ Holds(deletions'[w].patches, patchId)
                            <=> Passed(w) /\ Holds(deletions[w].patches, patchId)
        OBVIOUS
      <4>1. Passed(w) => w < t
        BY PassedAfter
      <4>2. w = t => ~(w < t) /\ ~Passed(w)
        BY <3>3 DEF Passed
      <4>3. w # t => deletions'[w] = deletions[w]
        BY PassedAfter
      <4>4. w < t /\ Holds(deletions'[w].patches, patchId) => Passed(w)
        BY <3>2, <4>2, PassedAfter
      <4>5. QED
        BY <4>1, <4>2, <4>3, <4>4
    <3>5. DeletedBefore(k, t, patchId)' = PassedDeletions(k, Pattern(k, t))
      BY <1>1, <3>4 DEF DeletedBefore, PassedDeletions
    <3>6. QED
      BY <3>1, <3>5
  <2>4. QED
    BY <1>3, <2>2, <2>3 DEF PositionsNow, RanksOf
<1>4. CASE u # t
  <2>1. Passed(u) /\ Holds(deletions[u].patches, patchId) /\ u < t
        /\ deletions'[u] = deletions[u]
    BY <1>2, <1>4, PassedAfter
  <2>2. Ranked(u, patchId)
    BY <2>1 DEF RankInv
  <2>3. \A w \in snapshot : w < u => deletions'[w] = deletions[w]
    <3> SUFFICES ASSUME NEW w \in snapshot, w < u PROVE deletions'[w] = deletions[w]
      OBVIOUS
    <3>1. w # t
      BY <1>1, <2>1, TriplesAssumption
    <3>2. QED
      BY <3>1, PassedAfter
  <2>4. \A k : DeletedBefore(k, u, patchId)' = DeletedBefore(k, u, patchId)
    BY <1>1, <2>3 DEF DeletedBefore
  <2>5. RanksOf(u, patchId)' = RanksOf(u, patchId)
    BY <2>4 DEF RanksOf
  <2>6. QED
    BY <2>1, <2>2, <2>5 DEF Ranked
<1>5. QED
  BY <1>3, <1>4

\* So a branch keeps the invariant.
LEMMA MergeRankInv ==
  ASSUME IInv, SInv, SInv', RankInv, [Next]_vars, appending, MergeStep
  PROVE  RankInv'
<1>1. PICK t \in todo : Merges(t)
  BY StepsMerge
<1>2. Branch(t) /\ t \in Triples /\ patchId \in Nat
  BY <1>1, MergeFacts, Facts
<1>3. UNCHANGED <<snapshot, appending, patchId>> /\ snapshot \subseteq Triples
  BY <1>2 DEF Branch, Pass, IInv, TypeOK
<1>4. \A u \in Triples : \A e \in DOMAIN deletions'[u].positions : e <= patchId
  <2>1. \A u \in Triples : DOMAIN deletions'[u].positions \subseteq DOMAIN deletions[u].positions \cup {patchId}
    BY StepKeepsPositions DEF AllPositionsKept, PositionsKept
  <2>2. QED
    BY <1>2, <2>1 DEF RankInv
<1>5. NoneReturned' => NoneReturned
  BY <1>1, <1>3, KeysStay DEF NoneReturned
<1>6. ASSUME NoneReturned
      PROVE  /\ \A k \in Kinds : \A p \in PatternsOf(k) :
                  Rank(k, p)' = Cardinality(PassedDeletions(k, p)')
             /\ \A u \in snapshot : /\ \A id \in Published : Ranked(u, id)'
                                    /\ Passed(u)' => Ranked(u, patchId)'
  BY <1>1, <1>3, <1>6, MergeRank, MergeRanked, RankedKept DEF RankInv
<1>7. QED
  BY <1>3, <1>4, <1>5, <1>6 DEF RankInv, PatternsOf, Published

\* The end of an append: what it passed is published, and what remains was never deleted.
LEMMA FinishRankInv ==
  ASSUME IInv, SInv, RankInv, [Next]_vars, FinishAppend
  PROVE  RankInv'
<1>1. /\ appending /\ ~appending' /\ Remaining = {} /\ patchId' = patchId + 1
      /\ UNCHANGED <<snapshot, additions, deletions>>
  BY NothingLeft DEF FinishAppend, trees
<1>2. patchId \in Nat /\ MinPatchId \in Nat /\ snapshot \subseteq Triples
  BY Ids DEF IInv, TypeOK
<1>3. \A u \in Triples : \A e \in DOMAIN deletions'[u].positions : e <= patchId'
  <2>1. \A u \in Triples : \A e \in DOMAIN deletions[u].positions : e \in Nat /\ e <= patchId
    BY DEF RankInv, IInv, TypeOK, IsDeletionValue, IsPositions
  <2>2. QED
    BY <1>1, <1>2, <2>1
<1>4. ASSUME NoneReturned, NEW u \in snapshot, NEW id \in Published' PROVE Ranked(u, id)'
  <2>1. CASE id \in Published
    BY <1>1, <1>4, <2>1, RankedKept DEF RankInv
  <2>2. CASE id \notin Published
    <3>1. id = patchId
      BY <1>1, <1>2, <2>2 DEF Published
    <3>2. \A e : Ranked(u, e)' <=> Ranked(u, e)
      BY <1>1 DEF Ranked, RanksOf, DeletedBefore
    <3>3. CASE u \in todo
      <4>1. ~InDeletions(u)
        BY <1>1, <3>3 DEF Remaining
      <4>2. QED
        BY <3>1, <3>2, <4>1 DEF Ranked, InDeletions, Holds
    <3>4. CASE u \notin todo
      BY <1>1, <1>4, <3>1, <3>2, <3>4 DEF RankInv, Passed
    <3>5. QED
      BY <3>3, <3>4
  <2>3. QED
    BY <2>1, <2>2
<1>5. NoneReturned' <=> NoneReturned
  BY <1>1 DEF NoneReturned, InAdditions, InDeletions
<1>6. QED
  BY <1>1, <1>3, <1>4, <1>5 DEF RankInv, Passed

\* The start of an append, with counters at zero and no deletion passed.
LEMMA BeginRankInv ==
  ASSUME IInv, RankInv, [Next]_vars, BeginAppend
  PROVE  RankInv'
<1>1. /\ appending' /\ positionCount' = EmptyBag
      /\ UNCHANGED <<snapshot, additions, deletions, patchId>>
  BY DEF BeginAppend, trees
<1>2. snapshot \subseteq Triples
  BY DEF IInv, TypeOK
<1>3. \A u \in Triples : Passed(u)' => ~InDeletions(u)
  BY BeginAppendIInv, BeginLeaves DEF Passed
<1>4. \A k, p : Rank(k, p)' = 0 /\ PassedDeletions(k, p)' = {}
  BY <1>1, <1>2, <1>3 DEF Rank, EmptyBag, SetToBag, PassedDeletions, InDeletions, Holds
<1>5. \A u \in snapshot : \A id \in Published : Ranked(u, id) => Ranked(u, id)'
  BY <1>1, RankedKept
<1>6. \A u \in snapshot : Passed(u)' => Ranked(u, patchId)'
  BY <1>1, <1>2, <1>3 DEF Ranked, InDeletions, Holds
<1>7. NoneReturned' <=> NoneReturned
  BY <1>1 DEF NoneReturned, InAdditions, InDeletions
<1>8. Published' = Published
  BY <1>1 DEF Published
<1>9. QED
  BY <1>1, <1>2, <1>4, <1>5, <1>6, <1>7, <1>8, FS_EmptySet DEF RankInv

\* Every step.
LEMMA NextRankInv ==
  ASSUME ValidDeltasOnly
  PROVE  IInv /\ SInv /\ RankInv /\ [Next]_vars => RankInv'
<1> SUFFICES ASSUME IInv, SInv, RankInv, [Next]_vars PROVE RankInv'
  OBVIOUS
<1>1. CASE BeginAppend
  BY <1>1, BeginRankInv
<1>2. CASE appending /\ MergeStep
  BY <1>2, NextSInv, MergeRankInv
<1>3. CASE FinishAppend
  BY <1>3, FinishRankInv
<1>4. CASE UNCHANGED vars
  BY <1>4
  DEF vars, trees, merge, cursors, RankInv, NoneReturned, InAdditions, InDeletions, Rank,
      PassedDeletions, Passed, todo, Published, Ranked, RanksOf, DeletedBefore
<1>5. QED
  BY <1>1, <1>2, <1>3, <1>4 DEF Next, Quiet

(***************************************************************************)
(* However valid deltas follow each other, the positions a tree stores of  *)
(* the deletions of a published version are their ranks in it, also where  *)
(* they were carried on unchanged by many appends, until a triple of the   *)
(* snapshot that was deleted is added again (Patch::positions,             *)
(* DeltaPatchPositionsContainer).                                          *)
(***************************************************************************)
THEOREM RanksKept ==
  ASSUME ValidDeltasOnly
  PROVE  Spec => []RankInv
<1>1. Init => RankInv
  <2> SUFFICES ASSUME Init PROVE RankInv
    OBVIOUS
  <2>1. Published = {} /\ ~appending /\ \A t \in Triples : deletions[t] = NoDeletion
    BY ParametersAssumption DEF Init, Published
  <2>2. DOMAIN NoDeletion.positions = {}
    BY DEF NoDeletion
  <2>3. QED
    BY <2>1, <2>2 DEF RankInv, Passed
<1>2. IInv /\ SInv /\ RankInv /\ [Next]_vars => RankInv'
  BY NextRankInv
<1>3. QED
  BY <1>1, <1>2, Inductive, AlwaysComplete, PTL DEF Spec

(***************************************************************************)
(* What a branch does to the deletion trees of its triple: it leaves them; *)
(* or it writes both, reading the value up to the outer limit; or it adds  *)
(* a deletion of the patch's id where there was none.                      *)
(***************************************************************************)
LEMMA ReducedBranch ==
  ASSUME NEW t, Merges(t)
  PROVE  \/ deletions' = deletions /\ reduced' = reduced
         \/ InDeletions(t) /\ \E w : WriteDeletion(t, w, Outer)
         \/ \E w : /\ ~InDeletions(t) /\ w.patches = Addition(EmptyList, patchId)
                   /\ WriteDeletion(t, w, patchId + 1)
<1>1. CASE \E invert, q : SettleAt(t, invert, q)
  BY <1>1 DEF SettleAt, Settle, SettleAsAddition, SettleAsDeletion, trees, Takes
<1>2. CASE CarryDeletionAt(t) \/ ReturnDeletedAt(t) \/ DeleteAgainAt(t)
  BY <1>2
  DEF CarryDeletionAt, CarryDeletion, ReturnDeletedAt, ReturnDeleted, DeleteAgainAt, DeleteAgain,
      Takes
<1>3. CASE InsertDeletionAt(t)
  <2>1. PICK w : w = FreshDeletion(FALSE, PositionsNow(t))
    OBVIOUS
  <2>2. WriteDeletion(t, w, patchId + 1) /\ ~InDeletions(t)
    BY <1>3, <2>1 DEF InsertDeletionAt, InsertDeletion, Takes
  <2>3. QED
    BY <2>1, <2>2, FreshFields
<1>4. CASE DeleteAddedAt(t)
  <2>1. PICK w : w = FreshDeletion(TRUE, NoPositions)
    OBVIOUS
  <2>2. WriteDeletion(t, w, patchId + 1) /\ ~InDeletions(t)
    BY <1>4, <2>1 DEF DeleteAddedAt, DeleteAdded, Takes
  <2>3. QED
    BY <2>1, <2>2, FreshFields
<1>5. CASE CarryAdditionAt(t) \/ InsertAdditionAt(t) \/ AddAgainAt(t)
  BY <1>5
  DEF CarryAdditionAt, CarryAddition, InsertAdditionAt, InsertAddition, AddAgainAt, AddAgain,
      Takes
<1>6. QED
  BY <1>1, <1>2, <1>3, <1>4, <1>5 DEF Merges, CarryBothAt, SettleAt, InvertBothAt, Takes

\* The first id of a list, which a merge step leaves.
LEMMA FirstKept ==
  ASSUME NEW p \in Nat, 0 < p, p < MaxValue, NEW l, Settled(l, p - 1), Solid(l), DOMAIN l # {},
         NEW m, \A id \in Nat : id < p => (Holds(m, id) <=> Holds(l, id)),
         NEW first, Begins(l, first)
  PROVE  first < p /\ Begins(m, first)
<1>1. PICK s : s \in DOMAIN l
  OBVIOUS
<1>2. s \in Nat /\ s <= p - 1 /\ Holds(l, s)
  BY <1>1 DEF Settled, IsList, Solid, Holds
<1>3. first \in Nat /\ first <= s /\ \A e \in Nat : Holds(l, e) => first <= e
  BY <1>2 DEF Begins
<1>4. first < p
  BY <1>2, <1>3
<1>5. QED
  BY <1>3, <1>4 DEF Begins

(***************************************************************************)
(* A branch rebuilds the reduced value of its triple from the first id     *)
(* that the deletion began with, or begins it at the patch's.              *)
(***************************************************************************)
LEMMA MergedReduced ==
  ASSUME IInv, SInv, ReducedInv, appending, NEW t \in todo, Merges(t)
  PROVE  IF InDeletions(t)'
         THEN \E id \in Nat : /\ Begins(deletions'[t].patches, id)
                              /\ reduced'[t] = ReducedFrom(id, t \in snapshot)
         ELSE reduced'[t] = NoReduced
<1>1. PICK v : v = deletions[t]
  OBVIOUS
<1>2. PICK w : w = deletions'[t]
  OBVIOUS
<1>3. PICK old \in BOOLEAN : old <=> t \in snapshot
  <2>1. CASE t \in snapshot
    BY <2>1
  <2>2. CASE t \notin snapshot
    BY <2>2
  <2>3. QED
    BY <2>1, <2>2
<1>4. /\ t \in Triples /\ Outcome(t) /\ Branch(t) /\ Known(t)
      /\ patchId \in Nat /\ 0 < patchId /\ patchId < MaxValue /\ MaxValue \in Nat
      /\ AtRest(t, patchId - 1) /\ MinPatchId \in Nat
  BY Facts, MergeFacts, KnownBefore, Ids
<1>5. /\ Settled(w.patches, patchId) /\ w.local = IF old THEN EmptyList ELSE w.patches
      /\ \A id \in Nat : id < patchId => (Holds(w.patches, id) <=> Holds(v.patches, id))
  BY <1>1, <1>2, <1>3, <1>4
  DEF Branch, DeletionsMerged, DeletionAt, SettledValue, Keeps, Outcome, FlagsMatch
<1>6. \A first, outer : /\ outer \in Nat /\ outer <= MaxValue /\ first < outer
                        /\ Begins(w.patches, first)
                        => ToReduced(w, outer) = ReducedFrom(first, old)
  BY <1>4, <1>5, ReducedIs
<1>7. CASE InDeletions(t)
  <2>1. Settled(v.patches, patchId - 1) /\ Solid(v.patches) /\ DOMAIN v.patches # {}
    BY <1>1, <1>4, <1>7 DEF Known, Steady, InDeletions
  <2>2. PICK first \in Nat : Begins(v.patches, first) /\ reduced[t] = ReducedFrom(first, old)
    BY <1>1, <1>3, <1>4, <1>7 DEF ReducedInv
  <2>3. first < patchId /\ Begins(w.patches, first)
    BY <1>4, <1>5, <2>1, <2>2, FirstKept
  <2>4. Outer = patchId
    <3>1. PICK s \in DOMAIN v.patches : MinPatchId <= s /\ s <= patchId - 1 /\ s \in Nat
      BY <2>1 DEF Solid, Settled, IsList
    <3>2. patchId # MinPatchId
      BY <1>4, <3>1
    <3>3. QED
      BY <1>4, <3>2 DEF IInv, Outer
  <2>5. reduced'[t] = ReducedFrom(first, old)
    <3>1. CASE deletions' = deletions /\ reduced' = reduced
      BY <2>2, <3>1
    <3>2. CASE \E x : WriteDeletion(t, x, Outer)
      <4>1. reduced'[t] = reduced[t] \/ reduced'[t] = ToReduced(w, patchId)
        BY <1>2, <1>4, <2>4, <3>2, ReducedWritten
      <4>2. ToReduced(w, patchId) = ReducedFrom(first, old)
        BY <1>4, <1>6, <2>3
      <4>3. QED
        BY <2>2, <4>1, <4>2
    <3>3. QED
      BY <1>7, <3>1, <3>2, ReducedBranch
  <2>6. InDeletions(t)'
    BY <1>4, <1>7, KeysStay
  <2>7. QED
    BY <1>2, <1>3, <2>3, <2>5, <2>6
<1>8. CASE ~InDeletions(t) /\ deletions' = deletions /\ reduced' = reduced
  BY <1>4, <1>8 DEF ReducedInv, InDeletions
<1>9. CASE /\ ~InDeletions(t)
           /\ \E x : x.patches = Addition(EmptyList, patchId) /\ WriteDeletion(t, x, patchId + 1)
  <2>1. /\ reduced'[t] = IF w = v THEN reduced[t] ELSE ToReduced(w, patchId + 1)
        /\ w.patches = Addition(EmptyList, patchId)
    BY <1>1, <1>2, <1>4, <1>9, ReducedWritten
  <2>2. Addition(EmptyList, patchId) = Opened(patchId)
    BY <1>4, EmptyListFacts DEF Addition
  <2>3. Begins(w.patches, patchId)
    BY <1>4, <2>1, <2>2 DEF Begins, Holds, Opened
  <2>4. w # v /\ InDeletions(t)'
    BY <1>1, <1>2, <1>9, <2>1, <2>2 DEF InDeletions, Opened
  <2>5. ToReduced(w, patchId + 1) = ReducedFrom(patchId, old)
    BY <1>4, <1>6, <2>3
  <2>6. QED
    BY <1>2, <1>3, <1>4, <2>1, <2>3, <2>4, <2>5
<1>10. QED
  BY <1>7, <1>8, <1>9, ReducedBranch

\* A merge step leaves the reduced values of the other triples.
LEMMA OtherReduced ==
  ASSUME IInv, NEW t \in Triples, Merges(t), NEW u \in Triples \ {t}
  PROVE  reduced'[u] = reduced[u]
BY ReducedBranch, ReducedWritten

\* Every step.
LEMMA NextReducedInv == IInv /\ SInv /\ ReducedInv /\ [Next]_vars => ReducedInv'
<1> SUFFICES ASSUME IInv, SInv, ReducedInv, [Next]_vars PROVE ReducedInv'
  OBVIOUS
<1>1. CASE appending /\ MergeStep
  <2>1. PICK t \in todo : Merges(t)
    BY <1>1, StepsMerge
  <2>2. /\ t \in Triples /\ Branch(t) /\ Separates(t)
    BY <1>1, <2>1, Facts, MergeFacts
  <2>3. snapshot' = snapshot
    BY <2>2 DEF Branch, Pass
  <2>4. ASSUME NEW u \in Triples \ {t}
        PROVE  deletions'[u] = deletions[u] /\ reduced'[u] = reduced[u]
    BY <2>1, <2>2, OtherReduced DEF Separates
  <2>5. QED
    BY <1>1, <2>1, <2>2, <2>3, <2>4, MergedReduced DEF ReducedInv, InDeletions
<1>2. CASE BeginAppend \/ FinishAppend \/ UNCHANGED vars
  <2>1. UNCHANGED <<snapshot, deletions, reduced>>
    BY <1>2 DEF BeginAppend, FinishAppend, vars, trees
  <2>2. QED
    BY <2>1 DEF ReducedInv, InDeletions
<1>3. QED
  BY <1>1, <1>2 DEF Next, Quiet

(***************************************************************************)
(* The POS and OSP trees follow the SPO tree: of every deletion they hold  *)
(* the id it began with and whether it is a local change, which does not   *)
(* change while it is rewritten (insertDeletionSingle, to_reduced).        *)
(***************************************************************************)
THEOREM ReducedKept ==
  ASSUME ValidDeltasOnly
  PROVE  Spec => []ReducedInv
<1>1. Init => ReducedInv
  BY DEF Init, ReducedInv, InDeletions, NoDeletion, EmptyList
<1>2. IInv /\ SInv /\ ReducedInv /\ [Next]_vars => ReducedInv'
  BY NextReducedInv
<1>3. QED
  BY <1>1, <1>2, Inductive, AlwaysComplete, PTL DEF Spec

-----------------------------------------------------------------------------
(* The deletions of a published version *)

\* A published id, while values are read with the outer limit.
LEMMA PublishedNow ==
  ASSUME IInv, NEW id \in Published
  PROVE  /\ id \in Nat /\ MinPatchId <= id /\ id < patchId /\ id < MaxValue /\ id < Outer
         /\ Outer \in Nat /\ patchId \in Nat /\ MaxValue \in Nat /\ MinPatchId \in Nat
<1>1. id \in Nat /\ MinPatchId <= id /\ id < patchId /\ patchId \in Nat /\ MinPatchId \in Nat
  BY Ids DEF Published
<1>2. maxPatchId = patchId - 1
  BY <1>1 DEF IInv
<1>3. QED
  BY <1>1, <1>2, Ids, MaxValueAssumption DEF Outer

\* The list of one interval that is opened at an id holds what follows.
LEMMA OpenedFacts ==
  ASSUME NEW e \in Nat, e < MaxValue, NEW id \in Nat, id < MaxValue
  PROVE  /\ Holds(Opened(e), id) <=> e <= id
         /\ IsIn(Opened(e), id) <=> e <= id
<1>1. Settled(Opened(e), e)
  BY MaxValueAssumption DEF Settled, IsList, Opened
<1>2. Holds(Opened(e), id) <=> e <= id
  BY DEF Holds, Opened
<1>3. QED
  BY <1>1, <1>2, IsInIsHolds

(***************************************************************************)
(* While no triple has returned, a deletion of the POS and OSP trees is    *)
(* one of the SPO tree, although they hold no end: from its first id on it *)
(* is in no version.                                                       *)
(***************************************************************************)
LEMMA ReducedReadersSee ==
  ASSUME IInv, SInv, OneOfBoth, ReducedInv, NoneReturned, NEW t \in Triples, NEW id \in Published
  PROVE  IsReducedDeletion(t, id) <=> IsDeletion(t, id)
<1>1. /\ id \in Nat /\ MinPatchId <= id /\ id < patchId /\ id < MaxValue /\ id < Outer
      /\ Outer \in Nat /\ patchId \in Nat /\ MaxValue \in Nat
  BY PublishedNow
<1>2. IsDeletion(t, id) <=> t \in snapshot /\ Holds(deletions[t].patches, id)
  BY ReadersSee
<1>3. IsReducedDeletion(t, id) <=> Holds(reduced[t].patches, id) /\ ~IsIn(reduced[t].local, id)
  <2>1. IsList(reduced[t].patches)
    BY DEF IInv, TypeOK, IsPlainValue, IsLists
  <2>2. QED
    BY <1>1, <2>1, DeletionSeen DEF IsReducedDeletion, Shows
<1>4. CASE ~InDeletions(t)
  <2>1. reduced[t].patches = EmptyList
    BY <1>4 DEF ReducedInv, NoReduced
  <2>2. QED
    BY <1>2, <1>3, <1>4, <2>1 DEF EmptyList, InDeletions, Holds
<1>5. CASE InDeletions(t)
  <2>1. PICK first \in Nat : /\ Begins(deletions[t].patches, first)
                             /\ reduced[t] = ReducedFrom(first, t \in snapshot)
    BY <1>5 DEF ReducedInv
  <2>2. /\ reduced[t].patches = Opened(first)
        /\ t \in snapshot => reduced[t].local = EmptyList
        /\ t \notin snapshot => reduced[t].local = Opened(first)
    BY <2>1 DEF ReducedFrom
  <2>3. Holds(deletions[t].patches, first) /\ MinPatchId <= first
    BY <2>1, NotBeforeChain DEF Begins
  <2>4. Holds(deletions[t].patches, id) => first <= id
    BY <1>1, <2>1 DEF Begins
  <2>5. CASE first <= id
    <3>1. first < MaxValue
      BY <1>1, <2>5
    <3>2. Holds(Opened(first), id) /\ IsIn(Opened(first), id) /\ ~IsIn(EmptyList, id)
      BY <1>1, <2>5, <3>1, OpenedFacts, EmptyListFacts
    <3>3. first \in Published
      BY <1>1, <2>3, <2>5, Ids DEF Published
    <3>4. t \in snapshot => Holds(deletions[t].patches, id)
      BY <1>5, <2>3, <2>5, <3>3 DEF OneOfBoth, NoneReturned, InAdditions, Holds
    <3>5. QED
      BY <1>2, <1>3, <2>2, <3>2, <3>4
  <2>6. CASE ~(first <= id)
    <3>1. ~Holds(Opened(first), id)
      BY <1>1, <2>6 DEF Holds, Opened
    <3>2. QED
      BY <1>2, <1>3, <2>2, <2>4, <2>6, <3>1
  <2>7. QED
    BY <2>5, <2>6
<1>6. QED
  BY <1>4, <1>5

(***************************************************************************)
(* Of the triples of a set, the last one in the order of a tree: all the   *)
(* others come before it.                                                  *)
(***************************************************************************)
LEMMA LastPlace ==
  ASSUME NEW k, NEW S, S \subseteq Triples, S # {}
  PROVE  \E last \in S : /\ {t \in S : \A u \in S : u = t \/ Precedes(k, u, t)} = {last}
                         /\ Place(k, S, last) = Cardinality(S) - 1
<1>1. /\ IsFiniteSet(S) /\ Cardinality(S) \in Nat
      /\ \A t \in S : Place(k, S, t) \in 0 .. Cardinality(S) - 1
      /\ \A t, u \in S : Place(k, S, t) < Place(k, S, u) <=> Precedes(k, t, u)
      /\ \A i \in 0 .. Cardinality(S) - 1 : \E t \in S : Place(k, S, t) = i
  BY Places
<1>2. Cardinality(S) # 0
  BY <1>1, FS_EmptySet
<1>3. PICK last \in S : Place(k, S, last) = Cardinality(S) - 1
  BY <1>1, <1>2
<1>4. \A u \in S : ~Precedes(k, last, u)
  BY <1>1, <1>3
<1>5. \A u \in S : u = last \/ Precedes(k, u, last)
  BY <1>4, PrecedesOrders
<1>6. \A t \in S : (\A u \in S : u = t \/ Precedes(k, u, t)) => t = last
  BY <1>4
<1>7. QED
  BY <1>3, <1>5, <1>6

(***************************************************************************)
(* Among the triples of one pattern, every tree but the one that a pattern *)
(* with only the predicate is looked up in has the SPO order of the ranks. *)
(***************************************************************************)
LEMMA PatternOrder ==
  ASSUME NEW k \in Kinds, k # "_p_", NEW t \in Triples, NEW u \in Triples,
         Pattern(k, t) = Pattern(k, u)
  PROVE  Precedes(k, t, u) <=> t < u
<1>1. /\ Subject[t] \in Nat /\ Predicate[t] \in Nat /\ Object[t] \in Nat
      /\ Subject[u] \in Nat /\ Predicate[u] \in Nat /\ Object[u] \in Nat
      /\ t # NoTriple /\ u # NoTriple
  BY TriplesAssumption, ComponentsAssumption DEF NoTriple
<1>2. PICK a, b, c, x, y, z : /\ a = Subject[t] /\ b = Predicate[t] /\ c = Object[t]
                              /\ x = Subject[u] /\ y = Predicate[u] /\ z = Object[u]
  OBVIOUS
<1>3. t < u <=> a < x \/ (a = x /\ b < y) \/ (a = x /\ b = y /\ c < z)
  <2>1. t < u <=> Lexicographic(<<a, b, c>>, <<x, y, z>>)
    BY <1>2, OrderAssumption
  <2>2. a \in Nat /\ b \in Nat /\ c \in Nat /\ x \in Nat /\ y \in Nat /\ z \in Nat
    BY <1>1, <1>2
  <2>3. Lexicographic(<<a, b, c>>, <<x, y, z>>)
          <=> a < x \/ (a = x /\ b < y) \/ (a = x /\ b = y /\ c < z)
    BY <2>2, LexicographicIs
  <2>4. QED
    BY <2>1, <2>3
<1>4. CASE k = "_po"
  <2>1. Predicate[t] = Predicate[u] /\ Object[t] = Object[u]
    BY KindsAssumption, <1>1, <1>4 DEF Pattern, PatternOf, Component
  <2>2. Precedes(k, t, u) <=> Lexicographic(<<Predicate[t], Object[t], Subject[t]>>,
                                            <<Predicate[u], Object[u], Subject[u]>>)
    BY <1>4 DEF Precedes, Order
  <2>3. Precedes(k, t, u) <=> Lexicographic(<<b, c, a>>, <<y, z, x>>)
    BY <1>2, <2>2
  <2>4. Precedes(k, t, u) <=> a < x
    <3>1. /\ a \in Nat /\ b \in Nat /\ c \in Nat /\ x \in Nat /\ y \in Nat /\ z \in Nat
          /\ b = y /\ c = z
      BY <1>1, <1>2, <2>1
    <3>2. Lexicographic(<<b, c, a>>, <<y, z, x>>)
            <=> b < y \/ (b = y /\ c < z) \/ (b = y /\ c = z /\ a < x)
      BY <3>1, LexicographicIs
    <3>3. QED
      BY <2>3, <3>1, <3>2
  <2>5. QED
    BY <1>1, <1>2, <1>3, <2>1, <2>4
<1>5. CASE k = "s_o" \/ k = "__o"
  <2>1. Object[t] = Object[u]
    BY KindsAssumption, <1>1, <1>5 DEF Pattern, PatternOf, Component
  <2>2. Precedes(k, t, u) <=> Lexicographic(<<Object[t], Subject[t], Predicate[t]>>,
                                            <<Object[u], Subject[u], Predicate[u]>>)
    BY <1>5 DEF Precedes, Order
  <2>3. Precedes(k, t, u) <=> Lexicographic(<<c, a, b>>, <<z, x, y>>)
    BY <1>2, <2>2
  <2>4. Precedes(k, t, u) <=> a < x \/ (a = x /\ b < y)
    <3>1. /\ a \in Nat /\ b \in Nat /\ c \in Nat /\ x \in Nat /\ y \in Nat /\ z \in Nat
          /\ c = z
      BY <1>1, <1>2, <2>1
    <3>2. Lexicographic(<<c, a, b>>, <<z, x, y>>)
            <=> c < z \/ (c = z /\ a < x) \/ (c = z /\ a = x /\ b < y)
      BY <3>1, LexicographicIs
    <3>3. QED
      BY <2>3, <3>1, <3>2
  <2>5. QED
    BY <1>1, <1>2, <1>3, <2>1, <2>4
<1>6. CASE k \notin {"_po", "s_o", "__o"}
  BY <1>6 DEF Precedes, Order
<1>7. QED
  BY <1>4, <1>5, <1>6

\* The deletions of a version that match a pattern.
DeletionsOf(k, p, id) ==
  {t \in snapshot : Pattern(k, t) = p /\ Holds(deletions[t].patches, id)}

(***************************************************************************)
(* One more than the rank of the last deletion is the number of deletions. *)
(***************************************************************************)
LEMMA DeletionCountIs ==
  ASSUME IInv, SInv, OneOfBoth, RankInv, ReducedInv, NoneReturned,
         NEW k \in Kinds, k # "_p_", NEW p, NEW id \in Published
  PROVE  DeletionCount(k, p, id) = Cardinality(DeletionsOf(k, p, id))
<1>1. PICK S : S = DeletionsOf(k, p, id)
  OBVIOUS
<1>2. /\ S \subseteq snapshot /\ S \subseteq Triples
      /\ \A t \in S : Pattern(k, t) = p /\ Holds(deletions[t].patches, id)
  BY <1>1 DEF DeletionsOf, IInv, TypeOK
<1>3. {t \in Matching(Triples, k, p) :
         IF IsDefaultTree(k) THEN IsDeletion(t, id) ELSE IsReducedDeletion(t, id)} = S
  BY <1>1, <1>2, ReadersSee, ReducedReadersSee DEF Matching, DeletionsOf
<1>4. LastDeletions(k, p, id) = {t \in S : \A u \in S : u = t \/ Precedes(k, u, t)}
  BY <1>3 DEF LastDeletions
<1>5. CASE S = {}
  BY <1>1, <1>4, <1>5, FS_EmptySet DEF DeletionCount
<1>6. CASE S # {}
  <2>1. PICK last \in S : /\ LastDeletions(k, p, id) = {last}
                          /\ Place(k, S, last) = Cardinality(S) - 1
    BY <1>2, <1>4, <1>6, LastPlace
  <2>2. DeletionCount(k, p, id) = PositionsOf(deletions[last], id, Outer)[k] + 1
    BY <2>1 DEF DeletionCount
  <2>3. PositionsOf(deletions[last], id, Outer) = GetPositions(deletions[last].positions, id)
    <3>1. IsDeletion(last, id)
      BY <1>2, ReadersSee
    <3>2. QED
      BY <1>2, <3>1, PublishedNow, PositionsSeen DEF IsDeletion, IInv, TypeOK
  <2>4. GetPositions(deletions[last].positions, id) = RanksOf(last, id)
    BY <1>2 DEF RankInv, Ranked
  <2>5. DeletedBefore(k, last, id) = Preceding(k, S, last)
    <3>1. \A u \in S : Precedes(k, u, last) <=> u < last
      BY <1>2, PatternOrder
    <3>2. DeletedBefore(k, last, id) = {u \in S : u < last}
      BY <1>1, <1>2 DEF DeletedBefore, DeletionsOf
    <3>3. QED
      BY <3>1, <3>2 DEF Preceding
  <2>6. RanksOf(last, id)[k] = Cardinality(S) - 1
    BY <2>1, <2>5 DEF RanksOf, Place
  <2>7. Cardinality(S) \in Nat
    BY <1>2, DeletionsFinite
  <2>8. QED
    BY <1>1, <2>2, <2>3, <2>4, <2>6, <2>7
<1>7. QED
  BY <1>5, <1>6

(***************************************************************************)
(* deletion_count is exact for every pattern but those of a predicate      *)
(* alone, whatever valid deltas were appended, as long as no triple of the *)
(* snapshot has been deleted and added again.                              *)
(***************************************************************************)
THEOREM DeletionCountsExact ==
  ASSUME ValidDeltasOnly, "_p_" \notin Kinds
  PROVE  Spec => []DeletionCountExactUnlessReturned
<1>1. IInv /\ SInv /\ OneOfBoth /\ RankInv /\ ReducedInv => DeletionCountExactUnlessReturned
  <2> SUFFICES ASSUME IInv, SInv, OneOfBoth, RankInv, ReducedInv, NoneReturned
               PROVE  DeletionCountExact
    BY DEF DeletionCountExactUnlessReturned, NoneReturned
  <2> SUFFICES ASSUME NEW k \in Kinds, NEW p, NEW id \in Published
               PROVE  DeletionCount(k, p, id)
                        = Cardinality({t \in Matching(Triples, k, p) : IsDeletion(t, id)})
    BY DEF DeletionCountExact
  <2>1. {t \in Matching(Triples, k, p) : IsDeletion(t, id)} = DeletionsOf(k, p, id)
    BY ReadersSee DEF Matching, DeletionsOf, IInv, TypeOK
  <2>2. k # "_p_"
    OBVIOUS
  <2>3. QED
    BY <2>1, <2>2, DeletionCountIs
<1>2. QED
  BY <1>1, Inductive, AlwaysComplete, AlwaysOneOfBoth, RanksKept, ReducedKept, PTL

-----------------------------------------------------------------------------
(* Counts of queries *)

\* Two sets that share nothing are counted one after the other.
LEMMA DisjointUnion ==
  ASSUME NEW S, IsFiniteSet(S), NEW T, IsFiniteSet(T), S \cap T = {}
  PROVE  Cardinality(S \cup T) = Cardinality(S) + Cardinality(T)
<1>1. Cardinality(S \cup T) = Cardinality(S) + Cardinality(T) - Cardinality(S \cap T)
  BY FS_Union
<1>2. Cardinality(S \cap T) = 0
  BY FS_EmptySet
<1>3. Cardinality(S) \in Nat /\ Cardinality(T) \in Nat
  BY FS_CardinalityType
<1>4. QED
  BY <1>1, <1>2, <1>3

\* While no patch is merged and none has returned, no triple of the snapshot is an addition.
LEMMA AdditionsNew ==
  ASSUME IInv, SInv, NoneReturned, ~appending, NEW t \in snapshot
  PROVE  ~InAdditions(t)
<1>1. AtRest(t, patchId - 1)
  BY DEF SInv, IInv, TypeOK, Passed
<1>2. InAdditions(t) => InDeletions(t)
  BY <1>1 DEF AtRest, Complete, InAdditions, InDeletions
<1>3. QED
  BY <1>2 DEF NoneReturned

\* The triples of a version query are counted in two parts.
LEMMA VersionCountIs == IInv /\ SInv /\ NoneReturned => VersionCountExact
<1> SUFFICES ASSUME IInv, SInv, NoneReturned, ~appending, NEW q \in Queries
             PROVE  VersionCount(q[1], q[2]) = Len(VersionQuery(q[1], q[2]))
  BY DEF VersionCountExact
<1>1. PICK old : old = Matching(snapshot, q[1], q[2])
  OBVIOUS
<1>2. PICK new : new = Matching({t \in Triples : InAdditions(t)}, q[1], q[2])
  OBVIOUS
<1>3. old \subseteq Triples /\ new \subseteq Triples /\ old \cap new = {}
  BY <1>1, <1>2, AdditionsNew DEF Matching, IInv, TypeOK
<1>4. /\ IsFiniteSet(old) /\ IsFiniteSet(new)
      /\ Cardinality(old \cup new) = Cardinality(old) + Cardinality(new)
  <2>1. IsFiniteSet(old) /\ IsFiniteSet(new)
    BY <1>3, Places
  <2>2. QED
    BY <1>3, <2>1, DisjointUnion
<1>5. Matching(Found, q[1], q[2]) = old \cup new
  BY <1>1, <1>2 DEF Found, Matching
<1>6. Len(VersionQuery(q[1], q[2])) = Cardinality(old \cup new)
  <2>1. PICK sorted : sorted = SortedIn(q[1], old \cup new)
    OBVIOUS
  <2>2. DOMAIN sorted = 1 .. Cardinality(old \cup new) /\ Cardinality(old \cup new) \in Nat
    BY <1>3, <2>1, SortedFacts, Places
  <2>3. VersionQuery(q[1], q[2])
          = [i \in DOMAIN sorted |-> [triple |-> sorted[i], versions |-> VersionsOf(sorted[i])]]
    BY <1>5, <2>1 DEF VersionQuery, Found
  <2>4. QED
    BY <2>2, <2>3
<1>7. QED
  BY <1>1, <1>2, <1>4, <1>6 DEF VersionCount, SnapshotCount

(***************************************************************************)
(* The matches in a version are those of the snapshot without the          *)
(* deletions, and the additions, of which the snapshot has none.           *)
(***************************************************************************)
LEMMA MaterializedCountIs ==
  ASSUME IInv, SInv, OneOfBoth, CountInv, RankInv, ReducedInv, NoneReturned,
         NEW k \in Kinds, k # "_p_", NEW p \in PatternsOf(k), NEW id \in Versions
  PROVE  MaterializedCount(k, p, id) = Cardinality(Matching(Version(id), k, p))
<1>1. /\ patchId \in Nat /\ MinPatchId \in Nat \ {0}
      /\ SnapshotId = MinPatchId - 1 /\ Versions = SnapshotId .. patchId - 1
  BY Ids, ParametersAssumption DEF SnapshotId, Versions
<1>2. CASE id = SnapshotId
  BY <1>1, <1>2 DEF MaterializedCount, SnapshotCount, Version
<1>3. CASE id # SnapshotId
  <2>1. id \in Published /\ ~(id < MinPatchId)
    BY <1>1, <1>3 DEF Published
  <2>2. PICK old : old = Matching(snapshot, k, p)
    OBVIOUS
  <2>3. PICK gone : gone = DeletionsOf(k, p, id)
    OBVIOUS
  <2>4. PICK new : new = AdditionsOf(k, p, id)
    OBVIOUS
  <2>5. /\ old \subseteq Triples /\ gone \subseteq old /\ new \subseteq Triples
        /\ old \cap new = {}
    BY <2>2, <2>3, <2>4 DEF Matching, DeletionsOf, AdditionsOf, IInv, TypeOK
  <2>6. Matching(Version(id), k, p) = (old \ gone) \cup new
    BY <2>1, <2>2, <2>3, <2>4, ReadersSee
    DEF Version, Materialized, Matching, DeletionsOf, AdditionsOf, IInv, TypeOK
  <2>7. Cardinality((old \ gone) \cup new) = Cardinality(old) - Cardinality(gone) + Cardinality(new)
    <3>1. IsFiniteSet(old) /\ IsFiniteSet(gone) /\ IsFiniteSet(new) /\ IsFiniteSet(old \ gone)
      BY <2>5, Places
    <3>2. Cardinality(old \ gone) = Cardinality(old) - Cardinality(gone)
      <4>1. old \cap gone = gone
        BY <2>5
      <4>2. QED
        BY <3>1, <4>1, FS_Difference
    <3>3. (old \ gone) \cap new = {}
      BY <2>5
    <3>4. QED
      BY <3>1, <3>2, <3>3, DisjointUnion
  <2>8. DeletionCount(k, p, id) = Cardinality(gone)
    BY <2>1, <2>3, DeletionCountIs
  <2>9. AdditionCount(k, p, id) = Cardinality(new)
    <3>1. new = {t \in Matching(Triples, k, p) : IsAddition(t, id)}
      BY <2>1, <2>4, ReadersSee DEF AdditionsOf, Matching
    <3>2. QED
      BY <2>1, <2>4, <3>1 DEF AdditionCount, CountInv
  <2>10. QED
    BY <1>3, <2>2, <2>6, <2>7, <2>8, <2>9 DEF MaterializedCount, SnapshotCount
<1>4. QED
  BY <1>2, <1>3

(***************************************************************************)
(* get_version_count and get_version_materialized_count are exact for      *)
(* every pattern but those of a predicate alone, as long as no triple of   *)
(* the snapshot has been deleted and added again.                          *)
(***************************************************************************)
THEOREM QueryCountsExact ==
  ASSUME ValidDeltasOnly, "_p_" \notin Kinds
  PROVE  Spec => []CountsUnlessReturned
<1>1. IInv /\ SInv /\ OneOfBoth /\ CountInv /\ RankInv /\ ReducedInv => CountsUnlessReturned
  <2> SUFFICES ASSUME IInv, SInv, OneOfBoth, CountInv, RankInv, ReducedInv, NoneReturned
               PROVE  /\ VersionCountExact
                      /\ \A q \in Queries : \A id \in Versions :
                           MaterializedCount(q[1], q[2], id)
                             = Cardinality(Matching(Version(id), q[1], q[2]))
    BY DEF CountsUnlessReturned, NoneReturned
  <2>1. ASSUME NEW q \in Queries, NEW id \in Versions
        PROVE  MaterializedCount(q[1], q[2], id) = Cardinality(Matching(Version(id), q[1], q[2]))
    <3>1. PICK k \in Kinds, t \in Triples : q = <<k, Pattern(k, t)>>
      BY DEF Queries
    <3>2. q[1] = k /\ q[2] \in PatternsOf(k) /\ k # "_p_"
      BY <3>1 DEF PatternsOf
    <3>3. QED
      BY <3>2, MaterializedCountIs
  <2>2. QED
    BY <2>1, VersionCountIs
<1>2. QED
  BY <1>1, Inductive, AlwaysComplete, AlwaysOneOfBoth, CountsKept, RanksKept, ReducedKept, PTL
===============================================================================
