---------------------------- MODULE PatchTreeProofs ----------------------------
(***************************************************************************)
(* Theorems about one patch tree, for every set of triples, every first    *)
(* patch id, every number of appends and every delta, and from "Complete   *)
(* values" on for every valid delta.                                       *)
(*                                                                         *)
(* The inductive invariant IInv adds to the types that every interval list *)
(* is settled at patchId: no start and no closed end lies behind the id    *)
(* the merge works on.  So each of its calls only ever touches the last    *)
(* interval of a list, and what a published version shows depends on the   *)
(* part of the list in front of it.  And it says that the three cursors    *)
(* are in step: none has run past a key that another is still in front of. *)
(***************************************************************************)
EXTENDS PatchTree, IntervalListProofs, SequenceTheorems

-----------------------------------------------------------------------------
(* Values *)

\* The lists of a value are settled at p.
SettledValue(v, p) == Settled(v.patches, p) /\ Settled(v.local, p)

\* What a reader of version id finds in a value: a change that is not a local one.
Shows(v, id) == Holds(v.patches, id) /\ ~IsIn(v.local, id)

\* Value w in place of v changes nothing below p.
Keeps(v, w, p) ==
  \A id \in Nat : id < p => /\ Holds(w.patches, id) <=> Holds(v.patches, id)
                            /\ Shows(w, id) <=> Shows(v, id)

PlainAt(v, p)    == IsPlainValue(v) /\ SettledValue(v, p)
DeletionAt(v, p) == IsDeletionValue(v) /\ SettledValue(v, p)

(***************************************************************************)
(* The empty list holds nothing, and is settled anywhere.                  *)
(***************************************************************************)
LEMMA EmptyListFacts ==
  ASSUME NEW p \in Nat
  PROVE  /\ Settled(EmptyList, p) /\ DOMAIN EmptyList = {}
         /\ \A l : DOMAIN l = {} => \A id \in Nat : ~IsIn(l, id) /\ ~Holds(l, id)
BY MaxValueAssumption DEF EmptyList, Settled, IsList, IsIn, UpTo, Holds

(***************************************************************************)
(* add, del, set_local_change and unset_local_change of an addition value  *)
(* at an id behind its lists.                                              *)
(***************************************************************************)
LEMMA AdditionValueSteps ==
  ASSUME NEW p \in Nat, p < MaxValue, NEW v, PlainAt(v, p)
  PROVE  /\ PlainAt(AddPatch(v, p), p) /\ Keeps(v, AddPatch(v, p), p)
         /\ PlainAt(DelPatch(v, p), p) /\ Keeps(v, DelPatch(v, p), p)
         /\ PlainAt(SetLocalChange(v, p), p) /\ Keeps(v, SetLocalChange(v, p), p)
         /\ PlainAt(UnsetLocalChange(v, p), p) /\ Keeps(v, UnsetLocalChange(v, p), p)
<1>1. Settled(v.patches, p) /\ Settled(v.local, p) /\ v = [patches |-> v.patches, local |-> v.local]
  BY DEF PlainAt, SettledValue, IsPlainValue
<1>2. /\ Settled(Addition(v.patches, p), p) /\ Settled(Addition(v.local, p), p)
      /\ Settled(Deletion(v.patches, p), p) /\ Settled(Deletion(v.local, p), p)
  BY <1>1, AdditionSettled, DeletionSettled
<1>3. \A l : Settled(l, p) => IsList(l)
  BY DEF Settled
<1>4. AddPatch(v, p) = [patches |-> Addition(v.patches, p), local |-> v.local]
  BY <1>1 DEF AddPatch
<1>5. DelPatch(v, p) = [patches |-> Deletion(v.patches, p), local |-> v.local]
  BY <1>1 DEF DelPatch
<1>6. SetLocalChange(v, p) = [patches |-> v.patches, local |-> Addition(v.local, p)]
  BY <1>1 DEF SetLocalChange
<1>7. UnsetLocalChange(v, p) = [patches |-> v.patches, local |-> Deletion(v.local, p)]
  BY <1>1 DEF UnsetLocalChange
<1>8. \A id \in Nat : id < p =>
        /\ Holds(Addition(v.patches, p), id) <=> Holds(v.patches, id)
        /\ Holds(Deletion(v.patches, p), id) <=> Holds(v.patches, id)
        /\ IsIn(Addition(v.local, p), id) <=> IsIn(v.local, id)
        /\ IsIn(Deletion(v.local, p), id) <=> IsIn(v.local, id)
  BY <1>1, AdditionBelow, DeletionBelow, AdditionHoldsBelow, DeletionHoldsBelow
<1>9. PlainAt(AddPatch(v, p), p) /\ Keeps(v, AddPatch(v, p), p)
  BY <1>1, <1>2, <1>3, <1>4, <1>8
  DEF PlainAt, IsPlainValue, IsLists, SettledValue, Keeps, Shows
<1>10. PlainAt(DelPatch(v, p), p) /\ Keeps(v, DelPatch(v, p), p)
  BY <1>1, <1>2, <1>3, <1>5, <1>8
  DEF PlainAt, IsPlainValue, IsLists, SettledValue, Keeps, Shows
<1>11. PlainAt(SetLocalChange(v, p), p) /\ Keeps(v, SetLocalChange(v, p), p)
  BY <1>1, <1>2, <1>3, <1>6, <1>8
  DEF PlainAt, IsPlainValue, IsLists, SettledValue, Keeps, Shows
<1>12. PlainAt(UnsetLocalChange(v, p), p) /\ Keeps(v, UnsetLocalChange(v, p), p)
  BY <1>1, <1>2, <1>3, <1>7, <1>8
  DEF PlainAt, IsPlainValue, IsLists, SettledValue, Keeps, Shows
<1>13. QED
  BY <1>9, <1>10, <1>11, <1>12

(***************************************************************************)
(* Positions stay well-formed whichever way insert_positions goes.         *)
(***************************************************************************)
LEMMA InsertPositionsType ==
  ASSUME NEW f, IsPositions(f), NEW id \in Nat, NEW new \in [Kinds -> Nat \cup {-1}]
  PROVE  IsPositions(InsertPositions(f, id, new))
<1>1. PICK g : g = [e \in DOMAIN f \cup {id} |-> IF e = id THEN new ELSE f[e]]
  OBVIOUS
<1>2. IsPositions(g)
  BY <1>1 DEF IsPositions
<1>3. InsertPositions(f, id, new) = g \/ InsertPositions(f, id, new) = f
  BY <1>1, Zenon DEF InsertPositions
<1>4. QED
  BY <1>2, <1>3

(***************************************************************************)
(* add and del of a deletion value at an id behind its lists.              *)
(***************************************************************************)
LEMMA DeletionValueSteps ==
  ASSUME NEW p \in Nat, p < MaxValue, NEW v, DeletionAt(v, p),
         NEW local, NEW new \in [Kinds -> Nat \cup {-1}]
  PROVE  /\ DeletionAt(AddElement(v, p, local, new), p)
         /\ Keeps(v, AddElement(v, p, local, new), p)
         /\ DeletionAt(DelElement(v, p), p) /\ Keeps(v, DelElement(v, p), p)
<1>1. /\ Settled(v.patches, p) /\ Settled(v.local, p) /\ IsPositions(v.positions)
      /\ v = [patches |-> v.patches, local |-> v.local, positions |-> v.positions]
  BY DEF DeletionAt, SettledValue, IsDeletionValue
<1>2. /\ Settled(Addition(v.patches, p), p) /\ Settled(Addition(v.local, p), p)
      /\ Settled(Deletion(v.patches, p), p) /\ Settled(Deletion(v.local, p), p)
      /\ IsPositions(InsertPositions(v.positions, p, new))
  BY <1>1, AdditionSettled, DeletionSettled, InsertPositionsType
<1>3. \A l : Settled(l, p) => IsList(l)
  BY DEF Settled
<1>4. \A id \in Nat : id < p =>
        /\ Holds(Addition(v.patches, p), id) <=> Holds(v.patches, id)
        /\ Holds(Deletion(v.patches, p), id) <=> Holds(v.patches, id)
        /\ IsIn(Addition(v.local, p), id) <=> IsIn(v.local, id)
        /\ IsIn(Deletion(v.local, p), id) <=> IsIn(v.local, id)
  BY <1>1, AdditionBelow, DeletionBelow, AdditionHoldsBelow, DeletionHoldsBelow
<1>5. DeletionAt(AddElement(v, p, local, new), p) /\ Keeps(v, AddElement(v, p, local, new), p)
  <2>1. AddElement(v, p, local, new) =
          [patches   |-> Addition(v.patches, p),
           local     |-> IF local THEN Addition(v.local, p) ELSE v.local,
           positions |-> InsertPositions(v.positions, p, new)]
    BY DEF AddElement
  <2>2. CASE local
    BY <1>1, <1>2, <1>3, <1>4, <2>1, <2>2
    DEF DeletionAt, IsDeletionValue, IsLists, SettledValue, Keeps, Shows
  <2>3. CASE ~local
    BY <1>1, <1>2, <1>3, <1>4, <2>1, <2>3
    DEF DeletionAt, IsDeletionValue, IsLists, SettledValue, Keeps, Shows
  <2>4. QED
    BY <2>2, <2>3
<1>6. DeletionAt(DelElement(v, p), p) /\ Keeps(v, DelElement(v, p), p)
  <2>1. DelElement(v, p) = [patches   |-> Deletion(v.patches, p),
                            local     |-> Deletion(v.local, p),
                            positions |-> v.positions]
    BY DEF DelElement
  <2>2. QED
    BY <1>1, <1>2, <1>3, <1>4, <2>1
    DEF DeletionAt, IsDeletionValue, IsLists, SettledValue, Keeps, Shows
<1>7. QED
  BY <1>5, <1>6

(***************************************************************************)
(* The values of keys that are not in a tree.                              *)
(***************************************************************************)
LEMMA NoValues ==
  ASSUME NEW p \in Nat
  PROVE  /\ PlainAt(NoAddition, p) /\ PlainAt(NoReduced, p) /\ DeletionAt(NoDeletion, p)
         /\ \A id \in Nat : /\ ~Shows(NoAddition, id) /\ ~Holds(NoAddition.patches, id)
                           /\ ~Shows(NoDeletion, id) /\ ~Holds(NoDeletion.patches, id)
<1>1. Settled(EmptyList, p) /\ IsList(EmptyList)
  BY EmptyListFacts DEF Settled
<1>2. IsPositions([id \in {} |-> NoPositions])
  BY DEF IsPositions
<1>3. QED
  BY <1>1, <1>2, EmptyListFacts
  DEF NoAddition, NoReduced, NoDeletion, PlainAt, DeletionAt, SettledValue, IsPlainValue,
      IsDeletionValue, IsLists, Shows

(***************************************************************************)
(* A fresh value written for a key that is not in the tree.                *)
(***************************************************************************)
LEMMA FreshValues ==
  ASSUME patchId \in Nat, patchId < MaxValue,
         NEW local, NEW new \in [Kinds -> Nat \cup {-1}]
  PROVE  /\ PlainAt(FreshAddition(local), patchId)
         /\ \A v : DOMAIN v.patches = {} => Keeps(v, FreshAddition(local), patchId)
         /\ DeletionAt(FreshDeletion(local, new), patchId)
         /\ \A v : DOMAIN v.patches = {} => Keeps(v, FreshDeletion(local, new), patchId)
<1>1. \A v : DOMAIN v.patches = {} => \A id \in Nat : ~Shows(v, id) /\ ~Holds(v.patches, id)
  BY EmptyListFacts DEF Shows
<1>2. DeletionAt(FreshDeletion(local, new), patchId) /\ Keeps(NoDeletion, FreshDeletion(local, new), patchId)
  BY NoValues, DeletionValueSteps DEF FreshDeletion
<1>3. DEFINE a == AddPatch(NoAddition, patchId)
             b == SetLocalChange(a, patchId)
<1>4. PlainAt(a, patchId) /\ Keeps(NoAddition, a, patchId)
  BY NoValues, AdditionValueSteps
<1> HIDE DEF a
<1>5. PlainAt(b, patchId) /\ Keeps(a, b, patchId)
  BY <1>4, AdditionValueSteps
<1>6. FreshAddition(local) = a \/ FreshAddition(local) = b
  BY DEF FreshAddition, a
<1>7. PlainAt(FreshAddition(local), patchId) /\ Keeps(NoAddition, FreshAddition(local), patchId)
  <2> HIDE DEF b
  <2>1. Keeps(NoAddition, b, patchId)
    BY <1>4, <1>5 DEF Keeps
  <2>2. QED
    BY <1>4, <1>5, <1>6, <2>1
<1>8. QED
  BY <1>1, <1>2, <1>7, NoValues DEF Keeps

-----------------------------------------------------------------------------
(* The cursors *)

InPatch(t) == t \in patchAdds \cup patchDels

\* The triples the merge can still come to: from the least cursor on.
todo == {u \in Triples : \E at \in {patchAt, deletionAt, additionAt} : at # End /\ at <= u}

\* Those it has to stop at.
Remaining == {u \in todo : InPatch(u) \/ InDeletions(u) \/ InAdditions(u)}

IsNext(t) == t \in Remaining /\ \A u \in Remaining : t <= u

(***************************************************************************)
(* A cursor stands on a key, and no key from the least cursor on is behind *)
(* its own: also not one of the records that the merge has written.        *)
(***************************************************************************)
CursorsInOrder ==
  /\ patchAt # End => InPatch(patchAt)
  /\ deletionAt # End => InDeletions(deletionAt)
  /\ additionAt # End => InAdditions(additionAt)
  /\ \A u \in todo : /\ InPatch(u) => patchAt # End /\ patchAt <= u
                     /\ InDeletions(u) => deletionAt # End /\ deletionAt <= u
                     /\ InAdditions(u) => additionAt # End /\ additionAt <= u

\* A step past t, which leaves out no triple that the merge has to stop at.
Pass(t) ==
  /\ todo' \subseteq {u \in todo : u > t}
  /\ \A u \in todo : u # t /\ u \notin todo' => u \notin Remaining
  /\ CursorsInOrder'
  /\ {patchAt, deletionAt, additionAt}' \subseteq Triples \cup {End}
  /\ UNCHANGED <<snapshot, maxPatchId, counts, appending, patchId, patchAdds, patchDels>>

\* The step of the iteration for t, which is in the patch and the trees that the flags say.
Takes(t, patch, inDeletions, inAdditions) ==
  /\ IsNext(t) /\ Pass(t)
  /\ InPatch(t) <=> patch
  /\ InDeletions(t) <=> inDeletions
  /\ InAdditions(t) <=> inAdditions

\* The branches, for the triple they are taken for.
CarryDeletionAt(t)  == Takes(t, FALSE, TRUE, FALSE) /\ CarryDeletion(t)
CarryAdditionAt(t)  == Takes(t, FALSE, FALSE, TRUE) /\ CarryAddition(t)
InsertAdditionAt(t) == Takes(t, TRUE, FALSE, FALSE) /\ InsertAddition(t)
InsertDeletionAt(t) == Takes(t, TRUE, FALSE, FALSE) /\ InsertDeletion(t)
ReturnDeletedAt(t)  == Takes(t, TRUE, TRUE, FALSE) /\ ReturnDeleted(t)
DeleteAgainAt(t)    == Takes(t, TRUE, TRUE, FALSE) /\ DeleteAgain(t)
DeleteAddedAt(t)    == Takes(t, TRUE, FALSE, TRUE) /\ DeleteAdded(t)
AddAgainAt(t)       == Takes(t, TRUE, FALSE, TRUE) /\ AddAgain(t)

SettleAt(t, invert, q) == Takes(t, invert, TRUE, TRUE) /\ Settle(t, invert, q)
CarryBothAt(t)  == SettleAt(t, FALSE, PatchElementTriple)
InvertBothAt(t) == SettleAt(t, TRUE, PatchElementTriple)

\* One of the branches, for triple t.
Merges(t) ==
  \/ CarryDeletionAt(t) \/ CarryAdditionAt(t) \/ InsertAdditionAt(t) \/ InsertDeletionAt(t)
  \/ ReturnDeletedAt(t) \/ DeleteAgainAt(t) \/ DeleteAddedAt(t) \/ AddAgainAt(t)
  \/ CarryBothAt(t) \/ InvertBothAt(t)

-----------------------------------------------------------------------------
(* The trees *)

IInv ==
  /\ TypeOK
  /\ CursorsInOrder
  /\ appending => patchId <= LastAppended
  /\ maxPatchId = IF patchId = MinPatchId THEN MinPatchId ELSE patchId - 1
  /\ \A t \in Triples : SettledValue(additions[t], patchId) /\ SettledValue(deletions[t], patchId)

\* The trees after a merge step, and what they keep.
AdditionsMerged ==
  /\ additions' = [t \in Triples |-> additions'[t]]
  /\ \A t \in Triples : /\ PlainAt(additions'[t], patchId)
                        /\ Keeps(additions[t], additions'[t], patchId)

DeletionsMerged ==
  /\ deletions' = [t \in Triples |-> deletions'[t]]
  /\ \A t \in Triples : /\ DeletionAt(deletions'[t], patchId)
                        /\ Keeps(deletions[t], deletions'[t], patchId)
  /\ reduced' = [t \in Triples |-> reduced'[t]]
  /\ \A t \in Triples : IsPlainValue(reduced'[t])

(***************************************************************************)
(* The ids of the constants and of the running append.                     *)
(***************************************************************************)
LEMMA Ids ==
  ASSUME IInv
  PROVE  /\ patchId \in Nat /\ patchId < MaxValue /\ maxPatchId \in Nat /\ Outer \in Nat
         /\ Outer < MaxValue /\ maxPatchId <= patchId /\ MinPatchId \in Nat
         /\ \A t \in Triples : PlainAt(additions[t], patchId) /\ DeletionAt(deletions[t], patchId)
         /\ \A t \in Triples : IsPlainValue(reduced[t])
<1>1. /\ patchId \in Nat /\ patchId < MaxValue /\ maxPatchId \in Nat /\ Outer \in Nat
      /\ Outer < MaxValue /\ maxPatchId <= patchId /\ MinPatchId \in Nat
  BY ParametersAssumption, MaxValueAssumption DEF IInv, TypeOK, Outer
<1>2. QED
  BY <1>1 DEF IInv, TypeOK, PlainAt, DeletionAt

(***************************************************************************)
(* Trees that are left alone, or written at one key.                       *)
(***************************************************************************)
LEMMA AdditionsUnchanged ==
  ASSUME IInv, additions' = additions
  PROVE  AdditionsMerged
BY Ids DEF AdditionsMerged, IInv, TypeOK, Keeps

\* A write to the addition trees at one key.
LEMMA AdditionsWritten ==
  ASSUME IInv, NEW t \in Triples, NEW w,
         PlainAt(w, patchId), Keeps(additions[t], w, patchId),
         WriteAddition(t, w)
  PROVE  AdditionsMerged
<1>1. additions' = [u \in Triples |-> IF u = t THEN w ELSE additions[u]]
  BY DEF IInv, TypeOK, WriteAddition
<1>2. QED
  BY <1>1, Ids DEF AdditionsMerged, Keeps

\* A rebuilt reduced value is well-formed.
LEMMA ReducedType ==
  ASSUME NEW v, IsList(v.patches), NEW outer \in Nat
  PROVE  IsPlainValue(ToReduced(v, outer))
<1>1. \A ids : ids \subseteq Nat => IsList(AddedInOrder(ids))
  BY MinOfNat, MaxValueAssumption DEF AddedInOrder, EmptyList, Opened, IsList
<1>2. Elements(v.patches, outer) \subseteq Nat
  BY DEF Elements, EndOf, IsList
<1>3. QED
  BY <1>1, <1>2 DEF ToReduced, IsPlainValue, IsLists

\* Deletion trees that are left alone.
LEMMA DeletionsUnchanged ==
  ASSUME IInv, deletions' = deletions, reduced' = reduced
  PROVE  DeletionsMerged
BY Ids DEF DeletionsMerged, IInv, TypeOK, Keeps

\* A write to the deletion trees at one key.
LEMMA DeletionsWritten ==
  ASSUME IInv, NEW t \in Triples, NEW w, NEW outer \in Nat,
         DeletionAt(w, patchId), Keeps(deletions[t], w, patchId),
         WriteDeletion(t, w, outer)
  PROVE  DeletionsMerged
<1>1. deletions' = [u \in Triples |-> IF u = t THEN w ELSE deletions[u]]
  BY DEF IInv, TypeOK, WriteDeletion
<1>2. /\ deletions' = [u \in Triples |-> deletions'[u]]
      /\ \A u \in Triples : /\ DeletionAt(deletions'[u], patchId)
                            /\ Keeps(deletions[u], deletions'[u], patchId)
  BY <1>1, Ids DEF Keeps
<1>3. IsPlainValue(ToReduced(w, outer))
  BY ReducedType DEF DeletionAt, IsDeletionValue, IsLists
<1>4. \/ reduced' = reduced
      \/ reduced' = [u \in Triples |-> IF u = t THEN ToReduced(w, outer) ELSE reduced[u]]
  BY DEF IInv, TypeOK, WriteDeletion
<1>5. /\ reduced' = [u \in Triples |-> reduced'[u]]
      /\ \A u \in Triples : IsPlainValue(reduced'[u])
  BY <1>3, <1>4, Ids DEF IInv, TypeOK
<1>6. QED
  BY <1>2, <1>5 DEF DeletionsMerged

-----------------------------------------------------------------------------
(* How the cursors move *)

(***************************************************************************)
(* The record a cursor gets: the least, or none.                           *)
(***************************************************************************)
LEMMA FirstFacts ==
  ASSUME NEW keys, keys \subseteq Triples
  PROVE  /\ First(keys) \in Triples \cup {End}
         /\ First(keys) # End => First(keys) \in keys
         /\ \A u \in keys : First(keys) # End /\ First(keys) <= u
<1>1. keys \subseteq Nat
  BY TriplesAssumption
<1>2. CASE keys = {}
  BY <1>2 DEF First
<1>3. CASE keys # {}
  <2>1. PICK m : m = Min(keys)
    OBVIOUS
  <2>2. m \in keys /\ \A u \in keys : m <= u
    BY <1>1, <1>3, <2>1, MinOfNat
  <2>3. First(keys) = m /\ m # End
    BY <1>1, <1>3, <2>1, <2>2 DEF First, End
  <2>4. QED
    BY <2>2, <2>3
<1>4. QED
  BY <1>2, <1>3

\* A cursor is on a key behind t or has ended, and no key behind t is behind the cursor.
Behind(at, t, keys) ==
  /\ at = End \/ (at \in keys /\ at > t)
  /\ \A u \in keys : u > t => at # End /\ at <= u

\* The trees change at t only.
OnlyAt(t) ==
  \A u \in Triples \ {t} : additions'[u] = additions[u] /\ deletions'[u] = deletions[u]

(***************************************************************************)
(* Where an iteration for t leaves the cursors: those at t step over the   *)
(* records as they are then, the others are behind t.                      *)
(***************************************************************************)
LEMMA CursorsBehind ==
  ASSUME IInv, NEW t \in Triples, OnlyAt(t), NEW p, NEW d, NEW a,
         p <=> patchAt = t, d <=> deletionAt = t, a <=> additionAt = t,
         \A at \in {patchAt, deletionAt, additionAt} : at # End => t <= at,
         p \/ d \/ a, Step(p, d, a)
  PROVE  /\ Behind(patchAt', t, PatchKeys')
         /\ Behind(deletionAt', t, DeletionKeys')
         /\ Behind(additionAt', t, AdditionKeys')
         /\ \A u \in Triples : u > t => /\ u \in DeletionKeys' <=> u \in DeletionKeys
                                        /\ u \in AdditionKeys' <=> u \in AdditionKeys
         /\ PatchKeys' = PatchKeys
<1>1. /\ t \in Nat /\ t # End /\ Triples \subseteq Nat
      /\ patchAt # End => patchAt \in Triples /\ patchAt \in Nat /\ t <= patchAt
      /\ deletionAt # End => deletionAt \in Triples /\ deletionAt \in Nat /\ t <= deletionAt
      /\ additionAt # End => additionAt \in Triples /\ additionAt \in Nat /\ t <= additionAt
      /\ PatchKeys \subseteq Triples
  BY TriplesAssumption DEF IInv, TypeOK, End, PatchKeys
<1>2. PatchKeys' = PatchKeys
  BY DEF Step, PatchKeys
<1>3. \A u \in Triples : u > t => /\ u \in DeletionKeys' <=> u \in DeletionKeys
                                  /\ u \in AdditionKeys' <=> u \in AdditionKeys
  BY <1>1 DEF OnlyAt, DeletionKeys, AdditionKeys, InDeletions, InAdditions
<1>4. \A u \in Triples : u > t => u \in todo
  <2> SUFFICES ASSUME NEW u \in Triples, u > t PROVE u \in todo
    OBVIOUS
  <2>1. u \in Nat
    BY <1>1
  <2>2. \E at \in {patchAt, deletionAt, additionAt} : at = t
    OBVIOUS
  <2>3. QED
    BY <1>1, <2>1, <2>2 DEF todo
<1>5. /\ DeletionKeys \subseteq Triples /\ AdditionKeys \subseteq Triples
      /\ DeletionKeys' \subseteq Triples /\ AdditionKeys' \subseteq Triples
  BY DEF DeletionKeys, AdditionKeys
<1>6. ASSUME NEW keys, keys \subseteq Triples
      PROVE  Behind(Stepped(t, keys), t, keys)
  <2>1. {u \in keys : u > t} \subseteq Triples
    BY <1>6
  <2>2. PICK ahead : ahead = {u \in keys : u > t}
    OBVIOUS
  <2>3. /\ First(ahead) # End => First(ahead) \in ahead
        /\ \A u \in ahead : First(ahead) # End /\ First(ahead) <= u
    BY <2>1, <2>2, FirstFacts
  <2>4. QED
    BY <2>2, <2>3 DEF Behind, Stepped
<1>7. Behind(patchAt', t, PatchKeys')
  <2>1. CASE p
    BY <1>1, <1>2, <1>6, <2>1 DEF Step
  <2>2. CASE ~p
    <3>1. patchAt' = patchAt /\ patchAt # t
      BY <2>2 DEF Step
    <3>2. patchAt # End => patchAt > t
      BY <1>1, <3>1
    <3>3. /\ patchAt # End => patchAt \in PatchKeys
          /\ \A u \in PatchKeys : u > t => patchAt # End /\ patchAt <= u
      BY <1>1, <1>4, <1>5 DEF IInv, CursorsInOrder, InPatch, PatchKeys
    <3>4. QED
      BY <1>2, <3>1, <3>2, <3>3 DEF Behind
  <2>3. QED
    BY <2>1, <2>2
<1>8. Behind(deletionAt', t, DeletionKeys')
  <2>1. CASE d
    BY <1>1, <1>5, <1>6, <2>1 DEF Step
  <2>2. CASE ~d
    <3>1. deletionAt' = deletionAt /\ deletionAt # t
      BY <2>2 DEF Step
    <3>2. deletionAt # End => deletionAt > t
      BY <1>1, <3>1
    <3>3. /\ deletionAt # End => deletionAt \in DeletionKeys
          /\ \A u \in DeletionKeys : u > t => deletionAt # End /\ deletionAt <= u
      BY <1>1, <1>4, <1>5 DEF IInv, CursorsInOrder, DeletionKeys
    <3>4. QED
      BY <1>1, <1>3, <1>5, <3>1, <3>2, <3>3 DEF Behind
  <2>3. QED
    BY <2>1, <2>2
<1>9. Behind(additionAt', t, AdditionKeys')
  <2>1. CASE a
    BY <1>1, <1>5, <1>6, <2>1 DEF Step
  <2>2. CASE ~a
    <3>1. additionAt' = additionAt /\ additionAt # t
      BY <2>2 DEF Step
    <3>2. additionAt # End => additionAt > t
      BY <1>1, <3>1
    <3>3. /\ additionAt # End => additionAt \in AdditionKeys
          /\ \A u \in AdditionKeys : u > t => additionAt # End /\ additionAt <= u
      BY <1>1, <1>4, <1>5 DEF IInv, CursorsInOrder, AdditionKeys
    <3>4. QED
      BY <1>1, <1>3, <1>5, <3>1, <3>2, <3>3 DEF Behind
  <2>3. QED
    BY <2>1, <2>2
<1>10. QED
  BY <1>2, <1>3, <1>7, <1>8, <1>9

(***************************************************************************)
(* So such an iteration is for the least triple of the three, and passes   *)
(* it and nothing else that there is.                                      *)
(***************************************************************************)
LEMMA StepTakes ==
  ASSUME IInv, NEW t \in Triples, OnlyAt(t), NEW p, NEW d, NEW a,
         p <=> patchAt = t, d <=> deletionAt = t, a <=> additionAt = t,
         \A at \in {patchAt, deletionAt, additionAt} : at # End => t <= at,
         p \/ d \/ a, Step(p, d, a)
  PROVE  Takes(t, p, d, a)
<1>1. /\ t \in Nat /\ t # End /\ Triples \subseteq Nat
      /\ patchAt # End => patchAt \in Triples /\ patchAt \in Nat /\ t <= patchAt
      /\ deletionAt # End => deletionAt \in Triples /\ deletionAt \in Nat /\ t <= deletionAt
      /\ additionAt # End => additionAt \in Triples /\ additionAt \in Nat /\ t <= additionAt
      /\ PatchKeys \subseteq Triples
  BY TriplesAssumption DEF IInv, TypeOK, End, PatchKeys
<1>2. /\ Behind(patchAt', t, PatchKeys')
      /\ Behind(deletionAt', t, DeletionKeys')
      /\ Behind(additionAt', t, AdditionKeys')
      /\ \A u \in Triples : u > t => /\ u \in DeletionKeys' <=> u \in DeletionKeys
                                     /\ u \in AdditionKeys' <=> u \in AdditionKeys
      /\ PatchKeys' = PatchKeys
  BY CursorsBehind
<1>3. /\ todo \subseteq Triples /\ t \in todo
      /\ \A u \in todo : t <= u
  <2>1. ASSUME NEW u \in todo PROVE t <= u
    <3>1. u \in Nat /\ \/ patchAt # End /\ patchAt <= u
                       \/ deletionAt # End /\ deletionAt <= u
                       \/ additionAt # End /\ additionAt <= u
      BY <1>1 DEF todo
    <3>2. QED
      BY <1>1, <3>1
  <2>2. QED
    BY <1>1, <2>1 DEF todo
<1>4. /\ InPatch(t) <=> p
      /\ InDeletions(t) <=> d
      /\ InAdditions(t) <=> a
  BY <1>1, <1>3 DEF IInv, CursorsInOrder
<1>5. IsNext(t)
  BY <1>3, <1>4 DEF IsNext, Remaining
<1>6. /\ {patchAt', deletionAt', additionAt'} \subseteq Triples \cup {End}
      /\ \A at \in {patchAt', deletionAt', additionAt'} : at # End => at > t
  BY <1>1, <1>2 DEF Behind, DeletionKeys, AdditionKeys
<1>7. todo' \subseteq {u \in todo : u > t}
  <2> SUFFICES ASSUME NEW u \in todo' PROVE u \in todo /\ u > t
    OBVIOUS
  <2>1. /\ u \in Triples
        /\ \E at \in {patchAt', deletionAt', additionAt'} : at \in Nat /\ at > t /\ at <= u
    BY <1>1, <1>6 DEF todo
  <2>2. u > t
    BY <1>1, <2>1
  <2>3. QED
    BY <1>1, <1>3, <2>1, <2>2 DEF todo
<1>8. CursorsInOrder'
  <2>1. /\ patchAt' # End => InPatch(patchAt)'
        /\ deletionAt' # End => InDeletions(deletionAt)'
        /\ additionAt' # End => InAdditions(additionAt)'
    BY <1>2 DEF Behind, InPatch, PatchKeys, DeletionKeys, AdditionKeys
  <2>2. ASSUME NEW u \in todo'
        PROVE  /\ InPatch(u)' => patchAt' # End /\ patchAt' <= u
               /\ InDeletions(u)' => deletionAt' # End /\ deletionAt' <= u
               /\ InAdditions(u)' => additionAt' # End /\ additionAt' <= u
    <3>1. u \in Triples /\ u > t
      BY <1>3, <1>7
    <3>2. QED
      BY <1>2, <3>1 DEF Behind, InPatch, PatchKeys, DeletionKeys, AdditionKeys
  <2>3. QED
    BY <2>1, <2>2 DEF CursorsInOrder
<1>9. ASSUME NEW u \in todo, u # t, u \notin todo' PROVE u \notin Remaining
  <2>1. u \in Triples /\ u > t
    BY <1>1, <1>3, <1>9
  <2>2. \A at \in {patchAt', deletionAt', additionAt'} : ~(at # End /\ at <= u)
    BY <1>9, <2>1 DEF todo
  <2>3. u \notin PatchKeys /\ u \notin DeletionKeys /\ u \notin AdditionKeys
    BY <1>2, <2>1, <2>2 DEF Behind
  <2>4. QED
    BY <2>1, <2>3 DEF Remaining, InPatch, PatchKeys, DeletionKeys, AdditionKeys
<1>10. Pass(t)
  BY <1>6, <1>7, <1>8, <1>9 DEF Pass, Step
<1>11. QED
  BY <1>4, <1>5, <1>10 DEF Takes

(***************************************************************************)
(* The comparisons of the loop select, in every state of the cursors, a    *)
(* branch whose flags step the cursors that stand on the least triple.     *)
(***************************************************************************)
LEMMA StepsMerge ==
  ASSUME IInv, MergeStep
  PROVE  \E t \in todo : Merges(t)
<1>1. /\ Triples \subseteq Nat /\ End \notin Nat
      /\ patchAt \in Triples \cup {End} /\ deletionAt \in Triples \cup {End}
      /\ additionAt \in Triples \cup {End}
      /\ patchAdds \subseteq Triples /\ patchDels \subseteq Triples
  BY TriplesAssumption DEF IInv, TypeOK, End
<1>2. /\ additions = [u \in Triples |-> additions[u]]
      /\ deletions = [u \in Triples |-> deletions[u]]
  BY DEF IInv, TypeOK
<1>3. \A t \in Triples : \A v : WriteAddition(t, v) =>
        \A u \in Triples \ {t} : additions'[u] = additions[u]
  BY <1>2 DEF WriteAddition
<1>4. \A t \in Triples : \A v, outer : WriteDeletion(t, v, outer) =>
        \A u \in Triples \ {t} : deletions'[u] = deletions[u]
  BY <1>2 DEF WriteDeletion
<1>5. \A t, p, d, a : Takes(t, p, d, a) => t \in todo
  BY DEF Takes, IsNext, Remaining
<1>6. ASSUME CarryDeletion(deletionAt) PROVE CarryDeletionAt(deletionAt) /\ deletionAt \in Triples
  <2>1. /\ deletionAt \in Triples /\ patchAt # deletionAt /\ additionAt # deletionAt
        /\ \A at \in {patchAt, deletionAt, additionAt} : at # End => deletionAt <= at
    BY <1>1, <1>6 DEF CarryDeletion, Less
  <2>2. OnlyAt(deletionAt) /\ Step(FALSE, TRUE, FALSE)
    BY <1>4, <1>6, <2>1 DEF CarryDeletion, OnlyAt
  <2>3. QED
    BY <1>6, <2>1, <2>2, StepTakes DEF CarryDeletionAt
<1>7. ASSUME CarryAddition(additionAt) PROVE CarryAdditionAt(additionAt) /\ additionAt \in Triples
  <2>1. /\ additionAt \in Triples /\ patchAt # additionAt /\ deletionAt # additionAt
        /\ \A at \in {patchAt, deletionAt, additionAt} : at # End => additionAt <= at
    BY <1>1, <1>7 DEF CarryAddition, Less
  <2>2. OnlyAt(additionAt) /\ Step(FALSE, FALSE, TRUE)
    BY <1>3, <1>7, <2>1 DEF CarryAddition, OnlyAt
  <2>3. QED
    BY <1>7, <2>1, <2>2, StepTakes DEF CarryAdditionAt
<1>8. ASSUME InsertAddition(patchAt) \/ InsertDeletion(patchAt)
      PROVE  (InsertAdditionAt(patchAt) \/ InsertDeletionAt(patchAt)) /\ patchAt \in Triples
  <2> Less(patchAt, deletionAt) /\ Less(patchAt, additionAt)
    BY <1>8 DEF InsertAddition, InsertDeletion
  <2>1. /\ patchAt \in Triples /\ patchAt # deletionAt /\ patchAt # additionAt
        /\ \A at \in {patchAt, deletionAt, additionAt} : at # End => patchAt <= at
    BY <1>1 DEF Less
  <2>2. OnlyAt(patchAt) /\ Step(TRUE, FALSE, FALSE)
    BY <1>3, <1>4, <1>8, <2>1 DEF InsertAddition, InsertDeletion, OnlyAt
  <2>3. QED
    BY <1>8, <2>1, <2>2, StepTakes DEF InsertAdditionAt, InsertDeletionAt
<1>9. ASSUME ReturnDeleted(patchAt) \/ DeleteAgain(patchAt)
      PROVE  (ReturnDeletedAt(patchAt) \/ DeleteAgainAt(patchAt)) /\ patchAt \in Triples
  <2> Equal(patchAt, deletionAt) /\ Less(patchAt, additionAt)
    BY <1>9 DEF ReturnDeleted, DeleteAgain
  <2>1. /\ patchAt \in Triples /\ patchAt = deletionAt /\ patchAt # additionAt
        /\ \A at \in {patchAt, deletionAt, additionAt} : at # End => patchAt <= at
    BY <1>1 DEF Less, Equal
  <2>2. OnlyAt(patchAt) /\ Step(TRUE, TRUE, FALSE)
    BY <1>3, <1>4, <1>9, <2>1 DEF ReturnDeleted, DeleteAgain, OnlyAt
  <2>3. QED
    BY <1>9, <2>1, <2>2, StepTakes DEF ReturnDeletedAt, DeleteAgainAt
<1>10. ASSUME DeleteAdded(patchAt) \/ AddAgain(patchAt)
       PROVE  (DeleteAddedAt(patchAt) \/ AddAgainAt(patchAt)) /\ patchAt \in Triples
  <2> Equal(patchAt, additionAt) /\ Less(patchAt, deletionAt)
    BY <1>10 DEF DeleteAdded, AddAgain
  <2>1. /\ patchAt \in Triples /\ patchAt # deletionAt /\ patchAt = additionAt
        /\ \A at \in {patchAt, deletionAt, additionAt} : at # End => patchAt <= at
    BY <1>1 DEF Less, Equal
  <2>2. OnlyAt(patchAt) /\ Step(TRUE, FALSE, TRUE)
    BY <1>3, <1>4, <1>10, <2>1 DEF DeleteAdded, AddAgain, OnlyAt
  <2>3. QED
    BY <1>10, <2>1, <2>2, StepTakes DEF DeleteAddedAt, AddAgainAt
<1>11. ASSUME CarryBoth(deletionAt) \/ InvertBoth(deletionAt)
       PROVE  (CarryBothAt(deletionAt) \/ InvertBothAt(deletionAt)) /\ deletionAt \in Triples
  <2>1. /\ NoneSmallest
        /\ \/ Less(deletionAt, patchAt) /\ Settle(deletionAt, FALSE, PatchElementTriple)
           \/ ~Less(deletionAt, patchAt) /\ Settle(deletionAt, TRUE, PatchElementTriple)
    BY <1>11 DEF CarryBoth, InvertBoth, Settle
  <2>2. /\ deletionAt \in Triples /\ additionAt = deletionAt
        /\ Less(deletionAt, patchAt) => patchAt # deletionAt
        /\ ~Less(deletionAt, patchAt) => patchAt = deletionAt
        /\ \A at \in {patchAt, deletionAt, additionAt} : at # End => deletionAt <= at
    BY <1>1, <2>1 DEF NoneSmallest, AllEnded, Less, Equal
  <2>3. ASSUME NEW invert \in BOOLEAN, Settle(deletionAt, invert, PatchElementTriple)
        PROVE  OnlyAt(deletionAt) /\ Step(invert, TRUE, TRUE)
    BY <1>3, <1>4, <2>2, <2>3 DEF Settle, SettleAsAddition, SettleAsDeletion, OnlyAt, trees
  <2>4. CASE Less(deletionAt, patchAt)
    BY <2>1, <2>2, <2>3, <2>4, StepTakes DEF CarryBothAt, SettleAt
  <2>5. CASE ~Less(deletionAt, patchAt)
    BY <2>1, <2>2, <2>3, <2>5, StepTakes DEF InvertBothAt, SettleAt
  <2>6. QED
    BY <2>2, <2>4, <2>5
<1>12. PICK t \in Triples : Merges(t)
  BY <1>6, <1>7, <1>8, <1>9, <1>10, <1>11 DEF MergeStep, Merges
<1>13. t \in todo
  BY <1>5, <1>12 DEF Merges, CarryDeletionAt, CarryAdditionAt, InsertAdditionAt, InsertDeletionAt,
     ReturnDeletedAt, DeleteAgainAt, DeleteAddedAt, AddAgainAt, CarryBothAt, InvertBothAt, SettleAt
<1>14. QED
  BY <1>12, <1>13

(***************************************************************************)
(* When all have ended nothing remains, and nothing is to do.              *)
(***************************************************************************)
LEMMA NothingLeft ==
  ASSUME AllEnded
  PROVE  todo = {} /\ Remaining = {}
BY DEF AllEnded, todo, Remaining

\* What the first reading of the three leaves behind is nothing to stop at.
LEMMA BeginLeaves ==
  ASSUME IInv, BeginAppend, IInv', NEW u \in Triples, u \notin todo'
  PROVE  ~InPatch(u)' /\ ~InDeletions(u) /\ ~InAdditions(u)
<1>1. /\ patchAt' = First(PatchKeys') /\ deletionAt' = First(DeletionKeys)
      /\ additionAt' = First(AdditionKeys)
      /\ PatchKeys' \subseteq Triples
      /\ DeletionKeys \subseteq Triples /\ AdditionKeys \subseteq Triples
  BY DEF BeginAppend, IInv, TypeOK, PatchKeys, DeletionKeys, AdditionKeys
<1>2. \A at \in {patchAt', deletionAt', additionAt'} : ~(at # End /\ at <= u)
  BY DEF todo
<1>3. /\ \A v \in PatchKeys' : patchAt' # End /\ patchAt' <= v
      /\ \A v \in DeletionKeys : deletionAt' # End /\ deletionAt' <= v
      /\ \A v \in AdditionKeys : additionAt' # End /\ additionAt' <= v
  BY <1>1, FirstFacts
<1>4. u \notin PatchKeys' /\ u \notin DeletionKeys /\ u \notin AdditionKeys
  BY <1>2, <1>3
<1>5. QED
  BY <1>4 DEF InPatch, PatchKeys, DeletionKeys, AdditionKeys

-----------------------------------------------------------------------------
(* The counters *)

(***************************************************************************)
(* Bags of counts stay bags.                                               *)
(***************************************************************************)
LEMMA BagFacts ==
  /\ \A S : IsABag(SetToBag(S))
  /\ IsABag(EmptyBag)
  /\ \A a, b : IsABag(a) /\ IsABag(b) => IsABag(a (+) b)
<1>1. \A S : IsABag(SetToBag(S))
  BY DEF IsABag, SetToBag
<1>2. ASSUME NEW a, NEW b, IsABag(a), IsABag(b)
      PROVE  IsABag(a (+) b)
  <2>1. PICK c : c = a (+) b
    OBVIOUS
  <2>2. c = [e \in (DOMAIN a) \cup (DOMAIN b) |->
               (IF e \in DOMAIN a THEN a[e] ELSE 0) + (IF e \in DOMAIN b THEN b[e] ELSE 0)]
    BY <2>1 DEF (+)
  <2>3. /\ \A e \in DOMAIN a : a[e] \in Nat /\ a[e] > 0
        /\ \A e \in DOMAIN b : b[e] \in Nat /\ b[e] > 0
    BY <1>2 DEF IsABag
  <2>4. \A e \in DOMAIN c : c[e] \in Nat /\ c[e] > 0
    BY <2>2, <2>3
  <2>5. IsABag(c)
    BY <2>2, <2>4 DEF IsABag
  <2>6. QED
    BY <2>1, <2>5
<1>3. QED
  BY <1>1, <1>2 DEF EmptyBag

\* The contributions of one triple to the counts are bags.
LEMMA CountedFacts ==
  /\ \A id, t : IsABag(Counted(id, t))
  /\ \A c, id, t : IsABag(CountedIf(c, id, t))
BY BagFacts DEF Counted, CountedIf

(***************************************************************************)
(* Ranks are positions.                                                    *)
(***************************************************************************)
LEMMA PositionsType ==
  ASSUME IInv
  PROVE  /\ NoPositions \in [Kinds -> Nat \cup {-1}]
         /\ \A t : PositionsNow(t) \in [Kinds -> Nat \cup {-1}]
         /\ \A local, t : PositionsUnless(local, t) \in [Kinds -> Nat \cup {-1}]
<1>1. \A k, pattern : Rank(k, pattern) \in Nat
  BY DEF IInv, TypeOK, IsABag, Rank
<1>2. NoPositions \in [Kinds -> Nat \cup {-1}]
  BY DEF NoPositions
<1>3. \A t : PositionsNow(t) \in [Kinds -> Nat \cup {-1}]
  BY <1>1 DEF PositionsNow
<1>4. QED
  BY <1>2, <1>3 DEF PositionsUnless

\* The counters after a merge step.
Bookkept == IsABag(tempCounts') /\ IsABag(positionCount') /\ addMax' \in Nat

\* Whatever a branch counts, the counters stay bags.
LEMMA CountingFacts ==
  ASSUME IInv
  PROVE  /\ IsABag(tempCounts) /\ IsABag(positionCount) /\ addMax \in Nat
         /\ \A id \in Nat : Bumped(addMax, id) \in Nat
         /\ \A t : CountPosition(t) => IsABag(positionCount')
         /\ \A c, t : CountPositionUnless(c, t) => IsABag(positionCount')
         /\ \A t, v, outer, c : CountAddition(t, v, outer, c) => IsABag(tempCounts')
<1>1. IsABag(tempCounts) /\ IsABag(positionCount) /\ addMax \in Nat
  BY DEF IInv, TypeOK
<1>2. \A id \in Nat : Bumped(addMax, id) \in Nat
  BY <1>1 DEF Bumped
<1>3. \A t : CountPosition(t) => IsABag(positionCount')
  BY <1>1, BagFacts DEF CountPosition
<1>4. \A c, t : CountPositionUnless(c, t) => IsABag(positionCount')
  BY <1>1, <1>3 DEF CountPositionUnless
<1>5. \A t, v, outer, c : CountAddition(t, v, outer, c) => IsABag(tempCounts')
  BY <1>1, BagFacts, CountedFacts, Zenon DEF CountAddition
<1>6. QED
  BY <1>1, <1>2, <1>3, <1>4, <1>5

-----------------------------------------------------------------------------
(* The branches of the merge *)

\* What every branch of the merge does with the trees and the counters.
Branch(t) == AdditionsMerged /\ DeletionsMerged /\ Bookkept /\ Pass(t)

\* D < P, D < A.
LEMMA CarryDeletionBranch ==
  ASSUME IInv, NEW t \in Triples, CarryDeletionAt(t) PROVE Branch(t)
<1> DEFINE local == IsLocalDeletion(deletions[t], patchId, Outer)
           w == AddElement(deletions[t], patchId, FALSE, PositionsUnless(local, t))
<1>1. UNCHANGED <<additions, tempCounts, addMax>> /\ Pass(t)
  BY DEF CarryDeletionAt, CarryDeletion, Takes
<1>2. IsABag(positionCount')
  BY CountingFacts DEF CarryDeletionAt, CarryDeletion, Takes
<1>3. WriteDeletion(t, w, Outer) \/ UNCHANGED <<deletions, reduced>>
  BY DEF CarryDeletionAt, CarryDeletion, Takes
<1>4. DeletionAt(w, patchId) /\ Keeps(deletions[t], w, patchId)
  BY Ids, PositionsType, DeletionValueSteps
<1> HIDE DEF w
<1>5. DeletionsMerged
  BY <1>3, <1>4, Ids, DeletionsWritten, DeletionsUnchanged
<1>6. QED
  BY <1>1, <1>2, <1>5, AdditionsUnchanged, CountingFacts DEF Branch, Bookkept

\* A < P, A < D.
LEMMA CarryAdditionBranch ==
  ASSUME IInv, NEW t \in Triples, CarryAdditionAt(t) PROVE Branch(t)
<1> DEFINE v == additions[t]
           add == FirstPatchId(v, addMax) <= patchId /\ ~IsPatchId(v, patchId, addMax)
           new == IF add THEN AddPatch(v, patchId) ELSE v
<1>1. UNCHANGED <<deletions, reduced, positionCount>> /\ Pass(t)
  BY DEF CarryAdditionAt, CarryAddition, Takes
<1>2. WriteAddition(t, new) /\ CountAddition(t, new, addMax', TRUE)
      /\ addMax' = IF add THEN Bumped(addMax, patchId) ELSE addMax
  BY DEF CarryAdditionAt, CarryAddition, Takes
<1>3. PlainAt(v, patchId) /\ Keeps(v, v, patchId)
  BY Ids DEF Keeps
<1>4. PlainAt(new, patchId) /\ Keeps(v, new, patchId)
  BY <1>3, Ids, AdditionValueSteps
<1> HIDE DEF add, new
<1>5. AdditionsMerged
  BY <1>2, <1>4, AdditionsWritten
<1>6. Bookkept
  BY <1>1, <1>2, Ids, CountingFacts DEF Bookkept
<1>7. QED
  BY <1>1, <1>5, <1>6, DeletionsUnchanged DEF Branch

\* P < A, P < D, an addition.
LEMMA InsertAdditionBranch ==
  ASSUME IInv, NEW t \in Triples, InsertAdditionAt(t) PROVE Branch(t)
<1>1. /\ WriteAddition(t, FreshAddition(FALSE)) /\ ~InAdditions(t) /\ Pass(t)
      /\ UNCHANGED <<deletions, reduced, addMax, positionCount>>
      /\ tempCounts' = tempCounts (+) Counted(patchId, t) (+) Counted(0, t)
  BY DEF InsertAdditionAt, InsertAddition, Takes
<1>2. AdditionsMerged
  BY <1>1, Ids, FreshValues, PositionsType, AdditionsWritten DEF InAdditions
<1>3. Bookkept
  BY <1>1, BagFacts, CountedFacts, CountingFacts, Zenon DEF Bookkept
<1>4. QED
  BY <1>1, <1>2, <1>3, DeletionsUnchanged DEF Branch

\* A fresh deletion value at a key that is in no deletion tree.
LEMMA FreshDeletionWritten ==
  ASSUME IInv, NEW t \in Triples, ~InDeletions(t),
         NEW local, NEW new \in [Kinds -> Nat \cup {-1}],
         WriteDeletion(t, FreshDeletion(local, new), patchId + 1)
  PROVE  DeletionsMerged
<1> DEFINE w == FreshDeletion(local, new)
<1>1. patchId \in Nat /\ patchId < MaxValue /\ patchId + 1 \in Nat
  BY Ids
<1>2. DeletionAt(w, patchId) /\ Keeps(deletions[t], w, patchId)
  BY <1>1, FreshValues DEF InDeletions
<1> HIDE DEF w
<1>3. QED
  BY <1>1, <1>2, DeletionsWritten DEF w

\* P < A, P < D, a deletion.
LEMMA InsertDeletionBranch ==
  ASSUME IInv, NEW t \in Triples, InsertDeletionAt(t) PROVE Branch(t)
<1>1. /\ WriteDeletion(t, FreshDeletion(FALSE, PositionsNow(t)), patchId + 1)
      /\ ~InDeletions(t) /\ Pass(t) /\ CountPosition(t)
      /\ UNCHANGED <<additions, tempCounts, addMax>>
  BY DEF InsertDeletionAt, InsertDeletion, Takes
<1>2. DeletionsMerged
  BY <1>1, PositionsType, FreshDeletionWritten
<1>3. Bookkept
  BY <1>1, CountingFacts DEF Bookkept
<1>4. QED
  BY <1>1, <1>2, <1>3, AdditionsUnchanged DEF Branch

\* P = D, P < A, an addition.
LEMMA ReturnDeletedBranch ==
  ASSUME IInv, NEW t \in Triples, ReturnDeletedAt(t) PROVE Branch(t)
<1>1. /\ WriteDeletion(t, DelElement(deletions[t], patchId), Outer)
      /\ WriteAddition(t, FreshAddition(TRUE)) /\ ~InAdditions(t) /\ Pass(t)
      /\ UNCHANGED <<tempCounts, addMax, positionCount>>
  BY DEF ReturnDeletedAt, ReturnDeleted, Takes
<1>2. AdditionsMerged
  BY <1>1, Ids, FreshValues, PositionsType, AdditionsWritten DEF InAdditions
<1>3. DeletionsMerged
  BY <1>1, Ids, PositionsType, DeletionValueSteps, DeletionsWritten
<1>4. QED
  BY <1>1, <1>2, <1>3, CountingFacts DEF Branch, Bookkept

\* P = D, P < A, a deletion.
LEMMA DeleteAgainBranch ==
  ASSUME IInv, NEW t \in Triples, DeleteAgainAt(t) PROVE Branch(t)
<1> DEFINE local == IsLocalDeletion(deletions[t], patchId, Outer)
<1>1. /\ WriteDeletion(t, AddElement(deletions[t], patchId, local, PositionsUnless(local, t)), Outer)
      /\ CountPositionUnless(local, t) /\ Pass(t)
      /\ UNCHANGED <<additions, tempCounts, addMax>>
  BY DEF DeleteAgainAt, DeleteAgain, Takes
<1> HIDE DEF local
<1>2. DeletionsMerged
  BY <1>1, Ids, PositionsType, DeletionValueSteps, DeletionsWritten
<1>3. QED
  BY <1>1, <1>2, AdditionsUnchanged, CountingFacts DEF Branch, Bookkept

\* P = A, P < D, a deletion.
LEMMA DeleteAddedBranch ==
  ASSUME IInv, NEW t \in Triples, DeleteAddedAt(t) PROVE Branch(t)
<1> DEFINE v == DelPatch(additions[t], patchId)
           new == UnsetLocalChange(v, patchId)
<1>1. /\ WriteAddition(t, new) /\ ~InDeletions(t) /\ Pass(t)
      /\ WriteDeletion(t, FreshDeletion(TRUE, NoPositions), patchId + 1)
      /\ addMax' = Bumped(addMax, patchId)
      /\ CountAddition(t, new, addMax', FALSE)
      /\ UNCHANGED positionCount
  BY DEF DeleteAddedAt, DeleteAdded, Takes
<1>2. PlainAt(v, patchId) /\ Keeps(additions[t], v, patchId)
  BY Ids, AdditionValueSteps
<1> HIDE DEF v
<1>3. PlainAt(new, patchId) /\ Keeps(v, new, patchId)
  BY <1>2, Ids, AdditionValueSteps
<1> HIDE DEF new
<1>4. Keeps(additions[t], new, patchId)
  BY <1>2, <1>3 DEF Keeps
<1>5. AdditionsMerged
  BY <1>1, <1>3, <1>4, AdditionsWritten
<1>6. DeletionsMerged
  BY <1>1, PositionsType, FreshDeletionWritten
<1>7. QED
  BY <1>1, <1>5, <1>6, Ids, CountingFacts DEF Branch, Bookkept

\* P = A, P < D, an addition.
LEMMA AddAgainBranch ==
  ASSUME IInv, NEW t \in Triples, AddAgainAt(t) PROVE Branch(t)
<1> DEFINE new == AddPatch(additions[t], patchId)
<1>1. /\ WriteAddition(t, new) /\ Pass(t)
      /\ addMax' = Bumped(addMax, patchId)
      /\ CountAddition(t, new, addMax', TRUE)
      /\ UNCHANGED <<deletions, reduced, positionCount>>
  BY DEF AddAgainAt, AddAgain, Takes
<1>2. PlainAt(new, patchId) /\ Keeps(additions[t], new, patchId)
  BY Ids, AdditionValueSteps
<1> HIDE DEF new
<1>3. AdditionsMerged
  BY <1>1, <1>2, AdditionsWritten
<1>4. QED
  BY <1>1, <1>3, Ids, DeletionsUnchanged, CountingFacts DEF Branch, Bookkept

(***************************************************************************)
(* The branch of a triple that is in both trees, carried on or inverted.   *)
(***************************************************************************)
LEMMA SettleAsAdditionTrees ==
  ASSUME IInv, NEW t \in Triples, NEW local, SettleAsAddition(t, local)
  PROVE  AdditionsMerged /\ DeletionsMerged /\ IsABag(positionCount')
<1> DEFINE v == AddPatch(additions[t], patchId)
           w == SetLocalChange(v, patchId)
<1>1. /\ WriteAddition(t, v) \/ WriteAddition(t, w)
      /\ WriteDeletion(t, DelElement(deletions[t], patchId), Outer)
      /\ UNCHANGED positionCount
  BY DEF SettleAsAddition
<1>2. PlainAt(v, patchId) /\ Keeps(additions[t], v, patchId)
  BY Ids, AdditionValueSteps
<1> HIDE DEF v
<1>3. PlainAt(w, patchId) /\ Keeps(v, w, patchId)
  BY <1>2, Ids, AdditionValueSteps
<1> HIDE DEF w
<1>4. Keeps(additions[t], w, patchId)
  BY <1>2, <1>3 DEF Keeps
<1>5. AdditionsMerged
  BY <1>1, <1>2, <1>3, <1>4, AdditionsWritten
<1>6. DeletionsMerged
  BY <1>1, Ids, PositionsType, DeletionValueSteps, DeletionsWritten
<1>7. QED
  BY <1>1, <1>5, <1>6, CountingFacts

\* The same when the triple ends up deleted.
LEMMA SettleAsDeletionTrees ==
  ASSUME IInv, NEW t \in Triples, NEW local, NEW q, SettleAsDeletion(t, local, q)
  PROVE  AdditionsMerged /\ DeletionsMerged /\ IsABag(positionCount')
<1> DEFINE v == DelPatch(additions[t], patchId)
           w == UnsetLocalChange(v, patchId)
<1>1. /\ WriteAddition(t, v) \/ WriteAddition(t, w)
      /\ WriteDeletion(t, AddElement(deletions[t], patchId, local, PositionsUnless(local, q)), Outer)
      /\ CountPositionUnless(local, q)
  BY DEF SettleAsDeletion
<1>2. PlainAt(v, patchId) /\ Keeps(additions[t], v, patchId)
  BY Ids, AdditionValueSteps
<1> HIDE DEF v
<1>3. PlainAt(w, patchId) /\ Keeps(v, w, patchId)
  BY <1>2, Ids, AdditionValueSteps
<1> HIDE DEF w
<1>4. Keeps(additions[t], w, patchId)
  BY <1>2, <1>3 DEF Keeps
<1>5. AdditionsMerged
  BY <1>1, <1>2, <1>3, <1>4, AdditionsWritten
<1>6. DeletionsMerged
  BY <1>1, Ids, PositionsType, DeletionValueSteps, DeletionsWritten
<1>7. QED
  BY <1>1, <1>5, <1>6, CountingFacts

\* D = A, with P or without.
LEMMA SettleBranch ==
  ASSUME IInv, NEW t \in Triples, NEW invert, NEW q, SettleAt(t, invert, q) PROVE Branch(t)
<1> DEFINE local       == WasLocal(t) # invert
           addAddition == (LastAddition(t) > LastDeletion(t)) # invert
           addDeletion == (LastDeletion(t) > LastAddition(t)) # invert
           any == CountedIf(~IsLocalAddition(additions[t],
                                             FirstPatchId(additions[t], patchId + 1)), 0, t)
           this == CountedIf(addAddition /\ ~local, patchId, t)
<1>1. /\ addMax' = patchId + 1 /\ Pass(t)
      /\ tempCounts' = tempCounts (+) any (+) this
      /\ CASE addAddition -> SettleAsAddition(t, local)
           [] ~addAddition /\ addDeletion -> SettleAsDeletion(t, local, q)
           [] OTHER -> UNCHANGED <<trees, positionCount>>
  BY DEF SettleAt, Settle, Takes
<1>2. IsABag(any) /\ IsABag(this)
  BY CountedFacts
<1> HIDE DEF any, this, local, addAddition, addDeletion
<1>3. IsABag(tempCounts')
  <2>1. IsABag(tempCounts (+) any)
    BY <1>2, BagFacts, CountingFacts, Zenon
  <2>2. QED
    BY <1>1, <1>2, <2>1, BagFacts, Zenon
<1>4. addMax' \in Nat
  BY <1>1, Ids
<1>5. CASE addAddition
  BY <1>1, <1>3, <1>4, <1>5, SettleAsAdditionTrees DEF Branch, Bookkept
<1>6. CASE ~addAddition /\ addDeletion
  BY <1>1, <1>3, <1>4, <1>6, SettleAsDeletionTrees DEF Branch, Bookkept
<1>7. CASE ~addAddition /\ ~addDeletion
  BY <1>1, <1>3, <1>4, <1>7, AdditionsUnchanged, DeletionsUnchanged, CountingFacts
  DEF Branch, Bookkept, trees
<1>8. QED
  BY <1>5, <1>6, <1>7

(***************************************************************************)
(* Every branch.                                                           *)
(***************************************************************************)
LEMMA EveryBranch ==
  ASSUME IInv, MergeStep
  PROVE  \E t \in Triples : Branch(t)
<1>1. PICK t \in todo : Merges(t)
  BY StepsMerge
<1>2. /\ t \in Triples
      /\ \/ CarryDeletionAt(t) \/ CarryAdditionAt(t) \/ InsertAdditionAt(t) \/ InsertDeletionAt(t)
         \/ ReturnDeletedAt(t) \/ DeleteAgainAt(t) \/ DeleteAddedAt(t) \/ AddAgainAt(t)
         \/ CarryBothAt(t) \/ InvertBothAt(t)
  BY <1>1 DEF Merges, todo
<1>3. t \in Triples
  BY <1>2
<1>4. CASE CarryBothAt(t) \/ InvertBothAt(t)
  BY <1>3, <1>4, SettleBranch DEF CarryBothAt, SettleAt, InvertBothAt, Takes
<1>5. QED
  BY <1>2, <1>3, <1>4, CarryDeletionBranch, CarryAdditionBranch, InsertAdditionBranch,
     InsertDeletionBranch, ReturnDeletedBranch, DeleteAgainBranch, DeleteAddedBranch,
     AddAgainBranch

-----------------------------------------------------------------------------
(* The inductive invariant *)

\* The invariant holds of a new tree.
LEMMA InitIInv == Init => IInv
<1> SUFFICES ASSUME Init PROVE IInv
  OBVIOUS
<1>1. MinPatchId \in Nat /\ MinPatchId \in MinPatchId .. LastAppended
      /\ MinPatchId \in MinPatchId .. LastAppended + 1
  BY ParametersAssumption
<1>2. /\ PlainAt(NoAddition, MinPatchId) /\ PlainAt(NoReduced, MinPatchId)
      /\ DeletionAt(NoDeletion, MinPatchId)
  BY <1>1, NoValues
<1>3. \A t \in Triples : /\ IsPlainValue(additions[t]) /\ IsPlainValue(reduced[t])
                         /\ IsDeletionValue(deletions[t])
                         /\ SettledValue(additions[t], patchId)
                         /\ SettledValue(deletions[t], patchId)
  BY <1>2 DEF Init, PlainAt, DeletionAt
<1>4. /\ additions = [t \in Triples |-> additions[t]]
      /\ deletions = [t \in Triples |-> deletions[t]]
      /\ reduced = [t \in Triples |-> reduced[t]]
  BY DEF Init
<1>5. /\ IsABag(tempCounts) /\ IsABag(positionCount)
      /\ \A key \in DOMAIN counts : counts[key] \in Nat
  BY BagFacts DEF Init, EmptyBag, SetToBag
<1>6. /\ snapshot \subseteq Triples /\ patchAdds \cap patchDels = {}
      /\ patchAdds \subseteq Triples /\ patchDels \subseteq Triples
      /\ {patchAt, deletionAt, additionAt} \subseteq Triples \cup {End}
      /\ maxPatchId \in MinPatchId .. LastAppended
      /\ patchId \in MinPatchId .. LastAppended + 1
      /\ appending \in BOOLEAN /\ addMax \in Nat
  <2>1. /\ snapshot \in SUBSET Triples /\ maxPatchId = MinPatchId /\ patchId = MinPatchId
        /\ patchAdds = {} /\ patchDels = {}
        /\ patchAt = End /\ deletionAt = End /\ additionAt = End
        /\ appending = FALSE /\ addMax = MinPatchId + 1
    BY DEF Init
  <2>2. maxPatchId \in MinPatchId .. LastAppended /\ patchId \in MinPatchId .. LastAppended + 1
    BY <1>1, <2>1, Zenon
  <2>3. addMax \in Nat
    BY <1>1, <2>1
  <2>4. QED
    BY <2>1, <2>2, <2>3, Zenon
<1>7. TypeOK
  BY <1>3, <1>4, <1>5, <1>6 DEF TypeOK
<1>8. CursorsInOrder
  BY NothingLeft DEF Init, AllEnded, CursorsInOrder
<1>9. QED
  BY <1>1, <1>3, <1>7, <1>8 DEF IInv, Init

\* Taking up a patch touches no tree.
LEMMA BeginAppendIInv == ASSUME IInv, BeginAppend PROVE IInv'
<1>1. /\ appending' = TRUE /\ patchId <= LastAppended
      /\ patchAt' = First(PatchKeys') /\ deletionAt' = First(DeletionKeys)
      /\ additionAt' = First(AdditionKeys)
      /\ addMax' = maxPatchId + 1 /\ positionCount' = EmptyBag
      /\ UNCHANGED <<snapshot, trees, maxPatchId, counts, tempCounts, patchId>>
      /\ patchAdds' \subseteq Triples /\ patchDels' \subseteq Triples
      /\ patchAdds' \cap patchDels' = {}
  BY DEF BeginAppend
<1>2. UNCHANGED <<additions, deletions, reduced>>
  BY <1>1 DEF trees
<1>3. addMax' \in Nat
  BY <1>1, Ids
<1>4. /\ PatchKeys' \subseteq Triples /\ DeletionKeys \subseteq Triples /\ AdditionKeys \subseteq Triples
      /\ DeletionKeys' = DeletionKeys /\ AdditionKeys' = AdditionKeys
  BY <1>1, <1>2 DEF PatchKeys, DeletionKeys, AdditionKeys, InDeletions, InAdditions
<1>5. {patchAt', deletionAt', additionAt'} \subseteq Triples \cup {End}
  BY <1>1, <1>4, FirstFacts
<1>6. TypeOK'
  BY <1>1, <1>2, <1>3, <1>5, BagFacts DEF IInv, TypeOK
<1>7. CursorsInOrder'
  <2>1. /\ patchAt' # End => patchAt' \in PatchKeys'
        /\ deletionAt' # End => deletionAt' \in DeletionKeys'
        /\ additionAt' # End => additionAt' \in AdditionKeys'
        /\ \A u \in PatchKeys' : patchAt' # End /\ patchAt' <= u
        /\ \A u \in DeletionKeys' : deletionAt' # End /\ deletionAt' <= u
        /\ \A u \in AdditionKeys' : additionAt' # End /\ additionAt' <= u
    BY <1>1, <1>4, FirstFacts
  <2>2. QED
    BY <2>1 DEF CursorsInOrder, InPatch, PatchKeys, DeletionKeys, AdditionKeys, todo
<1>8. QED
  BY <1>1, <1>2, <1>6, <1>7 DEF IInv

\* A branch of the merge keeps the invariant.
LEMMA BranchIInv == ASSUME IInv, appending, NEW t \in Triples, Branch(t) PROVE IInv'
<1>1. /\ CursorsInOrder' /\ {patchAt', deletionAt', additionAt'} \subseteq Triples \cup {End}
      /\ UNCHANGED <<snapshot, maxPatchId, counts, appending, patchId, patchAdds, patchDels>>
  BY DEF Branch, Pass
<1>2. \A u \in Triples : /\ IsPlainValue(additions'[u]) /\ IsPlainValue(reduced'[u])
                         /\ IsDeletionValue(deletions'[u])
                         /\ SettledValue(additions'[u], patchId')
                         /\ SettledValue(deletions'[u], patchId')
  BY <1>1 DEF Branch, AdditionsMerged, DeletionsMerged, PlainAt, DeletionAt
<1>3. TypeOK'
  BY <1>1, <1>2 DEF IInv, TypeOK, Branch, Bookkept, AdditionsMerged, DeletionsMerged
<1>4. QED
  BY <1>1, <1>2, <1>3 DEF IInv

(***************************************************************************)
(* What flush_addition_counts leaves are numbers.                          *)
(***************************************************************************)
LEMMA FlushedType ==
  ASSUME IInv, NEW first
  PROVE  \A key \in DOMAIN Flushed(first) : Flushed(first)[key] \in Nat
<1>1. /\ \A key \in DOMAIN tempCounts : tempCounts[key] \in Nat
      /\ \A key \in DOMAIN counts : counts[key] \in Nat
  BY DEF IInv, TypeOK, IsABag
<1>2. QED
  BY <1>1 DEF Flushed

\* Moving on to the next id: the lists are settled there as well.
LEMMA FinishAppendIInv == ASSUME IInv, FinishAppend PROVE IInv'
<1>1. /\ appending /\ maxPatchId' = LargerPatchId /\ patchId' = patchId + 1
      /\ appending' = FALSE /\ patchAdds' = {} /\ patchDels' = {}
      /\ AllEnded /\ UNCHANGED <<patchAt, deletionAt, additionAt>>
      /\ tempCounts' = EmptyBag /\ positionCount' = EmptyBag /\ addMax' = maxPatchId' + 1
      /\ UNCHANGED <<snapshot, additions, deletions, reduced>>
  BY DEF FinishAppend, trees, cursors
<1>2. patchId \in MinPatchId .. LastAppended /\ MinPatchId \in Nat /\ LastAppended \in Nat
  BY <1>1, ParametersAssumption DEF IInv, TypeOK
<1>3. maxPatchId' = patchId
  BY <1>1, <1>2 DEF LargerPatchId, IInv, TypeOK
<1>4. \A key \in DOMAIN counts' : counts'[key] \in Nat
  <2>1. CASE UNCHANGED counts
    BY <2>1 DEF IInv, TypeOK
  <2>2. CASE \E first \in DOMAIN tempCounts : counts' = Flushed(first)
    BY <2>2, FlushedType
  <2>3. QED
    BY <2>1, <2>2 DEF FinishAppend
<1>5. /\ patchId' \in MinPatchId .. LastAppended + 1 /\ maxPatchId' \in MinPatchId .. LastAppended
      /\ addMax' \in Nat /\ maxPatchId' = patchId' - 1 /\ patchId' # MinPatchId
  BY <1>1, <1>2, <1>3
<1>6. \A l : Settled(l, patchId) => Settled(l, patchId')
  BY <1>1, <1>2 DEF Settled, IsList
<1>7. TypeOK'
  BY <1>1, <1>4, <1>5, BagFacts DEF IInv, TypeOK
<1>8. CursorsInOrder'
  BY <1>1 DEF AllEnded, CursorsInOrder, todo
<1>9. QED
  BY <1>1, <1>5, <1>6, <1>7, <1>8 DEF IInv, SettledValue

\* Every step keeps the invariant.
LEMMA NextIInv == IInv /\ [Next]_vars => IInv'
<1> SUFFICES ASSUME IInv, [Next]_vars PROVE IInv'
  OBVIOUS
<1>1. CASE BeginAppend
  BY <1>1, BeginAppendIInv
<1>2. CASE appending /\ MergeStep
  BY <1>2, EveryBranch, BranchIInv
<1>3. CASE FinishAppend
  BY <1>3, FinishAppendIInv
<1>4. CASE UNCHANGED vars
  BY <1>4 DEF vars, trees, merge, cursors, IInv, TypeOK, CursorsInOrder, todo, InPatch,
     InDeletions, InAdditions
<1>5. QED
  BY <1>1, <1>2, <1>3, <1>4 DEF Next, Quiet

\* The lists of append_unsafe stay settled at the id it works on, in every reachable state.
THEOREM Inductive == Spec => []IInv
<1>1. Init => IInv
  BY InitIInv
<1>2. IInv /\ [Next]_vars => IInv'
  BY NextIInv
<1>3. QED
  BY <1>1, <1>2, PTL DEF Spec

(***************************************************************************)
(* Type correctness of the patch tree: also the lists that addition and    *)
(* deletion rebuild, the reduced values, the positions and the counts.     *)
(***************************************************************************)
THEOREM TypeCorrect == Spec => []TypeOK
<1>1. IInv => TypeOK
  BY DEF IInv
<1>2. QED
  BY <1>1, Inductive, PTL

\* An iteration passes at least one triple.
Advances == appending /\ MergeStep => todo' \subseteq todo /\ todo' # todo

(***************************************************************************)
(* The variant of append_unsafe's loop: whatever delta is merged, and      *)
(* although the cursors run over the records that the loop writes, the     *)
(* triples that are still to come are fewer after every iteration, so      *)
(* their finite number bounds the iterations of an append.                 *)
(***************************************************************************)
THEOREM LoopAdvances == Spec => [][Advances]_vars
<1>1. IInv /\ [Next]_vars => [Advances]_vars
  <2> SUFFICES ASSUME IInv, MergeStep PROVE todo' \subseteq todo /\ todo' # todo
    BY DEF Advances
  <2>1. PICK t \in todo : Merges(t)
    BY StepsMerge
  <2>2. Pass(t) /\ t \in Nat
    <3>1. t \in Triples /\ t \in Nat
      BY TriplesAssumption DEF todo
    <3>2. QED
      BY <2>1, <3>1 DEF Merges, CarryDeletionAt, CarryAdditionAt, InsertAdditionAt,
         InsertDeletionAt, ReturnDeletedAt, DeleteAgainAt, DeleteAddedAt, AddAgainAt,
         CarryBothAt, InvertBothAt, SettleAt, Takes
  <2>3. QED
    BY <2>2 DEF Pass
<1>2. QED
  BY <1>1, Inductive, PTL DEF Spec

(***************************************************************************)
(* No call of the merge ever takes interval_list.h in front of begin():    *)
(* every list of the trees is empty or starts at or before the id that is  *)
(* merged, for every delta.                                                *)
(***************************************************************************)
THEOREM NoCallInFront == Spec => []ListCallsDefined
<1>1. ASSUME NEW p, NEW l, Settled(l, p) PROVE Reaches(l, p)
  BY <1>1 DEF Settled, Reaches, UpTo
<1>2. IInv => ListCallsDefined
  BY <1>1 DEF IInv, SettledValue, ListCallsDefined
<1>3. QED
  BY <1>2, Inductive, PTL

-----------------------------------------------------------------------------
(* Published versions *)

(***************************************************************************)
(* What the readers' conditions say of a value.                            *)
(***************************************************************************)
LEMMA AdditionSeen ==
  ASSUME NEW p \in Nat, NEW v, Settled(v.patches, p), NEW outer \in Nat, NEW id \in Nat, id < outer
  PROVE  /\ IsPatchId(v, id, outer) <=> Holds(v.patches, id)
         /\ IsPatchId(v, id, outer) /\ ~IsLocalAddition(v, id) <=> Shows(v, id)
BY IsInIsHolds DEF IsPatchId, IsLocalAddition, Shows

\* The same for a deletion value, whose local flag is that of the id itself.
LEMMA DeletionSeen ==
  ASSUME NEW v, IsList(v.patches), NEW outer \in Nat, NEW id \in Nat, id < outer, id < MaxValue
  PROVE  Spans(v.patches, id, outer) /\ ~IsLocalDeletion(v, id, outer) <=> Shows(v, id)
<1>1. Spans(v.patches, id, outer) <=> Holds(v.patches, id)
  BY SpansIsHolds
<1>2. Spans(v.patches, id, outer) => id \in Elements(v.patches, outer)
  BY MaxValueAssumption DEF Spans, Elements, EndOf, IsList
<1>3. Spans(v.patches, id, outer) => (IsLocalDeletion(v, id, outer) <=> IsIn(v.local, id))
  BY <1>2 DEF IsLocalDeletion
<1>4. QED
  BY <1>1, <1>3 DEF Shows

\* The ids of the published patches, before and after a step.
LEMMA PublishedIds ==
  ASSUME IInv, IInv', NEW id \in Published, patchId <= patchId'
  PROVE  /\ id \in Nat /\ id >= MinPatchId /\ id < patchId /\ id < MaxValue
         /\ Outer \in Nat /\ Outer' \in Nat /\ id < Outer /\ id < Outer'
<1>1. /\ patchId \in Nat /\ patchId' \in Nat /\ MinPatchId \in Nat /\ patchId < MaxValue
      /\ maxPatchId \in Nat /\ maxPatchId' \in Nat
      /\ maxPatchId = IF patchId = MinPatchId THEN MinPatchId ELSE patchId - 1
      /\ maxPatchId' = IF patchId' = MinPatchId THEN MinPatchId ELSE patchId' - 1
  BY ParametersAssumption, MaxValueAssumption DEF IInv, TypeOK
<1>2. id \in Nat /\ id >= MinPatchId /\ id < patchId /\ id < MaxValue
  BY <1>1, MaxValueAssumption DEF Published
<1>3. patchId # MinPatchId /\ patchId' # MinPatchId /\ id < patchId'
  BY <1>1, <1>2
<1>4. maxPatchId = patchId - 1 /\ maxPatchId' = patchId' - 1
  BY <1>1, <1>3, Zenon
<1>5. maxPatchId + 1 = patchId /\ maxPatchId' + 1 = patchId'
  <2>1. ASSUME NEW m \in Nat, NEW n \in Nat, m = n - 1 PROVE m + 1 = n
    BY <2>1
  <2>2. QED
    BY <1>1, <1>4, <2>1
<1>6. Outer = patchId /\ Outer' = patchId'
  BY <1>5 DEF Outer
<1>7. QED
  BY <1>1, <1>2, <1>3, <1>6

(***************************************************************************)
(* The changes of a published version are those of the values.             *)
(***************************************************************************)
LEMMA ChangesKept ==
  ASSUME IInv, IInv', NEW id \in Published, patchId <= patchId',
         \A t \in Triples : /\ Keeps(additions[t], additions'[t], patchId)
                            /\ Keeps(deletions[t], deletions'[t], patchId)
  PROVE  \A t \in Triples : /\ IsAddition(t, id)' <=> IsAddition(t, id)
                            /\ IsDeletion(t, id)' <=> IsDeletion(t, id)
<1>1. /\ id \in Nat /\ id >= MinPatchId /\ id < patchId /\ id < MaxValue
      /\ Outer \in Nat /\ Outer' \in Nat /\ id < Outer /\ id < Outer'
  BY PublishedIds
<1>2. patchId \in Nat /\ patchId' \in Nat
  BY ParametersAssumption DEF IInv, TypeOK
<1>3. \A t \in Triples :
        /\ IsList(deletions[t].patches) /\ IsList(deletions'[t].patches)
        /\ Settled(additions[t].patches, patchId) /\ Settled(additions'[t].patches, patchId')
  BY DEF IInv, TypeOK, IsDeletionValue, IsLists, SettledValue
<1>4. \A t \in Triples : IsAddition(t, id) <=> Shows(additions[t], id)
  BY <1>1, <1>2, <1>3, AdditionSeen DEF IsAddition
<1>5. \A t \in Triples : IsAddition(t, id)' <=> Shows(additions'[t], id)
  BY <1>1, <1>2, <1>3, AdditionSeen DEF IsAddition
<1>6. \A t \in Triples : IsDeletion(t, id) <=> Shows(deletions[t], id)
  BY <1>1, <1>3, DeletionSeen DEF IsDeletion
<1>7. \A t \in Triples : IsDeletion(t, id)' <=> Shows(deletions'[t], id)
  BY <1>1, <1>3, DeletionSeen DEF IsDeletion
<1>8. QED
  BY <1>1, <1>4, <1>5, <1>6, <1>7 DEF Keeps

\* A version is its changes.
LEMMA VersionKept ==
  ASSUME IInv, IInv', NEW id \in MinPatchId - 1 .. patchId - 1,
         snapshot' = snapshot, patchId <= patchId',
         \A t \in Triples : /\ Keeps(additions[t], additions'[t], patchId)
                            /\ Keeps(deletions[t], deletions'[t], patchId)
  PROVE  Version(id)' = Version(id)
<1>1. CASE id < MinPatchId
  BY <1>1 DEF Version
<1>2. CASE ~(id < MinPatchId)
  <2>1. id \in Published
    BY <1>2, ParametersAssumption DEF Published, IInv, TypeOK
  <2>2. \A t \in Triples : /\ IsAddition(t, id)' <=> IsAddition(t, id)
                           /\ IsDeletion(t, id)' <=> IsDeletion(t, id)
    BY <2>1, ChangesKept
  <2>3. snapshot \subseteq Triples
    BY DEF IInv, TypeOK
  <2>4. Materialized(id)' = Materialized(id)
    BY <2>2, <2>3 DEF Materialized
  <2>5. QED
    BY <1>2, <2>4 DEF Version
<1>3. QED
  BY <1>1, <1>2

(***************************************************************************)
(* What each step leaves of the published versions: everything.            *)
(***************************************************************************)
LEMMA ValuesKept ==
  ASSUME IInv, [Next]_vars
  PROVE  /\ snapshot' = snapshot /\ patchId <= patchId'
         /\ \A t \in Triples : /\ Keeps(additions[t], additions'[t], patchId)
                               /\ Keeps(deletions[t], deletions'[t], patchId)
<1>1. patchId \in Nat
  BY Ids
<1>2. CASE appending /\ MergeStep
  <2>1. PICK t \in Triples : Branch(t)
    BY <1>2, EveryBranch
  <2>2. QED
    BY <1>1, <2>1 DEF Branch, Pass, AdditionsMerged, DeletionsMerged
<1>3. CASE BeginAppend \/ FinishAppend \/ UNCHANGED vars
  <2>1. /\ snapshot' = snapshot /\ additions' = additions /\ deletions' = deletions
        /\ patchId' = patchId \/ patchId' = patchId + 1
    BY <1>3 DEF BeginAppend, FinishAppend, vars, trees, merge, cursors
  <2>2. \A u \in Triples : /\ Keeps(additions[u], additions'[u], patchId)
                           /\ Keeps(deletions[u], deletions'[u], patchId)
    BY <2>1 DEF Keeps
  <2>3. QED
    BY <1>1, <2>1, <2>2
<1>4. QED
  BY <1>2, <1>3 DEF Next, Quiet

\* So a published version is the same after a step.
LEMMA PublishedStep ==
  ASSUME IInv, IInv', [Next]_vars
  PROVE  \A id \in MinPatchId - 1 .. patchId - 1 : Version(id)' = Version(id)
BY ValuesKept, VersionKept

(***************************************************************************)
(* Readers take no lock (patch_tree.cc append_unsafe, the iterators of     *)
(* patch_tree.cc): no step of a merge, in whatever branch, and no later    *)
(* append, changes what a published version contains.  It holds for every  *)
(* delta, also one that adds what is there or deletes what is not.         *)
(***************************************************************************)
THEOREM PublishedVersionsStable == Spec => PublishedStable
<1> DEFINE Stable == \A id \in MinPatchId - 1 .. patchId - 1 : Version(id)' = Version(id)
<1>1. IInv /\ IInv' /\ [Next]_vars => [Stable]_vars
  BY PublishedStep
<1>2. QED
  BY <1>1, Inductive, PTL DEF Spec, PublishedStable

-----------------------------------------------------------------------------
(* Additions and deletions of a version *)

\* Triple t is not added and deleted for the same id.
Apart(t, id) == ~(Holds(additions[t].patches, id) /\ Holds(deletions[t].patches, id))

AllApart == \A t \in Triples : \A id \in Nat : id <= patchId => Apart(t, id)

\* A step that leaves all other triples alone, and t in at most one tree from patchId on.
Separates(t) ==
  /\ \A u \in Triples \ {t} : additions'[u] = additions[u] /\ deletions'[u] = deletions[u]
  /\ \/ ~Holds(additions'[t].patches, patchId)
     \/ ~Holds(deletions'[t].patches, patchId)
     \/ additions'[t] = additions[t] /\ deletions'[t] = deletions[t]

(***************************************************************************)
(* What a write leaves in the trees.                                       *)
(***************************************************************************)
LEMMA Written ==
  ASSUME IInv, NEW t \in Triples
  PROVE  /\ \A w : WriteAddition(t, w) =>
              additions'[t] = w /\ \A u \in Triples \ {t} : additions'[u] = additions[u]
         /\ \A w, outer : WriteDeletion(t, w, outer) =>
              deletions'[t] = w /\ \A u \in Triples \ {t} : deletions'[u] = deletions[u]
<1>1. /\ additions = [u \in Triples |-> additions[u]]
      /\ deletions = [u \in Triples |-> deletions[u]]
  BY DEF IInv, TypeOK
<1>2. QED
  BY <1>1 DEF WriteAddition, WriteDeletion

(***************************************************************************)
(* A triple that is in one tree only, before and after a write to it.      *)
(***************************************************************************)
LEMMA OneTree ==
  ASSUME IInv, NEW t \in Triples
  PROVE  /\ ~InAdditions(t) /\ additions' = additions => ~Holds(additions'[t].patches, patchId)
         /\ ~InDeletions(t) /\ deletions' = deletions => ~Holds(deletions'[t].patches, patchId)
BY Ids, EmptyListFacts DEF InAdditions, InDeletions

(***************************************************************************)
(* Deletion of the id from a value, whatever happens to its local changes. *)
(***************************************************************************)
LEMMA Deleted ==
  ASSUME IInv, NEW t \in Triples
  PROVE  /\ ~Holds(DelPatch(additions[t], patchId).patches, patchId)
         /\ ~Holds(UnsetLocalChange(DelPatch(additions[t], patchId), patchId).patches, patchId)
         /\ ~Holds(DelElement(deletions[t], patchId).patches, patchId)
<1>1. /\ Settled(additions[t].patches, patchId) /\ Settled(deletions[t].patches, patchId)
      /\ additions[t] = [patches |-> additions[t].patches, local |-> additions[t].local]
      /\ patchId \in Nat
  BY Ids DEF PlainAt, DeletionAt, SettledValue, IsPlainValue
<1>2. DelPatch(additions[t], patchId) = [patches |-> Deletion(additions[t].patches, patchId),
                                         local |-> additions[t].local]
  BY <1>1 DEF DelPatch
<1>3. UnsetLocalChange(DelPatch(additions[t], patchId), patchId).patches
        = Deletion(additions[t].patches, patchId)
  BY <1>2 DEF UnsetLocalChange
<1>4. QED
  BY <1>1, <1>2, <1>3, DeletedBehind DEF DelElement

(***************************************************************************)
(* The branches of a triple that is in at most one tree.                   *)
(***************************************************************************)
LEMMA OneTreeSeparates ==
  ASSUME IInv, NEW t \in Triples,
         \/ CarryDeletionAt(t) \/ CarryAdditionAt(t) \/ InsertAdditionAt(t) \/ InsertDeletionAt(t)
         \/ ReturnDeletedAt(t) \/ DeleteAgainAt(t) \/ DeleteAddedAt(t) \/ AddAgainAt(t)
  PROVE  Separates(t)
<1>1. CASE CarryDeletionAt(t)
  BY <1>1, Written, OneTree DEF CarryDeletionAt, CarryDeletion, Separates, Takes
<1>2. CASE CarryAdditionAt(t)
  BY <1>2, Written, OneTree DEF CarryAdditionAt, CarryAddition, Separates, Takes
<1>3. CASE InsertAdditionAt(t)
  BY <1>3, Written, OneTree DEF InsertAdditionAt, InsertAddition, Separates, Takes
<1>4. CASE InsertDeletionAt(t)
  BY <1>4, Written, OneTree DEF InsertDeletionAt, InsertDeletion, Separates, Takes
<1>5. CASE ReturnDeletedAt(t)
  BY <1>5, Written, Deleted DEF ReturnDeletedAt, ReturnDeleted, Separates, Takes
<1>6. CASE DeleteAgainAt(t)
  BY <1>6, Written, OneTree DEF DeleteAgainAt, DeleteAgain, Separates, Takes
<1>7. CASE DeleteAddedAt(t)
  BY <1>7, Written, Deleted DEF DeleteAddedAt, DeleteAdded, Separates, Takes
<1>8. CASE AddAgainAt(t)
  BY <1>8, Written, OneTree DEF AddAgainAt, AddAgain, Separates, Takes
<1>9. QED
  BY <1>1, <1>2, <1>3, <1>4, <1>5, <1>6, <1>7, <1>8

(***************************************************************************)
(* The branch of a triple that is in both trees deletes the id from one.   *)
(***************************************************************************)
LEMMA SettleSeparates ==
  ASSUME IInv, NEW t \in Triples, NEW invert, NEW q, SettleAt(t, invert, q)
  PROVE  Separates(t)
<1>1. \/ \E local : SettleAsAddition(t, local)
      \/ \E local : SettleAsDeletion(t, local, q)
      \/ UNCHANGED <<additions, deletions>>
  BY DEF SettleAt, Settle, trees, Takes
<1>2. ASSUME NEW local, SettleAsAddition(t, local) PROVE Separates(t)
  <2>1. deletions'[t] = DelElement(deletions[t], patchId)
    BY <1>2, Written DEF SettleAsAddition
  <2>2. QED
    BY <1>2, <2>1, Written, Deleted DEF SettleAsAddition, Separates
<1>3. ASSUME NEW local, SettleAsDeletion(t, local, q) PROVE Separates(t)
  <2>1. \/ additions'[t] = DelPatch(additions[t], patchId)
        \/ additions'[t] = UnsetLocalChange(DelPatch(additions[t], patchId), patchId)
    BY <1>3, Written DEF SettleAsDeletion
  <2>2. QED
    BY <1>3, <2>1, Written, Deleted DEF SettleAsDeletion, Separates
<1>4. QED
  BY <1>1, <1>2, <1>3 DEF Separates

\* A merge step separates its triple and leaves the ids before it alone.
LEMMA MergeApart == ASSUME IInv, AllApart, MergeStep PROVE AllApart'
<1>1. PICK v \in Triples : Branch(v)
  BY EveryBranch
<1>2. PICK t \in Triples : Separates(t)
  <2>1. PICK t \in todo : Merges(t)
    BY StepsMerge
  <2>2. t \in Triples
    BY DEF todo
  <2>3. QED
    BY <2>1, <2>2, OneTreeSeparates, SettleSeparates DEF Merges, CarryBothAt, InvertBothAt
<1>3. patchId' = patchId /\ patchId \in Nat
  BY <1>1, Ids DEF Branch, Pass
<1>4. ASSUME NEW u \in Triples, NEW id \in Nat, id < patchId PROVE Apart(u, id)'
  <2>1. Apart(u, id)
    BY <1>3, <1>4 DEF AllApart
  <2>2. /\ Holds(additions'[u].patches, id) <=> Holds(additions[u].patches, id)
        /\ Holds(deletions'[u].patches, id) <=> Holds(deletions[u].patches, id)
    BY <1>1, <1>4 DEF Branch, AdditionsMerged, DeletionsMerged, Keeps
  <2>3. QED
    BY <2>1, <2>2 DEF Apart
<1>5. ASSUME NEW u \in Triples PROVE Apart(u, patchId)'
  BY <1>2, <1>3 DEF Separates, AllApart, Apart
<1>6. QED
  BY <1>3, <1>4, <1>5 DEF AllApart, Apart

\* What holds of the id just merged holds of the next one, which extends open intervals.
LEMMA FinishApart == ASSUME IInv, AllApart, FinishAppend PROVE AllApart'
<1>1. additions' = additions /\ deletions' = deletions /\ patchId' = patchId + 1
  BY DEF FinishAppend, trees
<1>2. patchId \in Nat /\ patchId + 1 < MaxValue
  BY ParametersAssumption, MaxValueAssumption DEF IInv, TypeOK, FinishAppend
<1>3. \A t \in Triples : /\ Settled(additions[t].patches, patchId)
                         /\ Settled(deletions[t].patches, patchId)
  BY DEF IInv, SettledValue
<1>4. ASSUME NEW t \in Triples PROVE Apart(t, patchId + 1)
  <2>1. Apart(t, patchId)
    BY <1>2 DEF AllApart
  <2>2. QED
    BY <1>2, <1>3, <2>1, HoldsBehind DEF Apart
<1>5. QED
  BY <1>1, <1>2, <1>4 DEF AllApart, Apart

(***************************************************************************)
(* The merge never stores + and - of a triple for the same id              *)
(* (patch_tree.cc append_unsafe, the comment in the D = A branch), for     *)
(* every delta, also one that adds what is there or deletes what is not.   *)
(***************************************************************************)
THEOREM NeverBoth == Spec => []Exclusive
<1>1. Init => AllApart
  <2> SUFFICES ASSUME Init, NEW t \in Triples, NEW id \in Nat PROVE Apart(t, id)
    BY DEF AllApart
  <2>1. ~Holds(additions[t].patches, id)
    BY NoValues DEF Init
  <2>2. QED
    BY <2>1 DEF Apart
<1>2. IInv /\ AllApart /\ [Next]_vars => AllApart'
  <2> SUFFICES ASSUME IInv, AllApart, [Next]_vars PROVE AllApart'
    OBVIOUS
  <2>1. CASE appending /\ MergeStep
    BY <2>1, MergeApart
  <2>2. CASE FinishAppend
    BY <2>2, FinishApart
  <2>3. CASE BeginAppend \/ UNCHANGED vars
    BY <2>3 DEF BeginAppend, vars, trees, merge, AllApart, Apart, cursors
  <2>4. QED
    BY <2>1, <2>2, <2>3 DEF Next, Quiet
<1>3. IInv /\ AllApart => Exclusive
  <2> SUFFICES ASSUME IInv, AllApart, NEW t \in Triples, NEW id \in Published,
                      IsPatchId(additions[t], id, Outer),
                      Spans(deletions[t].patches, id, Outer)
               PROVE  FALSE
    BY DEF Exclusive
  <2>1. /\ id \in Nat /\ id < patchId /\ id < MaxValue /\ Outer \in Nat /\ id < Outer
        /\ patchId \in Nat
    <3>1. id \in Nat /\ MinPatchId <= id /\ id < patchId /\ patchId \in Nat
      BY Ids DEF Published
    <3>2. patchId # MinPatchId
      BY <3>1, Ids
    <3>3. maxPatchId = patchId - 1
      BY <3>2 DEF IInv
    <3>4. QED
      BY <3>1, <3>3, Ids, MaxValueAssumption DEF Outer
  <2>2. Settled(additions[t].patches, patchId) /\ IsList(deletions[t].patches)
    BY DEF IInv, SettledValue, Settled
  <2>3. Holds(additions[t].patches, id)
    BY <2>1, <2>2, AdditionSeen
  <2>4. Holds(deletions[t].patches, id)
    BY <2>1, <2>2, SpansIsHolds
  <2>5. QED
    BY <2>1, <2>3, <2>4 DEF AllApart, Apart
<1>4. QED
  BY <1>1, <1>2, <1>3, Inductive, PTL DEF Spec

-----------------------------------------------------------------------------
(* Complete values *)

(***************************************************************************)
(* From here on deltas are valid, and a patch tree implements              *)
(* VersionedStore.                                                         *)
(*                                                                         *)
(* The inductive invariant SInv says what the two values of a triple mean. *)
(* A triple that any patch touched is, at every id from there on, in       *)
(* exactly one of the two trees; the local change flags of a value are all *)
(* of its ids or none, depending on the snapshot only; and a triple that   *)
(* the running merge has passed is in the version that the delta makes of  *)
(* the latest one.                                                         *)
(***************************************************************************)


\* The intervals of the list are not empty and begin in this chain.
Solid(l) == \A s \in DOMAIN l : MinPatchId <= s /\ s < l[s]

\* An addition is local exactly when the snapshot has the triple, a deletion when not.
FlagsMatch(v, d, old) ==
  /\ v.local = IF old THEN v.patches ELSE EmptyList
  /\ d.local = IF old THEN EmptyList ELSE d.patches

(***************************************************************************)
(* The addition value v and the deletion value d of a triple, which is in  *)
(* the snapshot when old, are complete up to id p: from there on they say  *)
(* the same of every id, which is that it is added or that it is deleted.  *)
(***************************************************************************)
Complete(v, d, old, p) ==
  /\ SettledValue(v, p) /\ SettledValue(d, p)
  /\ Solid(v.patches) /\ Solid(d.patches)
  /\ FlagsMatch(v, d, old)
  /\ DOMAIN v.patches # {} \/ DOMAIN d.patches # {} =>
       /\ old => DOMAIN d.patches # {}
       /\ ~old => DOMAIN v.patches # {}
       /\ Holds(v.patches, p) <=> ~Holds(d.patches, p)

AtRest(t, p) == Complete(additions[t], deletions[t], t \in snapshot, p)

\* The triple is in the version of the id.
In(t, id) ==
  \/ t \in snapshot /\ ~Holds(deletions[t].patches, id)
  \/ t \notin snapshot /\ Holds(additions[t].patches, id)

Passed(t) == appending /\ t \notin todo

\* What the delta makes of the latest version.
Wanted(t) == t \in patchAdds \/ (In(t, patchId - 1) /\ t \notin patchDels)

SInv ==
  /\ \A t \in Triples : IF Passed(t) THEN AtRest(t, patchId) ELSE AtRest(t, patchId - 1)
  /\ appending => /\ \A t \in patchAdds : ~In(t, patchId - 1)
                  /\ \A t \in patchDels : In(t, patchId - 1)
  /\ \A t \in Triples : Passed(t) => (In(t, patchId) <=> Wanted(t))

-----------------------------------------------------------------------------
(* Lists *)

(***************************************************************************)
(* addition at an id of the chain: the list holds it and stays solid.      *)
(***************************************************************************)
LEMMA AddedList ==
  ASSUME NEW p \in Nat, MinPatchId <= p, p < MaxValue, NEW l, Settled(l, p), Solid(l)
  PROVE  /\ DOMAIN Addition(l, p) # {} /\ Solid(Addition(l, p)) /\ Holds(Addition(l, p), p)
         /\ Holds(l, p) => Addition(l, p) = l
<1>1. PICK a : a = Addition(l, p)
  OBVIOUS
<1>2. /\ \A s \in DOMAIN l : s \in Nat /\ l[s] \in Nat /\ s <= p /\ (l[s] <= p \/ l[s] = MaxValue)
      /\ \A s, r \in DOMAIN l : s < r => l[s] < r
  BY DEF Settled, IsList
<1>3. CASE DOMAIN l = {} /\ a = Opened(p)
  BY <1>1, <1>3 DEF Opened, Solid, Holds
<1>4. CASE DOMAIN l # {} /\ a = l /\ \E s \in DOMAIN l : s = p \/ p < l[s]
  BY <1>1, <1>2, <1>4 DEF Solid, Holds
<1>5. ASSUME NEW last \in DOMAIN l, \A s \in DOMAIN l : s <= last, last < p, l[last] = p,
             a = [l EXCEPT ![last] = MaxValue]
      PROVE  DOMAIN a # {} /\ Solid(a) /\ Holds(a, p) /\ ~Holds(l, p)
  <2>1. DOMAIN a = DOMAIN l /\ \A s \in DOMAIN l : a[s] = IF s = last THEN MaxValue ELSE l[s]
    BY <1>5
  <2>2. \A s \in DOMAIN l : l[s] <= p
    BY <1>2, <1>5
  <2>3. ~Holds(l, p)
    BY <1>2, <2>2 DEF Holds
  <2>4. QED
    BY <1>2, <1>5, <2>1, <2>3, MaxValueAssumption DEF Solid, Holds
<1>6. ASSUME NEW last \in DOMAIN l, \A s \in DOMAIN l : s <= last, last < p, l[last] < p,
             a = [s \in DOMAIN l \cup {p} |-> IF s = p THEN MaxValue ELSE l[s]]
      PROVE  DOMAIN a # {} /\ Solid(a) /\ Holds(a, p) /\ ~Holds(l, p)
  <2>1. /\ DOMAIN a = DOMAIN l \cup {p}
        /\ \A s \in DOMAIN a : a[s] = IF s = p THEN MaxValue ELSE l[s]
    BY <1>6
  <2>2. \A s \in DOMAIN l : l[s] < p
    BY <1>2, <1>6
  <2>3. ~Holds(l, p)
    BY <1>2, <2>2 DEF Holds
  <2>4. QED
    BY <1>2, <2>1, <2>3 DEF Solid, Holds
<1>7. QED
  BY <1>1, <1>3, <1>4, <1>5, <1>6, AdditionBehind, EmptyListFacts

(***************************************************************************)
(* deletion at an id behind everything in the list: it does not empty it,  *)
(* and does nothing when the list does not hold the id.                    *)
(***************************************************************************)
LEMMA DeletedList ==
  ASSUME NEW p \in Nat, 0 < p, NEW l, Settled(l, p), Settled(l, p - 1), Solid(l)
  PROVE  /\ Solid(Deletion(l, p)) /\ ~Holds(Deletion(l, p), p)
         /\ DOMAIN Deletion(l, p) = DOMAIN l
         /\ ~Holds(l, p) => Deletion(l, p) = l
<1>1. PICK d : d = Deletion(l, p)
  OBVIOUS
<1>2. \A s \in DOMAIN l : s \in Nat /\ l[s] \in Nat /\ s < p
  BY DEF Settled, IsList
<1>3. CASE d = l /\ ~IsIn(l, p)
  BY <1>1, <1>3, DeletedBehind
<1>4. ASSUME NEW last \in DOMAIN l, last < p, p < l[last], d = [l EXCEPT ![last] = p]
      PROVE  Solid(d) /\ DOMAIN d = DOMAIN l /\ Holds(l, p)
  <2>1. DOMAIN d = DOMAIN l /\ \A s \in DOMAIN l : d[s] = IF s = last THEN p ELSE l[s]
    BY <1>4
  <2>2. QED
    BY <1>2, <1>4, <2>1 DEF Solid, Holds
<1>5. QED
  BY <1>1, <1>2, <1>3, <1>4, DeletionBehind, DeletedBehind

(***************************************************************************)
(* The last element below p of a list that is settled in front of p.       *)
(***************************************************************************)
LEMMA LatestElement ==
  ASSUME NEW p \in Nat, 0 < p, p < MaxValue, NEW l, Settled(l, p - 1), Solid(l), DOMAIN l # {}
  PROVE  /\ Elements(l, p) # {} /\ LastElement(l, p) \in Nat
         /\ Holds(l, p - 1) => LastElement(l, p) = p - 1
         /\ ~Holds(l, p - 1) => LastElement(l, p) < p - 1
         /\ ~Spans(l, p, p)
<1>1. /\ p - 1 \in Nat
      /\ \A s \in DOMAIN l : /\ s \in Nat /\ l[s] \in Nat /\ s <= p - 1 /\ s < l[s]
                             /\ l[s] <= p - 1 \/ l[s] = MaxValue
  BY DEF Settled, IsList, Solid
<1>2. \A s \in DOMAIN l : /\ EndOf(l, s, p) \in Nat /\ s < EndOf(l, s, p) /\ EndOf(l, s, p) <= p
                          /\ l[s] = MaxValue => EndOf(l, s, p) = p
                          /\ l[s] # MaxValue => EndOf(l, s, p) = l[s]
  BY <1>1, MaxValueAssumption DEF EndOf
<1>3. \A v : v \in Elements(l, p) <=> \E s \in DOMAIN l : v \in Nat /\ s <= v /\ v < EndOf(l, s, p)
  <2>1. \A s \in DOMAIN l : \A v : v \in s .. (EndOf(l, s, p) - 1)
                                  <=> v \in Nat /\ s <= v /\ v < EndOf(l, s, p)
    BY <1>1, <1>2
  <2>2. QED
    BY <2>1, Zenon DEF Elements
<1>4. Elements(l, p) # {} /\ Elements(l, p) \subseteq Nat /\ \A v \in Elements(l, p) : v <= p - 1
  BY <1>1, <1>2, <1>3
<1>5. /\ LastElement(l, p) \in Elements(l, p)
      /\ \A v \in Elements(l, p) : v <= LastElement(l, p)
  BY <1>1, <1>4, MaxOfBounded DEF LastElement
<1>6. p - 1 \in Elements(l, p) <=> Holds(l, p - 1)
  BY <1>1, <1>2, <1>3, MaxValueAssumption DEF Holds
<1>7. ~Spans(l, p, p)
  BY <1>2 DEF Spans
<1>8. QED
  BY <1>1, <1>4, <1>5, <1>6, <1>7

-----------------------------------------------------------------------------
(* Values *)

\* A list without intervals is the empty list.
LEMMA EmptyIsEmptyList ==
  ASSUME NEW l, IsList(l), DOMAIN l = {}
  PROVE  l = EmptyList
BY DEF IsList, EmptyList

\* The fields of an addition value after a call.
LEMMA AdditionFields ==
  ASSUME NEW v, IsPlainValue(v), NEW p
  PROVE  /\ AddPatch(v, p) = [patches |-> Addition(v.patches, p), local |-> v.local]
         /\ DelPatch(v, p) = [patches |-> Deletion(v.patches, p), local |-> v.local]
         /\ SetLocalChange(v, p) = [patches |-> v.patches, local |-> Addition(v.local, p)]
         /\ UnsetLocalChange(v, p) = [patches |-> v.patches, local |-> Deletion(v.local, p)]
<1>1. v = [patches |-> v.patches, local |-> v.local]
  BY DEF IsPlainValue
<1>2. QED
  BY <1>1 DEF AddPatch, DelPatch, SetLocalChange, UnsetLocalChange

\* The two ways a merge step leaves the values of a triple.
Added(v, d, w, x, p) ==
  w.patches = Addition(v.patches, p) /\ x.patches = Deletion(d.patches, p)

Removed(v, d, w, x, p) ==
  w.patches = Deletion(v.patches, p) /\ x.patches = Addition(d.patches, p)

(***************************************************************************)
(* Values that are complete in front of p, extended at p on one side and   *)
(* cut at p on the other, are complete up to p.                            *)
(***************************************************************************)
LEMMA Completed ==
  ASSUME NEW p \in Nat, 0 < p, MinPatchId <= p, p < MaxValue,
         NEW v, NEW d, NEW old, Complete(v, d, old, p - 1),
         SettledValue(v, p), SettledValue(d, p), NEW w, NEW x, FlagsMatch(w, x, old)
  PROVE  /\ Added(v, d, w, x, p) /\ (old => DOMAIN d.patches # {}) =>
              Complete(w, x, old, p) /\ Holds(w.patches, p) /\ ~Holds(x.patches, p)
         /\ Removed(v, d, w, x, p) /\ (~old => DOMAIN v.patches # {}) =>
              Complete(w, x, old, p) /\ ~Holds(w.patches, p) /\ Holds(x.patches, p)
<1>1. \A l \in {v.patches, d.patches} :
        /\ Settled(Addition(l, p), p) /\ Solid(Addition(l, p)) /\ Holds(Addition(l, p), p)
        /\ DOMAIN Addition(l, p) # {}
        /\ Settled(Deletion(l, p), p) /\ Solid(Deletion(l, p)) /\ ~Holds(Deletion(l, p), p)
        /\ DOMAIN Deletion(l, p) = DOMAIN l
  BY AddedList, DeletedList, AdditionSettled, DeletionSettled DEF Complete, SettledValue
<1>2. Settled(EmptyList, p)
  BY EmptyListFacts
<1>3. ASSUME Added(v, d, w, x, p), old => DOMAIN d.patches # {}
      PROVE  Complete(w, x, old, p) /\ Holds(w.patches, p) /\ ~Holds(x.patches, p)
  BY <1>1, <1>2, <1>3 DEF Added, Complete, SettledValue, FlagsMatch
<1>4. ASSUME Removed(v, d, w, x, p), ~old => DOMAIN v.patches # {}
      PROVE  Complete(w, x, old, p) /\ ~Holds(w.patches, p) /\ Holds(x.patches, p)
  BY <1>1, <1>2, <1>4 DEF Removed, Complete, SettledValue, FlagsMatch
<1>5. QED
  BY <1>3, <1>4

\* Values that were never touched are complete up to any id.
LEMMA Untouched ==
  ASSUME NEW p \in Nat, NEW q, NEW v, NEW d, NEW old, Complete(v, d, old, q),
         SettledValue(v, p), SettledValue(d, p), DOMAIN v.patches = {}, DOMAIN d.patches = {}
  PROVE  Complete(v, d, old, p)
BY DEF Complete

(***************************************************************************)
(* In a complete pair of values the triple is in a version when it is      *)
(* added in it, and out of it when it is deleted.                          *)
(***************************************************************************)
LEMMA InComplete ==
  ASSUME NEW t, NEW p \in Nat, AtRest(t, p)
  PROVE  /\ InAdditions(t) \/ InDeletions(t) =>
              /\ In(t, p) <=> Holds(additions[t].patches, p)
              /\ In(t, p) <=> ~Holds(deletions[t].patches, p)
         /\ ~InAdditions(t) => ~Holds(additions[t].patches, p)
         /\ ~InDeletions(t) => ~Holds(deletions[t].patches, p)
         /\ ~InAdditions(t) /\ ~InDeletions(t) => (In(t, p) <=> t \in snapshot)
<1>1. /\ ~InAdditions(t) => ~Holds(additions[t].patches, p)
      /\ ~InDeletions(t) => ~Holds(deletions[t].patches, p)
  BY DEF InAdditions, InDeletions, Holds
<1>2. QED
  BY <1>1 DEF AtRest, Complete, In, InAdditions, InDeletions

-----------------------------------------------------------------------------
(* The branches *)

(***************************************************************************)
(* What a branch may rely on: the ids, and the values of its triple, whose *)
(* lists do not change between the latest version and the one in the make. *)
(***************************************************************************)
LEMMA Facts ==
  ASSUME IInv, SInv, appending, NEW t \in todo
  PROVE  /\ t \in Triples /\ AtRest(t, patchId - 1)
         /\ patchId \in Nat /\ patchId - 1 \in Nat /\ 0 < patchId /\ MinPatchId <= patchId
         /\ patchId < MaxValue /\ MaxValue \in Nat
         /\ IsPlainValue(additions[t]) /\ IsDeletionValue(deletions[t])
         /\ SettledValue(additions[t], patchId) /\ SettledValue(deletions[t], patchId)
<1>1. t \in Triples /\ patchId \in MinPatchId .. LastAppended + 1
  BY DEF IInv, TypeOK, todo
<1>2. /\ patchId \in Nat /\ patchId - 1 \in Nat /\ 0 < patchId /\ MinPatchId <= patchId
      /\ patchId < MaxValue /\ MaxValue \in Nat
  BY <1>1, ParametersAssumption, MaxValueAssumption, Ids
<1>3. AtRest(t, patchId - 1)
  BY <1>1 DEF SInv, Passed
<1>4. QED
  BY <1>1, <1>2, <1>3 DEF IInv, TypeOK

\* From patchId - 1 on the list holds all ids or none, so it is extended or cut by one call only.
Steady(l) ==
  /\ Settled(l, patchId) /\ Settled(l, patchId - 1) /\ Solid(l)
  /\ Holds(l, patchId) <=> Holds(l, patchId - 1)
  /\ Holds(l, patchId) => Addition(l, patchId) = l
  /\ ~Holds(l, patchId) => Deletion(l, patchId) = l

\* The lists of a triple that is still to be passed are steady.
LEMMA ListsSteady ==
  ASSUME IInv, SInv, appending, NEW t \in todo
  PROVE  Steady(additions[t].patches) /\ Steady(deletions[t].patches)
<1>1. /\ AtRest(t, patchId - 1)
      /\ SettledValue(additions[t], patchId) /\ SettledValue(deletions[t], patchId)
  BY Facts
<1>2. SUFFICES ASSUME NEW l, Settled(l, patchId), Settled(l, patchId - 1), Solid(l)
               PROVE  Steady(l)
  BY <1>1 DEF AtRest, Complete, SettledValue
<1>3. Holds(l, patchId) <=> Holds(l, patchId - 1)
  BY <1>2, Facts, HoldsBehind
<1>4. QED
  BY <1>2, <1>3, Facts, AddedList, DeletedList DEF Steady

\* What becomes of t, and that the delta wants it.
NowAdded(t) ==
  /\ t \in snapshot => InDeletions(t)
  /\ Added(additions[t], deletions[t], additions'[t], deletions'[t], patchId)

NowRemoved(t) ==
  /\ t \notin snapshot => InAdditions(t)
  /\ Removed(additions[t], deletions[t], additions'[t], deletions'[t], patchId)

Outcome(t) ==
  /\ FlagsMatch(additions'[t], deletions'[t], t \in snapshot)
  /\ IF Wanted(t) THEN NowAdded(t) ELSE NowRemoved(t)

\* The state of t before the branch, in the terms of the branches' guards.
Known(t) ==
  /\ t \in Triples
  /\ Steady(additions[t].patches) /\ Steady(deletions[t].patches)
  /\ FlagsMatch(additions[t], deletions[t], t \in snapshot)
  /\ t \in patchAdds => ~In(t, patchId - 1) /\ t \notin patchDels
  /\ t \in patchDels => In(t, patchId - 1)
  /\ InAdditions(t) \/ InDeletions(t) =>
       /\ t \in snapshot => InDeletions(t)
       /\ t \notin snapshot => InAdditions(t)
       /\ In(t, patchId - 1) <=> Holds(additions[t].patches, patchId)
       /\ In(t, patchId - 1) <=> ~Holds(deletions[t].patches, patchId)
  /\ ~InAdditions(t) /\ ~InDeletions(t) => (In(t, patchId - 1) <=> t \in snapshot)
  /\ ~InAdditions(t) => /\ additions[t].patches = EmptyList
                        /\ ~Holds(additions[t].patches, patchId)
  /\ ~InDeletions(t) => /\ deletions[t].patches = EmptyList
                        /\ ~Holds(deletions[t].patches, patchId)

\* What is known of a triple that the merge has still to pass.
LEMMA KnownBefore == ASSUME IInv, SInv, appending, NEW t \in todo PROVE Known(t)
<1>1. /\ t \in patchAdds => ~In(t, patchId - 1) /\ t \notin patchDels
      /\ t \in patchDels => In(t, patchId - 1)
  BY DEF SInv, IInv, TypeOK
<1>2. AtRest(t, patchId - 1) /\ patchId - 1 \in Nat
  BY Facts
<1>3. /\ Holds(additions[t].patches, patchId) <=> Holds(additions[t].patches, patchId - 1)
      /\ Holds(deletions[t].patches, patchId) <=> Holds(deletions[t].patches, patchId - 1)
  BY ListsSteady DEF Steady
<1>4. /\ FlagsMatch(additions[t], deletions[t], t \in snapshot)
      /\ InAdditions(t) \/ InDeletions(t) =>
              /\ t \in snapshot => InDeletions(t)
              /\ t \notin snapshot => InAdditions(t)
  BY <1>2 DEF AtRest, Complete, InAdditions, InDeletions
<1>5. IsList(additions[t].patches) /\ IsList(deletions[t].patches)
  BY ListsSteady DEF Steady, Settled
<1>6. /\ ~InAdditions(t) => additions[t].patches = EmptyList
      /\ ~InDeletions(t) => deletions[t].patches = EmptyList
  BY <1>5, EmptyIsEmptyList DEF InAdditions, InDeletions
<1>7. QED
  BY <1>1, <1>2, <1>3, <1>4, <1>6, InComplete, ListsSteady, Facts DEF Known

(***************************************************************************)
(* Triples of the deletion trees only, which the delta does not name.      *)
(***************************************************************************)
LEMMA CarryDeletionOutcome ==
  ASSUME IInv, SInv, appending, NEW t \in todo, CarryDeletionAt(t)
  PROVE  Outcome(t)
<1>1. /\ ~InPatch(t) /\ InDeletions(t) /\ ~InAdditions(t) /\ additions' = additions
      /\ \/ deletions' = deletions
         \/ \E positions : WriteDeletion(t, AddElement(deletions[t], patchId, FALSE, positions), Outer)
  BY DEF CarryDeletionAt, CarryDeletion, Takes
<1>2. Known(t)
  BY KnownBefore
<1>3. /\ deletions'[t].patches = Addition(deletions[t].patches, patchId)
      /\ deletions'[t].local = deletions[t].local
  <2>1. CASE deletions' = deletions
    BY <1>1, <1>2, <2>1 DEF Known, Steady
  <2>2. ASSUME NEW positions,
               WriteDeletion(t, AddElement(deletions[t], patchId, FALSE, positions), Outer)
        PROVE  /\ deletions'[t].patches = Addition(deletions[t].patches, patchId)
               /\ deletions'[t].local = deletions[t].local
    BY <1>2, <2>2, Written DEF AddElement, Known
  <2>3. QED
    BY <1>1, <2>1, <2>2
<1>4. QED
  BY <1>1, <1>2, <1>3
  DEF Known, Steady, Outcome, NowRemoved, Removed, FlagsMatch, Wanted, InPatch

\* Nothing is deleted from an empty list.
LEMMA EmptyStays == ASSUME NEW p PROVE Deletion(EmptyList, p) = EmptyList
BY DEF Deletion, UpTo, EmptyList

\* The values written for a key that is in no tree.
LEMMA FreshFields ==
  /\ FreshAddition(FALSE).patches = Addition(EmptyList, patchId)
  /\ FreshAddition(FALSE).local = EmptyList
  /\ FreshAddition(TRUE).patches = Addition(EmptyList, patchId)
  /\ FreshAddition(TRUE).local = Addition(EmptyList, patchId)
  /\ \A positions : /\ FreshDeletion(FALSE, positions).patches = Addition(EmptyList, patchId)
                    /\ FreshDeletion(FALSE, positions).local = EmptyList
  /\ \A positions : /\ FreshDeletion(TRUE, positions).patches = Addition(EmptyList, patchId)
                    /\ FreshDeletion(TRUE, positions).local = Addition(EmptyList, patchId)
<1>1. AddPatch(NoAddition, patchId) = [patches |-> Addition(EmptyList, patchId), local |-> EmptyList]
  BY DEF AddPatch, NoAddition
<1>2. QED
  BY <1>1 DEF FreshAddition, FreshDeletion, SetLocalChange, AddElement, NoDeletion

(***************************************************************************)
(* Triples of the addition trees only, which the delta does not name.      *)
(***************************************************************************)
LEMMA CarryAdditionOutcome ==
  ASSUME IInv, SInv, appending, NEW t \in todo, CarryAdditionAt(t)
  PROVE  Outcome(t)
<1>1. /\ ~InPatch(t) /\ ~InDeletions(t) /\ InAdditions(t) /\ deletions' = deletions
      /\ WriteAddition(t, AddPatch(additions[t], patchId)) \/ WriteAddition(t, additions[t])
  BY DEF CarryAdditionAt, CarryAddition, Takes
<1>2. Known(t) /\ IsPlainValue(additions[t])
  BY KnownBefore, Facts
<1>3. /\ additions'[t].patches = Addition(additions[t].patches, patchId)
      /\ additions'[t].local = additions[t].local
  <2>1. \/ additions'[t] = [patches |-> Addition(additions[t].patches, patchId),
                            local |-> additions[t].local]
        \/ additions'[t] = additions[t]
    BY <1>1, <1>2, Written, AdditionFields DEF Known
  <2>2. Addition(additions[t].patches, patchId) = additions[t].patches
    BY <1>1, <1>2 DEF Known, Steady
  <2>3. QED
    BY <2>1, <2>2
<1>4. QED
  BY <1>1, <1>2, <1>3
  DEF Known, Steady, Outcome, NowAdded, Added, FlagsMatch, Wanted, InPatch

(***************************************************************************)
(* Triples of the delta that are in no tree yet.                           *)
(***************************************************************************)
LEMMA InsertOutcome ==
  ASSUME IInv, SInv, appending, NEW t \in todo, InsertAdditionAt(t) \/ InsertDeletionAt(t)
  PROVE  Outcome(t)
<1>1. Known(t) /\ ~InDeletions(t) /\ ~InAdditions(t)
  BY KnownBefore DEF InsertAdditionAt, InsertAddition, InsertDeletionAt, InsertDeletion, Takes
<1>2. CASE InsertAdditionAt(t)
  <2>1. /\ t \in patchAdds /\ deletions' = deletions
        /\ additions'[t] = FreshAddition(FALSE)
    BY <1>1, <1>2, Written DEF InsertAdditionAt, InsertAddition, Known, Takes
  <2>2. QED
    BY <1>1, <2>1, FreshFields, EmptyStays
    DEF Known, Outcome, NowAdded, Added, FlagsMatch, Wanted
<1>3. CASE InsertDeletionAt(t)
  <2>1. /\ t \in patchDels /\ additions' = additions
        /\ deletions'[t] = FreshDeletion(FALSE, PositionsNow(t))
    BY <1>1, <1>3, Written DEF InsertDeletionAt, InsertDeletion, Known, Takes
  <2>2. /\ deletions'[t].patches = Addition(EmptyList, patchId)
        /\ deletions'[t].local = EmptyList
    BY <2>1, FreshFields
  <2>3. t \in snapshot /\ ~Wanted(t)
    BY <1>1, <2>1 DEF Known, Wanted
  <2>4. NowRemoved(t)
    BY <1>1, <2>1, <2>2, <2>3, EmptyStays DEF Known, NowRemoved, Removed
  <2>5. FlagsMatch(additions'[t], deletions'[t], t \in snapshot)
    BY <1>1, <2>1, <2>2, <2>3 DEF Known, FlagsMatch
  <2>6. QED
    BY <2>3, <2>4, <2>5 DEF Outcome
<1>4. QED
  BY <1>2, <1>3

(***************************************************************************)
(* Triples of the delta that are in one tree.  With valid deltas the trees *)
(* already holding the change are out of the question.                     *)
(***************************************************************************)
LEMMA ChangedOutcome ==
  ASSUME IInv, SInv, appending, NEW t \in todo,
         ReturnDeletedAt(t) \/ DeleteAgainAt(t) \/ DeleteAddedAt(t) \/ AddAgainAt(t)
  PROVE  Outcome(t)
<1>1. Known(t) /\ IsPlainValue(additions[t])
  BY KnownBefore, Facts
<1>2. CASE ReturnDeletedAt(t)
  <2>1. /\ t \in patchAdds /\ InDeletions(t) /\ ~InAdditions(t)
        /\ additions'[t] = FreshAddition(TRUE)
        /\ deletions'[t] = DelElement(deletions[t], patchId)
    BY <1>1, <1>2, Written DEF ReturnDeletedAt, ReturnDeleted, Known, Takes
  <2>2. /\ deletions'[t].patches = Deletion(deletions[t].patches, patchId)
        /\ deletions'[t].local = Deletion(deletions[t].local, patchId)
    BY <2>1 DEF DelElement
  <2>3. t \in snapshot /\ Wanted(t)
    BY <1>1, <2>1 DEF Known, Wanted
  <2>4. NowAdded(t)
    BY <1>1, <2>1, <2>2, <2>3, FreshFields DEF Known, NowAdded, Added
  <2>5. FlagsMatch(additions'[t], deletions'[t], t \in snapshot)
    BY <1>1, <2>1, <2>2, <2>3, FreshFields, EmptyStays DEF Known, FlagsMatch
  <2>6. QED
    BY <2>3, <2>4, <2>5 DEF Outcome
<1>3. CASE DeleteAddedAt(t)
  <2>1. /\ t \in patchDels /\ ~InDeletions(t) /\ InAdditions(t)
        /\ additions'[t] = UnsetLocalChange(DelPatch(additions[t], patchId), patchId)
        /\ deletions'[t] = FreshDeletion(TRUE, NoPositions)
    BY <1>1, <1>3, Written DEF DeleteAddedAt, DeleteAdded, Known, Takes
  <2>2. DelPatch(additions[t], patchId) = [patches |-> Deletion(additions[t].patches, patchId),
                                           local |-> additions[t].local]
    BY <1>1, AdditionFields
  <2>3. /\ additions'[t].patches = Deletion(additions[t].patches, patchId)
        /\ additions'[t].local = Deletion(additions[t].local, patchId)
    BY <2>1, <2>2 DEF UnsetLocalChange
  <2>4. QED
    BY <1>1, <2>1, <2>3, FreshFields, EmptyStays
    DEF Known, Outcome, NowRemoved, Removed, FlagsMatch, Wanted
<1>4. CASE DeleteAgainAt(t) \/ AddAgainAt(t)
  BY <1>1, <1>4 DEF Known, DeleteAgainAt, DeleteAgain, AddAgainAt, AddAgain, Takes
<1>5. QED
  BY <1>2, <1>3, <1>4

(***************************************************************************)
(* A triple in both trees: the tree with the larger last id is the one     *)
(* that holds the latest version, and its last flag is the one in force.   *)
(***************************************************************************)
LEMMA CurrentTree ==
  ASSUME IInv, SInv, appending, NEW t \in todo, InDeletions(t), InAdditions(t)
  PROVE  /\ LastAddition(t) > LastDeletion(t) <=> Holds(additions[t].patches, patchId)
         /\ LastDeletion(t) > LastAddition(t) <=> ~Holds(additions[t].patches, patchId)
         /\ WasLocal(t) <=> (Holds(additions[t].patches, patchId) <=> t \in snapshot)
         /\ WasLocal(t) \in BOOLEAN
<1> DEFINE a == additions[t]
           d == deletions[t]
<1>1. /\ Known(t) /\ patchId \in Nat /\ 0 < patchId /\ patchId < MaxValue
      /\ patchId - 1 \in Nat /\ MinPatchId \in Nat
  BY KnownBefore, Facts, Ids
<1>2. /\ Settled(a.patches, patchId - 1) /\ Solid(a.patches) /\ DOMAIN a.patches # {}
      /\ Settled(d.patches, patchId - 1) /\ Solid(d.patches) /\ DOMAIN d.patches # {}
      /\ Settled(a.patches, patchId) /\ Settled(d.patches, patchId)
  BY <1>1 DEF Known, Steady, InAdditions, InDeletions
<1>3. /\ Holds(a.patches, patchId) <=> Holds(a.patches, patchId - 1)
      /\ Holds(d.patches, patchId) <=> Holds(d.patches, patchId - 1)
      /\ Holds(a.patches, patchId) <=> ~Holds(d.patches, patchId)
  BY <1>1 DEF Known, Steady
<1>4. /\ a.local = IF t \in snapshot THEN a.patches ELSE EmptyList
      /\ d.local = IF t \in snapshot THEN EmptyList ELSE d.patches
  BY <1>1 DEF Known, FlagsMatch
<1> HIDE DEF a, d
<1>5. Outer = patchId
  <2>1. PICK s \in DOMAIN a.patches : MinPatchId <= s /\ s <= patchId - 1 /\ s \in Nat
    BY <1>2 DEF Solid, Settled, IsList
  <2>2. patchId # MinPatchId
    BY <1>1, <2>1
  <2>3. maxPatchId = patchId - 1
    BY <2>2 DEF IInv
  <2>4. QED
    BY <1>1, <2>3 DEF Outer
<1>6. /\ LastAddition(t) = LastElement(a.patches, patchId)
      /\ LastDeletion(t) = LastElement(d.patches, patchId)
      /\ Elements(d.patches, patchId) # {} /\ ~Spans(d.patches, patchId, patchId)
      /\ LastAddition(t) \in Nat /\ LastDeletion(t) \in Nat
  BY <1>1, <1>2, <1>5, LatestElement DEF LastAddition, LastPatchId, LastDeletion, a, d
<1>7. /\ Holds(a.patches, patchId) =>
           LastAddition(t) = patchId - 1 /\ LastDeletion(t) < patchId - 1
      /\ ~Holds(a.patches, patchId) =>
           LastAddition(t) < patchId - 1 /\ LastDeletion(t) = patchId - 1
  <2>1. \A l \in {a.patches, d.patches} :
          /\ Holds(l, patchId - 1) => LastElement(l, patchId) = patchId - 1
          /\ ~Holds(l, patchId - 1) => LastElement(l, patchId) < patchId - 1
    BY <1>1, <1>2, LatestElement
  <2>2. QED
    BY <1>3, <1>6, <2>1
<1>8. IsLocalAddition(a, patchId) <=> t \in snapshot /\ Holds(a.patches, patchId)
  <2>1. /\ IsIn(a.patches, patchId) <=> Holds(a.patches, patchId)
        /\ ~IsIn(EmptyList, patchId)
    BY <1>1, <1>2, IsInIsHolds, EmptyListFacts
  <2>2. QED
    BY <1>4, <2>1 DEF IsLocalAddition
<1>9. ~Holds(a.patches, patchId) => (IsLocalDeletion(d, patchId, Outer) <=> t \notin snapshot)
  <2>1. IsLocalDeletion(d, patchId, Outer) <=> IsIn(d.local, LastDeletion(t))
    BY <1>5, <1>6 DEF IsLocalDeletion
  <2>2. /\ IsIn(d.patches, patchId - 1) <=> Holds(d.patches, patchId - 1)
        /\ ~IsIn(EmptyList, patchId - 1)
    BY <1>1, <1>2, IsInIsHolds, EmptyListFacts
  <2>3. QED
    BY <1>3, <1>4, <1>7, <2>1, <2>2
<1>10. /\ LastAddition(t) > LastDeletion(t) <=> Holds(a.patches, patchId)
       /\ LastDeletion(t) > LastAddition(t) <=> ~Holds(a.patches, patchId)
       /\ LastAddition(t) < LastDeletion(t) <=> ~Holds(a.patches, patchId)
  BY <1>1, <1>6, <1>7
<1>11. WasLocal(t) <=> (Holds(a.patches, patchId) <=> t \in snapshot)
  <2>1. WasLocal(t) <=> IF Holds(a.patches, patchId) THEN IsLocalAddition(a, patchId)
                        ELSE IsLocalDeletion(d, patchId, Outer)
    BY <1>10 DEF WasLocal, a, d
  <2>2. QED
    BY <1>8, <1>9, <2>1
<1>12. WasLocal(t) \in BOOLEAN
  BY DEF WasLocal, IsLocalDeletion, IsLocalAddition, IsIn
<1>13. QED
  BY <1>10, <1>11, <1>12 DEF a

(***************************************************************************)
(* What the D = A branch writes.                                           *)
(***************************************************************************)
LEMMA SettledAsAddition ==
  ASSUME IInv, SInv, appending, NEW t \in todo, InDeletions(t),
         NEW local, local <=> t \in snapshot, SettleAsAddition(t, local)
  PROVE  NowAdded(t) /\ FlagsMatch(additions'[t], deletions'[t], t \in snapshot)
<1>1. Known(t) /\ IsPlainValue(additions[t])
  BY KnownBefore, Facts
<1>2. AddPatch(additions[t], patchId) = [patches |-> Addition(additions[t].patches, patchId),
                                         local |-> additions[t].local]
  BY <1>1, AdditionFields
<1>3. /\ additions'[t].patches = Addition(additions[t].patches, patchId)
      /\ additions'[t].local = IF t \in snapshot THEN Addition(additions[t].local, patchId)
                               ELSE additions[t].local
  <2>1. additions'[t] = IF t \in snapshot
                        THEN SetLocalChange(AddPatch(additions[t], patchId), patchId)
                        ELSE AddPatch(additions[t], patchId)
    BY <1>1, Written DEF SettleAsAddition, Known
  <2>2. QED
    BY <1>2, <2>1 DEF SetLocalChange
<1>4. /\ deletions'[t].patches = Deletion(deletions[t].patches, patchId)
      /\ deletions'[t].local = Deletion(deletions[t].local, patchId)
  BY <1>1, Written DEF SettleAsAddition, Known, DelElement
<1>5. QED
  BY <1>1, <1>3, <1>4, EmptyStays DEF Known, NowAdded, Added, FlagsMatch

\* SettleAsDeletion makes the triple removed, and flags it as the snapshot has it.
LEMMA SettledAsDeletion ==
  ASSUME IInv, SInv, appending, NEW t \in todo, InAdditions(t), NEW q,
         NEW local, local <=> t \notin snapshot, SettleAsDeletion(t, local, q)
  PROVE  NowRemoved(t) /\ FlagsMatch(additions'[t], deletions'[t], t \in snapshot)
<1> DEFINE new == DelPatch(additions[t], patchId)
<1>1. Known(t) /\ IsPlainValue(additions[t]) /\ patchId \in Nat
  BY KnownBefore, Facts
<1>2. new = [patches |-> Deletion(additions[t].patches, patchId), local |-> additions[t].local]
  BY <1>1, AdditionFields
<1>3. additions'[t] = IF IsLocalAddition(new, patchId) THEN UnsetLocalChange(new, patchId) ELSE new
  BY <1>1, Written DEF SettleAsDeletion, Known
<1>4. /\ deletions'[t].patches = Addition(deletions[t].patches, patchId)
      /\ deletions'[t].local = IF t \in snapshot THEN deletions[t].local
                               ELSE Addition(deletions[t].local, patchId)
  <2>1. deletions'[t] = AddElement(deletions[t], patchId, local, PositionsUnless(local, q))
    BY <1>1, Written DEF SettleAsDeletion, Known
  <2>2. QED
    BY <2>1 DEF AddElement
<1> HIDE DEF new
<1>5. /\ additions'[t].patches = Deletion(additions[t].patches, patchId)
      /\ additions'[t].local = IF IsIn(additions[t].local, patchId)
                               THEN Deletion(additions[t].local, patchId)
                               ELSE additions[t].local
  BY <1>2, <1>3 DEF IsLocalAddition, UnsetLocalChange
<1>6. additions'[t].local = Deletion(additions[t].local, patchId)
  <2>1. IsIn(additions[t].patches, patchId) <=> Holds(additions[t].patches, patchId)
    BY <1>1, IsInIsHolds DEF Known, Steady
  <2>2. QED
    BY <1>1, <1>5, <2>1, EmptyStays DEF Known, Steady, FlagsMatch
<1>7. QED
  BY <1>1, <1>4, <1>5, <1>6, EmptyStays DEF Known, NowRemoved, Removed, FlagsMatch

(***************************************************************************)
(* The choices of the D = A branch: it adds the triple when the delta      *)
(* wants it and deletes it otherwise, as a local change when that is how   *)
(* the snapshot has it.                                                    *)
(***************************************************************************)
LEMMA SettleChoices ==
  ASSUME IInv, SInv, appending, NEW t \in todo, InDeletions(t), InAdditions(t),
         NEW invert \in BOOLEAN, invert <=> InPatch(t)
  PROVE  /\ (LastAddition(t) > LastDeletion(t)) # invert <=> Wanted(t)
         /\ (LastDeletion(t) > LastAddition(t)) # invert <=> ~Wanted(t)
         /\ WasLocal(t) # invert <=> (Wanted(t) <=> t \in snapshot)
<1> DEFINE added == Holds(additions[t].patches, patchId)
<1>1. Known(t)
  BY KnownBefore
<1>2. /\ LastAddition(t) > LastDeletion(t) <=> added
      /\ LastDeletion(t) > LastAddition(t) <=> ~added
      /\ WasLocal(t) <=> (added <=> t \in snapshot)
      /\ WasLocal(t) \in BOOLEAN
  BY CurrentTree
<1>3. added <=> In(t, patchId - 1)
  BY <1>1 DEF Known
<1>4. Wanted(t) <=> IF invert THEN ~added ELSE added
  BY <1>1, <1>3 DEF Known, Wanted, InPatch
<1> HIDE DEF added
<1>5. CASE invert = TRUE
  BY <1>2, <1>4, <1>5
<1>6. CASE invert = FALSE
  BY <1>2, <1>4, <1>6
<1>7. QED
  BY <1>5, <1>6

(***************************************************************************)
(* Triples in both trees: carried on, or inverted by the delta.            *)
(***************************************************************************)
LEMMA SettleOutcome ==
  ASSUME IInv, SInv, appending, NEW t \in todo, CarryBothAt(t) \/ InvertBothAt(t)
  PROVE  Outcome(t)
<1>1. PICK invert \in BOOLEAN : (invert <=> InPatch(t)) /\ \E q : SettleAt(t, invert, q)
  BY DEF CarryBothAt, InvertBothAt, SettleAt, Takes
<1> DEFINE local == WasLocal(t) # invert
           addAddition == (LastAddition(t) > LastDeletion(t)) # invert
           addDeletion == (LastDeletion(t) > LastAddition(t)) # invert
<1>2. /\ InDeletions(t) /\ InAdditions(t)
      /\ CASE addAddition -> SettleAsAddition(t, local)
           [] ~addAddition /\ addDeletion -> \E q : SettleAsDeletion(t, local, q)
           [] OTHER -> UNCHANGED <<trees, positionCount>>
  BY <1>1 DEF SettleAt, Settle, Takes
<1>3. /\ addAddition <=> Wanted(t)
      /\ addDeletion <=> ~Wanted(t)
      /\ local <=> (Wanted(t) <=> t \in snapshot)
  BY <1>1, <1>2, SettleChoices
<1> HIDE DEF local, addAddition, addDeletion
<1>4. CASE Wanted(t)
  BY <1>2, <1>3, <1>4, SettledAsAddition DEF Outcome
<1>5. CASE ~Wanted(t)
  BY <1>2, <1>3, <1>5, SettledAsDeletion DEF Outcome
<1>6. QED
  BY <1>4, <1>5

-----------------------------------------------------------------------------
(* The inductive invariant *)

\* What the proofs about single branches say of any of them.
LEMMA MergeFacts ==
  ASSUME IInv, SInv, appending, NEW t \in todo, Merges(t)
  PROVE  Outcome(t) /\ Separates(t) /\ Branch(t) /\ IsNext(t)
<1>1. t \in Triples
  BY DEF todo
<1>2. CASE CarryDeletionAt(t)
  BY <1>1, <1>2, CarryDeletionOutcome, OneTreeSeparates, CarryDeletionBranch
  DEF CarryDeletionAt, CarryDeletion, Takes
<1>3. CASE CarryAdditionAt(t)
  BY <1>1, <1>3, CarryAdditionOutcome, OneTreeSeparates, CarryAdditionBranch
  DEF CarryAdditionAt, CarryAddition, Takes
<1>4. CASE InsertAdditionAt(t)
  BY <1>1, <1>4, InsertOutcome, OneTreeSeparates, InsertAdditionBranch
  DEF InsertAdditionAt, InsertAddition, Takes
<1>5. CASE InsertDeletionAt(t)
  BY <1>1, <1>5, InsertOutcome, OneTreeSeparates, InsertDeletionBranch
  DEF InsertDeletionAt, InsertDeletion, Takes
<1>6. CASE ReturnDeletedAt(t)
  BY <1>1, <1>6, ChangedOutcome, OneTreeSeparates, ReturnDeletedBranch
  DEF ReturnDeletedAt, ReturnDeleted, Takes
<1>7. CASE DeleteAgainAt(t)
  BY <1>1, <1>7, ChangedOutcome, OneTreeSeparates, DeleteAgainBranch
  DEF DeleteAgainAt, DeleteAgain, Takes
<1>8. CASE DeleteAddedAt(t)
  BY <1>1, <1>8, ChangedOutcome, OneTreeSeparates, DeleteAddedBranch
  DEF DeleteAddedAt, DeleteAdded, Takes
<1>9. CASE AddAgainAt(t)
  BY <1>1, <1>9, ChangedOutcome, OneTreeSeparates, AddAgainBranch DEF AddAgainAt, AddAgain, Takes
<1>10. CASE CarryBothAt(t) \/ InvertBothAt(t)
  <2>1. PICK invert, q : SettleAt(t, invert, q)
    BY <1>10 DEF CarryBothAt, SettleAt, InvertBothAt, Takes
  <2>2. IsNext(t)
    BY <2>1 DEF SettleAt, Settle, Takes
  <2>3. QED
    BY <1>1, <1>10, <2>1, <2>2, SettleOutcome, SettleSeparates, SettleBranch
<1>11. QED
  BY <1>2, <1>3, <1>4, <1>5, <1>6, <1>7, <1>8, <1>9, <1>10 DEF Merges

\* A triple in neither tree is as complete for the id in the make as for the one before.
LEMMA NeverTouched ==
  ASSUME IInv, NEW u \in Triples, AtRest(u, patchId - 1), ~InDeletions(u), ~InAdditions(u)
  PROVE  /\ AtRest(u, patchId)
         /\ (In(u, patchId) <=> u \in snapshot) /\ (In(u, patchId - 1) <=> u \in snapshot)
<1>1. /\ patchId \in Nat /\ patchId - 1 \in Nat
      /\ SettledValue(additions[u], patchId) /\ SettledValue(deletions[u], patchId)
  BY ParametersAssumption DEF IInv, TypeOK
<1>2. AtRest(u, patchId)
  BY <1>1, Untouched DEF AtRest, InDeletions, InAdditions
<1>3. QED
  BY <1>1, <1>2, InComplete

(***************************************************************************)
(* A triple that the merge need not stop at is complete for the id in the  *)
(* make as it is, and its presence does not change.                        *)
(***************************************************************************)
LEMMA NotRemaining ==
  ASSUME IInv, SInv, appending, NEW u \in todo, u \notin Remaining
  PROVE  AtRest(u, patchId) /\ (In(u, patchId) <=> Wanted(u))
<1>1. AtRest(u, patchId - 1) /\ u \in Triples
  BY Facts
<1>2. ~InPatch(u) /\ ~InDeletions(u) /\ ~InAdditions(u)
  BY DEF Remaining
<1>3. QED
  BY <1>1, <1>2, NeverTouched DEF Wanted, InPatch

\* The triple that a branch worked on.
LEMMA MergedTriple ==
  ASSUME IInv, SInv, appending, NEW t \in todo, Outcome(t), Pass(t)
  PROVE  AtRest(t, patchId)' /\ (In(t, patchId)' <=> Wanted(t))
<1> DEFINE old == t \in snapshot
<1>1. /\ Complete(additions[t], deletions[t], old, patchId - 1)
      /\ SettledValue(additions[t], patchId) /\ SettledValue(deletions[t], patchId)
      /\ patchId \in Nat /\ 0 < patchId /\ MinPatchId <= patchId /\ patchId < MaxValue
  BY Facts DEF AtRest
<1>2. FlagsMatch(additions'[t], deletions'[t], old)
  BY DEF Outcome
<1>3. patchId' = patchId /\ snapshot' = snapshot
  BY DEF Pass
<1>4. CASE Wanted(t)
  <2>1. /\ Added(additions[t], deletions[t], additions'[t], deletions'[t], patchId)
        /\ old => DOMAIN deletions[t].patches # {}
    BY <1>4 DEF Outcome, NowAdded, InDeletions
  <2>2. /\ Complete(additions'[t], deletions'[t], old, patchId)
        /\ Holds(additions'[t].patches, patchId) /\ ~Holds(deletions'[t].patches, patchId)
    BY <1>1, <1>2, <2>1, Completed
  <2>3. QED
    BY <1>3, <1>4, <2>2 DEF AtRest, In
<1>5. CASE ~Wanted(t)
  <2>1. /\ Removed(additions[t], deletions[t], additions'[t], deletions'[t], patchId)
        /\ ~old => DOMAIN additions[t].patches # {}
    BY <1>5 DEF Outcome, NowRemoved, InAdditions
  <2>2. /\ Complete(additions'[t], deletions'[t], old, patchId)
        /\ ~Holds(additions'[t].patches, patchId) /\ Holds(deletions'[t].patches, patchId)
    BY <1>1, <1>2, <2>1, Completed
  <2>3. QED
    BY <1>3, <1>5, <2>2 DEF AtRest, In
<1>6. QED
  BY <1>4, <1>5

\* No branch changes the latest version, and so what the delta wants.
LEMMA LatestKept ==
  ASSUME IInv, SInv, appending, NEW t \in todo, Branch(t)
  PROVE  \A u \in Triples : /\ In(u, patchId - 1)' <=> In(u, patchId - 1)
                            /\ Wanted(u)' <=> Wanted(u)
<1>1. UNCHANGED <<snapshot, patchId, patchAdds, patchDels>>
  BY DEF Branch, Pass
<1>2. patchId \in Nat /\ patchId - 1 \in Nat
  BY Facts
<1>3. \A u \in Triples : In(u, patchId - 1)' <=> In(u, patchId - 1)
  BY <1>1, <1>2 DEF Branch, AdditionsMerged, DeletionsMerged, Keeps, In
<1>4. QED
  BY <1>1, <1>3 DEF Wanted

(***************************************************************************)
(* A branch completes its triple and all it skips; the others keep.        *)
(***************************************************************************)
LEMMA MergeSInv == ASSUME IInv, SInv, appending, MergeStep PROVE SInv'
<1>1. PICK t \in todo : Merges(t)
  BY StepsMerge
<1>2. Outcome(t) /\ Separates(t) /\ Branch(t) /\ IsNext(t)
  BY <1>1, MergeFacts
<1>3. /\ UNCHANGED <<snapshot, appending, patchId, patchAdds, patchDels>>
      /\ todo' \subseteq {u \in todo : u > t} /\ Pass(t)
  BY <1>2 DEF Branch, Pass
<1>4. t \in Triples /\ t \in Nat /\ patchId \in Nat /\ patchId - 1 \in Nat
  BY Facts, TriplesAssumption
<1>5. \A u \in Triples : In(u, patchId - 1)' <=> In(u, patchId - 1)
  BY <1>2, LatestKept
<1>6. \A u \in Triples : Wanted(u)' <=> Wanted(u)
  BY <1>2, LatestKept
<1>7. AtRest(t, patchId)' /\ (In(t, patchId)' <=> Wanted(t)')
  BY <1>2, <1>3, <1>4, <1>6, MergedTriple
<1>8. ASSUME NEW u \in Triples \ {t}
      PROVE  /\ \A p : AtRest(u, p) => Complete(additions'[u], deletions'[u], u \in snapshot', p)
             /\ In(u, patchId)' <=> In(u, patchId)
  BY <1>2, <1>3, <1>8 DEF Separates, AtRest, In
<1>9. ASSUME NEW u \in Triples, Passed(u)'
      PROVE  AtRest(u, patchId)' /\ (In(u, patchId)' <=> Wanted(u)')
  <2>1. CASE u = t
    BY <1>7, <2>1
  <2>2. CASE u # t /\ u \in todo
    <3>1. u \notin Remaining
      BY <1>3, <1>9, <2>2 DEF Passed, Pass
    <3>2. AtRest(u, patchId) /\ (In(u, patchId) <=> Wanted(u))
      BY <2>2, <3>1, NotRemaining
    <3>3. QED
      BY <1>3, <1>6, <1>8, <2>2, <3>2 DEF AtRest
  <2>3. CASE u # t /\ u \notin todo
    <3>1. AtRest(u, patchId) /\ (In(u, patchId) <=> Wanted(u))
      BY <2>3 DEF SInv, Passed
    <3>2. QED
      BY <1>3, <1>6, <1>8, <2>3, <3>1 DEF AtRest
  <2>4. QED
    BY <2>1, <2>2, <2>3
<1>10. ASSUME NEW u \in Triples, ~Passed(u)' PROVE AtRest(u, patchId - 1)'
  <2>1. u \in todo /\ u # t
    BY <1>3, <1>4, <1>10 DEF Passed
  <2>2. AtRest(u, patchId - 1)
    BY <2>1 DEF SInv, Passed
  <2>3. QED
    BY <1>3, <1>8, <2>1, <2>2 DEF AtRest
<1>11. /\ \A u \in patchAdds' : ~In(u, patchId - 1)'
       /\ \A u \in patchDels' : In(u, patchId - 1)'
  BY <1>3, <1>5 DEF SInv, IInv, TypeOK
<1>12. QED
  BY <1>9, <1>10, <1>11 DEF SInv

\* Once nothing remains, every triple has become what the delta wants.
LEMMA AllMerged ==
  ASSUME IInv, SInv, appending, Remaining = {}, NEW t \in Triples
  PROVE  AtRest(t, patchId) /\ (In(t, patchId) <=> Wanted(t))
<1>1. CASE t \in todo
  BY <1>1, NotRemaining
<1>2. CASE t \notin todo
  BY <1>2 DEF SInv, Passed
<1>3. QED
  BY <1>1, <1>2

\* The end of the merge.
LEMMA FinishSInv == ASSUME IInv, SInv, FinishAppend PROVE SInv'
<1>1. /\ appending /\ Remaining = {} /\ appending' = FALSE /\ patchId' = patchId + 1
      /\ snapshot' = snapshot /\ additions' = additions /\ deletions' = deletions
  BY NothingLeft DEF FinishAppend, trees
<1>2. \A t \in Triples : AtRest(t, patchId)
  BY <1>1, AllMerged
<1>3. patchId' - 1 = patchId
  BY <1>1, Ids
<1>4. \A t \in Triples : AtRest(t, patchId - 1)'
  BY <1>1, <1>2, <1>3 DEF AtRest
<1>5. QED
  BY <1>1, <1>4 DEF SInv, Passed

\* A new tree.
LEMMA InitSInv == Init => SInv
<1> SUFFICES ASSUME Init PROVE SInv
  OBVIOUS
<1>1. MinPatchId - 1 \in Nat
  BY ParametersAssumption
<1>2. /\ SettledValue(NoAddition, MinPatchId - 1) /\ SettledValue(NoDeletion, MinPatchId - 1)
      /\ NoAddition.patches = EmptyList /\ NoAddition.local = EmptyList
      /\ NoDeletion.patches = EmptyList /\ NoDeletion.local = EmptyList
      /\ DOMAIN EmptyList = {} /\ Solid(EmptyList)
  BY <1>1, NoValues, EmptyListFacts DEF PlainAt, DeletionAt, NoAddition, NoDeletion, Solid
<1>3. \A t \in Triples : additions[t] = NoAddition /\ deletions[t] = NoDeletion
  BY DEF Init
<1>4. \A t \in Triples : AtRest(t, patchId - 1)
  BY <1>2, <1>3 DEF Init, AtRest, Complete, FlagsMatch
<1>5. QED
  BY <1>4 DEF Init, SInv, Passed

-----------------------------------------------------------------------------
(* What readers see *)

(***************************************************************************)
(* With flags that follow the snapshot, a reader finds an addition of a    *)
(* triple that is not in it, and a deletion of one that is.                *)
(***************************************************************************)
LEMMA Seen ==
  ASSUME IInv, SInv, NEW t \in Triples, NEW id \in Nat
  PROVE  /\ Shows(additions[t], id) <=> t \notin snapshot /\ Holds(additions[t].patches, id)
         /\ Shows(deletions[t], id) <=> t \in snapshot /\ Holds(deletions[t].patches, id)
<1>1. FlagsMatch(additions[t], deletions[t], t \in snapshot)
  BY DEF SInv, AtRest, Complete
<1>2. /\ IsIn(additions[t].patches, id) <=> Holds(additions[t].patches, id)
      /\ IsIn(deletions[t].patches, id) <=> Holds(deletions[t].patches, id)
      /\ ~IsIn(EmptyList, id)
  BY Ids, IsInIsHolds, EmptyListFacts DEF IInv, SettledValue
<1>3. QED
  BY <1>1, <1>2 DEF FlagsMatch, Shows

(***************************************************************************)
(* The changes a reader takes from a published version.                    *)
(***************************************************************************)
LEMMA ReadersSee ==
  ASSUME IInv, SInv, NEW t \in Triples, NEW id \in Published
  PROVE  /\ IsAddition(t, id) <=> t \notin snapshot /\ Holds(additions[t].patches, id)
         /\ IsDeletion(t, id) <=> t \in snapshot /\ Holds(deletions[t].patches, id)
<1>1. /\ id \in Nat /\ id < patchId /\ id < MaxValue /\ Outer \in Nat /\ id < Outer
      /\ patchId \in Nat
  <2>1. id \in Nat /\ MinPatchId <= id /\ id < patchId /\ patchId \in Nat
    BY Ids DEF Published
  <2>2. patchId # MinPatchId
    BY <2>1, Ids
  <2>3. maxPatchId = patchId - 1
    BY <2>2 DEF IInv
  <2>4. QED
    BY <2>1, <2>3, Ids, MaxValueAssumption DEF Outer
<1>2. /\ Settled(additions[t].patches, patchId) /\ IsList(deletions[t].patches)
  BY DEF IInv, SettledValue, Settled
<1>3. /\ IsAddition(t, id) <=> Shows(additions[t], id)
      /\ IsDeletion(t, id) <=> Shows(deletions[t], id)
  BY <1>1, <1>2, AdditionSeen, DeletionSeen DEF IsAddition, IsDeletion
<1>4. QED
  BY <1>1, <1>3, Seen

\* A published version has the triples that In tells.
LEMMA VersionIs ==
  ASSUME IInv, SInv, NEW id \in MinPatchId - 1 .. patchId - 1
  PROVE  Version(id) = {t \in Triples : In(t, id)}
<1>1. id \in Nat /\ patchId \in Nat /\ MinPatchId \in Nat /\ snapshot \subseteq Triples
  BY Ids, ParametersAssumption DEF IInv, TypeOK
<1>2. CASE id < MinPatchId
  <2>1. \A t \in Triples : Solid(additions[t].patches) /\ Solid(deletions[t].patches)
    BY DEF SInv, AtRest, Complete
  <2>2. \A t \in Triples : ~Holds(additions[t].patches, id) /\ ~Holds(deletions[t].patches, id)
    <3>1. ASSUME NEW l, Solid(l), Settled(l, patchId) PROVE ~Holds(l, id)
      BY <1>1, <1>2, <3>1 DEF Solid, Holds, Settled, IsList
    <3>2. QED
      BY <2>1, <3>1 DEF IInv, SettledValue
  <2>3. QED
    BY <1>1, <1>2, <2>2 DEF Version, In
<1>3. CASE ~(id < MinPatchId)
  <2>1. id \in Published
    BY <1>1, <1>3 DEF Published
  <2>2. Version(id) = Materialized(id)
    BY <1>3 DEF Version
  <2>3. Materialized(id) = {t \in Triples : In(t, id)}
    BY <1>1, <2>1, ReadersSee DEF Materialized, In
  <2>4. QED
    BY <2>2, <2>3
<1>4. QED
  BY <1>2, <1>3

(***************************************************************************)
(* The version that a delta applies to.  Before the first append it is     *)
(* asked for by the id of the first patch, of which the trees hold nothing.*)
(***************************************************************************)
LEMMA LatestVersion ==
  ASSUME IInv, SInv, ~appending
  PROVE  Version(maxPatchId) = {t \in Triples : In(t, patchId - 1)}
<1>1. patchId \in Nat /\ MinPatchId \in Nat /\ MinPatchId <= patchId /\ 0 < MinPatchId
  BY ParametersAssumption DEF IInv, TypeOK
<1>2. CASE patchId # MinPatchId
  <2>1. maxPatchId = patchId - 1
    BY <1>2 DEF IInv
  <2>2. patchId - 1 \in MinPatchId - 1 .. patchId - 1
    BY <1>1
  <2>3. QED
    BY <2>1, <2>2, VersionIs
<1>3. CASE patchId = MinPatchId
  <2>1. maxPatchId = MinPatchId
    BY <1>3 DEF IInv
  <2>2. ASSUME NEW l, Solid(l), Settled(l, patchId - 1) PROVE DOMAIN l = {}
    BY <1>1, <1>3, <2>2 DEF Solid, Settled, IsList
  <2>3. \A t \in Triples : DOMAIN additions[t].patches = {} /\ DOMAIN deletions[t].patches = {}
    BY <2>2 DEF SInv, Passed, AtRest, Complete, SettledValue
  <2>4. \A t \in Triples : ~IsAddition(t, MinPatchId) /\ ~IsDeletion(t, MinPatchId)
    BY <1>1, <2>3, EmptyListFacts DEF IsAddition, IsPatchId, IsDeletion, Spans
  <2>5. \A t \in Triples : In(t, patchId - 1) <=> t \in snapshot
    BY <2>3 DEF In, Holds
  <2>6. Version(maxPatchId) = Materialized(MinPatchId) /\ snapshot \subseteq Triples
    BY <1>1, <2>1 DEF Version, IInv, TypeOK
  <2>7. QED
    BY <2>4, <2>5, <2>6 DEF Materialized
<1>4. QED
  BY <1>2, <1>3

\* An append begins.
LEMMA BeginSInv == ASSUME ValidDeltasOnly, IInv, SInv, BeginAppend PROVE SInv'
<1>1. /\ ~appending /\ appending' /\ patchId' = patchId
      /\ snapshot' = snapshot /\ additions' = additions /\ deletions' = deletions
  BY DEF BeginAppend, trees
<1>2. /\ patchAdds' \subseteq Triples /\ patchDels' \subseteq Triples
      /\ patchAdds' \cap Version(maxPatchId) = {} /\ patchDels' \subseteq Version(maxPatchId)
  BY DEF BeginAppend
<1>3. /\ \A t \in patchAdds' : ~In(t, patchId - 1)
      /\ \A t \in patchDels' : In(t, patchId - 1)
  BY <1>1, <1>2, LatestVersion
<1>4. \A t : \A p : (In(t, p)' <=> In(t, p)) /\ (AtRest(t, p)' <=> AtRest(t, p))
  BY <1>1 DEF In, AtRest
<1>5. \A t \in Triples : AtRest(t, patchId - 1)
  BY <1>1 DEF SInv, Passed
<1>6. ASSUME NEW t \in Triples, Passed(t)'
      PROVE  AtRest(t, patchId) /\ (In(t, patchId) <=> Wanted(t)')
  <2>1. ~InPatch(t)' /\ ~InDeletions(t) /\ ~InAdditions(t)
    BY <1>6, BeginAppendIInv, BeginLeaves DEF Passed
  <2>2. /\ AtRest(t, patchId)
        /\ (In(t, patchId) <=> t \in snapshot) /\ (In(t, patchId - 1) <=> t \in snapshot)
    BY <1>5, <2>1, NeverTouched
  <2>3. QED
    BY <1>1, <1>4, <2>1, <2>2 DEF Wanted, InPatch
<1>7. QED
  BY <1>1, <1>3, <1>4, <1>5, <1>6 DEF SInv

\* Every step keeps the invariant.
LEMMA NextSInv ==
  ASSUME ValidDeltasOnly
  PROVE  IInv /\ SInv /\ [Next]_vars => SInv'
<1> SUFFICES ASSUME IInv, SInv, [Next]_vars PROVE SInv'
  OBVIOUS
<1>1. CASE BeginAppend
  BY <1>1, BeginSInv
<1>2. CASE appending /\ MergeStep
  BY <1>2, MergeSInv
<1>3. CASE FinishAppend
  BY <1>3, FinishSInv
<1>4. CASE UNCHANGED vars
  BY <1>4 DEF vars, trees, merge, cursors, SInv, AtRest, In, Passed, Wanted, todo
<1>5. QED
  BY <1>1, <1>2, <1>3, <1>4 DEF Next, Quiet

(***************************************************************************)
(* With valid deltas the values of a triple are complete whenever the      *)
(* merge is not at it.                                                     *)
(***************************************************************************)
THEOREM AlwaysComplete ==
  ASSUME ValidDeltasOnly
  PROVE  Spec => []SInv
<1>1. Init => SInv
  BY InitSInv
<1>2. IInv /\ SInv /\ [Next]_vars => SInv'
  BY NextSInv
<1>3. QED
  BY <1>1, <1>2, Inductive, PTL DEF Spec

(***************************************************************************)
(* The local change flags are exact (patch_tree.cc append_unsafe): a       *)
(* reader of a published version adds nothing that the snapshot has and    *)
(* deletes nothing that it has not (SnapshotPatchIteratorTripleID).        *)
(***************************************************************************)
THEOREM FlagsAreExact ==
  ASSUME ValidDeltasOnly
  PROVE  Spec => []ChangesRelateToSnapshot
<1>1. IInv /\ SInv => ChangesRelateToSnapshot
  BY ReadersSee DEF ChangesRelateToSnapshot
<1>2. QED
  BY <1>1, Inductive, AlwaysComplete, PTL

-----------------------------------------------------------------------------
(* The refinement *)

\* The sequence of published versions, and its place for the version of an id.
VersionList == [i \in 1 .. patchId - MinPatchId + 1 |-> Version(MinPatchId + i - 2)]

VersionsInOrder ==
  /\ VersionList \in Seq(SUBSET Triples) /\ Len(VersionList) = patchId - MinPatchId + 1
  /\ patchId - MinPatchId + 1 \in Nat \ {0}
  /\ \A i \in 1 .. patchId - MinPatchId + 1 :
       /\ VersionList[i] = Version(MinPatchId + i - 2)
       /\ MinPatchId + i - 2 \in MinPatchId - 1 .. patchId - 1
  /\ VersionList[Len(VersionList)] = {t \in Triples : In(t, patchId - 1)}

\* The versions are a sequence of what a reader gets for their ids.
LEMMA VersionsSeq == IInv /\ SInv => VersionsInOrder
<1> SUFFICES ASSUME IInv, SInv PROVE VersionsInOrder
  OBVIOUS
<1> DEFINE n == patchId - MinPatchId + 1
<1>1. patchId \in Nat /\ MinPatchId \in Nat \ {0} /\ MinPatchId <= patchId
  BY ParametersAssumption DEF IInv, TypeOK
<1>2. n \in Nat \ {0}
  BY <1>1
<1>3. \A i \in 1 .. n : /\ VersionList[i] = Version(MinPatchId + i - 2)
                        /\ MinPatchId + i - 2 \in MinPatchId - 1 .. patchId - 1
  BY <1>1 DEF VersionList
<1>4. \A i \in 1 .. n : VersionList[i] \in SUBSET Triples
  BY <1>3, VersionIs
<1>5. VersionList \in [1 .. n -> SUBSET Triples]
  BY <1>4 DEF VersionList
<1> HIDE DEF n
<1>6. VersionList \in Seq(SUBSET Triples)
  BY <1>2, <1>5, SeqDef
<1>7. Len(VersionList) = n
  <2>1. /\ Len(VersionList) \in Nat /\ DOMAIN VersionList = 1 .. Len(VersionList)
        /\ DOMAIN VersionList = 1 .. n
    BY <1>5, <1>6, LenProperties
  <2>2. n \in 1 .. Len(VersionList)
    BY <1>2, <2>1
  <2>3. Len(VersionList) \in 1 .. n
    BY <2>1, <2>2
  <2>4. Len(VersionList) \in Nat /\ n <= Len(VersionList) /\ Len(VersionList) <= n
    BY <1>2, <2>1, <2>2, <2>3
  <2>5. QED
    BY <1>2, <2>4
<1>8. VersionList[n] = {t \in Triples : In(t, patchId - 1)}
  <2>1. n \in 1 .. n /\ MinPatchId + n - 2 = patchId - 1
    BY <1>1, <1>2 DEF n
  <2>2. QED
    BY <1>3, <2>1, VersionIs
<1>9. QED
  BY <1>2, <1>3, <1>6, <1>7, <1>8 DEF n, VersionsInOrder

(***************************************************************************)
(* Every step of the tree is a step of the store: the beginning of an      *)
(* append takes a valid delta, its end publishes what the delta made of    *)
(* the latest version, and no other step shows.                            *)
(***************************************************************************)
LEMMA BeginRefines ==
  ASSUME ValidDeltasOnly, IInv, SInv, IInv', SInv', BeginAppend
  PROVE  Store!Begin
<1>1. /\ ~appending /\ appending' = TRUE /\ patchId' = patchId
      /\ snapshot' = snapshot /\ additions' = additions /\ deletions' = deletions
      /\ patchAdds' \subseteq Triples /\ patchDels' \subseteq Triples
  BY DEF BeginAppend, trees
<1>2. /\ \A t \in patchAdds' : ~In(t, patchId - 1)'
      /\ \A t \in patchDels' : In(t, patchId - 1)'
  BY <1>1 DEF SInv
<1>3. \A t : In(t, patchId - 1)' <=> In(t, patchId - 1)
  BY <1>1 DEF In
<1>4. VersionList[Len(VersionList)] = {t \in Triples : In(t, patchId - 1)}
  BY VersionsSeq DEF VersionsInOrder
<1>5. VersionList' = VersionList
  <2>1. \A id \in MinPatchId - 1 .. patchId - 1 : Version(id)' = Version(id)
    BY PublishedStep DEF Next
  <2>2. \A i \in 1 .. patchId - MinPatchId + 1 :
          MinPatchId + i - 2 \in MinPatchId - 1 .. patchId - 1
    BY VersionsSeq DEF VersionsInOrder
  <2>3. QED
    BY <1>1, <2>1, <2>2 DEF VersionList
<1>6. QED
  BY <1>1, <1>2, <1>3, <1>4, <1>5 DEF Store!Begin, Store!Latest, VersionList

\* The end of an append.
LEMMA FinishRefines ==
  ASSUME ValidDeltasOnly, IInv, SInv, IInv', SInv', FinishAppend
  PROVE  Store!Publish
<1> DEFINE n == patchId - MinPatchId + 1
           made == {t \in Triples : In(t, patchId)}
<1>1. /\ appending /\ appending' = FALSE /\ patchId' = patchId + 1 /\ Remaining = {}
      /\ snapshot' = snapshot /\ additions' = additions /\ deletions' = deletions
      /\ patchAdds' = {} /\ patchDels' = {}
  BY NothingLeft DEF FinishAppend, trees
<1>2. patchAdds \subseteq Triples /\ patchId \in Nat /\ MinPatchId \in Nat
  BY Ids DEF IInv, TypeOK
<1>3. /\ VersionList \in Seq(SUBSET Triples) /\ Len(VersionList) = n /\ n \in Nat
      /\ VersionList[Len(VersionList)] = {t \in Triples : In(t, patchId - 1)}
  BY VersionsSeq DEF VersionsInOrder
<1>4. made = (VersionList[Len(VersionList)] \ patchDels) \cup patchAdds
  <2>1. \A t \in Triples : In(t, patchId) <=> Wanted(t)
    BY <1>1, AllMerged
  <2>2. \A t \in patchAdds : t \notin patchDels
    BY DEF IInv, TypeOK
  <2>3. QED
    BY <1>2, <1>3, <2>1, <2>2 DEF Wanted
<1>5. VersionList' = Append(VersionList, made)
  <2>1. /\ VersionList' \in Seq(SUBSET Triples) /\ Len(VersionList)' = n + 1
        /\ VersionList'[n + 1] = made
    <3>1. VersionsInOrder'
      BY VersionsSeq, PTL
    <3>2. patchId' - 1 = patchId /\ patchId' - MinPatchId + 1 = n + 1
      BY <1>1, <1>2
    <3>3. \A t : In(t, patchId - 1)' <=> In(t, patchId)
      BY <1>1, <3>2 DEF In
    <3>4. QED
      BY <3>1, <3>2, <3>3 DEF VersionsInOrder
  <2>2. \A i \in 1 .. n : VersionList'[i] = VersionList[i]
    <3>1. \A i \in 1 .. n : /\ VersionList[i] = Version(MinPatchId + i - 2)
                            /\ MinPatchId + i - 2 \in MinPatchId - 1 .. patchId - 1
      BY VersionsSeq DEF VersionsInOrder
    <3>2. \A i \in 1 .. n + 1 : VersionList'[i] = Version(MinPatchId + i - 2)'
      BY <1>1, <1>2 DEF VersionList
    <3>3. \A id \in MinPatchId - 1 .. patchId - 1 : Version(id)' = Version(id)
      BY PublishedStep DEF Next
    <3>4. QED
      BY <1>3, <3>1, <3>2, <3>3
  <2>3. /\ Append(VersionList, made) \in Seq(SUBSET Triples)
        /\ Len(Append(VersionList, made)) = n + 1
        /\ \A i \in 1 .. n : Append(VersionList, made)[i] = VersionList[i]
        /\ Append(VersionList, made)[n + 1] = made
    BY <1>3, AppendProperties
  <2>4. QED
    BY <1>3, <2>1, <2>2, <2>3, SeqEqual
<1> HIDE DEF n, made
<1>6. QED
  BY <1>1, <1>4, <1>5 DEF Store!Publish, Store!Latest, VersionList

\* A new tree is a new store.
LEMMA InitRefines == ASSUME Init PROVE Store!Init
<1>1. IInv /\ SInv
  BY InitIInv, InitSInv
<1>2. /\ VersionList \in Seq(SUBSET Triples) /\ Len(VersionList) = 1
      /\ VersionList[1] = snapshot
  <2>1. patchId = MinPatchId /\ MinPatchId \in Nat
    BY ParametersAssumption DEF Init
  <2>2. VersionsInOrder
    BY <1>1, VersionsSeq
  <2>3. patchId - MinPatchId + 1 = 1 /\ MinPatchId + 1 - 2 < MinPatchId
    BY <2>1
  <2>4. QED
    BY <2>2, <2>3 DEF VersionsInOrder, Version
<1>3. VersionList = <<snapshot>>
  <2>1. snapshot \in SUBSET Triples
    BY DEF Init
  <2>2. <<snapshot>> \in Seq(SUBSET Triples) /\ Len(<<snapshot>>) = 1 /\ <<snapshot>>[1] = snapshot
    BY <2>1
  <2>3. QED
    BY <1>2, <2>2, SeqEqual
<1>4. QED
  BY <1>3 DEF Init, Store!Init, VersionList

(***************************************************************************)
(* With valid deltas a delta chain is a versioned store (patch_tree.cc     *)
(* append_unsafe, controller.cc get_version_materialized): version 1 is    *)
(* the snapshot, and a merge, however its branches interleave with         *)
(* readers, publishes by its last step, and only by that, the previous     *)
(* version with the delta applied.                                         *)
(***************************************************************************)
THEOREM TreeImplementsStore ==
  ASSUME ValidDeltasOnly
  PROVE  Spec => ImplementsStore
<1>1. Init => Store!Init
  BY InitRefines
<1>2. IInv /\ SInv /\ IInv' /\ SInv' /\ [Next]_vars => [Store!Next]_(Store!vars)
  <2> SUFFICES ASSUME IInv, SInv, IInv', SInv', [Next]_vars PROVE [Store!Next]_(Store!vars)
    OBVIOUS
  <2>1. CASE BeginAppend
    BY <2>1, BeginRefines DEF Store!Next
  <2>2. CASE FinishAppend
    BY <2>2, FinishRefines DEF Store!Next
  <2>3. CASE (appending /\ MergeStep) \/ UNCHANGED vars
    <3>1. UNCHANGED <<appending, patchId, patchAdds, patchDels>>
      <4>1. CASE UNCHANGED vars
        BY <4>1 DEF vars, merge, cursors
      <4>2. CASE appending /\ MergeStep
        BY <4>2, EveryBranch DEF Branch, Pass
      <4>3. QED
        BY <2>3, <4>1, <4>2
    <3>2. VersionList' = VersionList
      <4>1. \A id \in MinPatchId - 1 .. patchId - 1 : Version(id)' = Version(id)
        BY PublishedStep
      <4>2. \A i \in 1 .. patchId - MinPatchId + 1 :
              MinPatchId + i - 2 \in MinPatchId - 1 .. patchId - 1
        BY VersionsSeq DEF VersionsInOrder
      <4>3. QED
        BY <3>1, <4>1, <4>2 DEF VersionList
    <3>3. QED
      BY <3>1, <3>2 DEF Store!vars, VersionList
  <2>4. QED
    BY <2>1, <2>2, <2>3 DEF Next, Quiet
<1>3. QED
  BY <1>1, <1>2, Inductive, AlwaysComplete, PTL DEF Spec, ImplementsStore, Store!Spec

-----------------------------------------------------------------------------
(* Addition counts *)

(***************************************************************************)
(* The inductive invariant of the counters, with SInv: while a patch is    *)
(* merged, the temporary count of its id and of a pattern is the number of *)
(* triples the merge has passed that match the pattern and are additions   *)
(* of the coming version; a stored count of a published id is exact; and   *)
(* no other id but 0 is counted.                                           *)
(***************************************************************************)
Copies(key, bag) == IF key \in DOMAIN bag THEN bag[key] ELSE 0

PatternsOf(k) == {Pattern(k, t) : t \in Triples}

\* The delta makes the triple an addition to the snapshot.
Joins(t) == t \notin snapshot /\ Wanted(t)

Joined(k, p) == {t \in Matching(Triples, k, p) : Passed(t) /\ Joins(t)}

AdditionsOf(k, p, id) ==
  {t \in Matching(Triples, k, p) : t \notin snapshot /\ Holds(additions[t].patches, id)}

CountInv ==
  /\ \A key \in DOMAIN tempCounts : appending /\ key[1] \in {0, patchId}
  /\ \A key \in DOMAIN counts : key[1] \in 0 .. patchId - 1
  /\ \A k \in Kinds : \A p \in PatternsOf(k) :
       /\ appending => Copies(<<patchId, p>>, tempCounts) = Cardinality(Joined(k, p))
       /\ \A id \in Published :
            <<id, p>> \in DOMAIN counts => counts[<<id, p>>] = Cardinality(AdditionsOf(k, p, id))

\* Patterns of different kinds differ: they have their variables in other places.
LEMMA KindOfPattern ==
  ASSUME NEW k \in Kinds, NEW j \in Kinds, NEW t \in Triples, NEW u \in Triples,
         Pattern(k, t) = Pattern(j, u)
  PROVE  k = j
<1>1. \A v \in Triples : /\ Component(Subject, v) # 0 /\ Component(Predicate, v) # 0
                         /\ Component(Object, v) # 0
  BY TriplesAssumption, ComponentsAssumption DEF Component
<1>2. \A i \in Kinds : \A v \in Triples :
        /\ Pattern(i, v)[1] # 0 <=> i \in {"sp_", "s_o", "s__"}
        /\ Pattern(i, v)[2] # 0 <=> i \in {"sp_", "_po", "_p_"}
        /\ Pattern(i, v)[3] # 0 <=> i \in {"s_o", "_po", "__o"}
  BY <1>1, KindsAssumption DEF Pattern, PatternOf
<1>3. /\ k \in {"sp_", "s_o", "s__"} <=> j \in {"sp_", "s_o", "s__"}
      /\ k \in {"sp_", "_po", "_p_"} <=> j \in {"sp_", "_po", "_p_"}
      /\ k \in {"s_o", "_po", "__o"} <=> j \in {"s_o", "_po", "__o"}
  BY <1>2
<1>4. k \in AllKinds /\ j \in AllKinds
  BY KindsAssumption
<1>5. QED
  BY <1>3, <1>4 DEF AllKinds

KeysOf(id, t) == {<<id, Pattern(k, t)>> : k \in Kinds}

\* The bag after has one more of each of the triple's keys than before, if c.
OneMore(before, after, c, id, t) ==
  /\ \A key : Copies(key, after)
                = Copies(key, before) + (IF c /\ key \in KeysOf(id, t) THEN 1 ELSE 0)
  /\ DOMAIN after = DOMAIN before \cup (IF c THEN KeysOf(id, t) ELSE {})

(***************************************************************************)
(* What counting a triple does to a bag of counts.                         *)
(***************************************************************************)
LEMMA CountedOnce ==
  ASSUME NEW before, IsABag(before), NEW c \in BOOLEAN, NEW id, NEW t
  PROVE  /\ IsABag(before (+) CountedIf(c, id, t))
         /\ OneMore(before, before (+) CountedIf(c, id, t), c, id, t)
<1> DEFINE added == CountedIf(c, id, t)
<1>1. added = [key \in IF c THEN KeysOf(id, t) ELSE {} |-> 1]
  BY DEF CountedIf, Counted, KeysOf, SetToBag, EmptyBag
<1>2. PICK after : after = before (+) added
  OBVIOUS
<1>3. IsABag(after)
  BY <1>2, BagFacts, CountedFacts
<1> HIDE DEF added
<1>4. after = [key \in (DOMAIN before) \cup (DOMAIN added) |->
                 (IF key \in DOMAIN before THEN before[key] ELSE 0)
                   + (IF key \in DOMAIN added THEN added[key] ELSE 0)]
  BY <1>2 DEF (+)
<1>5. \A key \in DOMAIN before : before[key] \in Nat
  BY DEF IsABag
<1>6. DOMAIN after = DOMAIN before \cup (IF c THEN KeysOf(id, t) ELSE {})
  BY <1>1, <1>4
<1>7. \A key : Copies(key, after)
                 = Copies(key, before) + (IF c /\ key \in KeysOf(id, t) THEN 1 ELSE 0)
  BY <1>1, <1>4, <1>5 DEF Copies
<1>8. QED
  BY <1>2, <1>3, <1>6, <1>7 DEF added, OneMore

(***************************************************************************)
(* A branch counts its triple for the patch id when it is an addition of   *)
(* the coming version, and for nothing else but id 0.                      *)
(***************************************************************************)
CountsOnce(t) ==
  /\ \A p : Copies(<<patchId, p>>, tempCounts')
              = Copies(<<patchId, p>>, tempCounts)
                  + (IF Joins(t) /\ \E k \in Kinds : p = Pattern(k, t) THEN 1 ELSE 0)
  /\ \A key \in DOMAIN tempCounts' : key \in DOMAIN tempCounts \/ key[1] \in {0, patchId}

\* In either order.
LEMMA Contribution ==
  ASSUME IInv, NEW t \in Triples, NEW c \in BOOLEAN, NEW c0 \in BOOLEAN, c <=> Joins(t),
         \/ tempCounts' = (tempCounts (+) CountedIf(c, patchId, t)) (+) CountedIf(c0, 0, t)
         \/ tempCounts' = (tempCounts (+) CountedIf(c0, 0, t)) (+) CountedIf(c, patchId, t)
  PROVE  CountsOnce(t)
<1>1. IsABag(tempCounts) /\ patchId # 0
  BY ParametersAssumption DEF IInv, TypeOK
<1>2. /\ \A p : <<patchId, p>> \notin KeysOf(0, t)
      /\ \A p : <<patchId, p>> \in KeysOf(patchId, t) <=> \E k \in Kinds : p = Pattern(k, t)
      /\ \A key \in KeysOf(0, t) : key[1] = 0
      /\ \A key \in KeysOf(patchId, t) : key[1] = patchId
  BY <1>1 DEF KeysOf
<1>3. \A key : Copies(key, tempCounts) \in Nat
  BY <1>1 DEF IsABag, Copies
<1>4. CASE tempCounts' = (tempCounts (+) CountedIf(c, patchId, t)) (+) CountedIf(c0, 0, t)
  <2>1. PICK between : between = tempCounts (+) CountedIf(c, patchId, t)
    OBVIOUS
  <2>2. IsABag(between) /\ OneMore(tempCounts, between, c, patchId, t)
    BY <1>1, <2>1, CountedOnce
  <2>3. tempCounts' = between (+) CountedIf(c0, 0, t)
    BY <1>4, <2>1
  <2>4. OneMore(between, tempCounts', c0, 0, t)
    BY <2>2, <2>3, CountedOnce
  <2>5. QED
    BY <1>2, <1>3, <2>2, <2>4 DEF CountsOnce, OneMore
<1>5. CASE tempCounts' = (tempCounts (+) CountedIf(c0, 0, t)) (+) CountedIf(c, patchId, t)
  <2>1. PICK between : between = tempCounts (+) CountedIf(c0, 0, t)
    OBVIOUS
  <2>2. IsABag(between) /\ OneMore(tempCounts, between, c0, 0, t)
    BY <1>1, <2>1, CountedOnce
  <2>3. tempCounts' = between (+) CountedIf(c, patchId, t)
    BY <1>5, <2>1
  <2>4. OneMore(between, tempCounts', c, patchId, t)
    BY <2>2, <2>3, CountedOnce
  <2>5. QED
    BY <1>2, <1>3, <2>2, <2>4 DEF CountsOnce, OneMore
<1>6. QED
  BY <1>4, <1>5

\* A branch that leaves the counts alone worked on no addition.
LEMMA NoContribution ==
  ASSUME IInv, NEW t, ~Joins(t), tempCounts' = tempCounts
  PROVE  CountsOnce(t)
<1>1. IsABag(tempCounts)
  BY DEF IInv, TypeOK
<1>2. \A key : Copies(key, tempCounts) \in Nat
  BY <1>1 DEF IsABag, Copies
<1>3. QED
  BY <1>2 DEF CountsOnce

(***************************************************************************)
(* Every branch counts its triple as it should.                            *)
(***************************************************************************)
LEMMA BranchCounts ==
  ASSUME IInv, SInv, appending, NEW t \in todo, Merges(t)
  PROVE  CountsOnce(t)
<1>1. Known(t) /\ t \in Triples /\ IsPlainValue(additions[t]) /\ patchAdds \cap patchDels = {}
  BY KnownBefore, Facts DEF IInv, TypeOK
<1>2. ASSUME NEW v, NEW outer, NEW c \in BOOLEAN, CountAddition(t, v, outer, c),
             c /\ ~IsLocalAddition(v, patchId) <=> Joins(t)
      PROVE  CountsOnce(t)
  <2>1. PICK counted, first : /\ counted = (c /\ ~IsLocalAddition(v, patchId))
                              /\ first = (~IsLocalAddition(v, FirstPatchId(v, outer)))
    OBVIOUS
  <2>2. counted \in BOOLEAN /\ first \in BOOLEAN
    BY <2>1
  <2>3. tempCounts' = (tempCounts (+) CountedIf(counted, patchId, t)) (+) CountedIf(first, 0, t)
    BY <1>2, <2>1, Zenon DEF CountAddition
  <2>4. counted <=> Joins(t)
    BY <1>2, <2>1
  <2>5. QED
    BY <1>1, <2>2, <2>3, <2>4, Contribution
<1>3. CASE \/ CarryDeletionAt(t) \/ InsertDeletionAt(t) \/ ReturnDeletedAt(t)
  <2>1. tempCounts' = tempCounts
    BY <1>3
    DEF CarryDeletionAt, CarryDeletion, InsertDeletionAt, InsertDeletion, ReturnDeletedAt,
        ReturnDeleted, Takes
  <2>2. ~Joins(t)
    BY <1>1, <1>3
    DEF Known, Joins, Wanted, InPatch, CarryDeletionAt, CarryDeletion, InsertDeletionAt,
        InsertDeletion, ReturnDeletedAt, ReturnDeleted, Takes
  <2>3. QED
    BY <2>1, <2>2, NoContribution
<1>4. CASE DeleteAgainAt(t) \/ AddAgainAt(t)
  BY <1>1, <1>4 DEF Known, DeleteAgainAt, DeleteAgain, AddAgainAt, AddAgain, Takes
<1>5. CASE CarryAdditionAt(t)
  <2>1. /\ ~InPatch(t) /\ ~InDeletions(t) /\ InAdditions(t)
        /\ \E v \in {AddPatch(additions[t], patchId), additions[t]} : \E outer :
             CountAddition(t, v, outer, TRUE)
    BY <1>5 DEF CarryAdditionAt, CarryAddition, Takes
  <2>2. Joins(t) /\ additions[t].local = EmptyList
    BY <1>1, <2>1 DEF Known, Joins, Wanted, InPatch, FlagsMatch
  <2>3. \A v \in {AddPatch(additions[t], patchId), additions[t]} : v.local = EmptyList
    BY <1>1, <2>2, AdditionFields
  <2>4. \A v \in {AddPatch(additions[t], patchId), additions[t]} : ~IsLocalAddition(v, patchId)
    BY <2>3, EmptyListFacts, Facts DEF IsLocalAddition
  <2>5. QED
    BY <1>2, <2>1, <2>2, <2>4
<1>6. CASE InsertAdditionAt(t)
  <2>1. /\ t \in patchAdds /\ ~InDeletions(t) /\ ~InAdditions(t)
        /\ tempCounts' = (tempCounts (+) Counted(patchId, t)) (+) Counted(0, t)
    BY <1>6 DEF InsertAdditionAt, InsertAddition, Takes
  <2>2. Joins(t)
    BY <1>1, <2>1 DEF Known, Joins, Wanted
  <2>3. tempCounts' = (tempCounts (+) CountedIf(TRUE, patchId, t)) (+) CountedIf(TRUE, 0, t)
    BY <2>1 DEF CountedIf
  <2>4. QED
    BY <1>1, <2>2, <2>3, Contribution
<1>7. CASE DeleteAddedAt(t)
  <2>1. t \in patchDels /\ \E v, outer : CountAddition(t, v, outer, FALSE)
    BY <1>7 DEF DeleteAddedAt, DeleteAdded, Takes
  <2>2. ~Joins(t)
    BY <1>1, <2>1 DEF Joins, Wanted
  <2>3. QED
    BY <1>2, <2>1, <2>2
<1>8. CASE CarryBothAt(t) \/ InvertBothAt(t)
  <2>1. PICK invert \in BOOLEAN : (invert <=> InPatch(t)) /\ \E q : SettleAt(t, invert, q)
    BY <1>8 DEF CarryBothAt, SettleAt, InvertBothAt, Takes
  <2>2. PICK c, c0 : /\ c = ((LastAddition(t) > LastDeletion(t)) # invert
                              /\ ~(WasLocal(t) # invert))
                     /\ c0 = (~IsLocalAddition(additions[t],
                                               FirstPatchId(additions[t], patchId + 1)))
    OBVIOUS
  <2>3. c \in BOOLEAN /\ c0 \in BOOLEAN
    BY <2>2
  <2>4. tempCounts' = (tempCounts (+) CountedIf(c0, 0, t)) (+) CountedIf(c, patchId, t)
    BY <2>1, <2>2, Zenon DEF SettleAt, Settle, Takes
  <2>5. InDeletions(t) /\ InAdditions(t)
    BY <2>1 DEF SettleAt, Settle, Takes
  <2>6. /\ (LastAddition(t) > LastDeletion(t)) # invert <=> Wanted(t)
        /\ WasLocal(t) # invert <=> (Wanted(t) <=> t \in snapshot)
    BY <2>1, <2>5, SettleChoices
  <2>7. c <=> Joins(t)
    BY <2>2, <2>6 DEF Joins
  <2>8. QED
    BY <1>1, <2>3, <2>4, <2>7, Contribution
<1>9. QED
  BY <1>3, <1>4, <1>5, <1>6, <1>7, <1>8 DEF Merges

\* A triple that the merge skips does not join.
LEMMA SkippedJoins ==
  ASSUME IInv, SInv, appending, NEW u \in todo, u \notin Remaining
  PROVE  ~Joins(u)
<1>1. ~InPatch(u) /\ ~InDeletions(u) /\ ~InAdditions(u) /\ Known(u)
  BY KnownBefore DEF Remaining
<1>2. QED
  BY <1>1 DEF Known, Joins, Wanted, InPatch

(***************************************************************************)
(* The joined triples after a branch: its own one with them if it joins.   *)
(***************************************************************************)
LEMMA JoinedAfter ==
  ASSUME IInv, SInv, appending, NEW t \in todo, Merges(t), NEW k \in Kinds, NEW p
  PROVE  /\ Joined(k, p)' = Joined(k, p) \cup {u \in {t} : Joins(u) /\ Pattern(k, u) = p}
         /\ t \notin Joined(k, p) /\ IsFiniteSet(Joined(k, p))
<1>1. Branch(t) /\ IsNext(t) /\ t \in Triples
  BY MergeFacts, Facts
<1>2. /\ appending' = appending /\ snapshot' = snapshot
      /\ todo' \subseteq {u \in todo : u > t}
      /\ \A u \in todo : u # t /\ u \notin todo' => u \notin Remaining
  BY <1>1 DEF Branch, Pass
<1>3. \A u \in Triples : Joins(u)' <=> Joins(u)
  BY <1>1, <1>2, LatestKept DEF Joins
<1>4. ASSUME NEW u \in Triples
      PROVE  Passed(u)' /\ Joins(u) <=> (Passed(u) \/ u = t) /\ Joins(u)
  <2>1. CASE u \in todo /\ u \notin todo' /\ u # t
    <3>1. ~Joins(u)
      BY <1>2, <2>1, SkippedJoins
    <3>2. QED
      BY <3>1
  <2>2. CASE ~(u \in todo /\ u \notin todo' /\ u # t)
    BY <1>1, <1>2, <2>2, TriplesAssumption DEF Passed
  <2>3. QED
    BY <2>1, <2>2
<1>5. Joined(k, p)' = Joined(k, p) \cup {u \in {t} : Joins(u) /\ Pattern(k, u) = p}
  BY <1>1, <1>3, <1>4 DEF Joined, Matching
<1>6. t \notin Joined(k, p)
  BY DEF Joined, Passed
<1>7. IsFiniteSet(Joined(k, p))
  <2>1. Joined(k, p) \in SUBSET Triples
    BY DEF Joined, Matching
  <2>2. QED
    BY <2>1, TriplesAssumption, FS_Subset
<1>8. QED
  BY <1>5, <1>6, <1>7

(***************************************************************************)
(* A branch keeps the counters right.                                      *)
(***************************************************************************)
LEMMA MergeCounts == ASSUME IInv, SInv, CountInv, appending, MergeStep PROVE CountInv'
<1>1. PICK t \in todo : Merges(t)
  BY StepsMerge
<1>2. Branch(t) /\ CountsOnce(t) /\ t \in Triples
  BY <1>1, MergeFacts, BranchCounts, Facts
<1>3. UNCHANGED <<snapshot, counts, appending, patchId>>
  BY <1>2 DEF Branch, Pass
<1>4. \A key \in DOMAIN tempCounts' : appending' /\ key[1] \in {0, patchId'}
  BY <1>2, <1>3 DEF CountsOnce, CountInv
<1>5. \A key \in DOMAIN counts' : key[1] \in 0 .. patchId' - 1
  BY <1>3 DEF CountInv
<1>6. ASSUME NEW k \in Kinds, NEW p \in PatternsOf(k)
      PROVE  Copies(<<patchId, p>>, tempCounts') = Cardinality(Joined(k, p)')
  <2>1. /\ Copies(<<patchId, p>>, tempCounts) = Cardinality(Joined(k, p))
        /\ Copies(<<patchId, p>>, tempCounts')
             = Copies(<<patchId, p>>, tempCounts)
                 + (IF Joins(t) /\ \E j \in Kinds : p = Pattern(j, t) THEN 1 ELSE 0)
    BY <1>2, <1>6 DEF CountInv, CountsOnce
  <2>2. (\E j \in Kinds : p = Pattern(j, t)) <=> Pattern(k, t) = p
    BY <1>2, <1>6, KindOfPattern DEF PatternsOf
  <2>3. PICK joined : joined = Joined(k, p)
    OBVIOUS
  <2>4. /\ Joined(k, p)' = joined \cup {u \in {t} : Joins(u) /\ Pattern(k, u) = p}
        /\ t \notin joined /\ IsFiniteSet(joined)
    BY <1>1, <1>6, <2>3, JoinedAfter
  <2>5. Cardinality(joined) \in Nat
    BY <2>4, FS_CardinalityType
  <2>6. CASE Joins(t) /\ Pattern(k, t) = p
    <3>1. Joined(k, p)' = joined \cup {t}
      BY <2>4, <2>6
    <3>2. Cardinality(Joined(k, p)') = Cardinality(joined) + 1
      BY <2>4, <3>1, FS_AddElement
    <3>3. QED
      BY <2>1, <2>2, <2>3, <2>6, <3>2
  <2>7. CASE ~(Joins(t) /\ Pattern(k, t) = p)
    <3>1. Joined(k, p)' = joined
      BY <2>4, <2>7
    <3>2. QED
      BY <2>1, <2>2, <2>3, <2>5, <2>7, <3>1
  <2>8. QED
    BY <2>6, <2>7
<1>7. ASSUME NEW k \in Kinds, NEW p, NEW id \in Published
      PROVE  AdditionsOf(k, p, id)' = AdditionsOf(k, p, id)
  <2>1. id \in Nat /\ id < patchId
    BY <1>7, Ids DEF Published
  <2>2. \A u \in Triples :
          Holds(additions'[u].patches, id) <=> Holds(additions[u].patches, id)
    BY <1>2, <2>1 DEF Branch, AdditionsMerged, Keeps
  <2>3. QED
    BY <1>3, <2>2 DEF AdditionsOf, Matching
<1>8. QED
  BY <1>3, <1>4, <1>5, <1>6, <1>7 DEF CountInv, Published, PatternsOf

(***************************************************************************)
(* flush_addition_counts, whichever record it passes over.                 *)
(***************************************************************************)
LEMMA FinishCounts == ASSUME IInv, SInv, CountInv, FinishAppend PROVE CountInv'
<1>1. /\ appending /\ Remaining = {} /\ tempCounts' = EmptyBag
      /\ patchId' = patchId + 1 /\ additions' = additions /\ snapshot' = snapshot
      /\ appending' = FALSE
      /\ counts' = counts \/ \E first \in DOMAIN tempCounts : counts' = Flushed(first)
  BY NothingLeft DEF FinishAppend, trees
<1>2. /\ patchId \in Nat /\ MinPatchId \in Nat \ {0} /\ MinPatchId <= patchId
      /\ Published = MinPatchId .. patchId - 1 /\ Published' = MinPatchId .. patchId
  <2>1. patchId \in Nat /\ MinPatchId \in Nat \ {0} /\ MinPatchId <= patchId
    BY ParametersAssumption DEF IInv, TypeOK
  <2>2. QED
    BY <1>1, <2>1 DEF Published
<1>3. \A key \in DOMAIN tempCounts' : FALSE
  BY <1>1 DEF EmptyBag, SetToBag
<1>4. \A key \in DOMAIN counts' :
        \/ key \in DOMAIN counts /\ counts'[key] = counts[key]
        \/ key \in DOMAIN tempCounts /\ counts'[key] = tempCounts[key]
  BY <1>1 DEF Flushed
<1>5. \A key \in DOMAIN counts' : key[1] \in 0 .. patchId' - 1
  BY <1>1, <1>2, <1>4 DEF CountInv
<1>6. ASSUME NEW k \in Kinds, NEW p \in PatternsOf(k), NEW id \in Published',
             <<id, p>> \in DOMAIN counts'
      PROVE  counts'[<<id, p>>] = Cardinality(AdditionsOf(k, p, id))
  <2>1. PICK key : key = <<id, p>>
    OBVIOUS
  <2>2. key[1] = id /\ id \in Nat /\ id # 0
    BY <1>2, <1>6, <2>1
  <2>3. CASE id = patchId
    <3>1. key \notin DOMAIN counts
      BY <1>2, <2>2, <2>3 DEF CountInv
    <3>2. key \in DOMAIN tempCounts /\ counts'[key] = tempCounts[key]
      BY <1>4, <1>6, <2>1, <3>1
    <3>3. tempCounts[key] = Cardinality(Joined(k, p))
      BY <1>1, <1>6, <2>1, <2>3, <3>2 DEF CountInv, Copies
    <3>4. Joined(k, p) = AdditionsOf(k, p, patchId)
      <4>1. ASSUME NEW t \in Triples
            PROVE  Passed(t) /\ Joins(t) <=> t \notin snapshot /\ Holds(additions[t].patches, patchId)
        <5>1. In(t, patchId) <=> Wanted(t)
          BY <1>1, AllMerged
        <5>2. Joins(t) <=> t \notin snapshot /\ Holds(additions[t].patches, patchId)
          BY <5>1 DEF Joins, In
        <5>3. Joins(t) => Passed(t)
          BY <1>1, <4>1, SkippedJoins DEF Passed
        <5>4. QED
          BY <5>2, <5>3
      <4>2. QED
        BY <4>1 DEF Joined, AdditionsOf, Matching
    <3>5. QED
      BY <2>1, <2>3, <3>2, <3>3, <3>4
  <2>4. CASE id # patchId
    <3>1. key \notin DOMAIN tempCounts
      BY <2>2, <2>4 DEF CountInv
    <3>2. key \in DOMAIN counts /\ counts'[key] = counts[key]
      BY <1>4, <1>6, <2>1, <3>1
    <3>3. id \in Published
      BY <1>2, <1>6, <2>4
    <3>4. QED
      BY <1>6, <2>1, <3>2, <3>3 DEF CountInv
  <2>5. QED
    BY <2>3, <2>4
<1>7. \A k \in Kinds : \A p, id : AdditionsOf(k, p, id)' = AdditionsOf(k, p, id)
  BY <1>1 DEF AdditionsOf, Matching
<1>8. QED
  BY <1>1, <1>3, <1>5, <1>6, <1>7 DEF CountInv, PatternsOf

\* An append begins with nothing counted, and none of the triples passed joins.
LEMMA BeginCounts == ASSUME IInv, SInv, CountInv, BeginAppend PROVE CountInv'
<1>1. /\ ~appending
      /\ UNCHANGED <<snapshot, additions, deletions, counts, tempCounts, patchId>>
  BY DEF BeginAppend, trees
<1>2. DOMAIN tempCounts = {}
  BY <1>1 DEF CountInv
<1>3. ASSUME NEW k \in Kinds, NEW p PROVE Cardinality(Joined(k, p)') = 0
  <2>1. ASSUME NEW t \in Triples, Passed(t)' PROVE ~Joins(t)'
    <3>1. ~InPatch(t)' /\ ~InDeletions(t) /\ ~InAdditions(t)
      BY <2>1, BeginAppendIInv, BeginLeaves DEF Passed
    <3>2. AtRest(t, patchId - 1)
      BY <1>1 DEF SInv, Passed
    <3>3. In(t, patchId - 1) <=> t \in snapshot
      BY <2>1, <3>1, <3>2, NeverTouched
    <3>4. In(t, patchId - 1)' <=> In(t, patchId - 1)
      BY <1>1 DEF In
    <3>5. QED
      BY <1>1, <3>1, <3>3, <3>4 DEF Joins, Wanted, InPatch
  <2>2. Joined(k, p)' = {}
    BY <2>1 DEF Joined, Matching
  <2>3. QED
    BY <2>2, FS_EmptySet
<1>4. \A p : Copies(<<patchId, p>>, tempCounts) = 0
  BY <1>2 DEF Copies
<1>5. \A k \in Kinds : \A p, id : AdditionsOf(k, p, id)' = AdditionsOf(k, p, id)
  BY <1>1 DEF AdditionsOf, Matching
<1>6. QED
  BY <1>1, <1>2, <1>3, <1>4, <1>5 DEF CountInv, Published, PatternsOf, Copies

\* The counters stay right, whatever step is taken.
LEMMA NextCounts == IInv /\ SInv /\ CountInv /\ [Next]_vars => CountInv'
<1> SUFFICES ASSUME IInv, SInv, CountInv, [Next]_vars PROVE CountInv'
  OBVIOUS
<1>1. CASE UNCHANGED vars
  BY <1>1 DEF vars, trees, merge, cursors, CountInv, Copies, PatternsOf, Published, Joined,
     AdditionsOf, Matching, Passed, Joins, Wanted, In, todo
<1>2. CASE BeginAppend
  BY <1>2, BeginCounts
<1>3. CASE appending /\ MergeStep
  BY <1>3, MergeCounts
<1>4. CASE FinishAppend
  BY <1>4, FinishCounts
<1>5. QED
  BY <1>1, <1>2, <1>3, <1>4 DEF Next, Quiet

(***************************************************************************)
(* With valid deltas the temporary and the stored counts of additions are  *)
(* right at every moment (increment_addition_counts).                      *)
(***************************************************************************)
THEOREM CountsKept ==
  ASSUME ValidDeltasOnly
  PROVE  Spec => []CountInv
<1>1. Init => CountInv
  <2> SUFFICES ASSUME Init PROVE CountInv
    OBVIOUS
  <2>1. DOMAIN tempCounts = {} /\ DOMAIN counts = {} /\ appending = FALSE
    BY DEF Init, EmptyBag, SetToBag
  <2>2. QED
    BY <2>1 DEF CountInv
<1>2. QED
  BY <1>1, NextCounts, Inductive, AlwaysComplete, PTL DEF Spec

(***************************************************************************)
(* get_addition_count returns for every published version and pattern the  *)
(* number of additions that an iteration finds, whether flush_addition_    *)
(* counts stored the count, found it too small or passed it over.          *)
(***************************************************************************)
THEOREM AdditionCountsExact ==
  ASSUME ValidDeltasOnly
  PROVE  Spec => []AdditionCountExact
<1>1. IInv /\ SInv /\ CountInv => AdditionCountExact
  <2> SUFFICES ASSUME IInv, SInv, CountInv, NEW k \in Kinds, NEW p \in PatternsOf(k),
                      NEW id \in Published
               PROVE  AdditionCount(k, p, id)
                        = Cardinality({t \in Matching(Triples, k, p) : IsAddition(t, id)})
    BY DEF AdditionCountExact, PatternsOf
  <2>1. AdditionsOf(k, p, id) = {t \in Matching(Triples, k, p) : IsAddition(t, id)}
    BY ReadersSee DEF AdditionsOf, Matching
  <2>2. QED
    BY <2>1 DEF AdditionCount, CountInv
<1>2. QED
  BY <1>1, CountsKept, Inductive, AlwaysComplete, PTL
===============================================================================
