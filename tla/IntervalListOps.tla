--------------------------- MODULE IntervalListOps ---------------------------
(***************************************************************************)
(* One interval list under the calls its users make, next to the plain set *)
(* of ids it stands for.  Id Bound stands for every id from Bound on: the  *)
(* tail that an open interval covers.                                      *)
(***************************************************************************)
EXTENDS IntervalList

CONSTANT Bound   \* ids up to Bound - 1 are added and deleted

ASSUME BoundAssumption == Bound \in Nat /\ Bound < MaxValue

VARIABLES list,      \* the IntervalList
          members    \* the ids it should contain

vars == <<list, members>>

Ids == 0 .. Bound

\* What one addition promises: e and the ids up to the next member.
Filled(e) ==
  IF e \in members THEN {}
  ELSE {v \in Ids : v >= e /\ \A u \in members : e < u => v < u}

\* What one deletion promises: e and the ids after it without a gap.
Cut(e) == {v \in Ids : v >= e /\ (e .. v) \subseteq members}

Init == list = EmptyList /\ members = {}

Add(e) ==
  /\ Reaches(list, e)
  /\ list' = Addition(list, e)
  /\ members' = members \cup Filled(e)

Delete(e) ==
  /\ Reaches(list, e)
  /\ list' = Deletion(list, e)
  /\ members' = members \ Cut(e)

Next == \E e \in 0 .. Bound - 1 : Add(e) \/ Delete(e)

Spec == Init /\ [][Next]_vars

-----------------------------------------------------------------------------

TypeOK == IsList(list) /\ members \subseteq Ids

(***************************************************************************)
(* is_in agrees with the set of ids after any sequence of additions and    *)
(* deletions, in front of, between and behind existing intervals           *)
(* (interval_list.h addition, deletion, is_in).                            *)
(***************************************************************************)
MembershipAgrees == \A v \in Ids : IsIn(list, v) <=> v \in members

(***************************************************************************)
(* Intervals never touch or overlap: a deletion inside one never leaves    *)
(* part of its range to a neighbour, and the encoding stays minimal        *)
(* (interval_list.h addition: the join of two intervals).                  *)
(***************************************************************************)
IntervalsSeparate ==
  \A s, r \in DOMAIN list : s < r => list[s] < r

(***************************************************************************)
(* The virtual vector enumerates exactly the ids below the outer limit, in *)
(* order: sizes, indexes and elements agree with the set, and index and    *)
(* element are inverse (get_index, get_element_at, get_size), for every    *)
(* outer limit that lies behind the starts.                                *)
(***************************************************************************)
VirtualVectorAgrees ==
  \A outer \in Ids :
    (\A s \in DOMAIN list : s <= outer /\ (list[s] = MaxValue \/ list[s] <= outer)) =>
      LET ids == {v \in members : v < outer}
          Rank(v) == Cardinality({u \in ids : u < v})
      IN /\ GetSize(list, outer) = Cardinality(ids)
         /\ \A v \in Ids : GetIndex(list, v, outer) = IF v \in ids THEN Rank(v) ELSE -1
         /\ \A v \in ids : GetElementAt(list, Rank(v), outer) = v
         /\ GetElementAt(list, Cardinality(ids), outer) = MaxValue
         /\ \A v \in Ids : Spans(list, v, outer) <=> GetIndex(list, v, outer) >= 0
         /\ ids # {} =>
              /\ LastElement(list, outer) = GetElementAt(list, GetSize(list, outer) - 1, outer)
              /\ FirstElement(list, outer) = GetElementAt(list, 0, outer)

(***************************************************************************)
(* Adding a list's ids one by one, in order, to a fresh list loses every   *)
(* gap: the result is open from the first id on.  PatchTreeValues takes    *)
(* this closed form for to_reduced (patch_tree_deletion_value.h).          *)
(***************************************************************************)
MembersReadded ==
  LET inOrder == SelectSeq([i \in 1 .. Bound + 1 |-> i - 1], LAMBDA v : v \in members)
  IN FoldLeft(Addition, EmptyList, inOrder)
    = IF members = {} THEN EmptyList ELSE Opened(Min(members))
===============================================================================
