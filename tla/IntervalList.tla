----------------------------- MODULE IntervalList -----------------------------
(***************************************************************************)
(* The IntervalList<T> template of patch/interval_list.h: a set of patch   *)
(* ids kept as a std::map from the first id of an interval to its          *)
(* exclusive end.  An interval that is still open ends at the list's       *)
(* `max` (MaxValue here, INT_MAX in the program).  A list is a function    *)
(* from starts to ends; the ordered map is its domain.                     *)
(*                                                                         *)
(* A call that would decrement intervals.begin() is undefined in C++.      *)
(* Reaches(l, e) is the condition under which addition and deletion never  *)
(* do so; the patch tree is shown to respect it.  The const lookups of the *)
(* same shape answer "not contained" in the builds this models: libstdc++  *)
(* yields the same node or the map's header, neither of which spans an id. *)
(***************************************************************************)
EXTENDS Integers, FiniteSetsExt, SequencesExt

CONSTANT MaxValue   \* the `max` of the list, the end of an open interval

ASSUME MaxValueAssumption == MaxValue \in Nat

EmptyList == [s \in {} |-> MaxValue]

\* l is a list: a function from starts to ends.
IsList(l) ==
  /\ l = [s \in DOMAIN l |-> l[s]]
  /\ DOMAIN l \subseteq Nat
  /\ \A s \in DOMAIN l : l[s] \in Nat

From(l, e)   == {s \in DOMAIN l : s >= e}     \* lower_bound(e) is its minimum
Before(l, e) == {s \in DOMAIN l : s < e}
UpTo(l, e)   == {s \in DOMAIN l : s <= e}

Reaches(l, e) == DOMAIN l = {} \/ UpTo(l, e) # {}

OpenedEarly(e) == [s \in {e - 1} |-> MaxValue]                    \* mutant
Opened(e)     == [s \in {e} |-> MaxValue]
Without(l, s) == [r \in DOMAIN l \ {s} |-> l[r]]

-----------------------------------------------------------------------------

(***************************************************************************)
(* addition(e): e and everything after it is in the set.  Past the last    *)
(* interval it re-opens that interval or starts a new one; in front of     *)
(* another interval it moves that interval's start or joins the two.       *)
(***************************************************************************)
AdditionAtEndUnjoined(l, e) ==                                   \* mutant
  LET last == Max(DOMAIN l) IN
  IF l[last] <= e THEN [s \in DOMAIN l \cup {e} |-> IF s = e THEN MaxValue ELSE l[s]] ELSE l
AdditionAtEndUnguarded(l, e) ==                                  \* mutant
  [s \in DOMAIN l \cup {e} |-> IF s = e THEN MaxValue ELSE l[s]]
AdditionAtEnd(l, e) ==
  LET last == Max(DOMAIN l) IN
  CASE l[last] = e -> [l EXCEPT ![last] = MaxValue]
    [] l[last] < e -> [s \in DOMAIN l \cup {e} |-> IF s = e THEN MaxValue ELSE l[s]]
    [] OTHER       -> l

AdditionInFront(l, e) ==
  LET next == Min(From(l, e))
      prev == Max(Before(l, e))
      rest == Without(l, next)
  IN CASE l[prev] < e -> [s \in DOMAIN rest \cup {e} |-> IF s = e THEN l[next] ELSE l[s]]
       [] l[prev] = e -> [rest EXCEPT ![prev] = l[next]]
       [] OTHER       -> l

Addition(l, e) ==
  CASE DOMAIN l = {}     -> Opened(e)
    [] e \in DOMAIN l    -> l
    [] DOMAIN l # {} /\ From(l, e) = {} -> AdditionAtEnd(l, e)
    [] OTHER -> IF Before(l, e) = {} THEN l ELSE AdditionInFront(l, e)

DeletionOfInterval(l, e) ==                                      \* mutant
  IF UpTo(l, e) = {} THEN l ELSE Without(l, Max(UpTo(l, e)))
\* deletion(e): e and everything after it, up to the end of e's interval, leaves the set.
Deletion(l, e) ==
  IF UpTo(l, e) = {} THEN l
  ELSE LET at == Max(UpTo(l, e)) IN
       CASE e < l[at] /\ at = e  -> Without(l, e)
         [] e < l[at] /\ at # e  -> [l EXCEPT ![at] = e]
         [] OTHER                -> l

\* is_in(e)
IsInClosed(l, e) == UpTo(l, e) # {} /\ e <= l[Max(UpTo(l, e))]    \* mutant
IsIn(l, e) ==
  /\ UpTo(l, e) # {}
  /\ e < l[Max(UpTo(l, e))]

-----------------------------------------------------------------------------

(***************************************************************************)
(* The "virtual value vector": the ids of all intervals in order, with     *)
(* outer in place of the end of an open interval.                          *)
(***************************************************************************)
EndOfInclusive(l, s, outer) == IF l[s] = MaxValue THEN outer + 1 ELSE l[s]   \* mutant
EndOf(l, s, outer) == IF l[s] = MaxValue THEN outer ELSE l[s]
RangeOf(l, s, outer) == EndOf(l, s, outer) - s

SizeOver(l, starts, outer) == MapThenSumSet(LAMBDA s : RangeOf(l, s, outer), starts)

GetSize(l, outer) == SizeOver(l, DOMAIN l, outer)

\* get_index(v, outer): -1 when no interval spans v.
GetIndex(l, v, outer) ==
  LET spanning == {s \in DOMAIN l : s <= v /\ v < EndOf(l, s, outer)} IN
  IF spanning = {} THEN -1
  ELSE LET at == Min(spanning) IN SizeOver(l, Before(l, at), outer) + (v - at)

\* get_element_at(i, outer): MaxValue when the vector is shorter.
GetElementAt(l, i, outer) ==
  LET reaching == {s \in DOMAIN l : i < SizeOver(l, UpTo(l, s), outer)} IN
  IF reaching = {} THEN MaxValue
  ELSE LET at == Min(reaching) IN at + (i - SizeOver(l, Before(l, at), outer))

(***************************************************************************)
(* Callers use the vector's membership test and its last element only, so  *)
(* these closed forms stand for get_index(v) >= 0 and for                  *)
(* get_element_at(get_size() - 1); the runs compare them with the above.   *)
(***************************************************************************)
Spans(l, v, outer) == \E s \in DOMAIN l : s <= v /\ v < EndOf(l, s, outer)

Elements(l, outer) == UNION {s .. (EndOf(l, s, outer) - 1) : s \in DOMAIN l}

LastElement(l, outer) == Max(Elements(l, outer))
FirstElement(l, outer) == Min(Elements(l, outer))
===============================================================================
