------------------------------- MODULE Patterns -------------------------------
(***************************************************************************)
(* Triples, the triple patterns that match them, and the tree in which a   *)
(* pattern is looked up (patch/triple_store.h, patch/triple.cc).           *)
(*                                                                         *)
(* A triple is a number: its place in the SPO order the trees and the      *)
(* patches are sorted by.  NoTriple is Triple(0, 0, 0).  A pattern is the  *)
(* triple of components with 0 for a variable.                             *)
(***************************************************************************)
EXTENDS Integers, FiniteSets, FiniteSetsExt

CONSTANTS Triples,                     \* a set of positive numbers, in SPO order
          Subject, Predicate, Object,  \* the dictionary ids of a triple's components
          Kinds                        \* the pattern kinds in use

NoTriple == 0

AllKinds == {"sp_", "s_o", "s__", "_po", "_p_", "__o", "___"}

ASSUME TriplesAssumption ==
  /\ Triples \subseteq Nat \ {NoTriple}
  /\ IsFiniteSet(Triples)

ASSUME ComponentsAssumption ==
  /\ Subject \in [Triples -> Nat \ {0}]
  /\ Predicate \in [Triples -> Nat \ {0}]
  /\ Object \in [Triples -> Nat \ {0}]

ASSUME KindsAssumption == Kinds \subseteq AllKinds

Lexicographic(a, b) ==
  \E i \in 1 .. 3 : a[i] < b[i] /\ \A j \in 1 .. i - 1 : a[j] = b[j]

ASSUME OrderAssumption ==
  \A t, u \in Triples : t < u <=> Lexicographic(<<Subject[t], Predicate[t], Object[t]>>,
                                               <<Subject[u], Predicate[u], Object[u]>>)

Component(f, t) == IF t = NoTriple THEN 0 ELSE f[t]

\* The pattern of each kind that a triple matches: its components with 0 for the variables.
PatternOf ==
  [k \in AllKinds |-> [t \in Triples \cup {NoTriple} |->
     << IF k \in {"sp_", "s_o", "s__"} THEN Component(Subject, t) ELSE 0,
        IF k \in {"sp_", "_po", "_p_"} THEN Component(Predicate, t) ELSE 0,
        IF k \in {"s_o", "_po", "__o"} THEN Component(Object, t) ELSE 0 >>]]

Pattern(k, t) == PatternOf[k][t]

\* The triples of set S that match a pattern of kind k.
Matching(S, k, pattern) == {t \in S : Pattern(k, t) = pattern}

\* is_default_tree and get_query_order
Order(k) == CASE k \in {"s_o", "__o"} -> "OSP"
              [] k \in {"_po", "_p_"} -> "POS"
              [] OTHER -> "SPO"

IsDefaultTree(k) == Order(k) = "SPO"

\* t comes before u in the tree a pattern of kind k is looked up in.
Precedes(k, t, u) ==
  CASE Order(k) = "SPO" -> t < u
    [] Order(k) = "POS" -> Lexicographic(<<Predicate[t], Object[t], Subject[t]>>,
                                         <<Predicate[u], Object[u], Subject[u]>>)
    [] Order(k) = "OSP" -> Lexicographic(<<Object[t], Subject[t], Predicate[t]>>,
                                         <<Object[u], Subject[u], Predicate[u]>>)

\* The triples of S in that order: behind as many others as its place says.
SortedIn(k, S) ==
  [i \in 1 .. Cardinality(S) |->
     CHOOSE t \in S : Cardinality({u \in S : Precedes(k, u, t)}) = i - 1]
===============================================================================
