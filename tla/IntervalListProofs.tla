-------------------------- MODULE IntervalListProofs --------------------------
(***************************************************************************)
(* What addition and deletion do to an interval list at an id that lies    *)
(* behind everything in it, which is how the merge of a patch tree calls   *)
(* them: the result is again such a list, and nothing below the id         *)
(* changes.                                                                *)
(***************************************************************************)
EXTENDS IntervalList, CollectionProofs

\* The starts and the ends of l are at most p, but for the last interval, which may
\* be open: then it ends at MaxValue.  Intervals do not touch.
Settled(l, p) ==
  /\ IsList(l)
  /\ \A s \in DOMAIN l : s <= p /\ (l[s] <= p \/ l[s] = MaxValue)
  /\ \A s, r \in DOMAIN l : s < r => l[s] < r

\* Some interval holds v.
Holds(l, v) == \E s \in DOMAIN l : s <= v /\ v < l[s]

(***************************************************************************)
(* is_in looks at the last interval that starts at or before the id.       *)
(***************************************************************************)
LEMMA IsInByLastStart ==
  ASSUME NEW l, IsList(l), NEW v \in Nat
  PROVE  IsIn(l, v) <=> \E s \in DOMAIN l : /\ s <= v /\ v < l[s]
                                            /\ \A r \in DOMAIN l : r <= v => r <= s
<1>1. UpTo(l, v) \subseteq Nat /\ \A s \in UpTo(l, v) : s <= v
  BY DEF IsList, UpTo
<1>2. CASE UpTo(l, v) = {}
  BY <1>2 DEF IsIn, UpTo
<1>3. CASE UpTo(l, v) # {}
  <2>1. PICK m : m = Max(UpTo(l, v))
    OBVIOUS
  <2>2. m \in UpTo(l, v) /\ \A s \in UpTo(l, v) : s <= m
    BY <1>1, <1>3, <2>1, MaxOfBounded
  <2>3. m \in DOMAIN l /\ m <= v /\ m \in Nat /\ l[m] \in Nat
    BY <2>2 DEF UpTo, IsList
  <2>4. IsIn(l, v) <=> v < l[m]
    BY <1>3, <2>1 DEF IsIn
  <2>5. \A s \in DOMAIN l : (s <= v /\ \A r \in DOMAIN l : r <= v => r <= s) => s = m
    BY <2>2, <2>3 DEF UpTo, IsList
  <2>6. \A r \in DOMAIN l : r <= v => r <= m
    BY <2>2 DEF UpTo
  <2>7. QED
    BY <2>3, <2>4, <2>5, <2>6
<1>4. QED
  BY <1>2, <1>3

(***************************************************************************)
(* The last start of a settled list.                                       *)
(***************************************************************************)
LEMMA LastStart ==
  ASSUME NEW p \in Nat, NEW l, Settled(l, p), DOMAIN l # {}
  PROVE  /\ Max(DOMAIN l) \in DOMAIN l
         /\ Max(DOMAIN l) \in Nat /\ l[Max(DOMAIN l)] \in Nat
         /\ \A s \in DOMAIN l : s <= Max(DOMAIN l)
<1>1. DOMAIN l \subseteq Nat /\ \A s \in DOMAIN l : s <= p /\ l[s] \in Nat
  BY DEF Settled, IsList
<1>2. Max(DOMAIN l) \in DOMAIN l /\ \A s \in DOMAIN l : s <= Max(DOMAIN l)
  BY <1>1, MaxOfBounded
<1>3. QED
  BY <1>1, <1>2

(***************************************************************************)
(* In a settled list no other interval holds what is_in looks for in the   *)
(* last one that starts at or before the id.                               *)
(***************************************************************************)
LEMMA IsInIsHolds ==
  ASSUME NEW p \in Nat, NEW l, Settled(l, p), NEW v \in Nat
  PROVE  IsIn(l, v) <=> Holds(l, v)
<1>1. IsList(l) /\ \A s \in DOMAIN l : s \in Nat /\ l[s] \in Nat
  BY DEF Settled, IsList
<1>2. IsIn(l, v) <=> \E s \in DOMAIN l : /\ s <= v /\ v < l[s]
                                         /\ \A r \in DOMAIN l : r <= v => r <= s
  BY <1>1, IsInByLastStart
<1>3. ASSUME NEW s \in DOMAIN l, s <= v, v < l[s], NEW r \in DOMAIN l, r <= v
      PROVE  r <= s
  <2>1. s < r => l[s] < r
    BY DEF Settled
  <2>2. QED
    BY <1>1, <1>3, <2>1
<1>4. QED
  BY <1>2, <1>3 DEF Holds

(***************************************************************************)
(* The cases of addition at an id behind the list: a first interval, no    *)
(* change, the last interval re-opened, or a new one.                      *)
(***************************************************************************)
LEMMA AdditionBehind ==
  ASSUME NEW p \in Nat, p < MaxValue, NEW l, Settled(l, p)
  PROVE  \/ DOMAIN l = {} /\ Addition(l, p) = Opened(p)
         \/ DOMAIN l # {} /\ Addition(l, p) = l /\ \E s \in DOMAIN l : s = p \/ p < l[s]
         \/ \E last \in DOMAIN l :
              /\ \A s \in DOMAIN l : s <= last
              /\ last < p /\ l[last] = p
              /\ Addition(l, p) = [l EXCEPT ![last] = MaxValue]
         \/ \E last \in DOMAIN l :
              /\ \A s \in DOMAIN l : s <= last
              /\ last < p /\ l[last] < p
              /\ Addition(l, p) = [s \in DOMAIN l \cup {p} |-> IF s = p THEN MaxValue ELSE l[s]]
<1>1. CASE DOMAIN l = {}
  BY <1>1 DEF Addition
<1>2. CASE p \in DOMAIN l
  <2>1. DOMAIN l # {} /\ p \in From(l, p)
    BY <1>2 DEF From
  <2>2. QED
    BY <1>2, <2>1 DEF Addition
<1>3. CASE DOMAIN l # {} /\ p \notin DOMAIN l
  <2>1. PICK last : last = Max(DOMAIN l)
    OBVIOUS
  <2>2. /\ last \in DOMAIN l /\ last \in Nat /\ l[last] \in Nat
        /\ \A s \in DOMAIN l : s <= last
    BY <1>3, <2>1, LastStart
  <2>3. last < p
    BY <1>3, <2>2 DEF Settled
  <2>4. From(l, p) = {}
    BY <1>3 DEF From, Settled, IsList
  <2>5. Addition(l, p) = AdditionAtEnd(l, p)
    BY <1>3, <2>4 DEF Addition
  <2>6. Addition(l, p) =
          CASE l[last] = p -> [l EXCEPT ![last] = MaxValue]
            [] l[last] < p -> [s \in DOMAIN l \cup {p} |-> IF s = p THEN MaxValue ELSE l[s]]
            [] OTHER       -> l
    BY <2>1, <2>5 DEF AdditionAtEnd
  <2>7. CASE l[last] = p
    BY <2>2, <2>3, <2>6, <2>7
  <2>8. CASE l[last] < p
    BY <2>2, <2>3, <2>6, <2>8
  <2>9. CASE l[last] > p
    BY <1>3, <2>2, <2>6, <2>9
  <2>10. l[last] = p \/ l[last] < p \/ l[last] > p
    BY <2>2
  <2>11. QED
    BY <2>7, <2>8, <2>9, <2>10, Zenon
<1>4. QED
  BY <1>1, <1>2, <1>3

(***************************************************************************)
(* addition keeps a list settled; it holds the id afterwards.              *)
(***************************************************************************)
LEMMA AdditionSettled ==
  ASSUME NEW p \in Nat, p < MaxValue, NEW l, Settled(l, p)
  PROVE  Settled(Addition(l, p), p) /\ DOMAIN Addition(l, p) # {}
<1>0. PICK a : a = Addition(l, p)
  OBVIOUS
<1>1. CASE DOMAIN l = {} /\ a = Opened(p)
  BY <1>0, <1>1, MaxValueAssumption DEF Settled, IsList, Opened
<1>2. CASE DOMAIN l # {} /\ a = l
  BY <1>0, <1>2
<1>3. ASSUME NEW last \in DOMAIN l, \A s \in DOMAIN l : s <= last,
             a = [l EXCEPT ![last] = MaxValue]
      PROVE  Settled(a, p) /\ DOMAIN a # {}
  <2>1. a = [s \in DOMAIN l |-> IF s = last THEN MaxValue ELSE l[s]]
    BY <1>3
  <2>2. DOMAIN a = DOMAIN l /\ \A s \in DOMAIN l : a[s] = IF s = last THEN MaxValue ELSE l[s]
    BY <2>1
  <2>3. IsList(a)
    BY <2>1, MaxValueAssumption DEF IsList, Settled
  <2>4. \A s, r \in DOMAIN a : s < r => a[s] < r
    BY <1>3, <2>2 DEF IsList, Settled
  <2>5. QED
    BY <1>3, <2>2, <2>3, <2>4 DEF Settled
<1>4. ASSUME NEW last \in DOMAIN l, \A s \in DOMAIN l : s <= last, last < p, l[last] < p,
             a = [s \in DOMAIN l \cup {p} |-> IF s = p THEN MaxValue ELSE l[s]]
      PROVE  Settled(a, p) /\ DOMAIN a # {}
  <2>1. /\ DOMAIN a = DOMAIN l \cup {p}
        /\ \A s \in DOMAIN a : a[s] = IF s = p THEN MaxValue ELSE l[s]
    BY <1>4
  <2>2. IsList(a)
    BY <1>4, MaxValueAssumption DEF IsList, Settled
  <2>3. \A s \in DOMAIN l : l[s] < p
    BY <1>4 DEF IsList, Settled
  <2>4. \A s, r \in DOMAIN a : s < r => a[s] < r
    BY <2>1, <2>3 DEF IsList, Settled
  <2>5. QED
    BY <2>1, <2>2, <2>4 DEF Settled
<1>5. QED
  BY <1>0, <1>1, <1>2, <1>3, <1>4, AdditionBehind

(***************************************************************************)
(* The cases of deletion at an id behind the list: no change, the last     *)
(* interval removed because it starts there, or cut off there.             *)
(***************************************************************************)
LEMMA DeletionBehind ==
  ASSUME NEW p \in Nat, NEW l, Settled(l, p)
  PROVE  \/ Deletion(l, p) = l /\ ~IsIn(l, p)
         \/ \E last \in DOMAIN l :
              /\ \A s \in DOMAIN l : s <= last
              /\ last = p
              /\ Deletion(l, p) = Without(l, p)
         \/ \E last \in DOMAIN l :
              /\ \A s \in DOMAIN l : s <= last
              /\ last < p /\ p < l[last]
              /\ Deletion(l, p) = [l EXCEPT ![last] = p]
<1>1. UpTo(l, p) = DOMAIN l
  BY DEF UpTo, Settled, IsList
<1>2. CASE DOMAIN l = {}
  BY <1>1, <1>2 DEF Deletion, IsIn
<1>3. CASE DOMAIN l # {}
  <2>1. PICK last : last = Max(DOMAIN l)
    OBVIOUS
  <2>2. /\ last \in DOMAIN l /\ last \in Nat /\ l[last] \in Nat
        /\ \A s \in DOMAIN l : s <= last
    BY <1>3, <2>1, LastStart
  <2>3. Deletion(l, p) = CASE p < l[last] /\ last = p -> Without(l, p)
                           [] p < l[last] /\ last # p -> [l EXCEPT ![last] = p]
                           [] OTHER                   -> l
    BY <1>1, <1>3, <2>1 DEF Deletion
  <2>4. IsIn(l, p) <=> p < l[last]
    BY <1>1, <1>3, <2>1 DEF IsIn
  <2>5. last <= p
    BY <2>2 DEF Settled
  <2>6. CASE p < l[last] /\ last = p
    BY <2>2, <2>3, <2>6
  <2>7. CASE p < l[last] /\ last # p
    <3>1. last < p
      BY <2>2, <2>5, <2>7
    <3>2. Deletion(l, p) = [l EXCEPT ![last] = p]
      BY <2>3, <2>7
    <3>3. QED
      BY <2>2, <2>7, <3>1, <3>2
  <2>8. CASE ~(p < l[last])
    BY <2>3, <2>4, <2>8
  <2>9. QED
    BY <2>6, <2>7, <2>8
<1>4. QED
  BY <1>2, <1>3

(***************************************************************************)
(* deletion keeps a list settled and takes the id out of it.               *)
(***************************************************************************)
LEMMA DeletionSettled ==
  ASSUME NEW p \in Nat, NEW l, Settled(l, p)
  PROVE  Settled(Deletion(l, p), p)
<1> USE DEF Settled, IsList
<1>1. ASSUME NEW last \in DOMAIN l, last = p, Deletion(l, p) = Without(l, p)
      PROVE  Settled(Deletion(l, p), p)
  BY <1>1 DEF Without
<1>2. ASSUME NEW last \in DOMAIN l, \A s \in DOMAIN l : s <= last, Deletion(l, p) = [l EXCEPT ![last] = p]
      PROVE  Settled(Deletion(l, p), p)
  <2>1. PICK d : d = Deletion(l, p)
    OBVIOUS
  <2>2. d = [s \in DOMAIN l |-> IF s = last THEN p ELSE l[s]]
    BY <1>2, <2>1
  <2>3. DOMAIN d = DOMAIN l /\ \A s \in DOMAIN l : d[s] = IF s = last THEN p ELSE l[s]
    BY <2>2
  <2>4. \A s, r \in DOMAIN d : s < r => d[s] < r
    BY <1>2, <2>3
  <2>5. IsList(d)
    BY <2>2
  <2>6. Settled(d, p)
    BY <2>3, <2>4, <2>5
  <2>7. QED
    BY <2>1, <2>6
<1> HIDE DEF Settled
<1>3. QED
  BY <1>1, <1>2, DeletionBehind

(***************************************************************************)
(* Ids below the outer limit: the virtual vector holds v when some         *)
(* interval does.                                                          *)
(***************************************************************************)
LEMMA SpansIsHolds ==
  ASSUME NEW l, IsList(l), NEW outer \in Nat, NEW v \in Nat, v < outer, v < MaxValue
  PROVE  Spans(l, v, outer) <=> Holds(l, v)
BY MaxValueAssumption DEF Spans, Holds, EndOf, IsList

(***************************************************************************)
(* Below the id, addition and deletion leave what the list holds alone.    *)
(***************************************************************************)
LEMMA AdditionHoldsBelow ==
  ASSUME NEW p \in Nat, p < MaxValue, NEW l, Settled(l, p), NEW v \in Nat, v < p
  PROVE  Holds(Addition(l, p), v) <=> Holds(l, v)
<1> DEFINE a == Addition(l, p)
<1>1. \A s \in DOMAIN l : s \in Nat /\ l[s] \in Nat
  BY DEF Settled, IsList
<1>2. CASE DOMAIN l = {} /\ a = Opened(p)
  BY <1>2 DEF Holds, Opened
<1>3. CASE DOMAIN l # {} /\ a = l
  BY <1>3
<1>4. ASSUME NEW last \in DOMAIN l, l[last] = p, a = [l EXCEPT ![last] = MaxValue]
      PROVE  Holds(a, v) <=> Holds(l, v)
  <2> HIDE DEF a
  <2>1. DOMAIN a = DOMAIN l /\ \A s \in DOMAIN l : v < a[s] <=> v < l[s]
    BY <1>4, MaxValueAssumption
  <2>2. QED
    BY <2>1 DEF Holds
<1>5. ASSUME DOMAIN l # {}, NEW last \in DOMAIN l, \A s \in DOMAIN l : s <= last, last < p,
             a = [s \in DOMAIN l \cup {p} |-> IF s = p THEN MaxValue ELSE l[s]]
      PROVE  Holds(a, v) <=> Holds(l, v)
  <2> HIDE DEF a
  <2>1. p \notin DOMAIN l
    BY <1>1, <1>5
  <2>2. DOMAIN a = DOMAIN l \cup {p} /\ \A s \in DOMAIN l : a[s] = l[s]
    BY <1>5, <2>1
  <2>3. \A s \in DOMAIN a : s <= v => s \in DOMAIN l
    BY <2>2
  <2>4. QED
    BY <2>2, <2>3 DEF Holds
<1>6. QED
  BY <1>2, <1>3, <1>4, <1>5, AdditionBehind

\* The same for deletion.
LEMMA DeletionHoldsBelow ==
  ASSUME NEW p \in Nat, NEW l, Settled(l, p), NEW v \in Nat, v < p
  PROVE  Holds(Deletion(l, p), v) <=> Holds(l, v)
<1> DEFINE d == Deletion(l, p)
<1>1. \A s \in DOMAIN l : s \in Nat /\ l[s] \in Nat
  BY DEF Settled, IsList
<1>2. ASSUME d = Without(l, p)
      PROVE  Holds(d, v) <=> Holds(l, v)
  <2> HIDE DEF d
  <2>1. DOMAIN d = DOMAIN l \ {p} /\ \A s \in DOMAIN d : d[s] = l[s]
    BY <1>2 DEF Without
  <2>2. \A s \in DOMAIN l : s <= v => s \in DOMAIN d
    BY <1>1, <2>1
  <2>3. QED
    BY <2>1, <2>2 DEF Holds
<1>3. ASSUME NEW last \in DOMAIN l, p < l[last], d = [l EXCEPT ![last] = p]
      PROVE  Holds(d, v) <=> Holds(l, v)
  <2> HIDE DEF d
  <2>1. DOMAIN d = DOMAIN l /\ \A s \in DOMAIN l : v < d[s] <=> v < l[s]
    BY <1>1, <1>3
  <2>2. QED
    BY <2>1 DEF Holds
<1>4. QED
  BY <1>2, <1>3, DeletionBehind

(***************************************************************************)
(* So is_in answers as before below the id.                                *)
(***************************************************************************)
LEMMA AdditionBelow ==
  ASSUME NEW p \in Nat, p < MaxValue, NEW l, Settled(l, p), NEW v \in Nat, v < p
  PROVE  IsIn(Addition(l, p), v) <=> IsIn(l, v)
BY AdditionSettled, AdditionHoldsBelow, IsInIsHolds

\* The same for deletion.
LEMMA DeletionBelow ==
  ASSUME NEW p \in Nat, NEW l, Settled(l, p), NEW v \in Nat, v < p
  PROVE  IsIn(Deletion(l, p), v) <=> IsIn(l, v)
BY DeletionSettled, DeletionHoldsBelow, IsInIsHolds

(***************************************************************************)
(* From p on a settled list holds all ids or none, and after a deletion    *)
(* at p it holds none.                                                     *)
(***************************************************************************)
LEMMA HoldsBehind ==
  ASSUME NEW p \in Nat, NEW l, Settled(l, p), NEW v \in Nat, p <= v, v < MaxValue
  PROVE  Holds(l, v) <=> Holds(l, p)
<1>1. \A s \in DOMAIN l : s \in Nat /\ l[s] \in Nat /\ s <= p /\ (l[s] <= p \/ l[s] = MaxValue)
  BY DEF Settled, IsList
<1>2. \A s \in DOMAIN l : v < l[s] <=> p < l[s]
  BY <1>1, MaxValueAssumption
<1>3. \A s \in DOMAIN l : s <= v /\ s <= p
  BY <1>1
<1>4. QED
  BY <1>2, <1>3 DEF Holds

\* After deletion at p the list ends before p.
LEMMA DeletedBehind ==
  ASSUME NEW p \in Nat, NEW l, Settled(l, p)
  PROVE  ~Holds(Deletion(l, p), p)
<1>1. PICK d : d = Deletion(l, p)
  OBVIOUS
<1>2. /\ \A s \in DOMAIN l : s \in Nat /\ l[s] \in Nat /\ s <= p
      /\ \A s, r \in DOMAIN l : s < r => l[s] < r
  BY DEF Settled, IsList
<1>3. CASE d = l /\ ~IsIn(l, p)
  BY <1>1, <1>3, IsInIsHolds
<1>4. ASSUME NEW last \in DOMAIN l, \A s \in DOMAIN l : s <= last, last = p, d = Without(l, p)
      PROVE  ~Holds(d, p)
  <2>1. DOMAIN d = DOMAIN l \ {p} /\ \A s \in DOMAIN d : d[s] = l[s]
    BY <1>4 DEF Without
  <2>2. \A s \in DOMAIN d : l[s] < p
    BY <1>2, <1>4, <2>1
  <2>3. QED
    BY <1>2, <2>1, <2>2 DEF Holds
<1>5. ASSUME NEW last \in DOMAIN l, \A s \in DOMAIN l : s <= last, last < p,
             d = [l EXCEPT ![last] = p]
      PROVE  ~Holds(d, p)
  <2>1. DOMAIN d = DOMAIN l /\ \A s \in DOMAIN l : d[s] = IF s = last THEN p ELSE l[s]
    BY <1>5
  <2>2. \A s \in DOMAIN l : s # last => l[s] < p
    BY <1>2, <1>5
  <2>3. QED
    BY <1>2, <2>1, <2>2 DEF Holds
<1>6. QED
  BY <1>1, <1>3, <1>4, <1>5, DeletionBehind
===============================================================================
