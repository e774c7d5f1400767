------------------------- MODULE IntervalListOpsProofs --------------------------
(***************************************************************************)
(* An interval list stands for the ids that were meant, after any number   *)
(* of additions and deletions of any ids that it reaches: behind, between  *)
(* and in front of its intervals.                                          *)
(***************************************************************************)
EXTENDS IntervalListOps, IntervalListProofs

-----------------------------------------------------------------------------
(* Lists whose intervals are apart and not empty *)

Apart(l) ==
  /\ IsList(l)
  /\ \A s \in DOMAIN l : s < l[s]
  /\ \A s, r \in DOMAIN l : s < r => l[s] < r

\* The ids from e to the next one that l holds; the ids from e on that l holds without a gap.
Gap(l, e, v) == ~Holds(l, e) /\ e <= v /\ \A u \in Nat : e < u /\ u <= v => ~Holds(l, u)
Run(l, e, v) == e <= v /\ \A u \in e .. v : Holds(l, u)

\* What a call of addition or deletion promises.
Adds(l, e, new) ==
  Apart(new) /\ \A v \in Nat : v < MaxValue => (Holds(new, v) <=> Holds(l, v) \/ Gap(l, e, v))
Deletes(l, e, new) ==
  Apart(new) /\ \A v \in Nat : v < MaxValue => (Holds(new, v) <=> Holds(l, v) /\ ~Run(l, e, v))

(***************************************************************************)
(* is_in finds the only interval that may hold the id.                     *)
(***************************************************************************)
LEMMA IsInWhenApart ==
  ASSUME NEW l, Apart(l), NEW v \in Nat
  PROVE  IsIn(l, v) <=> Holds(l, v)
<1>1. IsList(l) /\ \A s \in DOMAIN l : s \in Nat /\ l[s] \in Nat
  BY DEF Apart, IsList
<1>2. IsIn(l, v) <=> \E s \in DOMAIN l : /\ s <= v /\ v < l[s]
                                         /\ \A r \in DOMAIN l : r <= v => r <= s
  BY <1>1, IsInByLastStart
<1>3. ASSUME NEW s \in DOMAIN l, s <= v, v < l[s], NEW r \in DOMAIN l, r <= v
      PROVE  r <= s
  <2>1. s < r => l[s] < r
    BY DEF Apart
  <2>2. QED
    BY <1>1, <1>3, <2>1
<1>4. QED
  BY <1>2, <1>3 DEF Holds

(***************************************************************************)
(* The end of an interval is in no interval.                               *)
(***************************************************************************)
LEMMA EndNotHeld ==
  ASSUME NEW l, Apart(l), NEW s \in DOMAIN l
  PROVE  ~Holds(l, l[s])
<1>1. \A r \in DOMAIN l : r \in Nat /\ l[r] \in Nat /\ r < l[r]
  BY DEF Apart, IsList
<1>2. \A r \in DOMAIN l : (s < r => l[s] < r) /\ (r < s => l[r] < s)
  BY DEF Apart
<1>3. SUFFICES ASSUME NEW r \in DOMAIN l, r <= l[s], l[s] < l[r] PROVE FALSE
  BY DEF Holds
<1>4. r \in Nat /\ l[r] \in Nat /\ s \in Nat /\ l[s] \in Nat /\ s < l[s]
  BY <1>1
<1>5. CASE s < r
  BY <1>2, <1>3, <1>4, <1>5
<1>6. CASE r < s
  BY <1>2, <1>3, <1>4, <1>6
<1>7. CASE r = s
  BY <1>3, <1>4, <1>7
<1>8. QED
  BY <1>4, <1>5, <1>6, <1>7

-----------------------------------------------------------------------------
(* addition *)

(***************************************************************************)
(* A call leaves a list alone that holds the id.                           *)
(***************************************************************************)
LEMMA HeldStays ==
  ASSUME NEW l, Apart(l), NEW e \in Nat, Holds(l, e)
  PROVE  Adds(l, e, l)
BY DEF Adds, Gap

(***************************************************************************)
(* A list that has every interval of another, but for one that begins at e *)
(* or is made longer from e on, and reaches up to the next or is open.     *)
(***************************************************************************)
LEMMA NewRange ==
  ASSUME NEW l, Apart(l), NEW e \in Nat, ~Holds(l, e), NEW new, Apart(new),
         NEW upTo \in Nat, e < upTo,
         upTo = MaxValue \/ Holds(l, upTo),
         \A v \in Nat : e < v /\ v < upTo => ~Holds(l, v),
         \A v \in Nat : v < MaxValue => (Holds(new, v) <=> Holds(l, v) \/ (e <= v /\ v < upTo))
  PROVE  Adds(l, e, new)
<1>1. SUFFICES ASSUME NEW v \in Nat, v < MaxValue
               PROVE  Holds(l, v) \/ (e <= v /\ v < upTo) <=> Holds(l, v) \/ Gap(l, e, v)
  BY DEF Adds
<1>2. e <= v /\ v < upTo => Gap(l, e, v)
  <2>1. SUFFICES ASSUME e <= v, v < upTo, NEW u \in Nat, e < u, u <= v PROVE ~Holds(l, u)
    BY DEF Gap
  <2>2. u < upTo
    BY <2>1
  <2>3. QED
    BY <2>1, <2>2
<1>3. ASSUME Gap(l, e, v) PROVE v < upTo
  <2>1. ~(v < upTo) => upTo # MaxValue /\ upTo <= v /\ Holds(l, upTo)
    BY <1>1, MaxValueAssumption
  <2>2. upTo <= v => ~Holds(l, upTo)
    BY <1>3 DEF Gap
  <2>3. QED
    BY <2>1, <2>2
<1>4. Gap(l, e, v) => e <= v
  BY DEF Gap
<1>5. QED
  BY <1>2, <1>3, <1>4

\* The first interval.
LEMMA FirstAdds ==
  ASSUME NEW l, Apart(l), DOMAIN l = {}, NEW e \in Nat, e < MaxValue
  PROVE  Adds(l, e, Opened(e))
<1>1. PICK new : new = Opened(e)
  OBVIOUS
<1>2. DOMAIN new = {e} /\ new[e] = MaxValue /\ new = [s \in DOMAIN new |-> new[s]]
  BY <1>1 DEF Opened
<1>3. Apart(new)
  BY <1>2, MaxValueAssumption DEF Apart, IsList
<1>4. \A v : ~Holds(l, v)
  BY DEF Holds
<1>5. \A v \in Nat : Holds(new, v) <=> e <= v /\ v < MaxValue
  BY <1>2 DEF Holds
<1>6. QED
  BY <1>1, <1>3, <1>4, <1>5, MaxValueAssumption, NewRange

\* Behind the last interval and next to it: the interval is open again.
LEMMA ReopenedAdds ==
  ASSUME NEW l, Apart(l), NEW last \in DOMAIN l, \A s \in DOMAIN l : s <= last,
         NEW e \in Nat, e < MaxValue, l[last] = e
  PROVE  Adds(l, e, [l EXCEPT ![last] = MaxValue])
<1>1. PICK new : new = [l EXCEPT ![last] = MaxValue]
  OBVIOUS
<1>2. /\ DOMAIN l \subseteq Nat /\ \A s \in DOMAIN l : s \in Nat /\ l[s] \in Nat /\ s < l[s]
      /\ \A s, r \in DOMAIN l : s < r => l[s] < r
  BY DEF Apart, IsList
<1>3. /\ DOMAIN new = DOMAIN l /\ new = [s \in DOMAIN new |-> new[s]]
      /\ new[last] = MaxValue /\ \A s \in DOMAIN l : s # last => new[s] = l[s]
  BY <1>1 DEF Apart, IsList
<1>4. Apart(new)
  <2>1. \A s \in DOMAIN new : new[s] \in Nat /\ s < new[s]
    BY <1>2, <1>3, MaxValueAssumption
  <2>2. ASSUME NEW s \in DOMAIN new, NEW r \in DOMAIN new, s < r PROVE new[s] < r
    <3>1. s \in Nat /\ r \in Nat /\ last \in Nat /\ r <= last
      BY <1>2, <1>3
    <3>2. s # last
      BY <2>2, <3>1
    <3>3. QED
      BY <1>2, <1>3, <2>2, <3>2
  <2>3. QED
    BY <1>2, <1>3, <2>1, <2>2 DEF Apart, IsList
<1>5. \A v \in Nat : e <= v => ~Holds(l, v)
  <2>1. SUFFICES ASSUME NEW v \in Nat, e <= v, NEW s \in DOMAIN l, s <= v, v < l[s] PROVE FALSE
    BY DEF Holds
  <2>2. s \in Nat /\ l[s] \in Nat /\ last \in Nat /\ s <= last
    BY <1>2
  <2>3. CASE s = last
    BY <2>1, <2>2, <2>3
  <2>4. CASE s # last
    <3>1. s < last
      BY <2>2, <2>4
    <3>2. l[s] < last /\ last < e
      BY <1>2, <3>1
    <3>3. QED
      BY <2>1, <2>2, <3>2
  <2>5. QED
    BY <2>3, <2>4
<1>6. ASSUME NEW v \in Nat, v < MaxValue
      PROVE  Holds(new, v) <=> Holds(l, v) \/ (e <= v /\ v < MaxValue)
  <2>1. (last <= v /\ v < new[last]) <=> (last <= v /\ v < l[last]) \/ (e <= v /\ v < MaxValue)
    BY <1>2, <1>3, <1>6
  <2>2. QED
    BY <1>3, <2>1 DEF Holds
<1>7. ~Holds(l, e) /\ \A v \in Nat : e < v /\ v < MaxValue => ~Holds(l, v)
  BY <1>5
<1>8. QED
  BY <1>1, <1>4, <1>6, <1>7, MaxValueAssumption, NewRange

\* Behind the last interval and apart from it: a new one.
LEMMA AppendedAdds ==
  ASSUME NEW l, Apart(l), NEW last \in DOMAIN l, \A s \in DOMAIN l : s <= last,
         NEW e \in Nat, e < MaxValue, l[last] < e
  PROVE  Adds(l, e, [s \in DOMAIN l \cup {e} |-> IF s = e THEN MaxValue ELSE l[s]])
<1>1. PICK new : new = [s \in DOMAIN l \cup {e} |-> IF s = e THEN MaxValue ELSE l[s]]
  OBVIOUS
<1>2. /\ DOMAIN l \subseteq Nat /\ \A s \in DOMAIN l : s \in Nat /\ l[s] \in Nat /\ s < l[s]
      /\ \A s, r \in DOMAIN l : s < r => l[s] < r
  BY DEF Apart, IsList
<1>3. \A s \in DOMAIN l : s < e /\ l[s] < e
  <2>1. SUFFICES ASSUME NEW s \in DOMAIN l PROVE s < e /\ l[s] < e
    OBVIOUS
  <2>2. s \in Nat /\ l[s] \in Nat /\ s < l[s] /\ last \in Nat /\ l[last] \in Nat /\ last < l[last] /\ s <= last
    BY <1>2
  <2>3. s # last => l[s] < last
    BY <1>2, <2>2
  <2>4. QED
    BY <2>2, <2>3
<1>4. /\ DOMAIN new = DOMAIN l \cup {e} /\ new = [s \in DOMAIN new |-> new[s]]
      /\ new[e] = MaxValue /\ \A s \in DOMAIN l : s # e /\ new[s] = l[s]
  BY <1>1, <1>2, <1>3
<1>5. Apart(new)
  <2>1. \A s \in DOMAIN new : s \in Nat /\ new[s] \in Nat /\ s < new[s]
    BY <1>2, <1>4, MaxValueAssumption
  <2>2. ASSUME NEW s \in DOMAIN new, NEW r \in DOMAIN new, s < r PROVE new[s] < r
    <3>1. CASE s = e
      BY <1>2, <1>3, <1>4, <2>2, <3>1
    <3>2. CASE s # e /\ r = e
      BY <1>3, <1>4, <3>2
    <3>3. CASE s # e /\ r # e
      BY <1>2, <1>4, <2>2, <3>3
    <3>4. QED
      BY <3>1, <3>2, <3>3
  <2>3. QED
    BY <1>4, <2>1, <2>2 DEF Apart, IsList
<1>6. \A v \in Nat : e <= v => ~Holds(l, v)
  BY <1>2, <1>3 DEF Holds
<1>7. \A v \in Nat : Holds(new, v) <=> Holds(l, v) \/ (e <= v /\ v < MaxValue)
  BY <1>4 DEF Holds
<1>8. ~Holds(l, e) /\ \A v \in Nat : e < v /\ v < MaxValue => ~Holds(l, v)
  BY <1>6
<1>9. QED
  BY <1>1, <1>5, <1>7, <1>8, MaxValueAssumption, NewRange

\* Between two intervals, apart from the one before: the next one begins earlier.
LEMMA MovedAdds ==
  ASSUME NEW l, Apart(l), NEW prev \in DOMAIN l, NEW next \in DOMAIN l, NEW e \in Nat,
         \A s \in DOMAIN l : s <= prev \/ next <= s, prev < e, e < next, l[prev] < e
  PROVE  Adds(l, e, [s \in (DOMAIN l \ {next}) \cup {e} |-> IF s = e THEN l[next] ELSE l[s]])
<1>1. PICK new : new = [s \in (DOMAIN l \ {next}) \cup {e} |-> IF s = e THEN l[next] ELSE l[s]]
  OBVIOUS
<1>2. /\ DOMAIN l \subseteq Nat /\ \A s \in DOMAIN l : s \in Nat /\ l[s] \in Nat /\ s < l[s]
      /\ \A s, r \in DOMAIN l : s < r => l[s] < r
  BY DEF Apart, IsList
<1>3. \A s \in DOMAIN l \ {next} : (s < e /\ l[s] < e) \/ l[next] < s
  <2>1. SUFFICES ASSUME NEW s \in DOMAIN l \ {next} PROVE (s < e /\ l[s] < e) \/ l[next] < s
    OBVIOUS
  <2>2. /\ s \in Nat /\ l[s] \in Nat /\ s < l[s] /\ prev \in Nat /\ l[prev] \in Nat
        /\ next \in Nat /\ l[next] \in Nat /\ next < l[next]
    BY <1>2
  <2>3. s < prev => l[s] < prev
    BY <1>2
  <2>4. next < s => l[next] < s
    BY <1>2
  <2>5. s <= prev \/ next <= s
    OBVIOUS
  <2>6. QED
    BY <2>2, <2>3, <2>4, <2>5
<1>4. /\ DOMAIN new = (DOMAIN l \ {next}) \cup {e} /\ new = [s \in DOMAIN new |-> new[s]]
      /\ new[e] = l[next] /\ \A s \in DOMAIN l \ {next} : s # e /\ new[s] = l[s]
  <2>1. e \notin DOMAIN l
    BY <1>2
  <2>2. QED
    BY <1>1, <2>1
<1>5. Apart(new)
  <2>1. \A s \in DOMAIN new : s \in Nat /\ new[s] \in Nat /\ s < new[s]
    BY <1>2, <1>4
  <2>2. ASSUME NEW s \in DOMAIN new, NEW r \in DOMAIN new, s < r PROVE new[s] < r
    <3>1. CASE s = e
      BY <1>2, <1>3, <1>4, <2>1, <2>2, <3>1
    <3>2. CASE s # e /\ r = e
      BY <1>2, <1>3, <1>4, <2>1, <2>2, <3>2
    <3>3. CASE s # e /\ r # e
      BY <1>2, <1>4, <2>2, <3>3
    <3>4. QED
      BY <3>1, <3>2, <3>3
  <2>3. QED
    BY <1>4, <2>1, <2>2 DEF Apart, IsList
<1>6. \A v \in Nat : e <= v /\ v < next => ~Holds(l, v)
  <2>1. SUFFICES ASSUME NEW v \in Nat, e <= v, v < next, NEW s \in DOMAIN l, s <= v, v < l[s] PROVE FALSE
    BY DEF Holds
  <2>2. s \in Nat /\ l[s] \in Nat /\ next \in Nat /\ l[next] \in Nat /\ next < l[next] /\ s # next
    BY <1>2, <2>1
  <2>3. (s < e /\ l[s] < e) \/ l[next] < s
    BY <1>3, <2>2
  <2>4. QED
    BY <2>1, <2>2, <2>3
<1>7. Holds(l, next)
  BY <1>2 DEF Holds
<1>8. ASSUME NEW v \in Nat
      PROVE  Holds(new, v) <=> Holds(l, v) \/ (e <= v /\ v < next)
  <2>1. (e <= v /\ v < new[e]) <=> (next <= v /\ v < l[next]) \/ (e <= v /\ v < next)
    BY <1>2, <1>4
  <2>2. QED
    BY <1>4, <2>1 DEF Holds
<1>9. next \in Nat /\ ~Holds(l, e) /\ \A v \in Nat : e < v /\ v < next => ~Holds(l, v)
  BY <1>2, <1>6
<1>10. QED
  BY <1>1, <1>5, <1>7, <1>8, <1>9, NewRange

\* Between two intervals, next to the one before: the two are joined.
LEMMA JoinedAdds ==
  ASSUME NEW l, Apart(l), NEW prev \in DOMAIN l, NEW next \in DOMAIN l, NEW e \in Nat,
         \A s \in DOMAIN l : s <= prev \/ next <= s, prev < e, e < next, l[prev] = e
  PROVE  Adds(l, e, [Without(l, next) EXCEPT ![prev] = l[next]])
<1>1. PICK new : new = [Without(l, next) EXCEPT ![prev] = l[next]]
  OBVIOUS
<1>2. /\ DOMAIN l \subseteq Nat /\ \A s \in DOMAIN l : s \in Nat /\ l[s] \in Nat /\ s < l[s]
      /\ \A s, r \in DOMAIN l : s < r => l[s] < r
  BY DEF Apart, IsList
<1>3. \A s \in DOMAIN l \ {prev, next} : (s < prev /\ l[s] < prev) \/ l[next] < s
  <2>1. SUFFICES ASSUME NEW s \in DOMAIN l \ {prev, next} PROVE (s < prev /\ l[s] < prev) \/ l[next] < s
    OBVIOUS
  <2>2. s \in Nat /\ prev \in Nat /\ next \in Nat
    BY <1>2
  <2>3. s < prev => l[s] < prev
    BY <1>2
  <2>4. next < s => l[next] < s
    BY <1>2
  <2>5. s <= prev \/ next <= s
    OBVIOUS
  <2>6. QED
    BY <2>2, <2>3, <2>4, <2>5
<1>4. /\ DOMAIN new = DOMAIN l \ {next} /\ new = [s \in DOMAIN new |-> new[s]]
      /\ prev \in DOMAIN new
      /\ new[prev] = l[next] /\ \A s \in DOMAIN l \ {prev, next} : new[s] = l[s]
  <2>1. prev # next
    BY <1>2
  <2>2. QED
    BY <1>1, <2>1 DEF Without
<1>5. Apart(new)
  <2>1. \A s \in DOMAIN new : s \in Nat /\ new[s] \in Nat /\ s < new[s]
    BY <1>2, <1>4
  <2>2. ASSUME NEW s \in DOMAIN new, NEW r \in DOMAIN new, s < r PROVE new[s] < r
    <3>1. CASE s = prev
      <4>1. r \in DOMAIN l \ {prev, next} /\ r \in Nat /\ prev \in Nat
        BY <1>2, <1>4, <2>2, <3>1
      <4>2. QED
        BY <1>3, <1>4, <2>2, <3>1, <4>1
    <3>2. CASE s # prev
      BY <1>2, <1>4, <2>2, <3>2
    <3>3. QED
      BY <3>1, <3>2
  <2>3. QED
    BY <1>4, <2>1, <2>2 DEF Apart, IsList
<1>6. \A v \in Nat : e <= v /\ v < next => ~Holds(l, v)
  <2>1. SUFFICES ASSUME NEW v \in Nat, e <= v, v < next, NEW s \in DOMAIN l, s <= v, v < l[s] PROVE FALSE
    BY DEF Holds
  <2>2. /\ s \in Nat /\ l[s] \in Nat /\ prev \in Nat /\ next \in Nat /\ l[next] \in Nat
        /\ next < l[next] /\ s # next /\ s # prev
    BY <1>2, <2>1
  <2>3. (s < prev /\ l[s] < prev) \/ l[next] < s
    BY <1>3, <2>2
  <2>4. QED
    BY <2>1, <2>2, <2>3
<1>7. Holds(l, next)
  BY <1>2 DEF Holds
<1>8. ASSUME NEW v \in Nat
      PROVE  Holds(new, v) <=> Holds(l, v) \/ (e <= v /\ v < next)
  <2>1. (prev <= v /\ v < new[prev]) <=>
          (prev <= v /\ v < l[prev]) \/ (next <= v /\ v < l[next]) \/ (e <= v /\ v < next)
    BY <1>2, <1>4
  <2>2. QED
    BY <1>4, <2>1 DEF Holds
<1>9. next \in Nat /\ ~Holds(l, e) /\ \A v \in Nat : e < v /\ v < next => ~Holds(l, v)
  BY <1>2, <1>6
<1>10. QED
  BY <1>1, <1>5, <1>7, <1>8, <1>9, NewRange

(***************************************************************************)
(* addition in front of an interval: moved, joined or nothing to do.       *)
(***************************************************************************)
LEMMA InFrontAdds ==
  ASSUME NEW l, Apart(l), NEW e \in Nat, e \notin DOMAIN l, From(l, e) # {}, Before(l, e) # {}
  PROVE  Adds(l, e, AdditionInFront(l, e))
<1>1. PICK next : next = Min(From(l, e))
  OBVIOUS
<1>2. PICK prev : prev = Max(Before(l, e))
  OBVIOUS
<1>3. /\ DOMAIN l \subseteq Nat /\ \A s \in DOMAIN l : s \in Nat /\ l[s] \in Nat /\ s < l[s]
  BY DEF Apart, IsList
<1>4. next \in From(l, e) /\ \A s \in From(l, e) : next <= s
  BY <1>1, <1>3, MinOfNat DEF From
<1>5. prev \in Before(l, e) /\ \A s \in Before(l, e) : s <= prev
  <2>1. Before(l, e) \subseteq Nat /\ \A s \in Before(l, e) : s <= e
    BY <1>3 DEF Before
  <2>2. QED
    BY <1>2, <2>1, MaxOfBounded
<1>6. prev \in DOMAIN l /\ next \in DOMAIN l /\ prev < e /\ e < next
  BY <1>3, <1>4, <1>5 DEF From, Before
<1>7. \A s \in DOMAIN l : s <= prev \/ next <= s
  BY <1>3, <1>4, <1>5 DEF From, Before
<1>8. l[prev] \in Nat
  BY <1>3, <1>6
<1>9. CASE l[prev] < e
  <2>1. AdditionInFront(l, e) =
          [s \in DOMAIN Without(l, next) \cup {e} |-> IF s = e THEN l[next] ELSE l[s]]
    BY <1>1, <1>2, <1>9 DEF AdditionInFront
  <2>2. DOMAIN Without(l, next) = DOMAIN l \ {next}
    BY DEF Without
  <2>3. QED
    BY <1>6, <1>7, <1>9, <2>1, <2>2, MovedAdds
<1>10. CASE l[prev] = e
  <2>1. AdditionInFront(l, e) = [Without(l, next) EXCEPT ![prev] = l[next]]
    BY <1>1, <1>2, <1>8, <1>10 DEF AdditionInFront
  <2>2. Adds(l, e, [Without(l, next) EXCEPT ![prev] = l[next]])
    <3>1. PICK low \in DOMAIN l : low = prev
      BY <1>6
    <3>2. PICK high \in DOMAIN l : high = next
      BY <1>6
    <3>3. Adds(l, e, [Without(l, high) EXCEPT ![low] = l[high]])
      BY <1>6, <1>7, <1>10, <3>1, <3>2, JoinedAdds
    <3>4. QED
      BY <3>1, <3>2, <3>3
  <2>3. QED
    BY <2>1, <2>2
<1>11. CASE e < l[prev]
  <2>1. AdditionInFront(l, e) = l
    BY <1>1, <1>2, <1>8, <1>11 DEF AdditionInFront
  <2>2. Holds(l, e)
    BY <1>3, <1>6, <1>11 DEF Holds
  <2>3. QED
    BY <2>1, <2>2, HeldStays
<1>12. QED
  BY <1>8, <1>9, <1>10, <1>11

(***************************************************************************)
(* addition at any id that the list reaches: the id is added with the ids  *)
(* up to the next that the list holds.                                     *)
(***************************************************************************)
LEMMA AdditionAdds ==
  ASSUME NEW l, Apart(l), NEW e \in Nat, e < MaxValue, Reaches(l, e)
  PROVE  Adds(l, e, Addition(l, e))
<1>1. /\ DOMAIN l \subseteq Nat /\ \A s \in DOMAIN l : s \in Nat /\ l[s] \in Nat /\ s < l[s]
  BY DEF Apart, IsList
<1>2. CASE DOMAIN l = {}
  BY <1>2, FirstAdds DEF Addition
<1>3. CASE e \in DOMAIN l
  <2>1. Addition(l, e) = l
    BY <1>3 DEF Addition, From
  <2>2. Holds(l, e)
    BY <1>1, <1>3 DEF Holds
  <2>3. QED
    BY <2>1, <2>2, HeldStays
<1>4. CASE DOMAIN l # {} /\ e \notin DOMAIN l /\ From(l, e) = {}
  <2>1. PICK last : last = Max(DOMAIN l)
    OBVIOUS
  <2>2. \A s \in DOMAIN l : s < e
    BY <1>1, <1>4 DEF From
  <2>3. last \in DOMAIN l /\ \A s \in DOMAIN l : s <= last
    <3>1. \A s \in DOMAIN l : s <= e
      BY <1>1, <2>2
    <3>2. QED
      BY <1>1, <1>4, <2>1, <3>1, MaxOfBounded
  <2>4. last \in Nat /\ l[last] \in Nat /\ last < e
    BY <1>1, <2>2, <2>3
  <2>5. Addition(l, e) = AdditionAtEnd(l, e)
    BY <1>4 DEF Addition
  <2>6. CASE l[last] = e
    <3>1. AdditionAtEnd(l, e) = [l EXCEPT ![last] = MaxValue]
      BY <2>1, <2>4, <2>6 DEF AdditionAtEnd
    <3>2. Adds(l, l[last], [l EXCEPT ![last] = MaxValue])
      BY <2>3, <2>4, <2>6, ReopenedAdds
    <3>3. QED
      BY <2>5, <2>6, <3>1, <3>2
  <2>7. CASE l[last] < e
    <3>1. AdditionAtEnd(l, e) = [s \in DOMAIN l \cup {e} |-> IF s = e THEN MaxValue ELSE l[s]]
      BY <2>1, <2>4, <2>7 DEF AdditionAtEnd
    <3>2. QED
      BY <2>3, <2>5, <2>7, <3>1, AppendedAdds
  <2>8. CASE e < l[last]
    <3>1. AdditionAtEnd(l, e) = l
      BY <2>1, <2>4, <2>8 DEF AdditionAtEnd
    <3>2. Holds(l, e)
      BY <2>3, <2>4, <2>8 DEF Holds
    <3>3. QED
      BY <2>5, <3>1, <3>2, HeldStays
  <2>9. QED
    BY <2>4, <2>6, <2>7, <2>8
<1>5. CASE DOMAIN l # {} /\ e \notin DOMAIN l /\ From(l, e) # {}
  <2>1. Before(l, e) # {}
    BY <1>1, <1>5 DEF Reaches, UpTo, Before
  <2>2. Addition(l, e) = AdditionInFront(l, e)
    BY <1>5, <2>1 DEF Addition
  <2>3. QED
    BY <1>5, <2>1, <2>2, InFrontAdds
<1>6. QED
  BY <1>2, <1>3, <1>4, <1>5

-----------------------------------------------------------------------------
(* deletion *)

(***************************************************************************)
(* deletion at any id: the id is deleted with the ids after it up to the   *)
(* end of its interval.                                                    *)
(***************************************************************************)
LEMMA DeletionDeletes ==
  ASSUME NEW l, Apart(l), NEW e \in Nat
  PROVE  Deletes(l, e, Deletion(l, e))
<1>1. /\ DOMAIN l \subseteq Nat /\ \A s \in DOMAIN l : s \in Nat /\ l[s] \in Nat /\ s < l[s]
      /\ \A s, r \in DOMAIN l : s < r => l[s] < r
  BY DEF Apart, IsList
<1>2. PICK new : new = Deletion(l, e)
  OBVIOUS
<1>3. CASE ~Holds(l, e)
  <2>1. new = l
    <3>1. CASE UpTo(l, e) = {}
      BY <1>2, <3>1 DEF Deletion
    <3>2. CASE UpTo(l, e) # {}
      <4>1. PICK at : at = Max(UpTo(l, e))
        OBVIOUS
      <4>2. UpTo(l, e) \subseteq Nat /\ \A s \in UpTo(l, e) : s <= e
        BY <1>1 DEF UpTo
      <4>3. at \in UpTo(l, e)
        BY <3>2, <4>1, <4>2, MaxOfBounded
      <4>4. ~(e < l[at])
        BY <1>3, <4>3 DEF UpTo, Holds
      <4>5. QED
        BY <1>2, <3>2, <4>1, <4>4 DEF Deletion
    <3>3. QED
      BY <3>1, <3>2
  <2>2. \A v \in Nat : ~Run(l, e, v)
    BY <1>3 DEF Run
  <2>3. QED
    BY <1>2, <2>1, <2>2 DEF Deletes
<1>4. CASE Holds(l, e)
  <2>1. PICK at \in DOMAIN l : at <= e /\ e < l[at]
    BY <1>4 DEF Holds
  <2>2. at \in Nat /\ l[at] \in Nat
    BY <1>1
  <2>3. \A s \in DOMAIN l : s # at => l[s] < at \/ l[at] < s
    BY <1>1
  <2>4. at = Max(UpTo(l, e)) /\ UpTo(l, e) # {}
    <3>1. at \in UpTo(l, e)
      BY <2>1 DEF UpTo
    <3>2. \A s \in UpTo(l, e) : s <= at
      BY <1>1, <2>1, <2>2, <2>3 DEF UpTo
    <3>3. UpTo(l, e) \subseteq Nat /\ \A s \in UpTo(l, e) : s <= e
      BY <1>1 DEF UpTo
    <3>4. PICK m : m = Max(UpTo(l, e))
      OBVIOUS
    <3>5. m \in UpTo(l, e) /\ \A s \in UpTo(l, e) : s <= m
      BY <3>1, <3>3, <3>4, MaxOfBounded
    <3>6. m <= at /\ at <= m /\ m \in Nat
      BY <3>1, <3>2, <3>3, <3>5
    <3>7. QED
      BY <2>2, <3>1, <3>4, <3>6
  <2>5. \A v \in Nat : Run(l, e, v) <=> e <= v /\ v < l[at]
    <3>1. SUFFICES ASSUME NEW v \in Nat, e <= v PROVE (\A u \in e .. v : Holds(l, u)) <=> v < l[at]
      BY DEF Run
    <3>2. ASSUME v < l[at] PROVE \A u \in e .. v : Holds(l, u)
      BY <2>1, <2>2, <3>2 DEF Holds
    <3>3. ASSUME ~(v < l[at]) PROVE ~(\A u \in e .. v : Holds(l, u))
      <4>1. l[at] \in e .. v
        BY <2>1, <2>2, <3>1, <3>3
      <4>2. QED
        BY <4>1, EndNotHeld
    <3>4. QED
      BY <3>2, <3>3
  <2>6. \A s \in DOMAIN l : s # at => \A v \in Nat : e <= v /\ v < l[at] => ~(s <= v /\ v < l[s])
    BY <1>1, <2>1, <2>2, <2>3
  <2>7. CASE at = e
    <3>1. new = Without(l, at)
      BY <1>2, <2>1, <2>4, <2>7 DEF Deletion
    <3>2. /\ DOMAIN new = DOMAIN l \ {at} /\ new = [s \in DOMAIN new |-> new[s]]
          /\ \A s \in DOMAIN new : new[s] = l[s]
      BY <3>1 DEF Without
    <3>3. Apart(new)
      BY <1>1, <3>2 DEF Apart, IsList
    <3>4. ASSUME NEW v \in Nat PROVE Holds(new, v) <=> Holds(l, v) /\ ~(e <= v /\ v < l[at])
      BY <2>6, <2>7, <3>2 DEF Holds
    <3>5. QED
      BY <1>2, <2>5, <3>3, <3>4 DEF Deletes
  <2>8. CASE at # e
    <3>1. new = [l EXCEPT ![at] = e]
      BY <1>2, <2>1, <2>4, <2>8 DEF Deletion
    <3>2. /\ DOMAIN new = DOMAIN l /\ new = [s \in DOMAIN new |-> new[s]]
          /\ new[at] = e /\ \A s \in DOMAIN l : s # at => new[s] = l[s]
      BY <3>1 DEF Apart, IsList
    <3>3. Apart(new)
      <4>1. \A s \in DOMAIN new : s \in Nat /\ new[s] \in Nat /\ s < new[s]
        BY <1>1, <2>1, <2>2, <2>8, <3>2
      <4>2. ASSUME NEW s \in DOMAIN new, NEW r \in DOMAIN new, s < r PROVE new[s] < r
        <5>1. l[s] < r /\ s \in DOMAIN l /\ l[s] \in Nat /\ r \in Nat
          BY <1>1, <3>2, <4>2
        <5>2. s = at => new[s] = e
          BY <3>2
        <5>3. s # at => new[s] = l[s]
          BY <3>2, <5>1
        <5>4. QED
          BY <2>1, <5>1, <5>2, <5>3
      <4>3. QED
        BY <1>1, <3>2, <4>1, <4>2 DEF Apart, IsList
    <3>4. ASSUME NEW v \in Nat PROVE Holds(new, v) <=> Holds(l, v) /\ ~(e <= v /\ v < l[at])
      <4>1. (at <= v /\ v < new[at]) <=> (at <= v /\ v < l[at]) /\ ~(e <= v /\ v < l[at])
        BY <2>1, <2>2, <3>2
      <4>2. \A s \in DOMAIN l : s # at =>
              ((s <= v /\ v < new[s]) <=> (s <= v /\ v < l[s]) /\ ~(e <= v /\ v < l[at]))
        BY <2>6, <3>2
      <4>3. QED
        BY <3>2, <4>1, <4>2 DEF Holds
    <3>5. QED
      BY <1>2, <2>5, <3>3, <3>4 DEF Deletes
  <2>9. QED
    BY <2>7, <2>8
<1>5. QED
  BY <1>3, <1>4

-----------------------------------------------------------------------------
(* The invariant *)

\* The list and the set of ids are the same; an id is never at the value that means open.
LInv ==
  /\ TypeOK /\ Apart(list)
  /\ \A v \in Ids : Holds(list, v) <=> v \in members

\* No interval is there before the first call.
LEMMA InitLInv == Init => LInv
<1> SUFFICES ASSUME Init PROVE LInv
  OBVIOUS
<1>1. DOMAIN list = {} /\ list = [s \in DOMAIN list |-> list[s]] /\ members = {}
  BY DEF Init, EmptyList
<1>2. IsList(list)
  BY <1>1 DEF IsList
<1>3. Apart(list)
  BY <1>1, <1>2 DEF Apart
<1>4. QED
  BY <1>1, <1>2, <1>3 DEF LInv, TypeOK, Holds

\* The set gains what the list gains.
LEMMA AddLInv ==
  ASSUME LInv, NEW e \in 0 .. Bound - 1, Add(e)
  PROVE  LInv'
<1>1. /\ Bound \in Nat /\ e \in Nat /\ e < MaxValue /\ e \in Ids
      /\ \A v \in Ids : v \in Nat /\ v < MaxValue
  BY BoundAssumption, MaxValueAssumption DEF Ids
<1>2. Apart(list) /\ members \subseteq Ids /\ \A v \in Ids : Holds(list, v) <=> v \in members
  BY DEF LInv, TypeOK
<1>3. PICK new : new = list'
  OBVIOUS
<1>4. Adds(list, e, new)
  BY <1>1, <1>2, <1>3, AdditionAdds DEF Add
<1>5. ASSUME NEW v \in Ids PROVE v \in Filled(e) <=> Gap(list, e, v)
  <2>1. e \in members <=> Holds(list, e)
    BY <1>1, <1>2
  <2>2. (\A u \in members : e < u => v < u) <=> (\A u \in Nat : e < u /\ u <= v => ~Holds(list, u))
    <3>1. ASSUME \A u \in members : e < u => v < u, NEW u \in Nat, e < u, u <= v
          PROVE  ~Holds(list, u)
      <4>1. u \in Ids /\ ~(v < u)
        BY <1>1, <3>1 DEF Ids
      <4>2. QED
        BY <1>2, <3>1, <4>1
    <3>2. ASSUME \A u \in Nat : e < u /\ u <= v => ~Holds(list, u), NEW u \in members, e < u
          PROVE  v < u
      <4>1. u \in Nat /\ v \in Nat /\ Holds(list, u)
        BY <1>1, <1>2
      <4>2. QED
        BY <3>2, <4>1
    <3>3. QED
      BY <3>1, <3>2
  <2>3. v >= e <=> e <= v
    BY <1>1
  <2>4. QED
    BY <2>1, <2>2, <2>3 DEF Filled, Gap
<1>6. ASSUME NEW v \in Ids PROVE Holds(new, v) <=> v \in members'
  BY <1>1, <1>2, <1>4, <1>5 DEF Adds, Add
<1>7. members' \subseteq Ids
  BY <1>2 DEF Add, Filled
<1>8. QED
  BY <1>3, <1>4, <1>6, <1>7 DEF LInv, TypeOK, Adds, Apart

\* The set loses what the list loses.
LEMMA DeleteLInv ==
  ASSUME LInv, NEW e \in 0 .. Bound - 1, Delete(e)
  PROVE  LInv'
<1>1. /\ Bound \in Nat /\ e \in Nat /\ \A v \in Ids : v \in Nat /\ v < MaxValue
  BY BoundAssumption, MaxValueAssumption DEF Ids
<1>2. Apart(list) /\ members \subseteq Ids /\ \A v \in Ids : Holds(list, v) <=> v \in members
  BY DEF LInv, TypeOK
<1>3. PICK new : new = list'
  OBVIOUS
<1>4. Deletes(list, e, new)
  BY <1>1, <1>2, <1>3, DeletionDeletes DEF Delete
<1>5. ASSUME NEW v \in Ids PROVE v \in Cut(e) <=> Run(list, e, v)
  <2>1. e .. v \subseteq Ids
    BY <1>1 DEF Ids
  <2>2. (e .. v) \subseteq members <=> \A u \in e .. v : Holds(list, u)
    BY <1>2, <2>1
  <2>3. v >= e <=> e <= v
    BY <1>1
  <2>4. QED
    BY <2>2, <2>3 DEF Cut, Run
<1>6. ASSUME NEW v \in Ids PROVE Holds(new, v) <=> v \in members'
  BY <1>1, <1>2, <1>4, <1>5 DEF Deletes, Delete
<1>7. members' \subseteq Ids
  BY <1>2 DEF Delete
<1>8. QED
  BY <1>3, <1>4, <1>6, <1>7 DEF LInv, TypeOK, Deletes, Apart

\* Every call keeps the invariant.
LEMMA NextLInv == LInv /\ [Next]_vars => LInv'
<1> SUFFICES ASSUME LInv, [Next]_vars PROVE LInv'
  OBVIOUS
<1>1. CASE Next
  BY <1>1, AddLInv, DeleteLInv DEF Next
<1>2. CASE UNCHANGED vars
  <2>1. list' = list /\ members' = members
    BY <1>2 DEF vars
  <2>2. QED
    BY <2>1 DEF LInv, TypeOK, Apart, IsList, Holds, Ids
<1>3. QED
  BY <1>1, <1>2

\* The invariant holds after any calls.
LEMMA ListInvariant == Spec => []LInv
BY InitLInv, NextLInv, PTL DEF Spec

-----------------------------------------------------------------------------
(* The theorems *)

(***************************************************************************)
(* A list stays a map from ids to ids (interval_list.h).                   *)
(***************************************************************************)
THEOREM ListTypes == Spec => []TypeOK
<1>1. LInv => TypeOK
  BY DEF LInv
<1>2. QED
  BY <1>1, ListInvariant, PTL

(***************************************************************************)
(* is_in says of every id what additions and deletions were to make of it, *)
(* after any number of them, at any ids (addition, deletion, is_in).       *)
(***************************************************************************)
THEOREM IsInAgrees == Spec => []MembershipAgrees
<1>1. LInv => MembershipAgrees
  <2>1. SUFFICES ASSUME LInv, NEW v \in Ids PROVE IsIn(list, v) <=> v \in members
    BY DEF MembershipAgrees
  <2>2. v \in Nat
    BY DEF Ids
  <2>3. IsIn(list, v) <=> Holds(list, v)
    BY <2>1, <2>2, IsInWhenApart DEF LInv
  <2>4. QED
    BY <2>1, <2>3 DEF LInv
<1>2. QED
  BY <1>1, ListInvariant, PTL

(***************************************************************************)
(* Intervals never touch or overlap (addition joins them).                 *)
(***************************************************************************)
THEOREM NeverTouching == Spec => []IntervalsSeparate
<1>1. LInv => IntervalsSeparate
  BY DEF LInv, Apart, IntervalsSeparate
<1>2. QED
  BY <1>1, ListInvariant, PTL
=================================================================================
