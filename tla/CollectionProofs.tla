----------------------------- MODULE CollectionProofs -----------------------------
(***************************************************************************)
(* What the collections of the program are used for: the least and the     *)
(* greatest key of an ordered map or a tree, and the list of ids that the  *)
(* managers keep for their cache.                                          *)
(***************************************************************************)
EXTENDS LruCache, Integers, WellFoundedInduction, SequenceTheorems, FiniteSetTheorems, TLAPS

-----------------------------------------------------------------------------
(* The least and the greatest of a set of numbers *)

(***************************************************************************)
(* A non-empty set of numbers has a least element, the one Min returns.    *)
(***************************************************************************)
LEMMA MinOfNat ==
  ASSUME NEW S, S \subseteq Nat, S # {}
  PROVE  /\ Min(S) \in S
         /\ \A y \in S : Min(S) <= y
<1> DEFINE Less == OpToRel(<, Nat)
<1>1. IsWellFoundedOn(Less, Nat)
  BY NatLessThanWellFounded
<1>0. \A y \in Nat, x \in Nat : y < x => <<y, x>> \in Less
  <2>1. Less = {ss \in Nat \X Nat : ss[1] < ss[2]}
    BY Zenon DEF OpToRel
  <2>2. QED BY <2>1
<1> HIDE DEF Less
<1>2. PICK x \in S : \A y \in S : ~ (<<y, x>> \in Less)
  BY <1>1, WFMin
<1>3. ASSUME NEW y \in S PROVE x <= y
  <2>1. x \in Nat /\ y \in Nat
    OBVIOUS
  <2>2. ~(y < x)
    BY <1>0, <1>2, <2>1
  <2>3. QED
    BY <2>1, <2>2
<1>4. QED
  BY <1>3 DEF Min

(***************************************************************************)
(* A non-empty set of numbers with an upper bound has a greatest element,  *)
(* the one Max returns.                                                    *)
(***************************************************************************)
LEMMA MaxOfBounded ==
  ASSUME NEW b \in Nat, NEW S, S \subseteq Nat, S # {}, \A x \in S : x <= b
  PROVE  /\ Max(S) \in S
         /\ \A y \in S : y <= Max(S)
<1> DEFINE D == {b - x : x \in S}
<1>1. D \subseteq Nat /\ D # {}
  <2>1. \A x \in S : b - x \in Nat
    OBVIOUS
  <2>2. QED
    BY <2>1, Zenon
<1>2. PICK d \in D : \A e \in D : d <= e
  BY <1>1, MinOfNat
<1>3. PICK x \in S : d = b - x
  OBVIOUS
<1>4. \A y \in S : x >= y
  BY <1>2, <1>3
<1>5. PICK m : m = Max(S)
  OBVIOUS
<1>6. m \in S /\ \A y \in S : m >= y
  BY <1>4, <1>5 DEF Max
<1>7. QED
  BY <1>5, <1>6

\* The greater of two numbers.
LEMMA MaxOfTwo ==
  ASSUME NEW a \in Nat, NEW b \in Nat
  PROVE  a <= Max({a, b}) /\ b <= Max({a, b}) /\ Max({a, b}) \in Nat
<1> DEFINE both == {a, b}
<1>1. PICK c : c = a + b
  OBVIOUS
<1>2. c \in Nat /\ both \subseteq Nat /\ both # {} /\ \A x \in both : x <= c
  BY <1>1
<1>3. Max(both) \in both /\ \A y \in both : y <= Max(both)
  BY <1>2, MaxOfBounded
<1>4. QED
  BY <1>2, <1>3

-----------------------------------------------------------------------------
(* The list of a cache: it names every id once, before and after; one id   *)
(* that can be closed leaves it, and the accessed one is in it.            *)

Listed(list)   == {list[i] : i \in DOMAIN list}
Distinct(list) == \A i, j \in DOMAIN list : list[i] = list[j] => i = j

\* A piece of a list.
LEMMA Piece ==
  ASSUME NEW S, NEW list \in Seq(S), NEW a \in Int, NEW b \in Int,
         1 <= a, b <= Len(list), a <= b + 1
  PROVE  /\ SubSeq(list, a, b) \in Seq(S) /\ Len(SubSeq(list, a, b)) = b - a + 1
         /\ \A j \in 1 .. b - a + 1 : SubSeq(list, a, b)[j] = list[a + j - 1]
<1>1. \A j \in a .. b : list[j] \in S
  BY ElementOfSeq, LenProperties
<1>2. Len(SubSeq(list, a, b)) = IF a <= b THEN b - a + 1 ELSE 0
  BY <1>1, SubSeqProperties
<1>3. SubSeq(list, a, b) \in Seq(S)
  BY <1>1, SubSeqProperties
<1>4. \A j \in 1 .. b - a + 1 : SubSeq(list, a, b)[j] = list[a + j - 1]
  BY <1>1, SubSeqProperties
<1>5. QED
  BY <1>2, <1>3, <1>4

\* cut has the entries of list but for the one at i: place says where list has each.
Rearranges(cut, list, n, i, place) ==
  /\ n \in Nat /\ DOMAIN list = 1 .. n /\ i \in 1 .. n /\ DOMAIN cut = 1 .. n - 1
  /\ place \in [1 .. n - 1 -> (1 .. n) \ {i}]
  /\ \A j, k \in 1 .. n - 1 : place[j] = place[k] => j = k
  /\ \A k \in 1 .. n - 1 : cut[k] = list[place[k]]

(***************************************************************************)
(* The entries of list in another order, but for the one at i.             *)
(***************************************************************************)
LEMMA Rearranged ==
  ASSUME NEW cut, NEW list, NEW n, NEW i, NEW place, Rearranges(cut, list, n, i, place),
         Distinct(list)
  PROVE  Distinct(cut) /\ Listed(cut) = Listed(list) \ {list[i]}
<1> USE DEF Rearranges
<1>1. Distinct(cut)
  BY DEF Distinct
<1>2. \A j \in (1 .. n) \ {i} : \E k \in 1 .. n - 1 : place[k] = j
  <2>1. place \in Injection(1 .. n - 1, (1 .. n) \ {i})
    BY DEF Injection, IsInjective
  <2>0. n - 1 \in Nat /\ 1 \in Int /\ n \in Int /\ n - 1 \in Int
    OBVIOUS
  <2>2. IsFiniteSet(1 .. n) /\ Cardinality(1 .. n) = n
    BY <2>0, FS_Interval
  <2>3. IsFiniteSet((1 .. n) \ {i}) /\ Cardinality((1 .. n) \ {i}) = n - 1
    BY <2>2, FS_RemoveElement
  <2>4. IsFiniteSet(1 .. n - 1) /\ Cardinality(1 .. n - 1) = n - 1
    BY <2>0, FS_Interval
  <2>5. place \in Surjection(1 .. n - 1, (1 .. n) \ {i})
    BY <2>1, <2>3, <2>4, FS_Surjection, FS_Injection
  <2>6. QED
    BY <2>5 DEF Surjection
<1>3. Listed(cut) \subseteq Listed(list) \ {list[i]}
  BY DEF Listed, Distinct
<1>4. Listed(list) \ {list[i]} \subseteq Listed(cut)
  <2>1. ASSUME NEW x \in Listed(list) \ {list[i]}
        PROVE  x \in Listed(cut)
    <3>1. PICK j \in 1 .. n : x = list[j]
      BY DEF Listed
    <3>2. PICK k \in 1 .. n - 1 : place[k] = j
      BY <1>2, <2>1, <3>1
    <3>3. QED
      BY <3>1, <3>2 DEF Listed
  <2>2. QED
    BY <2>1
<1>5. QED
  BY <1>1, <1>3, <1>4

(***************************************************************************)
(* A list whose entry at i is taken out, and which may be turned there.    *)
(***************************************************************************)
LEMMA TakenOut ==
  ASSUME NEW S, NEW list \in Seq(S), Distinct(list), NEW i \in DOMAIN list
  PROVE  LET cut == RemoveAt(list, i) IN
         /\ cut \in Seq(S) /\ Len(cut) = Len(list) - 1
         /\ Distinct(cut) /\ Listed(cut) = Listed(list) \ {list[i]}
<1> DEFINE cut == SubSeq(list, 1, i - 1) \o SubSeq(list, i + 1, Len(list))
           place == [k \in 1 .. Len(list) - 1 |-> IF k <= i - 1 THEN k ELSE k + 1]
<1>1. Len(list) \in Nat /\ DOMAIN list = 1 .. Len(list) /\ i \in Int /\ 1 <= i /\ i <= Len(list)
  BY LenProperties
<1>2. PICK before : before = SubSeq(list, 1, i - 1)
  OBVIOUS
<1>3. PICK after : after = SubSeq(list, i + 1, Len(list))
  OBVIOUS
<1>4. /\ before \in Seq(S) /\ Len(before) = i - 1
      /\ \A j \in 1 .. i - 1 : before[j] = list[j]
  BY <1>1, <1>2, Piece
<1>5. /\ after \in Seq(S) /\ Len(after) = Len(list) - i
      /\ \A j \in 1 .. Len(list) - i : after[j] = list[i + j]
  BY <1>1, <1>3, Piece
<1>6. cut = before \o after
  BY <1>2, <1>3
<1> HIDE DEF cut
<1>7. /\ cut \in Seq(S) /\ Len(cut) = Len(before) + Len(after)
      /\ \A k \in 1 .. Len(before) + Len(after) :
           cut[k] = IF k <= Len(before) THEN before[k] ELSE after[k - Len(before)]
  BY <1>4, <1>5, <1>6, ConcatProperties
<1>8. Len(cut) = Len(list) - 1 /\ DOMAIN cut = 1 .. Len(list) - 1
  BY <1>1, <1>4, <1>5, <1>7, LenProperties
<1>9. ASSUME NEW k \in 1 .. Len(list) - 1 PROVE cut[k] = list[place[k]]
  <2>1. CASE k <= i - 1
    <3>1. cut[k] = before[k] /\ k \in 1 .. i - 1
      BY <1>1, <1>4, <1>5, <1>7, <2>1
    <3>2. QED
      BY <1>1, <1>4, <2>1, <3>1
  <2>2. CASE k > i - 1
    <3>0. k - (i - 1) \in 1 .. Len(list) - i /\ k \in 1 .. i - 1 + (Len(list) - i)
      BY <1>1, <2>2
    <3>1. cut[k] = after[k - (i - 1)] /\ k - (i - 1) \in 1 .. Len(list) - i
      BY <1>1, <1>4, <1>5, <1>7, <2>2, <3>0
    <3>2. after[k - (i - 1)] = list[i + (k - (i - 1))] /\ i + (k - (i - 1)) = k + 1
      BY <1>1, <1>5, <3>1
    <3>3. QED
      BY <1>1, <2>2, <3>1, <3>2
  <2>3. QED
    BY <1>1, <2>1, <2>2
<1>10. place \in [1 .. Len(list) - 1 -> (1 .. Len(list)) \ {i}]
  BY <1>1
<1>11. \A j, k \in 1 .. Len(list) - 1 : place[j] = place[k] => j = k
  BY <1>1
<1> HIDE DEF place
<1>12. Distinct(cut) /\ Listed(cut) = Listed(list) \ {list[i]}
  <2>1. PICK n : n = Len(list)
    OBVIOUS
  <2>2. n \in Nat /\ DOMAIN list = 1 .. n /\ i \in 1 .. n
    BY <1>1, <2>1
  <2>3. DOMAIN cut = 1 .. n - 1 /\ place \in [1 .. n - 1 -> (1 .. n) \ {i}]
    BY <1>8, <1>10, <2>1
  <2>4. /\ \A j, k \in 1 .. n - 1 : place[j] = place[k] => j = k
        /\ \A k \in 1 .. n - 1 : cut[k] = list[place[k]]
    BY <1>9, <1>11, <2>1
  <2>5. Rearranges(cut, list, n, i, place)
    BY <2>2, <2>3, <2>4 DEF Rearranges
  <2>6. QED
    BY <2>5, Rearranged
<1>13. QED
  BY <1>7, <1>8, <1>12 DEF cut, RemoveAt

\* Taking out the one in front, when the list was turned to it, leaves the others.
LEMMA TurnedOut ==
  ASSUME NEW S, NEW list \in Seq(S), Distinct(list), NEW i \in DOMAIN list
  PROVE  LET cut == SubSeq(list, i + 1, Len(list)) \o SubSeq(list, 1, i - 1) IN
         /\ cut \in Seq(S) /\ Len(cut) = Len(list) - 1
         /\ Distinct(cut) /\ Listed(cut) = Listed(list) \ {list[i]}
<1> DEFINE cut == SubSeq(list, i + 1, Len(list)) \o SubSeq(list, 1, i - 1)
           behind == Len(list) - i
           place == [k \in 1 .. Len(list) - 1 |-> IF k <= behind THEN i + k ELSE k - behind]
<1>1. Len(list) \in Nat /\ DOMAIN list = 1 .. Len(list) /\ i \in Int /\ 1 <= i /\ i <= Len(list)
  BY LenProperties
<1>2. PICK before : before = SubSeq(list, 1, i - 1)
  OBVIOUS
<1>3. PICK after : after = SubSeq(list, i + 1, Len(list))
  OBVIOUS
<1>4. /\ before \in Seq(S) /\ Len(before) = i - 1
      /\ \A j \in 1 .. i - 1 : before[j] = list[j]
  BY <1>1, <1>2, Piece
<1>5. /\ after \in Seq(S) /\ Len(after) = behind
      /\ \A j \in 1 .. behind : after[j] = list[i + j]
  BY <1>1, <1>3, Piece
<1>6. cut = after \o before
  BY <1>2, <1>3
<1> HIDE DEF cut
<1>7. /\ cut \in Seq(S) /\ Len(cut) = Len(after) + Len(before)
      /\ \A k \in 1 .. Len(after) + Len(before) :
           cut[k] = IF k <= Len(after) THEN after[k] ELSE before[k - Len(after)]
  BY <1>4, <1>5, <1>6, ConcatProperties
<1>8. Len(cut) = Len(list) - 1 /\ DOMAIN cut = 1 .. Len(list) - 1
  BY <1>1, <1>4, <1>5, <1>7, LenProperties
<1>9. ASSUME NEW k \in 1 .. Len(list) - 1 PROVE cut[k] = list[place[k]]
  <2>1. CASE k <= behind
    <3>1. cut[k] = after[k] /\ k \in 1 .. behind
      BY <1>1, <1>4, <1>5, <1>7, <2>1
    <3>2. QED
      BY <1>1, <1>5, <2>1, <3>1
  <2>2. CASE k > behind
    <3>0. k - behind \in 1 .. i - 1 /\ k \in 1 .. behind + (i - 1) /\ behind \in Nat
      BY <1>1, <2>2
    <3>1. cut[k] = before[k - behind] /\ k - behind \in 1 .. i - 1
      BY <1>1, <1>4, <1>5, <1>7, <2>2, <3>0
    <3>2. QED
      BY <1>1, <1>4, <2>2, <3>1
  <2>3. QED
    BY <1>1, <2>1, <2>2
<1>10. place \in [1 .. Len(list) - 1 -> (1 .. Len(list)) \ {i}]
  BY <1>1
<1>11. \A j, k \in 1 .. Len(list) - 1 : place[j] = place[k] => j = k
  BY <1>1
<1> HIDE DEF place
<1>12. Distinct(cut) /\ Listed(cut) = Listed(list) \ {list[i]}
  <2>1. PICK n : n = Len(list)
    OBVIOUS
  <2>2. n \in Nat /\ DOMAIN list = 1 .. n /\ i \in 1 .. n
    BY <1>1, <2>1
  <2>3. DOMAIN cut = 1 .. n - 1 /\ place \in [1 .. n - 1 -> (1 .. n) \ {i}]
    BY <1>8, <1>10, <2>1
  <2>4. /\ \A j, k \in 1 .. n - 1 : place[j] = place[k] => j = k
        /\ \A k \in 1 .. n - 1 : cut[k] = list[place[k]]
    BY <1>9, <1>11, <2>1
  <2>5. Rearranges(cut, list, n, i, place)
    BY <2>2, <2>3, <2>4 DEF Rearranges
  <2>6. QED
    BY <2>5, Rearranged
<1>13. QED
  BY <1>7, <1>8, <1>12 DEF cut

(***************************************************************************)
(* What Turned does: at most one entry leaves, one that can be closed, and *)
(* one does where the list is at its limit and has any.                    *)
(***************************************************************************)
LEMMA TurnedFacts ==
  ASSUME NEW S, NEW list \in Seq(S), Distinct(list), NEW free, NEW limit \in Nat, limit > 0
  PROVE  /\ Closed(list, free, limit) \subseteq free \cap Listed(list)
         /\ Turned(list, free, limit) \in Seq(S) /\ Distinct(Turned(list, free, limit))
         /\ Listed(Turned(list, free, limit)) = Listed(list) \ Closed(list, free, limit)
         /\ \/ Len(Turned(list, free, limit)) = Len(list) - 1
            \/ /\ Len(Turned(list, free, limit)) = Len(list)
               /\ Len(list) < limit \/ free \cap Listed(list) = {}
<1> DEFINE at == Closeable(list, free)
<1>1. Len(list) \in Nat /\ DOMAIN list = 1 .. Len(list)
  BY LenProperties
<1>2. CASE Len(list) >= limit /\ at # {}
  <2>1. at \subseteq Nat /\ \A i \in at : i <= Len(list)
    BY <1>1 DEF Closeable
  <2>2. PICK i : i = Max(at)
    OBVIOUS
  <2>3. i \in at
    BY <1>1, <1>2, <2>1, <2>2, MaxOfBounded
  <2>4. i \in DOMAIN list /\ list[i] \in free
    BY <1>1, <2>3 DEF Closeable
  <2>5. Closed(list, free, limit) = {list[i]}
    BY <1>2, <2>2 DEF Closed
  <2>6. Turned(list, free, limit) = SubSeq(list, i + 1, Len(list)) \o SubSeq(list, 1, i - 1)
    BY <2>2, <2>5 DEF Turned
  <2>7. PICK cut : cut = SubSeq(list, i + 1, Len(list)) \o SubSeq(list, 1, i - 1)
    OBVIOUS
  <2>8. /\ cut \in Seq(S) /\ Len(cut) = Len(list) - 1
        /\ Distinct(cut) /\ Listed(cut) = Listed(list) \ {list[i]}
    BY <2>4, <2>7, TurnedOut
  <2>9. list[i] \in Listed(list)
    BY <2>4 DEF Listed
  <2>10. QED
    BY <2>4, <2>5, <2>6, <2>7, <2>8, <2>9
<1>3. CASE ~(Len(list) >= limit /\ at # {})
  <2>1. Closed(list, free, limit) = {} /\ Turned(list, free, limit) = list
    BY <1>3 DEF Closed, Turned
  <2>2. Len(list) < limit \/ free \cap Listed(list) = {}
    BY <1>1, <1>3 DEF Closeable, Listed
  <2>3. QED
    BY <2>1, <2>2
<1>4. QED
  BY <1>2, <1>3

(***************************************************************************)
(* A new entry before the others.                                          *)
(***************************************************************************)
LEMMA Prepended ==
  ASSUME NEW S, NEW list \in Seq(S), Distinct(list), NEW id \in S, id \notin Listed(list)
  PROVE  /\ <<id>> \o list \in Seq(S) /\ Len(<<id>> \o list) = Len(list) + 1
         /\ Distinct(<<id>> \o list) /\ Listed(<<id>> \o list) = Listed(list) \cup {id}
<1>1. PICK longer : longer = <<id>> \o list
  OBVIOUS
<1>2. <<id>> \in Seq(S) /\ Len(<<id>>) = 1 /\ <<id>>[1] = id
  OBVIOUS
<1>3. Len(list) \in Nat /\ DOMAIN list = 1 .. Len(list)
  BY LenProperties
<1>4. /\ longer \in Seq(S) /\ Len(longer) = Len(list) + 1
      /\ DOMAIN longer = 1 .. Len(list) + 1
      /\ \A k \in 1 .. Len(list) + 1 : longer[k] = IF k = 1 THEN id ELSE list[k - 1]
  <2>1. /\ longer \in Seq(S) /\ Len(longer) = 1 + Len(list)
        /\ \A k \in 1 .. 1 + Len(list) :
             longer[k] = IF k <= 1 THEN <<id>>[k] ELSE list[k - 1]
    BY <1>1, <1>2, ConcatProperties
  <2>2. QED
    BY <1>2, <1>3, <2>1, LenProperties
<1>5. longer[1] = id /\ \A k \in 1 .. Len(list) : longer[k + 1] = list[k]
  BY <1>3, <1>4
<1>6. \A k \in 2 .. Len(list) + 1 : longer[k] = list[k - 1] /\ longer[k] \in Listed(list)
  BY <1>3, <1>4 DEF Listed
<1>7. Distinct(longer)
  <2>1. SUFFICES ASSUME NEW i \in 1 .. Len(list) + 1, NEW j \in 1 .. Len(list) + 1,
                        longer[i] = longer[j]
                 PROVE  i = j
    BY <1>4 DEF Distinct
  <2>2. i = 1 <=> j = 1
    BY <1>3, <1>5, <1>6, <2>1
  <2>3. CASE i # 1
    BY <1>3, <1>6, <2>1, <2>2, <2>3 DEF Distinct
  <2>4. QED
    BY <2>2, <2>3
<1>8. Listed(longer) = Listed(list) \cup {id}
  <2>1. Listed(longer) \subseteq Listed(list) \cup {id}
    BY <1>3, <1>4, <1>5, <1>6 DEF Listed
  <2>2. id \in Listed(longer)
    BY <1>3, <1>4, <1>5 DEF Listed
  <2>3. ASSUME NEW x \in Listed(list) PROVE x \in Listed(longer)
    <3>1. PICK k \in 1 .. Len(list) : x = list[k]
      BY <1>3 DEF Listed
    <3>2. k + 1 \in DOMAIN longer /\ x = longer[k + 1]
      BY <1>3, <1>4, <1>5, <3>1
    <3>3. QED
      BY <3>2 DEF Listed
  <2>4. QED
    BY <2>1, <2>2, <2>3
<1>9. QED
  BY <1>1, <1>4, <1>7, <1>8

(***************************************************************************)
(* What InFront does: the id is listed once, whether it was or not.        *)
(***************************************************************************)
LEMMA InFrontFacts ==
  ASSUME NEW S, NEW list \in Seq(S), Distinct(list), NEW id \in S
  PROVE  /\ InFront(list, id) \in Seq(S) /\ Distinct(InFront(list, id))
         /\ Listed(InFront(list, id)) = Listed(list) \cup {id}
         /\ Len(InFront(list, id)) = IF id \in Listed(list) THEN Len(list) ELSE Len(list) + 1
<1> DEFINE at == {i \in DOMAIN list : list[i] = id}
<1>1. Len(list) \in Nat /\ DOMAIN list = 1 .. Len(list)
  BY LenProperties
<1>2. CASE at = {}
  <2>1. id \notin Listed(list)
    BY <1>2 DEF Listed
  <2>2. InFront(list, id) = <<id>> \o list
    BY <1>2 DEF InFront
  <2>3. QED
    BY <2>1, <2>2, Prepended
<1>3. CASE at # {}
  <2>1. PICK i : i = Min(at)
    OBVIOUS
  <2>2. at \subseteq Nat
    BY <1>1
  <2>3. i \in at
    BY <1>3, <2>1, <2>2, MinOfNat
  <2>4. i \in DOMAIN list /\ list[i] = id
    BY <2>3
  <2>5. PICK cut : cut = RemoveAt(list, i)
    OBVIOUS
  <2>6. InFront(list, id) = <<id>> \o cut
    BY <1>3, <2>1, <2>5 DEF InFront
  <2>7. /\ cut \in Seq(S) /\ Len(cut) = Len(list) - 1
        /\ Distinct(cut) /\ Listed(cut) = Listed(list) \ {id}
    BY <2>4, <2>5, TakenOut
  <2>8. id \in Listed(list)
    BY <2>4 DEF Listed
  <2>9. PICK moved : moved = <<id>> \o cut
    OBVIOUS
  <2>10. /\ moved \in Seq(S) /\ Len(moved) = Len(cut) + 1
         /\ Distinct(moved) /\ Listed(moved) = Listed(cut) \cup {id}
    BY <2>7, <2>9, Prepended
  <2>11. Len(moved) = Len(list) /\ Listed(moved) = Listed(list) \cup {id}
    BY <1>1, <2>7, <2>8, <2>10
  <2>12. QED
    BY <2>6, <2>8, <2>9, <2>10, <2>11
<1>4. QED
  BY <1>2, <1>3

(***************************************************************************)
(* A list of ids that are all held is no longer than there are holders.    *)
(***************************************************************************)
LEMMA NoLongerThanHolders ==
  ASSUME NEW S, NEW list \in Seq(S), Distinct(list), NEW T, IsFiniteSet(T), NEW held,
         \A x \in Listed(list) : \E th \in T : held[th] = x
  PROVE  Len(list) <= Cardinality(T)
<1>1. Len(list) \in Nat /\ DOMAIN list = 1 .. Len(list)
  BY LenProperties
<1> DEFINE holder == [i \in 1 .. Len(list) |-> CHOOSE th \in T : held[th] = list[i]]
<1>2. \A i \in 1 .. Len(list) : holder[i] \in T /\ held[holder[i]] = list[i]
  BY <1>1 DEF Listed
<1>3. holder \in Injection(1 .. Len(list), T)
  <2>1. holder \in [1 .. Len(list) -> T]
    BY <1>2
  <2>2. \A i, j \in 1 .. Len(list) : holder[i] = holder[j] => i = j
    BY <1>1, <1>2 DEF Distinct
  <2>3. QED
    BY <2>1, <2>2 DEF Injection, IsInjective
<1>4. Cardinality(1 .. Len(list)) <= Cardinality(T)
  BY <1>3, FS_Injection
<1>5. Cardinality(1 .. Len(list)) = Len(list)
  BY <1>1, FS_Interval
<1>6. QED
  BY <1>4, <1>5

(***************************************************************************)
(* The last entry in front of the others: the same list, turned by one.    *)
(***************************************************************************)
LEMMA LastInFront ==
  ASSUME NEW S, NEW list \in Seq(S), Distinct(list), Len(list) >= 1
  PROVE  LET turned == <<list[Len(list)]>> \o SubSeq(list, 1, Len(list) - 1) IN
         /\ turned \in Seq(S) /\ Len(turned) = Len(list)
         /\ Distinct(turned) /\ Listed(turned) = Listed(list)
<1>1. PICK n : n = Len(list)
  OBVIOUS
<1>2. n \in Nat /\ n \in 1 .. n /\ n - 1 \in Nat /\ DOMAIN list = 1 .. n
  BY <1>1, LenProperties
<1>3. PICK x : x = list[n]
  OBVIOUS
<1>4. x \in S /\ x \in Listed(list)
  BY <1>1, <1>2, <1>3, ElementOfSeq DEF Listed
<1>5. PICK cut : cut = SubSeq(list, 1, n - 1)
  OBVIOUS
<1>6. cut \in Seq(S) /\ Len(cut) = n - 1 /\ \A k \in 1 .. n - 1 : cut[k] = list[k]
  BY <1>1, <1>2, <1>5, Piece
<1>7. DOMAIN cut = 1 .. n - 1
  BY <1>6, LenProperties
<1>8. Distinct(cut) /\ Listed(cut) = Listed(list) \ {x}
  <2> DEFINE place == [k \in 1 .. n - 1 |-> k]
  <2>1. /\ place \in [1 .. n - 1 -> (1 .. n) \ {n}]
        /\ \A j, k \in 1 .. n - 1 : place[j] = place[k] => j = k
        /\ \A k \in 1 .. n - 1 : cut[k] = list[place[k]]
    BY <1>2, <1>6
  <2> HIDE DEF place
  <2>2. Rearranges(cut, list, n, n, place)
    BY <1>2, <1>7, <2>1 DEF Rearranges
  <2>3. QED
    BY <1>3, <2>2, Rearranged
<1>9. PICK turned : turned = <<x>> \o cut
  OBVIOUS
<1>10. /\ turned \in Seq(S) /\ Len(turned) = Len(cut) + 1
       /\ Distinct(turned) /\ Listed(turned) = Listed(cut) \cup {x}
  BY <1>4, <1>6, <1>8, <1>9, Prepended
<1>11. Len(turned) = n /\ Listed(turned) = Listed(list)
  BY <1>2, <1>4, <1>6, <1>8, <1>10
<1>12. QED
  BY <1>1, <1>3, <1>5, <1>9, <1>10, <1>11
===================================================================================
