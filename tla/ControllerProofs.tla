---------------------------- MODULE ControllerProofs ----------------------------
(***************************************************************************)
(* The controller, for any set of triples, any strategies and any number   *)
(* of versions: the chains follow each other without a gap, every one on   *)
(* the snapshot before it, and that is why a query of a version finds the  *)
(* same triples whatever is appended and made a snapshot after it.         *)
(***************************************************************************)
EXTENDS Controller, CollectionProofs

-----------------------------------------------------------------------------
(* The inductive invariant *)

\* The id after the last patch of a tree.
NextOf(t) == t + Len(trees[t].patches)

(***************************************************************************)
(* Every version but the first is a patch of one tree, every tree starts   *)
(* behind a snapshot, and no snapshot lies within a tree but its last one. *)
(***************************************************************************)
ChainsInOrder ==
  /\ 0 \in DOMAIN snapshots /\ DOMAIN snapshots \subseteq 0 .. patchId - 1
  /\ \A t \in DOMAIN trees : t - 1 \in DOMAIN snapshots /\ NextOf(t) <= patchId
  /\ \A t, u \in DOMAIN trees : t < u => NextOf(t) <= u
  /\ \A id \in 1 .. patchId - 1 : \E t \in DOMAIN trees : t <= id /\ id < NextOf(t)
  /\ \A t \in DOMAIN trees, s \in DOMAIN snapshots : s < t \/ NextOf(t) - 1 <= s

\* A patch is merged into a tree that ends in front of it, behind every snapshot.
AppendInOrder ==
  /\ phase = "merging" =>
       /\ patchId <= LastPatch
       /\ \E t \in DOMAIN trees : NextOf(t) = patchId /\ \A s \in DOMAIN snapshots : s < t
  /\ phase = "creating" => patchId >= 2 /\ patchId - 1 \notin DOMAIN snapshots
  /\ \A t \in DOMAIN trees : trees[t].patches = <<>> => phase = "merging" /\ t = patchId

\* A dictionary has every triple once, those of its snapshot first.
DictsDistinct ==
  \A s \in DOMAIN snapshots :
    /\ \A c, d \in DOMAIN dicts[s] : dicts[s][c] = dicts[s][d] => c = d
    /\ HdtCodes(snapshots[s]) \subseteq DOMAIN dicts[s]
    /\ snapshots[s] = {dicts[s][c] : c \in HdtCodes(snapshots[s])}

\* The codes and the triples of a version of a tree.
CodesAfter(base, changes) == (base \ changes.deleted) \cup (changes.added \ base)
TriplesOfCodes(dict, codes) == {dict[c] : c \in codes}
Contents(t, id) ==
  TriplesOfCodes(dicts[t - 1], CodesAfter(trees[t].base, trees[t].patches[id - t + 1]))

\* A tree has the codes of its snapshot, and the last version of a tree may be the next snapshot.
TreesOnSnapshots ==
  \A t \in DOMAIN trees :
    /\ trees[t].base = HdtCodes(snapshots[t - 1])
    /\ trees[t].patches \in Seq([added : SUBSET Nat, deleted : SUBSET Nat])
    /\ \A id \in t .. NextOf(t) - 1 : id \in DOMAIN snapshots => snapshots[id] = Contents(t, id)

\* A patch adds nothing that it deletes, and the dictionary knows all of it.
PatchKnown ==
  /\ adds \cap dels = {}
  /\ phase = "merging" => adds \cup dels \subseteq ToSet(dicts[LatestSnapshot(patchId)])

CInv ==
  /\ TypeOK /\ ChainsInOrder /\ AppendInOrder
  /\ DictsDistinct /\ TreesOnSnapshots /\ PatchKnown

-----------------------------------------------------------------------------
(* Dictionaries *)

\* The range of a sequence that enumerates a set is the set.
LEMMA EnumerationFacts ==
  ASSUME NEW S, IsFiniteSet(S), NEW new \in SetToSeqs(S)
  PROVE  /\ Cardinality(S) \in Nat /\ new \in [1 .. Cardinality(S) -> S]
         /\ new \in Seq(S) /\ Len(new) = Cardinality(S) /\ DOMAIN new = 1 .. Cardinality(S)
         /\ \A c, d \in 1 .. Cardinality(S) : new[c] = new[d] => c = d
         /\ \A x \in S : \E c \in 1 .. Cardinality(S) : new[c] = x
<1>1. PICK n : n = Cardinality(S)
  OBVIOUS
<1>2. n \in Nat
  BY <1>1, FS_CardinalityType
<1>3. new \in [1 .. n -> S] /\ \A c, d \in 1 .. n : new[c] = new[d] => c = d
  BY <1>1 DEF SetToSeqs
<1>4. new \in Seq(S) /\ Len(new) = n /\ DOMAIN new = 1 .. n
  BY <1>2, <1>3
<1>5. new \in Injection(1 .. n, S)
  BY <1>3 DEF Injection, IsInjective
<1>6. IsFiniteSet(1 .. n) /\ Cardinality(1 .. n) = n
  BY <1>2, FS_Interval
<1>7. new \in Surjection(1 .. n, S)
  BY <1>1, <1>5, <1>6, FS_Injection
<1>8. QED
  BY <1>1, <1>2, <1>3, <1>4, <1>7 DEF Surjection

\* A finite set of numbers can be put in order: an element comes behind all smaller ones.
LEMMA SortedExists ==
  ASSUME NEW S, S \subseteq Nat, IsFiniteSet(S)
  PROVE  \E f \in SetToSeqs(S) : \A i, j \in DOMAIN f : i < j => f[i] < f[j]
<1>1. PICK n : n = Cardinality(S)
  OBVIOUS
<1>2. n \in Nat
  BY <1>1, FS_CardinalityType
<1> DEFINE Smaller(x) == {y \in S : y < x}
           rank == [x \in S |-> Cardinality(Smaller(x)) + 1]
<1>3. ASSUME NEW x \in S
      PROVE  /\ IsFiniteSet(Smaller(x)) /\ Cardinality(Smaller(x)) \in Nat
             /\ Cardinality(Smaller(x)) < n
  <2>1. IsFiniteSet(S \ {x}) /\ Cardinality(S \ {x}) = n - 1
    BY <1>1, FS_RemoveElement
  <2>2. Smaller(x) \in SUBSET (S \ {x})
    OBVIOUS
  <2>3. IsFiniteSet(Smaller(x)) /\ Cardinality(Smaller(x)) <= n - 1
    BY <2>1, <2>2, FS_Subset
  <2>4. Cardinality(Smaller(x)) \in Nat
    BY <2>3, FS_CardinalityType
  <2>5. QED
    BY <1>2, <2>3, <2>4
<1>4. ASSUME NEW x \in S, NEW y \in S, x < y
      PROVE  rank[x] < rank[y]
  <2>1. Smaller(x) \in SUBSET (Smaller(y) \ {x}) /\ x \in Smaller(y)
    <3>1. x \in Nat /\ y \in Nat
      OBVIOUS
    <3>2. \A z \in S : z < x => z < y /\ z # x
      BY <1>4, <3>1
    <3>3. QED
      BY <1>4, <3>2
  <2>2. IsFiniteSet(Smaller(y) \ {x})
        /\ Cardinality(Smaller(y) \ {x}) = Cardinality(Smaller(y)) - 1
    BY <1>3, <2>1, FS_RemoveElement
  <2>3. Cardinality(Smaller(x)) <= Cardinality(Smaller(y) \ {x})
    BY <2>1, <2>2, FS_Subset
  <2>4. Cardinality(Smaller(x)) \in Nat /\ Cardinality(Smaller(y)) \in Nat
    BY <1>3
  <2>5. QED
    BY <2>2, <2>3, <2>4
<1>5. rank \in [S -> 1 .. n]
  BY <1>2, <1>3
<1> HIDE DEF rank
<1>6. rank \in Injection(S, 1 .. n)
  <2>1. ASSUME NEW x \in S, NEW y \in S, rank[x] = rank[y] PROVE x = y
    <3>1. rank[x] \in Nat /\ rank[y] \in Nat
      BY <1>2, <1>5
    <3>2. ~(x < y) /\ ~(y < x)
      BY <1>4, <2>1, <3>1
    <3>3. QED
      BY <3>2
  <2>2. QED
    BY <1>5, <2>1 DEF Injection, IsInjective
<1>7. rank \in Surjection(S, 1 .. n)
  <2>1. IsFiniteSet(1 .. n) /\ Cardinality(1 .. n) = n
    BY <1>2, FS_Interval
  <2>2. QED
    BY <1>1, <1>6, <2>1, FS_Injection
<1> DEFINE f == [i \in 1 .. n |-> CHOOSE x \in S : rank[x] = i]
<1>8. \A i \in 1 .. n : f[i] \in S /\ rank[f[i]] = i
  BY <1>7 DEF Surjection
<1>9. f \in [1 .. n -> S] /\ DOMAIN f = 1 .. n
  BY <1>8
<1> HIDE DEF f
<1>10. f \in SetToSeqs(S)
  BY <1>1, <1>8, <1>9 DEF SetToSeqs
<1>11. ASSUME NEW i \in 1 .. n, NEW j \in 1 .. n, i < j PROVE f[i] < f[j]
  <2>1. f[i] \in S /\ f[j] \in S /\ rank[f[i]] = i /\ rank[f[j]] = j
    BY <1>8
  <2>2. PICK x \in S, y \in S : x = f[i] /\ y = f[j] /\ rank[x] = i /\ rank[y] = j
    BY <2>1
  <2>3. x # y /\ ~(y < x)
    <3>1. i \in Nat /\ j \in Nat
      BY <1>2
    <3>2. y < x => rank[y] < rank[x]
      BY <1>4
    <3>3. QED
      BY <1>11, <2>2, <3>1, <3>2
  <2>4. x \in Nat /\ y \in Nat
    OBVIOUS
  <2>5. QED
    BY <2>2, <2>3, <2>4
<1>12. QED
  BY <1>9, <1>10, <1>11

\* The dictionary of a new snapshot lists its triples.
LEMMA SortedFacts ==
  ASSUME NEW S \in SUBSET Triples
  PROVE  IsFiniteSet(S) /\ Sorted(S) \in SetToSeqs(S)
<1>1. IsFiniteSet(S) /\ S \subseteq Nat
  BY TriplesAssumption, FS_Subset
<1>2. QED
  BY <1>1, SortedExists DEF Sorted

DistinctCodes(dict) == \A c, d \in DOMAIN dict : dict[c] = dict[d] => c = d

\* A dictionary that takes up new triples keeps the codes of the others.
LEMMA DictionaryGrows ==
  ASSUME NEW dict \in Seq(Triples), DistinctCodes(dict),
         NEW S \in SUBSET Triples, S \cap ToSet(dict) = {}, NEW new \in SetToSeqs(S)
  PROVE  /\ dict \o new \in Seq(Triples) /\ DistinctCodes(dict \o new)
         /\ DOMAIN dict \subseteq DOMAIN (dict \o new)
         /\ \A c \in DOMAIN dict : (dict \o new)[c] = dict[c]
         /\ ToSet(dict \o new) = ToSet(dict) \cup S
<1>1. IsFiniteSet(S)
  BY TriplesAssumption, FS_Subset
<1>2. PICK n : n = Cardinality(S)
  OBVIOUS
<1>3. /\ n \in Nat /\ new \in Seq(Triples) /\ Len(new) = n /\ DOMAIN new = 1 .. n
      /\ \A c \in 1 .. n : new[c] \in S
      /\ \A c, d \in 1 .. n : new[c] = new[d] => c = d
      /\ \A x \in S : \E c \in 1 .. n : new[c] = x
  <2>1. new \in Seq(Triples)
    BY <1>1, EnumerationFacts, SeqMonotonic
  <2>2. QED
    BY <1>1, <1>2, <2>1, EnumerationFacts
<1>4. PICK m : m = Len(dict)
  OBVIOUS
<1>5. m \in Nat /\ DOMAIN dict = 1 .. m
  BY <1>4, LenProperties
<1>6. PICK longer : longer = dict \o new
  OBVIOUS
<1>7. longer \in Seq(Triples) /\ Len(longer) = m + n
  <2>1. dict \o new \in Seq(Triples)
    BY <1>3
  <2>2. Len(dict \o new) = Len(dict) + Len(new)
    BY <1>3
  <2>3. QED
    BY <1>3, <1>4, <1>6, <2>1, <2>2
<1>8. DOMAIN longer = 1 .. m + n
  BY <1>7, LenProperties
<1>14. \A c \in 1 .. m + n : longer[c] = IF c <= m THEN dict[c] ELSE new[c - m]
  <2>1. \A c \in 1 .. Len(dict) + Len(new) :
          (dict \o new)[c] = IF c <= Len(dict) THEN dict[c] ELSE new[c - Len(dict)]
    BY <1>3, ConcatProperties
  <2>2. QED
    BY <1>3, <1>4, <1>6, <2>1
<1>9. \A c \in 1 .. m : longer[c] = dict[c] /\ longer[c] \in ToSet(dict)
  <2>1. ASSUME NEW c \in 1 .. m PROVE longer[c] = dict[c]
    <3>1. c \in 1 .. m + n /\ c <= m
      BY <1>3, <1>5
    <3>2. QED
      BY <1>14, <3>1
  <2>2. \A c \in 1 .. m : dict[c] \in ToSet(dict)
    BY <1>5 DEF ToSet
  <2>3. QED
    BY <2>1, <2>2
<1>10. \A c \in m + 1 .. m + n : c - m \in 1 .. n /\ longer[c] = new[c - m] /\ longer[c] \in S
  <2>1. ASSUME NEW c \in m + 1 .. m + n
        PROVE  c \in 1 .. m + n /\ ~(c <= m) /\ c - m \in 1 .. n
    BY <1>3, <1>5
  <2>2. QED
    BY <1>3, <1>14, <2>1
<1>11. DistinctCodes(longer)
  <2>1. SUFFICES ASSUME NEW c \in 1 .. m + n, NEW d \in 1 .. m + n, longer[c] = longer[d]
                 PROVE  c = d
    BY <1>8 DEF DistinctCodes
  <2>2. CASE c <= m /\ d <= m
    BY <1>5, <1>9, <2>1, <2>2 DEF DistinctCodes
  <2>3. CASE ~(c <= m) /\ ~(d <= m)
    <3>1. c \in m + 1 .. m + n /\ d \in m + 1 .. m + n
      BY <1>3, <1>5, <2>3
    <3>2. c - m = d - m
      BY <1>3, <1>10, <2>1, <3>1
    <3>3. QED
      BY <1>3, <1>5, <3>2
  <2>4. c <= m <=> d <= m
    <3>1. c <= m => longer[c] \in ToSet(dict)
      BY <1>3, <1>5, <1>9
    <3>2. d <= m => longer[d] \in ToSet(dict)
      BY <1>3, <1>5, <1>9
    <3>3. ~(c <= m) => longer[c] \in S
      BY <1>3, <1>5, <1>10
    <3>4. ~(d <= m) => longer[d] \in S
      BY <1>3, <1>5, <1>10
    <3>5. QED
      BY <2>1, <3>1, <3>2, <3>3, <3>4
  <2>5. QED
    BY <2>2, <2>3, <2>4
<1>12. ToSet(longer) = ToSet(dict) \cup S
  <2>1. ToSet(longer) \subseteq ToSet(dict) \cup S
    <3>1. ASSUME NEW c \in 1 .. m + n PROVE longer[c] \in ToSet(dict) \cup S
      <4>1. c \in 1 .. m \/ c \in m + 1 .. m + n
        BY <1>3, <1>5
      <4>2. QED
        BY <1>9, <1>10, <4>1
    <3>2. QED
      BY <1>8, <3>1 DEF ToSet
  <2>2. ToSet(dict) \subseteq ToSet(longer)
    BY <1>3, <1>5, <1>8, <1>9 DEF ToSet
  <2>3. ASSUME NEW x \in S PROVE x \in ToSet(longer)
    <3>1. PICK c \in 1 .. n : new[c] = x
      BY <1>3
    <3>2. m + c \in m + 1 .. m + n /\ (m + c) - m = c /\ m + c \in 1 .. m + n
      BY <1>3, <1>5
    <3>3. longer[m + c] = x
      BY <1>10, <3>1, <3>2
    <3>4. QED
      BY <1>8, <3>2, <3>3 DEF ToSet
  <2>4. QED
    BY <2>1, <2>2, <2>3
<1>13. QED
  BY <1>3, <1>5, <1>6, <1>7, <1>8, <1>9, <1>11, <1>12

\* The code of a triple.
LEMMA CodeFacts ==
  ASSUME NEW dict, DistinctCodes(dict), NEW S, S \subseteq ToSet(dict)
  PROVE  /\ Codes(dict, S) \subseteq DOMAIN dict
         /\ \A c \in DOMAIN dict : c \in Codes(dict, S) <=> dict[c] \in S
<1>1. ASSUME NEW t \in S
      PROVE  Code(dict, t) \in DOMAIN dict /\ dict[Code(dict, t)] = t
  <2>1. \E code \in DOMAIN dict : dict[code] = t
    BY <1>1 DEF ToSet
  <2>2. QED
    BY <2>1 DEF Code
<1>2. \A c \in DOMAIN dict : dict[c] \in S => Code(dict, dict[c]) = c
  BY <1>1 DEF DistinctCodes
<1>3. QED
  BY <1>1, <1>2 DEF Codes

\* A patch, of the triples S to add and R to delete, that is merged into changes.
Merges(dict, base, changes, S, R, merged) ==
  /\ DistinctCodes(dict) /\ base \subseteq DOMAIN dict
  /\ changes.added \subseteq DOMAIN dict /\ changes.deleted \subseteq DOMAIN dict
  /\ S \cup R \subseteq ToSet(dict) /\ S \cap R = {}
  /\ merged = Merged(changes, Codes(dict, S), Codes(dict, R))

(***************************************************************************)
(* A merged patch takes the triples it deletes out of a version and adds   *)
(* the others: what append_unsafe writes is the version its delta wants.   *)
(***************************************************************************)
LEMMA MergedContents ==
  ASSUME NEW dict, NEW base, NEW changes, NEW S, NEW R, NEW merged,
         Merges(dict, base, changes, S, R, merged)
  PROVE  /\ merged \in [added : SUBSET (DOMAIN dict), deleted : SUBSET (DOMAIN dict)]
         /\ TriplesOfCodes(dict, CodesAfter(base, merged)) =
              (TriplesOfCodes(dict, CodesAfter(base, changes)) \ R) \cup S
<1>0. /\ DistinctCodes(dict) /\ base \subseteq DOMAIN dict
      /\ changes.added \subseteq DOMAIN dict /\ changes.deleted \subseteq DOMAIN dict
      /\ S \cup R \subseteq ToSet(dict) /\ S \cap R = {}
      /\ merged = Merged(changes, Codes(dict, S), Codes(dict, R))
  BY DEF Merges
<1>1. PICK a : a = Codes(dict, S)
  OBVIOUS
<1>2. PICK d : d = Codes(dict, R)
  OBVIOUS
<1>3. /\ a \subseteq DOMAIN dict /\ d \subseteq DOMAIN dict
      /\ \A c \in DOMAIN dict : c \in a <=> dict[c] \in S
      /\ \A c \in DOMAIN dict : c \in d <=> dict[c] \in R
  BY <1>0, <1>1, <1>2, CodeFacts
<1>4. /\ merged = [added |-> (changes.added \ d) \cup a, deleted |-> (changes.deleted \ a) \cup d]
      /\ merged.added = (changes.added \ d) \cup a
      /\ merged.deleted = (changes.deleted \ a) \cup d
  BY <1>0, <1>1, <1>2 DEF Merged
<1>5. merged \in [added : SUBSET (DOMAIN dict), deleted : SUBSET (DOMAIN dict)]
  BY <1>0, <1>3, <1>4
<1>6. a \cap d = {}
  BY <1>0, <1>3
<1>7. PICK old : old = CodesAfter(base, changes)
  OBVIOUS
<1>8. PICK cur : cur = CodesAfter(base, merged)
  OBVIOUS
<1>9. cur = (old \ d) \cup a
  BY <1>3, <1>4, <1>6, <1>7, <1>8 DEF CodesAfter
<1>10. old \subseteq DOMAIN dict
  BY <1>0, <1>7 DEF CodesAfter
<1>11. TriplesOfCodes(dict, cur) = (TriplesOfCodes(dict, old) \ R) \cup S
  <2>1. ASSUME NEW c \in cur PROVE dict[c] \in (TriplesOfCodes(dict, old) \ R) \cup S
    BY <1>0, <1>3, <1>9, <1>10, <2>1 DEF TriplesOfCodes
  <2>2. ASSUME NEW c \in old, dict[c] \notin R PROVE dict[c] \in TriplesOfCodes(dict, cur)
    BY <1>0, <1>3, <1>9, <1>10, <2>2 DEF TriplesOfCodes
  <2>3. ASSUME NEW t \in S PROVE t \in TriplesOfCodes(dict, cur)
    <3>1. PICK c \in DOMAIN dict : dict[c] = t
      BY <1>0, <2>3 DEF ToSet
    <3>2. c \in cur
      BY <1>3, <1>9, <2>3, <3>1
    <3>3. QED
      BY <3>1, <3>2 DEF TriplesOfCodes
  <2>4. TriplesOfCodes(dict, cur) \subseteq (TriplesOfCodes(dict, old) \ R) \cup S
    BY <2>1 DEF TriplesOfCodes
  <2>5. TriplesOfCodes(dict, old) \ R \subseteq TriplesOfCodes(dict, cur)
    BY <2>2 DEF TriplesOfCodes
  <2>6. QED
    BY <2>3, <2>4, <2>5
<1>12. QED
  BY <1>5, <1>7, <1>8, <1>11

-----------------------------------------------------------------------------
(* Which snapshot and which tree a version is read from *)

\* What LatestIn returns: the last id up to the given one, or -1.
LEMMA LatestIs ==
  ASSUME NEW b \in Nat, NEW ids, ids \subseteq 0 .. b, NEW id \in Int
  PROVE  /\ (\A i \in ids : ~(i <= id)) => LatestIn(ids, id) = -1
         /\ \A x \in ids : x <= id /\ (\A i \in ids : i <= id => i <= x) => LatestIn(ids, id) = x
<1>1. PICK upTo : upTo = {i \in ids : i <= id}
  OBVIOUS
<1>2. LatestIn(ids, id) = IF upTo = {} THEN -1 ELSE Max(upTo)
  BY <1>1 DEF LatestIn
<1>3. (\A i \in ids : ~(i <= id)) => LatestIn(ids, id) = -1
  BY <1>1, <1>2
<1>4. ASSUME NEW x \in ids, x <= id, \A i \in ids : i <= id => i <= x
      PROVE  LatestIn(ids, id) = x
  <2>1. x \in upTo /\ \A i \in upTo : i \in Nat /\ i <= x
    BY <1>1, <1>4
  <2>2. x \in Nat /\ upTo \subseteq Nat /\ upTo # {}
    BY <2>1
  <2>3. Max(upTo) \in upTo /\ \A y \in upTo : y <= Max(upTo)
    BY <2>1, <2>2, MaxOfBounded
  <2>4. PICK m : m = Max(upTo)
    OBVIOUS
  <2>5. m \in Nat /\ m <= x /\ x <= m
    BY <2>1, <2>3, <2>4
  <2>6. m = x
    BY <2>2, <2>5
  <2>7. QED
    BY <1>2, <2>2, <2>4, <2>6
<1>5. QED
  BY <1>3, <1>4

\* Places and lengths of the trees.
LEMMA TreeTypes ==
  CInv => \A t \in DOMAIN trees :
            /\ t \in Nat /\ 1 <= t /\ t <= LastPatch /\ patchId \in Nat
            /\ Len(trees[t].patches) \in Nat /\ NextOf(t) \in Nat
            /\ NextOf(t) = t + Len(trees[t].patches) /\ NextOf(t) <= patchId
            /\ DOMAIN trees[t].patches = 1 .. Len(trees[t].patches)
            /\ trees[t].patches = <<>> <=> Len(trees[t].patches) = 0
            /\ t - 1 \in DOMAIN snapshots
<1> SUFFICES ASSUME CInv, NEW t \in DOMAIN trees
             PROVE  /\ t \in Nat /\ 1 <= t /\ t <= LastPatch /\ patchId \in Nat
                    /\ Len(trees[t].patches) \in Nat /\ NextOf(t) \in Nat
                    /\ NextOf(t) = t + Len(trees[t].patches) /\ NextOf(t) <= patchId
                    /\ DOMAIN trees[t].patches = 1 .. Len(trees[t].patches)
                    /\ trees[t].patches = <<>> <=> Len(trees[t].patches) = 0
                    /\ t - 1 \in DOMAIN snapshots
  OBVIOUS
<1>1. t \in 1 .. LastPatch /\ patchId \in 1 .. LastPatch + 1
  BY DEF CInv, TypeOK
<1>2. t \in Nat /\ 1 <= t /\ t <= LastPatch /\ patchId \in Nat
  BY <1>1, LastPatchAssumption
<1>3. PICK p : p = trees[t].patches
  OBVIOUS
<1>4. p \in Seq([added : SUBSET Nat, deleted : SUBSET Nat])
  BY <1>3 DEF CInv, TreesOnSnapshots
<1>5. Len(p) \in Nat /\ DOMAIN p = 1 .. Len(p) /\ (p = <<>> <=> Len(p) = 0)
  BY <1>4
<1>6. NextOf(t) = t + Len(p) /\ NextOf(t) <= patchId /\ t - 1 \in DOMAIN snapshots
  BY <1>3 DEF CInv, ChainsInOrder, NextOf
<1>7. QED
  BY <1>2, <1>3, <1>5, <1>6

(***************************************************************************)
(* A version of a tree is read from that tree and, unless it was made a    *)
(* snapshot, from the snapshot that the tree starts behind.                *)
(***************************************************************************)
LEMMA ChainOf ==
  CInv => \A t \in DOMAIN trees, id \in Int :
            t <= id /\ id < NextOf(t)
              => /\ PatchTreeId(id) = t
                 /\ id \notin DOMAIN snapshots => LatestSnapshot(id) = t - 1
<1> SUFFICES ASSUME CInv, NEW t \in DOMAIN trees, NEW id \in Int, t <= id, id < NextOf(t)
             PROVE  /\ PatchTreeId(id) = t
                    /\ id \notin DOMAIN snapshots => LatestSnapshot(id) = t - 1
  OBVIOUS
<1>1. /\ t \in Nat /\ NextOf(t) \in Nat /\ t - 1 \in DOMAIN snapshots
      /\ \A u \in DOMAIN trees : u \in Nat
  BY TreeTypes
<1>2. DOMAIN trees \subseteq 0 .. LastPatch /\ DOMAIN snapshots \subseteq 0 .. LastPatch
  BY LastPatchAssumption DEF CInv, TypeOK
<1>3. \A u \in DOMAIN trees : u <= id => u <= t
  <2>1. SUFFICES ASSUME NEW u \in DOMAIN trees, u <= id, ~(u <= t) PROVE FALSE
    OBVIOUS
  <2>2. NextOf(t) <= u
    BY <1>1, <2>1 DEF CInv, ChainsInOrder
  <2>3. QED
    BY <1>1, <2>1, <2>2
<1>4. PatchTreeId(id) = t
  BY <1>2, <1>3, LastPatchAssumption, LatestIs DEF PatchTreeId
<1>5. ASSUME id \notin DOMAIN snapshots PROVE LatestSnapshot(id) = t - 1
  <2>1. ASSUME NEW s \in DOMAIN snapshots, s <= id PROVE s <= t - 1
    <3>1. s \in Nat
      BY <1>2
    <3>2. s < t \/ NextOf(t) - 1 <= s
      BY DEF CInv, ChainsInOrder
    <3>3. s # id
      BY <1>5
    <3>4. QED
      BY <1>1, <2>1, <3>1, <3>2, <3>3
  <2>2. t - 1 <= id
    BY <1>1
  <2>3. QED
    BY <1>1, <1>2, <2>1, <2>2, LastPatchAssumption, LatestIs DEF LatestSnapshot
<1>6. QED
  BY <1>4, <1>5

\* The latest snapshot of a snapshot is itself.
LEMMA OwnSnapshot ==
  CInv => \A s \in DOMAIN snapshots : s \in Nat /\ LatestSnapshot(s) = s
<1> SUFFICES ASSUME CInv, NEW s \in DOMAIN snapshots PROVE s \in Nat /\ LatestSnapshot(s) = s
  OBVIOUS
<1>1. DOMAIN snapshots \subseteq 0 .. LastPatch
  BY DEF CInv, TypeOK
<1>2. s \in Nat /\ s <= s
  BY <1>1, LastPatchAssumption
<1>3. QED
  BY <1>1, <1>2, LastPatchAssumption, LatestIs DEF LatestSnapshot

\* Every published version but the first is covered by a tree.
LEMMA Covered ==
  CInv => \A id \in 1 .. patchId - 1 : \E t \in DOMAIN trees : t <= id /\ id < NextOf(t)
BY DEF CInv, ChainsInOrder

\* What a tree has for one of its versions.
LEMMA ChangesOf ==
  CInv => \A t \in DOMAIN trees, id \in Int :
            t <= id /\ id < NextOf(t)
              => /\ id - t + 1 \in DOMAIN trees[t].patches
                 /\ ChangesUpTo(t, id) = trees[t].patches[id - t + 1]
                 /\ MaxPatchIdOf(t) = NextOf(t) - 1
<1> SUFFICES ASSUME CInv, NEW t \in DOMAIN trees, NEW id \in Int, t <= id, id < NextOf(t)
             PROVE  /\ id - t + 1 \in DOMAIN trees[t].patches
                    /\ ChangesUpTo(t, id) = trees[t].patches[id - t + 1]
                    /\ MaxPatchIdOf(t) = NextOf(t) - 1
  OBVIOUS
<1>1. PICK n : n = Len(trees[t].patches)
  OBVIOUS
<1>2. /\ t \in Nat /\ n \in Nat /\ NextOf(t) = t + n /\ DOMAIN trees[t].patches = 1 .. n
      /\ trees[t].patches = <<>> <=> n = 0
  BY <1>1, TreeTypes
<1>3. n >= 1 /\ id - t + 1 \in 1 .. n
  BY <1>2
<1>4. Max({n, 1}) = n
  <2>1. n <= Max({n, 1}) /\ Max({n, 1}) \in {n, 1}
    <3>1. {n, 1} \subseteq Nat /\ {n, 1} # {} /\ \A x \in {n, 1} : x <= n
      BY <1>2, <1>3
    <3>2. QED
      BY <1>2, <3>1, MaxOfBounded
  <2>2. QED
    BY <1>2, <1>3, <2>1
<1>5. MaxPatchIdOf(t) = t + n - 1
  BY <1>1, <1>4 DEF MaxPatchIdOf
<1>6. Min({id, t + n - 1}) = id
  <2>1. PICK two : two = {id, t + n - 1}
    OBVIOUS
  <2>2. two \subseteq Nat /\ two # {} /\ id \in two /\ \A x \in two : id <= x
    BY <1>2, <1>3, <2>1
  <2>3. Min(two) \in two /\ \A y \in two : Min(two) <= y
    BY <2>2, MinOfNat
  <2>4. PICK m : m = Min(two)
    OBVIOUS
  <2>5. m \in Nat /\ m <= id /\ id <= m
    BY <2>2, <2>3, <2>4
  <2>6. QED
    BY <2>1, <2>4, <2>5
<1>7. ChangesUpTo(t, id) = trees[t].patches[id - t + 1]
  BY <1>2, <1>3, <1>5, <1>6 DEF ChangesUpTo
<1>8. QED
  BY <1>2, <1>3, <1>5, <1>7

-----------------------------------------------------------------------------
(* What a version is materialized to *)

\* A dictionary has the codes of a tree, and the triples of a snapshot.
LEMMA DictionaryOf ==
  CInv => \A t \in DOMAIN trees :
            /\ t - 1 \in DOMAIN snapshots /\ dicts[t - 1] \in Seq(Triples)
            /\ trees[t].base = HdtCodes(snapshots[t - 1])
            /\ trees[t].base \subseteq DOMAIN dicts[t - 1]
            /\ \A i \in DOMAIN trees[t].patches :
                 trees[t].patches[i].added \cup trees[t].patches[i].deleted
                   \subseteq DOMAIN dicts[t - 1]
<1> SUFFICES ASSUME CInv, NEW t \in DOMAIN trees
             PROVE  /\ t - 1 \in DOMAIN snapshots /\ dicts[t - 1] \in Seq(Triples)
                    /\ trees[t].base = HdtCodes(snapshots[t - 1])
                    /\ trees[t].base \subseteq DOMAIN dicts[t - 1]
                    /\ \A i \in DOMAIN trees[t].patches :
                         trees[t].patches[i].added \cup trees[t].patches[i].deleted
                           \subseteq DOMAIN dicts[t - 1]
  OBVIOUS
<1>1. t - 1 \in DOMAIN snapshots /\ LatestSnapshot(t - 1) = t - 1
  BY TreeTypes, OwnSnapshot
<1>2. dicts[t - 1] \in Seq(Triples)
  BY <1>1 DEF CInv, TypeOK
<1>3. /\ trees[t].base = HdtCodes(snapshots[t - 1])
      /\ HdtCodes(snapshots[t - 1]) \subseteq DOMAIN dicts[t - 1]
  BY <1>1 DEF CInv, TreesOnSnapshots, DictsDistinct
<1>4. \A i \in DOMAIN trees[t].patches :
        trees[t].patches[i].added \cup trees[t].patches[i].deleted
          \subseteq DOMAIN dicts[LatestSnapshot(t - 1)]
  BY DEF CInv, TypeOK
<1>5. QED
  BY <1>1, <1>2, <1>3, <1>4

\* get_version_materialized of a snapshot.
LEMMA MaterializedSnapshot ==
  CInv => \A s \in DOMAIN snapshots : Materialized(s) = snapshots[s] /\ snapshots[s] \subseteq Triples
<1> SUFFICES ASSUME CInv, NEW s \in DOMAIN snapshots
             PROVE  Materialized(s) = snapshots[s] /\ snapshots[s] \subseteq Triples
  OBVIOUS
<1>1. s \in Nat /\ LatestSnapshot(s) = s
  BY OwnSnapshot
<1>2. s >= 0 /\ ~(s < 0)
  BY <1>1
<1>3. Materialized(s) = snapshots[s]
  BY <1>1, <1>2 DEF Materialized
<1>4. QED
  BY <1>3 DEF CInv, TypeOK

\* The codes that a query of a version of a tree takes, and no other.
LEMMA QueryCodes ==
  ASSUME NEW base, NEW changes
  PROVE  (base \ (changes.deleted \cap base)) \cup (changes.added \ base) = CodesAfter(base, changes)
BY DEF CodesAfter

\* get_version_materialized of a version of a tree, made a snapshot or not.
LEMMA MaterializedIs ==
  CInv => \A t \in DOMAIN trees, id \in Int :
            t <= id /\ id < NextOf(t) => Materialized(id) = Contents(t, id)
<1> SUFFICES ASSUME CInv, NEW t \in DOMAIN trees, NEW id \in Int, t <= id, id < NextOf(t)
             PROVE  Materialized(id) = Contents(t, id)
  OBVIOUS
<1>1. t \in Nat /\ 1 <= t /\ NextOf(t) \in Nat /\ t - 1 \in DOMAIN snapshots
  BY TreeTypes
<1>2. CASE id \in DOMAIN snapshots
  <2>1. id \in t .. NextOf(t) - 1
    BY <1>1
  <2>2. snapshots[id] = Contents(t, id)
    BY <1>2, <2>1 DEF CInv, TreesOnSnapshots
  <2>3. QED
    BY <1>2, <2>2, MaterializedSnapshot
<1>3. CASE id \notin DOMAIN snapshots
  <2>1. LatestSnapshot(id) = t - 1 /\ PatchTreeId(id) = t
    BY <1>3, ChainOf
  <2>2. PICK changes : changes = trees[t].patches[id - t + 1]
    OBVIOUS
  <2>3. id - t + 1 \in DOMAIN trees[t].patches /\ ChangesUpTo(t, id) = changes
    BY <2>2, ChangesOf
  <2>4. PICK base : base = trees[t].base
    OBVIOUS
  <2>5. Deletions(t, id) = changes.deleted \cap base /\ Additions(t, id) = changes.added \ base
    BY <2>3, <2>4 DEF Deletions, Additions
  <2>6. HdtCodes(snapshots[t - 1]) = base
    BY <2>4, DictionaryOf
  <2>7. PICK dict : dict = dicts[t - 1]
    OBVIOUS
  <2>8. PICK codes : codes = (base \ (changes.deleted \cap base)) \cup (changes.added \ base)
    OBVIOUS
  <2>9. codes = CodesAfter(base, changes)
    BY <2>8, QueryCodes
  <2>10. ~(t - 1 < 0) /\ t - 1 >= 0 /\ t - 1 # id /\ ~(t < 0)
    BY <1>1
  <2>11. Materialized(id) = {Decode(dict, c) : c \in codes}
    BY <2>1, <2>5, <2>6, <2>7, <2>8, <2>10 DEF Materialized
  <2>12. codes \subseteq DOMAIN dict
    BY <2>2, <2>3, <2>4, <2>7, <2>8, DictionaryOf
  <2>13. {Decode(dict, c) : c \in codes} = {dict[c] : c \in codes}
    BY <2>12 DEF Decode
  <2>14. QED
    BY <2>2, <2>4, <2>7, <2>9, <2>11, <2>13 DEF Contents, TriplesOfCodes
<1>4. QED
  BY <1>2, <1>3

\* A version of a tree has triples of its dictionary.
LEMMA ContentsTyped ==
  CInv => \A t \in DOMAIN trees, id \in Int :
            t <= id /\ id < NextOf(t)
              => Contents(t, id) \subseteq ToSet(dicts[t - 1]) /\ Contents(t, id) \subseteq Triples
<1> SUFFICES ASSUME CInv, NEW t \in DOMAIN trees, NEW id \in Int, t <= id, id < NextOf(t)
             PROVE  Contents(t, id) \subseteq ToSet(dicts[t - 1]) /\ Contents(t, id) \subseteq Triples
  OBVIOUS
<1>1. PICK dict : dict = dicts[t - 1]
  OBVIOUS
<1>2. PICK codes : codes = CodesAfter(trees[t].base, trees[t].patches[id - t + 1])
  OBVIOUS
<1>3. id - t + 1 \in DOMAIN trees[t].patches
  BY ChangesOf
<1>4. codes \subseteq DOMAIN dict
  BY <1>1, <1>2, <1>3, DictionaryOf DEF CodesAfter
<1>5. Contents(t, id) = {dict[c] : c \in codes}
  BY <1>1, <1>2 DEF Contents, TriplesOfCodes
<1>6. ToSet(dict) = {dict[c] : c \in DOMAIN dict}
  BY DEF ToSet
<1>7. dict \in Seq(Triples)
  BY <1>1, DictionaryOf
<1>8. \A c \in DOMAIN dict : dict[c] \in Triples
  BY <1>7
<1>9. Contents(t, id) \subseteq ToSet(dict)
  BY <1>4, <1>5, <1>6
<1>10. Contents(t, id) \subseteq Triples
  BY <1>4, <1>5, <1>8
<1>11. QED
  BY <1>1, <1>9, <1>10

\* No tree lies behind the end of another that ends at the next patch, but a new one.
LEMMA LastTree ==
  CInv => \A t \in DOMAIN trees :
            NextOf(t) = patchId => \A u \in DOMAIN trees : u <= t \/ (u = patchId /\ trees[u].patches = <<>>)
<1> SUFFICES ASSUME CInv, NEW t \in DOMAIN trees, NextOf(t) = patchId, NEW u \in DOMAIN trees, ~(u <= t)
             PROVE  u = patchId /\ trees[u].patches = <<>>
  OBVIOUS
<1>1. /\ t \in Nat /\ u \in Nat /\ NextOf(u) <= patchId /\ patchId \in Nat
      /\ NextOf(u) = u + Len(trees[u].patches) /\ Len(trees[u].patches) \in Nat
      /\ trees[u].patches = <<>> <=> Len(trees[u].patches) = 0
  BY TreeTypes
<1>2. patchId <= u
  BY <1>1 DEF CInv, ChainsInOrder
<1>3. QED
  BY <1>1, <1>2

\* The tree of the latest version, when there is one, ends at the next patch.
LEMMA LatestTree ==
  CInv /\ phase # "merging" =>
    /\ patchId - 1 \in DOMAIN snapshots \/ patchId >= 2
    /\ patchId >= 2 => \E t \in DOMAIN trees :
                         /\ NextOf(t) = patchId /\ t <= patchId - 1
                         /\ \A u \in DOMAIN trees : u <= t
    /\ patchId = 1 => DOMAIN trees = {}
    /\ \A t \in DOMAIN trees : t <= patchId - 1 /\ trees[t].patches # <<>>
<1> SUFFICES ASSUME CInv, phase # "merging"
             PROVE  /\ patchId - 1 \in DOMAIN snapshots \/ patchId >= 2
                    /\ patchId >= 2 => \E t \in DOMAIN trees :
                                         /\ NextOf(t) = patchId /\ t <= patchId - 1
                                         /\ \A u \in DOMAIN trees : u <= t
                    /\ patchId = 1 => DOMAIN trees = {}
                    /\ \A t \in DOMAIN trees : t <= patchId - 1 /\ trees[t].patches # <<>>
  OBVIOUS
<1>1. patchId \in Nat /\ 1 <= patchId
  BY LastPatchAssumption DEF CInv, TypeOK
<1>2. ASSUME NEW t \in DOMAIN trees
      PROVE  t \in Nat /\ 1 <= t /\ t <= patchId - 1 /\ trees[t].patches # <<>>
  <2>1. trees[t].patches # <<>>
    BY DEF CInv, AppendInOrder
  <2>2. /\ t \in Nat /\ 1 <= t /\ NextOf(t) <= patchId
        /\ NextOf(t) = t + Len(trees[t].patches) /\ Len(trees[t].patches) \in Nat
        /\ trees[t].patches = <<>> <=> Len(trees[t].patches) = 0
    BY TreeTypes
  <2>3. QED
    BY <1>1, <2>1, <2>2
<1>3. ASSUME patchId >= 2
      PROVE  \E t \in DOMAIN trees : /\ NextOf(t) = patchId /\ t <= patchId - 1
                                     /\ \A u \in DOMAIN trees : u <= t
  <2>1. PICK t \in DOMAIN trees : t <= patchId - 1 /\ patchId - 1 < NextOf(t)
    BY <1>1, <1>3, Covered
  <2>2. NextOf(t) = patchId
    <3>1. NextOf(t) \in Nat /\ NextOf(t) <= patchId
      BY TreeTypes
    <3>2. QED
      BY <1>1, <2>1, <3>1
  <2>3. \A u \in DOMAIN trees : u <= t
    BY <1>2, <2>2, LastTree
  <2>4. QED
    BY <2>1, <2>2, <2>3
<1>4. ASSUME patchId = 1
      PROVE  DOMAIN trees = {} /\ patchId - 1 \in DOMAIN snapshots
  <2>1. DOMAIN trees = {}
    BY <1>2, <1>4
  <2>2. 0 \in DOMAIN snapshots
    BY DEF CInv, ChainsInOrder
  <2>3. QED
    BY <1>4, <2>1, <2>2
<1>5. patchId = 1 \/ patchId >= 2
  BY <1>1
<1>6. QED
  BY <1>2, <1>3, <1>4, <1>5

(***************************************************************************)
(* get_max_patch_id reads the latest version from the last tree, which is  *)
(* that of the last chain that has a patch, not that of the last snapshot. *)
(***************************************************************************)
LEMMA MaxPatchIdFacts ==
  CInv /\ phase # "merging" => MaxPatchId = patchId - 1
<1> SUFFICES ASSUME CInv, phase # "merging" PROVE MaxPatchId = patchId - 1
  OBVIOUS
<1>1. patchId \in Nat /\ 1 <= patchId
  BY LastPatchAssumption DEF CInv, TypeOK
<1>2. CASE patchId = 1
  <2>1. DOMAIN trees = {}
    BY <1>2, LatestTree
  <2>2. LatestSnapshot(0) = 0
    BY OwnSnapshot DEF CInv, ChainsInOrder
  <2>3. QED
    BY <1>2, <2>1, <2>2 DEF MaxPatchId
<1>3. CASE patchId >= 2
  <2>1. PICK t \in DOMAIN trees : /\ NextOf(t) = patchId /\ t <= patchId - 1
                                  /\ \A u \in DOMAIN trees : u <= t
    BY <1>3, LatestTree
  <2>2. PICK ids : ids = DOMAIN trees
    OBVIOUS
  <2>3. t \in Nat /\ ids \subseteq Nat /\ t \in ids /\ ids # {} /\ \A u \in ids : u <= t
    BY <2>1, <2>2, TreeTypes
  <2>4. Max(ids) \in ids /\ \A y \in ids : y <= Max(ids)
    BY <2>3, MaxOfBounded
  <2>5. PICK m : m = Max(ids)
    OBVIOUS
  <2>6. m = t
    <3>1. m \in Nat /\ m <= t /\ t <= m
      BY <2>3, <2>4, <2>5
    <3>2. QED
      BY <2>3, <3>1
  <2>7. MaxPatchIdOf(t) = NextOf(t) - 1
    <3>1. t <= patchId - 1 /\ patchId - 1 < NextOf(t) /\ patchId - 1 \in Int
      BY <1>1, <2>1
    <3>2. QED
      BY <3>1, ChangesOf
  <2>8. MaxPatchId = MaxPatchIdOf(m)
    BY <2>2, <2>3, <2>5 DEF MaxPatchId
  <2>9. QED
    BY <2>1, <2>6, <2>7, <2>8
<1>4. QED
  BY <1>1, <1>2, <1>3

-----------------------------------------------------------------------------
(* Published versions stay what they are *)

\* Snapshots, codes and patches are never taken back or written over.
Grown ==
  /\ \A s \in DOMAIN snapshots :
       /\ s \in DOMAIN snapshots' /\ snapshots'[s] = snapshots[s]
       /\ DOMAIN dicts[s] \subseteq DOMAIN dicts'[s]
       /\ \A c \in DOMAIN dicts[s] : dicts'[s][c] = dicts[s][c]
  /\ \A t \in DOMAIN trees :
       /\ t \in DOMAIN trees' /\ trees'[t].base = trees[t].base
       /\ NextOf(t) <= NextOf(t)'
       /\ \A i \in DOMAIN trees[t].patches : trees'[t].patches[i] = trees[t].patches[i]

\* What a tree gives for a version stays what it was.
LEMMA ContentsStay ==
  ASSUME CInv, Grown, NEW t \in DOMAIN trees, NEW id \in Int, t <= id, id < NextOf(t)
  PROVE  Contents(t, id)' = Contents(t, id)
<1>1. PICK dict : dict = dicts[t - 1]
  OBVIOUS
<1>2. PICK later : later = dicts'[t - 1]
  OBVIOUS
<1>3. PICK codes : codes = CodesAfter(trees[t].base, trees[t].patches[id - t + 1])
  OBVIOUS
<1>4. id - t + 1 \in DOMAIN trees[t].patches
  BY ChangesOf
<1>5. codes \subseteq DOMAIN dict
  BY <1>1, <1>3, <1>4, DictionaryOf DEF CodesAfter
<1>6. t - 1 \in DOMAIN snapshots
  BY DictionaryOf
<1>7. \A c \in DOMAIN dict : later[c] = dict[c]
  BY <1>1, <1>2, <1>6 DEF Grown
<1>8. CodesAfter(trees'[t].base, trees'[t].patches[id - t + 1]) = codes
  BY <1>3, <1>4 DEF Grown
<1>9. {later[c] : c \in codes} = {dict[c] : c \in codes}
  BY <1>5, <1>7
<1>10. Contents(t, id) = {dict[c] : c \in codes}
  BY <1>1, <1>3 DEF Contents, TriplesOfCodes
<1>11. Contents(t, id)' = {later[c] : c \in codes}
  BY <1>2, <1>8 DEF Contents, TriplesOfCodes
<1>12. QED
  BY <1>9, <1>10, <1>11

\* Where every version is read from.
ReadFromSnapshots == \A s \in DOMAIN snapshots : Materialized(s) = snapshots[s]
ReadFromTrees ==
  \A t \in DOMAIN trees, id \in Int :
    t <= id /\ id < NextOf(t) => Materialized(id) = Contents(t, id)
TreesEnd == \A t \in DOMAIN trees : NextOf(t) \in Nat

\* The invariant says where every version is read from.
LEMMA ReadFrom == CInv => ReadFromSnapshots /\ ReadFromTrees /\ TreesEnd
BY TreeTypes, MaterializedSnapshot, MaterializedIs DEF ReadFromSnapshots, ReadFromTrees, TreesEnd

(***************************************************************************)
(* A published version is materialized to the same triples after a step,   *)
(* whatever the dictionary took up and whether the version, or one before  *)
(* it, is a snapshot by then.                                              *)
(***************************************************************************)
LEMMA PublishedStay ==
  ASSUME CInv, CInv', Grown, NEW v \in 0 .. patchId - 1
  PROVE  Materialized(v)' = Materialized(v)
<1>1. patchId \in Nat /\ v \in Nat
  BY LastPatchAssumption DEF CInv, TypeOK
<1>2. (CInv => ReadFromSnapshots /\ ReadFromTrees /\ TreesEnd)'
  BY ReadFrom, PTL
<1>3. CASE v = 0
  <2>1. 0 \in DOMAIN snapshots
    BY DEF CInv, ChainsInOrder
  <2>2. 0 \in DOMAIN snapshots' /\ snapshots'[0] = snapshots[0]
    BY <2>1 DEF Grown
  <2>3. Materialized(0) = snapshots[0]
    BY <2>1, MaterializedSnapshot
  <2>4. Materialized(0)' = snapshots'[0]
    BY <1>2, <2>2 DEF ReadFromSnapshots
  <2>5. QED
    BY <1>3, <2>2, <2>3, <2>4
<1>4. CASE v # 0
  <2>1. PICK t \in DOMAIN trees : t <= v /\ v < NextOf(t)
    BY <1>1, <1>4, Covered
  <2>2. t \in DOMAIN trees' /\ NextOf(t) <= NextOf(t)'
    BY <2>1 DEF Grown
  <2>3. NextOf(t)' \in Nat
    BY <1>2, <2>2 DEF TreesEnd
  <2>4. NextOf(t) \in Nat
    BY TreeTypes
  <2>5. v < NextOf(t)'
    BY <1>1, <2>1, <2>2, <2>3, <2>4
  <2>6. Materialized(v)' = Contents(t, v)'
    BY <1>1, <1>2, <2>1, <2>2, <2>5 DEF ReadFromTrees
  <2>7. Materialized(v) = Contents(t, v)
    BY <1>1, <2>1, MaterializedIs
  <2>8. QED
    BY <1>1, <2>1, <2>6, <2>7, ContentsStay
<1>5. QED
  BY <1>3, <1>4

-----------------------------------------------------------------------------
(* The steps *)

\* A dictionary with more triples, the old ones where they were.
Extends(longer, dict) ==
  /\ longer \in Seq(Triples) /\ DistinctCodes(longer)
  /\ DOMAIN dict \subseteq DOMAIN longer /\ \A c \in DOMAIN dict : longer[c] = dict[c]

\* What the invariant says of one dictionary.
LEMMA DictionaryFacts ==
  CInv => \A s \in DOMAIN snapshots :
            /\ dicts[s] \in Seq(Triples) /\ DistinctCodes(dicts[s])
            /\ HdtCodes(snapshots[s]) \subseteq DOMAIN dicts[s]
            /\ snapshots[s] = {dicts[s][c] : c \in HdtCodes(snapshots[s])}
            /\ snapshots[s] \subseteq ToSet(dicts[s])
<1> SUFFICES ASSUME CInv, NEW s \in DOMAIN snapshots
             PROVE  /\ dicts[s] \in Seq(Triples) /\ DistinctCodes(dicts[s])
                    /\ HdtCodes(snapshots[s]) \subseteq DOMAIN dicts[s]
                    /\ snapshots[s] = {dicts[s][c] : c \in HdtCodes(snapshots[s])}
                    /\ snapshots[s] \subseteq ToSet(dicts[s])
  OBVIOUS
<1>1. dicts[s] \in Seq(Triples)
  BY DEF CInv, TypeOK
<1>2. PICK codes : codes = HdtCodes(snapshots[s])
  OBVIOUS
<1>3. PICK dict : dict = dicts[s]
  OBVIOUS
<1>4. /\ \A c, d \in DOMAIN dict : dict[c] = dict[d] => c = d
      /\ codes \subseteq DOMAIN dict /\ snapshots[s] = {dict[c] : c \in codes}
  BY <1>2, <1>3 DEF CInv, DictsDistinct
<1>5. ToSet(dict) = {dict[c] : c \in DOMAIN dict}
  BY DEF ToSet
<1>6. snapshots[s] \subseteq ToSet(dict)
  BY <1>4, <1>5
<1>7. QED
  BY <1>1, <1>2, <1>3, <1>4, <1>6 DEF DistinctCodes

(***************************************************************************)
(* The snapshot that the next patch is made and stored on: the latest      *)
(* version's own, then a tree is started, or that of the last tree.        *)
(***************************************************************************)
NextChain(s) ==
  /\ s \in DOMAIN snapshots
  /\ LatestSnapshot(patchId - 1) = s /\ LatestSnapshot(patchId) = s
  /\ Materialized(patchId - 1) \subseteq ToSet(dicts[s])
  /\ Materialized(patchId - 1) \subseteq Triples
  /\ \/ s = patchId - 1 /\ s >= PatchTreeId(patchId)
     \/ \E t \in DOMAIN trees :
          /\ NextOf(t) = patchId /\ s = t - 1 /\ \A i \in DOMAIN snapshots : i < t
          /\ ~(s >= PatchTreeId(patchId))

\* An append finds a snapshot to append to.
LEMMA NextChainExists ==
  ASSUME CInv, phase # "merging"
  PROVE  \E s \in DOMAIN snapshots : NextChain(s)
<1>1. patchId \in Nat /\ 1 <= patchId
  BY LastPatchAssumption DEF CInv, TypeOK
<1>2. \A i \in DOMAIN snapshots : i \in Nat /\ i <= patchId - 1
  BY <1>1, OwnSnapshot DEF CInv, ChainsInOrder
<1>3. DOMAIN snapshots \subseteq 0 .. LastPatch /\ DOMAIN trees \subseteq 0 .. LastPatch
  BY LastPatchAssumption DEF CInv, TypeOK
<1>4. \A t \in DOMAIN trees : t \in Nat /\ 1 <= t /\ t <= patchId - 1
  BY LatestTree, TreeTypes
<1>5. ASSUME NEW s \in DOMAIN snapshots, LatestSnapshot(patchId - 1) = s
      PROVE  LatestSnapshot(patchId) = s
  <2>1. {i \in DOMAIN snapshots : i <= patchId} = {i \in DOMAIN snapshots : i <= patchId - 1}
    BY <1>1, <1>2
  <2>2. LatestIn(DOMAIN snapshots, patchId) = LatestIn(DOMAIN snapshots, patchId - 1)
    BY <2>1 DEF LatestIn
  <2>3. QED
    BY <1>5, <2>2 DEF LatestSnapshot
<1>6. CASE patchId - 1 \in DOMAIN snapshots
  <2>1. PICK s : s = patchId - 1
    OBVIOUS
  <2>2. s \in DOMAIN snapshots /\ LatestSnapshot(s) = s /\ s \in Nat
    BY <1>6, <2>1, OwnSnapshot
  <2>3. Materialized(s) \subseteq ToSet(dicts[s]) /\ Materialized(s) \subseteq Triples
    BY <2>2, MaterializedSnapshot, DictionaryFacts
  <2>4. s >= PatchTreeId(patchId)
    <3>1. CASE patchId >= 2
      <4>1. PICK t \in DOMAIN trees : t <= patchId - 1 /\ \A u \in DOMAIN trees : u <= t
        BY <3>1, LatestTree
      <4>2. t <= patchId /\ \A u \in DOMAIN trees : u <= patchId => u <= t
        BY <1>1, <1>4, <4>1
      <4>3. PatchTreeId(patchId) = t
        BY <1>1, <1>3, <4>2, LastPatchAssumption, LatestIs DEF PatchTreeId
      <4>4. QED
        BY <1>1, <1>4, <2>1, <4>1, <4>3
    <3>2. CASE patchId = 1
      <4>1. DOMAIN trees = {}
        BY <3>2, LatestTree
      <4>2. PatchTreeId(patchId) = -1
        <5>1. {i \in DOMAIN trees : i <= patchId} = {}
          BY <4>1
        <5>2. QED
          BY <5>1 DEF PatchTreeId, LatestIn
      <4>3. QED
        BY <2>2, <4>2
    <3>3. QED
      BY <1>1, <3>1, <3>2
  <2>5. LatestSnapshot(patchId) = s
    BY <1>5, <2>1, <2>2
  <2>6. NextChain(s)
    BY <2>1, <2>2, <2>3, <2>4, <2>5 DEF NextChain
  <2>7. QED
    BY <2>2, <2>6
<1>7. CASE patchId - 1 \notin DOMAIN snapshots
  <2>1. PICK t \in DOMAIN trees : /\ NextOf(t) = patchId /\ t <= patchId - 1
                                  /\ \A u \in DOMAIN trees : u <= t
    BY <1>7, LatestTree
  <2>2. t \in Nat /\ patchId - 1 \in Int /\ patchId - 1 < NextOf(t)
    BY <1>1, <1>4, <2>1
  <2>3. LatestSnapshot(patchId - 1) = t - 1 /\ t - 1 \in DOMAIN snapshots
    BY <1>7, <2>1, <2>2, ChainOf, TreeTypes
  <2>4. PICK s : s = t - 1
    OBVIOUS
  <2>5. LatestSnapshot(patchId) = s
    BY <1>5, <2>3, <2>4
  <2>6. Materialized(patchId - 1) \subseteq ToSet(dicts[s]) /\ Materialized(patchId - 1) \subseteq Triples
    BY <2>1, <2>2, <2>4, MaterializedIs, ContentsTyped
  <2>7. PatchTreeId(patchId) = t
    <3>1. t <= patchId /\ \A u \in DOMAIN trees : u <= patchId => u <= t
      BY <1>1, <1>4, <2>1
    <3>2. QED
      BY <1>1, <1>3, <3>1, LastPatchAssumption, LatestIs DEF PatchTreeId
  <2>8. \A i \in DOMAIN snapshots : i < t
    <3>1. SUFFICES ASSUME NEW i \in DOMAIN snapshots PROVE i < t
      OBVIOUS
    <3>2. i < t \/ NextOf(t) - 1 <= i
      BY DEF CInv, ChainsInOrder
    <3>3. i # patchId - 1 /\ i \in Nat /\ i <= patchId - 1
      BY <1>2, <1>7
    <3>4. QED
      BY <1>1, <2>1, <3>2, <3>3
  <2>9. NextChain(s)
    BY <2>1, <2>2, <2>3, <2>4, <2>5, <2>6, <2>7, <2>8 DEF NextChain
  <2>10. QED
    BY <2>3, <2>4, <2>9
<1>8. QED
  BY <1>6, <1>7

\* What BeginAppend does to the chains.
Begun(s) ==
  /\ NextChain(s)
  /\ adds' \in SUBSET (Triples \ Materialized(patchId - 1))
  /\ dels' \in SUBSET Materialized(patchId - 1)
  /\ DOMAIN dicts' = DOMAIN dicts
  /\ \A i \in DOMAIN snapshots : Extends(dicts'[i], dicts[i])
  /\ adds' \cup dels' \subseteq ToSet(dicts'[s])
  /\ \/ /\ s = patchId - 1
        /\ trees' = With(trees, patchId, NewTree(snapshots[s]))
     \/ /\ trees' = trees
        /\ \E t \in DOMAIN trees :
             NextOf(t) = patchId /\ s = t - 1 /\ \A i \in DOMAIN snapshots : i < t
  /\ phase' = "merging" /\ patchId <= LastPatch
  /\ UNCHANGED <<use, snapshots, patchId>>

\* What BeginAppend leaves behind.
LEMMA BeginOutcome ==
  ASSUME CInv, BeginAppend
  PROVE  \E s \in DOMAIN snapshots : Begun(s)
<1>1. phase # "merging" /\ phase = "idle"
  BY DEF BeginAppend
<1>2. MaxPatchId = patchId - 1
  BY <1>1, MaxPatchIdFacts
<1>3. PICK s \in DOMAIN snapshots : NextChain(s)
  BY <1>1, NextChainExists
<1>4. PICK latest : latest = Materialized(patchId - 1)
  OBVIOUS
<1>5. LatestSnapshot(MaxPatchId) = s /\ Materialized(MaxPatchId) = latest
  BY <1>2, <1>3, <1>4 DEF NextChain
<1>6. latest \subseteq ToSet(dicts[s]) /\ latest \subseteq Triples
  BY <1>3, <1>4 DEF NextChain
<1>7. adds' \in SUBSET (Triples \ latest) /\ dels' \in SUBSET latest
  BY <1>5 DEF BeginAppend
<1>8. PICK new \in SetToSeqs(adds' \ ToSet(dicts[s])) : dicts' = [dicts EXCEPT ![s] = @ \o new]
  BY <1>5 DEF BeginAppend
<1>9. trees' = IF s >= PatchTreeId(patchId)
               THEN With(trees, patchId, NewTree(snapshots[s])) ELSE trees
  BY <1>5 DEF BeginAppend
<1>10. DOMAIN dicts = DOMAIN snapshots
  BY DEF CInv, TypeOK
<1>11. DOMAIN dicts' = DOMAIN dicts /\ dicts'[s] = dicts[s] \o new
       /\ \A i \in DOMAIN dicts : i # s => dicts'[i] = dicts[i]
  BY <1>3, <1>8, <1>10
<1>12. PICK dict : dict = dicts[s]
  OBVIOUS
<1>13. PICK S : S = adds' \ ToSet(dict)
  OBVIOUS
<1>14. /\ dict \in Seq(Triples) /\ DistinctCodes(dict)
       /\ S \in SUBSET Triples /\ S \cap ToSet(dict) = {} /\ new \in SetToSeqs(S)
  BY <1>3, <1>7, <1>8, <1>12, <1>13, DictionaryFacts
<1>15. /\ dict \o new \in Seq(Triples) /\ DistinctCodes(dict \o new)
       /\ DOMAIN dict \subseteq DOMAIN (dict \o new)
       /\ \A c \in DOMAIN dict : (dict \o new)[c] = dict[c]
       /\ ToSet(dict \o new) = ToSet(dict) \cup S
  BY <1>14, DictionaryGrows
<1>16. Extends(dicts'[s], dicts[s])
  BY <1>11, <1>12, <1>15 DEF Extends
<1>17. ASSUME NEW i \in DOMAIN snapshots PROVE Extends(dicts'[i], dicts[i])
  <2>1. CASE i = s
    BY <1>16, <2>1
  <2>2. CASE i # s
    <3>1. dicts'[i] = dicts[i]
      BY <1>10, <1>11, <2>2
    <3>2. QED
      BY <3>1, DictionaryFacts DEF Extends
  <2>3. QED
    BY <2>1, <2>2
<1>18. ToSet(dicts'[s]) = ToSet(dict) \cup S
  BY <1>11, <1>12, <1>15
<1>19. adds' \cup dels' \subseteq ToSet(dicts'[s])
  BY <1>6, <1>7, <1>12, <1>13, <1>18
<1>20. \/ /\ s = patchId - 1
          /\ trees' = With(trees, patchId, NewTree(snapshots[s]))
       \/ /\ trees' = trees
          /\ \E t \in DOMAIN trees :
               NextOf(t) = patchId /\ s = t - 1 /\ \A i \in DOMAIN snapshots : i < t
  BY <1>3, <1>9 DEF NextChain
<1>21. Begun(s)
  <2>1. phase' = "merging" /\ patchId <= LastPatch /\ UNCHANGED <<use, snapshots, patchId>>
    BY DEF BeginAppend
  <2>2. QED
    BY <1>3, <1>4, <1>7, <1>11, <1>17, <1>19, <1>20, <2>1 DEF Begun
<1>22. QED
  BY <1>21

\* Where a tree comes from that BeginAppend leaves.
LEMMA BegunTrees ==
  ASSUME CInv, phase # "merging", NEW s \in DOMAIN snapshots, Begun(s)
  PROVE  /\ \A t \in DOMAIN trees : t \in DOMAIN trees' /\ trees'[t] = trees[t] /\ t < patchId
         /\ \A t \in DOMAIN trees' :
              \/ t \in DOMAIN trees
              \/ t = patchId /\ s = patchId - 1 /\ trees'[t] = NewTree(snapshots[s])
         /\ \E t \in DOMAIN trees' :
              NextOf(t)' = patchId /\ s = t - 1 /\ \A i \in DOMAIN snapshots : i < t
<1>1. patchId \in Nat /\ 1 <= patchId
  BY LastPatchAssumption DEF CInv, TypeOK
<1>2. \A t \in DOMAIN trees : t \in Nat /\ 1 <= t /\ t <= patchId - 1 /\ t < patchId
  BY <1>1, LatestTree, TreeTypes
<1>3. \A i \in DOMAIN snapshots : i \in Nat /\ i <= patchId - 1 /\ i < patchId
  BY <1>1, OwnSnapshot DEF CInv, ChainsInOrder
<1>4. CASE s = patchId - 1 /\ trees' = With(trees, patchId, NewTree(snapshots[s]))
  <2>1. PICK new : new = NewTree(snapshots[s])
    OBVIOUS
  <2>2. trees' = [k \in DOMAIN trees \cup {patchId} |-> IF k = patchId THEN new ELSE trees[k]]
    BY <1>4, <2>1 DEF With
  <2>3. /\ DOMAIN trees' = DOMAIN trees \cup {patchId} /\ trees'[patchId] = new
        /\ \A t \in DOMAIN trees : t # patchId => trees'[t] = trees[t]
    BY <2>2
  <2>4. patchId \notin DOMAIN trees
    BY <1>1, <1>2
  <2>5. new.patches = <<>>
    BY <2>1 DEF NewTree
  <2>6. PICK last : last = patchId
    OBVIOUS
  <2>7. NextOf(last)' = patchId
    <3>1. Len(trees'[last].patches) = 0
      BY <2>3, <2>5, <2>6
    <3>2. QED
      BY <1>1, <2>6, <3>1 DEF NextOf
  <2>8. s = patchId - 1
    BY <1>4
  <2>9. \A t \in DOMAIN trees : t \in DOMAIN trees' /\ trees'[t] = trees[t] /\ t < patchId
    BY <1>2, <2>3, <2>4
  <2>10. \A t \in DOMAIN trees' : t \in DOMAIN trees \/ (t = patchId /\ trees'[t] = new)
    BY <2>3
  <2>11. \E t \in DOMAIN trees' :
           NextOf(t)' = patchId /\ s = t - 1 /\ \A i \in DOMAIN snapshots : i < t
    <3>1. last \in DOMAIN trees' /\ s = last - 1 /\ \A i \in DOMAIN snapshots : i < last
      BY <1>3, <2>3, <2>8, <2>6
    <3>2. QED
      BY <2>7, <3>1
  <2>12. QED
    BY <2>1, <2>8, <2>9, <2>10, <2>11
<1>5. CASE /\ trees' = trees
           /\ \E t \in DOMAIN trees :
                NextOf(t) = patchId /\ s = t - 1 /\ \A i \in DOMAIN snapshots : i < t
  BY <1>2, <1>5 DEF NextOf
<1>6. QED
  BY <1>4, <1>5 DEF Begun

\* BeginAppend takes nothing away: not in trees, snapshots or dictionaries.
LEMMA BeginGrown ==
  ASSUME CInv, phase # "merging", NEW s \in DOMAIN snapshots, Begun(s)
  PROVE  Grown
<1>1. \A t \in DOMAIN trees : t \in DOMAIN trees' /\ trees'[t] = trees[t]
  BY BegunTrees
<1>2. \A t \in DOMAIN trees : NextOf(t)' = NextOf(t) /\ NextOf(t) \in Nat
  BY <1>1, TreeTypes DEF NextOf
<1>3. \A i \in DOMAIN snapshots : Extends(dicts'[i], dicts[i]) /\ snapshots' = snapshots
  BY DEF Begun
<1>4. QED
  BY <1>1, <1>2, <1>3 DEF Grown, Extends

\* BeginAppend keeps the types.
LEMMA BeginTypes ==
  ASSUME CInv, phase # "merging", NEW s \in DOMAIN snapshots, Begun(s)
  PROVE  TypeOK'
<1>1. /\ use' \in Uses /\ phase' \in {"idle", "merging", "creating"}
      /\ patchId' \in 1 .. LastPatch + 1
  BY DEF Begun, CInv, TypeOK
<1>2. adds' \subseteq Triples /\ dels' \subseteq Triples
  BY DEF Begun, NextChain
<1>3. DOMAIN snapshots' \subseteq 0 .. LastPatch /\ DOMAIN dicts' = DOMAIN snapshots'
  BY DEF Begun, CInv, TypeOK
<1>4. \A i \in DOMAIN snapshots' : snapshots'[i] \subseteq Triples /\ dicts'[i] \in Seq(Triples)
  BY DEF Begun, Extends, CInv, TypeOK
<1>5. DOMAIN trees' \subseteq 1 .. LastPatch
  <2>1. \A t \in DOMAIN trees' : t \in DOMAIN trees \/ t = patchId
    BY BegunTrees
  <2>2. patchId \in 1 .. LastPatch
    BY LastPatchAssumption DEF Begun, CInv, TypeOK
  <2>3. DOMAIN trees \subseteq 1 .. LastPatch
    BY DEF CInv, TypeOK
  <2>4. QED
    BY <2>1, <2>2, <2>3
<1>6. ASSUME NEW t \in DOMAIN trees'
      PROVE  /\ IsTree(trees'[t])
             /\ \A i \in DOMAIN trees'[t].patches :
                  trees'[t].patches[i].added \cup trees'[t].patches[i].deleted
                    \subseteq DOMAIN dicts'[LatestSnapshot(t - 1)']
  <2>1. CASE t \in DOMAIN trees
    <3>1. trees'[t] = trees[t] /\ IsTree(trees[t])
      BY <2>1, BegunTrees DEF CInv, TypeOK
    <3>2. t - 1 \in DOMAIN snapshots /\ LatestSnapshot(t - 1) = t - 1
      BY <2>1, TreeTypes, OwnSnapshot
    <3>3. LatestSnapshot(t - 1)' = LatestSnapshot(t - 1)
      BY DEF Begun, LatestSnapshot
    <3>4. DOMAIN dicts[t - 1] \subseteq DOMAIN dicts'[t - 1]
      BY <3>2 DEF Begun, Extends
    <3>5. \A i \in DOMAIN trees[t].patches :
            trees[t].patches[i].added \cup trees[t].patches[i].deleted \subseteq DOMAIN dicts[t - 1]
      BY <2>1, DictionaryOf
    <3>6. QED
      BY <3>1, <3>2, <3>3, <3>4, <3>5
  <2>2. CASE t \notin DOMAIN trees
    <3>1. trees'[t] = [base |-> HdtCodes(snapshots[s]), patches |-> <<>>]
      BY <2>2, BegunTrees DEF NewTree
    <3>2. PICK tree : tree = trees'[t]
      OBVIOUS
    <3>3. tree = [base |-> tree.base, patches |-> tree.patches] /\ DOMAIN tree.patches = {}
      BY <3>1, <3>2
    <3>4. IsTree(tree)
      BY <3>3 DEF IsTree
    <3>5. QED
      BY <3>2, <3>3, <3>4
  <2>3. QED
    BY <2>1, <2>2
<1>7. QED
  BY <1>1, <1>2, <1>3, <1>4, <1>5, <1>6 DEF TypeOK

\* BeginAppend keeps the chains apart and in order.
LEMMA BeginChains ==
  ASSUME CInv, phase # "merging", NEW s \in DOMAIN snapshots, Begun(s)
  PROVE  ChainsInOrder' /\ AppendInOrder'
<1>1. patchId \in Nat /\ 1 <= patchId /\ patchId' = patchId /\ snapshots' = snapshots
  BY LastPatchAssumption DEF Begun, CInv, TypeOK
<1>2. \A t \in DOMAIN trees :
        /\ t \in Nat /\ NextOf(t) \in Nat /\ NextOf(t) <= patchId /\ t < patchId
        /\ trees[t].patches # <<>>
        /\ t \in DOMAIN trees' /\ trees'[t] = trees[t] /\ NextOf(t)' = NextOf(t)
  BY LatestTree, TreeTypes, BegunTrees DEF NextOf
<1>3. \A t \in DOMAIN trees' :
        t \notin DOMAIN trees => t = patchId /\ s = t - 1 /\ NextOf(t)' = t
  <2>1. SUFFICES ASSUME NEW t \in DOMAIN trees', t \notin DOMAIN trees
                 PROVE  t = patchId /\ s = t - 1 /\ NextOf(t)' = t
    OBVIOUS
  <2>2. t = patchId /\ s = patchId - 1 /\ trees'[t] = NewTree(snapshots[s])
    BY <2>1, BegunTrees
  <2>3. trees'[t].patches = <<>>
    BY <2>2 DEF NewTree
  <2>4. Len(trees'[t].patches) = 0
    BY <2>3
  <2>5. QED
    BY <1>1, <2>2, <2>4 DEF NextOf
<1>4. \A i \in DOMAIN snapshots : i \in Nat /\ i < patchId /\ i <= patchId - 1
  BY <1>1, OwnSnapshot DEF CInv, ChainsInOrder
<1>5. ChainsInOrder'
  <2>1. 0 \in DOMAIN snapshots' /\ DOMAIN snapshots' \subseteq 0 .. patchId' - 1
    BY <1>1 DEF CInv, ChainsInOrder
  <2>2. ASSUME NEW t \in DOMAIN trees' PROVE t - 1 \in DOMAIN snapshots' /\ NextOf(t)' <= patchId'
    <3>1. CASE t \in DOMAIN trees
      BY <1>1, <1>2, <3>1, TreeTypes
    <3>2. CASE t \notin DOMAIN trees
      <4>1. t = patchId /\ s = t - 1 /\ NextOf(t)' = t
        BY <1>3, <3>2
      <4>2. QED
        BY <1>1, <4>1
    <3>3. QED
      BY <3>1, <3>2
  <2>3. ASSUME NEW t \in DOMAIN trees', NEW u \in DOMAIN trees', t < u PROVE NextOf(t)' <= u
    <3>1. CASE t \in DOMAIN trees /\ u \in DOMAIN trees
      BY <1>2, <2>3, <3>1 DEF CInv, ChainsInOrder
    <3>2. CASE t \in DOMAIN trees /\ u \notin DOMAIN trees
      BY <1>2, <1>3, <3>2
    <3>3. CASE t \notin DOMAIN trees
      <4>1. t = patchId
        BY <1>3, <3>3
      <4>2. u = patchId \/ u < patchId
        BY <1>2, <1>3
      <4>3. QED
        BY <1>1, <1>2, <1>3, <2>3, <4>1, <4>2
    <3>4. QED
      BY <3>1, <3>2, <3>3
  <2>4. ASSUME NEW id \in 1 .. patchId' - 1 PROVE \E t \in DOMAIN trees' : t <= id /\ id < NextOf(t)'
    <3>1. PICK t \in DOMAIN trees : t <= id /\ id < NextOf(t)
      BY <1>1, Covered
    <3>2. QED
      BY <1>2, <3>1
  <2>5. ASSUME NEW t \in DOMAIN trees', NEW i \in DOMAIN snapshots'
        PROVE  i < t \/ NextOf(t)' - 1 <= i
    <3>1. CASE t \in DOMAIN trees
      BY <1>1, <1>2, <3>1 DEF CInv, ChainsInOrder
    <3>2. CASE t \notin DOMAIN trees
      BY <1>1, <1>3, <1>4, <3>2
    <3>3. QED
      BY <3>1, <3>2
  <2>6. QED
    BY <2>1, <2>2, <2>3, <2>4, <2>5 DEF ChainsInOrder
<1>6. AppendInOrder'
  <2>1. /\ patchId' <= LastPatch
        /\ \E t \in DOMAIN trees' : NextOf(t)' = patchId' /\ \A i \in DOMAIN snapshots' : i < t
    BY <1>1, BegunTrees DEF Begun
  <2>2. phase' = "merging"
    BY DEF Begun
  <2>3. \A t \in DOMAIN trees' : trees'[t].patches = <<>> => t = patchId'
    BY <1>1, <1>2, <1>3
  <2>4. QED
    BY <2>1, <2>2, <2>3 DEF AppendInOrder
<1>7. QED
  BY <1>5, <1>6

\* BeginAppend keeps dictionaries, bases of trees and the patch in order.
LEMMA BeginContents ==
  ASSUME CInv, phase # "merging", NEW s \in DOMAIN snapshots, Begun(s)
  PROVE  DictsDistinct' /\ TreesOnSnapshots' /\ PatchKnown'
<1>1. snapshots' = snapshots /\ patchId' = patchId
  BY DEF Begun
<1>2. DictsDistinct'
  <2>1. SUFFICES ASSUME NEW i \in DOMAIN snapshots
                 PROVE  /\ \A c, d \in DOMAIN dicts'[i] : dicts'[i][c] = dicts'[i][d] => c = d
                        /\ HdtCodes(snapshots[i]) \subseteq DOMAIN dicts'[i]
                        /\ snapshots[i] = {dicts'[i][c] : c \in HdtCodes(snapshots[i])}
    BY <1>1 DEF DictsDistinct, HdtCodes
  <2>2. PICK codes : codes = HdtCodes(snapshots[i])
    OBVIOUS
  <2>3. PICK dict : dict = dicts[i]
    OBVIOUS
  <2>4. PICK longer : longer = dicts'[i]
    OBVIOUS
  <2>5. Extends(longer, dict)
    BY <2>3, <2>4 DEF Begun
  <2>6. codes \subseteq DOMAIN dict /\ snapshots[i] = {dict[c] : c \in codes}
    BY <2>2, <2>3, DictionaryFacts
  <2>7. codes \subseteq DOMAIN longer /\ {longer[c] : c \in codes} = {dict[c] : c \in codes}
    BY <2>5, <2>6 DEF Extends
  <2>8. \A c, d \in DOMAIN longer : longer[c] = longer[d] => c = d
    BY <2>5 DEF Extends, DistinctCodes
  <2>9. snapshots[i] = {longer[c] : c \in codes}
    BY <2>6, <2>7
  <2>10. snapshots[i] = {dicts'[i][c] : c \in HdtCodes(snapshots[i])}
    BY <2>2, <2>4, <2>9, Zenon
  <2>11. \A c, d \in DOMAIN dicts'[i] : dicts'[i][c] = dicts'[i][d] => c = d
    BY <2>4, <2>8
  <2>12. HdtCodes(snapshots[i]) \subseteq DOMAIN dicts'[i]
    BY <2>2, <2>4, <2>7
  <2>13. QED
    BY <2>10, <2>11, <2>12
<1>3. TreesOnSnapshots'
  <2>1. SUFFICES ASSUME NEW t \in DOMAIN trees'
                 PROVE  /\ trees'[t].base = HdtCodes(snapshots[t - 1])
                        /\ trees'[t].patches \in Seq([added : SUBSET Nat, deleted : SUBSET Nat])
                        /\ \A id \in t .. NextOf(t)' - 1 :
                             id \in DOMAIN snapshots => snapshots[id] = Contents(t, id)'
    BY <1>1 DEF TreesOnSnapshots, HdtCodes
  <2>2. CASE t \in DOMAIN trees
    <3>1. trees'[t] = trees[t] /\ NextOf(t)' = NextOf(t)
      BY <2>2, BegunTrees DEF NextOf
    <3>2. trees[t].base = HdtCodes(snapshots[t - 1])
          /\ trees[t].patches \in Seq([added : SUBSET Nat, deleted : SUBSET Nat])
      BY <2>2 DEF CInv, TreesOnSnapshots
    <3>3. ASSUME NEW id \in t .. NextOf(t) - 1, id \in DOMAIN snapshots
          PROVE  snapshots[id] = Contents(t, id)'
      <4>1. t \in Nat /\ NextOf(t) \in Nat
        BY <2>2, TreeTypes
      <4>2. id \in Int /\ t <= id /\ id < NextOf(t)
        BY <4>1
      <4>3. Contents(t, id)' = Contents(t, id)
        BY <2>2, <4>2, BeginGrown, ContentsStay
      <4>4. snapshots[id] = Contents(t, id)
        BY <2>2, <3>3 DEF CInv, TreesOnSnapshots
      <4>5. QED
        BY <4>3, <4>4
    <3>4. QED
      BY <3>1, <3>2, <3>3
  <2>3. CASE t \notin DOMAIN trees
    <3>1. t = patchId /\ s = t - 1 /\ trees'[t] = NewTree(snapshots[s])
      BY <2>3, BegunTrees
    <3>2. trees'[t].base = HdtCodes(snapshots[t - 1]) /\ trees'[t].patches = <<>>
      BY <3>1 DEF NewTree
    <3>3. t \in Nat /\ Len(trees'[t].patches) = 0
      BY <3>1, <3>2, LastPatchAssumption DEF CInv, TypeOK
    <3>4. NextOf(t)' = t
      BY <3>3 DEF NextOf
    <3>5. t .. NextOf(t)' - 1 = {}
      BY <3>3, <3>4
    <3>6. QED
      BY <3>2, <3>5
  <2>4. QED
    BY <2>2, <2>3
<1>4. PatchKnown'
  <2>1. adds' \cap dels' = {}
    BY DEF Begun
  <2>2. LatestSnapshot(patchId)' = s
    BY <1>1 DEF Begun, NextChain, LatestSnapshot
  <2>3. adds' \cup dels' \subseteq ToSet(dicts'[LatestSnapshot(patchId)'])
    BY <2>2 DEF Begun
  <2>4. QED
    BY <2>1, <2>3 DEF PatchKnown
<1>5. QED
  BY <1>2, <1>3, <1>4

\* BeginAppend keeps the invariant.
LEMMA BeginInv == ASSUME CInv, BeginAppend PROVE CInv'
<1>1. phase # "merging"
  BY DEF BeginAppend
<1>2. PICK s \in DOMAIN snapshots : Begun(s)
  BY BeginOutcome
<1>3. QED
  BY <1>1, <1>2, BeginTypes, BeginChains, BeginContents DEF CInv

\* What AppendPatch does to the last chain.
Appended(t, changes) ==
  /\ t \in DOMAIN trees /\ NextOf(t) = patchId
  /\ \A i \in DOMAIN snapshots : i < t
  /\ \A u \in DOMAIN trees : u <= t
  /\ DOMAIN trees' = DOMAIN trees
  /\ \A u \in DOMAIN trees : u # t => trees'[u] = trees[u]
  /\ trees'[t] = [base |-> trees[t].base, patches |-> Append(trees[t].patches, changes)]
  /\ changes = Merged(ChangesUpTo(t, patchId), Codes(dicts[t - 1], adds), Codes(dicts[t - 1], dels))
  /\ changes \in [added : SUBSET (DOMAIN dicts[t - 1]), deleted : SUBSET (DOMAIN dicts[t - 1])]
  /\ TriplesOfCodes(dicts[t - 1], CodesAfter(trees[t].base, changes))
       = (Materialized(patchId - 1) \ dels) \cup adds
  /\ phase = "merging" /\ phase' \in {"creating", "idle"}
  /\ patchId' = patchId + 1 /\ patchId <= LastPatch
  /\ adds' = {} /\ dels' = {}
  /\ UNCHANGED <<use, snapshots, dicts>>

\* The tree that a patch is merged into, and its snapshot.
LEMMA MergingTree ==
  ASSUME CInv, phase = "merging"
  PROVE  \E t \in DOMAIN trees :
           /\ NextOf(t) = patchId /\ \A i \in DOMAIN snapshots : i < t
           /\ \A u \in DOMAIN trees : u <= t
           /\ PatchTreeId(patchId) = t /\ LatestSnapshot(patchId) = t - 1
<1>1. PICK t \in DOMAIN trees : NextOf(t) = patchId /\ \A i \in DOMAIN snapshots : i < t
  BY DEF CInv, AppendInOrder
<1>2. patchId \in Nat /\ t \in Nat /\ t <= patchId /\ t - 1 \in DOMAIN snapshots
  <2>1. /\ t \in Nat /\ patchId \in Nat /\ t - 1 \in DOMAIN snapshots
        /\ NextOf(t) = t + Len(trees[t].patches) /\ Len(trees[t].patches) \in Nat
    BY TreeTypes
  <2>2. QED
    BY <1>1, <2>1
<1>3. ASSUME NEW u \in DOMAIN trees PROVE u <= t
  <2>1. u <= t \/ u = patchId
    BY <1>1, LastTree
  <2>2. u \in Nat /\ u - 1 \in DOMAIN snapshots
    BY TreeTypes
  <2>3. u - 1 < t
    BY <1>1, <2>2
  <2>4. QED
    BY <1>2, <2>2, <2>3
<1>4. DOMAIN snapshots \subseteq 0 .. LastPatch /\ DOMAIN trees \subseteq 0 .. LastPatch
  BY LastPatchAssumption DEF CInv, TypeOK
<1>5. PatchTreeId(patchId) = t
  BY <1>2, <1>3, <1>4, LastPatchAssumption, LatestIs DEF PatchTreeId
<1>6. LatestSnapshot(patchId) = t - 1
  <2>1. \A i \in DOMAIN snapshots : i <= t - 1
    BY <1>1, <1>2, <1>4
  <2>2. t - 1 <= patchId
    BY <1>2
  <2>3. QED
    BY <1>2, <1>4, <2>1, <2>2, LastPatchAssumption, LatestIs DEF LatestSnapshot
<1>7. QED
  BY <1>1, <1>3, <1>5, <1>6

\* The changes that a patch is merged into are those of the latest version.
LEMMA LatestChanges ==
  ASSUME CInv, phase = "merging", NEW t \in DOMAIN trees, NextOf(t) = patchId,
         \A i \in DOMAIN snapshots : i < t
  PROVE  LET latest == ChangesUpTo(t, patchId) IN
         /\ latest = IF trees[t].patches = <<>> THEN NoChanges ELSE trees[t].patches[patchId - t]
         /\ latest.added \subseteq DOMAIN dicts[t - 1] /\ latest.deleted \subseteq DOMAIN dicts[t - 1]
         /\ TriplesOfCodes(dicts[t - 1], CodesAfter(trees[t].base, latest)) = Materialized(patchId - 1)
<1> DEFINE latest == ChangesUpTo(t, patchId)
<1>1. PICK n : n = Len(trees[t].patches)
  OBVIOUS
<1>2. PICK p : p = trees[t].patches
  OBVIOUS
<1>3. PICK dict : dict = dicts[t - 1]
  OBVIOUS
<1>4. /\ t \in Nat /\ n \in Nat /\ patchId = t + n /\ t - 1 \in DOMAIN snapshots
      /\ p = <<>> <=> n = 0
  BY <1>1, <1>2, TreeTypes
<1>5. CASE n = 0
  <2>1. latest = NoChanges
    BY <1>2, <1>4, <1>5 DEF ChangesUpTo
  <2>2. CodesAfter(trees[t].base, latest) = trees[t].base
    BY <2>1 DEF CodesAfter, NoChanges
  <2>3. patchId - 1 = t - 1
    BY <1>4, <1>5
  <2>4. Materialized(patchId - 1) = snapshots[t - 1]
    BY <1>4, <2>3, MaterializedSnapshot
  <2>5. PICK codes : codes = HdtCodes(snapshots[t - 1])
    OBVIOUS
  <2>6. trees[t].base = codes
    BY <2>5, DictionaryOf
  <2>7. snapshots[t - 1] = {dict[c] : c \in codes}
    BY <1>3, <1>4, <2>5, DictionaryFacts
  <2>8. TriplesOfCodes(dict, CodesAfter(trees[t].base, latest)) = Materialized(patchId - 1)
    BY <2>2, <2>4, <2>6, <2>7 DEF TriplesOfCodes
  <2>9. latest.added = {} /\ latest.deleted = {}
    BY <2>1 DEF NoChanges
  <2>10. QED
    BY <1>2, <1>3, <1>4, <1>5, <2>1, <2>8, <2>9
<1>6. CASE n # 0
  <2>1. PICK id : id = patchId - 1
    OBVIOUS
  <2>2. id \in Int /\ t <= id /\ id < NextOf(t) /\ id - t + 1 = n
    BY <1>4, <1>6, <2>1
  <2>3. /\ id - t + 1 \in DOMAIN p /\ ChangesUpTo(t, id) = p[id - t + 1]
        /\ MaxPatchIdOf(t) = NextOf(t) - 1
    BY <1>2, <2>2, ChangesOf
  <2>4. MaxPatchIdOf(t) = id
    BY <2>1, <2>3
  <2>5. Min({patchId, id}) = id
    <3>1. PICK two : two = {patchId, id}
      OBVIOUS
    <3>2. two \subseteq Nat /\ two # {} /\ id \in two /\ \A x \in two : id <= x
      BY <1>4, <2>1, <2>2, <3>1
    <3>3. Min(two) \in two /\ \A y \in two : Min(two) <= y
      BY <3>2, MinOfNat
    <3>4. PICK m : m = Min(two)
      OBVIOUS
    <3>5. m \in Nat /\ m <= id /\ id <= m
      BY <3>2, <3>3, <3>4
    <3>6. m = id
      BY <2>2, <3>5
    <3>7. QED
      BY <3>1, <3>4, <3>6
  <2>6. latest = p[id - t + 1]
    BY <1>2, <1>4, <1>6, <2>4, <2>5 DEF ChangesUpTo
  <2>7. Materialized(id) = Contents(t, id)
    BY <2>2, MaterializedIs
  <2>8. Contents(t, id) = TriplesOfCodes(dict, CodesAfter(trees[t].base, latest))
    BY <1>2, <1>3, <2>6 DEF Contents
  <2>9. latest.added \subseteq DOMAIN dict /\ latest.deleted \subseteq DOMAIN dict
    BY <1>2, <1>3, <2>3, <2>6, DictionaryOf
  <2>10. latest = trees[t].patches[patchId - t]
    <3>1. patchId - t = n
      BY <1>4
    <3>2. QED
      BY <1>2, <2>2, <2>6, <3>1
  <2>11. QED
    BY <1>2, <1>3, <1>4, <1>6, <2>1, <2>7, <2>8, <2>9, <2>10
<1>7. QED
  BY <1>5, <1>6

\* What AppendPatch leaves behind.
LEMMA AppendOutcome ==
  ASSUME CInv, AppendPatch
  PROVE  \E t \in DOMAIN trees : \E changes : Appended(t, changes)
<1>1. phase = "merging"
  BY DEF AppendPatch
<1>2. PICK t \in DOMAIN trees :
           /\ NextOf(t) = patchId /\ \A i \in DOMAIN snapshots : i < t
           /\ \A u \in DOMAIN trees : u <= t
           /\ PatchTreeId(patchId) = t /\ LatestSnapshot(patchId) = t - 1
  BY <1>1, MergingTree
<1>3. PICK dict : dict = dicts[t - 1]
  OBVIOUS
<1>4. PICK latest : latest = ChangesUpTo(t, patchId)
  OBVIOUS
<1>5. PICK changes : changes = Merged(latest, Codes(dict, adds), Codes(dict, dels))
  OBVIOUS
<1>6. trees' = [trees EXCEPT ![t].patches = Append(@, changes)]
  BY <1>2, <1>3, <1>4, <1>5 DEF AppendPatch
<1>7. /\ latest.added \subseteq DOMAIN dict /\ latest.deleted \subseteq DOMAIN dict
      /\ TriplesOfCodes(dict, CodesAfter(trees[t].base, latest)) = Materialized(patchId - 1)
  BY <1>1, <1>2, <1>3, <1>4, LatestChanges
<1>8. /\ trees[t].base \subseteq DOMAIN dict /\ DistinctCodes(dict)
      /\ adds \cup dels \subseteq ToSet(dict) /\ adds \cap dels = {}
  BY <1>1, <1>2, <1>3, DictionaryOf, DictionaryFacts DEF CInv, PatchKnown
<1>9. PICK base : base = trees[t].base
  OBVIOUS
<1>10. /\ changes \in [added : SUBSET (DOMAIN dict), deleted : SUBSET (DOMAIN dict)]
       /\ TriplesOfCodes(dict, CodesAfter(base, changes)) =
            (TriplesOfCodes(dict, CodesAfter(base, latest)) \ dels) \cup adds
  <2>1. Merges(dict, base, latest, adds, dels, changes)
    BY <1>5, <1>7, <1>8, <1>9 DEF Merges
  <2>2. QED
    BY <2>1, MergedContents
<1>11. trees[t] = [base |-> trees[t].base, patches |-> trees[t].patches]
  BY DEF CInv, TypeOK, IsTree
<1>12. /\ DOMAIN trees' = DOMAIN trees /\ \A u \in DOMAIN trees : u # t => trees'[u] = trees[u]
       /\ trees'[t] = [trees[t] EXCEPT !.patches = Append(trees[t].patches, changes)]
  BY <1>6
<1>13. trees'[t] = [base |-> trees[t].base, patches |-> Append(trees[t].patches, changes)]
  BY <1>11, <1>12
<1>14. /\ phase' \in {"creating", "idle"} /\ patchId' = patchId + 1
       /\ adds' = {} /\ dels' = {} /\ UNCHANGED <<use, snapshots, dicts>>
  BY DEF AppendPatch
<1>15. patchId <= LastPatch
  BY <1>1 DEF CInv, AppendInOrder
<1>16. Appended(t, changes)
  BY <1>1, <1>2, <1>3, <1>4, <1>5, <1>7, <1>9, <1>10, <1>12, <1>13, <1>14, <1>15 DEF Appended
<1>17. QED
  BY <1>16

\* The tree that the patch was appended to.
LEMMA AppendedTrees ==
  ASSUME CInv, NEW t, NEW changes, Appended(t, changes)
  PROVE  /\ trees'[t].base = trees[t].base
         /\ trees'[t].patches \in Seq([added : SUBSET Nat, deleted : SUBSET Nat])
         /\ DOMAIN trees'[t].patches = 1 .. patchId - t + 1
         /\ DOMAIN trees[t].patches = 1 .. patchId - t
         /\ \A i \in DOMAIN trees[t].patches : trees'[t].patches[i] = trees[t].patches[i]
         /\ trees'[t].patches[patchId - t + 1] = changes
         /\ trees'[t].patches # <<>> /\ NextOf(t)' = patchId + 1
         /\ \A u \in DOMAIN trees : u # t => trees'[u] = trees[u] /\ NextOf(u)' = NextOf(u)
<1>1. PICK p : p = trees[t].patches
  OBVIOUS
<1>2. PICK n : n = Len(p)
  OBVIOUS
<1>3. t \in DOMAIN trees /\ t \in Nat /\ n \in Nat /\ patchId = t + n /\ patchId - t + 1 = n + 1
  <2>1. t \in DOMAIN trees /\ NextOf(t) = patchId
    BY DEF Appended
  <2>2. t \in Nat /\ n \in Nat /\ patchId = t + n
    BY <1>1, <1>2, <2>1, TreeTypes
  <2>3. QED
    BY <2>1, <2>2
<1>4. p \in Seq([added : SUBSET Nat, deleted : SUBSET Nat])
  BY <1>1, <1>3 DEF CInv, TreesOnSnapshots
<1>5. changes \in [added : SUBSET Nat, deleted : SUBSET Nat]
  <2>1. dicts[t - 1] \in Seq(Triples)
    BY <1>3, DictionaryOf
  <2>2. DOMAIN dicts[t - 1] \subseteq Nat
    BY <2>1
  <2>3. changes \in [added : SUBSET (DOMAIN dicts[t - 1]), deleted : SUBSET (DOMAIN dicts[t - 1])]
    BY DEF Appended
  <2>4. QED
    BY <2>2, <2>3
<1>6. PICK longer : longer = Append(p, changes)
  OBVIOUS
<1>7. /\ longer \in Seq([added : SUBSET Nat, deleted : SUBSET Nat]) /\ Len(longer) = n + 1
      /\ DOMAIN longer = 1 .. n + 1 /\ DOMAIN p = 1 .. n
      /\ \A i \in 1 .. n : longer[i] = p[i]
      /\ longer[n + 1] = changes
  BY <1>2, <1>3, <1>4, <1>5, <1>6
<1>8. trees'[t].base = trees[t].base /\ trees'[t].patches = longer
  BY <1>1, <1>6 DEF Appended
<1>9. longer # <<>>
  BY <1>3, <1>7
<1>10. NextOf(t)' = patchId + 1
  BY <1>3, <1>7, <1>8 DEF NextOf
<1>11. \A u \in DOMAIN trees : u # t => trees'[u] = trees[u] /\ NextOf(u)' = NextOf(u)
  BY DEF Appended, NextOf
<1>12. patchId - t = n
  BY <1>3
<1>13. QED
  BY <1>1, <1>3, <1>7, <1>8, <1>9, <1>10, <1>11, <1>12

\* AppendPatch takes nothing away.
LEMMA AppendGrown ==
  ASSUME CInv, NEW t, NEW changes, Appended(t, changes)
  PROVE  Grown
<1>1. DOMAIN trees' = DOMAIN trees /\ UNCHANGED <<snapshots, dicts>> /\ NextOf(t) = patchId
  BY DEF Appended
<1>2. \A u \in DOMAIN trees : NextOf(u) \in Nat
  BY TreeTypes
<1>3. patchId <= patchId + 1
  BY LastPatchAssumption DEF CInv, TypeOK
<1>4. ASSUME NEW u \in DOMAIN trees
      PROVE  /\ trees'[u].base = trees[u].base /\ NextOf(u) <= NextOf(u)'
             /\ \A i \in DOMAIN trees[u].patches : trees'[u].patches[i] = trees[u].patches[i]
  <2>1. CASE u = t
    BY <1>1, <1>3, <2>1, AppendedTrees
  <2>2. CASE u # t
    BY <1>2, <2>2, AppendedTrees
  <2>3. QED
    BY <2>1, <2>2
<1>5. QED
  BY <1>1, <1>4 DEF Grown

\* AppendPatch keeps the types.
LEMMA AppendTypes ==
  ASSUME CInv, NEW t, NEW changes, Appended(t, changes)
  PROVE  TypeOK'
<1>1. use' \in Uses /\ phase' \in {"idle", "merging", "creating"}
  BY DEF Appended, CInv, TypeOK
<1>2. patchId' \in 1 .. LastPatch + 1
  BY LastPatchAssumption DEF Appended, CInv, TypeOK
<1>3. adds' \subseteq Triples /\ dels' \subseteq Triples
  BY DEF Appended
<1>4. DOMAIN snapshots' \subseteq 0 .. LastPatch /\ DOMAIN dicts' = DOMAIN snapshots'
  BY DEF Appended, CInv, TypeOK
<1>5. \A i \in DOMAIN snapshots' : snapshots'[i] \subseteq Triples /\ dicts'[i] \in Seq(Triples)
  BY DEF Appended, CInv, TypeOK
<1>6. DOMAIN trees' \subseteq 1 .. LastPatch
  BY DEF Appended, CInv, TypeOK
<1>7. ASSUME NEW u \in DOMAIN trees'
      PROVE  /\ IsTree(trees'[u])
             /\ \A i \in DOMAIN trees'[u].patches :
                  trees'[u].patches[i].added \cup trees'[u].patches[i].deleted
                    \subseteq DOMAIN dicts'[LatestSnapshot(u - 1)']
  <2>1. u \in DOMAIN trees /\ dicts' = dicts
    BY DEF Appended
  <2>2. LatestSnapshot(u - 1)' = u - 1
    <3>1. u - 1 \in DOMAIN snapshots /\ LatestSnapshot(u - 1) = u - 1
      BY <2>1, TreeTypes, OwnSnapshot
    <3>2. QED
      BY <3>1 DEF LatestSnapshot, Appended
  <2>3. \A i \in DOMAIN trees[u].patches :
          trees[u].patches[i].added \cup trees[u].patches[i].deleted \subseteq DOMAIN dicts[u - 1]
    BY <2>1, DictionaryOf
  <2>4. CASE u # t
    BY <2>1, <2>2, <2>3, <2>4 DEF Appended, CInv, TypeOK
  <2>5. CASE u = t
    <3>1. PICK n : n = patchId - t
      OBVIOUS
    <3>2. /\ DOMAIN trees'[t].patches = 1 .. n + 1 /\ DOMAIN trees[t].patches = 1 .. n
          /\ \A i \in 1 .. n : trees'[t].patches[i] = trees[t].patches[i]
          /\ trees'[t].patches[n + 1] = changes /\ n \in Int
      <4>1. n \in Int /\ patchId - t + 1 = n + 1
        BY <2>1, <2>5, <3>1, TreeTypes
      <4>2. QED
        BY <3>1, <4>1, AppendedTrees
    <3>3. changes \in [added : SUBSET (DOMAIN dicts[t - 1]), deleted : SUBSET (DOMAIN dicts[t - 1])]
      BY DEF Appended
    <3>4. ASSUME NEW i \in 1 .. n + 1
          PROVE  /\ trees'[t].patches[i] = [added   |-> trees'[t].patches[i].added,
                                            deleted |-> trees'[t].patches[i].deleted]
                 /\ trees'[t].patches[i].added \cup trees'[t].patches[i].deleted
                      \subseteq DOMAIN dicts[t - 1]
      <4>1. CASE i = n + 1
        BY <3>2, <3>3, <4>1
      <4>2. CASE i # n + 1
        <5>1. i \in 1 .. n
          BY <3>2, <4>2
        <5>2. trees[t].patches[i] = [added   |-> trees[t].patches[i].added,
                                     deleted |-> trees[t].patches[i].deleted]
          BY <2>1, <2>5, <3>2, <5>1 DEF CInv, TypeOK, IsTree
        <5>3. QED
          BY <2>3, <2>5, <3>2, <5>1, <5>2
      <4>3. QED
        BY <4>1, <4>2
    <3>5. trees'[t] = [base |-> trees'[t].base, patches |-> trees'[t].patches]
      BY DEF Appended
    <3>6. IsTree(trees'[t])
      BY <3>2, <3>4, <3>5 DEF IsTree
    <3>7. QED
      BY <2>1, <2>2, <2>5, <3>2, <3>4, <3>6
  <2>6. QED
    BY <2>4, <2>5
<1>8. QED
  BY <1>1, <1>2, <1>3, <1>4, <1>5, <1>6, <1>7 DEF TypeOK

\* AppendPatch keeps the chains apart and in order.
LEMMA AppendChains ==
  ASSUME CInv, NEW t, NEW changes, Appended(t, changes)
  PROVE  ChainsInOrder' /\ AppendInOrder'
<1>1. /\ patchId \in Nat /\ 1 <= patchId /\ patchId' = patchId + 1
      /\ snapshots' = snapshots /\ DOMAIN trees' = DOMAIN trees
      /\ t \in DOMAIN trees /\ NextOf(t) = patchId
      /\ \A i \in DOMAIN snapshots : i < t
      /\ \A u \in DOMAIN trees : u <= t
  BY LastPatchAssumption DEF Appended, CInv, TypeOK
<1>2. \A u \in DOMAIN trees :
        /\ u \in Nat /\ NextOf(u) \in Nat /\ u - 1 \in DOMAIN snapshots
        /\ NextOf(u) <= patchId
  BY TreeTypes
<1>3. /\ NextOf(t)' = patchId + 1 /\ trees'[t].patches # <<>>
      /\ \A u \in DOMAIN trees : u # t => trees'[u] = trees[u] /\ NextOf(u)' = NextOf(u)
  BY AppendedTrees
<1>4. \A i \in DOMAIN snapshots : i \in Nat /\ i <= patchId - 1
  BY <1>1, OwnSnapshot DEF CInv, ChainsInOrder
<1>5. t <= patchId
  <2>1. NextOf(t) = t + Len(trees[t].patches) /\ Len(trees[t].patches) \in Nat /\ t \in Nat
    BY <1>1, TreeTypes
  <2>2. QED
    BY <1>1, <2>1
<1>6. ChainsInOrder'
  <2>1. 0 \in DOMAIN snapshots' /\ DOMAIN snapshots' \subseteq 0 .. patchId' - 1
    <3>1. 0 \in DOMAIN snapshots
      BY DEF CInv, ChainsInOrder
    <3>2. QED
      BY <1>1, <1>4, <3>1
  <2>2. ASSUME NEW u \in DOMAIN trees' PROVE u - 1 \in DOMAIN snapshots' /\ NextOf(u)' <= patchId'
    <3>1. CASE u = t
      BY <1>1, <1>2, <1>3, <3>1
    <3>2. CASE u # t
      BY <1>1, <1>2, <1>3, <3>2
    <3>3. QED
      BY <3>1, <3>2
  <2>3. ASSUME NEW u \in DOMAIN trees', NEW w \in DOMAIN trees', u < w PROVE NextOf(u)' <= w
    <3>1. u # t
      BY <1>1, <1>2, <2>3
    <3>2. QED
      BY <1>1, <1>3, <2>3, <3>1 DEF CInv, ChainsInOrder
  <2>4. ASSUME NEW id \in 1 .. patchId' - 1 PROVE \E u \in DOMAIN trees' : u <= id /\ id < NextOf(u)'
    <3>1. CASE id = patchId
      BY <1>1, <1>3, <1>5, <3>1
    <3>2. CASE id # patchId
      <4>1. id \in 1 .. patchId - 1
        BY <1>1, <3>2
      <4>2. PICK u \in DOMAIN trees : u <= id /\ id < NextOf(u)
        BY <4>1, Covered
      <4>3. id < NextOf(u)'
        BY <1>1, <1>2, <1>3, <4>1, <4>2
      <4>4. QED
        BY <1>1, <4>2, <4>3
    <3>3. QED
      BY <3>1, <3>2
  <2>5. ASSUME NEW u \in DOMAIN trees', NEW i \in DOMAIN snapshots'
        PROVE  i < u \/ NextOf(u)' - 1 <= i
    <3>1. CASE u = t
      BY <1>1, <3>1
    <3>2. CASE u # t
      BY <1>1, <1>3, <3>2 DEF CInv, ChainsInOrder
    <3>3. QED
      BY <3>1, <3>2
  <2>6. QED
    BY <2>1, <2>2, <2>3, <2>4, <2>5 DEF ChainsInOrder
<1>7. AppendInOrder'
  <2>1. phase' # "merging"
    BY DEF Appended
  <2>2. patchId' >= 2 /\ patchId' - 1 \notin DOMAIN snapshots'
    BY <1>1, <1>4
  <2>3. ASSUME NEW u \in DOMAIN trees' PROVE trees'[u].patches # <<>>
    <3>1. CASE u = t
      BY <1>3, <3>1
    <3>2. CASE u # t
      <4>1. u \in DOMAIN trees /\ trees'[u] = trees[u] /\ u < t
        BY <1>1, <1>2, <1>3, <3>2
      <4>2. trees[u].patches = <<>> => u = patchId
        BY <4>1 DEF CInv, AppendInOrder
      <4>3. QED
        BY <1>1, <1>2, <1>5, <4>1, <4>2
    <3>3. QED
      BY <3>1, <3>2
  <2>4. QED
    BY <2>1, <2>2, <2>3 DEF AppendInOrder
<1>8. QED
  BY <1>6, <1>7

\* AppendPatch keeps dictionaries, bases of trees and the patch in order.
LEMMA AppendContents ==
  ASSUME CInv, NEW t, NEW changes, Appended(t, changes)
  PROVE  DictsDistinct' /\ TreesOnSnapshots' /\ PatchKnown'
<1>1. /\ snapshots' = snapshots /\ dicts' = dicts /\ DOMAIN trees' = DOMAIN trees
      /\ t \in DOMAIN trees /\ \A i \in DOMAIN snapshots : i < t
  BY DEF Appended
<1>2. DictsDistinct'
  <2>1. DictsDistinct
    BY DEF CInv
  <2>2. QED
    BY <1>1, <2>1 DEF DictsDistinct, HdtCodes
<1>3. TreesOnSnapshots'
  <2>1. SUFFICES ASSUME NEW u \in DOMAIN trees
                 PROVE  /\ trees'[u].base = HdtCodes(snapshots[u - 1])
                        /\ trees'[u].patches \in Seq([added : SUBSET Nat, deleted : SUBSET Nat])
                        /\ \A id \in u .. NextOf(u)' - 1 :
                             id \in DOMAIN snapshots => snapshots[id] = Contents(u, id)'
    BY <1>1 DEF TreesOnSnapshots, HdtCodes
  <2>2. /\ trees[u].base = HdtCodes(snapshots[u - 1])
        /\ trees[u].patches \in Seq([added : SUBSET Nat, deleted : SUBSET Nat])
    BY DEF CInv, TreesOnSnapshots
  <2>3. CASE u = t
    <3>1. /\ trees'[t].base = trees[t].base
          /\ trees'[t].patches \in Seq([added : SUBSET Nat, deleted : SUBSET Nat])
      BY AppendedTrees
    <3>2. t \in Nat /\ NextOf(t)' \in Int
      <4>1. t \in Nat /\ patchId \in Nat
        BY <1>1, TreeTypes
      <4>2. NextOf(t)' = patchId + 1
        BY AppendedTrees
      <4>3. QED
        BY <4>1, <4>2
    <3>3. \A id \in t .. NextOf(t)' - 1 : id \notin DOMAIN snapshots
      BY <1>1, <3>2
    <3>4. QED
      BY <2>2, <2>3, <3>1, <3>3
  <2>4. CASE u # t
    <3>1. trees'[u] = trees[u] /\ NextOf(u)' = NextOf(u)
      BY <2>4, AppendedTrees
    <3>2. ASSUME NEW id \in u .. NextOf(u) - 1, id \in DOMAIN snapshots
          PROVE  snapshots[id] = Contents(u, id)'
      <4>1. snapshots[id] = Contents(u, id)
        BY <3>2 DEF CInv, TreesOnSnapshots
      <4>2. Contents(u, id)' = Contents(u, id)
        BY <1>1, <3>1 DEF Contents
      <4>3. QED
        BY <4>1, <4>2
    <3>3. QED
      BY <2>2, <3>1, <3>2
  <2>5. QED
    BY <2>3, <2>4
<1>4. PatchKnown'
  <2>1. phase' # "merging" /\ adds' \cap dels' = {}
    BY DEF Appended
  <2>2. QED
    BY <2>1 DEF PatchKnown
<1>5. QED
  BY <1>2, <1>3, <1>4

\* AppendPatch keeps the invariant.
LEMMA AppendInv == ASSUME CInv, AppendPatch PROVE CInv'
<1>1. PICK t \in DOMAIN trees : \E changes : Appended(t, changes)
  BY AppendOutcome
<1>2. PICK changes : Appended(t, changes)
  BY <1>1
<1>3. QED
  BY <1>2, AppendTypes, AppendChains, AppendContents DEF CInv

(***************************************************************************)
(* The version that an append publishes: the latest one without what the   *)
(* patch deletes and with what it adds, through the codes, the changes     *)
(* that the tree already has and the merge.                                *)
(***************************************************************************)
LEMMA AppendedVersion ==
  ASSUME CInv, CInv', NEW t, NEW changes, Appended(t, changes), NEW v, v = patchId
  PROVE  Materialized(v)' = (Materialized(v - 1) \ dels) \cup adds
<1>1. t \in DOMAIN trees /\ t \in DOMAIN trees' /\ v \in Nat /\ NextOf(t) = v /\ dicts' = dicts
  BY LastPatchAssumption DEF Appended, CInv, TypeOK
<1>2. /\ trees'[t].base = trees[t].base /\ NextOf(t)' = v + 1
      /\ trees'[t].patches[v - t + 1] = changes
  BY AppendedTrees
<1>3. t <= v
  <2>1. NextOf(t) = t + Len(trees[t].patches) /\ Len(trees[t].patches) \in Nat /\ t \in Nat
    BY <1>1, TreeTypes
  <2>2. QED
    BY <1>1, <2>1
<1>4. (CInv => ReadFromSnapshots /\ ReadFromTrees /\ TreesEnd)'
  BY ReadFrom, PTL
<1>5. v < NextOf(t)' /\ v \in Int
  BY <1>1, <1>2
<1>6. Materialized(v)' = Contents(t, v)'
  BY <1>1, <1>3, <1>4, <1>5 DEF ReadFromTrees
<1>7. Contents(t, v)' = TriplesOfCodes(dicts[t - 1], CodesAfter(trees[t].base, changes))
  BY <1>1, <1>2 DEF Contents
<1>8. TriplesOfCodes(dicts[t - 1], CodesAfter(trees[t].base, changes))
        = (Materialized(v - 1) \ dels) \cup adds
  BY DEF Appended
<1>9. QED
  BY <1>6, <1>7, <1>8

-----------------------------------------------------------------------------
(* A snapshot is created *)

\* What CreateSnapshot does.
Created(id) ==
  /\ id = patchId - 1 /\ id \in 1 .. LastPatch /\ id \notin DOMAIN snapshots
  /\ Materialized(id) \in SUBSET Triples
  /\ DOMAIN snapshots' = DOMAIN snapshots \cup {id} /\ DOMAIN dicts' = DOMAIN dicts \cup {id}
  /\ snapshots'[id] = Materialized(id) /\ dicts'[id] = Sorted(Materialized(id))
  /\ \A s \in DOMAIN snapshots : snapshots'[s] = snapshots[s] /\ dicts'[s] = dicts[s]
  /\ phase = "creating" /\ phase' = "idle"
  /\ UNCHANGED <<use, trees, patchId, adds, dels>>

\* What CreateSnapshot leaves behind.
LEMMA CreateOutcome ==
  ASSUME CInv, CreateSnapshot
  PROVE  \E id \in Nat : Created(id)
<1>1. PICK id : id = patchId - 1
  OBVIOUS
<1>2. phase = "creating"
  BY DEF CreateSnapshot
<1>3. patchId \in 1 .. LastPatch + 1 /\ patchId >= 2 /\ id \notin DOMAIN snapshots
  BY <1>1, <1>2 DEF CInv, AppendInOrder, TypeOK
<1>4. id \in 1 .. LastPatch /\ id \in Nat /\ id \in 1 .. patchId - 1
  BY <1>1, <1>3, LastPatchAssumption
<1>5. PICK latest : latest = Materialized(id)
  OBVIOUS
<1>6. latest \subseteq Triples
  <2>1. PICK t \in DOMAIN trees : t <= id /\ id < NextOf(t)
    BY <1>4, Covered
  <2>2. Materialized(id) = Contents(t, id) /\ Contents(t, id) \subseteq Triples
    BY <1>4, <2>1, MaterializedIs, ContentsTyped
  <2>3. QED
    BY <1>5, <2>2
<1>7. DOMAIN dicts = DOMAIN snapshots
  BY DEF CInv, TypeOK
<1>8. snapshots' = With(snapshots, id, latest) /\ dicts' = With(dicts, id, Sorted(latest))
  BY <1>1, <1>5 DEF CreateSnapshot
<1>9. /\ DOMAIN snapshots' = DOMAIN snapshots \cup {id} /\ snapshots'[id] = latest
      /\ \A s \in DOMAIN snapshots : snapshots'[s] = snapshots[s]
  BY <1>3, <1>8 DEF With
<1>10. /\ DOMAIN dicts' = DOMAIN dicts \cup {id} /\ dicts'[id] = Sorted(latest)
       /\ \A s \in DOMAIN dicts : dicts'[s] = dicts[s]
  BY <1>3, <1>7, <1>8 DEF With
<1>11. phase' = "idle" /\ UNCHANGED <<use, trees, patchId, adds, dels>>
  BY DEF CreateSnapshot
<1>12. Created(id)
  BY <1>1, <1>2, <1>3, <1>4, <1>5, <1>6, <1>7, <1>9, <1>10, <1>11 DEF Created
<1>13. QED
  BY <1>4, <1>12

\* CreateSnapshot takes nothing away.
LEMMA CreateGrown ==
  ASSUME CInv, NEW id \in Nat, Created(id)
  PROVE  Grown
<1>1. trees' = trees /\ \A t \in DOMAIN trees : NextOf(t)' = NextOf(t) /\ NextOf(t) \in Nat
  BY TreeTypes DEF Created, NextOf
<1>2. \A s \in DOMAIN snapshots :
        s \in DOMAIN snapshots' /\ snapshots'[s] = snapshots[s] /\ dicts'[s] = dicts[s]
  BY DEF Created
<1>3. QED
  BY <1>1, <1>2 DEF Grown

\* The dictionary of a new snapshot has exactly its triples, each once.
LEMMA SortedDictionary ==
  ASSUME NEW S \in SUBSET Triples
  PROVE  /\ Sorted(S) \in Seq(Triples) /\ DistinctCodes(Sorted(S))
         /\ DOMAIN Sorted(S) = HdtCodes(S)
         /\ S = {Sorted(S)[c] : c \in HdtCodes(S)}
<1>1. PICK dict : dict = Sorted(S)
  OBVIOUS
<1>2. IsFiniteSet(S) /\ dict \in SetToSeqs(S)
  BY <1>1, SortedFacts
<1>3. PICK n : n = Cardinality(S)
  OBVIOUS
<1>4. /\ n \in Nat /\ dict \in [1 .. n -> S] /\ dict \in Seq(S) /\ DOMAIN dict = 1 .. n
      /\ \A c, d \in 1 .. n : dict[c] = dict[d] => c = d
      /\ \A x \in S : \E c \in 1 .. n : dict[c] = x
  BY <1>2, <1>3, EnumerationFacts
<1>5. dict \in Seq(Triples)
  BY <1>4, SeqMonotonic
<1>6. S = {dict[c] : c \in 1 .. n}
  BY <1>4
<1>7. HdtCodes(S) = 1 .. n
  BY <1>3 DEF HdtCodes
<1>8. S = {Sorted(S)[c] : c \in HdtCodes(S)}
  BY <1>1, <1>6, <1>7, Zenon
<1>9. QED
  BY <1>1, <1>4, <1>5, <1>7, <1>8 DEF DistinctCodes

\* CreateSnapshot keeps the types.
LEMMA CreateTypes ==
  ASSUME CInv, NEW id \in Nat, Created(id)
  PROVE  TypeOK'
<1>1. /\ use' \in Uses /\ phase' \in {"idle", "merging", "creating"}
      /\ patchId' \in 1 .. LastPatch + 1 /\ adds' \subseteq Triples /\ dels' \subseteq Triples
      /\ DOMAIN trees' \subseteq 1 .. LastPatch
  BY DEF Created, CInv, TypeOK
<1>2. DOMAIN snapshots' \subseteq 0 .. LastPatch /\ DOMAIN dicts' = DOMAIN snapshots'
  <2>1. id \in 0 .. LastPatch
    BY LastPatchAssumption DEF Created
  <2>2. QED
    BY <2>1 DEF Created, CInv, TypeOK
<1>3. ASSUME NEW s \in DOMAIN snapshots'
      PROVE  snapshots'[s] \subseteq Triples /\ dicts'[s] \in Seq(Triples)
  <2>1. CASE s \in DOMAIN snapshots
    BY <2>1 DEF Created, CInv, TypeOK
  <2>2. CASE s \notin DOMAIN snapshots
    <3>1. PICK latest : latest = Materialized(id)
      OBVIOUS
    <3>2. s = id /\ snapshots'[s] = latest /\ dicts'[s] = Sorted(latest) /\ latest \in SUBSET Triples
      BY <2>2, <3>1 DEF Created
    <3>3. QED
      BY <3>2, SortedDictionary
  <2>3. QED
    BY <2>1, <2>2
<1>4. ASSUME NEW t \in DOMAIN trees'
      PROVE  /\ IsTree(trees'[t])
             /\ \A i \in DOMAIN trees'[t].patches :
                  trees'[t].patches[i].added \cup trees'[t].patches[i].deleted
                    \subseteq DOMAIN dicts'[LatestSnapshot(t - 1)']
  <2>1. t \in DOMAIN trees /\ trees' = trees
    BY DEF Created
  <2>2. t - 1 \in DOMAIN snapshots /\ t - 1 \in DOMAIN snapshots' /\ t - 1 \in Nat
    BY <2>1, TreeTypes, OwnSnapshot DEF Created
  <2>3. LatestSnapshot(t - 1)' = t - 1
    <3>1. PICK s : s = t - 1
      OBVIOUS
    <3>2. s \in Int /\ s \in DOMAIN snapshots' /\ s <= s
      BY <2>2, <3>1
    <3>3. LatestIn(DOMAIN snapshots', s) = s
      BY <1>2, <3>2, LastPatchAssumption, LatestIs
    <3>4. QED
      BY <2>1, <3>1, <3>3 DEF LatestSnapshot
  <2>4. dicts'[t - 1] = dicts[t - 1]
    BY <2>2 DEF Created
  <2>5. \A i \in DOMAIN trees[t].patches :
          trees[t].patches[i].added \cup trees[t].patches[i].deleted \subseteq DOMAIN dicts[t - 1]
    BY <2>1, DictionaryOf
  <2>6. IsTree(trees[t])
    BY <2>1 DEF CInv, TypeOK
  <2>7. QED
    BY <2>1, <2>3, <2>4, <2>5, <2>6
<1>5. QED
  BY <1>1, <1>2, <1>3, <1>4 DEF TypeOK

\* CreateSnapshot keeps the chains apart and in order.
LEMMA CreateChains ==
  ASSUME CInv, NEW id \in Nat, Created(id)
  PROVE  ChainsInOrder' /\ AppendInOrder'
<1>1. /\ trees' = trees /\ patchId' = patchId /\ id = patchId - 1 /\ patchId \in Nat /\ 1 <= patchId
      /\ DOMAIN snapshots' = DOMAIN snapshots \cup {id} /\ phase = "creating" /\ phase' = "idle"
  BY LastPatchAssumption DEF Created, CInv, TypeOK
<1>2. \A t \in DOMAIN trees : NextOf(t)' = NextOf(t) /\ NextOf(t) <= patchId /\ NextOf(t) \in Nat
  BY <1>1, TreeTypes DEF NextOf
<1>3. ChainsInOrder'
  <2>1. 0 \in DOMAIN snapshots' /\ DOMAIN snapshots' \subseteq 0 .. patchId' - 1
    <3>1. 0 \in DOMAIN snapshots /\ DOMAIN snapshots \subseteq 0 .. patchId - 1
      BY DEF CInv, ChainsInOrder
    <3>2. QED
      BY <1>1, <3>1
  <2>2. ASSUME NEW t \in DOMAIN trees' PROVE t - 1 \in DOMAIN snapshots' /\ NextOf(t)' <= patchId'
    BY <1>1, <1>2, TreeTypes
  <2>3. ASSUME NEW t \in DOMAIN trees', NEW u \in DOMAIN trees', t < u PROVE NextOf(t)' <= u
    BY <1>1, <1>2, <2>3 DEF CInv, ChainsInOrder
  <2>4. ASSUME NEW v \in 1 .. patchId' - 1 PROVE \E t \in DOMAIN trees' : t <= v /\ v < NextOf(t)'
    <3>1. PICK t \in DOMAIN trees : t <= v /\ v < NextOf(t)
      BY <1>1, Covered
    <3>2. QED
      BY <1>1, <1>2, <3>1
  <2>5. ASSUME NEW t \in DOMAIN trees', NEW s \in DOMAIN snapshots'
        PROVE  s < t \/ NextOf(t)' - 1 <= s
    <3>1. CASE s \in DOMAIN snapshots
      BY <1>1, <1>2, <3>1 DEF CInv, ChainsInOrder
    <3>2. CASE s \notin DOMAIN snapshots
      <4>1. s = patchId - 1
        BY <1>1, <3>2
      <4>2. QED
        BY <1>1, <1>2, <4>1
    <3>3. QED
      BY <3>1, <3>2
  <2>6. QED
    BY <2>1, <2>2, <2>3, <2>4, <2>5 DEF ChainsInOrder
<1>4. AppendInOrder'
  <2>1. \A t \in DOMAIN trees : trees[t].patches # <<>>
    BY <1>1 DEF CInv, AppendInOrder
  <2>2. QED
    BY <1>1, <2>1 DEF AppendInOrder
<1>5. QED
  BY <1>3, <1>4

\* CreateSnapshot keeps dictionaries, bases of trees and the patch in order.
LEMMA CreateContents ==
  ASSUME CInv, NEW id \in Nat, Created(id)
  PROVE  DictsDistinct' /\ TreesOnSnapshots' /\ PatchKnown'
<1>1. /\ trees' = trees /\ id = patchId - 1 /\ id \notin DOMAIN snapshots
      /\ DOMAIN snapshots' = DOMAIN snapshots \cup {id}
      /\ \A s \in DOMAIN snapshots : snapshots'[s] = snapshots[s] /\ dicts'[s] = dicts[s]
  BY DEF Created
<1>2. DictsDistinct'
  <2>1. SUFFICES ASSUME NEW s \in DOMAIN snapshots'
                 PROVE  /\ \A c, d \in DOMAIN dicts'[s] : dicts'[s][c] = dicts'[s][d] => c = d
                        /\ HdtCodes(snapshots'[s]) \subseteq DOMAIN dicts'[s]
                        /\ snapshots'[s] = {dicts'[s][c] : c \in HdtCodes(snapshots'[s])}
    BY DEF DictsDistinct, HdtCodes
  <2>2. CASE s \in DOMAIN snapshots
    <3>1. snapshots'[s] = snapshots[s] /\ dicts'[s] = dicts[s]
      BY <1>1, <2>2
    <3>2. /\ \A c, d \in DOMAIN dicts[s] : dicts[s][c] = dicts[s][d] => c = d
          /\ HdtCodes(snapshots[s]) \subseteq DOMAIN dicts[s]
          /\ snapshots[s] = {dicts[s][c] : c \in HdtCodes(snapshots[s])}
      BY <2>2 DEF CInv, DictsDistinct
    <3>3. QED
      BY <3>1, <3>2
  <2>3. CASE s \notin DOMAIN snapshots
    <3>1. PICK S : S = Materialized(id)
      OBVIOUS
    <3>2. S \in SUBSET Triples /\ snapshots'[s] = S /\ dicts'[s] = Sorted(S)
      BY <1>1, <2>3, <3>1 DEF Created
    <3>3. /\ DistinctCodes(Sorted(S)) /\ DOMAIN Sorted(S) = HdtCodes(S)
          /\ S = {Sorted(S)[c] : c \in HdtCodes(S)}
      BY <3>2, SortedDictionary
    <3>4. QED
      BY <3>2, <3>3 DEF DistinctCodes
  <2>4. QED
    BY <2>2, <2>3
<1>3. TreesOnSnapshots'
  <2>1. SUFFICES ASSUME NEW t \in DOMAIN trees
                 PROVE  /\ trees[t].base = HdtCodes(snapshots'[t - 1])
                        /\ trees[t].patches \in Seq([added : SUBSET Nat, deleted : SUBSET Nat])
                        /\ \A v \in t .. NextOf(t)' - 1 :
                             v \in DOMAIN snapshots' => snapshots'[v] = Contents(t, v)'
    BY <1>1 DEF TreesOnSnapshots, HdtCodes
  <2>2. t - 1 \in DOMAIN snapshots /\ t \in Nat /\ NextOf(t) \in Nat /\ NextOf(t)' = NextOf(t)
    BY <1>1, TreeTypes DEF NextOf
  <2>3. snapshots'[t - 1] = snapshots[t - 1]
    BY <1>1, <2>2
  <2>4. /\ trees[t].base = HdtCodes(snapshots[t - 1])
        /\ trees[t].patches \in Seq([added : SUBSET Nat, deleted : SUBSET Nat])
    BY DEF CInv, TreesOnSnapshots
  <2>5. ASSUME NEW v \in t .. NextOf(t) - 1, v \in DOMAIN snapshots'
        PROVE  snapshots'[v] = Contents(t, v)'
    <3>1. v \in Int /\ t <= v /\ v < NextOf(t)
      BY <2>2
    <3>2. Contents(t, v)' = Contents(t, v)
      BY <3>1, CreateGrown, ContentsStay
    <3>3. CASE v \in DOMAIN snapshots
      BY <1>1, <3>2, <3>3 DEF CInv, TreesOnSnapshots
    <3>4. CASE v \notin DOMAIN snapshots
      <4>1. v = id
        BY <1>1, <2>5, <3>4
      <4>2. snapshots'[v] = Materialized(v)
        BY <4>1 DEF Created
      <4>3. Materialized(v) = Contents(t, v)
        BY <3>1, MaterializedIs
      <4>4. QED
        BY <3>2, <4>2, <4>3
    <3>5. QED
      BY <3>3, <3>4
  <2>6. QED
    BY <2>2, <2>3, <2>4, <2>5
<1>4. PatchKnown'
  <2>1. phase' # "merging" /\ adds' \cap dels' = {}
    BY DEF Created, CInv, PatchKnown
  <2>2. QED
    BY <2>1 DEF PatchKnown
<1>5. QED
  BY <1>2, <1>3, <1>4

\* CreateSnapshot keeps the invariant.
LEMMA CreateInv == ASSUME CInv, CreateSnapshot PROVE CInv'
<1>1. PICK id \in Nat : Created(id)
  BY CreateOutcome
<1>2. QED
  BY <1>1, CreateTypes, CreateChains, CreateContents DEF CInv

-----------------------------------------------------------------------------
(* The invariant is inductive *)

\* The first snapshot establishes the invariant.
LEMMA InitCInv == Init => CInv
<1> SUFFICES ASSUME Init PROVE CInv
  OBVIOUS
<1>1. PICK S \in SUBSET Triples :
           snapshots = [s \in {0} |-> S] /\ dicts = [s \in {0} |-> Sorted(S)]
  BY DEF Init
<1>2. /\ DOMAIN snapshots = {0} /\ DOMAIN dicts = {0}
      /\ snapshots[0] = S /\ dicts[0] = Sorted(S)
  BY <1>1
<1>3. DOMAIN trees = {}
  BY DEF Init
<1>4. /\ use \in Uses /\ phase = "idle" /\ patchId = 1 /\ adds = {} /\ dels = {}
  BY DEF Init
<1>5. /\ Sorted(S) \in Seq(Triples) /\ DistinctCodes(Sorted(S))
      /\ DOMAIN Sorted(S) = HdtCodes(S)
      /\ S = {Sorted(S)[c] : c \in HdtCodes(S)}
  BY SortedDictionary
<1>6. TypeOK
  <2>1. patchId \in 1 .. LastPatch + 1 /\ DOMAIN snapshots \subseteq 0 .. LastPatch
    BY <1>2, <1>4, LastPatchAssumption
  <2>2. QED
    BY <1>2, <1>3, <1>4, <1>5, <2>1 DEF TypeOK
<1>7. ChainsInOrder
  BY <1>2, <1>3, <1>4 DEF ChainsInOrder
<1>8. AppendInOrder
  BY <1>3, <1>4 DEF AppendInOrder
<1>9. DictsDistinct
  <2>1. SUFFICES ASSUME NEW s \in {0}
                 PROVE  /\ \A c, d \in DOMAIN dicts[s] : dicts[s][c] = dicts[s][d] => c = d
                        /\ HdtCodes(snapshots[s]) \subseteq DOMAIN dicts[s]
                        /\ snapshots[s] = {dicts[s][c] : c \in HdtCodes(snapshots[s])}
    BY <1>2 DEF DictsDistinct
  <2>2. snapshots[s] = S /\ dicts[s] = Sorted(S)
    BY <1>2
  <2>3. QED
    BY <1>5, <2>2 DEF DistinctCodes
<1>10. TreesOnSnapshots
  BY <1>3 DEF TreesOnSnapshots
<1>11. PatchKnown
  BY <1>4 DEF PatchKnown
<1>12. QED
  BY <1>6, <1>7, <1>8, <1>9, <1>10, <1>11 DEF CInv

\* A step that changes nothing keeps the invariant.
LEMMA UnchangedCInv == CInv /\ UNCHANGED vars => CInv'
<1> SUFFICES ASSUME CInv, UNCHANGED vars PROVE CInv'
  OBVIOUS
<1>1. /\ use' = use /\ snapshots' = snapshots /\ dicts' = dicts /\ trees' = trees
      /\ phase' = phase /\ patchId' = patchId /\ adds' = adds /\ dels' = dels
  BY DEF vars
<1>2. TypeOK'
  <2>1. TypeOK
    BY DEF CInv
  <2>2. QED
    BY <1>1, <2>1 DEF TypeOK, LatestSnapshot, IsTree
<1>3. ChainsInOrder'
  <2>1. ChainsInOrder
    BY DEF CInv
  <2>2. QED
    BY <1>1, <2>1 DEF ChainsInOrder, NextOf
<1>4. AppendInOrder'
  <2>1. AppendInOrder
    BY DEF CInv
  <2>2. QED
    BY <1>1, <2>1 DEF AppendInOrder, NextOf
<1>5. DictsDistinct'
  <2>1. DictsDistinct
    BY DEF CInv
  <2>2. QED
    BY <1>1, <2>1 DEF DictsDistinct, HdtCodes
<1>6. TreesOnSnapshots'
  <2>1. TreesOnSnapshots
    BY DEF CInv
  <2>2. QED
    BY <1>1, <2>1 DEF TreesOnSnapshots, HdtCodes, NextOf, Contents
<1>7. PatchKnown'
  <2>1. PatchKnown
    BY DEF CInv
  <2>2. QED
    BY <1>1, <2>1 DEF PatchKnown, LatestSnapshot
<1>8. QED
  BY <1>2, <1>3, <1>4, <1>5, <1>6, <1>7 DEF CInv

\* Every step keeps the invariant.
LEMMA NextCInv == CInv /\ [Next]_vars => CInv'
<1> SUFFICES ASSUME CInv, [Next]_vars PROVE CInv'
  OBVIOUS
<1>1. CASE BeginAppend
  BY <1>1, BeginInv
<1>2. CASE AppendPatch
  BY <1>2, AppendInv
<1>3. CASE CreateSnapshot
  BY <1>3, CreateInv
<1>4. CASE UNCHANGED vars
  BY <1>4, UnchangedCInv
<1>5. QED
  BY <1>1, <1>2, <1>3, <1>4 DEF Next, Quiet

\* The invariant holds in every reachable state.
LEMMA Invariant == Spec => []CInv
BY InitCInv, NextCInv, PTL DEF Spec

-----------------------------------------------------------------------------
(* The theorems *)

(***************************************************************************)
(* Types and bounds, among them that the codes of a tree are always those  *)
(* of the dictionary that its snapshot has, however often a snapshot is    *)
(* created and whichever dictionary takes up new triples.                  *)
(***************************************************************************)
THEOREM ControllerTypes == Spec => []TypeOK
BY Invariant, PTL DEF CInv

(***************************************************************************)
(* The id that a builder gives its patch is the one after the latest       *)
(* version, before the first patch, with and without a fresh snapshot.     *)
(***************************************************************************)
THEOREM MaxPatchIdRight == Spec => []MaxPatchIdIsLatest
<1>1. CInv => MaxPatchIdIsLatest
  BY MaxPatchIdFacts DEF MaxPatchIdIsLatest
<1>2. QED
  BY <1>1, Invariant, PTL

\* No step takes anything away.
LEMMA NextGrown == CInv /\ CInv' /\ [Next]_vars => Grown
<1> SUFFICES ASSUME CInv, CInv', [Next]_vars PROVE Grown
  OBVIOUS
<1>1. CASE BeginAppend
  <2>1. phase # "merging"
    BY <1>1 DEF BeginAppend
  <2>2. PICK s \in DOMAIN snapshots : Begun(s)
    BY <1>1, BeginOutcome
  <2>3. QED
    BY <2>1, <2>2, BeginGrown
<1>2. CASE AppendPatch
  <2>1. PICK t \in DOMAIN trees : \E changes : Appended(t, changes)
    BY <1>2, AppendOutcome
  <2>2. PICK changes : Appended(t, changes)
    BY <2>1
  <2>3. QED
    BY <2>2, AppendGrown
<1>3. CASE CreateSnapshot
  <2>1. PICK id \in Nat : Created(id)
    BY <1>3, CreateOutcome
  <2>2. QED
    BY <2>1, CreateGrown
<1>4. CASE UNCHANGED vars
  <2>1. snapshots' = snapshots /\ dicts' = dicts /\ trees' = trees
    BY <1>4 DEF vars
  <2>2. \A t \in DOMAIN trees : NextOf(t)' = NextOf(t) /\ NextOf(t) \in Nat
    BY <2>1, TreeTypes DEF NextOf
  <2>3. QED
    BY <2>1, <2>2 DEF Grown
<1>5. QED
  BY <1>1, <1>2, <1>3, <1>4 DEF Next, Quiet

(***************************************************************************)
(* No step changes a version that is published: not the triples that a     *)
(* dictionary takes up, not a patch behind it in its tree, and not the     *)
(* snapshot that is created of it or that it is read from afterwards.      *)
(***************************************************************************)
PublishedKept == \A v \in 0 .. patchId - 1 : Materialized(v)' = Materialized(v)

\* No step changes what a published version is materialized to.
THEOREM PublishedVersionsKept == Spec => [][PublishedKept]_vars
<1>1. CInv /\ CInv' /\ [Next]_vars => PublishedKept
  BY NextGrown, PublishedStay DEF PublishedKept
<1>2. QED
  BY <1>1, Invariant, PTL DEF Spec

-----------------------------------------------------------------------------
(* The controller implements the store *)

Versions == [i \in 1 .. patchId |-> Materialized(i - 1)]

VersionsInOrder ==
  /\ patchId \in Nat /\ 1 <= patchId
  /\ Versions \in Seq(SUBSET Triples) /\ Len(Versions) = patchId
  /\ \A i \in 1 .. patchId : Versions[i] = Materialized(i - 1)

\* The versions are a sequence, one longer than the last patch id.
LEMMA VersionsSeq == CInv => VersionsInOrder
<1> SUFFICES ASSUME CInv PROVE VersionsInOrder
  OBVIOUS
<1>1. patchId \in Nat /\ 1 <= patchId
  BY LastPatchAssumption DEF CInv, TypeOK
<1>2. PICK n : n = patchId
  OBVIOUS
<1>3. ASSUME NEW i \in 1 .. n PROVE Materialized(i - 1) \in SUBSET Triples
  <2>1. CASE i = 1
    <3>1. 0 \in DOMAIN snapshots
      BY DEF CInv, ChainsInOrder
    <3>2. Materialized(0) \subseteq Triples
      BY <3>1, MaterializedSnapshot
    <3>3. QED
      BY <2>1, <3>2
  <2>2. CASE i # 1
    <3>1. PICK v : v = i - 1
      OBVIOUS
    <3>2. v \in 1 .. patchId - 1
      BY <1>1, <1>2, <2>2, <3>1
    <3>3. PICK t \in DOMAIN trees : t <= v /\ v < NextOf(t)
      BY <3>2, Covered
    <3>4. Materialized(v) = Contents(t, v) /\ Contents(t, v) \subseteq Triples
      BY <3>2, <3>3, MaterializedIs, ContentsTyped
    <3>5. QED
      BY <3>1, <3>4
  <2>3. QED
    BY <2>1, <2>2
<1>4. Versions \in [1 .. n -> SUBSET Triples] /\ \A i \in 1 .. n : Versions[i] = Materialized(i - 1)
  BY <1>2, <1>3 DEF Versions
<1>5. Versions \in Seq(SUBSET Triples)
  BY <1>1, <1>2, <1>4, SeqDef
<1>6. Len(Versions) = n
  <2>1. Len(Versions) \in Nat /\ DOMAIN Versions = 1 .. Len(Versions) /\ DOMAIN Versions = 1 .. n
    BY <1>4, <1>5, LenProperties
  <2>2. n \in 1 .. Len(Versions)
    BY <1>1, <1>2, <2>1
  <2>3. Len(Versions) \in 1 .. n
    BY <2>1, <2>2
  <2>4. n \in Nat /\ Len(Versions) \in Nat /\ n <= Len(Versions) /\ Len(Versions) <= n
    BY <1>1, <1>2, <2>1, <2>2, <2>3
  <2>5. QED
    BY <2>4
<1>7. QED
  BY <1>1, <1>2, <1>4, <1>5, <1>6 DEF VersionsInOrder

\* The versions after a step that publishes none.
LEMMA VersionsKept ==
  ASSUME CInv, CInv', [Next]_vars, patchId' = patchId
  PROVE  Versions' = Versions
<1>1. \A v \in 0 .. patchId - 1 : Materialized(v)' = Materialized(v)
  BY NextGrown, PublishedStay
<1>2. \A i \in 1 .. patchId : i - 1 \in 0 .. patchId - 1
  BY VersionsSeq DEF VersionsInOrder
<1>3. \A i \in 1 .. patchId : Materialized(i - 1)' = Materialized(i - 1)
  BY <1>1, <1>2
<1>4. QED
  BY <1>3 DEF Versions

\* BeginAppend begins an append of the store.
LEMMA BeginRefines ==
  ASSUME CInv, CInv', BeginAppend
  PROVE  Store!Begin
<1>1. PICK s \in DOMAIN snapshots : Begun(s)
  BY BeginOutcome
<1>2. /\ patchId' = patchId /\ phase # "merging" /\ phase' = "merging"
      /\ adds' \in SUBSET (Triples \ Materialized(patchId - 1))
      /\ dels' \in SUBSET Materialized(patchId - 1)
  BY <1>1 DEF Begun, BeginAppend
<1>3. Versions' = Versions
  BY <1>2, VersionsKept DEF Next
<1>4. Versions[Len(Versions)] = Materialized(patchId - 1)
  BY VersionsSeq DEF VersionsInOrder
<1>5. QED
  BY <1>2, <1>3, <1>4 DEF Store!Begin, Store!Latest, Versions

\* AppendPatch publishes a version of the store.
LEMMA AppendRefines ==
  ASSUME CInv, CInv', AppendPatch
  PROVE  Store!Publish
<1>1. PICK t \in DOMAIN trees : \E changes : Appended(t, changes)
  BY AppendOutcome
<1>2. PICK changes : Appended(t, changes)
  BY <1>1
<1>3. PICK n : n = patchId
  OBVIOUS
<1>4. /\ n \in Nat /\ 1 <= n /\ Versions \in Seq(SUBSET Triples) /\ Len(Versions) = n
      /\ \A i \in 1 .. n : Versions[i] = Materialized(i - 1)
  BY <1>3, VersionsSeq DEF VersionsInOrder
<1>5. /\ phase = "merging" /\ phase' # "merging" /\ patchId' = n + 1
      /\ adds' = {} /\ dels' = {}
  BY <1>2, <1>3 DEF Appended
<1>6. PICK made : made = (Versions[Len(Versions)] \ dels) \cup adds
  OBVIOUS
<1>7. Materialized(n)' = made
  BY <1>2, <1>3, <1>4, <1>6, AppendedVersion
<1>8. VersionsInOrder'
  BY VersionsSeq, PTL
<1>9. /\ Versions' \in Seq(SUBSET Triples) /\ Len(Versions') = n + 1
      /\ \A i \in 1 .. n + 1 : Versions'[i] = Materialized(i - 1)'
  BY <1>5, <1>8 DEF VersionsInOrder
<1>10. \A i \in 1 .. n : Versions'[i] = Versions[i]
  <2>1. \A v \in 0 .. n - 1 : Materialized(v)' = Materialized(v)
    BY <1>3, NextGrown, PublishedStay DEF Next
  <2>2. ASSUME NEW i \in 1 .. n PROVE Versions'[i] = Versions[i]
    <3>1. PICK v : v = i - 1
      OBVIOUS
    <3>2. v \in 0 .. n - 1 /\ i \in 1 .. n + 1
      BY <1>4, <3>1
    <3>3. Versions'[i] = Materialized(v)' /\ Versions[i] = Materialized(v)
      BY <1>4, <1>9, <3>1, <3>2
    <3>4. QED
      BY <2>1, <3>2, <3>3
  <2>3. QED
    BY <2>2
<1>11. Versions'[n + 1] = made
  <2>1. PICK i : i = n + 1
    OBVIOUS
  <2>2. i \in 1 .. n + 1 /\ i - 1 = n
    BY <1>4, <2>1
  <2>3. Versions'[i] = Materialized(i - 1)'
    BY <1>9, <2>2
  <2>4. QED
    BY <1>7, <2>1, <2>2, <2>3
<1>12. Versions' = Append(Versions, made)
  <2>1. made \in SUBSET Triples
    <3>1. Versions'[n + 1] \in SUBSET Triples
      BY <1>4, <1>9
    <3>2. QED
      BY <1>11, <3>1
  <2>2. /\ Append(Versions, made) \in Seq(SUBSET Triples)
        /\ Len(Append(Versions, made)) = n + 1
        /\ \A i \in 1 .. n : Append(Versions, made)[i] = Versions[i]
        /\ Append(Versions, made)[n + 1] = made
    BY <1>4, <2>1, AppendProperties
  <2>3. QED
    BY <1>4, <1>9, <1>10, <1>11, <2>2, SeqEqual
<1>13. QED
  BY <1>5, <1>6, <1>12 DEF Store!Publish, Store!Latest, Versions

\* The first snapshot is the first version of the store.
LEMMA InitRefines == Init => Store!Init
<1> SUFFICES ASSUME Init PROVE Store!Init
  OBVIOUS
<1>1. CInv /\ patchId = 1 /\ phase = "idle" /\ adds = {} /\ dels = {}
  BY InitCInv DEF Init
<1>2. /\ Versions \in Seq(SUBSET Triples) /\ Len(Versions) = 1
      /\ Versions[1] \in SUBSET Triples
  BY <1>1, VersionsSeq DEF VersionsInOrder
<1>3. Versions = <<Versions[1]>>
  BY <1>2
<1>4. \E snapshot \in SUBSET Triples : Versions = <<snapshot>>
  BY <1>2, <1>3
<1>5. QED
  BY <1>1, <1>4 DEF Store!Init, Versions

(***************************************************************************)
(* Over any number of chains, and with any strategy, the controller is the *)
(* store that one chain is: an append is taken with a delta of the latest  *)
(* version and publishes the version that the delta makes of it, and the   *)
(* creation of a snapshot is not seen.                                     *)
(***************************************************************************)
THEOREM ControllerImplementsStore == Spec => ImplementsStore
<1>1. CInv /\ CInv' /\ [Next]_vars => [Store!Next]_(Store!vars)
  <2> SUFFICES ASSUME CInv, CInv', [Next]_vars PROVE [Store!Next]_(Store!vars)
    OBVIOUS
  <2>1. CASE BeginAppend
    BY <2>1, BeginRefines DEF Store!Next
  <2>2. CASE AppendPatch
    BY <2>2, AppendRefines DEF Store!Next
  <2>3. CASE CreateSnapshot \/ UNCHANGED vars
    <3>1. /\ patchId' = patchId /\ adds' = adds /\ dels' = dels
          /\ (phase' = "merging" <=> phase = "merging")
      BY <2>3 DEF CreateSnapshot, vars
    <3>2. Versions' = Versions
      BY <3>1, VersionsKept
    <3>3. QED
      BY <3>1, <3>2 DEF Store!vars, Versions
  <2>4. QED
    BY <2>1, <2>2, <2>3 DEF Next, Quiet
<1>2. QED
  BY <1>1, InitRefines, Invariant, PTL DEF Spec, ImplementsStore, Store!Spec

-----------------------------------------------------------------------------
(* Deltas *)

\* A change: a triple that comes, one that goes, and the change that takes it back.
Comes(t) == <<t, TRUE>>
Goes(t)  == <<t, FALSE>>
Back(c)  == <<c[1], ~c[2]>>

\* A change names its triple, and is turned around by Back.
LEMMA ChangeFacts ==
  ASSUME NEW t
  PROVE  /\ Comes(t)[1] = t /\ Goes(t)[1] = t
         /\ Back(Comes(t)) = Goes(t) /\ Back(Goes(t)) = Comes(t)
<1>1. Comes(t)[1] = t /\ Goes(t)[1] = t
  BY DEF Comes, Goes
<1>2. <<t, TRUE>>[1] = t /\ <<t, TRUE>>[2] = TRUE
  OBVIOUS
<1>3. Back(Comes(t)) = Goes(t)
  BY <1>2 DEF Comes, Goes, Back
<1>4. <<t, FALSE>>[1] = t /\ <<t, FALSE>>[2] = FALSE
  OBVIOUS
<1>5. Back(Goes(t)) = Comes(t)
  BY <1>4 DEF Comes, Goes, Back
<1>6. QED
  BY <1>1, <1>3, <1>5

\* A change is not of both kinds.
LEMMA ComesOrGoes == ASSUME NEW t, NEW u PROVE Comes(t) # Goes(u)
BY DEF Comes, Goes

\* What two versions do not share.
Diff(X, Y) == {Comes(t) : t \in Y \ X} \cup {Goes(t) : t \in X \ Y}

OnlyChanges(delta) == \A c \in delta : \E t : c = Comes(t) \/ c = Goes(t)

\* A change is in the difference with its flag, and there is nothing else in it.
LEMMA DiffFacts ==
  ASSUME NEW X, NEW Y
  PROVE  /\ OnlyChanges(Diff(X, Y))
         /\ \A t : Comes(t) \in Diff(X, Y) <=> t \in Y \ X
         /\ \A t : Goes(t) \in Diff(X, Y) <=> t \in X \ Y
         /\ \A t : t \in TriplesOf(Diff(X, Y)) <=> (t \in X \ Y \/ t \in Y \ X)
<1>1. OnlyChanges(Diff(X, Y))
  BY DEF Diff, OnlyChanges
<1>2. \A t : Comes(t) \in Diff(X, Y) <=> t \in Y \ X
  <2>1. SUFFICES ASSUME NEW t PROVE Comes(t) \in Diff(X, Y) <=> t \in Y \ X
    OBVIOUS
  <2>2. \A u : Comes(t) = Comes(u) => t = u
    BY ChangeFacts
  <2>3. QED
    BY <2>2, ComesOrGoes DEF Diff
<1>3. \A t : Goes(t) \in Diff(X, Y) <=> t \in X \ Y
  <2>1. SUFFICES ASSUME NEW t PROVE Goes(t) \in Diff(X, Y) <=> t \in X \ Y
    OBVIOUS
  <2>2. \A u : Goes(t) = Goes(u) => t = u
    BY ChangeFacts
  <2>3. QED
    BY <2>2, ComesOrGoes DEF Diff
<1>4. ASSUME NEW t PROVE t \in TriplesOf(Diff(X, Y)) <=> (t \in X \ Y \/ t \in Y \ X)
  <2>1. ASSUME t \in X \ Y \/ t \in Y \ X PROVE t \in TriplesOf(Diff(X, Y))
    <3>1. Comes(t) \in Diff(X, Y) \/ Goes(t) \in Diff(X, Y)
      BY <1>2, <1>3, <2>1
    <3>2. QED
      BY <3>1, ChangeFacts DEF TriplesOf
  <2>2. ASSUME t \in TriplesOf(Diff(X, Y)) PROVE t \in X \ Y \/ t \in Y \ X
    <3>1. PICK c \in Diff(X, Y) : t = c[1]
      BY <2>2 DEF TriplesOf
    <3>2. PICK u : c = Comes(u) \/ c = Goes(u)
      BY <1>1, <3>1 DEF OnlyChanges
    <3>3. u = t
      BY <3>1, <3>2, ChangeFacts
    <3>4. QED
      BY <1>2, <1>3, <3>1, <3>2, <3>3
  <2>3. QED
    BY <2>1, <2>2
<1>5. QED
  BY <1>1, <1>2, <1>3, <1>4

\* A set of changes is the difference when it has the same changes of either flag.
LEMMA IsDiff ==
  ASSUME NEW X, NEW Y, NEW delta, OnlyChanges(delta),
         \A t : Comes(t) \in delta <=> t \in Y \ X,
         \A t : Goes(t) \in delta <=> t \in X \ Y
  PROVE  delta = Diff(X, Y)
<1>1. ASSUME NEW c \in delta PROVE c \in Diff(X, Y)
  BY <1>1, DiffFacts DEF OnlyChanges
<1>2. ASSUME NEW c \in Diff(X, Y) PROVE c \in delta
  BY <1>2, DiffFacts DEF OnlyChanges
<1>3. QED
  BY <1>1, <1>2

\* MergeDiffIterator: what the second delta takes back is in neither direction left.
LEMMA MergedDiff ==
  ASSUME NEW X, NEW Y, NEW Z
  PROVE  MergeDiff(Diff(X, Y), Diff(Y, Z)) = Diff(X, Z)
<1>1. PICK d1 : d1 = Diff(X, Y)
  OBVIOUS
<1>2. PICK d2 : d2 = Diff(Y, Z)
  OBVIOUS
<1>3. PICK merged : merged = MergeDiff(d1, d2)
  OBVIOUS
<1>4. \A c : c \in merged <=> (c \in d1 /\ Back(c) \notin d2) \/ (c \in d2 /\ Back(c) \notin d1)
  BY <1>3 DEF MergeDiff, Back
<1>5. \A t : Comes(t) \in merged <=>
        (Comes(t) \in d1 /\ Goes(t) \notin d2) \/ (Comes(t) \in d2 /\ Goes(t) \notin d1)
  BY <1>4, ChangeFacts
<1>6. \A t : Goes(t) \in merged <=>
        (Goes(t) \in d1 /\ Comes(t) \notin d2) \/ (Goes(t) \in d2 /\ Comes(t) \notin d1)
  BY <1>4, ChangeFacts
<1>7. OnlyChanges(merged)
  BY <1>1, <1>2, <1>4, DiffFacts DEF OnlyChanges
<1>8. /\ \A t : Comes(t) \in d1 <=> t \in Y \ X
      /\ \A t : Goes(t) \in d1 <=> t \in X \ Y
      /\ \A t : Comes(t) \in d2 <=> t \in Z \ Y
      /\ \A t : Goes(t) \in d2 <=> t \in Y \ Z
  BY <1>1, <1>2, DiffFacts
<1>9. \A t : Comes(t) \in merged <=> t \in Z \ X
  BY <1>5, <1>8
<1>10. \A t : Goes(t) \in merged <=> t \in X \ Z
  BY <1>6, <1>8
<1>11. merged = Diff(X, Z)
  BY <1>7, <1>9, <1>10, IsDiff
<1>12. QED
  BY <1>1, <1>2, <1>3, <1>11

\* MergeDiffIteratorCase2: two deltas from one start.
LEMMA MergedDiffCase2 ==
  ASSUME NEW X, NEW Y, NEW Z
  PROVE  MergeDiffCase2(Diff(X, Y), Diff(X, Z)) = Diff(Y, Z)
<1>1. PICK d1 : d1 = Diff(X, Y)
  OBVIOUS
<1>2. PICK d2 : d2 = Diff(X, Z)
  OBVIOUS
<1>3. PICK merged : merged = MergeDiffCase2(d1, d2)
  OBVIOUS
<1>4. PICK back : back = {Back(c) : c \in {d \in d1 : d[1] \notin TriplesOf(d2)}}
  OBVIOUS
<1>5. \A c : c \in merged <=> c \in back \/ (c \in d2 /\ c[1] \notin TriplesOf(d1))
  BY <1>3, <1>4 DEF MergeDiffCase2, Back
<1>6. \A c : c \in back <=> \E d \in d1 : d[1] \notin TriplesOf(d2) /\ c = Back(d)
  BY <1>4
<1>7. OnlyChanges(d1) /\ OnlyChanges(d2)
  BY <1>1, <1>2, DiffFacts
<1>8. OnlyChanges(back)
  BY <1>6, <1>7, ChangeFacts DEF OnlyChanges
<1>9. \A t : Goes(t) \in back <=> Comes(t) \in d1 /\ t \notin TriplesOf(d2)
  <2>1. ASSUME NEW t, Goes(t) \in back PROVE Comes(t) \in d1 /\ t \notin TriplesOf(d2)
    <3>1. PICK d \in d1 : d[1] \notin TriplesOf(d2) /\ Goes(t) = Back(d)
      BY <1>6, <2>1
    <3>2. PICK u : d = Comes(u) \/ d = Goes(u)
      BY <1>7 DEF OnlyChanges
    <3>3. d = Comes(u) /\ Goes(t) = Goes(u)
      BY <3>1, <3>2, ChangeFacts, ComesOrGoes
    <3>4. QED
      BY <3>1, <3>3, ChangeFacts
  <2>2. ASSUME NEW t, Comes(t) \in d1, t \notin TriplesOf(d2) PROVE Goes(t) \in back
    BY <1>6, <2>2, ChangeFacts
  <2>3. QED
    BY <2>1, <2>2
<1>10. \A t : Comes(t) \in back <=> Goes(t) \in d1 /\ t \notin TriplesOf(d2)
  <2>1. ASSUME NEW t, Comes(t) \in back PROVE Goes(t) \in d1 /\ t \notin TriplesOf(d2)
    <3>1. PICK d \in d1 : d[1] \notin TriplesOf(d2) /\ Comes(t) = Back(d)
      BY <1>6, <2>1
    <3>2. PICK u : d = Comes(u) \/ d = Goes(u)
      BY <1>7 DEF OnlyChanges
    <3>3. d = Goes(u) /\ Comes(t) = Comes(u)
      BY <3>1, <3>2, ChangeFacts, ComesOrGoes
    <3>4. QED
      BY <3>1, <3>3, ChangeFacts
  <2>2. ASSUME NEW t, Goes(t) \in d1, t \notin TriplesOf(d2) PROVE Comes(t) \in back
    BY <1>6, <2>2, ChangeFacts
  <2>3. QED
    BY <2>1, <2>2
<1>11. /\ \A t : Comes(t) \in d1 <=> t \in Y \ X
       /\ \A t : Goes(t) \in d1 <=> t \in X \ Y
       /\ \A t : Comes(t) \in d2 <=> t \in Z \ X
       /\ \A t : Goes(t) \in d2 <=> t \in X \ Z
  BY <1>1, <1>2, DiffFacts
<1>12. /\ \A t : t \in TriplesOf(d1) <=> (t \in X \ Y \/ t \in Y \ X)
       /\ \A t : t \in TriplesOf(d2) <=> (t \in X \ Z \/ t \in Z \ X)
  BY <1>1, <1>2, DiffFacts
<1>13. OnlyChanges(merged)
  BY <1>5, <1>7, <1>8 DEF OnlyChanges
<1>14. \A t : Comes(t) \in merged <=> Comes(t) \in back \/ (Comes(t) \in d2 /\ t \notin TriplesOf(d1))
  BY <1>5, ChangeFacts
<1>15. \A t : Goes(t) \in merged <=> Goes(t) \in back \/ (Goes(t) \in d2 /\ t \notin TriplesOf(d1))
  BY <1>5, ChangeFacts
<1>16. \A t : Comes(t) \in merged <=> t \in Z \ Y
  BY <1>10, <1>11, <1>12, <1>14
<1>17. \A t : Goes(t) \in merged <=> t \in Y \ Z
  BY <1>9, <1>11, <1>12, <1>15
<1>18. merged = Diff(Y, Z)
  BY <1>13, <1>16, <1>17, IsDiff
<1>19. QED
  BY <1>1, <1>2, <1>3, <1>18

\* A delta of codes is the difference of their triples: no two codes stand for one triple.
LEMMA DeltaOfCodes ==
  ASSUME NEW dict, DistinctCodes(dict),
         NEW A, A \subseteq DOMAIN dict, NEW B, B \subseteq DOMAIN dict
  PROVE  Delta(dict, B \ A, A \ B) = Diff(TriplesOfCodes(dict, A), TriplesOfCodes(dict, B))
<1>1. PICK delta : delta = Delta(dict, B \ A, A \ B)
  OBVIOUS
<1>2. \A c \in DOMAIN dict : Decode(dict, c) = dict[c]
  BY DEF Decode
<1>3. \A d : d \in delta <=> \/ \E c \in B \ A : d = Comes(Decode(dict, c))
                             \/ \E c \in A \ B : d = Goes(Decode(dict, c))
  BY <1>1 DEF Delta, Comes, Goes
<1>4. \A d : d \in delta <=> \/ \E c \in B \ A : d = Comes(dict[c])
                             \/ \E c \in A \ B : d = Goes(dict[c])
  BY <1>2, <1>3
<1>5. PICK X : X = TriplesOfCodes(dict, A)
  OBVIOUS
<1>6. PICK Y : Y = TriplesOfCodes(dict, B)
  OBVIOUS
<1>7. /\ \A c \in DOMAIN dict : dict[c] \in X <=> c \in A
      /\ \A c \in DOMAIN dict : dict[c] \in Y <=> c \in B
      /\ \A t \in X : \E c \in A : dict[c] = t
      /\ \A t \in Y : \E c \in B : dict[c] = t
  BY <1>5, <1>6 DEF TriplesOfCodes, DistinctCodes
<1>8. OnlyChanges(delta)
  BY <1>4 DEF OnlyChanges
<1>9. \A t : Comes(t) \in delta <=> t \in Y \ X
  <2>1. ASSUME NEW t, Comes(t) \in delta PROVE t \in Y \ X
    <3>1. PICK c \in B \ A : Comes(t) = Comes(dict[c])
      BY <1>4, <2>1, ComesOrGoes
    <3>2. t = dict[c]
      BY <3>1, ChangeFacts
    <3>3. QED
      BY <1>7, <3>2
  <2>2. ASSUME NEW t, t \in Y \ X PROVE Comes(t) \in delta
    <3>1. PICK c \in B : dict[c] = t
      BY <1>7, <2>2
    <3>2. c \notin A
      BY <1>7, <2>2, <3>1
    <3>3. QED
      BY <1>4, <3>1, <3>2
  <2>3. QED
    BY <2>1, <2>2
<1>10. \A t : Goes(t) \in delta <=> t \in X \ Y
  <2>1. ASSUME NEW t, Goes(t) \in delta PROVE t \in X \ Y
    <3>1. PICK c \in A \ B : Goes(t) = Goes(dict[c])
      BY <1>4, <2>1, ComesOrGoes
    <3>2. t = dict[c]
      BY <3>1, ChangeFacts
    <3>3. QED
      BY <1>7, <3>2
  <2>2. ASSUME NEW t, t \in X \ Y PROVE Goes(t) \in delta
    <3>1. PICK c \in A : dict[c] = t
      BY <1>7, <2>2
    <3>2. c \notin B
      BY <1>7, <2>2, <3>1
    <3>3. QED
      BY <1>4, <3>1, <3>2
  <2>3. QED
    BY <2>1, <2>2
<1>11. delta = Diff(X, Y)
  BY <1>8, <1>9, <1>10, IsDiff
<1>12. QED
  BY <1>1, <1>5, <1>6, <1>11

\* The codes that a version of a tree has, and what a tree gives for it.
VersionCodes(t, id) == CodesAfter(trees[t].base, trees[t].patches[id - t + 1])

\* The codes of a version decode to its triples, and are the base of the tree with its changes.
LEMMA CodesOfVersion ==
  ASSUME CInv, NEW t \in DOMAIN trees, NEW id \in Int, t <= id, id < NextOf(t)
  PROVE  /\ VersionCodes(t, id) \subseteq DOMAIN dicts[t - 1]
         /\ TriplesOfCodes(dicts[t - 1], VersionCodes(t, id)) = Materialized(id)
         /\ Additions(t, id) = VersionCodes(t, id) \ trees[t].base
         /\ Deletions(t, id) = trees[t].base \ VersionCodes(t, id)
         /\ (trees[t].base \ Deletions(t, id)) \cup Additions(t, id) = VersionCodes(t, id)
<1>1. PICK changes : changes = trees[t].patches[id - t + 1]
  OBVIOUS
<1>2. PICK base : base = trees[t].base
  OBVIOUS
<1>3. id - t + 1 \in DOMAIN trees[t].patches /\ ChangesUpTo(t, id) = changes
  BY <1>1, ChangesOf
<1>4. PICK codes : codes = VersionCodes(t, id)
  OBVIOUS
<1>5. codes = (base \ changes.deleted) \cup (changes.added \ base)
  BY <1>1, <1>2, <1>4 DEF VersionCodes, CodesAfter
<1>6. Additions(t, id) = changes.added \ base /\ Deletions(t, id) = changes.deleted \cap base
  BY <1>2, <1>3 DEF Additions, Deletions
<1>7. codes \subseteq DOMAIN dicts[t - 1]
  BY <1>1, <1>2, <1>3, <1>5, DictionaryOf
<1>8. Materialized(id) = Contents(t, id)
  BY MaterializedIs
<1>9. Contents(t, id) = TriplesOfCodes(dicts[t - 1], codes)
  BY <1>4 DEF Contents, VersionCodes
<1>10. /\ Additions(t, id) = codes \ base /\ Deletions(t, id) = base \ codes
       /\ (base \ Deletions(t, id)) \cup Additions(t, id) = codes
  BY <1>5, <1>6
<1>11. QED
  BY <1>2, <1>4, <1>7, <1>8, <1>9, <1>10

\* The triples that the base of a tree stands for.
LEMMA BaseTriples ==
  ASSUME CInv, NEW t \in DOMAIN trees
  PROVE  /\ trees[t].base \subseteq DOMAIN dicts[t - 1] /\ DistinctCodes(dicts[t - 1])
         /\ TriplesOfCodes(dicts[t - 1], trees[t].base) = Materialized(t - 1)
         /\ t - 1 \in DOMAIN snapshots /\ t - 1 \in Nat /\ LatestSnapshot(t - 1) = t - 1
<1>1. /\ t - 1 \in DOMAIN snapshots /\ trees[t].base = HdtCodes(snapshots[t - 1])
      /\ trees[t].base \subseteq DOMAIN dicts[t - 1]
  BY DictionaryOf
<1>2. PICK codes : codes = HdtCodes(snapshots[t - 1])
  OBVIOUS
<1>3. snapshots[t - 1] = {dicts[t - 1][c] : c \in codes} /\ DistinctCodes(dicts[t - 1])
  BY <1>1, <1>2, DictionaryFacts
<1>4. TriplesOfCodes(dicts[t - 1], codes) = snapshots[t - 1]
  BY <1>3 DEF TriplesOfCodes
<1>5. QED
  BY <1>1, <1>2, <1>3, <1>4, MaterializedSnapshot, OwnSnapshot

(***************************************************************************)
(* single_delta_query from the snapshot of a chain to one of its versions, *)
(* and between two versions of one chain.                                  *)
(***************************************************************************)
LEMMA FromSnapshot ==
  ASSUME CInv, NEW t \in DOMAIN trees, NEW end \in Int, t <= end, end < NextOf(t)
  PROVE  /\ SingleDelta(t - 1, end) = Diff(Materialized(t - 1), Materialized(end))
         /\ Delta(dicts[t - 1], Additions(t, end), Deletions(t, end))
              = Diff(Materialized(t - 1), Materialized(end))
<1>1. PICK base : base = trees[t].base
  OBVIOUS
<1>2. PICK codes : codes = VersionCodes(t, end)
  OBVIOUS
<1>3. PICK dict : dict = dicts[t - 1]
  OBVIOUS
<1>4. /\ base \subseteq DOMAIN dict /\ DistinctCodes(dict)
      /\ TriplesOfCodes(dict, base) = Materialized(t - 1) /\ LatestSnapshot(t - 1) = t - 1
  BY <1>1, <1>3, BaseTriples
<1>5. /\ codes \subseteq DOMAIN dict /\ TriplesOfCodes(dict, codes) = Materialized(end)
      /\ Additions(t, end) = codes \ base /\ Deletions(t, end) = base \ codes
  BY <1>1, <1>2, <1>3, CodesOfVersion
<1>6. Delta(dict, codes \ base, base \ codes)
        = Diff(TriplesOfCodes(dict, base), TriplesOfCodes(dict, codes))
  BY <1>4, <1>5, DeltaOfCodes
<1>7. PatchTreeId(end) = t /\ t \in Nat /\ t >= 0 /\ ~(t < 0)
  BY ChainOf, TreeTypes
<1>8. SingleDelta(t - 1, end) = Delta(dict, Additions(t, end), Deletions(t, end))
  BY <1>3, <1>4, <1>7 DEF SingleDelta
<1>9. QED
  BY <1>3, <1>4, <1>5, <1>6, <1>8

\* A delta between two versions of one chain is what they do not share.
LEMMA WithinChain ==
  ASSUME CInv, NEW t \in DOMAIN trees, NEW start \in Int, NEW end \in Int,
         t <= start, start < NextOf(t), start \notin DOMAIN snapshots, t <= end, end < NextOf(t)
  PROVE  SingleDelta(start, end) = Diff(Materialized(start), Materialized(end))
<1>1. PICK base : base = trees[t].base
  OBVIOUS
<1>2. PICK dict : dict = dicts[t - 1]
  OBVIOUS
<1>3. PICK A : A = VersionCodes(t, start)
  OBVIOUS
<1>4. PICK B : B = VersionCodes(t, end)
  OBVIOUS
<1>5. /\ A \subseteq DOMAIN dict /\ TriplesOfCodes(dict, A) = Materialized(start)
      /\ (base \ Deletions(t, start)) \cup Additions(t, start) = A
  BY <1>1, <1>2, <1>3, CodesOfVersion
<1>6. /\ B \subseteq DOMAIN dict /\ TriplesOfCodes(dict, B) = Materialized(end)
      /\ (base \ Deletions(t, end)) \cup Additions(t, end) = B
  BY <1>1, <1>2, <1>4, CodesOfVersion
<1>7. DistinctCodes(dict)
  BY <1>2, BaseTriples
<1>8. Delta(dict, B \ A, A \ B) = Diff(TriplesOfCodes(dict, A), TriplesOfCodes(dict, B))
  BY <1>5, <1>6, <1>7, DeltaOfCodes
<1>9. PatchTreeId(end) = t /\ LatestSnapshot(start) = t - 1
  BY ChainOf
<1>10. t \in Nat /\ t >= 0 /\ ~(t < 0) /\ start # t - 1
  BY TreeTypes
<1>11. SingleDelta(start, end) = Delta(dict, B \ A, A \ B)
  BY <1>1, <1>2, <1>5, <1>6, <1>9, <1>10 DEF SingleDelta
<1>12. QED
  BY <1>5, <1>6, <1>8, <1>11

\* The two queries between snapshots, of which AutoSnapshotDiffIterator chooses one.
LEMMA BetweenSnapshots ==
  ASSUME CInv, NEW s1 \in DOMAIN snapshots, NEW s2 \in DOMAIN snapshots, s1 < s2
  PROVE  AutoSnapshotDiff(s1, s2) = Diff(Materialized(s1), Materialized(s2))
<1>1. s1 \in Nat /\ s2 \in Nat /\ Materialized(s1) = snapshots[s1] /\ Materialized(s2) = snapshots[s2]
  BY OwnSnapshot, MaterializedSnapshot
<1>2. CASE \E s \in DOMAIN snapshots : s1 < s /\ s < s2
  <2>1. AutoSnapshotDiff(s1, s2) = SnapshotDiff(s1, s2)
    BY <1>2 DEF AutoSnapshotDiff
  <2>2. SnapshotDiff(s1, s2) = Diff(snapshots[s1], snapshots[s2])
    BY DEF SnapshotDiff, Diff, Comes, Goes
  <2>3. QED
    BY <1>1, <2>1, <2>2
<1>3. CASE ~(\E s \in DOMAIN snapshots : s1 < s /\ s < s2)
  <2>1. patchId \in Nat /\ s2 \in 1 .. patchId - 1
    <3>1. s2 \in 0 .. patchId - 1 /\ patchId \in Nat
      BY LastPatchAssumption DEF CInv, ChainsInOrder, TypeOK
    <3>2. QED
      BY <1>1, <3>1
  <2>2. PICK t \in DOMAIN trees : t <= s2 /\ s2 < NextOf(t)
    BY <2>1, Covered
  <2>3. t \in Nat /\ NextOf(t) \in Nat /\ t - 1 \in DOMAIN snapshots
    BY TreeTypes
  <2>4. t - 1 <= s1
    BY <1>1, <1>3, <2>2, <2>3
  <2>5. s1 < t \/ NextOf(t) - 1 <= s1
    BY DEF CInv, ChainsInOrder
  <2>6. s1 = t - 1
    BY <1>1, <2>2, <2>3, <2>4, <2>5
  <2>7. PatchTreeId(s2) = t
    BY <1>1, <2>2, ChainOf
  <2>8. AutoSnapshotDiff(s1, s2) = Delta(dicts[s1], Additions(t, s2), Deletions(t, s2))
    BY <1>3, <2>7 DEF AutoSnapshotDiff
  <2>9. QED
    BY <1>1, <2>2, <2>6, <2>8, FromSnapshot
<1>4. QED
  BY <1>2, <1>3

\* A version is a snapshot, or one of the tree behind its latest snapshot.
LEMMA PlaceOf ==
  ASSUME CInv, NEW id \in 0 .. patchId - 1
  PROVE  /\ id \in Int /\ LatestSnapshot(id) \in DOMAIN snapshots /\ LatestSnapshot(id) \in Nat
         /\ LatestSnapshot(id) <= id
         /\ \/ id \in DOMAIN snapshots /\ LatestSnapshot(id) = id
            \/ /\ id \notin DOMAIN snapshots
               /\ \E t \in DOMAIN trees :
                    t <= id /\ id < NextOf(t) /\ LatestSnapshot(id) = t - 1
<1>1. patchId \in Nat /\ id \in Int
  BY LastPatchAssumption DEF CInv, TypeOK
<1>2. CASE id \in DOMAIN snapshots
  BY <1>1, <1>2, OwnSnapshot
<1>3. CASE id \notin DOMAIN snapshots
  <2>1. id # 0
    BY <1>3 DEF CInv, ChainsInOrder
  <2>2. PICK t \in DOMAIN trees : t <= id /\ id < NextOf(t)
    BY <1>1, <2>1, Covered
  <2>3. LatestSnapshot(id) = t - 1
    BY <1>1, <1>3, <2>2, ChainOf
  <2>4. t \in Nat /\ t - 1 \in DOMAIN snapshots /\ t - 1 \in Nat
    BY TreeTypes, OwnSnapshot
  <2>5. t - 1 <= id
    BY <1>1, <2>2, <2>4
  <2>6. QED
    BY <1>1, <1>3, <2>2, <2>3, <2>4, <2>5
<1>4. QED
  BY <1>2, <1>3

\* From a version to a later snapshot, over the snapshot of its own chain.
LEMMA ToSnapshot ==
  ASSUME CInv, NEW start \in 0 .. patchId - 1, NEW s1, s1 = LatestSnapshot(start),
         NEW s2 \in DOMAIN snapshots, s1 < s2
  PROVE  (IF start = s1 THEN AutoSnapshotDiff(s1, s2)
          ELSE MergeDiffCase2(SingleDelta(s1, start), AutoSnapshotDiff(s1, s2)))
            = Diff(Materialized(start), Materialized(s2))
<1>1. s1 \in DOMAIN snapshots /\ start \in Int
  BY PlaceOf
<1>2. AutoSnapshotDiff(s1, s2) = Diff(Materialized(s1), Materialized(s2))
  BY <1>1, BetweenSnapshots
<1>3. CASE start = s1
  BY <1>2, <1>3
<1>4. CASE start # s1
  <2>1. PICK t \in DOMAIN trees : t <= start /\ start < NextOf(t) /\ s1 = t - 1
    BY <1>4, PlaceOf
  <2>2. SingleDelta(s1, start) = Diff(Materialized(s1), Materialized(start))
    BY <1>1, <2>1, FromSnapshot
  <2>3. MergeDiffCase2(SingleDelta(s1, start), AutoSnapshotDiff(s1, s2))
          = Diff(Materialized(start), Materialized(s2))
    BY <1>2, <2>2, MergedDiffCase2
  <2>4. QED
    BY <1>4, <2>3
<1>5. QED
  BY <1>3, <1>4

\* A delta between any two versions is what they do not share.
LEMMA DeltaIsDiff ==
  ASSUME CInv, NEW start \in 0 .. patchId - 1, NEW end \in 0 .. patchId - 1, start < end
  PROVE  DeltaMaterialized(start, end) = Diff(Materialized(start), Materialized(end))
<1>1. PICK s1 : s1 = LatestSnapshot(start)
  OBVIOUS
<1>2. PICK s2 : s2 = LatestSnapshot(end)
  OBVIOUS
<1>3. /\ start \in Int /\ end \in Int /\ s1 \in DOMAIN snapshots /\ s2 \in DOMAIN snapshots
      /\ s1 \in Nat /\ s2 \in Nat /\ s1 <= start /\ s2 <= end
  BY <1>1, <1>2, PlaceOf
<1>4. ~(end <= start \/ s1 < 0 \/ s2 < 0) /\ end > start
  BY <1>3
<1>5. CASE s1 = s2
  <2>1. DeltaMaterialized(start, end) = SingleDelta(start, end)
    BY <1>1, <1>2, <1>4, <1>5 DEF DeltaMaterialized
  <2>2. end # s2
    BY <1>3, <1>5
  <2>3. PICK t \in DOMAIN trees : t <= end /\ end < NextOf(t) /\ s2 = t - 1
    BY <1>2, <2>2, PlaceOf
  <2>4. CASE start = s1
    <3>1. start = t - 1
      BY <1>5, <2>3, <2>4
    <3>2. QED
      BY <1>3, <2>1, <2>3, <3>1, FromSnapshot
  <2>5. CASE start # s1
    <3>1. PICK u \in DOMAIN trees : u <= start /\ start < NextOf(u) /\ s1 = u - 1
      BY <1>1, <2>5, PlaceOf
    <3>2. start \notin DOMAIN snapshots
      BY <1>1, <2>5, PlaceOf
    <3>3. u = t
      <4>1. u \in Nat /\ t \in Nat
        BY TreeTypes
      <4>2. QED
        BY <1>5, <2>3, <3>1, <4>1
    <3>4. t <= start /\ start < NextOf(t)
      BY <3>1, <3>3
    <3>5. QED
      BY <1>3, <2>1, <2>3, <3>2, <3>4, WithinChain
  <2>6. QED
    BY <2>4, <2>5
<1>6. CASE s1 # s2
  <2>1. s1 < s2
    <3>1. start < s2
      <4>1. CASE end = s2
        BY <4>1
      <4>2. CASE end # s2
        <5>1. PICK t \in DOMAIN trees : t <= end /\ end < NextOf(t) /\ s2 = t - 1
          BY <1>2, <4>2, PlaceOf
        <5>2. t \in Nat /\ NextOf(t) \in Nat
          BY TreeTypes
        <5>3. ASSUME t <= start PROVE FALSE
          <6>1. start < NextOf(t)
            BY <1>3, <5>1, <5>2
          <6>2. CASE start \in DOMAIN snapshots
            <7>1. start < t \/ NextOf(t) - 1 <= start
              BY <6>2 DEF CInv, ChainsInOrder
            <7>2. QED
              BY <1>3, <5>1, <5>2, <5>3, <7>1
          <6>3. CASE start \notin DOMAIN snapshots
            <7>1. s1 = t - 1
              BY <1>1, <1>3, <5>3, <6>1, <6>3, ChainOf
            <7>2. QED
              BY <1>6, <5>1, <7>1
          <6>4. QED
            BY <6>2, <6>3
        <5>4. start # s2
          <6>1. start \in DOMAIN snapshots => s1 = start
            BY <1>1, OwnSnapshot
          <6>2. QED
            BY <1>3, <1>6, <6>1
        <5>5. QED
          BY <1>3, <5>1, <5>2, <5>3, <5>4
      <4>3. QED
        BY <4>1, <4>2
    <3>2. QED
      BY <1>3, <3>1
  <2>2. PICK between :
          between = IF start = s1 THEN AutoSnapshotDiff(s1, s2)
                    ELSE MergeDiffCase2(SingleDelta(s1, start), AutoSnapshotDiff(s1, s2))
    OBVIOUS
  <2>3. between = Diff(Materialized(start), Materialized(s2))
    BY <1>1, <1>3, <2>1, <2>2, ToSnapshot
  <2>4. DeltaMaterialized(start, end) =
          IF end = s2 THEN between ELSE MergeDiff(between, SingleDelta(s2, end))
    BY <1>1, <1>2, <1>4, <1>6, <2>2 DEF DeltaMaterialized
  <2>5. CASE end = s2
    BY <2>3, <2>4, <2>5
  <2>6. CASE end # s2
    <3>1. PICK t \in DOMAIN trees : t <= end /\ end < NextOf(t) /\ s2 = t - 1
      BY <1>2, <2>6, PlaceOf
    <3>2. SingleDelta(s2, end) = Diff(Materialized(s2), Materialized(end))
      BY <1>3, <3>1, FromSnapshot
    <3>3. QED
      BY <2>3, <2>4, <2>6, <3>2, MergedDiff
  <2>7. QED
    BY <2>5, <2>6
<1>7. QED
  BY <1>5, <1>6

(***************************************************************************)
(* get_delta_materialized is exact between any two versions, of one chain, *)
(* of neighbouring chains or of distant ones, while a patch is appended    *)
(* and while a snapshot is created: the iterators that merge two deltas    *)
(* leave out precisely what cancels, and the tree between two neighbouring *)
(* snapshots has their difference.                                         *)
(***************************************************************************)
THEOREM DeltasExact == Spec => []DeltaAcrossChainsExact
<1>1. CInv => DeltaAcrossChainsExact
  BY DeltaIsDiff DEF DeltaAcrossChainsExact, Published, Diff, Comes, Goes
<1>2. QED
  BY <1>1, Invariant, PTL

-----------------------------------------------------------------------------
(* The versions of a triple *)

(***************************************************************************)
(* What a version query takes for granted, as it looks at no patch between *)
(* the first addition of a triple and the version: a code that a patch has *)
(* is in every later patch of the tree, as an addition or as a deletion    *)
(* and never as both.                                                      *)
(***************************************************************************)
ChangesInOrder ==
  \A t \in DOMAIN trees : \A i, j \in DOMAIN trees[t].patches :
    /\ trees[t].patches[i].added \cap trees[t].patches[i].deleted = {}
    /\ i <= j => trees[t].patches[i].added \cup trees[t].patches[i].deleted
                   \subseteq trees[t].patches[j].added \cup trees[t].patches[j].deleted

\* Every code that a patch has stays, and those of the patch get one flag.
LEMMA MergedInOrder ==
  ASSUME NEW latest, latest.added \cap latest.deleted = {},
         NEW A, NEW D, A \cap D = {}, NEW changes, changes = Merged(latest, A, D)
  PROVE  /\ changes.added \cap changes.deleted = {}
         /\ latest.added \cup latest.deleted \subseteq changes.added \cup changes.deleted
<1>1. changes.added = (latest.added \ D) \cup A /\ changes.deleted = (latest.deleted \ A) \cup D
  BY DEF Merged
<1>2. QED
  BY <1>1

\* AppendPatch keeps the changes of a tree in order.
LEMMA AppendKeepsOrder ==
  ASSUME CInv, ChangesInOrder, NEW t, NEW changes, Appended(t, changes)
  PROVE  ChangesInOrder'
<1>1. PICK n : n = patchId - t
  OBVIOUS
<1>2. PICK p : p = trees[t].patches
  OBVIOUS
<1>3. PICK longer : longer = trees'[t].patches
  OBVIOUS
<1>4. /\ t \in DOMAIN trees /\ DOMAIN trees' = DOMAIN trees /\ NextOf(t) = patchId
      /\ phase = "merging" /\ \A i \in DOMAIN snapshots : i < t
  BY DEF Appended
<1>5. n \in Nat /\ patchId - t + 1 = n + 1 /\ (p = <<>> <=> n = 0)
  BY <1>1, <1>2, <1>4, TreeTypes
<1>6. /\ DOMAIN longer = 1 .. n + 1 /\ DOMAIN p = 1 .. n
      /\ \A i \in 1 .. n : longer[i] = p[i]
      /\ longer[n + 1] = changes
      /\ \A u \in DOMAIN trees : u # t => trees'[u] = trees[u]
  BY <1>1, <1>2, <1>3, <1>5, AppendedTrees
<1>7. PICK latest : latest = ChangesUpTo(t, patchId)
  OBVIOUS
<1>8. latest = IF n = 0 THEN NoChanges ELSE p[n]
  BY <1>1, <1>2, <1>4, <1>5, <1>7, LatestChanges
<1>9. /\ \A i \in 1 .. n : p[i].added \cap p[i].deleted = {}
      /\ \A i, j \in 1 .. n : i <= j => p[i].added \cup p[i].deleted \subseteq p[j].added \cup p[j].deleted
  BY <1>2, <1>4, <1>6 DEF ChangesInOrder
<1>10. latest.added \cap latest.deleted = {}
  <2>1. CASE n = 0
    BY <1>8, <2>1 DEF NoChanges
  <2>2. CASE n # 0
    BY <1>5, <1>8, <1>9, <2>2
  <2>3. QED
    BY <2>1, <2>2
<1>11. PICK A : A = Codes(dicts[t - 1], adds)
  OBVIOUS
<1>12. PICK D : D = Codes(dicts[t - 1], dels)
  OBVIOUS
<1>13. A \cap D = {}
  <2>1. PICK dict : dict = dicts[t - 1]
    OBVIOUS
  <2>2. PICK s : s = t - 1
    OBVIOUS
  <2>3. LatestSnapshot(patchId) = t - 1
    <3>1. PICK u \in DOMAIN trees : /\ \A w \in DOMAIN trees : w <= u
                                    /\ LatestSnapshot(patchId) = u - 1
      BY <1>4, MergingTree
    <3>2. u \in Nat /\ t \in Nat /\ t <= u /\ u <= t
      BY <1>4, <3>1, TreeTypes DEF Appended
    <3>3. QED
      BY <3>1, <3>2
  <2>4. adds \cap dels = {} /\ adds \cup dels \subseteq ToSet(dict)
    BY <1>4, <2>1, <2>3 DEF CInv, PatchKnown
  <2>5. DistinctCodes(dict)
    BY <1>4, <2>1, BaseTriples
  <2>6. /\ A \subseteq DOMAIN dict /\ D \subseteq DOMAIN dict
        /\ \A c \in DOMAIN dict : c \in A => dict[c] \in adds
        /\ \A c \in DOMAIN dict : c \in D => dict[c] \in dels
    BY <1>11, <1>12, <2>1, <2>4, <2>5, CodeFacts
  <2>7. QED
    BY <2>4, <2>6
<1>14. changes = Merged(latest, A, D)
  BY <1>7, <1>11, <1>12 DEF Appended
<1>15. /\ changes.added \cap changes.deleted = {}
       /\ latest.added \cup latest.deleted \subseteq changes.added \cup changes.deleted
  BY <1>10, <1>13, <1>14, MergedInOrder
<1>16. ASSUME NEW i \in 1 .. n + 1 PROVE longer[i].added \cap longer[i].deleted = {}
  <2>1. CASE i = n + 1
    BY <1>6, <1>15, <2>1
  <2>2. CASE i # n + 1
    <3>1. i \in 1 .. n
      BY <1>5, <2>2
    <3>2. QED
      BY <1>6, <1>9, <3>1
  <2>3. QED
    BY <2>1, <2>2
<1>17. ASSUME NEW i \in 1 .. n + 1, NEW j \in 1 .. n + 1, i <= j
       PROVE  longer[i].added \cup longer[i].deleted \subseteq longer[j].added \cup longer[j].deleted
  <2>1. CASE j = n + 1 /\ i = n + 1
    BY <2>1
  <2>2. CASE j = n + 1 /\ i # n + 1
    <3>1. i \in 1 .. n /\ n \in 1 .. n /\ i <= n /\ n # 0
      BY <1>5, <2>2
    <3>2. p[i].added \cup p[i].deleted \subseteq latest.added \cup latest.deleted
      BY <1>8, <1>9, <3>1
    <3>3. longer[i] = p[i] /\ longer[j] = changes
      BY <1>6, <2>2, <3>1
    <3>4. QED
      BY <1>15, <3>2, <3>3
  <2>3. CASE j # n + 1
    <3>1. i \in 1 .. n /\ j \in 1 .. n
      BY <1>5, <1>17, <2>3
    <3>2. longer[i] = p[i] /\ longer[j] = p[j]
      BY <1>6, <3>1
    <3>3. QED
      BY <1>9, <1>17, <3>1, <3>2
  <2>4. QED
    BY <2>1, <2>2, <2>3
<1>18. ASSUME NEW u \in DOMAIN trees', NEW i \in DOMAIN trees'[u].patches, NEW j \in DOMAIN trees'[u].patches
       PROVE  /\ trees'[u].patches[i].added \cap trees'[u].patches[i].deleted = {}
              /\ i <= j => trees'[u].patches[i].added \cup trees'[u].patches[i].deleted
                             \subseteq trees'[u].patches[j].added \cup trees'[u].patches[j].deleted
  <2>1. CASE u = t
    BY <1>3, <1>6, <1>16, <1>17, <2>1
  <2>2. CASE u # t
    BY <1>4, <1>6, <2>2 DEF ChangesInOrder
  <2>3. QED
    BY <2>1, <2>2
<1>19. QED
  BY <1>18 DEF ChangesInOrder

\* Every step keeps the changes of every tree in order.
LEMMA NextKeepsOrder == CInv /\ ChangesInOrder /\ [Next]_vars => ChangesInOrder'
<1> SUFFICES ASSUME CInv, ChangesInOrder, [Next]_vars PROVE ChangesInOrder'
  OBVIOUS
<1>1. CASE BeginAppend
  <2>1. phase # "merging"
    BY <1>1 DEF BeginAppend
  <2>2. PICK s \in DOMAIN snapshots : Begun(s)
    BY <1>1, BeginOutcome
  <2>3. /\ \A t \in DOMAIN trees : trees'[t] = trees[t]
        /\ \A t \in DOMAIN trees' : t \in DOMAIN trees \/ trees'[t] = NewTree(snapshots[s])
    BY <2>1, <2>2, BegunTrees
  <2>4. \A t \in DOMAIN trees' : t \in DOMAIN trees \/ DOMAIN trees'[t].patches = {}
    BY <2>3 DEF NewTree
  <2>5. QED
    BY <2>3, <2>4 DEF ChangesInOrder
<1>2. CASE AppendPatch
  <2>1. PICK t \in DOMAIN trees : \E changes : Appended(t, changes)
    BY <1>2, AppendOutcome
  <2>2. PICK changes : Appended(t, changes)
    BY <2>1
  <2>3. QED
    BY <2>2, AppendKeepsOrder
<1>3. CASE CreateSnapshot \/ UNCHANGED vars
  <2>1. trees' = trees
    BY <1>3 DEF CreateSnapshot, vars
  <2>2. QED
    BY <2>1 DEF ChangesInOrder
<1>4. QED
  BY <1>1, <1>2, <1>3 DEF Next, Quiet

\* The changes of every tree are in order in every reachable state.
LEMMA InvariantInOrder == Spec => [](CInv /\ ChangesInOrder)
<1>1. Init => ChangesInOrder
  BY DEF Init, ChangesInOrder
<1>2. QED
  BY <1>1, Invariant, NextKeepsOrder, PTL DEF Spec

\* A triple with a version.
Annotated(x, id) == <<x, id>>

\* The parts of an annotated triple.
LEMMA AnnotatedFacts ==
  ASSUME NEW x, NEW id
  PROVE  Annotated(x, id)[1] = x /\ Annotated(x, id)[2] = id
BY DEF Annotated

\* A search for the latest id finds one of them or nothing.
LEMMA LatestFound ==
  ASSUME NEW b \in Nat, NEW ids, ids \subseteq 0 .. b, NEW id \in Int
  PROVE  LatestIn(ids, id) = -1 \/ LatestIn(ids, id) \in ids
<1>1. PICK upTo : upTo = {i \in ids : i <= id}
  OBVIOUS
<1>2. LatestIn(ids, id) = IF upTo = {} THEN -1 ELSE Max(upTo)
  BY <1>1 DEF LatestIn
<1>3. \A x \in upTo : x \in Nat /\ x <= b
  BY <1>1
<1>4. upTo # {} => Max(upTo) \in upTo
  BY <1>3, MaxOfBounded
<1>5. QED
  BY <1>1, <1>2, <1>4

\* The codes of the versions of a chain, its snapshot included.
ChainCodes(t, id) == IF id = t - 1 THEN trees[t].base ELSE VersionCodes(t, id)

\* The codes of a version of a chain decode to its triples.
LEMMA ChainCodesFacts ==
  ASSUME CInv, NEW t \in DOMAIN trees, NEW id \in Int, t - 1 <= id, id < NextOf(t)
  PROVE  /\ ChainCodes(t, id) \subseteq DOMAIN dicts[t - 1]
         /\ Materialized(id) = TriplesOfCodes(dicts[t - 1], ChainCodes(t, id))
<1>1. t \in Nat
  BY TreeTypes
<1>2. CASE id = t - 1
  BY <1>2, BaseTriples DEF ChainCodes
<1>3. CASE id # t - 1
  <2>1. t <= id
    BY <1>1, <1>3
  <2>2. QED
    BY <1>3, <2>1, CodesOfVersion DEF ChainCodes
<1>4. QED
  BY <1>2, <1>3

\* The versions that the iterator of a chain gives a code of it.
VersionsOfCode(t, c) ==
  LET patches == trees[t].patches
      ids == t .. t + Len(patches) - 1
      addedIn == {id \in ids : c \in patches[id - t + 1].added}
      deletedIn == {id \in ids : c \in patches[id - t + 1].deleted}
  IN (FirstVersion(t - 1, c, addedIn) .. MaxPatchIdOf(t)) \ deletedIn

\* The same with the snapshot and the tree of the chain apart, as the query
\* finds them: VersionsInChain from the tree that it was given.
VersionsFrom(s, first, c) ==
  LET patches == trees[first].patches
      ids == first .. first + Len(patches) - 1
      addedIn == {id \in ids : c \in patches[id - first + 1].added}
      deletedIn == {id \in ids : c \in patches[id - first + 1].deleted}
  IN (FirstVersion(s, c, addedIn) .. MaxPatchIdOf(first)) \ deletedIn

ChainFrom(s, first) ==
  LET patches == trees[first].patches
      ids == first .. first + Len(patches) - 1
      addedIn(c) == {id \in ids : c \in patches[id - first + 1].added}
      deletedIn(c) == {id \in ids : c \in patches[id - first + 1].deleted}
      codes == HdtCodes(snapshots[s]) \cup UNION {patches[i].added : i \in DOMAIN patches}
  IN UNION {{<<Decode(dicts[s], c), id>> :
               id \in (FirstVersion(s, c, addedIn(c)) .. MaxPatchIdOf(first)) \ deletedIn(c)} : c \in codes}

CodesSeen(t) == trees[t].base \cup UNION {trees[t].patches[i].added : i \in DOMAIN trees[t].patches}

(***************************************************************************)
(* The versions from the first addition, or from the snapshot, on in which *)
(* a code is not deleted are the versions that have the code.              *)
(***************************************************************************)
LEMMA CodeVersions ==
  ASSUME CInv, ChangesInOrder, NEW t \in DOMAIN trees, NEW c \in CodesSeen(t),
         NEW id \in 0 .. patchId - 1
  PROVE  id \in VersionsOfCode(t, c) <=> t - 1 <= id /\ id < NextOf(t) /\ c \in ChainCodes(t, id)
<1>1. PICK p : p = trees[t].patches
  OBVIOUS
<1>2. PICK n : n = Len(p)
  OBVIOUS
<1>3. PICK base : base = trees[t].base
  OBVIOUS
<1>4. /\ t \in Nat /\ n \in Nat /\ 1 <= t /\ NextOf(t) = t + n /\ DOMAIN p = 1 .. n
      /\ t + n <= patchId /\ patchId \in Nat /\ id \in Nat /\ id <= patchId - 1
      /\ (p = <<>> <=> n = 0) /\ t - 1 \in DOMAIN snapshots
  <2>1. /\ t \in Nat /\ n \in Nat /\ 1 <= t /\ NextOf(t) = t + n /\ DOMAIN p = 1 .. n
        /\ NextOf(t) <= patchId /\ patchId \in Nat
        /\ (p = <<>> <=> n = 0) /\ t - 1 \in DOMAIN snapshots
    BY <1>1, <1>2, TreeTypes
  <2>2. QED
    BY <2>1
<1>5. PICK addedIn : addedIn = {i \in t .. t + n - 1 : c \in p[i - t + 1].added}
  OBVIOUS
<1>6. PICK deletedIn : deletedIn = {i \in t .. t + n - 1 : c \in p[i - t + 1].deleted}
  OBVIOUS
<1>7. PICK first : first = FirstVersion(t - 1, c, addedIn)
  OBVIOUS
<1>8. VersionsOfCode(t, c) = (first .. MaxPatchIdOf(t)) \ deletedIn
  BY <1>1, <1>2, <1>5, <1>6, <1>7 DEF VersionsOfCode
<1>9. MaxPatchIdOf(t) \in Int /\ (id <= MaxPatchIdOf(t) <=> id < t + n)
  <2>1. CASE n = 0
    <3>1. t = patchId
      BY <1>1, <1>4, <2>1 DEF CInv, AppendInOrder
    <3>2. 0 <= Max({n, 1}) /\ 1 <= Max({n, 1}) /\ Max({n, 1}) \in Nat
      BY <1>4, MaxOfTwo
    <3>3. MaxPatchIdOf(t) = t + Max({n, 1}) - 1
      BY <1>1, <1>2 DEF MaxPatchIdOf
    <3>4. PICK m : m = Max({n, 1})
      OBVIOUS
    <3>5. QED
      BY <1>4, <2>1, <3>1, <3>2, <3>3, <3>4
  <2>2. CASE n # 0
    <3>1. t <= t /\ t < NextOf(t) /\ t \in Int
      BY <1>4, <2>2
    <3>2. MaxPatchIdOf(t) = NextOf(t) - 1
      BY <3>1, ChangesOf
    <3>3. QED
      BY <1>4, <3>2
  <2>3. QED
    BY <2>1, <2>2
<1>10. HdtCodes(snapshots[t - 1]) = base
  BY <1>3, DictionaryOf
<1>11. first = IF c \in base THEN t - 1 ELSE Min(addedIn)
  BY <1>7, <1>10 DEF FirstVersion
<1>12. ASSUME t <= id, id < t + n
       PROVE  /\ id - t + 1 \in 1 .. n
              /\ c \in ChainCodes(t, id) <=> \/ c \in base /\ c \notin p[id - t + 1].deleted
                                             \/ c \notin base /\ c \in p[id - t + 1].added
              /\ id \in deletedIn <=> c \in p[id - t + 1].deleted
              /\ id \in addedIn <=> c \in p[id - t + 1].added
  <2>1. id - t + 1 \in 1 .. n /\ id \in t .. t + n - 1 /\ id # t - 1
    BY <1>4, <1>12
  <2>2. ChainCodes(t, id) = CodesAfter(base, p[id - t + 1])
    BY <1>1, <1>3, <2>1 DEF ChainCodes, VersionCodes
  <2>3. QED
    BY <1>5, <1>6, <2>1, <2>2 DEF CodesAfter
<1>13. id = t - 1 => id \notin deletedIn /\ (c \in ChainCodes(t, id) <=> c \in base)
  BY <1>3, <1>4, <1>6 DEF ChainCodes
<1>14. CASE c \in base
  <2>1. first = t - 1
    BY <1>11, <1>14
  <2>2. id \in VersionsOfCode(t, c) <=> t - 1 <= id /\ id < t + n /\ id \notin deletedIn
    BY <1>4, <1>8, <1>9, <2>1
  <2>3. CASE t <= id /\ id < t + n
    BY <1>4, <1>12, <1>14, <2>2, <2>3
  <2>4. CASE ~(t <= id /\ id < t + n)
    BY <1>4, <1>13, <1>14, <2>2, <2>4
  <2>5. QED
    BY <2>3, <2>4
<1>15. CASE c \notin base
  <2>1. PICK i \in 1 .. n : c \in p[i].added
    BY <1>1, <1>3, <1>4, <1>15 DEF CodesSeen
  <2>2. addedIn \subseteq Nat /\ addedIn # {}
    <3>1. t + i - 1 \in t .. t + n - 1 /\ (t + i - 1) - t + 1 = i
      BY <1>4
    <3>2. t + i - 1 \in addedIn
      BY <1>5, <2>1, <3>1
    <3>3. addedIn \subseteq Nat
      BY <1>4, <1>5
    <3>4. QED
      BY <3>2, <3>3
  <2>3. first \in addedIn /\ \A y \in addedIn : first <= y
    BY <1>11, <1>15, <2>2, MinOfNat
  <2>4. /\ first \in Nat /\ t <= first /\ first <= t + n - 1
        /\ first - t + 1 \in 1 .. n /\ c \in p[first - t + 1].added
    BY <1>4, <1>5, <2>3
  <2>5. id \in VersionsOfCode(t, c) <=> first <= id /\ id < t + n /\ id \notin deletedIn
    BY <1>4, <1>8, <1>9, <2>4
  <2>6. ASSUME first <= id, id < t + n
        PROVE  id \in deletedIn <=> c \notin ChainCodes(t, id)
    <3>1. t <= id
      BY <1>4, <2>4, <2>6
    <3>2. PICK j : j = id - t + 1
      OBVIOUS
    <3>3. PICK k : k = first - t + 1
      OBVIOUS
    <3>4. j \in 1 .. n /\ k \in 1 .. n /\ k <= j
      BY <1>4, <2>4, <2>6, <3>1, <3>2, <3>3
    <3>5. /\ p[j].added \cap p[j].deleted = {}
          /\ p[k].added \cup p[k].deleted \subseteq p[j].added \cup p[j].deleted
      BY <1>1, <1>4, <3>4 DEF ChangesInOrder
    <3>6. c \in p[k].added
      BY <2>4, <3>3
    <3>7. c \in p[j].added <=> c \notin p[j].deleted
      BY <3>5, <3>6
    <3>8. /\ c \in ChainCodes(t, id) <=> c \in p[j].added
          /\ id \in deletedIn <=> c \in p[j].deleted
      BY <1>12, <1>15, <2>6, <3>1, <3>2
    <3>9. QED
      BY <3>7, <3>8
  <2>7. ASSUME t - 1 <= id, id < t + n, c \in ChainCodes(t, id)
        PROVE  first <= id
    <3>1. t <= id
      BY <1>4, <1>13, <1>15, <2>7
    <3>2. id \in addedIn
      BY <1>12, <1>15, <2>7, <3>1
    <3>3. QED
      BY <2>3, <3>2
  <2>8. first <= id => t - 1 <= id
    BY <1>4, <2>4
  <2>9. QED
    BY <1>4, <2>5, <2>6, <2>7, <2>8
<1>16. QED
  BY <1>14, <1>15

(***************************************************************************)
(* The versions that the iterator of one chain gives a triple, of those    *)
(* that exist: the chain's versions, its snapshot included, that have it.  *)
(***************************************************************************)
LEMMA ChainVersions ==
  ASSUME CInv, ChangesInOrder, NEW t \in DOMAIN trees
  PROVE  /\ \A v \in VersionsInChain(t - 1) : \E x, id : v = Annotated(x, id)
         /\ \A x : \A id \in 0 .. patchId - 1 :
              Annotated(x, id) \in VersionsInChain(t - 1)
                <=> t - 1 <= id /\ id < NextOf(t) /\ x \in Materialized(id)
<1>1. PICK s : s = t - 1
  OBVIOUS
<1>2. PICK dict : dict = dicts[s]
  OBVIOUS
<1>3. t \in Nat /\ s + 1 = t /\ ~(t < 0)
  BY <1>1, TreeTypes
<1>4. PatchTreeId(s + 1) = t
  <2>1. DOMAIN trees \subseteq 0 .. LastPatch /\ t <= t
    BY <1>3, LastPatchAssumption DEF CInv, TypeOK
  <2>2. QED
    BY <1>3, <2>1, LastPatchAssumption, LatestIs DEF PatchTreeId
<1>5. PICK base : base = trees[t].base
  OBVIOUS
<1>6. HdtCodes(snapshots[s]) = base
  BY <1>1, <1>5, DictionaryOf
<1>7. CodesSeen(t) \subseteq DOMAIN dict
  <2>1. /\ trees[t].base \subseteq DOMAIN dict
        /\ \A i \in DOMAIN trees[t].patches : trees[t].patches[i].added \subseteq DOMAIN dict
    BY <1>1, <1>2, DictionaryOf
  <2>2. QED
    BY <2>1 DEF CodesSeen
<1>8. VersionsInChain(s) =
        UNION {{Annotated(Decode(dict, c), id) : id \in VersionsOfCode(t, c)} : c \in CodesSeen(t)}
  <2>1. VersionsInChain(s) = ChainFrom(s, t)
    <3>1. VersionsInChain(s) = IF PatchTreeId(s + 1) < 0 THEN {<<x, s>> : x \in snapshots[s]}
                                                        ELSE ChainFrom(s, PatchTreeId(s + 1))
      BY DEF VersionsInChain, ChainFrom
    <3>2. ~(PatchTreeId(s + 1) < 0)
      BY <1>3, <1>4
    <3>3. VersionsInChain(s) = ChainFrom(s, PatchTreeId(s + 1))
      BY <3>1, <3>2
    <3>4. QED
      BY <1>4, <3>3
  <2>2. CodesSeen(t) = HdtCodes(snapshots[s]) \cup UNION {trees[t].patches[i].added : i \in DOMAIN trees[t].patches}
    BY <1>5, <1>6 DEF CodesSeen
  <2>3. ASSUME NEW c PROVE VersionsOfCode(t, c) = VersionsFrom(s, t, c)
    <3>1. \A A : FirstVersion(s, c, A) = FirstVersion(t - 1, c, A)
      BY <1>1
    <3>2. QED
      BY <3>1, <1>1 DEF VersionsOfCode, VersionsFrom
  <2>4. ChainFrom(s, t) = UNION {{Annotated(Decode(dict, c), id) : id \in VersionsFrom(s, t, c)} : c \in CodesSeen(t)}
    BY <1>2, <2>2 DEF ChainFrom, VersionsFrom, Annotated
  <2>5. QED
    BY <2>1, <2>3, <2>4
<1>9. \A c \in CodesSeen(t) : Decode(dict, c) = dict[c]
  BY <1>7 DEF Decode
<1>10. \A v : v \in VersionsInChain(s) <=>
         \E c \in CodesSeen(t) : \E id \in VersionsOfCode(t, c) : v = Annotated(dict[c], id)
  BY <1>8, <1>9
<1>11. \A v \in VersionsInChain(s) : \E x, id : v = Annotated(x, id)
  BY <1>10
<1>12. ASSUME NEW x, NEW id \in 0 .. patchId - 1
       PROVE  Annotated(x, id) \in VersionsInChain(s)
                <=> t - 1 <= id /\ id < NextOf(t) /\ x \in Materialized(id)
  <2>1. Annotated(x, id) \in VersionsInChain(s)
          <=> \E c \in CodesSeen(t) : id \in VersionsOfCode(t, c) /\ x = dict[c]
    <3>1. \A y, i : Annotated(x, id) = Annotated(y, i) => x = y /\ id = i
      BY AnnotatedFacts
    <3>2. QED
      BY <1>10, <3>1
  <2>2. Annotated(x, id) \in VersionsInChain(s)
          <=> \E c \in CodesSeen(t) :
                t - 1 <= id /\ id < NextOf(t) /\ c \in ChainCodes(t, id) /\ x = dict[c]
    BY <2>1, CodeVersions
  <2>3. ASSUME t - 1 <= id, id < NextOf(t)
        PROVE  x \in Materialized(id) <=> \E c \in CodesSeen(t) : c \in ChainCodes(t, id) /\ x = dict[c]
    <3>1. id \in Int
      BY LastPatchAssumption DEF CInv, TypeOK
    <3>2. ChainCodes(t, id) \subseteq CodesSeen(t)
      <4>1. CASE id = t - 1
        BY <4>1 DEF ChainCodes, CodesSeen
      <4>2. CASE id # t - 1
        <5>1. t <= id
          BY <1>3, <2>3, <3>1, <4>2
        <5>2. id - t + 1 \in DOMAIN trees[t].patches
          BY <2>3, <3>1, <5>1, ChangesOf
        <5>3. QED
          BY <4>2, <5>2 DEF ChainCodes, VersionCodes, CodesAfter, CodesSeen
      <4>3. QED
        BY <4>1, <4>2
    <3>3. Materialized(id) = {dict[c] : c \in ChainCodes(t, id)}
      BY <1>1, <1>2, <2>3, <3>1, ChainCodesFacts DEF TriplesOfCodes
    <3>4. QED
      BY <3>2, <3>3
  <2>4. QED
    BY <2>2, <2>3
<1>13. QED
  BY <1>1, <1>11, <1>12

\* Where no snapshot is fresh, every snapshot has its tree.
LEMMA EverySnapshotHasTree ==
  ASSUME CInv, PatchTreeId(LastPatch + 1) > Max(DOMAIN snapshots), NEW s \in DOMAIN snapshots
  PROVE  s + 1 \in DOMAIN trees
<1>1. patchId \in Nat /\ DOMAIN snapshots \subseteq 0 .. LastPatch /\ DOMAIN trees \subseteq 0 .. LastPatch
  BY LastPatchAssumption DEF CInv, TypeOK
<1>2. s \in Nat /\ s <= patchId - 1
  BY <1>1, OwnSnapshot DEF CInv, ChainsInOrder
<1>3. PICK ids : ids = DOMAIN snapshots
  OBVIOUS
<1>4. \A x \in ids : x \in Nat /\ x <= LastPatch
  BY <1>1, <1>3, LastPatchAssumption
<1>5. Max(ids) \in ids /\ \A y \in ids : y <= Max(ids)
  BY <1>3, <1>4, LastPatchAssumption, MaxOfBounded
<1>6. PICK m : m = Max(ids)
  OBVIOUS
<1>7. m \in Nat /\ s <= m
  BY <1>3, <1>4, <1>5, <1>6
<1>8. PICK u : u = PatchTreeId(LastPatch + 1)
  OBVIOUS
<1>9. u > m
  BY <1>3, <1>6, <1>8
<1>10. u = -1 \/ u \in DOMAIN trees
  BY <1>1, <1>8, LastPatchAssumption, LatestFound DEF PatchTreeId
<1>11. u \in DOMAIN trees
  BY <1>7, <1>9, <1>10
<1>12. CASE s + 1 <= patchId - 1
  <2>1. s + 1 \in 1 .. patchId - 1
    BY <1>1, <1>2, <1>12
  <2>2. PICK t \in DOMAIN trees : t <= s + 1 /\ s + 1 < NextOf(t)
    BY <2>1, Covered
  <2>3. s < t \/ NextOf(t) - 1 <= s
    BY DEF CInv, ChainsInOrder
  <2>4. t \in Nat /\ NextOf(t) \in Nat
    BY TreeTypes
  <2>5. t = s + 1
    BY <1>2, <2>2, <2>3, <2>4
  <2>6. QED
    BY <2>5
<1>13. CASE ~(s + 1 <= patchId - 1)
  <2>1. s = patchId - 1
    BY <1>1, <1>2, <1>13
  <2>2. u \in Nat /\ NextOf(u) <= patchId /\ NextOf(u) = u + Len(trees[u].patches)
        /\ Len(trees[u].patches) \in Nat
    BY <1>11, TreeTypes
  <2>3. u = s + 1
    BY <1>1, <1>2, <1>7, <1>9, <2>1, <2>2
  <2>4. QED
    BY <1>11, <2>3
<1>14. QED
  BY <1>12, <1>13

\* The version query, when every snapshot has its tree or there is none yet.
LEMMA VersionQueryIsExact ==
  ASSUME CInv, ChangesInOrder,
         PatchTreeId(LastPatch + 1) > Max(DOMAIN snapshots) \/ DOMAIN trees = {}
  PROVE  VersionQueryExact
<1>1. patchId \in Nat /\ Published = 0 .. patchId - 1
  BY LastPatchAssumption DEF CInv, TypeOK, Published
<1>2. ASSUME NEW id \in 0 .. patchId - 1 PROVE Materialized(id) \subseteq Triples
  <2>1. CASE id \in DOMAIN snapshots
    BY <2>1, MaterializedSnapshot
  <2>2. CASE id \notin DOMAIN snapshots
    <3>1. PICK t \in DOMAIN trees : t <= id /\ id < NextOf(t)
      BY <2>2, PlaceOf
    <3>2. QED
      BY <1>1, <3>1, MaterializedIs, ContentsTyped
  <2>3. QED
    BY <2>1, <2>2
<1>3. \A v : v \in VersionQuery <=> \E s \in DOMAIN snapshots : v \in VersionsInChain(s)
  BY DEF VersionQuery
<1>4. /\ \A v \in VersionQuery : \E x, id : v = Annotated(x, id)
      /\ \A x : \A id \in 0 .. patchId - 1 :
           Annotated(x, id) \in VersionQuery <=> x \in Materialized(id)
  <2>1. CASE DOMAIN trees = {}
    <3>1. patchId = 1
      <4>1. phase # "merging"
        BY <2>1 DEF CInv, AppendInOrder
      <4>2. ~(patchId >= 2)
        BY <2>1, <4>1, LatestTree
      <4>3. patchId \in 1 .. LastPatch + 1
        BY DEF CInv, TypeOK
      <4>4. QED
        BY <1>1, <4>2, <4>3, LastPatchAssumption
    <3>2. DOMAIN snapshots = {0}
      BY <3>1 DEF CInv, ChainsInOrder
    <3>3. PatchTreeId(0 + 1) = -1
      <4>1. {i \in DOMAIN trees : i <= 0 + 1} = {}
        BY <2>1
      <4>2. QED
        BY <4>1 DEF PatchTreeId, LatestIn
    <3>4. VersionsInChain(0) = {Annotated(x, 0) : x \in snapshots[0]}
      <4>1. PatchTreeId(0 + 1) < 0
        BY <3>3
      <4>2. QED
        BY <4>1 DEF VersionsInChain, Annotated
    <3>5. Materialized(0) = snapshots[0]
      BY <3>2, MaterializedSnapshot
    <3>6. \A v : v \in VersionQuery <=> \E x \in Materialized(0) : v = Annotated(x, 0)
      BY <1>3, <3>2, <3>4, <3>5
    <3>7. \A id \in 0 .. patchId - 1 : id = 0
      BY <3>1
    <3>8. ASSUME NEW x, NEW id \in 0 .. patchId - 1
          PROVE  Annotated(x, id) \in VersionQuery <=> x \in Materialized(id)
      <4>1. id = 0
        BY <3>7
      <4>2. \A y : Annotated(x, 0) = Annotated(y, 0) => x = y
        BY AnnotatedFacts
      <4>3. QED
        BY <3>6, <4>1, <4>2
    <3>9. QED
      BY <3>6, <3>8
  <2>2. CASE PatchTreeId(LastPatch + 1) > Max(DOMAIN snapshots)
    <3>1. \A s \in DOMAIN snapshots : s \in Nat /\ s + 1 \in DOMAIN trees /\ (s + 1) - 1 = s
      BY <2>2, EverySnapshotHasTree, OwnSnapshot
    <3>2. \A t \in DOMAIN trees : t - 1 \in DOMAIN snapshots
      BY TreeTypes
    <3>3. \A v : v \in VersionQuery <=> \E t \in DOMAIN trees : v \in VersionsInChain(t - 1)
      <4>1. ASSUME NEW v, v \in VersionQuery PROVE \E t \in DOMAIN trees : v \in VersionsInChain(t - 1)
        <5>1. PICK s \in DOMAIN snapshots : v \in VersionsInChain(s)
          BY <1>3, <4>1
        <5>2. PICK t : t = s + 1
          OBVIOUS
        <5>3. t \in DOMAIN trees /\ t - 1 = s
          BY <3>1, <5>2
        <5>4. QED
          BY <5>1, <5>3
      <4>2. QED
        BY <1>3, <3>2, <4>1
    <3>4. \A v \in VersionQuery : \E x, id : v = Annotated(x, id)
      BY <3>3, ChainVersions
    <3>5. ASSUME NEW x, NEW id \in 0 .. patchId - 1
          PROVE  Annotated(x, id) \in VersionQuery <=> x \in Materialized(id)
      <4>1. Annotated(x, id) \in VersionQuery <=>
              \E t \in DOMAIN trees : t - 1 <= id /\ id < NextOf(t) /\ x \in Materialized(id)
        BY <3>3, ChainVersions
      <4>2. \E t \in DOMAIN trees : t - 1 <= id /\ id < NextOf(t)
        <5>1. CASE id \in DOMAIN snapshots
          <6>1. PICK t : t = id + 1
            OBVIOUS
          <6>2. t \in DOMAIN trees /\ id \in Nat
            BY <3>1, <5>1, <6>1
          <6>3. NextOf(t) = t + Len(trees[t].patches) /\ Len(trees[t].patches) \in Nat
            BY <6>2, TreeTypes
          <6>4. t - 1 <= id /\ id < NextOf(t)
            <7>1. PICK n \in Nat : n = Len(trees[t].patches)
              BY <6>3
            <7>2. NextOf(t) = id + 1 + n
              BY <6>1, <6>3, <7>1
            <7>3. /\ (id + 1) - 1 <= id
                  /\ id < id + 1 + n
              <8>1. id \in Nat /\ n \in Nat
                BY <6>2, <7>1
              <8>2. \A i, k \in Nat : (i + 1) - 1 <= i /\ i < i + 1 + k
                OBVIOUS
              <8>3. QED
                BY <8>1, <8>2
            <7>4. QED
              BY <6>1, <7>2, <7>3, Zenon
          <6>5. QED
            BY <6>2, <6>4
        <5>2. CASE id \notin DOMAIN snapshots
          <6>1. PICK t \in DOMAIN trees : t <= id /\ id < NextOf(t)
            BY <5>2, PlaceOf
          <6>2. t \in Nat /\ id \in Int
            BY TreeTypes, PlaceOf
          <6>3. t - 1 <= id
            BY <6>1, <6>2
          <6>4. QED
            BY <6>1, <6>3
        <5>3. QED
          BY <5>1, <5>2
      <4>3. QED
        BY <4>1, <4>2
    <3>6. QED
      BY <3>4, <3>5
  <2>3. QED
    BY <2>1, <2>2
<1>5. PICK found : found = {v \in VersionQuery : v[2] \in 0 .. patchId - 1}
  OBVIOUS
<1>6. PICK true : true = UNION {{<<t, id>> : id \in VersionsWith(t)} : t \in Triples}
  OBVIOUS
<1>7. \A t : \A id : id \in VersionsWith(t) <=> id \in 0 .. patchId - 1 /\ t \in Materialized(id)
  BY <1>1 DEF VersionsWith
<1>8. \A v : v \in true <=> \E t \in Triples : \E id \in VersionsWith(t) : v = Annotated(t, id)
  BY <1>6 DEF Annotated
<1>9. ASSUME NEW v \in found PROVE v \in true
  <2>1. v \in VersionQuery /\ v[2] \in 0 .. patchId - 1
    BY <1>5
  <2>2. PICK x, id : v = Annotated(x, id)
    BY <1>4, <2>1
  <2>3. v[2] = id
    BY <2>2, AnnotatedFacts
  <2>4. id \in 0 .. patchId - 1
    BY <2>1, <2>3
  <2>5. x \in Materialized(id)
    BY <1>4, <2>1, <2>2, <2>4
  <2>6. x \in Triples
    BY <1>2, <2>4, <2>5
  <2>7. id \in VersionsWith(x)
    BY <1>7, <2>4, <2>5
  <2>8. QED
    BY <1>8, <2>2, <2>6, <2>7
<1>10. ASSUME NEW v \in true PROVE v \in found
  <2>1. PICK t \in Triples : \E id \in VersionsWith(t) : v = Annotated(t, id)
    BY <1>8
  <2>2. PICK id \in VersionsWith(t) : v = Annotated(t, id)
    BY <2>1
  <2>3. id \in 0 .. patchId - 1 /\ t \in Materialized(id)
    BY <1>7
  <2>4. v \in VersionQuery
    BY <1>4, <2>2, <2>3
  <2>5. v[2] = id
    BY <2>2, AnnotatedFacts
  <2>6. QED
    BY <1>5, <2>3, <2>4, <2>5
<1>11. found = true
  BY <1>9, <1>10
<1>12. QED
  BY <1>1, <1>5, <1>6, <1>11 DEF VersionQueryExact

(***************************************************************************)
(* get_version names exactly the versions of every triple as long as the   *)
(* latest snapshot has a tree or nothing is appended yet, also in the      *)
(* middle of an append, and the union over the chains agrees where the     *)
(* last patch of one is the snapshot of the next.                          *)
(***************************************************************************)
THEOREM VersionQueriesExact == Spec => []VersionsExactUnlessFresh
<1>1. CInv /\ ChangesInOrder => VersionsExactUnlessFresh
  BY VersionQueryIsExact DEF VersionsExactUnlessFresh
<1>2. QED
  BY <1>1, InvariantInOrder, PTL
=================================================================================
