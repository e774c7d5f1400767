------------------------------- MODULE Controller -------------------------------
(***************************************************************************)
(* The controller (controller/controller.cc) over several delta chains.    *)
(* Version 0 is a snapshot; every later version is a patch in the tree of  *)
(* its chain, and where the strategy asks for it a snapshot is created     *)
(* from it, with which the next append starts a tree of its own.           *)
(*                                                                         *)
(* A triple is a number, in the order of the strings.  Trees hold codes:   *)
(* places in the dictionary of their snapshot, which has the snapshot's    *)
(* triples in order and then what was inserted (one code for a triple      *)
(* stands for those of its three terms).  What one tree does is the        *)
(* subject of PatchTree; here a merge is one step, with the result that    *)
(* PatchTree is shown to have.                                             *)
(***************************************************************************)
EXTENDS SnapshotCreation, FiniteSetsExt

CONSTANTS
  Triples,       \* a set of positive numbers
  LastPatch,     \* bound: the largest patch id that is appended
  Uses           \* the strategies of a controller, and how it is given patches

ASSUME TriplesAssumption == IsFiniteSet(Triples) /\ Triples \subseteq Nat \ {0}
ASSUME LastPatchAssumption == LastPatch \in Nat

VARIABLES
  use,           \* the strategy of the controller, and how it is given patches
  snapshots,     \* the triples of the snapshot of an id
  dicts,         \* the dictionary of a snapshot id, a sequence of triples
  trees,         \* the patch tree of its first patch id
  measures,      \* the strategy's measures, by snapshot id
  phase,         \* what append is doing
  patchId,       \* the patch it appends, or the next one
  adds, dels     \* the triples of its patch

vars == <<use, snapshots, dicts, trees, measures, phase, patchId, adds, dels>>

-----------------------------------------------------------------------------
(* Snapshots, dictionaries and trees *)

LatestIn(ids, id) ==
  LET upTo == {i \in ids : i <= id} IN IF upTo = {} THEN -1 ELSE Max(upTo)

LatestSnapshot(id) == LatestIn(DOMAIN snapshots, id)
PatchTreeId(id)    == LatestIn(DOMAIN trees, id)

UnknownTriple == 0
Decode(dict, code) == IF code \in DOMAIN dict THEN dict[code] ELSE UnknownTriple
Code(dict, t) == CHOOSE code \in DOMAIN dict : dict[code] = t
CodesFromZero(dict, S) == {Code(dict, t) - 1 : t \in S}           \* mutant
Codes(dict, S) == {Code(dict, t) : t \in S}

\* The codes of an HDT file's own triples are the first ones, maxHdtId.
HdtCodes(snapshot) == 1 .. Cardinality(snapshot)
Sorted(S) == CHOOSE f \in SetToSeqs(S) : \A i, j \in DOMAIN f : i < j => f[i] < f[j]

(***************************************************************************)
(* A tree: the codes of its snapshot, which the local changes are relative *)
(* to, and for every patch the codes that the addition and the deletion    *)
(* tree hold for it, local changes included.                               *)
(***************************************************************************)
NewTree(snapshot) == [base |-> HdtCodes(snapshot), patches |-> <<>>]
NoChanges == [added |-> {}, deleted |-> {}]

\* max_patch_id, which is the first id before there is a patch.
MaxPatchIdOf(first) == first + Max({Len(trees[first].patches), 1}) - 1

\* Of the version of the id, or of the last one when the id is larger.
ChangesUpTo(first, id) ==
  LET patches == trees[first].patches IN
  IF patches = <<>> THEN NoChanges ELSE patches[Min({id, MaxPatchIdOf(first)}) - first + 1]

\* Without the local changes.
Additions(first, id) == ChangesUpTo(first, id).added \ trees[first].base
Deletions(first, id) == ChangesUpTo(first, id).deleted \cap trees[first].base

-----------------------------------------------------------------------------
(* get_version_materialized *)

Materialized(id) ==
  LET s == LatestSnapshot(id)
      first == PatchTreeId(id)
      codes == (HdtCodes(snapshots[s]) \ Deletions(first, id)) \cup Additions(first, id)
  IN CASE s < 0 -> {}
       [] s >= 0 /\ (s = id \/ first < 0) -> snapshots[s]
       [] OTHER -> {Decode(dicts[s], c) : c \in codes}

-----------------------------------------------------------------------------
(***************************************************************************)
(* get_delta_materialized.  Every iterator gives triples in the order of   *)
(* the strings, each once, so a delta is a set of triples with a flag.     *)
(***************************************************************************)

Delta(dict, added, deleted) ==
  {<<Decode(dict, c), TRUE>> : c \in added} \cup {<<Decode(dict, c), FALSE>> : c \in deleted}

\* single_delta_query: two ids of one chain, the first may be its snapshot.
SingleDelta(start, end) ==
  LET s == LatestSnapshot(start)
      first == PatchTreeId(end)
      contents(id) == (trees[first].base \ Deletions(first, id)) \cup Additions(first, id)
  IN CASE first < 0 -> {}
       [] first >= 0 /\ start = s -> Delta(dicts[s], Additions(first, end), Deletions(first, end))
       [] OTHER -> Delta(dicts[s], contents(end) \ contents(start), contents(start) \ contents(end))

\* SnapshotDiffIterator
SnapshotDiff(s1, s2) ==
  {<<t, TRUE>> : t \in snapshots[s2] \ snapshots[s1]}
    \cup {<<t, FALSE>> : t \in snapshots[s1] \ snapshots[s2]}

AutoSnapshotDiffOfTree(s1, s2) ==                                \* mutant
  LET first == PatchTreeId(s2)
  IN Delta(dicts[s1], Additions(first, s2), Deletions(first, s2))

\* AutoSnapshotDiffIterator: for neighbours the tree between them has the answer.
AutoSnapshotDiff(s1, s2) ==
  IF \E s \in DOMAIN snapshots : s1 < s /\ s < s2 THEN SnapshotDiff(s1, s2)
  ELSE LET first == PatchTreeId(s2)
       IN Delta(dicts[s1], Additions(first, s2), Deletions(first, s2))

TriplesOf(delta) == {change[1] : change \in delta}

\* MergeDiffIterator: one delta after another; what the second takes back is left out.
MergeDiff(delta1, delta2) ==
  {c \in delta1 : <<c[1], ~c[2]>> \notin delta2} \cup {c \in delta2 : <<c[1], ~c[2]>> \notin delta1}

\* MergeDiffIteratorCase2: two deltas with one start; from the end of the first to that of the second.
MergeDiffCase2(delta1, delta2) ==
  {<<c[1], ~c[2]>> : c \in {d \in delta1 : d[1] \notin TriplesOf(delta2)}}
    \cup {c \in delta2 : c[1] \notin TriplesOf(delta1)}

DeltaMaterialized(start, end) ==
  LET s1 == LatestSnapshot(start)
      s2 == LatestSnapshot(end)
      between == IF start = s1 THEN AutoSnapshotDiff(s1, s2)
                 ELSE MergeDiffCase2(SingleDelta(s1, start), AutoSnapshotDiff(s1, s2))
  IN CASE end <= start \/ s1 < 0 \/ s2 < 0 -> {}
       [] end > start /\ s1 = s2 -> SingleDelta(start, end)
       [] OTHER -> IF end = s2 THEN between ELSE MergeDiff(between, SingleDelta(s2, end))

-----------------------------------------------------------------------------
(* get_version *)

FirstVersionOfTree(s, c, addedIn) == IF addedIn = {} THEN s + 1 ELSE Min(addedIn)   \* mutant

\* Triples of the snapshot start with it, others with their first addition.
FirstVersion(s, c, addedIn) == IF c \in HdtCodes(snapshots[s]) THEN s ELSE Min(addedIn)

(***************************************************************************)
(* The versions of one chain (PatchTreeTripleVersionsIteratorV2, see       *)
(* VersionsOfTriple) with the tree found for the id after the snapshot.    *)
(***************************************************************************)
VersionsInChain(s) ==
  LET first == PatchTreeId(s + 1)
      patches == trees[first].patches
      ids == first .. first + Len(patches) - 1
      addedIn(c) == {id \in ids : c \in patches[id - first + 1].added}
      deletedIn(c) == {id \in ids : c \in patches[id - first + 1].deleted}
      codes == HdtCodes(snapshots[s]) \cup UNION {patches[i].added : i \in DOMAIN patches}
  IN IF first < 0 THEN {<<t, s>> : t \in snapshots[s]}
     ELSE UNION {{<<Decode(dicts[s], c), id>> :
                    id \in (FirstVersion(s, c, addedIn(c)) .. MaxPatchIdOf(first)) \ deletedIn(c)} : c \in codes}

\* TripleVersionsIteratorCombinedV2: the union of the chains, by triple.
VersionQuery == UNION {VersionsInChain(s) : s \in DOMAIN snapshots}
-----------------------------------------------------------------------------
(* get_max_patch_id *)

MaxPatchIdOfFirstTree ==                                         \* mutant
  IF DOMAIN trees = {} THEN LatestSnapshot(0) ELSE MaxPatchIdOf(Min(DOMAIN trees))

MaxPatchId ==
  IF DOMAIN trees = {} THEN LatestSnapshot(0) ELSE MaxPatchIdOf(Max(DOMAIN trees))

-----------------------------------------------------------------------------
(* append *)

\* ingest stores how long version 0 takes, the builders do not.
Ingestions(ingestion) == IF ingestion \in {"sorted", "files"} THEN 1 ELSE 0

Init ==
  /\ use \in Uses
  /\ \E triples \in SUBSET Triples :                    \* version 0
       /\ snapshots = [s \in {0} |-> triples]
       /\ dicts = [s \in {0} |-> Sorted(triples)]
  /\ measures = [s \in {0} |-> [NoMeasures EXCEPT !.ingestions = Ingestions(use.ingestion)]]
  /\ trees = << >>
  /\ phase = "idle"
  /\ patchId = 1
  /\ adds = {} /\ dels = {}

\* A map with one more key, or another value for it.
With(map, key, value) == [k \in DOMAIN map \cup {key} |-> IF k = key THEN value ELSE map[k]]

(***************************************************************************)
(* A patch is made with the dictionary of the latest version, which takes  *)
(* up the triples it does not know in the order they come; append starts a *)
(* tree when the last patch was made a snapshot.                           *)
(***************************************************************************)
BeginAppend ==
  /\ phase = "idle"
  /\ patchId <= LastPatch
  /\ LET s == LatestSnapshot(MaxPatchId)
         latest == Materialized(MaxPatchId)
     IN /\ adds' \in SUBSET (Triples \ latest)
        /\ dels' \in SUBSET latest
        /\ \E new \in SetToSeqs(adds' \ ToSet(dicts[s])) :
             dicts' = [dicts EXCEPT ![s] = @ \o new]
        /\ trees' = IF s >= PatchTreeId(patchId)
                    THEN With(trees, patchId, NewTree(snapshots[s])) ELSE trees
  /\ phase' = "merging"
  /\ UNCHANGED <<use, snapshots, measures, patchId>>

MergedKeepingDeletions(changes, added, deleted) ==               \* mutant
  [added   |-> (changes.added \ deleted) \cup added,
   deleted |-> changes.deleted \cup deleted]

\* The patch merged into the last changes of the tree.
Merged(changes, added, deleted) ==
  [added   |-> (changes.added \ deleted) \cup added,
   deleted |-> (changes.deleted \ added) \cup deleted]

\* A triple of the snapshot was deleted and added again: the deletion count may be off then.
Returned(first) ==
  \E i \in DOMAIN trees[first].patches :
    trees[first].patches[i].added \cap trees[first].base # {}

(***************************************************************************)
(* What getPassed of the patch's iterator gives after the merge.           *)
(*  "sorted", "built": ingest with sorting, and PatchBuilder without a     *)
(*     progress listener: a vector is passed through once.                 *)
(*  "checked": PatchBuilder with a progress listener, which commit gives   *)
(*     as the request to look first whether the patch is there; goToStart  *)
(*     does not count anew.                                                *)
(*  "files": ingest without sorting, of one file of additions and one of   *)
(*     deletions.  Every call to next asks a file that has ended again,    *)
(*     and counts it: the merge's calls for the elements after the file's  *)
(*     last, and the one that finds no more.                               *)
(*  "streamed": PatchBuilderStreaming does not count.                      *)
(***************************************************************************)
Passed(ingestion, added, deleted) ==
  LET patch == added \cup deleted
      after(file) == {t \in patch : \A u \in file : u < t}
  IN CASE ingestion \in {"sorted", "built"} -> Cardinality(patch)
       [] ingestion = "checked" -> 2 * Cardinality(patch)
       [] ingestion = "files" ->
            Cardinality(patch) + Cardinality(after(added)) + 1 + Cardinality(after(deleted)) + 1
       [] ingestion = "streamed" -> 0

MeasuresOfFirst(s) == measures[0]                                \* mutant
MeasuresOf(s) == IF s \in DOMAIN measures THEN measures[s] ELSE NoMeasures

AppendPatch ==
  /\ phase = "merging"
  /\ LET s == LatestSnapshot(patchId)
         first == PatchTreeId(patchId)
         base == trees[first].base
         changes == Merged(ChangesUpTo(first, patchId),
                           Codes(dicts[s], adds), Codes(dicts[s], dels))
         returned == Returned(first) \/ changes.added \cap base # {}
     IN /\ trees' = [trees EXCEPT ![first].patches = Append(@, changes)]
        /\ \E deleted \in 0 .. Cardinality(base), slower \in BOOLEAN :
             LET measured == Measured(MeasuresOf(s), patchId, Cardinality(base),
                                      Passed(use.ingestion, adds, dels),
                                      Cardinality(changes.added \ base), deleted)
             IN /\ ~returned => deleted = Cardinality(changes.deleted \cap base)
                /\ measures' = With(measures, s, measured)
                /\ phase' = IF DoCreate(use.strategy, measured, slower) THEN "creating" ELSE "idle"
  /\ patchId' = patchId + 1
  /\ adds' = {} /\ dels' = {}
  /\ UNCHANGED <<use, snapshots, dicts>>

\* The new version is materialized and made a snapshot.
CreateSnapshot ==
  /\ phase = "creating"
  /\ LET id == patchId - 1 IN
       /\ snapshots' = With(snapshots, id, Materialized(id))
       /\ dicts' = With(dicts, id, Sorted(Materialized(id)))
  /\ phase' = "idle"
  /\ UNCHANGED <<use, trees, measures, patchId, adds, dels>>

\* The bound is reached, or nobody appends.
Quiet == phase = "idle" /\ patchId > LastPatch /\ UNCHANGED vars

Next == BeginAppend \/ AppendPatch \/ CreateSnapshot \/ Quiet

Spec == Init /\ [][Next]_vars

-----------------------------------------------------------------------------

IsTree(tree) ==
  /\ tree = [base |-> tree.base, patches |-> tree.patches]
  /\ \A i \in DOMAIN tree.patches :
       tree.patches[i] = [added |-> tree.patches[i].added, deleted |-> tree.patches[i].deleted]

\* The codes of every tree are those of the dictionary it was written with.
TypeOK ==
  /\ use \in Uses
  /\ phase \in {"idle", "merging", "creating"}
  /\ patchId \in 1 .. LastPatch + 1
  /\ adds \subseteq Triples /\ dels \subseteq Triples
  /\ DOMAIN snapshots \subseteq 0 .. LastPatch /\ DOMAIN dicts = DOMAIN snapshots
  /\ \A s \in DOMAIN snapshots : snapshots[s] \subseteq Triples /\ dicts[s] \in Seq(Triples)
  /\ DOMAIN trees \subseteq 1 .. LastPatch
  /\ \A first \in DOMAIN trees :
       /\ IsTree(trees[first])
       /\ \A i \in DOMAIN trees[first].patches :
            trees[first].patches[i].added \cup trees[first].patches[i].deleted
              \subseteq DOMAIN dicts[LatestSnapshot(first - 1)]

Published == 0 .. patchId - 1

\* Of the versions that exist, those that triple t is in.
VersionsWith(t) == {id \in Published : t \in Materialized(id)}

(***************************************************************************)
(* Over any number of chains the controller is still the store that one    *)
(* chain is: an append publishes the version its delta describes, and      *)
(* neither it nor the creation of a snapshot changes a published version,  *)
(* whatever dictionary, tree and snapshot it is read from afterwards.      *)
(***************************************************************************)
Store == INSTANCE VersionedStore WITH
  versions <- [i \in 1 .. patchId |-> Materialized(i - 1)], busy <- phase = "merging"

ImplementsStore == Store!Spec

(***************************************************************************)
(* A delta query between any two versions, of one chain, of neighbouring   *)
(* or of distant ones, returns exactly the triples that they do not share, *)
(* each once and with its flag: deltas that take each other back on the    *)
(* way are left out (MergeDiffIterator, MergeDiffIteratorCase2,            *)
(* AutoSnapshotDiffIterator).                                              *)
(***************************************************************************)
DeltaAcrossChainsExact ==
  \A start, end \in Published : start < end =>
    DeltaMaterialized(start, end) =
      {<<t, TRUE>> : t \in Materialized(end) \ Materialized(start)}
        \cup {<<t, FALSE>> : t \in Materialized(start) \ Materialized(end)}

\* The versions that get_version names, of those that exist.
VersionQueryExact ==
  {v \in VersionQuery : v[2] \in Published} = UNION {{<<t, id>> : id \in VersionsWith(t)} : t \in Triples}

(***************************************************************************)
(* controller.h says of get_version: "Triples are annotated with the       *)
(* version in which they are valid".                                       *)
(***************************************************************************)
VersionsOfTripleExact == phase = "idle" => VersionQueryExact

(***************************************************************************)
(* The same as long as the latest snapshot has a tree, or there is none    *)
(* yet: the union over the chains names every version of a triple, also    *)
(* where a chain's last patch is the next one's snapshot.                  *)
(***************************************************************************)
VersionsExactUnlessFresh ==
  PatchTreeId(LastPatch + 1) > Max(DOMAIN snapshots) \/ DOMAIN trees = {} => VersionQueryExact

(***************************************************************************)
(* A snapshot exists exactly of the versions for which the strategy asks   *)
(* for one, when its measures are worked out from the versions of the      *)
(* chain: their sizes and differences, and what the iterator of a patch    *)
(* counts of its elements, which is their number only if they are sorted   *)
(* in memory.  append works with counts of the tree and with measures      *)
(* stored earlier, which must be those of the right chain, start with it   *)
(* and go on with it.  For chains whose deletion counts are exact, and not *)
(* for "time".                                                             *)
(***************************************************************************)
TrueMeasures(s, id) ==
  LET added(i) == Cardinality(Materialized(i) \ Materialized(s))
      deleted(i) == Cardinality(Materialized(s) \ Materialized(i))
      passed(i) == Passed(use.ingestion, Materialized(i) \ Materialized(i - 1),
                          Materialized(i - 1) \ Materialized(i))
      upTo[i \in s .. id] ==
        IF i = s THEN NoMeasures
        ELSE Measured(upTo[i - 1], i, Cardinality(snapshots[s]), passed(i), added(i), deleted(i))
  IN upTo[id]

StrategyKept ==
  use.strategy.kind # "time" /\ phase = "idle" =>
    \A id \in Published \ {0} :
      ~Returned(PatchTreeId(id)) =>
        (id \in DOMAIN snapshots
           <=> DoCreate(use.strategy, TrueMeasures(LatestSnapshot(id - 1), id), FALSE))

(***************************************************************************)
(* The id that a builder gives its patch is the next one, before the first *)
(* patch, after a snapshot and while one is created: get_max_patch_id      *)
(* reads it from the last tree.                                            *)
(***************************************************************************)
MaxPatchIdIsLatest == phase # "merging" => MaxPatchId = patchId - 1
===============================================================================
