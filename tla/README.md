# A verification development for OSTRICH

OSTRICH stores the versions of an RDF dataset. A version is a set of triples. Some versions are
stored in full as snapshots (HDT files). The versions after a snapshot form a delta chain, stored in
one patch tree, and every patch of the chain is relative to the snapshot and not to the version
before it. Three kinds of query are answered: one version (version materialized), the difference of
two versions (delta materialized), and all versions of a triple (version queries), each with an
offset and a count.

Paths below are under `src/src/main/cpp/` of the repository.

## Inventory

| component | state | operations | interacts with |
|---|---|---|---|
| Interval list, `patch/interval_list.h` | a map from the first id of an interval to its exclusive end, `max` when it is open | `addition`, `addition_unique`, `deletion`, and reads as a membership test and as a virtual vector | the state of every tree value |
| Patch tree values, `patch/patch_tree_{addition,deletion}_value.*` | two interval lists (patch ids, local changes); a deletion also has a table from patch id to seven positions; a reduced deletion has none | `add`, `del`, `set_/unset_local_change`, `is_patch_id`, `get_patch_positions`, `to_reduced` | written by the triple store, read by the iterators |
| Triple store, `patch/triple_store.*` | three addition trees and three deletion trees (SPO, POS, OSP), the addition counts and their temporary file | `insertAddition*`, `insertDeletion*`, `increment_addition_counts`, `flush_addition_counts`, `get_addition_count` | Kyoto Cabinet |
| Patch tree, `patch/patch_tree.*` | `min_patch_id`, `max_patch_id`, a triple store | `append`, `append_unsafe`, `reconstruct_patch`, `contains`, iterators, `deletion_count`, `addition_count` | merges patch elements, read by the controller while it does |
| In-memory patch, `patch/patch.*` | sorted elements, counters for positions | `add`, `positions`, `toString` | input of the merge |
| Patch element iterators, `patch/patch_element_iterator.*` | a queue and a filling thread in the buffered one | `next`, `goToStart` | input of the merge |
| Patch tree iterators, `patch/patch_tree_iterator.*` | one cursor per tree, filters | `next_addition`, `next_deletion`, `next` | the trees |
| Patch tree manager, `patch/patch_tree_manager.*` | open trees, an LRU list, three locks | `append`, `get_patch_tree`, `construct_next_patch_tree` | the controller |
| Snapshot manager, `snapshot/snapshot_manager.*` | open snapshots and dictionaries, an LRU list, a shared lock | `get_snapshot`, `create_snapshot`, `get_dictionary_manager` | the controller |
| Dictionary manager, `dictionary/dictionary_manager.*` | the dictionary of a snapshot and an additional one | `insert`, `idToString`, `stringToId`, save on destruction | everything that has triples |
| Controller, `controller/controller.*` | the managers, a snapshot strategy, metadata | `append`, `ingest`, `get_*`, `get_*_count`, `cleanup` | all of the above |
| Query iterators, `controller/snapshot_patch_iterator_triple_id.*`, `triple_delta_iterator.*`, `triple_versions_iterator.*` | a cursor per source | `next` | a snapshot, one or two patch trees |
| Builders, `controller/patch_builder*.cc` | a collected patch; or a queue, a flag and a thread that inserts | `addition`, `deletion`, `commit`, `close` | the controller |
| Snapshot strategies and metadata, `controller/snapshot_creation_strategy.*`, `metadata_manager.*` | sizes and times of the versions | `doCreate`, `update`, `store` | the controller |
| Tools, `*.cc` in the root, `evaluate/`, `controller/statistics.*` | none | command lines, measurements | the controller |

What is hard, and what makes each part correct:

* **Trees under a merge.** Readers of a patch tree take no lock. `append_unsafe` rewrites values
  that also describe earlier versions. Correct: a published version never changes, a version is what
  its delta says, and nothing is at once added and deleted.
* **Relation to the snapshot.** Every stored change is flagged *local* when it has no effect on the
  snapshot (a triple added after the snapshot and deleted again). Correct: flags are exact, or
  queries return duplicates and hide triples.
* **Counts without iteration.** Counts of deletions are the position of the last one; counts of
  additions are stored per patch and pattern. Correct: they are what an iteration would count.
* **Threads.** The streaming builder hands its elements to a thread. Correct: everything pushed is
  inserted, and closing returns.
* **Several chains.** A new snapshot starts a new tree with other codes. Correct: no query and no
  id depends on where chains are cut.
* **Caches.** Trees, snapshots and dictionaries are opened on demand and evicted while other threads
  hold them. Correct: never two open copies, never a closed one in use, limits hold eventually.
* **Restarts.** Metadata of trees and dictionaries is written on destruction only.

`PROJECT.json` lists, line by line, where these go wrong (`hazards`).

## What is modelled

| module | models | its state and actions in the code |
|---|---|---|
| `IntervalList` | `interval_list.h` as operators on a function from the first to the exclusive end | each method is an operator of its name; `Before`, `UpTo` are what `lower_bound` finds |
| `IntervalListOps` | one list under any sequence of calls | `Add`, `Delete`; `members` is what the containers mean to have stored |
| `Patterns` | the seven kinds of pattern (without the full triple) and the three orders, a set of triples in an order | `get_query_order`, `is_default_tree`, the comparator |
| `PatchTreeValues` | addition, deletion and reduced deletion values with the positions container | methods of the value classes |
| `PatchTree` | one delta chain: `append_unsafe`, the counts and the reads of a version | one action per branch of the merge, see below |
| `VersionedStore` | abstract: a sequence of versions, an append publishes exactly one more | |
| `PatchBuilderStreaming` | the caller and the inserting thread of a streaming builder | one step per statement whose order matters |
| `VersionMaterialized` | `get_version_materialized` and its iterator with an offset, over `PatchTree` | operators, one per call; evaluated in every state of a chain |
| `DeltaMaterialized` | delta queries within a chain, the merge of `PatchTreeIterator::next`, `reconstruct_patch`, over the same | operators, see below |
| `VersionsOfTriple` | version queries within a chain, and the counts of the three kinds of query | operators |
| `PatchInput` | how a patch is read from files or collected, and how patches are joined in memory | operators on sequences of elements |
| `ValueSerialization` | the bytes of numbers, lists, values, positions and triples | one operator per `serialize` and `deserialize`, over `PatchTree` |
| `SnapshotCreation` | the nine simple snapshot strategies and the two composite ones, over the measures of a chain | `doCreate` is `DoCreate` |
| `Controller` | append, snapshots and the three kinds of query over several chains | `BeginAppend`, `AppendPatch`, `CreateSnapshot`; queries are operators, see below |
| `LruCache` | `update_cache_internal` as operators on the list of open ids | |
| `PatchTreeManager` | the cache of open trees, several threads | one step per critical section, see below |
| `SnapshotManager` | the cache of open snapshots with their dictionaries, several threads | one step per critical section, see below |
| `MCPatchTree`, `MCVersionMaterialized`, `MCPatchTreeManager`, `MCController`, `MCSnapshotManager` | triples, strategies, uses and symmetry for the instances | |
| `IntervalListOpsProofs`, `PatchTreeProofs`, `ControllerProofs`, `PatchTreeManagerProofs`, `SnapshotManagerProofs` | theorems about the modules they are named for | |
| `QueryProofs` | theorems about what queries read of a chain, over `VersionsOfTriple` | |
| `CollectionProofs`, `IntervalListProofs` | lemmas about the operators those share: greatest elements, prefixes, the list of a cache; the lists of ids | |

### The merge (`PatchTree`)

`append_unsafe` walks the sorted patch P, the deletion tree D and the addition tree A with three
cursors, which stand on a triple or have ended: `patchAt`, `deletionAt`, `additionAt`. How they
compare (`Less` and `Equal` are `p_lt_d` and its likes) selects one of ten branches, the guards of
which are the conditions of the code, `NoneSmallest` its last `else`. Each branch is an action:

| the smallest is under | action | lines of `patch_tree.cc` |
|---|---|---|
| D | `CarryDeletion` | 188-213 |
| A | `CarryAddition` | 214-238 |
| P | `InsertAddition`, `InsertDeletion` | 239-252 |
| P, D | `ReturnDeleted` (P adds), `DeleteAgain` (P deletes) | 253-292 |
| P, A | `DeleteAdded` (P deletes), `AddAgain` (P adds) | 293-330 |
| D, A | `CarryBoth` | 331-429 |
| P, D, A | `InvertBoth` | 331-429 |

An action ends with `Step(patch, deletions, additions)`, the three `should_step` flags of its branch:
a cursor that steps gets the first record behind its own in the tree as it is by then, written
records included, and one that has ended stays ended. Nothing in the model says that a branch
makes progress or leaves no triple out: whether it does depends on the flags, and the proofs and
`AppendReturns` show it. `PatchElementTriple` is the triple the patch cursor stands on, or stood on last, which the code reads after it (`patch_tree.cc:406`). `addMax` is the
`max_patch_id` of the `addition_value` variable, which survives iterations and is raised by `add`.
`positionCount` are the counters of `Patch::positions`. `counts` and `tempCounts` are the addition
counts and their temporary file; `Flushed` leaves one record out, because the loop over the
temporary file moves on before it reads, and any record may be the first. `counts` are rewritten by
the flush and never removed, as in the code.

One iteration of the merge is one step. Its writes to single trees are not separated: between them
too, published ids stay as they were, because every write only changes the interval that reaches
the merged id. The POS and OSP addition trees receive the same value in the same calls as the SPO
tree, so `additions` stands for the three; the POS and OSP deletion trees are `reduced`.

Reading is `Version(id)`: the triples of the snapshot without the deletions of the version and with
its additions, local changes filtered out, as the version iterator returns them for offset 0. The
version before the first patch is the snapshot itself.

Deltas come in two ways. With `ValidDeltasOnly` additions are of triples that the latest version
does not have and deletions of triples that it has. This is what a delta is; the code does not check
it. Without it any disjoint additions and deletions are merged.

### Version queries (`VersionMaterialized`)

A query skips its offset in the snapshot, asks how many deletions lie before the triple it arrives
at, adds them to the offset, and repeats until that number stops growing; `AddedOffset` is this loop,
`SnapshotOffset` its body with `deletion_iterator_from` (`FirstDeletion`) and the positions of the
deletion it finds. `Result` is what the iterator then returns: the snapshot from there without
deletions, and the additions from `AdditionOffset` on. The iterator itself emits a sequence, and its
cursors are not modelled. A query reads the tree many times without a lock. `ReadsStable` says that
each thing it reads of a published version is the same whenever it is read, which is why the query
can be one expression.

HDT keeps the triples of a snapshot in SPO order, and for the patterns s?? and ??? it returns
matches in that order; this is the one fact about HDT assumed.

### Delta and version queries of a chain (`DeltaMaterialized`, `VersionsOfTriple`)

A delta query goes through the deletion tree and the addition tree with two cursors (`ChangedUpTo`:
all triples that changed up to a version), merges them (`Merged`) and decides for every triple, from
the pair of its values, whether it was present in the two versions (`IsPresent`: by comparing the
*indexes* of the version in the two interval lists, as `get_addition_patch_id` and
`get_deletion_patch_id` return them). From the snapshot to a version it is `ForwardPatch`, between
two later ones `ForwardDiff`. `Merged` is also the merge behind `Reconstructed`, where a triple in
both trees is not squashed but told by its last change.

A version query merges the snapshot and the addition tree and names for every triple all versions
from its first on, without those of its deletion value (`VersionsFrom`).

All of it is evaluated in every state of a chain, also within a merge, since nothing keeps a query
out of one.

### Patches in memory (`PatchInput`) and bytes (`ValueSerialization`)

Patches can also be joined in memory (`join_sorted`, `PatchSorted::add`). That code is a second
description of what an append does, independent of the merge into the trees, and `MergeIsJoin`
compares the two: the patch reconstructed from the
trees before an append, joined with the patch, is the patch reconstructed after it, with its flags.
The patch comes as `ingest` or a builder gives it, from sorted files through the combined iterator,
or in any order and sorted.

A value in a tree is bytes. The models of the merge hold the values themselves; `StoredExact` says
for every value a merge produces that its bytes are read back as the value, so that this is right.
The layout is that of the build (`USE_VSI`, `USE_VSI_T`, positions as differences). A list of
changed bits has as many kinds of pattern as the model has.

### The controller (`Controller`)

Version 0 is a snapshot; an append adds a patch to the tree of its chain, and if the strategy asks
for it makes the new version a snapshot, with which the next append begins a tree. A tree holds
*codes*, places in the dictionary of its snapshot: the triples of the snapshot in order, then what
patches inserted. One code stands for the codes of a triple's three terms. With it the model shows what mixing up a tree
and a dictionary does. A merge is one step here, with the result that `PatchTree` is shown to have:
the codes that are additions and deletions of the patch, local ones included.

`DeltaMaterialized(start, end)` is the composition of `get_delta_materialized`: within a chain
(`SingleDelta`), between two snapshots (`AutoSnapshotDiff`: by the tree between neighbours, otherwise
by comparing them), and merged (`MergeDiffCase2` at the start, `MergeDiff` at the end). All iterators
yield triples in the order of the strings, each once, so that a delta is a set. The order within
one is `DeltaMaterialized`'s subject. `VersionQuery` is the union of the chains' version queries.

`DoCreate` decides over measures that append stores under the id of the chain's snapshot. Doubles
are kept as pairs of numbers. Two strategies (`size`, `locaggchange`) read how many elements the
iterator of a patch has passed, and that depends on how the patch is given (`Passed`). Ingestion with
sorting and `PatchBuilder` pass a vector: the size of the patch. With a progress listener `PatchBuilder`
also makes the check of uniqueness, which passes all of it once before (twice the size). Ingestion
without sorting, the default of `ingest`, goes through the combined iterator, which counts every call
that asks a file, exhausted ones included (the size, and for each file one more for the end and one
for every element after the file's last). `PatchBuilderStreaming` counts nothing. Thus the recorded
delta sizes are the sizes of the deltas only for sorted patches, although `snapshot_creation_strategy.h:52`
speaks of "the size of the mean delta". `use` is the strategy and the way patches are given, both kept for
a whole behaviour. `Ingestions` says whether the time of version 0 is stored: `ingest` does, the builders do not. The deletion count among them is exact only while no triple of the
snapshot was deleted and added again (`PatchTree`), otherwise it is any number up to the size of
the snapshot. Closing and reopening a controller with the same strategy is a stuttering step: all
its variables are files.

### The patch tree manager (`PatchTreeManager`)

Every critical section of a lock is a step, and a thread holds no lock between two steps: it finds
the id of a tree (`Lookup`), reads the map under the shared lock (`Get`, `GetLast`), and, where the
tree is closed, opens it under the exclusive lock (`Load`), which also closes another one
(`update_cache`, module `LruCache`). The controller's append first constructs a new tree after a
snapshot (`AppendToNext`, `Construct`) or goes to the last one (`AppendToLast`). `Release` is a shared
pointer going out of scope; when the last one to an object goes, the destructor writes
`max_patch_id`, which a later constructor reads. An object of a tree is a number, and `Live` are the
objects that the map or a thread still points to. When a snapshot makes the controller start a
new tree is left open: before every append it may.

### The snapshot manager (`SnapshotManager`)

A snapshot is an HDT and a dictionary that reads the HDT's own through a plain pointer. Both are
opened and closed together, and a number names the *pair*; a thread holds its two parts separately
(`hdt`, `dict`). As in the tree manager a critical section is a step: `GetSnapshot` under the shared
lock, then `Touch` or `Load` under the exclusive one. `get_dictionary_manager` is four steps:
`GetDictionary` (shared lock), `Checked` or `Dropped` (exclusive), `Reload` (`load_snapshot`, exclusive
again), and `Fetch`, which reads the map without a lock. `Retried` is `LruCache`'s turning with
the one try more that this cache makes. A dictionary counts the strings inserted into it
(`entries`) and writes them to its file (`onDisk`) when the last pointer to it goes; a new pair
reads the file.

`use` says what the threads do: calls that overlap or not, and asking for a dictionary with or
without holding the snapshot. `get_version_materialized` holds the snapshot first;
`get_delta_materialized` and `get_version` ask for the dictionary first.

### The streaming builder (`PatchBuilderStreaming`)

The caller pushes elements (`Push`), and closes: sets the flag (`Shutdown`), notifies (`Notify`) and joins
(`Join`). None of this takes the mutex in the code, so each is a step between any two of the thread. The
thread looks for an element (`Look`), takes the mutex and tests the flag (`CheckBeforeWait`), waits (`Wait`),
tests again (`CheckAfterWait`), and takes (`Take`). An element is a number, since only how many are taken is
told apart; the queue of patch elements and the vector of the first version's triples follow the
same steps. A waiting thread can also wake up for no reason, as the standard permits.

## What the runs show

| run | expects | bounds | shows |
|---|---|---|---|
| `IntervalListOps` | pass | ids 0..6 | every list reachable by `addition` and `deletion` stands for the ids that were meant: for `is_in`, `get_index`, `get_element_at`, `get_size`; intervals are apart |
| `PatchTree` | pass | 3 triples, 3 patches, patterns s?? ?po ??o ???, every snapshot, every valid delta, every offset, every pair of versions | addition counts are exact; deletion counts too while nothing of the snapshot is deleted and added again, and then an offset leaves out exactly the first triples of a version (s?? and ???), the counts of queries are the numbers of matches and what their iterators return, and estimates are no less; delta and version queries are exact; a reconstructed patch gives its version; the merge is the join in memory; no call on a list is undefined |
| `PatchTreeVersions` | pass | 2 triples, 6 patches, every snapshot, every valid delta | a chain implements `VersionedStore`; flags relate changes to the snapshot |
| `PatchTreeAnyDelta` | pass | 2 triples, 4 patches with ids 62 to 65, any delta | published versions and what queries read of them never change, nothing is added and deleted, values survive their bytes, appends return |
| `PatchTreeStalePosition` | violation | 3 triples, 4 patches | a reason for which `deletion_count` is not the number of deletions |
| `PatchTreeManager` | pass | 3 threads, 4 patches, 2 open trees | a tree is open at most once, appends survive closing, the list of the cache is the open trees, the limit is kept |
| `StreamingHandOver` | pass | 8 elements | what the thread finds it takes; closing returns unless it falls between test and wait |
| `StreamingDrop` | violation | 2 elements | elements are lost when the stream is closed at once |
| `Controller` | pass | 2 triples, 4 patches, 11 strategies, 4 counts of passed elements where they matter, every valid delta | several chains implement `VersionedStore` too; deltas across chains are exact, and versions where the last snapshot has a tree; snapshots are where the strategy wants them, given the true sizes of versions and what the code counts of a patch; the next id is right |
| `ControllerFreshSnapshot` | violation | as above | a snapshot without a tree makes a version query read the chain before with the wrong dictionary |
| `SnapshotManager` | pass | 2 threads, 4 snapshots, 2 open, 1 string each | one dictionary per snapshot, over an open HDT; no string is lost; the list of the cache is right and bounded |
| `SnapshotManagerRace` | violation | as above, dictionaries asked for first | a dictionary that is asked for is null |

Why the bounds are enough. A triple's history in a chain is a sequence of being in or out of the
versions; six patches hold every way to leave, return, leave and stay, including a carried change
between two of them, and that is what flags, intervals and rewritten positions depend on. Triples
influence each other only through ranks and counts of the patterns they share; of the three
triples every two share a component, and POS order differs from SPO order. `MinAdditionCount` is 2
in the run with several additions, so that some counts are kept and some dropped. With three triples
the loop over offsets can jump twice, and with three patches a query meets a later merge. In
the manager three threads, which stand for holders, let one open a tree, one close it and one use it, and with four trees
and two places every opening has to close one.
Four appends make up to four chains, so that deltas begin and end in neighbouring and in distant
ones, with patches of their own before and after; two triples are enough for a delta to take back
one change and keep another, and for the codes of two dictionaries to differ. Thresholds are such
that every strategy but "never" and "always" creates a snapshot in some behaviours and not in others. The two strategies that read
passed elements are used with each way to give a patch that counts them differently (`size` over files
with a threshold that the larger counts can exceed), `time` with both
cases of `Ingestions`. Only `locaggchange` over streamed patches never creates one, because its ratios
are all 0; `size` then does with the first change, because its mean is 0.
Ids 62 to 65 are one and two bytes long as signed numbers (64 is the first of two), and so lists and
positions of both lengths meet in one value; the numbers themselves are checked around every
boundary up to 2^31.
Two threads are enough for the steps of one call to meet all of another; with four snapshots and two
places each opening closes one.
The interval lists depend on the order of at most three neighbours, and seven ids hold every
arrangement of three intervals. The streaming model only tells empty from non-empty.

Fairness. `PatchTree` assumes that the merge of an append that began goes on, that is, that its
loop takes its next iteration and does what follows the loop: it is one call that waits for nobody.
That the loop ends is not assumed, and would be lost with a branch that steps a cursor which is not the
smallest, or none. It does not assume that anybody appends. `PatchBuilderStreaming` assumes that
both threads are scheduled, and that a close that set its flag goes on to notify and join. It
assumes neither that the caller closes nor that spurious wakeups happen. Deadlock is not checked
there because both threads end. `Controller` and `SnapshotManager` state no liveness: an append is one
call that the caller drives, and a lock is all a thread of the manager waits for. In the run
`SnapshotManagerRace` a thread that was given null does nothing more, and deadlock is not checked.

## Disagreements found

Four are runs that TLC finds violated, with the sentence of the code each contradicts, in
`PROJECT.json` under `findings`.

1. `PatchTreeStalePosition`, `patch_tree.cc:406`: positions of a deletion that is carried with an
   addition are computed for the patch cursor's triple.
2. `StreamingDrop`, `patch_builder_streaming.cc:57`: elements that were not taken when the stream is
   closed are lost.
3. `ControllerFreshSnapshot`, `controller.cc:428`: a version query takes the tree of the chain before
   for that of a snapshot that has none yet.
4. `SnapshotManagerRace`, `snapshot_manager.cc:209`: of two threads that ask for dictionaries at once
   one can be given a null pointer.

Five more are built into the models, stated as properties, and found by a run with the constants
given; the passing properties are conditioned to leave them out.

5. `patch_tree_deletion_value.h:607`: reduced values never close their last interval. (`MCPatchTree`,
   `DeletionCountExact`, kinds ?po, three triples, two patches.)
6. `patch_tree.cc:675`: the count of a ?p? pattern takes the last deletion in POS order, ranked in SPO
   order. (`MCPatchTree`, `DeletionCountExact`, kinds ?p?, three triples, one patch.)
7. `controller.cc:136`: the deletions before an offset are sought in the SPO tree with an early break
   at the first triple that does not match, also for patterns whose matches are apart there.
   (`MCVersionMaterialized`, `OffsetExact`, kinds ?po, `MCApartTriples`, one patch.)
8. `controller.cc:386`: a triple of the snapshot that was deleted and added again is counted twice by
   `get_version_count`. (`MCVersionMaterialized`, `VersionCountExact`, two patches.)
9. `patch_builder_streaming.cc:23`: the notification of close can be lost, and close waits forever.
   (`PatchBuilderStreaming`, `CloseReturns`.)

## What is proved

Everything below holds for every value of the constants: any set of triples (finite and of numbers
in `Controller`), any kinds of pattern, any number of patches, threads and snapshots, any cache limit
from two on. Assumed are the named assumptions on the constants, which TLC evaluates in every run (one
of them, `OrderAssumption`, says that triples are numbered in SPO order, as the models of a chain read
`<`), and where a theorem says so one of three hypotheses:

* `ValidDeltasOnly` (marked V in the table): a delta adds what the
  latest version does not have and deletes what it has. `append` does not check it, and the flags are
  wrong without it: `append_unsafe` decides them from the two trees and never looks at the snapshot. It
  is what a delta of two versions is, and the runs `PatchTree` and `PatchTreeVersions` set it.
* `"_p_" \notin Kinds` (marked P): no patterns of a predicate alone. Their deletion counts are wrong, see
  disagreement 6; the run that checks the same properties leaves them out too.
* `SafeUses` (`SnapshotManagerProofs`): threads do not overlap, or hold the snapshot before they ask for
  its dictionary. The run `SnapshotManagerRace` shows what happens otherwise.

| theorem | states | of |
|---|---|---|
| `ListTypes`, `IsInAgrees`, `NeverTouching` | types; `is_in` is what the calls meant, at any ids; intervals are apart | `IntervalListOps` |
| `TypeCorrect`, `NoCallInFront` | types; no list call is undefined | `PatchTree` |
| `PublishedVersionsStable` | no step of a merge changes a published version (action property) | `PatchTree` |
| `NeverBoth` | nothing is added and deleted in one published version | `PatchTree` |
| `FlagsAreExact` (V) | additions are not in the snapshot and deletions are | `PatchTree` |
| `AlwaysComplete` (V) | every triple is at rest where the merge is not at it (invariant `SInv`) | `PatchTree` |
| `TreeImplementsStore` (V) | a chain implements `VersionedStore` | `PatchTree` |
| `CountsKept` (V) | the temporary and the stored addition counts are right at every step (invariant `CountInv`) | `PatchTree` |
| `AdditionCountsExact` (V) | `get_addition_count` is the number of additions, stored or not | `PatchTree` |
| `ReadsAreStable` | no step of a merge changes what a query reads of a published version, counts of patterns of the POS and OSP trees apart (action property) | `VersionMaterialized` |
| `AlwaysOneOfBoth` (V) | from its first change on a triple is an addition or a deletion of every version (invariant `OneOfBoth`) | `PatchTree` |
| `ChainVersionsExact` (V) | a version query of a chain returns each triple once, in order, with its versions | `VersionsOfTriple` |
| `RanksKept` (V) | stored positions of deletions are their ranks (invariant `RankInv`) | `PatchTree` |
| `ReducedKept` (V) | what the POS and OSP trees hold of a deletion (invariant `ReducedInv`) | `PatchTree` |
| `DeletionCountsExact` (V, P) | `deletion_count` is exact until a triple of the snapshot is deleted and added again | `PatchTree` |
| `QueryCountsExact` (V, P) | under the same condition the counts of version and version materialized queries are the numbers of matches | `VersionsOfTriple` |
| `ControllerTypes`, `MaxPatchIdRight` | types; the id of the next patch | `Controller` |
| `PublishedVersionsKept` | no append and no snapshot changes a published version (action property) | `Controller` |
| `ControllerImplementsStore` | several chains with their dictionaries implement `VersionedStore` | `Controller` |
| `DeltasExact` | a delta between any two versions, across any number of chains, is their difference | `Controller` |
| `VersionQueriesExact` | a version query names the versions that have a triple, where the last snapshot has a tree | `Controller` |
| `ManagerTypes`, `OneObjectPerTree`, `NoAppendForgotten`, `CacheListsTheOpen`, `CacheStaysBounded` | all invariants of the tree manager's run | `PatchTreeManager` |
| `SnapshotTypes`, `OneDictionaryPerSnapshot`, `NoInsertForgotten`, `SnapshotCacheBounded` | all invariants of the snapshot manager's run | `SnapshotManager` |

**The lists** (`IntervalListOpsProofs`, invariant `LInv`). Intervals are apart and none is empty. `AdditionAdds` and
`DeletionDeletes` say for every such list and every id that it reaches what a call adds to it or takes from
it, with one lemma for each way an addition can go: a first interval, one opened again, a new last one, one
that begins earlier, two joined.

**The merge** (`PatchTreeProofs`, invariant `IInv`). `TypeOK` is not inductive, because cutting an
interval list is only defined where the list reaches the id. What makes every call defined is that a
list is *settled*: all its intervals begin at or before the id being merged and are closed at or
before it or are open. Then adding or deleting that id only touches the last interval, and no
membership below it changes. `IntervalListProofs` proves this of `Addition` and `Deletion` (which ids
they keep, that they show the id afterwards as a member or not, that they leave the list settled),
and `PatchTreeProofs` carries it through the ten branches, once for the values and once for the trees.
The other part of the invariant is about the cursors (`CursorsInOrder`). Let `todo` be the triples
from the least cursor on: each cursor stands on a key, and no key in `todo` lies behind the
cursor it belongs to, although the loop writes keys into the trees under the cursors. From it
`StepsMerge` concludes, by the comparisons and the flags of each branch, that an iteration is always
for the least triple of the three, that it is in exactly the places the branch takes it to be in, and
that it leaves no other key behind; so `todo` shrinks with every iteration (`LoopAdvances`, the
variant of the loop), and when all three have ended no key was left out (`NothingLeft`).
Exclusiveness needs more: that the two lists of a triple are apart for all ids below the merged one,
and that a triple that is passed is written on one side only, which `MergeApart` shows per branch,
and `FinishApart` for the end.

**The chain as a store** (`PatchTreeProofs` too, invariant `SInv` over `IInv`). A triple is *at rest* at
an id when exactly one of its two values speaks for it, with the flag that the snapshot asks for,
and the triple is in the version or not as that value says. While an id is merged, the triples the
cursors have passed are at rest at this id, as the delta wants them, and all others at the id before.
Each of the ten branches takes one triple from the second state to the first. That the code carries
every older change over to the new id is what makes the others come to rest at all. At the end all
triples are passed, so that publishing is the step of the store and everything before it stutters.

**Addition counts** (`PatchTreeProofs` too, invariant `CountInv` beside `SInv`). While a patch is merged, the
temporary count of its id and of a pattern is the number of matching triples that the merge has passed
and that the version to come adds. A branch counts a triple exactly if it leaves it as an addition that
is not local, which is the case the ten branches are split by. The flush then stores what is right,
stores nothing, or passes one record over; and since nothing stored is ever wrong, what
`get_addition_count` finds is right and what it does not find it counts itself.

**What queries read** (`QueryProofs`). `ReadsAreStable` needs no valid deltas: a step of a merge writes
list entries and positions only at the id being merged, and a published version reads those below it;
the count of deletions goes to the last deletion of the version, which is then the same one. For version queries, the code takes all
versions from the first id in either value and leaves out those of the deletion value. That this gives
the versions that have the triple is `OneOfBoth`: from its first change on every published id is in exactly one of the
two lists of a triple, because every append carries it over. The order in which it returns triples is
`SortedIn`: that a place exists and only one triple has it follows from the comparator being a strict order
(`OrderAssumption`).

**Deletion counts** (`QueryProofs`, invariants `RankInv` and `ReducedInv`). A count is the position of the last
deletion, plus one, so that each stored position has to be the rank of its triple in its version. The merge goes through
the triples in SPO order, and as long as no triple of the snapshot has returned its counters are, pattern by pattern, the
numbers of deletions it has passed. A deletion it comes to is counted and stored in one step, or its old positions
are the same ranks and stay. Earlier ids keep their positions, as
above. `Ranked` says it of each published id, and of the merged id for what is passed. For a
pattern of another tree the last deletion is sought in that tree's order. There `ReducedInv` is needed: the value in
POS or OSP holds the id the deletion began with and its flag, and never an end, which is right until a triple of
the snapshot is added again; and that for these patterns the triple that is last in that order is last in
SPO order as well (`_p_` is the exception: subject and object vary, and POS puts the object first).
A chain's version count and materialized count are then sums of exact counters, of which the proof says that
they add up to the cardinality of the matches.

**The controller** (`ControllerProofs`, invariants `CInv` and `ChangesInOrder`). Five things are needed
at once: versions and trees tile the ids in order, with a snapshot in front of every tree and none
within one (`ChainsInOrder`); an append goes behind the last (`AppendInOrder`); a dictionary has every
triple once and those of its snapshot first (`DictsDistinct`), since otherwise two codes would be one
triple and sets of codes could not be subtracted; the base of a tree is its snapshot and a snapshot
made of a version has its triples (`TreesOnSnapshots`); the triples of a delta have codes when it is
merged (`PatchKnown`). Nothing is ever taken away from trees, snapshots and dictionaries (`Grown`), from
which `PublishedVersionsKept` follows although a dictionary grows under the codes, and although a
version may be read from its own snapshot later. For deltas, `WithinChain` gives the
delta of one chain, `AutoSnapshotDiff` that of two snapshots, and the two merges are composition: a
change is dropped exactly if its inverse meets it. `ChangesInOrder` (a patch keeps every code of the
patches before it, on one side) is only needed for version queries, where a code's first addition
is looked for.

**The caches** (`PatchTreeManagerProofs`, `MInv`; `SnapshotManagerProofs`, `SInv`). The key is that what a
thread holds is what the map holds (`HeldIsLoaded`): the cache closes only what nobody uses, and all
steps between a lookup and its use keep to it. Then there can be no second object, the only object
of a tree knows its last patch, and when it goes the file does. `CacheBounded` needs that
the list names just what is open (`ListIsLoaded`), and a counting argument: where the list is full and
nothing could be closed, every place is held by another thread. A thread stands for a holder of one
tree, or of one snapshot: a delta query across chains holds two dictionaries, and is two of them. `CollectionProofs` proves of
`update_cache_internal` that it only rearranges the list, but for the one it closes, and that it
closes one whenever it can. In the snapshot manager it also needs that a dictionary that is
missing (`check`, `reload`, `fetch`) is only ever asked for by a thread that is alone, which is `SafeUses`.

`LInv`, `IInv`, `MInv`, both `SInv`, `CInv`, `ChangesInOrder`, `CountInv`, `OneOfBoth`, `RankInv` and `ReducedInv` were checked by TLC on the instances of the runs
before they were proved.

Only model-checked:

* liveness (`AppendReturns`, of which `LoopAdvances` is the variant, `CloseReturnsUnlessBlocking`,
  `FoundElementsTaken`), out of the prover's reach;
* what a fold or a recursive definition computes, which takes induction over data: `StrategyKept` (the
  measures of a chain so far), merges of two sequences (`DeltaExact`, `ReconstructedExact`, `MergeIsJoin`), what the iterators return
  from an offset on and how long it is (`ResultsFitUnlessReturned`: a loop until nothing is added,
  sequences that are filtered and merged), bytes
  (`StoredExact`), sizes and ranks of interval lists (`VirtualVectorAgrees`, `MembersReadded`);
* the types of `PatchBuilderStreaming`, of which the liveness properties are the point.

## Not modelled, and why

* `append` with the uniqueness check, and appending to an id that exists: the controller passes
  neither on purpose. (`PatchBuilder::commit` passes its progress listener where the check is
  expected, `patch_builder.cc:32`; the check looks up an id that no tree has yet, and all that is left of it
  is the count of passed elements, which is modelled.)
* Crashes. Nothing detects or repairs what a crash leaves; what Kyoto Cabinet has on disk by then is
  its own matter. Closing and reopening is modelled for what is kept only in memory: `max_patch_id`
  (`PatchTreeManager`) and the dictionaries (`SnapshotManager`).
* Two builders at once: the code gives a patch its dictionary when it is begun, and ids ascend; no
  caller in the repository does it.
* Offsets of delta and version queries, which only skip what comes first, and counts over several
  chains, which add up those of one or iterate.
* `PlainDiffDeltaIterator`, the first generation of version iterators, and `PatchElementIteratorBuffered`:
  nothing constructs them (`patch_tree.cc:107` names the last in a comment).
* A tree that is closed under a running delta iterator, which keeps an iterator over the tree but no
  shared pointer to it (`triple_delta_iterator.h:26`): the threads of `PatchTreeManager` hold what they use, and what
  a cursor of a closed Kyoto Cabinet tree does is outside the repository.
* The count of passed elements for more than two files, or for ways of giving patches that change
  between appends: the count is of one patch, and the measures add up whatever it is.
* HDT and Kyoto Cabinet: outside the repository. A tree is an ordered map whose cursor also sees
  what is written under it, a snapshot is a set of triples in order. The sections that HDT's
  dictionary has for the roles of a term are one.
* `addition_unique`, which only tests call. (It ignores the id where an interval ends, because
  `get_interval` counts the exclusive end as inside, `interval_list.h:136`.)
* Numbers over 31 bits, which TLC does not have, and the layouts of other builds.
* The second pass that HDT makes over the first version's stream (`goToStart`), and the growth of
  the vector of triples while it is read: they depend on memory, not on the order of steps modelled.
* Command line tools, statistics and evaluation: they keep no state.

## Plan

| order | module | to be checked | to be proved |
|---|---|---|---|
| 1 (done) | `IntervalList`, `IntervalListOps` | meaning of lists | what a settled list keeps, membership under any calls (done) |
| 2 (done) | `PatchTree` over `PatchTreeValues`, `Patterns` | `VersionedStore`, counts, stability | types, stability, exclusiveness, defined calls, flags, `VersionedStore`, counts of additions and deletions (done) |
| 3 (done) | `PatchBuilderStreaming` | hand over, closing | types, what a closed stream has taken (open) |
| 4 (done) | `VersionMaterialized`, `DeltaMaterialized`, `VersionsOfTriple`, `PatchInput` | queries of a chain against the versions, the merge against the join | version queries, their counts, stable reads (done); what a delta says of one triple (open) |
| 5 (done) | `PatchTreeManager`, `SnapshotManager` over `LruCache` | one open copy, nothing forgotten, cache limits | every invariant of the two runs (done) |
| 6 (done) | `Controller` over `SnapshotCreation` | several chains against `VersionedStore`, queries across them | types, stability, `VersionedStore`, the id of the next patch, deltas and version queries across chains (done) |
| 7 (done) | `ValueSerialization` | bytes give values back | |
| 8 | proofs | | what the right column has left |

The run `PatchTree` holds most of what can be asked of one chain: every query is evaluated in every
state, and its time goes into that and not into the states. A further question about queries joins it
and does not get a run of its own. `ReadsStable` compares the two states of every step, needs no valid
deltas, and so belongs to `PatchTreeAnyDelta`; `ReadsAreStable` proves it for any number of triples.
