---------------------------- MODULE PatchTreeManager ----------------------------
(***************************************************************************)
(* The open patch trees (patch/patch_tree_manager.cc): a map from the id   *)
(* of a tree, its first patch id, to an object that is opened on demand,   *)
(* closed when the cache is full and nobody holds it, and opened again     *)
(* from its files.  Threads find the tree of a patch under a shared lock   *)
(* and open it, if they must, under an exclusive one; between the two they *)
(* hold no lock.                                                           *)
(*                                                                         *)
(* One thread appends at a time, as Controller::append is used.  Of a tree *)
(* only max_patch_id is modelled: it is kept in the object and written to  *)
(* the metadata file when the object is destroyed.                         *)
(***************************************************************************)
EXTENDS LruCache

CONSTANTS
  Threads,
  LastPatch,   \* bound: the largest patch id that is appended
  MaxLoaded    \* max_loaded_patches

ASSUME ManagerAssumption ==
  /\ IsFiniteSet(Threads)
  /\ LastPatch \in Nat \ {0}
  /\ MaxLoaded \in Nat /\ MaxLoaded >= 2

VARIABLES
  known,      \* the keys of loaded_patchtrees
  loaded,     \* loaded_patchtrees: the object of a tree, 0 when it is not open
  lru,        \* lru_list
  inMemory,   \* max_patch_id of the objects
  onDisk,     \* max_patch_id in the metadata files, 0 where there is none
  appended,   \* the last patch appended to a tree, 0 for none
  nextPatch,  \* the patch id that is appended next
  pc, append, tree, object  \* per thread: its step, whether it appends, the tree it is
                            \* about, the object it holds or 0

vars == <<known, loaded, lru, inMemory, onDisk, appended, nextPatch, pc, append, tree, object>>

Ids == 1 .. LastPatch

\* More objects than there can be holders.
Objects == 1 .. Cardinality(Threads) + 1

Holds(th, id, o) == tree[th] = id /\ object[th] = o

Live(id) == {o \in Objects : loaded[id] = o \/ \E th \in Threads : Holds(th, id, o)}

\* get_patch_tree_id: the tree with the largest id up to the patch.
TreesUpTo(patch) == {id \in known : id <= patch}
TreeOfLowerBound(patch) ==                                                \* mutant
  LET from == known \ TreesUpTo(patch - 1) IN IF from = {} THEN 0 ELSE Min(from)
TreeOf(patch) == Max(TreesUpTo(patch))

Init ==
  /\ known = {}
  /\ loaded = [id \in Ids |-> 0]
  /\ lru = <<>>
  /\ inMemory = [id \in Ids |-> [o \in Objects |-> 0]]
  /\ onDisk = [id \in Ids |-> 0]
  /\ appended = [id \in Ids |-> 0]
  /\ nextPatch = 1
  /\ pc = [th \in Threads |-> "idle"]
  /\ append = [th \in Threads |-> FALSE]
  /\ tree = [th \in Threads |-> 0]
  /\ object = [th \in Threads |-> 0]

Goto(th, step, id, o) ==
  /\ pc' = [pc EXCEPT ![th] = step]
  /\ tree' = [tree EXCEPT ![th] = id]
  /\ object' = [object EXCEPT ![th] = o]

cache == <<known, loaded, lru, inMemory, onDisk>>

-----------------------------------------------------------------------------

\* A query, or the begin of an append to a tree that exists: get_patch_tree_id.
Lookup(th) ==
  /\ pc[th] = "idle"
  /\ \E patch \in Ids :
       /\ TreesUpTo(patch) # {}
       /\ Goto(th, "found", TreeOf(patch), 0)
  /\ UNCHANGED <<cache, appended, nextPatch, append>>

AppendToLast(th) ==
  /\ pc[th] = "idle"
  /\ \A other \in Threads : ~append[other]
  /\ nextPatch \in Ids
  /\ TreesUpTo(nextPatch) # {}
  /\ Goto(th, "found", TreeOf(nextPatch), 0)
  /\ append' = [append EXCEPT ![th] = TRUE]
  /\ UNCHANGED <<cache, appended, nextPatch>>

\* A first patch, or the first one after a new snapshot: construct_next_patch_tree.
AppendToNext(th) ==
  /\ pc[th] = "idle"
  /\ \A other \in Threads : ~append[other]
  /\ nextPatch \in Ids
  /\ Goto(th, "constructing", nextPatch, 0)
  /\ append' = [append EXCEPT ![th] = TRUE]
  /\ UNCHANGED <<cache, appended, nextPatch>>

\* get_patch_tree, under the shared lock.
Get(th) ==
  /\ pc[th] = "found"
  /\ IF loaded[tree[th]] # 0
     THEN Goto(th, "using", tree[th], loaded[tree[th]])
     ELSE Goto(th, "loading", tree[th], 0)
  /\ UNCHANGED <<cache, appended, nextPatch, append>>

\* get_max_patch_id: finds the last tree and its object under one lock.
GetLast(th) ==
  /\ pc[th] = "idle"
  /\ known # {}
  /\ LET id == Max(known) IN
     IF loaded[id] # 0 THEN Goto(th, "using", id, loaded[id]) ELSE Goto(th, "loading", id, 0)
  /\ UNCHANGED <<cache, appended, nextPatch, append>>

-----------------------------------------------------------------------------
(* load_patch_tree, under the exclusive lock *)

\* unique(), and not the accessed tree.
CanCloseInUse(id, accessed) == loaded[id] # 0 /\ id # accessed            \* mutant
CanClose(id, accessed) ==
  /\ loaded[id] # 0 /\ id # accessed
  /\ \A th \in Threads : ~Holds(th, id, loaded[id])

\* The object after the call: the one that is there, if another thread came first.
OpenedAgain(id) == Min(Objects \ Live(id))                                \* mutant
Opened(id) == IF loaded[id] # 0 THEN loaded[id] ELSE Min(Objects \ Live(id))

\* The constructor: min_patch_id, unless there is a metadata file to read.
ReadMetadataNot(id) == id                                                 \* mutant
ReadMetadata(id) == IF onDisk[id] = 0 THEN id ELSE onDisk[id]

LoadTree(id) ==
  LET free == {other \in Ids : CanClose(other, id)}
      closed == Closed(lru, free, MaxLoaded)
  IN /\ known' = known \cup {id}
     /\ lru' = InFront(Turned(lru, free, MaxLoaded), id)
     /\ loaded' = [other \in Ids |-> IF other = id THEN Opened(id)
                                     ELSE IF other \in closed THEN 0 ELSE loaded[other]]
     /\ inMemory' = IF Opened(id) = loaded[id] THEN inMemory
                    ELSE [inMemory EXCEPT ![id][Opened(id)] = ReadMetadata(id)]
     /\ onDisk' = [other \in Ids |-> IF other \in closed THEN inMemory[other][loaded[other]]
                                     ELSE onDisk[other]]

Load(th) ==
  /\ pc[th] = "loading"
  /\ LoadTree(tree[th])
  /\ Goto(th, "using", tree[th], Opened(tree[th]))
  /\ UNCHANGED <<appended, nextPatch, append>>

\* The controller drops the pointer, and the manager's append looks it up again.
Construct(th) ==
  /\ pc[th] = "constructing"
  /\ LoadTree(tree[th])
  /\ Goto(th, "found", tree[th], 0)
  /\ UNCHANGED <<appended, nextPatch, append>>

\* append_unsafe of the tree, under the append mutex: its last step raises max_patch_id.
AppendPatch(th) ==
  /\ pc[th] = "using" /\ append[th]
  /\ inMemory' = [inMemory EXCEPT ![tree[th]][object[th]] = nextPatch]
  /\ appended' = [appended EXCEPT ![tree[th]] = nextPatch]
  /\ nextPatch' = nextPatch + 1
  /\ append' = [append EXCEPT ![th] = FALSE]
  /\ UNCHANGED <<known, loaded, lru, onDisk, pc, tree, object>>

\* A pointer goes out of scope; the last one to an object destroys it.
Release(th) ==
  /\ pc[th] = "using" /\ ~append[th]
  /\ onDisk' = IF \/ loaded[tree[th]] = object[th]
                  \/ \E other \in Threads \ {th} : Holds(other, tree[th], object[th])
               THEN onDisk
               ELSE [onDisk EXCEPT ![tree[th]] = inMemory[tree[th]][object[th]]]
  /\ Goto(th, "idle", 0, 0)
  /\ UNCHANGED <<known, loaded, lru, inMemory, appended, nextPatch, append>>

Next ==
  \E th \in Threads :
    \/ Lookup(th) \/ AppendToLast(th) \/ AppendToNext(th)
    \/ Get(th) \/ GetLast(th) \/ Load(th) \/ Construct(th)
    \/ AppendPatch(th) \/ Release(th)

Spec == Init /\ [][Next]_vars

-----------------------------------------------------------------------------

TypeOK ==
  /\ known \subseteq Ids
  /\ loaded \in [Ids -> {0} \cup Objects]
  /\ lru \in Seq(Ids)
  /\ inMemory \in [Ids -> [Objects -> 0 .. LastPatch]]
  /\ onDisk \in [Ids -> 0 .. LastPatch] /\ appended \in [Ids -> 0 .. LastPatch]
  /\ nextPatch \in 1 .. LastPatch + 1
  /\ pc \in [Threads -> {"idle", "found", "constructing", "loading", "using"}]
  /\ append \in [Threads -> BOOLEAN]
  /\ tree \in [Threads -> {0} \cup Ids] /\ object \in [Threads -> {0} \cup Objects]
  /\ \A th \in Threads : /\ pc[th] = "idle" <=> tree[th] = 0
                         /\ pc[th] = "using" <=> object[th] # 0

(***************************************************************************)
(* A tree has at most one object, in the map or only held by threads:      *)
(* nobody opens the files of a tree that another thread still has open,    *)
(* though threads decide to load under the shared lock, and the cache may  *)
(* have closed the tree in between, or another thread opened it.           *)
(***************************************************************************)
OneObject == \A id \in Ids : Cardinality(Live(id)) <= 1

(***************************************************************************)
(* No append is forgotten: whichever object a reader holds or will open,   *)
(* it reports the last patch appended to the tree, also after the cache    *)
(* closed the tree and destroyed and reopened it in between.               *)
(***************************************************************************)
NothingForgotten ==
  \A id \in Ids : appended[id] # 0 =>
    /\ \A o \in Live(id) : inMemory[id][o] = appended[id]
    /\ Live(id) = {} => onDisk[id] = appended[id]

(***************************************************************************)
(* The list of the cache is exactly the open trees, each once, so that     *)
(* every open tree can be closed again.                                    *)
(***************************************************************************)
ListIsLoaded ==
  /\ {lru[i] : i \in DOMAIN lru} = {id \in Ids : loaded[id] # 0}
  /\ \A i, j \in DOMAIN lru : lru[i] = lru[j] => i = j

(***************************************************************************)
(* The cache grows over its limit only where every open tree is held: at   *)
(* most one tree per thread.  A thread is a holder here: a caller that     *)
(* holds the trees of two chains at once counts as two.                    *)
(***************************************************************************)
CacheBounded == Len(lru) <= Max({MaxLoaded, Cardinality(Threads)})
===============================================================================
