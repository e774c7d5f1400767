---------------------------- MODULE SnapshotManager ----------------------------
(***************************************************************************)
(* The open snapshots and their dictionaries (snapshot/snapshot_manager.cc *)
(* and the files of dictionary/dictionary_manager.cc).  A snapshot is an   *)
(* HDT file that is mapped on demand, always with a DictionaryManager that *)
(* reads the HDT's dictionary through a pointer and adds what patches      *)
(* bring; what was added reaches its file when the object is destroyed.    *)
(*                                                                         *)
(* An HDT and its dictionary are opened and closed together, so one number *)
(* names the pair; threads hold the two separately.  Threads look under a  *)
(* shared lock and act, after a gap, under an exclusive one.               *)
(***************************************************************************)
EXTENDS LruCache

CONSTANTS
  Threads,
  LastSnapshot,     \* bound: the largest snapshot id
  MaxInserted,      \* bound: strings inserted into one dictionary
  MaxLoaded,        \* max_loaded_snapshots
  Uses              \* the ways the manager may be used

ASSUME SnapshotManagerAssumption ==
  /\ IsFiniteSet(Threads)
  /\ LastSnapshot \in Nat /\ MaxInserted \in Nat
  /\ MaxLoaded \in Nat /\ MaxLoaded >= 2
  /\ Uses \subseteq [concurrent : BOOLEAN, dictionaryFirst : BOOLEAN]

VARIABLES
  use,          \* whether calls overlap, and whether one may ask for a dictionary
                \* without holding the snapshot
  known,        \* the keys of loaded_snapshots
  loaded,       \* loaded_snapshots and loaded_dictionaries: the pair of an id, 0 for null
  lru,          \* lru_list
  entries,      \* the strings in the additional dictionary of a pair
  onDisk,       \* the same in its file
  inserted,     \* all that was inserted for a snapshot
  pc, id,       \* per thread: the step of its call, the snapshot it is about
  hdt, dict,    \* per thread: the pairs whose HDT and whose dictionary it holds, or 0
  seen, local   \* per thread: the dictionary that its call read under the shared lock,
                \* the HDT that it loaded

vars == <<use, known, loaded, lru, entries, onDisk, inserted, pc, id, hdt, dict, seen, local>>
files == <<entries, onDisk, inserted>>

Ids == 0 .. LastSnapshot
NoId == -1

\* More pairs than there can be holders.
Pairs == 1 .. 2 * Cardinality(Threads) + 1

HoldsHdt(th, s, o)  == id[th] = s /\ o \in {hdt[th], local[th]}
HoldsDict(th, s, o) == id[th] = s /\ o \in {dict[th], seen[th]}

LiveHdts(s)  == {o \in Pairs : loaded[s] = o \/ \E th \in Threads : HoldsHdt(th, s, o)}
LiveDicts(s) == {o \in Pairs : loaded[s] = o \/ \E th \in Threads : HoldsDict(th, s, o)}

\* detect_snapshots: the files that are there, none of them open.
Init ==
  /\ use \in Uses
  /\ known \in {0 .. last : last \in -1 .. LastSnapshot}
  /\ loaded = [s \in Ids |-> 0]
  /\ lru = <<>>
  /\ entries = [s \in Ids |-> [o \in Pairs |-> 0]]
  /\ onDisk = [s \in Ids |-> 0] /\ inserted = [s \in Ids |-> 0]
  /\ pc = [th \in Threads |-> "none"]
  /\ id = [th \in Threads |-> NoId]
  /\ hdt = [th \in Threads |-> 0] /\ dict = [th \in Threads |-> 0]
  /\ seen = [th \in Threads |-> 0] /\ local = [th \in Threads |-> 0]

Step(th, step) == pc' = [pc EXCEPT ![th] = step]
Holds(var, th, o) == [var EXCEPT ![th] = o]

AskedUnlisted(th) == IF id[th] # NoId THEN {id[th]} ELSE Ids                \* mutant

\* The snapshot a thread uses, or any: that of a version or one of get_snapshots_ids.
Asked(th) == IF id[th] # NoId THEN {id[th]} ELSE known

\* A thread begins a call.
Idle(th) ==
  /\ pc[th] = "none"
  /\ use.concurrent \/ \A other \in Threads : pc[other] = "none"

-----------------------------------------------------------------------------
(* update_cache, under the exclusive lock *)

\* unique() of both pointers, and not the accessed snapshot; a null pointer is not unique.
CanCloseUnlessHdtHeld(s, accessed) ==                                     \* mutant
  /\ loaded[s] # 0 /\ s # accessed
  /\ \A th \in Threads : ~HoldsHdt(th, s, loaded[s])
CanClose(s, accessed) ==
  /\ loaded[s] # 0 /\ s # accessed
  /\ \A th \in Threads : ~HoldsHdt(th, s, loaded[s]) /\ ~HoldsDict(th, s, loaded[s])

(***************************************************************************)
(* As LruCache, but with one try more than the list is long: when nothing  *)
(* can be closed, the list ends up turned by one.                          *)
(***************************************************************************)
Retried(list, free, limit) ==
  IF Len(list) >= limit /\ Closeable(list, free) = {}
  THEN <<list[Len(list)]>> \o SubSeq(list, 1, Len(list) - 1)
  ELSE Turned(list, free, limit)

\* The cache after an access to s, where opened are the pairs of the map by then.
UpdateCache(s, opened) ==
  LET free == {other \in Ids : CanClose(other, s)}
      closed == Closed(lru, free, MaxLoaded)
  IN /\ lru' = InFront(Retried(lru, free, MaxLoaded), s)
     /\ loaded' = [other \in Ids |-> IF other \in closed THEN 0 ELSE opened[other]]
     /\ onDisk' = [other \in Ids |-> IF other \in closed THEN entries[other][loaded[other]]
                                     ELSE onDisk[other]]

-----------------------------------------------------------------------------
(* get_snapshot and create_snapshot *)

\* Under the shared lock.
GetSnapshot(th) ==
  /\ Idle(th) /\ hdt[th] = 0
  /\ \E s \in Asked(th) :
       /\ id' = [id EXCEPT ![th] = s]
       /\ hdt' = Holds(hdt, th, loaded[s])
       /\ Step(th, IF loaded[s] = 0 THEN "load" ELSE "touch")
  /\ UNCHANGED <<use, known, loaded, lru, files, dict, seen, local>>

Touch(th) ==
  /\ pc[th] = "touch"
  /\ UpdateCache(id[th], loaded)
  /\ Step(th, "none")
  /\ UNCHANGED <<use, known, entries, inserted, id, hdt, dict, seen, local>>

\* A file is written under the exclusive lock; the map learns of it when it is loaded.
CreateSnapshot(th) ==
  /\ Idle(th) /\ id[th] = NoId
  /\ \A other \in Threads : id[other] \in known \cup {NoId}
  /\ LET s == Cardinality(known) IN s \in Ids /\ id' = [id EXCEPT ![th] = s]
  /\ Step(th, "load")
  /\ UNCHANGED <<use, known, loaded, lru, files, hdt, dict, seen, local>>

(***************************************************************************)
(* load_snapshot: the pair that is there, or a new one, whose dictionary   *)
(* reads its file.                                                         *)
(***************************************************************************)
NewPair(s) == Min(Pairs \ (LiveHdts(s) \cup LiveDicts(s)))
ReadNothing(s) == 0                                                       \* mutant
ReadFile(s) == onDisk[s]

LoadSnapshot(th) ==
  LET s == id[th]
      o == NewPair(s)
  IN /\ known' = known \cup {s}
     /\ IF loaded[s] # 0 THEN UNCHANGED <<loaded, lru, entries, onDisk>>
        ELSE /\ entries' = [entries EXCEPT ![s][o] = ReadFile(s)]
             /\ UpdateCache(s, [loaded EXCEPT ![s] = o])
     /\ UNCHANGED <<use, inserted, id, dict, seen>>

Load(th) ==
  /\ pc[th] = "load"
  /\ LoadSnapshot(th)
  /\ hdt' = Holds(hdt, th, loaded'[id[th]])
  /\ Step(th, "none")
  /\ UNCHANGED local

-----------------------------------------------------------------------------
(* get_dictionary_manager *)

\* Under the shared lock.
GetDictionary(th) ==
  /\ Idle(th) /\ dict[th] = 0
  /\ use.dictionaryFirst \/ hdt[th] # 0
  /\ \E s \in Asked(th) :
       /\ id' = [id EXCEPT ![th] = s]
       /\ seen' = Holds(seen, th, loaded[s])
  /\ Step(th, "check")
  /\ UNCHANGED <<use, known, loaded, lru, files, hdt, dict, local>>

\* Under the exclusive lock: what was seen is still good, or both are dropped.
Checked(th) ==
  /\ pc[th] = "check"
  /\ seen[th] # 0 /\ loaded[id[th]] # 0
  /\ UpdateCache(id[th], loaded)
  /\ dict' = Holds(dict, th, seen[th])
  /\ seen' = Holds(seen, th, 0)
  /\ Step(th, "none")
  /\ UNCHANGED <<use, known, entries, inserted, id, hdt, local>>

\* The file of a dictionary is written when nobody holds the object any more.
SavedUnless(s, o, held) ==
  onDisk' = IF o = 0 \/ held THEN onDisk ELSE [onDisk EXCEPT ![s] = entries[s][o]]

Dropped(th) ==
  /\ pc[th] = "check"
  /\ seen[th] = 0 \/ loaded[id[th]] = 0
  /\ LET s == id[th]
     IN SavedUnless(s, loaded[s], \E other \in Threads : HoldsDict(other, s, loaded[s]))
  /\ loaded' = [loaded EXCEPT ![id[th]] = 0]
  /\ Step(th, "reload")
  /\ UNCHANGED <<use, known, lru, entries, inserted, id, hdt, dict, seen, local>>

\* The pointers that the call holds live until it returns.
Reload(th) ==
  /\ pc[th] = "reload"
  /\ LoadSnapshot(th)
  /\ local' = Holds(local, th, loaded'[id[th]])
  /\ Step(th, "fetch")
  /\ UNCHANGED hdt

\* The map is read again, without a lock.
Fetch(th) ==
  /\ pc[th] = "fetch"
  /\ dict' = Holds(dict, th, loaded[id[th]])
  /\ LET s == id[th]
     IN SavedUnless(s, seen[th], \/ seen[th] \in {loaded[s], dict[th]}
                                 \/ \E other \in Threads \ {th} : HoldsDict(other, s, seen[th]))
  /\ seen' = Holds(seen, th, 0) /\ local' = Holds(local, th, 0)
  /\ Step(th, IF loaded[id[th]] = 0 THEN "null" ELSE "none")
  /\ UNCHANGED <<use, known, loaded, lru, entries, inserted, id, hdt>>

-----------------------------------------------------------------------------

\* DictionaryManager::insert of a new string.
Insert(th) ==
  /\ Idle(th) /\ dict[th] # 0
  /\ inserted[id[th]] < MaxInserted
  /\ inserted' = [inserted EXCEPT ![id[th]] = @ + 1]
  /\ entries' = [entries EXCEPT ![id[th]][dict[th]] = @ + 1]
  /\ UNCHANGED <<use, known, loaded, lru, onDisk, pc, id, hdt, dict, seen, local>>

\* The pointers go out of scope.
Release(th) ==
  /\ Idle(th) /\ id[th] # NoId
  /\ SavedUnless(id[th], dict[th],
       \/ loaded[id[th]] = dict[th]
       \/ \E other \in Threads \ {th} : HoldsDict(other, id[th], dict[th]))
  /\ id' = [id EXCEPT ![th] = NoId]
  /\ hdt' = Holds(hdt, th, 0) /\ dict' = Holds(dict, th, 0)
  /\ UNCHANGED <<use, known, loaded, lru, entries, inserted, pc, seen, local>>

Next ==
  \E th \in Threads :
    \/ GetSnapshot(th) \/ Touch(th) \/ CreateSnapshot(th) \/ Load(th)
    \/ GetDictionary(th) \/ Checked(th) \/ Dropped(th) \/ Reload(th) \/ Fetch(th)
    \/ Insert(th) \/ Release(th)

Spec == Init /\ [][Next]_vars

-----------------------------------------------------------------------------

TypeOK ==
  /\ use \in Uses
  /\ known \in {0 .. last : last \in -1 .. LastSnapshot}
  /\ loaded \in [Ids -> {0} \cup Pairs] /\ \A s \in Ids \ known : loaded[s] = 0
  /\ lru \in Seq(known)
  /\ entries \in [Ids -> [Pairs -> 0 .. MaxInserted]]
  /\ onDisk \in [Ids -> 0 .. MaxInserted] /\ inserted \in [Ids -> 0 .. MaxInserted]
  /\ pc \in [Threads -> {"none", "touch", "load", "check", "reload", "fetch", "null"}]
  /\ id \in [Threads -> {NoId} \cup Ids]
  /\ \A var \in {hdt, dict, seen, local} : var \in [Threads -> {0} \cup Pairs]
  /\ \A th \in Threads : id[th] = NoId => pc[th] = "none" /\ hdt[th] = 0 /\ dict[th] = 0

(***************************************************************************)
(* snapshot_manager.h says of get_dictionary_manager: "@return The         *)
(* DictionaryManager file for the given snapshot id."                      *)
(***************************************************************************)
DictionaryReturned == \A th \in Threads : pc[th] # "null"

(***************************************************************************)
(* A snapshot has at most one dictionary object, and while a thread holds  *)
(* it the HDT it reads through its pointer stays open, whatever the cache  *)
(* closes in between; a dictionary that is asked for is there.             *)
(***************************************************************************)
OneDictionary ==
  /\ DictionaryReturned
  /\ \A s \in Ids : Cardinality(LiveDicts(s)) <= 1 /\ LiveDicts(s) \subseteq LiveHdts(s)

(***************************************************************************)
(* No string inserted is forgotten: whichever dictionary object a thread   *)
(* holds or will open knows all of them, also after the cache closed the   *)
(* snapshot and opened it again.                                           *)
(***************************************************************************)
InsertsKept ==
  \A s \in Ids :
    /\ \A o \in LiveDicts(s) : entries[s][o] = inserted[s]
    /\ LiveDicts(s) = {} => onDisk[s] = inserted[s]

(***************************************************************************)
(* The list names every open snapshot once, so that it can be closed       *)
(* again, and grows over its limit only where the open ones are held.  A   *)
(* thread is a holder here: a delta across chains, which holds two         *)
(* dictionaries at once, counts as two.                                    *)
(***************************************************************************)
CacheBounded ==
  /\ \A i, j \in DOMAIN lru : lru[i] = lru[j] => i = j
  /\ \A s \in Ids : loaded[s] # 0 => \E i \in DOMAIN lru : lru[i] = s
  /\ Len(lru) <= Max({MaxLoaded, Cardinality(Threads)})
===============================================================================
