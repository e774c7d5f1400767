------------------------- MODULE SnapshotManagerProofs --------------------------
(***************************************************************************)
(* The snapshots and dictionaries that are open, for any number of         *)
(* threads, snapshots and inserted strings, under the uses the manager is  *)
(* safe for: a thread that holds an HDT or a dictionary holds the pair     *)
(* that is in the map.                                                     *)
(***************************************************************************)
EXTENDS SnapshotManager, CollectionProofs

(***************************************************************************)
(* Calls do not overlap, or a dictionary is asked for only by a thread     *)
(* that holds the snapshot.  With both, get_dictionary_manager may return  *)
(* a null pointer, and the theorems do not hold.                           *)
(***************************************************************************)
SafeUses == \A u \in Uses : ~(u.concurrent /\ u.dictionaryFirst)

-----------------------------------------------------------------------------
(* The inductive invariant *)

\* What a thread holds is the pair in the map: the cache closes no snapshot that is held.
HeldIsLoaded(th) ==
  /\ hdt[th] # 0 => loaded[id[th]] = hdt[th]
  /\ dict[th] # 0 => loaded[id[th]] = dict[th]
  /\ seen[th] # 0 => loaded[id[th]] = seen[th]
  /\ local[th] # 0 => loaded[id[th]] = local[th]

\* The steps of a call: a dictionary that is not there is asked for by one thread alone.
CallOK(th) ==
  /\ pc[th] # "null"
  /\ id[th] = NoId => pc[th] = "none" /\ hdt[th] = 0 /\ dict[th] = 0
  /\ pc[th] = "touch" => hdt[th] # 0
  /\ pc[th] = "check" /\ seen[th] = 0 => loaded[id[th]] = 0 /\ ~use.concurrent
  /\ pc[th] \in {"reload", "fetch"} => ~use.concurrent
  /\ pc[th] = "fetch" => local[th] # 0
  /\ seen[th] # 0 => pc[th] = "check"
  /\ local[th] # 0 => pc[th] = "fetch"

\* A thread uses a snapshot that is known, or creates the next one.
Creates(th) == id[th] \notin known \cup {NoId}
NextIsCreated(th) == Creates(th) => pc[th] = "load" /\ id[th] = Cardinality(known)

\* One thread creates, and one is in a call unless they overlap.
OneAtATime ==
  \A th, other \in Threads :
    /\ Creates(th) /\ Creates(other) => th = other
    /\ pc[th] # "none" /\ pc[other] # "none" /\ ~use.concurrent => th = other

\* All strings of a snapshot are in its dictionary, or in the file when it is not open.
InsertsLast ==
  \A s \in Ids : inserted[s] = IF loaded[s] # 0 THEN entries[s][loaded[s]] ELSE onDisk[s]

ListIsLoaded == Listed(lru) = {s \in Ids : loaded[s] # 0}

SInv ==
  /\ TypeOK /\ ~(use.concurrent /\ use.dictionaryFirst)
  /\ \A th \in Threads : HeldIsLoaded(th) /\ CallOK(th) /\ NextIsCreated(th)
  /\ OneAtATime /\ InsertsLast /\ ListIsLoaded /\ CacheBounded

-----------------------------------------------------------------------------
(* The cache *)

\* What the assumption says of the constants.
LEMMA Numbers ==
  /\ Cardinality(Threads) \in Nat /\ MaxLoaded \in Nat /\ MaxLoaded >= 2
  /\ LastSnapshot \in Nat /\ MaxInserted \in Nat
  /\ Pairs \subseteq Nat \ {0} /\ Pairs # {} /\ 0 \notin Pairs
  /\ Ids \subseteq Nat /\ NoId \notin Ids
<1>1. /\ Cardinality(Threads) \in Nat /\ MaxLoaded \in Nat /\ MaxLoaded >= 2
      /\ LastSnapshot \in Nat /\ MaxInserted \in Nat
  BY SnapshotManagerAssumption, FS_CardinalityType
<1>2. 1 \in Pairs /\ Pairs \subseteq Nat \ {0} /\ 0 \notin Pairs
  BY <1>1 DEF Pairs
<1>3. Ids \subseteq Nat /\ NoId \notin Ids
  BY <1>1 DEF Ids, NoId
<1>4. QED
  BY <1>1, <1>2, <1>3

\* The limit of CacheBounded.
LEMMA Limit ==
  /\ MaxLoaded <= Max({MaxLoaded, Cardinality(Threads)})
  /\ Cardinality(Threads) <= Max({MaxLoaded, Cardinality(Threads)})
  /\ Max({MaxLoaded, Cardinality(Threads)}) \in Nat
BY Numbers, MaxOfTwo

\* What TypeOK says of the values.
LEMMA Types ==
  ASSUME TypeOK
  PROVE  /\ known \subseteq Ids
         /\ loaded \in [Ids -> {0} \cup Pairs] /\ \A s \in Ids \ known : loaded[s] = 0
         /\ lru \in Seq(known)
         /\ entries \in [Ids -> [Pairs -> 0 .. MaxInserted]]
         /\ onDisk \in [Ids -> 0 .. MaxInserted] /\ inserted \in [Ids -> 0 .. MaxInserted]
         /\ pc \in [Threads -> {"none", "touch", "load", "check", "reload", "fetch", "null"}]
         /\ id \in [Threads -> {NoId} \cup Ids]
         /\ hdt \in [Threads -> {0} \cup Pairs] /\ dict \in [Threads -> {0} \cup Pairs]
         /\ seen \in [Threads -> {0} \cup Pairs] /\ local \in [Threads -> {0} \cup Pairs]
<1>1. known \subseteq Ids
  BY Numbers DEF TypeOK, Ids
<1>2. QED
  BY <1>1 DEF TypeOK

\* The cache after a call of a thread: its snapshot is open, and what is held still is.
CacheAfter(th) ==
  /\ known' = known \cup {id[th]}
  /\ loaded' \in [Ids -> {0} \cup Pairs] /\ \A s \in Ids \ known' : loaded'[s] = 0
  /\ loaded'[id[th]] # 0
  /\ lru' \in Seq(known')
  /\ entries' \in [Ids -> [Pairs -> 0 .. MaxInserted]]
  /\ onDisk' \in [Ids -> 0 .. MaxInserted]
  /\ \A other \in Threads : /\ hdt[other] # 0 => loaded'[id[other]] = hdt[other]
                            /\ dict[other] # 0 => loaded'[id[other]] = dict[other]
                            /\ seen[other] # 0 => loaded'[id[other]] = seen[other]
                            /\ local[other] # 0 => loaded'[id[other]] = local[other]
  /\ \A s \in Ids : inserted[s] = IF loaded'[s] # 0 THEN entries'[s][loaded'[s]] ELSE onDisk'[s]
  /\ ListIsLoaded' /\ CacheBounded'

\* The turning of the cache with its try more closes at most one, a free one, and keeps the others.
LEMMA RetriedFacts ==
  ASSUME NEW S, NEW list \in Seq(S), Distinct(list), NEW free, NEW limit \in Nat, limit > 0
  PROVE  /\ Closed(list, free, limit) \subseteq free \cap Listed(list)
         /\ Retried(list, free, limit) \in Seq(S) /\ Distinct(Retried(list, free, limit))
         /\ Listed(Retried(list, free, limit)) = Listed(list) \ Closed(list, free, limit)
         /\ \/ Len(Retried(list, free, limit)) = Len(list) - 1
            \/ /\ Len(Retried(list, free, limit)) = Len(list)
               /\ Len(list) < limit \/ free \cap Listed(list) = {}
<1>1. Len(list) \in Nat /\ DOMAIN list = 1 .. Len(list)
  BY LenProperties
<1>2. CASE Len(list) >= limit /\ Closeable(list, free) = {}
  <2>1. PICK turned : turned = <<list[Len(list)]>> \o SubSeq(list, 1, Len(list) - 1)
    OBVIOUS
  <2>2. Retried(list, free, limit) = turned /\ Closed(list, free, limit) = {}
    BY <1>2, <2>1 DEF Retried, Closed
  <2>3. Len(list) >= 1
    BY <1>1, <1>2
  <2>4. /\ turned \in Seq(S) /\ Len(turned) = Len(list)
        /\ Distinct(turned) /\ Listed(turned) = Listed(list)
    BY <2>1, <2>3, LastInFront
  <2>5. free \cap Listed(list) = {}
    BY <1>1, <1>2 DEF Closeable, Listed
  <2>6. QED
    BY <2>2, <2>4, <2>5
<1>3. CASE ~(Len(list) >= limit /\ Closeable(list, free) = {})
  <2>1. Retried(list, free, limit) = Turned(list, free, limit)
    BY <1>3 DEF Retried
  <2>2. QED
    BY <2>1, TurnedFacts
<1>4. QED
  BY <1>2, <1>3

\* update_cache closes only snapshots that nobody holds, and keeps the rest of the invariant.
LEMMA UpdateKeeps ==
  ASSUME SInv, NEW th \in Threads, id[th] \in Ids,
         NEW opened \in [Ids -> {0} \cup Pairs], opened[id[th]] # 0,
         loaded[id[th]] # 0 => opened[id[th]] = loaded[id[th]],
         \A s \in Ids \ {id[th]} : opened[s] = loaded[s],
         known' = known \cup {id[th]},
         entries' \in [Ids -> [Pairs -> 0 .. MaxInserted]],
         \A s \in Ids \ {id[th]} : entries'[s] = entries[s],
         inserted[id[th]] = entries'[id[th]][opened[id[th]]],
         UpdateCache(id[th], opened)
  PROVE  CacheAfter(th)
<1>1. PICK s : s = id[th]
  OBVIOUS
<1>2. PICK free : free = {other \in Ids : CanClose(other, s)}
  OBVIOUS
<1>3. PICK closed : closed = Closed(lru, free, MaxLoaded)
  OBVIOUS
<1>4. PICK retried : retried = Retried(lru, free, MaxLoaded)
  OBVIOUS
<1>5. /\ lru' = InFront(retried, s)
      /\ loaded' = [other \in Ids |-> IF other \in closed THEN 0 ELSE opened[other]]
      /\ onDisk' = [other \in Ids |-> IF other \in closed THEN entries[other][loaded[other]]
                                      ELSE onDisk[other]]
  BY <1>1, <1>2, <1>3, <1>4 DEF UpdateCache
<1>6. /\ known \subseteq Ids /\ s \in Ids
      /\ loaded \in [Ids -> {0} \cup Pairs] /\ \A i \in Ids \ known : loaded[i] = 0
      /\ lru \in Seq(known)
      /\ entries \in [Ids -> [Pairs -> 0 .. MaxInserted]]
      /\ onDisk \in [Ids -> 0 .. MaxInserted]
      /\ id \in [Threads -> {NoId} \cup Ids] /\ 0 \notin Pairs /\ NoId \notin Ids
      /\ hdt \in [Threads -> {0} \cup Pairs] /\ dict \in [Threads -> {0} \cup Pairs]
      /\ seen \in [Threads -> {0} \cup Pairs] /\ local \in [Threads -> {0} \cup Pairs]
  BY <1>1, Types, Numbers DEF SInv
<1>7. lru \in Seq(known \cup {s}) /\ Distinct(lru) /\ Listed(lru) = {i \in Ids : loaded[i] # 0}
  <2>1. lru \in Seq(known \cup {s})
    BY <1>6, SeqMonotonic
  <2>2. QED
    BY <2>1 DEF SInv, ListIsLoaded, CacheBounded, Distinct
<1>8. /\ closed \subseteq free \cap Listed(lru)
      /\ retried \in Seq(known \cup {s}) /\ Distinct(retried)
      /\ Listed(retried) = Listed(lru) \ closed
      /\ \/ Len(retried) = Len(lru) - 1
         \/ Len(retried) = Len(lru) /\ (Len(lru) < MaxLoaded \/ free \cap Listed(lru) = {})
  <2>1. MaxLoaded \in Nat /\ MaxLoaded > 0
    BY Numbers
  <2>2. QED
    BY <1>3, <1>4, <1>7, <2>1, RetriedFacts
<1>9. \A i \in closed :
        /\ i \in Ids /\ i # s /\ loaded[i] # 0
        /\ \A other \in Threads : id[other] = i => /\ hdt[other] # loaded[i] /\ dict[other] # loaded[i]
                                                   /\ seen[other] # loaded[i] /\ local[other] # loaded[i]
  BY <1>2, <1>8 DEF CanClose, HoldsHdt, HoldsDict
<1>10. /\ loaded' \in [Ids -> {0} \cup Pairs]
       /\ loaded'[s] = opened[s] /\ \A i \in Ids \ known' : loaded'[i] = 0
  BY <1>1, <1>5, <1>6, <1>9
<1>11. onDisk' \in [Ids -> 0 .. MaxInserted]
  BY <1>5, <1>6, <1>9
<1>12. ASSUME NEW other \in Threads, NEW o, o # 0, loaded[id[other]] = o, id[other] \in Ids,
              o \in {hdt[other], dict[other], seen[other], local[other]}
       PROVE  loaded'[id[other]] = o
  <2>1. id[other] \notin closed
    BY <1>9, <1>12
  <2>2. opened[id[other]] = o
    BY <1>12
  <2>3. QED
    BY <1>5, <1>12, <2>1, <2>2
<1>13. ASSUME NEW other \in Threads
       PROVE  /\ hdt[other] # 0 => loaded'[id[other]] = hdt[other]
              /\ dict[other] # 0 => loaded'[id[other]] = dict[other]
              /\ seen[other] # 0 => loaded'[id[other]] = seen[other]
              /\ local[other] # 0 => loaded'[id[other]] = local[other]
  <2>1. HeldIsLoaded(other) /\ CallOK(other)
    BY DEF SInv
  <2>2. \/ id[other] \in Ids
        \/ hdt[other] = 0 /\ dict[other] = 0 /\ seen[other] = 0 /\ local[other] = 0
    BY <1>6, <2>1 DEF CallOK
  <2>3. QED
    BY <1>12, <2>1, <2>2 DEF HeldIsLoaded
<1>14. ASSUME NEW i \in Ids
       PROVE  inserted[i] = IF loaded'[i] # 0 THEN entries'[i][loaded'[i]] ELSE onDisk'[i]
  <2>1. inserted[i] = IF loaded[i] # 0 THEN entries[i][loaded[i]] ELSE onDisk[i]
    BY DEF SInv, InsertsLast
  <2>2. CASE i = s
    BY <1>1, <1>10, <2>2
  <2>3. CASE i # s /\ i \in closed
    <3>1. loaded'[i] = 0 /\ onDisk'[i] = entries[i][loaded[i]] /\ loaded[i] # 0
      BY <1>5, <1>9, <2>3
    <3>2. QED
      BY <2>1, <3>1
  <2>4. CASE i # s /\ i \notin closed
    <3>1. loaded'[i] = loaded[i] /\ onDisk'[i] = onDisk[i] /\ entries'[i] = entries[i]
      BY <1>1, <1>5, <2>4
    <3>2. QED
      BY <2>1, <3>1
  <2>5. QED
    BY <2>2, <2>3, <2>4
<1>15. /\ lru' \in Seq(known \cup {s}) /\ Distinct(lru') /\ Listed(lru') = Listed(retried) \cup {s}
       /\ Len(lru') = IF s \in Listed(retried) THEN Len(retried) ELSE Len(retried) + 1
  <2>1. s \in known \cup {s}
    OBVIOUS
  <2>2. QED
    BY <1>5, <1>8, <2>1, InFrontFacts
<1>16. Listed(lru') = {i \in Ids : loaded'[i] # 0}
  BY <1>1, <1>5, <1>6, <1>7, <1>8, <1>9, <1>10, <1>15
<1>17. Len(lru') <= Max({MaxLoaded, Cardinality(Threads)})
  <2>1. Len(lru) \in Nat /\ Len(lru) <= Max({MaxLoaded, Cardinality(Threads)})
    BY <1>7, LenProperties DEF SInv, CacheBounded
  <2>2. CASE Len(retried) = Len(lru) - 1
    BY <1>15, <2>1, <2>2, Limit
  <2>3. CASE Len(retried) = Len(lru) /\ Len(lru) < MaxLoaded
    BY <1>15, <2>1, <2>3, Limit, Numbers
  <2>4. CASE Len(retried) = Len(lru) /\ s \in Listed(retried)
    BY <1>15, <2>1, <2>4, Limit
  <2>5. CASE Len(retried) = Len(lru) /\ free \cap Listed(lru) = {} /\ s \notin Listed(retried)
    <3>1. s \notin Listed(lru)
      BY <1>8, <1>9, <2>5
    <3>2. ASSUME NEW x \in Listed(lru)
          PROVE  \E other \in Threads \ {th} : id[other] = x
      <4>1. x \in Ids /\ loaded[x] # 0 /\ x # s /\ x \notin free
        BY <1>7, <2>5, <3>1, <3>2
      <4>2. \E other \in Threads : id[other] = x
        BY <1>2, <4>1 DEF CanClose, HoldsHdt, HoldsDict
      <4>3. QED
        BY <1>1, <4>1, <4>2
    <3>3. IsFiniteSet(Threads \ {th}) /\ Cardinality(Threads \ {th}) = Cardinality(Threads) - 1
      BY SnapshotManagerAssumption, FS_RemoveElement
    <3>4. Len(lru) <= Cardinality(Threads \ {th})
      BY <1>7, <3>2, <3>3, NoLongerThanHolders
    <3>5. QED
      BY <1>15, <2>1, <2>5, <3>3, <3>4, Limit, Numbers
  <2>6. QED
    BY <1>8, <2>2, <2>3, <2>4, <2>5
<1>18. ListIsLoaded' /\ CacheBounded'
  <2>1. ListIsLoaded'
    BY <1>16 DEF ListIsLoaded
  <2>2. \A i \in Ids : loaded'[i] # 0 => \E k \in DOMAIN lru' : lru'[k] = i
    BY <1>16 DEF Listed
  <2>3. QED
    BY <1>15, <1>17, <2>1, <2>2 DEF CacheBounded, Distinct
<1>19. QED
  BY <1>1, <1>10, <1>11, <1>13, <1>14, <1>15, <1>18 DEF CacheAfter

\* load_snapshot: the snapshot is open afterwards, and nothing that is held was closed.
LEMMA LoadSnapshotKeeps ==
  ASSUME SInv, NEW th \in Threads, id[th] \in Ids, LoadSnapshot(th)
  PROVE  CacheAfter(th)
<1>1. PICK s : s = id[th]
  OBVIOUS
<1>2. /\ known \subseteq Ids /\ s \in Ids
      /\ loaded \in [Ids -> {0} \cup Pairs] /\ \A i \in Ids \ known : loaded[i] = 0
      /\ lru \in Seq(known)
      /\ entries \in [Ids -> [Pairs -> 0 .. MaxInserted]]
      /\ onDisk \in [Ids -> 0 .. MaxInserted] /\ inserted \in [Ids -> 0 .. MaxInserted]
      /\ id \in [Threads -> {NoId} \cup Ids] /\ 0 \notin Pairs /\ NoId \notin Ids
  BY <1>1, Types, Numbers DEF SInv
<1>3. inserted[s] = IF loaded[s] # 0 THEN entries[s][loaded[s]] ELSE onDisk[s]
  BY <1>2 DEF SInv, InsertsLast
<1>4. CASE loaded[s] # 0
  <2>1. UNCHANGED <<loaded, lru, entries, onDisk>> /\ known' = known \cup {s}
    BY <1>1, <1>4 DEF LoadSnapshot
  <2>2. known' = known
    BY <1>2, <1>4, <2>1
  <2>3. ListIsLoaded' /\ CacheBounded'
    BY <2>1 DEF SInv, ListIsLoaded, CacheBounded
  <2>4. \A other \in Threads : HeldIsLoaded(other)
    BY DEF SInv
  <2>5. InsertsLast
    BY DEF SInv
  <2>6. QED
    BY <1>1, <1>2, <1>4, <2>1, <2>2, <2>3, <2>4, <2>5 DEF CacheAfter, HeldIsLoaded, InsertsLast
<1>5. CASE loaded[s] = 0
  <2>1. PICK o : o = NewPair(s)
    OBVIOUS
  <2>2. PICK opened : opened = [loaded EXCEPT ![s] = o]
    OBVIOUS
  <2>3. /\ known' = known \cup {s}
        /\ entries' = [entries EXCEPT ![s][o] = onDisk[s]]
        /\ UpdateCache(s, opened)
    BY <1>1, <1>5, <2>1, <2>2 DEF LoadSnapshot, ReadFile
  <2>4. o \in Pairs
    <3>1. ASSUME NEW other \in Threads, id[other] = s
          PROVE  hdt[other] = 0 /\ dict[other] = 0 /\ seen[other] = 0 /\ local[other] = 0
      BY <1>5, <3>1 DEF SInv, HeldIsLoaded
    <3>2. LiveHdts(s) = {} /\ LiveDicts(s) = {}
      BY <1>2, <1>5, <3>1 DEF LiveHdts, LiveDicts, HoldsHdt, HoldsDict
    <3>3. Pairs \ (LiveHdts(s) \cup LiveDicts(s)) = Pairs
      BY <3>2
    <3>4. o = Min(Pairs)
      BY <2>1, <3>3 DEF NewPair
    <3>5. QED
      BY <3>4, Numbers, MinOfNat
  <2>5. /\ opened \in [Ids -> {0} \cup Pairs] /\ opened[s] = o /\ o # 0
        /\ \A i \in Ids \ {s} : opened[i] = loaded[i]
    BY <1>2, <2>2, <2>4
  <2>6. /\ entries' \in [Ids -> [Pairs -> 0 .. MaxInserted]]
        /\ \A i \in Ids \ {s} : entries'[i] = entries[i]
        /\ entries'[s][o] = onDisk[s]
    BY <1>2, <2>3, <2>4
  <2>7. QED
    BY <1>1, <1>3, <1>5, <2>3, <2>5, <2>6, UpdateKeeps
<1>6. QED
  BY <1>4, <1>5

\* A snapshot that is loaded is known, or the one after those that are.
LEMMA KnownGrows ==
  ASSUME TypeOK, NEW th \in Threads, NextIsCreated(th), id[th] \in Ids
  PROVE  known \cup {id[th]} \in {0 .. last : last \in -1 .. LastSnapshot}
<1>1. PICK last \in -1 .. LastSnapshot : known = 0 .. last
  BY DEF TypeOK
<1>2. last \in Int /\ last >= -1 /\ LastSnapshot \in Nat
  BY Numbers
<1>3. Cardinality(known) = last + 1
  BY <1>1, <1>2, FS_Interval
<1>4. CASE id[th] \in known
  <2>1. known \cup {id[th]} = known
    BY <1>4
  <2>2. QED
    BY <2>1 DEF TypeOK
<1>5. CASE id[th] \notin known
  <2>1. id[th] = last + 1
    BY <1>3, <1>5, Numbers DEF NextIsCreated, Creates
  <2>2. known \cup {id[th]} = 0 .. last + 1
    BY <1>1, <1>2, <2>1
  <2>3. last + 1 \in -1 .. LastSnapshot
    BY <1>2, <2>1 DEF Ids
  <2>4. QED
    BY <2>2, <2>3
<1>6. QED
  BY <1>4, <1>5

-----------------------------------------------------------------------------
(* The threads *)

\* No other thread is in a call that this one's could disturb.
Alone(th) == use.concurrent \/ \A other \in Threads \ {th} : pc[other] = "none"

\* What a step of a thread assigns to its variables, and to those of no other.
Moves(th, step, s, h, d, e, l) ==
  /\ pc' = [pc EXCEPT ![th] = step] /\ id' = [id EXCEPT ![th] = s]
  /\ hdt' = [hdt EXCEPT ![th] = h] /\ dict' = [dict EXCEPT ![th] = d]
  /\ seen' = [seen EXCEPT ![th] = e] /\ local' = [local EXCEPT ![th] = l]

\* A step of one thread, where what the others hold stays open.
LEMMA OthersKeep ==
  ASSUME SInv, NEW th \in Threads, TypeOK', use' = use,
         \A other \in Threads \ {th} :
           /\ pc'[other] = pc[other] /\ id'[other] = id[other]
           /\ hdt'[other] = hdt[other] /\ dict'[other] = dict[other]
           /\ seen'[other] = seen[other] /\ local'[other] = local[other],
         \A other \in Threads \ {th} :
           /\ hdt[other] # 0 => loaded'[id[other]] = hdt[other]
           /\ dict[other] # 0 => loaded'[id[other]] = dict[other]
           /\ seen[other] # 0 => loaded'[id[other]] = seen[other]
           /\ local[other] # 0 => loaded'[id[other]] = local[other],
         known \subseteq known',
         \A other \in Threads \ {th} : Creates(other) => known' = known /\ ~Creates(th)',
         Alone(th),
         HeldIsLoaded(th)', CallOK(th)', NextIsCreated(th)',
         InsertsLast', ListIsLoaded', CacheBounded'
  PROVE  SInv'
<1>1. ASSUME NEW other \in Threads \ {th}
      PROVE  HeldIsLoaded(other)' /\ CallOK(other)' /\ NextIsCreated(other)'
  <2>1. HeldIsLoaded(other) /\ CallOK(other) /\ NextIsCreated(other)
    BY DEF SInv
  <2>2. HeldIsLoaded(other)'
    BY DEF HeldIsLoaded
  <2>3. ~(pc[other] = "check" /\ seen[other] = 0)
    BY <2>1 DEF CallOK, Alone
  <2>4. CallOK(other)'
    BY <2>1, <2>3 DEF CallOK
  <2>5. NextIsCreated(other)'
    BY <2>1 DEF NextIsCreated, Creates
  <2>6. QED
    BY <2>2, <2>4, <2>5
<1>2. OneAtATime'
  <2>1. OneAtATime
    BY DEF SInv
  <2>2. \A other \in Threads \ {th} : Creates(other)' => Creates(other) /\ ~Creates(th)'
    BY DEF Creates
  <2>3. \A one, other \in Threads : Creates(one)' /\ Creates(other)' => one = other
    BY <2>1, <2>2 DEF OneAtATime
  <2>4. \A one, other \in Threads :
          pc'[one] # "none" /\ pc'[other] # "none" /\ ~use'.concurrent => one = other
    BY DEF Alone
  <2>5. QED
    BY <2>3, <2>4 DEF OneAtATime
<1>3. ~(use.concurrent /\ use.dictionaryFirst)'
  BY DEF SInv
<1>4. QED
  BY <1>1, <1>2, <1>3 DEF SInv

\* A step that leaves the map, the cache and the dictionaries as they are.
LEMMA CallKeeps ==
  ASSUME SInv, NEW th \in Threads, Alone(th),
         UNCHANGED <<use, known, loaded, lru, entries, onDisk, inserted>>,
         NEW step \in {"none", "touch", "load", "check", "reload", "fetch"},
         NEW s \in {NoId} \cup Ids, NEW h \in {0} \cup Pairs, NEW d \in {0} \cup Pairs,
         NEW e \in {0} \cup Pairs, NEW l \in {0} \cup Pairs,
         Moves(th, step, s, h, d, e, l),
         \A other \in Threads \ {th} : Creates(other) => s \in known \cup {NoId},
         HeldIsLoaded(th)', CallOK(th)', NextIsCreated(th)'
  PROVE  SInv'
<1>1. /\ pc \in [Threads -> {"none", "touch", "load", "check", "reload", "fetch", "null"}]
      /\ id \in [Threads -> {NoId} \cup Ids]
      /\ hdt \in [Threads -> {0} \cup Pairs] /\ dict \in [Threads -> {0} \cup Pairs]
      /\ seen \in [Threads -> {0} \cup Pairs] /\ local \in [Threads -> {0} \cup Pairs]
  BY Types DEF SInv
<1>2. /\ pc' \in [Threads -> {"none", "touch", "load", "check", "reload", "fetch", "null"}]
      /\ id' \in [Threads -> {NoId} \cup Ids]
      /\ hdt' \in [Threads -> {0} \cup Pairs] /\ dict' \in [Threads -> {0} \cup Pairs]
      /\ seen' \in [Threads -> {0} \cup Pairs] /\ local' \in [Threads -> {0} \cup Pairs]
  BY <1>1 DEF Moves
<1>3. \A other \in Threads \ {th} :
        /\ pc'[other] = pc[other] /\ id'[other] = id[other]
        /\ hdt'[other] = hdt[other] /\ dict'[other] = dict[other]
        /\ seen'[other] = seen[other] /\ local'[other] = local[other]
  BY <1>1 DEF Moves
<1>4. \A any \in Threads : CallOK(any) /\ HeldIsLoaded(any)
  BY DEF SInv
<1>5. \A any \in Threads : id'[any] = NoId => pc'[any] = "none" /\ hdt'[any] = 0 /\ dict'[any] = 0
  BY <1>1, <1>3, <1>4 DEF CallOK
<1>6. TypeOK'
  BY <1>2, <1>5 DEF SInv, TypeOK
<1>7. \A other \in Threads \ {th} :
        /\ hdt[other] # 0 => loaded'[id[other]] = hdt[other]
        /\ dict[other] # 0 => loaded'[id[other]] = dict[other]
        /\ seen[other] # 0 => loaded'[id[other]] = seen[other]
        /\ local[other] # 0 => loaded'[id[other]] = local[other]
  BY <1>4 DEF HeldIsLoaded
<1>8. InsertsLast' /\ ListIsLoaded' /\ CacheBounded'
  BY DEF SInv, InsertsLast, ListIsLoaded, CacheBounded
<1>9. \A other \in Threads \ {th} : Creates(other) => known' = known /\ ~Creates(th)'
  BY <1>1 DEF Creates, Moves
<1>10. QED
  BY <1>3, <1>6, <1>7, <1>8, <1>9, OthersKeep

\* The step of th accesses the cache, and what th then holds is loaded.
Accesses(th, step, h, d, l) ==
  /\ id[th] \in Ids /\ pc[th] # "none" /\ CacheAfter(th) /\ UNCHANGED <<use, inserted>>
  /\ Moves(th, step, id[th], h, d, 0, l)
  /\ step \in {"none", "fetch"} /\ {h, d, l} \subseteq {0} \cup Pairs
  /\ h # 0 => h = loaded'[id[th]]
  /\ d # 0 => d = loaded'[id[th]]
  /\ l # 0 => l = loaded'[id[th]]
  /\ step = "fetch" <=> l # 0
  /\ step = "fetch" => ~use.concurrent

\* A step that accesses the cache.
LEMMA AccessKeeps ==
  ASSUME SInv, NEW th \in Threads, NEW step, NEW h, NEW d, NEW l, Accesses(th, step, h, d, l)
  PROVE  SInv'
<1> USE DEF Accesses
<1>1. /\ pc \in [Threads -> {"none", "touch", "load", "check", "reload", "fetch", "null"}]
      /\ id \in [Threads -> {NoId} \cup Ids]
      /\ hdt \in [Threads -> {0} \cup Pairs] /\ dict \in [Threads -> {0} \cup Pairs]
      /\ seen \in [Threads -> {0} \cup Pairs] /\ local \in [Threads -> {0} \cup Pairs]
      /\ inserted \in [Ids -> 0 .. MaxInserted]
      /\ NoId \notin Ids
  BY Types, Numbers DEF SInv
<1>2. /\ pc' \in [Threads -> {"none", "touch", "load", "check", "reload", "fetch", "null"}]
      /\ hdt' \in [Threads -> {0} \cup Pairs] /\ dict' \in [Threads -> {0} \cup Pairs]
      /\ seen' \in [Threads -> {0} \cup Pairs] /\ local' \in [Threads -> {0} \cup Pairs]
      /\ id' = id
  BY <1>1 DEF Moves
<1>3. \A other \in Threads \ {th} :
        /\ pc'[other] = pc[other] /\ id'[other] = id[other]
        /\ hdt'[other] = hdt[other] /\ dict'[other] = dict[other]
        /\ seen'[other] = seen[other] /\ local'[other] = local[other]
  BY <1>1 DEF Moves
<1>4. \A any \in Threads : CallOK(any) /\ NextIsCreated(any)
  BY DEF SInv
<1>5. \A any \in Threads : id'[any] = NoId => pc'[any] = "none" /\ hdt'[any] = 0 /\ dict'[any] = 0
  BY <1>1, <1>2, <1>3, <1>4 DEF CallOK
<1>6. known' \in {0 .. last : last \in -1 .. LastSnapshot} /\ known' = known \cup {id[th]}
  BY <1>4, KnownGrows DEF SInv, CacheAfter
<1>7. /\ loaded' \in [Ids -> {0} \cup Pairs] /\ \A i \in Ids \ known' : loaded'[i] = 0
      /\ lru' \in Seq(known')
      /\ entries' \in [Ids -> [Pairs -> 0 .. MaxInserted]]
      /\ onDisk' \in [Ids -> 0 .. MaxInserted]
      /\ ListIsLoaded' /\ CacheBounded'
  BY DEF CacheAfter
<1>8. TypeOK'
  <2>1. use' \in Uses /\ inserted' \in [Ids -> 0 .. MaxInserted]
        /\ id' \in [Threads -> {NoId} \cup Ids]
    BY <1>1, <1>2 DEF SInv, TypeOK
  <2>2. QED
    BY <1>2, <1>5, <1>6, <1>7, <2>1 DEF TypeOK
<1>9. \A other \in Threads \ {th} :
        /\ hdt[other] # 0 => loaded'[id[other]] = hdt[other]
        /\ dict[other] # 0 => loaded'[id[other]] = dict[other]
        /\ seen[other] # 0 => loaded'[id[other]] = seen[other]
        /\ local[other] # 0 => loaded'[id[other]] = local[other]
  BY DEF CacheAfter
<1>10. InsertsLast'
  BY DEF InsertsLast, CacheAfter
<1>11. ~Creates(th)' /\ NextIsCreated(th)'
  BY <1>2, <1>6 DEF Creates, NextIsCreated
<1>12. \A other \in Threads \ {th} : Creates(other) => known' = known /\ ~Creates(th)'
  <2>1. ~Creates(th) => known' = known
    BY <1>1, <1>6 DEF Creates
  <2>2. \A other \in Threads \ {th} : Creates(other) => ~Creates(th)
    BY DEF SInv, OneAtATime
  <2>3. QED
    BY <1>11, <2>1, <2>2
<1>13. HeldIsLoaded(th)' /\ CallOK(th)'
  <2>1. /\ pc'[th] = step /\ id'[th] = id[th] /\ hdt'[th] = h /\ dict'[th] = d
        /\ seen'[th] = 0 /\ local'[th] = l
    BY <1>1 DEF Moves
  <2>2. QED
    BY <1>1, <2>1 DEF HeldIsLoaded, CallOK
<1>14. Alone(th)
  BY DEF SInv, OneAtATime, Alone
<1>15. known \subseteq known'
  BY <1>6
<1>16. QED
  BY <1>3, <1>7, <1>8, <1>9, <1>10, <1>11, <1>12, <1>13, <1>14, <1>15, OthersKeep

\* The initial states satisfy the invariant.
LEMMA SnapshotInit == SafeUses /\ Init => SInv
<1>1. SUFFICES ASSUME SafeUses, Init PROVE SInv
  OBVIOUS
<1>2. PICK last \in -1 .. LastSnapshot : known = 0 .. last
  BY <1>1 DEF Init
<1>3. LastSnapshot \in Nat /\ MaxInserted \in Nat
  BY Numbers
<1>4. TypeOK
  <2>1. lru \in Seq(known)
    BY <1>1 DEF Init
  <2>2. /\ use \in Uses /\ known \in {0 .. any : any \in -1 .. LastSnapshot}
        /\ loaded \in [Ids -> {0} \cup Pairs] /\ \A s \in Ids \ known : loaded[s] = 0
        /\ entries \in [Ids -> [Pairs -> 0 .. MaxInserted]]
        /\ onDisk \in [Ids -> 0 .. MaxInserted] /\ inserted \in [Ids -> 0 .. MaxInserted]
    BY <1>1, <1>3 DEF Init
  <2>3. /\ pc \in [Threads -> {"none", "touch", "load", "check", "reload", "fetch", "null"}]
        /\ id \in [Threads -> {NoId} \cup Ids]
        /\ \A var \in {hdt, dict, seen, local} : var \in [Threads -> {0} \cup Pairs]
        /\ \A th \in Threads : id[th] = NoId => pc[th] = "none" /\ hdt[th] = 0 /\ dict[th] = 0
    BY <1>1 DEF Init
  <2>4. QED
    BY <2>1, <2>2, <2>3 DEF TypeOK
<1>5. ~(use.concurrent /\ use.dictionaryFirst)
  BY <1>1 DEF Init, SafeUses
<1>6. \A th \in Threads : HeldIsLoaded(th) /\ CallOK(th) /\ NextIsCreated(th) /\ pc[th] = "none"
                          /\ ~Creates(th)
  BY <1>1 DEF Init, HeldIsLoaded, CallOK, NextIsCreated, Creates
<1>7. OneAtATime
  BY <1>6 DEF OneAtATime
<1>8. InsertsLast
  BY <1>1 DEF Init, InsertsLast
<1>9. lru = <<>> /\ \A s \in Ids : loaded[s] = 0
  BY <1>1 DEF Init
<1>10. ListIsLoaded
  BY <1>9 DEF ListIsLoaded, Listed
<1>11. CacheBounded
  BY <1>9, Limit DEF CacheBounded
<1>12. QED
  BY <1>4, <1>5, <1>6, <1>7, <1>8, <1>10, <1>11 DEF SInv

\* Every step keeps the invariant.
LEMMA SnapshotStep == SInv /\ [Next]_vars => SInv'
<1>1. SUFFICES ASSUME SInv, [Next]_vars PROVE SInv'
  OBVIOUS
<1>t. /\ known \subseteq Ids /\ NoId \notin Ids /\ 0 \notin Pairs
      /\ loaded \in [Ids -> {0} \cup Pairs] /\ \A s \in Ids \ known : loaded[s] = 0
      /\ pc \in [Threads -> {"none", "touch", "load", "check", "reload", "fetch", "null"}]
      /\ id \in [Threads -> {NoId} \cup Ids]
      /\ hdt \in [Threads -> {0} \cup Pairs] /\ dict \in [Threads -> {0} \cup Pairs]
      /\ seen \in [Threads -> {0} \cup Pairs] /\ local \in [Threads -> {0} \cup Pairs]
  BY <1>1, Types, Numbers DEF SInv
<1>c. \A th \in Threads : CallOK(th) /\ HeldIsLoaded(th) /\ NextIsCreated(th)
  BY <1>1 DEF SInv
\* A thread that begins a call: the values of the last one are dropped.
<1>b. ASSUME NEW th \in Threads, Idle(th)
      PROVE  /\ Alone(th) /\ pc[th] = "none" /\ seen[th] = 0 /\ local[th] = 0
             /\ id[th] \in known \cup {NoId}
             /\ id[th] = NoId => hdt[th] = 0 /\ dict[th] = 0
             /\ Asked(th) \subseteq known
             /\ \A s \in Asked(th) : id[th] # NoId => s = id[th]
  BY <1>b, <1>c DEF Idle, Alone, CallOK, NextIsCreated, Creates, Asked
\* A thread in a call is alone in one, or none of them matter to each other.
<1>a. ASSUME NEW th \in Threads, pc[th] # "none"
      PROVE  Alone(th) /\ id[th] \in Ids
  BY <1>1, <1>t, <1>c, <1>a DEF SInv, OneAtATime, Alone, CallOK
<1>2. CASE UNCHANGED vars
  <2>1. TypeOK'
    BY <1>1, <1>2 DEF vars, files, SInv, TypeOK
  <2>2. \A th \in Threads : HeldIsLoaded(th)' /\ CallOK(th)' /\ NextIsCreated(th)'
    BY <1>c, <1>2 DEF vars, files, HeldIsLoaded, CallOK, NextIsCreated, Creates
  <2>3. OneAtATime' /\ InsertsLast' /\ ListIsLoaded' /\ CacheBounded'
    BY <1>1, <1>2 DEF vars, files, SInv, OneAtATime, Creates, InsertsLast, ListIsLoaded,
                      CacheBounded
  <2>4. QED
    BY <1>1, <1>2, <2>1, <2>2, <2>3 DEF vars, SInv
<1>3. ASSUME NEW th \in Threads, GetSnapshot(th) PROVE SInv'
  <2>1. PICK s \in Asked(th) :
          /\ id' = [id EXCEPT ![th] = s]
          /\ hdt' = [hdt EXCEPT ![th] = loaded[s]]
          /\ pc' = [pc EXCEPT ![th] = IF loaded[s] = 0 THEN "load" ELSE "touch"]
    BY <1>3 DEF GetSnapshot, Holds, Step
  <2>0. PICK step : step = IF loaded[s] = 0 THEN "load" ELSE "touch"
    OBVIOUS
  <2>2. Idle(th) /\ UNCHANGED <<use, known, loaded, lru, entries, onDisk, inserted, dict, seen, local>>
    BY <1>3 DEF GetSnapshot, files
  <2>3. /\ Alone(th) /\ seen[th] = 0 /\ local[th] = 0 /\ s \in known
        /\ dict[th] # 0 => id[th] = s
    BY <1>b, <2>1, <2>2
  <2>4. Moves(th, step, s, loaded[s], dict[th], 0, 0)
    BY <1>t, <2>0, <2>1, <2>2, <2>3 DEF Moves
  <2>5. HeldIsLoaded(th)' /\ CallOK(th)' /\ NextIsCreated(th)'
    BY <1>t, <1>c, <2>1, <2>2, <2>3 DEF HeldIsLoaded, CallOK, NextIsCreated, Creates
  <2>6. QED
    BY <1>1, <1>t, <2>0, <2>1, <2>2, <2>3, <2>4, <2>5, CallKeeps
<1>4. ASSUME NEW th \in Threads, Touch(th) PROVE SInv'
  <2>1. /\ pc[th] = "touch" /\ UpdateCache(id[th], loaded)
        /\ pc' = [pc EXCEPT ![th] = "none"]
        /\ UNCHANGED <<use, known, entries, inserted, id, hdt, dict, seen, local>>
    BY <1>4 DEF Touch, Step
  <2>2. id[th] \in Ids /\ hdt[th] # 0 /\ loaded[id[th]] = hdt[th] /\ seen[th] = 0 /\ local[th] = 0
    BY <1>a, <1>c, <2>1 DEF CallOK, HeldIsLoaded
  <2>3. CacheAfter(th)
    <3>1. known' = known \cup {id[th]}
      BY <1>t, <2>1, <2>2
    <3>2. inserted[id[th]] = entries'[id[th]][loaded[id[th]]]
      BY <1>1, <2>1, <2>2 DEF SInv, InsertsLast
    <3>3. entries' \in [Ids -> [Pairs -> 0 .. MaxInserted]]
      BY <1>1, <2>1, Types DEF SInv
    <3>4. QED
      BY <1>1, <1>t, <2>1, <2>2, <3>1, <3>2, <3>3, UpdateKeeps
  <2>4. Moves(th, "none", id[th], hdt[th], dict[th], 0, 0)
    BY <1>t, <2>1, <2>2 DEF Moves
  <2>5. /\ hdt[th] # 0 => hdt[th] = loaded'[id[th]]
        /\ dict[th] # 0 => dict[th] = loaded'[id[th]]
    BY <2>3 DEF CacheAfter
  <2>6. Accesses(th, "none", hdt[th], dict[th], 0)
    BY <1>1, <1>t, <2>1, <2>2, <2>3, <2>4, <2>5 DEF Accesses
  <2>7. QED
    BY <1>1, <2>6, AccessKeeps
<1>5. ASSUME NEW th \in Threads, CreateSnapshot(th) PROVE SInv'
  <2>1. PICK s : s = Cardinality(known)
    OBVIOUS
  <2>2. /\ Idle(th) /\ id[th] = NoId /\ \A other \in Threads : id[other] \in known \cup {NoId}
        /\ s \in Ids /\ id' = [id EXCEPT ![th] = s]
        /\ pc' = [pc EXCEPT ![th] = "load"]
        /\ UNCHANGED <<use, known, loaded, lru, entries, onDisk, inserted, hdt, dict, seen, local>>
    BY <1>5, <2>1 DEF CreateSnapshot, Step, files
  <2>3. Alone(th) /\ hdt[th] = 0 /\ dict[th] = 0 /\ seen[th] = 0 /\ local[th] = 0
    BY <1>b, <2>2
  <2>4. Moves(th, "load", s, 0, 0, 0, 0)
    BY <1>t, <2>2, <2>3 DEF Moves
  <2>5. HeldIsLoaded(th)' /\ CallOK(th)' /\ NextIsCreated(th)'
    BY <1>t, <2>1, <2>2, <2>3 DEF HeldIsLoaded, CallOK, NextIsCreated, Creates
  <2>6. \A other \in Threads \ {th} : ~Creates(other)
    BY <2>2 DEF Creates
  <2>7. QED
    BY <1>1, <1>t, <2>2, <2>3, <2>4, <2>5, <2>6, CallKeeps
<1>6. ASSUME NEW th \in Threads, Load(th) PROVE SInv'
  <2>1. /\ pc[th] = "load" /\ LoadSnapshot(th)
        /\ hdt' = [hdt EXCEPT ![th] = loaded'[id[th]]]
        /\ pc' = [pc EXCEPT ![th] = "none"]
        /\ UNCHANGED <<use, inserted, id, dict, seen, local>>
    BY <1>6 DEF Load, LoadSnapshot, Holds, Step
  <2>2. id[th] \in Ids /\ seen[th] = 0 /\ local[th] = 0
    BY <1>a, <1>c, <2>1 DEF CallOK
  <2>3. CacheAfter(th)
    BY <1>1, <2>1, <2>2, LoadSnapshotKeeps
  <2>4. PICK h : h = loaded'[id[th]]
    OBVIOUS
  <2>5. Moves(th, "none", id[th], h, dict[th], 0, 0)
    BY <1>t, <2>1, <2>2, <2>4 DEF Moves
  <2>6. /\ dict[th] # 0 => dict[th] = loaded'[id[th]]
        /\ h \in {0} \cup Pairs /\ dict[th] \in {0} \cup Pairs
    BY <1>t, <2>2, <2>3, <2>4 DEF CacheAfter
  <2>7. Accesses(th, "none", h, dict[th], 0)
    BY <1>1, <2>1, <2>2, <2>3, <2>4, <2>5, <2>6 DEF Accesses
  <2>8. QED
    BY <1>1, <2>7, AccessKeeps
<1>7. ASSUME NEW th \in Threads, GetDictionary(th) PROVE SInv'
  <2>1. PICK s \in Asked(th) :
          /\ id' = [id EXCEPT ![th] = s]
          /\ seen' = [seen EXCEPT ![th] = loaded[s]]
    BY <1>7 DEF GetDictionary, Holds
  <2>2. /\ Idle(th) /\ pc' = [pc EXCEPT ![th] = "check"] /\ (use.dictionaryFirst \/ hdt[th] # 0)
        /\ UNCHANGED <<use, known, loaded, lru, entries, onDisk, inserted, hdt, dict, local>>
    BY <1>7 DEF GetDictionary, Step, files
  <2>3. /\ Alone(th) /\ local[th] = 0 /\ s \in known
        /\ dict[th] # 0 \/ hdt[th] # 0 => id[th] = s
    BY <1>b, <2>1, <2>2
  <2>4. Moves(th, "check", s, hdt[th], dict[th], loaded[s], 0)
    BY <1>t, <2>1, <2>2, <2>3 DEF Moves
  <2>5. loaded[s] = 0 => ~use.concurrent
    BY <1>1, <1>c, <2>2, <2>3 DEF SInv, HeldIsLoaded
  <2>6. HeldIsLoaded(th)' /\ CallOK(th)' /\ NextIsCreated(th)'
    BY <1>t, <1>c, <2>1, <2>2, <2>3, <2>5 DEF HeldIsLoaded, CallOK, NextIsCreated, Creates
  <2>7. QED
    BY <1>1, <1>t, <2>1, <2>2, <2>3, <2>4, <2>6, CallKeeps
<1>8. ASSUME NEW th \in Threads, Checked(th) PROVE SInv'
  <2>1. /\ pc[th] = "check" /\ seen[th] # 0 /\ UpdateCache(id[th], loaded)
        /\ pc' = [pc EXCEPT ![th] = "none"]
        /\ dict' = [dict EXCEPT ![th] = seen[th]] /\ seen' = [seen EXCEPT ![th] = 0]
        /\ UNCHANGED <<use, known, entries, inserted, id, hdt, local>>
    BY <1>8 DEF Checked, Holds, Step
  <2>2. id[th] \in Ids /\ loaded[id[th]] = seen[th] /\ local[th] = 0
    BY <1>a, <1>c, <2>1 DEF CallOK, HeldIsLoaded
  <2>3. CacheAfter(th)
    <3>1. known' = known \cup {id[th]}
      BY <1>t, <2>1, <2>2
    <3>2. inserted[id[th]] = entries'[id[th]][loaded[id[th]]]
      BY <1>1, <2>1, <2>2 DEF SInv, InsertsLast
    <3>3. entries' \in [Ids -> [Pairs -> 0 .. MaxInserted]]
      BY <1>1, <2>1, Types DEF SInv
    <3>4. QED
      BY <1>1, <1>t, <2>1, <2>2, <3>1, <3>2, <3>3, UpdateKeeps
  <2>4. Moves(th, "none", id[th], hdt[th], seen[th], 0, 0)
    BY <1>t, <2>1, <2>2 DEF Moves
  <2>5. /\ hdt[th] # 0 => hdt[th] = loaded'[id[th]]
        /\ seen[th] # 0 => seen[th] = loaded'[id[th]]
        /\ hdt[th] \in {0} \cup Pairs /\ seen[th] \in {0} \cup Pairs
    BY <1>t, <2>3 DEF CacheAfter
  <2>6. Accesses(th, "none", hdt[th], seen[th], 0)
    BY <1>1, <2>1, <2>2, <2>3, <2>4, <2>5 DEF Accesses
  <2>7. QED
    BY <1>1, <2>6, AccessKeeps
<1>9. ASSUME NEW th \in Threads, Dropped(th) PROVE SInv'
  <2>1. pc[th] = "check" /\ pc' = [pc EXCEPT ![th] = "reload"]
        /\ UNCHANGED <<use, known, lru, entries, inserted, id, hdt, dict, seen, local>>
    BY <1>9 DEF Dropped, Step
  <2>2. id[th] \in Ids /\ Alone(th) /\ seen[th] = 0 /\ local[th] = 0 /\ loaded[id[th]] = 0
        /\ ~use.concurrent
    BY <1>a, <1>c, <1>9, <2>1 DEF Dropped, CallOK, HeldIsLoaded
  <2>3. UNCHANGED <<loaded, onDisk>>
    BY <1>t, <1>9, <2>2 DEF Dropped, SavedUnless
  <2>4. Moves(th, "reload", id[th], hdt[th], dict[th], 0, 0)
    BY <1>t, <2>1, <2>2 DEF Moves
  <2>5. HeldIsLoaded(th)' /\ CallOK(th)' /\ NextIsCreated(th)'
    BY <1>t, <1>c, <2>1, <2>2, <2>3 DEF HeldIsLoaded, CallOK, NextIsCreated, Creates
  <2>6. \A other \in Threads \ {th} : Creates(other) => id[th] \in known \cup {NoId}
    BY <1>c, <2>1 DEF NextIsCreated, Creates
  <2>7. QED
    BY <1>1, <1>t, <2>1, <2>2, <2>3, <2>4, <2>5, <2>6, CallKeeps
<1>10. ASSUME NEW th \in Threads, Reload(th) PROVE SInv'
  <2>1. /\ pc[th] = "reload" /\ LoadSnapshot(th)
        /\ local' = [local EXCEPT ![th] = loaded'[id[th]]]
        /\ pc' = [pc EXCEPT ![th] = "fetch"]
        /\ UNCHANGED <<use, inserted, id, hdt, dict, seen>>
    BY <1>10 DEF Reload, LoadSnapshot, Holds, Step
  <2>2. id[th] \in Ids /\ seen[th] = 0 /\ ~use.concurrent
    BY <1>a, <1>c, <2>1 DEF CallOK
  <2>3. CacheAfter(th)
    BY <1>1, <2>1, <2>2, LoadSnapshotKeeps
  <2>4. Moves(th, "fetch", id[th], hdt[th], dict[th], 0, loaded'[id[th]])
    BY <1>t, <2>1, <2>2 DEF Moves
  <2>5. /\ hdt[th] # 0 => hdt[th] = loaded'[id[th]]
        /\ dict[th] # 0 => dict[th] = loaded'[id[th]]
        /\ loaded'[id[th]] \in {0} \cup Pairs /\ loaded'[id[th]] # 0
    BY <2>2, <2>3 DEF CacheAfter
  <2>6. Accesses(th, "fetch", hdt[th], dict[th], loaded'[id[th]])
    BY <1>1, <1>t, <2>1, <2>2, <2>3, <2>4, <2>5 DEF Accesses
  <2>7. QED
    BY <1>1, <2>6, AccessKeeps
<1>11. ASSUME NEW th \in Threads, Fetch(th) PROVE SInv'
  <2>1. pc[th] = "fetch" /\ dict' = [dict EXCEPT ![th] = loaded[id[th]]]
        /\ seen' = [seen EXCEPT ![th] = 0] /\ local' = [local EXCEPT ![th] = 0]
        /\ UNCHANGED <<use, known, loaded, lru, entries, inserted, id, hdt>>
    BY <1>11 DEF Fetch, Holds
  <2>2. id[th] \in Ids /\ Alone(th) /\ seen[th] = 0 /\ loaded[id[th]] # 0
    BY <1>a, <1>c, <2>1 DEF CallOK, HeldIsLoaded
  <2>3. pc' = [pc EXCEPT ![th] = "none"]
    BY <1>11, <2>2 DEF Fetch, Step
  <2>4. UNCHANGED onDisk
    BY <1>11, <2>2 DEF Fetch, SavedUnless
  <2>5. Moves(th, "none", id[th], hdt[th], loaded[id[th]], 0, 0)
    BY <1>t, <2>1, <2>2, <2>3 DEF Moves
  <2>6. HeldIsLoaded(th)' /\ CallOK(th)' /\ NextIsCreated(th)'
    BY <1>t, <1>c, <2>1, <2>2, <2>3 DEF HeldIsLoaded, CallOK, NextIsCreated, Creates
  <2>7. \A other \in Threads \ {th} : Creates(other) => id[th] \in known \cup {NoId}
    BY <1>c, <2>1 DEF NextIsCreated, Creates
  <2>8. QED
    BY <1>1, <1>t, <2>1, <2>2, <2>3, <2>4, <2>5, <2>6, <2>7, CallKeeps
<1>12. ASSUME NEW th \in Threads, Insert(th) PROVE SInv'
  <2>1. /\ Idle(th) /\ dict[th] # 0 /\ inserted[id[th]] < MaxInserted
        /\ inserted' = [inserted EXCEPT ![id[th]] = inserted[id[th]] + 1]
        /\ entries' = [entries EXCEPT ![id[th]][dict[th]] = entries[id[th]][dict[th]] + 1]
        /\ UNCHANGED <<use, known, loaded, lru, onDisk, pc, id, hdt, dict, seen, local>>
    BY <1>12 DEF Insert
  <2>2. Alone(th) /\ id[th] \in Ids /\ dict[th] \in Pairs /\ loaded[id[th]] = dict[th]
    BY <1>b, <1>c, <1>t, <2>1 DEF HeldIsLoaded
  <2>3. /\ entries \in [Ids -> [Pairs -> 0 .. MaxInserted]]
        /\ inserted \in [Ids -> 0 .. MaxInserted] /\ MaxInserted \in Nat
    BY <1>1, Types, Numbers DEF SInv
  <2>4. entries[id[th]][dict[th]] = inserted[id[th]]
    BY <1>1, <2>1, <2>2 DEF SInv, InsertsLast
  <2>5. inserted[id[th]] + 1 \in 0 .. MaxInserted
    BY <2>1, <2>2, <2>3
  <2>6. /\ inserted' \in [Ids -> 0 .. MaxInserted]
        /\ entries' \in [Ids -> [Pairs -> 0 .. MaxInserted]]
    BY <2>1, <2>2, <2>3, <2>4, <2>5
  <2>7. TypeOK'
    BY <1>1, <2>1, <2>6 DEF SInv, TypeOK
  <2>8. InsertsLast'
    <3>1. ASSUME NEW s \in Ids
          PROVE  inserted'[s] = IF loaded'[s] # 0 THEN entries'[s][loaded'[s]] ELSE onDisk'[s]
      <4>1. inserted[s] = IF loaded[s] # 0 THEN entries[s][loaded[s]] ELSE onDisk[s]
        BY <1>1 DEF SInv, InsertsLast
      <4>2. CASE s = id[th]
        BY <1>t, <2>1, <2>2, <2>3, <2>4, <4>2
      <4>3. CASE s # id[th]
        BY <2>1, <2>2, <2>3, <4>1, <4>3
      <4>4. QED
        BY <4>2, <4>3
    <3>2. QED
      BY <3>1 DEF InsertsLast
  <2>9. \A any \in Threads : HeldIsLoaded(any)' /\ CallOK(any)' /\ NextIsCreated(any)'
    BY <1>c, <2>1 DEF HeldIsLoaded, CallOK, NextIsCreated, Creates
  <2>10. OneAtATime' /\ ListIsLoaded' /\ CacheBounded'
    BY <1>1, <2>1 DEF SInv, OneAtATime, Creates, ListIsLoaded, CacheBounded
  <2>11. QED
    BY <1>1, <2>1, <2>7, <2>8, <2>9, <2>10 DEF SInv
<1>13. ASSUME NEW th \in Threads, Release(th) PROVE SInv'
  <2>1. Idle(th) /\ id' = [id EXCEPT ![th] = NoId]
        /\ hdt' = [hdt EXCEPT ![th] = 0] /\ dict' = [dict EXCEPT ![th] = 0]
        /\ UNCHANGED <<use, known, loaded, lru, entries, inserted, pc, seen, local>>
    BY <1>13 DEF Release, Holds
  <2>2. Alone(th) /\ pc[th] = "none" /\ seen[th] = 0 /\ local[th] = 0
    BY <1>b, <2>1
  <2>3. UNCHANGED onDisk
    BY <1>c, <1>13 DEF Release, SavedUnless, HeldIsLoaded
  <2>4. Moves(th, "none", NoId, 0, 0, 0, 0)
    BY <1>t, <2>1, <2>2 DEF Moves
  <2>5. HeldIsLoaded(th)' /\ CallOK(th)' /\ NextIsCreated(th)'
    BY <1>t, <2>1, <2>2 DEF HeldIsLoaded, CallOK, NextIsCreated, Creates
  <2>6. QED
    BY <1>1, <1>t, <2>1, <2>2, <2>3, <2>4, <2>5, CallKeeps
<1>14. QED
  BY <1>1, <1>2, <1>3, <1>4, <1>5, <1>6, <1>7, <1>8, <1>9, <1>10, <1>11, <1>12, <1>13 DEF Next

-----------------------------------------------------------------------------
(* The theorems *)

\* The invariant holds in every reachable state.
LEMMA SnapshotInvariant ==
  ASSUME SafeUses
  PROVE  Spec => []SInv
<1>1. Init => SInv
  BY SnapshotInit
<1>2. QED
  BY <1>1, SnapshotStep, PTL DEF Spec

(***************************************************************************)
(* Every variable keeps its type, and the snapshots that are known stay    *)
(* the first ones, under the safe uses of the manager.                     *)
(***************************************************************************)
THEOREM SnapshotTypes ==
  ASSUME SafeUses
  PROVE  Spec => []TypeOK
<1>1. SInv => TypeOK
  BY DEF SInv
<1>2. QED
  BY <1>1, SnapshotInvariant, PTL

\* Of a snapshot only the dictionary in the map is alive, and its HDT with it.
LEMMA LivePairs ==
  ASSUME SInv, NEW s \in Ids
  PROVE  LiveDicts(s) = {loaded[s]} \ {0} /\ LiveDicts(s) \subseteq LiveHdts(s)
<1>1. loaded[s] \in {0} \cup Pairs /\ 0 \notin Pairs
  BY Types, Numbers DEF SInv
<1>2. \A o \in Pairs, th \in Threads : HoldsDict(th, s, o) => loaded[s] = o
  BY <1>1 DEF SInv, HeldIsLoaded, HoldsDict
<1>3. QED
  BY <1>1, <1>2 DEF LiveDicts, LiveHdts

(***************************************************************************)
(* A dictionary that is asked for is there, a snapshot never has two, and  *)
(* the HDT a dictionary reads stays open for as long as the dictionary is  *)
(* held: under the safe uses, whatever the cache closes.                   *)
(***************************************************************************)
THEOREM OneDictionaryPerSnapshot ==
  ASSUME SafeUses
  PROVE  Spec => []OneDictionary
<1>1. SInv => OneDictionary
  <2>1. SUFFICES ASSUME SInv PROVE OneDictionary
    OBVIOUS
  <2>2. DictionaryReturned
    BY <2>1 DEF SInv, CallOK, DictionaryReturned
  <2>3. ASSUME NEW s \in Ids
        PROVE  Cardinality(LiveDicts(s)) <= 1 /\ LiveDicts(s) \subseteq LiveHdts(s)
    <3>1. LiveDicts(s) = {} \/ LiveDicts(s) = {loaded[s]}
      BY <2>1, LivePairs
    <3>2. Cardinality({}) = 0 /\ Cardinality({loaded[s]}) = 1
      BY FS_EmptySet, FS_Singleton
    <3>3. QED
      BY <2>1, <3>1, <3>2, LivePairs
  <2>4. QED
    BY <2>2, <2>3 DEF OneDictionary
<1>2. QED
  BY <1>1, SnapshotInvariant, PTL

(***************************************************************************)
(* Every string that was inserted is known to the dictionary of its        *)
(* snapshot, or to the file while the dictionary is closed.                *)
(***************************************************************************)
THEOREM NoInsertForgotten ==
  ASSUME SafeUses
  PROVE  Spec => []InsertsKept
<1>1. SInv => InsertsKept
  <2>1. SUFFICES ASSUME SInv, NEW s \in Ids
                 PROVE  /\ \A o \in LiveDicts(s) : entries[s][o] = inserted[s]
                        /\ LiveDicts(s) = {} => onDisk[s] = inserted[s]
    BY DEF InsertsKept
  <2>2. LiveDicts(s) = {loaded[s]} \ {0}
    BY <2>1, LivePairs
  <2>3. inserted[s] = IF loaded[s] # 0 THEN entries[s][loaded[s]] ELSE onDisk[s]
    BY <2>1 DEF SInv, InsertsLast
  <2>4. QED
    BY <2>2, <2>3
<1>2. QED
  BY <1>1, SnapshotInvariant, PTL

(***************************************************************************)
(* The cache lists every open snapshot once, and never outgrows both its   *)
(* limit and the number of threads.                                        *)
(***************************************************************************)
THEOREM SnapshotCacheBounded ==
  ASSUME SafeUses
  PROVE  Spec => []CacheBounded
<1>1. SInv => CacheBounded
  BY DEF SInv
<1>2. QED
  BY <1>1, SnapshotInvariant, PTL
=================================================================================
