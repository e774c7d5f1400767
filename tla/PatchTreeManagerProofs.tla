------------------------- MODULE PatchTreeManagerProofs -------------------------
(***************************************************************************)
(* The trees that are open, for any number of threads, patches and any     *)
(* size of the cache: the object a thread holds is the one in the map,     *)
(* which is why a tree never has two, why the last append is never         *)
(* forgotten, and why the cache closes whatever it may.                    *)
(***************************************************************************)
EXTENDS PatchTreeManager, CollectionProofs

-----------------------------------------------------------------------------
(* The inductive invariant *)

\* A thread holds the object that is in the map: the cache closes no tree that is held.
HeldIsLoaded == \A th \in Threads : object[th] # 0 => loaded[tree[th]] = object[th]

\* One thread appends, and there is a patch to append.
OneAppender ==
  /\ \A th, other \in Threads : append[th] /\ append[other] => th = other
  /\ \A th \in Threads : append[th] => nextPatch \in Ids

\* The last patch of a tree is known by its object, or by its file when it is not open.
LastPatchKept ==
  \A id \in Ids : appended[id] # 0 =>
    IF loaded[id] # 0 THEN inMemory[id][loaded[id]] = appended[id]
                      ELSE onDisk[id] = appended[id]

MInv ==
  /\ TypeOK /\ HeldIsLoaded /\ OneAppender /\ LastPatchKept
  /\ ListIsLoaded /\ CacheBounded

-----------------------------------------------------------------------------
(* The objects *)

\* What the assumption says of the constants.
LEMMA Numbers ==
  /\ Cardinality(Threads) \in Nat
  /\ MaxLoaded \in Nat /\ MaxLoaded >= 2
  /\ LastPatch \in Nat /\ LastPatch >= 1
  /\ Objects \subseteq Nat \ {0} /\ Objects # {} /\ Ids \subseteq Nat \ {0}
BY ManagerAssumption, FS_CardinalityType DEF Objects, Ids

\* The limit of CacheBounded.
LEMMA Limit ==
  /\ MaxLoaded <= Max({MaxLoaded, Cardinality(Threads)})
  /\ Cardinality(Threads) <= Max({MaxLoaded, Cardinality(Threads)})
  /\ Max({MaxLoaded, Cardinality(Threads)}) \in Nat
BY Numbers, MaxOfTwo

\* Nobody else has an object of a tree: it is in the map, or there is none.
LEMMA LiveIsLoaded ==
  ASSUME TypeOK, HeldIsLoaded, NEW id \in Ids
  PROVE  Live(id) = {loaded[id]} \ {0}
<1>1. loaded[id] \in {0} \cup Objects /\ 0 \notin Objects
  BY Numbers DEF TypeOK
<1>2. \A o \in Objects, th \in Threads : Holds(th, id, o) => loaded[id] = o
  BY <1>1 DEF HeldIsLoaded, Holds
<1>3. QED
  BY <1>1, <1>2 DEF Live

\* The object of a tree after a call is that of the map, or a new one.
LEMMA OpenedFacts ==
  ASSUME TypeOK, HeldIsLoaded, NEW id \in Ids
  PROVE  /\ Opened(id) \in Objects
         /\ loaded[id] # 0 => Opened(id) = loaded[id]
         /\ loaded[id] = 0 => Opened(id) # loaded[id]
<1>1. CASE loaded[id] # 0
  BY <1>1 DEF Opened, TypeOK
<1>2. CASE loaded[id] = 0
  <2>1. Objects \ Live(id) = Objects
    BY <1>2, LiveIsLoaded
  <2>2. Opened(id) = Min(Objects)
    BY <1>2, <2>1 DEF Opened
  <2>3. Min(Objects) \in Objects
    BY Numbers, MinOfNat
  <2>4. QED
    BY <1>2, <2>2, <2>3, Numbers
<1>3. QED
  BY <1>1, <1>2

\* The tree of a patch is one that is known.
LEMMA LargestKnown ==
  ASSUME NEW ids, ids \subseteq Ids, ids # {}
  PROVE  Max(ids) \in ids
<1>1. LastPatch \in Nat /\ ids \subseteq Nat /\ \A x \in ids : x <= LastPatch
  BY Numbers DEF Ids
<1>2. QED
  BY <1>1, MaxOfBounded

-----------------------------------------------------------------------------
(* load_patch_tree: what both of its callers do to the map and the cache *)

\* load_patch_tree opens one tree and closes only trees that nobody holds.
LEMMA LoadTreeKeeps ==
  ASSUME MInv, NEW th \in Threads, tree[th] \in Ids, object[th] = 0, LoadTree(tree[th])
  PROVE  /\ known' \subseteq Ids
         /\ loaded' \in [Ids -> {0} \cup Objects]
         /\ inMemory' \in [Ids -> [Objects -> 0 .. LastPatch]]
         /\ onDisk' \in [Ids -> 0 .. LastPatch]
         /\ loaded'[tree[th]] = Opened(tree[th])
         /\ \A other \in Threads : object[other] # 0 => loaded'[tree[other]] = object[other]
         /\ \A i \in Ids : appended[i] # 0 =>
              IF loaded'[i] # 0 THEN inMemory'[i][loaded'[i]] = appended[i]
                                ELSE onDisk'[i] = appended[i]
         /\ lru' \in Seq(Ids) /\ Listed(lru') = {i \in Ids : loaded'[i] # 0} /\ Distinct(lru')
         /\ CacheBounded'
<1>1. PICK id : id = tree[th]
  OBVIOUS
<1>2. PICK free : free = {other \in Ids : CanClose(other, id)}
  OBVIOUS
<1>3. PICK closed : closed = Closed(lru, free, MaxLoaded)
  OBVIOUS
<1>4. PICK o : o = Opened(id)
  OBVIOUS
<1>5. /\ known' = known \cup {id}
      /\ lru' = InFront(Turned(lru, free, MaxLoaded), id)
      /\ loaded' = [other \in Ids |-> IF other = id THEN o
                                      ELSE IF other \in closed THEN 0 ELSE loaded[other]]
      /\ inMemory' = IF o = loaded[id] THEN inMemory
                     ELSE [inMemory EXCEPT ![id][o] = ReadMetadata(id)]
      /\ onDisk' = [other \in Ids |-> IF other \in closed THEN inMemory[other][loaded[other]]
                                      ELSE onDisk[other]]
  BY <1>1, <1>2, <1>3, <1>4 DEF LoadTree
<1>6. /\ known \subseteq Ids /\ id \in Ids
      /\ loaded \in [Ids -> {0} \cup Objects]
      /\ inMemory \in [Ids -> [Objects -> 0 .. LastPatch]]
      /\ onDisk \in [Ids -> 0 .. LastPatch]
      /\ appended \in [Ids -> 0 .. LastPatch]
      /\ tree \in [Threads -> {0} \cup Ids] /\ object \in [Threads -> {0} \cup Objects]
      /\ \A other \in Threads : object[other] # 0 => tree[other] \in Ids
      /\ 0 \notin Objects
  BY <1>1, Numbers DEF MInv, TypeOK
<1>7. /\ o \in Objects /\ o # 0
      /\ loaded[id] # 0 => o = loaded[id]
      /\ loaded[id] = 0 => o # loaded[id]
  BY <1>4, <1>6, OpenedFacts DEF MInv
<1>8. lru \in Seq(Ids) /\ Distinct(lru) /\ Listed(lru) = {i \in Ids : loaded[i] # 0}
  BY DEF MInv, TypeOK, ListIsLoaded, Distinct, Listed
<1>9. PICK turned : turned = Turned(lru, free, MaxLoaded)
  OBVIOUS
<1>10. /\ closed \subseteq free \cap Listed(lru)
       /\ turned \in Seq(Ids) /\ Distinct(turned) /\ Listed(turned) = Listed(lru) \ closed
       /\ \/ Len(turned) = Len(lru) - 1
          \/ Len(turned) = Len(lru) /\ (Len(lru) < MaxLoaded \/ free \cap Listed(lru) = {})
  <2>1. MaxLoaded \in Nat /\ MaxLoaded > 0
    BY Numbers
  <2>2. QED
    BY <1>3, <1>8, <1>9, <2>1, TurnedFacts
<1>11. \A i \in closed : /\ i \in Ids /\ i # id /\ loaded[i] \in Objects
                         /\ \A other \in Threads : ~(tree[other] = i /\ object[other] = loaded[i])
  BY <1>2, <1>6, <1>10 DEF CanClose, Holds
<1>12. known' \subseteq Ids /\ loaded' \in [Ids -> {0} \cup Objects] /\ loaded'[id] = o
  BY <1>5, <1>6, <1>7
<1>13. ReadMetadata(id) \in 0 .. LastPatch
  BY <1>6, Numbers DEF ReadMetadata, Ids
<1>14. inMemory' \in [Ids -> [Objects -> 0 .. LastPatch]]
  BY <1>5, <1>6, <1>7, <1>13
<1>15. onDisk' \in [Ids -> 0 .. LastPatch]
  BY <1>5, <1>6, <1>11
<1>16. ASSUME NEW other \in Threads, object[other] # 0
       PROVE  loaded'[tree[other]] = object[other]
  <2>1. loaded[tree[other]] = object[other] /\ tree[other] \in Ids
    BY <1>6, <1>16 DEF MInv, HeldIsLoaded
  <2>2. tree[other] \notin closed
    BY <1>11, <2>1
  <2>3. QED
    BY <1>5, <1>7, <1>16, <2>1, <2>2
<1>17. ASSUME NEW i \in Ids, appended[i] # 0
       PROVE  IF loaded'[i] # 0 THEN inMemory'[i][loaded'[i]] = appended[i]
                                ELSE onDisk'[i] = appended[i]
  <2>1. IF loaded[i] # 0 THEN inMemory[i][loaded[i]] = appended[i] ELSE onDisk[i] = appended[i]
    BY <1>17 DEF MInv, LastPatchKept
  <2>2. CASE i = id
    <3>1. loaded'[i] = o /\ o # 0
      BY <1>7, <1>12, <2>2
    <3>2. CASE loaded[id] # 0
      BY <1>5, <1>7, <2>1, <2>2, <3>1, <3>2
    <3>3. CASE loaded[id] = 0
      <4>1. ReadMetadata(id) = appended[i]
        BY <1>17, <2>1, <2>2, <3>3 DEF ReadMetadata
      <4>2. inMemory' = [inMemory EXCEPT ![id][o] = ReadMetadata(id)]
        BY <1>5, <1>7, <3>3
      <4>3. inMemory'[id][o] = ReadMetadata(id)
        BY <1>6, <1>7, <4>2
      <4>4. QED
        BY <2>2, <3>1, <4>1, <4>3
    <3>4. QED
      BY <3>2, <3>3
  <2>3. CASE i # id /\ i \in closed
    <3>1. loaded'[i] = 0 /\ onDisk'[i] = inMemory[i][loaded[i]]
      BY <1>5, <2>3
    <3>2. loaded[i] # 0
      BY <1>6, <1>11, <2>3
    <3>3. QED
      BY <2>1, <3>1, <3>2
  <2>4. CASE i # id /\ i \notin closed
    <3>1. loaded'[i] = loaded[i] /\ onDisk'[i] = onDisk[i] /\ inMemory'[i] = inMemory[i]
      BY <1>5, <1>6, <2>4
    <3>2. QED
      BY <2>1, <3>1
  <2>5. QED
    BY <2>2, <2>3, <2>4
<1>18. /\ lru' \in Seq(Ids) /\ Distinct(lru') /\ Listed(lru') = Listed(turned) \cup {id}
       /\ Len(lru') = IF id \in Listed(turned) THEN Len(turned) ELSE Len(turned) + 1
  BY <1>5, <1>6, <1>9, <1>10, InFrontFacts
<1>19. Listed(lru') = {i \in Ids : loaded'[i] # 0}
  <2>1. Listed(lru') = (Listed(lru) \ closed) \cup {id}
    BY <1>10, <1>18
  <2>2. \A i \in Ids : loaded'[i] # 0 <=> i = id \/ (loaded[i] # 0 /\ i \notin closed)
    BY <1>5, <1>6, <1>7, <1>11
  <2>3. QED
    BY <1>6, <1>8, <2>1, <2>2
<1>20. CacheBounded'
  <2>1. Len(lru) \in Nat /\ Len(lru) <= Max({MaxLoaded, Cardinality(Threads)})
    BY <1>8, LenProperties DEF MInv, CacheBounded
  <2>2. CASE Len(turned) = Len(lru) - 1
    BY <1>18, <2>1, <2>2, Limit DEF CacheBounded
  <2>3. CASE Len(turned) = Len(lru) /\ Len(lru) < MaxLoaded
    BY <1>18, <2>1, <2>3, Limit, Numbers DEF CacheBounded
  <2>4. CASE Len(turned) = Len(lru) /\ id \in Listed(turned)
    BY <1>18, <2>1, <2>4, Limit DEF CacheBounded
  <2>5. CASE Len(turned) = Len(lru) /\ free \cap Listed(lru) = {} /\ id \notin Listed(turned)
    <3>1. id \notin Listed(lru)
      BY <1>10, <1>11, <2>5
    <3>2. ASSUME NEW x \in Listed(lru)
          PROVE  \E other \in Threads \ {th} : tree[other] = x
      <4>1. x \in Ids /\ loaded[x] # 0 /\ x # id /\ x \notin free
        BY <1>8, <2>5, <3>1, <3>2
      <4>2. \E other \in Threads : tree[other] = x /\ object[other] = loaded[x]
        BY <1>2, <4>1 DEF CanClose, Holds
      <4>3. QED
        BY <1>1, <4>1, <4>2
    <3>3. IsFiniteSet(Threads \ {th}) /\ Cardinality(Threads \ {th}) = Cardinality(Threads) - 1
      BY ManagerAssumption, FS_RemoveElement
    <3>4. Len(lru) <= Cardinality(Threads \ {th})
      BY <1>8, <3>2, <3>3, NoLongerThanHolders
    <3>5. QED
      BY <1>18, <2>1, <2>5, <3>3, <3>4, Limit, Numbers DEF CacheBounded
  <2>6. QED
    BY <1>10, <2>2, <2>3, <2>4, <2>5
<1>21. QED
  BY <1>1, <1>4, <1>12, <1>14, <1>15, <1>16, <1>17, <1>18, <1>19, <1>20

-----------------------------------------------------------------------------
(* The threads *)

\* What the steps of a call that leave the map and the cache alone keep.
LEMMA CallKeeps ==
  ASSUME MInv, NEW th \in Threads, NEW step, NEW id, NEW o, Goto(th, step, id, o),
         UNCHANGED <<cache, appended>>,
         nextPatch' \in 1 .. LastPatch + 1, append' \in [Threads -> BOOLEAN], OneAppender',
         step \in {"idle", "found", "constructing", "loading", "using"},
         id \in {0} \cup Ids, o \in {0} \cup Objects,
         step = "idle" <=> id = 0, step = "using" <=> o # 0,
         o # 0 => loaded[id] = o
  PROVE  MInv'
<1>1. TypeOK'
  BY DEF MInv, TypeOK, Goto, cache
<1>2. HeldIsLoaded'
  BY DEF MInv, TypeOK, HeldIsLoaded, Goto, cache
<1>3. LastPatchKept' /\ ListIsLoaded' /\ CacheBounded'
  BY DEF MInv, LastPatchKept, ListIsLoaded, CacheBounded, cache
<1>4. QED
  BY <1>1, <1>2, <1>3 DEF MInv

\* What a call that loads a tree keeps, whether or not it holds the object then.
LEMMA LoadKeeps ==
  ASSUME MInv, NEW th \in Threads, tree[th] \in Ids, object[th] = 0, LoadTree(tree[th]),
         NEW step, NEW o, Goto(th, step, tree[th], o),
         \/ step = "using" /\ o = Opened(tree[th])
         \/ step = "found" /\ o = 0,
         UNCHANGED <<appended, nextPatch, append>>
  PROVE  MInv'
<1>1. /\ known' \subseteq Ids
      /\ loaded' \in [Ids -> {0} \cup Objects]
      /\ inMemory' \in [Ids -> [Objects -> 0 .. LastPatch]]
      /\ onDisk' \in [Ids -> 0 .. LastPatch]
      /\ loaded'[tree[th]] = Opened(tree[th])
      /\ \A other \in Threads : object[other] # 0 => loaded'[tree[other]] = object[other]
      /\ \A i \in Ids : appended[i] # 0 =>
           IF loaded'[i] # 0 THEN inMemory'[i][loaded'[i]] = appended[i]
                             ELSE onDisk'[i] = appended[i]
      /\ lru' \in Seq(Ids) /\ Listed(lru') = {i \in Ids : loaded'[i] # 0} /\ Distinct(lru')
      /\ CacheBounded'
  BY LoadTreeKeeps
<1>2. Opened(tree[th]) \in Objects /\ 0 \notin Objects
  BY OpenedFacts, Numbers DEF MInv
<1>3. TypeOK'
  BY <1>1, <1>2, Numbers DEF MInv, TypeOK, Goto
<1>4. HeldIsLoaded'
  BY <1>1, <1>2 DEF MInv, TypeOK, HeldIsLoaded, Goto
<1>5. OneAppender' /\ LastPatchKept' /\ ListIsLoaded'
  BY <1>1 DEF MInv, OneAppender, LastPatchKept, ListIsLoaded, Listed, Distinct
<1>6. QED
  BY <1>1, <1>3, <1>4, <1>5 DEF MInv

\* The initial states satisfy the invariant.
LEMMA ManagerInit == Init => MInv
<1>1. SUFFICES ASSUME Init PROVE MInv
  OBVIOUS
<1>2. TypeOK
  BY <1>1, Numbers DEF Init, TypeOK, Ids
<1>3. HeldIsLoaded /\ OneAppender /\ LastPatchKept
  BY <1>1 DEF Init, HeldIsLoaded, OneAppender, LastPatchKept
<1>4. ListIsLoaded
  BY <1>1 DEF Init, ListIsLoaded
<1>5. CacheBounded
  BY <1>1, Limit DEF Init, CacheBounded
<1>6. QED
  BY <1>2, <1>3, <1>4, <1>5 DEF MInv

\* Every step keeps the invariant.
LEMMA ManagerStep == MInv /\ [Next]_vars => MInv'
<1>1. SUFFICES ASSUME MInv, [Next]_vars PROVE MInv'
  OBVIOUS
<1>t. /\ known \subseteq Ids /\ nextPatch \in 1 .. LastPatch + 1 /\ append \in [Threads -> BOOLEAN]
      /\ loaded \in [Ids -> {0} \cup Objects] /\ 0 \notin Ids /\ 0 \notin Objects
      /\ tree \in [Threads -> {0} \cup Ids] /\ object \in [Threads -> {0} \cup Objects]
      /\ \A th \in Threads : /\ pc[th] = "idle" <=> tree[th] = 0
                             /\ pc[th] = "using" <=> object[th] # 0
  BY <1>1, Numbers DEF MInv, TypeOK
<1>2. CASE UNCHANGED vars
  BY <1>1, <1>2 DEF vars, MInv, TypeOK, HeldIsLoaded, OneAppender, LastPatchKept,
                    ListIsLoaded, CacheBounded
<1>3. ASSUME NEW th \in Threads, Lookup(th) PROVE MInv'
  <2>1. PICK patch \in Ids : /\ TreesUpTo(patch) # {}
                             /\ Goto(th, "found", TreeOf(patch), 0)
    BY <1>3 DEF Lookup
  <2>2. TreeOf(patch) \in Ids
    BY <1>t, <2>1, LargestKnown DEF TreeOf, TreesUpTo
  <2>3. OneAppender' /\ UNCHANGED <<cache, appended, nextPatch, append>>
    BY <1>1, <1>3 DEF Lookup, MInv, OneAppender
  <2>4. QED
    BY <1>1, <1>t, <2>1, <2>2, <2>3, CallKeeps
<1>4. ASSUME NEW th \in Threads, AppendToLast(th) PROVE MInv'
  <2>1. TreeOf(nextPatch) \in Ids
    <3>1. TreesUpTo(nextPatch) \subseteq Ids /\ TreesUpTo(nextPatch) # {}
      BY <1>t, <1>4 DEF AppendToLast, TreesUpTo
    <3>2. QED
      BY <3>1, LargestKnown DEF TreeOf
  <2>2. /\ Goto(th, "found", TreeOf(nextPatch), 0)
        /\ append' = [append EXCEPT ![th] = TRUE]
        /\ UNCHANGED <<cache, appended, nextPatch>>
        /\ \A other \in Threads : ~append[other]
        /\ nextPatch \in Ids
    BY <1>4 DEF AppendToLast
  <2>3. OneAppender' /\ append' \in [Threads -> BOOLEAN]
    BY <1>t, <2>2 DEF OneAppender
  <2>4. QED
    BY <1>1, <1>t, <2>1, <2>2, <2>3, CallKeeps
<1>5. ASSUME NEW th \in Threads, AppendToNext(th) PROVE MInv'
  <2>1. /\ Goto(th, "constructing", nextPatch, 0)
        /\ append' = [append EXCEPT ![th] = TRUE]
        /\ UNCHANGED <<cache, appended, nextPatch>>
        /\ \A other \in Threads : ~append[other]
        /\ nextPatch \in Ids
    BY <1>5 DEF AppendToNext
  <2>2. OneAppender' /\ append' \in [Threads -> BOOLEAN]
    BY <1>t, <2>1 DEF OneAppender
  <2>3. QED
    BY <1>1, <1>t, <2>1, <2>2, CallKeeps
<1>6. ASSUME NEW th \in Threads, Get(th) PROVE MInv'
  <2>1. OneAppender' /\ UNCHANGED <<cache, appended, nextPatch, append>>
    BY <1>1, <1>6 DEF Get, MInv, OneAppender
  <2>2. tree[th] \in Ids
    BY <1>t, <1>6 DEF Get
  <2>3. CASE loaded[tree[th]] # 0
    <3>1. Goto(th, "using", tree[th], loaded[tree[th]])
      BY <1>6, <2>3 DEF Get
    <3>2. QED
      BY <1>1, <1>t, <2>1, <2>2, <2>3, <3>1, CallKeeps
  <2>4. CASE loaded[tree[th]] = 0
    <3>1. Goto(th, "loading", tree[th], 0)
      BY <1>6, <2>4 DEF Get
    <3>2. QED
      BY <1>1, <1>t, <2>1, <2>2, <3>1, CallKeeps
  <2>5. QED
    BY <2>3, <2>4
<1>7. ASSUME NEW th \in Threads, GetLast(th) PROVE MInv'
  <2>1. OneAppender' /\ UNCHANGED <<cache, appended, nextPatch, append>>
    BY <1>1, <1>7 DEF GetLast, MInv, OneAppender
  <2>2. PICK id : id = Max(known)
    OBVIOUS
  <2>3. id \in Ids
    BY <1>t, <1>7, <2>2, LargestKnown DEF GetLast
  <2>4. CASE loaded[id] # 0
    <3>1. Goto(th, "using", id, loaded[id])
      BY <1>7, <2>2, <2>4 DEF GetLast
    <3>2. QED
      BY <1>1, <1>t, <2>1, <2>3, <2>4, <3>1, CallKeeps
  <2>5. CASE loaded[id] = 0
    <3>1. Goto(th, "loading", id, 0)
      BY <1>7, <2>2, <2>5 DEF GetLast
    <3>2. QED
      BY <1>1, <1>t, <2>1, <2>3, <3>1, CallKeeps
  <2>6. QED
    BY <2>4, <2>5
<1>8. ASSUME NEW th \in Threads, Load(th) PROVE MInv'
  <2>1. tree[th] \in Ids /\ object[th] = 0
    BY <1>t, <1>8 DEF Load
  <2>2. QED
    BY <1>1, <1>8, <2>1, LoadKeeps DEF Load
<1>9. ASSUME NEW th \in Threads, Construct(th) PROVE MInv'
  <2>1. tree[th] \in Ids /\ object[th] = 0
    BY <1>t, <1>9 DEF Construct
  <2>2. QED
    BY <1>1, <1>9, <2>1, LoadKeeps DEF Construct
<1>10. ASSUME NEW th \in Threads, AppendPatch(th) PROVE MInv'
  <2>1. /\ pc[th] = "using" /\ append[th]
        /\ inMemory' = [inMemory EXCEPT ![tree[th]][object[th]] = nextPatch]
        /\ appended' = [appended EXCEPT ![tree[th]] = nextPatch]
        /\ nextPatch' = nextPatch + 1
        /\ append' = [append EXCEPT ![th] = FALSE]
        /\ UNCHANGED <<known, loaded, lru, onDisk, pc, tree, object>>
    BY <1>10 DEF AppendPatch
  <2>2. /\ tree[th] \in Ids /\ object[th] \in Objects /\ loaded[tree[th]] = object[th]
        /\ nextPatch \in 1 .. LastPatch /\ LastPatch \in Nat
    BY <1>1, <1>t, <2>1, Numbers DEF MInv, HeldIsLoaded, OneAppender, Ids
  <2>3. /\ inMemory \in [Ids -> [Objects -> 0 .. LastPatch]]
        /\ appended \in [Ids -> 0 .. LastPatch]
    BY <1>1 DEF MInv, TypeOK
  <2>4. inMemory' \in [Ids -> [Objects -> 0 .. LastPatch]] /\ appended' \in [Ids -> 0 .. LastPatch]
    BY <2>1, <2>2, <2>3
  <2>5. nextPatch' \in 1 .. LastPatch + 1 /\ append' \in [Threads -> BOOLEAN]
    BY <1>t, <2>1, <2>2
  <2>6. TypeOK'
    BY <1>1, <2>1, <2>4, <2>5 DEF MInv, TypeOK
  <2>7. OneAppender'
    <3>1. \A other \in Threads : ~append'[other]
      BY <1>1, <1>t, <2>1 DEF MInv, OneAppender
    <3>2. QED
      BY <3>1 DEF OneAppender
  <2>8. LastPatchKept'
    <3>1. ASSUME NEW i \in Ids, appended'[i] # 0
          PROVE  IF loaded'[i] # 0 THEN inMemory'[i][loaded'[i]] = appended'[i]
                                   ELSE onDisk'[i] = appended'[i]
      <4>1. CASE i = tree[th]
        BY <1>t, <2>1, <2>2, <2>3, <4>1
      <4>2. CASE i # tree[th]
        <5>1. appended'[i] = appended[i] /\ inMemory'[i] = inMemory[i]
          BY <2>1, <2>2, <2>3, <4>2
        <5>2. QED
          BY <1>1, <2>1, <3>1, <5>1 DEF MInv, LastPatchKept
      <4>3. QED
        BY <4>1, <4>2
    <3>2. QED
      BY <3>1 DEF LastPatchKept
  <2>9. HeldIsLoaded' /\ ListIsLoaded' /\ CacheBounded'
    BY <1>1, <2>1 DEF MInv, HeldIsLoaded, ListIsLoaded, CacheBounded
  <2>10. QED
    BY <2>6, <2>7, <2>8, <2>9 DEF MInv
<1>11. ASSUME NEW th \in Threads, Release(th) PROVE MInv'
  <2>1. loaded[tree[th]] = object[th]
    BY <1>1, <1>t, <1>11 DEF Release, MInv, HeldIsLoaded
  <2>2. Goto(th, "idle", 0, 0) /\ UNCHANGED <<cache, appended, nextPatch, append>>
    BY <1>11, <2>1 DEF Release, cache
  <2>3. OneAppender'
    BY <1>1, <2>2 DEF MInv, OneAppender
  <2>4. QED
    BY <1>1, <1>t, <2>2, <2>3, CallKeeps
<1>12. QED
  BY <1>1, <1>2, <1>3, <1>4, <1>5, <1>6, <1>7, <1>8, <1>9, <1>10, <1>11 DEF Next

-----------------------------------------------------------------------------
(* The theorems *)

\* The invariant holds in every reachable state.
LEMMA ManagerInvariant == Spec => []MInv
BY ManagerInit, ManagerStep, PTL DEF Spec

(***************************************************************************)
(* Every variable keeps its type, for any number of threads and patches.   *)
(***************************************************************************)
THEOREM ManagerTypes == Spec => []TypeOK
<1>1. MInv => TypeOK
  BY DEF MInv
<1>2. QED
  BY <1>1, ManagerInvariant, PTL

(***************************************************************************)
(* A tree never has two objects, however threads look it up, load it and   *)
(* let go of it, and whatever the cache closes in between.                 *)
(***************************************************************************)
THEOREM OneObjectPerTree == Spec => []OneObject
<1>1. MInv => OneObject
  <2>1. SUFFICES ASSUME MInv, NEW id \in Ids PROVE Cardinality(Live(id)) <= 1
    BY DEF OneObject
  <2>2. Live(id) = {} \/ Live(id) = {loaded[id]}
    BY <2>1, LiveIsLoaded DEF MInv
  <2>3. Cardinality({}) = 0 /\ Cardinality({loaded[id]}) = 1
    BY FS_EmptySet, FS_Singleton
  <2>4. QED
    BY <2>2, <2>3
<1>2. QED
  BY <1>1, ManagerInvariant, PTL

(***************************************************************************)
(* Every object of a tree, and its file once there is none, names the last *)
(* patch that was appended to it.                                          *)
(***************************************************************************)
THEOREM NoAppendForgotten == Spec => []NothingForgotten
<1>1. MInv => NothingForgotten
  <2>1. SUFFICES ASSUME MInv, NEW id \in Ids, appended[id] # 0
                 PROVE  /\ \A o \in Live(id) : inMemory[id][o] = appended[id]
                        /\ Live(id) = {} => onDisk[id] = appended[id]
    BY DEF NothingForgotten
  <2>2. Live(id) = {loaded[id]} \ {0}
    BY <2>1, LiveIsLoaded DEF MInv
  <2>3. QED
    BY <2>1, <2>2 DEF MInv, LastPatchKept
<1>2. QED
  BY <1>1, ManagerInvariant, PTL

(***************************************************************************)
(* The list of the cache names exactly the open trees, each once.          *)
(***************************************************************************)
THEOREM CacheListsTheOpen == Spec => []ListIsLoaded
<1>1. MInv => ListIsLoaded
  BY DEF MInv
<1>2. QED
  BY <1>1, ManagerInvariant, PTL

(***************************************************************************)
(* The cache never outgrows both its limit and the number of threads.      *)
(***************************************************************************)
THEOREM CacheStaysBounded == Spec => []CacheBounded
<1>1. MInv => CacheBounded
  BY DEF MInv
<1>2. QED
  BY <1>1, ManagerInvariant, PTL
=================================================================================
