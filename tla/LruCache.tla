------------------------------- MODULE LruCache -------------------------------
(***************************************************************************)
(* update_cache_internal of the patch tree manager: a list of the open     *)
(* ids, the last accessed one in front.  When it has reached its limit,    *)
(* entries are taken from the back: the first that can be closed is, the   *)
(* ones before it are put back in front, and each is tried once.           *)
(***************************************************************************)
EXTENDS Naturals, SequencesExt

\* The positions of the entries that can be closed.
Closeable(list, free) == {i \in 1 .. Len(list) : list[i] \in free}

\* The entry that is closed, as a set of at most one id; free are the ids that can be.
ClosedFromBack(list, free, limit) ==                                      \* mutant
  IF Len(list) >= limit /\ list[Len(list)] \in free THEN {list[Len(list)]} ELSE {}
Closed(list, free, limit) ==
  IF Len(list) >= limit /\ Closeable(list, free) # {}
  THEN {list[Max(Closeable(list, free))]}
  ELSE {}

\* The list without that entry, turned to where it was.
Turned(list, free, limit) ==
  IF Closed(list, free, limit) = {} THEN list
  ELSE LET i == Max(Closeable(list, free))
       IN SubSeq(list, i + 1, Len(list)) \o SubSeq(list, 1, i - 1)

\* The entry that lru_map points at, the last one put in front, moves to the front.
InFrontTwice(list, id) == <<id>> \o list                                  \* mutant
InFront(list, id) ==
  LET at == {i \in DOMAIN list : list[i] = id}
  IN <<id>> \o IF at = {} THEN list ELSE RemoveAt(list, Min(at))
===============================================================================
