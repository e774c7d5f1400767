---------------------------- MODULE VersionedStore ----------------------------
(***************************************************************************)
(* What one delta chain promises: version 1 is the snapshot, every append  *)
(* hands over a delta and, when it is done, publishes exactly one more     *)
(* version, the previous one with the delta applied.  Published versions   *)
(* never change.                                                           *)
(***************************************************************************)
EXTENDS Sequences, Naturals

CONSTANT Triples

VARIABLES versions,   \* the published versions, as sets of triples
          busy,       \* an append is in progress
          adds, dels  \* its delta

vars == <<versions, busy, adds, dels>>

Latest == versions[Len(versions)]

Init ==
  /\ \E snapshot \in SUBSET Triples : versions = <<snapshot>>
  /\ busy = FALSE
  /\ adds = {} /\ dels = {}

\* An addition is new in, a deletion is taken from, the latest version.
Begin ==
  /\ ~busy
  /\ busy' = TRUE
  /\ adds' \in SUBSET (Triples \ Latest)
  /\ dels' \in SUBSET Latest
  /\ UNCHANGED versions

Publish ==
  /\ busy
  /\ busy' = FALSE
  /\ versions' = Append(versions, (Latest \ dels) \cup adds)
  /\ adds' = {} /\ dels' = {}

Next == Begin \/ Publish

Spec == Init /\ [][Next]_vars
===============================================================================
