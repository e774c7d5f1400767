---------------------------- MODULE MCSnapshotManager ----------------------------
(***************************************************************************)
(* Instances of SnapshotManager.  Either calls do not overlap, or a thread *)
(* asks for a dictionary only while it holds the snapshot, as              *)
(* get_version_materialized does; and neither, as in get_delta_materialized*)
(* and get_version when two threads query.                                 *)
(***************************************************************************)
EXTENDS SnapshotManager, TLC

Safe == {[concurrent |-> FALSE, dictionaryFirst |-> TRUE],
         [concurrent |-> TRUE, dictionaryFirst |-> FALSE]}
Racing == {[concurrent |-> TRUE, dictionaryFirst |-> TRUE]}

\* Threads do the same and are only compared with each other.
Interchangeable == Permutations(Threads)
=============================================================================
