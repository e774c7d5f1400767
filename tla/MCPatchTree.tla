---------------------------- MODULE MCPatchTree ----------------------------
(***************************************************************************)
(* Instances of PatchTree.  Three triples, such that every two share a     *)
(* component and the POS order of the first and the third is not their SPO *)
(* order.  Two where only the trees matter.                                *)
(***************************************************************************)
EXTENDS VersionMaterialized, ValueSerialization

MCTriples == 1 .. 3

MCSubject   == <<1, 1, 2>>
MCPredicate == <<1, 2, 1>>
MCObject    == <<2, 1, 1>>

MCTwoTriples == 1 .. 2

MCTwoSubjects   == <<1, 1>>
MCTwoPredicates == <<1, 2>>
MCTwoObjects    == <<2, 1>>
=============================================================================
