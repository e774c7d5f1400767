------------------------ MODULE MCVersionMaterialized ------------------------
(***************************************************************************)
(* Instances of PatchTree with queries.  Three triples, such that every    *)
(* two share a component and the POS order of the first and the third is   *)
(* not their SPO order.  Four: three with one predicate and object, and    *)
(* one between them with another predicate.                                *)
(***************************************************************************)
EXTENDS VersionsOfTriple, PatchInput

MCTriples == 1 .. 3

MCSubject   == <<1, 1, 2>>
MCPredicate == <<1, 2, 1>>
MCObject    == <<2, 1, 1>>

MCApartTriples == 1 .. 4

MCApartSubject   == <<1, 2, 2, 3>>
MCApartPredicate == <<1, 1, 2, 1>>
MCApartObject    == <<1, 1, 1, 1>>
===============================================================================
