------------------------- MODULE MCTopologicalSort -------------------------
(***************************************************************************)
(* Every depends_on map over three services and one name that no service   *)
(* has, with at most two entries each: self-dependencies, cycles through   *)
(* two and three services and dangling entries included.                   *)
(***************************************************************************)
EXTENDS TopologicalSort, FiniteSets

CONSTANTS Services, Ghost

MCNames == Services \union {Ghost}
MCGraphs == [Services -> {D \in SUBSET MCNames : Cardinality(D) <= 2}]

============================================================================
