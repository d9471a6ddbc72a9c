--------------------------- MODULE MCMaterialize ---------------------------
(* Callers of one directory, in one process or in two.                     *)
EXTENDS Materialize

CONSTANTS a, b, c

OneProcess == [x \in Caller |-> "p"]
Apart == [x \in Caller |-> x]
=============================================================================
