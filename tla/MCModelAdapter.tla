--------------------------- MODULE MCModelAdapter ---------------------------
(***************************************************************************)
(* Instance of the model adapters for TLC.                                 *)
(***************************************************************************)
EXTENDS ModelAdapter, TLC

Symmetry == Permutations(Caller)
=============================================================================
