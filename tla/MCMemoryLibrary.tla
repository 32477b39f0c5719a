--------------------------- MODULE MCMemoryLibrary ---------------------------
(***************************************************************************)
(* Instance of the in-memory source library for TLC.                       *)
(***************************************************************************)
EXTENDS MemoryLibrary, TLC

Symmetry == Permutations(Source) \cup Permutations(Text)
=============================================================================
