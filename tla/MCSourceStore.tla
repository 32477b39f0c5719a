---------------------------- MODULE MCSourceStore ----------------------------
(***************************************************************************)
(* Instance of the PostgreSQL source library for TLC.                      *)
(***************************************************************************)
EXTENDS SourceStore, TLC

\* Requests, sources and texts are told apart only by identity.
Symmetry ==
  UNION {Permutations(Importer), Permutations(Reviewer), Permutations(Source),
         Permutations(Text)}
=============================================================================
