--------------------------- MODULE MCDecodeReview ---------------------------
(***************************************************************************)
(* Instance of the decoded rules for TLC.                                  *)
(***************************************************************************)
EXTENDS DecodeReview, TLC

MCSymmetry == Permutations(Worker)
=============================================================================
