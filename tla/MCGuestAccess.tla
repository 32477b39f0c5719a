--------------------------- MODULE MCGuestAccess ---------------------------
(***************************************************************************)
(* Instance of the guest accounts for TLC: one browser with two tabs.      *)
(***************************************************************************)
EXTENDS GuestAccess, TLC

CONSTANTS b1, t1, t2

OneJar == [t \in Tab |-> b1]
Shown == [f \in Feature |-> 1]
Symmetry == Permutations(Tab)
=============================================================================
