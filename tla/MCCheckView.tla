---------------------------- MODULE MCCheckView ----------------------------
(***************************************************************************)
(* The checks of a project, on the server or in a window that shows them.  *)
(* A behaviour follows one side: the server's requests and runs statement  *)
(* by statement, or the panel, to which a run is its start and its commit. *)
(***************************************************************************)
EXTENDS MCProjectChecks, CompliancePanel

VARIABLE side

MCInit ==
  /\ side \in {"server", "window"}
  /\ Init /\ ViewInit

MCNext ==
  \/ side = "server" /\ Next /\ UNCHANGED <<side, viewVars>>
  \/ side = "window" /\ ViewNext /\ UNCHANGED <<side, vars>>

MCSpec == MCInit /\ [][MCNext]_<<side, vars, viewVars>>
=============================================================================
