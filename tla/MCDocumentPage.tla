--------------------------- MODULE MCDocumentPage ---------------------------
(***************************************************************************)
(* Instance of the document pipeline and its panel for TLC.  A behaviour   *)
(* follows the users who edit the facts of one document, or a page that is *)
(* opened when one document was parsed and that uploads another.           *)
(***************************************************************************)
EXTENDS DocumentPanel, TLC

CONSTANTS d1, d2, m1, u1, u2
VARIABLE side

Old == [doc |-> d1, run |-> "worker", measure |-> m1]

OpenedLater ==
  /\ file = [c \in Content |-> IF c = {m1} THEN "whole" ELSE "absent"]
  /\ doc = [d \in Doc |-> IF d = d1 THEN [status |-> "parsed", content |-> {m1},
                                          run |-> "worker"] ELSE NoDoc]
  /\ upload = [d \in Doc |-> IF d = d1 THEN "answered" ELSE "none"]
  /\ job = [d \in Doc |-> IF d = d1 THEN "done" ELSE "none"]
  /\ parse = [d \in Doc |-> [r \in Run |-> NoParse]]
  /\ facts = [f \in Fact |-> IF f = Old THEN ExtractedFact ELSE NoFact]
  /\ properties = <<>>
  /\ edit = [u \in User |-> NoEdit]

PanelClosed ==
  /\ reply = [d \in Doc |-> Idle]
  /\ lists = [i \in 1 .. MaxLists |-> Idle]
  /\ reads = [i \in 1 .. MaxReads |-> Idle]
  /\ listed = Unlisted
  /\ shown = NoneShown

MCInit ==
  \/ side = "users" /\ Init /\ PanelClosed
  \/ side = "page" /\ OpenedLater /\ PanelInit

\* Of the users, who may be called the first is the one who loads a fact first;
\* a PATCH sends a single field; the document has a dimension and its file is
\* whole.
UsersBound ==
  /\ edit[u1] = NoEdit /\ edit[u2] = NoEdit => edit'[u2] = NoEdit
  /\ \A u \in User : edit[u] = NoEdit /\ edit'[u] # NoEdit =>
       Keep \in {edit'[u].change.status, edit'[u].change.calibration}
  /\ \A c \in Content : file'[c] # "torn" /\ (file'[c] = "whole" => c = {m1})
  /\ upload'[d2] = "none"

MCNext ==
  /\ \/ side = "users" /\ Next /\ UsersBound /\ UNCHANGED panelVars
     \/ side = "page" /\ (FileChosen(d2) \/ Server \/ Panel)
  /\ UNCHANGED side

MCSpec ==
  MCInit /\ [][MCNext]_<<allVars, side>> /\ PanelFairness
=============================================================================
