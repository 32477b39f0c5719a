------------------------ MODULE MCSourceAcquisition ------------------------
(***************************************************************************)
(* A policy whose page serves a scan or, once, the text itself, and a row  *)
(* that names it by a variant of its title and has no URL at first.        *)
(***************************************************************************)
EXTENDS SourceAcquisition

CONSTANTS policy, variant, scan, page, shell, full, anchor

Answer(r, f, t) == [copy |-> [bytes |-> r, form |-> f], text |-> t]

\* The fetch parser finds little in the scan; the repair parsers may find it all.
MCServes ==
  policy :> {Answer(scan, "raw_pdf", shell), Answer(page, "raw_html", full)} @@
  variant :> {}
MCSupplied == policy :> {full} @@ variant :> {}
MCRepairTexts == scan :> {shell, full} @@ page :> {}
\* The URL of the policy may not name a PDF, and its media type may.
MCCopyForms == [s \in {policy, variant} |-> {"raw_pdf", "canonical_text"}]
MCLength == shell :> 1 @@ full :> 3
MCChunks == shell :> 1 @@ full :> 3
MCAliases == {<<variant, policy>>}
=============================================================================
