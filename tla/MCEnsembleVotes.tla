-------------------------- MODULE MCEnsembleVotes --------------------------
(***************************************************************************)
(* Instance of the ensemble for TLC: two clauses whose atoms have one base *)
(* key, so that a value of each competes for one rule, and a report item   *)
(* that wants it too.  Both models of the ensemble may find the first      *)
(* clause's atom; the second's comes from the batches and their challenge. *)
(***************************************************************************)
EXTENDS EnsembleVotes, TLC

MCBaseOf == <<"setback", "setback">>
MCFamilyOf == ("m1" :> "openai") @@ ("m2" :> "claude")
\* With a second family configured, and without: then the first and the last
\* pass are of one model.
MCFresh == {<<"m1", "m2">>, <<"m1", "m1">>}
MCAtom(core, path) ==
  [core |-> core, path |-> path, codes |-> {}, dwelling |-> AnyDwelling]
MCOffers ==
  << ("m1" :> {MCAtom(1, "deemed")})
       @@ ("m2" :> {MCAtom(1, "deemed"), MCAtom(1, "principle")})
       @@ ("batch" :> {}),
     ("m1" :> {MCAtom(2, "principle")}) @@ ("m2" :> {})
       @@ ("batch" :> {MCAtom(2, "principle")}) >>
MCMaxGroups == <<1, 0>>
MCBulk == {[core |-> 1, path |-> "deemed", codes |-> {},
            dwelling |-> AnyDwelling, clause |-> 1, valid |-> TRUE]}
=============================================================================
