---------------------------- MODULE Adjudication ----------------------------
(***************************************************************************)
(* The family-aware vote of extraction/adjudication.py, as operators.      *)
(*                                                                         *)
(* A vote is an atom one model extracted from one clause and that passed   *)
(* the validators.  All votes of a ballot share their core: rule key,      *)
(* operator, rounded value and unit.  What is left to agree on is the      *)
(* pathway, the density codes and the dwelling type, and the models must   *)
(* be of two families.                                                     *)
(***************************************************************************)
EXTENDS Naturals, FiniteSets

AnyDwelling == "any"

TwoFamilies(votes) == \E v, w \in votes : v.family # w.family

Backing(votes, path) == {v \in votes : v.path = path}

\* A strict plurality: a tie of the two highest counts has no leader.
Leads(votes, path) ==
  /\ Backing(votes, path) # {}
  /\ \A v \in votes : v.path # path =>
       Cardinality(Backing(votes, v.path)) < Cardinality(Backing(votes, path))

\* The leading pathway needs two families of its own.
Wins(votes, path) == Leads(votes, path) /\ TwoFamilies(Backing(votes, path))

\* Votes that omit the codes never widen the result.
Explicit(votes) == {v.codes : v \in votes} \ {{}}
MergedCodes(votes) ==
  {code \in UNION Explicit(votes) : \A s \in Explicit(votes) : code \in s}

Specific(votes) == {v.dwelling : v \in votes} \ {AnyDwelling}
MergedDwelling(votes) ==
  IF Specific(votes) = {} THEN AnyDwelling
  ELSE CHOOSE d \in Specific(votes) : TRUE

Agree(votes) ==
  /\ Explicit(votes) # {} => MergedCodes(votes) # {}
  /\ \A d, e \in Specific(votes) : d = e

\* Decision.outcome = PROMOTE with this pathway.
Promotes(votes, path) == Wins(votes, path) /\ Agree(Backing(votes, path))

\* The reason a ballot stays pending: the challenge rounds ask for the first.
SingleFamily == "single_model_family"
Disagreement == "disagreement"
PendingReason(votes) ==
  IF TwoFamilies(votes) THEN Disagreement ELSE SingleFamily
=============================================================================
