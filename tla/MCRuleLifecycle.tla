-------------------------- MODULE MCRuleLifecycle --------------------------
(***************************************************************************)
(* Instance of the rule lifecycle for TLC: a content that is valid and is  *)
(* also seeded (good), one of the same key that fails the evaluation       *)
(* (weak), and one of another key that is not valid (bad).                 *)
(***************************************************************************)
EXTENDS RuleLifecycle, TLC

CONSTANTS good, weak, bad, k1, k2

MCKeyOf == (good :> k1) @@ (weak :> k1) @@ (bad :> k2)
MCAnswer == {<<NoContent, NoContent, NoContent>>, <<NoContent, good, NoContent>>}
MCExtraction == {<<good, good, good>>, <<bad, bad, bad>>, <<good, weak, bad>>}
MCSymmetry == Permutations(Operator)
=============================================================================
