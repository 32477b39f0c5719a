-------------------------- MODULE MCProjectChecks --------------------------
(***************************************************************************)
(* Two parcels of two councils, one of them in a structure plan, and one   *)
(* address without a parcel.                                               *)
(***************************************************************************)
EXTENDS ProjectChecks, TLC

CONSTANTS l1, l2, c1, c2, r20, r40, spn, a1, a2, a3

MCLot == {l1, l2}
MCStated ==
  [l \in MCLot |->
     IF l = l1
       THEN [lot_area_m2 |-> 3, local_government |-> c1, r_code |-> r20,
             structure_plan |-> {spn}]
       ELSE [lot_area_m2 |-> 7, local_government |-> c2, r_code |-> r40,
             structure_plan |-> {}]]

MCEntry ==
  {[type |-> "lot_area_m2", value |-> 5], [type |-> "council", value |-> c2],
   [type |-> Wall, value |-> 2], [type |-> Wall, value |-> 4]}

Found(a, l) == [address |-> a, lot |-> l, status |-> "resolved",
                sourced |-> TRUE, manual |-> {}]
MCProfile ==
  {Found(a1, l1), Found(a2, l2),
   [address |-> a3, lot |-> NoLot, status |-> "missing_info",
    sourced |-> FALSE, manual |-> {}],
   [address |-> a3, lot |-> NoLot, status |-> "needs_more_info",
    sourced |-> TRUE, manual |-> {[type |-> Wall, value |-> 4]}]}

MCLayers == {{}, {"structure_plan"}}
Plain == [check |-> "lot_area", council |-> Anywhere, r_code |-> Anywhere,
          scoped |-> FALSE, plans |-> {}, condition |-> "none", bound |-> 0,
          threshold |-> {4}, operator |-> ">=", age |-> 0]

MCRule ==
  {Plain,
   [Plain EXCEPT !.council = c2, !.age = 1, !.operator = "<="],
   [Plain EXCEPT !.scoped = TRUE, !.plans = {spn}, !.r_code = r20, !.age = 2],
   [Plain EXCEPT !.scoped = TRUE, !.age = 3],
   [Plain EXCEPT !.check = "wall", !.condition = "up to", !.bound = 3,
               !.threshold = {3}, !.operator = "<=", !.age = 4],
   [Plain EXCEPT !.check = "wall", !.condition = "over", !.bound = 3,
               !.operator = "<=", !.age = 5],
   [Plain EXCEPT !.check = "garden", !.council = c1, !.threshold = {}, !.age = 6]}

MCCheck == {"lot_area", "wall"}
MCMeasures == [k \in MCCheck |-> IF k = "wall" THEN Wall ELSE "lot_area_m2"]
MCProjectCouncil == {}

MCSymmetry == Permutations(Client)
=============================================================================
