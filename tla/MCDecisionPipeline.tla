------------------------- MODULE MCDecisionPipeline -------------------------
(***************************************************************************)
(* Two roads, one of which the coordination may rebuild, and two           *)
(* configurations that disagree about the same plan: what one admits the   *)
(* other corrects.  The raw plans hold a plan both admit, one that is out  *)
(* of bounds, one with a broken structure and one that is no plan at all.  *)
(***************************************************************************)
EXTENDS DecisionPipeline

CONSTANTS NoPlan, r1, r2

MCPlan(a, b) == [times |-> [i \in Slots |-> IF i = 1 THEN a ELSE b], reserved |-> 0, program |-> 1]

MCRules(lo, hi) == [p \in {1} |-> [i \in {1} |-> [lo |-> lo, hi |-> hi]]]

MCConfigs == {[r \in {r1} |-> MCRules(1, 2)], [r \in {r1} |-> MCRules(2, 3)]}

MCSelections == {MCPlan(2, 2), NoPlan}

MCCoordinated == {MCPlan(1, 2), MCPlan(0, 2)}

MCTimetables == {MCPlan(3, 0), NoPlan}
=============================================================================
