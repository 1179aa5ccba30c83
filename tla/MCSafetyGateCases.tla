-------------------------- MODULE MCSafetyGateCases --------------------------
(***************************************************************************)
(* Bounded inputs for the safety gate: two phase slots, durations 0..3 and *)
(* one negative, every pair of bounds of a set that holds a free slot, a   *)
(* forbidden phase ([0,0]), a required phase, a narrow window and the      *)
(* negative bounds the loader admits.                                      *)
(***************************************************************************)
EXTENDS SafetyGateCases

CONSTANT Garbage    \* a value that is not a ten-element list

MCDurations == 0..3

MCPlan(a, b, reserved, program) ==
    [times |-> [i \in Slots |-> IF i = 1 THEN a ELSE b],
     reserved |-> reserved, program |-> program]

MCRawPlans ==
    {MCPlan(a, b, 0, p) : a \in MCDurations, b \in MCDurations, p \in {0, 1}}
      \cup {MCPlan(2, 1, 1, 1), MCPlan(2, 0, 1, 1), MCPlan(2, 1, 0, -1), MCPlan(-1, 2, 0, 1), Garbage}

MCCandidates == {MCPlan(2, 2, 0, 1), MCPlan(3, 0, 0, 1), MCPlan(0, 0, 0, 0), Garbage}

MCTimetables == {MCPlan(1, 1, 0, 1), MCPlan(0, 2, 0, 1), Garbage}

MCBounds(lo, hi) == [lo |-> lo, hi |-> hi]

MCPairs == {MCBounds(0, 0), MCBounds(0, 2), MCBounds(1, 2), MCBounds(2, 3), MCBounds(-1, 2)}

MCRules == {[i \in Covered |-> f[i]] : Covered \in {{1}, {2}, {1, 2}}, f \in [{1, 2} -> MCPairs]}

MCConfigs ==
    {<<>>} \cup {[r \in {Road} |-> [p \in {1} |-> rules]] : rules \in MCRules}
=============================================================================
