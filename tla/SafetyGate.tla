----------------------------- MODULE SafetyGate -----------------------------
(***************************************************************************)
(* The deterministic safety gate every signal plan passes before it is     *)
(* published (safety/service.py), the bounds correction it reuses          *)
(* (phase_check.py) and the phase list the formatter derives from a plan   *)
(* (runtime/result_formatter.py).  Constants and operators only: the       *)
(* decision pipeline applies them road by road.                            *)
(*                                                                         *)
(* A plan is what the ten-element list of the code carries: the phase      *)
(* durations, the reserved slot and the program number.  A configuration   *)
(* maps a road to its programs, a program to its rules, a phase to its     *)
(* bounds.                                                                 *)
(***************************************************************************)
EXTENDS Integers, Sequences

CONSTANT PhaseCount    \* number of phase slots of a plan: 8 in the code

ASSUME PhaseCountAssumption == PhaseCount \in Nat \ {0}

Slots == 1..PhaseCount

\* What the SignalPlan contract accepts.  Anything else a selector, the
\* coordination or a timetable yields (an empty list, None, a negative
\* duration) is not in Plan and fails the contract.
Plan == [times : [Slots -> Nat], reserved : Int, program : Int]

Bounds == [lo : Int, hi : Int]

\* The no-action marker of the legacy selectors: ten zeros.
NoAction == [times |-> [i \in Slots |-> 0], reserved |-> 0, program |-> 0]

When(condition, issue) == IF condition THEN {issue} ELSE {}

Idle(plan) == \A i \in Slots : plan.times[i] = 0

-----------------------------------------------------------------------------
(* The rules of a program.  The loader of the static configuration rejects *)
(* an empty rule set, so "no rules" and "empty rules" coincide.            *)

\* validate_intersection_result_config: bounds are numbers in order, on the
\* phase slots and the reserved slot; their sign is not checked.
Admitted(cfg) ==
    \A road \in DOMAIN cfg : \A program \in DOMAIN cfg[road] :
        LET rules == cfg[road][program]
        IN  /\ DOMAIN rules # {} /\ DOMAIN rules \subseteq 1..(PhaseCount + 1)
            /\ \A i \in DOMAIN rules : rules[i] \in Bounds /\ rules[i].lo <= rules[i].hi

HasRules(road, plan, cfg) ==
    /\ road \in DOMAIN cfg
    /\ plan.program \in DOMAIN cfg[road]

Rules(road, plan, cfg) == cfg[road][plan.program]

\* Bounds the gate refuses to interpret although the loader admits them
\* (the loader checks the order of a pair, not its sign).
BrokenRules(rules) ==
    \E i \in DOMAIN rules : rules[i].lo < 0 \/ rules[i].lo > rules[i].hi

\* Mutant: a phase after the terminating zero goes unnoticed.
StructuralIssuesIgnoringTerminator(plan) ==
    When(plan.reserved # 0, "reserved_slot_must_be_zero")
      \cup When(plan.program < 0, "invalid_program_id")

StructuralIssues(plan) ==
    When(plan.reserved # 0, "reserved_slot_must_be_zero")
      \cup When(plan.program < 0, "invalid_program_id")
      \cup When(\E i, j \in Slots : i < j /\ plan.times[i] = 0 /\ plan.times[j] # 0,
                "phase_after_zero_terminator")

\* Mutant: a duration equal to its upper bound counts as out of bounds.
RuleIssuesOffByOne(plan, rules) ==
    LET bounded == Slots \cap DOMAIN rules
        absent(i) == plan.times[i] = 0 /\ rules[i].lo > 0
        inside(i) == rules[i].lo <= plan.times[i] /\ plan.times[i] < rules[i].hi
    IN  When(\E i \in bounded : absent(i), "phase_required_by_config")
          \cup When(\E i \in bounded : ~absent(i) /\ ~inside(i), "phase_out_of_bounds")

RuleIssues(plan, rules) ==
    LET bounded == Slots \cap DOMAIN rules
        absent(i) == plan.times[i] = 0 /\ rules[i].lo > 0
        inside(i) == rules[i].lo <= plan.times[i] /\ plan.times[i] <= rules[i].hi
    IN  When(\E i \in bounded : absent(i), "phase_required_by_config")
          \cup When(\E i \in bounded : ~absent(i) /\ ~inside(i), "phase_out_of_bounds")

-----------------------------------------------------------------------------
(* ControlSafetyEngine.check: the issues of a raw plan, in the order of    *)
(* the early returns, and the status they lead to.                         *)

Issues(road, raw, cfg) ==
    IF raw \notin Plan THEN {"invalid_signal_plan_contract"}
    ELSE IF StructuralIssues(raw) # {} THEN StructuralIssues(raw)
    ELSE IF Idle(raw) THEN When(raw.program # 0, "empty_active_program")
    ELSE IF ~HasRules(road, raw, cfg) THEN {}
    ELSE IF BrokenRules(Rules(road, raw, cfg)) THEN {"invalid_static_config"}
    ELSE RuleIssues(raw, Rules(road, raw, cfg))

FullyCovered(road, plan, cfg) ==
    /\ HasRules(road, plan, cfg)
    /\ \A i \in Slots : plan.times[i] > 0 => i \in DOMAIN Rules(road, plan, cfg)

Statuses == {"valid", "partial", "no_action", "invalid"}

Status(road, raw, cfg) ==
    IF Issues(road, raw, cfg) # {} THEN "invalid"
    ELSE IF Idle(raw) THEN "no_action"
    ELSE IF FullyCovered(road, raw, cfg) THEN "valid"
    ELSE "partial"

-----------------------------------------------------------------------------
(* phase_check: durations before the first zero are moved to the nearest   *)
(* bound.  A missing road or program leaves the plan alone.                *)

\* Mutant: the two corrections swapped.
ClampSwapped(v, b) == IF v < b.lo THEN b.hi ELSE IF v > b.hi THEN b.lo ELSE v

Clamp(v, b) == IF v < b.lo THEN b.lo ELSE IF v > b.hi THEN b.hi ELSE v

BeforeTerminator(plan, i) == \A j \in 1..i : plan.times[j] # 0

PhaseCheck(road, plan, cfg) ==
    IF ~HasRules(road, plan, cfg) THEN plan
    ELSE LET rules == Rules(road, plan, cfg)
         IN [plan EXCEPT !.times =
               [i \in Slots |->
                  IF i \in DOMAIN rules /\ BeforeTerminator(plan, i)
                  THEN Clamp(plan.times[i], rules[i])
                  ELSE plan.times[i]]]

-----------------------------------------------------------------------------
(* ControlSafetyEngine._prepare: only a plan whose sole fault is its       *)
(* bounds is corrected; the corrected plan is judged again.                *)

Prepare(road, raw, cfg) ==
    IF Issues(road, raw, cfg) \subseteq {"phase_out_of_bounds"}
    THEN PhaseCheck(road, raw, cfg)
    ELSE raw

\* Mutant: the corrected plan is not judged again.
PreparedStatusUnchecked(road, raw, cfg) ==
    IF Issues(road, raw, cfg) = {"phase_out_of_bounds"} THEN "valid"
    ELSE Status(road, raw, cfg)

PreparedStatus(road, raw, cfg) == Status(road, Prepare(road, raw, cfg), cfg)

\* Mutant: a fallback with incomplete rules is refused.
UsableWhenFullyCovered(road, raw, cfg) == PreparedStatus(road, raw, cfg) = "valid"

\* A fallback counts only when it commands phases: no_action is not one.
Usable(road, raw, cfg) == PreparedStatus(road, raw, cfg) \in {"valid", "partial"}

\* ControlSafetyEngine.finalize for one road: the coordinated plan, else the
\* candidate of the selector, else the timetable, else the no-action marker.
Gate(road, raw, candidate, timetable, cfg) ==
    IF PreparedStatus(road, raw, cfg) # "invalid"
    THEN [source |-> "coordinated", plan |-> Prepare(road, raw, cfg)]
    ELSE IF Usable(road, candidate, cfg)
    THEN [source |-> "baseline_candidate", plan |-> Prepare(road, candidate, cfg)]
    ELSE IF Usable(road, timetable, cfg)
    THEN [source |-> "timetable", plan |-> Prepare(road, timetable, cfg)]
    ELSE [source |-> "no_action", plan |-> NoAction]

-----------------------------------------------------------------------------
(* The formatter: the ten elements up to the first zero become phases.     *)

TenElements(plan) == [i \in 1..(PhaseCount + 2) |->
    IF i \in Slots THEN plan.times[i]
    ELSE IF i = PhaseCount + 1 THEN plan.reserved ELSE plan.program]

SentPhases(plan) ==
    {i \in 1..(PhaseCount + 2) : \A j \in 1..i : TenElements(plan)[j] # 0}

-----------------------------------------------------------------------------
(* What a plan must satisfy to be sent to a signal controller, stated      *)
(* without the gate's own vocabulary of issues and statuses.               *)

WithinBounds(road, plan, cfg) ==
    HasRules(road, plan, cfg) =>
        \A i \in Slots \cap DOMAIN Rules(road, plan, cfg) :
            /\ Rules(road, plan, cfg)[i].lo <= plan.times[i]
            /\ plan.times[i] <= Rules(road, plan, cfg)[i].hi

Deliverable(road, plan, cfg) ==
    /\ plan \in Plan
    /\ plan.reserved = 0 /\ plan.program >= 0
    /\ SentPhases(plan) = {i \in Slots : plan.times[i] # 0}
    /\ Idle(plan) => plan = NoAction
    /\ ~Idle(plan) => WithinBounds(road, plan, cfg)
=============================================================================
