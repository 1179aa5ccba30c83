-------------------------- MODULE SafetyGateProofs --------------------------
(***************************************************************************)
(* What the safety gate returns, for every plan, fallback and              *)
(* configuration: lemmas about the operators of SafetyGate, and with them  *)
(* the promises of the gate about one road, those of SafetyGateCases, for  *)
(* every input and every number of phases.                                 *)
(***************************************************************************)
EXTENDS SafetyGateCases, TLAPS

\* A plan the check accepts respects the contract and has no issue.
LEMMA AcceptedHasNoIssue ==
    ASSUME NEW road, NEW p, NEW static, Status(road, p, static) # "invalid"
    PROVE  /\ p \in Plan
           /\ Issues(road, p, static) = {}
           /\ StructuralIssues(p) = {}
  <1>1. Issues(road, p, static) = {}
    BY DEF Status
  <1>2. p \in Plan
    BY <1>1 DEF Issues
  <1>3. StructuralIssues(p) = {}
    BY <1>1, <1>2 DEF Issues
  <1> QED BY <1>1, <1>2, <1>3

\* Without a structural issue a plan's non-zero phases come first, so the
\* formatter sends all of them and stops before the reserved slot.
LEMMA SoundStructure ==
    ASSUME NEW p \in Plan, StructuralIssues(p) = {}
    PROVE  /\ p.reserved = 0
           /\ p.program >= 0
           /\ SentPhases(p) = {i \in Slots : p.times[i] # 0}
  <1> USE PhaseCountAssumption
  <1>1. p.reserved = 0
    BY DEF StructuralIssues, When
  <1>2. p.program \in Int /\ p.program >= 0
    BY DEF StructuralIssues, When, Plan
  <1>3. \A i, j \in Slots : i < j /\ p.times[i] = 0 => p.times[j] = 0
    BY DEF StructuralIssues, When
  <1>4. \A i \in 1..(PhaseCount + 2) :
            TenElements(p)[i] = IF i \in Slots THEN p.times[i]
                                ELSE IF i = PhaseCount + 1 THEN p.reserved ELSE p.program
    BY DEF TenElements
  <1>5. ASSUME NEW i \in SentPhases(p) PROVE i \in Slots /\ p.times[i] # 0
    <2>1. i \in 1..(PhaseCount + 2) /\ \A j \in 1..i : TenElements(p)[j] # 0
      BY DEF SentPhases
    <2>2. TenElements(p)[PhaseCount + 1] = 0
      BY <1>1, <1>4 DEF Slots
    <2>3. i \in Slots
      BY <2>1, <2>2 DEF Slots
    <2> QED BY <1>4, <2>1, <2>3 DEF Slots
  <1>6. ASSUME NEW i \in Slots, p.times[i] # 0 PROVE i \in SentPhases(p)
    <2>1. i \in 1..(PhaseCount + 2)
      BY DEF Slots
    <2>2. ASSUME NEW j \in 1..i PROVE TenElements(p)[j] # 0
      <3>1. j \in Slots /\ j \in 1..(PhaseCount + 2) /\ (j < i \/ j = i)
        BY DEF Slots
      <3>2. p.times[j] # 0
        BY <1>3, <1>6, <3>1
      <3> QED BY <1>4, <3>1, <3>2
    <2> QED BY <2>1, <2>2 DEF SentPhases
  <1>7. SentPhases(p) = {i \in Slots : p.times[i] # 0}
    BY <1>5, <1>6
  <1> QED BY <1>1, <1>2, <1>7

\* The only plan the check calls no_action is the marker of ten zeros.
LEMMA NoActionIsMarker ==
    ASSUME NEW road, NEW p, NEW static, Status(road, p, static) = "no_action"
    PROVE  p = NoAction
  <1>1. p \in Plan /\ Issues(road, p, static) = {} /\ StructuralIssues(p) = {}
    BY AcceptedHasNoIssue
  <1>2. Idle(p)
    BY <1>1 DEF Status
  <1>3. p.program = 0
    BY <1>1, <1>2 DEF Issues, When
  <1>4. p.reserved = 0
    BY <1>1, SoundStructure
  <1>5. p.times = [i \in Slots |-> 0]
    BY <1>1, <1>2 DEF Idle, Plan
  <1> QED BY <1>1, <1>3, <1>4, <1>5 DEF Plan, NoAction

\* The marker itself can always be sent: it commands nothing.
LEMMA MarkerIsDeliverable ==
    ASSUME NEW road, NEW static
    PROVE  Deliverable(road, NoAction, static) /\ Status(road, NoAction, static) = "no_action"
  <1>1. NoAction \in Plan /\ Idle(NoAction)
    BY DEF NoAction, Plan, Idle
  <1>2. StructuralIssues(NoAction) = {}
    BY DEF StructuralIssues, When, NoAction
  <1>3. Deliverable(road, NoAction, static)
    BY <1>1, <1>2, SoundStructure DEF Deliverable
  <1>4. Issues(road, NoAction, static) = {}
    BY <1>1, <1>2 DEF Issues, When, NoAction
  <1> QED BY <1>1, <1>3, <1>4 DEF Status

\* A plan the check accepts can be sent.
LEMMA AcceptedIsDeliverable ==
    ASSUME NEW road, NEW p, NEW static, Status(road, p, static) # "invalid"
    PROVE  Deliverable(road, p, static)
  <1>1. p \in Plan /\ Issues(road, p, static) = {} /\ StructuralIssues(p) = {}
    BY AcceptedHasNoIssue
  <1>2. CASE Idle(p)
    <2>1. Status(road, p, static) = "no_action"
      BY <1>1, <1>2 DEF Status
    <2> QED BY <2>1, NoActionIsMarker, MarkerIsDeliverable
  <1>3. CASE ~Idle(p)
    <2>1. ASSUME HasRules(road, p, static),
                 NEW i \in Slots \cap DOMAIN Rules(road, p, static)
          PROVE  /\ Rules(road, p, static)[i].lo <= p.times[i]
                 /\ p.times[i] <= Rules(road, p, static)[i].hi
      <3> DEFINE rules == Rules(road, p, static)
      <3>1. RuleIssues(p, rules) = {}
        BY <1>1, <1>3, <2>1 DEF Issues
      <3> QED BY <2>1, <3>1 DEF RuleIssues, When
    <2>2. WithinBounds(road, p, static)
      BY <2>1 DEF WithinBounds
    <2> QED BY <1>1, <1>3, <2>2, SoundStructure DEF Deliverable
  <1> QED BY <1>2, <1>3

\* The correction is the identity on a plan the check accepts.
LEMMA AcceptedIsNotCorrected ==
    ASSUME NEW road, NEW p, NEW static, Admitted(static), Status(road, p, static) # "invalid"
    PROVE  Prepare(road, p, static) = p
  <1>1. p \in Plan /\ Issues(road, p, static) = {}
    BY AcceptedHasNoIssue
  <1>2. Prepare(road, p, static) = PhaseCheck(road, p, static)
    BY <1>1 DEF Prepare
  <1>3. CASE ~HasRules(road, p, static)
    BY <1>2, <1>3 DEF PhaseCheck
  <1>4. CASE HasRules(road, p, static)
    <2> DEFINE rules == Rules(road, p, static)
    <2> DEFINE moved(i) == i \in DOMAIN rules /\ BeforeTerminator(p, i)
    <2>1. ASSUME NEW i \in Slots, moved(i)
          PROVE  Clamp(p.times[i], rules[i]) = p.times[i]
      <3>1. p.times[i] # 0 /\ p.times[i] \in Nat
        BY <1>1, <2>1, PhaseCountAssumption DEF BeforeTerminator, Slots, Plan
      <3>2. ~Idle(p)
        BY <3>1 DEF Idle
      <3>3. WithinBounds(road, p, static)
        BY <1>1, <3>2, AcceptedIsDeliverable DEF Deliverable
      <3>4. rules[i].lo <= p.times[i] /\ p.times[i] <= rules[i].hi
        BY <1>4, <2>1, <3>3 DEF WithinBounds
      <3>5. rules[i].lo \in Int /\ rules[i].hi \in Int
        BY <1>4, <2>1 DEF Admitted, HasRules, Rules, Bounds
      <3> QED BY <3>1, <3>4, <3>5 DEF Clamp
    <2>2. [i \in Slots |-> IF moved(i) THEN Clamp(p.times[i], rules[i]) ELSE p.times[i]]
            = [i \in Slots |-> p.times[i]]
      BY <2>1
    <2>3. p.times = [i \in Slots |-> p.times[i]]
      BY <1>1 DEF Plan
    <2>4. PhaseCheck(road, p, static) = [p EXCEPT !.times = p.times]
      BY <1>4, <2>2, <2>3 DEF PhaseCheck
    <2>5. [p EXCEPT !.times = p.times] = p
      BY <1>1 DEF Plan
    <2> QED BY <1>2, <2>4, <2>5
  <1> QED BY <1>3, <1>4

\* Whatever the gate lets through is a plan the check accepts.
LEMMA GateOutputIsAccepted ==
    ASSUME NEW road, NEW raw0, NEW candidate0, NEW timetable0, NEW static
    PROVE  Status(road, Gate(road, raw0, candidate0, timetable0, static).plan, static) # "invalid"
  BY MarkerIsDeliverable DEF Gate, Usable, PreparedStatus

\* The gate is idempotent.
THEOREM GateIsIdempotent ==
    ASSUME NEW road, NEW raw0, NEW candidate0, NEW timetable0, NEW c, NEW t, NEW static, Admitted(static)
    PROVE  LET plan == Gate(road, raw0, candidate0, timetable0, static).plan
           IN  Gate(road, plan, c, t, static) = [source |-> "coordinated", plan |-> plan]
  <1> DEFINE plan == Gate(road, raw0, candidate0, timetable0, static).plan
  <1>1. Status(road, plan, static) # "invalid"
    BY GateOutputIsAccepted
  <1>2. Prepare(road, plan, static) = plan
    BY <1>1, AcceptedIsNotCorrected
  <1> HIDE DEF plan
  <1>3. Gate(road, plan, c, t, static) = [source |-> "coordinated", plan |-> plan]
    BY <1>1, <1>2 DEF Gate, PreparedStatus
  <1> QED BY <1>3 DEF plan

\* The gate lets only deliverable plans through, whatever it is given.
THEOREM GateIsSafe ==
    ASSUME NEW road, NEW raw0, NEW candidate0, NEW timetable0, NEW static
    PROVE  Deliverable(road, Gate(road, raw0, candidate0, timetable0, static).plan, static)
  <1>1. ASSUME NEW p, PreparedStatus(road, p, static) # "invalid"
        PROVE  Deliverable(road, Prepare(road, p, static), static)
    BY <1>1, AcceptedIsDeliverable DEF PreparedStatus
  <1>2. ASSUME NEW p, Usable(road, p, static)
        PROVE  Deliverable(road, Prepare(road, p, static), static)
    BY <1>1, <1>2 DEF Usable
  <1> QED BY <1>1, <1>2, MarkerIsDeliverable DEF Gate

-----------------------------------------------------------------------------
(* One road going through the gate.                                        *)

\* The configuration is one the loader admits, and what was decided is the
\* gate's verdict on the inputs.
Verdict ==
    /\ cfg \in RoadConfigs
    /\ Decided => result = Gate(Road, raw, candidate, timetable, cfg)

LEMMA VerdictHolds == CasesSpec => []Verdict
  <1>1. CasesInit => Verdict
    BY DEF CasesInit, Verdict, Decided
  <1>2. Verdict /\ [Decide]_caseVars => Verdict'
    BY DEF Verdict, Decide, Decided, caseVars
  <1> QED BY <1>1, <1>2, PTL DEF CasesSpec

\* Whatever the coordination, the selector and the timetable yield, what the
\* gate decides can be sent.
THEOREM OutputIsAlwaysDeliverable == CasesSpec => []OutputIsDeliverable
  <1>1. Verdict => OutputIsDeliverable
    BY GateIsSafe DEF Verdict, OutputIsDeliverable
  <1> QED BY <1>1, VerdictHolds, PTL

\* Judging a verdict again, under the same configuration, changes nothing.
THEOREM RegatingNeverChanges == CasesSpec => []RegatingChangesNothing
  <1>1. ASSUME Verdict, Decided
        PROVE  Gate(Road, result.plan, candidate, timetable, cfg)
                 = [source |-> "coordinated", plan |-> result.plan]
    BY <1>1, GateIsIdempotent, RoadConfigsAssumption DEF Verdict
  <1>2. Verdict => RegatingChangesNothing
    BY <1>1 DEF RegatingChangesNothing
  <1> QED BY <1>2, VerdictHolds, PTL

-----------------------------------------------------------------------------
(* The gate refuses nothing it should let through.                         *)

\* A plan that can be sent has no structural issue.
LEMMA DeliverableIsSound ==
    ASSUME NEW road, NEW p, NEW c, Deliverable(road, p, c)
    PROVE  StructuralIssues(p) = {}
  <1> USE PhaseCountAssumption
  <1>1. p \in Plan /\ p.reserved = 0 /\ p.program >= 0
    BY DEF Deliverable
  <1>2. SentPhases(p) = {i \in Slots : p.times[i] # 0}
    BY DEF Deliverable
  <1>3. ASSUME NEW i \in Slots, NEW j \in Slots, i < j, p.times[j] # 0
        PROVE  p.times[i] # 0
    <2>1. j \in SentPhases(p)
      BY <1>2, <1>3
    <2>2. i \in 1..j /\ i \in 1..(PhaseCount + 2)
      BY <1>3 DEF Slots
    <2>3. TenElements(p)[i] # 0
      BY <2>1, <2>2 DEF SentPhases
    <2> QED BY <2>2, <2>3 DEF TenElements
  <1> QED BY <1>1, <1>3 DEF StructuralIssues, When, Plan

\* A plan that can be sent is accepted, unless its rules make no sense.
LEMMA DeliverableIsAccepted ==
    ASSUME NEW road, NEW p, NEW c, Admitted(c), Deliverable(road, p, c),
           HasRules(road, p, c) => ~BrokenRules(Rules(road, p, c))
    PROVE  Status(road, p, c) # "invalid" /\ (~Idle(p) => Usable(road, p, c))
  <1>1. p \in Plan /\ StructuralIssues(p) = {}
    BY DeliverableIsSound DEF Deliverable
  <1>2. CASE Idle(p)
    BY <1>2, MarkerIsDeliverable DEF Deliverable
  <1>3. CASE ~Idle(p)
    <2>1. ASSUME HasRules(road, p, c) PROVE RuleIssues(p, Rules(road, p, c)) = {}
      <3> DEFINE rules == Rules(road, p, c)
      <3>1. ASSUME NEW i \in Slots \cap DOMAIN rules
            PROVE  /\ rules[i].lo <= p.times[i] /\ p.times[i] <= rules[i].hi
                   /\ ~(p.times[i] = 0 /\ rules[i].lo > 0)
        <4>1. rules[i].lo <= p.times[i] /\ p.times[i] <= rules[i].hi
          BY <1>3, <2>1, <3>1 DEF Deliverable, WithinBounds
        <4>2. rules[i].lo \in Int /\ p.times[i] \in Nat
          BY <1>1, <2>1, <3>1 DEF Admitted, HasRules, Rules, Bounds, Plan
        <4> QED BY <4>1, <4>2
      <3> QED BY <3>1 DEF RuleIssues, When
    <2>2. Issues(road, p, c) = {}
      BY <1>1, <1>3, <2>1 DEF Issues
    <2>3. Status(road, p, c) \in {"valid", "partial"}
      BY <1>3, <2>2 DEF Status
    <2>4. PreparedStatus(road, p, c) \in {"valid", "partial"}
      BY <2>3, AcceptedIsNotCorrected DEF PreparedStatus
    <2> QED BY <2>3, <2>4 DEF Usable
  <1> QED BY <1>2, <1>3

\* A plan that is already safe is sent as the coordination left it.
THEOREM SafePlansPass == CasesSpec => []SafePlanIsUntouched
  <1>1. ASSUME Verdict, Decided, Deliverable(Road, raw, cfg),
               HasRules(Road, raw, cfg) => ~BrokenRules(Rules(Road, raw, cfg))
        PROVE  result = [source |-> "coordinated", plan |-> raw]
    <2>1. Admitted(cfg) /\ result = Gate(Road, raw, candidate, timetable, cfg)
      BY <1>1, RoadConfigsAssumption DEF Verdict
    <2>2. Status(Road, raw, cfg) # "invalid"
      BY <1>1, <2>1, DeliverableIsAccepted
    <2>3. Prepare(Road, raw, cfg) = raw
      BY <2>1, <2>2, AcceptedIsNotCorrected
    <2> QED BY <2>1, <2>2, <2>3 DEF Gate, PreparedStatus
  <1>2. Verdict => SafePlanIsUntouched
    BY <1>1 DEF SafePlanIsUntouched
  <1> QED BY <1>2, VerdictHolds, PTL

\* Each fallback, and the marker, is a last resort.
THEOREM FallbacksAreLastResorts == CasesSpec => []FallbackIsLastResort
  <1>1. ASSUME Verdict, Decided, NEW p, Commands(p)
        PROVE  PreparedStatus(Road, p, cfg) # "invalid" /\ Usable(Road, p, cfg)
    BY <1>1, DeliverableIsAccepted, RoadConfigsAssumption DEF Verdict, Commands, Usable
  <1>2. ASSUME Verdict, Decided PROVE FallbackIsLastResort
    BY <1>1, <1>2 DEF Verdict, FallbackIsLastResort, Gate
  <1>3. Verdict => FallbackIsLastResort
    BY <1>2 DEF FallbackIsLastResort
  <1> QED BY <1>3, VerdictHolds, PTL

-----------------------------------------------------------------------------
(* The gate corrects no more than it must.                                 *)

\* What the correction makes of each phase of a plan with rules.
LEMMA CorrectedPhases ==
    ASSUME NEW road, NEW p \in Plan, NEW c, HasRules(road, p, c)
    PROVE  \A i \in Slots :
              PhaseCheck(road, p, c).times[i] \in
                 {p.times[i], Clamp(p.times[i], Rules(road, p, c)[i])}
  BY DEF PhaseCheck, Plan

\* No number within the bounds is nearer to a number than its correction.
LEMMA ClampIsNearest ==
    ASSUME NEW v \in Int, NEW b \in Bounds, b.lo <= b.hi, NEW w \in Int, b.lo <= w, w <= b.hi
    PROVE  /\ Clamp(v, b) \in Int
           /\ (IF Clamp(v, b) > v THEN Clamp(v, b) - v ELSE v - Clamp(v, b))
                 <= (IF w > v THEN w - v ELSE v - w)
  BY DEF Clamp, Bounds

\* A plan let through as coordinated is at most the bounds correction of the
\* coordinated plan.
LEMMA CoordinatedIsCorrected ==
    ASSUME Verdict, Decided, result.source = "coordinated"
    PROVE  raw \in Plan /\ result.plan \in {raw, PhaseCheck(Road, raw, cfg)}
  <1>1. PreparedStatus(Road, raw, cfg) # "invalid" /\ result.plan = Prepare(Road, raw, cfg)
    BY DEF Verdict, Gate
  <1>2. raw \in Plan
    <2>1. CASE Issues(Road, raw, cfg) \subseteq {"phase_out_of_bounds"}
      BY <2>1 DEF Issues
    <2>2. CASE ~(Issues(Road, raw, cfg) \subseteq {"phase_out_of_bounds"})
      BY <1>1, <2>2, AcceptedHasNoIssue DEF Prepare, PreparedStatus
    <2> QED BY <2>1, <2>2
  <1> QED BY <1>1, <1>2 DEF Prepare

\* Of all plans that could be sent under the coordinated program, the one the
\* gate makes of the coordinated plan is the nearest in every bounded phase.
THEOREM CorrectionsAreNearest == CasesSpec => []CorrectionIsNearest
  <1>1. ASSUME Verdict, Decided, result.source = "coordinated", HasRules(Road, raw, cfg),
               NEW p \in Plan, p.program = raw.program, ~Idle(p), Deliverable(Road, p, cfg),
               NEW i \in Slots \cap DOMAIN Rules(Road, raw, cfg)
        PROVE  Distance(result.plan, raw)[i] <= Distance(p, raw)[i]
    <2> DEFINE b == Rules(Road, raw, cfg)[i]
               v == raw.times[i]
               gap(n) == IF n > v THEN n - v ELSE v - n
    <2>1. raw \in Plan /\ v \in Nat /\ p.times[i] \in Nat
      BY <1>1, CoordinatedIsCorrected DEF Plan
    <2>2. b \in Bounds /\ b.lo <= b.hi
      BY <1>1, RoadConfigsAssumption DEF Verdict, Admitted, HasRules, Rules
    <2>3. b.lo <= p.times[i] /\ p.times[i] <= b.hi
      BY <1>1 DEF Deliverable, WithinBounds, HasRules, Rules
    <2>4. result.plan.times[i] \in {v, Clamp(v, b)}
      BY <1>1, <2>1, CoordinatedIsCorrected, CorrectedPhases
    <2>5. gap(result.plan.times[i]) <= gap(p.times[i])
      <3>1. Clamp(v, b) \in Int /\ gap(Clamp(v, b)) <= gap(p.times[i])
        BY <2>1, <2>2, <2>3, ClampIsNearest
      <3>2. gap(v) <= gap(p.times[i])
        BY <2>1
      <3> QED BY <2>4, <3>1, <3>2
    <2>6. /\ Distance(result.plan, raw)[i] = gap(result.plan.times[i])
          /\ Distance(p, raw)[i] = gap(p.times[i])
      BY DEF Distance
    <2> QED BY <2>5, <2>6
  <1>2. Verdict => CorrectionIsNearest
    BY <1>1 DEF CorrectionIsNearest
  <1> QED BY <1>2, VerdictHolds, PTL
=============================================================================
