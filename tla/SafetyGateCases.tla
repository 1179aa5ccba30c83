--------------------------- MODULE SafetyGateCases ---------------------------
(***************************************************************************)
(* One road going through the safety gate, for every input of a bounded    *)
(* set: the coordinated plan, the two fallbacks and the configuration are  *)
(* chosen by CasesInit, Decide applies the gate.  The properties say what  *)
(* the gate promises about its output in the terms of a signal controller, *)
(* not in those of its own issues and statuses.                            *)
(***************************************************************************)
EXTENDS SafetyGate

CONSTANTS Road,            \* the road judged
          RawPlans,        \* what the coordination may yield, valid or not
          CandidatePlans,  \* what the selector may have yielded
          TimetablePlans,  \* what the timetable may hold
          RoadConfigs,     \* static configurations the loader admits
          Pending          \* the gate has not decided yet

ASSUME RoadConfigsAssumption == \A c \in RoadConfigs : Admitted(c)

ASSUME PendingIsNoResult == Pending \notin [source : STRING, plan : Plan]

VARIABLES raw, candidate, timetable, cfg, result

caseVars == <<raw, candidate, timetable, cfg, result>>

CasesInit ==
    /\ raw \in RawPlans
    /\ candidate \in CandidatePlans
    /\ timetable \in TimetablePlans
    /\ cfg \in RoadConfigs
    /\ result = Pending

Decide ==
    /\ result = Pending
    /\ result' = Gate(Road, raw, candidate, timetable, cfg)
    /\ UNCHANGED <<raw, candidate, timetable, cfg>>

CasesSpec == CasesInit /\ [][Decide]_caseVars

-----------------------------------------------------------------------------

Decided == result # Pending

VerdictTypeOK == Decided => result \in [source : {"coordinated", "baseline_candidate", "timetable", "no_action"}, plan : Plan]

\* Whatever the coordination, the selector and the timetable yield, the gate
\* lets through a plan a controller can run: the formatter sends exactly its
\* non-zero phases and every bounded phase is inside its bounds.
OutputIsDeliverable == Decided => Deliverable(Road, result.plan, cfg)

\* The gate is idempotent: a plan it let through, judged again under the same
\* configuration, passes as it is.  A correction that was not judged again, or
\* that depends on the order of the phases, would not.
RegatingChangesNothing ==
    Decided => Gate(Road, result.plan, candidate, timetable, cfg)
                 = [source |-> "coordinated", plan |-> result.plan]

\* A plan that is already deliverable is published as the coordination left
\* it, unless its program has bounds the gate refuses to interpret.
SafePlanIsUntouched ==
    (Decided /\ Deliverable(Road, raw, cfg)
             /\ (HasRules(Road, raw, cfg) => ~BrokenRules(Rules(Road, raw, cfg))))
        => result = [source |-> "coordinated", plan |-> raw]

Distance(p, q) ==
    LET gap(i) == IF p.times[i] > q.times[i] THEN p.times[i] - q.times[i]
                                             ELSE q.times[i] - p.times[i]
    IN  [i \in Slots |-> gap(i)]

\* A corrected plan is the deliverable plan of the same program that is
\* nearest to the coordinated one, phase by phase: no RawPlans member
\* that is deliverable is nearer in any phase the bounds cover.
CorrectionIsNearest ==
    (Decided /\ result.source = "coordinated" /\ HasRules(Road, raw, cfg)) =>
        \A p \in RawPlans :
            (p \in Plan /\ p.program = raw.program /\ ~Idle(p) /\ Deliverable(Road, p, cfg))
                => \A i \in Slots \cap DOMAIN Rules(Road, raw, cfg) :
                       Distance(result.plan, raw)[i] <= Distance(p, raw)[i]

\* The fallbacks are a cascade and the no-action marker its last resort: the
\* gate falls back only from a plan that is not deliverable, to the timetable
\* only when the candidate is not deliverable and commands phases, and to the
\* marker only when neither fallback is.
Commands(p) ==
    /\ p \in Plan
    /\ Deliverable(Road, p, cfg)
    /\ ~Idle(p)
    /\ HasRules(Road, p, cfg) => ~BrokenRules(Rules(Road, p, cfg))

FallbackIsLastResort ==
    /\ (Decided /\ result.source # "coordinated") => ~Commands(raw)
    /\ (Decided /\ result.source \in {"timetable", "no_action"}) => ~Commands(candidate)
    /\ (Decided /\ result.source = "no_action") => ~Commands(timetable)
=============================================================================
