----------------------------- MODULE GreenWave -----------------------------
(***************************************************************************)
(* Green wave sessions (lib/lvbotest.py), the loop over the corridors in   *)
(* the global coordination (lib/Global_intersection_coordinate.py) and the *)
(* operators that enable, disable and save corridors over HTTP             *)
(* (lib/green_wave_functions.py).                                          *)
(*                                                                         *)
(* lvbotest keeps the session of ONE corridor in module globals.  A round  *)
(* of the decision thread makes each enabled corridor the active one,      *)
(* loads its session from a map into the globals, advances it, and saves   *)
(* it back in a finally clause.  The HTTP thread resets sessions under     *)
(* _GREEN_WAVE_LOCK, which the decision thread takes only to read the      *)
(* file: a reset may fall between any two steps of a round.                *)
(***************************************************************************)
EXTENDS GreenWaveTiming, Sequences, FiniteSets, SequencesExt

CONSTANTS
    CorridorOrder,   \* the corridors in the order of green_wave_corridors.json
    RoadsOf,         \* corridor -> the roads on it
    Red,             \* road -> default_red_seconds
    Periods,         \* the periods in which corridors are coordinated
    Reference,       \* corridor -> period -> the road the platoon starts at
    Travel,          \* corridor -> period -> road -> seconds from the reference
    BasePlans,       \* road -> the plans the earlier stages may yield for it
    MaxRequests,     \* bound: requests of operators in a behaviour
    Nothing          \* no period, no corridor, no target, no plan

Corridors == Range(CorridorOrder)

\* _normalize_corridor and _validate_enabled_conflicts; two corridors that
\* share a road cannot both be enabled and are left out.
ASSUME CorridorAssumption ==
    /\ CorridorOrder \in Seq(Corridors) /\ IsInjective(CorridorOrder)
    /\ \A r \in DOMAIN BasePlans : BasePlans[r] \subseteq RoadPlan
    /\ \A c \in Corridors :
          /\ Cardinality(RoadsOf[c]) >= 2 /\ RoadsOf[c] \subseteq DOMAIN BasePlans
          /\ \A d \in Corridors \ {c} : RoadsOf[c] \cap RoadsOf[d] = {}
          /\ \A r \in RoadsOf[c] : Red[r] \in 0..(Cycle - 1)
          /\ \A p \in Periods : /\ Reference[c][p] \in RoadsOf[c]
                                /\ Travel[c][p] \in [RoadsOf[c] -> Nat]
                                /\ Travel[c][p][Reference[c][p]] = 0
    /\ Nothing \notin Corridors \cup Periods \cup Nat

ASSUME RequestsAssumption == MaxRequests \in Nat

VARIABLES
    enabled,     \* the corridors enabled in the file
    active,      \* _ACTIVE_CORRIDOR_ID
    globals,     \* the session in the module globals
    saved,       \* _GREEN_WAVE_STATE_MAP
    round,       \* the decision thread
    result,      \* what the round coordinated so far, by corridor
    handler,     \* the HTTP thread, and how many requests came so far
    torn         \* history: corridors whose session a reset raced with

vars == <<enabled, active, globals, saved, round, result, handler, torn>>
session == <<active, globals, saved>>

-----------------------------------------------------------------------------
(* Sessions.  cnt only counts and fix_plan is never written; both are left *)
(* out.  Of last_green_wave_send_time only "never" is told apart: whether  *)
(* the cooldown has passed since is chosen by the round.                   *)

EmptyPlans == [r \in {} |-> Nothing]

EmptySession ==
    [start |-> FALSE, cycleGreen |-> FALSE, offsetGreen |-> FALSE,
     cycleDone |-> FALSE, offsetDone |-> FALSE, direction |-> Nothing,
     plan |-> EmptyPlans, sent |-> FALSE,
     offset |-> EmptyPlans, target |-> EmptyPlans]

SessionOf(c) == IF c \in DOMAIN saved THEN saved[c] ELSE EmptySession

Without(f, x) == [y \in DOMAIN f \ {x} |-> f[y]]
With(f, x, v) == [y \in DOMAIN f \cup {x} |-> IF y = x THEN v ELSE f[y]]
Lookup(f, x, default) == IF x \in DOMAIN f THEN f[x] ELSE default

Covers(s, c) == RoadsOf[c] \subseteq DOMAIN s.plan

CycleAligned(plan, c) ==
    \A r \in RoadsOf[c] : CycleError(plan[r], Red[r]) <= Tolerance

\* Followers of the reference road of the session's direction.
Followers(s, c) == RoadsOf[c] \ {Reference[c][s.direction]}

-----------------------------------------------------------------------------

Idle == [pc |-> "idle", todo |-> {}, period |-> Nothing, replay |-> FALSE]

Init ==
    /\ enabled \in SUBSET Corridors
    /\ active = Nothing /\ globals = EmptySession /\ saved = EmptyPlans
    /\ round = Idle /\ result = EmptyPlans
    /\ handler = [pc |-> "idle", corridor |-> Nothing, requests |-> 0]
    /\ torn = {}

\* The corridors are taken in the order of the file.
FirstOf(corridors) ==
    CorridorOrder[Min({i \in DOMAIN CorridorOrder : CorridorOrder[i] \in corridors})]

Corridor == FirstOf(round.todo)
InRound == round.pc \notin {"idle", "next"}

At(pc) == round.pc = pc
Goto(pc) == round' = [round EXCEPT !.pc = pc]

\* The globals change under a round that is working on them.
Tear == torn' = IF InRound THEN torn \cup {Corridor} ELSE torn

-----------------------------------------------------------------------------
(* The decision thread: one round of coordinate().                         *)

\* load_enabled_green_wave_corridors, then the time of this round from the
\* newest message and, by the age of that message, whether it is a replay.
\* What is read here serves the whole round.
LoadCorridors ==
    /\ At("idle") /\ handler.pc = "idle"
    /\ \E p \in Periods \cup {Nothing}, b \in BOOLEAN :
          round' = [pc |-> "next", todo |-> enabled, period |-> p, replay |-> b]
    /\ UNCHANGED <<enabled, session, result, handler, torn>>

\* A store that cannot be read or that fails validation: the round goes on
\* without green wave and leaves every session as it is.
LoadFails ==
    /\ At("idle") /\ handler.pc = "idle"
    /\ Goto("next")
    /\ UNCHANGED <<enabled, session, result, handler, torn>>

EndRound ==
    /\ At("next") /\ round.todo = {}
    /\ round' = Idle /\ result' = EmptyPlans
    /\ UNCHANGED <<enabled, session, handler, torn>>

\* Mutant: a corridor without a saved session keeps the globals of the one
\* before it.
ActivateKnownOnly ==
    /\ At("next") /\ round.todo # {}
    /\ active' = Corridor
    /\ globals' = IF Corridor \in DOMAIN saved THEN saved[Corridor] ELSE globals
    /\ Goto("open")
    /\ UNCHANGED <<enabled, saved, result, handler, torn>>

\* _activate_corridor_config: the corridor becomes the active one and its
\* session is loaded into the globals.
Activate ==
    /\ At("next") /\ round.todo # {}
    /\ active' = Corridor
    /\ globals' = SessionOf(Corridor)
    /\ Goto("open")
    /\ UNCHANGED <<enabled, saved, result, handler, torn>>

\* Mutant: a running session outlives its period.
OutOfPeriodKeeps ==
    /\ At("open") /\ round.period = Nothing
    /\ Goto("capture")
    /\ UNCHANGED <<enabled, session, result, handler, torn>>

\* Outside the periods a running session is dropped.
OutOfPeriod ==
    /\ At("open") /\ round.period = Nothing
    /\ globals' = IF globals.start THEN EmptySession ELSE globals
    /\ Goto("capture")
    /\ UNCHANGED <<enabled, active, saved, result, handler, torn>>

\* A new session starts from the plans of this round.
Open ==
    /\ At("open") /\ round.period # Nothing /\ ~globals.start
    /\ \E base \in [RoadsOf[Corridor] -> UNION Range(BasePlans)] :
          /\ \A r \in RoadsOf[Corridor] : base[r] \in BasePlans[r]
          /\ globals' = [globals EXCEPT !.start = TRUE, !.cycleGreen = TRUE, !.offsetGreen = FALSE,
                                        !.direction = round.period, !.sent = FALSE, !.plan = base]
    /\ Goto("plan")
    /\ UNCHANGED <<enabled, active, saved, result, handler, torn>>

Resume ==
    /\ At("open") /\ round.period # Nothing /\ globals.start
    /\ Goto("plan")
    /\ UNCHANGED <<enabled, session, result, handler, torn>>

HandOn(plan) == result' = With(result, Corridor, plan)

Planned ==
    /\ Goto("capture")
    /\ UNCHANGED <<enabled, active, saved, handler, torn>>

\* A plan for every road of the corridor, each one of its choices.
NextPlans(choices) ==
    {next \in [RoadsOf[Corridor] -> UNION Range(choices)] :
        \A r \in RoadsOf[Corridor] : next[r] \in choices[r]}

Working == At("plan") /\ globals.start /\ Covers(globals, Corridor)

\* A reset took the flag or the plans away: nothing is coordinated.
NothingToPlan ==
    /\ At("plan") /\ ~(globals.start /\ Covers(globals, Corridor))
    /\ UNCHANGED <<globals, result>>
    /\ Planned

\* A reset took both phase flags away and has not come to the plans yet.
NoPhase ==
    /\ Working /\ ~globals.cycleGreen /\ ~globals.offsetGreen
    /\ UNCHANGED <<globals, result>>
    /\ Planned

\* Less than a cooldown since the last change: the plans are repeated.
CoolDown ==
    /\ Working /\ globals.sent
    /\ HandOn(globals.plan)
    /\ UNCHANGED globals
    /\ Planned

Aligning(next) ==
    LET done == CycleAligned(next, Corridor)
    IN  [globals EXCEPT !.plan = next, !.sent = TRUE, !.cycleDone = done, !.cycleGreen = ~done,
                        !.offsetGreen = IF done THEN TRUE ELSE @]

\* Mutant: the corrected plan is sent and not remembered.
AlignCycleForgetting ==
    /\ Working /\ globals.cycleGreen
    /\ \E next \in NextPlans([r \in RoadsOf[Corridor] |-> Adjusted(globals.plan[r], Red[r])]) :
          /\ globals' = [Aligning(next) EXCEPT !.plan = globals.plan]
          /\ HandOn(next)
    /\ Planned

\* Mutant: a whole step every round, however close the cycle is.
AlignCycleOvershooting ==
    /\ Working /\ globals.cycleGreen
    /\ \E next \in NextPlans([r \in RoadsOf[Corridor] |-> AdjustedOvershooting(globals.plan[r], Red[r])]) :
          /\ globals' = Aligning(next)
          /\ HandOn(next)
    /\ Planned

\* The first phase: every road walks to the common cycle.
AlignCycle ==
    /\ Working /\ globals.cycleGreen
    /\ \E next \in NextPlans([r \in RoadsOf[Corridor] |-> Adjusted(globals.plan[r], Red[r])]) :
          /\ globals' = Aligning(next)
          /\ HandOn(next)
    /\ Planned

InBandPhase == Working /\ ~globals.cycleGreen /\ globals.offsetGreen

\* The second phase, live: the pipeline hands no executed-stage feedback to
\* the coordination, and without it no offset is corrected.
AwaitFeedback ==
    /\ InBandPhase /\ ~round.replay
    /\ HandOn(globals.plan)
    /\ UNCHANGED globals
    /\ Planned

\* The second phase, replay: calc_simulated_offset_map gives each follower
\* whose green misses the platoon a target and drops the target of one that
\* meets it.
OffsetOf(r) == Lookup(globals.offset, r, 0)
TravelOf(r) == Travel[Corridor][globals.direction][r]
HasWindow(r) == InWindow(globals.plan[r], OffsetOf(r), TravelOf(r))
TargetOf(r) ==
    IF r \notin DOMAIN globals.target /\ ~HasWindow(r)
    THEN WantedStart(globals.plan[r], TravelOf(r))
    ELSE Lookup(globals.target, r, Nothing)
MeetsPlatoon(r) == Meets(globals.plan[r], OffsetOf(r), TravelOf(r), TargetOf(r), Nothing)

OpenTargets ==
    {r \in DOMAIN globals.target \cup Followers(globals, Corridor) :
        IF r \in Followers(globals, Corridor) THEN TargetOf(r) # Nothing /\ ~MeetsPlatoon(r)
                                              ELSE TRUE}
NewTargets ==
    [r \in OpenTargets |-> IF r \in Followers(globals, Corridor) THEN TargetOf(r) ELSE globals.target[r]]

BandReached ==
    /\ InBandPhase /\ round.replay
    /\ \A r \in Followers(globals, Corridor) : MeetsPlatoon(r)
    /\ globals' = [globals EXCEPT !.offsetDone = TRUE, !.target = NewTargets]
    /\ HandOn(globals.plan)
    /\ Planned

\* Mutant: the green starts too late by one step, and moves on.
MoveOffsetsPast ==
    /\ InBandPhase /\ round.replay
    /\ \E r \in Followers(globals, Corridor) : ~MeetsPlatoon(r)
    /\ LET moving == {r \in Followers(globals, Corridor) : TargetOf(r) # Nothing}
       IN  globals' = [globals EXCEPT
              !.offsetDone = FALSE, !.target = NewTargets, !.sent = TRUE,
              !.offset = [r \in DOMAIN @ \cup moving |->
                             IF r \in moving THEN (OffsetOf(r) + OffsetStep) % Cycle ELSE @[r]]]
    /\ HandOn(globals.plan)
    /\ Planned

\* The band is missed: the virtual starts move, the greens stay as they are.
MoveOffsets ==
    /\ InBandPhase /\ round.replay
    /\ \E r \in Followers(globals, Corridor) : ~MeetsPlatoon(r)
    /\ LET moving == {r \in Followers(globals, Corridor) : TargetOf(r) # Nothing}
       IN  globals' = [globals EXCEPT
              !.offsetDone = FALSE, !.target = NewTargets, !.sent = TRUE,
              !.offset = [r \in DOMAIN @ \cup moving |->
                             IF r \in moving THEN Moved(OffsetOf(r), TargetOf(r)) ELSE @[r]]]
    /\ HandOn(globals.plan)
    /\ Planned

\* finally: the globals, whatever a reset made of them, become the saved
\* session of the corridor.
Capture ==
    /\ At("capture")
    /\ saved' = With(saved, Corridor, globals)
    /\ round' = [round EXCEPT !.pc = "next", !.todo = @ \ {Corridor}]
    /\ torn' = IF globals = EmptySession THEN torn \ {Corridor} ELSE torn
    /\ UNCHANGED <<enabled, active, globals, result, handler>>

-----------------------------------------------------------------------------
(* The HTTP thread: set_green_wave_corridor_enabled and                    *)
(* save_green_wave_corridor_config, which differ in what they write.  The  *)
(* server handles one request at a time.                                   *)

Handle(pc) == handler' = [handler EXCEPT !.pc = pc]
Finish == handler' = [handler EXCEPT !.pc = "idle", !.corridor = Nothing]

Lock(c) ==
    /\ handler.pc = "idle" /\ handler.requests < MaxRequests
    /\ handler' = [pc |-> "locked", corridor |-> c, requests |-> handler.requests + 1]
    /\ UNCHANGED <<enabled, session, round, result, torn>>

\* The store is unreadable or cannot be written: nothing was changed.
WriteFails ==
    /\ handler.pc = "locked"
    /\ Finish
    /\ UNCHANGED <<enabled, session, round, result, torn>>

\* The file is replaced, still under the lock.
WriteStore ==
    /\ handler.pc = "locked"
    /\ enabled' \in {enabled \cup {handler.corridor}, enabled \ {handler.corridor}}
    /\ Handle("pop")
    /\ UNCHANGED <<session, round, result, torn>>

\* reset_green_wave_state: the saved session goes; a round already working
\* on it will save it again.
ResetPop ==
    /\ handler.pc = "pop"
    /\ saved' = Without(saved, handler.corridor)
    /\ torn' = IF InRound /\ Corridor = handler.corridor THEN torn \cup {Corridor}
                                                         ELSE torn \ {handler.corridor}
    /\ Handle("compare")
    /\ UNCHANGED <<enabled, active, globals, round, result>>

\* If the corridor is the active one the globals follow: first the flag ...
ResetCompare ==
    /\ handler.pc = "compare"
    /\ IF active = handler.corridor THEN Handle("flag") ELSE Finish
    /\ UNCHANGED <<enabled, session, round, result, torn>>

ResetFlag ==
    /\ handler.pc = "flag"
    /\ globals' = [globals EXCEPT !.start = FALSE]
    /\ Tear
    /\ Handle("phases")
    /\ UNCHANGED <<enabled, active, saved, round, result>>

\* ... then the phases and the direction ...
ResetPhases ==
    /\ handler.pc = "phases"
    /\ globals' = [EmptySession EXCEPT
          !.start = globals.start, !.plan = globals.plan, !.sent = globals.sent,
          !.offset = globals.offset, !.target = globals.target]
    /\ Tear
    /\ Handle("plans")
    /\ UNCHANGED <<enabled, active, saved, round, result>>

\* ... then the plans.  By now another corridor may be the active one.
ResetPlans ==
    /\ handler.pc = "plans"
    /\ globals' = [globals EXCEPT !.plan = EmptyPlans, !.sent = FALSE,
                                  !.offset = EmptyPlans, !.target = EmptyPlans]
    /\ Tear
    /\ Finish
    /\ UNCHANGED <<enabled, active, saved, round, result>>

-----------------------------------------------------------------------------

Adjust == AlignCycle \/ BandReached \/ MoveOffsets

DecisionThread ==
    \/ LoadCorridors \/ LoadFails \/ EndRound
    \/ Activate \/ OutOfPeriod \/ Open \/ Resume
    \/ NothingToPlan \/ NoPhase \/ CoolDown \/ Adjust \/ AwaitFeedback
    \/ Capture

HttpThread ==
    \/ WriteFails \/ WriteStore \/ ResetPop
    \/ ResetCompare \/ ResetFlag \/ ResetPhases \/ ResetPlans

Next == DecisionThread \/ (\E c \in Corridors : Lock(c)) \/ HttpThread

\* The decision loop runs for ever and a request that came is finished.  A
\* cooldown passes in the end, so a corridor that keeps being reached is
\* adjusted again.  Nothing makes time, replays or operators move.
Fairness ==
    /\ WF_vars(DecisionThread)
    /\ SF_vars(LoadCorridors)
    /\ WF_vars(HttpThread)
    /\ \A c \in Corridors : SF_vars(Adjust /\ Corridor = c)

Spec == Init /\ [][Next]_vars /\ Fairness

-----------------------------------------------------------------------------
(* Properties.                                                             *)

PlansOf(c) == [RoadsOf[c] -> RoadPlan]

\* What lvbotest may hold of corridor c: plans and offsets belong to roads of
\* c, and an offset lies in the cycle.
OffsetsOf(c) == UNION {[roads -> 0..(Cycle - 1)] : roads \in SUBSET RoadsOf[c]}

SessionsOf(c) ==
    [start : BOOLEAN, cycleGreen : BOOLEAN, offsetGreen : BOOLEAN,
     cycleDone : BOOLEAN, offsetDone : BOOLEAN, direction : Periods \cup {Nothing},
     plan : PlansOf(c) \cup {EmptyPlans}, sent : BOOLEAN,
     offset : OffsetsOf(c), target : OffsetsOf(c)]

\* Types, of torn sessions too: every saved session is one of its own
\* corridor, whatever a reset did to the globals of the round that saved it.
TypeOK ==
    /\ enabled \subseteq Corridors /\ torn \subseteq Corridors
    /\ active \in Corridors \cup {Nothing}
    /\ round \in [pc : {"idle", "next", "open", "plan", "capture"}, todo : SUBSET Corridors,
                 period : Periods \cup {Nothing}, replay : BOOLEAN]
    /\ handler \in [pc : {"idle", "locked", "pop", "compare", "flag", "phases", "plans"},
                   corridor : Corridors \cup {Nothing}, requests : 0..MaxRequests]
    /\ DOMAIN saved \subseteq Corridors /\ DOMAIN result \subseteq Corridors
    /\ \A c \in DOMAIN saved : saved[c] \in SessionsOf(c)
    /\ \A c \in DOMAIN result : result[c] \in PlansOf(c)

\* A session that runs is in exactly one phase and has a plan for every road;
\* in the second phase, and only there, the corridor has its common cycle.
\* A session that does not run holds nothing of an earlier one.
Whole(s, c) ==
    IF ~s.start THEN s = EmptySession
    ELSE /\ Covers(s, c) /\ s.direction \in Periods
         /\ s.cycleGreen # s.offsetGreen
         /\ s.offsetGreen <=> s.cycleDone
         /\ s.offsetGreen => CycleAligned(s.plan, c)
         /\ s.offsetDone => s.offsetGreen
         /\ s.target # EmptyPlans => s.offsetGreen

\* Safety: one set of globals serves every corridor, and yet the session of
\* a corridor stays whole through any number of rounds, replays, periods and
\* operators, unless a reset fell into the very round that worked on it.
SessionsAreWhole == \A c \in DOMAIN saved \ torn : Whole(saved[c], c)

\* Safety: what a session remembers at the end of a round is what that round
\* handed on to the final stages, for every corridor it coordinated.
RemembersWhatItHandedOn ==
    At("next") /\ round.todo = {} => \A c \in (DOMAIN result \cap DOMAIN saved) \ torn :
        saved[c] = EmptySession \/ saved[c].plan = result[c]

\* Action property: the first phase makes progress.  Each change of a running
\* session brings every road closer to its green sum, or to it, whatever the
\* floors and the rounding do.  Only a plan that came in below a floor may
\* first be taken further away, and no plan is below a floor after a change.
AtFloors(plan) == plan.green >= MinGreen /\ plan.balance >= MinGreen

Closer(p, q, red) ==
    \/ Distance(GreenSum(q), TargetSum(red)) < Distance(GreenSum(p), TargetSum(red))
    \/ GreenSum(q) = TargetSum(red)

CycleErrorShrinks ==
    [][\A c \in DOMAIN saved \cap DOMAIN saved' :
          LET s == saved[c]
              t == saved'[c]
          IN  c \notin torn \cup torn' /\ s.start /\ t.start /\ s.plan # t.plan =>
                 \A r \in RoadsOf[c] :
                    /\ AtFloors(t.plan[r])
                    /\ AtFloors(s.plan[r]) => Closer(s.plan[r], t.plan[r], Red[r])]_vars

\* Liveness: a corridor that is enabled and left alone by operators while the
\* rounds replay one and the same period gets its common cycle and then its
\* green band, and keeps both.
LeftAlone(c, p) ==
    /\ handler.pc = "idle" /\ c \in enabled
    /\ InRound => round.period = p /\ round.replay
    /\ c \in DOMAIN saved => c \notin torn /\ (saved[c].start => saved[c].direction = p)

LeftAloneConverges ==
    \A c \in Corridors, p \in Periods :
        <>[]LeftAlone(c, p) => <>[](c \in DOMAIN saved /\ saved[c].offsetDone)

\* Liveness: a session torn by a reset may be stuck, running without plans or
\* without a phase; once the operators stop, the end of a period heals it.
Usable(s, c) == s.start => Covers(s, c) /\ s.cycleGreen # s.offsetGreen

TornSessionsHeal ==
    \A c \in Corridors :
        <>[](handler.pc = "idle") /\ []<>(At("capture") /\ Corridor = c /\ round.period = Nothing)
           => <>[](c \in DOMAIN saved => Usable(saved[c], c))
=============================================================================
