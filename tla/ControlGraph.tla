---------------------------- MODULE ControlGraph ----------------------------
(***************************************************************************)
(* The decision graph of a road (agents/graph.py) with its optional        *)
(* planner and reviewer (agents/cognitive.py), the tools they may use      *)
(* (agents/control_tools.py) and the errors of the model service (models). *)
(*                                                                         *)
(* Workers run the graph for many roads at once.  Each call has a state    *)
(* and a session of its own; what the calls share is the cooldown after a  *)
(* failure of the model service, which one call checks before it builds    *)
(* its request and another may start in between.                           *)
(***************************************************************************)
EXTENDS Naturals, FiniteSets

CONSTANTS
    Roads,
    MaxModelCalls,   \* settings.max_model_calls
    Cooldown,        \* settings.failure_cooldown_seconds, in ticks
    MaxRounds        \* bound: calls of the graph per road

ASSUME SettingsAssumption ==
    /\ MaxModelCalls \in 1..6
    /\ Cooldown \in Nat /\ Cooldown > 0
    /\ MaxRounds \in Nat

VARIABLES
    settings,        \* the part of the settings a site varies, fixed at the start
    call,            \* road -> the state of its call
    cooling,         \* ticks until _cooldown_until
    rounds,          \* road -> calls so far
    late             \* history: road -> requests begun since the cooldown began

vars == <<settings, call, cooling, rounds, late>>

-----------------------------------------------------------------------------
(* The model service.  What happens on the wire, and the exception the     *)
(* gateway makes of it; the client's own retries are off (max_retries = 0).*)

Wire == {"http_error", "http_timeout", "refused", "stalled", "garbage", "cut_off"}

\* QwenProvider._call.  A body that ends early is an HTTPException of
\* http.client, which no clause of it names.
Raised(event) ==
    CASE event \in {"http_error", "refused"} -> "ModelUnavailableError"
      [] event \in {"http_timeout", "stalled"} -> "ModelTimeoutError"
      [] event = "garbage" -> "ModelResponseError"
      [] event = "cut_off" -> "HTTPException"

ServiceErrors == {"ModelUnavailableError", "ModelTimeoutError", "TimeoutError", "ConnectionError"}
ExpectedErrors == ServiceErrors \cup {"ModelResponseError", "ValidationError", "ExpertContractError"}

\* What a read of an expert may raise: the first two are worth a retry, the
\* next two are known, the last stands for a programming error.
Transient == {"TimeoutError", "ConnectionError"}
KnownErrors == Transient \cup {"ValidationError", "ExpertContractError"}
ReadErrors == KnownErrors \cup {"RuntimeError"}
MaxAttempts == 2

-----------------------------------------------------------------------------
(* The state of a call.  The video is "full" with a confidence of 1 and    *)
(* both required maps, which is _enough_data; an expert that "failed" is   *)
(* one the quality issues name.  The reason a session gives for its end is *)
(* not modelled: nothing reads it.                                         *)

Sources == {"video", "radar"}
Queries == {"query_video_state", "query_radar_state", "query_other"}
PlannerTools == Queries \cup {"run_control_policy"}
ReviewerTools == PlannerTools \cup {"review_signal_plan"}

\* query_other: history, anomaly reports and traffic without a sensor source.
SourceOf(tool) == IF tool = "query_video_state" THEN "video" ELSE "radar"

Nodes == {"idle", "primary_expert", "cognition", "fallback_expert",
          "control_policy", "validate", "done", "raised"}

Fresh ==
    [node |-> "primary_expert", attempt |-> 1,
     video |-> "unread", radar |-> "unread", usedFallback |-> FALSE,
     candidate |-> FALSE, ran |-> 0,
     session |-> FALSE, phase |-> "planner", step |-> "check", tool |-> "none",
     calls |-> 0, reviewCalls |-> 0, kept |-> {}, reviewed |-> FALSE,
     reads |-> [s \in Sources |-> 0]]

\* Whether a cognitive controller is configured, and settings.roads: the
\* roads a model may be asked about.
Settings == [cognition : BOOLEAN, roads : SUBSET Roads]

Init ==
    /\ settings \in Settings
    /\ call = [r \in Roads |-> [Fresh EXCEPT !.node = "idle"]]
    /\ cooling = 0
    /\ rounds = [r \in Roads |-> 0]
    /\ late = [r \in Roads |-> 0]

Node(r, node) == call[r].node = node
Thinking(r, step) == Node(r, "cognition") /\ call[r].step = step

Become(r, c) == call' = [call EXCEPT ![r] = c]
Quietly == UNCHANGED <<settings, cooling, rounds, late>>

\* What is left of a call that ended: what its caller can see of it.
Return(c) ==
    [Fresh EXCEPT !.node = "done", !.ran = c.ran, !.video = c.video, !.radar = c.radar,
                  !.usedFallback = c.usedFallback, !.candidate = c.candidate,
                  !.session = c.session, !.calls = c.calls, !.reviewed = c.reviewed]
Raise(c) == [Fresh EXCEPT !.node = "raised", !.ran = c.ran]

\* plan() and review() start here, with what the session already spent.
Think(c, phase) ==
    [c EXCEPT !.node = "cognition", !.session = TRUE, !.phase = phase, !.step = "check",
              !.attempt = 1]

\* Where a call goes when its video is not enough.
Degrade(c) == IF settings.cognition THEN Think(c, "planner")
              ELSE [c EXCEPT !.node = "fallback_expert", !.attempt = 1]

\* The end of a phase: the graph goes on, whatever the reason was.
Leave(c) ==
    IF c.phase = "planner"
    THEN [c EXCEPT !.tool = "none", !.step = "check", !.node = "fallback_expert"]
    ELSE Return(c)

Extracted(c, source) == [c EXCEPT !.reads[source] = @ + 1]

-----------------------------------------------------------------------------
(* The nodes that read and decide.                                         *)

Ask(r) ==
    /\ call[r].node \in {"idle", "done", "raised"} /\ rounds[r] < MaxRounds
    /\ Become(r, Fresh)
    /\ rounds' = [rounds EXCEPT ![r] = @ + 1]
    /\ UNCHANGED <<settings, cooling, late>>

ReadVideo(r) ==
    /\ Node(r, "primary_expert")
    /\ \E quality \in {"poor", "full"} :
          LET c == [Extracted(call[r], "video") EXCEPT !.video = quality]
          IN  Become(r, IF quality = "full" THEN [c EXCEPT !.node = "control_policy"] ELSE Degrade(c))
    /\ Quietly

\* Mutant: the radar the planner read is not looked for in the session.
ReadRadarAgain(r) ==
    /\ Node(r, "fallback_expert")
    /\ Become(r, [Extracted(call[r], "radar") EXCEPT
                     !.radar = "read", !.usedFallback = TRUE, !.node = "control_policy"])
    /\ Quietly

\* The radar is read unless the planner already did.
ReadRadar(r) ==
    /\ Node(r, "fallback_expert")
    /\ LET c == IF "radar" \in call[r].kept THEN call[r] ELSE Extracted(call[r], "radar")
       IN  Become(r, [c EXCEPT !.radar = "read", !.usedFallback = TRUE, !.node = "control_policy"])
    /\ Quietly

Reading(r) == \/ Node(r, "primary_expert")
              \/ Node(r, "fallback_expert") /\ "radar" \notin call[r].kept

\* The retry policy of the two reading nodes.
RetryRead(r) ==
    /\ Reading(r) /\ call[r].attempt < MaxAttempts
    /\ Become(r, [call[r] EXCEPT !.attempt = @ + 1])
    /\ Quietly

\* _expert_error: a known error is an issue and the graph goes on without
\* this expert, any other is raised.
ReadFails(r) ==
    /\ Reading(r)
    /\ \E error \in ReadErrors :
          /\ error \in Transient => call[r].attempt = MaxAttempts
          /\ IF error \in KnownErrors
             THEN Become(r, IF Node(r, "primary_expert")
                            THEN Degrade([call[r] EXCEPT !.video = "failed"])
                            ELSE [call[r] EXCEPT !.radar = "failed", !.usedFallback = TRUE,
                                                 !.node = "control_policy"])
             ELSE Become(r, Raise(call[r]))
    /\ Quietly

\* Mutant: the selector has the retry policy of the readers.
SelectRetrying(r) ==
    /\ Node(r, "control_policy")
    /\ Become(r, [call[r] EXCEPT !.ran = @ + 1, !.attempt = @ + 1,
                                 !.node = IF call[r].attempt < MaxAttempts THEN "control_policy" ELSE "validate"])
    /\ Quietly

Select(r) ==
    /\ Node(r, "control_policy")
    /\ Become(r, [call[r] EXCEPT !.ran = @ + 1, !.node = "validate"])
    /\ Quietly

SelectorRaises(r) ==
    /\ Node(r, "control_policy")
    /\ \E ran \in {0, 1} : Become(r, Raise([call[r] EXCEPT !.ran = ran]))
    /\ Quietly

\* A selection that is no signal plan is handed on, without a candidate; a
\* candidate is reviewed when this call has a session.
Validate(r) ==
    /\ Node(r, "validate")
    /\ \E ok \in BOOLEAN :
          LET c == [call[r] EXCEPT !.candidate = ok]
          IN  Become(r, IF ok /\ c.session THEN Think(c, "reviewer") ELSE Return(c))
    /\ Quietly

-----------------------------------------------------------------------------
(* The planner and the reviewer: CognitiveController._run.                 *)

\* Mutant: the planner may spend the whole budget.
LimitShared(phase) == MaxModelCalls

\* One call is left to the reviewer.
Limit(phase) == IF phase = "planner" THEN MaxModelCalls - 1 ELSE MaxModelCalls

Allowed(phase) == IF phase = "planner" THEN PlannerTools ELSE ReviewerTools

Refuse(r) ==
    /\ Thinking(r, "check") /\ r \notin settings.roads
    /\ Become(r, Leave(call[r]))
    /\ Quietly

BudgetSpent(r) ==
    /\ Thinking(r, "check") /\ r \in settings.roads /\ call[r].calls >= Limit(call[r].phase)
    /\ Become(r, Leave(call[r]))
    /\ Quietly

Affordable(r) ==
    Thinking(r, "check") /\ r \in settings.roads /\ call[r].calls < Limit(call[r].phase)

CoolingDown(r) ==
    /\ Affordable(r) /\ cooling > 0
    /\ Become(r, Leave(call[r]))
    /\ Quietly

\* Mutant: only the first request of a phase looks at the cooldown.
AdmitOnce(r) ==
    /\ Affordable(r) /\ (cooling = 0 \/ call[r].calls > 0)
    /\ Become(r, [call[r] EXCEPT !.step = "send"])
    /\ Quietly

\* _available: the lock is released before the request is built.
Admit(r) ==
    /\ Affordable(r) /\ cooling = 0
    /\ Become(r, [call[r] EXCEPT !.step = "send"])
    /\ Quietly

\* _messages raises or finds the context too long.
NoContext(r) ==
    /\ Thinking(r, "send")
    /\ Become(r, Leave(call[r]))
    /\ Quietly

\* Mutant: a request is counted when its answer is good.
SendUncounted(r) ==
    /\ Thinking(r, "send")
    /\ Become(r, [call[r] EXCEPT !.step = "wait"])
    /\ late' = IF cooling > 0 THEN [late EXCEPT ![r] = @ + 1] ELSE late
    /\ UNCHANGED <<settings, cooling, rounds>>

\* The request is counted before it is made.
Send(r) ==
    /\ Thinking(r, "send")
    /\ Become(r, [call[r] EXCEPT !.step = "wait", !.calls = @ + 1,
                     !.reviewCalls = IF call[r].phase = "reviewer" THEN @ + 1 ELSE @])
    /\ late' = IF cooling > 0 THEN [late EXCEPT ![r] = @ + 1] ELSE late
    /\ UNCHANGED <<settings, cooling, rounds>>

Answer(r) ==
    /\ Thinking(r, "wait")
    /\ \E tool \in ReviewerTools :
          Become(r, IF tool \in Allowed(call[r].phase)
                    THEN [call[r] EXCEPT !.step = "act", !.tool = tool]
                    ELSE Leave(call[r]))
    /\ Quietly

InvalidAnswer(r) ==
    /\ Thinking(r, "wait")
    /\ Become(r, Leave(call[r]))
    /\ Quietly

\* _failure: a service error starts the cooldown, for every road.
Fail(r, error) ==
    /\ Become(r, Leave(call[r]))
    /\ cooling' = IF error \in ServiceErrors THEN Cooldown ELSE cooling
    /\ UNCHANGED <<settings, rounds, late>>

ServiceFails(r) ==
    /\ Thinking(r, "wait")
    /\ \E event \in Wire :
          IF Raised(event) \in ExpectedErrors
          THEN Fail(r, Raised(event))
          ELSE Become(r, Raise(call[r])) /\ Quietly

-----------------------------------------------------------------------------
(* The tools.                                                              *)

Has(c, source) ==
    source \in c.kept \/ (IF source = "video" THEN c.video \in {"poor", "full"} ELSE c.radar = "read")

\* An expert state this call already has is used again, and kept.
Queried(c, source) ==
    [(IF Has(c, source) THEN c ELSE Extracted(c, source)) EXCEPT !.kept = @ \cup {source}]

Continue(c) == [c EXCEPT !.step = "check", !.tool = "none"]

QueryExpert(r) ==
    /\ Thinking(r, "act") /\ call[r].tool \in {"query_video_state", "query_radar_state"}
    /\ Become(r, Continue(Queried(call[r], SourceOf(call[r].tool))))
    /\ Quietly

\* The reviewer may look at the candidate again.
OtherTool(r) ==
    /\ Thinking(r, "act")
    /\ \/ call[r].tool = "query_other"
       \/ call[r].tool = "run_control_policy" /\ call[r].phase = "reviewer"
    /\ Become(r, Continue(call[r]))
    /\ Quietly

PlannerEnds(r) ==
    /\ Thinking(r, "act") /\ call[r].tool = "run_control_policy" /\ call[r].phase = "planner"
    /\ Become(r, Leave(call[r]))
    /\ Quietly

\* A review that asks for more data gets it once and is not thought over.
Review(r) ==
    /\ Thinking(r, "act") /\ call[r].tool = "review_signal_plan"
    /\ LET c == [call[r] EXCEPT !.reviewed = TRUE]
       IN  \E more \in Sources \cup {"none"} :
              Become(r, Leave(IF more = "none" THEN c ELSE Queried(c, more)))
    /\ Quietly

ToolFails(r) ==
    /\ Thinking(r, "act")
    /\ \E error \in ReadErrors, reviewed \in {call[r].reviewed, call[r].tool = "review_signal_plan"} :
          IF error \in ExpectedErrors
          THEN /\ Become(r, Leave([call[r] EXCEPT !.reviewed = reviewed]))
               /\ cooling' = IF error \in ServiceErrors THEN Cooldown ELSE cooling
               /\ UNCHANGED <<settings, rounds, late>>
          ELSE Become(r, Raise(call[r])) /\ Quietly

\* Time passes.
Tick ==
    /\ cooling > 0
    /\ cooling' = cooling - 1
    /\ late' = IF cooling = 1 THEN [r \in Roads |-> 0] ELSE late
    /\ UNCHANGED <<settings, call, rounds>>

-----------------------------------------------------------------------------

Graph(r) ==
    \/ ReadVideo(r) \/ ReadRadar(r) \/ RetryRead(r) \/ ReadFails(r)
    \/ Select(r) \/ SelectorRaises(r) \/ Validate(r)

Cognitive(r) ==
    \/ Refuse(r) \/ BudgetSpent(r) \/ CoolingDown(r) \/ Admit(r)
    \/ NoContext(r) \/ Send(r) \/ Answer(r) \/ InvalidAnswer(r) \/ ServiceFails(r)
    \/ QueryExpert(r) \/ OtherTool(r) \/ PlannerEnds(r) \/ Review(r) \/ ToolFails(r)

Step(r) == Graph(r) \/ Cognitive(r)

Next == Tick \/ \E r \in Roads : Ask(r) \/ Step(r)

\* A call that began goes on: every request to the model has a time limit.
\* Nothing makes a batch ask for another selection.
Spec == Init /\ [][Next]_vars /\ \A r \in Roads : WF_vars(Step(r))

-----------------------------------------------------------------------------
(* Properties.                                                             *)

Calls ==
    [node : Nodes, attempt : 1..MaxAttempts, video : {"unread", "failed", "poor", "full"},
     radar : {"unread", "failed", "read"}, usedFallback : BOOLEAN, candidate : BOOLEAN, ran : 0..1,
     session : BOOLEAN, phase : {"planner", "reviewer"}, step : {"check", "send", "wait", "act"},
     tool : ReviewerTools \cup {"none"}, calls : 0..MaxModelCalls, reviewCalls : 0..MaxModelCalls,
     kept : SUBSET Sources, reviewed : BOOLEAN, reads : [Sources -> Nat]]

\* Types; among them that a call never makes more than max_model_calls
\* requests, and runs the selector once at most.
TypeOK ==
    /\ settings \in Settings
    /\ call \in [Roads -> Calls]
    /\ cooling \in 0..Cooldown
    /\ rounds \in [Roads -> 0..MaxRounds]
    /\ late \in [Roads -> Nat]

\* Safety: the planner cannot starve the reviewer.  Whatever it spent on
\* queries, failures and forbidden actions, a review that is about to end for
\* want of budget had a request of its own.
ReviewHasItsCall ==
    \A r \in Roads :
        Thinking(r, "check") /\ call[r].phase = "reviewer" /\ call[r].calls >= Limit("reviewer")
            => call[r].reviewCalls > 0

\* Safety: the graph, the planner and the reviewer all read the experts, with
\* retries, and yet no source is extracted twice in a call: what one of them
\* read is used by the next.
OneReadPerSource ==
    \A r \in Roads, s \in Sources : call[r].reads[s] <= 1

\* Safety: an outage of the model service costs a road at most one request,
\* the one it had been admitted for, however many calls of the graph fall
\* into the cooldown and however often other roads extend it.
OutageCostsOneCall == \A r \in Roads : late[r] <= 1

\* Safety: the decision tells how it came about.  The radar was consulted,
\* or tried and named as an issue, if and only if the video was not enough;
\* the model was asked only then, and reviewed only a candidate.
RouteIsHonest ==
    \A r \in Roads : call[r].node = "done" =>
        LET c == call[r]
        IN  /\ c.usedFallback <=> c.video # "full"
            /\ c.usedFallback <=> c.radar # "unread"
            /\ c.calls > 0 => c.usedFallback
            /\ c.reviewed => c.candidate /\ c.session

\* The call as its caller sees it implements the abstract one: it ends, and
\* a call that returns ran the selector exactly once.
Status(node) ==
    IF node = "idle" THEN "idle" ELSE IF node = "done" THEN "returned"
    ELSE IF node = "raised" THEN "raised" ELSE "asked"

Abstract == INSTANCE SelectorCall WITH
    status <- [r \in Roads |-> Status(call[r].node)],
    ran <- [r \in Roads |-> call[r].ran]

CallSpec == Abstract!Spec

\* What docs/v2_qwen_agent.md says of the model: its failures do not take the
\* place of the controller.  No call is lost to the model service.
ModelFailureKeepsThePlan ==
    [][\A r \in Roads : ServiceFails(r) => call'[r].node # "raised"]_vars
=============================================================================
