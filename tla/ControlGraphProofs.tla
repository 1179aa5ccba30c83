------------------------- MODULE ControlGraphProofs -------------------------
(***************************************************************************)
(* The decision graph for any number of roads, any budget of model calls   *)
(* and any length of the cooldown.  The argument is about one call at a    *)
(* time: Good says which data a call can have at which node, every action  *)
(* of a road keeps its call Good and leaves the others alone.  Only the    *)
(* cooldown is shared: Spared says what the calls still owe it.            *)
(***************************************************************************)
EXTENDS ControlGraph, TLAPS

\* Until the planner is through nothing was decided and no review began.
Undecided(c) ==
    /\ c.ran = 0 /\ ~c.candidate /\ ~c.reviewed /\ ~c.usedFallback
    /\ c.radar = "unread" /\ c.phase = "planner" /\ c.reviewCalls = 0

\* Before the first expert was read.
Untouched(c) ==
    /\ Undecided(c) /\ c.video = "unread" /\ ~c.session
    /\ c.calls = 0 /\ c.kept = {} /\ \A s \in Sources : c.reads[s] = 0

Degraded(c) == Undecided(c) /\ c.video \in {"failed", "poor"}

Honest(c) ==
    /\ c.usedFallback <=> c.video # "full"
    /\ c.usedFallback <=> c.radar # "unread"
    /\ c.calls > 0 => c.usedFallback
    /\ c.session => c.usedFallback
    /\ c.reviewed => c.candidate /\ c.session

Ended(c) == c.node \in {"idle", "done", "raised"}

\* A source that was extracted is still at hand.
AtHand(c) ==
    \A s \in Sources : /\ c.reads[s] <= 1
                       /\ c.reads[s] = 1 => Has(c, s)

\* What the planner left of the budget is the reviewer's.
Budgeted(c) ==
    /\ c.calls <= MaxModelCalls - 1 + c.reviewCalls /\ c.reviewCalls <= c.calls
    /\ c.step = "send" => c.calls < Limit(c.phase)

Placed(c) ==
    /\ c.node = "primary_expert" => Untouched(c)
    /\ c.node = "fallback_expert" => Degraded(c)
    /\ c.node = "cognition" /\ c.phase = "planner" => Degraded(c)
    /\ c.node = "cognition" /\ c.phase = "reviewer" =>
          Honest(c) /\ c.ran = 1 /\ c.candidate /\ c.session
    /\ c.node = "control_policy" => Honest(c) /\ c.ran = 0 /\ ~c.reviewed
    /\ c.node = "validate" => Honest(c) /\ c.ran = 1 /\ ~c.reviewed
    /\ c.node = "done" => Honest(c) /\ c.ran = 1
    /\ c.node # "cognition" => c.step = "check" /\ c.phase = "planner"
    /\ c.step = "act" => c.tool \in Allowed(c.phase)

\* An ended call keeps only what its caller sees.
Good(c) ==
    /\ c \in Calls /\ Placed(c)
    /\ IF Ended(c) THEN c.step = "check" /\ \A s \in Sources : c.reads[s] = 0
       ELSE AtHand(c) /\ Budgeted(c)

\* A road that was admitted before the cooldown began may still send once.
Spared ==
    /\ \A r \in Roads : late[r] <= (IF call[r].step = "send" THEN 0 ELSE 1)
    /\ cooling = 0 => \A r \in Roads : late[r] = 0

Shared ==
    /\ settings \in Settings /\ cooling \in 0..Cooldown
    /\ rounds \in [Roads -> 0..MaxRounds] /\ late \in [Roads -> Nat]

GraphInvariant ==
    /\ Shared /\ call \in [Roads -> Calls]
    /\ \A r \in Roads : Good(call[r])
    /\ Spared

-----------------------------------------------------------------------------
(* How a call changes.                                                     *)

LEMMA FreshHasItsType == Fresh \in Calls
  <1>1. [s \in Sources |-> 0] \in [Sources -> Nat] /\ {} \in SUBSET Sources
    OBVIOUS
  <1>2. 1 \in 1..MaxAttempts /\ 0 \in 0..MaxModelCalls /\ 0 \in 0..1
    BY SettingsAssumption DEF MaxAttempts
  <1> QED
    BY <1>1, <1>2 DEF Fresh, Calls, Nodes

LEMMA FreshIsGood == Good(Fresh) /\ Good([Fresh EXCEPT !.node = "idle"])
  <1>1. /\ Fresh \in Calls /\ [Fresh EXCEPT !.node = "idle"] \in Calls
        /\ \A s \in Sources : Fresh.reads[s] = 0
    BY FreshHasItsType DEF Fresh, Calls, Nodes
  <1>2. Placed(Fresh) /\ AtHand(Fresh) /\ Budgeted(Fresh) /\ ~Ended(Fresh)
    BY <1>1, SettingsAssumption
    DEF Fresh, Placed, Untouched, Undecided, AtHand, Budgeted, Ended
  <1>3. Placed([Fresh EXCEPT !.node = "idle"])
    BY DEF Fresh, Placed
  <1> QED
    BY <1>1, <1>2, <1>3 DEF Good, Fresh, Ended

LEMMA RaiseIsGood ==
    ASSUME NEW c \in Calls
    PROVE  Good(Raise(c)) /\ Raise(c).node = "raised" /\ Raise(c).step = "check"
  <1>1. Raise(c) \in Calls
    BY FreshHasItsType DEF Raise, Calls, Nodes
  <1>2. Raise(c).node = "raised" /\ Raise(c).step = "check" /\ Raise(c).phase = "planner"
        /\ \A s \in Sources : Raise(c).reads[s] = 0
    BY DEF Raise, Fresh
  <1> QED
    BY <1>1, <1>2 DEF Good, Placed, Ended

LEMMA ReturnIsGood ==
    ASSUME NEW c \in Calls, Honest(c), c.ran = 1
    PROVE  Good(Return(c)) /\ Return(c).node = "done" /\ Return(c).step = "check"
  <1>1. Return(c) \in Calls
    BY FreshHasItsType DEF Return, Calls, Nodes
  <1>2. Return(c).node = "done" /\ Return(c).step = "check" /\ Return(c).phase = "planner"
        /\ \A s \in Sources : Return(c).reads[s] = 0
    BY DEF Return, Fresh
  <1>3. Honest(Return(c)) /\ Return(c).ran = 1
    BY DEF Return, Fresh, Honest
  <1> QED
    BY <1>1, <1>2, <1>3 DEF Good, Placed, Ended

\* A phase of the planner or the reviewer ends where the graph goes on.
LEMMA LeaveIsGood ==
    ASSUME NEW c, Good(c), c.node = "cognition"
    PROVE  Good(Leave(c)) /\ Leave(c).step = "check"
  <1>1. CASE c.phase = "planner"
    BY <1>1, SettingsAssumption
    DEF Good, Leave, Calls, Placed, Ended, Degraded, Undecided, AtHand, Has, Budgeted, Nodes,
        Sources, ReviewerTools, Limit
  <1>2. CASE c.phase = "reviewer"
    BY <1>2, ReturnIsGood DEF Leave, Good, Placed
  <1> QED
    BY <1>1, <1>2 DEF Good, Calls

\* The planner starts where the video was not enough.
LEMMA DegradeIsGood ==
    ASSUME NEW c \in Calls, Degraded(c), c.node = "primary_expert", c.step = "check", c.calls = 0,
           AtHand(c)
    PROVE  Good(Degrade(c)) /\ Degrade(c).step = "check"
  <1>1. Degrade(c) \in Calls /\ Degrade(c).step = "check"
    <2>1. 1 \in 1..MaxAttempts
      BY DEF MaxAttempts
    <2> QED
      BY <2>1 DEF Degrade, Think, Calls, Nodes
  <1>2. Placed(Degrade(c)) /\ ~Ended(Degrade(c))
    BY DEF Degrade, Think, Calls, Placed, Ended, Degraded, Undecided
  <1>3. AtHand(Degrade(c)) /\ Budgeted(Degrade(c))
    BY SettingsAssumption
    DEF Degrade, Think, Calls, AtHand, Has, Budgeted, Degraded, Undecided
  <1> QED
    BY <1>1, <1>2, <1>3 DEF Good

LEMMA QueriedIsGood ==
    ASSUME NEW c, NEW s \in Sources, Good(c), c.node = "cognition"
    PROVE  Good(Queried(c, s)) /\ Queried(c, s).node = "cognition" /\ Queried(c, s).step = c.step
  <1>1. Queried(c, s) \in Calls /\ AtHand(Queried(c, s))
    BY DEF Good, Ended, Queried, Extracted, Calls, AtHand, Has, Sources
  <1>2. Placed(Queried(c, s)) /\ Budgeted(Queried(c, s))
    BY DEF Good, Ended, Queried, Extracted, Calls, Placed, Budgeted, Honest, Degraded, Undecided, Limit
  <1> QED
    BY <1>1, <1>2 DEF Good, Ended, Queried, Extracted, Calls

-----------------------------------------------------------------------------
(* The steps of one road.                                                  *)

\* A road that leaves what is shared alone owes only that its own call is
\* Good, and that it was admitted while nothing was cooling.
LEMMA QuietStep ==
    ASSUME GraphInvariant, NEW r \in Roads, NEW c, Become(r, c), Quietly, Good(c),
           c.step = "send" => cooling = 0 \/ call[r].step = "send"
    PROVE  GraphInvariant'
  <1>1. call' \in [Roads -> Calls] /\ \A q \in Roads : Good(call'[q])
    BY DEF GraphInvariant, Become, Good
  <1>2. Shared'
    BY DEF GraphInvariant, Shared, Quietly
  <1>3. Spared'
    BY DEF GraphInvariant, Shared, Spared, Quietly, Become
  <1> QED
    BY <1>1, <1>2, <1>3 DEF GraphInvariant

LEMMA AskStep == ASSUME GraphInvariant, NEW r \in Roads, Ask(r) PROVE GraphInvariant'
  <1>1. call' \in [Roads -> Calls] /\ \A q \in Roads : Good(call'[q])
    BY FreshIsGood DEF GraphInvariant, Ask, Become, Good
  <1>2. Shared'
    BY SettingsAssumption DEF GraphInvariant, Shared, Ask
  <1>3. Spared'
    BY DEF GraphInvariant, Shared, Spared, Ask, Become, Fresh
  <1> QED
    BY <1>1, <1>2, <1>3 DEF GraphInvariant

LEMMA ReadVideoStep == ASSUME GraphInvariant, NEW r \in Roads, ReadVideo(r) PROVE GraphInvariant'
  <1>1. Good(call[r]) /\ call[r] \in Calls /\ Untouched(call[r]) /\ call[r].step = "check"
    BY DEF GraphInvariant, ReadVideo, Node, Good, Placed
  <1>2. PICK quality \in {"poor", "full"} :
           LET c == [Extracted(call[r], "video") EXCEPT !.video = quality]
           IN  Become(r, IF quality = "full" THEN [c EXCEPT !.node = "control_policy"] ELSE Degrade(c))
    BY DEF ReadVideo
  <1> DEFINE c == [Extracted(call[r], "video") EXCEPT !.video = quality]
  <1>3. /\ c \in Calls /\ c.node = "primary_expert" /\ c.step = "check" /\ c.calls = 0
        /\ Undecided(c) /\ c.video = quality /\ ~c.session
    <2>1. Extracted(call[r], "video") \in Calls
      BY <1>1 DEF Extracted, Calls, Sources
    <2>2. c \in Calls /\ c.video = quality
      BY <2>1, <1>2 DEF Calls
    <2> QED
      BY <2>2, <1>1 DEF Extracted, Calls, ReadVideo, Node, Untouched, Undecided
  <1>4. AtHand(c)
    BY <1>1 DEF Extracted, Calls, Untouched, AtHand, Has, Sources
  <1>5. CASE quality = "poor"
    <2>1. Good(Degrade(c)) /\ Degrade(c).step = "check"
      BY <1>3, <1>4, <1>5, DegradeIsGood DEF Degraded
    <2> QED
      BY <1>2, <1>5, <2>1, QuietStep DEF ReadVideo
  <1>6. CASE quality = "full"
    <2> DEFINE d == [c EXCEPT !.node = "control_policy"]
    <2>1. d \in Calls /\ d.step = "check" /\ ~Ended(d)
      BY <1>3 DEF Calls, Nodes, Ended
    <2>2. AtHand(d) /\ Budgeted(d)
      BY <1>3, <1>4, SettingsAssumption DEF Calls, AtHand, Has, Budgeted, Undecided
    <2>3. Placed(d)
      BY <1>3, <1>6 DEF Calls, Placed, Honest, Undecided
    <2> HIDE DEF d
    <2>4. Good(d)
      BY <2>1, <2>2, <2>3 DEF Good
    <2>5. Become(r, d)
      BY <1>2, <1>6 DEF d
    <2> QED
      BY <2>1, <2>4, <2>5, QuietStep DEF ReadVideo
  <1> QED
    BY <1>5, <1>6

LEMMA ReadRadarStep == ASSUME GraphInvariant, NEW r \in Roads, ReadRadar(r) PROVE GraphInvariant'
  <1>1. Good(call[r]) /\ call[r] \in Calls /\ Degraded(call[r]) /\ call[r].node = "fallback_expert"
    BY DEF GraphInvariant, ReadRadar, Node, Good, Placed
  <1> DEFINE c == IF "radar" \in call[r].kept THEN call[r] ELSE Extracted(call[r], "radar")
             d == [c EXCEPT !.radar = "read", !.usedFallback = TRUE, !.node = "control_policy"]
  <1>2. c \in Calls /\ \A s \in Sources : c.reads[s] <= 1
    BY <1>1 DEF Good, Calls, Extracted, Ended, AtHand, Has, Sources, Degraded, Undecided
  <1>3. \A s \in Sources : c.reads[s] = 1 => s = "radar" \/ Has(call[r], s)
    BY <1>1 DEF Good, Calls, Extracted, Ended, AtHand, Sources
  <1>4. /\ d \in Calls /\ d.step = "check" /\ ~Ended(d) /\ d.node = "control_policy"
        /\ d.phase = "planner" /\ d.radar = "read" /\ d.usedFallback /\ d.video = call[r].video
        /\ d.ran = 0 /\ ~d.reviewed
    BY <1>1, <1>2 DEF Calls, Nodes, Ended, Good, Placed, Degraded, Undecided, Extracted
  <1>5. AtHand(d)
    BY <1>1, <1>2, <1>3 DEF AtHand, Has, Calls, Extracted
  <1>6. Budgeted(d)
    BY <1>1 DEF Good, Ended, Budgeted, Calls, Extracted, Placed
  <1>7. Become(r, d)
    BY DEF ReadRadar
  <1> HIDE DEF d
  <1>8. Good(d)
    BY <1>1, <1>4, <1>5, <1>6 DEF Good, Placed, Honest, Degraded
  <1> QED
    BY <1>4, <1>7, <1>8, QuietStep DEF ReadRadar

LEMMA RetryStep == ASSUME GraphInvariant, NEW r \in Roads, RetryRead(r) PROVE GraphInvariant'
  <1> DEFINE c == [call[r] EXCEPT !.attempt = @ + 1]
  <1>1. Good(call[r]) /\ call[r].attempt < MaxAttempts /\ call[r].node # "cognition" /\ Become(r, c)
    BY DEF GraphInvariant, RetryRead, Reading, Node
  <1>2. c \in Calls /\ Good(c) /\ c.step = "check"
    BY <1>1
    DEF Good, Calls, Ended, Placed, Untouched, Degraded, Undecided, Honest, AtHand, Has, Budgeted, MaxAttempts
  <1> QED
    BY <1>1, <1>2, QuietStep DEF RetryRead

LEMMA ReadFailsStep == ASSUME GraphInvariant, NEW r \in Roads, ReadFails(r) PROVE GraphInvariant'
  <1>1. Good(call[r]) /\ call[r] \in Calls /\ call[r].step = "check"
    BY DEF GraphInvariant, ReadFails, Reading, Node, Good, Placed
  <1>2. CASE Become(r, Raise(call[r]))
    BY <1>1, <1>2, RaiseIsGood, QuietStep DEF ReadFails
  <1>3. CASE Node(r, "primary_expert") /\ Become(r, Degrade([call[r] EXCEPT !.video = "failed"]))
    <2> DEFINE c == [call[r] EXCEPT !.video = "failed"]
    <2>1. c \in Calls /\ Degraded(c) /\ AtHand(c) /\ c.node = "primary_expert" /\ c.calls = 0
          /\ c.step = "check"
      BY <1>1, <1>3 DEF Node, Good, Calls, Placed, Untouched, Undecided, Degraded, AtHand, Has
    <2> QED
      BY <2>1, <1>3, DegradeIsGood, QuietStep DEF ReadFails
  <1>4. CASE /\ Node(r, "fallback_expert")
             /\ Become(r, [call[r] EXCEPT !.radar = "failed", !.usedFallback = TRUE,
                                          !.node = "control_policy"])
    <2> DEFINE d == [call[r] EXCEPT !.radar = "failed", !.usedFallback = TRUE,
                                   !.node = "control_policy"]
    <2>1. Degraded(call[r]) /\ AtHand(call[r]) /\ Budgeted(call[r]) /\ "radar" \notin call[r].kept
      BY <1>1, <1>4 DEF Node, Good, Placed, Ended, ReadFails, Reading
    <2>2. d \in Calls /\ ~Ended(d) /\ d.step = "check"
      BY <1>1 DEF Calls, Nodes, Ended
    <2>3. AtHand(d) /\ Budgeted(d)
      BY <1>1, <2>1 DEF Calls, AtHand, Has, Budgeted, Degraded, Undecided
    <2>4. Placed(d)
      BY <1>1, <2>1 DEF Calls, Placed, Honest, Degraded, Undecided
    <2> QED
      BY <2>2, <2>3, <2>4, <1>4, QuietStep DEF Good, ReadFails
  <1> QED
    BY <1>2, <1>3, <1>4 DEF ReadFails, Reading, Node

LEMMA SelectStep == ASSUME GraphInvariant, NEW r \in Roads, Select(r) PROVE GraphInvariant'
  <1> DEFINE c == [call[r] EXCEPT !.ran = @ + 1, !.node = "validate"]
  <1>1. Good(call[r]) /\ call[r].node = "control_policy" /\ Become(r, c)
    BY DEF GraphInvariant, Select, Node
  <1>2. c \in Calls /\ c.step = "check" /\ ~Ended(c)
    <2>1. call[r].ran + 1 \in 0..1 /\ call[r].step = "check"
      BY <1>1 DEF Good, Calls, Placed
    <2> QED
      BY <1>1, <2>1 DEF Good, Calls, Nodes, Ended
  <1>3. Placed(c) /\ AtHand(c) /\ Budgeted(c)
    BY <1>1 DEF Good, Calls, Ended, Placed, Honest, AtHand, Has, Budgeted
  <1> QED
    BY <1>1, <1>2, <1>3, QuietStep DEF Good, Select

LEMMA SelectorRaisesStep == ASSUME GraphInvariant, NEW r \in Roads, SelectorRaises(r) PROVE GraphInvariant'
  <1>1. PICK ran \in {0, 1} : Become(r, Raise([call[r] EXCEPT !.ran = ran]))
    BY DEF SelectorRaises
  <1>2. [call[r] EXCEPT !.ran = ran] \in Calls
    BY DEF GraphInvariant, Calls
  <1> QED
    BY <1>1, <1>2, RaiseIsGood, QuietStep DEF SelectorRaises

LEMMA ValidateStep == ASSUME GraphInvariant, NEW r \in Roads, Validate(r) PROVE GraphInvariant'
  <1>1. PICK ok \in BOOLEAN :
           LET c == [call[r] EXCEPT !.candidate = ok]
           IN  Become(r, IF ok /\ c.session THEN Think(c, "reviewer") ELSE Return(c))
    BY DEF Validate
  <1> DEFINE c == [call[r] EXCEPT !.candidate = ok]
  <1>2. Good(call[r]) /\ call[r].node = "validate" /\ Honest(call[r]) /\ call[r].ran = 1
        /\ ~call[r].reviewed /\ call[r].step = "check"
    BY DEF GraphInvariant, Validate, Node, Good, Placed
  <1>3. c \in Calls /\ Honest(c) /\ c.ran = 1 /\ c.step = "check" /\ c.node = "validate"
        /\ ~c.reviewed /\ AtHand(c) /\ Budgeted(c) /\ c.candidate = ok
    BY <1>2 DEF Good, Calls, Ended, Honest, AtHand, Has, Budgeted
  <1>4. CASE ok /\ c.session
    <2> DEFINE d == Think(c, "reviewer")
    <2>1. d \in Calls /\ d.step = "check" /\ ~Ended(d)
      <3>1. 1 \in 1..MaxAttempts
        BY DEF MaxAttempts
      <3> QED
        BY <3>1, <1>3 DEF Think, Calls, Nodes, Ended
    <2>2. Placed(d) /\ AtHand(d) /\ Budgeted(d)
      BY <1>3, <1>4 DEF Think, Calls, Placed, Honest, AtHand, Has, Budgeted
    <2> QED
      BY <1>1, <1>4, <2>1, <2>2, QuietStep DEF Good, Validate
  <1>5. CASE ~(ok /\ c.session)
    BY <1>1, <1>3, <1>5, ReturnIsGood, QuietStep DEF Validate
  <1> QED
    BY <1>4, <1>5

\* The ways a phase ends: nothing was allowed, nothing left, or nothing asked.
LEMMA LeaveStep ==
    ASSUME GraphInvariant, NEW r \in Roads, Node(r, "cognition"), Become(r, Leave(call[r])), Quietly
    PROVE  GraphInvariant'
  BY LeaveIsGood, QuietStep DEF GraphInvariant, Node

LEMMA AdmitStep == ASSUME GraphInvariant, NEW r \in Roads, Admit(r) PROVE GraphInvariant'
  <1> DEFINE c == [call[r] EXCEPT !.step = "send"]
  <1>1. Good(call[r]) /\ call[r].node = "cognition" /\ call[r].calls < Limit(call[r].phase) /\ Become(r, c)
        /\ cooling = 0
    BY DEF GraphInvariant, Admit, Affordable, Thinking, Node
  <1>2. Good(c)
    BY <1>1 DEF Good, Calls, Ended, Placed, Degraded, Undecided, Honest, AtHand, Has, Budgeted
  <1> QED
    BY <1>1, <1>2, QuietStep DEF Admit

LEMMA SendStep == ASSUME GraphInvariant, NEW r \in Roads, Send(r) PROVE GraphInvariant'
  <1> DEFINE c == [call[r] EXCEPT !.step = "wait", !.calls = @ + 1,
                     !.reviewCalls = IF call[r].phase = "reviewer" THEN @ + 1 ELSE @]
  <1>1. Good(call[r]) /\ call[r] \in Calls /\ call[r].node = "cognition" /\ call[r].step = "send"
        /\ Become(r, c)
    BY DEF GraphInvariant, Send, Thinking, Node, Good
  <1>2. AtHand(call[r]) /\ Budgeted(call[r]) /\ call[r].calls < Limit(call[r].phase)
    BY <1>1 DEF Good, Ended, Budgeted
  <1>3. call[r].calls + 1 \in 0..MaxModelCalls /\ call[r].reviewCalls + 1 \in 0..MaxModelCalls
    BY <1>1, <1>2, SettingsAssumption DEF Calls, Limit, Budgeted
  <1>4. c \in Calls /\ c.node = "cognition"
    BY <1>1, <1>3 DEF Calls
  <1>5. Budgeted(c) /\ AtHand(c)
    BY <1>1, <1>2, SettingsAssumption DEF Calls, Budgeted, AtHand, Has, Limit
  <1>6. Placed(c)
    <2>1. CASE call[r].phase = "planner"
      BY <1>1, <2>1 DEF Good, Calls, Placed, Degraded, Undecided
    <2>2. CASE call[r].phase = "reviewer"
      <3>1. Honest(call[r]) /\ call[r].usedFallback
        BY <1>1, <2>2 DEF Good, Placed, Honest
      <3> QED
        BY <1>1, <2>2, <3>1 DEF Good, Calls, Placed, Honest
    <2> QED
      BY <1>1, <2>1, <2>2 DEF Calls
  <1>7. Good(c)
    BY <1>4, <1>5, <1>6 DEF Good, Ended
  <1>8. call' \in [Roads -> Calls] /\ \A q \in Roads : Good(call'[q])
    BY <1>1, <1>4, <1>7 DEF GraphInvariant, Become
  <1>9. Shared' /\ Spared'
    BY <1>1, <1>4 DEF GraphInvariant, Shared, Spared, Send, Become, Calls
  <1> QED
    BY <1>8, <1>9 DEF GraphInvariant

LEMMA AnswerStep == ASSUME GraphInvariant, NEW r \in Roads, Answer(r) PROVE GraphInvariant'
  <1>1. PICK tool \in ReviewerTools :
           Become(r, IF tool \in Allowed(call[r].phase)
                     THEN [call[r] EXCEPT !.step = "act", !.tool = tool]
                     ELSE Leave(call[r]))
    BY DEF Answer
  <1>2. CASE tool \in Allowed(call[r].phase)
    <2> DEFINE c == [call[r] EXCEPT !.step = "act", !.tool = tool]
    <2>1. Good(call[r]) /\ call[r].node = "cognition"
      BY DEF GraphInvariant, Answer, Thinking, Node
    <2>2. Good(c)
      BY <1>2, <2>1 DEF Good, Calls, Ended, Placed, Degraded, Undecided, Honest, AtHand, Has, Budgeted
    <2>3. Become(r, c) /\ c.step = "act" /\ Quietly
      BY <1>1, <1>2, <2>1 DEF Answer, Good, Calls
    <2> QED
      BY <2>2, <2>3, QuietStep
  <1>3. CASE tool \notin Allowed(call[r].phase)
    <2>1. Node(r, "cognition") /\ Quietly
      BY DEF Answer, Thinking
    <2> QED
      BY <1>1, <1>3, <2>1, LeaveStep
  <1> QED
    BY <1>2, <1>3

\* A failure starts or extends the cooldown; calls that were admitted before
\* keep the one request they are about to make.
LEMMA FailStep ==
    ASSUME GraphInvariant, NEW r \in Roads, Node(r, "cognition"), NEW c, Good(c), c.node = "cognition",
           Become(r, Leave(c)), cooling' \in {cooling, Cooldown}, UNCHANGED <<settings, rounds, late>>
    PROVE  GraphInvariant'
  <1>1. Good(Leave(c)) /\ Leave(c).step = "check" /\ Leave(c) \in Calls
    BY LeaveIsGood DEF Good
  <1>2. call' \in [Roads -> Calls] /\ \A q \in Roads : Good(call'[q])
    BY <1>1 DEF GraphInvariant, Become
  <1>3. Shared' /\ Spared'
    BY <1>1, SettingsAssumption DEF GraphInvariant, Shared, Spared, Become
  <1> QED
    BY <1>2, <1>3 DEF GraphInvariant

LEMMA ServiceFailsStep == ASSUME GraphInvariant, NEW r \in Roads, ServiceFails(r) PROVE GraphInvariant'
  <1>1. Good(call[r]) /\ Node(r, "cognition") /\ call[r].node = "cognition" /\ call[r] \in Calls
    BY DEF GraphInvariant, ServiceFails, Thinking, Node
  <1>2. CASE Become(r, Raise(call[r])) /\ Quietly
    BY <1>1, <1>2, RaiseIsGood, QuietStep
  <1>3. CASE \E event \in Wire : Fail(r, Raised(event))
    BY <1>1, <1>3, FailStep DEF Fail
  <1> QED
    BY <1>2, <1>3 DEF ServiceFails

\* The tool a step runs is one its phase allows; the call goes on with it.
LEMMA ActingIsGood ==
    ASSUME GraphInvariant, NEW r \in Roads, Thinking(r, "act")
    PROVE  /\ Good(call[r]) /\ Node(r, "cognition") /\ call[r].node = "cognition"
           /\ call[r].tool \in Allowed(call[r].phase)
           /\ \A c : Good(c) /\ c.node = "cognition" => Good(Continue(c)) /\ Continue(c).step = "check"
  <1>1. Good(call[r]) /\ Node(r, "cognition") /\ call[r].node = "cognition" /\ call[r].step = "act"
    BY DEF GraphInvariant, Thinking, Node
  <1>2. ASSUME NEW c, Good(c), c.node = "cognition"
        PROVE  Good(Continue(c)) /\ Continue(c).step = "check"
    BY <1>2
    DEF Good, Continue, Calls, Ended, Placed, Degraded, Undecided, Honest, AtHand, Has, Budgeted
  <1> QED
    BY <1>1, <1>2 DEF Good, Placed

LEMMA QueryStep == ASSUME GraphInvariant, NEW r \in Roads, QueryExpert(r) PROVE GraphInvariant'
  <1> DEFINE s == SourceOf(call[r].tool)
  <1>1. Thinking(r, "act") /\ Become(r, Continue(Queried(call[r], s))) /\ Quietly /\ s \in Sources
    BY DEF QueryExpert, SourceOf, Sources
  <1> HIDE DEF s
  <1>2. Good(Queried(call[r], s)) /\ Queried(call[r], s).node = "cognition"
    BY <1>1, ActingIsGood, QueriedIsGood
  <1>3. Good(Continue(Queried(call[r], s))) /\ Continue(Queried(call[r], s)).step = "check"
    BY <1>1, <1>2, ActingIsGood
  <1> QED
    BY <1>1, <1>3, QuietStep

LEMMA OtherToolStep == ASSUME GraphInvariant, NEW r \in Roads, OtherTool(r) PROVE GraphInvariant'
  <1>1. Thinking(r, "act") /\ Become(r, Continue(call[r])) /\ Quietly
    BY DEF OtherTool
  <1>2. Good(Continue(call[r])) /\ Continue(call[r]).step = "check"
    BY <1>1, ActingIsGood
  <1> QED
    BY <1>1, <1>2, QuietStep

\* Only the reviewer is allowed the review, and it has a candidate.
LEMMA ReviewedIsGood ==
    ASSUME GraphInvariant, NEW r \in Roads, Thinking(r, "act"), call[r].tool = "review_signal_plan"
    PROVE  Good([call[r] EXCEPT !.reviewed = TRUE])
  <1>1. Good(call[r]) /\ call[r].node = "cognition" /\ call[r].phase = "reviewer"
    BY ActingIsGood DEF Allowed, PlannerTools, Queries, Good, Calls
  <1>2. Honest(call[r]) /\ call[r].ran = 1 /\ call[r].candidate /\ call[r].session
    BY <1>1 DEF Good, Placed
  <1> QED
    BY <1>1, <1>2 DEF Good, Calls, Ended, Placed, Honest, AtHand, Has, Budgeted

LEMMA ReviewStep == ASSUME GraphInvariant, NEW r \in Roads, Review(r) PROVE GraphInvariant'
  <1> DEFINE c == [call[r] EXCEPT !.reviewed = TRUE]
  <1>1. Thinking(r, "act") /\ Node(r, "cognition") /\ Quietly
    BY DEF Review, Thinking
  <1>2. Good(c) /\ c.node = "cognition"
    BY <1>1, ReviewedIsGood, ActingIsGood DEF Review, Good, Calls
  <1> HIDE DEF c
  <1>3. PICK more \in Sources \cup {"none"} :
           Become(r, Leave(IF more = "none" THEN c ELSE Queried(c, more)))
    BY DEF Review, c
  <1>4. PICK d : d = (IF more = "none" THEN c ELSE Queried(c, more))
    OBVIOUS
  <1>5. Good(d) /\ d.node = "cognition" /\ Become(r, Leave(d))
    BY <1>2, <1>3, <1>4, QueriedIsGood
  <1> QED
    BY <1>1, <1>5, LeaveIsGood, QuietStep

LEMMA ToolFailsStep == ASSUME GraphInvariant, NEW r \in Roads, ToolFails(r) PROVE GraphInvariant'
  <1>1. Thinking(r, "act") /\ Good(call[r]) /\ Node(r, "cognition") /\ call[r].node = "cognition"
        /\ call[r] \in Calls
    BY ActingIsGood DEF ToolFails, Good
  <1>2. CASE Become(r, Raise(call[r])) /\ Quietly
    BY <1>1, <1>2, RaiseIsGood, QuietStep
  <1>3. CASE \E reviewed \in {call[r].reviewed, call[r].tool = "review_signal_plan"} :
                 /\ Become(r, Leave([call[r] EXCEPT !.reviewed = reviewed]))
                 /\ cooling' \in {cooling, Cooldown} /\ UNCHANGED <<settings, rounds, late>>
    <2>1. PICK reviewed \in {call[r].reviewed, call[r].tool = "review_signal_plan"} :
             /\ Become(r, Leave([call[r] EXCEPT !.reviewed = reviewed]))
             /\ cooling' \in {cooling, Cooldown} /\ UNCHANGED <<settings, rounds, late>>
      BY <1>3
    <2> DEFINE c == [call[r] EXCEPT !.reviewed = reviewed]
    <2>2. Good(c) /\ c.node = "cognition"
      <3>1. CASE reviewed = call[r].reviewed
        BY <1>1, <3>1 DEF Calls
      <3>2. CASE reviewed = TRUE /\ call[r].tool = "review_signal_plan"
        BY <1>1, <3>2, ReviewedIsGood DEF Calls
      <3>3. CASE reviewed = FALSE
        BY <1>1, <3>3
        DEF Good, Calls, Ended, Placed, Degraded, Undecided, Honest, AtHand, Has, Budgeted
      <3> QED
        BY <1>1, <2>1, <3>1, <3>2, <3>3
    <2> HIDE DEF c
    <2> QED
      BY <1>1, <2>1, <2>2, FailStep DEF c
  <1> QED
    BY <1>1, <1>2, <1>3 DEF ToolFails

LEMMA TickStep == ASSUME GraphInvariant, Tick PROVE GraphInvariant'
  <1>1. Shared' /\ Spared'
    BY SettingsAssumption DEF GraphInvariant, Shared, Spared, Tick
  <1> QED
    BY <1>1 DEF GraphInvariant, Tick

-----------------------------------------------------------------------------
(* The theorems.                                                           *)

LEMMA InitGraph == Init => GraphInvariant
  <1> SUFFICES ASSUME Init PROVE GraphInvariant
    OBVIOUS
  <1> DEFINE idle == [Fresh EXCEPT !.node = "idle"]
  <1>1. Good(idle) /\ idle \in Calls
    BY FreshIsGood DEF Good
  <1> HIDE DEF idle
  <1>2. call \in [Roads -> Calls] /\ \A r \in Roads : Good(call[r])
    BY <1>1 DEF Init, idle
  <1>3. Shared /\ Spared
    BY SettingsAssumption DEF Init, Shared, Spared
  <1> QED
    BY <1>2, <1>3 DEF GraphInvariant

LEMMA NextGraph == GraphInvariant /\ [Next]_vars => GraphInvariant'
  <1> SUFFICES ASSUME GraphInvariant, [Next]_vars PROVE GraphInvariant'
    OBVIOUS
  <1>1. ASSUME NEW r \in Roads, Graph(r) PROVE GraphInvariant'
    BY <1>1, ReadVideoStep, ReadRadarStep, RetryStep, ReadFailsStep, SelectStep,
       SelectorRaisesStep, ValidateStep DEF Graph
  <1>2. ASSUME NEW r \in Roads, Cognitive(r) PROVE GraphInvariant'
    <2>1. CASE Refuse(r) \/ BudgetSpent(r) \/ CoolingDown(r) \/ NoContext(r) \/ InvalidAnswer(r)
                  \/ PlannerEnds(r)
      BY <2>1, LeaveStep
      DEF Refuse, BudgetSpent, CoolingDown, Affordable, NoContext, InvalidAnswer, PlannerEnds, Thinking
    <2> QED
      BY <1>2, <2>1, AdmitStep, SendStep, AnswerStep, ServiceFailsStep, QueryStep, OtherToolStep,
         ReviewStep, ToolFailsStep DEF Cognitive
  <1>3. CASE UNCHANGED vars
    BY <1>3 DEF GraphInvariant, Shared, Spared, vars
  <1> QED
    BY <1>1, <1>2, <1>3, AskStep, TickStep DEF Next, Step

\* What the properties say follows from what is invariant.
LEMMA GraphImplies ==
    GraphInvariant =>
        TypeOK /\ OneReadPerSource /\ ReviewHasItsCall /\ OutageCostsOneCall /\ RouteIsHonest
  <1> SUFFICES ASSUME GraphInvariant
               PROVE  TypeOK /\ OneReadPerSource /\ ReviewHasItsCall /\ OutageCostsOneCall /\ RouteIsHonest
    OBVIOUS
  <1>1. TypeOK
    BY DEF GraphInvariant, Shared, TypeOK
  <1>2. OneReadPerSource
    BY DEF GraphInvariant, OneReadPerSource, Good, AtHand, Sources
  <1>3. ReviewHasItsCall
    <2> SUFFICES ASSUME NEW r \in Roads, call[r].node = "cognition", call[r].phase = "reviewer",
                        call[r].calls >= Limit("reviewer")
                 PROVE  call[r].reviewCalls > 0
      BY DEF ReviewHasItsCall, Thinking, Node
    <2>1. Budgeted(call[r]) /\ call[r] \in Calls
      BY DEF GraphInvariant, Good, Ended
    <2> QED
      BY <2>1, SettingsAssumption DEF Budgeted, Limit, Calls
  <1>4. OutageCostsOneCall
    BY DEF GraphInvariant, Shared, Spared, OutageCostsOneCall
  <1>5. RouteIsHonest
    BY DEF GraphInvariant, RouteIsHonest, Good, Placed, Honest, Calls
  <1> QED
    BY <1>1, <1>2, <1>3, <1>4, <1>5

\* Types: a call never makes more requests than max_model_calls and never
\* runs the selector twice, however many roads are decided at once.
THEOREM GraphTypesAreCorrect == Spec => []TypeOK
  BY InitGraph, NextGraph, GraphImplies, PTL DEF Spec

\* The planner leaves a request to the reviewer (cognitive.py, plan).
THEOREM ReviewHasItsCallHolds == Spec => []ReviewHasItsCall
  BY InitGraph, NextGraph, GraphImplies, PTL DEF Spec

\* Nothing that was read is read again (graph.py and control_tools.py).
THEOREM OneReadPerSourceHolds == Spec => []OneReadPerSource
  BY InitGraph, NextGraph, GraphImplies, PTL DEF Spec

\* A cooldown lets through only what was admitted before it (_available).
THEOREM OutageCostsOneCallHolds == Spec => []OutageCostsOneCall
  BY InitGraph, NextGraph, GraphImplies, PTL DEF Spec

\* The route of a decision is what the decision says of it.
THEOREM RouteIsHonestHolds == Spec => []RouteIsHonest
  BY InitGraph, NextGraph, GraphImplies, PTL DEF Spec

-----------------------------------------------------------------------------
(* The graph implements the call of a selector, step by step.              *)

\* What a step may do to a call as its caller sees it.
Moves(c, d) ==
    \/ Status(d.node) = Status(c.node) /\ d.ran = c.ran
    \/ Status(c.node) = "asked" /\ Status(d.node) = "asked" /\ c.ran = 0 /\ d.ran = 1
    \/ Status(c.node) = "asked" /\ Status(d.node) = "returned" /\ c.ran = 1 /\ d.ran = 1
    \/ Status(c.node) = "asked" /\ Status(d.node) = "raised" /\ d.ran \in {c.ran, 1}

LEMMA MovesImplement ==
    ASSUME GraphInvariant, NEW r \in Roads, NEW c, Become(r, c), Moves(call[r], c), rounds' = rounds
    PROVE  [Abstract!Next]_(Abstract!vars)
  <1> DEFINE status == [q \in Roads |-> Status(call[q].node)]
             ran == [q \in Roads |-> call[q].ran]
  <1>1. /\ status' = [status EXCEPT ![r] = Status(c.node)]
        /\ ran' = [ran EXCEPT ![r] = c.ran]
    BY DEF GraphInvariant, Become
  <1>2. status[r] = Status(call[r].node) /\ ran[r] = call[r].ran
    OBVIOUS
  <1>3. CASE Status(c.node) = Status(call[r].node) /\ c.ran = call[r].ran
    BY <1>1, <1>2, <1>3 DEF Abstract!vars
  <1>4. CASE Status(call[r].node) = "asked" /\ Status(c.node) = "asked" /\ call[r].ran = 0 /\ c.ran = 1
    <2>1. Abstract!Run(r)
      BY <1>1, <1>2, <1>4 DEF Abstract!Run
    <2> QED
      BY <2>1 DEF Abstract!Next
  <1>5. CASE /\ Status(call[r].node) = "asked" /\ Status(c.node) = "returned"
             /\ call[r].ran = 1 /\ c.ran = 1
    <2>1. Abstract!Return(r)
      BY <1>1, <1>2, <1>5 DEF Abstract!Return
    <2> QED
      BY <2>1 DEF Abstract!Next
  <1>6. CASE Status(call[r].node) = "asked" /\ Status(c.node) = "raised" /\ c.ran \in {call[r].ran, 1}
    <2>1. Abstract!Raise(r)
      BY <1>1, <1>2, <1>6 DEF Abstract!Raise
    <2> QED
      BY <2>1 DEF Abstract!Next
  <1> QED
    BY <1>3, <1>4, <1>5, <1>6 DEF Moves

\* A phase ends in the graph or in its return, never without a selection.
LEMMA LeaveMoves ==
    ASSUME NEW b, NEW c, Good(c), c.node = "cognition", b.node = "cognition", b.ran = c.ran
    PROVE  Moves(b, Leave(c))
  BY DEF Good, Calls, Placed, Leave, Return, Fresh, Moves, Status

LEMMA RaiseMoves ==
    ASSUME NEW b, NEW c, Status(b.node) = "asked", c.ran \in {b.ran, 1}
    PROVE  Moves(b, Raise(c))
  BY DEF Raise, Fresh, Moves, Status

\* The nodes of the graph.
LEMMA GraphMoves ==
    ASSUME GraphInvariant, NEW r \in Roads, Graph(r)
    PROVE  rounds' = rounds /\ \E c : Become(r, c) /\ Moves(call[r], c)
  <1>1. Good(call[r]) /\ call[r] \in Calls
    BY DEF GraphInvariant, Good
  <1>2. CASE ReadVideo(r)
    <2>1. PICK quality \in {"poor", "full"} :
             LET c == [Extracted(call[r], "video") EXCEPT !.video = quality]
             IN  Become(r, IF quality = "full" THEN [c EXCEPT !.node = "control_policy"] ELSE Degrade(c))
      BY <1>2 DEF ReadVideo
    <2> DEFINE c == [Extracted(call[r], "video") EXCEPT !.video = quality]
    <2>2. c.ran = call[r].ran /\ c.node = "primary_expert" /\ call[r].node = "primary_expert"
      BY <1>1, <1>2 DEF ReadVideo, Node, Extracted, Calls
    <2>3. [c EXCEPT !.node = "control_policy"].ran = c.ran
          /\ [c EXCEPT !.node = "control_policy"].node = "control_policy"
      BY <1>1 DEF Extracted, Calls
    <2>4. Degrade(c).ran = c.ran /\ Degrade(c).node \in {"cognition", "fallback_expert"}
      BY <1>1 DEF Extracted, Calls, Degrade, Think
    <2> HIDE DEF c
    <2>5. Moves(call[r], [c EXCEPT !.node = "control_policy"]) /\ Moves(call[r], Degrade(c))
      BY <2>2, <2>3, <2>4 DEF Moves, Status
    <2> QED
      BY <1>2, <2>1, <2>5 DEF ReadVideo, Quietly, c
  <1>3. CASE ReadRadar(r)
    <2> DEFINE c == IF "radar" \in call[r].kept THEN call[r] ELSE Extracted(call[r], "radar")
               d == [c EXCEPT !.radar = "read", !.usedFallback = TRUE, !.node = "control_policy"]
    <2>1. d.ran = call[r].ran /\ d.node = "control_policy" /\ call[r].node = "fallback_expert"
      BY <1>1, <1>3 DEF ReadRadar, Node, Extracted, Calls
    <2>2. Become(r, d) /\ rounds' = rounds
      BY <1>3 DEF ReadRadar, Quietly
    <2> HIDE DEF d
    <2> QED
      BY <2>1, <2>2 DEF Moves, Status
  <1>4. CASE RetryRead(r)
    <2>1. Moves(call[r], [call[r] EXCEPT !.attempt = @ + 1])
      BY <1>1 DEF Moves, Calls
    <2> QED
      BY <1>4, <2>1 DEF RetryRead, Quietly
  <1>5. CASE ReadFails(r)
    <2>1. CASE Become(r, Raise(call[r]))
      BY <1>5, <2>1, RaiseMoves DEF ReadFails, Reading, Node, Quietly, Status
    <2>2. CASE Become(r, Degrade([call[r] EXCEPT !.video = "failed"])) /\ Node(r, "primary_expert")
      <3> DEFINE c == [call[r] EXCEPT !.video = "failed"]
      <3>1. Degrade(c).ran = call[r].ran /\ Degrade(c).node \in {"cognition", "fallback_expert"}
        BY <1>1 DEF Calls, Degrade, Think
      <3>2. Moves(call[r], Degrade(c))
        BY <2>2, <3>1 DEF Node, Moves, Status
      <3> QED
        BY <1>5, <2>2, <3>2 DEF ReadFails, Quietly
    <2>3. CASE /\ Node(r, "fallback_expert")
               /\ Become(r, [call[r] EXCEPT !.radar = "failed", !.usedFallback = TRUE,
                                            !.node = "control_policy"])
      <3> DEFINE d == [call[r] EXCEPT !.radar = "failed", !.usedFallback = TRUE,
                                     !.node = "control_policy"]
      <3>1. d.ran = call[r].ran /\ d.node = "control_policy"
        BY <1>1 DEF Calls
      <3>2. Moves(call[r], d)
        BY <2>3, <3>1 DEF Node, Moves, Status
      <3> QED
        BY <1>5, <2>3, <3>2 DEF ReadFails, Quietly
    <2> QED
      BY <1>5, <2>1, <2>2, <2>3 DEF ReadFails, Reading, Node
  <1>6. CASE Select(r)
    <2>1. call[r].ran = 0 /\ call[r].node = "control_policy"
      BY <1>1, <1>6 DEF Select, Node, Good, Placed
    <2> QED
      <3> DEFINE c == [call[r] EXCEPT !.ran = @ + 1, !.node = "validate"]
      <3>1. c.ran = 1 /\ c.node = "validate"
        BY <1>1, <2>1 DEF Calls
      <3>2. Moves(call[r], c)
        BY <2>1, <3>1 DEF Moves, Status
      <3> QED
        BY <1>6, <3>2 DEF Select, Quietly
  <1>7. CASE SelectorRaises(r)
    <2>1. PICK ran \in {0, 1} : Become(r, Raise([call[r] EXCEPT !.ran = ran]))
      BY <1>7 DEF SelectorRaises
    <2>2. call[r].ran = 0 /\ Status(call[r].node) = "asked" /\ [call[r] EXCEPT !.ran = ran].ran = ran
      BY <1>1, <1>7 DEF SelectorRaises, Node, Good, Placed, Status, Calls
    <2> QED
      BY <1>7, <2>1, <2>2, RaiseMoves DEF SelectorRaises, Quietly
  <1>8. CASE Validate(r)
    <2>1. call[r].ran = 1 /\ call[r].node = "validate"
      BY <1>1, <1>8 DEF Validate, Node, Good, Placed
    <2> QED
      <3>1. PICK ok \in BOOLEAN :
               LET c == [call[r] EXCEPT !.candidate = ok]
               IN  Become(r, IF ok /\ c.session THEN Think(c, "reviewer") ELSE Return(c))
        BY <1>8 DEF Validate
      <3> DEFINE c == [call[r] EXCEPT !.candidate = ok]
      <3>2. Think(c, "reviewer").ran = 1 /\ Think(c, "reviewer").node = "cognition"
        BY <1>1, <2>1 DEF Think, Calls
      <3>3. Return(c).ran = 1 /\ Return(c).node = "done"
        BY <1>1, <2>1 DEF Return, Fresh, Calls
      <3>4. Moves(call[r], Think(c, "reviewer")) /\ Moves(call[r], Return(c))
        BY <2>1, <3>2, <3>3 DEF Moves, Status
      <3> QED
        BY <1>8, <3>1, <3>4 DEF Validate, Quietly
  <1> QED
    BY <1>2, <1>3, <1>4, <1>5, <1>6, <1>7, <1>8 DEF Graph

\* The planner and the reviewer: invisible to the caller, but for a raise.
LEMMA CognitiveMoves ==
    ASSUME GraphInvariant, NEW r \in Roads, Cognitive(r)
    PROVE  rounds' = rounds /\ \E c : Become(r, c) /\ Moves(call[r], c)
  <1>1. Good(call[r]) /\ call[r] \in Calls /\ call[r].node = "cognition"
    BY DEF GraphInvariant, Good, Cognitive, Refuse, BudgetSpent, CoolingDown, Admit, Affordable,
           NoContext, Send, Answer, InvalidAnswer, ServiceFails, QueryExpert, OtherTool, PlannerEnds,
           Review, ToolFails, Thinking, Node
  <1>2. Moves(call[r], Leave(call[r])) /\ Moves(call[r], Raise(call[r]))
    BY <1>1, LeaveMoves, RaiseMoves DEF Status
  <1>3. CASE Refuse(r) \/ BudgetSpent(r) \/ CoolingDown(r) \/ NoContext(r) \/ InvalidAnswer(r)
                \/ PlannerEnds(r)
    BY <1>2, <1>3
    DEF Refuse, BudgetSpent, CoolingDown, NoContext, InvalidAnswer, PlannerEnds, Quietly
  <1>4. CASE Admit(r) \/ Send(r) \/ OtherTool(r)
    <2>1. Moves(call[r], [call[r] EXCEPT !.step = "send"])
      BY <1>1 DEF Moves, Calls
    <2>2. Moves(call[r], [call[r] EXCEPT !.step = "wait", !.calls = @ + 1,
                     !.reviewCalls = IF call[r].phase = "reviewer" THEN @ + 1 ELSE @])
      BY <1>1 DEF Moves, Calls
    <2>3. Moves(call[r], Continue(call[r]))
      BY <1>1 DEF Moves, Calls, Continue
    <2> QED
      BY <1>4, <2>1, <2>2, <2>3 DEF Admit, Send, OtherTool, Quietly
  <1>5. CASE Answer(r)
    <2>1. PICK tool \in ReviewerTools :
             Become(r, IF tool \in Allowed(call[r].phase)
                       THEN [call[r] EXCEPT !.step = "act", !.tool = tool]
                       ELSE Leave(call[r]))
      BY <1>5 DEF Answer
    <2>2. Moves(call[r], [call[r] EXCEPT !.step = "act", !.tool = tool])
      BY <1>1 DEF Moves, Calls
    <2> QED
      BY <1>2, <1>5, <2>1, <2>2 DEF Answer, Quietly
  <1>6. CASE ServiceFails(r)
    BY <1>2, <1>6 DEF ServiceFails, Fail, Quietly
  <1>7. CASE QueryExpert(r)
    <2> DEFINE d == Continue(Queried(call[r], SourceOf(call[r].tool)))
    <2>1. d.ran = call[r].ran /\ d.node = "cognition"
      BY <1>1 DEF Continue, Queried, Extracted, Calls
    <2>2. Become(r, d) /\ rounds' = rounds
      BY <1>7 DEF QueryExpert, Quietly
    <2> HIDE DEF d
    <2> QED
      BY <1>1, <2>1, <2>2 DEF Moves
  <1>8. CASE Review(r)
    <2> DEFINE c == [call[r] EXCEPT !.reviewed = TRUE]
    <2>1. Good(c) /\ c.node = "cognition" /\ c.ran = call[r].ran
      BY <1>1, <1>8, ReviewedIsGood DEF Review, Calls
    <2> HIDE DEF c
    <2>2. PICK more \in Sources \cup {"none"} :
             Become(r, Leave(IF more = "none" THEN c ELSE Queried(c, more)))
      BY <1>8 DEF Review, c
    <2>3. PICK d : d = (IF more = "none" THEN c ELSE Queried(c, more))
      OBVIOUS
    <2>4. \A s \in Sources : Queried(c, s).ran = c.ran
      BY <2>1 DEF Queried, Extracted, Good, Calls
    <2>5. Good(d) /\ d.node = "cognition" /\ d.ran = call[r].ran
      BY <2>1, <2>3, <2>4, QueriedIsGood
    <2>6. Become(r, Leave(d)) /\ Moves(call[r], Leave(d))
      BY <1>1, <2>2, <2>3, <2>5, LeaveMoves
    <2> QED
      BY <1>8, <2>6 DEF Review, Quietly
  <1>9. CASE ToolFails(r)
    <2>1. CASE Become(r, Raise(call[r])) /\ Quietly
      BY <1>2, <2>1 DEF Quietly
    <2>2. CASE \E reviewed \in {call[r].reviewed, call[r].tool = "review_signal_plan"} :
                   Become(r, Leave([call[r] EXCEPT !.reviewed = reviewed])) /\ rounds' = rounds
      <3>1. PICK reviewed \in {call[r].reviewed, call[r].tool = "review_signal_plan"} :
               Become(r, Leave([call[r] EXCEPT !.reviewed = reviewed])) /\ rounds' = rounds
        BY <2>2
      <3>2. Moves(call[r], Leave([call[r] EXCEPT !.reviewed = reviewed]))
        BY <1>1 DEF Good, Calls, Placed, Leave, Return, Fresh, Moves, Status
      <3> QED
        BY <3>1, <3>2
    <2> QED
      BY <1>9, <2>1, <2>2 DEF ToolFails
  <1> QED
    BY <1>3, <1>4, <1>5, <1>6, <1>7, <1>8, <1>9 DEF Cognitive

LEMMA AskImplements ==
    ASSUME GraphInvariant, NEW r \in Roads, Ask(r)
    PROVE  Abstract!Ask(r)
  <1>1. /\ call' = [call EXCEPT ![r] = Fresh] /\ rounds[r] < MaxRounds
        /\ call[r].node \in {"idle", "done", "raised"} /\ rounds' = [rounds EXCEPT ![r] = @ + 1]
    BY DEF Ask, Become
  <1>2. Status(call[r].node) # "asked" /\ Status(Fresh.node) = "asked" /\ Fresh.ran = 0
    BY <1>1 DEF Status, Fresh
  <1> QED
    BY <1>1, <1>2 DEF GraphInvariant, Abstract!Ask

\* Every step of the graph is a step of the call its caller relies on, or
\* one the caller does not see.
THEOREM GraphImplementsCall == Spec => Abstract!Init /\ [][Abstract!Next]_(Abstract!vars)
  <1>1. Init => Abstract!Init
    BY DEF Init, Abstract!Init, Fresh, Status
  <1>2. GraphInvariant /\ [Next]_vars => [Abstract!Next]_(Abstract!vars)
    <2> SUFFICES ASSUME GraphInvariant, [Next]_vars PROVE [Abstract!Next]_(Abstract!vars)
      OBVIOUS
    <2>1. ASSUME NEW r \in Roads, Step(r) PROVE [Abstract!Next]_(Abstract!vars)
      BY <2>1, GraphMoves, CognitiveMoves, MovesImplement DEF Step
    <2>2. ASSUME NEW r \in Roads, Ask(r) PROVE [Abstract!Next]_(Abstract!vars)
      BY <2>2, AskImplements DEF Abstract!Next
    <2>3. CASE Tick \/ UNCHANGED vars
      BY <2>3 DEF Tick, vars, Abstract!vars
    <2> QED
      BY <2>1, <2>2, <2>3 DEF Next
  <1> QED
    BY <1>1, <1>2, InitGraph, NextGraph, PTL DEF Spec
=============================================================================
