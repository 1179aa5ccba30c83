-------------------------- MODULE GreenWaveProofs --------------------------
(***************************************************************************)
(* The safety properties of the green wave sessions, for any corridors,    *)
(* any plans the earlier stages yield and any interleaving of rounds with  *)
(* the resets of operators.                                                *)
(***************************************************************************)
EXTENDS GreenWave, FiniteSetTheorems, TLAPS

-----------------------------------------------------------------------------
(* The invariants.                                                         *)

\* A session in a phase knows the period it was opened for.
Directed(s) == s.cycleGreen \/ s.offsetGreen => s.direction \in Periods

\* A round that works on a corridor holds a session of that corridor in the
\* globals, torn or not.  Only a handler that runs knows a corridor.
TypeInvariant ==
    /\ TypeOK
    /\ \A c \in DOMAIN saved : Directed(saved[c])
    /\ InRound => round.todo # {} /\ globals \in SessionsOf(Corridor) /\ Directed(globals)
    /\ handler.pc # "idle" => handler.corridor \in Corridors

\* What a round holds is whole as well, unless a reset fell into it.
WholeInvariant ==
    /\ SessionsAreWhole
    /\ InRound /\ Corridor \notin torn => Whole(globals, Corridor)

\* A result is of a corridor that was captured, or that is about to be: then
\* the globals have the plan that was handed on.
Remembers(c) == saved[c] = EmptySession \/ saved[c].plan = result[c]

RememberInvariant ==
    /\ At("idle") => result = EmptyPlans
    /\ \A c \in (DOMAIN result \cap DOMAIN saved) \ (torn \cup round.todo) : Remembers(c)
    /\ \A c \in DOMAIN result \cap round.todo : At("capture") /\ c = Corridor
    /\ At("capture") /\ Corridor \in DOMAIN result \ torn => globals.plan = result[Corridor]

\* Until its plans are corrected a running session is the saved one; then
\* every road of it is at the floors and closer to its green sum.
Corrects(p, q, red) == AtFloors(q) /\ (AtFloors(p) => Closer(p, q, red))

ShrinkInvariant ==
    InRound /\ Corridor \in DOMAIN saved \ torn =>
        LET s == saved[Corridor]
        IN  /\ At("open") \/ (At("plan") /\ s.start) => globals = s
            /\ At("capture") /\ s.start /\ globals.start /\ s.plan # globals.plan =>
                  \A r \in RoadsOf[Corridor] : Corrects(s.plan[r], globals.plan[r], Red[r])

-----------------------------------------------------------------------------
(* The corridors of a round.                                               *)

\* A set of naturals that is not empty has a least element: of its initial
\* segments one is minimal.
LEMMA MinOfNaturals ==
    ASSUME NEW S \in SUBSET Nat, S # {}
    PROVE  Min(S) \in S /\ \A y \in S : Min(S) <= y
  <1> DEFINE starts == {0..n : n \in S}
  <1>1. starts \subseteq FiniteSubsetsOf(Nat) /\ starts # {}
    <2>1. ASSUME NEW n \in S PROVE 0..n \in FiniteSubsetsOf(Nat)
      <3>1. IsFiniteSet(0..n)
        BY FS_Interval
      <3>2. 0..n \subseteq Nat
        OBVIOUS
      <3> QED BY <3>1, <3>2 DEF FiniteSubsetsOf
    <2> QED BY <2>1
  <1>2. PICK T \in starts : \A U \in starts : ~(<<U, T>> \in StrictSubsetOrdering(Nat))
    <2> HIDE DEF starts
    <2> QED BY <1>1, FS_StrictSubsetOrderingWellFounded, WFMin
  <1>3. PICK x \in S : T = 0..x
    OBVIOUS
  <1>4. ASSUME NEW y \in S, y < x PROVE FALSE
    <2>1. 0..y \subseteq 0..x /\ 0..y # 0..x
      <3>1. x \in 0..x /\ x \notin 0..y
        BY <1>4
      <3>2. 0..y \subseteq 0..x
        BY <1>4
      <3> QED BY <3>1, <3>2
    <2>2. 0..x \subseteq Nat /\ 0..y \subseteq Nat
      OBVIOUS
    <2>3. <<0..y, 0..x>> \in StrictSubsetOrdering(Nat)
      BY <2>1, <2>2 DEF StrictSubsetOrdering
    <2> QED BY <1>2, <1>3, <2>3
  <1>5. \A y \in S : x <= y
    BY <1>4
  <1> QED BY <1>5 DEF Min

\* The corridor a round works on is one that is left to do.
LEMMA FirstIsOne ==
    ASSUME NEW corridors \in SUBSET Corridors, corridors # {}
    PROVE  FirstOf(corridors) \in corridors
  <1> DEFINE places == {i \in DOMAIN CorridorOrder : CorridorOrder[i] \in corridors}
  <1>1. places \subseteq Nat /\ places # {}
    <2>1. CorridorOrder \in Seq(Corridors)
      BY CorridorAssumption
    <2>2. DOMAIN CorridorOrder \subseteq Nat
      BY <2>1
    <2>3. PICK c \in corridors : TRUE
      OBVIOUS
    <2>4. PICK i \in DOMAIN CorridorOrder : CorridorOrder[i] = c
      BY <2>3 DEF Corridors, Range
    <2> QED BY <2>2, <2>4
  <1>2. Min(places) \in places
    BY <1>1, MinOfNaturals
  <1> QED BY <1>2 DEF FirstOf

LEMMA WorksOnACorridor ==
    ASSUME TypeInvariant, round.todo # {}
    PROVE  Corridor \in round.todo /\ Corridor \in Corridors
  BY FirstIsOne DEF TypeInvariant, TypeOK, Corridor

-----------------------------------------------------------------------------
(* The arithmetic.                                                         *)

\* The numbers of the configuration.
LEMMA Numbers ==
    ASSUME NEW c \in Corridors
    PROVE  /\ Cycle \in Nat /\ Cycle > 0 /\ OffsetStep \in Nat
           /\ MinRemaining \in Nat /\ TargetElapsed \in Nat
           /\ \A r \in RoadsOf[c] : Red[r] \in 0..(Cycle - 1)
  BY TimingAssumption, CorridorAssumption

\* Where a green should start, and where it moves to, lies in the cycle.
LEMMA WantedInCycle ==
    ASSUME NEW plan \in RoadPlan, NEW travel \in Nat
    PROVE  WantedStart(plan, travel) \in 0..(Cycle - 1)
  BY TimingAssumption DEF WantedStart, RoadPlan, AtMost, AtLeast

LEMMA MovedInCycle ==
    ASSUME NEW offset \in 0..(Cycle - 1), NEW target \in 0..(Cycle - 1)
    PROVE  Moved(offset, target) \in 0..(Cycle - 1)
  BY TimingAssumption DEF Moved, AtMost

\* The remainder of what is less than a cycle away from the cycle.
LEMMA AroundTheCycle ==
    ASSUME NEW x \in (0 - Cycle)..(2 * Cycle - 1)
    PROVE  x % Cycle = IF x < 0 THEN x + Cycle ELSE IF x < Cycle THEN x ELSE x - Cycle
  BY TimingAssumption

\* A step of the second phase (adjust_simulated_offsets_one_round) takes the
\* start of a green straight towards its target, the shorter way round the
\* cycle: the distance shrinks by a whole step, or to nothing, and the start
\* never passes the target.
THEOREM MovesApproachTheTarget ==
    ASSUME NEW offset \in 0..(Cycle - 1), NEW target \in 0..(Cycle - 1)
    PROVE  CyclicDistance(Moved(offset, target), target)
             = AtLeast(0, CyclicDistance(offset, target) - OffsetStep)
  <1> DEFINE forward == (target - offset) % Cycle
             backward == (offset - target) % Cycle
             start == Moved(offset, target)
  <1>1. Cycle \in Nat /\ Cycle > 0 /\ OffsetStep \in 1..Cycle
    BY TimingAssumption
  <1>2. /\ forward = IF target < offset THEN target - offset + Cycle ELSE target - offset
        /\ backward = IF offset < target THEN offset - target + Cycle ELSE offset - target
    <2>1. target - offset \in (0 - Cycle)..(2 * Cycle - 1) /\ offset - target \in (0 - Cycle)..(2 * Cycle - 1)
      BY <1>1
    <2> QED BY <1>1, <2>1, AroundTheCycle
  <1>3. CyclicDistance(offset, target) = AtMost(Cycle - backward, backward)
    BY DEF CyclicDistance
  <1>4. start \in 0..(Cycle - 1)
    BY MovedInCycle
  <1>5. start = IF forward <= backward THEN (offset + AtMost(OffsetStep, forward)) % Cycle
                                       ELSE (offset - AtMost(OffsetStep, backward)) % Cycle
    BY DEF Moved
  <1> HIDE DEF forward, backward, start
  <1>6. CyclicDistance(start, target)
          = LET gap == IF start < target THEN start - target + Cycle ELSE start - target
            IN  AtMost(Cycle - gap, gap)
    <2>1. start - target \in (0 - Cycle)..(2 * Cycle - 1)
      BY <1>1, <1>4
    <2>2. (start - target) % Cycle = IF start < target THEN start - target + Cycle ELSE start - target
      BY <1>1, <1>4, <2>1, AroundTheCycle
    <2> QED BY <2>2 DEF CyclicDistance
  <1>7. CASE forward <= backward
    <2> DEFINE x == offset + AtMost(OffsetStep, forward)
    <2>1. x \in (0 - Cycle)..(2 * Cycle - 1) /\ x >= 0
      BY <1>1, <1>2 DEF AtMost
    <2>2. start = IF x < Cycle THEN x ELSE x - Cycle
      <3> HIDE DEF x
      <3>1. start = x % Cycle
        BY <1>5, <1>7 DEF x
      <3> QED BY <2>1, <3>1, <1>1, AroundTheCycle
    <2> QED BY <1>1, <1>2, <1>3, <1>6, <1>7, <2>1, <2>2 DEF AtMost, AtLeast, start
  <1>8. CASE ~(forward <= backward)
    <2> DEFINE x == offset - AtMost(OffsetStep, backward)
    <2>1. x \in (0 - Cycle)..(2 * Cycle - 1) /\ x < Cycle
      BY <1>1, <1>2 DEF AtMost
    <2>2. start = IF x < 0 THEN x + Cycle ELSE x
      <3> HIDE DEF x
      <3>1. start = x % Cycle
        BY <1>5, <1>8 DEF x
      <3> QED BY <2>1, <3>1, <1>1, AroundTheCycle
    <2> QED BY <1>1, <1>2, <1>3, <1>6, <1>8, <2>1, <2>2 DEF AtMost, AtLeast, start
  <1> QED BY <1>7, <1>8

\* Nat is closed under multiplication, which grows with its factors.
LEMMA ProductsGrow ==
    ASSUME NEW a \in Nat, NEW b \in Nat, NEW k \in Nat, a <= b
    PROVE  a * k \in Nat /\ a * k <= b * k
  OBVIOUS

\* An integer that is nearest to part m * g / s, for a sum s that becomes m.
Share(n, m, g, s) == n \in Int /\ 2 * Distance(m * g, n * s) <= s

LEMMA RoundedIsShare ==
    ASSUME NEW m \in Nat, NEW g \in Nat, NEW s \in Nat, s > 0, NEW n \in Rounded(m * g, s)
    PROVE  Share(n, m, g, s)
  <1>1. m * g \in Nat
    OBVIOUS
  <1>2. (m * g) \div s \in Int
    BY <1>1
  <1> QED BY <1>2 DEF Rounded, Share

\* What is left of the sum is the share of the rest.
LEMMA ShareOfTheRest ==
    ASSUME NEW m \in Nat, NEW g \in Nat, NEW s \in Nat, g <= s, NEW n, Share(n, m, g, s)
    PROVE  Share(m - n, m, s - g, s)
  <1>1. n \in Int /\ m * g \in Int /\ n * s \in Int /\ m * s \in Int
    BY DEF Share
  <1>2. m * (s - g) = m * s - m * g /\ (m - n) * s = m * s - n * s
    BY <1>1
  <1> QED BY <1>1, <1>2 DEF Share, Distance

\* A share does not shrink with a sum that grows ...
LEMMA ShareGrows ==
    ASSUME NEW m \in Nat, NEW g \in Nat, NEW s \in Nat, s > 0, NEW n, Share(n, m, g, s), s <= m
    PROVE  n >= g
  <1>1. n \in Int
    BY DEF Share
  <1>2. SUFFICES ASSUME n <= g - 1 PROVE FALSE
    BY <1>1
  <1>3. s * g <= m * g
    BY ProductsGrow
  <1>4. n * s <= (g - 1) * s /\ (g - 1) * s = s * g - s
    BY <1>1, <1>2
  <1>5. m * g \in Int /\ n * s \in Int /\ s * g \in Int
    BY <1>1
  <1> QED BY <1>3, <1>4, <1>5 DEF Share, Distance

\* ... and does not grow with one that shrinks.
LEMMA ShareShrinks ==
    ASSUME NEW m \in Nat, NEW g \in Nat, NEW s \in Nat, s > 0, NEW n, Share(n, m, g, s), m <= s
    PROVE  n <= g
  <1>1. n \in Int
    BY DEF Share
  <1>2. SUFFICES ASSUME n >= g + 1 PROVE FALSE
    BY <1>1
  <1>3. m * g <= s * g
    BY ProductsGrow
  <1>4. n * s >= (g + 1) * s /\ (g + 1) * s = s * g + s
    BY <1>1, <1>2
  <1>5. m * g \in Int /\ n * s \in Int /\ s * g \in Int
    BY <1>1
  <1> QED BY <1>3, <1>4, <1>5 DEF Share, Distance

\* The share of more than half a sum shrinks with it.
LEMMA LargeShareShrinks ==
    ASSUME NEW m \in Nat, NEW g \in Nat, NEW s \in Nat, s > 0, NEW n, Share(n, m, g, s),
           m < s, 2 * g > s
    PROVE  n < g
  <1>1. n \in Int /\ n <= g
    <2>1. m <= s
      OBVIOUS
    <2>2. n <= g
      BY <2>1, ShareShrinks
    <2> QED BY <2>2 DEF Share
  <1>2. SUFFICES ASSUME n = g PROVE FALSE
    BY <1>1
  <1>3. m * g <= (s - 1) * g /\ (s - 1) * g = g * s - g
    BY ProductsGrow
  <1>4. m * g \in Int /\ g * s \in Int
    OBVIOUS
  <1> QED BY <1>2, <1>3, <1>4 DEF Share, Distance

\* A corrected plan of a road is a plan.
LEMMA AdjustedIsPlan ==
    ASSUME NEW p \in RoadPlan, NEW red \in 0..(Cycle - 1), NEW q \in Adjusted(p, red)
    PROVE  q \in RoadPlan /\ AtFloors(q)
  <1> DEFINE sum == NextSum(p, red)
  <1>1. GreenSum(p) \in Nat /\ TargetSum(red) \in Nat /\ p.green \in Nat
    BY TimingAssumption DEF GreenSum, TargetSum, RoadPlan, AtLeast, MinGreenSum
  <1>2. sum \in Nat
    BY <1>1 DEF NextSum, AtMost, AtLeast, MaxStep
  <1>3. PICK n : /\ n \in (IF GreenSum(p) > 0 THEN Rounded(sum * p.green, GreenSum(p)) ELSE Rounded(sum, 2))
                 /\ q = [green |-> AtLeast(MinGreen, n), balance |-> AtLeast(MinGreen, sum - AtLeast(MinGreen, n))]
    BY DEF Adjusted
  <1>4. n \in Int
    <2>1. CASE GreenSum(p) > 0
      <3> HIDE DEF sum
      <3> QED BY <1>1, <1>2, <1>3, <2>1, RoundedIsShare DEF Share
    <2>2. CASE ~(GreenSum(p) > 0)
      BY <1>2, <1>3, <2>2 DEF Rounded
    <2> QED BY <2>1, <2>2
  <1> HIDE DEF sum
  <1> QED BY <1>2, <1>3, <1>4 DEF RoadPlan, AtFloors, AtLeast, MinGreen

\* A step of the first phase takes a plan at the floors closer to the common
\* cycle, or to it.
LEMMA AdjustedIsCloser ==
    ASSUME NEW p \in RoadPlan, NEW red \in 0..(Cycle - 1), NEW q \in Adjusted(p, red), AtFloors(p)
    PROVE  Closer(p, q, red)
  <1> DEFINE g == p.green
             b == p.balance
             s == GreenSum(p)
             target == TargetSum(red)
             m == NextSum(p, red)
  <1>1. /\ g \in Nat /\ b \in Nat /\ s = g + b /\ g >= 10 /\ b >= 10
        /\ target \in Nat /\ target >= 20
    BY TimingAssumption DEF GreenSum, TargetSum, RoadPlan, AtLeast, MinGreenSum, AtFloors, MinGreen
  <1>2. /\ m \in Nat
        /\ s < target => s < m /\ m <= target
        /\ s > target => m < s /\ target <= m
        /\ s = target => m = s
    BY <1>1 DEF NextSum, AtMost, AtLeast, MaxStep
  <1>3. PICK n \in Rounded(m * g, s) :
           q = [green |-> AtLeast(MinGreen, n), balance |-> AtLeast(MinGreen, m - AtLeast(MinGreen, n))]
    BY <1>1 DEF Adjusted
  <1> HIDE DEF g, b, s, target, m
  <1>4. /\ Share(n, m, g, s) /\ Share(m - n, m, b, s) /\ n \in Int
        /\ s \in Nat /\ s > 0 /\ g <= s /\ s - g = b
    <2>1. s \in Nat /\ s > 0 /\ g <= s /\ s - g = b
      BY <1>1
    <2>2. Share(n, m, g, s)
      BY <1>1, <1>2, <1>3, <2>1, RoundedIsShare
    <2>3. Share(m - n, m, s - g, s)
      BY <1>1, <1>2, <2>1, <2>2, ShareOfTheRest
    <2> QED BY <2>1, <2>2, <2>3 DEF Share
  <1>5. CASE s <= m
    <2>1. n >= g /\ m - n >= b
      BY <1>1, <1>2, <1>4, <1>5, ShareGrows
    <2>2. GreenSum(q) = m
      BY <1>1, <1>2, <1>3, <1>4, <2>1 DEF GreenSum, AtLeast, MinGreen
    <2>3. Distance(m, target) < Distance(s, target) \/ m = target
      BY <1>1, <1>2, <1>4, <1>5 DEF Distance
    <2> QED BY <2>2, <2>3 DEF Closer, s, target
  <1>6. CASE m < s
    <2>1. n <= g /\ m - n <= b /\ m <= s
      <3>1. m <= s
        BY <1>2, <1>4, <1>6
      <3> QED BY <1>1, <1>2, <1>4, <3>1, ShareShrinks
    <2>2. (b = 10 => n < g) /\ (g = 10 => m - n < b)
      <3>1. s > 20
        BY <1>1, <1>2, <1>4, <1>6
      <3>2. b = 10 => 2 * g > s
        BY <1>1, <1>4, <3>1
      <3>3. g = 10 => 2 * b > s
        BY <1>1, <1>4, <3>1
      <3> QED BY <1>1, <1>2, <1>4, <1>6, <3>2, <3>3, LargeShareShrinks
    <2>3. target <= m /\ target < s
      BY <1>1, <1>2, <1>4, <1>6
    <2>4. GreenSum(q) < s /\ GreenSum(q) >= m /\ GreenSum(q) \in Nat
      BY <1>1, <1>2, <1>3, <1>4, <2>1, <2>2, <2>3 DEF GreenSum, AtLeast, MinGreen
    <2>5. Distance(GreenSum(q), target) < Distance(s, target)
      BY <1>1, <1>2, <1>4, <2>3, <2>4 DEF Distance
    <2> QED BY <2>5 DEF Closer, s, target
  <1> QED BY <1>2, <1>4, <1>5, <1>6

-----------------------------------------------------------------------------
(* Sessions.                                                               *)

\* What OffsetsOf stands for: values of the cycle on some roads of c.
LEMMA OffsetsAreFunctions ==
    ASSUME NEW c
    PROVE  /\ \A roads \in SUBSET RoadsOf[c] : \A f \in [roads -> 0..(Cycle - 1)] : f \in OffsetsOf(c)
           /\ \A f \in OffsetsOf(c) : /\ DOMAIN f \subseteq RoadsOf[c]
                                      /\ f = [r \in DOMAIN f |-> f[r]]
                                      /\ \A r \in DOMAIN f : f[r] \in 0..(Cycle - 1)
  <1>1. ASSUME NEW roads \in SUBSET RoadsOf[c], NEW f \in [roads -> 0..(Cycle - 1)]
        PROVE  f \in OffsetsOf(c)
    BY Zenon DEF OffsetsOf
  <1>2. ASSUME NEW f \in OffsetsOf(c)
        PROVE  /\ DOMAIN f \subseteq RoadsOf[c] /\ f = [r \in DOMAIN f |-> f[r]]
               /\ \A r \in DOMAIN f : f[r] \in 0..(Cycle - 1)
    <2>1. PICK roads \in SUBSET RoadsOf[c] : f \in [roads -> 0..(Cycle - 1)]
      BY <1>2, Zenon DEF OffsetsOf
    <2> QED BY <2>1
  <1> QED BY <1>1, <1>2

\* A dropped session is a session of every corridor, and whole.
LEMMA DroppedSession ==
    ASSUME NEW c
    PROVE  EmptySession \in SessionsOf(c) /\ Directed(EmptySession) /\ Whole(EmptySession, c)
  <1>1. EmptyPlans \in OffsetsOf(c)
    <2>1. EmptyPlans \in [{} -> 0..(Cycle - 1)] /\ {} \in SUBSET RoadsOf[c]
      BY DEF EmptyPlans
    <2> QED BY <2>1, OffsetsAreFunctions
  <1>2. EmptySession \in SessionsOf(c)
    BY <1>1 DEF EmptySession, SessionsOf
  <1> QED BY <1>2 DEF EmptySession, Directed, Whole

\* A session that covers its corridor has a plan of each road.
LEMMA CoveringPlan ==
    ASSUME NEW c, NEW s \in SessionsOf(c), Covers(s, c)
    PROVE  s.plan \in PlansOf(c)
  <1>1. s.plan \in PlansOf(c) \cup {EmptyPlans}
    BY DEF SessionsOf
  <1>2. CASE s.plan = EmptyPlans
    <2>1. DOMAIN s.plan = {} /\ RoadsOf[c] = {}
      BY <1>2 DEF EmptyPlans, Covers
    <2> QED BY <1>2, <2>1 DEF EmptyPlans, PlansOf
  <1> QED BY <1>1, <1>2

\* The step of a round that plans, whichever action it is: the session stays
\* one of its corridor, and whole if it was; its plans stay or are corrected;
\* what is handed on is what it remembers.
Planning == NothingToPlan \/ NoPhase \/ CoolDown \/ Adjust \/ AwaitFeedback

SoundPlanning ==
    /\ At("plan") /\ Goto("capture")
    /\ UNCHANGED <<enabled, active, saved, handler, torn>>
    /\ globals' \in SessionsOf(Corridor) /\ Directed(globals')
    /\ Whole(globals, Corridor) => Whole(globals', Corridor)
    /\ \/ globals'.plan = globals.plan
       \/ \A r \in RoadsOf[Corridor] : Corrects(globals.plan[r], globals'.plan[r], Red[r])
    /\ \/ result' = result
       \/ globals'.plan \in PlansOf(Corridor) /\ HandOn(globals'.plan)

LEMMA PlanningIsSound ==
    ASSUME TypeInvariant, Planning
    PROVE  SoundPlanning
  <1> DEFINE c == Corridor
  <1>1. At("plan") /\ Planned
    BY DEF Planning, NothingToPlan, NoPhase, CoolDown, Adjust, AwaitFeedback, AlignCycle, BandReached,
           MoveOffsets, InBandPhase, Working
  <1>2. c \in Corridors /\ globals \in SessionsOf(c) /\ Directed(globals)
    BY <1>1, WorksOnACorridor DEF TypeInvariant, InRound, At
  <1>3. Working => globals.plan \in PlansOf(c)
    BY <1>2, CoveringPlan DEF Working
  <1> HIDE DEF c
  <1>4. CASE NothingToPlan \/ NoPhase \/ CoolDown \/ AwaitFeedback
    <2>1. globals' = globals /\ (result' = result \/ (Working /\ HandOn(globals.plan)))
      BY <1>4 DEF NothingToPlan, NoPhase, CoolDown, AwaitFeedback, InBandPhase
    <2> QED BY <1>1, <1>2, <1>3, <2>1 DEF SoundPlanning, Planned, c
  <1>5. CASE AlignCycle
    <2>1. PICK next \in NextPlans([r \in RoadsOf[Corridor] |-> Adjusted(globals.plan[r], Red[r])]) :
             globals' = Aligning(next) /\ HandOn(next) /\ Working /\ globals.cycleGreen
      BY <1>5 DEF AlignCycle
    <2>2. \A r \in RoadsOf[c] : next[r] \in Adjusted(globals.plan[r], Red[r])
      BY <2>1 DEF NextPlans, c
    <2>3. \A r \in RoadsOf[c] : globals.plan[r] \in RoadPlan /\ Red[r] \in 0..(Cycle - 1)
      BY <1>2, <1>3, <2>1, Numbers DEF PlansOf
    <2>4. \A r \in RoadsOf[c] : next[r] \in RoadPlan /\ Corrects(globals.plan[r], next[r], Red[r])
      BY <2>2, <2>3, AdjustedIsPlan, AdjustedIsCloser DEF Corrects
    <2>5. next \in PlansOf(c)
      BY <2>1, <2>4 DEF NextPlans, PlansOf, c
    <2> DEFINE done == CycleAligned(next, c)
    <2>6. globals' = [globals EXCEPT !.plan = next, !.sent = TRUE, !.cycleDone = done,
                                     !.cycleGreen = ~done, !.offsetGreen = IF done THEN TRUE ELSE @]
      BY <2>1 DEF Aligning, c
    <2>7. done \in BOOLEAN
      BY DEF CycleAligned
    <2>8. globals'.plan = next /\ globals' \in SessionsOf(c) /\ Directed(globals')
      <3> HIDE DEF done
      <3> QED BY <1>2, <2>1, <2>5, <2>6, <2>7 DEF SessionsOf, Directed
    <2>9. ASSUME Whole(globals, c) PROVE Whole(globals', c)
      <3> HIDE DEF done
      <3>1. Covers(globals', c)
        BY <2>5, <2>8 DEF Covers, PlansOf
      <3>2. globals.start /\ ~globals.offsetGreen /\ ~globals.offsetDone /\ globals.target = EmptyPlans
        BY <1>2, <2>1, <2>9 DEF Whole, Working, SessionsOf
      <3>3. /\ globals'.start /\ globals'.direction = globals.direction /\ globals'.offsetDone = globals.offsetDone
            /\ globals'.target = globals.target /\ globals'.cycleGreen = ~done
            /\ globals'.cycleDone = done /\ globals'.offsetGreen = done
        BY <1>2, <2>6, <2>7, <3>2 DEF SessionsOf
      <3>4. done => CycleAligned(globals'.plan, c)
        BY <2>8 DEF done
      <3> QED BY <2>7, <2>9, <3>1, <3>2, <3>3, <3>4 DEF Whole
    <2> QED BY <1>1, <2>1, <2>4, <2>5, <2>8, <2>9 DEF SoundPlanning, Planned, c
  <1>6. CASE BandReached \/ MoveOffsets
    <2>1. /\ Working /\ ~globals.cycleGreen /\ globals.offsetGreen
          /\ globals.direction \in Periods /\ HandOn(globals.plan)
      BY <1>2, <1>6 DEF BandReached, MoveOffsets, InBandPhase, Directed
    <2>2. Followers(globals, c) \subseteq RoadsOf[c]
      BY DEF Followers
    <2>3. ASSUME NEW r \in Followers(globals, c)
          PROVE  /\ OffsetOf(r) \in 0..(Cycle - 1)
                 /\ TargetOf(r) # Nothing => TargetOf(r) \in 0..(Cycle - 1)
      <3>1. r \in RoadsOf[c] /\ globals.plan[r] \in RoadPlan
        BY <1>3, <2>1, <2>2 DEF PlansOf
      <3>2. TravelOf(r) \in Nat
        BY <1>2, <2>1, <3>1, CorridorAssumption DEF TravelOf, c
      <3>3. globals.offset \in OffsetsOf(c) /\ globals.target \in OffsetsOf(c)
        BY <1>2 DEF SessionsOf
      <3>4. OffsetOf(r) \in 0..(Cycle - 1)
        BY <3>3, OffsetsAreFunctions, TimingAssumption DEF OffsetOf, Lookup
      <3>5. WantedStart(globals.plan[r], TravelOf(r)) \in 0..(Cycle - 1)
        BY <3>1, <3>2, WantedInCycle
      <3>6. TargetOf(r) # Nothing => TargetOf(r) \in 0..(Cycle - 1)
        BY <3>3, <3>5, OffsetsAreFunctions DEF TargetOf, Lookup
      <3> QED BY <3>4, <3>6
    <2>4. NewTargets \in OffsetsOf(c)
      <3>1. OpenTargets \subseteq RoadsOf[c]
        BY <1>2, <2>2, OffsetsAreFunctions DEF OpenTargets, SessionsOf, c
      <3>2. \A r \in OpenTargets :
               (IF r \in Followers(globals, c) THEN TargetOf(r) ELSE globals.target[r]) \in 0..(Cycle - 1)
        BY <1>2, <2>3, OffsetsAreFunctions DEF OpenTargets, SessionsOf, c
      <3>3. NewTargets \in [OpenTargets -> 0..(Cycle - 1)]
        BY <3>2 DEF NewTargets, c
      <3> QED BY <3>1, <3>3, OffsetsAreFunctions
    <2>5. PICK offset \in OffsetsOf(c), late \in BOOLEAN, sent \in BOOLEAN :
             globals' = [globals EXCEPT !.offsetDone = late, !.target = NewTargets, !.sent = sent, !.offset = offset]
      <3>1. CASE BandReached
        <4>1. globals' = [globals EXCEPT !.offsetDone = TRUE, !.target = NewTargets,
                                         !.sent = globals.sent, !.offset = globals.offset]
          BY <1>2, <3>1 DEF BandReached, SessionsOf
        <4>2. globals.sent \in BOOLEAN /\ globals.offset \in OffsetsOf(c)
          BY <1>2 DEF SessionsOf
        <4> QED BY <4>1, <4>2
      <3>2. CASE MoveOffsets
        <4> DEFINE moving == {r \in Followers(globals, c) : TargetOf(r) # Nothing}
                   moved == [r \in DOMAIN globals.offset \cup moving |->
                               IF r \in moving THEN Moved(OffsetOf(r), TargetOf(r)) ELSE globals.offset[r]]
        <4>1. globals' = [globals EXCEPT !.offsetDone = FALSE, !.target = NewTargets, !.sent = TRUE, !.offset = moved]
          BY <3>2 DEF MoveOffsets, c
        <4>2. globals.offset \in OffsetsOf(c)
          BY <1>2 DEF SessionsOf
        <4>3. DOMAIN globals.offset \cup moving \subseteq RoadsOf[c]
          BY <2>2, <4>2, OffsetsAreFunctions
        <4>4. \A r \in moving : Moved(OffsetOf(r), TargetOf(r)) \in 0..(Cycle - 1)
          BY <2>3, MovedInCycle
        <4>5. moved \in [DOMAIN globals.offset \cup moving -> 0..(Cycle - 1)]
          BY <4>2, <4>4, OffsetsAreFunctions
        <4>6. moved \in OffsetsOf(c)
          BY <4>3, <4>5, OffsetsAreFunctions
        <4> QED BY <4>1, <4>6
      <3> QED BY <1>6, <3>1, <3>2
    <2>6. /\ globals' \in SessionsOf(c) /\ Directed(globals') /\ globals'.plan = globals.plan
          /\ Whole(globals, c) => Whole(globals', c)
      <3> HIDE DEF NewTargets
      <3>1. /\ globals' \in SessionsOf(c) /\ Directed(globals') /\ globals'.plan = globals.plan
            /\ globals'.start = globals.start /\ globals'.direction = globals.direction
            /\ globals'.cycleGreen = globals.cycleGreen /\ globals'.offsetGreen = globals.offsetGreen
            /\ globals'.cycleDone = globals.cycleDone
        BY <1>2, <2>4, <2>5 DEF SessionsOf, Directed
      <3> QED BY <2>1, <3>1 DEF Whole, Covers, Working
    <2> QED BY <1>1, <1>3, <2>1, <2>6 DEF SoundPlanning, Planned, c
  <1> QED BY <1>4, <1>5, <1>6 DEF Planning, Adjust

-----------------------------------------------------------------------------
(* Type correctness.                                                       *)

\* Where a round stands decides which corridor it works on.
LEMMA SameCorridor ==
    ASSUME TypeInvariant, NEW pc, Goto(pc)
    PROVE  /\ round'.pc = pc /\ round'.todo = round.todo /\ Corridor' = Corridor
           /\ round'.period = round.period /\ round'.replay = round.replay
  <1>1. round' = [round EXCEPT !.pc = pc] /\ round.todo \in SUBSET Corridors
    BY DEF Goto, TypeInvariant, TypeOK
  <1>2. /\ round'.pc = pc /\ round'.todo = round.todo
        /\ round'.period = round.period /\ round'.replay = round.replay
    BY <1>1 DEF TypeInvariant, TypeOK
  <1> QED BY <1>2 DEF Corridor

\* What is saved at the end of a corridor's turn, and what a reset drops.
LEMMA CaptureEffects ==
    ASSUME TypeInvariant, Capture
    PROVE  /\ Corridor \in round.todo /\ Corridor \in Corridors /\ round'.todo = round.todo \ {Corridor}
           /\ round' \in [pc : {"next"}, todo : SUBSET Corridors, period : Periods \cup {Nothing}, replay : BOOLEAN]
           /\ DOMAIN saved' = DOMAIN saved \cup {Corridor}
           /\ \A c \in DOMAIN saved' : saved'[c] = IF c = Corridor THEN globals ELSE saved[c]
  <1>1. round.todo # {}
    BY DEF Capture, TypeInvariant, InRound, At
  <1>2. Corridor \in round.todo /\ Corridor \in Corridors
    BY <1>1, WorksOnACorridor
  <1>3. /\ DOMAIN saved' = DOMAIN saved \cup {Corridor}
        /\ \A c \in DOMAIN saved' : saved'[c] = IF c = Corridor THEN globals ELSE saved[c]
    BY DEF Capture, With
  <1>4. round'.todo = round.todo \ {Corridor} /\ round'.pc = "next"
    BY DEF Capture, TypeInvariant, TypeOK
  <1>5. round' \in [pc : {"next"}, todo : SUBSET Corridors, period : Periods \cup {Nothing}, replay : BOOLEAN]
    BY DEF Capture, TypeInvariant, TypeOK
  <1> QED BY <1>2, <1>3, <1>4, <1>5

LEMMA PopEffects ==
    ASSUME ResetPop
    PROVE  /\ DOMAIN saved' = DOMAIN saved \ {handler.corridor}
           /\ \A c \in DOMAIN saved' : saved'[c] = saved[c]
           /\ round' = round /\ globals' = globals /\ result' = result /\ Corridor' = Corridor
  BY DEF ResetPop, Without, Corridor

LEMMA InitTypes == Init => TypeInvariant
  BY RequestsAssumption DEF Init, TypeInvariant, TypeOK, Idle, InRound, EmptyPlans

LEMMA NextTypes == TypeInvariant /\ [Next]_vars => TypeInvariant'
  <1> SUFFICES ASSUME TypeInvariant, [Next]_vars PROVE TypeInvariant'
    OBVIOUS
  <1> USE DEF session
  <1> DEFINE c == Corridor
  <1>1. round.todo # {} => c \in Corridors /\ c \in round.todo
    BY WorksOnACorridor
  <1>2. ASSUME UNCHANGED <<enabled, active, saved, handler, torn>>, Goto("capture"), At("plan"),
               globals' \in SessionsOf(Corridor), Directed(globals'),
               \/ result' = result
               \/ globals'.plan \in PlansOf(Corridor) /\ HandOn(globals'.plan)
        PROVE  TypeInvariant'
    <2>1. /\ round'.pc = "capture" /\ round'.todo = round.todo /\ Corridor' = Corridor
          /\ round'.period = round.period /\ round'.replay = round.replay
      BY <1>2, SameCorridor
    <2>2. c \in Corridors
      BY <1>1, <1>2 DEF TypeInvariant, InRound, At
    <2>3. DOMAIN result' \subseteq Corridors /\ \A d \in DOMAIN result' : result'[d] \in PlansOf(d)
      <3>1. DOMAIN result \subseteq Corridors /\ \A d \in DOMAIN result : result[d] \in PlansOf(d)
        BY DEF TypeInvariant, TypeOK
      <3>2. CASE HandOn(globals'.plan) /\ globals'.plan \in PlansOf(c)
        <4>1. DOMAIN result' = DOMAIN result \cup {c}
          BY <3>2 DEF HandOn, With
        <4>2. \A d \in DOMAIN result' : result'[d] = IF d = c THEN globals'.plan ELSE result[d]
          BY <3>2, <4>1 DEF HandOn, With
        <4> QED BY <2>2, <3>1, <3>2, <4>1, <4>2
      <3> QED BY <1>2, <3>1, <3>2
    <2> QED BY <1>2, <2>1, <2>2, <2>3 DEF TypeInvariant, TypeOK, InRound, At, Goto
  <1>3. CASE LoadCorridors
    BY <1>3 DEF LoadCorridors, TypeInvariant, TypeOK, InRound, At
  <1>4. CASE LoadFails
    BY <1>4 DEF LoadFails, TypeInvariant, TypeOK, InRound, At, Goto
  <1>5. CASE EndRound
    BY <1>5 DEF EndRound, TypeInvariant, TypeOK, InRound, At, Idle, EmptyPlans
  <1>6. CASE Activate
    <2>1. /\ c \in Corridors /\ round'.pc = "open" /\ round'.todo = round.todo /\ Corridor' = c
          /\ round'.period = round.period /\ round'.replay = round.replay
      BY <1>1, <1>6, SameCorridor DEF Activate
    <2>2. globals' \in SessionsOf(c) /\ Directed(globals')
      BY <1>6, DroppedSession DEF Activate, SessionOf, TypeInvariant, TypeOK
    <2> QED BY <1>6, <2>1, <2>2 DEF Activate, TypeInvariant, TypeOK, InRound, At, Goto
  <1>7. CASE OutOfPeriod
    <2>1. /\ round'.pc = "capture" /\ round'.todo = round.todo /\ Corridor' = c
          /\ round'.period = round.period /\ round'.replay = round.replay
      BY <1>7, SameCorridor DEF OutOfPeriod
    <2>2. globals' \in SessionsOf(c) /\ Directed(globals')
      BY <1>7, DroppedSession DEF OutOfPeriod, TypeInvariant, InRound, At
    <2> QED BY <1>7, <2>1, <2>2 DEF OutOfPeriod, TypeInvariant, TypeOK, InRound, At, Goto
  <1>8. CASE Open
    <2>1. /\ round'.pc = "plan" /\ round'.todo = round.todo /\ Corridor' = c
          /\ round'.period = round.period /\ round'.replay = round.replay
      BY <1>8, SameCorridor DEF Open
    <2>2. c \in Corridors /\ globals \in SessionsOf(c) /\ round.period \in Periods
      BY <1>1, <1>8 DEF Open, TypeInvariant, TypeOK, InRound, At
    <2>3. PICK base \in [RoadsOf[c] -> UNION Range(BasePlans)] :
             /\ \A r \in RoadsOf[c] : base[r] \in BasePlans[r]
             /\ globals' = [globals EXCEPT !.start = TRUE, !.cycleGreen = TRUE, !.offsetGreen = FALSE,
                                           !.direction = round.period, !.sent = FALSE, !.plan = base]
      BY <1>8 DEF Open
    <2>4. base \in PlansOf(c)
      BY <2>2, <2>3, CorridorAssumption DEF PlansOf
    <2>5. globals' \in SessionsOf(c) /\ Directed(globals')
      BY <2>2, <2>3, <2>4 DEF SessionsOf, Directed
    <2> QED BY <1>8, <2>1, <2>5 DEF Open, TypeInvariant, TypeOK, InRound, At, Goto
  <1>9. CASE Resume
    BY <1>9, SameCorridor DEF Resume, TypeInvariant, TypeOK, InRound, At, Goto
  <1>10. CASE Planning
    BY <1>2, <1>10, PlanningIsSound DEF SoundPlanning
  <1>11. CASE Capture
    <2>1. c \in Corridors /\ globals \in SessionsOf(c) /\ Directed(globals)
      BY <1>1, <1>11 DEF Capture, TypeInvariant, InRound, At
    <2>2. torn' \subseteq Corridors
      BY <1>11 DEF Capture, TypeInvariant, TypeOK
    <2> QED BY <1>11, <2>1, <2>2, CaptureEffects DEF Capture, TypeInvariant, TypeOK, InRound
  <1>12. ASSUME NEW d \in Corridors, Lock(d) PROVE TypeInvariant'
    <2>1. handler'.pc # "idle" => handler'.corridor \in Corridors
      BY <1>12 DEF Lock
    <2>2. handler' \in [pc : {"locked"}, corridor : Corridors, requests : 0..MaxRequests]
      BY <1>12, RequestsAssumption DEF Lock, TypeInvariant, TypeOK
    <2> QED BY <1>12, <2>1, <2>2 DEF Lock, TypeInvariant, TypeOK, InRound, Corridor
  <1>13. CASE WriteFails
    BY <1>13 DEF WriteFails, Finish, TypeInvariant, TypeOK, InRound, Corridor
  <1>14. CASE WriteStore
    BY <1>14 DEF WriteStore, Handle, TypeInvariant, TypeOK, InRound, Corridor
  <1>15. CASE ResetPop
    <2>1. torn' \subseteq Corridors
      BY <1>1, <1>15 DEF ResetPop, TypeInvariant, TypeOK, InRound
    <2> QED BY <1>15, <2>1, PopEffects DEF ResetPop, Handle, TypeInvariant, TypeOK, InRound, Corridor
  <1>16. CASE ResetCompare
    BY <1>16 DEF ResetCompare, Handle, Finish, TypeInvariant, TypeOK, InRound, Corridor
  <1>17. ASSUME UNCHANGED <<enabled, active, saved, round, result>>, Tear, handler.pc # "idle",
                Finish \/ Handle("phases") \/ Handle("plans"),
                InRound => globals' \in SessionsOf(c) /\ Directed(globals')
         PROVE  TypeInvariant'
    <2>1. torn' \subseteq Corridors
      BY <1>1, <1>17 DEF Tear, TypeInvariant, TypeOK
    <2> QED BY <1>17, <2>1 DEF Handle, Finish, TypeInvariant, TypeOK, InRound, Corridor
  <1>18. CASE ResetFlag \/ ResetPhases \/ ResetPlans
    <2> DEFINE g == globals
    <2>1. InRound => g \in SessionsOf(c) /\ Directed(g)
      BY DEF TypeInvariant
    <2>2. EmptyPlans \in OffsetsOf(c)
      BY DroppedSession DEF SessionsOf, EmptySession
    <2>3. CASE ResetFlag
      <3>1. g \in SessionsOf(c) /\ Directed(g) => globals' \in SessionsOf(c) /\ Directed(globals')
        BY <2>3 DEF ResetFlag, SessionsOf, Directed
      <3> QED BY <1>17, <2>1, <2>3, <3>1 DEF ResetFlag
    <2>4. CASE ResetPhases
      <3>1. g \in SessionsOf(c) => globals' \in SessionsOf(c) /\ Directed(globals')
        BY <2>4 DEF ResetPhases, EmptySession, SessionsOf, Directed
      <3> QED BY <1>17, <2>1, <2>4, <3>1 DEF ResetPhases
    <2>5. CASE ResetPlans
      <3>1. g \in SessionsOf(c) /\ Directed(g) => globals' \in SessionsOf(c) /\ Directed(globals')
        BY <2>2, <2>5 DEF ResetPlans, SessionsOf, Directed
      <3> QED BY <1>17, <2>1, <2>5, <3>1 DEF ResetPlans
    <2> QED BY <1>18, <2>3, <2>4, <2>5
  <1>19. CASE UNCHANGED vars
    BY <1>19 DEF vars, TypeInvariant, TypeOK, InRound, Corridor
  <1> QED BY <1>3, <1>4, <1>5, <1>6, <1>7, <1>8, <1>9, <1>10, <1>11, <1>12, <1>13, <1>14, <1>15,
             <1>16, <1>18, <1>19 DEF Next, DecisionThread, HttpThread, Planning

\* Types: a saved session is one of its own corridor, its offsets lie in the
\* cycle, and what a round hands on is a plan of each road.
THEOREM SessionTypesAreCorrect == Spec => []TypeOK
  <1>1. Spec => []TypeInvariant
    BY InitTypes, NextTypes, PTL DEF Spec
  <1>2. TypeInvariant => TypeOK
    BY DEF TypeInvariant
  <1> QED BY <1>1, <1>2, PTL

-----------------------------------------------------------------------------
(* Sessions stay whole.                                                    *)

LEMMA NextWhole == TypeInvariant /\ WholeInvariant /\ [Next]_vars => WholeInvariant'
  <1> SUFFICES ASSUME TypeInvariant, WholeInvariant, [Next]_vars PROVE WholeInvariant'
    OBVIOUS
  <1> USE DEF session
  <1> DEFINE c == Corridor
  \* Steps that change neither the sessions nor the round.
  <1>1. ASSUME UNCHANGED <<globals, saved, round, torn>> PROVE WholeInvariant'
    BY <1>1 DEF WholeInvariant, SessionsAreWhole, InRound, Corridor
  \* Steps of a round that leave the saved sessions alone.
  <1>2. ASSUME UNCHANGED <<saved, torn>>, NEW pc, Goto(pc), c \notin torn => Whole(globals', c)
        PROVE  WholeInvariant'
    BY <1>2, SameCorridor DEF WholeInvariant, SessionsAreWhole
  \* Steps at the ends of a round.
  <1>3. ASSUME UNCHANGED <<saved, torn>>, ~InRound' PROVE WholeInvariant'
    BY <1>3 DEF WholeInvariant, SessionsAreWhole
  \* Resets of the globals tear the corridor of the round.
  <1>4. ASSUME UNCHANGED <<saved, round>>, Tear PROVE WholeInvariant'
    BY <1>4 DEF WholeInvariant, SessionsAreWhole, Tear, InRound, Corridor
  <1>5. CASE LoadCorridors \/ LoadFails \/ EndRound
    <2>1. round'.pc \in {"idle", "next"}
      BY <1>5, SameCorridor DEF LoadCorridors, LoadFails, EndRound, Idle
    <2> QED BY <1>3, <1>5, <2>1 DEF LoadCorridors, LoadFails, EndRound, InRound
  <1>6. CASE Activate
    <2>1. c \notin torn => Whole(globals', c)
      BY <1>6, DroppedSession DEF Activate, SessionOf, WholeInvariant, SessionsAreWhole
    <2> QED BY <1>2, <1>6, <2>1 DEF Activate
  <1>7. CASE OutOfPeriod
    <2>1. c \notin torn => Whole(globals', c)
      BY <1>7, DroppedSession DEF OutOfPeriod, WholeInvariant, InRound, At
    <2> QED BY <1>2, <1>7, <2>1 DEF OutOfPeriod
  <1>8. CASE Open
    <2>1. ASSUME c \notin torn PROVE Whole(globals', c)
      <3>1. globals = EmptySession
        BY <1>8, <2>1 DEF Open, WholeInvariant, InRound, At, Whole
      <3>2. PICK base \in [RoadsOf[c] -> UNION Range(BasePlans)] :
               globals' = [EmptySession EXCEPT !.start = TRUE, !.cycleGreen = TRUE, !.offsetGreen = FALSE,
                                               !.direction = round.period, !.sent = FALSE, !.plan = base]
        BY <1>8, <3>1 DEF Open
      <3>3. round.period \in Periods
        BY <1>8 DEF Open, TypeInvariant, TypeOK
      <3> QED BY <3>2, <3>3 DEF EmptySession, Whole, Covers
    <2> QED BY <1>2, <1>8, <2>1 DEF Open
  <1>9. CASE Resume
    BY <1>2, <1>9 DEF Resume, WholeInvariant, InRound, At
  <1>10. CASE Planning
    BY <1>2, <1>10, PlanningIsSound DEF SoundPlanning, WholeInvariant, InRound, At
  <1>11. CASE Capture
    <2>1. ASSUME NEW d \in DOMAIN saved' \ torn' PROVE Whole(saved'[d], d)
      <3>1. CASE d = c
        <4>1. c \notin torn \/ globals = EmptySession
          BY <1>11, <2>1, <3>1 DEF Capture
        <4>2. Whole(globals, c)
          BY <1>11, <4>1, DroppedSession DEF Capture, WholeInvariant, InRound, At
        <4> QED BY <1>11, <2>1, <3>1, <4>2, CaptureEffects
      <3>2. CASE d # c
        BY <1>11, <2>1, <3>2, CaptureEffects DEF Capture, WholeInvariant, SessionsAreWhole
      <3> QED BY <3>1, <3>2
    <2>2. ~InRound'
      BY <1>11, CaptureEffects DEF InRound
    <2> QED BY <2>1, <2>2 DEF WholeInvariant, SessionsAreWhole
  <1>12. CASE (\E d \in Corridors : Lock(d)) \/ WriteFails \/ WriteStore \/ ResetCompare
    BY <1>1, <1>12 DEF Lock, WriteFails, WriteStore, ResetCompare
  <1>13. CASE ResetPop
    <2>1. /\ DOMAIN saved' \ torn' \subseteq DOMAIN saved \ torn
          /\ InRound /\ c \notin torn' => c \notin torn
      BY <1>13, PopEffects DEF ResetPop
    <2> QED BY <1>13, <2>1, PopEffects DEF WholeInvariant, SessionsAreWhole, InRound
  <1>14. CASE ResetFlag \/ ResetPhases \/ ResetPlans
    BY <1>4, <1>14 DEF ResetFlag, ResetPhases, ResetPlans
  <1>15. CASE UNCHANGED vars
    BY <1>1, <1>15 DEF vars
  <1> QED BY <1>5, <1>6, <1>7, <1>8, <1>9, <1>10, <1>11, <1>12, <1>13, <1>14, <1>15
          DEF Next, DecisionThread, HttpThread, Planning

\* The session of a corridor stays whole unless a reset fell into the very
\* round that worked on it.
THEOREM SessionsStayWhole == Spec => []SessionsAreWhole
  <1>1. Init => WholeInvariant
    BY DEF Init, WholeInvariant, SessionsAreWhole, EmptyPlans, Idle, InRound
  <1>2. Spec => [](TypeInvariant /\ WholeInvariant)
    BY <1>1, InitTypes, NextTypes, NextWhole, PTL DEF Spec
  <1>3. WholeInvariant => SessionsAreWhole
    BY DEF WholeInvariant
  <1> QED BY <1>2, <1>3, PTL

-----------------------------------------------------------------------------
(* What a session remembers is what the round handed on.                   *)

LEMMA NextRemember == TypeInvariant /\ RememberInvariant /\ [Next]_vars => RememberInvariant'
  <1> SUFFICES ASSUME TypeInvariant, RememberInvariant, [Next]_vars PROVE RememberInvariant'
    OBVIOUS
  <1> USE DEF session
  <1> DEFINE c == Corridor
  <1>1. ASSUME UNCHANGED <<globals, saved, round, result, torn>> PROVE RememberInvariant'
    BY <1>1 DEF RememberInvariant, Remembers, At, Corridor
  \* Steps of a round before its plans are known.
  <1>2. ASSUME UNCHANGED <<saved, result, torn>>, NEW pc, Goto(pc), ~At("idle"), pc # "idle", ~At("capture"),
               c \in round.todo
        PROVE  RememberInvariant'
    <2>1. round'.pc = pc /\ round'.todo = round.todo /\ Corridor' = c
      BY <1>2, SameCorridor
    <2>2. DOMAIN result \cap round.todo = {}
      BY <1>2 DEF RememberInvariant
    <2> QED BY <1>2, <2>1, <2>2 DEF RememberInvariant, Remembers, At
  \* Resets of the globals tear the corridor of the round.
  <1>3. ASSUME UNCHANGED <<saved, round, result>>, Tear PROVE RememberInvariant'
    <2>1. torn \subseteq torn' /\ (At("capture") => c \in torn')
      BY <1>3 DEF Tear, InRound, At
    <2> QED BY <1>3, <2>1 DEF RememberInvariant, Remembers, At, Corridor
  <1>4. CASE LoadCorridors \/ LoadFails
    <2>1. result = EmptyPlans /\ result' = EmptyPlans /\ DOMAIN EmptyPlans = {} /\ round'.pc = "next"
      BY <1>4, SameCorridor DEF LoadCorridors, LoadFails, RememberInvariant, EmptyPlans
    <2> QED BY <2>1 DEF RememberInvariant, At
  <1>5. CASE EndRound
    <2>1. result' = EmptyPlans /\ DOMAIN EmptyPlans = {} /\ round'.pc = "idle"
      BY <1>5 DEF EndRound, EmptyPlans, Idle
    <2> QED BY <2>1 DEF RememberInvariant, At
  <1>6. CASE Activate \/ OutOfPeriod \/ Open \/ Resume
    <2>1. c \in round.todo
      BY <1>6, WorksOnACorridor DEF Activate, OutOfPeriod, Open, Resume, TypeInvariant, InRound, At
    <2> QED BY <1>2, <1>6, <2>1 DEF Activate, OutOfPeriod, Open, Resume, At
  <1>7. CASE Planning
    <2>1. SoundPlanning /\ c \in round.todo
      BY <1>7, PlanningIsSound, WorksOnACorridor DEF SoundPlanning, TypeInvariant, InRound, At
    <2>2. CASE result' = result
      BY <1>2, <2>1, <2>2 DEF SoundPlanning, At
    <2>3. CASE HandOn(globals'.plan)
      <3>1. round'.pc = "capture" /\ round'.todo = round.todo /\ Corridor' = c
        BY <2>1, SameCorridor DEF SoundPlanning
      <3>2. /\ DOMAIN result' = DOMAIN result \cup {c} /\ result'[c] = globals'.plan
            /\ \A d \in DOMAIN result \ {c} : result'[d] = result[d]
        BY <2>3 DEF HandOn, With
      <3>3. DOMAIN result \cap round.todo = {}
        BY <2>1 DEF RememberInvariant, SoundPlanning, At
      <3>4. saved' = saved /\ torn' = torn
        BY <2>1 DEF SoundPlanning
      <3> QED BY <2>1, <3>1, <3>2, <3>3, <3>4 DEF RememberInvariant, Remembers, At
    <2> QED BY <2>1, <2>2, <2>3 DEF SoundPlanning
  <1>8. CASE Capture
    <2>1. At("capture") /\ result' = result /\ torn' \in {torn, torn \ {c}}
      BY <1>8 DEF Capture
    <2>2. round'.pc = "next" /\ round'.todo = round.todo \ {c}
      BY <1>8, CaptureEffects
    <2>3. ASSUME NEW d \in (DOMAIN result' \cap DOMAIN saved') \ (torn' \cup round'.todo)
          PROVE  saved'[d] = EmptySession \/ saved'[d].plan = result'[d]
      <3>1. CASE d = c
        <4>1. saved'[d] = globals /\ (globals = EmptySession \/ c \notin torn)
          BY <1>8, <2>3, <3>1, CaptureEffects DEF Capture
        <4> QED BY <2>1, <2>3, <3>1, <4>1 DEF RememberInvariant
      <3>2. CASE d # c
        <4>1. d \in (DOMAIN result \cap DOMAIN saved) \ (torn \cup round.todo) /\ saved'[d] = saved[d]
          BY <1>8, <2>1, <2>2, <2>3, <3>2, CaptureEffects
        <4> QED BY <2>1, <4>1 DEF RememberInvariant, Remembers
      <3> QED BY <3>1, <3>2
    <2>4. DOMAIN result' \cap round'.todo = {}
      BY <2>1, <2>2 DEF RememberInvariant
    <2> QED BY <2>2, <2>3, <2>4 DEF RememberInvariant, Remembers, At
  <1>9. CASE (\E d \in Corridors : Lock(d)) \/ WriteFails \/ WriteStore \/ ResetCompare
    BY <1>1, <1>9 DEF Lock, WriteFails, WriteStore, ResetCompare
  <1>10. CASE ResetPop
    <2>1. /\ DOMAIN saved' \ torn' \subseteq DOMAIN saved \ torn
          /\ At("capture") /\ c \notin torn' => c \notin torn
      BY <1>10, PopEffects DEF ResetPop, InRound, At
    <2> QED BY <1>10, <2>1, PopEffects DEF RememberInvariant, Remembers, At
  <1>11. CASE ResetFlag \/ ResetPhases \/ ResetPlans
    BY <1>3, <1>11 DEF ResetFlag, ResetPhases, ResetPlans
  <1>12. CASE UNCHANGED vars
    BY <1>1, <1>12 DEF vars
  <1> QED BY <1>4, <1>5, <1>6, <1>7, <1>8, <1>9, <1>10, <1>11, <1>12
          DEF Next, DecisionThread, HttpThread, Planning

\* At the end of a round each session has the plan the round handed on.
THEOREM SessionsRemember == Spec => []RemembersWhatItHandedOn
  <1>1. Init => RememberInvariant
    BY DEF Init, RememberInvariant, EmptyPlans, Idle, At
  <1>2. Spec => [](TypeInvariant /\ RememberInvariant)
    BY <1>1, InitTypes, NextTypes, NextRemember, PTL DEF Spec
  <1>3. RememberInvariant => RemembersWhatItHandedOn
    BY DEF RememberInvariant, RemembersWhatItHandedOn, Remembers
  <1> QED BY <1>2, <1>3, PTL

-----------------------------------------------------------------------------
(* The first phase makes progress.                                         *)

LEMMA NextShrink == TypeInvariant /\ ShrinkInvariant /\ [Next]_vars => ShrinkInvariant'
  <1> SUFFICES ASSUME TypeInvariant, ShrinkInvariant, [Next]_vars PROVE ShrinkInvariant'
    OBVIOUS
  <1> USE DEF session
  <1> DEFINE c == Corridor
  <1>1. ASSUME UNCHANGED <<globals, saved, round, torn>> PROVE ShrinkInvariant'
    BY <1>1 DEF ShrinkInvariant, InRound, At, Corridor
  <1>2. ASSUME ~InRound' PROVE ShrinkInvariant'
    BY <1>2 DEF ShrinkInvariant
  <1>3. ASSUME UNCHANGED <<saved, round>>, Tear PROVE ShrinkInvariant'
    BY <1>3 DEF ShrinkInvariant, Tear, InRound, Corridor
  <1>4. CASE LoadCorridors \/ LoadFails \/ EndRound \/ Capture
    <2>1. round'.pc \in {"idle", "next"}
      BY <1>4, SameCorridor, CaptureEffects DEF LoadCorridors, LoadFails, EndRound, Idle
    <2> QED BY <1>2, <2>1 DEF InRound
  <1>5. CASE Activate
    <2>1. round'.pc = "open" /\ Corridor' = c /\ saved' = saved /\ torn' = torn
      BY <1>5, SameCorridor DEF Activate
    <2>2. c \in DOMAIN saved => globals' = saved[c]
      BY <1>5 DEF Activate, SessionOf
    <2> QED BY <2>1, <2>2 DEF ShrinkInvariant, At
  <1>6. CASE OutOfPeriod
    <2>1. round'.pc = "capture" /\ Corridor' = c /\ saved' = saved /\ torn' = torn
      BY <1>6, SameCorridor DEF OutOfPeriod
    <2>2. c \in DOMAIN saved \ torn => globals = saved[c]
      BY <1>6 DEF OutOfPeriod, ShrinkInvariant, InRound, At
    <2>3. globals'.start => globals' = globals
      BY <1>6 DEF OutOfPeriod, EmptySession
    <2> QED BY <2>1, <2>2, <2>3 DEF ShrinkInvariant, At
  <1>7. CASE Open \/ Resume
    <2>1. round'.pc = "plan" /\ Corridor' = c /\ saved' = saved /\ torn' = torn
      BY <1>7, SameCorridor DEF Open, Resume
    <2>2. c \in DOMAIN saved \ torn => globals = saved[c]
      BY <1>7 DEF Open, Resume, ShrinkInvariant, InRound, At
    <2>3. globals.start => globals' = globals
      BY <1>7 DEF Open, Resume
    <2> QED BY <2>1, <2>2, <2>3 DEF ShrinkInvariant, At
  <1>8. CASE Planning
    <2>1. SoundPlanning
      BY <1>8, PlanningIsSound
    <2>2. round'.pc = "capture" /\ Corridor' = c /\ saved' = saved /\ torn' = torn
      BY <2>1, SameCorridor DEF SoundPlanning
    <2>3. c \in DOMAIN saved \ torn /\ saved[c].start => globals = saved[c]
      BY <2>1 DEF SoundPlanning, ShrinkInvariant, InRound, At
    <2>4. \/ globals'.plan = globals.plan
          \/ \A r \in RoadsOf[c] : Corrects(globals.plan[r], globals'.plan[r], Red[r])
      BY <2>1 DEF SoundPlanning
    <2> QED BY <2>2, <2>3, <2>4 DEF ShrinkInvariant, At
  <1>9. CASE (\E d \in Corridors : Lock(d)) \/ WriteFails \/ WriteStore \/ ResetCompare
    BY <1>1, <1>9 DEF Lock, WriteFails, WriteStore, ResetCompare
  <1>10. CASE ResetPop
    <2>1. /\ DOMAIN saved' \ torn' \subseteq DOMAIN saved \ torn
      BY <1>10, PopEffects DEF ResetPop
    <2> QED BY <1>10, <2>1, PopEffects DEF ShrinkInvariant, InRound, At
  <1>11. CASE ResetFlag \/ ResetPhases \/ ResetPlans
    BY <1>3, <1>11 DEF ResetFlag, ResetPhases, ResetPlans
  <1>12. CASE UNCHANGED vars
    BY <1>1, <1>12 DEF vars
  <1> QED BY <1>4, <1>5, <1>6, <1>7, <1>8, <1>9, <1>10, <1>11, <1>12
          DEF Next, DecisionThread, HttpThread, Planning

\* A saved session changes only where a round captures it, or is dropped.
LEMMA OnlyCaptureSaves ==
    ASSUME TypeInvariant, [Next]_vars, NEW c \in DOMAIN saved \cap DOMAIN saved', saved'[c] # saved[c]
    PROVE  Capture /\ c = Corridor
  <1> USE DEF session
  <1>1. CASE Capture
    BY <1>1, CaptureEffects
  <1>2. CASE ResetPop
    BY <1>2, PopEffects
  <1>3. CASE UNCHANGED saved
    BY <1>3
  <1>4. Planning => UNCHANGED saved
    BY PlanningIsSound DEF SoundPlanning
  <1>5. Next => Capture \/ ResetPop \/ UNCHANGED saved
    BY <1>4 DEF Next, DecisionThread, HttpThread, Planning, LoadCorridors, LoadFails, EndRound, Activate,
            OutOfPeriod, Open, Resume, Lock, WriteFails, WriteStore, ResetCompare, ResetFlag, ResetPhases, ResetPlans
  <1> QED BY <1>1, <1>2, <1>3, <1>5 DEF vars

\* Each change of a running session leaves every road at the floors and, if
\* it was there before, closer to the common cycle or on it.
THEOREM EachChangeCorrects == Spec => CycleErrorShrinks
  <1> DEFINE Shrinks(c) ==
        LET s == saved[c]
            t == saved'[c]
        IN  c \notin torn \cup torn' /\ s.start /\ t.start /\ s.plan # t.plan =>
               \A r \in RoadsOf[c] :
                  /\ AtFloors(t.plan[r])
                  /\ AtFloors(s.plan[r]) => Closer(s.plan[r], t.plan[r], Red[r])
  <1>1. Init => ShrinkInvariant
    BY DEF Init, ShrinkInvariant, Idle, InRound
  <1>2. ASSUME TypeInvariant, ShrinkInvariant, [Next]_vars, NEW c \in DOMAIN saved \cap DOMAIN saved'
        PROVE  Shrinks(c)
    <2>1. CASE saved'[c] = saved[c]
      BY <2>1
    <2>2. CASE saved'[c] # saved[c]
      <3>1. Capture /\ c = Corridor
        BY <1>2, <2>2, OnlyCaptureSaves
      <3>2. saved'[c] = globals
        BY <1>2, <3>1, CaptureEffects
      <3>3. At("capture") /\ InRound
        BY <3>1 DEF Capture, InRound, At
      <3> QED BY <1>2, <3>1, <3>2, <3>3 DEF ShrinkInvariant, Corrects
    <2> QED BY <2>1, <2>2
  <1>3. TypeInvariant /\ ShrinkInvariant /\ [Next]_vars =>
          [\A c \in DOMAIN saved \cap DOMAIN saved' : Shrinks(c)]_vars
    BY <1>2
  <1> QED BY <1>1, <1>3, InitTypes, NextTypes, NextShrink, PTL DEF Spec, CycleErrorShrinks

=============================================================================
