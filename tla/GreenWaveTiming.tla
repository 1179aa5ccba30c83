-------------------------- MODULE GreenWaveTiming --------------------------
(***************************************************************************)
(* The arithmetic of the green wave (lib/lvbotest.py): how the plan of a   *)
(* road walks to the common cycle of its corridor, and how the virtual     *)
(* start of its green walks towards the arrival of the platoon when the    *)
(* traffic messages are a replay.  Operators only.                         *)
(*                                                                         *)
(* Of the ten numbers of a plan the green wave reads and writes two: the   *)
(* green of the coordinated stage and the green of the stage that balances *)
(* it (_stage_indices).                                                    *)
(***************************************************************************)
EXTENDS Integers

CONSTANTS
    Cycle,           \* cycle_seconds of the corridor
    OffsetStep,      \* offset_step_seconds
    MinRemaining,    \* minimum_remaining_green_seconds
    TargetElapsed    \* simulation_target_elapsed_green_seconds

\* What _normalize_corridor accepts.
ASSUME TimingAssumption ==
    /\ Cycle \in Nat /\ Cycle > 0
    /\ OffsetStep \in 1..Cycle
    /\ MinRemaining \in 0..Cycle /\ TargetElapsed \in 0..Cycle

MaxStep == 8        \* the largest change of a green sum in one round
MinGreen == 10      \* no stage is cut below it
MinGreenSum == 20
Tolerance == 1      \* OFFSET_TOLERANCE, and the slack of an aligned cycle

RoadPlan == [green : Nat, balance : Nat]

AtLeast(floor, n) == IF n < floor THEN floor ELSE n
AtMost(cap, n) == IF n > cap THEN cap ELSE n
Distance(a, b) == IF a > b THEN a - b ELSE b - a

GreenSum(plan) == plan.green + plan.balance

\* int(round(a / b)) on floats: the nearest integer, either one on a tie.
Rounded(a, b) == {n \in {a \div b, a \div b + 1} : 2 * Distance(a, n * b) <= b}

-----------------------------------------------------------------------------
(* The common cycle.                                                       *)

TargetSum(red) == AtLeast(MinGreenSum, Cycle - red)

\* get_cycle_step: at most MaxStep towards the target.
NextSum(plan, red) ==
    LET gap == TargetSum(red) - GreenSum(plan)
    IN  GreenSum(plan) + (IF gap > 0 THEN AtMost(MaxStep, gap) ELSE AtLeast(0 - MaxStep, gap))

\* adjust_cycle_to_corridor for one road: the new sum is shared in the
\* proportion of the old greens, then both floors apply.
Adjusted(plan, red) ==
    LET sum == NextSum(plan, red)
        shares == IF GreenSum(plan) > 0 THEN Rounded(sum * plan.green, GreenSum(plan))
                                        ELSE Rounded(sum, 2)
    IN  {[green |-> AtLeast(MinGreen, n),
          balance |-> AtLeast(MinGreen, sum - AtLeast(MinGreen, n))] : n \in shares}

\* Mutant: the change is not capped by the gap, it always is a whole step.
AdjustedOvershooting(plan, red) ==
    LET sum == IF TargetSum(red) > GreenSum(plan) THEN GreenSum(plan) + MaxStep
               ELSE IF TargetSum(red) < GreenSum(plan) THEN GreenSum(plan) - MaxStep
               ELSE GreenSum(plan)
        shares == IF GreenSum(plan) > 0 THEN Rounded(sum * plan.green, GreenSum(plan))
                                        ELSE Rounded(sum, 2)
    IN  {[green |-> AtLeast(MinGreen, n),
          balance |-> AtLeast(MinGreen, sum - AtLeast(MinGreen, n))] : n \in shares}

\* is_corridor_cycle_aligned for one road.
CycleError(plan, red) == Distance(GreenSum(plan) + red, Cycle)

-----------------------------------------------------------------------------
(* The virtual green of a replay.  An offset is the position of the start  *)
(* of the green in the cycle.                                              *)

\* _signed_cycle_difference, the absolute value of it.
CyclicDistance(a, b) ==
    LET forward == (a - b) % Cycle IN AtMost(Cycle - forward, forward)

\* The platoon arrives in the green and enough of it is left.
InWindow(plan, offset, travel) ==
    LET elapsed == (travel - offset) % Cycle
    IN  elapsed < plan.green /\ plan.green - elapsed >= MinRemaining

\* Where the green should start for the platoon to meet it.
WantedStart(plan, travel) ==
    (travel - AtMost(AtLeast(0, plan.green - MinRemaining), TargetElapsed)) % Cycle

Meets(plan, offset, travel, target, none) ==
    /\ InWindow(plan, offset, travel)
    /\ target # none => CyclicDistance(offset, target) <= Tolerance

\* Mutant: an offset that moves backwards may leave the cycle.
MovedUnwrapped(offset, target) ==
    LET forward == (target - offset) % Cycle
        backward == (offset - target) % Cycle
    IN  IF forward <= backward THEN offset + AtMost(OffsetStep, forward)
                               ELSE offset - AtMost(OffsetStep, backward)

\* adjust_simulated_offsets_one_round: the shorter way round, forward on a tie.
Moved(offset, target) ==
    LET forward == (target - offset) % Cycle
        backward == (offset - target) % Cycle
    IN  IF forward <= backward THEN (offset + AtMost(OffsetStep, forward)) % Cycle
                               ELSE (offset - AtMost(OffsetStep, backward)) % Cycle
=============================================================================
