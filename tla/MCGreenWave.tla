---------------------------- MODULE MCGreenWave ----------------------------
(***************************************************************************)
(* Two corridors of two roads with short cycles for TLC.                   *)
(***************************************************************************)
EXTENDS GreenWave, TLC

CONSTANTS c1, c2, r1, r2, r3, r4, morning

MCOrder == <<c1, c2>>
MCRoads == c1 :> {r1, r2} @@ c2 :> {r3, r4}
MCRed == r1 :> 10 @@ r2 :> 14 @@ r3 :> 10 @@ r4 :> 10
MCReference == c1 :> (morning :> r1) @@ c2 :> (morning :> r3)
MCTravel == [c \in {c1, c2} |-> morning :>
               (IF c = c1 THEN r1 :> 0 @@ r2 :> 35 ELSE r3 :> 0 @@ r4 :> 5)]
Short == [green |-> 12, balance |-> 10]
Lopsided == [green |-> 29, balance |-> 1]
Long == [green |-> 30, balance |-> 12]
OnCycle == [green |-> 15, balance |-> 15]
MCBasePlans == r1 :> {Long, Lopsided} @@ r2 :> {Short} @@ r3 :> {OnCycle} @@ r4 :> {OnCycle}
=============================================================================
