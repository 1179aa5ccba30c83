----------------------------- MODULE ResultBoard -----------------------------
(***************************************************************************)
(* What the result warehouse promises its readers (the broadcast thread,   *)
(* the HTTP server): it is empty or holds the plans of one batch, complete *)
(* and delivered under one configuration; it is replaced as a whole, and   *)
(* only by a later batch.                                                  *)
(***************************************************************************)
EXTENDS Naturals

CONSTANTS Roads,                  \* the controlled intersections
          Plan,                   \* signal plans
          Configs,                \* static configurations the loader admits
          Deliverable(_, _, _),   \* may a road be sent a plan under a configuration?
          Nothing                 \* no batch was published yet

VARIABLE board

Entry == [batch : Nat \ {0}, plans : [Roads -> Plan], config : Configs]

BatchOf(b) == IF b = Nothing THEN 0 ELSE b.batch

Init == board = Nothing

Replace ==
    /\ board' \in Entry
    /\ board'.batch > BatchOf(board)
    /\ \A r \in Roads : Deliverable(r, board'.plans[r], board'.config)

Spec == Init /\ [][Replace]_board
=============================================================================
