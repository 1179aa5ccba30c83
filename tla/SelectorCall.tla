---------------------------- MODULE SelectorCall ----------------------------
(***************************************************************************)
(* What a worker of the decision pipeline relies on when it asks the       *)
(* decision graph for the selection of a road: the call ends, and either   *)
(* the selector ran exactly once and its selection is returned, or the     *)
(* call raises.  A selector may record experiences, so a second run is not *)
(* a harmless retry.                                                       *)
(***************************************************************************)
EXTENDS Naturals

CONSTANTS
    Roads,
    MaxRounds        \* bound: calls per road

VARIABLES
    status,          \* road -> idle, asked, returned or raised
    ran,             \* road -> how often the selector ran in this call
    rounds           \* road -> calls so far

vars == <<status, ran, rounds>>

Init ==
    /\ status = [r \in Roads |-> "idle"]
    /\ ran = [r \in Roads |-> 0]
    /\ rounds = [r \in Roads |-> 0]

Ask(r) ==
    /\ status[r] # "asked" /\ rounds[r] < MaxRounds
    /\ status' = [status EXCEPT ![r] = "asked"]
    /\ ran' = [ran EXCEPT ![r] = 0]
    /\ rounds' = [rounds EXCEPT ![r] = @ + 1]

Run(r) ==
    /\ status[r] = "asked" /\ ran[r] = 0
    /\ ran' = [ran EXCEPT ![r] = 1]
    /\ UNCHANGED <<status, rounds>>

Return(r) ==
    /\ status[r] = "asked" /\ ran[r] = 1
    /\ status' = [status EXCEPT ![r] = "returned"]
    /\ UNCHANGED <<ran, rounds>>

\* The selector itself may be what raises, after it has done its work.
Raise(r) ==
    /\ status[r] = "asked"
    /\ status' = [status EXCEPT ![r] = "raised"]
    /\ \E n \in {ran[r], 1} : ran' = [ran EXCEPT ![r] = n]
    /\ UNCHANGED rounds

Next == \E r \in Roads : Ask(r) \/ Run(r) \/ Return(r) \/ Raise(r)

Spec ==
    /\ Init /\ [][Next]_vars
    /\ \A r \in Roads : WF_vars(Run(r) \/ Return(r) \/ Raise(r))
=============================================================================
