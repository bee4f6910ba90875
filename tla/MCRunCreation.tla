--------------------------- MODULE MCRunCreation ---------------------------
(***************************************************************************)
(* Instances of RunCreation for TLC.  Requests and trigger 1 belong to the *)
(* organization A, trigger 2 to B.  Trigger 1 asks for less than the least *)
(* interval and trigger 2 for none.                                        *)
(***************************************************************************)
EXTENDS RunCreation, TLC

CONSTANTS A, B

MCOrgOfRequest == [r \in Request |-> A]
MCOrgOfTrigger == [t \in Trigger |-> IF t = 1 THEN A ELSE B]
MCEveryMinutes == [t \in Trigger |-> IF t = 1 THEN 1 ELSE None]
MCLimit        == (A :> 2) @@ (B :> 1)

\* The month ends after every tick, or after the second.
MonthlyTicks == [t \in Time |-> t]
TwoMonths    == [t \in Time |-> IF t <= 1 THEN 0 ELSE 1]

MCSymmetry == Permutations(Request)
=============================================================================
