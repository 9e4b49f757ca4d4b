---------------------------- MODULE UsageBilling ----------------------------
(***************************************************************************)
(* What the usage pipeline promises, whatever lies between a runtime and   *)
(* the master: bytes are collected, and what is billed on a meter follows  *)
(* what was collected on it.  A bill is never taken back, and no meter is  *)
(* ever billed more than was collected.                                    *)
(***************************************************************************)
EXTENDS Integers

CONSTANT Meters

VARIABLES collected, billed

AtMost(low, high) == \A m \in Meters : low[m] <= high[m]

Init ==
    /\ collected = [m \in Meters |-> 0]
    /\ billed = [m \in Meters |-> 0]

Collect ==
    /\ collected' \in [Meters -> Nat] /\ AtMost(collected, collected')
    /\ UNCHANGED billed

Bill ==
    /\ billed' \in [Meters -> Nat]
    /\ AtMost(billed, billed') /\ AtMost(billed', collected)
    /\ UNCHANGED collected

Next == Collect \/ Bill

Spec == Init /\ [][Next]_<<collected, billed>>
=============================================================================
