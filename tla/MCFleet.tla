------------------------------ MODULE MCFleet ------------------------------
(***************************************************************************)
(* Components of the fleet for TLC: the terms of a client, and others      *)
(* beside them.  They share no state, so a behaviour follows one of them:  *)
(* focus says which, the others stand still.                               *)
(***************************************************************************)
EXTENDS Fleet, TLC

CONSTANTS n1, n2, w1, w2

VARIABLES
    focus,
    bound, held, eligible, taken, round     \* RateRounds

Limit(bits, burst) == [mode |-> "Limited", bits |-> bits, burst |-> burst]
NoLimit == [mode |-> "Unlimited", bits |-> 0, burst |-> 0]
NoRate == [mode |-> "Blocked", bits |-> 0, burst |-> 0]

\* A bound that divides unevenly, one too small for three participants, and
\* the two that are no numbers.
Plan == INSTANCE RateRounds WITH
    Members <- {1, 2, 3, 4}, MinimumBurst <- 1, MaxRound <- 3, current <- held,
    Bounds <- {Limit(5, 7), Limit(2, 4), NoLimit, NoRate},
    Rates <- {NoRate, NoLimit, Limit(1, 3), Limit(2, 2), Limit(5, 7)}

ASSUME FleetParameters == Plan!RoundsAssumption

\* The workers of the credit scheduler are alike.
WorkerSymmetry == Permutations(CreditWorkers)

planVars == <<bound, held, eligible, taken, round>>
fleetVars == <<focus, vars, planVars, creditVars>>

FleetInit ==
    /\ focus \in {"plan", "client", "credit"}
    /\ Init
    /\ Credit!Init
    /\ IF focus = "plan"
       THEN Plan!Init
       ELSE bound = NoRate /\ held = <<>> /\ eligible = {} /\ taken = {} /\ round = 0

FleetNext ==
    /\ UNCHANGED focus
    /\ \/ focus = "plan" /\ Plan!Next /\ UNCHANGED <<vars, creditVars>>
       \/ focus = "client" /\ Next /\ UNCHANGED <<planVars, creditVars>>
       \/ focus = "credit" /\ Credit!Next /\ UNCHANGED <<vars, planVars>>

FleetSpec == FleetInit /\ [][FleetNext]_fleetVars
-----------------------------------------------------------------------------
\* The planner: whatever is outstanding, the ledger accepts every part of a plan of
\* AllocateSharedRates in any order, what is divided is divided evenly and in full, and two
\* rounds of turns in any order reach the division.
PlanSound ==
    focus = "plan" => Plan!PlanAccepted /\ Plan!PlanSafe /\ Plan!FairDivision /\ Plan!Settles
=============================================================================
