----------------------------- MODULE RateRounds -----------------------------
(***************************************************************************)
(* What the planner promises, whatever is outstanding when it is called:   *)
(* the participants of one pool take their parts of a plan one after the   *)
(* other, each plan made anew from what is outstanding by then, as the     *)
(* reconciliation jobs of the admission scheduler do.  A part taken is     *)
(* confirmed at once; what happens in between is the subject of RateShares.*)
(***************************************************************************)
EXTENDS RatePlan

CONSTANTS
    Members,  \* participants, numbered in the order of their ids
    Bounds,   \* the bounds the pool may have
    Rates,    \* what may be outstanding for a participant
    MaxRound  \* bound: rounds

RoundsAssumption ==
    /\ Members \subseteq Nat /\ IsFiniteSet(Members)
    /\ \A r \in Bounds \cup Rates : ValidRate(r)
    /\ MaxRound \in Nat

VARIABLES
    bound,     \* the pool's bound
    current,   \* what is outstanding for each participant
    eligible,  \* the participants that are not frozen
    taken,     \* the participants that had their turn in this round
    round      \* the rounds that are over

vars == <<bound, current, eligible, taken, round>>

Init ==
    /\ bound \in Bounds
    /\ current \in [Members -> Rates]
    /\ eligible \in SUBSET Members
    /\ taken = {} /\ round = 0

Take(m) ==
    /\ round < MaxRound /\ m \in eligible \ taken
    /\ current' = [current EXCEPT ![m] = Plan(bound, current, eligible)[m]]
    /\ IF taken \cup {m} = eligible
       THEN taken' = {} /\ round' = round + 1
       ELSE taken' = taken \cup {m} /\ UNCHANGED round
    /\ UNCHANGED <<bound, eligible>>

Next == \E m \in Members : Take(m)

Spec == Init /\ [][Next]_vars

-----------------------------------------------------------------------------
\* The ledger accepts what the planner plans: RequestRateShare refuses no part
\* of a plan of AllocateSharedRates for want of room, which would settle the
\* demand or the job without a retry (ErrBudget).
PlanAccepted ==
    LET next == Plan(bound, current, eligible)
    IN  \A m \in eligible :
          LET after == Envelope(current[m], next[m])
          IN  after # current[m] => Fits(bound, [current EXCEPT ![m] = after], Members)

\* A plan is safe in whatever order its parts are asked for and take effect:
\* if what is outstanding fits, so does all of it together with the plan.
PlanSafe ==
    LET next == Plan(bound, current, eligible)
    IN  Fits(bound, current, Members) =>
          Fits(bound, [m \in Members |-> Envelope(current[m], next[m])], Members)

\* fairRateTargets wastes nothing and favours nobody: where the bound can be
\* divided, what is assigned adds up to it and differs by one at most.
FairDivision ==
    LET target == Targets(bound, current, eligible)
        divided == \E m \in eligible : target[m] # current[m] /\ target[m].mode = "Limited"
    IN  divided =>
          /\ Total([m \in Members |-> target[m].bits], Members) = bound.bits
          /\ Total([m \in Members |-> target[m].burst], Members) = bound.burst
          /\ \A m, n \in eligible : target[m].bits - target[n].bits <= 1 /\ target[m].burst - target[n].burst <= 1

\* Reductions make room for increases: in whatever order the participants
\* take their turns, two rounds reach the fair division, also from what does
\* not fit the bound.
Settles == round >= 2 => current = Targets(bound, current, eligible)
=============================================================================
