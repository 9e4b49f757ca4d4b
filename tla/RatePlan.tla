------------------------------ MODULE RatePlan ------------------------------
(***************************************************************************)
(* The division of a client's bandwidth among its placements               *)
(* (internal/controlplane/rates.go, rate_allocation.go).                   *)
(*                                                                         *)
(* Upload and download are divided alike and independently of each other;  *)
(* one direction is modelled.                                              *)
(***************************************************************************)
EXTENDS Totals

CONSTANT MinimumBurst  \* the least burst of a share that is not blocked

ASSUME MinimumAssumption == MinimumBurst \in Nat \ {0}

Rate == [mode : {"Blocked", "Limited", "Unlimited"}, bits : Nat, burst : Nat]
Blocked == [mode |-> "Blocked", bits |-> 0, burst |-> 0]
Unlimited == [mode |-> "Unlimited", bits |-> 0, burst |-> 0]
Limited(bits, burst) == [mode |-> "Limited", bits |-> bits, burst |-> burst]

ValidRate(r) ==
    /\ r \in Rate
    /\ r.mode = "Limited" <=> r.bits > 0
    /\ r.mode = "Limited" <=> r.burst > 0

-----------------------------------------------------------------------------
(***************************************************************************)
(* Rates.                                                                  *)
(***************************************************************************)

Larger(a, b) == IF a >= b THEN a ELSE b
Smaller(a, b) == IF a <= b THEN a ELSE b

Envelope(a, b) ==
    IF a.mode = "Unlimited" \/ b.mode = "Unlimited" THEN Unlimited
    ELSE IF a.mode = "Blocked" THEN b
    ELSE IF b.mode = "Blocked" THEN a
    ELSE Limited(Larger(a.bits, b.bits), Larger(a.burst, b.burst))

\* Mutant: a share is not lowered below what it has.
LowerRateKeep(a, b) == a

LowerRate(a, b) ==
    IF a.mode = "Blocked" \/ b.mode = "Blocked" THEN Blocked
    ELSE IF a.mode = "Unlimited" THEN b
    ELSE IF b.mode = "Unlimited" THEN a
    ELSE Limited(Smaller(a.bits, b.bits), Smaller(a.burst, b.burst))

\* a allows no more than b.
AtMost(a, b) ==
    \/ b.mode = "Unlimited" \/ a.mode = "Blocked"
    \/ a.mode = "Limited" /\ b.mode = "Limited" /\ a.bits <= b.bits /\ a.burst <= b.burst

\* fitsRates: the rates of the members in S fit the bound together.
Fits(bound, rate, S) ==
    bound.mode = "Unlimited"
    \/ /\ \A m \in S : rate[m].mode # "Blocked" => rate[m].mode = "Limited" /\ bound.mode # "Blocked"
       /\ Total([m \in S |-> rate[m].bits], S) <= bound.bits
       /\ Total([m \in S |-> rate[m].burst], S) <= bound.burst

-----------------------------------------------------------------------------
(***************************************************************************)
(* AllocateSharedRates.  A participant is eligible (its node is online and *)
(* at its deployment) or frozen; current is what each has outstanding.     *)
(***************************************************************************)

\* The pool is too small for as many participants.
CapacityError(bound, eligible) ==
    /\ bound.mode = "Limited"
    /\ Cardinality(eligible) > bound.bits \/ Cardinality(eligible) * MinimumBurst > bound.burst

Rank(m, S) == Cardinality({x \in S : x < m})

\* Mutant: the remainder is lost.
PartEven(amount, m, S) == amount \div Cardinality(S)

Part(amount, m, S) ==
    amount \div Cardinality(S) + (IF Rank(m, S) < amount % Cardinality(S) THEN 1 ELSE 0)

\* fairRateTargets: frozen participants keep what they have; the rest of the
\* bound is divided evenly, or, if it is too small to divide, stays as it is.
Targets(bound, current, eligible) ==
    LET all == DOMAIN current
        frozen == all \ eligible
        bits == bound.bits - Total([m \in frozen |-> current[m].bits], frozen)
        burst == bound.burst - Total([m \in frozen |-> current[m].burst], frozen)
        minimum == Cardinality(eligible) * MinimumBurst
        shared(m) ==
            IF bound.mode = "Blocked" \/ ~Fits(bound, current, frozen) THEN Blocked
            ELSE IF bound.mode = "Unlimited" THEN Unlimited
            ELSE IF bits < Cardinality(eligible) \/ minimum > burst
            THEN IF Fits(bound, current, all) THEN current[m] ELSE Blocked
            ELSE Limited(Part(bits, m, eligible), MinimumBurst + Part(burst - minimum, m, eligible))
    IN  [m \in all |-> IF m \in frozen THEN current[m] ELSE shared(m)]

\* Mutant: every increase is taken for free.
GrowsAlways(bound, held, m, target) == TRUE

\* An increase waits until there is room for it beside all that is outstanding.
Grows(bound, held, m, target) ==
    Fits(bound, [held EXCEPT ![m] = Envelope(held[m], target)], DOMAIN held)

\* Mutant: every participant is planned beside what is outstanding now.
PlanApart(bound, current, eligible) ==
    LET target == Targets(bound, current, eligible)
    IN  [m \in DOMAIN current |->
            IF m \notin eligible THEN current[m]
            ELSE IF Grows(bound, current, m, target[m]) THEN target[m]
            ELSE LowerRate(current[m], target[m])]

\* The participants are planned in the order of their ids, each beside what
\* the ones before it will hold.
Plan(bound, current, eligible) ==
    LET all == DOMAIN current
        target == Targets(bound, current, eligible)
        next[m \in all] ==
            LET held == [x \in all |-> IF x < m THEN Envelope(current[x], next[x]) ELSE current[x]]
            IN  IF m \notin eligible THEN current[m]
                ELSE IF Grows(bound, held, m, target[m]) THEN target[m]
                ELSE LowerRate(current[m], target[m])
    IN  next
=============================================================================
