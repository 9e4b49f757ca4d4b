---------------------------- MODULE FleetLedger -----------------------------
(***************************************************************************)
(* The quota ledger of the fleet (internal/controlplane/accounting.go,     *)
(* client_credit.go, web/service/fleet_client_credit.go) and what it means *)
(* for the traffic on the nodes.                                           *)
(*                                                                         *)
(* A client has a budget of its own and may share one with others (its     *)
(* reseller's or its group's).  Each placement of the client, on a node,   *)
(* has one grant.  Credit is issued to a grant by reserving it in all the  *)
(* budgets of the grant; the node admits traffic up to the credit it has   *)
(* been given, far from the ledger, and reports it later; a report turns   *)
(* reserved bytes into used ones.                                          *)
(*                                                                         *)
(* The nodes are seen through what Governor and UsagePipeline are shown to *)
(* promise: a node never admits more than the largest credit delivered to  *)
(* it, and bills in steps what was admitted.  Each transaction is a step,  *)
(* except that an allocation reads the tiers before it locks the budgets.  *)
(***************************************************************************)
EXTENDS Totals

CONSTANTS
    Placements,
    Budgets,
    Own,          \* placement -> the budget of its client's current term
    Parents,      \* placement -> the shared budgets, at most one
    Unlimited,    \* the budgets without a limit, own ones only
    Quota,        \* budget -> its limit when it was created
    Opening,      \* budget -> its usage when it was created
    Tiers,        \* budget -> where the client's rates change
    PanelLimits,  \* the limits an administrator gives to shared budgets
    Operations,   \* operation ids
    Amounts,      \* bytes asked for
    None

Shared == UNION {Parents[p] : p \in Placements}

ASSUME LedgerAssumption ==
    /\ IsFiniteSet(Placements) /\ IsFiniteSet(Operations)
    /\ Own \in [Placements -> Budgets] /\ Parents \in [Placements -> SUBSET Budgets]
    /\ Unlimited \subseteq Budgets /\ Shared \cap Unlimited = {}
    /\ \A p, q \in Placements : Own[p] \notin Parents[q] /\ (Own[p] = Own[q] => Parents[p] = Parents[q])
    /\ Quota \in [Budgets -> Nat] /\ Opening \in [Budgets -> Nat]
    /\ \A b \in Budgets \ Unlimited : Opening[b] <= Quota[b]
    /\ Tiers \in [Budgets -> SUBSET Nat] /\ PanelLimits \subseteq Nat /\ Amounts \subseteq Nat \ {0}
    /\ None \notin [placement : Placements, amount : Nat]

VARIABLES
    budget,     \* durable: limit, used and reserved bytes of each budget
    grant,      \* durable: issued and consumed bytes of each placement's grant
    operation,  \* durable: the result of each operation
    panel,      \* durable: the limit the panel holds for each shared budget
    quote,      \* an allocation that has read the tiers and has no lock yet
    delivered,  \* the credit each node has been given
    admitted    \* what each node has admitted

vars == <<budget, grant, operation, panel, quote, delivered, admitted>>

BudgetsOf(p) == {Own[p]} \cup Parents[p]
Limited(p) == BudgetsOf(p) \ Unlimited
Holders(b) == {p \in Placements : b \in BudgetsOf(p)}

Init ==
    /\ budget = [b \in Budgets |-> [limit |-> Quota[b], used |-> Opening[b], reserved |-> 0]]
    /\ grant = [p \in Placements |-> [issued |-> 0, consumed |-> 0]]
    /\ operation = [o \in Operations |-> None]
    /\ panel = [b \in Shared |-> Quota[b]]
    /\ quote = [o \in Operations |-> None]
    /\ delivered = [p \in Placements |-> 0]
    /\ admitted = [p \in Placements |-> 0]

-----------------------------------------------------------------------------
(***************************************************************************)
(* Allocation.                                                             *)
(***************************************************************************)

\* The next tier above what is accounted, or 0.
Ceiling(b, used) ==
    LET above == {t \in Tiers[b] : t > used}
    IN  IF above = {} THEN 0 ELSE Min(above)

\* Mutant: the claim of the operation id is not looked at.
ClaimedNever(o) == FALSE

\* An operation is done once: its row holds the request and the result, and
\* asking again returns the result.
Claimed(o) == operation[o] # None

\* The snapshot locks the client's rows and, shared, its owner's or group's;
\* the budget is read without a lock.
Quote(o, p, bytes, partial) ==
    /\ ~Claimed(o) /\ quote[o] = None
    /\ \A x \in Operations : quote[x] # None => Own[quote[x].placement] # Own[p]
    /\ quote' = [quote EXCEPT ![o] = [placement |-> p, bytes |-> bytes, partial |-> partial,
                                      ceiling |-> Ceiling(Own[p], budget[Own[p]].used)]]
    /\ UNCHANGED <<budget, grant, operation, panel, delivered, admitted>>

\* A shared budget takes the panel's limit unless more is spoken for already.
ParentsFit(p) == \A b \in Parents[p] : budget[b].used + budget[b].reserved <= panel[b]

LimitOf(p, b) == IF b \in Parents[p] THEN panel[b] ELSE budget[b].limit

\* Mutant: what is reserved counts as free.
FreeUnreserved(p, b) == LimitOf(p, b) - budget[b].used

Free(p, b) == LimitOf(p, b) - budget[b].used - budget[b].reserved

Issued(b) == Total([p \in Placements |-> grant[p].issued], Holders(b))
Consumed(b) == Total([p \in Placements |-> grant[p].consumed], Holders(b))

\* Mutant: what is reserved and not yet reported does not count.
SpokenForAccounted(b) == budget[b].used

\* What the client has used or may still use.  A budget without a limit keeps
\* no reservations; the grants of the term are added up instead.
SpokenFor(b) ==
    IF b \in Unlimited THEN budget[b].used - Consumed(b) + Issued(b)
    ELSE budget[b].used + budget[b].reserved

\* A partial allocation is cut down to what is free, and to the next tier.
Bounds(q) ==
    LET p == q.placement
        tier == IF q.ceiling = 0 THEN {} ELSE {q.ceiling - SpokenFor(Own[p])}
    IN  {q.bytes} \cup (IF q.partial THEN {Free(p, b) : b \in Limited(p)} \cup tier ELSE {})

IsAmount(q, amount) == amount \in Bounds(q) /\ \A n \in Bounds(q) : amount <= n

ReserveAllowed(q, amount) ==
    LET p == q.placement
    IN  /\ ParentsFit(p)
        /\ IsAmount(q, amount)
        /\ q.ceiling # 0 => amount <= q.ceiling - SpokenFor(Own[p])
        /\ \A b \in Limited(p) : amount <= Free(p, b)

\* Mutant: only the client's own budget is charged.
ReservedOwnOnly(p, amount) ==
    [b \in Budgets |->
       IF b \in BudgetsOf(p)
       THEN [budget[b] EXCEPT !.limit = LimitOf(p, b),
                              !.reserved = IF b \in Limited(p) \ Parents[p] THEN @ + amount ELSE @]
       ELSE budget[b]]

\* The budgets with the panel's limits and amount reserved.
Reserved(p, amount) ==
    [b \in Budgets |->
       IF b \in BudgetsOf(p)
       THEN [budget[b] EXCEPT !.limit = LimitOf(p, b),
                              !.reserved = IF b \in Limited(p) THEN @ + amount ELSE @]
       ELSE budget[b]]

\* The rest of the allocation, with the budgets locked; a refusal rolls all of
\* it back, the claim of the operation id too.
Reserve(o) ==
    /\ quote[o] # None
    /\ quote' = [quote EXCEPT ![o] = None]
    /\ LET q == quote[o]
           p == q.placement
       IN  \/ \E amount \in 1 .. q.bytes :
                /\ ReserveAllowed(q, amount)
                /\ budget' = Reserved(p, amount)
                /\ grant' = [grant EXCEPT ![p].issued = @ + amount]
                /\ operation' = [operation EXCEPT ![o] = [placement |-> p, amount |-> amount]]
           \/ /\ \A amount \in 1 .. q.bytes : ~ReserveAllowed(q, amount)
              /\ UNCHANGED <<budget, grant, operation>>
    /\ UNCHANGED <<panel, delivered, admitted>>

\* The master stops in the middle of the transaction.
Abort(o) ==
    /\ quote[o] # None
    /\ quote' = [quote EXCEPT ![o] = None]
    /\ UNCHANGED <<budget, grant, operation, panel, delivered, admitted>>

\* An administrator changes a shared limit; the row is locked while an
\* allocation that has read it goes on.
SetPanelLimit(b, limit) ==
    /\ \A o \in Operations : quote[o] # None => b \notin Parents[quote[o].placement]
    /\ panel[b] # limit
    /\ panel' = [panel EXCEPT ![b] = limit]
    /\ UNCHANGED <<budget, grant, operation, quote, delivered, admitted>>

-----------------------------------------------------------------------------
(***************************************************************************)
(* The nodes, and their reports.                                           *)
(***************************************************************************)

\* The node stores the credit issued so far.
Deliver(p) ==
    /\ delivered[p] # grant[p].issued
    /\ delivered' = [delivered EXCEPT ![p] = grant[p].issued]
    /\ UNCHANGED <<budget, grant, operation, panel, quote, admitted>>

Admit(p) ==
    /\ admitted[p] < delivered[p]
    /\ admitted' = [admitted EXCEPT ![p] = @ + 1]
    /\ UNCHANGED <<budget, grant, operation, panel, quote, delivered>>

\* Ingest refuses what the grant or a budget has no credit for.
IngestAllowed(p, delta) ==
    /\ delta <= grant[p].issued - grant[p].consumed
    /\ \A b \in Limited(p) : delta <= budget[b].reserved

\* Mutant: a report leaves its bytes reserved.
BilledTwice(p, delta) ==
    [b \in Budgets |->
       IF b \in BudgetsOf(p) THEN [budget[b] EXCEPT !.used = @ + delta] ELSE budget[b]]

\* Mutant: reserved bytes are released in all budgets, those without a limit
\* too.
BilledUnlimited(p, delta) ==
    [b \in Budgets |->
       IF b \in BudgetsOf(p) THEN [budget[b] EXCEPT !.used = @ + delta, !.reserved = @ - delta]
       ELSE budget[b]]

Billed(p, delta) ==
    [b \in Budgets |->
       IF b \in BudgetsOf(p)
       THEN [budget[b] EXCEPT !.used = @ + delta,
                              !.reserved = IF b \in Limited(p) THEN @ - delta ELSE @]
       ELSE budget[b]]

Ingest(p, delta) ==
    /\ grant[p].consumed + delta <= admitted[p]
    /\ IngestAllowed(p, delta)
    /\ budget' = Billed(p, delta)
    /\ grant' = [grant EXCEPT ![p].consumed = @ + delta]
    /\ UNCHANGED <<operation, panel, quote, delivered, admitted>>

-----------------------------------------------------------------------------
Next ==
    \/ \E o \in Operations :
         \/ \E p \in Placements, n \in Amounts, partial \in BOOLEAN : Quote(o, p, n, partial)
         \/ Reserve(o) \/ Abort(o)
    \/ \E b \in Shared, limit \in PanelLimits : SetPanelLimit(b, limit)
    \/ \E p \in Placements :
         \/ Deliver(p) \/ Admit(p)
         \/ \E delta \in 1 .. admitted[p] - grant[p].consumed : Ingest(p, delta)

Spec == Init /\ [][Next]_vars

-----------------------------------------------------------------------------
(***************************************************************************)
(* Properties.                                                             *)
(***************************************************************************)

\* Every variable has its type: no balance is negative.
TypeOK ==
    /\ budget \in [Budgets -> [limit : Nat, used : Nat, reserved : Nat]]
    /\ grant \in [Placements -> [issued : Nat, consumed : Nat]]
    /\ \A o \in Operations :
         /\ operation[o] # None => operation[o].placement \in Placements /\ operation[o].amount \in Nat
         /\ quote[o] # None => quote[o].placement \in Placements /\ quote[o].bytes \in Amounts
    /\ DOMAIN operation = Operations /\ DOMAIN quote = Operations
    /\ panel \in [Shared -> Nat]
    /\ delivered \in [Placements -> Nat] /\ admitted \in [Placements -> Nat]

\* No transaction runs into the check constraint fleet_budget_balance of the
\* budgets' table: what is used and reserved fits the limit, however Reserve,
\* Ingest and changes of the limit alternate.
Balanced ==
    \A b \in Budgets \ Unlimited : budget[b].used + budget[b].reserved <= budget[b].limit

Admitted(b) == Total(admitted, Holders(b))

\* What the nodes have admitted, reported or not, over all placements that
\* share a budget, never passes the limit the ledger holds for it, also when
\* the limit is lowered while credit is on its way (ReserveClientCredit).
QuotaHolds ==
    \A b \in Budgets \ Unlimited : Opening[b] + Admitted(b) <= budget[b].limit

\* The reserved bytes of a budget are those its grants may still report, so
\* Reserve and Ingest keep two sets of rows in step.
ReservedExact ==
    \A b \in Budgets \ Unlimited : budget[b].reserved = Issued(b) - Consumed(b)

\* Whatever a node has admitted can be billed: Ingest never refuses it, and
\* so never stops the reports of the node for good.
ReportsBillable ==
    \A p \in Placements : IngestAllowed(p, admitted[p] - grant[p].consumed)

\* No traffic passes a tier before the ledger has seen the tier reached, so
\* that the rates can change there, however late the tiers were read
\* (allocateFleetCreditTx reads them before the budget is locked).
TiersHold ==
    \A p \in Placements : \A t \in Tiers[Own[p]] :
       budget[Own[p]].used < t => Opening[Own[p]] + Admitted(Own[p]) <= t

\* An operation issues its bytes once: what a grant was issued is what the
\* operations report to have issued to it.
IssuedOnce ==
    \A p \in Placements :
       LET done == {o \in Operations : operation[o] # None /\ operation[o].placement = p}
       IN  grant[p].issued = Total([o \in done |-> operation[o].amount], done)

\* The rows of the ledger agree: what is reserved is what may still be reported, what a node
\* has admitted can be billed, and an operation that is repeated issues nothing more.
LedgerExact == TypeOK /\ ReservedExact /\ ReportsBillable /\ IssuedOnce
=============================================================================
