------------------------- MODULE FleetLedgerProofs --------------------------
(***************************************************************************)
(* For every set of placements, budgets, limits, tiers and operations: the *)
(* ledger's balances stay balanced and no node has more credit than was    *)
(* issued.                                                                 *)
(*                                                                         *)
(* Balanced alone is not inductive: a report must find its bytes among the *)
(* reserved ones (TypeOK, through the guard of Ingest), and a change of a  *)
(* limit comes only with an amount that fits the new limit.                *)
(***************************************************************************)
EXTENDS FleetLedger, TotalsProofs

\* A node has no more credit than was issued, has admitted no more than it
\* has credit, and is billed for no more than it admitted.
CreditChain ==
    \A p \in Placements :
       /\ grant[p].consumed <= admitted[p]
       /\ admitted[p] <= delivered[p]
       /\ delivered[p] <= grant[p].issued

Inv == TypeOK /\ Balanced /\ CreditChain

\* The ledger starts balanced.
LEMMA InitInv == Init => Inv
BY LedgerAssumption DEF Init, Inv, TypeOK, Balanced, CreditChain, Shared

\* The budgets of a placement, and those among them with a limit.
LEMMA BudgetsTyped ==
    ASSUME NEW p \in Placements
    PROVE  /\ BudgetsOf(p) \subseteq Budgets
           /\ Limited(p) = BudgetsOf(p) \ Unlimited
           /\ Parents[p] \subseteq Limited(p)
           /\ Parents[p] \subseteq Shared
BY LedgerAssumption DEF BudgetsOf, Limited, Shared

\* Reserving an amount that is free under the new limits keeps the balance.
LEMMA ReserveBalanced ==
    ASSUME TypeOK, Balanced,
           NEW p \in Placements, NEW amount \in Nat,
           \A b \in Limited(p) : amount <= Free(p, b)
    PROVE  /\ Reserved(p, amount) \in [Budgets -> [limit : Nat, used : Nat, reserved : Nat]]
           /\ \A b \in Budgets \ Unlimited :
                Reserved(p, amount)[b].used + Reserved(p, amount)[b].reserved
                  <= Reserved(p, amount)[b].limit
<1> DEFINE new == Reserved(p, amount)
<1>1. \A b \in Budgets : LimitOf(p, b) \in Nat
  BY BudgetsTyped DEF TypeOK, LimitOf
<1>2. ASSUME NEW b \in Budgets
      PROVE  /\ new[b] \in [limit : Nat, used : Nat, reserved : Nat]
             /\ b \notin Unlimited => new[b].used + new[b].reserved <= new[b].limit
  <2>1. CASE b \notin BudgetsOf(p)
    BY <2>1 DEF TypeOK, Balanced, Reserved
  <2>2. CASE b \in BudgetsOf(p) /\ b \in Unlimited
    <3>1. b \notin Limited(p)
      BY <2>2 DEF Limited
    <3>2. new[b] = [limit |-> LimitOf(p, b), used |-> budget[b].used, reserved |-> budget[b].reserved]
      BY <2>2, <3>1 DEF Reserved, TypeOK
    <3> QED BY <1>1, <2>2, <3>2 DEF TypeOK
  <2>3. CASE b \in BudgetsOf(p) /\ b \notin Unlimited
    <3>1. b \in Limited(p)
      BY <2>3 DEF Limited
    <3>2. new[b] = [limit |-> LimitOf(p, b), used |-> budget[b].used, reserved |-> budget[b].reserved + amount]
      BY <2>3, <3>1 DEF Reserved, TypeOK
    <3>3. amount <= LimitOf(p, b) - budget[b].used - budget[b].reserved
      BY <3>1 DEF Free
    <3>4. budget[b] \in [limit : Nat, used : Nat, reserved : Nat] /\ LimitOf(p, b) \in Nat
      BY <1>1 DEF TypeOK
    <3> HIDE DEF new
    <3> QED BY <3>2, <3>3, <3>4
  <2> QED BY <2>1, <2>2, <2>3
<1>3. new \in [Budgets -> [limit : Nat, used : Nat, reserved : Nat]]
  BY <1>2 DEF Reserved
<1> QED BY <1>2, <1>3

\* A report moves its bytes from the reserved ones to the used ones.
LEMMA BillBalanced ==
    ASSUME TypeOK, Balanced,
           NEW p \in Placements, NEW delta \in Nat,
           IngestAllowed(p, delta)
    PROVE  /\ Billed(p, delta) \in [Budgets -> [limit : Nat, used : Nat, reserved : Nat]]
           /\ \A b \in Budgets \ Unlimited :
                Billed(p, delta)[b].used + Billed(p, delta)[b].reserved
                  <= Billed(p, delta)[b].limit
<1> DEFINE new == Billed(p, delta)
<1>1. ASSUME NEW b \in Budgets
      PROVE  /\ new[b] \in [limit : Nat, used : Nat, reserved : Nat]
             /\ b \notin Unlimited => new[b].used + new[b].reserved <= new[b].limit
  <2>1. CASE b \notin BudgetsOf(p)
    BY <2>1 DEF TypeOK, Balanced, Billed
  <2>2. CASE b \in BudgetsOf(p) /\ b \in Unlimited
    <3>1. b \notin Limited(p)
      BY <2>2 DEF Limited
    <3>2. new[b] = [limit |-> budget[b].limit, used |-> budget[b].used + delta, reserved |-> budget[b].reserved]
      BY <2>2, <3>1 DEF Billed, TypeOK
    <3> QED BY <2>2, <3>2 DEF TypeOK
  <2>3. CASE b \in BudgetsOf(p) /\ b \notin Unlimited
    <3>1. b \in Limited(p)
      BY <2>3 DEF Limited
    <3>2. new[b] = [limit |-> budget[b].limit, used |-> budget[b].used + delta, reserved |-> budget[b].reserved - delta]
      BY <2>3, <3>1 DEF Billed, TypeOK
    <3>3. delta <= budget[b].reserved
      BY <3>1 DEF IngestAllowed
    <3> QED BY <2>3, <3>2, <3>3 DEF TypeOK, Balanced
  <2> QED BY <2>1, <2>2, <2>3
<1>2. new \in [Budgets -> [limit : Nat, used : Nat, reserved : Nat]]
  BY <1>1 DEF Billed
<1> QED BY <1>1, <1>2

\* Every step keeps the invariant.
LEMMA NextInv == Inv /\ [Next]_vars => Inv'
<1> SUFFICES ASSUME Inv, [Next]_vars PROVE Inv'
  OBVIOUS
<1> USE DEF Inv
<1>1. ASSUME NEW o \in Operations, NEW p \in Placements, NEW n \in Amounts, NEW partial \in BOOLEAN,
             Quote(o, p, n, partial)
      PROVE  Inv'
  BY <1>1 DEF Quote, TypeOK, Balanced, CreditChain
<1>2. ASSUME NEW o \in Operations, Reserve(o) PROVE Inv'
  <2> DEFINE q == quote[o]
             p == q.placement
  <2>1. p \in Placements /\ quote[o] # None
    BY <1>2 DEF Reserve, TypeOK
  <2>2. ASSUME NEW amount \in 1 .. q.bytes,
               ReserveAllowed(q, amount),
               budget' = Reserved(p, amount),
               grant' = [grant EXCEPT ![p].issued = @ + amount],
               operation' = [operation EXCEPT ![o] = [placement |-> p, amount |-> amount]]
        PROVE  Inv'
    <3>1. amount \in Nat
      OBVIOUS
    <3>2. \A b \in Limited(p) : amount <= Free(p, b)
      BY <2>2 DEF ReserveAllowed
    <3>3. /\ budget' \in [Budgets -> [limit : Nat, used : Nat, reserved : Nat]]
          /\ Balanced'
      BY <2>1, <2>2, <3>1, <3>2, ReserveBalanced DEF Balanced
    <3>4. TypeOK'
      BY <1>2, <2>1, <2>2, <3>1, <3>3, SMTT(30) DEF Reserve, TypeOK
    <3>5. CreditChain'
      BY <1>2, <2>1, <2>2, <3>1 DEF Reserve, TypeOK, CreditChain
    <3> QED BY <3>3, <3>4, <3>5
  <2>3. CASE UNCHANGED <<budget, grant, operation>>
    BY <1>2, <2>3 DEF Reserve, TypeOK, Balanced, CreditChain
  <2> QED BY <1>2, <2>2, <2>3 DEF Reserve
<1>3. ASSUME NEW o \in Operations, Abort(o) PROVE Inv'
  BY <1>3 DEF Abort, TypeOK, Balanced, CreditChain
<1>4. ASSUME NEW b \in Shared, NEW limit \in PanelLimits, SetPanelLimit(b, limit) PROVE Inv'
  BY <1>4, LedgerAssumption DEF SetPanelLimit, TypeOK, Balanced, CreditChain
<1>5. ASSUME NEW p \in Placements, Deliver(p) PROVE Inv'
  BY <1>5 DEF Deliver, TypeOK, Balanced, CreditChain
<1>6. ASSUME NEW p \in Placements, Admit(p) PROVE Inv'
  BY <1>6 DEF Admit, TypeOK, Balanced, CreditChain
<1>7. ASSUME NEW p \in Placements, NEW delta \in 1 .. admitted[p] - grant[p].consumed,
             Ingest(p, delta)
      PROVE  Inv'
  <2>1. delta \in Nat
    BY DEF TypeOK
  <2>2. /\ budget' \in [Budgets -> [limit : Nat, used : Nat, reserved : Nat]]
        /\ Balanced'
    BY <1>7, <2>1, BillBalanced DEF Ingest, Balanced
  <2>3. TypeOK'
    BY <1>7, <2>1, <2>2 DEF Ingest, TypeOK
  <2>4. CreditChain'
    BY <1>7, <2>1 DEF Ingest, TypeOK, CreditChain
  <2> QED BY <2>2, <2>3, <2>4
<1>8. CASE UNCHANGED vars
  BY <1>8 DEF vars, TypeOK, Balanced, CreditChain
<1> QED BY <1>1, <1>2, <1>3, <1>4, <1>5, <1>6, <1>7, <1>8 DEF Next

\* The inductive invariant holds for ever.
LEMMA Invariance == Spec => []Inv
BY InitInv, NextInv, PTL DEF Spec

\* In every fleet, whatever the order of allocations, reports and changes of
\* limits, used and reserved bytes fit the limit: the table's check constraint
\* never refuses what Reserve and Ingest write.
THEOREM LedgerBalanced == Spec => [](TypeOK /\ Balanced)
<1>1. Inv => TypeOK /\ Balanced
  BY DEF Inv
<1> QED BY <1>1, Invariance, PTL

\* No node admits more than was issued to its grant, and the ledger never
\* bills more than was admitted.
THEOREM AdmittedWithinIssued == Spec => []CreditChain
<1>1. Inv => CreditChain
  BY DEF Inv
<1> QED BY <1>1, Invariance, PTL

-----------------------------------------------------------------------------
(***************************************************************************)
(* The rows and the totals over them.                                      *)
(*                                                                         *)
(* QuotaHolds, ReportsBillable and TiersHold are about what the nodes may  *)
(* still do, so they follow from what was issued: the used bytes of a      *)
(* budget are those its grants consumed (UsedExact), the reserved ones     *)
(* those they may still consume (ReservedExact), and both together never   *)
(* pass a tier that is not reached (TiersKept).  The last needs that the   *)
(* tier an allocation has read is still the next one or lies behind        *)
(* (CeilingsHold), the operation rows that an operation with a quote has   *)
(* none (QuotesUnclaimed).                                                 *)
(***************************************************************************)

\* What a budget has used is what its grants consumed.
UsedExact == \A b \in Budgets : budget[b].used = Opening[b] + Consumed(b)

\* An operation that is under way has no row yet.
QuotesUnclaimed == \A o \in Operations : quote[o] # None => operation[o] = None

\* The tiers above what is used lie at or above the ceiling of each quote.
CeilingsHold ==
    \A o \in Operations : quote[o] # None =>
       /\ quote[o].ceiling \in Nat
       /\ LET b == Own[quote[o].placement]
          IN  \A t \in Tiers[b] :
                 budget[b].used < t => quote[o].ceiling # 0 /\ quote[o].ceiling <= t

\* Nothing is issued past a tier that is not reached.
TiersKept ==
    \A p \in Placements : \A t \in Tiers[Own[p]] :
       budget[Own[p]].used < t => Opening[Own[p]] + Issued(Own[p]) <= t

Rows == Inv /\ UsedExact /\ ReservedExact /\ QuotesUnclaimed /\ IssuedOnce /\ CeilingsHold /\ TiersKept

\* The holders of a budget are finitely many placements.
LEMMA HoldersFinite ==
    ASSUME NEW b
    PROVE  IsFiniteSet(Holders(b)) /\ Holders(b) \subseteq Placements
<1>1. Holders(b) \in SUBSET Placements
  BY DEF Holders
<1> QED BY <1>1, FS_Subset, LedgerAssumption

\* The grants' rows can be added up.
LEMMA GrantsCount ==
    ASSUME TypeOK, NEW b
    PROVE  /\ Counts([p \in Placements |-> grant[p].issued], Holders(b))
           /\ Counts([p \in Placements |-> grant[p].consumed], Holders(b))
           /\ Counts(admitted, Holders(b))
           /\ Issued(b) \in Nat /\ Consumed(b) \in Nat /\ Admitted(b) \in Nat
<1>1. /\ Counts([p \in Placements |-> grant[p].issued], Holders(b))
      /\ Counts([p \in Placements |-> grant[p].consumed], Holders(b))
      /\ Counts(admitted, Holders(b))
  BY HoldersFinite DEF Counts, TypeOK
<1> QED BY <1>1, TotalType DEF Issued, Consumed, Admitted

\* Issuing to a placement raises the totals of its budgets by as much.
LEMMA IssueTotals ==
    ASSUME TypeOK, TypeOK', NEW p \in Placements, NEW amount \in Nat,
           grant' = [grant EXCEPT ![p].issued = @ + amount], NEW b
    PROVE  /\ Issued(b)' = IF b \in BudgetsOf(p) THEN Issued(b) + amount ELSE Issued(b)
           /\ Consumed(b)' = Consumed(b)
<1> DEFINE f == [q \in Placements |-> grant[q].issued]
           g == [q \in Placements |-> grant'[q].issued]
           c == [q \in Placements |-> grant[q].consumed]
           d == [q \in Placements |-> grant'[q].consumed]
<1>1. Counts(f, Holders(b)) /\ Counts(c, Holders(b))
  BY GrantsCount
<1>2. Counts(g, Holders(b))
  BY HoldersFinite DEF Counts, TypeOK
<1>3. \A q \in Placements : /\ g[q] = IF q = p THEN f[q] + amount ELSE f[q]
                            /\ d[q] = c[q] /\ f[q] \in Nat
  BY DEF TypeOK
<1>4. Total(c, Holders(b)) = Total(d, Holders(b))
  <2>1. \A q \in Holders(b) : c[q] = d[q]
    BY <1>3, HoldersFinite
  <2> HIDE DEF c, d
  <2> QED BY <1>1, <2>1, TotalSame
<1>5. CASE p \in Holders(b)
  <2>1. \A y \in Holders(b) \ {p} : f[y] = g[y]
    BY <1>3, HoldersFinite
  <2>2. g[p] = f[p] + amount /\ f[p] \in Nat
    BY <1>3
  <2> HIDE DEF f, g
  <2>3. Total(g, Holders(b)) = Total(f, Holders(b)) + g[p] - f[p]
    BY <1>1, <1>2, <1>5, <2>1, TotalChange
  <2>4. Total(f, Holders(b)) \in Nat
    BY <1>1, TotalType
  <2>5. Total(g, Holders(b)) = Total(f, Holders(b)) + amount
    BY <2>2, <2>3, <2>4
  <2>6. b \in BudgetsOf(p)
    BY <1>5 DEF Holders
  <2> QED BY <1>4, <2>5, <2>6 DEF Issued, Consumed, f, g
<1>6. CASE p \notin Holders(b)
  <2>1. \A y \in Holders(b) : f[y] = g[y]
    BY <1>3, <1>6, HoldersFinite
  <2>2. b \notin BudgetsOf(p)
    BY <1>6 DEF Holders
  <2> HIDE DEF f, g
  <2>3. Total(f, Holders(b)) = Total(g, Holders(b))
    BY <1>1, <2>1, TotalSame
  <2> QED BY <1>4, <2>2, <2>3 DEF Issued, Consumed, f, g
<1> QED BY <1>5, <1>6

\* A report raises what the budgets of its placement have consumed.
LEMMA ConsumeTotals ==
    ASSUME TypeOK, TypeOK', NEW p \in Placements, NEW delta \in Nat,
           grant' = [grant EXCEPT ![p].consumed = @ + delta], NEW b
    PROVE  /\ Consumed(b)' = IF b \in BudgetsOf(p) THEN Consumed(b) + delta ELSE Consumed(b)
           /\ Issued(b)' = Issued(b)
<1> DEFINE f == [q \in Placements |-> grant[q].consumed]
           g == [q \in Placements |-> grant'[q].consumed]
           c == [q \in Placements |-> grant[q].issued]
           d == [q \in Placements |-> grant'[q].issued]
<1>1. Counts(f, Holders(b)) /\ Counts(c, Holders(b))
  BY GrantsCount
<1>2. Counts(g, Holders(b))
  BY HoldersFinite DEF Counts, TypeOK
<1>3. \A q \in Placements : /\ g[q] = IF q = p THEN f[q] + delta ELSE f[q]
                            /\ d[q] = c[q] /\ f[q] \in Nat
  BY DEF TypeOK
<1>4. Total(c, Holders(b)) = Total(d, Holders(b))
  <2>1. \A q \in Holders(b) : c[q] = d[q]
    BY <1>3, HoldersFinite
  <2> HIDE DEF c, d
  <2> QED BY <1>1, <2>1, TotalSame
<1>5. CASE p \in Holders(b)
  <2>1. \A y \in Holders(b) \ {p} : f[y] = g[y]
    BY <1>3, HoldersFinite
  <2>2. g[p] = f[p] + delta /\ f[p] \in Nat
    BY <1>3
  <2> HIDE DEF f, g
  <2>3. Total(g, Holders(b)) = Total(f, Holders(b)) + g[p] - f[p]
    BY <1>1, <1>2, <1>5, <2>1, TotalChange
  <2>4. Total(f, Holders(b)) \in Nat
    BY <1>1, TotalType
  <2>5. Total(g, Holders(b)) = Total(f, Holders(b)) + delta
    BY <2>2, <2>3, <2>4
  <2>6. b \in BudgetsOf(p)
    BY <1>5 DEF Holders
  <2> QED BY <1>4, <2>5, <2>6 DEF Issued, Consumed, f, g
<1>6. CASE p \notin Holders(b)
  <2>1. \A y \in Holders(b) : f[y] = g[y]
    BY <1>3, <1>6, HoldersFinite
  <2>2. b \notin BudgetsOf(p)
    BY <1>6 DEF Holders
  <2> HIDE DEF f, g
  <2>3. Total(f, Holders(b)) = Total(g, Holders(b))
    BY <1>1, <2>1, TotalSame
  <2> QED BY <1>4, <2>2, <2>3 DEF Issued, Consumed, f, g
<1> QED BY <1>5, <1>6

\* The ceiling an allocation reads is the first tier that is not reached.
LEMMA CeilingReads ==
    ASSUME NEW b \in Budgets, NEW used \in Nat
    PROVE  /\ Ceiling(b, used) \in Nat
           /\ \A t \in Tiers[b] : used < t => Ceiling(b, used) # 0 /\ Ceiling(b, used) <= t
<1> DEFINE above == {t \in Tiers[b] : t > used}
<1>1. Tiers[b] \in SUBSET Nat
  BY LedgerAssumption
<1>2. above \in SUBSET Nat
  BY <1>1
<1>3. CASE above = {}
  BY <1>1, <1>3 DEF Ceiling
<1>4. CASE above # {}
  <2>1. Min(above) \in above /\ \A t \in above : Min(above) <= t
    BY <1>2, <1>4, LeastNatural
  <2>2. Ceiling(b, used) = Min(above)
    BY <1>4 DEF Ceiling
  <2> QED BY <1>1, <2>1, <2>2
<1> QED BY <1>3, <1>4

\* What is spoken for in a client's own budget is what it began with and what was issued.
LEMMA SpokenForIssued ==
    ASSUME TypeOK, UsedExact, ReservedExact, NEW b \in Budgets
    PROVE  SpokenFor(b) = Opening[b] + Issued(b)
<1>1. Issued(b) \in Nat /\ Consumed(b) \in Nat /\ Opening[b] \in Nat
  BY GrantsCount, LedgerAssumption
<1>2. budget[b].used = Opening[b] + Consumed(b)
  BY DEF UsedExact
<1>3. CASE b \in Unlimited
  BY <1>1, <1>2, <1>3 DEF SpokenFor
<1>4. CASE b \notin Unlimited
  <2>1. budget[b].reserved = Issued(b) - Consumed(b)
    BY <1>4 DEF ReservedExact
  <2> QED BY <1>1, <1>2, <1>4, <2>1 DEF SpokenFor
<1> QED BY <1>3, <1>4

\* What a reservation and a report do to the rows of the budgets.
LEMMA BudgetRows ==
    ASSUME TypeOK, NEW p \in Placements, NEW n \in Nat, NEW b \in Budgets
    PROVE  /\ Reserved(p, n)[b].used = budget[b].used
           /\ Reserved(p, n)[b].reserved =
                IF b \in Limited(p) THEN budget[b].reserved + n ELSE budget[b].reserved
           /\ Billed(p, n)[b].used =
                IF b \in BudgetsOf(p) THEN budget[b].used + n ELSE budget[b].used
           /\ Billed(p, n)[b].reserved =
                IF b \in Limited(p) THEN budget[b].reserved - n ELSE budget[b].reserved
<1>1. budget[b] \in [limit : Nat, used : Nat, reserved : Nat]
  BY DEF TypeOK
<1>2. b \in Limited(p) => b \in BudgetsOf(p)
  BY DEF Limited
<1>3. CASE b \notin BudgetsOf(p)
  BY <1>2, <1>3 DEF Reserved, Billed
<1>4. CASE b \in BudgetsOf(p)
  <2>1. Reserved(p, n)[b] =
          [limit |-> LimitOf(p, b), used |-> budget[b].used,
           reserved |-> IF b \in Limited(p) THEN budget[b].reserved + n ELSE budget[b].reserved]
    BY <1>1, <1>4 DEF Reserved
  <2>2. Billed(p, n)[b] =
          [limit |-> budget[b].limit, used |-> budget[b].used + n,
           reserved |-> IF b \in Limited(p) THEN budget[b].reserved - n ELSE budget[b].reserved]
    BY <1>1, <1>4 DEF Billed
  <2> QED BY <1>4, <2>1, <2>2
<1> QED BY <1>3, <1>4

\* The rows of the operations done for placement p.
DoneFor(p) == {o \in Operations : operation[o] # None /\ operation[o].placement = p}
IssuedFor(p) == Total([o \in DoneFor(p) |-> operation[o].amount], DoneFor(p))

\* A new row of an operation adds its amount to its placement.
LEMMA OperationRow ==
    ASSUME TypeOK, NEW o \in Operations, operation[o] = None,
           NEW p \in Placements, NEW amount \in Nat, [placement |-> p, amount |-> amount] # None,
           operation' = [operation EXCEPT ![o] = [placement |-> p, amount |-> amount]],
           NEW q \in Placements
    PROVE  /\ IssuedFor(q) \in Nat
           /\ IssuedFor(q)' = IF q = p THEN IssuedFor(q) + amount ELSE IssuedFor(q)
<1> DEFINE S == DoneFor(q)
           f == [x \in S |-> operation[x].amount]
           T == DoneFor(q)'
           g == [x \in T |-> operation'[x].amount]
<1>1. IsFiniteSet(S)
  <2>1. S \in SUBSET Operations
    BY DEF DoneFor
  <2> QED BY <2>1, FS_Subset, LedgerAssumption
<1>2. o \notin S
  BY DEF DoneFor
<1>3. \A x \in S : f[x] \in Nat /\ f[x] = operation[x].amount
  BY DEF DoneFor, TypeOK
<1>4. Counts(f, S)
  BY <1>1, <1>3 DEF Counts
<1>5. DOMAIN operation = Operations
  BY DEF TypeOK
<1>6. CASE q = p
  <2>1. T = S \cup {o}
    BY <1>5, <1>6 DEF DoneFor
  <2>2. g[o] = amount /\ \A x \in S : g[x] = f[x]
    BY <1>2, <1>3, <1>5, <2>1 DEF DoneFor
  <2> HIDE DEF S, f, T, g
  <2>3. Counts(g, S)
    BY <1>4, <2>2 DEF Counts
  <2>4. Total(g, S \cup {o}) = g[o] + Total(g, S)
    BY <1>2, <2>2, <2>3, TotalAdd
  <2>5. Total(g, S) = Total(f, S) /\ Total(f, S) \in Nat
    BY <1>4, <2>2, TotalSame, TotalType
  <2>6. Total(g, T) = Total(f, S) + amount
    BY <2>1, <2>2, <2>4, <2>5
  <2> QED BY <1>6, <2>5, <2>6 DEF S, f, T, g, IssuedFor
<1>7. CASE q # p
  <2>1. T = S
    BY <1>2, <1>5, <1>7 DEF DoneFor
  <2>2. \A x \in S : g[x] = f[x]
    BY <1>2, <1>3, <1>5, <2>1 DEF DoneFor
  <2> HIDE DEF S, f, T, g
  <2>3. Total(f, S) = Total(g, S) /\ Total(f, S) \in Nat
    BY <1>4, <2>2, TotalSame, TotalType
  <2> QED BY <1>7, <2>1, <2>3 DEF S, f, T, g, IssuedFor
<1> QED BY <1>6, <1>7

\* The ledger starts with rows that agree.
LEMMA InitRows == Init => Rows
<1> SUFFICES ASSUME Init PROVE Rows
  OBVIOUS
<1>1. Inv /\ TypeOK
  BY InitInv DEF Inv
<1>2. ASSUME NEW b PROVE Issued(b) = 0 /\ Consumed(b) = 0
  <2> DEFINE f == [p \in Placements |-> grant[p].issued]
             g == [p \in Placements |-> grant[p].consumed]
  <2>1. Counts(f, Holders(b)) /\ Counts(g, Holders(b))
    BY <1>1, GrantsCount
  <2>2. \A p \in Holders(b) : f[p] = 0 /\ g[p] = 0
    BY HoldersFinite DEF Init
  <2> HIDE DEF f, g
  <2>3. Total(f, Holders(b)) = Total(f, {}) /\ Total(g, Holders(b)) = Total(g, {})
    BY <2>1, <2>2, TotalZeros
  <2> QED BY <2>3, TotalEmpty DEF f, g, Issued, Consumed
<1>3. UsedExact /\ ReservedExact
  BY <1>2, LedgerAssumption DEF UsedExact, ReservedExact, Init
<1>4. QuotesUnclaimed /\ CeilingsHold
  BY DEF Init, QuotesUnclaimed, CeilingsHold
<1>5. IssuedOnce
  <2>1. \A p \in Placements : {o \in Operations : operation[o] # None /\ operation[o].placement = p} = {}
    BY DEF Init
  <2> QED BY <2>1, TotalEmpty DEF Init, IssuedOnce
<1>6. TiersKept
  BY <1>2, LedgerAssumption DEF Init, TiersKept
<1> QED BY <1>1, <1>3, <1>4, <1>5, <1>6 DEF Rows

\* A step that leaves the ledger alone and takes no quote leaves its rows alone.
LEMMA QuietRows ==
    ASSUME Rows, Inv', UNCHANGED <<budget, grant, operation>>,
           \A o \in Operations : quote'[o] \in {quote[o], None}
    PROVE  Rows'
<1> USE DEF Rows
<1>1. UsedExact' /\ ReservedExact'
  BY DEF UsedExact, ReservedExact, Issued, Consumed
<1>2. QuotesUnclaimed' /\ CeilingsHold'
  BY DEF QuotesUnclaimed, CeilingsHold
<1>3. IssuedOnce'
  BY DEF IssuedOnce
<1>4. TiersKept'
  BY DEF TiersKept, Issued
<1> QED BY <1>1, <1>2, <1>3, <1>4

\* An allocation that begins reads the tiers as they are.
LEMMA QuoteRows ==
    ASSUME Rows, Inv', NEW o \in Operations, NEW p \in Placements, NEW n \in Amounts,
           NEW partial \in BOOLEAN, Quote(o, p, n, partial)
    PROVE  Rows'
<1> USE DEF Rows
<1>1. UsedExact' /\ ReservedExact' /\ IssuedOnce' /\ TiersKept'
  BY DEF Quote, UsedExact, ReservedExact, Issued, Consumed, IssuedOnce, TiersKept
<1> DEFINE b == Own[p]
           new == [placement |-> p, bytes |-> n, partial |-> partial, ceiling |-> Ceiling(b, budget[b].used)]
<1>2. b \in Budgets /\ budget[b].used \in Nat
  BY LedgerAssumption DEF Inv, TypeOK
<1>3. /\ new.ceiling \in Nat /\ new.placement = p
      /\ \A t \in Tiers[b] : budget[b].used < t => new.ceiling # 0 /\ new.ceiling <= t
  BY <1>2, CeilingReads
<1>4. quote' = [quote EXCEPT ![o] = new] /\ DOMAIN quote = Operations /\ operation[o] = None
  BY DEF Quote, Claimed, Inv, TypeOK
<1> HIDE DEF new
<1>5. QuotesUnclaimed'
  BY <1>4 DEF QuotesUnclaimed, Quote
<1>6. CeilingsHold'
  BY <1>3, <1>4 DEF CeilingsHold, Quote
<1> QED BY <1>1, <1>5, <1>6

\* An allocation keeps the rows in step and stays below the next tier.
LEMMA ReserveRows ==
    ASSUME Rows, Inv', NEW o \in Operations, Reserve(o)
    PROVE  Rows'
<1> USE DEF Rows
<1> DEFINE q == quote[o]
           p == q.placement
<1>1. /\ p \in Placements /\ quote[o] # None /\ quote' = [quote EXCEPT ![o] = None]
      /\ DOMAIN quote = Operations /\ TypeOK /\ TypeOK'
  BY DEF Reserve, Inv, TypeOK
<1>2. \A x \in Operations : quote'[x] \in {quote[x], None}
  BY <1>1
<1>3. CASE UNCHANGED <<budget, grant, operation>>
  BY <1>2, <1>3, QuietRows
<1>4. ASSUME NEW amount \in 1 .. q.bytes,
             ReserveAllowed(q, amount),
             budget' = Reserved(p, amount),
             grant' = [grant EXCEPT ![p].issued = @ + amount],
             operation' = [operation EXCEPT ![o] = [placement |-> p, amount |-> amount]]
      PROVE  Rows'
  <2>1. amount \in Nat
    OBVIOUS
  <2>2. \A b : /\ Issued(b)' = IF b \in BudgetsOf(p) THEN Issued(b) + amount ELSE Issued(b)
               /\ Consumed(b)' = Consumed(b) /\ Issued(b) \in Nat /\ Consumed(b) \in Nat
    BY <1>1, <1>4, <2>1, IssueTotals, GrantsCount
  <2>3. \A b \in Budgets :
          /\ budget'[b].used = budget[b].used
          /\ budget'[b].reserved = IF b \in Limited(p) THEN budget[b].reserved + amount ELSE budget[b].reserved
    BY <1>1, <1>4, <2>1, BudgetRows
  <2>4. UsedExact'
    BY <2>2, <2>3 DEF UsedExact
  <2>5. ReservedExact'
    <3> SUFFICES ASSUME NEW b \in Budgets \ Unlimited
                 PROVE  budget'[b].reserved = Issued(b)' - Consumed(b)'
      BY DEF ReservedExact
    <3>1. budget[b].reserved = Issued(b) - Consumed(b)
      BY DEF ReservedExact
    <3>2. b \in Limited(p) <=> b \in BudgetsOf(p)
      BY DEF Limited
    <3> QED BY <2>1, <2>2, <2>3, <3>1, <3>2
  <2>6. operation[o] = None /\ QuotesUnclaimed'
    BY <1>1, <1>4 DEF QuotesUnclaimed, Inv, TypeOK
  <2>7. IssuedOnce'
    <3> SUFFICES ASSUME NEW r \in Placements PROVE grant'[r].issued = IssuedFor(r)'
      BY DEF IssuedOnce, IssuedFor, DoneFor
    <3>1. [placement |-> p, amount |-> amount] # None
      BY <1>1, <2>1, LedgerAssumption
    <3>2. grant[r].issued = IssuedFor(r)
      BY DEF IssuedOnce, IssuedFor, DoneFor
    <3>3. IssuedFor(r) \in Nat /\ IssuedFor(r)' = IF r = p THEN IssuedFor(r) + amount ELSE IssuedFor(r)
      BY <1>1, <1>4, <2>1, <2>6, <3>1, OperationRow
    <3>4. grant'[r].issued = IF r = p THEN grant[r].issued + amount ELSE grant[r].issued
      BY <1>1, <1>4 DEF TypeOK
    <3> QED BY <3>2, <3>3, <3>4
  <2>8. CeilingsHold'
    <3> SUFFICES ASSUME NEW x \in Operations, quote'[x] # None
                 PROVE  /\ quote'[x].ceiling \in Nat
                        /\ \A t \in Tiers[Own[quote'[x].placement]] :
                              budget'[Own[quote'[x].placement]].used < t
                                 => quote'[x].ceiling # 0 /\ quote'[x].ceiling <= t
      BY DEF CeilingsHold
    <3>1. quote'[x] = quote[x]
      BY <1>2
    <3>2. Own[quote[x].placement] \in Budgets
      BY <1>1, <3>1, LedgerAssumption DEF TypeOK
    <3> QED BY <2>3, <3>1, <3>2 DEF CeilingsHold
  <2>9. TiersKept'
    <3> SUFFICES ASSUME NEW r \in Placements, NEW t \in Tiers[Own[r]], budget[Own[r]].used < t
                 PROVE  Opening[Own[r]] + Issued(Own[r])' <= t
      BY <2>3, LedgerAssumption DEF TiersKept
    <3> DEFINE b == Own[r]
    <3>1. b \in Budgets /\ Opening[b] \in Nat /\ t \in Nat
      BY LedgerAssumption
    <3>2. Opening[b] + Issued(b) <= t
      BY DEF TiersKept
    <3>3. CASE b \notin BudgetsOf(p)
      BY <2>2, <3>2, <3>3
    <3>4. CASE b \in BudgetsOf(p)
      <4>1. b = Own[p]
        BY <1>1, <3>4, LedgerAssumption DEF BudgetsOf
      <4>2. q.ceiling \in Nat /\ q.ceiling # 0 /\ q.ceiling <= t
        BY <1>1, <4>1 DEF CeilingsHold
      <4>3. amount <= q.ceiling - SpokenFor(b)
        BY <1>4, <4>1, <4>2 DEF ReserveAllowed
      <4>4. SpokenFor(b) = Opening[b] + Issued(b)
        BY <1>1, <3>1, SpokenForIssued
      <4>5. Issued(b)' = Issued(b) + amount /\ Issued(b) \in Nat
        BY <2>2, <3>4
      <4> HIDE DEF q, b
      <4> QED BY <2>1, <3>1, <4>2, <4>3, <4>4, <4>5 DEF b
    <3> QED BY <3>3, <3>4
  <2> QED BY <2>4, <2>5, <2>6, <2>7, <2>8, <2>9
<1> QED BY <1>3, <1>4 DEF Reserve

\* A report moves as many bytes in the rows of the budgets as in the grant's.
LEMMA IngestRows ==
    ASSUME Rows, Inv', NEW p \in Placements, NEW delta \in 1 .. admitted[p] - grant[p].consumed,
           Ingest(p, delta)
    PROVE  Rows'
<1> USE DEF Rows
<1>1. delta \in Nat /\ TypeOK /\ TypeOK'
  BY DEF Inv, TypeOK
<1>2. /\ budget' = Billed(p, delta)
      /\ grant' = [grant EXCEPT ![p].consumed = @ + delta]
      /\ UNCHANGED <<operation, quote>>
  BY DEF Ingest
<1>3. \A b : /\ Consumed(b)' = IF b \in BudgetsOf(p) THEN Consumed(b) + delta ELSE Consumed(b)
             /\ Issued(b)' = Issued(b) /\ Issued(b) \in Nat /\ Consumed(b) \in Nat
  BY <1>1, <1>2, ConsumeTotals, GrantsCount
<1>4. \A b \in Budgets :
        /\ budget'[b].used = IF b \in BudgetsOf(p) THEN budget[b].used + delta ELSE budget[b].used
        /\ budget'[b].reserved = IF b \in Limited(p) THEN budget[b].reserved - delta ELSE budget[b].reserved
        /\ budget[b].used \in Nat /\ budget[b].reserved \in Nat
  BY <1>1, <1>2, BudgetRows DEF TypeOK
<1>5. UsedExact'
  <2> SUFFICES ASSUME NEW b \in Budgets PROVE budget'[b].used = Opening[b] + Consumed(b)'
    BY DEF UsedExact
  <2>1. budget[b].used = Opening[b] + Consumed(b) /\ Opening[b] \in Nat
    BY LedgerAssumption DEF UsedExact
  <2> QED BY <1>1, <1>3, <1>4, <2>1
<1>6. ReservedExact'
  <2> SUFFICES ASSUME NEW b \in Budgets \ Unlimited
               PROVE  budget'[b].reserved = Issued(b)' - Consumed(b)'
    BY DEF ReservedExact
  <2>1. budget[b].reserved = Issued(b) - Consumed(b)
    BY DEF ReservedExact
  <2>2. b \in Limited(p) <=> b \in BudgetsOf(p)
    BY DEF Limited
  <2> QED BY <1>1, <1>3, <1>4, <2>1, <2>2
<1>7. QuotesUnclaimed'
  BY <1>2 DEF QuotesUnclaimed
<1>8. IssuedOnce'
  <2>1. \A r \in Placements : grant'[r].issued = grant[r].issued
    BY <1>1, <1>2 DEF TypeOK
  <2> QED BY <1>2, <2>1 DEF IssuedOnce
<1>9. \A b \in Budgets : budget[b].used <= budget'[b].used /\ budget'[b].used \in Nat
  BY <1>1, <1>4
<1>10. CeilingsHold'
  <2> SUFFICES ASSUME NEW x \in Operations, quote[x] # None,
                      NEW t \in Tiers[Own[quote[x].placement]], budget'[Own[quote[x].placement]].used < t
               PROVE  quote[x].ceiling # 0 /\ quote[x].ceiling <= t
    BY <1>2 DEF CeilingsHold
  <2>1. Own[quote[x].placement] \in Budgets /\ t \in Nat
    BY <1>1, LedgerAssumption DEF TypeOK
  <2>2. budget[Own[quote[x].placement]].used < t
    BY <1>4, <1>9, <2>1
  <2> QED BY <2>2 DEF CeilingsHold
<1>11. TiersKept'
  <2> SUFFICES ASSUME NEW r \in Placements, NEW t \in Tiers[Own[r]], budget'[Own[r]].used < t
               PROVE  Opening[Own[r]] + Issued(Own[r]) <= t
    BY <1>3 DEF TiersKept
  <2>1. Own[r] \in Budgets /\ t \in Nat
    BY LedgerAssumption
  <2>2. budget[Own[r]].used < t
    BY <1>4, <1>9, <2>1
  <2> QED BY <2>2 DEF TiersKept
<1> QED BY <1>5, <1>6, <1>7, <1>8, <1>10, <1>11

\* Every step keeps the rows in step.
LEMMA NextRows == Rows /\ [Next]_vars => Rows'
<1> SUFFICES ASSUME Rows, [Next]_vars PROVE Rows'
  OBVIOUS
<1>1. Inv'
  BY NextInv DEF Rows
<1>2. DOMAIN quote = Operations
  BY DEF Rows, Inv, TypeOK
<1>3. ASSUME NEW o \in Operations, Abort(o) PROVE Rows'
  <2>1. \A x \in Operations : quote'[x] \in {quote[x], None}
    BY <1>2, <1>3 DEF Abort
  <2> QED BY <1>1, <1>3, <2>1, QuietRows DEF Abort
<1>4. ASSUME UNCHANGED <<budget, grant, operation, quote>> PROVE Rows'
  BY <1>1, <1>4, QuietRows
<1>5. ASSUME NEW p \in Placements, Deliver(p) \/ Admit(p) PROVE Rows'
  BY <1>4, <1>5 DEF Deliver, Admit
<1>6. ASSUME NEW b \in Shared, NEW limit \in PanelLimits, SetPanelLimit(b, limit) PROVE Rows'
  BY <1>4, <1>6 DEF SetPanelLimit
<1>7. CASE UNCHANGED vars
  BY <1>4, <1>7 DEF vars
<1> QED BY <1>1, <1>3, <1>5, <1>6, <1>7, QuoteRows, ReserveRows, IngestRows DEF Next

\* The rows agree for ever.
LEMMA RowsInvariant == Spec => []Rows
BY InitRows, NextRows, PTL DEF Spec

\* A node's share of what is reserved is there to be billed.
LEMMA ReportsFound ==
    ASSUME Rows
    PROVE  ReportsBillable
<1> SUFFICES ASSUME NEW p \in Placements
             PROVE  IngestAllowed(p, admitted[p] - grant[p].consumed)
  BY DEF ReportsBillable
<1>1. TypeOK /\ CreditChain
  BY DEF Rows, Inv
<1>2. /\ grant[p].issued \in Nat /\ grant[p].consumed \in Nat /\ admitted[p] \in Nat /\ delivered[p] \in Nat
      /\ grant[p].consumed <= admitted[p] /\ admitted[p] <= delivered[p] /\ delivered[p] <= grant[p].issued
  BY <1>1 DEF TypeOK, CreditChain
<1>3. ASSUME NEW b \in Limited(p)
      PROVE  admitted[p] - grant[p].consumed <= budget[b].reserved
  <2> DEFINE f == [q \in Placements |-> grant[q].consumed]
             g == [q \in Placements |-> grant[q].issued]
  <2>1. Counts(f, Holders(b)) /\ Counts(g, Holders(b)) /\ Consumed(b) \in Nat /\ Issued(b) \in Nat
    BY <1>1, GrantsCount
  <2>2. p \in Holders(b)
    BY DEF Holders, Limited
  <2>3. \A y \in Holders(b) : f[y] <= g[y]
    <3> SUFFICES ASSUME NEW y \in Placements PROVE grant[y].consumed <= grant[y].issued
      BY HoldersFinite
    <3> QED BY <1>1 DEF TypeOK, CreditChain
  <2>4. g[p] = grant[p].issued /\ f[p] = grant[p].consumed
    OBVIOUS
  <2>5. Total(f, Holders(b)) = Consumed(b) /\ Total(g, Holders(b)) = Issued(b)
    BY DEF Consumed, Issued
  <2> HIDE DEF f, g
  <2>6. g[p] - f[p] <= Total(g, Holders(b)) - Total(f, Holders(b))
    BY <2>1, <2>2, <2>3, TotalGap
  <2>7. budget[b].reserved = Issued(b) - Consumed(b)
    BY BudgetsTyped DEF Rows, ReservedExact, Limited
  <2> QED BY <1>2, <2>1, <2>4, <2>5, <2>6, <2>7
<1> QED BY <1>2, <1>3 DEF IngestAllowed

\* What was admitted under a budget was issued under it.
LEMMA AdmittedIssued ==
    ASSUME Rows, NEW b
    PROVE  /\ Admitted(b) <= Issued(b) /\ Admitted(b) \in Nat
           /\ Issued(b) \in Nat /\ Consumed(b) \in Nat
<1> DEFINE g == [q \in Placements |-> grant[q].issued]
<1>1. TypeOK /\ CreditChain
  BY DEF Rows, Inv
<1>2. /\ Counts(admitted, Holders(b)) /\ Counts(g, Holders(b)) /\ Issued(b) \in Nat
      /\ Consumed(b) \in Nat /\ Admitted(b) \in Nat
  BY <1>1, GrantsCount
<1>3. \A y \in Holders(b) : admitted[y] <= g[y]
  <2> SUFFICES ASSUME NEW y \in Placements PROVE admitted[y] <= grant[y].issued
    BY HoldersFinite
  <2> QED BY <1>1 DEF TypeOK, CreditChain
<1> HIDE DEF g
<1>4. Total(admitted, Holders(b)) <= Total(g, Holders(b))
  BY <1>2, <1>3, TotalMonotone
<1> QED BY <1>2, <1>4 DEF Admitted, Issued, g

\* What all nodes together have admitted under a budget, reported or not, never passes the limit
\* the ledger holds for it, whatever limits are set while credit is on its way: Reserve counts
\* in every budget of a grant what no node has used yet.
THEOREM QuotaNeverPassed == Spec => []QuotaHolds
<1>1. Rows => QuotaHolds
  <2> SUFFICES ASSUME Rows, NEW b \in Budgets \ Unlimited
               PROVE  Opening[b] + Admitted(b) <= budget[b].limit
    BY DEF QuotaHolds
  <2>1. /\ budget[b].used = Opening[b] + Consumed(b)
        /\ budget[b].reserved = Issued(b) - Consumed(b)
        /\ budget[b].used + budget[b].reserved <= budget[b].limit
    BY DEF Rows, Inv, UsedExact, ReservedExact, Balanced
  <2>2. budget[b].limit \in Nat /\ Opening[b] \in Nat
    BY LedgerAssumption DEF Rows, Inv, TypeOK
  <2> QED BY <2>1, <2>2, AdmittedIssued
<1> QED BY <1>1, RowsInvariant, PTL

\* No traffic passes a tier before the ledger has seen the tier reached, though an allocation
\* reads the tiers before it holds the lock of the budget and reports arrive in between.
THEOREM TiersNeverPassed == Spec => []TiersHold
<1>1. Rows => TiersHold
  <2> SUFFICES ASSUME Rows, NEW p \in Placements, NEW t \in Tiers[Own[p]], budget[Own[p]].used < t
               PROVE  Opening[Own[p]] + Admitted(Own[p]) <= t
    BY DEF TiersHold
  <2>1. Opening[Own[p]] + Issued(Own[p]) <= t
    BY DEF Rows, TiersKept
  <2>2. Opening[Own[p]] \in Nat /\ t \in Nat
    BY LedgerAssumption
  <2> QED BY <2>1, <2>2, AdmittedIssued
<1> QED BY <1>1, RowsInvariant, PTL

\* The rows of the ledger agree: the reserved bytes are those that may still be reported, whatever
\* a node admitted can be billed, so Ingest never stops its reports, and an operation that is
\* repeated issues nothing more.
THEOREM LedgerStaysExact == Spec => []LedgerExact
<1>1. Rows => LedgerExact
  BY ReportsFound DEF Rows, Inv, LedgerExact
<1> QED BY <1>1, RowsInvariant, PTL
=============================================================================
