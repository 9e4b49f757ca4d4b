---------------------------- MODULE CreditRefill ----------------------------
(***************************************************************************)
(* How a runtime gets more credit while it serves.  Its worker reports     *)
(* what its grants may still spend; the master records the report and      *)
(* makes candidates of the grants that run low; leased scheduler workers   *)
(* refill them; the credit outbox, or an authority update, or the next     *)
(* deployment carries the larger ceiling back.  Reports and receipts may   *)
(* be repeated, calls lost, leases overrun, workers killed.  A ceiling     *)
(* stands for its credit revision too: both only grow, and together.       *)
(***************************************************************************)
EXTENDS Integers, FiniteSets, FiniteSetsExt

CONSTANTS
    Grants,         \* grants of the runtime, numbered in the order of their ids
    Workers,        \* workers of the credit scheduler
    Target,         \* CreditRefillTargetBytes, in units
    LowWater,       \* CreditRefillLowWaterBytes, in units
    Quota,          \* units the client budgets still have to give
    MaxRates,       \* rate changes
    MaxDeployments, \* deployments
    MaxFaults,      \* lapses of a report's freshness and crashes of a worker
    Blocking,       \* the planner may block a share
    Overrun         \* a lease may end before its worker does

RefillAssumption ==
    /\ IsFiniteSet(Grants) /\ Grants \subseteq Nat /\ IsFiniteSet(Workers)
    /\ {LowWater, Quota, MaxRates, MaxDeployments, MaxFaults} \subseteq Nat
    /\ Target \in Nat /\ LowWater < Target
    /\ Blocking \in BOOLEAN /\ Overrun \in BOOLEAN

None == 0
NoWorker == "none"

VARIABLES
    issued,     \* units issued per grant
    budget,     \* units left to issue
    row,        \* credit outbox per grant; base 0 when there is none
    obs,        \* authority observed per grant
    sequence,   \* last report recorded
    fresh,      \* it is less than 30 seconds old
    candidate,  \* per grant, the report that asks for a refill, or None
    queue,      \* the node in the queue of nodes: pending, and who has claimed it
    refills,    \* refill operations done: grant and report
    share,      \* rate share per grant
    update,     \* authority update per grant, carrying rate and ceiling; base 0 when there is none
    desired, applied, dep,  \* deployments, and what the last one carries
    base,       \* deployment the worker runs
    rec,        \* governor record per grant
    told,       \* observation per grant that the master has confirmed to the worker
    report,     \* the pending report; sequence None when there is none
    reported,   \* sequence of the last report captured
    due,        \* the last capture is so old that a report without changes is due
    batch,      \* the agent's credit pass; base 0 between passes
    job,        \* per worker, whether it holds a lease, and the candidates it has read
    rates, faults

masterVars == <<issued, budget, row, share, update, desired, applied, dep>>
reportVars == <<obs, sequence, fresh>>
queueVars == <<candidate, queue, refills, job>>
nodeVars == <<base, rec>>
captureVars == <<told, report, reported, due>>
vars == <<masterVars, reportVars, queueVars, nodeVars, captureVars, batch, rates, faults>>

NoRow == [base |-> 0, ceil |-> 0, acked |-> 0]
NoUpdate == [base |-> 0, rev |-> 0, ceil |-> 0, open |-> FALSE]
NoReport == [seq |-> None, grants |-> <<>>]
NoBatch == [base |-> 0, ceils |-> <<>>, done |-> FALSE]
Idle == [held |-> FALSE, found |-> {}]

Settled(g) == share[g].applied = share[g].rev
Converged == applied = desired

\* governor.Store.Authority: what the worker says of a grant
Observation(g) ==
    [policy |-> rec[g].policy, ceil |-> rec[g].ceil, spent |-> rec[g].spent, active |-> rec[g].open]

Spendable(o) == IF o.active THEN o.ceil - o.spent ELSE 0

Init ==
    /\ issued = [g \in Grants |-> Target] /\ budget = Quota
    /\ row = [g \in Grants |-> NoRow]
    /\ obs = [g \in Grants |-> [policy |-> 1, ceil |-> Target, spent |-> 0, active |-> TRUE, seq |-> 0]]
    /\ sequence = 0 /\ fresh = TRUE
    /\ candidate = [g \in Grants |-> None]
    /\ queue = [pending |-> FALSE, claim |-> NoWorker]
    /\ refills = {}
    /\ share = [g \in Grants |-> [rev |-> 1, applied |-> 1, open |-> TRUE]]
    /\ update = [g \in Grants |-> NoUpdate]
    /\ desired = 1 /\ applied = 1
    /\ dep = [g \in Grants |-> [ceil |-> Target, rev |-> 1, open |-> TRUE]]
    /\ base = 1
    /\ rec = [g \in Grants |-> [policy |-> 1, ceil |-> Target, spent |-> 0, rev |-> 1, open |-> TRUE]]
    /\ told = [g \in Grants |-> Observation(g)]
    /\ report = NoReport /\ reported = 0 /\ due = FALSE
    /\ batch = NoBatch
    /\ job = [w \in Workers |-> Idle]
    /\ rates = 0 /\ faults = 0

-----------------------------------------------------------------------------
(* The worker serves and reports                                           *)

Spend(g) ==
    /\ rec[g].open /\ rec[g].spent < rec[g].ceil
    /\ rec' = [rec EXCEPT ![g].spent = @ + 1]
    /\ UNCHANGED <<masterVars, reportVars, queueVars, base, captureVars, batch, rates, faults>>

Changed == {g \in Grants : Observation(g) # told[g]}

\* captureAuthority: one report at a time, of what has changed, or a heartbeat
Capture ==
    /\ report.seq = None
    /\ Changed # {} \/ due
    /\ report' = [seq |-> reported + 1, grants |-> [g \in Changed |-> Observation(g)]]
    /\ reported' = reported + 1 /\ due' = FALSE
    /\ UNCHANGED <<masterVars, reportVars, queueVars, nodeVars, told, batch, rates, faults>>

\* AcknowledgeAuthority, with the receipt of IngestAuthority
AcknowledgeReport ==
    /\ report.seq # None /\ report.seq = sequence
    /\ told' = [g \in Grants |-> IF g \in DOMAIN report.grants THEN report.grants[g] ELSE told[g]]
    /\ report' = NoReport
    /\ UNCHANGED <<masterVars, reportVars, queueVars, nodeVars, reported, due, batch, rates, faults>>

Lapse ==
    /\ faults < MaxFaults /\ faults' = faults + 1
    /\ fresh' = FALSE /\ due' = TRUE
    /\ UNCHANGED <<masterVars, obs, sequence, queueVars, nodeVars, told, report, reported, batch, rates>>

-----------------------------------------------------------------------------
(* The master records the report: IngestAuthority                          *)

\* Mutant: a grant is refilled although the credit issued before has not arrived.
RunsLowAnyCeiling(o, g) == o.active /\ Spendable(o) <= LowWater

RunsLow(o, g) == o.active /\ Spendable(o) <= LowWater /\ o.ceil = issued[g]

\* queueCreditCandidates for observations os made in report s; again holds when none is known
Candidates(os, s, again) ==
    [g \in Grants |->
        IF g \notin DOMAIN os THEN candidate[g]
        ELSE IF ~RunsLow(os[g], g) THEN None
        ELSE IF ~again /\ os[g] = [k \in DOMAIN os[g] |-> obs[g][k]]
        THEN IF candidate[g] = None THEN None ELSE s
        ELSE s]

Wakes(os, again) ==
    \E g \in DOMAIN os : RunsLow(os[g], g) /\ (again \/ os[g] # [k \in DOMAIN os[g] |-> obs[g][k]])

Woken(os, again) == [queue EXCEPT !.pending = @ \/ Wakes(os, again)]

Ingest ==
    /\ report.seq = sequence + 1
    /\ candidate' = Candidates(report.grants, report.seq, FALSE)
    /\ queue' = Woken(report.grants, FALSE)
    /\ obs' = [g \in Grants |->
                 IF g \in DOMAIN report.grants
                 THEN LET o == report.grants[g]
                      IN  [policy |-> o.policy, ceil |-> o.ceil, spent |-> o.spent, active |-> o.active, seq |-> report.seq]
                 ELSE obs[g]]
    /\ sequence' = report.seq
    /\ fresh' = ~due  \* a report that was captured before the lapse is old already
    /\ UNCHANGED <<masterVars, refills, job, nodeVars, captureVars, batch, rates, faults>>

-----------------------------------------------------------------------------
(* The credit scheduler                                                    *)

\* ClaimCreditNodes and DueCreditCandidates: a lease outlives its worker, unless it is overrun.
Claim(w) ==
    /\ ~job[w].held /\ queue.pending
    /\ \/ queue.claim = NoWorker
       \/ queue.claim # NoWorker /\ (Overrun \/ ~job[queue.claim].held)
    /\ queue' = [queue EXCEPT !.claim = w]
    /\ job' = [job EXCEPT ![w] = [held |-> TRUE,
                                  found |-> {<<g, candidate[g]>> : g \in {h \in Grants : candidate[h] # None}}]]
    /\ UNCHANGED <<masterVars, reportVars, candidate, refills, nodeVars, captureVars, batch, rates, faults>>

\* SettleCreditCandidate: only for the lease and the report it was read under
SettledCandidate(w, g, s) ==
    IF queue.claim = w /\ candidate[g] = s THEN [candidate EXCEPT ![g] = None] ELSE candidate

\* The conditions of RefillCreditTx for report s
Refillable(g, s) ==
    /\ fresh /\ obs[g].seq = s
    /\ RunsLow(obs[g], g)
    /\ obs[g].policy = applied /\ Converged /\ Settled(g)

\* Mutant: what is missing is issued, whatever the budget has left.
AmountWhole(g) == Target - Spendable(obs[g])

\* allocateFleetCreditTx with AllowPartial
Amount(g) == Min({Target - Spendable(obs[g]), budget})

\* Mutant: a row that replaces an acknowledged one counts as acknowledged.
QueuedCreditAcknowledged(g, ceil) ==
    [base |-> applied, ceil |-> ceil, acked |-> IF row[g].base = applied /\ row[g].acked = row[g].ceil THEN ceil ELSE 0]

\* QueueCreditUpdate
QueuedCredit(g, ceil) ==
    [base |-> applied, ceil |-> ceil, acked |-> IF row[g].base = applied THEN row[g].acked ELSE 0]

\* processFleetCreditCandidate: a refill and its settlement are one transaction.
Refill(w, g, s) ==
    /\ job[w].held /\ <<g, s>> \in job[w].found
    /\ job' = [job EXCEPT ![w].found = @ \ {<<g, s>>}]
    /\ \/ /\ <<g, s>> \in refills                              \* replayed
          /\ candidate' = SettledCandidate(w, g, s)
          /\ UNCHANGED <<issued, budget, row, refills>>
       \/ /\ <<g, s>> \notin refills /\ Refillable(g, s) /\ budget > 0
          /\ issued' = [issued EXCEPT ![g] = @ + Amount(g)]
          /\ budget' = budget - Amount(g)
          /\ row' = [row EXCEPT ![g] = QueuedCredit(g, issued'[g])]
          /\ refills' = refills \cup {<<g, s>>}
          /\ candidate' = SettledCandidate(w, g, s)
       \/ /\ <<g, s>> \notin refills /\ Refillable(g, s) /\ budget = 0  \* ErrBudget
          /\ candidate' = SettledCandidate(w, g, s)
          /\ UNCHANGED <<issued, budget, row, refills>>
       \/ /\ <<g, s>> \notin refills /\ ~Refillable(g, s)      \* ErrFleetRefill: later again
          /\ UNCHANGED <<issued, budget, row, refills, candidate>>
    /\ UNCHANGED <<share, update, desired, applied, dep, reportVars, queue, nodeVars, captureVars, batch, rates, faults>>

\* Mutant: a released node waits for the next report.
ReleasedQueueQuiet(w) ==
    IF queue.claim = w THEN [pending |-> FALSE, claim |-> NoWorker] ELSE queue

\* ReleaseCreditNode
ReleasedQueue(w) ==
    IF queue.claim = w THEN [pending |-> \E g \in Grants : candidate[g] # None, claim |-> NoWorker] ELSE queue

\* The worker is through, or its two seconds are over.
Release(w) ==
    /\ job[w].held
    /\ job' = [job EXCEPT ![w] = Idle]
    /\ queue' = ReleasedQueue(w)
    /\ UNCHANGED <<masterVars, reportVars, candidate, refills, nodeVars, captureVars, batch, rates, faults>>

Crash(w) ==
    /\ faults < MaxFaults /\ faults' = faults + 1
    /\ job[w].held
    /\ job' = [job EXCEPT ![w] = Idle]
    /\ UNCHANGED <<masterVars, reportVars, candidate, queue, refills, nodeVars, captureVars, batch, rates>>

-----------------------------------------------------------------------------
(* The credit outbox and the agent's pass over it                          *)

\* ValidateFleetCreditDeliveryTx
Deliverable(g) == row[g].ceil = issued[g] /\ Settled(g)

\* FetchCredit: rows that are not deliverable are removed.
Fetch ==
    LET wanted == {g \in Grants : row[g].base = applied /\ row[g].ceil > row[g].acked}
        allowed == {g \in wanted : Deliverable(g)}
    IN  /\ batch = NoBatch /\ Converged /\ wanted # {}
        /\ row' = [g \in Grants |-> IF g \in wanted \ allowed THEN NoRow ELSE row[g]]
        /\ batch' = IF allowed = {} THEN NoBatch
                    ELSE [base |-> applied, ceils |-> [g \in allowed |-> row[g].ceil], done |-> FALSE]
        /\ UNCHANGED <<issued, budget, share, update, desired, applied, dep, reportVars, queueVars, nodeVars, captureVars, rates, faults>>

\* Account.ApplyCredit: a repeat is fine, a blocked grant and an older ceiling are refused.
Refused(g) ==
    \/ batch.ceils[g] < rec[g].ceil
    \/ batch.ceils[g] > rec[g].ceil /\ ~rec[g].open

\* Worker.ApplyCredit: in the order of the ids, up to the first refusal
Post ==
    LET refused == {g \in DOMAIN batch.ceils : Refused(g)}
    IN  /\ batch # NoBatch /\ ~batch.done
        /\ IF batch.base = base
           THEN /\ rec' = [g \in Grants |->
                             IF g \in DOMAIN batch.ceils /\ \A r \in refused : g < r
                             THEN [rec[g] EXCEPT !.ceil = batch.ceils[g]] ELSE rec[g]]
                /\ batch' = IF refused = {} THEN [batch EXCEPT !.done = TRUE] ELSE NoBatch
           ELSE rec' = rec /\ batch' = NoBatch
        /\ UNCHANGED <<masterVars, reportVars, queueVars, base, captureVars, rates, faults>>

\* Mutant: a receipt acknowledges whatever the row holds.
MatchesAny(g) == row[g].base = batch.base

Matches(g) == row[g].base = batch.base /\ row[g].ceil = batch.ceils[g]

\* AcknowledgeCredit: all rows of the batch, or none
AcknowledgeCredit ==
    /\ batch.done
    /\ IF Converged /\ batch.base = applied /\ \A g \in DOMAIN batch.ceils : Matches(g)
       THEN row' = [g \in Grants |-> IF g \in DOMAIN batch.ceils THEN [row[g] EXCEPT !.acked = row[g].ceil] ELSE row[g]]
       ELSE UNCHANGED row
    /\ batch' = NoBatch
    /\ UNCHANGED <<issued, budget, share, update, desired, applied, dep, reportVars, queueVars, nodeVars, captureVars, rates, faults>>

\* A call of the pass is lost or times out.
Lose ==
    /\ batch # NoBatch /\ batch' = NoBatch
    /\ UNCHANGED <<masterVars, reportVars, queueVars, nodeVars, captureVars, rates, faults>>

-----------------------------------------------------------------------------
(* Rate changes and deployments carry the ceiling as well                  *)

\* Mutant: an authority update leaves the credit to the credit outbox.
CarriedCeilingOld(g) == rec[g].ceil

\* QueueAuthorityUpdate takes the ceiling from the grant
CarriedCeiling(g) == issued[g]

SetRate(g, open) ==
    /\ rates < MaxRates /\ rates' = rates + 1
    /\ Converged /\ open # share[g].open
    /\ share' = [share EXCEPT ![g] = [rev |-> @.rev + 1, applied |-> @.applied, open |-> open]]
    /\ update' = [update EXCEPT ![g] = [base |-> applied, rev |-> share[g].rev + 1,
                                        ceil |-> CarriedCeiling(g), open |-> open]]
    /\ UNCHANGED <<issued, budget, row, desired, applied, dep, reportVars, queueVars, nodeVars, captureVars, batch, faults>>

\* The worker takes an authority update, and the master hears of it.
TakeUpdate(g) ==
    /\ update[g].base = base /\ update[g].rev > rec[g].rev
    /\ rec' = [rec EXCEPT ![g] = [@ EXCEPT !.rev = update[g].rev, !.open = update[g].open, !.ceil = update[g].ceil]]
    /\ UNCHANGED <<masterVars, reportVars, queueVars, base, captureVars, batch, rates, faults>>

ConfirmUpdate(g) ==
    /\ rec[g].rev = share[g].rev /\ ~Settled(g)
    /\ share' = [share EXCEPT ![g].applied = share[g].rev]
    /\ UNCHANGED <<issued, budget, row, update, desired, applied, dep, reportVars, queueVars, nodeVars, captureVars, batch, rates, faults>>

\* A publication funds its grants as issued, and wakes the candidates (RequeueNodeCredit).
Publish ==
    LET known == [g \in Grants |-> [policy |-> obs[g].policy, ceil |-> obs[g].ceil, spent |-> obs[g].spent, active |-> obs[g].active]]
    IN  /\ Converged /\ desired < MaxDeployments /\ \A g \in Grants : Settled(g)
        /\ desired' = desired + 1
        /\ dep' = [g \in Grants |-> [ceil |-> issued[g], rev |-> share[g].rev, open |-> share[g].open]]
        /\ candidate' = [g \in Grants |-> IF RunsLow(known[g], g) THEN obs[g].seq ELSE None]
        /\ queue' = Woken(known, TRUE)
        /\ UNCHANGED <<issued, budget, row, share, update, applied, reportVars, refills, job, nodeVars, captureVars, batch, rates, faults>>

Deploy ==
    /\ base < desired
    /\ base' = desired
    /\ rec' = [g \in Grants |-> [rec[g] EXCEPT !.policy = desired, !.ceil = dep[g].ceil, !.rev = dep[g].rev, !.open = dep[g].open]]
    /\ UNCHANGED <<masterVars, reportVars, queueVars, captureVars, batch, rates, faults>>

\* Observe and supersedeAppliedOutboxes
Observe ==
    /\ base = desired /\ ~Converged
    /\ applied' = desired
    /\ row' = [g \in Grants |-> IF row[g].base < desired /\ row[g].ceil <= dep[g].ceil THEN NoRow ELSE row[g]]
    /\ UNCHANGED <<issued, budget, share, update, desired, dep, reportVars, queueVars, nodeVars, captureVars, batch, rates, faults>>

-----------------------------------------------------------------------------
Next ==
    \/ \E g \in Grants :
          \/ Spend(g) \/ TakeUpdate(g) \/ ConfirmUpdate(g)
          \/ \E open \in BOOLEAN : (Blocking \/ open) /\ SetRate(g, open)
    \/ \E w \in Workers :
          \/ Claim(w) \/ Release(w) \/ Crash(w)
          \/ \E g \in Grants, s \in 1..sequence : Refill(w, g, s)
    \/ Capture \/ Ingest \/ AcknowledgeReport \/ Lapse
    \/ Fetch \/ Post \/ AcknowledgeCredit \/ Lose
    \/ Publish \/ Deploy \/ Observe

Spec == Init /\ [][Next]_vars

\* The agent's passes and the schedulers are loops on tickers.  A call may be lost, and a lease
\* may end in the middle of its candidates, but not every time.
Fairness ==
    /\ WF_vars(Capture) /\ WF_vars(Ingest) /\ WF_vars(AcknowledgeReport)
    /\ WF_vars(Fetch) /\ SF_vars(Post) /\ SF_vars(AcknowledgeCredit)
    /\ WF_vars(Deploy) /\ WF_vars(Observe)
    /\ \A g \in Grants : WF_vars(TakeUpdate(g)) /\ WF_vars(ConfirmUpdate(g))
    /\ \A w \in Workers :
          /\ WF_vars(Claim(w)) /\ WF_vars(Release(w))
          /\ \A g \in Grants : SF_vars(\E s \in 1..sequence : Refill(w, g, s))

FairSpec == Spec /\ Fairness

-----------------------------------------------------------------------------
(* Properties                                                              *)

TypeOK ==
    /\ issued \in [Grants -> Nat] /\ budget \in 0..Quota
    /\ candidate \in [Grants -> 0..sequence]
    /\ queue \in [pending: BOOLEAN, claim: Workers \cup {NoWorker}]
    /\ reported \in sequence..sequence + 1
    /\ applied <= base /\ base <= desired /\ desired <= applied + 1
    /\ \A g \in Grants : rec[g].spent <= rec[g].ceil /\ rec[g].ceil <= issued[g]

\* However often a report is repeated, a candidate read twice or a lease overrun, a node never
\* holds more than the target in unspent credit: RefillCreditTx refills what was observed, once.
UnspentBounded ==
    \A g \in Grants : issued[g] - rec[g].spent <= Target

\* A candidate is never left behind in a queue that nobody will claim: IngestAuthority may add
\* one while a worker releases the node.
CandidatesQueued ==
    (\E g \in Grants : candidate[g] # None) => queue.pending

\* A ceiling that the outbox counts as acknowledged is in force on the node, although receipts
\* may refer to rows that have been replaced or removed since.
AcknowledgedHeld ==
    \A g \in Grants : row[g].acked <= rec[g].ceil

\* Credit that has been issued is never stranded: what the node does not have yet is in the credit
\* outbox, in an authority update or in a deployment, also after FetchCredit removed the row.
CreditOnItsWay ==
    \A g \in Grants : issued[g] > rec[g].ceil =>
        \/ row[g].base = desired /\ row[g].ceil = issued[g] /\ row[g].acked < issued[g]
        \/ update[g].base = desired /\ update[g].rev > rec[g].rev /\ update[g].ceil = issued[g]
        \/ base < desired /\ dep[g].ceil = issued[g]

\* A grant that runs low gets more while there is some to give: an available allowance does not
\* stall the traffic of an open grant.
LowIsRefilled ==
    \A g \in Grants :
        (rec[g].open /\ rec[g].ceil - rec[g].spent <= LowWater /\ budget > 0)
            ~> (rec[g].ceil - rec[g].spent > LowWater \/ budget = 0 \/ ~rec[g].open)

\* Credit that has been issued to an open grant arrives: the other grants of its batch cannot keep
\* it from the node.
CreditArrives ==
    \A g \in Grants : (rec[g].open /\ issued[g] > rec[g].ceil) ~> (rec[g].ceil = issued[g] \/ ~rec[g].open)
=============================================================================
