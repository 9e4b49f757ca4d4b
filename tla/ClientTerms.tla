----------------------------- MODULE ClientTerms -----------------------------
(***************************************************************************)
(* A client's terms and the work that keeps its nodes in step with them:   *)
(* the first demand activates a term and is admitted, the operator enables *)
(* and disables the source, the schedule resets the allowance by replacing *)
(* the term once every node has stopped the old one, and the source        *)
(* scheduler stops grants and publishes placements again.  Every change    *)
(* reaches the nodes through GrantAuthority.                               *)
(***************************************************************************)
EXTENDS GrantAuthority

CONSTANTS
    PlannerRates,   \* rates the planner may give a share that has one
    MaxRates,       \* revisions the planner may use up of a share; the rest is for stops
    MaxChanges,     \* operator changes: source toggles, resets, cancellations
    MaxOther,       \* publications made for other clients of the nodes
    Expiring        \* the term may expire

ASSUME TermAssumption ==
    /\ PlannerRates \subseteq Rates
    /\ MaxRates \in 1..MaxRevision /\ MaxChanges \in Nat /\ MaxOther \in Nat /\ Expiring \in BOOLEAN

VARIABLES
    source,     \* the client is enabled in the panel
    work,       \* source work per placement
    resetting,  \* the schedule waits for its reset to finish
    changes,    \* operator changes made
    other       \* publications made for other clients

panelVars == <<source, work, resetting>>
vars == <<grantVars, panelVars, changes, other>>

Work == [enabled: BOOLEAN, requiresStop: BOOLEAN, pending: BOOLEAN, stopped: 0..MaxDeployments]

TypeOK ==
    /\ current \in 0..MaxTerm /\ pending \in 0..MaxTerm
    /\ term \in [Terms -> {"none", "pending", "active", "draining", "closed"}]
    /\ expired \in BOOLEAN /\ source \in BOOLEAN /\ resetting \in BOOLEAN
    /\ \A n \in Nodes : place[n].grant \in 0..MaxTerm /\ work[n] \in Work
    /\ share \in [Nodes -> [Terms -> Shares]]
    /\ \A n \in Nodes : intent[n] \in Updates /\ post[n] \subseteq Updates /\ receipts[n] \subseteq Updates
    /\ \A n \in Nodes : applied[n] <= base[n] /\ base[n] <= Desired(n) /\ Desired(n) <= applied[n] + 1

Init ==
    /\ GrantInit
    /\ source = TRUE /\ resetting = FALSE /\ changes = 0 /\ other = 0
    /\ work = [n \in Nodes |-> [enabled |-> TRUE, requiresStop |-> FALSE, pending |-> FALSE, stopped |-> 0]]

-----------------------------------------------------------------------------
(* Terms                                                                   *)

NextTerm == Cardinality({t \in Terms : term[t] # "none"}) + 1

\* requireFleetPlacementSourceReadyTx: neither a stop nor a reset is under way.
StopPending(n) == work[n].pending /\ work[n].requiresStop

Ready(n) == ~StopPending(n) /\ pending = 0

\* The deployment a demand or an update refers to carries the placement as it is now.
Published(n) == Converged(n) /\ place[n].enabled /\ Deployed(n).place = place[n].rev

\* activateFleetDemand and Store.Transition with kind Activation
Activate(n) ==
    /\ n \notin Native
    /\ Ready(n) /\ Published(n) /\ source
    /\ current = 0
    /\ current' = 1 /\ term' = [term EXCEPT ![1] = "active"]
    /\ UNCHANGED <<pending, expired, place, masterVars, nodeVars, netVars, panelVars, changes, other>>

\* Mutant: a reset ends when the proofs of one node are in.
CompletableAnyNode ==
    \E n \in Nodes : \A t \in Granted(n) : t = current => StopProved(n, t)

\* CompleteTransition: every grant of the old term has a stop proof.
Completable ==
    \A n \in Nodes : \A t \in Granted(n) : t = current => StopProved(n, t)

Expire ==
    /\ Expiring /\ current # 0 /\ ~expired
    /\ expired' = TRUE
    /\ UNCHANGED <<current, pending, term, place, masterVars, nodeVars, netVars, panelVars, changes, other>>

-----------------------------------------------------------------------------
(* Admission: a demand or the planner sets the rate of the current grant   *)

\* ValidateFleetAuthorityDeliveryTx: stops always pass, the rest must still be wanted.
Allowed(n, t) ==
    row[n][t].update.policy.enabled =>
        /\ Authorized(t) /\ source
        /\ place[n].grant = t /\ Ready(n) /\ Published(n)

\* applyFleetAdmissionRate and, for the first demand of a term, AllocateCreditTx
SetRate(n, rate) ==
    LET t == current
        s == IF share[n][t].desired = rate /\ t \in Granted(n) THEN share[n][t] ELSE RequestedShare(n, t, rate)
    IN  /\ s # share[n][t] => MayRequestShare(n, t, rate) /\ s.rev <= MaxRates
        /\ MayQueue(n, t, s, TRUE)
        /\ share' = [share EXCEPT ![n][t] = s]
        /\ stop' = [stop EXCEPT ![n][t] = StopAfterQueue(n, t, s, TRUE)]
        /\ row' = [row EXCEPT ![n][t] = Queued(n, t, s, TRUE)]
        /\ place' = [place EXCEPT ![n].grant = t]
        /\ UNCHANGED <<termVars, deps, applied, nodeVars, netVars, panelVars, changes, other>>

\* allocateFleetAdmission: an authenticated demand for the placement as published
Admit(n) ==
    /\ current # 0 /\ source /\ Ready(n) /\ Published(n)
    /\ place[n].grant \in {0, current} \/ current \notin Granted(n)
    /\ SetRate(n, Open)

\* reconcileFleetAdmissionRate: the planner moves a share because of another member's demand.
Reconcile(n, rate) ==
    /\ current # 0 /\ source /\ Ready(n) /\ Published(n)
    /\ place[n].grant = current /\ current \in Granted(n)
    /\ rate # share[n][current].desired
    /\ SetRate(n, rate)

-----------------------------------------------------------------------------
(* Changes that invalidate the placements                                  *)

\* blockFleetSourceAuthority
BlockedRows == [n \in Nodes |-> [t \in Terms |->
                   IF row[n][t].update.policy.enabled THEN [row[n][t] EXCEPT !.blocked = TRUE] ELSE row[n][t]]]

\* Mutant: a change that needs a stop keeps the work of an earlier one as it was.
StopWorkMerged(enabled) ==
    [n \in Nodes |-> IF work[n].pending THEN [work[n] EXCEPT !.enabled = enabled]
                     ELSE [work[n] EXCEPT !.enabled = enabled, !.requiresStop = TRUE, !.pending = TRUE]]

StopWork(enabled) ==
    [n \in Nodes |-> [work[n] EXCEPT !.enabled = enabled, !.requiresStop = TRUE, !.pending = TRUE]]

Change == changes < MaxChanges /\ changes' = changes + 1

\* mutateFleetSourceEnable
SetSource ==
    /\ Change
    /\ source' = ~source
    /\ place' = [n \in Nodes |-> [place[n] EXCEPT !.enabled = FALSE, !.rev = @ + 1]]
    /\ work' = StopWork(~source)
    /\ row' = BlockedRows
    /\ UNCHANGED <<termVars, share, stop, deps, applied, nodeVars, netVars, resetting, other>>

\* beginFleetScheduledReset and Store.Transition with kind TrafficReset
BeginReset ==
    /\ Change
    /\ pending = 0 /\ current # 0 /\ NextTerm <= MaxTerm
    /\ source /\ Authorized(current) /\ ~resetting
    /\ pending' = NextTerm
    /\ term' = [term EXCEPT ![NextTerm] = "pending", ![current] = "draining"]
    /\ work' = StopWork(source)
    /\ row' = BlockedRows
    /\ resetting' = TRUE
    /\ UNCHANGED <<current, expired, place, share, stop, deps, applied, nodeVars, netVars, source, other>>

\* finishFleetScheduledReset: the placements lose their grant and are published again.
FinishReset ==
    /\ resetting /\ pending # 0
    /\ Completable
    /\ current' = pending /\ pending' = 0
    /\ term' = [term EXCEPT ![pending] = "active", ![current] = "closed"]
    /\ place' = [n \in Nodes |-> [rev |-> place[n].rev + 1, enabled |-> FALSE, grant |-> 0]]
    /\ work' = [n \in Nodes |-> [work[n] EXCEPT !.enabled = source,
                                                !.pending = work[n].requiresStop \/ source]]
    /\ resetting' = FALSE
    /\ UNCHANGED <<expired, masterVars, nodeVars, netVars, source, changes, other>>

\* cancelFleetResetSchedule and Store.CancelTransition
CancelReset ==
    /\ Change
    /\ resetting /\ pending # 0
    /\ term' = [term EXCEPT ![pending] = "closed", ![current] = "active"]
    /\ pending' = 0 /\ resetting' = FALSE
    /\ work' = StopWork(source)
    /\ row' = BlockedRows
    /\ UNCHANGED <<current, expired, place, share, stop, deps, applied, nodeVars, netVars, source, other>>

-----------------------------------------------------------------------------
(* Publication: publishFleetNetworkTx and fundFleetNetwork                 *)

Retired(n) ==
    /\ ~source /\ ~work[n].enabled /\ ~work[n].pending /\ ~work[n].requiresStop
    /\ \A t \in Granted(n) : StopSettled(n, t)

\* requireFleetNetworkRetirements
OthersStopped(n, g) == \A t \in Granted(n) \ {g.term} : StopSettled(n, t)

\* The grant a publication carries for the client: the current one with its settled rate, else none.
PublishedGrant(n, s) ==
    IF current # 0 /\ place[n].grant = current THEN Policy(n, current, s, TRUE) ELSE NoPolicy

\* Mutant: the deployment before need not have been applied.
PublishableEager(n) ==
    /\ Desired(n) < MaxDeployments
    /\ Ready(n) /\ source /\ ~expired
    /\ current # 0 => term[current] = "active"
    /\ place[n].grant = current /\ current # 0 => share[n][current].rev = share[n][current].applied

Publishable(n) ==
    /\ applied[n] = Desired(n) /\ Desired(n) < MaxDeployments
    /\ Ready(n) /\ source /\ ~expired
    /\ current # 0 => term[current] = "active"
    /\ place[n].grant = current /\ current # 0 => share[n][current].rev = share[n][current].applied

\* Included for good: the placement is approved and carries its descriptor.
PublishWith(n, g) ==
    /\ OthersStopped(n, g)
    /\ deps' = [deps EXCEPT ![n] = Append(@, [place |-> place[n].rev, grant |-> g])]
    /\ place' = [place EXCEPT ![n].enabled = TRUE, ![n].grant = IF g.term # 0 THEN g.term ELSE @]
    /\ stop' = IF g.term # 0 THEN [stop EXCEPT ![n][g.term] = NoStop] ELSE stop

\* A publication for another client takes this one along, or leaves it out once it is retired.
PublishOther(n) ==
    /\ other < MaxOther /\ other' = other + 1
    /\ \/ /\ n \notin Native /\ Publishable(n)
          /\ PublishWith(n, PublishedGrant(n, share[n][current]))
       \/ /\ applied[n] = Desired(n) /\ Desired(n) < MaxDeployments
          /\ Retired(n)
          /\ deps' = [deps EXCEPT ![n] = Append(@, [place |-> 0, grant |-> NoPolicy])]
          /\ UNCHANGED <<place, stop>>
    /\ UNCHANGED <<termVars, share, row, applied, nodeVars, netVars, panelVars, changes>>

\* The operator funds a native placement: AllocateCreditTx inside the publication.
PublishFunded(n) ==
    LET s == RequestedShare(n, current, Open)
    IN  /\ n \in Native /\ Change
        /\ Publishable(n) /\ current # 0 /\ place[n].grant # current
        /\ current \notin Granted(n) /\ MayRequestShare(n, current, Open)
        /\ PublishWith(n, Policy(n, current, s, TRUE))
        /\ share' = [share EXCEPT ![n][current] = s]
        /\ UNCHANGED <<termVars, row, applied, nodeVars, netVars, panelVars, other>>

-----------------------------------------------------------------------------
(* Source work: one pass of the scheduler over a placement                 *)

\* Mutant: a converged node counts as stopped.
StoppedConverged(n) == applied[n] = Desired(n)

\* fleetSourceWorkStopped
Stopped(n) == applied[n] = Desired(n) /\ \A t \in Granted(n) : StopSettled(n, t)

\* fleetPlacementPublished
Reopened(n) ==
    /\ Published(n) /\ applied[n] > work[n].stopped
    /\ source /\ Ready(n)
    /\ current # 0 => term[current] = "active"
    /\ LET g == Deployed(n).grant IN g.term # 0 => g.enabled /\ g.term = current /\ place[n].grant = current

\* advanceFleetSourceProof
ProofStep(n) ==
    /\ work[n].pending /\ work[n].enabled = source
    /\ \/ /\ work[n].requiresStop /\ Stopped(n)
          /\ work' = [work EXCEPT ![n] = [@ EXCEPT !.requiresStop = FALSE, !.pending = work[n].enabled,
                                                   !.stopped = applied[n]]]
       \/ /\ ~work[n].requiresStop /\ Reopened(n)
          /\ work' = [work EXCEPT ![n].pending = FALSE]
    /\ UNCHANGED <<grantVars, source, resetting, changes, other>>

\* Mutant: the revision that the deployment carries open is used again.
StopShareSame(n, t) ==
    IF share[n][t].desired = Blocked THEN share[n][t] ELSE RequestedShare(n, t, Blocked)

\* queueFleetSourceStop: a share that is open, or that the deployment carries open, moves on first.
StopShare(n, t) ==
    IF share[n][t].desired = Blocked /\ ~NeedsRevision(n, t, share[n][t], FALSE)
    THEN share[n][t]
    ELSE RequestedShare(n, t, Blocked)

\* StopFleetSourceWorkTx for a stream runtime: all its pending grants, or none.
StopStream(n) ==
    LET targets == {t \in Granted(n) : ~StopSettled(n, t)}
        s == [t \in Terms |-> IF t \in targets THEN StopShare(n, t) ELSE share[n][t]]
    IN  /\ n \notin Native
        /\ StopPending(n) /\ work[n].enabled = source
        /\ Converged(n) /\ targets # {}
        /\ \A t \in targets : /\ s[t] # share[n][t] => MayRequestShare(n, t, Blocked)
                              /\ MayQueue(n, t, s[t], FALSE)
        /\ share' = [share EXCEPT ![n] = s]
        /\ row' = [row EXCEPT ![n] = [t \in Terms |->
                     IF t \in targets THEN Queued(n, t, s[t], FALSE) ELSE row[n][t]]]
        /\ UNCHANGED <<termVars, place, stop, deps, applied, nodeVars, netVars, panelVars, changes, other>>

\* zeroStopRateShare
ZeroedShare(s) == [s EXCEPT !.rev = @ + 1, !.desired = Blocked]

\* StopConfiguration for a native runtime: the deployed grant again, disabled.
StopNative(n) ==
    LET g == Deployed(n).grant
        s == ZeroedShare(share[n][g.term])
    IN  /\ n \in Native
        /\ StopPending(n) /\ Converged(n) /\ Desired(n) < MaxDeployments
        /\ {t \in Granted(n) : ~StopSettled(n, t)} = {g.term}
        /\ share[n][g.term].rev < MaxRevision
        /\ share' = [share EXCEPT ![n][g.term] = s]
        /\ deps' = [deps EXCEPT ![n] = Append(@, [place |-> Deployed(n).place,
                                                  grant |-> Policy(n, g.term, s, FALSE)])]
        /\ UNCHANGED <<termVars, place, row, stop, applied, nodeVars, netVars, panelVars, changes, other>>

\* ReconcileFleetSourceWorkTx
Republish(n) ==
    /\ n \notin Native
    /\ work[n].pending /\ ~work[n].requiresStop /\ work[n].enabled /\ ~Reopened(n)
    /\ Publishable(n)
    /\ PublishWith(n, PublishedGrant(n, share[n][current]))
    /\ UNCHANGED <<termVars, share, row, applied, nodeVars, netVars, panelVars, changes, other>>

-----------------------------------------------------------------------------
Delivery(n) ==
    /\ \/ \E t \in Terms : Fetch(n, t, Allowed(n, t))
       \/ \E u \in post[n] : Intend(n, u)
       \/ \E b \in BOOLEAN : Enforce(n, b)
       \/ \E u \in receipts[n] : Acknowledge(n, u)
       \/ Deploy(n)
       \/ \E r \in {applied[n], Desired(n)} : Observe(n, r)
    /\ UNCHANGED <<panelVars, changes, other>>

Scheduler(n) == ProofStep(n) \/ StopStream(n) \/ StopNative(n) \/ Republish(n)

Next ==
    \/ \E n \in Nodes :
          \/ Activate(n) \/ Admit(n)
          \/ \E r \in PlannerRates : Reconcile(n, r)
          \/ PublishOther(n) \/ PublishFunded(n)
          \/ Scheduler(n) \/ Delivery(n)
    \/ Expire \/ SetSource \/ BeginReset \/ FinishReset \/ CancelReset

Spec == Init /\ [][Next]_vars

\* The schedulers poll, the agent runs its passes on a timer and reports again until the
\* master has recorded its deployment; demands, the planner and the operator promise nothing.
Agent(step) == step /\ UNCHANGED <<panelVars, changes, other>>
Deploys(n) == Agent(Deploy(n))
Reports(n) == Agent(applied[n] < Desired(n) /\ Observe(n, Desired(n)))
Fetches(n) == Agent(\E t \in Terms : Fetch(n, t, Allowed(n, t)))
Intends(n) == Agent(\E u \in post[n] : Intend(n, u))
Enforces(n) == Agent(Enforce(n, TRUE))
Acknowledges(n) == Agent(\E u \in receipts[n] : Acknowledge(n, u))

Fairness ==
    /\ WF_vars(FinishReset)
    /\ \A n \in Nodes :
          /\ WF_vars(ProofStep(n)) /\ WF_vars(StopStream(n)) /\ WF_vars(StopNative(n)) /\ WF_vars(Republish(n))
          /\ WF_vars(Deploys(n)) /\ WF_vars(Reports(n)) /\ WF_vars(Fetches(n))
          /\ WF_vars(Intends(n)) /\ WF_vars(Enforces(n)) /\ WF_vars(Acknowledges(n))

FairSpec == Spec /\ Fairness

-----------------------------------------------------------------------------
(* Properties                                                              *)

\* No node serves a term that has not started or has been replaced: whatever is late, a term
\* is completed only when requireStoppedGrants holds of its predecessor.
OnlyCurrentTermServed ==
    \A n \in Nodes, t \in Terms : Serving(n, t) => t = current

\* A stop proof is true: as long as requireStoppedGrants accepts it the node serves nothing on
\* the grant, however acknowledgements, results and deployments have crossed.
StopProofsTrue ==
    \A n \in Nodes, t \in Terms : t \in Granted(n) /\ StopProved(n, t) => ~Serving(n, t)

\* The outstanding rate in the ledger covers what the node enforces, so that what the planner
\* hands to the other nodes is really free.
OutstandingCovers ==
    \A n \in Nodes, t \in Terms : Serving(n, t) => share[n][t].outstanding = Open

\* A disable that the source work reports as done has silenced the node (fleetSourceWorkStopped).
DisabledIsSilent ==
    \A n \in Nodes, t \in Terms : ~source /\ ~work[n].pending => ~Serving(n, t)

\* A deployment on its way to a node never carries older authority than the node has
\* (the settled-rate check of fundFleetNetwork and the base check of every update).
NoAuthorityRegress ==
    \A n \in Nodes :
        LET g == deps[n][Desired(n)].grant
        IN  base[n] < Desired(n) /\ g.term # 0 => rec[n][g.term].policy.rev <= g.rev

\* No node serves a term that has not begun or has been replaced, or at a rate that the ledger
\* does not count as outstanding, or is sent a deployment with older authority than it has.
TermsInTurn == TypeOK /\ OnlyCurrentTermServed /\ OutstandingCovers /\ NoAuthorityRegress

\* A grant whose stop proof requireStoppedGrants accepts is silent on its node, and a client
\* that the source work reports as disabled is silent on all of them.
StopsHold == StopProofsTrue /\ DisabledIsSilent

\* Required source stops still advance: whatever the state of the grants, a stop the source
\* work requires is proved in the end.
StopsAdvance ==
    \A n \in Nodes : StopPending(n) ~> ~StopPending(n)

\* A reset that has begun is finished or cancelled.
ResetsEnd == resetting ~> ~resetting

\* Every deployment that is published is applied in the end: existing stopped grants enter a
\* newer baseline.
DeploymentsApplied ==
    \A n \in Nodes : (applied[n] < Desired(n)) ~> (applied[n] = Desired(n))
=============================================================================
