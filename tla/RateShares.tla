----------------------------- MODULE RateShares -----------------------------
(***************************************************************************)
(* The bandwidth of a client over all its placements                       *)
(* (internal/controlplane/rates.go, rate_allocation.go, the authority      *)
(* outbox, web/service/fleet_client_allocation.go).                        *)
(*                                                                         *)
(* A client has one pool, with a bound; every placement has a share of it. *)
(* A share is raised by asking: the ledger then counts the larger of what  *)
(* the node may still be running and what it is about to be told, its      *)
(* outstanding rate, until the node has confirmed the new one.  Placements *)
(* that want to serve post demands; the scheduler computes a fair plan     *)
(* from what is outstanding, lowers the others by reconciliation jobs and  *)
(* raises the demander once there is room.                                 *)
(*                                                                         *)
(* Upload and download are treated alike and independently; one direction  *)
(* is modelled.  Shares reach the nodes as authority updates (or in        *)
(* deployments, which are confirmed by the same rule); updates and         *)
(* confirmations are lost, delayed and reordered.                          *)
(***************************************************************************)
EXTENDS RatePlan

CONSTANTS
    Members,       \* placements, numbered in the order of their ids
    Bounds,        \* the bounds the pool may have
    MaxRevision,   \* bound: revisions of a share
    MaxFlight,     \* bound: updates and confirmations on their way
    MaxChanges,    \* bound: changes of the pool and of what is online, stops, losses, timeouts
    None

\* A row of FleetRateShare, an authority update, and what a node has in force.
Share == [revision : Nat, desired : Rate, outstanding : Rate, applied : Nat, enabled : BOOLEAN]
Update == [member : Members, rev : Nat, rate : Rate, enabled : BOOLEAN]
InForce == [rev : Nat, rate : Rate, enabled : BOOLEAN]

ASSUME SharesAssumption ==
    /\ Members \subseteq Nat /\ IsFiniteSet(Members)
    /\ \A r \in Bounds : ValidRate(r)
    /\ MaxRevision \in Nat /\ MaxFlight \in Nat /\ MaxChanges \in Nat
    /\ None \notin Share

-----------------------------------------------------------------------------
VARIABLES
    bound,    \* durable: the pool's bound (FleetRateBudget.Desired)
    share,    \* durable: each member's share, if it has one
    demand,   \* durable: the members with a pending demand
    jobs,     \* durable: whose demand asked for a reconciliation of a member, if any is pending
    online,   \* the members whose node is connected and at its deployment
    mail,     \* updates fetched and not yet at the worker
    force,    \* durable on the node: the update in force
    acks,     \* confirmations on their way
    changes   \* how often the environment has intervened

ledger == <<bound, share, demand, jobs>>
vars == <<ledger, online, mail, force, acks, changes>>

Init ==
    /\ bound \in Bounds
    /\ share = [m \in Members |-> None]
    /\ demand = {}
    /\ jobs = [m \in Members |-> None]
    /\ online = Members
    /\ mail = {} /\ acks = {}
    /\ force = [m \in Members |-> [rev |-> 0, rate |-> Blocked, enabled |-> TRUE]]
    /\ changes = 0

Holders == {m \in Members : share[m] # None}
Outstanding(m) == IF share[m] = None THEN Blocked ELSE share[m].outstanding

\* Mutant: only what is desired counts.
PendingDesired == ~Fits(bound, [m \in Holders |-> share[m].desired], Holders)

\* RateBudgetPending: more is outstanding than the bound allows.
Pending == ~Fits(bound, [m \in Holders |-> share[m].outstanding], Holders)

\* Mutant: the room in the pool is not looked at.
RequestAllowedBlindly(m, rate) == share[m] # None => share[m].revision < MaxRevision

\* RequestRateShare.  The other shares are read with the pool locked.
RequestAllowed(m, rate) ==
    LET previous == Outstanding(m)
        after == Envelope(previous, rate)
    IN  /\ ValidRate(rate)
        /\ share[m] # None => share[m].revision < MaxRevision
        /\ after # previous =>
             Fits(bound, [x \in Holders \cup {m} |-> IF x = m THEN after ELSE Outstanding(x)],
                  Holders \cup {m})

\* Mutant: a first share has no confirmed revision.
ShareAfterUntyped(m, rate, enabled) ==
    [revision |-> IF share[m] = None THEN 1 ELSE share[m].revision + 1,
     desired |-> rate,
     outstanding |-> Envelope(Outstanding(m), rate),
     applied |-> IF share[m] = None THEN None ELSE share[m].applied,
     enabled |-> enabled]

ShareAfter(m, rate, enabled) ==
    [revision |-> IF share[m] = None THEN 1 ELSE share[m].revision + 1,
     desired |-> rate,
     outstanding |-> Envelope(Outstanding(m), rate),
     applied |-> IF share[m] = None THEN 0 ELSE share[m].applied,
     enabled |-> enabled]

-----------------------------------------------------------------------------
(***************************************************************************)
(* The scheduler (fleetAdmissionRates, allocateFleetAdmission,             *)
(* reconcileFleetAdmissionRate).                                           *)
(***************************************************************************)

Eligible(m) == m \in online /\ (share[m] # None => share[m].enabled)
Participants == Holders \cup {m \in demand : Eligible(m)}
Current == [m \in Participants |-> Outstanding(m)]
EligibleParticipants == {m \in Participants : Eligible(m)}
NextRates == Plan(bound, Current, EligibleParticipants)

\* EnqueueAdmissionDemand: a worker of the placement waits for authority.
PostDemand(m) ==
    /\ m \notin demand /\ Eligible(m)
    /\ demand' = demand \cup {m}
    /\ UNCHANGED <<bound, share, jobs, online, mail, force, acks, changes>>

\* applyFleetAdmissionRate: nothing is asked for that is desired already.
Ask(m, rate) ==
    IF share[m] # None /\ share[m].desired = rate
    THEN UNCHANGED share
    ELSE /\ RequestAllowed(m, rate)
         /\ share' = [share EXCEPT ![m] = ShareAfter(m, rate, TRUE)]

\* The other members whose part of the plan differs from what they are told
\* get a reconciliation in the name of the demand.
Jobs(m, next) ==
    [x \in Members |->
        IF x # m /\ x \in EligibleParticipants \cap Holders /\ share[x].desired # next[x] THEN m ELSE jobs[x]]

\* The demander is served if its part of the plan is usable.
Usable(m, next) ==
    m \in EligibleParticipants /\ next[m].mode # "Blocked" /\ ~CapacityError(bound, EligibleParticipants)

\* ProcessFleetAdmissionDemand.  A demand that is not served is tried again.
\* A first share needs credit, which waits until nothing is pending.
Process(m) ==
    LET next == NextRates
    IN  /\ m \in demand
        /\ jobs' = Jobs(m, next)
        /\ \/ /\ Usable(m, next)
              /\ share[m] = None => ~Pending
              /\ Ask(m, next[m])
              /\ demand' = demand \ {m}
           \/ /\ ~Usable(m, next)
              /\ UNCHANGED <<share, demand>>
        /\ UNCHANGED <<bound, online, mail, force, acks, changes>>

\* ErrFleetSource: the placement is gone, or its node runs another deployment.
Reject(m) ==
    /\ m \in demand /\ ~Eligible(m)
    /\ demand' = demand \ {m}
    /\ UNCHANGED <<bound, share, jobs, online, mail, force, acks, changes>>

\* reconcileFleetAdmissionRate.  The job lapses when the node of the demand
\* that asked for it has changed; the demand may have been served since.
Reconcile(m) ==
    /\ jobs[m] # None
    /\ IF Eligible(m) /\ m \in Holders /\ Eligible(jobs[m]) THEN Ask(m, NextRates[m]) ELSE UNCHANGED share
    /\ jobs' = [jobs EXCEPT ![m] = None]
    /\ UNCHANGED <<bound, demand, online, mail, force, acks, changes>>

-----------------------------------------------------------------------------
(***************************************************************************)
(* Delivery and confirmation of the updates.                               *)
(***************************************************************************)

\* QueueAuthorityUpdate: the outbox holds the last revision of a share.
QueuedUpdate(m) ==
    [member |-> m, rev |-> share[m].revision, rate |-> share[m].desired, enabled |-> share[m].enabled]

\* FetchAuthorityUpdates hands it out until it is acknowledged.
Fetch(m) ==
    /\ m \in Holders \cap online /\ share[m].applied < share[m].revision
    /\ QueuedUpdate(m) \notin mail /\ Cardinality(mail) + Cardinality(acks) < MaxFlight
    /\ mail' = mail \cup {QueuedUpdate(m)}
    /\ UNCHANGED <<ledger, online, force, acks, changes>>

\* The governor takes an update that advances the authority revision, and
\* accepts a repetition; anything else is refused.
Advances(u, f) == u.rev > f.rev /\ (u.enabled => f.enabled)

\* Mutant: an update that is in force already is refused.
RepeatsNever(u, f) == FALSE

Repeats(u, f) == [rev |-> u.rev, rate |-> u.rate, enabled |-> u.enabled] = f

Apply(u) ==
    LET f == force[u.member]
    IN  /\ u \in mail
        /\ mail' = mail \ {u}
        /\ \/ /\ Advances(u, f)
              /\ force' = [force EXCEPT ![u.member] = [rev |-> u.rev, rate |-> u.rate, enabled |-> u.enabled]]
              /\ acks' = acks \cup {u}
           \/ Repeats(u, f) /\ acks' = acks \cup {u} /\ UNCHANGED force
           \/ ~Advances(u, f) /\ ~Repeats(u, f) /\ UNCHANGED <<force, acks>>
        /\ UNCHANGED <<ledger, online, changes>>

\* Mutant: any revision confirms the share.
ConfirmsAny(u) == share[u.member].applied < u.rev

\* AcknowledgeAuthorityUpdates and acknowledgeConfiguration: only the last
\* revision confirms.
Confirms(u) == share[u.member].revision = u.rev /\ share[u.member].desired = u.rate

Acknowledge(u) ==
    /\ u \in acks
    /\ acks' = acks \ {u}
    /\ share' = IF Confirms(u)
                THEN [share EXCEPT ![u.member].applied = u.rev, ![u.member].outstanding = u.rate]
                ELSE share
    /\ UNCHANGED <<bound, demand, jobs, online, mail, force, changes>>

-----------------------------------------------------------------------------
(***************************************************************************)
(* The environment: the pool's bound changes (SetRateBudget, a tier), nodes*)
(* come and go, placements get their first share by hand, are stopped for  *)
(* good (queueFleetSourceStop),                                            *)
(* demands and jobs run into their deadline, messages are lost.            *)
(***************************************************************************)

Change == changes < MaxChanges /\ changes' = changes + 1

SetRateBudget(rate) ==
    /\ Change /\ rate # bound
    /\ bound' = rate
    /\ UNCHANGED <<share, demand, jobs, online, mail, force, acks>>

\* The operator publishes a network with a rate of his own for a placement
\* that has no share yet.
Fund(m, rate) ==
    /\ Change /\ share[m] = None /\ ~Pending /\ RequestAllowed(m, rate)
    /\ share' = [share EXCEPT ![m] = ShareAfter(m, rate, TRUE)]
    /\ UNCHANGED <<bound, demand, jobs, online, mail, force, acks>>

Toggle(m) ==
    /\ Change
    /\ online' = IF m \in online THEN online \ {m} ELSE online \cup {m}
    /\ UNCHANGED <<ledger, mail, force, acks>>

\* A share that is blocked already is not asked for again, and the outbox
\* refuses to disable it at the revision it holds as enabled.
Stop(m) ==
    /\ Change /\ m \in Holders /\ share[m].enabled /\ share[m].desired # Blocked
    /\ RequestAllowed(m, Blocked)
    /\ share' = [share EXCEPT ![m] = ShareAfter(m, Blocked, FALSE)]
    /\ UNCHANGED <<bound, demand, jobs, online, mail, force, acks>>

Expire(m) ==
    /\ Change /\ m \in demand
    /\ demand' = demand \ {m}
    /\ jobs' = [x \in Members |-> IF jobs[x] = m THEN None ELSE jobs[x]]
    /\ UNCHANGED <<bound, share, online, mail, force, acks>>

Lose ==
    /\ Change
    /\ \/ \E u \in mail : mail' = mail \ {u} /\ UNCHANGED acks
       \/ \E u \in acks : acks' = acks \ {u} /\ UNCHANGED mail
    /\ UNCHANGED <<ledger, online, force>>

Next ==
    \/ \E m \in Members :
         \/ PostDemand(m) \/ Process(m) \/ Reject(m) \/ Reconcile(m) \/ Fetch(m)
         \/ Toggle(m) \/ Stop(m) \/ Expire(m)
    \/ \E u \in mail : Apply(u)
    \/ \E u \in acks : Acknowledge(u)
    \/ \E rate \in Bounds : SetRateBudget(rate) \/ \E m \in Members : Fund(m, rate)
    \/ Lose

Spec == Init /\ [][Next]_vars

\* The agent of a node that is online asks for updates every second, and
\* hands what it fetched to the worker and the confirmation to the master.
Fairness ==
    /\ \A m \in Members : WF_vars(Fetch(m))
    /\ WF_vars(\E u \in mail : Apply(u)) /\ WF_vars(\E u \in acks : Acknowledge(u))

FairSpec == Spec /\ Fairness

-----------------------------------------------------------------------------
(***************************************************************************)
(* Properties.                                                             *)
(***************************************************************************)

\* Every variable has its type.
TypeOK ==
    /\ bound \in Bounds
    /\ share \in [Members -> Share \cup {None}]
    /\ demand \subseteq Members /\ online \subseteq Members
    /\ jobs \in [Members -> Members \cup {None}]
    /\ mail \subseteq Update /\ acks \subseteq Update
    /\ force \in [Members -> InForce]
    /\ changes \in 0 .. MaxChanges

\* However late, lost or reordered updates and confirmations are, no node
\* runs a rate above what the ledger counts for it, so that
\* AcknowledgeAuthorityUpdates never frees what is still in use.
Covered == \A m \in Members : AtMost(force[m].rate, Outstanding(m))

\* When RateBudgetPending denies that anything is pending, the nodes together
\* run within the bound of the pool, also after it was lowered.
BoundHolds == ~Pending => Fits(bound, [m \in Members |-> force[m].rate], Members)

\* No step takes more out of the pool than its bound allows; what is over the
\* bound (after SetRateBudget lowered it) only shrinks.
NeverOverIssued ==
    [][ Pending' => \A m \in Members : AtMost(Outstanding(m)', Outstanding(m)) ]_vars

\* What a share no longer needs comes back to the pool: a member that stays
\* online is told its rate and confirms it, whatever was lost on the way, so
\* that the ledger stops counting the larger one.
Released ==
    \A m \in Members :
       []<>(m \in online /\ share[m] # None => share[m].outstanding = share[m].desired)
=============================================================================
