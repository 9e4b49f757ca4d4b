--------------------------- MODULE GrantAuthority ---------------------------
(***************************************************************************)
(* Authority for the grants of one client, one grant per node and term:    *)
(* the rate share the master wants, the outbox row that carries it to the  *)
(* node outside a deployment, the deployments that carry it inside one,    *)
(* the proof that a node has stopped, and the node's own intent and        *)
(* governor record.  Fetches, posts, receipts and results may be late,     *)
(* lost or repeated; a worker may fail between its intent and its          *)
(* governor.  A rate is Blocked or Open: shares of the bound are the       *)
(* business of RateShares.  Runtimes of Native have no outbox and are      *)
(* stopped by a stop-only deployment.                                      *)
(***************************************************************************)
EXTENDS Integers, FiniteSets, Sequences

CONSTANTS
    Nodes,          \* nodes the client is placed on
    Native,         \* those whose runtime is native
    MaxTerm,        \* terms the client may go through
    MaxRevision,    \* largest revision of a rate share
    MaxDeployments, \* deployments per node
    MaxFlight       \* posts and receipts in flight per node

ASSUME GrantAssumption ==
    /\ Native \subseteq Nodes /\ IsFiniteSet(Nodes)
    /\ {MaxTerm, MaxRevision, MaxDeployments, MaxFlight} \subseteq Nat \ {0}

VARIABLES
    current,    \* the client's current term, 0 before the first
    pending,    \* the term that waits for the current one to drain, or 0
    term,       \* state of each term
    expired,    \* the current term has expired
    place,      \* placement per node: its revision, approved, the term of its current grant
    share,      \* rate share per node and term; revision 0 before there is a grant
    row,        \* authority outbox row per node and term; base 0 when there is none
    stop,       \* stop proof per node and term; deployment 0 when there is none
    deps,       \* deployments published per node, oldest first
    applied,    \* last deployment recorded as applied, per node
    base,       \* deployment the node runs
    intent,     \* authority the node's worker has saved for its deployment
    rec,        \* governor record per node and term
    post,       \* fetched updates on their way to the worker
    receipts    \* updates the worker has applied, on their way to the master

termVars == <<current, pending, term, expired>>
masterVars == <<share, row, stop, deps, applied>>
nodeVars == <<base, intent, rec>>
netVars == <<post, receipts>>
grantVars == <<termVars, place, masterVars, nodeVars, netVars>>

Terms == 1..MaxTerm
Blocked == 0
Open == 1
Rates == {Blocked, Open}

Shares == [rev: 0..MaxRevision, desired: Rates, outstanding: Rates, applied: 0..MaxRevision]
NoShare == [rev |-> 0, desired |-> Blocked, outstanding |-> Blocked, applied |-> 0]

Policies == [term: 0..MaxTerm, rev: 0..MaxRevision, rate: Rates, enabled: BOOLEAN]
NoPolicy == [term |-> 0, rev |-> 0, rate |-> Blocked, enabled |-> FALSE]

Updates == [base: 0..MaxDeployments, policy: Policies]
NoUpdate == [base |-> 0, policy |-> NoPolicy]

NoRow == [update |-> NoUpdate, place |-> 0, acked |-> 0, blocked |-> FALSE]
NoDeployment == [place |-> 0, grant |-> NoPolicy]
NoStop == [dep |-> 0, rev |-> 0]
NoRecord == [policy |-> NoPolicy, revision |-> 0, suspended |-> FALSE]

-----------------------------------------------------------------------------
(* State read by the operations                                            *)

Desired(n) == Len(deps[n])

\* Mutant: a deployment that is on its way does not count.
ConvergedLoose(n) == applied[n] > 0

Converged(n) == applied[n] > 0 /\ applied[n] = Desired(n)

Deployed(n) == deps[n][applied[n]]

Granted(n) == {t \in Terms : share[n][t].rev > 0}

\* managedAuthority with active set, and the expiry checks beside it
Authorized(t) == t = current /\ term[t] = "active" /\ ~expired

Policy(n, t, s, enabled) ==
    [term |-> t, rev |-> s.rev, rate |-> s.desired, enabled |-> enabled]

\* What the node enforces: the governor admits nothing on any other record.
Serving(n, t) ==
    LET r == rec[n][t] IN r.policy.enabled /\ r.policy.rate = Open /\ ~r.suspended

-----------------------------------------------------------------------------
(* Rate shares: Store.RequestRateShare                                     *)

MayRequestShare(n, t, rate) ==
    /\ share[n][t].rev < MaxRevision
    /\ rate > share[n][t].outstanding => Authorized(t)

\* Mutant: the new rate replaces the outstanding one before the node has taken it.
RequestedShareEager(n, t, rate) ==
    [share[n][t] EXCEPT !.rev = @ + 1, !.desired = rate, !.outstanding = rate]

RequestedShare(n, t, rate) ==
    [share[n][t] EXCEPT !.rev = @ + 1, !.desired = rate,
                        !.outstanding = IF rate > @ THEN rate ELSE @]

-----------------------------------------------------------------------------
(* Outbox: Store.QueueAuthorityUpdate for the share s of the grant         *)

\* The deployed grant has the share's revision and another content (ErrRevision).
NeedsRevision(n, t, s, enabled) ==
    LET g == Deployed(n).grant
    IN  g.term = t /\ g.rev = s.rev /\ g # Policy(n, t, s, enabled)

\* sameAuthorityScope: the row was queued for the deployment that is applied.
SameScope(n, t) == row[n][t].update.base = applied[n]

Follows(n, t, s, enabled) ==
    LET old == row[n][t].update
    IN  /\ old.base <= applied[n] /\ old.policy.rev <= s.rev
        /\ SameScope(n, t) =>
              /\ enabled => old.policy.enabled
              /\ old.policy.rev = s.rev => old.policy = Policy(n, t, s, enabled)

MayQueue(n, t, s, enabled) ==
    /\ n \notin Native
    /\ Converged(n)
    /\ enabled => Authorized(t)
    /\ ~enabled => s.desired = Blocked
    /\ Deployed(n).place > 0
    /\ LET g == Deployed(n).grant
       IN  g.term # 0 => /\ g.term = t
                         /\ enabled => g.enabled
                         /\ g.rev <= s.rev
                         /\ ~NeedsRevision(n, t, s, enabled)
    /\ \A u \in Terms \ {t} : ~SameScope(n, u)
    /\ Follows(n, t, s, enabled)

Queued(n, t, s, enabled) ==
    [update |-> [base |-> applied[n], policy |-> Policy(n, t, s, enabled)],
     place |-> Deployed(n).place,
     acked |-> IF SameScope(n, t) THEN row[n][t].acked ELSE 0,
     blocked |-> FALSE]

\* The proof goes with the first enabled update; a repeat leaves everything but the block.
StopAfterQueue(n, t, s, enabled) ==
    IF enabled /\ row[n][t].update # Queued(n, t, s, enabled).update THEN NoStop ELSE stop[n][t]

-----------------------------------------------------------------------------
(* Delivery of the outbox                                                  *)

\* validateAuthorityEntryTx: the row still is the share, for a term that still counts.
EntryValid(n, t) ==
    LET p == row[n][t].update.policy
    IN  /\ p = Policy(n, t, share[n][t], p.enabled)
        /\ p.enabled => Authorized(t)

Deliverable(n, t) ==
    /\ SameScope(n, t) /\ ~row[n][t].blocked
    /\ row[n][t].update.policy.rev > row[n][t].acked

\* FetchAuthorityUpdates with the panel's validator: a row that is refused is blocked.
Fetch(n, t, allowed) ==
    /\ Converged(n) /\ base[n] = applied[n]
    /\ Deliverable(n, t)
    /\ IF allowed /\ EntryValid(n, t)
       THEN /\ Cardinality(post[n]) < MaxFlight
            /\ post' = [post EXCEPT ![n] = @ \cup {row[n][t].update}]
            /\ UNCHANGED row
       ELSE /\ row' = [row EXCEPT ![n][t].blocked = TRUE]
            /\ UNCHANGED post
    /\ UNCHANGED <<termVars, place, share, stop, deps, applied, nodeVars, receipts>>

\* A batch is acknowledged for what it says now, not for what it said when fetched.
MayAcknowledge(n, u) ==
    LET r == row[n][u.policy.term]
    IN  /\ Converged(n) /\ u.base = applied[n]
        /\ r.update = u /\ r.acked < u.policy.rev
        /\ u.policy = Policy(n, u.policy.term, share[n][u.policy.term], u.policy.enabled)

\* AcknowledgeAuthorityUpdates; a receipt that is not accepted changes nothing.
Acknowledge(n, u) ==
    LET t == u.policy.term
        p == row[n][t].update.policy
    IN  /\ u \in receipts[n]
        /\ receipts' = [receipts EXCEPT ![n] = @ \ {u}]
        /\ IF MayAcknowledge(n, u)
           THEN /\ share' = [share EXCEPT ![n][t].applied = p.rev,
                                          ![n][t].outstanding = share[n][t].desired]
                /\ stop' = [stop EXCEPT ![n][t] =
                              IF p.enabled THEN NoStop ELSE [dep |-> u.base, rev |-> p.rev]]
                /\ row' = [row EXCEPT ![n][t].acked = p.rev]
           ELSE UNCHANGED <<share, stop, row>>
        /\ UNCHANGED <<termVars, place, deps, applied, nodeVars, post>>

-----------------------------------------------------------------------------
(* The node                                                                *)

\* limits.MergeAuthority and AuthorityAdvance for two policies of one deployment
Advances(old, new) ==
    \/ new = old
    \/ old.rev < new.rev /\ (new.enabled => old.enabled)

\* Worker.ApplyAuthority up to SaveAuthorityIntents
MayIntend(n, u) ==
    LET p == u.policy
        g == deps[n][u.base].grant
    IN  /\ u.base = base[n] /\ deps[n][u.base].place > 0
        /\ g.term # 0 => g.term = p.term
        /\ intent[n].base = u.base => intent[n].policy.term = p.term /\ Advances(intent[n].policy, p)
        /\ ~rec[n][p.term].suspended
        /\ rec[n][p.term].revision = u.base => Advances(rec[n][p.term].policy, p)
        /\ \A t \in Terms \ {p.term} : ~(rec[n][t].policy.enabled /\ ~rec[n][t].suspended)

Intend(n, u) ==
    /\ u \in post[n]
    /\ post' = [post EXCEPT ![n] = @ \ {u}]
    /\ IF MayIntend(n, u)
       THEN intent' = [intent EXCEPT ![n] = u]
       ELSE UNCHANGED intent
    /\ UNCHANGED <<termVars, place, masterVars, base, rec, receipts>>

\* Mutant: the receipt is sent once the intent is saved, before the governor has it.
EnforceReceiptFirst(n, acknowledged) ==
    /\ intent[n].base = base[n] /\ base[n] > 0
    /\ IF acknowledged
       THEN /\ Cardinality(receipts[n]) < MaxFlight
            /\ receipts' = [receipts EXCEPT ![n] = @ \cup {intent[n]}]
            /\ UNCHANGED rec
       ELSE /\ rec' = [rec EXCEPT ![n][intent[n].policy.term] =
                         [policy |-> intent[n].policy, revision |-> base[n], suspended |-> FALSE]]
            /\ UNCHANGED receipts
    /\ UNCHANGED <<termVars, place, masterVars, base, intent, post>>

\* The rest of ApplyAuthority, or prepareAuthority when the worker restarts in between:
\* then nobody waits for the answer and no receipt is sent.
Enforce(n, acknowledged) ==
    /\ intent[n].base = base[n] /\ base[n] > 0
    /\ rec' = [rec EXCEPT ![n][intent[n].policy.term] =
                 [policy |-> intent[n].policy, revision |-> base[n], suspended |-> FALSE]]
    /\ IF acknowledged
       THEN /\ Cardinality(receipts[n]) < MaxFlight
            /\ receipts' = [receipts EXCEPT ![n] = @ \cup {intent[n]}]
       ELSE UNCHANGED receipts
    /\ UNCHANGED <<termVars, place, masterVars, base, intent, post>>

\* Mutant: a grant with the revision of the record is refused.
AcceptableNewer(n, r) ==
    LET g == deps[n][r].grant
    IN  g.term # 0 => ~rec[n][g.term].suspended /\ rec[n][g.term].policy.rev < g.rev

\* The governor takes the grant of deployment r: never a suspended one, never an older authority.
Acceptable(n, r) ==
    LET g == deps[n][r].grant
    IN  g.term # 0 => ~rec[n][g.term].suspended /\ rec[n][g.term].policy.rev <= g.rev

\* governor.Store.Reconcile: what the deployment leaves out is suspended for good.
Reconciled(n, r) ==
    LET g == deps[n][r].grant
    IN  [t \in Terms |-> IF t = g.term THEN [policy |-> g, revision |-> r, suspended |-> FALSE]
                         ELSE [rec[n][t] EXCEPT !.suspended = @ \/ rec[n][t].revision > 0]]

Deploy(n) ==
    LET r == Desired(n)
    IN  /\ base[n] < r /\ Acceptable(n, r)
        /\ base' = [base EXCEPT ![n] = r]
        /\ rec' = [rec EXCEPT ![n] = Reconciled(n, r)]
        /\ intent' = [intent EXCEPT ![n] = NoUpdate]  \* an intent counts for its own deployment only
        /\ UNCHANGED <<termVars, place, masterVars, netVars>>

-----------------------------------------------------------------------------
(* Results of a deployment: Store.Observe with stage APPLIED               *)

\* acknowledgeConfiguration
ShareAfterResult(n, g) ==
    [t \in Terms |-> IF t = g.term /\ share[n][t].rev = g.rev
                     THEN [share[n][t] EXCEPT !.applied = g.rev, !.outstanding = share[n][t].desired]
                     ELSE share[n][t]]

\* clearAppliedEnabledStops and recordStoppedGrants, for the deployment that is wanted
StopAfterResult(n, r, g) ==
    [t \in Terms |->
        IF t # g.term \/ share[n][t].rev # g.rev THEN stop[n][t]
        ELSE IF g.enabled /\ stop[n][t].dep <= r /\ stop[n][t].rev <= g.rev THEN NoStop
        ELSE IF ~g.enabled /\ g.rate = Blocked THEN [dep |-> r, rev |-> g.rev]
        ELSE stop[n][t]]

\* appliedAuthorityCovers: the deployment says at least what the row said, for the same placement.
Covers(n, r, t) ==
    LET g == deps[n][r].grant
        u == row[n][t].update
    IN  /\ g.term = t /\ u.base \in 1..r - 1
        /\ row[n][t].place = deps[n][r].place
        /\ u.policy.rev <= g.rev /\ (g.enabled => u.policy.enabled)
        /\ u.policy.rev = g.rev => u.policy = g
        /\ g.enabled \/ g.rate = Blocked

\* pruneDeployments
Pruned(d, from) == [i \in DOMAIN d |-> IF i < from THEN NoDeployment ELSE d[i]]

\* A result may be repeated, also after the next deployment has been published.
Observe(n, r) ==
    LET g == deps[n][r].grant
    IN  /\ r \in {applied[n], Desired(n)} /\ r \in 1..base[n]
        /\ share' = [share EXCEPT ![n] = ShareAfterResult(n, g)]
        /\ stop' = IF r = Desired(n) THEN [stop EXCEPT ![n] = StopAfterResult(n, r, g)] ELSE stop
        /\ row' = [row EXCEPT ![n] = [t \in Terms |-> IF Covers(n, r, t) THEN NoRow ELSE row[n][t]]]
        /\ applied' = [applied EXCEPT ![n] = IF r > @ THEN r ELSE @]
        /\ deps' = [deps EXCEPT ![n] = Pruned(@, applied'[n])]
        /\ UNCHANGED <<termVars, place, nodeVars, netVars>>

-----------------------------------------------------------------------------
(* Proofs of a stop                                                        *)

\* requireStoppedGrants, for one grant
StopProved(n, t) ==
    /\ stop[n][t].dep > 0 /\ stop[n][t].rev <= share[n][t].applied
    /\ share[n][t].outstanding = Blocked

\* requireFleetNetworkRetirements and fleetSourceWorkStopped, for one grant
StopSettled(n, t) ==
    /\ StopProved(n, t)
    /\ share[n][t].applied = share[n][t].rev /\ share[n][t].desired = Blocked
    /\ stop[n][t].dep <= applied[n]

-----------------------------------------------------------------------------
(* Initially the stream placements have been published once, without a     *)
(* grant; a native one cannot be published before it is funded             *)

GrantInit ==
    /\ current = 0 /\ pending = 0 /\ expired = FALSE
    /\ term = [t \in Terms |-> "none"]
    /\ place = [n \in Nodes |-> [rev |-> 1, enabled |-> n \notin Native, grant |-> 0]]
    /\ share = [n \in Nodes |-> [t \in Terms |-> NoShare]]
    /\ row = [n \in Nodes |-> [t \in Terms |-> NoRow]]
    /\ stop = [n \in Nodes |-> [t \in Terms |-> NoStop]]
    /\ deps = [n \in Nodes |-> <<[place |-> IF n \in Native THEN 0 ELSE 1, grant |-> NoPolicy]>>]
    /\ applied = [n \in Nodes |-> 1]
    /\ base = [n \in Nodes |-> 1]
    /\ intent = [n \in Nodes |-> NoUpdate]
    /\ rec = [n \in Nodes |-> [t \in Terms |-> NoRecord]]
    /\ post = [n \in Nodes |-> {}]
    /\ receipts = [n \in Nodes |-> {}]
=============================================================================
