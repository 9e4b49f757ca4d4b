------------------------------ MODULE Governor ------------------------------
(***************************************************************************)
(* The node's spending authority (internal/node/governor over              *)
(* internal/node/limits).  A runtime worker keeps one durable record per   *)
(* grant in a bbolt file and, while it runs, one in-memory account per     *)
(* record.  Connections admit bytes against the account; before an         *)
(* admission passes the account's durable reservation, the reservation is  *)
(* moved forward on disk, so that a crash burns at most the reserved bytes *)
(* and never hands them out twice.                                         *)
(*                                                                         *)
(* Policies arrive on three paths that interleave with each other, with    *)
(* the connections and with crashes: a deployment (Reconcile, which        *)
(* suspends every grant the deployment no longer lists and then applies    *)
(* the listed ones), an online credit update (ApplyCredit) and an online   *)
(* authority update (ApplyAuthority).                                      *)
(*                                                                         *)
(* A refused call changes nothing and is no step of the model; so is a     *)
(* call whose database write fails, unless earlier writes of the same call *)
(* stay, in which case the prefix that stays is a step.                    *)
(***************************************************************************)
EXTENDS Limits, FiniteSets

CONSTANTS
    Grants,            \* grant identities
    Clients,           \* client identities
    Deployments,       \* the grant lists a deployment may carry, by grant id
    CreditBatches,     \* the online credit updates that may arrive, by grant id
    AuthorityBatches,  \* the online authority updates that may arrive, by grant id
    MaxChunk,          \* the largest single admission request of a connection
    MaxNow,            \* bound on the clock
    None               \* an absent record, account or map entry

GrantInput == [client : Clients, rateRevision : Uint64, policy : Policy]

CreditInput == [client : Clients, term : Terms, policyRevision : Uint64,
                creditRevision : Uint64, creditCeiling : Uint64]

StoredRecord == [client : Clients, rateRevision : Uint64, policy : Policy,
                 reserved : Uint64, suspended : BOOLEAN]

\* A list of inputs, at most one per grant.
IsBatch(batch, Input) ==
    /\ batch = [g \in DOMAIN batch |-> batch[g]]
    /\ DOMAIN batch \subseteq Grants
    /\ \A g \in DOMAIN batch : batch[g] \in Input

ASSUME GovernorAssumption ==
    /\ \A grants \in Deployments : IsBatch(grants, GrantInput)
    /\ \A batch \in CreditBatches : IsBatch(batch, CreditInput)
    /\ \A batch \in AuthorityBatches : IsBatch(batch, GrantInput)
    /\ MaxChunk \in Nat
    /\ MaxNow \in Nat
    /\ None \notin Grants
    /\ None \notin StoredRecord
    /\ None \notin Account

VARIABLES
    record,      \* durable: the grants bucket, by grant id
    accounts,    \* memory: Store.accounts
    clients,     \* memory: Store.clients, the grant that serves a client
    running,     \* the worker process is up
    job,         \* the Reconcile call under way
    now,         \* what the authorization clock shows
    spent,       \* history: bytes admitted on a grant since it was created
    authorised   \* history: the largest ceiling a grant was ever stored with

vars == <<record, accounts, clients, running, job, now, spent, authorised>>

-----------------------------------------------------------------------------
(***************************************************************************)
(* What is on disk.                                                        *)
(***************************************************************************)

\* governor.Validate.
ValidGrant(grant) ==
    /\ grant.policy.authorityRevision # 0
         => grant.rateRevision = grant.policy.authorityRevision
    /\ Validate(grant.policy)

NewRecord(grant) ==
    [client |-> grant.client, rateRevision |-> grant.rateRevision,
     policy |-> grant.policy, reserved |-> 0, suspended |-> FALSE]

\* Mutant: a new policy starts a new reservation.
WithPolicyFresh(r, p) ==
    [r EXCEPT !.policy = p, !.reserved = 0,
              !.rateRevision = IF p.authorityRevision # 0
                               THEN p.authorityRevision ELSE @]

\* backing.StorePolicy: the write, and the condition under which it commits.
WithPolicy(r, p) ==
    [r EXCEPT !.policy = p,
              !.rateRevision = IF p.authorityRevision # 0
                               THEN p.authorityRevision ELSE @]

StorePolicyAllowed(r, p) ==
    /\ r.policy.term = p.term
    /\ p.authorityRevision >= r.policy.authorityRevision
    /\ \/ p.revision > r.policy.revision
       \/ CreditAdvance(r.policy, p)
       \/ AuthorityAdvance(r.policy, p)

\* Account.applyLocked: the account takes p, the record first.
PolicyApplies(g, p) ==
    /\ PolicyFollows(accounts[g].policy, p)
    /\ p # accounts[g].policy => StorePolicyAllowed(record[g], p)

\* Mutant: the policy is changed in memory only.
RecordAfterMemoryOnly(g, p) == record[g]

RecordAfter(g, p) ==
    IF p = accounts[g].policy THEN record[g] ELSE WithPolicy(record[g], p)

AccountAfter(g, p) == [accounts[g] EXCEPT !.policy = p]

\* The authority a policy gives: everything when the quota is unlimited.
CeilingOf(p) == IF p.quotaUnlimited THEN MaxUint64 ELSE p.creditCeiling

-----------------------------------------------------------------------------
(***************************************************************************)
(* The process: Open restores every account from its record, with the      *)
(* whole reservation counted as spent.                                     *)
(***************************************************************************)

Serving(g, c) ==
    /\ record[g] # None
    /\ record[g].client = c /\ record[g].policy.enabled /\ ~record[g].suspended

\* Open refuses a file with an invalid record or with two grants that serve
\* one client.
OpenAllowed ==
    /\ \A g \in Grants : record[g] # None => ValidGrant(record[g])
    /\ \A c \in Clients : \A g, h \in Grants : Serving(g, c) /\ Serving(h, c) => g = h

RestoreAll ==
    [g \in Grants |->
        IF record[g] = None THEN None
        ELSE Restore(record[g].policy, record[g].reserved, record[g].suspended)]

ServingMap ==
    [c \in Clients |-> IF \E g \in Grants : Serving(g, c)
                       THEN CHOOSE g \in Grants : Serving(g, c) ELSE None]

Idle == [step |-> "idle", todo |-> <<>>]

Init ==
    /\ record = [g \in Grants |-> None]
    /\ accounts = [g \in Grants |-> None]
    /\ clients = [c \in Clients |-> None]
    /\ running = FALSE
    /\ job = Idle
    /\ now = 0
    /\ spent = [g \in Grants |-> 0]
    /\ authorised = [g \in Grants |-> 0]

Open ==
    /\ ~running /\ OpenAllowed
    /\ running' = TRUE
    /\ accounts' = RestoreAll
    /\ clients' = ServingMap
    /\ UNCHANGED <<record, job, now, spent, authorised>>

\* The process dies at any point; what it held in memory is gone.
Crash ==
    /\ running
    /\ running' = FALSE
    /\ accounts' = [g \in Grants |-> None]
    /\ clients' = [c \in Clients |-> None]
    /\ job' = Idle
    /\ UNCHANGED <<record, now, spent, authorised>>

Tick ==
    /\ now < MaxNow
    /\ now' = now + 1
    /\ UNCHANGED <<record, accounts, clients, running, job, spent, authorised>>

-----------------------------------------------------------------------------
(***************************************************************************)
(* The connections.  They hold an account since they looked it up, so they *)
(* are not stopped by the clients map, only by the account itself.  They   *)
(* take the account's mutex and never the store's: they interleave with    *)
(* every step of a Reconcile.                                              *)
(***************************************************************************)

\* backing.Reserve: whether total bytes may be admitted, and the record and
\* the backing's mark after it.
ReserveAllowed(g, p, total) ==
    \/ total <= accounts[g].reserved
    \/ /\ ~record[g].suspended
       /\ record[g].policy = p
       /\ record[g].reserved <= NextReservation(p, total)
       /\ ~p.quotaUnlimited => total <= p.creditCeiling

ReservedAfter(g, p, total) ==
    IF total <= accounts[g].reserved THEN record[g].reserved ELSE NextReservation(p, total)

BackingAfter(g, p, total) ==
    IF total <= accounts[g].reserved THEN accounts[g].reserved ELSE NextReservation(p, total)

Take(g, dir, requested, partial) ==
    LET a == accounts[g]
        p == a.policy
        n == IF partial THEN UpTo(a, dir, requested) ELSE requested
        total == Total(a) + n
    IN  /\ a # None
        /\ partial => Allowed(a, dir, 1, now)
        /\ Allowed(a, dir, n, now)
        /\ FitsBurst(a, dir, n)
        /\ ReserveAllowed(g, p, total)
        /\ record' = [record EXCEPT ![g].reserved = ReservedAfter(g, p, total)]
        /\ accounts' = [accounts EXCEPT ![g] =
               [Admit(a, dir, n) EXCEPT !.reserved = BackingAfter(g, p, total)]]
        /\ spent' = [spent EXCEPT ![g] = @ + n]
        /\ UNCHANGED <<clients, running, job, now, authorised>>

\* The bytes really written are measured after the write; a failed write
\* measures less than was admitted and refunds nothing.
Measure(g, dir, n) ==
    /\ accounts[g] # None
    /\ accounts' = [accounts EXCEPT ![g] = Record(@, dir, n)]
    /\ UNCHANGED <<record, clients, running, job, now, spent, authorised>>

-----------------------------------------------------------------------------
(***************************************************************************)
(* Reconcile.  The suspension of every grant that is not wanted is one     *)
(* transaction; the accounts are quarantined after it committed, under the *)
(* store's mutex; the wanted grants are then applied one at a time, the    *)
(* mutex released between them.  The worker runs one Reconcile at a time.  *)
(***************************************************************************)

StoreLocked == job.step = "quarantine"

DistinctClients(grants) ==
    \A g, h \in DOMAIN grants : grants[g].client = grants[h].client => g = h

Reconcile(grants) ==
    /\ running /\ job.step = "idle"
    /\ \A g \in DOMAIN grants : ValidGrant(grants[g])
    /\ DistinctClients(grants)
    /\ record' = [g \in Grants |->
                    IF accounts[g] # None /\ g \notin DOMAIN grants
                    THEN [record[g] EXCEPT !.suspended = TRUE] ELSE record[g]]
    /\ job' = [step |-> "quarantine", todo |-> grants]
    /\ UNCHANGED <<accounts, clients, running, now, spent, authorised>>

\* Mutant: Reconcile suspends on disk and leaves the running accounts alone.
QuarantineDiskOnly ==
    /\ job.step = "quarantine"
    /\ clients' = [c \in Clients |->
                      IF clients[c] \in DOMAIN job.todo THEN clients[c] ELSE None]
    /\ job' = IF DOMAIN job.todo = {} THEN Idle ELSE [job EXCEPT !.step = "apply"]
    /\ UNCHANGED <<record, accounts, running, now, spent, authorised>>

\* Mutant: Reconcile leaves the clients map alone.
QuarantineKeepsClients ==
    /\ job.step = "quarantine"
    /\ accounts' = [g \in Grants |->
                      IF accounts[g] # None /\ g \notin DOMAIN job.todo
                      THEN [accounts[g] EXCEPT !.quarantined = TRUE] ELSE accounts[g]]
    /\ job' = IF DOMAIN job.todo = {} THEN Idle ELSE [job EXCEPT !.step = "apply"]
    /\ UNCHANGED <<record, clients, running, now, spent, authorised>>

QuarantineUnwanted ==
    /\ job.step = "quarantine"
    /\ accounts' = [g \in Grants |->
                      IF accounts[g] # None /\ g \notin DOMAIN job.todo
                      THEN [accounts[g] EXCEPT !.quarantined = TRUE] ELSE accounts[g]]
    /\ clients' = [c \in Clients |->
                      IF clients[c] \in DOMAIN job.todo THEN clients[c] ELSE None]
    /\ job' = IF DOMAIN job.todo = {} THEN Idle ELSE [job EXCEPT !.step = "apply"]
    /\ UNCHANGED <<record, running, now, spent, authorised>>

\* Store.Apply of one grant: an account that exists takes the policy (with
\* its online credit retained), else a record and an account are created.
ApplyAllowed(g, grant) ==
    /\ ValidGrant(grant)
    /\ grant.policy.enabled => clients[grant.client] \in {None, g}
    /\ record[g] # None => /\ record[g].client = grant.client
                           /\ record[g].policy.term = grant.policy.term
                           /\ ~record[g].suspended
    /\ accounts[g] # None => PolicyApplies(g, RetainCredit(grant.policy, accounts[g].policy))

Apply(g, grant) ==
    LET p == IF accounts[g] = None THEN grant.policy
             ELSE RetainCredit(grant.policy, accounts[g].policy)
    IN  /\ ApplyAllowed(g, grant)
        /\ record' = [record EXCEPT ![g] =
                        IF accounts[g] = None THEN NewRecord(grant) ELSE RecordAfter(g, p)]
        /\ accounts' = [accounts EXCEPT ![g] =
                          IF @ = None THEN Restore(p, 0, FALSE) ELSE AccountAfter(g, p)]
        /\ clients' = [clients EXCEPT ![grant.client] =
                         IF p.enabled THEN g ELSE IF @ = g THEN None ELSE @]
        /\ authorised' = [authorised EXCEPT ![g] = Greatest(@, CeilingOf(p))]

\* The next wanted grant, in any order of the deployment's list.
ReconcileApply(g) ==
    LET rest == [h \in DOMAIN job.todo \ {g} |-> job.todo[h]]
    IN  /\ job.step = "apply"
        /\ g \in DOMAIN job.todo
        /\ Apply(g, job.todo[g])
        /\ job' = IF DOMAIN rest = {} THEN Idle ELSE [job EXCEPT !.todo = rest]
        /\ UNCHANGED <<running, now, spent>>

\* A grant is refused or its write fails: Reconcile returns with the grants
\* before it applied.
ReconcileFail ==
    /\ job.step = "apply"
    /\ job' = Idle
    /\ UNCHANGED <<record, accounts, clients, running, now, spent, authorised>>

-----------------------------------------------------------------------------
(***************************************************************************)
(* Online updates.  A batch is validated as a whole and then applied one   *)
(* grant at a time; it may stop after any of them (a cancelled context, a  *)
(* failed write, a grant the account refuses), so done is the part of the  *)
(* batch that stays.                                                       *)
(***************************************************************************)

CreditPolicy(g, credit) ==
    [accounts[g].policy EXCEPT !.creditRevision = credit.creditRevision,
                               !.creditCeiling = credit.creditCeiling]

ValidCredit(credit) ==
    /\ credit.policyRevision \in 1 .. MaxInt64
    /\ credit.creditRevision \in 1 .. MaxInt64
    /\ credit.creditCeiling \in 1 .. MaxInt64

CreditBatchAllowed(batch) ==
    /\ DOMAIN batch # {}
    /\ \A g \in DOMAIN batch :
         /\ ValidCredit(batch[g])
         /\ record[g] # None /\ accounts[g] # None
         /\ ~record[g].suspended
         /\ record[g].client = batch[g].client
         /\ record[g].policy.term = batch[g].term
         /\ record[g].policy.revision = batch[g].policyRevision

\* Account.ApplyCredit on one account; a replay of the same credit is accepted.
CreditApplies(g, credit) ==
    LET p == CreditPolicy(g, credit)
        q == accounts[g].policy
    IN  /\ q.term = credit.term
        /\ q.revision = credit.policyRevision
        /\ p # q =>
             /\ CreditAdvance(q, p)
             /\ ~accounts[g].quarantined /\ p.enabled
             /\ \E dir \in Direction : RateOf(p, dir).mode # "Blocked"
             /\ ~Expired(p, now)
             /\ PolicyApplies(g, p)

ApplyCredit(batch, done) ==
    /\ running /\ ~StoreLocked
    /\ CreditBatchAllowed(batch)
    /\ \A g \in done : CreditApplies(g, batch[g])
    /\ record' = [g \in Grants |->
                    IF g \in done THEN RecordAfter(g, CreditPolicy(g, batch[g]))
                                  ELSE record[g]]
    /\ accounts' = [g \in Grants |->
                      IF g \in done THEN AccountAfter(g, CreditPolicy(g, batch[g]))
                                    ELSE accounts[g]]
    /\ authorised' = [g \in Grants |->
                        IF g \in done
                        THEN Greatest(authorised[g], CeilingOf(CreditPolicy(g, batch[g])))
                        ELSE authorised[g]]
    /\ UNCHANGED <<clients, running, job, now, spent>>

\* Mutant: an update that creates a grant does not ask who serves the client.
AuthorityAllowedUnserved(g, update) ==
    /\ ValidGrant(update)
    /\ ~update.policy.enabled =>
         \A dir \in Direction : RateOf(update.policy, dir).mode = "Blocked"
    /\ record[g] # None =>
         /\ ~record[g].suspended
         /\ record[g].client = update.client
         /\ record[g].policy.term = update.policy.term
         /\ accounts[g] # None /\ ~accounts[g].quarantined
         /\ MergeAllowed(accounts[g].policy, update.policy)
    /\ record[g] = None => MergeAllowed(update.policy, update.policy)
    /\ update.policy.enabled => ~Expired(update.policy, now)

\* validateAuthorityLocked for one update.
AuthorityAllowed(g, update) ==
    /\ ValidGrant(update)
    /\ ~update.policy.enabled =>
         \A dir \in Direction : RateOf(update.policy, dir).mode = "Blocked"
    /\ record[g] # None =>
         /\ ~record[g].suspended
         /\ record[g].client = update.client
         /\ record[g].policy.term = update.policy.term
         /\ accounts[g] # None /\ ~accounts[g].quarantined
         /\ MergeAllowed(accounts[g].policy, update.policy)
    /\ record[g] = None =>
         /\ clients[update.client] = None
         /\ MergeAllowed(update.policy, update.policy)
    /\ update.policy.enabled => ~Expired(update.policy, now)

AuthorityPolicy(g, update) ==
    IF accounts[g] = None THEN update.policy
    ELSE MergeAuthority(accounts[g].policy, update.policy)

AuthorityApplies(g, update) ==
    accounts[g] # None => PolicyApplies(g, AuthorityPolicy(g, update))

ApplyAuthority(batch, done) ==
    /\ running /\ ~StoreLocked
    /\ DOMAIN batch # {} /\ DistinctClients(batch)
    /\ \A g \in DOMAIN batch : AuthorityAllowed(g, batch[g])
    /\ \A g \in done : AuthorityApplies(g, batch[g])
    /\ record' = [g \in Grants |->
                    IF g \notin done THEN record[g]
                    ELSE IF accounts[g] = None THEN NewRecord(batch[g])
                    ELSE RecordAfter(g, AuthorityPolicy(g, batch[g]))]
    /\ accounts' = [g \in Grants |->
                      IF g \notin done THEN accounts[g]
                      ELSE IF accounts[g] = None THEN Restore(batch[g].policy, 0, FALSE)
                      ELSE AccountAfter(g, AuthorityPolicy(g, batch[g]))]
    /\ clients' = [c \in Clients |->
                     IF \E g \in done : batch[g].client = c /\ batch[g].policy.enabled
                     THEN CHOOSE g \in done : batch[g].client = c /\ batch[g].policy.enabled
                     ELSE IF clients[c] \in done /\ batch[clients[c]].client = c
                     THEN None
                     ELSE clients[c]]
    /\ authorised' = [g \in Grants |->
                        IF g \in done
                        THEN Greatest(authorised[g], CeilingOf(AuthorityPolicy(g, batch[g])))
                        ELSE authorised[g]]
    /\ UNCHANGED <<running, job, now, spent>>

-----------------------------------------------------------------------------
Next ==
    \/ Open
    \/ Crash
    \/ Tick
    \/ \E g \in Grants, dir \in Direction, n \in 1 .. MaxChunk, partial \in BOOLEAN :
         Take(g, dir, n, partial)
    \/ \E g \in Grants, dir \in Direction, n \in 1 .. MaxChunk : Measure(g, dir, n)
    \/ \E grants \in Deployments : Reconcile(grants)
    \/ QuarantineUnwanted
    \/ \E g \in Grants : ReconcileApply(g)
    \/ ReconcileFail
    \/ \E batch \in CreditBatches : \E done \in SUBSET DOMAIN batch : ApplyCredit(batch, done)
    \/ \E batch \in AuthorityBatches : \E done \in SUBSET DOMAIN batch : ApplyAuthority(batch, done)

Spec == Init /\ [][Next]_vars

-----------------------------------------------------------------------------
(***************************************************************************)
(* Properties.                                                             *)
(***************************************************************************)

\* Every variable keeps its type; no counter leaves the range of uint64, so
\* the overflow tests of Account.allowed and backing.Reserve are sufficient.
TypeOK ==
    /\ record \in [Grants -> StoredRecord \cup {None}]
    /\ accounts \in [Grants -> Account \cup {None}]
    /\ clients \in [Clients -> Grants \cup {None}]
    /\ running \in BOOLEAN
    /\ job = [step |-> job.step, todo |-> job.todo]
    /\ job.step \in {"idle", "quarantine", "apply"}
    /\ IsBatch(job.todo, GrantInput)
    /\ now \in 0 .. MaxNow
    /\ spent \in [Grants -> Uint64]
    /\ authorised \in [Grants -> Uint64]

\* Over all lives of the process, and whatever the order of deployments,
\* credit updates, authority updates and crashes, a grant never admits more
\* bytes than the largest ceiling it was ever stored with.
NoOverspend == \A g \in Grants : spent[g] <= authorised[g]

\* The durable reservation is never behind the bytes admitted since the grant
\* was created: restarting from the record cannot hand bytes out twice.
ReservationCoversSpend ==
    \A g \in Grants : IF record[g] = None THEN spent[g] = 0 ELSE spent[g] <= record[g].reserved

\* The two conditions under which Store.Authority refuses to report a grant
\* never arise: disk and memory hold the same policy, and the admitted bytes
\* are within the durable reservation.
AuthorityReportable ==
    \A g \in Grants : accounts[g] # None =>
        /\ record[g] # None
        /\ record[g].policy = accounts[g].policy
        /\ Total(accounts[g]) <= record[g].reserved

\* A crash burns at most one reservation block of a grant's credit: the
\* reservation never runs further ahead of the admitted bytes.
BoundedBurn ==
    \A g \in Grants : accounts[g] # None =>
        record[g].reserved <= Total(accounts[g]) + MaximumReservationBlock

\* A grant's account and its record stay in step through updates and crashes: the reservation
\* covers what was admitted and is at most a block ahead, and the policies agree.
AccountsSound == TypeOK /\ ReservationCoversSpend /\ AuthorityReportable /\ BoundedBurn

\* The file can always be opened again: every record validates and no two
\* grants serve one client, also when the process dies inside an update.
Reopenable == OpenAllowed

\* Outside the store's critical section, Lookup finds for a client exactly
\* the enabled, unsuspended grant on disk.
LookupServesDurableGrant == running /\ ~StoreLocked => clients = ServingMap

\* Nothing a deployment, a credit update, an authority update or a restart
\* does moves a stored grant back: the revisions, the reservation and (once
\* credit is versioned) the ceiling only grow, and a suspended record is final.
AuthorityNeverRegresses ==
    [][\A g \in Grants : record[g] # None =>
         LET r == record[g]
             s == record'[g]
         IN  /\ s # None
             /\ s.client = r.client /\ s.policy.term = r.policy.term
             /\ s.policy.revision >= r.policy.revision
             /\ s.policy.authorityRevision >= r.policy.authorityRevision
             /\ s.policy.creditRevision >= r.policy.creditRevision
             /\ r.policy.creditRevision # 0 => s.policy.creditCeiling >= r.policy.creditCeiling
             /\ s.reserved >= r.reserved
             /\ r.suspended => s = r]_vars

\* A suspended grant admits no byte once Reconcile has quarantined its
\* account, not even after a restart: its connections stay silent for good.
SuspendedStaysSilent ==
    [][\A g \in Grants :
         record[g] # None /\ record[g].suspended /\ ~StoreLocked => spent'[g] = spent[g]]_vars
=============================================================================
