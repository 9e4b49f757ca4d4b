--------------------------- MODULE DeploymentSync ---------------------------
(***************************************************************************)
(* How a published configuration reaches a node and is known to be in      *)
(* force.                                                                  *)
(*                                                                         *)
(* The master (internal/controlplane) numbers the configurations of a node *)
(* and keeps the ones it still needs.  The node's agent (internal/node/    *)
(* agent) opens a control stream; BeginSession gives the stream a          *)
(* generation, higher than all before, and only the stream of the highest  *)
(* generation may deliver and record.  The agent stores a deployment,      *)
(* applies it to its runtimes one after the other and reports each stage.  *)
(*                                                                         *)
(* Streams break on one side before the other; handlers of dead streams    *)
(* linger on the master with messages they have not read; agent and        *)
(* workers crash; a runtime may fail half-way; the master's database may   *)
(* be restored from an older snapshot.                                     *)
(***************************************************************************)
EXTENDS Integers, Sequences, FiniteSets

CONSTANTS
    Payloads,     \* configurations
    RuntimeCount, \* how many runtimes the node has; the agent applies them in order
    MaxRevision,  \* bound: revisions published
    MaxStreams,   \* bound: control streams opened
    MaxFaults,    \* bound: broken streams, crashes, failing runtimes
    MaxRestores,  \* bound: restores of the master's database (0 or 1)
    None

ASSUME SyncAssumption ==
    /\ RuntimeCount \in Nat \ {0}
    /\ MaxRevision \in Nat /\ MaxStreams \in Nat /\ MaxFaults \in Nat /\ MaxRestores \in Nat
    /\ None \notin Payloads

Streams == 1 .. MaxStreams
Slots == 1 .. RuntimeCount

VARIABLES
    db,          \* durable: the master's row for the node and its deployments
    backup,      \* a snapshot of db
    restores,    \* how often db was restored
    session,     \* the master's handler of each stream
    registered,  \* the stream in Service.sessions, or 0
    down,        \* messages on each stream, to the node
    up,          \* messages on each stream, to the master
    node,        \* durable: the agent's state store
    conn,        \* memory of the agent: its stream, or 0
    work,        \* memory of the agent: the deployment it is applying
    accepted,    \* durable: the deployment each worker has stored
    force,       \* the deployment each runtime runs
    late,        \* requests to apply that the agent no longer waits for
    opened,      \* how many streams have been opened
    faults

master == <<db, backup, restores, session, registered>>
agent == <<node, conn, work>>
runtimes == <<accepted, force, late>>
vars == <<master, down, up, agent, runtimes, opened, faults>>

Nothing == [rev |-> 0, payload |-> None, gen |-> 0]
Closed == [state |-> "closed", hello |-> None, gen |-> 0, attempted |-> 0,
           pending |-> FALSE, retry |-> FALSE]

Init ==
    /\ db = [desired |-> 0, sent |-> 0, applied |-> 0, generation |-> 0,
             deployments |-> [r \in {} |-> None], fence |-> FALSE]
    /\ backup = None
    /\ restores = 0
    /\ session = [k \in Streams |-> Closed]
    /\ registered = 0
    /\ down = [k \in Streams |-> <<>>]
    /\ up = [k \in Streams |-> <<>>]
    /\ node = [authority |-> 0, desired |-> 0, applied |-> 0, deploys |-> [r \in {} |-> Nothing]]
    /\ conn = 0
    /\ work = None
    /\ accepted = [i \in Slots |-> Nothing]
    /\ force = [i \in Slots |-> Nothing]
    /\ late = {}
    /\ opened = 0
    /\ faults = 0

Kept(f, S) == [x \in DOMAIN f \cap S |-> f[x]]

-----------------------------------------------------------------------------
(***************************************************************************)
(* The master's database.                                                  *)
(***************************************************************************)

\* Mutant: the deployment a session waits for is not kept.
PrunedUnsent(d) == [d EXCEPT !.deployments = Kept(@, {d.desired, d.applied})]

\* Mutant: the three rows are written whether they exist or not.
PrunedPadded(d) ==
    [d EXCEPT !.deployments = [r \in {d.desired, d.applied, d.sent} |->
                                 IF r \in DOMAIN @ THEN @[r] ELSE None]]

\* pruneDeployments: only the desired, the applied and the sent revision stay.
Pruned(d) == [d EXCEPT !.deployments = Kept(@, {d.desired, d.applied, d.sent})]

\* Publishing what is already desired changes nothing.
Publish(p) ==
    /\ ~db.fence /\ db.desired < MaxRevision
    /\ db.desired \in DOMAIN db.deployments => db.deployments[db.desired] # p
    /\ LET r == db.desired + 1
       IN  db' = Pruned([db EXCEPT !.desired = r,
                           !.deployments = [x \in DOMAIN @ \cup {r} |-> IF x = r THEN p ELSE @[x]]])
    /\ UNCHANGED <<backup, restores, session, registered, down, up, agent, runtimes, opened,
                   faults>>

\* The node remembers more than the database does.
IsAhead(hello) ==
    \/ hello.authority > db.generation
    \/ hello.desired > db.desired
    \/ hello.applied > db.desired

\* Handlers whose stream ends leave Service.sessions.
Closing(k) ==
    /\ session' = [session EXCEPT ![k] = Closed]
    /\ registered' = IF registered = k THEN 0 ELSE registered

\* BeginSession: a witness of a rollback raises the recovery fence, which
\* nothing lowers.
BeginSession(k) ==
    /\ session[k].state = "hello"
    /\ \/ /\ db.fence \/ IsAhead(session[k].hello)
          /\ db' = [db EXCEPT !.fence = TRUE]
          /\ Closing(k)
       \/ /\ ~db.fence /\ ~IsAhead(session[k].hello)
          /\ db' = [db EXCEPT !.generation = @ + 1, !.sent = 0]
          /\ session' = [session EXCEPT ![k].state = "begun", ![k].gen = db.generation + 1]
          /\ UNCHANGED registered
    /\ UNCHANGED <<backup, restores, down, up, agent, runtimes, opened, faults>>

\* The handler enters Service.sessions, unless a later one is there already,
\* and announces its generation.
Register(k) ==
    /\ session[k].state = "begun"
    /\ \/ /\ registered # 0 /\ session[registered].gen >= session[k].gen
          /\ session' = [session EXCEPT ![k] = Closed]
          /\ UNCHANGED <<registered, down>>
       \/ /\ registered # 0 => session[registered].gen < session[k].gen
          /\ session' = [s \in Streams |->
                           IF s = k THEN [session[k] EXCEPT !.state = "open"]
                           ELSE IF s = registered THEN Closed ELSE session[s]]
          /\ registered' = k
          /\ down' = [down EXCEPT ![k] = Append(@, [kind |-> "authority", gen |-> session[k].gen])]
    /\ UNCHANGED <<db, backup, restores, up, agent, runtimes, opened, faults>>

\* Delivery refuses every generation but the last.
MayDeliver(d, s) == ~d.fence /\ d.generation = s.gen

\* send(force) in Connect, on a database d and a session s: what becomes of
\* both, and the messages sent.
Sending(d, s, forced) ==
    IF s.pending \/ d.desired = 0
    THEN [db |-> d, session |-> s, out |-> <<>>]
    ELSE LET d2 == Pruned([d EXCEPT !.sent = d.desired])
         IN  IF d.desired = s.attempted /\ ~forced
             THEN [db |-> d2, session |-> s, out |-> <<>>]
             ELSE [db |-> d2,
                   session |-> [s EXCEPT !.attempted = d.desired, !.pending = TRUE, !.retry = FALSE],
                   out |-> <<[kind |-> "deployment", gen |-> s.gen, rev |-> d.desired,
                              payload |-> d.deployments[d.desired]]>>]

\* The first send, the ticker, a wake after Publish, or the retry timer.
Deliver(k, forced) ==
    /\ session[k].state = "open" /\ ~session[k].pending
    /\ forced => session[k].retry
    /\ MayDeliver(db, session[k])
    /\ LET result == Sending(db, session[k], forced)
       IN  /\ result.out # <<>>
           /\ db' = result.db
           /\ session' = [session EXCEPT ![k] = result.session]
           /\ down' = [down EXCEPT ![k] = @ \o result.out]
    /\ UNCHANGED <<backup, restores, registered, up, agent, runtimes, opened, faults>>

\* CheckSession and Delivery end a session of any other generation.
SessionRevoked(k) ==
    /\ session[k].state = "open" /\ ~MayDeliver(db, session[k])
    /\ Closing(k)
    /\ UNCHANGED <<db, backup, restores, down, up, agent, runtimes, opened, faults>>

\* Observe records a result of the last generation about a deployment the
\* database still holds, with the same digest.
MayObserve(d, s, result) ==
    /\ ~d.fence
    /\ d.generation = s.gen /\ result.gen = s.gen
    /\ result.rev \in DOMAIN d.deployments /\ d.deployments[result.rev] = result.payload

\* Mutant: a deployment counts as applied once it is received.
ObservedEarly(d, result) ==
    Pruned([d EXCEPT !.applied =
              IF result.stage # "rejected" /\ result.rev > @ THEN result.rev ELSE @])

Observed(d, result) ==
    Pruned([d EXCEPT !.applied =
              IF result.stage = "applied" /\ result.rev > @ THEN result.rev ELSE @])

\* Mutant: a rejection leaves the deployment pending.
AfterResultStuck(s, result) ==
    [s EXCEPT !.pending = (result.stage # "applied"), !.retry = (result.stage = "rejected")]

\* A final stage ends the wait; a rejection arms the retry timer.
AfterResult(s, result) ==
    [s EXCEPT !.pending = (result.stage = "received"), !.retry = (result.stage = "rejected")]

\* A result for anything but the deployment in hand ends the session; after a
\* final stage the next deployment, if any, is sent at once.
HandleResult(k) ==
    /\ session[k].state = "open" /\ up[k] # <<>>
    /\ up' = [up EXCEPT ![k] = Tail(@)]
    /\ LET result == Head(up[k])
           s == session[k]
       IN  IF result.rev = s.attempted /\ s.pending /\ MayObserve(db, s, result)
           THEN LET next == Sending(Observed(db, result), AfterResult(s, result), FALSE)
                IN  /\ db' = next.db
                    /\ session' = [session EXCEPT ![k] = next.session]
                    /\ down' = [down EXCEPT ![k] = @ \o next.out]
                    /\ UNCHANGED registered
           ELSE Closing(k) /\ UNCHANGED <<db, down>>
    /\ UNCHANGED <<backup, restores, agent, runtimes, opened, faults>>

\* The handler notices that its stream is gone; what it had not read is lost.
HandlerEnds(k) ==
    /\ session[k].state # "closed"
    /\ conn # k
    /\ Closing(k)
    /\ up' = [up EXCEPT ![k] = <<>>]
    /\ UNCHANGED <<db, backup, restores, down, agent, runtimes, opened, faults>>

\* The operator takes a snapshot, and later puts it in place of the database;
\* the master is not serving meanwhile.
Snapshot ==
    /\ restores < MaxRestores /\ backup = None /\ ~db.fence
    /\ backup' = db
    /\ UNCHANGED <<db, restores, session, registered, down, up, agent, runtimes, opened,
                   faults>>

Restore ==
    /\ restores < MaxRestores /\ backup # None
    /\ db' = backup
    /\ restores' = restores + 1
    /\ session' = [k \in Streams |-> Closed]
    /\ registered' = 0
    /\ UNCHANGED <<backup, down, up, agent, runtimes, opened, faults>>

-----------------------------------------------------------------------------
(***************************************************************************)
(* The node.                                                               *)
(***************************************************************************)

Connect ==
    /\ conn = 0 /\ opened < MaxStreams
    /\ opened' = opened + 1 /\ conn' = opened + 1
    /\ session' = [session EXCEPT ![opened + 1] =
         [Closed EXCEPT !.state = "hello",
            !.hello = [authority |-> node.authority, desired |-> node.desired, applied |-> node.applied]]]
    /\ UNCHANGED <<db, backup, restores, registered, down, up, node, work, runtimes, faults>>

\* Control returns; Run opens a new stream.  A worker may still be at the
\* request the agent has given up, and finish it later.
Leave ==
    /\ conn' = 0 /\ work' = None
    /\ \/ UNCHANGED late
       \/ work # None /\ work.next \in Slots /\ late' = late \cup {<<work.next, work.deployment>>}

Send(stage, d) ==
    up' = [up EXCEPT ![conn] =
             Append(@, [stage |-> stage, gen |-> d.gen, rev |-> d.rev, payload |-> d.payload])]

\* Mutant: digests are not compared.
MayReceiveAnything(authority, desired, stored, d) == d.gen >= authority /\ d.rev >= desired

\* Mutant: a store takes any deployment that does not contradict what it has.
MayReceiveUnordered(authority, desired, stored, d) ==
    stored # Nothing => stored.payload = d.payload

\* Store.Receive, on the agent's store and on each worker's.
MayReceive(authority, desired, stored, d) ==
    /\ d.gen >= authority /\ d.rev >= desired
    /\ stored # Nothing => stored.payload = d.payload /\ stored.gen <= d.gen

WorkerMayReceive(i, d) ==
    MayReceive(accepted[i].gen, accepted[i].rev,
               IF accepted[i].rev = d.rev THEN accepted[i] ELSE Nothing, d)

StoredAt(rev) == IF rev \in DOMAIN node.deploys THEN node.deploys[rev] ELSE Nothing

TakeAuthority ==
    /\ conn # 0 /\ work = None /\ down[conn] # <<>> /\ Head(down[conn]).kind = "authority"
    /\ down' = [down EXCEPT ![conn] = Tail(@)]
    /\ LET gen == Head(down[conn]).gen
       IN  IF gen >= node.authority
           THEN node' = [node EXCEPT !.authority = gen] /\ UNCHANGED <<conn, work, late>>
           ELSE Leave /\ UNCHANGED node
    /\ UNCHANGED <<master, up, accepted, force, opened, faults>>

\* The deployment is durable before the master hears of it.
Receive ==
    /\ conn # 0 /\ work = None /\ down[conn] # <<>> /\ Head(down[conn]).kind = "deployment"
    /\ down' = [down EXCEPT ![conn] = Tail(@)]
    /\ LET m == Head(down[conn])
           d == [rev |-> m.rev, payload |-> m.payload, gen |-> m.gen]
       IN  IF MayReceive(node.authority, node.desired, StoredAt(d.rev), d)
           THEN /\ node' = [node EXCEPT !.authority = d.gen, !.desired = d.rev,
                              !.deploys = [x \in (DOMAIN @ \cap {node.applied}) \cup {d.rev} |->
                                             IF x = d.rev THEN d ELSE @[x]]]
                /\ Send("received", d)
                /\ work' = [deployment |-> d, next |-> 1]
                /\ UNCHANGED <<conn, late>>
           ELSE Leave /\ UNCHANGED <<node, up>>
    /\ UNCHANGED <<master, accepted, force, opened, faults>>

\* A worker stores the deployment, then its backend applies it.
ApplyRuntime ==
    /\ work # None /\ work.next \in Slots
    /\ LET d == work.deployment
           i == work.next
       IN  /\ WorkerMayReceive(i, d)
           /\ accepted' = [accepted EXCEPT ![i] = d]
           /\ force' = [force EXCEPT ![i] = d]
           /\ work' = [work EXCEPT !.next = i + 1]
    /\ UNCHANGED <<master, down, up, node, conn, late, opened, faults>>

\* Mutant: the failure of a runtime is not reported.
RejectRuntimeUnreported ==
    /\ work # None /\ work.next \in Slots
    /\ faults < MaxFaults /\ faults' = faults + 1
    /\ Send("applied", work.deployment)
    /\ work' = None
    /\ UNCHANGED <<master, down, node, conn, runtimes, opened>>

\* A runtime refuses: in the validation of all of them, before it has stored
\* the deployment, or after, when its backend may have applied it or not; or
\* the request times out, and the worker is still at it.
RejectRuntime ==
    /\ work # None /\ work.next \in Slots
    /\ LET d == work.deployment
           i == work.next
           may == WorkerMayReceive(i, d)
       IN  /\ \/ ~may /\ UNCHANGED <<runtimes, faults>>
              \/ /\ faults < MaxFaults /\ faults' = faults + 1
                 /\ \/ UNCHANGED runtimes
                    \/ late' = late \cup {<<i, d>>} /\ UNCHANGED <<accepted, force>>
                    \/ /\ may /\ accepted' = [accepted EXCEPT ![i] = d]
                       /\ force' \in {force, [force EXCEPT ![i] = d]}
                       /\ UNCHANGED late
           /\ Send("rejected", d)
    /\ work' = None
    /\ UNCHANGED <<master, down, node, conn, opened>>

\* Store.Applied, then the report.
ReportApplied ==
    /\ work # None /\ work.next = RuntimeCount + 1
    /\ LET d == work.deployment
       IN  IF d.gen = node.authority /\ d.rev = node.desired /\ d.rev >= node.applied
           THEN /\ node' = [node EXCEPT !.applied = d.rev,
                              !.deploys = Kept(@, {x \in DOMAIN @ : x >= d.rev})]
                /\ Send("applied", d)
                /\ work' = None /\ UNCHANGED <<conn, late>>
           ELSE Leave /\ UNCHANGED <<node, up>>
    /\ UNCHANGED <<master, down, accepted, force, opened, faults>>

\* The stream ends where the handler ended it.
StreamClosed ==
    /\ conn # 0 /\ session[conn].state = "closed"
    /\ Leave
    /\ UNCHANGED <<master, down, up, node, accepted, force, opened, faults>>

\* The stream breaks, or the agent crashes, at any point of its work.
AgentLeaves ==
    /\ conn # 0 /\ faults < MaxFaults
    /\ faults' = faults + 1
    /\ Leave
    /\ UNCHANGED <<master, down, up, node, accepted, force, opened>>

\* A request the agent gave up reaches its worker's lock after all.
LateApply(i, d) ==
    /\ <<i, d>> \in late
    /\ late' = late \ {<<i, d>>}
    /\ IF WorkerMayReceive(i, d)
       THEN accepted' = [accepted EXCEPT ![i] = d] /\ force' = [force EXCEPT ![i] = d]
       ELSE UNCHANGED <<accepted, force>>
    /\ UNCHANGED <<master, down, up, agent, opened, faults>>

\* A worker that restarts applies what it has stored.
WorkerRestart(i) ==
    /\ accepted[i] # force[i]
    /\ force' = [force EXCEPT ![i] = accepted[i]]
    /\ late' = {request \in late : request[1] # i}
    /\ UNCHANGED <<master, down, up, agent, accepted, opened, faults>>

-----------------------------------------------------------------------------
Next ==
    \/ \E p \in Payloads : Publish(p)
    \/ \E k \in Streams :
         BeginSession(k) \/ Register(k) \/ Deliver(k, FALSE) \/ Deliver(k, TRUE)
         \/ SessionRevoked(k) \/ HandleResult(k) \/ HandlerEnds(k)
    \/ Snapshot \/ Restore
    \/ Connect \/ TakeAuthority \/ Receive \/ ApplyRuntime \/ RejectRuntime \/ ReportApplied
    \/ StreamClosed \/ AgentLeaves
    \/ \E i \in Slots : WorkerRestart(i)
    \/ \E request \in late : LateApply(request[1], request[2])

Spec == Init /\ [][Next]_vars

\* The master's handlers and timers and the agent's loop run for ever; the
\* agent reconnects after any error.  Faults do not go on without end.
Fairness ==
    /\ \A k \in Streams :
         /\ WF_vars(BeginSession(k)) /\ WF_vars(Register(k)) /\ WF_vars(HandleResult(k))
         /\ WF_vars(Deliver(k, FALSE)) /\ WF_vars(Deliver(k, TRUE))
         /\ WF_vars(SessionRevoked(k)) /\ WF_vars(HandlerEnds(k))
    /\ WF_vars(Connect) /\ WF_vars(TakeAuthority) /\ WF_vars(Receive)
    /\ WF_vars(ApplyRuntime \/ RejectRuntime) /\ WF_vars(ReportApplied) /\ WF_vars(StreamClosed)

FairSpec == Spec /\ Fairness

-----------------------------------------------------------------------------
(***************************************************************************)
(* Properties.                                                             *)
(***************************************************************************)

Deployment == [rev : 0 .. MaxRevision, payload : Payloads \cup {None}, gen : 0 .. MaxStreams]

\* Every variable has its type.
TypeOK ==
    /\ db.desired \in 0 .. MaxRevision /\ db.sent \in 0 .. MaxRevision
    /\ db.applied \in 0 .. MaxRevision /\ db.generation \in 0 .. MaxStreams /\ db.fence \in BOOLEAN
    /\ \A r \in DOMAIN db.deployments : r \in 1 .. MaxRevision /\ db.deployments[r] \in Payloads
    /\ restores \in 0 .. MaxRestores /\ faults \in 0 .. MaxFaults
    /\ registered \in 0 .. MaxStreams /\ conn \in 0 .. MaxStreams /\ opened \in 0 .. MaxStreams
    /\ \A k \in Streams :
         /\ session[k].state \in {"closed", "hello", "begun", "open"}
         /\ session[k].gen \in 0 .. MaxStreams /\ session[k].attempted \in 0 .. MaxRevision
         /\ session[k].pending \in BOOLEAN /\ session[k].retry \in BOOLEAN
    /\ node.authority \in 0 .. MaxStreams
    /\ node.desired \in 0 .. MaxRevision /\ node.applied \in 0 .. MaxRevision
    /\ \A r \in DOMAIN node.deploys : node.deploys[r] \in Deployment
    /\ work # None => work.deployment \in Deployment /\ work.next \in 1 .. RuntimeCount + 1
    /\ accepted \in [Slots -> Deployment] /\ force \in [Slots -> Deployment]
    /\ late \subseteq Slots \X Deployment

Delivery == INSTANCE RevisionDelivery
              WITH Runtimes <- Slots, desired <- db.desired,
                   force <- [i \in Slots |-> force[i].rev], confirmed <- db.applied

\* As long as the database is not restored, the protocol is RevisionDelivery:
\* runtimes only move forwards, and applied_revision is never ahead of one.
DeliveryImplemented == Delivery!Spec

\* applied_revision never claims what is not so, even on a database that was
\* restored and has handed out old revision numbers again: every runtime is
\* there, with the very payload the database has for that revision.
AppliedIsTrue ==
    db.applied # 0 =>
       /\ db.applied \in DOMAIN db.deployments
       /\ \A i \in Slots :
            /\ force[i].rev >= db.applied
            /\ force[i].rev = db.applied => force[i].payload = db.deployments[db.applied]

\* On the node a revision number means one payload: the agent's store, the
\* workers' stores and the runtimes never hold two payloads for a revision
\* (Store.Receive compares digests).
OnePayloadPerRevision ==
    \A i, j \in Slots :
       /\ accepted[i].rev = accepted[j].rev => accepted[i].payload = accepted[j].payload
       /\ accepted[i].rev = force[j].rev => accepted[i].payload = force[j].payload
       /\ accepted[i].rev \in DOMAIN node.deploys =>
             accepted[i].payload = node.deploys[accepted[i].rev].payload

\* No runtime, worker store or agent store goes back to an earlier revision or
\* generation, whatever the master's database is restored to.
NeverBackwards ==
    [][ /\ \A i \in Slots : force[i].rev <= force'[i].rev /\ accepted[i].rev <= accepted'[i].rev
        /\ node.desired <= node'.desired /\ node.applied <= node'.applied
        /\ node.authority <= node'.authority ]_vars

\* The results of a session that still has the authority can all be recorded:
\* Publish and pruneDeployments never take away the deployment a session is
\* waiting for, so no healthy session is ended by its own answer.
ResultsRecordable ==
    \A k \in Streams :
       session[k].state = "open" /\ MayDeliver(db, session[k]) =>
          \A n \in 1 .. Len(up[k]) :
             /\ up[k][n].rev = session[k].attempted /\ session[k].pending
             /\ MayObserve(db, session[k], up[k][n])

\* The stores of master and node stay usable: no two payloads for a revision, and no session
\* that is ended by its own answer.
StoresSound == TypeOK /\ OnePayloadPerRevision /\ ResultsRecordable

\* What is published is in force and known to be in force in the end.
Converges ==
    <>[](/\ db.applied = db.desired
         /\ \A i \in Slots : force[i].rev = db.desired)
=============================================================================
