------------------------ MODULE DeploymentSyncProofs ------------------------
(***************************************************************************)
(* Proofs about DeploymentSync, for any number of runtimes, revisions,     *)
(* streams, faults and restores of the master's database.                  *)
(*                                                                         *)
(* Three arguments carry the results.  On the node (NodeSound) a revision  *)
(* number means one payload, because a new deployment is at or above the   *)
(* last revision received and agrees with what is stored there; so a       *)
(* runtime that has reached a deployment stays there or above (Reached),   *)
(* and what the master records stays true, also in its snapshot.  Between  *)
(* master and node (ChannelSound) a stream carries one deployment at a     *)
(* time: it is in the message down, in the agent's hands, or in the        *)
(* answers up.  On the master (MasterSound) the rows it still needs are    *)
(* kept, and every stream takes at most one generation.                    *)
(***************************************************************************)
EXTENDS DeploymentSync, FiniteSetTheorems, SequenceTheorems, TLAPS

Revisions == 1 .. MaxRevision
Held == [rev : Revisions, payload : Payloads, gen : Streams]
Maps(V) == UNION {[S -> V] : S \in SUBSET Revisions}

Row ==
    [desired : 0 .. MaxRevision, sent : 0 .. MaxRevision, applied : 0 .. MaxRevision,
     generation : 0 .. MaxStreams, deployments : Maps(Payloads), fence : BOOLEAN]
Hello == [authority : 0 .. MaxStreams, desired : 0 .. MaxRevision, applied : 0 .. MaxRevision]
Handler ==
    [state : {"closed", "hello", "begun", "open"}, hello : Hello \cup {None},
     gen : 0 .. MaxStreams, attempted : 0 .. MaxRevision, pending : BOOLEAN, retry : BOOLEAN]
Announcement == [kind : {"authority"}, gen : Streams]
Order == [kind : {"deployment"}, gen : Streams, rev : Revisions, payload : Payloads]
Answer ==
    [stage : {"received", "rejected", "applied"}, gen : Streams, rev : Revisions,
     payload : Payloads]
Store ==
    [authority : 0 .. MaxStreams, desired : 0 .. MaxRevision, applied : 0 .. MaxRevision,
     deploys : Maps(Held)]
Task == [deployment : Held, next : 1 .. RuntimeCount + 1]

\* What TypeOK says and, for every record, function and queue, its shape.
Shape ==
    /\ db \in Row /\ (backup # None => backup \in Row)
    /\ restores \in 0 .. MaxRestores /\ faults \in 0 .. MaxFaults
    /\ registered \in 0 .. MaxStreams /\ conn \in 0 .. MaxStreams /\ opened \in 0 .. MaxStreams
    /\ session \in [Streams -> Handler]
    /\ down \in [Streams -> Seq(Announcement \cup Order)]
    /\ up \in [Streams -> Seq(Answer)]
    /\ node \in Store
    /\ work # None => work \in Task
    /\ accepted \in [Slots -> Held \cup {Nothing}] /\ force \in [Slots -> Held \cup {Nothing}]
    /\ late \subseteq Slots \X Held

\* A row keeps the deployments it names.
RowSound(d) ==
    /\ d.sent <= d.desired /\ d.applied <= d.desired
    /\ DOMAIN d.deployments \subseteq 1 .. d.desired
    /\ {d.desired, d.applied, d.sent} \ {0} \subseteq DOMAIN d.deployments

Waiting == {k \in Streams : session[k].state = "hello"}

\* Every stream takes at most one generation, and one handler is open.
MasterSound ==
    /\ RowSound(db) /\ (backup # None => RowSound(backup))
    /\ db.generation + Cardinality(Waiting) <= opened
    /\ backup # None => backup.generation <= opened
    /\ \A k \in Streams :
         /\ session[k].state = "open" <=> registered = k
         /\ session[k].state \in {"begun", "open"} => session[k].gen \in 1 .. db.generation
         /\ k > opened => session[k].state = "closed"

\* The deployments the node holds.
OnNode(d) ==
    \/ \E i \in Slots : d = accepted[i] \/ d = force[i]
    \/ \E r \in DOMAIN node.deploys : d = node.deploys[r]
    \/ work # None /\ d = work.deployment
    \/ \E i \in Slots : <<i, d>> \in late

\* A revision number means one payload, none is above the last one received,
\* and a runtime is never ahead of its worker's store.
NodeSound ==
    /\ \A d \in Held \cup {Nothing} : OnNode(d) => d.rev <= node.desired
    /\ \A d, e \in Held \cup {Nothing} : OnNode(d) /\ OnNode(e) /\ d.rev = e.rev => d.payload = e.payload
    /\ \A r \in DOMAIN node.deploys : node.deploys[r].rev = r
    /\ node.desired # 0 => node.desired \in DOMAIN node.deploys
    /\ \A i \in Slots : force[i].rev <= accepted[i].rev

\* In f, runtime i has reached revision r with payload p, or is beyond it.
Reached(f, i, r, p) == f[i].rev >= r /\ (f[i].rev = r => f[i].payload = p)

\* What was reached is known to be so: by the agent at work, in its answers,
\* in the database and in its snapshot.
RowTrue(f, d) ==
    d.applied # 0 => \A i \in Slots : Reached(f, i, d.applied, d.deployments[d.applied])
ReachedSound ==
    /\ work # None =>
         \A i \in 1 .. work.next - 1 : Reached(force, i, work.deployment.rev, work.deployment.payload)
    /\ \A k \in Streams : \A n \in 1 .. Len(up[k]) :
         up[k][n].stage = "applied" =>
            \A i \in Slots : Reached(force, i, up[k][n].rev, up[k][n].payload)
    /\ RowTrue(force, db) /\ (backup # None => RowTrue(force, backup))

\* The deployment x (a message, the agent's work or an answer) is the one the
\* handler s waits for, and the database d still has it.
Awaited(d, s, x) ==
    /\ s.pending /\ x.rev = s.attempted /\ x.gen = s.gen
    /\ MayDeliver(d, s) => x.payload = d.deployments[s.attempted]

\* A stream carries one deployment at a time: with the row d, the open handler
\* s, the messages dn down and u up, and the work w in the agent's hands.
Live(d, s, dn, u, w) ==
    /\ s.pending /\ MayDeliver(d, s) => s.attempted = d.sent /\ d.sent # 0
    /\ \A n \in 1 .. Len(dn) :
         dn[n].kind = "deployment" => Awaited(d, s, dn[n]) /\ n = Len(dn) /\ u = <<>> /\ w = None
    /\ w # None => Awaited(d, s, w.deployment) /\ \A n \in 1 .. Len(u) : u[n].stage = "received"
    /\ \A n \in 1 .. Len(u) : Awaited(d, s, u[n]) /\ (u[n].stage # "received" => n = Len(u))

InHand(k) == IF conn = k THEN work ELSE None

\* Nothing is on a stream before its handler is open.
ChannelSound ==
    \A k \in Streams :
       /\ session[k].state \in {"hello", "begun"} \/ k > opened => down[k] = <<>> /\ up[k] = <<>>
       /\ session[k].state \in {"hello", "begun"} => ~session[k].pending
       /\ session[k].state = "open" => Live(db, session[k], down[k], up[k], InHand(k))

\* The agent works on a stream that was open.
AgentSound ==
    /\ work # None => conn # 0
    /\ conn # 0 => conn <= opened
    /\ conn # 0 /\ work # None => session[conn].state \in {"open", "closed"}

\* As long as the database was not restored, nothing is ahead of it.
Behind ==
    restores = 0 =>
       /\ node.desired <= db.desired
       /\ \A k \in Streams : \A n \in 1 .. Len(down[k]) :
            down[k][n].kind = "deployment" => down[k][n].rev <= db.desired

Inv ==
    /\ Shape /\ MasterSound /\ NodeSound /\ ReachedSound
    /\ ChannelSound /\ AgentSound /\ Behind

-----------------------------------------------------------------------------
(***************************************************************************)
(* The operators.                                                          *)
(***************************************************************************)

\* A function into V on some of the revisions.
LEMMA MapsFacts ==
    ASSUME NEW V, NEW f
    PROVE  f \in Maps(V) <=> DOMAIN f \subseteq Revisions /\ f \in [DOMAIN f -> V]
BY DEF Maps

\* Keeping some of a map.
LEMMA KeptFacts ==
    ASSUME NEW V, NEW f \in Maps(V), NEW S
    PROVE  /\ Kept(f, S) \in Maps(V)
           /\ DOMAIN Kept(f, S) = DOMAIN f \cap S
           /\ \A r \in DOMAIN f \cap S : Kept(f, S)[r] = f[r]
<1>1. DOMAIN f \subseteq Revisions /\ f \in [DOMAIN f -> V]
  BY MapsFacts
<1>2. DOMAIN Kept(f, S) \subseteq Revisions /\ Kept(f, S) \in [DOMAIN Kept(f, S) -> V]
  BY <1>1 DEF Kept
<1> QED BY <1>2, MapsFacts DEF Kept

\* pruneDeployments touches the deployments alone, and keeps three of them.
LEMMA PrunedFacts ==
    ASSUME NEW d \in Row
    PROVE  /\ Pruned(d) \in Row
           /\ Pruned(d).desired = d.desired /\ Pruned(d).sent = d.sent
           /\ Pruned(d).applied = d.applied /\ Pruned(d).generation = d.generation
           /\ Pruned(d).fence = d.fence
           /\ DOMAIN Pruned(d).deployments = DOMAIN d.deployments \cap {d.desired, d.applied, d.sent}
           /\ \A r \in DOMAIN Pruned(d).deployments : Pruned(d).deployments[r] = d.deployments[r]
<1> DEFINE three == {d.desired, d.applied, d.sent}
           kept == Kept(d.deployments, three)
<1>1. d.deployments \in Maps(Payloads)
  BY DEF Row
<1>2. /\ kept \in Maps(Payloads)
      /\ DOMAIN kept = DOMAIN d.deployments \cap three
      /\ \A r \in DOMAIN d.deployments \cap three : kept[r] = d.deployments[r]
  <2> HIDE DEF three
  <2> QED BY <1>1, KeptFacts
<1>3. Pruned(d) = [d EXCEPT !.deployments = kept]
  BY DEF Pruned
<1> HIDE DEF kept
<1>4. Pruned(d).deployments = kept
  BY <1>3 DEF Row
<1> QED BY <1>2, <1>3, <1>4 DEF Row

\* A pruned row is sound when the row names only what it has.
LEMMA PrunedSound ==
    ASSUME NEW d \in Row, RowSound(d)
    PROVE  /\ RowSound(Pruned(d))
           /\ \A r \in {d.desired, d.applied, d.sent} \ {0} :
                Pruned(d).deployments[r] = d.deployments[r]
BY PrunedFacts DEF RowSound

\* What send makes of a row d and a handler s: nothing is sent, or the desired
\* deployment, which the row then names as sent.
Dispatched(d, s, r) ==
    /\ r.db \in Row /\ RowSound(r.db)
    /\ r.db.desired = d.desired /\ r.db.applied = d.applied
    /\ r.db.generation = d.generation /\ r.db.fence = d.fence
    /\ d.applied # 0 => r.db.deployments[d.applied] = d.deployments[d.applied]
    /\ r.session \in Handler /\ r.session.gen = s.gen /\ r.session.state = s.state
    /\ \/ r.out = <<>> /\ r.session = s /\ (s.pending => r.db = d)
       \/ /\ ~s.pending /\ r.session.pending /\ d.desired # 0
          /\ r.session.attempted = d.desired /\ r.db.sent = d.desired
          /\ \E m \in Order : /\ r.out = <<m>> /\ m.rev = d.desired /\ m.gen = s.gen
                              /\ m.payload = r.db.deployments[d.desired]

\* send in Connect does just that.
LEMMA SendingFacts ==
    ASSUME NEW d \in Row, RowSound(d), NEW s \in Handler, s.gen \in Streams, NEW forced \in BOOLEAN
    PROVE  Dispatched(d, s, Sending(d, s, forced))
<1> DEFINE r == Sending(d, s, forced)
           d1 == [d EXCEPT !.sent = d.desired]
           d2 == Pruned(d1)
           s2 == [s EXCEPT !.attempted = d.desired, !.pending = TRUE, !.retry = FALSE]
           m == [kind |-> "deployment", gen |-> s.gen, rev |-> d.desired,
                 payload |-> d.deployments[d.desired]]
<1>1. CASE s.pending \/ d.desired = 0
  <2>1. r = [db |-> d, session |-> s, out |-> <<>>]
    BY <1>1 DEF Sending
  <2> QED BY <1>1, <2>1 DEF Dispatched
<1>2. CASE ~(s.pending \/ d.desired = 0)
  <2>1. /\ d1 \in Row /\ RowSound(d1)
        /\ d1.desired = d.desired /\ d1.sent = d.desired /\ d1.applied = d.applied
        /\ d1.generation = d.generation /\ d1.fence = d.fence /\ d1.deployments = d.deployments
    BY DEF Row, RowSound
  <2> HIDE DEF d1
  <2>2. /\ d2 \in Row /\ RowSound(d2)
        /\ d2.desired = d.desired /\ d2.sent = d.desired /\ d2.applied = d.applied
        /\ d2.generation = d.generation /\ d2.fence = d.fence
        /\ d.applied # 0 => d2.deployments[d.applied] = d.deployments[d.applied]
        /\ d2.deployments[d.desired] = d.deployments[d.desired]
    BY <1>2, <2>1, PrunedFacts, PrunedSound
  <2> HIDE DEF d2
  <2>3. CASE d.desired = s.attempted /\ ~forced
    <3>1. r = [db |-> d2, session |-> s, out |-> <<>>]
      BY <1>2, <2>3 DEF Sending, d1, d2
    <3> QED BY <1>2, <2>2, <3>1 DEF Dispatched
  <2>4. CASE ~(d.desired = s.attempted /\ ~forced)
    <3>1. r = [db |-> d2, session |-> s2, out |-> <<m>>]
      BY <1>2, <2>4 DEF Sending, d1, d2
    <3>2. /\ s2 \in Handler /\ s2.gen = s.gen /\ s2.state = s.state
          /\ s2.pending = TRUE /\ s2.attempted = d.desired
      BY DEF Handler, Row
    <3>3. m \in Order /\ m.rev = d.desired /\ m.gen = s.gen /\ m.payload = d.deployments[d.desired]
      <4>1. d.desired \in DOMAIN d.deployments /\ d.desired \in Revisions
        BY <1>2 DEF RowSound, Row, Revisions
      <4>2. d.deployments[d.desired] \in Payloads
        BY <4>1, MapsFacts DEF Row
      <4> QED BY <4>1, <4>2 DEF Order
    <3> HIDE DEF s2, m
    <3> QED BY <1>2, <2>2, <3>1, <3>2, <3>3 DEF Dispatched
  <2> QED BY <2>3, <2>4
<1> QED BY <1>1, <1>2

\* Observe: applied_revision moves up to the revision of an applied result.
LEMMA ObservedFacts ==
    ASSUME NEW d \in Row, RowSound(d), NEW result \in Answer, result.rev \in DOMAIN d.deployments
    PROVE  LET e == Observed(d, result)
           IN  /\ e \in Row /\ RowSound(e)
               /\ e.desired = d.desired /\ e.sent = d.sent
               /\ e.generation = d.generation /\ e.fence = d.fence
               /\ \/ e.applied = d.applied
                  \/ result.stage = "applied" /\ e.applied = result.rev /\ result.rev > d.applied
               /\ \A r \in {e.desired, e.applied, e.sent} \ {0} : e.deployments[r] = d.deployments[r]
<1> DEFINE a == IF result.stage = "applied" /\ result.rev > d.applied THEN result.rev ELSE d.applied
           d1 == [d EXCEPT !.applied = a]
<1>1. /\ a \in 0 .. MaxRevision
      /\ a = d.applied \/ (result.stage = "applied" /\ a = result.rev /\ result.rev > d.applied)
  BY SyncAssumption DEF Row, Answer, Revisions
<1>2. Observed(d, result) = Pruned(d1)
  BY DEF Observed
<1>3. a <= d.desired /\ (a # 0 => a \in DOMAIN d.deployments)
  BY <1>1, SyncAssumption DEF RowSound, Row, Answer, Revisions
<1> HIDE DEF a
<1>4. /\ d1 \in Row /\ d1.desired = d.desired /\ d1.sent = d.sent /\ d1.applied = a
      /\ d1.generation = d.generation /\ d1.fence = d.fence /\ d1.deployments = d.deployments
  BY <1>1 DEF Row
<1> HIDE DEF d1
<1>5. RowSound(d1)
  BY <1>3, <1>4 DEF RowSound
<1>6. /\ Pruned(d1) \in Row /\ RowSound(Pruned(d1))
      /\ \A r \in {d1.desired, d1.applied, d1.sent} \ {0} : Pruned(d1).deployments[r] = d1.deployments[r]
  BY <1>4, <1>5, PrunedFacts, PrunedSound
<1> QED BY <1>1, <1>2, <1>4, <1>6, PrunedFacts

\* Publish adds one row and loses none that is named.
LEMMA PublishFacts ==
    ASSUME Shape, RowSound(db), NEW p \in Payloads, Publish(p)
    PROVE  /\ db' \in Row /\ RowSound(db') /\ db'.desired = db.desired + 1
           /\ db'.sent = db.sent /\ db'.applied = db.applied
           /\ db'.generation = db.generation /\ db'.fence = db.fence
           /\ \A r \in {db.applied, db.sent} \ {0} : db'.deployments[r] = db.deployments[r]
<1> DEFINE r == db.desired + 1
           ext == [x \in DOMAIN db.deployments \cup {r} |-> IF x = r THEN p ELSE db.deployments[x]]
           d1 == [db EXCEPT !.desired = r, !.deployments = ext]
<1>1. db \in Row /\ db.desired \in 0 .. MaxRevision /\ r \in Revisions
  BY SyncAssumption DEF Shape, Publish, Row, Revisions
<1>2. DOMAIN db.deployments \subseteq Revisions /\ db.deployments \in [DOMAIN db.deployments -> Payloads]
  BY <1>1, MapsFacts DEF Row
<1>3. ext \in Maps(Payloads) /\ DOMAIN ext = DOMAIN db.deployments \cup {r}
  <2>1. DOMAIN ext \subseteq Revisions /\ ext \in [DOMAIN ext -> Payloads]
    BY <1>1, <1>2
  <2> QED BY <2>1, MapsFacts
<1>4. \A x \in DOMAIN db.deployments : x # r => ext[x] = db.deployments[x]
  OBVIOUS
<1>5. db' = Pruned(d1)
  BY DEF Publish
<1>6. r \in 0 .. MaxRevision
  BY <1>1, SyncAssumption DEF Revisions
<1> HIDE DEF ext, r
<1>7. /\ d1 \in Row /\ d1.desired = r /\ d1.sent = db.sent /\ d1.applied = db.applied
      /\ d1.generation = db.generation /\ d1.fence = db.fence /\ d1.deployments = ext
  BY <1>1, <1>3, <1>6 DEF Row
<1> HIDE DEF d1
<1>8. RowSound(d1)
  BY <1>1, <1>3, <1>7 DEF RowSound, Row, r
<1>9. \A x \in {db.applied, db.sent} \ {0} : x \in DOMAIN db.deployments /\ x # r
  BY <1>1 DEF RowSound, Row, r
<1> QED BY <1>4, <1>5, <1>7, <1>8, <1>9, PrunedFacts, PrunedSound DEF r

\* The handler of an open or begun stream has a generation.
LEMMA OpenHandler ==
    ASSUME Inv, NEW k \in Streams, session[k].state \in {"begun", "open"}
    PROVE  session[k] \in Handler /\ session[k].gen \in Streams /\ session[k].gen <= db.generation
<1>1. session[k] \in Handler /\ db.generation \in 0 .. MaxStreams
  BY DEF Inv, Shape, Row
<1>2. session[k].gen \in 1 .. db.generation
  BY DEF Inv, MasterSound
<1> QED BY <1>1, <1>2, SyncAssumption DEF Streams

\* What Deliver does: the desired deployment is sent, and awaited.
LEMMA DeliverFacts ==
    ASSUME Inv, NEW k \in Streams, NEW forced \in BOOLEAN, Deliver(k, forced)
    PROVE  /\ session[k].state = "open" /\ ~session[k].pending
           /\ db' \in Row /\ RowSound(db')
           /\ db'.desired = db.desired /\ db'.applied = db.applied
           /\ db'.generation = db.generation /\ db'.fence = db.fence
           /\ db.applied # 0 => db'.deployments[db.applied] = db.deployments[db.applied]
           /\ \E s \in Handler, m \in Order :
                /\ session' = [session EXCEPT ![k] = s]
                /\ down' = [down EXCEPT ![k] = Append(@, m)]
                /\ s.state = "open" /\ s.gen = session[k].gen /\ s.pending
                /\ s.attempted = db.desired /\ db'.sent = db.desired /\ db.desired # 0
                /\ m.rev = db.desired /\ m.gen = s.gen /\ m.payload = db'.deployments[db.desired]
<1> DEFINE r == Sending(db, session[k], forced)
<1>1. /\ session[k].state = "open" /\ ~session[k].pending /\ r.out # <<>> /\ db' = r.db
      /\ session' = [session EXCEPT ![k] = r.session] /\ down' = [down EXCEPT ![k] = @ \o r.out]
  BY DEF Deliver
<1>2. db \in Row /\ RowSound(db) /\ session[k] \in Handler /\ session[k].gen \in Streams
  BY <1>1, OpenHandler DEF Inv, Shape, MasterSound
<1>2a. Dispatched(db, session[k], r)
  BY <1>2, SendingFacts
<1> HIDE DEF r
<1>3. /\ r.db \in Row /\ RowSound(r.db)
      /\ r.db.desired = db.desired /\ r.db.applied = db.applied
      /\ r.db.generation = db.generation /\ r.db.fence = db.fence
      /\ db.applied # 0 => r.db.deployments[db.applied] = db.deployments[db.applied]
      /\ r.session \in Handler /\ r.session.gen = session[k].gen /\ r.session.state = session[k].state
  BY <1>2a DEF Dispatched
<1>4. /\ r.session.pending /\ db.desired # 0
      /\ r.session.attempted = db.desired /\ r.db.sent = db.desired
      /\ \E m \in Order : /\ r.out = <<m>> /\ m.rev = db.desired /\ m.gen = session[k].gen
                          /\ m.payload = r.db.deployments[db.desired]
  BY <1>1, <1>2a DEF Dispatched
<1>5. PICK m \in Order : /\ r.out = <<m>> /\ m.rev = db.desired /\ m.gen = session[k].gen
                         /\ m.payload = r.db.deployments[db.desired]
  BY <1>4
<1>6. down[k] \in Seq(Announcement \cup Order) /\ m \in Announcement \cup Order
  BY DEF Inv, Shape
<1>7. down[k] \o r.out = Append(down[k], m)
  BY <1>5, <1>6, AppendIsConcat
<1> QED BY <1>1, <1>3, <1>4, <1>5, <1>7

\* What HandleResult does with an answer it records: it waits on, waits no
\* more, or sends the next deployment.
LEMMA ResultFacts ==
    ASSUME Inv, NEW k \in Streams, HandleResult(k)
    PROVE  LET result == Head(up[k])
               s == session[k]
           IN  /\ s.state = "open" /\ up[k] # <<>> /\ up' = [up EXCEPT ![k] = Tail(@)]
               /\ \/ Closing(k) /\ UNCHANGED <<db, down>>
                  \/ /\ UNCHANGED registered
                     /\ s.pending /\ MayObserve(db, s, result)
                     /\ db' \in Row /\ RowSound(db')
                     /\ db'.desired = db.desired
                     /\ db'.generation = db.generation /\ db'.fence = db.fence
                     /\ \/ db'.applied = db.applied
                        \/ /\ result.stage = "applied" /\ db'.applied = result.rev
                           /\ db'.applied > db.applied
                     /\ db'.applied # 0 => db'.deployments[db'.applied] = db.deployments[db'.applied]
                     /\ \E t \in Handler :
                          /\ session' = [session EXCEPT ![k] = t]
                          /\ t.state = "open" /\ t.gen = s.gen
                          /\ \/ /\ result.stage = "received" /\ down' = down
                                /\ t.pending /\ t.attempted = s.attempted /\ db'.sent = db.sent
                                /\ db.sent # 0 => db'.deployments[db.sent] = db.deployments[db.sent]
                             \/ result.stage # "received" /\ ~t.pending /\ down' = down
                             \/ /\ result.stage # "received" /\ t.pending
                                /\ t.attempted = db.desired /\ db'.sent = db.desired /\ db.desired # 0
                                /\ \E m \in Order :
                                     /\ down' = [down EXCEPT ![k] = Append(@, m)]
                                     /\ m.rev = db.desired /\ m.gen = s.gen
                                     /\ m.payload = db'.deployments[db.desired]
<1> DEFINE result == Head(up[k])
           s == session[k]
           d == Observed(db, result)
           s1 == AfterResult(s, result)
           r == Sending(d, s1, FALSE)
<1>1. s.state = "open" /\ up[k] # <<>> /\ up' = [up EXCEPT ![k] = Tail(@)]
  BY DEF HandleResult
<1>2. /\ db \in Row /\ RowSound(db) /\ s \in Handler /\ s.gen \in Streams
      /\ up[k] \in Seq(Answer) /\ down[k] \in Seq(Announcement \cup Order)
      /\ down \in [Streams -> Seq(Announcement \cup Order)]
  BY <1>1, OpenHandler DEF Inv, Shape, MasterSound
<1>3. result \in Answer
  BY <1>1, <1>2, HeadTailProperties
<1>4. CASE ~(result.rev = s.attempted /\ s.pending /\ MayObserve(db, s, result))
  BY <1>1, <1>4 DEF HandleResult
<1>5. CASE result.rev = s.attempted /\ s.pending /\ MayObserve(db, s, result)
  <2>1. /\ db' = r.db /\ session' = [session EXCEPT ![k] = r.session]
        /\ down' = [down EXCEPT ![k] = @ \o r.out] /\ UNCHANGED registered
    BY <1>5 DEF HandleResult
  <2>2. result.rev \in DOMAIN db.deployments
    BY <1>5 DEF MayObserve
  <2> HIDE DEF result
  <2>3. /\ d \in Row /\ RowSound(d)
        /\ d.desired = db.desired /\ d.sent = db.sent
        /\ d.generation = db.generation /\ d.fence = db.fence
        /\ \/ d.applied = db.applied
           \/ result.stage = "applied" /\ d.applied = result.rev /\ d.applied > db.applied
        /\ \A x \in {d.desired, d.applied, d.sent} \ {0} : d.deployments[x] = db.deployments[x]
    BY <1>2, <1>3, <2>2, ObservedFacts
  <2>4. /\ s1 \in Handler /\ s1.gen = s.gen /\ s1.state = s.state /\ s1.attempted = s.attempted
        /\ s1.pending = (result.stage = "received")
    BY <1>2 DEF AfterResult, Handler
  <2> HIDE DEF d, s1, s, r
  <2>4a. d \in Row /\ RowSound(d) /\ s1 \in Handler /\ s1.gen \in Streams
    BY <1>2, <2>3, <2>4
  <2>4b. Dispatched(d, s1, r)
    BY <2>4a, SendingFacts DEF r
  <2>5. /\ r.db \in Row /\ RowSound(r.db)
        /\ r.db.desired = d.desired /\ r.db.applied = d.applied
        /\ r.db.generation = d.generation /\ r.db.fence = d.fence
        /\ d.applied # 0 => r.db.deployments[d.applied] = d.deployments[d.applied]
        /\ r.session \in Handler /\ r.session.gen = s1.gen /\ r.session.state = s1.state
    BY <2>4b DEF Dispatched
  <2>6. /\ db'.applied # 0 => db'.deployments[db'.applied] = db.deployments[db'.applied]
        /\ \/ db'.applied = db.applied
           \/ result.stage = "applied" /\ db'.applied = result.rev /\ db'.applied > db.applied
    BY <2>1, <2>3, <2>5
  <2>7. \/ r.out = <<>> /\ r.session = s1 /\ (s1.pending => r.db = d)
        \/ /\ ~s1.pending /\ r.session.pending /\ d.desired # 0
           /\ r.session.attempted = d.desired /\ r.db.sent = d.desired
           /\ \E m \in Order : /\ r.out = <<m>> /\ m.rev = d.desired /\ m.gen = s1.gen
                               /\ m.payload = r.db.deployments[d.desired]
    BY <2>4b DEF Dispatched
  <2>8. ASSUME r.out = <<>> PROVE down' = down
    <3>1. down[k] \o r.out = down[k]
      BY <1>2, <2>8, ConcatEmptySeq
    <3> QED BY <1>2, <2>1, <3>1
  <2>9. ASSUME NEW m \in Order, r.out = <<m>>
        PROVE  down' = [down EXCEPT ![k] = Append(@, m)]
    <3>1. m \in Announcement \cup Order
      OBVIOUS
    <3>2. down[k] \o r.out = Append(down[k], m)
      BY <1>2, <2>9, <3>1, AppendIsConcat
    <3> QED BY <1>2, <2>1, <3>2
  <2> DEFINE Sent(t) ==
               /\ session' = [session EXCEPT ![k] = t]
               /\ t.state = "open" /\ t.gen = s.gen
               /\ \/ /\ result.stage = "received" /\ down' = down
                     /\ t.pending /\ t.attempted = s.attempted /\ db'.sent = db.sent
                     /\ db.sent # 0 => db'.deployments[db.sent] = db.deployments[db.sent]
                  \/ result.stage # "received" /\ ~t.pending /\ down' = down
                  \/ /\ result.stage # "received" /\ t.pending
                     /\ t.attempted = db.desired /\ db'.sent = db.desired /\ db.desired # 0
                     /\ \E m \in Order :
                          /\ down' = [down EXCEPT ![k] = Append(@, m)]
                          /\ m.rev = db.desired /\ m.gen = s.gen
                          /\ m.payload = db'.deployments[db.desired]
  <2>10. ASSUME r.out = <<>>, r.session = s1, s1.pending => r.db = d
         PROVE  Sent(r.session)
    <3>1. s1.pending => db' = d
      BY <2>1, <2>10
    <3>2. s1.pending => db'.sent = db.sent /\ (db.sent # 0 => db'.deployments[db.sent] = db.deployments[db.sent])
      BY <2>3, <3>1
    <3> QED BY <1>1, <2>1, <2>4, <2>8, <2>10, <3>2
  <2>11. ASSUME
              /\ ~s1.pending /\ r.session.pending /\ d.desired # 0
              /\ r.session.attempted = d.desired /\ r.db.sent = d.desired
              /\ \E m \in Order : /\ r.out = <<m>> /\ m.rev = d.desired /\ m.gen = s1.gen
                                  /\ m.payload = r.db.deployments[d.desired]
         PROVE Sent(r.session)
    <3>1. PICK m \in Order : /\ r.out = <<m>> /\ m.rev = d.desired /\ m.gen = s1.gen
                             /\ m.payload = r.db.deployments[d.desired]
      BY <2>11
    <3>2. down' = [down EXCEPT ![k] = Append(@, m)]
      BY <2>9, <3>1
    <3>3. /\ m.rev = db.desired /\ m.gen = s.gen /\ m.payload = db'.deployments[db.desired]
          /\ r.session.attempted = db.desired /\ db'.sent = db.desired /\ db.desired # 0
      BY <2>1, <2>3, <2>4, <2>11, <3>1
    <3> QED BY <1>1, <2>1, <2>4, <2>5, <2>11, <3>2, <3>3
  <2>12. \E t \in Handler : Sent(t)
    <3>1. r.session \in Handler
      BY <2>5
    <3>2. Sent(r.session)
      BY <2>7, <2>10, <2>11
    <3> QED BY <3>1, <3>2
  <2>13. /\ db' \in Row /\ RowSound(db') /\ db'.desired = db.desired
         /\ db'.generation = db.generation /\ db'.fence = db.fence
    BY <2>1, <2>3, <2>5
  <2> HIDE DEF Sent
  <2>14. UNCHANGED registered /\ s.pending /\ MayObserve(db, s, result)
    BY <1>5, <2>1
  <2> QED BY <1>1, <2>6, <2>12, <2>13, <2>14 DEF result, s, Sent
<1> QED BY <1>4, <1>5

-----------------------------------------------------------------------------
(***************************************************************************)
(* The invariant holds at first.                                           *)
(***************************************************************************)

\* A closed handler is a handler.
LEMMA ClosedFacts ==
    Closed \in Handler /\ Closed.state = "closed" /\ Closed.gen = 0 /\ Closed.pending = FALSE
BY SyncAssumption DEF Closed, Handler

\* The streams that have said hello are finitely many.
LEMMA WaitingFinite == IsFiniteSet(Waiting) /\ IsFiniteSet(Waiting')
<1>1. IsFiniteSet(Streams)
  BY SyncAssumption, FS_Interval DEF Streams
<1>2. Waiting \subseteq Streams /\ Waiting' \subseteq Streams
  BY DEF Waiting
<1> QED BY <1>1, <1>2, FS_Subset

LEMMA InitInv == Init => Inv
<1> SUFFICES ASSUME Init PROVE Inv
  OBVIOUS
<1>1. \A k \in Streams : session[k] = Closed /\ down[k] = <<>> /\ up[k] = <<>>
  BY DEF Init
<1>2. /\ db.desired = 0 /\ db.sent = 0 /\ db.applied = 0 /\ db.generation = 0 /\ db.fence = FALSE
      /\ DOMAIN db.deployments = {} /\ db.deployments \in Maps(Payloads) /\ db \in Row
  <2>1. [r \in {} |-> None] \in Maps(Payloads)
    BY MapsFacts
  <2> QED BY <2>1, SyncAssumption DEF Init, Row
<1>3. Shape
  <2>1. node \in Store
    <3>1. [r \in {} |-> Nothing] \in Maps(Held)
      BY MapsFacts
    <3> QED BY <3>1, SyncAssumption DEF Init, Store
  <2>2. session \in [Streams -> Handler]
    BY ClosedFacts DEF Init
  <2>3. /\ down \in [Streams -> Seq(Announcement \cup Order)]
        /\ up \in [Streams -> Seq(Answer)]
    BY EmptySeq DEF Init
  <2>4. /\ restores \in 0 .. MaxRestores /\ faults \in 0 .. MaxFaults
        /\ registered \in 0 .. MaxStreams /\ conn \in 0 .. MaxStreams /\ opened \in 0 .. MaxStreams
    BY SyncAssumption DEF Init
  <2>5. /\ accepted \in [Slots -> Held \cup {Nothing}] /\ force \in [Slots -> Held \cup {Nothing}]
        /\ late \subseteq Slots \X Held /\ backup = None /\ work = None
    BY DEF Init
  <2> QED BY <1>2, <2>1, <2>2, <2>3, <2>4, <2>5 DEF Shape
<1>4. MasterSound
  <2>1. Waiting = {}
    BY <1>1, ClosedFacts DEF Waiting
  <2>2. db.generation + Cardinality(Waiting) <= opened
    BY <1>2, <2>1, FS_EmptySet DEF Init
  <2>3. RowSound(db) /\ backup = None
    BY <1>2 DEF Init, RowSound
  <2>4. \A k \in Streams : session[k].state = "closed" /\ registered # k
    BY <1>1, ClosedFacts DEF Init, Streams
  <2> QED BY <2>2, <2>3, <2>4 DEF MasterSound
<1>5. NodeSound
  <2>1. \A d \in Held \cup {Nothing} : OnNode(d) => d = Nothing
    BY DEF Init, OnNode
  <2>2. \A i \in Slots : force[i] = accepted[i] /\ force[i].rev = 0
    BY DEF Init, Nothing
  <2> QED BY <2>1, <2>2 DEF NodeSound, Init, Nothing
<1>6. ReachedSound
  BY <1>1, <1>2 DEF ReachedSound, Init, RowTrue
<1>7. ChannelSound
  BY <1>1, ClosedFacts DEF ChannelSound
<1>8. AgentSound /\ Behind
  BY <1>1, <1>2 DEF AgentSound, Behind, Init
<1> QED BY <1>3, <1>4, <1>5, <1>6, <1>7, <1>8 DEF Inv

-----------------------------------------------------------------------------
(***************************************************************************)
(* Every step keeps the shape.                                             *)
(***************************************************************************)

\* There is a generation left for a stream that has said hello.
LEMMA HelloRoom ==
    ASSUME Inv, NEW k \in Streams, session[k].state = "hello"
    PROVE  db.generation \in Nat /\ opened \in 0 .. MaxStreams /\ db.generation + 1 <= opened
<1>1. k \in Waiting
  BY DEF Waiting
<1>2. Cardinality(Waiting) \in Nat /\ Cardinality(Waiting) # 0
  BY <1>1, WaitingFinite, FS_CardinalityType, FS_EmptySet
<1>3. db.generation \in 0 .. MaxStreams /\ opened \in 0 .. MaxStreams
      /\ db.generation + Cardinality(Waiting) <= opened
  BY DEF Inv, Shape, MasterSound, Row
<1> QED BY <1>2, <1>3, SyncAssumption

\* BeginSession closes the handler behind the fence, or gives it the next generation.
LEMMA BeginFacts ==
    ASSUME Inv, NEW k \in Streams, BeginSession(k)
    PROVE  /\ session[k].state = "hello" /\ db' \in Row
           /\ db'.desired = db.desired /\ db'.applied = db.applied /\ db'.deployments = db.deployments
           /\ \/ Closing(k) /\ db'.sent = db.sent /\ db'.generation = db.generation /\ db'.fence
              \/ /\ UNCHANGED registered
                 /\ db'.sent = 0 /\ db'.generation = db.generation + 1
                 /\ \E t \in Handler :
                      /\ session' = [session EXCEPT ![k] = t] /\ t.state = "begun"
                      /\ t.gen = db.generation + 1 /\ t.pending = session[k].pending
<1>1. session[k].state = "hello" /\ db \in Row /\ session \in [Streams -> Handler]
  BY DEF BeginSession, Inv, Shape
<1>2. CASE db' = [db EXCEPT !.fence = TRUE] /\ Closing(k)
  BY <1>1, <1>2 DEF Row
<1>3. CASE /\ db' = [db EXCEPT !.generation = @ + 1, !.sent = 0]
           /\ session' = [session EXCEPT ![k].state = "begun", ![k].gen = db.generation + 1]
           /\ UNCHANGED registered
  <2> DEFINE g == db.generation + 1
             t == [session[k] EXCEPT !.state = "begun", !.gen = g]
  <2>1. g \in 0 .. MaxStreams /\ 0 \in 0 .. MaxRevision
    BY <1>1, HelloRoom, SyncAssumption
  <2>2. db' = [db EXCEPT !.generation = g, !.sent = 0] /\ session' = [session EXCEPT ![k] = t]
    BY <1>1, <1>3
  <2> HIDE DEF g
  <2>3. /\ db' \in Row /\ db'.sent = 0 /\ db'.generation = g
        /\ db'.desired = db.desired /\ db'.applied = db.applied /\ db'.deployments = db.deployments
    BY <1>1, <2>1, <2>2 DEF Row
  <2>4. session[k] \in Handler
    BY <1>1
  <2>5. t \in Handler /\ t.state = "begun" /\ t.gen = g /\ t.pending = session[k].pending
    BY <2>1, <2>4 DEF Handler
  <2> HIDE DEF t
  <2> QED BY <1>1, <1>3, <2>2, <2>3, <2>5 DEF g
<1> QED BY <1>2, <1>3 DEF BeginSession

\* When Control returns, the request the agent gives up may go on.
LEMMA LeaveFacts ==
    ASSUME Shape, Leave
    PROVE  /\ conn' = 0 /\ work' = None /\ late' \subseteq Slots \X Held
           /\ \A x \in late' : x \in late \/ (work # None /\ x[2] = work.deployment)
<1>1. conn' = 0 /\ work' = None /\ late \subseteq Slots \X Held
  BY DEF Leave, Shape
<1>2. CASE UNCHANGED late
  BY <1>1, <1>2
<1>3. CASE work # None /\ work.next \in Slots /\ late' = late \cup {<<work.next, work.deployment>>}
  <2>1. work.deployment \in Held
    BY <1>3 DEF Shape, Task
  <2> QED BY <1>1, <1>3, <2>1
<1> QED BY <1>2, <1>3 DEF Leave

\* What the agent sends is an answer.
LEMMA SendFacts ==
    ASSUME Shape, conn # 0, NEW stage \in {"received", "rejected", "applied"}, NEW d \in Held,
           Send(stage, d)
    PROVE  /\ conn \in Streams /\ up' \in [Streams -> Seq(Answer)]
           /\ \A k \in Streams : k # conn => up'[k] = up[k]
           /\ Len(up'[conn]) = Len(up[conn]) + 1
           /\ \A n \in 1 .. Len(up[conn]) : up'[conn][n] = up[conn][n]
           /\ up'[conn][Len(up[conn]) + 1] =
                [stage |-> stage, gen |-> d.gen, rev |-> d.rev, payload |-> d.payload]
           /\ up[conn] \in Seq(Answer)
<1> DEFINE m == [stage |-> stage, gen |-> d.gen, rev |-> d.rev, payload |-> d.payload]
<1>1. conn \in Streams
  BY SyncAssumption DEF Shape, Streams
<1>2. m \in Answer
  BY DEF Held, Answer
<1>3. up' = [up EXCEPT ![conn] = Append(@, m)]
  BY DEF Send
<1> HIDE DEF m
<1>4. up \in [Streams -> Seq(Answer)] /\ up[conn] \in Seq(Answer)
  BY <1>1 DEF Shape
<1>5. up'[conn] = Append(up[conn], m) /\ \A k \in Streams : k # conn => up'[k] = up[k]
  BY <1>1, <1>3, <1>4
<1>6. /\ Append(up[conn], m) \in Seq(Answer) /\ Len(Append(up[conn], m)) = Len(up[conn]) + 1
      /\ \A n \in 1 .. Len(up[conn]) : Append(up[conn], m)[n] = up[conn][n]
      /\ Append(up[conn], m)[Len(up[conn]) + 1] = m
  BY <1>2, <1>4, AppendProperties
<1> QED BY <1>1, <1>3, <1>4, <1>5, <1>6 DEF m

\* The agent's stream carries well-formed messages.
LEMMA HeadDown ==
    ASSUME Shape, conn # 0, down[conn] # <<>>
    PROVE  /\ conn \in Streams /\ Head(down[conn]) \in Announcement \cup Order
           /\ Head(down[conn]) = down[conn][1] /\ Len(down[conn]) \in Nat /\ Len(down[conn]) >= 1
           /\ Tail(down[conn]) \in Seq(Announcement \cup Order)
           /\ Len(Tail(down[conn])) = Len(down[conn]) - 1
           /\ \A n \in 1 .. Len(Tail(down[conn])) : Tail(down[conn])[n] = down[conn][n + 1]
<1>1. conn \in Streams
  BY SyncAssumption DEF Shape, Streams
<1>2. down[conn] \in Seq(Announcement \cup Order)
  BY <1>1 DEF Shape
<1>3. Len(down[conn]) \in Nat /\ Len(down[conn]) # 0
  BY <1>2, EmptySeq
<1>4. Head(down[conn]) = down[conn][1]
  BY <1>2, <1>3
<1> QED BY <1>1, <1>2, <1>3, <1>4, HeadTailProperties

\* What the agent takes from its stream and stores.
LEMMA ReceiveFacts ==
    ASSUME Shape, Receive
    PROVE  /\ conn \in Streams /\ down' = [down EXCEPT ![conn] = Tail(@)]
           /\ Head(down[conn]) \in Order
           /\ \/ UNCHANGED <<node, up>> /\ Leave
              \/ LET m == Head(down[conn])
                     d == [rev |-> m.rev, payload |-> m.payload, gen |-> m.gen]
                 IN  /\ d \in Held /\ Send("received", d) /\ UNCHANGED <<conn, late>>
                     /\ MayReceive(node.authority, node.desired, StoredAt(d.rev), d)
                     /\ node' \in Store /\ node'.authority = d.gen /\ node'.desired = d.rev
                     /\ node'.applied = node.applied
                     /\ d.rev \in DOMAIN node'.deploys /\ node'.deploys[d.rev] = d
                     /\ \A r \in DOMAIN node'.deploys :
                          r # d.rev => r \in DOMAIN node.deploys /\ node'.deploys[r] = node.deploys[r]
                     /\ work' = [deployment |-> d, next |-> 1] /\ work' \in Task
<1> DEFINE m == Head(down[conn])
           d == [rev |-> m.rev, payload |-> m.payload, gen |-> m.gen]
<1>1. conn \in Streams /\ m \in Announcement \cup Order
  BY HeadDown DEF Receive
<1>2. m \in Order /\ down' = [down EXCEPT ![conn] = Tail(@)]
  BY <1>1 DEF Receive, Announcement
<1>3. d \in Held
  BY <1>2 DEF Order, Held
<1>4. CASE ~MayReceive(node.authority, node.desired, StoredAt(d.rev), d)
  BY <1>1, <1>2, <1>4 DEF Receive
<1>5. CASE MayReceive(node.authority, node.desired, StoredAt(d.rev), d)
  <2> DEFINE S == (DOMAIN node.deploys \cap {node.applied}) \cup {d.rev}
             f == [x \in S |-> IF x = d.rev THEN d ELSE node.deploys[x]]
  <2>1. /\ node' = [node EXCEPT !.authority = d.gen, !.desired = d.rev, !.deploys = f]
        /\ Send("received", d) /\ UNCHANGED <<conn, late>> /\ work' = [deployment |-> d, next |-> 1]
    BY <1>5 DEF Receive
  <2>2. /\ node \in Store /\ DOMAIN node.deploys \subseteq Revisions
        /\ node.deploys \in [DOMAIN node.deploys -> Held]
    BY MapsFacts DEF Shape, Store
  <2> HIDE DEF m
  <2>3. d.rev \in Revisions /\ d.gen \in Streams
    BY <1>3 DEF Held
  <2> HIDE DEF d
  <2>4. DOMAIN f = S /\ S \subseteq Revisions /\ f \in [S -> Held]
    BY <1>3, <2>2, <2>3
  <2>5. f \in Maps(Held)
    BY <2>4, MapsFacts
  <2>6. /\ d.rev \in DOMAIN f /\ f[d.rev] = d
        /\ \A r \in DOMAIN f : r # d.rev => r \in DOMAIN node.deploys /\ f[r] = node.deploys[r]
    OBVIOUS
  <2> HIDE DEF f
  <2>7. /\ node' \in Store /\ node'.authority = d.gen /\ node'.desired = d.rev
        /\ node'.applied = node.applied /\ node'.deploys = f
    <3>1. d.gen \in 0 .. MaxStreams /\ d.rev \in 0 .. MaxRevision
      BY <2>3, SyncAssumption DEF Streams, Revisions
    <3>2. node' = [node EXCEPT !.authority = d.gen, !.desired = d.rev, !.deploys = f]
      BY <2>1
    <3> QED BY <2>2, <2>5, <3>1, <3>2 DEF Store
  <2>8. [deployment |-> d, next |-> 1] \in Task
    BY <1>3, SyncAssumption DEF Task
  <2> QED BY <1>1, <1>2, <1>3, <1>5, <2>1, <2>6, <2>7, <2>8 DEF d, m
<1> QED BY <1>4, <1>5

\* What the agent does once every runtime has the deployment.
LEMMA ReportFacts ==
    ASSUME Inv, ReportApplied
    PROVE  /\ work # None /\ work \in Task /\ work.next = RuntimeCount + 1 /\ conn # 0
           /\ \/ UNCHANGED <<node, up>> /\ Leave
              \/ /\ Send("applied", work.deployment) /\ work' = None /\ UNCHANGED <<conn, late>>
                 /\ work.deployment.rev = node.desired /\ work.deployment.rev >= node.applied
                 /\ node' \in Store /\ node'.authority = node.authority
                 /\ node'.desired = node.desired /\ node'.applied = work.deployment.rev
                 /\ \A r \in DOMAIN node'.deploys :
                      r \in DOMAIN node.deploys /\ node'.deploys[r] = node.deploys[r]
                 /\ \A r \in DOMAIN node.deploys :
                      r >= node.desired => r \in DOMAIN node'.deploys
<1> DEFINE d == work.deployment
           S == {x \in DOMAIN node.deploys : x >= d.rev}
           f == Kept(node.deploys, S)
<1>1. work # None /\ work \in Task /\ work.next = RuntimeCount + 1 /\ conn # 0
  BY DEF ReportApplied, Inv, Shape, AgentSound
<1>2. CASE d.gen = node.authority /\ d.rev = node.desired /\ d.rev >= node.applied
  <2>1. /\ node' = [node EXCEPT !.applied = d.rev, !.deploys = f]
        /\ Send("applied", d) /\ work' = None /\ UNCHANGED <<conn, late>>
    BY <1>2 DEF ReportApplied
  <2>2. node \in Store /\ node.deploys \in Maps(Held) /\ d.rev \in Revisions
    BY <1>1 DEF Inv, Shape, Store, Task, Held
  <2>3. /\ f \in Maps(Held) /\ DOMAIN f = DOMAIN node.deploys \cap S
        /\ \A r \in DOMAIN node.deploys \cap S : f[r] = node.deploys[r]
    <3> HIDE DEF S
    <3> QED BY <2>2, KeptFacts
  <2> HIDE DEF f, d
  <2>4. d.rev \in 0 .. MaxRevision
    BY <2>2, SyncAssumption DEF Revisions
  <2>5. /\ node' \in Store /\ node'.authority = node.authority
        /\ node'.desired = node.desired /\ node'.applied = d.rev /\ node'.deploys = f
    BY <2>1, <2>2, <2>3, <2>4 DEF Store
  <2> QED BY <1>1, <1>2, <2>1, <2>3, <2>5 DEF d
<1>3. CASE ~(d.gen = node.authority /\ d.rev = node.desired /\ d.rev >= node.applied)
  BY <1>1, <1>3 DEF ReportApplied
<1> QED BY <1>2, <1>3

\* Runtime i and its worker keep what they have or take d, which the node
\* holds and which is not below the worker's store.
Moves(i, d) ==
    /\ d \in Held \cup {Nothing} /\ OnNode(d) /\ accepted[i].rev <= d.rev
    /\ accepted' \in {accepted, [accepted EXCEPT ![i] = d]}
    /\ force' \in {force, [force EXCEPT ![i] = d]}
    /\ accepted'[i] = d \/ UNCHANGED <<accepted, force>>

\* Store.Receive of a worker: never below its store.
LEMMA WorkerFacts ==
    ASSUME Shape, NEW i \in Slots, NEW d \in Held
    PROVE  /\ accepted[i] \in Held \cup {Nothing} /\ force[i] \in Held \cup {Nothing}
           /\ accepted[i].rev \in Nat /\ force[i].rev \in Nat /\ d.rev \in Nat
           /\ WorkerMayReceive(i, d) => accepted[i].rev <= d.rev
<1>1. accepted[i] \in Held \cup {Nothing} /\ force[i] \in Held \cup {Nothing}
  BY DEF Shape
<1>2. \A e \in Held \cup {Nothing} : e.rev \in Nat
  BY SyncAssumption DEF Held, Nothing, Revisions
<1> QED BY <1>1, <1>2 DEF WorkerMayReceive, MayReceive

\* What a step does to the runtimes.
LEMMA RejectFacts ==
    ASSUME Inv, RejectRuntime
    PROVE  /\ work \in Task /\ work.next \in Slots /\ work.deployment \in Held /\ conn # 0
           /\ Send("rejected", work.deployment) /\ work' = None
           /\ UNCHANGED <<accepted, force>> \/ Moves(work.next, work.deployment)
           /\ late' \in {late, late \cup {<<work.next, work.deployment>>}}
           /\ faults' \in {faults, faults + 1} /\ (faults' # faults => faults < MaxFaults)
<1> DEFINE d == work.deployment
           i == work.next
<1>1. work # None /\ work \in Task /\ i \in Slots /\ d \in Held /\ conn # 0
  BY DEF Inv, Shape, RejectRuntime, Task, AgentSound
<1>2. Send("rejected", d) /\ work' = None
  BY DEF RejectRuntime
<1>3. OnNode(d)
  BY <1>1 DEF OnNode
<1>4. accepted \in [Slots -> Held \cup {Nothing}]
  BY DEF Inv, Shape
<1> HIDE DEF d, i
<1>5. CASE UNCHANGED runtimes /\ (UNCHANGED faults \/ (faults < MaxFaults /\ faults' = faults + 1))
  BY <1>1, <1>2, <1>5 DEF runtimes, d, i
<1>6. CASE late' = late \cup {<<i, d>>} /\ UNCHANGED <<accepted, force>> /\ faults < MaxFaults /\ faults' = faults + 1
  BY <1>1, <1>2, <1>6 DEF d, i
<1>7. CASE /\ WorkerMayReceive(i, d) /\ accepted' = [accepted EXCEPT ![i] = d]
           /\ force' \in {force, [force EXCEPT ![i] = d]} /\ UNCHANGED late
           /\ faults < MaxFaults /\ faults' = faults + 1
  <2>1. Moves(i, d)
    BY <1>1, <1>3, <1>4, <1>7, WorkerFacts DEF Moves, Inv
  <2> QED BY <1>1, <1>2, <1>7, <2>1 DEF d, i
<1> QED BY <1>5, <1>6, <1>7 DEF RejectRuntime, runtimes, d, i

\* Every step keeps the shape of the variables.
LEMMA ShapeNext == Inv /\ [Next]_vars => Shape'
<1> SUFFICES ASSUME Inv, [Next]_vars PROVE Shape'
  OBVIOUS
<1> USE DEF master, agent, runtimes
<1>0. Shape
  BY DEF Inv
<1>1. ASSUME NEW p \in Payloads, Publish(p) PROVE Shape'
  <2>1. db' \in Row
    BY <1>1, PublishFacts DEF Inv, MasterSound
  <2> QED BY <1>0, <1>1, <2>1 DEF Shape, Publish
<1>2. ASSUME NEW k \in Streams, BeginSession(k) PROVE Shape'
  <2>1. db' \in Row /\ session \in [Streams -> Handler]
    BY <1>0, <1>2, BeginFacts DEF Shape
  <2>2. session' \in [Streams -> Handler] /\ registered' \in 0 .. MaxStreams
    <3>1. CASE Closing(k)
      BY <1>0, <2>1, <3>1, ClosedFacts, SyncAssumption DEF Shape, Closing
    <3>2. CASE ~Closing(k)
      <4>1. UNCHANGED registered /\ \E t \in Handler : session' = [session EXCEPT ![k] = t]
        BY <1>2, <3>2, BeginFacts
      <4> QED BY <1>0, <2>1, <4>1 DEF Shape
    <3> QED BY <3>1, <3>2
  <2> QED BY <1>0, <1>2, <2>1, <2>2 DEF Shape, BeginSession
<1>3. ASSUME NEW k \in Streams, Register(k) PROVE Shape'
  <2>1. session[k] \in Handler /\ session[k].gen \in Streams
    BY <1>3, OpenHandler DEF Register
  <2>2. CASE session' = [session EXCEPT ![k] = Closed] /\ UNCHANGED <<registered, down>>
    <3>1. session' \in [Streams -> Handler]
      BY <1>0, <2>2, ClosedFacts DEF Shape
    <3> QED BY <1>0, <1>3, <2>2, <3>1 DEF Shape, Register
  <2>3. CASE /\ session' = [s \in Streams |->
                              IF s = k THEN [session[k] EXCEPT !.state = "open"]
                              ELSE IF s = registered THEN Closed ELSE session[s]]
             /\ registered' = k
             /\ down' = [down EXCEPT ![k] = Append(@, [kind |-> "authority", gen |-> session[k].gen])]
    <3>1. [session[k] EXCEPT !.state = "open"] \in Handler
      BY <2>1 DEF Handler
    <3>2. session' \in [Streams -> Handler]
      BY <1>0, <2>3, <3>1, ClosedFacts DEF Shape
    <3>3. registered' \in 0 .. MaxStreams
      BY <2>3, SyncAssumption DEF Streams
    <3>4. [kind |-> "authority", gen |-> session[k].gen] \in Announcement \cup Order
      BY <2>1 DEF Announcement
    <3>5. down' \in [Streams -> Seq(Announcement \cup Order)]
      BY <1>0, <2>3, <3>4, AppendProperties DEF Shape
    <3> QED BY <1>0, <1>3, <3>2, <3>3, <3>5 DEF Shape, Register
  <2> QED BY <1>3, <2>2, <2>3 DEF Register
<1>4. ASSUME NEW k \in Streams, NEW forced \in BOOLEAN, Deliver(k, forced) PROVE Shape'
  <2>1. PICK s \in Handler, m \in Order : /\ session' = [session EXCEPT ![k] = s]
                                          /\ down' = [down EXCEPT ![k] = Append(@, m)]
    BY <1>4, DeliverFacts
  <2>2. db' \in Row
    BY <1>4, DeliverFacts
  <2>3. session' \in [Streams -> Handler]
    BY <1>0, <2>1 DEF Shape
  <2>4. m \in Announcement \cup Order
    OBVIOUS
  <2>5. down' \in [Streams -> Seq(Announcement \cup Order)]
    BY <1>0, <2>1, <2>4, AppendProperties DEF Shape
  <2> QED BY <1>0, <1>4, <2>2, <2>3, <2>5 DEF Shape, Deliver
<1>5. ASSUME NEW k \in Streams, SessionRevoked(k) PROVE Shape'
  <2>1. session' \in [Streams -> Handler] /\ registered' \in 0 .. MaxStreams
    BY <1>0, <1>5, ClosedFacts, SyncAssumption DEF Shape, Closing, SessionRevoked
  <2> QED BY <1>0, <1>5, <2>1 DEF Shape, SessionRevoked
<1>6. ASSUME NEW k \in Streams, HandleResult(k) PROVE Shape'
  <2>1. up[k] # <<>> /\ up' = [up EXCEPT ![k] = Tail(@)]
    BY <1>6 DEF HandleResult
  <2>2. up' \in [Streams -> Seq(Answer)]
    BY <1>0, <2>1, HeadTailProperties DEF Shape
  <2>3. db' \in Row /\ session' \in [Streams -> Handler] /\ registered' \in 0 .. MaxStreams
        /\ down' \in [Streams -> Seq(Announcement \cup Order)]
    <3>1. CASE Closing(k) /\ UNCHANGED <<db, down>>
      BY <1>0, <3>1, ClosedFacts, SyncAssumption DEF Shape, Closing
    <3>2. CASE ~(Closing(k) /\ UNCHANGED <<db, down>>)
      <4>1. UNCHANGED registered /\ db' \in Row
        BY <1>6, <3>2, ResultFacts
      <4>2. \E t \in Handler :
              /\ session' = [session EXCEPT ![k] = t]
              /\ down' = down \/ \E m \in Order : down' = [down EXCEPT ![k] = Append(@, m)]
        BY <1>6, <3>2, ResultFacts
      <4>3. session' \in [Streams -> Handler]
        BY <1>0, <4>2 DEF Shape
      <4>4. ASSUME NEW m \in Order, down' = [down EXCEPT ![k] = Append(@, m)]
            PROVE  down' \in [Streams -> Seq(Announcement \cup Order)]
        <5>1. m \in Announcement \cup Order
          OBVIOUS
        <5> QED BY <1>0, <4>4, <5>1, AppendProperties DEF Shape
      <4> QED BY <1>0, <4>1, <4>2, <4>3, <4>4 DEF Shape
    <3> QED BY <3>1, <3>2
  <2> QED BY <1>0, <1>6, <2>2, <2>3 DEF Shape, HandleResult
<1>7. ASSUME NEW k \in Streams, HandlerEnds(k) PROVE Shape'
  <2>1. session' \in [Streams -> Handler] /\ registered' \in 0 .. MaxStreams
    BY <1>0, <1>7, ClosedFacts, SyncAssumption DEF Shape, Closing, HandlerEnds
  <2>2. up' \in [Streams -> Seq(Answer)]
    BY <1>0, <1>7, EmptySeq DEF Shape, HandlerEnds
  <2> QED BY <1>0, <1>7, <2>1, <2>2 DEF Shape, HandlerEnds
<1>8. CASE Snapshot
  BY <1>0, <1>8 DEF Shape, Snapshot
<1>9. CASE Restore
  <2>1. db' \in Row /\ restores' \in 0 .. MaxRestores /\ registered' \in 0 .. MaxStreams
    BY <1>0, <1>9, SyncAssumption DEF Shape, Restore
  <2>2. session' \in [Streams -> Handler]
    BY <1>9, ClosedFacts DEF Restore
  <2> QED BY <1>0, <1>9, <2>1, <2>2 DEF Shape, Restore
<1>10. CASE Connect
  <2>1. opened' \in 0 .. MaxStreams /\ conn' \in 0 .. MaxStreams
    BY <1>0, <1>10, SyncAssumption DEF Shape, Connect
  <2>2. [authority |-> node.authority, desired |-> node.desired, applied |-> node.applied] \in Hello
    BY <1>0 DEF Shape, Store, Hello
  <2>3. session' \in [Streams -> Handler]
    BY <1>0, <1>10, <2>2, ClosedFacts DEF Shape, Connect, Handler
  <2> QED BY <1>0, <1>10, <2>1, <2>3 DEF Shape, Connect
<1>11. CASE TakeAuthority
  <2>1. conn \in Streams /\ Head(down[conn]) \in Announcement \cup Order
        /\ Tail(down[conn]) \in Seq(Announcement \cup Order)
    BY <1>0, <1>11, HeadDown DEF TakeAuthority
  <2>2. down' \in [Streams -> Seq(Announcement \cup Order)]
    BY <1>0, <1>11, <2>1 DEF Shape, TakeAuthority
  <2>3. Head(down[conn]).gen \in 0 .. MaxStreams
    BY <2>1, SyncAssumption DEF Announcement, Order, Streams
  <2>4. CASE /\ node' = [node EXCEPT !.authority = Head(down[conn]).gen]
             /\ UNCHANGED <<conn, work, late>>
    <3>1. node' \in Store
      BY <1>0, <2>3, <2>4 DEF Shape, Store
    <3> QED BY <1>0, <1>11, <2>2, <2>4, <3>1 DEF Shape, TakeAuthority
  <2>5. CASE Leave /\ UNCHANGED node
    <3>1. conn' = 0 /\ work' = None /\ late' \subseteq Slots \X Held /\ 0 \in 0 .. MaxStreams
      BY <1>0, <2>5, LeaveFacts, SyncAssumption
    <3> QED BY <1>0, <1>11, <2>2, <2>5, <3>1 DEF Shape, TakeAuthority
  <2> QED BY <1>11, <2>4, <2>5 DEF TakeAuthority
<1>12. CASE Receive
  <2>1. conn \in Streams /\ down' = [down EXCEPT ![conn] = Tail(@)] /\ down[conn] # <<>> /\ conn # 0
    BY <1>0, <1>12, ReceiveFacts DEF Receive
  <2>2. down' \in [Streams -> Seq(Announcement \cup Order)]
    BY <1>0, <2>1, HeadDown DEF Shape
  <2>3. CASE UNCHANGED <<node, up>> /\ Leave
    <3>1. conn' = 0 /\ work' = None /\ late' \subseteq Slots \X Held /\ 0 \in 0 .. MaxStreams
      BY <1>0, <2>3, LeaveFacts, SyncAssumption
    <3> QED BY <1>0, <1>12, <2>2, <2>3, <3>1 DEF Shape, Receive
  <2>4. CASE ~(UNCHANGED <<node, up>> /\ Leave)
    <3>1. PICK d \in Held : /\ Send("received", d) /\ UNCHANGED <<conn, late>>
                            /\ node' \in Store /\ work' \in Task
      BY <1>0, <1>12, <2>4, ReceiveFacts
    <3>2. up' \in [Streams -> Seq(Answer)]
      BY <1>0, <2>1, <3>1, SendFacts
    <3> QED BY <1>0, <1>12, <2>2, <3>1, <3>2 DEF Shape, Receive
  <2> QED BY <2>3, <2>4
<1>13. CASE ApplyRuntime
  <2>1. work \in Task /\ work.next \in Slots /\ work.deployment \in Held
    BY <1>0, <1>13 DEF Shape, ApplyRuntime, Task
  <2>2. work' = [work EXCEPT !.next = work.next + 1]
    BY <1>13 DEF ApplyRuntime
  <2>3. work' \in Task
    BY <2>1, <2>2, SyncAssumption DEF Task, Slots
  <2>4. accepted' \in [Slots -> Held \cup {Nothing}] /\ force' \in [Slots -> Held \cup {Nothing}]
    BY <1>0, <1>13, <2>1 DEF Shape, ApplyRuntime
  <2> QED BY <1>0, <1>13, <2>3, <2>4 DEF Shape, ApplyRuntime
<1>14. CASE RejectRuntime
  <2>1. /\ work \in Task /\ work.next \in Slots /\ work.deployment \in Held /\ conn # 0
        /\ Send("rejected", work.deployment)
    BY <1>14, RejectFacts
  <2>2. up' \in [Streams -> Seq(Answer)]
    BY <1>0, <2>1, SendFacts
  <2>3. accepted' \in [Slots -> Held \cup {Nothing}] /\ force' \in [Slots -> Held \cup {Nothing}]
    <3>1. UNCHANGED <<accepted, force>> \/ Moves(work.next, work.deployment)
      BY <1>14, RejectFacts
    <3> QED BY <1>0, <2>1, <3>1 DEF Shape, Moves
  <2>4. late' \subseteq Slots \X Held /\ faults' \in 0 .. MaxFaults
    <3>1. late' \in {late, late \cup {<<work.next, work.deployment>>}} /\ faults' \in {faults, faults + 1}
          /\ (faults' # faults => faults < MaxFaults)
      BY <1>14, RejectFacts
    <3> QED BY <1>0, <2>1, <3>1, SyncAssumption DEF Shape
  <2> QED BY <1>0, <1>14, <2>2, <2>3, <2>4 DEF Shape, RejectRuntime
<1>15. CASE ReportApplied
  <2>1. conn # 0 /\ work.deployment \in Held
    BY <1>15, ReportFacts DEF Task
  <2>2. CASE UNCHANGED <<node, up>> /\ Leave
    <3>1. conn' = 0 /\ work' = None /\ late' \subseteq Slots \X Held /\ 0 \in 0 .. MaxStreams
      BY <1>0, <2>2, LeaveFacts, SyncAssumption
    <3> QED BY <1>0, <1>15, <2>2, <3>1 DEF Shape, ReportApplied
  <2>3. CASE ~(UNCHANGED <<node, up>> /\ Leave)
    <3>1. Send("applied", work.deployment) /\ work' = None /\ UNCHANGED <<conn, late>> /\ node' \in Store
      BY <1>15, <2>3, ReportFacts
    <3>2. up' \in [Streams -> Seq(Answer)]
      BY <1>0, <2>1, <3>1, SendFacts
    <3> QED BY <1>0, <1>15, <3>1, <3>2 DEF Shape, ReportApplied
  <2> QED BY <2>2, <2>3
<1>16. CASE StreamClosed
  BY <1>0, <1>16, LeaveFacts, SyncAssumption DEF Shape, StreamClosed
<1>17. CASE AgentLeaves
  BY <1>0, <1>17, LeaveFacts, SyncAssumption DEF Shape, AgentLeaves
<1>18. ASSUME NEW i \in Slots, WorkerRestart(i) PROVE Shape'
  BY <1>0, <1>18 DEF Shape, WorkerRestart
<1>19. ASSUME NEW request \in late, LateApply(request[1], request[2]) PROVE Shape'
  <2>1. request[1] \in Slots /\ request[2] \in Held
    BY <1>0 DEF Shape
  <2> QED BY <1>0, <1>19, <2>1 DEF Shape, LateApply
<1>20. CASE UNCHANGED vars
  BY <1>0, <1>20 DEF Shape, vars
<1> QED BY <1>1, <1>2, <1>3, <1>4, <1>5, <1>6, <1>7, <1>8, <1>9, <1>10, <1>11, <1>12, <1>13, <1>14,
           <1>15, <1>16, <1>17, <1>18, <1>19, <1>20 DEF Next

-----------------------------------------------------------------------------
(***************************************************************************)
(* Every step keeps the master's side sound.                               *)
(***************************************************************************)

\* Fewer handlers wait, one fewer, or one more.
LEMMA WaitingCount ==
    /\ Cardinality(Waiting) \in Nat /\ Cardinality(Waiting') \in Nat
    /\ Waiting' \subseteq Waiting => Cardinality(Waiting') <= Cardinality(Waiting)
    /\ \A k \in Waiting : Waiting' \subseteq Waiting \ {k} =>
          Cardinality(Waiting') + 1 <= Cardinality(Waiting)
    /\ \A k : Waiting' \subseteq Waiting \cup {k} =>
          Cardinality(Waiting') <= Cardinality(Waiting) + 1
<1>1. Cardinality(Waiting) \in Nat /\ Cardinality(Waiting') \in Nat
  BY WaitingFinite, FS_CardinalityType
<1>2. ASSUME NEW S, IsFiniteSet(S), Waiting' \subseteq S
      PROVE  Cardinality(Waiting') <= Cardinality(S)
  BY <1>2, FS_Subset
<1>3. \A k \in Waiting : IsFiniteSet(Waiting \ {k}) /\ Cardinality(Waiting \ {k}) = Cardinality(Waiting) - 1
  BY WaitingFinite, FS_RemoveElement
<1>4. ASSUME NEW k
      PROVE  /\ IsFiniteSet(Waiting \cup {k}) /\ Cardinality(Waiting \cup {k}) \in Nat
             /\ Cardinality(Waiting \cup {k}) <= Cardinality(Waiting) + 1
  <2>1. IsFiniteSet(Waiting \cup {k}) /\ Cardinality(Waiting \cup {k}) \in Nat
    BY WaitingFinite, FS_AddElement, FS_CardinalityType
  <2> QED BY <1>1, <2>1, WaitingFinite, FS_AddElement
<1>5. Waiting' \subseteq Waiting => Cardinality(Waiting') <= Cardinality(Waiting)
  BY <1>2, WaitingFinite
<1>6. \A k \in Waiting : Waiting' \subseteq Waiting \ {k} =>
          Cardinality(Waiting') + 1 <= Cardinality(Waiting)
  <2> SUFFICES ASSUME NEW k \in Waiting, Waiting' \subseteq Waiting \ {k}
               PROVE  Cardinality(Waiting') + 1 <= Cardinality(Waiting)
    OBVIOUS
  <2>1. IsFiniteSet(Waiting \ {k}) /\ Cardinality(Waiting \ {k}) = Cardinality(Waiting) - 1
    BY <1>3
  <2>2. Cardinality(Waiting') <= Cardinality(Waiting \ {k})
    BY <1>2, <2>1
  <2> QED BY <1>1, <2>1, <2>2
<1>7. \A k : Waiting' \subseteq Waiting \cup {k} =>
          Cardinality(Waiting') <= Cardinality(Waiting) + 1
  <2> SUFFICES ASSUME NEW k, Waiting' \subseteq Waiting \cup {k}
               PROVE  Cardinality(Waiting') <= Cardinality(Waiting) + 1
    OBVIOUS
  <2>1. /\ IsFiniteSet(Waiting \cup {k}) /\ Cardinality(Waiting \cup {k}) \in Nat
        /\ Cardinality(Waiting \cup {k}) <= Cardinality(Waiting) + 1
    BY <1>4
  <2>2. Cardinality(Waiting') <= Cardinality(Waiting \cup {k})
    BY <1>2, <2>1
  <2> QED BY <1>1, <2>1, <2>2
<1> QED BY <1>1, <1>5, <1>6, <1>7

\* MasterSound, stream by stream.
StreamSound(k) ==
    /\ session[k].state = "open" <=> registered = k
    /\ session[k].state \in {"begun", "open"} => session[k].gen \in 1 .. db.generation
    /\ k > opened => session[k].state = "closed"

\* Closing a handler keeps the streams sound.
LEMMA ClosingStep ==
    ASSUME Inv, NEW k \in Streams, Closing(k), db'.generation = db.generation, UNCHANGED opened
    PROVE  /\ \A j \in Streams : StreamSound(j)' /\ (j # k => session'[j] = session[j])
           /\ session'[k] = Closed
           /\ Waiting' \subseteq Waiting \ {k}
<1>1. session \in [Streams -> Handler] /\ 0 \notin Streams /\ \A j \in Streams : StreamSound(j)
  BY SyncAssumption DEF Inv, Shape, MasterSound, StreamSound, Streams
<1>2. /\ session' = [session EXCEPT ![k] = Closed]
      /\ registered' = IF registered = k THEN 0 ELSE registered
  BY DEF Closing
<1>3. session'[k] = Closed /\ session'[k].state = "closed" /\ \A j \in Streams \ {k} : session'[j] = session[j]
  BY <1>1, <1>2, ClosedFacts
<1>4. Waiting' \subseteq Waiting \ {k}
  BY <1>3 DEF Waiting
<1>5. StreamSound(k)'
  BY <1>1, <1>2, <1>3 DEF StreamSound
<1>6. \A j \in Streams \ {k} : StreamSound(j)'
  BY <1>1, <1>2, <1>3 DEF StreamSound
<1> QED BY <1>3, <1>4, <1>5, <1>6

\* A handler that stays open keeps the streams sound.
LEMMA StayingStep ==
    ASSUME Inv, NEW k \in Streams, NEW t \in Handler, session' = [session EXCEPT ![k] = t],
           session[k].state = "open", t.state = "open", t.gen = session[k].gen,
           db'.generation = db.generation, UNCHANGED <<registered, opened>>
    PROVE  (\A j \in Streams : StreamSound(j)') /\ Waiting' \subseteq Waiting
<1>1. session \in [Streams -> Handler] /\ \A j \in Streams : StreamSound(j)
  BY DEF Inv, Shape, MasterSound, StreamSound
<1>2. session'[k] = t /\ \A j \in Streams \ {k} : session'[j] = session[j]
  BY <1>1
<1> QED BY <1>1, <1>2 DEF StreamSound, Waiting

\* Every step keeps the master's side sound.
LEMMA MasterNext == Inv /\ [Next]_vars => MasterSound'
<1> SUFFICES ASSUME Inv, [Next]_vars PROVE MasterSound'
  OBVIOUS
<1> USE DEF master, agent, runtimes
<1>a. /\ Shape /\ MasterSound /\ RowSound(db) /\ \A k \in Streams : StreamSound(k)
      /\ db.generation \in Nat /\ opened \in Nat /\ db \in Row
      /\ backup # None => backup.generation \in Nat
      /\ db.generation + Cardinality(Waiting) <= opened
  BY SyncAssumption DEF Inv, Shape, MasterSound, StreamSound, Row
<1>b. ASSUME UNCHANGED backup, RowSound(db'), \A k \in Streams : StreamSound(k)',
             opened' \in Nat, opened <= opened',
             db'.generation + Cardinality(Waiting') <= opened'
      PROVE  MasterSound'
  BY <1>a, <1>b DEF MasterSound, StreamSound
<1>c. ASSUME UNCHANGED <<backup, opened>>, RowSound(db'), db'.generation = db.generation,
             \A k \in Streams : StreamSound(k)', Waiting' \subseteq Waiting
      PROVE  MasterSound'
  <2>1. Cardinality(Waiting') <= Cardinality(Waiting) /\ Cardinality(Waiting) \in Nat /\ Cardinality(Waiting') \in Nat
    BY <1>c, WaitingCount
  <2>2. db'.generation + Cardinality(Waiting') <= opened'
    BY <1>a, <1>c, <2>1
  <2> QED BY <1>a, <1>b, <1>c, <2>2
<1>1. ASSUME NEW p \in Payloads, Publish(p) PROVE MasterSound'
  <2>1. RowSound(db') /\ db'.generation = db.generation
    BY <1>a, <1>1, PublishFacts
  <2>2. UNCHANGED <<backup, opened, session, registered>>
    BY <1>1 DEF Publish
  <2> QED BY <1>a, <1>c, <2>1, <2>2 DEF StreamSound, Waiting
<1>2. ASSUME NEW k \in Streams, BeginSession(k) PROVE MasterSound'
  <2>1. /\ session[k].state = "hello" /\ db' \in Row /\ UNCHANGED <<backup, opened>>
        /\ db'.desired = db.desired /\ db'.applied = db.applied /\ db'.deployments = db.deployments
        /\ db'.sent \in {0, db.sent}
    BY <1>2, BeginFacts DEF BeginSession
  <2>2. RowSound(db')
    BY <1>a, <2>1 DEF RowSound, Row
  <2>3. CASE Closing(k) /\ db'.generation = db.generation
    BY <1>c, <2>1, <2>2, <2>3, ClosingStep
  <2>4. CASE ~(Closing(k) /\ db'.generation = db.generation)
    <3>1. UNCHANGED registered /\ db'.generation = db.generation + 1
      BY <1>2, <2>4, BeginFacts
    <3>2. PICK t \in Handler : /\ session' = [session EXCEPT ![k] = t] /\ t.state = "begun"
                               /\ t.gen = db.generation + 1
      BY <1>2, <2>4, BeginFacts
    <3>3. session'[k] = t /\ \A j \in Streams \ {k} : session'[j] = session[j]
      BY <1>a, <3>2 DEF Shape
    <3>4. k \in Waiting /\ Waiting' \subseteq Waiting \ {k}
      BY <2>1, <3>2, <3>3 DEF Waiting
    <3>5. Cardinality(Waiting') + 1 <= Cardinality(Waiting) /\ Cardinality(Waiting) \in Nat
          /\ Cardinality(Waiting') \in Nat
      BY <3>4, WaitingCount
    <3>6. db'.generation + Cardinality(Waiting') <= opened'
      BY <1>a, <2>1, <3>1, <3>5
    <3>7. StreamSound(k)'
      BY <1>a, <2>1, <3>1, <3>2, <3>3 DEF StreamSound
    <3>8. \A j \in Streams \ {k} : StreamSound(j)'
      BY <1>a, <2>1, <3>1, <3>3 DEF StreamSound
    <3> QED BY <1>a, <1>b, <2>1, <2>2, <3>6, <3>7, <3>8
  <2> QED BY <2>3, <2>4
<1>3. ASSUME NEW k \in Streams, Register(k) PROVE MasterSound'
  <2>1. UNCHANGED <<db, backup, opened>> /\ session[k].state = "begun" /\ session \in [Streams -> Handler]
    BY <1>a, <1>3 DEF Register, Shape
  <2>2. CASE session' = [session EXCEPT ![k] = Closed] /\ UNCHANGED registered
    <3>1. Closing(k)
      BY <1>a, <2>1, <2>2 DEF Closing, StreamSound
    <3> QED BY <1>a, <1>c, <2>1, <3>1, ClosingStep
  <2>3. CASE /\ session' = [s \in Streams |->
                              IF s = k THEN [session[k] EXCEPT !.state = "open"]
                              ELSE IF s = registered THEN Closed ELSE session[s]]
             /\ registered' = k
    <3> DEFINE t == [session[k] EXCEPT !.state = "open"]
    <3>1. t.state = "open" /\ t.gen = session[k].gen
      BY <2>1 DEF Handler
    <3> HIDE DEF t
    <3>2. /\ session'[k] = t
          /\ \A j \in Streams \ {k} : session'[j] = (IF j = registered THEN Closed ELSE session[j])
      BY <2>3 DEF t
    <3>3. \A j \in Streams \ {k} : session'[j].state # "open"
      BY <1>a, <3>2, ClosedFacts DEF StreamSound
    <3>4. Waiting' \subseteq Waiting
      BY <3>1, <3>2, ClosedFacts DEF Waiting
    <3>5. StreamSound(k)'
      BY <1>a, <2>1, <2>3, <3>1, <3>2 DEF StreamSound
    <3>6. \A j \in Streams \ {k} : StreamSound(j)'
      BY <1>a, <2>1, <2>3, <3>2, <3>3, ClosedFacts DEF StreamSound
    <3> QED BY <1>a, <1>c, <2>1, <3>4, <3>5, <3>6
  <2> QED BY <1>3, <2>2, <2>3 DEF Register
<1>4. ASSUME NEW k \in Streams, NEW forced \in BOOLEAN, Deliver(k, forced) PROVE MasterSound'
  <2>1. UNCHANGED <<backup, opened, registered>> /\ session[k].state = "open"
    BY <1>4 DEF Deliver
  <2>2. RowSound(db') /\ db'.generation = db.generation
    BY <1>4, DeliverFacts
  <2>3. \E t \in Handler : /\ session' = [session EXCEPT ![k] = t]
                           /\ t.state = "open" /\ t.gen = session[k].gen
    BY <1>4, DeliverFacts
  <2> QED BY <1>c, <2>1, <2>2, <2>3, StayingStep
<1>5. ASSUME NEW k \in Streams, SessionRevoked(k) PROVE MasterSound'
  BY <1>a, <1>c, <1>5, ClosingStep DEF SessionRevoked
<1>6. ASSUME NEW k \in Streams, HandleResult(k) PROVE MasterSound'
  <2>1. UNCHANGED <<backup, opened>> /\ session[k].state = "open"
    BY <1>6 DEF HandleResult
  <2>2. CASE Closing(k) /\ UNCHANGED db
    BY <1>a, <1>c, <2>1, <2>2, ClosingStep
  <2>3. CASE ~(Closing(k) /\ UNCHANGED db)
    <3>1. RowSound(db') /\ db'.generation = db.generation /\ UNCHANGED registered
      BY <1>6, <2>3, ResultFacts
    <3>2. \E t \in Handler : /\ session' = [session EXCEPT ![k] = t]
                             /\ t.state = "open" /\ t.gen = session[k].gen
      BY <1>6, <2>3, ResultFacts
    <3> QED BY <1>c, <2>1, <3>1, <3>2, StayingStep
  <2> QED BY <2>2, <2>3
<1>7. ASSUME NEW k \in Streams, HandlerEnds(k) PROVE MasterSound'
  BY <1>a, <1>c, <1>7, ClosingStep DEF HandlerEnds
<1>8. CASE Snapshot
  <2>1. UNCHANGED <<db, session, registered, opened>> /\ backup' = db
    BY <1>8 DEF Snapshot
  <2>2. Waiting' = Waiting /\ Cardinality(Waiting) \in Nat /\ Cardinality(Waiting') = Cardinality(Waiting)
    BY <2>1, WaitingCount DEF Waiting
  <2>3. db.generation <= opened
    BY <1>a, <2>2
  <2> QED BY <1>a, <2>1, <2>2, <2>3 DEF MasterSound
<1>9. CASE Restore
  <2>1. /\ db' = backup /\ backup # None /\ UNCHANGED <<backup, opened>> /\ registered' = 0
        /\ session' = [k \in Streams |-> Closed]
    BY <1>9 DEF Restore
  <2>2. RowSound(db') /\ db'.generation <= opened /\ db'.generation \in Nat
    BY <1>a, <2>1 DEF MasterSound
  <2>3. \A k \in Streams : session'[k].state = "closed" /\ k # 0
    BY <2>1, ClosedFacts, SyncAssumption DEF Streams
  <2>4. \A k \in Streams : StreamSound(k)'
    BY <2>1, <2>3 DEF StreamSound
  <2>5. Waiting' = {}
    BY <2>3 DEF Waiting
  <2>6. Cardinality(Waiting') = 0
    BY <2>5, FS_EmptySet
  <2> QED BY <1>a, <1>b, <2>1, <2>2, <2>4, <2>6
<1>10. CASE Connect
  <2>0. opened + 1 \in Streams
    BY <1>a, <1>10, SyncAssumption DEF Connect, Shape, Streams
  <2> PICK k \in Streams : k = opened + 1
    BY <2>0
  <2>1. /\ opened' = k /\ UNCHANGED <<db, backup, registered>>
        /\ session \in [Streams -> Handler]
        /\ session' = [session EXCEPT ![k] =
             [Closed EXCEPT !.state = "hello",
                !.hello = [authority |-> node.authority, desired |-> node.desired, applied |-> node.applied]]]
    BY <1>a, <1>10 DEF Connect, Shape
  <2>2. session[k].state = "closed" /\ registered # k
    BY <1>a DEF StreamSound
  <2>3. session'[k].state = "hello" /\ \A j \in Streams \ {k} : session'[j] = session[j]
    BY <2>1 DEF Closed
  <2>4. Waiting' \subseteq Waiting \cup {k}
    BY <2>3 DEF Waiting
  <2>5. Cardinality(Waiting') <= Cardinality(Waiting) + 1 /\ Cardinality(Waiting) \in Nat
        /\ Cardinality(Waiting') \in Nat
    BY <2>4, WaitingCount
  <2>6. opened' \in Nat /\ opened' = opened + 1
    BY <1>a, <2>1
  <2>7. db'.generation + Cardinality(Waiting') <= opened'
    BY <1>a, <2>1, <2>5, <2>6
  <2>8. StreamSound(k)'
    BY <2>1, <2>2, <2>3, <2>6 DEF StreamSound, Streams
  <2>9. \A j \in Streams \ {k} : StreamSound(j)'
    BY <1>a, <2>1, <2>3, <2>6 DEF StreamSound, Streams
  <2> QED BY <1>a, <1>b, <2>1, <2>6, <2>7, <2>8, <2>9
<1>11. CASE UNCHANGED <<master, opened>>
  BY <1>a, <1>c, <1>11 DEF StreamSound, Waiting
<1>12. CASE \/ TakeAuthority \/ Receive \/ ApplyRuntime \/ RejectRuntime \/ ReportApplied
            \/ StreamClosed \/ AgentLeaves
  BY <1>11, <1>12 DEF TakeAuthority, Receive, ApplyRuntime, RejectRuntime, ReportApplied, StreamClosed,
                      AgentLeaves
<1>13. CASE \/ \E i \in Slots : WorkerRestart(i)
            \/ \E request \in late : LateApply(request[1], request[2])
  BY <1>11, <1>13 DEF WorkerRestart, LateApply
<1>14. CASE UNCHANGED vars
  BY <1>11, <1>14 DEF vars
<1> QED BY <1>1, <1>2, <1>3, <1>4, <1>5, <1>6, <1>7, <1>8, <1>9, <1>10, <1>12, <1>13, <1>14 DEF Next

-----------------------------------------------------------------------------
(***************************************************************************)
(* Every step keeps the node's side sound.                                 *)
(***************************************************************************)

\* No runtime and no worker's store goes back; at the same revision a runtime
\* has the same payload; what they have then, the node held before.
Onward ==
    \A j \in Slots :
       /\ force[j].rev <= force'[j].rev
       /\ force[j].rev = force'[j].rev => force[j].payload = force'[j].payload
       /\ accepted[j].rev <= accepted'[j].rev /\ force'[j].rev <= accepted'[j].rev
       /\ OnNode(force'[j]) /\ OnNode(accepted'[j])

\* The revision of what a worker or a runtime has is a number.
LEMMA SlotFacts ==
    ASSUME Shape
    PROVE  /\ \A e \in Held \cup {Nothing} : e.rev \in Nat
           /\ \A j \in Slots :
                /\ accepted[j] \in Held \cup {Nothing} /\ force[j] \in Held \cup {Nothing}
                /\ accepted[j].rev \in Nat /\ force[j].rev \in Nat
                /\ OnNode(accepted[j]) /\ OnNode(force[j])
<1>1. \A e \in Held \cup {Nothing} : e.rev \in Nat
  BY SyncAssumption DEF Held, Nothing, Revisions
<1>2. \A j \in Slots : accepted[j] \in Held \cup {Nothing} /\ force[j] \in Held \cup {Nothing}
  BY DEF Shape
<1>3. \A j \in Slots : OnNode(accepted[j]) /\ OnNode(force[j])
  BY DEF OnNode
<1> QED BY <1>1, <1>2, <1>3

\* A move of one runtime is onward.
LEMMA MovesOnward ==
    ASSUME Inv, NEW i \in Slots, NEW d, Moves(i, d)
    PROVE  Onward
<1> SUFFICES ASSUME NEW j \in Slots
             PROVE  /\ force[j].rev <= force'[j].rev
                    /\ force[j].rev = force'[j].rev => force[j].payload = force'[j].payload
                    /\ accepted[j].rev <= accepted'[j].rev /\ force'[j].rev <= accepted'[j].rev
                    /\ OnNode(force'[j]) /\ OnNode(accepted'[j])
  BY DEF Onward
<1>1. Shape /\ NodeSound
  BY DEF Inv
<1>2. accepted \in [Slots -> Held \cup {Nothing}] /\ force \in [Slots -> Held \cup {Nothing}]
  BY <1>1 DEF Shape
<1>3. /\ d \in Held \cup {Nothing} /\ OnNode(d) /\ accepted[i].rev <= d.rev /\ d.rev \in Nat
      /\ accepted[i].rev \in Nat /\ force[i].rev \in Nat /\ force[i].rev <= accepted[i].rev
  BY <1>1, SlotFacts DEF Moves, NodeSound
<1>4. force[i].rev = d.rev => force[i].payload = d.payload
  BY <1>1, <1>3, SlotFacts DEF NodeSound
<1>5. CASE j = i
  BY <1>1, <1>2, <1>3, <1>4, <1>5, SlotFacts DEF Moves
<1>6. CASE j # i
  <2>1. accepted'[j] = accepted[j] /\ force'[j] = force[j]
    BY <1>2, <1>6 DEF Moves
  <2> QED BY <1>1, <2>1, SlotFacts DEF NodeSound
<1> QED BY <1>5, <1>6

\* So is staying where one is.
LEMMA StillOnward ==
    ASSUME Inv, UNCHANGED <<accepted, force>>
    PROVE  Onward
BY SlotFacts DEF Onward, Inv, NodeSound

\* A step in which the node takes nothing new.
Steady ==
    /\ Onward
    /\ \A d \in Held \cup {Nothing} : OnNode(d)' => OnNode(d)
    /\ node'.desired = node.desired
    /\ node.applied <= node'.applied /\ node.authority <= node'.authority
    /\ \A r \in DOMAIN node'.deploys : r \in DOMAIN node.deploys /\ node'.deploys[r] = node.deploys[r]
    /\ node.desired \in DOMAIN node.deploys => node.desired \in DOMAIN node'.deploys

\* A step in which it takes the deployment d of its stream.
Takes(d) ==
    /\ UNCHANGED <<accepted, force>> /\ OnNode(d)' /\ work = None /\ conn # 0 /\ down[conn] # <<>>
    /\ \E m \in Order : m = down[conn][1] /\ d.rev = m.rev /\ d.payload = m.payload /\ d.gen = m.gen
    /\ work' = [deployment |-> d, next |-> 1]
    /\ \A e \in Held \cup {Nothing} : OnNode(e)' => OnNode(e) \/ e = d
    /\ node'.desired = d.rev /\ node.desired <= d.rev
    /\ node.applied = node'.applied /\ node.authority <= node'.authority
    /\ d.rev \in DOMAIN node.deploys => node.deploys[d.rev].payload = d.payload
    /\ d.rev \in DOMAIN node'.deploys /\ node'.deploys[d.rev] = d
    /\ \A r \in DOMAIN node'.deploys :
         r # d.rev => r \in DOMAIN node.deploys /\ node'.deploys[r] = node.deploys[r]

\* When the runtimes and the store stand still and no more is held, the step
\* is steady.
LEMMA SteadyStep ==
    ASSUME Inv, Onward, UNCHANGED node,
           work' = None \/ (work # None /\ work'.deployment = work.deployment) \/ UNCHANGED work,
           \A x \in late' : x \in late \/ (work # None /\ x[2] = work.deployment)
    PROVE  Steady
<1>1. node.applied \in Nat /\ node.authority \in Nat
  BY SyncAssumption DEF Inv, Shape, Store
<1>2. ASSUME NEW d \in Held \cup {Nothing}, OnNode(d)' PROVE OnNode(d)
  <2>1. CASE \E i \in Slots : d = accepted'[i] \/ d = force'[i]
    BY <2>1 DEF Onward
  <2>2. CASE \E r \in DOMAIN node'.deploys : d = node'.deploys[r]
    BY <2>2 DEF OnNode
  <2>3. CASE work' # None /\ d = work'.deployment
    BY <2>3 DEF OnNode
  <2>4. CASE \E i \in Slots : <<i, d>> \in late'
    <3>1. PICK i \in Slots : <<i, d>> \in late'
      BY <2>4
    <3>2. <<i, d>> \in late \/ (work # None /\ d = work.deployment)
      BY <3>1
    <3> QED BY <3>2 DEF OnNode
  <2> QED BY <1>2, <2>1, <2>2, <2>3, <2>4 DEF OnNode
<1> QED BY <1>1, <1>2 DEF Steady

\* Every step is steady or takes a deployment.
LEMMA NodeSteps == Inv /\ [Next]_vars => Steady \/ \E d \in Held : Takes(d)
<1> SUFFICES ASSUME Inv, [Next]_vars PROVE Steady \/ \E d \in Held : Takes(d)
  OBVIOUS
<1> USE DEF master, agent, runtimes
<1>0. Shape /\ NodeSound
  BY DEF Inv
<1>1. CASE UNCHANGED <<agent, runtimes>>
  BY <1>1, StillOnward, SteadyStep
<1>2. CASE \E p \in Payloads : Publish(p)
  BY <1>1, <1>2 DEF Publish
<1>3. CASE \E k \in Streams :
             BeginSession(k) \/ Register(k) \/ Deliver(k, FALSE) \/ Deliver(k, TRUE)
             \/ SessionRevoked(k) \/ HandleResult(k) \/ HandlerEnds(k)
  BY <1>1, <1>3 DEF BeginSession, Register, Deliver, SessionRevoked, HandleResult, HandlerEnds
<1>4. CASE Snapshot \/ Restore \/ UNCHANGED vars
  BY <1>1, <1>4 DEF Snapshot, Restore, vars
<1>5. ASSUME Leave, UNCHANGED <<node, accepted, force>> PROVE Steady
  <2>1. work' = None /\ \A x \in late' : x \in late \/ (work # None /\ x[2] = work.deployment)
    BY <1>0, <1>5, LeaveFacts
  <2>2. Onward
    BY <1>5, StillOnward
  <2> QED BY <1>5, <2>1, <2>2, SteadyStep
<1>6. CASE Connect
  BY <1>6, StillOnward, SteadyStep DEF Connect
<1>7. CASE TakeAuthority
  <2>1. CASE Leave /\ UNCHANGED node
    BY <1>5, <1>7, <2>1 DEF TakeAuthority
  <2>2. CASE /\ Head(down[conn]).gen >= node.authority
             /\ node' = [node EXCEPT !.authority = Head(down[conn]).gen] /\ UNCHANGED <<work, late>>
    <3>1. UNCHANGED <<accepted, force>> /\ node \in Store
      BY <1>0, <1>7 DEF TakeAuthority, Shape
    <3>2. /\ node'.desired = node.desired /\ node'.applied = node.applied
          /\ node'.deploys = node.deploys /\ node'.authority = Head(down[conn]).gen
      BY <2>2, <3>1 DEF Store
    <3>3. node.applied \in Nat
      BY <3>1, SyncAssumption DEF Store
    <3>4. \A d \in Held \cup {Nothing} : OnNode(d)' => OnNode(d)
      BY <2>2, <3>1, <3>2 DEF OnNode
    <3> QED BY <2>2, <3>1, <3>2, <3>3, <3>4, StillOnward DEF Steady
  <2> QED BY <1>7, <2>1, <2>2 DEF TakeAuthority
<1>8. CASE Receive
  <2>1. UNCHANGED <<accepted, force>> /\ work = None /\ conn # 0 /\ down[conn] # <<>>
    BY <1>8 DEF Receive
  <2>2. CASE UNCHANGED <<node, up>> /\ Leave
    BY <1>5, <2>1, <2>2
  <2>3. CASE ~(UNCHANGED <<node, up>> /\ Leave)
    <3>1. PICK d \in Held :
            /\ \E m \in Order : m = down[conn][1] /\ d.rev = m.rev /\ d.payload = m.payload /\ d.gen = m.gen
            /\ UNCHANGED <<conn, late>>
            /\ MayReceive(node.authority, node.desired, StoredAt(d.rev), d)
            /\ node' \in Store /\ node'.authority = d.gen /\ node'.desired = d.rev
            /\ node'.applied = node.applied
            /\ d.rev \in DOMAIN node'.deploys /\ node'.deploys[d.rev] = d
            /\ \A r \in DOMAIN node'.deploys :
                 r # d.rev => r \in DOMAIN node.deploys /\ node'.deploys[r] = node.deploys[r]
            /\ work' = [deployment |-> d, next |-> 1]
      <4> DEFINE m == Head(down[conn])
                 d == [rev |-> m.rev, payload |-> m.payload, gen |-> m.gen]
      <4>1. /\ d \in Held /\ UNCHANGED <<conn, late>>
            /\ MayReceive(node.authority, node.desired, StoredAt(d.rev), d)
            /\ node' \in Store /\ node'.authority = d.gen /\ node'.desired = d.rev
            /\ node'.applied = node.applied
            /\ d.rev \in DOMAIN node'.deploys /\ node'.deploys[d.rev] = d
            /\ \A r \in DOMAIN node'.deploys :
                 r # d.rev => r \in DOMAIN node.deploys /\ node'.deploys[r] = node.deploys[r]
            /\ work' = [deployment |-> d, next |-> 1]
        BY <1>0, <1>8, <2>3, ReceiveFacts
      <4>2. m \in Order /\ m = down[conn][1]
        BY <1>0, <1>8, <2>1, ReceiveFacts, HeadDown
      <4>3. \E x \in Order : x = down[conn][1] /\ d.rev = x.rev /\ d.payload = x.payload /\ d.gen = x.gen
        BY <4>2
      <4> HIDE DEF d, m
      <4> QED BY <4>1, <4>3
    <3>2. /\ node.desired <= d.rev /\ node.authority <= d.gen
          /\ StoredAt(d.rev) # Nothing => StoredAt(d.rev).payload = d.payload
      <4>1. /\ d.rev \in Nat /\ d.gen \in Nat /\ node.desired \in Nat /\ node.authority \in Nat
        <5>1. d.rev \in Nat /\ d.gen \in Nat
          BY SyncAssumption DEF Held, Revisions, Streams
        <5>2. node.desired \in Nat /\ node.authority \in Nat
          BY <1>0, SyncAssumption DEF Shape, Store
        <5> QED BY <5>1, <5>2
      <4> QED BY <3>1, <4>1 DEF MayReceive
    <3>3. d.rev \in DOMAIN node.deploys => node.deploys[d.rev].payload = d.payload
      <4> SUFFICES ASSUME d.rev \in DOMAIN node.deploys PROVE node.deploys[d.rev].payload = d.payload
        OBVIOUS
      <4>1. node.deploys[d.rev] \in Held
        BY <1>0, MapsFacts DEF Shape, Store
      <4>2. node.deploys[d.rev] # Nothing
        BY <4>1, SyncAssumption DEF Held, Nothing, Revisions
      <4> QED BY <3>2, <4>2 DEF StoredAt
    <3>4. ASSUME NEW e \in Held \cup {Nothing}, OnNode(e)' PROVE OnNode(e) \/ e = d
      <4>1. CASE \E r \in DOMAIN node'.deploys : e = node'.deploys[r]
        BY <3>1, <4>1 DEF OnNode
      <4>2. CASE work' # None /\ e = work'.deployment
        BY <3>1, <4>2
      <4>3. CASE ~(\E r \in DOMAIN node'.deploys : e = node'.deploys[r]) /\ ~(work' # None /\ e = work'.deployment)
        BY <2>1, <3>1, <3>4, <4>3 DEF OnNode
      <4> QED BY <4>1, <4>2, <4>3
    <3>5. OnNode(d)'
      BY <3>1 DEF OnNode
    <3>6. Takes(d)
      BY <2>1, <3>1, <3>2, <3>3, <3>4, <3>5 DEF Takes
    <3> QED BY <3>6
  <2> QED BY <2>2, <2>3
<1>9. CASE ApplyRuntime
  <2>1. /\ work # None /\ work \in Task /\ work.next \in Slots /\ work.deployment \in Held
        /\ OnNode(work.deployment)
    BY <1>0, <1>9 DEF ApplyRuntime, Shape, Task, OnNode
  <2>2. Moves(work.next, work.deployment)
    BY <1>0, <1>9, <2>1, WorkerFacts DEF ApplyRuntime, Moves, Shape
  <2>3. work' = [work EXCEPT !.next = work.next + 1] /\ UNCHANGED <<node, late>>
    BY <1>9 DEF ApplyRuntime
  <2>4. work'.deployment = work.deployment
    BY <2>1, <2>3 DEF Task
  <2>5. Onward
    BY <2>1, <2>2, MovesOnward
  <2> QED BY <2>1, <2>3, <2>4, <2>5, SteadyStep
<1>10. CASE RejectRuntime
  <2>1. /\ work # None /\ work.next \in Slots /\ work' = None /\ UNCHANGED node
        /\ UNCHANGED <<accepted, force>> \/ Moves(work.next, work.deployment)
        /\ late' \in {late, late \cup {<<work.next, work.deployment>>}}
    BY <1>10, RejectFacts DEF RejectRuntime
  <2>2. Onward
    BY <2>1, StillOnward, MovesOnward
  <2>3. \A x \in late' : x \in late \/ (work # None /\ x[2] = work.deployment)
    BY <2>1
  <2> QED BY <2>1, <2>2, <2>3, SteadyStep
<1>11. CASE ReportApplied
  <2>1. UNCHANGED <<accepted, force>>
    BY <1>11 DEF ReportApplied
  <2>2. CASE UNCHANGED <<node, up>> /\ Leave
    BY <1>5, <2>1, <2>2
  <2>3. CASE ~(UNCHANGED <<node, up>> /\ Leave)
    <3>1. /\ work' = None /\ UNCHANGED late
          /\ work.deployment.rev >= node.applied
          /\ node' \in Store /\ node'.authority = node.authority
          /\ node'.desired = node.desired /\ node'.applied = work.deployment.rev
          /\ \A r \in DOMAIN node'.deploys :
               r \in DOMAIN node.deploys /\ node'.deploys[r] = node.deploys[r]
          /\ \A r \in DOMAIN node.deploys :
               r >= node.desired => r \in DOMAIN node'.deploys
      BY <1>11, <2>3, ReportFacts
    <3>2. \A d \in Held \cup {Nothing} : OnNode(d)' => OnNode(d)
      BY <2>1, <3>1 DEF OnNode
    <3>3. node.authority \in Nat /\ node.applied \in Nat /\ node'.applied \in Nat /\ node.desired \in Nat
      BY <1>0, <3>1, SyncAssumption DEF Shape, Store
    <3>4. node.applied <= node'.applied /\ node.authority <= node'.authority /\ node.desired >= node.desired
      BY <3>1, <3>3
    <3> QED BY <2>1, <3>1, <3>2, <3>4, StillOnward DEF Steady
  <2> QED BY <2>2, <2>3
<1>12. CASE StreamClosed \/ AgentLeaves
  BY <1>5, <1>12 DEF StreamClosed, AgentLeaves
<1>13. ASSUME NEW i \in Slots, WorkerRestart(i) PROVE Steady
  <2>1. Moves(i, accepted[i])
    BY <1>0, <1>13, SlotFacts DEF WorkerRestart, Moves, Shape
  <2>2. UNCHANGED <<node, work>> /\ \A x \in late' : x \in late
    BY <1>13 DEF WorkerRestart
  <2> QED BY <2>1, <2>2, MovesOnward, SteadyStep
<1>14. ASSUME NEW request \in late, LateApply(request[1], request[2]) PROVE Steady
  <2>1. request[1] \in Slots /\ request[2] \in Held /\ request = <<request[1], request[2]>>
    BY <1>0 DEF Shape
  <2>2. OnNode(request[2])
    BY <2>1 DEF OnNode
  <2>3. UNCHANGED <<node, work>> /\ \A x \in late' : x \in late
    BY <1>14 DEF LateApply
  <2>4. UNCHANGED <<accepted, force>> \/ Moves(request[1], request[2])
    BY <1>0, <1>14, <2>1, <2>2, WorkerFacts DEF LateApply, Moves, Shape
  <2>5. Onward
    BY <2>1, <2>4, StillOnward, MovesOnward
  <2> QED BY <2>3, <2>5, SteadyStep
<1> QED BY <1>2, <1>3, <1>4, <1>6, <1>7, <1>8, <1>9, <1>10, <1>11, <1>12, <1>13, <1>14 DEF Next

\* Every step keeps the node's side sound.
LEMMA NodeNext == Inv /\ [Next]_vars => NodeSound'
<1> SUFFICES ASSUME Inv, [Next]_vars PROVE NodeSound'
  OBVIOUS
<1>0. Shape /\ NodeSound /\ Shape'
  BY ShapeNext DEF Inv
<1>1. CASE Steady
  <2>1. \A i \in Slots : force'[i].rev <= accepted'[i].rev
    BY <1>1 DEF Steady, Onward
  <2>2. \A d \in Held \cup {Nothing} : OnNode(d)' => d.rev <= node'.desired
    BY <1>0, <1>1 DEF Steady, NodeSound
  <2>3. \A d, e \in Held \cup {Nothing} : OnNode(d)' /\ OnNode(e)' /\ d.rev = e.rev => d.payload = e.payload
    BY <1>0, <1>1 DEF Steady, NodeSound
  <2>4. /\ \A r \in DOMAIN node'.deploys : node'.deploys[r].rev = r
        /\ node'.desired # 0 => node'.desired \in DOMAIN node'.deploys
    BY <1>0, <1>1 DEF Steady, NodeSound
  <2> QED BY <2>1, <2>2, <2>3, <2>4 DEF NodeSound
<1>2. ASSUME NEW d \in Held, Takes(d) PROVE NodeSound'
  <2>1. \A i \in Slots : force'[i].rev <= accepted'[i].rev
    BY <1>0, <1>2 DEF Takes, NodeSound
  <2>2. /\ \A r \in DOMAIN node'.deploys : node'.deploys[r].rev = r
        /\ node'.desired # 0 => node'.desired \in DOMAIN node'.deploys
    BY <1>0, <1>2 DEF Takes, NodeSound
  <2>3. d.rev \in Nat /\ d.rev # 0 /\ node.desired \in Nat /\ node.desired <= d.rev /\ node'.desired = d.rev
    <3>1. d.rev \in Nat /\ d.rev # 0
      BY SyncAssumption DEF Held, Revisions
    <3>2. node.desired \in Nat
      BY <1>0, SyncAssumption DEF Shape, Store
    <3> QED BY <1>2, <3>1, <3>2 DEF Takes
  <2>4. \A e \in Held \cup {Nothing} : e.rev \in Nat
    BY <1>0, SlotFacts
  <2>5. ASSUME NEW e \in Held \cup {Nothing}, OnNode(e)
        PROVE  e.rev <= d.rev /\ (e.rev = d.rev => e.payload = d.payload)
    <3>1. e.rev <= node.desired
      BY <1>0, <2>5 DEF NodeSound
    <3>2. ASSUME e.rev = d.rev PROVE e.payload = d.payload
      <4>1. node.desired = d.rev
        BY <2>3, <2>4, <3>1, <3>2
      <4>2. d.rev \in DOMAIN node.deploys
        BY <1>0, <2>3, <4>1 DEF NodeSound
      <4>3. node.deploys[d.rev].payload = d.payload /\ node.deploys[d.rev].rev = d.rev
        BY <1>0, <1>2, <4>2 DEF Takes, NodeSound
      <4>4. node.deploys[d.rev] \in Held /\ OnNode(node.deploys[d.rev])
        <5>1. node.deploys[d.rev] \in Held
          BY <1>0, <4>2, MapsFacts DEF Shape, Store
        <5> QED BY <4>2, <5>1 DEF OnNode
      <4> QED BY <1>0, <2>5, <3>2, <4>3, <4>4 DEF NodeSound
    <3> QED BY <2>3, <2>4, <3>1, <3>2
  <2>6. \A e \in Held \cup {Nothing} : OnNode(e)' => e.rev <= node'.desired
    <3>1. \A e \in Held \cup {Nothing} : OnNode(e)' => OnNode(e) \/ e = d
      BY <1>2 DEF Takes
    <3> QED BY <2>3, <2>5, <3>1
  <2>7. \A e, f \in Held \cup {Nothing} : OnNode(e)' /\ OnNode(f)' /\ e.rev = f.rev => e.payload = f.payload
    <3>1. \A e \in Held \cup {Nothing} : OnNode(e)' => OnNode(e) \/ e = d
      BY <1>2 DEF Takes
    <3>2. \A e, f \in Held \cup {Nothing} : OnNode(e) /\ OnNode(f) /\ e.rev = f.rev => e.payload = f.payload
      BY <1>0 DEF NodeSound
    <3> QED BY <2>5, <3>1, <3>2
  <2> QED BY <2>1, <2>2, <2>6, <2>7 DEF NodeSound
<1> QED BY <1>1, <1>2, NodeSteps

\* No runtime, worker store or agent store goes back to an earlier revision or
\* generation (Store.Receive), whatever the master's database is restored to.
LEMMA BackwardsNext ==
    ASSUME Inv, [Next]_vars
    PROVE  /\ \A i \in Slots : force[i].rev <= force'[i].rev /\ accepted[i].rev <= accepted'[i].rev
           /\ node.desired <= node'.desired /\ node.applied <= node'.applied
           /\ node.authority <= node'.authority
<1>1. node.desired \in Nat /\ node.applied \in Nat
  BY SyncAssumption DEF Inv, Shape, Store
<1>2. Onward
  BY NodeSteps, StillOnward DEF Steady, Takes
<1>3. node.desired <= node'.desired /\ node.applied <= node'.applied /\ node.authority <= node'.authority
  BY <1>1, NodeSteps DEF Steady, Takes
<1> QED BY <1>2, <1>3 DEF Onward

-----------------------------------------------------------------------------
(***************************************************************************)
(* What was reached stays reached.                                         *)
(***************************************************************************)

\* No step takes a runtime back.
LEMMA ReachedStays ==
    ASSUME Inv, [Next]_vars
    PROVE  \A p : \A i \in Slots, r \in Nat : Reached(force, i, r, p) => Reached(force', i, r, p)
<1>1. Onward
  BY NodeSteps, StillOnward DEF Steady, Takes
<1>2. Shape /\ Shape'
  BY ShapeNext DEF Inv
<1>3. \A i \in Slots : force[i].rev \in Nat /\ force'[i].rev \in Nat
  <2>1. \A i \in Slots : force[i] \in Held \cup {Nothing} /\ force'[i] \in Held \cup {Nothing}
    BY <1>2 DEF Shape
  <2> QED BY <1>2, <2>1, SlotFacts
<1> SUFFICES ASSUME NEW i \in Slots, NEW r \in Nat, NEW p, Reached(force, i, r, p)
             PROVE  Reached(force', i, r, p)
  OBVIOUS
<1>4. /\ force[i].rev <= force'[i].rev
      /\ force[i].rev = force'[i].rev => force[i].payload = force'[i].payload
  BY <1>1 DEF Onward
<1>5. force[i].rev \in Nat /\ force'[i].rev \in Nat
  BY <1>3
<1> QED BY <1>4, <1>5 DEF Reached

\* Where an applied answer comes from: it was on its way already, or the agent
\* sends it once every runtime has taken the deployment.
LEMMA AppliedAnswers ==
    ASSUME Inv, [Next]_vars, NEW k \in Streams, NEW n \in 1 .. Len(up'[k]), up'[k][n].stage = "applied"
    PROVE  \/ \E m \in 1 .. Len(up[k]) : up'[k][n] = up[k][m]
           \/ /\ work # None /\ work \in Task /\ work.next = RuntimeCount + 1
              /\ up'[k][n].rev = work.deployment.rev /\ up'[k][n].payload = work.deployment.payload
<1> USE DEF master, agent, runtimes
<1>0. Shape /\ up \in [Streams -> Seq(Answer)] /\ up[k] \in Seq(Answer) /\ Len(up[k]) \in Nat
  BY LenProperties DEF Inv, Shape
<1>1. CASE UNCHANGED up
  BY <1>1
<1>2. ASSUME NEW stage \in {"received", "rejected", "applied"}, NEW d \in Held, conn # 0, Send(stage, d)
      PROVE  \/ \E m \in 1 .. Len(up[k]) : up'[k][n] = up[k][m]
             \/ stage = "applied" /\ up'[k][n].rev = d.rev /\ up'[k][n].payload = d.payload
  <2>1. CASE k # conn
    BY <1>0, <1>2, <2>1, SendFacts
  <2>2. CASE k = conn
    <3>1. /\ Len(up'[k]) = Len(up[k]) + 1
          /\ \A m \in 1 .. Len(up[k]) : up'[k][m] = up[k][m]
          /\ up'[k][Len(up[k]) + 1] =
                [stage |-> stage, gen |-> d.gen, rev |-> d.rev, payload |-> d.payload]
      BY <1>0, <1>2, <2>2, SendFacts
    <3>2. n \in 1 .. Len(up[k]) \/ n = Len(up[k]) + 1
      BY <1>0, <3>1
    <3> QED BY <3>1, <3>2
  <2> QED BY <2>1, <2>2
<1>3. CASE \E p \in Payloads : Publish(p)
  BY <1>1, <1>3 DEF Publish
<1>4. ASSUME NEW j \in Streams, HandleResult(j)
      PROVE \E m \in 1 .. Len(up[k]) : up'[k][n] = up[k][m]
  <2>1. up[j] # <<>> /\ up' = [up EXCEPT ![j] = Tail(@)]
    BY <1>4 DEF HandleResult
  <2>2. CASE j # k
    BY <1>0, <2>1, <2>2
  <2>3. CASE j = k
    <3>1. up'[k] = Tail(up[k])
      BY <1>0, <2>1, <2>3
    <3>2. Len(Tail(up[k])) = Len(up[k]) - 1 /\ \A i \in 1 .. Len(Tail(up[k])) : Tail(up[k])[i] = up[k][i + 1]
      BY <1>0, <2>1, <2>3, HeadTailProperties
    <3>3. n + 1 \in 1 .. Len(up[k]) /\ up'[k][n] = up[k][n + 1]
      BY <1>0, <3>1, <3>2
    <3> QED BY <3>3
  <2> QED BY <2>2, <2>3
<1>5. ASSUME NEW j \in Streams, HandlerEnds(j)
      PROVE \E m \in 1 .. Len(up[k]) : up'[k][n] = up[k][m]
  <2>1. up' = [up EXCEPT ![j] = <<>>]
    BY <1>5 DEF HandlerEnds
  <2>2. j # k
    BY <1>0, <2>1
  <2> QED BY <1>0, <2>1, <2>2
<1>6. CASE \E j \in Streams :
             BeginSession(j) \/ Register(j) \/ Deliver(j, FALSE) \/ Deliver(j, TRUE) \/ SessionRevoked(j)
  BY <1>1, <1>6 DEF BeginSession, Register, Deliver, SessionRevoked
<1>7. CASE Snapshot \/ Restore \/ Connect \/ TakeAuthority \/ ApplyRuntime \/ StreamClosed \/ AgentLeaves
           \/ UNCHANGED vars
  BY <1>1, <1>7 DEF Snapshot, Restore, Connect, TakeAuthority, ApplyRuntime, StreamClosed, AgentLeaves, vars
<1>8. CASE Receive
  <2>1. CASE UNCHANGED <<node, up>> /\ Leave
    BY <1>1, <2>1
  <2>2. CASE ~(UNCHANGED <<node, up>> /\ Leave)
    <3>1. \E d \in Held : Send("received", d)
      BY <1>0, <1>8, <2>2, ReceiveFacts
    <3>2. conn # 0
      BY <1>8 DEF Receive
    <3> QED BY <1>2, <3>1, <3>2
  <2> QED BY <2>1, <2>2
<1>9. CASE RejectRuntime
  <2>1. work.deployment \in Held /\ conn # 0 /\ Send("rejected", work.deployment)
    BY <1>9, RejectFacts
  <2> QED BY <1>2, <2>1
<1>10. CASE ReportApplied
  <2>1. /\ work # None /\ work \in Task /\ work.next = RuntimeCount + 1 /\ conn # 0
        /\ work.deployment \in Held
    BY <1>10, ReportFacts DEF Task
  <2>2. CASE UNCHANGED up
    BY <1>1, <2>2
  <2>3. CASE ~UNCHANGED up
    <3>1. Send("applied", work.deployment)
      BY <1>10, <2>3, ReportFacts
    <3> QED BY <1>2, <2>1, <3>1
  <2> QED BY <2>2, <2>3
<1>11. CASE \/ \E i \in Slots : WorkerRestart(i)
            \/ \E request \in late : LateApply(request[1], request[2])
  BY <1>1, <1>11 DEF WorkerRestart, LateApply
<1> QED BY <1>3, <1>4, <1>5, <1>6, <1>7, <1>8, <1>9, <1>10, <1>11 DEF Next

\* How applied_revision may change: a step leaves it, restores the snapshot, or
\* records an applied answer about a deployment the database has.
LEMMA AppliedMoves ==
    ASSUME Inv, [Next]_vars
    PROVE  /\ backup' # None => (backup' = backup \/ (backup' = db /\ UNCHANGED db))
           /\ \/ /\ db'.applied = db.applied
                 /\ db.applied # 0 => db'.deployments[db.applied] = db.deployments[db.applied]
              \/ backup # None /\ db' = backup
              \/ \E k \in Streams : \E n \in 1 .. Len(up[k]) :
                   /\ up[k][n].stage = "applied" /\ db'.applied = up[k][n].rev
                   /\ db'.applied # 0 => db'.deployments[db'.applied] = up[k][n].payload
<1> USE DEF master, agent, runtimes
<1>0. Shape /\ RowSound(db)
  BY DEF Inv, MasterSound
<1>1. CASE UNCHANGED <<db, backup>>
  BY <1>1, Zenon
<1>2. ASSUME NEW p \in Payloads, Publish(p)
      PROVE  /\ backup' = backup /\ db'.applied = db.applied
             /\ db.applied # 0 => db'.deployments[db.applied] = db.deployments[db.applied]
  BY <1>0, <1>2, PublishFacts DEF Publish
<1>3. ASSUME NEW k \in Streams, BeginSession(k)
      PROVE  /\ backup' = backup /\ db'.applied = db.applied
             /\ db.applied # 0 => db'.deployments[db.applied] = db.deployments[db.applied]
  BY <1>3, BeginFacts DEF BeginSession
<1>4. ASSUME NEW k \in Streams, NEW forced \in BOOLEAN, Deliver(k, forced)
      PROVE  /\ backup' = backup /\ db'.applied = db.applied
             /\ db.applied # 0 => db'.deployments[db.applied] = db.deployments[db.applied]
  BY <1>4, DeliverFacts DEF Deliver
<1>5. CASE \E k \in Streams : Register(k) \/ SessionRevoked(k) \/ HandlerEnds(k)
  BY <1>1, <1>5 DEF Register, SessionRevoked, HandlerEnds
<1>6. ASSUME NEW k \in Streams, HandleResult(k)
      PROVE  /\ backup' = backup
             /\ \/ /\ db'.applied = db.applied
                   /\ db.applied # 0 => db'.deployments[db.applied] = db.deployments[db.applied]
                \/ \E n \in 1 .. Len(up[k]) :
                     /\ up[k][n].stage = "applied" /\ db'.applied = up[k][n].rev
                     /\ db'.applied # 0 => db'.deployments[db'.applied] = up[k][n].payload
  <2>1. backup' = backup /\ up[k] # <<>>
    BY <1>6 DEF HandleResult
  <2>2. up[k] \in Seq(Answer)
    BY <1>0 DEF Shape
  <2>3. 1 \in 1 .. Len(up[k]) /\ Head(up[k]) = up[k][1]
    <3>1. Len(up[k]) \in Nat \ {0}
      BY <2>1, <2>2, EmptySeq
    <3> QED BY <2>2, <3>1
  <2>4. CASE UNCHANGED db
    BY <2>1, <2>4
  <2>5. CASE ~UNCHANGED db
    <3>1. /\ MayObserve(db, session[k], Head(up[k]))
          /\ \/ db'.applied = db.applied
             \/ Head(up[k]).stage = "applied" /\ db'.applied = Head(up[k]).rev
          /\ db'.applied # 0 => db'.deployments[db'.applied] = db.deployments[db'.applied]
      BY <1>6, <2>5, ResultFacts
    <3>2. db.deployments[Head(up[k]).rev] = Head(up[k]).payload
      BY <3>1 DEF MayObserve
    <3>3. CASE db'.applied = db.applied
      BY <2>1, <3>1, <3>3
    <3>4. CASE Head(up[k]).stage = "applied" /\ db'.applied = Head(up[k]).rev
      <4>1. /\ up[k][1].stage = "applied" /\ db'.applied = up[k][1].rev
            /\ db'.applied # 0 => db'.deployments[db'.applied] = up[k][1].payload
        BY <2>3, <3>1, <3>2, <3>4
      <4> QED BY <2>1, <2>3, <4>1
    <3> QED BY <3>1, <3>3, <3>4
  <2> QED BY <2>4, <2>5
<1>7. CASE Snapshot
  BY <1>7 DEF Snapshot
<1>8. CASE Restore
  BY <1>8 DEF Restore
<1>9. CASE \/ Connect \/ TakeAuthority \/ Receive \/ ApplyRuntime \/ RejectRuntime \/ ReportApplied
           \/ StreamClosed \/ AgentLeaves \/ UNCHANGED vars
  BY <1>1, <1>9 DEF Connect, TakeAuthority, Receive, ApplyRuntime, RejectRuntime, ReportApplied,
                    StreamClosed, AgentLeaves, vars
<1>10. CASE \/ \E i \in Slots : WorkerRestart(i)
            \/ \E request \in late : LateApply(request[1], request[2])
  BY <1>1, <1>10 DEF WorkerRestart, LateApply
<1>11. TRUE \in BOOLEAN /\ FALSE \in BOOLEAN
  OBVIOUS
<1>12. CASE \E k \in Streams : Deliver(k, FALSE) \/ Deliver(k, TRUE)
  BY <1>4, <1>11, <1>12
<1>13. CASE (\E p \in Payloads : Publish(p)) \/ \E k \in Streams : BeginSession(k)
  BY <1>2, <1>3, <1>13
<1>14. CASE \E k \in Streams : HandleResult(k)
  BY <1>6, <1>14
<1> QED BY <1>5, <1>7, <1>8, <1>9, <1>10, <1>12, <1>13, <1>14 DEF Next

\* How the agent's work may change: it ends, stays, starts or has one runtime
\* more behind it.
LEMMA WorkMoves ==
    ASSUME Inv, [Next]_vars
    PROVE  \/ work' = None \/ UNCHANGED work
           \/ \E d \in Held : work' = [deployment |-> d, next |-> 1]
           \/ ApplyRuntime
<1> USE DEF master, agent, runtimes
<1>1. CASE \E p \in Payloads : Publish(p)
  BY <1>1 DEF Publish
<1>2. CASE \E k \in Streams :
             BeginSession(k) \/ Register(k) \/ Deliver(k, FALSE) \/ Deliver(k, TRUE)
             \/ SessionRevoked(k) \/ HandleResult(k) \/ HandlerEnds(k)
  BY <1>2 DEF BeginSession, Register, Deliver, SessionRevoked, HandleResult, HandlerEnds
<1>3. CASE Snapshot \/ Restore \/ Connect \/ UNCHANGED vars
  BY <1>3 DEF Snapshot, Restore, Connect, vars
<1>4. CASE TakeAuthority \/ RejectRuntime \/ ReportApplied \/ StreamClosed \/ AgentLeaves
  BY <1>4 DEF TakeAuthority, RejectRuntime, ReportApplied, StreamClosed, AgentLeaves, Leave
<1>5. CASE Receive
  BY <1>5, ReceiveFacts DEF Leave, Inv
<1>6. CASE \/ \E i \in Slots : WorkerRestart(i)
           \/ \E request \in late : LateApply(request[1], request[2])
  BY <1>6 DEF WorkerRestart, LateApply
<1> QED BY <1>1, <1>2, <1>3, <1>4, <1>5, <1>6 DEF Next

\* Every step keeps what is known to be reached true.
LEMMA ReachedNext == Inv /\ [Next]_vars => ReachedSound'
<1> SUFFICES ASSUME Inv, [Next]_vars PROVE ReachedSound'
  OBVIOUS
<1>0. Shape /\ Shape' /\ ReachedSound
  BY ShapeNext DEF Inv
<1>1. \A p : \A i \in Slots, r \in Nat : Reached(force, i, r, p) => Reached(force', i, r, p)
  BY ReachedStays
<1>2. ASSUME NEW d \in Row, RowTrue(force, d) PROVE RowTrue(force', d)
  <2>1. d.applied \in Nat
    BY SyncAssumption DEF Row
  <2> QED BY <1>1, <1>2, <2>1 DEF RowTrue
<1>3. db \in Row /\ db' \in Row /\ (backup # None => backup \in Row)
      /\ RowTrue(force, db) /\ (backup # None => RowTrue(force, backup))
  BY <1>0 DEF Shape, ReachedSound
<1>4. ASSUME NEW k \in Streams, NEW n \in 1 .. Len(up[k]), up[k][n].stage = "applied"
      PROVE  \A i \in Slots : Reached(force', i, up[k][n].rev, up[k][n].payload)
  <2>1. up[k][n].rev \in Nat
    <3>1. up[k] \in Seq(Answer)
      BY <1>0 DEF Shape
    <3>2. up[k][n] \in Answer
      BY <3>1, ElementOfSeq
    <3> QED BY <3>2, SyncAssumption DEF Answer, Revisions
  <2>2. \A i \in Slots : Reached(force, i, up[k][n].rev, up[k][n].payload)
    BY <1>0, <1>4 DEF ReachedSound
  <2> QED BY <1>1, <2>1, <2>2
<1>5. RowTrue(force', db')
  <2>1. CASE /\ db'.applied = db.applied
             /\ db.applied # 0 => db'.deployments[db.applied] = db.deployments[db.applied]
    <3>1. RowTrue(force', db)
      BY <1>2, <1>3
    <3> QED BY <2>1, <3>1 DEF RowTrue
  <2>2. CASE backup # None /\ db' = backup
    BY <1>2, <1>3, <2>2
  <2>3. CASE \E k \in Streams : \E n \in 1 .. Len(up[k]) :
               /\ up[k][n].stage = "applied" /\ db'.applied = up[k][n].rev
               /\ db'.applied # 0 => db'.deployments[db'.applied] = up[k][n].payload
    BY <1>4, <2>3 DEF RowTrue
  <2> QED BY <2>1, <2>2, <2>3, AppliedMoves
<1>6. backup' # None => RowTrue(force', backup')
  <2>1. backup' # None => backup' = backup \/ (backup' = db /\ UNCHANGED db)
    BY AppliedMoves
  <2> QED BY <1>2, <1>3, <2>1
<1>7. ASSUME work' # None
      PROVE  \A i \in 1 .. work'.next - 1 :
               Reached(force', i, work'.deployment.rev, work'.deployment.payload)
  <2>1. CASE UNCHANGED work
    <3>1. work \in Task /\ work.deployment.rev \in Nat /\ work.next \in 1 .. RuntimeCount + 1
      BY <1>0, <1>7, <2>1, SyncAssumption DEF Shape, Task, Held, Revisions
    <3>2. ASSUME NEW i \in 1 .. work.next - 1
          PROVE  i \in Slots /\ Reached(force, i, work.deployment.rev, work.deployment.payload)
      BY <1>0, <1>7, <2>1, <3>1, SyncAssumption DEF ReachedSound, Slots
    <3> QED BY <1>1, <2>1, <3>1, <3>2
  <2>2. CASE \E d \in Held : work' = [deployment |-> d, next |-> 1]
    BY <2>2
  <2>3. CASE ApplyRuntime
    <3> DEFINE d == work.deployment
    <3>1. work # None /\ work \in Task /\ work.next \in Slots /\ d \in Held
      BY <1>0, <2>3 DEF ApplyRuntime, Shape, Task
    <3>2. work' = [work EXCEPT !.next = work.next + 1] /\ force' = [force EXCEPT ![work.next] = d]
      BY <2>3 DEF ApplyRuntime
    <3>3. work'.deployment = d /\ work'.next = work.next + 1
      BY <3>1, <3>2 DEF Task
    <3>4. d.rev \in Nat
      BY <3>1, SyncAssumption DEF Held, Revisions
    <3>5. force'[work.next] = d
      BY <1>0, <3>1, <3>2 DEF Shape
    <3> HIDE DEF d
    <3>6. ASSUME NEW i \in 1 .. work.next - 1
          PROVE  i \in Slots /\ Reached(force, i, d.rev, d.payload)
      BY <1>0, <3>1, SyncAssumption DEF ReachedSound, Slots, d
    <3>7. Reached(force', work.next, d.rev, d.payload)
      BY <3>4, <3>5 DEF Reached
    <3>8. \A i \in 1 .. work'.next - 1 : i = work.next \/ i \in 1 .. work.next - 1
      BY <3>1, <3>3, SyncAssumption DEF Slots
    <3> QED BY <1>1, <3>3, <3>4, <3>6, <3>7, <3>8
  <2> QED BY <1>7, <2>1, <2>2, <2>3, WorkMoves
<1>8. ASSUME NEW k \in Streams, NEW n \in 1 .. Len(up'[k]), up'[k][n].stage = "applied"
      PROVE  \A i \in Slots : Reached(force', i, up'[k][n].rev, up'[k][n].payload)
  <2>1. CASE \E m \in 1 .. Len(up[k]) : up'[k][n] = up[k][m]
    BY <1>4, <1>8, <2>1
  <2>2. CASE /\ work # None /\ work \in Task /\ work.next = RuntimeCount + 1
             /\ up'[k][n].rev = work.deployment.rev /\ up'[k][n].payload = work.deployment.payload
    <3>1. work.deployment.rev \in Nat
      BY <2>2, SyncAssumption DEF Task, Held, Revisions
    <3>2. \A i \in Slots : i \in 1 .. work.next - 1
      BY <2>2, SyncAssumption DEF Slots
    <3>3. \A i \in Slots : Reached(force, i, work.deployment.rev, work.deployment.payload)
      BY <1>0, <2>2, <3>2 DEF ReachedSound
    <3> QED BY <1>1, <2>2, <3>1, <3>3
  <2> QED BY <1>8, <2>1, <2>2, AppliedAnswers
<1> QED BY <1>5, <1>6, <1>7, <1>8 DEF ReachedSound

-----------------------------------------------------------------------------
(***************************************************************************)
(* Every step keeps a stream to one deployment.                            *)
(***************************************************************************)

\* Where an order on a stream comes from: it was there, or it is the desired one.
LEMMA DownMoves ==
    ASSUME Inv, [Next]_vars, NEW k \in Streams, NEW n \in 1 .. Len(down'[k])
    PROVE  \/ \E m \in 1 .. Len(down[k]) : down'[k][n] = down[k][m]
           \/ down'[k][n].kind = "authority"
           \/ down'[k][n].rev = db.desired /\ db'.desired = db.desired /\ UNCHANGED restores
<1> USE DEF master, agent, runtimes
<1> DEFINE M == Announcement \cup Order
<1>0. Shape /\ down \in [Streams -> Seq(M)] /\ down[k] \in Seq(M) /\ Len(down[k]) \in Nat
  BY LenProperties DEF Inv, Shape
<1>1. CASE UNCHANGED down
  BY <1>1
<1>2. ASSUME NEW j \in Streams, NEW x \in M, down' = [down EXCEPT ![j] = Append(@, x)]
      PROVE  (\E m \in 1 .. Len(down[k]) : down'[k][n] = down[k][m]) \/ down'[k][n] = x
  <2>1. CASE j # k
    BY <1>0, <1>2, <2>1
  <2>2. CASE j = k
    <3>1. down'[k] = Append(down[k], x)
      BY <1>0, <1>2, <2>2
    <3>2. /\ Len(down'[k]) = Len(down[k]) + 1
          /\ \A m \in 1 .. Len(down[k]) : down'[k][m] = down[k][m]
          /\ down'[k][Len(down[k]) + 1] = x
      <4> HIDE DEF M
      <4> QED BY <1>0, <3>1, AppendProperties
    <3>3. n \in 1 .. Len(down[k]) \/ n = Len(down[k]) + 1
      BY <1>0, <3>2
    <3> QED BY <3>2, <3>3
  <2> QED BY <2>1, <2>2
<1>3. ASSUME conn # 0, down[conn] # <<>>, down' = [down EXCEPT ![conn] = Tail(@)]
      PROVE  \E m \in 1 .. Len(down[k]) : down'[k][n] = down[k][m]
  <2>1. conn \in Streams /\ Len(Tail(down[conn])) = Len(down[conn]) - 1
        /\ \A m \in 1 .. Len(Tail(down[conn])) : Tail(down[conn])[m] = down[conn][m + 1]
    BY <1>0, <1>3, HeadDown
  <2>2. CASE conn # k
    BY <1>0, <1>3, <2>2
  <2>3. CASE conn = k
    <3>1. down'[k] = Tail(down[k])
      BY <1>0, <1>3, <2>3
    <3>2. n + 1 \in 1 .. Len(down[k]) /\ down'[k][n] = down[k][n + 1]
      BY <1>0, <2>1, <2>3, <3>1
    <3> QED BY <3>2
  <2> QED BY <2>2, <2>3
<1>4. CASE \E p \in Payloads : Publish(p)
  BY <1>1, <1>4 DEF Publish
<1>5. ASSUME NEW j \in Streams, Register(j)
      PROVE  (\E m \in 1 .. Len(down[k]) : down'[k][n] = down[k][m]) \/ down'[k][n].kind = "authority"
  <2>1. CASE UNCHANGED down
    BY <1>1, <2>1
  <2>2. CASE ~UNCHANGED down
    <3> DEFINE x == [kind |-> "authority", gen |-> session[j].gen]
    <3>1. down' = [down EXCEPT ![j] = Append(@, x)]
      BY <1>5, <2>2 DEF Register
    <3>2. x \in M
      BY <1>5, OpenHandler DEF Register, Announcement
    <3>3. x.kind = "authority"
      OBVIOUS
    <3> HIDE DEF x, M
    <3> QED BY <1>2, <3>1, <3>2, <3>3
  <2> QED BY <2>1, <2>2
<1>6. ASSUME NEW j \in Streams, NEW forced \in BOOLEAN, Deliver(j, forced)
      PROVE  \/ \E m \in 1 .. Len(down[k]) : down'[k][n] = down[k][m]
             \/ down'[k][n].rev = db.desired /\ db'.desired = db.desired /\ UNCHANGED restores
  <2>1. PICK x \in Order : down' = [down EXCEPT ![j] = Append(@, x)] /\ x.rev = db.desired
    BY <1>6, DeliverFacts
  <2>2. db'.desired = db.desired /\ UNCHANGED restores
    BY <1>6, DeliverFacts DEF Deliver
  <2>3. x \in M
    OBVIOUS
  <2> QED BY <1>2, <2>1, <2>2, <2>3
<1>7. ASSUME NEW j \in Streams, HandleResult(j)
      PROVE  \/ \E m \in 1 .. Len(down[k]) : down'[k][n] = down[k][m]
             \/ down'[k][n].rev = db.desired /\ db'.desired = db.desired /\ UNCHANGED restores
  <2>1. CASE UNCHANGED down
    BY <1>1, <2>1
  <2>2. CASE ~UNCHANGED down
    <3>1. db'.desired = db.desired
      BY <1>7, <2>2, ResultFacts
    <3>2. PICK x \in Order : down' = [down EXCEPT ![j] = Append(@, x)] /\ x.rev = db.desired
      BY <1>7, <2>2, ResultFacts
    <3>3. x \in M /\ UNCHANGED restores
      BY <1>7 DEF HandleResult
    <3> QED BY <1>2, <3>1, <3>2, <3>3
  <2> QED BY <2>1, <2>2
<1>8. CASE \E j \in Streams : BeginSession(j) \/ SessionRevoked(j) \/ HandlerEnds(j)
  BY <1>1, <1>8 DEF BeginSession, SessionRevoked, HandlerEnds
<1>9. CASE Snapshot \/ Restore \/ Connect \/ ApplyRuntime \/ RejectRuntime \/ ReportApplied
           \/ StreamClosed \/ AgentLeaves \/ UNCHANGED vars
  BY <1>1, <1>9 DEF Snapshot, Restore, Connect, ApplyRuntime, RejectRuntime, ReportApplied, StreamClosed,
                    AgentLeaves, vars
<1>10. CASE TakeAuthority \/ Receive
  BY <1>3, <1>10 DEF TakeAuthority, Receive
<1>11. CASE \/ \E i \in Slots : WorkerRestart(i)
            \/ \E request \in late : LateApply(request[1], request[2])
  BY <1>1, <1>11 DEF WorkerRestart, LateApply
<1>12. TRUE \in BOOLEAN /\ FALSE \in BOOLEAN
  OBVIOUS
<1>13. CASE \E j \in Streams : Deliver(j, FALSE) \/ Deliver(j, TRUE)
  BY <1>6, <1>12, <1>13
<1> QED BY <1>4, <1>5, <1>7, <1>8, <1>9, <1>10, <1>11, <1>13 DEF Next

\* The desired revision only grows while the database is not restored.
LEMMA DesiredMoves ==
    ASSUME Inv, [Next]_vars, restores' = 0
    PROVE  restores = 0 /\ db.desired <= db'.desired /\ db.desired \in Nat /\ db'.desired \in Nat
           /\ (db'.desired # db.desired =>
                 db'.desired = db.desired + 1 /\ db'.applied = db.applied /\ UNCHANGED force)
<1> USE DEF master, agent, runtimes
<1>0. Shape /\ Shape' /\ RowSound(db)
  BY ShapeNext DEF Inv, MasterSound
<1>1. db.desired \in Nat /\ db'.desired \in Nat /\ restores \in Nat
  BY <1>0, SyncAssumption DEF Shape, Row
<1>2. CASE UNCHANGED restores /\ db'.desired = db.desired
  <2>1. db.desired <= db.desired
    BY <1>1
  <2> QED BY <1>1, <1>2, <2>1, Zenon
<1>3. ASSUME NEW p \in Payloads, Publish(p)
      PROVE  UNCHANGED <<restores, force>> /\ db'.desired = db.desired + 1 /\ db'.applied = db.applied
  BY <1>0, <1>3, PublishFacts DEF Publish
<1>4. CASE \E k \in Streams : BeginSession(k)
  BY <1>2, <1>4, BeginFacts DEF BeginSession
<1>5. ASSUME NEW k \in Streams, NEW forced \in BOOLEAN, Deliver(k, forced)
      PROVE  UNCHANGED restores /\ db'.desired = db.desired
  BY <1>5, DeliverFacts DEF Deliver
<1>6. ASSUME NEW k \in Streams, HandleResult(k)
      PROVE  UNCHANGED restores /\ db'.desired = db.desired
  BY <1>6, ResultFacts DEF HandleResult
<1>7. CASE \E k \in Streams : Register(k) \/ SessionRevoked(k) \/ HandlerEnds(k)
  BY <1>2, <1>7 DEF Register, SessionRevoked, HandlerEnds
<1>8. ~Restore
  BY <1>1 DEF Restore
<1>9. CASE \/ Snapshot \/ Connect \/ TakeAuthority \/ Receive \/ ApplyRuntime \/ RejectRuntime
           \/ ReportApplied \/ StreamClosed \/ AgentLeaves \/ UNCHANGED vars
  BY <1>2, <1>9 DEF Snapshot, Connect, TakeAuthority, Receive, ApplyRuntime, RejectRuntime, ReportApplied,
                    StreamClosed, AgentLeaves, vars
<1>10. CASE \/ \E i \in Slots : WorkerRestart(i)
            \/ \E request \in late : LateApply(request[1], request[2])
  BY <1>2, <1>10 DEF WorkerRestart, LateApply
<1>11. TRUE \in BOOLEAN /\ FALSE \in BOOLEAN
  OBVIOUS
<1>12. CASE \E k \in Streams : Deliver(k, FALSE) \/ Deliver(k, TRUE)
  BY <1>2, <1>5, <1>11, <1>12
<1>13. CASE \E p \in Payloads : Publish(p)
  <2>1. UNCHANGED <<restores, force>> /\ db'.desired = db.desired + 1 /\ db'.applied = db.applied
    BY <1>3, <1>13
  <2> QED BY <1>1, <2>1
<1>14. CASE \E k \in Streams : HandleResult(k)
  BY <1>2, <1>6, <1>14
<1> QED BY <1>4, <1>7, <1>8, <1>9, <1>10, <1>12, <1>13, <1>14 DEF Next

\* As long as the database was not restored, every step leaves the node and the
\* streams behind it.
LEMMA BehindNext == Inv /\ [Next]_vars => Behind'
<1> SUFFICES ASSUME Inv, [Next]_vars, restores' = 0
             PROVE  /\ node'.desired <= db'.desired
                    /\ \A k \in Streams : \A n \in 1 .. Len(down'[k]) :
                         down'[k][n].kind = "deployment" => down'[k][n].rev <= db'.desired
  BY DEF Behind
<1>1. restores = 0 /\ db.desired <= db'.desired /\ db.desired \in Nat /\ db'.desired \in Nat
  BY DesiredMoves
<1>2. /\ node.desired <= db.desired /\ node.desired \in Nat
      /\ \A k \in Streams : \A n \in 1 .. Len(down[k]) :
           down[k][n].kind = "deployment" => down[k][n].rev <= db.desired
  BY <1>1, SyncAssumption DEF Inv, Behind, Shape, Store
<1>0. \A k \in Streams : /\ down[k] \in Seq(Announcement \cup Order) /\ down'[k] \in Seq(Announcement \cup Order)
  BY ShapeNext DEF Inv, Shape
<1>3. node'.desired <= db'.desired
  <2>1. CASE Steady
    BY <1>1, <1>2, <2>1 DEF Steady
  <2>2. ASSUME NEW d \in Held, Takes(d) PROVE node'.desired <= db'.desired
    <3>1. PICK m \in Order : m = down[conn][1] /\ d.rev = m.rev
      BY <2>2 DEF Takes
    <3>2. conn # 0 /\ down[conn] # <<>> /\ node'.desired = d.rev
      BY <2>2 DEF Takes
    <3>3. conn \in Streams /\ Len(down[conn]) \in Nat /\ Len(down[conn]) >= 1
      BY <3>2, HeadDown DEF Inv
    <3>4. m.kind = "deployment" /\ m.rev \in Nat
      BY SyncAssumption DEF Order, Revisions
    <3>5. d.rev <= db.desired
      BY <1>2, <3>1, <3>3, <3>4
    <3> QED BY <1>1, <3>1, <3>2, <3>4, <3>5
  <2> QED BY <2>1, <2>2, NodeSteps
<1>4. ASSUME NEW k \in Streams, NEW n \in 1 .. Len(down'[k]), down'[k][n].kind = "deployment"
      PROVE  down'[k][n].rev <= db'.desired
  <2>1. down'[k][n] \in Announcement \cup Order
    BY <1>0, ElementOfSeq
  <2>2. down'[k][n].rev \in Nat
    BY <1>4, <2>1, SyncAssumption DEF Announcement, Order, Revisions
  <2>3. CASE \E m \in 1 .. Len(down[k]) : down'[k][n] = down[k][m]
    BY <1>1, <1>2, <1>4, <2>2, <2>3
  <2>4. CASE down'[k][n].rev = db.desired
    BY <1>1, <2>4
  <2> QED BY <1>4, <2>3, <2>4, DownMoves
<1> QED BY <1>3, <1>4

\* Nothing is on its way: no order down, nothing up, no work.
Clear(dn, u, w) ==
    (\A n \in 1 .. Len(dn) : dn[n].kind # "deployment") /\ u = <<>> /\ w = None

\* A change of the row that keeps what the handler waits for.
LEMMA LiveRow ==
    ASSUME NEW d, NEW e, NEW s, NEW dn, NEW u, NEW w, Live(d, s, dn, u, w),
           s.pending /\ MayDeliver(e, s) =>
              /\ MayDeliver(d, s) /\ e.sent = d.sent
              /\ d.sent # 0 => e.deployments[d.sent] = d.deployments[d.sent]
    PROVE  Live(e, s, dn, u, w)
<1>1. ASSUME NEW x, Awaited(d, s, x) PROVE Awaited(e, s, x)
  BY <1>1 DEF Live, Awaited
<1> QED BY <1>1 DEF Live

\* A handler that waits for nothing has nothing on its way.
LEMMA LiveIdle ==
    ASSUME NEW d, NEW s, NEW dn, NEW u \in Seq(Answer), NEW w, Live(d, s, dn, u, w), ~s.pending
    PROVE  Clear(dn, u, w)
<1>1. \A n \in 1 .. Len(dn) : dn[n].kind # "deployment"
  BY DEF Live, Awaited
<1>2. w = None
  BY DEF Live, Awaited
<1>3. u = <<>>
  <2>1. Len(u) \notin Nat \ {0}
    BY DEF Live, Awaited
  <2> QED BY <2>1, EmptySeq
<1> QED BY <1>1, <1>2, <1>3 DEF Clear

\* Nor is there anything after a final answer.
LEMMA LiveFinal ==
    ASSUME NEW d, NEW s, NEW dn, NEW u \in Seq(Answer), NEW w, Live(d, s, dn, u, w),
           u # <<>>, Head(u).stage # "received"
    PROVE  Clear(dn, Tail(u), w)
<1>1. Len(u) \in Nat \ {0} /\ Head(u) = u[1]
  BY EmptySeq
<1>2. 1 = Len(u)
  <2>1. 1 \in 1 .. Len(u) /\ u[1].stage # "received"
    BY <1>1
  <2> QED BY <2>1 DEF Live
<1>3. Tail(u) = <<>>
  BY <1>2, HeadTailProperties, EmptySeq
<1>4. w = None
  BY <1>1 DEF Live
<1>5. \A n \in 1 .. Len(dn) : dn[n].kind # "deployment"
  BY DEF Live
<1> QED BY <1>3, <1>4, <1>5 DEF Clear

\* From nothing on its way, nothing is sent,
LEMMA ClearLive ==
    ASSUME NEW e, NEW t, NEW dn, NEW u, NEW w, Clear(dn, u, w), ~t.pending
    PROVE  Live(e, t, dn, u, w)
<1>1. Len(u) = 0
  BY DEF Clear
<1> QED BY <1>1 DEF Clear, Live

\* or one order.
LEMMA ClearSent ==
    ASSUME NEW e, NEW t, NEW dn \in Seq(Announcement \cup Order), NEW u, NEW w, Clear(dn, u, w),
           NEW m \in Order, t.pending, t.attempted = e.sent, e.sent # 0,
           m.rev = t.attempted, m.gen = t.gen, m.payload = e.deployments[e.sent]
    PROVE  Live(e, t, Append(dn, m), u, w)
<1>1. Awaited(e, t, m)
  BY DEF Awaited
<1>2. m \in Announcement \cup Order
  OBVIOUS
<1>3. /\ Len(dn) \in Nat /\ Len(Append(dn, m)) = Len(dn) + 1
      /\ \A n \in 1 .. Len(dn) : Append(dn, m)[n] = dn[n]
      /\ Append(dn, m)[Len(dn) + 1] = m
  BY <1>2, AppendProperties, LenProperties
<1>4. u = <<>> /\ w = None /\ Len(u) = 0
  BY DEF Clear
<1>5. ASSUME NEW n \in 1 .. Len(Append(dn, m)), Append(dn, m)[n].kind = "deployment"
      PROVE  n = Len(dn) + 1
  <2>1. n \in 1 .. Len(dn) \/ n = Len(dn) + 1
    BY <1>3
  <2> QED BY <1>3, <1>5, <2>1 DEF Clear
<1> QED BY <1>1, <1>3, <1>4, <1>5 DEF Live

\* A first answer is taken, and the rest is awaited as before.
LEMMA LiveResult ==
    ASSUME NEW d, NEW e, NEW s, NEW t, NEW dn, NEW u \in Seq(Answer), NEW w, Live(d, s, dn, u, w),
           u # <<>>, s.pending, t.pending, t.attempted = s.attempted, t.gen = s.gen,
           MayDeliver(d, s), e.sent = d.sent, e.generation = d.generation, e.fence = d.fence,
           d.sent # 0 => e.deployments[d.sent] = d.deployments[d.sent]
    PROVE  Live(e, t, dn, Tail(u), w)
<1> DEFINE q == Tail(u)
<1>1. ASSUME NEW x, Awaited(d, s, x) PROVE Awaited(e, t, x)
  BY <1>1 DEF Live, Awaited, MayDeliver
<1>2. /\ Len(u) \in Nat \ {0} /\ Len(q) = Len(u) - 1
      /\ \A n \in 1 .. Len(q) : q[n] = u[n + 1]
  BY HeadTailProperties, EmptySeq
<1> HIDE DEF q
<1>3. \A n \in 1 .. Len(dn) : dn[n].kind # "deployment"
  BY DEF Live
<1>4. \A n \in 1 .. Len(q) : n + 1 \in 1 .. Len(u)
  BY <1>2
<1>5. \A n \in 1 .. Len(q) : Awaited(e, t, q[n]) /\ (q[n].stage # "received" => n = Len(q))
  <2> SUFFICES ASSUME NEW n \in 1 .. Len(q)
               PROVE  Awaited(e, t, q[n]) /\ (q[n].stage # "received" => n = Len(q))
    OBVIOUS
  <2>1. q[n] = u[n + 1] /\ n + 1 \in 1 .. Len(u)
    BY <1>2, <1>4
  <2>2. Awaited(d, s, u[n + 1]) /\ (u[n + 1].stage # "received" => n + 1 = Len(u))
    BY <2>1 DEF Live
  <2> QED BY <1>1, <1>2, <2>1, <2>2
<1>6. w # None => Awaited(e, t, w.deployment) /\ \A n \in 1 .. Len(q) : q[n].stage = "received"
  BY <1>1, <1>2, <1>4 DEF Live
<1>7. t.attempted = e.sent /\ e.sent # 0
  BY DEF Live
<1>8. Live(e, t, dn, q, w)
  BY <1>3, <1>5, <1>6, <1>7 DEF Live
<1> QED BY <1>8 DEF q

\* The agent leaves its work.
LEMMA LiveLeft ==
    ASSUME NEW d, NEW s, NEW dn, NEW u, NEW w, Live(d, s, dn, u, w)
    PROVE  Live(d, s, dn, u, None)
BY DEF Live

\* It takes the announcement of its generation.
LEMMA LiveAuthority ==
    ASSUME NEW d, NEW s, NEW dn \in Seq(Announcement \cup Order), NEW u, NEW w, Live(d, s, dn, u, w),
           dn # <<>>
    PROVE  Live(d, s, Tail(dn), u, w)
<1> DEFINE q == Tail(dn)
<1>1. /\ Len(dn) \in Nat \ {0} /\ Len(q) = Len(dn) - 1
      /\ \A n \in 1 .. Len(q) : q[n] = dn[n + 1]
  BY HeadTailProperties, EmptySeq
<1> HIDE DEF q
<1>2. ASSUME NEW n \in 1 .. Len(q), q[n].kind = "deployment"
      PROVE  Awaited(d, s, q[n]) /\ n = Len(q) /\ u = <<>> /\ w = None
  <2>1. n + 1 \in 1 .. Len(dn) /\ q[n] = dn[n + 1]
    BY <1>1
  <2>2. Awaited(d, s, dn[n + 1]) /\ n + 1 = Len(dn) /\ u = <<>> /\ w = None
    BY <1>2, <2>1 DEF Live
  <2> QED BY <1>1, <2>1, <2>2
<1>3. Live(d, s, q, u, w)
  BY <1>2 DEF Live
<1> QED BY <1>3 DEF q

\* It takes an order and says so.
LEMMA LiveReceived ==
    ASSUME NEW d, NEW s, NEW dn \in Seq(Announcement \cup Order), NEW u, NEW w, Live(d, s, dn, u, w),
           dn # <<>>, Head(dn) \in Order, NEW x \in Held,
           x.rev = Head(dn).rev, x.gen = Head(dn).gen, x.payload = Head(dn).payload,
           NEW v, Len(v) = Len(u) + 1,
           v[Len(u) + 1] = [stage |-> "received", gen |-> x.gen, rev |-> x.rev, payload |-> x.payload],
           NEW y, y.deployment = x
    PROVE  Live(d, s, Tail(dn), v, y)
<1> DEFINE q == Tail(dn)
           m == Head(dn)
<1>0. x.rev = m.rev /\ x.gen = m.gen /\ x.payload = m.payload
  OBVIOUS
<1>1. /\ Len(dn) \in Nat \ {0} /\ Len(q) = Len(dn) - 1 /\ m = dn[1]
  BY HeadTailProperties, EmptySeq
<1>2. m.kind = "deployment"
  BY DEF Order
<1> HIDE DEF q, m
<1>3. Awaited(d, s, m) /\ 1 = Len(dn) /\ u = <<>>
  BY <1>1, <1>2 DEF Live
<1>4. Len(q) = 0 /\ Len(u) = 0 /\ Len(v) = 1
  <2>1. Len(q) = 0
    BY <1>1, <1>3
  <2>2. Len(u) = 0
    BY <1>3, EmptySeq
  <2> QED BY <2>1, <2>2
<1>5. v[1] = [stage |-> "received", gen |-> x.gen, rev |-> x.rev, payload |-> x.payload]
  BY <1>4
<1>6. Awaited(d, s, v[1]) /\ Awaited(d, s, x) /\ v[1].stage = "received"
  BY <1>3, <1>5, <1>0 DEF Awaited
<1>7. \A n \in 1 .. Len(v) : n = 1
  BY <1>4
<1>8. s.pending /\ MayDeliver(d, s) => s.attempted = d.sent /\ d.sent # 0
  BY DEF Live
<1>9. Live(d, s, q, v, y)
  BY <1>4, <1>6, <1>7, <1>8 DEF Live
<1> QED BY <1>9 DEF q

\* It gives its last word about its work.
LEMMA LiveAnswered ==
    ASSUME NEW d, NEW s, NEW dn, NEW u \in Seq(Answer), NEW w, Live(d, s, dn, u, w), w # None,
           NEW v, Len(v) = Len(u) + 1, \A n \in 1 .. Len(u) : v[n] = u[n],
           NEW stage, v[Len(u) + 1] = [stage |-> stage, gen |-> w.deployment.gen,
                                       rev |-> w.deployment.rev, payload |-> w.deployment.payload]
    PROVE  Live(d, s, dn, v, None)
<1>1. Awaited(d, s, w.deployment) /\ \A n \in 1 .. Len(u) : Awaited(d, s, u[n]) /\ u[n].stage = "received"
  BY DEF Live
<1>2. Awaited(d, s, v[Len(u) + 1])
  BY <1>1 DEF Awaited
<1>3. Len(u) \in Nat
  BY LenProperties
<1>4. \A n \in 1 .. Len(v) : n \in 1 .. Len(u) \/ n = Len(v)
  BY <1>3
<1>5. \A n \in 1 .. Len(v) : Awaited(d, s, v[n]) /\ (v[n].stage # "received" => n = Len(v))
  BY <1>1, <1>2, <1>4
<1>6. \A n \in 1 .. Len(dn) : dn[n].kind # "deployment"
  BY DEF Live
<1>7. s.pending /\ MayDeliver(d, s) => s.attempted = d.sent /\ d.sent # 0
  BY DEF Live
<1> QED BY <1>5, <1>6, <1>7 DEF Live

\* Its work goes on.
LEMMA LiveWorking ==
    ASSUME NEW d, NEW s, NEW dn, NEW u, NEW w, Live(d, s, dn, u, w), w # None,
           NEW y, y.deployment = w.deployment
    PROVE  Live(d, s, dn, u, y)
BY DEF Live

\* ChannelSound, stream by stream.
StreamLive(k) ==
    /\ session[k].state \in {"hello", "begun"} \/ k > opened => down[k] = <<>> /\ up[k] = <<>>
    /\ session[k].state \in {"hello", "begun"} => ~session[k].pending
    /\ session[k].state = "open" => Live(db, session[k], down[k], up[k], InHand(k))

\* The new row keeps what handler s waits for.
RowKeeps(s) ==
    s.pending /\ MayDeliver(db', s) =>
       /\ MayDeliver(db, s) /\ db'.sent = db.sent
       /\ db.sent # 0 => db'.deployments[db.sent] = db.deployments[db.sent]

\* A stream that a step leaves alone, apart from the row or the agent leaving.
LEMMA StreamKeeps ==
    ASSUME NEW k \in Streams, StreamLive(k), session'[k] = session[k], down'[k] = down[k],
           up'[k] = up[k], InHand(k)' \in {InHand(k), None}, opened' = opened,
           session[k].state = "open" => RowKeeps(session[k])
    PROVE  StreamLive(k)'
<1>1. ASSUME session[k].state = "open"
      PROVE  Live(db', session'[k], down'[k], up'[k], InHand(k)')
  <2>1. Live(db, session[k], down[k], up[k], InHand(k)')
    BY <1>1, LiveLeft DEF StreamLive
  <2>2. Live(db', session[k], down[k], up[k], InHand(k)')
    BY <1>1, <2>1, LiveRow DEF RowKeeps
  <2> QED BY <2>2
<1> QED BY <1>1 DEF StreamLive

\* A stream whose handler is closed.
LEMMA StreamCloses ==
    ASSUME NEW k \in Streams, session'[k] = Closed, opened' = opened, k <= opened, opened \in Nat
    PROVE  StreamLive(k)'
BY ClosedFacts DEF StreamLive, Streams

\* A row that does not change keeps everything.
LEMMA SameRow ==
    ASSUME UNCHANGED db, NEW s PROVE RowKeeps(s)
BY DEF RowKeeps

\* The agent's steps on one stream leave the others alone.
LEMMA OtherStreams ==
    ASSUME Inv, UNCHANGED <<db, session, opened>>, conn' \in {conn, 0},
           NEW k \in Streams, k # conn, down'[k] = down[k], up'[k] = up[k], StreamLive(k)
    PROVE  StreamLive(k)'
<1>1. k # 0
  BY SyncAssumption DEF Streams
<1>2. InHand(k)' = None
  BY <1>1 DEF InHand
<1> QED BY <1>2, SameRow, StreamKeeps

\* The steps of the master.
LEMMA ChannelMaster ==
    ASSUME Inv, NEW k \in Streams,
           BeginSession(k) \/ Register(k) \/ SessionRevoked(k) \/ HandlerEnds(k)
           \/ (\E forced \in BOOLEAN : Deliver(k, forced)) \/ HandleResult(k)
    PROVE  \A j \in Streams : StreamLive(j)'
<1> USE DEF master, agent, runtimes
<1>0. /\ Shape /\ opened \in Nat /\ session \in [Streams -> Handler]
      /\ down \in [Streams -> Seq(Announcement \cup Order)] /\ up \in [Streams -> Seq(Answer)]
      /\ \A j \in Streams : StreamLive(j) /\ StreamSound(j) /\ session[j] \in Handler /\ j \in Nat
  <2>1. Shape /\ ChannelSound /\ MasterSound
    BY DEF Inv
  <2>2. opened \in Nat /\ \A j \in Streams : j \in Nat
    BY <2>1, SyncAssumption DEF Shape, Streams
  <2> QED BY <2>1, <2>2 DEF Shape, ChannelSound, StreamLive, MasterSound, StreamSound
<1>1. UNCHANGED <<agent, opened>>
  BY DEF BeginSession, Register, SessionRevoked, HandlerEnds, Deliver, HandleResult
<1>2. \A j \in Streams : InHand(j)' = InHand(j)
  BY <1>1 DEF InHand
<1>3. session[k].state # "closed" /\ k <= opened
  <2>1. session[k].state # "closed"
    BY DEF BeginSession, Register, SessionRevoked, HandlerEnds, Deliver, HandleResult
  <2> QED BY <1>0, <2>1 DEF StreamSound
<1>4. ASSUME Closing(k), UNCHANGED down, \A j \in Streams : j # k => up'[j] = up[j],
             \A j \in Streams : j # k /\ session[j].state = "open" => RowKeeps(session[j])
      PROVE  \A j \in Streams : StreamLive(j)'
  <2>1. session'[k] = Closed /\ \A j \in Streams : j # k => session'[j] = session[j]
    BY <1>0, <1>4 DEF Closing
  <2>2. StreamLive(k)'
    BY <1>0, <1>1, <1>3, <2>1, StreamCloses
  <2>3. ASSUME NEW j \in Streams, j # k PROVE StreamLive(j)'
    BY <1>0, <1>1, <1>2, <1>4, <2>1, <2>3, StreamKeeps
  <2> QED BY <2>2, <2>3
<1>5. ASSUME session[k].state = "open", NEW t \in Handler, session' = [session EXCEPT ![k] = t],
             \A j \in Streams : j # k => up'[j] = up[j] /\ down'[j] = down[j],
             t.state = "open", Live(db', t, down'[k], up'[k], InHand(k))
      PROVE  \A j \in Streams : StreamLive(j)'
  <2>1. session'[k] = t /\ \A j \in Streams : j # k => session'[j] = session[j]
    BY <1>0, <1>5
  <2>2. StreamLive(k)'
    BY <1>0, <1>1, <1>2, <1>3, <1>5, <2>1 DEF StreamLive
  <2>3. ASSUME NEW j \in Streams, j # k PROVE StreamLive(j)'
    <3>1. session[j].state # "open"
      BY <1>0, <1>5, <2>3 DEF StreamSound
    <3> QED BY <1>0, <1>1, <1>2, <1>5, <2>1, <2>3, <3>1, StreamKeeps
  <2> QED BY <2>2, <2>3
<1>6. CASE BeginSession(k)
  <2>1. UNCHANGED <<down, up>> /\ session[k].state = "hello"
    BY <1>6 DEF BeginSession
  <2>2. CASE Closing(k) /\ db'.fence
    <3>1. \A j \in Streams : RowKeeps(session[j])
      BY <2>2 DEF RowKeeps, MayDeliver
    <3> QED BY <1>4, <2>1, <2>2, <3>1
  <2>3. CASE ~(Closing(k) /\ db'.fence)
    <3>1. db'.generation = db.generation + 1
      BY <1>6, <2>3, BeginFacts
    <3>2. PICK t \in Handler : /\ session' = [session EXCEPT ![k] = t] /\ t.state = "begun"
                               /\ t.pending = session[k].pending
      BY <1>6, <2>3, BeginFacts
    <3>3. session'[k] = t /\ \A j \in Streams : j # k => session'[j] = session[j]
      BY <1>0, <3>2
    <3>4. StreamLive(k)'
      BY <1>0, <1>1, <1>3, <2>1, <3>2, <3>3 DEF StreamLive
    <3>5. ASSUME NEW j \in Streams, j # k PROVE StreamLive(j)'
      <4>1. ASSUME session[j].state = "open" PROVE RowKeeps(session[j])
        <5>1. session[j].gen <= db.generation /\ session[j].gen \in Nat /\ db.generation \in Nat
          <6>1. session[j].gen \in Streams /\ session[j].gen <= db.generation
            BY <4>1, OpenHandler
          <6> QED BY <1>0, <6>1, SyncAssumption DEF Shape, Row, Streams
        <5> QED BY <3>1, <5>1 DEF RowKeeps, MayDeliver
      <4> QED BY <1>0, <1>1, <1>2, <2>1, <3>3, <3>5, <4>1, StreamKeeps
    <3> QED BY <3>4, <3>5
  <2> QED BY <2>2, <2>3
<1>7. CASE Register(k)
  <2>1. UNCHANGED <<db, up>> /\ session[k].state = "begun"
    BY <1>7 DEF Register
  <2>2. \A s : RowKeeps(s)
    BY <2>1, SameRow
  <2>3. CASE session' = [session EXCEPT ![k] = Closed] /\ UNCHANGED <<registered, down>>
    <3>1. Closing(k)
      BY <1>0, <2>1, <2>3 DEF Closing, StreamSound
    <3> QED BY <1>4, <2>1, <2>2, <2>3, <3>1
  <2>4. CASE /\ session' = [s \in Streams |->
                              IF s = k THEN [session[k] EXCEPT !.state = "open"]
                              ELSE IF s = registered THEN Closed ELSE session[s]]
             /\ down' = [down EXCEPT ![k] = Append(@, [kind |-> "authority", gen |-> session[k].gen])]
    <3> DEFINE t == [session[k] EXCEPT !.state = "open"]
               m == [kind |-> "authority", gen |-> session[k].gen]
    <3>1. t.state = "open" /\ t.pending = session[k].pending
      BY <1>0 DEF Handler
    <3>2. down[k] = <<>> /\ up[k] = <<>> /\ ~session[k].pending
      BY <1>0, <2>1 DEF StreamLive
    <3>3. m \in Announcement \cup Order /\ m.kind = "authority"
      BY <2>1, OpenHandler DEF Announcement
    <3>4. session'[k] = t /\ down'[k] = Append(down[k], m)
      BY <1>0, <2>4
    <3>5. ASSUME NEW j \in Streams, j # k PROVE StreamLive(j)'
      <4>1. session'[j] = (IF j = registered THEN Closed ELSE session[j]) /\ down'[j] = down[j] /\ up'[j] = up[j]
        BY <1>0, <2>1, <2>4, <3>5
      <4>2. CASE j = registered
        <5>1. session[j].state = "open"
          BY <1>0, <4>2 DEF StreamSound
        <5>2. j > opened => session[j].state = "closed"
          BY <1>0 DEF StreamSound
        <5>3. j <= opened
          BY <1>0, <5>1, <5>2
        <5> QED BY <1>0, <1>1, <4>1, <4>2, <5>3, StreamCloses
      <4>3. CASE j # registered
        BY <1>0, <1>1, <1>2, <2>2, <4>1, <4>3, StreamKeeps
      <4> QED BY <4>2, <4>3
    <3>6. InHand(k) = None
      BY <2>1, SyncAssumption DEF Inv, AgentSound, InHand, Streams
    <3> HIDE DEF t, m
    <3>7. /\ Len(down[k]) = 0 /\ Len(Append(down[k], m)) = Len(down[k]) + 1
          /\ Append(down[k], m)[Len(down[k]) + 1] = m
      <4>1. down[k] \in Seq(Announcement \cup Order) /\ Len(down[k]) = 0
        BY <1>0, <3>2, EmptySeq
      <4> QED BY <3>3, <4>1, AppendProperties
    <3>8. \A n \in 1 .. Len(down'[k]) : down'[k][n] = m
      <4>1. Len(down'[k]) = 1 /\ down'[k][1] = m
        BY <3>4, <3>7
      <4>2. \A n \in 1 .. 1 : n = 1
        OBVIOUS
      <4> QED BY <4>1, <4>2
    <3>9. Clear(down'[k], up'[k], InHand(k)')
      BY <1>2, <2>1, <3>2, <3>3, <3>6, <3>8 DEF Clear
    <3>10. Live(db', session'[k], down'[k], up'[k], InHand(k)')
      BY <3>1, <3>2, <3>4, <3>9, ClearLive
    <3>11. StreamLive(k)'
      BY <1>0, <1>1, <1>3, <3>1, <3>4, <3>10 DEF StreamLive
    <3> QED BY <3>5, <3>11
  <2> QED BY <1>7, <2>3, <2>4 DEF Register
<1>8. CASE SessionRevoked(k) \/ HandlerEnds(k)
  <2>1. Closing(k) /\ UNCHANGED <<db, down>>
    BY <1>8 DEF SessionRevoked, HandlerEnds
  <2>2. \A j \in Streams : j # k => up'[j] = up[j]
    BY <1>0, <1>8 DEF SessionRevoked, HandlerEnds
  <2> QED BY <1>4, <2>1, <2>2, SameRow
<1>9. ASSUME NEW forced \in BOOLEAN, Deliver(k, forced) PROVE \A j \in Streams : StreamLive(j)'
  <2>1. session[k].state = "open" /\ ~session[k].pending /\ UNCHANGED up
    BY <1>9 DEF Deliver
  <2>2. PICK t \in Handler, m \in Order :
          /\ session' = [session EXCEPT ![k] = t] /\ down' = [down EXCEPT ![k] = Append(@, m)]
          /\ t.state = "open" /\ t.gen = session[k].gen /\ t.pending
          /\ t.attempted = db.desired /\ db'.sent = db.desired /\ db.desired # 0
          /\ m.rev = db.desired /\ m.gen = t.gen /\ m.payload = db'.deployments[db.desired]
    BY <1>9, DeliverFacts
  <2>3. Clear(down[k], up[k], InHand(k))
    BY <1>0, <2>1, LiveIdle DEF StreamLive
  <2>4. /\ down[k] \in Seq(Announcement \cup Order) /\ down'[k] = Append(down[k], m)
        /\ \A j \in Streams : j # k => down'[j] = down[j]
    BY <1>0, <2>2
  <2>5. Live(db', t, Append(down[k], m), up[k], InHand(k))
    BY <2>2, <2>3, <2>4, ClearSent
  <2> QED BY <1>5, <2>1, <2>2, <2>4, <2>5
<1>10. CASE HandleResult(k)
  <2> DEFINE result == Head(up[k])
  <2>1. session[k].state = "open" /\ up[k] # <<>> /\ up' = [up EXCEPT ![k] = Tail(@)]
    BY <1>10, ResultFacts
  <2>2. up[k] \in Seq(Answer) /\ up'[k] = Tail(up[k]) /\ \A j \in Streams : j # k => up'[j] = up[j]
    BY <1>0, <2>1
  <2>3. CASE Closing(k) /\ UNCHANGED <<db, down>>
    BY <1>4, <2>2, <2>3, SameRow
  <2>4. CASE ~(Closing(k) /\ UNCHANGED <<db, down>>)
    <3>1. /\ session[k].pending /\ MayObserve(db, session[k], result)
          /\ db'.generation = db.generation /\ db'.fence = db.fence
      BY <1>10, <2>4, ResultFacts
    <3>2. Live(db, session[k], down[k], up[k], InHand(k)) /\ MayDeliver(db, session[k])
      BY <1>0, <2>1, <3>1 DEF StreamLive, MayObserve, MayDeliver
    <3>3. PICK t \in Handler :
            /\ session' = [session EXCEPT ![k] = t]
            /\ t.state = "open" /\ t.gen = session[k].gen
            /\ \/ /\ result.stage = "received" /\ down' = down
                  /\ t.pending /\ t.attempted = session[k].attempted /\ db'.sent = db.sent
                  /\ db.sent # 0 => db'.deployments[db.sent] = db.deployments[db.sent]
               \/ result.stage # "received" /\ ~t.pending /\ down' = down
               \/ /\ result.stage # "received" /\ t.pending
                  /\ t.attempted = db.desired /\ db'.sent = db.desired /\ db.desired # 0
                  /\ \E m \in Order :
                       /\ down' = [down EXCEPT ![k] = Append(@, m)]
                       /\ m.rev = db.desired /\ m.gen = session[k].gen
                       /\ m.payload = db'.deployments[db.desired]
      BY <1>10, <2>4, ResultFacts
    <3>4. ASSUME result.stage # "received" PROVE Clear(down[k], Tail(up[k]), InHand(k))
      BY <2>1, <2>2, <3>2, <3>4, LiveFinal
    <3> HIDE DEF result
    <3>5. CASE /\ down' = down
               /\ t.pending /\ t.attempted = session[k].attempted /\ db'.sent = db.sent
               /\ db.sent # 0 => db'.deployments[db.sent] = db.deployments[db.sent]
      <4>1. Live(db', t, down[k], Tail(up[k]), InHand(k))
        BY <2>1, <2>2, <3>1, <3>2, <3>3, <3>5, LiveResult
      <4> QED BY <1>5, <2>1, <2>2, <3>3, <3>5, <4>1
    <3>6. CASE result.stage # "received" /\ ~t.pending /\ down' = down
      <4>1. Live(db', t, down[k], Tail(up[k]), InHand(k))
        BY <3>4, <3>6, ClearLive
      <4> QED BY <1>5, <2>1, <2>2, <3>3, <3>6, <4>1
    <3>7. CASE /\ result.stage # "received" /\ t.pending
               /\ t.attempted = db.desired /\ db'.sent = db.desired /\ db.desired # 0
               /\ \E m \in Order :
                    /\ down' = [down EXCEPT ![k] = Append(@, m)]
                    /\ m.rev = db.desired /\ m.gen = session[k].gen
                    /\ m.payload = db'.deployments[db.desired]
      <4>1. PICK m \in Order : /\ down' = [down EXCEPT ![k] = Append(@, m)]
                               /\ m.rev = db.desired /\ m.gen = session[k].gen
                               /\ m.payload = db'.deployments[db.desired]
        BY <3>7
      <4>2. /\ down[k] \in Seq(Announcement \cup Order) /\ down'[k] = Append(down[k], m)
            /\ \A j \in Streams : j # k => down'[j] = down[j]
        BY <1>0, <4>1
      <4>3. Live(db', t, Append(down[k], m), Tail(up[k]), InHand(k))
        BY <3>3, <3>4, <3>7, <4>1, <4>2, ClearSent, ZenonT(30)
      <4> QED BY <1>5, <2>1, <2>2, <3>3, <4>2, <4>3
    <3> QED BY <3>3, <3>5, <3>6, <3>7
  <2> QED BY <2>3, <2>4
<1> QED BY <1>6, <1>7, <1>8, <1>9, <1>10

\* The agent's steps touch the stream it is on and no other.
LEMMA AgentStream ==
    ASSUME Inv, conn # 0, UNCHANGED <<db, session, opened>>, conn' \in {conn, 0},
           \A j \in Streams : j # conn => down'[j] = down[j] /\ up'[j] = up[j],
           session[conn].state \in {"hello", "begun"} => down'[conn] = down[conn] /\ up'[conn] = up[conn],
           session[conn].state = "open" /\ Live(db, session[conn], down[conn], up[conn], work) =>
              Live(db, session[conn], down'[conn], up'[conn], IF conn' = conn THEN work' ELSE None)
    PROVE  \A j \in Streams : StreamLive(j)'
<1>0. /\ conn \in Streams /\ conn <= opened /\ opened \in Nat /\ conn \in Nat
      /\ \A j \in Streams : StreamLive(j)
  BY SyncAssumption DEF Inv, Shape, AgentSound, Streams, ChannelSound, StreamLive
<1>1. InHand(conn) = work
  BY DEF InHand
<1>2. PICK c \in Streams : c = conn
  BY <1>0
<1>3. InHand(c)' = IF conn' = c THEN work' ELSE None
  BY DEF InHand
<1>4. session[c].state = "open" => Live(db, session[c], down'[c], up'[c], InHand(c)')
  BY <1>0, <1>1, <1>2, <1>3 DEF StreamLive
<1>5. StreamLive(c)'
  BY <1>0, <1>2, <1>4 DEF StreamLive
<1>6. ASSUME NEW j \in Streams, j # c PROVE StreamLive(j)'
  BY <1>0, <1>2, <1>6, OtherStreams
<1> QED BY <1>5, <1>6

\* The steps of the agent on its stream.
LEMMA ChannelAgent ==
    ASSUME Inv, TakeAuthority \/ Receive \/ ApplyRuntime \/ RejectRuntime \/ ReportApplied
                \/ StreamClosed \/ AgentLeaves
    PROVE  \A j \in Streams : StreamLive(j)'
<1> USE DEF master, agent, runtimes
<1>0. /\ Shape /\ down \in [Streams -> Seq(Announcement \cup Order)] /\ up \in [Streams -> Seq(Answer)]
      /\ ChannelSound /\ AgentSound
  BY DEF Inv, Shape
<1>1. conn # 0 /\ conn \in Streams /\ UNCHANGED <<db, session, opened>>
  <2>1. conn # 0
    BY <1>0 DEF TakeAuthority, Receive, ApplyRuntime, RejectRuntime, ReportApplied, StreamClosed,
                AgentLeaves, AgentSound
  <2>2. conn \in Streams
    BY <1>0, <2>1, SyncAssumption DEF Shape, Streams
  <2> QED BY <2>1, <2>2 DEF TakeAuthority, Receive, ApplyRuntime, RejectRuntime, ReportApplied,
                            StreamClosed, AgentLeaves
<1>2. down[conn] \in Seq(Announcement \cup Order) /\ up[conn] \in Seq(Answer)
  BY <1>0, <1>1
<1>3. down[conn] # <<>> \/ work # None => session[conn].state \notin {"hello", "begun"}
  BY <1>0, <1>1 DEF ChannelSound, AgentSound
<1>4. ASSUME NEW e, NEW s, NEW dn, NEW u, Live(e, s, dn, u, work)
      PROVE  Live(e, s, dn, u, None)
  BY <1>4, LiveLeft
<1>5. CASE StreamClosed \/ AgentLeaves
  <2>1. UNCHANGED <<down, up>> /\ conn' = 0 /\ work' = None
    BY <1>5 DEF StreamClosed, AgentLeaves, Leave
  <2> QED BY <1>1, <1>4, <2>1, AgentStream
<1>6. CASE TakeAuthority
  <2>1. /\ down[conn] # <<>> /\ UNCHANGED up /\ down' = [down EXCEPT ![conn] = Tail(@)]
        /\ UNCHANGED <<conn, work>> \/ Leave
    BY <1>6 DEF TakeAuthority
  <2>2. down'[conn] = Tail(down[conn]) /\ \A j \in Streams : j # conn => down'[j] = down[j]
    BY <1>0, <1>1, <2>1
  <2>3. conn' \in {conn, 0} /\ (conn' = conn => work' = work)
    BY <1>1, <2>1 DEF Leave
  <2>4. ASSUME Live(db, session[conn], down[conn], up[conn], work)
        PROVE  Live(db, session[conn], Tail(down[conn]), up[conn], work)
    BY <1>2, <2>1, <2>4, LiveAuthority
  <2>5. ASSUME Live(db, session[conn], down[conn], up[conn], work)
        PROVE  Live(db, session[conn], down'[conn], up'[conn], IF conn' = conn THEN work' ELSE None)
    BY <1>4, <2>1, <2>2, <2>3, <2>4, <2>5
  <2> QED BY <1>1, <1>3, <2>1, <2>2, <2>3, <2>5, AgentStream
<1>7. CASE Receive
  <2>1. down[conn] # <<>> /\ work = None
    BY <1>7 DEF Receive
  <2>2. down' = [down EXCEPT ![conn] = Tail(@)] /\ Head(down[conn]) \in Order
    BY <1>0, <1>7, ReceiveFacts
  <2>3. down'[conn] = Tail(down[conn]) /\ \A j \in Streams : j # conn => down'[j] = down[j]
    BY <1>0, <1>1, <2>2
  <2>4. CASE UNCHANGED up /\ Leave
    <3>1. conn' = 0
      BY <2>4 DEF Leave
    <3>2. ASSUME Live(db, session[conn], down[conn], up[conn], work)
          PROVE  Live(db, session[conn], Tail(down[conn]), up[conn], None)
      BY <1>2, <2>1, <3>2, LiveAuthority
    <3> QED BY <1>1, <1>3, <2>1, <2>3, <2>4, <3>1, <3>2, AgentStream
  <2>5. CASE ~(UNCHANGED up /\ Leave)
    <3> DEFINE m == Head(down[conn])
               d == [rev |-> m.rev, payload |-> m.payload, gen |-> m.gen]
    <3>1. /\ d \in Held /\ Send("received", d) /\ UNCHANGED conn
          /\ work' = [deployment |-> d, next |-> 1]
      BY <1>0, <1>7, <2>5, ReceiveFacts
    <3>2. d.rev = m.rev /\ d.gen = m.gen /\ d.payload = m.payload
      OBVIOUS
    <3> HIDE DEF d
    <3>3. work'.deployment = d
      BY <3>1
    <3>4. "received" \in {"received", "rejected", "applied"}
      OBVIOUS
    <3>5. /\ Len(up'[conn]) = Len(up[conn]) + 1
          /\ up'[conn][Len(up[conn]) + 1] =
               [stage |-> "received", gen |-> d.gen, rev |-> d.rev, payload |-> d.payload]
          /\ \A j \in Streams : j # conn => up'[j] = up[j]
      BY <1>0, <1>1, <3>1, <3>4, SendFacts
    <3>6. ASSUME Live(db, session[conn], down[conn], up[conn], work)
          PROVE  Live(db, session[conn], Tail(down[conn]), up'[conn], work')
      BY <1>2, <2>1, <2>2, <3>1, <3>2, <3>3, <3>5, <3>6, LiveReceived
    <3> QED BY <1>1, <1>3, <2>1, <2>3, <3>1, <3>5, <3>6, AgentStream
  <2> QED BY <2>4, <2>5
<1>8. CASE ApplyRuntime
  <2>1. /\ work # None /\ UNCHANGED <<down, up, conn>>
        /\ work' = [work EXCEPT !.next = work.next + 1]
    BY <1>8 DEF ApplyRuntime
  <2>2. work'.deployment = work.deployment
    BY <1>0, <2>1 DEF Shape, Task
  <2>3. ASSUME Live(db, session[conn], down[conn], up[conn], work)
        PROVE  Live(db, session[conn], down[conn], up[conn], work')
    BY <2>1, <2>2, <2>3, LiveWorking
  <2> QED BY <1>1, <2>1, <2>3, AgentStream
<1>9. ASSUME NEW stage \in {"received", "rejected", "applied"}, work # None, Send(stage, work.deployment),
             UNCHANGED <<down, conn>>, work' = None
      PROVE  \A j \in Streams : StreamLive(j)'
  <2>1. work.deployment \in Held
    BY <1>0, <1>9 DEF Shape, Task
  <2>2. /\ Len(up'[conn]) = Len(up[conn]) + 1 /\ \A n \in 1 .. Len(up[conn]) : up'[conn][n] = up[conn][n]
        /\ up'[conn][Len(up[conn]) + 1] =
             [stage |-> stage, gen |-> work.deployment.gen, rev |-> work.deployment.rev,
              payload |-> work.deployment.payload]
        /\ \A j \in Streams : j # conn => up'[j] = up[j]
    BY <1>0, <1>1, <1>9, <2>1, SendFacts
  <2>3. ASSUME Live(db, session[conn], down[conn], up[conn], work)
        PROVE  Live(db, session[conn], down[conn], up'[conn], None)
    BY <1>2, <1>9, <2>2, <2>3, LiveAnswered
  <2> QED BY <1>1, <1>3, <1>9, <2>2, <2>3, AgentStream
<1>10. CASE RejectRuntime
  <2>1. work # None /\ UNCHANGED <<down, conn>>
    BY <1>10 DEF RejectRuntime
  <2>2. Send("rejected", work.deployment) /\ work' = None
    BY <1>10, RejectFacts
  <2> QED BY <1>9, <2>1, <2>2
<1>11. CASE ReportApplied
  <2>1. work # None /\ UNCHANGED down
    BY <1>11 DEF ReportApplied
  <2>2. CASE UNCHANGED up /\ Leave
    <3>1. conn' = 0 /\ work' = None
      BY <2>2 DEF Leave
    <3> QED BY <1>1, <1>4, <2>1, <2>2, <3>1, AgentStream
  <2>3. CASE ~(UNCHANGED up /\ Leave)
    <3>1. Send("applied", work.deployment) /\ work' = None /\ UNCHANGED conn
      BY <1>11, <2>3, ReportFacts
    <3> QED BY <1>9, <2>1, <3>1
  <2> QED BY <2>2, <2>3
<1> QED BY <1>5, <1>6, <1>7, <1>8, <1>10, <1>11

\* Every step leaves one deployment at a time on a stream.
LEMMA ChannelNext == Inv /\ [Next]_vars => ChannelSound'
<1> SUFFICES ASSUME Inv, [Next]_vars PROVE \A j \in Streams : StreamLive(j)'
  BY DEF ChannelSound, StreamLive
<1> USE DEF master, agent, runtimes
<1>0. /\ opened \in Nat /\ session \in [Streams -> Handler]
      /\ \A j \in Streams : StreamLive(j) /\ StreamSound(j) /\ j \in Nat
      /\ 0 \notin Streams
  <2>1. Shape /\ ChannelSound /\ MasterSound
    BY DEF Inv
  <2>2. opened \in Nat /\ 0 \notin Streams /\ \A j \in Streams : j \in Nat
    BY <2>1, SyncAssumption DEF Shape, Streams
  <2> QED BY <2>1, <2>2 DEF Shape, ChannelSound, StreamLive, MasterSound, StreamSound
<1>1. CASE UNCHANGED <<db, session, down, up, conn, work, opened>>
  <2>1. \A j \in Streams : InHand(j)' = InHand(j)
    BY <1>1 DEF InHand
  <2> QED BY <1>0, <1>1, <2>1, SameRow, StreamKeeps
<1>2. ASSUME NEW p \in Payloads, Publish(p) PROVE \A j \in Streams : StreamLive(j)'
  <2>1. UNCHANGED <<session, down, up, agent, opened>>
    BY <1>2 DEF Publish
  <2>2. \A j \in Streams : InHand(j)' = InHand(j)
    BY <2>1 DEF InHand
  <2>3. /\ db'.sent = db.sent /\ db'.generation = db.generation /\ db'.fence = db.fence
        /\ db.sent # 0 => db'.deployments[db.sent] = db.deployments[db.sent]
    BY <1>2, PublishFacts DEF Inv, MasterSound
  <2>4. \A s : RowKeeps(s)
    BY <2>3 DEF RowKeeps, MayDeliver
  <2> QED BY <1>0, <2>1, <2>2, <2>4, StreamKeeps
<1>3. CASE Restore
  <2>1. /\ session' = [k \in Streams |-> Closed] /\ UNCHANGED <<down, up, opened>>
    BY <1>3 DEF Restore
  <2>2. \A j \in Streams : session'[j].state = "closed"
    BY <2>1, ClosedFacts
  <2> QED BY <1>0, <2>1, <2>2 DEF StreamLive
<1>4. CASE Connect
  <2> DEFINE hello == [Closed EXCEPT !.state = "hello",
                         !.hello = [authority |-> node.authority, desired |-> node.desired,
                                    applied |-> node.applied]]
             k == opened + 1
  <2>1. /\ conn = 0 /\ opened < MaxStreams /\ opened' = opened + 1 /\ conn' = k
        /\ session' = [session EXCEPT ![k] = hello]
        /\ UNCHANGED <<db, down, up, work>>
    BY <1>4 DEF Connect
  <2>2. hello.state = "hello" /\ hello.pending = FALSE
    BY DEF Closed
  <2> HIDE DEF hello
  <2>3. k \in Streams /\ k > opened
    BY <1>0, <2>1, SyncAssumption DEF Streams
  <2>4. down[k] = <<>> /\ up[k] = <<>>
    BY <1>0, <2>3 DEF StreamLive
  <2> HIDE DEF k
  <2>5. session'[k] = hello /\ \A j \in Streams : j # k => session'[j] = session[j]
    BY <1>0, <2>1, <2>3
  <2>6. ASSUME NEW j \in Streams, j = k PROVE StreamLive(j)'
    BY <2>1, <2>2, <2>4, <2>5, <2>6 DEF StreamLive
  <2>7. ASSUME NEW j \in Streams, j # k PROVE StreamLive(j)'
    <3>1. InHand(j) = None /\ InHand(j)' = None
      BY <1>0, <2>1, <2>7 DEF Inv, AgentSound, InHand
    <3>2. j > opened' => j > opened
      BY <1>0, <2>1
    <3> QED BY <1>0, <2>1, <2>5, <2>7, <3>1, <3>2 DEF StreamLive
  <2> QED BY <2>6, <2>7
<1>5. TRUE \in BOOLEAN /\ FALSE \in BOOLEAN
  OBVIOUS
<1>6. CASE \E k \in Streams :
             BeginSession(k) \/ Register(k) \/ Deliver(k, FALSE) \/ Deliver(k, TRUE)
             \/ SessionRevoked(k) \/ HandleResult(k) \/ HandlerEnds(k)
  BY <1>5, <1>6, ChannelMaster
<1>7. CASE TakeAuthority \/ Receive \/ ApplyRuntime \/ RejectRuntime \/ ReportApplied
           \/ StreamClosed \/ AgentLeaves
  BY <1>7, ChannelAgent
<1>8. CASE \/ Snapshot \/ UNCHANGED vars \/ \E i \in Slots : WorkerRestart(i)
           \/ \E request \in late : LateApply(request[1], request[2])
  BY <1>1, <1>8 DEF Snapshot, WorkerRestart, LateApply, vars
<1> QED BY <1>2, <1>3, <1>4, <1>6, <1>7, <1>8 DEF Next

\* Every step leaves the agent on a stream that was open.
LEMMA AgentNext == Inv /\ [Next]_vars => AgentSound'
<1> SUFFICES ASSUME Inv, [Next]_vars PROVE AgentSound'
  OBVIOUS
<1> USE DEF master, agent, runtimes
<1>0. /\ opened \in Nat /\ conn \in 0 .. MaxStreams /\ session \in [Streams -> Handler]
      /\ AgentSound /\ ChannelSound /\ MasterSound /\ Shape
      /\ conn # 0 => conn \in Streams /\ conn \in Nat
  BY SyncAssumption DEF Inv, Shape, Streams
<1>1. CASE conn' = conn /\ opened' = opened /\ UNCHANGED session /\ (work' # None => work # None)
  BY <1>0, <1>1 DEF AgentSound
<1>2. CASE conn' = 0 /\ work' = None
  BY <1>2 DEF AgentSound
<1>3. ASSUME UNCHANGED <<conn, work, opened>>,
             \A k \in Streams : session[k].state \in {"open", "closed"} =>
                                  session'[k].state \in {"open", "closed"}
      PROVE  AgentSound'
  BY <1>0, <1>3 DEF AgentSound
<1>4. ASSUME NEW k \in Streams, NEW t, t.state \in {"open", "closed"} \/ session[k].state \notin {"open", "closed"},
             session' = [session EXCEPT ![k] = t]
      PROVE  \A j \in Streams : session[j].state \in {"open", "closed"} =>
                                  session'[j].state \in {"open", "closed"}
  BY <1>0, <1>4
<1>5. ASSUME NEW k \in Streams, Closing(k), UNCHANGED <<agent, opened>> PROVE AgentSound'
  BY <1>3, <1>4, <1>5, ClosedFacts DEF Closing
<1>6. ASSUME NEW k \in Streams, BeginSession(k) PROVE AgentSound'
  <2>1. session[k].state = "hello" /\ UNCHANGED <<agent, opened>>
    BY <1>6 DEF BeginSession
  <2>2. CASE Closing(k)
    BY <1>5, <2>1, <2>2
  <2>3. CASE ~Closing(k)
    <3>1. PICK t \in Handler : session' = [session EXCEPT ![k] = t]
      BY <1>6, <2>3, BeginFacts
    <3> QED BY <1>3, <1>4, <2>1, <3>1
  <2> QED BY <2>2, <2>3
<1>7. ASSUME NEW k \in Streams, Register(k) PROVE AgentSound'
  <2>1. session[k].state = "begun" /\ UNCHANGED <<agent, opened>>
    BY <1>7 DEF Register
  <2>2. session[k] \in Handler
    BY <1>0
  <2>3. [session[k] EXCEPT !.state = "open"].state = "open"
    BY <2>2 DEF Handler
  <2>4. \A j \in Streams : session'[j] = session[j] \/ session'[j] = Closed \/ session'[j].state = "open"
    BY <1>0, <1>7, <2>3 DEF Register
  <2> QED BY <1>3, <2>1, <2>4, ClosedFacts
<1>8. ASSUME NEW k \in Streams, NEW forced \in BOOLEAN, Deliver(k, forced) PROVE AgentSound'
  <2>1. PICK t \in Handler : session' = [session EXCEPT ![k] = t] /\ t.state = "open"
    BY <1>8, DeliverFacts
  <2> QED BY <1>3, <1>4, <1>8, <2>1 DEF Deliver
<1>9. ASSUME NEW k \in Streams, HandleResult(k) PROVE AgentSound'
  <2>1. UNCHANGED <<agent, opened>>
    BY <1>9 DEF HandleResult
  <2>2. CASE Closing(k)
    BY <1>5, <2>1, <2>2
  <2>3. CASE ~Closing(k)
    <3>1. PICK t \in Handler : session' = [session EXCEPT ![k] = t] /\ t.state = "open"
      BY <1>9, <2>3, ResultFacts
    <3> QED BY <1>3, <1>4, <2>1, <3>1
  <2> QED BY <2>2, <2>3
<1>10. CASE \E k \in Streams : SessionRevoked(k) \/ HandlerEnds(k)
  BY <1>5, <1>10 DEF SessionRevoked, HandlerEnds
<1>11. CASE Restore
  <2>1. session' = [k \in Streams |-> Closed] /\ UNCHANGED <<agent, opened>>
    BY <1>11 DEF Restore
  <2>2. \A j \in Streams : session'[j].state = "closed"
    BY <2>1, ClosedFacts
  <2> QED BY <1>3, <2>1, <2>2
<1>12. CASE Connect
  <2>1. conn = 0 /\ conn' = opened + 1 /\ opened' = opened + 1 /\ work' = work
    BY <1>12 DEF Connect
  <2> QED BY <1>0, <2>1 DEF AgentSound
<1>13. CASE Receive
  <2>1. UNCHANGED <<session, opened>> /\ down[conn] # <<>> /\ conn # 0
    BY <1>13 DEF Receive
  <2>2. session[conn].state \in {"open", "closed"}
    <3>1. conn \in Streams /\ session[conn] \in Handler
      BY <1>0, <2>1
    <3>2. session[conn].state \notin {"hello", "begun"}
      BY <1>0, <2>1, <3>1 DEF ChannelSound
    <3> QED BY <3>1, <3>2 DEF Handler
  <2>3. CASE Leave
    BY <1>2, <2>3 DEF Leave
  <2>4. CASE ~Leave
    <3>1. UNCHANGED conn
      BY <1>0, <1>13, <2>4, ReceiveFacts
    <3> QED BY <1>0, <2>1, <2>2, <3>1 DEF AgentSound
  <2> QED BY <2>3, <2>4
<1>14. CASE TakeAuthority \/ ReportApplied \/ StreamClosed \/ AgentLeaves
  BY <1>1, <1>2, <1>14 DEF TakeAuthority, ReportApplied, StreamClosed, AgentLeaves, Leave
<1>15. CASE ApplyRuntime \/ RejectRuntime
  BY <1>1, <1>15 DEF ApplyRuntime, RejectRuntime
<1>16. CASE \/ Snapshot \/ UNCHANGED vars \/ (\E p \in Payloads : Publish(p))
            \/ (\E i \in Slots : WorkerRestart(i))
            \/ \E request \in late : LateApply(request[1], request[2])
  BY <1>1, <1>16 DEF Snapshot, WorkerRestart, LateApply, Publish, vars
<1>17. TRUE \in BOOLEAN /\ FALSE \in BOOLEAN
  OBVIOUS
<1>18. CASE \E k \in Streams : Deliver(k, FALSE) \/ Deliver(k, TRUE)
  BY <1>8, <1>17, <1>18
<1> QED BY <1>6, <1>7, <1>9, <1>10, <1>11, <1>12, <1>13, <1>14, <1>15, <1>16, <1>18 DEF Next

\* Inv is an inductive invariant.
LEMMA NextInv == Inv /\ [Next]_vars => Inv'
BY ShapeNext, MasterNext, NodeNext, ReachedNext, ChannelNext, AgentNext, BehindNext DEF Inv

\* It holds in every reachable state.
LEMMA Invariance == Spec => []Inv
BY InitInv, NextInv, PTL DEF Spec

-----------------------------------------------------------------------------
(***************************************************************************)
(* Towards RevisionDelivery.                                               *)
(***************************************************************************)

\* One runtime moves at a time, and the master stands still meanwhile.
LEMMA ForceMoves ==
    ASSUME Inv, [Next]_vars
    PROVE  \/ UNCHANGED force
           \/ UNCHANGED db /\ \E i \in Slots : \E d : force' = [force EXCEPT ![i] = d]
<1> USE DEF master, agent, runtimes
<1>1. CASE \/ (\E p \in Payloads : Publish(p))
           \/ \E k \in Streams :
                BeginSession(k) \/ Register(k) \/ Deliver(k, FALSE) \/ Deliver(k, TRUE)
                \/ SessionRevoked(k) \/ HandleResult(k) \/ HandlerEnds(k)
  BY <1>1 DEF Publish, BeginSession, Register, Deliver, SessionRevoked, HandleResult, HandlerEnds
<1>2. CASE \/ Snapshot \/ Restore \/ Connect \/ TakeAuthority \/ Receive \/ ReportApplied
           \/ StreamClosed \/ AgentLeaves \/ UNCHANGED vars
  BY <1>2 DEF Snapshot, Restore, Connect, TakeAuthority, Receive, ReportApplied, StreamClosed,
              AgentLeaves, vars
<1>3. CASE ApplyRuntime
  BY <1>3 DEF ApplyRuntime
<1>4. CASE RejectRuntime
  <2>1. UNCHANGED db /\ work.next \in Slots
    BY <1>4 DEF RejectRuntime
  <2>2. UNCHANGED force \/ force' = [force EXCEPT ![work.next] = work.deployment]
    BY <1>4, RejectFacts DEF Moves
  <2> QED BY <2>1, <2>2
<1>5. CASE \E i \in Slots : WorkerRestart(i)
  BY <1>5 DEF WorkerRestart
<1>6. CASE \E request \in late : LateApply(request[1], request[2])
  <2>1. PICK request \in late : LateApply(request[1], request[2])
    BY <1>6
  <2>2. request[1] \in Slots
    BY DEF Inv, Shape
  <2> QED BY <2>1, <2>2 DEF LateApply
<1> QED BY <1>1, <1>2, <1>3, <1>4, <1>5, <1>6 DEF Next

\* Unless the database is restored, applied_revision moves only up, to a
\* revision that every runtime has reached.
LEMMA ConfirmMoves ==
    ASSUME Inv, [Next]_vars, restores' = 0, db'.applied # db.applied
    PROVE  /\ UNCHANGED force /\ db'.desired = db.desired /\ db'.applied > db.applied
           /\ \A i \in Slots : force[i].rev >= db'.applied
<1> USE DEF master, agent, runtimes
<1>0. Shape /\ RowSound(db) /\ ReachedSound
  BY DEF Inv, MasterSound
<1>1. PICK k \in Streams : HandleResult(k)
  <2>1. ASSUME NEW p \in Payloads PROVE ~Publish(p)
    BY <1>0, PublishFacts
  <2>2. ASSUME NEW j \in Streams PROVE ~BeginSession(j)
    BY BeginFacts
  <2>3. ASSUME NEW j \in Streams, NEW forced \in BOOLEAN PROVE ~Deliver(j, forced)
    BY DeliverFacts
  <2>4. ASSUME NEW j \in Streams PROVE ~Register(j) /\ ~SessionRevoked(j) /\ ~HandlerEnds(j)
    BY DEF Register, SessionRevoked, HandlerEnds
  <2>5. ~Restore
    <3>1. restores \in Nat
      BY <1>0, SyncAssumption DEF Shape
    <3> QED BY <3>1 DEF Restore
  <2>6. /\ ~Snapshot /\ ~Connect /\ ~TakeAuthority /\ ~Receive /\ ~ApplyRuntime /\ ~RejectRuntime
        /\ ~ReportApplied /\ ~StreamClosed /\ ~AgentLeaves /\ ~UNCHANGED vars
    BY DEF Snapshot, Connect, TakeAuthority, Receive, ApplyRuntime, RejectRuntime, ReportApplied,
           StreamClosed, AgentLeaves, vars
  <2>7. (\A i \in Slots : ~WorkerRestart(i)) /\ \A request \in late : ~LateApply(request[1], request[2])
    BY DEF WorkerRestart, LateApply
  <2>8. TRUE \in BOOLEAN /\ FALSE \in BOOLEAN
    OBVIOUS
  <2> QED BY <2>1, <2>2, <2>3, <2>4, <2>5, <2>6, <2>7, <2>8 DEF Next
<1>2. UNCHANGED force
  BY <1>1 DEF HandleResult
<1>3. PICK u \in Answer : u = Head(up[k]) /\ u = up[k][1] /\ 1 \in 1 .. Len(up[k])
  <2>1. up[k] # <<>> /\ up[k] \in Seq(Answer)
    BY <1>0, <1>1, ResultFacts DEF Shape
  <2>2. Head(up[k]) \in Answer /\ Head(up[k]) = up[k][1] /\ Len(up[k]) \in Nat \ {0}
    BY <2>1, HeadTailProperties, EmptySeq
  <2> QED BY <2>2
<1>4. /\ db'.desired = db.desired /\ db'.applied > db.applied
      /\ u.stage = "applied" /\ db'.applied = u.rev
  BY <1>1, <1>3, ResultFacts
<1>5. \A i \in Slots : force[i].rev >= u.rev
  BY <1>0, <1>3, <1>4 DEF ReachedSound, Reached
<1> QED BY <1>2, <1>4, <1>5

\* Every step that does not restore the database is one of RevisionDelivery.
LEMMA DeliveryStep ==
    ASSUME Inv, [Next]_vars, restores' = 0
    PROVE  [Delivery!Next]_<<db.desired, [i \in Slots |-> force[i].rev], db.applied>>
<1> DEFINE f == [i \in Slots |-> force[i].rev]
<1>0. Shape /\ Shape' /\ RowSound(db) /\ RowSound(db') /\ NodeSound /\ Behind
  BY ShapeNext, MasterNext DEF Inv, MasterSound
<1>1. /\ db.desired \in Nat /\ db'.desired \in Nat /\ db.applied \in Nat /\ db'.applied \in Nat
      /\ \A i \in Slots : force[i].rev \in Nat /\ force'[i].rev \in Nat
  <2>1. db.desired \in Nat /\ db'.desired \in Nat /\ db.applied \in Nat /\ db'.applied \in Nat
    BY <1>0, SyncAssumption DEF Shape, Row
  <2>2. \A i \in Slots : force[i] \in Held \cup {Nothing} /\ force'[i] \in Held \cup {Nothing}
    BY <1>0 DEF Shape
  <2> QED BY <1>0, <2>1, <2>2, SlotFacts
<1>2. /\ restores = 0
      /\ db'.desired # db.desired =>
            db'.desired = db.desired + 1 /\ db'.applied = db.applied /\ UNCHANGED force
  BY DesiredMoves
<1>3. CASE db'.desired # db.desired
  BY <1>2, <1>3 DEF Delivery!Next, Delivery!Publish
<1>4. CASE db'.applied # db.applied
  <2>1. /\ UNCHANGED force /\ db'.desired = db.desired /\ db'.applied > db.applied
        /\ \A i \in Slots : force[i].rev >= db'.applied
    BY <1>4, ConfirmMoves
  <2>2. db'.applied \in db.applied + 1 .. db.desired
    BY <1>0, <1>1, <2>1 DEF RowSound
  <2>3. \A i \in Slots : db'.applied <= f[i]
    BY <1>1, <2>1
  <2> QED BY <2>1, <2>2, <2>3 DEF Delivery!Next, Delivery!Confirm
<1>5. CASE db'.desired = db.desired /\ db'.applied = db.applied /\ UNCHANGED force
  BY <1>5
<1>6. CASE db'.desired = db.desired /\ db'.applied = db.applied /\ ~UNCHANGED force
  <2>0. PICK i \in Slots : \E d : force' = [force EXCEPT ![i] = d]
    BY <1>6, ForceMoves
  <2>1. PICK d : force' = [force EXCEPT ![i] = d]
    BY <2>0
  <2>2. Onward
    BY NodeSteps, StillOnward DEF Steady, Takes
  <2>3. force'[i].rev >= force[i].rev /\ OnNode(force'[i]) /\ force'[i] \in Held \cup {Nothing}
    BY <1>0, <1>1, <2>2 DEF Onward, Shape
  <2>4. node.desired <= db.desired /\ node.desired \in Nat
    BY <1>0, <1>2, SyncAssumption DEF Behind, Shape, Store
  <2>5. force'[i].rev <= db.desired
    <3>1. force'[i].rev <= node.desired
      BY <1>0, <2>3 DEF NodeSound
    <3> QED BY <1>1, <2>4, <3>1
  <2>6. f' = [f EXCEPT ![i] = force'[i].rev]
    <3>1. \A j \in Slots : j # i => force'[j] = force[j]
      BY <1>0, <2>1 DEF Shape
    <3>2. f' = [j \in Slots |-> force'[j].rev]
      OBVIOUS
    <3> QED BY <3>1, <3>2
  <2>7. CASE force'[i].rev = force[i].rev
    <3>1. f' = f
      BY <2>6, <2>7
    <3> QED BY <1>6, <3>1
  <2>8. CASE force'[i].rev # force[i].rev
    <3>1. force'[i].rev \in f[i] + 1 .. db.desired
      BY <1>1, <2>3, <2>5, <2>8
    <3>2. Delivery!Apply(i)
      BY <1>6, <2>6, <3>1 DEF Delivery!Apply
    <3> QED BY <3>2 DEF Delivery!Next
  <2> QED BY <2>7, <2>8
<1> QED BY <1>3, <1>4, <1>5, <1>6

-----------------------------------------------------------------------------
(***************************************************************************)
(* The results.                                                            *)
(***************************************************************************)

\* applied_revision (Observe) never claims what is not so: every runtime is at
\* that revision or beyond it, and at it with the payload the database has,
\* also on a database that was restored and numbers its revisions anew.
THEOREM AppliedStaysTrue == Spec => []AppliedIsTrue
<1>1. Inv => AppliedIsTrue
  <2> SUFFICES ASSUME Inv, db.applied # 0
               PROVE  /\ db.applied \in DOMAIN db.deployments
                      /\ \A i \in Slots : Reached(force, i, db.applied, db.deployments[db.applied])
    BY DEF AppliedIsTrue, Reached
  <2>1. db.applied \in DOMAIN db.deployments
    BY DEF Inv, MasterSound, RowSound
  <2> QED BY <2>1 DEF Inv, ReachedSound, RowTrue
<1> QED BY <1>1, Invariance, PTL

\* The stores of master and node stay usable: the variables keep their types,
\* a revision number means one payload on the node (Store.Receive), and a
\* session that has the authority is never ended by its own answer (Observe,
\* pruneDeployments).
THEOREM StoresStaySound == Spec => []StoresSound
<1>1. Inv => TypeOK
  <2> SUFFICES ASSUME Inv PROVE TypeOK
    OBVIOUS
  <2>1. Shape /\ RowSound(db)
    BY DEF Inv, MasterSound
  <2>2. \A r \in DOMAIN db.deployments : r \in 1 .. MaxRevision /\ db.deployments[r] \in Payloads
    BY <2>1, MapsFacts DEF Shape, Row, Revisions
  <2>3. Held \cup {Nothing} \subseteq Deployment
    BY SyncAssumption DEF Held, Nothing, Deployment, Revisions, Streams
  <2>4. \A r \in DOMAIN node.deploys : node.deploys[r] \in Held
    BY <2>1, MapsFacts DEF Shape, Store
  <2>5. \A k \in Streams :
          /\ session[k].state \in {"closed", "hello", "begun", "open"}
          /\ session[k].gen \in 0 .. MaxStreams /\ session[k].attempted \in 0 .. MaxRevision
          /\ session[k].pending \in BOOLEAN /\ session[k].retry \in BOOLEAN
    BY <2>1 DEF Shape, Handler
  <2>6. work # None => work.deployment \in Held /\ work.next \in 1 .. RuntimeCount + 1
    BY <2>1 DEF Shape, Task
  <2>7. accepted \in [Slots -> Deployment] /\ force \in [Slots -> Deployment]
    BY <2>1, <2>3 DEF Shape
  <2>8. late \subseteq Slots \X Deployment
    BY <2>1, <2>3 DEF Shape
  <2>9. /\ db.desired \in 0 .. MaxRevision /\ db.sent \in 0 .. MaxRevision
        /\ db.applied \in 0 .. MaxRevision /\ db.generation \in 0 .. MaxStreams /\ db.fence \in BOOLEAN
        /\ restores \in 0 .. MaxRestores /\ faults \in 0 .. MaxFaults
        /\ registered \in 0 .. MaxStreams /\ conn \in 0 .. MaxStreams /\ opened \in 0 .. MaxStreams
        /\ node.authority \in 0 .. MaxStreams
        /\ node.desired \in 0 .. MaxRevision /\ node.applied \in 0 .. MaxRevision
    BY <2>1 DEF Shape, Row, Store
  <2> QED BY <2>2, <2>3, <2>4, <2>5, <2>6, <2>7, <2>8, <2>9 DEF TypeOK
<1>2. Inv => OnePayloadPerRevision
  <2> SUFFICES ASSUME Inv PROVE OnePayloadPerRevision
    OBVIOUS
  <2>1. Shape /\ NodeSound
    BY DEF Inv
  <2>2. \A i \in Slots : /\ accepted[i] \in Held \cup {Nothing} /\ force[i] \in Held \cup {Nothing}
                         /\ OnNode(accepted[i]) /\ OnNode(force[i])
    BY <2>1, SlotFacts
  <2>3. \A r \in DOMAIN node.deploys : node.deploys[r] \in Held \cup {Nothing} /\ OnNode(node.deploys[r])
    BY <2>1, MapsFacts DEF Shape, Store, OnNode
  <2> QED BY <2>1, <2>2, <2>3 DEF OnePayloadPerRevision, NodeSound
<1>3. Inv => ResultsRecordable
  <2> SUFFICES ASSUME Inv, NEW k \in Streams, session[k].state = "open", MayDeliver(db, session[k]),
                      NEW n \in 1 .. Len(up[k])
               PROVE  /\ up[k][n].rev = session[k].attempted /\ session[k].pending
                      /\ MayObserve(db, session[k], up[k][n])
    BY DEF ResultsRecordable
  <2>1. Live(db, session[k], down[k], up[k], InHand(k))
    BY DEF Inv, ChannelSound
  <2>2. Awaited(db, session[k], up[k][n])
    BY <2>1 DEF Live
  <2>3. session[k].attempted = db.sent /\ db.sent # 0
    BY <2>1, <2>2 DEF Live, Awaited
  <2>4. db.sent \in DOMAIN db.deployments
    BY <2>3 DEF Inv, MasterSound, RowSound
  <2> QED BY <2>2, <2>3, <2>4 DEF Awaited, MayObserve, MayDeliver
<1>4. Inv => StoresSound
  BY <1>1, <1>2, <1>3 DEF StoresSound
<1> QED BY <1>4, Invariance, PTL

\* No runtime, worker store or agent store goes back to an earlier revision or
\* generation (Store.Receive, Store.Applied), whatever the master's database
\* is restored to.
THEOREM NothingGoesBack == Spec => NeverBackwards
<1>1. Inv /\ [Next]_vars =>
        [ /\ \A i \in Slots : force[i].rev <= force'[i].rev /\ accepted[i].rev <= accepted'[i].rev
          /\ node.desired <= node'.desired /\ node.applied <= node'.applied
          /\ node.authority <= node'.authority ]_vars
  BY BackwardsNext
<1> QED BY <1>1, Invariance, PTL DEF Spec, NeverBackwards

\* As long as the database is not restored, Publish, the workers' applies and
\* Observe are the steps of RevisionDelivery: runtimes move only forwards, to
\* published revisions, and applied_revision is never ahead of one of them.
THEOREM DeliveryRefined == Spec /\ [](restores = 0) => DeliveryImplemented
<1>1. Init => Delivery!Init
  BY DEF Init, Nothing, Delivery!Init
<1>2. Inv /\ [Next]_vars /\ (restores = 0)' =>
        [Delivery!Next]_<<db.desired, [i \in Slots |-> force[i].rev], db.applied>>
  BY DeliveryStep
<1> QED BY <1>1, <1>2, Invariance, PTL DEF Spec, DeliveryImplemented, Delivery!Spec
=============================================================================
