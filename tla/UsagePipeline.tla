--------------------------- MODULE UsagePipeline ----------------------------
(***************************************************************************)
(* How measured bytes reach the master's ledger.                           *)
(*                                                                         *)
(*   worker memory --Collect--> worker spool --GET/ack--> agent spool      *)
(*                                  --Report/receipt--> master meters      *)
(*                                                                         *)
(* The worker (internal/node/worker) appends the meters that changed to    *)
(* its spool.  The agent (internal/node/agent) pulls the worker's first    *)
(* batch, appends its checkpoints to its own spool and then acknowledges   *)
(* it.  A second loop of the agent streams the agent's batches to the      *)
(* master, one at a time, each answered by a receipt.  The master          *)
(* (controlplane.Store.Ingest) accepts a batch only in sequence and        *)
(* recognises a retransmission by its digest.                              *)
(*                                                                         *)
(* Every process may crash between any two steps; a request may be lost,   *)
(* or handled long after its sender gave up and reconnected.               *)
(***************************************************************************)
EXTENDS UsageSpool, Sequences

CONSTANTS
    Grants,          \* the grants of one runtime
    Issued,          \* bytes of credit the master has issued to each grant
    MaxIncarnation,  \* bound: lives of the worker process
    ChunkLimit,      \* checkpoints Collect appends at once (1024 in the code)
    PendingLimit,    \* batches the agent reads at once (16 in the code)
    MaxFaults,       \* bound: crashes and broken connections
    None,            \* nothing in hand
    Awaited          \* a batch is on its way, its receipt is not here yet

\* A meter key is the grant and the incarnation of its runtime.
MeterOf(g, n) == <<g, n>>
GrantOf(m) == m[1]

ASSUME PipelineAssumption ==
    /\ Meters = Grants \X (1 .. MaxIncarnation)
    /\ Issued \in [Grants -> Nat]
    /\ MaxIncarnation \in Nat \ {0} /\ MaxFaults \in Nat
    /\ PendingLimit \in Nat \ {0} /\ ChunkLimit \in Nat \ {0}
    /\ None # Awaited

VARIABLES
    mode,      \* the worker process: "up", "closing" or "down"
    life,      \* its incarnation
    measured,  \* memory of the worker: bytes measured per grant in this life
    last,      \* memory of the worker: the values Collect last appended
    observed,  \* memory of the worker: checkpoints Collect has still to append
    spent,     \* bytes each grant has forwarded over all lives (the governor's account)
    worker,    \* durable: the worker's spool
    pulled,    \* memory of the agent: the worker batch it is storing
    acks,      \* acknowledgements on their way to the worker
    agent,     \* durable: the agent's spool
    sending,   \* memory of the agent: the frozen batches it is streaming
    requests,  \* batches on their way to the master
    receipt,   \* the master's answer on the agent's current stream
    ledger,    \* durable: the master's cursor, meters and consumption for this node
    faults     \* how many faults have happened

process == <<mode, life, measured, last, observed, spent>>
reporting == <<sending, requests, receipt, ledger>>
vars == <<process, worker, pulled, acks, agent, reporting, faults>>

Nothing == [m \in {} |-> 0]
Zero == [g \in Grants |-> 0]
Message(s, points) == [seq |-> s, points |-> points, live |-> TRUE]

Init ==
    /\ mode = "up" /\ life = 1
    /\ measured = Zero /\ last = Zero /\ observed = Nothing /\ spent = Zero
    /\ worker = NewSpool
    /\ pulled = None
    /\ acks = {}
    /\ agent = NewSpool
    /\ sending = <<>>
    /\ requests = {}
    /\ receipt = None
    /\ ledger = [cursor |-> 0, digest |-> Nothing, meters |-> [m \in Meters |-> 0], consumed |-> Zero]
    /\ faults = 0

-----------------------------------------------------------------------------
(***************************************************************************)
(* The worker.                                                             *)
(***************************************************************************)

\* Account.Record: a connection forwarded a byte that the governor admitted.
\* The governor admits no more than the credit (Governor!NoOverspend).
Measure(g) ==
    /\ mode = "up" /\ spent[g] < Issued[g]
    /\ measured' = [measured EXCEPT ![g] = @ + 1]
    /\ spent' = [spent EXCEPT ![g] = @ + 1]
    /\ UNCHANGED <<mode, life, last, observed, worker, pulled, acks, agent, reporting, faults>>

Changed == {g \in Grants : measured[g] # last[g]}

\* Collect, on the ticker and once more while closing: the meters that moved,
\* with the values of this moment, are then appended chunk by chunk.
Observe ==
    /\ mode # "down" /\ observed = Nothing /\ Changed # {}
    /\ observed' = [m \in {MeterOf(g, life) : g \in Changed} |-> measured[GrantOf(m)]]
    /\ UNCHANGED <<mode, life, measured, last, spent, worker, pulled, acks, agent, reporting, faults>>

Restricted(points, S) == [m \in S |-> points[m]]

Chunks == {S \in SUBSET DOMAIN observed :
             Cardinality(S) = Min({ChunkLimit, Cardinality(DOMAIN observed)})}

\* last moves only once the chunk is durable.
Collect ==
    /\ mode # "down" /\ observed # Nothing
    /\ \E S \in Chunks :
         LET points == Restricted(observed, S)
         IN  /\ AppendAllowed(worker, points)
             /\ \E a \in Slottings(worker, points) :
                  worker' = AppendTo(worker, points, a.slot, a.last)
             /\ last' = [g \in Grants |->
                           IF MeterOf(g, life) \in S THEN points[MeterOf(g, life)] ELSE last[g]]
             /\ observed' = Restricted(observed, DOMAIN observed \ S)
    /\ UNCHANGED <<mode, life, measured, spent, pulled, acks, agent, reporting, faults>>

\* The process ends: its memory and its open requests are gone.
Exit ==
    /\ mode' = "down"
    /\ measured' = Zero /\ last' = Zero /\ observed' = Nothing
    /\ acks' = {}
    /\ pulled' = IF pulled # None /\ pulled.step = "posted" THEN None ELSE pulled

\* A Collect that is refused ends the worker, which must not serve what it
\* cannot bill; the Collect of the shutdown is the last attempt.  (Bound: the
\* last life is not ended.)
CollectRefused ==
    /\ observed # Nothing /\ life < MaxIncarnation
    /\ \E S \in Chunks : ~AppendAllowed(worker, Restricted(observed, S))
    /\ \/ /\ mode = "up" /\ mode' = "closing"
          /\ observed' = Nothing
          /\ UNCHANGED <<measured, last, pulled, acks>>
       \/ mode = "closing" /\ Exit
    /\ UNCHANGED <<life, spent, worker, agent, reporting, faults>>

\* Run is cancelled: the engine is closed, then Collect runs once more.
Shutdown ==
    /\ mode = "up" /\ observed = Nothing /\ life < MaxIncarnation
    /\ mode' = "closing"
    /\ UNCHANGED <<life, measured, last, observed, spent, worker, pulled, acks, agent,
                   reporting, faults>>

ShutdownDone ==
    /\ mode = "closing" /\ observed = Nothing /\ Changed = {}
    /\ Exit
    /\ UNCHANGED <<life, spent, worker, agent, reporting, faults>>

WorkerCrash ==
    /\ mode # "down" /\ faults < MaxFaults /\ life < MaxIncarnation
    /\ faults' = faults + 1
    /\ Exit
    /\ UNCHANGED <<life, spent, worker, agent, reporting>>

\* NewStreamBackend: a new incarnation, its counters at zero.
WorkerStart ==
    /\ mode = "down"
    /\ mode' = "up" /\ life' = life + 1
    /\ UNCHANGED <<measured, last, observed, spent, worker, pulled, acks, agent, reporting, faults>>

-----------------------------------------------------------------------------
(***************************************************************************)
(* The agent pulls from the worker (LocalRuntimes.receiveUsage).           *)
(***************************************************************************)

\* GET /v1/usage: the worker freezes its first batch and answers with it.
Pull ==
    /\ mode = "up" /\ pulled = None
    /\ DOMAIN worker.batch # {}
    /\ LET s == Min(DOMAIN worker.batch)
       IN  pulled' = [step |-> "store", seq |-> s, points |-> worker.batch[s]]
    /\ worker' = Freeze(worker, 1)
    /\ UNCHANGED <<process, acks, agent, reporting, faults>>

Store ==
    /\ pulled # None /\ pulled.step = "store"
    /\ AppendAllowed(agent, pulled.points)
    /\ \E a \in Slottings(agent, pulled.points) :
         agent' = AppendTo(agent, pulled.points, a.slot, a.last)
    /\ pulled' = [pulled EXCEPT !.step = "ack"]
    /\ UNCHANGED <<process, worker, acks, reporting, faults>>

\* Mutant: a refused batch is acknowledged all the same.
StoreRefusedAcknowledged ==
    /\ pulled # None /\ pulled.step = "store"
    /\ ~AppendAllowed(agent, pulled.points)
    /\ pulled' = [pulled EXCEPT !.step = "ack"]
    /\ UNCHANGED <<process, worker, acks, agent, reporting, faults>>

\* The agent's own spool refuses the batch: nothing is acknowledged and the
\* batch is pulled again later.
StoreRefused ==
    /\ pulled # None /\ pulled.step = "store"
    /\ ~AppendAllowed(agent, pulled.points)
    /\ pulled' = None
    /\ UNCHANGED <<process, worker, acks, agent, reporting, faults>>

\* POST /v1/ack.
PostAck ==
    /\ pulled # None /\ pulled.step = "ack"
    /\ \/ /\ mode = "up"
          /\ acks' = acks \cup {pulled.seq}
          /\ pulled' = [pulled EXCEPT !.step = "posted"]
       \/ /\ mode # "up"
          /\ pulled' = None
          /\ UNCHANGED acks
    /\ UNCHANGED <<process, worker, agent, reporting, faults>>

\* The worker handles an acknowledgement, perhaps one whose sender is gone.
HandleAck(s) ==
    LET r == [durable |-> s, accounted |-> 0]
    IN  /\ mode # "down" /\ s \in acks
        /\ acks' = acks \ {s}
        /\ worker' = IF AcknowledgeAllowed(worker, r) THEN Acknowledge(worker, r) ELSE worker
        /\ pulled' = IF pulled # None /\ pulled.step = "posted" /\ pulled.seq = s
                     THEN None ELSE pulled
        /\ UNCHANGED <<process, agent, reporting, faults>>

\* The request, the answer or the agent's wait for it fails; an
\* acknowledgement that was posted may still arrive.
PullBroken ==
    /\ pulled # None /\ faults < MaxFaults
    /\ faults' = faults + 1
    /\ pulled' = None
    /\ UNCHANGED <<process, worker, acks, agent, reporting>>

-----------------------------------------------------------------------------
(***************************************************************************)
(* The agent reports to the master (Agent.Accounting).                     *)
(***************************************************************************)

InOrder(S) == [i \in 1 .. Cardinality(S) |-> CHOOSE s \in S : Cardinality({t \in S : t < s}) = i - 1]

ReadPending ==
    /\ sending = <<>> /\ DOMAIN agent.batch # {}
    /\ LET order == InOrder(PendingSequences(agent, PendingLimit))
       IN  sending' = [i \in DOMAIN order |-> Message(order[i], agent.batch[order[i]])]
    /\ agent' = Freeze(agent, PendingLimit)
    /\ receipt' = None
    /\ UNCHANGED <<process, worker, pulled, acks, requests, ledger, faults>>

Send ==
    /\ sending # <<>> /\ receipt = None
    /\ requests' = requests \cup {sending[1]}
    /\ receipt' = Awaited
    /\ UNCHANGED <<process, worker, pulled, acks, agent, sending, ledger, faults>>

\* What Ingest makes of a batch.
IsReplay(b) == b.seq <= ledger.cursor
IsConflict(b) == b.seq = ledger.cursor /\ b.points # ledger.digest
IsInSequence(b) == b.seq = ledger.cursor + 1
RunsForward(b) == \A m \in DOMAIN b.points : b.points[m] >= ledger.meters[m]

\* The bytes by which a batch raises the consumption of grant g.
Delta(b, g) ==
    Total([m \in DOMAIN b.points |-> b.points[m] - ledger.meters[m]],
          {m \in DOMAIN b.points : GrantOf(m) = g})

WithinCredit(b) == \A g \in Grants : Delta(b, g) <= Issued[g] - ledger.consumed[g]

\* Mutant: a retransmission is out of sequence.
IngestAllowedOnce(b) == IsInSequence(b) /\ RunsForward(b) /\ WithinCredit(b)

IngestAllowed(b) ==
    IF IsReplay(b) THEN ~IsConflict(b)
    ELSE IsInSequence(b) /\ RunsForward(b) /\ WithinCredit(b)

\* Mutant: checkpoints are taken for increments.
LedgerAfterIncrement(b) ==
    IF IsReplay(b) THEN ledger
    ELSE [cursor |-> b.seq, digest |-> b.points,
          meters |-> [m \in Meters |-> IF m \in DOMAIN b.points THEN ledger.meters[m] + b.points[m]
                                       ELSE ledger.meters[m]],
          consumed |-> [g \in Grants |-> ledger.consumed[g] + Delta(b, g)]]

\* Mutant: a retransmission is charged to the grant again.
LedgerAfterTwice(b) ==
    IF IsReplay(b)
    THEN [ledger EXCEPT !.consumed = [g \in Grants |->
             ledger.consumed[g] + Total(b.points, {m \in DOMAIN b.points : GrantOf(m) = g})]]
    ELSE [cursor |-> b.seq, digest |-> b.points,
          meters |-> [m \in Meters |-> IF m \in DOMAIN b.points THEN b.points[m]
                                       ELSE ledger.meters[m]],
          consumed |-> [g \in Grants |-> ledger.consumed[g] + Delta(b, g)]]

LedgerAfter(b) ==
    IF IsReplay(b) THEN ledger
    ELSE [cursor |-> b.seq, digest |-> b.points,
          meters |-> [m \in Meters |-> IF m \in DOMAIN b.points THEN b.points[m]
                                       ELSE ledger.meters[m]],
          consumed |-> [g \in Grants |-> ledger.consumed[g] + Delta(b, g)]]

\* Ingest, one transaction, of a request of the current stream or of one
\* whose stream is gone.  A refusal ends the stream.
Ingest(b) ==
    /\ b \in requests
    /\ requests' = requests \ {b}
    /\ ledger' = IF IngestAllowed(b) THEN LedgerAfter(b) ELSE ledger
    /\ receipt' = IF ~b.live THEN receipt
                  ELSE IF IngestAllowed(b)
                  THEN [durable |-> ledger'.cursor, accounted |-> ledger'.cursor]
                  ELSE None
    /\ sending' = IF b.live /\ ~IngestAllowed(b) THEN <<>> ELSE sending
    /\ UNCHANGED <<process, worker, pulled, acks, agent, faults>>

\* The receipt must cover the batch and be acceptable to the spool, else the
\* stream ends.
TakeReceipt ==
    /\ sending # <<>> /\ receipt \notin {None, Awaited}
    /\ IF receipt.durable >= sending[1].seq /\ AcknowledgeAllowed(agent, receipt)
       THEN /\ agent' = Acknowledge(agent, receipt)
            /\ sending' = Tail(sending)
       ELSE /\ sending' = <<>>
            /\ UNCHANGED agent
    /\ receipt' = None
    /\ UNCHANGED <<process, worker, pulled, acks, requests, ledger, faults>>

\* The stream ends: its answer is lost, its request may still be handled.
Disconnect ==
    /\ sending' = <<>> /\ receipt' = None
    /\ requests' = {[b EXCEPT !.live = FALSE] : b \in requests}

StreamBroken ==
    /\ sending # <<>> /\ faults < MaxFaults
    /\ faults' = faults + 1
    /\ Disconnect
    /\ UNCHANGED <<process, worker, pulled, acks, agent, ledger>>

AgentCrash ==
    /\ pulled # None \/ sending # <<>>
    /\ faults < MaxFaults
    /\ faults' = faults + 1
    /\ pulled' = None
    /\ Disconnect
    /\ UNCHANGED <<process, worker, acks, agent, ledger>>

\* A request of a stream that is gone is dropped.
RequestLost(b) ==
    /\ b \in requests /\ ~b.live
    /\ requests' = requests \ {b}
    /\ UNCHANGED <<process, worker, pulled, acks, agent, sending, receipt, ledger, faults>>

-----------------------------------------------------------------------------
Next ==
    \/ \E g \in Grants : Measure(g)
    \/ Observe \/ Collect \/ CollectRefused \/ Shutdown \/ ShutdownDone
    \/ WorkerCrash \/ WorkerStart
    \/ Pull \/ Store \/ StoreRefused \/ PostAck
    \/ \E s \in acks : HandleAck(s)
    \/ PullBroken
    \/ ReadPending \/ Send
    \/ \E b \in requests : Ingest(b)
    \/ TakeReceipt \/ StreamBroken \/ AgentCrash
    \/ \E b \in requests : RequestLost(b)

Spec == Init /\ [][Next]_vars

\* The loops of the worker and of the agent run for ever and retry after any
\* error; a process that ended is restarted by its service manager.
\* Connections may break and processes may crash, but not without end.
Fairness ==
    /\ WF_vars(Observe) /\ WF_vars(Collect) /\ WF_vars(CollectRefused)
    /\ WF_vars(ShutdownDone) /\ WF_vars(WorkerStart)
    /\ WF_vars(Pull) /\ WF_vars(Store \/ StoreRefused) /\ WF_vars(PostAck)
    /\ WF_vars(\E s \in acks : HandleAck(s))
    /\ WF_vars(ReadPending) /\ WF_vars(Send) /\ WF_vars(TakeReceipt)
    /\ WF_vars(\E b \in requests : b.live /\ Ingest(b))

FairSpec == Spec /\ Fairness

-----------------------------------------------------------------------------
(***************************************************************************)
(* Properties.                                                             *)
(***************************************************************************)

Points(p) == DOMAIN p \subseteq Meters /\ \A m \in DOMAIN p : p[m] \in Nat

SpoolType(spool) ==
    /\ \A s \in DOMAIN spool.batch : s \in Nat /\ Points(spool.batch[s])
    /\ spool.sequence \in Nat /\ spool.exposed \in Nat /\ spool.durable \in Nat
    /\ spool.accounted \in Nat /\ spool.spooled \in 0 .. SpoolLimit
    /\ spool.meters \in [Meters -> Nat] /\ spool.index \in [Meters -> Nat]

\* Every variable has its type; in particular the spool never counts below
\* zero or above its limit (queueUsage's spooled_bytes).
TypeOK ==
    /\ mode \in {"up", "closing", "down"} /\ life \in 1 .. MaxIncarnation
    /\ measured \in [Grants -> Nat] /\ last \in [Grants -> Nat] /\ spent \in [Grants -> Nat]
    /\ Points(observed)
    /\ SpoolType(worker) /\ SpoolType(agent)
    /\ pulled # None => /\ pulled.step \in {"store", "ack", "posted"}
                        /\ pulled.seq \in Nat /\ Points(pulled.points)
    /\ acks \subseteq Nat
    /\ \A i \in 1 .. Len(sending) : sending[i].seq \in Nat /\ Points(sending[i].points)
    /\ \A b \in requests : b.seq \in Nat /\ Points(b.points) /\ b.live \in BOOLEAN
    /\ receipt \in {None, Awaited} \/ (receipt.durable \in Nat /\ receipt.accounted \in Nat)
    /\ ledger.cursor \in Nat /\ Points(ledger.digest)
    /\ ledger.meters \in [Meters -> Nat] /\ ledger.consumed \in [Grants -> Nat]
    /\ faults \in 0 .. MaxFaults

Billing == INSTANCE UsageBilling WITH collected <- worker.meters, billed <- ledger.meters

\* Through lost answers, repeated batches, late requests and crashes, the
\* ledger of Ingest follows the worker's meters and never bills a byte twice.
BillingImplemented == Billing!Spec

\* A batch is deleted (Acknowledge) only after the next station holds what it
\* said: a meter with no batch left in a spool has its last value downstream.
NothingDiscarded ==
    \A m \in Meters :
       /\ worker.index[m] <= worker.durable => agent.meters[m] = worker.meters[m]
       /\ agent.index[m] <= agent.durable => ledger.meters[m] = agent.meters[m]

SpoolSound(spool) ==
    /\ DOMAIN spool.batch = spool.durable + 1 .. spool.sequence
    /\ spool.durable <= spool.exposed /\ spool.exposed <= spool.sequence
    /\ \A m \in Meters : spool.index[m] > spool.durable =>
          /\ spool.index[m] \in DOMAIN spool.batch
          /\ m \in DOMAIN spool.batch[spool.index[m]]
          /\ spool.batch[spool.index[m]][m] = spool.meters[m]
    /\ spool.spooled = Volume(spool, DOMAIN spool.batch)

\* The buckets of a spool agree: no gap in the queue, the mutable_usage index
\* points at a batch that holds the meter's last checkpoint (queueUsage fails
\* for ever if it does not), and spooled_bytes is what the queue holds.
SpoolsConsistent == SpoolSound(worker) /\ SpoolSound(agent)

\* A retransmission must repeat its batch to the byte: the content of a batch
\* that was handed out never changes, though Collect and Store keep editing
\* the batches after it.
FrozenBatches ==
    [][ /\ \A s \in DOMAIN worker.batch \cap DOMAIN worker'.batch :
             s <= worker.exposed => worker'.batch[s] = worker.batch[s]
        /\ \A s \in DOMAIN agent.batch \cap DOMAIN agent'.batch :
             s <= agent.exposed => agent'.batch[s] = agent.batch[s] ]_vars

\* The pipeline never wedges: no batch the agent can still send or has sent is
\* refused by Ingest (as a gap, a conflict, a meter running backwards or beyond
\* the issued credit), no receipt is refused by the agent's spool, and no batch
\* of the worker is refused by the agent's spool except for want of room.
NeverWedged ==
    /\ \A b \in requests : IngestAllowed(b)
    /\ agent.durable <= ledger.cursor /\ ledger.cursor <= agent.exposed
    /\ receipt \notin {None, Awaited} => AcknowledgeAllowed(agent, receipt)
    /\ pulled # None /\ pulled.step = "store" =>
          \A m \in DOMAIN pulled.points : pulled.points[m] >= agent.meters[m]
    /\ \A s \in acks : AcknowledgeAllowed(worker, [durable |-> s, accounted |-> 0])

\* The two spools hold together whatever is repeated, lost or restarted: their buckets agree,
\* nobody will refuse what they hold, and what was handed out is not edited any more.
SpoolsSound ==
    /\ [](TypeOK /\ SpoolsConsistent /\ NeverWedged)
    /\ FrozenBatches

\* FleetGrant.ConsumedBytes is the sum of the grant's meters over all lives of
\* its runtime, and stays within what the runtime forwarded.
ConsumptionExact ==
    \A g \in Grants :
       /\ ledger.consumed[g] = Total(ledger.meters, {m \in Meters : GrantOf(m) = g})
       /\ ledger.consumed[g] <= spent[g]

\* Whatever Collect made durable is billed in the end.
EventuallyBilled ==
    \A m \in Meters : \A v \in 1 .. Issued[GrantOf(m)] :
       worker.meters[m] >= v ~> ledger.meters[m] >= v
=============================================================================
