----------------------------- MODULE UsageSpool -----------------------------
(***************************************************************************)
(* The durable usage spool (internal/node/state).  The agent and every     *)
(* runtime worker keep one.  A checkpoint is the cumulative value of a     *)
(* meter; a batch holds at most one checkpoint per meter and is known by   *)
(* its sequence number.  Until a batch has been handed to a sender it may  *)
(* still be edited: a newer checkpoint of a meter replaces the older one   *)
(* in place.  PendingUsage freezes the batches it hands out by moving      *)
(* exposed over them; a frozen batch never changes again, because its      *)
(* receiver recognises a retransmission by its digest.                     *)
(*                                                                         *)
(* Uploaded and downloaded bytes are two counters treated alike; a meter's *)
(* value stands for both.  Sizes are counted in checkpoints.               *)
(***************************************************************************)
EXTENDS Totals

CONSTANTS
    Meters,      \* meter keys: a grant in one incarnation of its runtime
    BatchLimit,  \* checkpoints appended to one batch (4096, or half of MaxBatchBytes)
    SpoolLimit   \* checkpoints in the whole spool (MaxSpoolBytes)

ASSUME SpoolAssumption ==
    /\ BatchLimit \in Nat \ {0}
    /\ SpoolLimit \in Nat /\ BatchLimit <= SpoolLimit
    /\ IsFiniteSet(Meters)

NewSpool ==
    [ batch     |-> [s \in {} |-> <<>>],           \* the usage bucket, by sequence
      sequence  |-> 0,                             \* its last sequence number
      exposed   |-> 0,                             \* exposed_usage
      durable   |-> 0,                             \* durable_usage
      accounted |-> 0,                             \* accounted_usage
      spooled   |-> 0,                             \* spooled_bytes
      meters    |-> [m \in Meters |-> 0],          \* the meters bucket
      index     |-> [m \in Meters |-> 0] ]         \* the mutable_usage bucket

-----------------------------------------------------------------------------
(***************************************************************************)
(* appendUsage and queueUsage.  A meter whose last checkpoint is in a      *)
(* batch that is still open is edited there; the others (the fresh ones)   *)
(* fill up the last batch and then new ones, in the order of the list.     *)
(* slot says in which batch each fresh meter lands.                        *)
(***************************************************************************)

\* Mutant: only acknowledged batches are closed to edits.
FreshUnacknowledged(spool, points) == {m \in DOMAIN points : spool.index[m] <= spool.durable}

Fresh(spool, points) == {m \in DOMAIN points : spool.index[m] <= spool.exposed}

Held(spool, s) == IF s \in DOMAIN spool.batch THEN DOMAIN spool.batch[s] ELSE {}

\* The batches a list may be appended to: the last one while it is open.
FirstSlot(spool) == IF spool.sequence > spool.exposed THEN spool.sequence ELSE spool.sequence + 1

Load(spool, slot, s) ==
    Cardinality(Held(spool, s)) + Cardinality({m \in DOMAIN slot : slot[m] = s})

\* A batch takes no more than its limit and is used only when the ones before
\* it are full.
IsSlotting(spool, slot) ==
    \A m \in DOMAIN slot :
       /\ Load(spool, slot, slot[m]) <= BatchLimit
       /\ \A s \in FirstSlot(spool) .. slot[m] - 1 : Load(spool, slot, s) >= BatchLimit

\* The last batch of the spool afterwards, and the batch of each fresh meter:
\* no batch is created without a checkpoint to hold.
Slottings(spool, points) ==
    LET fresh == Fresh(spool, points)
    IN  UNION { {[last |-> last, slot |-> slot] :
                   slot \in {f \in [fresh -> FirstSlot(spool) .. last] :
                               /\ IsSlotting(spool, f)
                               /\ \A s \in spool.sequence + 1 .. last : \E m \in fresh : f[m] = s}} :
                last \in spool.sequence .. spool.sequence + Cardinality(fresh) }

\* The meters of points whose checkpoint is written to batch s.
Written(spool, points, slot, s) ==
    {m \in DOMAIN points : IF m \in DOMAIN slot THEN slot[m] = s ELSE spool.index[m] = s}

AppendTo(spool, points, slot, last) ==
    [spool EXCEPT
       !.batch = [s \in DOMAIN spool.batch \cup spool.sequence + 1 .. last |->
                    [m \in Held(spool, s) \cup Written(spool, points, slot, s) |->
                       IF m \in Written(spool, points, slot, s) THEN points[m]
                       ELSE spool.batch[s][m]]],
       !.sequence = last,
       !.spooled = @ + Cardinality(DOMAIN slot),
       !.meters = [m \in Meters |-> IF m \in DOMAIN points THEN points[m] ELSE @[m]],
       !.index = [m \in Meters |-> IF m \in DOMAIN slot THEN slot[m] ELSE @[m]]]

\* Mutant: the limit is tested before the list is counted.
AppendAllowedLate(spool, points) ==
    /\ DOMAIN points # {}
    /\ \A m \in DOMAIN points : points[m] >= spool.meters[m]
    /\ spool.spooled <= SpoolLimit

\* A list is refused when a meter runs backwards (ErrUsage) or when it does
\* not fit (ErrSpoolFull); the transaction then changes nothing.
AppendAllowed(spool, points) ==
    /\ DOMAIN points # {}
    /\ \A m \in DOMAIN points : points[m] >= spool.meters[m]
    /\ spool.spooled + Cardinality(Fresh(spool, points)) <= SpoolLimit

-----------------------------------------------------------------------------
(***************************************************************************)
(* PendingUsage and Acknowledge.                                           *)
(***************************************************************************)

\* The sequence numbers of the first batches, at most limit of them.
PendingSequences(spool, limit) ==
    {s \in DOMAIN spool.batch : Cardinality({t \in DOMAIN spool.batch : t < s}) < limit}

\* Mutant: the batches are handed out without being closed.
FreezeNothing(spool, limit) == spool

Freeze(spool, limit) ==
    [spool EXCEPT !.exposed = Max({@} \cup PendingSequences(spool, limit))]

\* The checkpoints that the batches in S hold.
Volume(spool, S) == Total([s \in DOMAIN spool.batch |-> Cardinality(DOMAIN spool.batch[s])], S)

AcknowledgeAllowed(spool, receipt) ==
    /\ receipt.accounted <= receipt.durable
    /\ receipt.durable <= spool.sequence
    /\ receipt.durable <= spool.exposed

\* Mutant: the reclaimed bytes stay charged to the spool.
AcknowledgeKeepsBytes(spool, receipt) ==
    LET durable == Max({receipt.durable, spool.durable})
    IN  [spool EXCEPT
           !.batch = [s \in {t \in DOMAIN spool.batch : t > durable} |-> @[s]],
           !.durable = durable,
           !.accounted = Max({receipt.accounted, @})]

Acknowledge(spool, receipt) ==
    LET durable == Max({receipt.durable, spool.durable})
        kept == {s \in DOMAIN spool.batch : s > durable}
    IN  [spool EXCEPT
           !.batch = [s \in kept |-> @[s]],
           !.spooled = @ - Volume(spool, DOMAIN spool.batch \ kept),
           !.durable = durable,
           !.accounted = Max({receipt.accounted, @})]
=============================================================================
