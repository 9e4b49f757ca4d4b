------------------------ MODULE UsagePipelineProofs -------------------------
(***************************************************************************)
(* Proofs about UsagePipeline, for any number of grants, lives of the      *)
(* worker, limits and faults.                                              *)
(*                                                                         *)
(* Each spool is consistent and its batches are in order (SpoolGood): the  *)
(* values of a meter grow from batch to batch up to its last checkpoint,   *)
(* which is where the index says.  Between two stations one batch at a     *)
(* time is under way: the first of the worker's spool, which the agent has *)
(* stored before its acknowledgement exists (Pulling), and the first of    *)
(* the agent's spool, which the ledger has taken before its receipt exists *)
(* (Reporting).  What is under way is frozen, so a repetition says the     *)
(* same again.  The bytes of the ledger are thus below the worker's        *)
(* meters, and those, over all lives, below what was forwarded (Process).  *)
(***************************************************************************)
EXTENDS UsagePipeline, TotalsProofs, SequenceTheorems

PointMaps == UNION {[D -> Nat] : D \in SUBSET Meters}
Queues == UNION {[D -> PointMaps] : D \in SUBSET Nat}
Spools ==
    [batch : Queues, sequence : Nat, exposed : Nat, durable : Nat, accounted : Nat, spooled : Nat,
     meters : [Meters -> Nat], index : [Meters -> Nat]]
Messages == [seq : Nat, points : PointMaps, live : BOOLEAN]
Receipts == [durable : Nat, accounted : Nat]

\* What TypeOK says and, for every record and function, its shape.
Shape ==
    /\ mode \in {"up", "closing", "down"} /\ life \in 1 .. MaxIncarnation
    /\ measured \in [Grants -> Nat] /\ last \in [Grants -> Nat] /\ spent \in [Grants -> Nat]
    /\ observed \in PointMaps
    /\ worker \in Spools /\ agent \in Spools
    /\ pulled # None => pulled \in [step : {"store", "ack", "posted"}, seq : Nat, points : PointMaps]
    /\ acks \in SUBSET Nat
    /\ sending \in Seq(Messages)
    /\ requests \in SUBSET Messages
    /\ receipt \in {None, Awaited} \cup Receipts
    /\ ledger \in [cursor : Nat, digest : PointMaps, meters : [Meters -> Nat],
                   consumed : [Grants -> Nat]]
    /\ faults \in 0 .. MaxFaults

\* From batch to batch a meter grows, up to its last checkpoint.
Ordered(spool) ==
    /\ \A s \in DOMAIN spool.batch : \A m \in DOMAIN spool.batch[s] :
         s <= spool.index[m] /\ spool.batch[s][m] <= spool.meters[m]
    /\ \A s, t \in DOMAIN spool.batch : s < t =>
         \A m \in DOMAIN spool.batch[s] \cap DOMAIN spool.batch[t] : spool.batch[s][m] <= spool.batch[t][m]

SpoolGood(spool) == SpoolSound(spool) /\ Ordered(spool) /\ spool.spooled <= SpoolLimit

MetersOf(g) == {m \in Meters : GrantOf(m) = g}

\* The bytes of each meter that were forwarded and are not lost with a life of
\* the worker.
Forwarded ==
    [m \in Meters |-> IF mode # "down" /\ m[2] = life THEN measured[m[1]] ELSE worker.meters[m]]

Process ==
    /\ mode # "up" => life < MaxIncarnation
    /\ mode = "down" => measured = Zero /\ observed = Nothing
    /\ \A m \in DOMAIN observed : m[2] = life /\ observed[m] <= measured[m[1]]
    /\ \A m \in Meters : /\ m[2] > life => worker.meters[m] = 0
                         /\ worker.meters[m] <= Forwarded[m]
    /\ \A g \in Grants : Total(Forwarded, MetersOf(g)) <= spent[g] /\ spent[g] <= Issued[g]

\* The agent has the values of points.
Taken(points) == \A m \in DOMAIN points : points[m] = agent.meters[m]

\* The first batch of the worker is the one under way to the agent.
Pulling ==
    /\ \A m \in Meters : /\ agent.meters[m] <= worker.meters[m]
                         /\ worker.index[m] <= worker.durable => agent.meters[m] = worker.meters[m]
    /\ \A s \in DOMAIN worker.batch : \A m \in DOMAIN worker.batch[s] :
         agent.meters[m] <= worker.batch[s][m]
    /\ pulled # None =>
         /\ pulled.seq \in {worker.durable, worker.durable + 1} /\ pulled.seq <= worker.exposed
         /\ pulled.seq = worker.durable + 1 => pulled.points = worker.batch[pulled.seq]
         /\ pulled.step # "store" \/ pulled.seq = worker.durable => Taken(pulled.points)
         /\ \A s \in acks : s <= pulled.seq
    /\ \A s \in acks :
         /\ s <= worker.durable + 1 /\ s <= worker.exposed
         /\ s = worker.durable + 1 => Taken(worker.batch[s])

\* The first batch of the agent is the one under way to the master.
Reporting ==
    /\ agent.durable <= ledger.cursor /\ ledger.cursor <= agent.durable + 1
    /\ ledger.cursor <= agent.exposed
    /\ \A m \in Meters : /\ ledger.meters[m] <= agent.meters[m]
                         /\ agent.index[m] <= ledger.cursor => ledger.meters[m] = agent.meters[m]
    /\ \A s \in DOMAIN agent.batch : s > ledger.cursor =>
         \A m \in DOMAIN agent.batch[s] : ledger.meters[m] <= agent.batch[s][m]
    /\ ledger.cursor = agent.durable + 1 => ledger.digest = agent.batch[ledger.cursor]
    /\ \A i \in 1 .. Len(sending) :
         /\ sending[i].seq = agent.durable + i /\ sending[i].seq <= agent.exposed
         /\ sending[i].points = agent.batch[sending[i].seq] /\ sending[i].live
    /\ \A b \in requests :
         /\ b.seq <= agent.durable + 1 /\ b.seq <= agent.exposed
         /\ b.seq = agent.durable + 1 => b.points = agent.batch[b.seq]
         /\ b.seq = ledger.cursor => b.points = ledger.digest
         /\ b.live => sending # <<>> /\ b = sending[1] /\ receipt = Awaited
    /\ receipt \in Receipts \ {None, Awaited} =>
         /\ receipt.durable = ledger.cursor /\ receipt.accounted = ledger.cursor
         /\ ledger.cursor = agent.durable + 1 /\ sending # <<>>

\* ConsumedBytes is the sum of the meters.
Books == \A g \in Grants : ledger.consumed[g] = Total(ledger.meters, MetersOf(g))

Inv ==
    /\ Shape /\ SpoolGood(worker) /\ SpoolGood(agent)
    /\ Process /\ Pulling /\ Reporting /\ Books

-----------------------------------------------------------------------------
(***************************************************************************)
(* The spool.                                                              *)
(***************************************************************************)

\* Checkpoints of some of the meters.
LEMMA PointFacts ==
    ASSUME NEW p
    PROVE  p \in PointMaps <=> DOMAIN p \subseteq Meters /\ p \in [DOMAIN p -> Nat]
BY DEF PointMaps

\* The meters of checkpoints are finitely many.
LEMMA PointsFinite ==
    ASSUME NEW p \in PointMaps
    PROVE  /\ IsFiniteSet(DOMAIN p) /\ DOMAIN p \subseteq Meters /\ \A m \in DOMAIN p : p[m] \in Nat
           /\ \A S \in SUBSET DOMAIN p : IsFiniteSet(S) /\ Cardinality(S) \in Nat
<1>1. DOMAIN p \subseteq Meters /\ \A m \in DOMAIN p : p[m] \in Nat
  BY PointFacts
<1>2. IsFiniteSet(DOMAIN p)
  BY <1>1, FS_Subset, SpoolAssumption
<1> QED BY <1>1, <1>2, FS_Subset, FS_CardinalityType

\* Batches by their sequence numbers.
LEMMA QueueFacts ==
    ASSUME NEW q
    PROVE  q \in Queues <=> DOMAIN q \subseteq Nat /\ q \in [DOMAIN q -> PointMaps]
BY DEF Queues

\* What the shape of a spool says.
LEMMA SpoolFacts ==
    ASSUME NEW spool \in Spools
    PROVE  /\ spool.sequence \in Nat /\ spool.exposed \in Nat /\ spool.durable \in Nat
           /\ spool.accounted \in Nat /\ spool.spooled \in Nat
           /\ spool.meters \in [Meters -> Nat] /\ spool.index \in [Meters -> Nat]
           /\ \A s \in DOMAIN spool.batch :
                /\ s \in Nat /\ spool.batch[s] \in PointMaps
                /\ DOMAIN spool.batch[s] \subseteq Meters /\ IsFiniteSet(DOMAIN spool.batch[s])
                /\ \A m \in DOMAIN spool.batch[s] : spool.batch[s][m] \in Nat
<1>1. spool.batch \in Queues
  BY DEF Spools
<1>2. \A s \in DOMAIN spool.batch : s \in Nat /\ spool.batch[s] \in PointMaps
  BY <1>1, QueueFacts
<1> QED BY <1>2, PointsFinite DEF Spools

\* The pairs of a batch and a meter it holds.
Checkpoints(spool, S) == Cells([s \in DOMAIN spool.batch |-> DOMAIN spool.batch[s]], S)

\* They are the pairs one expects,
LEMMA CheckpointMembers ==
    ASSUME NEW spool, NEW S \in SUBSET DOMAIN spool.batch
    PROVE  \A c : c \in Checkpoints(spool, S) <=>
                    \E s \in S : \E m \in DOMAIN spool.batch[s] : c = <<s, m>>
<1> DEFINE A == [s \in DOMAIN spool.batch |-> DOMAIN spool.batch[s]]
<1>1. \A s \in S : A[s] = DOMAIN spool.batch[s]
  OBVIOUS
<1>2. Checkpoints(spool, S) = Cells(A, S)
  BY DEF Checkpoints
<1> HIDE DEF A
<1>3. \A c : c \in Cells(A, S) <=> \E s \in S : \E m \in A[s] : c = <<s, m>>
  BY DEF Cells
<1> QED BY <1>1, <1>2, <1>3, Zenon

\* and as many as the volume.
LEMMA VolumeCounts ==
    ASSUME NEW spool \in Spools, NEW S \in SUBSET DOMAIN spool.batch, IsFiniteSet(S)
    PROVE  /\ IsFiniteSet(Checkpoints(spool, S))
           /\ Volume(spool, S) = Cardinality(Checkpoints(spool, S)) /\ Volume(spool, S) \in Nat
<1> DEFINE A == [s \in DOMAIN spool.batch |-> DOMAIN spool.batch[s]]
           c == [s \in DOMAIN spool.batch |-> Cardinality(DOMAIN spool.batch[s])]
<1>1. \A s \in S : IsFiniteSet(A[s]) /\ c[s] = Cardinality(A[s])
  BY SpoolFacts
<1>2. Volume(spool, S) = Total(c, S) /\ Checkpoints(spool, S) = Cells(A, S)
  BY DEF Volume, Checkpoints
<1> HIDE DEF A, c
<1>3. IsFiniteSet(Cells(A, S)) /\ Total(c, S) = Cardinality(Cells(A, S))
  BY <1>1, TotalSizes
<1> QED BY <1>2, <1>3, FS_CardinalityType

\* appendUsage: n is spool with points.  Batches that are frozen are as they
\* were; the last checkpoint of a meter in points is in a later batch.
Appended(spool, points, n) ==
    /\ n \in Spools /\ n.sequence >= spool.sequence
    /\ n.exposed = spool.exposed /\ n.durable = spool.durable
    /\ \A m \in Meters : n.meters[m] = IF m \in DOMAIN points THEN points[m] ELSE spool.meters[m]
    /\ \A m \in Meters \ Fresh(spool, points) : n.index[m] = spool.index[m]
    /\ \A m \in DOMAIN points : /\ n.index[m] > spool.exposed /\ n.index[m] >= spool.index[m]
                                /\ n.index[m] \in DOMAIN n.batch
    /\ DOMAIN n.batch = DOMAIN spool.batch \cup spool.sequence + 1 .. n.sequence
    /\ \A s \in DOMAIN n.batch : \A m : m \in DOMAIN n.batch[s] <=>
          \/ m \in DOMAIN points /\ n.index[m] = s
          \/ s \in DOMAIN spool.batch /\ m \in DOMAIN spool.batch[s]
    /\ \A s \in DOMAIN n.batch : \A m \in DOMAIN n.batch[s] :
          n.batch[s][m] = IF m \in DOMAIN points /\ n.index[m] = s THEN points[m] ELSE spool.batch[s][m]

\* The fresh meters land in open batches, and no batch is left out.
LEMMA SlotFacts ==
    ASSUME NEW spool \in Spools, SpoolGood(spool), NEW points \in PointMaps,
           NEW a \in Slottings(spool, points)
    PROVE  /\ a.last \in Nat /\ a.last >= spool.sequence
           /\ DOMAIN a.slot = Fresh(spool, points)
           /\ \A m \in Fresh(spool, points) :
                a.slot[m] \in Nat /\ a.slot[m] > spool.exposed /\ a.slot[m] <= a.last
<1> DEFINE fresh == Fresh(spool, points)
<1>1. PICK n \in spool.sequence .. spool.sequence + Cardinality(fresh) :
        a \in {[last |-> n, slot |-> slot] :
                 slot \in {f \in [fresh -> FirstSlot(spool) .. n] :
                             /\ IsSlotting(spool, f)
                             /\ \A s \in spool.sequence + 1 .. n : \E m \in fresh : f[m] = s}}
  BY DEF Slottings
<1>2. a.last = n /\ a.slot \in [fresh -> FirstSlot(spool) .. n]
  BY <1>1
<1>3. fresh \in SUBSET DOMAIN points
  BY DEF Fresh
<1>4. Cardinality(fresh) \in Nat
  BY <1>3, PointsFinite
<1>5. spool.sequence \in Nat /\ spool.exposed \in Nat /\ spool.exposed <= spool.sequence
  BY SpoolFacts DEF SpoolGood, SpoolSound
<1>6. FirstSlot(spool) \in Nat /\ FirstSlot(spool) > spool.exposed
  BY <1>5 DEF FirstSlot
<1>7. n \in Nat /\ n >= spool.sequence
  BY <1>4, <1>5
<1> HIDE DEF fresh
<1>8. DOMAIN a.slot = fresh /\ \A m \in fresh : a.slot[m] \in FirstSlot(spool) .. n
  BY <1>2
<1>9. ASSUME NEW k \in FirstSlot(spool) .. n PROVE k \in Nat /\ k > spool.exposed /\ k <= n
  BY <1>5, <1>6, <1>7
<1> QED BY <1>2, <1>7, <1>8, <1>9 DEF fresh

\* appendUsage adds the list.
LEMMA AppendFacts ==
    ASSUME NEW spool \in Spools, SpoolGood(spool), NEW points \in PointMaps,
           NEW a \in Slottings(spool, points), NEW n, n = AppendTo(spool, points, a.slot, a.last)
    PROVE  /\ Appended(spool, points, n)
           /\ n.spooled = spool.spooled + Cardinality(Fresh(spool, points))
<1> DEFINE fresh == Fresh(spool, points)
           D == DOMAIN spool.batch \cup spool.sequence + 1 .. a.last
           W(s) == Written(spool, points, a.slot, s)
<1>1. /\ a.last \in Nat /\ a.last >= spool.sequence /\ DOMAIN a.slot = fresh
      /\ \A m \in fresh : a.slot[m] \in Nat /\ a.slot[m] > spool.exposed /\ a.slot[m] <= a.last
  BY SlotFacts
<1>2. /\ n = [batch |-> n.batch, sequence |-> a.last, exposed |-> spool.exposed,
              durable |-> spool.durable, accounted |-> spool.accounted, spooled |-> n.spooled,
              meters |-> n.meters, index |-> n.index]
      /\ n.batch = [s \in D |-> [m \in Held(spool, s) \cup W(s) |->
                                   IF m \in W(s) THEN points[m] ELSE spool.batch[s][m]]]
      /\ n.spooled = spool.spooled + Cardinality(DOMAIN a.slot)
      /\ n.meters = [m \in Meters |-> IF m \in DOMAIN points THEN points[m] ELSE spool.meters[m]]
      /\ n.index = [m \in Meters |-> IF m \in DOMAIN a.slot THEN a.slot[m] ELSE spool.index[m]]
  BY DEF AppendTo, Spools
<1>3. /\ spool.sequence \in Nat /\ spool.exposed \in Nat /\ spool.durable \in Nat
      /\ spool.durable <= spool.exposed /\ spool.exposed <= spool.sequence
      /\ DOMAIN spool.batch = spool.durable + 1 .. spool.sequence
  BY SpoolFacts DEF SpoolGood, SpoolSound
<1>4. /\ spool.spooled \in Nat /\ spool.accounted \in Nat
      /\ spool.meters \in [Meters -> Nat] /\ spool.index \in [Meters -> Nat]
  BY SpoolFacts
<1>5. DOMAIN points \subseteq Meters /\ \A m \in DOMAIN points : points[m] \in Nat
  BY PointsFinite
<1>6. fresh \subseteq DOMAIN points
  BY DEF Fresh
<1>7. D = spool.durable + 1 .. a.last
  BY <1>1, <1>3
<1>8. ASSUME NEW m \in DOMAIN points
      PROVE  /\ n.index[m] \in Nat /\ n.index[m] > spool.exposed /\ n.index[m] >= spool.index[m]
             /\ n.index[m] \in D
             /\ n.index[m] = IF m \in DOMAIN a.slot THEN a.slot[m] ELSE spool.index[m]
  <2>0. n.index[m] = IF m \in DOMAIN a.slot THEN a.slot[m] ELSE spool.index[m]
    BY <1>2, <1>5
  <2>a. spool.index[m] \in Nat
    BY <1>4, <1>5
  <2>1. CASE m \in fresh
    <3>1. n.index[m] = a.slot[m] /\ spool.index[m] <= spool.exposed
      BY <2>0, <2>1, <1>1 DEF Fresh
    <3>2. n.index[m] \in Nat /\ n.index[m] > spool.exposed /\ n.index[m] <= a.last
      BY <3>1, <2>1, <1>1
    <3> HIDE DEF D
    <3> QED BY <3>1, <3>2, <2>0, <2>a, <1>1, <1>3, <1>7
  <2>2. CASE m \notin fresh
    <3>1. n.index[m] = spool.index[m] /\ ~(spool.index[m] <= spool.exposed)
      BY <2>0, <2>2, <1>1 DEF Fresh
    <3>2. spool.index[m] > spool.durable
      BY <3>1, <2>a, <1>3
    <3>3. spool.index[m] \in DOMAIN spool.batch
      BY <3>2, <1>5 DEF SpoolGood, SpoolSound
    <3> QED BY <3>1, <3>3, <2>0, <2>a, <1>3
  <2> QED BY <2>1, <2>2
<1>9. \A s : \A m : m \in W(s) <=> m \in DOMAIN points /\ n.index[m] = s
  BY <1>8 DEF Written
<1>10. \A m \in Meters : n.meters[m] = IF m \in DOMAIN points THEN points[m] ELSE spool.meters[m]
  BY <1>2
<1>11. \A m \in Meters \ fresh : n.index[m] = spool.index[m]
  BY <1>2, <1>1
<1>12. DOMAIN n.batch = D
  BY <1>2
<1>13. ASSUME NEW s \in D
       PROVE  /\ n.batch[s] = [m \in Held(spool, s) \cup W(s) |->
                                 IF m \in W(s) THEN points[m] ELSE spool.batch[s][m]]
              /\ DOMAIN n.batch[s] = Held(spool, s) \cup W(s)
  BY <1>2
<1> HIDE DEF W
<1>14. ASSUME NEW s \in D
       PROVE  /\ \A m : m \in DOMAIN n.batch[s] <=>
                    \/ m \in DOMAIN points /\ n.index[m] = s
                    \/ s \in DOMAIN spool.batch /\ m \in DOMAIN spool.batch[s]
              /\ \A m \in DOMAIN n.batch[s] :
                   n.batch[s][m] = IF m \in DOMAIN points /\ n.index[m] = s THEN points[m]
                                   ELSE spool.batch[s][m]
  <2>1. \A m : m \in W(s) <=> m \in DOMAIN points /\ n.index[m] = s
    BY <1>9
  <2>2. \A m : m \in Held(spool, s) <=> s \in DOMAIN spool.batch /\ m \in DOMAIN spool.batch[s]
    BY DEF Held
  <2>3. \A m : m \in DOMAIN n.batch[s] <=> m \in Held(spool, s) \/ m \in W(s)
    BY <1>13
  <2>4. \A m \in DOMAIN n.batch[s] : n.batch[s][m] = IF m \in W(s) THEN points[m] ELSE spool.batch[s][m]
    BY <1>13, ZenonT(60)
  <2> HIDE DEF D
  <2> QED BY <2>1, <2>2, <2>3, <2>4, ZenonT(60)
<1>15. n \in Spools
  <2>1. ASSUME NEW s \in D PROVE n.batch[s] \in PointMaps
    <3>1. \A m \in DOMAIN n.batch[s] : m \in Meters /\ n.batch[s][m] \in Nat
      BY <1>14, <1>5, SpoolFacts
    <3>2. n.batch[s] = [m \in DOMAIN n.batch[s] |-> n.batch[s][m]]
      BY <1>13
    <3>3. n.batch[s] \in [DOMAIN n.batch[s] -> Nat]
      BY <3>1, <3>2
    <3> QED BY <3>1, <3>3, PointFacts
  <2>2. n.batch = [s \in D |-> n.batch[s]] /\ D \subseteq Nat
    BY <1>2, <1>7, <1>3, <1>1
  <2>3. n.batch \in Queues
    BY <2>1, <2>2, <1>12, QueueFacts
  <2>4. n.meters \in [Meters -> Nat]
    BY <1>2, <1>4, <1>5
  <2>5. n.index \in [Meters -> Nat]
    BY <1>2, <1>4, <1>1
  <2>6. n.spooled \in Nat
    BY <1>2, <1>4, <1>1, <1>6, PointsFinite
  <2>7. n = [batch |-> n.batch, sequence |-> a.last, exposed |-> spool.exposed,
             durable |-> spool.durable, accounted |-> spool.accounted, spooled |-> n.spooled,
             meters |-> n.meters, index |-> n.index]
    BY <1>2
  <2> HIDE DEF D
  <2> QED BY <2>3, <2>4, <2>5, <2>6, <2>7, <1>1, <1>3, <1>4 DEF Spools
<1>16. n.sequence = a.last /\ n.exposed = spool.exposed /\ n.durable = spool.durable
  BY <1>2
<1>17. n.spooled = spool.spooled + Cardinality(fresh)
  BY <1>1, <1>2
<1> HIDE DEF D
<1>18. DOMAIN n.batch = DOMAIN spool.batch \cup spool.sequence + 1 .. n.sequence
  BY <1>12, <1>16 DEF D
<1> QED BY <1>1, <1>8, <1>10, <1>11, <1>12, <1>14, <1>15, <1>16, <1>17, <1>18 DEF Appended

\* A list that adds nothing behind a meter keeps the spool good.
LEMMA AppendGood ==
    ASSUME NEW spool \in Spools, SpoolGood(spool), NEW points \in PointMaps,
           AppendAllowed(spool, points), NEW n, Appended(spool, points, n),
           n.spooled = spool.spooled + Cardinality(Fresh(spool, points))
    PROVE  SpoolGood(n)
<1> DEFINE fresh == Fresh(spool, points)
<1>1. /\ spool.sequence \in Nat /\ spool.exposed \in Nat /\ spool.durable \in Nat
      /\ spool.durable <= spool.exposed /\ spool.exposed <= spool.sequence
      /\ DOMAIN spool.batch = spool.durable + 1 .. spool.sequence
      /\ spool.spooled = Volume(spool, DOMAIN spool.batch)
  BY SpoolFacts DEF SpoolGood, SpoolSound
<1>2. /\ n \in Spools /\ n.sequence \in Nat /\ n.sequence >= spool.sequence
      /\ n.exposed = spool.exposed /\ n.durable = spool.durable
  BY SpoolFacts DEF Appended
<1>3. DOMAIN n.batch = n.durable + 1 .. n.sequence
  BY <1>1, <1>2 DEF Appended
<1>4. DOMAIN points \subseteq Meters /\ \A m \in DOMAIN points : points[m] \in Nat
  BY PointsFinite
<1>5. \A m \in DOMAIN points : points[m] >= spool.meters[m]
  BY DEF AppendAllowed
<1>6. \A m \in Meters : /\ spool.meters[m] \in Nat /\ spool.index[m] \in Nat
                        /\ n.meters[m] \in Nat /\ n.index[m] \in Nat
  BY <1>2, SpoolFacts
<1>7. \A m \in Meters : spool.meters[m] <= n.meters[m] /\ spool.index[m] <= n.index[m]
  <2> SUFFICES ASSUME NEW m \in Meters
               PROVE  spool.meters[m] <= n.meters[m] /\ spool.index[m] <= n.index[m]
    OBVIOUS
  <2>1. CASE m \in DOMAIN points
    BY <2>1, <1>4, <1>5, <1>6 DEF Appended
  <2>2. CASE m \notin DOMAIN points
    BY <2>2, <1>6 DEF Appended, Fresh
  <2> QED BY <2>1, <2>2
<1>8. ASSUME NEW m \in Meters, n.index[m] > n.durable
      PROVE  /\ n.index[m] \in DOMAIN n.batch /\ m \in DOMAIN n.batch[n.index[m]]
             /\ n.batch[n.index[m]][m] = n.meters[m]
  <2>1. CASE m \in DOMAIN points
    BY <2>1 DEF Appended
  <2>2. CASE m \notin DOMAIN points
    <3>1. n.index[m] = spool.index[m] /\ n.meters[m] = spool.meters[m]
      BY <2>2 DEF Appended, Fresh
    <3>2. /\ spool.index[m] \in DOMAIN spool.batch /\ m \in DOMAIN spool.batch[spool.index[m]]
          /\ spool.batch[spool.index[m]][m] = spool.meters[m]
      BY <3>1, <1>2, <1>8 DEF SpoolGood, SpoolSound
    <3>3. n.index[m] \in DOMAIN n.batch
      BY <3>1, <3>2 DEF Appended
    <3>4. m \in DOMAIN n.batch[n.index[m]]
      BY <3>1, <3>2, <3>3 DEF Appended
    <3>5. n.batch[n.index[m]][m] = spool.batch[n.index[m]][m]
      BY <2>2, <3>3, <3>4 DEF Appended
    <3> QED BY <3>1, <3>2, <3>3, <3>4, <3>5
  <2> QED BY <2>1, <2>2
<1>9. ASSUME NEW s \in DOMAIN n.batch, NEW m \in DOMAIN n.batch[s]
      PROVE  /\ m \in Meters /\ s \in Nat
             /\ \/ m \in DOMAIN points /\ n.index[m] = s /\ n.batch[s][m] = points[m]
                \/ /\ s \in DOMAIN spool.batch /\ m \in DOMAIN spool.batch[s]
                   /\ n.batch[s][m] = spool.batch[s][m] /\ spool.batch[s][m] \in Nat
                   /\ s <= spool.index[m] /\ spool.batch[s][m] <= spool.meters[m]
  <2>1. CASE m \in DOMAIN points /\ n.index[m] = s
    BY <2>1, <1>4, <1>2, SpoolFacts DEF Appended
  <2>2. CASE ~(m \in DOMAIN points /\ n.index[m] = s)
    <3>1. s \in DOMAIN spool.batch /\ m \in DOMAIN spool.batch[s]
      BY <2>2 DEF Appended
    <3>2. n.batch[s][m] = spool.batch[s][m]
      BY <2>2 DEF Appended
    <3> QED BY <3>1, <3>2, SpoolFacts DEF SpoolGood, Ordered
  <2> QED BY <2>1, <2>2
<1>10. \A s \in DOMAIN n.batch : \A m \in DOMAIN n.batch[s] :
         s <= n.index[m] /\ n.batch[s][m] <= n.meters[m]
  <2> SUFFICES ASSUME NEW s \in DOMAIN n.batch, NEW m \in DOMAIN n.batch[s]
               PROVE  s <= n.index[m] /\ n.batch[s][m] <= n.meters[m]
    OBVIOUS
  <2>1. m \in Meters /\ s \in Nat
    BY <1>9
  <2>2. CASE m \in DOMAIN points /\ n.index[m] = s /\ n.batch[s][m] = points[m]
    BY <2>1, <2>2, <1>4 DEF Appended
  <2>3. CASE /\ n.batch[s][m] = spool.batch[s][m] /\ spool.batch[s][m] \in Nat
             /\ s <= spool.index[m] /\ spool.batch[s][m] <= spool.meters[m]
    BY <2>1, <2>3, <1>6, <1>7
  <2> QED BY <2>2, <2>3, <1>9
<1>11. ASSUME NEW s \in DOMAIN n.batch, NEW t \in DOMAIN n.batch, s < t,
              NEW m \in DOMAIN n.batch[s] \cap DOMAIN n.batch[t]
       PROVE  n.batch[s][m] <= n.batch[t][m]
  <2>1. m \in Meters /\ s \in Nat /\ t \in Nat /\ t <= n.index[m]
    BY <1>9, <1>10
  <2>2. n.index[m] # s
    BY <2>1, <1>6, <1>11
  <2>3. /\ s \in DOMAIN spool.batch /\ m \in DOMAIN spool.batch[s]
        /\ n.batch[s][m] = spool.batch[s][m] /\ spool.batch[s][m] \in Nat
        /\ spool.batch[s][m] <= spool.meters[m]
    BY <2>2, <1>9
  <2>4. CASE m \in DOMAIN points /\ n.batch[t][m] = points[m]
    BY <2>1, <2>3, <2>4, <1>4, <1>5, <1>6
  <2>5. CASE /\ t \in DOMAIN spool.batch /\ m \in DOMAIN spool.batch[t]
             /\ n.batch[t][m] = spool.batch[t][m]
    BY <2>3, <2>5, <1>11 DEF SpoolGood, Ordered
  <2> QED BY <2>4, <2>5, <1>9
<1>12. n.spooled = Volume(n, DOMAIN n.batch)
  <2> DEFINE old == Checkpoints(spool, DOMAIN spool.batch)
             new == Checkpoints(n, DOMAIN n.batch)
             F == [m \in fresh |-> <<n.index[m], m>>]
             added == {F[m] : m \in fresh}
  <2>1. fresh \in SUBSET DOMAIN points
    BY DEF Fresh
  <2>2. IsFiniteSet(fresh)
    BY <2>1, PointsFinite
  <2>3. F \in Bijection(fresh, added)
    BY DEF Bijection, Injection, Surjection, IsInjective
  <2>4. IsFiniteSet(added) /\ Cardinality(added) = Cardinality(fresh)
    BY <2>2, <2>3, FS_Bijection DEF ExistsBijection
  <2>5. \A c : c \in old <=> \E s \in DOMAIN spool.batch : \E m \in DOMAIN spool.batch[s] : c = <<s, m>>
    BY CheckpointMembers
  <2>6. \A c : c \in new <=> \E s \in DOMAIN n.batch : \E m \in DOMAIN n.batch[s] : c = <<s, m>>
    BY CheckpointMembers
  <2>7. \A c : c \in added <=> \E m \in fresh : c = <<n.index[m], m>>
    OBVIOUS
  <2> HIDE DEF old, new, added, F
  <2>8. ASSUME NEW c \in new PROVE c \in old \/ c \in added
    <3>1. PICK s \in DOMAIN n.batch : \E m \in DOMAIN n.batch[s] : c = <<s, m>>
      BY <2>6
    <3>2. PICK m \in DOMAIN n.batch[s] : c = <<s, m>>
      BY <3>1
    <3>3. CASE s \in DOMAIN spool.batch /\ m \in DOMAIN spool.batch[s]
      BY <3>2, <3>3, <2>5
    <3>4. CASE m \in DOMAIN points /\ n.index[m] = s
      <4>1. CASE m \in fresh
        BY <3>2, <3>4, <4>1, <2>7
      <4>2. CASE m \notin fresh
        <5>1. m \in Meters /\ n.index[m] = spool.index[m] /\ spool.index[m] > spool.exposed
          BY <3>4, <4>2, <1>4, <1>6, <1>1 DEF Appended, Fresh
        <5>2. spool.index[m] > spool.durable
          BY <5>1, <1>1, <1>6
        <5>3. s \in DOMAIN spool.batch /\ m \in DOMAIN spool.batch[s]
          BY <5>1, <5>2, <3>4 DEF SpoolGood, SpoolSound
        <5> QED BY <5>3, <3>3
      <4> QED BY <4>1, <4>2
    <3> QED BY <3>3, <3>4, <1>9
  <2>9. ASSUME NEW c \in old PROVE c \in new
    <3>1. PICK s \in DOMAIN spool.batch : \E m \in DOMAIN spool.batch[s] : c = <<s, m>>
      BY <2>5
    <3>2. s \in DOMAIN n.batch /\ \A m \in DOMAIN spool.batch[s] : m \in DOMAIN n.batch[s]
      BY DEF Appended
    <3> QED BY <3>1, <3>2, <2>6
  <2>10. ASSUME NEW c \in added PROVE c \in new /\ c \notin old
    <3>1. PICK m \in fresh : c = <<n.index[m], m>>
      BY <2>7
    <3>2. m \in DOMAIN points /\ m \in Meters /\ spool.index[m] <= spool.exposed
      BY <1>4 DEF Fresh
    <3>3. n.index[m] \in DOMAIN n.batch /\ n.index[m] > spool.exposed
      BY <3>2 DEF Appended
    <3>4. m \in DOMAIN n.batch[n.index[m]]
      BY <3>2, <3>3 DEF Appended
    <3>5. c \in new
      BY <3>1, <3>3, <3>4, <2>6
    <3>6. n.index[m] > spool.index[m]
      BY <3>2, <3>3, <1>1, <1>6
    <3>7. ASSUME n.index[m] \in DOMAIN spool.batch, m \in DOMAIN spool.batch[n.index[m]]
          PROVE  FALSE
      <4>1. n.index[m] <= spool.index[m]
        BY <3>7 DEF SpoolGood, Ordered
      <4> QED BY <4>1, <3>2, <3>6, <1>6
    <3>8. c \notin old
      BY <3>1, <3>7, <2>5
    <3> QED BY <3>5, <3>8
  <2>11. new = old \cup added /\ old \cap added = {}
    BY <2>8, <2>9, <2>10
  <2>12. IsFiniteSet(DOMAIN spool.batch) /\ IsFiniteSet(DOMAIN n.batch)
    <3>1. /\ spool.durable + 1 \in Int /\ spool.sequence \in Int
          /\ n.durable + 1 \in Int /\ n.sequence \in Int
      BY <1>1, <1>2
    <3>2. IsFiniteSet(spool.durable + 1 .. spool.sequence)
      BY <3>1, FS_Interval, Zenon
    <3>3. IsFiniteSet(n.durable + 1 .. n.sequence)
      BY <3>1, FS_Interval, Zenon
    <3> QED BY <3>2, <3>3, <1>1, <1>3
  <2>13. /\ IsFiniteSet(old) /\ Volume(spool, DOMAIN spool.batch) = Cardinality(old)
         /\ Volume(n, DOMAIN n.batch) = Cardinality(new)
    BY <2>12, <1>2, VolumeCounts DEF old, new
  <2>14. Cardinality(new) = Cardinality(old) + Cardinality(added)
    <3>1. Cardinality(old \cup added) = Cardinality(old) + Cardinality(added) - Cardinality(old \cap added)
      BY <2>4, <2>13, FS_Union, Zenon
    <3>2. Cardinality(old \cap added) = 0
      BY <2>11, FS_EmptySet
    <3>3. Cardinality(old) \in Nat /\ Cardinality(added) \in Nat
      BY <2>4, <2>13, FS_CardinalityType
    <3> QED BY <3>1, <3>2, <3>3, <2>11
  <2> QED BY <2>4, <2>13, <2>14, <1>1
<1>13. n.spooled <= SpoolLimit
  BY DEF AppendAllowed
<1>14. SpoolSound(n)
  BY <1>1, <1>2, <1>3, <1>8, <1>12 DEF SpoolSound
<1>15. Ordered(n)
  BY <1>10, <1>11 DEF Ordered
<1> QED BY <1>13, <1>14, <1>15 DEF SpoolGood

-----------------------------------------------------------------------------
\* The members of an interval below one of them.
LEMMA BelowCount ==
    ASSUME NEW d \in Nat, NEW e \in Nat, NEW s \in d + 1 .. e
    PROVE  Cardinality({t \in d + 1 .. e : t < s}) = s - d - 1
<1>1. {t \in d + 1 .. e : t < s} = d + 1 .. s - 1
  OBVIOUS
<1>2. d + 1 \in Int /\ s - 1 \in Int
  OBVIOUS
<1>3. Cardinality(d + 1 .. s - 1) = IF d + 1 > s - 1 THEN 0 ELSE (s - 1) - (d + 1) + 1
  BY <1>2, FS_Interval, Zenon
<1>4. (IF d + 1 > s - 1 THEN 0 ELSE (s - 1) - (d + 1) + 1) = s - d - 1
  OBVIOUS
<1> QED BY <1>1, <1>3, <1>4, Zenon

\* The members of an interval in order.
LEMMA IntervalOrder ==
    ASSUME NEW d \in Nat, NEW e \in Nat, d <= e
    PROVE  DOMAIN InOrder(d + 1 .. e) = 1 .. e - d /\ \A i \in 1 .. e - d : InOrder(d + 1 .. e)[i] = d + i
<1> DEFINE S == d + 1 .. e
           least(i) == CHOOSE s \in S : Cardinality({t \in S : t < s}) = i - 1
<1>1. d + 1 \in Int /\ e \in Int
  OBVIOUS
<1>2. Cardinality(S) = IF d + 1 > e THEN 0 ELSE e - (d + 1) + 1
  BY <1>1, FS_Interval, Zenon
<1>3. Cardinality(S) = e - d
  BY <1>2
<1>4. ASSUME NEW i \in 1 .. e - d PROVE least(i) = d + i
  <2>1. d + i \in S
    OBVIOUS
  <2>a. \A s \in S : Cardinality({t \in S : t < s}) = s - d - 1
    BY BelowCount
  <2>b. (d + i) - d - 1 = i - 1
    OBVIOUS
  <2>2. Cardinality({t \in S : t < d + i}) = i - 1
    BY <2>1, <2>a, <2>b, Zenon
  <2>3. ASSUME NEW s \in S, Cardinality({t \in S : t < s}) = i - 1 PROVE s = d + i
    <3>1. s - d - 1 = i - 1
      BY <2>3, <2>a, Zenon
    <3> QED BY <3>1
  <2> HIDE DEF S
  <2> QED BY <2>1, <2>2, <2>3
<1>5. InOrder(S) = [i \in 1 .. Cardinality(S) |-> least(i)]
  BY DEF InOrder
<1> HIDE DEF S, least
<1>6. DOMAIN InOrder(S) = 1 .. e - d /\ \A i \in 1 .. e - d : InOrder(S)[i] = least(i)
  BY <1>3, <1>5
<1>7. DOMAIN InOrder(S) = 1 .. e - d /\ \A i \in 1 .. e - d : InOrder(S)[i] = d + i
  BY <1>4, <1>6
<1> QED BY <1>7 DEF S

\* PendingUsage reads the first batches, without a gap.
LEMMA PendingFacts ==
    ASSUME NEW spool \in Spools, SpoolGood(spool), NEW limit \in Nat \ {0}
    PROVE  \E e \in Nat : /\ spool.durable <= e /\ e <= spool.sequence
                          /\ DOMAIN spool.batch # {} => spool.durable < e
                          /\ PendingSequences(spool, limit) = spool.durable + 1 .. e
<1>1. /\ spool.sequence \in Nat /\ spool.durable \in Nat /\ spool.durable <= spool.sequence
      /\ DOMAIN spool.batch = spool.durable + 1 .. spool.sequence
  BY SpoolFacts DEF SpoolGood, SpoolSound
<1>2. PICK d \in Nat : d = spool.durable
  BY <1>1
<1>3. PICK q \in Nat : q = spool.sequence
  BY <1>1
<1> DEFINE e == IF q <= d + limit THEN q ELSE d + limit
<1>4. d <= q
  BY <1>1, <1>2, <1>3
<1>5. PendingSequences(spool, limit) = {s \in d + 1 .. q : Cardinality({t \in d + 1 .. q : t < s}) < limit}
  BY <1>1, <1>2, <1>3 DEF PendingSequences
<1>6. {s \in d + 1 .. q : Cardinality({t \in d + 1 .. q : t < s}) < limit} = {s \in d + 1 .. q : s - d - 1 < limit}
  <2>1. \A s \in d + 1 .. q : Cardinality({t \in d + 1 .. q : t < s}) = s - d - 1
    BY BelowCount
  <2> QED BY <2>1
<1>7. {s \in d + 1 .. q : s - d - 1 < limit} = d + 1 .. e
  BY <1>4
<1>8. e \in Nat /\ d <= e /\ e <= q /\ (d + 1 .. q # {} => d < e)
  BY <1>4
<1> HIDE DEF e
<1>9. PendingSequences(spool, limit) = d + 1 .. e
  BY <1>5, <1>6, <1>7
<1> QED BY <1>1, <1>2, <1>3, <1>8, <1>9

\* PendingUsage only moves exposed, over the batches it reads.
LEMMA FreezeGood ==
    ASSUME NEW spool \in Spools, SpoolGood(spool), NEW limit \in Nat \ {0}, NEW n, n = Freeze(spool, limit)
    PROVE  /\ n \in Spools /\ SpoolGood(n)
           /\ n = [spool EXCEPT !.exposed = n.exposed]
           /\ spool.exposed <= n.exposed
           /\ \A s \in PendingSequences(spool, limit) : s <= n.exposed
<1>1. /\ spool.sequence \in Nat /\ spool.durable \in Nat /\ spool.exposed \in Nat
      /\ spool.durable <= spool.exposed /\ spool.exposed <= spool.sequence
  BY SpoolFacts DEF SpoolGood, SpoolSound
<1>2. PICK e \in Nat : /\ spool.durable <= e /\ e <= spool.sequence
                       /\ PendingSequences(spool, limit) = spool.durable + 1 .. e
  BY PendingFacts
<1> DEFINE T == {spool.exposed} \cup PendingSequences(spool, limit)
<1>3. T \in SUBSET Nat /\ T # {} /\ \A y \in T : y <= spool.sequence
  BY <1>1, <1>2
<1>4. Max(T) \in T /\ \A y \in T : y <= Max(T)
  BY <1>1, <1>3, LargestNatural
<1>5. n = [spool EXCEPT !.exposed = Max(T)]
  BY DEF Freeze
<1>6. spool.exposed <= Max(T) /\ \A s \in PendingSequences(spool, limit) : s <= Max(T)
  BY <1>4
<1>7. Max(T) \in Nat /\ Max(T) <= spool.sequence
  BY <1>3, <1>4
<1> HIDE DEF T
<1>8. n.exposed = Max(T)
  BY <1>5 DEF Spools
<1>9. n \in Spools
  BY <1>5, <1>7 DEF Spools
<1>10. /\ n.batch = spool.batch /\ n.sequence = spool.sequence /\ n.durable = spool.durable
       /\ n.spooled = spool.spooled /\ n.meters = spool.meters /\ n.index = spool.index
  BY <1>5 DEF Spools
<1>11. Volume(n, DOMAIN n.batch) = Volume(spool, DOMAIN spool.batch)
  BY <1>10 DEF Volume
<1>12. n.durable <= n.exposed
  BY <1>1, <1>6, <1>7, <1>8, <1>10
<1>13. SpoolSound(n)
  BY <1>7, <1>8, <1>10, <1>11, <1>12 DEF SpoolGood, SpoolSound
<1>14. Ordered(n)
  BY <1>10 DEF SpoolGood, Ordered
<1> QED BY <1>5, <1>6, <1>8, <1>9, <1>10, <1>13, <1>14 DEF SpoolGood

\* Acknowledge drops the first batches, and nothing else.
Acknowledged(spool, durable, n) ==
    /\ n \in Spools /\ n.durable = durable
    /\ n.sequence = spool.sequence /\ n.exposed = spool.exposed
    /\ n.meters = spool.meters /\ n.index = spool.index
    /\ DOMAIN n.batch = {s \in DOMAIN spool.batch : s > durable}
    /\ \A s \in DOMAIN n.batch : n.batch[s] = spool.batch[s]

\* The larger of two numbers.
LEMMA LargerFacts ==
    ASSUME NEW x \in Nat, NEW y \in Nat
    PROVE  /\ Max({x, y}) \in {x, y} /\ x <= Max({x, y}) /\ y <= Max({x, y})
           /\ x >= y => Max({x, y}) = x
<1>1. {x, y} \in SUBSET Nat /\ {x, y} # {} /\ x + y \in Nat /\ \A z \in {x, y} : z <= x + y
  OBVIOUS
<1>2. Max({x, y}) \in {x, y} /\ \A z \in {x, y} : z <= Max({x, y})
  BY <1>1, LargestNatural, Zenon
<1> QED BY <1>2

\* A receipt that the spool accepts keeps it good.
LEMMA AcknowledgeGood ==
    ASSUME NEW spool \in Spools, SpoolGood(spool), NEW r \in Receipts, AcknowledgeAllowed(spool, r),
           NEW n, n = Acknowledge(spool, r)
    PROVE  /\ SpoolGood(n)
           /\ Acknowledged(spool, IF r.durable >= spool.durable THEN r.durable ELSE spool.durable, n)
<1>1. /\ spool.sequence \in Nat /\ spool.exposed \in Nat /\ spool.durable \in Nat
      /\ spool.durable <= spool.exposed /\ spool.exposed <= spool.sequence
      /\ DOMAIN spool.batch = spool.durable + 1 .. spool.sequence
      /\ spool.spooled = Volume(spool, DOMAIN spool.batch) /\ spool.spooled \in Nat
      /\ spool.accounted \in Nat /\ spool.spooled <= SpoolLimit
  BY SpoolFacts DEF SpoolGood, SpoolSound
<1>2. r.durable \in Nat /\ r.accounted \in Nat /\ r.durable <= spool.exposed
  BY DEF Receipts, AcknowledgeAllowed
<1>3. PICK e : e = Max({r.durable, spool.durable})
  OBVIOUS
<1>4. e \in Nat /\ e = IF r.durable >= spool.durable THEN r.durable ELSE spool.durable
  BY <1>1, <1>2, <1>3, LargerFacts
<1>5. spool.durable <= e /\ e <= spool.exposed
  BY <1>1, <1>2, <1>4
<1>6. PICK a \in Nat : a = Max({r.accounted, spool.accounted})
  <2>1. Max({r.accounted, spool.accounted}) \in {r.accounted, spool.accounted}
    BY <1>1, <1>2, LargerFacts, Zenon
  <2> QED BY <2>1, <1>1, <1>2
<1> DEFINE D == DOMAIN spool.batch
           kept == {s \in D : s > e}
           gone == D \ kept
           c == [s \in D |-> Cardinality(DOMAIN spool.batch[s])]
<1>7. /\ n = [spool EXCEPT !.batch = [s \in kept |-> spool.batch[s]], !.spooled = @ - Volume(spool, gone),
                           !.durable = e, !.accounted = a]
  BY <1>3, <1>6 DEF Acknowledge, Spools
<1>8. /\ n.batch = [s \in kept |-> spool.batch[s]] /\ n.spooled = spool.spooled - Volume(spool, gone)
      /\ n.durable = e /\ n.accounted = a /\ n.sequence = spool.sequence /\ n.exposed = spool.exposed
      /\ n.meters = spool.meters /\ n.index = spool.index
  BY <1>7 DEF Spools
<1>9. DOMAIN n.batch = kept /\ \A s \in kept : n.batch[s] = spool.batch[s]
  BY <1>8
<1>10. Volume(spool, D) = Volume(spool, kept) + Volume(spool, gone)
       /\ Volume(spool, kept) \in Nat /\ Volume(spool, gone) \in Nat /\ Counts(c, kept)
  <2>1. IsFiniteSet(D)
    <3>1. spool.durable + 1 \in Int /\ spool.sequence \in Int
      BY <1>1
    <3>2. IsFiniteSet(spool.durable + 1 .. spool.sequence)
      BY <3>1, FS_Interval, Zenon
    <3> QED BY <3>2, <1>1
  <2>2. IsFiniteSet(kept) /\ IsFiniteSet(gone)
    BY <2>1, FS_Subset
  <2>3. \A s \in D : c[s] \in Nat
    BY SpoolFacts, FS_CardinalityType
  <2>4. Counts(c, kept) /\ Counts(c, gone)
    BY <2>2, <2>3 DEF Counts
  <2>5. kept \cup gone = D /\ kept \cap gone = {}
    OBVIOUS
  <2>6. \A S : Volume(spool, S) = Total(c, S)
    BY DEF Volume
  <2> HIDE DEF D, kept, gone, c
  <2>7. Total(c, D) = Total(c, kept) + Total(c, gone)
    BY <2>4, <2>5, TotalSplit
  <2>8. Total(c, kept) \in Nat /\ Total(c, gone) \in Nat
    BY <2>4, TotalType
  <2> QED BY <2>4, <2>6, <2>7, <2>8
<1>11. Volume(n, kept) = Volume(spool, kept)
  <2> DEFINE k == [s \in DOMAIN n.batch |-> Cardinality(DOMAIN n.batch[s])]
  <2>1. \A s \in kept : c[s] = k[s]
    BY <1>9
  <2>2. Volume(n, kept) = Total(k, kept) /\ Volume(spool, kept) = Total(c, kept)
    BY DEF Volume
  <2> HIDE DEF k, c, kept, D
  <2> QED BY <2>1, <2>2, <1>10, TotalSame
<1>12. n \in Spools
  <2>1. n.batch \in Queues
    <3>1. \A s \in kept : s \in Nat /\ spool.batch[s] \in PointMaps
      BY SpoolFacts
    <3> HIDE DEF kept
    <3>2. n.batch \in [kept -> PointMaps] /\ kept \subseteq Nat
      BY <3>1, <1>8
    <3> QED BY <3>2, <1>9, QueueFacts
  <2>2. n.spooled \in Nat
    BY <1>1, <1>8, <1>10
  <2>3. n = [batch |-> n.batch, sequence |-> spool.sequence, exposed |-> spool.exposed,
             durable |-> e, accounted |-> a, spooled |-> n.spooled,
             meters |-> spool.meters, index |-> spool.index]
    BY <1>7 DEF Spools
  <2>4. spool.meters \in [Meters -> Nat] /\ spool.index \in [Meters -> Nat]
    BY SpoolFacts
  <2> HIDE DEF kept, gone, D
  <2> QED BY <2>1, <2>2, <2>3, <2>4, <1>1, <1>4, <1>6 DEF Spools
<1>13. SpoolSound(n)
  <2>1. kept = e + 1 .. spool.sequence
    BY <1>1, <1>4, <1>5
  <2>2. n.spooled = Volume(n, DOMAIN n.batch)
    BY <1>1, <1>8, <1>9, <1>10, <1>11
  <2>3. ASSUME NEW m \in Meters, n.index[m] > n.durable
        PROVE  /\ n.index[m] \in DOMAIN n.batch /\ m \in DOMAIN n.batch[n.index[m]]
               /\ n.batch[n.index[m]][m] = n.meters[m]
    <3>1. spool.index[m] \in Nat /\ spool.index[m] > e
      BY <2>3, <1>8, SpoolFacts
    <3>2. spool.index[m] > spool.durable
      BY <3>1, <1>1, <1>4, <1>5
    <3>3. /\ spool.index[m] \in D /\ m \in DOMAIN spool.batch[spool.index[m]]
          /\ spool.batch[spool.index[m]][m] = spool.meters[m]
      BY <3>2 DEF SpoolGood, SpoolSound
    <3>4. spool.index[m] \in kept
      BY <3>1, <3>3
    <3> HIDE DEF kept, D
    <3> QED BY <3>3, <3>4, <1>8, <1>9
  <2> HIDE DEF kept
  <2> QED BY <2>1, <2>2, <2>3, <1>1, <1>4, <1>5, <1>8, <1>9 DEF SpoolSound
<1>14. Ordered(n)
  BY <1>8, <1>9 DEF SpoolGood, Ordered
<1>15. n.spooled <= SpoolLimit
  BY <1>1, <1>8, <1>10, SpoolAssumption
<1>16. Acknowledged(spool, e, n)
  BY <1>8, <1>9, <1>12 DEF Acknowledged
<1> QED BY <1>4, <1>13, <1>14, <1>15, <1>16 DEF SpoolGood

-----------------------------------------------------------------------------
(***************************************************************************)
(* The worker process.                                                     *)
(***************************************************************************)

\* A meter is a grant and a life.
LEMMA MeterFacts ==
    /\ \A m \in Meters : m[1] \in Grants /\ m[2] \in 1 .. MaxIncarnation /\ m = <<m[1], m[2]>>
    /\ \A g \in Grants : \A n \in 1 .. MaxIncarnation : <<g, n>> \in Meters
    /\ \A g \in Grants : MetersOf(g) \subseteq Meters /\ IsFiniteSet(MetersOf(g))
<1>1. \A g \in Grants : MetersOf(g) \subseteq Meters
  BY DEF MetersOf
<1>2. \A g \in Grants : IsFiniteSet(MetersOf(g))
  BY <1>1, FS_Subset, SpoolAssumption
<1> QED BY <1>1, <1>2, PipelineAssumption

\* Values of all meters can be added up.
LEMMA MetersCount ==
    ASSUME NEW f, \A m \in Meters : f[m] \in Nat, NEW g \in Grants
    PROVE  Counts(f, MetersOf(g)) /\ Total(f, MetersOf(g)) \in Nat
<1>1. Counts(f, MetersOf(g))
  BY MeterFacts DEF Counts
<1> QED BY <1>1, TotalType

\* No checkpoints.
LEMMA NothingFacts == Nothing \in PointMaps /\ DOMAIN Nothing = {}
BY PointFacts DEF Nothing

\* What was forwarded is a number of bytes.
LEMMA ForwardedFacts ==
    ASSUME Shape
    PROVE  \A m \in Meters : /\ Forwarded[m] \in Nat /\ worker.meters[m] \in Nat /\ agent.meters[m] \in Nat
                             /\ ledger.meters[m] \in Nat
                             /\ Forwarded[m] = IF mode # "down" /\ m[2] = life THEN measured[m[1]]
                                               ELSE worker.meters[m]
BY MeterFacts DEF Shape, Forwarded, Spools

\* Nothing has happened yet.
LEMMA InitInv == Init => Inv
<1> SUFFICES ASSUME Init PROVE Inv
  OBVIOUS
<1>1. /\ NewSpool \in Spools /\ DOMAIN NewSpool.batch = {}
      /\ NewSpool.sequence = 0 /\ NewSpool.exposed = 0 /\ NewSpool.durable = 0 /\ NewSpool.spooled = 0
      /\ \A m \in Meters : NewSpool.index[m] = 0 /\ NewSpool.meters[m] = 0
  <2>1. [s \in {} |-> <<>>] \in Queues
    BY QueueFacts
  <2> QED BY <2>1 DEF NewSpool, Spools
<1>2. Shape
  BY <1>1, NothingFacts, PipelineAssumption, EmptySeq DEF Init, Shape, Zero
<1>3. SpoolGood(NewSpool)
  <2>1. Volume(NewSpool, DOMAIN NewSpool.batch) = 0
    BY <1>1, TotalEmpty DEF Volume
  <2>2. DOMAIN NewSpool.batch = NewSpool.durable + 1 .. NewSpool.sequence
    BY <1>1
  <2>3. SpoolSound(NewSpool)
    BY <1>1, <2>1, <2>2 DEF SpoolSound
  <2>4. Ordered(NewSpool)
    BY <1>1 DEF Ordered
  <2> QED BY <1>1, <2>3, <2>4, SpoolAssumption DEF SpoolGood
<1>4. Process
  <2>1. \A m \in Meters : Forwarded[m] = 0
    BY <1>1, <1>2, ForwardedFacts, MeterFacts DEF Init, Zero
  <2>2. ASSUME NEW g \in Grants PROVE Total(Forwarded, MetersOf(g)) = 0
    <3>1. Counts(Forwarded, MetersOf(g))
      BY <1>2, ForwardedFacts, MetersCount
    <3>2. \A m \in MetersOf(g) \ {} : Forwarded[m] = 0
      BY <2>1 DEF MetersOf
    <3> QED BY <3>1, <3>2, TotalZeros, TotalEmpty
  <2>3. \A g \in Grants : Total(Forwarded, MetersOf(g)) <= spent[g] /\ spent[g] <= Issued[g]
    BY <2>2, PipelineAssumption DEF Init, Zero
  <2> QED BY <1>1, <2>1, <2>3, NothingFacts DEF Init, Process
<1>5. Pulling
  BY <1>1 DEF Init, Pulling
<1>6. Reporting
  <2>1. ledger.cursor = 0 /\ \A m \in Meters : ledger.meters[m] = 0
    BY DEF Init
  <2>2. Len(sending) = 0 /\ requests = {} /\ receipt = None
    BY EmptySeq DEF Init
  <2> QED BY <1>1, <2>1, <2>2 DEF Init, Reporting
<1>7. Books
  <2>1. ASSUME NEW g \in Grants PROVE Total(ledger.meters, MetersOf(g)) = 0
    <3>1. Counts(ledger.meters, MetersOf(g))
      BY <1>2, ForwardedFacts, MetersCount
    <3>2. \A m \in MetersOf(g) \ {} : ledger.meters[m] = 0
      BY DEF MetersOf, Init
    <3> QED BY <3>1, <3>2, TotalZeros, TotalEmpty
  <2> QED BY <2>1 DEF Init, Zero, Books
<1> QED BY <1>2, <1>3, <1>4, <1>5, <1>6, <1>7 DEF Inv, Init

-----------------------------------------------------------------------------
(***************************************************************************)
(* Shape and the spools, step by step.                                     *)
(***************************************************************************)

\* appendUsage on a good spool.
LEMMA AppendStep ==
    ASSUME NEW spool \in Spools, SpoolGood(spool), NEW points \in PointMaps, AppendAllowed(spool, points),
           NEW n, \E a \in Slottings(spool, points) : n = AppendTo(spool, points, a.slot, a.last)
    PROVE  Appended(spool, points, n) /\ SpoolGood(n) /\ n \in Spools
<1>1. Appended(spool, points, n) /\ n.spooled = spool.spooled + Cardinality(Fresh(spool, points))
  BY AppendFacts
<1>2. SpoolGood(n)
  BY <1>1, AppendGood
<1> QED BY <1>1, <1>2 DEF Appended

\* A part of a list of checkpoints is one.
LEMMA RestrictedFacts ==
    ASSUME NEW p \in PointMaps, NEW S \in SUBSET DOMAIN p
    PROVE  /\ Restricted(p, S) \in PointMaps /\ DOMAIN Restricted(p, S) = S
           /\ \A m \in S : Restricted(p, S)[m] = p[m]
<1>1. DOMAIN p \subseteq Meters /\ \A m \in DOMAIN p : p[m] \in Nat
  BY PointsFinite
<1>2. Restricted(p, S) \in [S -> Nat] /\ DOMAIN Restricted(p, S) = S /\ \A m \in S : Restricted(p, S)[m] = p[m]
  BY <1>1 DEF Restricted
<1> QED BY <1>1, <1>2, PointFacts

\* Collect appends some of what was observed.
LEMMA CollectStep ==
    ASSUME Inv, Collect
    PROVE  \E points \in PointMaps :
             /\ DOMAIN points \subseteq DOMAIN observed /\ \A m \in DOMAIN points : points[m] = observed[m]
             /\ \A m \in DOMAIN points : points[m] >= worker.meters[m]
             /\ Appended(worker, points, worker') /\ SpoolGood(worker)' /\ worker' \in Spools
             /\ last' \in [Grants -> Nat]
             /\ observed' \in PointMaps /\ DOMAIN observed' \subseteq DOMAIN observed
             /\ \A m \in DOMAIN observed' : observed'[m] = observed[m]
<1>1. observed \in PointMaps /\ worker \in Spools /\ SpoolGood(worker) /\ last \in [Grants -> Nat]
  BY DEF Inv, Shape
<1>2. PICK S \in Chunks :
        /\ AppendAllowed(worker, Restricted(observed, S))
        /\ \E a \in Slottings(worker, Restricted(observed, S)) :
             worker' = AppendTo(worker, Restricted(observed, S), a.slot, a.last)
        /\ last' = [g \in Grants |-> IF MeterOf(g, life) \in S THEN Restricted(observed, S)[MeterOf(g, life)]
                                     ELSE last[g]]
        /\ observed' = Restricted(observed, DOMAIN observed \ S)
  BY DEF Collect
<1>3. S \in SUBSET DOMAIN observed
  BY DEF Chunks
<1>4. PICK points \in PointMaps : /\ points = Restricted(observed, S) /\ DOMAIN points = S
                                  /\ \A m \in S : points[m] = observed[m]
  BY <1>1, <1>3, RestrictedFacts
<1>5. /\ observed' \in PointMaps /\ DOMAIN observed' = DOMAIN observed \ S
      /\ \A m \in DOMAIN observed \ S : observed'[m] = observed[m]
  BY <1>1, <1>2, RestrictedFacts
<1>6. Appended(worker, points, worker') /\ SpoolGood(worker') /\ worker' \in Spools
  BY <1>1, <1>2, <1>4, AppendStep
<1>7. last' \in [Grants -> Nat]
  BY <1>1, <1>2, <1>4, PointsFinite
<1>8. SpoolGood(worker)'
  BY <1>6 DEF SpoolGood, SpoolSound, Ordered, Volume
<1>9. \A m \in DOMAIN points : points[m] >= worker.meters[m]
  BY <1>2, <1>4 DEF AppendAllowed
<1> QED BY <1>3, <1>4, <1>5, <1>6, <1>7, <1>8, <1>9

\* Store appends the batch in hand.
LEMMA StoreStep ==
    ASSUME Inv, Store
    PROVE  /\ pulled.points \in PointMaps /\ pulled.seq \in Nat
           /\ \A m \in DOMAIN pulled.points : pulled.points[m] >= agent.meters[m]
           /\ Appended(agent, pulled.points, agent') /\ SpoolGood(agent)' /\ agent' \in Spools
           /\ pulled' = [step |-> "ack", seq |-> pulled.seq, points |-> pulled.points]
<1>1. pulled \in [step : {"store", "ack", "posted"}, seq : Nat, points : PointMaps]
  BY DEF Inv, Shape, Store
<1>2. agent \in Spools /\ SpoolGood(agent)
  BY DEF Inv, Shape
<1>3. Appended(agent, pulled.points, agent') /\ SpoolGood(agent') /\ agent' \in Spools
  BY <1>1, <1>2, AppendStep DEF Store
<1>4. SpoolGood(agent)'
  BY <1>3 DEF SpoolGood, SpoolSound, Ordered, Volume
<1>5. \A m \in DOMAIN pulled.points : pulled.points[m] >= agent.meters[m]
  BY DEF Store, AppendAllowed
<1> QED BY <1>1, <1>3, <1>4, <1>5 DEF Store

\* Pull takes the first batch of the worker and freezes it.
LEMMA PullStep ==
    ASSUME Inv, Pull
    PROVE  /\ worker.durable \in Nat /\ worker.durable + 1 \in DOMAIN worker.batch
           /\ pulled' = [step |-> "store", seq |-> worker.durable + 1,
                         points |-> worker.batch[worker.durable + 1]]
           /\ worker' \in Spools /\ SpoolGood(worker)'
           /\ worker' = [worker EXCEPT !.exposed = worker'.exposed]
           /\ worker.exposed <= worker'.exposed /\ worker.durable + 1 <= worker'.exposed
<1>1. worker \in Spools /\ SpoolGood(worker)
  BY DEF Inv, Shape
<1>2. /\ worker.sequence \in Nat /\ worker.durable \in Nat
      /\ DOMAIN worker.batch = worker.durable + 1 .. worker.sequence
  BY <1>1, SpoolFacts DEF SpoolGood, SpoolSound
<1>3. PICK s : s = Min(DOMAIN worker.batch)
  OBVIOUS
<1>4. s \in DOMAIN worker.batch /\ \A t \in DOMAIN worker.batch : s <= t
  <2>1. DOMAIN worker.batch \in SUBSET Nat /\ DOMAIN worker.batch # {}
    BY <1>2 DEF Pull
  <2> QED BY <2>1, <1>3, LeastNatural
<1>5. s = worker.durable + 1
  <2>1. s \in worker.durable + 1 .. worker.sequence
    BY <1>2, <1>4
  <2>2. worker.durable + 1 \in worker.durable + 1 .. worker.sequence
    BY <2>1, <1>2
  <2>3. s <= worker.durable + 1
    BY <2>2, <1>2, <1>4
  <2> QED BY <2>1, <2>3, <1>2
<1>6. 1 \in Nat \ {0} /\ worker' = Freeze(worker, 1)
  BY DEF Pull
<1>7. /\ worker' \in Spools /\ SpoolGood(worker')
      /\ worker' = [worker EXCEPT !.exposed = worker'.exposed]
      /\ worker.exposed <= worker'.exposed
      /\ \A t \in PendingSequences(worker, 1) : t <= worker'.exposed
  BY <1>1, <1>6, FreezeGood, Zenon
<1>8. PICK e \in Nat : worker.durable < e /\ PendingSequences(worker, 1) = worker.durable + 1 .. e
  BY <1>1, <1>6, PendingFacts DEF Pull
<1>9. worker.durable + 1 \in PendingSequences(worker, 1)
  BY <1>2, <1>8
<1>10. SpoolGood(worker)'
  BY <1>7 DEF SpoolGood, SpoolSound, Ordered, Volume
<1>11. pulled' = [step |-> "store", seq |-> s, points |-> worker.batch[s]]
  BY <1>3 DEF Pull
<1> QED BY <1>2, <1>4, <1>5, <1>7, <1>9, <1>10, <1>11

\* HandleAck drops the first batch of the worker or nothing.
LEMMA HandleAckStep ==
    ASSUME Inv, NEW s \in acks, HandleAck(s)
    PROVE  /\ s \in Nat /\ AcknowledgeAllowed(worker, [durable |-> s, accounted |-> 0])
           /\ worker' \in Spools /\ SpoolGood(worker)'
           /\ Acknowledged(worker, IF s >= worker.durable THEN s ELSE worker.durable, worker')
<1>1. worker \in Spools /\ SpoolGood(worker) /\ s \in Nat
  BY DEF Inv, Shape
<1>2. /\ worker.sequence \in Nat /\ worker.durable \in Nat /\ worker.exposed \in Nat
      /\ worker.exposed <= worker.sequence
  BY <1>1, SpoolFacts DEF SpoolGood, SpoolSound
<1> DEFINE r == [durable |-> s, accounted |-> 0]
<1>3. s <= worker.exposed
  BY DEF Inv, Pulling
<1>4. r \in Receipts /\ AcknowledgeAllowed(worker, r) /\ r.durable = s
  BY <1>1, <1>2, <1>3 DEF Receipts, AcknowledgeAllowed
<1>5. worker' = Acknowledge(worker, r)
  BY <1>4 DEF HandleAck
<1> HIDE DEF r
<1>6. /\ SpoolGood(worker')
      /\ Acknowledged(worker, IF r.durable >= worker.durable THEN r.durable ELSE worker.durable, worker')
  BY <1>1, <1>4, <1>5, AcknowledgeGood
<1>7. SpoolGood(worker)'
  BY <1>6 DEF SpoolGood, SpoolSound, Ordered, Volume
<1> QED BY <1>1, <1>4, <1>6, <1>7 DEF Acknowledged, r

\* ReadPending freezes the first batches of the agent and takes them in order.
LEMMA ReadPendingStep ==
    ASSUME Inv, ReadPending
    PROVE  /\ sending' \in Seq(Messages)
           /\ agent.durable \in Nat
           /\ \A i \in 1 .. Len(sending') :
                /\ agent.durable + i \in DOMAIN agent.batch
                /\ sending'[i] = Message(agent.durable + i, agent.batch[agent.durable + i])
                /\ agent.durable + i <= agent'.exposed
           /\ agent' \in Spools /\ SpoolGood(agent)'
           /\ agent' = [agent EXCEPT !.exposed = agent'.exposed]
           /\ agent.exposed <= agent'.exposed
<1>1. agent \in Spools /\ SpoolGood(agent)
  BY DEF Inv, Shape
<1>2. /\ agent.sequence \in Nat /\ agent.durable \in Nat
      /\ DOMAIN agent.batch = agent.durable + 1 .. agent.sequence
  BY <1>1, SpoolFacts DEF SpoolGood, SpoolSound
<1>3. agent' = Freeze(agent, PendingLimit) /\ PendingLimit \in Nat \ {0}
  BY PipelineAssumption DEF ReadPending
<1>4. /\ agent' \in Spools /\ SpoolGood(agent')
      /\ agent' = [agent EXCEPT !.exposed = agent'.exposed]
      /\ agent.exposed <= agent'.exposed
      /\ \A t \in PendingSequences(agent, PendingLimit) : t <= agent'.exposed
  BY <1>1, <1>3, FreezeGood, Zenon
<1>5. PICK e \in Nat : /\ agent.durable <= e /\ e <= agent.sequence
                       /\ PendingSequences(agent, PendingLimit) = agent.durable + 1 .. e
  BY <1>1, <1>3, PendingFacts
<1>6. PICK order : order = InOrder(agent.durable + 1 .. e)
  OBVIOUS
<1>7. DOMAIN order = 1 .. e - agent.durable /\ \A i \in 1 .. e - agent.durable : order[i] = agent.durable + i
  BY <1>2, <1>5, <1>6, IntervalOrder
<1>8. sending' = [i \in DOMAIN order |-> Message(order[i], agent.batch[order[i]])]
  BY <1>5, <1>6 DEF ReadPending
<1>9. PICK k \in Nat : k = e - agent.durable
  BY <1>2, <1>5
<1>10. sending' = [i \in 1 .. k |-> Message(agent.durable + i, agent.batch[agent.durable + i])]
  BY <1>7, <1>8, <1>9
<1>11. ASSUME NEW i \in 1 .. k
       PROVE  /\ agent.durable + i \in DOMAIN agent.batch
              /\ agent.durable + i \in PendingSequences(agent, PendingLimit)
              /\ Message(agent.durable + i, agent.batch[agent.durable + i]) \in Messages
  <2>1. agent.durable + i \in agent.durable + 1 .. e
    BY <1>2, <1>9
  <2>2. agent.durable + i \in DOMAIN agent.batch /\ agent.durable + i \in PendingSequences(agent, PendingLimit)
    BY <2>1, <1>2, <1>5
  <2>3. agent.durable + i \in Nat /\ agent.batch[agent.durable + i] \in PointMaps
    BY <2>2, <1>1, SpoolFacts
  <2> QED BY <2>2, <2>3 DEF Message, Messages
<1>12. sending' \in [1 .. k -> Messages]
  BY <1>10, <1>11
<1>13. sending' \in Seq(Messages) /\ Len(sending') = k
  BY <1>12, SeqDef, LenProperties
<1>14. SpoolGood(agent)'
  BY <1>4 DEF SpoolGood, SpoolSound, Ordered, Volume
<1> QED BY <1>2, <1>4, <1>10, <1>11, <1>13, <1>14

\* TakeReceipt drops the first batch of the agent, which is the one it sent.
LEMMA TakeReceiptStep ==
    ASSUME Inv, TakeReceipt
    PROVE  /\ receipt \in Receipts \ {None, Awaited}
           /\ agent.durable \in Nat /\ ledger.cursor = agent.durable + 1
           /\ receipt.durable >= sending[1].seq /\ AcknowledgeAllowed(agent, receipt)
           /\ agent' \in Spools /\ SpoolGood(agent)' /\ Acknowledged(agent, agent.durable + 1, agent')
           /\ sending' \in Seq(Messages) /\ Len(sending') = Len(sending) - 1
           /\ \A i \in 1 .. Len(sending') : i + 1 \in 1 .. Len(sending) /\ sending'[i] = sending[i + 1]
<1>1. agent \in Spools /\ SpoolGood(agent) /\ sending \in Seq(Messages)
  BY DEF Inv, Shape
<1>2. /\ agent.sequence \in Nat /\ agent.durable \in Nat /\ agent.exposed \in Nat
      /\ agent.exposed <= agent.sequence
  BY <1>1, SpoolFacts DEF SpoolGood, SpoolSound
<1>3. receipt \in Receipts \ {None, Awaited}
  BY DEF Inv, Shape, TakeReceipt
<1>4. /\ receipt.durable = ledger.cursor /\ receipt.accounted = ledger.cursor
      /\ ledger.cursor = agent.durable + 1 /\ ledger.cursor <= agent.exposed
  BY <1>3 DEF Inv, Reporting
<1>5. sending # <<>> /\ Len(sending) \in Nat /\ Len(sending) >= 1
  BY <1>1, EmptySeq, LenProperties DEF TakeReceipt
<1>6. sending[1].seq = agent.durable + 1
  BY <1>5 DEF Inv, Reporting
<1>7. receipt.durable >= sending[1].seq /\ AcknowledgeAllowed(agent, receipt)
  BY <1>2, <1>4, <1>6 DEF AcknowledgeAllowed
<1>8. agent' = Acknowledge(agent, receipt) /\ sending' = Tail(sending)
  BY <1>7 DEF TakeReceipt
<1>9. /\ SpoolGood(agent')
      /\ Acknowledged(agent, IF receipt.durable >= agent.durable THEN receipt.durable ELSE agent.durable, agent')
  BY <1>1, <1>3, <1>7, <1>8, AcknowledgeGood
<1>10. receipt.durable >= agent.durable /\ receipt.durable = agent.durable + 1
  BY <1>2, <1>4
<1>11. Acknowledged(agent, agent.durable + 1, agent') /\ agent' \in Spools
  BY <1>9, <1>10 DEF Acknowledged
<1>12. SpoolGood(agent)'
  BY <1>9 DEF SpoolGood, SpoolSound, Ordered, Volume
<1>13. /\ sending' \in Seq(Messages) /\ Len(sending') = Len(sending) - 1
       /\ \A i \in 1 .. Len(sending') : sending'[i] = sending[i + 1]
  BY <1>1, <1>5, <1>8, HeadTailProperties
<1>14. \A i \in 1 .. Len(sending') : i + 1 \in 1 .. Len(sending)
  BY <1>5, <1>13
<1> QED BY <1>2, <1>3, <1>4, <1>7, <1>11, <1>12, <1>13, <1>14

-----------------------------------------------------------------------------
(***************************************************************************)
(* The master.                                                             *)
(***************************************************************************)

\* The bytes of a batch are the growth of the sum of the meters.
LEMMA DeltaFacts ==
    ASSUME Inv, NEW b \in Messages, RunsForward(b), NEW g \in Grants, NEW new,
           \A m \in Meters : new[m] = IF m \in DOMAIN b.points THEN b.points[m] ELSE ledger.meters[m]
    PROVE  /\ Delta(b, g) \in Nat
           /\ Total(new, MetersOf(g)) = ledger.consumed[g] + Delta(b, g)
<1> DEFINE d == [m \in Meters |-> IF m \in DOMAIN b.points THEN b.points[m] - ledger.meters[m] ELSE 0]
           e == [m \in DOMAIN b.points |-> b.points[m] - ledger.meters[m]]
           P == {m \in DOMAIN b.points : GrantOf(m) = g}
<1>1. b.points \in PointMaps
  BY DEF Messages
<1>2. DOMAIN b.points \subseteq Meters /\ \A m \in DOMAIN b.points : b.points[m] \in Nat
  BY <1>1, PointsFinite
<1>3. Shape /\ Books
  BY DEF Inv
<1>4. \A m \in Meters : ledger.meters[m] \in Nat
  BY <1>3, ForwardedFacts
<1>5. \A m \in DOMAIN b.points : b.points[m] >= ledger.meters[m]
  BY DEF RunsForward
<1>6. \A m \in Meters : d[m] \in Nat /\ new[m] = ledger.meters[m] + d[m]
  BY <1>2, <1>4, <1>5
<1>7. P \subseteq MetersOf(g) /\ \A m \in MetersOf(g) \ P : d[m] = 0
  BY <1>2 DEF MetersOf
<1>8. \A m \in P : d[m] = e[m]
  BY <1>2
<1>9. Delta(b, g) = Total(e, P)
  BY DEF Delta
<1>10. MetersOf(g) \subseteq Meters /\ IsFiniteSet(MetersOf(g))
  BY MeterFacts
<1> HIDE DEF d, e, P
<1>11. Counts(d, MetersOf(g)) /\ Total(d, MetersOf(g)) \in Nat
  BY <1>6, MetersCount
<1>12. Counts(ledger.meters, MetersOf(g))
  BY <1>4, MetersCount
<1>13. Counts(d, P)
  BY <1>7, <1>11, FS_Subset DEF Counts
<1>14. Total(d, MetersOf(g)) = Total(d, P)
  BY <1>7, <1>11, TotalZeros
<1>15. Total(d, P) = Total(e, P)
  BY <1>8, <1>13, TotalSame
<1>16. Total(new, MetersOf(g)) = Total(ledger.meters, MetersOf(g)) + Total(d, MetersOf(g))
  <2>1. PICK f : f = ledger.meters
    OBVIOUS
  <2>2. \A m \in MetersOf(g) : new[m] = f[m] + d[m]
    BY <2>1, <1>6, <1>10
  <2>3. Counts(f, MetersOf(g)) /\ Counts(d, MetersOf(g))
    BY <2>1, <1>11, <1>12
  <2>4. Total(new, MetersOf(g)) = Total(f, MetersOf(g)) + Total(d, MetersOf(g))
    BY <2>2, <2>3, TotalSum
  <2> QED BY <2>1, <2>4
<1>17. Total(ledger.meters, MetersOf(g)) = ledger.consumed[g]
  BY <1>3 DEF Books
<1> QED BY <1>9, <1>11, <1>14, <1>15, <1>16, <1>17

\* Meters of the ledger stay below the bytes that were forwarded.
LEMMA LedgerBound ==
    ASSUME Inv, NEW new, \A m \in Meters : new[m] \in Nat /\ new[m] <= agent.meters[m], NEW g \in Grants
    PROVE  Total(new, MetersOf(g)) <= spent[g] /\ spent[g] <= Issued[g]
<1>1. Shape /\ Process /\ Pulling
  BY DEF Inv
<1>2. \A m \in Meters : Forwarded[m] \in Nat /\ agent.meters[m] \in Nat /\ worker.meters[m] \in Nat
  BY <1>1, ForwardedFacts
<1>3. \A m \in Meters : agent.meters[m] <= worker.meters[m] /\ worker.meters[m] <= Forwarded[m]
  BY <1>1 DEF Process, Pulling
<1>4. \A m \in Meters : new[m] <= Forwarded[m]
  BY <1>2, <1>3
<1>5. Counts(Forwarded, MetersOf(g)) /\ Counts(new, MetersOf(g))
      /\ Total(Forwarded, MetersOf(g)) \in Nat /\ Total(new, MetersOf(g)) \in Nat
  BY <1>2, MetersCount
<1>6. \A m \in MetersOf(g) : new[m] <= Forwarded[m]
  BY <1>4, MeterFacts
<1>7. Total(new, MetersOf(g)) <= Total(Forwarded, MetersOf(g))
  BY <1>5, <1>6, TotalMonotone
<1>8. Total(Forwarded, MetersOf(g)) <= spent[g] /\ spent[g] <= Issued[g]
  BY <1>1 DEF Process
<1>9. spent[g] \in Nat
  BY <1>1 DEF Shape
<1> QED BY <1>5, <1>7, <1>8, <1>9

\* A batch that is not a repetition is the next one: the first of the agent's.
NextOne(b) ==
    /\ b.seq = ledger.cursor + 1 /\ ledger.cursor = agent.durable
    /\ b.seq \in DOMAIN agent.batch /\ b.points = agent.batch[b.seq]

\* Ingest refuses nothing.
LEMMA IngestFacts ==
    ASSUME Inv, NEW b \in requests
    PROVE  /\ IngestAllowed(b) /\ b \in Messages
           /\ ~IsReplay(b) =>
                /\ NextOne(b)
                /\ \A m \in DOMAIN b.points : ledger.meters[m] <= b.points[m]
                /\ LedgerAfter(b) \in [cursor : Nat, digest : PointMaps, meters : [Meters -> Nat],
                                       consumed : [Grants -> Nat]]
                /\ LedgerAfter(b).cursor = b.seq /\ LedgerAfter(b).digest = b.points
                /\ \A m \in Meters : LedgerAfter(b).meters[m] =
                                       IF m \in DOMAIN b.points THEN b.points[m] ELSE ledger.meters[m]
                /\ \A g \in Grants : LedgerAfter(b).consumed[g] = Total(LedgerAfter(b).meters, MetersOf(g))
<1>0. Shape /\ Reporting /\ SpoolGood(agent) /\ agent \in Spools
  BY DEF Inv, Shape
<1>1. b \in Messages /\ b.seq \in Nat /\ b.points \in PointMaps
  BY <1>0 DEF Shape, Messages
<1>2. /\ agent.sequence \in Nat /\ agent.durable \in Nat /\ agent.exposed \in Nat
      /\ agent.exposed <= agent.sequence /\ agent.durable <= agent.exposed
      /\ DOMAIN agent.batch = agent.durable + 1 .. agent.sequence
  BY <1>0, SpoolFacts DEF SpoolGood, SpoolSound
<1>3. /\ ledger.cursor \in Nat /\ agent.durable <= ledger.cursor /\ ledger.cursor <= agent.durable + 1
      /\ b.seq <= agent.durable + 1 /\ b.seq <= agent.exposed
      /\ b.seq = agent.durable + 1 => b.points = agent.batch[b.seq]
      /\ b.seq = ledger.cursor => b.points = ledger.digest
  BY <1>0 DEF Shape, Reporting
<1>4. CASE IsReplay(b)
  BY <1>1, <1>3, <1>4 DEF IngestAllowed, IsConflict
<1>5. CASE ~IsReplay(b)
  <2>1. b.seq = agent.durable + 1 /\ ledger.cursor = agent.durable
    BY <1>1, <1>2, <1>3, <1>5 DEF IsReplay
  <2>2. NextOne(b)
    BY <2>1, <1>1, <1>2, <1>3 DEF NextOne
  <2>3. \A m \in DOMAIN b.points : ledger.meters[m] <= b.points[m] /\ b.points[m] <= agent.meters[m]
    <3>1. b.seq > ledger.cursor
      BY <2>1, <1>2
    <3>2. \A m \in DOMAIN agent.batch[b.seq] : ledger.meters[m] <= agent.batch[b.seq][m]
      BY <3>1, <2>2, <1>0 DEF NextOne, Reporting
    <3>3. \A m \in DOMAIN agent.batch[b.seq] : agent.batch[b.seq][m] <= agent.meters[m]
      BY <2>2, <1>0 DEF NextOne, SpoolGood, Ordered
    <3> QED BY <2>2, <3>2, <3>3 DEF NextOne
  <2>4. DOMAIN b.points \subseteq Meters /\ \A m \in DOMAIN b.points : b.points[m] \in Nat
    BY <1>1, PointsFinite
  <2>5. \A m \in Meters : ledger.meters[m] \in Nat /\ ledger.meters[m] <= agent.meters[m]
    BY <1>0, ForwardedFacts DEF Reporting
  <2>6. RunsForward(b)
    BY <2>3, <2>4, <2>5 DEF RunsForward
  <2> DEFINE new == [m \in Meters |-> IF m \in DOMAIN b.points THEN b.points[m] ELSE ledger.meters[m]]
             used == [g \in Grants |-> ledger.consumed[g] + Delta(b, g)]
  <2>7. \A m \in Meters : new[m] = IF m \in DOMAIN b.points THEN b.points[m] ELSE ledger.meters[m]
    OBVIOUS
  <2>8. new \in [Meters -> Nat] /\ \A m \in Meters : new[m] <= agent.meters[m]
    BY <2>3, <2>4, <2>5
  <2> HIDE DEF new
  <2>9. ASSUME NEW g \in Grants
        PROVE  /\ Delta(b, g) \in Nat /\ Total(new, MetersOf(g)) = ledger.consumed[g] + Delta(b, g)
               /\ Delta(b, g) <= Issued[g] - ledger.consumed[g]
               /\ ledger.consumed[g] + Delta(b, g) \in Nat
    <3>1. Delta(b, g) \in Nat /\ Total(new, MetersOf(g)) = ledger.consumed[g] + Delta(b, g)
      BY <1>1, <2>6, <2>7, DeltaFacts
    <3>2. Total(new, MetersOf(g)) <= spent[g] /\ spent[g] <= Issued[g]
      BY <2>8, LedgerBound
    <3>3. ledger.consumed[g] \in Nat /\ spent[g] \in Nat /\ Issued[g] \in Nat
      BY <1>0, PipelineAssumption DEF Shape
    <3> QED BY <3>1, <3>2, <3>3
  <2>10. WithinCredit(b)
    BY <2>9 DEF WithinCredit
  <2>11. IngestAllowed(b)
    BY <1>5, <2>1, <2>6, <2>10 DEF IngestAllowed, IsInSequence
  <2>12. LedgerAfter(b) = [cursor |-> b.seq, digest |-> b.points, meters |-> new, consumed |-> used]
    BY <1>5 DEF LedgerAfter, new
  <2>13. used \in [Grants -> Nat] /\ \A g \in Grants : used[g] = Total(new, MetersOf(g))
    BY <2>9
  <2> HIDE DEF used
  <2>14. /\ LedgerAfter(b).cursor = b.seq /\ LedgerAfter(b).digest = b.points
         /\ LedgerAfter(b).meters = new /\ LedgerAfter(b).consumed = used
    BY <2>12
  <2>15. LedgerAfter(b) \in [cursor : Nat, digest : PointMaps, meters : [Meters -> Nat], consumed : [Grants -> Nat]]
    BY <2>12, <2>8, <2>13, <1>1
  <2> QED BY <1>1, <2>2, <2>3, <2>7, <2>11, <2>13, <2>14, <2>15
<1> QED BY <1>1, <1>4, <1>5

-----------------------------------------------------------------------------
(***************************************************************************)
(* The steps keep the invariant, part by part.                             *)
(***************************************************************************)

\* Every variable keeps its shape.
LEMMA ShapeNext ==
    ASSUME Inv, Next
    PROVE  Shape'
<1> USE DEF process, reporting
<1>0. Shape
  BY DEF Inv
<1>1. ASSUME NEW g \in Grants, Measure(g) PROVE Shape'
  BY <1>0, <1>1, SMTT(30) DEF Measure, Shape
<1>2. CASE Observe
  <2>1. \A g \in Changed : g \in Grants /\ measured[g] \in Nat /\ <<g, life>> \in Meters
    BY <1>0, MeterFacts DEF Shape, Changed
  <2> DEFINE D == {MeterOf(g, life) : g \in Changed}
  <2>2. \A m \in D : m \in Meters /\ measured[GrantOf(m)] \in Nat
    BY <2>1 DEF MeterOf, GrantOf
  <2>3. observed' = [m \in D |-> measured[GrantOf(m)]]
    BY <1>2 DEF Observe
  <2> HIDE DEF D
  <2>4. observed' \in [D -> Nat] /\ D \subseteq Meters
    BY <2>2, <2>3
  <2>5. observed' \in PointMaps
    BY <2>4, PointFacts
  <2> QED BY <1>0, <1>2, <2>5 DEF Observe, Shape
<1>3. CASE Collect
  <2>1. worker' \in Spools /\ last' \in [Grants -> Nat] /\ observed' \in PointMaps
    BY <1>3, CollectStep
  <2> QED BY <1>0, <1>3, <2>1 DEF Collect, Shape
<1>4. ASSUME Exit, UNCHANGED <<life, spent, worker, agent, reporting>>, faults' \in 0 .. MaxFaults PROVE Shape'
  BY <1>0, <1>4, NothingFacts DEF Exit, Shape, Zero
<1>5. CASE CollectRefused
  <2>1. CASE mode = "closing" /\ Exit
    BY <1>0, <1>4, <1>5, <2>1 DEF CollectRefused, Shape
  <2>2. CASE mode' = "closing" /\ observed' = Nothing /\ UNCHANGED <<measured, last, pulled, acks>>
    BY <1>0, <1>5, <2>2, NothingFacts DEF CollectRefused, Shape
  <2> QED BY <1>5, <2>1, <2>2 DEF CollectRefused
<1>6. CASE Shutdown
  BY <1>0, <1>6 DEF Shutdown, Shape
<1>7. CASE ShutdownDone
  BY <1>0, <1>4, <1>7 DEF ShutdownDone, Shape
<1>8. CASE WorkerCrash
  <2>1. faults' \in 0 .. MaxFaults
    BY <1>0, <1>8, PipelineAssumption DEF WorkerCrash, Shape
  <2> QED BY <1>4, <1>8, <2>1 DEF WorkerCrash
<1>9. CASE WorkerStart
  <2>1. life < MaxIncarnation
    BY <1>9 DEF WorkerStart, Inv, Process
  <2> QED BY <1>0, <1>9, <2>1, PipelineAssumption DEF WorkerStart, Shape
<1>10. CASE Pull
  <2>1. worker' \in Spools
    BY <1>10, PullStep
  <2>2. pulled' \in [step : {"store", "ack", "posted"}, seq : Nat, points : PointMaps]
    BY <1>0, <1>10, PullStep, SpoolFacts DEF Shape
  <2> QED BY <1>0, <1>10, <2>1, <2>2 DEF Pull, Shape
<1>11. CASE Store
  <2>1. agent' \in Spools /\ pulled' \in [step : {"store", "ack", "posted"}, seq : Nat, points : PointMaps]
    BY <1>11, StoreStep
  <2> QED BY <1>0, <1>11, <2>1 DEF Store, Shape
<1>12. CASE StoreRefused
  BY <1>0, <1>12 DEF StoreRefused, Shape
<1>13. CASE PostAck
  <2>1. pulled \in [step : {"store", "ack", "posted"}, seq : Nat, points : PointMaps]
    BY <1>0, <1>13 DEF PostAck, Shape
  <2> QED BY <1>0, <1>13, <2>1 DEF PostAck, Shape
<1>14. ASSUME NEW s \in acks, HandleAck(s) PROVE Shape'
  <2>1. worker' \in Spools
    BY <1>14, HandleAckStep
  <2> QED BY <1>0, <1>14, <2>1 DEF HandleAck, Shape
<1>15. CASE PullBroken
  BY <1>0, <1>15, PipelineAssumption DEF PullBroken, Shape
<1>16. CASE ReadPending
  <2>1. agent' \in Spools /\ sending' \in Seq(Messages)
    BY <1>16, ReadPendingStep
  <2> QED BY <1>0, <1>16, <2>1 DEF ReadPending, Shape
<1>17. CASE Send
  <2>1. sending[1] \in Messages
    BY <1>0, <1>17, EmptySeq, LenProperties, ElementOfSeq DEF Send, Shape
  <2> QED BY <1>0, <1>17, <2>1 DEF Send, Shape
<1>18. ASSUME NEW b \in requests, Ingest(b) PROVE Shape'
  <2>1. IngestAllowed(b)
    BY IngestFacts
  <2>2. ledger' = LedgerAfter(b)
    BY <1>18, <2>1 DEF Ingest
  <2>3. ledger' \in [cursor : Nat, digest : PointMaps, meters : [Meters -> Nat], consumed : [Grants -> Nat]]
    <3>1. CASE IsReplay(b)
      BY <1>0, <2>2, <3>1 DEF LedgerAfter, Shape
    <3>2. CASE ~IsReplay(b)
      BY <2>2, <3>2, IngestFacts
    <3> QED BY <3>1, <3>2
  <2>4. receipt' \in {None, Awaited} \cup Receipts
    BY <1>0, <1>18, <2>1, <2>3 DEF Ingest, Shape, Receipts
  <2>5. sending' = sending /\ requests' \in SUBSET Messages
    BY <1>0, <1>18, <2>1 DEF Ingest, Shape
  <2> QED BY <1>0, <1>18, <2>3, <2>4, <2>5 DEF Ingest, Shape
<1>19. CASE TakeReceipt
  <2>1. agent' \in Spools /\ sending' \in Seq(Messages)
    BY <1>19, TakeReceiptStep
  <2> QED BY <1>0, <1>19, <2>1 DEF TakeReceipt, Shape
<1>20. ASSUME Disconnect PROVE sending' \in Seq(Messages) /\ requests' \in SUBSET Messages /\ receipt' = None
  <2>1. \A b \in requests : [b EXCEPT !.live = FALSE] \in Messages
    BY <1>0 DEF Shape, Messages
  <2> QED BY <1>20, <2>1, EmptySeq DEF Disconnect
<1>21. CASE StreamBroken
  BY <1>0, <1>20, <1>21, PipelineAssumption DEF StreamBroken, Shape
<1>22. CASE AgentCrash
  BY <1>0, <1>20, <1>22, PipelineAssumption DEF AgentCrash, Shape
<1>23. ASSUME NEW b \in requests, RequestLost(b) PROVE Shape'
  BY <1>0, <1>23 DEF RequestLost, Shape
<1> QED BY <1>1, <1>2, <1>3, <1>5, <1>6, <1>7, <1>8, <1>9, <1>10, <1>11, <1>12, <1>13, <1>14, <1>15,
           <1>16, <1>17, <1>18, <1>19, <1>21, <1>22, <1>23 DEF Next

\* Both spools stay good.
LEMMA SpoolsNext ==
    ASSUME Inv, Next
    PROVE  SpoolGood(worker)' /\ SpoolGood(agent)'
<1> USE DEF process, reporting
<1>1. ASSUME worker' = worker PROVE SpoolGood(worker)'
  <2>1. SpoolGood(worker')
    BY <1>1 DEF Inv
  <2> QED BY <2>1 DEF SpoolGood, SpoolSound, Ordered, Volume
<1>2. ASSUME agent' = agent PROVE SpoolGood(agent)'
  <2>1. SpoolGood(agent')
    BY <1>2 DEF Inv
  <2> QED BY <2>1 DEF SpoolGood, SpoolSound, Ordered, Volume
<1>3. CASE Collect
  BY <1>2, <1>3, CollectStep DEF Collect
<1>4. CASE Pull
  BY <1>2, <1>4, PullStep DEF Pull
<1>5. ASSUME NEW s \in acks, HandleAck(s) PROVE SpoolGood(worker)' /\ SpoolGood(agent)'
  BY <1>2, <1>5, HandleAckStep DEF HandleAck
<1>6. CASE Store
  BY <1>1, <1>6, StoreStep DEF Store
<1>7. CASE ReadPending
  BY <1>1, <1>7, ReadPendingStep DEF ReadPending
<1>8. CASE TakeReceipt
  BY <1>1, <1>8, TakeReceiptStep DEF TakeReceipt
<1>9. CASE ~Collect /\ ~Pull /\ ~(\E s \in acks : HandleAck(s)) /\ ~Store /\ ~ReadPending /\ ~TakeReceipt
  <2>1. worker' = worker /\ agent' = agent
    BY <1>9 DEF Next, Measure, Observe, CollectRefused, Shutdown, ShutdownDone, WorkerCrash, WorkerStart,
                StoreRefused, PostAck, PullBroken, Send, Ingest, StreamBroken, AgentCrash, RequestLost
  <2> QED BY <1>1, <1>2, <2>1
<1> QED BY <1>3, <1>4, <1>5, <1>6, <1>7, <1>8, <1>9

\* What a step of the process does to the bytes that were forwarded.
LEMMA ForwardedNext ==
    ASSUME Inv, Next
    PROVE  \A m \in Meters : /\ Forwarded'[m] \in Nat /\ worker'.meters[m] \in Nat
                             /\ Forwarded'[m] = IF mode' # "down" /\ m[2] = life' THEN measured'[m[1]]
                                                ELSE worker'.meters[m]
<1>1. Shape'
  BY ShapeNext
<1> QED BY <1>1, MeterFacts DEF Shape, Forwarded, Spools

\* Where no more is forwarded than before, the account still covers it.
LEMMA AccountCovers ==
    ASSUME Inv, Next, spent' = spent, \A m \in Meters : Forwarded'[m] <= Forwarded[m]
    PROVE  \A g \in Grants : Total(Forwarded', MetersOf(g)) <= spent'[g] /\ spent'[g] <= Issued[g]
<1> SUFFICES ASSUME NEW g \in Grants
             PROVE  Total(Forwarded', MetersOf(g)) <= spent[g] /\ spent[g] <= Issued[g]
  OBVIOUS
<1>1. Counts(Forwarded', MetersOf(g)) /\ Total(Forwarded', MetersOf(g)) \in Nat
  BY ForwardedNext, MetersCount
<1>2. Counts(Forwarded, MetersOf(g)) /\ Total(Forwarded, MetersOf(g)) \in Nat
  BY ForwardedFacts, MetersCount DEF Inv
<1>3. \A m \in MetersOf(g) : Forwarded'[m] <= Forwarded[m]
  BY MeterFacts
<1>4. Total(Forwarded', MetersOf(g)) <= Total(Forwarded, MetersOf(g))
  BY <1>1, <1>2, <1>3, TotalMonotone
<1>5. Total(Forwarded, MetersOf(g)) <= spent[g] /\ spent[g] <= Issued[g] /\ spent[g] \in Nat
  BY DEF Inv, Process, Shape
<1> QED BY <1>1, <1>2, <1>4, <1>5

\* What is durable at the worker was forwarded, and what was forwarded is on
\* the governor's account.
LEMMA ProcessNext ==
    ASSUME Inv, Next
    PROVE  Process'
<1> USE DEF process, reporting
<1>0. Shape /\ Process
  BY DEF Inv
<1>a. \A m \in Meters :
        /\ Forwarded[m] \in Nat /\ worker.meters[m] \in Nat
        /\ Forwarded[m] = IF mode # "down" /\ m[2] = life THEN measured[m[1]] ELSE worker.meters[m]
        /\ Forwarded'[m] \in Nat /\ worker'.meters[m] \in Nat
        /\ Forwarded'[m] = IF mode' # "down" /\ m[2] = life' THEN measured'[m[1]] ELSE worker'.meters[m]
  BY <1>0, ForwardedFacts, ForwardedNext
<1>b. \A m \in Meters : /\ m[2] > life => worker.meters[m] = 0
                        /\ worker.meters[m] <= Forwarded[m]
  BY <1>0 DEF Process
<1>c. /\ mode # "up" => life < MaxIncarnation
      /\ mode = "down" => measured = Zero /\ observed = Nothing
      /\ \A m \in DOMAIN observed : m[2] = life /\ observed[m] <= measured[m[1]]
  BY <1>0 DEF Process
<1>d. /\ life \in Nat /\ MaxIncarnation \in Nat
      /\ \A m \in Meters : m[2] \in Nat /\ m[1] \in Grants
      /\ \A g \in Grants : measured[g] \in Nat
      /\ DOMAIN observed \subseteq Meters /\ \A m \in DOMAIN observed : observed[m] \in Nat
  BY <1>0, MeterFacts, PipelineAssumption, PointsFinite DEF Shape
<1>e. DOMAIN Nothing = {}
  BY NothingFacts
<1>1. ASSUME NEW g \in Grants, Measure(g) PROVE Process'
  <2>1. /\ mode = "up" /\ mode' = mode /\ life' = life /\ observed' = observed /\ worker' = worker
        /\ spent' = [spent EXCEPT ![g] = @ + 1] /\ measured' = [measured EXCEPT ![g] = @ + 1]
        /\ spent[g] < Issued[g]
    BY <1>1 DEF Measure
  <2>2. PICK x \in Meters : x = <<g, life>>
    BY MeterFacts, <1>0 DEF Shape
  <2>3. x[1] = g /\ x[2] = life /\ x \in MetersOf(g)
    BY <2>2 DEF MetersOf, GrantOf
  <2>4. \A h \in Grants : measured'[h] = IF h = g THEN measured[g] + 1 ELSE measured[h]
    BY <2>1, <1>0 DEF Shape
  <2>5. Forwarded'[x] = Forwarded[x] + 1
    BY <2>1, <2>3, <2>4, <1>a
  <2>6. ASSUME NEW m \in Meters, m # x PROVE Forwarded'[m] = Forwarded[m]
    <3>1. m = <<m[1], m[2]>>
      BY MeterFacts
    <3>2. CASE m[2] = life
      <4>1. m[1] # g
        BY <3>1, <3>2, <2>2, <2>6
      <4> QED BY <4>1, <3>2, <2>1, <2>4, <1>a, <1>d
    <3>3. CASE m[2] # life
      BY <3>3, <2>1, <1>a
    <3> QED BY <3>2, <3>3
  <2>7. ASSUME NEW h \in Grants PROVE Total(Forwarded', MetersOf(h)) <= spent'[h] /\ spent'[h] <= Issued[h]
    <3>1. Counts(Forwarded', MetersOf(h)) /\ Counts(Forwarded, MetersOf(h)) /\ Total(Forwarded, MetersOf(h)) \in Nat
      BY <1>a, MetersCount
    <3>2. Total(Forwarded, MetersOf(h)) <= spent[h] /\ spent[h] <= Issued[h] /\ spent[h] \in Nat /\ Issued[h] \in Nat
      BY <1>0, PipelineAssumption DEF Process, Shape
    <3>3. MetersOf(h) \subseteq Meters
      BY MeterFacts
    <3>4. PICK f : f = Forwarded
      OBVIOUS
    <3>5. PICK f2 : f2 = Forwarded'
      OBVIOUS
    <3>6. CASE h = g
      <4>1. \A y \in MetersOf(g) \ {x} : f[y] = f2[y]
        BY <2>6, <3>3, <3>4, <3>5, <3>6
      <4>2. Total(f2, MetersOf(g)) = Total(f, MetersOf(g)) + f2[x] - f[x]
        BY <4>1, <2>3, <3>1, <3>4, <3>5, <3>6, TotalChange
      <4>3. f2[x] - f[x] = 1 /\ f[x] \in Nat
        BY <2>5, <3>4, <3>5, <1>a
      <4>4. f2[x] \in Nat /\ Total(f, MetersOf(g)) \in Nat
        BY <3>1, <3>4, <3>5, <3>6, <1>a
      <4>5. Total(f2, MetersOf(g)) = Total(f, MetersOf(g)) + 1
        BY <4>2, <4>3, <4>4
      <4>6. spent'[g] = spent[g] + 1
        BY <2>1, <1>0 DEF Shape
      <4> QED BY <4>4, <4>5, <4>6, <3>2, <3>4, <3>5, <3>6, <2>1
    <3>7. CASE h # g
      <4>1. x \notin MetersOf(h)
        BY <3>7, <2>3 DEF MetersOf, GrantOf
      <4>2. \A y \in MetersOf(h) : f[y] = f2[y]
        BY <4>1, <2>6, <3>3, <3>4, <3>5
      <4>3. Total(f, MetersOf(h)) = Total(f2, MetersOf(h))
        BY <4>2, <3>1, <3>4, TotalSame
      <4>4. spent'[h] = spent[h]
        BY <3>7, <2>1, <1>0 DEF Shape
      <4> QED BY <4>3, <4>4, <3>2, <3>4, <3>5
    <3> QED BY <3>6, <3>7
  <2>8. \A m \in Meters : worker.meters[m] <= Forwarded'[m]
    BY <2>5, <2>6, <1>a, <1>b
  <2>9. \A m \in DOMAIN observed : observed[m] <= measured'[m[1]]
    BY <2>4, <1>c, <1>d
  <2> QED BY <2>1, <2>7, <2>8, <2>9, <1>b, <1>c DEF Process
<1>2. ASSUME worker'.meters = worker.meters, mode' # "down" <=> mode # "down", life' = life,
             measured' = measured, spent' = spent
      PROVE  /\ \A m \in Meters : /\ m[2] > life' => worker'.meters[m] = 0
                                  /\ worker'.meters[m] <= Forwarded'[m]
             /\ \A g \in Grants : Total(Forwarded', MetersOf(g)) <= spent'[g] /\ spent'[g] <= Issued[g]
  <2>1. \A m \in Meters : Forwarded'[m] = Forwarded[m]
    BY <1>2, <1>a
  <2>2. \A m \in Meters : Forwarded'[m] <= Forwarded[m]
    BY <2>1, <1>a
  <2> QED BY <1>2, <2>1, <2>2, <1>b, AccountCovers
<1>3. CASE Observe
  <2>1. /\ mode' = mode /\ life' = life /\ worker' = worker /\ measured' = measured /\ spent' = spent
        /\ mode # "down"
    BY <1>3 DEF Observe
  <2>2. \A m \in DOMAIN observed' : m[2] = life /\ observed'[m] <= measured[m[1]]
    <3>1. observed' = [m \in {MeterOf(g, life) : g \in Changed} |-> measured[GrantOf(m)]]
      BY <1>3 DEF Observe
    <3>2. \A g \in Changed : g \in Grants
      BY DEF Changed
    <3> QED BY <3>1, <3>2, <1>d DEF MeterOf, GrantOf
  <2> QED BY <1>2, <1>c, <2>1, <2>2 DEF Process
<1>4. CASE Collect
  <2>1. /\ mode' = mode /\ life' = life /\ measured' = measured /\ spent' = spent /\ mode # "down"
    BY <1>4 DEF Collect
  <2>2. PICK points \in PointMaps :
          /\ DOMAIN points \subseteq DOMAIN observed /\ \A m \in DOMAIN points : points[m] = observed[m]
          /\ Appended(worker, points, worker')
          /\ DOMAIN observed' \subseteq DOMAIN observed
          /\ \A m \in DOMAIN observed' : observed'[m] = observed[m]
    BY <1>4, CollectStep
  <2>3. \A m \in Meters : worker'.meters[m] = IF m \in DOMAIN points THEN observed[m] ELSE worker.meters[m]
    BY <2>2 DEF Appended
  <2>4. \A m \in DOMAIN points : m[2] = life /\ observed[m] <= measured[m[1]]
    BY <2>2, <1>c
  <2>5. \A m \in Meters : Forwarded'[m] = Forwarded[m]
    BY <2>1, <2>3, <2>4, <1>a
  <2>6. \A m \in Meters : /\ m[2] > life => worker'.meters[m] = 0
                          /\ worker'.meters[m] <= Forwarded[m]
    BY <2>1, <2>3, <2>4, <1>a, <1>b, <1>d
  <2>7. \A m \in Meters : Forwarded'[m] <= Forwarded[m]
    BY <2>5, <1>a
  <2>8. \A g \in Grants : Total(Forwarded', MetersOf(g)) <= spent'[g] /\ spent'[g] <= Issued[g]
    BY <2>1, <2>7, AccountCovers
  <2>9. \A m \in DOMAIN observed' : m[2] = life /\ observed'[m] <= measured[m[1]]
    BY <2>2, <1>c
  <2>10. \A m \in Meters : /\ m[2] > life' => worker'.meters[m] = 0
                           /\ worker'.meters[m] <= Forwarded'[m]
    BY <2>1, <2>5, <2>6
  <2> QED BY <2>1, <2>8, <2>9, <2>10, <1>c DEF Process
<1>5. ASSUME Exit, life < MaxIncarnation, UNCHANGED <<life, spent, worker>> PROVE Process'
  <2>1. mode' = "down" /\ measured' = Zero /\ observed' = Nothing /\ life' = life /\ worker' = worker /\ spent' = spent
    BY <1>5 DEF Exit
  <2>2. \A m \in Meters : Forwarded'[m] = worker.meters[m]
    BY <2>1, <1>a
  <2>3. \A m \in Meters : Forwarded'[m] <= Forwarded[m] /\ worker.meters[m] <= Forwarded'[m]
    BY <2>2, <1>a, <1>b
  <2>4. \A g \in Grants : Total(Forwarded', MetersOf(g)) <= spent'[g] /\ spent'[g] <= Issued[g]
    BY <2>1, <2>3, AccountCovers
  <2>5. Zero' = Zero /\ Nothing' = Nothing
    BY DEF Zero, Nothing
  <2> QED BY <2>1, <2>3, <2>4, <2>5, <1>5, <1>b, <1>e DEF Process
<1>6. CASE CollectRefused
  <2>1. CASE mode = "closing" /\ Exit
    BY <1>5, <1>6, <2>1 DEF CollectRefused
  <2>2. CASE mode = "up" /\ mode' = "closing" /\ observed' = Nothing /\ UNCHANGED <<measured, last, pulled, acks>>
    <3>1. life' = life /\ spent' = spent /\ worker' = worker /\ life < MaxIncarnation
      BY <1>6 DEF CollectRefused
    <3> QED BY <1>2, <1>e, <2>2, <3>1 DEF Process
  <2> QED BY <1>6, <2>1, <2>2 DEF CollectRefused
<1>7. CASE Shutdown
  <2>1. /\ mode = "up" /\ mode' = "closing" /\ life' = life /\ measured' = measured /\ observed' = observed
        /\ spent' = spent /\ worker' = worker /\ life < MaxIncarnation
    BY <1>7 DEF Shutdown
  <2> QED BY <1>2, <1>c, <2>1 DEF Process
<1>8. CASE ShutdownDone
  BY <1>5, <1>8, <1>c DEF ShutdownDone
<1>9. CASE WorkerCrash
  BY <1>5, <1>9 DEF WorkerCrash
<1>10. CASE WorkerStart
  <2>1. /\ mode = "down" /\ mode' = "up" /\ life' = life + 1 /\ measured' = measured /\ observed' = observed
        /\ spent' = spent /\ worker' = worker
    BY <1>10 DEF WorkerStart
  <2>2. measured = Zero /\ observed = Nothing
    BY <2>1, <1>c
  <2>3. ASSUME NEW m \in Meters PROVE Forwarded'[m] = worker.meters[m] /\ Forwarded[m] = worker.meters[m]
    <3>1. CASE m[2] = life + 1
      <4>1. worker.meters[m] = 0
        BY <3>1, <1>b, <1>d
      <4>2. measured'[m[1]] = 0
        BY <2>1, <2>2, <1>d DEF Zero
      <4> QED BY <3>1, <4>1, <4>2, <2>1, <1>a
    <3>2. CASE m[2] # life + 1
      BY <3>2, <2>1, <1>a
    <3> QED BY <3>1, <3>2
  <2>4. \A m \in Meters : Forwarded'[m] <= Forwarded[m] /\ worker.meters[m] <= Forwarded'[m]
    BY <2>3, <1>a
  <2>5. \A g \in Grants : Total(Forwarded', MetersOf(g)) <= spent'[g] /\ spent'[g] <= Issued[g]
    BY <2>1, <2>4, AccountCovers
  <2>6. \A m \in Meters : m[2] > life + 1 => worker.meters[m] = 0
    BY <1>b, <1>d
  <2>7. DOMAIN observed' = {}
    BY <2>1, <2>2, <1>e
  <2> QED BY <2>1, <2>4, <2>5, <2>6, <2>7 DEF Process
<1>11. ASSUME process' = process, worker'.meters = worker.meters PROVE Process'
  <2>1. mode' = mode /\ life' = life /\ measured' = measured /\ observed' = observed /\ spent' = spent
    BY <1>11
  <2> QED BY <1>2, <1>11, <1>c, <2>1 DEF Process, Zero, Nothing
<1>12. CASE Pull
  <2>1. worker \in Spools
    BY <1>0 DEF Shape
  <2>2. worker'.meters = worker.meters
    BY <1>12, <2>1, PullStep DEF Spools
  <2> QED BY <1>11, <1>12, <2>2 DEF Pull
<1>13. ASSUME NEW s \in acks, HandleAck(s) PROVE Process'
  <2>1. worker'.meters = worker.meters
    BY <1>13, HandleAckStep DEF Acknowledged
  <2> QED BY <1>11, <1>13, <2>1 DEF HandleAck
<1>14. CASE \/ Store \/ StoreRefused \/ PostAck \/ PullBroken \/ ReadPending \/ Send \/ TakeReceipt
            \/ StreamBroken \/ AgentCrash \/ \E b \in requests : Ingest(b) \/ RequestLost(b)
  <2>1. process' = process /\ worker' = worker
    BY <1>14 DEF Store, StoreRefused, PostAck, PullBroken, ReadPending, Send, TakeReceipt, StreamBroken,
                 AgentCrash, Ingest, RequestLost
  <2> QED BY <1>11, <2>1
<1> QED BY <1>1, <1>3, <1>4, <1>6, <1>7, <1>8, <1>9, <1>10, <1>12, <1>13, <1>14 DEF Next

\* appendUsage does not touch what is frozen.
LEMMA AppendedFrozen ==
    ASSUME NEW spool \in Spools, NEW points, NEW n, Appended(spool, points, n),
           NEW s \in DOMAIN spool.batch, s <= spool.exposed
    PROVE  s \in DOMAIN n.batch /\ n.batch[s] = spool.batch[s]
<1>1. n \in Spools /\ s \in DOMAIN n.batch
  BY DEF Appended
<1>2. n.batch[s] \in PointMaps /\ spool.batch[s] \in PointMaps /\ s \in Nat /\ spool.exposed \in Nat
  BY <1>1, SpoolFacts
<1>3. PICK p \in PointMaps : p = spool.batch[s]
  BY <1>2
<1>4. PICK q \in PointMaps : q = n.batch[s]
  BY <1>2
<1>5. \A m \in DOMAIN points : n.index[m] # s
  BY <1>2 DEF Appended
<1>6. \A m : m \in DOMAIN q <=> m \in DOMAIN p
  BY <1>1, <1>3, <1>4, <1>5 DEF Appended
<1>7. \A m \in DOMAIN q : q[m] = p[m]
  BY <1>1, <1>3, <1>4, <1>5 DEF Appended
<1>8. q \in [DOMAIN q -> Nat] /\ p \in [DOMAIN p -> Nat]
  BY PointFacts
<1>9. q = p
  BY <1>6, <1>7, <1>8
<1> QED BY <1>1, <1>3, <1>4, <1>9

\* One batch of the worker at a time is under way to the agent, which has it
\* before it says so.
LEMMA PullingNext ==
    ASSUME Inv, Next
    PROVE  Pulling'
<1> USE DEF process, reporting
<1>0. Shape /\ Pulling /\ SpoolGood(worker) /\ worker \in Spools /\ agent \in Spools
  BY DEF Inv, Shape
<1>a. /\ worker.sequence \in Nat /\ worker.exposed \in Nat /\ worker.durable \in Nat
      /\ worker.durable <= worker.exposed /\ worker.exposed <= worker.sequence
      /\ DOMAIN worker.batch = worker.durable + 1 .. worker.sequence
  BY <1>0, SpoolFacts DEF SpoolGood, SpoolSound
<1>b. \A m \in Meters :
        /\ agent.meters[m] \in Nat /\ worker.meters[m] \in Nat /\ worker.index[m] \in Nat
        /\ agent.meters[m] <= worker.meters[m]
        /\ worker.index[m] <= worker.durable => agent.meters[m] = worker.meters[m]
  BY <1>0, SpoolFacts DEF Pulling
<1>c. \A s \in DOMAIN worker.batch :
        /\ s \in Nat /\ DOMAIN worker.batch[s] \subseteq Meters
        /\ \A m \in DOMAIN worker.batch[s] :
             /\ worker.batch[s][m] \in Nat /\ agent.meters[m] <= worker.batch[s][m]
             /\ s <= worker.index[m] /\ worker.batch[s][m] <= worker.meters[m]
  BY <1>0, SpoolFacts DEF SpoolGood, Ordered, Pulling
<1>d. pulled # None =>
        /\ pulled.seq \in {worker.durable, worker.durable + 1} /\ pulled.seq <= worker.exposed
        /\ pulled.seq = worker.durable + 1 => pulled.points = worker.batch[pulled.seq]
        /\ pulled.step # "store" \/ pulled.seq = worker.durable => Taken(pulled.points)
        /\ \A s \in acks : s <= pulled.seq
  BY <1>0 DEF Pulling
<1>e. \A s \in acks : /\ s \in Nat /\ s <= worker.durable + 1 /\ s <= worker.exposed
                      /\ s = worker.durable + 1 => Taken(worker.batch[s])
  BY <1>0 DEF Pulling, Shape
<1>1. ASSUME worker' = worker, agent'.meters = agent.meters, acks' \subseteq acks, pulled' \in {None, pulled}
      PROVE  Pulling'
  <2>1. \A p : Taken(p) => \A m \in DOMAIN p : p[m] = agent'.meters[m]
    BY <1>1 DEF Taken
  <2>2. pulled' # None => pulled' = pulled /\ pulled # None
    BY <1>1
  <2> QED BY <1>0, <1>1, <1>b, <1>c, <1>d, <1>e, <2>1, <2>2 DEF Pulling, Taken
<1>2. CASE Collect
  <2>1. PICK points \in PointMaps : /\ \A m \in DOMAIN points : points[m] >= worker.meters[m]
                                    /\ Appended(worker, points, worker') /\ worker' \in Spools
    BY <1>2, CollectStep
  <2>2. agent' = agent /\ pulled' = pulled /\ acks' = acks
    BY <1>2 DEF Collect
  <2>3. worker'.durable = worker.durable /\ worker'.exposed = worker.exposed
    BY <2>1 DEF Appended
  <2>4. DOMAIN points \subseteq Meters /\ \A m \in DOMAIN points : points[m] \in Nat
    BY PointsFinite
  <2>5. ASSUME NEW m \in Meters
        PROVE  /\ agent.meters[m] <= worker'.meters[m]
               /\ worker'.index[m] <= worker.durable => agent.meters[m] = worker'.meters[m]
    <3>1. CASE m \in DOMAIN points
      <4>1. worker'.meters[m] = points[m] /\ worker'.index[m] > worker.exposed /\ worker'.index[m] \in Nat
        BY <3>1, <2>1, <2>4, SpoolFacts DEF Appended
      <4> QED BY <4>1, <3>1, <2>1, <2>4, <1>a, <1>b
    <3>2. CASE m \notin DOMAIN points
      BY <3>2, <2>1, <1>b DEF Appended, Fresh
    <3> QED BY <3>1, <3>2
  <2>6. ASSUME NEW s \in DOMAIN worker'.batch, NEW m \in DOMAIN worker'.batch[s]
        PROVE  agent.meters[m] <= worker'.batch[s][m]
    <3>1. CASE m \in DOMAIN points /\ worker'.index[m] = s
      <4>1. worker'.batch[s][m] = points[m]
        BY <3>1, <2>1 DEF Appended
      <4> QED BY <4>1, <3>1, <2>1, <2>4, <1>b
    <3>2. CASE ~(m \in DOMAIN points /\ worker'.index[m] = s)
      <4>1. s \in DOMAIN worker.batch /\ m \in DOMAIN worker.batch[s] /\ worker'.batch[s][m] = worker.batch[s][m]
        BY <3>2, <2>1 DEF Appended
      <4> QED BY <4>1, <1>c
    <3> QED BY <3>1, <3>2
  <2>7. ASSUME worker.durable + 1 <= worker.exposed
        PROVE  worker'.batch[worker.durable + 1] = worker.batch[worker.durable + 1]
    <3>1. worker.durable + 1 \in DOMAIN worker.batch
      BY <2>7, <1>a
    <3> QED BY <3>1, <2>1, <2>7, <1>0, AppendedFrozen
  <2>8. pulled # None /\ pulled.seq = worker.durable + 1 => pulled.points = worker'.batch[pulled.seq]
    BY <2>7, <1>d
  <2>9. \A s \in acks : s = worker.durable + 1 => Taken(worker'.batch[s])
    BY <2>7, <1>e
  <2>10. \A p : Taken(p) => \A m \in DOMAIN p : p[m] = agent'.meters[m]
    BY <2>2 DEF Taken
  <2> QED BY <2>2, <2>3, <2>5, <2>6, <2>8, <2>9, <2>10, <1>d, <1>e DEF Pulling, Taken
<1>3. CASE Pull
  <2>1. /\ pulled' = [step |-> "store", seq |-> worker.durable + 1, points |-> worker.batch[worker.durable + 1]]
        /\ worker' = [worker EXCEPT !.exposed = worker'.exposed]
        /\ worker' \in Spools /\ worker.exposed <= worker'.exposed /\ worker.durable + 1 <= worker'.exposed
    BY <1>3, PullStep
  <2>2. agent' = agent /\ acks' = acks
    BY <1>3 DEF Pull
  <2>3. /\ worker'.durable = worker.durable /\ worker'.batch = worker.batch /\ worker'.meters = worker.meters
        /\ worker'.index = worker.index /\ worker'.exposed \in Nat
    BY <1>0, <2>1 DEF Spools
  <2>4. \A s \in acks : s <= worker'.exposed
    BY <2>1, <2>3, <1>a, <1>e
  <2>5. pulled'.seq = worker.durable + 1 /\ pulled'.points = worker.batch[worker.durable + 1] /\ pulled'.step = "store"
    BY <2>1
  <2>6. worker.durable + 1 # worker.durable
    BY <1>a
  <2>7. \A p : Taken(p) => \A m \in DOMAIN p : p[m] = agent'.meters[m]
    BY <2>2 DEF Taken
  <2> QED BY <2>1, <2>2, <2>3, <2>4, <2>5, <2>6, <2>7, <1>b, <1>c, <1>e DEF Pulling, Taken
<1>4. CASE Store
  <2>1. /\ pulled.points \in PointMaps /\ Appended(agent, pulled.points, agent')
        /\ pulled' = [step |-> "ack", seq |-> pulled.seq, points |-> pulled.points]
        /\ agent' \in Spools
    BY <1>4, StoreStep
  <2>2. worker' = worker /\ acks' = acks /\ pulled # None
    BY <1>4 DEF Store
  <2>3. PICK p \in PointMaps : p = pulled.points
    BY <2>1
  <2>4. DOMAIN p \subseteq Meters /\ \A m \in DOMAIN p : p[m] \in Nat
    BY PointsFinite
  <2>5. \A m \in Meters : agent'.meters[m] = IF m \in DOMAIN p THEN p[m] ELSE agent.meters[m]
    BY <2>1, <2>3 DEF Appended
  <2>6. pulled.seq \in {worker.durable, worker.durable + 1} /\ pulled.seq <= worker.exposed
    BY <2>2, <1>d
  <2>7. CASE pulled.seq = worker.durable + 1
    <3>1. pulled.seq \in DOMAIN worker.batch /\ p = worker.batch[pulled.seq]
      BY <2>2, <2>3, <2>6, <2>7, <1>a, <1>d
    <3>2. ASSUME NEW m \in Meters
          PROVE  /\ agent'.meters[m] <= worker.meters[m]
                 /\ worker.index[m] <= worker.durable => agent'.meters[m] = worker.meters[m]
      <4>1. CASE m \in DOMAIN p
        <5>1. agent'.meters[m] = p[m] /\ p[m] <= worker.meters[m] /\ pulled.seq <= worker.index[m]
          BY <4>1, <3>1, <2>5, <1>c
        <5> QED BY <5>1, <2>7, <1>a, <1>b
      <4>2. CASE m \notin DOMAIN p
        BY <4>2, <2>5, <1>b
      <4> QED BY <4>1, <4>2
    <3>3. ASSUME NEW s \in DOMAIN worker.batch, NEW m \in DOMAIN worker.batch[s]
          PROVE  agent'.meters[m] <= worker.batch[s][m]
      <4>0. m \in Meters
        BY <1>c
      <4>1. CASE m \in DOMAIN p /\ s # pulled.seq
        <5>1. pulled.seq < s
          BY <4>1, <2>7, <1>a
        <5>2. worker.batch[pulled.seq][m] <= worker.batch[s][m]
          BY <5>1, <4>1, <3>1, <1>0 DEF SpoolGood, Ordered
        <5> QED BY <5>2, <4>0, <4>1, <3>1, <2>5
      <4>2. CASE m \in DOMAIN p /\ s = pulled.seq
        BY <4>0, <4>2, <3>1, <2>4, <2>5
      <4>3. CASE m \notin DOMAIN p
        BY <4>0, <4>3, <2>5, <1>c
      <4> QED BY <4>1, <4>2, <4>3
    <3>4. \A m \in DOMAIN p : p[m] = agent'.meters[m]
      BY <2>4, <2>5
    <3>5. \A s \in acks : s = worker.durable + 1 => \A m \in DOMAIN worker.batch[s] : worker.batch[s][m] = agent'.meters[m]
      BY <3>1, <3>4, <2>7
    <3>6. pulled'.seq = pulled.seq /\ pulled'.points = p
      BY <2>1, <2>3
    <3> QED BY <2>2, <2>6, <3>1, <3>2, <3>3, <3>4, <3>5, <3>6, <1>d, <1>e DEF Pulling, Taken
  <2>8. CASE pulled.seq = worker.durable
    <3>1. \A m \in DOMAIN p : p[m] = agent.meters[m]
      BY <2>2, <2>3, <2>8, <1>d DEF Taken
    <3>2. \A m \in Meters : agent'.meters[m] = agent.meters[m]
      BY <3>1, <2>5
    <3>3. \A m \in DOMAIN p : p[m] = agent'.meters[m]
      BY <2>4, <2>5
    <3>4. \A s \in acks : s # worker.durable + 1
      BY <2>2, <2>8, <1>a, <1>d, <1>e
    <3>5. pulled'.seq = pulled.seq /\ pulled'.points = p
      BY <2>1, <2>3
    <3>6. \A s \in DOMAIN worker.batch : \A m \in DOMAIN worker.batch[s] : agent'.meters[m] <= worker.batch[s][m]
      BY <3>2, <1>c
    <3>7. worker.durable # worker.durable + 1
      BY <1>a
    <3> QED BY <2>2, <2>6, <2>8, <3>2, <3>3, <3>4, <3>5, <3>6, <3>7, <1>b, <1>d, <1>e DEF Pulling, Taken
  <2> QED BY <2>6, <2>7, <2>8
<1>5. CASE PostAck
  <2>1. CASE pulled' = None /\ UNCHANGED acks
    <3>1. worker' = worker /\ agent' = agent
      BY <1>5 DEF PostAck
    <3> QED BY <2>1, <3>1, <1>1
  <2>2. CASE acks' = acks \cup {pulled.seq} /\ pulled' = [pulled EXCEPT !.step = "posted"]
    <3>1. pulled # None /\ pulled.step = "ack" /\ worker' = worker /\ agent' = agent
      BY <1>5 DEF PostAck
    <3>2. pulled'.seq = pulled.seq /\ pulled'.points = pulled.points
      BY <2>2, <3>1, <1>0 DEF Shape
    <3>3. Taken(pulled.points) /\ \A m \in DOMAIN pulled.points : pulled.points[m] = agent'.meters[m]
      BY <3>1, <1>d DEF Taken
    <3>4. /\ pulled.seq \in Nat /\ pulled.seq <= worker.durable + 1 /\ pulled.seq <= worker.exposed
          /\ pulled.seq = worker.durable + 1 => Taken(worker.batch[pulled.seq])
      BY <3>1, <3>3, <1>a, <1>d
    <3>5. \A s \in acks' : s <= pulled.seq /\ s <= worker.durable + 1 /\ s <= worker.exposed
      BY <2>2, <3>1, <3>4, <1>d, <1>e
    <3>6. \A s \in acks' : s = worker.durable + 1 => Taken(worker.batch[s])
      BY <2>2, <3>4, <1>e
    <3>7. \A p : Taken(p) => \A m \in DOMAIN p : p[m] = agent'.meters[m]
      BY <3>1 DEF Taken
    <3> QED BY <3>1, <3>2, <3>3, <3>5, <3>6, <3>7, <1>b, <1>c, <1>d DEF Pulling, Taken
  <2> QED BY <1>5, <2>1, <2>2 DEF PostAck
<1>6. ASSUME NEW s \in acks, HandleAck(s) PROVE Pulling'
  <2>1. /\ s \in Nat /\ worker' \in Spools
        /\ Acknowledged(worker, IF s >= worker.durable THEN s ELSE worker.durable, worker')
    BY <1>6, HandleAckStep
  <2>2. agent' = agent /\ acks' = acks \ {s} /\ pulled' \in {None, pulled}
    BY <1>6 DEF HandleAck
  <2>3. /\ worker'.exposed = worker.exposed /\ worker'.meters = worker.meters /\ worker'.index = worker.index
        /\ DOMAIN worker'.batch \subseteq DOMAIN worker.batch
        /\ \A t \in DOMAIN worker'.batch : worker'.batch[t] = worker.batch[t] /\ t > worker'.durable
        /\ worker'.durable = IF s >= worker.durable THEN s ELSE worker.durable
        /\ \A t \in DOMAIN worker.batch : t > worker'.durable => t \in DOMAIN worker'.batch
    BY <2>1 DEF Acknowledged
  <2>4. s <= worker.durable + 1 /\ s <= worker.exposed
    BY <1>e
  <2>5. \A t \in DOMAIN worker'.batch : \A m \in DOMAIN worker'.batch[t] : agent.meters[m] <= worker'.batch[t][m]
    BY <2>3, <1>c
  <2>6. CASE s = worker.durable + 1
    <3>1. worker'.durable = worker.durable + 1
      BY <2>3, <2>6, <1>a
    <3>2. s \in DOMAIN worker.batch
      BY <2>4, <2>6, <1>a
    <3>3. \A m \in DOMAIN worker.batch[s] : worker.batch[s][m] = agent.meters[m]
      BY <2>6, <1>e DEF Taken
    <3>4. ASSUME NEW m \in Meters, worker.index[m] <= worker.durable + 1
          PROVE  agent.meters[m] = worker.meters[m]
      <4>1. CASE worker.index[m] <= worker.durable
        BY <4>1, <1>b
      <4>2. CASE worker.index[m] = s
        <5>1. worker.index[m] > worker.durable
          BY <4>2, <2>6, <1>a
        <5>2. m \in DOMAIN worker.batch[s] /\ worker.batch[s][m] = worker.meters[m]
          BY <5>1, <4>2, <1>0 DEF SpoolGood, SpoolSound
        <5> QED BY <5>2, <3>3
      <4> QED BY <4>1, <4>2, <3>4, <2>6, <1>a, <1>b
    <3>5. ASSUME pulled # None PROVE pulled.seq = s /\ Taken(pulled.points)
      <4>1. pulled.seq = s
        BY <3>5, <2>1, <2>6, <1>a, <1>d
      <4> QED BY <4>1, <3>3, <3>5, <2>6, <1>d DEF Taken
    <3>6. \A t \in acks : t <= worker.durable + 1 /\ t # worker.durable + 1 + 1 /\ t <= worker.durable + 1 + 1
      BY <1>a, <1>e
    <3>7. worker.durable + 1 # worker.durable + 1 + 1
      BY <1>a
    <3>8. \A p : Taken(p) => \A m \in DOMAIN p : p[m] = agent'.meters[m]
      BY <2>2 DEF Taken
    <3>9. \A m \in Meters : /\ agent'.meters[m] <= worker'.meters[m]
                            /\ worker'.index[m] <= worker'.durable => agent'.meters[m] = worker'.meters[m]
      BY <2>2, <2>3, <3>1, <3>4, <1>b
    <3>10. pulled' # None =>
             /\ pulled'.seq = worker'.durable /\ pulled'.seq <= worker'.exposed
             /\ \A m \in DOMAIN pulled'.points : pulled'.points[m] = agent'.meters[m]
             /\ \A t \in acks' : t <= pulled'.seq
      BY <2>2, <2>3, <2>4, <2>6, <3>1, <3>5, <3>6, <3>8
    <3>11. \A t \in acks' : t <= worker'.durable + 1 /\ t <= worker'.exposed /\ t # worker'.durable + 1
      BY <2>2, <2>3, <3>1, <3>6, <1>e
    <3> QED BY <2>2, <2>5, <3>1, <3>7, <3>9, <3>10, <3>11 DEF Pulling, Taken
  <2>7. CASE s <= worker.durable
    <3>1. worker'.durable = worker.durable
      BY <2>1, <2>3, <2>7, <1>a
    <3>2. \A t \in DOMAIN worker.batch : worker'.batch[t] = worker.batch[t]
      BY <2>3, <3>1, <1>a
    <3>3. worker.durable + 1 <= worker.exposed => worker'.batch[worker.durable + 1] = worker.batch[worker.durable + 1]
      BY <3>2, <1>a
    <3>4. \A p : Taken(p) => \A m \in DOMAIN p : p[m] = agent'.meters[m]
      BY <2>2 DEF Taken
    <3>5. pulled' # None => pulled' = pulled /\ pulled # None
      BY <2>2
    <3>6. \A t \in acks' : t \in acks
      BY <2>2
    <3>7. \A t \in acks' : t = worker.durable + 1 => Taken(worker'.batch[t])
      BY <3>3, <3>6, <1>e
    <3>8. pulled # None /\ pulled.seq = worker.durable + 1 => pulled.points = worker'.batch[pulled.seq]
      BY <3>3, <1>d
    <3> QED BY <2>2, <2>3, <2>5, <3>1, <3>4, <3>5, <3>6, <3>7, <3>8, <1>b, <1>d, <1>e DEF Pulling, Taken
  <2> QED BY <2>1, <2>4, <2>6, <2>7, <1>a
<1>7. CASE ReadPending
  <2>1. agent'.meters = agent.meters
    BY <1>0, <1>7, ReadPendingStep DEF Spools
  <2> QED BY <1>1, <1>7, <2>1 DEF ReadPending
<1>8. CASE TakeReceipt
  <2>1. agent'.meters = agent.meters
    BY <1>8, TakeReceiptStep DEF Acknowledged
  <2> QED BY <1>1, <1>8, <2>1 DEF TakeReceipt
<1>9. CASE CollectRefused \/ ShutdownDone \/ WorkerCrash
  BY <1>1, <1>9 DEF CollectRefused, ShutdownDone, WorkerCrash, Exit
<1>10. CASE \/ (\E g \in Grants : Measure(g)) \/ Observe \/ Shutdown \/ WorkerStart \/ StoreRefused \/ PullBroken
            \/ Send \/ StreamBroken \/ AgentCrash \/ \E b \in requests : Ingest(b) \/ RequestLost(b)
  <2>1. worker' = worker /\ agent' = agent /\ acks' = acks /\ pulled' \in {None, pulled}
    BY <1>10 DEF Measure, Observe, Shutdown, WorkerStart, StoreRefused, PullBroken, Send, StreamBroken,
                 AgentCrash, Ingest, RequestLost
  <2> QED BY <1>1, <2>1
<1> QED BY <1>2, <1>3, <1>4, <1>5, <1>6, <1>7, <1>8, <1>9, <1>10 DEF Next

\* One batch of the agent at a time is under way to the master, which has it
\* before it says so.
LEMMA ReportingNext ==
    ASSUME Inv, Next
    PROVE  Reporting'
<1> USE DEF process, reporting
<1>0. Shape /\ Reporting /\ SpoolGood(agent) /\ agent \in Spools /\ requests \in SUBSET Messages
      /\ sending \in Seq(Messages)
  BY DEF Inv, Shape
<1>a. /\ agent.sequence \in Nat /\ agent.exposed \in Nat /\ agent.durable \in Nat
      /\ agent.durable <= agent.exposed /\ agent.exposed <= agent.sequence
      /\ DOMAIN agent.batch = agent.durable + 1 .. agent.sequence
  BY <1>0, SpoolFacts DEF SpoolGood, SpoolSound
<1>b. /\ ledger.cursor \in Nat /\ agent.durable <= ledger.cursor /\ ledger.cursor <= agent.durable + 1
      /\ ledger.cursor <= agent.exposed
      /\ ledger.cursor = agent.durable + 1 => ledger.digest = agent.batch[ledger.cursor]
  BY <1>0 DEF Shape, Reporting
<1>c. \A m \in Meters :
        /\ agent.meters[m] \in Nat /\ ledger.meters[m] \in Nat /\ agent.index[m] \in Nat
        /\ ledger.meters[m] <= agent.meters[m]
        /\ agent.index[m] <= ledger.cursor => ledger.meters[m] = agent.meters[m]
  BY <1>0, ForwardedFacts, SpoolFacts DEF Reporting
<1>d. \A s \in DOMAIN agent.batch :
        /\ s \in Nat /\ DOMAIN agent.batch[s] \subseteq Meters
        /\ \A m \in DOMAIN agent.batch[s] :
             /\ agent.batch[s][m] \in Nat /\ s <= agent.index[m] /\ agent.batch[s][m] <= agent.meters[m]
             /\ s > ledger.cursor => ledger.meters[m] <= agent.batch[s][m]
  BY <1>0, SpoolFacts DEF SpoolGood, Ordered, Reporting
<1>e. /\ Len(sending) \in Nat
      /\ \A i \in 1 .. Len(sending) :
           /\ sending[i].seq = agent.durable + i /\ sending[i].seq <= agent.exposed
           /\ sending[i].points = agent.batch[sending[i].seq] /\ sending[i].live
  BY <1>0, LenProperties DEF Reporting
<1>f. \A b \in requests :
        /\ b.seq \in Nat /\ b.seq <= agent.durable + 1 /\ b.seq <= agent.exposed
        /\ b.seq = agent.durable + 1 => b.points = agent.batch[b.seq]
        /\ b.seq = ledger.cursor => b.points = ledger.digest
        /\ b.live => sending # <<>> /\ b = sending[1] /\ receipt = Awaited
  BY <1>0 DEF Reporting, Messages
<1>g. receipt \in Receipts \ {None, Awaited} =>
        /\ receipt.durable = ledger.cursor /\ receipt.accounted = ledger.cursor
        /\ ledger.cursor = agent.durable + 1 /\ sending # <<>>
  BY <1>0 DEF Reporting
<1>h. sending # <<>> => Len(sending) >= 1 /\ 1 \in 1 .. Len(sending)
  BY <1>0, <1>e, EmptySeq, LenProperties
<1>1. ASSUME agent' = agent, reporting' = reporting PROVE Reporting'
  <2>1. sending' = sending /\ requests' = requests /\ receipt' = receipt /\ ledger' = ledger
    BY <1>1
  <2> QED BY <1>0, <1>1, <2>1 DEF Reporting, Receipts
<1>2. CASE Store
  <2>1. PICK points \in PointMaps : /\ \A m \in DOMAIN points : points[m] >= agent.meters[m]
                                    /\ Appended(agent, points, agent') /\ agent' \in Spools
    BY <1>2, StoreStep
  <2>2. sending' = sending /\ requests' = requests /\ receipt' = receipt /\ ledger' = ledger
    BY <1>2 DEF Store
  <2>3. agent'.durable = agent.durable /\ agent'.exposed = agent.exposed
    BY <2>1 DEF Appended
  <2>4. DOMAIN points \subseteq Meters /\ \A m \in DOMAIN points : points[m] \in Nat
    BY PointsFinite
  <2>5. ASSUME NEW m \in Meters
        PROVE  /\ ledger.meters[m] <= agent'.meters[m]
               /\ agent'.index[m] <= ledger.cursor => ledger.meters[m] = agent'.meters[m]
    <3>1. CASE m \in DOMAIN points
      <4>1. agent'.meters[m] = points[m] /\ agent'.index[m] > agent.exposed /\ agent'.index[m] \in Nat
        BY <3>1, <2>1, <2>4, SpoolFacts DEF Appended
      <4> QED BY <4>1, <3>1, <2>1, <2>4, <1>a, <1>b, <1>c
    <3>2. CASE m \notin DOMAIN points
      BY <3>2, <2>1, <1>c DEF Appended, Fresh
    <3> QED BY <3>1, <3>2
  <2>6. ASSUME NEW s \in DOMAIN agent'.batch, NEW m \in DOMAIN agent'.batch[s], s > ledger.cursor
        PROVE  ledger.meters[m] <= agent'.batch[s][m]
    <3>1. CASE m \in DOMAIN points /\ agent'.index[m] = s
      <4>1. agent'.batch[s][m] = points[m]
        BY <3>1, <2>1 DEF Appended
      <4> QED BY <4>1, <3>1, <2>1, <2>4, <1>c
    <3>2. CASE ~(m \in DOMAIN points /\ agent'.index[m] = s)
      <4>1. s \in DOMAIN agent.batch /\ m \in DOMAIN agent.batch[s] /\ agent'.batch[s][m] = agent.batch[s][m]
        BY <3>2, <2>1 DEF Appended
      <4> QED BY <4>1, <2>6, <1>d
    <3> QED BY <3>1, <3>2
  <2>7. ASSUME NEW s \in Nat, agent.durable < s, s <= agent.exposed
        PROVE  agent'.batch[s] = agent.batch[s]
    <3>1. s \in DOMAIN agent.batch
      BY <2>7, <1>a
    <3> QED BY <3>1, <2>1, <2>7, <1>0, AppendedFrozen
  <2>8. ledger.cursor = agent.durable + 1 => ledger.digest = agent'.batch[ledger.cursor]
    BY <2>7, <1>a, <1>b
  <2>9. \A i \in 1 .. Len(sending) : sending[i].points = agent'.batch[sending[i].seq]
    <3>1. \A i \in 1 .. Len(sending) : sending[i].seq \in Nat /\ agent.durable < sending[i].seq
      BY <1>a, <1>e
    <3> QED BY <3>1, <2>7, <1>e
  <2>10. \A b \in requests : b.seq = agent.durable + 1 => b.points = agent'.batch[b.seq]
    BY <2>7, <1>a, <1>f
  <2> QED BY <2>2, <2>3, <2>5, <2>6, <2>8, <2>9, <2>10, <1>b, <1>e, <1>f, <1>g DEF Reporting, Receipts
<1>3. CASE ReadPending
  <2>1. /\ \A i \in 1 .. Len(sending') :
             /\ sending'[i] = Message(agent.durable + i, agent.batch[agent.durable + i])
             /\ agent.durable + i <= agent'.exposed
        /\ agent' \in Spools /\ agent' = [agent EXCEPT !.exposed = agent'.exposed]
        /\ agent.exposed <= agent'.exposed
    BY <1>3, ReadPendingStep
  <2>2. requests' = requests /\ receipt' = None /\ ledger' = ledger /\ sending = <<>>
    BY <1>3 DEF ReadPending
  <2>3. /\ agent'.durable = agent.durable /\ agent'.batch = agent.batch /\ agent'.meters = agent.meters
        /\ agent'.index = agent.index /\ agent'.exposed \in Nat
    BY <1>0, <2>1 DEF Spools
  <2>4. \A i \in 1 .. Len(sending') : /\ sending'[i].seq = agent.durable + i
                                      /\ sending'[i].points = agent.batch[agent.durable + i] /\ sending'[i].live
    <3> SUFFICES ASSUME NEW i \in 1 .. Len(sending')
                 PROVE  /\ sending'[i].seq = agent.durable + i
                        /\ sending'[i].points = agent.batch[agent.durable + i] /\ sending'[i].live
      OBVIOUS
    <3>1. sending'[i] = Message(agent.durable + i, agent.batch[agent.durable + i])
      BY <2>1
    <3>2. PICK q : q = agent.batch[agent.durable + i]
      OBVIOUS
    <3>3. PICK r : r = sending'[i]
      OBVIOUS
    <3>4. r = [seq |-> agent.durable + i, points |-> q, live |-> TRUE]
      BY <3>1, <3>2, <3>3 DEF Message
    <3>5. r.seq = agent.durable + i /\ r.points = q
      BY <3>4
    <3>6. r.live
      BY <3>4
    <3> QED BY <3>2, <3>3, <3>5, <3>6
  <2>5. \A b \in requests : ~b.live /\ b.seq <= agent'.exposed
    BY <2>1, <2>2, <2>3, <1>a, <1>f
  <2>6. ledger.cursor <= agent'.exposed
    BY <2>1, <2>3, <1>a, <1>b
  <2>7. \A s \in DOMAIN agent.batch : s > ledger.cursor =>
          \A m \in DOMAIN agent.batch[s] : ledger.meters[m] <= agent.batch[s][m]
    BY <1>d
  <2> QED BY <2>1, <2>2, <2>3, <2>4, <2>5, <2>6, <2>7, <1>b, <1>c, <1>f DEF Reporting
<1>4. CASE Send
  <2>1. /\ sending # <<>> /\ receipt = None /\ requests' = requests \cup {sending[1]} /\ receipt' = Awaited
        /\ agent' = agent /\ sending' = sending /\ ledger' = ledger
    BY <1>4 DEF Send
  <2>2. /\ sending[1].seq = agent.durable + 1 /\ sending[1].seq <= agent.exposed
        /\ sending[1].points = agent.batch[sending[1].seq]
    BY <2>1, <1>e, <1>h
  <2>3. sending[1].seq = ledger.cursor => sending[1].points = ledger.digest
    BY <2>2, <1>b
  <2>4. \A b \in requests' :
        /\ b.seq <= agent.durable + 1 /\ b.seq <= agent.exposed
        /\ b.seq = agent.durable + 1 => b.points = agent.batch[b.seq]
        /\ b.seq = ledger.cursor => b.points = ledger.digest
        /\ b.live => sending # <<>> /\ b = sending[1]
    BY <2>1, <2>2, <2>3, <1>a, <1>f
  <2> QED BY <2>1, <2>4, <1>b, <1>c, <1>d, <1>e DEF Reporting
<1>5. ASSUME NEW b \in requests, Ingest(b) PROVE Reporting'
  <2>1. IngestAllowed(b) /\ b \in Messages
    BY IngestFacts
  <2>2. /\ ledger' = LedgerAfter(b) /\ sending' = sending /\ agent' = agent /\ requests' = requests \ {b}
        /\ receipt' = IF b.live THEN [durable |-> ledger'.cursor, accounted |-> ledger'.cursor] ELSE receipt
    BY <1>5, <2>1 DEF Ingest
  <2>3. CASE IsReplay(b)
    <3>1. ledger' = ledger
      BY <2>2, <2>3 DEF LedgerAfter
    <3>2. ASSUME b.live PROVE ledger.cursor = agent.durable + 1 /\ sending # <<>>
      <4>1. b.seq = agent.durable + 1 /\ sending # <<>>
        BY <3>2, <1>e, <1>f, <1>h
      <4> QED BY <4>1, <2>3, <1>a, <1>b DEF IsReplay
    <3>3. receipt' \in Receipts \ {None, Awaited} =>
            /\ receipt'.durable = ledger.cursor /\ receipt'.accounted = ledger.cursor
            /\ ledger.cursor = agent.durable + 1 /\ sending # <<>>
      BY <2>2, <3>1, <3>2, <1>g
    <3>4. \A r \in requests \ {b} : r.live => sending # <<>> /\ r = sending[1] /\ receipt' = Awaited
      BY <2>2, <1>f
    <3> QED BY <2>2, <3>1, <3>3, <3>4, <1>b, <1>c, <1>d, <1>e, <1>f DEF Reporting, Receipts
  <2>4. CASE ~IsReplay(b)
    <3>1. /\ b.seq = ledger.cursor + 1 /\ ledger.cursor = agent.durable
          /\ b.seq \in DOMAIN agent.batch /\ b.points = agent.batch[b.seq]
      BY <2>4, IngestFacts DEF NextOne
    <3>2. /\ ledger'.cursor = b.seq /\ ledger'.digest = b.points
          /\ \A m \in Meters : ledger'.meters[m] = IF m \in DOMAIN b.points THEN b.points[m] ELSE ledger.meters[m]
      BY <2>2, <2>4, IngestFacts
    <3>3. b.seq = agent.durable + 1 /\ b.seq <= agent.exposed
      BY <3>1, <1>f
    <3>4. ASSUME NEW m \in Meters
          PROVE  /\ ledger'.meters[m] <= agent.meters[m]
                 /\ agent.index[m] <= b.seq => ledger'.meters[m] = agent.meters[m]
      <4>1. CASE m \in DOMAIN b.points
        <5>1. ledger'.meters[m] = agent.batch[b.seq][m] /\ b.seq <= agent.index[m]
              /\ agent.batch[b.seq][m] <= agent.meters[m]
          BY <4>1, <3>1, <3>2, <1>d
        <5>2. ASSUME agent.index[m] <= b.seq PROVE agent.batch[b.seq][m] = agent.meters[m]
          <6>1. agent.index[m] = b.seq /\ agent.index[m] > agent.durable
            BY <5>1, <5>2, <3>3, <1>a, <1>c
          <6> QED BY <6>1, <1>0 DEF SpoolGood, SpoolSound
        <5> QED BY <5>1, <5>2
      <4>2. CASE m \notin DOMAIN b.points
        <5>1. ledger'.meters[m] = ledger.meters[m]
          BY <4>2, <3>2
        <5>2. ASSUME agent.index[m] <= b.seq PROVE agent.index[m] <= ledger.cursor
          <6>1. agent.index[m] # b.seq
            <7>1. agent.index[m] = b.seq => agent.index[m] > agent.durable
              BY <3>3, <1>a, <1>c
            <7>2. agent.index[m] = b.seq => m \in DOMAIN agent.batch[b.seq]
              BY <7>1, <1>0 DEF SpoolGood, SpoolSound
            <7> QED BY <7>2, <4>2, <3>1
          <6> QED BY <6>1, <5>2, <3>1, <1>b, <1>c
        <5> QED BY <5>1, <5>2, <1>c
      <4> QED BY <4>1, <4>2
    <3>5. ASSUME NEW s \in DOMAIN agent.batch, s > b.seq, NEW m \in DOMAIN agent.batch[s]
          PROVE  ledger'.meters[m] <= agent.batch[s][m]
      <4>0. m \in Meters /\ s \in Nat /\ s > ledger.cursor
        BY <3>1, <3>5, <1>b, <1>d
      <4>1. CASE m \in DOMAIN b.points
        <5>1. agent.batch[b.seq][m] <= agent.batch[s][m]
          BY <4>1, <3>1, <3>5, <1>0, <1>d DEF SpoolGood, Ordered
        <5> QED BY <5>1, <4>0, <4>1, <3>1, <3>2
      <4>2. CASE m \notin DOMAIN b.points
        BY <4>0, <4>2, <3>2, <1>d
      <4> QED BY <4>1, <4>2
    <3>6. \A r \in requests \ {b} :
            /\ r.seq = b.seq => r.points = b.points
            /\ r.live => sending # <<>> /\ r = sending[1] /\ receipt' = Awaited
      BY <2>2, <3>1, <3>3, <1>f
    <3>7. receipt' \in Receipts \ {None, Awaited} =>
            receipt'.durable = b.seq /\ receipt'.accounted = b.seq /\ sending # <<>>
      <4>1. CASE b.live
        BY <4>1, <2>2, <3>2, <1>f
      <4>2. CASE ~b.live
        <5>1. ledger.cursor # agent.durable + 1
          BY <3>1, <1>a
        <5> QED BY <4>2, <5>1, <2>2, <1>g
      <4> QED BY <4>1, <4>2
    <3>8. agent.durable <= b.seq /\ b.seq <= agent.durable + 1
      BY <3>3, <1>a
    <3> QED BY <2>2, <3>1, <3>2, <3>3, <3>4, <3>5, <3>6, <3>7, <3>8, <1>e, <1>f DEF Reporting, Receipts
  <2> QED BY <2>3, <2>4
<1>6. CASE TakeReceipt
  <2>1. /\ ledger.cursor = agent.durable + 1 /\ receipt \in Receipts \ {None, Awaited}
        /\ agent' \in Spools /\ Acknowledged(agent, agent.durable + 1, agent')
        /\ \A i \in 1 .. Len(sending') : i + 1 \in 1 .. Len(sending) /\ sending'[i] = sending[i + 1]
        /\ sending' \in Seq(Messages)
    BY <1>6, TakeReceiptStep
  <2>2. requests' = requests /\ ledger' = ledger /\ receipt' = None
    BY <1>6 DEF TakeReceipt
  <2>3. /\ agent'.durable = agent.durable + 1 /\ agent'.exposed = agent.exposed
        /\ agent'.meters = agent.meters /\ agent'.index = agent.index
        /\ DOMAIN agent'.batch \subseteq DOMAIN agent.batch
        /\ \A s \in DOMAIN agent'.batch : agent'.batch[s] = agent.batch[s]
        /\ \A s \in DOMAIN agent.batch : s > agent.durable + 1 => s \in DOMAIN agent'.batch
    BY <2>1 DEF Acknowledged
  <2>4. ASSUME NEW i \in 1 .. Len(sending')
        PROVE  /\ sending'[i].seq = agent'.durable + i /\ sending'[i].seq <= agent'.exposed
               /\ sending'[i].points = agent'.batch[sending'[i].seq] /\ sending'[i].live
    <3>1. i \in Nat /\ i >= 1 /\ i + 1 \in 1 .. Len(sending) /\ sending'[i] = sending[i + 1]
      BY <2>1, LenProperties
    <3>2. /\ sending'[i].seq = agent.durable + (i + 1) /\ sending'[i].seq <= agent.exposed
          /\ sending'[i].points = agent.batch[sending'[i].seq] /\ sending'[i].live
      BY <3>1, <1>e
    <3>3. sending'[i].seq \in DOMAIN agent.batch /\ sending'[i].seq > agent.durable + 1
          /\ sending'[i].seq = agent'.durable + i
      <4>1. agent.durable \in Nat /\ agent.exposed \in Nat
        BY <1>a
      <4>2. agent.durable + (i + 1) <= agent.exposed
        BY <3>2
      <4>3. ASSUME NEW d \in Nat, NEW e \in Nat, NEW q \in Nat,
                   d + (i + 1) <= e, e <= q
            PROVE  /\ d + (i + 1) > d + 1 /\ d + (i + 1) = (d + 1) + i
                   /\ d + (i + 1) \in d + 1 .. q
        BY <3>1, <4>3
      <4>4. /\ agent.durable + (i + 1) > agent.durable + 1
            /\ agent.durable + (i + 1) = (agent.durable + 1) + i
            /\ agent.durable + (i + 1) \in agent.durable + 1 .. agent.sequence
        BY <4>2, <4>3, <1>a, Zenon
      <4> QED BY <3>2, <2>3, <4>4, <1>a, Zenon
    <3> QED BY <3>2, <3>3, <2>3
  <2>5. \A b \in requests : /\ ~b.live /\ b.seq <= agent.durable + 1 + 1 /\ b.seq # agent.durable + 1 + 1
    <3>1. receipt # Awaited
      BY <2>1
    <3> QED BY <3>1, <1>a, <1>f
  <2>6. ledger.cursor # agent.durable + 1 + 1 /\ agent.durable + 1 <= ledger.cursor
        /\ ledger.cursor <= agent.durable + 1 + 1
    BY <2>1, <1>a
  <2>7. \A s \in DOMAIN agent'.batch : s > ledger.cursor =>
          \A m \in DOMAIN agent'.batch[s] : ledger.meters[m] <= agent'.batch[s][m]
    BY <2>3, <1>d
  <2> QED BY <2>2, <2>3, <2>4, <2>5, <2>6, <2>7, <1>b, <1>c, <1>f DEF Reporting
<1>7. ASSUME Disconnect, agent' = agent, ledger' = ledger PROVE Reporting'
  <2>1. sending' = <<>> /\ receipt' = None /\ requests' = {[b EXCEPT !.live = FALSE] : b \in requests}
    BY <1>7 DEF Disconnect
  <2>2. \A r \in requests' : \E b \in requests : r.seq = b.seq /\ r.points = b.points /\ ~r.live
    <3>1. \A b \in requests : /\ [b EXCEPT !.live = FALSE].seq = b.seq /\ [b EXCEPT !.live = FALSE].points = b.points
                              /\ ~[b EXCEPT !.live = FALSE].live
      BY <1>0 DEF Messages
    <3> QED BY <2>1, <3>1
  <2>3. \A r \in requests' :
        /\ r.seq <= agent.durable + 1 /\ r.seq <= agent.exposed
        /\ r.seq = agent.durable + 1 => r.points = agent.batch[r.seq]
        /\ r.seq = ledger.cursor => r.points = ledger.digest
        /\ ~r.live
    BY <2>2, <1>f
  <2>4. Len(sending') = 0
    BY <2>1, EmptySeq
  <2> QED BY <1>7, <2>1, <2>3, <2>4, <1>b, <1>c, <1>d DEF Reporting
<1>8. CASE StreamBroken
  BY <1>7, <1>8 DEF StreamBroken
<1>9. CASE AgentCrash
  BY <1>7, <1>9 DEF AgentCrash
<1>10. ASSUME NEW b \in requests, RequestLost(b) PROVE Reporting'
  <2>1. requests' \subseteq requests /\ agent' = agent /\ sending' = sending /\ receipt' = receipt /\ ledger' = ledger
    BY <1>10 DEF RequestLost
  <2> QED BY <2>1, <1>0 DEF Reporting, Receipts
<1>11. CASE \/ (\E g \in Grants : Measure(g)) \/ Observe \/ Collect \/ CollectRefused \/ Shutdown \/ ShutdownDone
            \/ WorkerCrash \/ WorkerStart \/ Pull \/ StoreRefused \/ PostAck \/ (\E s \in acks : HandleAck(s))
            \/ PullBroken
  <2>1. agent' = agent /\ reporting' = reporting
    BY <1>11 DEF Measure, Observe, Collect, CollectRefused, Shutdown, ShutdownDone, WorkerCrash, WorkerStart,
                 Pull, StoreRefused, PostAck, HandleAck, PullBroken
  <2> QED BY <1>1, <2>1
<1> QED BY <1>2, <1>3, <1>4, <1>5, <1>6, <1>8, <1>9, <1>10, <1>11 DEF Next

\* ConsumedBytes stays the sum of the meters.
LEMMA BooksNext ==
    ASSUME Inv, Next
    PROVE  Books'
<1> USE DEF process, reporting
<1>0. Books
  BY DEF Inv
<1>1. ASSUME ledger' = ledger PROVE Books'
  BY <1>0, <1>1 DEF Books
<1>2. ASSUME NEW b \in requests, Ingest(b) PROVE Books'
  <2>1. ledger' = LedgerAfter(b)
    BY <1>2, IngestFacts DEF Ingest
  <2>2. CASE IsReplay(b)
    BY <1>1, <2>1, <2>2 DEF LedgerAfter
  <2>3. CASE ~IsReplay(b)
    <3>1. \A g \in Grants : ledger'.consumed[g] = Total(ledger'.meters, MetersOf(g))
      BY <2>1, <2>3, IngestFacts
    <3> QED BY <3>1 DEF Books
  <2> QED BY <2>2, <2>3
<1>3. CASE ~(\E b \in requests : Ingest(b))
  <2>1. ledger' = ledger
    BY <1>3 DEF Next, Measure, Observe, Collect, CollectRefused, Shutdown, ShutdownDone, WorkerCrash, WorkerStart,
                Pull, Store, StoreRefused, PostAck, HandleAck, PullBroken, ReadPending, Send, TakeReceipt,
                StreamBroken, AgentCrash, RequestLost
  <2> QED BY <1>1, <2>1
<1> QED BY <1>2, <1>3

\* A step that changes nothing keeps everything.
LEMMA StutterInv == Inv /\ UNCHANGED vars => Inv'
<1> SUFFICES ASSUME Inv, UNCHANGED vars PROVE Inv'
  OBVIOUS
<1>1. /\ mode' = mode /\ life' = life /\ measured' = measured /\ last' = last /\ observed' = observed
      /\ spent' = spent /\ worker' = worker /\ pulled' = pulled /\ acks' = acks /\ agent' = agent
      /\ sending' = sending /\ requests' = requests /\ receipt' = receipt /\ ledger' = ledger /\ faults' = faults
  BY DEF vars, process, reporting
<1>2. Shape'
  BY <1>1 DEF Inv, Shape
<1>3. SpoolGood(worker)' /\ SpoolGood(agent)'
  <2>1. SpoolGood(worker') /\ SpoolGood(agent')
    BY <1>1 DEF Inv
  <2>2. SpoolGood(worker)'
    BY <2>1 DEF SpoolGood, SpoolSound, Ordered, Volume
  <2>3. SpoolGood(agent)'
    BY <2>1 DEF SpoolGood, SpoolSound, Ordered, Volume
  <2> QED BY <2>2, <2>3
<1>4. Process'
  <2>1. Forwarded' = Forwarded
    BY <1>1 DEF Forwarded
  <2> QED BY <1>1, <2>1 DEF Inv, Process, Zero, Nothing
<1>5. Pulling'
  BY <1>1 DEF Inv, Pulling, Taken
<1>6. Reporting'
  BY <1>1 DEF Inv, Reporting, Receipts
<1>7. Books'
  BY <1>1 DEF Inv, Books
<1> QED BY <1>2, <1>3, <1>4, <1>5, <1>6, <1>7 DEF Inv

\* The invariant is inductive.
LEMMA NextInv == Inv /\ [Next]_vars => Inv'
<1> SUFFICES ASSUME Inv, [Next]_vars PROVE Inv'
  OBVIOUS
<1>1. CASE Next
  <2>1. Shape' /\ SpoolGood(worker)' /\ SpoolGood(agent)'
    BY <1>1, ShapeNext, SpoolsNext
  <2>2. Process' /\ Pulling'
    BY <1>1, ProcessNext, PullingNext
  <2>3. Reporting' /\ Books'
    BY <1>1, ReportingNext, BooksNext
  <2> QED BY <2>1, <2>2, <2>3 DEF Inv
<1>2. CASE UNCHANGED vars
  BY <1>2, StutterInv
<1> QED BY <1>1, <1>2

\* In every state the spools agree with each other and with the ledger.
LEMMA Invariance == Spec => []Inv
BY InitInv, NextInv, PTL DEF Spec

-----------------------------------------------------------------------------
(***************************************************************************)
(* The theorems.                                                           *)
(***************************************************************************)

\* Acknowledge deletes a batch only after the next station holds what it
\* said: a meter with no batch left in a spool has its last value downstream.
THEOREM NothingIsDiscarded == Spec => []NothingDiscarded
<1>1. Inv => NothingDiscarded
  <2> SUFFICES ASSUME Inv PROVE NothingDiscarded
    OBVIOUS
  <2>1. agent.durable \in Nat /\ ledger.cursor \in Nat /\ \A m \in Meters : agent.index[m] \in Nat
    BY SpoolFacts DEF Inv, Shape
  <2>2. agent.durable <= ledger.cursor
    BY DEF Inv, Reporting
  <2>3. \A m \in Meters : agent.index[m] <= agent.durable => agent.index[m] <= ledger.cursor
    BY <2>1, <2>2
  <2> QED BY <2>3 DEF Inv, Pulling, Reporting, NothingDiscarded
<1> QED BY <1>1, Invariance, PTL

\* FleetGrant.ConsumedBytes is the sum of the grant's meters over all lives of
\* its runtime, and never more than the runtime forwarded: a byte is billed at
\* most once, whatever Ingest is sent again.
THEOREM ConsumptionStaysExact == Spec => []ConsumptionExact
<1>1. Inv => ConsumptionExact
  <2> SUFFICES ASSUME Inv, NEW g \in Grants
               PROVE  /\ ledger.consumed[g] = Total(ledger.meters, {m \in Meters : GrantOf(m) = g})
                      /\ ledger.consumed[g] <= spent[g]
    BY DEF ConsumptionExact
  <2>1. ledger.consumed[g] = Total(ledger.meters, MetersOf(g))
    BY DEF Inv, Books
  <2>2. \A m \in Meters : ledger.meters[m] \in Nat /\ ledger.meters[m] <= agent.meters[m]
    BY ForwardedFacts DEF Inv, Reporting
  <2>3. Total(ledger.meters, MetersOf(g)) <= spent[g]
    BY <2>2, LedgerBound
  <2> QED BY <2>1, <2>3 DEF MetersOf
<1> QED BY <1>1, Invariance, PTL

\* What TypeOK says.
LEMMA InvType == Inv => TypeOK
<1> SUFFICES ASSUME Inv PROVE TypeOK
  OBVIOUS
<1>0. Shape /\ worker \in Spools /\ agent \in Spools /\ SpoolGood(worker) /\ SpoolGood(agent)
  BY DEF Inv, Shape
<1>1. \A p \in PointMaps : Points(p)
  BY PointsFinite DEF Points
<1>2. ASSUME NEW spool \in Spools, SpoolGood(spool) PROVE SpoolType(spool)
  <2>1. \A s \in DOMAIN spool.batch : s \in Nat /\ Points(spool.batch[s])
    BY <1>1, SpoolFacts
  <2>2. spool.spooled \in 0 .. SpoolLimit
    BY <1>2, SpoolFacts, SpoolAssumption DEF SpoolGood
  <2> QED BY <2>1, <2>2, SpoolFacts DEF SpoolType
<1>3. \A i \in 1 .. Len(sending) : sending[i] \in Messages
  BY <1>0, ElementOfSeq DEF Shape
<1>4. \A b \in Messages : b.seq \in Nat /\ Points(b.points) /\ b.live \in BOOLEAN
  BY <1>1 DEF Messages
<1>5. \A b \in requests : b \in Messages
  BY <1>0 DEF Shape
<1>6. receipt \in {None, Awaited} \/ (receipt.durable \in Nat /\ receipt.accounted \in Nat)
  BY <1>0 DEF Shape, Receipts
<1>7. pulled # None => pulled.step \in {"store", "ack", "posted"} /\ pulled.seq \in Nat /\ Points(pulled.points)
  BY <1>0, <1>1 DEF Shape
<1>8. SpoolType(worker) /\ SpoolType(agent)
  BY <1>0, <1>2
<1>9. Points(observed) /\ Points(ledger.digest)
  BY <1>0, <1>1 DEF Shape
<1> QED BY <1>0, <1>3, <1>4, <1>5, <1>6, <1>7, <1>8, <1>9 DEF Shape, TypeOK

\* What NeverWedged says.
LEMMA InvWedge == Inv => NeverWedged
<1> SUFFICES ASSUME Inv PROVE NeverWedged
  OBVIOUS
<1>1. \A b \in requests : IngestAllowed(b)
  BY IngestFacts
<1>2. agent.durable <= ledger.cursor /\ ledger.cursor <= agent.exposed
  BY DEF Inv, Reporting
<1>3. ASSUME NEW spool \in Spools, SpoolGood(spool), NEW r \in Receipts, r.accounted <= r.durable,
             r.durable <= spool.exposed
      PROVE  AcknowledgeAllowed(spool, r)
  BY <1>3, SpoolFacts DEF SpoolGood, SpoolSound, Receipts, AcknowledgeAllowed
<1>4. ASSUME receipt \notin {None, Awaited} PROVE AcknowledgeAllowed(agent, receipt)
  <2>1. receipt \in Receipts \ {None, Awaited} /\ agent \in Spools /\ SpoolGood(agent) /\ ledger.cursor \in Nat
    BY <1>4 DEF Inv, Shape
  <2>2. receipt.durable = ledger.cursor /\ receipt.accounted = ledger.cursor
    BY <2>1 DEF Inv, Reporting
  <2>3. receipt.accounted <= receipt.durable /\ receipt.durable <= agent.exposed
    BY <2>1, <2>2, <1>2
  <2> QED BY <2>1, <2>3, <1>3
<1>5. ASSUME pulled # None, pulled.step = "store"
      PROVE  \A m \in DOMAIN pulled.points : pulled.points[m] >= agent.meters[m]
  <2>1. /\ pulled.seq \in {worker.durable, worker.durable + 1} /\ pulled.seq <= worker.exposed
        /\ pulled.seq = worker.durable + 1 => pulled.points = worker.batch[pulled.seq]
        /\ pulled.seq = worker.durable => Taken(pulled.points)
        /\ pulled.points \in PointMaps
    BY <1>5 DEF Inv, Pulling, Shape
  <2>2. /\ worker.durable \in Nat /\ worker.sequence \in Nat /\ worker.exposed \in Nat
        /\ worker.exposed <= worker.sequence
        /\ DOMAIN worker.batch = worker.durable + 1 .. worker.sequence
    BY SpoolFacts DEF Inv, Shape, SpoolGood, SpoolSound
  <2>3. \A m \in DOMAIN pulled.points : m \in Meters /\ pulled.points[m] \in Nat
    BY <2>1, PointsFinite
  <2>4. \A m \in Meters : agent.meters[m] \in Nat
    BY SpoolFacts DEF Inv, Shape
  <2>5. CASE pulled.seq = worker.durable
    BY <2>1, <2>3, <2>4, <2>5 DEF Taken
  <2>6. CASE pulled.seq = worker.durable + 1
    <3>1. pulled.seq \in DOMAIN worker.batch /\ pulled.points = worker.batch[pulled.seq]
      BY <2>1, <2>2, <2>6
    <3>2. \A m \in DOMAIN pulled.points : agent.meters[m] <= pulled.points[m]
      BY <3>1 DEF Inv, Pulling
    <3> QED BY <3>2, <2>3, <2>4
  <2> QED BY <2>1, <2>5, <2>6
<1>6. ASSUME NEW s \in acks PROVE AcknowledgeAllowed(worker, [durable |-> s, accounted |-> 0])
  <2>1. s \in Nat /\ s <= worker.exposed /\ worker \in Spools /\ SpoolGood(worker)
    BY DEF Inv, Shape, Pulling
  <2>2. [durable |-> s, accounted |-> 0] \in Receipts
    BY <2>1 DEF Receipts
  <2>3. [durable |-> s, accounted |-> 0].durable = s /\ [durable |-> s, accounted |-> 0].accounted <= s
    BY <2>1
  <2> QED BY <2>1, <2>2, <2>3, <1>3
<1> QED BY <1>1, <1>2, <1>4, <1>5, <1>6 DEF NeverWedged

\* What FrozenBatches says of a step.
FrozenStep ==
    /\ \A s \in DOMAIN worker.batch \cap DOMAIN worker'.batch :
         s <= worker.exposed => worker'.batch[s] = worker.batch[s]
    /\ \A s \in DOMAIN agent.batch \cap DOMAIN agent'.batch :
         s <= agent.exposed => agent'.batch[s] = agent.batch[s]

\* A step edits no batch that was handed out.
LEMMA StepFreezes ==
    ASSUME Inv, [Next]_vars
    PROVE  FrozenStep
<1> USE DEF process, reporting
<1>0. worker \in Spools /\ agent \in Spools
  BY DEF Inv, Shape
<1>1. ASSUME worker' = worker, agent' = agent PROVE FrozenStep
  BY <1>1 DEF FrozenStep
<1>2. CASE Collect
  <2>1. PICK points \in PointMaps : Appended(worker, points, worker')
    BY <1>2, CollectStep
  <2>2. agent' = agent
    BY <1>2 DEF Collect
  <2> QED BY <1>0, <2>1, <2>2, AppendedFrozen DEF FrozenStep
<1>3. CASE Store
  <2>1. Appended(agent, pulled.points, agent')
    BY <1>3, StoreStep
  <2>2. worker' = worker
    BY <1>3 DEF Store
  <2> QED BY <1>0, <2>1, <2>2, AppendedFrozen DEF FrozenStep
<1>4. CASE Pull
  <2>1. worker'.batch = worker.batch /\ agent' = agent
    BY <1>0, <1>4, PullStep DEF Spools, Pull
  <2> QED BY <2>1 DEF FrozenStep
<1>5. CASE ReadPending
  <2>1. agent'.batch = agent.batch /\ worker' = worker
    BY <1>0, <1>5, ReadPendingStep DEF Spools, ReadPending
  <2> QED BY <2>1 DEF FrozenStep
<1>6. ASSUME NEW s \in acks, HandleAck(s) PROVE FrozenStep
  <2>1. (\A t \in DOMAIN worker'.batch : worker'.batch[t] = worker.batch[t]) /\ agent' = agent
    BY <1>6, HandleAckStep DEF Acknowledged, HandleAck
  <2> QED BY <2>1 DEF FrozenStep
<1>7. CASE TakeReceipt
  <2>1. (\A t \in DOMAIN agent'.batch : agent'.batch[t] = agent.batch[t]) /\ worker' = worker
    BY <1>7, TakeReceiptStep DEF Acknowledged, TakeReceipt
  <2> QED BY <2>1 DEF FrozenStep
<1>8. CASE /\ ~Collect /\ ~Store /\ ~Pull /\ ~ReadPending /\ ~(\E s \in acks : HandleAck(s)) /\ ~TakeReceipt
  <2>1. worker' = worker /\ agent' = agent
    BY <1>8 DEF vars, Next, Measure, Observe, CollectRefused, Shutdown, ShutdownDone, WorkerCrash, WorkerStart,
                StoreRefused, PostAck, PullBroken, Send, Ingest, StreamBroken, AgentCrash, RequestLost
  <2> QED BY <1>1, <2>1
<1> QED BY <1>2, <1>3, <1>4, <1>5, <1>6, <1>7, <1>8

\* The spools never wedge the pipeline, for any number of grants, lives and
\* faults: their buckets agree, Ingest and Acknowledge refuse nothing that is
\* under way, and a batch that was handed out is never edited.
THEOREM SpoolsStaySound == Spec => SpoolsSound
<1>1. Inv => SpoolsConsistent
  BY DEF Inv, SpoolGood, SpoolsConsistent
<1>2. Inv /\ [Next]_vars => FrozenStep
  BY StepFreezes
<1>3. Spec => [](TypeOK /\ SpoolsConsistent /\ NeverWedged)
  BY <1>1, InvType, InvWedge, Invariance, PTL
<1>4. Spec => [][FrozenStep]_vars
  BY <1>2, Invariance, PTL DEF Spec
<1>5. Spec => FrozenBatches
  BY <1>4 DEF FrozenBatches, FrozenStep
<1> QED BY <1>3, <1>5 DEF SpoolsSound

\* A step collects, bills or leaves both as they are.
LEMMA BillingStep ==
    ASSUME Inv, [Next]_vars
    PROVE  [Billing!Next]_<<worker.meters, ledger.meters>>
<1> USE DEF process, reporting
<1>0. Shape /\ worker \in Spools
  BY DEF Inv, Shape
<1>1. \A m \in Meters : /\ worker.meters[m] \in Nat /\ agent.meters[m] \in Nat /\ ledger.meters[m] \in Nat
                        /\ agent.meters[m] <= worker.meters[m] /\ ledger.meters[m] <= agent.meters[m]
  BY <1>0, ForwardedFacts DEF Inv, Pulling, Reporting
<1>2. CASE Collect
  <2>1. PICK points \in PointMaps : /\ \A m \in DOMAIN points : points[m] >= worker.meters[m]
                                    /\ Appended(worker, points, worker') /\ worker' \in Spools
    BY <1>2, CollectStep
  <2>2. \A m \in Meters : worker'.meters[m] = IF m \in DOMAIN points THEN points[m] ELSE worker.meters[m]
    BY <2>1 DEF Appended
  <2>3. worker'.meters \in [Meters -> Nat]
    BY <2>1, SpoolFacts
  <2>4. \A m \in Meters : worker.meters[m] <= worker'.meters[m]
    BY <2>1, <2>2, <2>3, <1>1
  <2>5. ledger'.meters = ledger.meters
    BY <1>2 DEF Collect
  <2>6. Billing!Collect
    BY <2>3, <2>4, <2>5 DEF Billing!Collect, Billing!AtMost
  <2> QED BY <2>6 DEF Billing!Next
<1>3. ASSUME NEW b \in requests, Ingest(b) PROVE [Billing!Next]_<<worker.meters, ledger.meters>>
  <2>1. ledger' = LedgerAfter(b) /\ worker' = worker
    BY <1>3, IngestFacts DEF Ingest
  <2>2. CASE IsReplay(b)
    BY <2>1, <2>2 DEF LedgerAfter
  <2>3. CASE ~IsReplay(b)
    <3>1. /\ ledger'.meters \in [Meters -> Nat]
          /\ \A m \in Meters : ledger'.meters[m] = IF m \in DOMAIN b.points THEN b.points[m] ELSE ledger.meters[m]
          /\ \A m \in DOMAIN b.points : ledger.meters[m] <= b.points[m]
          /\ b.seq \in DOMAIN agent.batch /\ b.points = agent.batch[b.seq]
      BY <2>1, <2>3, IngestFacts DEF NextOne
    <3>2. \A m \in DOMAIN b.points : b.points[m] <= agent.meters[m] /\ b.points[m] \in Nat
      BY <3>1, SpoolFacts DEF Inv, Shape, SpoolGood, Ordered
    <3>3. \A m \in Meters : ledger.meters[m] <= ledger'.meters[m] /\ ledger'.meters[m] <= worker.meters[m]
      BY <3>1, <3>2, <1>1
    <3>4. Billing!Bill
      BY <2>1, <3>1, <3>3 DEF Billing!Bill, Billing!AtMost
    <3> QED BY <3>4 DEF Billing!Next
  <2> QED BY <2>2, <2>3
<1>4. ASSUME worker'.meters = worker.meters, ledger' = ledger
      PROVE  [Billing!Next]_<<worker.meters, ledger.meters>>
  BY <1>4
<1>5. CASE Pull
  <2>1. worker'.meters = worker.meters /\ ledger' = ledger
    BY <1>0, <1>5, PullStep DEF Spools, Pull
  <2> QED BY <1>4, <2>1
<1>6. ASSUME NEW s \in acks, HandleAck(s) PROVE [Billing!Next]_<<worker.meters, ledger.meters>>
  <2>1. worker'.meters = worker.meters /\ ledger' = ledger
    BY <1>6, HandleAckStep DEF Acknowledged, HandleAck
  <2> QED BY <1>4, <2>1
<1>7. CASE ~Collect /\ ~(\E b \in requests : Ingest(b)) /\ ~Pull /\ ~(\E s \in acks : HandleAck(s))
  <2>1. worker' = worker /\ ledger' = ledger
    BY <1>7 DEF vars, Next, Measure, Observe, CollectRefused, Shutdown, ShutdownDone, WorkerCrash, WorkerStart,
                Store, StoreRefused, PostAck, PullBroken, ReadPending, Send, TakeReceipt, StreamBroken, AgentCrash,
                RequestLost
  <2> QED BY <1>4, <2>1
<1> QED BY <1>2, <1>3, <1>5, <1>6, <1>7

\* The pipeline implements UsageBilling: through lost answers, repeated
\* batches, late requests and crashes, what is billed on a meter never goes
\* back and never passes what Collect made durable.
THEOREM BillingRefined == Spec => BillingImplemented
<1>1. Init => Billing!Init
  BY DEF Init, NewSpool, Billing!Init
<1>2. Inv /\ [Next]_vars => [Billing!Next]_<<worker.meters, ledger.meters>>
  BY BillingStep
<1> QED BY <1>1, <1>2, Invariance, PTL DEF Spec, BillingImplemented, Billing!Spec
=============================================================================
