--------------------------- MODULE ServicesProofs ---------------------------
(***************************************************************************)
(* What the services keep, for every value of the constants.               *)
(***************************************************************************)
EXTENDS Services, Sequences, TotalsProofs

-----------------------------------------------------------------------------
(* The traffic writer                                                      *)

\* e is in the queue q.
Holds(q, e) == \E i \in 1..Len(q) : q[i] = e

WriterShape ==
    /\ writer \in [1..WriterStarts -> [queue : Seq(Callers), runs : Callers \cup {"nobody"},
                                       cancelled : BOOLEAN, done : BOOLEAN]]
    /\ caller \in [Callers -> [at : {"idle", "blocked", "waiting", "inline"}, to : 0..WriterStarts]]
    /\ written \in [Callers -> [1..MaxWrites -> Nat]]
    /\ answered \in [Callers -> Seq({"ok", "full", "stopped"})]
    /\ mu \in Callers \cup {"nobody"} /\ started \in 1..WriterStarts /\ gen \in {0, started}
    /\ server \in {"running", "stopping", "down"}

\* The writers of the past have ended or will, those to come have not begun.
WriterLife ==
    /\ server # "down" => gen = started /\ (writer[started].cancelled <=> server = "stopping")
    /\ server = "down" => gen = 0
    /\ \A g \in 1..WriterStarts :
          /\ writer[g].done => writer[g].queue = <<>> /\ writer[g].runs = "nobody" /\ writer[g].cancelled
          /\ g > started => writer[g] = Writer!NoWriter
          /\ Len(writer[g].queue) <= WriterQueue
          /\ \A i, j \in 1..Len(writer[g].queue) : writer[g].queue[i] = writer[g].queue[j] => i = j

\* A caller that is blocked has the mutex, so that nobody stops the writer.
MutexHeld ==
    /\ mu # "nobody" => server = "running"
    /\ \A c \in Callers : (mu = c) <=> (caller[c].at = "blocked")

\* A write is in the hands of one writer, or it has been carried out.
Place(c) ==
    /\ \A g \in 1..WriterStarts :
          /\ Holds(writer[g].queue, c) \/ writer[g].runs = c => caller[c].at = "waiting" /\ caller[c].to = g
          /\ ~(Holds(writer[g].queue, c) /\ writer[g].runs = c)
    /\ caller[c].at = "waiting" =>
          /\ caller[c].to \in 1..WriterStarts
          /\ written[c][Len(answered[c]) + 1] \in {0, 1}
          /\ written[c][Len(answered[c]) + 1] = 0 <=> Holds(writer[caller[c].to].queue, c) \/ writer[caller[c].to].runs = c

\* What was answered is true, what was not answered has not been carried out yet.
Told(c) ==
    /\ Len(answered[c]) <= MaxWrites
    /\ caller[c].at # "idle" => Len(answered[c]) < MaxWrites
    /\ \A w \in 1..Len(answered[c]) :
          answered[c][w] # "stopped" /\ written[c][w] = IF answered[c][w] = "ok" THEN 1 ELSE 0
    /\ \A w \in 1..MaxWrites :
          (w > Len(answered[c]) + 1 \/ (w = Len(answered[c]) + 1 /\ caller[c].at # "waiting")) => written[c][w] = 0

WriterInv == WriterShape /\ WriterLife /\ MutexHeld /\ \A c \in Callers : Place(c) /\ Told(c)

LEMMA WriterInit == Writer!Init => WriterInv
<1> SUFFICES ASSUME Writer!Init PROVE WriterInv OBVIOUS
<1> USE WriterParameters DEF Writer!Init, Writer!WriterAssumption, Writer!NoWriter, Writer!Rest, Writer!Nobody, Writer!Writes
<1>1. WriterShape BY DEF WriterShape
<1>2. WriterLife BY DEF WriterLife
<1>3. MutexHeld BY DEF MutexHeld
<1>4. \A c \in Callers : Place(c) /\ Told(c) BY DEF Place, Told, Holds
<1> QED BY <1>1, <1>2, <1>3, <1>4 DEF WriterInv

\* A record of a writer
WriterRecord ==
    [queue : Seq(Callers), runs : Callers \cup {"nobody"}, cancelled : BOOLEAN, done : BOOLEAN]

LEMMA WriterTypes ==
    ASSUME WriterInv
    PROVE  /\ \A g \in 1..WriterStarts :
                 /\ writer[g] \in WriterRecord /\ writer[g].queue \in Seq(Callers) /\ Len(writer[g].queue) \in Nat
                 /\ writer[g].runs \in Callers \cup {"nobody"}
                 /\ {writer[g].cancelled, writer[g].done} \subseteq BOOLEAN
           /\ \A c \in Callers :
                 /\ caller[c].at \in {"idle", "blocked", "waiting", "inline"} /\ caller[c].to \in 0..WriterStarts
                 /\ answered[c] \in Seq({"ok", "full", "stopped"}) /\ Len(answered[c]) \in Nat
                 /\ \A w \in 1..MaxWrites : written[c][w] \in Nat
           /\ started \in 1..WriterStarts /\ gen \in {0, started} /\ MaxWrites \in Nat /\ WriterStarts \in Nat
           /\ "nobody" \notin Callers /\ WriterQueue \in Nat \ {0}
<1> USE WriterParameters DEF WriterInv, WriterShape, WriterRecord, Writer!WriterAssumption
<1>1. ASSUME NEW g \in 1..WriterStarts
      PROVE  /\ writer[g] \in WriterRecord /\ writer[g].queue \in Seq(Callers) /\ Len(writer[g].queue) \in Nat
             /\ writer[g].runs \in Callers \cup {"nobody"}
             /\ {writer[g].cancelled, writer[g].done} \subseteq BOOLEAN
  <2>1. writer[g] \in WriterRecord OBVIOUS
  <2> QED BY <2>1
<1>2. ASSUME NEW c \in Callers
      PROVE  /\ caller[c].at \in {"idle", "blocked", "waiting", "inline"} /\ caller[c].to \in 0..WriterStarts
             /\ answered[c] \in Seq({"ok", "full", "stopped"}) /\ Len(answered[c]) \in Nat
             /\ \A w \in 1..MaxWrites : written[c][w] \in Nat
  OBVIOUS
<1> QED BY <1>1, <1>2

\* A step that leaves them alone
LEMMA WriterStill ==
    ASSUME UNCHANGED <<writer, caller, written, answered>>, NEW c, Place(c), Told(c)
    PROVE  Place(c)' /\ Told(c)'
<1>1. Place(c)' BY DEF Place, Holds
<1>2. Told(c)' BY DEF Told
<1> QED BY <1>1, <1>2

\* Starting and stopping
LEMMA WriterStart == ASSUME WriterInv, Writer!Start PROVE WriterInv'
<1> USE WriterTypes DEF WriterInv, Writer!Nobody, Writer!Start
<1>1. WriterShape' BY DEF WriterShape
<1>2. WriterLife' BY DEF WriterLife, Writer!NoWriter
<1>3. MutexHeld' BY DEF MutexHeld
<1>4. ASSUME NEW c \in Callers PROVE Place(c)' /\ Told(c)' BY <1>4, WriterStill
<1> QED BY <1>1, <1>2, <1>3, <1>4

LEMMA WriterCancel == ASSUME WriterInv, Writer!StopCancels PROVE WriterInv'
<1> USE WriterTypes DEF Writer!Nobody, Writer!StopCancels
<1>1. gen = started /\ ~writer[started].cancelled BY DEF WriterInv, WriterLife
<1>2. /\ writer' \in [1..WriterStarts -> WriterRecord]
      /\ \A g \in 1..WriterStarts :
            /\ writer'[g].queue = writer[g].queue /\ writer'[g].runs = writer[g].runs
            /\ (writer'[g].done <=> writer[g].done)
            /\ (writer'[g].cancelled <=> writer[g].cancelled \/ g = started)
            /\ g # started => writer'[g] = writer[g]
  BY <1>1 DEF WriterInv, WriterShape, WriterRecord, Writer!Cancel
<1>3. WriterShape' BY <1>2 DEF WriterInv, WriterShape, WriterRecord
<1>4. WriterLife' BY <1>1, <1>2 DEF WriterInv, WriterLife
<1>5. MutexHeld' BY DEF WriterInv, MutexHeld
<1>6. ASSUME NEW c \in Callers PROVE Place(c)' /\ Told(c)'
  <2>1. \A g \in 1..WriterStarts : Holds(writer'[g].queue, c) = Holds(writer[g].queue, c) BY <1>2 DEF Holds
  <2>2. Place(c)' BY <1>2, <2>1 DEF WriterInv, Place
  <2>3. Told(c)' BY DEF WriterInv, Told
  <2> QED BY <2>2, <2>3
<1> QED BY <1>3, <1>4, <1>5, <1>6 DEF WriterInv

LEMMA WriterStopEnds == ASSUME WriterInv, Writer!StopEnds PROVE WriterInv'
<1> USE WriterTypes DEF WriterInv, Writer!Nobody, Writer!StopEnds
<1>1. WriterShape' BY DEF WriterShape
<1>2. WriterLife' BY DEF WriterLife, Writer!NoWriter
<1>3. MutexHeld' BY DEF MutexHeld
<1>4. ASSUME NEW c \in Callers PROVE Place(c)' /\ Told(c)' BY <1>4, WriterStill
<1> QED BY <1>1, <1>2, <1>3, <1>4

\* A write is put into the queue of the writer that runs.
LEMMA WriterEnqueues ==
    ASSUME WriterInv, NEW c \in Callers, caller[c].at \in {"idle", "blocked"}, Len(answered[c]) < MaxWrites,
           server = "running", Len(writer[gen].queue) < WriterQueue, mu \in {c, "nobody"}, mu' = "nobody",
           Writer!Enqueue(c), UNCHANGED <<gen, started, server, written, answered>>
    PROVE  WriterInv'
<1> USE WriterTypes DEF Writer!Enqueue
<1>1. gen = started /\ gen \in 1..WriterStarts /\ ~writer[started].cancelled BY DEF WriterInv, WriterLife
<1>2. /\ writer' \in [1..WriterStarts -> WriterRecord]
      /\ writer'[gen].queue = Append(writer[gen].queue, c)
      /\ \A g \in 1..WriterStarts :
            /\ writer'[g].runs = writer[g].runs
            /\ (writer'[g].done <=> writer[g].done) /\ (writer'[g].cancelled <=> writer[g].cancelled)
            /\ g # gen => writer'[g] = writer[g]
  <2>1. writer \in [1..WriterStarts -> WriterRecord] BY DEF WriterInv, WriterShape, WriterRecord
  <2>2. Append(writer[gen].queue, c) \in Seq(Callers) BY <1>1
  <2>3. writer' = [writer EXCEPT ![gen] = [writer[gen] EXCEPT !.queue = Append(writer[gen].queue, c)]]
    BY <2>1, <1>1
  <2>4. [writer[gen] EXCEPT !.queue = Append(writer[gen].queue, c)] \in WriterRecord
    BY <2>1, <2>2, <1>1 DEF WriterRecord
  <2> HIDE WriterTypes DEF Writer!Enqueue
  <2>5. writer' \in [1..WriterStarts -> WriterRecord] BY <2>1, <2>3, <2>4
  <2>6. \A g \in 1..WriterStarts : g # gen => writer'[g] = writer[g] BY <2>1, <2>3
  <2>7. /\ writer'[gen].queue = Append(writer[gen].queue, c) /\ writer'[gen].runs = writer[gen].runs
        /\ writer'[gen].done = writer[gen].done /\ writer'[gen].cancelled = writer[gen].cancelled
    BY <2>1, <2>3, <1>1 DEF WriterRecord
  <2> QED BY <2>5, <2>6, <2>7
<1>3. caller' \in [Callers -> [at : {"idle", "blocked", "waiting", "inline"}, to : 0..WriterStarts]]
  BY <1>1 DEF WriterInv, WriterShape
<1>4. caller'[c].at = "waiting" /\ caller'[c].to = gen /\ \A d \in Callers \ {c} : caller'[d] = caller[d]
  BY DEF WriterInv, WriterShape
<1>5. \A g \in 1..WriterStarts : ~Holds(writer[g].queue, c) /\ writer[g].runs # c
  BY DEF WriterInv, Place
<1>6. /\ Len(writer'[gen].queue) = Len(writer[gen].queue) + 1
      /\ \A i \in 1..Len(writer[gen].queue) : writer'[gen].queue[i] = writer[gen].queue[i]
      /\ writer'[gen].queue[Len(writer[gen].queue) + 1] = c
  BY <1>1, <1>2
<1>7. \A d \in Callers, g \in 1..WriterStarts : Holds(writer'[g].queue, d) <=> Holds(writer[g].queue, d) \/ (d = c /\ g = gen)
  <2> SUFFICES ASSUME NEW d \in Callers, NEW g \in 1..WriterStarts
               PROVE  Holds(writer'[g].queue, d) <=> Holds(writer[g].queue, d) \/ (d = c /\ g = gen)
    OBVIOUS
  <2>1. CASE g # gen BY <2>1, <1>2 DEF Holds
  <2>2. CASE g = gen
    <3> DEFINE n == Len(writer[gen].queue)
    <3>1. n \in Nat /\ 1..Len(writer'[gen].queue) = 1..n \cup {n + 1} BY <1>1, <1>6
    <3>2. gen' = gen OBVIOUS
    <3> HIDE WriterTypes DEF n
    <3>3. Holds(writer'[g].queue, d) <=> \E i \in 1..n \cup {n + 1} : writer'[gen].queue[i] = d BY <2>2, <3>1 DEF Holds
    <3>4. Holds(writer[g].queue, d) <=> \E i \in 1..n : writer[gen].queue[i] = d BY <2>2 DEF Holds, n
    <3>5. \A i \in 1..n : writer'[gen].queue[i] = writer[gen].queue[i] BY <1>6 DEF n
    <3>6. writer'[gen].queue[n + 1] = c BY <1>6 DEF n
    <3> QED BY <2>2, <3>3, <3>4, <3>5, <3>6
  <2> QED BY <2>1, <2>2
<1>8. WriterShape' BY <1>2, <1>3 DEF WriterInv, WriterShape, WriterRecord
<1>9. WriterLife'
  <2>1. ASSUME NEW g \in 1..WriterStarts
        PROVE  /\ writer'[g].done => writer'[g].queue = <<>> /\ writer'[g].runs = "nobody" /\ writer'[g].cancelled
               /\ g > started => writer'[g] = Writer!NoWriter
               /\ Len(writer'[g].queue) <= WriterQueue
    BY <1>1, <1>2, <1>6 DEF WriterInv, WriterLife
  <2>2. ASSUME NEW g \in 1..WriterStarts, NEW i \in 1..Len(writer'[g].queue), NEW j \in 1..Len(writer'[g].queue),
               writer'[g].queue[i] = writer'[g].queue[j]
        PROVE  i = j
    BY <2>2, <1>1, <1>2, <1>5, <1>6 DEF WriterInv, WriterLife, Holds
  <2>3. (server' # "down" => gen' = started' /\ (writer'[started'].cancelled <=> server' = "stopping")) /\ server' # "down"
    BY <1>1, <1>2
  <2> QED BY <2>1, <2>2, <2>3 DEF WriterLife
<1>10. MutexHeld' BY <1>4 DEF WriterInv, MutexHeld
<1>11. written[c][Len(answered[c]) + 1] = 0 BY DEF WriterInv, Told
<1>12. ASSUME NEW d \in Callers PROVE Place(d)'
  <2>1. CASE d = c BY <2>1, <1>1, <1>2, <1>4, <1>5, <1>7, <1>11 DEF Place
  <2>2. CASE d # c
    <3>1. caller'[d] = caller[d] /\ \A g \in 1..WriterStarts : Holds(writer'[g].queue, d) <=> Holds(writer[g].queue, d)
      BY <2>2, <1>4, <1>7
    <3>2. Place(d) BY DEF WriterInv
    <3> QED BY <3>1, <3>2, <1>2 DEF Place
  <2> QED BY <2>1, <2>2
<1>13. ASSUME NEW d \in Callers PROVE Told(d)'
  <2>1. CASE d = c BY <2>1, <1>4 DEF WriterInv, Told
  <2>2. CASE d # c BY <2>2, <1>4 DEF WriterInv, Told
  <2> QED BY <2>1, <2>2
<1> QED BY <1>8, <1>9, <1>10, <1>12, <1>13 DEF WriterInv

\* A caller is told the truth of its write, which nobody has in hand any more.
LEMMA WriterAnswers ==
    ASSUME WriterInv, NEW c \in Callers, NEW a \in {"ok", "full"}, caller[c].at # "idle", Writer!Answer(c, a),
           UNCHANGED <<gen, writer, started, server>>,
           (mu = c /\ mu' = "nobody") \/ (mu # c /\ mu' = mu),
           written' \in [Callers -> [1..MaxWrites -> Nat]],
           \A d \in Callers, w \in 1..MaxWrites :
               d # c \/ w # Len(answered[c]) + 1 => written'[d][w] = written[d][w],
           written'[c][Len(answered[c]) + 1] = (IF a = "ok" THEN 1 ELSE 0),
           \A g \in 1..WriterStarts : ~Holds(writer[g].queue, c) /\ writer[g].runs # c
    PROVE  WriterInv'
<1>0. /\ \A d \in Callers : Len(answered[d]) \in Nat /\ answered[d] \in Seq({"ok", "full", "stopped"})
      /\ MaxWrites \in Nat /\ "nobody" \notin Callers
  BY WriterTypes
<1>1. Len(answered[c]) < MaxWrites BY WriterTypes DEF WriterInv, Told
<1>2. answered' \in [Callers -> Seq({"ok", "full", "stopped"})] /\ \A d \in Callers \ {c} : answered'[d] = answered[d]
  BY DEF WriterInv, WriterShape, Writer!Answer
<1>3. /\ Len(answered'[c]) = Len(answered[c]) + 1 /\ answered'[c][Len(answered[c]) + 1] = a
      /\ \A w \in 1..Len(answered[c]) : answered'[c][w] = answered[c][w]
  BY <1>0 DEF WriterInv, WriterShape, Writer!Answer
<1>4. /\ caller' \in [Callers -> [at : {"idle", "blocked", "waiting", "inline"}, to : 0..WriterStarts]]
      /\ caller'[c].at = "idle" /\ \A d \in Callers \ {c} : caller'[d] = caller[d]
  BY WriterTypes DEF WriterInv, WriterShape, Writer!Answer, Writer!Rest
<1>5. WriterShape' BY <1>2, <1>4 DEF WriterInv, WriterShape
<1>6. WriterLife' BY DEF WriterInv, WriterLife, Writer!NoWriter, Writer!Nobody
<1>7. MutexHeld'
  <2>1. MutexHeld BY DEF WriterInv
  <2>2. ASSUME NEW d \in Callers PROVE (mu' = d) <=> (caller'[d].at = "blocked")
    <3>1. CASE d = c BY <3>1, <1>0, <1>4
    <3>2. CASE d # c BY <3>2, <2>1, <1>0, <1>4 DEF MutexHeld
    <3> QED BY <3>1, <3>2
  <2> QED BY <2>1, <2>2 DEF MutexHeld
<1>8. \A d \in Callers, g \in 1..WriterStarts : Holds(writer'[g].queue, d) <=> Holds(writer[g].queue, d) BY DEF Holds
<1>9. ASSUME NEW d \in Callers PROVE Place(d)'
  <2>1. CASE d = c BY <2>1, <1>4, <1>8 DEF Place
  <2>2. CASE d # c
    <3>1. caller[d].at = "waiting" => Len(answered[d]) + 1 \in 1..MaxWrites
      <4>1. Told(d) BY DEF WriterInv
      <4>2. Len(answered[d]) \in Nat BY <1>0
      <4> QED BY <4>1, <4>2, <1>0 DEF Told
    <3>2. caller[d].at = "waiting" => written'[d][Len(answered'[d]) + 1] = written[d][Len(answered[d]) + 1]
      BY <2>2, <1>2, <3>1
    <3>3. Place(d) BY DEF WriterInv
    <3> QED BY <2>2, <1>4, <1>8, <3>2, <3>3 DEF Place
  <2> QED BY <2>1, <2>2
<1>10. ASSUME NEW d \in Callers PROVE Told(d)'
  <2>0. Told(d) BY DEF WriterInv
  <2>1. CASE d = c
    <3>1. ASSUME NEW w \in 1..Len(answered'[c])
          PROVE  answered'[c][w] # "stopped" /\ written'[c][w] = IF answered'[c][w] = "ok" THEN 1 ELSE 0
      <4>1. CASE w = Len(answered[c]) + 1 BY <4>1, <1>3
      <4>2. CASE w # Len(answered[c]) + 1
        <5>1. w \in 1..Len(answered[c]) /\ w \in 1..MaxWrites BY <4>2, <3>1, <1>0, <1>1, <1>3
        <5> QED BY <5>1, <4>2, <1>3, <2>0, <2>1 DEF Told
      <4> QED BY <4>1, <4>2
    <3>2. ASSUME NEW w \in 1..MaxWrites, w > Len(answered[c]) + 1 PROVE written'[c][w] = 0
      <4>1. written'[c][w] = written[c][w] BY <3>2, <1>0
      <4>2. written[c][w] = 0 BY <3>2, <2>0, <2>1 DEF Told
      <4> QED BY <4>1, <4>2
    <3>3. ASSUME NEW w \in 1..MaxWrites,
                 (w > Len(answered'[c]) + 1 \/ (w = Len(answered'[c]) + 1 /\ caller'[c].at # "waiting"))
          PROVE  written'[c][w] = 0
      BY <3>2, <3>3, <1>3, <1>0
    <3>4. Len(answered'[c]) <= MaxWrites BY <1>0, <1>1, <1>3
    <3> QED BY <2>1, <1>4, <3>1, <3>3, <3>4 DEF Told
  <2>2. CASE d # c
    <3>1. answered'[d] = answered[d] /\ caller'[d] = caller[d] /\ Len(answered[d]) <= MaxWrites
      BY <2>2, <2>0, <1>2, <1>4 DEF Told
    <3>2. \A w \in 1..MaxWrites : written'[d][w] = written[d][w] BY <2>2
    <3>3. \A w \in 1..Len(answered[d]) : w \in 1..MaxWrites BY <3>1, <1>0
    <3> QED BY <2>0, <3>1, <3>2, <3>3 DEF Told
  <2> QED BY <2>1, <2>2
<1> QED BY <1>5, <1>6, <1>7, <1>9, <1>10 DEF WriterInv

LEMMA WriterSubmits == ASSUME WriterInv, NEW c \in Callers, Writer!Submit(c) PROVE WriterInv'
<1>1. caller[c].at = "idle" /\ Len(answered[c]) < MaxWrites /\ mu = "nobody"
  BY WriterTypes DEF Writer!Submit, Writer!Current, Writer!Writes, Writer!Nobody
<1>2. \/ Writer!Down /\ caller' = [caller EXCEPT ![c].at = "inline"] /\ UNCHANGED <<mu, writer>>
      \/ ~Writer!Down /\ Len(writer[gen].queue) < WriterQueue /\ Writer!Enqueue(c) /\ UNCHANGED mu
      \/ ~Writer!Down /\ mu' = c /\ caller' = [caller EXCEPT ![c].at = "blocked"] /\ UNCHANGED writer
  BY DEF Writer!Submit
<1>3. UNCHANGED <<gen, started, server, written, answered>> BY DEF Writer!Submit
<1>4. ~Writer!Down => server = "running"
  BY WriterTypes DEF WriterInv, WriterLife, WriterShape, Writer!Down
<1>5. CASE Writer!Enqueue(c) /\ ~Writer!Down /\ Len(writer[gen].queue) < WriterQueue /\ UNCHANGED mu
  BY <1>1, <1>3, <1>4, <1>5, WriterEnqueues
<1>6. ASSUME NEW place \in {"inline", "blocked"}, caller' = [caller EXCEPT ![c].at = place], UNCHANGED writer,
             (place = "inline" /\ mu' = mu) \/ (place = "blocked" /\ mu' = c /\ server = "running")
      PROVE  WriterInv'
  <2>1. caller' = [caller EXCEPT ![c] = [caller[c] EXCEPT !.at = place]] BY <1>6
  <2>2. caller \in [Callers -> [at : {"idle", "blocked", "waiting", "inline"}, to : 0..WriterStarts]]
    BY DEF WriterInv, WriterShape
  <2>3. /\ caller' \in [Callers -> [at : {"idle", "blocked", "waiting", "inline"}, to : 0..WriterStarts]]
        /\ caller'[c].at = place /\ \A d \in Callers \ {c} : caller'[d] = caller[d]
    BY <2>1, <2>2
  <2>4. WriterShape' BY <2>3, <1>3, <1>6 DEF WriterInv, WriterShape
  <2>5. WriterLife' BY <1>3, <1>6 DEF WriterInv, WriterLife
  <2>6. MutexHeld'
    <3>1. ASSUME NEW d \in Callers PROVE (mu' = d) <=> (caller'[d].at = "blocked")
      <4>1. CASE d = c BY <4>1, <2>3, <1>1, <1>6, WriterTypes
      <4>2. CASE d # c BY <4>2, <2>3, <1>1, <1>6, WriterTypes DEF WriterInv, MutexHeld
      <4> QED BY <4>1, <4>2
    <3> QED BY <3>1, <1>1, <1>3, <1>6 DEF MutexHeld
  <2>7. \A d \in Callers, g \in 1..WriterStarts : Holds(writer'[g].queue, d) <=> Holds(writer[g].queue, d) BY <1>6 DEF Holds
  <2>8. ASSUME NEW d \in Callers PROVE Place(d)'
    <3>1. Place(d) BY DEF WriterInv
    <3>2. CASE d = c BY <3>1, <3>2, <2>3, <2>7, <1>1, <1>6 DEF Place
    <3>3. CASE d # c BY <3>1, <3>3, <2>3, <2>7, <1>3, <1>6 DEF Place
    <3> QED BY <3>2, <3>3
  <2>9. ASSUME NEW d \in Callers PROVE Told(d)'
    <3>1. Told(d) BY DEF WriterInv
    <3>2. CASE d = c BY <3>1, <3>2, <2>3, <1>1, <1>3 DEF Told
    <3>3. CASE d # c BY <3>1, <3>3, <2>3, <1>3 DEF Told
    <3> QED BY <3>2, <3>3
  <2> QED BY <2>4, <2>5, <2>6, <2>8, <2>9 DEF WriterInv
<1> QED BY <1>2, <1>4, <1>5, <1>6

LEMMA WriterSends == ASSUME WriterInv, NEW c \in Callers, Writer!Sends(c) PROVE WriterInv'
<1>1. mu = c /\ server = "running"
  <2>1. MutexHeld BY DEF WriterInv
  <2>2. mu = c BY <2>1 DEF MutexHeld, Writer!Sends
  <2> QED BY <2>1, <2>2, WriterTypes DEF MutexHeld
<1>2. Told(c) BY DEF WriterInv
<1>3. Len(answered[c]) < MaxWrites BY <1>2 DEF Told, Writer!Sends
<1> QED BY <1>1, <1>3, WriterEnqueues DEF Writer!Sends, Writer!Nobody

LEMMA WriterTimesOut == ASSUME WriterInv, NEW c \in Callers, Writer!TimesOut(c) PROVE WriterInv'
<1>1. caller[c].at = "blocked" /\ Writer!Answer(c, "full") /\ mu' = "nobody" BY DEF Writer!TimesOut, Writer!Released, Writer!Nobody
<1>2. MutexHeld /\ Told(c) /\ Place(c) BY DEF WriterInv
<1>3. mu = c BY <1>1, <1>2 DEF MutexHeld
<1>4. \A g \in 1..WriterStarts : ~Holds(writer[g].queue, c) /\ writer[g].runs # c BY <1>1, <1>2 DEF Place
<1>5. Len(answered[c]) \in Nat /\ MaxWrites \in Nat BY WriterTypes
<1>6. written[c][Len(answered[c]) + 1] = 0 BY <1>1, <1>2, <1>5 DEF Told
<1>7. UNCHANGED <<gen, writer, started, server, written>> BY DEF Writer!TimesOut
<1>8. written' \in [Callers -> [1..MaxWrites -> Nat]] BY <1>7 DEF WriterInv, WriterShape
<1> QED BY <1>1, <1>3, <1>4, <1>6, <1>7, <1>8, WriterAnswers

\* A write is carried out once.
LEMMA WriterPerforms ==
    ASSUME WriterInv, NEW c \in Callers, Writer!Perform(c), written[c][Len(answered[c]) + 1] = 0,
           Len(answered[c]) < MaxWrites
    PROVE  /\ written' \in [Callers -> [1..MaxWrites -> Nat]]
           /\ \A d \in Callers, w \in 1..MaxWrites :
                 d # c \/ w # Len(answered[c]) + 1 => written'[d][w] = written[d][w]
           /\ written'[c][Len(answered[c]) + 1] = 1
<1>1. Len(answered[c]) \in Nat /\ MaxWrites \in Nat BY WriterTypes
<1> DEFINE w == Len(answered[c]) + 1
<1>2. w \in 1..MaxWrites BY <1>1
<1>3. written \in [Callers -> [1..MaxWrites -> Nat]] BY DEF WriterInv, WriterShape
<1>4. written' = [written EXCEPT ![c] = [written[c] EXCEPT ![w] = 1]]
  BY <1>2, <1>3 DEF Writer!Perform, Writer!Current
<1> HIDE DEF w
<1>5. [written[c] EXCEPT ![w] = 1] \in [1..MaxWrites -> Nat] BY <1>2, <1>3
<1> QED BY <1>2, <1>3, <1>4, <1>5 DEF w

LEMMA WriterInline == ASSUME WriterInv, NEW c \in Callers, Writer!RunsInline(c) PROVE WriterInv'
<1>1. caller[c].at = "inline" /\ Writer!Answer(c, "ok") /\ Writer!Perform(c) BY DEF Writer!RunsInline
<1>2. MutexHeld /\ Told(c) /\ Place(c) BY DEF WriterInv
<1>3. mu # c BY <1>1, <1>2 DEF MutexHeld
<1>4. \A g \in 1..WriterStarts : ~Holds(writer[g].queue, c) /\ writer[g].runs # c BY <1>1, <1>2 DEF Place
<1>5. Len(answered[c]) \in Nat /\ MaxWrites \in Nat BY WriterTypes
<1>6. written[c][Len(answered[c]) + 1] = 0 /\ Len(answered[c]) < MaxWrites BY <1>1, <1>2, <1>5 DEF Told
<1>7. UNCHANGED <<mu, gen, writer, started, server>> BY DEF Writer!RunsInline
<1>8. /\ written' \in [Callers -> [1..MaxWrites -> Nat]]
      /\ \A d \in Callers, w \in 1..MaxWrites :
            d # c \/ w # Len(answered[c]) + 1 => written'[d][w] = written[d][w]
      /\ written'[c][Len(answered[c]) + 1] = 1
  BY <1>1, <1>6, WriterPerforms
<1> QED BY <1>1, <1>3, <1>4, <1>7, <1>8, WriterAnswers

LEMMA WriterHears == ASSUME WriterInv, NEW c \in Callers, Writer!Hears(c) PROVE WriterInv'
<1>1. caller[c].at = "waiting" /\ Writer!Answer(c, Writer!Heard(c)) BY DEF Writer!Hears
<1>2. MutexHeld /\ Told(c) /\ Place(c) BY DEF WriterInv
<1>3. mu # c BY <1>1, <1>2 DEF MutexHeld
<1>4. caller[c].to \in 1..WriterStarts BY <1>1, <1>2 DEF Place
<1>5. Len(answered[c]) \in Nat /\ MaxWrites \in Nat BY WriterTypes
\* A writer that is done has carried out what it was handed.
<1>6. written[c][Len(answered[c]) + 1] = 1
  <2>1. written[c][Len(answered[c]) + 1] \in {0, 1} BY <1>1, <1>2 DEF Place
  <2>2. ASSUME written[c][Len(answered[c]) + 1] = 0 PROVE FALSE
    <3>1. writer[caller[c].to].done BY <2>2 DEF Writer!Hears, Writer!Current
    <3>2. writer[caller[c].to].queue = <<>> /\ writer[caller[c].to].runs = "nobody"
      BY <3>1, <1>4 DEF WriterInv, WriterLife
    <3>3. Holds(writer[caller[c].to].queue, c) \/ writer[caller[c].to].runs = c BY <2>2, <1>1, <1>2 DEF Place
    <3>4. "nobody" \notin Callers BY WriterTypes
    <3>5. ~Holds(writer[caller[c].to].queue, c) BY <3>2 DEF Holds
    <3> QED BY <3>2, <3>3, <3>4, <3>5
  <2> QED BY <2>1, <2>2
<1>7. Writer!Heard(c) = "ok" BY <1>6 DEF Writer!Heard, Writer!Current
<1>8. \A g \in 1..WriterStarts : ~Holds(writer[g].queue, c) /\ writer[g].runs # c BY <1>1, <1>2, <1>6 DEF Place
<1>9. UNCHANGED <<mu, gen, writer, started, server, written>> BY DEF Writer!Hears
<1>10. written' \in [Callers -> [1..MaxWrites -> Nat]] BY <1>9 DEF WriterInv, WriterShape
<1>11. /\ \A d \in Callers, w \in 1..MaxWrites :
             d # c \/ w # Len(answered[c]) + 1 => written'[d][w] = written[d][w]
       /\ written'[c][Len(answered[c]) + 1] = 1
  BY <1>6, <1>9
<1> QED BY <1>1, <1>3, <1>7, <1>8, <1>9, <1>10, <1>11, WriterAnswers

\* A writer that goes on: its record changes, and nothing else of the state but written.
LEMMA WriterMoves ==
    ASSUME WriterInv, NEW g \in 1..WriterStarts, NEW r \in WriterRecord, writer' = [writer EXCEPT ![g] = r],
           UNCHANGED <<mu, gen, started, server, caller, answered>>,
           written' \in [Callers -> [1..MaxWrites -> Nat]],
           r.cancelled = writer[g].cancelled,
           g <= started, Len(r.queue) <= WriterQueue,
           r.done => r.queue = <<>> /\ r.runs = "nobody" /\ r.cancelled,
           \A i, j \in 1..Len(r.queue) : r.queue[i] = r.queue[j] => i = j
    PROVE  /\ WriterShape' /\ WriterLife' /\ MutexHeld'
           /\ writer'[g] = r /\ \A h \in 1..WriterStarts \ {g} : writer'[h] = writer[h]
<1>1. writer \in [1..WriterStarts -> WriterRecord] BY DEF WriterInv, WriterShape, WriterRecord
<1>2. /\ writer' \in [1..WriterStarts -> WriterRecord]
      /\ writer'[g] = r /\ \A h \in 1..WriterStarts \ {g} : writer'[h] = writer[h]
  BY <1>1
<1>3. WriterShape' BY <1>2 DEF WriterInv, WriterShape, WriterRecord
<1>4. started \in 1..WriterStarts /\ WriterStarts \in Nat BY WriterTypes
<1>5. WriterLife'
  <2>1. ASSUME NEW h \in 1..WriterStarts
        PROVE  /\ writer'[h].done => writer'[h].queue = <<>> /\ writer'[h].runs = "nobody" /\ writer'[h].cancelled
               /\ h > started => writer'[h] = Writer!NoWriter
               /\ Len(writer'[h].queue) <= WriterQueue
               /\ \A i, j \in 1..Len(writer'[h].queue) : writer'[h].queue[i] = writer'[h].queue[j] => i = j
    <3>1. CASE h = g BY <3>1, <1>2, <1>4
    <3>2. CASE h # g BY <3>2, <1>2 DEF WriterInv, WriterLife
    <3> QED BY <3>1, <3>2
  <2>2. writer'[started].cancelled <=> writer[started].cancelled BY <1>2, <1>4
  <2> QED BY <2>1, <2>2 DEF WriterInv, WriterLife
<1>6. MutexHeld' BY DEF WriterInv, MutexHeld
<1> QED BY <1>2, <1>3, <1>5, <1>6

LEMMA WriterTakes == ASSUME WriterInv, NEW g \in 1..WriterStarts, Writer!Takes(g) PROVE WriterInv'
<1> DEFINE q == writer[g].queue
           n == Len(q)
           r == [writer[g] EXCEPT !.queue = Tail(q), !.runs = Head(q)]
<1>1. writer[g] \in WriterRecord /\ q \in Seq(Callers) /\ n \in Nat /\ WriterQueue \in Nat BY WriterTypes
<1>2. /\ q # <<>> /\ writer[g].runs = "nobody" /\ ~writer[g].done /\ g <= started
      /\ writer' = [writer EXCEPT ![g] = r]
  <2>1. writer' = [writer EXCEPT ![g] = [writer[g] EXCEPT !.queue = Tail(writer[g].queue), !.runs = Head(writer[g].queue)]]
    BY DEF Writer!Takes, WriterInv, WriterShape
  <2> QED BY <2>1 DEF Writer!Takes, Writer!MayTake, Writer!Nobody
<1>3. UNCHANGED <<mu, gen, started, server, caller, written, answered>> BY DEF Writer!Takes
<1>4. n # 0 /\ Head(q) \in Callers /\ Head(q) = q[1] /\ Tail(q) \in Seq(Callers) /\ Len(Tail(q)) = n - 1
      /\ \A i \in 1..n - 1 : Tail(q)[i] = q[i + 1]
  BY <1>1, <1>2
<1>5. /\ r \in WriterRecord /\ r.queue = Tail(q) /\ r.runs = Head(q)
      /\ r.cancelled = writer[g].cancelled /\ r.done = writer[g].done
  BY <1>1, <1>4 DEF WriterRecord
<1>6. n <= WriterQueue /\ \A i, j \in 1..n : q[i] = q[j] => i = j BY DEF WriterInv, WriterLife
<1> HIDE DEF r, q, n
<1>7. \A i, j \in 1..Len(Tail(q)) : Tail(q)[i] = Tail(q)[j] => i = j
  <2> SUFFICES ASSUME NEW i \in 1..n - 1, NEW j \in 1..n - 1, Tail(q)[i] = Tail(q)[j] PROVE i = j BY <1>4
  <2>1. i + 1 \in 1..n /\ j + 1 \in 1..n /\ q[i + 1] = q[j + 1] BY <1>1, <1>4
  <2> QED BY <2>1, <1>6
<1>8. written' \in [Callers -> [1..MaxWrites -> Nat]] BY <1>3 DEF WriterInv, WriterShape
<1>9. /\ ~r.done /\ Len(r.queue) <= WriterQueue
      /\ \A i, j \in 1..Len(r.queue) : r.queue[i] = r.queue[j] => i = j
  <2>1. Len(Tail(q)) <= WriterQueue BY <1>1, <1>4, <1>6
  <2> QED BY <2>1, <1>2, <1>5, <1>7
<1>10. /\ WriterShape' /\ WriterLife' /\ MutexHeld'
       /\ writer'[g] = r /\ \A h \in 1..WriterStarts \ {g} : writer'[h] = writer[h]
  BY <1>2, <1>3, <1>5, <1>8, <1>9, WriterMoves
\* The write at the head of the queue is the one that is run.
<1>11. \A c \in Callers : Holds(writer[g].queue, c) <=> Holds(writer'[g].queue, c) \/ c = Head(q)
  <2> SUFFICES ASSUME NEW c \in Callers PROVE Holds(writer[g].queue, c) <=> Holds(writer'[g].queue, c) \/ c = Head(q) OBVIOUS
  <2>1. Holds(writer[g].queue, c) <=> \E i \in 1..n : q[i] = c BY DEF Holds, q, n
  <2>2. Holds(writer'[g].queue, c) <=> \E i \in 1..n - 1 : Tail(q)[i] = c BY <1>4, <1>5, <1>10 DEF Holds
  <2>3. (\E i \in 1..n - 1 : Tail(q)[i] = c) <=> \E i \in 2..n : q[i] = c
    <3>1. ASSUME NEW i \in 1..n - 1, Tail(q)[i] = c PROVE \E j \in 2..n : q[j] = c
      <4>1. i + 1 \in 2..n /\ q[i + 1] = c BY <1>1, <1>4, <3>1
      <4> QED BY <4>1
    <3>2. ASSUME NEW i \in 2..n, q[i] = c PROVE \E j \in 1..n - 1 : Tail(q)[j] = c
      <4>1. i - 1 \in 1..n - 1 /\ (i - 1) + 1 = i BY <1>1
      <4>2. Tail(q)[i - 1] = q[(i - 1) + 1] BY <4>1, <1>4
      <4>3. Tail(q)[i - 1] = c BY <4>1, <4>2, <3>2
      <4> QED BY <4>1, <4>3
    <3> QED BY <3>1, <3>2
  <2>4. 1..n = {1} \cup 2..n BY <1>1, <1>4
  <2> QED BY <2>1, <2>2, <2>3, <2>4, <1>4
<1>12. ~Holds(writer'[g].queue, Head(q))
  <2>1. Holds(writer'[g].queue, Head(q)) <=> \E i \in 1..n - 1 : Tail(q)[i] = Head(q) BY <1>4, <1>5, <1>10 DEF Holds
  <2>2. ASSUME NEW i \in 1..n - 1, Tail(q)[i] = Head(q) PROVE FALSE
    <3>1. i + 1 \in 1..n /\ 1 \in 1..n /\ q[i + 1] = q[1] /\ i + 1 # 1 BY <1>1, <1>4, <2>2
    <3> QED BY <3>1, <1>6
  <2> QED BY <2>1, <2>2
<1>13. \A c \in Callers, h \in 1..WriterStarts \ {g} : Holds(writer'[h].queue, c) <=> Holds(writer[h].queue, c) BY <1>10 DEF Holds
<1>14. "nobody" \notin Callers BY WriterTypes
<1>15. ASSUME NEW c \in Callers PROVE Place(c)'
  <2>1. Place(c) BY DEF WriterInv
  <2>2. ASSUME NEW h \in 1..WriterStarts
        PROVE  /\ (Holds(writer'[h].queue, c) \/ writer'[h].runs = c) <=> (Holds(writer[h].queue, c) \/ writer[h].runs = c)
               /\ ~(Holds(writer'[h].queue, c) /\ writer'[h].runs = c)
    <3>1. CASE h = g BY <3>1, <1>2, <1>5, <1>10, <1>11, <1>12, <1>14
    <3>2. CASE h # g BY <3>2, <1>10, <1>13, <2>1 DEF Place
    <3> QED BY <3>1, <3>2
  <2> QED BY <2>1, <2>2, <1>3 DEF Place
<1>16. ASSUME NEW c \in Callers PROVE Told(c)' BY <1>3 DEF WriterInv, Told
<1> QED BY <1>10, <1>15, <1>16 DEF WriterInv

LEMMA WriterFinishes == ASSUME WriterInv, NEW g \in 1..WriterStarts, Writer!Finishes(g) PROVE WriterInv'
<1> DEFINE c == writer[g].runs
           r == [writer[g] EXCEPT !.runs = "nobody"]
<1>1. writer[g] \in WriterRecord /\ c \in Callers /\ "nobody" \notin Callers
  BY WriterTypes DEF Writer!Finishes, Writer!Nobody
<1>2. UNCHANGED <<mu, gen, started, server, caller, answered>> /\ Writer!Perform(c) BY DEF Writer!Finishes
<1>3. writer' = [writer EXCEPT ![g] = r]
  BY DEF Writer!Finishes, Writer!Nobody, WriterInv, WriterShape
<1>4. /\ r \in WriterRecord /\ r.queue = writer[g].queue /\ r.runs = "nobody"
      /\ r.cancelled = writer[g].cancelled /\ r.done = writer[g].done
  BY <1>1 DEF WriterRecord
<1> HIDE DEF r, c
<1>5. Place(c) /\ Told(c) /\ writer[g].runs = c BY <1>1 DEF WriterInv, c
<1>6. /\ caller[c].at = "waiting" /\ caller[c].to = g /\ ~Holds(writer[g].queue, c) /\ written[c][Len(answered[c]) + 1] = 0
      /\ Len(answered[c]) < MaxWrites
  BY <1>5 DEF Place, Told
<1>7. /\ written' \in [Callers -> [1..MaxWrites -> Nat]]
      /\ \A d \in Callers, w \in 1..MaxWrites :
            d # c \/ w # Len(answered[c]) + 1 => written'[d][w] = written[d][w]
      /\ written'[c][Len(answered[c]) + 1] = 1
  BY <1>1, <1>2, <1>6, WriterPerforms
<1>8. g <= started
  <2>1. writer[g] # Writer!NoWriter BY <1>1, <1>5 DEF Writer!NoWriter, Writer!Nobody
  <2>2. g \in Int /\ started \in Int BY WriterTypes
  <2> QED BY <2>1, <2>2 DEF WriterInv, WriterLife
<1>9. /\ r.done => r.queue = <<>> /\ r.runs = "nobody" /\ r.cancelled
      /\ Len(r.queue) <= WriterQueue /\ \A i, j \in 1..Len(r.queue) : r.queue[i] = r.queue[j] => i = j
  BY <1>4 DEF WriterInv, WriterLife
<1>10. /\ WriterShape' /\ WriterLife' /\ MutexHeld'
       /\ writer'[g] = r /\ \A h \in 1..WriterStarts \ {g} : writer'[h] = writer[h]
  BY <1>2, <1>3, <1>4, <1>7, <1>8, <1>9, WriterMoves
<1>11. \A d \in Callers, h \in 1..WriterStarts : Holds(writer'[h].queue, d) <=> Holds(writer[h].queue, d) BY <1>4, <1>10 DEF Holds
<1>12. \A d \in Callers : Len(answered[d]) \in Nat BY WriterTypes
<1>13. MaxWrites \in Nat BY WriterTypes
<1>14. ASSUME NEW d \in Callers PROVE Place(d)'
  <2>1. Place(d) /\ Told(d) BY DEF WriterInv
  <2>2. CASE d = c
    <3>1. \A h \in 1..WriterStarts : ~Holds(writer'[h].queue, c) BY <1>1, <1>5, <1>6, <1>11 DEF Place
    <3>2. \A h \in 1..WriterStarts : writer'[h].runs # c
      <4>1. ASSUME NEW h \in 1..WriterStarts, h # g PROVE writer'[h].runs # c BY <4>1, <1>5, <1>6, <1>10 DEF Place
      <4>2. writer'[g].runs # c BY <1>1, <1>4, <1>10
      <4> QED BY <4>1, <4>2
    <3>3. written'[c][Len(answered'[c]) + 1] = 1 /\ caller'[c].to \in 1..WriterStarts BY <1>2, <1>5, <1>6, <1>7 DEF Place
    <3> QED BY <2>2, <3>1, <3>2, <3>3 DEF Place
  <2>3. CASE d # c
    <3>1. \A h \in 1..WriterStarts : writer'[h].runs = d <=> writer[h].runs = d
      BY <2>3, <1>1, <1>4, <1>5, <1>10
    <3>2. caller[d].at = "waiting" => Len(answered[d]) + 1 \in 1..MaxWrites BY <2>1, <1>12, <1>13 DEF Told
    <3>3. caller[d].at = "waiting" => written'[d][Len(answered[d]) + 1] = written[d][Len(answered[d]) + 1]
      BY <2>3, <3>2, <1>7
    <3> QED BY <2>1, <3>1, <3>3, <1>2, <1>11 DEF Place
  <2> QED BY <2>2, <2>3
<1>15. ASSUME NEW d \in Callers PROVE Told(d)'
  <2>1. Told(d) BY DEF WriterInv
  <2>2. \A w \in 1..MaxWrites : d # c \/ w # Len(answered[c]) + 1 => written'[d][w] = written[d][w] BY <1>7
  <2>3. ASSUME NEW w \in 1..Len(answered[d]) PROVE written'[d][w] = written[d][w]
    <3>1. w \in 1..MaxWrites BY <2>1, <1>12, <1>13 DEF Told
    <3>2. d # c \/ w # Len(answered[c]) + 1 BY <1>12
    <3> QED BY <2>2, <3>1, <3>2
  <2>4. ASSUME NEW w \in 1..MaxWrites,
               w > Len(answered[d]) + 1 \/ (w = Len(answered[d]) + 1 /\ caller[d].at # "waiting")
        PROVE  written'[d][w] = 0
    <3>1. written[d][w] = 0 BY <2>1, <2>4 DEF Told
    <3>2. d # c \/ w # Len(answered[c]) + 1 BY <2>4, <1>6, <1>12
    <3> QED BY <2>2, <3>1, <3>2
  <2> QED BY <2>1, <2>3, <2>4, <1>2 DEF Told
<1> QED BY <1>10, <1>14, <1>15 DEF WriterInv

LEMMA WriterEnds == ASSUME WriterInv, NEW g \in 1..WriterStarts, Writer!Ends(g) PROVE WriterInv'
<1> DEFINE r == [writer[g] EXCEPT !.done = TRUE]
<1>1. writer[g] \in WriterRecord BY WriterTypes
<1>2. UNCHANGED <<mu, gen, started, server, caller, written, answered>> BY DEF Writer!Ends
<1>3. /\ writer' = [writer EXCEPT ![g] = r] /\ writer[g].cancelled /\ writer[g].runs = "nobody" /\ writer[g].queue = <<>>
  BY DEF Writer!Ends, Writer!Drained, Writer!Nobody, WriterInv, WriterShape
<1>4. /\ r \in WriterRecord /\ r.queue = writer[g].queue /\ r.runs = writer[g].runs
      /\ r.cancelled = writer[g].cancelled
  BY <1>1 DEF WriterRecord
<1> HIDE DEF r
<1>5. written' \in [Callers -> [1..MaxWrites -> Nat]] BY <1>2 DEF WriterInv, WriterShape
<1>6. g <= started
  <2>1. writer[g] # Writer!NoWriter BY <1>3 DEF Writer!NoWriter
  <2>2. g \in Int /\ started \in Int BY WriterTypes
  <2> QED BY <2>1, <2>2 DEF WriterInv, WriterLife
<1>7. /\ r.done => r.queue = <<>> /\ r.runs = "nobody" /\ r.cancelled
      /\ Len(r.queue) <= WriterQueue /\ \A i, j \in 1..Len(r.queue) : r.queue[i] = r.queue[j] => i = j
  BY <1>3, <1>4 DEF WriterInv, WriterLife
<1>8. /\ WriterShape' /\ WriterLife' /\ MutexHeld'
      /\ writer'[g] = r /\ \A h \in 1..WriterStarts \ {g} : writer'[h] = writer[h]
  BY <1>2, <1>3, <1>4, <1>5, <1>6, <1>7, WriterMoves
<1>9. \A d \in Callers, h \in 1..WriterStarts : Holds(writer'[h].queue, d) <=> Holds(writer[h].queue, d) BY <1>4, <1>8 DEF Holds
<1>10. \A h \in 1..WriterStarts : writer'[h].runs = writer[h].runs BY <1>4, <1>8
<1>11. ASSUME NEW d \in Callers PROVE Place(d)'
  <2>1. Place(d) BY DEF WriterInv
  <2> QED BY <2>1, <1>2, <1>9, <1>10 DEF Place
<1>12. ASSUME NEW d \in Callers PROVE Told(d)' BY <1>2 DEF WriterInv, Told
<1> QED BY <1>8, <1>11, <1>12 DEF WriterInv

\* A step of the writer or of anything else keeps the invariant.
LEMMA WriterNext == ASSUME WriterInv, Writer!Next \/ UNCHANGED writerVars PROVE WriterInv'
<1>1. CASE UNCHANGED writerVars
  <2>1. UNCHANGED <<mu, gen, writer, started, server, caller, written, answered>> BY <1>1 DEF writerVars
  <2>2. WriterShape' BY <2>1 DEF WriterInv, WriterShape
  <2>3. WriterLife' BY <2>1 DEF WriterInv, WriterLife
  <2>4. MutexHeld' BY <2>1 DEF WriterInv, MutexHeld
  <2>5. ASSUME NEW c \in Callers PROVE Place(c)' /\ Told(c)' BY <2>1, WriterStill DEF WriterInv
  <2> QED BY <2>2, <2>3, <2>4, <2>5 DEF WriterInv
<1>2. CASE Writer!Next
  BY <1>2, WriterStart, WriterCancel, WriterStopEnds, WriterSubmits, WriterSends, WriterTimesOut, WriterInline, WriterHears,
     WriterTakes, WriterFinishes, WriterEnds DEF Writer!Next
<1> QED BY <1>1, <1>2

LEMMA WriterSound == ASSUME WriterInv PROVE WritesAnswered
<1>1. Writer!TypeOK
  <2>1. /\ mu \in Callers \cup {"nobody"} /\ gen \in 0..started /\ started \in 0..WriterStarts
        /\ server \in {"running", "stopping", "down"}
    BY WriterTypes DEF WriterInv, WriterShape
  <2>2. \A g \in 1..WriterStarts : Len(writer[g].queue) <= WriterQueue BY DEF WriterInv, WriterLife
  <2>3. \A c \in Callers : (mu = c) = (caller[c].at = "blocked") BY DEF WriterInv, MutexHeld
  <2>4. caller \in [Callers -> [at : {"idle", "blocked", "waiting", "inline"}, to : 0..WriterStarts]]
    BY DEF WriterInv, WriterShape
  <2> QED BY <2>1, <2>2, <2>3, <2>4, WriterTypes DEF Writer!TypeOK, Writer!Nobody
<1>2. Writer!AnswersTrue /\ Writer!DrainsAll BY DEF WriterInv, Told, Writer!AnswersTrue, Writer!DrainsAll
<1> QED BY <1>1, <1>2 DEF WritesAnswered

\* What the traffic writer tells a caller is true, and nobody is told that the writer stopped before
\* his write (submitTrafficWrite, runTrafficWriter, StopTrafficWriter).
THEOREM WritesStayAnswered == Spec => []WritesAnswered
<1>1. Init => WriterInv BY WriterInit DEF Init
<1>2. WriterInv /\ [Next]_vars => WriterInv'
  BY WriterNext DEF Next, HubStep, BusStep, WriterStep, RadiusStep, ClockStep, ConfigStep, BanStep, vars
<1>3. WriterInv => WritesAnswered BY WriterSound
<1> QED BY <1>1, <1>2, <1>3, PTL DEF Spec

-----------------------------------------------------------------------------
(* Queues                                                                  *)

Ordered(q) == \A i, j \in 1..Len(q) : i < j => q[i] < q[j]

Once(q) == \A i, j \in 1..Len(q) : q[i] = q[j] => i = j

LEMMA Appends ==
    ASSUME NEW S, NEW q \in Seq(S), NEW x \in S
    PROVE  /\ Append(q, x) \in Seq(S) /\ Len(Append(q, x)) = Len(q) + 1 /\ Len(q) \in Nat
           /\ \A e : Holds(Append(q, x), e) <=> Holds(q, e) \/ e = x
           /\ Once(q) /\ ~Holds(q, x) => Once(Append(q, x))
<1>1. /\ Append(q, x) \in Seq(S) /\ Len(Append(q, x)) = Len(q) + 1 /\ Len(q) \in Nat
      /\ Append(q, x)[Len(q) + 1] = x /\ \A i \in 1..Len(q) : Append(q, x)[i] = q[i]
  OBVIOUS
<1>2. 1..Len(q) + 1 = 1..Len(q) \cup {Len(q) + 1} BY <1>1
<1>3. \A e : Holds(Append(q, x), e) <=> Holds(q, e) \/ e = x BY <1>1, <1>2 DEF Holds
<1>4. ASSUME Once(q), ~Holds(q, x) PROVE Once(Append(q, x)) BY <1>1, <1>2, <1>4 DEF Once, Holds
<1> QED BY <1>1, <1>3, <1>4

LEMMA AppendsLast ==
    ASSUME NEW q \in Seq(Int), NEW x \in Int, Ordered(q), \A e \in Int : Holds(q, e) => e < x
    PROVE  Ordered(Append(q, x))
<1>1. /\ Len(Append(q, x)) = Len(q) + 1 /\ Len(q) \in Nat
      /\ Append(q, x)[Len(q) + 1] = x /\ \A i \in 1..Len(q) : Append(q, x)[i] = q[i] /\ q[i] \in Int
  OBVIOUS
<1>2. \A i \in 1..Len(q) : q[i] < x BY <1>1 DEF Holds
<1> SUFFICES ASSUME NEW i \in 1..Len(q) + 1, NEW j \in 1..Len(q) + 1, i < j PROVE Append(q, x)[i] < Append(q, x)[j]
  BY <1>1 DEF Ordered
<1>3. i \in 1..Len(q) BY <1>1
<1>4. CASE j = Len(q) + 1 BY <1>1, <1>2, <1>3, <1>4
<1>5. CASE j # Len(q) + 1
  <2>1. j \in 1..Len(q) BY <1>1, <1>5
  <2> QED BY <2>1, <1>1, <1>3 DEF Ordered
<1> QED BY <1>4, <1>5

LEMMA Tails ==
    ASSUME NEW S, NEW q \in Seq(S), q # <<>>
    PROVE  /\ Tail(q) \in Seq(S) /\ Head(q) \in S /\ Len(Tail(q)) = Len(q) - 1 /\ Len(q) \in Nat \ {0}
           /\ \A i \in 1..Len(q) - 1 : i + 1 \in 1..Len(q) /\ Tail(q)[i] = q[i + 1]
           /\ Holds(q, Head(q))
           /\ \A e : Holds(q, e) <=> Holds(Tail(q), e) \/ e = Head(q)
           /\ Once(q) => Once(Tail(q)) /\ ~Holds(Tail(q), Head(q))
<1> DEFINE n == Len(q)
<1>1. /\ n \in Nat /\ n # 0 /\ Head(q) = q[1] /\ Tail(q) \in Seq(S) /\ Len(Tail(q)) = n - 1 /\ Head(q) \in S
      /\ \A i \in 1..n - 1 : Tail(q)[i] = q[i + 1]
  OBVIOUS
<1> HIDE DEF n
<1>2. \A i \in 1..n - 1 : i + 1 \in 1..n BY <1>1
<1>3. Holds(q, Head(q)) BY <1>1 DEF Holds, n
<1>4. ASSUME NEW e PROVE Holds(q, e) <=> Holds(Tail(q), e) \/ e = Head(q)
  <2>1. Holds(Tail(q), e) => Holds(q, e)
    <3> SUFFICES ASSUME NEW i \in 1..n - 1, Tail(q)[i] = e PROVE Holds(q, e) BY <1>1 DEF Holds
    <3> QED BY <1>1, <1>2 DEF Holds, n
  <2>2. Holds(q, e) => Holds(Tail(q), e) \/ e = Head(q)
    <3> SUFFICES ASSUME NEW i \in 1..n, q[i] = e, i # 1 PROVE Holds(Tail(q), e) BY <1>1 DEF Holds, n
    <3>1. i - 1 \in 1..n - 1 /\ (i - 1) + 1 = i BY <1>1
    <3>2. Tail(q)[i - 1] = q[(i - 1) + 1] BY <3>1, <1>1
    <3>3. Tail(q)[i - 1] = e BY <3>1, <3>2
    <3> QED BY <3>1, <3>3, <1>1 DEF Holds
  <2> QED BY <2>1, <2>2, <1>3
<1>5. ASSUME Once(q) PROVE Once(Tail(q)) /\ ~Holds(Tail(q), Head(q))
  <2>0. \A i, j \in 1..n : q[i] = q[j] => i = j BY <1>5 DEF Once, n
  <2>1. ASSUME NEW i \in 1..n - 1, NEW j \in 1..n - 1, Tail(q)[i] = Tail(q)[j] PROVE i = j
    <3>1. i + 1 \in 1..n /\ j + 1 \in 1..n /\ q[i + 1] = q[j + 1] BY <1>1, <1>2, <2>1
    <3>2. i + 1 = j + 1 BY <3>1, <2>0
    <3> QED BY <3>2
  <2>2. ASSUME NEW i \in 1..n - 1, Tail(q)[i] = Head(q) PROVE FALSE
    <3>1. i + 1 \in 1..n /\ 1 \in 1..n /\ q[i + 1] = q[1] /\ i + 1 # 1 BY <1>1, <1>2, <2>2
    <3> QED BY <3>1, <2>0
  <2> QED BY <2>1, <2>2, <1>1 DEF Once, Holds
<1> QED BY <1>1, <1>2, <1>3, <1>4, <1>5 DEF n

LEMMA TailsOrdered ==
    ASSUME NEW q \in Seq(Int), q # <<>>, Ordered(q)
    PROVE  Ordered(Tail(q)) /\ \A e \in Int : Holds(Tail(q), e) => Head(q) < e
<1> DEFINE n == Len(q)
<1>1. /\ n \in Nat \ {0} /\ Head(q) = q[1] /\ Len(Tail(q)) = n - 1
      /\ \A i \in 1..n - 1 : i + 1 \in 1..n /\ Tail(q)[i] = q[i + 1]
  BY Tails
<1>2. \A i, j \in 1..n : i < j => q[i] < q[j] BY DEF Ordered
<1> HIDE DEF n
<1>3. ASSUME NEW i \in 1..n - 1, NEW j \in 1..n - 1, i < j PROVE Tail(q)[i] < Tail(q)[j]
  <2>1. i + 1 < j + 1 BY <1>1, <1>3
  <2> QED BY <2>1, <1>1, <1>2
<1>4. ASSUME NEW i \in 1..n - 1 PROVE Head(q) < Tail(q)[i]
  <2>1. 1 \in 1..n /\ 1 < i + 1 BY <1>1
  <2> QED BY <2>1, <1>1, <1>2
<1> QED BY <1>1, <1>3, <1>4 DEF Ordered, Holds

-----------------------------------------------------------------------------
(* The event bus                                                           *)

Events == 1..MaxEvents

BusRecord ==
    [id : Subscribers \cup {"none"}, queue : Seq(Events), quit : BOOLEAN,
     at : {"none", "waiting", "handling", "exited"}, event : 0..MaxEvents]

BusShape ==
    /\ ch \in Seq(Events) /\ published \in 0..MaxEvents /\ made \in 0..MaxSubs /\ subs \subseteq 1..made
    /\ sub \in [1..MaxSubs -> BusRecord]
    /\ handled \in [Subscribers -> Seq(Events)]
    /\ stop \in {"no", "marked", "closed", "returned"}

\* What has been dispatched is older than all that waits in the buffer.
Before(e) == e <= published /\ \A f \in Events : Holds(ch, f) => e < f

BusBuffer ==
    Len(ch) <= BufferSize /\ Ordered(ch) /\ \A e \in Events : Holds(ch, e) => e <= published

BusQueue(n) ==
    /\ Len(sub[n].queue) <= EventQueue /\ Ordered(sub[n].queue)
    /\ Before(sub[n].event)
    /\ \A e \in Events : Holds(sub[n].queue, e) => Before(e) /\ e > sub[n].event

BusHandled(i) ==
    /\ Once(handled[i])
    /\ \A e \in Events : Holds(handled[i], e) => Before(e)
    /\ \A e \in Events, n \in 1..MaxSubs : sub[n].id = i /\ Holds(sub[n].queue, e) => ~Holds(handled[i], e)

\* Subscribers of one id have taken over from one another: no event is with two of them.
BusApart ==
    \A n, m \in 1..MaxSubs : n # m /\ sub[n].id = sub[m].id =>
        /\ ~(n \in subs /\ m \in subs)
        /\ \A e \in Events : ~(Holds(sub[n].queue, e) /\ Holds(sub[m].queue, e))

BusLife ==
    /\ \A n \in 1..MaxSubs :
          /\ n <= made => sub[n].id \in Subscribers
          /\ n > made => sub[n] = Bus!NoSub
    /\ stop = "returned" => \A n \in 1..MaxSubs : sub[n].at \in {"none", "exited"}

BusInv ==
    /\ BusShape /\ BusBuffer /\ BusApart /\ BusLife
    /\ \A n \in 1..MaxSubs : BusQueue(n)
    /\ \A i \in Subscribers : BusHandled(i)

LEMMA BusTypes ==
    ASSUME BusInv
    PROVE  /\ MaxSubs \in Nat /\ MaxEvents \in Nat /\ BufferSize \in Nat \ {0} /\ EventQueue \in Nat \ {0}
           /\ ch \in Seq(Events) /\ Len(ch) \in Nat /\ published \in 0..MaxEvents /\ made \in 0..MaxSubs /\ subs \subseteq 1..made
           /\ 1..made \subseteq 1..MaxSubs
           /\ \A n \in 1..MaxSubs :
                 /\ sub[n] \in BusRecord /\ sub[n].queue \in Seq(Events) /\ Len(sub[n].queue) \in Nat
                 /\ sub[n].event \in 0..MaxEvents /\ sub[n].id \in Subscribers \cup {"none"}
                 /\ sub[n].at \in {"none", "waiting", "handling", "exited"}
           /\ \A i \in Subscribers : handled[i] \in Seq(Events)
<1> USE BusParameters DEF BusInv, BusShape, BusRecord, Bus!BusAssumption
<1>1. ASSUME NEW n \in 1..MaxSubs
      PROVE  /\ sub[n] \in BusRecord /\ sub[n].queue \in Seq(Events) /\ Len(sub[n].queue) \in Nat
             /\ sub[n].event \in 0..MaxEvents /\ sub[n].id \in Subscribers \cup {"none"}
             /\ sub[n].at \in {"none", "waiting", "handling", "exited"}
  <2>1. sub[n] \in BusRecord OBVIOUS
  <2> QED BY <2>1
<1> QED BY <1>1

LEMMA BusInit == Bus!Init => BusInv
<1> SUFFICES ASSUME Bus!Init PROVE BusInv OBVIOUS
<1> USE BusParameters DEF Bus!Init, Bus!BusAssumption, Bus!NoSub, Bus!Numbers
<1>0. \A e : ~Holds(<<>>, e) BY DEF Holds
<1>1. BusShape BY DEF BusShape, BusRecord
<1>2. BusBuffer BY <1>0 DEF BusBuffer, Ordered
<1>3. BusApart BY <1>0 DEF BusApart
<1>4. BusLife BY DEF BusLife
<1>5. ASSUME NEW n \in 1..MaxSubs PROVE BusQueue(n) BY <1>0 DEF BusQueue, Ordered, Before, Events
<1>6. ASSUME NEW i \in Subscribers PROVE BusHandled(i) BY <1>0 DEF BusHandled, Once
<1> QED BY <1>1, <1>2, <1>3, <1>4, <1>5, <1>6 DEF BusInv

\* Nothing is published, dispatched or taken: the queues stay, and are empty where an id is new.
LEMMA BusSteady ==
    ASSUME BusInv, UNCHANGED <<ch, published, handled>>,
           \A n \in 1..MaxSubs : sub'[n].queue = sub[n].queue /\ sub'[n].event \in {sub[n].event, 0},
           \A n \in 1..MaxSubs : sub'[n].id = sub[n].id \/ sub[n].queue = <<>>
    PROVE  /\ BusBuffer' /\ \A n \in 1..MaxSubs : BusQueue(n)'
           /\ \A i \in Subscribers : BusHandled(i)'
           /\ \A n, m \in 1..MaxSubs, e \in Events :
                 n # m /\ sub'[n].id = sub'[m].id => ~(Holds(sub'[n].queue, e) /\ Holds(sub'[m].queue, e))
<1>0. \A e : ~Holds(<<>>, e) BY DEF Holds
<1>1. BusBuffer' BY DEF BusInv, BusBuffer
<1>2. ASSUME NEW n \in 1..MaxSubs PROVE BusQueue(n)'
  <2>1. BusQueue(n) BY DEF BusInv
  <2>2. sub[n].event \in 0..MaxEvents /\ published \in 0..MaxEvents /\ MaxEvents \in Nat BY BusTypes
  <2>3. \A e \in Events : e > 0 BY <2>2 DEF Events
  <2>4. sub'[n].event <= published /\ \A f \in Events : Holds(ch, f) => sub'[n].event < f
    BY <2>1, <2>2, <2>3 DEF BusQueue, Before
  <2>5. \A e \in Events : Holds(sub[n].queue, e) => Before(e) /\ e > sub'[n].event
    BY <2>1, <2>2, <2>3 DEF BusQueue
  <2> QED BY <2>1, <2>4, <2>5 DEF BusQueue, Before
<1>3. ASSUME NEW i \in Subscribers PROVE BusHandled(i)'
  <2>1. BusHandled(i) BY DEF BusInv
  <2>2. ASSUME NEW e \in Events, NEW n \in 1..MaxSubs, sub'[n].id = i, Holds(sub'[n].queue, e) PROVE ~Holds(handled[i], e)
    <3>1. sub[n].id = i /\ Holds(sub[n].queue, e) BY <2>2, <1>0
    <3> QED BY <3>1, <2>1 DEF BusHandled
  <2> QED BY <2>1, <2>2 DEF BusHandled, Before
<1>4. ASSUME NEW n \in 1..MaxSubs, NEW m \in 1..MaxSubs, NEW e \in Events, n # m, sub'[n].id = sub'[m].id,
             Holds(sub'[n].queue, e), Holds(sub'[m].queue, e)
      PROVE  FALSE
  <2>1. sub[n].id = sub[m].id /\ Holds(sub[n].queue, e) /\ Holds(sub[m].queue, e) BY <1>4, <1>0
  <2> QED BY <2>1, <1>4 DEF BusInv, BusApart
<1> QED BY <1>1, <1>2, <1>3, <1>4

LEMMA BusSubscribe == ASSUME BusInv, NEW i \in Subscribers, Bus!Subscribe(i) PROVE BusInv'
<1>1. /\ made < MaxSubs /\ made' = made + 1 /\ stop = "no" /\ subs' = (subs \ Bus!Named(i)) \cup {made + 1}
      /\ UNCHANGED <<ch, published, handled, missed, stop, dispatcher>>
  BY DEF Bus!Subscribe, Bus!Remaining, Bus!MaySubscribe
<1>2. \A n \in Bus!Named(i) : n \in subs /\ sub[n].id = i BY DEF Bus!Named
<1>3. \A n \in subs : sub[n].id = i => n \in Bus!Named(i) BY DEF Bus!Named
<1>4. /\ made \in Nat /\ MaxSubs \in Nat /\ made + 1 \in 1..MaxSubs /\ subs \subseteq 1..made /\ 1..made \subseteq 1..MaxSubs
      /\ made + 1 \notin 1..made
  BY <1>1, BusTypes
<1>5. sub[made + 1] = Bus!NoSub BY <1>4 DEF BusInv, BusLife
<1>6. /\ sub'[made + 1] = [id |-> i, queue |-> <<>>, quit |-> FALSE, at |-> "waiting", event |-> 0]
      /\ \A n \in 1..MaxSubs \ {made + 1} : sub'[n] \in {sub[n], [sub[n] EXCEPT !.quit = TRUE]}
  BY <1>4 DEF Bus!Subscribe, Bus!NoSub, Bus!Numbers
<1>7. \A n \in 1..MaxSubs \ {made + 1} :
         /\ sub'[n] \in BusRecord /\ sub'[n].id = sub[n].id /\ sub'[n].queue = sub[n].queue
         /\ sub'[n].event = sub[n].event
  BY <1>6, BusTypes DEF BusRecord
<1>8. sub'[made + 1] \in BusRecord BY <1>6, BusTypes DEF BusRecord
<1>9. sub' \in [1..MaxSubs -> BusRecord]
  <2>1. sub' = [n \in 1..MaxSubs |-> sub'[n]] BY DEF Bus!Subscribe, Bus!Numbers
  <2>2. \A n \in 1..MaxSubs : sub'[n] \in BusRecord BY <1>7, <1>8
  <2> QED BY <2>1, <2>2
<1>10. BusShape'
  <2>1. made' \in 0..MaxSubs /\ 1..made \subseteq 1..made' /\ made + 1 \in 1..made' BY <1>1, <1>4
  <2>2. subs' \subseteq 1..made' BY <2>1, <1>1, <1>4
  <2> QED BY <2>1, <2>2, <1>1, <1>9 DEF BusInv, BusShape
<1>11. \A n \in 1..MaxSubs :
          /\ sub'[n].queue = sub[n].queue /\ sub'[n].event \in {sub[n].event, 0}
          /\ sub'[n].id = sub[n].id \/ sub[n].queue = <<>>
  BY <1>5, <1>6, <1>7 DEF Bus!NoSub
<1>12. /\ BusBuffer' /\ \A n \in 1..MaxSubs : BusQueue(n)'
       /\ \A j \in Subscribers : BusHandled(j)'
       /\ \A n, m \in 1..MaxSubs, e \in Events :
             n # m /\ sub'[n].id = sub'[m].id => ~(Holds(sub'[n].queue, e) /\ Holds(sub'[m].queue, e))
  BY <1>1, <1>11, BusSteady
<1>13. ASSUME NEW n \in 1..MaxSubs, NEW m \in 1..MaxSubs, n # m, sub'[n].id = sub'[m].id, n \in subs', m \in subs' PROVE FALSE
  <2>1. CASE n # made + 1 /\ m # made + 1
    <3>1. n \in subs /\ m \in subs /\ sub[n].id = sub[m].id BY <1>1, <1>7, <1>13, <2>1
    <3> QED BY <3>1, <1>13 DEF BusInv, BusApart
  <2>2. CASE n = made + 1
    <3>1. m \in subs /\ m \notin Bus!Named(i) /\ sub[m].id = i BY <1>1, <1>6, <1>7, <1>13, <2>2
    <3> QED BY <3>1, <1>3
  <2>3. CASE m = made + 1
    <3>1. n \in subs /\ n \notin Bus!Named(i) /\ sub[n].id = i BY <1>1, <1>6, <1>7, <1>13, <2>3
    <3> QED BY <3>1, <1>3
  <2> QED BY <2>1, <2>2, <2>3
<1>14. BusApart' BY <1>12, <1>13 DEF BusApart
<1>15. BusLife'
  <2>1. ASSUME NEW n \in 1..MaxSubs, n <= made' PROVE sub'[n].id \in Subscribers
    <3>1. CASE n = made + 1 BY <3>1, <1>6
    <3>2. CASE n # made + 1
      <4>1. n <= made BY <1>1, <1>4, <2>1, <3>2
      <4> QED BY <4>1, <3>2, <1>7 DEF BusInv, BusLife
    <3> QED BY <3>1, <3>2
  <2>2. ASSUME NEW n \in 1..MaxSubs, n > made' PROVE sub'[n] = Bus!NoSub
    <3>1. n > made /\ n # made + 1 /\ n \notin subs BY <1>1, <1>4, <2>2
    <3>2. sub'[n] = sub[n] BY <3>1, <1>2 DEF Bus!Subscribe, Bus!Numbers
    <3> QED BY <3>1, <3>2 DEF BusInv, BusLife
  <2> QED BY <2>1, <2>2, <1>1 DEF BusLife, Bus!NoSub
<1> QED BY <1>10, <1>12, <1>14, <1>15 DEF BusInv

LEMMA BusUnsubscribe == ASSUME BusInv, NEW i \in Subscribers, Bus!Unsubscribe(i) PROVE BusInv'
<1>1. subs' \subseteq subs /\ UNCHANGED <<ch, published, made, handled, missed, stop, dispatcher>>
  BY DEF Bus!Unsubscribe, Bus!Remaining
<1>2. \A n \in Bus!Named(i) : n \in subs BY DEF Bus!Named
<1>3. \A n \in 1..MaxSubs :
         sub'[n] \in {sub[n], [sub[n] EXCEPT !.quit = TRUE]} /\ (n \notin subs => sub'[n] = sub[n])
  BY <1>2 DEF Bus!Unsubscribe, Bus!Numbers
<1>4. \A n \in 1..MaxSubs :
         /\ sub'[n] \in BusRecord /\ sub'[n].id = sub[n].id /\ sub'[n].queue = sub[n].queue
         /\ sub'[n].event = sub[n].event /\ sub'[n].at = sub[n].at
  <2> SUFFICES ASSUME NEW n \in 1..MaxSubs
               PROVE  /\ sub'[n] \in BusRecord /\ sub'[n].id = sub[n].id /\ sub'[n].queue = sub[n].queue
                      /\ sub'[n].event = sub[n].event /\ sub'[n].at = sub[n].at
    OBVIOUS
  <2>1. sub[n] \in BusRecord BY BusTypes
  <2> QED BY <2>1, <1>3 DEF BusRecord
<1>5. sub' \in [1..MaxSubs -> BusRecord]
  <2>1. sub' = [n \in 1..MaxSubs |-> sub'[n]] BY DEF Bus!Unsubscribe, Bus!Numbers
  <2> QED BY <2>1, <1>4
<1>6. BusShape' BY <1>1, <1>5 DEF BusInv, BusShape
<1>7. \A n \in 1..MaxSubs :
         /\ sub'[n].queue = sub[n].queue /\ sub'[n].event \in {sub[n].event, 0}
         /\ sub'[n].id = sub[n].id \/ sub[n].queue = <<>>
  BY <1>4
<1>8. /\ BusBuffer' /\ \A n \in 1..MaxSubs : BusQueue(n)'
      /\ \A j \in Subscribers : BusHandled(j)'
      /\ \A n, m \in 1..MaxSubs, e \in Events :
            n # m /\ sub'[n].id = sub'[m].id => ~(Holds(sub'[n].queue, e) /\ Holds(sub'[m].queue, e))
  BY <1>1, <1>7, BusSteady
<1>9. BusApart' BY <1>1, <1>4, <1>8 DEF BusInv, BusApart
<1>10. BusLife'
  <2>1. ASSUME NEW n \in 1..MaxSubs, n > made PROVE sub'[n] = Bus!NoSub
    <3>1. n \notin subs BY <2>1, BusTypes
    <3> QED BY <2>1, <3>1, <1>3 DEF BusInv, BusLife
  <2> QED BY <2>1, <1>1, <1>4 DEF BusInv, BusLife
<1> QED BY <1>6, <1>8, <1>9, <1>10 DEF BusInv

\* One record changes, and its queue does not.
LEMMA BusWorker ==
    ASSUME BusInv, NEW n \in 1..MaxSubs, NEW r \in BusRecord, sub' = [sub EXCEPT ![n] = r],
           UNCHANGED <<ch, published, subs, made, handled, stop>>,
           r.id = sub[n].id, r.queue = sub[n].queue, r.event \in {sub[n].event, 0},
           sub[n].at \in {"waiting", "handling"}, stop = "returned" => r.at = "exited"
    PROVE  BusInv'
<1>1. /\ sub' \in [1..MaxSubs -> BusRecord] /\ sub'[n] = r
      /\ \A m \in 1..MaxSubs \ {n} : sub'[m] = sub[m]
  BY DEF BusInv, BusShape
<1>2. BusShape' BY <1>1 DEF BusInv, BusShape
<1>3. \A m \in 1..MaxSubs :
         /\ sub'[m].queue = sub[m].queue /\ sub'[m].event \in {sub[m].event, 0}
         /\ sub'[m].id = sub[m].id
  BY <1>1
<1>4. /\ BusBuffer' /\ \A m \in 1..MaxSubs : BusQueue(m)'
      /\ \A j \in Subscribers : BusHandled(j)'
      /\ \A k, m \in 1..MaxSubs, e \in Events :
            k # m /\ sub'[k].id = sub'[m].id => ~(Holds(sub'[k].queue, e) /\ Holds(sub'[m].queue, e))
  BY <1>3, BusSteady
<1>5. BusApart' BY <1>3, <1>4 DEF BusInv, BusApart
<1>6. BusLife'
  <2>1. sub[n] # Bus!NoSub BY DEF Bus!NoSub
  <2>2. \A m \in 1..MaxSubs : m > made => sub'[m] = Bus!NoSub BY <2>1, <1>1 DEF BusInv, BusLife
  <2>3. ASSUME stop = "returned", NEW m \in 1..MaxSubs PROVE sub'[m].at \in {"none", "exited"}
    BY <2>3, <1>1 DEF BusInv, BusLife
  <2> QED BY <2>2, <2>3, <1>3 DEF BusInv, BusLife
<1> QED BY <1>2, <1>4, <1>5, <1>6 DEF BusInv

LEMMA BusReturn == ASSUME BusInv, NEW n \in 1..MaxSubs, Bus!Return(n) PROVE BusInv'
<1> DEFINE r == [sub[n] EXCEPT !.at = "waiting", !.event = 0]
<1>1. sub[n] \in BusRecord /\ MaxEvents \in Nat BY BusTypes
<1>2. sub[n].at = "handling" /\ UNCHANGED <<ch, published, subs, made, handled, stop>> BY DEF Bus!Return
<1>3. sub' = [sub EXCEPT ![n] = r] BY DEF Bus!Return, BusInv, BusShape
<1>4. r \in BusRecord /\ r.id = sub[n].id /\ r.queue = sub[n].queue /\ r.event = 0
  <2>1. 0 \in 0..MaxEvents BY <1>1
  <2>2. sub[n] \in BusRecord BY <1>1
  <2> QED BY <2>1, <2>2 DEF BusRecord
<1>5. stop # "returned" BY <1>2 DEF BusInv, BusLife
<1> HIDE DEF r
<1> QED BY <1>2, <1>3, <1>4, <1>5, BusWorker

LEMMA BusWorkerEnds == ASSUME BusInv, NEW n \in 1..MaxSubs, Bus!WorkerEnds(n) PROVE BusInv'
<1> DEFINE r == [sub[n] EXCEPT !.at = "exited"]
<1>1. sub[n] \in BusRecord BY BusTypes
<1>2. sub[n].at = "waiting" /\ UNCHANGED <<ch, published, subs, made, handled, stop>> BY DEF Bus!WorkerEnds
<1>3. sub' = [sub EXCEPT ![n] = r] BY DEF Bus!WorkerEnds, BusInv, BusShape
<1>4. r \in BusRecord /\ r.id = sub[n].id /\ r.queue = sub[n].queue /\ r.event = sub[n].event /\ r.at = "exited"
  BY <1>1 DEF BusRecord
<1> HIDE DEF r
<1> QED BY <1>2, <1>3, <1>4, BusWorker

\* Stopping, the end of the dispatcher, and the steps of others
LEMMA BusStops ==
    ASSUME BusInv, UNCHANGED <<ch, published, subs, sub, made, handled>>,
           stop' \in {"no", "marked", "closed", "returned"},
           stop' = "returned" => stop = "returned" \/ \A n \in 1..MaxSubs : sub[n].at \in {"none", "exited"}
    PROVE  BusInv'
<1>1. BusShape' BY DEF BusInv, BusShape
<1>2. /\ BusBuffer' /\ \A m \in 1..MaxSubs : BusQueue(m)'
      /\ \A j \in Subscribers : BusHandled(j)'
  BY BusSteady
<1>3. BusApart' BY DEF BusInv, BusApart
<1>4. BusLife' BY DEF BusInv, BusLife
<1> QED BY <1>1, <1>2, <1>3, <1>4 DEF BusInv

LEMMA BusPublish == ASSUME BusInv, Bus!Publish PROVE BusInv'
<1>1. /\ published < MaxEvents /\ published' = published + 1 /\ UNCHANGED <<subs, sub, made, handled, missed, stop, dispatcher>>
      /\ ch' = ch \/ (Len(ch) < BufferSize /\ ch' = Append(ch, published + 1))
  BY DEF Bus!Publish
<1>2. /\ ch \in Seq(Events) /\ published \in 0..MaxEvents /\ MaxEvents \in Nat /\ BufferSize \in Nat
  BY BusTypes
<1>3. published + 1 \in Events /\ \A e \in Events : e \in Int BY <1>1, <1>2 DEF Events
<1>4. BusBuffer BY DEF BusInv
<1>5. /\ ch' \in Seq(Events) /\ Len(ch') <= BufferSize
      /\ \A e \in Events : Holds(ch', e) => Holds(ch, e) \/ e = published + 1
  <2>1. CASE ch' = ch BY <2>1, <1>2, <1>4 DEF BusBuffer
  <2>2. CASE Len(ch) < BufferSize /\ ch' = Append(ch, published + 1) BY <2>2, <1>2, <1>3, Appends
  <2> QED BY <2>1, <2>2, <1>1
<1>6. Ordered(ch')
  <2>1. CASE ch' = ch BY <2>1, <1>4 DEF BusBuffer
  <2>2. CASE ch' = Append(ch, published + 1)
    <3>1. Seq(Events) \subseteq Seq(Int) BY <1>3
    <3>2. ASSUME NEW e \in Int, Holds(ch, e) PROVE e < published + 1
      <4>1. e \in Events BY <3>2, <1>2 DEF Holds
      <4>2. e <= published BY <4>1, <3>2, <1>4 DEF BusBuffer
      <4> QED BY <4>2, <1>2
    <3> QED BY <2>2, <3>1, <3>2, <1>2, <1>3, <1>4, AppendsLast DEF BusBuffer
  <2> QED BY <2>1, <2>2, <1>1
<1>7. BusBuffer'
  <2>1. ASSUME NEW e \in Events, Holds(ch', e) PROVE e <= published'
    <3>1. CASE Holds(ch, e)
      <4>1. e <= published BY <3>1, <1>4 DEF BusBuffer
      <4> QED BY <4>1, <1>1, <1>2, <1>3
    <3>2. CASE e = published + 1 BY <3>2, <1>1, <1>2
    <3> QED BY <3>1, <3>2, <2>1, <1>5
  <2> QED BY <2>1, <1>5, <1>6 DEF BusBuffer
<1>8. ASSUME NEW e \in 0..MaxEvents, Before(e) PROVE e <= published' /\ \A f \in Events : Holds(ch', f) => e < f
  <2>1. e <= published /\ \A f \in Events : Holds(ch, f) => e < f BY <1>8 DEF Before
  <2>2. e < published + 1 /\ e <= published' BY <2>1, <1>1, <1>2
  <2> QED BY <2>1, <2>2, <1>5
<1>9. ASSUME NEW n \in 1..MaxSubs PROVE BusQueue(n)'
  <2>1. BusQueue(n) BY DEF BusInv
  <2>2. sub[n].event \in 0..MaxEvents /\ Events \subseteq 0..MaxEvents BY BusTypes DEF Events
  <2>3. sub[n].event <= published' /\ \A f \in Events : Holds(ch', f) => sub[n].event < f BY <2>1, <2>2, <1>8 DEF BusQueue
  <2>4. \A e \in Events : Holds(sub[n].queue, e) =>
           e > sub[n].event /\ e <= published' /\ \A f \in Events : Holds(ch', f) => e < f
    BY <2>1, <2>2, <1>8 DEF BusQueue
  <2> QED BY <2>1, <2>3, <2>4, <1>1 DEF BusQueue, Before
<1>10. ASSUME NEW i \in Subscribers PROVE BusHandled(i)'
  <2>1. BusHandled(i) BY DEF BusInv
  <2>2. \A e \in Events : Holds(handled[i], e) => e <= published' /\ \A f \in Events : Holds(ch', f) => e < f
    <3>1. Events \subseteq 0..MaxEvents BY <1>2 DEF Events
    <3> QED BY <2>1, <3>1, <1>8 DEF BusHandled
  <2> QED BY <2>1, <2>2, <1>1 DEF BusHandled, Before
<1>11. BusShape' BY <1>1, <1>2, <1>5 DEF BusInv, BusShape
<1>12. BusApart' /\ BusLife' BY <1>1 DEF BusInv, BusApart, BusLife
<1> QED BY <1>7, <1>9, <1>10, <1>11, <1>12 DEF BusInv

LEMMA BusTake == ASSUME BusInv, NEW n \in 1..MaxSubs, Bus!Take(n) PROVE BusInv'
<1> DEFINE q == sub[n].queue
           e == Head(q)
           i == sub[n].id
           r == [sub[n] EXCEPT !.queue = Tail(q), !.at = "handling", !.event = e]
<1>1. sub[n] \in BusRecord /\ q \in Seq(Events) /\ MaxEvents \in Nat /\ Events \subseteq 0..MaxEvents
  BY BusTypes DEF Events
<1>2. /\ sub[n].at = "waiting" /\ q # <<>> /\ UNCHANGED <<ch, published, subs, made, missed, stop, dispatcher>>
      /\ sub' = [sub EXCEPT ![n] = r] /\ handled' = [handled EXCEPT ![i] = Append(handled[i], e)]
  BY DEF Bus!Take
<1>3. /\ Tail(q) \in Seq(Events) /\ e \in Events /\ Len(Tail(q)) = Len(q) - 1 /\ Len(q) \in Nat
      /\ Holds(q, e) /\ \A f : Holds(q, f) <=> Holds(Tail(q), f) \/ f = e
  BY <1>1, <1>2, Tails
<1>4. /\ r \in BusRecord /\ r.id = i /\ r.queue = Tail(q) /\ r.at = "handling" /\ r.event = e
  <2>1. e \in 0..MaxEvents /\ Tail(q) \in Seq(Events) /\ sub[n] \in BusRecord BY <1>1, <1>3
  <2> HIDE DEF q, e
  <2> QED BY <2>1 DEF BusRecord
<1> HIDE DEF q, e, i, r
<1>5. BusQueue(n) /\ sub[n].queue = q BY DEF BusInv, q
<1>6. Ordered(Tail(q)) /\ \A f \in Events : Holds(Tail(q), f) => e < f
  <2>1. q \in Seq(Int) /\ Events \subseteq Int BY <1>1 DEF Events
  <2> QED BY <2>1, <1>2, <1>5, TailsOrdered DEF BusQueue, e
<1>7. made \in 0..MaxSubs /\ MaxSubs \in Nat BY BusTypes
<1>8. i \in Subscribers
  <2>1. sub[n] # Bus!NoSub BY <1>2 DEF Bus!NoSub
  <2> QED BY <2>1, <1>7 DEF BusInv, BusLife, i
<1>9. /\ sub' \in [1..MaxSubs -> BusRecord] /\ sub'[n] = r
      /\ \A m \in 1..MaxSubs \ {n} : sub'[m] = sub[m]
  BY <1>2, <1>4 DEF BusInv, BusShape
<1>10. \A m \in 1..MaxSubs :
          /\ sub'[m].id = sub[m].id
          /\ \A f : Holds(sub'[m].queue, f) => Holds(sub[m].queue, f)
  BY <1>3, <1>4, <1>5, <1>9 DEF i
<1>11. handled[i] \in Seq(Events) /\ BusHandled(i) BY <1>8, BusTypes DEF BusInv
<1>12. ~Holds(handled[i], e) BY <1>3, <1>5, <1>11 DEF BusHandled, i
<1>13. /\ handled' \in [Subscribers -> Seq(Events)]
       /\ handled'[i] = Append(handled[i], e)
       /\ \A j \in Subscribers \ {i} : handled'[j] = handled[j]
  <2>1. Append(handled[i], e) \in Seq(Events) BY <1>3, <1>11, Appends
  <2> QED BY <2>1, <1>2, <1>8 DEF BusInv, BusShape
<1>14. Once(handled'[i]) /\ \A f : Holds(handled'[i], f) <=> Holds(handled[i], f) \/ f = e
  BY <1>3, <1>11, <1>12, <1>13, Appends DEF BusHandled
<1>15. BusShape' BY <1>2, <1>9, <1>13 DEF BusInv, BusShape
<1>16. BusBuffer' BY <1>2 DEF BusInv, BusBuffer
<1>17. \A f \in Events : Before(f) => Before(f)' BY <1>2 DEF Before
<1>18. Before(e) BY <1>3, <1>5 DEF BusQueue
<1>19. ASSUME NEW m \in 1..MaxSubs PROVE BusQueue(m)'
  <2>1. CASE m = n
    <3>1. Len(Tail(q)) <= EventQueue BY <1>3, <1>5, BusTypes DEF BusQueue
    <3>2. \A f \in Events : Holds(Tail(q), f) => f <= published /\ (\A h \in Events : Holds(ch, h) => f < h) /\ f > e
      BY <1>3, <1>5, <1>6, BusTypes DEF BusQueue, Before
    <3>3. e <= published /\ \A h \in Events : Holds(ch, h) => e < h BY <1>18 DEF Before
    <3> QED BY <2>1, <3>1, <3>2, <3>3, <1>2, <1>4, <1>6, <1>9 DEF BusQueue, Before
  <2>2. CASE m # n
    <3>1. sub'[m] = sub[m] BY <2>2, <1>9
    <3>2. BusQueue(m) BY DEF BusInv
    <3> QED BY <3>1, <3>2, <1>2 DEF BusQueue, Before
  <2> QED BY <2>1, <2>2
<1>20. ASSUME NEW j \in Subscribers PROVE BusHandled(j)'
  <2>1. BusHandled(j) BY DEF BusInv
  <2>2. CASE j # i
    <3>1. handled'[j] = handled[j] BY <2>2, <1>13
    <3> QED BY <3>1, <2>1, <1>2, <1>10 DEF BusHandled, Before
  <2>3. CASE j = i
    <3>1. \A f \in Events : Holds(handled'[i], f) => f <= published /\ \A h \in Events : Holds(ch, h) => f < h
      BY <2>1, <2>3, <1>14, <1>18 DEF BusHandled, Before
    <3>2. ASSUME NEW f \in Events, NEW m \in 1..MaxSubs, sub'[m].id = i, Holds(sub'[m].queue, f) PROVE ~Holds(handled'[i], f)
      <4>1. Holds(sub[m].queue, f) /\ sub[m].id = i BY <3>2, <1>10
      <4>2. ~Holds(handled[i], f) BY <4>1, <2>1, <2>3 DEF BusHandled
      <4>3. CASE m = n
        <5>1. Holds(Tail(q), f) BY <4>3, <3>2, <1>4, <1>9
        <5>2. e < f /\ e \in Int BY <5>1, <1>1, <1>3, <1>6
        <5>3. f # e BY <5>2
        <5> QED BY <4>2, <5>3, <1>14
      <4>4. CASE m # n
        <5>1. sub[m].id = sub[n].id BY <4>1 DEF i
        <5>2. ~Holds(sub[m].queue, e) BY <5>1, <4>4, <1>3, <1>5 DEF BusInv, BusApart
        <5> QED BY <5>2, <4>1, <4>2, <1>14
      <4> QED BY <4>3, <4>4
    <3> QED BY <2>3, <3>1, <3>2, <1>2, <1>14 DEF BusHandled, Before
  <2> QED BY <2>2, <2>3
<1>21. BusApart' BY <1>2, <1>10 DEF BusInv, BusApart
<1>22. BusLife'
  <2>1. stop # "returned" BY <1>2 DEF BusInv, BusLife
  <2>2. sub[n] # Bus!NoSub BY <1>2 DEF Bus!NoSub
  <2>3. \A m \in 1..MaxSubs : m > made => sub'[m] = Bus!NoSub BY <2>2, <1>9 DEF BusInv, BusLife
  <2> QED BY <2>1, <2>3, <1>2, <1>10 DEF BusInv, BusLife
<1> QED BY <1>15, <1>16, <1>19, <1>20, <1>21, <1>22 DEF BusInv

LEMMA BusDispatch == ASSUME BusInv, Bus!Dispatch PROVE BusInv'
<1> DEFINE e == Head(ch)
           get == subs \ Bus!Full
<1>1. /\ ch # <<>> /\ ch' = Tail(ch) /\ UNCHANGED <<published, subs, made, handled, stop>>
      /\ sub' = [n \in 1..MaxSubs |-> IF n \in get THEN [sub[n] EXCEPT !.queue = Append(sub[n].queue, e)] ELSE sub[n]]
  BY DEF Bus!Dispatch, Bus!Queued, Bus!Numbers
<1>2. ch \in Seq(Events) /\ MaxEvents \in Nat /\ subs \subseteq 1..MaxSubs /\ EventQueue \in Nat BY BusTypes
<1>3. /\ Tail(ch) \in Seq(Events) /\ e \in Events /\ Len(Tail(ch)) = Len(ch) - 1 /\ Len(ch) \in Nat
      /\ Holds(ch, e) /\ \A f : Holds(ch, f) <=> Holds(Tail(ch), f) \/ f = e
  BY <1>1, <1>2, Tails
<1>4. Seq(Events) \subseteq Seq(Int) /\ Events \subseteq Int /\ \A f \in Events : f > 0 BY <1>2 DEF Events
<1>5. Ordered(Tail(ch)) /\ \A f \in Events : Holds(Tail(ch), f) => e < f
  BY <1>1, <1>2, <1>4, TailsOrdered DEF BusInv, BusBuffer
<1>6. e <= published BY <1>3 DEF BusInv, BusBuffer
<1>7. \A n \in get : n \in subs /\ n \in 1..MaxSubs /\ Len(sub[n].queue) # EventQueue BY <1>2 DEF Bus!Full
<1> HIDE DEF e, get
<1>8. ASSUME NEW n \in 1..MaxSubs
      PROVE  /\ sub'[n] \in BusRecord
             /\ sub'[n].id = sub[n].id /\ sub'[n].at = sub[n].at /\ sub'[n].event = sub[n].event
             /\ IF n \in get THEN sub'[n].queue = Append(sub[n].queue, e) ELSE sub'[n] = sub[n]
  <2>1. sub[n] \in BusRecord BY BusTypes
  <2>2. CASE n \notin get BY <2>1, <2>2, <1>1
  <2>3. CASE n \in get
    <3>1. sub'[n] = [sub[n] EXCEPT !.queue = Append(sub[n].queue, e)] BY <2>3, <1>1
    <3>2. Append(sub[n].queue, e) \in Seq(Events) BY <1>3, BusTypes, Appends
    <3> QED BY <2>1, <2>3, <3>1, <3>2 DEF BusRecord
  <2> QED BY <2>2, <2>3
<1>9. sub' \in [1..MaxSubs -> BusRecord]
  <2>1. sub' = [n \in 1..MaxSubs |-> sub'[n]] BY <1>1
  <2> QED BY <2>1, <1>8
<1>10. BusShape' BY <1>1, <1>3, <1>9 DEF BusInv, BusShape
<1>11. BusBuffer'
  <2>1. Len(ch') <= BufferSize BY <1>1, <1>3, BusTypes DEF BusInv, BusBuffer
  <2>2. \A f \in Events : Holds(ch', f) => f <= published BY <1>1, <1>3 DEF BusInv, BusBuffer
  <2> QED BY <2>1, <2>2, <1>1, <1>5 DEF BusBuffer
<1>12. \A f \in 0..MaxEvents : Before(f) => f < e /\ f <= published /\ \A h \in Events : Holds(ch', h) => f < h
  BY <1>1, <1>3 DEF Before
<1>13. e <= published /\ \A h \in Events : Holds(ch', h) => e < h BY <1>1, <1>5, <1>6
<1>14. Events \subseteq 0..MaxEvents BY <1>2 DEF Events
<1>15. ASSUME NEW n \in 1..MaxSubs, NEW f \in Events
       PROVE  Holds(sub'[n].queue, f) <=> Holds(sub[n].queue, f) \/ (n \in get /\ f = e)
  <2>1. CASE n \notin get BY <2>1, <1>8
  <2>2. CASE n \in get
    <3>1. sub'[n].queue = Append(sub[n].queue, e) BY <2>2, <1>8
    <3>2. sub[n].queue \in Seq(Events) BY BusTypes
    <3> QED BY <2>2, <3>1, <3>2, <1>3, Appends
  <2> QED BY <2>1, <2>2
<1>16. ASSUME NEW n \in 1..MaxSubs PROVE BusQueue(n)'
  <2>1. BusQueue(n) BY DEF BusInv
  <2>2. sub[n].event \in 0..MaxEvents /\ sub[n].queue \in Seq(Events) /\ Len(sub[n].queue) \in Nat BY BusTypes
  <2>3. sub[n].event < e /\ sub[n].event <= published /\ \A h \in Events : Holds(ch', h) => sub[n].event < h
    BY <2>1, <2>2, <1>12 DEF BusQueue
  <2>4. \A f \in Events : Holds(sub[n].queue, f) =>
           f < e /\ f > sub[n].event /\ f <= published /\ \A h \in Events : Holds(ch', h) => f < h
    BY <2>1, <1>12, <1>14 DEF BusQueue
  <2>5. \A f \in Events : Holds(sub'[n].queue, f) =>
           f > sub[n].event /\ f <= published /\ \A h \in Events : Holds(ch', h) => f < h
    <3> SUFFICES ASSUME NEW f \in Events, Holds(sub'[n].queue, f)
                 PROVE  f > sub[n].event /\ f <= published /\ \A h \in Events : Holds(ch', h) => f < h
      OBVIOUS
    <3>1. CASE Holds(sub[n].queue, f) BY <3>1, <2>4
    <3>2. CASE f = e BY <3>2, <2>2, <2>3, <1>3, <1>4, <1>13
    <3> QED BY <3>1, <3>2, <1>15
  <2>6. Len(sub'[n].queue) <= EventQueue /\ Ordered(sub'[n].queue)
    <3>1. CASE n \notin get BY <3>1, <2>1, <1>8 DEF BusQueue
    <3>2. CASE n \in get
      <4>1. sub'[n].queue = Append(sub[n].queue, e) BY <3>2, <1>8
      <4>2. Len(Append(sub[n].queue, e)) = Len(sub[n].queue) + 1 BY <2>2, <1>3, Appends
      <4>3. Len(sub[n].queue) < EventQueue BY <3>2, <2>1, <2>2, <1>2, <1>7 DEF BusQueue
      <4>4. \A f \in Int : Holds(sub[n].queue, f) => f < e
        <5>1. \A f : Holds(sub[n].queue, f) => f \in Events BY <2>2 DEF Holds
        <5> QED BY <5>1, <2>4
      <4>5. Ordered(Append(sub[n].queue, e)) BY <4>4, <2>1, <2>2, <1>3, <1>4, AppendsLast DEF BusQueue
      <4> QED BY <4>1, <4>2, <4>3, <4>5, <2>2, <1>2
    <3> QED BY <3>1, <3>2
  <2> QED BY <2>3, <2>5, <2>6, <1>1, <1>8 DEF BusQueue, Before
<1>17. ASSUME NEW j \in Subscribers PROVE BusHandled(j)'
  <2>1. BusHandled(j) BY DEF BusInv
  <2>2. \A f \in Events : Holds(handled[j], f) => f < e /\ f <= published /\ \A h \in Events : Holds(ch', h) => f < h
    BY <2>1, <1>12, <1>14 DEF BusHandled
  <2>3. ~Holds(handled[j], e) BY <2>2, <1>3, <1>4
  <2>4. \A f \in Events, n \in 1..MaxSubs : sub'[n].id = j /\ Holds(sub'[n].queue, f) => ~Holds(handled[j], f)
    BY <2>1, <2>3, <1>8, <1>15 DEF BusHandled
  <2> QED BY <2>1, <2>2, <2>4, <1>1 DEF BusHandled, Before
<1>18. BusApart'
  <2>1. ASSUME NEW n \in 1..MaxSubs, NEW m \in 1..MaxSubs, n # m, sub[n].id = sub[m].id, NEW f \in Events,
               Holds(sub'[n].queue, f), Holds(sub'[m].queue, f)
        PROVE  FALSE
    <3>1. ~(Holds(sub[n].queue, f) /\ Holds(sub[m].queue, f)) /\ ~(n \in subs /\ m \in subs)
      BY <2>1 DEF BusInv, BusApart
    <3>2. f = e BY <2>1, <3>1, <1>15
    <3>3. \A k \in 1..MaxSubs : ~Holds(sub[k].queue, e)
      <4> SUFFICES ASSUME NEW k \in 1..MaxSubs, Holds(sub[k].queue, e) PROVE FALSE OBVIOUS
      <4>1. Before(e) BY <1>3 DEF BusInv, BusQueue
      <4>2. e < e BY <4>1, <1>3 DEF Before
      <4> QED BY <4>2, <1>3, <1>4
    <3>4. n \in get /\ m \in get BY <2>1, <3>2, <3>3, <1>15
    <3> QED BY <3>1, <3>4, <1>7
  <2> QED BY <2>1, <1>1, <1>8 DEF BusInv, BusApart
<1>19. BusLife'
  <2>1. \A n \in 1..MaxSubs : n > made => sub'[n] = Bus!NoSub
    <3> SUFFICES ASSUME NEW n \in 1..MaxSubs, n > made PROVE sub'[n] = Bus!NoSub OBVIOUS
    <3>1. n \notin get BY <1>7, BusTypes
    <3> QED BY <3>1, <1>8 DEF BusInv, BusLife
  <2> QED BY <2>1, <1>1, <1>8 DEF BusInv, BusLife
<1> QED BY <1>10, <1>11, <1>16, <1>17, <1>18, <1>19 DEF BusInv

LEMMA BusNext == ASSUME BusInv, Bus!Next \/ UNCHANGED busVars PROVE BusInv'
<1>1. CASE UNCHANGED busVars
  <2>1. UNCHANGED <<ch, published, subs, sub, made, handled, stop>> BY <1>1 DEF busVars
  <2> QED BY <2>1, BusStops DEF BusInv, BusShape
<1>2. CASE Bus!Next
  <2>1. ASSUME Bus!DispatchEnds \/ Bus!StopMarks \/ Bus!StopCloses \/ Bus!StopReturns PROVE BusInv'
    <3>1. UNCHANGED <<ch, published, subs, sub, made, handled>>
      BY <2>1 DEF Bus!DispatchEnds, Bus!StopMarks, Bus!StopCloses, Bus!StopReturns
    <3>2. /\ stop' \in {"no", "marked", "closed", "returned"}
          /\ stop' = "returned" => stop = "returned" \/ \A n \in 1..MaxSubs : sub[n].at \in {"none", "exited"}
      BY <2>1 DEF Bus!DispatchEnds, Bus!StopMarks, Bus!StopCloses, Bus!StopReturns, Bus!Numbers, BusInv, BusShape
    <3> QED BY <3>1, <3>2, BusStops
  <2> QED BY <1>2, <2>1, BusPublish, BusDispatch, BusSubscribe, BusUnsubscribe, BusTake, BusReturn, BusWorkerEnds
          DEF Bus!Next, Bus!Numbers
<1> QED BY <1>1, <1>2

LEMMA BusSound == ASSUME BusInv PROVE Bus!TypeOK /\ Bus!HandledOnce /\ Bus!InOrder /\ Bus!StoppedQuiet
<1>1. Bus!TypeOK
  <2>1. \A n \in 1..MaxSubs : Len(sub[n].queue) <= EventQueue BY DEF BusInv, BusQueue
  <2>2. Len(ch) <= BufferSize /\ stop \in {"no", "marked", "closed", "returned"} BY DEF BusInv, BusBuffer, BusShape
  <2> QED BY <2>1, <2>2, BusTypes DEF Bus!TypeOK, Bus!Numbers
<1>2. Bus!HandledOnce BY DEF BusInv, BusHandled, Once, Bus!HandledOnce
<1>3. Bus!InOrder
  <2> SUFFICES ASSUME NEW n \in 1..MaxSubs, NEW k \in 1..Len(sub[n].queue) PROVE sub[n].queue[k] > sub[n].event
    BY DEF Bus!InOrder, Bus!Numbers
  <2>1. sub[n].queue[k] \in Events BY BusTypes
  <2>2. Holds(sub[n].queue, sub[n].queue[k]) BY DEF Holds
  <2> QED BY <2>1, <2>2 DEF BusInv, BusQueue
<1>4. Bus!StoppedQuiet BY DEF BusInv, BusLife, Bus!StoppedQuiet, Bus!Numbers
<1> QED BY <1>1, <1>2, <1>3, <1>4

-----------------------------------------------------------------------------
(* The push hub                                                            *)

Messages == 0..MaxVersion

RegisterOp(c) == [kind |-> "register", c |-> c]
UnregisterOp(c) == [kind |-> "unregister", c |-> c]
Ops == [kind : {"register", "unregister"}, c : Sessions]

HubShape ==
    /\ hub \in {"running", "waiting", "down", "stopped"} /\ attempts \in 0..Attempts
    /\ hub \in {"running", "waiting"} => attempts < Attempts
    /\ clients \subseteq Sessions /\ version \in Messages /\ recent \in BOOLEAN
    /\ ops \in Seq(Ops) /\ Len(ops) <= OpsQueue /\ Once(ops)
    /\ broadcast \in Seq(Messages) /\ Len(broadcast) <= BroadcastQueue
    /\ send \in [Sessions -> Seq(Messages)] /\ closed \in [Sessions -> BOOLEAN]
    /\ conn \in [Sessions -> {"none", "upgraded", "open", "leaving", "gone"}]
    /\ shown \in [Sessions -> Messages] /\ since \in [Sessions -> Messages]
    /\ handler \in [Handlers -> -2..MaxVersion]

\* What a handler is about to push or the hub to fan out is no newer than the list.
HubBounds ==
    /\ \A h \in Handlers : handler[h] <= version
    /\ \A m \in Messages : Holds(broadcast, m) => m <= version

\* Every registration in the queue of a connection that has gone is followed by its removal.
Follows(q, c) ==
    \A i \in 1..Len(q) : q[i] = RegisterOp(c) => \E j \in 1..Len(q) : j > i /\ q[j] = UnregisterOp(c)

HubRegistry(c) ==
    /\ conn[c] \in {"none", "upgraded"} => c \notin clients /\ ~closed[c] /\ ~Holds(ops, RegisterOp(c))
    /\ Holds(ops, RegisterOp(c)) => c \notin clients /\ ~closed[c]
    /\ c \in clients => ~closed[c]
    /\ conn[c] # "gone" => ~Holds(ops, UnregisterOp(c))
    /\ conn[c] = "gone" /\ ~lost => (c \in clients => Holds(ops, UnregisterOp(c))) /\ Follows(ops, c)

HubChannel(c) ==
    /\ Len(send[c]) <= SendQueue /\ shown[c] <= version
    /\ \A m \in Messages : Holds(send[c], m) => m <= version

\* The newest version, or an invalidate, is on its way to every session that has not seen it.
Fresh == {version, 0}
HubCarried(c) ==
    c \in clients /\ ~lost /\ version > since[c] =>
        \/ shown[c] = version
        \/ \E h \in Handlers : handler[h] = -2 \/ handler[h] \in Fresh
        \/ \E m \in Fresh : Holds(broadcast, m) \/ Holds(send[c], m)

HubInv ==
    /\ HubShape /\ HubBounds
    /\ \A c \in Sessions : HubRegistry(c) /\ HubChannel(c) /\ HubCarried(c)

LEMMA HubTypes ==
    ASSUME HubInv
    PROVE  /\ MaxVersion \in Nat /\ Messages \subseteq Int /\ version \in Messages /\ 0 \in Messages /\ Fresh \subseteq Messages
           /\ {OpsQueue, BroadcastQueue, SendQueue, Attempts} \subseteq Nat \ {0}
           /\ ops \in Seq(Ops) /\ Len(ops) \in Nat /\ broadcast \in Seq(Messages) /\ Len(broadcast) \in Nat
           /\ \A c \in Sessions :
                 /\ send[c] \in Seq(Messages) /\ Len(send[c]) \in Nat /\ closed[c] \in BOOLEAN
                 /\ shown[c] \in Messages /\ since[c] \in Messages
                 /\ RegisterOp(c) \in Ops /\ UnregisterOp(c) \in Ops
           /\ \A h \in Handlers : handler[h] \in -2..MaxVersion
<1> USE HubParameters DEF HubInv, HubShape, Hub!HubAssumption
<1>1. MaxVersion \in Nat /\ {OpsQueue, BroadcastQueue, SendQueue, Attempts} \subseteq Nat \ {0} OBVIOUS
<1>2. Messages \subseteq Int /\ version \in Messages /\ 0 \in Messages /\ Fresh \subseteq Messages BY <1>1 DEF Messages, Fresh
<1>3. ASSUME NEW c \in Sessions
      PROVE  /\ send[c] \in Seq(Messages) /\ Len(send[c]) \in Nat /\ closed[c] \in BOOLEAN
             /\ shown[c] \in Messages /\ since[c] \in Messages
             /\ RegisterOp(c) \in Ops /\ UnregisterOp(c) \in Ops
  BY DEF RegisterOp, UnregisterOp, Ops
<1> QED BY <1>1, <1>2, <1>3

LEMMA HubInit == Hub!Init => HubInv
<1> SUFFICES ASSUME Hub!Init PROVE HubInv OBVIOUS
<1>0. \A e : ~Holds(<<>>, e) BY DEF Holds
<1> USE HubParameters DEF Hub!Init, Hub!HubAssumption, Hub!Idle, Messages
<1>1. HubShape
  <2>1. /\ attempts \in 0..Attempts /\ attempts < Attempts /\ version \in Messages /\ 0 \in Messages
        /\ -1 \in -2..MaxVersion
    OBVIOUS
  <2>2. <<>> \in Seq(Ops) /\ <<>> \in Seq(Messages) /\ Len(<<>>) = 0 OBVIOUS
  <2>3. 0 <= OpsQueue /\ 0 <= BroadcastQueue OBVIOUS
  <2>4. Once(<<>>) BY DEF Once
  <2> HIDE DEF Messages
  <2>5. /\ send \in [Sessions -> Seq(Messages)] /\ closed \in [Sessions -> BOOLEAN]
        /\ conn \in [Sessions -> {"none", "upgraded", "open", "leaving", "gone"}]
        /\ shown \in [Sessions -> Messages] /\ since \in [Sessions -> Messages]
    BY <2>1, <2>2
  <2>6. handler \in [Handlers -> -2..MaxVersion] BY <2>1
  <2> QED BY <2>1, <2>2, <2>3, <2>4, <2>5, <2>6 DEF HubShape
<1>2. HubBounds BY <1>0 DEF HubBounds
<1>3. ASSUME NEW c \in Sessions PROVE HubRegistry(c) /\ HubChannel(c) /\ HubCarried(c)
  BY <1>0 DEF HubRegistry, HubChannel, HubCarried, Follows
<1> QED BY <1>1, <1>2, <1>3 DEF HubInv

\* Nobody is registered: connections are removed, closed, set up, or leave.
LEMMA RegistryKept ==
    ASSUME NEW c \in Sessions, HubRegistry(c), ops' = ops, lost => lost',
           c \in clients' => c \in clients,
           closed'[c] => closed[c] \/ c \in clients, c \in clients' /\ closed'[c] => closed[c],
           \/ conn'[c] = conn[c]
           \/ conn[c] = "none" /\ conn'[c] = "upgraded"
           \/ conn[c] = "open" /\ conn'[c] = "leaving"
    PROVE  HubRegistry(c)'
BY DEF HubRegistry

LEMMA ChannelKept ==
    ASSUME HubInv, NEW c \in Sessions, send'[c] = send[c], shown'[c] = shown[c], version' = version \/ version' = version + 1
    PROVE  HubChannel(c)'
<1>1. HubChannel(c) /\ shown[c] \in Int /\ version \in Int /\ Messages \subseteq Int BY HubTypes DEF HubInv
<1>2. \A m \in Int : m <= version => m <= version' BY <1>1
<1>3. shown[c] <= version' /\ \A m \in Messages : Holds(send[c], m) => m <= version' BY <1>1, <1>2 DEF HubChannel
<1> QED BY <1>1, <1>3 DEF HubChannel

\* The loop, the clock, and the steps of others
LEMMA HubLoop ==
    ASSUME HubInv, UNCHANGED <<ops, send, conn, shown, since, version, handler>>,
           hub' \in {"running", "waiting", "down", "stopped"}, attempts' \in 0..Attempts,
           hub' \in {"running", "waiting"} => attempts' < Attempts,
           recent' \in BOOLEAN, clients' \subseteq clients, closed' \in [Sessions -> BOOLEAN],
           \A c \in Sessions : closed'[c] => closed[c] \/ c \in clients,
           \A c \in Sessions : c \in clients' /\ closed'[c] => closed[c],
           \/ broadcast' = broadcast /\ lost' = lost
           \/ /\ lost' /\ broadcast' \in Seq(Messages) /\ Len(broadcast') <= BroadcastQueue
              /\ \A m \in Messages : Holds(broadcast', m) => Holds(broadcast, m)
    PROVE  HubInv'
<1>1. HubShape' BY DEF HubInv, HubShape, Messages
<1>2. HubBounds' BY DEF HubInv, HubBounds, Messages
<1>3. ASSUME NEW c \in Sessions PROVE HubRegistry(c)'
  <2>1. HubRegistry(c) BY DEF HubInv
  <2>2. c \in clients' => c \in clients OBVIOUS
  <2>3. lost => lost' OBVIOUS
  <2> QED BY <2>1, <2>2, <2>3, RegistryKept
<1>4. ASSUME NEW c \in Sessions PROVE HubChannel(c)' BY ChannelKept
<1>5. ASSUME NEW c \in Sessions PROVE HubCarried(c)'
  <2>1. HubCarried(c) BY DEF HubInv
  <2>2. CASE lost' BY <2>2 DEF HubCarried
  <2>3. CASE broadcast' = broadcast /\ lost' = lost BY <2>1, <2>3 DEF HubCarried, Fresh
  <2> QED BY <2>2, <2>3
<1> QED BY <1>1, <1>2, <1>3, <1>4, <1>5 DEF HubInv

LEMMA HubElapse == ASSUME HubInv, Hub!Elapse PROVE HubInv'
<1>1. UNCHANGED <<hub, attempts, clients, ops, broadcast, send, closed, conn, shown, since, version, handler, lost>> /\ recent' \in BOOLEAN
  BY DEF Hub!Elapse, Hub!loopVars
<1>2. /\ hub' \in {"running", "waiting", "down", "stopped"} /\ attempts' \in 0..Attempts
      /\ hub' \in {"running", "waiting"} => attempts' < Attempts
      /\ closed' \in [Sessions -> BOOLEAN]
  BY <1>1 DEF HubInv, HubShape
<1> QED BY <1>1, <1>2, HubLoop

LEMMA HubResume == ASSUME HubInv, Hub!Resume \/ Hub!Stop PROVE HubInv'
<1>1. UNCHANGED <<attempts, clients, ops, broadcast, send, closed, conn, shown, since, version, handler, lost, recent>>
  BY DEF Hub!Resume, Hub!Stop, Hub!pushVars
<1>2. hub' = hub \/ (hub = "waiting" /\ hub' \in {"stopped", "running"}) BY DEF Hub!Resume, Hub!Stop
<1>3. /\ hub' \in {"running", "waiting", "down", "stopped"} /\ attempts' \in 0..Attempts
      /\ hub' \in {"running", "waiting"} => attempts' < Attempts
      /\ closed' \in [Sessions -> BOOLEAN] /\ recent' \in BOOLEAN
  BY <1>1, <1>2 DEF HubInv, HubShape
<1> QED BY <1>1, <1>3, HubLoop

LEMMA HubShutdown == ASSUME HubInv, Hub!Shutdown PROVE HubInv'
<1>1. UNCHANGED <<attempts, ops, broadcast, send, conn, shown, since, version, handler, lost, recent>> /\ hub' = "stopped"
  BY DEF Hub!Shutdown, Hub!pushVars
<1>2. clients' = {} /\ closed' = [c \in Sessions |-> closed[c] \/ c \in clients] BY DEF Hub!Shutdown, Hub!CloseAll
<1>3. attempts' \in 0..Attempts /\ recent' \in BOOLEAN BY <1>1 DEF HubInv, HubShape
<1>4. closed' \in [Sessions -> BOOLEAN] /\ \A c \in Sessions : closed'[c] => closed[c] \/ c \in clients BY <1>2
<1> QED BY <1>1, <1>2, <1>3, <1>4, HubLoop

LEMMA HubPanic == ASSUME HubInv, Hub!Panic PROVE HubInv'
<1>1. /\ UNCHANGED <<ops, send, conn, shown, since, version, handler, recent>>
      /\ hub = "running" /\ broadcast # <<>> /\ broadcast' = Tail(broadcast) /\ lost' /\ attempts' = attempts + 1
  BY DEF Hub!Panic, Hub!pushVars
<1>2. /\ attempts \in Int /\ 0 <= attempts /\ attempts < Attempts /\ recent \in BOOLEAN /\ Attempts \in Nat
  BY <1>1, HubTypes DEF HubInv, HubShape
<1>3. /\ broadcast' \in Seq(Messages) /\ Len(broadcast') <= BroadcastQueue
      /\ \A m \in Messages : Holds(broadcast', m) => Holds(broadcast, m)
  <2>1. broadcast \in Seq(Messages) /\ Len(broadcast) <= BroadcastQueue /\ BroadcastQueue \in Nat
    BY HubTypes DEF HubInv, HubShape
  <2> QED BY <2>1, <1>1, Tails
<1>4. /\ hub' \in {"running", "waiting", "down", "stopped"} /\ attempts' \in 0..Attempts
      /\ hub' \in {"running", "waiting"} => attempts' < Attempts
  <2>1. (attempts' < Attempts /\ hub' = "waiting") \/ hub' = "down" BY DEF Hub!Panic
  <2> QED BY <2>1, <1>1, <1>2
<1>5. /\ clients' \subseteq clients /\ closed' \in [Sessions -> BOOLEAN]
      /\ \A c \in Sessions : closed'[c] => closed[c] \/ c \in clients
      /\ \A c \in Sessions : c \in clients' /\ closed'[c] => closed[c]
  <2>1. CASE UNCHANGED <<clients, closed>> BY <2>1 DEF HubInv, HubShape
  <2>2. CASE Hub!CloseAll
    <3>1. clients' = {} /\ closed' = [c \in Sessions |-> closed[c] \/ c \in clients] BY <2>2 DEF Hub!CloseAll
    <3> QED BY <3>1
  <2> QED BY <2>1, <2>2 DEF Hub!Panic
<1> QED BY <1>1, <1>2, <1>3, <1>4, <1>5, HubLoop

\* Handlers
LEMMA HubSave == ASSUME HubInv, NEW h \in Handlers, Hub!Save(h) PROVE HubInv'
<1>1. /\ version < MaxVersion /\ version' = version + 1 /\ handler' = [handler EXCEPT ![h] = -2]
      /\ UNCHANGED <<hub, attempts, clients, ops, broadcast, send, closed, conn, shown, since, recent, lost>>
  BY DEF Hub!Save, Hub!loopVars, Hub!Saved
<1>2. MaxVersion \in Nat /\ version \in Messages /\ Messages \subseteq Int BY HubTypes
<1>3. version' \in Messages /\ \A m \in Int : m <= version => m <= version' BY <1>1, <1>2 DEF Messages
<1>4. handler \in [Handlers -> -2..MaxVersion] /\ -2 \in -2..MaxVersion BY <1>2 DEF HubInv, HubShape
<1>5. /\ handler' \in [Handlers -> -2..MaxVersion] /\ handler'[h] = -2
      /\ \A k \in Handlers : handler'[k] \in {handler[k], -2}
  BY <1>1, <1>4
<1>6. HubShape' BY <1>1, <1>3, <1>5 DEF HubInv, HubShape
<1>7. HubBounds'
  <2>1. \A k \in Handlers : handler'[k] <= version'
    <3>1. -2 <= version /\ -2 \in Int /\ \A k \in Handlers : handler[k] \in Int BY <1>2, <1>4 DEF Messages
    <3> QED BY <3>1, <1>3, <1>5 DEF HubInv, HubBounds
  <2>2. \A m \in Messages : Holds(broadcast, m) => m <= version' BY <1>2, <1>3 DEF HubInv, HubBounds
  <2> QED BY <2>1, <2>2, <1>1 DEF HubBounds
<1>8. ASSUME NEW c \in Sessions PROVE HubRegistry(c)' BY <1>1, RegistryKept DEF HubInv
<1>9. ASSUME NEW c \in Sessions PROVE HubChannel(c)' BY <1>1, ChannelKept
<1>10. ASSUME NEW c \in Sessions PROVE HubCarried(c)' BY <1>5 DEF HubCarried
<1> QED BY <1>6, <1>7, <1>8, <1>9, <1>10 DEF HubInv

LEMMA HubRead == ASSUME HubInv, NEW h \in Handlers, Hub!ReadList(h) PROVE HubInv'
<1>1. UNCHANGED <<hub, attempts, clients, ops, broadcast, send, closed, conn, shown, since, version, recent, lost>>
  BY DEF Hub!ReadList, Hub!loopVars
<1>2. PICK push \in Fresh : handler' = [handler EXCEPT ![h] = IF clients = {} THEN -1 ELSE push]
  BY DEF Hub!ReadList, Hub!Idle, Hub!Invalidate, Fresh
<1>3. MaxVersion \in Nat /\ version \in Messages /\ push \in Messages /\ Messages \subseteq Int BY HubTypes
<1>4. push <= version /\ push \in -2..MaxVersion /\ -1 \in -2..MaxVersion /\ -1 <= version
  BY <1>3 DEF Fresh, Messages
<1>5. /\ handler' \in [Handlers -> -2..MaxVersion] /\ \A k \in Handlers \ {h} : handler'[k] = handler[k]
      /\ handler'[h] = IF clients = {} THEN -1 ELSE push
  BY <1>2, <1>4 DEF HubInv, HubShape
<1>6. HubShape' BY <1>1, <1>5 DEF HubInv, HubShape
<1>7. HubBounds' BY <1>1, <1>4, <1>5 DEF HubInv, HubBounds
<1>8. ASSUME NEW c \in Sessions PROVE HubRegistry(c)' BY <1>1, RegistryKept DEF HubInv
<1>9. ASSUME NEW c \in Sessions PROVE HubChannel(c)' BY <1>1, ChannelKept
<1>10. ASSUME NEW c \in Sessions PROVE HubCarried(c)'
  <2>1. CASE c \notin clients BY <2>1, <1>1 DEF HubCarried
  <2>2. CASE c \in clients
    <3>1. handler'[h] \in {version', 0} BY <2>2, <1>1, <1>5 DEF Fresh
    <3> QED BY <3>1 DEF HubCarried, Fresh
  <2> QED BY <2>1, <2>2
<1> QED BY <1>6, <1>7, <1>8, <1>9, <1>10 DEF HubInv

LEMMA HubBroadcast == ASSUME HubInv, NEW h \in Handlers, Hub!Broadcast(h) PROVE HubInv'
<1> DEFINE p == handler[h]
<1>1. /\ UNCHANGED <<hub, attempts, clients, ops, send, closed, conn, shown, since, version>>
      /\ p >= 0 /\ handler' = [handler EXCEPT ![h] = -1] /\ recent' \in BOOLEAN
  BY DEF Hub!Broadcast, Hub!loopVars, Hub!Idle
<1>2. MaxVersion \in Nat /\ version \in Messages /\ Messages \subseteq Int /\ 0 \in Messages BY HubTypes
<1>3. p \in Messages /\ p <= version /\ -1 \in -2..MaxVersion /\ -1 <= version /\ 0 <= version
  BY <1>1, <1>2, HubTypes DEF Messages, HubInv, HubBounds
<1>4. /\ handler' \in [Handlers -> -2..MaxVersion] /\ \A k \in Handlers \ {h} : handler'[k] = handler[k]
      /\ handler'[h] = -1
  BY <1>1, <1>3 DEF HubInv, HubShape
\* One message is sent: the push, or an invalidate for it.
<1>5. \/ clients = {} /\ UNCHANGED <<broadcast, lost>>
      \/ \E m \in {p, 0} : Len(broadcast) < BroadcastQueue /\ broadcast' = Append(broadcast, m) /\ UNCHANGED lost
      \/ lost' /\ UNCHANGED broadcast
  <2>1. Hub!Sent(p) = {} => clients = {} BY DEF Hub!Sent, Hub!Throttled
  <2>2. Hub!Sent(p) \subseteq {p, 0} BY DEF Hub!Sent, Hub!Throttled, Hub!Invalidate
  <2>3. Hub!Sent(p) # {} => (CHOOSE m \in Hub!Sent(p) : TRUE) \in Hub!Sent(p) OBVIOUS
  <2> QED BY <2>1, <2>2, <2>3 DEF Hub!Broadcast
<1> HIDE DEF p
<1>6. broadcast \in Seq(Messages) /\ Len(broadcast) <= BroadcastQueue /\ BroadcastQueue \in Nat BY HubTypes DEF HubInv, HubShape
<1>7. /\ broadcast' \in Seq(Messages) /\ Len(broadcast') <= BroadcastQueue
      /\ \A m \in Messages : Holds(broadcast, m) => Holds(broadcast', m)
      /\ \A m \in Messages : Holds(broadcast', m) => Holds(broadcast, m) \/ m \in {p, 0}
      /\ clients = {} \/ lost' \/ \E m \in {p, 0} : Holds(broadcast', m)
      /\ lost => lost'
  <2>1. CASE broadcast' = broadcast /\ (clients = {} \/ lost') /\ (lost => lost') BY <2>1, <1>6
  <2>2. CASE \E m \in {p, 0} : Len(broadcast) < BroadcastQueue /\ broadcast' = Append(broadcast, m) /\ UNCHANGED lost
    <3>1. PICK m \in {p, 0} : Len(broadcast) < BroadcastQueue /\ broadcast' = Append(broadcast, m) /\ UNCHANGED lost BY <2>2
    <3>2. m \in Messages BY <3>1, <1>2, <1>3
    <3>3. /\ Append(broadcast, m) \in Seq(Messages) /\ Len(Append(broadcast, m)) = Len(broadcast) + 1 /\ Len(broadcast) \in Nat
          /\ \A e : Holds(Append(broadcast, m), e) <=> Holds(broadcast, e) \/ e = m
      BY <3>2, <1>6, Appends
    <3> QED BY <3>1, <3>3, <1>6
  <2> QED BY <2>1, <2>2, <1>5
<1>8. HubShape' BY <1>1, <1>4, <1>7 DEF HubInv, HubShape
<1>9. HubBounds' BY <1>1, <1>3, <1>4, <1>7 DEF HubInv, HubBounds
<1>10. ASSUME NEW c \in Sessions PROVE HubRegistry(c)' BY <1>1, <1>7, RegistryKept DEF HubInv
<1>11. ASSUME NEW c \in Sessions PROVE HubChannel(c)' BY <1>1, ChannelKept
<1>12. ASSUME NEW c \in Sessions, c \in clients', ~lost', version' > since'[c] PROVE HubCarried(c)'
  <2>1. HubCarried(c) /\ clients # {} /\ version > since[c] /\ ~lost /\ Fresh \subseteq Messages
    BY <1>1, <1>7, <1>12, HubTypes DEF HubInv
  <2>2. CASE shown[c] = version BY <2>2, <1>1 DEF HubCarried
  <2>3. CASE \E m \in Fresh : Holds(broadcast, m) \/ Holds(send[c], m)
    BY <2>1, <2>3, <1>1, <1>7 DEF HubCarried, Fresh
  <2>4. CASE p \in Fresh
    <3>1. \E m \in Fresh : Holds(broadcast', m) BY <2>1, <2>4, <1>7, <1>12 DEF Fresh
    <3> QED BY <3>1, <1>1 DEF HubCarried, Fresh
  <2>5. CASE \E k \in Handlers \ {h} : handler[k] = -2 \/ handler[k] \in Fresh
    BY <2>5, <1>1, <1>4 DEF HubCarried, Fresh
  <2>6. p # -2 /\ p = handler[h] BY <1>3, <1>2 DEF Messages, p
  <2> QED BY <2>1, <2>2, <2>3, <2>4, <2>5, <2>6, <1>12, <1>1 DEF HubCarried
<1>13. ASSUME NEW c \in Sessions PROVE HubCarried(c)' BY <1>12 DEF HubCarried
<1> QED BY <1>8, <1>9, <1>10, <1>11, <1>13 DEF HubInv

\* Connections
LEMMA FollowsAppend ==
    ASSUME NEW c \in Sessions, NEW q \in Seq(Ops), NEW x \in Ops,
           x = UnregisterOp(c) \/ (Follows(q, c) /\ x # RegisterOp(c))
    PROVE  Follows(Append(q, x), c)
<1>1. /\ Len(Append(q, x)) = Len(q) + 1 /\ Len(q) \in Nat
      /\ Append(q, x)[Len(q) + 1] = x /\ \A i \in 1..Len(q) : Append(q, x)[i] = q[i]
  OBVIOUS
<1>2. UnregisterOp(c) # RegisterOp(c) BY DEF UnregisterOp, RegisterOp
<1> SUFFICES ASSUME NEW i \in 1..Len(q) + 1, Append(q, x)[i] = RegisterOp(c)
             PROVE  \E j \in 1..Len(q) + 1 : j > i /\ Append(q, x)[j] = UnregisterOp(c)
  BY <1>1 DEF Follows
<1>3. i \in 1..Len(q) /\ q[i] = RegisterOp(c) BY <1>1, <1>2
<1>4. CASE x = UnregisterOp(c)
  <2>1. Len(q) + 1 \in 1..Len(q) + 1 /\ Len(q) + 1 > i BY <1>1, <1>3
  <2> QED BY <2>1, <1>1, <1>4
<1>5. CASE Follows(q, c)
  <2>1. PICK j \in 1..Len(q) : j > i /\ q[j] = UnregisterOp(c) BY <1>3, <1>5 DEF Follows
  <2>2. j \in 1..Len(q) + 1 /\ Append(q, x)[j] = UnregisterOp(c) BY <2>1, <1>1
  <2> QED BY <2>1, <2>2
<1> QED BY <1>4, <1>5

LEMMA FollowsTail ==
    ASSUME NEW c \in Sessions, NEW q \in Seq(Ops), q # <<>>, Follows(q, c)
    PROVE  Follows(Tail(q), c) /\ (Head(q) = RegisterOp(c) => Holds(Tail(q), UnregisterOp(c)))
<1> DEFINE n == Len(q)
<1>1. /\ n \in Nat \ {0} /\ Head(q) = q[1] /\ Len(Tail(q)) = n - 1
      /\ \A i \in 1..n - 1 : i + 1 \in 1..n /\ Tail(q)[i] = q[i + 1]
  BY Tails
<1>2. \A i \in 1..n : q[i] = RegisterOp(c) => \E j \in 1..n : j > i /\ q[j] = UnregisterOp(c) BY DEF Follows
<1> HIDE DEF n
<1>3. \A j \in 1..n : j > 1 => j - 1 \in 1..n - 1 /\ Tail(q)[j - 1] = q[j]
  <2> SUFFICES ASSUME NEW j \in 1..n, j > 1 PROVE j - 1 \in 1..n - 1 /\ Tail(q)[j - 1] = q[j] OBVIOUS
  <2>1. j - 1 \in 1..n - 1 /\ (j - 1) + 1 = j BY <1>1
  <2>2. Tail(q)[j - 1] = q[(j - 1) + 1] BY <2>1, <1>1
  <2> QED BY <2>1, <2>2
<1>4. ASSUME NEW i \in 1..n - 1, Tail(q)[i] = RegisterOp(c)
      PROVE  \E j \in 1..n - 1 : j > i /\ Tail(q)[j] = UnregisterOp(c)
  <2>1. PICK j \in 1..n : j > i + 1 /\ q[j] = UnregisterOp(c) BY <1>1, <1>2, <1>4
  <2>2. j > 1 /\ j - 1 > i BY <2>1, <1>1
  <2> QED BY <2>1, <2>2, <1>3
<1>5. ASSUME Head(q) = RegisterOp(c) PROVE \E j \in 1..n - 1 : Tail(q)[j] = UnregisterOp(c)
  <2>1. 1 \in 1..n BY <1>1
  <2>2. PICK j \in 1..n : j > 1 /\ q[j] = UnregisterOp(c) BY <2>1, <1>1, <1>2, <1>5
  <2> QED BY <2>2, <1>3
<1> QED BY <1>1, <1>4, <1>5 DEF Follows, Holds

\* The step of a connection leaves the rest of the hub alone.
LEMMA HubConnection ==
    ASSUME HubInv, NEW c \in Sessions,
           UNCHANGED <<hub, attempts, clients, broadcast, closed, since, version, recent, handler>>,
           ops' \in Seq(Ops), Len(ops') <= OpsQueue, Once(ops'),
           send' \in [Sessions -> Seq(Messages)], shown' \in [Sessions -> Messages],
           conn' \in [Sessions -> {"none", "upgraded", "open", "leaving", "gone"}],
           \A d \in Sessions \ {c} : conn'[d] = conn[d] /\ send'[d] = send[d] /\ shown'[d] = shown[d],
           ops' = ops \/ \E x \in Ops : x.c = c /\ ops' = Append(ops, x),
           lost => lost',
           HubRegistry(c)', HubChannel(c)', HubCarried(c)'
    PROVE  HubInv'
<1>1. HubShape' BY DEF HubInv, HubShape
<1>2. HubBounds' BY DEF HubInv, HubBounds
<1>3. ASSUME NEW d \in Sessions \ {c} PROVE HubRegistry(d)' /\ HubChannel(d)' /\ HubCarried(d)'
  <2>0. HubRegistry(d) /\ HubCarried(d) /\ ops \in Seq(Ops) BY HubTypes DEF HubInv
  <2>1. CASE ops' = ops
    <3>1. HubRegistry(d)' BY <2>0, <2>1, RegistryKept
    <3>2. HubChannel(d)' BY ChannelKept
    <3>3. HubCarried(d)' BY <2>0 DEF HubCarried, Fresh
    <3> QED BY <3>1, <3>2, <3>3
  <2>2. CASE \E x \in Ops : x.c = c /\ ops' = Append(ops, x)
    <3>1. PICK x \in Ops : x.c = c /\ ops' = Append(ops, x) BY <2>2
    <3>2. x # RegisterOp(d) /\ x # UnregisterOp(d) BY <3>1 DEF RegisterOp, UnregisterOp
    <3>3. \A e : Holds(ops', e) <=> Holds(ops, e) \/ e = x BY <2>0, <3>1, Appends
    <3>4. /\ Holds(ops', RegisterOp(d)) <=> Holds(ops, RegisterOp(d))
          /\ Holds(ops', UnregisterOp(d)) <=> Holds(ops, UnregisterOp(d))
          /\ Follows(ops, d) => Follows(ops', d)
      BY <2>0, <3>1, <3>2, <3>3, FollowsAppend
    <3>5. HubRegistry(d)' BY <2>0, <3>4 DEF HubRegistry, RegisterOp, UnregisterOp
    <3>6. HubChannel(d)' BY ChannelKept
    <3>7. HubCarried(d)' BY <2>0 DEF HubCarried, Fresh
    <3> QED BY <3>5, <3>6, <3>7
  <2> QED BY <2>1, <2>2
<1> QED BY <1>1, <1>2, <1>3 DEF HubInv

LEMMA HubUpgrade == ASSUME HubInv, NEW c \in Sessions, Hub!Upgrade(c) PROVE HubInv'
<1>1. /\ UNCHANGED <<hub, attempts, clients, ops, broadcast, send, closed, since, version, recent, handler, lost>>
      /\ conn[c] = "none" /\ conn' = [conn EXCEPT ![c] = "upgraded"] /\ shown' = [shown EXCEPT ![c] = version]
  BY DEF Hub!Upgrade, Hub!loopVars, Hub!pushVars
<1>2. /\ conn' \in [Sessions -> {"none", "upgraded", "open", "leaving", "gone"}] /\ shown' \in [Sessions -> Messages]
      /\ conn'[c] = "upgraded" /\ shown'[c] = version
      /\ \A d \in Sessions \ {c} : conn'[d] = conn[d] /\ send'[d] = send[d] /\ shown'[d] = shown[d]
  BY <1>1 DEF HubInv, HubShape
<1>3. HubRegistry(c)' BY <1>1, <1>2, RegistryKept DEF HubInv
<1>4. HubChannel(c)'
  <2>1. version <= version BY HubTypes
  <2> QED BY <2>1, <1>1, <1>2 DEF HubInv, HubChannel
<1>5. HubCarried(c)' BY <1>1, <1>2 DEF HubCarried
<1>6. ops' \in Seq(Ops) /\ Len(ops') <= OpsQueue /\ Once(ops') /\ send' \in [Sessions -> Seq(Messages)]
  BY <1>1 DEF HubInv, HubShape
<1> QED BY <1>1, <1>2, <1>3, <1>4, <1>5, <1>6, HubConnection

\* A step that changes where the connection is, and what it asks of the hub.
LEMMA HubAsks ==
    ASSUME HubInv, NEW c \in Sessions, NEW s \in {"open", "leaving", "gone"},
           UNCHANGED <<hub, attempts, clients, broadcast, send, closed, shown, since, version, recent, handler>>,
           conn' = [conn EXCEPT ![c] = s], lost => lost',
           \/ ops' = ops
           \/ \E x \in Ops : x.c = c /\ ~Holds(ops, x) /\ Len(ops) < OpsQueue /\ ops' = Append(ops, x),
           HubRegistry(c)'
    PROVE  HubInv'
<1>1. /\ conn' \in [Sessions -> {"none", "upgraded", "open", "leaving", "gone"}]
      /\ \A d \in Sessions \ {c} : conn'[d] = conn[d] /\ send'[d] = send[d] /\ shown'[d] = shown[d]
  BY DEF HubInv, HubShape
<1>2. ops \in Seq(Ops) /\ Len(ops) <= OpsQueue /\ Once(ops) /\ OpsQueue \in Nat BY HubTypes DEF HubInv, HubShape
<1>3. ops' \in Seq(Ops) /\ Len(ops') <= OpsQueue /\ Once(ops')
  <2>1. CASE ops' = ops BY <2>1, <1>2
  <2>2. ASSUME NEW x \in Ops, ~Holds(ops, x), Len(ops) < OpsQueue, ops' = Append(ops, x)
        PROVE  ops' \in Seq(Ops) /\ Len(ops') <= OpsQueue /\ Once(ops')
    <3>1. /\ Append(ops, x) \in Seq(Ops) /\ Len(Append(ops, x)) = Len(ops) + 1 /\ Len(ops) \in Nat
          /\ Once(Append(ops, x))
      BY <2>2, <1>2, Appends
    <3> QED BY <3>1, <2>2, <1>2
  <2> QED BY <2>1, <2>2
<1>4. HubChannel(c)' BY ChannelKept
<1>5. HubCarried(c)'
  <2>1. HubCarried(c) BY DEF HubInv
  <2> QED BY <2>1 DEF HubCarried, Fresh
<1>6. send' \in [Sessions -> Seq(Messages)] /\ shown' \in [Sessions -> Messages] BY DEF HubInv, HubShape
<1> QED BY <1>1, <1>3, <1>4, <1>5, <1>6, HubConnection

LEMMA HubLeave == ASSUME HubInv, NEW c \in Sessions, Hub!Leave(c) PROVE HubInv'
<1>1. /\ UNCHANGED <<hub, attempts, clients, ops, broadcast, send, closed, shown, since, version, recent, handler, lost>>
      /\ conn[c] = "open" /\ conn' = [conn EXCEPT ![c] = "leaving"]
  BY DEF Hub!Leave, Hub!loopVars, Hub!pushVars
<1>2. conn'[c] = "leaving" BY <1>1 DEF HubInv, HubShape
<1>3. HubRegistry(c)' BY <1>1, <1>2, RegistryKept DEF HubInv
<1> QED BY <1>1, <1>3, HubAsks

LEMMA HubRegister == ASSUME HubInv, NEW c \in Sessions, Hub!Register(c) PROVE HubInv'
<1>1. /\ UNCHANGED <<hub, attempts, clients, broadcast, send, closed, shown, since, version, recent, handler, lost>>
      /\ conn[c] = "upgraded" /\ conn' = [conn EXCEPT ![c] = "open"]
      /\ ops' = ops \/ (Len(ops) < OpsQueue /\ ops' = Append(ops, RegisterOp(c)))
  BY DEF Hub!Register, Hub!loopVars, Hub!pushVars, RegisterOp
<1>2. conn'[c] = "open" BY <1>1 DEF HubInv, HubShape
<1>3. HubRegistry(c) /\ ~Holds(ops, RegisterOp(c)) /\ ~Holds(ops, UnregisterOp(c)) /\ c \notin clients /\ ~closed[c]
  BY <1>1 DEF HubInv, HubRegistry
<1>4. RegisterOp(c) \in Ops /\ RegisterOp(c).c = c /\ RegisterOp(c) # UnregisterOp(c) BY DEF RegisterOp, UnregisterOp, Ops
<1>5. ~Holds(ops', UnregisterOp(c))
  <2>1. ops \in Seq(Ops) BY HubTypes
  <2>2. \A e : Holds(Append(ops, RegisterOp(c)), e) <=> Holds(ops, e) \/ e = RegisterOp(c) BY <2>1, <1>4, Appends
  <2>3. ~Holds(Append(ops, RegisterOp(c)), UnregisterOp(c)) BY <2>2, <1>3, <1>4
  <2> QED BY <2>3, <1>1, <1>3
<1>6. HubRegistry(c)' BY <1>1, <1>2, <1>3, <1>5 DEF HubRegistry
<1> QED BY <1>1, <1>3, <1>4, <1>6, HubAsks

LEMMA HubUnregister == ASSUME HubInv, NEW c \in Sessions, Hub!Unregister(c) PROVE HubInv'
<1>1. /\ UNCHANGED <<hub, attempts, clients, broadcast, send, closed, shown, since, version, recent, handler>>
      /\ conn[c] = "leaving" /\ conn' = [conn EXCEPT ![c] = "gone"]
      /\ \/ Len(ops) < OpsQueue /\ ops' = Append(ops, UnregisterOp(c)) /\ UNCHANGED lost
         \/ lost' /\ ops' = ops
  BY DEF Hub!Unregister, Hub!loopVars, Hub!pushVars, UnregisterOp
<1>2. conn'[c] = "gone" BY <1>1 DEF HubInv, HubShape
<1>3. HubRegistry(c) /\ ~Holds(ops, UnregisterOp(c)) BY <1>1 DEF HubInv, HubRegistry
<1>4. UnregisterOp(c) \in Ops /\ UnregisterOp(c).c = c /\ RegisterOp(c) # UnregisterOp(c) BY DEF RegisterOp, UnregisterOp, Ops
<1>5. /\ Holds(ops', RegisterOp(c)) <=> Holds(ops, RegisterOp(c))
      /\ ~lost' => Holds(ops', UnregisterOp(c)) /\ Follows(ops', c)
  <2>1. ops \in Seq(Ops) BY HubTypes
  <2>2. \A e : Holds(Append(ops, UnregisterOp(c)), e) <=> Holds(ops, e) \/ e = UnregisterOp(c) BY <2>1, <1>4, Appends
  <2>3. Follows(Append(ops, UnregisterOp(c)), c) BY <2>1, <1>4, FollowsAppend
  <2>4. /\ Holds(Append(ops, UnregisterOp(c)), UnregisterOp(c))
        /\ Holds(Append(ops, UnregisterOp(c)), RegisterOp(c)) <=> Holds(ops, RegisterOp(c))
    BY <2>2, <1>4
  <2> QED BY <2>3, <2>4, <1>1
<1>6. HubRegistry(c)' BY <1>1, <1>2, <1>3, <1>5 DEF HubRegistry
<1>7. lost => lost' BY <1>1
<1> QED BY <1>1, <1>3, <1>4, <1>6, <1>7, HubAsks

LEMMA HubWrite == ASSUME HubInv, NEW c \in Sessions, Hub!Write(c) PROVE HubInv'
<1>1. UNCHANGED <<hub, attempts, clients, ops, broadcast, closed, since, version, recent, handler, lost>> /\ conn[c] = "open"
  BY DEF Hub!Write, Hub!loopVars, Hub!pushVars
<1>2. CASE conn' = [conn EXCEPT ![c] = "leaving"] /\ UNCHANGED <<send, shown>>
  <2>1. conn'[c] = "leaving" BY <1>2 DEF HubInv, HubShape
  <2>2. HubRegistry(c)' BY <1>1, <2>1, RegistryKept DEF HubInv
  <2> QED BY <1>1, <1>2, <2>2, HubAsks
<1>3. CASE /\ send[c] # <<>> /\ send' = [send EXCEPT ![c] = Tail(send[c])]
           /\ shown' = [shown EXCEPT ![c] = Hub!After(c, Head(send[c]))] /\ UNCHANGED conn
  <2> DEFINE q == send[c]
             m == Head(q)
  <2>1. /\ q \in Seq(Messages) /\ shown[c] \in Messages /\ version \in Messages /\ Messages \subseteq Int /\ SendQueue \in Nat
        /\ HubChannel(c) /\ HubRegistry(c) /\ HubCarried(c)
    BY HubTypes DEF HubInv
  <2>2. /\ Tail(q) \in Seq(Messages) /\ m \in Messages /\ Len(Tail(q)) = Len(q) - 1 /\ Len(q) \in Nat
        /\ Holds(q, m) /\ \A e : Holds(q, e) <=> Holds(Tail(q), e) \/ e = m
    BY <1>3, <2>1, Tails
  <2>3. m <= version /\ shown[c] <= version /\ Len(q) <= SendQueue BY <2>1, <2>2 DEF HubChannel
  <2> HIDE DEF m
  <2>4. /\ Hub!After(c, m) \in Messages /\ Hub!After(c, m) <= version
        /\ m \in Fresh => Hub!After(c, m) = version
        /\ shown[c] = version => Hub!After(c, m) = version
    <3> HIDE DEF q
    <3>1. Hub!After(c, m) \in {version, m, shown[c]} BY DEF Hub!After
    <3>2. version \in Int /\ m \in Int /\ shown[c] \in Int
      <4> HIDE DEF Messages
      <4> QED BY <2>1, <2>2
    <3>3. m \in Fresh => Hub!After(c, m) = version BY <2>3, <3>2 DEF Hub!After, Hub!Invalidate, Fresh
    <3>4. shown[c] = version => Hub!After(c, m) = version BY <2>3, <3>2 DEF Hub!After
    <3> QED BY <3>1, <3>2, <3>3, <3>4, <2>1, <2>2, <2>3
  <2>5. /\ send' \in [Sessions -> Seq(Messages)] /\ shown' \in [Sessions -> Messages]
        /\ send'[c] = Tail(q) /\ shown'[c] = Hub!After(c, m)
        /\ \A d \in Sessions \ {c} : conn'[d] = conn[d] /\ send'[d] = send[d] /\ shown'[d] = shown[d]
    <3>1. send \in [Sessions -> Seq(Messages)] /\ shown \in [Sessions -> Messages] BY DEF HubInv, HubShape
    <3>2. shown' = [shown EXCEPT ![c] = Hub!After(c, m)] BY <1>3 DEF m
    <3>3. /\ shown' \in [Sessions -> Messages] /\ shown'[c] = Hub!After(c, m)
          /\ \A d \in Sessions \ {c} : shown'[d] = shown[d]
      <4> HIDE DEF q
      <4> QED BY <3>1, <3>2, <2>4
    <3>4. /\ send' \in [Sessions -> Seq(Messages)] /\ send'[c] = Tail(q)
          /\ \A d \in Sessions \ {c} : send'[d] = send[d]
      <4>1. send' = [send EXCEPT ![c] = Tail(q)] BY <1>3
      <4> HIDE DEF q
      <4> QED BY <4>1, <3>1, <2>2
    <3> QED BY <3>3, <3>4, <1>3
  <2>6. HubRegistry(c)' BY <1>1, <1>3, <2>1, RegistryKept
  <2>7. HubChannel(c)'
    <3>1. Len(send'[c]) <= SendQueue BY <2>1, <2>2, <2>3, <2>5
    <3>2. \A e \in Messages : Holds(send'[c], e) => e <= version BY <2>1, <2>2, <2>5 DEF HubChannel
    <3> QED BY <3>1, <3>2, <2>4, <2>5, <1>1 DEF HubChannel
  <2>8. HubCarried(c)'
    <3> SUFFICES ASSUME c \in clients, ~lost, version > since[c] PROVE HubCarried(c)' BY <1>1 DEF HubCarried
    <3>1. CASE shown[c] = version \/ m \in Fresh BY <3>1, <2>4, <2>5, <1>1 DEF HubCarried
    <3>2. CASE \E h \in Handlers : handler[h] = -2 \/ handler[h] \in Fresh BY <3>2, <1>1 DEF HubCarried, Fresh
    <3>3. CASE m \notin Fresh /\ \E e \in Fresh : Holds(broadcast, e) \/ Holds(q, e)
      BY <3>3, <2>2, <2>5, <1>1 DEF HubCarried, Fresh
    <3> QED BY <3>1, <3>2, <3>3, <2>1 DEF HubCarried
  <2>9. /\ ops' \in Seq(Ops) /\ Len(ops') <= OpsQueue /\ Once(ops')
        /\ conn' \in [Sessions -> {"none", "upgraded", "open", "leaving", "gone"}]
    BY <1>1, <1>3 DEF HubInv, HubShape
  <2> QED BY <1>1, <2>5, <2>6, <2>7, <2>8, <2>9, HubConnection
<1> QED BY <1>2, <1>3 DEF Hub!Write

LEMMA HubHandle == ASSUME HubInv, Hub!HandleOp PROVE HubInv'
<1> DEFINE op == Head(ops)
<1>1. /\ UNCHANGED <<hub, attempts, broadcast, send, conn, shown, version, recent, handler, lost>>
      /\ ops # <<>> /\ ops' = Tail(ops)
  BY DEF Hub!HandleOp, Hub!loopVars, Hub!pushVars
<1>2. ops \in Seq(Ops) /\ Len(ops) <= OpsQueue /\ Once(ops) /\ OpsQueue \in Nat BY HubTypes DEF HubInv, HubShape
<1>3. /\ Tail(ops) \in Seq(Ops) /\ op \in Ops /\ Len(Tail(ops)) = Len(ops) - 1 /\ Len(ops) \in Nat
      /\ Holds(ops, op) /\ \A e : Holds(ops, e) <=> Holds(Tail(ops), e) \/ e = op
      /\ Once(Tail(ops)) /\ ~Holds(Tail(ops), op)
  BY <1>1, <1>2, Tails
<1>4. PICK c \in Sessions : op.c = c /\ op \in {RegisterOp(c), UnregisterOp(c)} /\ RegisterOp(c) # UnregisterOp(c)
  BY <1>3 DEF Ops, RegisterOp, UnregisterOp
<1>5. \A d \in Sessions \ {c} : op # RegisterOp(d) /\ op # UnregisterOp(d) BY <1>4 DEF RegisterOp, UnregisterOp
<1>6. \A d \in Sessions :
         Follows(ops, d) => Follows(ops', d) /\ (op = RegisterOp(d) => Holds(ops', UnregisterOp(d)))
  BY <1>1, <1>2, FollowsTail
<1>7. \/ op = RegisterOp(c) /\ clients' = clients \cup {c} /\ since' = [since EXCEPT ![c] = version] /\ UNCHANGED closed
      \/ /\ op = UnregisterOp(c) /\ clients' = clients \ {c} /\ UNCHANGED since
         /\ closed' = [closed EXCEPT ![c] = closed[c] \/ c \in clients]
  <2>1. op.kind = "register" <=> op = RegisterOp(c) BY <1>4 DEF RegisterOp, UnregisterOp
  <2> QED BY <2>1, <1>4 DEF Hub!HandleOp
<1> HIDE DEF op
<1>8. /\ clients' \subseteq Sessions /\ since' \in [Sessions -> Messages] /\ closed' \in [Sessions -> BOOLEAN]
      /\ \A d \in Sessions \ {c} : (d \in clients' <=> d \in clients) /\ since'[d] = since[d] /\ closed'[d] = closed[d]
  <2>1. version \in Messages /\ closed \in [Sessions -> BOOLEAN] /\ since \in [Sessions -> Messages] /\ clients \subseteq Sessions
    BY HubTypes DEF HubInv, HubShape
  <2>2. CASE /\ clients' = clients \cup {c} /\ since' = [since EXCEPT ![c] = version] /\ UNCHANGED closed
    BY <2>1, <2>2, <1>4
  <2>3. CASE /\ clients' = clients \ {c} /\ UNCHANGED since
             /\ closed' = [closed EXCEPT ![c] = closed[c] \/ c \in clients]
    BY <2>1, <2>3, <1>4
  <2> QED BY <2>2, <2>3, <1>7
<1>9. HubShape'
  <2>1. ops' \in Seq(Ops) /\ Len(ops') <= OpsQueue /\ Once(ops') BY <1>1, <1>2, <1>3
  <2> QED BY <2>1, <1>1, <1>8 DEF HubInv, HubShape
<1>10. HubBounds' BY <1>1 DEF HubInv, HubBounds
<1>11. ASSUME NEW d \in Sessions PROVE HubChannel(d)' BY <1>1, ChannelKept
<1>12. ASSUME NEW d \in Sessions, d # c PROVE HubRegistry(d)' /\ HubCarried(d)'
  <2>1. HubRegistry(d) /\ HubCarried(d) BY DEF HubInv
  <2>2. \A e : e # op => (Holds(ops', e) <=> Holds(ops, e)) BY <1>1, <1>3
  <2>3. /\ Holds(ops', RegisterOp(d)) <=> Holds(ops, RegisterOp(d))
        /\ Holds(ops', UnregisterOp(d)) <=> Holds(ops, UnregisterOp(d))
    BY <2>2, <1>5, <1>12
  <2>4. HubRegistry(d)' BY <2>1, <2>3, <1>1, <1>6, <1>8, <1>12 DEF HubRegistry, RegisterOp, UnregisterOp
  <2>5. HubCarried(d)' BY <2>1, <1>1, <1>8, <1>12 DEF HubCarried, Fresh
  <2> QED BY <2>4, <2>5
<1>13. HubRegistry(c) /\ HubCarried(c) /\ version \in Int BY <1>4, HubTypes DEF HubInv
<1>14. CASE op = RegisterOp(c)
  <2>1. clients' = clients \cup {c} /\ since' = [since EXCEPT ![c] = version] /\ UNCHANGED closed BY <1>4, <1>7, <1>14
  <2>2. Holds(ops, RegisterOp(c)) /\ ~Holds(ops', RegisterOp(c)) /\ (Holds(ops', UnregisterOp(c)) <=> Holds(ops, UnregisterOp(c)))
    BY <1>1, <1>3, <1>4, <1>14
  <2>3. ~closed[c] /\ conn[c] \notin {"none", "upgraded"} BY <2>2, <1>13 DEF HubRegistry
  <2>4. Follows(ops, c) => Follows(ops', c) /\ Holds(ops', UnregisterOp(c)) BY <1>4, <1>6, <1>14
  <2>5. HubRegistry(c)' BY <2>1, <2>2, <2>3, <2>4, <1>1, <1>13 DEF HubRegistry, RegisterOp, UnregisterOp
  <2>6. since'[c] = version BY <2>1, <1>4 DEF HubInv, HubShape
  <2>7. HubCarried(c)' BY <2>6, <1>1, <1>13 DEF HubCarried
  <2> QED BY <2>5, <2>7, <1>9, <1>10, <1>11, <1>12 DEF HubInv
<1>15. CASE op = UnregisterOp(c)
  <2>1. c \notin clients' /\ closed' = [closed EXCEPT ![c] = closed[c] \/ c \in clients] BY <1>4, <1>7, <1>15
  <2>2. closed'[c] <=> closed[c] \/ c \in clients BY <2>1, <1>4 DEF HubInv, HubShape
  <2>3. /\ Holds(ops, UnregisterOp(c)) /\ ~Holds(ops', UnregisterOp(c))
        /\ Holds(ops', RegisterOp(c)) <=> Holds(ops, RegisterOp(c))
    BY <1>1, <1>3, <1>4, <1>15
  <2>4. Follows(ops, c) => Follows(ops', c) BY <1>4, <1>6
  <2>5. HubRegistry(c)' BY <2>1, <2>2, <2>3, <2>4, <1>1, <1>13 DEF HubRegistry, RegisterOp, UnregisterOp
  <2>6. HubCarried(c)' BY <2>1 DEF HubCarried
  <2> QED BY <2>5, <2>6, <1>9, <1>10, <1>11, <1>12 DEF HubInv
<1> QED BY <1>4, <1>14, <1>15

LEMMA HubFanout == ASSUME HubInv, Hub!Fanout PROVE HubInv'
<1> DEFINE m == Head(broadcast)
           get == clients \ Hub!Slow
<1>1. /\ UNCHANGED <<hub, attempts, ops, conn, shown, since, version, recent, handler, lost>>
      /\ broadcast # <<>> /\ broadcast' = Tail(broadcast) /\ clients' = get
      /\ send' = [c \in Sessions |-> IF c \in get THEN Append(send[c], m) ELSE send[c]]
      /\ closed' = [c \in Sessions |-> closed[c] \/ c \in Hub!Slow]
  BY DEF Hub!Fanout, Hub!loopVars, Hub!pushVars, Hub!Evicted
<1>2. /\ broadcast \in Seq(Messages) /\ Len(broadcast) <= BroadcastQueue /\ BroadcastQueue \in Nat
      /\ Messages \subseteq Int /\ SendQueue \in Nat /\ version \in Messages /\ clients \subseteq Sessions
  BY HubTypes DEF HubInv, HubShape
<1>3. /\ Tail(broadcast) \in Seq(Messages) /\ m \in Messages /\ Len(Tail(broadcast)) = Len(broadcast) - 1 /\ Len(broadcast) \in Nat
      /\ Holds(broadcast, m) /\ \A e : Holds(broadcast, e) <=> Holds(Tail(broadcast), e) \/ e = m
  BY <1>1, <1>2, Tails
<1>4. m <= version BY <1>3 DEF HubInv, HubBounds
<1>5. Hub!Slow \subseteq clients /\ \A c \in get : Len(send[c]) # SendQueue BY DEF Hub!Slow
<1>6. get \subseteq clients /\ get \cap Hub!Slow = {} OBVIOUS
<1> HIDE DEF m, get
<1>7. /\ closed' \in [Sessions -> BOOLEAN] /\ \A c \in Sessions : closed'[c] <=> closed[c] \/ c \in Hub!Slow
  BY <1>1
<1>8. ASSUME NEW c \in Sessions
      PROVE  /\ send'[c] \in Seq(Messages) /\ Len(send'[c]) <= SendQueue
             /\ \A e : Holds(send'[c], e) <=> Holds(send[c], e) \/ (c \in get /\ e = m)
  <2>1. send[c] \in Seq(Messages) /\ Len(send[c]) \in Nat /\ Len(send[c]) <= SendQueue BY HubTypes DEF HubInv, HubChannel
  <2>2. CASE c \notin get
    <3>1. send'[c] = send[c] BY <2>2, <1>1
    <3> QED BY <2>1, <2>2, <3>1
  <2>3. CASE c \in get
    <3>1. send'[c] = Append(send[c], m) BY <2>3, <1>1
    <3>2. /\ Append(send[c], m) \in Seq(Messages) /\ Len(Append(send[c], m)) = Len(send[c]) + 1
          /\ \A e : Holds(Append(send[c], m), e) <=> Holds(send[c], e) \/ e = m
      BY <2>1, <1>3, Appends
    <3>3. Len(send[c]) + 1 <= SendQueue BY <2>1, <2>3, <1>2, <1>5
    <3> QED BY <2>3, <3>1, <3>2, <3>3
  <2> QED BY <2>2, <2>3
<1>9. send' \in [Sessions -> Seq(Messages)]
  <2>1. send' = [c \in Sessions |-> send'[c]] BY <1>1
  <2> QED BY <2>1, <1>8
<1>10. HubShape'
  <2>1. broadcast' \in Seq(Messages) /\ Len(broadcast') <= BroadcastQueue BY <1>1, <1>2, <1>3
  <2>2. clients' \subseteq Sessions BY <1>1, <1>2, <1>6
  <2> QED BY <2>1, <2>2, <1>1, <1>7, <1>9 DEF HubInv, HubShape
<1>11. HubBounds' BY <1>1, <1>3 DEF HubInv, HubBounds
<1>12. ASSUME NEW c \in Sessions PROVE HubRegistry(c)'
  <2>1. HubRegistry(c) BY DEF HubInv
  <2>2. /\ c \in clients' => c \in clients
        /\ closed'[c] => closed[c] \/ c \in clients
        /\ c \in clients' /\ closed'[c] => closed[c]
    BY <1>1, <1>5, <1>6, <1>7
  <2> QED BY <2>1, <2>2, <1>1, RegistryKept
<1>13. ASSUME NEW c \in Sessions PROVE HubChannel(c)'
  <2>1. HubChannel(c) BY DEF HubInv
  <2>2. \A e \in Messages : Holds(send'[c], e) => e <= version BY <2>1, <1>4, <1>8 DEF HubChannel
  <2> QED BY <2>1, <2>2, <1>1, <1>8 DEF HubChannel
<1>14. ASSUME NEW c \in Sessions PROVE HubCarried(c)'
  <2> SUFFICES ASSUME c \in get, ~lost, version > since[c] PROVE HubCarried(c)' BY <1>1 DEF HubCarried
  <2>1. HubCarried(c) /\ c \in clients BY <1>6 DEF HubInv
  <2>2. CASE shown[c] = version \/ \E h \in Handlers : handler[h] = -2 \/ handler[h] \in Fresh
    BY <2>2, <1>1 DEF HubCarried, Fresh
  <2>3. CASE \E e \in Fresh : Holds(broadcast, e) \/ Holds(send[c], e)
    <3>1. \E e \in Fresh : Holds(broadcast', e) \/ Holds(send'[c], e) BY <2>3, <1>1, <1>3, <1>8
    <3> QED BY <3>1, <1>1 DEF HubCarried, Fresh
  <2> QED BY <2>1, <2>2, <2>3 DEF HubCarried
<1> QED BY <1>10, <1>11, <1>12, <1>13, <1>14 DEF HubInv

LEMMA HubNext == ASSUME HubInv, Hub!Next \/ UNCHANGED hubVars PROVE HubInv'
<1>1. CASE UNCHANGED hubVars
  <2>1. UNCHANGED <<hub, attempts, clients, ops, broadcast, send, closed, conn, shown, since, version, recent, handler, lost>>
    BY <1>1 DEF hubVars
  <2>2. /\ hub' \in {"running", "waiting", "down", "stopped"} /\ attempts' \in 0..Attempts
        /\ hub' \in {"running", "waiting"} => attempts' < Attempts
        /\ closed' \in [Sessions -> BOOLEAN] /\ recent' \in BOOLEAN
    BY <2>1 DEF HubInv, HubShape
  <2> QED BY <2>1, <2>2, HubLoop
<1>2. CASE Hub!Next
  BY <1>2, HubSave, HubRead, HubBroadcast, HubUpgrade, HubRegister, HubWrite, HubLeave, HubUnregister, HubElapse, HubHandle,
     HubFanout, HubPanic, HubResume, HubShutdown DEF Hub!Next
<1> QED BY <1>1, <1>2

LEMMA HubSound == ASSUME HubInv PROVE Hub!TypeOK /\ Hub!RegisteredOpen /\ Hub!ChangesSeen /\ Hub!NoGhosts
<1>1. Hub!TypeOK BY DEF HubInv, HubShape, HubChannel, Messages, Hub!TypeOK
<1>2. Hub!RegisteredOpen BY DEF HubInv, HubShape, HubRegistry, Hub!RegisteredOpen
<1>3. Hub!ChangesSeen
  <2> SUFFICES ASSUME NEW c \in clients, broadcast = <<>>, send[c] = <<>>, \A h \in Handlers : handler[h] = -1, ~lost,
                      version > since[c]
               PROVE  shown[c] = version
    BY DEF Hub!ChangesSeen, Hub!Idle
  <2>1. c \in Sessions /\ Fresh \subseteq Messages BY HubTypes DEF HubInv, HubShape
  <2>2. \A e : ~Holds(<<>>, e) BY DEF Holds
  <2>3. \A h \in Handlers : handler[h] # -2 /\ handler[h] \notin Fresh BY <2>1 DEF Messages
  <2> QED BY <2>1, <2>2, <2>3 DEF HubInv, HubCarried
<1>4. Hub!NoGhosts
  <2> SUFFICES ASSUME NEW c \in Sessions, conn[c] = "gone", ~lost, \A i \in 1..Len(ops) : ops[i].c # c PROVE c \notin clients
    BY DEF Hub!NoGhosts
  <2>1. ~Holds(ops, UnregisterOp(c)) BY DEF Holds, UnregisterOp
  <2> QED BY <2>1 DEF HubInv, HubRegistry
<1> QED BY <1>1, <1>2, <1>3, <1>4

\* The hub and the bus pass on what happens: nothing is sent on a closed channel, every registered
\* session is shown every change or the change was lost on a full channel, nobody who has gone is
\* kept (hub.go), an id's handlers see an event at most once and in order, and none runs once
\* Stop has returned (bus.go).
THEOREM PushesStaySound == Spec => []PushesSound
<1>1. Init => HubInv /\ BusInv BY HubInit, BusInit DEF Init
<1>2. HubInv /\ BusInv /\ [Next]_vars => HubInv' /\ BusInv'
  BY HubNext, BusNext DEF Next, HubStep, BusStep, WriterStep, RadiusStep, ClockStep, ConfigStep, BanStep, vars
<1>3. HubInv /\ BusInv => PushesSound BY HubSound, BusSound DEF PushesSound
<1> QED BY <1>1, <1>2, <1>3, PTL DEF Spec

-----------------------------------------------------------------------------
(* RADIUS accounting.  Every record on its way and every open session of   *)
(* the daemon stands for the bytes that it will bill: those since the      *)
(* record before it.  What is billed, what is pending and what stands in   *)
(* this way are never more than the bytes that moved, as a lost record     *)
(* lets the next one bill no more than the two of them would have.         *)

RadiusRecord ==
    {r \in [status : {"start", "interim", "stop"}, id : AcctIds, total : 0..MaxTraffic] :
        r.status = "start" => r.total = 0}

\* What the ledger with the sessions s will know of session i when it has the first n records of q.
Earlier(q, i, n) == {j \in 1..n : q[j].id = i}
Knows(q, s, i, n) ==
    IF Earlier(q, i, n) = {} THEN s[i] ELSE Radius!Left(q[Max(Earlier(q, i, n))])

\* What a total b bills after a
Gain(a, b) == IF a = -1 THEN 0 ELSE Radius!Moved(a, b)

InFlight(q, s) == [k \in 1..Len(q) |-> Gain(Knows(q, s, q[k].id, k - 1), q[k].total)]
AtDaemon(q, s, n) == [i \in AcctIds |-> IF n[i] = -1 THEN 0 ELSE Gain(Knows(q, s, i, Len(q)), n[i])]
Flying(q, s) == Total(InFlight(q, s), 1..Len(q))
Waiting(q, s, n) == Total(AtDaemon(q, s, n), AcctIds)
Carried(q, s, n) == Flying(q, s) + Waiting(q, s, n)

RadiusShape ==
    /\ nas \in [AcctIds -> -1..MaxTraffic] /\ session \in [AcctIds -> -1..MaxTraffic]
    /\ net \in Seq(RadiusRecord) /\ Len(net) <= MaxNet
    /\ moved \in 0..MaxTraffic /\ pending \in Nat /\ billed \in Nat /\ faults \in Nat
    /\ orphaned \in BOOLEAN /\ known \in BOOLEAN
    /\ \A i \in AcctIds : nas[i] <= moved

\* The next record of an id after a stop is a start.
StopsApart(q) ==
    \A j, k \in 1..Len(q) :
        j < k /\ q[j].id = q[k].id /\ q[j].status = "stop" /\ (\A m \in j + 1..k - 1 : q[m].id # q[j].id)
            => q[k].status = "start"

\* A session whose last record is a stop has ended.
StopsEnd(q, n) ==
    \A j \in 1..Len(q) :
        q[j].status = "stop" /\ (\A m \in j + 1..Len(q) : q[m].id # q[j].id) => n[q[j].id] = -1

RadiusBound == billed + pending + Carried(net, session, nas) <= moved
RadiusFull == faults = 0 /\ ~orphaned => billed + pending + Carried(net, session, nas) = moved

\* Without faults the ledger will know of the sessions that are open, and of no other.
InStep(i) ==
    LET a == Knows(net, session, i, Len(net))
    IN  faults = 0 => (a # -1 => nas[i] # -1) /\ (~orphaned /\ nas[i] # -1 => a # -1 /\ a <= nas[i])

RadiusInv ==
    /\ RadiusShape /\ StopsApart(net) /\ StopsEnd(net, nas) /\ RadiusBound /\ RadiusFull
    /\ \A i \in AcctIds : InStep(i)

LEMMA RadiusTypes ==
    ASSUME RadiusInv
    PROVE  /\ MaxTraffic \in Nat /\ MaxNet \in Nat /\ IsFiniteSet(AcctIds)
           /\ net \in Seq(RadiusRecord) /\ Len(net) \in Nat /\ Len(net) <= MaxNet
           /\ moved \in 0..MaxTraffic /\ pending \in Nat /\ billed \in Nat /\ faults \in Nat
           /\ nas \in [AcctIds -> -1..MaxTraffic] /\ session \in [AcctIds -> -1..MaxTraffic]
<1>1. IsFiniteSet(AcctIds) BY RadiusParameters DEF Radius!RadiusAssumption, Radius!IsFiniteSet, IsFiniteSet
<1> QED BY <1>1, RadiusParameters DEF RadiusInv, RadiusShape, Radius!RadiusAssumption

LEMMA RecordTypes ==
    ASSUME NEW r \in RadiusRecord, MaxTraffic \in Nat
    PROVE  /\ r.status \in {"start", "interim", "stop"} /\ r.id \in AcctIds /\ r.total \in 0..MaxTraffic /\ r.total \in Nat
           /\ r.status = "start" => r.total = 0
           /\ Radius!Left(r) \in -1..MaxTraffic
           /\ r.status = "stop" => Radius!Left(r) = -1
           /\ r.status # "stop" => Radius!Left(r) = r.total
BY DEF RadiusRecord, Radius!Left, Radius!None

\* What the ledger will know is of the last record, or of what it knows now.
LEMMA KnowsCases ==
    ASSUME NEW q, NEW s, NEW i, NEW k \in Nat
    PROVE  /\ (\A j \in 1..k : q[j].id # i) => Knows(q, s, i, k) = s[i]
           /\ \A j \in 1..k : q[j].id = i /\ (\A m \in j + 1..k : q[m].id # i)
                                    => Knows(q, s, i, k) = Radius!Left(q[j])
           /\ \/ \A j \in 1..k : q[j].id # i
              \/ \E j \in 1..k : q[j].id = i /\ \A m \in j + 1..k : q[m].id # i
<1> DEFINE T == Earlier(q, i, k)
<1>1. T \subseteq 1..k /\ \A j : j \in T <=> j \in 1..k /\ q[j].id = i BY DEF Earlier
<1> HIDE DEF T
<1>2. CASE T = {}
  <2>1. \A j \in 1..k : q[j].id # i BY <1>1, <1>2
  <2>2. Knows(q, s, i, k) = s[i] BY <1>2 DEF Knows, T
  <2> QED BY <2>1, <2>2
<1>3. CASE T # {}
  <2>1. T \in SUBSET Nat /\ \A y \in T : y <= k BY <1>1
  <2>2. Max(T) \in T /\ \A y \in T : y <= Max(T) BY <2>1, <1>3, LargestNatural
  <2>3. Knows(q, s, i, k) = Radius!Left(q[Max(T)]) BY <1>3 DEF Knows, T
  <2>4. Max(T) \in 1..k /\ q[Max(T)].id = i BY <2>2, <1>1
  <2>5. ASSUME NEW m \in Max(T) + 1..k PROVE q[m].id # i
    <3>1. m \in 1..k /\ m > Max(T) BY <2>4
    <3>2. m \notin T BY <2>2, <2>4, <3>1
    <3> QED BY <3>1, <3>2, <1>1
  <2>6. ASSUME NEW j \in 1..k, q[j].id = i, \A m \in j + 1..k : q[m].id # i PROVE j = Max(T)
    <3>1. j <= Max(T) BY <2>2, <2>6, <1>1
    <3>2. ~(j < Max(T))
      <4> SUFFICES ASSUME j < Max(T) PROVE FALSE OBVIOUS
      <4>1. Max(T) \in j + 1..k BY <2>4
      <4> QED BY <4>1, <2>4, <2>6
    <3> QED BY <3>1, <3>2, <2>4
  <2> QED BY <2>3, <2>4, <2>5, <2>6
<1> QED BY <1>2, <1>3

Silent(q, i, k) == \A j \in 1..k : q[j].id # i
Spoken(q, i, k) == \E j \in 1..k : q[j].id = i /\ \A m \in j + 1..k : q[m].id # i

LEMMA LastOrNone ==
    ASSUME NEW q, NEW i, NEW k \in Nat
    PROVE  Silent(q, i, k) \/ Spoken(q, i, k)
<1> DEFINE T == Earlier(q, i, k)
<1>1. T \subseteq 1..k /\ \A j : j \in T <=> j \in 1..k /\ q[j].id = i BY DEF Earlier
<1> HIDE DEF T
<1>2. CASE T = {} BY <1>1, <1>2 DEF Silent
<1>3. CASE T # {}
  <2>1. T \in SUBSET Nat /\ \A y \in T : y <= k BY <1>1
  <2>2. Max(T) \in T /\ \A y \in T : y <= Max(T) BY <2>1, <1>3, LargestNatural
  <2>3. Max(T) \in 1..k /\ q[Max(T)].id = i BY <2>2, <1>1
  <2>4. ASSUME NEW m \in Max(T) + 1..k PROVE q[m].id # i
    <3>1. m \in 1..k /\ m > Max(T) BY <2>3
    <3>2. m \notin T BY <2>2, <2>3, <3>1
    <3> QED BY <3>1, <3>2, <1>1
  <2> QED BY <2>3, <2>4 DEF Spoken
<1> QED BY <1>2, <1>3

LEMMA KnowsSame ==
    ASSUME NEW q, NEW p, NEW s, NEW i, NEW k \in Nat, \A j \in 1..k : q[j] = p[j]
    PROVE  Knows(q, s, i, k) = Knows(p, s, i, k)
<1>1. CASE \A j \in 1..k : q[j].id # i
  <2>1. \A j \in 1..k : p[j].id # i BY <1>1
  <2> QED BY <1>1, <2>1, KnowsCases
<1>2. CASE \E j \in 1..k : q[j].id = i /\ \A m \in j + 1..k : q[m].id # i
  <2>1. PICK j \in 1..k : q[j].id = i /\ \A m \in j + 1..k : q[m].id # i BY <1>2
  <2>2. \A m \in j + 1..k : m \in 1..k OBVIOUS
  <2>3. p[j].id = i /\ \A m \in j + 1..k : p[m].id # i BY <2>1, <2>2
  <2>4. Knows(q, s, i, k) = Radius!Left(q[j]) BY <2>1, KnowsCases
  <2>5. Knows(p, s, i, k) = Radius!Left(p[j]) BY <2>3, KnowsCases
  <2> QED BY <2>4, <2>5
<1> QED BY <1>1, <1>2, KnowsCases

LEMMA KnowsType ==
    ASSUME NEW q \in Seq(RadiusRecord), NEW s \in [AcctIds -> -1..MaxTraffic], NEW i \in AcctIds, MaxTraffic \in Nat,
           NEW k \in 0..Len(q)
    PROVE  Knows(q, s, i, k) \in -1..MaxTraffic
<1>1. k \in Nat /\ Len(q) \in Nat /\ \A j \in 1..k : j \in 1..Len(q) OBVIOUS
<1>2. CASE \A j \in 1..k : q[j].id # i
  <2>1. Knows(q, s, i, k) = s[i] BY <1>1, <1>2, KnowsCases
  <2> QED BY <2>1
<1>3. CASE \E j \in 1..k : q[j].id = i /\ \A m \in j + 1..k : q[m].id # i
  <2>1. PICK j \in 1..k : q[j].id = i /\ \A m \in j + 1..k : q[m].id # i BY <1>3
  <2>2. q[j] \in RadiusRecord BY <1>1
  <2>3. Knows(q, s, i, k) = Radius!Left(q[j]) BY <2>1, <1>1, KnowsCases
  <2> QED BY <2>2, <2>3, RecordTypes
<1>4. (\A j \in 1..k : q[j].id # i) \/ \E j \in 1..k : q[j].id = i /\ \A m \in j + 1..k : q[m].id # i
  BY <1>1, KnowsCases
<1> QED BY <1>2, <1>3, <1>4

LEMMA KnowsAppend ==
    ASSUME NEW q \in Seq(RadiusRecord), NEW s, NEW i, NEW r \in RadiusRecord
    PROVE  /\ \A k \in 0..Len(q) : Knows(Append(q, r), s, i, k) = Knows(q, s, i, k)
           /\ Knows(Append(q, r), s, i, Len(q) + 1) = IF r.id = i THEN Radius!Left(r) ELSE Knows(q, s, i, Len(q))
<1> DEFINE n == Len(q)
           l == n + 1
           p == Append(q, r)
<1>1. n \in Nat /\ p[l] = r /\ \A j \in 1..n : p[j] = q[j] OBVIOUS
<1>2. l \in Nat /\ l \in 1..l /\ l + 1..l = {} /\ 1..l = 1..n \cup {l} BY <1>1
<1>3. \A j \in 1..n : j \in 1..l /\ j + 1..l = (j + 1..n) \cup {l} /\ j + 1..n \subseteq 1..n BY <1>1
<1> HIDE DEF n, p, l
<1>4. ASSUME NEW k \in 0..n PROVE Knows(p, s, i, k) = Knows(q, s, i, k)
  <2>1. k \in Nat /\ \A j \in 1..k : p[j] = q[j] BY <1>1
  <2> QED BY <2>1, KnowsSame
<1>5. CASE r.id = i
  <2>1. Knows(p, s, i, l) = Radius!Left(p[l]) BY <1>1, <1>2, <1>5, KnowsCases
  <2> QED BY <2>1, <1>1, <1>4, <1>5 DEF n, p, l
<1>6. CASE r.id # i
  <2>1. CASE \A j \in 1..n : q[j].id # i
    <3>1. \A j \in 1..l : p[j].id # i BY <2>1, <1>1, <1>2, <1>6
    <3>2. Knows(q, s, i, n) = s[i] BY <2>1, <1>1, KnowsCases
    <3>3. Knows(p, s, i, l) = s[i] BY <3>1, <1>2, KnowsCases
    <3> QED BY <3>2, <3>3, <1>4, <1>6 DEF n, p, l
  <2>2. CASE \E j \in 1..n : q[j].id = i /\ \A m \in j + 1..n : q[m].id # i
    <3>1. PICK j \in 1..n : q[j].id = i /\ \A m \in j + 1..n : q[m].id # i BY <2>2
    <3>2. j \in 1..l /\ p[j].id = i /\ p[j] = q[j] BY <3>1, <1>1, <1>3
    <3>3. \A m \in j + 1..l : p[m].id # i BY <3>1, <1>1, <1>3, <1>6
    <3>4. Knows(q, s, i, n) = Radius!Left(q[j]) BY <3>1, <1>1, KnowsCases
    <3>5. Knows(p, s, i, l) = Radius!Left(p[j]) BY <3>2, <3>3, <1>2, KnowsCases
    <3> QED BY <3>2, <3>4, <3>5, <1>4, <1>6 DEF n, p, l
  <2>3. Silent(q, i, n) \/ Spoken(q, i, n) BY <1>1, LastOrNone
  <2> QED BY <2>1, <2>2, <2>3 DEF Silent, Spoken
<1> QED BY <1>5, <1>6

LEMMA KnowsTail ==
    ASSUME NEW q \in Seq(RadiusRecord), q # <<>>, NEW s, NEW t, NEW i, NEW k \in 0..Len(q) - 1,
           t[i] = IF q[1].id = i THEN Radius!Left(q[1]) ELSE s[i]
    PROVE  Knows(Tail(q), t, i, k) = Knows(q, s, i, k + 1)
<1> DEFINE p == Tail(q)
           l == k + 1
<1>1. Len(q) \in Nat \ {0} /\ k \in Nat /\ \A j \in 1..Len(q) - 1 : p[j] = q[j + 1] BY Tails
<1>2. l \in Nat /\ \A j \in 1..k : p[j] = q[j + 1] /\ j + 1 \in 1..l BY <1>1
<1>3. /\ 1 \in 1..l
      /\ \A j \in 1..l : j = 1 \/ (j - 1 \in 1..k /\ (j - 1) + 1 = j)
      /\ \A m \in 2..l : m - 1 \in 1..k /\ (m - 1) + 1 = m
  BY <1>1
<1> HIDE DEF p, l
<1>4. CASE \A j \in 1..k : p[j].id # i
  <2>1. Knows(p, t, i, k) = t[i] BY <1>1, <1>4, KnowsCases
  <2>2. \A j \in 2..l : q[j].id # i
    <3> SUFFICES ASSUME NEW j \in 2..l PROVE q[j].id # i OBVIOUS
    <3>1. j - 1 \in 1..k /\ (j - 1) + 1 = j BY <1>3
    <3>2. p[j - 1] = q[(j - 1) + 1] BY <3>1, <1>2
    <3> QED BY <3>1, <3>2, <1>4
  <2>3. CASE q[1].id = i
    <3>1. \A m \in 1 + 1..l : q[m].id # i BY <2>2
    <3>2. Knows(q, s, i, l) = Radius!Left(q[1]) BY <3>1, <2>3, <1>2, <1>3, KnowsCases
    <3> QED BY <3>2, <2>1, <2>3 DEF p, l
  <2>4. CASE q[1].id # i
    <3>1. \A j \in 1..l : q[j].id # i BY <2>2, <2>4, <1>2
    <3>2. Knows(q, s, i, l) = s[i] BY <3>1, <1>2, KnowsCases
    <3> QED BY <3>2, <2>1, <2>4 DEF p, l
  <2> QED BY <2>3, <2>4
<1>5. CASE \E j \in 1..k : p[j].id = i /\ \A m \in j + 1..k : p[m].id # i
  <2>1. PICK j \in 1..k : p[j].id = i /\ \A m \in j + 1..k : p[m].id # i BY <1>5
  <2>2. Knows(p, t, i, k) = Radius!Left(p[j]) BY <2>1, <1>1, KnowsCases
  <2> DEFINE h == j + 1
  <2>3. h \in 1..l /\ q[h].id = i /\ q[h] = p[j] BY <2>1, <1>2
  <2>4. ASSUME NEW m \in h + 1..l PROVE q[m].id # i
    <3>1. m - 1 \in j + 1..k /\ m - 1 \in 1..k /\ (m - 1) + 1 = m BY <1>1, <2>1 DEF l
    <3>2. p[m - 1] = q[(m - 1) + 1] BY <3>1, <1>2
    <3>3. p[m - 1].id # i BY <3>1, <2>1
    <3> QED BY <3>1, <3>2, <3>3
  <2> HIDE DEF h
  <2>5. Knows(q, s, i, l) = Radius!Left(q[h]) BY <2>3, <2>4, <1>2, KnowsCases
  <2> QED BY <2>2, <2>3, <2>5 DEF p, l
<1>6. k \in Nat BY <1>1
<1>7. Silent(p, i, k) \/ Spoken(p, i, k) BY <1>6, LastOrNone
<1> QED BY <1>4, <1>5, <1>7 DEF Silent, Spoken

\* Other sessions matter only until the first record.
LEMMA KnowsBase ==
    ASSUME NEW q, NEW s, NEW t, NEW i, NEW k \in Nat
    PROVE  /\ t[i] = s[i] \/ (\E j \in 1..k : q[j].id = i) => Knows(q, t, i, k) = Knows(q, s, i, k)
           /\ \/ Knows(q, t, i, k) = Knows(q, s, i, k)
              \/ Knows(q, t, i, k) = t[i] /\ Knows(q, s, i, k) = s[i]
<1>1. CASE \A j \in 1..k : q[j].id # i
  <2>1. Knows(q, s, i, k) = s[i] /\ Knows(q, t, i, k) = t[i] BY <1>1, KnowsCases
  <2> QED BY <1>1, <2>1
<1>2. CASE \E j \in 1..k : q[j].id = i /\ \A m \in j + 1..k : q[m].id # i
  <2>1. PICK j \in 1..k : q[j].id = i /\ \A m \in j + 1..k : q[m].id # i BY <1>2
  <2>2. Knows(q, s, i, k) = Radius!Left(q[j]) /\ Knows(q, t, i, k) = Radius!Left(q[j]) BY <2>1, KnowsCases
  <2> QED BY <2>2
<1>3. Silent(q, i, k) \/ Spoken(q, i, k) BY LastOrNone
<1> QED BY <1>1, <1>2, <1>3 DEF Silent, Spoken

LEMMA GainFacts ==
    ASSUME MaxTraffic \in Nat, NEW a \in -1..MaxTraffic, NEW b \in 0..MaxTraffic, NEW c \in 0..MaxTraffic
    PROVE  /\ Gain(a, b) \in Nat /\ Gain(a, 0) = 0 /\ Gain(b, b) = 0 /\ Gain(-1, b) = 0
           /\ Gain(a, c) <= Gain(a, b) + Gain(b, c)
           /\ Gain(a, b + 1) <= Gain(a, b) + 1
           /\ a # -1 /\ a <= b => Gain(a, b + 1) = Gain(a, b) + 1
BY DEF Gain, Radius!Moved

LEMMA FlyingCounts ==
    ASSUME MaxTraffic \in Nat, NEW q \in Seq(RadiusRecord), NEW s \in [AcctIds -> -1..MaxTraffic]
    PROVE  /\ Counts(InFlight(q, s), 1..Len(q)) /\ Flying(q, s) \in Nat
           /\ \A k \in 1..Len(q) :
                 /\ q[k].id \in AcctIds /\ q[k].total \in 0..MaxTraffic
                 /\ Knows(q, s, q[k].id, k - 1) \in -1..MaxTraffic
                 /\ InFlight(q, s)[k] = Gain(Knows(q, s, q[k].id, k - 1), q[k].total)
<1>1. ASSUME NEW k \in 1..Len(q)
      PROVE  /\ q[k].id \in AcctIds /\ q[k].total \in 0..MaxTraffic
             /\ Knows(q, s, q[k].id, k - 1) \in -1..MaxTraffic
             /\ InFlight(q, s)[k] = Gain(Knows(q, s, q[k].id, k - 1), q[k].total)
             /\ InFlight(q, s)[k] \in Nat
  <2>1. q[k] \in RadiusRecord OBVIOUS
  <2>2. q[k].id \in AcctIds /\ q[k].total \in 0..MaxTraffic BY <2>1, RecordTypes
  <2>3. k - 1 \in 0..Len(q) OBVIOUS
  <2>4. Knows(q, s, q[k].id, k - 1) \in -1..MaxTraffic BY <2>2, <2>3, KnowsType
  <2>5. InFlight(q, s)[k] = Gain(Knows(q, s, q[k].id, k - 1), q[k].total) BY DEF InFlight
  <2>6. Gain(Knows(q, s, q[k].id, k - 1), q[k].total) \in Nat BY <2>2, <2>4, GainFacts
  <2> QED BY <2>2, <2>4, <2>5, <2>6
<1>2. IsFiniteSet(1..Len(q)) BY FS_Interval
<1>3. Counts(InFlight(q, s), 1..Len(q)) BY <1>1, <1>2 DEF Counts
<1> QED BY <1>1, <1>3, TotalType DEF Flying

LEMMA WaitingCounts ==
    ASSUME MaxTraffic \in Nat, IsFiniteSet(AcctIds), NEW q \in Seq(RadiusRecord), NEW s \in [AcctIds -> -1..MaxTraffic],
           NEW n \in [AcctIds -> -1..MaxTraffic]
    PROVE  /\ Counts(AtDaemon(q, s, n), AcctIds) /\ Waiting(q, s, n) \in Nat
           /\ \A i \in AcctIds :
                 /\ Knows(q, s, i, Len(q)) \in -1..MaxTraffic
                 /\ n[i] = -1 => AtDaemon(q, s, n)[i] = 0
                 /\ n[i] # -1 => n[i] \in 0..MaxTraffic /\ AtDaemon(q, s, n)[i] = Gain(Knows(q, s, i, Len(q)), n[i])
<1>1. ASSUME NEW i \in AcctIds
      PROVE  /\ Knows(q, s, i, Len(q)) \in -1..MaxTraffic
             /\ n[i] = -1 => AtDaemon(q, s, n)[i] = 0
             /\ n[i] # -1 => n[i] \in 0..MaxTraffic /\ AtDaemon(q, s, n)[i] = Gain(Knows(q, s, i, Len(q)), n[i])
             /\ AtDaemon(q, s, n)[i] \in Nat
  <2>1. Len(q) \in 0..Len(q) OBVIOUS
  <2>2. Knows(q, s, i, Len(q)) \in -1..MaxTraffic BY <2>1, KnowsType
  <2>3. n[i] # -1 => n[i] \in 0..MaxTraffic OBVIOUS
  <2>4. AtDaemon(q, s, n)[i] = IF n[i] = -1 THEN 0 ELSE Gain(Knows(q, s, i, Len(q)), n[i]) BY DEF AtDaemon
  <2>5. n[i] # -1 => Gain(Knows(q, s, i, Len(q)), n[i]) \in Nat BY <2>2, <2>3, GainFacts
  <2> QED BY <2>2, <2>3, <2>4, <2>5
<1>2. Counts(AtDaemon(q, s, n), AcctIds) BY <1>1 DEF Counts
<1> QED BY <1>1, <1>2, TotalType DEF Waiting

\* The daemon goes from the totals n to m when it sends r.
Reports(n, m, r) ==
    /\ \A i \in AcctIds : i # r.id => m[i] = n[i]
    /\ n[r.id] = IF r.status = "start" THEN -1 ELSE r.total
    /\ m[r.id] = Radius!Left(r)

Tallies == [AcctIds -> -1..MaxTraffic]

\* A record takes over what its session stood for when it is sent.
LEMMA SendKeeps ==
    ASSUME NEW q, NEW s, NEW n, NEW m, NEW r, MaxTraffic \in Nat, IsFiniteSet(AcctIds), Reports(n, m, r),
           q \in Seq(RadiusRecord), r \in RadiusRecord, s \in Tallies, n \in Tallies, m \in Tallies
    PROVE  Carried(Append(q, r), s, m) = Carried(q, s, n)
<1> DEFINE p == Append(q, r)
           o == Len(q)
           l == o + 1
           f == InFlight(q, s)
           h == InFlight(p, s)
           a == AtDaemon(q, s, n)
           b == AtDaemon(p, s, m)
           g == Gain(Knows(q, s, r.id, o), r.total)
<1> USE DEF Reports, Tallies
<1>1. /\ p \in Seq(RadiusRecord) /\ o \in Nat /\ l \in Nat /\ Len(p) = l /\ p[l] = r /\ l - 1 = o /\ o \in 0..o
      /\ 1..l = 1..o \cup {l} /\ l \notin 1..o /\ l \in 1..l
      /\ \A k \in 1..o : p[k] = q[k] /\ k \in 1..l /\ k - 1 \in 0..o
  OBVIOUS
<1>2. r.id \in AcctIds /\ r.total \in 0..MaxTraffic BY RecordTypes
<1>3. \A i : /\ \A k \in 0..o : Knows(p, s, i, k) = Knows(q, s, i, k)
             /\ Knows(p, s, i, l) = IF r.id = i THEN Radius!Left(r) ELSE Knows(q, s, i, o)
  BY KnowsAppend
<1>4. /\ Counts(f, 1..o) /\ \A k \in 1..o : f[k] = Gain(Knows(q, s, q[k].id, k - 1), q[k].total)
      /\ Total(f, 1..o) = Flying(q, s) /\ Flying(q, s) \in Nat
  BY FlyingCounts DEF Flying
<1> HIDE DEF p, o, l
<1>5. /\ Counts(h, 1..l) /\ \A k \in 1..l : h[k] = Gain(Knows(p, s, p[k].id, k - 1), p[k].total)
      /\ Total(h, 1..l) = Flying(p, s)
  <2> p \in Seq(RadiusRecord) BY <1>1
  <2>1. /\ Counts(h, 1..Len(p)) /\ Total(h, 1..Len(p)) = Flying(p, s)
        /\ \A k \in 1..Len(p) : h[k] = Gain(Knows(p, s, p[k].id, k - 1), p[k].total)
    BY FlyingCounts DEF Flying
  <2> QED BY <2>1, <1>1
<1>6. /\ Counts(a, AcctIds) /\ Waiting(q, s, n) \in Nat /\ Total(a, AcctIds) = Waiting(q, s, n)
      /\ \A i \in AcctIds :
            /\ Knows(q, s, i, o) \in -1..MaxTraffic
            /\ a[i] = IF n[i] = -1 THEN 0 ELSE Gain(Knows(q, s, i, o), n[i])
  BY WaitingCounts DEF Waiting, o
<1>7. /\ Counts(b, AcctIds) /\ Total(b, AcctIds) = Waiting(p, s, m)
      /\ \A i \in AcctIds : b[i] = IF m[i] = -1 THEN 0 ELSE Gain(Knows(p, s, i, l), m[i])
  <2> p \in Seq(RadiusRecord) BY <1>1
  <2>1. /\ Counts(b, AcctIds) /\ Total(b, AcctIds) = Waiting(p, s, m)
        /\ \A i \in AcctIds : b[i] = IF m[i] = -1 THEN 0 ELSE Gain(Knows(p, s, i, Len(p)), m[i])
    BY WaitingCounts DEF Waiting
  <2> QED BY <2>1, <1>1
<1> HIDE DEF f, h, a, b
<1>8. \A k \in 1..o : f[k] = h[k]
  <2> SUFFICES ASSUME NEW k \in 1..o PROVE f[k] = h[k] OBVIOUS
  <2>1. k \in 1..l /\ k - 1 \in 0..o /\ p[k] = q[k] BY <1>1
  <2>2. Knows(p, s, q[k].id, k - 1) = Knows(q, s, q[k].id, k - 1) BY <2>1, <1>3
  <2> QED BY <2>1, <2>2, <1>4, <1>5
<1>9. h[l] = g /\ g \in Nat
  <2>1. Knows(p, s, r.id, o) = Knows(q, s, r.id, o) BY <1>1, <1>3
  <2>2. h[l] = g BY <2>1, <1>1, <1>5
  <2> QED BY <2>2, <1>1, <1>5 DEF Counts
<1>10. Flying(p, s) = Flying(q, s) + g
  <2> DEFINE D == 1..o
  <2>1. /\ Counts(f, D) /\ l \notin D /\ Total(h, D \cup {l}) = Flying(p, s) /\ Total(f, D) = Flying(q, s)
        /\ \A k \in D : f[k] = h[k]
    BY <1>1, <1>4, <1>5, <1>8
  <2> HIDE DEF D
  <2>2. Counts(h, D) BY <2>1 DEF Counts
  <2>3. Total(f, D) = Total(h, D) BY <2>1, TotalSame
  <2>4. Total(h, D \cup {l}) = h[l] + Total(h, D) BY <2>1, <2>2, <1>9, TotalAdd
  <2> QED BY <2>1, <2>3, <2>4, <1>4, <1>9
<1>11. a[r.id] = g
  <2>1. CASE r.status = "start"
    <3>1. g = 0 BY <2>1, <1>2, <1>6, RecordTypes, GainFacts
    <3> QED BY <3>1, <2>1, <1>2, <1>6
  <2>2. CASE r.status # "start" BY <2>2, <1>2, <1>6
  <2> QED BY <2>1, <2>2
<1>12. b[r.id] = 0
  <2>1. m[r.id] # -1 => m[r.id] = r.total BY RecordTypes
  <2>2. m[r.id] # -1 => Gain(m[r.id], m[r.id]) = 0 BY <2>1, <1>2, GainFacts
  <2> QED BY <2>2, <1>2, <1>3, <1>7
<1>13. ASSUME NEW i \in AcctIds, i # r.id PROVE a[i] = b[i]
  <2>1. m[i] = n[i] BY <1>13
  <2>2. Knows(p, s, i, l) = Knows(q, s, i, o) BY <1>3, <1>13
  <2>3. a[i] = IF n[i] = -1 THEN 0 ELSE Gain(Knows(q, s, i, o), n[i]) BY <1>6
  <2>4. b[i] = IF m[i] = -1 THEN 0 ELSE Gain(Knows(p, s, i, l), m[i]) BY <1>7
  <2> QED BY <2>1, <2>2, <2>3, <2>4
<1>14. Waiting(p, s, m) = Waiting(q, s, n) + 0 - g
  BY <1>2, <1>6, <1>7, <1>11, <1>12, <1>13, TotalChange
<1> QED BY <1>1, <1>4, <1>6, <1>9, <1>10, <1>14 DEF p, Carried

\* The ledger goes from the sessions s to t with the first record of q.
Heard(q, s, t) == \A i \in AcctIds : t[i] = IF q[1].id = i THEN Radius!Left(q[1]) ELSE s[i]

\* When the ledger has the first record, the rest stand for what they stood for before.
LEMMA ShiftKeeps ==
    ASSUME NEW q, NEW s, NEW t, NEW n, Heard(q, s, t), MaxTraffic \in Nat, IsFiniteSet(AcctIds),
           q \in Seq(RadiusRecord), q # <<>>, s \in Tallies, t \in Tallies, n \in Tallies
    PROVE  /\ Tail(q) \in Seq(RadiusRecord)
           /\ q[1] \in RadiusRecord /\ q[1].id \in AcctIds /\ Gain(s[q[1].id], q[1].total) \in Nat
           /\ Flying(q, s) = Gain(s[q[1].id], q[1].total) + Flying(Tail(q), t)
           /\ Waiting(q, s, n) = Waiting(Tail(q), t, n)
           /\ \A i \in AcctIds : Knows(q, s, i, Len(q)) = Knows(Tail(q), t, i, Len(Tail(q)))
<1> DEFINE p == Tail(q)
           o == Len(p)
           l == o + 1
           f == InFlight(q, s)
           h == InFlight(p, t)
           a == AtDaemon(q, s, n)
           b == AtDaemon(p, t, n)
<1>0. /\ s \in [AcctIds -> -1..MaxTraffic] /\ t \in [AcctIds -> -1..MaxTraffic] /\ n \in [AcctIds -> -1..MaxTraffic]
      /\ \A i \in AcctIds : t[i] = IF q[1].id = i THEN Radius!Left(q[1]) ELSE s[i]
  BY DEF Tallies, Heard
<1>1. p \in Seq(RadiusRecord) /\ Len(p) = Len(q) - 1 /\ Len(q) \in Nat \ {0} /\ \A j \in 1..Len(q) - 1 : p[j] = q[j + 1]
  BY Tails
<1>2. /\ o \in Nat /\ l \in Nat /\ Len(q) = l /\ 1 \in 1..l /\ o \in 0..o
      /\ \A k \in 1..o : p[k] = q[k + 1] /\ k + 1 \in 1..l /\ (k + 1) - 1 = k /\ k - 1 \in 0..o /\ (k - 1) + 1 = k
  BY <1>1
<1>3. q[1] \in RadiusRecord BY <1>1
<1>4. q[1].id \in AcctIds /\ q[1].total \in 0..MaxTraffic /\ Radius!Left(q[1]) \in -1..MaxTraffic BY <1>3, RecordTypes
<1>6. ASSUME NEW i \in AcctIds, NEW k \in 0..Len(q) - 1 PROVE Knows(p, t, i, k) = Knows(q, s, i, k + 1) BY <1>0, KnowsTail
<1>7. \A i \in AcctIds : \A k \in 0..o : Knows(p, t, i, k) = Knows(q, s, i, k + 1) BY <1>1, <1>6
<1> HIDE DEF p, o, l
<1>5. p \in Seq(RadiusRecord) BY <1>1
<1>8. /\ Counts(f, 1..l) /\ Total(f, 1..l) = Flying(q, s) /\ Flying(q, s) \in Nat
      /\ \A k \in 1..l : f[k] = Gain(Knows(q, s, q[k].id, k - 1), q[k].total)
  <2>1. /\ Counts(f, 1..Len(q)) /\ Total(f, 1..Len(q)) = Flying(q, s) /\ Flying(q, s) \in Nat
        /\ \A k \in 1..Len(q) : f[k] = Gain(Knows(q, s, q[k].id, k - 1), q[k].total)
    BY <1>0, FlyingCounts DEF Flying
  <2> QED BY <2>1, <1>2
<1>9. /\ Counts(h, 1..o) /\ Total(h, 1..o) = Flying(p, t) /\ Flying(p, t) \in Nat
      /\ \A k \in 1..o : p[k].id \in AcctIds /\ h[k] = Gain(Knows(p, t, p[k].id, k - 1), p[k].total)
  BY <1>0, <1>5, FlyingCounts DEF Flying, o
<1>10. /\ Counts(a, AcctIds) /\ Total(a, AcctIds) = Waiting(q, s, n)
       /\ \A i \in AcctIds : a[i] = IF n[i] = -1 THEN 0 ELSE Gain(Knows(q, s, i, l), n[i])
  <2>1. /\ Counts(a, AcctIds) /\ Total(a, AcctIds) = Waiting(q, s, n)
        /\ \A i \in AcctIds : a[i] = IF n[i] = -1 THEN 0 ELSE Gain(Knows(q, s, i, Len(q)), n[i])
    BY <1>0, WaitingCounts DEF Waiting
  <2> QED BY <2>1, <1>2
<1>11. /\ Total(b, AcctIds) = Waiting(p, t, n)
       /\ \A i \in AcctIds : b[i] = IF n[i] = -1 THEN 0 ELSE Gain(Knows(p, t, i, o), n[i])
  BY <1>0, <1>5, WaitingCounts DEF Waiting, o
<1> HIDE DEF f, h, a, b
<1>12. f[1] = Gain(s[q[1].id], q[1].total) /\ f[1] \in Nat
  <2>1. f[1] = Gain(Knows(q, s, q[1].id, 1 - 1), q[1].total) BY <1>2, <1>8
  <2> DEFINE z == 1 - 1
             g == q[1].id
  <2>2. z \in Nat /\ \A j \in 1..z : q[j].id # g OBVIOUS
  <2> HIDE DEF z, g
  <2>3. Knows(q, s, g, z) = s[g] BY <2>2, KnowsCases
  <2> QED BY <2>1, <2>3, <1>2, <1>8 DEF z, g, Counts
<1>13. \A k \in 1..o : h[k] = f[k + 1]
  <2> SUFFICES ASSUME NEW k \in 1..o PROVE h[k] = f[k + 1] OBVIOUS
  <2>1. /\ p[k] = q[k + 1] /\ k + 1 \in 1..l /\ (k + 1) - 1 = k /\ k - 1 \in 0..o /\ (k - 1) + 1 = k
        /\ p[k].id \in AcctIds
    BY <1>2, <1>9
  <2>2. Knows(p, t, p[k].id, k - 1) = Knows(q, s, p[k].id, (k - 1) + 1) BY <2>1, <1>7
  <2>3. f[k + 1] = Gain(Knows(q, s, q[k + 1].id, (k + 1) - 1), q[k + 1].total) BY <2>1, <1>8
  <2> QED BY <2>1, <2>2, <2>3, <1>9
<1>14. Flying(q, s) = f[1] + Flying(p, t)
  <2>1. Counts(f, 1..o + 1) BY <1>8 DEF l
  <2>2. o \in Nat BY <1>2
  <2>3. Total(f, 1..o + 1) = f[1] + Total(h, 1..o) BY <2>1, <2>2, <1>13, TotalShift, Zenon
  <2> QED BY <2>3, <1>8, <1>9 DEF l
<1>15. \A i \in AcctIds : Knows(q, s, i, Len(q)) = Knows(p, t, i, Len(p))
  BY <1>2, <1>7 DEF l, o
<1>16. \A i \in AcctIds : a[i] = b[i]
  <2>1. \A i \in AcctIds : Knows(p, t, i, o) = Knows(q, s, i, l) BY <1>2, <1>7 DEF l
  <2> QED BY <2>1, <1>10, <1>11
<1>17. Waiting(q, s, n) = Waiting(p, t, n) BY <1>10, <1>11, <1>16, TotalSame
<1> QED BY <1>3, <1>4, <1>12, <1>14, <1>15, <1>17 DEF p

\* A ledger that knows of fewer sessions bills less.
LEMMA BaseLess ==
    ASSUME MaxTraffic \in Nat, IsFiniteSet(AcctIds), NEW q \in Seq(RadiusRecord),
           NEW s \in [AcctIds -> -1..MaxTraffic], NEW n \in [AcctIds -> -1..MaxTraffic],
           NEW t \in [AcctIds -> -1..MaxTraffic], \A i \in AcctIds : t[i] = s[i] \/ t[i] = -1
    PROVE  /\ Flying(q, t) <= Flying(q, s) /\ Waiting(q, t, n) <= Waiting(q, s, n)
           /\ \A i \in AcctIds : Knows(q, t, i, Len(q)) \in {-1, Knows(q, s, i, Len(q))}
<1> DEFINE o == Len(q)
<1>1. o \in Nat /\ \A k \in 1..o : k - 1 \in Nat OBVIOUS
<1> HIDE DEF o
<1>2. ASSUME NEW i \in AcctIds, NEW k \in Nat PROVE Knows(q, t, i, k) \in {-1, Knows(q, s, i, k)}
  BY KnowsBase
<1>3. /\ Counts(InFlight(q, s), 1..o) /\ Counts(InFlight(q, t), 1..o)
      /\ \A k \in 1..o :
            /\ q[k].id \in AcctIds /\ q[k].total \in 0..MaxTraffic /\ Knows(q, s, q[k].id, k - 1) \in -1..MaxTraffic
            /\ InFlight(q, s)[k] = Gain(Knows(q, s, q[k].id, k - 1), q[k].total)
            /\ InFlight(q, t)[k] = Gain(Knows(q, t, q[k].id, k - 1), q[k].total)
  BY FlyingCounts DEF o
<1>4. \A k \in 1..o : InFlight(q, t)[k] <= InFlight(q, s)[k]
  <2> SUFFICES ASSUME NEW k \in 1..o PROVE InFlight(q, t)[k] <= InFlight(q, s)[k] OBVIOUS
  <2> DEFINE g == q[k].id
             c == q[k].total
             y == k - 1
             x == Knows(q, s, g, y)
             z == Knows(q, t, g, y)
  <2>1. g \in AcctIds /\ c \in 0..MaxTraffic /\ x \in -1..MaxTraffic /\ InFlight(q, s)[k] = Gain(x, c) /\ InFlight(q, t)[k] = Gain(z, c)
    BY <1>3
  <2>2. y \in Nat BY <1>1
  <2> HIDE DEF g, c, y
  <2>3. z \in {-1, x} BY <2>1, <2>2, <1>2
  <2> HIDE DEF x, z
  <2>4. Gain(x, c) \in Nat /\ Gain(-1, c) = 0 BY <2>1, GainFacts
  <2>5. Gain(z, c) <= Gain(x, c) BY <2>3, <2>4
  <2> QED BY <2>1, <2>5
<1>5. /\ Counts(AtDaemon(q, s, n), AcctIds) /\ Counts(AtDaemon(q, t, n), AcctIds)
      /\ \A i \in AcctIds :
            /\ Knows(q, s, i, o) \in -1..MaxTraffic
            /\ n[i] = -1 => AtDaemon(q, s, n)[i] = 0 /\ AtDaemon(q, t, n)[i] = 0
            /\ n[i] # -1 => /\ n[i] \in 0..MaxTraffic
                            /\ AtDaemon(q, s, n)[i] = Gain(Knows(q, s, i, o), n[i])
                            /\ AtDaemon(q, t, n)[i] = Gain(Knows(q, t, i, o), n[i])
  BY WaitingCounts DEF o
<1>6. \A i \in AcctIds : AtDaemon(q, t, n)[i] <= AtDaemon(q, s, n)[i]
  <2> SUFFICES ASSUME NEW i \in AcctIds PROVE AtDaemon(q, t, n)[i] <= AtDaemon(q, s, n)[i] OBVIOUS
  <2>1. CASE n[i] = -1 BY <2>1, <1>5
  <2>2. CASE n[i] # -1
    <3> DEFINE x == Knows(q, s, i, o)
               z == Knows(q, t, i, o)
               c == n[i]
    <3>1. x \in -1..MaxTraffic /\ c \in 0..MaxTraffic /\ AtDaemon(q, s, n)[i] = Gain(x, c) /\ AtDaemon(q, t, n)[i] = Gain(z, c)
      BY <2>2, <1>5
    <3>2. z \in {-1, x} BY <1>1, <1>2
    <3> HIDE DEF x, z, c
    <3>3. Gain(x, c) \in Nat /\ Gain(-1, c) = 0 BY <3>1, GainFacts
    <3> QED BY <3>1, <3>2, <3>3
  <2> QED BY <2>1, <2>2
<1>7. Flying(q, t) <= Flying(q, s)
  <2> DEFINE D == 1..o
             f == InFlight(q, s)
             h == InFlight(q, t)
  <2>1. Counts(f, D) /\ Counts(h, D) /\ \A k \in D : h[k] <= f[k] BY <1>3, <1>4
  <2> HIDE DEF D, f, h
  <2>2. Total(h, D) <= Total(f, D) BY <2>1, TotalMonotone
  <2> QED BY <2>2 DEF Flying, D, f, h, o
<1>8. Waiting(q, t, n) <= Waiting(q, s, n) BY <1>5, <1>6, TotalMonotone DEF Waiting
<1> QED BY <1>1, <1>2, <1>7, <1>8 DEF o

\* A session that has a record or is the same in both ledgers is known alike.
LEMMA BaseKept ==
    ASSUME NEW q, NEW s, NEW t, NEW i, NEW k \in Nat, t[i] = s[i] \/ \E j \in 1..k : q[j].id = i
    PROVE  Knows(q, t, i, k) = Knows(q, s, i, k)
BY KnowsBase

\* Without the first record the next one bills no more than the two of them.
LEMMA SkipBills ==
    ASSUME MaxTraffic \in Nat, NEW r \in RadiusRecord, NEW x \in -1..MaxTraffic, NEW b \in 0..MaxTraffic,
           r.status = "stop" => b = 0
    PROVE  Gain(x, b) <= Gain(x, r.total) + Gain(Radius!Left(r), b)
<1>1. r.total \in 0..MaxTraffic /\ Radius!Left(r) \in -1..MaxTraffic BY RecordTypes
<1>2. Gain(x, r.total) \in Nat /\ Gain(Radius!Left(r), b) \in Nat BY <1>1, GainFacts
<1>3. CASE r.status = "stop"
  <2>1. Gain(x, b) = 0 BY <1>3, GainFacts
  <2> QED BY <2>1, <1>2
<1>4. CASE r.status # "stop"
  <2>1. Radius!Left(r) = r.total BY <1>4, RecordTypes
  <2>2. Gain(x, b) <= Gain(x, r.total) + Gain(r.total, b) BY <1>1, GainFacts
  <2> QED BY <2>1, <2>2
<1> QED BY <1>3, <1>4

\* A lost record costs bytes and bills none.
LEMMA SkipLess ==
    ASSUME MaxTraffic \in Nat, IsFiniteSet(AcctIds), NEW q \in Seq(RadiusRecord), q # <<>>,
           NEW s \in [AcctIds -> -1..MaxTraffic], NEW n \in [AcctIds -> -1..MaxTraffic], StopsApart(q), StopsEnd(q, n)
    PROVE  Carried(Tail(q), s, n) <= Carried(q, s, n)
<1> DEFINE p == Tail(q)
           o == Len(p)
           g == q[1].id
           t == [s EXCEPT ![g] = Radius!Left(q[1])]
           c == Gain(s[g], q[1].total)
           D == 1..o
<1>1. p \in Seq(RadiusRecord) /\ Len(p) = Len(q) - 1 /\ Len(q) \in Nat \ {0} /\ \A j \in 1..Len(q) - 1 : p[j] = q[j + 1]
  BY Tails
<1>2. q[1] \in RadiusRecord /\ o \in Nat /\ o + 1 = Len(q) /\ \A j \in 1..o : p[j] = q[j + 1] BY <1>1
<1>3. g \in AcctIds /\ Radius!Left(q[1]) \in -1..MaxTraffic BY <1>2, RecordTypes
<1>4. /\ t \in [AcctIds -> -1..MaxTraffic] /\ \A i \in AcctIds : t[i] = IF q[1].id = i THEN Radius!Left(q[1]) ELSE s[i]
      /\ t[g] = Radius!Left(q[1]) /\ (\A i \in AcctIds : i # g => t[i] = s[i]) /\ s[g] \in -1..MaxTraffic
  BY <1>3
<1> HIDE DEF t
<1>5. c \in Nat /\ Flying(q, s) = c + Flying(p, t) /\ Waiting(q, s, n) = Waiting(p, t, n)
  <2>1. Heard(q, s, t) /\ s \in Tallies /\ t \in Tallies /\ n \in Tallies BY <1>4 DEF Heard, Tallies
  <2>2. c \in Nat BY <2>1, ShiftKeeps
  <2>3. Flying(q, s) = c + Flying(p, t) BY <2>1, ShiftKeeps
  <2>4. Waiting(q, s, n) = Waiting(p, t, n) BY <2>1, ShiftKeeps
  <2> QED BY <2>2, <2>3, <2>4
<1>6. ASSUME NEW b \in 0..MaxTraffic, q[1].status = "stop" => b = 0 PROVE Gain(s[g], b) <= c + Gain(t[g], b)
  BY <1>2, <1>4, <1>6, SkipBills
<1>7. q[1].status = "stop" /\ (\A m \in 1..o : p[m].id # g) => n[g] = -1
  <2> SUFFICES ASSUME q[1].status = "stop", \A m \in 1..o : p[m].id # g PROVE n[g] = -1 OBVIOUS
  <2>1. ASSUME NEW m \in 1 + 1..Len(q) PROVE q[m].id # g
    <3>1. m - 1 \in 1..o /\ (m - 1) + 1 = m BY <1>2
    <3> QED BY <3>1, <1>2
  <2>2. 1 \in 1..Len(q) BY <1>1
  <2> QED BY <2>1, <2>2 DEF StopsEnd
<1>8. ASSUME NEW k \in 1..o, p[k].id = g, \A m \in 1..k - 1 : p[m].id # g, q[1].status = "stop" PROVE p[k].status = "start"
  <2> DEFINE h == k + 1
  <2>1. h \in 1..Len(q) /\ 1 \in 1..Len(q) /\ 1 < h /\ q[h] = p[k] BY <1>1, <1>2
  <2>2. ASSUME NEW m \in 1 + 1..h - 1 PROVE q[m].id # q[1].id
    <3>1. m - 1 \in 1..k - 1 /\ m - 1 \in 1..o /\ (m - 1) + 1 = m BY <1>2
    <3> QED BY <3>1, <1>2, <1>8
  <2> HIDE DEF h
  <2>3. q[h].status = "start" BY <2>1, <2>2, <1>8 DEF StopsApart
  <2> QED BY <2>1, <2>3
<1>9. /\ Counts(InFlight(p, s), D) /\ Counts(InFlight(p, t), D)
      /\ Total(InFlight(p, s), D) = Flying(p, s) /\ Total(InFlight(p, t), D) = Flying(p, t)
      /\ Flying(p, s) \in Nat /\ Flying(p, t) \in Nat
      /\ \A k \in D :
            /\ p[k].id \in AcctIds /\ p[k].total \in 0..MaxTraffic
            /\ InFlight(p, s)[k] = Gain(Knows(p, s, p[k].id, k - 1), p[k].total)
            /\ InFlight(p, t)[k] = Gain(Knows(p, t, p[k].id, k - 1), p[k].total)
  <2> p \in Seq(RadiusRecord) /\ t \in [AcctIds -> -1..MaxTraffic] BY <1>1, <1>4
  <2> HIDE DEF p
  <2> QED BY FlyingCounts DEF Flying
<1>10. /\ Counts(AtDaemon(p, s, n), AcctIds) /\ Counts(AtDaemon(p, t, n), AcctIds)
       /\ Total(AtDaemon(p, s, n), AcctIds) = Waiting(p, s, n) /\ Total(AtDaemon(p, t, n), AcctIds) = Waiting(p, t, n)
       /\ Waiting(p, s, n) \in Nat /\ Waiting(p, t, n) \in Nat
       /\ \A i \in AcctIds :
            /\ n[i] = -1 => AtDaemon(p, s, n)[i] = 0 /\ AtDaemon(p, t, n)[i] = 0
            /\ n[i] # -1 => /\ n[i] \in 0..MaxTraffic
                            /\ AtDaemon(p, s, n)[i] = Gain(Knows(p, s, i, o), n[i])
                            /\ AtDaemon(p, t, n)[i] = Gain(Knows(p, t, i, o), n[i])
  <2> p \in Seq(RadiusRecord) /\ t \in [AcctIds -> -1..MaxTraffic] BY <1>1, <1>4
  <2> HIDE DEF p
  <2> QED BY WaitingCounts DEF Waiting
<1>11. \A k \in 1..o : k - 1 \in Nat BY <1>2
<1> DEFINE f == InFlight(p, s)
           h == InFlight(p, t)
           a == AtDaemon(p, s, n)
           b == AtDaemon(p, t, n)
<1> HIDE DEF p, o, g, c, f, h, a, b
<1>12. ASSUME NEW k \in D, p[k].id # g \/ \E j \in 1..k - 1 : p[j].id = g PROVE f[k] = h[k]
  <2> DEFINE y == k - 1
             e == p[k].id
  <2>1. y \in Nat /\ e \in AcctIds /\ (t[e] = s[e] \/ \E j \in 1..y : p[j].id = e) BY <1>4, <1>9, <1>11, <1>12
  <2> HIDE DEF y, e
  <2>2. Knows(p, t, e, y) = Knows(p, s, e, y) BY <2>1, BaseKept
  <2> QED BY <2>2, <1>9 DEF y, e, f, h
<1>13. ASSUME NEW i \in AcctIds, i # g \/ \E j \in 1..o : p[j].id = g PROVE a[i] = b[i]
  <2>1. t[i] = s[i] \/ \E j \in 1..o : p[j].id = i BY <1>4, <1>13
  <2>2. Knows(p, t, i, o) = Knows(p, s, i, o) BY <2>1, <1>2, BaseKept
  <2> QED BY <2>2, <1>10 DEF a, b
<1>14. CASE \A k \in 1..o : p[k].id # g
  <2>1. \A k \in D : f[k] = h[k] BY <1>12, <1>14
  <2>2. Flying(p, s) = Flying(p, t)
    <3> HIDE DEF D
    <3>1. Total(f, D) = Total(h, D) BY <2>1, <1>9, TotalSame DEF f, h
    <3> QED BY <3>1, <1>9 DEF f, h
  <2>3. a[g] <= c + b[g]
    <3>1. CASE n[g] = -1 BY <3>1, <1>3, <1>5, <1>10 DEF a, b
    <3>2. CASE n[g] # -1
      <4>1. q[1].status # "stop" /\ n[g] \in 0..MaxTraffic BY <3>2, <1>3, <1>7, <1>10, <1>14
      <4>2. Knows(p, s, g, o) = s[g] /\ Knows(p, t, g, o) = t[g] BY <1>2, <1>14, KnowsCases
      <4>3. Gain(s[g], n[g]) <= c + Gain(t[g], n[g]) BY <4>1, <1>6
      <4> QED BY <4>2, <4>3, <3>2, <1>3, <1>10 DEF a, b
    <3> QED BY <3>1, <3>2
  <2>4. Waiting(p, s, n) = Waiting(p, t, n) + a[g] - b[g]
    <3>1. Counts(a, AcctIds) /\ Counts(b, AcctIds) /\ \A i \in AcctIds \ {g} : b[i] = a[i] BY <1>10, <1>13 DEF a, b
    <3>2. Total(a, AcctIds) = Total(b, AcctIds) + a[g] - b[g] BY <3>1, <1>3, TotalChange
    <3> QED BY <3>2, <1>10 DEF a, b
  <2>5. a[g] \in Nat /\ b[g] \in Nat BY <1>3, <1>10 DEF a, b, Counts
  <2> QED BY <2>2, <2>3, <2>4, <2>5, <1>5, <1>9, <1>10 DEF p, Carried
<1>15. CASE \E k \in 1..o : p[k].id = g
  <2> DEFINE K == {k \in 1..o : p[k].id = g}
  <2>1. K \in SUBSET Nat /\ K # {}
    <3>1. 1..o \subseteq Nat BY <1>2
    <3>2. PICK j \in 1..o : p[j].id = g BY <1>15
    <3>3. j \in K BY <3>2
    <3>4. K \subseteq 1..o OBVIOUS
    <3> HIDE DEF K
    <3> QED BY <3>1, <3>3, <3>4
  <2>2. PICK k \in K : \A j \in K : k <= j BY <2>1, LeastNatural
  <2>3. k \in 1..o /\ p[k].id = g /\ k - 1 \in Nat BY <2>2, <1>11
  <2>4. \A m \in 1..k - 1 : p[m].id # g BY <2>2, <2>3, <1>2
  <2>5. \A j \in D \ {k} : h[j] = f[j]
    <3> SUFFICES ASSUME NEW j \in D, j # k PROVE h[j] = f[j] OBVIOUS
    <3>1. CASE p[j].id # g BY <3>1, <1>12
    <3>2. CASE p[j].id = g
      <4>1. k \in 1..j - 1 BY <2>2, <2>3, <3>2
      <4> QED BY <4>1, <2>3, <1>12
    <3> QED BY <3>1, <3>2
  <2>6. Waiting(p, s, n) = Waiting(p, t, n)
    <3>1. \A i \in AcctIds : a[i] = b[i] BY <1>13, <1>15
    <3>2. Total(a, AcctIds) = Total(b, AcctIds) BY <3>1, <1>10, TotalSame DEF a, b
    <3> QED BY <3>2, <1>10 DEF a, b
  <2>7. f[k] <= c + h[k]
    <3> DEFINE y == k - 1
    <3>1. y \in Nat /\ \A j \in 1..y : p[j].id # g BY <2>3, <2>4
    <3> HIDE DEF y
    <3>2. Knows(p, s, g, y) = s[g] /\ Knows(p, t, g, y) = t[g] BY <3>1, KnowsCases
    <3>3. p[k].total \in 0..MaxTraffic BY <2>3, <1>9
    <3>4. q[1].status = "stop" => p[k].total = 0
      <4>1. p[k] \in RadiusRecord BY <2>3, <1>1 DEF o
      <4> QED BY <4>1, <2>3, <2>4, <1>8, RecordTypes
    <3>5. Gain(s[g], p[k].total) <= c + Gain(t[g], p[k].total) BY <3>3, <3>4, <1>6
    <3> QED BY <3>2, <3>5, <2>3, <1>9 DEF f, h, y
  <2>8. Flying(p, s) = Flying(p, t) + f[k] - h[k]
    <3>1. k \in D /\ Counts(f, D) /\ Counts(h, D) BY <2>3, <1>9 DEF f, h
    <3> HIDE DEF D
    <3>2. Total(f, D) = Total(h, D) + f[k] - h[k] BY <3>1, <2>5, TotalChange
    <3> QED BY <3>2, <1>9 DEF f, h
  <2>9. f[k] \in Nat /\ h[k] \in Nat BY <2>3, <1>9 DEF f, h, Counts
  <2> QED BY <2>6, <2>7, <2>8, <2>9, <1>5, <1>9, <1>10 DEF p, Carried
<1> QED BY <1>14, <1>15

\* Only a start follows a stop, also when one more record is sent.
LEMMA StopsAppend ==
    ASSUME MaxTraffic \in Nat, NEW q \in Seq(RadiusRecord), NEW r \in RadiusRecord, NEW n, NEW m, StopsApart(q), StopsEnd(q, n),
           Reports(n, m, r)
    PROVE  StopsApart(Append(q, r)) /\ StopsEnd(Append(q, r), m)
<1> DEFINE p == Append(q, r)
           o == Len(q)
           l == o + 1
<1> USE DEF Reports
<1>1. o \in Nat /\ Len(p) = l /\ p[l] = r /\ \A k \in 1..o : p[k] = q[k] OBVIOUS
<1>2. \A k \in 1..o : q[k].id \in AcctIds BY RecordTypes
<1>3. r.total \in Nat /\ (r.status = "stop" => Radius!Left(r) = -1) BY RecordTypes
<1> HIDE DEF p, o
<1>4. ASSUME NEW j \in 1..l, NEW k \in 1..l, j < k, p[j].id = p[k].id, p[j].status = "stop", \A e \in j + 1..k - 1 : p[e].id # p[j].id
      PROVE  p[k].status = "start"
  <2>1. j \in 1..o /\ p[j] = q[j] BY <1>1, <1>4
  <2>2. \A e \in j + 1..k - 1 : e \in 1..o /\ p[e] = q[e] BY <1>1, <1>4
  <2>3. \A e \in j + 1..k - 1 : q[e].id # q[j].id BY <2>1, <2>2, <1>4
  <2>4. CASE k = l
    <3>1. k - 1 = o BY <2>4, <1>1
    <3>2. n[q[j].id] = -1 BY <2>1, <2>3, <3>1, <1>4 DEF StopsEnd, o
    <3> QED BY <3>2, <2>1, <2>4, <1>1, <1>3, <1>4
  <2>5. CASE k # l
    <3>1. k \in 1..o /\ p[k] = q[k] BY <2>5, <1>1
    <3> QED BY <3>1, <2>1, <2>3, <1>4 DEF StopsApart, o
  <2> QED BY <2>4, <2>5
<1>5. ASSUME NEW j \in 1..l, p[j].status = "stop", \A e \in j + 1..l : p[e].id # p[j].id PROVE m[p[j].id] = -1
  <2>1. CASE j = l BY <2>1, <1>1, <1>3, <1>5
  <2>2. CASE j # l
    <3>1. j \in 1..o /\ p[j] = q[j] /\ l \in j + 1..l BY <2>2, <1>1
    <3>2. q[j].id # r.id BY <3>1, <1>1, <1>5
    <3>3. ASSUME NEW e \in j + 1..o PROVE q[e].id # q[j].id
      <4>1. e \in j + 1..l /\ e \in 1..o BY <1>1, <3>1
      <4> QED BY <4>1, <3>1, <1>1, <1>5
    <3>4. n[q[j].id] = -1 BY <3>1, <3>3, <1>5 DEF StopsEnd, o
    <3> QED BY <3>1, <3>2, <3>4, <1>2
  <2> QED BY <2>1, <2>2
<1>6. StopsApart(p) BY <1>1, <1>4 DEF StopsApart
<1>7. StopsEnd(p, m) BY <1>1, <1>5 DEF StopsEnd
<1> QED BY <1>6, <1>7 DEF p

LEMMA StopsTail ==
    ASSUME NEW q \in Seq(RadiusRecord), q # <<>>, NEW n, StopsApart(q), StopsEnd(q, n)
    PROVE  StopsApart(Tail(q)) /\ StopsEnd(Tail(q), n)
<1> DEFINE p == Tail(q)
           o == Len(p)
<1>1. Len(p) = Len(q) - 1 /\ Len(q) \in Nat \ {0} /\ \A j \in 1..Len(q) - 1 : p[j] = q[j + 1] BY Tails
<1>2. o \in Nat /\ Len(q) = o + 1 /\ \A k \in 1..o : p[k] = q[k + 1] /\ k + 1 \in 1..Len(q) BY <1>1
<1> HIDE DEF p
<1>3. ASSUME NEW j \in 1..o, NEW k \in 1..o, j < k, p[j].id = p[k].id, p[j].status = "stop", \A e \in j + 1..k - 1 : p[e].id # p[j].id
      PROVE  p[k].status = "start"
  <2> DEFINE x == j + 1
             y == k + 1
  <2>1. x \in 1..Len(q) /\ y \in 1..Len(q) /\ x < y /\ q[x] = p[j] /\ q[y] = p[k] BY <1>2, <1>3
  <2>2. ASSUME NEW e \in x + 1..y - 1 PROVE q[e].id # q[x].id
    <3>1. e - 1 \in j + 1..k - 1 /\ e - 1 \in 1..o /\ (e - 1) + 1 = e BY <1>2
    <3> QED BY <3>1, <2>1, <1>2, <1>3
  <2> HIDE DEF x, y
  <2> QED BY <2>1, <2>2, <1>3 DEF StopsApart
<1>4. ASSUME NEW j \in 1..o, p[j].status = "stop", \A e \in j + 1..o : p[e].id # p[j].id PROVE n[p[j].id] = -1
  <2> DEFINE x == j + 1
  <2>1. x \in 1..Len(q) /\ q[x] = p[j] BY <1>2
  <2>2. ASSUME NEW e \in x + 1..Len(q) PROVE q[e].id # q[x].id
    <3>1. e - 1 \in j + 1..o /\ e - 1 \in 1..o /\ (e - 1) + 1 = e BY <1>2
    <3> QED BY <3>1, <2>1, <1>2, <1>4
  <2> HIDE DEF x
  <2> QED BY <2>1, <2>2, <1>4 DEF StopsEnd
<1>5. StopsApart(p) BY <1>3 DEF StopsApart
<1>6. StopsEnd(p, n) BY <1>4 DEF StopsEnd
<1> QED BY <1>5, <1>6 DEF p

LEMMA NothingFlies == ASSUME NEW s PROVE Flying(<<>>, s) = 0 /\ \A i : Knows(<<>>, s, i, 0) = s[i]
<1>1. 1..Len(<<>>) = {} /\ 1..0 = {} OBVIOUS
<1>2. Flying(<<>>, s) = 0 BY <1>1, TotalEmpty DEF Flying
<1> QED BY <1>1, <1>2 DEF Knows, Earlier

LEMMA NothingWaits ==
    ASSUME IsFiniteSet(AcctIds), NEW q, NEW s, NEW n, \A i \in AcctIds : n[i] = -1
    PROVE  Waiting(q, s, n) = 0
<1> DEFINE a == AtDaemon(q, s, n)
<1>1. \A i \in AcctIds : a[i] = 0 BY DEF AtDaemon
<1> HIDE DEF a
<1>2. Counts(a, AcctIds) BY <1>1 DEF Counts
<1>3. Total(a, AcctIds) = Total(a, {}) BY <1>1, <1>2, TotalZeros
<1> QED BY <1>3, TotalEmpty DEF Waiting, a

LEMMA RadiusInit == Radius!Init => RadiusInv
<1> SUFFICES ASSUME Radius!Init PROVE RadiusInv OBVIOUS
<1>1. /\ nas = [i \in AcctIds |-> -1] /\ net = <<>> /\ session = [i \in AcctIds |-> -1] /\ pending = 0 /\ billed = 0
      /\ moved = 0 /\ known = TRUE /\ orphaned = FALSE /\ faults = 0
  BY DEF Radius!Init, Radius!None
<1>2. MaxTraffic \in Nat /\ MaxNet \in Nat /\ IsFiniteSet(AcctIds)
  BY RadiusParameters DEF Radius!RadiusAssumption, Radius!IsFiniteSet, IsFiniteSet
<1>3. RadiusShape
  <2>1. nas \in [AcctIds -> -1..MaxTraffic] /\ session \in [AcctIds -> -1..MaxTraffic] /\ \A i \in AcctIds : nas[i] <= moved
    BY <1>1, <1>2
  <2>2. net \in Seq(RadiusRecord) /\ Len(net) <= MaxNet BY <1>1, <1>2
  <2>3. orphaned \in BOOLEAN /\ known \in BOOLEAN BY <1>1
  <2>4. moved \in 0..MaxTraffic /\ pending \in Nat /\ billed \in Nat /\ faults \in Nat BY <1>1, <1>2
  <2> QED BY <2>1, <2>2, <2>3, <2>4 DEF RadiusShape
<1>4. \A i \in AcctIds : nas[i] = -1 /\ session[i] = -1 BY <1>1
<1>5. Flying(net, session) = 0 /\ Waiting(net, session, nas) = 0 BY <1>1, <1>2, <1>4, NothingFlies, NothingWaits
<1>6. RadiusBound /\ RadiusFull BY <1>1, <1>5 DEF RadiusBound, RadiusFull, Carried
<1>7. StopsApart(net) /\ StopsEnd(net, nas) BY <1>1 DEF StopsApart, StopsEnd
<1>8. \A i \in AcctIds : Knows(net, session, i, Len(net)) = -1
  <2>1. Len(net) = 0 BY <1>1
  <2> QED BY <2>1, <1>1, <1>4, NothingFlies
<1>9. ASSUME NEW i \in AcctIds PROVE InStep(i) BY <1>4, <1>8 DEF InStep
<1> QED BY <1>3, <1>6, <1>7, <1>9 DEF RadiusInv

\* A record is sent: the session stands for nothing more, the record for what it stood for.
LEMMA RadiusSend ==
    ASSUME RadiusInv, NEW r \in RadiusRecord, net' = Append(net, r), Len(net) < MaxNet,
           nas' \in [AcctIds -> -1..MaxTraffic], Reports(nas, nas', r),
           UNCHANGED <<session, pending, billed, moved, known, orphaned, faults>>
    PROVE  RadiusInv'
<1>1. MaxTraffic \in Nat /\ MaxNet \in Nat /\ IsFiniteSet(AcctIds) BY RadiusTypes
<1>2. net \in Seq(RadiusRecord) /\ Len(net) \in Nat /\ moved \in 0..MaxTraffic BY RadiusTypes
<1>3. nas \in [AcctIds -> -1..MaxTraffic] /\ session \in [AcctIds -> -1..MaxTraffic] BY RadiusTypes
<1>4. net' \in Seq(RadiusRecord) /\ Carried(net', session', nas') = Carried(net, session, nas)
  <2>1. PICK m \in [AcctIds -> -1..MaxTraffic] : m = nas' OBVIOUS
  <2>2. Reports(nas, m, r) /\ nas \in Tallies /\ m \in Tallies /\ session \in Tallies BY <2>1, <1>3 DEF Tallies
  <2>3. Carried(Append(net, r), session, m) = Carried(net, session, nas) BY <2>2, <1>1, <1>2, SendKeeps
  <2> QED BY <2>1, <2>3, <1>2
<1>5. StopsApart(net') /\ StopsEnd(net', nas') BY <1>1, <1>2, StopsAppend DEF RadiusInv
<1> USE DEF Reports
<1>6. Len(net') = Len(net) + 1 BY <1>2
<1>7. r.id \in AcctIds /\ r.total \in Nat BY <1>1, RecordTypes
<1>8. \A i \in AcctIds : nas'[i] <= moved
  <2>1. \A i \in AcctIds : nas[i] <= moved BY DEF RadiusInv, RadiusShape
  <2>2. nas'[r.id] <= moved
    <3>1. CASE r.status = "stop" BY <3>1, <1>1, <1>2, RecordTypes
    <3>2. CASE r.status = "start" BY <3>2, <1>1, <1>2, RecordTypes
    <3>3. CASE r.status \notin {"start", "stop"} BY <3>3, <2>1, <1>1, <1>7, RecordTypes
    <3> QED BY <3>1, <3>2, <3>3
  <2> QED BY <2>1, <2>2
<1>9. RadiusShape' BY <1>1, <1>2, <1>4, <1>6, <1>8 DEF RadiusInv, RadiusShape
<1>11. RadiusBound' /\ RadiusFull'
  <2>1. pending \in Nat /\ billed \in Nat BY RadiusTypes
  <2> QED BY <2>1, <1>2, <1>4 DEF RadiusInv, RadiusBound, RadiusFull
<1>12. ASSUME NEW i \in AcctIds PROVE InStep(i)'
  <2>1. Knows(net', session', i, Len(net) + 1) = IF r.id = i THEN Radius!Left(r) ELSE Knows(net, session, i, Len(net))
    BY <1>2, KnowsAppend
  <2>2. InStep(i) BY DEF RadiusInv
  <2>3. CASE i = r.id
    <3>1. Knows(net', session', i, Len(net')) = nas'[i] BY <2>1, <2>3, <1>6
    <3>2. nas'[i] \in -1..MaxTraffic OBVIOUS
    <3> QED BY <3>1, <3>2 DEF InStep
  <2>4. CASE i # r.id
    <3>1. Knows(net', session', i, Len(net')) = Knows(net, session, i, Len(net)) /\ nas'[i] = nas[i] BY <2>1, <2>4, <1>6
    <3> QED BY <3>1, <2>2 DEF InStep
  <2> QED BY <2>3, <2>4
<1> QED BY <1>5, <1>9, <1>11, <1>12 DEF RadiusInv

LEMMA RadiusOpen == ASSUME RadiusInv, NEW i \in AcctIds, Radius!Open(i) PROVE RadiusInv'
<1> DEFINE r == [status |-> "start", id |-> i, total |-> 0]
<1>1. /\ nas[i] = -1 /\ nas' = [nas EXCEPT ![i] = 0] /\ Len(net) < MaxNet /\ net' = Append(net, r)
      /\ UNCHANGED <<session, pending, billed, moved, known, orphaned, faults>>
  BY DEF Radius!Open, Radius!Send, Radius!None, Radius!ledgerVars
<1>2. MaxTraffic \in Nat /\ nas \in [AcctIds -> -1..MaxTraffic] BY RadiusTypes
<1>3. r \in RadiusRecord /\ r.id = i /\ r.status = "start" BY <1>2 DEF RadiusRecord
<1>4. Radius!Left(r) = 0 BY DEF Radius!Left
<1> HIDE DEF r
<1>5. nas' \in [AcctIds -> -1..MaxTraffic] /\ nas'[i] = 0 /\ \A e \in AcctIds : e # i => nas'[e] = nas[e] BY <1>1, <1>2
<1>6. Reports(nas, nas', r) BY <1>1, <1>3, <1>4, <1>5 DEF Reports
<1> QED BY <1>1, <1>3, <1>5, <1>6, RadiusSend

LEMMA RadiusInterim == ASSUME RadiusInv, NEW i \in AcctIds, Radius!Interim(i) PROVE RadiusInv'
<1> DEFINE r == [status |-> "interim", id |-> i, total |-> nas[i]]
<1>1. /\ nas[i] # -1 /\ nas' = nas /\ Len(net) < MaxNet /\ net' = Append(net, r)
      /\ UNCHANGED <<session, pending, billed, moved, known, orphaned, faults>>
  BY DEF Radius!Interim, Radius!Send, Radius!None, Radius!ledgerVars
<1>2. MaxTraffic \in Nat /\ nas \in [AcctIds -> -1..MaxTraffic] BY RadiusTypes
<1>3. nas[i] \in 0..MaxTraffic BY <1>1, <1>2
<1>4. r \in RadiusRecord /\ r.id = i /\ r.status = "interim" /\ r.total = nas[i] BY <1>3 DEF RadiusRecord
<1>5. Radius!Left(r) = nas[i] BY DEF Radius!Left
<1>6. PICK x : x = r OBVIOUS
<1> HIDE DEF r
<1>7. Reports(nas, nas', r) BY <1>1, <1>4, <1>5 DEF Reports
<1> QED BY <1>1, <1>2, <1>4, <1>6, <1>7, RadiusSend

LEMMA RadiusClose == ASSUME RadiusInv, NEW i \in AcctIds, Radius!Close(i) PROVE RadiusInv'
<1> DEFINE r == [status |-> "stop", id |-> i, total |-> nas[i]]
<1>1. /\ nas[i] # -1 /\ nas' = [nas EXCEPT ![i] = -1] /\ Len(net) < MaxNet /\ net' = Append(net, r)
      /\ UNCHANGED <<session, pending, billed, moved, known, orphaned, faults>>
  BY DEF Radius!Close, Radius!Send, Radius!None, Radius!ledgerVars
<1>2. MaxTraffic \in Nat /\ nas \in [AcctIds -> -1..MaxTraffic] BY RadiusTypes
<1>3. nas[i] \in 0..MaxTraffic BY <1>1, <1>2
<1>4. r \in RadiusRecord /\ r.id = i /\ r.status = "stop" /\ r.total = nas[i] BY <1>3 DEF RadiusRecord
<1>5. Radius!Left(r) = -1 BY DEF Radius!Left, Radius!None
<1>6. PICK x : x = r OBVIOUS
<1> HIDE DEF r
<1>7. nas' \in [AcctIds -> -1..MaxTraffic] /\ nas'[i] = -1 /\ \A e \in AcctIds : e # i => nas'[e] = nas[e] BY <1>1, <1>2
<1>8. Reports(nas, nas', r) BY <1>1, <1>4, <1>5, <1>7 DEF Reports
<1> QED BY <1>1, <1>4, <1>6, <1>7, <1>8, RadiusSend

\* After a fault only the bound is left.
LEMMA RadiusFaulty ==
    ASSUME RadiusInv, faults' = faults + 1, RadiusShape', StopsApart(net'), StopsEnd(net', nas'), RadiusBound'
    PROVE  RadiusInv'
<1>1. faults' # 0 BY RadiusTypes
<1>2. RadiusFull' BY <1>1 DEF RadiusFull
<1>3. ASSUME NEW i \in AcctIds PROVE InStep(i)' BY <1>1 DEF InStep
<1> QED BY <1>2, <1>3 DEF RadiusInv

\* What is carried is a number.
LEMMA CarriedType ==
    ASSUME MaxTraffic \in Nat, IsFiniteSet(AcctIds), NEW q \in Seq(RadiusRecord), NEW s \in [AcctIds -> -1..MaxTraffic],
           NEW n \in [AcctIds -> -1..MaxTraffic]
    PROVE  Flying(q, s) \in Nat /\ Waiting(q, s, n) \in Nat /\ Carried(q, s, n) \in Nat
<1>1. Flying(q, s) \in Nat BY FlyingCounts
<1>2. Waiting(q, s, n) \in Nat BY WaitingCounts
<1> QED BY <1>1, <1>2 DEF Carried

Grows(n, m, i) == n[i] # -1 /\ m[i] = n[i] + 1 /\ \A e \in AcctIds : e # i => m[e] = n[e]

\* One byte that moves adds at most one, and one when the ledger is in step.
LEMMA MoveCarries ==
    ASSUME NEW q, NEW s, NEW n, NEW m, NEW i \in AcctIds, Grows(n, m, i), MaxTraffic \in Nat, IsFiniteSet(AcctIds),
           q \in Seq(RadiusRecord), s \in Tallies, n \in Tallies, m \in Tallies
    PROVE  /\ Carried(q, s, m) <= Carried(q, s, n) + 1
           /\ Knows(q, s, i, Len(q)) # -1 /\ Knows(q, s, i, Len(q)) <= n[i] => Carried(q, s, m) = Carried(q, s, n) + 1
<1> DEFINE a == AtDaemon(q, s, n)
           b == AtDaemon(q, s, m)
           x == Knows(q, s, i, Len(q))
           y == n[i]
<1>0. s \in [AcctIds -> -1..MaxTraffic] /\ n \in [AcctIds -> -1..MaxTraffic] /\ m \in [AcctIds -> -1..MaxTraffic] BY DEF Tallies
<1>1. y \in 0..MaxTraffic /\ m[i] = y + 1 /\ m[i] # -1 /\ m[i] \in 0..MaxTraffic /\ \A e \in AcctIds : e # i => m[e] = n[e]
  BY <1>0 DEF Grows
<1>2. /\ Counts(a, AcctIds) /\ Total(a, AcctIds) = Waiting(q, s, n) /\ Waiting(q, s, n) \in Nat
      /\ \A e \in AcctIds : Knows(q, s, e, Len(q)) \in -1..MaxTraffic
      /\ \A e \in AcctIds : a[e] = IF n[e] = -1 THEN 0 ELSE Gain(Knows(q, s, e, Len(q)), n[e])
  BY <1>0, WaitingCounts DEF Waiting
<1>3. /\ Counts(b, AcctIds) /\ Total(b, AcctIds) = Waiting(q, s, m) /\ Waiting(q, s, m) \in Nat
      /\ \A e \in AcctIds : b[e] = IF m[e] = -1 THEN 0 ELSE Gain(Knows(q, s, e, Len(q)), m[e])
  BY <1>0, WaitingCounts DEF Waiting
<1>4. x \in -1..MaxTraffic /\ a[i] = Gain(x, y) /\ b[i] = Gain(x, y + 1) BY <1>1, <1>2, <1>3
<1>5. \A e \in AcctIds \ {i} : a[e] = b[e] BY <1>1, <1>2, <1>3
<1> HIDE DEF a, b, x, y
<1>6. Waiting(q, s, m) = Waiting(q, s, n) + b[i] - a[i] BY <1>2, <1>3, <1>5, TotalChange
<1>7. a[i] \in Nat /\ b[i] \in Nat BY <1>2, <1>3 DEF Counts
<1>8. Gain(x, y + 1) <= Gain(x, y) + 1 /\ (x # -1 /\ x <= y => Gain(x, y + 1) = Gain(x, y) + 1) BY <1>1, <1>4, GainFacts
<1>9. Flying(q, s) \in Nat BY <1>0, FlyingCounts
<1>10. Carried(q, s, m) = Carried(q, s, n) + b[i] - a[i] /\ Carried(q, s, n) \in Nat
  <2>1. Waiting(q, s, n) \in Nat /\ Waiting(q, s, m) \in Nat BY <1>2, <1>3
  <2>2. \A F, W, V, u, v \in Nat : V = W + u - v => F + V = F + W + u - v /\ F + W \in Nat OBVIOUS
  <2> QED BY <2>1, <2>2, <1>6, <1>7, <1>9 DEF Carried
<1>11. Carried(q, s, m) <= Carried(q, s, n) + 1 BY <1>4, <1>7, <1>8, <1>10
<1>12. x # -1 /\ x <= y => Carried(q, s, m) = Carried(q, s, n) + 1 BY <1>4, <1>7, <1>8, <1>10
<1> QED BY <1>11, <1>12 DEF x, y

LEMMA RadiusMove == ASSUME RadiusInv, NEW i \in AcctIds, Radius!Move(i) PROVE RadiusInv'
<1>1. /\ nas[i] # -1 /\ moved < MaxTraffic /\ nas' = [nas EXCEPT ![i] = @ + 1] /\ moved' = moved + 1
      /\ UNCHANGED <<net, session, pending, billed, known, orphaned, faults>>
  BY DEF Radius!Move, Radius!None, Radius!ledgerVars
<1>2. MaxTraffic \in Nat /\ IsFiniteSet(AcctIds) /\ net \in Seq(RadiusRecord) BY RadiusTypes
<1>3. nas \in [AcctIds -> -1..MaxTraffic] /\ session \in [AcctIds -> -1..MaxTraffic] BY RadiusTypes
<1>4. moved \in 0..MaxTraffic /\ pending \in Nat /\ billed \in Nat /\ moved' \in 0..MaxTraffic
  <2>1. moved \in 0..MaxTraffic /\ pending \in Nat /\ billed \in Nat BY RadiusTypes
  <2> QED BY <2>1, <1>1, <1>2
<1>5. \A e \in AcctIds : nas[e] <= moved BY DEF RadiusInv, RadiusShape
<1>6. nas' \in [AcctIds -> -1..MaxTraffic] /\ nas'[i] = nas[i] + 1 /\ \A e \in AcctIds : e # i => nas'[e] = nas[e]
  BY <1>1, <1>2, <1>3, <1>4, <1>5
<1>7. RadiusShape'
  <2>1. \A e \in AcctIds : nas'[e] <= moved' BY <1>1, <1>3, <1>4, <1>5, <1>6
  <2> QED BY <2>1, <1>1, <1>4, <1>6 DEF RadiusInv, RadiusShape
<1>8. StopsApart(net') BY <1>1 DEF RadiusInv
<1>9. StopsEnd(net', nas')
  <2>1. \A e \in AcctIds : nas[e] = -1 => nas'[e] = -1 BY <1>1, <1>6
  <2>2. \A j \in 1..Len(net) : net[j].id \in AcctIds BY <1>2, RecordTypes
  <2> QED BY <2>1, <2>2, <1>1 DEF RadiusInv, StopsEnd
<1>10. /\ Carried(net', session', nas') <= Carried(net, session, nas) + 1
       /\ Knows(net, session, i, Len(net)) # -1 /\ Knows(net, session, i, Len(net)) <= nas[i]
             => Carried(net', session', nas') = Carried(net, session, nas) + 1
  <2>1. PICK m \in [AcctIds -> -1..MaxTraffic] : m = nas' BY <1>6
  <2>2. Grows(nas, m, i) /\ nas \in Tallies /\ m \in Tallies /\ session \in Tallies BY <2>1, <1>1, <1>3, <1>6 DEF Grows, Tallies
  <2>3. /\ Carried(net, session, m) <= Carried(net, session, nas) + 1
        /\ Knows(net, session, i, Len(net)) # -1 /\ Knows(net, session, i, Len(net)) <= nas[i]
             => Carried(net, session, m) = Carried(net, session, nas) + 1
    BY <2>2, <1>2, MoveCarries
  <2> QED BY <2>1, <2>3, <1>1
<1>11. Carried(net, session, nas) \in Nat /\ Carried(net', session', nas') \in Nat BY <1>1, <1>2, <1>3, <1>6, CarriedType
<1>12. RadiusBound' BY <1>1, <1>4, <1>10, <1>11 DEF RadiusInv, RadiusBound
<1>13. RadiusFull'
  <2> SUFFICES ASSUME faults = 0, ~orphaned PROVE RadiusFull' BY <1>1 DEF RadiusFull
  <2>1. InStep(i) BY DEF RadiusInv
  <2>2. Carried(net', session', nas') = Carried(net, session, nas) + 1 BY <2>1, <1>1, <1>10 DEF InStep
  <2> QED BY <2>2, <1>1, <1>4, <1>11 DEF RadiusInv, RadiusFull
<1>14. ASSUME NEW e \in AcctIds PROVE InStep(e)'
  <2>1. InStep(e) BY DEF RadiusInv
  <2>2. Knows(net, session, e, Len(net)) \in -1..MaxTraffic BY <1>2, <1>3, WaitingCounts
  <2>3. nas[e] \in -1..MaxTraffic BY <1>3
  <2> QED BY <2>1, <2>2, <2>3, <1>1, <1>6 DEF InStep
<1> QED BY <1>7, <1>8, <1>9, <1>12, <1>13, <1>14 DEF RadiusInv

LEMMA RadiusDaemonRestarts == ASSUME RadiusInv, Radius!DaemonRestarts PROVE RadiusInv'
<1>1. /\ faults' = faults + 1 /\ nas' = [i \in AcctIds |-> -1]
      /\ UNCHANGED <<net, session, pending, billed, moved, known, orphaned>>
  BY DEF Radius!DaemonRestarts, Radius!None, Radius!ledgerVars
<1>2. MaxTraffic \in Nat /\ IsFiniteSet(AcctIds) /\ net \in Seq(RadiusRecord) BY RadiusTypes
<1>3. nas \in [AcctIds -> -1..MaxTraffic] /\ session \in [AcctIds -> -1..MaxTraffic] BY RadiusTypes
<1>4. moved \in 0..MaxTraffic /\ pending \in Nat /\ billed \in Nat /\ faults \in Nat BY RadiusTypes
<1>5. nas' \in [AcctIds -> -1..MaxTraffic] /\ \A e \in AcctIds : nas'[e] = -1 BY <1>1, <1>2
<1>6. RadiusShape'
  <2>1. \A e \in AcctIds : nas'[e] <= moved' BY <1>1, <1>4, <1>5
  <2> QED BY <2>1, <1>1, <1>4, <1>5 DEF RadiusInv, RadiusShape
<1>7. \A j \in 1..Len(net) : net[j].id \in AcctIds BY <1>2, RecordTypes
<1>8. StopsApart(net') /\ StopsEnd(net', nas') BY <1>1, <1>5, <1>7 DEF RadiusInv, StopsEnd
<1>9. RadiusBound'
  <2>1. Waiting(net', session', nas') = 0
    <3>1. PICK m : m = nas' OBVIOUS
    <3>2. Waiting(net, session, m) = 0 BY <3>1, <1>2, <1>5, NothingWaits
    <3> QED BY <3>1, <3>2, <1>1
  <2>2. Flying(net, session) \in Nat /\ Waiting(net, session, nas) \in Nat BY <1>2, <1>3, CarriedType
  <2> QED BY <2>1, <2>2, <1>1, <1>4 DEF RadiusInv, RadiusBound, Carried
<1> QED BY <1>1, <1>6, <1>8, <1>9, RadiusFaulty

\* Steps that touch neither the sessions nor the records, and bill what is pending
LEMMA RadiusBooks ==
    ASSUME RadiusInv, UNCHANGED <<nas, net, session, moved, orphaned, faults>>, known' \in BOOLEAN,
           pending' \in Nat, billed' \in Nat, billed' + pending' = billed + pending
    PROVE  RadiusInv'
<1>1. RadiusShape' BY DEF RadiusInv, RadiusShape
<1>2. RadiusBound' /\ RadiusFull' BY DEF RadiusInv, RadiusBound, RadiusFull
<1>3. ASSUME NEW i \in AcctIds PROVE InStep(i)'
  <2>1. InStep(i) BY DEF RadiusInv
  <2> QED BY <2>1 DEF InStep
<1> QED BY <1>1, <1>2, <1>3 DEF RadiusInv

\* Sessions are dropped from the ledger.
LEMMA RadiusFewer ==
    ASSUME RadiusInv, session' \in [AcctIds -> -1..MaxTraffic], \A i \in AcctIds : session'[i] = session[i] \/ session'[i] = -1,
           pending' \in Nat, pending' <= pending, faults' = faults + 1, UNCHANGED <<nas, net, billed, moved, known, orphaned>>
    PROVE  RadiusInv'
<1>1. MaxTraffic \in Nat /\ IsFiniteSet(AcctIds) /\ net \in Seq(RadiusRecord) BY RadiusTypes
<1>2. nas \in [AcctIds -> -1..MaxTraffic] /\ session \in [AcctIds -> -1..MaxTraffic] BY RadiusTypes
<1>3. moved \in 0..MaxTraffic /\ pending \in Nat /\ billed \in Nat /\ faults \in Nat BY RadiusTypes
<1>4. RadiusShape' BY <1>3 DEF RadiusInv, RadiusShape
<1>5. PICK t \in [AcctIds -> -1..MaxTraffic] : t = session' OBVIOUS
<1>6. \A i \in AcctIds : t[i] = session[i] \/ t[i] = -1 BY <1>5
<1>7. Flying(net, t) <= Flying(net, session) /\ Waiting(net, t, nas) <= Waiting(net, session, nas)
  BY <1>1, <1>2, <1>6, BaseLess
<1>8. /\ Flying(net, t) \in Nat /\ Waiting(net, t, nas) \in Nat
      /\ Flying(net, session) \in Nat /\ Waiting(net, session, nas) \in Nat
  BY <1>1, <1>2, CarriedType
<1>9. Carried(net', session', nas') <= Carried(net, session, nas)
  <2>1. Carried(net, t, nas) <= Carried(net, session, nas) BY <1>7, <1>8 DEF Carried
  <2> QED BY <2>1, <1>5
<1>10. Carried(net', session', nas') \in Int /\ Carried(net, session, nas) \in Int
  <2>1. Carried(net, t, nas) \in Int /\ Carried(net, session, nas) \in Int BY <1>8 DEF Carried
  <2> QED BY <2>1, <1>5
<1>11. RadiusBound' BY <1>3, <1>9, <1>10 DEF RadiusInv, RadiusBound
<1> QED BY <1>4, <1>11, RadiusFaulty DEF RadiusInv

LEMMA RadiusDrops ==
    ASSUME RadiusInv, Radius!PanelRestarts \/ \E i \in AcctIds : Radius!DropStale(i)
    PROVE  RadiusInv'
<1>1. session \in [AcctIds -> -1..MaxTraffic] BY RadiusTypes
<1>2. pending \in Nat BY RadiusTypes
<1>3. MaxTraffic \in Nat BY RadiusTypes
<1>4. CASE Radius!PanelRestarts
  <2>1. /\ session' = [i \in AcctIds |-> -1] /\ pending' = 0 /\ faults' = faults + 1
        /\ UNCHANGED <<nas, net, billed, moved, known, orphaned>>
    BY <1>4 DEF Radius!PanelRestarts, Radius!None
  <2>2. session' \in [AcctIds -> -1..MaxTraffic] /\ \A i \in AcctIds : session'[i] = -1 BY <2>1, <1>3
  <2>3. pending' \in Nat /\ pending' <= pending BY <2>1, <1>2
  <2> QED BY <2>1, <2>2, <2>3, RadiusFewer
<1>5. CASE \E i \in AcctIds : Radius!DropStale(i)
  <2>1. PICK i \in AcctIds : Radius!DropStale(i) BY <1>5
  <2>2. /\ session' = [session EXCEPT ![i] = -1] /\ pending' = pending /\ faults' = faults + 1
        /\ UNCHANGED <<nas, net, billed, moved, known, orphaned>>
    BY <2>1 DEF Radius!DropStale, Radius!None
  <2>3. session' \in [AcctIds -> -1..MaxTraffic] /\ \A e \in AcctIds : session'[e] = session[e] \/ session'[e] = -1
    BY <2>2, <1>1, <1>3
  <2>4. pending' \in Nat /\ pending' <= pending BY <2>2, <1>2
  <2> QED BY <2>2, <2>3, <2>4, RadiusFewer
<1> QED BY <1>4, <1>5

LEMMA RadiusLose == ASSUME RadiusInv, Radius!Lose PROVE RadiusInv'
<1>1. /\ faults' = faults + 1 /\ net # <<>> /\ net' = Tail(net)
      /\ UNCHANGED <<nas, session, pending, billed, moved, known, orphaned>>
  BY DEF Radius!Lose, Radius!ledgerVars
<1>2. MaxTraffic \in Nat /\ MaxNet \in Nat /\ IsFiniteSet(AcctIds) /\ net \in Seq(RadiusRecord) /\ Len(net) <= MaxNet BY RadiusTypes
<1>3. nas \in [AcctIds -> -1..MaxTraffic] /\ session \in [AcctIds -> -1..MaxTraffic] BY RadiusTypes
<1>4. moved \in 0..MaxTraffic /\ pending \in Nat /\ billed \in Nat /\ faults \in Nat BY RadiusTypes
<1>5. Tail(net) \in Seq(RadiusRecord) /\ Len(Tail(net)) = Len(net) - 1 /\ Len(net) \in Nat BY <1>1, <1>2, Tails
<1>6. RadiusShape'
  <2>1. net' \in Seq(RadiusRecord) /\ Len(net') <= MaxNet BY <1>1, <1>2, <1>5
  <2> QED BY <2>1, <1>1, <1>4 DEF RadiusInv, RadiusShape
<1>7. StopsApart(net) /\ StopsEnd(net, nas) BY DEF RadiusInv
<1>8. StopsApart(net') /\ StopsEnd(net', nas') BY <1>1, <1>2, <1>7, StopsTail
<1>9. Carried(Tail(net), session, nas) <= Carried(net, session, nas) BY <1>1, <1>2, <1>3, <1>7, SkipLess
<1>10. Carried(Tail(net), session, nas) \in Nat /\ Carried(net, session, nas) \in Nat BY <1>2, <1>3, <1>5, CarriedType
<1>11. RadiusBound' BY <1>1, <1>4, <1>9, <1>10 DEF RadiusInv, RadiusBound
<1> QED BY <1>1, <1>6, <1>8, <1>11, RadiusFaulty

\* What the ledger makes of a record
LEMMA AppliedFacts ==
    ASSUME MaxTraffic \in Nat, NEW r \in RadiusRecord, session \in [AcctIds -> -1..MaxTraffic], known \in BOOLEAN
    PROVE  /\ Radius!Unknown(r) => Radius!Applied(r).total = -1 /\ Radius!Applied(r).delta = 0 /\ session[r.id] = -1
           /\ ~Radius!Unknown(r) => /\ Radius!Applied(r).total = Radius!Left(r)
                                    /\ Radius!Applied(r).delta = Gain(session[r.id], r.total)
<1>1. r.status = "start" => r.total = 0 BY RecordTypes
<1>2. r.total \in Nat BY RecordTypes
<1>3. CASE Radius!Unknown(r)
  <2>1. Radius!Applied(r) = [total |-> -1, delta |-> 0] BY <1>3 DEF Radius!Applied, Radius!Unknown, Radius!None
  <2>2. session[r.id] = -1 BY <1>3 DEF Radius!Unknown, Radius!None
  <2> QED BY <2>1, <2>2, <1>3
<1>4. CASE ~Radius!Unknown(r) /\ session[r.id] = -1
  <2>1. known BY <1>4 DEF Radius!Unknown, Radius!None
  <2>2. Radius!Applied(r) = Radius!Opened(r) BY <2>1, <1>4 DEF Radius!Applied, Radius!None
  <2>3. Radius!Opened(r) = [total |-> Radius!Left(r), delta |-> 0] BY <1>1 DEF Radius!Opened
  <2>4. Gain(session[r.id], r.total) = 0 BY <1>4 DEF Gain
  <2> QED BY <2>2, <2>3, <2>4, <1>4
<1>5. CASE ~Radius!Unknown(r) /\ session[r.id] # -1
  <2>1. Radius!Applied(r) = [total |-> Radius!Left(r), delta |-> Radius!Moved(session[r.id], r.total)]
    BY <1>5 DEF Radius!Applied, Radius!None
  <2>2. Gain(session[r.id], r.total) = Radius!Moved(session[r.id], r.total) BY <1>5 DEF Gain
  <2> QED BY <2>1, <2>2, <1>5
<1> QED BY <1>3, <1>4, <1>5

LEMMA RemoveFirst == ASSUME NEW S, NEW q \in Seq(S), q # <<>> PROVE Radius!RemoveAt(q, 1) = Tail(q)
<1>1. Len(q) \in Nat \ {0} BY Tails
<1>2. SubSeq(q, 1, 0) = <<>> OBVIOUS
<1>3. SubSeq(q, 2, Len(q)) = Tail(q) BY <1>1
<1>4. <<>> \o Tail(q) = Tail(q) BY Tails
<1> QED BY <1>2, <1>3, <1>4 DEF Radius!RemoveAt

\* The ledger has the first record, and bills what it stood for.
LEMMA RadiusApplied ==
    ASSUME RadiusInv, net # <<>>, NEW r, r = net[1], NEW gain, gain = Gain(session[r.id], r.total),
           session' = [session EXCEPT ![r.id] = Radius!Left(r)], pending' = pending + gain,
           \/ net' = Tail(net) /\ faults' = faults
           \/ net' = net /\ faults' = faults + 1,
           UNCHANGED <<nas, billed, moved, known, orphaned>>
    PROVE  RadiusInv'
<1>1. MaxTraffic \in Nat /\ MaxNet \in Nat /\ IsFiniteSet(AcctIds) /\ net \in Seq(RadiusRecord) /\ Len(net) <= MaxNet BY RadiusTypes
<1>2. nas \in [AcctIds -> -1..MaxTraffic] /\ session \in [AcctIds -> -1..MaxTraffic] BY RadiusTypes
<1>3. moved \in 0..MaxTraffic /\ pending \in Nat /\ billed \in Nat /\ faults \in Nat BY RadiusTypes
<1>4. Tail(net) \in Seq(RadiusRecord) /\ Len(Tail(net)) = Len(net) - 1 /\ Len(net) \in Nat \ {0} BY <1>1, Tails
<1>5. r \in RadiusRecord BY <1>1, <1>4
<1>6. r.id \in AcctIds /\ r.total \in 0..MaxTraffic /\ Radius!Left(r) \in -1..MaxTraffic BY <1>1, <1>5, RecordTypes
<1>7. PICK t : t = session' OBVIOUS
<1>8. t \in [AcctIds -> -1..MaxTraffic] /\ \A i \in AcctIds : t[i] = IF r.id = i THEN Radius!Left(r) ELSE session[i]
  BY <1>2, <1>6, <1>7
<1>9. gain \in Nat /\ Gain(Radius!Left(r), r.total) = 0
  <2>1. gain \in Nat BY <1>1, <1>2, <1>6, GainFacts
  <2>2. Gain(r.total, r.total) = 0 /\ Gain(-1, r.total) = 0 BY <1>1, <1>6, GainFacts
  <2>3. Radius!Left(r) = -1 \/ Radius!Left(r) = r.total BY <1>1, <1>5, RecordTypes
  <2> QED BY <2>1, <2>2, <2>3
<1>10. /\ Flying(net, session) = gain + Flying(Tail(net), t) /\ Waiting(net, session, nas) = Waiting(Tail(net), t, nas)
       /\ \A i \in AcctIds : Knows(net, session, i, Len(net)) = Knows(Tail(net), t, i, Len(Tail(net)))
  <2>1. Heard(net, session, t) /\ session \in Tallies /\ t \in Tallies /\ nas \in Tallies BY <1>2, <1>8 DEF Heard, Tallies
  <2> QED BY <2>1, <1>1, ShiftKeeps
<1>11. Flying(net, t) = Gain(t[r.id], r.total) + Flying(Tail(net), t) /\ Waiting(net, t, nas) = Waiting(Tail(net), t, nas)
  <2>1. Heard(net, t, t) /\ t \in Tallies /\ nas \in Tallies BY <1>2, <1>8 DEF Heard, Tallies
  <2> QED BY <2>1, <1>1, ShiftKeeps
<1>12. t[r.id] = Radius!Left(r) BY <1>6, <1>8
<1>13. Flying(Tail(net), t) \in Nat /\ Waiting(Tail(net), t, nas) \in Nat BY <1>1, <1>2, <1>4, <1>8, CarriedType
<1>14. Carried(net, session, nas) = gain + Carried(Tail(net), t, nas) /\ Carried(Tail(net), t, nas) \in Nat
  BY <1>9, <1>10, <1>13 DEF Carried
<1>15. Carried(net, t, nas) = Carried(Tail(net), t, nas) BY <1>9, <1>11, <1>12, <1>13 DEF Carried
<1>16. Carried(net, session, nas) = gain + Carried(net', session', nas') /\ Carried(net', session', nas') \in Nat
  BY <1>7, <1>14, <1>15
<1>17. StopsApart(net) /\ StopsEnd(net, nas) BY DEF RadiusInv
<1>18. StopsApart(net') /\ StopsEnd(net', nas') BY <1>1, <1>17, StopsTail
<1>19. RadiusShape'
  <2>1. net' \in Seq(RadiusRecord) /\ Len(net') <= MaxNet
    <3>1. Len(Tail(net)) <= MaxNet BY <1>1, <1>4
    <3>2. CASE net' = Tail(net) BY <3>1, <3>2, <1>4
    <3>3. CASE net' = net BY <3>3, <1>1
    <3> QED BY <3>2, <3>3
  <2>2. faults' \in Nat /\ pending' \in Nat
    <3>1. pending' \in Nat BY <1>3, <1>9
    <3>2. faults' = faults \/ faults' = faults + 1 OBVIOUS
    <3> QED BY <3>1, <3>2, <1>3
  <2>3. session' \in [AcctIds -> -1..MaxTraffic] BY <1>7, <1>8
  <2> QED BY <2>1, <2>2, <2>3 DEF RadiusInv, RadiusShape
<1>20. RadiusBound' BY <1>3, <1>9, <1>16 DEF RadiusInv, RadiusBound
<1>21. CASE net' = net /\ faults' = faults + 1 BY <1>18, <1>19, <1>20, <1>21, RadiusFaulty
<1>22. CASE net' = Tail(net) /\ faults' = faults
  <2>1. RadiusFull' BY <1>3, <1>9, <1>16, <1>22 DEF RadiusInv, RadiusFull
  <2>2. ASSUME NEW i \in AcctIds PROVE InStep(i)'
    <3>1. InStep(i) BY DEF RadiusInv
    <3>2. Knows(net', session', i, Len(net')) = Knows(net, session, i, Len(net)) BY <1>7, <1>10, <1>22
    <3> QED BY <3>1, <3>2, <1>22 DEF InStep
  <2> QED BY <2>1, <2>2, <1>18, <1>19, <1>20 DEF RadiusInv
<1> QED BY <1>21, <1>22

\* A record that opens nothing as the client has been removed
LEMMA RadiusOrphan ==
    ASSUME RadiusInv, net # <<>>, session[net[1].id] = -1, orphaned' = TRUE,
           \/ net' = Tail(net) /\ faults' = faults
           \/ net' = net /\ faults' = faults + 1,
           UNCHANGED <<nas, session, pending, billed, moved, known>>
    PROVE  RadiusInv'
<1>1. MaxTraffic \in Nat /\ MaxNet \in Nat /\ IsFiniteSet(AcctIds) /\ net \in Seq(RadiusRecord) /\ Len(net) <= MaxNet BY RadiusTypes
<1>2. nas \in [AcctIds -> -1..MaxTraffic] /\ session \in [AcctIds -> -1..MaxTraffic] BY RadiusTypes
<1>3. moved \in 0..MaxTraffic /\ pending \in Nat /\ billed \in Nat /\ faults \in Nat BY RadiusTypes
<1>4. Tail(net) \in Seq(RadiusRecord) /\ Len(Tail(net)) = Len(net) - 1 /\ Len(net) \in Nat \ {0} BY <1>1, Tails
<1>5. StopsApart(net) /\ StopsEnd(net, nas) BY DEF RadiusInv
<1>6. StopsApart(net') /\ StopsEnd(net', nas') BY <1>1, <1>5, StopsTail
<1>7. RadiusShape'
  <2>1. net' \in Seq(RadiusRecord) /\ Len(net') <= MaxNet BY <1>1, <1>4
  <2>2. faults' \in Nat BY <1>3
  <2> QED BY <2>1, <2>2 DEF RadiusInv, RadiusShape
<1>8. RadiusFull' BY DEF RadiusFull
<1>9. Carried(Tail(net), session, nas) <= Carried(net, session, nas) BY <1>1, <1>2, <1>5, SkipLess
<1>10. Carried(Tail(net), session, nas) \in Nat /\ Carried(net, session, nas) \in Nat BY <1>1, <1>2, <1>4, CarriedType
<1>11. Carried(net', session', nas') <= Carried(net, session, nas) /\ Carried(net', session', nas') \in Nat
  <2>1. Carried(net', session', nas') \in {Carried(net, session, nas), Carried(Tail(net), session, nas)}
    <3>1. CASE net' = Tail(net) BY <3>1
    <3>2. CASE net' = net BY <3>2
    <3> QED BY <3>1, <3>2
  <2> QED BY <2>1, <1>9, <1>10
<1>12. RadiusBound' BY <1>3, <1>10, <1>11 DEF RadiusInv, RadiusBound
<1>13. ASSUME NEW i \in AcctIds PROVE InStep(i)'
  <2>1. InStep(i) BY DEF RadiusInv
  <2>2. CASE net' = net BY <2>1, <2>2, <1>3 DEF InStep
  <2>3. CASE net' = Tail(net) /\ faults' = faults
    <3> DEFINE r == net[1]
    <3>1. r \in RadiusRecord BY <1>1, <1>4
    <3>2. r.id \in AcctIds /\ Radius!Left(r) \in -1..MaxTraffic BY <3>1, <1>1, RecordTypes
    <3>3. PICK t : t = [session EXCEPT ![r.id] = Radius!Left(r)] OBVIOUS
    <3>4. t \in [AcctIds -> -1..MaxTraffic] /\ \A e \in AcctIds : t[e] = IF r.id = e THEN Radius!Left(r) ELSE session[e]
      BY <3>2, <3>3, <1>2
    <3>5. Knows(net, session, i, Len(net)) = Knows(Tail(net), t, i, Len(Tail(net)))
      <4>1. Heard(net, session, t) /\ session \in Tallies /\ t \in Tallies /\ nas \in Tallies BY <3>4, <1>2 DEF Heard, Tallies
      <4> QED BY <4>1, <1>1, ShiftKeeps
    <3>6. \A e \in AcctIds : session[e] = t[e] \/ session[e] = -1 BY <3>4
    <3>7. Knows(Tail(net), session, i, Len(Tail(net))) \in {-1, Knows(Tail(net), t, i, Len(Tail(net)))}
      BY <3>4, <3>6, <1>1, <1>2, <1>4, BaseLess
    <3>8. Knows(net', session', i, Len(net')) # -1 => Knows(net, session, i, Len(net)) # -1 BY <3>5, <3>7, <2>3
    <3> QED BY <3>8, <2>1, <2>3 DEF InStep
  <2> QED BY <2>2, <2>3
<1> QED BY <1>6, <1>7, <1>8, <1>12, <1>13 DEF RadiusInv

\* handleAcct: packets come in the order in which they were sent.
LEMMA RadiusDeliver ==
    ASSUME RadiusInv, ~Reorder, NEW k, NEW again \in BOOLEAN, Radius!Deliver(k, again)
    PROVE  RadiusInv'
<1>1. MaxTraffic \in Nat /\ net \in Seq(RadiusRecord) /\ Len(net) \in Nat BY RadiusTypes
<1>2. session \in [AcctIds -> -1..MaxTraffic] /\ pending \in Nat BY RadiusTypes
<1>3. known \in BOOLEAN /\ orphaned \in BOOLEAN BY DEF RadiusInv, RadiusShape
<1>4. k = 1 /\ k \in 1..Len(net) BY DEF Radius!Deliver
<1>5. net # <<>> /\ net[1] \in RadiusRecord BY <1>1, <1>4
<1>6. PICK r : r = net[1] OBVIOUS
<1>7. /\ session' = [session EXCEPT ![r.id] = Radius!Applied(r).total] /\ pending' = pending + Radius!Applied(r).delta
      /\ orphaned' = (orphaned \/ Radius!Unknown(r)) /\ UNCHANGED <<nas, billed, moved, known>>
      /\ faults' = IF again THEN faults + 1 ELSE faults
      /\ net' = IF again THEN net ELSE Radius!RemoveAt(net, 1)
  BY <1>4, <1>6 DEF Radius!Deliver
<1>8. Radius!RemoveAt(net, 1) = Tail(net) BY <1>1, <1>5, RemoveFirst
<1>9. \/ net' = Tail(net) /\ faults' = faults
      \/ net' = net /\ faults' = faults + 1
  BY <1>7, <1>8
<1>10. r \in RadiusRecord BY <1>5, <1>6
<1>11. CASE Radius!Unknown(r)
  <2>1. Radius!Applied(r).total = -1 /\ Radius!Applied(r).delta = 0 /\ session[r.id] = -1
    BY <1>1, <1>2, <1>3, <1>10, <1>11, AppliedFacts
  <2>2. session' = session BY <2>1, <1>2, <1>7
  <2>3. pending' = pending BY <2>1, <1>2, <1>7
  <2>4. orphaned' = TRUE BY <1>7, <1>11
  <2> QED BY <2>1, <2>2, <2>3, <2>4, <1>5, <1>6, <1>7, <1>9, RadiusOrphan
<1>12. CASE ~Radius!Unknown(r)
  <2>1. Radius!Applied(r).total = Radius!Left(r) /\ Radius!Applied(r).delta = Gain(session[r.id], r.total)
    BY <1>1, <1>2, <1>3, <1>10, <1>12, AppliedFacts
  <2>2. orphaned' = orphaned BY <1>3, <1>7, <1>12
  <2>3. PICK gain : gain = Gain(session[r.id], r.total) OBVIOUS
  <2>4. session' = [session EXCEPT ![r.id] = Radius!Left(r)] /\ pending' = pending + gain BY <2>1, <2>3, <1>7
  <2> QED BY <2>2, <2>3, <2>4, <1>5, <1>6, <1>7, <1>9, RadiusApplied
<1> QED BY <1>11, <1>12

LEMMA RadiusNext == ASSUME RadiusInv, ~Reorder, Radius!Next \/ UNCHANGED radiusVars PROVE RadiusInv'
<1>1. pending \in Nat /\ billed \in Nat BY RadiusTypes
<1>2. known \in BOOLEAN BY DEF RadiusInv, RadiusShape
<1>3. CASE UNCHANGED radiusVars
  <2>1. UNCHANGED <<nas, net, session, pending, billed, moved, known, orphaned, faults>> BY <1>3 DEF radiusVars
  <2> QED BY <2>1, <1>1, <1>2, RadiusBooks
<1>4. CASE Radius!Forget
  <2>1. known' = FALSE /\ UNCHANGED <<nas, net, session, pending, billed, moved, orphaned, faults>>
    BY <1>4 DEF Radius!Forget, Radius!ledgerVars
  <2>2. known' \in BOOLEAN BY <2>1
  <2> QED BY <2>1, <2>2, <1>1, RadiusBooks
<1>5. CASE Radius!Drain
  <2>1. billed' = billed + pending /\ pending' = 0 /\ UNCHANGED <<nas, net, session, moved, known, orphaned, faults>>
    BY <1>5 DEF Radius!Drain
  <2>2. known' \in BOOLEAN BY <2>1, <1>2
  <2>3. billed' \in Nat /\ pending' \in Nat /\ billed' + pending' = billed + pending BY <2>1, <1>1
  <2> QED BY <2>1, <2>2, <2>3, RadiusBooks
<1>6. CASE \E k \in 1..MaxNet, again \in BOOLEAN : Radius!Deliver(k, again) BY <1>6, RadiusDeliver
<1> QED
  BY <1>3, <1>4, <1>5, <1>6, RadiusOpen, RadiusMove, RadiusInterim, RadiusClose, RadiusDrops, RadiusDaemonRestarts, RadiusLose
     DEF Radius!Next

LEMMA RadiusSound ==
    ASSUME RadiusInv PROVE Radius!TypeOK /\ Radius!NeverTwice /\ Radius!BilledInFull /\ Radius!NoGhosts
<1>1. MaxTraffic \in Nat /\ IsFiniteSet(AcctIds) /\ net \in Seq(RadiusRecord) BY RadiusTypes
<1>2. nas \in [AcctIds -> -1..MaxTraffic] /\ session \in [AcctIds -> -1..MaxTraffic] BY RadiusTypes
<1>3. moved \in 0..MaxTraffic /\ pending \in Nat /\ billed \in Nat BY RadiusTypes
<1>4. Carried(net, session, nas) \in Nat BY <1>1, <1>2, CarriedType
<1>5. Radius!TypeOK BY <1>2, <1>3 DEF RadiusInv, RadiusShape, Radius!TypeOK
<1>6. Radius!NeverTwice BY <1>3, <1>4 DEF RadiusInv, RadiusBound, Radius!NeverTwice
<1>7. Radius!BilledInFull
  <2> SUFFICES ASSUME faults = 0, ~orphaned, net = <<>>, \A i \in AcctIds : nas[i] = -1 PROVE billed + pending = moved
    BY DEF Radius!BilledInFull, Radius!None
  <2>1. Flying(net, session) = 0 BY NothingFlies
  <2>2. Waiting(net, session, nas) = 0 BY <1>1, NothingWaits
  <2> QED BY <2>1, <2>2, <1>3 DEF RadiusInv, RadiusFull, Carried
<1>8. Radius!NoGhosts
  <2> SUFFICES ASSUME faults = 0, net = <<>>, NEW i \in AcctIds, session[i] # -1 PROVE nas[i] # -1
    BY DEF Radius!NoGhosts, Radius!None
  <2>1. Len(net) = 0 OBVIOUS
  <2>2. Knows(net, session, i, 0) = session[i] BY NothingFlies
  <2>3. InStep(i) BY DEF RadiusInv
  <2> QED BY <2>1, <2>2, <2>3 DEF InStep
<1> QED BY <1>5, <1>6, <1>7, <1>8

\* RADIUS accounting bills no byte twice, whatever is retransmitted, lost, dropped as stale or
\* restarted, and all of them once when nothing has gone wrong, and it keeps no session that was
\* closed in order (radius/ledger.go), as long as packets are handled in the order they were sent.
THEOREM RadiusStaysExact == ASSUME ~Reorder PROVE Spec => []RadiusExact
<1>1. Init => RadiusInv BY RadiusInit DEF Init
<1>2. RadiusInv /\ [Next]_vars => RadiusInv'
  BY RadiusNext DEF Next, HubStep, BusStep, WriterStep, RadiusStep, ClockStep, ConfigStep, BanStep, vars
<1>3. RadiusInv => RadiusExact BY RadiusSound DEF RadiusExact
<1> QED BY <1>1, <1>2, <1>3, PTL DEF Spec

-----------------------------------------------------------------------------
(* Trusted time.  An anchor that was not behind when it was taken never    *)
(* leads to a reading that is: a duration that is rounded up makes up for  *)
(* a time that is rounded down.  An answer counts from when it was asked   *)
(* for, and one to another question has another nonce.  Readings do not go *)
(* back as every anchor leads to times at least as late as the anchor that *)
(* it replaces, which a reader may still hold.                             *)

\* The boot clock
Passed == real - born

ClockTimes ==
    /\ real \in Nat /\ born \in Nat /\ born <= real /\ Milli <= real /\ real <= MaxReal
    /\ boot \in Nat /\ 1 <= boot /\ boot <= mishaps + 1
    /\ mishaps \in Nat /\ mishaps <= ClockFaults /\ cancels \in Nat

\* NoAnchor is of boot 0, which no host has.
AnchorType == [boot: Nat, nano: Nat, ms: Nat]

\* An anchor is of no later boot, and one of this boot was taken before now.
Dated(a) ==
    /\ a.boot <= boot /\ a.nano <= real /\ a.ms <= 2 * real
    /\ a.boot = boot => a.nano <= Passed /\ a.ms <= 2 * (born + a.nano)

\* Memory has what the journal has.
ClockAnchors ==
    /\ saved \in AnchorType /\ request \in AnchorType /\ disk = saved
    /\ Dated(saved) /\ Dated(request) /\ request.boot \in {0, boot}

\* The anchor is not behind the true time at which it was taken.
Ahead(a) == a.boot = boot => Clock!Floor(born + a.nano) <= a.ms

\* ms is no earlier than the question that is open.
Answers(ms) == Clock!Floor(born + asked.nano) <= ms

\* An awaited answer was asked for in this boot.
AskedShape ==
    /\ nonce \in {0} \cup Clock!Nonces
    /\ asked \in [boot: Nat, nano: Nat]
    /\ nonce # 0 => asked.boot = boot
    /\ asked.boot = boot => asked.nano <= Passed

CallShape ==
    /\ call \in [phase: {"idle", "asked", "answered"}, nonce: {0} \cup Clock!Nonces, ms: Nat]
    /\ call.ms <= Clock!Floor(real)
    /\ call.phase = "answered" /\ call.nonce = nonce /\ nonce # 0 => Answers(call.ms)

HandlerType == [phase: {"idle", "accept", "apply"}, nonce: {0} \cup Clock!Nonces, ms: Nat, needs: BOOLEAN]

\* What is known of one handler
Served(h) ==
    /\ serving[h].ms <= Clock!Floor(real)
    /\ serving[h].phase = "accept" /\ serving[h].nonce = nonce /\ nonce # 0 => Answers(serving[h].ms)
    /\ serving[h].phase = "idle" => serving[h] = Clock!NoHandler
    /\ serving[h].phase = "accept" /\ ~serving[h].needs => saved.boot = boot

ServingShape == serving \in [Requests -> HandlerType] /\ \A h \in Requests : Served(h)

\* The lower bound was one when it was taken, and behind by no more than a round trip.
Tight ==
    request.boot = boot =>
        /\ request.ms <= Clock!Floor(born + request.nano)
        /\ Clock!Floor(born + request.nano) <= request.ms + Clock!Ceil(MaxRoundTrip)

\* The saved anchor leads to times at least as late as an anchor that a reader still holds.
Heads(a) ==
    a.boot = boot =>
      /\ saved.boot = boot /\ a.nano <= saved.nano
      /\ a.ms + Clock!Ceil(saved.nano - a.nano) <= saved.ms

\* Who goes by the anchor now reads no less than r.
Covers(a, r) == r.boot = boot => a.boot = boot /\ r.ms <= a.ms + Clock!Ceil(Passed - a.nano)

ReaderType == [boot: Nat \cup {-1}, nano: Nat, ms: Nat]
ReadingType == [ms: Nat, boot: Nat, real: Nat]

\* What is known of one reader
Fits(c) ==
    /\ reader[c].boot <= boot /\ reading[c].boot <= boot
    /\ reader[c].boot = boot => reader[c].nano <= Passed
    /\ Ahead(reader[c]) /\ Heads(reader[c]) /\ Covers(saved, reading[c])
    /\ reader[c].boot = boot => Covers(reader[c], reading[c])
    /\ Clock!Floor(reading[c].real) <= reading[c].ms

ReadersShape ==
    /\ reader \in [Readers -> ReaderType] /\ reading \in [Readers -> ReadingType]
    /\ \A c \in Readers : Fits(c)

\* Once there is time, the configuration is applied, or a handler is about to, or one was cancelled.
Restores ==
    /\ available \in BOOLEAN
    /\ (cancels = 0 /\ saved.boot = boot) => (available \/ \E h \in Requests : serving[h].phase = "apply")

ClockInv ==
    /\ ClockTimes /\ ClockAnchors /\ Ahead(saved) /\ AskedShape /\ CallShape /\ ServingShape /\ Tight
    /\ ReadersShape /\ Restores

-----------------------------------------------------------------------------
(* Rounding                                                                *)

\* A quotient lies where the division says.
LEMMA Quotient ==
    ASSUME NEW x \in Nat
    PROVE  /\ Clock!Floor(x) \in Nat
           /\ Milli * Clock!Floor(x) <= x /\ x < Milli * Clock!Floor(x) + Milli
<1> Milli \in Nat /\ Milli > 0 BY ClockParameters DEF Clock!ClockAssumption
<1> QED BY DEF Clock!Floor

\* A factor cancels.
LEMMA Cancels ==
    ASSUME NEW m \in Nat, NEW a \in Int, NEW b \in Int, m > 0, m * a < m * b + m
    PROVE  a <= b
<1> SUFFICES ASSUME b + 1 <= a PROVE FALSE OBVIOUS
<1> DEFINE d == a - (b + 1)
<1>1. d \in Nat /\ a = b + 1 + d OBVIOUS
<1> HIDE DEF d
<1>2. m * a = m * b + m + m * d BY <1>1
<1>3. m * d >= 0 BY <1>1
<1> QED BY <1>2, <1>3

\* Two times that are rounded down lose less than a unit.
LEMMA FloorSum ==
    ASSUME NEW x \in Nat, NEW y \in Nat
    PROVE  /\ Clock!Floor(x) + Clock!Floor(y) <= Clock!Floor(x + y)
           /\ Clock!Floor(x + y) <= Clock!Floor(x) + Clock!Floor(y) + 1
<1> DEFINE a == Clock!Floor(x)
           b == Clock!Floor(y)
           c == Clock!Floor(x + y)
<1>0. Milli \in Nat /\ Milli > 0 BY ClockParameters DEF Clock!ClockAssumption
<1>1. /\ a \in Nat /\ b \in Nat /\ c \in Nat
      /\ Milli * a <= x /\ x < Milli * a + Milli
      /\ Milli * b <= y /\ y < Milli * b + Milli
      /\ Milli * c <= x + y /\ x + y < Milli * c + Milli
  BY Quotient
<1> HIDE DEF a, b, c
<1>2. Milli * (a + b) = Milli * a + Milli * b BY <1>0, <1>1
<1>3. Milli * (a + b + 1) = Milli * a + Milli * b + Milli BY <1>0, <1>1
<1>4. /\ Milli * a \in Int /\ Milli * b \in Int /\ Milli * c \in Int BY <1>0, <1>1
<1>5. Milli * (a + b) < Milli * c + Milli BY <1>0, <1>1, <1>2, <1>4
<1>6. Milli * c < Milli * (a + b + 1) + Milli BY <1>0, <1>1, <1>3, <1>4
<1>7. a + b <= c BY <1>0, <1>1, <1>5, Cancels
<1>8. c <= a + b + 1 BY <1>0, <1>1, <1>6, Cancels
<1> QED BY <1>7, <1>8 DEF a, b, c

\* Rounding keeps the order.
LEMMA FloorGrows ==
    ASSUME NEW x \in Nat, NEW y \in Nat, x <= y
    PROVE  Clock!Floor(x) <= Clock!Floor(y)
<1> DEFINE d == y - x
<1>1. d \in Nat /\ y = x + d OBVIOUS
<1> HIDE DEF d
<1>2. Clock!Floor(x) + Clock!Floor(d) <= Clock!Floor(x + d) BY <1>1, FloorSum
<1>3. Clock!Floor(x) \in Nat /\ Clock!Floor(d) \in Nat /\ Clock!Floor(y) \in Nat BY <1>1, Quotient
<1> QED BY <1>1, <1>2, <1>3

\* The same for rounding up
LEMMA CeilQuotient ==
    ASSUME NEW x \in Nat
    PROVE  /\ Clock!Ceil(x) \in Nat
           /\ x <= Milli * Clock!Ceil(x) /\ Milli * Clock!Ceil(x) < x + Milli
<1> DEFINE y == x + Milli - 1
           q == Clock!Floor(y)
<1>0. Milli \in Nat /\ Milli > 0 BY ClockParameters DEF Clock!ClockAssumption
<1>1. y \in Nat BY <1>0
<1>2. Clock!Ceil(x) = q BY DEF Clock!Ceil, Clock!Floor
<1> HIDE DEF q
<1>3. q \in Nat /\ Milli * q <= y /\ y < Milli * q + Milli BY <1>1, Quotient DEF q
<1>4. Milli * q \in Int BY <1>0, <1>3
<1> QED BY <1>0, <1>2, <1>3, <1>4

\* Rounding is at most the whole.
LEMMA Rounded ==
    ASSUME NEW x \in Nat
    PROVE  Clock!Floor(x) <= x /\ Clock!Ceil(x) <= x /\ Clock!Ceil(0) = 0
<1> DEFINE a == Clock!Floor(x)
           b == Clock!Ceil(x)
           z == Clock!Ceil(0)
<1>0. Milli \in Nat /\ Milli > 0 BY ClockParameters DEF Clock!ClockAssumption
<1>1. /\ a \in Nat /\ Milli * a <= x
      /\ b \in Nat /\ Milli * b < x + Milli
      /\ z \in Nat /\ Milli * z < 0 + Milli
  BY Quotient, CeilQuotient
<1> HIDE DEF a, b, z
<1>2. Milli * z < Milli * 0 + Milli BY <1>0, <1>1
<1>3. z <= 0 BY <1>0, <1>1, <1>2, Cancels
<1>4. /\ Milli = 1 + (Milli - 1) /\ Milli - 1 \in Nat BY <1>0
<1>5. a <= x
  <2>1. Milli * a = a + (Milli - 1) * a /\ (Milli - 1) * a \in Nat BY <1>0, <1>1, <1>4
  <2> QED BY <1>1, <2>1
<1>6. Milli * x = x + (Milli - 1) * x /\ (Milli - 1) * x >= 0 BY <1>0, <1>4
<1>7. Milli * b < Milli * x + Milli BY <1>0, <1>1, <1>6
<1>8. b <= x BY <1>0, <1>1, <1>7, Cancels
<1> QED BY <1>1, <1>3, <1>5, <1>8 DEF a, b, z

\* A duration that is rounded up makes up for a time that is rounded down.
LEMMA FloorCeil ==
    ASSUME NEW x \in Nat, NEW y \in Nat
    PROVE  /\ Clock!Floor(x + y) <= Clock!Floor(x) + Clock!Ceil(y)
           /\ Clock!Ceil(x + y) <= Clock!Ceil(x) + Clock!Ceil(y)
           /\ Clock!Ceil(x) <= Clock!Ceil(x + y)
<1> DEFINE a == Clock!Floor(x)
           b == Clock!Ceil(x)
           c == Clock!Ceil(y)
           f == Clock!Floor(x + y)
           g == Clock!Ceil(x + y)
<1>0. Milli \in Nat /\ Milli > 0 BY ClockParameters DEF Clock!ClockAssumption
<1>1. /\ a \in Nat /\ x < Milli * a + Milli
      /\ b \in Nat /\ x <= Milli * b /\ Milli * b < x + Milli
      /\ c \in Nat /\ y <= Milli * c /\ Milli * c < y + Milli
      /\ f \in Nat /\ Milli * f <= x + y
      /\ g \in Nat /\ x + y <= Milli * g /\ Milli * g < x + y + Milli
  BY Quotient, CeilQuotient
<1> HIDE DEF a, b, c, f, g
<1>2. /\ Milli * a \in Int /\ Milli * b \in Int /\ Milli * c \in Int /\ Milli * f \in Int /\ Milli * g \in Int
      /\ Milli * (a + c) = Milli * a + Milli * c /\ Milli * (b + c) = Milli * b + Milli * c
  BY <1>0, <1>1
<1>3. f <= a + c
  <2>1. Milli * f < Milli * (a + c) + Milli BY <1>0, <1>1, <1>2
  <2> QED BY <1>0, <1>1, <2>1, Cancels
<1>4. g <= b + c
  <2>1. Milli * g < Milli * (b + c) + Milli BY <1>0, <1>1, <1>2
  <2> QED BY <1>0, <1>1, <2>1, Cancels
<1>5. b <= g
  <2>1. Milli * b < Milli * g + Milli BY <1>0, <1>1, <1>2
  <2> QED BY <1>0, <1>1, <2>1, Cancels
<1> QED BY <1>3, <1>4, <1>5 DEF a, b, c, f, g

-----------------------------------------------------------------------------
(* The steps of the clock                                                  *)

\* The constants, from ClockParameters
LEMMA ClockConstants ==
    /\ Milli \in Nat /\ MaxRoundTrip \in Nat /\ MaxReal \in Nat /\ ClockFaults \in Nat /\ MaxCancels \in Nat
    /\ Milli > 0 /\ Milli <= MaxReal /\ IsFiniteSet(Requests)
BY ClockParameters DEF Clock!ClockAssumption, Clock!IsFiniteSet, IsFiniteSet

\* There are two more nonces than handlers.
LEMMA NoncesAre == Clock!Nonces = 1..Cardinality(Requests) + 2 /\ Cardinality(Requests) \in Nat
<1>1. Clock!Cardinality(Requests) = Cardinality(Requests) BY DEF Clock!Cardinality, Cardinality
<1>2. Cardinality(Requests) \in Nat BY ClockConstants, FS_CardinalityType
<1> QED BY <1>1, <1>2 DEF Clock!Nonces

\* Trust in an anchor is a matter of its boot.
LEMMA TrustIsBoot ==
    ASSUME ClockTimes, NEW a \in AnchorType, Dated(a)
    PROVE  Clock!Trusted(Clock!At, a) <=> a.boot = boot
BY DEF ClockTimes, AnchorType, Dated, Passed, Clock!Trusted, Clock!At, Clock!NoAnchor

\* Time passes: what was rounded can only grow.
LEMMA TickKeeps == ASSUME ClockInv, Clock!Tick PROVE ClockInv'
<1> USE DEF Clock!Tick, Clock!clockVars, Clock!readVars
<1>0. ClockTimes /\ ClockTimes' BY ClockConstants DEF ClockInv, ClockTimes
<1>1. ClockAnchors' BY <1>0 DEF ClockInv, ClockTimes, ClockAnchors, Dated, Passed, AnchorType
<1>2. Ahead(saved)' /\ Tight' /\ Restores' BY DEF ClockInv, Ahead, Tight, Restores
<1>3. AskedShape' BY <1>0 DEF ClockInv, ClockTimes, AskedShape, Passed, Clock!Nonces
<1>4. Clock!Floor(real) <= Clock!Floor(real + 1) /\ Clock!Floor(real) \in Nat /\ Clock!Floor(real + 1) \in Nat
  BY <1>0, FloorGrows, Quotient DEF ClockTimes
<1>5. CallShape' BY <1>4 DEF ClockInv, CallShape, Answers, Clock!Nonces
<1>6. ServingShape' BY <1>4 DEF ClockInv, ServingShape, Served, Answers, HandlerType, Clock!Nonces
<1>7. ReadersShape'
  <2>1. /\ reader \in [Readers -> ReaderType] /\ reading \in [Readers -> ReadingType]
        /\ saved \in AnchorType /\ Dated(saved)
    BY DEF ClockInv, ReadersShape, ClockAnchors
  <2> SUFFICES ASSUME NEW c \in Readers PROVE Fits(c)'
    BY <2>1 DEF ReadersShape, ReaderType, ReadingType
  <2>2. /\ reader[c] \in ReaderType /\ reading[c] \in ReadingType
        /\ reader[c].boot <= boot /\ reading[c].boot <= boot
        /\ reader[c].boot = boot => reader[c].nano <= Passed
        /\ Ahead(reader[c]) /\ Heads(reader[c]) /\ Covers(saved, reading[c])
        /\ reader[c].boot = boot => Covers(reader[c], reading[c])
        /\ Clock!Floor(reading[c].real) <= reading[c].ms
    BY DEF ClockInv, ReadersShape, Fits
  <2>3. ASSUME NEW n \in Nat, n <= Passed
        PROVE  Clock!Ceil(Passed - n) <= Clock!Ceil(real + 1 - born - n) /\ Clock!Ceil(Passed - n) \in Nat
               /\ Clock!Ceil(real + 1 - born - n) \in Nat
    <3> DEFINE x == Passed - n
    <3>1. x \in Nat /\ 1 \in Nat /\ real + 1 - born - n = x + 1 BY <2>3, <1>0 DEF ClockTimes, Passed
    <3> HIDE DEF x
    <3>2. Clock!Ceil(x) <= Clock!Ceil(x + 1) BY <3>1, FloorCeil
    <3> QED BY <3>1, <3>2, CeilQuotient DEF x
  <2>4. Ahead(reader[c])' /\ Heads(reader[c])' BY <2>2 DEF Ahead, Heads
  <2>5. Covers(saved, reading[c])' 
    BY <2>1, <2>2, <2>3, <1>0 DEF Covers, Passed, Dated, AnchorType, ReadingType, ClockTimes
  <2>6. ASSUME reader[c].boot = boot PROVE Covers(reader[c], reading[c])'
    BY <2>6, <2>2, <2>3, <1>0 DEF Covers, Passed, ReaderType, ReadingType, ClockTimes
  <2> QED BY <2>2, <2>4, <2>5, <2>6, <1>0 DEF Fits, Passed, ClockTimes, ReaderType
<1> QED BY <1>0, <1>1, <1>2, <1>3, <1>5, <1>6, <1>7 DEF ClockInv

\* There is a nonce that nobody has.
LEMMA FreeNonce ==
    ASSUME call = Clock!NoCall
    PROVE  LET n == CHOOSE m \in Clock!Nonces : Clock!NonceFree(m)
           IN  n \in Clock!Nonces /\ Clock!NonceFree(n)
<1> DEFINE S == {serving[h].nonce : h \in Requests}
           f == [h \in Requests |-> serving[h].nonce]
           T == S \cup {nonce}
           z == Cardinality(Requests)
<1>0. f \in Surjection(Requests, S) BY DEF Surjection
<1> HIDE DEF f
<1>1. IsFiniteSet(S) /\ Cardinality(S) <= z /\ z \in Nat /\ Cardinality(S) \in Nat
  <2> HIDE DEF S
  <2> QED BY <1>0, ClockConstants, FS_Surjection, FS_CardinalityType
<1>2. IsFiniteSet(T) /\ Cardinality(T) <= z + 1 /\ Cardinality(T) \in Nat
  <2> HIDE DEF S
  <2>1. IsFiniteSet(T) /\ Cardinality(T) = IF nonce \in S THEN Cardinality(S) ELSE Cardinality(S) + 1
    BY <1>1, FS_AddElement
  <2> QED BY <2>1, <1>1
<1>3. IsFiniteSet(1..z + 2) /\ Cardinality(1..z + 2) = z + 2
  <2>1. 1 \in Int /\ z + 2 \in Int /\ 1 <= z + 2 BY <1>1
  <2> QED BY <2>1, <1>1, FS_Interval
<1>4. ~(1..z + 2 \subseteq T)
  <2> SUFFICES ASSUME 1..z + 2 \subseteq T PROVE FALSE OBVIOUS
  <2>1. Cardinality(1..z + 2) <= Cardinality(T) BY <1>2, FS_Subset
  <2> QED BY <2>1, <1>1, <1>2, <1>3
<1>5. PICK m \in 1..z + 2 : m \notin T BY <1>4
<1>6. m \in Clock!Nonces /\ Clock!NonceFree(m)
  <2>1. m # 0 /\ m \in Clock!Nonces BY <1>1, <1>5, NoncesAre
  <2>2. m # nonce /\ \A h \in Requests : serving[h].nonce # m BY <1>5
  <2> QED BY <2>1, <2>2 DEF Clock!NonceFree, Clock!NoCall
<1> QED BY <1>6

\* A new question makes every answer on its way one to another nonce.
LEMMA BeginKeeps == ASSUME ClockInv, Clock!Begin PROVE ClockInv'
<1> USE DEF Clock!Begin, Clock!readVars
<1> DEFINE n == CHOOSE m \in Clock!Nonces : Clock!NonceFree(m)
<1>0. n \in Clock!Nonces /\ Clock!NonceFree(n) BY FreeNonce
<1>1. nonce' = n /\ call' = [phase |-> "asked", nonce |-> n, ms |-> 0] /\ asked' = Clock!At
      /\ UNCHANGED <<real, boot, born, saved, request, disk, serving, available, reader, reading, mishaps, cancels>>
  OBVIOUS
<1> HIDE DEF n, Clock!Begin
<1>2. ClockTimes' /\ ClockAnchors' /\ Ahead(saved)' /\ Tight' /\ Restores'
  BY <1>1 DEF ClockInv, ClockTimes, ClockAnchors, Dated, Passed, AnchorType, Ahead, Tight, Restores
<1>3. ReadersShape'
  BY <1>1 DEF ClockInv, ReadersShape, Fits, Ahead, Heads, Covers, Passed, ReaderType, ReadingType
<1>4. AskedShape' BY <1>0, <1>1 DEF ClockInv, ClockTimes, AskedShape, Clock!At, Clock!Nonces, Passed
<1>5. CallShape'
  <2>1. Clock!Floor(real) \in Nat BY Quotient DEF ClockInv, ClockTimes
  <2> QED BY <2>1, <1>0, <1>1 DEF CallShape, Answers, Clock!Nonces
<1>6. ServingShape'
  BY <1>0, <1>1 DEF ClockInv, ServingShape, Served, Answers, HandlerType, Clock!Nonces, Clock!NonceFree
<1> QED BY <1>2, <1>3, <1>4, <1>5, <1>6 DEF ClockInv

\* A step that only passes on the call leaves all but the call as it is.
LEMMA CallFrame ==
    ASSUME ClockInv, UNCHANGED <<real, boot, born, disk, saved, request, nonce, asked, serving, available, reader, reading,
                                 mishaps, cancels>>, CallShape'
    PROVE  ClockInv'
<1>1. ClockTimes' /\ ClockAnchors' /\ Ahead(saved)' /\ Tight' /\ Restores'
  BY DEF ClockInv, ClockTimes, ClockAnchors, Dated, Passed, AnchorType, Ahead, Tight, Restores
<1>2. ReadersShape'
  BY DEF ClockInv, ReadersShape, Fits, Ahead, Heads, Covers, Passed, ReaderType, ReadingType
<1>3. AskedShape' /\ ServingShape'
  BY DEF ClockInv, AskedShape, ServingShape, Served, Answers, HandlerType, Passed, Clock!Nonces
<1> QED BY <1>1, <1>2, <1>3 DEF ClockInv

\* The master answers after it was asked.
LEMMA SynchronizeKeeps == ASSUME ClockInv, Clock!Synchronize PROVE ClockInv'
<1> USE DEF Clock!Synchronize, Clock!clockVars, Clock!readVars
<1>1. Clock!Floor(real) \in Nat BY Quotient DEF ClockInv, ClockTimes
<1>2. nonce # 0 => Clock!Floor(born + asked.nano) <= Clock!Floor(real)
  BY FloorGrows DEF ClockInv, ClockTimes, AskedShape, Passed
<1>3. call \in [phase: {"idle", "asked", "answered"}, nonce: {0} \cup Clock!Nonces, ms: Nat]
  BY DEF ClockInv, CallShape
<1>4. call' = [phase |-> "answered", nonce |-> call.nonce, ms |-> Clock!Floor(real)]
  BY <1>3 DEF Clock!MasterMilli
<1>5. UNCHANGED <<real, boot, born, disk, saved, request, nonce, asked, serving, available, reader, reading,
                  mishaps, cancels>>
  OBVIOUS
<1> HIDE DEF Clock!Synchronize
<1>6. CallShape'
  BY <1>1, <1>2, <1>3, <1>4, <1>5 DEF CallShape, Answers, Clock!Nonces
<1> QED BY <1>5, <1>6, CallFrame

\* The agent gives up.
LEMMA AbandonKeeps == ASSUME ClockInv, Clock!Abandon PROVE ClockInv'
<1> USE DEF Clock!Abandon, Clock!clockVars, Clock!readVars
<1>1. Clock!Floor(real) \in Nat BY Quotient DEF ClockInv, ClockTimes
<1>2. CallShape' BY <1>1 DEF CallShape, Clock!NoCall, Clock!Nonces
<1> QED BY <1>2, CallFrame

\* A step that leaves times, anchors and readers alone
LEMMA ServingFrame ==
    ASSUME ClockInv, UNCHANGED <<real, boot, born, disk, saved, request, reader, reading>>,
           ClockTimes', AskedShape', CallShape', ServingShape', Restores'
    PROVE  ClockInv'
<1>1. ClockAnchors' /\ Ahead(saved)' /\ Tight'
  BY DEF ClockInv, ClockAnchors, Dated, Passed, AnchorType, Ahead, Tight
<1>2. ReadersShape'
  BY DEF ClockInv, ReadersShape, Fits, Ahead, Heads, Covers, Passed, ReaderType, ReadingType
<1> QED BY <1>1, <1>2 DEF ClockInv

\* A handler that has restoring left to do
Applies == [Clock!NoHandler EXCEPT !.phase = "apply"]

\* A handler that has ended or has one thing left
LEMMA EndedServed ==
    ASSUME ClockInv
    PROVE  /\ Clock!NoHandler \in HandlerType /\ Clock!NoHandler.ms = 0
           /\ Clock!NoHandler.phase = "idle" /\ Clock!Floor(real) \in Nat
           /\ Applies \in HandlerType /\ Applies.ms = 0 /\ Applies.phase = "apply"
<1>1. Clock!Floor(real) \in Nat BY Quotient DEF ClockInv, ClockTimes
<1>2. Clock!NoHandler \in HandlerType /\ Clock!NoHandler.ms = 0 /\ Clock!NoHandler.phase = "idle"
  BY DEF Clock!NoHandler, HandlerType
<1>3. Applies \in HandlerType /\ Applies.ms = 0 /\ Applies.phase = "apply" BY <1>2 DEF Applies, HandlerType
<1> QED BY <1>1, <1>2, <1>3

\* A handler goes on to its end, whatever it has found.
LEMMA EndKeeps ==
    ASSUME ClockInv, NEW h \in Requests, NEW e \in {Clock!NoHandler, Applies},
           serving' = [serving EXCEPT ![h] = e], UNCHANGED <<real, boot, born, asked>>,
           nonce' \in {nonce, 0}, saved.boot = boot => saved'.boot = boot
    PROVE  /\ ServingShape' /\ AskedShape'
           /\ \A g \in Requests : serving'[g] = IF g = h THEN e ELSE serving[g]
<1>1. /\ serving \in [Requests -> HandlerType] /\ \A g \in Requests : Served(g)
  BY DEF ClockInv, ServingShape
<1>2. \A g \in Requests : serving'[g] = IF g = h THEN e ELSE serving[g] BY <1>1
<1>3. e \in HandlerType /\ e.ms <= Clock!Floor(real) /\ e.phase # "accept" /\ (e.phase = "idle" => e = Clock!NoHandler)
  BY EndedServed
<1>4. serving' \in [Requests -> HandlerType] BY <1>1, <1>3
<1>5. ASSUME NEW g \in Requests PROVE Served(g)' BY <1>1, <1>2, <1>3 DEF Served, Answers
<1>6. AskedShape' BY DEF ClockInv, AskedShape, Passed, Clock!Nonces
<1> QED BY <1>2, <1>4, <1>5, <1>6 DEF ServingShape, HandlerType, Clock!Nonces

\* The handler keeps the answer, and whether there was time when it began.
LEMMA PostKeeps == ASSUME ClockInv, NEW h \in Requests, Clock!Post(h) PROVE ClockInv'
<1> DEFINE r == [phase |-> "accept", nonce |-> call.nonce, ms |-> call.ms, needs |-> Clock!NeedsTime]
<1>1. /\ call.phase = "answered" /\ serving[h] = Clock!NoHandler /\ call' = Clock!NoCall
      /\ serving' = [serving EXCEPT ![h] = r]
      /\ UNCHANGED <<real, boot, born, disk, saved, request, nonce, asked, available, reader, reading, mishaps, cancels>>
  BY DEF Clock!Post, Clock!clockVars, Clock!readVars
<1>2. ClockTimes' /\ AskedShape' BY <1>1 DEF ClockInv, ClockTimes, AskedShape, Passed, Clock!Nonces
<1>3. CallShape' BY <1>1, EndedServed DEF CallShape, Clock!NoCall, Clock!Nonces
<1>4. /\ Clock!NeedsTime \in BOOLEAN /\ (~Clock!NeedsTime => saved.boot = boot)
  BY TrustIsBoot DEF Clock!NeedsTime, Clock!Trusted, ClockInv, ClockAnchors
<1>5. /\ call \in [phase: {"idle", "asked", "answered"}, nonce: {0} \cup Clock!Nonces, ms: Nat]
      /\ call.ms <= Clock!Floor(real) /\ (call.nonce = nonce /\ nonce # 0 => Answers(call.ms))
  BY <1>1 DEF ClockInv, CallShape
<1>6. r \in HandlerType BY <1>4, <1>5 DEF HandlerType
<1>7. /\ r.phase = "accept" /\ r.nonce = call.nonce /\ r.ms = call.ms /\ r.needs = Clock!NeedsTime OBVIOUS
<1> HIDE DEF r
<1>8. ServingShape'
  <2>1. /\ serving \in [Requests -> HandlerType] /\ \A g \in Requests : Served(g)
    BY DEF ClockInv, ServingShape
  <2>2. \A g \in Requests : serving'[g] = IF g = h THEN r ELSE serving[g] BY <1>1, <2>1
  <2>3. serving' \in [Requests -> HandlerType] BY <1>1, <1>6, <2>1
  <2>4. Clock!Floor(real)' = Clock!Floor(real) BY <1>1
  <2> QED BY <1>1, <1>4, <1>5, <1>7, <2>1, <2>2, <2>3 DEF ServingShape, Served, Answers, HandlerType, Clock!Nonces
<1>9. Restores'
  <2>1. serving \in [Requests -> HandlerType] BY DEF ClockInv, ServingShape
  <2>2. \A g \in Requests : g # h => serving'[g] = serving[g] BY <1>1, <2>1
  <2>3. serving[h].phase # "apply" BY <1>1 DEF Clock!NoHandler
  <2> QED BY <1>1, <2>2, <2>3 DEF ClockInv, Restores
<1> QED BY <1>1, <1>2, <1>3, <1>8, <1>9, ServingFrame

\* A refusal uses up no more than the awaited nonce.
LEMMA RefuseKeeps == ASSUME ClockInv, NEW h \in Requests, Clock!Refuse(h) PROVE ClockInv'
<1>1. /\ serving[h].phase = "accept" /\ nonce' \in {nonce, 0} /\ serving' = [serving EXCEPT ![h] = Clock!NoHandler]
      /\ UNCHANGED <<real, boot, born, disk, saved, request, asked, call, available, reader, reading, mishaps, cancels>>
  BY DEF Clock!Refuse, Clock!readVars
<1>2. /\ ServingShape' /\ AskedShape'
      /\ \A g \in Requests : serving'[g] = IF g = h THEN Clock!NoHandler ELSE serving[g]
  BY <1>1, EndKeeps
<1>3. ClockTimes' BY <1>1 DEF ClockInv, ClockTimes
<1>4. CallShape' BY <1>1 DEF ClockInv, CallShape, Answers, Clock!Nonces
<1>5. Restores' BY <1>1, <1>2 DEF ClockInv, Restores
<1> QED BY <1>1, <1>2, <1>3, <1>4, <1>5, ServingFrame

\* An anchor that was not written is not used.
LEMMA WriteFailsKeeps == ASSUME ClockInv, NEW h \in Requests, Clock!WriteFails(h) PROVE ClockInv'
<1>1. /\ serving[h].phase = "accept" /\ nonce' = 0 /\ serving' = [serving EXCEPT ![h] = Clock!NoHandler]
      /\ mishaps < ClockFaults /\ mishaps' = mishaps + 1
      /\ UNCHANGED <<real, boot, born, disk, saved, request, asked, call, available, reader, reading, cancels>>
  BY DEF Clock!WriteFails, Clock!SavedUnwritten, Clock!readVars
<1>2. /\ ServingShape' /\ AskedShape'
      /\ \A g \in Requests : serving'[g] = IF g = h THEN Clock!NoHandler ELSE serving[g]
  BY <1>1, EndKeeps
<1>3. ClockTimes' BY <1>1, ClockConstants DEF ClockInv, ClockTimes
<1>4. CallShape' BY <1>1 DEF ClockInv, CallShape, Answers, Clock!Nonces
<1>5. Restores' BY <1>1, <1>2 DEF ClockInv, Restores
<1> QED BY <1>1, <1>2, <1>3, <1>4, <1>5, ServingFrame

\* Restoring settles whether the configuration is applied, unless it is cancelled.
LEMMA ApplyKeeps == ASSUME ClockInv, NEW h \in Requests, Clock!Apply(h) PROVE ClockInv'
<1>1. /\ serving' = [serving EXCEPT ![h] = Clock!NoHandler]
      /\ \/ available' = Clock!Trusted(Clock!At, saved) /\ cancels' = cancels
         \/ cancels' = cancels + 1 /\ available' = available
      /\ UNCHANGED <<real, boot, born, disk, saved, request, nonce, asked, call, reader, reading, mishaps>>
  BY DEF Clock!Apply, Clock!clockVars, Clock!readVars
<1>2. /\ ServingShape' /\ AskedShape' BY <1>1, EndKeeps
<1>3. ClockTimes' BY <1>1 DEF ClockInv, ClockTimes
<1>4. CallShape' BY <1>1 DEF ClockInv, CallShape, Answers, Clock!Nonces
<1>5. /\ Clock!Trusted(Clock!At, saved) \in BOOLEAN /\ (Clock!Trusted(Clock!At, saved) <=> saved.boot = boot)
  BY TrustIsBoot DEF Clock!Trusted, ClockInv, ClockAnchors
<1>6. Restores'
  <2>1. CASE available' = Clock!Trusted(Clock!At, saved) BY <2>1, <1>1, <1>5 DEF Restores
  <2>2. CASE cancels' = cancels + 1 /\ available' = available
    BY <2>2, <1>1 DEF ClockInv, ClockTimes, Restores
  <2> QED BY <1>1, <2>1, <2>2
<1> QED BY <1>1, <1>2, <1>3, <1>4, <1>6, ServingFrame

\* A step that only readers take
LEMMA ReaderFrame ==
    ASSUME ClockInv, ReadersShape',
           UNCHANGED <<real, boot, born, disk, saved, request, nonce, asked, call, serving, available, mishaps, cancels>>
    PROVE  ClockInv'
<1>1. ClockTimes' /\ ClockAnchors' /\ Ahead(saved)' /\ Tight' /\ Restores'
  BY DEF ClockInv, ClockTimes, ClockAnchors, Dated, Passed, AnchorType, Ahead, Tight, Restores
<1>2. AskedShape' /\ CallShape'
  BY DEF ClockInv, AskedShape, CallShape, Answers, Passed, Clock!Nonces
<1>3. ServingShape'
  BY DEF ClockInv, ServingShape, Served, Answers, HandlerType, Clock!Nonces
<1> QED BY <1>1, <1>2, <1>3 DEF ClockInv

\* The state of reading
LEMMA ReaderFacts ==
    ASSUME ClockInv
    PROVE  /\ ClockTimes /\ saved \in AnchorType /\ Dated(saved) /\ Ahead(saved)
           /\ reader \in [Readers -> ReaderType] /\ reading \in [Readers -> ReadingType]
           /\ \A c \in Readers : Fits(c)
BY DEF ClockInv, ClockAnchors, ReadersShape

\* A reader takes the saved anchor.
LEMMA LoadKeeps == ASSUME ClockInv, NEW c \in Readers, Clock!Load(c) PROVE ClockInv'
<1>1. /\ reader' = [reader EXCEPT ![c] = saved]
      /\ UNCHANGED <<real, boot, born, disk, saved, request, nonce, asked, call, serving, available, reading, mishaps, cancels>>
  BY DEF Clock!Load, Clock!clockVars
<1>2. saved \in ReaderType BY ReaderFacts DEF AnchorType, ReaderType
<1>3. reader' \in [Readers -> ReaderType] /\ \A d \in Readers : reader'[d] = IF d = c THEN saved ELSE reader[d]
  BY <1>1, <1>2, ReaderFacts
<1>4. saved.ms + Clock!Ceil(saved.nano - saved.nano) <= saved.ms
  <2>1. saved.ms \in Nat /\ saved.nano \in Nat BY ReaderFacts DEF AnchorType
  <2>2. saved.nano - saved.nano = 0 BY <2>1
  <2>3. Clock!Ceil(0) = 0 BY Rounded
  <2> QED BY <2>1, <2>2, <2>3
<1>5. ASSUME NEW d \in Readers PROVE Fits(d)'
  <2>1. Fits(d) BY ReaderFacts
  <2>2. CASE d # c BY <2>1, <2>2, <1>1, <1>3 DEF Fits, Ahead, Heads, Covers, Passed
  <2>3. CASE d = c
    <3>1. reader'[d] = saved BY <2>3, <1>3
    <3>2. /\ saved.boot <= boot /\ (saved.boot = boot => saved.nano <= Passed) /\ Ahead(saved)
          /\ saved.nano \in Nat
      BY ReaderFacts DEF Dated, AnchorType
    <3> QED BY <2>1, <3>1, <3>2, <1>1, <1>4 DEF Fits, Ahead, Heads, Covers, Passed
  <2> QED BY <2>2, <2>3
<1>6. ReadersShape' BY <1>1, <1>3, <1>5, ReaderFacts DEF ReadersShape, ReaderType, ReadingType
<1> QED BY <1>1, <1>6, ReaderFrame

\* What a reader finds: a time of this boot, not behind the true one, not behind what it read
\* before and not ahead of what later readers will find.
LEMMA FoundTime ==
    ASSUME ClockInv, NEW c \in Readers
    PROVE  /\ Clock!Trusted(Clock!At, reader[c]) <=> reader[c].boot = boot
           /\ reader[c].boot = boot =>
                 LET v == Clock!Extrapolated(Clock!At, reader[c])
                 IN  /\ v \in Nat /\ Clock!Floor(real) <= v
                     /\ reading[c].boot = boot => reading[c].ms <= v
                     /\ saved.boot = boot /\ v <= saved.ms + Clock!Ceil(Passed - saved.nano)
<1>1. /\ real \in Nat /\ born \in Nat /\ born <= real /\ boot \in Nat /\ 1 <= boot
      /\ reader[c].nano \in Nat /\ reader[c].ms \in Nat /\ saved.nano \in Nat /\ saved.ms \in Nat
      /\ reader[c] \in ReaderType
  BY ReaderFacts DEF ClockTimes, ReaderType, AnchorType
<1>2. Fits(c) BY ReaderFacts
<1>3. Clock!Trusted(Clock!At, reader[c]) <=> reader[c].boot = boot
  BY <1>1, <1>2 DEF Fits, Passed, Clock!Trusted, Clock!At, Clock!NoAnchor
<1> SUFFICES ASSUME reader[c].boot = boot
             PROVE  LET v == Clock!Extrapolated(Clock!At, reader[c])
                    IN  /\ v \in Nat /\ Clock!Floor(real) <= v
                        /\ reading[c].boot = boot => reading[c].ms <= v
                        /\ saved.boot = boot /\ v <= saved.ms + Clock!Ceil(Passed - saved.nano)
  BY <1>3
<1> DEFINE a == reader[c].nano
           v == reader[c].ms + Clock!Ceil(Passed - a)
<1>4. Clock!Extrapolated(Clock!At, reader[c]) = v BY DEF Clock!Extrapolated, Clock!At, Passed
<1>5. /\ a \in Nat /\ a <= Passed /\ saved.boot = boot /\ a <= saved.nano /\ saved.nano <= Passed /\ Passed \in Nat
      /\ reader[c].ms + Clock!Ceil(saved.nano - a) <= saved.ms
      /\ Clock!Floor(born + a) <= reader[c].ms
      /\ reading[c].boot = boot => reading[c].ms <= v
  BY <1>1, <1>2, ReaderFacts DEF Fits, Heads, Ahead, Covers, Dated, Passed
<1>6. v \in Nat BY <1>1, <1>5, CeilQuotient
<1>7. Clock!Floor(real) <= v
  <2> DEFINE x == born + a
             y == Passed - a
  <2>1. x \in Nat /\ y \in Nat /\ real = x + y BY <1>1, <1>5 DEF Passed
  <2> HIDE DEF x, y
  <2>2. Clock!Floor(x + y) <= Clock!Floor(x) + Clock!Ceil(y) BY <2>1, FloorCeil
  <2>3. Clock!Floor(x) \in Nat /\ Clock!Ceil(y) \in Nat /\ Clock!Floor(x + y) \in Nat BY <2>1, Quotient, CeilQuotient
  <2>4. Clock!Floor(x) <= reader[c].ms /\ v = reader[c].ms + Clock!Ceil(y) BY <1>5 DEF x, y
  <2> HIDE DEF v
  <2> QED BY <1>1, <1>6, <2>1, <2>2, <2>3, <2>4
<1>8. v <= saved.ms + Clock!Ceil(Passed - saved.nano)
  <2> DEFINE x == saved.nano - a
             y == Passed - saved.nano
  <2>1. x \in Nat /\ y \in Nat /\ Passed - a = x + y BY <1>1, <1>5
  <2>2. reader[c].ms + Clock!Ceil(x) <= saved.ms BY <1>5
  <2> HIDE DEF x
  <2>3. Clock!Ceil(x + y) <= Clock!Ceil(x) + Clock!Ceil(y) BY <2>1, FloorCeil
  <2>4. Clock!Ceil(x) \in Nat /\ Clock!Ceil(y) \in Nat /\ Clock!Ceil(x + y) \in Nat BY <2>1, CeilQuotient
  <2> QED BY <1>1, <2>1, <2>2, <2>3, <2>4
<1> QED BY <1>4, <1>5, <1>6, <1>7, <1>8

\* A reader goes by the anchor it took, which may have been replaced since.
LEMMA ReadKeeps == ASSUME ClockInv, NEW c \in Readers, Clock!Read(c) PROVE ClockInv'
<1> DEFINE v == Clock!Extrapolated(Clock!At, reader[c])
           r == IF reader[c].boot = boot THEN [ms |-> v, boot |-> boot, real |-> real] ELSE reading[c]
<1>1. /\ reader' = [reader EXCEPT ![c].boot = -1, ![c].nano = 0, ![c].ms = 0]
      /\ reading' = [reading EXCEPT ![c] = r]
      /\ UNCHANGED <<real, boot, born, disk, saved, request, nonce, asked, call, serving, available, mishaps, cancels>>
  BY FoundTime DEF Clock!Read, Clock!clockVars
<1>2. /\ real \in Nat /\ boot \in Nat /\ 1 <= boot /\ reading[c] \in ReadingType /\ Fits(c)
  BY ReaderFacts DEF ClockTimes
<1>3. /\ r \in ReadingType /\ r.boot <= boot /\ Clock!Floor(r.real) <= r.ms
      /\ r.boot = boot => saved.boot = boot /\ r.ms <= saved.ms + Clock!Ceil(Passed - saved.nano)
  <2>1. CASE reader[c].boot = boot
    <3>1. r = [ms |-> v, boot |-> boot, real |-> real] BY <2>1
    <3> QED BY <2>1, <3>1, <1>2, FoundTime DEF ReadingType
  <2>2. CASE reader[c].boot # boot
    <3>1. r = reading[c] BY <2>2
    <3> QED BY <3>1, <1>2 DEF Fits, Covers
  <2> QED BY <2>1, <2>2
<1> HIDE DEF r
<1>4. /\ reader' \in [Readers -> ReaderType] /\ reader'[c].boot = -1
      /\ \A d \in Readers : d # c => reader'[d] = reader[d]
  BY <1>1, ReaderFacts DEF ReaderType
<1>5. /\ reading' \in [Readers -> ReadingType]
      /\ \A d \in Readers : reading'[d] = IF d = c THEN r ELSE reading[d]
  BY <1>1, <1>3, ReaderFacts
<1>6. ASSUME NEW d \in Readers PROVE Fits(d)'
  <2>1. Fits(d) BY ReaderFacts
  <2>2. CASE d # c BY <2>1, <2>2, <1>1, <1>4, <1>5 DEF Fits, Ahead, Heads, Covers, Passed
  <2>3. CASE d = c
    <3>1. reading'[d] = r /\ reader'[d].boot = -1 BY <2>3, <1>4, <1>5
    <3> QED BY <3>1, <1>1, <1>2, <1>3 DEF Fits, Ahead, Heads, Covers, Passed
  <2> QED BY <2>2, <2>3
<1>7. ReadersShape' BY <1>1, <1>4, <1>5, <1>6 DEF ReadersShape, ReaderType, ReadingType
<1> QED BY <1>1, <1>7, ReaderFrame

\* The greatest of a few numbers
LEMMA GreatestIs ==
    ASSUME NEW a \in Nat, NEW b \in Nat, NEW c \in Nat, NEW k, k = {a, b, c}
    PROVE  \E s \in k : \A j \in k : j <= s
<1>1. CASE b <= a /\ c <= a BY <1>1
<1>2. CASE a <= b /\ c <= b BY <1>2
<1>3. CASE a <= c /\ b <= c BY <1>3
<1> QED BY <1>1, <1>2, <1>3

\* The time that an accepted answer brings
LEMMA StampFacts ==
    ASSUME ClockInv, NEW h \in Requests, serving[h].phase = "accept", Clock!Acceptable(h)
    PROVE  /\ Clock!Stamp(h) \in Nat /\ Clock!Floor(real) <= Clock!Stamp(h) /\ Clock!Stamp(h) <= 2 * real
           /\ saved.boot = boot => saved.ms + Clock!Ceil(Passed - saved.nano) <= Clock!Stamp(h)
           /\ serving[h].ms \in Nat /\ serving[h].ms <= Clock!Floor(real)
           /\ Clock!Floor(real) <= serving[h].ms + Clock!Ceil(MaxRoundTrip)
           /\ Clock!At = [boot |-> boot, nano |-> Passed] /\ Passed \in Nat
<1>1. /\ real \in Nat /\ born \in Nat /\ born <= real /\ boot \in Nat /\ Passed \in Nat /\ Passed <= real
      /\ saved \in AnchorType /\ Dated(saved) /\ saved.ms \in Nat /\ saved.nano \in Nat
  BY ReaderFacts DEF ClockTimes, AnchorType, Passed
<1>2. /\ nonce # 0 /\ serving[h].nonce = nonce /\ asked.boot = boot /\ asked.nano \in Nat /\ asked.nano <= Passed
      /\ Passed - asked.nano <= MaxRoundTrip
  BY <1>1 DEF ClockInv, AskedShape, Passed, Clock!Acceptable, Clock!At
<1>3. /\ serving[h].ms \in Nat /\ serving[h].ms <= Clock!Floor(real)
      /\ Clock!Floor(born + asked.nano) <= serving[h].ms
  BY <1>2 DEF ClockInv, ServingShape, Served, Answers, HandlerType
<1> DEFINE x == born + asked.nano
           y == Passed - asked.nano
           w == MaxRoundTrip - y
           fresh == serving[h].ms + Clock!Ceil(y)
           later == saved.ms + Clock!Ceil(Passed - saved.nano)
<1>4. /\ x \in Nat /\ y \in Nat /\ real = x + y /\ w \in Nat /\ MaxRoundTrip = y + w /\ y <= real
      /\ Clock!Floor(x) <= serving[h].ms
  BY <1>1, <1>2, <1>3, ClockConstants DEF Passed
<1>5. /\ Clock!Floor(x) \in Nat /\ Clock!Ceil(y) \in Nat /\ Clock!Floor(real) \in Nat /\ Clock!Ceil(MaxRoundTrip) \in Nat
      /\ Clock!Ceil(y) <= y /\ Clock!Floor(real) <= real
  BY <1>1, <1>4, ClockConstants, Quotient, CeilQuotient, Rounded
<1>6. Clock!Floor(real) <= Clock!Floor(x) + Clock!Ceil(y) /\ Clock!Ceil(y) <= Clock!Ceil(MaxRoundTrip)
  <2> HIDE DEF x, y, w
  <2> QED BY <1>4, FloorCeil
<1> HIDE DEF x, y, w
<1>7. fresh \in Nat /\ Clock!Floor(real) <= fresh /\ fresh <= 2 * real BY <1>1, <1>3, <1>4, <1>5, <1>6
<1>8. ASSUME saved.boot = boot PROVE later \in Nat /\ later <= 2 * real
  <2> DEFINE z == Passed - saved.nano
  <2>1. z \in Nat /\ saved.ms <= 2 * (born + saved.nano) /\ born + saved.nano + z = real
    BY <1>1, <1>8 DEF Dated, Passed
  <2>2. Clock!Ceil(z) \in Nat /\ Clock!Ceil(z) <= z BY <2>1, CeilQuotient, Rounded
  <2> HIDE DEF z
  <2>3. later = saved.ms + Clock!Ceil(z) BY DEF z
  <2> QED BY <1>1, <2>1, <2>2, <2>3
<1>9. saved.ms <= 2 * real BY <1>1 DEF Dated
<1>10. Clock!At = [boot |-> boot, nano |-> Passed] BY DEF Clock!At, Passed
<1>11. Clock!Stamp(h) \in Nat /\ fresh <= Clock!Stamp(h) /\ Clock!Stamp(h) <= 2 * real
       /\ (saved.boot = boot => later <= Clock!Stamp(h))
  <2> DEFINE k == {fresh, saved.ms} \cup
                  (IF Clock!Trusted(Clock!At, saved) THEN {Clock!Extrapolated(Clock!At, saved)} ELSE {})
  <2>1. Clock!Stamp(h) = CHOOSE s \in k : \A j \in k : j <= s BY <1>10 DEF Clock!Stamp, y
  <2>2. Clock!Trusted(Clock!At, saved) <=> saved.boot = boot BY <1>1, TrustIsBoot, ReaderFacts
  <2>3. Clock!Extrapolated(Clock!At, saved) = later BY <1>10 DEF Clock!Extrapolated
  <2> HIDE DEF fresh, later
  <2>4. CASE saved.boot = boot
    <3>1. k = {fresh, saved.ms, later} BY <2>2, <2>3, <2>4
    <3> HIDE DEF k
    <3>2. \E s \in k : \A j \in k : j <= s BY <3>1, <2>4, <1>1, <1>7, <1>8, GreatestIs
    <3>3. Clock!Stamp(h) \in k /\ \A j \in k : j <= Clock!Stamp(h) BY <3>2, <2>1
    <3> QED BY <3>1, <3>3, <2>4, <1>1, <1>7, <1>8, <1>9
  <2>5. CASE saved.boot # boot
    <3>1. k = {fresh, saved.ms, saved.ms} BY <2>2, <2>5
    <3> HIDE DEF k
    <3>2. \E s \in k : \A j \in k : j <= s BY <3>1, <1>1, <1>7, GreatestIs
    <3>3. Clock!Stamp(h) \in k /\ \A j \in k : j <= Clock!Stamp(h) BY <3>2, <2>1
    <3> QED BY <3>1, <3>3, <2>5, <1>1, <1>7, <1>9
  <2> QED BY <2>4, <2>5
<1> QED BY <1>1, <1>3, <1>4, <1>5, <1>6, <1>7, <1>10, <1>11

\* The anchor of an accepted answer is of now, and takes the place of the one before it.
LEMMA AnchorKeeps ==
    ASSUME ClockInv, NEW h \in Requests, serving[h].phase = "accept", Clock!Acceptable(h),
           saved' = Clock!Anchor(h), UNCHANGED <<real, boot, born>>
    PROVE  /\ saved' = [boot |-> boot, nano |-> Passed, ms |-> Clock!Stamp(h)]
           /\ saved' \in AnchorType /\ Dated(saved)' /\ Ahead(saved)'
           /\ \A c \in Readers : UNCHANGED reading => Covers(saved, reading[c])'
           /\ \A c \in Readers : UNCHANGED reader => Heads(reader[c])'
<1> DEFINE s == Clock!Stamp(h)
<1>1. /\ s \in Nat /\ Clock!Floor(real) <= s /\ s <= 2 * real /\ Passed \in Nat
      /\ saved.boot = boot => saved.ms + Clock!Ceil(Passed - saved.nano) <= s
      /\ saved' = [boot |-> boot, nano |-> Passed, ms |-> s]
  BY StampFacts DEF Clock!Anchor
<1> HIDE DEF s
<1>2. /\ real \in Nat /\ born \in Nat /\ born <= real /\ boot \in Nat
      /\ saved.ms \in Nat /\ saved.nano \in Nat /\ (saved.boot = boot => saved.nano <= Passed)
  BY ReaderFacts DEF ClockTimes, AnchorType, Dated
<1>3. saved' \in AnchorType BY <1>1, <1>2 DEF AnchorType
<1>4. born + Passed = real /\ Passed - Passed = 0 /\ Clock!Ceil(0) = 0 BY <1>1, <1>2, Rounded DEF Passed
<1>5. /\ saved'.boot = boot /\ saved'.nano = Passed /\ saved'.ms = s BY <1>1
<1>6. Dated(saved)' /\ Ahead(saved)' BY <1>1, <1>2, <1>4, <1>5 DEF Dated, Ahead, Passed
<1>7. ASSUME NEW c \in Readers, UNCHANGED reading PROVE Covers(saved, reading[c])'
  <2>1. Covers(saved, reading[c]) /\ reading[c].ms \in Nat BY ReaderFacts DEF Fits, ReadingType
  <2>2. saved.boot = boot => saved.ms + Clock!Ceil(Passed - saved.nano) \in Nat BY <1>1, <1>2, CeilQuotient
  <2>3. Clock!Ceil(Passed' - saved'.nano) = 0 BY <1>4, <1>5 DEF Passed
  <2> QED BY <1>1, <1>5, <1>7, <2>1, <2>2, <2>3 DEF Covers
<1>8. ASSUME NEW c \in Readers, UNCHANGED reader PROVE Heads(reader[c])'
  <2> SUFFICES ASSUME reader[c].boot = boot
               PROVE  reader[c].nano <= Passed /\ reader[c].ms + Clock!Ceil(Passed - reader[c].nano) <= s
    BY <1>5, <1>8 DEF Heads
  <2>1. /\ Clock!Extrapolated(Clock!At, reader[c]) = reader[c].ms + Clock!Ceil(Passed - reader[c].nano)
        /\ Clock!Extrapolated(Clock!At, reader[c]) \in Nat /\ saved.boot = boot
        /\ Clock!Extrapolated(Clock!At, reader[c]) <= saved.ms + Clock!Ceil(Passed - saved.nano)
    BY FoundTime DEF Clock!Extrapolated, Clock!At, Passed
  <2>2. saved.ms + Clock!Ceil(Passed - saved.nano) \in Nat BY <2>1, <1>1, <1>2, CeilQuotient
  <2>3. reader[c].nano <= Passed BY ReaderFacts DEF Fits
  <2> QED BY <1>1, <2>1, <2>2, <2>3
<1> QED BY <1>1, <1>3, <1>6, <1>7, <1>8 DEF s

\* The answer is taken: the time of this boot is known from now on, and what waited for it is
\* restored by this handler or by the one that brought time before.
LEMMA AcceptKeeps == ASSUME ClockInv, NEW h \in Requests, Clock!Accept(h) PROVE ClockInv'
<1> DEFINE e == IF serving[h].needs /\ ~available THEN Applies ELSE Clock!NoHandler
<1>0. serving \in [Requests -> HandlerType] /\ Served(h) /\ serving[h] \in HandlerType
  BY DEF ClockInv, ServingShape
<1>1. /\ serving[h].phase = "accept" /\ Clock!Acceptable(h) /\ saved' = Clock!Anchor(h) /\ disk' = saved'
      /\ request' = Clock!RequestAnchor(h) /\ nonce' = 0 /\ serving' = [serving EXCEPT ![h] = e]
      /\ UNCHANGED <<real, boot, born, asked, call, available, reader, reading, mishaps, cancels>>
  BY <1>0 DEF Clock!Accept, Clock!readVars, Applies
<1>2. /\ saved' = [boot |-> boot, nano |-> Passed, ms |-> Clock!Stamp(h)]
      /\ saved' \in AnchorType /\ Dated(saved)' /\ Ahead(saved)'
      /\ \A c \in Readers : Covers(saved, reading[c])' /\ Heads(reader[c])'
  BY <1>1, AnchorKeeps
<1>3. /\ saved'.boot = boot /\ saved'.nano = Passed BY <1>2
<1>4. /\ request' = [boot |-> boot, nano |-> Passed, ms |-> serving[h].ms]
      /\ serving[h].ms \in Nat /\ serving[h].ms <= Clock!Floor(real)
      /\ Clock!Floor(real) <= serving[h].ms + Clock!Ceil(MaxRoundTrip) /\ Passed \in Nat
  BY <1>1, StampFacts DEF Clock!RequestAnchor
<1>5. /\ real \in Nat /\ born \in Nat /\ born <= real /\ boot \in Nat /\ born + Passed = real
      /\ Clock!Floor(real) \in Nat /\ Clock!Floor(real) <= real
  BY Quotient, Rounded DEF ClockInv, ClockTimes, Passed
<1>6. /\ request' \in AnchorType /\ request'.boot = boot /\ request'.nano = Passed /\ request'.ms = serving[h].ms
  BY <1>4, <1>5 DEF AnchorType
<1>7. Dated(request)' /\ Tight' BY <1>1, <1>4, <1>5, <1>6 DEF Dated, Tight, Passed
<1>8. ClockTimes' BY <1>1 DEF ClockInv, ClockTimes
<1>9. ClockAnchors' BY <1>1, <1>2, <1>6, <1>7 DEF ClockAnchors, AnchorType
<1>10. e \in {Clock!NoHandler, Applies} OBVIOUS
<1>11. /\ ServingShape' /\ AskedShape' /\ \A g \in Requests : serving'[g] = IF g = h THEN e ELSE serving[g]
  <2> HIDE DEF e
  <2> QED BY <1>1, <1>3, <1>10, EndKeeps
<1>12. CallShape' BY <1>1 DEF ClockInv, CallShape, Answers, Clock!Nonces
<1>13. ReadersShape'
  <2>1. ASSUME NEW c \in Readers PROVE Fits(c)'
    <3>1. Fits(c) /\ Covers(saved, reading[c])' /\ Heads(reader[c])' BY <1>2, ReaderFacts
    <3> QED BY <3>1, <1>1 DEF Fits, Ahead, Covers, Passed
  <2> QED BY <2>1, <1>1, ReaderFacts DEF ReadersShape, ReaderType, ReadingType
<1>14. Restores'
  <2>1. CASE available BY <2>1, <1>1 DEF ClockInv, Restores
  <2>2. CASE ~available /\ serving[h].needs
    <3>1. e.phase = "apply" BY <2>2, EndedServed
    <3> QED BY <3>1, <1>1, <1>11 DEF ClockInv, Restores
  <2>3. CASE ~available /\ ~serving[h].needs
    <3>1. saved.boot = boot BY <2>3, <1>0, <1>1 DEF Served
    <3>2. cancels = 0 => \E g \in Requests : serving[g].phase = "apply" BY <3>1, <2>3 DEF ClockInv, Restores
    <3>3. \A g \in Requests : serving[g].phase = "apply" => serving'[g] = serving[g] BY <1>1, <1>11
    <3> QED BY <3>2, <3>3, <1>1 DEF ClockInv, Restores
  <2> QED BY <2>1, <2>2, <2>3
<1> QED BY <1>2, <1>7, <1>8, <1>9, <1>11, <1>12, <1>13, <1>14 DEF ClockInv

\* The worker starts anew with an anchor that its journal has.
LEMMA StartKeeps ==
    ASSUME NEW a, NEW t, ClockInv, ClockTimes', Clock!Started(a, t), a \in AnchorType, disk' = a,
           t = [boot |-> boot', nano |-> real' - born'], Dated(saved)', Ahead(saved)',
           \A c \in Readers : reading[c].boot <= boot' /\ Covers(saved, reading[c])'
    PROVE  ClockInv'
<1>1. /\ saved' = a /\ request' = Clock!NoAnchor /\ nonce' = 0 /\ asked' = t
      /\ serving' = [h \in Requests |-> Clock!NoHandler] /\ available' = Clock!Trusted(t, a)
      /\ reader' = [c \in Readers |-> [Clock!NoAnchor EXCEPT !.boot = -1]]
      /\ call' = Clock!NoCall /\ UNCHANGED <<real, reading, cancels>>
  BY DEF Clock!Started
<1>2. /\ real' \in Nat /\ born' \in Nat /\ born' <= real' /\ boot' \in Nat /\ 1 <= boot' /\ Clock!Floor(real') \in Nat
      /\ Milli <= real'
  BY Quotient DEF ClockTimes
<1>3. Clock!NoAnchor \in AnchorType /\ Clock!NoAnchor.boot = 0 /\ Clock!NoAnchor.nano = 0 /\ Clock!NoAnchor.ms = 0
  BY DEF Clock!NoAnchor, AnchorType
<1>4. ClockAnchors'
  <2>1. Dated(request)' BY <1>1, <1>2, <1>3 DEF Dated, Passed
  <2> QED BY <1>1, <1>3, <2>1 DEF ClockAnchors, AnchorType
<1>5. Tight' BY <1>1, <1>2, <1>3 DEF Tight
<1>6. AskedShape' BY <1>1, <1>2 DEF AskedShape, Passed, Clock!Nonces
<1>7. CallShape' BY <1>1, <1>2 DEF CallShape, Clock!NoCall, Clock!Nonces
<1>8. ServingShape'
  <2>1. Clock!NoHandler \in HandlerType /\ Clock!NoHandler.ms = 0 /\ Clock!NoHandler.phase = "idle" BY EndedServed
  <2>2. ASSUME NEW h \in Requests PROVE Served(h)' BY <1>1, <1>2, <2>1 DEF Served
  <2> QED BY <1>1, <2>1, <2>2 DEF ServingShape, HandlerType, Clock!Nonces
<1>9. ReadersShape'
  <2> DEFINE idle == [Clock!NoAnchor EXCEPT !.boot = -1]
  <2>1. idle \in ReaderType /\ idle.boot = -1 BY <1>3 DEF AnchorType, ReaderType
  <2> HIDE DEF idle
  <2>2. reader' = [c \in Readers |-> idle] BY <1>1 DEF idle
  <2>3. ASSUME NEW c \in Readers PROVE Fits(c)'
    <3>1. Fits(c) BY ReaderFacts
    <3>2. reader'[c].boot = -1 /\ reader'[c] = idle BY <2>1, <2>2
    <3> QED BY <3>1, <3>2, <1>1, <1>2 DEF Fits, Ahead, Heads
  <2>4. reader' \in [Readers -> ReaderType] /\ reading' \in [Readers -> ReadingType]
    BY <2>1, <2>2, <1>1, ReaderFacts
  <2> QED BY <2>3, <2>4 DEF ReadersShape, ReaderType, ReadingType
<1>10. Restores'
  <2>1. a.boot = boot' => Clock!Trusted(t, a)
    <3>1. a.boot = boot' => a.nano <= real' - born' /\ a # Clock!NoAnchor BY <1>1, <1>2, <1>3 DEF Dated, Passed
    <3> QED BY <3>1, <1>2 DEF AnchorType, Clock!Trusted
  <2>2. Clock!Trusted(t, a) \in BOOLEAN BY DEF Clock!Trusted
  <2> QED BY <2>1, <2>2, <1>1 DEF Restores
<1> QED BY <1>4, <1>5, <1>6, <1>7, <1>8, <1>9, <1>10 DEF ClockInv

\* The worker is killed, in Accept too.
LEMMA RestartKeeps == ASSUME ClockInv, Clock!Restart PROVE ClockInv'
<1>1. /\ mishaps < ClockFaults /\ mishaps' = mishaps + 1 /\ UNCHANGED <<boot, born>>
      /\ \/ Clock!Started(disk, Clock!At) /\ disk' = disk
         \/ \E h \in Requests : /\ serving[h].phase = "accept" /\ Clock!Acceptable(h)
                                /\ disk' = Clock!Anchor(h) /\ Clock!Started(Clock!Anchor(h), Clock!At)
  BY DEF Clock!Restart
<1>2. UNCHANGED <<real, reading, cancels>> BY <1>1 DEF Clock!Started
<1>3. ClockTimes' BY <1>1, <1>2, ClockConstants DEF ClockInv, ClockTimes
<1>4. Clock!At = [boot |-> boot', nano |-> real' - born'] BY <1>1, <1>2 DEF Clock!At
<1>5. \A c \in Readers : reading[c].boot <= boot' BY <1>1, ReaderFacts DEF Fits
<1>6. CASE Clock!Started(disk, Clock!At) /\ disk' = disk
  <2>1. disk = saved /\ saved' = saved /\ disk \in AnchorType BY <1>6 DEF ClockInv, ClockAnchors, Clock!Started
  <2>2. Dated(saved)' /\ Ahead(saved)' BY <2>1, <1>1, <1>2, ReaderFacts DEF Dated, Ahead, Passed
  <2>3. \A c \in Readers : Covers(saved, reading[c])'
    BY <2>1, <1>1, <1>2, ReaderFacts DEF Fits, Covers, Passed
  <2> QED BY <1>3, <1>4, <1>5, <1>6, <2>1, <2>2, <2>3, StartKeeps
<1>7. ASSUME NEW h \in Requests, serving[h].phase = "accept", Clock!Acceptable(h),
             disk' = Clock!Anchor(h), Clock!Started(Clock!Anchor(h), Clock!At)
      PROVE  ClockInv'
  <2>1. saved' = Clock!Anchor(h) BY <1>7 DEF Clock!Started
  <2>2. saved' \in AnchorType /\ Dated(saved)' /\ Ahead(saved)' /\ \A c \in Readers : Covers(saved, reading[c])'
    BY <1>1, <1>2, <1>7, <2>1, AnchorKeeps
  <2>3. Clock!Anchor(h) \in AnchorType BY <2>1, <2>2 DEF AnchorType
  <2> QED BY <1>3, <1>4, <1>5, <1>7, <2>2, <2>3, StartKeeps
<1> QED BY <1>1, <1>6, <1>7

\* After a reboot nothing is of this boot yet.
LEMMA RebootKeeps == ASSUME ClockInv, Clock!Reboot PROVE ClockInv'
<1> DEFINE t == [boot |-> boot + 1, nano |-> 0]
<1>1. /\ mishaps < ClockFaults /\ mishaps' = mishaps + 1 /\ boot' = boot + 1 /\ born' = real /\ disk' = disk
      /\ Clock!Started(disk, t)
  BY DEF Clock!Reboot
<1>2. UNCHANGED <<real, reading, cancels>> /\ saved' = disk BY <1>1 DEF Clock!Started
<1>3. ClockTimes' BY <1>1, <1>2, ClockConstants DEF ClockInv, ClockTimes
<1>4. t = [boot |-> boot', nano |-> real' - born'] BY <1>1, <1>2 DEF ClockInv, ClockTimes
<1>5. disk = saved /\ disk \in AnchorType /\ saved.boot <= boot /\ boot \in Nat /\ saved.boot \in Nat
  BY DEF ClockInv, ClockAnchors, ClockTimes, Dated, AnchorType
<1>6. Dated(saved)' /\ Ahead(saved)' BY <1>1, <1>2, <1>5, ReaderFacts DEF Dated, Ahead, Passed
<1>7. \A c \in Readers : reading[c].boot <= boot' /\ Covers(saved, reading[c])'
  <2>1. \A c \in Readers : reading[c].boot \in Nat /\ reading[c].boot <= boot BY ReaderFacts DEF Fits, ReadingType
  <2> QED BY <2>1, <1>1, <1>2, <1>5 DEF Covers
<1> HIDE DEF t
<1> QED BY <1>1, <1>3, <1>4, <1>5, <1>6, <1>7, StartKeeps

\* The host has booted and has no time yet.
LEMMA ClockBegins == Clock!Init => ClockInv
<1> SUFFICES ASSUME Clock!Init PROVE ClockInv OBVIOUS
<1>1. /\ real = Milli /\ boot = 1 /\ born = 0 /\ disk = Clock!NoAnchor /\ saved = Clock!NoAnchor
      /\ request = Clock!NoAnchor /\ nonce = 0 /\ asked = [boot |-> 1, nano |-> 0] /\ call = Clock!NoCall
      /\ serving = [h \in Requests |-> Clock!NoHandler] /\ available = FALSE
      /\ reader = [c \in Readers |-> [Clock!NoAnchor EXCEPT !.boot = -1]]
      /\ reading = [c \in Readers |-> Clock!Unread] /\ mishaps = 0 /\ cancels = 0
  BY DEF Clock!Init
<1>2. ClockTimes BY <1>1, ClockConstants DEF ClockTimes
<1>3. Clock!NoAnchor \in AnchorType /\ Clock!NoAnchor.boot = 0 /\ Clock!NoAnchor.nano = 0 /\ Clock!NoAnchor.ms = 0
  BY DEF Clock!NoAnchor, AnchorType
<1>4. Clock!Floor(real) \in Nat BY <1>2, Quotient DEF ClockTimes
<1>5. ClockAnchors /\ Ahead(saved) /\ Tight
  BY <1>1, <1>3, ClockConstants DEF ClockAnchors, Dated, Ahead, Tight, Passed
<1>6. AskedShape BY <1>1, ClockConstants DEF AskedShape, Passed
<1>7. CallShape BY <1>1, <1>4 DEF CallShape, Clock!NoCall
<1>8. ServingShape
  <2>1. Clock!NoHandler \in HandlerType /\ Clock!NoHandler.ms = 0 /\ Clock!NoHandler.phase = "idle"
    BY DEF Clock!NoHandler, HandlerType
  <2> QED BY <1>1, <1>4, <2>1 DEF ServingShape, Served
<1>9. ReadersShape
  <2> DEFINE idle == [Clock!NoAnchor EXCEPT !.boot = -1]
  <2>1. idle \in ReaderType /\ idle.boot = -1 BY <1>3 DEF AnchorType, ReaderType
  <2> HIDE DEF idle
  <2>2. reader = [c \in Readers |-> idle] BY <1>1 DEF idle
  <2>3. Clock!Unread \in ReadingType /\ Clock!Unread.boot = 0 /\ Clock!Unread.real = 0 /\ Clock!Unread.ms = 0
    BY DEF Clock!Unread, ReadingType
  <2>4. Clock!Floor(0) <= 0 BY Rounded
  <2>5. ASSUME NEW c \in Readers PROVE Fits(c)
    <3>1. reader[c].boot = -1 /\ reading[c] = Clock!Unread BY <2>1, <2>2, <1>1
    <3> QED BY <3>1, <2>3, <2>4, <1>1 DEF Fits, Ahead, Heads, Covers
  <2> QED BY <2>1, <2>2, <2>3, <2>5, <1>1 DEF ReadersShape
<1>10. Restores
  <2>1. saved.boot # boot BY <1>1, <1>3
  <2>2. available \in BOOLEAN BY <1>1
  <2> QED BY <2>1, <2>2 DEF Restores
<1> QED BY <1>2, <1>5, <1>6, <1>7, <1>8, <1>9, <1>10 DEF ClockInv

\* No step of the clock breaks the invariant.
LEMMA ClockNext == ASSUME ClockInv, [Clock!Next]_clockVars PROVE ClockInv'
<1>1. CASE UNCHANGED clockVars
  <2>1. CallShape' BY <1>1 DEF clockVars, ClockInv, CallShape, Answers, Clock!Nonces
  <2> QED BY <1>1, <2>1, CallFrame DEF clockVars
<1>2. CASE Clock!Next
  BY <1>2, TickKeeps, BeginKeeps, SynchronizeKeeps, AbandonKeeps, RestartKeeps, RebootKeeps, PostKeeps, AcceptKeeps,
     RefuseKeeps, WriteFailsKeeps, ApplyKeeps, LoadKeeps, ReadKeeps DEF Clock!Next
<1> QED BY <1>1, <1>2

\* A reading of the boot of the last one is not behind it.
LEMMA ReadingsGrow == ASSUME ClockInv, [Clock!Next]_clockVars PROVE Clock!Monotone
<1> SUFFICES ASSUME NEW c \in Readers, reading'[c].boot = reading[c].boot PROVE reading'[c].ms >= reading[c].ms
  BY DEF Clock!Monotone
<1>1. reading \in [Readers -> ReadingType] /\ reading[c].ms \in Nat BY ReaderFacts DEF ReadingType
<1>2. CASE UNCHANGED reading BY <1>1, <1>2
<1>3. ASSUME NEW d \in Readers, Clock!Read(d) PROVE reading'[c].ms >= reading[c].ms
  <2> DEFINE v == Clock!Extrapolated(Clock!At, reader[d])
  <2>1. reading' = [reading EXCEPT ![d] =
                      IF reader[d].boot = boot THEN [ms |-> v, boot |-> boot, real |-> real] ELSE reading[d]]
    BY <1>3, FoundTime DEF Clock!Read
  <2>2. CASE c = d /\ reader[d].boot = boot
    <3>1. reading'[c] = [ms |-> v, boot |-> boot, real |-> real] BY <1>1, <2>1, <2>2
    <3>2. reading[c].boot = boot /\ reading'[c].ms = v BY <3>1
    <3> QED BY <1>1, <2>2, <3>2, FoundTime
  <2>3. CASE ~(c = d /\ reader[d].boot = boot)
    <3>1. reading'[c] = reading[c] BY <1>1, <2>1, <2>3
    <3> QED BY <1>1, <3>1
  <2> QED BY <2>2, <2>3
<1>4. CASE UNCHANGED clockVars BY <1>4, <1>2 DEF clockVars
<1>5. CASE Clock!Next
  BY <1>5, <1>2, <1>3 DEF Clock!Next, Clock!Tick, Clock!Begin, Clock!Synchronize, Clock!Abandon, Clock!Restart, Clock!Reboot,
     Clock!Started, Clock!Post, Clock!Accept, Clock!Refuse, Clock!WriteFails, Clock!Apply, Clock!Load, Clock!readVars
<1> QED BY <1>4, <1>5

\* What the invariant says of the clock
LEMMA ClockIsTrusted ==
    ASSUME ClockInv
    PROVE  Clock!TypeOK /\ Clock!NeverLate /\ Clock!RequestTimeTight /\ Clock!RestoredWithTime
<1>1. /\ ClockTimes /\ saved \in AnchorType /\ request \in AnchorType /\ disk = saved
      /\ Dated(saved) /\ Dated(request) /\ request.boot \in {0, boot} /\ Tight
  BY DEF ClockInv, ClockAnchors
<1>2. Clock!Floor(real) \in Nat /\ Clock!Floor(real) <= real BY <1>1, Quotient, Rounded DEF ClockTimes
<1>3. Clock!TypeOK
  <2>1. real \in Milli..MaxReal /\ born \in 0..real /\ boot \in 1..ClockFaults + 1
    BY <1>1, ClockConstants DEF ClockTimes
  <2>2. {disk, saved, request} \subseteq Clock!Anchors
    <3>1. ASSUME NEW a \in AnchorType, Dated(a) PROVE a \in Clock!Anchors
      BY <3>1, <1>1, ClockConstants DEF ClockTimes, AnchorType, Dated, Clock!Anchors
    <3> QED BY <3>1, <1>1
  <2>3. call \in [phase: {"idle", "asked", "answered"}, nonce: {0} \cup Clock!Nonces, ms: 0..MaxReal]
    BY <1>1, <1>2, ClockConstants DEF ClockInv, ClockTimes, CallShape
  <2>4. nonce \in {0} \cup Clock!Nonces /\ available \in BOOLEAN BY DEF ClockInv, AskedShape, Restores
  <2>5. \A h \in Requests : serving[h].phase \in {"idle", "accept", "apply"}
    BY DEF ClockInv, ServingShape, HandlerType
  <2> QED BY <1>1, <2>1, <2>2, <2>3, <2>4, <2>5 DEF Clock!TypeOK
<1>4. Clock!NeverLate
  <2>1. \A c \in Readers : Clock!Floor(reading[c].real) <= reading[c].ms BY ReaderFacts DEF Fits
  <2>2. \A c \in Readers : reading[c].real \in Nat /\ reading[c].ms \in Nat BY ReaderFacts DEF ReadingType
  <2>3. \A c \in Readers : Clock!Floor(reading[c].real) \in Nat BY <2>2, Quotient
  <2> QED BY <2>1, <2>2, <2>3 DEF Clock!NeverLate
<1>5. Clock!RequestTimeTight
  <2> SUFFICES ASSUME Clock!Trusted(Clock!At, request)
               PROVE  Clock!RequestTime \in Clock!MasterMilli - Clock!Ceil(MaxRoundTrip) - 1..Clock!MasterMilli
    BY DEF Clock!RequestTimeTight
  <2> DEFINE x == born + request.nano
             y == Passed - request.nano
             w == Clock!Ceil(MaxRoundTrip)
             m == request.ms
  <2>1. request.boot = boot BY <1>1, TrustIsBoot
  <2>2. x \in Nat /\ y \in Nat /\ real = x + y /\ m \in Nat /\ w \in Nat
    BY <2>1, <1>1, ClockConstants, CeilQuotient DEF ClockTimes, AnchorType, Dated, Passed
  <2>3. m <= Clock!Floor(x) /\ Clock!Floor(x) <= m + w BY <2>1, <1>1 DEF Tight
  <2>4. Clock!RequestTime = m + Clock!Floor(y) BY DEF Clock!RequestTime, Clock!At, Passed
  <2> HIDE DEF x, y, w, m
  <2>5. /\ Clock!Floor(x) + Clock!Floor(y) <= Clock!Floor(x + y)
        /\ Clock!Floor(x + y) <= Clock!Floor(x) + Clock!Floor(y) + 1
    BY <2>2, FloorSum
  <2>6. Clock!Floor(x) \in Nat /\ Clock!Floor(y) \in Nat /\ Clock!Floor(x + y) \in Nat BY <2>2, Quotient
  <2>7. Clock!MasterMilli = Clock!Floor(x + y) BY <2>2 DEF Clock!MasterMilli
  <2>8. Clock!RequestTime \in Clock!MasterMilli - w - 1..Clock!MasterMilli
    BY <2>2, <2>3, <2>4, <2>5, <2>6, <2>7
  <2> QED BY <2>8 DEF w
<1>6. Clock!RestoredWithTime
  <2> SUFFICES ASSUME cancels = 0, Clock!Trusted(Clock!At, saved), \A h \in Requests : serving[h] = Clock!NoHandler
               PROVE  available
    BY DEF Clock!RestoredWithTime
  <2>1. saved.boot = boot BY <1>1, TrustIsBoot
  <2>2. \A h \in Requests : serving[h].phase # "apply" BY DEF Clock!NoHandler
  <2> QED BY <2>1, <2>2 DEF ClockInv, Restores
<1> QED BY <1>3, <1>4, <1>5, <1>6

\* Trusted time, for every tick, round trip, number of readers, of requests served at once, of
\* failed writes, kills and reboots: what Clock.Now returns is never behind the true time and never
\* goes back while the host is up, the lower bound of Clock.RequestTime is one and is tight
\* (trustedtime/clock.go), and the handler of POST /v1/time that brings time restores what waited
\* for it (worker/time.go).
THEOREM TimeStaysTrusted == Spec => TimeTrusted
<1>1. Init => ClockInv BY ClockBegins DEF Init
<1>2. ClockInv /\ [Next]_vars => ClockInv'
  BY ClockNext DEF Next, HubStep, BusStep, WriterStep, RadiusStep, ClockStep, ConfigStep, BanStep, vars
<1>3. ClockInv /\ [Next]_vars => [Clock!Monotone]_vars
  BY ReadingsGrow DEF Next, HubStep, BusStep, WriterStep, RadiusStep, ClockStep, ConfigStep, BanStep, vars
<1>4. ClockInv => Clock!TypeOK /\ Clock!NeverLate /\ Clock!RequestTimeTight /\ Clock!RestoredWithTime
  BY ClockIsTrusted
<1> QED BY <1>1, <1>2, <1>3, <1>4, PTL DEF Spec, TimeTrusted

-----------------------------------------------------------------------------
(* The configuration of a managed node                                     *)

\* The entries of an inbound
Entries == [NodeClients -> Nat]

\* g has whatever edits f has, or newer ones.
Within(f, g) == \A c \in NodeClients : f[c] <= g[c]

\* What is kept of an editor, and of the job
EditRecord == [pc: {"idle", "read", "push", "landed"}, client: NodeClients \cup {NoConfig},
               base: Entries \cup {NoConfig}, ours: Entries \cup {NoConfig}]
JobRecord == [pc: {"idle", "read", "list", "push", "landed", "clear", "fetch", "merge", "adopt"}, at: Nat,
              payload: Entries \cup {NoConfig}, snap: Entries \cup {NoConfig}]

\* The types
ConfigShape ==
    /\ cfg \in Entries /\ ncfg \in Entries /\ fp \in Entries \cup {NoConfig} /\ dirty \in BOOLEAN
    /\ edited \in Nat /\ edited <= ConfigEdits /\ stamp \in Nat /\ stamp <= edited
    /\ editor \in [{"client", "inbound"} -> EditRecord] /\ job \in JobRecord

\* No entry is of an edit to come.
Numbered == \A c \in NodeClients : cfg[c] <= edited /\ ncfg[c] <= edited

\* The fingerprint is of something that both rows have.
Printed == fp # NoConfig => Within(fp, cfg) /\ Within(fp, ncfg)

\* What an editor has read was in the row.
Reads(e) ==
    editor[e].pc # "idle" =>
        /\ editor[e].client \in NodeClients /\ editor[e].base \in Entries /\ Within(editor[e].base, cfg)
        /\ e = "inbound" => editor[e].pc = "read"

\* While an edit is sending its client, the node is dirty, and the fingerprint is left alone.
Sent ==
    LET w == editor["client"]
    IN  Config!Sending =>
          /\ w.ours \in Entries /\ Within(w.ours, cfg) /\ dirty /\ ~Config!Pushing /\ job.pc # "adopt"
          /\ \A c \in NodeClients : c # w.client => w.ours[c] = w.base[c]
          /\ fp # NoConfig => fp[w.client] <= w.ours[w.client]
          /\ w.pc = "landed" => w.ours[w.client] <= ncfg[w.client]

\* A run of the job that nothing has overtaken pushes the row as it is.
Pushed ==
    /\ job.at <= stamp
    /\ job.pc \in {"read", "list", "push", "landed", "clear"} => dirty
    /\ job.pc \in {"list", "push", "landed", "clear"} =>
          /\ job.payload \in Entries /\ Within(job.payload, cfg)
          /\ job.at = stamp => job.payload = cfg /\ ~Config!Sending
    /\ Config!Pushing /\ fp # NoConfig => Within(fp, job.payload)
    /\ job.pc = "landed" \/ (job.pc = "clear" /\ job.at = stamp) => Within(job.payload, ncfg)

\* A snapshot of a node that is clean is no older than the row, and the node still has it.
Snapped ==
    /\ job.pc \in {"merge", "adopt"} =>
          /\ job.snap \in Entries /\ \A c \in NodeClients : job.snap[c] <= edited
          /\ ~dirty => Within(cfg, job.snap) /\ Within(job.snap, ncfg)
    /\ job.pc = "adopt" => ~dirty /\ job.snap = cfg

\* What the mark is for
Clean == ~dirty => Within(cfg, ncfg)

\* The inductive invariant
ConfigInv ==
    /\ ConfigShape /\ Numbered /\ Printed /\ (\A e \in {"client", "inbound"} : Reads(e)) /\ Sent /\ Pushed /\ Snapped
    /\ Clean

\* What is known of the records
LEMMA ConfigTypes ==
    ASSUME ConfigInv
    PROVE  /\ cfg \in Entries /\ ncfg \in Entries /\ job \in JobRecord /\ editor["client"] \in EditRecord
           /\ editor["inbound"] \in EditRecord /\ editor \in [{"client", "inbound"} -> EditRecord]
           /\ NoConfig \notin Entries /\ ConfigEdits \in Nat
           /\ edited \in Nat /\ stamp \in Nat /\ dirty \in BOOLEAN /\ job.at \in Nat
BY ConfigParameters DEF ConfigInv, ConfigShape, Config!NodeConfigAssumption, Entries, JobRecord

\* A step of the job: the editors do not move, and no edit is made.
LEMMA JobFrame ==
    ASSUME ConfigInv, job' \in JobRecord, cfg' \in Entries, ncfg' \in Entries, fp' \in Entries \cup {NoConfig},
           dirty' \in BOOLEAN, UNCHANGED <<stamp, editor, edited>>, Within(cfg, cfg'),
           Numbered', Printed', Sent', Pushed', Snapped', Clean'
    PROVE  ConfigInv'
<1>1. ConfigShape' BY DEF ConfigInv, ConfigShape, JobRecord, EditRecord, Entries
<1>2. ASSUME NEW e \in {"client", "inbound"} PROVE Reads(e)'
  <2>1. Reads(e) /\ editor'[e] = editor[e] BY DEF ConfigInv
  <2>2. editor[e].base \in Entries /\ Within(editor[e].base, cfg) => Within(editor[e].base, cfg')
    BY ConfigTypes DEF Within, Entries
  <2> QED BY <2>1, <2>2 DEF Reads, Within, Entries
<1> QED BY <1>1, <1>2 DEF ConfigInv

\* A run of the job begins.
LEMMA JobLoadsKeeps == ASSUME ConfigInv, Config!JobLoads PROVE ConfigInv'
<1>1. /\ job.pc = "idle" /\ job' = [Config!NoJob EXCEPT !.pc = IF dirty THEN "read" ELSE "fetch", !.at = stamp]
      /\ UNCHANGED <<cfg, ncfg, fp, dirty, stamp, editor, edited, broken>>
  BY DEF Config!JobLoads, Config!rowVars
<1>2. Config!NoJob \in JobRecord BY DEF Config!NoJob, JobRecord
<1>3. /\ job' \in JobRecord /\ job'.pc = (IF dirty THEN "read" ELSE "fetch") /\ job'.at = stamp
  BY <1>1, <1>2, ConfigTypes DEF JobRecord
<1>4. Numbered' /\ Printed' /\ Clean' BY <1>1 DEF ConfigInv, Numbered, Printed, Clean, Within
<1>5. Sent'
  BY <1>1, <1>3 DEF ConfigInv, Sent, Config!Sending, Config!Pushing, Within, Entries
<1>6. Pushed' /\ Snapped'
  BY <1>1, <1>3, ConfigTypes DEF Pushed, Snapped, Config!Pushing
<1>7. Within(cfg, cfg') BY <1>1, ConfigTypes DEF Within, Entries
<1> QED BY <1>1, <1>3, <1>4, <1>5, <1>6, <1>7, JobFrame, ConfigTypes DEF ConfigInv, ConfigShape

\* The row is read while no edit is sending its client.
LEMMA JobReadsKeeps == ASSUME ~Overlap, ConfigInv, Config!JobReads PROVE ConfigInv'
<1>1. /\ job.pc = "read" /\ ~Config!Sending /\ job' = [job EXCEPT !.pc = "list", !.payload = cfg]
      /\ UNCHANGED <<cfg, ncfg, fp, dirty, stamp, editor, edited, broken>>
  BY DEF Config!JobReads, Config!rowVars
<1>2. /\ job' \in JobRecord /\ job'.pc = "list" /\ job'.payload = cfg /\ job'.at = job.at
  BY <1>1, ConfigTypes DEF JobRecord
<1>3. Within(cfg, cfg') /\ Within(cfg, cfg) BY <1>1, ConfigTypes DEF Within, Entries
<1>4. Numbered' /\ Printed' /\ Clean' BY <1>1 DEF ConfigInv, Numbered, Printed, Clean, Within
<1>5. Sent' BY <1>1 DEF Sent, Config!Sending
<1>6. Pushed' /\ Snapped'
  BY <1>1, <1>2, <1>3, ConfigTypes DEF ConfigInv, Pushed, Printed, Snapped, Within, Config!Pushing, Config!Sending
<1> QED BY <1>1, <1>2, <1>3, <1>4, <1>5, <1>6, JobFrame, ConfigTypes DEF ConfigInv, ConfigShape

\* The push is skipped only if the node is known to have the payload.
LEMMA JobListsKeeps == ASSUME ConfigInv, Config!JobLists PROVE ConfigInv'
<1>1. /\ job.pc = "list" /\ job' = [job EXCEPT !.pc = IF fp = job.payload THEN "clear" ELSE "push"]
      /\ UNCHANGED <<cfg, ncfg, fp, dirty, stamp, editor, edited, broken>>
  BY DEF Config!JobLists, Config!rowVars
<1>2. /\ job' \in JobRecord /\ job'.payload = job.payload /\ job'.at = job.at
      /\ job'.pc = (IF fp = job.payload THEN "clear" ELSE "push")
  BY <1>1, ConfigTypes DEF JobRecord
<1>3. Within(cfg, cfg') BY <1>1, ConfigTypes DEF Within, Entries
<1>4. Numbered' /\ Printed' /\ Clean' BY <1>1 DEF ConfigInv, Numbered, Printed, Clean, Within
<1>5. ~Config!Sending BY <1>1 DEF ConfigInv, Sent, Config!Pushing
<1>6. Sent' BY <1>1, <1>5 DEF Sent, Config!Sending
<1>7. Pushed' /\ Snapped'
  BY <1>1, <1>2, <1>5, ConfigTypes DEF ConfigInv, Pushed, Printed, Snapped, Within, Config!Pushing, Config!Sending
<1> QED BY <1>1, <1>2, <1>3, <1>4, <1>6, <1>7, JobFrame, ConfigTypes DEF ConfigInv, ConfigShape

\* The payload has whatever the fingerprint is of: no edit was sent since it was read.
LEMMA JobLandsKeeps == ASSUME ConfigInv, Config!JobLands PROVE ConfigInv'
<1>1. /\ job.pc = "push" /\ ncfg' = job.payload /\ job' = [job EXCEPT !.pc = "landed"]
      /\ UNCHANGED <<cfg, fp, dirty, stamp, editor, edited, broken>>
  BY DEF Config!JobLands, Config!rowVars
<1>2. /\ job' \in JobRecord /\ job'.payload = job.payload /\ job'.at = job.at /\ job'.pc = "landed"
  BY <1>1, ConfigTypes DEF JobRecord
<1>3. Within(cfg, cfg') BY <1>1, ConfigTypes DEF Within, Entries
<1>4. /\ job.payload \in Entries /\ Within(job.payload, cfg) /\ dirty /\ (fp # NoConfig => Within(fp, job.payload))
      /\ job.at <= stamp /\ (job.at = stamp => job.payload = cfg /\ ~Config!Sending)
  BY <1>1 DEF ConfigInv, Pushed, Config!Pushing
<1>5. Numbered' BY <1>1, <1>4, ConfigTypes DEF ConfigInv, Numbered, Within, Entries
<1>6. Printed' /\ Clean' BY <1>1, <1>4 DEF ConfigInv, Printed, Clean, Within
<1>7. ~Config!Sending BY <1>1 DEF ConfigInv, Sent, Config!Pushing
<1>8. Sent' BY <1>1, <1>7 DEF Sent, Config!Sending
<1>9. Pushed' /\ Snapped'
  BY <1>1, <1>2, <1>4, <1>7, ConfigTypes DEF Pushed, Snapped, Within, Entries, Config!Pushing, Config!Sending
<1> QED BY <1>1, <1>2, <1>3, <1>4, <1>5, <1>6, <1>8, <1>9, JobFrame, ConfigTypes DEF ConfigInv, ConfigShape

\* The node has what the run has pushed.
LEMMA JobRecordsKeeps ==
    ASSUME ConfigInv, Config!JobRecords PROVE ConfigInv' /\ Config!FingerprintStep
<1>1. /\ job.pc = "landed" /\ fp' = job.payload /\ job' = [job EXCEPT !.pc = "clear"]
      /\ UNCHANGED <<cfg, ncfg, dirty, stamp, editor, edited, broken>>
  BY DEF Config!JobRecords, Config!rowVars
<1>2. /\ job' \in JobRecord /\ job'.payload = job.payload /\ job'.at = job.at /\ job'.pc = "clear"
  BY <1>1, ConfigTypes DEF JobRecord
<1>3. Within(cfg, cfg') BY <1>1, ConfigTypes DEF Within, Entries
<1>4. /\ job.payload \in Entries /\ Within(job.payload, cfg) /\ dirty /\ Within(job.payload, ncfg)
      /\ job.at <= stamp /\ (job.at = stamp => job.payload = cfg /\ ~Config!Sending)
  BY <1>1 DEF ConfigInv, Pushed
<1>5. Numbered' /\ Printed' /\ Clean' BY <1>1, <1>4 DEF ConfigInv, Numbered, Printed, Clean, Within
<1>6. ~Config!Sending BY <1>1 DEF ConfigInv, Sent, Config!Pushing
<1>7. Sent' BY <1>1, <1>6 DEF Sent, Config!Sending
<1>8. Pushed' /\ Snapped'
  BY <1>1, <1>2, <1>4, <1>6, ConfigTypes DEF Pushed, Snapped, Within, Config!Pushing, Config!Sending
<1>9. Config!FingerprintStep
  BY <1>1, <1>4, ConfigTypes DEF Config!FingerprintStep, Config!Holds, Within, Entries
<1> QED BY <1>1, <1>2, <1>3, <1>4, <1>5, <1>7, <1>8, <1>9, JobFrame, ConfigTypes DEF ConfigInv, ConfigShape

\* The job goes on without having pushed, or gives the run up.
LEMMA JobGoesOn ==
    ASSUME ConfigInv, job' \in JobRecord, job'.pc \in {"idle", "fetch"}, job'.at <= stamp,
           UNCHANGED <<cfg, ncfg, fp, dirty, stamp, editor, edited>>
    PROVE  ConfigInv'
<1>1. Within(cfg, cfg') BY ConfigTypes DEF Within, Entries
<1>2. Numbered' /\ Printed' /\ Clean' BY DEF ConfigInv, Numbered, Printed, Clean, Within
<1>3. Sent'
  BY DEF ConfigInv, Sent, Config!Sending, Config!Pushing, Within, Entries
<1>4. Pushed' /\ Snapped' BY DEF Pushed, Snapped, Config!Pushing
<1> QED BY <1>1, <1>2, <1>3, <1>4, JobFrame, ConfigTypes DEF ConfigInv, ConfigShape

\* A push that failed leaves the mark.
LEMMA ReconcileFailsKeeps == ASSUME ConfigInv, Config!ReconcileFails PROVE ConfigInv'
<1>1. /\ job' = [job EXCEPT !.pc = "fetch"]
      /\ UNCHANGED <<cfg, ncfg, fp, dirty, stamp, editor, edited>>
  BY DEF Config!ReconcileFails, Config!rowVars
<1>2. /\ job' \in JobRecord /\ job'.at = job.at /\ job'.pc = "fetch" BY <1>1, ConfigTypes DEF JobRecord
<1>3. job.at <= stamp BY DEF ConfigInv, Pushed
<1> QED BY <1>1, <1>2, <1>3, JobGoesOn

\* A fetch that failed ends the run.
LEMMA FetchFailsKeeps == ASSUME ConfigInv, Config!FetchFails PROVE ConfigInv'
<1>1. job' = Config!NoJob /\ UNCHANGED <<cfg, ncfg, fp, dirty, stamp, editor, edited>>
  BY DEF Config!FetchFails, Config!rowVars
<1>2. Config!NoJob \in JobRecord /\ Config!NoJob.at = 0 /\ Config!NoJob.pc = "idle" BY DEF Config!NoJob, JobRecord
<1>3. job' \in JobRecord /\ job'.pc = "idle" /\ job'.at <= stamp BY <1>1, <1>2, ConfigTypes
<1> QED BY <1>1, <1>3, JobGoesOn

\* The mark goes only if nothing has marked the node since the run began.
LEMMA JobClearsKeeps == ASSUME ConfigInv, Config!JobClears PROVE ConfigInv'
<1>1. /\ job.pc = "clear" /\ dirty' = (IF stamp = job.at THEN FALSE ELSE dirty) /\ job' = [job EXCEPT !.pc = "fetch"]
      /\ UNCHANGED <<cfg, ncfg, fp, stamp, editor, edited, broken>>
  BY DEF Config!JobClears, Config!Cleared
<1>2. /\ job' \in JobRecord /\ job'.at = job.at /\ job'.pc = "fetch" BY <1>1, ConfigTypes DEF JobRecord
<1>3. CASE stamp # job.at
  <2>1. UNCHANGED dirty BY <1>1, <1>3
  <2>2. job'.at <= stamp BY <1>2 DEF ConfigInv, Pushed
  <2> QED BY <1>1, <1>2, <2>1, <2>2, JobGoesOn
<1>4. CASE stamp = job.at
  <2>1. dirty' = FALSE /\ ~Config!Sending /\ Within(cfg, ncfg) /\ job.at <= stamp
    BY <1>1, <1>4 DEF ConfigInv, Pushed
  <2>2. Within(cfg, cfg') BY <1>1, ConfigTypes DEF Within, Entries
  <2>3. Numbered' /\ Printed' /\ Clean' BY <1>1, <2>1 DEF ConfigInv, Numbered, Printed, Clean, Within
  <2>4. Sent' BY <1>1, <2>1 DEF Sent, Config!Sending
  <2>5. Pushed' /\ Snapped' BY <1>1, <1>2, <2>1 DEF Pushed, Snapped, Config!Pushing
  <2> QED BY <1>1, <1>2, <2>1, <2>2, <2>3, <2>4, <2>5, JobFrame, ConfigTypes DEF ConfigInv, ConfigShape
<1> QED BY <1>3, <1>4

\* A clean node has the row, so what it reports is no older.
LEMMA JobFetchesKeeps == ASSUME ConfigInv, Config!JobFetches PROVE ConfigInv'
<1>1. /\ job.pc = "fetch" /\ job' = [job EXCEPT !.pc = "merge", !.snap = ncfg]
      /\ UNCHANGED <<cfg, ncfg, fp, dirty, stamp, editor, edited, broken>>
  BY DEF Config!JobFetches, Config!rowVars
<1>2. /\ job' \in JobRecord /\ job'.at = job.at /\ job'.pc = "merge" /\ job'.snap = ncfg
  BY <1>1, ConfigTypes DEF JobRecord
<1>3. Within(cfg, cfg') /\ Within(ncfg, ncfg) BY <1>1, ConfigTypes DEF Within, Entries
<1>4. Numbered' /\ Printed' /\ Clean' BY <1>1 DEF ConfigInv, Numbered, Printed, Clean, Within
<1>5. Sent'
  BY <1>1, <1>2 DEF ConfigInv, Sent, Config!Sending, Config!Pushing, Within, Entries
<1>6. Pushed' BY <1>1, <1>2 DEF ConfigInv, Pushed, Config!Pushing
<1>7. Snapped' BY <1>1, <1>2, <1>3, ConfigTypes DEF ConfigInv, Numbered, Clean, Snapped, Within, Entries
<1> QED BY <1>1, <1>2, <1>3, <1>4, <1>5, <1>6, <1>7, JobFrame, ConfigTypes DEF ConfigInv, ConfigShape

\* A clean node's snapshot has every edit of the row.
LEMMA JobMergesKeeps ==
    ASSUME ConfigInv, Config!JobMerges PROVE ConfigInv' /\ Within(cfg, cfg')
<1>1. /\ job.pc = "merge" /\ cfg' = (IF ~dirty THEN job.snap ELSE cfg)
      /\ job' = (IF ~dirty /\ cfg # job.snap THEN [job EXCEPT !.pc = "adopt"] ELSE Config!NoJob)
      /\ UNCHANGED <<ncfg, fp, dirty, stamp, editor, edited, broken>>
  BY DEF Config!JobMerges, Config!Adopts
<1>2. Config!NoJob \in JobRecord /\ Config!NoJob.at = 0 /\ Config!NoJob.pc = "idle" BY DEF Config!NoJob, JobRecord
<1>3. CASE dirty
  <2>1. job' = Config!NoJob /\ cfg' = cfg BY <1>1, <1>3
  <2>2. job' \in JobRecord /\ job'.pc = "idle" /\ job'.at <= stamp BY <2>1, <1>2, ConfigTypes
  <2>3. Within(cfg, cfg') BY <2>1, ConfigTypes DEF Within, Entries
  <2> QED BY <1>1, <2>1, <2>2, <2>3, JobGoesOn
<1>4. CASE ~dirty
  <2>1. /\ job.snap \in Entries /\ Within(cfg, job.snap) /\ Within(job.snap, ncfg)
        /\ \A c \in NodeClients : job.snap[c] <= edited
    BY <1>1, <1>4 DEF ConfigInv, Snapped
  <2>2. cfg' = job.snap BY <1>1, <1>4
  <2>3. /\ job' \in JobRecord /\ job'.at <= stamp
        /\ job'.pc = "idle" \/ (job'.pc = "adopt" /\ job'.snap = job.snap)
    <3>1. job.at <= stamp BY DEF ConfigInv, Pushed
    <3>2. CASE cfg # job.snap
      <4>1. job' = [job EXCEPT !.pc = "adopt"] BY <1>1, <1>4, <3>2
      <4> QED BY <4>1, <3>1, ConfigTypes DEF JobRecord
    <3>3. CASE cfg = job.snap
      <4>1. job' = Config!NoJob BY <1>1, <3>3
      <4> QED BY <4>1, <1>2, ConfigTypes
    <3> QED BY <3>2, <3>3
  <2>4. Within(cfg, cfg') /\ Within(cfg', cfg') BY <2>1, <2>2 DEF Within, Entries
  <2>5. Numbered' BY <1>1, <2>1, <2>2 DEF ConfigInv, Numbered
  <2>6. Printed'
    <3>1. fp # NoConfig => fp \in Entries /\ Within(fp, cfg) /\ Within(fp, ncfg) BY DEF ConfigInv, ConfigShape, Printed
    <3> QED BY <1>1, <2>1, <2>2, <3>1, ConfigTypes DEF Printed, Within, Entries
  <2>7. Clean' BY <1>1, <2>1, <2>2 DEF Clean, Within
  <2>8. ~Config!Sending BY <1>4 DEF ConfigInv, Sent
  <2>9. Sent' BY <1>1, <2>8 DEF Sent, Config!Sending
  <2>10. Pushed' BY <1>1, <2>3 DEF Pushed, Config!Pushing
  <2>11. Snapped' BY <1>1, <1>4, <2>1, <2>2, <2>3, <2>4 DEF Snapped, Within
  <2> QED BY <1>1, <2>1, <2>2, <2>3, <2>4, <2>5, <2>6, <2>7, <2>9, <2>10, <2>11, JobFrame, ConfigTypes
          DEF ConfigInv, ConfigShape
<1> QED BY <1>3, <1>4

\* What was adopted is on the node.
LEMMA JobAdoptsKeeps ==
    ASSUME ConfigInv, Config!JobAdopts PROVE ConfigInv' /\ Config!FingerprintStep
<1>1. /\ job.pc = "adopt" /\ fp' = job.snap /\ job' = Config!NoJob
      /\ UNCHANGED <<cfg, ncfg, dirty, stamp, editor, edited, broken>>
  BY DEF Config!JobAdopts, Config!rowVars
<1>2. Config!NoJob \in JobRecord /\ Config!NoJob.at = 0 /\ Config!NoJob.pc = "idle" BY DEF Config!NoJob, JobRecord
<1>3. job' \in JobRecord /\ job'.pc = "idle" /\ job'.at <= stamp BY <1>1, <1>2, ConfigTypes
<1>4. ~dirty /\ job.snap = cfg /\ Within(cfg, ncfg) BY <1>1 DEF ConfigInv, Snapped, Clean
<1>5. Within(cfg, cfg') BY <1>1, ConfigTypes DEF Within, Entries
<1>6. Numbered' /\ Clean' BY <1>1 DEF ConfigInv, Numbered, Clean, Within
<1>7. Printed' BY <1>1, <1>4, ConfigTypes DEF Printed, Within, Entries
<1>8. Sent'
  <2>1. ~Config!Sending BY <1>4 DEF ConfigInv, Sent
  <2> QED BY <1>1, <2>1 DEF Sent, Config!Sending
<1>9. Pushed' /\ Snapped' BY <1>1, <1>3 DEF Pushed, Snapped, Config!Pushing
<1>10. Config!FingerprintStep
  BY <1>1, <1>4, ConfigTypes DEF Config!FingerprintStep, Config!Holds, Within, Entries
<1> QED BY <1>1, <1>3, <1>4, <1>5, <1>6, <1>7, <1>8, <1>9, <1>10, JobFrame, ConfigTypes DEF ConfigInv, ConfigShape

\* A step of an editor: the job does not move.
LEMMA EditFrame ==
    ASSUME ConfigInv, cfg' \in Entries, ncfg' \in Entries, fp' \in Entries \cup {NoConfig}, dirty' \in BOOLEAN,
           edited' \in Nat, edited' <= ConfigEdits, stamp' \in Nat, stamp' <= edited',
           editor' \in [{"client", "inbound"} -> EditRecord], UNCHANGED job,
           \A e \in {"client", "inbound"} : Reads(e)',
           Numbered', Printed', Sent', Pushed', Snapped', Clean'
    PROVE  ConfigInv'
BY ConfigTypes DEF ConfigInv, ConfigShape, Entries, JobRecord

\* An editor reads the row.
LEMMA EditReadsKeeps ==
    ASSUME NEW e \in {"client", "inbound"}, NEW c \in NodeClients, ConfigInv, Config!EditReads(e, c) PROVE ConfigInv'
<1>1. /\ editor[e].pc = "idle"
      /\ editor' = [editor EXCEPT ![e] = [Config!NoEdit EXCEPT !.pc = "read", !.client = c, !.base = cfg]]
      /\ UNCHANGED <<cfg, ncfg, fp, dirty, stamp, job, edited>>
  BY DEF Config!EditReads, Config!rowVars
<1>2. Config!NoEdit \in EditRecord BY DEF Config!NoEdit, EditRecord
<1> DEFINE w == [Config!NoEdit EXCEPT !.pc = "read", !.client = c, !.base = cfg]
<1>3. w \in EditRecord /\ w.pc = "read" /\ w.client = c /\ w.base = cfg
  BY <1>2, ConfigTypes DEF EditRecord
<1>4. editor' = [editor EXCEPT ![e] = w] BY <1>1
<1> HIDE DEF w
<1>5. /\ editor' \in [{"client", "inbound"} -> EditRecord] /\ editor'[e] = w
      /\ \A x \in {"client", "inbound"} \ {e} : editor'[x] = editor[x]
  BY <1>3, <1>4, ConfigTypes
<1>6. Within(cfg, cfg) BY ConfigTypes DEF Within, Entries
<1>7. ASSUME NEW x \in {"client", "inbound"} PROVE Reads(x)'
  <2>1. CASE x = e BY <2>1, <1>1, <1>3, <1>5, <1>6, ConfigTypes DEF Reads, Within
  <2>2. CASE x # e
    <3>1. Reads(x) /\ editor'[x] = editor[x] BY <2>2, <1>5 DEF ConfigInv
    <3> QED BY <3>1, <1>1 DEF Reads, Within
  <2> QED BY <2>1, <2>2
<1>8. Config!Sending' = Config!Sending /\ (Config!Sending => editor'["client"] = editor["client"])
  BY <1>1, <1>3, <1>5 DEF Config!Sending
<1>9. Numbered' /\ Printed' /\ Clean' /\ Snapped'
  BY <1>1 DEF ConfigInv, Numbered, Printed, Clean, Snapped, Within
<1>10. Sent' BY <1>1, <1>8 DEF ConfigInv, Sent, Config!Pushing, Within
<1>11. Pushed' BY <1>1, <1>8 DEF ConfigInv, Pushed, Config!Pushing, Within
<1> QED BY <1>1, <1>5, <1>7, <1>9, <1>10, <1>11, EditFrame, ConfigTypes DEF ConfigInv, ConfigShape

\* What is saved has the edit, and every edit of the row.
LEMMA RebaseKeeps ==
    ASSUME ConfigInv, NEW e \in {"client", "inbound"}, editor[e].pc = "read",
           NEW ours, ours = [editor[e].base EXCEPT ![editor[e].client] = edited + 1]
    PROVE  LET kept == Config!Rebased(editor[e].base, ours)
           IN  /\ kept \in Entries /\ Within(cfg, kept) /\ \A c \in NodeClients : kept[c] <= edited + 1
               /\ ours \in Entries /\ Within(ours, kept) /\ ours[editor[e].client] = edited + 1
               /\ \A c \in NodeClients : c # editor[e].client => ours[c] = editor[e].base[c]
<1>1. /\ editor[e].client \in NodeClients /\ editor[e].base \in Entries /\ Within(editor[e].base, cfg)
  BY DEF ConfigInv, Reads
<1>2. \A c \in NodeClients : cfg[c] <= edited BY DEF ConfigInv, Numbered
<1> DEFINE b == editor[e].base
           k == editor[e].client
<1>3. b \in Entries /\ k \in NodeClients /\ \A c \in NodeClients : b[c] \in Nat /\ b[c] <= cfg[c] /\ cfg[c] \in Nat
  BY <1>1, ConfigTypes DEF Within, Entries
<1>4. ours = [b EXCEPT ![k] = edited + 1] OBVIOUS
<1>5. Config!Rebased(b, ours) = [c \in NodeClients |-> IF ours[c] = b[c] THEN cfg[c] ELSE ours[c]]
  BY DEF Config!Rebased
<1> HIDE DEF b, k
<1>6. ours \in Entries /\ ours[k] = edited + 1 /\ \A c \in NodeClients : c # k => ours[c] = b[c]
  <2> DEFINE n == edited + 1
  <2>1. n \in Nat BY ConfigTypes
  <2>2. ours = [b EXCEPT ![k] = n] BY <1>4
  <2>3. b \in [NodeClients -> Nat] /\ k \in NodeClients BY <1>3 DEF Entries
  <2> HIDE DEF n
  <2>4. ours \in [NodeClients -> Nat] /\ ours[k] = n /\ \A c \in NodeClients : c # k => ours[c] = b[c]
    BY <2>1, <2>2, <2>3
  <2> QED BY <2>4 DEF n, Entries
<1>7. \A c \in NodeClients : Config!Rebased(b, ours)[c] = IF c = k THEN edited + 1 ELSE cfg[c]
  BY <1>2, <1>3, <1>5, <1>6, ConfigTypes
<1>8. Config!Rebased(b, ours) \in Entries
  BY <1>3, <1>5, <1>6 DEF Entries
<1>9. /\ Within(cfg, Config!Rebased(b, ours)) /\ Within(ours, Config!Rebased(b, ours))
      /\ \A c \in NodeClients : Config!Rebased(b, ours)[c] <= edited + 1
  BY <1>2, <1>3, <1>6, <1>7, ConfigTypes DEF Within
<1> QED BY <1>6, <1>8, <1>9 DEF b, k

\* An edit is saved, and marks the node.
LEMMA EditCommitsKeeps ==
    ASSUME ~Overlap, NEW e \in {"client", "inbound"}, NEW push \in BOOLEAN, ConfigInv, Config!EditCommits(e, push)
    PROVE  ConfigInv' /\ Within(cfg, cfg')
<1> DEFINE k == editor[e].client
           ours == [editor[e].base EXCEPT ![k] = edited + 1]
           w == IF push THEN [editor[e] EXCEPT !.pc = "push", !.ours = ours] ELSE Config!NoEdit
<1>1. /\ editor[e].pc = "read" /\ job.pc # "adopt" /\ edited < ConfigEdits /\ edited' = edited + 1
      /\ push => e = "client" /\ ~Config!Pushing
      /\ cfg' = Config!Rebased(editor[e].base, ours) /\ dirty' = TRUE /\ stamp' = stamp + 1
      /\ UNCHANGED <<ncfg, fp, job>>
  BY DEF Config!EditCommits, Config!WriterFree, Config!Editing
<1>2. editor' = [editor EXCEPT ![e] = w] BY DEF Config!EditCommits
<1>3. /\ cfg' \in Entries /\ Within(cfg, cfg') /\ \A c \in NodeClients : cfg'[c] <= edited + 1
      /\ ours \in Entries /\ Within(ours, cfg') /\ ours[k] = edited + 1
      /\ \A c \in NodeClients : c # k => ours[c] = editor[e].base[c]
  BY <1>1, RebaseKeeps
<1>4. k \in NodeClients /\ editor[e].base \in Entries /\ Within(editor[e].base, cfg)
  BY <1>1 DEF ConfigInv, Reads
<1> HIDE DEF ours
<1>5. Config!NoEdit \in EditRecord /\ Config!NoEdit.pc = "idle" BY DEF Config!NoEdit, EditRecord
<1>6. /\ w \in EditRecord
      /\ push => w.pc = "push" /\ w.ours = ours /\ w.client = k /\ w.base = editor[e].base
      /\ ~push => w.pc = "idle"
  <2>1. editor[e] \in EditRecord BY ConfigTypes
  <2> QED BY <1>3, <1>5, <2>1 DEF EditRecord
<1> HIDE DEF w
<1>7. /\ editor' \in [{"client", "inbound"} -> EditRecord] /\ editor'[e] = w
      /\ \A x \in {"client", "inbound"} \ {e} : editor'[x] = editor[x]
  BY <1>2, <1>6, ConfigTypes
<1>8. ASSUME NEW f \in Entries, Within(f, cfg) PROVE Within(f, cfg')
  BY <1>3, <1>8, ConfigTypes DEF Within, Entries
<1>9. ASSUME NEW x \in {"client", "inbound"} PROVE Reads(x)'
  <2>1. CASE x = e
    <3>1. Within(editor[e].base, cfg') BY <1>4, <1>8
    <3> QED BY <2>1, <3>1, <1>1, <1>4, <1>6, <1>7 DEF Reads, Within
  <2>2. CASE x # e
    <3>1. Reads(x) /\ editor'[x] = editor[x] BY <2>2, <1>7 DEF ConfigInv
    <3>2. editor[x].base \in Entries /\ Within(editor[x].base, cfg) => Within(editor[x].base, cfg') BY <1>8
    <3> QED BY <3>1, <3>2 DEF Reads, Within
  <2> QED BY <2>1, <2>2
<1>10. Numbered'
  BY <1>1, <1>3, ConfigTypes DEF ConfigInv, Numbered, Entries
<1>11. Printed'
  <2>1. fp # NoConfig => fp \in Entries /\ Within(fp, cfg) /\ Within(fp, ncfg) BY DEF ConfigInv, ConfigShape, Printed
  <2>2. fp # NoConfig => Within(fp, cfg') BY <2>1, <1>8
  <2> QED BY <1>1, <2>1, <2>2 DEF Printed, Within
<1>12. Clean' BY <1>1 DEF Clean
<1>13. Snapped'
  <2>1. job.pc = "merge" => job.snap \in Entries /\ \A c \in NodeClients : job.snap[c] <= edited BY DEF ConfigInv, Snapped
  <2> QED BY <1>1, <2>1, ConfigTypes DEF Snapped, Entries
<1>14. Pushed'
  <2>1. job.at <= stamp /\ job.at # stamp' BY <1>1, ConfigTypes DEF ConfigInv, Pushed
  <2>2. job.pc \in {"list", "push", "landed", "clear"} => job.payload \in Entries /\ Within(job.payload, cfg')
    BY <1>8 DEF ConfigInv, Pushed
  <2>3. /\ Config!Pushing /\ fp # NoConfig => Within(fp, job.payload)
        /\ job.pc = "landed" => Within(job.payload, ncfg)
    BY DEF ConfigInv, Pushed
  <2> QED BY <1>1, <2>1, <2>2, <2>3, ConfigTypes DEF Pushed, Config!Pushing, Within
<1>15. Sent'
  <2>1. CASE e = "client" /\ push
    <3>1. editor'["client"] = w BY <2>1, <1>7
    <3>2. fp # NoConfig => fp[k] <= edited + 1
      <4>1. fp # NoConfig => fp \in Entries /\ fp[k] <= cfg[k] /\ cfg[k] <= edited
        BY <1>4 DEF ConfigInv, ConfigShape, Printed, Numbered, Within
      <4> QED BY <4>1, <1>4, ConfigTypes DEF Entries
    <3> QED BY <1>1, <1>3, <1>6, <2>1, <3>1, <3>2 DEF Sent, Config!Sending, Config!Pushing, Within
  <2>2. CASE e = "client" /\ ~push
    BY <2>2, <1>6, <1>7 DEF Sent, Config!Sending
  <2>3. CASE e = "inbound"
    <3>1. editor'["client"] = editor["client"] BY <2>3, <1>7
    <3>2. Config!Sending => editor["client"].ours \in Entries /\ Within(editor["client"].ours, cfg')
      BY <1>8 DEF ConfigInv, Sent
    <3> QED BY <1>1, <3>1, <3>2 DEF ConfigInv, Sent, Config!Sending, Config!Pushing, Within
  <2> QED BY <2>1, <2>2, <2>3
<1>16. stamp' \in Nat /\ stamp' <= edited' /\ edited' \in Nat /\ edited' <= ConfigEdits
  BY <1>1, ConfigTypes DEF ConfigInv, ConfigShape
<1>17. UNCHANGED job /\ ncfg' \in Entries /\ fp' \in Entries \cup {NoConfig} /\ dirty' \in BOOLEAN
  BY <1>1, ConfigTypes DEF ConfigInv, ConfigShape
<1> QED BY <1>3, <1>7, <1>9, <1>10, <1>11, <1>12, <1>13, <1>14, <1>15, <1>16, <1>17, EditFrame

\* The node has the edit, and of the other entries what it had.
LEMMA EditLandsKeeps == ASSUME ConfigInv, Config!EditLands PROVE ConfigInv'
<1> DEFINE w == editor["client"]
<1>1. /\ w.pc = "push" /\ ncfg' = [ncfg EXCEPT ![w.client] = w.ours[w.client]]
      /\ editor' = [editor EXCEPT !["client"] = [w EXCEPT !.pc = "landed"]]
      /\ UNCHANGED <<cfg, dirty, stamp, fp, job, edited>>
  BY DEF Config!EditLands, Config!rowVars
<1>2. /\ w \in EditRecord /\ w.client \in NodeClients /\ w.base \in Entries /\ Within(w.base, cfg)
  BY <1>1, ConfigTypes DEF ConfigInv, Reads
<1>3. /\ Config!Sending /\ w.ours \in Entries /\ Within(w.ours, cfg) /\ dirty /\ ~Config!Pushing /\ job.pc # "adopt"
      /\ \A c \in NodeClients : c # w.client => w.ours[c] = w.base[c]
      /\ fp # NoConfig => fp[w.client] <= w.ours[w.client]
  BY <1>1 DEF ConfigInv, Sent, Config!Sending
<1>4. /\ editor'["client"] \in EditRecord /\ editor'["client"].pc = "landed" /\ editor'["client"].client = w.client
      /\ editor'["client"].base = w.base /\ editor'["client"].ours = w.ours
      /\ editor'["inbound"] = editor["inbound"] /\ editor' \in [{"client", "inbound"} -> EditRecord]
  <2> DEFINE v == [w EXCEPT !.pc = "landed"]
  <2>1. /\ v \in EditRecord /\ v.pc = "landed" /\ v.client = w.client /\ v.base = w.base /\ v.ours = w.ours
    BY <1>2 DEF EditRecord
  <2>2. editor' = [editor EXCEPT !["client"] = v] BY <1>1
  <2> HIDE DEF v
  <2>3. /\ editor'["client"] = v /\ editor'["inbound"] = editor["inbound"]
        /\ editor' \in [{"client", "inbound"} -> EditRecord]
    BY <2>1, <2>2, ConfigTypes
  <2> QED BY <2>1, <2>3
<1>5. /\ ncfg' \in Entries /\ ncfg'[w.client] = w.ours[w.client]
      /\ \A c \in NodeClients : c # w.client => ncfg'[c] = ncfg[c]
  <2> DEFINE n == w.ours[w.client]
  <2>1. n \in Nat /\ ncfg' = [ncfg EXCEPT ![w.client] = n] BY <1>1, <1>2, <1>3 DEF Entries
  <2> HIDE DEF n
  <2>2. /\ ncfg' \in Entries /\ ncfg'[w.client] = n
        /\ \A c \in NodeClients : c # w.client => ncfg'[c] = ncfg[c]
    BY <2>1, <1>2, ConfigTypes DEF Entries
  <2> QED BY <2>2 DEF n
<1> HIDE DEF w
<1>6. ASSUME NEW e \in {"client", "inbound"} PROVE Reads(e)'
  <2>1. CASE e = "client" BY <2>1, <1>1, <1>2, <1>4 DEF Reads, Within
  <2>2. CASE e = "inbound"
    <3>1. Reads(e) /\ editor'[e] = editor[e] BY <2>2, <1>4 DEF ConfigInv
    <3> QED BY <3>1, <1>1 DEF Reads, Within
  <2> QED BY <2>1, <2>2
<1>7. Numbered'
  <2>1. w.ours[w.client] <= edited
    BY <1>2, <1>3, ConfigTypes DEF ConfigInv, Numbered, Within, Entries
  <2> QED BY <1>1, <1>5, <2>1 DEF ConfigInv, Numbered
<1>8. Printed'
  BY <1>1, <1>3, <1>5 DEF ConfigInv, Printed, Within
<1>9. Clean' /\ Snapped' BY <1>1, <1>3 DEF ConfigInv, Clean, Snapped
<1>10. Pushed'
  <2>1. Config!Sending' BY <1>4 DEF Config!Sending
  <2> QED BY <1>1, <1>3, <1>4, <2>1 DEF ConfigInv, Pushed, Config!Pushing, Within
<1>11. Sent'
  BY <1>1, <1>2, <1>3, <1>4, <1>5 DEF Sent, Config!Sending, Config!Pushing, Within, Entries
<1> QED BY <1>1, <1>4, <1>5, <1>6, <1>7, <1>8, <1>9, <1>10, <1>11, EditFrame, ConfigTypes DEF ConfigInv, ConfigShape

\* An editor that has ended; the fingerprint may have been advanced.
LEMMA EditEnds ==
    ASSUME ConfigInv, editor' = [editor EXCEPT !["client"] = Config!NoEdit],
           UNCHANGED <<cfg, ncfg, dirty, stamp, job, edited>>, fp' \in Entries \cup {NoConfig}, Printed',
           fp' = fp \/ ~Config!Pushing
    PROVE  ConfigInv'
<1>1. Config!NoEdit \in EditRecord /\ Config!NoEdit.pc = "idle" BY DEF Config!NoEdit, EditRecord
<1>2. /\ editor'["client"] = Config!NoEdit /\ editor'["inbound"] = editor["inbound"]
      /\ editor' \in [{"client", "inbound"} -> EditRecord]
  BY <1>1, ConfigTypes
<1>3. ASSUME NEW e \in {"client", "inbound"} PROVE Reads(e)'
  <2>1. CASE e = "client" BY <2>1, <1>1, <1>2 DEF Reads
  <2>2. CASE e = "inbound"
    <3>1. Reads(e) /\ editor'[e] = editor[e] BY <2>2, <1>2 DEF ConfigInv
    <3> QED BY <3>1 DEF Reads, Within
  <2> QED BY <2>1, <2>2
<1>4. Numbered' /\ Clean' /\ Snapped' BY DEF ConfigInv, Numbered, Clean, Snapped, Within
<1>5. ~Config!Sending' BY <1>1, <1>2 DEF Config!Sending
<1>6. Sent' BY <1>5 DEF Sent
<1>7. Pushed'
  <2>1. /\ job.at <= stamp
        /\ job.pc \in {"read", "list", "push", "landed", "clear"} => dirty
        /\ job.pc \in {"list", "push", "landed", "clear"} =>
              /\ job.payload \in Entries /\ Within(job.payload, cfg) /\ (job.at = stamp => job.payload = cfg)
        /\ Config!Pushing /\ fp # NoConfig => Within(fp, job.payload)
        /\ job.pc = "landed" \/ (job.pc = "clear" /\ job.at = stamp) => Within(job.payload, ncfg)
    BY DEF ConfigInv, Pushed
  <2> QED BY <1>5, <2>1 DEF Pushed, Config!Pushing, Within
<1> QED BY <1>2, <1>3, <1>4, <1>6, <1>7, EditFrame, ConfigTypes DEF ConfigInv, ConfigShape

\* An edit that was not sent is in the row, and the node is marked.
LEMMA EditFailsKeeps == ASSUME ConfigInv, Config!EditFails PROVE ConfigInv'
<1>1. /\ editor' = [editor EXCEPT !["client"] = Config!NoEdit]
      /\ UNCHANGED <<cfg, ncfg, fp, dirty, stamp, job, edited>>
  BY DEF Config!EditFails, Config!rowVars
<1>2. Printed' BY <1>1 DEF ConfigInv, Printed, Within
<1> QED BY <1>1, <1>2, EditEnds DEF ConfigInv, ConfigShape

\* The fingerprint is advanced over an edit that the node has taken.
LEMMA EditAdvancesKeeps ==
    ASSUME ConfigInv, Config!EditAdvances PROVE ConfigInv' /\ Config!FingerprintStep
<1> DEFINE w == editor["client"]
<1>1. /\ w.pc = "landed" /\ fp' = (IF fp = w.base THEN w.ours ELSE fp)
      /\ editor' = [editor EXCEPT !["client"] = Config!NoEdit]
      /\ UNCHANGED <<cfg, ncfg, dirty, stamp, job, edited>>
  BY DEF Config!EditAdvances, Config!rowVars, Config!Advanced
<1>2. w.client \in NodeClients /\ w.base \in Entries
  BY <1>1 DEF ConfigInv, Reads
<1>3. /\ w.ours \in Entries /\ Within(w.ours, cfg) /\ ~Config!Pushing
      /\ \A c \in NodeClients : c # w.client => w.ours[c] = w.base[c]
      /\ w.ours[w.client] <= ncfg[w.client]
  BY <1>1 DEF ConfigInv, Sent, Config!Sending
<1> HIDE DEF w
<1>4. fp = w.base => Within(w.ours, ncfg)
  BY <1>2, <1>3, ConfigTypes DEF ConfigInv, Printed, Within
<1>5. fp' \in Entries \cup {NoConfig} BY <1>1, <1>3 DEF ConfigInv, ConfigShape
<1>6. Printed'
  <2>1. CASE fp = w.base BY <2>1, <1>1, <1>3, <1>4 DEF Printed, Within
  <2>2. CASE fp # w.base BY <2>2, <1>1 DEF ConfigInv, Printed, Within
  <2> QED BY <2>1, <2>2
<1>7. Config!FingerprintStep
  BY <1>1, <1>3, <1>4, ConfigTypes DEF Config!FingerprintStep, Config!Holds, Within, Entries
<1> QED BY <1>1, <1>3, <1>5, <1>6, <1>7, EditEnds

\* An edit on the node is newer than the row.
LEMMA NodeEditsKeeps ==
    ASSUME NEW c \in NodeClients, ConfigInv, Config!NodeEdits(c) PROVE ConfigInv'
<1>1. /\ edited < ConfigEdits /\ edited' = edited + 1 /\ ncfg' = [ncfg EXCEPT ![c] = edited + 1]
      /\ UNCHANGED <<cfg, fp, dirty, stamp, editor, job>>
  BY DEF Config!NodeEdits, Config!Editing, Config!rowVars
<1>2. ncfg' \in Entries /\ Within(ncfg, ncfg') /\ \A x \in NodeClients : ncfg'[x] <= edited + 1
  <2>1. \A x \in NodeClients : ncfg[x] <= edited /\ ncfg[x] \in Nat BY ConfigTypes DEF ConfigInv, Numbered, Entries
  <2> DEFINE n == edited + 1
  <2>2. n \in Nat /\ ncfg' = [ncfg EXCEPT ![c] = n] /\ \A x \in NodeClients : ncfg[x] <= n
    BY <1>1, <2>1, ConfigTypes
  <2> HIDE DEF n
  <2>3. ncfg' \in Entries /\ Within(ncfg, ncfg') /\ \A x \in NodeClients : ncfg'[x] <= n
    BY <2>1, <2>2, ConfigTypes DEF Entries, Within
  <2> QED BY <2>3 DEF n
<1>3. ASSUME NEW f \in Entries, Within(f, ncfg) PROVE Within(f, ncfg')
  BY <1>2, <1>3, ConfigTypes DEF Within, Entries
<1>4. \A e \in {"client", "inbound"} : Reads(e)' BY <1>1 DEF ConfigInv, Reads, Within
<1>5. Numbered' BY <1>1, <1>2, ConfigTypes DEF ConfigInv, Numbered, Entries
<1>6. Printed'
  <2>1. fp # NoConfig => fp \in Entries /\ Within(fp, cfg) /\ Within(fp, ncfg) BY DEF ConfigInv, ConfigShape, Printed
  <2> QED BY <1>1, <1>3, <2>1 DEF Printed, Within
<1>7. Clean' BY <1>1, <1>3, ConfigTypes DEF ConfigInv, Clean, Within
<1>8. Snapped'
  <2>1. /\ job.pc \in {"merge", "adopt"} =>
              /\ job.snap \in Entries /\ \A x \in NodeClients : job.snap[x] <= edited
              /\ ~dirty => Within(cfg, job.snap) /\ Within(job.snap, ncfg)
        /\ job.pc = "adopt" => ~dirty /\ job.snap = cfg
    BY DEF ConfigInv, Snapped
  <2>2. job.snap \in Entries /\ (\A x \in NodeClients : job.snap[x] <= edited)
           => \A x \in NodeClients : job.snap[x] <= edited + 1
    BY ConfigTypes DEF Entries
  <2>3. job.snap \in Entries /\ Within(job.snap, ncfg) => Within(job.snap, ncfg') BY <1>3
  <2> QED BY <1>1, <2>1, <2>2, <2>3 DEF Snapped, Within
<1>9. Pushed'
  <2>1. job.pc \in {"landed", "clear"} /\ Within(job.payload, ncfg) => Within(job.payload, ncfg')
    BY <1>3 DEF ConfigInv, Pushed
  <2> QED BY <1>1, <2>1 DEF ConfigInv, Pushed, Config!Pushing, Config!Sending, Within
<1>10. Sent'
  <2> DEFINE w == editor["client"]
  <2>1. w.client \in NodeClients /\ w.ours \in Entries /\ w.ours[w.client] <= ncfg[w.client] =>
          w.ours[w.client] <= ncfg'[w.client]
    BY <1>2, ConfigTypes DEF Within, Entries
  <2>2. Config!Sending => w.client \in NodeClients BY DEF ConfigInv, Reads, Config!Sending
  <2> QED BY <1>1, <2>1, <2>2 DEF ConfigInv, Sent, Config!Sending, Config!Pushing, Within
<1>11. edited' \in Nat /\ edited' <= ConfigEdits /\ stamp' \in Nat /\ stamp' <= edited'
  BY <1>1, ConfigTypes DEF ConfigInv, ConfigShape
<1>12. /\ UNCHANGED job /\ cfg' \in Entries /\ fp' \in Entries \cup {NoConfig} /\ dirty' \in BOOLEAN
       /\ editor' \in [{"client", "inbound"} -> EditRecord]
  BY <1>1, ConfigTypes DEF ConfigInv, ConfigShape
<1> QED BY <1>2, <1>4, <1>5, <1>6, <1>7, <1>8, <1>9, <1>10, <1>11, <1>12, EditFrame

\* Whoever was at work has ended, and the fingerprints are gone.
LEMMA PanelRestartsKeeps == ASSUME ConfigInv, Config!PanelRestarts PROVE ConfigInv'
<1>1. /\ fp' = NoConfig /\ editor' = [e \in {"client", "inbound"} |-> Config!NoEdit] /\ job' = Config!NoJob
      /\ UNCHANGED <<cfg, ncfg, dirty, stamp, edited>>
  BY DEF Config!PanelRestarts, Config!rowVars, Config!Editors
<1>2. Config!NoEdit \in EditRecord /\ Config!NoEdit.pc = "idle" BY DEF Config!NoEdit, EditRecord
<1>3. Config!NoJob \in JobRecord /\ Config!NoJob.at = 0 /\ Config!NoJob.pc = "idle" BY DEF Config!NoJob, JobRecord
<1>4. /\ editor' \in [{"client", "inbound"} -> EditRecord]
      /\ \A e \in {"client", "inbound"} : editor'[e].pc = "idle"
  BY <1>1, <1>2
<1>5. ConfigShape' BY <1>1, <1>3, <1>4, ConfigTypes DEF ConfigInv, ConfigShape
<1>6. Numbered' /\ Printed' /\ Clean' BY <1>1 DEF ConfigInv, Numbered, Printed, Clean, Within
<1>7. Sent' /\ \A e \in {"client", "inbound"} : Reads(e)' BY <1>4 DEF Sent, Reads, Config!Sending
<1>8. Pushed' /\ Snapped' BY <1>1, <1>3, ConfigTypes DEF Pushed, Snapped, Config!Pushing
<1> QED BY <1>5, <1>6, <1>7, <1>8 DEF ConfigInv

\* The rows begin the same.
LEMMA ConfigStarts == ASSUME Config!Init PROVE ConfigInv
<1>1. /\ cfg = [c \in NodeClients |-> 0] /\ ncfg = cfg /\ fp = NoConfig /\ dirty = FALSE /\ stamp = 0
      /\ editor = [e \in {"client", "inbound"} |-> Config!NoEdit] /\ job = Config!NoJob /\ edited = 0
  BY DEF Config!Init, Config!Editors
<1>2. Config!NoEdit \in EditRecord /\ Config!NoEdit.pc = "idle" BY DEF Config!NoEdit, EditRecord
<1>3. Config!NoJob \in JobRecord /\ Config!NoJob.at = 0 /\ Config!NoJob.pc = "idle" BY DEF Config!NoJob, JobRecord
<1>4. /\ editor \in [{"client", "inbound"} -> EditRecord]
      /\ \A e \in {"client", "inbound"} : editor[e].pc = "idle"
  BY <1>1, <1>2
<1>5. ConfigEdits \in Nat BY ConfigParameters DEF Config!NodeConfigAssumption
<1>6. ConfigShape
  <2>1. cfg \in Entries /\ ncfg \in Entries BY <1>1 DEF Entries
  <2>2. dirty \in BOOLEAN BY <1>1
  <2> QED BY <1>1, <1>3, <1>4, <1>5, <2>1, <2>2 DEF ConfigShape
<1>7. Numbered /\ Printed /\ Clean BY <1>1 DEF Numbered, Printed, Clean, Within
<1>8. Sent /\ \A e \in {"client", "inbound"} : Reads(e) BY <1>4 DEF Sent, Reads, Config!Sending
<1>9. Pushed /\ Snapped BY <1>1, <1>3 DEF Pushed, Snapped, Config!Pushing
<1> QED BY <1>6, <1>7, <1>8, <1>9 DEF ConfigInv

\* What a step does to the row and to the fingerprint, if it does anything
LEMMA ConfigStepSound ==
    ASSUME Within(cfg, cfg'), cfg \in Entries, cfg' \in Entries, fp' = fp \/ fp' = NoConfig \/ Config!FingerprintStep
    PROVE  Config!FingerprintStep /\ Config!EditsKeptStep
<1>1. Config!EditsKeptStep BY DEF Config!EditsKeptStep, Within, Entries
<1>2. Config!FingerprintStep BY DEF Config!FingerprintStep
<1> QED BY <1>1, <1>2

\* The steps of the editors
LEMMA EditsKeep ==
    ASSUME ~Overlap, ConfigInv, Config!Edits
    PROVE  ConfigInv' /\ Within(cfg, cfg') /\ (fp' = fp \/ Config!FingerprintStep)
<1>1. Within(cfg, cfg) BY ConfigTypes DEF Within, Entries
<1>2. ASSUME NEW c \in NodeClients, Config!NodeEdits(c) PROVE ConfigInv' /\ cfg' = cfg /\ fp' = fp
  <2>1. cfg' = cfg /\ fp' = fp BY <1>2 DEF Config!NodeEdits, Config!rowVars
  <2> QED BY <1>2, <2>1, NodeEditsKeeps
<1>3. ASSUME NEW c \in NodeClients, NEW e \in {"client", "inbound"}, Config!EditReads(e, c)
      PROVE  ConfigInv' /\ cfg' = cfg /\ fp' = fp
  <2>1. cfg' = cfg /\ fp' = fp BY <1>3 DEF Config!EditReads, Config!rowVars
  <2> QED BY <1>3, <2>1, EditReadsKeeps
<1>4. ASSUME NEW e \in {"client", "inbound"}, NEW push \in BOOLEAN, Config!EditCommits(e, push)
      PROVE  ConfigInv' /\ Within(cfg, cfg') /\ fp' = fp
  <2>1. fp' = fp BY <1>4 DEF Config!EditCommits
  <2> QED BY <1>4, <2>1, EditCommitsKeeps
<1>5. CASE Config!EditLands
  <2>1. cfg' = cfg /\ fp' = fp BY <1>5 DEF Config!EditLands, Config!rowVars
  <2> QED BY <1>1, <1>5, <2>1, EditLandsKeeps
<1>6. CASE Config!EditFails
  <2>1. cfg' = cfg /\ fp' = fp BY <1>6 DEF Config!EditFails, Config!rowVars
  <2> QED BY <1>1, <1>6, <2>1, EditFailsKeeps
<1>7. CASE Config!EditAdvances
  <2>1. cfg' = cfg BY <1>7 DEF Config!EditAdvances, Config!rowVars
  <2> QED BY <1>1, <1>7, <2>1, EditAdvancesKeeps
<1>8. CASE \E c \in NodeClients : Config!NodeEdits(c) \/ \E e \in {"client", "inbound"} : Config!EditReads(e, c)
  BY <1>1, <1>2, <1>3, <1>8
<1>9. CASE \E e \in {"client", "inbound"}, push \in BOOLEAN : Config!EditCommits(e, push)
  BY <1>4, <1>9
<1> QED BY <1>5, <1>6, <1>7, <1>8, <1>9 DEF Config!Edits, Config!Editors

\* The steps of the job
LEMMA SyncKeeps ==
    ASSUME ~Overlap, ConfigInv, Config!Sync
    PROVE  ConfigInv' /\ Within(cfg, cfg') /\ (fp' = fp \/ Config!FingerprintStep)
<1>1. Within(cfg, cfg) BY ConfigTypes DEF Within, Entries
<1>2. CASE Config!JobLoads
  <2>1. cfg' = cfg /\ fp' = fp BY <1>2 DEF Config!JobLoads, Config!rowVars
  <2> QED BY <1>1, <1>2, <2>1, JobLoadsKeeps
<1>3. CASE Config!JobReads
  <2>1. cfg' = cfg /\ fp' = fp BY <1>3 DEF Config!JobReads, Config!rowVars
  <2> QED BY <1>1, <1>3, <2>1, JobReadsKeeps
<1>4. CASE Config!JobLists
  <2>1. cfg' = cfg /\ fp' = fp BY <1>4 DEF Config!JobLists, Config!rowVars
  <2> QED BY <1>1, <1>4, <2>1, JobListsKeeps
<1>5. CASE Config!JobLands
  <2>1. cfg' = cfg /\ fp' = fp BY <1>5 DEF Config!JobLands, Config!rowVars
  <2> QED BY <1>1, <1>5, <2>1, JobLandsKeeps
<1>6. CASE Config!JobRecords
  <2>1. cfg' = cfg BY <1>6 DEF Config!JobRecords, Config!rowVars
  <2> QED BY <1>1, <1>6, <2>1, JobRecordsKeeps
<1>7. CASE Config!JobClears
  <2>1. cfg' = cfg /\ fp' = fp BY <1>7 DEF Config!JobClears
  <2> QED BY <1>1, <1>7, <2>1, JobClearsKeeps
<1>8. CASE Config!JobFetches
  <2>1. cfg' = cfg /\ fp' = fp BY <1>8 DEF Config!JobFetches, Config!rowVars
  <2> QED BY <1>1, <1>8, <2>1, JobFetchesKeeps
<1>9. CASE Config!JobMerges
  <2>1. fp' = fp BY <1>9 DEF Config!JobMerges
  <2> QED BY <1>9, <2>1, JobMergesKeeps
<1>10. CASE Config!JobAdopts
  <2>1. cfg' = cfg BY <1>10 DEF Config!JobAdopts, Config!rowVars
  <2> QED BY <1>1, <1>10, <2>1, JobAdoptsKeeps
<1> QED BY <1>2, <1>3, <1>4, <1>5, <1>6, <1>7, <1>8, <1>9, <1>10 DEF Config!Sync

\* Every step of the component
LEMMA ConfigNext ==
    ASSUME ~Overlap, ConfigInv, Config!Next
    PROVE  ConfigInv' /\ Config!FingerprintStep /\ Config!EditsKeptStep
<1>1. Within(cfg, cfg) BY ConfigTypes DEF Within, Entries
<1>2. ConfigInv' /\ Within(cfg, cfg') /\ (fp' = fp \/ fp' = NoConfig \/ Config!FingerprintStep)
  <2>1. CASE Config!Edits BY <2>1, EditsKeep
  <2>2. CASE Config!Sync BY <2>2, SyncKeeps
  <2>3. CASE Config!ReconcileFails
    <3>1. cfg' = cfg /\ fp' = fp BY <2>3 DEF Config!ReconcileFails, Config!rowVars
    <3> QED BY <1>1, <2>3, <3>1, ReconcileFailsKeeps
  <2>4. CASE Config!FetchFails
    <3>1. cfg' = cfg /\ fp' = fp BY <2>4 DEF Config!FetchFails, Config!rowVars
    <3> QED BY <1>1, <2>4, <3>1, FetchFailsKeeps
  <2>5. CASE Config!PanelRestarts
    <3>1. cfg' = cfg /\ fp' = NoConfig BY <2>5 DEF Config!PanelRestarts, Config!rowVars
    <3> QED BY <1>1, <2>5, <3>1, PanelRestartsKeeps
  <2> QED BY <2>1, <2>2, <2>3, <2>4, <2>5 DEF Config!Next
<1>3. cfg \in Entries /\ cfg' \in Entries BY <1>2 DEF ConfigInv, ConfigShape, Entries
<1> QED BY <1>2, <1>3, ConfigStepSound

\* The steps of the others
LEMMA ConfigStutters == ASSUME ConfigInv, UNCHANGED configVars PROVE ConfigInv'
<1>1. UNCHANGED <<cfg, ncfg, fp, dirty, stamp, editor, job, edited>> BY DEF configVars
<1>2. ConfigShape' BY <1>1 DEF ConfigInv, ConfigShape, Entries, EditRecord, JobRecord
<1>3. Numbered' /\ Printed' /\ Snapped' /\ Clean'
  BY <1>1 DEF ConfigInv, Numbered, Printed, Snapped, Clean, Within
<1>4. Sent' /\ Pushed' /\ \A e \in {"client", "inbound"} : Reads(e)'
  BY <1>1 DEF ConfigInv, Sent, Pushed, Reads, Within, Config!Sending, Config!Pushing
<1> QED BY <1>2, <1>3, <1>4 DEF ConfigInv

\* What the invariant is for
LEMMA ConfigSound == ASSUME ConfigInv PROVE Config!TypeOK /\ Config!NodeHasEdits
<1>1. ConfigEdits \in Nat /\ edited \in Nat /\ edited <= ConfigEdits BY ConfigTypes DEF ConfigInv, ConfigShape
<1>2. ASSUME NEW f \in Entries, \A c \in NodeClients : f[c] <= edited PROVE f \in Config!Config
  <2>1. \A c \in NodeClients : f[c] \in 0..ConfigEdits BY <1>1, <1>2 DEF Entries
  <2> QED BY <2>1 DEF Entries, Config!Config
<1>3. cfg \in Config!Config /\ ncfg \in Config!Config BY <1>2, ConfigTypes DEF ConfigInv, Numbered
<1>4. fp \in Config!Config \cup {NoConfig}
  <2>1. fp # NoConfig => fp \in Entries /\ \A c \in NodeClients : fp[c] <= edited
    <3>1. fp # NoConfig => fp \in Entries /\ Within(fp, cfg) BY DEF ConfigInv, ConfigShape, Printed
    <3>2. \A c \in NodeClients : cfg[c] <= edited BY DEF ConfigInv, Numbered
    <3> QED BY <3>1, <3>2, ConfigTypes DEF Within, Entries
  <2> QED BY <2>1, <1>2
<1>5. dirty \in BOOLEAN /\ stamp \in 0..ConfigEdits BY <1>1 DEF ConfigInv, ConfigShape
<1>6. /\ \A e \in {"client", "inbound"} : editor[e].pc \in {"idle", "read", "push", "landed"}
      /\ job.pc \in {"idle", "read", "list", "push", "landed", "clear", "fetch", "merge", "adopt"}
  BY DEF ConfigInv, ConfigShape, EditRecord, JobRecord
<1>7. Config!TypeOK BY <1>3, <1>4, <1>5, <1>6 DEF Config!TypeOK, Config!Editors
<1>8. Config!NodeHasEdits
  BY ConfigTypes DEF ConfigInv, Clean, Config!NodeHasEdits, Config!Holds, Within, Entries
<1> QED BY <1>7, <1>8

\* The configuration of a managed node, for every number of clients, edits, failed requests and
\* restarts: a node that is not marked dirty has every edit of the panel (ClearNodeDirty), the
\* fingerprint is recorded and advanced only to what the node holds (recordPushedInbound,
\* RecordAdoptedInbound, AdvancePushedInbound), and no edit is undone by an older one
\* (rebaseClientSettings, setRemoteTrafficLocked).  Provided that no edit sends its client while
\* the job pushes the inbound: the run that allows it finds the fingerprint ahead of the node.
THEOREM EditsStaySound == ASSUME ~Overlap PROVE Spec => EditsSound
<1>1. Init => ConfigInv BY ConfigStarts DEF Init
<1>2. ConfigInv /\ [Next]_vars => ConfigInv'
  BY ConfigNext, ConfigStutters DEF Next, HubStep, BusStep, WriterStep, RadiusStep, ClockStep, ConfigStep, BanStep, vars
<1>3. ConfigInv /\ [Next]_vars => [Config!FingerprintStep /\ Config!EditsKeptStep]_vars
  <2>1. ASSUME ConfigInv, UNCHANGED configVars PROVE Config!FingerprintStep /\ Config!EditsKeptStep
    <3>1. cfg' = cfg /\ fp' = fp BY <2>1 DEF configVars
    <3>2. cfg \in Entries /\ cfg' \in Entries /\ Within(cfg, cfg')
      BY <3>1, <2>1, ConfigTypes DEF Within, Entries
    <3> QED BY <3>1, <3>2, ConfigStepSound
  <2> QED BY <2>1, ConfigNext DEF Next, HubStep, BusStep, WriterStep, RadiusStep, ClockStep, ConfigStep, BanStep, vars
<1>4. ConfigInv => Config!TypeOK /\ Config!NodeHasEdits BY ConfigSound
<1> QED BY <1>1, <1>2, <1>3, <1>4, PTL DEF Spec, EditsSound

-----------------------------------------------------------------------------
(* Bans                                                                    *)

\* A deadline that a row may have
Deadlines == 1..BanMaxTime + BanTime

\* The types; a row of a master is a ban, for it pushes no report.
BanShape ==
    /\ clock \in Nat /\ 1 <= clock /\ clock <= BanMaxTime
    /\ rows \in [Ban!Keys -> Ban!Row \cup {Ban!NoRow}]
    /\ \A k \in Ban!Keys : rows[k].kind = "shared" => rows[k].origin = "here"
    /\ own \in [Ban!Keys -> Nat] /\ \A k \in Ban!Keys : k[1] = "operator" => own[k] = 0
    /\ fw \in [Ban!Places -> Nat] /\ \A x \in Ban!Places : fw[x] <= 2 * BanMaxTime + BanTime - 1
    /\ applied \in [Ban!Places -> {0} \cup Deadlines] /\ primed \in BOOLEAN
    /\ step \in [Ban!Actors -> {"idle", "read", "write"}] /\ at \in [Ban!Actors -> Nat]
    /\ want \in [Ban!Actors -> [Ban!Places -> {0} \cup Deadlines]]

\* The row of a ban of this host's is of this host, so that no push may replace it.
OwnRows ==
    \A k \in Ban!Keys : own[k] > clock => rows[k].kind = "over" /\ rows[k].until = own[k] /\ rows[k].origin = "here"

\* An actor writes what had not lapsed when it began.
Begun(a) ==
    /\ step[a] # "idle" => 1 <= at[a] /\ at[a] <= clock
    /\ step[a] = "write" => \A x \in Ban!Places : want[a][x] # 0 => want[a][x] > at[a]

\* What the manager remembers is in the kernel, if anything later than it has to be.
Written ==
    primed => \A x \in Ban!Places : (applied[x] = 0 => fw[x] = 0) /\ applied[x] <= fw[x]

\* The inductive invariant
BanInv == BanShape /\ OwnRows /\ (\A a \in Ban!Actors : Begun(a)) /\ Written

\* The constants
LEMMA BanConstants ==
    /\ BanTime \in Nat /\ BanMaxTime \in Nat /\ BanMaxTime > 0 /\ MaxFails \in Nat /\ MaxFlushes \in Nat
    /\ BanMaxTime + BanTime \in Nat
BY BanParameters DEF Ban!BanAssumption

\* A row, or none
LEMMA RowFacts ==
    ASSUME NEW r \in Ban!Row \cup {Ban!NoRow}
    PROVE  /\ r.until \in Nat /\ (r = Ban!NoRow <=> r.until = 0) /\ (r # Ban!NoRow => r \in Ban!Row)
           /\ r = Ban!NoRow => r.kind = "none" /\ r.origin = "none"
BY BanConstants DEF Ban!Row, Ban!NoRow

\* A row that is made now
LEMMA RowIsNew ==
    ASSUME BanInv, NEW kind \in {"over", "shared", "operator"}, NEW origin \in {"here", "master"}
    PROVE  /\ Ban!NewRow(kind, origin) \in Ban!Row /\ Ban!NewRow(kind, origin).until = clock + BanTime
           /\ Ban!NewRow(kind, origin).kind = kind /\ Ban!NewRow(kind, origin).origin = origin
<1>1. clock + BanTime \in 1..BanMaxTime + BanTime BY BanConstants DEF BanInv, BanShape
<1> QED BY <1>1 DEF Ban!NewRow, Ban!Row

\* What is pruned had lapsed.
LEMMA PruneKeeps ==
    ASSUME BanInv, NEW now \in Nat, now <= clock
    PROVE  /\ Ban!Pruned(rows, now) \in [Ban!Keys -> Ban!Row \cup {Ban!NoRow}]
           /\ \A k \in Ban!Keys :
                /\ Ban!Pruned(rows, now)[k] = Ban!NoRow \/ (Ban!Pruned(rows, now)[k] = rows[k] /\ rows[k].until > now)
                /\ rows[k].until > clock => Ban!Pruned(rows, now)[k] = rows[k]
                /\ Ban!Pruned(rows, now)[k].kind = "shared" => Ban!Pruned(rows, now)[k].origin = "here"
<1>1. Ban!Pruned(rows, now) = [k \in Ban!Keys |-> IF rows[k].until <= now THEN Ban!NoRow ELSE rows[k]]
  BY DEF Ban!Pruned
<1>2. \A k \in Ban!Keys : rows[k] \in Ban!Row \cup {Ban!NoRow} /\ (rows[k].kind = "shared" => rows[k].origin = "here")
  BY DEF BanInv, BanShape
<1>3. \A k \in Ban!Keys : rows[k].until \in Nat BY <1>2, RowFacts
<1>4. clock \in Nat /\ Ban!NoRow.kind = "none" BY DEF BanInv, BanShape, Ban!NoRow
<1> QED BY <1>1, <1>2, <1>3, <1>4

\* Of the rows that were read, each place has the latest deadline, if it has any.
LEMMA EntriesSound ==
    ASSUME NEW rs \in [Ban!Keys -> Ban!Row \cup {Ban!NoRow}], NEW now \in Nat,
           \A k \in Ban!Keys : rs[k] # Ban!NoRow => rs[k].until > now
    PROVE  /\ Ban!Entries(rs) \in [Ban!Places -> {0} \cup Deadlines]
           /\ \A x \in Ban!Places : Ban!Entries(rs)[x] # 0 => Ban!Entries(rs)[x] > now
<1> DEFINE J(x) == {j \in Ban!Keys : rs[j] # Ban!NoRow /\ j[2] = x[1] /\ x[2] \in Ban!RowPorts(j, rs[j])}
           U(x) == {rs[k].until : k \in J(x)}
<1>1. Ban!Entries(rs) = [x \in Ban!Places |-> Ban!Deadline(U(x))] BY DEF Ban!Entries
<1>2. ASSUME NEW x \in Ban!Places
      PROVE  /\ Ban!Deadline(U(x)) \in {0} \cup Deadlines
             /\ Ban!Deadline(U(x)) # 0 => Ban!Deadline(U(x)) > now
  <2>1. \A k \in J(x) : rs[k] \in Ban!Row /\ rs[k].until > now BY RowFacts
  <2>2. \A k \in J(x) : rs[k].until \in Deadlines BY <2>1 DEF Ban!Row, Deadlines
  <2>3. \A u \in U(x) : u \in Deadlines /\ u > now BY <2>1, <2>2
  <2> DEFINE T == U(x)
  <2>4. \A u \in T : u \in Deadlines /\ u > now BY <2>3
  <2>5. Ban!Deadline(U(x)) = IF T = {} THEN 0 ELSE Max(T) BY DEF Ban!Deadline, Ban!Max, Max
  <2> HIDE DEF T, U, J
  <2>6. CASE T = {} BY <2>5, <2>6
  <2>7. CASE T # {}
    <3>1. T \in SUBSET Nat /\ \A u \in T : u <= BanMaxTime + BanTime BY <2>4, BanConstants DEF Deadlines
    <3>2. Max(T) \in T BY <2>7, <3>1, BanConstants, LargestNatural
    <3> QED BY <2>4, <2>5, <2>7, <3>2
  <2> QED BY <2>6, <2>7
<1> HIDE DEF U
<1> QED BY <1>1, <1>2

\* The rows are changed by an actor that begins with it.
LEMMA BanChanges ==
    ASSUME BanInv, NEW a \in Ban!Actors, Ban!Starts(a), UNCHANGED <<clock, fw, applied, primed, want>>,
           rows' \in [Ban!Keys -> Ban!Row \cup {Ban!NoRow}], own' \in [Ban!Keys -> Nat], OwnRows',
           \A k \in Ban!Keys : rows'[k].kind = "shared" => rows'[k].origin = "here",
           \A k \in Ban!Keys : k[1] = "operator" => own'[k] = 0
    PROVE  BanInv'
<1>1. step[a] = "idle" /\ step' = [step EXCEPT ![a] = "read"] /\ at' = [at EXCEPT ![a] = clock] BY DEF Ban!Starts
<1>2. clock \in Nat /\ 1 <= clock /\ step \in [Ban!Actors -> {"idle", "read", "write"}] /\ at \in [Ban!Actors -> Nat]
  BY DEF BanInv, BanShape
<1>3. /\ step' \in [Ban!Actors -> {"idle", "read", "write"}] /\ at' \in [Ban!Actors -> Nat]
      /\ step'[a] = "read" /\ at'[a] = clock
      /\ \A b \in Ban!Actors \ {a} : step'[b] = step[b] /\ at'[b] = at[b]
  BY <1>1, <1>2
<1>4. BanShape' BY <1>3 DEF BanInv, BanShape, Ban!Row, Ban!NoRow, Ban!Keys, Ban!Places, Ban!Actors, Ban!Operator, Deadlines
<1>5. ASSUME NEW b \in Ban!Actors PROVE Begun(b)'
  <2>1. CASE b = a BY <2>1, <1>2, <1>3 DEF Begun
  <2>2. CASE b # a
    <3>1. Begun(b) /\ step'[b] = step[b] /\ at'[b] = at[b] BY <2>2, <1>3 DEF BanInv
    <3> QED BY <3>1 DEF Begun, Ban!Places
  <2> QED BY <2>1, <2>2
<1>6. Written' BY DEF BanInv, Written, Ban!Places
<1> QED BY <1>4, <1>5, <1>6 DEF BanInv, Ban!Actors

\* The pass adds a ban, or turns a report into one.
LEMMA RecordBansKeeps ==
    ASSUME BanInv, ~SharedPush, NEW k \in Ban!Keys, NEW kind \in {"over", "shared"}, Ban!RecordBans(k, kind)
    PROVE  BanInv'
<1> DEFINE p == Ban!Pruned(rows, clock)
           r == p[k]
           q == Ban!Recorded(k, kind)
<1>1. /\ k[1] # "operator" /\ Ban!Starts("job") /\ rows' = [p EXCEPT ![k] = q]
      /\ own' = (IF kind = "over" /\ rows'[k] # p[k] THEN [own EXCEPT ![k] = clock + BanTime] ELSE own)
      /\ UNCHANGED <<clock, fw, applied, primed, want>>
  BY DEF Ban!RecordBans, Ban!Operator, Ban!kernelVars
<1>2. clock \in Nat /\ own \in [Ban!Keys -> Nat] BY DEF BanInv, BanShape
<1>3. /\ p \in [Ban!Keys -> Ban!Row \cup {Ban!NoRow}]
      /\ \A j \in Ban!Keys : /\ rows[j].until > clock => p[j] = rows[j]
                             /\ p[j].kind = "shared" => p[j].origin = "here"
  BY <1>2, PruneKeeps
<1>4. /\ r = Ban!NoRow => q = Ban!NewRow(kind, "here")
      /\ r # Ban!NoRow /\ r.kind = "shared" /\ kind = "over" => q = [r EXCEPT !.kind = kind, !.until = clock + BanTime]
      /\ r # Ban!NoRow /\ ~(r.kind = "shared" /\ kind = "over") => q = r
  BY DEF Ban!Recorded, Ban!NoRow
<1>5. r \in Ban!Row \cup {Ban!NoRow} /\ (r.kind = "shared" => r.origin = "here") BY <1>3
<1> HIDE DEF p, q
<1>6. /\ q \in Ban!Row \cup {Ban!NoRow} /\ (q.kind = "shared" => q.origin = "here")
      /\ q = r \/ (q.kind = kind /\ q.origin = "here" /\ q.until = clock + BanTime /\ (r = Ban!NoRow \/ r.kind # "over"))
  <2> HIDE DEF r
  <2>1. CASE r = Ban!NoRow
    <3>1. q = Ban!NewRow(kind, "here") BY <2>1, <1>4
    <3> QED BY <2>1, <3>1, RowIsNew
  <2>2. CASE r # Ban!NoRow /\ r.kind = "shared" /\ kind = "over"
    <3>1. q = [r EXCEPT !.kind = kind, !.until = clock + BanTime] BY <2>2, <1>4
    <3>2. r \in Ban!Row BY <2>2, <1>5
    <3>3. clock + BanTime \in 1..BanMaxTime + BanTime BY BanConstants DEF BanInv, BanShape
    <3>4. q \in Ban!Row /\ q.kind = "over" /\ q.until = clock + BanTime /\ q.origin = r.origin
      BY <2>2, <3>1, <3>2, <3>3 DEF Ban!Row
    <3> QED BY <2>2, <3>4, <1>5
  <2>3. CASE r # Ban!NoRow /\ ~(r.kind = "shared" /\ kind = "over")
    <3>1. q = r BY <2>3, <1>4
    <3> QED BY <3>1, <1>5
  <2> QED BY <2>1, <2>2, <2>3
<1>7. /\ rows' \in [Ban!Keys -> Ban!Row \cup {Ban!NoRow}] /\ rows'[k] = q
      /\ \A j \in Ban!Keys \ {k} : rows'[j] = p[j]
  BY <1>1, <1>3, <1>6
<1>8. /\ own' \in [Ban!Keys -> Nat] /\ \A j \in Ban!Keys \ {k} : own'[j] = own[j]
      /\ own'[k] = own[k] \/ (own'[k] = clock + BanTime /\ kind = "over" /\ q # r)
  <2> DEFINE n == clock + BanTime
  <2>1. n \in Nat /\ own' = IF kind = "over" /\ q # r THEN [own EXCEPT ![k] = n] ELSE own
    BY <1>1, <1>2, <1>7, BanConstants
  <2> HIDE DEF n
  <2>2. /\ own' \in [Ban!Keys -> Nat] /\ \A j \in Ban!Keys \ {k} : own'[j] = own[j]
        /\ own'[k] = own[k] \/ (own'[k] = n /\ kind = "over" /\ q # r)
    BY <2>1, <1>2
  <2> QED BY <2>2 DEF n
<1>9. ASSUME NEW j \in Ban!Keys, own[j] > clock PROVE p[j] = rows[j] /\ rows[j].kind = "over" /\ rows[j].until = own[j] /\ rows[j].origin = "here"
  BY <1>9, <1>3 DEF BanInv, OwnRows
<1>10. OwnRows'
  <2> SUFFICES ASSUME NEW j \in Ban!Keys, own'[j] > clock
               PROVE  rows'[j].kind = "over" /\ rows'[j].until = own'[j] /\ rows'[j].origin = "here"
    BY <1>1 DEF OwnRows, Ban!Keys
  <2>1. CASE j # k BY <2>1, <1>7, <1>8, <1>9
  <2>2. CASE j = k /\ own'[k] = own[k]
    <3>1. r = rows[k] /\ rows[k].kind = "over" /\ rows[k].until = own[k] /\ rows[k].origin = "here" BY <2>2, <1>9
    <3>2. r # Ban!NoRow BY <3>1 DEF Ban!NoRow
    <3>3. q = r BY <1>6, <3>1, <3>2
    <3> QED BY <2>2, <3>1, <3>3, <1>7
  <2>3. CASE j = k /\ own'[k] = clock + BanTime /\ kind = "over" /\ q # r
    BY <2>3, <1>6, <1>7
  <2> QED BY <2>1, <2>2, <2>3, <1>8
<1>11. \A j \in Ban!Keys : rows'[j].kind = "shared" => rows'[j].origin = "here"
  BY <1>3, <1>6, <1>7
<1>12. \A j \in Ban!Keys : j[1] = "operator" => own'[j] = 0
  BY <1>1, <1>8 DEF BanInv, BanShape
<1>13. "job" \in Ban!Actors BY DEF Ban!Actors
<1> QED BY <1>1, <1>7, <1>8, <1>10, <1>11, <1>12, <1>13, BanChanges

\* A pass with nothing to record
LEMMA QuietPassKeeps == ASSUME BanInv, Ban!QuietPass PROVE BanInv'
<1>1. Ban!Starts("job") /\ UNCHANGED <<clock, rows, own, fw, applied, primed, want>>
  BY DEF Ban!QuietPass, Ban!kernelVars
<1>2. "job" \in Ban!Actors BY DEF Ban!Actors
<1>3. OwnRows' BY <1>1 DEF BanInv, OwnRows, Ban!Keys
<1> QED BY <1>1, <1>2, <1>3, BanChanges DEF BanInv, BanShape, Ban!Row, Ban!NoRow

\* A release ends the ban and its row.
LEMMA ReleaseKeeps == ASSUME BanInv, NEW s \in BanSources, Ban!Release(s) PROVE BanInv'
<1>1. /\ Ban!Starts("operator") /\ rows' = [k \in Ban!Keys |-> IF k[2] = s THEN Ban!NoRow ELSE rows[k]]
      /\ own' = [k \in Ban!Keys |-> IF k[2] = s THEN 0 ELSE own[k]]
      /\ UNCHANGED <<clock, fw, applied, primed, want>>
  BY DEF Ban!Release, Ban!kernelVars
<1>2. "operator" \in Ban!Actors BY DEF Ban!Actors
<1>3. /\ clock \in Nat /\ own \in [Ban!Keys -> Nat] /\ rows \in [Ban!Keys -> Ban!Row \cup {Ban!NoRow}]
      /\ \A k \in Ban!Keys : rows[k].kind = "shared" => rows[k].origin = "here"
      /\ \A k \in Ban!Keys : k[1] = "operator" => own[k] = 0
      /\ 1 <= clock
  BY DEF BanInv, BanShape
<1>4. rows' \in [Ban!Keys -> Ban!Row \cup {Ban!NoRow}] /\ own' \in [Ban!Keys -> Nat] BY <1>1, <1>3
<1>5. \A k \in Ban!Keys : rows'[k].kind = "shared" => rows'[k].origin = "here" BY <1>1, <1>3 DEF Ban!NoRow
<1>6. \A k \in Ban!Keys : k[1] = "operator" => own'[k] = 0 BY <1>1, <1>3
<1>7. OwnRows'
  <2> SUFFICES ASSUME NEW k \in Ban!Keys, own'[k] > clock
               PROVE  rows'[k].kind = "over" /\ rows'[k].until = own'[k] /\ rows'[k].origin = "here"
    BY <1>1 DEF OwnRows, Ban!Keys
  <2>1. k[2] # s BY <1>1, <1>3
  <2> QED BY <2>1, <1>1 DEF BanInv, OwnRows
<1> QED BY <1>1, <1>2, <1>4, <1>5, <1>6, <1>7, BanChanges

\* The operator's ban has a row of its own.
LEMMA BanAddressKeeps == ASSUME BanInv, NEW s \in BanSources, Ban!BanAddress(s) PROVE BanInv'
<1> DEFINE k == <<"operator", s>>
           q == Ban!NewRow("operator", "here")
<1>1. /\ Ban!Starts("operator") /\ rows' = [rows EXCEPT ![k] = q]
      /\ UNCHANGED <<clock, own, fw, applied, primed, want>>
  BY DEF Ban!BanAddress, Ban!kernelVars, Ban!Operator
<1>2. "operator" \in Ban!Actors BY DEF Ban!Actors
<1>3. /\ clock \in Nat /\ 1 <= clock /\ own \in [Ban!Keys -> Nat] /\ rows \in [Ban!Keys -> Ban!Row \cup {Ban!NoRow}]
      /\ \A j \in Ban!Keys : rows[j].kind = "shared" => rows[j].origin = "here"
      /\ \A j \in Ban!Keys : j[1] = "operator" => own[j] = 0
  BY DEF BanInv, BanShape
<1>4. k \in Ban!Keys /\ k[1] = "operator" BY DEF Ban!Keys, Ban!Operator
<1>5. q \in Ban!Row /\ q.kind = "operator" BY RowIsNew
<1> HIDE DEF q, k
<1>6. /\ rows' \in [Ban!Keys -> Ban!Row \cup {Ban!NoRow}] /\ rows'[k] = q
      /\ \A j \in Ban!Keys \ {k} : rows'[j] = rows[j]
  BY <1>1, <1>3, <1>4, <1>5
<1>7. \A j \in Ban!Keys : rows'[j].kind = "shared" => rows'[j].origin = "here" BY <1>3, <1>5, <1>6
<1>8. OwnRows'
  <2> SUFFICES ASSUME NEW j \in Ban!Keys, own[j] > clock
               PROVE  rows'[j].kind = "over" /\ rows'[j].until = own[j] /\ rows'[j].origin = "here"
    BY <1>1 DEF OwnRows, Ban!Keys
  <2>1. j # k BY <1>3, <1>4
  <2> QED BY <2>1, <1>6 DEF BanInv, OwnRows
<1> QED BY <1>1, <1>2, <1>3, <1>6, <1>7, <1>8, BanChanges

\* A push touches only rows that are free or the master's.
LEMMA AcceptBansKeeps ==
    ASSUME BanInv, ~SharedPush, NEW hosts \in SUBSET (BanClients \X BanSources), NEW kind \in {"over", "shared"},
           Ban!AcceptBans(hosts, kind)
    PROVE  BanInv'
<1> DEFINE q == Ban!NewRow(kind, "master")
<1>1. /\ Ban!Starts("push") /\ kind = "over"
      /\ rows' = [k \in Ban!Keys |-> CASE k \in hosts /\ (rows[k] = Ban!NoRow \/ rows[k].origin = "master") -> q
                                       [] k \notin hosts /\ rows[k].origin = "master" -> Ban!NoRow
                                       [] OTHER -> rows[k]]
      /\ UNCHANGED <<clock, own, fw, applied, primed, want>>
  BY DEF Ban!AcceptBans, Ban!kernelVars, Ban!MayReplace
<1>2. "push" \in Ban!Actors BY DEF Ban!Actors
<1>3. /\ clock \in Nat /\ own \in [Ban!Keys -> Nat] /\ rows \in [Ban!Keys -> Ban!Row \cup {Ban!NoRow}]
      /\ \A j \in Ban!Keys : rows[j].kind = "shared" => rows[j].origin = "here"
      /\ \A j \in Ban!Keys : j[1] = "operator" => own[j] = 0
  BY DEF BanInv, BanShape
<1>4. q \in Ban!Row /\ q.kind = "over" BY <1>1, RowIsNew
<1> HIDE DEF q
<1>5. \A k \in Ban!Keys : \/ rows'[k] = rows[k]
                          \/ rows'[k] \in {q, Ban!NoRow} /\ (rows[k] = Ban!NoRow \/ rows[k].origin = "master")
  BY <1>1
<1>6. rows' \in [Ban!Keys -> Ban!Row \cup {Ban!NoRow}]
  <2>1. \A k \in Ban!Keys : rows'[k] \in Ban!Row \cup {Ban!NoRow} BY <1>3, <1>4, <1>5
  <2> QED BY <1>1, <2>1
<1>7. \A k \in Ban!Keys : rows'[k].kind = "shared" => rows'[k].origin = "here"
  BY <1>3, <1>4, <1>5 DEF Ban!NoRow
<1>8. OwnRows'
  <2> SUFFICES ASSUME NEW k \in Ban!Keys, own[k] > clock
               PROVE  rows'[k].kind = "over" /\ rows'[k].until = own[k] /\ rows'[k].origin = "here"
    BY <1>1 DEF OwnRows, Ban!Keys
  <2>1. rows[k].kind = "over" /\ rows[k].until = own[k] /\ rows[k].origin = "here" BY DEF BanInv, OwnRows
  <2>2. rows'[k] = rows[k] BY <2>1, <1>5 DEF Ban!NoRow
  <2> QED BY <2>1, <2>2
<1> QED BY <1>1, <1>2, <1>3, <1>6, <1>7, <1>8, BanChanges

\* What an actor reads had not lapsed when it began.
LEMMA BanReadKeeps == ASSUME BanInv, NEW a \in Ban!Actors, Ban!Read(a) PROVE BanInv'
<1> DEFINE p == Ban!Pruned(rows, at[a])
           n == Ban!Entries(p)
<1>1. /\ step[a] = "read" /\ step' = [step EXCEPT ![a] = "write"] /\ rows' = p /\ want' = [want EXCEPT ![a] = n]
      /\ UNCHANGED <<clock, fw, applied, primed, at, own>>
  BY DEF Ban!Read, Ban!kernelVars
<1>2. at[a] \in Nat /\ at[a] <= clock /\ 1 <= at[a] BY <1>1 DEF BanInv, BanShape, Begun
<1>3. /\ p \in [Ban!Keys -> Ban!Row \cup {Ban!NoRow}]
      /\ \A k \in Ban!Keys :
           /\ p[k] = Ban!NoRow \/ (p[k] = rows[k] /\ rows[k].until > at[a])
           /\ rows[k].until > clock => p[k] = rows[k]
           /\ p[k].kind = "shared" => p[k].origin = "here"
  BY <1>2, PruneKeeps
<1> HIDE DEF p
<1>4. /\ n \in [Ban!Places -> {0} \cup Deadlines] /\ \A x \in Ban!Places : n[x] # 0 => n[x] > at[a]
  BY <1>2, <1>3, EntriesSound
<1> HIDE DEF n
<1>5. /\ step' \in [Ban!Actors -> {"idle", "read", "write"}] /\ step'[a] = "write"
      /\ want' \in [Ban!Actors -> [Ban!Places -> {0} \cup Deadlines]] /\ want'[a] = n
      /\ \A b \in Ban!Actors \ {a} : step'[b] = step[b] /\ want'[b] = want[b]
  BY <1>1, <1>4 DEF BanInv, BanShape
<1>6. BanShape'
  BY <1>1, <1>3, <1>5 DEF BanInv, BanShape, Ban!Row, Ban!NoRow, Ban!Keys, Ban!Places, Ban!Actors, Ban!Operator, Deadlines
<1>7. OwnRows'
  <2> SUFFICES ASSUME NEW k \in Ban!Keys, own[k] > clock
               PROVE  p[k].kind = "over" /\ p[k].until = own[k] /\ p[k].origin = "here"
    BY <1>1 DEF OwnRows, Ban!Keys
  <2>1. rows[k].kind = "over" /\ rows[k].until = own[k] /\ rows[k].origin = "here" BY DEF BanInv, OwnRows
  <2> QED BY <2>1, <1>3
<1>8. ASSUME NEW b \in Ban!Actors PROVE Begun(b)'
  <2>1. CASE b = a BY <2>1, <1>1, <1>2, <1>4, <1>5 DEF Begun, Ban!Places
  <2>2. CASE b # a
    <3>1. Begun(b) /\ step'[b] = step[b] /\ want'[b] = want[b] BY <2>2, <1>5 DEF BanInv
    <3> QED BY <3>1, <1>1 DEF Begun, Ban!Places
  <2> QED BY <2>1, <2>2
<1>9. Written' BY <1>1 DEF BanInv, Written, Ban!Places
<1> QED BY <1>6, <1>7, <1>8, <1>9 DEF BanInv, Ban!Actors

\* The actors that have ended, and those that go on
LEMMA BanEndKeeps ==
    ASSUME BanInv, NEW a \in Ban!Actors, Ban!Ends(a), UNCHANGED clock
    PROVE  /\ step' \in [Ban!Actors -> {"idle", "read", "write"}] /\ at' \in [Ban!Actors -> Nat]
           /\ want' \in [Ban!Actors -> [Ban!Places -> {0} \cup Deadlines]]
           /\ \A b \in Ban!Actors : Begun(b)'
<1>1. /\ step' = [step EXCEPT ![a] = "idle"] /\ at' = [at EXCEPT ![a] = 0] /\ want' = [want EXCEPT ![a] = Ban!Nothing]
  BY DEF Ban!Ends
<1>2. Ban!Nothing \in [Ban!Places -> {0} \cup Deadlines] BY DEF Ban!Nothing
<1>3. /\ step' \in [Ban!Actors -> {"idle", "read", "write"}] /\ at' \in [Ban!Actors -> Nat]
      /\ want' \in [Ban!Actors -> [Ban!Places -> {0} \cup Deadlines]] /\ step'[a] = "idle"
      /\ \A b \in Ban!Actors \ {a} : step'[b] = step[b] /\ at'[b] = at[b] /\ want'[b] = want[b]
  BY <1>1, <1>2 DEF BanInv, BanShape
<1>4. ASSUME NEW b \in Ban!Actors PROVE Begun(b)'
  <2>1. CASE b = a BY <2>1, <1>3 DEF Begun
  <2>2. CASE b # a
    <3>1. Begun(b) /\ step'[b] = step[b] /\ at'[b] = at[b] /\ want'[b] = want[b] BY <2>2, <1>3 DEF BanInv
    <3> QED BY <3>1 DEF Begun, Ban!Places
  <2> QED BY <2>1, <2>2
<1> QED BY <1>3, <1>4

\* The timeout of an element, counted from when its actor began, is never short of its deadline.
LEMMA TimeoutsSound ==
    ASSUME BanInv, NEW a \in Ban!Actors, step[a] = "write"
    PROVE  /\ Ban!Timeouts(a) \in [Ban!Places -> Nat]
           /\ \A x \in Ban!Places :
                /\ Ban!Timeouts(a)[x] <= 2 * BanMaxTime + BanTime - 1 /\ want[a][x] <= Ban!Timeouts(a)[x]
                /\ want[a][x] = 0 => Ban!Timeouts(a)[x] = 0
                /\ want[a][x] # 0 => Ban!Timeouts(a)[x] > clock
<1>1. Ban!Timeouts(a) = [x \in Ban!Places |-> IF want[a][x] = 0 THEN 0 ELSE clock + want[a][x] - at[a]]
  BY DEF Ban!Timeouts
<1>2. /\ clock \in Nat /\ clock <= BanMaxTime /\ at[a] \in Nat /\ 1 <= at[a] /\ at[a] <= clock
      /\ \A x \in Ban!Places : want[a][x] \in {0} \cup Deadlines /\ (want[a][x] # 0 => want[a][x] > at[a])
  BY DEF BanInv, BanShape, Begun
<1>3. ASSUME NEW x \in Ban!Places
      PROVE  /\ Ban!Timeouts(a)[x] \in Nat
             /\ Ban!Timeouts(a)[x] <= 2 * BanMaxTime + BanTime - 1 /\ want[a][x] <= Ban!Timeouts(a)[x]
             /\ want[a][x] = 0 => Ban!Timeouts(a)[x] = 0
             /\ want[a][x] # 0 => Ban!Timeouts(a)[x] > clock
  <2>1. want[a][x] \in Nat /\ want[a][x] <= BanMaxTime + BanTime /\ (want[a][x] # 0 => want[a][x] > at[a])
    BY <1>2, BanConstants DEF Deadlines
  <2>2. Ban!Timeouts(a)[x] = IF want[a][x] = 0 THEN 0 ELSE clock + want[a][x] - at[a] BY <1>1
  <2> QED BY <1>2, <2>1, <2>2, BanConstants
<1> QED BY <1>1, <1>3

\* The kernel and the memory of it are written together, or not at all.
LEMMA ConvergeKeeps ==
    ASSUME BanInv, NEW a \in Ban!Actors, NEW done \in BOOLEAN, Ban!Converge(a, done) PROVE BanInv'
<1>1. /\ step[a] = "write" /\ Ban!Ends(a) /\ UNCHANGED <<clock, rows, own>> BY DEF Ban!Converge
<1>2. \/ UNCHANGED <<fw, applied, primed>>
      \/ fw' = Ban!Timeouts(a) /\ applied' = want[a] /\ primed' = TRUE
  BY DEF Ban!Converge, Ban!kernelVars, Ban!Remembered
<1>3. /\ step' \in [Ban!Actors -> {"idle", "read", "write"}] /\ at' \in [Ban!Actors -> Nat]
      /\ want' \in [Ban!Actors -> [Ban!Places -> {0} \cup Deadlines]]
      /\ \A b \in Ban!Actors : Begun(b)'
  BY <1>1, BanEndKeeps
<1>4. /\ fw' \in [Ban!Places -> Nat] /\ \A x \in Ban!Places : fw'[x] <= 2 * BanMaxTime + BanTime - 1
      /\ applied' \in [Ban!Places -> {0} \cup Deadlines] /\ primed' \in BOOLEAN /\ Written'
  <2>1. CASE UNCHANGED <<fw, applied, primed>>
    <3>1. Written' BY <2>1 DEF BanInv, Written, Ban!Places
    <3> QED BY <2>1, <3>1 DEF BanInv, BanShape
  <2>2. CASE fw' = Ban!Timeouts(a) /\ applied' = want[a] /\ primed' = TRUE
    <3>1. Written' BY <1>1, <2>2, TimeoutsSound DEF Written, Ban!Places
    <3>2. want[a] \in [Ban!Places -> {0} \cup Deadlines] BY DEF BanInv, BanShape
    <3> QED BY <1>1, <2>2, <3>1, <3>2, TimeoutsSound
  <2> QED BY <1>2, <2>1, <2>2
<1>5. BanShape'
  BY <1>1, <1>3, <1>4 DEF BanInv, BanShape, Ban!Row, Ban!NoRow, Ban!Keys, Ban!Places, Ban!Actors, Ban!Operator, Deadlines
<1>6. OwnRows' BY <1>1 DEF BanInv, OwnRows, Ban!Keys
<1> QED BY <1>3, <1>4, <1>5, <1>6 DEF BanInv, Ban!Actors

\* A new process has written nothing, and knows it.
LEMMA BanRestartsKeeps == ASSUME BanInv, Ban!PanelRestarts PROVE BanInv'
<1>1. /\ step' = [a \in Ban!Actors |-> "idle"] /\ at' = [a \in Ban!Actors |-> 0]
      /\ want' = [a \in Ban!Actors |-> Ban!Nothing] /\ applied' = Ban!Nothing /\ primed' = FALSE
      /\ UNCHANGED <<clock, rows, fw, own>>
  BY DEF Ban!PanelRestarts, Ban!Fresh
<1>2. Ban!Nothing \in [Ban!Places -> {0} \cup Deadlines] BY DEF Ban!Nothing
<1>3. /\ step' \in [Ban!Actors -> {"idle", "read", "write"}] /\ at' \in [Ban!Actors -> Nat]
      /\ want' \in [Ban!Actors -> [Ban!Places -> {0} \cup Deadlines]] /\ primed' \in BOOLEAN
      /\ applied' \in [Ban!Places -> {0} \cup Deadlines]
      /\ \A a \in Ban!Actors : step'[a] = "idle"
  BY <1>1, <1>2
<1>4. BanShape'
  BY <1>1, <1>3 DEF BanInv, BanShape, Ban!Row, Ban!NoRow, Ban!Keys, Ban!Places, Ban!Actors, Ban!Operator, Deadlines
<1>5. OwnRows' BY <1>1 DEF BanInv, OwnRows, Ban!Keys
<1>6. Written' /\ \A a \in Ban!Actors : Begun(a)' BY <1>1, <1>3 DEF Written, Begun
<1> QED BY <1>4, <1>5, <1>6 DEF BanInv, Ban!Actors

\* Time passes.
LEMMA BanTickKeeps == ASSUME BanInv, Ban!Tick PROVE BanInv'
<1>1. /\ clock < BanMaxTime /\ clock' = clock + 1 /\ UNCHANGED <<rows, own, fw, applied, primed, step, at, want>>
  BY DEF Ban!Tick, Ban!kernelVars, Ban!actorVars
<1>2. clock \in Nat /\ 1 <= clock /\ own \in [Ban!Keys -> Nat] /\ at \in [Ban!Actors -> Nat] BY DEF BanInv, BanShape
<1>3. clock' \in Nat /\ 1 <= clock' /\ clock' <= BanMaxTime /\ clock < clock' BY <1>1, <1>2, BanConstants
<1>4. BanShape'
  BY <1>1, <1>3 DEF BanInv, BanShape, Ban!Row, Ban!NoRow, Ban!Keys, Ban!Places, Ban!Actors, Ban!Operator, Deadlines
<1>5. OwnRows'
  <2> SUFFICES ASSUME NEW k \in Ban!Keys, own[k] > clock'
               PROVE  rows[k].kind = "over" /\ rows[k].until = own[k] /\ rows[k].origin = "here"
    BY <1>1 DEF OwnRows, Ban!Keys
  <2>1. own[k] > clock BY <1>2, <1>3
  <2> QED BY <2>1 DEF BanInv, OwnRows
<1>6. ASSUME NEW a \in Ban!Actors PROVE Begun(a)'
  <2>1. Begun(a) /\ at[a] \in Nat BY <1>2 DEF BanInv
  <2> QED BY <2>1, <1>1, <1>2, <1>3 DEF Begun, Ban!Places
<1>7. Written' BY <1>1 DEF BanInv, Written, Ban!Places
<1> QED BY <1>4, <1>5, <1>6, <1>7 DEF BanInv, Ban!Actors

\* The host begins with no bans.
LEMMA BanBegins == ASSUME Ban!Init PROVE BanInv
<1>1. /\ clock = 1 /\ rows = [k \in Ban!Keys |-> Ban!NoRow] /\ fw = Ban!Nothing /\ applied = Ban!Nothing
      /\ primed = FALSE /\ step = [a \in Ban!Actors |-> "idle"] /\ at = [a \in Ban!Actors |-> 0]
      /\ want = [a \in Ban!Actors |-> Ban!Nothing] /\ own = [k \in Ban!Keys |-> 0]
  BY DEF Ban!Init, Ban!Fresh
<1>2. /\ Ban!Nothing \in [Ban!Places -> {0} \cup Deadlines] /\ Ban!Nothing \in [Ban!Places -> Nat]
      /\ \A x \in Ban!Places : Ban!Nothing[x] = 0
  BY DEF Ban!Nothing
<1>3. clock \in Nat /\ 1 <= clock /\ clock <= BanMaxTime /\ 0 <= 2 * BanMaxTime + BanTime - 1 BY <1>1, BanConstants
<1>4. rows \in [Ban!Keys -> Ban!Row \cup {Ban!NoRow}] /\ \A k \in Ban!Keys : rows[k].kind = "none"
  BY <1>1 DEF Ban!NoRow
<1>5. own \in [Ban!Keys -> Nat] /\ \A k \in Ban!Keys : own[k] = 0 BY <1>1
<1>6. /\ fw \in [Ban!Places -> Nat] /\ \A x \in Ban!Places : fw[x] <= 2 * BanMaxTime + BanTime - 1
  BY <1>1, <1>2, <1>3
<1>7. primed \in BOOLEAN BY <1>1
<1>8. BanShape BY <1>1, <1>2, <1>3, <1>4, <1>5, <1>6, <1>7 DEF BanShape
<1>9. OwnRows BY <1>1, <1>5 DEF OwnRows
<1>10. Written /\ \A a \in Ban!Actors : Begun(a) BY <1>1 DEF Written, Begun
<1> QED BY <1>8, <1>9, <1>10 DEF BanInv

\* The steps of the others
LEMMA BanStutters == ASSUME BanInv, UNCHANGED banVars PROVE BanInv'
<1>1. UNCHANGED <<clock, rows, fw, applied, primed, step, at, want, own>> BY DEF banVars
<1>2. BanShape'
  BY <1>1 DEF BanInv, BanShape, Ban!Row, Ban!NoRow, Ban!Keys, Ban!Places, Ban!Actors, Ban!Operator, Deadlines
<1>3. OwnRows' /\ Written' BY <1>1 DEF BanInv, OwnRows, Written, Ban!Keys, Ban!Places
<1>4. \A a \in Ban!Actors : Begun(a)' BY <1>1 DEF BanInv, Begun, Ban!Places
<1> QED BY <1>2, <1>3, <1>4 DEF BanInv, Ban!Actors

\* Every step of the component
LEMMA BanNext == ASSUME BanInv, ~SharedPush, MaxFlushes = 0, flushes \in Nat, Ban!Next PROVE BanInv' /\ flushes' \in Nat
<1>1. ASSUME NEW k \in Ban!Keys, NEW kind \in {"over", "shared"}, Ban!RecordBans(k, kind) PROVE BanInv' /\ flushes' = flushes
  <2>1. flushes' = flushes BY <1>1 DEF Ban!RecordBans
  <2> QED BY <1>1, <2>1, RecordBansKeeps
<1>2. ASSUME NEW s \in BanSources, Ban!Release(s) PROVE BanInv' /\ flushes' = flushes
  <2>1. flushes' = flushes BY <1>2 DEF Ban!Release
  <2> QED BY <1>2, <2>1, ReleaseKeeps
<1>3. ASSUME NEW s \in BanSources, Ban!BanAddress(s) PROVE BanInv' /\ flushes' = flushes
  <2>1. flushes' = flushes BY <1>3 DEF Ban!BanAddress
  <2> QED BY <1>3, <2>1, BanAddressKeeps
<1>4. ASSUME NEW hosts \in SUBSET (BanClients \X BanSources), NEW kind \in {"over", "shared"}, Ban!AcceptBans(hosts, kind)
      PROVE  BanInv' /\ flushes' = flushes
  <2>1. flushes' = flushes BY <1>4 DEF Ban!AcceptBans
  <2> QED BY <1>4, <2>1, AcceptBansKeeps
<1>5. ASSUME NEW a \in Ban!Actors, Ban!Read(a) PROVE BanInv' /\ flushes' = flushes
  <2>1. flushes' = flushes BY <1>5 DEF Ban!Read, Ban!counters
  <2> QED BY <1>5, <2>1, BanReadKeeps
<1>6. ASSUME NEW a \in Ban!Actors, NEW done \in BOOLEAN, Ban!Converge(a, done) PROVE BanInv' /\ flushes' = flushes
  <2>1. flushes' = flushes BY <1>6 DEF Ban!Converge
  <2> QED BY <1>6, <2>1, ConvergeKeeps
<1>7. CASE Ban!QuietPass
  <2>1. flushes' = flushes BY <1>7 DEF Ban!QuietPass, Ban!counters
  <2> QED BY <1>7, <2>1, QuietPassKeeps
<1>8. CASE Ban!PanelRestarts
  <2>1. flushes' = flushes BY <1>8 DEF Ban!PanelRestarts
  <2> QED BY <1>8, <2>1, BanRestartsKeeps
<1>9. CASE Ban!Tick
  <2>1. flushes' = flushes BY <1>9 DEF Ban!Tick, Ban!counters
  <2> QED BY <1>9, <2>1, BanTickKeeps
<1>10. ~Ban!Flush BY DEF Ban!Flush
<1>11. CASE \E k \in Ban!Keys, kind \in {"over", "shared"} : Ban!RecordBans(k, kind) BY <1>1, <1>11
<1>12. CASE \E s \in BanSources : Ban!Release(s) \/ Ban!BanAddress(s) BY <1>2, <1>3, <1>12
<1>13. CASE \E hosts \in {P \in SUBSET (BanClients \X BanSources) : Ban!Cardinality(P) <= 1}, kind \in {"over", "shared"} :
              Ban!AcceptBans(hosts, kind)
  BY <1>4, <1>13
<1>14. CASE \E a \in Ban!Actors : Ban!Read(a) \/ \E done \in BOOLEAN : Ban!Converge(a, done) BY <1>5, <1>6, <1>14
<1> QED BY <1>7, <1>8, <1>9, <1>10, <1>11, <1>12, <1>13, <1>14 DEF Ban!Next

\* A write that is skipped would have changed nothing.
LEMMA BanProjects == ASSUME BanInv PROVE Ban!Projected
<1> SUFFICES ASSUME NEW a \in Ban!Actors, Ban!Converge(a, TRUE), NEW x \in Ban!Places
             PROVE  (want[a][x] > clock => fw'[x] > clock) /\ (want[a][x] = 0 => fw'[x] <= clock)
  BY DEF Ban!Projected
<1>1. step[a] = "write" BY DEF Ban!Converge
<1>2. \/ primed /\ applied = want[a] /\ fw' = fw
      \/ fw' = Ban!Timeouts(a)
  BY DEF Ban!Converge, Ban!kernelVars
<1>3. clock \in Nat /\ want[a][x] \in Nat /\ fw[x] \in Nat
  BY BanConstants DEF BanInv, BanShape, Deadlines
<1>4. CASE primed /\ applied = want[a] /\ fw' = fw
  <2>1. (applied[x] = 0 => fw[x] = 0) /\ applied[x] <= fw[x] BY <1>4 DEF BanInv, Written
  <2> QED BY <1>3, <1>4, <2>1
<1>5. CASE fw' = Ban!Timeouts(a)
  BY <1>1, <1>3, <1>5, TimeoutsSound
<1> QED BY <1>2, <1>4, <1>5

\* What the invariant is for
LEMMA BanSound == ASSUME BanInv PROVE Ban!TypeOK /\ Ban!OwnBanHolds
<1>1. Ban!OwnBanHolds BY DEF BanInv, OwnRows, Ban!OwnBanHolds
<1>2. clock \in 1..BanMaxTime BY BanConstants DEF BanInv, BanShape
<1>3. fw \in [Ban!Places -> 0..2 * BanMaxTime + BanTime - 1]
  <2>1. \A x \in Ban!Places : fw[x] \in 0..2 * BanMaxTime + BanTime - 1 BY BanConstants DEF BanInv, BanShape
  <2> QED BY <2>1 DEF BanInv, BanShape
<1>4. applied \in [Ban!Places -> 0..BanMaxTime + BanTime]
  <2>1. {0} \cup Deadlines = 0..BanMaxTime + BanTime BY BanConstants DEF Deadlines
  <2> QED BY <2>1 DEF BanInv, BanShape
<1>5. Ban!TypeOK BY <1>2, <1>3, <1>4 DEF Ban!TypeOK, BanInv, BanShape
<1> QED BY <1>1, <1>5

\* Bans, for every number of clients, sources, ports and actors at work at once, whichever writes
\* of the firewall fail and whenever the panel is restarted: a ban that this host decided holds
\* until its deadline or the operator's release, whatever a master pushes (RecordBans, AcceptBans,
\* pruneExpiredBans), and a Manager.Converge that reports success has left the firewall with what
\* it was given, the writes that it skips included.  A master pushes bans and no reports, and
\* nobody else empties the firewall.
THEOREM BansStay == ASSUME ~SharedPush, MaxFlushes = 0 PROVE Spec => BansHold
<1> DEFINE Inv == BanInv /\ flushes \in Nat
<1>1. Init => Inv
  <2>1. Ban!Init => flushes \in Nat BY DEF Ban!Init
  <2> QED BY <2>1, BanBegins DEF Init
<1>2. Inv /\ [Next]_vars => Inv'
  <2>1. UNCHANGED banVars => flushes' = flushes BY DEF banVars
  <2> QED BY <2>1, BanNext, BanStutters
          DEF Next, HubStep, BusStep, WriterStep, RadiusStep, ClockStep, ConfigStep, BanStep, vars
<1>3. Inv => [Ban!Projected]_vars BY BanProjects
<1>4. Inv => Ban!TypeOK /\ Ban!OwnBanHolds BY BanSound
<1> QED BY <1>1, <1>2, <1>3, <1>4, PTL DEF Spec, BansHold
=============================================================================
