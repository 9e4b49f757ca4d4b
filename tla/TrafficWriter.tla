--------------------------- MODULE TrafficWriter ---------------------------
(***************************************************************************)
(* The serial traffic writer of the panel: a goroutine with a bounded      *)
(* queue that runs the writes of everybody else one after the other, and   *)
(* is stopped and started again when the panel restarts.  A submitter      *)
(* holds the mutex while it waits for room in the queue, and runs its      *)
(* write itself when there is no writer.                                   *)
(***************************************************************************)
EXTENDS Integers, Sequences, FiniteSets

CONSTANTS
    Callers,      \* goroutines that submit writes
    MaxWrites,    \* writes of each caller
    MaxStarts,    \* times the writer is started
    QueueSize     \* trafficWriterQueueSize

WriterAssumption ==
    /\ MaxWrites \in Nat /\ {MaxStarts, QueueSize} \subseteq Nat \ {0} /\ "nobody" \notin Callers

VARIABLES
    mu,       \* holder of twMu, when it is held for more than a step
    gen,      \* the writer in twQueue, twCtx and twDone, 0 when they are nil
    writer,   \* per writer, its queue, what it runs, its context and its done channel
    started,  \* writers started
    server,   \* running, stopping (waits for done), or down
    caller,   \* where each caller is, and the writer it handed its write to
    written,  \* per caller, how often each of its writes was carried out
    answered  \* per caller, the answers it got

vars == <<mu, gen, writer, started, server, caller, written, answered>>

Nobody == "nobody"
Writes == 1..MaxWrites
NoWriter == [queue |-> <<>>, runs |-> Nobody, cancelled |-> FALSE, done |-> FALSE]
Rest == [at |-> "idle", to |-> 0]

Init ==
    /\ mu = Nobody /\ gen = 1 /\ started = 1 /\ server = "running"
    /\ writer = [g \in 1..MaxStarts |-> NoWriter]
    /\ caller = [c \in Callers |-> Rest]
    /\ written = [c \in Callers |-> [w \in Writes |-> 0]]
    /\ answered = [c \in Callers |-> <<>>]

Current(c) == Len(answered[c]) + 1
Answer(c, a) ==
    answered' = [answered EXCEPT ![c] = Append(@, a)] /\ caller' = [caller EXCEPT ![c] = Rest]
Perform(c) == written' = [written EXCEPT ![c][Current(c)] = @ + 1]

-----------------------------------------------------------------------------
\* StartTrafficWriter
Start ==
    /\ server = "down" /\ mu = Nobody /\ started < MaxStarts
    /\ started' = started + 1 /\ gen' = started + 1 /\ server' = "running"
    /\ UNCHANGED <<mu, writer, caller, written, answered>>

\* Mutant: the context is not cancelled.
CancelForgotten == FALSE

\* cancel()
Cancel == TRUE

\* StopTrafficWriter, up to the wait for the goroutine
StopCancels ==
    /\ server = "running" /\ mu = Nobody
    /\ writer' = [writer EXCEPT ![gen].cancelled = Cancel] /\ server' = "stopping"
    /\ UNCHANGED <<mu, gen, started, caller, written, answered>>

StopEnds ==
    /\ server = "stopping" /\ writer[gen].done /\ mu = Nobody
    /\ gen' = 0 /\ server' = "down"
    /\ UNCHANGED <<mu, writer, started, caller, written, answered>>

-----------------------------------------------------------------------------
\* The writer cannot be used.
Down == gen # 0 => writer[gen].cancelled

Enqueue(c) ==
    /\ writer' = [writer EXCEPT ![gen].queue = Append(@, c)]
    /\ caller' = [caller EXCEPT ![c] = [at |-> "waiting", to |-> gen]]

\* submitTrafficWrite, under the mutex: run it here, put it into the queue, or wait for room.
Submit(c) ==
    /\ caller[c].at = "idle" /\ Current(c) \in Writes /\ mu = Nobody
    /\ \/ /\ Down /\ caller' = [caller EXCEPT ![c].at = "inline"] /\ UNCHANGED <<mu, writer>>
       \/ /\ ~Down /\ Len(writer[gen].queue) < QueueSize /\ Enqueue(c) /\ UNCHANGED mu
       \/ /\ ~Down /\ Len(writer[gen].queue) = QueueSize /\ mu' = c
          /\ caller' = [caller EXCEPT ![c].at = "blocked"] /\ UNCHANGED writer
    /\ UNCHANGED <<gen, started, server, written, answered>>

Sends(c) ==
    /\ caller[c].at = "blocked" /\ Len(writer[gen].queue) < QueueSize
    /\ Enqueue(c) /\ mu' = Nobody
    /\ UNCHANGED <<gen, started, server, written, answered>>

\* Mutant: the mutex is kept when the queue is full for too long.
ReleasedNever == mu

Released == Nobody

TimesOut(c) ==
    /\ caller[c].at = "blocked" /\ Answer(c, "full") /\ mu' = Released
    /\ UNCHANGED <<gen, writer, started, server, written>>

RunsInline(c) ==
    /\ caller[c].at = "inline" /\ Perform(c) /\ Answer(c, "ok")
    /\ UNCHANGED <<mu, gen, writer, started, server>>

\* Mutant: when done is closed, the answer is not looked for once more.
HeardOnce(c) == IF writer[caller[c].to].done THEN "stopped" ELSE "ok"

Heard(c) == IF written[c][Current(c)] > 0 THEN "ok" ELSE "stopped"

\* The answer is in the channel of the request; it is looked for once more when done is closed.
Hears(c) ==
    /\ caller[c].at = "waiting"
    /\ written[c][Current(c)] = 0 => writer[caller[c].to].done
    /\ Answer(c, Heard(c))
    /\ UNCHANGED <<mu, gen, writer, started, server, written>>

-----------------------------------------------------------------------------
\* Mutant: a cancelled writer waits for an empty queue, and takes nothing from it.
MayTakeRunning(g) == ~writer[g].cancelled

MayTake(g) == ~writer[g].done

\* runTrafficWriter takes a request, before and after the context is cancelled.
Takes(g) ==
    /\ g <= started /\ writer[g].runs = Nobody /\ writer[g].queue # <<>> /\ MayTake(g)
    /\ LET q == writer[g].queue IN
       writer' = [writer EXCEPT ![g] = [@ EXCEPT !.queue = Tail(q), !.runs = Head(q)]]
    /\ UNCHANGED <<mu, gen, started, server, caller, written, answered>>

Finishes(g) ==
    /\ writer[g].runs # Nobody
    /\ Perform(writer[g].runs) /\ writer' = [writer EXCEPT ![g].runs = Nobody]
    /\ UNCHANGED <<mu, gen, started, server, caller, answered>>

\* Mutant: a cancelled writer ends at once.
DrainedAlways(g) == TRUE

\* The loop after the context is cancelled
Drained(g) == writer[g].queue = <<>>

Ends(g) ==
    /\ writer[g].cancelled /\ writer[g].runs = Nobody /\ ~writer[g].done /\ Drained(g)
    /\ writer' = [writer EXCEPT ![g].done = TRUE]
    /\ UNCHANGED <<mu, gen, started, server, caller, written, answered>>

Next ==
    \/ Start \/ StopCancels \/ StopEnds
    \/ \E c \in Callers : Submit(c) \/ Sends(c) \/ TimesOut(c) \/ RunsInline(c) \/ Hears(c)
    \/ \E g \in 1..MaxStarts : Takes(g) \/ Finishes(g) \/ Ends(g)

Spec == Init /\ [][Next]_vars

\* Goroutines run and writes end; nobody has to submit, start or stop.
FairSpec ==
    /\ Spec /\ SF_vars(StopEnds)
    /\ \A c \in Callers : WF_vars(TimesOut(c)) /\ WF_vars(RunsInline(c)) /\ WF_vars(Hears(c))
    /\ \A g \in 1..MaxStarts : WF_vars(Takes(g)) /\ WF_vars(Finishes(g)) /\ WF_vars(Ends(g))

-----------------------------------------------------------------------------
\* Types of the state
TypeOK ==
    /\ mu \in Callers \cup {Nobody} /\ gen \in 0..started /\ started \in 0..MaxStarts
    /\ server \in {"running", "stopping", "down"}
    /\ \A g \in 1..MaxStarts :
          /\ writer[g].queue \in Seq(Callers) /\ Len(writer[g].queue) <= QueueSize
          /\ writer[g].runs \in Callers \cup {Nobody} /\ {writer[g].cancelled, writer[g].done} \subseteq BOOLEAN
    /\ caller \in [Callers -> [at : {"idle", "blocked", "waiting", "inline"}, to : 0..MaxStarts]]
    /\ \A c \in Callers : (mu = c) = (caller[c].at = "blocked")

\* An answer is the truth whatever stop and start it met: a write that was reported done has been
\* carried out exactly once, and one that was refused, for a full queue or a stopped writer, never.
AnswersTrue ==
    \A c \in Callers : \A w \in 1..Len(answered[c]) :
        written[c][w] = IF answered[c][w] = "ok" THEN 1 ELSE 0

\* StopTrafficWriter drains what was queued: nobody is told that the writer stopped before his
\* write (traffic_writer.go:66).
DrainsAll == \A c \in Callers : \A w \in 1..Len(answered[c]) : answered[c][w] # "stopped"

\* No caller hangs, as all of them did with the once-only start (traffic_writer.go:36).
Answered == \A c \in Callers : caller[c].at # "idle" ~> caller[c].at = "idle"

\* A stop returns, although callers may hold the mutex.
StopReturns == server = "stopping" ~> server = "down"

Running ==
    {c \in Callers : caller[c].at = "inline" \/ \E g \in 1..MaxStarts : writer[g].runs = c}

\* Writes never run at the same time (traffic_writer.go:114-121).
OneAtATime == Cardinality(Running) <= 1
=============================================================================
