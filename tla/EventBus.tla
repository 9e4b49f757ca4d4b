----------------------------- MODULE EventBus -----------------------------
(***************************************************************************)
(* The event bus: producers publish without waiting, a dispatcher hands    *)
(* every event to the queue of every subscriber, and each subscriber has a *)
(* worker that calls its handler.  Queues are bounded and drop, handlers   *)
(* may take long, subscribers come, go and replace one another, and the    *)
(* bus is stopped.  Go's select takes any ready case.                      *)
(***************************************************************************)
EXTENDS Integers, Sequences, FiniteSets

CONSTANTS
    Ids,          \* ids of subscribers
    MaxSubs,      \* subscriptions
    MaxEvents,    \* events published
    BufferSize,   \* of the bus
    QueueSize,    \* subscriberQueueSize
    SlowIds       \* ids whose handlers may never return

BusAssumption ==
    /\ {MaxSubs, MaxEvents} \subseteq Nat /\ {BufferSize, QueueSize} \subseteq Nat \ {0}
    /\ SlowIds \subseteq Ids

VARIABLES
    ch,         \* the buffer, events numbered as published
    published,  \* events published
    subs,       \* the subscribers, by number
    sub,        \* per number, id, queue, whether quit is closed, and where its worker is
    used,       \* subscribers made
    handled,    \* per id, the events its handlers were called with
    missed,     \* per id, the events dropped on a full queue
    stop,       \* no, marked (stopped is set), closed (done is closed), returned
    dispatcher  \* running, or exited

vars == <<ch, published, subs, sub, used, handled, missed, stop, dispatcher>>

Numbers == 1..MaxSubs
NoSub == [id |-> "none", queue |-> <<>>, quit |-> FALSE, at |-> "none", event |-> 0]

Init ==
    /\ ch = <<>> /\ published = 0 /\ subs = {} /\ used = 0
    /\ sub = [n \in Numbers |-> NoSub]
    /\ handled = [i \in Ids |-> <<>>] /\ missed = [i \in Ids |-> {}]
    /\ stop = "no" /\ dispatcher = "running"

Done == stop \in {"closed", "returned"}
Named(id) == {n \in subs : sub[n].id = id}

-----------------------------------------------------------------------------
\* Publish drops on a full buffer.
Publish ==
    /\ published < MaxEvents /\ published' = published + 1
    /\ ch' = IF Len(ch) < BufferSize THEN Append(ch, published + 1) ELSE ch
    /\ UNCHANGED <<subs, sub, used, handled, missed, stop, dispatcher>>

\* Mutant: the previous subscriber of the id is told to quit, but stays in the list.
RemainingStopped(id) == subs

\* The subscribers that Subscribe and Unsubscribe leave
Remaining(id) == subs \ Named(id)

\* Mutant: a stopped bus takes subscribers.
MaySubscribeAlways == TRUE

MaySubscribe == stop = "no"

Subscribe(id) ==
    /\ used < MaxSubs /\ MaySubscribe
    /\ used' = used + 1 /\ subs' = Remaining(id) \cup {used + 1}
    /\ sub' = [n \in Numbers |->
                 IF n = used + 1 THEN [NoSub EXCEPT !.id = id, !.at = "waiting"]
                 ELSE IF n \in Named(id) THEN [sub[n] EXCEPT !.quit = TRUE] ELSE sub[n]]
    /\ UNCHANGED <<ch, published, handled, missed, stop, dispatcher>>

Unsubscribe(id) ==
    /\ Named(id) # {}
    /\ subs' = Remaining(id)
    /\ sub' = [n \in Numbers |-> IF n \in Named(id) THEN [sub[n] EXCEPT !.quit = TRUE] ELSE sub[n]]
    /\ UNCHANGED <<ch, published, used, handled, missed, stop, dispatcher>>

\* Mutant: the dispatcher waits for the handlers.
MayDispatchInTurn == \A n \in subs : sub[n].at # "handling"

\* The sends of the dispatcher do not block.
MayDispatch == TRUE

\* Mutant: the newest event comes first.
QueuedFirst(q, e) == <<e>> \o q

Queued(q, e) == Append(q, e)

\* Mutant: a queue is taken to have room for one more.
FullLate == {n \in subs : Len(sub[n].queue) > QueueSize}

\* Subscribers that drop the event
Full == {n \in subs : Len(sub[n].queue) = QueueSize}

\* One round of dispatch, under the read lock
Dispatch ==
    LET e == Head(ch)
        full == Full
    IN  /\ dispatcher = "running" /\ ch # <<>> /\ MayDispatch
        /\ ch' = Tail(ch)
        /\ sub' = [n \in Numbers |->
                     IF n \in subs \ full THEN [sub[n] EXCEPT !.queue = Queued(@, e)] ELSE sub[n]]
        /\ missed' = [i \in Ids |-> IF full \cap Named(i) # {} THEN missed[i] \cup {e} ELSE missed[i]]
        /\ UNCHANGED <<published, subs, used, handled, stop, dispatcher>>

DispatchEnds ==
    /\ dispatcher = "running" /\ Done /\ dispatcher' = "exited"
    /\ UNCHANGED <<ch, published, subs, sub, used, handled, missed, stop>>

\* runWorker takes an event, although quit or done may be closed as well, and calls the handler.
Take(n) ==
    /\ sub[n].at = "waiting" /\ sub[n].queue # <<>>
    /\ LET q == sub[n].queue IN
       /\ sub' = [sub EXCEPT ![n] = [@ EXCEPT !.queue = Tail(q), !.at = "handling", !.event = Head(q)]]
       /\ handled' = [handled EXCEPT ![sub[n].id] = Append(@, Head(q))]
    /\ UNCHANGED <<ch, published, subs, used, missed, stop, dispatcher>>

\* The handler returns, or panics and is recovered.
Return(n) ==
    /\ sub[n].at = "handling"
    /\ sub' = [sub EXCEPT ![n].at = "waiting", ![n].event = 0]
    /\ UNCHANGED <<ch, published, subs, used, handled, missed, stop, dispatcher>>

\* Mutant: a worker ends with its subscription only.
MayEndUnsubscribed(n) == sub[n].quit

MayEnd(n) == sub[n].quit \/ Done

WorkerEnds(n) ==
    /\ sub[n].at = "waiting" /\ MayEnd(n)
    /\ sub' = [sub EXCEPT ![n].at = "exited"]
    /\ UNCHANGED <<ch, published, subs, used, handled, missed, stop, dispatcher>>

\* Stop: stopped is set under the lock, done is closed, and everyone is waited for.
StopMarks ==
    /\ stop = "no" /\ stop' = "marked"
    /\ UNCHANGED <<ch, published, subs, sub, used, handled, missed, dispatcher>>

StopCloses ==
    /\ stop = "marked" /\ stop' = "closed"
    /\ UNCHANGED <<ch, published, subs, sub, used, handled, missed, dispatcher>>

StopReturns ==
    /\ stop = "closed" /\ dispatcher = "exited"
    /\ \A n \in Numbers : sub[n].at \in {"none", "exited"}
    /\ stop' = "returned"
    /\ UNCHANGED <<ch, published, subs, sub, used, handled, missed, dispatcher>>

-----------------------------------------------------------------------------
Next ==
    \/ Publish \/ Dispatch \/ DispatchEnds \/ StopMarks \/ StopCloses \/ StopReturns
    \/ \E id \in Ids : Subscribe(id) \/ Unsubscribe(id)
    \/ \E n \in Numbers : Take(n) \/ Return(n) \/ WorkerEnds(n)

Spec == Init /\ [][Next]_vars

\* Goroutines run; only the handlers of SlowIds may never return.
Fairness ==
    /\ WF_vars(Dispatch) /\ WF_vars(DispatchEnds) /\ WF_vars(StopCloses) /\ WF_vars(StopReturns)
    /\ \A n \in Numbers :
          WF_vars(Take(n)) /\ WF_vars(WorkerEnds(n)) /\ WF_vars(sub[n].id \notin SlowIds /\ Return(n))

FairSpec == Spec /\ Fairness

-----------------------------------------------------------------------------
(* Properties                                                              *)

TypeOK ==
    /\ Len(ch) <= BufferSize /\ subs \subseteq 1..used /\ used \in 0..MaxSubs
    /\ \A n \in Numbers : Len(sub[n].queue) <= QueueSize /\ sub[n].at \in {"none", "waiting", "handling", "exited"}
    /\ stop \in {"no", "marked", "closed", "returned"}

\* Whatever comes, goes and is replaced, an id's handlers are called with an event at most once:
\* a subscriber that replaces another does not handle what the other one has got.
HandledOnce ==
    \A i \in Ids : \A j, k \in 1..Len(handled[i]) : handled[i][j] = handled[i][k] => j = k

\* A subscriber observes the events in the order of their publication.
InOrder == \A n \in Numbers : \A i \in 1..Len(sub[n].queue) : sub[n].queue[i] > sub[n].event

\* Once Stop has returned no handler runs and none will.
StoppedQuiet == stop = "returned" => \A n \in Numbers : sub[n].at \in {"none", "exited"}

\* A subscriber whose handler hangs does not keep an event from the others: what is in the buffer
\* is handled by every id that has a subscriber, unless its own queue was full or it is replaced.
NotStalled ==
    \A i \in Ids \ SlowIds, e \in 1..MaxEvents :
        (Named(i) # {} /\ \E k \in 1..Len(ch) : ch[k] = e)
            ~> (\/ \E k \in 1..Len(handled[i]) : handled[i][k] = e
                \/ e \in missed[i] \/ stop # "no" \/ \E n \in Numbers : sub[n].id = i /\ sub[n].quit)

\* Stop returns when no handler hangs.
StopEnds == (stop = "marked") ~> (stop = "returned" \/ \E n \in Numbers : sub[n].at = "handling" /\ sub[n].id \in SlowIds)
=============================================================================
