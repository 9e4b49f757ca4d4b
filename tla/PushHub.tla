------------------------------ MODULE PushHub ------------------------------
(***************************************************************************)
(* The hub that pushes changes to the open browser sessions.  Handlers     *)
(* save, read what they push and broadcast it; one goroutine registers     *)
(* and removes clients and fans messages out; every connection has pumps   *)
(* of its own.  Queues are bounded, a slow client is cut off, the hub's    *)
(* loop may panic and is restarted a few times.                            *)
(* A message is the version of the list it carries; an invalidate makes    *)
(* the browser fetch the current one.                                      *)
(***************************************************************************)
EXTENDS Integers, Sequences, FiniteSets

CONSTANTS
    Clients,     \* connections
    Handlers,    \* request handlers that change the list
    MaxVersion,  \* changes
    OpsQueue,    \* hubOpsQueue
    BroadcastQueue, \* hubBroadcastQueue
    SendQueue,   \* clientSendQueue
    Attempts,    \* hubRestartAttempts
    MaxPanics,   \* panics of the loop
    Stoppable    \* the hub may be stopped

HubAssumption ==
    /\ {MaxVersion, MaxPanics} \subseteq Nat /\ Stoppable \in BOOLEAN
    /\ {OpsQueue, BroadcastQueue, SendQueue, Attempts} \subseteq Nat \ {0}

Invalidate == 0

VARIABLES
    hub,       \* running, waiting to be restarted, down, or stopped
    attempts,  \* times the loop has panicked
    cancelled, \* Stop was called
    clients,   \* the registry
    ops, broadcast,  \* the hub's channels
    send, closed,    \* per client, its channel
    conn,      \* per client, the state of its connection and pumps
    shown,     \* per client, the newest version its browser has shown
    since,     \* per client, the version when it was registered
    version,   \* of the list
    recent,    \* a push has been let through less than minBroadcastInterval ago
    handler,   \* per handler, what it is about to push; -1 when it is idle
    lost       \* a push or an unregistration was dropped on a full channel

loopVars == <<hub, attempts, cancelled>>
pushVars == <<version, recent, handler>>
vars == <<loopVars, clients, ops, broadcast, send, closed, conn, shown, since, pushVars, lost>>

Idle == -1
Saved == -2

Init ==
    /\ hub = "running" /\ attempts = 0 /\ cancelled = FALSE
    /\ clients = {} /\ ops = <<>> /\ broadcast = <<>>
    /\ send = [c \in Clients |-> <<>>] /\ closed = [c \in Clients |-> FALSE]
    /\ conn = [c \in Clients |-> "none"]
    /\ shown = [c \in Clients |-> 0] /\ since = [c \in Clients |-> 0]
    /\ version = 0 /\ recent = FALSE
    /\ handler = [h \in Handlers |-> Idle] /\ lost = FALSE

-----------------------------------------------------------------------------
(* Handlers                                                                *)

Save(h) ==
    /\ handler[h] = Idle /\ version < MaxVersion
    /\ version' = version + 1 /\ handler' = [handler EXCEPT ![h] = Saved]
    /\ UNCHANGED <<loopVars, clients, ops, broadcast, send, closed, conn, shown, since, recent, lost>>

\* broadcastInboundsUpdate: nothing to do without clients; a long list is only invalidated
ReadList(h) ==
    /\ handler[h] = Saved
    /\ \E push \in {version, Invalidate} :
          handler' = [handler EXCEPT ![h] = IF clients = {} THEN Idle ELSE push]
    /\ UNCHANGED <<loopVars, clients, ops, broadcast, send, closed, conn, shown, since, version, recent, lost>>

\* Mutant: what is throttled is dropped, as for the types that are repeated.
ThrottledDropped(push) == {}

\* Broadcast of a mutation-driven type, inside minBroadcastInterval
Throttled(push) == {Invalidate}

\* What is sent for push.  An invalidate is not throttled.
Sent(push) ==
    IF clients = {} THEN {}
    ELSE IF push # Invalidate /\ recent THEN Throttled(push) ELSE {push}

\* Broadcast and enqueue: a full channel, a stop
Broadcast(h) ==
    LET sent == Sent(handler[h])
    IN  /\ handler[h] >= 0
        /\ handler' = [handler EXCEPT ![h] = Idle]
        /\ recent' = (recent \/ (handler[h] # Invalidate /\ clients # {}))
        /\ \/ sent = {} /\ UNCHANGED <<broadcast, lost>>
           \/ /\ sent # {} /\ Len(broadcast) < BroadcastQueue
              /\ broadcast' = Append(broadcast, CHOOSE m \in sent : TRUE)
              /\ UNCHANGED lost
           \/ /\ sent # {} /\ (Len(broadcast) = BroadcastQueue \/ cancelled)
              /\ lost' = TRUE /\ UNCHANGED broadcast
        /\ UNCHANGED <<loopVars, clients, ops, send, closed, conn, shown, since, version>>

\* minBroadcastInterval has passed.
Elapse ==
    /\ recent /\ recent' = FALSE
    /\ UNCHANGED <<loopVars, clients, ops, broadcast, send, closed, conn, shown, since, version, handler, lost>>

-----------------------------------------------------------------------------
(* Connections                                                             *)

\* HandleConnection has the socket, and waits in Register for room in the channel.
Upgrade(c) ==
    /\ conn[c] = "none" /\ conn' = [conn EXCEPT ![c] = "upgraded"]
    /\ shown' = [shown EXCEPT ![c] = version]
    /\ UNCHANGED <<loopVars, clients, ops, broadcast, send, closed, since, pushVars, lost>>

\* Mutant: a registration is given up on a full channel, like an unregistration.
RegisterGivenUp(c) ==
    /\ conn[c] = "upgraded"
    /\ \/ Len(ops) < OpsQueue /\ ops' = Append(ops, [kind |-> "register", c |-> c])
       \/ (Len(ops) = OpsQueue \/ cancelled) /\ UNCHANGED ops
    /\ conn' = [conn EXCEPT ![c] = "open"]
    /\ UNCHANGED <<loopVars, clients, broadcast, send, closed, shown, since, pushVars, lost>>

Register(c) ==
    /\ conn[c] = "upgraded"
    /\ \/ Len(ops) < OpsQueue /\ ops' = Append(ops, [kind |-> "register", c |-> c])
       \/ cancelled /\ UNCHANGED ops
    /\ conn' = [conn EXCEPT ![c] = "open"]
    /\ UNCHANGED <<loopVars, clients, broadcast, send, closed, shown, since, pushVars, lost>>

\* The newest version that a browser has shown after message m
After(c, m) ==
    LET v == IF m = Invalidate THEN version ELSE m
    IN  IF v > shown[c] THEN v ELSE shown[c]

\* writePump: a message, or the end of the channel, after which the read fails too
Write(c) ==
    /\ conn[c] = "open"
    /\ \/ /\ send[c] # <<>>
          /\ send' = [send EXCEPT ![c] = Tail(@)]
          /\ shown' = [shown EXCEPT ![c] = After(c, Head(send[c]))]
          /\ UNCHANGED conn
       \/ /\ send[c] = <<>> /\ closed[c]
          /\ conn' = [conn EXCEPT ![c] = "leaving"]
          /\ UNCHANGED <<send, shown>>
    /\ UNCHANGED <<loopVars, clients, ops, broadcast, closed, since, pushVars, lost>>

Leave(c) ==
    /\ conn[c] = "open" /\ conn' = [conn EXCEPT ![c] = "leaving"]
    /\ UNCHANGED <<loopVars, clients, ops, broadcast, send, closed, shown, since, pushVars, lost>>

\* Mutant: the client is taken out of the registry at once.
UnregisterDirectly(c) ==
    /\ conn[c] = "leaving" /\ conn' = [conn EXCEPT ![c] = "gone"]
    /\ clients' = clients \ {c} /\ closed' = [closed EXCEPT ![c] = closed[c] \/ c \in clients]
    /\ UNCHANGED <<loopVars, ops, broadcast, send, shown, since, pushVars, lost>>

\* Unregister goes through the same channel as Register; on a full one it is given up.
Unregister(c) ==
    /\ conn[c] = "leaving" /\ conn' = [conn EXCEPT ![c] = "gone"]
    /\ \/ Len(ops) < OpsQueue /\ ops' = Append(ops, [kind |-> "unregister", c |-> c]) /\ UNCHANGED lost
       \/ (Len(ops) = OpsQueue \/ cancelled) /\ lost' = TRUE /\ UNCHANGED ops
    /\ UNCHANGED <<loopVars, clients, broadcast, send, closed, shown, since, pushVars>>

-----------------------------------------------------------------------------
(* The hub's loop                                                          *)

HandleOp ==
    /\ hub = "running" /\ ops # <<>> /\ ops' = Tail(ops)
    /\ LET op == Head(ops)
       IN  IF op.kind = "register"
           THEN /\ clients' = clients \cup {op.c}
                /\ since' = [since EXCEPT ![op.c] = version] /\ UNCHANGED closed
           ELSE /\ clients' = clients \ {op.c}
                /\ closed' = [closed EXCEPT ![op.c] = @ \/ op.c \in clients] /\ UNCHANGED since
    /\ UNCHANGED <<loopVars, broadcast, send, conn, shown, pushVars, lost>>

\* Mutant: a slow client is closed, but stays registered.
EvictedKept(dead) == clients

Evicted(dead) == clients \ dead

\* Mutant: the channel is taken to have room for one more.
SlowLate == {c \in clients : Len(send[c]) > SendQueue}

\* trySend fails
Slow == {c \in clients : Len(send[c]) = SendQueue}

\* fanout: a client whose channel is full is removed and closed
Fanout ==
    LET dead == Slow
    IN  /\ hub = "running" /\ broadcast # <<>> /\ broadcast' = Tail(broadcast)
        /\ send' = [c \in Clients |-> IF c \in clients \ dead THEN Append(send[c], Head(broadcast)) ELSE send[c]]
        /\ clients' = Evicted(dead)
        /\ closed' = [c \in Clients |-> closed[c] \/ c \in dead]
        /\ UNCHANGED <<loopVars, ops, conn, shown, since, pushVars, lost>>

\* shutdown
CloseAll ==
    /\ clients' = {} /\ closed' = [c \in Clients |-> closed[c] \/ c \in clients]

\* A panic loses the message in hand; after the last attempt the hub closes every socket.
Panic ==
    /\ hub = "running" /\ attempts < MaxPanics
    /\ broadcast # <<>> /\ broadcast' = Tail(broadcast) /\ lost' = TRUE
    /\ attempts' = attempts + 1
    /\ IF attempts' < Attempts
       THEN hub' = "waiting" /\ UNCHANGED <<clients, closed>>
       ELSE hub' = "down" /\ CloseAll
    /\ UNCHANGED <<cancelled, ops, send, conn, shown, since, pushVars>>

Resume ==
    /\ hub = "waiting"
    /\ hub' = IF cancelled THEN "stopped" ELSE "running"
    /\ UNCHANGED <<attempts, cancelled, clients, ops, broadcast, send, closed, conn, shown, since, pushVars, lost>>

Stop ==
    /\ Stoppable /\ ~cancelled /\ cancelled' = TRUE
    /\ UNCHANGED <<hub, attempts, clients, ops, broadcast, send, closed, conn, shown, since, pushVars, lost>>

Shutdown ==
    /\ hub = "running" /\ cancelled /\ hub' = "stopped" /\ CloseAll
    /\ UNCHANGED <<attempts, cancelled, ops, broadcast, send, conn, shown, since, pushVars, lost>>

-----------------------------------------------------------------------------
Next ==
    \/ \E h \in Handlers : Save(h) \/ ReadList(h) \/ Broadcast(h)
    \/ \E c \in Clients : Upgrade(c) \/ Register(c) \/ Write(c) \/ Leave(c) \/ Unregister(c)
    \/ Elapse \/ HandleOp \/ Fanout \/ Panic \/ Resume \/ Stop \/ Shutdown

Spec == Init /\ [][Next]_vars

\* Goroutines that can run do run; select does not pass over a channel for ever.
Fairness ==
    /\ SF_vars(HandleOp) /\ SF_vars(Fanout) /\ WF_vars(Resume) /\ WF_vars(Shutdown)
    /\ \A c \in Clients : SF_vars(Register(c)) /\ WF_vars(Write(c)) /\ WF_vars(Unregister(c))

FairSpec == Spec /\ Fairness

-----------------------------------------------------------------------------
(* Properties                                                              *)

TypeOK ==
    /\ hub \in {"running", "waiting", "down", "stopped"} /\ attempts \in 0..Attempts
    /\ clients \subseteq Clients /\ version \in 0..MaxVersion
    /\ Len(ops) <= OpsQueue /\ Len(broadcast) <= BroadcastQueue
    /\ \A c \in Clients : Len(send[c]) <= SendQueue
    /\ conn \in [Clients -> {"none", "upgraded", "open", "leaving", "gone"}]
    /\ handler \in [Handlers -> -2..MaxVersion]

\* A channel that has been closed is never sent on: who is registered is open.
RegisteredOpen == \A c \in clients : ~closed[c]

\* Every change made while a session is registered reaches it, as the list or as an invalidate,
\* although pushes are throttled, handlers overtake one another and channels are short; or the
\* session has been cut off, or a channel was full.
ChangesSeen ==
    \A c \in clients :
        (broadcast = <<>> /\ send[c] = <<>> /\ (\A h \in Handlers : handler[h] = Idle) /\ ~lost /\ conn[c] = "open")
            => (version > since[c] => shown[c] = version)

\* A connection that is gone does not stay registered, in whatever order it came and went.
NoGhosts ==
    \A c \in Clients :
        (conn[c] = "gone" /\ ~lost /\ \A i \in 1..Len(ops) : ops[i].c # c) => c \notin clients

\* A socket is served by the hub or it is closed, so that its browser falls back to polling.
ServedOrClosed ==
    \A c \in Clients : (conn[c] \in {"upgraded", "open"}) ~> (c \in clients \/ conn[c] = "gone")
=============================================================================
