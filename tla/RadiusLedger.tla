---------------------------- MODULE RadiusLedger ----------------------------
(***************************************************************************)
(* RADIUS accounting: a daemon reports the cumulative bytes of its         *)
(* sessions, and the ledger bills what moved since the last record.        *)
(* Records are lost and retransmitted; the panel and the daemon restart;   *)
(* a session without records is dropped as stale.  The server handles      *)
(* every packet in a goroutine of its own: with Reorder they may overtake  *)
(* one another.  One of the two directions is modelled, they are alike.    *)
(***************************************************************************)
EXTENDS Integers, Sequences, FiniteSets, SequencesExt

CONSTANTS
    Ids,         \* Acct-Session-Ids
    MaxTraffic,  \* bytes that move in all
    MaxNet,      \* records on their way
    MaxStarts,   \* sessions the daemon opens
    MaxFaults,   \* restarts, losses, stale sessions
    Reorder      \* packets may be handled in any order

RadiusAssumption ==
    /\ {MaxTraffic, MaxNet, MaxStarts, MaxFaults} \subseteq Nat /\ Reorder \in BOOLEAN
    /\ IsFiniteSet(Ids)

None == -1

VARIABLES
    nas,        \* per id, the total of the session the daemon has open, or None
    net,        \* records on their way, oldest first
    session,    \* per id, the total of the last record, or None (Ledger.sessions)
    pending,    \* bytes to hand out (Ledger.pending)
    billed,     \* bytes handed out
    traffic,    \* bytes that have moved
    known,      \* the user is still a client
    orphaned,   \* a record of a removed client opened no session (observer)
    starts, faults

vars == <<nas, net, session, pending, billed, traffic, known, orphaned, starts, faults>>
ledgerVars == <<session, pending, billed>>

Init ==
    /\ nas = [i \in Ids |-> None] /\ net = <<>>
    /\ session = [i \in Ids |-> None] /\ pending = 0 /\ billed = 0
    /\ traffic = 0 /\ known = TRUE /\ orphaned = FALSE /\ starts = 0 /\ faults = 0

-----------------------------------------------------------------------------
(* The daemon                                                              *)

Send(status, i, total) ==
    Len(net) < MaxNet /\ net' = Append(net, [status |-> status, id |-> i, total |-> total])

Open(i) ==
    /\ nas[i] = None /\ starts < MaxStarts /\ starts' = starts + 1
    /\ nas' = [nas EXCEPT ![i] = 0] /\ Send("start", i, 0)
    /\ UNCHANGED <<ledgerVars, traffic, known, orphaned, faults>>

Move(i) ==
    /\ nas[i] # None /\ traffic < MaxTraffic
    /\ nas' = [nas EXCEPT ![i] = @ + 1] /\ traffic' = traffic + 1
    /\ UNCHANGED <<net, ledgerVars, known, orphaned, starts, faults>>

Interim(i) ==
    /\ nas[i] # None /\ Send("interim", i, nas[i])
    /\ UNCHANGED <<nas, ledgerVars, traffic, known, orphaned, starts, faults>>

Close(i) ==
    /\ nas[i] # None /\ nas' = [nas EXCEPT ![i] = None] /\ Send("stop", i, nas[i])
    /\ UNCHANGED <<ledgerVars, traffic, known, orphaned, starts, faults>>

\* The daemon restarts; its sessions end without a record, and their ids may be used again.
DaemonRestarts ==
    /\ faults < MaxFaults /\ faults' = faults + 1
    /\ nas' = [i \in Ids |-> None]
    /\ UNCHANGED <<net, ledgerVars, traffic, known, orphaned, starts>>

\* The client is removed: its records come without a user.
Forget ==
    /\ known /\ known' = FALSE
    /\ UNCHANGED <<nas, net, ledgerVars, traffic, orphaned, starts, faults>>

-----------------------------------------------------------------------------
(* Ledger.Apply                                                            *)

\* Mutant: a stop leaves the session in the list.
LeftKept(r) == r.total

\* The session after a record
Left(r) == IF r.status = "stop" THEN None ELSE r.total

\* Mutant: a session first heard of after its start is billed from zero.
OpenedBilled(r) == [total |-> Left(r), delta |-> r.total]

\* A session first heard of after its start is taken as it stands.
Opened(r) == [total |-> Left(r), delta |-> IF r.status = "start" THEN r.total ELSE 0]

\* Mutant: a record that goes backwards is not expected.
MovedSigned(old, new) == new - old

\* What moved; a record that goes backwards counts from zero.
Moved(old, new) == IF new < old THEN new ELSE new - old

\* A record without a user that opens nothing
Unknown(r) == ~known /\ session[r.id] = None

\* Mutant: a record without a user bills nothing.
AppliedKnown(r) ==
    CASE ~known -> [total |-> IF Unknown(r) THEN None ELSE Left(r), delta |-> 0]
      [] known /\ session[r.id] = None -> Opened(r)
      [] OTHER -> [total |-> Left(r), delta |-> Moved(session[r.id], r.total)]

Applied(r) ==
    CASE Unknown(r) -> [total |-> None, delta |-> 0]
      [] known /\ session[r.id] = None -> Opened(r)
      [] OTHER -> [total |-> Left(r), delta |-> Moved(session[r.id], r.total)]

\* handleAcct for the k-th record; a retransmitted one arrives again
Deliver(k, again) ==
    /\ k \in 1..Len(net) /\ (Reorder \/ k = 1)
    /\ again => faults < MaxFaults
    /\ faults' = IF again THEN faults + 1 ELSE faults
    /\ net' = IF again THEN net ELSE RemoveAt(net, k)
    /\ session' = [session EXCEPT ![net[k].id] = Applied(net[k]).total]
    /\ pending' = pending + Applied(net[k]).delta
    /\ orphaned' = (orphaned \/ Unknown(net[k]))
    /\ UNCHANGED <<nas, billed, traffic, known, starts>>

Lose ==
    /\ faults < MaxFaults /\ faults' = faults + 1
    /\ net # <<>> /\ net' = Tail(net)
    /\ UNCHANGED <<nas, ledgerVars, traffic, known, orphaned, starts>>

\* Drain
Drain ==
    /\ pending > 0
    /\ billed' = billed + pending /\ pending' = 0
    /\ UNCHANGED <<nas, net, session, traffic, known, orphaned, starts, faults>>

\* Sessions drops what has had no record for Stale.
DropStale(i) ==
    /\ session[i] # None /\ faults < MaxFaults /\ faults' = faults + 1
    /\ session' = [session EXCEPT ![i] = None]
    /\ UNCHANGED <<nas, net, pending, billed, traffic, known, orphaned, starts>>

PanelRestarts ==
    /\ faults < MaxFaults /\ faults' = faults + 1
    /\ session' = [i \in Ids |-> None] /\ pending' = 0
    /\ UNCHANGED <<nas, net, billed, traffic, known, orphaned, starts>>

-----------------------------------------------------------------------------
Next ==
    \/ \E i \in Ids : Open(i) \/ Move(i) \/ Interim(i) \/ Close(i) \/ DropStale(i)
    \/ \E k \in 1..MaxNet, again \in BOOLEAN : Deliver(k, again)
    \/ DaemonRestarts \/ Forget \/ Lose \/ Drain \/ PanelRestarts

Spec == Init /\ [][Next]_vars

-----------------------------------------------------------------------------
(* Properties                                                              *)

TypeOK ==
    /\ nas \in [Ids -> -1..MaxTraffic] /\ session \in [Ids -> -1..MaxTraffic]
    /\ Len(net) <= MaxNet /\ traffic \in 0..MaxTraffic /\ {pending, billed} \subseteq Nat

\* No byte is billed twice, whatever is retransmitted, lost, dropped as stale, or restarted:
\* a retried record must never be counted again.
NeverTwice == billed + pending <= traffic

\* When nothing has gone wrong, every byte of a closed session has been billed to the one it
\* belonged to, also when the client was removed while it was open.
BilledInFull ==
    (faults = 0 /\ ~orphaned /\ net = <<>> /\ \A i \in Ids : nas[i] = None)
        => billed + pending = traffic

\* A session that was closed in order does not stay in the list of those that are online.
NoGhosts ==
    (faults = 0 /\ net = <<>>) => \A i \in Ids : session[i] # None => nas[i] # None
=============================================================================
