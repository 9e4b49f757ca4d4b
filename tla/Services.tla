------------------------------ MODULE Services ------------------------------
(***************************************************************************)
(* Services side by side: of the panel, the hub that pushes to browsers,   *)
(* the event bus, the traffic writer, RADIUS accounting, bans and what     *)
(* keeps the configuration of a managed node; of a node's worker, the      *)
(* clock that it trusts.  Each runs in goroutines of its own and           *)
(* they share no state, so their steps interleave freely.                  *)
(***************************************************************************)
EXTENDS Integers, FiniteSets

CONSTANTS
    Sessions, Handlers, MaxVersion, OpsQueue, BroadcastQueue, SendQueue,   \* PushHub
    Attempts, MaxPanics, Stoppable,
    Subscribers, MaxSubs, MaxEvents, BufferSize, EventQueue, SlowIds,      \* EventBus
    Callers, MaxWrites, WriterStarts, WriterQueue,                         \* TrafficWriter
    AcctIds, MaxTraffic, MaxNet, MaxStarts, MaxFaults, Reorder,            \* RadiusLedger
    Milli, MaxRoundTrip, MaxReal, Readers, Requests, ClockFaults, MaxCancels, \* TrustedClock
    NodeClients, ConfigEdits, ConfigFaults, Overlap, NoConfig,             \* NodeConfig
    BanClients, BanSources, Ports, PortsOf, BanTime, BanMaxTime, MaxActs,  \* BanSet
    MaxFails, MaxFlushes, SharedPush

VARIABLES
    hub, attempts, cancelled, clients, ops, broadcast, send, closed,     \* PushHub
    conn, shown, since, version, recent, handler, lost,
    ch, published, subs, sub, made, handled, missed, stop, dispatcher,   \* EventBus
    mu, gen, writer, started, server, caller, written, answered,         \* TrafficWriter
    nas, net, session, pending, billed, moved, known, orphaned, starts, faults, \* RadiusLedger
    real, boot, born, disk, saved, request, nonce, asked, call, serving, \* TrustedClock
    available, reader, reading, mishaps, cancels,
    cfg, ncfg, fp, dirty, stamp, editor, job, edited, broken,            \* NodeConfig
    clock, rows, fw, applied, primed, step, at, want, own, acts, fails, flushes \* BanSet

Hub == INSTANCE PushHub WITH Clients <- Sessions
Bus == INSTANCE EventBus WITH Ids <- Subscribers, QueueSize <- EventQueue, used <- made
Writer == INSTANCE TrafficWriter WITH MaxStarts <- WriterStarts, QueueSize <- WriterQueue
Radius == INSTANCE RadiusLedger WITH Ids <- AcctIds, traffic <- moved
Clock == INSTANCE TrustedClock WITH
    Handlers <- Requests, MaxFaults <- ClockFaults, handler <- serving, started <- asked, faults <- mishaps
Config == INSTANCE NodeConfig WITH
    Clients <- NodeClients, MaxEdits <- ConfigEdits, MaxFaults <- ConfigFaults, None <- NoConfig,
    edit <- editor, made <- edited, faults <- broken
Ban == INSTANCE BanSet WITH Clients <- BanClients, Sources <- BanSources, MaxTime <- BanMaxTime

ASSUME HubParameters == Hub!HubAssumption
ASSUME BusParameters == Bus!BusAssumption
ASSUME WriterParameters == Writer!WriterAssumption
ASSUME RadiusParameters == Radius!RadiusAssumption
ASSUME ClockParameters == Clock!ClockAssumption
ASSUME ConfigParameters == Config!NodeConfigAssumption
ASSUME BanParameters == Ban!BanAssumption

hubVars ==
    <<hub, attempts, cancelled, clients, ops, broadcast, send, closed, conn, shown, since, version,
      recent, handler, lost>>
busVars == <<ch, published, subs, sub, made, handled, missed, stop, dispatcher>>
writerVars == <<mu, gen, writer, started, server, caller, written, answered>>
radiusVars == <<nas, net, session, pending, billed, moved, known, orphaned, starts, faults>>
clockVars ==
    <<real, boot, born, disk, saved, request, nonce, asked, call, serving, available, reader, reading,
      mishaps, cancels>>
configVars == <<cfg, ncfg, fp, dirty, stamp, editor, job, edited, broken>>
banVars == <<clock, rows, fw, applied, primed, step, at, want, own, acts, fails, flushes>>
vars == <<hubVars, busVars, writerVars, radiusVars, clockVars, configVars, banVars>>

Init == Hub!Init /\ Bus!Init /\ Writer!Init /\ Radius!Init /\ Clock!Init /\ Config!Init /\ Ban!Init

HubStep == Hub!Next /\ UNCHANGED <<busVars, writerVars, radiusVars, clockVars, configVars, banVars>>
BusStep == Bus!Next /\ UNCHANGED <<hubVars, writerVars, radiusVars, clockVars, configVars, banVars>>
WriterStep == Writer!Next /\ UNCHANGED <<hubVars, busVars, radiusVars, clockVars, configVars, banVars>>
RadiusStep == Radius!Next /\ UNCHANGED <<hubVars, busVars, writerVars, clockVars, configVars, banVars>>
ClockStep == Clock!Next /\ UNCHANGED <<hubVars, busVars, writerVars, radiusVars, configVars, banVars>>
ConfigStep == Config!Next /\ UNCHANGED <<hubVars, busVars, writerVars, radiusVars, clockVars, banVars>>
BanStep == Ban!Next /\ UNCHANGED <<hubVars, busVars, writerVars, radiusVars, clockVars, configVars>>

Next == HubStep \/ BusStep \/ WriterStep \/ RadiusStep \/ ClockStep \/ ConfigStep \/ BanStep

Spec == Init /\ [][Next]_vars
-----------------------------------------------------------------------------
\* Those that pass on what happens.  The push hub: nothing is sent on a closed channel, a
\* registered session sees every change made since it came, although pushes are throttled and
\* handlers overtake one another, and one that has gone is not kept, in whatever order it came
\* and went.
\* The event bus: whoever comes, goes and replaces whom, an id's handlers see an event at most
\* once and in the order of publication, and none runs once Stop has returned.
PushesSound ==
    /\ Hub!TypeOK /\ Hub!RegisteredOpen /\ Hub!ChangesSeen /\ Hub!NoGhosts
    /\ Bus!TypeOK /\ Bus!HandledOnce /\ Bus!InOrder /\ Bus!StoppedQuiet

\* The traffic writer: what a caller is told of its write is true whatever stop and start it met,
\* and a stop drains what was queued.
WritesAnswered == Writer!TypeOK /\ Writer!AnswersTrue /\ Writer!DrainsAll

\* RADIUS accounting: no byte is billed twice, whatever is repeated, lost, dropped or restarted;
\* without faults all of them are billed and no closed session stays online.
RadiusExact == Radius!TypeOK /\ Radius!NeverTwice /\ Radius!BilledInFull /\ Radius!NoGhosts

\* Trusted time: a reading is never behind the true time and never goes back while the host is
\* up, and the lower bound that requests are judged by is one and is tight, whatever answers were
\* late, lost, or of another boot; what waited for time is restored when there is one.
TimeTrusted ==
    /\ [](Clock!TypeOK /\ Clock!NeverLate /\ Clock!RequestTimeTight /\ Clock!RestoredWithTime)
    /\ [][Clock!Monotone]_vars

\* A managed node's configuration: a node that is not marked dirty has every edit of the panel,
\* the fingerprint is of what the node holds, and no edit is undone by an older one, whatever
\* fails, restarts, or is edited while the job is at work.
EditsSound ==
    /\ [](Config!TypeOK /\ Config!NodeHasEdits)
    /\ [][Config!FingerprintStep /\ Config!EditsKeptStep]_vars

\* Bans: one that this host decided holds until its deadline or a release, whatever a master
\* pushes, and a convergence that reports success has left the firewall with what it read.
BansHold ==
    /\ [](Ban!TypeOK /\ Ban!OwnBanHolds)
    /\ [][Ban!Projected]_vars
=============================================================================
