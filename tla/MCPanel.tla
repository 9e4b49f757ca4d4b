------------------------------ MODULE MCPanel ------------------------------
(***************************************************************************)
(* The panel for TLC: its Services, and the components that keep clients,  *)
(* devices and nodes in order.  They share no state, so a behaviour        *)
(* follows one of them: focus says which, the others stand still.          *)
(***************************************************************************)
EXTENDS Services

CONSTANTS c1, c2, p1, p2, n1, n2, nothing

VARIABLES
    focus,
    now, live, entering, limit, seen, dropped, pc, scan, over, decidedAt,       \* DeviceCap
    settled, raced, connects, silences, changes,
    used, expired, row, rec, blob, core, restart, need, lock, poll, edit,        \* QuotaCycle
    reset, owed, left,
    period, count, renewed, exp, was, usage, base, marked, pushed, snap,   \* NodeTraffic
    total, begun, reported, mark, should, budget

\* Two devices of a client whose cap is one, or is changed to be.
Device == INSTANCE DeviceCap WITH
    Sources <- {1, 2}, Cores <- {"ssh", "xray"}, Limits <- {0, 1}, LiveWindow <- 1, StaleAfter <- 2,
    BanTime <- 1, MaxTime <- 3, MaxConnects <- 2, MaxSilent <- 0, MaxChanges <- 1,
    clock <- now, row <- seen, bans <- dropped

\* Two clients behind one address: they share an inbound, and one has another.
HostPorts == [c \in {c1, c2} |-> IF c = c1 THEN {p1} ELSE {p1, p2}]

\* A client that uses up its quota, is cut off, is given more by resets, and expires.
Cycle == INSTANCE QuotaCycle WITH
    Quota <- 2, MaxUse <- 5, MaxEdits <- 0, ResetKinds <- {"all"}, MaxResets <- 2, MaxPeriods <- 1,
    Renews <- FALSE, MaxFaults <- 1, RestartOnDisable <- {TRUE, FALSE}, StartsCut <- FALSE

\* A client that was cut off, and gets its allowance back by resets and renewals.
Restore == INSTANCE QuotaCycle WITH
    Quota <- 2, MaxUse <- 0, MaxEdits <- 2, ResetKinds <- {"one", "many", "all"}, MaxResets <- 2,
    MaxPeriods <- 2, Renews <- TRUE, MaxFaults <- 1, RestartOnDisable <- {TRUE}, StartsCut <- TRUE

\* A client that renews on a node, which may be of an older build at first, and is reset.
Renewal == INSTANCE NodeTraffic WITH
    Nodes <- {n1}, Legacy <- {n1}, MaxBytes <- 2, MaxTime <- 2, MaxResets <- 1, MaxEdits <- 0,
    MaxFaults <- 1, None <- nothing, clock <- period, gen <- renewed, row <- usage, dirty <- marked,
    start <- begun, seen <- reported, left <- budget

\* A client that is on two nodes.
Shared == INSTANCE NodeTraffic WITH
    Nodes <- {n1, n2}, Legacy <- {}, MaxBytes <- 2, MaxTime <- 1, MaxResets <- 0, MaxEdits <- 1,
    MaxFaults <- 0, None <- nothing, clock <- period, gen <- renewed, row <- usage, dirty <- marked,
    start <- begun, seen <- reported, left <- budget

ASSUME PanelParameters ==
    /\ Device!DeviceAssumption /\ Cycle!QuotaAssumption /\ Restore!QuotaAssumption
    /\ Renewal!NodeTrafficAssumption /\ Shared!NodeTrafficAssumption

deviceVars ==
    <<now, live, entering, limit, seen, dropped, pc, scan, over, decidedAt, settled, raced,
      connects, silences, changes>>
quotaVars ==
    <<used, expired, row, rec, blob, core, restart, need, lock, poll, edit, reset, owed, left>>
trafficVars ==
    <<period, count, renewed, exp, was, usage, base, marked, pushed, snap, total, begun, reported,
      mark, should, budget>>
panelVars ==
    <<focus, vars, deviceVars, quotaVars, trafficVars>>

PanelInit ==
    /\ focus \in {"hub", "bus", "writer", "radius", "clock", "device", "ban", "cycle", "restore", "config",
                  "renewal", "shared"}
    /\ Init
    /\ Device!Init /\ (focus # "device" => limit = 1)
    /\ IF focus = "cycle" THEN Cycle!Init ELSE Restore!Init
    /\ IF focus = "renewal" THEN Renewal!Init ELSE Shared!Init

PanelNext ==
    /\ UNCHANGED focus
    /\ \/ /\ \/ focus = "hub" /\ HubStep
             \/ focus = "bus" /\ BusStep
             \/ focus = "writer" /\ WriterStep
             \/ focus = "radius" /\ RadiusStep
             \/ focus = "clock" /\ ClockStep
             \/ focus = "config" /\ ConfigStep
             \/ focus = "ban" /\ BanStep
          /\ UNCHANGED <<deviceVars, quotaVars, trafficVars>>
       \/ /\ focus = "device" /\ Device!Next
          /\ UNCHANGED <<vars, quotaVars, trafficVars>>
       \/ /\ focus = "cycle" /\ Cycle!Next
          /\ UNCHANGED <<vars, deviceVars, trafficVars>>
       \/ /\ focus = "restore" /\ Restore!Next
          /\ UNCHANGED <<vars, deviceVars, trafficVars>>
       \/ /\ focus = "renewal" /\ Renewal!Next
          /\ UNCHANGED <<vars, deviceVars, quotaVars>>
       \/ /\ focus = "shared" /\ Shared!Next
          /\ UNCHANGED <<vars, deviceVars, quotaVars>>

PanelSpec == PanelInit /\ [][PanelNext]_panelVars
-----------------------------------------------------------------------------
\* What a client may have.  The device cap: an address is named over the cap only when more were
\* live at once, and one that holds a slot keeps it while it is connected, whatever comes after it.
\* The quota: once everything under way has ended a depleted client is not served, and one that
\* was given its allowance back is enabled in all three places and served.
LimitsHold ==
    /\ []( /\ focus = "device" => Device!TypeOK /\ Device!CapWasExceeded
           /\ focus = "cycle" => Cycle!TypeOK /\ Cycle!DepletedIsCut
           /\ focus = "restore" => Restore!TypeOK /\ Restore!AllowanceStands)
    /\ [][focus = "device" => Device!Kept]_panelVars

\* A client on managed nodes: no byte is counted twice or comes back after a reset, whatever the
\* order of snapshots, renewals, resets, pushes and merges that were put off, and without faults
\* none is lost.
TrafficExact ==
    /\ focus = "renewal" => Renewal!TypeOK /\ Renewal!NeverTwice /\ Renewal!CountedInFull
    /\ focus = "shared" => Shared!TypeOK /\ Shared!NeverTwice /\ Shared!CountedInFull
=============================================================================
