----------------------------- MODULE MCDelivery -----------------------------
(***************************************************************************)
(* What is to reach the other side, for TLC: deployments on their way to a *)
(* node, measured bytes on their way to the master, the configuration of a *)
(* managed node, and the terms of a client of two.  They share no state,   *)
(* so a behaviour follows one of them: focus says which, the others stand  *)
(* still, and only its own steps are fair.                                 *)
(***************************************************************************)
EXTENDS Integers, FiniteSets

CONSTANTS p1, p2, g1, c1, n1, n2, nothing, awaited

VARIABLES
    focus,
    db, backup, restores, session, registered, down, up, node, conn, work,    \* DeploymentSync
    accepted, force, late, opened, faults,
    mode, life, measured, last, observed, spent, worker, pulled, acks, agent, \* UsagePipeline
    sending, requests, receipt, ledger, losses,
    cfg, ncfg, fp, dirty, stamp, edit, job, made, errors,                     \* NodeConfig
    clock, count, gen, exp, was, row, base, marked, pushed, snap,             \* NodeTraffic
    total, start, seen, mark, should, left

\* Two revisions over three streams, one of them broken.
Deploy == INSTANCE DeploymentSync WITH
    Payloads <- {p1, p2}, RuntimeCount <- 2, MaxRevision <- 2, MaxStreams <- 3, MaxFaults <- 1,
    MaxRestores <- 0, None <- nothing

\* Spools of one checkpoint, so that Collect and the agent's store are refused.
Usage == INSTANCE UsagePipeline WITH
    Grants <- {g1}, Meters <- {g1} \X (1..2), Issued <- [g \in {g1} |-> 2], MaxIncarnation <- 2,
    BatchLimit <- 1, SpoolLimit <- 1, ChunkLimit <- 2, PendingLimit <- 2, MaxFaults <- 2,
    None <- nothing, Awaited <- awaited, faults <- losses

\* Here edits may overtake the pushes of the job.
Config == INSTANCE NodeConfig WITH
    Clients <- {c1}, MaxEdits <- 2, MaxFaults <- 1, Overlap <- TRUE, None <- nothing, faults <- errors

\* A client of two nodes that renew its term.
Traffic == INSTANCE NodeTraffic WITH
    Nodes <- {n1, n2}, Legacy <- {}, MaxBytes <- 0, MaxTime <- 1, MaxResets <- 0, MaxEdits <- 1,
    MaxFaults <- 1, None <- nothing, dirty <- marked

ASSUME DeliveryParameters ==
    /\ Deploy!SyncAssumption /\ Usage!PipelineAssumption
    /\ Config!NodeConfigAssumption /\ Traffic!NodeTrafficAssumption

deployVars ==
    <<db, backup, restores, session, registered, down, up, node, conn, work, accepted, force, late,
      opened, faults>>
usageVars ==
    <<mode, life, measured, last, observed, spent, worker, pulled, acks, agent, sending, requests,
      receipt, ledger, losses>>
configVars == <<cfg, ncfg, fp, dirty, stamp, edit, job, made, errors>>
trafficVars ==
    <<clock, count, gen, exp, was, row, base, marked, pushed, snap, total, start, seen, mark, should,
      left>>
vars == <<focus, deployVars, usageVars, configVars, trafficVars>>

Init ==
    /\ focus \in {"deploy", "usage", "config", "traffic"}
    /\ Deploy!Init /\ Usage!Init /\ Config!Init /\ Traffic!Init

Next ==
    /\ UNCHANGED focus
    /\ \/ focus = "deploy" /\ Deploy!Next /\ UNCHANGED <<usageVars, configVars, trafficVars>>
       \/ focus = "usage" /\ Usage!Next /\ UNCHANGED <<deployVars, configVars, trafficVars>>
       \/ focus = "config" /\ Config!Next /\ UNCHANGED <<deployVars, usageVars, trafficVars>>
       \/ focus = "traffic" /\ Traffic!Next /\ UNCHANGED <<deployVars, usageVars, configVars>>

DeployFair ==
    /\ \A k \in 1..3 :
          /\ WF_deployVars(focus = "deploy" /\ Deploy!BeginSession(k))
          /\ WF_deployVars(focus = "deploy" /\ Deploy!Register(k))
          /\ WF_deployVars(focus = "deploy" /\ Deploy!HandleResult(k))
          /\ WF_deployVars(focus = "deploy" /\ Deploy!Deliver(k, FALSE))
          /\ WF_deployVars(focus = "deploy" /\ Deploy!Deliver(k, TRUE))
          /\ WF_deployVars(focus = "deploy" /\ Deploy!SessionRevoked(k))
          /\ WF_deployVars(focus = "deploy" /\ Deploy!HandlerEnds(k))
    /\ WF_deployVars(focus = "deploy" /\ Deploy!Connect)
    /\ WF_deployVars(focus = "deploy" /\ Deploy!TakeAuthority)
    /\ WF_deployVars(focus = "deploy" /\ Deploy!Receive)
    /\ WF_deployVars(focus = "deploy" /\ (Deploy!ApplyRuntime \/ Deploy!RejectRuntime))
    /\ WF_deployVars(focus = "deploy" /\ Deploy!ReportApplied)
    /\ WF_deployVars(focus = "deploy" /\ Deploy!StreamClosed)

UsageFair ==
    /\ WF_usageVars(focus = "usage" /\ Usage!Observe)
    /\ WF_usageVars(focus = "usage" /\ Usage!Collect)
    /\ WF_usageVars(focus = "usage" /\ Usage!CollectRefused)
    /\ WF_usageVars(focus = "usage" /\ Usage!ShutdownDone)
    /\ WF_usageVars(focus = "usage" /\ Usage!WorkerStart)
    /\ WF_usageVars(focus = "usage" /\ Usage!Pull)
    /\ WF_usageVars(focus = "usage" /\ (Usage!Store \/ Usage!StoreRefused))
    /\ WF_usageVars(focus = "usage" /\ Usage!PostAck)
    /\ WF_usageVars(focus = "usage" /\ \E s \in acks : Usage!HandleAck(s))
    /\ WF_usageVars(focus = "usage" /\ Usage!ReadPending)
    /\ WF_usageVars(focus = "usage" /\ Usage!Send)
    /\ WF_usageVars(focus = "usage" /\ Usage!TakeReceipt)
    /\ WF_usageVars(focus = "usage" /\ \E b \in requests : b.live /\ Usage!Ingest(b))

ConfigFair == WF_configVars(focus = "config" /\ Config!Sync)

TrafficFair ==
    \A n \in {n1, n2} :
        /\ WF_trafficVars(focus = "traffic" /\ Traffic!NodeRenews(n))
        /\ SF_trafficVars(focus = "traffic" /\ Traffic!Push(n))
        /\ WF_trafficVars(focus = "traffic" /\ Traffic!Fetch(n, FALSE))
        /\ WF_trafficVars(focus = "traffic" /\ Traffic!Merge(n))

Spec == Init /\ [][Next]_vars /\ DeployFair /\ UsageFair /\ ConfigFair /\ TrafficFair
-----------------------------------------------------------------------------
\* As long as the database is not restored the protocol of deployments is RevisionDelivery: a
\* revision is in force only once it was published, and recorded only once it is in force.
DeliveryImplemented == Deploy!DeliveryImplemented

\* Whatever Collect made durable is billed in the end.
EventuallyBilled == Usage!EventuallyBilled

\* Both sides agree in the end: the last revision published is in force and recorded, a managed
\* node has the configuration that the panel shows for it, and a client that its nodes have
\* renewed is not left expired on the panel.
BothSidesAgree == Deploy!Converges /\ Config!Converges /\ Traffic!RenewalArrives
=============================================================================
