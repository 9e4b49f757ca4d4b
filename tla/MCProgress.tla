----------------------------- MODULE MCProgress -----------------------------
(***************************************************************************)
(* What must happen in the end, for TLC: components of the fleet and of    *)
(* the panel under the fairness of their goroutines and timers.  They      *)
(* share no state, so a behaviour follows one of them: focus says which,   *)
(* the others stand still, and only its own steps are fair.                *)
(***************************************************************************)
EXTENDS Integers, FiniteSets

CONSTANTS n1, w1, b1, b2, h1, mail, telegram, traffic, admin, c1, s1, p1, p2, nothing

VARIABLES
    focus,
    bound, part, demand, jobs, online, fetched, force, acks, interventions,  \* RateShares
    current, pending, term, expired, place, share, row, stop, deps,          \* ClientTerms
    applied, base, intent, rec, post, receipts,
    source, work, resetting, changes, other,
    issued, budget, outbox, obs, sequence, fresh, candidate, queue,          \* CreditRefill
    refills, open, update, desired, deployed, dep, running, record,
    told, report, reported, due, batch, job, rates, faults,
    hub, attempts, cancelled, clients, ops, broadcast, send, closed,         \* PushHub
    conn, shown, since, version, recent, handler, lost,
    ch, published, subs, sub, made, handled, missed, ending, dispatcher,     \* EventBus
    mu, gen, writer, started, server, caller, written, answered,             \* TrafficWriter
    now, live, entering, limit, seen, dropped, pc, scan, over, decidedAt,    \* DeviceCap
    settled, raced, connects, silences, edits,
    clock, rows, fw, projected, primed, step, at, want, own, acts, fails, flushes, \* BanSet
    used, past, enabled, entry, blob, core, restart, need, lock, poll, edit,       \* QuotaCycle
    reset, owed, left

Limited(bits, burst) == [mode |-> "Limited", bits |-> bits, burst |-> burst]

Rates == INSTANCE RateShares WITH
    Members <- {1, 2}, Bounds <- {Limited(5, 7), Limited(2, 4)}, MinimumBurst <- 1, MaxRevision <- 2,
    MaxFlight <- 1, MaxChanges <- 1, share <- part, mail <- fetched, changes <- interventions, None <- nothing

\* One stream node; the planner does not block a share (see MCClientTerms).
Client == INSTANCE ClientTerms WITH
    Nodes <- {n1}, Native <- {}, MaxTerm <- 2, MaxRevision <- 4, MaxDeployments <- 4, MaxFlight <- 1,
    PlannerRates <- {1}, MaxRates <- 2, MaxChanges <- 3, MaxOther <- 0, Expiring <- TRUE

Credit == INSTANCE CreditRefill WITH
    Grants <- {1}, Workers <- {w1}, Target <- 1, LowWater <- 0, Quota <- 2, MaxRates <- 0,
    MaxDeployments <- 1, MaxFaults <- 1, Blocking <- FALSE, Overrun <- FALSE,
    row <- outbox, share <- open, applied <- deployed, base <- running, rec <- record

\* Two sessions that come, a queue of one, and a panic the hub recovers from.
Hub == INSTANCE PushHub WITH
    Clients <- {b1, b2}, Handlers <- {h1}, MaxVersion <- 1, OpsQueue <- 1, BroadcastQueue <- 1,
    SendQueue <- 1, Attempts <- 2, MaxPanics <- 1, Stoppable <- FALSE

\* The handler of mail may hang.
Bus == INSTANCE EventBus WITH
    Ids <- {mail, telegram}, MaxSubs <- 2, MaxEvents <- 2, BufferSize <- 1, QueueSize <- 1,
    SlowIds <- {mail}, used <- made, stop <- ending

Writer == INSTANCE TrafficWriter WITH
    Callers <- {traffic, admin}, MaxWrites <- 2, MaxStarts <- 2, QueueSize <- 1

Device == INSTANCE DeviceCap WITH
    Sources <- {1, 2}, Cores <- {"ssh", "xray"}, Limits <- {1}, LiveWindow <- 1,
    StaleAfter <- 2, BanTime <- 1, MaxTime <- 2, MaxConnects <- 2, MaxSilent <- 0, MaxChanges <- 0,
    clock <- now, row <- seen, bans <- dropped, changes <- edits

PortsOf == [c \in {c1} |-> {p1}]

Ban == INSTANCE BanSet WITH
    Clients <- {c1}, Sources <- {s1}, Ports <- {p1, p2}, BanTime <- 1, MaxTime <- 3,
    MaxActs <- 1, MaxFails <- 1, MaxFlushes <- 0, SharedPush <- TRUE, applied <- projected

Quota == INSTANCE QuotaCycle WITH
    Quota <- 2, MaxUse <- 5, MaxEdits <- 0, ResetKinds <- {"all"}, MaxResets <- 1, MaxPeriods <- 1,
    Renews <- FALSE, MaxFaults <- 1, RestartOnDisable <- {TRUE, FALSE}, StartsCut <- FALSE,
    expired <- past, row <- enabled, rec <- entry

ASSUME ProgressParameters ==
    /\ Client!GrantAssumption /\ Client!TermAssumption /\ Credit!RefillAssumption
    /\ Hub!HubAssumption /\ Bus!BusAssumption /\ Writer!WriterAssumption
    /\ Device!DeviceAssumption /\ Ban!BanAssumption /\ Quota!QuotaAssumption

rateVars == <<bound, part, demand, jobs, online, fetched, force, acks, interventions>>
clientVars ==
    <<current, pending, term, expired, place, share, row, stop, deps, applied, base, intent, rec,
      post, receipts, source, work, resetting, changes, other>>
creditVars ==
    <<issued, budget, outbox, obs, sequence, fresh, candidate, queue, refills, open, update,
      desired, deployed, dep, running, record, told, report, reported, due, batch, job, rates, faults>>
hubVars ==
    <<hub, attempts, cancelled, clients, ops, broadcast, send, closed, conn, shown, since, version,
      recent, handler, lost>>
busVars == <<ch, published, subs, sub, made, handled, missed, ending, dispatcher>>
writerVars == <<mu, gen, writer, started, server, caller, written, answered>>
deviceVars ==
    <<now, live, entering, limit, seen, dropped, pc, scan, over, decidedAt, settled, raced,
      connects, silences, edits>>
banVars == <<clock, rows, fw, projected, primed, step, at, want, own, acts, fails, flushes>>
quotaVars ==
    <<used, past, enabled, entry, blob, core, restart, need, lock, poll, edit, reset, owed, left>>
fleetVars == <<rateVars, clientVars, creditVars>>
queueVars == <<hubVars, busVars, writerVars>>
policyVars == <<deviceVars, banVars, quotaVars>>
vars == <<focus, fleetVars, queueVars, policyVars>>

Init ==
    /\ focus \in {"rates", "client", "credit", "hub", "bus", "writer", "device", "ban", "quota"}
    /\ Rates!Init /\ (focus # "rates" => bound = Limited(5, 7))
    /\ Client!Init /\ Credit!Init /\ Hub!Init /\ Bus!Init /\ Writer!Init
    /\ Device!Init /\ Ban!Init /\ Quota!Init

Next ==
    /\ UNCHANGED focus
    /\ \/ focus = "rates" /\ Rates!Next /\ UNCHANGED <<clientVars, creditVars, queueVars, policyVars>>
       \/ focus = "client" /\ Client!Next /\ UNCHANGED <<rateVars, creditVars, queueVars, policyVars>>
       \/ focus = "credit" /\ Credit!Next /\ UNCHANGED <<rateVars, clientVars, queueVars, policyVars>>
       \/ focus = "hub" /\ Hub!Next /\ UNCHANGED <<fleetVars, busVars, writerVars, policyVars>>
       \/ focus = "bus" /\ Bus!Next /\ UNCHANGED <<fleetVars, hubVars, writerVars, policyVars>>
       \/ focus = "writer" /\ Writer!Next /\ UNCHANGED <<fleetVars, hubVars, busVars, policyVars>>
       \/ focus = "device" /\ Device!Next /\ UNCHANGED <<fleetVars, queueVars, banVars, quotaVars>>
       \/ focus = "ban" /\ Ban!Next /\ UNCHANGED <<fleetVars, queueVars, deviceVars, quotaVars>>
       \/ focus = "quota" /\ Quota!Next /\ UNCHANGED <<fleetVars, queueVars, deviceVars, banVars>>
-----------------------------------------------------------------------------
(* The fairness of each component, of the behaviours that follow it.  What *)
(* is strongly fair in a component is weakly fair here: with the bounds of *)
(* the instances it is disturbed finitely often.                           *)

RatesFair ==
    /\ \A m \in {1, 2} : WF_rateVars(focus = "rates" /\ Rates!Fetch(m))
    /\ WF_rateVars(focus = "rates" /\ \E u \in fetched : Rates!Apply(u))
    /\ WF_rateVars(focus = "rates" /\ \E u \in acks : Rates!Acknowledge(u))

ClientFair ==
    /\ WF_clientVars(focus = "client" /\ Client!FinishReset)
    /\ WF_clientVars(focus = "client" /\ Client!ProofStep(n1))
    /\ WF_clientVars(focus = "client" /\ Client!StopStream(n1))
    /\ WF_clientVars(focus = "client" /\ Client!Republish(n1))
    /\ WF_clientVars(focus = "client" /\ Client!Deploys(n1))
    /\ WF_clientVars(focus = "client" /\ Client!Reports(n1))
    /\ WF_clientVars(focus = "client" /\ Client!Fetches(n1))
    /\ WF_clientVars(focus = "client" /\ Client!Intends(n1))
    /\ WF_clientVars(focus = "client" /\ Client!Enforces(n1))
    /\ WF_clientVars(focus = "client" /\ Client!Acknowledges(n1))

CreditFair ==
    /\ WF_creditVars(focus = "credit" /\ Credit!Capture)
    /\ WF_creditVars(focus = "credit" /\ Credit!Ingest)
    /\ WF_creditVars(focus = "credit" /\ Credit!AcknowledgeReport)
    /\ WF_creditVars(focus = "credit" /\ Credit!Fetch)
    /\ SF_creditVars(focus = "credit" /\ Credit!Post)
    /\ WF_creditVars(focus = "credit" /\ Credit!AcknowledgeCredit)
    /\ WF_creditVars(focus = "credit" /\ Credit!Deploy)
    /\ WF_creditVars(focus = "credit" /\ Credit!Observe)
    /\ WF_creditVars(focus = "credit" /\ Credit!TakeUpdate(1))
    /\ WF_creditVars(focus = "credit" /\ Credit!ConfirmUpdate(1))
    /\ WF_creditVars(focus = "credit" /\ Credit!Claim(w1))
    /\ WF_creditVars(focus = "credit" /\ Credit!Release(w1))
    /\ SF_creditVars(focus = "credit" /\ \E s \in 1..sequence : Credit!Refill(w1, 1, s))

HubFair ==
    /\ WF_hubVars(focus = "hub" /\ Hub!HandleOp)
    /\ WF_hubVars(focus = "hub" /\ Hub!Fanout)
    /\ WF_hubVars(focus = "hub" /\ Hub!Resume)
    /\ \A c \in {b1, b2} :
          /\ WF_hubVars(focus = "hub" /\ Hub!Register(c))
          /\ WF_hubVars(focus = "hub" /\ Hub!Write(c))
          /\ WF_hubVars(focus = "hub" /\ Hub!Unregister(c))

BusFair ==
    /\ WF_busVars(focus = "bus" /\ Bus!Dispatch)
    /\ WF_busVars(focus = "bus" /\ Bus!DispatchEnds)
    /\ WF_busVars(focus = "bus" /\ Bus!StopCloses)
    /\ WF_busVars(focus = "bus" /\ Bus!StopReturns)
    /\ \A n \in {1, 2} :
          /\ WF_busVars(focus = "bus" /\ Bus!Take(n))
          /\ WF_busVars(focus = "bus" /\ Bus!WorkerEnds(n))
          /\ WF_busVars(focus = "bus" /\ sub[n].id # mail /\ Bus!Return(n))

WriterFair ==
    /\ WF_writerVars(focus = "writer" /\ Writer!StopEnds)
    /\ \A c \in {traffic, admin} :
          /\ WF_writerVars(focus = "writer" /\ Writer!TimesOut(c))
          /\ WF_writerVars(focus = "writer" /\ Writer!RunsInline(c))
          /\ WF_writerVars(focus = "writer" /\ Writer!Hears(c))
    /\ \A g \in {1, 2} :
          /\ WF_writerVars(focus = "writer" /\ Writer!Takes(g))
          /\ WF_writerVars(focus = "writer" /\ Writer!Finishes(g))
          /\ WF_writerVars(focus = "writer" /\ Writer!Ends(g))

DeviceFair ==
    /\ WF_deviceVars(focus = "device" /\ Device!Tick)
    /\ WF_deviceVars(focus = "device" /\ Device!Observe({}, {}))
    /\ WF_deviceVars(focus = "device" /\ Device!Evaluate)
    /\ WF_deviceVars(focus = "device" /\ Device!Act)
    /\ \A s \in {1, 2}, c \in {"ssh", "xray"} :
          /\ WF_deviceVars(focus = "device" /\ Device!DropEnds(s, c))
          /\ WF_deviceVars(focus = "device" /\ Device!Enter(s, c))

BanFair ==
    /\ WF_banVars(focus = "ban" /\ Ban!QuietPass)
    /\ WF_banVars(focus = "ban" /\ Ban!Tick)
    /\ \A a \in {"job", "operator", "push"} :
          /\ WF_banVars(focus = "ban" /\ Ban!Read(a))
          /\ WF_banVars(focus = "ban" /\ Ban!Converge(a, TRUE))

QuotaFair ==
    /\ WF_quotaVars(focus = "quota" /\ Quota!EditCommits)
    /\ WF_quotaVars(focus = "quota" /\ Quota!Restart)
    /\ WF_quotaVars(focus = "quota" /\ Quota!Poll)
    /\ WF_quotaVars(focus = "quota" /\ Quota!Reset)

Spec ==
    /\ Init /\ [][Next]_vars
    /\ RatesFair /\ ClientFair /\ CreditFair
    /\ HubFair /\ BusFair /\ WriterFair
    /\ DeviceFair /\ BanFair /\ QuotaFair
-----------------------------------------------------------------------------
\* What a share no longer needs comes back to the pool: a member that stays online is told its
\* rate and confirms it, whatever was lost on the way.
Released == Rates!Released

\* What an operator began is carried out: a reset ends, a stop that the source work requires is
\* proved, and every deployment that was published is applied.
ChangesEnd == Client!ResetsEnd /\ Client!StopsAdvance /\ Client!DeploymentsApplied

\* A grant that runs low is refilled while the budget lasts, and the credit reaches the node.
CreditArrives == Credit!LowIsRefilled /\ Credit!CreditArrives

\* Nobody waits for ever on a full queue: a session is served or closed, a handler that hangs
\* keeps no event from the others, every submitted write is answered, and stops return.
QueuesServe ==
    /\ Hub!ServedOrClosed
    /\ Bus!NotStalled /\ Bus!StopEnds
    /\ Writer!Answered /\ Writer!StopReturns

\* Policy prevails: what is live comes down to the cap, the firewall follows the rows of the bans,
\* and a client whose quota is exhausted is cut off.
CutsArrive == Device!CapPrevails /\ Ban!FirewallFollows /\ Quota!ExhaustedGoes
=============================================================================
