----------------------------- MODULE DeviceCap -----------------------------
(***************************************************************************)
(* The cap on the addresses one client is live from.  A pass asks the      *)
(* cores for their sessions, decides in a transaction who holds a slot,    *)
(* and then cuts and bans who does not; meanwhile devices come and go, and *)
(* cores that ask at a login are answered from the row the last pass left. *)
(* One client and one host; what nodes report and addresses shared between *)
(* clients are left out.  Time is in seconds.                              *)
(***************************************************************************)
EXTENDS Integers, FiniteSets, FiniteSetsExt

CONSTANTS
    Sources,     \* addresses, as numbers: ties are broken by their order
    Cores,       \* a subset of {"ssh", "singbox", "xray"}
    Limits,      \* caps the operator may set; 0 is no cap
    LiveWindow,  \* ipLimitLiveWindow
    StaleAfter,  \* ipLimitStaleAfter
    BanTime,     \* the operator's ban duration
    MaxTime, MaxConnects, MaxSilent, MaxChanges

DeviceAssumption ==
    /\ Sources \subseteq Nat /\ Limits \subseteq Nat
    /\ Cores \subseteq {"ssh", "singbox", "xray"}
    /\ {LiveWindow, StaleAfter, BanTime, MaxTime, MaxConnects, MaxSilent, MaxChanges} \subseteq Nat

VARIABLES
    clock,
    live,      \* per source and core, when its session opened, or 0
    entering,  \* logins that were admitted and are not yet sessions
    limit,
    row,       \* per source, what inbound_client_ips holds: last seen (0: nothing) and first seen
    bans,      \* per source, the deadline of its ban, or 0
    pc,        \* "idle", "observed" or "decided"
    scan,      \* per source, what the cores said of it
    over,      \* the addresses the decision names over the cap
    settled,   \* those that a decision kept, live ever since and never named over (observer)
    decidedAt, \* when the last decision was made
    raced,     \* sessions of others that a decision did not see, or opened in the second of it (observer)
    connects, silences, changes

passVars == <<pc, scan, over, decidedAt>>
counters == <<connects, silences, changes>>
vars == <<clock, live, entering, limit, row, bans, passVars, settled, raced, counters>>

Unseen == [by |-> {}, last |-> 0, first |-> 0]
NoEntry == [last |-> 0, first |-> 0]

Init ==
    /\ clock = 1 /\ live = [s \in Sources |-> [c \in Cores |-> 0]]
    /\ entering = {} /\ limit \in Limits
    /\ row = [s \in Sources |-> NoEntry] /\ bans = [s \in Sources |-> 0]
    /\ pc = "idle" /\ scan = [s \in Sources |-> Unseen] /\ over = {}
    /\ decidedAt = 0 /\ settled = {} /\ raced = {}
    /\ connects = 0 /\ silences = 0 /\ changes = 0

OnCores(s) == {c \in Cores : live[s][c] # 0}
Live == {s \in Sources : OnCores(s) # {}}
Dropped(s) == bans[s] > clock

\* Observers forget a device that has gone.
Gone(s) == \A c \in Cores : live'[s][c] = 0
Watch == settled' = {s \in settled : ~Gone(s)}
WatchStart(s, c) ==
    raced' = IF pc = "observed" \/ clock = decidedAt THEN raced \cup {<<s, c>>} ELSE raced

-----------------------------------------------------------------------------
(* The cores and their devices                                             *)

Admits(c) == c = "ssh"
KnowsStart(c) == c \in {"ssh", "singbox"}

\* policy.Admit
Admit(held, s) == limit = 0 \/ s \in held \/ Cardinality(held) < limit

\* AdmitLogin: the core's own sources and the row's within the window; a database that
\* does not answer in time adds none.
Held(c, reachable) ==
    {s \in Sources : live[s][c] # 0}
        \cup {s \in Sources : reachable /\ row[s].last # 0 /\ row[s].last >= clock - LiveWindow}

Login(s, c, reachable) ==
    /\ Admits(c) /\ live[s][c] = 0 /\ <<s, c>> \notin entering /\ ~Dropped(s)
    /\ connects < MaxConnects /\ connects' = connects + 1
    /\ ~reachable => silences < MaxSilent
    /\ silences' = IF reachable THEN silences ELSE silences + 1
    /\ Admit(Held(c, reachable), s)
    /\ entering' = entering \cup {<<s, c>>}
    /\ UNCHANGED <<clock, live, limit, row, bans, passVars, settled, raced, changes>>

Enter(s, c) ==
    /\ <<s, c>> \in entering /\ entering' = entering \ {<<s, c>>}
    /\ live' = [live EXCEPT ![s][c] = clock] /\ WatchStart(s, c)
    /\ UNCHANGED <<clock, limit, row, bans, passVars, settled, counters>>

Connect(s, c) ==
    /\ ~Admits(c) /\ live[s][c] = 0 /\ ~Dropped(s)
    /\ connects < MaxConnects /\ connects' = connects + 1
    /\ live' = [live EXCEPT ![s][c] = clock] /\ WatchStart(s, c)
    /\ UNCHANGED <<clock, entering, limit, row, bans, passVars, settled, silences, changes>>

Leave(s, c) ==
    /\ live[s][c] # 0 /\ live' = [live EXCEPT ![s][c] = 0] /\ Watch
    /\ UNCHANGED <<clock, entering, limit, row, bans, passVars, raced, counters>>

Tick ==
    /\ clock < MaxTime /\ clock' = clock + 1
    /\ UNCHANGED <<live, entering, limit, row, bans, passVars, settled, raced, counters>>

SetLimit(n) ==
    /\ n # limit /\ limit' = n
    /\ changes < MaxChanges /\ changes' = changes + 1
    /\ settled' = {} \* another cap, another decision
    /\ UNCHANGED <<clock, live, entering, row, bans, passVars, raced, connects, silences>>

-----------------------------------------------------------------------------
(* The pass                                                                *)

Earliest(T) == IF T \ {0} = {} THEN 0 ELSE Min(T \ {0})

\* ObserveSessions: what the cores that answer say; a session that moved nothing lately
\* was last seen when it opened.
Sighting(s, silent, idle) ==
    LET by == OnCores(s) \ silent
    IN  IF by = {} THEN Unseen
        ELSE [by |-> by,
              last |-> Max({IF s \in idle THEN live[s][c] ELSE clock : c \in by}),
              first |-> Earliest({IF KnowsStart(c) THEN live[s][c] ELSE 0 : c \in by})]

Observe(silent, idle) ==
    /\ pc = "idle" /\ Live # {} /\ (clock > decidedAt \/ clock = MaxTime)  \* every 10 seconds
    /\ silent # {} => silences < MaxSilent
    /\ silences' = IF silent = {} THEN silences ELSE silences + 1
    /\ scan' = [s \in Sources |-> Sighting(s, silent, idle)]
    /\ pc' = "observed"
    /\ UNCHANGED <<clock, live, entering, limit, row, bans, over, decidedAt, settled, raced, connects, changes>>

Seen == {s \in Sources : scan[s].by # {}}

\* The row without what is stale
Known(s) == IF row[s].last < clock - StaleAfter THEN NoEntry ELSE row[s]

\* Mutant: an address seen within the window is live.
CountedRecent == Seen \cup {s \in Sources : Known(s).last # 0 /\ Known(s).last >= clock - LiveWindow}

\* Who counts against the cap: an address that no core reported has ended.
Counted == Seen

\* Mutant: the start of a run is the pass that sees it.
StartNow(s) == IF scan[s].first # 0 THEN scan[s].first ELSE clock

\* The start of a run: the earliest anyone recorded, or this pass
Start(s) ==
    LET e == Earliest({Known(s).first, scan[s].first})
    IN  IF e # 0 THEN e ELSE clock

Before(s, t) == Start(s) < Start(t) \/ (Start(s) = Start(t) /\ s < t)

\* overCap
Keep ==
    {s \in Counted : limit = 0 \/ Cardinality({t \in Counted : Before(t, s)}) < limit}

\* Mutant: the start of a run is kept when it has ended, in milliseconds.
MergedMillis(s) ==
    CASE s \in Seen -> [last |-> Max({Known(s).last, scan[s].last}), first |-> Start(s)]
      [] OTHER -> [last |-> Known(s).last, first |-> 1000 * Known(s).first]

\* merge, as it is written back
Merged(s) ==
    CASE s \in Seen -> [last |-> Max({Known(s).last, scan[s].last}), first |-> Start(s)]
      [] OTHER -> [last |-> Known(s).last, first |-> 0]

\* EvaluateIPLimits; a client nobody saw is not evaluated.
Evaluate ==
    /\ pc = "observed"
    /\ IF Seen = {} THEN over' = {} /\ UNCHANGED <<row, settled, raced>>
       ELSE /\ over' = Counted \ Keep
            /\ row' = [s \in Sources |-> Merged(s)]
            /\ settled' = ((settled \cup Keep) \cap Live) \ over'
            /\ raced' = {r \in (Sources \ settled) \X Cores : live[r[1]][r[2]] # 0 /\ r[2] \notin scan[r[1]].by}
    /\ pc' = "decided" /\ decidedAt' = clock
    /\ UNCHANGED <<clock, live, entering, limit, bans, scan, counters>>

\* cutTargetFor: the first core that saw the address and can cut it
CutBy(s) ==
    CASE "ssh" \in scan[s].by -> {"ssh"}
      [] "ssh" \notin scan[s].by /\ "singbox" \in scan[s].by -> {"singbox"}
      [] OTHER -> {}

\* Mutant: only an address that was cut is banned.
MustBanCut(s) == CutBy(s) = {"singbox"}

\* enforcementFor: where nothing can cut it, or a cut would not last
MustBan(s) == \A c \in CutBy(s) : ~Admits(c)

\* reportOverLimit: the cuts, then the bans; a ban that exists is left as it is.
Act ==
    /\ pc = "decided" /\ pc' = "idle" /\ over' = {}
    /\ scan' = [s \in Sources |-> Unseen]
    /\ live' = [s \in Sources |-> [c \in Cores |->
                   IF s \in over /\ c \in CutBy(s) THEN 0 ELSE live[s][c]]]
    /\ bans' = [s \in Sources |->
                   CASE s \in over /\ MustBan(s) /\ ~Dropped(s) -> clock + BanTime
                     [] Dropped(s) -> bans[s]
                     [] OTHER -> 0]
    /\ Watch
    /\ UNCHANGED <<clock, entering, limit, row, decidedAt, raced, counters>>

-----------------------------------------------------------------------------
Next ==
    \/ \E s \in Sources, c \in Cores :
          \/ \E reachable \in BOOLEAN : Login(s, c, reachable)
          \/ Enter(s, c) \/ Connect(s, c) \/ Leave(s, c)
    \/ \E n \in Limits : SetLimit(n)
    \/ \E silent \in SUBSET Cores, idle \in {{}, Sources} : Observe(silent, idle)
    \/ Tick \/ Evaluate \/ Act

\* A packet of a dropped source goes nowhere, so that its session ends.
DropEnds(s, c) == Dropped(s) /\ Leave(s, c)

Fairness ==
    /\ WF_vars(Tick) /\ WF_vars(Observe({}, {})) /\ WF_vars(Evaluate) /\ WF_vars(Act)
    /\ \A s \in Sources, c \in Cores : WF_vars(DropEnds(s, c)) /\ WF_vars(Enter(s, c))

Spec == Init /\ [][Next]_vars
FairSpec == Spec /\ Fairness

-----------------------------------------------------------------------------
(* Properties                                                              *)

Entry == [last : 0..MaxTime, first : 0..MaxTime]

TypeOK ==
    /\ clock \in 1..MaxTime /\ decidedAt \in 0..clock /\ live \in [Sources -> [Cores -> 0..MaxTime]]
    /\ entering \subseteq Sources \X Cores /\ limit \in Limits
    /\ row \in [Sources -> Entry] /\ bans \in [Sources -> 0..MaxTime + BanTime]
    /\ pc \in {"idle", "observed", "decided"} /\ over \subseteq Sources
    /\ \A s \in Sources : scan[s].by \subseteq Cores /\ [last |-> scan[s].last, first |-> scan[s].first] \in Entry

\* An address is named over its cap only when the cores reported more than the cap at once:
\* a phone that changed networks is not two devices, however recent its old address is.
CapWasExceeded == over # {} /\ limit # 0 /\ changes = 0 => over \subseteq Seen /\ Cardinality(Seen) > limit

\* When the oldest session of an address opened
Opened(s) == Min({live[s][c] : c \in OnCores(s)})

\* Who holds a slot keeps it while connected: an address that was kept under this cap, and
\* that has been live since, is not named over because of devices that came after it.  One
\* that was live and not in the scan of the decision that kept it may be placed before it.
Kept ==
    Evaluate => \A k \in over' \cap settled :
        \/ \E s \in Keep : s \notin Live \/ Opened(s) <= Opened(k)
        \/ \E r \in raced : r[2] \in scan[r[1]].by
KeptStaysKept == [][Kept]_vars

\* Between passes, a login is not admitted while as many addresses as the cap allows hold
\* their slots and are live, unless it comes from one of them: a pass and a login do not
\* disagree about who holds a slot.
LoginAgrees ==
    [][\A s \in Sources, c \in Cores :
          (pc = "idle" /\ Login(s, c, TRUE)) => (limit = 0 \/ s \in settled \/ Cardinality(settled) < limit)]_vars

\* Under the cap in the end: when devices stop coming, passes bring what is live from
\* addresses that are not dropped down to the cap.
CapPrevails == <>[](limit = 0 \/ Cardinality({s \in Live : ~Dropped(s)}) <= limit)
=============================================================================
