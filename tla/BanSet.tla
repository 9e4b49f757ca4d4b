------------------------------- MODULE BanSet -------------------------------
(***************************************************************************)
(* Bans: rows in the database, and the firewall set they are projected on. *)
(* The pass of the job, the operator and a master that pushes its own bans *)
(* change the rows, each then reads them and writes the firewall; the      *)
(* manager skips a write that would change nothing.  The kernel lets an    *)
(* element go at its deadline.  Time is in seconds.                        *)
(***************************************************************************)
EXTENDS Integers, FiniteSets, FiniteSetsExt

CONSTANTS
    Clients, Sources, Ports,
    PortsOf,      \* per client, the ports of its inbounds here
    BanTime, MaxTime,
    MaxActs,      \* changes of the rows
    MaxFails,     \* writes of the firewall that fail, and restarts
    MaxFlushes,   \* times the firewall is emptied by someone else
    SharedPush    \* the master also pushes reports of shared addresses

BanAssumption ==
    /\ PortsOf \in [Clients -> SUBSET Ports] /\ SharedPush \in BOOLEAN
    /\ {BanTime, MaxTime, MaxActs, MaxFails, MaxFlushes} \subseteq Nat /\ MaxTime > 0

Operator == "operator"  \* its rows have no client
Keys == (Clients \cup {Operator}) \X Sources
Places == Sources \X Ports
NoRow == [until |-> 0, kind |-> "none", origin |-> "none"]
Actors == {"job", "operator", "push"}

VARIABLES
    clock,
    rows,     \* client_bans, by client and source
    fw,       \* per source and port, when the kernel lets the element go
    applied,  \* the fingerprint of the last set written (Manager.applied)
    primed,   \* Manager.primed
    step,     \* per actor: "idle", "read", "write"
    at,       \* per actor, its now
    want,     \* per actor, the entries it read
    own,      \* per key, the deadline of the ban this host's pass decided (observer)
    acts, fails, flushes

kernelVars == <<fw, applied, primed>>
actorVars == <<step, at, want>>
counters == <<acts, fails, flushes>>
vars == <<clock, rows, kernelVars, actorVars, own, counters>>

Nothing == [x \in Places |-> 0]

\* Mutant: a manager that has written nothing takes the empty set for what is in the kernel.
FreshPrimed == TRUE

\* Manager.primed of a new process
Fresh == FALSE

Init ==
    /\ clock = 1 /\ rows = [k \in Keys |-> NoRow]
    /\ fw = Nothing /\ applied = Nothing /\ primed = Fresh
    /\ step = [a \in Actors |-> "idle"] /\ at = [a \in Actors |-> 0] /\ want = [a \in Actors |-> Nothing]
    /\ own = [k \in Keys |-> 0] /\ acts = 0 /\ fails = 0 /\ flushes = 0

Drops(x) == fw[x] > clock

\* The ports of a row: none for a report, all of this host for the operator's
RowPorts(k, r) ==
    CASE r.kind = "over" -> PortsOf[k[1]]
      [] r.kind = "operator" -> Ports
      [] OTHER -> {}

\* pruneExpiredBans
Pruned(rs, now) == [k \in Keys |-> IF rs[k].until <= now THEN NoRow ELSE rs[k]]

Starts(a) == step[a] = "idle" /\ step' = [step EXCEPT ![a] = "read"] /\ at' = [at EXCEPT ![a] = clock]
Acting == acts < MaxActs /\ acts' = acts + 1

-----------------------------------------------------------------------------
(* The changes of the rows                                                 *)

NewRow(kind, origin) == [until |-> clock + BanTime, kind |-> kind, origin |-> origin]

\* A row that exists is left as it is, except that a ban replaces a report.
Recorded(k, kind) ==
    LET r == Pruned(rows, clock)[k]
    IN  CASE r = NoRow -> NewRow(kind, "here")
          [] r.kind = "shared" /\ kind = "over" -> [r EXCEPT !.kind = kind, !.until = clock + BanTime]
          [] OTHER -> r

\* The pass: RecordBans for an address over its cap, or nothing to record
RecordBans(k, kind) ==
    /\ k[1] # Operator /\ Acting /\ Starts("job")
    /\ rows' = [Pruned(rows, clock) EXCEPT ![k] = Recorded(k, kind)]
    /\ own' = IF kind = "over" /\ rows'[k] # Pruned(rows, clock)[k]
              THEN [own EXCEPT ![k] = clock + BanTime] ELSE own
    /\ UNCHANGED <<clock, kernelVars, want, fails, flushes>>

QuietPass ==
    /\ Starts("job")
    /\ UNCHANGED <<clock, rows, kernelVars, want, own, counters>>

\* ReleaseSource
Release(s) ==
    /\ Acting /\ Starts("operator")
    /\ rows' = [k \in Keys |-> IF k[2] = s THEN NoRow ELSE rows[k]]
    /\ own' = [k \in Keys |-> IF k[2] = s THEN 0 ELSE own[k]]
    /\ UNCHANGED <<clock, kernelVars, want, fails, flushes>>

BanAddress(s) ==
    /\ Acting /\ Starts("operator")
    /\ rows' = [rows EXCEPT ![<<Operator, s>>] = NewRow("operator", "here")]
    /\ UNCHANGED <<clock, kernelVars, want, own, fails, flushes>>

\* Mutant: a push replaces the row of the pair, whoever decided it.
MayReplaceAny(r) == TRUE

\* The rows a push may change
MayReplace(r) == r = NoRow \/ r.origin = "master"

\* AcceptBans: the set of the master is held, and what it no longer sends is dropped.
AcceptBans(pushed, kind) ==
    /\ Acting /\ Starts("push")
    /\ kind = "shared" => SharedPush
    /\ rows' = [k \in Keys |->
                   CASE k \in pushed /\ MayReplace(rows[k]) -> NewRow(kind, "master")
                     [] k \notin pushed /\ rows[k].origin = "master" -> NoRow
                     [] OTHER -> rows[k]]
    /\ UNCHANGED <<clock, kernelVars, want, own, fails, flushes>>

-----------------------------------------------------------------------------
(* ConvergeBans                                                            *)

\* liveSorted: one element, with the latest deadline
Deadline(U) == IF U = {} THEN 0 ELSE Max(U)

Entries(rs) ==
    [x \in Places |-> Deadline({rs[k].until : k \in {j \in Keys : rs[j] # NoRow /\ j[2] = x[1] /\ x[2] \in RowPorts(j, rs[j])}})]

Read(a) ==
    /\ step[a] = "read" /\ step' = [step EXCEPT ![a] = "write"]
    /\ rows' = Pruned(rows, at[a])
    /\ want' = [want EXCEPT ![a] = Entries(Pruned(rows, at[a]))]
    /\ UNCHANGED <<clock, kernelVars, at, own, counters>>

Ends(a) ==
    /\ step' = [step EXCEPT ![a] = "idle"] /\ at' = [at EXCEPT ![a] = 0]
    /\ want' = [want EXCEPT ![a] = Nothing]

\* Mutant: what is wanted is remembered before it is written.
RememberedFirst(a) == want[a]

\* What a write that failed leaves in memory
Remembered(a) == applied

\* Mutant: the deadline is given as the timeout.
TimeoutsAbsolute(a) == [x \in Places |-> IF want[a][x] = 0 THEN 0 ELSE clock + want[a][x]]

\* The elements as the kernel takes them: a timeout from now, counted from the actor's now
Timeouts(a) == [x \in Places |-> IF want[a][x] = 0 THEN 0 ELSE clock + want[a][x] - at[a]]

\* Manager.Converge; the table is replaced in one transaction, or it is left as it is.
Converge(a, written) ==
    /\ step[a] = "write" /\ Ends(a)
    /\ written => fails' = fails
    /\ ~written => fails < MaxFails /\ fails' = fails + 1
    /\ IF primed /\ applied = want[a] THEN written /\ UNCHANGED kernelVars
       ELSE IF written THEN fw' = Timeouts(a) /\ applied' = want[a] /\ primed' = TRUE
       ELSE applied' = Remembered(a) /\ UNCHANGED <<fw, primed>>
    /\ UNCHANGED <<clock, rows, own, acts, flushes>>

PanelRestarts ==
    /\ fails < MaxFails /\ fails' = fails + 1
    /\ step' = [a \in Actors |-> "idle"] /\ at' = [a \in Actors |-> 0] /\ want' = [a \in Actors |-> Nothing]
    /\ applied' = Nothing /\ primed' = Fresh
    /\ UNCHANGED <<clock, rows, fw, own, acts, flushes>>

\* Another tool flushes the ruleset.
Flush ==
    /\ flushes < MaxFlushes /\ flushes' = flushes + 1 /\ fw' = Nothing
    /\ UNCHANGED <<clock, rows, applied, primed, actorVars, own, acts, fails>>

Tick ==
    /\ clock < MaxTime /\ clock' = clock + 1
    /\ UNCHANGED <<rows, kernelVars, actorVars, own, counters>>

-----------------------------------------------------------------------------
Next ==
    \/ \E k \in Keys, kind \in {"over", "shared"} : RecordBans(k, kind)
    \/ \E s \in Sources : Release(s) \/ BanAddress(s)
    \/ \E pushed \in {P \in SUBSET (Clients \X Sources) : Cardinality(P) <= 1}, kind \in {"over", "shared"} :
          AcceptBans(pushed, kind)
    \/ \E a \in Actors : Read(a) \/ \E written \in BOOLEAN : Converge(a, written)
    \/ QuietPass \/ PanelRestarts \/ Flush \/ Tick

Fairness ==
    /\ WF_vars(QuietPass) /\ WF_vars(Tick)
    /\ \A a \in Actors : WF_vars(Read(a)) /\ WF_vars(Converge(a, TRUE))

Spec == Init /\ [][Next]_vars
FairSpec == Spec /\ Fairness

-----------------------------------------------------------------------------
(* Properties                                                              *)

Row == [until : 1..MaxTime + BanTime, kind : {"over", "shared", "operator"}, origin : {"here", "master"}]

TypeOK ==
    /\ clock \in 1..MaxTime /\ rows \in [Keys -> Row \cup {NoRow}]
    /\ fw \in [Places -> 0..2 * MaxTime + BanTime - 1] /\ applied \in [Places -> 0..MaxTime + BanTime]
    /\ primed \in BOOLEAN /\ step \in [Actors -> {"idle", "read", "write"}]

\* A convergence that reports success has left the firewall with exactly the bans it read:
\* what is wanted and has not lapsed is dropped, and nothing else is.
Projected ==
    \A a \in Actors : Converge(a, TRUE) =>
        \A x \in Places : /\ want[a][x] > clock => fw'[x] > clock
                          /\ want[a][x] = 0 => fw'[x] <= clock
ConvergedIsTrue == [][Projected]_vars

\* A ban this host decided holds until its deadline or the operator's release: neither a
\* push of a master nor a later pass ends, empties or prolongs it.
OwnBanHolds ==
    \A k \in Keys : own[k] > clock => (rows[k].kind = "over" /\ rows[k].until = own[k])

\* Whatever order rows were read and written in, and whichever writes failed, the firewall
\* ends up with the bans that are in the rows.
FirewallFollows ==
    <>[](\A x \in Places : Drops(x) <=> Entries(rows)[x] > clock)
=============================================================================
