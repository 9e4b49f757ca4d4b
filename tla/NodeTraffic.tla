----------------------------- MODULE NodeTraffic -----------------------------
(***************************************************************************)
(* A client on several managed nodes: each counts its bytes and renews its *)
(* term when it has ended, and the panel makes one row of what they        *)
(* report.  A snapshot is fetched, and merged later: meanwhile the node    *)
(* may have moved on, the operator may have reset the client, and an edit  *)
(* may have marked the node dirty.  Time is in periods of the client.      *)
(***************************************************************************)
EXTENDS Integers, FiniteSetsExt

CONSTANTS
    Nodes,
    Legacy,      \* nodes of a build that reports no renewal generation, until they are upgraded
    MaxBytes, MaxTime,
    MaxResets,   \* resets by the operator
    MaxEdits,    \* edits that mark a node dirty
    MaxFaults,   \* torn snapshots, counters that a node sets back by itself, and renewals
                 \* that fall between a push and its snapshot
    None

NodeTrafficAssumption ==
    /\ Legacy \subseteq Nodes /\ {MaxBytes, MaxTime, MaxResets, MaxEdits, MaxFaults} \subseteq Nat

Nil == -1  \* a renewal generation that is not known

VARIABLES
    clock,
    count,   \* per node, the counter of its row
    gen,     \* per node, its reset_count, or Nil
    exp,     \* per node, the period the client is paid for: it has ended when exp <= clock
    was,     \* per node, the period before that
    row,     \* client_traffics of the panel: used, exp, gen
    base,    \* per node, its node_client_traffics
    dirty,   \* per node
    pushed,  \* per node, whether this run of the job has pushed to it
    snap,    \* per node, the snapshot to be merged, or None
    total,   \* per node, bytes moved ever (observer)
    start,   \* per node, total when its counter was last zero (observer)
    seen,    \* per node, total at the last snapshot merged (observer)
    mark,    \* per node, what was counted before the last reset (observer)
    should,  \* what the row is to show (observer)
    left     \* what remains of the bounds

nodeVars == <<count, gen, exp, was, total, start>>
syncVars == <<dirty, pushed, snap>>
panelVars == <<row, base, seen, mark, should>>
vars == <<clock, nodeVars, syncVars, panelVars, left>>

Unseen == [seen |-> FALSE, count |-> 0, rc |-> Nil, obs |-> Nil, pending |-> FALSE, after |-> Nil]
Zero == [n \in Nodes |-> 0]

\* The client is on every node; the panel has merged a snapshot of none yet.
Init ==
    /\ clock = 0 /\ count = Zero /\ gen = [n \in Nodes |-> IF n \in Legacy THEN Nil ELSE 0]
    /\ exp = [n \in Nodes |-> 1] /\ was = exp
    /\ row = [used |-> 0, exp |-> 1, gen |-> 0] /\ base = [n \in Nodes |-> Unseen]
    /\ dirty = [n \in Nodes |-> FALSE] /\ pushed = dirty /\ snap = [n \in Nodes |-> None]
    /\ total = Zero /\ start = Zero /\ seen = Zero /\ mark = Zero /\ should = 0
    /\ left = [bytes |-> MaxBytes, resets |-> MaxResets, edits |-> MaxEdits, faults |-> MaxFaults]

Spends(what) == left[what] > 0 /\ left' = [left EXCEPT ![what] = @ - 1]

-----------------------------------------------------------------------------
(* The nodes                                                               *)

Moves(n) ==
    /\ Spends("bytes") /\ exp[n] > clock
    /\ count' = [count EXCEPT ![n] = @ + 1] /\ total' = [total EXCEPT ![n] = @ + 1]
    /\ UNCHANGED <<clock, gen, exp, was, start, syncVars, panelVars>>

\* autoRenewClients: one generation for every period that has ended
NodeRenews(n) ==
    /\ exp[n] <= clock /\ IF pushed[n] THEN Spends("faults") ELSE UNCHANGED left
    /\ exp' = [exp EXCEPT ![n] = clock + 1] /\ was' = [was EXCEPT ![n] = exp[n]]
    /\ gen' = [gen EXCEPT ![n] = IF @ = Nil THEN Nil ELSE @ + clock + 1 - exp[n]]
    /\ count' = [count EXCEPT ![n] = 0] /\ start' = [start EXCEPT ![n] = total[n]]
    /\ UNCHANGED <<clock, total, syncVars, panelVars>>

\* The counter is set back without a renewal, by the panel's own call or on the node.
NodeResets(n) ==
    /\ Spends("faults") /\ count[n] > 0
    /\ count' = [count EXCEPT ![n] = 0] /\ start' = [start EXCEPT ![n] = total[n]]
    /\ UNCHANGED <<clock, gen, exp, was, total, syncVars, panelVars>>

\* A build that reports generations: they start at zero.
Upgrade(n) ==
    /\ gen[n] = Nil /\ gen' = [gen EXCEPT ![n] = 0]
    /\ UNCHANGED <<clock, count, exp, was, total, start, syncVars, panelVars, left>>

Tick ==
    /\ clock < MaxTime /\ clock' = clock + 1
    /\ UNCHANGED <<nodeVars, syncVars, panelVars, left>>

-----------------------------------------------------------------------------
(* The panel                                                               *)

\* An edit of something else on the node
Edit(n) ==
    /\ Spends("edits") /\ dirty' = [dirty EXCEPT ![n] = TRUE]
    /\ UNCHANGED <<clock, nodeVars, pushed, snap, panelVars>>

\* reset_after_count
Boundary(b) == IF b.obs # Nil THEN b.obs ELSE IF b.rc # Nil THEN b.rc ELSE 0

\* The resets by the operator and by the schedule.  That of one client in one inbound marks the
\* inbound's node dirty, the others mark none; a node without a baseline has nothing to set.
Reset(marked) ==
    /\ Spends("resets") /\ dirty' = [n \in Nodes |-> dirty[n] \/ n \in marked]
    /\ row' = [row EXCEPT !.used = 0] /\ should' = 0 /\ mark' = seen
    /\ base' = [n \in Nodes |->
                   IF base[n].seen THEN [base[n] EXCEPT !.pending = TRUE, !.after = Boundary(base[n])] ELSE base[n]]
    /\ UNCHANGED <<clock, nodeVars, pushed, snap, seen>>

\* ReconcileNode and ClearNodeDirty: the node takes the term of the panel.
Push(n) ==
    /\ dirty[n] /\ snap[n] = None /\ ~pushed[n]
    /\ dirty' = [dirty EXCEPT ![n] = FALSE] /\ pushed' = [pushed EXCEPT ![n] = TRUE]
    /\ exp' = [exp EXCEPT ![n] = row.exp] /\ was' = [was EXCEPT ![n] = row.exp]
    /\ UNCHANGED <<clock, count, gen, total, start, snap, panelVars, left>>

\* FetchTrafficSnapshot.  The settings of a torn snapshot are older than its counters.
Fetch(n, torn) ==
    /\ snap[n] = None
    /\ IF torn THEN Spends("faults") /\ was[n] # exp[n] ELSE UNCHANGED left
    /\ snap' = [snap EXCEPT ![n] =
                   [count |-> count[n], gen |-> gen[n], exp |-> exp[n],
                    settings |-> IF torn THEN was[n] ELSE exp[n], total |-> total[n], start |-> start[n]]]
    /\ UNCHANGED <<clock, nodeVars, dirty, pushed, panelVars>>

-----------------------------------------------------------------------------
(* setRemoteTrafficLocked                                                  *)

\* lifecycleFrozen
Frozen(n) == dirty[n] \/ pushed[n]

AtLeast(a, b) == IF a < b THEN b ELSE a

\* What the snapshot adds to the row
Delta(s, b) ==
    CASE ~b.seen \/ b.pending -> 0
      [] s.gen # Nil /\ b.obs # Nil /\ s.gen > b.obs -> s.count
      [] s.gen # Nil /\ b.obs # Nil /\ s.gen < b.obs -> 0
      [] OTHER -> AtLeast(s.count - b.count, 0)

\* The generation up to which renewals are older than the last reset
After(s, b) ==
    CASE b.pending /\ s.gen # Nil -> s.gen
      [] s.gen # Nil /\ b.obs # Nil /\ s.gen < b.obs -> Nil
      [] OTHER -> b.after

Previous(b) == IF b.rc = Nil THEN 0 ELSE b.rc

\* A renewal that happened while the node was upgraded
LegacyTransition(s, b) == b.rc = Nil /\ b.obs = Nil /\ s.gen = 0 /\ row.exp <= clock

Coherent(s) == s.settings = s.exp

\* mergeTrackedNodeLifecycle: the node is further than the panel, and has renewed
TrackedRenewal(n, s, b) ==
    /\ ~Frozen(n) /\ Coherent(s) /\ b.seen /\ s.exp > row.exp
    /\ s.gen > Previous(b) \/ LegacyTransition(s, b)

\* Whether the generation is taken as dealt with
Acknowledges(n, s) == ~Frozen(n) /\ Coherent(s)

\* Mutant: a renewal that is older than the last reset is taken like any other.
PreservesNever(s, b) == FALSE

\* preserveResetUsage
Preserves(s, b) == After(s, b) # Nil /\ s.gen <= After(s, b)

\* nodeClientRenewed, for a node without generations
LegacyRenewal(s, b) == b.seen /\ s.exp > row.exp /\ s.count < b.count

Tracked(n, s) == Frozen(n) \/ s.gen # Nil

\* The row starts anew with what the node has counted since it renewed.
StartsAnew(n, s, b) ==
    IF Tracked(n, s) THEN TrackedRenewal(n, s, b) /\ ~Preserves(s, b) ELSE LegacyRenewal(s, b)

MergedRow(n, s, b) ==
    [used |-> IF StartsAnew(n, s, b) THEN s.count ELSE row.used + Delta(s, b),
     exp  |-> IF Tracked(n, s) /\ ~TrackedRenewal(n, s, b) THEN row.exp ELSE s.exp,
     gen  |-> IF Tracked(n, s) /\ TrackedRenewal(n, s, b) THEN row.gen + AtLeast(s.gen - Previous(b), 1) ELSE row.gen]

\* upsertNodeBaseline
Baseline(n, s, b) ==
    [seen |-> TRUE, count |-> s.count, obs |-> s.gen, pending |-> FALSE, after |-> After(s, b),
     rc |-> IF Tracked(n, s) /\ ~Acknowledges(n, s) THEN b.rc ELSE s.gen]

\* liftTrackedNodeLifecycle: the node is told the term of the panel when it has another
Lifts(n, s, b) == (pushed[n] \/ s.gen # Nil) /\ s.settings # MergedRow(n, s, b).exp

\* What the row is to show, from the bytes that were moved: those no earlier snapshot has
\* reported, and none from before the node's own renewal or counted before the last reset
Fresh(n, s, from) == s.total - Max({from, s.start, mark[n]})
Due(n, s, b) ==
    CASE StartsAnew(n, s, b) -> AtLeast(Fresh(n, s, 0), 0)
      [] ~b.seen -> should
      [] OTHER -> should + AtLeast(Fresh(n, s, seen[n]), 0)

Merge(n) ==
    LET s == snap[n]
        b == base[n]
    IN  /\ s # None
        /\ row' = MergedRow(n, s, b) /\ base' = [base EXCEPT ![n] = Baseline(n, s, b)]
        /\ dirty' = [dirty EXCEPT ![n] = @ \/ Lifts(n, s, b)]
        /\ snap' = [snap EXCEPT ![n] = None] /\ pushed' = [pushed EXCEPT ![n] = FALSE]
        /\ seen' = [seen EXCEPT ![n] = s.total] /\ should' = Due(n, s, b)
        /\ UNCHANGED <<clock, nodeVars, mark, left>>

-----------------------------------------------------------------------------
Sync(n) == Push(n) \/ Fetch(n, FALSE) \/ Merge(n)

Next ==
    \/ \E n \in Nodes :
          Moves(n) \/ NodeRenews(n) \/ NodeResets(n) \/ Upgrade(n) \/ Edit(n) \/ Fetch(n, TRUE) \/ Sync(n)
    \/ \E marked \in {{}} \cup {{n} : n \in Nodes} : Reset(marked)
    \/ Tick

\* The job is run every few seconds, and a run that finds the node dirty begins with the push;
\* a node looks for terms that have ended as often.
Fairness ==
    \A n \in Nodes :
        WF_vars(NodeRenews(n)) /\ SF_vars(Push(n)) /\ WF_vars(Fetch(n, FALSE)) /\ WF_vars(Merge(n))

Spec == Init /\ [][Next]_vars
FairSpec == Spec /\ Fairness

-----------------------------------------------------------------------------
(* Properties                                                              *)

Generation == Nat \cup {Nil}

TypeOK ==
    /\ clock \in 0..MaxTime /\ row.used \in 0..MaxBytes /\ row.exp \in 1..MaxTime + 1 /\ row.gen \in Nat
    /\ \A n \in Nodes :
          /\ count[n] \in 0..MaxBytes /\ gen[n] \in Generation /\ exp[n] \in 1..MaxTime + 1
          /\ {base[n].rc, base[n].obs, base[n].after} \subseteq Generation
          /\ {dirty[n], pushed[n], base[n].seen, base[n].pending} \subseteq BOOLEAN

\* No byte is counted twice and none comes back after a reset, whatever the order of
\* snapshots, renewals, resets, pushes and merges that were put off.
NeverTwice == row.used <= should

\* Nodes that report generations lose nothing of what they have reported, unless a counter
\* was set back under them or the operator has reset the client.
CountedInFull ==
    Legacy = {} /\ left.resets = MaxResets /\ left.faults = MaxFaults => row.used = should

\* A client that renews on its nodes is not left expired on the panel.
RenewalArrives == <>[](row.exp > clock)
=============================================================================
