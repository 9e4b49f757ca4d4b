------------------------- MODULE ClientTermsProofs --------------------------
(***************************************************************************)
(* Proofs about ClientTerms, for any number of nodes, native ones among    *)
(* them, terms, revisions, deployments, messages in flight and changes.    *)
(*                                                                         *)
(* A policy reaches a node in an outbox row, a fetched update, an intent   *)
(* or a deployment, and any of them may be late.  What matters of it is    *)
(* the revision of the share it was made from (Within): a policy with the  *)
(* share's revision has its rate, one that is not older than the node's    *)
(* record and open is counted as outstanding.  The ledger lowers what is   *)
(* outstanding only when the node's record has reached the share's         *)
(* revision: from then on every open policy that is still on its way is    *)
(* older than the record, which never goes back.  The rest follows: a stop *)
(* proof, a new term and a finished disable all ask that nothing be        *)
(* outstanding.                                                            *)
(*                                                                         *)
(* The second part is about the credit of a runtime, which goes the same   *)
(* ways as a policy: what was issued and has not arrived is carried by a   *)
(* row, an update or a deployment, and nothing more is issued meanwhile.   *)
(***************************************************************************)
EXTENDS Fleet, FiniteSetTheorems, SequenceTheorems, TLAPS

Rows == [update : Updates, place : Nat, acked : 0..MaxRevision, blocked : BOOLEAN]
Deployments == [place : Nat, grant : Policies]
Records == [policy : Policies, revision : Nat, suspended : BOOLEAN]
Placements == [rev : Nat, enabled : BOOLEAN, grant : 0..MaxTerm]

\* What TypeOK says and, for every record, function and queue, its shape.
Shape ==
    /\ current \in 0..MaxTerm /\ pending \in 0..MaxTerm
    /\ term \in [Terms -> {"none", "pending", "active", "draining", "closed"}]
    /\ expired \in BOOLEAN /\ source \in BOOLEAN /\ resetting \in BOOLEAN
    /\ place \in [Nodes -> Placements] /\ work \in [Nodes -> Work]
    /\ share \in [Nodes -> [Terms -> Shares]] /\ row \in [Nodes -> [Terms -> Rows]]
    /\ deps \in [Nodes -> Seq(Deployments)]
    /\ applied \in [Nodes -> Nat] /\ base \in [Nodes -> Nat]
    /\ intent \in [Nodes -> Updates] /\ rec \in [Nodes -> [Terms -> Records]]
    /\ post \in [Nodes -> SUBSET Updates] /\ receipts \in [Nodes -> SUBSET Updates]

\* The deployments of a node: what it runs and what the master counts as
\* applied are among the last two.
Numbered(n) ==
    /\ 1 <= applied[n] /\ applied[n] <= base[n] /\ base[n] <= Desired(n)
    /\ Desired(n) <= applied[n] + 1 /\ Desired(n) <= MaxDeployments

\* A policy p that was made from the share s, and may be in force where r is.
Within(s, r, p) ==
    /\ p.rev <= s.rev
    /\ p.rev = s.rev => p.rate = s.desired
    /\ p.rev >= r.policy.rev /\ p.rate = Open => s.outstanding = Open

\* The share and what was made of it, wherever it is.
GrantSound(n, t) ==
    LET s == share[n][t]
        r == rec[n][t]
    IN  /\ s.desired = Open => s.outstanding = Open
        /\ s.rev = 0 => s.outstanding = Blocked
        /\ Within(s, r, r.policy) /\ Within(s, r, row[n][t].update.policy)
        /\ \A u \in post[n] : u.policy.term = t => Within(s, r, u.policy)
        /\ intent[n].policy.term = t => Within(s, r, intent[n].policy)
        /\ \A i \in applied[n]..Desired(n) :
              deps[n][i].grant.term = t => Within(s, r, deps[n][i].grant)

\* The record of a grant follows what the node has taken, and is of the
\* deployment it runs unless it is suspended.
RecordSound(n, t) ==
    LET r == rec[n][t]
    IN  /\ r.revision = 0 => r.policy.rev = 0
        /\ r.revision > 0 /\ ~r.suspended => r.revision = base[n]
        /\ intent[n].base = base[n] /\ intent[n].policy.term = t => intent[n].policy.rev >= r.policy.rev
        /\ \A u \in receipts[n] : u.policy.term = t => r.policy.rev >= u.policy.rev
        /\ \A i \in applied[n]..base[n] : deps[n][i].grant.term = t => r.policy.rev >= deps[n][i].grant.rev

\* Updates are of a term, and a row is of its own.
Addressed(n) ==
    /\ \A t \in Terms : row[n][t].update.policy.rev > 0 => row[n][t].update.policy.term = t
    /\ \A u \in post[n] \cup receipts[n] : u.policy.term \in Terms
    /\ intent[n].base > 0 => intent[n].policy.term \in Terms

\* While a deployment is on its way, the share it was made from does not move.
PendingExact(n) ==
    LET g == deps[n][Desired(n)].grant
    IN  applied[n] < Desired(n) /\ g.term # 0 => g.rev = share[n][g.term].rev

\* Only the current term has anything outstanding.
TermSound(n) == \A t \in Terms \ {current} : share[n][t].outstanding = Blocked

\* A source that is disabled and has no stop left to do has nothing outstanding.
WorkSound(n) ==
    /\ work[n].requiresStop => work[n].pending
    /\ ~source /\ ~work[n].requiresStop => \A t \in Terms : share[n][t].outstanding = Blocked

\* What was made for a node, and what the node has taken.
NodeSound(n) ==
    /\ Numbered(n) /\ Addressed(n) /\ PendingExact(n)
    /\ \A t \in Terms : GrantSound(n, t) /\ RecordSound(n, t)

Inv == Shape /\ \A n \in Nodes : NodeSound(n) /\ TermSound(n) /\ WorkSound(n)

-----------------------------------------------------------------------------
(***************************************************************************)
(* Shares and policies.                                                    *)
(***************************************************************************)

\* A share moves to its next revision; what is outstanding grows with it.
Moves(s, new) ==
    \/ new = s
    \/ /\ new.rev = s.rev + 1
       /\ s.outstanding = Open \/ new.desired = Open => new.outstanding = Open

\* A policy that was made from the share s.
Made(s, p) == p.rev = s.rev /\ p.rate = s.desired

\* A share of which the node has taken the last revision.
SettledTo(s, new) == new.rev = s.rev /\ new.desired = s.desired /\ new.outstanding = s.desired

\* What was within a share is within its next revision.
LEMMA WithinMoves ==
    ASSUME NEW s \in Shares, NEW new \in Shares, NEW r, NEW p \in Policies,
           Moves(s, new), Within(s, r, p)
    PROVE  Within(new, r, p)
BY DEF Moves, Within, Shares, Policies, Rates, Open, Blocked

\* What is made from a share is within it.
LEMMA WithinMade ==
    ASSUME NEW s \in Shares, NEW r, NEW p \in Policies,
           s.desired = Open => s.outstanding = Open, Made(s, p)
    PROVE  Within(s, r, p)
BY DEF Made, Within, Shares, Policies

\* A record that moves on leaves what was within the share there.
LEMMA WithinLater ==
    ASSUME NEW s \in Shares, NEW r \in Records, NEW q \in Records, NEW p \in Policies,
           Within(s, r, p), q.policy.rev >= r.policy.rev
    PROVE  Within(s, q, p)
BY DEF Within, Shares, Policies, Records

\* When the record has the share's revision, nothing but the wanted rate is
\* outstanding (Acknowledge, acknowledgeConfiguration).
LEMMA WithinSettled ==
    ASSUME NEW s \in Shares, NEW new, NEW r \in Records, NEW p \in Policies,
           Within(s, r, p), r.policy.rev >= s.rev, SettledTo(s, new)
    PROVE  Within(new, r, p)
BY GrantAssumption DEF Within, SettledTo, Shares, Policies, Records

\* The next revision of a share (RequestRateShare).
LEMMA RequestMoves ==
    ASSUME Shape, NEW n \in Nodes, NEW t \in Terms, NEW rate \in Rates,
           share[n][t].rev < MaxRevision
    PROVE  /\ RequestedShare(n, t, rate) \in Shares /\ Moves(share[n][t], RequestedShare(n, t, rate))
           /\ RequestedShare(n, t, rate).rev = share[n][t].rev + 1
           /\ RequestedShare(n, t, rate).desired = rate
<1> DEFINE s == share[n][t]
           o == IF rate > s.outstanding THEN rate ELSE s.outstanding
<1>1. s \in Shares
  BY DEF Shape
<1>2. MaxRevision \in Nat /\ s.rev + 1 \in 0..MaxRevision
  BY <1>1, GrantAssumption DEF Shares
<1>3. o \in Rates /\ (s.outstanding = Open \/ rate = Open => o = Open)
  BY <1>1 DEF Shares, Rates, Open, Blocked
<1>4. RequestedShare(n, t, rate) = [s EXCEPT !.rev = s.rev + 1, !.desired = rate, !.outstanding = o]
  BY DEF RequestedShare
<1> HIDE DEF s, o
<1> QED BY <1>1, <1>2, <1>3, <1>4 DEF s, Moves, Shares

-----------------------------------------------------------------------------
(***************************************************************************)
(* Steps that leave the node, or most of it, alone.                        *)
(***************************************************************************)

\* The state of a node and of what was made for it, but for blocked rows.
SameNode(n) ==
    /\ share'[n] = share[n] /\ deps'[n] = deps[n] /\ applied'[n] = applied[n]
    /\ base'[n] = base[n] /\ intent'[n] = intent[n] /\ rec'[n] = rec[n]
    /\ post'[n] = post[n] /\ receipts'[n] = receipts[n]
    /\ \A t \in Terms : row'[n][t].update = row[n][t].update

\* A node that stays as it is stays sound.
LEMMA SameSound ==
    ASSUME NEW n \in Nodes, NodeSound(n), SameNode(n)
    PROVE  NodeSound(n)'
<1>1. Numbered(n)'
  BY DEF NodeSound, SameNode, Numbered, Desired
<1>2. Addressed(n)'
  BY DEF NodeSound, SameNode, Addressed
<1>3. PendingExact(n)'
  BY DEF NodeSound, SameNode, PendingExact, Desired
<1>4. ASSUME NEW t \in Terms PROVE GrantSound(n, t)'
  BY <1>4 DEF NodeSound, SameNode, GrantSound, Desired
<1>5. ASSUME NEW t \in Terms PROVE RecordSound(n, t)'
  BY <1>5 DEF NodeSound, SameNode, RecordSound
<1> QED BY <1>1, <1>2, <1>3, <1>4, <1>5 DEF NodeSound

\* What the ledger does for node n once its last deployment is applied: shares
\* move, and rows and at most one deployment are made from them.
MasterMoves(n) ==
    /\ UNCHANGED <<applied, nodeVars, netVars>>
    /\ applied[n] = Desired(n)
    /\ \A m \in Nodes \ {n} : share'[m] = share[m] /\ row'[m] = row[m] /\ deps'[m] = deps[m]
    /\ \A t \in Terms :
         /\ Moves(share[n][t], share'[n][t])
         /\ \/ row'[n][t].update = row[n][t].update
            \/ \E e \in BOOLEAN :
                  row'[n][t].update = [base |-> applied[n], policy |-> Policy(n, t, share'[n][t], e)]
    /\ \/ deps'[n] = deps[n]
       \/ \E d \in Deployments :
             /\ deps'[n] = Append(deps[n], d) /\ Desired(n) < MaxDeployments
             /\ d.grant.term # 0 => Made(share'[n][d.grant.term], d.grant)

\* A share that has moved wants no more than is outstanding, and has nothing
\* outstanding before there is a grant.
LEMMA MovedShare ==
    ASSUME NEW s \in Shares, NEW new \in Shares, Moves(s, new), MaxRevision \in Nat,
           s.desired = Open => s.outstanding = Open, s.rev = 0 => s.outstanding = Blocked
    PROVE  /\ new.desired = Open => new.outstanding = Open
           /\ new.rev = 0 => new.outstanding = Blocked
BY DEF Moves, Shares, Open, Blocked

LEMMA MasterSound ==
    ASSUME Shape, Shape', NEW n \in Nodes, \A m \in Nodes : NodeSound(m), MasterMoves(n)
    PROVE  \A m \in Nodes : NodeSound(m)'
<1>0. MaxTerm \in Nat /\ MaxRevision \in Nat /\ MaxDeployments \in Nat
  BY GrantAssumption
<1>1. ASSUME NEW m \in Nodes \ {n} PROVE NodeSound(m)'
  BY <1>1, SameSound DEF MasterMoves, SameNode, nodeVars, netVars
<1>2. /\ applied' = applied /\ base' = base /\ intent' = intent /\ rec' = rec
      /\ post' = post /\ receipts' = receipts
  BY DEF MasterMoves, nodeVars, netVars
<1>3. Numbered(n) /\ Addressed(n) /\ \A t \in Terms : GrantSound(n, t) /\ RecordSound(n, t)
  BY DEF NodeSound
<1>4. /\ deps[n] \in Seq(Deployments) /\ deps'[n] \in Seq(Deployments)
      /\ Desired(n) \in Nat /\ applied[n] \in Nat /\ base[n] \in Nat
  BY DEF Shape, Desired
<1>5. /\ Desired(n)' \in {Desired(n), Desired(n) + 1} /\ Desired(n)' <= MaxDeployments
      /\ \A i \in 1..Desired(n) : deps'[n][i] = deps[n][i]
      /\ Desired(n)' = Desired(n) + 1 => deps'[n][Desired(n)'] \in Deployments
      /\ LET g == deps'[n][Desired(n)'].grant
         IN  Desired(n)' = Desired(n) + 1 /\ g.term # 0 => Made(share'[n][g.term], g)
  <2>1. CASE deps'[n] = deps[n]
    BY <2>1, <1>4, <1>3, <1>0 DEF Desired, Numbered
  <2>2. CASE \E d \in Deployments :
               /\ deps'[n] = Append(deps[n], d) /\ Desired(n) < MaxDeployments
               /\ d.grant.term # 0 => Made(share'[n][d.grant.term], d.grant)
    BY <2>2, <1>4, <1>0 DEF Desired
  <2> QED BY <2>1, <2>2 DEF MasterMoves
<1>6. Numbered(n)'
  BY <1>2, <1>3, <1>4, <1>5, <1>0 DEF Numbered, MasterMoves
<1>7. Addressed(n)'
  <2>1. ASSUME NEW t \in Terms, row'[n][t].update.policy.rev > 0
        PROVE  row'[n][t].update.policy.term = t
    <3>1. CASE row'[n][t].update = row[n][t].update
      BY <2>1, <3>1, <1>3 DEF Addressed
    <3>2. CASE \E e \in BOOLEAN :
                 row'[n][t].update = [base |-> applied[n], policy |-> Policy(n, t, share'[n][t], e)]
      BY <3>2 DEF Policy
    <3> QED BY <3>1, <3>2 DEF MasterMoves
  <2> QED BY <2>1, <1>2, <1>3 DEF Addressed
<1>8. PendingExact(n)'
  BY <1>2, <1>4, <1>5 DEF PendingExact, MasterMoves, Made
<1>9. ASSUME NEW t \in Terms PROVE GrantSound(n, t)'
  <2> DEFINE s == share[n][t]
             new == share'[n][t]
             r == rec[n][t]
  <2>1. s \in Shares /\ new \in Shares /\ Moves(s, new)
    BY DEF Shape, MasterMoves
  <2>2. GrantSound(n, t)
    BY <1>3
  <2>3. /\ new.desired = Open => new.outstanding = Open
        /\ new.rev = 0 => new.outstanding = Blocked
    BY <2>1, <2>2, MovedShare, <1>0 DEF GrantSound
  <2>4. Within(new, r, r.policy)
    BY <2>1, <2>2, WithinMoves DEF GrantSound, Shape, Records
  <2>5. Within(new, r, row'[n][t].update.policy)
    <3>1. row[n][t].update.policy \in Policies /\ row'[n][t].update.policy \in Policies
      <4>1. row[n][t] \in Rows /\ row'[n][t] \in Rows
        BY DEF Shape
      <4> QED BY <4>1 DEF Rows, Updates
    <3>2. CASE row'[n][t].update = row[n][t].update
      BY <3>1, <3>2, <2>1, <2>2, WithinMoves DEF GrantSound
    <3>3. CASE \E e \in BOOLEAN :
                 row'[n][t].update = [base |-> applied[n], policy |-> Policy(n, t, share'[n][t], e)]
      BY <3>1, <3>3, <2>1, <2>3, WithinMade DEF Made, Policy
    <3> QED BY <3>2, <3>3 DEF MasterMoves
  <2>6. ASSUME NEW u \in post[n], u.policy.term = t PROVE Within(new, r, u.policy)
    BY <2>6, <2>1, <2>2, WithinMoves DEF GrantSound, Shape, Updates
  <2>7. intent[n].policy.term = t => Within(new, r, intent[n].policy)
    BY <2>1, <2>2, WithinMoves DEF GrantSound, Shape, Updates
  <2>8. ASSUME NEW i \in applied[n]..Desired(n)', deps'[n][i].grant.term = t
        PROVE  Within(new, r, deps'[n][i].grant)
    <3>1. CASE i \in applied[n]..Desired(n)
      <4>1. i \in 1..Desired(n) /\ deps'[n][i] = deps[n][i]
        BY <3>1, <1>3, <1>4, <1>5 DEF Numbered
      <4>2. deps[n][i] \in Deployments
        BY <4>1, <1>4, ElementOfSeq DEF Desired
      <4>3. deps[n][i].grant \in Policies
        BY <4>2 DEF Deployments
      <4> QED BY <2>8, <3>1, <4>1, <4>3, <2>1, <2>2, WithinMoves DEF GrantSound
    <3>2. CASE i = Desired(n)' /\ Desired(n)' = Desired(n) + 1
      <4>1. deps'[n][i].grant \in Policies
        BY <3>2, <1>5 DEF Deployments
      <4>2. Made(new, deps'[n][i].grant)
        BY <3>2, <1>5, <2>8, <1>0 DEF Terms
      <4> QED BY <4>1, <4>2, <2>1, <2>3, WithinMade
    <3> QED BY <3>1, <3>2, <1>4, <1>5
  <2> HIDE DEF s, new, r
  <2> QED BY <2>3, <2>4, <2>5, <2>6, <2>7, <2>8, <1>2 DEF GrantSound, new, r
<1>10. ASSUME NEW t \in Terms PROVE RecordSound(n, t)'
  <2>1. RecordSound(n, t) /\ \A i \in applied[n]..base[n] : deps'[n][i] = deps[n][i]
    BY <1>3, <1>4, <1>5 DEF Numbered
  <2> QED BY <2>1, <1>2 DEF RecordSound
<1> QED BY <1>1, <1>6, <1>7, <1>8, <1>9, <1>10 DEF NodeSound

\* What is outstanding grows for the current term of an enabled source only.
LEMMA LedgerSound ==
    ASSUME Shape, Shape', \A n \in Nodes : TermSound(n) /\ WorkSound(n),
           UNCHANGED <<current, source, work>>,
           \A n \in Nodes, t \in Terms :
              share'[n][t].outstanding = Open =>
                 share[n][t].outstanding = Open \/ (t = current /\ source)
    PROVE  \A n \in Nodes : TermSound(n)' /\ WorkSound(n)'
<1>1. \A n \in Nodes, t \in Terms : share'[n][t].outstanding \in {Open, Blocked} /\ Open # Blocked
  BY DEF Shape, Shares, Rates, Open, Blocked
<1>2. ASSUME NEW n \in Nodes PROVE TermSound(n)'
  BY <1>1, <1>2 DEF TermSound
<1>3. ASSUME NEW n \in Nodes PROVE WorkSound(n)'
  BY <1>1, <1>3 DEF WorkSound
<1> QED BY <1>2, <1>3

-----------------------------------------------------------------------------
(***************************************************************************)
(* Delivery and the node.                                                  *)
(***************************************************************************)

Others == UNCHANGED <<panelVars, changes, other>>

\* FetchAuthorityUpdates takes what is in the row, or blocks it.
LEMMA FetchInv ==
    ASSUME Inv, NEW n \in Nodes, NEW t \in Terms, NEW allowed, Fetch(n, t, allowed), Others
    PROVE  Inv'
<1>0. MaxTerm \in Nat /\ MaxRevision \in Nat /\ MaxDeployments \in Nat
  BY GrantAssumption
<1>1. Shape /\ NodeSound(n) /\ Addressed(n) /\ row[n][t] \in Rows
  BY DEF Inv, Shape, NodeSound
<1>2. /\ UNCHANGED <<current, pending, term, expired, place, share, stop, deps, applied>>
      /\ UNCHANGED <<base, intent, rec, receipts, source, work, resetting>>
  BY DEF Fetch, Others, termVars, nodeVars, panelVars
<1>3. \/ post' = [post EXCEPT ![n] = @ \cup {row[n][t].update}] /\ row' = row
      \/ row' = [row EXCEPT ![n][t].blocked = TRUE] /\ post' = post
  BY DEF Fetch
<1>4. Shape'
  <2>1. CASE post' = [post EXCEPT ![n] = @ \cup {row[n][t].update}] /\ row' = row
    <3>1. row[n][t].update \in Updates
      BY <1>1 DEF Rows
    <3> QED BY <2>1, <3>1, <1>1, <1>2 DEF Shape
  <2>2. CASE row' = [row EXCEPT ![n][t].blocked = TRUE] /\ post' = post
    <3>1. [row[n][t] EXCEPT !.blocked = TRUE] \in Rows
      BY <1>1 DEF Rows
    <3> QED BY <2>2, <3>1, <1>1, <1>2 DEF Shape
  <2> QED BY <1>3, <2>1, <2>2
<1>5. ASSUME NEW m \in Nodes PROVE NodeSound(m)'
  <2>1. CASE row' = [row EXCEPT ![n][t].blocked = TRUE] /\ post' = post
    <3>1. ASSUME NEW x \in Terms PROVE row'[m][x].update = row[m][x].update
      <4>1. row[m][x] \in Rows /\ row \in [Nodes -> [Terms -> Rows]]
        BY <1>1 DEF Shape
      <4>2. row'[m][x] = row[m][x] \/ row'[m][x] = [row[m][x] EXCEPT !.blocked = TRUE]
        BY <2>1, <4>1
      <4> QED BY <4>1, <4>2 DEF Rows
    <3>2. SameNode(m)
      BY <2>1, <3>1, <1>2 DEF SameNode
    <3> QED BY <3>2, SameSound DEF Inv
  <2>3. CASE m # n /\ row' = row /\ post' = [post EXCEPT ![n] = @ \cup {row[n][t].update}]
    <3>1. SameNode(m)
      BY <2>3, <1>1, <1>2 DEF SameNode, Shape
    <3> QED BY <3>1, SameSound DEF Inv
  <2>2. CASE m = n /\ row' = row /\ post' = [post EXCEPT ![n] = @ \cup {row[n][t].update}]
    <3> DEFINE u == row[n][t].update
    <3>1. u.policy.rev > 0 /\ u.policy.term = t
      <4>1. u.policy.rev > row[n][t].acked /\ row[n][t].acked \in Nat
        BY <1>1, <1>0 DEF Fetch, Deliverable, Rows
      <4>2. u.policy.rev \in Nat
        BY <1>1, <1>0 DEF Rows, Updates, Policies
      <4> QED BY <4>1, <4>2, <1>1 DEF Addressed
    <3>2. post'[n] = post[n] \cup {u}
      BY <2>2, <1>1 DEF Shape
    <3> HIDE DEF u
    <3>3. Numbered(n)' /\ PendingExact(n)'
      BY <1>1, <1>2 DEF NodeSound, Numbered, PendingExact, Desired
    <3>4. Addressed(n)'
      BY <3>1, <3>2, <2>2, <1>1, <1>2 DEF Addressed
    <3>5. ASSUME NEW x \in Terms PROVE GrantSound(n, x)'
      <4>1. GrantSound(n, x) /\ GrantSound(n, t)
        BY <1>1 DEF NodeSound
      <4>2. x = t => Within(share[n][x], rec[n][x], u.policy)
        BY <4>1 DEF GrantSound, u
      <4> QED BY <4>1, <4>2, <3>1, <3>2, <2>2, <1>2 DEF GrantSound, Desired
    <3>6. ASSUME NEW x \in Terms PROVE RecordSound(n, x)'
      BY <3>6, <1>1, <1>2 DEF NodeSound, RecordSound
    <3> QED BY <2>2, <3>3, <3>4, <3>5, <3>6 DEF NodeSound
  <2> QED BY <2>1, <2>2, <2>3, <1>3
<1>6. \A m \in Nodes : TermSound(m)' /\ WorkSound(m)'
  BY <1>1, <1>2, <1>4, LedgerSound DEF Inv
<1> QED BY <1>4, <1>5, <1>6 DEF Inv

\* The worker saves an intent: of this deployment, and not older than its record.
LEMMA IntendInv ==
    ASSUME Inv, NEW n \in Nodes, NEW u, Intend(n, u), Others
    PROVE  Inv'
<1>0. MaxTerm \in Nat /\ MaxRevision \in Nat /\ MaxDeployments \in Nat
  BY GrantAssumption
<1>1. /\ Shape /\ NodeSound(n) /\ Addressed(n) /\ Numbered(n)
      /\ u \in post[n] /\ u \in Updates /\ u.policy.term \in Terms
  BY DEF Inv, Shape, NodeSound, Intend, Addressed
<1>2. /\ UNCHANGED <<current, pending, term, expired, place, share, row, stop, deps, applied>>
      /\ UNCHANGED <<base, rec, receipts, source, work, resetting>>
  BY DEF Intend, Others, termVars, masterVars, panelVars
<1>3. /\ post' = [post EXCEPT ![n] = @ \ {u}]
      /\ \/ MayIntend(n, u) /\ intent' = [intent EXCEPT ![n] = u]
         \/ intent' = intent
  BY DEF Intend
<1>4. Shape'
  BY <1>1, <1>2, <1>3 DEF Shape
<1>5. ASSUME NEW m \in Nodes PROVE NodeSound(m)'
  <2>1. CASE m # n
    <3>1. SameNode(m)
      BY <2>1, <1>1, <1>2, <1>3 DEF SameNode, Shape
    <3> QED BY <3>1, SameSound DEF Inv
  <2>2. CASE m = n
    <3>1. post'[n] \subseteq post[n]
      BY <1>1, <1>3 DEF Shape
    <3>2. \/ intent'[n] = intent[n]
          \/ intent'[n] = u /\ MayIntend(n, u)
      BY <1>1, <1>3 DEF Shape
    <3>3. Numbered(n)' /\ PendingExact(n)'
      BY <1>1, <1>2 DEF NodeSound, Numbered, PendingExact, Desired
    <3>4. Addressed(n)'
      BY <3>1, <3>2, <1>1, <1>2 DEF Addressed
    <3>5. ASSUME NEW x \in Terms PROVE GrantSound(n, x)'
      <4>1. GrantSound(n, x)
        BY <1>1 DEF NodeSound
      <4> QED BY <4>1, <3>1, <3>2, <1>1, <1>2 DEF GrantSound, Desired
    <3>6. ASSUME NEW x \in Terms PROVE RecordSound(n, x)'
      <4>1. RecordSound(n, x) /\ rec[n][x] \in Records
        BY <1>1 DEF NodeSound, Shape
      <4>2. ASSUME MayIntend(n, u), u.policy.term = x PROVE u.policy.rev >= rec[n][x].policy.rev
        <5>1. /\ u.base = base[n] /\ ~rec[n][x].suspended
              /\ rec[n][x].revision = base[n] => Advances(rec[n][x].policy, u.policy)
          BY <4>2 DEF MayIntend
        <5>2. u.policy.rev \in Nat /\ rec[n][x].policy.rev \in Nat /\ rec[n][x].revision \in Nat
          BY <4>1, <1>1, <1>0 DEF Records, Updates, Policies
        <5>3. CASE rec[n][x].revision = base[n]
          BY <5>1, <5>2, <5>3 DEF Advances
        <5>4. CASE rec[n][x].revision # base[n]
          BY <5>1, <5>2, <5>4, <4>1 DEF RecordSound
        <5> QED BY <5>3, <5>4
      <4> QED BY <4>1, <4>2, <3>2, <1>2 DEF RecordSound
    <3> QED BY <2>2, <3>3, <3>4, <3>5, <3>6 DEF NodeSound
  <2> QED BY <2>1, <2>2
<1>6. \A m \in Nodes : TermSound(m)' /\ WorkSound(m)'
  BY <1>1, <1>2, <1>4, LedgerSound DEF Inv
<1> QED BY <1>4, <1>5, <1>6 DEF Inv

\* The governor has the intent: a record only moves on, and its receipt comes after it.
LEMMA EnforceInv ==
    ASSUME Inv, NEW n \in Nodes, NEW acknowledged, Enforce(n, acknowledged), Others
    PROVE  Inv'
<1>0. MaxTerm \in Nat /\ MaxRevision \in Nat /\ MaxDeployments \in Nat
  BY GrantAssumption
<1> DEFINE i == intent[n]
           x == i.policy.term
           q == [policy |-> i.policy, revision |-> base[n], suspended |-> FALSE]
<1>1. /\ Shape /\ NodeSound(n) /\ Addressed(n) /\ Numbered(n) /\ i \in Updates
      /\ i.base = base[n] /\ base[n] > 0 /\ base[n] \in Nat /\ x \in Terms
  BY DEF Inv, Shape, NodeSound, Enforce, Addressed
<1>2. /\ UNCHANGED <<current, pending, term, expired, place, share, row, stop, deps, applied>>
      /\ UNCHANGED <<base, intent, post, source, work, resetting>>
  BY DEF Enforce, Others, termVars, masterVars, panelVars
<1>3. /\ rec' = [rec EXCEPT ![n][x] = q]
      /\ receipts' = [receipts EXCEPT ![n] = @ \cup {i}] \/ receipts' = receipts
  BY DEF Enforce
<1>4. q \in Records /\ i.policy \in Policies
  BY <1>1 DEF Records, Updates
<1> HIDE DEF i, x, q
<1>5. Shape'
  <2>1. rec' \in [Nodes -> [Terms -> Records]]
    BY <1>1, <1>3, <1>4 DEF Shape
  <2>2. receipts' \in [Nodes -> SUBSET Updates]
    <3>1. receipts \in [Nodes -> SUBSET Updates] /\ receipts[n] \cup {i} \in SUBSET Updates
      BY <1>1 DEF Shape
    <3>2. CASE receipts' = [receipts EXCEPT ![n] = receipts[n] \cup {i}]
      BY <3>1, <3>2
    <3> QED BY <1>3, <3>1, <3>2
  <2> QED BY <1>1, <1>2, <2>1, <2>2 DEF Shape
<1>6. ASSUME NEW m \in Nodes PROVE NodeSound(m)'
  <2>1. CASE m # n
    <3>1. SameNode(m)
      BY <2>1, <1>1, <1>2, <1>3 DEF SameNode, Shape
    <3> QED BY <3>1, SameSound DEF Inv
  <2>2. CASE m = n
    <3>1. receipts'[n] \subseteq receipts[n] \cup {i}
      BY <1>1, <1>3 DEF Shape
    <3>2. \A y \in Terms : rec'[n][y] = IF y = x THEN q ELSE rec[n][y]
      BY <1>1, <1>3 DEF Shape
    <3>3. Numbered(n)' /\ PendingExact(n)'
      BY <1>1, <1>2 DEF NodeSound, Numbered, PendingExact, Desired
    <3>4. Addressed(n)'
      BY <3>1, <1>1, <1>2 DEF Addressed, x
    <3>5. ASSUME NEW y \in Terms
          PROVE  /\ GrantSound(n, y) /\ RecordSound(n, y) /\ share[n][y] \in Shares
                 /\ rec[n][y] \in Records /\ rec'[n][y] \in Records
                 /\ rec'[n][y].policy.rev >= rec[n][y].policy.rev
      <4>1. /\ GrantSound(n, y) /\ RecordSound(n, y) /\ share[n][y] \in Shares
            /\ rec[n][y] \in Records /\ rec'[n][y] \in Records
        BY <1>1, <1>5 DEF NodeSound, Shape
      <4>2. rec[n][y].policy.rev \in Nat
        BY <4>1, <1>0 DEF Records, Policies
      <4> QED BY <4>1, <4>2, <3>2, <1>1 DEF RecordSound, i, x, q
    <3>6. ASSUME NEW y \in Terms PROVE GrantSound(n, y)'
      <4> DEFINE s == share[n][y]
      <4>1. s \in Shares /\ rec[n][y] \in Records /\ rec'[n][y] \in Records
        BY <3>5
      <4>2. \A p \in Policies : Within(s, rec[n][y], p) => Within(s, rec'[n][y], p)
        BY <3>5, WithinLater
      <4>3. Within(s, rec'[n][y], rec'[n][y].policy)
        <5>1. CASE y = x
          BY <5>1, <4>2, <3>2, <3>5, <1>4 DEF GrantSound, i, x, q
        <5>2. CASE y # x
          BY <5>2, <3>2, <3>5 DEF GrantSound
        <5> QED BY <5>1, <5>2
      <4>4. Within(s, rec'[n][y], row[n][y].update.policy)
        <5>1. row[n][y] \in Rows
          BY <1>1 DEF Shape
        <5>2. row[n][y].update.policy \in Policies
          BY <5>1 DEF Rows, Updates
        <5> QED BY <5>2, <4>2, <3>5 DEF GrantSound
      <4>5. ASSUME NEW u \in post[n], u.policy.term = y PROVE Within(s, rec'[n][y], u.policy)
        BY <4>2, <4>5, <3>5, <1>1 DEF GrantSound, Shape, Updates
      <4>6. i.policy.term = y => Within(s, rec'[n][y], i.policy)
        BY <4>2, <3>5, <1>4 DEF GrantSound, i
      <4>7. ASSUME NEW k \in applied[n]..Desired(n), deps[n][k].grant.term = y
            PROVE  Within(s, rec'[n][y], deps[n][k].grant)
        <5>1. k \in 1..Len(deps[n]) /\ deps[n] \in Seq(Deployments)
          BY <1>1 DEF Numbered, Desired, Shape
        <5>2. deps[n][k] \in Deployments
          BY <5>1, ElementOfSeq
        <5>3. deps[n][k].grant \in Policies
          BY <5>2 DEF Deployments
        <5> QED BY <5>3, <4>2, <4>7, <3>5 DEF GrantSound
      <4> HIDE DEF s
      <4> QED BY <4>3, <4>4, <4>5, <4>6, <4>7, <3>5, <1>2 DEF GrantSound, Desired, s, i
    <3>7. ASSUME NEW y \in Terms PROVE RecordSound(n, y)'
      <4>1. RecordSound(n, y) /\ rec'[n][y].policy.rev >= rec[n][y].policy.rev
        BY <3>5
      <4>2. rec'[n][y].policy.rev \in Nat /\ rec[n][y].policy.rev \in Nat
        BY <3>5, <1>0 DEF Records, Policies
      <4>3. \A u \in receipts[n] : u.policy.rev \in Nat
        <5>1. \A u \in receipts[n] : u.policy \in Policies
          BY <1>1 DEF Shape, Updates
        <5> QED BY <5>1, <1>0 DEF Policies
      <4>4. \A k \in applied[n]..base[n] : deps[n][k].grant.rev \in Nat
        <5>1. ASSUME NEW k \in applied[n]..base[n] PROVE deps[n][k] \in Deployments
          <6>1. k \in 1..Len(deps[n]) /\ deps[n] \in Seq(Deployments)
            BY <1>1 DEF Numbered, Desired, Shape
          <6> QED BY <6>1, ElementOfSeq
        <5> QED BY <5>1, <1>0 DEF Deployments, Policies
      <4>5. CASE y # x
        BY <4>5, <4>1, <3>1, <3>2, <1>2 DEF RecordSound, x, i
      <4>6. CASE y = x
        <5>1. rec'[n][y] = q /\ i.policy.rev \in Nat
          BY <4>6, <3>2, <1>0, <1>4 DEF Policies
        <5> QED BY <5>1, <4>1, <4>2, <4>3, <4>4, <3>1, <1>1, <1>2 DEF RecordSound, x, i, q
      <4> QED BY <4>5, <4>6
    <3> QED BY <2>2, <3>3, <3>4, <3>6, <3>7 DEF NodeSound
  <2> QED BY <2>1, <2>2
<1>7. \A m \in Nodes : TermSound(m)' /\ WorkSound(m)'
  BY <1>1, <1>2, <1>5, LedgerSound DEF Inv
<1> QED BY <1>5, <1>6, <1>7 DEF Inv

\* Node n's shares are settled where its record has reached them; rows may be
\* removed, receipts used up, and deployments before the applied one forgotten.
Settled(n) ==
    /\ base'[n] = base[n] /\ intent'[n] = intent[n] /\ rec'[n] = rec[n] /\ post'[n] = post[n]
    /\ receipts'[n] \subseteq receipts[n]
    /\ \A t \in Terms :
         /\ \/ share'[n][t] = share[n][t]
            \/ rec[n][t].policy.rev >= share[n][t].rev /\ SettledTo(share[n][t], share'[n][t])
         /\ row'[n][t].update \in {row[n][t].update, NoUpdate}
    /\ applied'[n] \in applied[n]..base[n] /\ Len(deps'[n]) = Len(deps[n])
    /\ \A i \in applied'[n]..Len(deps[n]) : deps'[n][i] = deps[n][i]

LEMMA SettledSound ==
    ASSUME Shape, Shape', NEW n \in Nodes, NodeSound(n), Settled(n)
    PROVE  /\ NodeSound(n)'
           /\ \A t \in Terms : share'[n][t].outstanding = Open => share[n][t].outstanding = Open
<1>0. MaxTerm \in Nat /\ MaxRevision \in Nat /\ MaxDeployments \in Nat
  BY GrantAssumption
<1>1. Numbered(n) /\ Addressed(n) /\ PendingExact(n) /\ \A t \in Terms : GrantSound(n, t) /\ RecordSound(n, t)
  BY DEF NodeSound
<1>2. /\ deps[n] \in Seq(Deployments) /\ Desired(n) \in Nat /\ Desired(n)' = Desired(n)
      /\ applied[n] \in Nat /\ base[n] \in Nat /\ applied'[n] \in Nat
      /\ applied'[n] \in applied[n]..base[n]
      /\ \A i \in applied'[n]..Desired(n) : deps'[n][i] = deps[n][i]
  BY DEF Shape, Desired, Settled
<1>10. /\ 1 <= applied[n] /\ applied[n] <= applied'[n] /\ applied'[n] <= base[n] /\ base[n] <= Desired(n)
       /\ \A i \in Int : applied'[n] <= i /\ i <= Desired(n) => deps'[n][i] = deps[n][i]
  BY <1>1, <1>2 DEF Numbered
<1>11. \A t \in Terms : row'[n][t].update \in {row[n][t].update, NoUpdate}
  BY DEF Settled
<1>3. ASSUME NEW t \in Terms
      PROVE  /\ share[n][t] \in Shares /\ rec[n][t] \in Records
             /\ share'[n][t].rev = share[n][t].rev /\ share'[n][t].desired = share[n][t].desired
             /\ share'[n][t].outstanding \in {share[n][t].outstanding, share[n][t].desired}
             /\ \A p \in Policies : Within(share[n][t], rec[n][t], p) => Within(share'[n][t], rec[n][t], p)
  <2>1. share[n][t] \in Shares /\ rec[n][t] \in Records
    BY DEF Shape
  <2>2. CASE share'[n][t] = share[n][t]
    BY <2>1, <2>2
  <2>3. CASE rec[n][t].policy.rev >= share[n][t].rev /\ SettledTo(share[n][t], share'[n][t])
    <3>1. \A p \in Policies : Within(share[n][t], rec[n][t], p) => Within(share'[n][t], rec[n][t], p)
      BY <2>1, <2>3, WithinSettled
    <3> QED BY <2>1, <2>3, <3>1 DEF SettledTo
  <2> QED BY <2>2, <2>3 DEF Settled
<1>4. Numbered(n)'
  BY <1>0, <1>1, <1>2, <1>10 DEF Numbered, Settled
<1>5. Addressed(n)'
  <2>1. ASSUME NEW t \in Terms, row'[n][t].update.policy.rev > 0 PROVE row'[n][t].update.policy.term = t
    BY <2>1, <1>1, <1>11 DEF Addressed, NoUpdate, NoPolicy
  <2> QED BY <2>1, <1>1 DEF Addressed, Settled
<1>6. PendingExact(n)'
  <2> DEFINE g == deps[n][Desired(n)].grant
  <2>1. ASSUME applied'[n] < Desired(n) PROVE applied[n] < Desired(n) /\ deps'[n][Desired(n)] = deps[n][Desired(n)]
    BY <2>1, <1>2, <1>10
  <2>2. ASSUME applied'[n] < Desired(n), g.term # 0 PROVE g.rev = share'[n][g.term].rev
    <3>1. Desired(n) \in 1..Len(deps[n])
      BY <2>2, <1>2 DEF Desired
    <3>2. deps[n][Desired(n)] \in Deployments
      BY <3>1, <1>2, ElementOfSeq
    <3>3. g.term \in Terms
      BY <2>2, <3>2, <1>0 DEF Deployments, Policies, Terms
    <3> QED BY <2>1, <2>2, <3>3, <1>1, <1>3 DEF PendingExact
  <2> QED BY <2>1, <2>2, <1>2 DEF PendingExact
<1>7. ASSUME NEW t \in Terms PROVE GrantSound(n, t)'
  <2> DEFINE s == share[n][t]
             new == share'[n][t]
             r == rec[n][t]
  <2>1. GrantSound(n, t)
    BY <1>1
  <2>2. s.desired \in Rates /\ s.outstanding \in Rates /\ s.rev \in Nat
    BY <1>0, <1>3 DEF Shares
  <2>3. /\ new.desired = Open => new.outstanding = Open
        /\ new.rev = 0 => new.outstanding = Blocked /\ new.desired = Blocked
    BY <2>1, <2>2, <1>3 DEF GrantSound, Rates, Open, Blocked
  <2>4. Within(new, r, r.policy)
    BY <2>1, <1>3 DEF GrantSound, Records
  <2>5. Within(new, r, row'[n][t].update.policy)
    <3>1. row[n][t].update.policy \in Policies
      <4>1. row[n][t] \in Rows
        BY DEF Shape
      <4> QED BY <4>1 DEF Rows, Updates
    <3>2. CASE row'[n][t].update = row[n][t].update
      BY <3>1, <3>2, <2>1, <1>3 DEF GrantSound
    <3>3. CASE row'[n][t].update = NoUpdate
      BY <3>3, <2>2, <2>3, <1>3 DEF Within, NoUpdate, NoPolicy, Open, Blocked
    <3> QED BY <3>2, <3>3 DEF Settled
  <2>6. ASSUME NEW u \in post[n], u.policy.term = t PROVE Within(new, r, u.policy)
    BY <2>6, <2>1, <1>3 DEF GrantSound, Shape, Updates
  <2>7. intent[n].policy.term = t => Within(new, r, intent[n].policy)
    BY <2>1, <1>3 DEF GrantSound, Shape, Updates
  <2>8. ASSUME NEW i \in applied'[n]..Desired(n), deps'[n][i].grant.term = t
        PROVE  Within(new, r, deps'[n][i].grant)
    <3>1. i \in applied[n]..Desired(n) /\ i \in 1..Len(deps[n]) /\ deps'[n][i] = deps[n][i]
      BY <1>2, <1>10 DEF Desired
    <3>2. deps[n][i] \in Deployments
      BY <3>1, <1>2, ElementOfSeq
    <3>3. deps[n][i].grant \in Policies
      BY <3>2 DEF Deployments
    <3> QED BY <2>8, <3>1, <3>3, <2>1, <1>3 DEF GrantSound
  <2> HIDE DEF s, new, r
  <2> QED BY <2>3, <2>4, <2>5, <2>6, <2>7, <2>8, <1>2 DEF GrantSound, Settled, new, r
<1>8. ASSUME NEW t \in Terms PROVE RecordSound(n, t)'
  <2>1. RecordSound(n, t)
    BY <1>1
  <2>2. \A i \in applied'[n]..base[n] : i \in applied[n]..base[n] /\ deps'[n][i] = deps[n][i]
    BY <1>2, <1>10
  <2> QED BY <2>1, <2>2 DEF RecordSound, Settled
<1>9. \A t \in Terms : share'[n][t].outstanding = Open => share[n][t].outstanding = Open
  BY <1>1, <1>3 DEF GrantSound
<1> QED BY <1>4, <1>5, <1>6, <1>7, <1>8, <1>9 DEF NodeSound

\* A receipt is of what the node has enforced, so the share it settles is the node's.
LEMMA AcknowledgeInv ==
    ASSUME Inv, NEW n \in Nodes, NEW u, Acknowledge(n, u), Others
    PROVE  Inv'
<1>0. MaxTerm \in Nat /\ MaxRevision \in Nat /\ MaxDeployments \in Nat
  BY GrantAssumption
<1>1. /\ Shape /\ NodeSound(n) /\ Addressed(n) /\ Numbered(n)
      /\ u \in receipts[n] /\ u \in Updates /\ u.policy.term \in Terms
  <2>1. Shape /\ NodeSound(n) /\ Addressed(n) /\ Numbered(n) /\ u \in receipts[n]
    BY Zenon DEF Inv, NodeSound, Acknowledge
  <2>2. u \in Updates /\ u.policy.term \in Terms
    BY <2>1 DEF Shape, Addressed
  <2> QED BY <2>1, <2>2
<1>2. /\ UNCHANGED <<current, pending, term, expired, place, deps, applied>>
      /\ UNCHANGED <<base, intent, rec, post, source, work, resetting>>
  BY ZenonT(40) DEF Acknowledge, Others, termVars, nodeVars, panelVars
<1> DEFINE t == u.policy.term
           s == share[n][t]
           p == row[n][t].update.policy
           new == [s EXCEPT !.applied = p.rev, !.outstanding = s.desired]
           w == [row[n][t] EXCEPT !.acked = p.rev]
<1>3. /\ receipts' = [receipts EXCEPT ![n] = @ \ {u}]
      /\ \/ /\ MayAcknowledge(n, u)
            /\ share' = [share EXCEPT ![n][t] = new] /\ row' = [row EXCEPT ![n][t] = w]
         \/ UNCHANGED <<share, row>>
  <2>1. [share EXCEPT ![n][t].applied = p.rev, ![n][t].outstanding = s.desired] = [share EXCEPT ![n][t] = new]
    BY <1>1 DEF Shape
  <2>2. [row EXCEPT ![n][t].acked = p.rev] = [row EXCEPT ![n][t] = w]
    BY <1>1 DEF Shape
  <2> QED BY <2>1, <2>2 DEF Acknowledge
<1>4. s \in Shares /\ row[n][t] \in Rows /\ p \in Policies /\ p.rev \in 0..MaxRevision /\ rec[n][t] \in Records
  BY <1>1 DEF Shape, Rows, Updates, Policies
<1>5. new \in Shares /\ SettledTo(s, new) /\ w \in Rows /\ w.update = row[n][t].update
  BY <1>4 DEF Shares, Rows, SettledTo
<1>6. MayAcknowledge(n, u) => rec[n][t].policy.rev >= s.rev
  <2>1. rec[n][t].policy.rev >= u.policy.rev
    BY <1>1 DEF NodeSound, RecordSound
  <2>2. MayAcknowledge(n, u) => u.policy.rev = s.rev
    BY DEF MayAcknowledge, Policy
  <2> QED BY <2>1, <2>2
<1> HIDE DEF t, s, p, new, w
<1>7. Shape'
  <2>1. share' \in [Nodes -> [Terms -> Shares]] /\ row' \in [Nodes -> [Terms -> Rows]]
    <3>1. share \in [Nodes -> [Terms -> Shares]] /\ row \in [Nodes -> [Terms -> Rows]]
      BY <1>1 DEF Shape
    <3>2. CASE share' = [share EXCEPT ![n][t] = new] /\ row' = [row EXCEPT ![n][t] = w]
      BY <3>1, <3>2, <1>5
    <3> QED BY <3>1, <3>2, <1>3
  <2>2. receipts' \in [Nodes -> SUBSET Updates]
    BY <1>1, <1>3 DEF Shape
  <2> QED BY <1>1, <1>2, <2>1, <2>2 DEF Shape
<1>8. ASSUME NEW m \in Nodes, m # n PROVE SameNode(m)
  BY <1>1, <1>2, <1>3, <1>8 DEF SameNode, Shape
<1>9. Settled(n)
  <2>1. receipts'[n] \subseteq receipts[n]
    BY <1>1, <1>3 DEF Shape
  <2>2. ASSUME NEW x \in Terms
        PROVE  /\ \/ share'[n][x] = share[n][x]
                  \/ rec[n][x].policy.rev >= share[n][x].rev /\ SettledTo(share[n][x], share'[n][x])
               /\ row'[n][x].update = row[n][x].update
    <3>1. CASE UNCHANGED <<share, row>>
      BY <3>1
    <3>2. CASE /\ MayAcknowledge(n, u)
               /\ share' = [share EXCEPT ![n][t] = new] /\ row' = [row EXCEPT ![n][t] = w]
      <4>1. /\ share'[n][x] = IF x = t THEN new ELSE share[n][x]
            /\ row'[n][x] = IF x = t THEN w ELSE row[n][x]
        BY <3>2, <1>1 DEF Shape
      <4> QED BY <3>2, <4>1, <1>5, <1>6 DEF s
    <3> QED BY <1>3, <3>1, <3>2
  <2>3. /\ applied[n] \in Nat /\ base[n] \in Nat /\ applied[n] <= base[n]
    BY <1>1 DEF Shape, Numbered
  <2> QED BY <2>1, <2>2, <2>3, <1>2 DEF Settled
<1>10. /\ NodeSound(n)'
       /\ \A x \in Terms : share'[n][x].outstanding = Open => share[n][x].outstanding = Open
  BY <1>1, <1>7, <1>9, SettledSound
<1>11. \A m \in Nodes : NodeSound(m)'
  BY <1>8, <1>10, SameSound DEF Inv
<1>12. \A m \in Nodes, x \in Terms : share'[m][x].outstanding = Open => share[m][x].outstanding = Open
  BY <1>8, <1>10 DEF SameNode
<1>13. \A m \in Nodes : TermSound(m)' /\ WorkSound(m)'
  BY <1>1, <1>2, <1>7, <1>12, LedgerSound DEF Inv
<1> QED BY <1>7, <1>11, <1>13, ZenonT(40) DEF Inv

\* Reconcile takes the grant of the deployment unless the record is newer, and
\* suspends every other one.
LEMMA DeployInv ==
    ASSUME Inv, NEW n \in Nodes, Deploy(n), Others
    PROVE  Inv'
<1>0. MaxTerm \in Nat /\ MaxRevision \in Nat /\ MaxDeployments \in Nat
  BY GrantAssumption
<1> DEFINE d == Desired(n)
           g == deps[n][d].grant
           q == [policy |-> g, revision |-> d, suspended |-> FALSE]
<1>1. Shape /\ NodeSound(n) /\ Addressed(n) /\ Numbered(n)
  BY DEF Inv, NodeSound
<1>2. /\ UNCHANGED <<current, pending, term, expired, place, share, row, stop, deps, applied>>
      /\ UNCHANGED <<post, receipts, source, work, resetting>>
  BY DEF Deploy, Others, termVars, masterVars, netVars, panelVars
<1>3. /\ base' = [base EXCEPT ![n] = d] /\ rec' = [rec EXCEPT ![n] = Reconciled(n, d)]
      /\ intent' = [intent EXCEPT ![n] = NoUpdate] /\ base[n] < d /\ Acceptable(n, d)
  BY DEF Deploy
<1>4. /\ d \in Nat /\ d \in 1..Len(deps[n]) /\ deps[n] \in Seq(Deployments)
      /\ base[n] \in Nat /\ applied[n] \in Nat /\ 1 <= applied[n] /\ applied[n] <= base[n] /\ d <= applied[n] + 1
  BY <1>1, <1>3 DEF Shape, Numbered, Desired
<1>5. g \in Policies /\ q \in Records
  <2>1. deps[n][d] \in Deployments
    BY <1>4, ElementOfSeq
  <2> QED BY <2>1, <1>4 DEF Deployments, Records
<1>6. NoUpdate \in Updates /\ NoUpdate.base = 0 /\ NoUpdate.policy.term = 0
  BY <1>0 DEF NoUpdate, NoPolicy, Updates, Policies, Rates, Blocked
<1>7. ASSUME NEW x \in Terms
      PROVE  /\ rec[n][x] \in Records /\ Reconciled(n, d)[x] \in Records
             /\ x = g.term => Reconciled(n, d)[x] = q
             /\ x # g.term => /\ Reconciled(n, d)[x].policy = rec[n][x].policy
                              /\ Reconciled(n, d)[x].revision = rec[n][x].revision
                              /\ rec[n][x].revision > 0 => Reconciled(n, d)[x].suspended
             /\ rec[n][x].policy.rev \in Nat
             /\ Reconciled(n, d)[x].policy.rev >= rec[n][x].policy.rev
  <2>1. rec[n][x] \in Records /\ rec[n][x].policy.rev \in Nat
    <3>1. rec[n][x] \in Records
      BY <1>1 DEF Shape
    <3> HIDE DEF g, q, d
    <3> QED BY <3>1, <1>0 DEF Records, Policies
  <2>2. CASE x = g.term
    <3>1. Reconciled(n, d)[x] = q
      BY <2>2 DEF Reconciled
    <3>2. g.term # 0 /\ rec[n][x].policy.rev <= g.rev
      BY <2>2, <1>3, <1>0 DEF Acceptable, Terms
    <3>3. g.rev \in Nat
      BY <1>5, <1>0 DEF Policies
    <3> QED BY <2>1, <2>2, <3>1, <3>2, <3>3, <1>5
  <2>3. CASE x # g.term
    <3>1. Reconciled(n, d)[x] = [rec[n][x] EXCEPT !.suspended = rec[n][x].suspended \/ rec[n][x].revision > 0]
      BY <2>3 DEF Reconciled
    <3> DEFINE b == rec[n][x].suspended \/ rec[n][x].revision > 0
    <3>2. b \in BOOLEAN /\ (rec[n][x].revision > 0 => b)
      OBVIOUS
    <3>3. Reconciled(n, d)[x] = [rec[n][x] EXCEPT !.suspended = b]
      BY <3>1
    <3> HIDE DEF b
    <3>4. /\ Reconciled(n, d)[x] \in Records /\ Reconciled(n, d)[x].policy = rec[n][x].policy
          /\ Reconciled(n, d)[x].revision = rec[n][x].revision /\ Reconciled(n, d)[x].suspended = b
      BY <2>1, <3>2, <3>3 DEF Records
    <3> QED BY <2>1, <2>3, <3>2, <3>4
  <2> QED BY <2>2, <2>3
<1> HIDE DEF d, g, q
<1>8. Shape'
  <2>1. Reconciled(n, d) \in [Terms -> Records]
    BY <1>7 DEF Reconciled
  <2>2. rec' \in [Nodes -> [Terms -> Records]]
    BY <2>1, <1>1, <1>3 DEF Shape
  <2>3. base' \in [Nodes -> Nat] /\ intent' \in [Nodes -> Updates]
    BY <1>1, <1>3, <1>4, <1>6 DEF Shape
  <2> QED BY <1>1, <1>2, <2>2, <2>3 DEF Shape
<1>9. ASSUME NEW m \in Nodes, m # n PROVE NodeSound(m)'
  <2>1. SameNode(m)
    BY <1>1, <1>2, <1>3, <1>9 DEF SameNode, Shape
  <2> QED BY <2>1, SameSound DEF Inv
<1>10. base'[n] = d /\ intent'[n] = NoUpdate /\ \A x \in Terms : rec'[n][x] = Reconciled(n, d)[x]
  BY <1>1, <1>3 DEF Shape
<1>11. Numbered(n)' /\ PendingExact(n)'
  <2>1. Desired(n)' = d /\ applied' = applied /\ deps' = deps /\ share' = share
    BY <1>2 DEF Desired, d
  <2> QED BY <2>1, <1>1, <1>4, <1>10 DEF NodeSound, Numbered, PendingExact, d
<1>12. Addressed(n)'
  BY <1>1, <1>2, <1>6, <1>10 DEF Addressed
<1>13. ASSUME NEW x \in Terms PROVE GrantSound(n, x)'
  <2> DEFINE s == share[n][x]
             r == Reconciled(n, d)[x]
  <2>1. GrantSound(n, x) /\ s \in Shares
    BY <1>1 DEF NodeSound, Shape
  <2>2. \A p \in Policies : Within(s, rec[n][x], p) => Within(s, r, p)
    BY <2>1, <1>7, WithinLater
  <2>3. ASSUME NEW k \in applied[n]..Desired(n), deps[n][k].grant.term = x
        PROVE  Within(s, r, deps[n][k].grant)
    <3>1. k \in 1..Len(deps[n])
      BY <1>4 DEF Desired
    <3>2. deps[n][k] \in Deployments
      BY <3>1, <1>4, ElementOfSeq
    <3>3. deps[n][k].grant \in Policies
      BY <3>2 DEF Deployments
    <3> QED BY <3>3, <2>1, <2>2, <2>3 DEF GrantSound
  <2>4. Within(s, r, r.policy)
    <3>1. CASE x = g.term
      <4>1. d \in applied[n]..Desired(n) /\ deps[n][d].grant = g /\ r.policy = g
        BY <3>1, <1>3, <1>4, <1>7 DEF d, g, q
      <4> QED BY <3>1, <4>1, <2>3
    <3>2. CASE x # g.term
      BY <3>2, <2>1, <2>2, <1>7 DEF GrantSound, Records
    <3> QED BY <3>1, <3>2
  <2>5. Within(s, r, row[n][x].update.policy)
    BY <2>1, <2>2, <1>1 DEF GrantSound, Shape, Rows, Updates
  <2>6. ASSUME NEW u \in post[n], u.policy.term = x PROVE Within(s, r, u.policy)
    BY <2>1, <2>2, <2>6, <1>1 DEF GrantSound, Shape, Updates
  <2>7. NoUpdate.policy.term # x
    BY <1>0, <1>6 DEF Terms
  <2> HIDE DEF s, r
  <2> QED BY <2>1, <2>3, <2>4, <2>5, <2>6, <2>7, <1>2, <1>10 DEF GrantSound, Desired, s, r
<1>14. ASSUME NEW x \in Terms PROVE RecordSound(n, x)'
  <2> DEFINE r == Reconciled(n, d)[x]
  <2>1. RecordSound(n, x) /\ rec[n][x] \in Records /\ r \in Records
    BY <1>1, <1>7 DEF NodeSound
  <2>2. r.policy.rev \in Nat /\ rec[n][x].policy.rev \in Nat /\ r.revision \in Nat
    BY <2>1, <1>0 DEF Records, Policies
  <2>3. r.revision = 0 => r.policy.rev = 0
    BY <2>1, <1>4, <1>7 DEF RecordSound, q
  <2>4. r.revision > 0 /\ ~r.suspended => r.revision = d
    BY <1>7 DEF q
  <2>5. ASSUME NEW u \in receipts[n], u.policy.term = x PROVE r.policy.rev >= u.policy.rev
    <3>1. u.policy \in Policies
      BY <1>1 DEF Shape, Updates
    <3>2. u.policy.rev \in Nat
      BY <3>1, <1>0 DEF Policies
    <3>3. rec[n][x].policy.rev >= u.policy.rev
      BY <2>1, <2>5 DEF RecordSound
    <3> QED BY <3>2, <3>3, <2>2, <1>7
  <2>6. ASSUME NEW k \in applied[n]..d, deps[n][k].grant.term = x PROVE r.policy.rev >= deps[n][k].grant.rev
    <3>1. k \in 1..Len(deps[n])
      BY <1>4
    <3>2. deps[n][k] \in Deployments
      BY <3>1, <1>4, ElementOfSeq
    <3>3. deps[n][k].grant.rev \in Nat
      BY <3>2, <1>0 DEF Deployments, Policies
    <3>4. CASE k = d
      BY <3>3, <3>4, <2>6, <1>7 DEF g, q
    <3>5. CASE k # d
      <4>1. k \in applied[n]..base[n]
        BY <3>5, <1>4
      <4>2. rec[n][x].policy.rev >= deps[n][k].grant.rev
        BY <4>1, <2>1, <2>6 DEF RecordSound
      <4> QED BY <4>2, <3>3, <2>2, <1>7
    <3> QED BY <3>4, <3>5
  <2> HIDE DEF r
  <2> QED BY <2>3, <2>4, <2>5, <2>6, <1>2, <1>4, <1>6, <1>10 DEF RecordSound, r
<1>15. \A m \in Nodes : NodeSound(m)'
  BY <1>9, <1>11, <1>12, <1>13, <1>14 DEF NodeSound
<1>16. \A m \in Nodes : TermSound(m)' /\ WorkSound(m)'
  BY <1>1, <1>2, <1>8, LedgerSound DEF Inv
<1> QED BY <1>8, <1>15, <1>16 DEF Inv

\* What pruneDeployments leaves of the deployments.
LEMMA PrunedFacts ==
    ASSUME NEW d \in Seq(Deployments), NEW from, NoDeployment \in Deployments
    PROVE  /\ Pruned(d, from) \in Seq(Deployments) /\ Len(Pruned(d, from)) = Len(d)
           /\ \A i \in 1..Len(d) : i < from \/ Pruned(d, from)[i] = d[i]
<1> DEFINE e == Pruned(d, from)
<1>1. Len(d) \in Nat /\ DOMAIN d = 1..Len(d) /\ \A i \in 1..Len(d) : d[i] \in Deployments
  BY ElementOfSeq, LenProperties
<1>2. e \in [1..Len(d) -> Deployments] /\ \A i \in 1..Len(d) : i < from \/ e[i] = d[i]
  BY <1>1 DEF Pruned
<1>3. e \in Seq(Deployments)
  BY <1>1, <1>2, SeqDef
<1>4. Len(e) = Len(d)
  BY <1>1, <1>2, <1>3, LenProperties
<1> QED BY <1>2, <1>3, <1>4

\* The result of a deployment that the node has run: its record has reached
\* the revision the deployment carries.
LEMMA ObserveInv ==
    ASSUME Inv, NEW n \in Nodes, NEW r, Observe(n, r), Others
    PROVE  Inv'
<1>0. MaxTerm \in Nat /\ MaxRevision \in Nat /\ MaxDeployments \in Nat
  BY GrantAssumption
<1> DEFINE g == deps[n][r].grant
           to == applied'[n]
           w == [t \in Terms |-> IF Covers(n, r, t) THEN NoRow ELSE row[n][t]]
<1>1. Shape /\ NodeSound(n) /\ Numbered(n)
  BY DEF Inv, NodeSound
<1>2. /\ UNCHANGED <<current, pending, term, expired, place>>
      /\ UNCHANGED <<base, intent, rec, post, receipts, source, work, resetting>>
  BY DEF Observe, Others, termVars, nodeVars, netVars, panelVars
<1>3. /\ share' = [share EXCEPT ![n] = ShareAfterResult(n, g)]
      /\ row' = [row EXCEPT ![n] = w]
      /\ applied' = [applied EXCEPT ![n] = IF r > @ THEN r ELSE @]
      /\ deps' = [deps EXCEPT ![n] = Pruned(@, to)]
  BY DEF Observe
<1>4. /\ deps[n] \in Seq(Deployments) /\ applied[n] \in Nat /\ base[n] \in Nat /\ Desired(n) \in Nat
      /\ r \in applied[n]..base[n] /\ r \in 1..Len(deps[n]) /\ r \in Nat
      /\ 1 <= applied[n] /\ base[n] <= Len(deps[n])
  BY <1>1 DEF Shape, Numbered, Desired, Observe
<1>5. g \in Policies
  <2>1. deps[n][r] \in Deployments
    BY <1>4, ElementOfSeq
  <2> QED BY <2>1 DEF Deployments
<1>6. to \in applied[n]..base[n] /\ to \in Nat
  BY <1>1, <1>3, <1>4 DEF Shape
<1>7. NoUpdate \in Updates /\ NoRow \in Rows /\ NoRow.update = NoUpdate /\ NoDeployment \in Deployments
  BY <1>0 DEF NoUpdate, NoRow, NoPolicy, NoDeployment, Deployments, Rows, Updates, Policies, Rates, Blocked
<1>8. ASSUME NEW t \in Terms
      PROVE  /\ ShareAfterResult(n, g)[t] \in Shares
             /\ \/ ShareAfterResult(n, g)[t] = share[n][t]
                \/ /\ rec[n][t].policy.rev >= share[n][t].rev
                   /\ SettledTo(share[n][t], ShareAfterResult(n, g)[t])
             /\ w[t] \in Rows /\ w[t].update \in {row[n][t].update, NoUpdate}
  <2>1. share[n][t] \in Shares /\ row[n][t] \in Rows
    BY <1>1 DEF Shape
  <2>2. w[t] \in Rows /\ w[t].update \in {row[n][t].update, NoUpdate}
    BY <2>1, <1>7
  <2>3. CASE t = g.term /\ share[n][t].rev = g.rev
    <3>1. ShareAfterResult(n, g)[t] = [share[n][t] EXCEPT !.applied = g.rev, !.outstanding = share[n][t].desired]
      BY <2>3 DEF ShareAfterResult
    <3>2. rec[n][t].policy.rev >= g.rev
      BY <2>3, <1>1, <1>4 DEF NodeSound, RecordSound
    <3>3. g.rev \in 0..MaxRevision
      BY <1>5 DEF Policies
    <3> HIDE DEF g, w
    <3>4. /\ ShareAfterResult(n, g)[t] \in Shares
          /\ SettledTo(share[n][t], ShareAfterResult(n, g)[t])
      BY <2>1, <3>1, <3>3 DEF Shares, SettledTo
    <3> QED BY <2>2, <2>3, <3>2, <3>4, ZenonT(40)
  <2>4. CASE ~(t = g.term /\ share[n][t].rev = g.rev)
    <3> HIDE DEF g, w
    <3>1. ShareAfterResult(n, g)[t] = share[n][t]
      BY <2>4 DEF ShareAfterResult
    <3> QED BY <2>1, <2>2, <3>1
  <2> QED BY <2>3, <2>4
<1>9. ShareAfterResult(n, g) \in [Terms -> Shares] /\ w \in [Terms -> Rows]
  BY <1>8 DEF ShareAfterResult
<1>10. /\ Pruned(deps[n], to) \in Seq(Deployments) /\ Len(Pruned(deps[n], to)) = Len(deps[n])
       /\ \A i \in 1..Len(deps[n]) : i < to \/ Pruned(deps[n], to)[i] = deps[n][i]
  BY <1>4, <1>7, PrunedFacts
<1> HIDE DEF g, to, w
<1>11. Shape'
  <2>1. share' \in [Nodes -> [Terms -> Shares]] /\ row' \in [Nodes -> [Terms -> Rows]]
    BY <1>1, <1>3, <1>9 DEF Shape
  <2>2. deps' \in [Nodes -> Seq(Deployments)] /\ applied' \in [Nodes -> Nat]
    BY <1>1, <1>3, <1>4, <1>10 DEF Shape
  <2> QED BY <1>1, <1>2, <2>1, <2>2 DEF Shape
<1>12. ASSUME NEW m \in Nodes, m # n PROVE SameNode(m)
  BY <1>1, <1>2, <1>3, <1>12 DEF SameNode, Shape
<1>13. Settled(n)
  <2>1. share'[n] = ShareAfterResult(n, g) /\ row'[n] = w /\ deps'[n] = Pruned(deps[n], to)
    BY <1>1, <1>3 DEF Shape
  <2>2. \A i \in to..Len(deps[n]) : deps'[n][i] = deps[n][i]
    BY <2>1, <1>4, <1>6, <1>10
  <2>3. Len(deps'[n]) = Len(deps[n])
    BY <2>1, <1>10
  <2> QED BY <2>1, <2>2, <2>3, <1>2, <1>6, <1>8 DEF Settled, to
<1>14. /\ NodeSound(n)'
       /\ \A x \in Terms : share'[n][x].outstanding = Open => share[n][x].outstanding = Open
  BY <1>1, <1>11, <1>13, SettledSound
<1>15. \A m \in Nodes : NodeSound(m)'
  BY <1>12, <1>14, SameSound DEF Inv
<1>16. \A m \in Nodes, x \in Terms : share'[m][x].outstanding = Open => share[m][x].outstanding = Open
  BY <1>12, <1>14 DEF SameNode
<1>17. \A m \in Nodes : TermSound(m)' /\ WorkSound(m)'
  BY <1>1, <1>2, <1>11, <1>16, LedgerSound DEF Inv
<1> QED BY <1>11, <1>15, <1>17 DEF Inv

-----------------------------------------------------------------------------
(***************************************************************************)
(* The ledger: rates, stops and publications.                              *)
(***************************************************************************)

\* What a new revision leaves outstanding.
LEMMA RequestGrows ==
    ASSUME Shape, NEW n \in Nodes, NEW t \in Terms, NEW rate \in Rates,
           RequestedShare(n, t, rate).outstanding = Open
    PROVE  rate = Open \/ share[n][t].outstanding = Open
<1> DEFINE s == share[n][t]
           o == IF rate > s.outstanding THEN rate ELSE s.outstanding
<1>1. s \in Shares
  BY DEF Shape
<1>2. RequestedShare(n, t, rate) = [s EXCEPT !.rev = s.rev + 1, !.desired = rate, !.outstanding = o]
  BY DEF RequestedShare
<1>3. RequestedShare(n, t, rate).outstanding = o
  BY <1>1, <1>2 DEF Shares
<1> QED BY <1>3

LEMMA PolicyFacts ==
    ASSUME NEW n, NEW t \in Terms, NEW s \in Shares, NEW e \in BOOLEAN, MaxTerm \in Nat
    PROVE  Policy(n, t, s, e) \in Policies /\ Made(s, Policy(n, t, s, e))
BY DEF Policy, Policies, Shares, Made, Terms

LEMMA DeployedFacts ==
    ASSUME Shape, NEW n \in Nodes, Numbered(n)
    PROVE  Deployed(n) \in Deployments
<1>1. deps[n] \in Seq(Deployments) /\ applied[n] \in 1..Len(deps[n])
  BY DEF Shape, Numbered, Desired
<1> QED BY <1>1, ElementOfSeq DEF Deployed

LEMMA QueuedFacts ==
    ASSUME Shape, NEW n \in Nodes, NEW t \in Terms, NEW s \in Shares, NEW e \in BOOLEAN,
           Numbered(n)
    PROVE  /\ Queued(n, t, s, e) \in Rows
           /\ Queued(n, t, s, e).update = [base |-> applied[n], policy |-> Policy(n, t, s, e)]
<1>1. MaxTerm \in Nat /\ MaxDeployments \in Nat /\ MaxRevision \in Nat
  BY GrantAssumption
<1>2. Policy(n, t, s, e) \in Policies /\ Deployed(n).place \in Nat
  BY <1>1, PolicyFacts, DeployedFacts DEF Deployments
<1>3. applied[n] \in 0..MaxDeployments
  BY <1>1 DEF Shape, Numbered, Desired
<1>4. row[n][t].acked \in 0..MaxRevision /\ 0 \in 0..MaxRevision
  BY <1>1 DEF Shape, Rows
<1> QED BY <1>2, <1>3, <1>4 DEF Queued, Rows, Updates

\* A step of the ledger keeps the invariant.
LEMMA MasterInv ==
    ASSUME Inv, Shape', NEW n \in Nodes, MasterMoves(n),
           UNCHANGED <<current, source, work>>,
           \A t \in Terms : share'[n][t].outstanding = Open =>
                              share[n][t].outstanding = Open \/ (t = current /\ source)
    PROVE  Inv'
<1>1. Shape /\ \A m \in Nodes : NodeSound(m) /\ TermSound(m) /\ WorkSound(m)
  BY DEF Inv
<1>2. \A m \in Nodes : NodeSound(m)'
  BY <1>1, MasterSound
<1>3. \A m \in Nodes, t \in Terms : share'[m][t].outstanding = Open =>
                                      share[m][t].outstanding = Open \/ (t = current /\ source)
  BY DEF MasterMoves
<1>4. \A m \in Nodes : TermSound(m)' /\ WorkSound(m)'
  BY <1>1, <1>3, LedgerSound
<1> QED BY <1>2, <1>4 DEF Inv

\* applyFleetAdmissionRate: the current grant of an enabled source.
LEMMA SetRateInv ==
    ASSUME Inv, NEW n \in Nodes, NEW rate \in Rates,
           current # 0, source, SetRate(n, rate)
    PROVE  Inv'
<1>0. MaxTerm \in Nat /\ MaxRevision \in Nat /\ MaxDeployments \in Nat
  BY GrantAssumption
<1> DEFINE t == current
           s == IF share[n][t].desired = rate /\ t \in Granted(n) THEN share[n][t] ELSE RequestedShare(n, t, rate)
           w == Queued(n, t, s, TRUE)
<1>1. Shape /\ Numbered(n) /\ t \in Terms
  BY <1>0 DEF Inv, NodeSound, Shape, Terms
<1>2. /\ s # share[n][t] => share[n][t].rev < MaxRevision
      /\ share' = [share EXCEPT ![n][t] = s] /\ row' = [row EXCEPT ![n][t] = w]
      /\ place' = [place EXCEPT ![n].grant = t] /\ Converged(n)
  BY DEF SetRate, MayRequestShare, MayQueue
<1>3. /\ UNCHANGED <<current, pending, term, expired, deps, applied, base, intent, rec, post, receipts>>
      /\ UNCHANGED <<source, work, resetting>>
  BY DEF SetRate, termVars, nodeVars, netVars, panelVars
<1>4. /\ s \in Shares /\ Moves(share[n][t], s)
      /\ s.outstanding = Open => share[n][t].outstanding = Open \/ rate = Open
  <2>1. share[n][t] \in Shares
    BY <1>1 DEF Shape
  <2>2. CASE s = share[n][t]
    BY <2>1, <2>2 DEF Moves
  <2>3. CASE s # share[n][t]
    <3>1. s = RequestedShare(n, t, rate) /\ share[n][t].rev < MaxRevision
      BY <2>3, <1>2
    <3> HIDE DEF s
    <3> QED BY <3>1, <1>1, RequestMoves, RequestGrows
  <2> QED BY <2>2, <2>3
<1> HIDE DEF s
<1>5. w \in Rows /\ w.update = [base |-> applied[n], policy |-> Policy(n, t, s, TRUE)]
  BY <1>1, <1>4, QueuedFacts
<1> HIDE DEF w
<1>6. Shape'
  <2>1. share' \in [Nodes -> [Terms -> Shares]] /\ row' \in [Nodes -> [Terms -> Rows]]
    BY <1>1, <1>2, <1>4, <1>5 DEF Shape
  <2>2. place' \in [Nodes -> Placements]
    <3>1. place \in [Nodes -> Placements] /\ place[n] \in Placements /\ t \in 0..MaxTerm
      BY <1>1 DEF Shape
    <3>2. [place[n] EXCEPT !.grant = t] \in Placements
      BY <3>1 DEF Placements
    <3> QED BY <3>1, <3>2, <1>2
  <2> QED BY <1>1, <1>3, <2>1, <2>2 DEF Shape
<1>7. ASSUME NEW x \in Terms
      PROVE  share'[n][x] = (IF x = t THEN s ELSE share[n][x]) /\ row'[n][x] = (IF x = t THEN w ELSE row[n][x])
  BY <1>1, <1>2 DEF Shape
<1>8. MasterMoves(n)
  <2>1. \A m \in Nodes \ {n} : share'[m] = share[m] /\ row'[m] = row[m] /\ deps'[m] = deps[m]
    BY <1>1, <1>2, <1>3 DEF Shape
  <2>2. ASSUME NEW x \in Terms
        PROVE  /\ Moves(share[n][x], share'[n][x])
               /\ \/ row'[n][x].update = row[n][x].update
                  \/ \E e \in BOOLEAN :
                        row'[n][x].update = [base |-> applied[n], policy |-> Policy(n, x, share'[n][x], e)]
    <3>1. CASE x = t
      BY <3>1, <1>4, <1>5, <1>7
    <3>2. CASE x # t
      BY <3>2, <1>7 DEF Moves
    <3> QED BY <3>1, <3>2
  <2> QED BY <2>1, <2>2, <1>2, <1>3 DEF MasterMoves, Converged, nodeVars, netVars
<1>9. \A x \in Terms : share'[n][x].outstanding = Open =>
                         share[n][x].outstanding = Open \/ (x = current /\ source)
  BY <1>4, <1>7
<1> QED BY <1>3, <1>6, <1>8, <1>9, MasterInv

\* A publication on node n: shares move, and a deployment is made from them.
LEMMA PublicationInv ==
    ASSUME Inv, NEW n \in Nodes, applied[n] = Desired(n), Desired(n) < MaxDeployments,
           NEW new \in [Terms -> Shares], share' = [share EXCEPT ![n] = new],
           \A t \in Terms : /\ Moves(share[n][t], new[t])
                            /\ new[t].outstanding = Open =>
                                 share[n][t].outstanding = Open \/ (t = current /\ source),
           NEW d \in Deployments, deps' = [deps EXCEPT ![n] = Append(@, d)],
           d.grant.term # 0 => Made(new[d.grant.term], d.grant),
           place' \in [Nodes -> Placements],
           UNCHANGED <<current, pending, term, expired, row, applied, base, intent, rec, post, receipts,
                       source, work, resetting>>
    PROVE  Inv'
<1>1. Shape
  BY DEF Inv
<1>2. Append(deps[n], d) \in Seq(Deployments)
  BY <1>1, AppendProperties DEF Shape
<1>3. Shape'
  <2>1. share' \in [Nodes -> [Terms -> Shares]] /\ deps' \in [Nodes -> Seq(Deployments)]
    BY <1>1, <1>2 DEF Shape
  <2> QED BY <1>1, <2>1 DEF Shape
<1>4. share'[n] = new /\ deps'[n] = Append(deps[n], d)
  BY <1>1 DEF Shape
<1>5. MasterMoves(n)
  <2>1. \A m \in Nodes \ {n} : share'[m] = share[m] /\ row'[m] = row[m] /\ deps'[m] = deps[m]
    BY <1>1 DEF Shape
  <2>2. \A t \in Terms : Moves(share[n][t], share'[n][t]) /\ row'[n][t].update = row[n][t].update
    BY <1>4
  <2>3. \E e \in Deployments :
             /\ deps'[n] = Append(deps[n], e) /\ Desired(n) < MaxDeployments
             /\ e.grant.term # 0 => Made(share'[n][e.grant.term], e.grant)
    BY <1>4
  <2> QED BY <2>1, <2>2, <2>3 DEF MasterMoves, nodeVars, netVars
<1>6. \A t \in Terms : share'[n][t].outstanding = Open =>
                         share[n][t].outstanding = Open \/ (t = current /\ source)
  BY <1>4
<1> QED BY <1>3, <1>5, <1>6, MasterInv

\* A publication leaves the shares as they are.
LEMMA SameShares ==
    ASSUME Shape, NEW n \in Nodes, share' = share
    PROVE  /\ share[n] \in [Terms -> Shares] /\ share' = [share EXCEPT ![n] = share[n]]
           /\ \A t \in Terms : Moves(share[n][t], share[n][t])
BY DEF Shape, Moves

\* The placement of a published grant.
LEMMA PublishedPlace ==
    ASSUME Shape, NEW n \in Nodes, NEW g \in Policies, PublishWith(n, g)
    PROVE  place' \in [Nodes -> Placements]
<1>1. place \in [Nodes -> Placements] /\ g.term \in 0..MaxTerm
  BY DEF Shape, Policies
<1> DEFINE x == IF g.term # 0 THEN g.term ELSE place[n].grant
<1>2. place[n] \in Placements /\ x \in 0..MaxTerm
  BY <1>1 DEF Placements
<1>3. [place[n] EXCEPT !.enabled = TRUE, !.grant = x] \in Placements
  BY <1>2 DEF Placements
<1>4. place' = [place EXCEPT ![n] = [place[n] EXCEPT !.enabled = TRUE, !.grant = x]]
  BY <1>1 DEF PublishWith
<1> QED BY <1>1, <1>3, <1>4

\* fundFleetNetwork: the current grant at its settled rate, or none.
LEMMA PublishedInv ==
    ASSUME Inv, NEW n \in Nodes, Publishable(n),
           PublishWith(n, PublishedGrant(n, share[n][current])), UNCHANGED share,
           UNCHANGED <<current, pending, term, expired, row, applied, base, intent, rec, post, receipts,
                       source, work, resetting>>
    PROVE  Inv'
<1>0. MaxTerm \in Nat /\ MaxRevision \in Nat /\ MaxDeployments \in Nat
  BY GrantAssumption
<1> DEFINE g == PublishedGrant(n, share[n][current])
           d == [place |-> place[n].rev, grant |-> g]
<1>1. Shape /\ place[n].rev \in Nat
  BY DEF Inv, Shape, Placements
<1>2. g \in Policies /\ (g.term # 0 => Made(share[n][g.term], g))
  <2>1. CASE current # 0 /\ place[n].grant = current
    <3>1. current \in Terms /\ share[n][current] \in Shares
      BY <2>1, <1>0, <1>1 DEF Shape, Terms
    <3>2. g = Policy(n, current, share[n][current], TRUE)
      BY <2>1 DEF PublishedGrant
    <3>3. g.term = current
      BY <3>2 DEF Policy
    <3> HIDE DEF g
    <3> QED BY <3>1, <3>2, <3>3, <1>0, PolicyFacts
  <2>2. CASE ~(current # 0 /\ place[n].grant = current)
    <3>1. g = NoPolicy
      BY <2>2 DEF PublishedGrant
    <3>2. NoPolicy \in Policies /\ NoPolicy.term = 0
      BY <1>0 DEF NoPolicy, Policies, Rates, Blocked
    <3> HIDE DEF g
    <3> QED BY <3>1, <3>2
  <2> QED BY <2>1, <2>2
<1>3. d \in Deployments /\ d.grant = g
  BY <1>1, <1>2 DEF Deployments
<1>4. deps' = [deps EXCEPT ![n] = Append(@, d)]
  BY DEF PublishWith
<1>5. place' \in [Nodes -> Placements]
  BY <1>1, <1>2, PublishedPlace
<1>6. applied[n] = Desired(n) /\ Desired(n) < MaxDeployments
  BY DEF Publishable
<1> HIDE DEF g, d
<1>7. /\ share[n] \in [Terms -> Shares] /\ share' = [share EXCEPT ![n] = share[n]]
      /\ \A t \in Terms : Moves(share[n][t], share[n][t])
  BY <1>1, SameShares
<1> QED BY <1>2, <1>3, <1>4, <1>5, <1>6, <1>7, PublicationInv

LEMMA PublishOtherInv ==
    ASSUME Inv, NEW n \in Nodes, PublishOther(n)
    PROVE  Inv'
<1>0. MaxTerm \in Nat /\ MaxRevision \in Nat /\ MaxDeployments \in Nat
  BY GrantAssumption
<1>1. /\ UNCHANGED <<current, pending, term, expired, row, applied, base, intent, rec, post, receipts,
                     source, work, resetting>>
      /\ UNCHANGED share
  BY DEF PublishOther, termVars, nodeVars, netVars, panelVars
<1>2. CASE Publishable(n) /\ PublishWith(n, PublishedGrant(n, share[n][current]))
  BY <1>1, <1>2, PublishedInv
<1>3. CASE /\ applied[n] = Desired(n) /\ Desired(n) < MaxDeployments
           /\ deps' = [deps EXCEPT ![n] = Append(@, [place |-> 0, grant |-> NoPolicy])]
           /\ UNCHANGED place
  <2> DEFINE d == [place |-> 0, grant |-> NoPolicy]
  <2>1. Shape
    BY DEF Inv
  <2>2. d \in Deployments /\ d.grant.term = 0
    BY <1>0 DEF Deployments, NoPolicy, Policies, Rates, Blocked
  <2>3. deps' = [deps EXCEPT ![n] = Append(@, d)] /\ place' \in [Nodes -> Placements]
    BY <1>3, <2>1 DEF Shape
  <2> HIDE DEF d
  <2>4. /\ share[n] \in [Terms -> Shares] /\ share' = [share EXCEPT ![n] = share[n]]
        /\ \A t \in Terms : Moves(share[n][t], share[n][t])
    BY <1>1, <2>1, SameShares
  <2> QED BY <1>1, <1>3, <2>2, <2>3, <2>4, PublicationInv
<1> QED BY <1>2, <1>3 DEF PublishOther

LEMMA RepublishInv ==
    ASSUME Inv, NEW n \in Nodes, Republish(n)
    PROVE  Inv'
BY PublishedInv DEF Republish, termVars, nodeVars, netVars, panelVars

\* AllocateCreditTx inside the publication of a native placement.
LEMMA PublishFundedInv ==
    ASSUME Inv, NEW n \in Nodes, PublishFunded(n)
    PROVE  Inv'
<1>0. MaxTerm \in Nat /\ MaxRevision \in Nat /\ MaxDeployments \in Nat
  BY GrantAssumption
<1> DEFINE t == current
           s == RequestedShare(n, t, Open)
           g == Policy(n, t, s, TRUE)
           d == [place |-> place[n].rev, grant |-> g]
           new == [share[n] EXCEPT ![t] = s]
<1>1. Shape /\ t \in Terms /\ place[n].rev \in Nat /\ share[n] \in [Terms -> Shares]
  BY <1>0 DEF Inv, Shape, Terms, Placements, PublishFunded
<1>2. /\ UNCHANGED <<current, pending, term, expired, row, applied, base, intent, rec, post, receipts,
                     source, work, resetting>>
      /\ applied[n] = Desired(n) /\ Desired(n) < MaxDeployments /\ source
      /\ share[n][t].rev < MaxRevision
      /\ PublishWith(n, g) /\ share' = [share EXCEPT ![n][t] = s]
  BY DEF PublishFunded, Publishable, MayRequestShare, termVars, nodeVars, netVars, panelVars
<1>3. s \in Shares /\ Moves(share[n][t], s)
  BY <1>1, <1>2, RequestMoves DEF Rates
<1>4. deps' = [deps EXCEPT ![n] = Append(@, d)]
  BY <1>2 DEF PublishWith
<1> HIDE DEF s
<1>5. g \in Policies /\ Made(s, g) /\ g.term = t
  BY <1>0, <1>1, <1>3, PolicyFacts DEF Policy
<1>6. place' \in [Nodes -> Placements]
  BY <1>1, <1>2, <1>5, PublishedPlace
<1> HIDE DEF g
<1>7. d \in Deployments /\ d.grant = g
  BY <1>1, <1>5 DEF Deployments
<1>8. new \in [Terms -> Shares] /\ share' = [share EXCEPT ![n] = new]
  BY <1>1, <1>2, <1>3
<1>9. ASSUME NEW x \in Terms
      PROVE  /\ Moves(share[n][x], new[x])
             /\ new[x].outstanding = Open => share[n][x].outstanding = Open \/ (x = current /\ source)
  <2>1. CASE x = t
    BY <2>1, <1>1, <1>2, <1>3
  <2>2. CASE x # t
    BY <2>2, <1>1 DEF Moves
  <2> QED BY <2>1, <2>2
<1>10. new[t] = s
  BY <1>1
<1> HIDE DEF d, new
<1> QED BY <1>2, <1>4, <1>5, <1>6, <1>7, <1>8, <1>9, <1>10, PublicationInv

\* queueFleetSourceStop for the pending grants of a stream runtime.
LEMMA StopStreamInv ==
    ASSUME Inv, NEW n \in Nodes, StopStream(n)
    PROVE  Inv'
<1>0. MaxTerm \in Nat /\ MaxRevision \in Nat /\ MaxDeployments \in Nat
  BY GrantAssumption
<1> DEFINE targets == {t \in Granted(n) : ~StopSettled(n, t)}
           s == [t \in Terms |-> IF t \in targets THEN StopShare(n, t) ELSE share[n][t]]
           w == [t \in Terms |-> IF t \in targets THEN Queued(n, t, s[t], FALSE) ELSE row[n][t]]
<1>1. Shape /\ Numbered(n)
  BY DEF Inv, NodeSound
<1>2. /\ \A t \in targets : s[t] # share[n][t] => share[n][t].rev < MaxRevision
      /\ share' = [share EXCEPT ![n] = s] /\ row' = [row EXCEPT ![n] = w] /\ Converged(n)
  BY DEF StopStream, MayRequestShare
<1>3. /\ UNCHANGED <<current, pending, term, expired, place, deps, applied, base, intent, rec, post, receipts>>
      /\ UNCHANGED <<source, work, resetting>>
  BY DEF StopStream, termVars, nodeVars, netVars, panelVars
<1>4. ASSUME NEW t \in Terms
      PROVE  /\ s[t] \in Shares /\ Moves(share[n][t], s[t])
             /\ s[t].outstanding = Open => share[n][t].outstanding = Open
  <2>1. share[n][t] \in Shares
    BY <1>1 DEF Shape
  <2>2. CASE s[t] = share[n][t]
    BY <2>1, <2>2 DEF Moves
  <2>3. CASE s[t] # share[n][t]
    <3>1. t \in targets /\ s[t] = StopShare(n, t) /\ share[n][t].rev < MaxRevision
      BY <2>3, <1>2
    <3>2. s[t] = RequestedShare(n, t, Blocked)
      BY <2>3, <3>1 DEF StopShare
    <3>3. Blocked \in Rates /\ Blocked # Open
      BY DEF Rates, Blocked, Open
    <3> HIDE DEF s
    <3> QED BY <3>1, <3>2, <3>3, <1>1, RequestMoves, RequestGrows
  <2> QED BY <2>2, <2>3
<1>5. s \in [Terms -> Shares]
  BY <1>4
<1>6. ASSUME NEW t \in Terms
      PROVE  /\ w[t] \in Rows
             /\ \/ w[t].update = row[n][t].update
                \/ w[t].update = [base |-> applied[n], policy |-> Policy(n, t, s[t], FALSE)]
  <2>1. row[n][t] \in Rows /\ w[t] = IF t \in targets THEN Queued(n, t, s[t], FALSE) ELSE row[n][t]
    BY <1>1 DEF Shape
  <2> HIDE DEF s, w, targets
  <2> QED BY <2>1, <1>1, <1>4, QueuedFacts
<1>7. w \in [Terms -> Rows]
  BY <1>6
<1> HIDE DEF s, w, targets
<1>8. Shape'
  <2>1. share' \in [Nodes -> [Terms -> Shares]] /\ row' \in [Nodes -> [Terms -> Rows]]
    BY <1>1, <1>2, <1>5, <1>7 DEF Shape
  <2> QED BY <1>1, <1>3, <2>1 DEF Shape
<1>9. share'[n] = s /\ row'[n] = w
  BY <1>1, <1>2 DEF Shape
<1>10. MasterMoves(n)
  <2>1. \A m \in Nodes \ {n} : share'[m] = share[m] /\ row'[m] = row[m] /\ deps'[m] = deps[m]
    BY <1>1, <1>2, <1>3 DEF Shape
  <2>2. ASSUME NEW t \in Terms
        PROVE  /\ Moves(share[n][t], share'[n][t])
               /\ \/ row'[n][t].update = row[n][t].update
                  \/ \E e \in BOOLEAN :
                        row'[n][t].update = [base |-> applied[n], policy |-> Policy(n, t, share'[n][t], e)]
    BY <1>4, <1>6, <1>9
  <2> QED BY <2>1, <2>2, <1>2, <1>3 DEF MasterMoves, Converged, nodeVars, netVars
<1>11. \A t \in Terms : share'[n][t].outstanding = Open => share[n][t].outstanding = Open
  BY <1>4, <1>9
<1> QED BY <1>3, <1>8, <1>10, <1>11, MasterInv

\* StopConfiguration: the deployed grant again, with a revision that blocks it.
LEMMA StopNativeInv ==
    ASSUME Inv, NEW n \in Nodes, StopNative(n)
    PROVE  Inv'
<1>0. MaxTerm \in Nat /\ MaxRevision \in Nat /\ MaxDeployments \in Nat
  BY GrantAssumption
<1> DEFINE t == Deployed(n).grant.term
           s == ZeroedShare(share[n][t])
           g == Policy(n, t, s, FALSE)
           d == [place |-> Deployed(n).place, grant |-> g]
           new == [share[n] EXCEPT ![t] = s]
<1>1. Shape /\ Numbered(n) /\ share[n] \in [Terms -> Shares]
  BY DEF Inv, NodeSound, Shape
<1>2. t \in Terms
  <2>1. t \in Granted(n)
    BY DEF StopNative
  <2> QED BY <2>1 DEF Granted
<1>3. /\ UNCHANGED <<current, pending, term, expired, place, row, applied, base, intent, rec, post, receipts,
                     source, work, resetting>>
      /\ applied[n] = Desired(n) /\ Desired(n) < MaxDeployments
      /\ share[n][t].rev < MaxRevision
      /\ share' = [share EXCEPT ![n][t] = s]
      /\ deps' = [deps EXCEPT ![n] = Append(@, d)]
  BY DEF StopNative, Converged, termVars, nodeVars, netVars, panelVars
<1>4. /\ s \in Shares /\ Moves(share[n][t], s)
      /\ s.outstanding = Open => share[n][t].outstanding = Open
  <2>1. share[n][t] \in Shares
    BY <1>1, <1>2
  <2>2. share[n][t].rev + 1 \in 0..MaxRevision /\ Blocked \in Rates /\ Blocked # Open
    <3>1. share[n][t].rev \in 0..MaxRevision /\ share[n][t].rev < MaxRevision
      BY <2>1, <1>3 DEF Shares
    <3> HIDE DEF t
    <3>2. share[n][t].rev + 1 \in 0..MaxRevision
      BY <3>1, <1>0
    <3> QED BY <3>2 DEF Rates, Open, Blocked
  <2>3. s = [share[n][t] EXCEPT !.rev = share[n][t].rev + 1, !.desired = Blocked]
    BY DEF ZeroedShare
  <2> HIDE DEF s, t
  <2> QED BY <2>1, <2>2, <2>3 DEF Shares, Moves
<1>5. Deployed(n).place \in Nat
  BY <1>1, DeployedFacts DEF Deployments
<1> HIDE DEF s, t
<1>6. g \in Policies /\ Made(s, g) /\ g.term = t
  BY <1>0, <1>2, <1>4, PolicyFacts DEF Policy
<1> HIDE DEF g
<1>7. d \in Deployments /\ d.grant = g
  BY <1>5, <1>6 DEF Deployments
<1>8. new \in [Terms -> Shares] /\ share' = [share EXCEPT ![n] = new]
  BY <1>1, <1>2, <1>3, <1>4
<1>9. ASSUME NEW x \in Terms
      PROVE  Moves(share[n][x], new[x]) /\ (new[x].outstanding = Open => share[n][x].outstanding = Open)
  <2>1. CASE x = t
    BY <2>1, <1>1, <1>4
  <2>2. CASE x # t
    BY <2>2, <1>1 DEF Moves
  <2> QED BY <2>1, <2>2
<1>10. new[t] = s /\ place' \in [Nodes -> Placements]
  BY <1>1, <1>2, <1>3 DEF Shape
<1> HIDE DEF d, new
<1> QED BY <1>3, <1>6, <1>7, <1>8, <1>9, <1>10, PublicationInv

-----------------------------------------------------------------------------
(***************************************************************************)
(* Terms, the operator and the source work.                                *)
(***************************************************************************)

\* A step that leaves grants and nodes alone, but for blocked rows.
Quiet ==
    /\ UNCHANGED <<share, deps, applied, base, intent, rec, post, receipts>>
    /\ \A n \in Nodes, t \in Terms : row'[n][t].update = row[n][t].update

LEMMA QuietInv ==
    ASSUME Inv, Shape', Quiet, \A n \in Nodes : TermSound(n)' /\ WorkSound(n)'
    PROVE  Inv'
<1>1. ASSUME NEW n \in Nodes PROVE NodeSound(n)'
  <2>1. SameNode(n)
    BY DEF Quiet, SameNode
  <2> QED BY <2>1, SameSound DEF Inv
<1> QED BY <1>1 DEF Inv

\* blockFleetSourceAuthority changes nothing that a row says.
LEMMA BlockedRowsFacts ==
    ASSUME Shape
    PROVE  /\ BlockedRows \in [Nodes -> [Terms -> Rows]]
           /\ \A n \in Nodes, t \in Terms : BlockedRows[n][t].update = row[n][t].update
<1>1. ASSUME NEW n \in Nodes, NEW t \in Terms
      PROVE  BlockedRows[n][t] \in Rows /\ BlockedRows[n][t].update = row[n][t].update
  <2>1. row[n][t] \in Rows
    BY DEF Shape
  <2>2. BlockedRows[n][t] \in {row[n][t], [row[n][t] EXCEPT !.blocked = TRUE]}
    BY DEF BlockedRows
  <2> QED BY <2>1, <2>2 DEF Rows
<1>2. BlockedRows \in [Nodes -> [Terms -> Rows]]
  BY <1>1 DEF BlockedRows
<1> QED BY <1>1, <1>2

\* After a change every placement has a stop to do.
LEMMA StopWorkFacts ==
    ASSUME Shape, NEW enabled \in BOOLEAN
    PROVE  /\ StopWork(enabled) \in [Nodes -> Work]
           /\ \A n \in Nodes : StopWork(enabled)[n].requiresStop /\ StopWork(enabled)[n].pending
<1>1. ASSUME NEW n \in Nodes
      PROVE  StopWork(enabled)[n] \in Work /\ StopWork(enabled)[n].requiresStop /\ StopWork(enabled)[n].pending
  <2>1. work[n] \in Work
    BY DEF Shape
  <2>2. StopWork(enabled)[n] = [work[n] EXCEPT !.enabled = enabled, !.requiresStop = TRUE, !.pending = TRUE]
    BY DEF StopWork
  <2> QED BY <2>1, <2>2 DEF Work
<1>2. StopWork(enabled) \in [Nodes -> Work]
  BY <1>1 DEF StopWork
<1> QED BY <1>1, <1>2

\* A node whose grants all have a stop proof has nothing outstanding: there was
\* nothing outstanding where there is no grant.
LEMMA ProvedSilent ==
    ASSUME Shape, NEW n \in Nodes, NodeSound(n), NEW t \in Terms,
           t \in Granted(n) => StopProved(n, t)
    PROVE  share[n][t].outstanding = Blocked
<1>1. share[n][t] \in Shares /\ MaxRevision \in Nat
  BY GrantAssumption DEF Shape
<1>2. CASE t \in Granted(n)
  BY <1>2 DEF StopProved
<1>3. CASE t \notin Granted(n)
  <2>1. share[n][t].rev = 0
    BY <1>1, <1>3 DEF Granted, Shares
  <2> QED BY <2>1 DEF NodeSound, GrantSound
<1> QED BY <1>2, <1>3

LEMMA ActivateInv ==
    ASSUME Inv, NEW n \in Nodes, Activate(n)
    PROVE  Inv'
<1>0. MaxTerm \in Nat \ {0}
  BY GrantAssumption
<1>1. Shape
  BY DEF Inv
<1>2. /\ UNCHANGED <<pending, expired, place, share, row, deps, applied, base, intent, rec, post, receipts,
                     source, work, resetting>>
      /\ current = 0 /\ current' = 1 /\ term' = [term EXCEPT ![1] = "active"]
  BY DEF Activate, masterVars, nodeVars, netVars, panelVars
<1>3. Shape'
  <2>1. current' \in 0..MaxTerm
    BY <1>0, <1>2
  <2>2. term' \in [Terms -> {"none", "pending", "active", "draining", "closed"}]
    BY <1>1, <1>2 DEF Shape
  <2> QED BY <1>1, <1>2, <2>1, <2>2 DEF Shape
<1>4. Quiet
  BY <1>2 DEF Quiet
<1>5. ASSUME NEW m \in Nodes PROVE TermSound(m)' /\ WorkSound(m)'
  <2>1. \A t \in Terms : share[m][t].outstanding = Blocked
    BY <1>0, <1>2 DEF Inv, TermSound, Terms
  <2> QED BY <2>1, <1>2 DEF Inv, TermSound, WorkSound
<1> QED BY <1>3, <1>4, <1>5, QuietInv

LEMMA ExpireInv ==
    ASSUME Inv, Expire
    PROVE  Inv'
<1>1. Shape
  BY DEF Inv
<1>2. /\ UNCHANGED <<current, pending, term, place, share, row, deps, applied, base, intent, rec, post, receipts,
                     source, work, resetting>>
      /\ expired' = TRUE
  BY DEF Expire, masterVars, nodeVars, netVars, panelVars
<1>3. Shape'
  BY <1>1, <1>2 DEF Shape
<1>4. Quiet
  BY <1>2 DEF Quiet
<1>5. \A m \in Nodes : TermSound(m)' /\ WorkSound(m)'
  BY <1>2 DEF Inv, TermSound, WorkSound
<1> QED BY <1>3, <1>4, <1>5, QuietInv

LEMMA SetSourceInv ==
    ASSUME Inv, SetSource
    PROVE  Inv'
<1>1. Shape /\ (~source) \in BOOLEAN
  BY DEF Inv, Shape
<1>2. /\ UNCHANGED <<current, pending, term, expired, share, deps, applied, base, intent, rec, post, receipts,
                     resetting>>
      /\ source' = ~source /\ work' = StopWork(~source) /\ row' = BlockedRows
      /\ place' = [n \in Nodes |-> [place[n] EXCEPT !.enabled = FALSE, !.rev = @ + 1]]
  BY DEF SetSource, termVars, nodeVars, netVars
<1>3. place' \in [Nodes -> Placements]
  <2>1. ASSUME NEW n \in Nodes PROVE [place[n] EXCEPT !.enabled = FALSE, !.rev = @ + 1] \in Placements
    <3>1. place[n] \in Placements
      BY <1>1 DEF Shape
    <3>2. place[n].rev + 1 \in Nat
      BY <3>1 DEF Placements
    <3> QED BY <3>1, <3>2 DEF Placements
  <2> QED BY <1>2, <2>1
<1>4. Shape'
  BY <1>1, <1>2, <1>3, BlockedRowsFacts, StopWorkFacts DEF Shape
<1>5. Quiet
  BY <1>1, <1>2, BlockedRowsFacts DEF Quiet
<1>6. \A m \in Nodes : TermSound(m)' /\ WorkSound(m)'
  <2>1. \A m \in Nodes : work'[m].requiresStop /\ work'[m].pending
    BY <1>1, <1>2, StopWorkFacts
  <2> QED BY <1>2, <2>1 DEF Inv, TermSound, WorkSound
<1> QED BY <1>4, <1>5, <1>6, QuietInv

LEMMA BeginResetInv ==
    ASSUME Inv, BeginReset
    PROVE  Inv'
<1>0. MaxTerm \in Nat
  BY GrantAssumption
<1>1. Shape /\ source \in BOOLEAN
  BY DEF Inv, Shape
<1>2. /\ UNCHANGED <<current, expired, place, share, deps, applied, base, intent, rec, post, receipts, source>>
      /\ pending' = NextTerm /\ NextTerm <= MaxTerm /\ resetting' = TRUE
      /\ term' = [term EXCEPT ![NextTerm] = "pending", ![current] = "draining"]
      /\ work' = StopWork(source) /\ row' = BlockedRows
  BY DEF BeginReset, nodeVars, netVars
<1>3. NextTerm \in 0..MaxTerm
  <2>1. IsFiniteSet(Terms)
    BY <1>0, FS_Interval DEF Terms
  <2>2. IsFiniteSet({t \in Terms : term[t] # "none"})
    BY <2>1, FS_Subset
  <2>3. Cardinality({t \in Terms : term[t] # "none"}) \in Nat
    BY <2>2, FS_CardinalityType
  <2> QED BY <2>3, <1>0, <1>2 DEF NextTerm
<1>4. term' \in [Terms -> {"none", "pending", "active", "draining", "closed"}]
  BY <1>1, <1>2 DEF Shape
<1>5. Shape'
  BY <1>1, <1>2, <1>3, <1>4, BlockedRowsFacts, StopWorkFacts DEF Shape
<1>6. Quiet
  BY <1>1, <1>2, BlockedRowsFacts DEF Quiet
<1>7. \A m \in Nodes : TermSound(m)' /\ WorkSound(m)'
  <2>1. \A m \in Nodes : work'[m].requiresStop /\ work'[m].pending
    BY <1>1, <1>2, StopWorkFacts
  <2> QED BY <1>2, <2>1 DEF Inv, TermSound, WorkSound
<1> QED BY <1>5, <1>6, <1>7, QuietInv

\* The old term is replaced when all its grants have a stop proof, so that
\* nothing of any term is outstanding then.
LEMMA FinishResetInv ==
    ASSUME Inv, FinishReset
    PROVE  Inv'
<1>1. Shape
  BY DEF Inv
<1>2. /\ UNCHANGED <<expired, share, row, deps, applied, base, intent, rec, post, receipts, source>>
      /\ Completable /\ current' = pending /\ pending' = 0 /\ resetting' = FALSE
      /\ term' = [term EXCEPT ![pending] = "active", ![current] = "closed"]
      /\ place' = [n \in Nodes |-> [rev |-> place[n].rev + 1, enabled |-> FALSE, grant |-> 0]]
      /\ work' = [n \in Nodes |-> [work[n] EXCEPT !.enabled = source,
                                                  !.pending = work[n].requiresStop \/ source]]
  BY DEF FinishReset, masterVars, nodeVars, netVars
<1>3. MaxTerm \in Nat /\ 0 \in 0..MaxTerm
  BY GrantAssumption
<1>4. place' \in [Nodes -> Placements]
  <2>1. ASSUME NEW n \in Nodes PROVE [rev |-> place[n].rev + 1, enabled |-> FALSE, grant |-> 0] \in Placements
    BY <1>1, <1>3 DEF Shape, Placements
  <2> QED BY <1>2, <2>1
<1>5. ASSUME NEW n \in Nodes
      PROVE  /\ work'[n] \in Work /\ work'[n].requiresStop = work[n].requiresStop
             /\ work[n].requiresStop => work'[n].pending
  <2> DEFINE b == work[n].requiresStop \/ source
  <2>1. b \in BOOLEAN /\ source \in BOOLEAN /\ (work[n].requiresStop => b) /\ work[n] \in Work
    BY <1>1 DEF Shape
  <2>2. work'[n] = [work[n] EXCEPT !.enabled = source, !.pending = b]
    BY <1>2
  <2> HIDE DEF b
  <2> QED BY <2>1, <2>2 DEF Work
<1>6. work' \in [Nodes -> Work]
  BY <1>2, <1>5
<1>7. term' \in [Terms -> {"none", "pending", "active", "draining", "closed"}]
  BY <1>1, <1>2 DEF Shape
<1>8. Shape'
  BY <1>1, <1>2, <1>3, <1>4, <1>6, <1>7 DEF Shape
<1>9. Quiet
  BY <1>2 DEF Quiet
<1>10. ASSUME NEW m \in Nodes, NEW t \in Terms PROVE share[m][t].outstanding = Blocked
  <2>1. CASE t = current
    <3>1. t \in Granted(m) => StopProved(m, t)
      BY <2>1, <1>2 DEF Completable
    <3> QED BY <3>1, <1>1, ProvedSilent DEF Inv
  <2>2. CASE t # current
    BY <2>2 DEF Inv, TermSound
  <2> QED BY <2>1, <2>2
<1>11. \A m \in Nodes : TermSound(m)' /\ WorkSound(m)'
  BY <1>2, <1>5, <1>10 DEF TermSound, WorkSound
<1> QED BY <1>8, <1>9, <1>11, QuietInv

LEMMA CancelResetInv ==
    ASSUME Inv, CancelReset
    PROVE  Inv'
<1>1. Shape /\ source \in BOOLEAN
  BY DEF Inv, Shape
<1>2. /\ UNCHANGED <<current, expired, place, share, deps, applied, base, intent, rec, post, receipts, source>>
      /\ pending' = 0 /\ resetting' = FALSE
      /\ term' = [term EXCEPT ![pending] = "closed", ![current] = "active"]
      /\ work' = StopWork(source) /\ row' = BlockedRows
  BY DEF CancelReset, nodeVars, netVars
<1>3. MaxTerm \in Nat /\ 0 \in 0..MaxTerm
  BY GrantAssumption
<1>4. term' \in [Terms -> {"none", "pending", "active", "draining", "closed"}]
  BY <1>1, <1>2 DEF Shape
<1>5. Shape'
  BY <1>1, <1>2, <1>3, <1>4, BlockedRowsFacts, StopWorkFacts DEF Shape
<1>6. Quiet
  BY <1>1, <1>2, BlockedRowsFacts DEF Quiet
<1>7. \A m \in Nodes : TermSound(m)' /\ WorkSound(m)'
  <2>1. \A m \in Nodes : work'[m].requiresStop /\ work'[m].pending
    BY <1>1, <1>2, StopWorkFacts
  <2> QED BY <1>2, <2>1 DEF Inv, TermSound, WorkSound
<1> QED BY <1>5, <1>6, <1>7, QuietInv

\* advanceFleetSourceProof: a stop is done when every grant of the node has its proof.
LEMMA ProofStepInv ==
    ASSUME Inv, NEW n \in Nodes, ProofStep(n)
    PROVE  Inv'
<1>0. MaxDeployments \in Nat
  BY GrantAssumption
<1>1. Shape /\ NodeSound(n) /\ work \in [Nodes -> Work] /\ work[n] \in Work
  BY DEF Inv, Shape
<1>2. /\ UNCHANGED <<current, pending, term, expired, place, share, row, deps, applied, base, intent, rec,
                     post, receipts, source, resetting>>
  BY DEF ProofStep, grantVars, termVars, masterVars, nodeVars, netVars
<1>3. \E v \in Work :
         /\ work' = [work EXCEPT ![n] = v]
         /\ v.requiresStop = FALSE
         /\ work[n].requiresStop => Stopped(n)
  <2>1. CASE /\ work[n].requiresStop /\ Stopped(n)
             /\ work' = [work EXCEPT ![n] = [@ EXCEPT !.requiresStop = FALSE, !.pending = work[n].enabled,
                                                      !.stopped = applied[n]]]
    <3> DEFINE v == [work[n] EXCEPT !.requiresStop = FALSE, !.pending = work[n].enabled, !.stopped = applied[n]]
    <3>1. applied[n] \in 0..MaxDeployments
      BY <1>0, <1>1 DEF NodeSound, Numbered, Shape, Desired
    <3>2. v \in Work /\ v.requiresStop = FALSE
      BY <3>1, <1>1 DEF Work
    <3>3. work' = [work EXCEPT ![n] = v]
      BY <2>1, <1>1
    <3> HIDE DEF v
    <3> QED BY <2>1, <3>2, <3>3
  <2>2. CASE ~work[n].requiresStop /\ work' = [work EXCEPT ![n].pending = FALSE]
    <3> DEFINE v == [work[n] EXCEPT !.pending = FALSE]
    <3>1. v \in Work /\ v.requiresStop = work[n].requiresStop /\ work[n].requiresStop \in BOOLEAN
      BY <1>1 DEF Work
    <3>2. work' = [work EXCEPT ![n] = v]
      BY <2>2, <1>1
    <3> HIDE DEF v
    <3> QED BY <2>2, <3>1, <3>2
  <2> QED BY <2>1, <2>2 DEF ProofStep
<1>4. PICK v \in Work :
         /\ work' = [work EXCEPT ![n] = v]
         /\ v.requiresStop = FALSE
         /\ work[n].requiresStop => Stopped(n)
  BY <1>3
<1>5. Shape'
  <2>1. work' \in [Nodes -> Work]
    BY <1>1, <1>4
  <2> QED BY <1>1, <1>2, <2>1 DEF Shape
<1>6. Quiet
  BY <1>2 DEF Quiet
<1>7. ASSUME NEW m \in Nodes PROVE TermSound(m)' /\ WorkSound(m)'
  <2>1. TermSound(m)'
    BY <1>2 DEF Inv, TermSound
  <2>2. CASE m # n
    <3>1. work'[m] = work[m]
      BY <2>2, <1>1, <1>4
    <3> QED BY <2>1, <3>1, <1>2 DEF Inv, WorkSound
  <2>3. CASE m = n
    <3>1. work'[n] = v
      BY <1>1, <1>4
    <3>2. ASSUME ~source, NEW t \in Terms PROVE share[n][t].outstanding = Blocked
      <4>1. CASE work[n].requiresStop
        <5>1. t \in Granted(n) => StopProved(n, t)
          BY <4>1, <1>4 DEF Stopped, StopSettled
        <5> QED BY <5>1, <1>1, ProvedSilent
      <4>2. CASE ~work[n].requiresStop
        BY <3>2, <4>2 DEF Inv, WorkSound
      <4> QED BY <4>1, <4>2
    <3> QED BY <2>1, <2>3, <3>1, <3>2, <1>2, <1>4 DEF WorkSound
  <2> QED BY <2>2, <2>3
<1> QED BY <1>5, <1>6, <1>7, QuietInv

-----------------------------------------------------------------------------
(***************************************************************************)
(* The invariant and what follows from it.                                 *)
(***************************************************************************)

LEMMA InitInv ==
    ASSUME Init
    PROVE  Inv
<1>0. MaxTerm \in Nat /\ MaxRevision \in Nat /\ MaxDeployments \in Nat \ {0}
  BY GrantAssumption
<1>1. GrantInit
  BY DEF Init
<1>2. NoPolicy \in Policies /\ NoPolicy.term = 0 /\ NoPolicy.rev = 0 /\ NoPolicy.rate = Blocked
  BY <1>0 DEF NoPolicy, Policies, Rates, Blocked
<1>3. NoUpdate \in Updates /\ NoUpdate.policy = NoPolicy /\ NoUpdate.base = 0
  BY <1>0, <1>2 DEF NoUpdate, Updates
<1>4. NoRow \in Rows /\ NoRow.update = NoUpdate
  BY <1>0, <1>3 DEF NoRow, Rows
<1>5. NoRecord \in Records /\ NoRecord.policy = NoPolicy /\ NoRecord.revision = 0
  BY <1>2 DEF NoRecord, Records
<1>6. NoShare \in Shares /\ NoShare.desired = Blocked /\ NoShare.outstanding = Blocked /\ NoShare.rev = 0
  BY <1>0 DEF NoShare, Shares, Rates, Blocked
<1>7. Within(NoShare, NoRecord, NoPolicy)
  BY <1>2, <1>6 DEF Within, Blocked, Open
<1> DEFINE d(n) == [place |-> IF n \in Native THEN 0 ELSE 1, grant |-> NoPolicy]
<1>8. ASSUME NEW n \in Nodes
      PROVE  /\ <<d(n)>> \in Seq(Deployments) /\ Len(<<d(n)>>) = 1
             /\ <<d(n)>>[1].grant = NoPolicy
  <2>1. d(n) \in Deployments /\ d(n).grant = NoPolicy
    BY <1>2 DEF Deployments
  <2> HIDE DEF d
  <2> QED BY <2>1
<1>9. deps = [n \in Nodes |-> <<d(n)>>]
  BY <1>1 DEF GrantInit
<1> HIDE DEF d
<1>10. Shape
  <2>1. deps \in [Nodes -> Seq(Deployments)]
    BY <1>8, <1>9
  <2>2. place \in [Nodes -> Placements]
    <3>1. ASSUME NEW n \in Nodes PROVE [rev |-> 1, enabled |-> n \notin Native, grant |-> 0] \in Placements
      BY <1>0 DEF Placements
    <3> QED BY <3>1, <1>1 DEF GrantInit
  <2>3. work \in [Nodes -> Work]
    BY <1>0 DEF Init, Work
  <2>4. /\ share \in [Nodes -> [Terms -> Shares]] /\ row \in [Nodes -> [Terms -> Rows]]
        /\ rec \in [Nodes -> [Terms -> Records]] /\ intent \in [Nodes -> Updates]
    BY <1>1, <1>3, <1>4, <1>5, <1>6 DEF GrantInit
  <2>5. /\ applied \in [Nodes -> Nat] /\ base \in [Nodes -> Nat]
        /\ post \in [Nodes -> SUBSET Updates] /\ receipts \in [Nodes -> SUBSET Updates]
    BY <1>1 DEF GrantInit
  <2>6. /\ current \in 0..MaxTerm /\ pending \in 0..MaxTerm /\ expired \in BOOLEAN
        /\ source \in BOOLEAN /\ resetting \in BOOLEAN
        /\ term \in [Terms -> {"none", "pending", "active", "draining", "closed"}]
    <3>1. 0 \in 0..MaxTerm
      BY <1>0
    <3>2. term \in [Terms -> {"none", "pending", "active", "draining", "closed"}]
      BY <1>1 DEF GrantInit
    <3> QED BY <3>1, <3>2, <1>1 DEF Init, GrantInit
  <2> QED BY <2>1, <2>2, <2>3, <2>4, <2>5, <2>6 DEF Shape
<1>11. ASSUME NEW n \in Nodes
       PROVE  /\ deps[n] = <<d(n)>> /\ applied[n] = 1 /\ base[n] = 1 /\ intent[n] = NoUpdate
              /\ post[n] = {} /\ receipts[n] = {} /\ Desired(n) = 1 /\ deps[n][1].grant = NoPolicy
              /\ \A t \in Terms : share[n][t] = NoShare /\ row[n][t] = NoRow /\ rec[n][t] = NoRecord
              /\ ~work[n].requiresStop
  BY <1>1, <1>8, <1>9 DEF GrantInit, Init, Desired
<1>12. \A t \in Terms : t # 0
  BY <1>0 DEF Terms
<1>13. ASSUME NEW n \in Nodes PROVE NodeSound(n)
  <2>1. Numbered(n) /\ Addressed(n) /\ PendingExact(n)
    BY <1>0, <1>2, <1>3, <1>4, <1>11 DEF Numbered, Addressed, PendingExact
  <2>2. ASSUME NEW t \in Terms PROVE GrantSound(n, t)
    <3>1. \A i \in applied[n]..Desired(n) : deps[n][i].grant.term # t
      BY <1>2, <1>11, <1>12
    <3> QED BY <3>1, <1>2, <1>3, <1>4, <1>5, <1>6, <1>7, <1>11, <1>12 DEF GrantSound, Open, Blocked
  <2>3. ASSUME NEW t \in Terms PROVE RecordSound(n, t)
    <3>1. \A i \in applied[n]..base[n] : deps[n][i].grant.term # t
      BY <1>2, <1>11, <1>12
    <3> QED BY <3>1, <1>2, <1>3, <1>5, <1>11, <1>12 DEF RecordSound
  <2> QED BY <2>1, <2>2, <2>3 DEF NodeSound
<1>14. ASSUME NEW n \in Nodes PROVE TermSound(n) /\ WorkSound(n)
  BY <1>6, <1>11 DEF TermSound, WorkSound
<1> QED BY <1>10, <1>13, <1>14 DEF Inv

LEMMA DeliveryInv ==
    ASSUME Inv, NEW n \in Nodes, Delivery(n)
    PROVE  Inv'
<1>1. Others
  BY DEF Delivery, Others
<1>2. ASSUME NEW t \in Terms, Fetch(n, t, Allowed(n, t)) PROVE Inv'
  BY <1>1, <1>2, FetchInv
<1>3. ASSUME NEW u, Intend(n, u) PROVE Inv'
  BY <1>1, <1>3, IntendInv
<1>4. ASSUME NEW b, Enforce(n, b) PROVE Inv'
  BY <1>1, <1>4, EnforceInv
<1>5. ASSUME NEW u, Acknowledge(n, u) PROVE Inv'
  BY <1>1, <1>5, AcknowledgeInv
<1>6. CASE Deploy(n)
  BY <1>1, <1>6, DeployInv
<1>7. ASSUME NEW r, Observe(n, r) PROVE Inv'
  BY <1>1, <1>7, ObserveInv
<1> QED BY <1>2, <1>3, <1>4, <1>5, <1>6, <1>7 DEF Delivery

LEMMA NextInv ==
    ASSUME Inv, [Next]_vars
    PROVE  Inv'
<1>1. CASE UNCHANGED vars
  <2>1. Shape'
    BY <1>1 DEF Inv, Shape, vars, grantVars, termVars, masterVars, nodeVars, netVars, panelVars
  <2>2. Quiet
    BY <1>1 DEF Quiet, vars, grantVars, termVars, masterVars, nodeVars, netVars, panelVars
  <2>3. \A n \in Nodes : TermSound(n)' /\ WorkSound(n)'
    BY <1>1 DEF Inv, TermSound, WorkSound, vars, grantVars, termVars, masterVars, nodeVars, netVars, panelVars
  <2> QED BY <2>1, <2>2, <2>3, QuietInv
<1>2. ASSUME NEW n \in Nodes, Activate(n) PROVE Inv'
  BY <1>2, ActivateInv
<1>3. ASSUME NEW n \in Nodes, Admit(n) PROVE Inv'
  BY <1>3, SetRateInv DEF Admit, Rates
<1>4. ASSUME NEW n \in Nodes, NEW r \in PlannerRates, Reconcile(n, r) PROVE Inv'
  <2>1. r \in Rates
    BY TermAssumption
  <2> QED BY <1>4, <2>1, SetRateInv DEF Reconcile
<1>5. ASSUME NEW n \in Nodes, PublishOther(n) PROVE Inv'
  BY <1>5, PublishOtherInv
<1>6. ASSUME NEW n \in Nodes, PublishFunded(n) PROVE Inv'
  BY <1>6, PublishFundedInv
<1>7. ASSUME NEW n \in Nodes, Scheduler(n) PROVE Inv'
  BY <1>7, ProofStepInv, StopStreamInv, StopNativeInv, RepublishInv DEF Scheduler
<1>8. ASSUME NEW n \in Nodes, Delivery(n) PROVE Inv'
  BY <1>8, DeliveryInv
<1>9. CASE Expire \/ SetSource \/ BeginReset \/ FinishReset \/ CancelReset
  BY <1>9, ExpireInv, SetSourceInv, BeginResetInv, FinishResetInv, CancelResetInv
<1> QED BY <1>1, <1>2, <1>3, <1>4, <1>5, <1>6, <1>7, <1>8, <1>9 DEF Next

\* What a node serves is outstanding, however late the policy reached it.
LEMMA ServingOutstanding ==
    ASSUME Inv, NEW n \in Nodes, NEW t \in Terms, Serving(n, t)
    PROVE  share[n][t].outstanding = Open
<1>1. Within(share[n][t], rec[n][t], rec[n][t].policy) /\ rec[n][t] \in Records /\ MaxRevision \in Nat
  BY GrantAssumption DEF Inv, NodeSound, GrantSound, Shape
<1>2. rec[n][t].policy.rev \in Nat
  BY <1>1 DEF Records, Policies
<1>3. rec[n][t].policy.rev >= rec[n][t].policy.rev
  BY <1>2
<1> QED BY <1>1, <1>3 DEF Within, Serving

LEMMA InvTypeOK ==
    ASSUME Inv
    PROVE  TypeOK
<1>1. \A n \in Nodes : place[n].grant \in 0..MaxTerm /\ work[n] \in Work
  BY DEF Inv, Shape, Placements
<1>2. \A n \in Nodes : intent[n] \in Updates /\ post[n] \subseteq Updates /\ receipts[n] \subseteq Updates
  BY DEF Inv, Shape
<1>3. \A n \in Nodes : applied[n] <= base[n] /\ base[n] <= Desired(n) /\ Desired(n) <= applied[n] + 1
  BY DEF Inv, NodeSound, Numbered
<1> QED BY <1>1, <1>2, <1>3 DEF Inv, Shape, TypeOK

\* A deployment on its way has the share's revision, and no record is ahead of it.
LEMMA InvNoRegress ==
    ASSUME Inv
    PROVE  NoAuthorityRegress
<1>0. MaxTerm \in Nat /\ MaxRevision \in Nat
  BY GrantAssumption
<1> SUFFICES ASSUME NEW n \in Nodes, base[n] < Desired(n), deps[n][Desired(n)].grant.term # 0
             PROVE  rec[n][deps[n][Desired(n)].grant.term].policy.rev <= deps[n][Desired(n)].grant.rev
  BY DEF NoAuthorityRegress
<1> DEFINE g == deps[n][Desired(n)].grant
<1>1. /\ Shape /\ Numbered(n) /\ PendingExact(n)
      /\ \A t \in Terms : GrantSound(n, t)
  BY DEF Inv, NodeSound
<1>2. /\ deps[n] \in Seq(Deployments) /\ Desired(n) \in 1..Len(deps[n]) /\ applied[n] < Desired(n)
  BY <1>1 DEF Shape, Numbered, Desired
<1>3. deps[n][Desired(n)] \in Deployments
  BY <1>2, ElementOfSeq
<1>4. g.term \in Terms
  BY <1>0, <1>3 DEF Deployments, Policies, Terms
<1>5. g.rev = share[n][g.term].rev
  BY <1>1, <1>2 DEF PendingExact
<1> HIDE DEF g
<1>6. rec[n][g.term].policy.rev <= share[n][g.term].rev
  BY <1>1, <1>4 DEF GrantSound, Within
<1> QED BY <1>5, <1>6 DEF g

\* The inductive invariant.
THEOREM Invariance == Spec => []Inv
<1>1. Init => Inv
  BY InitInv
<1>2. Inv /\ [Next]_vars => Inv'
  BY NextInv
<1> QED BY <1>1, <1>2, PTL DEF Spec

\* For every number of nodes, terms, revisions, deployments and messages in flight: no
\* node serves a term that has not begun or has been replaced (CompleteTransition), or at
\* a rate the ledger does not count as outstanding, or is sent a deployment with older
\* authority than it has.
THEOREM TermsStayInTurn == Spec => []TermsInTurn
<1>1. Inv => TypeOK /\ NoAuthorityRegress
  BY InvTypeOK, InvNoRegress
<1>2. Inv => OutstandingCovers
  BY ServingOutstanding DEF OutstandingCovers
<1>3. ASSUME Inv, NEW n \in Nodes, NEW t \in Terms, Serving(n, t) PROVE t = current
  <2>1. share[n][t].outstanding = Open
    BY <1>3, ServingOutstanding
  <2> QED BY <1>3, <2>1 DEF Inv, TermSound, Open, Blocked
<1>4. Inv => TermsInTurn
  BY <1>1, <1>2, <1>3 DEF TermsInTurn, OnlyCurrentTermServed
<1> QED BY <1>4, Invariance, PTL

\* For every number of nodes, terms, revisions, deployments and messages in flight: a grant
\* whose stop proof requireStoppedGrants accepts is silent on its node, and so is a client
\* whose disable the source work reports as done (fleetSourceWorkStopped).
THEOREM StopsStayHeld == Spec => []StopsHold
<1>1. ASSUME Inv, NEW n \in Nodes, NEW t \in Terms, StopProved(n, t) PROVE ~Serving(n, t)
  <2>1. share[n][t].outstanding # Open
    BY <1>1 DEF StopProved, Open, Blocked
  <2> QED BY <1>1, <2>1, ServingOutstanding
<1>2. ASSUME Inv, NEW n \in Nodes, NEW t \in Terms, ~source, ~work[n].pending PROVE ~Serving(n, t)
  <2>1. share[n][t].outstanding = Blocked
    BY <1>2 DEF Inv, WorkSound
  <2>2. share[n][t].outstanding # Open
    BY <2>1 DEF Open, Blocked
  <2> QED BY <1>2, <2>2, ServingOutstanding
<1>3. Inv => StopsHold
  BY <1>1, <1>2 DEF StopsHold, StopProofsTrue, DisabledIsSilent
<1> QED BY <1>3, Invariance, PTL

-----------------------------------------------------------------------------
(* The credit of a runtime                                                 *)

Observations == [policy : Nat, ceil : Nat, spent : Nat, active : BOOLEAN]
Accounts == [policy : Nat, ceil : Nat, spent : Nat, rev : Nat, open : BOOLEAN]

CreditShape ==
    /\ issued \in [CreditGrants -> Nat] /\ budget \in 0..Quota
    /\ outbox \in [CreditGrants -> [base : Nat, ceil : Nat, acked : Nat]]
    /\ obs \in [CreditGrants -> [policy : Nat, ceil : Nat, spent : Nat, active : BOOLEAN, seq : Nat]]
    /\ sequence \in Nat /\ candidate \in [CreditGrants -> Nat]
    /\ queue \in [pending : BOOLEAN, claim : CreditWorkers \cup {"none"}]
    /\ open \in [CreditGrants -> [rev : Nat, applied : Nat, open : BOOLEAN]]
    /\ update \in [CreditGrants -> [base : Nat, rev : Nat, ceil : Nat, open : BOOLEAN]]
    /\ dep \in [CreditGrants -> [ceil : Nat, rev : Nat, open : BOOLEAN]]
    /\ record \in [CreditGrants -> Accounts]
    /\ {"ceils", "done"} \subseteq DOMAIN batch

\* One report is on its way at a time, one deployment is not applied yet.
CreditNumbers ==
    /\ reported \in Nat /\ report.seq \in {0, reported} /\ (report.seq = 0 => reported = sequence)
    /\ sequence <= reported /\ reported <= sequence + 1
    /\ desired \in Nat /\ deployed \in Nat /\ running \in Nat
    /\ deployed <= running /\ running <= desired /\ desired <= deployed + 1

Candidate(g) == candidate[g] <= sequence /\ (candidate[g] # 0 => queue.pending)

\* Reports are of the past: the node may have spent more since, never less.
Reported(g) ==
    /\ obs[g].spent <= record[g].spent /\ obs[g].seq <= sequence
    /\ g \in DOMAIN report.grants =>
          report.grants[g] \in Observations /\ report.grants[g].spent <= record[g].spent

Funded(g) ==
    /\ record[g].spent <= record[g].ceil /\ record[g].ceil <= issued[g]
    /\ issued[g] <= record[g].spent + Target
    /\ outbox[g].acked <= record[g].ceil

\* A rate change that has not been confirmed keeps the ledger from issuing more: what it carries
\* is the credit that was issued, until the node has taken it and has that credit.
Rated(g) ==
    /\ open[g].applied <= record[g].rev /\ record[g].rev <= open[g].rev
    /\ update[g].rev <= open[g].rev
    /\ update[g].rev > record[g].rev => update[g].ceil = issued[g] /\ update[g].base = desired
    /\ open[g].applied # open[g].rev =>
          /\ deployed = desired /\ update[g].rev = open[g].rev
          /\ record[g].rev = open[g].rev => record[g].ceil = issued[g]

\* So does a deployment that is not applied.
Funds(g) ==
    /\ deployed < desired /\ running = desired => record[g].ceil = issued[g]
    /\ running < desired => dep[g].ceil = issued[g] /\ dep[g].rev = open[g].rev

\* What a pass carries was issued; once it is posted, it is in force.
Batched(g) ==
    g \in DOMAIN batch.ceils =>
        batch.ceils[g] \in Nat /\ batch.ceils[g] <= issued[g] /\ (batch.done => batch.ceils[g] <= record[g].ceil)

OnItsWay(g) ==
    issued[g] > record[g].ceil =>
        \/ outbox[g].base = desired /\ outbox[g].ceil = issued[g] /\ outbox[g].acked < issued[g]
        \/ update[g].base = desired /\ update[g].rev > record[g].rev /\ update[g].ceil = issued[g]
        \/ running < desired /\ dep[g].ceil = issued[g]

GrantCredit(g) == Candidate(g) /\ Reported(g) /\ Funded(g) /\ Rated(g) /\ Funds(g) /\ Batched(g) /\ OnItsWay(g)

CreditInv == CreditShape /\ CreditNumbers /\ \A g \in CreditGrants : GrantCredit(g)

\* Fields of the records of a grant are numbers.
LEMMA CreditTypes ==
    ASSUME CreditInv, NEW g \in CreditGrants
    PROVE  /\ {issued[g], outbox[g].base, outbox[g].ceil, outbox[g].acked, obs[g].policy, obs[g].ceil, obs[g].spent, obs[g].seq,
               candidate[g], open[g].rev, open[g].applied, update[g].base, update[g].rev, update[g].ceil,
               dep[g].ceil, dep[g].rev, record[g].policy, record[g].ceil, record[g].spent, record[g].rev} \subseteq Nat
           /\ {sequence, reported, desired, deployed, running, Target, LowWater, Quota} \subseteq Nat
           /\ LowWater < Target /\ budget \in 0..Quota
BY CreditParameters DEF CreditInv, CreditShape, CreditNumbers, Accounts, Credit!RefillAssumption

\* The steps of the others: what a grant's credit is made of stays.
LEMMA CreditSame ==
    ASSUME CreditInv, NEW g \in CreditGrants,
           /\ UNCHANGED <<sequence, desired, deployed, running>>
           /\ issued'[g] = issued[g] /\ outbox'[g] = outbox[g] /\ obs'[g] = obs[g] /\ open'[g] = open[g]
           /\ update'[g] = update[g] /\ dep'[g] = dep[g] /\ record'[g] = record[g],
           Candidate(g)', UNCHANGED report \/ Reported(g)', UNCHANGED batch \/ Batched(g)'
    PROVE  GrantCredit(g)'
<1>1. GrantCredit(g) BY DEF CreditInv
<1>2. Funded(g)' /\ Rated(g)' /\ Funds(g)' /\ OnItsWay(g)'
  BY <1>1 DEF GrantCredit, Funded, Rated, Funds, OnItsWay
<1>3. Reported(g)' BY <1>1 DEF GrantCredit, Reported
<1>4. Batched(g)' BY <1>1 DEF GrantCredit, Batched
<1> QED BY <1>2, <1>3, <1>4 DEF GrantCredit

LEMMA CreditInit == Credit!Init => CreditInv
<1> SUFFICES ASSUME Credit!Init PROVE CreditInv OBVIOUS
<1> USE CreditParameters DEF Credit!RefillAssumption, Credit!NoRow, Credit!NoUpdate, Credit!NoReport, Credit!NoBatch, Credit!NoWorker, Credit!None
<1>1. CreditShape BY DEF Credit!Init, CreditShape, Accounts
<1>2. CreditNumbers BY DEF Credit!Init, CreditNumbers
<1>3. ASSUME NEW g \in CreditGrants PROVE GrantCredit(g)
  <2>1. Candidate(g) /\ Funded(g) /\ Rated(g) /\ Funds(g) /\ OnItsWay(g)
    BY <1>3 DEF Credit!Init, Candidate, Funded, Rated, Funds, OnItsWay
  <2>2. Reported(g) /\ Batched(g) BY <1>3 DEF Credit!Init, Reported, Batched
  <2> QED BY <2>1, <2>2 DEF GrantCredit
<1> QED BY <1>1, <1>2, <1>3 DEF CreditInv

LEMMA CreditSpend == ASSUME CreditInv, NEW k \in CreditGrants, Credit!Spend(k) PROVE CreditInv'
<1>1. UNCHANGED <<issued, budget, outbox, obs, sequence, candidate, queue, open, update, desired, deployed, dep, running, report, reported, batch>>
  BY DEF Credit!Spend, Credit!masterVars, Credit!reportVars, Credit!queueVars, Credit!captureVars
<1>2. record[k].spent < record[k].ceil /\ record' = [record EXCEPT ![k].spent = @ + 1] BY DEF Credit!Spend
<1>3. CreditShape'
  <2>1. record \in [CreditGrants -> Accounts] BY DEF CreditInv, CreditShape
  <2>2. record' \in [CreditGrants -> Accounts] BY <1>2, <2>1 DEF Accounts
  <2> QED BY <1>1, <2>2 DEF CreditInv, CreditShape
<1>4. CreditNumbers' BY <1>1 DEF CreditInv, CreditNumbers
<1>5. ASSUME NEW g \in CreditGrants PROVE GrantCredit(g)'
  <2>1. GrantCredit(g) BY DEF CreditInv
  <2>2. /\ record'[g].ceil = record[g].ceil /\ record'[g].rev = record[g].rev
        /\ record'[g].spent >= record[g].spent /\ record'[g].spent <= record[g].spent + 1 /\ record'[g].spent \in Nat
        /\ (record'[g].spent > record[g].spent => record[g].spent < record[g].ceil)
    BY <1>2 DEF CreditInv, CreditShape, Accounts
  <2>3. Candidate(g)' /\ Funded(g)' /\ Rated(g)' /\ Funds(g)' /\ Batched(g)' /\ OnItsWay(g)'
    BY <2>1, <2>2, <1>1, CreditTypes DEF GrantCredit, Candidate, Funded, Rated, Funds, Batched, OnItsWay
  <2>4. Reported(g)'
    BY <2>1, <2>2, <1>1, CreditTypes DEF GrantCredit, Reported, Observations
  <2> QED BY <2>3, <2>4 DEF GrantCredit
<1> QED BY <1>3, <1>4, <1>5 DEF CreditInv

LEMMA CreditCapture == ASSUME CreditInv, Credit!Capture PROVE CreditInv'
<1>1. UNCHANGED <<issued, budget, outbox, obs, sequence, candidate, queue, open, update, desired, deployed, dep, running, record, batch>>
  BY DEF Credit!Capture, Credit!masterVars, Credit!reportVars, Credit!queueVars, Credit!nodeVars
<1>2. /\ report.seq = 0 /\ reported' = reported + 1
      /\ report' = [seq |-> reported + 1, grants |-> [g \in Credit!Changed |-> Credit!Observation(g)]]
  BY DEF Credit!Capture, Credit!None
<1>3. CreditShape' BY <1>1 DEF CreditInv, CreditShape
<1>4. CreditNumbers' BY <1>1, <1>2 DEF CreditInv, CreditNumbers
<1>5. ASSUME NEW g \in CreditGrants PROVE GrantCredit(g)'
  <2>1. GrantCredit(g) BY DEF CreditInv
  <2>2. g \in DOMAIN report'.grants => report'.grants[g] = Credit!Observation(g) BY <1>2
  <2>3. Credit!Observation(g) \in Observations /\ Credit!Observation(g).spent = record[g].spent
    BY DEF Credit!Observation, Observations, Accounts, CreditInv, CreditShape
  <2>4. Reported(g)' BY <2>1, <2>2, <2>3, <1>1, CreditTypes DEF GrantCredit, Reported
  <2>5. Candidate(g)' BY <2>1, <1>1 DEF GrantCredit, Candidate
  <2> QED BY <2>4, <2>5, <1>1, CreditSame
<1> QED BY <1>3, <1>4, <1>5 DEF CreditInv

LEMMA CreditAcknowledgeReport == ASSUME CreditInv, Credit!AcknowledgeReport PROVE CreditInv'
<1>1. UNCHANGED <<issued, budget, outbox, obs, sequence, candidate, queue, open, update, desired, deployed, dep, running, record, reported, batch>>
  BY DEF Credit!AcknowledgeReport, Credit!masterVars, Credit!reportVars, Credit!queueVars, Credit!nodeVars
<1>2. report.seq # 0 /\ report.seq = sequence /\ report' = [seq |-> 0, grants |-> <<>>]
  BY DEF Credit!AcknowledgeReport, Credit!None, Credit!NoReport
<1>3. CreditShape' BY <1>1 DEF CreditInv, CreditShape
<1>4. CreditNumbers' BY <1>1, <1>2 DEF CreditInv, CreditNumbers
<1>5. ASSUME NEW g \in CreditGrants PROVE GrantCredit(g)'
  <2>1. GrantCredit(g) BY DEF CreditInv
  <2>2. Reported(g)' BY <2>1, <1>1, <1>2 DEF GrantCredit, Reported
  <2>3. Candidate(g)' BY <2>1, <1>1 DEF GrantCredit, Candidate
  <2> QED BY <2>2, <2>3, <1>1, CreditSame
<1> QED BY <1>3, <1>4, <1>5 DEF CreditInv

LEMMA CreditLapse == ASSUME CreditInv, Credit!Lapse PROVE CreditInv'
<1>1. UNCHANGED <<issued, budget, outbox, obs, sequence, candidate, queue, open, update, desired, deployed, dep, running, record, report, reported, batch>>
  BY DEF Credit!Lapse, Credit!masterVars, Credit!queueVars, Credit!nodeVars
<1>2. CreditShape' BY <1>1 DEF CreditInv, CreditShape
<1>3. CreditNumbers' BY <1>1 DEF CreditInv, CreditNumbers
<1>4. ASSUME NEW g \in CreditGrants PROVE GrantCredit(g)'
  <2>1. GrantCredit(g) BY DEF CreditInv
  <2>2. Candidate(g)' BY <2>1, <1>1 DEF GrantCredit, Candidate
  <2> QED BY <2>2, <1>1, CreditSame
<1> QED BY <1>2, <1>3, <1>4 DEF CreditInv

\* A candidate comes with a queue that is pending: the one of a report that wakes the node, or of
\* a grant that was one before.
LEMMA CreditIngest == ASSUME CreditInv, Credit!Ingest PROVE CreditInv'
<1>1. UNCHANGED <<issued, budget, outbox, open, update, desired, deployed, dep, running, record, report, reported, batch>>
  BY DEF Credit!Ingest, Credit!masterVars, Credit!nodeVars, Credit!captureVars
<1>2. /\ report.seq = sequence + 1 /\ sequence' = report.seq
      /\ candidate' = Credit!Candidates(report.grants, report.seq, FALSE)
      /\ queue' = [queue EXCEPT !.pending = @ \/ Credit!Wakes(report.grants, FALSE)]
      /\ obs' = [g \in CreditGrants |->
                   IF g \in DOMAIN report.grants
                   THEN [policy |-> report.grants[g].policy, ceil |-> report.grants[g].ceil, spent |-> report.grants[g].spent,
                         active |-> report.grants[g].active, seq |-> report.seq]
                   ELSE obs[g]]
  BY DEF Credit!Ingest, Credit!Woken
<1>3. /\ queue' \in [pending : BOOLEAN, claim : CreditWorkers \cup {"none"}]
      /\ queue.pending \/ Credit!Wakes(report.grants, FALSE) <=> queue'.pending
  <2>1. queue \in [pending : BOOLEAN, claim : CreditWorkers \cup {"none"}] BY DEF CreditInv, CreditShape
  <2>2. Credit!Wakes(report.grants, FALSE) \in BOOLEAN BY DEF Credit!Wakes
  <2> HIDE DEF Credit!Wakes
  <2> QED BY <2>1, <2>2, <1>2
<1>4. sequence \in Nat /\ report.seq \in Nat BY <1>2 DEF CreditInv, CreditShape
<1>5. ASSUME NEW g \in CreditGrants
      PROVE  /\ candidate'[g] \in {0, candidate[g], report.seq}
             /\ candidate'[g] # 0 => candidate[g] # 0 \/ queue'.pending
  <2>1. candidate'[g] = IF g \notin DOMAIN report.grants THEN candidate[g]
                        ELSE IF ~Credit!RunsLow(report.grants[g], g) THEN 0
                        ELSE IF report.grants[g] = [k \in DOMAIN report.grants[g] |-> obs[g][k]]
                        THEN IF candidate[g] = 0 THEN 0 ELSE report.seq
                        ELSE report.seq
    BY <1>2 DEF Credit!Candidates, Credit!None
  <2>2. g \in DOMAIN report.grants /\ Credit!RunsLow(report.grants[g], g)
          /\ report.grants[g] # [k \in DOMAIN report.grants[g] |-> obs[g][k]] => queue'.pending
    <3>1. g \in DOMAIN report.grants /\ Credit!RunsLow(report.grants[g], g)
            /\ report.grants[g] # [k \in DOMAIN report.grants[g] |-> obs[g][k]] => Credit!Wakes(report.grants, FALSE)
      BY DEF Credit!Wakes
    <3> QED BY <3>1, <1>3
  <2> QED BY <2>1, <2>2
<1>6. candidate' \in [CreditGrants -> Nat]
  <2>1. candidate' = [g \in CreditGrants |-> candidate'[g]] BY <1>2 DEF Credit!Candidates
  <2>2. \A g \in CreditGrants : candidate[g] \in Nat BY DEF CreditInv, CreditShape
  <2>3. ASSUME NEW g \in CreditGrants PROVE candidate'[g] \in Nat
    <3>1. candidate'[g] \in {0, candidate[g], report.seq} BY <1>5
    <3> QED BY <3>1, <1>4, <2>2
  <2> QED BY <2>1, <2>3
<1>7. ASSUME NEW g \in CreditGrants
      PROVE  /\ obs'[g] \in [policy : Nat, ceil : Nat, spent : Nat, active : BOOLEAN, seq : Nat]
             /\ obs'[g].spent <= record[g].spent /\ obs'[g].seq <= report.seq
  <2>1. Reported(g) BY DEF CreditInv, GrantCredit
  <2>2. CASE g \in DOMAIN report.grants
    <3>1. report.grants[g] \in Observations /\ report.grants[g].spent <= record[g].spent BY <2>1, <2>2 DEF Reported
    <3>2. obs'[g] = [policy |-> report.grants[g].policy, ceil |-> report.grants[g].ceil, spent |-> report.grants[g].spent,
                     active |-> report.grants[g].active, seq |-> report.seq]
      BY <1>2, <2>2
    <3> QED BY <3>1, <3>2, <1>4 DEF Observations
  <2>3. CASE g \notin DOMAIN report.grants
    <3>1. obs'[g] = obs[g] BY <1>2, <2>3
    <3> QED BY <3>1, <2>1, <1>2, <1>4, CreditTypes DEF CreditInv, CreditShape, Reported
  <2> QED BY <2>2, <2>3
<1>8. CreditShape'
  <2>1. obs' \in [CreditGrants -> [policy : Nat, ceil : Nat, spent : Nat, active : BOOLEAN, seq : Nat]]
    <3>1. obs' = [g \in CreditGrants |-> obs'[g]] BY <1>2
    <3> QED BY <3>1, <1>7
  <2> QED BY <2>1, <1>1, <1>2, <1>3, <1>4, <1>6 DEF CreditInv, CreditShape
<1>9. CreditNumbers' BY <1>1, <1>2 DEF CreditInv, CreditNumbers
<1>10. ASSUME NEW g \in CreditGrants PROVE GrantCredit(g)'
  <2>1. GrantCredit(g) BY DEF CreditInv
  <2>2. Candidate(g)'
    <3>1. candidate'[g] \in {0, candidate[g], report.seq} BY <1>5
    <3>2. candidate'[g] <= sequence'
      <4>1. sequence' = sequence + 1 /\ report.seq = sequence + 1 BY <1>2
      <4>2. candidate[g] <= sequence /\ candidate[g] \in Nat BY <2>1, CreditTypes DEF GrantCredit, Candidate
      <4> QED BY <4>1, <4>2, <3>1, <1>4
    <3>3. candidate[g] # 0 => queue'.pending BY <2>1, <1>3 DEF GrantCredit, Candidate
    <3>4. candidate'[g] # 0 => queue'.pending BY <3>3, <1>5
    <3> QED BY <3>2, <3>4 DEF Candidate
  <2>3. Reported(g)' BY <2>1, <1>1, <1>2, <1>7 DEF GrantCredit, Reported
  <2>4. Funded(g)' /\ Rated(g)' /\ Funds(g)' /\ Batched(g)' /\ OnItsWay(g)'
    BY <2>1, <1>1 DEF GrantCredit, Funded, Rated, Funds, Batched, OnItsWay
  <2> QED BY <2>2, <2>3, <2>4 DEF GrantCredit
<1> QED BY <1>8, <1>9, <1>10 DEF CreditInv

LEMMA CreditLease ==
    ASSUME CreditInv, NEW w \in CreditWorkers, Credit!Claim(w) \/ Credit!Release(w) \/ Credit!Crash(w)
    PROVE  CreditInv'
<1>1. UNCHANGED <<issued, budget, outbox, obs, sequence, candidate, open, update, desired, deployed, dep, running, record, report, reported, batch>>
  BY DEF Credit!Claim, Credit!Release, Credit!Crash, Credit!masterVars, Credit!reportVars, Credit!nodeVars, Credit!captureVars
<1>2. queue \in [pending : BOOLEAN, claim : CreditWorkers \cup {"none"}] BY DEF CreditInv, CreditShape
<1>3. \/ queue' = queue \/ queue' = [queue EXCEPT !.claim = w]
      \/ queue' = [pending |-> \E g \in CreditGrants : candidate[g] # 0, claim |-> "none"]
  BY DEF Credit!Claim, Credit!Release, Credit!Crash, Credit!ReleasedQueue, Credit!None, Credit!NoWorker
<1>4. /\ queue' \in [pending : BOOLEAN, claim : CreditWorkers \cup {"none"}]
      /\ queue'.pending = queue.pending \/ queue'.pending = (\E g \in CreditGrants : candidate[g] # 0)
  <2>1. CASE queue' = queue BY <1>2, <2>1
  <2>2. CASE queue' = [queue EXCEPT !.claim = w] BY <1>2, <2>2
  <2>3. CASE queue' = [pending |-> \E g \in CreditGrants : candidate[g] # 0, claim |-> "none"]
    <3> DEFINE p == \E g \in CreditGrants : candidate[g] # 0
    <3>1. p \in BOOLEAN OBVIOUS
    <3>2. queue' = [pending |-> p, claim |-> "none"] BY <2>3
    <3> HIDE DEF p
    <3>3. queue' \in [pending : BOOLEAN, claim : CreditWorkers \cup {"none"}] /\ queue'.pending = p BY <3>1, <3>2
    <3> QED BY <3>3 DEF p
  <2> QED BY <1>3, <2>1, <2>2, <2>3
<1>5. CreditShape' BY <1>1, <1>4 DEF CreditInv, CreditShape
<1>6. CreditNumbers' BY <1>1 DEF CreditInv, CreditNumbers
<1>7. ASSUME NEW g \in CreditGrants PROVE GrantCredit(g)'
  <2>1. GrantCredit(g) BY DEF CreditInv
  <2>2. Candidate(g)' BY <2>1, <1>1, <1>4 DEF GrantCredit, Candidate
  <2> QED BY <2>2, <1>1, CreditSame
<1> QED BY <1>5, <1>6, <1>7 DEF CreditInv

LEMMA MinOfTwo ==
    ASSUME NEW a \in Nat, NEW b \in Nat
    PROVE  /\ Credit!Min({a, b}) \in Nat /\ Credit!Min({a, b}) <= a /\ Credit!Min({a, b}) <= b
           /\ Credit!Min({a, b}) \in {a, b}
<1>1. \E x \in {a, b} : \A y \in {a, b} : x <= y OBVIOUS
<1>2. Credit!Min({a, b}) \in {a, b} /\ \A y \in {a, b} : Credit!Min({a, b}) <= y BY <1>1 DEF Credit!Min
<1> QED BY <1>2

LEMMA CandidateSettled ==
    ASSUME CreditInv, NEW k \in CreditGrants, candidate' = candidate \/ candidate' = [candidate EXCEPT ![k] = 0]
    PROVE  candidate' \in [CreditGrants -> Nat] /\ \A g \in CreditGrants : candidate'[g] \in {0, candidate[g]}
<1>1. candidate \in [CreditGrants -> Nat] BY DEF CreditInv, CreditShape
<1>2. CASE candidate' = candidate BY <1>1, <1>2
<1>3. CASE candidate' = [candidate EXCEPT ![k] = 0] BY <1>1, <1>3
<1> QED BY <1>2, <1>3

\* A refill tops up what was observed: the ceiling observed was what was issued, so that the
\* unspent credit was all the node had, and it has spent more since if anything.
LEMMA CreditRefilled ==
    ASSUME CreditInv, NEW k \in CreditGrants, NEW s, Credit!Refillable(k, s), budget > 0,
           issued' = [issued EXCEPT ![k] = @ + Credit!Amount(k)],
           budget' = budget - Credit!Amount(k),
           outbox' = [outbox EXCEPT ![k] = Credit!QueuedCredit(k, issued'[k])],
           candidate' = candidate \/ candidate' = [candidate EXCEPT ![k] = 0],
           UNCHANGED <<obs, sequence, queue, open, update, desired, deployed, dep, running, record, report, reported, batch>>
    PROVE  CreditInv'
<1>1. /\ obs[k].ceil = issued[k] /\ obs[k].ceil - obs[k].spent <= LowWater
      /\ deployed = desired /\ open[k].applied = open[k].rev
  BY DEF Credit!Refillable, Credit!RunsLow, Credit!Spendable, Credit!Converged, Credit!Settled
<1>2. obs[k].active = TRUE
  BY DEF Credit!Refillable, Credit!RunsLow, CreditInv, CreditShape
<1>3. GrantCredit(k) BY DEF CreditInv
<1>4. obs[k].spent <= record[k].spent /\ record[k].spent <= issued[k]
  BY <1>3, CreditTypes DEF GrantCredit, Reported, Funded
<1> DEFINE a == Credit!Amount(k)
<1>5. /\ a \in Nat /\ a > 0 /\ a <= budget
      /\ issued[k] + a <= obs[k].spent + Target
  <2> DEFINE m == Target - (obs[k].ceil - obs[k].spent)
  <2>1. m \in Nat /\ m > 0 /\ issued[k] + m = obs[k].spent + Target /\ budget \in Nat
    BY <1>1, <1>4, CreditTypes
  <2>2. a = Credit!Min({m, budget}) BY <1>2 DEF Credit!Amount, Credit!Spendable
  <2> HIDE DEF m, a
  <2>3. a \in Nat /\ a <= m /\ a <= budget /\ a \in {m, budget} BY <2>1, <2>2, MinOfTwo
  <2> QED BY <2>1, <2>3, CreditTypes
<1> HIDE DEF a
<1>6. issued'[k] = issued[k] + a /\ budget' = budget - a BY DEF a, CreditInv, CreditShape
<1>7. /\ outbox'[k].base = desired /\ outbox'[k].ceil = issued[k] + a /\ outbox'[k].acked <= outbox[k].acked
      /\ outbox'[k] \in [base : Nat, ceil : Nat, acked : Nat]
  <2>1. outbox'[k] = [base |-> deployed, ceil |-> issued[k] + a,
                      acked |-> IF outbox[k].base = deployed THEN outbox[k].acked ELSE 0]
    BY <1>6 DEF Credit!QueuedCredit, CreditInv, CreditShape
  <2>2. {deployed, issued[k] + a, outbox[k].acked} \subseteq Nat BY <1>5, CreditTypes
  <2> QED BY <2>1, <2>2, <1>1
<1>8. CreditShape'
  <2>1. issued' \in [CreditGrants -> Nat] /\ budget' \in 0..Quota
    BY <1>5, <1>6, CreditTypes DEF CreditInv, CreditShape, a
  <2>2. outbox' \in [CreditGrants -> [base : Nat, ceil : Nat, acked : Nat]]
    BY <1>7 DEF CreditInv, CreditShape
  <2>3. candidate' \in [CreditGrants -> Nat] BY CandidateSettled
  <2> QED BY <2>1, <2>2, <2>3 DEF CreditInv, CreditShape
<1>9. CreditNumbers' BY DEF CreditInv, CreditNumbers
<1>10. ASSUME NEW g \in CreditGrants PROVE GrantCredit(g)'
  <2>1. GrantCredit(g) BY DEF CreditInv
  <2>2. candidate'[g] \in {0, candidate[g]} BY CandidateSettled
  <2>3. Candidate(g)' BY <2>1, <2>2, CreditTypes DEF GrantCredit, Candidate
  <2>4. CASE g = k
    <3>1. Reported(g)' BY <2>1 DEF GrantCredit, Reported
    <3>2. Funded(g)' BY <2>1, <2>4, <1>4, <1>5, <1>6, <1>7, CreditTypes DEF GrantCredit, Funded, CreditShape
    <3>3. update[k].rev <= record[k].rev BY <2>1, <2>4, <1>1, CreditTypes DEF GrantCredit, Rated
    <3>4. Rated(g)' BY <2>1, <2>4, <3>3, <1>1, CreditTypes DEF GrantCredit, Rated
    <3>5. Funds(g)' BY <1>1, CreditTypes DEF Funds, CreditInv, CreditNumbers
    <3>6. Batched(g)' BY <2>1, <2>4, <1>5, <1>6, CreditTypes DEF GrantCredit, Batched
    <3>7. OnItsWay(g)' BY <2>1, <2>4, <1>5, <1>6, <1>7, CreditTypes DEF GrantCredit, Funded, OnItsWay
    <3> QED BY <2>3, <3>1, <3>2, <3>4, <3>5, <3>6, <3>7 DEF GrantCredit
  <2>5. CASE g # k
    <3>1. issued'[g] = issued[g] /\ outbox'[g] = outbox[g] BY <2>5 DEF CreditInv, CreditShape
    <3> QED BY <3>1, <2>3, CreditSame
  <2> QED BY <2>4, <2>5
<1> QED BY <1>8, <1>9, <1>10 DEF CreditInv

LEMMA CreditCandidate ==
    ASSUME CreditInv, NEW w \in CreditWorkers, NEW k \in CreditGrants, NEW s \in 1..sequence, Credit!Refill(w, k, s)
    PROVE  CreditInv'
<1>1. UNCHANGED <<obs, sequence, queue, open, update, desired, deployed, dep, running, record, report, reported, batch>>
  BY DEF Credit!Refill, Credit!reportVars, Credit!nodeVars, Credit!captureVars
<1>2. Credit!SettledCandidate(w, k, s) \in {candidate, [candidate EXCEPT ![k] = 0]}
  BY DEF Credit!SettledCandidate, Credit!None
<1>3. CASE UNCHANGED <<issued, budget, outbox>> /\ candidate' \in {candidate, [candidate EXCEPT ![k] = 0]}
  <2>1. candidate' \in [CreditGrants -> Nat] BY <1>3, CandidateSettled
  <2>2. CreditShape' BY <1>1, <1>3, <2>1 DEF CreditInv, CreditShape
  <2>3. CreditNumbers' BY <1>1 DEF CreditInv, CreditNumbers
  <2>4. ASSUME NEW g \in CreditGrants PROVE GrantCredit(g)'
    <3>1. GrantCredit(g) BY DEF CreditInv
    <3>2. candidate'[g] \in {0, candidate[g]} BY <1>3, CandidateSettled
    <3>3. Candidate(g)' BY <1>1, <3>1, <3>2, CreditTypes DEF GrantCredit, Candidate
    <3> QED BY <3>3, <1>1, <1>3, CreditSame
  <2> QED BY <2>2, <2>3, <2>4 DEF CreditInv
<1>4. CASE /\ Credit!Refillable(k, s) /\ budget > 0 /\ issued' = [issued EXCEPT ![k] = @ + Credit!Amount(k)]
           /\ budget' = budget - Credit!Amount(k) /\ outbox' = [outbox EXCEPT ![k] = Credit!QueuedCredit(k, issued'[k])]
           /\ candidate' \in {candidate, [candidate EXCEPT ![k] = 0]}
  BY <1>1, <1>4, CreditRefilled
<1> QED BY <1>2, <1>3, <1>4 DEF Credit!Refill

\* A row that FetchCredit removes is not needed: its ceiling is not what was issued, or a rate
\* change that is not confirmed carries the credit.
LEMMA CreditFetch == ASSUME CreditInv, Credit!Fetch PROVE CreditInv'
<1>1. UNCHANGED <<issued, budget, obs, sequence, candidate, queue, open, update, desired, deployed, dep, running, record, report, reported>>
  BY DEF Credit!Fetch, Credit!reportVars, Credit!queueVars, Credit!nodeVars, Credit!captureVars
<1> DEFINE wanted == {g \in CreditGrants : outbox[g].base = deployed /\ outbox[g].ceil > outbox[g].acked}
           allowed == {g \in wanted : Credit!Deliverable(g)}
<1>2. /\ outbox' = [g \in CreditGrants |-> IF g \in wanted \ allowed THEN Credit!NoRow ELSE outbox[g]]
      /\ \/ batch' = [base |-> 0, ceils |-> <<>>, done |-> FALSE]
         \/ batch' = [base |-> deployed, ceils |-> [g \in allowed |-> outbox[g].ceil], done |-> FALSE]
  BY DEF Credit!Fetch, Credit!NoBatch
<1>3. allowed \subseteq CreditGrants /\ \A g \in allowed : outbox[g].ceil = issued[g] BY DEF Credit!Deliverable
<1>4. ASSUME NEW g \in CreditGrants
      PROVE  \/ outbox'[g] = outbox[g]
             \/ /\ outbox'[g] = [base |-> 0, ceil |-> 0, acked |-> 0]
                /\ outbox[g].ceil # issued[g] \/ open[g].applied # open[g].rev
  BY <1>2 DEF Credit!NoRow, Credit!Deliverable, Credit!Settled
<1> HIDE DEF wanted
<1>5. CreditShape'
  <2>1. outbox' \in [CreditGrants -> [base : Nat, ceil : Nat, acked : Nat]]
    <3>1. outbox \in [CreditGrants -> [base : Nat, ceil : Nat, acked : Nat]] BY DEF CreditInv, CreditShape
    <3>2. \A g \in CreditGrants : outbox'[g] \in [base : Nat, ceil : Nat, acked : Nat] BY <1>4, <3>1
    <3>3. outbox' = [g \in CreditGrants |-> outbox'[g]] BY <1>2
    <3> QED BY <3>2, <3>3
  <2>2. {"ceils", "done"} \subseteq DOMAIN batch' BY <1>2
  <2> QED BY <1>1, <2>1, <2>2 DEF CreditInv, CreditShape
<1>6. CreditNumbers' BY <1>1 DEF CreditInv, CreditNumbers
<1>7. ASSUME NEW g \in CreditGrants PROVE GrantCredit(g)'
  <2>1. GrantCredit(g) BY DEF CreditInv
  <2>2. Candidate(g)' /\ Reported(g)' /\ Rated(g)' /\ Funds(g)'
    BY <1>1, <2>1 DEF GrantCredit, Candidate, Reported, Rated, Funds
  <2>3. Funded(g)' BY <1>1, <1>4, <2>1, CreditTypes DEF GrantCredit, Funded
  <2>4. Batched(g)'
    <3>1. ~batch'.done BY <1>2
    <3>2. g \in DOMAIN batch'.ceils => batch'.ceils[g] = outbox[g].ceil /\ outbox[g].ceil = issued[g]
      <4>1. CASE batch' = [base |-> 0, ceils |-> <<>>, done |-> FALSE] BY <4>1
      <4>2. CASE batch' = [base |-> deployed, ceils |-> [h \in allowed |-> outbox[h].ceil], done |-> FALSE]
        <5> HIDE DEF allowed
        <5> QED BY <4>2, <1>3
      <4> QED BY <4>1, <4>2, <1>2
    <3> QED BY <1>1, <3>1, <3>2, CreditTypes DEF Batched
  <2>5. OnItsWay(g)'
    <3>1. CASE outbox'[g] = outbox[g] BY <3>1, <1>1, <2>1 DEF GrantCredit, OnItsWay
    <3>2. CASE open[g].applied # open[g].rev
      BY <3>2, <1>1, <2>1, CreditTypes DEF GrantCredit, OnItsWay, Rated, Funded
    <3>3. CASE outbox[g].ceil # issued[g]
      BY <3>3, <1>1, <2>1 DEF GrantCredit, OnItsWay
    <3> QED BY <3>1, <3>2, <3>3, <1>4
  <2> QED BY <2>2, <2>3, <2>4, <2>5 DEF GrantCredit
<1> QED BY <1>5, <1>6, <1>7 DEF CreditInv

\* Raising ceilings, up to what was issued.
LEMMA CreditRaised ==
    ASSUME CreditInv, NEW g \in CreditGrants,
           /\ UNCHANGED <<sequence, desired, deployed, running, report>>
           /\ issued'[g] = issued[g] /\ outbox'[g] = outbox[g] /\ obs'[g] = obs[g] /\ open'[g] = open[g]
           /\ update'[g] = update[g] /\ dep'[g] = dep[g] /\ Candidate(g)' /\ Batched(g)'
           /\ record'[g].spent = record[g].spent /\ record'[g].ceil \in Nat
           /\ record[g].ceil <= record'[g].ceil /\ record'[g].ceil <= issued[g]
           /\ \/ record'[g].rev = record[g].rev
              \/ record'[g].rev \in Nat /\ record'[g].rev > record[g].rev /\ record'[g].rev <= open[g].rev /\ record'[g].ceil = issued[g]
    PROVE  GrantCredit(g)'
<1>1. GrantCredit(g) BY DEF CreditInv
<1>2. Reported(g)' BY <1>1 DEF GrantCredit, Reported
<1>3. Funded(g)' BY <1>1, CreditTypes DEF GrantCredit, Funded
<1>4. Rated(g)' BY <1>1, CreditTypes DEF GrantCredit, Rated, Funded
<1>5. Funds(g)' BY <1>1, CreditTypes DEF GrantCredit, Funds
<1>6. OnItsWay(g)' BY <1>1, CreditTypes DEF GrantCredit, OnItsWay
<1> QED BY <1>2, <1>3, <1>4, <1>5, <1>6 DEF GrantCredit

LEMMA CreditPost == ASSUME CreditInv, Credit!Post PROVE CreditInv'
<1>1. UNCHANGED <<issued, budget, outbox, obs, sequence, candidate, queue, open, update, desired, deployed, dep, running, report, reported>>
  BY DEF Credit!Post, Credit!masterVars, Credit!reportVars, Credit!queueVars, Credit!captureVars
<1> DEFINE refused == {g \in DOMAIN batch.ceils : Credit!Refused(g)}
<1>2. \/ /\ record' = [g \in CreditGrants |->
                         IF g \in DOMAIN batch.ceils /\ \A r \in refused : g < r
                         THEN [record[g] EXCEPT !.ceil = batch.ceils[g]] ELSE record[g]]
         /\ batch' = IF refused = {} THEN [batch EXCEPT !.done = TRUE] ELSE [base |-> 0, ceils |-> <<>>, done |-> FALSE]
      \/ record' = record /\ batch' = [base |-> 0, ceils |-> <<>>, done |-> FALSE]
  BY DEF Credit!Post, Credit!NoBatch
<1>3. record \in [CreditGrants -> Accounts] /\ {"ceils", "done"} \subseteq DOMAIN batch
  BY DEF CreditInv, CreditShape
<1>4. ASSUME NEW g \in CreditGrants
      PROVE  /\ record'[g] \in Accounts /\ record'[g].spent = record[g].spent /\ record'[g].rev = record[g].rev
             /\ record[g].ceil <= record'[g].ceil /\ record'[g].ceil <= issued[g]
             /\ refused = {} /\ batch'.done /\ g \in DOMAIN batch.ceils => batch.ceils[g] <= record'[g].ceil
  <2>1. GrantCredit(g) /\ record[g] \in Accounts BY <1>3 DEF CreditInv
  <2>2. record[g].ceil \in Nat /\ record[g].ceil <= issued[g] BY <2>1, CreditTypes DEF GrantCredit, Funded
  <2>3. CASE record'[g] = record[g] /\ ~(refused = {} /\ batch'.done /\ g \in DOMAIN batch.ceils)
    BY <2>1, <2>2, <2>3
  <2>4. CASE g \in DOMAIN batch.ceils /\ g \notin refused /\ record'[g] = [record[g] EXCEPT !.ceil = batch.ceils[g]]
    <3>1. batch.ceils[g] \in Nat /\ batch.ceils[g] <= issued[g] BY <2>1, <2>4 DEF GrantCredit, Batched
    <3>2. batch.ceils[g] >= record[g].ceil BY <2>4, <2>2, <3>1 DEF Credit!Refused
    <3>3. record'[g] \in Accounts /\ record'[g].spent = record[g].spent /\ record'[g].rev = record[g].rev /\ record'[g].ceil = batch.ceils[g]
      BY <2>1, <2>4, <3>1 DEF Accounts
    <3> QED BY <3>1, <3>2, <3>3
  <2>5. CASE record' = record /\ batch' = [base |-> 0, ceils |-> <<>>, done |-> FALSE]
    BY <2>5, <2>3
  <2>6. CASE record' = [h \in CreditGrants |->
                         IF h \in DOMAIN batch.ceils /\ \A r \in refused : h < r
                         THEN [record[h] EXCEPT !.ceil = batch.ceils[h]] ELSE record[h]]
    <3>1. CASE g \in DOMAIN batch.ceils /\ \A r \in refused : g < r
      <4>1. g \notin refused
        <5>1. g \in Nat BY CreditParameters DEF Credit!RefillAssumption
        <5>2. ~(g < g) BY <5>1
        <5> QED BY <3>1, <5>2
      <4>2. record'[g] = [record[g] EXCEPT !.ceil = batch.ceils[g]] BY <2>6, <3>1
      <4> QED BY <4>1, <4>2, <3>1, <2>4
    <3>2. CASE ~(g \in DOMAIN batch.ceils /\ \A r \in refused : g < r)
      <4>1. record'[g] = record[g] BY <2>6, <3>2
      <4>2. ~(refused = {} /\ batch'.done /\ g \in DOMAIN batch.ceils) BY <3>2
      <4> QED BY <4>1, <4>2, <2>3
    <3> QED BY <3>1, <3>2
  <2> QED BY <1>2, <2>5, <2>6
<1>5. \/ batch' = [base |-> 0, ceils |-> <<>>, done |-> FALSE]
      \/ refused = {} /\ batch'.ceils = batch.ceils /\ DOMAIN batch' = DOMAIN batch
  <2> HIDE DEF refused
  <2>1. batch' = [batch EXCEPT !.done = TRUE] => batch'.ceils = batch.ceils /\ DOMAIN batch' = DOMAIN batch
    BY <1>3
  <2> QED BY <1>2, <2>1
<1> HIDE DEF refused
<1>6. CreditShape'
  <2>1. record' \in [CreditGrants -> Accounts]
    <3>1. record' = [g \in CreditGrants |-> record'[g]] BY <1>2, <1>3
    <3> QED BY <3>1, <1>4
  <2>2. {"ceils", "done"} \subseteq DOMAIN batch' BY <1>3, <1>5
  <2> QED BY <1>1, <2>1, <2>2 DEF CreditInv, CreditShape
<1>7. CreditNumbers' BY <1>1 DEF CreditInv, CreditNumbers
<1>8. ASSUME NEW g \in CreditGrants PROVE GrantCredit(g)'
  <2>1. GrantCredit(g) BY DEF CreditInv
  <2>2. Candidate(g)' BY <1>1, <2>1 DEF GrantCredit, Candidate
  <2>3. Batched(g)'
    <3>1. CASE batch' = [base |-> 0, ceils |-> <<>>, done |-> FALSE] BY <3>1 DEF Batched
    <3>2. CASE refused = {} /\ batch'.ceils = batch.ceils
      <4>1. batch'.done /\ g \in DOMAIN batch.ceils => batch.ceils[g] <= record'[g].ceil BY <3>2, <1>4
      <4> QED BY <4>1, <3>2, <1>1, <2>1 DEF GrantCredit, Batched
    <3> QED BY <3>1, <3>2, <1>5
  <2>4. record'[g].ceil \in Nat BY <1>4 DEF Accounts
  <2> QED BY <1>1, <1>4, <2>2, <2>3, <2>4, CreditRaised
<1> QED BY <1>6, <1>7, <1>8 DEF CreditInv

LEMMA CreditAcknowledge == ASSUME CreditInv, Credit!AcknowledgeCredit PROVE CreditInv'
<1>1. UNCHANGED <<issued, budget, obs, sequence, candidate, queue, open, update, desired, deployed, dep, running, record, report, reported>>
  BY DEF Credit!AcknowledgeCredit, Credit!reportVars, Credit!queueVars, Credit!nodeVars, Credit!captureVars
<1>2. /\ batch.done /\ batch' = [base |-> 0, ceils |-> <<>>, done |-> FALSE]
      /\ \/ outbox' = outbox
         \/ /\ \A g \in DOMAIN batch.ceils : outbox[g].ceil = batch.ceils[g]
            /\ outbox' = [g \in CreditGrants |-> IF g \in DOMAIN batch.ceils THEN [outbox[g] EXCEPT !.acked = outbox[g].ceil] ELSE outbox[g]]
  BY DEF Credit!AcknowledgeCredit, Credit!NoBatch, Credit!Matches
<1>3. outbox \in [CreditGrants -> [base : Nat, ceil : Nat, acked : Nat]] BY DEF CreditInv, CreditShape
<1>4. ASSUME NEW g \in CreditGrants
      PROVE  \/ outbox'[g] = outbox[g]
             \/ /\ outbox'[g] = [outbox[g] EXCEPT !.acked = outbox[g].ceil]
                /\ outbox[g].ceil <= record[g].ceil
  <2>1. Batched(g) BY DEF CreditInv, GrantCredit
  <2> QED BY <1>2, <2>1 DEF Batched
<1>5. CreditShape'
  <2>1. \A g \in CreditGrants : outbox'[g] \in [base : Nat, ceil : Nat, acked : Nat] BY <1>3, <1>4
  <2>2. outbox' = [g \in CreditGrants |-> outbox'[g]] BY <1>2, <1>3
  <2>3. outbox' \in [CreditGrants -> [base : Nat, ceil : Nat, acked : Nat]] BY <2>1, <2>2
  <2>4. {"ceils", "done"} \subseteq DOMAIN batch' BY <1>2
  <2> QED BY <1>1, <2>3, <2>4 DEF CreditInv, CreditShape
<1>6. CreditNumbers' BY <1>1 DEF CreditInv, CreditNumbers
<1>7. ASSUME NEW g \in CreditGrants PROVE GrantCredit(g)'
  <2>1. GrantCredit(g) BY DEF CreditInv
  <2>2. Candidate(g)' /\ Reported(g)' /\ Rated(g)' /\ Funds(g)'
    BY <1>1, <2>1 DEF GrantCredit, Candidate, Reported, Rated, Funds
  <2>3. Batched(g)' BY <1>2 DEF Batched
  <2>4. \/ outbox'[g] = outbox[g]
        \/ /\ outbox'[g].base = outbox[g].base /\ outbox'[g].ceil = outbox[g].ceil /\ outbox'[g].acked = outbox[g].ceil
           /\ outbox[g].ceil <= record[g].ceil
    BY <1>3, <1>4
  <2>5. Funded(g)' BY <1>1, <2>1, <2>4, CreditTypes DEF GrantCredit, Funded
  <2>6. OnItsWay(g)' BY <1>1, <2>1, <2>4, CreditTypes DEF GrantCredit, Funded, OnItsWay
  <2> QED BY <2>2, <2>3, <2>5, <2>6 DEF GrantCredit
<1> QED BY <1>5, <1>6, <1>7 DEF CreditInv

LEMMA CreditLose == ASSUME CreditInv, Credit!Lose PROVE CreditInv'
<1>1. UNCHANGED <<issued, budget, outbox, obs, sequence, candidate, queue, open, update, desired, deployed, dep, running, record, report, reported>>
  BY DEF Credit!Lose, Credit!masterVars, Credit!reportVars, Credit!queueVars, Credit!nodeVars, Credit!captureVars
<1>2. batch' = [base |-> 0, ceils |-> <<>>, done |-> FALSE] BY DEF Credit!Lose, Credit!NoBatch
<1>3. CreditShape' BY <1>1, <1>2 DEF CreditInv, CreditShape
<1>4. CreditNumbers' BY <1>1 DEF CreditInv, CreditNumbers
<1>5. ASSUME NEW g \in CreditGrants PROVE GrantCredit(g)'
  <2>1. GrantCredit(g) BY DEF CreditInv
  <2>2. Candidate(g)' BY <1>1, <2>1 DEF GrantCredit, Candidate
  <2>3. Batched(g)' BY <1>2 DEF Batched
  <2> QED BY <1>1, <2>2, <2>3, CreditSame
<1> QED BY <1>3, <1>4, <1>5 DEF CreditInv

LEMMA CreditSetRate ==
    ASSUME CreditInv, NEW k \in CreditGrants, NEW o \in BOOLEAN, Credit!SetRate(k, o) PROVE CreditInv'
<1>1. UNCHANGED <<issued, budget, outbox, obs, sequence, candidate, queue, desired, deployed, dep, running, record, report, reported, batch>>
  BY DEF Credit!SetRate, Credit!reportVars, Credit!queueVars, Credit!nodeVars, Credit!captureVars
<1>2. /\ deployed = desired
      /\ open' = [open EXCEPT ![k] = [rev |-> @.rev + 1, applied |-> @.applied, open |-> o]]
      /\ update' = [update EXCEPT ![k] = [base |-> deployed, rev |-> open[k].rev + 1, ceil |-> issued[k], open |-> o]]
  BY DEF Credit!SetRate, Credit!Converged, Credit!CarriedCeiling
<1>3. /\ open \in [CreditGrants -> [rev : Nat, applied : Nat, open : BOOLEAN]]
      /\ update \in [CreditGrants -> [base : Nat, rev : Nat, ceil : Nat, open : BOOLEAN]]
  BY DEF CreditInv, CreditShape
<1>4. /\ open'[k] = [rev |-> open[k].rev + 1, applied |-> open[k].applied, open |-> o]
      /\ update'[k] = [base |-> deployed, rev |-> open[k].rev + 1, ceil |-> issued[k], open |-> o]
      /\ \A g \in CreditGrants \ {k} : open'[g] = open[g] /\ update'[g] = update[g]
  BY <1>2, <1>3
<1>5. CreditShape'
  <2>1. /\ open'[k] \in [rev : Nat, applied : Nat, open : BOOLEAN]
        /\ update'[k] \in [base : Nat, rev : Nat, ceil : Nat, open : BOOLEAN]
    BY <1>4, CreditTypes
  <2>2. open' \in [CreditGrants -> [rev : Nat, applied : Nat, open : BOOLEAN]] BY <1>2, <1>3, <1>4, <2>1
  <2>3. update' \in [CreditGrants -> [base : Nat, rev : Nat, ceil : Nat, open : BOOLEAN]] BY <1>2, <1>3, <1>4, <2>1
  <2> QED BY <1>1, <2>2, <2>3 DEF CreditInv, CreditShape
<1>6. CreditNumbers' BY <1>1 DEF CreditInv, CreditNumbers
<1>7. ASSUME NEW g \in CreditGrants PROVE GrantCredit(g)'
  <2>1. GrantCredit(g) BY DEF CreditInv
  <2>2. Candidate(g)' BY <1>1, <2>1 DEF GrantCredit, Candidate
  <2>3. CASE g = k
    <3>1. Reported(g)' /\ Batched(g)' BY <1>1, <2>1 DEF GrantCredit, Reported, Batched
    <3>2. /\ open'[g].rev = open[g].rev + 1 /\ open'[g].applied = open[g].applied
          /\ update'[g].base = desired /\ update'[g].rev = open[g].rev + 1 /\ update'[g].ceil = issued[g]
      BY <1>2, <1>4, <2>3
    <3>3. Funded(g)' /\ OnItsWay(g)' BY <1>1, <2>1, <3>2, CreditTypes DEF GrantCredit, Funded, OnItsWay, Rated
    <3>4. Rated(g)' BY <1>1, <1>2, <2>1, <3>2, CreditTypes DEF GrantCredit, Rated
    <3>5. Funds(g)' BY <1>1, <1>2, CreditTypes DEF Funds, CreditInv, CreditNumbers
    <3> QED BY <2>2, <3>1, <3>3, <3>4, <3>5 DEF GrantCredit
  <2>4. CASE g # k BY <1>1, <1>4, <2>2, <2>4, CreditSame
  <2> QED BY <2>3, <2>4
<1> QED BY <1>5, <1>6, <1>7 DEF CreditInv

LEMMA CreditTakeUpdate == ASSUME CreditInv, NEW k \in CreditGrants, Credit!TakeUpdate(k) PROVE CreditInv'
<1>1. UNCHANGED <<issued, budget, outbox, obs, sequence, candidate, queue, open, update, desired, deployed, dep, running, report, reported, batch>>
  BY DEF Credit!TakeUpdate, Credit!masterVars, Credit!reportVars, Credit!queueVars, Credit!captureVars
<1>2. /\ update[k].rev > record[k].rev
      /\ record' = [record EXCEPT ![k] = [@ EXCEPT !.rev = update[k].rev, !.open = update[k].open, !.ceil = update[k].ceil]]
  BY DEF Credit!TakeUpdate
<1>3. record \in [CreditGrants -> Accounts] /\ update[k] \in [base : Nat, rev : Nat, ceil : Nat, open : BOOLEAN]
  BY DEF CreditInv, CreditShape
<1>4. record'[k] = [record[k] EXCEPT !.rev = update[k].rev, !.open = update[k].open, !.ceil = update[k].ceil]
  BY <1>2, <1>3
<1>5. /\ record'[k] \in Accounts /\ record'[k].spent = record[k].spent
      /\ record'[k].rev = update[k].rev /\ record'[k].ceil = update[k].ceil
  BY <1>3, <1>4 DEF Accounts
<1>6. \A g \in CreditGrants \ {k} : record'[g] = record[g] BY <1>2, <1>3
<1>7. CreditShape'
  <2>1. record' \in [CreditGrants -> Accounts]
    <3>1. record' = [g \in CreditGrants |-> record'[g]] BY <1>2, <1>3
    <3>2. \A g \in CreditGrants : record'[g] \in Accounts BY <1>3, <1>5, <1>6
    <3> QED BY <3>1, <3>2
  <2> QED BY <1>1, <2>1 DEF CreditInv, CreditShape
<1>8. CreditNumbers' BY <1>1 DEF CreditInv, CreditNumbers
<1>9. ASSUME NEW g \in CreditGrants PROVE GrantCredit(g)'
  <2>1. GrantCredit(g) BY DEF CreditInv
  <2>2. Candidate(g)' BY <1>1, <2>1 DEF GrantCredit, Candidate
  <2>3. CASE g = k
    <3>1. update[k].ceil = issued[k] /\ update[k].rev <= open[k].rev /\ record[k].ceil <= issued[k]
      BY <1>2, <2>1, <2>3 DEF GrantCredit, Rated, Funded
    <3>2. /\ record'[g].spent = record[g].spent /\ record'[g].ceil = issued[g] /\ record'[g].rev > record[g].rev
          /\ record'[g].rev <= open[g].rev /\ record[g].ceil <= record'[g].ceil /\ record'[g].ceil <= issued[g]
          /\ {record'[g].ceil, record'[g].rev} \subseteq Nat
      BY <1>2, <1>5, <2>3, <3>1, CreditTypes
    <3>3. Batched(g)' BY <1>1, <2>1, <3>2, CreditTypes DEF GrantCredit, Batched
    <3> QED BY <1>1, <2>2, <3>2, <3>3, CreditRaised
  <2>4. CASE g # k BY <1>1, <1>6, <2>2, <2>4, CreditSame
  <2> QED BY <2>3, <2>4
<1> QED BY <1>7, <1>8, <1>9 DEF CreditInv

LEMMA CreditConfirmUpdate == ASSUME CreditInv, NEW k \in CreditGrants, Credit!ConfirmUpdate(k) PROVE CreditInv'
<1>1. UNCHANGED <<issued, budget, outbox, obs, sequence, candidate, queue, update, desired, deployed, dep, running, record, report, reported, batch>>
  BY DEF Credit!ConfirmUpdate, Credit!reportVars, Credit!queueVars, Credit!nodeVars, Credit!captureVars
<1>2. record[k].rev = open[k].rev /\ open' = [open EXCEPT ![k].applied = open[k].rev] BY DEF Credit!ConfirmUpdate
<1>3. open \in [CreditGrants -> [rev : Nat, applied : Nat, open : BOOLEAN]] BY DEF CreditInv, CreditShape
<1>4. open' \in [CreditGrants -> [rev : Nat, applied : Nat, open : BOOLEAN]] BY <1>2, <1>3
<1>5. /\ open'[k].rev = open[k].rev /\ open'[k].applied = open[k].rev
      /\ \A g \in CreditGrants \ {k} : open'[g] = open[g]
  BY <1>2, <1>3
<1>6. CreditShape' BY <1>1, <1>4 DEF CreditInv, CreditShape
<1>7. CreditNumbers' BY <1>1 DEF CreditInv, CreditNumbers
<1>8. ASSUME NEW g \in CreditGrants PROVE GrantCredit(g)'
  <2>1. GrantCredit(g) BY DEF CreditInv
  <2>2. Candidate(g)' /\ Reported(g)' /\ Funded(g)' /\ Batched(g)' /\ OnItsWay(g)'
    BY <1>1, <2>1 DEF GrantCredit, Candidate, Reported, Funded, Batched, OnItsWay
  <2>3. Rated(g)' /\ Funds(g)'
    BY <1>1, <1>2, <1>5, <2>1, CreditTypes DEF GrantCredit, Rated, Funds
  <2> QED BY <2>2, <2>3 DEF GrantCredit
<1> QED BY <1>6, <1>7, <1>8 DEF CreditInv

LEMMA CreditPublish == ASSUME CreditInv, Credit!Publish PROVE CreditInv'
<1>1. UNCHANGED <<issued, budget, outbox, obs, sequence, open, update, deployed, running, record, report, reported, batch>>
  BY DEF Credit!Publish, Credit!reportVars, Credit!nodeVars, Credit!captureVars
<1> DEFINE known == [g \in CreditGrants |-> [policy |-> obs[g].policy, ceil |-> obs[g].ceil, spent |-> obs[g].spent, active |-> obs[g].active]]
<1>2. /\ deployed = desired /\ desired' = desired + 1 /\ \A g \in CreditGrants : open[g].applied = open[g].rev
      /\ dep' = [g \in CreditGrants |-> [ceil |-> issued[g], rev |-> open[g].rev, open |-> open[g].open]]
      /\ candidate' = [g \in CreditGrants |-> IF Credit!RunsLow(known[g], g) THEN obs[g].seq ELSE 0]
      /\ queue' = [queue EXCEPT !.pending = @ \/ Credit!Wakes(known, TRUE)]
  BY DEF Credit!Publish, Credit!Converged, Credit!Settled, Credit!Woken, Credit!None
<1>3. /\ queue' \in [pending : BOOLEAN, claim : CreditWorkers \cup {"none"}]
      /\ Credit!Wakes(known, TRUE) => queue'.pending
  <2>1. queue \in [pending : BOOLEAN, claim : CreditWorkers \cup {"none"}] BY DEF CreditInv, CreditShape
  <2>2. Credit!Wakes(known, TRUE) \in BOOLEAN BY DEF Credit!Wakes
  <2>3. queue' = [queue EXCEPT !.pending = @ \/ Credit!Wakes(known, TRUE)] BY <1>2
  <2> HIDE DEF known
  <2> QED BY <2>1, <2>2, <2>3
<1>4. ASSUME NEW g \in CreditGrants
      PROVE  candidate'[g] \in {0, obs[g].seq} /\ (candidate'[g] # 0 => queue'.pending)
  <2>1. candidate'[g] = IF Credit!RunsLow(known[g], g) THEN obs[g].seq ELSE 0 BY <1>2
  <2>2. Credit!RunsLow(known[g], g) => Credit!Wakes(known, TRUE)
    <3>1. DOMAIN known = CreditGrants OBVIOUS
    <3> HIDE DEF known
    <3> QED BY <3>1 DEF Credit!Wakes
  <2> HIDE DEF known
  <2> QED BY <2>1, <2>2, <1>3
<1> HIDE DEF known
<1>5. CreditShape'
  <2>1. candidate' \in [CreditGrants -> Nat]
    <3>1. candidate' = [g \in CreditGrants |-> candidate'[g]] BY <1>2
    <3>2. ASSUME NEW g \in CreditGrants PROVE candidate'[g] \in Nat BY <1>4, CreditTypes
    <3> QED BY <3>1, <3>2
  <2>2. dep' \in [CreditGrants -> [ceil : Nat, rev : Nat, open : BOOLEAN]]
    <3>1. issued \in [CreditGrants -> Nat] /\ open \in [CreditGrants -> [rev : Nat, applied : Nat, open : BOOLEAN]]
      BY DEF CreditInv, CreditShape
    <3>2. dep' = [g \in CreditGrants |-> [ceil |-> issued[g], rev |-> open[g].rev, open |-> open[g].open]] BY <1>2
    <3> QED BY <3>1, <3>2
  <2> QED BY <1>1, <1>3, <2>1, <2>2 DEF CreditInv, CreditShape
<1>6. CreditNumbers'
  <2>1. deployed = desired /\ desired' = desired + 1 BY <1>2
  <2> QED BY <1>1, <2>1 DEF CreditInv, CreditNumbers
<1>7. ASSUME NEW g \in CreditGrants PROVE GrantCredit(g)'
  <2>1. GrantCredit(g) BY DEF CreditInv
  <2>2. Candidate(g)' BY <1>1, <1>4, <2>1, CreditTypes DEF GrantCredit, Reported, Candidate
  <2>3. Reported(g)' /\ Funded(g)' /\ Batched(g)' BY <1>1, <2>1 DEF GrantCredit, Reported, Funded, Batched
  <2>4. /\ desired' = desired + 1 /\ deployed = desired /\ open[g].applied = open[g].rev
        /\ dep'[g].ceil = issued[g] /\ dep'[g].rev = open[g].rev
    BY <1>2
  <2>5. running = desired BY <2>4, CreditTypes DEF CreditInv, CreditNumbers
  <2>6. Rated(g)' BY <1>1, <2>1, <2>4, CreditTypes DEF GrantCredit, Rated
  <2>7. Funds(g)' /\ OnItsWay(g)' BY <1>1, <2>4, <2>5, CreditTypes DEF Funds, OnItsWay
  <2> QED BY <2>2, <2>3, <2>6, <2>7 DEF GrantCredit
<1> QED BY <1>5, <1>6, <1>7 DEF CreditInv

LEMMA CreditDeploy == ASSUME CreditInv, Credit!Deploy PROVE CreditInv'
<1>1. UNCHANGED <<issued, budget, outbox, obs, sequence, candidate, queue, open, update, desired, deployed, dep, report, reported, batch>>
  BY DEF Credit!Deploy, Credit!masterVars, Credit!reportVars, Credit!queueVars, Credit!captureVars
<1>2. /\ running < desired /\ running' = desired
      /\ record' = [g \in CreditGrants |-> [record[g] EXCEPT !.policy = desired, !.ceil = dep[g].ceil, !.rev = dep[g].rev, !.open = dep[g].open]]
  BY DEF Credit!Deploy
<1>3. /\ record \in [CreditGrants -> Accounts] /\ dep \in [CreditGrants -> [ceil : Nat, rev : Nat, open : BOOLEAN]]
      /\ desired \in Nat
  BY DEF CreditInv, CreditShape, CreditNumbers
<1>4. ASSUME NEW g \in CreditGrants
      PROVE  /\ record'[g] \in Accounts /\ record'[g].spent = record[g].spent
             /\ record'[g].ceil = dep[g].ceil /\ record'[g].rev = dep[g].rev
  <2>1. record'[g] = [record[g] EXCEPT !.policy = desired, !.ceil = dep[g].ceil, !.rev = dep[g].rev, !.open = dep[g].open]
    BY <1>2
  <2>2. record[g] \in Accounts /\ dep[g] \in [ceil : Nat, rev : Nat, open : BOOLEAN] BY <1>3
  <2> QED BY <1>3, <2>1, <2>2 DEF Accounts
<1>5. CreditShape'
  <2>1. record' = [g \in CreditGrants |-> record'[g]] BY <1>2
  <2>2. record' \in [CreditGrants -> Accounts] BY <1>4, <2>1
  <2> QED BY <1>1, <2>2 DEF CreditInv, CreditShape
<1>6. running < desired /\ running' = desired /\ deployed < desired
  <2>1. running < desired /\ running' = desired BY <1>2
  <2> QED BY <2>1, CreditTypes DEF CreditInv, CreditNumbers
<1>7. CreditNumbers' BY <1>1, <1>6 DEF CreditInv, CreditNumbers
<1>8. ASSUME NEW g \in CreditGrants PROVE GrantCredit(g)'
  <2>1. GrantCredit(g) BY DEF CreditInv
  <2>2. /\ record'[g].ceil = issued[g] /\ record'[g].rev = open[g].rev /\ record'[g].spent = record[g].spent
        /\ running < desired /\ running' = desired /\ deployed < desired
    BY <1>4, <1>6, <2>1 DEF GrantCredit, Funds
  <2>3. Candidate(g)' /\ Reported(g)' BY <1>1, <2>1, <2>2 DEF GrantCredit, Candidate, Reported
  <2>4. Funded(g)' BY <1>1, <2>1, <2>2, CreditTypes DEF GrantCredit, Funded
  <2>5. Rated(g)' BY <1>1, <2>1, <2>2, CreditTypes DEF GrantCredit, Rated
  <2>6. Funds(g)' /\ OnItsWay(g)' BY <1>1, <2>2, CreditTypes DEF Funds, OnItsWay
  <2>7. Batched(g)' BY <1>1, <2>1, <2>2, CreditTypes DEF GrantCredit, Batched
  <2> QED BY <2>3, <2>4, <2>5, <2>6, <2>7 DEF GrantCredit
<1> QED BY <1>5, <1>7, <1>8 DEF CreditInv

\* The rows that are removed are of credit that is in force.
LEMMA CreditObserve == ASSUME CreditInv, Credit!Observe PROVE CreditInv'
<1>1. UNCHANGED <<issued, budget, obs, sequence, candidate, queue, open, update, desired, dep, running, record, report, reported, batch>>
  BY DEF Credit!Observe, Credit!reportVars, Credit!queueVars, Credit!nodeVars, Credit!captureVars
<1>2. /\ running = desired /\ deployed # desired /\ deployed' = desired
      /\ outbox' = [g \in CreditGrants |-> IF outbox[g].base < desired /\ outbox[g].ceil <= dep[g].ceil
                                            THEN [base |-> 0, ceil |-> 0, acked |-> 0] ELSE outbox[g]]
  BY DEF Credit!Observe, Credit!Converged, Credit!NoRow
<1>3. outbox \in [CreditGrants -> [base : Nat, ceil : Nat, acked : Nat]] BY DEF CreditInv, CreditShape
<1>4. ASSUME NEW g \in CreditGrants PROVE outbox'[g] = outbox[g] \/ outbox'[g] = [base |-> 0, ceil |-> 0, acked |-> 0]
  BY <1>2
<1>5. CreditShape'
  <2>1. outbox' = [g \in CreditGrants |-> outbox'[g]] BY <1>2
  <2>2. \A g \in CreditGrants : outbox'[g] \in [base : Nat, ceil : Nat, acked : Nat] BY <1>3, <1>4
  <2>3. outbox' \in [CreditGrants -> [base : Nat, ceil : Nat, acked : Nat]] BY <2>1, <2>2
  <2> QED BY <1>1, <2>3 DEF CreditInv, CreditShape
<1>6. CreditNumbers' BY <1>1, <1>2 DEF CreditInv, CreditNumbers
<1>7. ASSUME NEW g \in CreditGrants PROVE GrantCredit(g)'
  <2>1. GrantCredit(g) BY DEF CreditInv
  <2>2. running = desired /\ deployed < desired /\ deployed' = desired BY <1>2, CreditTypes DEF CreditInv, CreditNumbers
  <2>3. Candidate(g)' /\ Reported(g)' /\ Batched(g)' BY <1>1, <2>1 DEF GrantCredit, Candidate, Reported, Batched
  <2>4. Funded(g)' BY <1>1, <1>4, <2>1, CreditTypes DEF GrantCredit, Funded
  <2>5. Rated(g)' BY <1>1, <2>1, <2>2, CreditTypes DEF GrantCredit, Rated
  <2>6. Funds(g)' BY <1>1, <2>2, CreditTypes DEF Funds
  <2>7. OnItsWay(g)' BY <1>1, <2>1, <2>2, CreditTypes DEF GrantCredit, Funds, OnItsWay
  <2> QED BY <2>3, <2>4, <2>5, <2>6, <2>7 DEF GrantCredit
<1> QED BY <1>5, <1>6, <1>7 DEF CreditInv

LEMMA CreditStep == CreditInv /\ [Credit!Next]_creditVars => CreditInv'
<1> SUFFICES ASSUME CreditInv, [Credit!Next]_creditVars PROVE CreditInv' OBVIOUS
<1>1. CASE UNCHANGED creditVars
  <2>1. UNCHANGED <<issued, budget, outbox, obs, sequence, candidate, queue, open, update, desired, deployed, dep, running, record, report, reported, batch>>
    BY <1>1 DEF creditVars
  <2>2. CreditShape' BY <2>1 DEF CreditInv, CreditShape
  <2>3. CreditNumbers' BY <2>1 DEF CreditInv, CreditNumbers
  <2>4. ASSUME NEW g \in CreditGrants PROVE GrantCredit(g)'
    <3>1. GrantCredit(g) BY DEF CreditInv
    <3>2. Candidate(g)' BY <2>1, <3>1 DEF GrantCredit, Candidate
    <3> QED BY <2>1, <3>2, CreditSame
  <2> QED BY <2>2, <2>3, <2>4 DEF CreditInv
<1>2. ASSUME NEW g \in CreditGrants, Credit!Spend(g) \/ Credit!TakeUpdate(g) \/ Credit!ConfirmUpdate(g) PROVE CreditInv'
  BY <1>2, CreditSpend, CreditTakeUpdate, CreditConfirmUpdate
<1>3. ASSUME NEW g \in CreditGrants, NEW o \in BOOLEAN, Credit!SetRate(g, o) PROVE CreditInv'
  BY <1>3, CreditSetRate
<1>4. ASSUME NEW w \in CreditWorkers, Credit!Claim(w) \/ Credit!Release(w) \/ Credit!Crash(w) PROVE CreditInv'
  BY <1>4, CreditLease
<1>5. ASSUME NEW w \in CreditWorkers, NEW g \in CreditGrants, NEW s \in 1..sequence, Credit!Refill(w, g, s) PROVE CreditInv'
  BY <1>5, CreditCandidate
<1>6. CASE Credit!Capture \/ Credit!Ingest \/ Credit!AcknowledgeReport \/ Credit!Lapse
  BY <1>6, CreditCapture, CreditIngest, CreditAcknowledgeReport, CreditLapse
<1>7. CASE Credit!Fetch \/ Credit!Post \/ Credit!AcknowledgeCredit \/ Credit!Lose
  BY <1>7, CreditFetch, CreditPost, CreditAcknowledge, CreditLose
<1>8. CASE Credit!Publish \/ Credit!Deploy \/ Credit!Observe
  BY <1>8, CreditPublish, CreditDeploy, CreditObserve
<1> QED BY <1>1, <1>2, <1>3, <1>4, <1>5, <1>6, <1>7, <1>8 DEF Credit!Next

\* For every number of grants and workers and every target, low-water mark and budget: the node
\* never holds more than the target in unspent credit, however reports are repeated, candidates
\* read twice and leases overrun; no candidate is left in a queue nobody will claim
\* (ReleaseCreditNode); what AcknowledgeCredit counts as acknowledged is in force, and what was
\* issued and is not in force is on its way, also after FetchCredit removed the row.
THEOREM CreditStaysSound == Credit!Spec => []CreditSound
<1>1. CreditInv => CreditSound
  <2> SUFFICES ASSUME CreditInv PROVE CreditSound OBVIOUS
  <2>1. \A g \in CreditGrants : GrantCredit(g) BY DEF CreditInv
  <2>2. Credit!TypeOK
    <3>1. /\ issued \in [CreditGrants -> Nat] /\ budget \in 0..Quota
          /\ queue \in [pending : BOOLEAN, claim : CreditWorkers \cup {"none"}]
      BY DEF CreditInv, CreditShape
    <3>2. candidate \in [CreditGrants -> 0..sequence]
      <4>1. candidate \in [CreditGrants -> Nat] /\ sequence \in Nat BY DEF CreditInv, CreditShape
      <4>2. \A g \in CreditGrants : candidate[g] <= sequence BY <2>1 DEF GrantCredit, Candidate
      <4> QED BY <4>1, <4>2
    <3>3. /\ reported \in sequence..sequence + 1
          /\ deployed <= running /\ running <= desired /\ desired <= deployed + 1
      BY DEF CreditInv, CreditShape, CreditNumbers
    <3>4. \A g \in CreditGrants : record[g].spent <= record[g].ceil /\ record[g].ceil <= issued[g]
      BY <2>1 DEF GrantCredit, Funded
    <3> QED BY <3>1, <3>2, <3>3, <3>4 DEF Credit!TypeOK, Credit!NoWorker
  <2>3. Credit!UnspentBounded
    <3>1. ASSUME NEW g \in CreditGrants PROVE issued[g] - record[g].spent <= Target
      <4>1. issued[g] <= record[g].spent + Target BY <2>1 DEF GrantCredit, Funded
      <4> QED BY <4>1, CreditTypes
    <3> QED BY <3>1 DEF Credit!UnspentBounded
  <2>4. Credit!CandidatesQueued BY <2>1 DEF Credit!CandidatesQueued, Credit!None, GrantCredit, Candidate
  <2>5. Credit!AcknowledgedHeld BY <2>1 DEF Credit!AcknowledgedHeld, GrantCredit, Funded
  <2>6. Credit!CreditOnItsWay BY <2>1 DEF Credit!CreditOnItsWay, GrantCredit, OnItsWay
  <2> QED BY <2>2, <2>3, <2>4, <2>5, <2>6 DEF CreditSound
<1>2. CreditInv /\ [Credit!Next]_(Credit!vars) => CreditInv'
  <2>1. UNCHANGED Credit!vars => UNCHANGED creditVars
    BY DEF Credit!vars, Credit!masterVars, Credit!reportVars, Credit!queueVars, Credit!nodeVars, Credit!captureVars, creditVars
  <2> QED BY <2>1, CreditStep
<1> QED BY <1>1, <1>2, CreditInit, PTL DEF Credit!Spec
=============================================================================
