-------------------------- MODULE RateSharesProofs --------------------------
(***************************************************************************)
(* For every set of placements and of bounds, every number of revisions,   *)
(* messages in flight and changes: the ledger counts at least the rate     *)
(* that each node runs, and issues nothing above the bound of the pool.    *)
(* Nothing is assumed of the planner but that RequestRateShare finds its   *)
(* rates valid: the proofs hold for whatever it asks for, in any order.    *)
(*                                                                         *)
(* Covered alone is not inductive.  An update on its way will be in force  *)
(* later, so whatever is newer than what is in force must be covered too;  *)
(* and a confirmation lowers what is counted, so the one that does must    *)
(* prove that the node already runs the last rate it was told.             *)
(***************************************************************************)
EXTENDS RateShares, TotalsProofs

\* A member's share, what its node has in force, the updates on their way to it
\* and its confirmations agree.
SoundMember(m) ==
    /\ share[m] = None =>
         /\ force[m].rev = 0 /\ force[m].rate = Blocked
         /\ \A u \in mail \cup acks : u.member # m
    /\ share[m] # None =>
         /\ AtMost(force[m].rate, share[m].outstanding)
         /\ AtMost(share[m].desired, share[m].outstanding)
         /\ force[m].rev <= share[m].revision
         /\ force[m].rev = share[m].revision => force[m].rate = share[m].desired
    /\ \A u \in mail : u.member = m =>
         /\ u.rev <= share[m].revision
         /\ u.rev = share[m].revision => u.rate = share[m].desired
         /\ u.rev > force[m].rev => AtMost(u.rate, share[m].outstanding)
    /\ \A u \in acks : u.member = m => u.rev <= force[m].rev

Inv == TypeOK /\ \A m \in Members : SoundMember(m)

-----------------------------------------------------------------------------
(***************************************************************************)
(* Rates.                                                                  *)
(***************************************************************************)

\* The blocked rate is a rate.
LEMMA BlockedType == Blocked \in Rate /\ Blocked.mode = "Blocked"
BY DEF Blocked, Rate

\* The larger of two rates is a rate, and at least each of the two.
LEMMA EnvelopeBounds ==
    ASSUME NEW a \in Rate, NEW b \in Rate
    PROVE  /\ Envelope(a, b) \in Rate
           /\ AtMost(a, Envelope(a, b))
           /\ AtMost(b, Envelope(a, b))
BY DEF Rate, Envelope, AtMost, Unlimited, Limited, Larger

\* AtMost is reflexive on rates.
LEMMA AtMostReflexive ==
    ASSUME NEW a \in Rate
    PROVE  AtMost(a, a)
BY DEF Rate, AtMost

\* AtMost is transitive on rates.
LEMMA AtMostTransitive ==
    ASSUME NEW a \in Rate, NEW b \in Rate, NEW c \in Rate, AtMost(a, b), AtMost(b, c)
    PROVE  AtMost(a, c)
BY DEF Rate, AtMost

-----------------------------------------------------------------------------
(***************************************************************************)
(* What the ledger counts.                                                 *)
(***************************************************************************)

\* What a step may do to the pool (NeverOverIssued, for one step).
Issues == Pending' => \A m \in Members : AtMost(Outstanding(m)', Outstanding(m))

\* What is counted for a member is a rate.
LEMMA OutstandingType ==
    ASSUME TypeOK, NEW m \in Members
    PROVE  Outstanding(m) \in Rate
BY BlockedType DEF TypeOK, Outstanding, Share

\* A share as it is after RequestRateShare.
LEMMA ShareAfterType ==
    ASSUME TypeOK, NEW m \in Members, NEW rate \in Rate, NEW enabled \in BOOLEAN
    PROVE  LET s == ShareAfter(m, rate, enabled)
           IN  /\ s \in Share /\ s # None
               /\ s.desired = rate
               /\ s.outstanding = Envelope(Outstanding(m), rate)
               /\ s.revision = (IF share[m] = None THEN 1 ELSE share[m].revision + 1)
<1>1. Envelope(Outstanding(m), rate) \in Rate
  BY OutstandingType, EnvelopeBounds
<1>2. share[m] # None => share[m].revision \in Nat /\ share[m].applied \in Nat
  BY DEF TypeOK, Share
<1>3. ShareAfter(m, rate, enabled) \in Share
  BY <1>1, <1>2 DEF ShareAfter, Share
<1> QED BY <1>3, SharesAssumption DEF ShareAfter

\* RequestRateShare leaves every member sound, and issues only what fits.
LEMMA RequestStep ==
    ASSUME Inv, NEW m \in Members, NEW rate, NEW enabled \in BOOLEAN,
           RequestAllowed(m, rate),
           share' = [share EXCEPT ![m] = ShareAfter(m, rate, enabled)],
           UNCHANGED <<bound, mail, force, acks>>
    PROVE  /\ share' \in [Members -> Share \cup {None}]
           /\ \A x \in Members : SoundMember(x)'
           /\ Issues
<1> DEFINE s == ShareAfter(m, rate, enabled)
           after == Envelope(Outstanding(m), rate)
<1>1. rate \in Rate
  BY DEF RequestAllowed, ValidRate
<1>2. /\ s \in Share /\ s # None
      /\ s.desired = rate /\ s.outstanding = after
      /\ s.revision = (IF share[m] = None THEN 1 ELSE share[m].revision + 1)
  BY <1>1, ShareAfterType DEF Inv
<1>3. Outstanding(m) \in Rate /\ after \in Rate
  BY <1>1, OutstandingType, EnvelopeBounds DEF Inv
<1>4. share' \in [Members -> Share \cup {None}] /\ share'[m] = s
  BY <1>2 DEF Inv, TypeOK
<1>5. \A x \in Members : x # m => share'[x] = share[x]
  BY DEF Inv, TypeOK
<1> HIDE DEF s
<1>6. ASSUME NEW a \in Rate, AtMost(a, Outstanding(m))
      PROVE  AtMost(a, after)
  BY <1>1, <1>3, <1>6, EnvelopeBounds, AtMostTransitive
<1>7. AtMost(rate, after)
  BY <1>1, <1>3, EnvelopeBounds
<1> HIDE DEF after
<1>8. /\ force[m].rate \in Rate /\ force[m].rev \in Nat
      /\ share[m] # None => share[m].revision \in Nat
      /\ \A u \in mail \cup acks : u.rate \in Rate /\ u.rev \in Nat
  BY DEF Inv, TypeOK, InForce, Share, Update
<1>9. SoundMember(m)'
  <2>1. CASE share[m] = None
    <3>1. /\ force[m].rev = 0 /\ force[m].rate = Blocked
          /\ \A u \in mail \cup acks : u.member # m
      BY <2>1 DEF Inv, SoundMember
    <3>2. AtMost(force[m].rate, after)
      BY <3>1, BlockedType DEF AtMost
    <3> QED BY <1>2, <1>4, <1>7, <2>1, <3>1, <3>2 DEF SoundMember
  <2>2. CASE share[m] # None
    <3>1. Outstanding(m) = share[m].outstanding
      BY <2>2 DEF Outstanding
    <3>2. AtMost(force[m].rate, after)
      BY <1>6, <1>8, <2>2, <3>1 DEF Inv, SoundMember
    <3>3. force[m].rev < s.revision
      BY <1>2, <1>8, <2>2 DEF Inv, SoundMember
    <3>4. ASSUME NEW u \in mail, u.member = m
          PROVE  u.rev < s.revision /\ (u.rev > force[m].rev => AtMost(u.rate, after))
      BY <1>2, <1>6, <1>8, <2>2, <3>1, <3>4 DEF Inv, SoundMember
    <3>5. \A u \in acks : u.member = m => u.rev <= force[m].rev
      BY DEF Inv, SoundMember
    <3> QED BY <1>2, <1>4, <1>7, <1>8, <3>2, <3>3, <3>4, <3>5 DEF SoundMember
  <2> QED BY <2>1, <2>2
<1>10. ASSUME NEW x \in Members, x # m
       PROVE  SoundMember(x)'
  BY <1>5, <1>10 DEF Inv, SoundMember
<1>11. Issues
  <2>1. CASE after = Outstanding(m)
    <3>1. ASSUME NEW x \in Members
          PROVE  Outstanding(x)' = Outstanding(x)
      BY <1>2, <1>4, <1>5, <2>1 DEF Outstanding
    <3> QED BY <3>1, OutstandingType, AtMostReflexive DEF Issues, Inv
  <2>2. CASE after # Outstanding(m)
    <3>1. Fits(bound, [x \in Holders \cup {m} |-> IF x = m THEN after ELSE Outstanding(x)], Holders \cup {m})
      BY <2>2 DEF RequestAllowed, after
    <3>2. Holders' = Holders \cup {m}
      BY <1>2, <1>4, <1>5 DEF Holders
    <3>3. [x \in Holders' |-> share'[x].outstanding]
            = [x \in Holders \cup {m} |-> IF x = m THEN after ELSE Outstanding(x)]
      BY <1>2, <1>4, <1>5, <3>2 DEF Holders, Outstanding
    <3>4. ~Pending'
      BY <3>1, <3>2, <3>3 DEF Pending
    <3> QED BY <3>4 DEF Issues
  <2> QED BY <2>1, <2>2
<1> QED BY <1>4, <1>9, <1>10, <1>11

\* Where shares, messages and what is in force stay, so does all of this.
LEMMA QuietStep ==
    ASSUME Inv, UNCHANGED <<share, mail, force, acks>>
    PROVE  (\A x \in Members : SoundMember(x)') /\ Issues
<1>1. \A x \in Members : SoundMember(x)'
  BY DEF Inv, SoundMember
<1>2. \A x \in Members : Outstanding(x)' = Outstanding(x)
  BY DEF Outstanding
<1> QED BY <1>1, <1>2, OutstandingType, AtMostReflexive DEF Issues, Inv

-----------------------------------------------------------------------------
(***************************************************************************)
(* The scheduler and the environment.                                      *)
(***************************************************************************)

\* What Ask does to the shares, asked for or desired already.
LEMMA AskStep ==
    ASSUME Inv, NEW m \in Members, NEW rate, Ask(m, rate), UNCHANGED <<bound, mail, force, acks>>
    PROVE  /\ share' \in [Members -> Share \cup {None}]
           /\ \A x \in Members : SoundMember(x)'
           /\ Issues
<1>1. CASE UNCHANGED share
  BY <1>1, QuietStep DEF Inv, TypeOK
<1>2. CASE ~UNCHANGED share
  <2>1. RequestAllowed(m, rate) /\ share' = [share EXCEPT ![m] = ShareAfter(m, rate, TRUE)]
    BY <1>2 DEF Ask
  <2> QED BY <2>1, RequestStep
<1> QED BY <1>1, <1>2

\* A demand that is taken up.
LEMMA ProcessStep ==
    ASSUME Inv, NEW m \in Members, Process(m)
    PROVE  Inv' /\ Issues
<1> DEFINE next == NextRates
<1>1. /\ jobs' = Jobs(m, next) /\ demand' \subseteq demand
      /\ UNCHANGED <<bound, online, mail, force, acks, changes>>
      /\ Ask(m, next[m]) \/ UNCHANGED share
  BY DEF Process
<1>2. jobs' \in [Members -> Members \cup {None}]
  <2> HIDE DEF next
  <2> QED BY <1>1 DEF Jobs, Inv, TypeOK
<1> HIDE DEF next
<1>3. /\ share' \in [Members -> Share \cup {None}]
      /\ \A x \in Members : SoundMember(x)'
      /\ Issues
  <2>1. CASE Ask(m, next[m])
    BY <1>1, <2>1, AskStep
  <2>2. CASE UNCHANGED share
    BY <1>1, <2>2, QuietStep DEF Inv, TypeOK
  <2> QED BY <1>1, <2>1, <2>2
<1>4. TypeOK'
  BY <1>1, <1>2, <1>3 DEF Inv, TypeOK
<1> QED BY <1>3, <1>4 DEF Inv

\* A reconciliation job that is taken up.
LEMMA ReconcileStep ==
    ASSUME Inv, NEW m \in Members, Reconcile(m)
    PROVE  Inv' /\ Issues
<1> DEFINE rate == NextRates[m]
<1>1. /\ jobs' = [jobs EXCEPT ![m] = None]
      /\ UNCHANGED <<bound, demand, online, mail, force, acks, changes>>
      /\ Ask(m, rate) \/ UNCHANGED share
  BY DEF Reconcile
<1> HIDE DEF rate
<1>2. /\ share' \in [Members -> Share \cup {None}]
      /\ \A x \in Members : SoundMember(x)'
      /\ Issues
  <2>1. CASE Ask(m, rate)
    BY <1>1, <2>1, AskStep
  <2>2. CASE UNCHANGED share
    BY <1>1, <2>2, QuietStep DEF Inv, TypeOK
  <2> QED BY <1>1, <2>1, <2>2
<1>3. TypeOK'
  BY <1>1, <1>2 DEF Inv, TypeOK
<1> QED BY <1>2, <1>3 DEF Inv

\* A share that the operator funds, or one that is stopped.
LEMMA DirectStep ==
    ASSUME Inv, NEW m \in Members, NEW rate, Fund(m, rate) \/ Stop(m)
    PROVE  Inv' /\ Issues
<1>1. /\ changes < MaxChanges /\ changes' = changes + 1
      /\ UNCHANGED <<bound, demand, jobs, online, mail, force, acks>>
  BY DEF Fund, Stop, Change
<1>2. /\ share' \in [Members -> Share \cup {None}]
      /\ \A x \in Members : SoundMember(x)'
      /\ Issues
  <2>1. CASE Fund(m, rate)
    BY <1>1, <2>1, RequestStep DEF Fund
  <2>2. CASE Stop(m)
    BY <1>1, <2>2, RequestStep DEF Stop
  <2> QED BY <2>1, <2>2
<1>3. changes' \in 0 .. MaxChanges
  BY <1>1, SharesAssumption DEF Inv, TypeOK
<1>4. TypeOK'
  BY <1>1, <1>2, <1>3 DEF Inv, TypeOK
<1> QED BY <1>2, <1>4 DEF Inv

\* The steps that touch neither a share nor a message.
LEMMA OtherStep ==
    ASSUME Inv, NEW m \in Members,
           PostDemand(m) \/ Reject(m) \/ Toggle(m) \/ Expire(m)
    PROVE  Inv' /\ Issues
<1>1. UNCHANGED <<share, mail, force, acks>>
  BY DEF PostDemand, Reject, Toggle, Expire, ledger
<1>2. (\A x \in Members : SoundMember(x)') /\ Issues
  BY <1>1, QuietStep
<1>3. changes' \in 0 .. MaxChanges
  BY SharesAssumption DEF Inv, TypeOK, PostDemand, Reject, Toggle, Expire, Change
<1>4. bound' \in Bounds /\ demand' \subseteq Members /\ online' \subseteq Members
  BY DEF Inv, TypeOK, PostDemand, Reject, Toggle, Expire, ledger
<1>5. jobs' \in [Members -> Members \cup {None}]
  BY DEF Inv, TypeOK, PostDemand, Reject, Toggle, Expire, ledger
<1>6. TypeOK'
  BY <1>1, <1>3, <1>4, <1>5 DEF Inv, TypeOK
<1> QED BY <1>2, <1>6 DEF Inv

-----------------------------------------------------------------------------
(***************************************************************************)
(* Updates and confirmations.                                              *)
(***************************************************************************)

\* Nothing that is counted changes while the shares and the pool stay.
LEMMA SharesStay ==
    ASSUME TypeOK, UNCHANGED share
    PROVE  Issues
<1>1. \A x \in Members : Outstanding(x)' = Outstanding(x)
  BY DEF Outstanding
<1> QED BY <1>1, OutstandingType, AtMostReflexive DEF Issues

\* An update that is fetched carries the last revision and the desired rate.
LEMMA FetchStep ==
    ASSUME Inv, NEW m \in Members, Fetch(m)
    PROVE  Inv' /\ Issues
<1> DEFINE u == QueuedUpdate(m)
<1>1. /\ mail' = mail \cup {u}
      /\ UNCHANGED <<bound, share, demand, jobs, online, force, acks, changes>>
      /\ share[m] # None
  BY DEF Fetch, ledger, Holders
<1>2. /\ u \in Update /\ u.member = m
      /\ u.rev = share[m].revision /\ u.rate = share[m].desired
  BY <1>1 DEF QueuedUpdate, Inv, TypeOK, Share, Update
<1> HIDE DEF u
<1>3. TypeOK'
  BY <1>1, <1>2 DEF Inv, TypeOK
<1>4. SoundMember(m)'
  <2>1. AtMost(u.rate, share[m].outstanding)
    BY <1>1, <1>2 DEF Inv, SoundMember
  <2>2. share[m].revision \in Nat
    BY <1>1 DEF Inv, TypeOK, Share
  <2> QED BY <1>1, <1>2, <2>1, <2>2 DEF Inv, SoundMember
<1>5. ASSUME NEW x \in Members, x # m
      PROVE  SoundMember(x)'
  BY <1>1, <1>2, <1>5 DEF Inv, SoundMember
<1>6. Issues
  BY <1>1, SharesStay DEF Inv
<1> QED BY <1>3, <1>4, <1>5, <1>6 DEF Inv

\* An update that advances the node was covered while it was on its way; one
\* that does not leaves the node alone.
LEMMA ApplyStep ==
    ASSUME Inv, NEW u \in mail, Apply(u)
    PROVE  Inv' /\ Issues
<1> DEFINE m == u.member
           f == [rev |-> u.rev, rate |-> u.rate, enabled |-> u.enabled]
<1>1. u \in Update /\ m \in Members
  BY DEF Inv, TypeOK, Update
<1>2. /\ mail' = mail \ {u} /\ acks' \subseteq acks \cup {u}
      /\ UNCHANGED <<bound, share, demand, jobs, online, changes>>
      /\ \/ Advances(u, force[m]) /\ force' = [force EXCEPT ![m] = f]
         \/ u.rev = force[m].rev /\ UNCHANGED force
         \/ UNCHANGED <<force, acks>>
  <2>1. CASE Advances(u, force[m]) /\ force' = [force EXCEPT ![m] = f] /\ acks' = acks \cup {u}
    BY <2>1 DEF Apply, ledger
  <2>2. CASE Repeats(u, force[m]) /\ acks' = acks \cup {u} /\ UNCHANGED force
    <3>1. u.rev = force[m].rev
      BY <2>2 DEF Repeats
    <3> QED BY <2>2, <3>1 DEF Apply, ledger
  <2>3. CASE UNCHANGED <<force, acks>>
    BY <2>3 DEF Apply, ledger
  <2> QED BY <2>1, <2>2, <2>3 DEF Apply
<1>3. force' \in [Members -> InForce] /\ f \in InForce
  BY <1>1, <1>2 DEF Inv, TypeOK, InForce, Update
<1>4. TypeOK'
  BY <1>1, <1>2, <1>3 DEF Inv, TypeOK
<1>5. /\ share[m] # None /\ share[m] \in Share
      /\ u.rev <= share[m].revision
      /\ u.rev = share[m].revision => u.rate = share[m].desired
      /\ u.rev > force[m].rev => AtMost(u.rate, share[m].outstanding)
  BY <1>1 DEF Inv, SoundMember, TypeOK
<1>6. /\ u.rev \in Nat /\ share[m].revision \in Nat
      /\ force[m].rev \in Nat
      /\ \A v \in mail \cup acks : v.rev \in Nat
  BY <1>1, <1>5 DEF Inv, TypeOK, Update, Share, InForce
<1>7. SoundMember(m)'
  <2>1. CASE Advances(u, force[m]) /\ force' = [force EXCEPT ![m] = f]
    <3>1. force'[m] = f /\ f.rev = u.rev /\ f.rate = u.rate /\ u.rev > force[m].rev
      BY <1>1, <2>1 DEF Inv, TypeOK, Advances
    <3> HIDE DEF f
    <3>2. \A v \in mail' : v.member = m =>
             /\ v.rev <= share[m].revision
             /\ v.rev = share[m].revision => v.rate = share[m].desired
             /\ v.rev > u.rev => AtMost(v.rate, share[m].outstanding)
      BY <1>1, <1>2, <1>6, <3>1 DEF Inv, SoundMember
    <3>3. \A v \in acks' : v.member = m => v.rev <= u.rev
      BY <1>1, <1>2, <1>6, <3>1 DEF Inv, SoundMember
    <3>4. AtMost(share[m].desired, share[m].outstanding)
      BY <1>1, <1>5 DEF Inv, SoundMember
    <3> QED BY <1>2, <1>5, <3>1, <3>2, <3>3, <3>4 DEF SoundMember
  <2>2. CASE u.rev = force[m].rev /\ UNCHANGED force
    BY <1>1, <1>2, <1>5, <1>6, <2>2 DEF Inv, SoundMember
  <2>3. CASE UNCHANGED <<force, acks>>
    BY <1>1, <1>2, <1>5, <2>3 DEF Inv, SoundMember
  <2> QED BY <1>2, <2>1, <2>2, <2>3
<1>8. ASSUME NEW x \in Members, x # m
      PROVE  SoundMember(x)'
  <2>1. force'[x] = force[x]
    BY <1>1, <1>2, <1>8 DEF Inv, TypeOK
  <2>2. \A v \in mail' \cup acks' : v.member = x => v \in mail \cup acks
    BY <1>2, <1>8
  <2>3. (\A v \in mail' : v \in mail) /\ (\A v \in acks' : v.member = x => v \in acks)
    BY <1>2, <1>8
  <2> QED BY <1>2, <2>1, <2>2, <2>3 DEF Inv, SoundMember
<1>9. Issues
  BY <1>2, SharesStay DEF Inv
<1> QED BY <1>4, <1>7, <1>8, <1>9 DEF Inv

\* The confirmation of the last revision proves that the node runs it: what is
\* counted falls to what is desired.
LEMMA AcknowledgeStep ==
    ASSUME Inv, NEW u \in acks, Acknowledge(u)
    PROVE  Inv' /\ Issues
<1> DEFINE m == u.member
           s == [share[m] EXCEPT !.applied = u.rev, !.outstanding = u.rate]
<1>1. u \in Update /\ m \in Members
  BY DEF Inv, TypeOK, Update
<1>2. /\ acks' = acks \ {u}
      /\ UNCHANGED <<bound, demand, jobs, online, mail, force, changes>>
  BY DEF Acknowledge
<1>3. share[m] # None /\ share[m] \in Share
  BY <1>1 DEF Inv, SoundMember, TypeOK
<1>4. CASE ~Confirms(u)
  <2>1. UNCHANGED share
    BY <1>4 DEF Acknowledge
  <2>2. TypeOK'
    BY <1>2, <2>1 DEF Inv, TypeOK
  <2>3. \A x \in Members : SoundMember(x)'
    BY <1>2, <2>1 DEF Inv, SoundMember
  <2> QED BY <2>1, <2>2, <2>3, SharesStay DEF Inv
<1>5. CASE Confirms(u)
  <2>1. share' = [share EXCEPT ![m] = s]
    BY <1>5 DEF Acknowledge
  <2>2. /\ s \in Share /\ s # None
        /\ s.revision = share[m].revision /\ s.desired = share[m].desired /\ s.outstanding = u.rate
    BY <1>1, <1>3, SharesAssumption DEF Share, Update
  <2> HIDE DEF s
  <2>3. share' \in [Members -> Share \cup {None}] /\ share'[m] = s
    BY <1>1, <2>1, <2>2 DEF Inv, TypeOK
  <2>4. \A x \in Members : x # m => share'[x] = share[x]
    BY <2>1 DEF Inv, TypeOK
  <2>5. TypeOK'
    BY <1>2, <2>3 DEF Inv, TypeOK
  <2>6. u.rev = share[m].revision /\ u.rate = share[m].desired
    BY <1>5 DEF Confirms
  <2>7. /\ force[m].rev \in Nat /\ share[m].revision \in Nat /\ u.rate \in Rate
        /\ \A v \in mail : v.rev \in Nat
    BY <1>1, <1>3 DEF Inv, TypeOK, InForce, Share, Update
  <2>8. force[m].rev = share[m].revision /\ force[m].rate = share[m].desired
    <3>1. u.rev <= force[m].rev /\ force[m].rev <= share[m].revision
      BY <1>1, <1>3 DEF Inv, SoundMember
    <3>2. force[m].rev = share[m].revision
      BY <2>6, <2>7, <3>1
    <3> QED BY <1>1, <1>3, <3>2 DEF Inv, SoundMember
  <2>9. AtMost(u.rate, u.rate)
    BY <2>7, AtMostReflexive
  <2>10. SoundMember(m)'
    <3>1. \A v \in mail : v.member = m =>
             /\ v.rev <= share[m].revision
             /\ v.rev = share[m].revision => v.rate = share[m].desired
      BY <1>1 DEF Inv, SoundMember
    <3>2. \A v \in acks' : v.member = m => v.rev <= force[m].rev
      BY <1>1, <1>2 DEF Inv, SoundMember
    <3> QED BY <1>2, <2>2, <2>3, <2>6, <2>7, <2>8, <2>9, <3>1, <3>2 DEF SoundMember
  <2>11. ASSUME NEW x \in Members, x # m
         PROVE  SoundMember(x)'
    BY <1>2, <2>4, <2>11 DEF Inv, SoundMember
  <2>12. Issues
    <3>1. AtMost(Outstanding(m)', Outstanding(m))
      BY <1>1, <1>3, <2>2, <2>3, <2>6 DEF Outstanding, Inv, SoundMember
    <3>2. ASSUME NEW x \in Members, x # m
          PROVE  AtMost(Outstanding(x)', Outstanding(x))
      <4>1. Outstanding(x)' = Outstanding(x)
        BY <2>4, <3>2 DEF Outstanding
      <4> QED BY <4>1, OutstandingType, AtMostReflexive DEF Inv
    <3> QED BY <3>1, <3>2 DEF Issues
  <2> QED BY <2>5, <2>10, <2>11, <2>12 DEF Inv
<1> QED BY <1>4, <1>5

\* Lost messages leave less to be sound.
LEMMA LoseStep ==
    ASSUME Inv, Lose
    PROVE  Inv' /\ Issues
<1>1. /\ mail' \subseteq mail /\ acks' \subseteq acks
      /\ UNCHANGED <<bound, share, demand, jobs, online, force>>
      /\ changes < MaxChanges /\ changes' = changes + 1
  BY DEF Lose, Change, ledger
<1>2. changes' \in 0 .. MaxChanges
  BY <1>1, SharesAssumption DEF Inv, TypeOK
<1>3. TypeOK'
  BY <1>1, <1>2 DEF Inv, TypeOK
<1>4. \A x \in Members : SoundMember(x)'
  BY <1>1 DEF Inv, SoundMember
<1> QED BY <1>1, <1>3, <1>4, SharesStay DEF Inv

-----------------------------------------------------------------------------
(***************************************************************************)
(* The theorems.                                                           *)
(***************************************************************************)

\* No member has a share at first, and every node is blocked.
LEMMA InitInv == Init => Inv
<1> SUFFICES ASSUME Init PROVE Inv
  OBVIOUS
<1>1. TypeOK
  BY BlockedType, SharesAssumption DEF Init, TypeOK, InForce
<1>2. \A m \in Members : SoundMember(m)
  BY DEF Init, SoundMember
<1> QED BY <1>1, <1>2 DEF Inv

\* Every step keeps the invariant and issues only what fits.
LEMMA NextInv == Inv /\ [Next]_vars => Inv' /\ (Issues \/ UNCHANGED vars)
<1> SUFFICES ASSUME Inv, [Next]_vars
             PROVE  Inv' /\ (Issues \/ UNCHANGED vars)
  OBVIOUS
<1>1. CASE UNCHANGED vars
  BY <1>1 DEF Inv, TypeOK, SoundMember, vars, ledger
<1>2. ASSUME NEW m \in Members, PostDemand(m) \/ Reject(m) \/ Toggle(m) \/ Expire(m)
      PROVE  Inv' /\ Issues
  BY <1>2, OtherStep DEF Inv, TypeOK
<1>3. ASSUME NEW m \in Members, Process(m) \/ Reconcile(m) \/ Fetch(m) \/ Stop(m)
      PROVE  Inv' /\ Issues
  BY <1>3, ProcessStep, ReconcileStep, FetchStep, DirectStep
<1>4. ASSUME NEW u \in mail, Apply(u)
      PROVE  Inv' /\ Issues
  BY <1>4, ApplyStep
<1>5. ASSUME NEW u \in acks, Acknowledge(u)
      PROVE  Inv' /\ Issues
  BY <1>5, AcknowledgeStep
<1>6. ASSUME NEW rate \in Bounds, SetRateBudget(rate)
      PROVE  Inv' /\ Issues
  <2>1. UNCHANGED <<share, mail, force, acks>>
    BY <1>6 DEF SetRateBudget
  <2>2. changes' \in 0 .. MaxChanges
    BY <1>6, SharesAssumption DEF Inv, TypeOK, SetRateBudget, Change
  <2>3. TypeOK'
    BY <1>6, <2>1, <2>2 DEF Inv, TypeOK, SetRateBudget
  <2> QED BY <2>1, <2>3, QuietStep DEF Inv
<1>7. ASSUME NEW rate \in Bounds, NEW m \in Members, Fund(m, rate)
      PROVE  Inv' /\ Issues
  BY <1>7, DirectStep
<1>8. CASE Lose
  BY <1>8, LoseStep
<1> QED BY <1>1, <1>2, <1>3, <1>4, <1>5, <1>6, <1>7, <1>8 DEF Next

\* Each member's share, what is in force and the messages between agree.
LEMMA Invariance == Spec => []Inv
<1>1. Inv /\ [Next]_vars => Inv'
  BY NextInv
<1> QED BY InitInv, <1>1, PTL DEF Spec

\* Every variable keeps its type, whatever the planner asks for.
THEOREM SharesTyped == Spec => []TypeOK
<1>1. Inv => TypeOK
  BY DEF Inv
<1> QED BY Invariance, <1>1, PTL

\* No node ever runs a rate above what the ledger counts for it
\* (RequestRateShare's envelope, AcknowledgeAuthorityUpdates' release).
THEOREM NodesCovered == Spec => []Covered
<1>1. Inv => Covered
  <2> SUFFICES ASSUME Inv, NEW m \in Members PROVE AtMost(force[m].rate, Outstanding(m))
    BY DEF Covered
  <2>1. CASE share[m] = None
    BY <2>1, BlockedType DEF Inv, SoundMember, AtMost
  <2>2. CASE share[m] # None
    BY <2>2 DEF Inv, SoundMember, Outstanding
  <2> QED BY <2>1, <2>2
<1> QED BY Invariance, <1>1, PTL

\* No step of RequestRateShare takes out of the pool what its bound has no
\* room for; what is over a lowered bound only shrinks.
THEOREM PoolNeverOverIssued == Spec => NeverOverIssued
<1>1. Inv /\ [Next]_vars => [Pending' => \A m \in Members : AtMost(Outstanding(m)', Outstanding(m))]_vars
  BY NextInv DEF Issues
<1> QED BY Invariance, <1>1, PTL DEF Spec, NeverOverIssued

-----------------------------------------------------------------------------
(***************************************************************************)
(* The pool.  BoundHolds adds the rates of all nodes up, where a blocked   *)
(* node must not count: every rate that is stored, sent or in force is a   *)
(* valid one (RatesValid), so that a blocked rate has no bits.             *)
(***************************************************************************)

\* Every rate in the ledger, on its way or in force is one validateRate accepts.
RatesValid ==
    /\ \A m \in Members :
         /\ ValidRate(force[m].rate)
         /\ share[m] # None => ValidRate(share[m].desired) /\ ValidRate(share[m].outstanding)
    /\ \A u \in mail \cup acks : ValidRate(u.rate)

\* The larger of two valid rates is valid.
LEMMA EnvelopeValid ==
    ASSUME NEW a, NEW b, ValidRate(a), ValidRate(b)
    PROVE  ValidRate(Envelope(a, b))
BY DEF ValidRate, Rate, Envelope, Unlimited, Limited, Larger

\* A rate below one that is not unlimited is smaller in all it has.
LEMMA AtMostSizes ==
    ASSUME NEW a, NEW b, ValidRate(a), ValidRate(b), AtMost(a, b), b.mode # "Unlimited"
    PROVE  /\ a.bits <= b.bits /\ a.burst <= b.burst
           /\ a.mode # "Blocked" => a.mode = "Limited" /\ b.mode = "Limited"
<1>1. /\ a.bits \in Nat /\ a.burst \in Nat /\ b.bits \in Nat /\ b.burst \in Nat
      /\ a.mode \in {"Blocked", "Limited", "Unlimited"} /\ b.mode \in {"Blocked", "Limited", "Unlimited"}
      /\ a.mode = "Limited" <=> a.bits > 0
      /\ a.mode = "Limited" <=> a.burst > 0
  BY DEF ValidRate, Rate
<1> QED BY <1>1 DEF AtMost

\* What RequestRateShare stores is valid.
LEMMA RequestValid ==
    ASSUME Inv, RatesValid, NEW m \in Members, NEW rate, NEW enabled \in BOOLEAN,
           RequestAllowed(m, rate),
           share' = [share EXCEPT ![m] = ShareAfter(m, rate, enabled)],
           UNCHANGED <<mail, force, acks>>
    PROVE  RatesValid'
<1> DEFINE s == ShareAfter(m, rate, enabled)
<1>1. ValidRate(rate)
  BY DEF RequestAllowed
<1>2. ValidRate(Outstanding(m))
  BY DEF RatesValid, Outstanding, ValidRate, Blocked, Rate
<1>3. s.desired = rate /\ s.outstanding = Envelope(Outstanding(m), rate)
  BY DEF ShareAfter
<1>4. ValidRate(s.desired) /\ ValidRate(s.outstanding)
  BY <1>1, <1>2, <1>3, EnvelopeValid
<1>5. \A x \in Members : share'[x] = IF x = m THEN s ELSE share[x]
  BY DEF Inv, TypeOK
<1> HIDE DEF s
<1> QED BY <1>4, <1>5 DEF RatesValid

\* No step brings an invalid rate in.
LEMMA NextValid == Inv /\ RatesValid /\ [Next]_vars => RatesValid'
<1> SUFFICES ASSUME Inv, RatesValid, [Next]_vars PROVE RatesValid'
  OBVIOUS
<1>1. ASSUME UNCHANGED <<share, force>>, mail' \subseteq mail, acks' \subseteq acks PROVE RatesValid'
  BY <1>1 DEF RatesValid
<1>2. ASSUME NEW m \in Members, NEW rate, Ask(m, rate), UNCHANGED <<mail, force, acks>>
      PROVE  RatesValid'
  <2>1. CASE UNCHANGED share
    BY <1>1, <1>2, <2>1
  <2>2. CASE ~UNCHANGED share
    BY <1>2, <2>2, RequestValid DEF Ask
  <2> QED BY <2>1, <2>2
<1>3. CASE UNCHANGED vars
  BY <1>1, <1>3 DEF vars, ledger
<1>4. ASSUME NEW m \in Members, PostDemand(m) \/ Reject(m) \/ Toggle(m) \/ Expire(m) PROVE RatesValid'
  BY <1>1, <1>4 DEF PostDemand, Reject, Toggle, Expire, ledger
<1>5. ASSUME NEW m \in Members, Process(m) PROVE RatesValid'
  <2> DEFINE next == NextRates
  <2>1. UNCHANGED <<mail, force, acks>> /\ (Ask(m, next[m]) \/ UNCHANGED share)
    BY <1>5 DEF Process
  <2> HIDE DEF next
  <2> QED BY <1>1, <1>2, <2>1
<1>6. ASSUME NEW m \in Members, Reconcile(m) PROVE RatesValid'
  <2> DEFINE rate == NextRates[m]
  <2>1. UNCHANGED <<mail, force, acks>> /\ (Ask(m, rate) \/ UNCHANGED share)
    BY <1>6 DEF Reconcile
  <2> HIDE DEF rate
  <2> QED BY <1>1, <1>2, <2>1
<1>7. ASSUME NEW m \in Members, Fetch(m) PROVE RatesValid'
  <2>1. m \in Holders /\ mail' = mail \cup {QueuedUpdate(m)} /\ UNCHANGED <<share, force, acks>>
    BY <1>7 DEF Fetch, ledger
  <2>2. ValidRate(QueuedUpdate(m).rate)
    BY <2>1 DEF QueuedUpdate, Holders, RatesValid
  <2> QED BY <2>1, <2>2 DEF RatesValid
<1>8. ASSUME NEW m \in Members, Stop(m) PROVE RatesValid'
  BY <1>8, RequestValid DEF Stop
<1>9. ASSUME NEW rate \in Bounds, NEW m \in Members, Fund(m, rate) PROVE RatesValid'
  BY <1>9, RequestValid DEF Fund
<1>10. ASSUME NEW u \in mail, Apply(u) PROVE RatesValid'
  <2>1. ValidRate(u.rate) /\ force \in [Members -> InForce] /\ u.member \in Members
    BY DEF RatesValid, Inv, TypeOK, Update
  <2>2. /\ mail' \subseteq mail /\ acks' \subseteq acks \cup {u} /\ UNCHANGED share
        /\ \/ UNCHANGED force
           \/ force' = [force EXCEPT ![u.member] = [rev |-> u.rev, rate |-> u.rate, enabled |-> u.enabled]]
    BY <1>10 DEF Apply, ledger
  <2>3. \A m \in Members : ValidRate(force'[m].rate)
    BY <2>1, <2>2 DEF RatesValid
  <2> QED BY <2>1, <2>2, <2>3 DEF RatesValid
<1>11. ASSUME NEW u \in acks, Acknowledge(u) PROVE RatesValid'
  <2>1. ValidRate(u.rate) /\ u.member \in Members /\ share[u.member] # None
    BY DEF RatesValid, Inv, TypeOK, Update, SoundMember
  <2>2. share[u.member] \in Share /\ share \in [Members -> Share \cup {None}]
    BY <2>1 DEF Inv, TypeOK
  <2>3. UNCHANGED <<mail, force>> /\ acks' \subseteq acks
    BY <1>11 DEF Acknowledge
  <2>4. CASE UNCHANGED share
    BY <1>1, <2>3, <2>4
  <2>5. CASE share' = [share EXCEPT ![u.member].applied = u.rev, ![u.member].outstanding = u.rate]
    <3>1. /\ \A m \in Members : m # u.member => share'[m] = share[m]
          /\ share'[u.member].desired = share[u.member].desired
          /\ share'[u.member].outstanding = u.rate
      BY <2>1, <2>2, <2>5 DEF Share
    <3> QED BY <2>1, <2>3, <3>1 DEF RatesValid
  <2> QED BY <1>11, <2>4, <2>5 DEF Acknowledge
<1>12. ASSUME NEW rate \in Bounds, SetRateBudget(rate) PROVE RatesValid'
  BY <1>1, <1>12 DEF SetRateBudget
<1>13. CASE Lose
  BY <1>1, <1>13 DEF Lose, ledger
<1> QED BY <1>3, <1>4, <1>5, <1>6, <1>7, <1>8, <1>9, <1>10, <1>11, <1>12, <1>13 DEF Next

\* All rates are valid at all times.
LEMMA Validity == Spec => [](Inv /\ RatesValid)
<1>1. Init => RatesValid
  BY DEF Init, RatesValid, ValidRate, Blocked, Rate
<1>2. (Inv /\ RatesValid) /\ [Next]_vars => (Inv /\ RatesValid)'
  BY NextInv, NextValid
<1> QED BY InitInv, <1>1, <1>2, PTL DEF Spec

\* When RateBudgetPending denies that anything is pending, the nodes together run within the bound
\* of the pool: for any number of placements the ledger's sum bounds the sum of what is in force.
THEOREM PoolBoundHolds == Spec => []BoundHolds
<1>1. Inv /\ RatesValid => BoundHolds
  <2> SUFFICES ASSUME Inv, RatesValid, ~Pending
               PROVE  Fits(bound, [m \in Members |-> force[m].rate], Members)
    BY DEF BoundHolds
  <2> DEFINE held == [m \in Holders |-> share[m].outstanding]
             run == [m \in Members |-> force[m].rate]
  <2>1. Fits(bound, held, Holders)
    BY DEF Pending
  <2>2. CASE bound.mode = "Unlimited"
    BY <2>2 DEF Fits
  <2>3. CASE bound.mode # "Unlimited"
    <3>1. /\ \A m \in Holders : held[m].mode # "Blocked" => held[m].mode = "Limited" /\ bound.mode # "Blocked"
          /\ Total([m \in Holders |-> held[m].bits], Holders) <= bound.bits
          /\ Total([m \in Holders |-> held[m].burst], Holders) <= bound.burst
      BY <2>1, <2>3 DEF Fits
    <3>2. Holders \in SUBSET Members /\ IsFiniteSet(Members) /\ IsFiniteSet(Holders)
      BY SharesAssumption, FS_Subset DEF Holders
    <3>3. ASSUME NEW m \in Members
          PROVE  /\ run[m] \in Rate /\ ValidRate(run[m])
                 /\ m \in Holders => held[m] \in Rate /\ ValidRate(held[m]) /\ AtMost(run[m], held[m])
                 /\ m \notin Holders => run[m] = Blocked
      BY DEF RatesValid, ValidRate, Inv, SoundMember, Holders
    <3>4. ASSUME NEW m \in Members, run[m].mode # "Blocked"
          PROVE  run[m].mode = "Limited" /\ bound.mode # "Blocked"
      <4>1. run[m] # Blocked
        BY <3>4 DEF Blocked
      <4>2. m \in Holders /\ ValidRate(held[m]) /\ ValidRate(run[m]) /\ AtMost(run[m], held[m])
        BY <3>3, <4>1
      <4>3. held[m].mode # "Unlimited"
        BY <3>1, <4>2
      <4> HIDE DEF run, held
      <4> QED BY <3>1, <3>4, <4>2, <4>3, AtMostSizes
    <3>5. ASSUME NEW m \in Holders
          PROVE  run[m].bits <= held[m].bits /\ run[m].burst <= held[m].burst
      <4>1. ValidRate(held[m]) /\ ValidRate(run[m]) /\ AtMost(run[m], held[m])
        BY <3>2, <3>3
      <4>2. held[m].mode # "Unlimited"
        BY <3>1
      <4> HIDE DEF run, held
      <4> QED BY <4>1, <4>2, AtMostSizes
    <3> DEFINE hb == [m \in Holders |-> held[m].bits]
               hu == [m \in Holders |-> held[m].burst]
               rb == [m \in Members |-> run[m].bits]
               ru == [m \in Members |-> run[m].burst]
    <3>6. Counts(hb, Holders) /\ Counts(hu, Holders)
      BY <3>2, <3>3 DEF Counts, Rate
    <3>7. Counts(rb, Members) /\ Counts(ru, Members) /\ Counts(rb, Holders) /\ Counts(ru, Holders)
      BY <3>2, <3>3 DEF Counts, Rate
    <3>8. \A m \in Holders : rb[m] <= hb[m] /\ ru[m] <= hu[m]
      BY <3>2, <3>5
    <3>9. \A m \in Members \ Holders : rb[m] = 0 /\ ru[m] = 0
      <4>1. \A m \in Members \ Holders : run[m] = Blocked
        BY <3>3
      <4> HIDE DEF run
      <4> QED BY <4>1 DEF Blocked
    <3>10. bound.bits \in Nat /\ bound.burst \in Nat
      BY SharesAssumption DEF Inv, TypeOK, ValidRate, Rate
    <3>11. Total(hb, Holders) <= bound.bits /\ Total(hu, Holders) <= bound.burst
      BY <3>1
    <3> HIDE DEF hb, hu, rb, ru
    <3>12. Total(rb, Members) = Total(rb, Holders) /\ Total(ru, Members) = Total(ru, Holders)
      BY <3>2, <3>7, <3>9, TotalZeros
    <3>13. Total(rb, Holders) <= Total(hb, Holders) /\ Total(ru, Holders) <= Total(hu, Holders)
      BY <3>6, <3>7, <3>8, TotalMonotone
    <3>14. /\ Total(rb, Holders) \in Nat /\ Total(hb, Holders) \in Nat
           /\ Total(ru, Holders) \in Nat /\ Total(hu, Holders) \in Nat
      BY <3>6, <3>7, TotalType
    <3>15. Total(rb, Members) <= bound.bits /\ Total(ru, Members) <= bound.burst
      BY <3>10, <3>11, <3>12, <3>13, <3>14
    <3>16. /\ Total([m \in Members |-> run[m].bits], Members) <= bound.bits
           /\ Total([m \in Members |-> run[m].burst], Members) <= bound.burst
      BY <3>15 DEF rb, ru
    <3> HIDE DEF run
    <3>17. Fits(bound, run, Members)
      BY <3>4, <3>16 DEF Fits
    <3> QED BY <3>17 DEF run
  <2> QED BY <2>2, <2>3
<1> QED BY <1>1, Validity, PTL
=============================================================================
