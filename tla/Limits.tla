------------------------------- MODULE Limits -------------------------------
(***************************************************************************)
(* The policy of one grant and the arithmetic of its spending authority    *)
(* (internal/node/limits).  A policy carries three independent counters:   *)
(* its revision (the deployment it came with), its authority revision (an  *)
(* online policy update) and its credit revision (an online credit         *)
(* update).  The operators below decide which policy may follow which, how *)
(* many bytes an account may still admit, and how far ahead of the         *)
(* admitted bytes the durable reservation is written.                      *)
(***************************************************************************)
EXTENDS Integers

CONSTANTS
    Terms,                    \* identities of a client's accounting terms
    MaxUint64,                \* the largest counter value (2^64 - 1 in the code)
    MinimumReservationBlock,  \* 256 KiB in the code
    MaximumReservationBlock   \* 8 MiB in the code

ASSUME LimitsAssumption ==
    /\ MaxUint64 \in Nat \ {0}
    /\ MinimumReservationBlock \in Nat \ {0}
    /\ MaximumReservationBlock \in Nat \ {0}
    /\ MinimumReservationBlock <= MaximumReservationBlock
    /\ MaximumReservationBlock <= MaxUint64

Uint64 == 0 .. MaxUint64
MaxInt64 == MaxUint64 \div 2

Direction == {"Upload", "Download"}

Rate == [mode : {"Blocked", "Limited", "Unlimited"}, bps : Nat, burst : Nat]

Policy == [ term              : Terms,
            revision          : Uint64,
            authorityRevision : Uint64,
            enabled           : BOOLEAN,
            expires           : Nat,
            quotaUnlimited    : BOOLEAN,
            creditCeiling     : Uint64,
            creditRevision    : Uint64,
            upload            : Rate,
            download          : Rate ]

RateOf(p, dir) == IF dir = "Upload" THEN p.upload ELSE p.download

\* uint64 addition, which wraps.
Add64(m, n) == IF m + n > MaxUint64 THEN m + n - (MaxUint64 + 1) ELSE m + n

ValidRate(r) ==
    IF r.mode = "Limited" THEN r.bps # 0 /\ r.burst # 0
                          ELSE r.bps = 0 /\ r.burst = 0

Validate(p) ==
    /\ p.revision # 0
    /\ ValidRate(p.upload) /\ ValidRate(p.download)
    /\ p.quotaUnlimited => p.creditCeiling = 0

-----------------------------------------------------------------------------
(***************************************************************************)
(* Which policy may follow which.                                          *)
(***************************************************************************)

\* Only the credit moves, and both its revision and its ceiling go up.
CreditAdvance(before, after) ==
    /\ ~before.quotaUnlimited
    /\ after.creditRevision > before.creditRevision
    /\ after.creditCeiling > before.creditCeiling
    /\ after = [before EXCEPT !.creditRevision = after.creditRevision,
                              !.creditCeiling  = after.creditCeiling]

\* Re-applying the deployment a grant came with keeps the credit it received
\* online since.
RetainCredit(base, persisted) ==
    IF /\ base.revision = persisted.revision
       /\ base.creditRevision < persisted.creditRevision
       /\ base.creditCeiling <= persisted.creditCeiling
       /\ persisted = [base EXCEPT !.creditRevision = persisted.creditRevision,
                                   !.creditCeiling  = persisted.creditCeiling]
    THEN persisted
    ELSE base

\* An online policy update: the authority revision goes up, the rates may
\* change, the grant may be disabled but not enabled, credit may only rise.
AuthorityAdvance(before, after) ==
    /\ after.authorityRevision > before.authorityRevision
    /\ after.enabled => before.enabled
    /\ after.creditRevision >= before.creditRevision
    /\ after.creditCeiling >= before.creditCeiling
    /\ after.creditRevision = before.creditRevision
         => after.creditCeiling = before.creditCeiling
    /\ after = [before EXCEPT !.authorityRevision = after.authorityRevision,
                              !.enabled        = after.enabled,
                              !.upload         = after.upload,
                              !.download       = after.download,
                              !.creditRevision = after.creditRevision,
                              !.creditCeiling  = after.creditCeiling]

\* The policy an online update leads to: an update that was overtaken by a
\* newer credit keeps the newer credit.
MergeAuthority(current, desired) ==
    IF desired.creditRevision < current.creditRevision
    THEN [desired EXCEPT !.creditRevision = current.creditRevision,
                         !.creditCeiling  = current.creditCeiling]
    ELSE desired

MergeAllowed(current, desired) ==
    /\ desired.authorityRevision \in 1 .. MaxInt64
    /\ desired.creditRevision \in 1 .. MaxInt64
    /\ desired.creditCeiling <= MaxInt64
    /\ Validate(desired)
    /\ desired.term = current.term
    /\ desired.revision = current.revision
    /\ desired.expires = current.expires
    /\ desired.quotaUnlimited = current.quotaUnlimited
    /\ desired.enabled => current.enabled
    /\ desired.creditRevision < current.creditRevision
         => desired.creditCeiling <= current.creditCeiling
    /\ LET merged == MergeAuthority(current, desired)
       IN  merged = current \/ AuthorityAdvance(current, merged)

\* applyLocked accepts p over the account's policy q.
\* Mutant: a newer deployment may take credit back.
PolicyFollowsNoCredit(q, p) ==
    /\ p.term = q.term
    /\ p.authorityRevision >= q.authorityRevision
    /\ p.revision >= q.revision
    /\ p.revision = q.revision
         => p = q \/ CreditAdvance(q, p) \/ AuthorityAdvance(q, p)

PolicyFollows(q, p) ==
    /\ p.term = q.term
    /\ p.authorityRevision >= q.authorityRevision
    /\ p.creditRevision >= q.creditRevision
    /\ p.revision >= q.revision
    /\ p.revision = q.revision
         => p = q \/ CreditAdvance(q, p) \/ AuthorityAdvance(q, p)
    /\ p.creditRevision # 0 \/ q.creditRevision # 0
         => /\ p.creditCeiling >= q.creditCeiling
            /\ p.creditRevision = q.creditRevision
                 => p.creditCeiling = q.creditCeiling
    /\ p.authorityRevision # 0 \/ q.authorityRevision # 0
         => p.quotaUnlimited = q.quotaUnlimited

-----------------------------------------------------------------------------
(***************************************************************************)
(* An account and the bytes it may admit.                                  *)
(***************************************************************************)

Account == [ quarantined        : BOOLEAN,
             policy             : Policy,
             uploaded           : Uint64,
             downloaded         : Uint64,
             previouslyReserved : Uint64,
             measured           : [Direction -> Uint64],
             reserved           : Uint64 ]  \* backing.reserved

\* Mutant: a restart forgets the bytes reserved before it.
RestoreForgets(policy, previouslyReserved, quarantined) ==
    [ quarantined |-> quarantined, policy |-> policy,
      uploaded |-> 0, downloaded |-> 0, previouslyReserved |-> 0,
      measured |-> [dir \in Direction |-> 0],
      reserved |-> previouslyReserved ]

Restore(policy, previouslyReserved, quarantined) ==
    [ quarantined |-> quarantined, policy |-> policy,
      uploaded |-> 0, downloaded |-> 0,
      previouslyReserved |-> previouslyReserved,
      measured |-> [dir \in Direction |-> 0],
      reserved |-> previouslyReserved ]

Total(a) == a.previouslyReserved + a.uploaded + a.downloaded

Expired(p, now) == p.expires # 0 /\ now >= p.expires

\* Mutant: allowed without the overflow test.
AllowedOverflow(a, dir, n, now) ==
    /\ ~a.quarantined /\ a.policy.enabled /\ RateOf(a.policy, dir).mode # "Blocked"
    /\ ~Expired(a.policy, now)
    /\ ~a.policy.quotaUnlimited =>
         /\ Total(a) <= a.policy.creditCeiling
         /\ n <= a.policy.creditCeiling - Total(a)

\* allowed: the account may admit n more bytes in direction dir at time now.
Allowed(a, dir, n, now) ==
    /\ ~a.quarantined /\ a.policy.enabled /\ RateOf(a.policy, dir).mode # "Blocked"
    /\ ~Expired(a.policy, now)
    /\ n <= MaxUint64 - Total(a)
    /\ ~a.policy.quotaUnlimited =>
         /\ Total(a) <= a.policy.creditCeiling
         /\ n <= a.policy.creditCeiling - Total(a)

Least(m, n) == IF m <= n THEN m ELSE n
Greatest(m, n) == IF m >= n THEN m ELSE n

\* TakeUpTo shortens a request to the credit left and to the bucket's burst.
UpTo(a, dir, requested) ==
    LET byCredit == IF a.policy.quotaUnlimited THEN requested
                    ELSE Least(requested, a.policy.creditCeiling - Total(a))
        rate == RateOf(a.policy, dir)
    IN  IF rate.mode = "Limited" THEN Least(byCredit, rate.burst) ELSE byCredit

\* Take refuses a request larger than the bucket's burst; whether the bucket
\* holds enough tokens now is left to the caller's scheduling.
FitsBurst(a, dir, n) ==
    RateOf(a.policy, dir).mode = "Limited" => n <= RateOf(a.policy, dir).burst

Admit(a, dir, n) ==
    IF dir = "Upload" THEN [a EXCEPT !.uploaded = Add64(@, n)]
                      ELSE [a EXCEPT !.downloaded = Add64(@, n)]

\* Record never measures more than was admitted.
Record(a, dir, n) ==
    LET admitted == IF dir = "Upload" THEN a.uploaded ELSE a.downloaded
    IN  [a EXCEPT !.measured[dir] = Add64(@, Least(n, admitted - @))]

\* How far past the bytes asked for one durable reservation reaches: 100 ms
\* of traffic at the policy's rate, within the two bounds.
ReservationSize(p) ==
    IF p.upload.mode = "Unlimited" \/ p.download.mode = "Unlimited"
    THEN MaximumReservationBlock
    ELSE Greatest(MinimumReservationBlock,
                  Least(MaximumReservationBlock, (p.upload.bps + p.download.bps) \div 80))

\* Mutant: the first reservation takes the whole ceiling.
NextReservationWhole(p, total) ==
    IF p.quotaUnlimited THEN MaxUint64 ELSE p.creditCeiling

\* The durable high-water mark a reservation of total bytes writes.
NextReservation(p, total) ==
    LET block == ReservationSize(p)
        next == IF total <= MaxUint64 - block THEN total + block ELSE total
    IN  IF p.quotaUnlimited THEN next ELSE Least(next, p.creditCeiling)
=============================================================================
