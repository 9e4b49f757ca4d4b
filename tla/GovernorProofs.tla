--------------------------- MODULE GovernorProofs ---------------------------
(***************************************************************************)
(* Proofs about Governor, for every set of grants, clients and policies,   *)
(* every width of the counters and every reservation block: what a grant   *)
(* admits and keeps on disk, and at the end who serves a client.           *)
(***************************************************************************)
EXTENDS Governor, TLAPS

(***************************************************************************)
(* The state of one grant: its record r, its account a, the bytes s it     *)
(* admitted and the largest ceiling u it was stored with.                  *)
(***************************************************************************)
SoundRecord(r, s, u) ==
    /\ r \in StoredRecord
    /\ ValidGrant(r)
    /\ s <= r.reserved
    /\ r.reserved <= u
    /\ CeilingOf(r.policy) <= u

SoundAccount(r, a, s) ==
    /\ a \in Account
    /\ r.policy = a.policy
    /\ r.reserved = a.reserved
    /\ s <= Total(a)
    /\ Total(a) <= r.reserved
    /\ r.reserved <= Total(a) + MaximumReservationBlock
    /\ a.measured["Upload"] <= a.uploaded
    /\ a.measured["Download"] <= a.downloaded

SoundGrant(r, a, s, u) ==
    /\ s \in Uint64 /\ u \in Uint64
    /\ r = None => a = None /\ s = 0
    /\ r # None => SoundRecord(r, s, u)
    /\ a # None => SoundAccount(r, a, s)

-----------------------------------------------------------------------------
(***************************************************************************)
(* What the operators on records and accounts return.                      *)
(***************************************************************************)

\* StorePolicy replaces the policy of a record and keeps the rest.
LEMMA WithPolicyType ==
    ASSUME NEW r \in StoredRecord, NEW p \in Policy
    PROVE  /\ WithPolicy(r, p) \in StoredRecord
           /\ WithPolicy(r, p).policy = p
           /\ WithPolicy(r, p).client = r.client
           /\ WithPolicy(r, p).reserved = r.reserved
           /\ WithPolicy(r, p).suspended = r.suspended
           /\ p.authorityRevision # 0 => WithPolicy(r, p).rateRevision = p.authorityRevision
BY DEF WithPolicy, StoredRecord, Policy

\* The account keeps its counters when it takes a policy.
LEMMA AccountPolicyType ==
    ASSUME NEW a \in Account, NEW p \in Policy
    PROVE  LET b == [a EXCEPT !.policy = p]
           IN  /\ b \in Account
               /\ b.policy = p
               /\ b.reserved = a.reserved
               /\ Total(b) = Total(a)
               /\ b.measured = a.measured
               /\ b.uploaded = a.uploaded /\ b.downloaded = a.downloaded
               /\ b.quarantined = a.quarantined
BY DEF Account, Total

\* A restored account counts its whole reservation as spent.
LEMMA RestoreType ==
    ASSUME NEW p \in Policy, NEW n \in Uint64, NEW q \in BOOLEAN
    PROVE  LET a == Restore(p, n, q)
           IN  /\ a \in Account
               /\ a.policy = p
               /\ a.reserved = n
               /\ Total(a) = n
               /\ a.measured["Upload"] = 0 /\ a.measured["Download"] = 0
               /\ a.uploaded = 0 /\ a.downloaded = 0
               /\ a.quarantined = q
<1>. n \in Nat /\ 0 \in Uint64
  BY LimitsAssumption DEF Uint64
<1>. QED BY DEF Restore, Account, Total, Direction

\* A ceiling is a counter value.
LEMMA CeilingType ==
    ASSUME NEW p \in Policy
    PROVE  CeilingOf(p) \in Uint64
BY LimitsAssumption DEF CeilingOf, Policy, Uint64

\* The larger of two counter values.
LEMMA GreatestType ==
    ASSUME NEW m \in Uint64, NEW n \in Uint64
    PROVE  /\ Greatest(m, n) \in Uint64
           /\ m <= Greatest(m, n)
           /\ n <= Greatest(m, n)
BY LimitsAssumption DEF Greatest, Uint64

\* The policy a re-applied deployment leads to is one of the two it merges.
LEMMA RetainCreditType ==
    ASSUME NEW base \in Policy, NEW persisted \in Policy,
           Validate(base), Validate(persisted)
    PROVE  RetainCredit(base, persisted) \in Policy /\ Validate(RetainCredit(base, persisted))
BY DEF RetainCredit

\* A credit update of a limited policy is a valid policy.
LEMMA CreditPolicyType ==
    ASSUME NEW q \in Policy, Validate(q), NEW m \in Uint64, NEW n \in Uint64,
           LET p == [q EXCEPT !.creditRevision = m, !.creditCeiling = n]
           IN  p = q \/ CreditAdvance(q, p)
    PROVE  LET p == [q EXCEPT !.creditRevision = m, !.creditCeiling = n]
           IN  p \in Policy /\ Validate(p)
<1>. DEFINE p == [q EXCEPT !.creditRevision = m, !.creditCeiling = n]
<1>1. p \in Policy
  BY DEF Policy
<1>2. /\ p.revision = q.revision /\ p.upload = q.upload /\ p.download = q.download
      /\ p.quotaUnlimited = q.quotaUnlimited
  BY DEF Policy
<1>3. CASE p = q
  BY <1>1, <1>3
<1>4. CASE CreditAdvance(q, p)
  <2>1. ~q.quotaUnlimited
    BY <1>4 DEF CreditAdvance
  <2>. HIDE DEF p
  <2>2. Validate(p)
    BY <1>2, <2>1 DEF Validate
  <2>. QED BY <1>1, <2>2 DEF p
<1>5. p = q \/ CreditAdvance(q, p)
  OBVIOUS
<1>. QED BY <1>3, <1>4, <1>5

\* An authority update, merged with the credit received since, is a valid policy.
LEMMA MergeAuthorityType ==
    ASSUME NEW q \in Policy, Validate(q), NEW d \in Policy, MergeAllowed(q, d)
    PROVE  /\ MergeAuthority(q, d) \in Policy /\ Validate(MergeAuthority(q, d))
           /\ MergeAuthority(q, d).term = d.term
           /\ MergeAuthority(q, d).enabled = d.enabled
<1>1. Validate(d) /\ d.quotaUnlimited = q.quotaUnlimited
  BY DEF MergeAllowed
<1>2. CASE d.creditRevision < q.creditRevision
  <2>. DEFINE p == [d EXCEPT !.creditRevision = q.creditRevision,
                             !.creditCeiling  = q.creditCeiling]
  <2>1. /\ p \in Policy
        /\ p.revision = d.revision /\ p.upload = d.upload /\ p.download = d.download
        /\ p.quotaUnlimited = d.quotaUnlimited /\ p.creditCeiling = q.creditCeiling
        /\ p.term = d.term /\ p.enabled = d.enabled
    BY DEF Policy
  <2>2. MergeAuthority(q, d) = p
    BY <1>2 DEF MergeAuthority
  <2>. HIDE DEF p
  <2>3. Validate(p)
    BY <1>1, <2>1 DEF Validate
  <2>. QED BY <2>1, <2>2, <2>3
<1>3. CASE ~(d.creditRevision < q.creditRevision)
  BY <1>1, <1>3 DEF MergeAuthority
<1>. QED BY <1>2, <1>3

-----------------------------------------------------------------------------
(***************************************************************************)
(* How the state of one grant may move.                                    *)
(***************************************************************************)

\* A new policy, on disk and in memory.
LEMMA PolicyMove ==
    ASSUME NEW r, NEW a, NEW s, NEW u, SoundGrant(r, a, s, u), r # None, a # None,
           NEW p \in Policy, Validate(p),
           WithPolicy(r, p) # None, [a EXCEPT !.policy = p] # None
    PROVE  SoundGrant(WithPolicy(r, p), [a EXCEPT !.policy = p], s, Greatest(u, CeilingOf(p)))
<1>. DEFINE q == WithPolicy(r, p)
            b == [a EXCEPT !.policy = p]
            w == Greatest(u, CeilingOf(p))
<1>1. SoundRecord(r, s, u) /\ SoundAccount(r, a, s) /\ s \in Uint64 /\ u \in Uint64
  BY DEF SoundGrant
<1>2. r \in StoredRecord /\ a \in Account
  BY <1>1 DEF SoundRecord, SoundAccount
<1>3. /\ q \in StoredRecord /\ q.policy = p
      /\ q.reserved = r.reserved
      /\ p.authorityRevision # 0 => q.rateRevision = p.authorityRevision
  BY <1>2, WithPolicyType
<1>4. /\ b \in Account /\ b.policy = p /\ b.reserved = a.reserved /\ Total(b) = Total(a)
      /\ b.measured = a.measured /\ b.uploaded = a.uploaded /\ b.downloaded = a.downloaded
  BY <1>2, AccountPolicyType
<1>5. w \in Uint64 /\ u <= w /\ CeilingOf(p) <= w
  BY <1>1, CeilingType, GreatestType
<1>6. r.reserved \in Uint64
  BY <1>2 DEF StoredRecord
<1>. HIDE DEF q, b, w
<1>7. SoundRecord(q, s, w)
  <2>1. ValidGrant(q)
    BY <1>3 DEF ValidGrant
  <2>2. s <= q.reserved /\ q.reserved <= w
    BY <1>1, <1>3, <1>5, <1>6 DEF SoundRecord, Uint64
  <2>. QED BY <1>3, <1>5, <2>1, <2>2 DEF SoundRecord
<1>8. SoundAccount(q, b, s)
  BY <1>1, <1>3, <1>4 DEF SoundAccount
<1>. QED BY <1>1, <1>5, <1>7, <1>8 DEF SoundGrant, q, b, w

\* A policy that is the account's own changes nothing.
LEMMA PolicyStays ==
    ASSUME NEW r, NEW a, NEW s, NEW u, SoundGrant(r, a, s, u), r # None, a # None
    PROVE  /\ SoundGrant(r, [a EXCEPT !.policy = a.policy], s, Greatest(u, CeilingOf(a.policy)))
           /\ [a EXCEPT !.policy = a.policy] = a
<1>1. SoundRecord(r, s, u) /\ SoundAccount(r, a, s) /\ s \in Uint64 /\ u \in Uint64
  BY DEF SoundGrant
<1>2. a \in Account /\ a.policy \in Policy /\ CeilingOf(a.policy) <= u
  BY <1>1 DEF SoundRecord, SoundAccount, Account
<1>3. [a EXCEPT !.policy = a.policy] = a
  BY <1>2 DEF Account
<1>4. Greatest(u, CeilingOf(a.policy)) = u
  BY <1>1, <1>2, CeilingType, LimitsAssumption DEF Greatest, Uint64
<1>. QED BY <1>3, <1>4

\* A new grant.
LEMMA CreateMove ==
    ASSUME NEW grant \in GrantInput, ValidGrant(grant), NEW u \in Uint64,
           NewRecord(grant) # None, Restore(grant.policy, 0, FALSE) # None
    PROVE  SoundGrant(NewRecord(grant), Restore(grant.policy, 0, FALSE), 0,
                      Greatest(u, CeilingOf(grant.policy)))
<1>. DEFINE r == NewRecord(grant)
            a == Restore(grant.policy, 0, FALSE)
            w == Greatest(u, CeilingOf(grant.policy))
<1>1. 0 \in Uint64
  BY LimitsAssumption DEF Uint64
<1>2. grant.policy \in Policy
  BY DEF GrantInput
<1>3. /\ r \in StoredRecord /\ r.policy = grant.policy /\ r.reserved = 0
      /\ r.rateRevision = grant.rateRevision
  BY <1>1, <1>2 DEF NewRecord, StoredRecord, GrantInput
<1>4. /\ a \in Account /\ a.policy = grant.policy /\ a.reserved = 0 /\ Total(a) = 0
      /\ a.measured["Upload"] = 0 /\ a.measured["Download"] = 0
      /\ a.uploaded = 0 /\ a.downloaded = 0
  BY <1>1, <1>2, RestoreType
<1>5. w \in Uint64 /\ CeilingOf(grant.policy) <= w
  BY <1>2, CeilingType, GreatestType
<1>. HIDE DEF r, a, w
<1>6. SoundRecord(r, 0, w)
  BY <1>1, <1>3, <1>5, LimitsAssumption DEF SoundRecord, ValidGrant, Uint64
<1>7. SoundAccount(r, a, 0)
  BY <1>1, <1>3, <1>4, LimitsAssumption DEF SoundAccount
<1>. QED BY <1>1, <1>5, <1>6, <1>7 DEF SoundGrant, r, a, w

\* A reservation covers the bytes asked for, stays a counter value, stays
\* within a limited ceiling and runs at most one block ahead.
LEMMA NextReservationBounds ==
    ASSUME NEW p \in Policy, NEW total \in Uint64,
           ~p.quotaUnlimited => total <= p.creditCeiling
    PROVE  /\ NextReservation(p, total) \in Uint64
           /\ total <= NextReservation(p, total)
           /\ NextReservation(p, total) <= total + MaximumReservationBlock
           /\ NextReservation(p, total) <= CeilingOf(p)
<1>1. /\ ReservationSize(p) \in Nat
      /\ ReservationSize(p) <= MaximumReservationBlock
  <2>1. (p.upload.bps + p.download.bps) \div 80 \in Nat
    BY DEF Policy, Rate
  <2>. HIDE DEF Policy
  <2>. QED BY <2>1, LimitsAssumption DEF ReservationSize, Greatest, Least
<1>2. p.quotaUnlimited \in BOOLEAN /\ p.creditCeiling \in Uint64
  BY DEF Policy
<1>. QED BY <1>1, <1>2, LimitsAssumption DEF NextReservation, CeilingOf, Least, Uint64

\* What TakeUpTo asks for is a positive number of bytes.
LEMMA UpToType ==
    ASSUME NEW a \in Account, NEW dir \in Direction, NEW m \in Nat \ {0}, NEW t,
           Allowed(a, dir, 1, t)
    PROVE  UpTo(a, dir, m) \in Nat
<1>1. /\ RateOf(a.policy, dir).burst \in Nat /\ a.policy.creditCeiling \in Nat
      /\ a.policy.quotaUnlimited \in BOOLEAN
  BY LimitsAssumption DEF Account, Policy, Rate, RateOf, Uint64
<1>2. Total(a) \in Nat
  BY LimitsAssumption DEF Account, Total, Uint64
<1>3. ~a.policy.quotaUnlimited => Total(a) <= a.policy.creditCeiling
  BY DEF Allowed
<1>. QED BY <1>1, <1>2, <1>3 DEF UpTo, Least

\* Admitting n bytes adds n to the total: the overflow test of allowed keeps
\* the counters from wrapping.
LEMMA AdmitTotal ==
    ASSUME NEW a \in Account, NEW dir \in Direction, NEW n \in Nat,
           n <= MaxUint64 - Total(a), NEW m \in Uint64
    PROVE  LET b == [Admit(a, dir, n) EXCEPT !.reserved = m]
           IN  /\ b \in Account
               /\ Total(b) = Total(a) + n
               /\ b.policy = a.policy /\ b.quarantined = a.quarantined
               /\ b.reserved = m /\ b.measured = a.measured
               /\ b.uploaded >= a.uploaded /\ b.downloaded >= a.downloaded
<1>1. /\ a.previouslyReserved \in Nat /\ a.uploaded \in Nat /\ a.downloaded \in Nat
      /\ MaxUint64 \in Nat
  BY LimitsAssumption DEF Account, Uint64
<1>2. CASE dir = "Upload"
  <2>1. Admit(a, dir, n) = [a EXCEPT !.uploaded = a.uploaded + n]
    BY <1>1, <1>2 DEF Admit, Add64, Total, Account
  <2>2. a.uploaded + n \in Uint64
    BY <1>1 DEF Total, Uint64
  <2>. DEFINE b == [[a EXCEPT !.uploaded = a.uploaded + n] EXCEPT !.reserved = m]
  <2>3. /\ b \in Account /\ b.uploaded = a.uploaded + n /\ b.downloaded = a.downloaded
        /\ b.previouslyReserved = a.previouslyReserved /\ b.policy = a.policy
        /\ b.quarantined = a.quarantined /\ b.measured = a.measured /\ b.reserved = m
    BY <2>2 DEF Account
  <2>. HIDE DEF b
  <2>4. Total(b) = Total(a) + n /\ b.uploaded >= a.uploaded /\ b.downloaded >= a.downloaded
    BY <1>1, <2>3 DEF Total
  <2>. QED BY <2>1, <2>3, <2>4 DEF b
<1>3. CASE dir = "Download"
  <2>1. Admit(a, dir, n) = [a EXCEPT !.downloaded = a.downloaded + n]
    BY <1>1, <1>3 DEF Admit, Add64, Total, Account
  <2>2. a.downloaded + n \in Uint64
    BY <1>1 DEF Total, Uint64
  <2>. DEFINE b == [[a EXCEPT !.downloaded = a.downloaded + n] EXCEPT !.reserved = m]
  <2>3. /\ b \in Account /\ b.downloaded = a.downloaded + n /\ b.uploaded = a.uploaded
        /\ b.previouslyReserved = a.previouslyReserved /\ b.policy = a.policy
        /\ b.quarantined = a.quarantined /\ b.measured = a.measured /\ b.reserved = m
    BY <2>2 DEF Account
  <2>. HIDE DEF b
  <2>4. Total(b) = Total(a) + n /\ b.uploaded >= a.uploaded /\ b.downloaded >= a.downloaded
    BY <1>1, <2>3 DEF Total
  <2>. QED BY <2>1, <2>3, <2>4 DEF b
<1>. QED BY <1>2, <1>3 DEF Direction

\* An admission, within the reservation or with a new one.
LEMMA TakeMove ==
    ASSUME NEW r, NEW a, NEW s, NEW u, SoundGrant(r, a, s, u), r # None, a # None,
           NEW dir \in Direction, NEW n \in Nat, NEW t, Allowed(a, dir, n, t),
           NEW m,
           \/ Total(a) + n <= a.reserved /\ m = r.reserved
           \/ ~(Total(a) + n <= a.reserved) /\ m = NextReservation(a.policy, Total(a) + n),
           [r EXCEPT !.reserved = m] # None,
           [Admit(a, dir, n) EXCEPT !.reserved = m] # None
    PROVE  SoundGrant([r EXCEPT !.reserved = m], [Admit(a, dir, n) EXCEPT !.reserved = m],
                      s + n, u)
<1>. DEFINE q == [r EXCEPT !.reserved = m]
            b == [Admit(a, dir, n) EXCEPT !.reserved = m]
            total == Total(a) + n
<1>1. SoundRecord(r, s, u) /\ SoundAccount(r, a, s) /\ s \in Uint64 /\ u \in Uint64
  BY DEF SoundGrant
<1>2. /\ r \in StoredRecord /\ a \in Account /\ r.policy = a.policy /\ r.policy \in Policy
      /\ r.reserved = a.reserved /\ r.reserved \in Uint64
      /\ s <= Total(a) /\ Total(a) <= r.reserved
      /\ r.reserved <= Total(a) + MaximumReservationBlock
      /\ r.reserved <= u /\ CeilingOf(r.policy) <= u
  BY <1>1 DEF SoundRecord, SoundAccount, StoredRecord
<1>3. Total(a) \in Nat
  BY <1>2, LimitsAssumption DEF Account, Total, Uint64
<1>4. /\ n <= MaxUint64 - Total(a) /\ total \in Uint64
      /\ ~a.policy.quotaUnlimited => total <= a.policy.creditCeiling
  <2>1. n <= MaxUint64 - Total(a)
    BY DEF Allowed
  <2>2. a.policy.creditCeiling \in Nat
    BY <1>2, LimitsAssumption DEF Policy, Uint64
  <2>3. ~a.policy.quotaUnlimited => n <= a.policy.creditCeiling - Total(a)
    BY DEF Allowed
  <2>. QED BY <1>3, <2>1, <2>2, <2>3, LimitsAssumption DEF Uint64
<1>5. /\ m \in Uint64 /\ total <= m /\ m <= total + MaximumReservationBlock /\ m <= u
  <2>1. CASE total <= a.reserved /\ m = r.reserved
    BY <1>1, <1>2, <1>3, <2>1, LimitsAssumption DEF Uint64
  <2>2. CASE ~(total <= a.reserved) /\ m = NextReservation(a.policy, total)
    <3>1. /\ m \in Uint64 /\ total <= m /\ m <= total + MaximumReservationBlock
          /\ m <= CeilingOf(a.policy)
      BY <1>2, <1>4, <2>2, NextReservationBounds
    <3>2. CeilingOf(a.policy) \in Uint64
      BY <1>2, CeilingType
    <3>. QED BY <1>1, <1>2, <3>1, <3>2 DEF Uint64
  <2>. QED BY <2>1, <2>2
<1>6. /\ q \in StoredRecord /\ q.policy = r.policy /\ q.reserved = m
      /\ q.rateRevision = r.rateRevision
  BY <1>2, <1>5 DEF StoredRecord
<1>7. /\ b \in Account /\ Total(b) = total /\ b.policy = a.policy /\ b.reserved = m
      /\ b.measured = a.measured /\ b.uploaded >= a.uploaded /\ b.downloaded >= a.downloaded
  BY <1>2, <1>4, <1>5, AdmitTotal
<1>8. s + n \in Uint64 /\ s + n <= total
  BY <1>1, <1>2, <1>3, <1>4, LimitsAssumption DEF Uint64
<1>. HIDE DEF q, b, total
<1>9. SoundRecord(q, s + n, u)
  <2>1. ValidGrant(q)
    BY <1>1, <1>6 DEF SoundRecord, ValidGrant
  <2>2. s + n <= m
    BY <1>4, <1>5, <1>8 DEF Uint64
  <2>. QED BY <1>2, <1>5, <1>6, <2>1, <2>2 DEF SoundRecord
<1>10. SoundAccount(q, b, s + n)
  <2>1. /\ a.measured["Upload"] <= a.uploaded /\ a.measured["Download"] <= a.downloaded
    BY <1>1 DEF SoundAccount
  <2>2. /\ b.measured["Upload"] \in Nat /\ b.measured["Download"] \in Nat
        /\ b.uploaded \in Nat /\ b.downloaded \in Nat
        /\ a.uploaded \in Nat /\ a.downloaded \in Nat
    BY <1>2, <1>7, LimitsAssumption DEF Account, Direction, Uint64
  <2>3. b.measured["Upload"] <= b.uploaded /\ b.measured["Download"] <= b.downloaded
    BY <1>7, <2>1, <2>2
  <2>. QED BY <1>2, <1>5, <1>6, <1>7, <1>8, <2>3 DEF SoundAccount
<1>. QED BY <1>1, <1>8, <1>9, <1>10 DEF SoundGrant, q, b

\* A measurement stays within the admitted bytes.
LEMMA MeasureMove ==
    ASSUME NEW r, NEW a, NEW s, NEW u, SoundGrant(r, a, s, u), r # None, a # None,
           NEW dir \in Direction, NEW n \in Nat
    PROVE  /\ SoundGrant(r, Record(a, dir, n), s, u)
           /\ Record(a, dir, n) \in Account
           /\ Record(a, dir, n).quarantined = a.quarantined
<1>1. SoundAccount(r, a, s) /\ a \in Account
  BY DEF SoundGrant, SoundAccount
<1>2. /\ a.uploaded \in Uint64 /\ a.downloaded \in Uint64
      /\ a.measured["Upload"] \in Uint64 /\ a.measured["Download"] \in Uint64
      /\ a.measured["Upload"] <= a.uploaded /\ a.measured["Download"] <= a.downloaded
      /\ a.measured \in [Direction -> Uint64]
  BY <1>1 DEF SoundAccount, Account, Direction
<1>. DEFINE admitted == IF dir = "Upload" THEN a.uploaded ELSE a.downloaded
            k == Add64(a.measured[dir], Least(n, admitted - a.measured[dir]))
            b == [a EXCEPT !.measured = [a.measured EXCEPT ![dir] = k]]
<1>3. k \in Uint64 /\ k <= admitted
  BY <1>2, LimitsAssumption DEF Add64, Least, Uint64, Direction
<1>4. Record(a, dir, n) = b
  BY <1>1 DEF Record
<1>. HIDE DEF k
<1>5. /\ b \in Account /\ b.policy = a.policy /\ b.reserved = a.reserved
      /\ b.uploaded = a.uploaded /\ b.downloaded = a.downloaded
      /\ b.previouslyReserved = a.previouslyReserved /\ b.quarantined = a.quarantined
      /\ b.measured = [a.measured EXCEPT ![dir] = k]
  BY <1>1, <1>2, <1>3 DEF Account
<1>. HIDE DEF b
<1>6. b.measured["Upload"] <= b.uploaded /\ b.measured["Download"] <= b.downloaded
  BY <1>2, <1>3, <1>5 DEF Direction
<1>7. Total(b) = Total(a)
  BY <1>5 DEF Total
<1>8. SoundAccount(r, b, s)
  BY <1>1, <1>5, <1>6, <1>7 DEF SoundAccount
<1>. QED BY <1>4, <1>5, <1>8 DEF SoundGrant

\* The suspension of a record and the quarantine of an account change
\* nothing else of it.
LEMMA SuspendMove ==
    ASSUME NEW r, NEW a, NEW s, NEW u, SoundGrant(r, a, s, u), r # None,
           [r EXCEPT !.suspended = TRUE] # None
    PROVE  SoundGrant([r EXCEPT !.suspended = TRUE], a, s, u)
<1>. DEFINE q == [r EXCEPT !.suspended = TRUE]
<1>1. r \in StoredRecord /\ SoundRecord(r, s, u)
  BY DEF SoundGrant, SoundRecord
<1>2. /\ q \in StoredRecord /\ q.policy = r.policy /\ q.reserved = r.reserved
      /\ q.rateRevision = r.rateRevision
  BY <1>1 DEF StoredRecord
<1>. HIDE DEF q
<1>3. SoundRecord(q, s, u)
  BY <1>1, <1>2 DEF SoundRecord, ValidGrant
<1>4. a # None => SoundAccount(q, a, s)
  BY <1>2 DEF SoundGrant, SoundAccount
<1>. QED BY <1>3, <1>4 DEF SoundGrant, q

LEMMA QuarantineMove ==
    ASSUME NEW r, NEW a, NEW s, NEW u, SoundGrant(r, a, s, u), a # None,
           [a EXCEPT !.quarantined = TRUE] # None
    PROVE  SoundGrant(r, [a EXCEPT !.quarantined = TRUE], s, u)
<1>. DEFINE b == [a EXCEPT !.quarantined = TRUE]
<1>1. a \in Account /\ SoundAccount(r, a, s)
  BY DEF SoundGrant, SoundAccount
<1>2. /\ b \in Account /\ b.policy = a.policy /\ b.reserved = a.reserved
      /\ b.uploaded = a.uploaded /\ b.downloaded = a.downloaded
      /\ b.previouslyReserved = a.previouslyReserved /\ b.measured = a.measured
  BY <1>1 DEF Account
<1>. HIDE DEF b
<1>3. SoundAccount(r, b, s)
  BY <1>1, <1>2 DEF SoundAccount, Total
<1>. QED BY <1>3 DEF SoundGrant, b

\* A restart from the record alone.
LEMMA RestoreMove ==
    ASSUME NEW r, NEW s, NEW u, SoundGrant(r, None, s, u), r # None,
           Restore(r.policy, r.reserved, r.suspended) # None
    PROVE  /\ SoundGrant(r, Restore(r.policy, r.reserved, r.suspended), s, u)
           /\ Restore(r.policy, r.reserved, r.suspended).quarantined = r.suspended
<1>. DEFINE b == Restore(r.policy, r.reserved, r.suspended)
<1>1. SoundRecord(r, s, u)
  BY DEF SoundGrant
<1>2. r.policy \in Policy /\ r.reserved \in Uint64 /\ r.suspended \in BOOLEAN
  BY <1>1 DEF SoundRecord, StoredRecord
<1>3. /\ b \in Account /\ b.policy = r.policy /\ b.reserved = r.reserved
      /\ Total(b) = r.reserved
      /\ b.measured["Upload"] = 0 /\ b.measured["Download"] = 0
      /\ b.uploaded = 0 /\ b.downloaded = 0 /\ b.quarantined = r.suspended
  BY <1>2, RestoreType
<1>. HIDE DEF b
<1>4. SoundAccount(r, b, s)
  BY <1>1, <1>2, <1>3, LimitsAssumption DEF SoundAccount, SoundRecord, Uint64
<1>. QED BY <1>3, <1>4 DEF SoundGrant, b

\* Records and accounts are never confused with the mark of an absent one.
LEMMA NoneApart ==
    /\ \A r \in StoredRecord : r # None
    /\ \A a \in Account : a # None
BY GovernorAssumption

-----------------------------------------------------------------------------
(***************************************************************************)
(* The inductive invariant: every grant is sound; the process, while up,   *)
(* has an account for every record; a suspended record's account is        *)
(* quarantined unless Reconcile is about to do so.                         *)
(***************************************************************************)
GrantsSound ==
    \A g \in Grants : SoundGrant(record[g], accounts[g], spent[g], authorised[g])

ProcessInv ==
    /\ ~running => job.step = "idle" /\ \A g \in Grants : accounts[g] = None
    /\ running => \A g \in Grants : record[g] # None => accounts[g] # None

QuarantineInv ==
    \A g \in Grants : accounts[g] # None /\ record[g].suspended =>
        accounts[g].quarantined \/ (StoreLocked /\ g \notin DOMAIN job.todo)

Inv == TypeOK /\ GrantsSound /\ ProcessInv /\ QuarantineInv

\* The type invariant follows from the soundness of the grants, given the
\* shape of the other variables.
Shape ==
    /\ DOMAIN record = Grants /\ record = [g \in Grants |-> record[g]]
    /\ DOMAIN accounts = Grants /\ accounts = [g \in Grants |-> accounts[g]]
    /\ DOMAIN spent = Grants /\ spent = [g \in Grants |-> spent[g]]
    /\ DOMAIN authorised = Grants /\ authorised = [g \in Grants |-> authorised[g]]
    /\ clients \in [Clients -> Grants \cup {None}]
    /\ running \in BOOLEAN
    /\ job = [step |-> job.step, todo |-> job.todo]
    /\ job.step \in {"idle", "quarantine", "apply"}
    /\ IsBatch(job.todo, GrantInput)
    /\ now \in 0 .. MaxNow

LEMMA TypeFromSound == Shape /\ GrantsSound => TypeOK
<1>. SUFFICES ASSUME Shape, GrantsSound PROVE TypeOK
  OBVIOUS
<1>1. \A g \in Grants : /\ record[g] \in StoredRecord \cup {None}
                        /\ accounts[g] \in Account \cup {None}
                        /\ spent[g] \in Uint64 /\ authorised[g] \in Uint64
  BY DEF GrantsSound, SoundGrant, SoundRecord, SoundAccount
<1>. QED BY <1>1 DEF Shape, TypeOK

LEMMA ShapeFromType ==
    ASSUME TypeOK
    PROVE  Shape
BY DEF TypeOK, Shape

\* Init establishes the invariant.
LEMMA InitInv ==
    ASSUME Init
    PROVE  Inv
<1>1. 0 \in Uint64 /\ 0 \in 0 .. MaxNow
  BY LimitsAssumption, GovernorAssumption DEF Uint64
<1>2. GrantsSound
  BY <1>1 DEF Init, GrantsSound, SoundGrant
<1>3. Shape
  <2>1. /\ job = [step |-> job.step, todo |-> job.todo]
        /\ job.step = "idle" /\ job.todo = <<>>
    BY DEF Init, Idle
  <2>2. IsBatch(job.todo, GrantInput)
    BY <2>1 DEF IsBatch
  <2>. QED BY <1>1, <2>1, <2>2 DEF Init, Shape
<1>4. ProcessInv /\ QuarantineInv
  BY DEF Init, ProcessInv, QuarantineInv, Idle
<1>. QED BY <1>2, <1>3, <1>4, TypeFromSound DEF Inv

\* Open restores sound accounts and the quarantine of the suspended ones.
LEMMA OpenStep ==
    ASSUME Inv, Open
    PROVE  Inv'
<1>. USE DEF Inv
<1>1. GrantsSound' /\ \A g \in Grants : record[g] # None =>
           accounts'[g] # None /\ accounts'[g].quarantined = record[g].suspended
  <2>. SUFFICES ASSUME NEW g \in Grants
                PROVE  /\ SoundGrant(record[g], accounts'[g], spent[g], authorised[g])
                       /\ record[g] # None =>
                            accounts'[g] # None /\ accounts'[g].quarantined = record[g].suspended
    BY DEF Open, GrantsSound
  <2>1. SoundGrant(record[g], None, spent[g], authorised[g])
    BY DEF Open, ProcessInv, GrantsSound
  <2>2. CASE record[g] = None
    BY <2>1, <2>2 DEF Open, RestoreAll
  <2>3. CASE record[g] # None
    <3>1. accounts'[g] = Restore(record[g].policy, record[g].reserved, record[g].suspended)
      BY <2>3 DEF Open, RestoreAll
    <3>2. record[g].policy \in Policy /\ record[g].reserved \in Uint64 /\ record[g].suspended \in BOOLEAN
      BY <2>3 DEF TypeOK, StoredRecord
    <3>3. accounts'[g] # None
      BY <3>1, <3>2, RestoreType, NoneApart
    <3>. QED BY <2>1, <2>3, <3>1, <3>3, RestoreMove
  <2>. QED BY <2>2, <2>3
<1>2. ServingMap \in [Clients -> Grants \cup {None}]
  <2>. SUFFICES ASSUME NEW c \in Clients
                PROVE  ServingMap[c] \in Grants \cup {None}
    BY DEF ServingMap
  <2>. QED BY DEF ServingMap
<1>3. Shape'
  BY <1>2, ShapeFromType DEF Shape, Open, RestoreAll
<1>4. ProcessInv'
  BY <1>1 DEF Open, ProcessInv
<1>5. QuarantineInv'
  BY <1>1 DEF QuarantineInv, Open, GrantsSound, SoundGrant
<1>6. TypeOK'
  BY <1>1, <1>3, TypeFromSound, PTL
<1>. QED BY <1>1, <1>4, <1>5, <1>6

\* A crash leaves the records.
LEMMA CrashStep ==
    ASSUME Inv, Crash
    PROVE  Inv'
<1>. USE DEF Inv
<1>1. GrantsSound'
  BY DEF Crash, GrantsSound, SoundGrant
<1>2. Shape'
  <2>1. Idle = [step |-> "idle", todo |-> <<>>] /\ IsBatch(<<>>, GrantInput)
    BY DEF Idle, IsBatch
  <2>. QED BY <2>1, ShapeFromType DEF Shape, Crash
<1>3. ProcessInv' /\ QuarantineInv'
  BY DEF Crash, ProcessInv, QuarantineInv, Idle
<1>4. TypeOK'
  BY <1>1, <1>2, TypeFromSound, PTL
<1>. QED BY <1>1, <1>3, <1>4

LEMMA TickStep ==
    ASSUME Inv, Tick
    PROVE  Inv'
<1>. USE DEF Inv
<1>1. GrantsSound' /\ ProcessInv' /\ QuarantineInv'
  BY DEF Tick, GrantsSound, ProcessInv, QuarantineInv, StoreLocked
<1>2. now' \in 0 .. MaxNow
  BY GovernorAssumption DEF Tick, TypeOK
<1>. QED BY <1>1, <1>2 DEF Tick, TypeOK

\* An admission touches one grant only, and only one that is not quarantined.
LEMMA TakeStep ==
    ASSUME Inv, NEW g \in Grants, NEW dir \in Direction, NEW k \in 1 .. MaxChunk,
           NEW partial \in BOOLEAN, Take(g, dir, k, partial)
    PROVE  /\ Inv'
           /\ ~accounts[g].quarantined
           /\ record'[g] \in StoredRecord
           /\ \A h \in Grants \ {g} : spent'[h] = spent[h]
<1>. USE DEF Inv
<1>. DEFINE a == accounts[g]
            r == record[g]
            n == IF partial THEN UpTo(a, dir, k) ELSE k
            total == Total(a) + n
            m == IF total <= a.reserved THEN r.reserved ELSE NextReservation(a.policy, total)
            q == [r EXCEPT !.reserved = m]
            b == [Admit(a, dir, n) EXCEPT !.reserved = m]
<1>1. a # None /\ Allowed(a, dir, n, now)
  BY DEF Take
<1>2. SoundGrant(r, a, spent[g], authorised[g]) /\ r # None
  BY <1>1 DEF GrantsSound, SoundGrant
<1>3. a \in Account /\ r \in StoredRecord /\ r.reserved = a.reserved
  BY <1>1, <1>2 DEF SoundGrant, SoundRecord, SoundAccount
<1>4. n \in Nat
  <2>1. k \in Nat \ {0}
    BY GovernorAssumption
  <2>2. CASE partial
    BY <1>3, <2>1, <2>2, UpToType DEF Take
  <2>. QED BY <2>1, <2>2
<1>5. /\ record' = [record EXCEPT ![g] = q]
      /\ accounts' = [accounts EXCEPT ![g] = b]
      /\ spent' = [spent EXCEPT ![g] = spent[g] + n]
  BY <1>3 DEF Take, ReservedAfter, BackingAfter, TypeOK
<1>6. m \in Uint64
  <2>1. /\ Total(a) \in Nat /\ n <= MaxUint64 - Total(a) /\ a.policy \in Policy
        /\ a.policy.creditCeiling \in Nat /\ r.reserved \in Uint64
    BY <1>1, <1>3, LimitsAssumption DEF Allowed, Account, Total, Uint64, Policy, StoredRecord
  <2>2. total \in Uint64 /\ (~a.policy.quotaUnlimited => total <= a.policy.creditCeiling)
    BY <1>1, <1>4, <2>1, LimitsAssumption DEF Allowed, Uint64
  <2>. QED BY <2>1, <2>2, NextReservationBounds
<1>7. /\ q # None /\ q.suspended = r.suspended /\ q \in StoredRecord
      /\ b # None /\ b.quarantined = a.quarantined
  <2>1. q \in StoredRecord /\ q.suspended = r.suspended
    BY <1>3, <1>6 DEF StoredRecord
  <2>2. b \in Account /\ b.quarantined = a.quarantined
    BY <1>1, <1>3, <1>4, <1>6, AdmitTotal DEF Allowed
  <2>. QED BY <2>1, <2>2, NoneApart
<1>8. SoundGrant(q, b, spent[g] + n, authorised[g])
  BY <1>1, <1>2, <1>4, <1>7, TakeMove
<1>9. ~a.quarantined
  BY <1>1 DEF Allowed
<1>. HIDE DEF a, r, n, total, m, q, b
<1>10. /\ authorised' = authorised /\ running' = running /\ job' = job
       /\ clients' = clients /\ now' = now
  BY DEF Take
<1>11. /\ record'[g] = q /\ accounts'[g] = b /\ spent'[g] = spent[g] + n
       /\ \A h \in Grants \ {g} : /\ record'[h] = record[h] /\ accounts'[h] = accounts[h]
                                  /\ spent'[h] = spent[h]
  BY <1>5 DEF TypeOK
<1>12. GrantsSound'
  BY <1>8, <1>10, <1>11 DEF GrantsSound
<1>13. Shape'
  BY <1>5, <1>10, ShapeFromType DEF Shape
<1>14. ProcessInv'
  BY <1>1, <1>7, <1>10, <1>11 DEF ProcessInv, a
<1>15. QuarantineInv'
  BY <1>1, <1>7, <1>10, <1>11 DEF QuarantineInv, StoreLocked, a, r
<1>16. TypeOK'
  BY <1>12, <1>13, TypeFromSound, PTL
<1>. QED BY <1>7, <1>9, <1>11, <1>12, <1>14, <1>15, <1>16 DEF a

LEMMA MeasureStep ==
    ASSUME Inv, NEW g \in Grants, NEW dir \in Direction, NEW n \in 1 .. MaxChunk,
           Measure(g, dir, n)
    PROVE  Inv'
<1>. USE DEF Inv
<1>. DEFINE b == Record(accounts[g], dir, n)
<1>1. /\ accounts[g] # None /\ record[g] # None /\ accounts[g] \in Account
      /\ SoundGrant(record[g], accounts[g], spent[g], authorised[g])
  BY DEF Measure, GrantsSound, SoundGrant, TypeOK
<1>2. /\ SoundGrant(record[g], b, spent[g], authorised[g]) /\ b # None
      /\ b.quarantined = accounts[g].quarantined
  BY <1>1, GovernorAssumption, MeasureMove, NoneApart
<1>. HIDE DEF b
<1>3. /\ accounts' = [accounts EXCEPT ![g] = b]
      /\ UNCHANGED <<record, clients, running, job, now, spent, authorised>>
  BY DEF Measure, b
<1>4. /\ accounts'[g] = b
      /\ \A h \in Grants \ {g} : accounts'[h] = accounts[h]
  BY <1>3 DEF TypeOK
<1>5. GrantsSound'
  BY <1>2, <1>3, <1>4 DEF GrantsSound
<1>6. Shape'
  BY <1>3, ShapeFromType DEF Shape
<1>7. ProcessInv' /\ QuarantineInv'
  BY <1>1, <1>2, <1>3, <1>4 DEF ProcessInv, QuarantineInv, StoreLocked
<1>8. TypeOK'
  BY <1>5, <1>6, TypeFromSound, PTL
<1>. QED BY <1>5, <1>7, <1>8

\* Reconcile suspends the records of the grants that are not wanted.
LEMMA ReconcileStep ==
    ASSUME Inv, NEW grants \in Deployments, Reconcile(grants)
    PROVE  Inv'
<1>. USE DEF Inv
<1>1. /\ IsBatch(grants, GrantInput)
      /\ running /\ job.step = "idle"
      /\ job' = [step |-> "quarantine", todo |-> grants]
      /\ UNCHANGED <<accounts, clients, running, now, spent, authorised>>
  BY GovernorAssumption DEF Reconcile
<1>2. \A g \in Grants :
        record'[g] = IF accounts[g] # None /\ g \notin DOMAIN grants
                     THEN [record[g] EXCEPT !.suspended = TRUE] ELSE record[g]
  BY DEF Reconcile
<1>3. ASSUME NEW g \in Grants, accounts[g] # None
      PROVE  /\ record[g] # None
             /\ [record[g] EXCEPT !.suspended = TRUE] # None
             /\ SoundGrant([record[g] EXCEPT !.suspended = TRUE], accounts[g],
                           spent[g], authorised[g])
  <2>1. record[g] # None /\ SoundGrant(record[g], accounts[g], spent[g], authorised[g])
    BY <1>3 DEF GrantsSound, SoundGrant
  <2>2. [record[g] EXCEPT !.suspended = TRUE] \in StoredRecord
    BY <2>1 DEF TypeOK, StoredRecord
  <2>. QED BY <2>1, <2>2, NoneApart, SuspendMove
<1>4. GrantsSound'
  BY <1>1, <1>2, <1>3 DEF GrantsSound
<1>5. Shape'
  BY <1>1, ShapeFromType DEF Shape, Reconcile
<1>6. ProcessInv'
  BY <1>1, <1>2 DEF ProcessInv
<1>7. QuarantineInv'
  BY <1>1, <1>2 DEF QuarantineInv, StoreLocked
<1>8. TypeOK'
  BY <1>4, <1>5, TypeFromSound, PTL
<1>. QED BY <1>4, <1>6, <1>7, <1>8

\* ... and quarantines their accounts.
LEMMA QuarantineStep ==
    ASSUME Inv, QuarantineUnwanted
    PROVE  Inv'
<1>. USE DEF Inv
<1>1. /\ StoreLocked /\ running
      /\ UNCHANGED <<record, running, now, spent, authorised>>
      /\ job' = IF DOMAIN job.todo = {} THEN Idle ELSE [job EXCEPT !.step = "apply"]
  BY DEF QuarantineUnwanted, StoreLocked, ProcessInv, TypeOK
<1>2. \A g \in Grants :
        accounts'[g] = IF accounts[g] # None /\ g \notin DOMAIN job.todo
                       THEN [accounts[g] EXCEPT !.quarantined = TRUE] ELSE accounts[g]
  BY DEF QuarantineUnwanted
<1>3. ASSUME NEW g \in Grants, accounts[g] # None
      PROVE  /\ [accounts[g] EXCEPT !.quarantined = TRUE] # None
             /\ [accounts[g] EXCEPT !.quarantined = TRUE].quarantined
             /\ SoundGrant(record[g], [accounts[g] EXCEPT !.quarantined = TRUE],
                           spent[g], authorised[g])
  <2>1. SoundGrant(record[g], accounts[g], spent[g], authorised[g]) /\ accounts[g] \in Account
    BY <1>3 DEF GrantsSound, TypeOK
  <2>2. /\ [accounts[g] EXCEPT !.quarantined = TRUE] \in Account
        /\ [accounts[g] EXCEPT !.quarantined = TRUE].quarantined
    BY <2>1 DEF Account
  <2>. QED BY <1>3, <2>1, <2>2, NoneApart, QuarantineMove
<1>4. GrantsSound'
  BY <1>1, <1>2, <1>3 DEF GrantsSound
<1>5. /\ job'.step \in {"idle", "apply"} /\ IsBatch(job'.todo, GrantInput)
      /\ job' = [step |-> job'.step, todo |-> job'.todo]
  <2>1. CASE DOMAIN job.todo = {}
    BY <1>1, <2>1 DEF Idle, IsBatch
  <2>2. CASE DOMAIN job.todo # {}
    <3>1. job' = [step |-> "apply", todo |-> job.todo]
      BY <1>1, <2>2 DEF TypeOK
    <3>. QED BY <3>1 DEF TypeOK
  <2>. QED BY <2>1, <2>2
<1>6. Shape'
  <2>1. clients' \in [Clients -> Grants \cup {None}]
    BY DEF QuarantineUnwanted, TypeOK
  <2>2. accounts' = [g \in Grants |-> accounts'[g]] /\ DOMAIN accounts' = Grants
    BY DEF QuarantineUnwanted
  <2>. QED BY <1>1, <1>5, <2>1, <2>2, ShapeFromType DEF Shape
<1>7. ProcessInv'
  BY <1>1, <1>2, <1>3 DEF ProcessInv
<1>8. QuarantineInv'
  BY <1>1, <1>2, <1>3 DEF QuarantineInv
<1>9. TypeOK'
  BY <1>4, <1>6, TypeFromSound, PTL
<1>. QED BY <1>4, <1>7, <1>8, <1>9

LEMMA ReconcileFailStep ==
    ASSUME Inv, ReconcileFail
    PROVE  Inv'
<1>. USE DEF Inv
<1>1. /\ job.step = "apply" /\ job' = Idle
      /\ UNCHANGED <<record, accounts, clients, running, now, spent, authorised>>
  BY DEF ReconcileFail
<1>2. GrantsSound'
  BY <1>1 DEF GrantsSound
<1>3. ProcessInv' /\ QuarantineInv'
  BY <1>1 DEF ProcessInv, QuarantineInv, Idle, StoreLocked
<1>4. Idle = [step |-> "idle", todo |-> <<>>] /\ IsBatch(<<>>, GrantInput)
  BY DEF Idle, IsBatch
<1>5. Shape'
  BY <1>1, <1>4, ShapeFromType DEF Shape
<1>6. TypeOK'
  BY <1>2, <1>5, TypeFromSound, PTL
<1>. QED BY <1>2, <1>3, <1>6

\* Account.applyLocked on one grant keeps it sound.
LEMMA PolicyChange ==
    ASSUME Inv, NEW g \in Grants, accounts[g] # None, NEW p \in Policy, Validate(p)
    PROVE  /\ SoundGrant(RecordAfter(g, p), AccountAfter(g, p), spent[g],
                         Greatest(authorised[g], CeilingOf(p)))
           /\ RecordAfter(g, p) # None
           /\ RecordAfter(g, p).policy = p
           /\ RecordAfter(g, p).client = record[g].client
           /\ RecordAfter(g, p).reserved = record[g].reserved
           /\ RecordAfter(g, p).suspended = record[g].suspended
           /\ AccountAfter(g, p) # None
           /\ AccountAfter(g, p).quarantined = accounts[g].quarantined
<1>1. /\ SoundGrant(record[g], accounts[g], spent[g], authorised[g]) /\ record[g] # None
      /\ record[g] \in StoredRecord /\ accounts[g] \in Account
      /\ record[g].policy = accounts[g].policy
  BY DEF Inv, GrantsSound, SoundGrant, SoundAccount, SoundRecord
<1>2. /\ WithPolicy(record[g], p) \in StoredRecord
      /\ WithPolicy(record[g], p).policy = p
      /\ WithPolicy(record[g], p).client = record[g].client
      /\ WithPolicy(record[g], p).reserved = record[g].reserved
      /\ WithPolicy(record[g], p).suspended = record[g].suspended
  BY <1>1, WithPolicyType
<1>3. /\ AccountAfter(g, p) \in Account
      /\ AccountAfter(g, p).quarantined = accounts[g].quarantined
  BY <1>1, AccountPolicyType DEF AccountAfter
<1>4. AccountAfter(g, p) # None /\ WithPolicy(record[g], p) # None
  BY <1>2, <1>3, NoneApart
<1>5. CASE p = accounts[g].policy
  <2>1. SoundGrant(record[g], AccountAfter(g, p), spent[g], Greatest(authorised[g], CeilingOf(p)))
    BY <1>1, <1>5, PolicyStays DEF AccountAfter
  <2>. QED BY <1>1, <1>3, <1>4, <1>5, <2>1 DEF RecordAfter
<1>6. CASE p # accounts[g].policy
  <2>1. SoundGrant(WithPolicy(record[g], p), AccountAfter(g, p), spent[g],
                   Greatest(authorised[g], CeilingOf(p)))
    BY <1>1, <1>4, PolicyMove DEF AccountAfter
  <2>. QED BY <1>2, <1>3, <1>4, <1>6, <2>1 DEF RecordAfter
<1>. QED BY <1>5, <1>6

\* A grant that is created is sound.
LEMMA Creation ==
    ASSUME Inv, running, NEW g \in Grants, accounts[g] = None,
           NEW grant \in GrantInput, ValidGrant(grant)
    PROVE  /\ SoundGrant(NewRecord(grant), Restore(grant.policy, 0, FALSE), spent[g],
                         Greatest(authorised[g], CeilingOf(grant.policy)))
           /\ NewRecord(grant) # None
           /\ NewRecord(grant).client = grant.client
           /\ NewRecord(grant).policy = grant.policy
           /\ ~NewRecord(grant).suspended
           /\ Restore(grant.policy, 0, FALSE) # None
<1>1. record[g] = None /\ spent[g] = 0 /\ authorised[g] \in Uint64
  BY DEF Inv, ProcessInv, GrantsSound, SoundGrant
<1>2. /\ NewRecord(grant) \in StoredRecord /\ ~NewRecord(grant).suspended
      /\ NewRecord(grant).client = grant.client
      /\ NewRecord(grant).policy = grant.policy
  BY LimitsAssumption DEF NewRecord, StoredRecord, GrantInput, Uint64
<1>3. Restore(grant.policy, 0, FALSE) \in Account
  <2>1. grant.policy \in Policy /\ 0 \in Uint64
    BY LimitsAssumption DEF GrantInput, Uint64
  <2>. QED BY <2>1, RestoreType
<1>4. NewRecord(grant) # None /\ Restore(grant.policy, 0, FALSE) # None
  BY <1>2, <1>3, NoneApart
<1>. QED BY <1>1, <1>2, <1>4, CreateMove

\* Several grants may move at once: what each action must show of each grant.
LEMMA GrantwiseStep ==
    ASSUME Inv, running, ~StoreLocked, running' = running, now' = now, Shape', ~StoreLocked',
           spent' = spent,
           \A g \in Grants :
              /\ SoundGrant(record'[g], accounts'[g], spent[g], authorised'[g])
              /\ record'[g] # None => accounts'[g] # None
              /\ accounts'[g] # None /\ record'[g].suspended => accounts'[g].quarantined
    PROVE  Inv'
<1>1. GrantsSound'
  BY DEF GrantsSound
<1>2. ProcessInv' /\ QuarantineInv'
  BY DEF ProcessInv, QuarantineInv
<1>3. Shape'
  OBVIOUS
<1>4. TypeOK'
  BY <1>1, <1>3, TypeFromSound, PTL
<1>. QED BY <1>1, <1>2, <1>4 DEF Inv

LEMMA ReconcileApplyStep ==
    ASSUME Inv, NEW g \in Grants, ReconcileApply(g)
    PROVE  Inv'
<1>. DEFINE grant == job.todo[g]
            p == IF accounts[g] = None THEN grant.policy
                 ELSE RetainCredit(grant.policy, accounts[g].policy)
            r == IF accounts[g] = None THEN NewRecord(grant) ELSE RecordAfter(g, p)
            a == IF accounts[g] = None THEN Restore(p, 0, FALSE) ELSE AccountAfter(g, p)
            u == Greatest(authorised[g], CeilingOf(p))
<1>1. /\ job.step = "apply" /\ g \in DOMAIN job.todo /\ ApplyAllowed(g, grant)
      /\ UNCHANGED <<running, now, spent>>
  BY DEF ReconcileApply, Apply
<1>2. /\ record' = [record EXCEPT ![g] = r] /\ accounts' = [accounts EXCEPT ![g] = a]
      /\ authorised' = [authorised EXCEPT ![g] = u]
      /\ clients' = [clients EXCEPT ![grant.client] =
                         IF p.enabled THEN g ELSE IF @ = g THEN None ELSE @]
  BY DEF ReconcileApply, Apply, Inv, TypeOK
<1>3. running /\ ~StoreLocked
  BY <1>1 DEF Inv, ProcessInv, StoreLocked
<1>4. grant \in GrantInput /\ ValidGrant(grant) /\ grant.policy \in Policy /\ grant.client \in Clients
  BY <1>1 DEF Inv, TypeOK, IsBatch, ApplyAllowed, GrantInput
<1>5. /\ SoundGrant(r, a, spent[g], u) /\ r # None /\ a # None
      /\ r.suspended => a.quarantined
  <2>1. CASE accounts[g] = None
    BY <1>3, <1>4, <2>1, Creation
  <2>2. CASE accounts[g] # None
    <3>1. /\ accounts[g].policy \in Policy /\ Validate(accounts[g].policy)
          /\ record[g] # None /\ ~record[g].suspended
      BY <1>1, <2>2 DEF Inv, GrantsSound, SoundGrant, SoundRecord, SoundAccount, Account,
                        ValidGrant, ApplyAllowed
    <3>2. p \in Policy /\ Validate(p)
      BY <1>4, <2>2, <3>1, RetainCreditType DEF ValidGrant
    <3>. QED BY <2>2, <3>1, <3>2, PolicyChange
  <2>. QED BY <2>1, <2>2
<1>. HIDE DEF grant, p, r, a, u
<1>6. /\ job'.step \in {"idle", "apply"} /\ IsBatch(job'.todo, GrantInput)
      /\ job' = [step |-> job'.step, todo |-> job'.todo]
  <2>. DEFINE rest == [h \in DOMAIN job.todo \ {g} |-> job.todo[h]]
  <2>1. job' = IF DOMAIN rest = {} THEN Idle ELSE [job EXCEPT !.todo = rest]
    BY DEF ReconcileApply
  <2>2. CASE DOMAIN rest = {}
    BY <2>1, <2>2 DEF Idle, IsBatch
  <2>3. CASE DOMAIN rest # {}
    <3>1. job' = [step |-> "apply", todo |-> rest]
      BY <1>1, <2>1, <2>3 DEF Inv, TypeOK
    <3>2. IsBatch(rest, GrantInput)
      BY DEF Inv, TypeOK, IsBatch
    <3>. QED BY <3>1, <3>2
  <2>. QED BY <2>2, <2>3
<1>7. Shape'
  <2>1. clients' \in [Clients -> Grants \cup {None}]
    BY <1>2, <1>4 DEF Inv, TypeOK
  <2>. QED BY <1>1, <1>2, <1>6, <2>1, ShapeFromType DEF Shape, Inv
<1>8. ASSUME NEW h \in Grants
      PROVE  /\ SoundGrant(record'[h], accounts'[h], spent[h], authorised'[h])
             /\ record'[h] # None => accounts'[h] # None
             /\ accounts'[h] # None /\ record'[h].suspended => accounts'[h].quarantined
  <2>1. CASE h = g
    BY <1>2, <1>5, <2>1 DEF Inv, TypeOK
  <2>2. CASE h # g
    <3>1. record'[h] = record[h] /\ accounts'[h] = accounts[h] /\ authorised'[h] = authorised[h]
      BY <1>2, <2>2 DEF Inv, TypeOK
    <3>. QED BY <1>3, <3>1 DEF Inv, GrantsSound, ProcessInv, QuarantineInv
  <2>. QED BY <2>1, <2>2
<1>9. ~StoreLocked'
  BY <1>6 DEF StoreLocked
<1>. QED BY <1>1, <1>3, <1>7, <1>8, <1>9, GrantwiseStep

LEMMA ApplyCreditStep ==
    ASSUME Inv, NEW batch \in CreditBatches, NEW done \in SUBSET DOMAIN batch,
           ApplyCredit(batch, done)
    PROVE  Inv'
<1>1. /\ running /\ ~StoreLocked /\ CreditBatchAllowed(batch)
      /\ UNCHANGED <<clients, running, job, now, spent>>
      /\ DOMAIN batch \subseteq Grants
      /\ \A g \in DOMAIN batch : batch[g] \in CreditInput
      /\ \A g \in done : CreditApplies(g, batch[g])
  BY GovernorAssumption DEF ApplyCredit, IsBatch
<1>2. ASSUME NEW g \in done
      PROVE  /\ record'[g] = RecordAfter(g, CreditPolicy(g, batch[g]))
             /\ accounts'[g] = AccountAfter(g, CreditPolicy(g, batch[g]))
             /\ authorised'[g] = Greatest(authorised[g], CeilingOf(CreditPolicy(g, batch[g])))
             /\ g \in Grants
  BY <1>1 DEF ApplyCredit
<1>3. ASSUME NEW g \in done
      PROVE  /\ CreditPolicy(g, batch[g]) \in Policy
             /\ Validate(CreditPolicy(g, batch[g]))
             /\ accounts[g] # None /\ ~record[g].suspended
  <2>1. accounts[g] # None /\ ~record[g].suspended /\ g \in Grants
    BY <1>1 DEF CreditBatchAllowed
  <2>2. accounts[g].policy \in Policy /\ Validate(accounts[g].policy)
    BY <2>1 DEF Inv, GrantsSound, SoundGrant, SoundRecord, SoundAccount, Account, ValidGrant
  <2>3. batch[g].creditRevision \in Uint64 /\ batch[g].creditCeiling \in Uint64
    BY <1>1 DEF CreditInput
  <2>4. \/ CreditPolicy(g, batch[g]) = accounts[g].policy
        \/ CreditAdvance(accounts[g].policy, CreditPolicy(g, batch[g]))
    BY <1>1 DEF CreditApplies
  <2>. QED BY <2>1, <2>2, <2>3, <2>4, CreditPolicyType DEF CreditPolicy
<1>4. ASSUME NEW g \in Grants
      PROVE  /\ SoundGrant(record'[g], accounts'[g], spent[g], authorised'[g])
             /\ record'[g] # None => accounts'[g] # None
             /\ accounts'[g] # None /\ record'[g].suspended => accounts'[g].quarantined
  <2>1. CASE g \in done
    BY <1>2, <1>3, <2>1, PolicyChange
  <2>2. CASE g \notin done
    <3>1. record'[g] = record[g] /\ accounts'[g] = accounts[g] /\ authorised'[g] = authorised[g]
      BY <2>2 DEF ApplyCredit
    <3>. QED BY <1>1, <3>1 DEF Inv, GrantsSound, ProcessInv, QuarantineInv
  <2>. QED BY <2>1, <2>2
<1>5. Shape'
  <2>1. /\ DOMAIN record' = Grants /\ record' = [g \in Grants |-> record'[g]]
        /\ DOMAIN accounts' = Grants /\ accounts' = [g \in Grants |-> accounts'[g]]
        /\ DOMAIN authorised' = Grants /\ authorised' = [g \in Grants |-> authorised'[g]]
    BY DEF ApplyCredit
  <2>. QED BY <1>1, <2>1, ShapeFromType DEF Shape, Inv
<1>6. ~StoreLocked'
  BY <1>1 DEF StoreLocked
<1>. QED BY <1>1, <1>4, <1>5, <1>6, GrantwiseStep

LEMMA ApplyAuthorityStep ==
    ASSUME Inv, NEW batch \in AuthorityBatches, NEW done \in SUBSET DOMAIN batch,
           ApplyAuthority(batch, done)
    PROVE  Inv'
<1>1. /\ running /\ ~StoreLocked
      /\ UNCHANGED <<running, job, now, spent>>
      /\ DOMAIN batch \subseteq Grants
      /\ \A g \in DOMAIN batch : batch[g] \in GrantInput /\ AuthorityAllowed(g, batch[g])
  BY GovernorAssumption DEF ApplyAuthority, IsBatch
<1>2. ASSUME NEW g \in done
      PROVE  /\ g \in Grants /\ batch[g] \in GrantInput /\ AuthorityAllowed(g, batch[g])
             /\ ValidGrant(batch[g]) /\ batch[g].policy \in Policy
  BY <1>1 DEF AuthorityAllowed, GrantInput
<1>3. ASSUME NEW g \in done, accounts[g] = None
      PROVE  /\ SoundGrant(record'[g], accounts'[g], spent[g], authorised'[g])
             /\ record'[g] # None /\ accounts'[g] # None /\ ~record'[g].suspended
  <2>1. /\ record'[g] = NewRecord(batch[g])
        /\ accounts'[g] = Restore(batch[g].policy, 0, FALSE)
        /\ authorised'[g] = Greatest(authorised[g], CeilingOf(batch[g].policy))
    BY <1>2, <1>3 DEF ApplyAuthority, AuthorityPolicy
  <2>. QED BY <1>1, <1>2, <1>3, <2>1, Creation
<1>4. ASSUME NEW g \in done, accounts[g] # None
      PROVE  /\ SoundGrant(record'[g], accounts'[g], spent[g], authorised'[g])
             /\ record'[g] # None /\ accounts'[g] # None /\ ~record'[g].suspended
  <2>. DEFINE p == AuthorityPolicy(g, batch[g])
  <2>1. /\ record'[g] = RecordAfter(g, p) /\ accounts'[g] = AccountAfter(g, p)
        /\ authorised'[g] = Greatest(authorised[g], CeilingOf(p))
    BY <1>2, <1>4 DEF ApplyAuthority
  <2>2. /\ record[g] # None /\ accounts[g].policy \in Policy /\ Validate(accounts[g].policy)
    BY <1>2, <1>4 DEF Inv, GrantsSound, SoundGrant, SoundRecord, SoundAccount, Account, ValidGrant
  <2>3. MergeAllowed(accounts[g].policy, batch[g].policy) /\ ~record[g].suspended
    BY <1>2, <2>2 DEF AuthorityAllowed
  <2>4. p \in Policy /\ Validate(p)
    BY <1>2, <1>4, <2>2, <2>3, MergeAuthorityType DEF AuthorityPolicy
  <2>. HIDE DEF p
  <2>. QED BY <1>2, <1>4, <2>1, <2>3, <2>4, PolicyChange
<1>5. ASSUME NEW g \in Grants
      PROVE  /\ SoundGrant(record'[g], accounts'[g], spent[g], authorised'[g])
             /\ record'[g] # None => accounts'[g] # None
             /\ accounts'[g] # None /\ record'[g].suspended => accounts'[g].quarantined
  <2>1. CASE g \in done
    BY <1>3, <1>4, <2>1
  <2>2. CASE g \notin done
    <3>1. record'[g] = record[g] /\ accounts'[g] = accounts[g] /\ authorised'[g] = authorised[g]
      BY <2>2 DEF ApplyAuthority
    <3>. QED BY <1>1, <3>1 DEF Inv, GrantsSound, ProcessInv, QuarantineInv
  <2>. QED BY <2>1, <2>2
<1>6. Shape'
  <2>1. /\ DOMAIN record' = Grants /\ record' = [g \in Grants |-> record'[g]]
        /\ DOMAIN accounts' = Grants /\ accounts' = [g \in Grants |-> accounts'[g]]
        /\ DOMAIN authorised' = Grants /\ authorised' = [g \in Grants |-> authorised'[g]]
    BY DEF ApplyAuthority
  <2>2. clients' \in [Clients -> Grants \cup {None}]
    <3>. DEFINE serves(g, c) == batch[g].client = c /\ batch[g].policy.enabled
                next(c) == IF \E g \in done : serves(g, c)
                           THEN CHOOSE g \in done : serves(g, c)
                           ELSE IF clients[c] \in done /\ batch[clients[c]].client = c
                           THEN None ELSE clients[c]
    <3>1. clients' = [c \in Clients |-> next(c)]
      BY DEF ApplyAuthority
    <3>2. ASSUME NEW c \in Clients PROVE next(c) \in Grants \cup {None}
      <4>1. CASE \E g \in done : serves(g, c)
        <5>1. (CHOOSE g \in done : serves(g, c)) \in done
          BY <4>1
        <5>. QED BY <1>1, <4>1, <5>1
      <4>2. CASE ~\E g \in done : serves(g, c)
        BY <4>2 DEF Inv, TypeOK
      <4>. QED BY <4>1, <4>2
    <3>. QED BY <3>1, <3>2
  <2>. QED BY <1>1, <2>1, <2>2, ShapeFromType DEF Shape, Inv
<1>7. ~StoreLocked'
  BY <1>1 DEF StoreLocked
<1>. QED BY <1>1, <1>5, <1>6, <1>7, GrantwiseStep

\* Every step keeps the invariant.
LEMMA NextInv ==
    ASSUME Inv, [Next]_vars
    PROVE  Inv'
<1>1. CASE Open
  BY <1>1, OpenStep
<1>2. CASE Crash
  BY <1>2, CrashStep
<1>3. CASE Tick
  BY <1>3, TickStep
<1>4. CASE \E g \in Grants, dir \in Direction, n \in 1 .. MaxChunk, partial \in BOOLEAN :
             Take(g, dir, n, partial)
  BY <1>4, TakeStep
<1>5. CASE \E g \in Grants, dir \in Direction, n \in 1 .. MaxChunk : Measure(g, dir, n)
  BY <1>5, MeasureStep
<1>6. CASE \E grants \in Deployments : Reconcile(grants)
  BY <1>6, ReconcileStep
<1>7. CASE QuarantineUnwanted
  BY <1>7, QuarantineStep
<1>8. CASE \E g \in Grants : ReconcileApply(g)
  BY <1>8, ReconcileApplyStep
<1>9. CASE ReconcileFail
  BY <1>9, ReconcileFailStep
<1>10. CASE \E batch \in CreditBatches : \E done \in SUBSET DOMAIN batch : ApplyCredit(batch, done)
  BY <1>10, ApplyCreditStep
<1>11. CASE \E batch \in AuthorityBatches : \E done \in SUBSET DOMAIN batch : ApplyAuthority(batch, done)
  BY <1>11, ApplyAuthorityStep
<1>12. CASE UNCHANGED vars
  BY <1>12 DEF vars, Inv, TypeOK, GrantsSound, ProcessInv, QuarantineInv, StoreLocked
<1>. QED BY <1>1, <1>2, <1>3, <1>4, <1>5, <1>6, <1>7, <1>8, <1>9, <1>10, <1>11, <1>12 DEF Next

\* The invariant holds in every reachable state.
THEOREM Invariance == Spec => []Inv
<1>1. Init => Inv
  BY InitInv
<1>2. Inv /\ [Next]_vars => Inv'
  BY NextInv
<1>. QED BY <1>1, <1>2, PTL DEF Spec

-----------------------------------------------------------------------------
(***************************************************************************)
(* The theorems.                                                           *)
(***************************************************************************)

\* Every variable keeps its type and no counter wraps, whatever the width.
THEOREM TypeCorrect == Spec => []TypeOK
<1>1. Inv => TypeOK
  BY DEF Inv
<1>. QED BY <1>1, Invariance, PTL

\* No grant ever admits more bytes than it was authorised to, over all lives
\* of the process (Account.take, backing.Reserve, Store.restore).
THEOREM NeverOverspends == Spec => [](NoOverspend /\ ReservationCoversSpend)
<1>1. Inv => NoOverspend /\ ReservationCoversSpend
  <2>. SUFFICES ASSUME Inv, NEW g \in Grants
                PROVE  /\ spent[g] <= authorised[g]
                       /\ IF record[g] = None THEN spent[g] = 0 ELSE spent[g] <= record[g].reserved
    BY DEF NoOverspend, ReservationCoversSpend
  <2>1. SoundGrant(record[g], accounts[g], spent[g], authorised[g])
    BY DEF Inv, GrantsSound
  <2>2. CASE record[g] = None
    BY <2>1, <2>2, LimitsAssumption DEF SoundGrant, Uint64
  <2>3. CASE record[g] # None
    <3>1. /\ spent[g] <= record[g].reserved /\ record[g].reserved <= authorised[g]
          /\ record[g].reserved \in Nat /\ spent[g] \in Nat /\ authorised[g] \in Nat
      BY <2>1, <2>3, LimitsAssumption DEF SoundGrant, SoundRecord, StoredRecord, Uint64
    <3>. QED BY <2>3, <3>1
  <2>. QED BY <2>2, <2>3
<1>. QED BY <1>1, Invariance, PTL

\* The authority report is never refused and a crash burns at most one block.
THEOREM ReportableAndBounded == Spec => [](AuthorityReportable /\ BoundedBurn)
<1>1. Inv => AuthorityReportable /\ BoundedBurn
  BY DEF Inv, GrantsSound, SoundGrant, SoundAccount, AuthorityReportable, BoundedBurn
<1>. QED BY <1>1, Invariance, PTL

\* Accounts and records stay in step (Account.Admit, backing.Reserve, Store.Reconcile): the
\* three theorems above together.
THEOREM AccountsStaySound == Spec => []AccountsSound
<1>1. TypeOK /\ (NoOverspend /\ ReservationCoversSpend) /\ (AuthorityReportable /\ BoundedBurn) => AccountsSound
  BY DEF AccountsSound
<1>. QED BY <1>1, TypeCorrect, NeverOverspends, ReportableAndBounded, PTL

\* A suspended grant stays silent (Store.Reconcile, Account.Quarantine,
\* Store.restore).
THEOREM Silence == Spec => SuspendedStaysSilent
<1>. DEFINE silent == \A g \in Grants :
         record[g] # None /\ record[g].suspended /\ ~StoreLocked => spent'[g] = spent[g]
<1>1. ASSUME Inv, [Next]_vars
      PROVE  silent
  <2>. SUFFICES ASSUME NEW g \in Grants, record[g] # None, record[g].suspended, ~StoreLocked
                PROVE  spent'[g] = spent[g]
    OBVIOUS
  <2>1. ASSUME NEW h \in Grants, NEW dir \in Direction, NEW n \in 1 .. MaxChunk,
               NEW partial \in BOOLEAN, Take(h, dir, n, partial)
        PROVE  spent'[g] = spent[g]
    <3>1. ~accounts[h].quarantined /\ accounts[h] # None
      BY <1>1, <2>1, TakeStep DEF Take
    <3>2. h # g
      BY <1>1, <3>1 DEF Inv, QuarantineInv
    <3>. QED BY <1>1, <2>1, <3>2, TakeStep
  <2>2. CASE ~\E h \in Grants, dir \in Direction, n \in 1 .. MaxChunk, partial \in BOOLEAN :
               Take(h, dir, n, partial)
    <3>1. spent' = spent
      BY <1>1, <2>2 DEF Next, vars, Open, Crash, Tick, Measure, Reconcile, QuarantineUnwanted,
                  ReconcileApply, ReconcileFail, ApplyCredit, ApplyAuthority
    <3>. QED BY <3>1
  <2>. QED BY <2>1, <2>2
<1>2. Inv /\ [Next]_vars => [silent]_vars
  BY <1>1
<1>. QED BY <1>2, Invariance, PTL DEF Spec, SuspendedStaysSilent

\* What AuthorityNeverRegresses says of one record before and after a step.
Advanced(r, s) ==
    /\ s # None
    /\ s.client = r.client /\ s.policy.term = r.policy.term
    /\ s.policy.revision >= r.policy.revision
    /\ s.policy.authorityRevision >= r.policy.authorityRevision
    /\ s.policy.creditRevision >= r.policy.creditRevision
    /\ r.policy.creditRevision # 0 => s.policy.creditCeiling >= r.policy.creditCeiling
    /\ s.reserved >= r.reserved
    /\ r.suspended => s = r

\* A record that stays is not behind itself.
LEMMA AdvancedReflexive ==
    ASSUME NEW r \in StoredRecord
    PROVE  Advanced(r, r)
BY NoneApart, LimitsAssumption DEF Advanced, StoredRecord, Policy, Uint64

\* A policy that applyLocked accepts moves the record forward.
LEMMA PolicyAdvances ==
    ASSUME Inv, NEW g \in Grants, accounts[g] # None, ~record[g].suspended,
           NEW p \in Policy, Validate(p), PolicyApplies(g, p)
    PROVE  Advanced(record[g], RecordAfter(g, p))
<1>1. /\ record[g] # None /\ record[g] \in StoredRecord
      /\ record[g].policy = accounts[g].policy /\ record[g].policy \in Policy
  BY DEF Inv, GrantsSound, SoundGrant, SoundAccount, SoundRecord, StoredRecord
<1>2. /\ RecordAfter(g, p) # None /\ RecordAfter(g, p).policy = p
      /\ RecordAfter(g, p).client = record[g].client
      /\ RecordAfter(g, p).reserved = record[g].reserved
  BY PolicyChange
<1>3. PolicyFollows(record[g].policy, p)
  BY <1>1 DEF PolicyApplies
<1>4. record[g].reserved \in Nat
  BY <1>1, LimitsAssumption DEF StoredRecord, Uint64
<1>. QED BY <1>1, <1>2, <1>3, <1>4 DEF Advanced, PolicyFollows

\* Nothing moves a stored grant back (Account.applyLocked, backing.StorePolicy,
\* backing.Reserve, Store.Reconcile).
THEOREM NoRegress == Spec => AuthorityNeverRegresses
<1>. DEFINE forward == \A g \in Grants : record[g] # None => Advanced(record[g], record'[g])
<1>1. ASSUME Inv, [Next]_vars
      PROVE  forward
  <2>. SUFFICES ASSUME NEW g \in Grants, record[g] # None
                PROVE  Advanced(record[g], record'[g])
    OBVIOUS
  <2>1. /\ record[g] \in StoredRecord
        /\ accounts[g] # None => /\ accounts[g] \in Account
                                 /\ accounts[g].policy \in Policy /\ Validate(accounts[g].policy)
        /\ running => accounts[g] # None
    BY <1>1 DEF Inv, ProcessInv, GrantsSound, SoundGrant, SoundAccount, SoundRecord, Account, ValidGrant
  <2>2. ASSUME record'[g] = record[g]
        PROVE  Advanced(record[g], record'[g])
    BY <2>1, <2>2, AdvancedReflexive
  <2>3. CASE Open \/ Crash \/ Tick \/ QuarantineUnwanted \/ ReconcileFail \/ UNCHANGED vars
    BY <2>2, <2>3 DEF Open, Crash, Tick, QuarantineUnwanted, ReconcileFail, vars
  <2>4. ASSUME NEW h \in Grants, NEW dir \in Direction, NEW n \in 1 .. MaxChunk, NEW partial \in BOOLEAN,
               Take(h, dir, n, partial)
        PROVE  Advanced(record[g], record'[g])
    <3>. DEFINE a == accounts[h]
                k == IF partial THEN UpTo(a, dir, n) ELSE n
                total == Total(a) + k
                mark == ReservedAfter(h, a.policy, total)
    <3>1. /\ ReserveAllowed(h, a.policy, total)
          /\ record' = [record EXCEPT ![h].reserved = mark]
      BY <2>4 DEF Take
    <3>2. CASE g # h
      BY <1>1, <2>2, <3>1, <3>2 DEF Inv, TypeOK
    <3>3. CASE g = h /\ total <= accounts[h].reserved
      <4>1. mark = record[g].reserved
        BY <3>3 DEF ReservedAfter
      <4>2. record'[g] = record[g]
        BY <1>1, <2>1, <3>1, <3>3, <4>1 DEF Inv, TypeOK, StoredRecord
      <4>. QED BY <2>2, <4>2
    <3>4. CASE g = h /\ ~(total <= accounts[h].reserved)
      <4>1. ~record[g].suspended /\ record[g].reserved <= mark
        BY <3>1, <3>4 DEF ReserveAllowed, ReservedAfter
      <4>. HIDE DEF mark
      <4>2. record'[g] = [record[g] EXCEPT !.reserved = mark]
        BY <1>1, <3>1, <3>4 DEF Inv, TypeOK
      <4>3. record'[g] \in StoredRecord
        BY <1>1, <2>4, <3>4, TakeStep
      <4>4. record'[g] # None
        BY <4>3, NoneApart
      <4>. QED BY <2>1, <4>1, <4>2, <4>3, <4>4, LimitsAssumption
               DEF Advanced, StoredRecord, Policy, Uint64
    <3>. QED BY <3>2, <3>3, <3>4
  <2>5. ASSUME NEW h \in Grants, NEW dir \in Direction, NEW n \in 1 .. MaxChunk, Measure(h, dir, n)
        PROVE  Advanced(record[g], record'[g])
    BY <2>2, <2>5 DEF Measure
  <2>6. ASSUME NEW grants \in Deployments, Reconcile(grants)
        PROVE  Advanced(record[g], record'[g])
    <3>1. \/ record'[g] = record[g]
          \/ record'[g] = [record[g] EXCEPT !.suspended = TRUE]
      BY <2>6 DEF Reconcile
    <3>2. [record[g] EXCEPT !.suspended = TRUE] \in StoredRecord
      BY <2>1 DEF StoredRecord
    <3>3. record[g].suspended => [record[g] EXCEPT !.suspended = TRUE] = record[g]
      BY <2>1 DEF StoredRecord
    <3>. QED BY <2>1, <2>2, <3>1, <3>2, <3>3, NoneApart, LimitsAssumption
             DEF Advanced, StoredRecord, Policy, Uint64
  <2>7. ASSUME NEW h \in Grants, ReconcileApply(h)
        PROVE  Advanced(record[g], record'[g])
    <3>. DEFINE grant == job.todo[h]
                p == RetainCredit(grant.policy, accounts[h].policy)
    <3>1. /\ job.step = "apply" /\ h \in DOMAIN job.todo /\ ApplyAllowed(h, grant)
          /\ record' = [record EXCEPT ![h] =
                          IF accounts[h] = None THEN NewRecord(grant) ELSE RecordAfter(h, p)]
      BY <2>7 DEF ReconcileApply, Apply
    <3>2. CASE g # h
      BY <1>1, <2>2, <3>1, <3>2 DEF Inv, TypeOK
    <3>3. CASE g = h
      <4>1. running /\ accounts[g] # None
        BY <1>1, <2>1, <3>1 DEF Inv, ProcessInv
      <4>2. ~record[g].suspended /\ PolicyApplies(g, p)
        BY <3>1, <3>3, <4>1 DEF ApplyAllowed
      <4>3. grant.policy \in Policy /\ Validate(grant.policy)
        BY <1>1, <3>1 DEF Inv, TypeOK, IsBatch, ApplyAllowed, GrantInput, ValidGrant
      <4>4. p \in Policy /\ Validate(p)
        BY <2>1, <3>3, <4>1, <4>3, RetainCreditType
      <4>. HIDE DEF p
      <4>5. record'[g] = RecordAfter(g, p)
        BY <1>1, <3>1, <3>3, <4>1 DEF Inv, TypeOK
      <4>. QED BY <1>1, <4>1, <4>2, <4>4, <4>5, PolicyAdvances
    <3>. QED BY <3>2, <3>3
  <2>8. ASSUME NEW batch \in CreditBatches, NEW done \in SUBSET DOMAIN batch, ApplyCredit(batch, done)
        PROVE  Advanced(record[g], record'[g])
    <3>. DEFINE p == CreditPolicy(g, batch[g])
    <3>1. CASE g \notin done
      BY <2>2, <2>8, <3>1 DEF ApplyCredit
    <3>2. CASE g \in done
      <4>1. /\ record'[g] = RecordAfter(g, p) /\ CreditApplies(g, batch[g])
            /\ accounts[g] # None /\ ~record[g].suspended
        BY <2>8, <3>2 DEF ApplyCredit, CreditBatchAllowed
      <4>2. CASE p = accounts[g].policy
        BY <2>2, <4>1, <4>2 DEF RecordAfter
      <4>3. CASE p # accounts[g].policy
        <5>1. CreditAdvance(accounts[g].policy, p) /\ PolicyApplies(g, p)
          BY <4>1, <4>3 DEF CreditApplies
        <5>2. batch[g].creditRevision \in Uint64 /\ batch[g].creditCeiling \in Uint64
          BY <3>2, GovernorAssumption DEF IsBatch, CreditInput
        <5>3. p \in Policy /\ Validate(p)
          BY <2>1, <4>1, <5>1, <5>2, CreditPolicyType DEF CreditPolicy
        <5>. HIDE DEF p
        <5>. QED BY <1>1, <4>1, <5>1, <5>3, PolicyAdvances
      <4>. QED BY <4>2, <4>3
    <3>. QED BY <3>1, <3>2
  <2>9. ASSUME NEW batch \in AuthorityBatches, NEW done \in SUBSET DOMAIN batch, ApplyAuthority(batch, done)
        PROVE  Advanced(record[g], record'[g])
    <3>. DEFINE p == AuthorityPolicy(g, batch[g])
    <3>1. CASE g \notin done
      BY <2>2, <2>9, <3>1 DEF ApplyAuthority
    <3>2. CASE g \in done
      <4>1. /\ AuthorityAllowed(g, batch[g]) /\ AuthorityApplies(g, batch[g])
            /\ running /\ batch[g].policy \in Policy
        BY <2>9, <3>2, GovernorAssumption DEF ApplyAuthority, IsBatch, GrantInput
      <4>2. accounts[g] # None /\ ~record[g].suspended /\ PolicyApplies(g, p)
            /\ MergeAllowed(accounts[g].policy, batch[g].policy)
        BY <2>1, <4>1 DEF AuthorityAllowed, AuthorityApplies
      <4>3. record'[g] = RecordAfter(g, p)
        BY <2>9, <3>2, <4>2 DEF ApplyAuthority
      <4>4. p \in Policy /\ Validate(p)
        BY <2>1, <4>1, <4>2, MergeAuthorityType DEF AuthorityPolicy
      <4>. HIDE DEF p
      <4>. QED BY <1>1, <4>2, <4>3, <4>4, PolicyAdvances
    <3>. QED BY <3>1, <3>2
  <2>. QED BY <1>1, <2>3, <2>4, <2>5, <2>6, <2>7, <2>8, <2>9 DEF Next
<1>2. Inv /\ [Next]_vars => [forward]_vars
  BY <1>1
<1>3. Spec => [][forward]_vars
  BY <1>2, Invariance, PTL DEF Spec
<1>. QED BY <1>3 DEF AuthorityNeverRegresses, Advanced

-----------------------------------------------------------------------------
(***************************************************************************)
(* Who serves a client: the file of the governor can always be opened      *)
(* again, and Lookup finds the grant that is enabled on disk.              *)
(*                                                                         *)
(* Neither is inductive alone.  That two records of one client are never   *)
(* both enabled is ensured by the map in memory, which the updates ask     *)
(* before they create or enable a grant; so the map must name every grant  *)
(* that serves, also while Reconcile has suspended records on disk and not *)
(* yet cleared the map.  Then the map may name a grant too many, but only  *)
(* one that Reconcile is about to clear.                                   *)
(***************************************************************************)

\* The records that serve a client, and the map, of one state.
Unique ==
    \A c \in Clients : \A g, h \in Grants : Serving(g, c) /\ Serving(h, c) => g = h

Named ==
    running => \A c \in Clients : \A g \in Grants :
        /\ Serving(g, c) => clients[c] = g /\ (StoreLocked => g \in DOMAIN job.todo)
        /\ clients[c] = g => Serving(g, c) \/ (StoreLocked /\ g \notin DOMAIN job.todo)

ServingInv == Inv /\ Unique /\ Named

\* A running process with a correct map has no two grants for one client.
LEMMA NamedUnique ==
    ASSUME running, Named
    PROVE  Unique
BY DEF Named, Unique

\* Outside the critical section the map is the one Open would build.
LEMMA NamedLookup ==
    ASSUME TypeOK, running, ~StoreLocked, Named
    PROVE  clients = ServingMap
<1>1. ASSUME NEW c \in Clients
      PROVE  clients[c] = ServingMap[c]
  <2>1. CASE \E g \in Grants : Serving(g, c)
    <3>1. PICK g \in Grants : Serving(g, c)
      BY <2>1
    <3>2. \A h \in Grants : Serving(h, c) => h = g
      BY <3>1 DEF Named
    <3>3. (CHOOSE h \in Grants : Serving(h, c)) = g
      BY <3>1, <3>2
    <3>. QED BY <2>1, <3>1, <3>3 DEF Named, ServingMap
  <2>2. CASE ~\E g \in Grants : Serving(g, c)
    <3>1. clients[c] \in Grants \cup {None} /\ clients[c] \notin Grants
      BY <2>2 DEF TypeOK, Named
    <3>. QED BY <2>2, <3>1 DEF ServingMap
  <2>. QED BY <2>1, <2>2
<1>. QED BY <1>1 DEF TypeOK, ServingMap

\* Open builds a map that names the grants that serve, and only those.
LEMMA OpenNames ==
    ASSUME Unique, NEW c \in Clients, NEW g \in Grants
    PROVE  ServingMap[c] = g <=> Serving(g, c)
<1>1. CASE \E h \in Grants : Serving(h, c)
  <2>1. PICK h \in Grants : Serving(h, c)
    BY <1>1
  <2>2. (CHOOSE x \in Grants : Serving(x, c)) = h
    BY <2>1 DEF Unique
  <2>. QED BY <1>1, <2>1, <2>2 DEF ServingMap, Unique
<1>2. CASE ~\E h \in Grants : Serving(h, c)
  BY <1>2, GovernorAssumption DEF ServingMap
<1>. QED BY <1>1, <1>2

-----------------------------------------------------------------------------
(***************************************************************************)
(* The steps.                                                              *)
(***************************************************************************)

\* Two records alike in what Serving looks at.
Alike(r, s) ==
    /\ r = None <=> s = None
    /\ r # None => /\ s.client = r.client /\ s.policy.enabled = r.policy.enabled
                   /\ s.suspended = r.suspended

\* Where every record stays alike and the map and the job stay, nothing changes.
LEMMA AlikeStep ==
    ASSUME Unique, Named, \A g \in Grants : Alike(record[g], record'[g]),
           UNCHANGED <<clients, running, job>>
    PROVE  Unique' /\ Named'
<1>1. \A g \in Grants, c \in Clients : Serving(g, c)' <=> Serving(g, c)
  BY DEF Serving, Alike
<1>2. StoreLocked' <=> StoreLocked
  BY DEF StoreLocked
<1>. QED BY <1>1, <1>2 DEF Unique, Named

\* An admission moves only the reservation.
LEMMA TakeAlike ==
    ASSUME Inv, NEW h \in Grants, NEW dir \in Direction, NEW n \in 1 .. MaxChunk,
           NEW partial \in BOOLEAN, Take(h, dir, n, partial), NEW g \in Grants
    PROVE  Alike(record[g], record'[g])
<1>1. PICK mark : record' = [record EXCEPT ![h].reserved = mark]
  BY DEF Take
<1>2. CASE g # h
  BY <1>1, <1>2 DEF Inv, TypeOK, Alike
<1>3. CASE g = h
  <2>1. record[g] # None /\ record[g] \in StoredRecord
    BY <1>3 DEF Take, Inv, GrantsSound, SoundGrant, SoundRecord
  <2>2. record'[g] \in StoredRecord
    BY <1>3, TakeStep
  <2>3. record'[g] = [record[g] EXCEPT !.reserved = mark]
    BY <1>1, <1>3 DEF Inv, TypeOK
  <2>. QED BY <2>1, <2>2, <2>3, NoneApart DEF Alike, StoredRecord
<1>. QED BY <1>2, <1>3

\* Reconcile suspends on disk what it will clear from the map.
LEMMA ReconcileServes ==
    ASSUME ServingInv, NEW grants \in Deployments, Reconcile(grants)
    PROVE  Unique' /\ Named'
<1>1. /\ running /\ ~StoreLocked /\ StoreLocked' /\ job'.todo = grants
      /\ UNCHANGED <<clients, running>>
  BY DEF Reconcile, StoreLocked
<1>2. ASSUME NEW g \in Grants, NEW c \in Clients
      PROVE  Serving(g, c)' <=> Serving(g, c) /\ g \in DOMAIN grants
  <2>1. record'[g] = IF accounts[g] # None /\ g \notin DOMAIN grants
                     THEN [record[g] EXCEPT !.suspended = TRUE] ELSE record[g]
    BY DEF Reconcile
  <2>2. CASE record[g] = None
    <3>1. accounts[g] = None
      BY <2>2 DEF ServingInv, Inv, GrantsSound, SoundGrant
    <3>. QED BY <2>1, <2>2, <3>1 DEF Serving
  <2>3. CASE record[g] # None
    <3>1. accounts[g] # None /\ record[g] \in StoredRecord
      BY <1>1, <2>3 DEF ServingInv, Inv, ProcessInv, GrantsSound, SoundGrant, SoundRecord
    <3>2. [record[g] EXCEPT !.suspended = TRUE].suspended
      BY <3>1 DEF StoredRecord
    <3>. QED BY <2>1, <2>3, <3>1, <3>2 DEF Serving
  <2>. QED BY <2>2, <2>3
<1>3. Named'
  BY <1>1, <1>2 DEF ServingInv, Named
<1>4. Unique'
  BY <1>2 DEF ServingInv, Unique
<1>. QED BY <1>3, <1>4

\* Then it clears the map.
LEMMA QuarantineServes ==
    ASSUME ServingInv, QuarantineUnwanted
    PROVE  Unique' /\ Named'
<1>1. /\ StoreLocked /\ ~StoreLocked' /\ UNCHANGED <<record, running>>
      /\ clients' = [c \in Clients |-> IF clients[c] \in DOMAIN job.todo THEN clients[c] ELSE None]
  BY DEF QuarantineUnwanted, StoreLocked, Idle, ServingInv, Inv, TypeOK
<1>2. \A g \in Grants, c \in Clients : Serving(g, c)' <=> Serving(g, c)
  BY <1>1 DEF Serving
<1>3. None \notin Grants
  BY GovernorAssumption
<1>4. Named'
  BY <1>1, <1>2, <1>3 DEF ServingInv, Named
<1>5. Unique'
  BY <1>2 DEF ServingInv, Unique
<1>. QED BY <1>4, <1>5

\* A policy that keeps the credit of a newer one is enabled or not as it was.
LEMMA RetainEnabled ==
    ASSUME NEW base \in Policy, NEW persisted \in Policy
    PROVE  RetainCredit(base, persisted).enabled = base.enabled
BY DEF RetainCredit, Policy

\* Store.Apply: a grant is enabled only if the map has no other for its client.
LEMMA ApplyServes ==
    ASSUME ServingInv, NEW g \in Grants, ReconcileApply(g)
    PROVE  Unique' /\ Named'
<1>. DEFINE grant == job.todo[g]
            p == IF accounts[g] = None THEN grant.policy
                 ELSE RetainCredit(grant.policy, accounts[g].policy)
            r == IF accounts[g] = None THEN NewRecord(grant) ELSE RecordAfter(g, p)
<1>1. /\ job.step = "apply" /\ g \in DOMAIN job.todo /\ ApplyAllowed(g, grant)
      /\ record' = [record EXCEPT ![g] = r] /\ UNCHANGED running
      /\ clients' = [clients EXCEPT ![grant.client] =
                         IF p.enabled THEN g ELSE IF @ = g THEN None ELSE @]
  BY DEF ReconcileApply, Apply
<1>2. running /\ ~StoreLocked /\ ~StoreLocked'
  BY <1>1 DEF ServingInv, Inv, ProcessInv, StoreLocked, ReconcileApply, Idle, TypeOK
<1>3. grant \in GrantInput /\ ValidGrant(grant) /\ grant.policy \in Policy /\ grant.client \in Clients
  BY <1>1 DEF ServingInv, Inv, TypeOK, IsBatch, ApplyAllowed, GrantInput
<1>4. /\ r # None /\ r.client = grant.client /\ r.policy.enabled = grant.policy.enabled
      /\ ~r.suspended /\ p.enabled = grant.policy.enabled
  <2>1. CASE accounts[g] = None
    BY <1>2, <1>3, <2>1, Creation DEF ServingInv
  <2>2. CASE accounts[g] # None
    <3>1. /\ accounts[g].policy \in Policy /\ Validate(accounts[g].policy)
          /\ record[g] # None
      BY <2>2 DEF ServingInv, Inv, GrantsSound, SoundGrant, SoundRecord, SoundAccount, Account, ValidGrant
    <3>2. p \in Policy /\ Validate(p) /\ p.enabled = grant.policy.enabled
      BY <1>3, <2>2, <3>1, RetainCreditType, RetainEnabled DEF ValidGrant
    <3>3. ~record[g].suspended /\ record[g].client = grant.client
      BY <1>1, <3>1 DEF ApplyAllowed
    <3>. QED BY <2>2, <3>2, <3>3, PolicyChange DEF ServingInv
  <2>. QED BY <2>1, <2>2
<1>5. grant.policy.enabled => clients[grant.client] \in {None, g}
  BY <1>1 DEF ApplyAllowed
<1>6. ASSUME NEW c \in Clients, c # grant.client
      PROVE  ~Serving(g, c) /\ clients[c] # g
  <2>1. ~Serving(g, c)
    BY <1>1, <1>6 DEF ApplyAllowed, Serving
  <2>. QED BY <1>2, <2>1 DEF ServingInv, Named
<1>. HIDE DEF p, r, grant
<1>7. ASSUME NEW h \in Grants, NEW c \in Clients
      PROVE  Serving(h, c)' <=> IF h = g THEN c = grant.client /\ grant.policy.enabled ELSE Serving(h, c)
  BY <1>1, <1>4 DEF Serving, ServingInv, Inv, TypeOK
<1>8. ASSUME NEW c \in Clients
      PROVE  clients'[c] = IF c # grant.client THEN clients[c]
                           ELSE IF grant.policy.enabled THEN g
                           ELSE IF clients[c] = g THEN None ELSE clients[c]
  BY <1>1, <1>3, <1>4 DEF ServingInv, Inv, TypeOK
<1>9. ASSUME NEW c \in Clients, NEW h \in Grants
      PROVE  clients'[c] = h <=> Serving(h, c)'
  <2>1. clients[c] = h <=> Serving(h, c)
    BY <1>2 DEF ServingInv, Named
  <2>2. None \notin Grants
    BY GovernorAssumption
  <2>. QED BY <1>5, <1>6, <1>7, <1>8, <2>1, <2>2
<1>10. Named'
  BY <1>2, <1>9 DEF Named
<1>11. Unique'
  BY <1>9 DEF Unique
<1>. QED BY <1>10, <1>11

\* Credit enables nothing.
LEMMA CreditAlike ==
    ASSUME Inv, NEW batch \in CreditBatches, NEW done \in SUBSET DOMAIN batch,
           ApplyCredit(batch, done), NEW g \in Grants
    PROVE  Alike(record[g], record'[g])
<1>1. CASE g \notin done
  BY <1>1 DEF ApplyCredit, Alike
<1>2. CASE g \in done
  <2>. DEFINE p == CreditPolicy(g, batch[g])
  <2>1. /\ record'[g] = RecordAfter(g, p) /\ CreditApplies(g, batch[g])
        /\ accounts[g] # None /\ record[g] # None
    BY <1>2 DEF ApplyCredit, CreditBatchAllowed
  <2>2. /\ accounts[g].policy \in Policy /\ Validate(accounts[g].policy)
        /\ record[g].policy = accounts[g].policy
    BY <2>1 DEF Inv, GrantsSound, SoundGrant, SoundRecord, SoundAccount, Account, ValidGrant
  <2>3. batch[g].creditRevision \in Uint64 /\ batch[g].creditCeiling \in Uint64
    BY <1>2, GovernorAssumption DEF IsBatch, CreditInput
  <2>4. p = accounts[g].policy \/ CreditAdvance(accounts[g].policy, p)
    BY <2>1 DEF CreditApplies
  <2>5. p \in Policy /\ Validate(p)
    BY <2>2, <2>3, <2>4, CreditPolicyType DEF CreditPolicy
  <2>6. p.enabled = accounts[g].policy.enabled
    BY <2>2 DEF CreditPolicy, Policy
  <2>. HIDE DEF p
  <2>. QED BY <2>1, <2>2, <2>5, <2>6, PolicyChange DEF Alike
<1>. QED BY <1>1, <1>2

\* limits.MergeAuthority never turns a disabled grant on.
LEMMA MergeKeepsOff ==
    ASSUME NEW q, NEW d, MergeAllowed(q, d), d.enabled
    PROVE  q.enabled
BY DEF MergeAllowed

\* An authority update creates a grant only for a client without one.
LEMMA AuthorityServes ==
    ASSUME ServingInv, NEW batch \in AuthorityBatches, NEW done \in SUBSET DOMAIN batch,
           ApplyAuthority(batch, done)
    PROVE  Unique' /\ Named'
<1>. DEFINE Wants(g, c) == batch[g].client = c /\ batch[g].policy.enabled
<1>1. /\ running /\ ~StoreLocked /\ UNCHANGED <<running, job>>
      /\ DistinctClients(batch) /\ done \subseteq DOMAIN batch
      /\ clients' = [c \in Clients |->
                       IF \E g \in done : Wants(g, c) THEN CHOOSE g \in done : Wants(g, c)
                       ELSE IF clients[c] \in done /\ batch[clients[c]].client = c THEN None
                       ELSE clients[c]]
  BY DEF ApplyAuthority
<1>2. ~StoreLocked'
  BY <1>1 DEF StoreLocked
<1>3. ASSUME NEW g \in done
      PROVE  /\ g \in Grants /\ batch[g] \in GrantInput /\ batch[g].policy \in Policy
             /\ batch[g].client \in Clients /\ AuthorityAllowed(g, batch[g])
  BY <1>1, GovernorAssumption DEF IsBatch, GrantInput, ApplyAuthority
<1>4. ASSUME NEW g \in done
      PROVE  /\ record'[g] # None /\ record'[g].client = batch[g].client
             /\ record'[g].policy.enabled = batch[g].policy.enabled /\ ~record'[g].suspended
             /\ \A c \in Clients : clients[c] = g => c = batch[g].client
             /\ batch[g].policy.enabled => clients[batch[g].client] \in {None, g}
  <2>1. g \in Grants /\ batch[g] \in GrantInput /\ batch[g].policy \in Policy
        /\ batch[g].client \in Clients /\ AuthorityAllowed(g, batch[g])
    BY <1>3
  <2>2. CASE accounts[g] = None
    <3>1. record[g] = None
      BY <1>1, <2>1, <2>2 DEF ServingInv, Inv, ProcessInv
    <3>2. record'[g] = NewRecord(batch[g]) /\ ValidGrant(batch[g])
      BY <2>1, <2>2 DEF ApplyAuthority, AuthorityAllowed
    <3>3. \A c \in Clients : ~Serving(g, c)
      BY <3>1 DEF Serving
    <3>4. \A c \in Clients : clients[c] # g
      BY <1>1, <2>1, <3>3 DEF ServingInv, Named
    <3>5. clients[batch[g].client] = None
      BY <2>1, <3>1 DEF AuthorityAllowed
    <3>. QED BY <1>1, <2>1, <2>2, <3>2, <3>4, <3>5, Creation DEF ServingInv
  <2>3. CASE accounts[g] # None
    <3>. DEFINE p == AuthorityPolicy(g, batch[g])
    <3>1. /\ record[g] # None /\ accounts[g].policy \in Policy /\ Validate(accounts[g].policy)
          /\ record[g].policy = accounts[g].policy
      BY <2>1, <2>3 DEF ServingInv, Inv, GrantsSound, SoundGrant, SoundRecord, SoundAccount, Account, ValidGrant
    <3>2. /\ ~record[g].suspended /\ record[g].client = batch[g].client
          /\ MergeAllowed(accounts[g].policy, batch[g].policy)
      BY <2>1, <3>1 DEF AuthorityAllowed
    <3>3. record'[g] = RecordAfter(g, p)
      BY <2>1, <2>3 DEF ApplyAuthority
    <3>4. p \in Policy /\ Validate(p) /\ p.enabled = batch[g].policy.enabled
      BY <2>1, <2>3, <3>1, <3>2, MergeAuthorityType DEF AuthorityPolicy
    <3>. HIDE DEF p
    <3>5. /\ record'[g] # None /\ record'[g].client = batch[g].client
          /\ record'[g].policy.enabled = batch[g].policy.enabled /\ ~record'[g].suspended
      BY <2>1, <2>3, <3>2, <3>3, <3>4, PolicyChange DEF ServingInv
    <3>6. \A c \in Clients : clients[c] = g => c = batch[g].client
      BY <1>1, <2>1, <3>2 DEF ServingInv, Named, Serving
    <3>7. batch[g].policy.enabled => Serving(g, batch[g].client)
      BY <3>1, <3>2, MergeKeepsOff DEF Serving
    <3>8. batch[g].policy.enabled => clients[batch[g].client] = g
      BY <1>1, <2>1, <3>7 DEF ServingInv, Named
    <3>. QED BY <3>5, <3>6, <3>8
  <2>. QED BY <2>2, <2>3
<1>5. ASSUME NEW h \in Grants, NEW c \in Clients
      PROVE  Serving(h, c)' <=> IF h \in done THEN Wants(h, c) ELSE Serving(h, c)
  <2>1. CASE h \in done
    BY <1>4, <2>1 DEF Serving
  <2>2. CASE h \notin done
    BY <2>2 DEF ApplyAuthority, Serving
  <2>. QED BY <2>1, <2>2
<1>6. ASSUME NEW c \in Clients, NEW g \in done, Wants(g, c)
      PROVE  clients'[c] = g /\ clients[c] \in {None, g} /\ \A h \in done : Wants(h, c) => h = g
  <2>1. \A h \in done : Wants(h, c) => h = g
    BY <1>1, <1>6 DEF DistinctClients
  <2>2. (CHOOSE h \in done : Wants(h, c)) = g
    BY <1>6, <2>1
  <2>. HIDE DEF Wants
  <2>3. clients'[c] = g
    BY <1>1, <1>6, <2>2
  <2>4. clients[c] \in {None, g}
    BY <1>4, <1>6 DEF Wants
  <2>. QED BY <2>1, <2>3, <2>4
<1>7. None \notin Grants /\ done \subseteq Grants
  BY <1>3, GovernorAssumption
<1>8. ASSUME NEW c \in Clients, NEW h \in Grants
      PROVE  clients'[c] = h <=> Serving(h, c)'
  <2>1. clients[c] = h <=> Serving(h, c)
    BY <1>1 DEF ServingInv, Named
  <2>2. CASE \E g \in done : Wants(g, c)
    <3>1. PICK g \in done : Wants(g, c)
      BY <2>2
    <3>2. /\ clients'[c] = g /\ clients[c] \in {None, g}
          /\ \A x \in done : Wants(x, c) => x = g
      BY <1>6, <3>1
    <3>. HIDE DEF Wants
    <3>. QED BY <1>5, <1>7, <2>1, <3>1, <3>2
  <2>3. CASE ~\E g \in done : Wants(g, c)
    <3>1. clients'[c] = IF clients[c] \in done /\ batch[clients[c]].client = c THEN None
                        ELSE clients[c]
      BY <1>1, <2>3
    <3>2. clients[c] \in done => batch[clients[c]].client = c
      BY <1>4
    <3>. HIDE DEF Wants
    <3>. QED BY <1>5, <1>7, <2>1, <2>3, <3>1, <3>2
  <2>. QED BY <2>2, <2>3
<1>9. Named'
  BY <1>2, <1>8 DEF Named
<1>10. Unique'
  BY <1>8 DEF Unique
<1>. QED BY <1>9, <1>10

\* Nothing serves in an empty file.
LEMMA ServingInit ==
    ASSUME Init
    PROVE  ServingInv
<1>1. Inv
  BY InitInv
<1>2. Unique /\ Named
  BY DEF Init, Unique, Named, Serving
<1>. QED BY <1>1, <1>2 DEF ServingInv

\* Every step keeps the map and the records in agreement.
LEMMA ServingNext ==
    ASSUME ServingInv, [Next]_vars
    PROVE  ServingInv'
<1>1. Inv'
  BY NextInv DEF ServingInv
<1>2. Inv /\ Unique /\ Named
  BY DEF ServingInv
<1>. SUFFICES Unique' /\ Named'
  BY <1>1 DEF ServingInv
<1>3. ASSUME UNCHANGED <<record, clients, running, job>>
      PROVE  Unique' /\ Named'
  <2>1. \A g \in Grants : Alike(record[g], record'[g])
    BY <1>3 DEF Alike
  <2>. QED BY <1>2, <1>3, <2>1, AlikeStep
<1>4. CASE Open
  <2>1. /\ UNCHANGED <<record, job>> /\ clients' = ServingMap /\ ~StoreLocked
    BY <1>2, <1>4 DEF Open, StoreLocked, Inv, ProcessInv
  <2>2. \A g \in Grants, c \in Clients : Serving(g, c)' <=> Serving(g, c)
    BY <2>1 DEF Serving
  <2>3. ~StoreLocked'
    BY <2>1 DEF StoreLocked
  <2>4. \A g \in Grants, c \in Clients : clients'[c] = g <=> Serving(g, c)
    BY <1>2, <2>1, OpenNames
  <2>. QED BY <1>2, <2>2, <2>3, <2>4 DEF Unique, Named
<1>5. CASE Crash
  <2>1. \A g \in Grants, c \in Clients : Serving(g, c)' <=> Serving(g, c)
    BY <1>5 DEF Crash, Serving
  <2>. QED BY <1>2, <1>5, <2>1 DEF Crash, Unique, Named
<1>6. CASE Tick \/ UNCHANGED vars
  BY <1>3, <1>6 DEF Tick, vars
<1>7. ASSUME NEW g \in Grants, NEW dir \in Direction, NEW n \in 1 .. MaxChunk,
             NEW partial \in BOOLEAN, Take(g, dir, n, partial)
      PROVE  Unique' /\ Named'
  <2>1. \A h \in Grants : Alike(record[h], record'[h])
    BY <1>2, <1>7, TakeAlike
  <2>2. UNCHANGED <<clients, running, job>>
    BY <1>7 DEF Take
  <2>. QED BY <1>2, <2>1, <2>2, AlikeStep
<1>8. ASSUME NEW g \in Grants, NEW dir \in Direction, NEW n \in 1 .. MaxChunk, Measure(g, dir, n)
      PROVE  Unique' /\ Named'
  BY <1>3, <1>8 DEF Measure
<1>9. CASE ReconcileFail
  <2>1. UNCHANGED <<record, clients, running>> /\ ~StoreLocked /\ ~StoreLocked'
    BY <1>9 DEF ReconcileFail, StoreLocked, Idle
  <2>2. \A g \in Grants, c \in Clients : Serving(g, c)' <=> Serving(g, c)
    BY <2>1 DEF Serving
  <2>. QED BY <1>2, <2>1, <2>2 DEF Unique, Named
<1>10. ASSUME NEW batch \in CreditBatches, NEW done \in SUBSET DOMAIN batch, ApplyCredit(batch, done)
       PROVE  Unique' /\ Named'
  <2>1. \A h \in Grants : Alike(record[h], record'[h])
    BY <1>2, <1>10, CreditAlike
  <2>2. UNCHANGED <<clients, running, job>>
    BY <1>10 DEF ApplyCredit
  <2>. QED BY <1>2, <2>1, <2>2, AlikeStep
<1>. QED
  BY <1>4, <1>5, <1>6, <1>7, <1>8, <1>9, <1>10, ReconcileServes, QuarantineServes, ApplyServes,
     AuthorityServes DEF Next

-----------------------------------------------------------------------------
\* Records and map agree in every reachable state.
THEOREM ServingInvariance == Spec => []ServingInv
<1>1. Init => ServingInv
  BY ServingInit
<1>2. ServingInv /\ [Next]_vars => ServingInv'
  BY ServingNext
<1>. QED BY <1>1, <1>2, PTL DEF Spec

\* However the deployments, the online updates and the crashes interleave, the
\* file the governor leaves behind is one that Open accepts.
THEOREM AlwaysReopenable == Spec => []Reopenable
<1>1. ServingInv => Reopenable
  BY DEF ServingInv, Inv, GrantsSound, SoundGrant, SoundRecord, Unique, Reopenable, OpenAllowed
<1>. QED BY <1>1, ServingInvariance, PTL

\* Whenever the store's mutex is free, Lookup answers with the grant that is
\* enabled and not suspended on disk.
THEOREM LookupCorrect == Spec => []LookupServesDurableGrant
<1>1. ServingInv => LookupServesDurableGrant
  BY NamedLookup DEF ServingInv, Inv, LookupServesDurableGrant
<1>. QED BY <1>1, ServingInvariance, PTL
=============================================================================
