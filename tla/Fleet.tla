------------------------------- MODULE Fleet -------------------------------
(***************************************************************************)
(* The terms of a client, and beside them the credit of a runtime.  They   *)
(* share no state: the variables of CreditRefill have names of their own.  *)
(***************************************************************************)
EXTENDS ClientTerms

CONSTANTS
    CreditGrants, CreditWorkers, Target, LowWater, Quota,
    CreditRates, CreditDeployments, CreditFaults, Blocking, Overrun

VARIABLES
    issued, budget, outbox, obs, sequence, fresh, candidate, queue,
    refills, open, update, desired, deployed, dep, running, record,
    told, report, reported, due, batch, job, rates, mishaps

Credit == INSTANCE CreditRefill WITH
    Grants <- CreditGrants, Workers <- CreditWorkers, MaxRates <- CreditRates,
    MaxDeployments <- CreditDeployments, MaxFaults <- CreditFaults,
    row <- outbox, share <- open, applied <- deployed, base <- running, rec <- record,
    faults <- mishaps

ASSUME CreditParameters == Credit!RefillAssumption

creditVars ==
    <<issued, budget, outbox, obs, sequence, fresh, candidate, queue, refills, open, update,
      desired, deployed, dep, running, record, told, report, reported, due, batch, job, rates, mishaps>>

\* Credit: repeated reports, candidates read twice and overrun leases never put more than the
\* target in unspent credit on a node, and no candidate is left in a queue nobody will claim; what
\* counts as acknowledged is in force, although receipts may refer to rows that were replaced, and
\* what was issued and is not in force is on its way.
CreditSound ==
    /\ Credit!TypeOK /\ Credit!UnspentBounded /\ Credit!CandidatesQueued
    /\ Credit!AcknowledgedHeld /\ Credit!CreditOnItsWay
=============================================================================
