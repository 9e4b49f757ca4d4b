---------------------------- MODULE QuotaCycle ----------------------------
(***************************************************************************)
(* Depletion, reset and renewal of one client on one local inbound.        *)
(* Whether a client is enabled is stored three times: on its traffic row,  *)
(* on its client record and inside the settings of the inbound; the core   *)
(* holds a fourth copy.  The traffic poll decides a depletion inside the   *)
(* serial writer and writes the settings later, under the lock of the      *)
(* inbound; edits of the inbound and resets take that lock, and then the   *)
(* writer.  Transactions of the writer are single steps (TrafficWriter).   *)
(***************************************************************************)
EXTENDS Integers

CONSTANTS
    Quota,            \* bytes the client may use
    MaxUse,           \* bytes it uses in all
    MaxEdits,         \* edits of other clients of the inbound
    ResetKinds,       \* "one": ResetTrafficByEmail, "many": BulkResetTraffic, "all": ResetAllClientTraffics
    MaxResets,
    MaxPeriods,       \* times the client expires
    Renews,           \* its reset interval is set
    MaxFaults,        \* calls of the core that fail
    RestartOnDisable, \* values of the setting restartXrayOnClientDisable
    StartsCut         \* the client is depleted and cut off initially

QuotaAssumption ==
    /\ Quota \in Nat \ {0} /\ {MaxUse, MaxEdits, MaxResets, MaxPeriods, MaxFaults} \subseteq Nat
    /\ ResetKinds \subseteq {"one", "many", "all"}
    /\ {Renews, StartsCut} \cup RestartOnDisable \subseteq BOOLEAN

VARIABLES
    used,     \* up + down of the traffic row
    expired,  \* its expiry time has passed
    row,      \* client_traffics.enable
    rec,      \* clients.enable
    blob,     \* enable of the client in inbounds.settings
    core,     \* the core serves the client
    restart,  \* a restart of the core is asked for
    need,     \* who will ask for one when it ends
    lock,     \* holder of lockInbound
    poll,     \* where the traffic job is
    edit,     \* an edit in progress, and the settings it has read
    reset,    \* a reset in progress
    owed,     \* ghost: the allowance was given back after the last depletion
    left      \* bytes, edits, resets, periods and faults still to come

vars == <<used, expired, row, rec, blob, core, restart, need, lock, poll, edit, reset, owed, left>>

Idle == [at |-> "idle", kind |-> "none", was |-> FALSE]

Init ==
    /\ used = (IF StartsCut THEN Quota ELSE 0) /\ expired = FALSE
    /\ row = ~StartsCut /\ rec = ~StartsCut /\ blob = ~StartsCut /\ core = ~StartsCut
    /\ restart = FALSE /\ need = {} /\ lock = "none" /\ poll = "idle"
    /\ edit = [at |-> "idle", base |-> FALSE] /\ reset = Idle /\ owed = ~StartsCut
    /\ left = [use |-> MaxUse, edits |-> MaxEdits, resets |-> MaxResets,
               periods |-> MaxPeriods, faults |-> MaxFaults]

Depleted(u, e) == u >= Quota \/ e
Spend(what) == left[what] > 0 /\ left' = [left EXCEPT ![what] = @ - 1]

\* Mutant: the lock of an inbound keeps nobody out.
FreeAlways == TRUE

\* lockInbound
Free == lock = "none"

\* A call of the core, which may fail; then the caller asks for a restart when it ends.
Push(who, present) ==
    \/ core' = present /\ UNCHANGED <<need, left>>
    \/ Spend("faults") /\ need' = need \cup {who} /\ UNCHANGED core

\* SetToNeedRestart, if one of the calls failed
Ask(who) == restart' = (restart \/ who \in need) /\ need' = need \ {who}

-----------------------------------------------------------------------------
\* A client that is served uses a byte, which the next poll collects.
Use ==
    /\ core /\ Spend("use") /\ used' = used + 1
    /\ UNCHANGED <<expired, row, rec, blob, core, restart, need, lock, poll, edit, reset, owed>>

Expire ==
    /\ ~expired /\ Spend("periods") /\ expired' = TRUE
    /\ UNCHANGED <<used, row, rec, blob, core, restart, need, lock, poll, edit, reset, owed>>

\* addTrafficLocked when the client is due for renewal: a new period, and SyncInbound.
PollRenews ==
    /\ poll = "idle" /\ Renews /\ expired
    /\ used' = 0 /\ expired' = FALSE /\ row' = TRUE /\ owed' = TRUE
    /\ blob' = (blob \/ ~row) /\ rec' = (blob \/ ~row)
    /\ poll' = IF row THEN "idle" ELSE "renewed"
    /\ UNCHANGED <<core, restart, need, lock, edit, reset, left>>

RenewalApplies == row /\ rec

\* applyRenewedClient, under the lock
PollRestores ==
    /\ poll = "renewed" /\ Free
    /\ poll' = "end"
    /\ IF RenewalApplies THEN Push("poll", TRUE) ELSE UNCHANGED <<core, need, left>>
    /\ UNCHANGED <<used, expired, row, rec, blob, restart, lock, edit, reset, owed>>

\* Mutant: the settings are not written after the commit, so that the core keeps the client.
AfterDepletionNothing == "cut"

\* The writes that disableInvalidClients hands to its caller
AfterDepletion == "pending"

\* Mutant: the quota itself may be used up without consequence.
SelectedLate == row /\ (used > Quota \/ expired)

\* depletedCond, for rows that are enabled
Selected == row /\ Depleted(used, expired)

\* disableInvalidClients: row and record are flipped in the transaction.
PollDepletes ==
    /\ poll = "idle" /\ Selected /\ ~(Renews /\ expired)
    /\ row' = FALSE /\ rec' = FALSE /\ owed' = FALSE /\ poll' = AfterDepletion
    /\ UNCHANGED <<used, expired, blob, core, restart, need, lock, edit, reset, left>>

\* applyOneDisable: take the lock, and ask again whether the record is disabled.
PollLocks ==
    /\ poll = "pending" /\ Free
    /\ IF rec THEN poll' = "cut" /\ UNCHANGED lock ELSE poll' = "locked" /\ lock' = "poll"
    /\ UNCHANGED <<used, expired, row, rec, blob, core, restart, need, edit, reset, owed, left>>

PollMarks ==
    /\ poll = "locked" /\ poll' = "marked" /\ blob' = FALSE
    /\ UNCHANGED <<used, expired, row, rec, core, restart, need, lock, edit, reset, owed, left>>

PollRemoves ==
    /\ poll = "marked" /\ poll' = "cut" /\ lock' = "none" /\ Push("poll", FALSE)
    /\ UNCHANGED <<used, expired, row, rec, blob, restart, edit, reset, owed>>

\* RenderInbound: who is in the configuration of a core that starts
Rendered == rec /\ row

\* CutDisabledClients: at once if the client is connected, or at the next occasion
PollCuts ==
    /\ poll = "cut" /\ poll' = "end"
    /\ \/ FALSE \in RestartOnDisable /\ UNCHANGED <<core, restart>>
       \/ TRUE \in RestartOnDisable /\ core' = Rendered /\ restart' = FALSE
       \/ TRUE \in RestartOnDisable /\ restart' = TRUE /\ UNCHANGED core
    /\ UNCHANGED <<used, expired, row, rec, blob, need, lock, edit, reset, owed, left>>

PollEnds ==
    /\ poll = "end" /\ poll' = "idle" /\ Ask("poll")
    /\ UNCHANGED <<used, expired, row, rec, blob, core, lock, edit, reset, owed, left>>

Restart ==
    /\ restart /\ restart' = FALSE /\ core' = Rendered
    /\ UNCHANGED <<used, expired, row, rec, blob, need, lock, poll, edit, reset, owed, left>>

-----------------------------------------------------------------------------
\* An edit of another client: read the settings under the lock, and commit them in the writer.
EditReads ==
    /\ edit.at = "idle" /\ Free /\ Spend("edits")
    /\ lock' = "edit" /\ edit' = [at |-> "read", base |-> blob]
    /\ UNCHANGED <<used, expired, row, rec, blob, core, restart, need, poll, reset, owed>>

\* Mutant: the settings as they were read are written back.
MergedStale(current) == edit.base

\* rebaseClientSettings: a field that the edit left as it was keeps its present value.
Merged(current) == current

EditCommits ==
    /\ edit.at = "read" /\ edit' = [at |-> "idle", base |-> FALSE] /\ lock' = "none"
    /\ blob' = Merged(blob) /\ rec' = Merged(blob)
    /\ UNCHANGED <<used, expired, row, core, restart, need, poll, reset, owed, left>>

-----------------------------------------------------------------------------
\* ResetTrafficByEmail reads the record first, the other two later.
ResetStarts(k) ==
    /\ reset.at = "idle" /\ Spend("resets")
    /\ reset' = [at |-> "zero", kind |-> k, was |-> k = "one" /\ ~rec]
    /\ UNCHANGED <<used, expired, row, rec, blob, core, restart, need, lock, poll, edit, owed>>

\* The write that zeroes the usage; only ResetAllClientTraffics leaves the row disabled for now.
ResetZeroes ==
    /\ reset.at = "zero"
    /\ used' = 0 /\ owed' = TRUE
    /\ row' = (row \/ reset.kind # "all")
    /\ reset' = [reset EXCEPT !.at = "check",
                              !.was = IF reset.kind = "all" THEN Depleted(used, expired) /\ ~row ELSE @]
    /\ IF reset.kind = "one" /\ ~row /\ blob THEN Push("reset", TRUE) ELSE UNCHANGED <<core, need, left>>
    /\ UNCHANGED <<expired, rec, blob, restart, lock, poll, edit>>

\* reEnableRecovered, BulkResetTraffic and ResetTrafficByEmail: is there anything to enable?
Recovers ==
    CASE reset.kind = "one"  -> reset.was
      [] reset.kind = "many" -> ~rec
      [] reset.kind = "all"  -> reset.was /\ ~Depleted(used, expired)

ResetChecks ==
    /\ reset.at = "check"
    /\ IF Recovers THEN reset' = [reset EXCEPT !.at = "lock"] /\ UNCHANGED <<restart, need>>
                   ELSE reset' = Idle /\ Ask("reset")
    /\ UNCHANGED <<used, expired, row, rec, blob, core, lock, poll, edit, owed, left>>

\* bulkSetEnableInboundClients and UpdateInboundClient, which do nothing for unchanged settings
ResetLocks ==
    /\ reset.at = "lock" /\ Free
    /\ IF blob THEN reset' = [reset EXCEPT !.at = "rows"] /\ UNCHANGED lock
               ELSE reset' = [reset EXCEPT !.at = "commit"] /\ lock' = "reset"
    /\ UNCHANGED <<used, expired, row, rec, blob, core, restart, need, poll, edit, owed, left>>

ResetCommits ==
    /\ reset.at = "commit" /\ reset' = [reset EXCEPT !.at = "push"]
    /\ blob' = TRUE /\ rec' = TRUE /\ row' = (row \/ reset.kind # "all")
    /\ UNCHANGED <<used, expired, core, restart, need, lock, poll, edit, owed, left>>

ResetPushes ==
    /\ reset.at = "push" /\ reset' = [reset EXCEPT !.at = "rows"] /\ lock' = "none" /\ Push("reset", TRUE)
    /\ UNCHANGED <<used, expired, row, rec, blob, restart, poll, edit, owed>>

\* The last write: BulkSetEnable sets row and record, Update the record.
ResetRows == <<row \/ reset.kind = "all", TRUE>>

ResetEnds ==
    /\ reset.at = "rows" /\ reset' = Idle /\ Ask("reset")
    /\ row' = ResetRows[1] /\ rec' = ResetRows[2]
    /\ UNCHANGED <<used, expired, blob, core, lock, poll, edit, owed, left>>

-----------------------------------------------------------------------------
Poll == PollRenews \/ PollRestores \/ PollDepletes \/ PollLocks \/ PollMarks \/ PollRemoves \/ PollCuts \/ PollEnds
Reset ==
    \/ ResetZeroes \/ ResetChecks \/ ResetLocks \/ ResetCommits \/ ResetPushes \/ ResetEnds

Next ==
    \/ Use \/ Expire \/ Poll \/ Restart \/ EditReads \/ EditCommits
    \/ \E k \in ResetKinds : ResetStarts(k)
    \/ Reset

Spec == Init /\ [][Next]_vars

\* The poll is a cron job, the edit and the reset are requests that go on, locks are handed over.
FairSpec ==
    /\ Spec /\ WF_vars(EditCommits) /\ WF_vars(Restart)
    /\ SF_vars(PollRestores) /\ SF_vars(PollLocks) /\ WF_vars(PollDepletes \/ PollRenews)
    /\ WF_vars(PollMarks) /\ WF_vars(PollRemoves) /\ WF_vars(PollCuts) /\ WF_vars(PollEnds)
    /\ SF_vars(ResetLocks) /\ WF_vars(ResetZeroes \/ ResetChecks \/ ResetCommits \/ ResetPushes \/ ResetEnds)

-----------------------------------------------------------------------------
\* Types of the state
TypeOK ==
    /\ used \in 0..(Quota + MaxUse) /\ {expired, row, rec, blob, core, restart, owed} \subseteq BOOLEAN
    /\ lock \in {"none", "poll", "edit", "reset"}
    /\ poll \in {"idle", "renewed", "pending", "locked", "marked", "cut", "end"} /\ need \subseteq {"poll", "reset"}
    /\ edit \in [at : {"idle", "read"}, base : BOOLEAN]
    /\ reset \in [at : {"idle", "zero", "check", "lock", "commit", "push", "rows"},
                  kind : ResetKinds \cup {"none"}, was : BOOLEAN]
    /\ (lock = "edit") = (edit.at = "read") /\ (lock = "poll") = (poll \in {"locked", "marked"})

Quiet == poll = "idle" /\ edit.at = "idle" /\ reset.at = "idle" /\ ~restart

\* A client whose quota is exhausted and whose row the poll has disabled is not served once the
\* deferred write, the edits and the resets under way have ended (inbound_disable.go:184-205).
DepletedIsCut == Quiet /\ ~row => ~core

\* A client that was given its allowance back by a reset or a renewal is enabled in all three
\* places and served once everything under way has ended; a deferred disable does not undo it
\* (pending_client_disable.go:81-87).
AllowanceStands == Quiet /\ owed /\ ~Depleted(used, expired) => row /\ rec /\ blob /\ core

\* Somebody who is served and has used his quota or is past his expiry is eventually cut off,
\* unless a reset gives him more; zeroing the usage does not move a date (client_traffic.go:82).
ExhaustedGoes == (core /\ Depleted(used, expired)) ~> (~core \/ ~Depleted(used, expired))
=============================================================================
