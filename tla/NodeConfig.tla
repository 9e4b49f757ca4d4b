----------------------------- MODULE NodeConfig -----------------------------
(***************************************************************************)
(* The panel that manages nodes, and an inbound on one of them: the row of *)
(* the panel, the copy on the node, and what keeps the two the same.  An   *)
(* edit marks the node dirty and, when it is of one client, also sends the *)
(* client; the job pushes the whole inbound to a dirty node unless the     *)
(* fingerprint of the last push says that the node has it, and adopts what *)
(* a clean node reports.  The content of a client's entry is the number of *)
(* the edit that made it, its removal included.                            *)
(***************************************************************************)
EXTENDS Integers

CONSTANTS
    Clients,
    MaxEdits,     \* edits, of the panel and of the node's own administrator
    MaxFaults,    \* requests that fail, and restarts of the panel
    Overlap,      \* an edit may be sending its client while the job is pushing the inbound
    None

NodeConfigAssumption ==
    /\ {MaxEdits, MaxFaults} \subseteq Nat /\ Overlap \in BOOLEAN /\ None \notin [Clients -> Nat]

\* "client" holds the lock of the inbound until it has sent the client; "inbound" saves the
\* form of the whole inbound, without that lock and without a push.
Editors == {"client", "inbound"}

VARIABLES
    cfg,     \* per client, its entry in the row of the panel
    ncfg,    \* and in the row of the node
    fp,      \* pushedFP of the inbound: what the last push left on the node, or None
    dirty,   \* config_dirty
    stamp,   \* config_dirty_at
    edit,    \* per editor, where it is
    job,     \* where NodeTrafficSyncJob is with the node
    made,    \* edits so far
    faults

rowVars == <<cfg, dirty, stamp>>
vars == <<rowVars, ncfg, fp, edit, job, made, faults>>

NoEdit == [pc |-> "idle", client |-> None, base |-> None, ours |-> None]
NoJob == [pc |-> "idle", at |-> 0, payload |-> None, snap |-> None]

Init ==
    /\ cfg = [c \in Clients |-> 0] /\ ncfg = cfg /\ fp = None /\ dirty = FALSE /\ stamp = 0
    /\ edit = [e \in Editors |-> NoEdit] /\ job = NoJob /\ made = 0 /\ faults = 0

Faulty == faults < MaxFaults /\ faults' = faults + 1
Editing == made < MaxEdits /\ made' = made + 1

-----------------------------------------------------------------------------
(* Edits                                                                   *)

\* The row is read, and the new settings are made from it.
EditReads(e, c) ==
    /\ edit[e].pc = "idle" /\ made < MaxEdits
    /\ edit' = [edit EXCEPT ![e] = [NoEdit EXCEPT !.pc = "read", !.client = c, !.base = cfg]]
    /\ UNCHANGED <<rowVars, ncfg, fp, job, made, faults>>

\* Mutant: the settings are saved as they were made, whatever was saved meanwhile.
Overwritten(base, ours) == ours

\* rebaseClientSettings: what the editor left as it was takes the value of the row.
Rebased(base, ours) == [c \in Clients |-> IF ours[c] = base[c] THEN cfg[c] ELSE ours[c]]

\* The writer runs one transaction at a time; the fingerprint of what a merge adopted is
\* recorded before the next.
WriterFree == job.pc # "adopt"

Sending == edit["client"].pc \in {"push", "landed"}
Pushing == job.pc \in {"list", "push", "landed"}

\* nodePushPlan: a node that is disabled or offline is sent nothing.
EditCommits(e, push) ==
    LET c == edit[e].client
        ours == [edit[e].base EXCEPT ![c] = made + 1]
    IN  /\ edit[e].pc = "read" /\ WriterFree /\ Editing
        /\ push => e = "client" /\ (Overlap \/ ~Pushing)
        /\ cfg' = Rebased(edit[e].base, ours) /\ dirty' = TRUE /\ stamp' = stamp + 1
        /\ edit' = [edit EXCEPT ![e] = IF push THEN [@ EXCEPT !.pc = "push", !.ours = ours] ELSE NoEdit]
        /\ UNCHANGED <<ncfg, fp, job, faults>>

\* UpdateUser, AddClient, DeleteUser: the node takes the entry of the client, and only that.
EditLands ==
    LET w == edit["client"]
    IN  /\ w.pc = "push"
        /\ ncfg' = [ncfg EXCEPT ![w.client] = w.ours[w.client]]
        /\ edit' = [edit EXCEPT !["client"].pc = "landed"]
        /\ UNCHANGED <<rowVars, fp, job, made, faults>>

\* The request failed, or its answer was lost.
EditFails ==
    /\ Sending /\ Faulty
    /\ edit' = [edit EXCEPT !["client"] = NoEdit]
    /\ UNCHANGED <<rowVars, ncfg, fp, job, made>>

\* Mutant: the fingerprint is advanced whatever it was.
AdvancedAlways(base, ours) == ours

\* AdvancePushedInbound
Advanced(base, ours) == IF fp = base THEN ours ELSE fp

EditAdvances ==
    /\ edit["client"].pc = "landed"
    /\ fp' = Advanced(edit["client"].base, edit["client"].ours)
    /\ edit' = [edit EXCEPT !["client"] = NoEdit]
    /\ UNCHANGED <<rowVars, ncfg, job, made, faults>>

\* The node's own administrator edits a client there.
NodeEdits(c) ==
    /\ Editing /\ ncfg' = [ncfg EXCEPT ![c] = made + 1]
    /\ UNCHANGED <<rowVars, fp, edit, job, faults>>

-----------------------------------------------------------------------------
(* syncOne                                                                 *)

\* The row of the node, as the run loaded it
JobLoads ==
    /\ job.pc = "idle"
    /\ job' = [NoJob EXCEPT !.pc = IF dirty THEN "read" ELSE "fetch", !.at = stamp]
    /\ UNCHANGED <<rowVars, ncfg, fp, edit, made, faults>>

\* ReconcileNode: the rows are read, then the node is asked which inbounds it has.
JobReads ==
    /\ job.pc = "read" /\ (Overlap \/ ~Sending)
    /\ job' = [job EXCEPT !.pc = "list", !.payload = cfg]
    /\ UNCHANGED <<rowVars, ncfg, fp, edit, made, faults>>

\* ReconcileInbound: the push is skipped when the fingerprint is that of the payload.
JobLists ==
    /\ job.pc = "list"
    /\ job' = [job EXCEPT !.pc = IF fp = job.payload THEN "clear" ELSE "push"]
    /\ UNCHANGED <<rowVars, ncfg, fp, edit, made, faults>>

\* UpdateInbound: the node takes the whole payload.
JobLands ==
    /\ job.pc = "push" /\ ncfg' = job.payload /\ job' = [job EXCEPT !.pc = "landed"]
    /\ UNCHANGED <<rowVars, fp, edit, made, faults>>

\* recordPushedInbound
JobRecords ==
    /\ job.pc = "landed" /\ fp' = job.payload /\ job' = [job EXCEPT !.pc = "clear"]
    /\ UNCHANGED <<rowVars, ncfg, edit, made, faults>>

\* A reconcile that failed leaves the node dirty; its traffic is fetched all the same.
ReconcileFails ==
    /\ Pushing /\ Faulty /\ job' = [job EXCEPT !.pc = "fetch"]
    /\ UNCHANGED <<rowVars, ncfg, fp, edit, made>>

\* Mutant: the flag is cleared although the node was marked again.
ClearedAlways(at) == FALSE

\* ClearNodeDirty: not when the node was marked after the run loaded it
Cleared(at) == IF stamp = at THEN FALSE ELSE dirty

JobClears ==
    /\ job.pc = "clear" /\ dirty' = Cleared(job.at) /\ job' = [job EXCEPT !.pc = "fetch"]
    /\ UNCHANGED <<cfg, stamp, ncfg, fp, edit, made, faults>>

\* FetchTrafficSnapshot
JobFetches ==
    /\ job.pc = "fetch" /\ job' = [job EXCEPT !.pc = "merge", !.snap = ncfg]
    /\ UNCHANGED <<rowVars, ncfg, fp, edit, made, faults>>

FetchFails ==
    /\ job.pc = "fetch" /\ Faulty /\ job' = NoJob
    /\ UNCHANGED <<rowVars, ncfg, fp, edit, made>>

\* Mutant: what the node reported is adopted whether the node is dirty or not.
AdoptsAlways == TRUE

\* The flag is read again in the writer.
Adopts == ~dirty

\* setRemoteTrafficLocked: what a clean node reported replaces the row.
JobMerges ==
    /\ job.pc = "merge"
    /\ cfg' = IF Adopts THEN job.snap ELSE cfg
    /\ job' = IF Adopts /\ cfg # job.snap THEN [job EXCEPT !.pc = "adopt"] ELSE NoJob
    /\ UNCHANGED <<dirty, stamp, ncfg, fp, edit, made, faults>>

\* RecordAdoptedInbound
JobAdopts ==
    /\ job.pc = "adopt" /\ fp' = job.snap /\ job' = NoJob
    /\ UNCHANGED <<rowVars, ncfg, edit, made, faults>>

\* Fingerprints are in memory.
PanelRestarts ==
    /\ Faulty /\ fp' = None /\ edit' = [e \in Editors |-> NoEdit] /\ job' = NoJob
    /\ UNCHANGED <<rowVars, ncfg, made>>

-----------------------------------------------------------------------------
Edits ==
    \/ \E c \in Clients : NodeEdits(c) \/ \E e \in Editors : EditReads(e, c)
    \/ \E e \in Editors, push \in BOOLEAN : EditCommits(e, push)
    \/ EditLands \/ EditFails \/ EditAdvances

Sync ==
    \/ JobLoads \/ JobReads \/ JobLists \/ JobLands \/ JobRecords \/ JobClears
    \/ JobFetches \/ JobMerges \/ JobAdopts

Next == Edits \/ Sync \/ ReconcileFails \/ FetchFails \/ PanelRestarts

\* The job is run every few seconds, its requests have deadlines.
Fairness == WF_vars(Sync)

Spec == Init /\ [][Next]_vars
FairSpec == Spec /\ Fairness

-----------------------------------------------------------------------------
(* Properties                                                              *)

Config == [Clients -> 0..MaxEdits]

TypeOK ==
    /\ cfg \in Config /\ ncfg \in Config /\ fp \in Config \cup {None}
    /\ dirty \in BOOLEAN /\ stamp \in 0..MaxEdits
    /\ \A e \in Editors : edit[e].pc \in {"idle", "read", "push", "landed"}
    /\ job.pc \in {"idle", "read", "list", "push", "landed", "clear", "fetch", "merge", "adopt"}

\* The node has whatever edits the row holds, or newer ones of its own.
Holds(config) == \A c \in Clients : ncfg[c] >= config[c]

\* A node that is not marked dirty has every edit of the panel: no failure, restart or overlap
\* of an edit with a run of the job leaves one behind unmarked.
NodeHasEdits == ~dirty => Holds(cfg)

\* A fingerprint is recorded or advanced only to what the node holds.
FingerprintStep == fp' # fp /\ fp' # None => Holds(fp')
FingerprintProves == [][FingerprintStep]_vars

\* AdvancePushedInbound moves a fingerprint only when the node is proved to hold the new state.
AdvanceProves == [][EditAdvances => FingerprintStep]_vars

\* No edit is undone by an older one, such as a snapshot fetched before it.
EditsKeptStep == \A c \in Clients : cfg'[c] >= cfg[c]
EditsKept == [][EditsKeptStep]_vars

\* The two rows become the same once edits and faults end.
Converges == <>[](cfg = ncfg)
=============================================================================
