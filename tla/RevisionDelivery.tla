-------------------------- MODULE RevisionDelivery --------------------------
(***************************************************************************)
(* What the deployment protocol promises the rest of the control plane:    *)
(* revisions are numbered in the order they are published, every runtime   *)
(* moves only forwards through them (it may skip some), and a revision     *)
(* counts as applied only once every runtime has reached it.               *)
(***************************************************************************)
EXTENDS Integers

CONSTANT Runtimes

VARIABLES
    desired,    \* the last revision published
    force,      \* the revision each runtime runs
    confirmed   \* the last revision known to be applied

Init ==
    /\ desired = 0 /\ confirmed = 0
    /\ force = [r \in Runtimes |-> 0]

Publish ==
    /\ desired' = desired + 1
    /\ UNCHANGED <<force, confirmed>>

Apply(r) ==
    /\ force' \in {[force EXCEPT ![r] = n] : n \in force[r] + 1 .. desired}
    /\ UNCHANGED <<desired, confirmed>>

Confirm ==
    /\ confirmed' \in {n \in confirmed + 1 .. desired : \A r \in Runtimes : n <= force[r]}
    /\ UNCHANGED <<desired, force>>

Next == Publish \/ (\E r \in Runtimes : Apply(r)) \/ Confirm

Spec == Init /\ [][Next]_<<desired, force, confirmed>>
=============================================================================
