--------------------------- MODULE MCFleetLedger ----------------------------
(***************************************************************************)
(* A client with a limit and two placements, a client without one, and a   *)
(* budget they share.                                                      *)
(***************************************************************************)
EXTENDS FleetLedger, TLC

CONSTANTS p1, p2, p3, mine, yours, group, o1, o2, o3, o4

MCOwn == [p \in Placements |-> IF p = p3 THEN yours ELSE mine]
MCParents == [p \in Placements |-> {group}]
MCQuota == [b \in Budgets |-> CASE b = yours -> 0 [] b = mine -> 4 [] b = group -> 5]
MCOpening == [b \in Budgets |-> IF b = group THEN 1 ELSE 0]
MCTiers == [b \in Budgets |-> IF b = group THEN {} ELSE {2}]

\* Operation ids are interchangeable.
Symmetry == Permutations(Operations)
=============================================================================
