-------------------------- MODULE MCUsagePipeline ---------------------------
(***************************************************************************)
(* Instances of UsagePipeline for TLC.                                     *)
(***************************************************************************)
EXTENDS UsagePipeline

CONSTANTS g1, g2

GrantMeters == Grants \X (1 .. MaxIncarnation)

TwoEach == [g \in Grants |-> 2]
TwoAndOne == [g \in Grants |-> IF g = g1 THEN 2 ELSE 1]
=============================================================================
