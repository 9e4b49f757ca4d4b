------------------------- MODULE MCDeploymentSync --------------------------
(***************************************************************************)
(* Instances of DeploymentSync for TLC.                                    *)
(***************************************************************************)
EXTENDS DeploymentSync

CONSTANTS p1, p2
=============================================================================
