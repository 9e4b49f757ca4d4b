--------------------------- MODULE MCClientTerms ---------------------------
(***************************************************************************)
(* Instances of ClientTerms for TLC.                                       *)
(***************************************************************************)
EXTENDS ClientTerms

CONSTANTS n1, n2
=============================================================================
