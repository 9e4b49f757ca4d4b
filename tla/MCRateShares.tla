---------------------------- MODULE MCRateShares ----------------------------
(***************************************************************************)
(* Instances of RateShares for TLC.                                        *)
(***************************************************************************)
EXTENDS RateShares

Wide == Limited(5, 7)
Narrow == Limited(2, 4)

WideAndNarrow == {Wide, Narrow}
=============================================================================
