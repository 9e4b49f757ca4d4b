------------------------------- MODULE Totals -------------------------------
(***************************************************************************)
(* Sums over a set of rows or members, of a function of them.              *)
(***************************************************************************)
EXTENDS Integers, FiniteSets, FiniteSetsExt

Total(f, S) == MapThenSumSet(LAMBDA x : f[x], S)
=============================================================================
