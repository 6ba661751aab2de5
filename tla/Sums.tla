-------------------------------- MODULE Sums --------------------------------
(***************************************************************************)
(* The sum of a table of numbers over a finite set of its keys: stakes over *)
(* accounts, bonds over disputes, deposits over providers.                  *)
(***************************************************************************)
EXTENDS FiniteSetsExt

SumOver(f, S) == MapThenSumSet(LAMBDA x : f[x], S)
=============================================================================
