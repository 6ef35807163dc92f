-------------------------------- MODULE Sums --------------------------------
(***************************************************************************)
(* Sums of numbers, as a recursive function, which can be reasoned about.  *)
(***************************************************************************)
EXTENDS Integers

\* f[1] + ... + f[n].
SumTo(f, n) == LET sum[m \in 0..n] == IF m = 0 THEN 0 ELSE sum[m - 1] + f[m] IN sum[n]
=============================================================================
