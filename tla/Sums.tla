-------------------------------- MODULE Sums --------------------------------
(***************************************************************************)
(* Sums of the values a function takes on 1 .. n.  The code adds such sums *)
(* up in loops over the account index or the investment index.             *)
(***************************************************************************)
EXTENDS Integers

Sum(f, n) ==
  LET s[i \in 0 .. n] == IF i = 0 THEN 0 ELSE s[i - 1] + f[i]
  IN  s[n]
=============================================================================
