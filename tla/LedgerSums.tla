----------------------------- MODULE LedgerSums -----------------------------
(***************************************************************************)
(* SQL's SUM(...) over the rows of a table whose rows are numbered 1..n.   *)
(***************************************************************************)
EXTENDS Integers

(***************************************************************************)
(* SUM(f[i]) for i in 1..n, as a recursive function of the row count.      *)
(***************************************************************************)
SumTo(f, n) ==
    LET s[i \in 0..n] == IF i = 0 THEN 0 ELSE s[i - 1] + f[i]
    IN  s[n]
=============================================================================
