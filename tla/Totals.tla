------------------------------- MODULE Totals -------------------------------
(***************************************************************************)
(* The sum of a sequence of numbers.  A queue of batches is a sequence of  *)
(* row counts, and a per-task quantity (rows in hand, rows in the open     *)
(* file) is a function on 1..N, which is a sequence too, so one operator   *)
(* serves both.                                                            *)
(***************************************************************************)
EXTENDS Naturals, Sequences

(* The sum of the elements of s, as a recursive function over prefixes.    *)
Total(s) ==
    LET sum[i \in 0..Len(s)] == IF i = 0 THEN 0 ELSE sum[i - 1] + s[i]
    IN  sum[Len(s)]
=============================================================================
