-------------------------------- MODULE Sums --------------------------------
(***************************************************************************)
(* Sums over sequences.                                                    *)
(***************************************************************************)
EXTENDS Naturals, Sequences

(* The sum of a sequence of numbers.                                       *)
SumOf(s) ==
    LET sum[n \in 0 .. Len(s)] == IF n = 0 THEN 0 ELSE sum[n - 1] + s[n]
    IN  sum[Len(s)]

(* The weights of the elements of q, added up.                             *)
Total(weight, q) == SumOf([i \in DOMAIN q |-> weight[q[i]]])
=============================================================================
