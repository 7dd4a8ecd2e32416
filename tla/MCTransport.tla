----------------------------- MODULE MCTransport -----------------------------
(* Instances of Transport for the model checker.                           *)
EXTENDS Transport

(* Under a cap of 3, the third chunk pushes out the first and no other.    *)
Uneven == [i \in 1 .. Chunks |-> IF i = 1 THEN 2 ELSE 1]
=============================================================================
