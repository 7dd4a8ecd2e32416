------------------------------ MODULE MCIngest ------------------------------
(* Instances of Ingest for the model checker: three connections, two of    *)
(* them sharing a password.                                                *)
EXTENDS Ingest

CONSTANTS c1, c2, c3, own, other

ThreeConns == {c1, c2, c3}
TwoConns == {c1, c2}
Passwords == {own, other}
SharedByTwo == [c \in Conns |-> IF c = c3 THEN other ELSE own]
AllOwn == [c \in Conns |-> own]
NoPasswords == {}
C1 == {c1}
NoConns == {}

AllFrames == FrameKinds
NoDelete == FrameKinds \ {"delete"}
=============================================================================
