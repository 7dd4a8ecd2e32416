----------------------------- MODULE MCSession -----------------------------
(* Instances of Session for the model checker.                             *)
EXTENDS Session

(* Reads that cut the input before, between and after a CR and its LF.     *)
LineEnds == {<<"LF">>, <<"x", "CR">>, <<"CR", "LF", "x">>}
=============================================================================
