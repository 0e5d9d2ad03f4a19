------------------------------- MODULE MCEditor -------------------------------
EXTENDS Editor
(* A header and a footer that come and go, a prompt of one or two lines. *)
MCRows == [w \in Widget |-> IF w = "prompt" THEN {1, 2} ELSE {0, 1}]
=============================================================================
