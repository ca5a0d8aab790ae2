------------------------------ MODULE MCSnkrle ------------------------------
(* Counts up to 3, and all files of up to seven bytes out of three that    *)
(* are also counts: a run of five fills the count.                         *)
EXTENDS SnkrleAsm

MCFiles == UNION {[1 .. n -> {0, 1, 3}] : n \in 0 .. 7}
=============================================================================
