----------------------------- MODULE MCKosQueue -----------------------------
(* A ROM of two streams (of two units and of one) that lie back to back,   *)
(* two destinations, and a queue of two slots: three requests fill it,     *)
(* drain it and reuse it.                                                  *)
EXTENDS KosQueue

MCStreams == {10, 12}
MCLength == [s \in MCStreams |-> IF s = 10 THEN 2 ELSE 1]
MCDests == {0, 2}
MCRam == 0 .. 3
=============================================================================
