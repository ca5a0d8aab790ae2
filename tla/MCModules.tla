----------------------------- MODULE MCModules ------------------------------
(* Modules of four bytes, sizes that fit a word below ten.  The formats by *)
(* how they pad, read, complete and restore: LZKN1 and KosPlus, Kosinski,  *)
(* Comper and ComperX, Enigma, Nemesis, Saxman, SNK run lengths, Rocket.   *)
EXTENDS Modules

Bytewise ==
  [padding |-> 1, word |-> 1, grain |-> 1, pads |-> FALSE, early |-> FALSE, copies |-> TRUE,
   blanks |-> 0, exact |-> "all"]
Kosinski == [Bytewise EXCEPT !.padding = 4, !.word = 2]
Comper == [Bytewise EXCEPT !.word = 2, !.grain = 2]
Enigma == [Comper EXCEPT !.early = TRUE]
Nemesis == [Bytewise EXCEPT !.grain = 4, !.pads = TRUE, !.early = TRUE, !.copies = FALSE]
Saxman == [Bytewise EXCEPT !.exact = "first"]
Snkrle == [Bytewise EXCEPT !.exact = "none"]
Rocket == [Snkrle EXCEPT !.blanks = 1]

MCFormats == {Bytewise, Kosinski, Comper, Enigma, Nemesis, Saxman, Snkrle, Rocket}
MCEarly == {Enigma, Nemesis}
=============================================================================
