---------------------------- MODULE MCKosModules ----------------------------
(* Two archives: one of a whole module and a remainder, whose first stream *)
(* has to be rounded up to the next $10 boundary, and one of exactly one   *)
(* module; and a stream the program decompresses on its own.  Streams are  *)
(* short: the temporal properties are to stay within minutes.              *)
EXTENDS KosModules

MCArchives == {100, 200}
MCArchiveSize == [h \in MCArchives |-> IF h = 100 THEN 4096 + 2048 ELSE 4096]
MCModuleStart == [h \in MCArchives |-> IF h = 100 THEN <<102, 118>> ELSE <<202>>]
MCStreams == {102, 118, 202, 300}
MCLength == [s \in MCStreams |-> 1]
MCVramDests == {61440}
MCDests == {0, 17}
MCRam == 0 .. 40
MCDirect == {300}
=============================================================================
