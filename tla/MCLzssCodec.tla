---------------------------- MODULE MCLzssCodec ----------------------------
(* The formats with their windows scaled down, so that a file of a few     *)
(* symbols outgrows them, and with their real constants on chosen files.   *)
EXTENDS LzssCodec

Files(symbols, n) == UNION {[1 .. k -> symbols] : k \in 0 .. n}

(* Near, short and long matches within nine symbols.                       *)
MCLayers == << Window(2, 2, 3, "dictionary_inline"),
               Window(4, 3, 4, "dictionary_short"),
               Window(4, 5, 7, "dictionary_long") >>

MCScaled ==
  [kosplus |-> [KosPlusAdaptor EXCEPT !.windows = MCLayers],
   kosinski |-> [KosinskiAdaptor EXCEPT !.windows = MCLayers],
   lzkn1 |-> [Lzkn1Adaptor EXCEPT !.windows = << Window(2, 2, 3, "dictionary_short"),
                                                 Window(4, 3, 5, "dictionary_long") >>],
   saxman |-> [SaxmanAdaptor EXCEPT !.windows = << Window(5, 3, 5, "dictionary") >>,
                                    !.SearchBufSize = 5],
   comper |-> [ComperAdaptor EXCEPT !.windows = << Window(3, 2, 4, "dictionary") >>],
   comperx |-> [ComperXAdaptor EXCEPT !.windows = << Window(3, 2, 5, "dictionary") >>],
   rocket |-> [RocketAdaptor EXCEPT !.windows = << Window(5, 2, 3, "dictionary") >>,
                                    !.SearchBufSize = 5, !.FirstMatchPosition = 2]]

(* rocket::encode fills the ring with blanks before the file.              *)
MCFiles ==
  [f \in DOMAIN MCScaled |->
     IF f = "rocket" THEN {<<Blank, Blank>> \o s : s \in Files({1, Blank}, 7)}
     ELSE IF f \in {"kosplus", "kosinski"} THEN Files({0, 1}, 8)
     ELSE IF f \in {"comper", "comperx"} THEN Files({1, 256}, 7) ELSE Files({0, 1}, 7)]

(* Either side of every bound of a field, and where the rings begin.       *)
MCDistances == {1, 15, 255, 256, 257, 768, 1023, 1024, 4095, 4096, 8191, 8192}
MCPlaces == {960, 1023, 1984, 4096, 8192, 8300}

(* A first module, and one behind one or two whole modules.                *)
MCOutputs == {0, 4096, 8192}

(* Kosinski as it is: a run among literals.  The run costs least as two    *)
(* inline matches, whose eight descriptor bits begin a second field; one   *)
(* long match would have stayed within the first.                          *)
MCKosinski == [kosinski |-> KosinskiAdaptor]
MCRunAmongLiterals == [kosinski |-> {<<1, 2, 3, 4, 5, 5, 5, 5, 5, 5, 5, 5, 5, 5, 5, 6>>}]
=============================================================================
