---------------------------- MODULE LzssAdaptors ----------------------------
(***************************************************************************)
(* The adaptor classes that make a format out of lzss.hh: descriptor       *)
(* fields, terminator, sliding windows and what each kind of edge costs.   *)
(* An edge of type t and length n takes desc[t] descriptor bits and        *)
(* param[t] + 8 * unit[t] * n other bits.                                  *)
(***************************************************************************)
EXTENDS Naturals

Window(buf, min, max, type) == [buf |-> buf, min |-> min, max |-> max, type |-> type]

(* extra: the matches extra_matches finds besides the windows'; padMask:   *)
(* get_padding rounds the bits up to a multiple of padMask + 1.            *)
KosinskiCodes ==
  [desc |-> [symbolwise |-> 1, dictionary_inline |-> 4, dictionary_short |-> 2, dictionary_long |-> 2],
   param |-> [symbolwise |-> 8, dictionary_inline |-> 8, dictionary_short |-> 16, dictionary_long |-> 24],
   unit |-> [symbolwise |-> 0, dictionary_inline |-> 0, dictionary_short |-> 0, dictionary_long |-> 0]]

KosinskiAdaptor ==
  [format |-> "kosinski", NumDescBits |-> 16, NumTermBits |-> 2, TerminatorWeight |-> 26,
   NeedEarlyDescriptor |-> TRUE, FirstMatchPosition |-> 0, SearchBufSize |-> 8192,
   windows |-> << Window(256, 2, 5, "dictionary_inline"),
                  Window(8192, 3, 9, "dictionary_short"),
                  Window(8192, 10, 256, "dictionary_long") >>,
   codes |-> KosinskiCodes, extra |-> "none", padMask |-> 1]

KosPlusAdaptor ==
  [format |-> "kosplus", NumDescBits |-> 8, NumTermBits |-> 2, TerminatorWeight |-> 26,
   NeedEarlyDescriptor |-> FALSE, FirstMatchPosition |-> 0, SearchBufSize |-> 8192,
   windows |-> << Window(256, 2, 5, "dictionary_inline"),
                  Window(8192, 3, 9, "dictionary_short"),
                  Window(8192, 10, 264, "dictionary_long") >>,
   codes |-> KosinskiCodes, extra |-> "none", padMask |-> 0]

Lzkn1Adaptor ==
  [format |-> "lzkn1", NumDescBits |-> 8, NumTermBits |-> 1, TerminatorWeight |-> 9,
   NeedEarlyDescriptor |-> FALSE, FirstMatchPosition |-> 0, SearchBufSize |-> 1023,
   windows |-> << Window(15, 2, 5, "dictionary_short"),
                  Window(1023, 3, 33, "dictionary_long") >>,
   codes |->
     [desc |-> [symbolwise |-> 1, dictionary_short |-> 1, dictionary_long |-> 1, packed_symbolwise |-> 1],
      param |-> [symbolwise |-> 8, dictionary_short |-> 8, dictionary_long |-> 16, packed_symbolwise |-> 8],
      unit |-> [symbolwise |-> 0, dictionary_short |-> 0, dictionary_long |-> 0, packed_symbolwise |-> 1]],
   extra |-> "packed", padMask |-> 0]

SaxmanAdaptor ==
  [format |-> "saxman", NumDescBits |-> 8, NumTermBits |-> 0, TerminatorWeight |-> 0,
   NeedEarlyDescriptor |-> FALSE, FirstMatchPosition |-> 0, SearchBufSize |-> 4096,
   windows |-> << Window(4096, 3, 18, "dictionary") >>,
   codes |-> [desc |-> [symbolwise |-> 1, dictionary |-> 1, zerofill |-> 1],
              param |-> [symbolwise |-> 8, dictionary |-> 16, zerofill |-> 16],
              unit |-> [symbolwise |-> 0, dictionary |-> 0, zerofill |-> 0]],
   extra |-> "zerofill", padMask |-> 0]

ComperAdaptor ==
  [format |-> "comper", NumDescBits |-> 16, NumTermBits |-> 1, TerminatorWeight |-> 17,
   NeedEarlyDescriptor |-> FALSE, FirstMatchPosition |-> 0, SearchBufSize |-> 256,
   windows |-> << Window(256, 2, 256, "dictionary") >>,
   codes |-> [desc |-> [symbolwise |-> 1, dictionary |-> 1],
              param |-> [symbolwise |-> 16, dictionary |-> 16],
              unit |-> [symbolwise |-> 0, dictionary |-> 0]],
   extra |-> "none", padMask |-> 0]

ComperXAdaptor_Full ==                   (* a slip: Comper's look-ahead         *)
  [ComperAdaptor EXCEPT !.format = "comperx"]

ComperXAdaptor ==
  [ComperAdaptor EXCEPT !.format = "comperx", !.windows = << Window(256, 2, 255, "dictionary") >>]

RocketAdaptor ==
  [format |-> "rocket", NumDescBits |-> 8, NumTermBits |-> 0, TerminatorWeight |-> 0,
   NeedEarlyDescriptor |-> FALSE, FirstMatchPosition |-> 960, SearchBufSize |-> 1024,
   windows |-> << Window(1024, 2, 64, "dictionary") >>,
   codes |-> [desc |-> [symbolwise |-> 1, dictionary |-> 1],
              param |-> [symbolwise |-> 8, dictionary |-> 16],
              unit |-> [symbolwise |-> 0, dictionary |-> 0]],
   extra |-> "none", padMask |-> 0]
=============================================================================
