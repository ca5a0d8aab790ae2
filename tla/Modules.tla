------------------------------ MODULE Modules -------------------------------
(***************************************************************************)
(* moduled_adaptor.hh: a file cut into modules of ModuleSize bytes that    *)
(* are encoded one after the other, each at a multiple of the padding, and *)
(* decoded until the size written in front of them is reached.             *)
(*                                                                         *)
(* What a format makes of a module is a stream of bits, of a number that   *)
(* depends on the data in a way nothing here looks at.  The bits are taken *)
(* a word at a time; the readers of Enigma and Nemesis fetch a word as     *)
(* soon as the last is used up (TakesItsWords of BitStream), those of the  *)
(* other formats end with the module (StopsAtEnd of LzssStream).           *)
(*                                                                         *)
(* That a format gives back a file of one module is the matter of          *)
(* LzssCodec, Enigma, Nemesis and Snkrle, not of this module.  What does   *)
(* not follow from it is that the same calls do so for a module:           *)
(*  - most copy by distances, or only write: they do, wherever Dst stands  *)
(*    (comper.cc:143, comperx.cc:149, kosinski.cc:202, kosplus.cc:198,     *)
(*    lzkn1.cc:197);                                                       *)
(*  - saxman.cc:185-202 counts places from the beginning of Dst: where Dst *)
(*    holds something, a zero fill becomes a copy (ReadsInLaterModules);   *)
(*  - rocket.cc:221-229 puts blanks before a file; the encode that is      *)
(*    called here (rocket.cc:232-247) takes the first bytes of the module  *)
(*    for them.  What it leaves out is missing, and what refers to it, or  *)
(*    to a place in the ring, is wrong;                                    *)
(*  - snkrle.cc:62 writes a wrong byte behind a full run in any file.      *)
(* These three formats inherit the adaptor; no tool calls it for them.     *)
(***************************************************************************)
EXTENDS Integers, Sequences, SequencesExt

CONSTANTS
  ModuleSize,           (* 4096                                             *)
  SizeLimit,            (* values of the word the size is written in: 65536 *)
  Formats,              (* records: padding (ModulePadding); word, the bytes*)
                        (* of a word of bits; grain, the bytes it codes at  *)
                        (* once; pads, whether it completes them or drops   *)
                        (* what is left over; early; copies, whether decode *)
                        (* reads from a copy of Src (nemesis.cc:971 reads   *)
                        (* Src itself); blanks, how many bytes encode takes *)
                        (* to be in front of the data (0x3C0 for Rocket);   *)
                        (* exact, the modules decode gives back as they     *)
                        (* were: all, the first (Saxman), or none for       *)
                        (* certain (Rocket, SNK run lengths)                *)
  FileSizes,
  BitCounts             (* the bits a module may take                       *)

(* The padding is a power of two, so that the masks round up; a module is  *)
(* coded without completing or dropping anything, unless it is the last.   *)
(* No module is as short as a word: each has a header or a terminator.     *)
(* The early readers are those of formats without padding (enigma.hh,      *)
(* nemesis.hh).                                                            *)
ASSUME ModulesAssumption ==
  /\ ModuleSize \in Nat \ {0} /\ SizeLimit \in Nat /\ ModuleSize <= SizeLimit
  /\ FileSizes \cup BitCounts \subseteq Nat \ {0}
  /\ \A f \in Formats :
       /\ {f.padding, f.word, f.grain} \subseteq Nat \ {0}
       /\ {f.pads, f.early, f.copies} \subseteq BOOLEAN
       /\ f.exact \in {"all", "first", "none"}
       /\ f.blanks \in 0 .. ModuleSize - 1 /\ (f.blanks # 0 => f.exact = "none" /\ f.grain = 1)
       /\ \E k \in 0 .. 15 : f.padding = 2 ^ k
       /\ ModuleSize % f.grain = 0
       /\ f.early => f.padding = 1
       /\ \A b \in BitCounts : b > 8 * f.word

VARIABLES
  format, size,
  pc,                   (* encode, copy, decode, done; lost: decode was     *)
                        (* called where no module begins                    *)
  left, ptr,            (* moduled_encode: FullSize and ptr                 *)
  PadMaskBits,
  sout,                 (* its buffer: bytes of modules, and padding        *)
  bits,                 (* of each module                                   *)
  FullSize,             (* moduled_decode: the word it has read             *)
  in, tellg, Dst

vars == <<format, size, pc, left, ptr, PadMaskBits, sout, bits, FullSize, in, tellg, Dst>>
encoder == <<left, ptr, PadMaskBits, sout, bits>>

-----------------------------------------------------------------------------
(* A file is its byte numbers; a byte of a module says what it begins.     *)
RoundUp(n, m) == m * ((n + m - 1) \div m)
ModuleByte(first, n, k) == [at |-> k, first |-> first, n |-> n]
Zero == [at |-> 0]
Bytes(b) == format.word * ((b + 8 * format.word - 1) \div (8 * format.word))
FullWord(b) == b % (8 * format.word) = 0

(* Format::encode of n bytes from ptr codes those behind the blanks.       *)
Encoded(n, b) ==
  [k \in 1 .. Bytes(b) |-> ModuleByte(ptr + format.blanks, n - format.blanks, k)]
PaddedTo(s, m) == s \o [k \in 1 .. (-Len(s)) % m |-> Zero]

Init ==
  /\ format \in Formats /\ size \in FileSizes
  /\ pc = "encode"
  /\ left = size /\ ptr = 0
  /\ PadMaskBits = 1
  /\ sout = << >> /\ bits = << >>
  /\ FullSize = -1 /\ in = << >> /\ tellg = 0 /\ Dst = << >>

EncodeModule_LeavesPtr ==                \* a slip: ptr stays at the first module
  /\ pc = "encode"
  /\ left > ModuleSize
  /\ PadMaskBits' = 8 * format.padding - 1
  /\ \E b \in BitCounts :
       /\ sout' = PaddedTo(sout \o Encoded(ModuleSize, b), format.padding)
       /\ bits' = Append(bits, b)
  /\ left' = left - ModuleSize
  /\ UNCHANGED <<format, size, pc, ptr, FullSize, in, tellg, Dst>>

EncodeModule ==
  /\ pc = "encode"
  /\ left > ModuleSize
  /\ PadMaskBits' = 8 * format.padding - 1
  /\ \E b \in BitCounts :
       /\ sout' = PaddedTo(sout \o Encoded(ModuleSize, b), format.padding)
       /\ bits' = Append(bits, b)
  /\ left' = left - ModuleSize
  /\ ptr' = ptr + ModuleSize
  /\ UNCHANGED <<format, size, pc, FullSize, in, tellg, Dst>>

(* "assume(nlen >= Adaptor::FirstMatchPosition)" (lzss.hh:297): with less   *)
(* than its blanks the result of encode is undefined, and nothing is said  *)
(* of what follows.                                                        *)
EncodeLast ==
  /\ pc = "encode"
  /\ left <= ModuleSize
  /\ left >= format.blanks
  /\ PadMaskBits' = 7
  /\ \E b \in BitCounts :
       /\ sout' = sout \o Encoded(left, b)
       /\ bits' = Append(bits, b)
  /\ pc' = "copy"
  /\ UNCHANGED <<format, size, left, ptr, FullSize, in, tellg, Dst>>

(* The size has gone out as a word, sout follows; both ends make what they *)
(* have even.                                                              *)
ReadModules ==
  /\ pc = "copy"
  /\ FullSize' = size % SizeLimit
  /\ in' = PaddedTo(sout, 2)
  /\ pc' = "decode"
  /\ UNCHANGED <<format, size, encoder, tellg, Dst>>

-----------------------------------------------------------------------------
(* Format::decode gives what the module codes, if the format is one that   *)
(* does where Dst stands, or else as many bytes, of which nothing is known;*)
(* and the bytes it takes.                                                 *)
Unknown == -1
Exact == format.exact = "all" \/ (format.exact = "first" /\ Dst = << >>)
Restored(m) ==
  [i \in 1 .. (IF format.pads THEN RoundUp(m.n, format.grain) ELSE m.n - (m.n % format.grain))
     |-> IF ~Exact THEN Unknown ELSE IF i <= m.n THEN m.first + i ELSE 0]
Taken(b) == Bytes(b) + IF format.early /\ FullWord(b) THEN format.word ELSE 0

(* Format::decode reads from a copy of what is left of Src, made even, and *)
(* moves Src on to where it stopped.  A reader that ran into the end stops *)
(* at minus one: Src moves to before the module, or, at 0, not at all,     *)
(* having been copied to its end.  Without a copy Src itself has failed,   *)
(* and nothing more can be read from it.                                   *)
Extracted == IF format.copies THEN RoundUp(Len(in) - tellg, 2) ELSE Len(in) - tellg
Left(b) ==
  IF Taken(b) <= Extracted THEN tellg + Taken(b)
  ELSE IF format.copies /\ tellg > 0 THEN tellg - 1 ELSE Len(in)

Begins(p) == p < Len(in) /\ in[p + 1].at = 1
ModuleAt(p) == in[p + 1]
Module == ModuleAt(tellg).first \div ModuleSize

Reached_Past(dst) == Len(dst) > FullSize \* a slip: > for >=
Reached(dst) == Len(dst) >= FullSize

Skipped_Back(p) == p - (p % format.padding)  \* a slip: PadMask is not added
Skipped(p) == RoundUp(p, format.padding)

DecodeModule ==
  /\ pc = "decode"
  /\ Begins(tellg)
  /\ Dst' = Dst \o Restored(ModuleAt(tellg))
  /\ IF Reached(Dst')
     THEN pc' = "done" /\ tellg' = Left(bits[Module + 1])
     ELSE pc' = pc /\ tellg' = Skipped(Left(bits[Module + 1]))
  /\ UNCHANGED <<format, size, encoder, FullSize, in>>

(* Format::decode is called, but what it makes of what it finds is anything*)
DecodeNoModule ==
  /\ pc = "decode"
  /\ ~Begins(tellg)
  /\ pc' = "lost"
  /\ UNCHANGED <<format, size, encoder, FullSize, in, tellg, Dst>>

Next ==
  \/ EncodeModule \/ EncodeLast \/ ReadModules \/ DecodeModule \/ DecodeNoModule

Spec == Init /\ [][Next]_vars

-----------------------------------------------------------------------------
File == [i \in 1 .. size |-> i]
LeftOver == ~format.pads /\ size % format.grain # 0

(* The bytes that are in a module the format gives back as it was.         *)
Relied(i) == format.exact = "all" \/ (format.exact = "first" /\ i <= ModuleSize)

(* Every module is decoded in its place: given that the format restores a  *)
(* module wherever Dst stands, what was decoded is the file from its first *)
(* byte, and at the end all of it, with nothing but what the last module   *)
(* was completed with behind it (for Saxman, as far as the first module    *)
(* goes).  No format ends before the size that fits its word is reached.   *)
DecodesToFile ==
  /\ \A i \in DOMAIN Dst : Relied(i) => Dst[i] = IF i <= size THEN i ELSE 0
  /\ pc = "done" /\ size < SizeLimit => Len(Dst) >= size

(* Decoding ends with the first module at which the size that was written  *)
(* is reached, not one later and not one sooner.                           *)
StopsAtWrittenSize ==
  pc = "done" =>
    LET most == ModuleByte(0, Min({size, ModuleSize}) - format.blanks, 1)
        before == Len(Dst) - Len(Restored(most))
    IN  Len(Dst) >= FullSize /\ (before > 0 => before < FullSize)

(* decode loses its place for three reasons only: a module's bits fill its *)
(* last word and the reader fetches another; or the size is never reached  *)
(* (and then decode is called at the end, or where a reader that ran into  *)
(* the end has put Src), because the last module drops bytes, or because   *)
(* every module lacks its first (Rocket).                                  *)
KeepsItsPlace ==
  pc = "lost" =>
    \/ format.early /\ \E k \in 1 .. Len(bits) - 1 : FullWord(bits[k])
    \/ /\ (LeftOver /\ size < SizeLimit) \/ format.blanks # 0
       /\ tellg >= Len(sout) \/ (format.early /\ FullWord(Last(bits)))

(* "Skip padding between modules": what the loop passes over before it     *)
(* decodes again is padding.                                               *)
SkipsOnlyPadding ==
  pc = "decode" /\ Dst # << >> /\ tellg < Len(sout) => Begins(tellg)
=============================================================================
