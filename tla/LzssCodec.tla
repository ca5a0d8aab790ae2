----------------------------- MODULE LzssCodec ------------------------------
(***************************************************************************)
(* The encode and decode functions of the LZSS formats: the parse of       *)
(* LzssParse is written token by token to an LZSSOStream and read back,    *)
(* round by round of the decoder's loop, from an LZSSIStream.  The two are *)
(* taken for the channel LzssStream shows them to be.                      *)
(***************************************************************************)
EXTENDS LzssParse, LzssTokens, LzssAdaptors

CONSTANTS
  Distances, Places,    (* bound: the distances and positions at which      *)
                        (* tokens of the real formats are read back         *)
  Outputs               (* bound: what Dst may hold in front of a module    *)

ASSUME TokenAssumption ==
  Distances \subseteq Nat \ {0} /\ Places \subseteq Nat /\ Outputs \subseteq Nat

VARIABLES
  edge,                 (* edges of the parse that are written              *)
  items,                (* the bits and bytes written                       *)
  closed,               (* the LZSSOStream is destroyed                     *)
  rpos,                 (* bits and bytes the decoder has asked for         *)
  dst,                  (* what the decoder has written                     *)
  lost,                 (* history: it asked for something that is not next *)
  ended                 (* the decoder's loop is over                       *)

coding == <<edge, items, closed, rpos, dst, lost, ended>>

CodecInit ==
  /\ Init
  /\ edge = 0 /\ items = <<>> /\ closed = FALSE
  /\ rpos = 0 /\ dst = <<>> /\ lost = FALSE /\ ended = FALSE

Parse == ~Finished /\ Next /\ UNCHANGED coding

WriteEdge ==
  /\ Finished /\ edge < Len(parselist)
  /\ LET e == parselist[edge + 1] IN items' = items \o Code(Adaptor, e, Symbol(e.pos))
  /\ edge' = edge + 1
  /\ UNCHANGED vars /\ UNCHANGED <<closed, rpos, dst, lost, ended>>

WriteEnd ==
  /\ Finished /\ edge = Len(parselist) /\ ~closed
  /\ items' = items \o Terminator(Adaptor)
  /\ closed' = TRUE
  /\ UNCHANGED vars /\ UNCHANGED <<edge, rpos, dst, lost, ended>>

-----------------------------------------------------------------------------
(* Bytes of the file that hold the first n bits and bytes of it.           *)
Bits(n) == Cardinality({i \in 1 .. n : items[i].kind = "bit"})
Fields(b) ==
  IF Adaptor.NeedEarlyDescriptor THEN b \div Adaptor.NumDescBits + 1
  ELSE (b + Adaptor.NumDescBits - 1) \div Adaptor.NumDescBits
Streamed(n) == Fields(Bits(n)) * (Adaptor.NumDescBits \div 8) + n - Bits(n)

(* What lies ahead of the decoder; past the end, a byte that is none.      *)
Ahead(s, p) ==
  [i \in 1 .. 80 |-> IF p + i <= Len(s) THEN s[p + i] ELSE [kind |-> "none", val |-> 0]]
Kinds(s) == [i \in DOMAIN s |-> s[i].kind]

(* The output of a copy, byte by byte, that may read what it has written.  *)
Blurred == -1                            \* Read1 of a place without a byte
At(s, i) == IF i + 1 \in DOMAIN s THEN s[i + 1] ELSE Blurred

CopyTo_AsBlock(s, from, n) ==            \* a slip: the source is read first
  s \o [k \in 1 .. n |-> At(s, from + k - 1)]

CopyTo(s, from, n) ==
  LET copied[k \in 0 .. n] ==
        IF k = 0 THEN s
        ELSE LET done == copied[k - 1] IN Append(done, At(done, from + k - 1))
  IN  copied[n]

(* The formats without a terminator stop where the size the header gives   *)
(* is reached: Saxman's two bytes before the stream do not count, Rocket's *)
(* four do, on both sides.                                                 *)
Sized == Adaptor.format \in {"saxman", "rocket"}
More_TooFar ==                           \* a slip: <= for <
  Sized => Streamed(rpos) <= Streamed(Len(items))

More == Sized => Streamed(rpos) < Streamed(Len(items))

ReadToken ==
  /\ closed /\ ~ended /\ More
  /\ LET got == Gets(Adaptor, Ahead(items, rpos), Len(dst))
         next == rpos + Len(got.asked)
     IN  /\ rpos' = next
         /\ lost' = (lost \/ \E i \in DOMAIN got.asked : got.asked[i] # Ahead(items, rpos)[i].kind)
         /\ dst' = CopyTo(dst \o got.lits, got.from, got.len)
         /\ ended' = (got.ends \/ next > Len(items))
  /\ UNCHANGED vars /\ UNCHANGED <<edge, items, closed>>

ReadEnd ==
  /\ closed /\ ~ended /\ ~More
  /\ ended' = TRUE
  /\ UNCHANGED vars /\ UNCHANGED <<edge, items, closed, rpos, dst, lost>>

CodecNext == Parse \/ WriteEdge \/ WriteEnd \/ ReadToken \/ ReadEnd
CodecSpec == CodecInit /\ [][CodecNext]_<<vars, coding>>

-----------------------------------------------------------------------------
(* The decoder gives back the file, without the blanks rocket::encode put  *)
(* before it: matches that overlap themselves, zeros and blanks from       *)
(* before the file, and places in the ring included.                       *)
DecodesToFile == ended => dst = SubSeq(data, First + 1, nlen)

(* The decoder never takes a bit for a byte or the other way round, and    *)
(* when it stops, by the terminator or by the size in the header, it has   *)
(* taken everything that was written: what follows begins right there.     *)
StaysInStep == ~lost /\ (ended => rpos = Len(items))

(* The file is written and nothing of it has been read.                    *)
Written == closed /\ rpos = 0 /\ ~ended
WrittenBits == 8 * Streamed(Len(items))

(* The cost of the ending node is the size in bits of the file as it is    *)
(* written (its header aside, and rounded up to the adaptor's padding):    *)
(* the parser charges every token, the terminator and the rest of the last *)
(* descriptor field, or a dummy one, what the encoder and the stream spend.*)
CostIsWrittenSize ==
  Written /\ First = 0 /\ parselist # <<>> =>
    costs[numNodes] = WrittenBits + Padding(WrittenBits)

SizeOfWay(c) ==
  LET t == c[1] - c[2] + Adaptor.TerminatorWeight - Adaptor.NumTermBits
             + Adaptor.NumDescBits * Fields(c[2] + Adaptor.NumTermBits)
  IN  t + Padding(t)

(* lzss.hh:398 says of the parse: "this is the optimal parsing of the      *)
(* input file, giving us *the* best possible compressed file size".        *)
BestPossibleSize == Written => \A c \in Ways(AllEdges) : WrittenBits <= SizeOfWay(c)

(* What is true of it: where descriptor fields are fetched when needed,    *)
(* the file is as small as any that uses no packed literals and no         *)
(* dictionary match where zeros can be filled, whatever matches it uses:   *)
(* one distance per length, one way per node and raw bits are enough.      *)
BestOfConsidered ==
  Written /\ ~Adaptor.NeedEarlyDescriptor =>
    \A c \in Ways(Considered) : WrittenBits <= SizeOfWay(c)

-----------------------------------------------------------------------------
Formats ==
  {KosinskiAdaptor, KosPlusAdaptor, Lzkn1Adaptor, ComperAdaptor, ComperXAdaptor, SaxmanAdaptor,
   RocketAdaptor}

ReadBack(A, e) == Gets(A, Ahead(Code(A, e, 0), 0), e.pos - A.FirstMatchPosition)

(* What the decoder makes of a match is the match: its place, its length   *)
(* and, for Rocket, the blanks of it that are before the file.             *)
MatchReadsBack(A, e) ==
  LET got == ReadBack(A, e)
      from == e.pos - A.FirstMatchPosition - e.dist
      blanks == IF from >= 0 THEN 0 ELSE Least(e.len, -from)
  IN  /\ got.asked = Kinds(Code(A, e, 0))
      /\ ~got.ends
      /\ got.lits = Blanks(Blank, blanks)
      /\ got.len = e.len - blanks
      /\ got.from = from + blanks

WindowsReadBack(A) ==
  \A i \in DOMAIN A.windows :
    \A d \in Distances, p \in Places, n \in A.windows[i].min .. A.windows[i].max :
      d <= A.windows[i].buf /\ d <= p /\ p >= A.FirstMatchPosition =>
        MatchReadsBack(A, Edge(p, d, n, A.windows[i].type))

(* Every match a format's real windows can find reads back as itself: the  *)
(* fields its distance and length are split into neither overflow nor run  *)
(* into each other, no code means something else, and none ends the file.  *)
(* It says nothing of the file: a run looks at it with the empty one.      *)
EveryMatchReadsBack ==
  nlen = First => \A A \in Formats : A.format = Adaptor.format => WindowsReadBack(A)

(* moduled_decode calls the same decode with the modules before in Dst     *)
(* (moduled_adaptor.hh:66), and Saxman counts its places from the beginning*)
(* of that.                                                                *)
Behind(b, A, e) == Gets(A, Ahead(Code(A, e, 0), 0), b + e.pos)

MatchesBehind(A) ==
  \A i \in DOMAIN A.windows :
    \A d \in Distances, p \in Places, n \in A.windows[i].min .. A.windows[i].max, b \in Outputs :
      d <= A.windows[i].buf /\ d <= p =>
        LET e == Edge(p, d, n, A.windows[i].type) IN
          Behind(b, A, e) = Copy(b + p - d, n, Kinds(Code(A, e, 0)))

ZeroFillsBehind(A) ==
  \A p \in Places, n \in 3 .. 18, b \in Outputs :
    p < A.SearchBufSize - 1 =>
      LET e == Edge(p, Infinity, n, "zerofill")
          asked == Kinds(Code(A, e, 0))
      IN  Behind(b, A, e) = IF b = 0 THEN Literal(Blanks(0, n), asked)
                            ELSE Copy(b + p - (A.SearchBufSize - 1), n, asked)

(* In a module behind others a match means the same place in that module.  *)
(* A zero fill does not: saxman.cc:113 lets the parser choose it "with no  *)
(* previous match", at the head of every module, but the place it is coded *)
(* as is before the beginning of Dst in the first module only; in another  *)
(* it is read as a copy of bytes of the module before.  Rocket, whose      *)
(* modules are without blanks, is left out.                                *)
ReadsInLaterModules ==
  nlen = First =>
    \A A \in Formats : A.format = Adaptor.format /\ A.format # "rocket" =>
      /\ MatchesBehind(A)
      /\ A.format = "saxman" => ZeroFillsBehind(A)
=============================================================================
