----------------------------- MODULE LzssTokens -----------------------------
(***************************************************************************)
(* The tokens of the seven LZSS formats: the descriptor bits and parameter *)
(* bytes their encode functions write for an edge of the parse and at the  *)
(* end of the file, and what their decode functions make of those.         *)
(***************************************************************************)
EXTENDS Integers, Sequences

Bit(v) == [kind |-> "bit", val |-> v]
Byte(v) == [kind |-> "byte", val |-> v % 256]      \* putbyte: Write1

(* What a decoder gets from its stream in one round of its loop: symbols   *)
(* to write, then symbols to copy from an absolute place of the output;    *)
(* and the bits and bytes it asked for on the way.                         *)
Got(lits, from, len, ends, asked) ==
  [lits |-> lits, from |-> from, len |-> len, ends |-> ends, asked |-> asked]
Literal(lits, asked) == Got(lits, 0, 0, FALSE, asked)
Copy(from, len, asked) == Got(<<>>, from, len, FALSE, asked)
Nothing(asked) == Got(<<>>, 0, 0, FALSE, asked)
End(asked) == Got(<<>>, 0, 0, TRUE, asked)
Blanks(x, n) == [i \in 1 .. n |-> x]

-----------------------------------------------------------------------------
(* Kosinski: s is what lies ahead in the stream, base the bytes written.   *)
KosinskiCode(A, e, x) ==
  LET v == 8192 - e.dist
      low == v % 256
      high == 8 * ((v \div 256) % 32)
  IN  CASE e.type = "symbolwise" -> << Bit(1), Byte(x) >>
        [] e.type = "dictionary_inline" ->
             << Bit(0), Bit(0), Bit(((e.len - 2) \div 2) % 2), Bit((e.len - 2) % 2), Byte(256 - e.dist) >>
        [] e.type = "dictionary_short" -> << Bit(0), Bit(1), Byte(low), Byte(high + (e.len - 2)) >>
        [] e.type = "dictionary_long" ->
             << Bit(0), Bit(1), Byte(low), Byte(high), Byte(e.len - 1) >>

KosinskiEnd == << Bit(0), Bit(1), Byte(0), Byte(240), Byte(0) >>

Far(high, low) == 8192 - (256 * (high \div 8) + low)

KosinskiGets(A, s, base) ==
  IF s[1].val # 0 THEN Literal(<< s[2].val >>, << "bit", "byte" >>)
  ELSE IF s[2].val = 0
    THEN Copy(base - (256 - s[5].val), 2 * s[3].val + s[4].val + 2,
              << "bit", "bit", "bit", "bit", "byte" >>)
  ELSE LET low == s[3].val
           high == s[4].val
           short == << "bit", "bit", "byte", "byte" >>
           long == << "bit", "bit", "byte", "byte", "byte" >>
       IN  IF high % 8 # 0 THEN Copy(base - Far(high, low), (high % 8) + 2, short)
           ELSE IF s[5].val = 0 THEN End(long)
           ELSE IF s[5].val = 1 THEN Nothing(long)
           ELSE Copy(base - Far(high, low), s[5].val + 1, long)

(* KosPlus: other places for the bytes, and counts that begin where the    *)
(* second window ends (9 in the code).                                     *)
ShortMax(A) == A.windows[2].max

KosPlusCode(A, e, x) ==
  LET v == 8192 - e.dist
      low == v % 256
      high == 8 * ((v \div 256) % 32)
  IN  CASE e.type = "symbolwise" -> << Bit(1), Byte(x) >>
        [] e.type = "dictionary_inline" ->
             << Bit(0), Bit(0), Byte(256 - e.dist), Bit(((e.len - 2) \div 2) % 2), Bit((e.len - 2) % 2) >>
        [] e.type = "dictionary_short" ->
             << Bit(0), Bit(1), Byte(high + (ShortMax(A) + 1 - e.len)), Byte(low) >>
        [] e.type = "dictionary_long" ->
             << Bit(0), Bit(1), Byte(high), Byte(low), Byte(e.len - ShortMax(A)) >>

KosPlusEnd == << Bit(0), Bit(1), Byte(240), Byte(0), Byte(0) >>

KosPlusGets(A, s, base) ==
  IF s[1].val # 0 THEN Literal(<< s[2].val >>, << "bit", "byte" >>)
  ELSE IF s[2].val = 0
    THEN Copy(base - (256 - s[3].val), 2 * s[4].val + s[5].val + 2,
              << "bit", "bit", "byte", "bit", "bit" >>)
  ELSE LET high == s[3].val
           low == s[4].val
           short == << "bit", "bit", "byte", "byte" >>
           long == << "bit", "bit", "byte", "byte", "byte" >>
       IN  IF high % 8 # 0
             THEN Copy(base - Far(high, low), ShortMax(A) + 1 - (high % 8), short)
           ELSE IF s[5].val = 0 THEN End(long)
           ELSE Copy(base - Far(high, low), s[5].val + ShortMax(A), long)

-----------------------------------------------------------------------------
(* LZKN1.  The edges of the parse are never packed_symbolwise, although    *)
(* encode and decode provide for them (see EdgesOf of LzssParse).          *)
Lzkn1Code(A, e, x) ==
  CASE e.type = "symbolwise" -> << Bit(0), Byte(x) >>
    [] e.type = "dictionary_short" -> << Bit(1), Byte(16 * (e.len + 6) + e.dist) >>
    [] e.type = "dictionary_long" ->
         << Bit(1), Byte((e.len - 3) + 32 * ((e.dist \div 256) % 4)), Byte(e.dist) >>

Lzkn1End == << Bit(1), Byte(31) >>

Lzkn1Gets(A, s, base) ==
  LET Data == s[2].val IN
  IF s[1].val = 0 THEN Literal(<< Data >>, << "bit", "byte" >>)
  ELSE IF Data = 31 THEN End(<< "bit", "byte" >>)
  ELSE IF Data >= 192
    THEN LET Count == Data - 192 + 8 IN
           Literal([i \in 1 .. Count |-> s[2 + i].val],
                   << "bit", "byte" >> \o Blanks("byte", Count))
  ELSE IF Data >= 128
    THEN Copy(base - (Data % 16), Data \div 16 - 6, << "bit", "byte" >>)
  ELSE Copy(base - (256 * ((Data \div 32) % 4) + s[3].val), (Data % 32) + 3,
            << "bit", "byte", "byte" >>)

(* Comper and ComperX, whose symbols are words.                            *)
ComperCode(A, e, x) ==
  CASE e.type = "symbolwise" -> << Bit(0), Byte(x \div 256), Byte(x) >>
    [] e.type = "dictionary" -> << Bit(1), Byte(-e.dist), Byte(e.len - 1) >>

ComperEnd == << Bit(1), Byte(0), Byte(0) >>

ComperGets(A, s, base) ==
  LET asked == << "bit", "byte", "byte" >>
      length == s[3].val
  IN  IF s[1].val = 0 THEN Literal(<< 256 * s[2].val + s[3].val >>, asked)
      ELSE IF length = 0 THEN End(asked)
      ELSE Copy(base - (256 - s[2].val), length + 1, asked)

ComperXCode(A, e, x) ==
  CASE e.type = "symbolwise" -> << Bit(0), Byte(x \div 256), Byte(x) >>
    [] e.type = "dictionary" ->
         << Bit(1), Byte(1 - e.dist), Byte((127 - (e.len - 2) \div 2) + 128 * (e.len % 2)) >>

ComperXEnd == << Bit(1), Byte(-1), Byte(0) >>

ComperXGets(A, s, base) ==
  LET asked == << "bit", "byte", "byte" >>
      raw_dist == s[2].val
      raw_len == s[3].val
      distance == IF raw_dist # 0 THEN 256 - raw_dist + 1 ELSE 1
  IN  IF s[1].val = 0 THEN Literal(<< 256 * s[2].val + s[3].val >>, asked)
      ELSE IF raw_len = 0 THEN End(asked)
      ELSE Copy(base - distance, (256 - 2 * (raw_len % 128)) + raw_len \div 128, asked)

-----------------------------------------------------------------------------
(* Saxman and Rocket write places instead of distances, in a ring of       *)
(* SearchBufSize (0x1000 and 0x400) symbols; they have no terminator.      *)
(* A zero fill has the greatest of distances, which wraps to minus one.    *)
SaxmanCode(A, e, x) ==
  LET dist == IF e.type = "zerofill" THEN -1 ELSE e.dist
      ring == (e.pos - dist - 18) % A.SearchBufSize
  IN  CASE e.type = "symbolwise" -> << Bit(1), Byte(x) >>
        [] OTHER -> << Bit(0), Byte(ring), Byte(((e.len - 3) % 16) + 16 * (ring \div 256)) >>

(* A place before the file begins, in an unsigned variable, is behind what *)
(* is written: a zero fill.                                                *)
SaxmanGets_NotRebased(A, s, base) ==     \* a slip: the first block alone
  LET asked == << "bit", "byte", "byte" >>
      length == (s[3].val % 16) + 3
      raw == (256 * (s[3].val \div 16) + s[2].val + 18) % A.SearchBufSize
  IN  IF s[1].val # 0 THEN Literal(<< s[2].val >>, << "bit", "byte" >>)
      ELSE IF raw < base THEN Copy(raw, length, asked)
      ELSE Literal(Blanks(0, length), asked)

SaxmanGets(A, s, base) ==
  LET asked == << "bit", "byte", "byte" >>
      length == (s[3].val % 16) + 3
      raw == (256 * (s[3].val \div 16) + s[2].val + 18) % A.SearchBufSize
      offset == ((raw - base) % A.SearchBufSize) + base - A.SearchBufSize
  IN  IF s[1].val # 0 THEN Literal(<< s[2].val >>, << "bit", "byte" >>)
      ELSE IF offset >= 0 THEN Copy(offset, length, asked)
      ELSE Literal(Blanks(0, length), asked)

Blank == 32

RocketCode(A, e, x) ==
  LET ring == (e.pos - e.dist) % A.SearchBufSize IN
  CASE e.type = "symbolwise" -> << Bit(1), Byte(x) >>
    [] e.type = "dictionary" -> << Bit(0), Byte(4 * (e.len - 1) + ring \div 256), Byte(ring) >>

(* The decoder's output lacks the blanks the encoder put before the file.  *)
RocketGets(A, s, base) ==
  LET asked == << "bit", "byte", "byte" >>
      length == s[2].val \div 4 + 1
      raw == 256 * (s[2].val % 4) + s[3].val
      offset == ((raw - base - A.FirstMatchPosition) % A.SearchBufSize) + base - A.SearchBufSize
      cnt == IF offset >= 0 THEN 0 ELSE IF offset + length < 0 THEN length ELSE -offset
  IN  IF s[1].val # 0 THEN Literal(<< s[2].val >>, << "bit", "byte" >>)
      ELSE Got(Blanks(Blank, cnt), offset + cnt, length - cnt, FALSE, asked)

-----------------------------------------------------------------------------
(* encode's switch, its terminator and decode's loop, by format.           *)
Code(A, e, x) ==
  CASE A.format = "kosinski" -> KosinskiCode(A, e, x)
    [] A.format = "kosplus" -> KosPlusCode(A, e, x)
    [] A.format = "lzkn1" -> Lzkn1Code(A, e, x)
    [] A.format = "comper" -> ComperCode(A, e, x)
    [] A.format = "comperx" -> ComperXCode(A, e, x)
    [] A.format = "saxman" -> SaxmanCode(A, e, x)
    [] A.format = "rocket" -> RocketCode(A, e, x)

Terminator(A) ==
  CASE A.format = "kosinski" -> KosinskiEnd
    [] A.format = "kosplus" -> KosPlusEnd
    [] A.format = "lzkn1" -> Lzkn1End
    [] A.format = "comper" -> ComperEnd
    [] A.format = "comperx" -> ComperXEnd
    [] OTHER -> << >>

Gets(A, s, base) ==
  CASE A.format = "kosinski" -> KosinskiGets(A, s, base)
    [] A.format = "kosplus" -> KosPlusGets(A, s, base)
    [] A.format = "lzkn1" -> Lzkn1Gets(A, s, base)
    [] A.format = "comper" -> ComperGets(A, s, base)
    [] A.format = "comperx" -> ComperXGets(A, s, base)
    [] A.format = "saxman" -> SaxmanGets(A, s, base)
    [] A.format = "rocket" -> RocketGets(A, s, base)
=============================================================================
