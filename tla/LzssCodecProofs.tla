-------------------------- MODULE LzssCodecProofs ---------------------------
(***************************************************************************)
(* Proofs about the codec of LzssCodec, for the seven formats with their   *)
(* real windows: for every distance, place and length a window admits what *)
(* decode makes of a match is the match that encode wrote, for every file  *)
(* what it makes of all of them is the file, the parser's costs are what   *)
(* encode writes, and no other way of writing the file takes less.         *)
(***************************************************************************)
EXTENDS LzssCodec, LzssParseProofs

(* lo .. hi; left unexpanded where a range has to be matched, not counted. *)
Span(lo, hi) == lo .. hi

(* What lies ahead of a decoder at the start of a token is the token.      *)
LEMMA AheadOfTwo ==
  ASSUME NEW a, NEW b
  PROVE  /\ Ahead(<< a, b >>, 0)[1] = a /\ Ahead(<< a, b >>, 0)[2] = b
         /\ Kinds(<< a, b >>) = << a.kind, b.kind >>
BY DEF Ahead, Kinds

(* The same of a token of three items.                                    *)
LEMMA AheadOfThree ==
  ASSUME NEW a, NEW b, NEW c
  PROVE  /\ Ahead(<< a, b, c >>, 0)[1] = a /\ Ahead(<< a, b, c >>, 0)[2] = b
         /\ Ahead(<< a, b, c >>, 0)[3] = c
         /\ Kinds(<< a, b, c >>) = << a.kind, b.kind, c.kind >>
BY DEF Ahead, Kinds

(* Of four.                                                                *)
LEMMA AheadOfFour ==
  ASSUME NEW a, NEW b, NEW c, NEW d
  PROVE  /\ Ahead(<< a, b, c, d >>, 0)[1] = a /\ Ahead(<< a, b, c, d >>, 0)[2] = b
         /\ Ahead(<< a, b, c, d >>, 0)[3] = c /\ Ahead(<< a, b, c, d >>, 0)[4] = d
         /\ Kinds(<< a, b, c, d >>) = << a.kind, b.kind, c.kind, d.kind >>
BY DEF Ahead, Kinds

(* Of five.                                                                *)
LEMMA AheadOfFive ==
  ASSUME NEW a, NEW b, NEW c, NEW d, NEW e
  PROVE  /\ Ahead(<< a, b, c, d, e >>, 0)[1] = a /\ Ahead(<< a, b, c, d, e >>, 0)[2] = b
         /\ Ahead(<< a, b, c, d, e >>, 0)[3] = c /\ Ahead(<< a, b, c, d, e >>, 0)[4] = d
         /\ Ahead(<< a, b, c, d, e >>, 0)[5] = e
         /\ Kinds(<< a, b, c, d, e >>) = << a.kind, b.kind, c.kind, d.kind, e.kind >>
BY DEF Ahead, Kinds

(* A bit goes out and comes in as it is.                                   *)
LEMMA BitKept == ASSUME NEW v PROVE Bit(v).kind = "bit" /\ Bit(v).val = v
BY DEF Bit

(* No blank is part of a match within the file.                            *)
LEMMA NoBlanks == Blanks(Blank, 0) = << >>
BY DEF Blanks

(* In a format without blanks a token is read as its match if it is read as*)
(* the copy the match stands for.                                          *)
LEMMA CopyIsMatch ==
  ASSUME NEW A, A.FirstMatchPosition = 0,
         NEW p \in Nat, NEW d \in 1 .. p, NEW n \in Nat, NEW t,
         ReadBack(A, Edge(p, d, n, t)) = Copy(p - d, n, Kinds(Code(A, Edge(p, d, n, t), 0)))
  PROVE  MatchReadsBack(A, Edge(p, d, n, t))
BY NoBlanks DEF MatchReadsBack, Copy, Got, Edge, Least

-----------------------------------------------------------------------------
(* The 13 bits of a far distance, split into a byte and the upper five     *)
(* bits of another, whose lower three may hold a count.                    *)
Low(d) == (8192 - d) % 256
Upper(d) == ((8192 - d) \div 256) % 32

(* They determine the distance.                                             *)
LEMMA FarSplits ==
  ASSUME NEW d \in Span(1, 8192)
  PROVE  Low(d) \in 0 .. 255 /\ Upper(d) \in 0 .. 31 /\ d = 8192 - (256 * Upper(d) + Low(d))
<1>1. PICK x \in 1 .. 8192 : x = d
  BY DEF Span
<1> DEFINE v == 8192 - x
<1>2. v \div 256 \in 0 .. 31 /\ v = 256 * (v \div 256) + (v % 256) /\ v % 256 \in 0 .. 255
  OBVIOUS
<1>3. (v \div 256) % 32 = v \div 256
  BY <1>2
<1>4. QED
  BY <1>1, <1>2, <1>3 DEF Low, Upper

(* Kosinski: a near match of two to five bytes, its count in two bits.     *)
LEMMA KosinskiInline ==
  ASSUME NEW p \in Nat, NEW d \in Span(1, 256), d <= p, NEW n \in Span(2, 5)
  PROVE  MatchReadsBack(KosinskiAdaptor, Edge(p, d, n, "dictionary_inline"))
<1>1. d \in 1 .. 256 /\ n \in 2 .. 5
  BY DEF Span
<1> DEFINE e == Edge(p, d, n, "dictionary_inline")
           c == << Bit(0), Bit(0), Bit(((n - 2) \div 2) % 2), Bit((n - 2) % 2), Byte(256 - d) >>
           s == Ahead(c, 0)
<1>2. Code(KosinskiAdaptor, e, 0) = c
  BY <1>1 DEF Code, KosinskiCode, KosinskiAdaptor, Edge
<1>3. 2 * (((n - 2) \div 2) % 2) + ((n - 2) % 2) + 2 = n
  BY <1>1
<1>4. /\ 256 - d \in 0 .. 255
  BY <1>1, <1>3
<1>5. /\ Byte(256 - d).kind = "byte" /\ Byte(256 - d).val = 256 - d
  <2>1. (256 - d) % 256 = 256 - d
    BY <1>3, <1>4
  <2>2. QED
    BY <2>1 DEF Byte
<1>6. /\ s[1].val = 0
      /\ s[2].val = 0
      /\ s[3].val = ((n - 2) \div 2) % 2
      /\ s[4].val = (n - 2) % 2
      /\ s[5].val = 256 - d
      /\ Kinds(c) = << "bit", "bit", "bit", "bit", "byte" >>
  BY <1>5, BitKept, AheadOfFive
<1>7. Gets(KosinskiAdaptor, s, p) = Copy(p - d, n, Kinds(c))
  <2>1. Gets(KosinskiAdaptor, s, p) = KosinskiGets(KosinskiAdaptor, s, p)
    BY DEF Gets, KosinskiAdaptor
  <2> HIDE DEF c, s
  <2>2. QED
    BY <1>1, <1>3, <1>6, <2>1 DEF KosinskiGets
<1>8. ReadBack(KosinskiAdaptor, e) = Gets(KosinskiAdaptor, s, p)
  BY <1>2 DEF ReadBack, KosinskiAdaptor, Edge
<1>9. KosinskiAdaptor.FirstMatchPosition = 0 /\ d \in 1 .. p /\ n \in Nat
  BY <1>1 DEF KosinskiAdaptor
<1> HIDE DEF c, s
<1>10. QED
  BY <1>2, <1>7, <1>8, <1>9, CopyIsMatch

(* A far match of three to nine bytes, its count in the second byte.       *)
LEMMA KosinskiShort ==
  ASSUME NEW p \in Nat, NEW d \in Span(1, 8192), d <= p, NEW n \in Span(3, 9)
  PROVE  MatchReadsBack(KosinskiAdaptor, Edge(p, d, n, "dictionary_short"))
<1>1. d \in 1 .. 8192 /\ n \in 3 .. 9
  BY DEF Span
<1>2. Low(d) \in 0 .. 255 /\ Upper(d) \in 0 .. 31 /\ d = 8192 - (256 * Upper(d) + Low(d))
  BY FarSplits
<1> DEFINE e == Edge(p, d, n, "dictionary_short")
           c == << Bit(0), Bit(1), Byte(Low(d)), Byte(8 * Upper(d) + (n - 2)) >>
           s == Ahead(c, 0)
<1>3. Code(KosinskiAdaptor, e, 0) = c
  BY <1>1 DEF Code, KosinskiCode, KosinskiAdaptor, Edge, Low, Upper
<1>4. /\ 8 * Upper(d) + (n - 2) \in 0 .. 255
      /\ (8 * Upper(d) + (n - 2)) % 8 = n - 2
      /\ Far(8 * Upper(d) + (n - 2), Low(d)) = d
  <2>1. /\ (8 * Upper(d) + (n - 2)) % 8 = n - 2
        /\ (8 * Upper(d) + (n - 2)) \div 8 = Upper(d)
        /\ 8 * Upper(d) + (n - 2) \in 0 .. 255
    BY <1>1, <1>2
  <2>2. QED
    BY <1>2, <2>1 DEF Far
<1>5. /\ Low(d) \in 0 .. 255
      /\ 8 * Upper(d) + (n - 2) \in 0 .. 255
  BY <1>1, <1>2, <1>4
<1>6. /\ Byte(Low(d)).kind = "byte" /\ Byte(Low(d)).val = Low(d)
      /\ Byte(8 * Upper(d) + (n - 2)).kind = "byte"
      /\ Byte(8 * Upper(d) + (n - 2)).val = 8 * Upper(d) + (n - 2)
  <2>1. (Low(d)) % 256 = Low(d) /\ (8 * Upper(d) + (n - 2)) % 256 = 8 * Upper(d) + (n - 2)
    BY <1>4, <1>5
  <2>2. QED
    BY <2>1 DEF Byte
<1>7. /\ s[1].val = 0
      /\ s[2].val = 1
      /\ s[3].val = Low(d)
      /\ s[4].val = 8 * Upper(d) + (n - 2)
      /\ Kinds(c) = << "bit", "bit", "byte", "byte" >>
  BY <1>6, BitKept, AheadOfFour
<1>8. Gets(KosinskiAdaptor, s, p) = Copy(p - d, n, Kinds(c))
  <2>1. Gets(KosinskiAdaptor, s, p) = KosinskiGets(KosinskiAdaptor, s, p)
    BY DEF Gets, KosinskiAdaptor
  <2> HIDE DEF c, s
  <2>2. QED
    BY <1>1, <1>4, <1>7, <2>1 DEF KosinskiGets
<1>9. ReadBack(KosinskiAdaptor, e) = Gets(KosinskiAdaptor, s, p)
  BY <1>3 DEF ReadBack, KosinskiAdaptor, Edge
<1>10. KosinskiAdaptor.FirstMatchPosition = 0 /\ d \in 1 .. p /\ n \in Nat
  BY <1>1 DEF KosinskiAdaptor
<1> HIDE DEF c, s
<1>11. QED
  BY <1>3, <1>8, <1>9, <1>10, CopyIsMatch

(* A far match of more, its count in a byte of its own, never zero or one. *)
LEMMA KosinskiLong ==
  ASSUME NEW p \in Nat, NEW d \in Span(1, 8192), d <= p, NEW n \in Span(10, 256)
  PROVE  MatchReadsBack(KosinskiAdaptor, Edge(p, d, n, "dictionary_long"))
<1>1. d \in 1 .. 8192 /\ n \in 10 .. 256
  BY DEF Span
<1>2. Low(d) \in 0 .. 255 /\ Upper(d) \in 0 .. 31 /\ d = 8192 - (256 * Upper(d) + Low(d))
  BY FarSplits
<1> DEFINE e == Edge(p, d, n, "dictionary_long")
           c == << Bit(0), Bit(1), Byte(Low(d)), Byte(8 * Upper(d)), Byte(n - 1) >>
           s == Ahead(c, 0)
<1>3. Code(KosinskiAdaptor, e, 0) = c
  BY <1>1 DEF Code, KosinskiCode, KosinskiAdaptor, Edge, Low, Upper
<1>4. /\ 8 * Upper(d) \in 0 .. 255
      /\ (8 * Upper(d)) % 8 = 0
      /\ Far(8 * Upper(d), Low(d)) = d
  <2>1. /\ (8 * Upper(d)) % 8 = 0
        /\ (8 * Upper(d)) \div 8 = Upper(d)
        /\ 8 * Upper(d) \in 0 .. 255
    BY <1>1, <1>2
  <2>2. QED
    BY <1>2, <2>1 DEF Far
<1>5. /\ Low(d) \in 0 .. 255
      /\ 8 * Upper(d) \in 0 .. 255
      /\ n - 1 \in 0 .. 255
  BY <1>1, <1>2, <1>4
<1>6. /\ Byte(Low(d)).kind = "byte" /\ Byte(Low(d)).val = Low(d)
      /\ Byte(8 * Upper(d)).kind = "byte" /\ Byte(8 * Upper(d)).val = 8 * Upper(d)
      /\ Byte(n - 1).kind = "byte" /\ Byte(n - 1).val = n - 1
  <2>1. /\ (Low(d)) % 256 = Low(d)
        /\ (8 * Upper(d)) % 256 = 8 * Upper(d)
        /\ (n - 1) % 256 = n - 1
    BY <1>4, <1>5
  <2>2. QED
    BY <2>1 DEF Byte
<1>7. /\ s[1].val = 0
      /\ s[2].val = 1
      /\ s[3].val = Low(d)
      /\ s[4].val = 8 * Upper(d)
      /\ s[5].val = n - 1
      /\ Kinds(c) = << "bit", "bit", "byte", "byte", "byte" >>
  BY <1>6, BitKept, AheadOfFive
<1>8. Gets(KosinskiAdaptor, s, p) = Copy(p - d, n, Kinds(c))
  <2>1. Gets(KosinskiAdaptor, s, p) = KosinskiGets(KosinskiAdaptor, s, p)
    BY DEF Gets, KosinskiAdaptor
  <2> HIDE DEF c, s
  <2>2. QED
    BY <1>1, <1>4, <1>7, <2>1 DEF KosinskiGets
<1>9. ReadBack(KosinskiAdaptor, e) = Gets(KosinskiAdaptor, s, p)
  BY <1>3 DEF ReadBack, KosinskiAdaptor, Edge
<1>10. KosinskiAdaptor.FirstMatchPosition = 0 /\ d \in 1 .. p /\ n \in Nat
  BY <1>1 DEF KosinskiAdaptor
<1> HIDE DEF c, s
<1>11. QED
  BY <1>3, <1>8, <1>9, <1>10, CopyIsMatch

(* KosPlus: a near match, its byte before the two bits of the count.       *)
LEMMA KosPlusInline ==
  ASSUME NEW p \in Nat, NEW d \in Span(1, 256), d <= p, NEW n \in Span(2, 5)
  PROVE  MatchReadsBack(KosPlusAdaptor, Edge(p, d, n, "dictionary_inline"))
<1>1. d \in 1 .. 256 /\ n \in 2 .. 5
  BY DEF Span
<1> DEFINE e == Edge(p, d, n, "dictionary_inline")
           c == << Bit(0), Bit(0), Byte(256 - d), Bit(((n - 2) \div 2) % 2), Bit((n - 2) % 2) >>
           s == Ahead(c, 0)
<1>2. Code(KosPlusAdaptor, e, 0) = c
  BY <1>1 DEF Code, KosPlusCode, KosPlusAdaptor, Edge
<1>3. 2 * (((n - 2) \div 2) % 2) + ((n - 2) % 2) + 2 = n
  BY <1>1
<1>4. /\ 256 - d \in 0 .. 255
  BY <1>1, <1>3
<1>5. /\ Byte(256 - d).kind = "byte" /\ Byte(256 - d).val = 256 - d
  <2>1. (256 - d) % 256 = 256 - d
    BY <1>3, <1>4
  <2>2. QED
    BY <2>1 DEF Byte
<1>6. /\ s[1].val = 0
      /\ s[2].val = 0
      /\ s[3].val = 256 - d
      /\ s[4].val = ((n - 2) \div 2) % 2
      /\ s[5].val = (n - 2) % 2
      /\ Kinds(c) = << "bit", "bit", "byte", "bit", "bit" >>
  BY <1>5, BitKept, AheadOfFive
<1>7. Gets(KosPlusAdaptor, s, p) = Copy(p - d, n, Kinds(c))
  <2>1. Gets(KosPlusAdaptor, s, p) = KosPlusGets(KosPlusAdaptor, s, p)
    BY DEF Gets, KosPlusAdaptor
  <2> HIDE DEF c, s
  <2>2. QED
    BY <1>1, <1>3, <1>6, <2>1 DEF KosPlusGets
<1>8. ReadBack(KosPlusAdaptor, e) = Gets(KosPlusAdaptor, s, p)
  BY <1>2 DEF ReadBack, KosPlusAdaptor, Edge
<1>9. KosPlusAdaptor.FirstMatchPosition = 0 /\ d \in 1 .. p /\ n \in Nat
  BY <1>1 DEF KosPlusAdaptor
<1> HIDE DEF c, s
<1>10. QED
  BY <1>2, <1>7, <1>8, <1>9, CopyIsMatch

(* A far match of three to nine bytes, its count taken from ten.           *)
LEMMA KosPlusShort ==
  ASSUME NEW p \in Nat, NEW d \in Span(1, 8192), d <= p, NEW n \in Span(3, 9)
  PROVE  MatchReadsBack(KosPlusAdaptor, Edge(p, d, n, "dictionary_short"))
<1>1. d \in 1 .. 8192 /\ n \in 3 .. 9
  BY DEF Span
<1>2. Low(d) \in 0 .. 255 /\ Upper(d) \in 0 .. 31 /\ d = 8192 - (256 * Upper(d) + Low(d))
  BY FarSplits
<1> DEFINE e == Edge(p, d, n, "dictionary_short")
           c == << Bit(0), Bit(1), Byte(8 * Upper(d) + (10 - n)), Byte(Low(d)) >>
           s == Ahead(c, 0)
<1>3. Code(KosPlusAdaptor, e, 0) = c
  BY <1>1 DEF Code, KosPlusCode, ShortMax, Window, KosPlusAdaptor, Edge, Low, Upper
<1>4. /\ 8 * Upper(d) + (10 - n) \in 0 .. 255
      /\ (8 * Upper(d) + (10 - n)) % 8 = 10 - n
      /\ Far(8 * Upper(d) + (10 - n), Low(d)) = d
  <2>1. /\ (8 * Upper(d) + (10 - n)) % 8 = 10 - n
        /\ (8 * Upper(d) + (10 - n)) \div 8 = Upper(d)
        /\ 8 * Upper(d) + (10 - n) \in 0 .. 255
    BY <1>1, <1>2
  <2>2. QED
    BY <1>2, <2>1 DEF Far
<1>5. /\ 8 * Upper(d) + (10 - n) \in 0 .. 255
      /\ Low(d) \in 0 .. 255
  BY <1>1, <1>2, <1>4
<1>6. /\ Byte(8 * Upper(d) + (10 - n)).kind = "byte"
      /\ Byte(8 * Upper(d) + (10 - n)).val = 8 * Upper(d) + (10 - n)
      /\ Byte(Low(d)).kind = "byte" /\ Byte(Low(d)).val = Low(d)
  <2>1. (8 * Upper(d) + (10 - n)) % 256 = 8 * Upper(d) + (10 - n) /\ (Low(d)) % 256 = Low(d)
    BY <1>4, <1>5
  <2>2. QED
    BY <2>1 DEF Byte
<1>7. /\ s[1].val = 0
      /\ s[2].val = 1
      /\ s[3].val = 8 * Upper(d) + (10 - n)
      /\ s[4].val = Low(d)
      /\ Kinds(c) = << "bit", "bit", "byte", "byte" >>
  BY <1>6, BitKept, AheadOfFour
<1>8. Gets(KosPlusAdaptor, s, p) = Copy(p - d, n, Kinds(c))
  <2>1. Gets(KosPlusAdaptor, s, p) = KosPlusGets(KosPlusAdaptor, s, p)
    BY DEF Gets, KosPlusAdaptor
  <2> HIDE DEF c, s
  <2>2. QED
    BY <1>1, <1>4, <1>7, <2>1 DEF KosPlusGets, ShortMax, KosPlusAdaptor, Window
<1>9. ReadBack(KosPlusAdaptor, e) = Gets(KosPlusAdaptor, s, p)
  BY <1>3 DEF ReadBack, KosPlusAdaptor, Edge
<1>10. KosPlusAdaptor.FirstMatchPosition = 0 /\ d \in 1 .. p /\ n \in Nat
  BY <1>1 DEF KosPlusAdaptor
<1> HIDE DEF c, s
<1>11. QED
  BY <1>3, <1>8, <1>9, <1>10, CopyIsMatch

(* A far match of more, its count less nine in a byte of its own.          *)
LEMMA KosPlusLong ==
  ASSUME NEW p \in Nat, NEW d \in Span(1, 8192), d <= p, NEW n \in Span(10, 264)
  PROVE  MatchReadsBack(KosPlusAdaptor, Edge(p, d, n, "dictionary_long"))
<1>1. d \in 1 .. 8192 /\ n \in 10 .. 264
  BY DEF Span
<1>2. Low(d) \in 0 .. 255 /\ Upper(d) \in 0 .. 31 /\ d = 8192 - (256 * Upper(d) + Low(d))
  BY FarSplits
<1> DEFINE e == Edge(p, d, n, "dictionary_long")
           c == << Bit(0), Bit(1), Byte(8 * Upper(d)), Byte(Low(d)), Byte(n - 9) >>
           s == Ahead(c, 0)
<1>3. Code(KosPlusAdaptor, e, 0) = c
  BY <1>1 DEF Code, KosPlusCode, ShortMax, Window, KosPlusAdaptor, Edge, Low, Upper
<1>4. /\ 8 * Upper(d) \in 0 .. 255
      /\ (8 * Upper(d)) % 8 = 0
      /\ Far(8 * Upper(d), Low(d)) = d
  <2>1. /\ (8 * Upper(d)) % 8 = 0
        /\ (8 * Upper(d)) \div 8 = Upper(d)
        /\ 8 * Upper(d) \in 0 .. 255
    BY <1>1, <1>2
  <2>2. QED
    BY <1>2, <2>1 DEF Far
<1>5. /\ 8 * Upper(d) \in 0 .. 255
      /\ Low(d) \in 0 .. 255
      /\ n - 9 \in 0 .. 255
  BY <1>1, <1>2, <1>4
<1>6. /\ Byte(8 * Upper(d)).kind = "byte" /\ Byte(8 * Upper(d)).val = 8 * Upper(d)
      /\ Byte(Low(d)).kind = "byte" /\ Byte(Low(d)).val = Low(d)
      /\ Byte(n - 9).kind = "byte" /\ Byte(n - 9).val = n - 9
  <2>1. /\ (8 * Upper(d)) % 256 = 8 * Upper(d)
        /\ (Low(d)) % 256 = Low(d)
        /\ (n - 9) % 256 = n - 9
    BY <1>4, <1>5
  <2>2. QED
    BY <2>1 DEF Byte
<1>7. /\ s[1].val = 0
      /\ s[2].val = 1
      /\ s[3].val = 8 * Upper(d)
      /\ s[4].val = Low(d)
      /\ s[5].val = n - 9
      /\ Kinds(c) = << "bit", "bit", "byte", "byte", "byte" >>
  BY <1>6, BitKept, AheadOfFive
<1>8. Gets(KosPlusAdaptor, s, p) = Copy(p - d, n, Kinds(c))
  <2>1. Gets(KosPlusAdaptor, s, p) = KosPlusGets(KosPlusAdaptor, s, p)
    BY DEF Gets, KosPlusAdaptor
  <2> HIDE DEF c, s
  <2>2. QED
    BY <1>1, <1>4, <1>7, <2>1 DEF KosPlusGets, ShortMax, KosPlusAdaptor, Window
<1>9. ReadBack(KosPlusAdaptor, e) = Gets(KosPlusAdaptor, s, p)
  BY <1>3 DEF ReadBack, KosPlusAdaptor, Edge
<1>10. KosPlusAdaptor.FirstMatchPosition = 0 /\ d \in 1 .. p /\ n \in Nat
  BY <1>1 DEF KosPlusAdaptor
<1> HIDE DEF c, s
<1>11. QED
  BY <1>3, <1>8, <1>9, <1>10, CopyIsMatch

(* LZKN1: a near match in one byte, never that of the end.                 *)
LEMMA Lzkn1Short ==
  ASSUME NEW p \in Nat, NEW d \in Span(1, 15), d <= p, NEW n \in Span(2, 5)
  PROVE  MatchReadsBack(Lzkn1Adaptor, Edge(p, d, n, "dictionary_short"))
<1>1. d \in 1 .. 15 /\ n \in 2 .. 5
  BY DEF Span
<1> DEFINE e == Edge(p, d, n, "dictionary_short")
           c == << Bit(1), Byte(16 * (n + 6) + d) >>
           s == Ahead(c, 0)
<1>2. Code(Lzkn1Adaptor, e, 0) = c
  BY <1>1 DEF Code, Lzkn1Code, Lzkn1Adaptor, Edge
<1>3. /\ 16 * (n + 6) + d \in 128 .. 191
      /\ (16 * (n + 6) + d) % 16 = d /\ (16 * (n + 6) + d) \div 16 = n + 6
  BY <1>1
<1>4. /\ 16 * (n + 6) + d \in 0 .. 255
  BY <1>1, <1>3
<1>5. /\ Byte(16 * (n + 6) + d).kind = "byte"
      /\ Byte(16 * (n + 6) + d).val = 16 * (n + 6) + d
  <2>1. (16 * (n + 6) + d) % 256 = 16 * (n + 6) + d
    BY <1>3, <1>4
  <2>2. QED
    BY <2>1 DEF Byte
<1>6. /\ s[1].val = 1
      /\ s[2].val = 16 * (n + 6) + d
      /\ Kinds(c) = << "bit", "byte" >>
  BY <1>5, BitKept, AheadOfTwo
<1>7. Gets(Lzkn1Adaptor, s, p) = Copy(p - d, n, Kinds(c))
  <2>1. Gets(Lzkn1Adaptor, s, p) = Lzkn1Gets(Lzkn1Adaptor, s, p)
    BY DEF Gets, Lzkn1Adaptor
  <2> HIDE DEF c, s
  <2>2. QED
    BY <1>1, <1>3, <1>6, <2>1 DEF Lzkn1Gets
<1>8. ReadBack(Lzkn1Adaptor, e) = Gets(Lzkn1Adaptor, s, p)
  BY <1>2 DEF ReadBack, Lzkn1Adaptor, Edge
<1>9. Lzkn1Adaptor.FirstMatchPosition = 0 /\ d \in 1 .. p /\ n \in Nat
  BY <1>1 DEF Lzkn1Adaptor
<1> HIDE DEF c, s
<1>10. QED
  BY <1>2, <1>7, <1>8, <1>9, CopyIsMatch

(* A far match: two bits of its distance above five of its length.         *)
LEMMA Lzkn1Long ==
  ASSUME NEW p \in Nat, NEW d \in Span(1, 1023), d <= p, NEW n \in Span(3, 33)
  PROVE  MatchReadsBack(Lzkn1Adaptor, Edge(p, d, n, "dictionary_long"))
<1>1. d \in 1 .. 1023 /\ n \in 3 .. 33
  BY DEF Span
<1> DEFINE e == Edge(p, d, n, "dictionary_long")
           c == << Bit(1), Byte((n - 3) + 32 * ((d \div 256) % 4)), Byte(d) >>
           s == Ahead(c, 0)
<1>2. Code(Lzkn1Adaptor, e, 0) = c
  BY <1>1 DEF Code, Lzkn1Code, Lzkn1Adaptor, Edge
<1>3. /\ d % 256 \in 0 .. 255 /\ d = 256 * ((d \div 256) % 4) + (d % 256)
      /\ (n - 3) + 32 * ((d \div 256) % 4) \in 0 .. 127
      /\ (n - 3) + 32 * ((d \div 256) % 4) # 31
      /\ ((n - 3) + 32 * ((d \div 256) % 4)) % 32 = n - 3
      /\ (((n - 3) + 32 * ((d \div 256) % 4)) \div 32) % 4 = (d \div 256) % 4
  BY <1>1
<1>4. /\ (n - 3) + 32 * ((d \div 256) % 4) \in 0 .. 255
      /\ d % 256 \in 0 .. 255
  BY <1>1, <1>3
<1>5. /\ Byte((n - 3) + 32 * ((d \div 256) % 4)).kind = "byte"
      /\ Byte((n - 3) + 32 * ((d \div 256) % 4)).val = (n - 3) + 32 * ((d \div 256) % 4)
      /\ Byte(d).kind = "byte" /\ Byte(d).val = d % 256
  <2>1. /\ ((n - 3) + 32 * ((d \div 256) % 4)) % 256 = (n - 3) + 32 * ((d \div 256) % 4)
        /\ (d) % 256 = d % 256
    BY <1>3, <1>4
  <2>2. QED
    BY <2>1 DEF Byte
<1>6. /\ s[1].val = 1
      /\ s[2].val = (n - 3) + 32 * ((d \div 256) % 4)
      /\ s[3].val = d % 256
      /\ Kinds(c) = << "bit", "byte", "byte" >>
  BY <1>5, BitKept, AheadOfThree
<1>7. Gets(Lzkn1Adaptor, s, p) = Copy(p - d, n, Kinds(c))
  <2>1. Gets(Lzkn1Adaptor, s, p) = Lzkn1Gets(Lzkn1Adaptor, s, p)
    BY DEF Gets, Lzkn1Adaptor
  <2> HIDE DEF c, s
  <2>2. QED
    BY <1>1, <1>3, <1>6, <2>1 DEF Lzkn1Gets
<1>8. ReadBack(Lzkn1Adaptor, e) = Gets(Lzkn1Adaptor, s, p)
  BY <1>2 DEF ReadBack, Lzkn1Adaptor, Edge
<1>9. Lzkn1Adaptor.FirstMatchPosition = 0 /\ d \in 1 .. p /\ n \in Nat
  BY <1>1 DEF Lzkn1Adaptor
<1> HIDE DEF c, s
<1>10. QED
  BY <1>2, <1>7, <1>8, <1>9, CopyIsMatch

(* Comper: a match of words, its distance below zero, its length less one. *)
LEMMA ComperMatch ==
  ASSUME NEW p \in Nat, NEW d \in Span(1, 256), d <= p, NEW n \in Span(2, 256)
  PROVE  MatchReadsBack(ComperAdaptor, Edge(p, d, n, "dictionary"))
<1>1. d \in 1 .. 256 /\ n \in 2 .. 256
  BY DEF Span
<1> DEFINE e == Edge(p, d, n, "dictionary")
           c == << Bit(1), Byte(-d), Byte(n - 1) >>
           s == Ahead(c, 0)
<1>2. Code(ComperAdaptor, e, 0) = c
  BY <1>1 DEF Code, ComperCode, ComperAdaptor, Edge
<1>3. (-d) % 256 = 256 - d
  BY <1>1
<1>4. /\ 256 - d \in 0 .. 255
      /\ n - 1 \in 0 .. 255
  BY <1>1, <1>3
<1>5. /\ Byte(-d).kind = "byte" /\ Byte(-d).val = 256 - d
      /\ Byte(n - 1).kind = "byte" /\ Byte(n - 1).val = n - 1
  <2>1. (-d) % 256 = 256 - d /\ (n - 1) % 256 = n - 1
    BY <1>3, <1>4
  <2>2. QED
    BY <2>1 DEF Byte
<1>6. /\ s[1].val = 1
      /\ s[2].val = 256 - d
      /\ s[3].val = n - 1
      /\ Kinds(c) = << "bit", "byte", "byte" >>
  BY <1>5, BitKept, AheadOfThree
<1>7. Gets(ComperAdaptor, s, p) = Copy(p - d, n, Kinds(c))
  <2>1. Gets(ComperAdaptor, s, p) = ComperGets(ComperAdaptor, s, p)
    BY DEF Gets, ComperAdaptor
  <2> HIDE DEF c, s
  <2>2. QED
    BY <1>1, <1>3, <1>6, <2>1 DEF ComperGets
<1>8. ReadBack(ComperAdaptor, e) = Gets(ComperAdaptor, s, p)
  BY <1>2 DEF ReadBack, ComperAdaptor, Edge
<1>9. ComperAdaptor.FirstMatchPosition = 0 /\ d \in 1 .. p /\ n \in Nat
  BY <1>1 DEF ComperAdaptor
<1> HIDE DEF c, s
<1>10. QED
  BY <1>2, <1>7, <1>8, <1>9, CopyIsMatch

(* A match of ComperX, whose length is split into its parity and the rest. *)
LEMMA ComperXMatch ==
  ASSUME NEW p \in Nat, NEW d \in Span(1, 256), d <= p, NEW n \in Span(2, 255)
  PROVE  MatchReadsBack(ComperXAdaptor, Edge(p, d, n, "dictionary"))
<1>1. d \in 1 .. 256 /\ n \in 2 .. 255
  BY DEF Span
<1> DEFINE e == Edge(p, d, n, "dictionary")
           c == << Bit(1), Byte(1 - d), Byte((127 - (n - 2) \div 2) + 128 * (n % 2)) >>
           s == Ahead(c, 0)
<1>2. Code(ComperXAdaptor, e, 0) = c
  BY <1>1 DEF Code, ComperXCode, ComperAdaptor, ComperXAdaptor, Edge
<1>3. /\ (1 - d) % 256 = IF d = 1 THEN 0 ELSE 257 - d
      /\ (127 - (n - 2) \div 2) + 128 * (n % 2) \in 1 .. 255
      /\ ((127 - (n - 2) \div 2) + 128 * (n % 2)) % 128 = 127 - (n - 2) \div 2
      /\ ((127 - (n - 2) \div 2) + 128 * (n % 2)) \div 128 = n % 2
      /\ (256 - 2 * (127 - (n - 2) \div 2)) + (n % 2) = n
  BY <1>1
<1>4. /\ (1 - d) % 256 \in 0 .. 255
      /\ (127 - (n - 2) \div 2) + 128 * (n % 2) \in 0 .. 255
  BY <1>1, <1>3
<1>5. /\ Byte(1 - d).kind = "byte" /\ Byte(1 - d).val = (1 - d) % 256
      /\ Byte((127 - (n - 2) \div 2) + 128 * (n % 2)).kind = "byte"
      /\ Byte((127 - (n - 2) \div 2) + 128 * (n % 2)).val = (127 - (n - 2) \div 2) + 128 * (n % 2)
  <2>1. /\ (1 - d) % 256 = (1 - d) % 256
        /\ ((127 - (n - 2) \div 2) + 128 * (n % 2)) % 256 = (127 - (n - 2) \div 2) + 128 * (n % 2)
    BY <1>3, <1>4
  <2>2. QED
    BY <2>1 DEF Byte
<1>6. /\ s[1].val = 1
      /\ s[2].val = (1 - d) % 256
      /\ s[3].val = (127 - (n - 2) \div 2) + 128 * (n % 2)
      /\ Kinds(c) = << "bit", "byte", "byte" >>
  BY <1>5, BitKept, AheadOfThree
<1>7. Gets(ComperXAdaptor, s, p) = Copy(p - d, n, Kinds(c))
  <2>1. Gets(ComperXAdaptor, s, p) = ComperXGets(ComperXAdaptor, s, p)
    BY DEF Gets, ComperXAdaptor
  <2> HIDE DEF c, s
  <2>2. QED
    BY <1>1, <1>3, <1>6, <2>1 DEF ComperXGets
<1>8. ReadBack(ComperXAdaptor, e) = Gets(ComperXAdaptor, s, p)
  BY <1>2 DEF ReadBack, ComperXAdaptor, ComperAdaptor, Edge
<1>9. ComperXAdaptor.FirstMatchPosition = 0 /\ d \in 1 .. p /\ n \in Nat
  BY <1>1 DEF ComperXAdaptor, ComperAdaptor
<1> HIDE DEF c, s
<1>10. QED
  BY <1>2, <1>7, <1>8, <1>9, CopyIsMatch

(* Saxman: a match, written as its place in the ring and read as the place *)
(* nearest behind what is written.                                         *)
LEMMA SaxmanMatch ==
  ASSUME NEW p \in Nat, NEW d \in Span(1, 4096), d <= p, NEW n \in Span(3, 18)
  PROVE  MatchReadsBack(SaxmanAdaptor, Edge(p, d, n, "dictionary"))
<1>1. PICK x \in 1 .. 4096 : x = d
  BY DEF Span
<1>2. PICK m \in 3 .. 18 : m = n
  BY DEF Span
<1>3. PICK q \in Int : q = p - x - 18
  OBVIOUS
<1>4. PICK r \in Int : r = q % 4096
  OBVIOUS
<1>5. r = q % 4096 /\ r \in 0 .. 4095
  BY <1>4
<1> DEFINE e == Edge(p, d, n, "dictionary")
           high == (m - 3) + 16 * (r \div 256)
           c == << Bit(0), Byte(r), Byte(high) >>
           s == Ahead(c, 0)
<1>6. Code(SaxmanAdaptor, e, 0) = c
  <2>1. (m - 3) % 16 = m - 3
    OBVIOUS
  <2>2. QED
    BY <1>1, <1>2, <1>3, <1>5, <2>1 DEF Code, SaxmanCode, SaxmanAdaptor, Edge
<1>7. /\ high \in 0 .. 255 /\ high % 256 = high
      /\ high % 16 = m - 3 /\ high \div 16 = r \div 256
      /\ 256 * (r \div 256) + (r % 256) = r
  <2>1. PICK k \in 0 .. 15 : k = r \div 256 /\ 256 * k + (r % 256) = r
    BY <1>5
  <2>2. PICK t \in 0 .. 15 : t = m - 3
    OBVIOUS
  <2>3. PICK h \in 0 .. 255 : h = t + 16 * k
    BY <2>1, <2>2
  <2>4. h % 256 = h /\ h % 16 = t /\ h \div 16 = k
    BY ONLY <2>1, <2>2, <2>3
  <2>5. high = h
    BY <2>1, <2>2, <2>3
  <2> HIDE DEF high
  <2>6. QED
    BY <2>1, <2>2, <2>4, <2>5
<1>8. /\ s[1].val = 0 /\ s[2].val = r % 256 /\ s[3].val = high
      /\ Kinds(c) = << "bit", "byte", "byte" >>
  <2>1. /\ Byte(high).kind = "byte"
        /\ Byte(high).val = high
        /\ Byte(r).kind = "byte"
        /\ Byte(r).val = r % 256
    BY <1>7 DEF Byte
  <2>2. QED
    BY <2>1, BitKept, AheadOfThree
<1>9. (((r + 18) % 4096) - p) % 4096 = 4096 - x \/ (x = 4096 /\ (((r + 18) % 4096) - p) % 4096 = 0)
  <2>1. PICK k \in Int : q = 4096 * k + r
    <3>1. q \div 4096 \in Int /\ q = 4096 * (q \div 4096) + r
      BY <1>5
    <3>2. QED
      BY <3>1
  <2>2. PICK u \in Int : u = (r + 18) % 4096 /\ (u = r + 18 \/ u = r + 18 - 4096)
    <3>1. (r + 18) % 4096 = r + 18 \/ (r + 18) % 4096 = r + 18 - 4096
      BY <1>5
    <3>2. r + 18 \in Int /\ r + 18 - 4096 \in Int
      OBVIOUS
    <3>3. QED
      BY <3>1, <3>2
  <2>3. PICK j \in Int : u - p = 4096 * j + (4096 - x)
    <3>1. u - p = 4096 * (-k - 1) + (4096 - x) \/ u - p = 4096 * (-k - 2) + (4096 - x)
      BY <1>3, <2>1, <2>2
    <3>2. PICK i \in Int, l \in Int : i = -k - 1 /\ l = -k - 2
      OBVIOUS
    <3>3. u - p = 4096 * i + (4096 - x) \/ u - p = 4096 * l + (4096 - x)
      BY <3>1, <3>2
    <3>4. QED
      BY <3>3
  <2>4. PICK v \in Int : v = u - p
    OBVIOUS
  <2>5. v % 4096 = 4096 - x \/ (x = 4096 /\ v % 4096 = 0)
    <3>1. CASE x = 4096
      <4>1. v = 4096 * j
        BY <2>3, <2>4, <3>1
      <4>2. v % 4096 = 0
        BY <4>1
      <4>3. QED
        BY <3>1, <4>2
    <3>2. CASE x # 4096
      <4>1. PICK y \in 1 .. 4095 : y = 4096 - x
        BY <3>2
      <4>2. v = 4096 * j + y
        BY <2>3, <2>4, <4>1
      <4>3. v % 4096 = y
        BY <4>2
      <4>4. QED
        BY <4>1, <4>3
    <3>3. QED
      BY <3>1, <3>2
  <2>6. QED
    BY <2>2, <2>4, <2>5
<1>10. Gets(SaxmanAdaptor, s, p) = Copy(p - d, n, Kinds(c))
  <2>1. Gets(SaxmanAdaptor, s, p) = SaxmanGets(SaxmanAdaptor, s, p)
    BY DEF Gets, SaxmanAdaptor
  <2> HIDE DEF c, s, high
  <2>2. QED
    BY <1>1, <1>2, <1>7, <1>8, <1>9, <2>1 DEF SaxmanGets, SaxmanAdaptor
<1>11. ReadBack(SaxmanAdaptor, e) = Gets(SaxmanAdaptor, s, p)
  BY <1>6 DEF ReadBack, SaxmanAdaptor, Edge
<1>12. SaxmanAdaptor.FirstMatchPosition = 0 /\ d \in 1 .. p /\ n \in Nat
  BY <1>1, <1>2 DEF SaxmanAdaptor
<1> HIDE DEF c, s
<1>13. QED
  BY <1>6, <1>10, <1>11, <1>12, CopyIsMatch

(* Rocket: what of the match is before the file is blanks.                 *)
LEMMA RocketMatch ==
  ASSUME NEW p \in Nat, 960 <= p, NEW d \in Span(1, 1024), d <= p, NEW n \in Span(2, 64)
  PROVE  MatchReadsBack(RocketAdaptor, Edge(p, d, n, "dictionary"))
<1>1. PICK x \in 1 .. 1024, m \in 2 .. 64 : x = d /\ m = n
  BY DEF Span
<1>2. PICK r \in 0 .. 1023 : r = (p - x) % 1024
  OBVIOUS
<1>3. PICK from \in Int : from = p - 960 - x
  OBVIOUS
<1>4. PICK cnt \in Int : cnt = IF from >= 0 THEN 0 ELSE IF from + m < 0 THEN m ELSE -from
  OBVIOUS
<1> DEFINE e == Edge(p, d, n, "dictionary")
           high == 4 * (m - 1) + (r \div 256)
           c == << Bit(0), Byte(high), Byte(r) >>
           s == Ahead(c, 0)
<1>5. Code(RocketAdaptor, e, 0) = c
  BY <1>1, <1>2 DEF Code, RocketCode, RocketAdaptor, Edge
<1>6. /\ high \in 0 .. 255 /\ high % 256 = high
      /\ high \div 4 = m - 1 /\ high % 4 = r \div 256
      /\ 256 * (r \div 256) + (r % 256) = r
  OBVIOUS
<1>7. /\ s[1].val = 0 /\ s[2].val = high /\ s[3].val = r % 256
      /\ Kinds(c) = << "bit", "byte", "byte" >>
  <2>1. /\ Byte(high).kind = "byte"
        /\ Byte(high).val = high
        /\ Byte(r).kind = "byte"
        /\ Byte(r).val = r % 256
    BY <1>6 DEF Byte
  <2>2. QED
    BY <2>1, BitKept, AheadOfThree
<1>8. ((r - (p - 960) - 960) % 1024) + (p - 960) - 1024 = from
  BY <1>2, <1>3
<1> DEFINE g == Gets(RocketAdaptor, s, p - 960)
<1>9. /\ g.lits = Blanks(Blank, cnt) /\ g.from = from + cnt /\ g.len = m - cnt
      /\ ~g.ends /\ g.asked = Kinds(c)
  <2>1. g = RocketGets(RocketAdaptor, s, p - 960)
    BY DEF Gets, RocketAdaptor
  <2>2. s[2].val \div 4 + 1 = m /\ 256 * (s[2].val % 4) + s[3].val = r
    <3> HIDE DEF c, s, high
    <3>1. s[2].val \div 4 = m - 1 /\ s[2].val % 4 = r \div 256
      BY <1>6, <1>7
    <3>2. QED
      BY <1>6, <1>7, <3>1
  <2>3. RocketAdaptor.FirstMatchPosition = 960 /\ RocketAdaptor.SearchBufSize = 1024
    BY DEF RocketAdaptor
  <2> HIDE DEF c, s, high, g
  <2>4. QED
    BY <1>4, <1>7, <1>8, <2>1, <2>2, <2>3 DEF RocketGets, Got
<1>10. ReadBack(RocketAdaptor, e) = g
  BY <1>5 DEF ReadBack, RocketAdaptor, Edge
<1>11. QED
  <2> HIDE DEF c, s, g
  <2>1. cnt = IF from >= 0 THEN 0 ELSE Least(m, -from)
    BY <1>4 DEF Least
  <2>2. RocketAdaptor.FirstMatchPosition = 960 /\ e.pos = p /\ e.dist = x /\ e.len = m
    BY <1>1 DEF RocketAdaptor, Edge
  <2>3. e.pos - RocketAdaptor.FirstMatchPosition = p - 960
         /\ e.pos - RocketAdaptor.FirstMatchPosition - e.dist = from
    BY <1>3, <2>2
  <2> HIDE DEF e
  <2>4. g.asked = Kinds(Code(RocketAdaptor, e, 0))
    BY <1>5, <1>9
  <2>5. MatchReadsBack(RocketAdaptor, e)
    BY <1>9, <1>10, <2>1, <2>2, <2>3, <2>4 DEF MatchReadsBack
  <2>6. QED
    BY <2>5 DEF e

-----------------------------------------------------------------------------
(* Every match a window can find, wherever it is, reads back.              *)
MatchesReadBack(A) ==
  \A i \in DOMAIN A.windows :
    \A d \in Nat \ {0}, p \in Nat, n \in A.windows[i].min .. A.windows[i].max :
      d <= A.windows[i].buf /\ d <= p /\ p >= A.FirstMatchPosition =>
        MatchReadsBack(A, Edge(p, d, n, A.windows[i].type))

(* The windows of each format, by the matches they find: Kosinski.         *)
LEMMA KosinskiReadsBack == MatchesReadBack(KosinskiAdaptor)
<1> DEFINE w == KosinskiAdaptor.windows
<1> SUFFICES ASSUME NEW i \in DOMAIN w, NEW d \in Nat \ {0}, NEW p \in Nat,
                    NEW n \in w[i].min .. w[i].max,
                    d <= w[i].buf, d <= p, p >= KosinskiAdaptor.FirstMatchPosition
             PROVE  MatchReadsBack(KosinskiAdaptor, Edge(p, d, n, w[i].type))
  BY DEF MatchesReadBack
<1>1. d \in Nat \ {0} /\ p \in Nat
  OBVIOUS
<1>2. i \in 1 .. 3
  BY DEF KosinskiAdaptor
<1>3. CASE i = 1
  <2>1. w[i] = Window(256, 2, 5, "dictionary_inline")
    BY <1>3 DEF KosinskiAdaptor
  <2>2. d \in Span(1, 256) /\ n \in Span(2, 5) /\ w[i].type = "dictionary_inline"
    BY <1>1, <2>1 DEF Span, Window
  <2> HIDE DEF w
  <2>3. QED
    BY <1>1, <2>2, KosinskiInline
<1>4. CASE i = 2
  <2>1. w[i] = Window(8192, 3, 9, "dictionary_short")
    BY <1>4 DEF KosinskiAdaptor
  <2>2. d \in Span(1, 8192) /\ n \in Span(3, 9) /\ w[i].type = "dictionary_short"
    BY <1>1, <2>1 DEF Span, Window
  <2> HIDE DEF w
  <2>3. QED
    BY <1>1, <2>2, KosinskiShort
<1>5. CASE i = 3
  <2>1. w[i] = Window(8192, 10, 256, "dictionary_long")
    BY <1>5 DEF KosinskiAdaptor
  <2>2. d \in Span(1, 8192) /\ n \in Span(10, 256) /\ w[i].type = "dictionary_long"
    BY <1>1, <2>1 DEF Span, Window
  <2> HIDE DEF w
  <2>3. QED
    BY <1>1, <2>2, KosinskiLong
<1>6. QED
  BY <1>2, <1>3, <1>4, <1>5

(* The windows of KosPlus.                                                 *)
LEMMA KosPlusReadsBack == MatchesReadBack(KosPlusAdaptor)
<1> DEFINE w == KosPlusAdaptor.windows
<1> SUFFICES ASSUME NEW i \in DOMAIN w, NEW d \in Nat \ {0}, NEW p \in Nat,
                    NEW n \in w[i].min .. w[i].max,
                    d <= w[i].buf, d <= p, p >= KosPlusAdaptor.FirstMatchPosition
             PROVE  MatchReadsBack(KosPlusAdaptor, Edge(p, d, n, w[i].type))
  BY DEF MatchesReadBack
<1>1. d \in Nat \ {0} /\ p \in Nat
  OBVIOUS
<1>2. i \in 1 .. 3
  BY DEF KosPlusAdaptor
<1>3. CASE i = 1
  <2>1. w[i] = Window(256, 2, 5, "dictionary_inline")
    BY <1>3 DEF KosPlusAdaptor
  <2>2. d \in Span(1, 256) /\ n \in Span(2, 5) /\ w[i].type = "dictionary_inline"
    BY <1>1, <2>1 DEF Span, Window
  <2> HIDE DEF w
  <2>3. QED
    BY <1>1, <2>2, KosPlusInline
<1>4. CASE i = 2
  <2>1. w[i] = Window(8192, 3, 9, "dictionary_short")
    BY <1>4 DEF KosPlusAdaptor
  <2>2. d \in Span(1, 8192) /\ n \in Span(3, 9) /\ w[i].type = "dictionary_short"
    BY <1>1, <2>1 DEF Span, Window
  <2> HIDE DEF w
  <2>3. QED
    BY <1>1, <2>2, KosPlusShort
<1>5. CASE i = 3
  <2>1. w[i] = Window(8192, 10, 264, "dictionary_long")
    BY <1>5 DEF KosPlusAdaptor
  <2>2. d \in Span(1, 8192) /\ n \in Span(10, 264) /\ w[i].type = "dictionary_long"
    BY <1>1, <2>1 DEF Span, Window
  <2> HIDE DEF w
  <2>3. QED
    BY <1>1, <2>2, KosPlusLong
<1>6. QED
  BY <1>2, <1>3, <1>4, <1>5

(* The windows of LZKN1.                                                   *)
LEMMA Lzkn1ReadsBack == MatchesReadBack(Lzkn1Adaptor)
<1> DEFINE w == Lzkn1Adaptor.windows
<1> SUFFICES ASSUME NEW i \in DOMAIN w, NEW d \in Nat \ {0}, NEW p \in Nat,
                    NEW n \in w[i].min .. w[i].max,
                    d <= w[i].buf, d <= p, p >= Lzkn1Adaptor.FirstMatchPosition
             PROVE  MatchReadsBack(Lzkn1Adaptor, Edge(p, d, n, w[i].type))
  BY DEF MatchesReadBack
<1>1. d \in Nat \ {0} /\ p \in Nat
  OBVIOUS
<1>2. i \in 1 .. 2
  BY DEF Lzkn1Adaptor
<1>3. CASE i = 1
  <2>1. w[i] = Window(15, 2, 5, "dictionary_short")
    BY <1>3 DEF Lzkn1Adaptor
  <2>2. d \in Span(1, 15) /\ n \in Span(2, 5) /\ w[i].type = "dictionary_short"
    BY <1>1, <2>1 DEF Span, Window
  <2> HIDE DEF w
  <2>3. QED
    BY <1>1, <2>2, Lzkn1Short
<1>4. CASE i = 2
  <2>1. w[i] = Window(1023, 3, 33, "dictionary_long")
    BY <1>4 DEF Lzkn1Adaptor
  <2>2. d \in Span(1, 1023) /\ n \in Span(3, 33) /\ w[i].type = "dictionary_long"
    BY <1>1, <2>1 DEF Span, Window
  <2> HIDE DEF w
  <2>3. QED
    BY <1>1, <2>2, Lzkn1Long
<1>5. QED
  BY <1>2, <1>3, <1>4

(* The window of Comper.                                                   *)
LEMMA ComperReadsBack == MatchesReadBack(ComperAdaptor)
<1> DEFINE w == ComperAdaptor.windows
<1> SUFFICES ASSUME NEW i \in DOMAIN w, NEW d \in Nat \ {0}, NEW p \in Nat,
                    NEW n \in w[i].min .. w[i].max,
                    d <= w[i].buf, d <= p, p >= ComperAdaptor.FirstMatchPosition
             PROVE  MatchReadsBack(ComperAdaptor, Edge(p, d, n, w[i].type))
  BY DEF MatchesReadBack
<1>1. d \in Nat \ {0} /\ p \in Nat
  OBVIOUS
<1>2. i \in 1 .. 1
  BY DEF ComperAdaptor
<1>3. CASE i = 1
  <2>1. w[i] = Window(256, 2, 256, "dictionary")
    BY <1>3 DEF ComperAdaptor
  <2>2. d \in Span(1, 256) /\ n \in Span(2, 256) /\ w[i].type = "dictionary"
    BY <1>1, <2>1 DEF Span, Window
  <2> HIDE DEF w
  <2>3. QED
    BY <1>1, <2>2, ComperMatch
<1>4. QED
  BY <1>2, <1>3

(* The window of ComperX.                                                  *)
LEMMA ComperXReadsBack == MatchesReadBack(ComperXAdaptor)
<1> DEFINE w == ComperXAdaptor.windows
<1> SUFFICES ASSUME NEW i \in DOMAIN w, NEW d \in Nat \ {0}, NEW p \in Nat,
                    NEW n \in w[i].min .. w[i].max,
                    d <= w[i].buf, d <= p, p >= ComperXAdaptor.FirstMatchPosition
             PROVE  MatchReadsBack(ComperXAdaptor, Edge(p, d, n, w[i].type))
  BY DEF MatchesReadBack
<1>1. d \in Nat \ {0} /\ p \in Nat
  OBVIOUS
<1>2. i \in 1 .. 1
  BY DEF ComperXAdaptor, ComperAdaptor
<1>3. CASE i = 1
  <2>1. w[i] = Window(256, 2, 255, "dictionary")
    BY <1>3 DEF ComperXAdaptor, ComperAdaptor
  <2>2. d \in Span(1, 256) /\ n \in Span(2, 255) /\ w[i].type = "dictionary"
    BY <1>1, <2>1 DEF Span, Window
  <2> HIDE DEF w
  <2>3. QED
    BY <1>1, <2>2, ComperXMatch
<1>4. QED
  BY <1>2, <1>3

(* The window of Saxman.                                                   *)
LEMMA SaxmanReadsBack == MatchesReadBack(SaxmanAdaptor)
<1> DEFINE w == SaxmanAdaptor.windows
<1> SUFFICES ASSUME NEW i \in DOMAIN w, NEW d \in Nat \ {0}, NEW p \in Nat,
                    NEW n \in w[i].min .. w[i].max,
                    d <= w[i].buf, d <= p, p >= SaxmanAdaptor.FirstMatchPosition
             PROVE  MatchReadsBack(SaxmanAdaptor, Edge(p, d, n, w[i].type))
  BY DEF MatchesReadBack
<1>1. d \in Nat \ {0} /\ p \in Nat
  OBVIOUS
<1>2. i \in 1 .. 1
  BY DEF SaxmanAdaptor
<1>3. CASE i = 1
  <2>1. w[i] = Window(4096, 3, 18, "dictionary")
    BY <1>3 DEF SaxmanAdaptor
  <2>2. d \in Span(1, 4096) /\ n \in Span(3, 18) /\ w[i].type = "dictionary"
    BY <1>1, <2>1 DEF Span, Window
  <2> HIDE DEF w
  <2>3. QED
    BY <1>1, <2>2, SaxmanMatch
<1>4. QED
  BY <1>2, <1>3

(* The window of Rocket.                                                   *)
LEMMA RocketReadsBack == MatchesReadBack(RocketAdaptor)
<1> DEFINE w == RocketAdaptor.windows
<1> SUFFICES ASSUME NEW i \in DOMAIN w, NEW d \in Nat \ {0}, NEW p \in Nat,
                    NEW n \in w[i].min .. w[i].max,
                    d <= w[i].buf, d <= p, p >= RocketAdaptor.FirstMatchPosition
             PROVE  MatchReadsBack(RocketAdaptor, Edge(p, d, n, w[i].type))
  BY DEF MatchesReadBack
<1>1. d \in Nat \ {0} /\ p \in Nat /\ 960 <= p
  BY DEF RocketAdaptor
<1>2. i \in 1 .. 1
  BY DEF RocketAdaptor
<1>3. CASE i = 1
  <2>1. w[i] = Window(1024, 2, 64, "dictionary")
    BY <1>3 DEF RocketAdaptor
  <2>2. d \in Span(1, 1024) /\ n \in Span(2, 64) /\ w[i].type = "dictionary"
    BY <1>1, <2>1 DEF Span, Window
  <2> HIDE DEF w
  <2>3. QED
    BY <1>1, <2>2, RocketMatch
<1>4. QED
  BY <1>2, <1>3

(* All seven.                                                              *)
LEMMA AllReadBack == \A A \in Formats : MatchesReadBack(A)
BY KosinskiReadsBack, KosPlusReadsBack, Lzkn1ReadsBack, ComperReadsBack, ComperXReadsBack,
   SaxmanReadsBack, RocketReadsBack DEF Formats

(* For every distance, every place and every length the real windows admit,*)
(* in all seven formats, decode reads a match back as encode wrote it.     *)
THEOREM TokensReadBack == CodecSpec => []EveryMatchReadsBack
<1>1. \A A \in Formats : WindowsReadBack(A)
  BY AllReadBack, TokenAssumption DEF WindowsReadBack, MatchesReadBack
<1>2. EveryMatchReadsBack
  BY <1>1 DEF EveryMatchReadsBack
<1>3. QED
  BY <1>2, PTL

-----------------------------------------------------------------------------
(* A round of a decoder depends on nothing but what it asks for: two       *)
(* streams that are the same as far as that give the same.                 *)
SameAhead(s, t, n) == \A k \in 1 .. n : s[k] = t[k]

(* What agrees as far as n items agrees in each of them.                   *)
LEMMA SameFirst ==
  ASSUME NEW s, NEW t, NEW n \in Nat, SameAhead(s, t, n)
  PROVE  /\ n >= 2 => s[1] = t[1] /\ s[2] = t[2]
         /\ n >= 3 => s[3] = t[3]
         /\ n >= 4 => s[4] = t[4]
         /\ n >= 5 => s[5] = t[5]
BY DEF SameAhead

(* Kosinski looks at no more than it asks for.                             *)
LEMMA KosinskiLocal ==
  ASSUME NEW A, NEW s, NEW t, NEW base, SameAhead(s, t, Len(KosinskiGets(A, t, base).asked))
  PROVE  KosinskiGets(A, s, base) = KosinskiGets(A, t, base)
<1> DEFINE n == Len(KosinskiGets(A, t, base).asked)
<1>1. /\ n \in 2 .. 5
      /\ t[1].val = 0 => n >= 4
      /\ t[1].val = 0 /\ t[2].val = 0 => n >= 5
      /\ t[1].val = 0 /\ t[2].val # 0 /\ ~(t[4].val % 8 # 0) => n >= 5
  BY DEF KosinskiGets, Literal, Copy, End, Nothing, Got
<1>2. /\ s[1] = t[1] /\ s[2] = t[2]
      /\ n >= 3 => s[3] = t[3]
      /\ n >= 4 => s[4] = t[4]
      /\ n >= 5 => s[5] = t[5]
  <2>1. SameAhead(s, t, n)
    OBVIOUS
  <2> HIDE DEF n
  <2>2. QED
    BY <1>1, <2>1, SameFirst
<1> HIDE DEF n
<1>3. QED
  BY <1>1, <1>2 DEF KosinskiGets

(* Nor does KosPlus.                                                       *)
LEMMA KosPlusLocal ==
  ASSUME NEW A, NEW s, NEW t, NEW base, SameAhead(s, t, Len(KosPlusGets(A, t, base).asked))
  PROVE  KosPlusGets(A, s, base) = KosPlusGets(A, t, base)
<1> DEFINE n == Len(KosPlusGets(A, t, base).asked)
<1>1. /\ n \in 2 .. 5
      /\ t[1].val = 0 => n >= 4
      /\ t[1].val = 0 /\ t[2].val = 0 => n >= 5
      /\ t[1].val = 0 /\ t[2].val # 0 /\ ~(t[3].val % 8 # 0) => n >= 5
  BY DEF KosPlusGets, Literal, Copy, End, Got
<1>2. /\ s[1] = t[1] /\ s[2] = t[2]
      /\ n >= 3 => s[3] = t[3]
      /\ n >= 4 => s[4] = t[4]
      /\ n >= 5 => s[5] = t[5]
  <2>1. SameAhead(s, t, n)
    OBVIOUS
  <2> HIDE DEF n
  <2>2. QED
    BY <1>1, <2>1, SameFirst
<1> HIDE DEF n
<1>3. QED
  BY <1>1, <1>2 DEF KosPlusGets

(* Of LZKN1, as far as it has matches: packed literals are never written.  *)
LEMMA Lzkn1Local ==
  ASSUME NEW A, NEW s, NEW t, NEW base, Lzkn1Gets(A, t, base).len # 0,
         SameAhead(s, t, Len(Lzkn1Gets(A, t, base).asked))
  PROVE  Lzkn1Gets(A, s, base) = Lzkn1Gets(A, t, base)
<1> DEFINE n == Len(Lzkn1Gets(A, t, base).asked)
<1>1. t[1].val # 0 /\ t[2].val # 31 /\ ~(t[2].val >= 192)
  BY DEF Lzkn1Gets, Literal, End, Got
<1>2. n \in 2 .. 3 /\ (~(t[2].val >= 128) => n = 3)
  BY <1>1 DEF Lzkn1Gets, Copy, Got
<1>3. s[1] = t[1] /\ s[2] = t[2] /\ (n >= 3 => s[3] = t[3])
  BY <1>2, SameFirst
<1> HIDE DEF n
<1>4. QED
  BY <1>1, <1>2, <1>3 DEF Lzkn1Gets

(* The others ask for a bit and one or two bytes.                          *)
LEMMA ShortLocal ==
  ASSUME NEW A, NEW s, NEW t, NEW base, NEW n, SameAhead(s, t, n)
  PROVE  /\ n = Len(ComperGets(A, t, base).asked) => ComperGets(A, s, base) = ComperGets(A, t, base)
         /\ n = Len(ComperXGets(A, t, base).asked) => ComperXGets(A, s, base) = ComperXGets(A, t, base)
         /\ n = Len(SaxmanGets(A, t, base).asked) => SaxmanGets(A, s, base) = SaxmanGets(A, t, base)
         /\ n = Len(RocketGets(A, t, base).asked) => RocketGets(A, s, base) = RocketGets(A, t, base)
<1>1. ASSUME n = Len(ComperGets(A, t, base).asked)
      PROVE  ComperGets(A, s, base) = ComperGets(A, t, base)
  <2>1. n = 3
    BY <1>1 DEF ComperGets, Literal, Copy, End, Got
  <2>2. QED
    BY <2>1, SameFirst DEF ComperGets
<1>2. ASSUME n = Len(ComperXGets(A, t, base).asked)
      PROVE  ComperXGets(A, s, base) = ComperXGets(A, t, base)
  <2>1. n = 3
    BY <1>2 DEF ComperXGets, Literal, Copy, End, Got
  <2>2. QED
    BY <2>1, SameFirst DEF ComperXGets
<1>3. ASSUME n = Len(SaxmanGets(A, t, base).asked)
      PROVE  SaxmanGets(A, s, base) = SaxmanGets(A, t, base)
  <2>1. n = IF t[1].val # 0 THEN 2 ELSE 3
    BY <1>3 DEF SaxmanGets, Literal, Copy, Got
  <2>2. QED
    BY <2>1, SameFirst DEF SaxmanGets
<1>4. ASSUME n = Len(RocketGets(A, t, base).asked)
      PROVE  RocketGets(A, s, base) = RocketGets(A, t, base)
  <2>1. n = IF t[1].val # 0 THEN 2 ELSE 3
    BY <1>4 DEF RocketGets, Literal, Got
  <2>2. s[1] = t[1] /\ s[2] = t[2] /\ (n = 3 => s[3] = t[3])
    BY <2>1, SameFirst
  <2>3. CASE t[1].val # 0
    BY <2>2, <2>3 DEF RocketGets
  <2>4. CASE ~(t[1].val # 0)
    <3>1. s[1] = t[1] /\ s[2] = t[2] /\ s[3] = t[3]
      BY <2>1, <2>2, <2>4
    <3>2. s[2].val = t[2].val /\ s[3].val = t[3].val /\ s[1].val = t[1].val
      BY <3>1
    <3>3. QED
      BY <2>4, <3>2, SMTT(60) DEF RocketGets
  <2>5. QED
    BY <2>3, <2>4
<1>5. QED
  BY <1>1, <1>2, <1>3, <1>4

(* In one of the seven formats.                                            *)
LEMMA GetsIsLocal ==
  ASSUME NEW A \in Formats, NEW s, NEW t, NEW base,
         SameAhead(s, t, Len(Gets(A, t, base).asked)),
         A.format = "lzkn1" => Gets(A, t, base).len # 0
  PROVE  Gets(A, s, base) = Gets(A, t, base)
<1>1. CASE A = KosinskiAdaptor
  <2>1. \A u : Gets(A, u, base) = KosinskiGets(A, u, base)
    BY <1>1 DEF Gets, KosinskiAdaptor
  <2>2. QED
    BY <2>1, KosinskiLocal
<1>2. CASE A = KosPlusAdaptor
  <2>1. \A u : Gets(A, u, base) = KosPlusGets(A, u, base)
    BY <1>2 DEF Gets, KosPlusAdaptor
  <2>2. QED
    BY <2>1, KosPlusLocal
<1>3. CASE A = Lzkn1Adaptor
  <2>1. \A u : Gets(A, u, base) = Lzkn1Gets(A, u, base)
    BY <1>3 DEF Gets, Lzkn1Adaptor
  <2>2. Lzkn1Gets(A, t, base).len # 0
    <3>1. A.format = "lzkn1"
      BY <1>3 DEF Lzkn1Adaptor
    <3>2. QED
      BY <2>1, <3>1
  <2>3. QED
    BY <2>1, <2>2, Lzkn1Local
<1>4. CASE A = ComperAdaptor
  <2>1. \A u : Gets(A, u, base) = ComperGets(A, u, base)
    BY <1>4 DEF Gets, ComperAdaptor
  <2>2. PICK n : n = Len(ComperGets(A, t, base).asked)
    OBVIOUS
  <2>3. SameAhead(s, t, n)
    BY <2>1, <2>2
  <2>4. ComperGets(A, s, base) = ComperGets(A, t, base)
    BY <2>2, <2>3, ShortLocal
  <2>5. QED
    BY <2>1, <2>4
<1>5. CASE A = ComperXAdaptor
  <2>1. \A u : Gets(A, u, base) = ComperXGets(A, u, base)
    BY <1>5 DEF Gets, ComperXAdaptor, ComperAdaptor
  <2>2. PICK n : n = Len(ComperXGets(A, t, base).asked)
    OBVIOUS
  <2>3. SameAhead(s, t, n)
    BY <2>1, <2>2
  <2>4. ComperXGets(A, s, base) = ComperXGets(A, t, base)
    BY <2>2, <2>3, ShortLocal
  <2>5. QED
    BY <2>1, <2>4
<1>6. CASE A = SaxmanAdaptor
  <2>1. \A u : Gets(A, u, base) = SaxmanGets(A, u, base)
    BY <1>6 DEF Gets, SaxmanAdaptor
  <2>2. PICK n : n = Len(SaxmanGets(A, t, base).asked)
    OBVIOUS
  <2>3. SameAhead(s, t, n)
    BY <2>1, <2>2
  <2>4. SaxmanGets(A, s, base) = SaxmanGets(A, t, base)
    BY <2>2, <2>3, ShortLocal
  <2>5. QED
    BY <2>1, <2>4
<1>7. CASE A = RocketAdaptor
  <2>1. \A u : Gets(A, u, base) = RocketGets(A, u, base)
    BY <1>7 DEF Gets, RocketAdaptor
  <2>2. PICK n : n = Len(RocketGets(A, t, base).asked)
    OBVIOUS
  <2>3. SameAhead(s, t, n)
    BY <2>1, <2>2
  <2>4. RocketGets(A, s, base) = RocketGets(A, t, base)
    BY <2>2, <2>3, ShortLocal
  <2>5. QED
    BY <2>1, <2>4
<1>8. QED
  BY <1>1, <1>2, <1>3, <1>4, <1>5, <1>6, <1>7 DEF Formats

-----------------------------------------------------------------------------
(* An item of the stream, and the shapes of the codes.                     *)
Item == [kind : {"bit", "byte"}, val : Int]

(* What the codes are made of.                                             *)
LEMMA ItemsAreItems ==
  \A v \in Int : Bit(v) \in Item /\ Byte(v) \in Item /\ Bit(v).kind = "bit" /\ Byte(v).kind = "byte"
<1>1. \A v \in Int : v % 256 \in Int
  OBVIOUS
<1>2. QED
  BY <1>1 DEF Bit, Byte, Item

(* The edges of each format.                                               *)
LEMMA TypesOfEdges ==
  /\ EdgeTypes(KosinskiAdaptor) \subseteq {"symbolwise", "dictionary_inline", "dictionary_short", "dictionary_long"}
  /\ EdgeTypes(KosPlusAdaptor) \subseteq {"symbolwise", "dictionary_inline", "dictionary_short", "dictionary_long"}
  /\ EdgeTypes(Lzkn1Adaptor) \subseteq {"symbolwise", "dictionary_short", "dictionary_long"}
  /\ EdgeTypes(ComperAdaptor) \subseteq {"symbolwise", "dictionary"}
  /\ EdgeTypes(ComperXAdaptor) \subseteq {"symbolwise", "dictionary"}
  /\ EdgeTypes(SaxmanAdaptor) \subseteq {"symbolwise", "dictionary", "zerofill"}
  /\ EdgeTypes(RocketAdaptor) \subseteq {"symbolwise", "dictionary"}
<1>1. EdgeTypes(KosinskiAdaptor) \subseteq {"symbolwise", "dictionary_inline", "dictionary_short", "dictionary_long"}
  BY DEF EdgeTypes, KosinskiAdaptor, Window
<1>2. EdgeTypes(KosPlusAdaptor) \subseteq {"symbolwise", "dictionary_inline", "dictionary_short", "dictionary_long"}
  BY DEF EdgeTypes, KosPlusAdaptor, Window
<1>3. EdgeTypes(Lzkn1Adaptor) \subseteq {"symbolwise", "dictionary_short", "dictionary_long"}
  BY DEF EdgeTypes, Lzkn1Adaptor, Window
<1>4. EdgeTypes(ComperAdaptor) \subseteq {"symbolwise", "dictionary"}
  BY DEF EdgeTypes, ComperAdaptor, Window
<1>5. EdgeTypes(ComperXAdaptor) \subseteq {"symbolwise", "dictionary"}
  BY DEF EdgeTypes, ComperXAdaptor, ComperAdaptor, Window
<1>6. EdgeTypes(SaxmanAdaptor) \subseteq {"symbolwise", "dictionary", "zerofill"}
  BY DEF EdgeTypes, SaxmanAdaptor, Window
<1>7. EdgeTypes(RocketAdaptor) \subseteq {"symbolwise", "dictionary"}
  BY DEF EdgeTypes, RocketAdaptor, Window
<1>8. QED
  BY <1>1, <1>2, <1>3, <1>4, <1>5, <1>6, <1>7

(* An edge of format A.                                                    *)
EdgesIn(A) == [pos : Nat, dist : Nat, len : Nat \ {0}, type : EdgeTypes(A)]

(* Sequences of them, by their length.                                     *)
LEMMA TwoItems == ASSUME NEW a \in Item, NEW b \in Item
  PROVE << a, b >> \in Seq(Item) /\ Len(<< a, b >>) = 2
OBVIOUS
(* Of three.                                                               *)
LEMMA ThreeItems == ASSUME NEW a \in Item, NEW b \in Item, NEW c \in Item
  PROVE << a, b, c >> \in Seq(Item) /\ Len(<< a, b, c >>) = 3
OBVIOUS
(* Of four.                                                                *)
LEMMA FourItems == ASSUME NEW a \in Item, NEW b \in Item, NEW c \in Item, NEW d \in Item
  PROVE << a, b, c, d >> \in Seq(Item) /\ Len(<< a, b, c, d >>) = 4
OBVIOUS
(* Of five.                                                                *)
LEMMA FiveItems ==
  ASSUME NEW a \in Item, NEW b \in Item, NEW c \in Item, NEW d \in Item, NEW e \in Item
  PROVE << a, b, c, d, e >> \in Seq(Item) /\ Len(<< a, b, c, d, e >>) = 5
OBVIOUS

(* A code begins with a bit, is one of at most five items, and has a byte. *)
IsCode(c) ==
  /\ c \in Seq(Item) /\ Len(c) \in 2 .. 5
  /\ c[1].kind = "bit" /\ \E k \in 2 .. Len(c) : c[k].kind = "byte"

(* A bit and a byte are a token.                                           *)
LEMMA CodesOfTwo ==
  ASSUME NEW b \in Int, NEW v \in Int
  PROVE  IsCode(<< Bit(b), Byte(v) >>)
<1>1. Bit(b) \in Item /\ Byte(v) \in Item /\ Bit(b).kind = "bit" /\ Byte(v).kind = "byte"
  BY ItemsAreItems DEF Bit, Byte
<1>2. QED
  BY <1>1, TwoItems DEF IsCode

(* A bit and two bytes.                                                    *)
LEMMA CodesOfThree ==
  ASSUME NEW b \in Int, NEW v \in Int, NEW w \in Int
  PROVE  IsCode(<< Bit(b), Byte(v), Byte(w) >>)
<1>1. /\ Bit(b) \in Item /\ Byte(v) \in Item /\ Byte(w) \in Item
      /\ Bit(b).kind = "bit" /\ Byte(v).kind = "byte"
  BY ItemsAreItems DEF Bit, Byte
<1>2. QED
  BY <1>1, ThreeItems DEF IsCode

(* Two bits and two bytes.                                                 *)
LEMMA CodesOfFour ==
  ASSUME NEW b \in Int, NEW x \in Int, NEW v \in Int, NEW w \in Int
  PROVE  IsCode(<< Bit(b), Bit(x), Byte(v), Byte(w) >>)
<1>1. /\ Bit(b) \in Item /\ Bit(x) \in Item /\ Byte(v) \in Item /\ Byte(w) \in Item
      /\ Bit(b).kind = "bit" /\ Byte(v).kind = "byte"
  BY ItemsAreItems DEF Bit, Byte
<1>2. QED
  BY <1>1, FourItems DEF IsCode

(* Five items, bytes among them.                                           *)
LEMMA CodesOfFive ==
  ASSUME NEW a, NEW b, NEW c, NEW d, NEW e, {a, b, c, d, e} \subseteq Item,
         a.kind = "bit", c.kind = "byte" \/ e.kind = "byte"
  PROVE  IsCode(<< a, b, c, d, e >>)
<1>1. << a, b, c, d, e >> \in Seq(Item) /\ Len(<< a, b, c, d, e >>) = 5
  BY FiveItems
<1>2. QED
  BY <1>1 DEF IsCode

-----------------------------------------------------------------------------
(* In every format the code of an edge is one; first Kosinski.             *)
LEMMA KosinskiIsCode ==
  ASSUME NEW e \in EdgesIn(KosinskiAdaptor), NEW x \in Int
  PROVE  IsCode(Code(KosinskiAdaptor, e, x))
<1>1. e.dist \in Int /\ e.len \in Int /\ e.pos \in Int
  BY DEF EdgesIn
<1>2. Code(KosinskiAdaptor, e, x) = KosinskiCode(KosinskiAdaptor, e, x)
  BY DEF Code, KosinskiAdaptor
<1>3. CASE e.type = "symbolwise"
  <2>1. KosinskiCode(KosinskiAdaptor, e, x) = << Bit(1), Byte(x) >>
    BY <1>3 DEF KosinskiCode, KosinskiAdaptor, ShortMax, Window
  <2>2. x \in Int
    BY <1>1
  <2>3. QED
    BY <1>2, <2>1, <2>2, CodesOfTwo
<1>4. CASE e.type = "dictionary_inline"
  <2>1. KosinskiCode(KosinskiAdaptor, e, x) = << Bit(0), Bit(0), Bit(((e.len - 2) \div 2) % 2), Bit((e.len - 2) % 2), Byte(256 - e.dist) >>
    BY <1>4 DEF KosinskiCode, KosinskiAdaptor, ShortMax, Window
  <2>2. ((e.len - 2) \div 2) % 2 \in Int /\ (e.len - 2) % 2 \in Int /\ 256 - e.dist \in Int
    BY <1>1
  <2>3. {Bit(0), Bit(0), Bit(((e.len - 2) \div 2) % 2), Bit((e.len - 2) % 2), Byte(256 - e.dist)} \subseteq Item /\ Bit(0).kind = "bit"
        /\ (Bit(((e.len - 2) \div 2) % 2).kind = "byte" \/ Byte(256 - e.dist).kind = "byte")
    BY <2>2, ItemsAreItems
  <2>4. QED
    BY <1>2, <2>1, <2>3, CodesOfFive
<1>5. CASE e.type = "dictionary_short"
  <2>1. KosinskiCode(KosinskiAdaptor, e, x) = << Bit(0), Bit(1), Byte((8192 - e.dist) % 256), Byte(8 * (((8192 - e.dist) \div 256) % 32) + (e.len - 2)) >>
    BY <1>5 DEF KosinskiCode, KosinskiAdaptor, ShortMax, Window
  <2>2. (8192 - e.dist) % 256 \in Int /\ 8 * (((8192 - e.dist) \div 256) % 32) + (e.len - 2) \in Int
    BY <1>1
  <2>3. QED
    BY <1>2, <2>1, <2>2, CodesOfFour
<1>6. CASE e.type = "dictionary_long"
  <2>1. KosinskiCode(KosinskiAdaptor, e, x) = << Bit(0), Bit(1), Byte((8192 - e.dist) % 256), Byte(8 * (((8192 - e.dist) \div 256) % 32)), Byte(e.len - 1) >>
    BY <1>6 DEF KosinskiCode, KosinskiAdaptor, ShortMax, Window
  <2>2. (8192 - e.dist) % 256 \in Int /\ 8 * (((8192 - e.dist) \div 256) % 32) \in Int /\ e.len - 1 \in Int
    BY <1>1
  <2>3. {Bit(0), Bit(1), Byte((8192 - e.dist) % 256), Byte(8 * (((8192 - e.dist) \div 256) % 32)), Byte(e.len - 1)} \subseteq Item /\ Bit(0).kind = "bit"
        /\ (Byte((8192 - e.dist) % 256).kind = "byte" \/ Byte(e.len - 1).kind = "byte")
    BY <2>2, ItemsAreItems
  <2>4. QED
    BY <1>2, <2>1, <2>3, CodesOfFive
<1>7. QED
  BY <1>3, <1>4, <1>5, <1>6, TypesOfEdges DEF EdgesIn

(* Those of KosPlus.                                                       *)
LEMMA KosPlusIsCode ==
  ASSUME NEW e \in EdgesIn(KosPlusAdaptor), NEW x \in Int
  PROVE  IsCode(Code(KosPlusAdaptor, e, x))
<1>1. e.dist \in Int /\ e.len \in Int /\ e.pos \in Int
  BY DEF EdgesIn
<1>2. Code(KosPlusAdaptor, e, x) = KosPlusCode(KosPlusAdaptor, e, x)
  BY DEF Code, KosPlusAdaptor
<1>3. CASE e.type = "symbolwise"
  <2>1. KosPlusCode(KosPlusAdaptor, e, x) = << Bit(1), Byte(x) >>
    BY <1>3 DEF KosPlusCode, KosPlusAdaptor, ShortMax, Window
  <2>2. x \in Int
    BY <1>1
  <2>3. QED
    BY <1>2, <2>1, <2>2, CodesOfTwo
<1>4. CASE e.type = "dictionary_inline"
  <2>1. KosPlusCode(KosPlusAdaptor, e, x) = << Bit(0), Bit(0), Byte(256 - e.dist), Bit(((e.len - 2) \div 2) % 2), Bit((e.len - 2) % 2) >>
    BY <1>4 DEF KosPlusCode, KosPlusAdaptor, ShortMax, Window
  <2>2. ((e.len - 2) \div 2) % 2 \in Int /\ (e.len - 2) % 2 \in Int /\ 256 - e.dist \in Int
    BY <1>1
  <2>3. {Bit(0), Bit(0), Byte(256 - e.dist), Bit(((e.len - 2) \div 2) % 2), Bit((e.len - 2) % 2)} \subseteq Item /\ Bit(0).kind = "bit"
        /\ (Byte(256 - e.dist).kind = "byte" \/ Bit((e.len - 2) % 2).kind = "byte")
    BY <2>2, ItemsAreItems
  <2>4. QED
    BY <1>2, <2>1, <2>3, CodesOfFive
<1>5. CASE e.type = "dictionary_short"
  <2>1. KosPlusCode(KosPlusAdaptor, e, x) = << Bit(0), Bit(1), Byte(8 * (((8192 - e.dist) \div 256) % 32) + (9 + 1 - e.len)), Byte((8192 - e.dist) % 256) >>
    BY <1>5 DEF KosPlusCode, KosPlusAdaptor, ShortMax, Window
  <2>2. (8192 - e.dist) % 256 \in Int /\ 8 * (((8192 - e.dist) \div 256) % 32) + (9 + 1 - e.len) \in Int
    BY <1>1
  <2>3. QED
    BY <1>2, <2>1, <2>2, CodesOfFour
<1>6. CASE e.type = "dictionary_long"
  <2>1. KosPlusCode(KosPlusAdaptor, e, x) = << Bit(0), Bit(1), Byte(8 * (((8192 - e.dist) \div 256) % 32)), Byte((8192 - e.dist) % 256), Byte(e.len - 9) >>
    BY <1>6 DEF KosPlusCode, KosPlusAdaptor, ShortMax, Window
  <2>2. (8192 - e.dist) % 256 \in Int /\ 8 * (((8192 - e.dist) \div 256) % 32) \in Int /\ e.len - 9 \in Int
    BY <1>1
  <2>3. {Bit(0), Bit(1), Byte(8 * (((8192 - e.dist) \div 256) % 32)), Byte((8192 - e.dist) % 256), Byte(e.len - 9)} \subseteq Item /\ Bit(0).kind = "bit"
        /\ (Byte(8 * (((8192 - e.dist) \div 256) % 32)).kind = "byte" \/ Byte(e.len - 9).kind = "byte")
    BY <2>2, ItemsAreItems
  <2>4. QED
    BY <1>2, <2>1, <2>3, CodesOfFive
<1>7. QED
  BY <1>3, <1>4, <1>5, <1>6, TypesOfEdges DEF EdgesIn

(* Of LZKN1.                                                               *)
LEMMA Lzkn1IsCode ==
  ASSUME NEW e \in EdgesIn(Lzkn1Adaptor), NEW x \in Int
  PROVE  IsCode(Code(Lzkn1Adaptor, e, x))
<1>1. e.dist \in Int /\ e.len \in Int /\ e.pos \in Int
  BY DEF EdgesIn
<1>2. Code(Lzkn1Adaptor, e, x) = Lzkn1Code(Lzkn1Adaptor, e, x)
  BY DEF Code, Lzkn1Adaptor
<1>3. CASE e.type = "symbolwise"
  <2>1. Lzkn1Code(Lzkn1Adaptor, e, x) = << Bit(0), Byte(x) >>
    BY <1>3 DEF Lzkn1Code, Lzkn1Adaptor, ShortMax, Window
  <2>2. x \in Int
    BY <1>1
  <2>3. QED
    BY <1>2, <2>1, <2>2, CodesOfTwo
<1>4. CASE e.type = "dictionary_short"
  <2>1. Lzkn1Code(Lzkn1Adaptor, e, x) = << Bit(1), Byte(16 * (e.len + 6) + e.dist) >>
    BY <1>4 DEF Lzkn1Code, Lzkn1Adaptor, ShortMax, Window
  <2>2. 16 * (e.len + 6) + e.dist \in Int
    BY <1>1
  <2>3. QED
    BY <1>2, <2>1, <2>2, CodesOfTwo
<1>5. CASE e.type = "dictionary_long"
  <2>1. Lzkn1Code(Lzkn1Adaptor, e, x) = << Bit(1), Byte((e.len - 3) + 32 * ((e.dist \div 256) % 4)), Byte(e.dist) >>
    BY <1>5 DEF Lzkn1Code, Lzkn1Adaptor, ShortMax, Window
  <2>2. (e.len - 3) + 32 * ((e.dist \div 256) % 4) \in Int /\ e.dist \in Int
    BY <1>1
  <2>3. QED
    BY <1>2, <2>1, <2>2, CodesOfThree
<1>6. QED
  BY <1>3, <1>4, <1>5, TypesOfEdges DEF EdgesIn

(* Of Comper.                                                              *)
LEMMA ComperIsCode ==
  ASSUME NEW e \in EdgesIn(ComperAdaptor), NEW x \in Int
  PROVE  IsCode(Code(ComperAdaptor, e, x))
<1>1. e.dist \in Int /\ e.len \in Int /\ e.pos \in Int
  BY DEF EdgesIn
<1>2. Code(ComperAdaptor, e, x) = ComperCode(ComperAdaptor, e, x)
  BY DEF Code, ComperAdaptor
<1>3. CASE e.type = "symbolwise"
  <2>1. ComperCode(ComperAdaptor, e, x) = << Bit(0), Byte(x \div 256), Byte(x) >>
    BY <1>3 DEF ComperCode, ComperAdaptor, ShortMax, Window
  <2>2. x \div 256 \in Int /\ x \in Int
    BY <1>1
  <2>3. QED
    BY <1>2, <2>1, <2>2, CodesOfThree
<1>4. CASE e.type = "dictionary"
  <2>1. ComperCode(ComperAdaptor, e, x) = << Bit(1), Byte(-e.dist), Byte(e.len - 1) >>
    BY <1>4 DEF ComperCode, ComperAdaptor, ShortMax, Window
  <2>2. -e.dist \in Int /\ e.len - 1 \in Int
    BY <1>1
  <2>3. QED
    BY <1>2, <2>1, <2>2, CodesOfThree
<1>5. QED
  BY <1>3, <1>4, TypesOfEdges DEF EdgesIn

(* Of ComperX.                                                             *)
LEMMA ComperXIsCode ==
  ASSUME NEW e \in EdgesIn(ComperXAdaptor), NEW x \in Int
  PROVE  IsCode(Code(ComperXAdaptor, e, x))
<1>1. e.dist \in Int /\ e.len \in Int /\ e.pos \in Int
  BY DEF EdgesIn
<1>2. Code(ComperXAdaptor, e, x) = ComperXCode(ComperXAdaptor, e, x)
  BY DEF Code, ComperXAdaptor, ComperAdaptor
<1>3. CASE e.type = "symbolwise"
  <2>1. ComperXCode(ComperXAdaptor, e, x) = << Bit(0), Byte(x \div 256), Byte(x) >>
    BY <1>3 DEF ComperXCode, ComperXAdaptor, ComperAdaptor, ShortMax, Window
  <2>2. x \div 256 \in Int /\ x \in Int
    BY <1>1
  <2>3. QED
    BY <1>2, <2>1, <2>2, CodesOfThree
<1>4. CASE e.type = "dictionary"
  <2>1. ComperXCode(ComperXAdaptor, e, x) = << Bit(1), Byte(1 - e.dist), Byte((127 - (e.len - 2) \div 2) + 128 * (e.len % 2)) >>
    BY <1>4 DEF ComperXCode, ComperXAdaptor, ComperAdaptor, ShortMax, Window
  <2>2. 1 - e.dist \in Int /\ (127 - (e.len - 2) \div 2) + 128 * (e.len % 2) \in Int
    BY <1>1
  <2>3. QED
    BY <1>2, <2>1, <2>2, CodesOfThree
<1>5. QED
  BY <1>3, <1>4, TypesOfEdges DEF EdgesIn

(* Of Saxman.                                                              *)
LEMMA SaxmanIsCode ==
  ASSUME NEW e \in EdgesIn(SaxmanAdaptor), NEW x \in Int
  PROVE  IsCode(Code(SaxmanAdaptor, e, x))
<1>1. e.dist \in Int /\ e.len \in Int /\ e.pos \in Int
  BY DEF EdgesIn
<1>2. Code(SaxmanAdaptor, e, x) = SaxmanCode(SaxmanAdaptor, e, x)
  BY DEF Code, SaxmanAdaptor
<1>3. CASE e.type = "symbolwise"
  <2>1. SaxmanCode(SaxmanAdaptor, e, x) = << Bit(1), Byte(x) >>
    BY <1>3 DEF SaxmanCode
  <2>2. QED
    BY <1>2, <2>1, CodesOfTwo
<1>4. CASE e.type # "symbolwise"
  <2>1. PICK d \in Int : d = IF e.type = "zerofill" THEN -1 ELSE e.dist
    BY <1>1
  <2>2. PICK r \in Int : r = (e.pos - d - 18) % 4096
    BY <1>1, <2>1
  <2>3. PICK w \in Int : w = ((e.len - 3) % 16) + 16 * (r \div 256)
    BY <1>1, <2>2
  <2>4. SaxmanCode(SaxmanAdaptor, e, x) = << Bit(0), Byte(r), Byte(w) >>
    <3>1. SaxmanAdaptor.SearchBufSize = 4096
      BY DEF SaxmanAdaptor
    <3>2. QED
      BY <1>4, <2>1, <2>2, <2>3, <3>1 DEF SaxmanCode
  <2>5. QED
    BY <1>2, <2>4, CodesOfThree
<1>5. QED
  BY <1>3, <1>4

(* Of Rocket.                                                              *)
LEMMA RocketIsCode ==
  ASSUME NEW e \in EdgesIn(RocketAdaptor), NEW x \in Int
  PROVE  IsCode(Code(RocketAdaptor, e, x))
<1>1. e.dist \in Int /\ e.len \in Int /\ e.pos \in Int
  BY DEF EdgesIn
<1>2. Code(RocketAdaptor, e, x) = RocketCode(RocketAdaptor, e, x)
  BY DEF Code, RocketAdaptor
<1>3. CASE e.type = "symbolwise"
  <2>1. RocketCode(RocketAdaptor, e, x) = << Bit(1), Byte(x) >>
    BY <1>3 DEF RocketCode
  <2>2. QED
    BY <1>2, <2>1, CodesOfTwo
<1>4. CASE e.type = "dictionary"
  <2>1. PICK r \in Int : r = (e.pos - e.dist) % 1024
    BY <1>1
  <2>2. PICK w \in Int : w = 4 * (e.len - 1) + r \div 256
    BY <1>1, <2>1
  <2>3. RocketCode(RocketAdaptor, e, x) = << Bit(0), Byte(w), Byte(r) >>
    <3>1. RocketAdaptor.SearchBufSize = 1024
      BY DEF RocketAdaptor
    <3>2. QED
      BY <1>4, <2>1, <2>2, <3>1 DEF RocketCode
  <2>4. QED
    BY <1>2, <2>3, CodesOfThree
<1>5. QED
  BY <1>3, <1>4, TypesOfEdges DEF EdgesIn

(* The code of any edge is a token: two to five items, a bit first.        *)
LEMMA CodesAreCodes ==
  ASSUME NEW A \in Formats, NEW e \in EdgesIn(A), NEW x \in Int
  PROVE  IsCode(Code(A, e, x))
BY KosinskiIsCode, KosPlusIsCode, Lzkn1IsCode, ComperIsCode, ComperXIsCode, SaxmanIsCode, RocketIsCode
   DEF Formats

(* The symbols of a format's files: bytes, or the words of Comper.         *)
Alphabet(A) == IF A.format \in {"comper", "comperx"} THEN 256 * 256 ELSE 256

(* A byte goes out and comes in as it is.                                  *)
LEMMA BytesKept == ASSUME NEW x \in Nat, x < 256 PROVE Byte(x).val = x
<1>1. x % 256 = x
  OBVIOUS
<1>2. QED
  BY <1>1 DEF Byte

(* And it is one.                                                          *)
LEMMA ByteKinds == ASSUME NEW x PROVE Byte(x).kind = "byte"
BY DEF Byte

(* The words of a file go out as two bytes and come in as they were.       *)
LEMMA WordsKept ==
  ASSUME NEW x \in Nat, x < 256 * 256, NEW y, y = x \div 256
  PROVE  256 * Byte(y).val + Byte(x).val = x
<1>1. PICK q \in Nat, r \in Nat : q < 256 /\ q = x \div 256 /\ r = x % 256 /\ x = 256 * q + r
  OBVIOUS
<1>2. q % 256 = q
  BY <1>1
<1>3. Byte(y).val = q /\ Byte(x).val = r
  BY <1>1, <1>2 DEF Byte
<1>4. QED
  BY <1>1, <1>3

(* The kinds of a token are one for each of its items.                     *)
LEMMA KindsOf ==
  ASSUME NEW c \in Seq(Item)
  PROVE  Kinds(c) \in Seq({"bit", "byte"}) /\ Len(Kinds(c)) = Len(c)
         /\ \A k \in 1 .. Len(c) : Kinds(c)[k] = c[k].kind
<1>1. \A k \in 1 .. Len(c) : c[k] \in Item
  OBVIOUS
<1>2. \A k \in 1 .. Len(c) : c[k].kind \in {"bit", "byte"}
  BY <1>1 DEF Item
<1>3. DOMAIN c = 1 .. Len(c) /\ Len(c) \in Nat
  OBVIOUS
<1>4. Kinds(c) = [k \in 1 .. Len(c) |-> c[k].kind]
  BY <1>3 DEF Kinds
<1>5. QED
  BY <1>2, <1>3, <1>4

-----------------------------------------------------------------------------
(* The items of a token of two, three and five, as the decoder meets them. *)
LEMMA MeetsTwo ==
  ASSUME NEW s, NEW c, NEW a, NEW b, c = << a, b >>, SameAhead(s, c, Len(c))
  PROVE  s[1] = a /\ s[2] = b /\ Kinds(c) = << a.kind, b.kind >>
<1>1. s[1] = a /\ s[2] = b
  BY DEF SameAhead
<1>2. QED
  BY <1>1, AheadOfTwo

(* Three items ahead.                                                      *)
LEMMA MeetsThree ==
  ASSUME NEW s, NEW c, NEW a, NEW b, NEW d, c = << a, b, d >>, SameAhead(s, c, Len(c))
  PROVE  s[1] = a /\ s[2] = b /\ s[3] = d /\ Kinds(c) = << a.kind, b.kind, d.kind >>
<1>1. s[1] = a /\ s[2] = b /\ s[3] = d
  BY DEF SameAhead
<1>2. QED
  BY <1>1, AheadOfThree



(* A literal of a bit and a byte.                                          *)
LEMMA LiteralOfTwo ==
  ASSUME NEW s, NEW c, NEW b, NEW x \in Nat, x < 256, c = << Bit(b), Byte(x) >>, SameAhead(s, c, Len(c))
  PROVE  s[1].val = b /\ s[2].val = x /\ Kinds(c) = << "bit", "byte" >>
<1>1. s[1] = Bit(b) /\ s[2] = Byte(x) /\ Kinds(c) = << Bit(b).kind, Byte(x).kind >>
  BY MeetsTwo
<1>2. Bit(b).val = b /\ Byte(x).val = x /\ Bit(b).kind = "bit" /\ Byte(x).kind = "byte"
  BY BitKept, BytesKept, ByteKinds
<1>3. QED
  BY <1>1, <1>2

(* Of a bit and a word.                                                    *)
LEMMA LiteralOfThree ==
  ASSUME NEW s, NEW c, NEW b, NEW x, NEW y, c = << Bit(b), Byte(y), Byte(x) >>, SameAhead(s, c, Len(c))
  PROVE  /\ s[1].val = b /\ s[2] = Byte(y) /\ s[3] = Byte(x)
         /\ Kinds(c) = << "bit", "byte", "byte" >>
<1>1. s[1] = Bit(b) /\ s[2] = Byte(y) /\ s[3] = Byte(x) /\ Kinds(c) = << Bit(b).kind, Byte(y).kind, Byte(x).kind >>
  BY MeetsThree
<1>2. Bit(b).val = b /\ Bit(b).kind = "bit" /\ Byte(y).kind = "byte" /\ Byte(x).kind = "byte"
  BY BitKept, ByteKinds
<1>3. QED
  BY <1>1, <1>2

(* A terminator of three items.                                            *)
LEMMA EndOfThree ==
  ASSUME NEW s, NEW c, NEW v, c = << Bit(1), Byte(v), Byte(0) >>, SameAhead(s, c, Len(c))
  PROVE  s[1].val = 1 /\ s[3].val = 0 /\ Kinds(c) = << "bit", "byte", "byte" >>
<1>1. s[1] = Bit(1) /\ s[3] = Byte(0) /\ Kinds(c) = << Bit(1).kind, Byte(v).kind, Byte(0).kind >>
  BY MeetsThree
<1>2. Bit(1).val = 1 /\ Bit(1).kind = "bit" /\ Byte(v).kind = "byte" /\ Byte(0).kind = "byte"
  BY BitKept, ByteKinds
<1>3. Byte(0).val = 0
  BY BytesKept
<1>4. QED
  BY <1>1, <1>2, <1>3

(* Of five.                                                                *)
LEMMA EndOfFive ==
  ASSUME NEW s, NEW c, NEW v \in Nat, v < 256, NEW w \in Nat, w < 256,
         c = << Bit(0), Bit(1), Byte(v), Byte(w), Byte(0) >>, SameAhead(s, c, Len(c))
  PROVE  /\ s[1].val = 0 /\ s[2].val = 1 /\ s[3].val = v /\ s[4].val = w /\ s[5].val = 0
         /\ Kinds(c) = << "bit", "bit", "byte", "byte", "byte" >>
<1>1. /\ s[1] = Bit(0) /\ s[2] = Bit(1) /\ s[3] = Byte(v) /\ s[4] = Byte(w) /\ s[5] = Byte(0)
      /\ Kinds(c) = << Bit(0).kind, Bit(1).kind, Byte(v).kind, Byte(w).kind, Byte(0).kind >>
  <2>1. s[1] = Bit(0) /\ s[2] = Bit(1) /\ s[3] = Byte(v) /\ s[4] = Byte(w) /\ s[5] = Byte(0)
    BY DEF SameAhead
  <2>2. QED
    BY <2>1, AheadOfFive
<1>2. /\ Bit(0).val = 0 /\ Bit(0).kind = "bit" /\ Bit(1).val = 1 /\ Bit(1).kind = "bit"
      /\ Byte(v).kind = "byte" /\ Byte(w).kind = "byte" /\ Byte(0).kind = "byte"
  BY BitKept, ByteKinds
<1>3. Byte(v).val = v /\ Byte(w).val = w /\ Byte(0).val = 0
  BY BytesKept
<1>4. QED
  BY <1>1, <1>2, <1>3

(* A literal of any format is read as its symbol.                          *)
LEMMA LiteralsAreRead ==
  ASSUME NEW A \in Formats, NEW s, NEW e \in EdgesIn(A), e.type = "symbolwise", NEW x \in Nat, x < Alphabet(A),
         NEW c, c = Code(A, e, x), SameAhead(s, c, Len(c)), NEW base
  PROVE  Gets(A, s, base) = Literal(<< x >>, Kinds(c))
<1>1. CASE A = KosinskiAdaptor
  <2>1. c = << Bit(1), Byte(x) >> /\ x < 256 /\ Gets(A, s, base) = KosinskiGets(A, s, base)
    BY <1>1 DEF Code, KosinskiCode, KosinskiAdaptor, Gets, Alphabet
  <2>2. s[1].val = 1 /\ s[2].val = x /\ Kinds(c) = << "bit", "byte" >>
    BY <2>1, LiteralOfTwo
  <2>3. QED
    BY <2>1, <2>2 DEF KosinskiGets
<1>2. CASE A = KosPlusAdaptor
  <2>1. c = << Bit(1), Byte(x) >> /\ x < 256 /\ Gets(A, s, base) = KosPlusGets(A, s, base)
    BY <1>2 DEF Code, KosPlusCode, KosPlusAdaptor, Gets, Alphabet
  <2>2. s[1].val = 1 /\ s[2].val = x /\ Kinds(c) = << "bit", "byte" >>
    BY <2>1, LiteralOfTwo
  <2>3. QED
    BY <2>1, <2>2 DEF KosPlusGets
<1>3. CASE A = Lzkn1Adaptor
  <2>1. c = << Bit(0), Byte(x) >> /\ x < 256 /\ Gets(A, s, base) = Lzkn1Gets(A, s, base)
    BY <1>3 DEF Code, Lzkn1Code, Lzkn1Adaptor, Gets, Alphabet
  <2>2. s[1].val = 0 /\ s[2].val = x /\ Kinds(c) = << "bit", "byte" >>
    BY <2>1, LiteralOfTwo
  <2>3. QED
    BY <2>1, <2>2 DEF Lzkn1Gets
<1>4. CASE A = ComperAdaptor
  <2>1. PICK y : y = x \div 256
    OBVIOUS
  <2>2. /\ c = << Bit(0), Byte(y), Byte(x) >> /\ x < 256 * 256
        /\ Gets(A, s, base) = ComperGets(A, s, base)
    BY <1>4, <2>1 DEF Code, ComperCode, ComperAdaptor, Gets, Alphabet
  <2>3. s[1].val = 0 /\ s[2] = Byte(y) /\ s[3] = Byte(x) /\ Kinds(c) = << "bit", "byte", "byte" >>
    BY <2>2, LiteralOfThree
  <2>4. 256 * s[2].val + s[3].val = x
    BY <2>1, <2>2, <2>3, WordsKept
  <2>5. QED
    BY <2>2, <2>3, <2>4 DEF ComperGets
<1>5. CASE A = ComperXAdaptor
  <2>1. PICK y : y = x \div 256
    OBVIOUS
  <2>2. /\ c = << Bit(0), Byte(y), Byte(x) >> /\ x < 256 * 256
        /\ Gets(A, s, base) = ComperXGets(A, s, base)
    BY <1>5, <2>1 DEF Code, ComperXCode, ComperXAdaptor, ComperAdaptor, Gets, Alphabet
  <2>3. s[1].val = 0 /\ s[2] = Byte(y) /\ s[3] = Byte(x) /\ Kinds(c) = << "bit", "byte", "byte" >>
    BY <2>2, LiteralOfThree
  <2>4. 256 * s[2].val + s[3].val = x
    BY <2>1, <2>2, <2>3, WordsKept
  <2>5. QED
    BY <2>2, <2>3, <2>4 DEF ComperXGets
<1>6. CASE A = SaxmanAdaptor
  <2>1. c = << Bit(1), Byte(x) >> /\ x < 256 /\ Gets(A, s, base) = SaxmanGets(A, s, base)
    BY <1>6 DEF Code, SaxmanCode, SaxmanAdaptor, Gets, Alphabet
  <2>2. s[1].val = 1 /\ s[2].val = x /\ Kinds(c) = << "bit", "byte" >>
    BY <2>1, LiteralOfTwo
  <2>3. QED
    BY <2>1, <2>2 DEF SaxmanGets
<1>7. CASE A = RocketAdaptor
  <2>1. c = << Bit(1), Byte(x) >> /\ x < 256 /\ Gets(A, s, base) = RocketGets(A, s, base)
    BY <1>7 DEF Code, RocketCode, RocketAdaptor, Gets, Alphabet
  <2>2. s[1].val = 1 /\ s[2].val = x /\ Kinds(c) = << "bit", "byte" >>
    BY <2>1, LiteralOfTwo
  <2>3. QED
    BY <2>1, <2>2 DEF RocketGets
<1>8. QED
  BY <1>1, <1>2, <1>3, <1>4, <1>5, <1>6, <1>7 DEF Formats

(* The terminator of a format that has one ends the decoder's loop.        *)
Terminated(A) == A.format \notin {"saxman", "rocket"}

(* Whatever it lies before, it is read as the end.                         *)
LEMMA TerminatorIsRead ==
  ASSUME NEW A \in Formats, Terminated(A), NEW s, NEW base,
         NEW c, c = Terminator(A), SameAhead(s, c, Len(c))
  PROVE  Gets(A, s, base) = End(Kinds(c))
<1>1. CASE A = KosinskiAdaptor
  <2>1. PICK v \in Nat, w \in Nat : v = 0 /\ w = 240
    OBVIOUS
  <2>2. c = << Bit(0), Bit(1), Byte(v), Byte(w), Byte(0) >> /\ Gets(A, s, base) = KosinskiGets(A, s, base)
    BY <1>1, <2>1 DEF Terminator, KosinskiEnd, KosinskiAdaptor, Gets
  <2>3. /\ s[1].val = 0 /\ s[2].val = 1 /\ s[3].val = v /\ s[4].val = w /\ s[5].val = 0
        /\ Kinds(c) = << "bit", "bit", "byte", "byte", "byte" >>
    <3>1. v < 256 /\ w < 256
      BY <2>1
    <3>2. QED
      BY <2>2, <3>1, EndOfFive
  <2>4. QED
    BY <2>1, <2>2, <2>3 DEF KosinskiGets
<1>2. CASE A = KosPlusAdaptor
  <2>1. PICK v \in Nat, w \in Nat : v = 240 /\ w = 0
    OBVIOUS
  <2>2. c = << Bit(0), Bit(1), Byte(v), Byte(w), Byte(0) >> /\ Gets(A, s, base) = KosPlusGets(A, s, base)
    BY <1>2, <2>1 DEF Terminator, KosPlusEnd, KosPlusAdaptor, Gets
  <2>3. /\ s[1].val = 0 /\ s[2].val = 1 /\ s[3].val = v /\ s[4].val = w /\ s[5].val = 0
        /\ Kinds(c) = << "bit", "bit", "byte", "byte", "byte" >>
    <3>1. v < 256 /\ w < 256
      BY <2>1
    <3>2. QED
      BY <2>2, <3>1, EndOfFive
  <2>4. QED
    BY <2>1, <2>2, <2>3 DEF KosPlusGets
<1>3. CASE A = Lzkn1Adaptor
  <2>1. PICK x \in Nat : x = 31
    OBVIOUS
  <2>2. c = << Bit(1), Byte(x) >> /\ Gets(A, s, base) = Lzkn1Gets(A, s, base)
    BY <1>3, <2>1 DEF Terminator, Lzkn1End, Lzkn1Adaptor, Gets
  <2>3. s[1].val = 1 /\ s[2].val = x /\ Kinds(c) = << "bit", "byte" >>
    <3>1. x < 256
      BY <2>1
    <3>2. QED
      BY <2>2, <3>1, LiteralOfTwo
  <2>4. QED
    BY <2>1, <2>2, <2>3 DEF Lzkn1Gets
<1>4. CASE A = ComperAdaptor
  <2>1. c = << Bit(1), Byte(0), Byte(0) >> /\ Gets(A, s, base) = ComperGets(A, s, base)
    BY <1>4 DEF Terminator, ComperEnd, ComperAdaptor, Gets
  <2>2. s[1].val = 1 /\ s[3].val = 0 /\ Kinds(c) = << "bit", "byte", "byte" >>
    BY <2>1, EndOfThree
  <2>3. QED
    BY <2>1, <2>2 DEF ComperGets
<1>5. CASE A = ComperXAdaptor
  <2>1. c = << Bit(1), Byte(-1), Byte(0) >> /\ Gets(A, s, base) = ComperXGets(A, s, base)
    BY <1>5 DEF Terminator, ComperXEnd, ComperXAdaptor, ComperAdaptor, Gets
  <2>2. s[1].val = 1 /\ s[3].val = 0 /\ Kinds(c) = << "bit", "byte", "byte" >>
    BY <2>1, EndOfThree
  <2>3. QED
    BY <2>1, <2>2 DEF ComperXGets
<1>6. CASE A = SaxmanAdaptor \/ A = RocketAdaptor
  BY <1>6 DEF Terminated, SaxmanAdaptor, RocketAdaptor
<1>7. QED
  BY <1>1, <1>2, <1>3, <1>4, <1>5, <1>6 DEF Formats

(* A zero fill has the distance of minus one, to a place that is not yet   *)
(* written: all through the first ring that place is before the file.      *)
LEMMA ZeroFillIsRead ==
  ASSUME NEW s, NEW e, NEW p \in Nat, p < 4095, NEW n \in Span(3, 18), NEW x,
         e.pos = p, e.len = n, e.type = "zerofill",
         NEW c, c = Code(SaxmanAdaptor, e, x), SameAhead(s, c, Len(c))
  PROVE  Gets(SaxmanAdaptor, s, p) = Literal(Blanks(0, n), Kinds(c))
<1>1. PICK m \in 3 .. 18 : m = n
  BY DEF Span
<1>2. PICK q \in Int : q = p + 1 - 18
  OBVIOUS
<1>3. PICK r \in Int : r = q % 4096
  OBVIOUS
<1>4. r \in 0 .. 4095
  BY <1>3
<1>5. PICK w \in Int : w = ((m - 3) % 16) + 16 * (r \div 256)
  OBVIOUS
<1>6. c = << Bit(0), Byte(r), Byte(w) >>
  <2>1. SaxmanAdaptor.format = "saxman" /\ SaxmanAdaptor.SearchBufSize = 4096
    BY DEF SaxmanAdaptor
  <2>2. Code(SaxmanAdaptor, e, x) = SaxmanCode(SaxmanAdaptor, e, x)
    BY <2>1 DEF Code
  <2>3. PICK d \in Int : d = -1
    OBVIOUS
  <2>4. r = (e.pos - d - 18) % 4096 /\ w = ((e.len - 3) % 16) + 16 * (r \div 256)
    BY <1>1, <1>2, <1>3, <1>5, <2>3
  <2>5. SaxmanCode(SaxmanAdaptor, e, x) = << Bit(0), Byte(r), Byte(w) >>
    <3>1. QED
      BY <2>1, <2>3, <2>4 DEF SaxmanCode
  <2>6. QED
    BY <2>2, <2>5
<1>7. s[1].val = 0 /\ s[2] = Byte(r) /\ s[3] = Byte(w) /\ Kinds(c) = << "bit", "byte", "byte" >>
  <2>1. s[1] = Bit(0) /\ s[2] = Byte(r) /\ s[3] = Byte(w)
    BY <1>6 DEF SameAhead
  <2>2. Kinds(c) = << Bit(0).kind, Byte(r).kind, Byte(w).kind >>
    BY <1>6, AheadOfThree
  <2>3. QED
    BY <2>1, <2>2, BitKept, ByteKinds
<1>8. /\ w \in 0 .. 255 /\ w % 256 = w /\ w % 16 = m - 3 /\ w \div 16 = r \div 256
      /\ 256 * (r \div 256) + (r % 256) = r
  BY <1>1, <1>4, <1>5
<1>9. s[2].val = r % 256 /\ s[3].val = w
  <2>1. Byte(r).val = r % 256 /\ Byte(w).val = w % 256
    BY DEF Byte
  <2>2. QED
    BY <1>7, <1>8, <2>1
<1>10. (((r + 18) % 4096) - p) % 4096 = 1
  BY <1>2, <1>3
<1>11. Gets(SaxmanAdaptor, s, p) = SaxmanGets(SaxmanAdaptor, s, p) /\ SaxmanAdaptor.SearchBufSize = 4096
  BY DEF Gets, SaxmanAdaptor
<1>12. /\ (s[3].val % 16) + 3 = n
       /\ (256 * (s[3].val \div 16) + s[2].val + 18) % 4096 = (r + 18) % 4096
  BY <1>1, <1>8, <1>9
<1>13. QED
  BY <1>7, <1>10, <1>11, <1>12 DEF SaxmanGets

(* What decode makes of a token: the symbol, the zeros or the match that   *)
(* encode wrote, the match less the blanks of it before the file.          *)
BlanksOf(A, e) ==
  LET from == e.pos - A.FirstMatchPosition - e.dist IN IF from >= 0 THEN 0 ELSE Least(e.len, -from)

IsRead(A, got, e, x, c) ==
  /\ got.asked = Kinds(c) /\ ~got.ends
  /\ e.type = "symbolwise" => got.lits = << x >> /\ got.len = 0
  /\ e.type = "zerofill" => got.lits = Blanks(0, e.len) /\ got.len = 0
  /\ e.type \notin {"symbolwise", "zerofill"} =>
       /\ got.lits = Blanks(Blank, BlanksOf(A, e))
       /\ got.len = e.len - BlanksOf(A, e)
       /\ got.from = e.pos - A.FirstMatchPosition - e.dist + BlanksOf(A, e)

InWindow(A, e) ==
  \E i \in DOMAIN A.windows :
    /\ e.type = A.windows[i].type /\ e.len \in A.windows[i].min .. A.windows[i].max
    /\ e.dist > 0 /\ e.dist <= A.windows[i].buf /\ e.dist <= e.pos

(* The code of a match is that of the match, whatever the symbol.          *)
LEMMA MatchHasNoSymbol ==
  ASSUME NEW A \in Formats, NEW e \in EdgesIn(A), e.type # "symbolwise", NEW x
  PROVE  Code(A, e, x) = Code(A, e, 0)
<1>1. CASE A = KosinskiAdaptor
  <2>1. \A y : Code(A, e, y) = KosinskiCode(A, e, y)
    BY <1>1 DEF Code, KosinskiAdaptor
  <2>2. QED
    BY <1>1, <2>1 DEF KosinskiCode
<1>2. CASE A = KosPlusAdaptor
  <2>1. \A y : Code(A, e, y) = KosPlusCode(A, e, y)
    BY <1>2 DEF Code, KosPlusAdaptor
  <2>2. QED
    BY <1>2, <2>1 DEF KosPlusCode
<1>3. CASE A = Lzkn1Adaptor
  <2>1. \A y : Code(A, e, y) = Lzkn1Code(A, e, y)
    BY <1>3 DEF Code, Lzkn1Adaptor
  <2>2. QED
    BY <1>3, <2>1 DEF Lzkn1Code
<1>4. CASE A = ComperAdaptor
  <2>1. \A y : Code(A, e, y) = ComperCode(A, e, y)
    BY <1>4 DEF Code, ComperAdaptor
  <2>2. QED
    BY <1>4, <2>1 DEF ComperCode
<1>5. CASE A = ComperXAdaptor
  <2>1. \A y : Code(A, e, y) = ComperXCode(A, e, y)
    BY <1>5 DEF Code, ComperXAdaptor, ComperAdaptor
  <2>2. QED
    BY <1>5, <2>1 DEF ComperXCode
<1>6. CASE A = SaxmanAdaptor
  <2>1. \A y : Code(A, e, y) = SaxmanCode(A, e, y)
    BY <1>6 DEF Code, SaxmanAdaptor
  <2>2. QED
    BY <1>6, <2>1 DEF SaxmanCode
<1>7. CASE A = RocketAdaptor
  <2>1. \A y : Code(A, e, y) = RocketCode(A, e, y)
    BY <1>7 DEF Code, RocketAdaptor
  <2>2. QED
    BY <1>7, <2>1 DEF RocketCode
<1>8. QED
  BY <1>1, <1>2, <1>3, <1>4, <1>5, <1>6, <1>7 DEF Formats

(* The formats and their names.                                            *)
LEMMA Names ==
  /\ KosinskiAdaptor.format = "kosinski" /\ KosPlusAdaptor.format = "kosplus"
  /\ Lzkn1Adaptor.format = "lzkn1" /\ ComperAdaptor.format = "comper"
  /\ ComperXAdaptor.format = "comperx" /\ SaxmanAdaptor.format = "saxman"
  /\ RocketAdaptor.format = "rocket"
<1>1. KosinskiAdaptor.format = "kosinski" /\ KosPlusAdaptor.format = "kosplus" /\ Lzkn1Adaptor.format = "lzkn1"
  BY DEF KosinskiAdaptor, KosPlusAdaptor, Lzkn1Adaptor
<1>2. ComperAdaptor.format = "comper" /\ SaxmanAdaptor.format = "saxman" /\ RocketAdaptor.format = "rocket"
  BY DEF ComperAdaptor, SaxmanAdaptor, RocketAdaptor
<1>3. ComperXAdaptor.format = "comperx"
  BY DEF ComperXAdaptor, ComperAdaptor
<1>4. QED
  BY <1>1, <1>2, <1>3

(* What lies ahead is what was written.                                    *)
LEMMA AheadIs ==
  ASSUME NEW s \in Seq(Item), NEW p \in Nat, NEW k \in 1 .. 80, p + k <= Len(s)
  PROVE  Ahead(s, p)[k] = s[p + k]
BY DEF Ahead

(* And ahead of a token alone, the token.                                  *)
LEMMA AheadOfCode ==
  ASSUME NEW c, IsCode(c), NEW k \in 1 .. Len(c)
  PROVE  Ahead(c, 0)[k] = c[k]
<1>1. c \in Seq(Item) /\ Len(c) \in 2 .. 5
  BY DEF IsCode
<1>2. PICK n \in 2 .. 5 : n = Len(c)
  BY <1>1
<1>3. k \in 1 .. 80 /\ 0 + k <= n /\ 0 + k = k
  BY <1>2
<1>4. QED
  BY <1>1, <1>2, <1>3, AheadIs

(* Every token the parse can have is read as what it stands for.           *)
LEMMA TokensAreRead ==
  ASSUME NEW A \in Formats, NEW e \in EdgesIn(A), e.pos >= A.FirstMatchPosition,
         NEW x \in Nat, x < Alphabet(A), NEW s, NEW c, c = Code(A, e, x), SameAhead(s, c, Len(c)),
         \/ e.type = "symbolwise"
         \/ e.type = "zerofill" /\ A = SaxmanAdaptor /\ e.len \in 3 .. 18 /\ e.pos < 4095
         \/ e.type \notin {"symbolwise", "zerofill"} /\ InWindow(A, e)
  PROVE  IsRead(A, Gets(A, s, e.pos - A.FirstMatchPosition), e, x, c)
<1>1. CASE e.type = "symbolwise"
  <2>1. Gets(A, s, e.pos - A.FirstMatchPosition) = Literal(<< x >>, Kinds(c))
    BY <1>1, LiteralsAreRead
  <2>2. QED
    BY <1>1, <2>1 DEF IsRead, Literal, Got
<1>2. CASE e.type = "zerofill" /\ A = SaxmanAdaptor /\ e.len \in 3 .. 18 /\ e.pos < 4095
  <2>1. PICK p \in Nat, n \in Span(3, 18) : p = e.pos /\ n = e.len
    BY <1>2 DEF EdgesIn, Span
  <2>2. Gets(SaxmanAdaptor, s, p) = Literal(Blanks(0, n), Kinds(c))
    BY <1>2, <2>1, ZeroFillIsRead
  <2>3. p - A.FirstMatchPosition = p
    BY <1>2 DEF SaxmanAdaptor
  <2>4. QED
    BY <1>2, <2>1, <2>2, <2>3 DEF IsRead, Literal, Got
<1>3. CASE e.type \notin {"symbolwise", "zerofill"} /\ InWindow(A, e)
  <2>1. c = Code(A, e, 0)
    BY <1>3, MatchHasNoSymbol
  <2>2. MatchReadsBack(A, e)
    <3>1. PICK i \in DOMAIN A.windows :
            /\ e.type = A.windows[i].type /\ e.len \in A.windows[i].min .. A.windows[i].max
            /\ e.dist > 0 /\ e.dist <= A.windows[i].buf /\ e.dist <= e.pos
      BY <1>3 DEF InWindow
    <3>2. PICK d \in Nat \ {0}, p \in Nat : d = e.dist /\ p = e.pos
      BY <3>1 DEF EdgesIn
    <3>3. MatchReadsBack(A, Edge(p, d, e.len, A.windows[i].type))
      BY <3>1, <3>2, AllReadBack DEF MatchesReadBack
    <3>4. e = Edge(p, d, e.len, A.windows[i].type)
      BY <3>1, <3>2 DEF Edge, EdgesIn
    <3>5. QED
      BY <3>3, <3>4
  <2>3. IsCode(c)
    BY CodesAreCodes
  <2> DEFINE t == Ahead(c, 0)
             base == e.pos - A.FirstMatchPosition
             got == Gets(A, t, base)
  <2>4. /\ got.asked = Kinds(c) /\ ~got.ends
        /\ got.lits = Blanks(Blank, BlanksOf(A, e))
        /\ got.len = e.len - BlanksOf(A, e)
        /\ got.from = e.pos - A.FirstMatchPosition - e.dist + BlanksOf(A, e)
    BY <2>1, <2>2 DEF MatchReadsBack, ReadBack, BlanksOf
  <2>5. Len(got.asked) = Len(c) /\ \A k \in 1 .. Len(c) : t[k] = c[k]
    <3>1. c \in Seq(Item) /\ Len(c) \in 2 .. 5
      BY <2>3 DEF IsCode
    <3>2. \A k \in 1 .. Len(c) : t[k] = c[k]
      BY <2>3, AheadOfCode
    <3>3. QED
      BY <2>4, <3>1, <3>2, KindsOf
  <2>6. SameAhead(s, t, Len(got.asked))
    BY <2>5 DEF SameAhead
  <2>7. A.format = "lzkn1" => got.len # 0
    <3>1. SUFFICES ASSUME A = Lzkn1Adaptor PROVE got.len # 0
      BY Names DEF Formats
    <3>2. A.FirstMatchPosition = 0
      BY <3>1 DEF Lzkn1Adaptor
    <3>3. e.pos \in Nat /\ e.dist \in Nat /\ e.len \in Nat \ {0} /\ e.dist <= e.pos
      BY <1>3 DEF EdgesIn, InWindow
    <3>4. BlanksOf(A, e) = 0
      BY <3>2, <3>3 DEF BlanksOf
    <3>5. QED
      BY <2>4, <3>3, <3>4
  <2>8. Gets(A, s, base) = got
    <3> HIDE DEF t
    <3>1. QED
      BY <2>6, <2>7, GetsIsLocal
  <2>9. QED
    <3> HIDE DEF got
    <3>1. QED
      BY <1>3, <2>4, <2>8 DEF IsRead
<1>4. QED
  BY <1>1, <1>2, <1>3

-----------------------------------------------------------------------------
(* Sequences, by their elements.                                           *)
(* Two of them, one after the other.                                       *)
LEMMA Joined ==
  ASSUME NEW S, NEW s \in Seq(S), NEW t \in Seq(S)
  PROVE  /\ s \o t \in Seq(S) /\ Len(s \o t) = Len(s) + Len(t)
         /\ \A i \in 1 .. Len(s) : (s \o t)[i] = s[i]
         /\ \A i \in 1 .. Len(t) : (s \o t)[Len(s) + i] = t[i]
OBVIOUS

(* The same of numbers, by their lengths.                                  *)
LEMMA JoinedNat ==
  ASSUME NEW s \in Seq(Nat), NEW t \in Seq(Nat), NEW n, NEW m, n = Len(s), m = Len(t)
  PROVE  /\ s \o t \in Seq(Nat) /\ Len(s \o t) = n + m
         /\ \A i \in 1 .. n : (s \o t)[i] = s[i]
         /\ \A i \in 1 .. m : (s \o t)[n + i] = t[i]
OBVIOUS

(* They are the same if their elements are.                                *)
LEMMA SameSeq ==
  ASSUME NEW S, NEW s \in Seq(S), NEW t \in Seq(S), Len(s) = Len(t),
         \A i \in 1 .. Len(s) : s[i] = t[i]
  PROVE  s = t
OBVIOUS

(* What holds of zero and of every successor holds of every number.        *)
LEMMA Induction ==
  ASSUME NEW S \in SUBSET Nat, 0 \in S, \A n \in S : n + 1 \in S
  PROVE  Nat \subseteq S
<1>1. SUFFICES ASSUME Nat \ S # {} PROVE FALSE
  OBVIOUS
<1>2. PICK x \in Nat \ S : \A y \in Nat \ S : x <= y
  <2>1. Nat \ S \in SUBSET Nat
    OBVIOUS
  <2>2. QED
    BY <1>1, <2>1, LeastOfNat
<1>3. x - 1 \in Nat /\ ~(x <= x - 1)
  BY <1>2
<1>4. x - 1 \in S
  BY <1>2, <1>3
<1>5. (x - 1) + 1 \in S
  BY <1>4
<1>6. QED
  BY <1>2, <1>5

(* The first n symbols of D from the place lo on.                          *)
Out(D, lo, n) == SubSeq(D, lo + 1, lo + n)

(* It is so long, and holds these.                                         *)
LEMMA OutIs ==
  ASSUME NEW D \in Seq(Nat), NEW lo \in Nat, NEW n \in Nat, lo + n <= Len(D)
  PROVE  /\ Out(D, lo, n) \in Seq(Nat) /\ Len(Out(D, lo, n)) = n
         /\ \A i \in 1 .. n : Out(D, lo, n)[i] = D[lo + i]
BY DEF Out

(* What t holds is what D holds beyond the place p.                        *)
Continues(D, p, t) == \A i \in 1 .. Len(t) : t[i] = D[p + i]

(* Then it goes on to the end of t.                                        *)
LEMMA OutJoins ==
  ASSUME NEW D \in Seq(Nat), NEW lo \in Nat, NEW n \in Nat, NEW t \in Seq(Nat),
         lo + n + Len(t) <= Len(D), Continues(D, lo + n, t)
  PROVE  Out(D, lo, n) \o t = Out(D, lo, n + Len(t))
<1>1. PICK m \in Nat : m = Len(t)
  OBVIOUS
<1>2. PICK s : s = Out(D, lo, n)
  OBVIOUS
<1>3. /\ s \in Seq(Nat) /\ Len(s) = n
      /\ \A i \in 1 .. n : s[i] = D[lo + i]
  <2>1. lo + n <= Len(D)
    BY <1>1
  <2>2. QED
    BY <1>2, <2>1, OutIs
<1>4. PICK u : u = Out(D, lo, n + m)
  OBVIOUS
<1>5. /\ u \in Seq(Nat) /\ Len(u) = n + m
      /\ \A i \in 1 .. n + m : u[i] = D[lo + i]
  <2>1. n + m \in Nat /\ lo + (n + m) <= Len(D)
    BY <1>1
  <2>2. QED
    BY <1>4, <2>1, OutIs
<1>6. /\ s \o t \in Seq(Nat) /\ Len(s \o t) = n + m
      /\ \A i \in 1 .. n : (s \o t)[i] = s[i]
      /\ \A i \in 1 .. m : (s \o t)[n + i] = t[i]
  <2>1. s \in Seq(Nat) /\ t \in Seq(Nat) /\ n = Len(s) /\ m = Len(t)
    BY <1>1, <1>3
  <2>2. QED
    BY <2>1, JoinedNat
<1>7. \A i \in 1 .. n + m : (s \o t)[i] = u[i]
  <2>1. SUFFICES ASSUME NEW i \in 1 .. n + m PROVE (s \o t)[i] = u[i]
    OBVIOUS
  <2>2. CASE i <= n
    <3>1. i \in 1 .. n
      BY <2>2
    <3>2. (s \o t)[i] = D[lo + i] /\ u[i] = D[lo + i]
      BY <1>3, <1>5, <1>6, <3>1
    <3>3. QED
      BY <3>2
  <2>3. CASE i > n
    <3>1. PICK j \in 1 .. m : i = n + j
      <4>1. i - n \in 1 .. m /\ i = n + (i - n)
        BY <2>3
      <4>2. QED
        BY <4>1
    <3>2. (s \o t)[i] = D[lo + n + j]
      BY <1>1, <1>6, <3>1 DEF Continues
    <3>3. u[i] = D[lo + n + j]
      BY <1>5, <3>1
    <3>4. QED
      BY <3>2, <3>3
  <2>4. i <= n \/ i > n
    OBVIOUS
  <2>5. QED
    BY <2>2, <2>3, <2>4
<1>8. s \o t = u
  BY <1>5, <1>6, <1>7, SameSeq
<1>9. QED
  BY <1>1, <1>2, <1>4, <1>8

(* By one symbol.                                                          *)
LEMMA OutGrows ==
  ASSUME NEW D \in Seq(Nat), NEW lo \in Nat, NEW n \in Nat, lo + n + 1 <= Len(D)
  PROVE  Append(Out(D, lo, n), D[lo + n + 1]) = Out(D, lo, n + 1)
<1>1. D[lo + n + 1] \in Nat
  OBVIOUS
<1>2. PICK x \in Nat : x = D[lo + n + 1]
  BY <1>1
<1>3. << x >> \in Seq(Nat) /\ Len(<< x >>) = 1 /\ Continues(D, lo + n, << x >>)
  BY <1>2 DEF Continues
<1>4. Out(D, lo, n) \o << x >> = Out(D, lo, n + 1)
  BY <1>3, OutJoins
<1>5. Out(D, lo, n) \in Seq(Nat)
  <2>1. lo + n <= Len(D)
    OBVIOUS
  <2>2. QED
    BY <2>1, OutIs
<1>6. Append(Out(D, lo, n), x) = Out(D, lo, n) \o << x >>
  BY <1>5
<1>7. QED
  BY <1>2, <1>4, <1>6

(* A copy whose source reads as its destination is to read gives that:     *)
(* byte after byte, what it reads is written, also where it overlaps.      *)
Agrees(D, p, q, n) == \A k \in 1 .. n : D[p + k] = D[q + k]

CanCopy(D, lo, b, from, m) ==
  /\ D \in Seq(Nat) /\ lo \in Nat /\ b \in Nat /\ m \in Nat /\ lo + b + m <= Len(D)
  /\ from \in Nat /\ from < b /\ Agrees(D, lo + from, lo + b, m)

(* Then the copy is what D holds next.                                     *)
LEMMA CopyGives ==
  ASSUME NEW D, NEW lo, NEW b, NEW from, NEW m, CanCopy(D, lo, b, from, m)
  PROVE  CopyTo(Out(D, lo, b), from, m) = Out(D, lo, b + m)
<1> DEFINE s == Out(D, lo, b)
           f(g) == [k \in 0 .. m |-> IF k = 0 THEN s ELSE Append(g[k - 1], At(g[k - 1], from + k - 1))]
           w == [k \in 0 .. m |-> Out(D, lo, b + k)]
<1>0. /\ D \in Seq(Nat) /\ lo \in Nat /\ b \in Nat /\ m \in Nat /\ lo + b + m <= Len(D)
      /\ from \in Nat /\ from < b /\ Agrees(D, lo + from, lo + b, m)
  BY DEF CanCopy
<1>1. ASSUME NEW g, NEW k \in 1 .. m, g[k - 1] = Out(D, lo, b + (k - 1))
      PROVE  Append(g[k - 1], At(g[k - 1], from + k - 1)) = Out(D, lo, b + k)
  <2>1. PICK n \in Nat : n = b + (k - 1)
    BY <1>0, <1>1
  <2>2. lo + n <= Len(D) /\ lo + n + 1 <= Len(D) /\ n + 1 = b + k /\ lo + n + 1 = lo + b + k
    BY <1>0, <1>1, <2>1
  <2>3. /\ Len(Out(D, lo, n)) = n /\ Out(D, lo, n) \in Seq(Nat)
        /\ \A i \in 1 .. n : Out(D, lo, n)[i] = D[lo + i]
    BY <1>0, <2>2, OutIs
  <2>4. (from + k - 1) + 1 = from + k /\ from + k \in 1 .. n
    BY <1>0, <1>1, <2>1
  <2>5. At(Out(D, lo, n), from + k - 1) = D[lo + (from + k)]
    <3>1. DOMAIN Out(D, lo, n) = 1 .. n
      BY <1>0, <2>3
    <3>2. QED
      BY <1>0, <2>3, <2>4, <3>1 DEF At
  <2>6. lo + (from + k) = lo + from + k
    BY <1>0, <1>1
  <2>7. D[lo + from + k] = D[lo + b + k]
    BY <1>0, <1>1 DEF Agrees
  <2>8. At(Out(D, lo, n), from + k - 1) = D[lo + n + 1]
    BY <1>0, <2>2, <2>5, <2>6, <2>7
  <2>9. QED
    BY <1>0, <1>1, <2>1, <2>2, <2>8, OutGrows
<1>2. w = f(w)
  <2>1. ASSUME NEW k \in 0 .. m PROVE w[k] = f(w)[k]
    <3>1. CASE k = 0
      BY <1>0, <3>1
    <3>2. CASE k # 0
      <4>1. k \in 1 .. m /\ k - 1 \in 0 .. m
        BY <1>0, <3>2
      <4>2. w[k - 1] = Out(D, lo, b + (k - 1))
        BY <1>0, <4>1
      <4> HIDE DEF w
      <4>3. Append(w[k - 1], At(w[k - 1], from + k - 1)) = Out(D, lo, b + k)
        BY <1>0, <1>1, <4>1, <4>2
      <4>4. w[k] = Out(D, lo, b + k)
        BY <1>0 DEF w
      <4>5. f(w)[k] = Append(w[k - 1], At(w[k - 1], from + k - 1))
        BY <1>0, <3>2
      <4>6. QED
        BY <1>0, <4>3, <4>4, <4>5
    <3>3. QED
      BY <1>0, <3>1, <3>2
  <2>2. QED
    BY <1>0, <2>1
<1>3. PICK g : g = CHOOSE fixed : fixed = f(fixed)
  BY <1>0
<1>4. g = f(g)
  BY <1>0, <1>2, <1>3
<1>5. CopyTo(s, from, m) = g[m]
  BY <1>0, <1>3 DEF CopyTo
<1>6. \A k \in Nat : k <= m => g[k] = Out(D, lo, b + k)
  <2> DEFINE S == {k \in Nat : k <= m => g[k] = Out(D, lo, b + k)}
  <2>1. 0 \in S
    <3>1. g[0] = s
      BY <1>0, <1>4
    <3>2. QED
      BY <1>0, <3>1
  <2>2. ASSUME NEW n \in S PROVE n + 1 \in S
    <3>1. SUFFICES ASSUME n + 1 <= m PROVE g[n + 1] = Out(D, lo, b + (n + 1))
      BY <1>0
    <3>2. PICK k \in 1 .. m : k = n + 1
      BY <1>0, <3>1
    <3>3. g[k - 1] = Out(D, lo, b + (k - 1))
      BY <1>0, <2>2, <3>1, <3>2
    <3>4. g[k] = Append(g[k - 1], At(g[k - 1], from + k - 1))
      <4>1. k \in 0 .. m /\ k # 0
        BY <1>0
      <4>2. f(g)[k] = Append(g[k - 1], At(g[k - 1], from + k - 1))
        BY <1>0, <4>1
      <4> HIDE DEF f
      <4>3. QED
        BY <1>0, <1>4, <4>2
    <3>5. Append(g[k - 1], At(g[k - 1], from + k - 1)) = Out(D, lo, b + k)
      BY <1>0, <1>1, <3>3
    <3>6. QED
      BY <1>0, <3>2, <3>4, <3>5
  <2>3. S \in SUBSET Nat
    BY <1>0
  <2> HIDE DEF S
  <2>4. Nat \subseteq S
    BY <1>0, <2>1, <2>2, <2>3, Induction
  <2>5. QED
    BY <1>0, <2>4 DEF S
<1>7. QED
  BY <1>0, <1>5, <1>6

(* A copy of nothing.                                                      *)
LEMMA CopyNothing == ASSUME NEW s, NEW from PROVE CopyTo(s, from, 0) = s
<1> DEFINE f(g) == [k \in 0 .. 0 |-> IF k = 0 THEN s ELSE Append(g[k - 1], At(g[k - 1], from + k - 1))]
           w == [k \in 0 .. 0 |-> s]
<1>1. w = f(w)
  OBVIOUS
<1>2. PICK g : g = CHOOSE fixed : fixed = f(fixed)
  OBVIOUS
<1>3. g = f(g)
  BY <1>1, <1>2
<1>4. CopyTo(s, from, 0) = g[0]
  BY <1>2 DEF CopyTo
<1>5. QED
  BY <1>3, <1>4

-----------------------------------------------------------------------------
(* The size of a part of the stream, where descriptors are bytes that are  *)
(* fetched when needed: it grows with every byte.                          *)
BitPlaces(n) == {i \in 1 .. n : items[i].kind = "bit"}
BytePlaces(n) == (1 .. n) \ BitPlaces(n)

(* Every place holds a bit or a byte.                                      *)
LEMMA PlacesAreCounted ==
  ASSUME NEW n \in Nat
  PROVE  /\ IsFiniteSet(BitPlaces(n)) /\ IsFiniteSet(BytePlaces(n))
         /\ Bits(n) = Cardinality(BitPlaces(n)) /\ Bits(n) \in Nat
         /\ n - Bits(n) = Cardinality(BytePlaces(n)) /\ n - Bits(n) \in Nat
<1>1. IsFiniteSet(1 .. n) /\ Cardinality(1 .. n) = n
  <2>1. IsFiniteSet(1 .. n) /\ Cardinality(1 .. n) = IF 1 > n THEN 0 ELSE n - 1 + 1
    BY FS_Interval
  <2>2. QED
    BY <2>1
<1>2. BitPlaces(n) \subseteq 1 .. n
  BY DEF BitPlaces
<1>3. IsFiniteSet(BitPlaces(n)) /\ Cardinality(BitPlaces(n)) \in Nat
  BY <1>1, <1>2, FS_Subset, FS_CardinalityType
<1>4. IsFiniteSet(BytePlaces(n)) /\ Cardinality(BytePlaces(n)) = n - Cardinality(BitPlaces(n))
  <2>1. (1 .. n) \cap BitPlaces(n) = BitPlaces(n)
    BY <1>2
  <2>2. PICK S, T : S = 1 .. n /\ T = BitPlaces(n)
    OBVIOUS
  <2>3. IsFiniteSet(S \ T) /\ Cardinality(S \ T) = Cardinality(S) - Cardinality(S \cap T)
    BY <1>1, <2>2, FS_Difference
  <2>4. QED
    BY <1>1, <2>1, <2>2, <2>3 DEF BytePlaces
<1>5. Cardinality(BytePlaces(n)) \in Nat
  BY <1>4, FS_CardinalityType
<1>6. Bits(n) = Cardinality(BitPlaces(n))
  BY DEF Bits, BitPlaces
<1>7. QED
  BY <1>3, <1>4, <1>5, <1>6

(* The size is a number.                                                   *)
LEMMA StreamedIsInt ==
  ASSUME Adaptor.NumDescBits = 8, Adaptor.NeedEarlyDescriptor = FALSE, NEW n \in Nat
  PROVE  Streamed(n) \in Int
<1>1. PICK a \in Nat : a = Bits(n)
  BY PlacesAreCounted
<1>2. PICK f \in Int : f = (a + 7) \div 8
  OBVIOUS
<1>3. Fields(Bits(n)) = f
  BY <1>1, <1>2 DEF Fields
<1>4. Streamed(n) = f * (8 \div 8) + n - a
  BY <1>1, <1>3 DEF Streamed
<1>5. 8 \div 8 = 1
  OBVIOUS
<1>6. QED
  BY <1>4, <1>5

(* A byte more is more.                                                    *)
LEMMA StreamedGrows ==
  ASSUME Adaptor.NumDescBits = 8, Adaptor.NeedEarlyDescriptor = FALSE,
         NEW m \in Nat, NEW n \in Nat, m < n,
         NEW k \in m + 1 .. n, items[k].kind # "bit"
  PROVE  Streamed(m) < Streamed(n)
<1>1. k \in 1 .. n /\ k \notin 1 .. m /\ 1 .. m \subseteq 1 .. n
  OBVIOUS
<1>2. BitPlaces(m) \subseteq BitPlaces(n)
  BY <1>1 DEF BitPlaces
<1>3. BytePlaces(m) \subseteq BytePlaces(n) \ {k} /\ k \in BytePlaces(n)
  BY <1>1 DEF BytePlaces, BitPlaces
<1>4. Cardinality(BitPlaces(m)) <= Cardinality(BitPlaces(n))
  BY <1>2, PlacesAreCounted, FS_Subset
<1>5. Cardinality(BytePlaces(m)) < Cardinality(BytePlaces(n))
  <2>1. IsFiniteSet(BytePlaces(n)) /\ Cardinality(BytePlaces(n)) \in Nat /\ Cardinality(BytePlaces(m)) \in Nat
    BY PlacesAreCounted
  <2>2. BytePlaces(m) \subseteq BytePlaces(n) /\ BytePlaces(m) # BytePlaces(n)
    BY <1>3
  <2>3. /\ Cardinality(BytePlaces(m)) <= Cardinality(BytePlaces(n))
        /\ Cardinality(BytePlaces(m)) = Cardinality(BytePlaces(n)) => BytePlaces(m) = BytePlaces(n)
    BY <2>1, <2>2, FS_Subset
  <2>4. QED
    BY <2>1, <2>2, <2>3
<1>6. PICK a \in Nat, b \in Nat, c \in Nat, d \in Nat :
        a = Bits(m) /\ b = Bits(n) /\ c = m - Bits(m) /\ d = n - Bits(n)
  BY PlacesAreCounted
<1>7. a <= b /\ c < d
  BY <1>4, <1>5, <1>6, PlacesAreCounted
<1>8. Streamed(m) = (a + 7) \div 8 + c /\ Streamed(n) = (b + 7) \div 8 + d
  <2>1. Fields(Bits(m)) = (a + 7) \div 8 /\ Fields(Bits(n)) = (b + 7) \div 8
    BY <1>6 DEF Fields
  <2>2. 8 \div 8 = 1 /\ (a + 7) \div 8 \in Int /\ (b + 7) \div 8 \in Int
    OBVIOUS
  <2>3. PICK f \in Int, g \in Int : f = (a + 7) \div 8 /\ g = (b + 7) \div 8
    BY <2>2
  <2>4. Streamed(m) = f * (8 \div 8) + m - a /\ Streamed(n) = g * (8 \div 8) + n - b
    BY <1>6, <2>1, <2>3 DEF Streamed
  <2>5. QED
    BY <1>6, <2>2, <2>3, <2>4
<1>9. (a + 7) \div 8 <= (b + 7) \div 8
  BY <1>7
<1>10. QED
  BY <1>7, <1>8, <1>9

-----------------------------------------------------------------------------
(* What a token writes: with the file up to its place before it, the file  *)
(* up to its end.  Facts of its places first.                              *)
Repeats(D, p, n, x) == \A k \in 1 .. n : D[p + k] = x

OutAnd(D, lo, b, t) == Out(D, lo, b) \o t

(* Where D repeats x, a run of it is what D holds next.                    *)
LEMMA BlanksContinue ==
  ASSUME NEW D \in Seq(Nat), NEW p \in Nat, NEW x \in Nat, NEW n \in Nat, NEW t, t = Blanks(x, n),
         Repeats(D, p, n, x)
  PROVE  t \in Seq(Nat) /\ Len(t) = n /\ Continues(D, p, t)
<1>1. t \in Seq(Nat) /\ Len(t) = n /\ \A i \in 1 .. n : t[i] = x
  BY DEF Blanks
<1>2. QED
  BY <1>1 DEF Continues, Repeats

(* And the file goes on by the run.                                        *)
LEMMA WritesBlanks ==
  ASSUME NEW D \in Seq(Nat), NEW lo \in Nat, NEW b \in Nat, NEW n \in Nat, lo + b + n <= Len(D),
         NEW x \in Nat, Repeats(D, lo + b, n, x)
  PROVE  OutAnd(D, lo, b, Blanks(x, n)) = Out(D, lo, b + n)
<1>1. PICK t : t = Blanks(x, n)
  OBVIOUS
<1>2. PICK p \in Nat : p = lo + b
  OBVIOUS
<1>3. t \in Seq(Nat) /\ Len(t) = n /\ Continues(D, p, t)
  BY <1>1, <1>2, BlanksContinue
<1>4. lo + b + Len(t) <= Len(D) /\ Continues(D, lo + b, t)
  BY <1>2, <1>3
<1>5. Out(D, lo, b) \o t = Out(D, lo, b + Len(t))
  BY <1>3, <1>4, OutJoins
<1>6. QED
  BY <1>1, <1>3, <1>5 DEF OutAnd

(* A literal.                                                              *)
LEMMA WritesLiteral ==
  ASSUME NEW D \in Seq(Nat), NEW lo \in Nat, NEW b \in Nat, lo + b + 1 <= Len(D), NEW from,
         NEW x, x = D[lo + b + 1]
  PROVE  CopyTo(OutAnd(D, lo, b, << x >>), from, 0) = Out(D, lo, b + 1)
<1>1. D[lo + b + 1] \in Nat
  OBVIOUS
<1>2. PICK y \in Nat : y = x
  BY <1>1
<1>3. << y >> \in Seq(Nat) /\ Len(<< y >>) = 1 /\ Continues(D, lo + b, << y >>)
  BY <1>2 DEF Continues
<1>4. Out(D, lo, b) \o << y >> = Out(D, lo, b + 1)
  BY <1>3, OutJoins
<1>5. QED
  BY <1>2, <1>4, CopyNothing DEF OutAnd

(* Zeros.                                                                  *)
LEMMA WritesZeros ==
  ASSUME NEW D \in Seq(Nat), NEW lo \in Nat, NEW b \in Nat, NEW n \in Nat, lo + b + n <= Len(D), NEW from,
         Repeats(D, lo + b, n, 0)
  PROVE  CopyTo(OutAnd(D, lo, b, Blanks(0, n)), from, 0) = Out(D, lo, b + n)
<1>1. PICK x \in Nat : x = 0
  OBVIOUS
<1>2. Repeats(D, lo + b, n, x)
  BY <1>1
<1>3. OutAnd(D, lo, b, Blanks(x, n)) = Out(D, lo, b + n)
  BY <1>2, WritesBlanks
<1>4. CopyTo(OutAnd(D, lo, b, Blanks(x, n)), from, 0) = Out(D, lo, b + n)
  BY <1>3, CopyNothing
<1>5. QED
  BY <1>1, <1>4

(* A match: of n symbols at distance d, of which s are before the file.    *)
LEMMA BlankPart ==
  ASSUME NEW D \in Seq(Nat), NEW lo \in Nat, NEW b \in Nat, NEW n \in Nat, lo + b + n <= Len(D),
         NEW d \in Nat, d <= lo + b,
         Repeats(D, 0, lo, Blank), Agrees(D, lo + b, lo + b - d, n),
         NEW s \in Nat, s <= n, s > 0 => s <= d - b
  PROVE  Repeats(D, lo + b, s, Blank)
<1>1. SUFFICES ASSUME NEW k \in 1 .. s PROVE D[lo + b + k] = Blank
  BY DEF Repeats
<1>2. PICK p \in 1 .. lo : p = lo + b - d + k
  <2>1. s <= d - b
    OBVIOUS
  <2>2. lo + b - d + k \in 1 .. lo
    BY <2>1
  <2>3. QED
    BY <2>2
<1>3. D[lo + b + k] = D[p]
  <2>1. k \in 1 .. n
    OBVIOUS
  <2>2. D[lo + b + k] = D[lo + b - d + k]
    BY <2>1 DEF Agrees
  <2>3. QED
    BY <1>2, <2>2
<1>4. 0 + p = p
  OBVIOUS
<1>5. D[p] = Blank
  BY <1>4 DEF Repeats
<1>6. QED
  BY <1>3, <1>5

(* What is not before the file: its source is written already.             *)
LEMMA CopiedPart ==
  ASSUME NEW D, NEW lo \in Nat, NEW b \in Nat, NEW n \in Nat, NEW d \in Nat,
         Agrees(D, lo + b, lo + b - d, n),
         NEW s \in Nat, NEW f \in Nat, NEW m \in Nat, s + m = n, f = (b - d) + s
  PROVE  Agrees(D, lo + f, lo + (b + s), m)
<1>1. SUFFICES ASSUME NEW k \in 1 .. m PROVE D[lo + f + k] = D[lo + (b + s) + k]
  BY DEF Agrees
<1>2. PICK j \in 1 .. n : j = s + k
  <2>1. s + k \in 1 .. n
    OBVIOUS
  <2>2. QED
    BY <2>1
<1>3. D[lo + b + j] = D[lo + b - d + j]
  BY DEF Agrees
<1>4. lo + b + j = lo + (b + s) + k /\ lo + b - d + j = lo + f + k
  BY <1>2
<1>5. QED
  BY <1>3, <1>4

BlanksFit(b, n, d, s) ==
  /\ s \in Nat /\ s <= n
  /\ s > 0 => s <= d - b
  /\ s < n => (b - d) + s >= 0

(* Both together: the match is what the file holds next.                   *)
LEMMA WritesMatch ==
  ASSUME NEW D \in Seq(Nat), NEW lo \in Nat, NEW b \in Nat, NEW n \in Nat \ {0}, lo + b + n <= Len(D),
         NEW d \in Nat \ {0}, d <= lo + b,
         Repeats(D, 0, lo, Blank), Agrees(D, lo + b, lo + b - d, n),
         NEW s, BlanksFit(b, n, d, s)
  PROVE  CopyTo(OutAnd(D, lo, b, Blanks(Blank, s)), (b - d) + s, n - s) = Out(D, lo, b + n)
<1>0. s \in Nat /\ s <= n /\ (s > 0 => s <= d - b) /\ (s < n => (b - d) + s >= 0)
  BY DEF BlanksFit
<1>1. PICK x \in Nat : x = Blank
  BY DEF Blank
<1>2. Repeats(D, lo + b, s, x)
  BY <1>0, <1>1, BlankPart
<1>3. lo + b + s <= Len(D)
  BY <1>0
<1>4. OutAnd(D, lo, b, Blanks(x, s)) = Out(D, lo, b + s)
  <2>1. s \in Nat
    BY <1>0
  <2>2. QED
    BY <1>2, <1>3, <2>1, WritesBlanks, SMTT(30)
<1>5. CASE s = n
  <2>1. n - s = 0
    BY <1>0, <1>5
  <2>2. QED
    BY <1>1, <1>4, <1>5, <2>1, CopyNothing
<1>6. CASE s < n
  <2>1. PICK f \in Nat, c \in Nat, m \in Nat : f = (b - d) + s /\ c = b + s /\ m = n - s
    <3>1. (b - d) + s \in Nat /\ b + s \in Nat /\ n - s \in Nat
      BY <1>0, <1>6
    <3>2. QED
      BY <3>1
  <2>2. f < c /\ lo + c + m <= Len(D) /\ c + m = b + n /\ s + m = n
    BY <1>0, <2>1
  <2>3. Agrees(D, lo + f, lo + (b + s), m)
    BY <1>0, <2>1, <2>2, CopiedPart
  <2>4. Agrees(D, lo + f, lo + c, m)
    BY <2>1, <2>3
  <2>5. f < c
    BY <2>2
  <2>6. lo + c + m <= Len(D)
    BY <2>2
  <2>7. CopyTo(Out(D, lo, c), f, m) = Out(D, lo, c + m)
    <3>1. f \in Nat /\ c \in Nat /\ m \in Nat
      BY <2>1
    <3>2. CanCopy(D, lo, c, f, m)
      BY <2>4, <2>5, <2>6, <3>1 DEF CanCopy
    <3>3. QED
      BY <3>2, CopyGives
  <2>8. QED
    BY <1>1, <1>4, <2>1, <2>2, <2>7
<1>7. QED
  BY <1>0, <1>5, <1>6

-----------------------------------------------------------------------------
(* The kinds of edges of the formats, and of which format they are.        *)
LEMMA WindowTypes ==
  \A A \in Formats : \A i \in DOMAIN A.windows : A.windows[i].type \notin {"symbolwise", "zerofill"}
<1>1. \A i \in DOMAIN KosinskiAdaptor.windows : KosinskiAdaptor.windows[i].type \notin {"symbolwise", "zerofill"}
  BY DEF KosinskiAdaptor, Window
<1>2. \A i \in DOMAIN KosPlusAdaptor.windows : KosPlusAdaptor.windows[i].type \notin {"symbolwise", "zerofill"}
  BY DEF KosPlusAdaptor, Window
<1>3. \A i \in DOMAIN Lzkn1Adaptor.windows : Lzkn1Adaptor.windows[i].type \notin {"symbolwise", "zerofill"}
  BY DEF Lzkn1Adaptor, Window
<1>4. \A i \in DOMAIN ComperAdaptor.windows : ComperAdaptor.windows[i].type \notin {"symbolwise", "zerofill"}
  BY DEF ComperAdaptor, Window
<1>5. \A i \in DOMAIN ComperXAdaptor.windows : ComperXAdaptor.windows[i].type \notin {"symbolwise", "zerofill"}
  BY DEF ComperXAdaptor, ComperAdaptor, Window
<1>6. \A i \in DOMAIN SaxmanAdaptor.windows : SaxmanAdaptor.windows[i].type \notin {"symbolwise", "zerofill"}
  BY DEF SaxmanAdaptor, Window
<1>7. \A i \in DOMAIN RocketAdaptor.windows : RocketAdaptor.windows[i].type \notin {"symbolwise", "zerofill"}
  BY DEF RocketAdaptor, Window
<1>8. QED
  BY <1>1, <1>2, <1>3, <1>4, <1>5, <1>6, <1>7 DEF Formats

(* No window gives packed literals.                                        *)
LEMMA NoPackedLiterals == \A A \in Formats : "packed_symbolwise" \notin EdgeTypes(A)
BY TypesOfEdges DEF Formats

(* Zeros are filled in one format.                                         *)
LEMMA OnlySaxmanFills == \A A \in Formats : A.extra = "zerofill" => A = SaxmanAdaptor
<1>1. KosinskiAdaptor.extra = "none" /\ KosPlusAdaptor.extra = "none" /\ Lzkn1Adaptor.extra = "packed"
  BY DEF KosinskiAdaptor, KosPlusAdaptor, Lzkn1Adaptor
<1>2. ComperAdaptor.extra = "none" /\ RocketAdaptor.extra = "none"
  BY DEF ComperAdaptor, RocketAdaptor
<1>3. ComperXAdaptor.extra = "none"
  BY DEF ComperXAdaptor, ComperAdaptor
<1>4. QED
  BY <1>1, <1>2, <1>3 DEF Formats

(* Its window.                                                             *)
LEMMA SaxmanWindow == SaxmanAdaptor.SearchBufSize = 4096 /\ SaxmanAdaptor.windows[1].max = 18
BY DEF SaxmanAdaptor, Window

(* An edge of the parse is a literal, a zero fill or a match.              *)
IsLiteral(e) == e.type = "symbolwise" /\ e.len = 1
IsFill(e) ==
  /\ e.type = "zerofill" /\ Adaptor = SaxmanAdaptor /\ e.len \in 3 .. 18 /\ e.pos < 4095
  /\ \A k \in 0 .. e.len - 1 : Symbol(e.pos + k) = 0
IsMatch(e) ==
  /\ e.type \notin {"symbolwise", "zerofill"} /\ InWindow(Adaptor, e)
  /\ \A k \in 0 .. e.len - 1 : Symbol(e.pos + k) = Symbol(e.pos + k - e.dist)

(* One of the three.                                                       *)
LEMMA KindsOfEdges ==
  ASSUME Adaptor \in Formats, DOMAIN Adaptor.windows = 1 .. Layers, NEW e \in Edges, Genuine(e),
         \A i \in 1 .. Layers : Adaptor.windows[i].buf \in Nat
  PROVE  IsLiteral(e) \/ IsFill(e) \/ IsMatch(e)
<1>1. CASE e.type = "symbolwise" /\ e.len = 1
  BY <1>1 DEF IsLiteral
<1>2. ASSUME NEW i \in 1 .. Layers,
             e.type = Adaptor.windows[i].type,
             e.len \in Adaptor.windows[i].min .. Adaptor.windows[i].max,
             e.dist \in 1 .. Least(Adaptor.windows[i].buf, e.pos),
             \A k \in 0 .. e.len - 1 : Symbol(e.pos + k) = Symbol(e.pos + k - e.dist)
      PROVE  IsMatch(e)
  <2>1. e.dist > 0 /\ e.dist <= Adaptor.windows[i].buf /\ e.dist <= e.pos
    <3>1. e.dist \in Nat /\ e.pos \in Nat /\ Adaptor.windows[i].buf \in Nat
      BY DEF Edges
    <3>2. QED
      BY <1>2, <3>1 DEF Least
  <2>2. InWindow(Adaptor, e)
    BY <1>2, <2>1 DEF InWindow
  <2>3. e.type \notin {"symbolwise", "zerofill"}
    BY <1>2, WindowTypes
  <2>4. QED
    BY <1>2, <2>2, <2>3 DEF IsMatch
<1>3. ASSUME e.type = "zerofill", Adaptor.extra = "zerofill",
             e.len \in 3 .. Adaptor.windows[1].max, e.pos < Adaptor.SearchBufSize - 1,
             \A k \in 0 .. e.len - 1 : Symbol(e.pos + k) = 0
      PROVE  IsFill(e)
  <2>1. Adaptor = SaxmanAdaptor
    BY <1>3, OnlySaxmanFills
  <2>2. e.len \in 3 .. 18 /\ e.pos < 4096 - 1
    BY <1>3, <2>1, SaxmanWindow
  <2>3. QED
    BY <1>3, <2>1, <2>2 DEF IsFill
<1>4. CASE e.type = "packed_symbolwise"
  BY <1>4, NoPackedLiterals DEF Edges
<1>5. QED
  BY <1>1, <1>2, <1>3, <1>4 DEF Genuine

-----------------------------------------------------------------------------
(* What decode writes for a token: the file goes on to the token's end.    *)
Writes(e, b, got) == CopyTo(OutAnd(data, First, b, got.lits), got.from, got.len) = Out(data, First, b + e.len)

(* The token is there: its place is that of the b-th symbol of the file.   *)
Stands(e, b) ==
  /\ data \in Seq(Nat) /\ First \in Nat /\ Repeats(data, 0, First, Blank)
  /\ e \in Edges /\ b \in Nat /\ e.pos = First + b /\ First + b + e.len <= Len(data)

(* A literal does.                                                         *)
LEMMA LiteralWrites ==
  ASSUME NEW e, NEW b, Stands(e, b), IsLiteral(e), NEW got, NEW c,
         IsRead(Adaptor, got, e, Symbol(e.pos), c)
  PROVE  Writes(e, b, got)
<1>1. PICK D \in Seq(Nat), lo \in Nat, n \in Nat : D = data /\ lo = First /\ n = b
  BY DEF Stands
<1>2. lo + n + 1 <= Len(D) /\ e.pos = lo + n /\ e.len = 1
  BY <1>1 DEF Stands, IsLiteral
<1>3. PICK x : x = D[lo + n + 1]
  OBVIOUS
<1>4. Symbol(e.pos) = x
  BY <1>1, <1>2, <1>3 DEF Symbol
<1>5. got.lits = << x >> /\ got.len = 0
  BY <1>4 DEF IsRead, IsLiteral
<1>6. CopyTo(OutAnd(D, lo, n, << x >>), got.from, 0) = Out(D, lo, n + 1)
  BY <1>2, <1>3, WritesLiteral
<1>7. QED
  BY <1>1, <1>2, <1>5, <1>6 DEF Writes

(* So does a zero fill.                                                    *)
LEMMA FillWrites ==
  ASSUME NEW e, NEW b, Stands(e, b), IsFill(e), NEW got, NEW x, NEW c,
         IsRead(Adaptor, got, e, x, c)
  PROVE  Writes(e, b, got)
<1>1. PICK D \in Seq(Nat), lo \in Nat, m \in Nat, n \in Nat : D = data /\ lo = First /\ m = b /\ n = e.len
  BY DEF Stands, Edges
<1>2. lo + m + n <= Len(D) /\ e.pos = lo + m
  BY <1>1 DEF Stands
<1>3. Repeats(D, lo + m, n, 0)
  <2>1. SUFFICES ASSUME NEW k \in 1 .. n PROVE D[lo + m + k] = 0
    BY DEF Repeats
  <2>2. PICK j \in 0 .. e.len - 1 : j = k - 1
    BY <1>1
  <2>3. Symbol(e.pos + j) = 0
    BY <1>2 DEF IsFill
  <2>4. e.pos + j + 1 = lo + m + k
    BY <1>2, <2>2
  <2>5. QED
    BY <1>1, <2>3, <2>4 DEF Symbol
<1>4. got.lits = Blanks(0, n) /\ got.len = 0
  BY <1>1 DEF IsRead, IsFill
<1>5. CopyTo(OutAnd(D, lo, m, Blanks(0, n)), got.from, 0) = Out(D, lo, m + n)
  BY <1>2, <1>3, WritesZeros
<1>6. QED
  BY <1>1, <1>4, <1>5 DEF Writes

(* How much of a match is before the file.                                 *)
LEMMA BlanksCounted ==
  ASSUME NEW b \in Nat, NEW n \in Nat \ {0}, NEW d \in Nat, NEW f, f = b - d,
         NEW s, s = IF f >= 0 THEN 0 ELSE Least(n, -f)
  PROVE  BlanksFit(b, n, d, s)
BY DEF Least, BlanksFit

(* And a match.                                                            *)
LEMMA MatchWrites ==
  ASSUME NEW e, NEW b, Stands(e, b), IsMatch(e), NEW got, NEW x, NEW c,
         IsRead(Adaptor, got, e, x, c)
  PROVE  Writes(e, b, got)
<1>1. PICK D \in Seq(Nat), lo \in Nat, m \in Nat, n \in Nat \ {0}, d \in Nat \ {0} :
        D = data /\ lo = First /\ m = b /\ n = e.len /\ d = e.dist
  <2>1. e.dist \in Nat /\ e.dist > 0
    BY DEF Stands, Edges, IsMatch, InWindow
  <2>2. e.dist \in Nat \ {0} /\ e.len \in Nat \ {0}
    BY <2>1 DEF Stands, Edges
  <2>3. QED
    BY <2>2 DEF Stands
<1>2. lo + m + n <= Len(D) /\ e.pos = lo + m
  BY <1>1 DEF Stands
<1>3. d <= lo + m
  BY <1>1, <1>2 DEF IsMatch, InWindow
<1>4. Repeats(D, 0, lo, Blank)
  BY <1>1 DEF Stands
<1>5. Agrees(D, lo + m, lo + m - d, n)
  <2>1. SUFFICES ASSUME NEW k \in 1 .. n PROVE D[lo + m + k] = D[lo + m - d + k]
    BY DEF Agrees
  <2>2. PICK j \in 0 .. e.len - 1 : j = k - 1
    BY <1>1
  <2>3. Symbol(e.pos + j) = Symbol(e.pos + j - e.dist)
    BY DEF IsMatch
  <2>4. (lo + m) + j + 1 = lo + m + k /\ (lo + m) + j - d + 1 = lo + m - d + k
    BY <2>2
  <2>5. Symbol((lo + m) + j) = Symbol((lo + m) + j - d)
    BY <1>1, <1>2, <2>3
  <2>6. QED
    BY <1>1, <2>4, <2>5 DEF Symbol
<1>6. PICK s : s = BlanksOf(Adaptor, e)
  OBVIOUS
<1>7. e.pos - Adaptor.FirstMatchPosition - e.dist = m - d
  BY <1>1, <1>2 DEF First
<1>8. s = IF m - d >= 0 THEN 0 ELSE Least(n, -(m - d))
  BY <1>1, <1>6, <1>7 DEF BlanksOf
<1>9. BlanksFit(m, n, d, s)
  BY <1>8, BlanksCounted
<1>10. got.lits = Blanks(Blank, s) /\ got.len = n - s /\ got.from = (m - d) + s
  BY <1>1, <1>6, <1>7 DEF IsRead, IsMatch
<1>11. lo + m + n <= Len(D)
  BY <1>2
<1>12. CopyTo(OutAnd(D, lo, m, Blanks(Blank, s)), (m - d) + s, n - s) = Out(D, lo, m + n)
  BY <1>3, <1>4, <1>5, <1>9, <1>11, WritesMatch
<1>13. QED
  BY <1>1, <1>10, <1>12 DEF Writes

-----------------------------------------------------------------------------
(* The formats as they are, and the files: bytes, or words for the Comper  *)
(* formats, and for Rocket the blanks that encode puts before them.        *)
RealFiles ==
  \A f \in DOMAIN Adaptors :
    /\ Adaptors[f] \in Formats
    /\ \A s \in Inputs[f] :
         /\ \A i \in 1 .. Len(s) : s[i] < Alphabet(Adaptors[f])
         /\ Repeats(s, 0, Adaptors[f].FirstMatchPosition, Blank)

(* What that says of the format and the file that are chosen.              *)
LEMMA TheFormat ==
  ASSUME RealFiles, format \in DOMAIN Adaptors, data \in Inputs[format]
  PROVE  /\ Adaptor \in Formats /\ Edges = EdgesIn(Adaptor)
         /\ DOMAIN Adaptor.windows = 1 .. Layers
         /\ \A i \in 1 .. Layers : Adaptor.windows[i].buf \in Nat
         /\ data \in Seq(Nat) /\ First \in Nat /\ First <= Len(data) /\ Repeats(data, 0, First, Blank)
         /\ \A i \in 1 .. Len(data) : data[i] < Alphabet(Adaptor)
<1>1. Adaptor \in Formats /\ Repeats(data, 0, First, Blank) /\ \A i \in 1 .. Len(data) : data[i] < Alphabet(Adaptor)
  BY DEF RealFiles, Adaptor, First
<1>2. AdaptorOK(Adaptor)
  BY TheAdaptor
<1>3. DOMAIN Adaptor.windows = 1 .. Layers
  <2>1. PICK W : Adaptor.windows \in Seq(W)
    BY <1>2 DEF AdaptorOK
  <2>2. QED
    BY <2>1 DEF Layers
<1>4. Edges = EdgesIn(Adaptor)
  BY DEF Edges, EdgesIn
<1>5. QED
  BY <1>1, <1>3, <1>4, TheAdaptor DEF nlen

(* The token of an edge of the parse.                                      *)
TokenOf(i) == Code(Adaptor, parselist[i], Symbol(parselist[i].pos))

(* What is known of an edge of the parse and its token.                    *)
Known(i) ==
  LET e == parselist[i] IN
    /\ Stands(e, Stop(i - 1)) /\ e.pos >= First
    /\ Stop(i) = Stop(i - 1) + e.len
    /\ IsLiteral(e) \/ IsFill(e) \/ IsMatch(e)
    /\ Symbol(e.pos) \in Nat /\ Symbol(e.pos) < Alphabet(Adaptor)
    /\ IsCode(TokenOf(i))

(* Every edge of the parse stands where the one before it ends.            *)
LEMMA EdgesAreKnown ==
  ASSUME RealFiles, WInv, Finished, NEW i \in 1 .. Len(parselist)
  PROVE  Known(i)
<1>1. format \in DOMAIN Adaptors /\ data \in Inputs[format]
  BY DEF WInv, PInv
<1>2. numNodes \in Nat /\ numNodes = Len(data) - First
  BY <1>1, TheAdaptor DEF numNodes, nlen
<1>3. PICK e : e = parselist[i]
  OBVIOUS
<1>4. /\ parselist \in Seq(Edges) /\ Genuine(e) /\ e.pos = First + Stop(i - 1)
      /\ Stop(i) = Stop(i - 1) + e.len /\ Stop(i - 1) \in 0 .. numNodes /\ Stop(i) <= numNodes
  BY <1>3, WInvCovers DEF ParseCovers
<1>5. e \in Edges
  BY <1>3, <1>4
<1>6. e.len \in Nat \ {0} /\ e.pos \in Nat
  BY <1>5 DEF Edges
<1>7. data \in Seq(Nat) /\ First \in Nat
  BY <1>1, TheFormat
<1>8. PICK b \in Nat : b = Stop(i - 1)
  BY <1>4
<1>9. e.pos = First + b /\ First + b + e.len <= Len(data) /\ e.pos >= First
  BY <1>2, <1>4, <1>6, <1>7, <1>8
<1>10. Stands(e, b)
  BY <1>1, <1>5, <1>7, <1>9, TheFormat DEF Stands
<1>11. IsLiteral(e) \/ IsFill(e) \/ IsMatch(e)
  BY <1>1, <1>4, <1>5, TheFormat, KindsOfEdges
<1>12. e.pos + 1 \in 1 .. Len(data)
  BY <1>6, <1>7, <1>9
<1>13. Symbol(e.pos) \in Nat /\ Symbol(e.pos) < Alphabet(Adaptor)
  BY <1>1, <1>7, <1>12, TheFormat DEF Symbol
<1>14. IsCode(TokenOf(i))
  <2>1. PICK x \in Int : x = Symbol(e.pos)
    BY <1>13
  <2>2. Adaptor \in Formats /\ e \in EdgesIn(Adaptor)
    BY <1>1, <1>5, TheFormat
  <2>3. IsCode(Code(Adaptor, e, x))
    BY <2>2, CodesAreCodes
  <2>4. QED
    BY <1>3, <2>1, <2>3 DEF TokenOf
<1>15. QED
  BY <1>3, <1>4, <1>8, <1>9, <1>10, <1>11, <1>13, <1>14 DEF Known

-----------------------------------------------------------------------------
(* The invariant of the codec.  What c holds lies in s beyond the place p. *)
LiesAt(s, p, c) == \A k \in 1 .. Len(c) : s[p + k] = c[k]

Progress ==
  /\ edge \in 0 .. Len(parselist) /\ closed \in BOOLEAN /\ ended \in BOOLEAN
  /\ edge > 0 \/ closed => Finished
  /\ closed => edge = Len(parselist)
  /\ items \in Seq(Item) /\ ~lost

(* The tokens of the edges that are written lie one after the other, the   *)
(* i-th of them up to the mark i, and the terminator after the last.       *)
Laid(marks) ==
  /\ marks \in [0 .. edge -> Nat] /\ marks[0] = 0
  /\ \A i \in 1 .. edge :
       /\ marks[i] = marks[i - 1] + Len(TokenOf(i)) /\ marks[i] <= marks[edge]
       /\ LiesAt(items, marks[i - 1], TokenOf(i))
  /\ ~closed => Len(items) = marks[edge]
  /\ closed => /\ Len(items) = marks[edge] + Len(Terminator(Adaptor))
               /\ LiesAt(items, marks[edge], Terminator(Adaptor))

(* The decoder stands at a mark, having written what the tokens up to      *)
(* there stand for; at its end, all of the file.                           *)
Reads(marks) ==
  /\ ~closed => rpos = 0 /\ dst = << >> /\ ~ended
  /\ closed /\ ~ended =>
       \E j \in 0 .. edge : rpos = marks[j] /\ dst = Out(data, First, Stop(j))
  /\ ended => rpos = Len(items) /\ dst = Out(data, First, numNodes)

CInv == WInv /\ Progress /\ \E marks : Laid(marks) /\ Reads(marks)

(* The parser's part does not move while the file is written and read.     *)
LEMMA ParseStays ==
  ASSUME UNCHANGED vars
  PROVE  /\ Adaptor' = Adaptor /\ First' = First /\ data' = data /\ parselist' = parselist
         /\ numNodes' = numNodes /\ Finished' = Finished
         /\ \A i : Stop(i)' = Stop(i) /\ TokenOf(i)' = TokenOf(i)
<1>1. Adaptor' = Adaptor /\ data' = data /\ parselist' = parselist /\ node' = node /\ at' = at
  BY DEF vars, Adaptor
<1>2. First' = First /\ numNodes' = numNodes
  BY <1>1 DEF First, numNodes, nlen
<1>3. Finished' = Finished
  BY <1>1, <1>2 DEF Finished
<1>4. ASSUME NEW i PROVE Stop(i)' = Stop(i)
  BY <1>1, <1>2 DEF Stop, Dest
<1>5. ASSUME NEW i PROVE TokenOf(i)' = TokenOf(i)
  BY <1>1 DEF TokenOf, Symbol
<1>6. QED
  BY <1>1, <1>2, <1>3, <1>4, <1>5

(* It holds at first.                                                      *)
LEMMA InitCodes ==
  ASSUME CodecInit
  PROVE  CInv
<1>1. WInv
  BY InitWalks DEF CodecInit
<1>2. /\ edge = 0 /\ items = << >> /\ closed = FALSE /\ rpos = 0 /\ dst = << >>
      /\ lost = FALSE /\ ended = FALSE /\ parselist = << >>
  BY DEF CodecInit, Init
<1>3. Progress
  <2>1. << >> \in Seq(Item) /\ Len(<< >>) = 0 /\ 0 \in 0 .. 0
    OBVIOUS
  <2>2. edge \in 0 .. Len(parselist)
    BY <1>2, <2>1
  <2>3. ~closed /\ ~lost /\ closed \in BOOLEAN /\ ended \in BOOLEAN
    BY <1>2
  <2>4. ~(edge > 0)
    <3>1. edge = 0
      BY <1>2
    <3>2. QED
      BY <3>1
  <2>5. items \in Seq(Item)
    BY <1>2, <2>1
  <2>6. QED
    BY <2>2, <2>3, <2>4, <2>5 DEF Progress
<1> DEFINE m == [i \in 0 .. 0 |-> 0]
<1>4. m \in [0 .. 0 -> Nat] /\ m[0] = 0
  OBVIOUS
<1> HIDE DEF m
<1>5. Laid(m) /\ Reads(m)
  BY <1>2, <1>4 DEF Laid, Reads
<1>6. QED
  BY <1>1, <1>3, <1>5 DEF CInv

(* While the parser runs nothing is written.                               *)
LEMMA ParseCodes ==
  ASSUME CInv, Parse
  PROVE  CInv'
<1>1. WInv'
  BY StepWalks DEF CInv, Parse
<1>2. /\ edge' = edge /\ items' = items /\ closed' = closed /\ rpos' = rpos /\ dst' = dst
      /\ lost' = lost /\ ended' = ended
  BY DEF Parse, coding
<1>3. PICK marks : Laid(marks) /\ Reads(marks)
  BY DEF CInv
<1>4. edge = 0 /\ ~closed /\ closed \in BOOLEAN /\ ended \in BOOLEAN /\ items \in Seq(Item) /\ ~lost
  BY DEF CInv, Progress, Parse
<1>5. Len(parselist') \in Nat
  <2>1. PICK W : parselist' \in Seq(W)
    BY <1>1 DEF WInv, ChainInv
  <2>2. QED
    BY <2>1
<1>6. Progress'
  BY <1>2, <1>4, <1>5 DEF Progress
<1>7. marks \in [0 .. 0 -> Nat] /\ marks[0] = 0 /\ Len(items) = marks[0]
  BY <1>3, <1>4 DEF Laid
<1>8. Laid(marks)'
  BY <1>2, <1>4, <1>7 DEF Laid
<1>9. Reads(marks)'
  BY <1>2, <1>3, <1>4 DEF Reads
<1>10. QED
  BY <1>1, <1>6, <1>8, <1>9 DEF CInv

(* Nothing of the file is there before its first token.                    *)
LEMMA OutNothing ==
  ASSUME NEW D \in Seq(Nat), NEW lo \in Nat
  PROVE  Out(D, lo, 0) = << >>
<1>1. lo + 0 < lo + 1
  OBVIOUS
<1>2. QED
  BY <1>1 DEF Out

(* The terminator, where there is one.                                     *)
LEMMA TerminatorIsItems ==
  ASSUME RealFiles, format \in DOMAIN Adaptors, data \in Inputs[format]
  PROVE  /\ Terminator(Adaptor) \in Seq(Item)
         /\ ~Sized => Terminated(Adaptor) /\ Len(Terminator(Adaptor)) <= 5
         /\ Sized => /\ Terminator(Adaptor) = << >>
                     /\ Adaptor.NumDescBits = 8 /\ Adaptor.NeedEarlyDescriptor = FALSE
<1>1. Adaptor \in Formats
  BY TheFormat
<1>2. CASE Adaptor = KosinskiAdaptor
  <2>1. Terminator(Adaptor) = KosinskiEnd /\ ~Sized /\ Terminated(Adaptor)
    BY <1>2 DEF Terminator, Sized, Terminated, KosinskiAdaptor
  <2>2. KosinskiEnd \in Seq(Item) /\ Len(KosinskiEnd) = 5
    BY ItemsAreItems DEF KosinskiEnd
  <2>3. QED
    BY <2>1, <2>2
<1>3. CASE Adaptor = KosPlusAdaptor
  <2>1. Terminator(Adaptor) = KosPlusEnd /\ ~Sized /\ Terminated(Adaptor)
    BY <1>3 DEF Terminator, Sized, Terminated, KosPlusAdaptor
  <2>2. KosPlusEnd \in Seq(Item) /\ Len(KosPlusEnd) = 5
    BY ItemsAreItems DEF KosPlusEnd
  <2>3. QED
    BY <2>1, <2>2
<1>4. CASE Adaptor = Lzkn1Adaptor
  <2>1. Terminator(Adaptor) = Lzkn1End /\ ~Sized /\ Terminated(Adaptor)
    BY <1>4 DEF Terminator, Sized, Terminated, Lzkn1Adaptor
  <2>2. Lzkn1End \in Seq(Item) /\ Len(Lzkn1End) = 2
    BY ItemsAreItems DEF Lzkn1End
  <2>3. QED
    BY <2>1, <2>2
<1>5. CASE Adaptor = ComperAdaptor
  <2>1. Terminator(Adaptor) = ComperEnd /\ ~Sized /\ Terminated(Adaptor)
    BY <1>5 DEF Terminator, Sized, Terminated, ComperAdaptor
  <2>2. ComperEnd \in Seq(Item) /\ Len(ComperEnd) = 3
    BY ItemsAreItems DEF ComperEnd
  <2>3. QED
    BY <2>1, <2>2
<1>6. CASE Adaptor = ComperXAdaptor
  <2>1. Terminator(Adaptor) = ComperXEnd /\ ~Sized /\ Terminated(Adaptor)
    BY <1>6 DEF Terminator, Sized, Terminated, ComperXAdaptor, ComperAdaptor
  <2>2. ComperXEnd \in Seq(Item) /\ Len(ComperXEnd) = 3
    <3>1. -1 \in Int
      OBVIOUS
    <3>2. QED
      BY <3>1, ItemsAreItems DEF ComperXEnd
  <2>3. QED
    BY <2>1, <2>2
<1>7. CASE Adaptor = SaxmanAdaptor
  <2>1. Terminator(Adaptor) = << >> /\ Sized /\ Adaptor.NumDescBits = 8 /\ Adaptor.NeedEarlyDescriptor = FALSE
    BY <1>7 DEF Terminator, Sized, SaxmanAdaptor
  <2>2. QED
    BY <2>1
<1>8. CASE Adaptor = RocketAdaptor
  <2>1. Terminator(Adaptor) = << >> /\ Sized /\ Adaptor.NumDescBits = 8 /\ Adaptor.NeedEarlyDescriptor = FALSE
    BY <1>8 DEF Terminator, Sized, RocketAdaptor
  <2>2. QED
    BY <2>1
<1>9. QED
  BY <1>1, <1>2, <1>3, <1>4, <1>5, <1>6, <1>7, <1>8 DEF Formats

(* The terminator is put behind the tokens.                                *)
LEMMA WriteEndCodes ==
  ASSUME RealFiles, CInv, WriteEnd
  PROVE  CInv'
<1>1. WInv'
  BY StepWalks DEF CInv, WriteEnd
<1>2. /\ Adaptor' = Adaptor /\ First' = First /\ data' = data /\ parselist' = parselist
      /\ numNodes' = numNodes /\ Finished' = Finished
      /\ \A i : Stop(i)' = Stop(i) /\ TokenOf(i)' = TokenOf(i)
  BY ParseStays DEF WriteEnd
<1>3. PICK t : t = Terminator(Adaptor)
  OBVIOUS
<1>4. /\ Finished /\ edge = Len(parselist) /\ ~closed /\ closed'
      /\ items' = items \o t /\ edge' = edge /\ rpos' = rpos /\ dst' = dst
      /\ lost' = lost /\ ended' = ended
  BY <1>3 DEF WriteEnd
<1>5. t \in Seq(Item)
  BY <1>3, TerminatorIsItems DEF CInv, WInv, PInv
<1>6. PICK marks : Laid(marks) /\ Reads(marks)
  BY DEF CInv
<1>7. /\ edge \in 0 .. Len(parselist) /\ ended \in BOOLEAN /\ items \in Seq(Item) /\ ~lost
      /\ edge \in Nat
  BY DEF CInv, Progress
<1>8. PICK n \in Nat, m \in Nat : n = Len(items) /\ m = Len(t)
  BY <1>5, <1>7
<1>9. /\ items' \in Seq(Item) /\ Len(items') = n + m
      /\ \A i \in 1 .. n : items'[i] = items[i]
      /\ \A i \in 1 .. m : items'[n + i] = t[i]
  BY <1>4, <1>5, <1>7, <1>8, Joined
<1>10. Progress'
  BY <1>2, <1>4, <1>7, <1>9 DEF Progress
<1>11. marks \in [0 .. edge -> Nat] /\ marks[0] = 0 /\ marks[edge] = n
  BY <1>4, <1>6, <1>8 DEF Laid
<1>12. ASSUME NEW i \in 1 .. edge
       PROVE  /\ marks[i] = marks[i - 1] + Len(TokenOf(i)') /\ marks[i] <= marks[edge]
              /\ LiesAt(items', marks[i - 1], TokenOf(i)')
  <2>1. PICK c : c = TokenOf(i) /\ c = TokenOf(i)'
    BY <1>2
  <2>2. marks[i] = marks[i - 1] + Len(c) /\ marks[i] <= marks[edge] /\ LiesAt(items, marks[i - 1], c)
    BY <1>6, <2>1 DEF Laid
  <2>3. c \in Seq(Item)
    BY <1>4, <1>7, <2>1, EdgesAreKnown DEF CInv, Known, IsCode
  <2>4. PICK l \in Nat, p \in Nat : l = Len(c) /\ p = marks[i - 1]
    BY <1>7, <1>11, <2>3
  <2>5. LiesAt(items', p, c)
    <3>1. SUFFICES ASSUME NEW k \in 1 .. l PROVE items'[p + k] = c[k]
      BY <2>4 DEF LiesAt
    <3>2. p + k \in 1 .. n
      BY <1>11, <2>2, <2>4
    <3>3. items[p + k] = c[k]
      BY <2>2, <2>4 DEF LiesAt
    <3>4. QED
      BY <1>9, <3>2, <3>3
  <2>6. QED
    BY <2>1, <2>2, <2>4, <2>5
<1>13. LiesAt(items', marks[edge], t)
  BY <1>8, <1>9, <1>11 DEF LiesAt
<1>14. Laid(marks)'
  BY <1>2, <1>3, <1>4, <1>8, <1>9, <1>11, <1>12, <1>13 DEF Laid
<1>15. Reads(marks)'
  <2>1. rpos = 0 /\ dst = << >> /\ ~ended
    BY <1>4, <1>6 DEF Reads
  <2>2. Stop(0) = 0
    BY <1>4 DEF Stop, Finished
  <2>3. Out(data, First, 0) = << >>
    BY OutNothing, TheFormat DEF CInv, WInv, PInv
  <2>4. 0 \in 0 .. edge /\ rpos = marks[0] /\ dst = Out(data, First, Stop(0))
    BY <1>7, <1>11, <2>1, <2>2, <2>3
  <2>5. QED
    BY <1>2, <1>4, <2>1, <2>4 DEF Reads
<1>16. QED
  BY <1>1, <1>10, <1>14, <1>15 DEF CInv

-----------------------------------------------------------------------------
(* A token more.                                                           *)
LEMMA WriteEdgeCodes ==
  ASSUME RealFiles, CInv, WriteEdge
  PROVE  CInv'
<1>1. WInv'
  BY StepWalks DEF CInv, WriteEdge
<1>2. /\ Adaptor' = Adaptor /\ First' = First /\ data' = data /\ parselist' = parselist
      /\ numNodes' = numNodes /\ Finished' = Finished
      /\ \A i : Stop(i)' = Stop(i) /\ TokenOf(i)' = TokenOf(i)
  BY ParseStays DEF WriteEdge
<1>3. PICK t : t = TokenOf(edge + 1)
  OBVIOUS
<1>4. /\ Finished /\ edge < Len(parselist)
      /\ items' = items \o t /\ edge' = edge + 1 /\ closed' = closed /\ rpos' = rpos /\ dst' = dst
      /\ lost' = lost /\ ended' = ended
  BY <1>3 DEF WriteEdge, TokenOf
<1>5. /\ edge \in 0 .. Len(parselist) /\ ended \in BOOLEAN /\ closed \in BOOLEAN
      /\ items \in Seq(Item) /\ ~lost /\ edge \in Nat /\ Len(parselist) \in Nat
  <2>1. Len(parselist) \in Nat
    BY DEF CInv, WInv, ChainInv
  <2>2. QED
    BY <2>1 DEF CInv, Progress
<1>6. ~closed
  BY <1>4, <1>5 DEF CInv, Progress
<1>7. PICK marks : Laid(marks) /\ Reads(marks)
  BY DEF CInv
<1>8. \A i \in 1 .. Len(parselist) : TokenOf(i) \in Seq(Item)
  BY <1>4, EdgesAreKnown DEF CInv, Known, IsCode
<1>9. t \in Seq(Item)
  <2>1. edge + 1 \in 1 .. Len(parselist)
    BY <1>4, <1>5
  <2>2. QED
    BY <1>3, <1>8, <2>1
<1>10. PICK n \in Nat, m \in Nat : n = Len(items) /\ m = Len(t)
  BY <1>5, <1>9
<1>11. /\ items' \in Seq(Item) /\ Len(items') = n + m
       /\ \A i \in 1 .. n : items'[i] = items[i]
       /\ \A i \in 1 .. m : items'[n + i] = t[i]
  BY <1>4, <1>5, <1>9, <1>10, Joined
<1>12. Progress'
  <2>1. edge + 1 \in 0 .. Len(parselist)
    BY <1>4, <1>5
  <2>2. QED
    BY <1>2, <1>4, <1>5, <1>6, <1>11, <2>1 DEF Progress
<1>13. marks \in [0 .. edge -> Nat] /\ marks[0] = 0 /\ marks[edge] = n
  BY <1>6, <1>7, <1>10 DEF Laid
<1>14. PICK more : more = [i \in 0 .. edge + 1 |-> IF i <= edge THEN marks[i] ELSE n + m]
  OBVIOUS
<1>15. /\ more \in [0 .. edge + 1 -> Nat] /\ more[0] = 0 /\ more[edge + 1] = n + m
       /\ \A i \in 0 .. edge : more[i] = marks[i]
  <2>1. \A i \in 0 .. edge : more[i] = marks[i]
    BY <1>5, <1>14
  <2>2. more[edge + 1] = n + m
    BY <1>5, <1>14
  <2>3. \A i \in 0 .. edge + 1 : more[i] \in Nat
    <3>1. SUFFICES ASSUME NEW i \in 0 .. edge + 1 PROVE more[i] \in Nat
      OBVIOUS
    <3>2. CASE i \in 0 .. edge
      BY <1>13, <2>1, <3>2
    <3>3. CASE i = edge + 1
      BY <2>2, <3>3
    <3>4. QED
      BY <1>5, <3>2, <3>3
  <2>4. 0 \in 0 .. edge
    BY <1>5
  <2>5. QED
    BY <1>13, <1>14, <2>1, <2>2, <2>3, <2>4
<1>16. ASSUME NEW i \in 1 .. edge + 1
       PROVE  /\ more[i] = more[i - 1] + Len(TokenOf(i)') /\ more[i] <= n + m
              /\ LiesAt(items', more[i - 1], TokenOf(i)')
  <2>1. PICK c : c = TokenOf(i) /\ c = TokenOf(i)'
    BY <1>2
  <2>2. CASE i \in 1 .. edge
    <3>1. marks[i] = marks[i - 1] + Len(c) /\ marks[i] <= n /\ LiesAt(items, marks[i - 1], c)
      BY <1>7, <1>13, <2>1, <2>2 DEF Laid
    <3>2. c \in Seq(Item)
      <4>1. i \in 1 .. Len(parselist)
        BY <1>4, <1>5, <2>2
      <4>2. QED
        BY <1>8, <2>1, <4>1
    <3>3. PICK l \in Nat, p \in Nat : l = Len(c) /\ p = marks[i - 1]
      BY <1>5, <1>13, <2>2, <3>2
    <3>4. LiesAt(items', p, c)
      <4>1. SUFFICES ASSUME NEW k \in 1 .. l PROVE items'[p + k] = c[k]
        BY <3>3 DEF LiesAt
      <4>2. p + k \in 1 .. n
        BY <3>1, <3>3
      <4>3. items[p + k] = c[k]
        BY <3>1, <3>3 DEF LiesAt
      <4>4. QED
        BY <1>11, <4>2, <4>3
    <3>5. more[i] = marks[i] /\ more[i - 1] = marks[i - 1]
      BY <1>5, <1>15, <2>2
    <3>6. QED
      BY <2>1, <3>1, <3>3, <3>4, <3>5
  <2>3. CASE i = edge + 1
    <3>1. more[i] = n + m /\ more[i - 1] = n /\ c = t
      <4>1. i - 1 = edge /\ edge \in 0 .. edge
        BY <1>5, <2>3
      <4>2. QED
        BY <1>3, <1>13, <1>15, <2>1, <2>3, <4>1
    <3>2. LiesAt(items', n, t)
      BY <1>10, <1>11 DEF LiesAt
    <3>3. QED
      BY <1>10, <2>1, <3>1, <3>2
  <2>4. QED
    BY <1>5, <2>2, <2>3
<1>17. Laid(more)'
  BY <1>4, <1>6, <1>11, <1>15, <1>16 DEF Laid
<1>18. Reads(more)'
  BY <1>4, <1>6, <1>7 DEF Reads
<1>19. QED
  BY <1>1, <1>12, <1>17, <1>18 DEF CInv

-----------------------------------------------------------------------------
(* The decoder: it stands at the mark j.                                   *)
AtMark(marks, j) ==
  Laid(marks) /\ j \in 0 .. edge /\ rpos = marks[j] /\ dst = Out(data, First, Stop(j))

(* What lies ahead of it is the next token, or the terminator.             *)
LEMMA AheadIsLaid ==
  ASSUME items \in Seq(Item), NEW p \in Nat, NEW c \in Seq(Item), LiesAt(items, p, c),
         Len(c) <= 5, p + Len(c) <= Len(items)
  PROVE  SameAhead(Ahead(items, p), c, Len(c))
<1>1. SUFFICES ASSUME NEW k \in 1 .. Len(c) PROVE Ahead(items, p)[k] = c[k]
  BY DEF SameAhead
<1>2. k \in 1 .. 80 /\ p + k <= Len(items)
  OBVIOUS
<1>3. Ahead(items, p)[k] = items[p + k]
  BY <1>2, AheadIs
<1>4. QED
  BY <1>3 DEF LiesAt

(* At the last mark the terminator, at any other the next token.           *)
LEMMA MarkIsKnown ==
  ASSUME RealFiles, CInv, closed, NEW marks, NEW j, AtMark(marks, j)
  PROVE  /\ Finished /\ edge \in Nat /\ j \in Nat /\ edge = Len(parselist)
         /\ marks[j] \in Nat /\ marks[edge] \in Nat /\ marks[edge] <= Len(items) /\ Len(items) \in Nat
         /\ j = edge => /\ Stop(j) = numNodes
                        /\ Len(items) = marks[j] + Len(Terminator(Adaptor))
                        /\ SameAhead(Ahead(items, rpos), Terminator(Adaptor), Len(Terminator(Adaptor)))
         /\ j < edge => /\ Known(j + 1)
                        /\ marks[j + 1] = marks[j] + Len(TokenOf(j + 1)) /\ marks[j + 1] <= Len(items)
                        /\ LiesAt(items, rpos, TokenOf(j + 1))
                        /\ SameAhead(Ahead(items, rpos), TokenOf(j + 1), Len(TokenOf(j + 1)))
<1>1. Finished /\ edge = Len(parselist) /\ edge \in Nat /\ j \in Nat /\ items \in Seq(Item)
  BY DEF CInv, Progress, AtMark
<1>2. marks \in [0 .. edge -> Nat] /\ rpos = marks[j] /\ j \in 0 .. edge
  BY DEF AtMark, Laid
<1>3. PICK p \in Nat, q \in Nat, n \in Nat : p = marks[j] /\ q = marks[edge] /\ n = Len(items)
  BY <1>1, <1>2
<1>4. /\ Terminator(Adaptor) \in Seq(Item) /\ Len(Terminator(Adaptor)) <= 5
  <2>1. format \in DOMAIN Adaptors /\ data \in Inputs[format]
    BY DEF CInv, WInv, PInv
  <2>2. CASE Sized
    <3>1. Terminator(Adaptor) = << >>
      BY <2>1, <2>2, TerminatorIsItems
    <3>2. << >> \in Seq(Item) /\ Len(<< >>) <= 5
      OBVIOUS
    <3>3. QED
      BY <3>1, <3>2
  <2>3. CASE ~Sized
    BY <2>1, <2>3, TerminatorIsItems
  <2>4. QED
    BY <2>2, <2>3
<1>5. n = q + Len(Terminator(Adaptor)) /\ LiesAt(items, q, Terminator(Adaptor))
  BY <1>3 DEF AtMark, Laid
<1>6. q <= n
  BY <1>4, <1>5
<1>7. ASSUME j = edge
      PROVE  /\ Stop(j) = numNodes
             /\ SameAhead(Ahead(items, rpos), Terminator(Adaptor), Len(Terminator(Adaptor)))
  <2>1. Stop(j) = numNodes
    BY <1>1, <1>7, WInvCovers DEF CInv, ParseCovers
  <2>2. p = q /\ rpos = q
    BY <1>2, <1>3, <1>7
  <2>3. SameAhead(Ahead(items, q), Terminator(Adaptor), Len(Terminator(Adaptor)))
    BY <1>1, <1>3, <1>4, <1>5, AheadIsLaid
  <2>4. QED
    BY <2>1, <2>2, <2>3
<1>8. ASSUME j < edge
      PROVE  /\ Known(j + 1)
             /\ marks[j + 1] = marks[j] + Len(TokenOf(j + 1)) /\ marks[j + 1] <= Len(items)
             /\ LiesAt(items, rpos, TokenOf(j + 1))
             /\ SameAhead(Ahead(items, rpos), TokenOf(j + 1), Len(TokenOf(j + 1)))
  <2>1. PICK i \in 1 .. edge : i = j + 1 /\ i - 1 = j
    BY <1>1, <1>8
  <2>2. Known(i)
    BY <1>1, EdgesAreKnown DEF CInv
  <2>3. PICK c : c = TokenOf(i)
    OBVIOUS
  <2>4. c \in Seq(Item) /\ Len(c) <= 5 /\ Len(c) \in Nat
    <3>1. c \in Seq(Item) /\ Len(c) \in 2 .. 5
      BY <2>2, <2>3 DEF Known, IsCode
    <3>2. PICK l \in 2 .. 5 : l = Len(c)
      BY <3>1
    <3>3. l <= 5 /\ l \in Nat
      OBVIOUS
    <3>4. Len(c) <= 5 /\ Len(c) \in Nat
      BY <3>2, <3>3
    <3>5. QED
      BY <3>1, <3>4
  <2>5. marks[i] = p + Len(c) /\ marks[i] <= q /\ LiesAt(items, p, c)
    BY <1>3, <2>1, <2>3 DEF AtMark, Laid
  <2>6. p + Len(c) <= Len(items)
    BY <1>3, <1>6, <2>4, <2>5
  <2>7. SameAhead(Ahead(items, p), c, Len(c))
    BY <1>1, <2>4, <2>5, <2>6, AheadIsLaid
  <2>8. QED
    BY <1>2, <1>3, <2>1, <2>2, <2>3, <2>5, <2>6, <2>7
<1>9. QED
  BY <1>1, <1>2, <1>3, <1>4, <1>5, <1>6, <1>7, <1>8

-----------------------------------------------------------------------------
(* One round of the decoder's loop takes a token and writes what it stands *)
(* for.                                                                    *)
LEMMA TokenIsTaken ==
  ASSUME RealFiles, CInv, closed, NEW marks, NEW j, AtMark(marks, j), j < edge,
         NEW got, got = Gets(Adaptor, Ahead(items, rpos), Len(dst))
  PROVE  /\ ~got.ends /\ Len(got.asked) = Len(TokenOf(j + 1))
         /\ \A i \in DOMAIN got.asked : got.asked[i] = Ahead(items, rpos)[i].kind
         /\ CopyTo(dst \o got.lits, got.from, got.len) = Out(data, First, Stop(j + 1))
<1>1. Known(j + 1) /\ SameAhead(Ahead(items, rpos), TokenOf(j + 1), Len(TokenOf(j + 1))) /\ j \in Nat
  BY MarkIsKnown
<1>2. PICK e, c, s, x, b : /\ e = parselist[j + 1] /\ c = TokenOf(j + 1) /\ s = Ahead(items, rpos)
                           /\ x = Symbol(e.pos) /\ b = Stop(j)
  OBVIOUS
<1>3. /\ Stands(e, b) /\ e.pos >= First /\ Stop(j + 1) = b + e.len
      /\ IsLiteral(e) \/ IsFill(e) \/ IsMatch(e)
      /\ x \in Nat /\ x < Alphabet(Adaptor) /\ IsCode(c)
  <2>1. (j + 1) - 1 = j
    BY <1>1
  <2>2. QED
    BY <1>1, <1>2, <2>1 DEF Known
<1>4. c = Code(Adaptor, e, x) /\ SameAhead(s, c, Len(c))
  BY <1>1, <1>2 DEF TokenOf
<1>5. Adaptor \in Formats /\ e \in EdgesIn(Adaptor)
  BY <1>3, TheFormat DEF CInv, WInv, PInv, Stands
<1>6. /\ data \in Seq(Nat) /\ First \in Nat /\ b \in Nat /\ e.pos = First + b /\ First + b + e.len <= Len(data)
      /\ e.len \in Nat
  BY <1>3 DEF Stands, Edges
<1>7. First + b <= Len(data) /\ e.pos - First = b
  BY <1>6
<1>8. dst = Out(data, First, b) /\ Len(dst) = b
  <2>1. dst = Out(data, First, b)
    BY <1>2 DEF AtMark
  <2>2. Len(Out(data, First, b)) = b
    BY <1>6, <1>7, OutIs
  <2>3. QED
    BY <2>1, <2>2
<1>9. got = Gets(Adaptor, s, e.pos - Adaptor.FirstMatchPosition)
  BY <1>2, <1>7, <1>8 DEF First
<1>10. IsRead(Adaptor, got, e, x, c)
  <2>1. \/ e.type = "symbolwise"
        \/ e.type = "zerofill" /\ Adaptor = SaxmanAdaptor /\ e.len \in 3 .. 18 /\ e.pos < 4095
        \/ e.type \notin {"symbolwise", "zerofill"} /\ InWindow(Adaptor, e)
    BY <1>3 DEF IsLiteral, IsFill, IsMatch
  <2>2. e.pos >= Adaptor.FirstMatchPosition
    BY <1>3 DEF First
  <2>3. IsRead(Adaptor, Gets(Adaptor, s, e.pos - Adaptor.FirstMatchPosition), e, x, c)
    BY <1>3, <1>4, <1>5, <2>1, <2>2, TokensAreRead
  <2>4. QED
    BY <1>9, <2>3
<1>11. Writes(e, b, got)
  BY <1>2, <1>3, <1>10, LiteralWrites, FillWrites, MatchWrites
<1>12. CopyTo(dst \o got.lits, got.from, got.len) = Out(data, First, Stop(j + 1))
  BY <1>3, <1>8, <1>11 DEF Writes, OutAnd
<1>13. got.asked = Kinds(c) /\ ~got.ends /\ c \in Seq(Item)
  BY <1>3, <1>10 DEF IsRead, IsCode
<1>14. /\ Len(got.asked) = Len(c) /\ DOMAIN got.asked = 1 .. Len(c)
       /\ \A i \in 1 .. Len(c) : got.asked[i] = c[i].kind
  <2>1. /\ Kinds(c) \in Seq({"bit", "byte"}) /\ Len(Kinds(c)) = Len(c)
        /\ \A k \in 1 .. Len(c) : Kinds(c)[k] = c[k].kind
    BY <1>13, KindsOf
  <2>2. DOMAIN Kinds(c) = 1 .. Len(Kinds(c))
    BY <2>1
  <2>3. QED
    BY <1>13, <2>1, <2>2
<1>15. \A i \in 1 .. Len(c) : s[i] = c[i]
  BY <1>4 DEF SameAhead
<1>16. QED
  BY <1>2, <1>12, <1>13, <1>14, <1>15

(* The terminator ends the loop, and nothing is left behind it.            *)
LEMMA TerminatorIsTaken ==
  ASSUME RealFiles, CInv, closed, NEW marks, AtMark(marks, edge), ~Sized,
         NEW got, got = Gets(Adaptor, Ahead(items, rpos), Len(dst))
  PROVE  /\ got.ends /\ Len(got.asked) = Len(Terminator(Adaptor))
         /\ \A i \in DOMAIN got.asked : got.asked[i] = Ahead(items, rpos)[i].kind
         /\ CopyTo(dst \o got.lits, got.from, got.len) = dst
<1>1. format \in DOMAIN Adaptors /\ data \in Inputs[format]
  BY DEF CInv, WInv, PInv
<1>2. PICK c, s : c = Terminator(Adaptor) /\ s = Ahead(items, rpos)
  OBVIOUS
<1>3. SameAhead(s, c, Len(c))
  BY <1>2, MarkIsKnown DEF AtMark
<1>4. c \in Seq(Item) /\ Terminated(Adaptor) /\ Adaptor \in Formats
  BY <1>1, <1>2, TerminatorIsItems, TheFormat
<1>5. got = End(Kinds(c))
  BY <1>2, <1>3, <1>4, TerminatorIsRead
<1>6. got.ends = TRUE /\ got.asked = Kinds(c) /\ got.lits = << >> /\ got.len = 0
  BY <1>5 DEF End, Got
<1>7. /\ Len(got.asked) = Len(c) /\ DOMAIN got.asked = 1 .. Len(c)
      /\ \A i \in 1 .. Len(c) : got.asked[i] = c[i].kind
  <2>1. /\ Kinds(c) \in Seq({"bit", "byte"}) /\ Len(Kinds(c)) = Len(c)
        /\ \A k \in 1 .. Len(c) : Kinds(c)[k] = c[k].kind
    BY <1>4, KindsOf
  <2>2. DOMAIN Kinds(c) = 1 .. Len(Kinds(c))
    BY <2>1
  <2>3. QED
    BY <1>6, <2>1, <2>2
<1>8. \A i \in 1 .. Len(c) : s[i] = c[i]
  BY <1>3 DEF SameAhead
<1>9. CopyTo(dst \o got.lits, got.from, got.len) = dst
  <2>1. Stop(edge) = numNodes /\ numNodes \in Nat /\ First \in Nat /\ data \in Seq(Nat)
        /\ numNodes = Len(data) - First
    BY <1>1, MarkIsKnown, TheAdaptor DEF AtMark, numNodes, nlen
  <2>2. First + numNodes <= Len(data)
    BY <2>1
  <2>3. dst \in Seq(Nat)
    BY <2>1, <2>2, OutIs DEF AtMark
  <2>4. dst \o << >> = dst
    BY <2>3
  <2>5. QED
    BY <1>6, <2>4, CopyNothing
<1>10. QED
  BY <1>2, <1>6, <1>7, <1>8, <1>9

(* Where the size tells, there is more to read as long as there are tokens.*)
LEMMA MoreToRead ==
  ASSUME RealFiles, CInv, closed, NEW marks, NEW j, AtMark(marks, j)
  PROVE  /\ j < edge => More
         /\ j = edge /\ Sized => ~More
<1>1. format \in DOMAIN Adaptors /\ data \in Inputs[format]
  BY DEF CInv, WInv, PInv
<1>2. /\ edge \in Nat /\ j \in Nat /\ rpos \in Nat /\ Len(items) \in Nat /\ rpos = marks[j]
  BY MarkIsKnown DEF AtMark
<1>3. ASSUME j < edge, Sized PROVE Streamed(rpos) < Streamed(Len(items))
  <2>1. Adaptor.NumDescBits = 8 /\ Adaptor.NeedEarlyDescriptor = FALSE
    BY <1>1, <1>3, TerminatorIsItems
  <2>2. PICK c : c = TokenOf(j + 1)
    OBVIOUS
  <2>3. /\ IsCode(c) /\ LiesAt(items, rpos, c) /\ rpos + Len(c) <= Len(items)
    BY <1>2, <1>3, <2>2, MarkIsKnown DEF Known
  <2>4. PICK k \in 2 .. Len(c) : c[k].kind = "byte"
    BY <2>3 DEF IsCode
  <2>5. PICK l \in 2 .. 5 : l = Len(c)
    BY <2>3 DEF IsCode
  <2>6. PICK m \in Nat, n \in Nat : m = rpos /\ n = Len(items)
    BY <1>2
  <2>7. PICK q \in m + 1 .. n : q = m + k
    <3>1. m + k \in m + 1 .. n
      BY <2>3, <2>4, <2>5, <2>6
    <3>2. QED
      BY <3>1
  <2>8. items[q].kind # "bit"
    <3>1. items[rpos + k] = c[k]
      BY <2>3, <2>4, <2>5 DEF LiesAt
    <3>2. QED
      BY <2>4, <2>6, <2>7, <3>1
  <2>9. m < n
    BY <2>7
  <2>10. Streamed(m) < Streamed(n)
    BY <2>1, <2>8, <2>9, StreamedGrows
  <2>11. QED
    BY <2>6, <2>10
<1>4. ASSUME j = edge, Sized PROVE ~(Streamed(rpos) < Streamed(Len(items)))
  <2>1. Len(items) = rpos + Len(Terminator(Adaptor)) /\ Terminator(Adaptor) = << >>
    BY <1>1, <1>2, <1>4, MarkIsKnown, TerminatorIsItems
  <2>2. Len(items) = rpos
    <3>1. Len(<< >>) = 0
      OBVIOUS
    <3>2. QED
      BY <1>2, <2>1, <3>1
  <2>3. Adaptor.NumDescBits = 8 /\ Adaptor.NeedEarlyDescriptor = FALSE
    BY <1>1, <1>4, TerminatorIsItems
  <2>4. Streamed(rpos) \in Int
    BY <1>2, <2>3, StreamedIsInt
  <2>5. PICK z \in Int : z = Streamed(rpos)
    BY <2>4
  <2>6. ~(z < z)
    OBVIOUS
  <2>7. QED
    BY <2>2, <2>5, <2>6
<1>5. QED
  BY <1>3, <1>4 DEF More

-----------------------------------------------------------------------------
(* From one mark to the next, or over the end.                             *)
LEMMA ReadTokenCodes ==
  ASSUME RealFiles, CInv, ReadToken
  PROVE  CInv'
<1>1. WInv'
  BY StepWalks DEF CInv, ReadToken
<1>2. /\ Adaptor' = Adaptor /\ First' = First /\ data' = data /\ parselist' = parselist
      /\ numNodes' = numNodes /\ Finished' = Finished
      /\ \A i : Stop(i)' = Stop(i) /\ TokenOf(i)' = TokenOf(i)
  BY ParseStays DEF ReadToken
<1>3. PICK got : got = Gets(Adaptor, Ahead(items, rpos), Len(dst))
  OBVIOUS
<1>4. /\ closed /\ ~ended /\ More
      /\ rpos' = rpos + Len(got.asked)
      /\ lost' = (lost \/ \E i \in DOMAIN got.asked : got.asked[i] # Ahead(items, rpos)[i].kind)
      /\ dst' = CopyTo(dst \o got.lits, got.from, got.len)
      /\ ended' = (got.ends \/ rpos' > Len(items))
      /\ edge' = edge /\ items' = items /\ closed' = closed
  BY <1>3 DEF ReadToken
<1>5. PICK marks : Laid(marks) /\ Reads(marks)
  BY DEF CInv
<1>6. PICK j \in 0 .. edge : rpos = marks[j] /\ dst = Out(data, First, Stop(j))
  BY <1>4, <1>5 DEF Reads
<1>7. AtMark(marks, j)
  BY <1>5, <1>6 DEF AtMark
<1>8. Laid(marks)'
  BY <1>2, <1>4, <1>5 DEF Laid
<1>9. /\ edge \in Nat /\ j \in Nat /\ edge = Len(parselist) /\ marks[j] \in Nat /\ Len(items) \in Nat
      /\ Finished
  BY <1>4, <1>7, MarkIsKnown
<1>10. \A i \in DOMAIN got.asked : got.asked[i] = Ahead(items, rpos)[i].kind
  <2>1. CASE j < edge
    BY <1>3, <1>4, <1>7, <2>1, TokenIsTaken
  <2>2. CASE j = edge
    <3>1. ~Sized
      BY <1>4, <1>7, <2>2, MoreToRead
    <3>2. QED
      BY <1>3, <1>4, <1>7, <2>2, <3>1, TerminatorIsTaken
  <2>3. QED
    BY <1>6, <1>9, <2>1, <2>2
<1>11. ~lost'
  BY <1>4, <1>10 DEF CInv, Progress
<1>12. ended' \in BOOLEAN
  BY <1>4
<1>13. Progress'
  BY <1>2, <1>4, <1>9, <1>11, <1>12 DEF CInv, Progress
<1>14. CASE j < edge
  <2>1. /\ ~got.ends /\ Len(got.asked) = Len(TokenOf(j + 1))
        /\ dst' = Out(data, First, Stop(j + 1))
    BY <1>3, <1>4, <1>7, <1>14, TokenIsTaken
  <2>2. marks[j + 1] = marks[j] + Len(TokenOf(j + 1)) /\ marks[j + 1] <= Len(items)
    BY <1>4, <1>7, <1>14, MarkIsKnown
  <2>3. rpos' = marks[j + 1]
    BY <1>4, <1>6, <2>1, <2>2
  <2>4. j + 1 \in 0 .. edge /\ marks[j + 1] \in Nat
    <3>1. j + 1 \in 0 .. edge
      BY <1>9, <1>14
    <3>2. QED
      BY <1>5, <3>1 DEF Laid
  <2>5. ~(rpos' > Len(items))
    BY <1>9, <2>2, <2>3, <2>4
  <2>6. ~ended'
    BY <1>4, <2>1, <2>5
  <2>7. Reads(marks)'
    BY <1>2, <1>4, <2>1, <2>3, <2>4, <2>6 DEF Reads
  <2>8. QED
    BY <1>1, <1>8, <1>13, <2>7 DEF CInv
<1>15. CASE j = edge
  <2>1. ~Sized
    BY <1>4, <1>7, <1>15, MoreToRead
  <2>2. /\ got.ends /\ Len(got.asked) = Len(Terminator(Adaptor)) /\ dst' = dst
    BY <1>3, <1>4, <1>7, <1>15, <2>1, TerminatorIsTaken
  <2>3. Stop(j) = numNodes /\ Len(items) = marks[j] + Len(Terminator(Adaptor))
    BY <1>4, <1>7, <1>15, MarkIsKnown
  <2>4. rpos' = Len(items) /\ dst' = Out(data, First, numNodes) /\ ended'
    BY <1>4, <1>6, <2>2, <2>3
  <2>5. Reads(marks)'
    BY <1>2, <1>4, <2>4 DEF Reads
  <2>6. QED
    BY <1>1, <1>8, <1>13, <2>5 DEF CInv
<1>16. QED
  BY <1>6, <1>9, <1>14, <1>15

(* Where the size says so, over the end.                                   *)
LEMMA ReadEndCodes ==
  ASSUME RealFiles, CInv, ReadEnd
  PROVE  CInv'
<1>1. WInv'
  BY StepWalks DEF CInv, ReadEnd
<1>2. /\ Adaptor' = Adaptor /\ First' = First /\ data' = data /\ parselist' = parselist
      /\ numNodes' = numNodes /\ Finished' = Finished
      /\ \A i : Stop(i)' = Stop(i) /\ TokenOf(i)' = TokenOf(i)
  BY ParseStays DEF ReadEnd
<1>3. /\ closed /\ ~ended /\ ~More /\ ended' = TRUE
      /\ edge' = edge /\ items' = items /\ closed' = closed /\ rpos' = rpos /\ dst' = dst /\ lost' = lost
  BY DEF ReadEnd
<1>4. PICK marks : Laid(marks) /\ Reads(marks)
  BY DEF CInv
<1>5. PICK j \in 0 .. edge : rpos = marks[j] /\ dst = Out(data, First, Stop(j))
  BY <1>3, <1>4 DEF Reads
<1>6. AtMark(marks, j)
  BY <1>4, <1>5 DEF AtMark
<1>7. Laid(marks)'
  BY <1>2, <1>3, <1>4 DEF Laid
<1>8. /\ edge \in Nat /\ j \in Nat /\ edge = Len(parselist) /\ marks[j] \in Nat /\ Len(items) \in Nat
      /\ Finished
  BY <1>3, <1>6, MarkIsKnown
<1>9. j = edge /\ Sized
  <2>1. ~(j < edge)
    BY <1>3, <1>6, MoreToRead
  <2>2. j = edge
    BY <1>5, <1>8, <2>1
  <2>3. QED
    BY <1>3, <2>2 DEF More
<1>10. Stop(j) = numNodes /\ Len(items) = rpos
  <2>1. Stop(j) = numNodes /\ Len(items) = marks[j] + Len(Terminator(Adaptor))
    BY <1>3, <1>6, <1>9, MarkIsKnown
  <2>2. Terminator(Adaptor) = << >>
    BY <1>9, TerminatorIsItems DEF CInv, WInv, PInv
  <2>3. Len(<< >>) = 0
    OBVIOUS
  <2>4. QED
    BY <1>5, <1>8, <2>1, <2>2, <2>3
<1>11. Progress'
  BY <1>2, <1>3, <1>8 DEF CInv, Progress
<1>12. Reads(marks)'
  BY <1>2, <1>3, <1>5, <1>10 DEF Reads
<1>13. QED
  BY <1>1, <1>7, <1>11, <1>12 DEF CInv

(* And if nothing happens.                                                 *)
LEMMA StutteringCodes ==
  ASSUME CInv, UNCHANGED <<vars, coding>>
  PROVE  CInv'
<1>1. WInv'
  BY StepWalks DEF CInv
<1>2. /\ Adaptor' = Adaptor /\ First' = First /\ data' = data /\ parselist' = parselist
      /\ numNodes' = numNodes /\ Finished' = Finished
      /\ \A i : Stop(i)' = Stop(i) /\ TokenOf(i)' = TokenOf(i)
  BY ParseStays
<1>3. /\ edge' = edge /\ items' = items /\ closed' = closed /\ rpos' = rpos /\ dst' = dst
      /\ lost' = lost /\ ended' = ended
  BY DEF coding
<1>4. PICK marks : Laid(marks) /\ Reads(marks)
  BY DEF CInv
<1>5. Progress'
  BY <1>2, <1>3 DEF CInv, Progress
<1>6. Laid(marks)'
  BY <1>2, <1>3, <1>4 DEF Laid
<1>7. Reads(marks)'
  BY <1>2, <1>3, <1>4 DEF Reads
<1>8. QED
  BY <1>1, <1>5, <1>6, <1>7 DEF CInv

(* Every state of the codec satisfies the invariant.                       *)
THEOREM CodecInvariant == ASSUME RealFiles PROVE CodecSpec => []CInv
<1>1. CodecInit => CInv
  BY InitCodes
<1>2. CInv /\ [CodecNext]_<<vars, coding>> => CInv'
  BY ParseCodes, WriteEdgeCodes, WriteEndCodes, ReadTokenCodes, ReadEndCodes, StutteringCodes DEF CodecNext
<1>3. QED
  BY <1>1, <1>2, PTL DEF CodecSpec

(* What decode writes is the file, less the blanks that rocket::encode put *)
(* before it: for each of the seven formats as it is and every file its    *)
(* parser can number, through every match, overlap, fill and wrap.         *)
THEOREM DecoderGivesBackTheFile == ASSUME RealFiles PROVE CodecSpec => []DecodesToFile
<1>1. CInv => DecodesToFile
  <2>1. SUFFICES ASSUME CInv, ended PROVE dst = SubSeq(data, First + 1, nlen)
    BY DEF DecodesToFile
  <2>2. dst = Out(data, First, numNodes)
    BY <2>1 DEF CInv, Reads
  <2>3. First + numNodes = nlen
    BY <2>1, TheAdaptor DEF CInv, WInv, PInv, numNodes
  <2>4. QED
    BY <2>2, <2>3 DEF Out
<1>2. QED
  BY <1>1, CodecInvariant, PTL

(* The decoder asks for a bit where a bit was written and for a byte where *)
(* a byte was, and has taken all there is when its loop is over.           *)
THEOREM DecoderStaysInStep == ASSUME RealFiles PROVE CodecSpec => []StaysInStep
<1>1. CInv => StaysInStep
  BY DEF CInv, Progress, Reads, StaysInStep
<1>2. QED
  BY <1>1, CodecInvariant, PTL

-----------------------------------------------------------------------------
(* The size of the file.  How many of the items of a token are bits.       *)
BitAt(c, k) == IF k <= Len(c) /\ c[k].kind = "bit" THEN 1 ELSE 0
BitsOf(c) == BitAt(c, 1) + BitAt(c, 2) + BitAt(c, 3) + BitAt(c, 4) + BitAt(c, 5)

(* A token of b bits and y bytes.                                          *)
Tally(c, b, y) == BitsOf(c) = b /\ Len(c) = b + y

(* It costs what it takes: descriptor bits its bits, all its weight those  *)
(* and eight for each of its bytes.                                        *)
Pays(A, e, c) ==
  /\ BitsOf(c) = A.codes.desc[e.type]
  /\ BitsOf(c) + 8 * (Len(c) - BitsOf(c))
       = A.codes.desc[e.type] + A.codes.param[e.type] + 8 * A.codes.unit[e.type] * e.len

(* None of the formats charges by the length.                              *)
LEMMA TallyPays ==
  ASSUME NEW A, NEW e, e.len \in Nat, NEW c, NEW b \in Nat, NEW y \in Nat, Tally(c, b, y),
         A.codes.desc[e.type] = b, A.codes.param[e.type] = 8 * y, A.codes.unit[e.type] = 0
  PROVE  Pays(A, e, c)
<1>1. 8 * 0 * e.len = 0
  OBVIOUS
<1>2. 8 * A.codes.unit[e.type] * e.len = 0
  BY <1>1
<1>3. BitsOf(c) = b /\ Len(c) - BitsOf(c) = y
  BY DEF Tally
<1>4. QED
  BY <1>2, <1>3 DEF Pays

(* The kinds of what is put into a token.                                  *)
LEMMA ItemKinds == \A v : Bit(v).kind = "bit" /\ Byte(v).kind = "byte"
BY DEF Bit, Byte

(* The tokens there are, by their length.                                  *)
LEMMA TallyOfTwo ==
  ASSUME NEW p, NEW q, p.kind = "bit", q.kind = "byte"
  PROVE  Tally(<< p, q >>, 1, 1)
BY DEF Tally, BitsOf, BitAt

(* Of three.                                                               *)
LEMMA TallyOfThree ==
  ASSUME NEW p, NEW q, NEW r, p.kind = "bit", q.kind = "byte", r.kind = "byte"
  PROVE  Tally(<< p, q, r >>, 1, 2)
BY DEF Tally, BitsOf, BitAt

(* Of four.                                                                *)
LEMMA TallyOfFour ==
  ASSUME NEW p, NEW q, NEW r, NEW s, p.kind = "bit", q.kind = "bit", r.kind = "byte", s.kind = "byte"
  PROVE  Tally(<< p, q, r, s >>, 2, 2)
BY DEF Tally, BitsOf, BitAt

(* Of five: one byte among the last three, or three.                       *)
LEMMA TallyOfFive ==
  ASSUME NEW p, NEW q, NEW r, NEW s, NEW t, p.kind = "bit", q.kind = "bit"
  PROVE  /\ r.kind = "bit" /\ s.kind = "bit" /\ t.kind = "byte" => Tally(<< p, q, r, s, t >>, 4, 1)
         /\ r.kind = "byte" /\ s.kind = "bit" /\ t.kind = "bit" => Tally(<< p, q, r, s, t >>, 4, 1)
         /\ r.kind = "byte" /\ s.kind = "byte" /\ t.kind = "byte" => Tally(<< p, q, r, s, t >>, 2, 3)
BY DEF Tally, BitsOf, BitAt

(* Each token of Kosinski costs what it takes.                             *)
LEMMA KosinskiPays ==
  ASSUME NEW e \in EdgesIn(KosinskiAdaptor), NEW x \in Int
  PROVE  Pays(KosinskiAdaptor, e, Code(KosinskiAdaptor, e, x))
<1>1. Code(KosinskiAdaptor, e, x) = KosinskiCode(KosinskiAdaptor, e, x) /\ e.len \in Nat
  BY DEF Code, EdgesIn, KosinskiAdaptor
<1>2. PICK c : c = KosinskiCode(KosinskiAdaptor, e, x)
  OBVIOUS
<1>3. CASE e.type = "symbolwise"
  <2>1. c = << Bit(1), Byte(x) >>
    BY <1>2, <1>3 DEF KosinskiCode, KosinskiAdaptor, ShortMax, Window
  <2>2. Tally(c, 1, 1)
    BY <2>1, ItemKinds, TallyOfTwo
  <2>3. KosinskiAdaptor.codes.desc[e.type] = 1 /\ KosinskiAdaptor.codes.param[e.type] = 8
        /\ KosinskiAdaptor.codes.unit[e.type] = 0
    BY <1>3 DEF KosinskiAdaptor, KosinskiCodes
  <2>4. QED
    BY <1>1, <1>2, <2>2, <2>3, TallyPays
<1>4. CASE e.type = "dictionary_inline"
  <2>1. c = << Bit(0), Bit(0), Bit(((e.len - 2) \div 2) % 2), Bit((e.len - 2) % 2), Byte(256 - e.dist) >>
    BY <1>2, <1>4 DEF KosinskiCode, KosinskiAdaptor, ShortMax, Window
  <2>2. Tally(c, 4, 1)
    BY <2>1, ItemKinds, TallyOfFive
  <2>3. KosinskiAdaptor.codes.desc[e.type] = 4 /\ KosinskiAdaptor.codes.param[e.type] = 8
        /\ KosinskiAdaptor.codes.unit[e.type] = 0
    BY <1>4 DEF KosinskiAdaptor, KosinskiCodes
  <2>4. QED
    BY <1>1, <1>2, <2>2, <2>3, TallyPays
<1>5. CASE e.type = "dictionary_short"
  <2>1. c = << Bit(0), Bit(1), Byte((8192 - e.dist) % 256), Byte(8 * (((8192 - e.dist) \div 256) % 32) + (e.len - 2)) >>
    BY <1>2, <1>5 DEF KosinskiCode, KosinskiAdaptor, ShortMax, Window
  <2>2. Tally(c, 2, 2)
    BY <2>1, ItemKinds, TallyOfFour
  <2>3. KosinskiAdaptor.codes.desc[e.type] = 2 /\ KosinskiAdaptor.codes.param[e.type] = 16
        /\ KosinskiAdaptor.codes.unit[e.type] = 0
    BY <1>5 DEF KosinskiAdaptor, KosinskiCodes
  <2>4. QED
    BY <1>1, <1>2, <2>2, <2>3, TallyPays
<1>6. CASE e.type = "dictionary_long"
  <2>1. c = << Bit(0), Bit(1), Byte((8192 - e.dist) % 256), Byte(8 * (((8192 - e.dist) \div 256) % 32)), Byte(e.len - 1) >>
    BY <1>2, <1>6 DEF KosinskiCode, KosinskiAdaptor, ShortMax, Window
  <2>2. Tally(c, 2, 3)
    BY <2>1, ItemKinds, TallyOfFive
  <2>3. KosinskiAdaptor.codes.desc[e.type] = 2 /\ KosinskiAdaptor.codes.param[e.type] = 24
        /\ KosinskiAdaptor.codes.unit[e.type] = 0
    BY <1>6 DEF KosinskiAdaptor, KosinskiCodes
  <2>4. QED
    BY <1>1, <1>2, <2>2, <2>3, TallyPays
<1>7. QED
  BY <1>3, <1>4, <1>5, <1>6, TypesOfEdges DEF EdgesIn

(* Of KosPlus.                                                             *)
LEMMA KosPlusPays ==
  ASSUME NEW e \in EdgesIn(KosPlusAdaptor), NEW x \in Int
  PROVE  Pays(KosPlusAdaptor, e, Code(KosPlusAdaptor, e, x))
<1>1. Code(KosPlusAdaptor, e, x) = KosPlusCode(KosPlusAdaptor, e, x) /\ e.len \in Nat
  BY DEF Code, EdgesIn, KosPlusAdaptor
<1>2. PICK c : c = KosPlusCode(KosPlusAdaptor, e, x)
  OBVIOUS
<1>3. CASE e.type = "symbolwise"
  <2>1. c = << Bit(1), Byte(x) >>
    BY <1>2, <1>3 DEF KosPlusCode, KosPlusAdaptor, ShortMax, Window
  <2>2. Tally(c, 1, 1)
    BY <2>1, ItemKinds, TallyOfTwo
  <2>3. KosPlusAdaptor.codes.desc[e.type] = 1 /\ KosPlusAdaptor.codes.param[e.type] = 8
        /\ KosPlusAdaptor.codes.unit[e.type] = 0
    BY <1>3 DEF KosPlusAdaptor, KosinskiCodes
  <2>4. QED
    BY <1>1, <1>2, <2>2, <2>3, TallyPays
<1>4. CASE e.type = "dictionary_inline"
  <2>1. c = << Bit(0), Bit(0), Byte(256 - e.dist), Bit(((e.len - 2) \div 2) % 2), Bit((e.len - 2) % 2) >>
    BY <1>2, <1>4 DEF KosPlusCode, KosPlusAdaptor, ShortMax, Window
  <2>2. Tally(c, 4, 1)
    BY <2>1, ItemKinds, TallyOfFive
  <2>3. KosPlusAdaptor.codes.desc[e.type] = 4 /\ KosPlusAdaptor.codes.param[e.type] = 8
        /\ KosPlusAdaptor.codes.unit[e.type] = 0
    BY <1>4 DEF KosPlusAdaptor, KosinskiCodes
  <2>4. QED
    BY <1>1, <1>2, <2>2, <2>3, TallyPays
<1>5. CASE e.type = "dictionary_short"
  <2>1. c = << Bit(0), Bit(1), Byte(8 * (((8192 - e.dist) \div 256) % 32) + (9 + 1 - e.len)), Byte((8192 - e.dist) % 256) >>
    BY <1>2, <1>5 DEF KosPlusCode, KosPlusAdaptor, ShortMax, Window
  <2>2. Tally(c, 2, 2)
    BY <2>1, ItemKinds, TallyOfFour
  <2>3. KosPlusAdaptor.codes.desc[e.type] = 2 /\ KosPlusAdaptor.codes.param[e.type] = 16
        /\ KosPlusAdaptor.codes.unit[e.type] = 0
    BY <1>5 DEF KosPlusAdaptor, KosinskiCodes
  <2>4. QED
    BY <1>1, <1>2, <2>2, <2>3, TallyPays
<1>6. CASE e.type = "dictionary_long"
  <2>1. c = << Bit(0), Bit(1), Byte(8 * (((8192 - e.dist) \div 256) % 32)), Byte((8192 - e.dist) % 256), Byte(e.len - 9) >>
    BY <1>2, <1>6 DEF KosPlusCode, KosPlusAdaptor, ShortMax, Window
  <2>2. Tally(c, 2, 3)
    BY <2>1, ItemKinds, TallyOfFive
  <2>3. KosPlusAdaptor.codes.desc[e.type] = 2 /\ KosPlusAdaptor.codes.param[e.type] = 24
        /\ KosPlusAdaptor.codes.unit[e.type] = 0
    BY <1>6 DEF KosPlusAdaptor, KosinskiCodes
  <2>4. QED
    BY <1>1, <1>2, <2>2, <2>3, TallyPays
<1>7. QED
  BY <1>3, <1>4, <1>5, <1>6, TypesOfEdges DEF EdgesIn

(* Of LZKN1.                                                               *)
LEMMA Lzkn1Pays ==
  ASSUME NEW e \in EdgesIn(Lzkn1Adaptor), NEW x \in Int
  PROVE  Pays(Lzkn1Adaptor, e, Code(Lzkn1Adaptor, e, x))
<1>1. Code(Lzkn1Adaptor, e, x) = Lzkn1Code(Lzkn1Adaptor, e, x) /\ e.len \in Nat
  BY DEF Code, EdgesIn, Lzkn1Adaptor
<1>2. PICK c : c = Lzkn1Code(Lzkn1Adaptor, e, x)
  OBVIOUS
<1>3. CASE e.type = "symbolwise"
  <2>1. c = << Bit(0), Byte(x) >>
    BY <1>2, <1>3 DEF Lzkn1Code, Lzkn1Adaptor, ShortMax, Window
  <2>2. Tally(c, 1, 1)
    BY <2>1, ItemKinds, TallyOfTwo
  <2>3. Lzkn1Adaptor.codes.desc[e.type] = 1 /\ Lzkn1Adaptor.codes.param[e.type] = 8
        /\ Lzkn1Adaptor.codes.unit[e.type] = 0
    BY <1>3 DEF Lzkn1Adaptor
  <2>4. QED
    BY <1>1, <1>2, <2>2, <2>3, TallyPays
<1>4. CASE e.type = "dictionary_short"
  <2>1. c = << Bit(1), Byte(16 * (e.len + 6) + e.dist) >>
    BY <1>2, <1>4 DEF Lzkn1Code, Lzkn1Adaptor, ShortMax, Window
  <2>2. Tally(c, 1, 1)
    BY <2>1, ItemKinds, TallyOfTwo
  <2>3. Lzkn1Adaptor.codes.desc[e.type] = 1 /\ Lzkn1Adaptor.codes.param[e.type] = 8
        /\ Lzkn1Adaptor.codes.unit[e.type] = 0
    BY <1>4 DEF Lzkn1Adaptor
  <2>4. QED
    BY <1>1, <1>2, <2>2, <2>3, TallyPays
<1>5. CASE e.type = "dictionary_long"
  <2>1. c = << Bit(1), Byte((e.len - 3) + 32 * ((e.dist \div 256) % 4)), Byte(e.dist) >>
    BY <1>2, <1>5 DEF Lzkn1Code, Lzkn1Adaptor, ShortMax, Window
  <2>2. Tally(c, 1, 2)
    BY <2>1, ItemKinds, TallyOfThree
  <2>3. Lzkn1Adaptor.codes.desc[e.type] = 1 /\ Lzkn1Adaptor.codes.param[e.type] = 16
        /\ Lzkn1Adaptor.codes.unit[e.type] = 0
    BY <1>5 DEF Lzkn1Adaptor
  <2>4. QED
    BY <1>1, <1>2, <2>2, <2>3, TallyPays
<1>6. QED
  BY <1>3, <1>4, <1>5, TypesOfEdges DEF EdgesIn

(* Of Comper.                                                              *)
LEMMA ComperPays ==
  ASSUME NEW e \in EdgesIn(ComperAdaptor), NEW x \in Int
  PROVE  Pays(ComperAdaptor, e, Code(ComperAdaptor, e, x))
<1>1. Code(ComperAdaptor, e, x) = ComperCode(ComperAdaptor, e, x) /\ e.len \in Nat
  BY DEF Code, EdgesIn, ComperAdaptor
<1>2. PICK c : c = ComperCode(ComperAdaptor, e, x)
  OBVIOUS
<1>3. CASE e.type = "symbolwise"
  <2>1. c = << Bit(0), Byte(x \div 256), Byte(x) >>
    BY <1>2, <1>3 DEF ComperCode, ComperAdaptor, ShortMax, Window
  <2>2. Tally(c, 1, 2)
    BY <2>1, ItemKinds, TallyOfThree
  <2>3. ComperAdaptor.codes.desc[e.type] = 1 /\ ComperAdaptor.codes.param[e.type] = 16
        /\ ComperAdaptor.codes.unit[e.type] = 0
    BY <1>3 DEF ComperAdaptor
  <2>4. QED
    BY <1>1, <1>2, <2>2, <2>3, TallyPays
<1>4. CASE e.type = "dictionary"
  <2>1. c = << Bit(1), Byte(-e.dist), Byte(e.len - 1) >>
    BY <1>2, <1>4 DEF ComperCode, ComperAdaptor, ShortMax, Window
  <2>2. Tally(c, 1, 2)
    BY <2>1, ItemKinds, TallyOfThree
  <2>3. ComperAdaptor.codes.desc[e.type] = 1 /\ ComperAdaptor.codes.param[e.type] = 16
        /\ ComperAdaptor.codes.unit[e.type] = 0
    BY <1>4 DEF ComperAdaptor
  <2>4. QED
    BY <1>1, <1>2, <2>2, <2>3, TallyPays
<1>5. QED
  BY <1>3, <1>4, TypesOfEdges DEF EdgesIn

(* Of ComperX.                                                             *)
LEMMA ComperXPays ==
  ASSUME NEW e \in EdgesIn(ComperXAdaptor), NEW x \in Int
  PROVE  Pays(ComperXAdaptor, e, Code(ComperXAdaptor, e, x))
<1>1. Code(ComperXAdaptor, e, x) = ComperXCode(ComperXAdaptor, e, x) /\ e.len \in Nat
  BY DEF Code, EdgesIn, ComperXAdaptor, ComperAdaptor
<1>2. PICK c : c = ComperXCode(ComperXAdaptor, e, x)
  OBVIOUS
<1>3. CASE e.type = "symbolwise"
  <2>1. c = << Bit(0), Byte(x \div 256), Byte(x) >>
    BY <1>2, <1>3 DEF ComperXCode, ComperXAdaptor, ComperAdaptor, ShortMax, Window
  <2>2. Tally(c, 1, 2)
    BY <2>1, ItemKinds, TallyOfThree
  <2>3. ComperXAdaptor.codes.desc[e.type] = 1 /\ ComperXAdaptor.codes.param[e.type] = 16
        /\ ComperXAdaptor.codes.unit[e.type] = 0
    BY <1>3 DEF ComperXAdaptor, ComperAdaptor
  <2>4. QED
    BY <1>1, <1>2, <2>2, <2>3, TallyPays
<1>4. CASE e.type = "dictionary"
  <2>1. c = << Bit(1), Byte(1 - e.dist), Byte((127 - (e.len - 2) \div 2) + 128 * (e.len % 2)) >>
    BY <1>2, <1>4 DEF ComperXCode, ComperXAdaptor, ComperAdaptor, ShortMax, Window
  <2>2. Tally(c, 1, 2)
    BY <2>1, ItemKinds, TallyOfThree
  <2>3. ComperXAdaptor.codes.desc[e.type] = 1 /\ ComperXAdaptor.codes.param[e.type] = 16
        /\ ComperXAdaptor.codes.unit[e.type] = 0
    BY <1>4 DEF ComperXAdaptor, ComperAdaptor
  <2>4. QED
    BY <1>1, <1>2, <2>2, <2>3, TallyPays
<1>5. QED
  BY <1>3, <1>4, TypesOfEdges DEF EdgesIn

(* Of Saxman, whose zero fills cost what matches do.                       *)
LEMMA SaxmanPays ==
  ASSUME NEW e \in EdgesIn(SaxmanAdaptor), NEW x \in Int
  PROVE  Pays(SaxmanAdaptor, e, Code(SaxmanAdaptor, e, x))
<1>1. Code(SaxmanAdaptor, e, x) = SaxmanCode(SaxmanAdaptor, e, x) /\ e.len \in Nat
  BY DEF Code, EdgesIn, SaxmanAdaptor
<1>2. PICK c : c = SaxmanCode(SaxmanAdaptor, e, x)
  OBVIOUS
<1>3. CASE e.type = "symbolwise"
  <2>1. c = << Bit(1), Byte(x) >>
    BY <1>2, <1>3 DEF SaxmanCode, SaxmanAdaptor, ShortMax, Window
  <2>2. Tally(c, 1, 1)
    BY <2>1, ItemKinds, TallyOfTwo
  <2>3. SaxmanAdaptor.codes.desc[e.type] = 1 /\ SaxmanAdaptor.codes.param[e.type] = 8
        /\ SaxmanAdaptor.codes.unit[e.type] = 0
    BY <1>3 DEF SaxmanAdaptor
  <2>4. QED
    BY <1>1, <1>2, <2>2, <2>3, TallyPays
<1>4. CASE e.type # "symbolwise"
  <2>1. \A r, v : Tally(<< Bit(0), Byte(r), Byte(v) >>, 1, 2)
    BY ItemKinds, TallyOfThree
  <2>2. Tally(c, 1, 2)
    BY <1>2, <1>4, <2>1, Zenon DEF SaxmanCode
  <2>3. e.type = "dictionary" \/ e.type = "zerofill"
    BY <1>4, TypesOfEdges DEF EdgesIn
  <2>4. SaxmanAdaptor.codes.desc[e.type] = 1 /\ SaxmanAdaptor.codes.param[e.type] = 16
        /\ SaxmanAdaptor.codes.unit[e.type] = 0
    BY <2>3 DEF SaxmanAdaptor
  <2>5. QED
    BY <1>1, <1>2, <2>2, <2>4, TallyPays
<1>5. QED
  BY <1>3, <1>4, TypesOfEdges DEF EdgesIn

(* Of Rocket.                                                              *)
LEMMA RocketPays ==
  ASSUME NEW e \in EdgesIn(RocketAdaptor), NEW x \in Int
  PROVE  Pays(RocketAdaptor, e, Code(RocketAdaptor, e, x))
<1>1. Code(RocketAdaptor, e, x) = RocketCode(RocketAdaptor, e, x) /\ e.len \in Nat
  BY DEF Code, EdgesIn, RocketAdaptor
<1>2. PICK c : c = RocketCode(RocketAdaptor, e, x)
  OBVIOUS
<1>3. CASE e.type = "symbolwise"
  <2>1. c = << Bit(1), Byte(x) >>
    BY <1>2, <1>3 DEF RocketCode
  <2>2. Tally(c, 1, 1)
    BY <2>1, ItemKinds, TallyOfTwo
  <2>3. RocketAdaptor.codes.desc[e.type] = 1 /\ RocketAdaptor.codes.param[e.type] = 8
        /\ RocketAdaptor.codes.unit[e.type] = 0
    BY <1>3 DEF RocketAdaptor
  <2>4. QED
    BY <1>1, <1>2, <2>2, <2>3, TallyPays
<1>4. CASE e.type = "dictionary"
  <2>1. PICK r, v : c = << Bit(0), Byte(r), Byte(v) >>
    BY <1>2, <1>4 DEF RocketCode
  <2>2. Tally(c, 1, 2)
    BY <2>1, ItemKinds, TallyOfThree
  <2>3. RocketAdaptor.codes.desc[e.type] = 1 /\ RocketAdaptor.codes.param[e.type] = 16
        /\ RocketAdaptor.codes.unit[e.type] = 0
    BY <1>4 DEF RocketAdaptor
  <2>4. QED
    BY <1>1, <1>2, <2>2, <2>3, TallyPays
<1>5. QED
  BY <1>3, <1>4, TypesOfEdges DEF EdgesIn

(* No format pays less or more.                                            *)
LEMMA TokensPay ==
  ASSUME NEW A \in Formats, NEW e \in EdgesIn(A), NEW x \in Int
  PROVE  Pays(A, e, Code(A, e, x))
BY KosinskiPays, KosPlusPays, Lzkn1Pays, ComperPays, ComperXPays, SaxmanPays, RocketPays DEF Formats

(* So does the terminator.                                                 *)
EndPays(A, c) ==
  /\ BitsOf(c) = A.NumTermBits /\ BitsOf(c) + 8 * (Len(c) - BitsOf(c)) = A.TerminatorWeight
  /\ Len(c) \in Nat /\ BitsOf(c) \in Nat

(* If its bits and bytes are as many as the adaptor says.                  *)
LEMMA TallyEnds ==
  ASSUME NEW A, NEW c, NEW b \in Nat, NEW y \in Nat, Tally(c, b, y),
         A.NumTermBits = b, A.TerminatorWeight = b + 8 * y
  PROVE  EndPays(A, c)
<1>1. BitsOf(c) = b /\ Len(c) = b + y /\ (b + y) - b = y /\ b + y \in Nat
  BY DEF Tally
<1>2. QED
  BY <1>1 DEF EndPays

(* They are.                                                               *)
LEMMA TerminatorPays ==
  ASSUME NEW A \in Formats
  PROVE  EndPays(A, Terminator(A))
<1>1. CASE A = KosinskiAdaptor
  <2>1. Terminator(A) = KosinskiEnd /\ A.NumTermBits = 2 /\ A.TerminatorWeight = 26
    BY <1>1 DEF Terminator, KosinskiAdaptor
  <2>2. Tally(KosinskiEnd, 2, 3)
    BY ItemKinds, TallyOfFive DEF KosinskiEnd
  <2>3. 2 \in Nat /\ 3 \in Nat /\ 26 = 2 + 8 * 3
    OBVIOUS
  <2>4. QED
    BY <2>1, <2>2, <2>3, TallyEnds
<1>2. CASE A = KosPlusAdaptor
  <2>1. Terminator(A) = KosPlusEnd /\ A.NumTermBits = 2 /\ A.TerminatorWeight = 26
    BY <1>2 DEF Terminator, KosPlusAdaptor
  <2>2. Tally(KosPlusEnd, 2, 3)
    BY ItemKinds, TallyOfFive DEF KosPlusEnd
  <2>3. 2 \in Nat /\ 3 \in Nat /\ 26 = 2 + 8 * 3
    OBVIOUS
  <2>4. QED
    BY <2>1, <2>2, <2>3, TallyEnds
<1>3. CASE A = Lzkn1Adaptor
  <2>1. Terminator(A) = Lzkn1End /\ A.NumTermBits = 1 /\ A.TerminatorWeight = 9
    BY <1>3 DEF Terminator, Lzkn1Adaptor
  <2>2. Tally(Lzkn1End, 1, 1)
    BY ItemKinds, TallyOfTwo DEF Lzkn1End
  <2>3. 1 \in Nat /\ 1 \in Nat /\ 9 = 1 + 8 * 1
    OBVIOUS
  <2>4. QED
    BY <2>1, <2>2, <2>3, TallyEnds
<1>4. CASE A = ComperAdaptor
  <2>1. Terminator(A) = ComperEnd /\ A.NumTermBits = 1 /\ A.TerminatorWeight = 17
    BY <1>4 DEF Terminator, ComperAdaptor
  <2>2. Tally(ComperEnd, 1, 2)
    BY ItemKinds, TallyOfThree DEF ComperEnd
  <2>3. 1 \in Nat /\ 2 \in Nat /\ 17 = 1 + 8 * 2
    OBVIOUS
  <2>4. QED
    BY <2>1, <2>2, <2>3, TallyEnds
<1>5. CASE A = ComperXAdaptor
  <2>1. Terminator(A) = ComperXEnd /\ A.NumTermBits = 1 /\ A.TerminatorWeight = 17
    BY <1>5 DEF Terminator, ComperXAdaptor, ComperAdaptor
  <2>2. Tally(ComperXEnd, 1, 2)
    BY ItemKinds, TallyOfThree DEF ComperXEnd
  <2>3. 1 \in Nat /\ 2 \in Nat /\ 17 = 1 + 8 * 2
    OBVIOUS
  <2>4. QED
    BY <2>1, <2>2, <2>3, TallyEnds
<1>6. CASE A = SaxmanAdaptor
  <2>1. Terminator(A) = << >> /\ A.NumTermBits = 0 /\ A.TerminatorWeight = 0
    BY <1>6 DEF Terminator, SaxmanAdaptor
  <2>2. Tally(<< >>, 0, 0)
    BY DEF Tally, BitsOf, BitAt
  <2>3. 0 \in Nat /\ 0 \in Nat /\ 0 = 0 + 8 * 0
    OBVIOUS
  <2>4. QED
    BY <2>1, <2>2, <2>3, TallyEnds
<1>7. CASE A = RocketAdaptor
  <2>1. Terminator(A) = << >> /\ A.NumTermBits = 0 /\ A.TerminatorWeight = 0
    BY <1>7 DEF Terminator, RocketAdaptor
  <2>2. Tally(<< >>, 0, 0)
    BY DEF Tally, BitsOf, BitAt
  <2>3. 0 \in Nat /\ 0 \in Nat /\ 0 = 0 + 8 * 0
    OBVIOUS
  <2>4. QED
    BY <2>1, <2>2, <2>3, TallyEnds
<1>8. QED
  BY <1>1, <1>2, <1>3, <1>4, <1>5, <1>6, <1>7 DEF Formats

-----------------------------------------------------------------------------
(* A place more in the file is a bit more, or a byte.                      *)
LEMMA NextItem ==
  ASSUME NEW n \in Nat
  PROVE  Bits(n + 1) = Bits(n) + (IF items[n + 1].kind = "bit" THEN 1 ELSE 0)
<1>1. n + 1 \in Nat /\ n + 1 \notin 1 .. n /\ 1 .. n + 1 = (1 .. n) \cup {n + 1}
  OBVIOUS
<1>2. PICK S, T : S = BitPlaces(n) /\ T = BitPlaces(n + 1)
  OBVIOUS
<1>3. IsFiniteSet(S) /\ Cardinality(S) \in Nat /\ Bits(n) = Cardinality(S) /\ Bits(n + 1) = Cardinality(T)
  BY <1>1, <1>2, PlacesAreCounted
<1>4. n + 1 \notin S
  BY <1>1, <1>2 DEF BitPlaces
<1>5. CASE items[n + 1].kind = "bit"
  <2>1. T = S \cup {n + 1}
    BY <1>1, <1>2, <1>5 DEF BitPlaces
  <2>2. Cardinality(S \cup {n + 1}) = Cardinality(S) + 1
    BY <1>3, <1>4, FS_AddElement
  <2>3. QED
    BY <1>3, <1>5, <2>1, <2>2
<1>6. CASE items[n + 1].kind # "bit"
  <2>1. T = S
    BY <1>1, <1>2, <1>6 DEF BitPlaces
  <2>2. QED
    BY <1>3, <1>6, <2>1
<1>7. QED
  BY <1>5, <1>6

(* At first there is none.                                                 *)
LEMMA NoItem == Bits(0) = 0
<1>1. BitPlaces(0) = {}
  BY DEF BitPlaces
<1>2. Cardinality({}) = 0
  BY FS_EmptySet
<1>3. QED
  BY <1>1, <1>2, PlacesAreCounted

(* The bits of a part of the file and of the token behind it.              *)
LEMMA BitsAdd ==
  ASSUME NEW p \in Nat, NEW c, NEW l \in 0 .. 5, Len(c) = l, LiesAt(items, p, c)
  PROVE  BitsOf(c) \in Nat /\ Bits(p + l) = Bits(p) + BitsOf(c)
<1>1. \A k \in 1 .. 5 : BitAt(c, k) \in {0, 1} /\ (k > l => BitAt(c, k) = 0)
  BY DEF BitAt
<1>2. PICK a1 \in Nat, a2 \in Nat, a3 \in Nat, a4 \in Nat, a5 \in Nat :
        /\ a1 = BitAt(c, 1) /\ a2 = BitAt(c, 2) /\ a3 = BitAt(c, 3) /\ a4 = BitAt(c, 4) /\ a5 = BitAt(c, 5)
  BY <1>1
<1>3. BitsOf(c) = a1 + a2 + a3 + a4 + a5
  BY <1>2 DEF BitsOf
<1>4. ASSUME NEW k \in 0 .. 4, k + 1 <= l PROVE Bits(p + (k + 1)) = Bits(p + k) + BitAt(c, k + 1)
  <2>1. p + k \in Nat /\ (p + k) + 1 = p + (k + 1) /\ k + 1 \in 1 .. l
    BY <1>4
  <2>2. items[p + (k + 1)] = c[k + 1]
    BY <2>1 DEF LiesAt
  <2>3. BitAt(c, k + 1) = IF items[p + (k + 1)].kind = "bit" THEN 1 ELSE 0
    BY <1>4, <2>2 DEF BitAt
  <2>4. QED
    BY <2>1, <2>3, NextItem
<1>5. \A k \in 0 .. 5 : \E b \in Nat : b = Bits(p + k)
  <2>1. \A k \in 0 .. 5 : p + k \in Nat
    OBVIOUS
  <2>2. QED
    BY <2>1, PlacesAreCounted
<1>6. PICK b0 \in Nat : b0 = Bits(p)
  BY PlacesAreCounted
<1>7. PICK b1 \in Nat : b1 = Bits(p + 1)
  BY <1>5
<1>8. PICK b2 \in Nat : b2 = Bits(p + 2)
  BY <1>5
<1>9. PICK b3 \in Nat : b3 = Bits(p + 3)
  BY <1>5
<1>10. PICK b4 \in Nat : b4 = Bits(p + 4)
  BY <1>5
<1>11. PICK b5 \in Nat : b5 = Bits(p + 5)
  BY <1>5
<1>12. /\ 1 <= l => b1 = b0 + a1
       /\ 2 <= l => b2 = b1 + a2
       /\ 3 <= l => b3 = b2 + a3
       /\ 4 <= l => b4 = b3 + a4
       /\ 5 <= l => b5 = b4 + a5
  <2>1. 1 <= l => Bits(p + (0 + 1)) = Bits(p + 0) + BitAt(c, 0 + 1)
    BY <1>4
  <2>2. 2 <= l => Bits(p + (1 + 1)) = Bits(p + 1) + BitAt(c, 1 + 1)
    BY <1>4
  <2>3. 3 <= l => Bits(p + (2 + 1)) = Bits(p + 2) + BitAt(c, 2 + 1)
    BY <1>4
  <2>4. 4 <= l => Bits(p + (3 + 1)) = Bits(p + 3) + BitAt(c, 3 + 1)
    BY <1>4
  <2>5. 5 <= l => Bits(p + (4 + 1)) = Bits(p + 4) + BitAt(c, 4 + 1)
    BY <1>4
  <2>6. p + 0 = p /\ 0 + 1 = 1 /\ 1 + 1 = 2 /\ 2 + 1 = 3 /\ 3 + 1 = 4 /\ 4 + 1 = 5
    OBVIOUS
  <2>7. QED
    BY <1>2, <1>6, <1>7, <1>8, <1>9, <1>10, <1>11, <2>1, <2>2, <2>3, <2>4, <2>5, <2>6
<1>13. /\ 1 > l => a1 = 0
       /\ 2 > l => a2 = 0
       /\ 3 > l => a3 = 0
       /\ 4 > l => a4 = 0
       /\ 5 > l => a5 = 0
  BY <1>1, <1>2
<1>14. /\ l = 0 => Bits(p + l) = b0
       /\ l = 1 => Bits(p + l) = b1
       /\ l = 2 => Bits(p + l) = b2
       /\ l = 3 => Bits(p + l) = b3
       /\ l = 4 => Bits(p + l) = b4
       /\ l = 5 => Bits(p + l) = b5
  <2>1. p + 0 = p
    OBVIOUS
  <2>2. QED
    BY <1>6, <1>7, <1>8, <1>9, <1>10, <1>11, <2>1
<1>15. Bits(p + l) = b0 + (a1 + a2 + a3 + a4 + a5)
  <2>1. PICK z \in Nat : z = Bits(p + l)
    <3>1. p + l \in Nat
      OBVIOUS
    <3>2. QED
      BY <3>1, PlacesAreCounted
  <2>2. z = b0 + (a1 + a2 + a3 + a4 + a5)
    BY <1>12, <1>13, <1>14, <2>1
  <2>3. QED
    BY <2>1, <2>2
<1>16. PICK a \in Nat : a = BitsOf(c) /\ Bits(p + l) = b0 + a
  <2>1. a1 + a2 + a3 + a4 + a5 \in Nat
    OBVIOUS
  <2>2. QED
    BY <1>3, <1>15, <2>1
<1>17. QED
  BY <1>6, <1>16

-----------------------------------------------------------------------------
(* What the first n items take, without the rest of a descriptor field.    *)
SizeAt(n) == Bits(n) + 8 * (n - Bits(n))

(* By the token of an edge the file grows by the edge's weight.  An edge   *)
(* but the last does not end the file.                                     *)
LEMMA TokenCosts ==
  ASSUME RealFiles, CInv, Finished, NEW marks, Laid(marks), edge = Len(parselist),
         NEW i \in 1 .. edge
  PROVE  /\ parselist[i] \in Edges /\ AdaptorOK(Adaptor)
         /\ Dest(parselist[i]) - First = Stop(i) /\ Stop(i) \in 1 .. numNodes
         /\ i < edge => Stop(i) < numNodes
         /\ costs[Stop(i)] = Reached(costs[Stop(i - 1)], desccosts[Stop(i - 1)], parselist[i]).cost
         /\ desccosts[Stop(i)] = Reached(costs[Stop(i - 1)], desccosts[Stop(i - 1)], parselist[i]).desc
         /\ Bits(marks[i]) = Bits(marks[i - 1]) + DescBits(parselist[i])
         /\ SizeAt(marks[i]) = SizeAt(marks[i - 1]) + Weight(parselist[i])
<1>1. /\ WInv /\ PInv /\ PricesInv /\ ChainInv /\ node = numNodes /\ numNodes \in Nat /\ AdaptorOK(Adaptor)
      /\ format \in DOMAIN Adaptors /\ data \in Inputs[format]
  BY TheAdaptor DEF CInv, WInv, PInv, Finished
<1>2. edge \in Nat /\ Len(parselist) \in Nat /\ i \in 1 .. Len(parselist)
  BY <1>1 DEF ChainInv
<1>3. PICK e : e = parselist[i]
  OBVIOUS
<1>4. PICK n \in 1 .. numNodes : n = Stop(i) /\ e = pedges[n] /\ Stop(i - 1) = parents[n]
  BY <1>1, <1>2, <1>3 DEF ChainInv
<1>5. Priced(n)
  BY <1>1, <1>4, BehindIsReached
<1>6. e \in Edges
  BY <1>4, <1>5 DEF Priced
<1>7. Dest(e) - First = n
  BY <1>2, <1>3, <1>4 DEF Stop
<1>8. ASSUME i < edge PROVE n < numNodes
  <2>1. PICK j \in 1 .. Len(parselist) : j = i + 1 /\ j - 1 = i
    BY <1>2, <1>8
  <2>2. PICK m \in 1 .. numNodes : m = Stop(j) /\ Stop(j - 1) = parents[m]
    BY <1>1, <2>1 DEF ChainInv
  <2>3. parents[m] < m
    BY <1>1, <2>2, BehindIsReached DEF Priced
  <2>4. n < m
    BY <1>4, <2>1, <2>2, <2>3
  <2>5. QED
    BY <1>1, <2>2, <2>4
<1>9. /\ costs[n] = Reached(costs[Stop(i - 1)], desccosts[Stop(i - 1)], e).cost
      /\ desccosts[n] = Reached(costs[Stop(i - 1)], desccosts[Stop(i - 1)], e).desc
  BY <1>4, <1>5 DEF Priced, Price
<1>10. PICK c : c = TokenOf(i)
  OBVIOUS
<1>11. IsCode(c) /\ Symbol(e.pos) \in Nat
  BY <1>1, <1>2, <1>3, <1>10, EdgesAreKnown DEF Known
<1>12. Pays(Adaptor, e, c)
  <2>1. PICK x \in Int : x = Symbol(e.pos)
    BY <1>11
  <2>2. Adaptor \in Formats /\ e \in EdgesIn(Adaptor)
    BY <1>1, <1>6, TheFormat
  <2>3. c = Code(Adaptor, e, x)
    BY <1>3, <1>10, <2>1 DEF TokenOf
  <2>4. QED
    BY <2>2, <2>3, TokensPay
<1>13. PICK l \in 0 .. 5 : l = Len(c)
  BY <1>11 DEF IsCode
<1>14. PICK p \in Nat, q \in Nat : p = marks[i - 1] /\ q = marks[i]
  <2>1. i \in 0 .. edge /\ i - 1 \in 0 .. edge
    BY <1>2
  <2>2. QED
    BY <2>1 DEF Laid
<1>15. q = p + l /\ LiesAt(items, p, c)
  BY <1>10, <1>13, <1>14 DEF Laid
<1>16. BitsOf(c) \in Nat /\ Bits(q) = Bits(p) + BitsOf(c)
  BY <1>13, <1>15, BitsAdd
<1>17. PICK a \in Nat, b \in Nat : a = Bits(p) /\ b = BitsOf(c)
  BY <1>16, PlacesAreCounted
<1>18. b = DescBits(e) /\ b + 8 * (l - b) = Weight(e)
  BY <1>12, <1>13, <1>17 DEF Pays, DescBits, Weight
<1>19. Bits(q) = a + b /\ SizeAt(q) = SizeAt(p) + Weight(e)
  <2>1. Bits(q) = a + b
    BY <1>16, <1>17
  <2>2. SizeAt(q) = (a + b) + 8 * ((p + l) - (a + b)) /\ SizeAt(p) = a + 8 * (p - a)
    BY <1>15, <1>17, <2>1 DEF SizeAt
  <2>3. QED
    BY <1>18, <2>1, <2>2
<1>20. QED
  BY <1>1, <1>3, <1>4, <1>6, <1>7, <1>8, <1>9, <1>14, <1>17, <1>18, <1>19

(* So up to any edge but one that ends it the file is as long as the       *)
(* parser says.                                                            *)
LEMMA CostsAlong ==
  ASSUME RealFiles, CInv, Finished, NEW marks, Laid(marks), edge = Len(parselist)
  PROVE  \A j \in 0 .. edge :
           j = 0 \/ j < edge \/ First > 0 =>
             desccosts[Stop(j)] = Bits(marks[j]) /\ costs[Stop(j)] = SizeAt(marks[j])
<1>1. edge \in Nat /\ nlen \in Nat /\ First \in Nat /\ numNodes = nlen - First
  <2>1. Len(parselist) \in Nat /\ nlen \in Nat /\ First \in Nat
    BY TheAdaptor DEF CInv, WInv, PInv, ChainInv
  <2>2. QED
    BY <2>1 DEF numNodes
<1> DEFINE Right(j) == desccosts[Stop(j)] = Bits(marks[j]) /\ costs[Stop(j)] = SizeAt(marks[j])
           S == {j \in Nat : j <= edge /\ (j = 0 \/ j < edge \/ First > 0) => Right(j)}
<1>2. Right(0)
  <2>1. Stop(0) = 0 /\ marks[0] = 0
    BY DEF Stop, Finished, Laid
  <2>2. costs[0] = 0 /\ desccosts[0] = 0
    BY DEF CInv, WInv, PricesInv
  <2>3. Bits(0) = 0 /\ SizeAt(0) = 0
    BY NoItem DEF SizeAt
  <2>4. QED
    BY <2>1, <2>2, <2>3
<1>3. ASSUME NEW j \in S PROVE j + 1 \in S
  <2>1. SUFFICES ASSUME j + 1 <= edge, j + 1 < edge \/ First > 0 PROVE Right(j + 1)
    OBVIOUS
  <2>2. PICK i \in 1 .. edge : i = j + 1 /\ i - 1 = j /\ (i < edge \/ First > 0)
    BY <1>1, <2>1
  <2>3. Right(j)
    BY <1>1, <2>1
  <2> HIDE DEF S, Right
  <2>4. PICK e : e = parselist[i]
    OBVIOUS
  <2>5. /\ e \in Edges /\ AdaptorOK(Adaptor)
        /\ Dest(e) - First = Stop(i) /\ Stop(i) \in 1 .. numNodes /\ (i < edge => Stop(i) < numNodes)
        /\ costs[Stop(i)] = Reached(costs[Stop(j)], desccosts[Stop(j)], e).cost
        /\ desccosts[Stop(i)] = Reached(costs[Stop(j)], desccosts[Stop(j)], e).desc
        /\ Bits(marks[i]) = Bits(marks[j]) + DescBits(e)
        /\ SizeAt(marks[i]) = SizeAt(marks[j]) + Weight(e)
    BY <2>2, <2>4, TokenCosts
  <2>6. ~Ending(e)
    <3>1. Stop(i) # nlen
      BY <1>1, <2>2, <2>5
    <3>2. QED
      BY <2>5, <3>1 DEF Ending
  <2>7. \A c, d : Reached(c, d, e) = [cost |-> c + Weight(e), desc |-> d + DescBits(e)]
    BY <2>6, Zenon DEF Reached
  <2>8. /\ costs[Stop(i)] = costs[Stop(j)] + Weight(e)
        /\ desccosts[Stop(i)] = desccosts[Stop(j)] + DescBits(e)
    BY <2>5, <2>7
  <2>9. Right(i)
    BY <2>3, <2>5, <2>8 DEF Right
  <2>10. QED
    BY <2>2, <2>9
<1>4. 0 \in S /\ S \in SUBSET Nat
  BY <1>2
<1>5. Nat \subseteq S
  <2> HIDE DEF S
  <2>1. QED
    BY <1>3, <1>4, Induction
<1>6. QED
  BY <1>1, <1>5

(* A last descriptor field is charged in full, and a dummy one where the   *)
(* next is fetched with the last bit of the one before.                    *)
LEMMA FieldsAreCharged ==
  ASSUME NEW d \in Nat, Adaptor.NumDescBits \in {8, 16}, Adaptor.NeedEarlyDescriptor \in BOOLEAN
  PROVE  /\ Fields(d) * (Adaptor.NumDescBits \div 8) \in Int /\ FieldRest(d) \in Int
         /\ 8 * (Fields(d) * (Adaptor.NumDescBits \div 8)) = d + FieldRest(d)
<1>1. CASE Adaptor.NumDescBits = 8
  <2>1. 8 \div 8 = 1
    OBVIOUS
  <2>2. CASE Adaptor.NeedEarlyDescriptor = TRUE
    <3>1. Fields(d) = d \div 8 + 1 /\ FieldRest(d) = 8 - (d % 8)
      BY <1>1, <2>2 DEF Fields, FieldRest
    <3>2. PICK f \in Int, r \in Int : f = d \div 8 + 1 /\ r = d % 8 /\ 8 * f = d + (8 - r)
      OBVIOUS
    <3>3. QED
      BY <1>1, <2>1, <3>1, <3>2
  <2>3. CASE Adaptor.NeedEarlyDescriptor = FALSE
    <3>1. Fields(d) = (d + 7) \div 8 /\ FieldRest(d) = IF d % 8 # 0 THEN 8 - (d % 8) ELSE 0
      <4>1. d + 8 - 1 = d + 7
        OBVIOUS
      <4>2. QED
        BY <1>1, <2>3, <4>1 DEF Fields, FieldRest
    <3>2. PICK f \in Int, r \in Int : f = (d + 7) \div 8 /\ r = d % 8 /\ 8 * f = d + (IF r # 0 THEN 8 - r ELSE 0)
      OBVIOUS
    <3>3. QED
      BY <1>1, <2>1, <3>1, <3>2
  <2>4. QED
    BY <2>2, <2>3
<1>2. CASE Adaptor.NumDescBits = 16
  <2>1. 16 \div 8 = 2
    OBVIOUS
  <2>2. CASE Adaptor.NeedEarlyDescriptor = TRUE
    <3>1. Fields(d) = d \div 16 + 1 /\ FieldRest(d) = 16 - (d % 16)
      BY <1>2, <2>2 DEF Fields, FieldRest
    <3>2. PICK f \in Int, r \in Int : f = d \div 16 + 1 /\ r = d % 16 /\ 16 * f = d + (16 - r)
      OBVIOUS
    <3>3. QED
      BY <1>2, <2>1, <3>1, <3>2
  <2>3. CASE Adaptor.NeedEarlyDescriptor = FALSE
    <3>1. Fields(d) = (d + 15) \div 16 /\ FieldRest(d) = IF d % 16 # 0 THEN 16 - (d % 16) ELSE 0
      <4>1. d + 16 - 1 = d + 15
        OBVIOUS
      <4>2. QED
        BY <1>2, <2>3, <4>1 DEF Fields, FieldRest
    <3>2. PICK f \in Int, r \in Int : f = (d + 15) \div 16 /\ r = d % 16 /\ 16 * f = d + (IF r # 0 THEN 16 - r ELSE 0)
      OBVIOUS
    <3>3. QED
      BY <1>2, <2>1, <3>1, <3>2
  <2>4. QED
    BY <2>2, <2>3
<1>3. QED
  BY <1>1, <1>2

(* The descriptor fields the formats have.                                 *)
LEMMA DescriptorFields ==
  \A A \in Formats : A.NumDescBits \in {8, 16} /\ A.NeedEarlyDescriptor \in BOOLEAN
<1>1. KosinskiAdaptor.NumDescBits \in {8, 16} /\ KosinskiAdaptor.NeedEarlyDescriptor \in BOOLEAN
  BY DEF KosinskiAdaptor
<1>2. KosPlusAdaptor.NumDescBits \in {8, 16} /\ KosPlusAdaptor.NeedEarlyDescriptor \in BOOLEAN
  BY DEF KosPlusAdaptor
<1>3. Lzkn1Adaptor.NumDescBits \in {8, 16} /\ Lzkn1Adaptor.NeedEarlyDescriptor \in BOOLEAN
  BY DEF Lzkn1Adaptor
<1>4. ComperAdaptor.NumDescBits \in {8, 16} /\ ComperAdaptor.NeedEarlyDescriptor \in BOOLEAN
  BY DEF ComperAdaptor
<1>5. ComperXAdaptor.NumDescBits \in {8, 16} /\ ComperXAdaptor.NeedEarlyDescriptor \in BOOLEAN
  BY DEF ComperXAdaptor, ComperAdaptor
<1>6. SaxmanAdaptor.NumDescBits \in {8, 16} /\ SaxmanAdaptor.NeedEarlyDescriptor \in BOOLEAN
  BY DEF SaxmanAdaptor
<1>7. RocketAdaptor.NumDescBits \in {8, 16} /\ RocketAdaptor.NeedEarlyDescriptor \in BOOLEAN
  BY DEF RocketAdaptor
<1>8. QED
  BY <1>1, <1>2, <1>3, <1>4, <1>5, <1>6, <1>7 DEF Formats

(* No terminator is longer than a token.                                   *)
LEMMA LengthOfEnd ==
  ASSUME RealFiles, format \in DOMAIN Adaptors, data \in Inputs[format]
  PROVE  \E l \in 0 .. 5 : l = Len(Terminator(Adaptor))
<1>1. PICK t : t = Terminator(Adaptor)
  OBVIOUS
<1>2. PICK k \in Nat : k = Len(t)
  <2>1. EndPays(Adaptor, t)
    BY <1>1, TheFormat, TerminatorPays
  <2>2. QED
    BY <2>1 DEF EndPays
<1>3. CASE Sized
  <2>1. t = << >>
    BY <1>1, <1>3, TerminatorIsItems
  <2>2. Len(<< >>) = 0 /\ 0 \in 0 .. 5
    OBVIOUS
  <2>3. QED
    BY <1>1, <2>1, <2>2
<1>4. CASE ~Sized
  <2>1. k <= 5
    BY <1>1, <1>2, <1>4, TerminatorIsItems
  <2>2. k \in 0 .. 5
    BY <2>1
  <2>3. QED
    BY <1>1, <1>2, <2>2
<1>5. QED
  BY <1>3, <1>4

(* The last edge pays for the end of the file as well.                     *)
LEMMA EndIsCharged ==
  ASSUME RealFiles, CInv, closed, First = 0, parselist # << >>
  PROVE  costs[numNodes] = WrittenBits + Padding(WrittenBits)
<1>1. Finished /\ edge = Len(parselist) /\ format \in DOMAIN Adaptors /\ data \in Inputs[format]
  BY DEF CInv, Progress, WInv, PInv
<1>2. PICK marks : Laid(marks)
  BY DEF CInv
<1>3. edge \in Nat /\ edge > 0 /\ numNodes = nlen
  <2>1. PICK W : parselist \in Seq(W)
    BY DEF CInv, WInv, ChainInv
  <2>2. Len(parselist) \in Nat /\ Len(parselist) # 0
    BY <2>1
  <2>3. nlen \in Nat
    BY <1>1, TheAdaptor
  <2>4. QED
    BY <1>1, <2>2, <2>3 DEF numNodes
<1>4. PICK e, t : e = parselist[edge] /\ t = Terminator(Adaptor)
  OBVIOUS
<1>5. edge \in 1 .. edge /\ edge - 1 \in 0 .. edge /\ edge - 1 < edge
  BY <1>3
<1>6. desccosts[Stop(edge - 1)] = Bits(marks[edge - 1]) /\ costs[Stop(edge - 1)] = SizeAt(marks[edge - 1])
  BY <1>1, <1>2, <1>5, CostsAlong
<1>7. /\ Dest(e) - First = Stop(edge)
      /\ costs[Stop(edge)] = Reached(SizeAt(marks[edge - 1]), Bits(marks[edge - 1]), e).cost
      /\ Bits(marks[edge]) = Bits(marks[edge - 1]) + DescBits(e)
      /\ SizeAt(marks[edge]) = SizeAt(marks[edge - 1]) + Weight(e)
  BY <1>1, <1>2, <1>4, <1>5, <1>6, TokenCosts
<1>8. Stop(edge) = numNodes
  BY <1>1 DEF CInv, WInv, ChainInv
<1>9. Ending(e)
  BY <1>3, <1>7, <1>8 DEF Ending
<1>10. PICK m \in Nat, n \in Nat : m = marks[edge] /\ n = Len(items)
  <2>1. edge \in 0 .. edge /\ items \in Seq(Item)
    BY <1>3 DEF CInv, Progress
  <2>2. QED
    BY <1>2, <2>1 DEF Laid
<1>11. /\ Adaptor \in Formats
       /\ Adaptor.NumDescBits \in {8, 16} /\ Adaptor.NeedEarlyDescriptor \in BOOLEAN
  BY <1>1, TheFormat, DescriptorFields
<1>12. EndPays(Adaptor, t)
  BY <1>4, <1>11, TerminatorPays
<1>13. PICK l \in 0 .. 5 : l = Len(t)
  BY <1>1, <1>4, LengthOfEnd
<1>14. n = m + l /\ LiesAt(items, m, t)
  BY <1>2, <1>4, <1>10, <1>13 DEF Laid
<1>15. PICK d \in Nat, b \in Nat : d = Bits(m) /\ b = BitsOf(t) /\ Bits(n) = d + b
  <2>1. BitsOf(t) \in Nat /\ Bits(m + l) = Bits(m) + BitsOf(t)
    BY <1>13, <1>14, BitsAdd
  <2>2. Bits(m) \in Nat
    BY PlacesAreCounted
  <2>3. QED
    BY <1>14, <2>1, <2>2
<1>16. b = Adaptor.NumTermBits /\ b + 8 * (l - b) = Adaptor.TerminatorWeight
  BY <1>12, <1>13, <1>15 DEF EndPays
<1>17. PICK f \in Int, r \in Int : /\ f = Fields(d + b) * (Adaptor.NumDescBits \div 8)
                                   /\ r = FieldRest(d + b) /\ 8 * f = (d + b) + r
  <2>1. d + b \in Nat
    OBVIOUS
  <2>2. QED
    BY <1>11, <2>1, FieldsAreCharged
<1>18. PICK z \in Int : z = d + 8 * (m - d) + Adaptor.TerminatorWeight + r
  <2>1. d + 8 * (m - d) + (b + 8 * (l - b)) + r \in Int
    OBVIOUS
  <2>2. QED
    BY <1>16, <2>1
<1>19. costs[numNodes] = z + Padding(z)
  <2>1. PICK w, g : w = SizeAt(marks[edge - 1]) + Weight(e) /\ g = Bits(marks[edge - 1]) + DescBits(e)
    OBVIOUS
  <2>2. w = d + 8 * (m - d) /\ g = d
    BY <1>7, <1>10, <1>15, <2>1 DEF SizeAt
  <2>3. z = w + Adaptor.TerminatorWeight + FieldRest(g + Adaptor.NumTermBits)
    BY <1>16, <1>17, <1>18, <2>2
  <2>4. Reached(SizeAt(marks[edge - 1]), Bits(marks[edge - 1]), e).cost = z + Padding(z)
    BY <1>9, <2>1, <2>3 DEF Reached
  <2>5. QED
    BY <1>7, <1>8, <2>4
<1>20. WrittenBits = z
  <2>1. Streamed(n) = f + n - (d + b)
    BY <1>15, <1>17 DEF Streamed
  <2>2. WrittenBits = 8 * (f + n - (d + b))
    BY <1>10, <2>1 DEF WrittenBits
  <2>3. z = d + 8 * (m - d) + (b + 8 * (l - b)) + r
    BY <1>16, <1>18
  <2>4. 8 * (f + n - (d + b)) = 8 * f + 8 * (m + l) - 8 * (d + b)
    BY <1>14
  <2>5. 8 * f + 8 * (m + l) - 8 * (d + b) = d + 8 * (m - d) + (b + 8 * (l - b)) + r
    BY <1>17
  <2>6. QED
    BY <2>2, <2>3, <2>4, <2>5
<1>21. QED
  BY <1>19, <1>20

(* The cost the parser has found for the end of the file is the size of    *)
(* the file that is written, to the bit: no format charges a token more or *)
(* less than encode spends on it, and the end of the last descriptor       *)
(* field, or a dummy one, is what the stream puts there.                   *)
THEOREM CostIsTheSize == ASSUME RealFiles PROVE CodecSpec => []CostIsWrittenSize
<1>1. CInv => CostIsWrittenSize
  BY EndIsCharged DEF CostIsWrittenSize, Written
<1>2. QED
  BY <1>1, CodecInvariant, PTL

-----------------------------------------------------------------------------
(* The ways there are: the last step of one leads from a place before.     *)
Shapes ==
  [p \in First .. nlen - 1 |->
     {[to |-> Dest(e), weight |-> Weight(e), desc |-> DescBits(e)] : e \in Considered(p)}]

Onward(G, H, n) == {<<c[1] + x.weight, c[2] + x.desc>> : c \in G, x \in {y \in H : y.to = n}}

WaysTo(g, n) ==
  IF n = First THEN {<<0, 0>>} ELSE UNION {Onward(g[p], Shapes[p], n) : p \in First .. n - 1}

(* They do not depend on what is beyond.                                   *)
LEMMA WaysAreLocal ==
  ASSUME NEW g, NEW h, NEW n, \A p \in First .. n - 1 : g[p] = h[p]
  PROVE  WaysTo(g, n) = WaysTo(h, n)
<1>1. {Onward(g[p], Shapes[p], n) : p \in First .. n - 1} = {Onward(h[p], Shapes[p], n) : p \in First .. n - 1}
  OBVIOUS
<1>2. QED
  BY <1>1, Zenon DEF WaysTo

(* So there are such sets of ways, from the first place on.                *)
LEMMA WaysExist ==
  ASSUME First \in Nat, nlen \in Nat, First <= nlen
  PROVE  \E g : g = [n \in First .. nlen |-> WaysTo(g, n)]
<1> DEFINE To(m) == First .. First + m
           S == {m \in Nat : \E g : g = [n \in To(m) |-> WaysTo(g, n)]}
<1>1. 0 \in S
  <2> DEFINE g == [n \in To(0) |-> {<<0, 0>>}]
  <2>1. \A n \in To(0) : n = First
    OBVIOUS
  <2>2. \A n \in To(0) : WaysTo(g, n) = {<<0, 0>>}
    BY <2>1 DEF WaysTo
  <2>3. g = [n \in To(0) |-> WaysTo(g, n)]
    BY <2>2
  <2>4. QED
    BY <2>3
<1>2. ASSUME NEW m \in S PROVE m + 1 \in S
  <2>1. PICK g : g = [n \in To(m) |-> WaysTo(g, n)]
    OBVIOUS
  <2>2. m \in Nat
    OBVIOUS
  <2> DEFINE h == [n \in To(m + 1) |-> WaysTo(g, n)]
  <2>3. \A n \in To(m) : n \in To(m + 1) /\ g[n] = h[n]
    BY <2>1, <2>2
  <2>4. ASSUME NEW n \in To(m + 1) PROVE WaysTo(g, n) = WaysTo(h, n)
    <3>1. \A p \in First .. n - 1 : p \in To(m)
      BY <2>2
    <3>2. \A p \in First .. n - 1 : g[p] = h[p]
      BY <2>3, <3>1
    <3> HIDE DEF h
    <3>3. QED
      BY <3>2, WaysAreLocal
  <2>5. h = [n \in To(m + 1) |-> WaysTo(h, n)]
    BY <2>4
  <2>6. m + 1 \in Nat
    BY <2>2
  <2> HIDE DEF h
  <2>7. QED
    BY <2>5, <2>6
<1>3. S \in SUBSET Nat
  OBVIOUS
<1>4. Nat \subseteq S
  <2> HIDE DEF S
  <2>1. QED
    BY <1>1, <1>2, <1>3, Induction
<1>5. nlen - First \in S
  <2>1. nlen - First \in Nat
    OBVIOUS
  <2> HIDE DEF S
  <2>2. QED
    BY <1>4, <2>1
<1>6. To(nlen - First) = First .. nlen
  OBVIOUS
<1>7. QED
  BY <1>5, <1>6

(* The reference takes one of them.                                        *)
LEMMA WaysAre ==
  ASSUME First \in Nat, nlen \in Nat, First <= nlen
  PROVE  \E g : g = [n \in First .. nlen |-> WaysTo(g, n)] /\ Ways(Considered) = g[nlen]
<1> DEFINE f(g) ==
      [n \in First .. nlen |->
         IF n = First THEN {<<0, 0>>}
         ELSE UNION {{<<c[1] + x.weight, c[2] + x.desc>> :
                        c \in g[p], x \in {y \in Shapes[p] : y.to = n}} : p \in First .. n - 1}]
<1>1. \A g : f(g) = [n \in First .. nlen |-> WaysTo(g, n)]
  BY DEF WaysTo, Onward
<1>2. PICK g : g = CHOOSE h : h = f(h)
  OBVIOUS
<1>3. Ways(Considered) = g[nlen]
  BY <1>2 DEF Ways, Shapes
<1> HIDE DEF f
<1>4. \E h : h = f(h)
  BY <1>1, WaysExist, Zenon
<1>5. g = f(g)
  BY <1>2, <1>4, Zenon
<1>6. QED
  BY <1>1, <1>3, <1>5

-----------------------------------------------------------------------------
(* What the formats charge beside descriptor bits fills whole fields, if   *)
(* none is fetched early.                                                  *)
Charges(A) ==
  A.NeedEarlyDescriptor = FALSE =>
    /\ A.padMask = 0 /\ A.NumDescBits \in {8, 16}
    /\ \A t \in EdgeTypes(A) :
         A.codes.unit[t] = 0 /\ \E k \in 1 .. 3 : A.codes.param[t] = A.NumDescBits * k

LEMMA FormatsCharge == \A A \in Formats : Charges(A)
<1>1. Charges(KosinskiAdaptor)
  <2>1. KosinskiAdaptor.NeedEarlyDescriptor = TRUE
    BY DEF KosinskiAdaptor
  <2>2. QED
    BY <2>1 DEF Charges
<1>2. Charges(KosPlusAdaptor)
  <2> DEFINE A == KosPlusAdaptor
  <2>1. A.padMask = 0 /\ A.NumDescBits = 8 /\ A.codes = KosinskiCodes
    BY DEF KosPlusAdaptor
  <2>2. \A t \in {"symbolwise", "dictionary_inline", "dictionary_short", "dictionary_long"} :
          KosinskiCodes.unit[t] = 0 /\ \E k \in 1 .. 3 : KosinskiCodes.param[t] = 8 * k
    BY DEF KosinskiCodes
  <2> HIDE DEF A
  <2>3. QED
    BY <2>1, <2>2, TypesOfEdges DEF Charges, A
<1>3. Charges(Lzkn1Adaptor)
  <2> DEFINE A == Lzkn1Adaptor
  <2>1. A.padMask = 0 /\ A.NumDescBits = 8
    BY DEF Lzkn1Adaptor
  <2>2. \A t \in {"symbolwise", "dictionary_short", "dictionary_long"} :
          A.codes.unit[t] = 0 /\ \E k \in 1 .. 3 : A.codes.param[t] = 8 * k
    BY DEF Lzkn1Adaptor
  <2> HIDE DEF A
  <2>3. QED
    BY <2>1, <2>2, TypesOfEdges DEF Charges, A
<1>4. Charges(ComperAdaptor)
  <2> DEFINE A == ComperAdaptor
  <2>1. A.padMask = 0 /\ A.NumDescBits = 16
    BY DEF ComperAdaptor
  <2>2. \A t \in {"symbolwise", "dictionary"} :
          A.codes.unit[t] = 0 /\ \E k \in 1 .. 3 : A.codes.param[t] = 16 * k
    BY DEF ComperAdaptor
  <2> HIDE DEF A
  <2>3. QED
    BY <2>1, <2>2, TypesOfEdges DEF Charges, A
<1>5. Charges(ComperXAdaptor)
  <2> DEFINE A == ComperXAdaptor
  <2>1. A.padMask = 0 /\ A.NumDescBits = 16
    BY DEF ComperXAdaptor, ComperAdaptor
  <2>2. \A t \in {"symbolwise", "dictionary"} :
          A.codes.unit[t] = 0 /\ \E k \in 1 .. 3 : A.codes.param[t] = 16 * k
    BY DEF ComperXAdaptor, ComperAdaptor
  <2> HIDE DEF A
  <2>3. QED
    BY <2>1, <2>2, TypesOfEdges DEF Charges, A
<1>6. Charges(SaxmanAdaptor)
  <2> DEFINE A == SaxmanAdaptor
  <2>1. A.padMask = 0 /\ A.NumDescBits = 8
    BY DEF SaxmanAdaptor
  <2>2. \A t \in {"symbolwise", "dictionary", "zerofill"} :
          A.codes.unit[t] = 0 /\ \E k \in 1 .. 3 : A.codes.param[t] = 8 * k
    BY DEF SaxmanAdaptor
  <2> HIDE DEF A
  <2>3. QED
    BY <2>1, <2>2, TypesOfEdges DEF Charges, A
<1>7. Charges(RocketAdaptor)
  <2> DEFINE A == RocketAdaptor
  <2>1. A.padMask = 0 /\ A.NumDescBits = 8
    BY DEF RocketAdaptor
  <2>2. \A t \in {"symbolwise", "dictionary"} :
          A.codes.unit[t] = 0 /\ \E k \in 1 .. 3 : A.codes.param[t] = 8 * k
    BY DEF RocketAdaptor
  <2> HIDE DEF A
  <2>3. QED
    BY <2>1, <2>2, TypesOfEdges DEF Charges, A
<1>8. QED
  BY <1>1, <1>2, <1>3, <1>4, <1>5, <1>6, <1>7 DEF Formats

(* Every edge weighs its descriptor bits and whole fields.                 *)
Whole(w, d) == \E k \in Int : w = d + Adaptor.NumDescBits * k

LEMMA WeightsAreWhole ==
  ASSUME Adaptor \in Formats, AdaptorOK(Adaptor), Adaptor.NeedEarlyDescriptor = FALSE, NEW e \in Edges
  PROVE  Whole(Weight(e), DescBits(e)) /\ Weight(e) \in Nat /\ DescBits(e) \in Nat
<1>1. Weight(e) \in Nat /\ DescBits(e) \in Nat
  BY WeightIsNat DEF Edges
<1>2. e.type \in EdgeTypes(Adaptor) /\ e.len \in Nat
  BY DEF Edges
<1>3. PICK k \in 1 .. 3 : Adaptor.codes.unit[e.type] = 0 /\ Adaptor.codes.param[e.type] = Adaptor.NumDescBits * k
  BY <1>2, FormatsCharge DEF Charges
<1>4. Adaptor.NumDescBits \in {8, 16}
  BY FormatsCharge DEF Charges
<1>5. Weight(e) = DescBits(e) + Adaptor.NumDescBits * k
  <2>1. 8 * 0 * e.len = 0
    BY <1>2
  <2>2. PICK m \in Nat, d \in Nat : m = Adaptor.NumDescBits * k /\ d = DescBits(e)
    BY <1>1, <1>4
  <2>3. d + m + 0 = d + m
    OBVIOUS
  <2>4. QED
    BY <1>3, <2>1, <2>2, <2>3 DEF Weight
<1>6. QED
  BY <1>1, <1>5 DEF Whole

(* Sums of such are.                                                       *)
LEMMA WholeAdds ==
  ASSUME Adaptor.NumDescBits \in {8, 16}, NEW w \in Int, NEW d \in Int, Whole(w, d),
         NEW v \in Int, NEW b \in Int, Whole(v, b)
  PROVE  Whole(w + v, d + b)
<1>1. PICK k \in Int : w = d + Adaptor.NumDescBits * k
  BY DEF Whole
<1>2. PICK m \in Int : v = b + Adaptor.NumDescBits * m
  BY DEF Whole
<1>3. w + v = (d + b) + Adaptor.NumDescBits * (k + m)
  <2>1. CASE Adaptor.NumDescBits = 8
    BY <1>1, <1>2, <2>1
  <2>2. CASE Adaptor.NumDescBits = 16
    BY <1>1, <1>2, <2>2
  <2>3. QED
    BY <2>1, <2>2
<1>4. QED
  BY <1>3 DEF Whole

(* An edge that does not end the file costs its weight.                    *)
LEMMA OnTheWay ==
  ASSUME NEW e, ~Ending(e), NEW c, NEW d
  PROVE  Reached(c, d, e).cost = c + Weight(e) /\ Reached(c, d, e).desc = d + DescBits(e)
<1>1. Reached(c, d, e) = [cost |-> c + Weight(e), desc |-> d + DescBits(e)]
  BY Zenon DEF Reached
<1>2. QED
  BY <1>1

(* One that does, the size of the file with all before it.                 *)
LEMMA PaddingIsNone ==
  ASSUME Adaptor.padMask = 0, NEW t \in Int
  PROVE  Padding(t) = 0
<1>1. \A x \in Int : x % 1 = 0
  OBVIOUS
<1>2. QED
  BY <1>1 DEF Padding

(* Rounded up to whole fields.                                             *)
RoundedUp(x, n) == n * ((x + n - 1) \div n)

LEMMA RoundingIsOrdered ==
  ASSUME NEW n \in {8, 16}, NEW a \in Int, NEW b \in Int, NEW c \in Int, NEW d \in Int,
         NEW t \in Int, NEW k \in Int, NEW m \in Int, a = b + n * k, c = d + n * m, a <= c
  PROVE  a - b + RoundedUp(b + t, n) <= c - d + RoundedUp(d + t, n)
<1>1. CASE n = 8
  <2>1. PICK f \in Int, g \in Int : f = (b + t + 8 - 1) \div 8 /\ g = (d + t + 8 - 1) \div 8
    OBVIOUS
  <2>2. 8 * f >= b + t /\ 8 * f <= b + t + 7 /\ 8 * g >= d + t /\ 8 * g <= d + t + 7
    BY <2>1
  <2>3. a - b = 8 * k /\ c - d = 8 * m /\ b + 8 * k <= d + 8 * m
    BY <1>1
  <2>4. k + f <= m + g
    BY <2>2, <2>3
  <2>5. RoundedUp(b + t, n) = 8 * f /\ RoundedUp(d + t, n) = 8 * g
    BY <1>1, <2>1 DEF RoundedUp
  <2>6. QED
    BY <2>3, <2>4, <2>5
<1>2. CASE n = 16
  <2>1. PICK f \in Int, g \in Int : f = (b + t + 16 - 1) \div 16 /\ g = (d + t + 16 - 1) \div 16
    OBVIOUS
  <2>2. 16 * f >= b + t /\ 16 * f <= b + t + 15 /\ 16 * g >= d + t /\ 16 * g <= d + t + 15
    BY <2>1
  <2>3. a - b = 16 * k /\ c - d = 16 * m /\ b + 16 * k <= d + 16 * m
    BY <1>2
  <2>4. k + f <= m + g
    BY <2>2, <2>3
  <2>5. RoundedUp(b + t, n) = 16 * f /\ RoundedUp(d + t, n) = 16 * g
    BY <1>2, <2>1 DEF RoundedUp
  <2>6. QED
    BY <2>3, <2>4, <2>5
<1>3. QED
  BY <1>1, <1>2

(* That is what the parser adds to the descriptor bits at the end.         *)
LEMMA RoundedIsCharged ==
  ASSUME Adaptor.NumDescBits \in {8, 16}, Adaptor.NeedEarlyDescriptor = FALSE, NEW x \in Nat
  PROVE  /\ RoundedUp(x, Adaptor.NumDescBits) = x + FieldRest(x) /\ FieldRest(x) \in Int
         /\ RoundedUp(x, Adaptor.NumDescBits) = Adaptor.NumDescBits * Fields(x)
         /\ RoundedUp(x, Adaptor.NumDescBits) = 8 * (Fields(x) * (Adaptor.NumDescBits \div 8))
<1>1. Fields(x) = (x + Adaptor.NumDescBits - 1) \div Adaptor.NumDescBits
  BY DEF Fields
<1>2. PICK f \in Int : f = Fields(x)
  <2>1. CASE Adaptor.NumDescBits = 8
    BY <1>1, <2>1
  <2>2. CASE Adaptor.NumDescBits = 16
    BY <1>1, <2>2
  <2>3. QED
    BY <2>1, <2>2
<1>3. RoundedUp(x, Adaptor.NumDescBits) = Adaptor.NumDescBits * f
  BY <1>1, <1>2 DEF RoundedUp
<1>4. 8 * (f * (Adaptor.NumDescBits \div 8)) = Adaptor.NumDescBits * f
  <2>1. 8 \div 8 = 1 /\ 16 \div 8 = 2
    OBVIOUS
  <2>2. 8 * (f * 1) = 8 * f /\ 8 * (f * 2) = 16 * f
    OBVIOUS
  <2>3. QED
    BY <2>1, <2>2
<1>5. FieldRest(x) \in Int /\ 8 * (f * (Adaptor.NumDescBits \div 8)) = x + FieldRest(x)
  BY <1>2, FieldsAreCharged
<1>6. QED
  BY <1>2, <1>3, <1>4, <1>5

(* The size of a way.                                                      *)
LEMMA SizeIs ==
  ASSUME Adaptor \in Formats, AdaptorOK(Adaptor), Adaptor.NeedEarlyDescriptor = FALSE, NEW a \in Int, NEW d \in Nat
  PROVE  /\ SizeOfWay(<<a, d>>) = a - d + Adaptor.TerminatorWeight - Adaptor.NumTermBits
                                    + RoundedUp(d + Adaptor.NumTermBits, Adaptor.NumDescBits)
         /\ RoundedUp(d + Adaptor.NumTermBits, Adaptor.NumDescBits) \in Int
<1>1. Adaptor.NumDescBits \in {8, 16} /\ Adaptor.padMask = 0
  BY FormatsCharge DEF Charges
<1>2. PICK tw \in Nat, nt \in Nat : tw = Adaptor.TerminatorWeight /\ nt = Adaptor.NumTermBits
  BY DEF AdaptorOK
<1>3. d + nt \in Nat
  OBVIOUS
<1>4. PICK r \in Int : r = RoundedUp(d + nt, Adaptor.NumDescBits) /\ r = Adaptor.NumDescBits * Fields(d + nt)
  <2>1. RoundedUp(d + nt, Adaptor.NumDescBits) = (d + nt) + FieldRest(d + nt) /\ FieldRest(d + nt) \in Int
    BY <1>1, <1>3, RoundedIsCharged
  <2>2. RoundedUp(d + nt, Adaptor.NumDescBits) = Adaptor.NumDescBits * Fields(d + nt)
    BY <1>1, <1>3, RoundedIsCharged
  <2>3. QED
    BY <2>1, <2>2
<1>5. PICK t \in Int : t = a - d + tw - nt + r
  OBVIOUS
<1>6. SizeOfWay(<<a, d>>) = t + Padding(t)
  BY <1>2, <1>4, <1>5 DEF SizeOfWay
<1>7. Padding(t) = 0
  BY <1>1, PaddingIsNone
<1>8. QED
  BY <1>2, <1>4, <1>5, <1>6, <1>7

(* A way that is no longer makes a file that is no larger.                 *)
LEMMA SizesAreOrdered ==
  ASSUME Adaptor \in Formats, AdaptorOK(Adaptor), Adaptor.NeedEarlyDescriptor = FALSE,
         NEW a \in Int, NEW b \in Nat, NEW c \in Int, NEW d \in Nat, Whole(a, b), Whole(c, d), a <= c
  PROVE  SizeOfWay(<<a, b>>) <= SizeOfWay(<<c, d>>)
<1>1. Adaptor.NumDescBits \in {8, 16}
  BY FormatsCharge DEF Charges
<1>2. PICK tw \in Nat, nt \in Nat, n \in {8, 16} :
        tw = Adaptor.TerminatorWeight /\ nt = Adaptor.NumTermBits /\ n = Adaptor.NumDescBits
  BY <1>1 DEF AdaptorOK
<1>3. PICK k \in Int : a = b + n * k
  BY <1>2 DEF Whole
<1>4. PICK m \in Int : c = d + n * m
  BY <1>2 DEF Whole
<1>5. a - b + RoundedUp(b + nt, n) <= c - d + RoundedUp(d + nt, n)
  <2>1. b \in Int /\ d \in Int /\ nt \in Int
    OBVIOUS
  <2>2. QED
    BY <1>3, <1>4, <2>1, RoundingIsOrdered
<1>6. PICK x \in Int, y \in Int : x = RoundedUp(b + nt, n) /\ y = RoundedUp(d + nt, n)
  BY <1>2, SizeIs
<1>7. SizeOfWay(<<a, b>>) = a - b + tw - nt + x
  BY <1>2, <1>6, SizeIs
<1>8. SizeOfWay(<<c, d>>) = c - d + tw - nt + y
  BY <1>2, <1>6, SizeIs
<1>9. QED
  BY <1>5, <1>6, <1>7, <1>8

(* By an edge that ends the file the parser reckons its size.              *)
LEMMA EndIsReckoned ==
  ASSUME Adaptor \in Formats, AdaptorOK(Adaptor), Adaptor.NeedEarlyDescriptor = FALSE,
         NEW e \in Edges, Ending(e), NEW c \in Nat, NEW d \in Nat
  PROVE  Reached(c, d, e).cost = SizeOfWay(<<c + Weight(e), d + DescBits(e)>>)
<1>1. Adaptor.NumDescBits \in {8, 16} /\ Adaptor.padMask = 0
  BY FormatsCharge DEF Charges
<1>2. PICK tw \in Nat, nt \in Nat : tw = Adaptor.TerminatorWeight /\ nt = Adaptor.NumTermBits
  BY DEF AdaptorOK
<1>3. PICK w \in Nat, b \in Nat : w = c + Weight(e) /\ b = d + DescBits(e)
  <2>1. Weight(e) \in Nat /\ DescBits(e) \in Nat
    BY WeightsAreWhole
  <2>2. QED
    BY <2>1
<1>4. b + nt \in Nat /\ w \in Int
  OBVIOUS
<1>5. PICK r \in Int, f \in Int : /\ r = RoundedUp(b + nt, Adaptor.NumDescBits) /\ f = FieldRest(b + nt)
                                  /\ r = (b + nt) + f
  <2>1. PICK x \in Nat : x = b + nt
    BY <1>4
  <2>2. PICK g \in Int : g = FieldRest(x) /\ RoundedUp(x, Adaptor.NumDescBits) = x + g
    BY <1>1, RoundedIsCharged
  <2>3. QED
    BY <2>1, <2>2
<1>6. PICK t \in Int : t = w + tw + f
  OBVIOUS
<1>7. Reached(c, d, e).cost = t + Padding(t)
  <2>1. Reached(c, d, e) = [cost |-> t + Padding(t), desc |-> b + nt + f]
    BY <1>2, <1>3, <1>5, <1>6 DEF Reached
  <2>2. QED
    BY <2>1
<1>8. Padding(t) = 0
  BY <1>1, PaddingIsNone
<1>9. SizeOfWay(<<w, b>>) = w - b + tw - nt + r
  BY <1>2, <1>4, <1>5, SizeIs
<1>10. QED
  BY <1>3, <1>5, <1>6, <1>7, <1>8, <1>9

-----------------------------------------------------------------------------
(* What the format and the file are, once chosen.                          *)
Chosen ==
  /\ Adaptor \in Formats /\ AdaptorOK(Adaptor) /\ Adaptor.NumDescBits \in {8, 16}
  /\ First \in Nat /\ nlen \in Nat /\ First <= nlen /\ numNodes = nlen - First

LEMMA TheChoice ==
  ASSUME RealFiles, WInv, Adaptor.NeedEarlyDescriptor = FALSE
  PROVE  Chosen
<1>1. format \in DOMAIN Adaptors /\ data \in Inputs[format]
  BY DEF WInv, PInv
<1>2. Adaptor \in Formats
  BY <1>1, TheFormat
<1>3. Adaptor.NumDescBits \in {8, 16}
  BY <1>2, FormatsCharge DEF Charges
<1>4. QED
  BY <1>1, <1>2, <1>3, TheAdaptor DEF Chosen, numNodes

(* The costs of nodes are whole, as those of their edges are.              *)
LEMMA NodesAreWhole ==
  ASSUME RealFiles, WInv, node = numNodes, Adaptor.NeedEarlyDescriptor = FALSE
  PROVE  \A j \in 0 .. numNodes : j < numNodes \/ First > 0 => Whole(costs[j], desccosts[j])
<1>1. Chosen
  BY TheChoice
<1>2. PInv /\ PricesInv /\ numNodes \in Nat
  BY <1>1 DEF WInv, Chosen
<1> DEFINE Right(j) == j < numNodes \/ First > 0 => Whole(costs[j], desccosts[j])
           S == {m \in Nat : \A j \in 0 .. numNodes : j <= m => Right(j)}
<1>3. Right(0)
  <2>1. costs[0] = 0 /\ desccosts[0] = 0
    BY <1>2 DEF PricesInv
  <2>2. PICK n \in {8, 16} : n = Adaptor.NumDescBits
    BY <1>1 DEF Chosen
  <2>3. 0 \in Int /\ 0 = 0 + n * 0
    OBVIOUS
  <2>4. Whole(0, 0)
    BY <2>2, <2>3 DEF Whole
  <2>5. QED
    BY <2>1, <2>4
<1>4. ASSUME NEW j \in 1 .. numNodes, \A i \in 0 .. numNodes : i < j => Right(i)
      PROVE  Right(j)
  <2>1. SUFFICES ASSUME j < numNodes \/ First > 0 PROVE Whole(costs[j], desccosts[j])
    OBVIOUS
  <2>2. Priced(j) /\ costs[j] < Infinity
    BY BehindIsReached
  <2>3. PICK e \in Edges, i \in 0 .. numNodes :
          /\ e = pedges[j] /\ i = parents[j] /\ i < j
          /\ costs[j] = Reached(costs[i], desccosts[i], e).cost
          /\ desccosts[j] = Reached(costs[i], desccosts[i], e).desc
    <3>1. parents[j] \in 0 .. numNodes
      BY <1>2 DEF PInv, Types
    <3>2. QED
      BY <2>2, <3>1 DEF Priced, Price
  <2>4. Dest(e) - First = j
    <3>1. Dest(e) = j + First
      BY <1>2, <2>2, <2>3 DEF PInv, EdgesAreGenuine, Infinity
    <3>2. QED
      BY <1>1, <3>1 DEF Chosen
  <2>5. ~Ending(e)
    <3>1. j # nlen
      BY <1>1, <2>1 DEF Chosen
    <3>2. QED
      BY <2>4, <3>1 DEF Ending
  <2>6. costs[j] = costs[i] + Weight(e) /\ desccosts[j] = desccosts[i] + DescBits(e)
    BY <2>3, <2>5, OnTheWay
  <2>7. Whole(costs[i], desccosts[i])
    <3>1. i < numNodes \/ First > 0
      BY <1>2, <2>1, <2>3
    <3>2. Right(i)
      BY <1>4, <2>3
    <3>3. QED
      BY <3>1, <3>2
  <2>8. costs[i] \in Int /\ desccosts[i] \in Int
    BY <1>2, <2>3 DEF PInv, Types
  <2>9. Whole(Weight(e), DescBits(e)) /\ Weight(e) \in Int /\ DescBits(e) \in Int
    <3>1. Adaptor \in Formats /\ AdaptorOK(Adaptor)
      BY <1>1 DEF Chosen
    <3>2. Whole(Weight(e), DescBits(e)) /\ Weight(e) \in Nat /\ DescBits(e) \in Nat
      BY <3>1, WeightsAreWhole
    <3>3. QED
      BY <3>2
  <2>10. Adaptor.NumDescBits \in {8, 16}
    BY <1>1 DEF Chosen
  <2>11. QED
    BY <2>6, <2>7, <2>8, <2>9, <2>10, WholeAdds
<1> HIDE DEF Right
<1>5. 0 \in S
  BY <1>3
<1>6. ASSUME NEW m \in S PROVE m + 1 \in S
  <2>1. m \in Nat /\ \A j \in 0 .. numNodes : j <= m => Right(j)
    BY <1>6
  <2>2. ASSUME NEW j \in 0 .. numNodes, j <= m + 1 PROVE Right(j)
    <3>1. CASE j <= m
      BY <2>1, <3>1
    <3>2. CASE ~(j <= m)
      <4>1. j \in 1 .. numNodes /\ \A i \in 0 .. numNodes : i < j => i <= m
        BY <2>1, <2>2, <3>2
      <4>2. QED
        BY <1>4, <2>1, <4>1
    <3>3. QED
      BY <3>1, <3>2
  <2>3. QED
    BY <2>1, <2>2
<1>7. S \in SUBSET Nat
  OBVIOUS
<1>8. Nat \subseteq S
  <2> HIDE DEF S
  <2>1. QED
    BY <1>5, <1>6, <1>7, Induction
<1>9. numNodes \in S
  BY <1>2, <1>8
<1>10. QED
  BY <1>2, <1>9 DEF Right

-----------------------------------------------------------------------------
(* No way to a node is cheaper than the one the pass has found, and none   *)
(* to the end makes a smaller file.                                        *)
Best(c, n) ==
  \E a \in Nat, d \in Nat :
    /\ c = <<a, d>> /\ Whole(a, d)
    /\ First > 0 \/ n < nlen \/ n = First => costs[n - First] <= a
    /\ First = 0 /\ n = nlen /\ n > First => costs[n - First] <= SizeOfWay(c)

LEMMA StepIsBest ==
  ASSUME RealFiles, WInv, OfferInv, node = numNodes, Adaptor.NeedEarlyDescriptor = FALSE,
         NEW p \in First .. nlen - 1, NEW n \in First .. nlen, n > p,
         NEW e \in Considered(p), Dest(e) = n, NEW c, Best(c, p)
  PROVE  Best(<<c[1] + Weight(e), c[2] + DescBits(e)>>, n)
<1>1. Chosen /\ Adaptor.NumDescBits \in {8, 16}
  BY TheChoice DEF Chosen
<1>2. PICK q \in 0 .. numNodes - 1, j \in 0 .. numNodes : p = First + q /\ j = n - First /\ p - First = q
  <2>1. p - First \in 0 .. numNodes - 1 /\ n - First \in 0 .. numNodes /\ p = First + (p - First)
    BY <1>1 DEF Chosen
  <2>2. QED
    BY <2>1
<1>3. Plain(Adaptor)
  <2>1. \A A \in Formats : Plain(A)
    <3>1. "zerofill" \in DOMAIN SaxmanAdaptor.codes.desc
      BY DEF SaxmanAdaptor
    <3>2. QED
      BY <3>1, WindowTypes, OnlySaxmanFills DEF Plain
  <2>2. QED
    BY <1>1, <2>1 DEF Chosen
<1>4. PICK f \in Edges : /\ Settled(f, q) /\ Dest(f) = n
                         /\ Weight(e) = Weight(f) /\ DescBits(e) = DescBits(f)
  BY <1>2, <1>3, NoEdgeImproves
<1>5. PICK x \in Nat, y \in Nat : x = costs[q] /\ y = desccosts[q]
  <2>1. q \in 0 .. numNodes
    BY <1>1, <1>2 DEF Chosen
  <2>2. QED
    BY <2>1 DEF WInv, PInv, Types
<1>6. Whole(x, y)
  <2>1. q \in 0 .. numNodes /\ q < numNodes
    BY <1>1, <1>2 DEF Chosen
  <2>2. QED
    BY <1>5, <2>1, NodesAreWhole
<1>7. PICK a \in Nat, d \in Nat : c = <<a, d>> /\ Whole(a, d) /\ x <= a
  <2>1. PICK a \in Nat, d \in Nat : c = <<a, d>> /\ Whole(a, d) /\ (p < nlen => costs[p - First] <= a)
    BY DEF Best
  <2>2. p < nlen
    BY <1>1 DEF Chosen
  <2>3. QED
    BY <1>2, <1>5, <2>1, <2>2
<1>8. PICK v \in Nat, u \in Nat : v = Weight(e) /\ u = DescBits(e) /\ Whole(v, u)
  BY <1>1, <1>4, WeightsAreWhole DEF Chosen
<1>9. PICK a1 \in Nat, d1 \in Nat, x1 \in Nat, y1 \in Nat : a1 = a + v /\ d1 = d + u /\ x1 = x + v /\ y1 = y + u
  OBVIOUS
<1>10. Whole(a1, d1) /\ Whole(x1, y1) /\ x1 <= a1
  <2>1. x \in Int /\ y \in Int /\ a \in Int /\ d \in Int /\ v \in Int /\ u \in Int
    OBVIOUS
  <2>2. Whole(a + v, d + u)
    BY <1>1, <1>7, <1>8, <2>1, WholeAdds
  <2>3. Whole(x + v, y + u)
    BY <1>1, <1>6, <1>8, <2>1, WholeAdds
  <2>4. QED
    BY <1>7, <1>9, <2>2, <2>3
<1>11. costs[j] <= Reached(x, y, f).cost /\ costs[j] \in Nat
  <2>1. costs[j] \in Nat
    BY <1>2 DEF WInv, PInv, Types
  <2>2. QED
    BY <1>2, <1>4, <1>5, <2>1 DEF Settled
<1>12. ASSUME First > 0 \/ n < nlen PROVE costs[j] <= a1
  <2>1. ~Ending(f)
    <3>1. n - First # nlen
      BY <1>1, <1>12 DEF Chosen
    <3>2. QED
      BY <1>4, <3>1 DEF Ending
  <2>2. Reached(x, y, f).cost = x + Weight(f)
    BY <2>1, OnTheWay
  <2>3. Reached(x, y, f).cost = x1
    BY <1>4, <1>8, <1>9, <2>2
  <2>4. QED
    BY <1>10, <1>11, <2>3
<1>13. ASSUME First = 0, n = nlen PROVE costs[j] <= SizeOfWay(<<a1, d1>>)
  <2>1. Ending(f)
    <3>1. n - First = nlen
      BY <1>1, <1>13 DEF Chosen
    <3>2. QED
      BY <1>4, <3>1 DEF Ending
  <2>2. Reached(x, y, f).cost = SizeOfWay(<<x + Weight(f), y + DescBits(f)>>)
    BY <1>1, <2>1, EndIsReckoned DEF Chosen
  <2>3. Reached(x, y, f).cost = SizeOfWay(<<x1, y1>>)
    BY <1>4, <1>8, <1>9, <2>2
  <2>4. SizeOfWay(<<x1, y1>>) <= SizeOfWay(<<a1, d1>>)
    <3>1. x1 \in Int /\ a1 \in Int
      OBVIOUS
    <3>2. QED
      BY <1>1, <1>10, <3>1, SizesAreOrdered DEF Chosen
  <2>5. PICK r \in Int, s \in Int : r = SizeOfWay(<<x1, y1>>) /\ s = SizeOfWay(<<a1, d1>>)
    <3>1. \A z \in Nat, b \in Nat : SizeOfWay(<<z, b>>) \in Int
      <4>1. SUFFICES ASSUME NEW z \in Nat, NEW b \in Nat PROVE SizeOfWay(<<z, b>>) \in Int
        OBVIOUS
      <4>2. PICK tw \in Nat, nt \in Nat : tw = Adaptor.TerminatorWeight /\ nt = Adaptor.NumTermBits
        BY <1>1 DEF Chosen, AdaptorOK
      <4>3. PICK i \in Int : i = z
        BY <4>1
      <4>4. PICK o : o = RoundedUp(b + nt, Adaptor.NumDescBits)
        OBVIOUS
      <4>5. SizeOfWay(<<i, b>>) = i - b + tw - nt + o /\ o \in Int
        BY <1>1, <4>2, <4>4, SizeIs DEF Chosen
      <4>6. QED
        BY <4>3, <4>5
    <3>2. QED
      BY <3>1
  <2>6. QED
    BY <1>11, <2>3, <2>4, <2>5
<1>14. <<c[1] + Weight(e), c[2] + DescBits(e)>> = <<a1, d1>>
  BY <1>7, <1>8, <1>9
<1>15. n # First
  BY <1>1 DEF Chosen
<1>16. QED
  BY <1>2, <1>10, <1>12, <1>13, <1>14, <1>15 DEF Best

(* So no way at all is better, by induction over the place it leads to.    *)
LEMMA WaysAreBest ==
  ASSUME RealFiles, WInv, OfferInv, node = numNodes, Adaptor.NeedEarlyDescriptor = FALSE
  PROVE  \A c \in Ways(Considered) : Best(c, nlen)
<1>1. Chosen
  BY TheChoice
<1>2. First \in Nat /\ nlen \in Nat /\ First <= nlen
  BY <1>1 DEF Chosen
<1>3. PICK g : g = [n \in First .. nlen |-> WaysTo(g, n)] /\ Ways(Considered) = g[nlen]
  BY <1>2, WaysAre
<1> DEFINE Right(n) == \A c \in g[n] : Best(c, n)
           S == {m \in Nat : \A n \in First .. nlen : n <= First + m => Right(n)}
<1>4. Right(First)
  <2>1. g[First] = {<<0, 0>>}
    BY <1>2, <1>3 DEF WaysTo
  <2>2. costs[0] = 0 /\ First - First = 0 /\ ~(First > First)
    BY <1>2 DEF WInv, PricesInv
  <2>3. PICK n \in {8, 16} : n = Adaptor.NumDescBits
    BY <1>1 DEF Chosen
  <2>4. 0 \in Int /\ 0 = 0 + n * 0 /\ 0 <= 0 /\ 0 \in Nat
    OBVIOUS
  <2>5. Whole(0, 0)
    BY <2>3, <2>4 DEF Whole
  <2>6. Best(<<0, 0>>, First)
    BY <2>2, <2>4, <2>5 DEF Best
  <2>7. QED
    BY <2>1, <2>6
<1>5. ASSUME NEW n \in First .. nlen, n > First, \A p \in First .. n - 1 : Right(p)
      PROVE  Right(n)
  <2>1. SUFFICES ASSUME NEW c \in g[n] PROVE Best(c, n)
    OBVIOUS
  <2>2. c \in UNION {Onward(g[p], Shapes[p], n) : p \in First .. n - 1}
    <3>1. n # First
      BY <1>2, <1>5
    <3>2. g[n] = UNION {Onward(g[p], Shapes[p], n) : p \in First .. n - 1}
      BY <1>3, <3>1 DEF WaysTo
    <3>3. QED
      BY <3>2
  <2>3. PICK p \in First .. n - 1 : c \in Onward(g[p], Shapes[p], n)
    BY <2>2
  <2>4. p \in First .. nlen - 1 /\ n > p
    BY <1>2
  <2>5. PICK b \in g[p], x \in Shapes[p] : x.to = n /\ c = <<b[1] + x.weight, b[2] + x.desc>>
    BY <2>3 DEF Onward
  <2>6. PICK e \in Considered(p) : x = [to |-> Dest(e), weight |-> Weight(e), desc |-> DescBits(e)]
    BY <2>4, <2>5 DEF Shapes
  <2>7. Dest(e) = n /\ c = <<b[1] + Weight(e), b[2] + DescBits(e)>>
    BY <2>5, <2>6
  <2>8. Best(b, p)
    BY <1>5, <2>5
  <2>9. Best(<<b[1] + Weight(e), b[2] + DescBits(e)>>, n)
    BY <2>4, <2>7, <2>8, StepIsBest
  <2>10. QED
    BY <2>7, <2>9
<1> HIDE DEF Right
<1>6. 0 \in S
  <2>1. \A n \in First .. nlen : n <= First + 0 => n = First
    BY <1>2
  <2>2. QED
    BY <1>4, <2>1
<1>7. ASSUME NEW m \in S PROVE m + 1 \in S
  <2>1. m \in Nat /\ \A n \in First .. nlen : n <= First + m => Right(n)
    BY <1>7
  <2>2. ASSUME NEW n \in First .. nlen, n <= First + (m + 1) PROVE Right(n)
    <3>1. CASE n <= First + m
      BY <2>1, <3>1
    <3>2. CASE ~(n <= First + m)
      <4>1. n > First /\ \A p \in First .. n - 1 : p \in First .. nlen /\ p <= First + m
        BY <1>2, <2>1, <2>2, <3>2
      <4>2. QED
        BY <1>5, <2>1, <4>1
    <3>3. QED
      BY <3>1, <3>2
  <2>3. m + 1 \in Nat
    BY <2>1
  <2>4. QED
    BY <2>2, <2>3
<1>8. S \in SUBSET Nat
  OBVIOUS
<1>9. Nat \subseteq S
  <2> HIDE DEF S
  <2>1. QED
    BY <1>6, <1>7, <1>8, Induction
<1>10. nlen - First \in S
  <2>1. nlen - First \in Nat
    BY <1>2
  <2> HIDE DEF S
  <2>2. QED
    BY <1>9, <2>1
<1>11. Right(nlen)
  <2>1. nlen \in First .. nlen /\ nlen <= First + (nlen - First)
    BY <1>2
  <2>2. QED
    BY <1>10, <2>1
<1>12. QED
  BY <1>3, <1>11 DEF Right

-----------------------------------------------------------------------------
(* The file is as large as its tokens and the terminator make it.          *)
LEMMA WrittenIs ==
  ASSUME RealFiles, CInv, closed, Adaptor.NeedEarlyDescriptor = FALSE, NEW marks, Laid(marks)
  PROVE  /\ WrittenBits = SizeOfWay(<<SizeAt(marks[edge]), Bits(marks[edge])>>)
         /\ WrittenBits \in Int /\ SizeAt(marks[edge]) \in Nat /\ Bits(marks[edge]) \in Nat
<1>1. Finished /\ edge = Len(parselist) /\ format \in DOMAIN Adaptors /\ data \in Inputs[format]
  BY DEF CInv, Progress, WInv, PInv
<1>2. Adaptor \in Formats /\ AdaptorOK(Adaptor) /\ Adaptor.NumDescBits \in {8, 16}
  BY <1>1, TheFormat, TheAdaptor, DescriptorFields
<1>3. PICK t : t = Terminator(Adaptor)
  OBVIOUS
<1>4. edge \in 0 .. edge
  <2>1. edge \in Nat
    BY <1>1 DEF CInv, WInv, ChainInv
  <2>2. QED
    BY <2>1
<1>5. PICK m \in Nat, n \in Nat : m = marks[edge] /\ n = Len(items)
  <2>1. items \in Seq(Item)
    BY DEF CInv, Progress
  <2>2. QED
    BY <1>4, <2>1 DEF Laid
<1>6. EndPays(Adaptor, t)
  BY <1>2, <1>3, TerminatorPays
<1>7. PICK l \in 0 .. 5 : l = Len(t)
  BY <1>1, <1>3, LengthOfEnd
<1>8. n = m + l /\ LiesAt(items, m, t)
  BY <1>3, <1>5, <1>7 DEF Laid
<1>9. PICK d \in Nat, b \in Nat : d = Bits(m) /\ b = BitsOf(t) /\ Bits(n) = d + b
  <2>1. BitsOf(t) \in Nat /\ Bits(m + l) = Bits(m) + BitsOf(t)
    BY <1>7, <1>8, BitsAdd
  <2>2. Bits(m) \in Nat
    BY PlacesAreCounted
  <2>3. QED
    BY <1>8, <2>1, <2>2
<1>10. PICK tw \in Nat : tw = Adaptor.TerminatorWeight /\ b = Adaptor.NumTermBits /\ b + 8 * (l - b) = tw
  BY <1>2, <1>6, <1>7, <1>9 DEF EndPays, AdaptorOK
<1>11. PICK f \in Int, r \in Int : /\ f = Fields(d + b) * (Adaptor.NumDescBits \div 8)
                                   /\ r = RoundedUp(d + b, Adaptor.NumDescBits) /\ r = 8 * f
  <2>1. PICK x \in Nat : x = d + b
    OBVIOUS
  <2>2. RoundedUp(x, Adaptor.NumDescBits) = 8 * (Fields(x) * (Adaptor.NumDescBits \div 8))
    BY <1>2, RoundedIsCharged
  <2>3. Fields(x) * (Adaptor.NumDescBits \div 8) \in Int
    BY <1>2, FieldsAreCharged
  <2>4. QED
    BY <2>1, <2>2, <2>3
<1>12. PICK a \in Nat : a = SizeAt(m) /\ a = d + 8 * (m - d)
  <2>1. m - Bits(m) \in Nat
    BY PlacesAreCounted
  <2>2. PICK k \in Nat : k = m - d
    BY <1>9, <2>1
  <2>3. d + 8 * k \in Nat
    OBVIOUS
  <2>4. QED
    BY <1>9, <2>2, <2>3 DEF SizeAt
<1>13. SizeOfWay(<<a, d>>) = a - d + tw - b + r
  <2>1. a \in Int
    OBVIOUS
  <2>2. SizeOfWay(<<a, d>>) = a - d + Adaptor.TerminatorWeight - Adaptor.NumTermBits
                                + RoundedUp(d + Adaptor.NumTermBits, Adaptor.NumDescBits)
    BY <1>2, <2>1, SizeIs
  <2>3. QED
    BY <1>10, <1>11, <2>2
<1>14. WrittenBits = 8 * (f + n - (d + b))
  <2>1. Streamed(n) = f + n - (d + b)
    BY <1>9, <1>11 DEF Streamed
  <2>2. QED
    BY <1>5, <2>1 DEF WrittenBits
<1>15. 8 * (f + n - (d + b)) = a - d + tw - b + r
  BY <1>8, <1>10, <1>11, <1>12
<1>16. 8 * (f + n - (d + b)) \in Int
  OBVIOUS
<1>17. QED
  BY <1>5, <1>9, <1>12, <1>13, <1>14, <1>15, <1>16

(* No way makes it smaller: to its last node, if the parser has charged    *)
(* the end there, or to where the last token lies.                         *)
LEMMA WrittenIsBest ==
  ASSUME RealFiles, CInv, OfferInv, closed, Adaptor.NeedEarlyDescriptor = FALSE,
         NEW c \in Ways(Considered)
  PROVE  WrittenBits <= SizeOfWay(c)
<1>1. /\ Finished /\ edge = Len(parselist) /\ format \in DOMAIN Adaptors /\ data \in Inputs[format]
      /\ WInv /\ node = numNodes
  BY DEF CInv, Progress, WInv, PInv, Finished
<1>2. PICK marks : Laid(marks)
  BY DEF CInv
<1>3. Chosen
  BY <1>1, TheChoice
<1>4. PICK a \in Nat, d \in Nat :
        /\ c = <<a, d>> /\ Whole(a, d)
        /\ First > 0 \/ nlen = First => costs[numNodes] <= a
        /\ First = 0 /\ nlen > First => costs[numNodes] <= SizeOfWay(c)
  <2>1. Best(c, nlen)
    BY <1>1, WaysAreBest
  <2>2. QED
    BY <1>3, <2>1 DEF Best, Chosen
<1>5. CASE First = 0 /\ parselist # << >>
  <2>1. costs[numNodes] = WrittenBits + Padding(WrittenBits)
    BY <1>5, EndIsCharged
  <2>2. PICK w \in Int : w = WrittenBits
    BY <1>2, WrittenIs
  <2>3. Padding(w) = 0
    <3>1. Adaptor.padMask = 0
      BY <1>3, FormatsCharge DEF Charges, Chosen
    <3>2. QED
      BY <3>1, PaddingIsNone
  <2>4. costs[numNodes] = w
    BY <2>1, <2>2, <2>3
  <2>5. nlen > First
    <3>1. nlen # First
      <4>1. SUFFICES ASSUME nlen = First PROVE FALSE
        OBVIOUS
      <4>2. numNodes = 0
        BY <1>3, <4>1 DEF Chosen
      <4>3. 1 \in 1 .. Len(parselist)
        <5>1. parselist \in Seq(Edges)
          BY <1>1 DEF WInv, ChainInv
        <5>2. QED
          BY <1>5, <5>1
      <4>4. Stop(1) \in 1 .. numNodes
        BY <1>1, <4>3 DEF WInv, ChainInv
      <4>5. QED
        BY <4>2, <4>4
    <3>2. QED
      BY <1>3, <3>1 DEF Chosen
  <2>6. QED
    BY <1>4, <1>5, <2>2, <2>4, <2>5
<1>6. CASE First > 0 \/ parselist = << >>
  <2>1. edge \in Nat /\ (edge = 0 \/ First > 0) /\ (edge = 0 => First > 0 \/ nlen = First) /\ Stop(edge) = numNodes
    <3>1. parselist \in Seq(Edges) /\ Stop(Len(parselist)) = numNodes
      BY <1>1 DEF WInv, ChainInv
    <3>2. edge \in Nat /\ Stop(edge) = numNodes /\ (parselist = << >> => edge = 0)
      BY <1>1, <3>1
    <3>3. edge = 0 => numNodes = 0
      BY <1>1, <3>2 DEF Stop, Finished
    <3>4. numNodes = 0 => nlen = First
      BY <1>3 DEF Chosen
    <3>5. QED
      BY <1>6, <3>2, <3>3, <3>4
  <2>2. costs[numNodes] = SizeAt(marks[edge]) /\ desccosts[numNodes] = Bits(marks[edge])
    <3>1. edge \in 0 .. edge
      BY <2>1
    <3>2. desccosts[Stop(edge)] = Bits(marks[edge]) /\ costs[Stop(edge)] = SizeAt(marks[edge])
      BY <1>1, <1>2, <2>1, <3>1, CostsAlong
    <3>3. QED
      BY <2>1, <3>2
  <2>3. PICK x \in Nat, y \in Nat : x = SizeAt(marks[edge]) /\ y = Bits(marks[edge]) /\ WrittenBits = SizeOfWay(<<x, y>>)
    BY <1>2, WrittenIs
  <2>4. x <= a
    BY <1>4, <2>1, <2>2, <2>3
  <2>5. Whole(x, y)
    <3>1. CASE First > 0
      <4>1. numNodes \in 0 .. numNodes
        BY <1>3 DEF Chosen
      <4>2. Whole(costs[numNodes], desccosts[numNodes])
        BY <1>1, <3>1, <4>1, NodesAreWhole
      <4>3. QED
        BY <2>2, <2>3, <4>2
    <3>2. CASE edge = 0
      <4>1. marks[0] = 0 /\ Bits(0) = 0 /\ SizeAt(0) = 0
        BY <1>2, NoItem DEF Laid, SizeAt
      <4>2. x = 0 /\ y = 0
        BY <2>3, <3>2, <4>1
      <4>3. PICK n \in {8, 16} : n = Adaptor.NumDescBits
        BY <1>3 DEF Chosen
      <4>4. 0 \in Int /\ 0 = 0 + n * 0
        OBVIOUS
      <4>5. QED
        BY <4>2, <4>3, <4>4 DEF Whole
    <3>3. QED
      BY <2>1, <3>1, <3>2
  <2>6. x \in Int /\ a \in Int
    OBVIOUS
  <2>7. SizeOfWay(<<x, y>>) <= SizeOfWay(<<a, d>>)
    BY <1>3, <1>4, <2>4, <2>5, <2>6, SizesAreOrdered DEF Chosen
  <2>8. QED
    BY <1>4, <2>3, <2>7
<1>7. QED
  <2>1. First = 0 \/ First > 0
    BY <1>3 DEF Chosen
  <2>2. QED
    BY <1>5, <1>6, <2>1

(* Beside encode and decode the parser's offers settle.                    *)
LEMMA CodecOffers ==
  ASSUME CInv, OfferInv, [CodecNext]_<<vars, coding>>
  PROVE  OfferInv'
<1>1. [Next]_vars
  BY DEF CodecNext, Parse, WriteEdge, WriteEnd, ReadToken, ReadEnd
<1>2. QED
  BY <1>1, StepOffers DEF CInv

(* Where descriptor fields are fetched when they are needed, the file that *)
(* is written is as small as any that its format has, whatever matches of  *)
(* whatever length it uses, in any order: find_optimal_lzss_parse offers,  *)
(* relaxes and takes one edge per place and length, of the nearest match,  *)
(* and that is enough.                                                     *)
THEOREM NoParseIsSmaller == ASSUME RealFiles PROVE CodecSpec => []BestOfConsidered
<1>1. CodecInit => OfferInv
  BY InitOffers DEF CodecInit
<1>2. CInv /\ OfferInv /\ [CodecNext]_<<vars, coding>> => OfferInv'
  BY CodecOffers
<1>3. CInv /\ OfferInv => BestOfConsidered
  <2>1. SUFFICES ASSUME CInv, OfferInv, Written, ~Adaptor.NeedEarlyDescriptor,
                        NEW c \in Ways(Considered)
                 PROVE  WrittenBits <= SizeOfWay(c)
    BY DEF BestOfConsidered
  <2>2. Adaptor.NeedEarlyDescriptor = FALSE
    <3>1. Adaptor.NeedEarlyDescriptor \in BOOLEAN
      BY <2>1, TheFormat, DescriptorFields DEF CInv, WInv, PInv
    <3>2. QED
      BY <2>1, <3>1
  <2>3. QED
    BY <2>1, <2>2, WrittenIsBest DEF Written
<1>4. CodecSpec => []CInv
  BY CodecInvariant
<1>5. QED
  BY <1>1, <1>2, <1>3, <1>4, PTL DEF CodecSpec
=============================================================================
