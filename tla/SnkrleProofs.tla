---------------------------- MODULE SnkrleProofs ----------------------------
(***************************************************************************)
(* Proofs about Snkrle and SnkrleAsm, for counts of any range and files of *)
(* any length: the types, what the decoder of snkrle.cc gives back, that   *)
(* it keeps its place in the codes, and what SNKRLE.asm counts in d1.      *)
(***************************************************************************)
EXTENDS SnkrleAsm, SequenceTheorems, TLAPS

Labels == Labelled \cup {"encode", "run", "decode", "done", "end"}

(* The types that hold by themselves: the bounds on dpos and left that     *)
(* ATypeOK has follow from the layout of the codes below.                  *)
ITypeOK ==
  /\ data \in Seq(Byte) /\ size = Len(data)
  /\ rd \in 1 .. Len(data) + 1
  /\ cc \in Byte /\ nc \in Byte /\ cnt \in Byte
  /\ codes \in Seq(Byte)
  /\ dpos \in Nat /\ left \in Int /\ dcc \in Byte /\ out \in Seq(Byte)
  /\ a0 \in Nat /\ d1 \in Word /\ d3 \in Byte /\ d6 \in Byte \X Byte
  /\ dst \in Seq(Byte)
  /\ pc \in Labels

(* The numbers among them.                                                 *)
LEMMA Numbers ==
  ASSUME ITypeOK
  PROVE  /\ data \in Seq(Byte) /\ codes \in Seq(Byte) /\ out \in Seq(Byte)
         /\ Len(data) \in Nat /\ Len(codes) \in Nat /\ Len(out) \in Nat
         /\ size = Len(data) /\ rd \in 1 .. Len(data) + 1 /\ dpos \in Nat
         /\ MaxRun \in Nat
<1>1. data \in Seq(Byte) /\ codes \in Seq(Byte) /\ out \in Seq(Byte)
  BY DEF ITypeOK
<1>2. size = Len(data) /\ rd \in 1 .. Len(data) + 1 /\ dpos \in Nat
  BY DEF ITypeOK
<1>3. MaxRun \in Nat
  BY RunAssumption
<1>4. QED
  BY <1>1, <1>2, <1>3

(* Sequences of bytes are joined in any order.                             *)
LEMMA BytesRegroup ==
  \A f, g, h \in Seq(Byte) : (f \o g) \o h = f \o (g \o h)
BY ConcatAssociative

(* What Read1 gives is a byte, and the one there if there is one.          *)
LEMMA ReadsBytes ==
  ASSUME ITypeOK, NEW k \in Nat
  PROVE  /\ Given(k) \subseteq Byte /\ Code(k) \subseteq Byte
         /\ k < Len(data) => Given(k) = {data[k + 1]} /\ data[k + 1] \in Byte
         /\ k < Len(codes) => Code(k) = {codes[k + 1]} /\ codes[k + 1] \in Byte
<1>1. k < Len(data) => data[k + 1] \in Byte
  BY DEF ITypeOK
<1>2. k < Len(codes) => codes[k + 1] \in Byte
  BY DEF ITypeOK
<1>3. QED
  BY <1>1, <1>2 DEF Given, Code

(* Copies of a byte and of a word.                                         *)
LEMMA CopiesAre ==
  ASSUME NEW b \in Byte, NEW n \in Nat
  PROVE  /\ Copies(b, n) \in Seq(Byte) /\ Len(Copies(b, n)) = n
         /\ \A i \in 1 .. n : Copies(b, n)[i] = b
BY DEF Copies

(* Copies of a word are bytes, two for each.                               *)
LEMMA WordsAre ==
  ASSUME NEW w \in Byte \X Byte, NEW n \in Nat
  PROVE  Words(w, n) \in Seq(Byte) /\ Len(Words(w, n)) = 2 * n
<1>1. w[1] \in Byte /\ w[2] \in Byte
  OBVIOUS
<1>2. 2 * n \in Nat
  OBVIOUS
<1> DEFINE f == [i \in 1 .. 2 * n |-> IF i % 2 = 1 THEN w[1] ELSE w[2]]
<1>3. f \in [1 .. 2 * n -> Byte]
  BY <1>1
<1>4. f \in Seq(Byte) /\ Len(f) = 2 * n
  BY <1>2, <1>3
<1>5. QED
  BY <1>4 DEF Words

(* A byte and half of it are numbers.                                      *)
LEMMA BytesAreNumbers ==
  /\ MaxRun \in Nat \ {0} /\ 0 \in Byte
  /\ \A n \in Byte : n \in Nat /\ n \div 2 \in Nat /\ n <= MaxRun
  /\ \A n \in Byte \ {0} : n - 1 \in Nat /\ (n - 1) \div 2 \in Nat
BY RunAssumption DEF Byte

(* A word is a number below 65536.                                         *)
LEMMA WordsAreNumbers == 0 \in Word /\ \A x \in Word : x \in Nat /\ x < 65536
<1>1. PICK m \in Nat \ {0} : m = 65536
  OBVIOUS
<1>2. Word = 0 .. (m - 1)
  BY <1>1 DEF Word
<1>3. 0 \in Word /\ \A x \in Word : x \in Nat /\ x < m
  BY <1>2
<1>4. QED
  BY <1>1, <1>3

(* Wrapping to sixteen bits gives a word.                                  *)
LEMMA WrapIsWord == \A n \in Int : Wrap(n) \in Word /\ Wrap(n) \in Nat
<1>1. PICK m \in Nat \ {0} : m = 65536
  OBVIOUS
<1>2. Word = 0 .. (m - 1)
  BY <1>1 DEF Word
<1>3. ASSUME NEW n \in Int PROVE Wrap(n) \in Word
  <2>1. n % m \in 0 .. (m - 1)
    OBVIOUS
  <2>2. Wrap(n) = n % m
    BY <1>1 DEF Wrap
  <2>3. QED
    BY <1>2, <2>1, <2>2
<1>4. QED
  BY <1>3, WordsAreNumbers

(* The states start with their types.                                      *)
LEMMA InitHasTypes == AInit => ITypeOK
<1> SUFFICES ASSUME AInit PROVE ITypeOK
  OBVIOUS
<1>1. data \in Seq(Byte)
  BY RunAssumption DEF AInit, Init
<1>2. cc \in Byte
  BY <1>1 DEF AInit, Init, Given
<1>3. 0 \in Word /\ <<0, 0>> \in Byte \X Byte /\ <<>> \in Seq(Byte)
  BY BytesAreNumbers DEF Word
<1>4. size = Len(data) /\ rd \in 1 .. Len(data) + 1 /\ pc \in Labels
  BY <1>1 DEF AInit, Init, Labels
<1>5. QED
  BY <1>1, <1>2, <1>3, <1>4, BytesAreNumbers DEF AInit, Init, ITypeOK

(* The encoder of snkrle.cc keeps them.                                    *)
LEMMA EncoderKeepsTypes ==
  ASSUME ITypeOK, EncodeNext \/ EncodeRun, UNCHANGED asm
  PROVE  ITypeOK'
<1>1. UNCHANGED <<data, size, dpos, left, dcc, out, a0, d1, d3, d6, dst>>
  BY DEF EncodeNext, EncodeRun, decoder, asm
<1>2. rd' \in 1 .. Len(data) + 1 /\ cc' \in Byte /\ nc' \in Byte /\ cnt' \in Byte
  <2>1. CASE EncodeNext
    <3>1. Given(rd) \subseteq Byte /\ Given(rd + 1) \subseteq Byte
      <4>1. rd \in Nat /\ rd + 1 \in Nat
        BY DEF ITypeOK
      <4>2. QED
        BY <4>1, ReadsBytes
    <3>2. cc' \in Byte /\ nc' \in Byte /\ cnt' \in Byte
      BY <2>1, <3>1, BytesAreNumbers DEF EncodeNext, ITypeOK
    <3>3. rd <= Len(data) /\ (rd' = rd + 1 \/ (rd < Len(data) /\ rd' = rd + 2))
      BY <2>1 DEF EncodeNext, Good, ITypeOK
    <3>4. QED
      BY <3>2, <3>3 DEF ITypeOK
  <2>2. CASE EncodeRun
    <3>1. Given(rd) \subseteq Byte
      <4>1. rd \in Nat
        BY DEF ITypeOK
      <4>2. QED
        BY <4>1, ReadsBytes
    <3>2. CASE Good /\ nc = cc /\ cnt < MaxRun
      <4>1. cnt' = cnt + 1 /\ rd' = rd + 1 /\ cc' \in Given(rd) /\ nc' = nc
        BY <2>2, <3>2 DEF EncodeRun
      <4>2. cnt + 1 \in Byte
        BY <3>2, RunAssumption DEF Byte, ITypeOK
      <4>3. QED
        BY <3>1, <3>2, <4>1, <4>2 DEF Good, ITypeOK
    <3>3. CASE ~(Good /\ nc = cc /\ cnt < MaxRun)
      BY <2>2, <3>3 DEF EncodeRun, ITypeOK
    <3>4. QED
      BY <3>2, <3>3
  <2>3. QED
    BY <2>1, <2>2
<1>3. codes' \in Seq(Byte) /\ pc' \in Labels
  <2>1. CASE EncodeNext
    <3>1. Given(rd) \subseteq Byte
      <4>1. rd \in Nat
        BY DEF ITypeOK
      <4>2. QED
        BY <4>1, ReadsBytes
    <3>2. pc' \in {pc, "run"}
      BY <2>1 DEF EncodeNext
    <3>3. \E b \in Byte : codes' = Append(codes, cc) \/ codes' = codes \o <<cc, b>>
      BY <2>1, <3>1 DEF EncodeNext
    <3>4. codes' \in Seq(Byte)
      <4>1. codes \in Seq(Byte) /\ cc \in Byte
        BY DEF ITypeOK
      <4>2. PICK b \in Byte : codes' = Append(codes, cc) \/ codes' = codes \o <<cc, b>>
        BY <3>3
      <4>3. Append(codes, cc) \in Seq(Byte) /\ codes \o <<cc, b>> \in Seq(Byte)
        BY <4>1
      <4>4. QED
        BY <4>2, <4>3
    <3>5. QED
      BY <3>2, <3>4 DEF Labels, ITypeOK
  <2>2. CASE EncodeRun
    <3>1. pc' \in {pc, "encode"} /\ (codes' = codes \/ codes' = Append(codes, cnt))
      BY <2>2 DEF EncodeRun
    <3>2. codes \in Seq(Byte) /\ cnt \in Byte /\ pc \in Labels
      BY DEF ITypeOK
    <3>3. Append(codes, cnt) \in Seq(Byte)
      BY <3>2
    <3>4. QED
      BY <3>1, <3>2, <3>3 DEF Labels
  <2>3. QED
    BY <2>1, <2>2
<1>4. QED
  BY <1>1, <1>2, <1>3 DEF ITypeOK

(* A round of the decoder, with the byte and the count it reads.           *)
Round(b, n, c) ==
  \/ /\ b # dcc
     /\ out' = Append(out, b) /\ dcc' = b
     /\ dpos' = dpos + 1 /\ left' = left - 1
  \/ /\ b = dcc /\ n = MaxRun /\ left - 1 - n # 0
     /\ out' = Append(out, b) \o Copies(b, n) \o <<b>>
     /\ dcc' = c
     /\ dpos' = dpos + 3 /\ left' = left - 2 - n
  \/ /\ b = dcc /\ ~(n = MaxRun /\ left - 1 - n # 0)
     /\ out' = Append(out, b) \o Copies(b, n)
     /\ dpos' = dpos + 2 /\ left' = left - 1 - n
     /\ dcc' = dcc

(* DecodeNext goes such a round, or ends.                                  *)
LEMMA DecodeNextIsRound ==
  ASSUME ITypeOK, DecodeNext, left # 0
  PROVE  /\ pc = "decode" /\ pc' = pc /\ UNCHANGED encoder
         /\ \E b \in Code(dpos), n \in Code(dpos + 1), c \in Code(dpos + 2) : Round(b, n, c)
<1>1. pc = "decode" /\ pc' = pc /\ UNCHANGED encoder
  BY DEF DecodeNext
<1>2. PICK b \in Code(dpos) :
       IF b # dcc
         THEN /\ out' = Append(out, b) /\ dcc' = b
              /\ dpos' = dpos + 1 /\ left' = left - 1
       ELSE \E n \in Code(dpos + 1) :
         IF n = MaxRun /\ left - 1 - n # 0
           THEN \E c \in Code(dpos + 2) :
                  /\ out' = Append(out, b) \o Copies(b, n) \o <<b>>
                  /\ dcc' = c
                  /\ dpos' = dpos + 3 /\ left' = left - 2 - n
         ELSE /\ out' = Append(out, b) \o Copies(b, n)
              /\ dpos' = dpos + 2 /\ left' = left - 1 - n
              /\ UNCHANGED dcc
  BY DEF DecodeNext
<1>3. dpos \in Nat /\ dpos + 1 \in Nat /\ dpos + 2 \in Nat
  BY DEF ITypeOK
<1>4. PICK n0 : n0 \in Code(dpos + 1)
  BY <1>3, BytesAreNumbers DEF Code
<1>5. PICK c0 : c0 \in Code(dpos + 2)
  BY <1>3, BytesAreNumbers DEF Code
<1>6. CASE b # dcc
  BY <1>1, <1>2, <1>4, <1>5, <1>6 DEF Round
<1>7. CASE b = dcc
  <2>1. PICK n \in Code(dpos + 1) :
         IF n = MaxRun /\ left - 1 - n # 0
           THEN \E c \in Code(dpos + 2) :
                  /\ out' = Append(out, b) \o Copies(b, n) \o <<b>>
                  /\ dcc' = c
                  /\ dpos' = dpos + 3 /\ left' = left - 2 - n
         ELSE /\ out' = Append(out, b) \o Copies(b, n)
              /\ dpos' = dpos + 2 /\ left' = left - 1 - n
              /\ UNCHANGED dcc
    BY <1>2, <1>7
  <2>2. CASE n = MaxRun /\ left - 1 - n # 0
    <3>1. \E c \in Code(dpos + 2) : Round(b, n, c)
      BY <1>7, <2>1, <2>2 DEF Round
    <3>2. QED
      BY <1>1, <3>1
  <2>3. CASE ~(n = MaxRun /\ left - 1 - n # 0)
    <3>1. Round(b, n, c0)
      BY <1>7, <2>1, <2>3 DEF Round
    <3>2. QED
      BY <1>1, <1>5, <3>1
  <2>4. QED
    BY <2>2, <2>3
<1>8. QED
  BY <1>6, <1>7

(* The decoder of snkrle.cc keeps the types.                               *)
LEMMA DecoderKeepsTypes ==
  ASSUME ITypeOK, DecodeFirst \/ DecodeNext, UNCHANGED asm
  PROVE  ITypeOK'
<1>1. CASE DecodeFirst
  <2>1. Code(0) \subseteq Byte
    BY ReadsBytes
  <2>2. /\ UNCHANGED encoder /\ pc' \in {"done", "decode"}
        /\ \/ UNCHANGED decoder
           \/ \E b \in Code(0) : dcc' = b /\ out' = <<b>> /\ dpos' = 1 /\ left' = size - 1
    BY <1>1 DEF DecodeFirst
  <2>3. CASE UNCHANGED decoder
    BY <2>2, <2>3 DEF ITypeOK, Labels, encoder, decoder, asm
  <2>4. CASE \E b \in Code(0) : dcc' = b /\ out' = <<b>> /\ dpos' = 1 /\ left' = size - 1
    <3>1. size \in Nat
      BY DEF ITypeOK
    <3>2. dcc' \in Byte /\ out' \in Seq(Byte) /\ dpos' \in Nat /\ left' \in Int
      BY <2>1, <2>4, <3>1
    <3>3. QED
      BY <2>2, <3>2 DEF ITypeOK, Labels, encoder, asm
  <2>5. QED
    BY <2>2, <2>3, <2>4
<1>2. CASE DecodeNext /\ left = 0
  <2>1. pc' = "done" /\ UNCHANGED decoder /\ UNCHANGED encoder
    BY <1>2 DEF DecodeNext
  <2>2. QED
    BY <2>1 DEF ITypeOK, Labels, encoder, decoder, asm
<1>3. CASE DecodeNext /\ left # 0
  <2>1. /\ pc' = pc /\ UNCHANGED encoder
        /\ \E b \in Code(dpos), n \in Code(dpos + 1), c \in Code(dpos + 2) : Round(b, n, c)
    BY <1>3, DecodeNextIsRound
  <2>2. PICK b \in Code(dpos), n \in Code(dpos + 1), c \in Code(dpos + 2) : Round(b, n, c)
    BY <2>1
  <2>3. b \in Byte /\ n \in Byte /\ c \in Byte /\ n \in Nat
    <3>1. dpos \in Nat /\ dpos + 1 \in Nat /\ dpos + 2 \in Nat
      BY DEF ITypeOK
    <3>2. Code(dpos) \subseteq Byte /\ Code(dpos + 1) \subseteq Byte /\ Code(dpos + 2) \subseteq Byte
      BY <3>1, ReadsBytes
    <3>3. QED
      BY <2>2, <3>2, BytesAreNumbers
  <2>4. Copies(b, n) \in Seq(Byte)
    BY <2>3, CopiesAre
  <2>5. out \in Seq(Byte) /\ dcc \in Byte /\ dpos \in Nat /\ left \in Int
    BY DEF ITypeOK
  <2>6. out' \in Seq(Byte)
    <3>1. Append(out, b) \in Seq(Byte) /\ <<b>> \in Seq(Byte)
      BY <2>3, <2>5
    <3>2. Append(out, b) \o Copies(b, n) \in Seq(Byte)
      BY <2>4, <3>1
    <3>3. Append(out, b) \o Copies(b, n) \o <<b>> \in Seq(Byte)
      BY <3>1, <3>2
    <3>4. QED
      BY <2>2, <3>1, <3>2, <3>3 DEF Round
  <2>7. dcc' \in Byte /\ dpos' \in Nat /\ left' \in Int
    <3>1. dpos' \in {dpos + 1, dpos + 2, dpos + 3}
      BY <2>2 DEF Round
    <3>2. left' \in {left - 1, left - 2 - n, left - 1 - n}
      BY <2>2 DEF Round
    <3>3. dcc' \in {b, c, dcc}
      BY <2>2 DEF Round
    <3>4. QED
      BY <2>3, <2>5, <3>1, <3>2, <3>3
  <2>8. QED
    BY <2>1, <2>6, <2>7 DEF ITypeOK, encoder, asm
<1>4. QED
  BY <1>1, <1>2, <1>3

-----------------------------------------------------------------------------
(* Words: taking off twice is taking off the sum.                          *)
LEMMA WrapSum ==
  ASSUME NEW x \in Int, NEW k \in Int
  PROVE  Wrap(Wrap(x) + k) = Wrap(x + k)
<1>1. PICK q \in Int : x = 65536 * q + Wrap(x) /\ Wrap(x) \in Int
  BY DEF Wrap
<1>2. PICK y \in Int : y = Wrap(x) + k
  BY <1>1
<1>3. x + k = y + 65536 * q
  BY <1>1, <1>2
<1>4. (y + 65536 * q) % 65536 = y % 65536
  BY <1>1, <1>2
<1>5. QED
  BY <1>2, <1>3, <1>4 DEF Wrap

(* Wrapping leaves a word alone.                                           *)
LEMMA WrapOfWord ==
  ASSUME NEW x \in Word
  PROVE  Wrap(x) = x
<1>1. x \in Nat /\ x < 65536
  BY WordsAreNumbers
<1>2. QED
  BY <1>1 DEF Wrap

(* The largest count is odd.                                               *)
LEMMA MaxRunIsOdd == \E h \in Nat : h = MaxRun \div 2 /\ MaxRun = 2 * h + 1
<1>1. PICK n \in Nat : n = MaxRun /\ n % 2 = 1
  BY RunAssumption, WordAssumption
<1>2. PICK h \in Nat : h = n \div 2 /\ (n = 2 * h \/ n = 2 * h + 1)
  OBVIOUS
<1>3. n = 2 * h + 1
  BY <1>1, <1>2
<1>4. QED
  BY <1>1, <1>2, <1>3

(* Words keep the parity of what they count.                               *)
LEMMA WrapParity ==
  ASSUME NEW x \in Int
  PROVE  Wrap(x) % 2 = x % 2
BY DEF Wrap

(* m words go out and are counted off d1.                                  *)
Takes(m) == Len(dst') = Len(dst) + 2 * m /\ d1' = Wrap(d1 - 2 * m)

Steps ==
  /\ dst' \in Seq(Byte) /\ d1' \in Word /\ pc' \in Labelled \cup {"end"}
  /\ pc' \in Labelled => \E m \in Nat : Takes(m)

(* The words after the first of a run.                                     *)
LEMMA AfterRunSteps ==
  ASSUME ITypeOK, NEW n \in Nat, NEW w \in Byte \X Byte, AfterRun(n, w, Wrap(d1 - 2))
  PROVE  Steps
<1>1. d1 \in Int /\ dst \in Seq(Byte) /\ w[1] \in Byte /\ w[2] \in Byte
  BY WordsAreNumbers DEF ITypeOK
<1>2. PICK m \in Nat : m = n \div 2 /\ (n = 2 * m \/ n = 2 * m + 1)
  OBVIOUS
<1>3. PICK rest : rest = Wrap(Wrap(d1 - 2) - n)
  OBVIOUS
<1>4. /\ dst' = dst \o <<w[1], w[2]>> \o Words(w, m)
      /\ rest = 0 => d1' = 0 /\ pc' = "end"
      /\ rest # 0 /\ n = 2 * m + 1 => d1' = Wrap(rest + 1) /\ pc' = "main_loop"
      /\ rest # 0 /\ n = 2 * m => d1' = rest /\ pc' = "main_loop_buffer_clear"
  <2>1. n = 2 * m + 1 <=> n % 2 = 1
    BY <1>2
  <2>2. QED
    BY <1>2, <1>3, <2>1 DEF AfterRun
<1>5. dst' \in Seq(Byte) /\ Len(dst') = Len(dst) + 2 * (m + 1)
  <2>1. Words(w, m) \in Seq(Byte) /\ Len(Words(w, m)) = 2 * m
    BY WordsAre
  <2>2. <<w[1], w[2]>> \in Seq(Byte) /\ Len(<<w[1], w[2]>>) = 2
    BY <1>1
  <2>3. dst \o <<w[1], w[2]>> \in Seq(Byte) /\ Len(dst \o <<w[1], w[2]>>) = Len(dst) + 2
    BY <1>1, <2>2
  <2>4. PICK p, q : p = dst \o <<w[1], w[2]>> /\ q = Words(w, m)
    OBVIOUS
  <2>5. p \in Seq(Byte) /\ q \in Seq(Byte) /\ dst' = p \o q /\ Len(p) = Len(dst) + 2 /\ Len(q) = 2 * m
    BY <1>4, <2>1, <2>3, <2>4
  <2>6. p \o q \in Seq(Byte) /\ Len(p \o q) = Len(p) + Len(q)
    BY ONLY <2>5, ConcatProperties
  <2>7. Len(dst) \in Nat
    BY <1>1
  <2>8. QED
    BY <2>5, <2>6, <2>7
<1>6. rest = Wrap(d1 - 2 - n) /\ rest \in Word /\ Wrap(rest + 1) = Wrap(d1 - 2 - n + 1)
  <2>1. d1 - 2 \in Int /\ -n \in Int /\ d1 - 2 - n \in Int
    BY <1>1
  <2>2. Wrap(Wrap(d1 - 2) + (-n)) = Wrap(d1 - 2 + (-n))
    BY <2>1, WrapSum
  <2>3. Wrap(d1 - 2) \in Int
    BY <2>1, WrapIsWord
  <2>4. rest = Wrap(d1 - 2 - n)
    <3>1. Wrap(d1 - 2) + (-n) = Wrap(d1 - 2) - n /\ d1 - 2 + (-n) = d1 - 2 - n
      BY <2>1, <2>3
    <3>2. QED
      BY <1>3, <2>2, <3>1
  <2>5. rest \in Word
    BY <2>1, <2>4, WrapIsWord
  <2>6. Wrap(Wrap(d1 - 2 - n) + 1) = Wrap(d1 - 2 - n + 1)
    <3>1. 1 \in Int
      OBVIOUS
    <3>2. QED
      BY <2>1, <3>1, WrapSum
  <2>7. QED
    BY <2>4, <2>5, <2>6
<1>7. d1' \in Word /\ pc' \in Labelled \cup {"end"}
  <2>1. Wrap(rest + 1) \in Word /\ 0 \in Word
    <3>1. rest + 1 \in Int
      BY <1>6, WordsAreNumbers
    <3>2. QED
      BY <3>1, WrapIsWord, WordsAreNumbers
  <2>2. QED
    BY <1>2, <1>4, <1>6, <2>1 DEF Labelled
<1>8. ASSUME pc' \in Labelled PROVE Takes(m + 1)
  <2>1. d1 - 2 - 2 * m = d1 - 2 * (m + 1) /\ d1 - 2 - (2 * m + 1) + 1 = d1 - 2 * (m + 1)
    BY <1>1
  <2>2. rest # 0
    BY <1>4, <1>8 DEF Labelled
  <2>3. d1' = Wrap(d1 - 2 * (m + 1))
    <3>1. CASE n = 2 * m
      BY <1>4, <1>6, <2>1, <2>2, <3>1
    <3>2. CASE n = 2 * m + 1
      BY <1>4, <1>6, <2>1, <2>2, <3>2
    <3>3. QED
      BY <1>2, <3>1, <3>2
  <2>4. QED
    BY <1>5, <2>3 DEF Takes
<1>9. QED
  BY <1>5, <1>7, <1>8 DEF Steps

(* The other ways to write a word and to go on without writing.            *)
LEMMA WordSteps ==
  ASSUME ITypeOK, NEW m \in Nat, NEW p \in Seq(Byte), Len(p) = 2 * m,
         dst' = dst \o p, d1' = Wrap(d1 - 2 * m), pc' \in Labelled \cup {"end"}
  PROVE  Steps
<1>1. dst \in Seq(Byte) /\ Len(dst) \in Nat /\ d1 - 2 * m \in Int
  BY WordsAreNumbers DEF ITypeOK
<1>2. dst \o p \in Seq(Byte) /\ Len(dst \o p) = Len(dst) + Len(p)
  BY <1>1, ConcatProperties
<1>3. QED
  BY <1>1, <1>2, WrapIsWord DEF Steps, Takes

(* A step that writes nothing counts nothing off.                          *)
LEMMA NothingSteps ==
  ASSUME ITypeOK, UNCHANGED <<dst, d1>>, pc' \in Labelled
  PROVE  Steps
<1>1. dst \in Seq(Byte) /\ Len(dst) \in Nat /\ d1 \in Word /\ d1 - 2 * 0 = d1
  BY WordsAreNumbers DEF ITypeOK
<1>2. Wrap(d1) = d1
  BY <1>1, WrapOfWord
<1>3. Takes(0)
  BY <1>1, <1>2 DEF Takes
<1>4. QED
  BY <1>1, <1>3 DEF Steps

(* The actions of SNKRLE.asm that read codes.                              *)
LEMMA MainLoopSteps ==
  ASSUME ITypeOK, MainLoop
  PROVE  Steps /\ a0' \in Nat /\ d6' \in Byte \X Byte /\ d3' = d3
<1>1. a0 \in Nat /\ a0 + 1 \in Nat /\ a0 + 2 \in Nat /\ d6[1] \in Byte /\ d1 \in Int /\ d1 - 2 \in Int
  BY WordsAreNumbers DEF ITypeOK
<1>2. Code(a0) \subseteq Byte /\ Code(a0 + 1) \subseteq Byte /\ Code(a0 + 2) \subseteq Byte
  BY <1>1, ReadsBytes
<1>3. PICK c \in Code(a0) :
       LET w == <<d6[1], c>>
           rest == Wrap(d1 - 2)
           single == dst' = dst \o w /\ d1' = rest /\ d6' = w
       IN
       \/ /\ rest = 0
          /\ single /\ pc' = "end" /\ a0' = a0 + 1
       \/ /\ rest # 0 /\ d3 # c
          /\ single /\ pc' = "main_loop_buffer_clear" /\ a0' = a0 + 1
       \/ /\ rest # 0 /\ d3 = c
          /\ \E n \in Code(a0 + 1) :
               \/ /\ n = 0
                  /\ single /\ pc' = "main_loop_buffer_clear" /\ a0' = a0 + 2
               \/ /\ n # 0 /\ ~(n = MaxRun /\ rest # n)
                  /\ AfterRun(n, w, rest) /\ d6' = w /\ a0' = a0 + 2
               \/ /\ n = MaxRun /\ rest # n
                  /\ \E b \in Code(a0 + 2) :
                       /\ dst' = dst \o w \o Words(w, n \div 2) \o <<w[1], b>>
                       /\ d1' = Wrap(rest - n + 1 - 2)
                       /\ d6' = <<w[1], b>>
                       /\ pc' = IF Wrap(rest - n - 1) = 0 THEN "end" ELSE "main_loop_buffer_clear"
                       /\ a0' = a0 + 3
  BY DEF MainLoop
<1> DEFINE w == <<d6[1], c>>
           rest == Wrap(d1 - 2)
           single == dst' = dst \o w /\ d1' = rest /\ d6' = w
<1>4. w \in Byte \X Byte /\ w \in Seq(Byte) /\ Len(w) = 2
  BY <1>1, <1>2
<1>5. d3' = d3
  BY DEF MainLoop
<1>6. ASSUME single, pc' \in Labelled \cup {"end"}, a0' \in {a0 + 1, a0 + 2}
      PROVE  Steps /\ a0' \in Nat /\ d6' \in Byte \X Byte
  <2>1. Len(w) = 2 * 1 /\ d1' = Wrap(d1 - 2 * 1)
    BY <1>4, <1>6
  <2>2. Steps
    BY <1>4, <1>6, <2>1, WordSteps
  <2>3. QED
    BY <1>1, <1>4, <1>6, <2>2
<1>7. ASSUME NEW n \in Code(a0 + 1), AfterRun(n, w, rest), d6' = w, a0' = a0 + 2
      PROVE  Steps /\ a0' \in Nat /\ d6' \in Byte \X Byte
  <2>1. n \in Nat
    BY <1>2, BytesAreNumbers
  <2>2. Steps
    BY <1>4, <1>7, <2>1, AfterRunSteps
  <2>3. QED
    BY <1>1, <1>4, <1>7, <2>2
<1>8. ASSUME NEW b \in Code(a0 + 2),
             dst' = dst \o w \o Words(w, MaxRun \div 2) \o <<w[1], b>>,
             d1' = Wrap(rest - MaxRun + 1 - 2), d6' = <<w[1], b>>,
             pc' \in {"end", "main_loop_buffer_clear"}, a0' = a0 + 3
      PROVE  Steps /\ a0' \in Nat /\ d6' \in Byte \X Byte
  <2>1. PICK h \in Nat : h = MaxRun \div 2 /\ MaxRun = 2 * h + 1
    BY MaxRunIsOdd
  <2>2. PICK q, e : q = Words(w, h) /\ e = <<w[1], b>>
    OBVIOUS
  <2>3. e \in Byte \X Byte /\ e \in Seq(Byte) /\ Len(e) = 2 /\ q \in Seq(Byte) /\ Len(q) = 2 * h
    <3>1. w[1] \in Byte /\ b \in Byte
      BY <1>2, <1>4
    <3>2. e \in Byte \X Byte /\ e \in Seq(Byte) /\ Len(e) = 2
      BY <2>2, <3>1
    <3>3. QED
      BY <1>4, <2>2, <3>2, WordsAre
  <2>4. w \o q \in Seq(Byte) /\ Len(w \o q) = 2 + 2 * h
    <3>1. Len(w \o q) = Len(w) + Len(q) /\ w \o q \in Seq(Byte)
      BY <1>4, <2>3, ConcatProperties
    <3>2. QED
      BY <1>4, <2>3, <3>1
  <2>5. PICK p : p = w \o q
    OBVIOUS
  <2>6. p \o e \in Seq(Byte) /\ Len(p \o e) = 2 * (h + 2)
    <3>1. Len(p \o e) = Len(p) + Len(e) /\ p \o e \in Seq(Byte)
      BY <2>3, <2>4, <2>5, ConcatProperties
    <3>2. QED
      BY <2>1, <2>3, <2>4, <2>5, <3>1
  <2>7. dst' = dst \o (p \o e)
    <3>1. PICK f, v : f = dst /\ v = w
      OBVIOUS
    <3>2. f \in Seq(Byte) /\ v \in Seq(Byte) /\ q \in Seq(Byte) /\ p \in Seq(Byte) /\ e \in Seq(Byte)
      BY <1>4, <2>3, <2>4, <2>5, <3>1 DEF ITypeOK
    <3>3. (f \o v) \o q = f \o (v \o q)
      <4>1. f \in Seq(Byte) /\ v \in Seq(Byte) /\ q \in Seq(Byte)
        BY <3>2
      <4>2. QED
        BY ONLY <4>1, BytesRegroup
    <3>4. (f \o p) \o e = f \o (p \o e)
      <4>1. f \in Seq(Byte) /\ p \in Seq(Byte) /\ e \in Seq(Byte)
        BY <3>2
      <4>2. QED
        BY ONLY <4>1, BytesRegroup
    <3>5. QED
      BY <1>8, <2>1, <2>2, <2>5, <3>1, <3>3, <3>4
  <2>8. d1' = Wrap(d1 - 2 * (h + 2))
    <3>1. rest \in Int
      BY <1>1, WrapIsWord
    <3>2. rest - MaxRun + 1 - 2 = rest + (-(2 * h + 2)) /\ d1 - 2 + (-(2 * h + 2)) = d1 - 2 * (h + 2)
      BY <1>1, <2>1, <3>1
    <3>3. Wrap(rest + (-(2 * h + 2))) = Wrap(d1 - 2 + (-(2 * h + 2)))
      <4>1. -(2 * h + 2) \in Int
        OBVIOUS
      <4>2. QED
        BY <1>1, <4>1, WrapSum
    <3>4. QED
      BY <1>8, <3>2, <3>3
  <2>9. Steps
    <3>1. pc' \in Labelled \cup {"end"} /\ h + 2 \in Nat
      BY <1>8 DEF Labelled
    <3>2. QED
      BY <2>6, <2>7, <2>8, <3>1, WordSteps
  <2>10. QED
    BY <1>1, <1>8, <2>2, <2>3, <2>9
<1>9. "main_loop_buffer_clear" \in Labelled
  BY DEF Labelled
<1>10. \/ single /\ pc' \in Labelled \cup {"end"} /\ a0' \in {a0 + 1, a0 + 2}
       \/ \E n \in Code(a0 + 1) : AfterRun(n, w, rest) /\ d6' = w /\ a0' = a0 + 2
       \/ \E b \in Code(a0 + 2) :
            /\ dst' = dst \o w \o Words(w, MaxRun \div 2) \o <<w[1], b>>
            /\ d1' = Wrap(rest - MaxRun + 1 - 2) /\ d6' = <<w[1], b>>
            /\ pc' \in {"end", "main_loop_buffer_clear"} /\ a0' = a0 + 3
  BY <1>3, <1>9
<1>11. QED
  BY <1>5, <1>6, <1>7, <1>8, <1>10

(* .main_loop_buffer_clear writes the words it counts off.                 *)
LEMMA BufferClearSteps ==
  ASSUME ITypeOK, BufferClear
  PROVE  Steps /\ a0' \in Nat /\ d6' \in Byte \X Byte /\ d3' \in Byte
<1>1. a0 \in Nat /\ a0 + 1 \in Nat /\ d6[2] \in Byte /\ d1 \in Int /\ d1 - 2 \in Int
  BY WordsAreNumbers DEF ITypeOK
<1>2. Code(a0) \subseteq Byte /\ Code(a0 + 1) \subseteq Byte
  BY <1>1, ReadsBytes
<1>3. PICK c \in Code(a0) :
       /\ d6' = <<c, c>>
       /\ \/ /\ c # d6[2]
             /\ pc' = "main_loop" /\ a0' = a0 + 1
             /\ UNCHANGED <<d1, dst>>
          \/ /\ c = d6[2]
             /\ a0' = a0 + 2
             /\ \E n \in Code(a0 + 1) :
                  \/ n = 0 /\ pc' = "main_loop" /\ UNCHANGED <<d1, dst>>
                  \/ n # 0 /\ n # MaxRun /\ AfterRun(n - 1, <<c, c>>, Wrap(d1 - 2))
                  \/ /\ n = MaxRun
                     /\ dst' = dst \o <<c, c>> \o Words(<<c, c>>, (n - 1) \div 2)
                     /\ d1' = Wrap(d1 - 2 - (n - 1))
                     /\ pc' = IF d1' = 0 THEN "end" ELSE "fetch_new_char"
  BY DEF BufferClear
<1>4. PICK w : w = <<c, c>>
  OBVIOUS
<1>5. w \in Byte \X Byte /\ w \in Seq(Byte) /\ Len(w) = 2
  BY <1>2, <1>4
<1>6. d3' \in Byte /\ d6' \in Byte \X Byte /\ a0' \in Nat
  <2>1. d3' = d6[2]
    BY DEF BufferClear
  <2>2. a0' = a0 + 1 \/ a0' = a0 + 2
    BY <1>3
  <2>3. QED
    BY <1>1, <1>3, <1>4, <1>5, <2>1, <2>2
<1>7. ASSUME UNCHANGED <<dst, d1>>, pc' = "main_loop" PROVE Steps
  BY <1>7, NothingSteps DEF Labelled
<1>8. ASSUME NEW n \in Code(a0 + 1), n # 0, AfterRun(n - 1, w, Wrap(d1 - 2)) PROVE Steps
  <2>1. n - 1 \in Nat
    BY <1>2, <1>8, BytesAreNumbers
  <2>2. QED
    BY <1>5, <1>8, <2>1, AfterRunSteps
<1>9. ASSUME dst' = dst \o w \o Words(w, (MaxRun - 1) \div 2), d1' = Wrap(d1 - 2 - (MaxRun - 1)),
             pc' \in {"end", "fetch_new_char"}
      PROVE  Steps
  <2>1. PICK h \in Nat : h = MaxRun \div 2 /\ MaxRun = 2 * h + 1
    BY MaxRunIsOdd
  <2>2. (MaxRun - 1) \div 2 = h
    BY <2>1
  <2>3. PICK q : q = Words(w, h)
    OBVIOUS
  <2>4. q \in Seq(Byte) /\ Len(q) = 2 * h
    BY <1>5, <2>3, WordsAre
  <2>5. w \o q \in Seq(Byte) /\ Len(w \o q) = 2 * (h + 1)
    <3>1. Len(w \o q) = Len(w) + Len(q) /\ w \o q \in Seq(Byte)
      BY <1>5, <2>4, ConcatProperties
    <3>2. QED
      BY <1>5, <2>4, <3>1
  <2>6. dst' = dst \o (w \o q)
    <3>1. dst \in Seq(Byte)
      BY DEF ITypeOK
    <3>2. (dst \o w) \o q = dst \o (w \o q)
      BY <1>5, <2>4, <3>1, ConcatAssociative
    <3>3. QED
      BY <1>9, <2>2, <2>3, <3>2
  <2>7. d1' = Wrap(d1 - 2 * (h + 1))
    BY <1>1, <1>9, <2>1
  <2>8. pc' \in Labelled \cup {"end"} /\ h + 1 \in Nat
    BY <1>9, <2>1 DEF Labelled
  <2>9. QED
    BY <2>5, <2>6, <2>7, <2>8, WordSteps
<1>10. \/ UNCHANGED <<dst, d1>> /\ pc' = "main_loop"
       \/ \E n \in Code(a0 + 1) : n # 0 /\ AfterRun(n - 1, w, Wrap(d1 - 2))
       \/ /\ dst' = dst \o w \o Words(w, (MaxRun - 1) \div 2) /\ d1' = Wrap(d1 - 2 - (MaxRun - 1))
          /\ pc' \in {"end", "fetch_new_char"}
  BY <1>3, <1>4
<1>11. QED
  BY <1>6, <1>7, <1>8, <1>9, <1>10

-----------------------------------------------------------------------------
(* What d1 counts, with where it starts from.                              *)
Counts ==
  /\ pc \in {"encode", "run"} => dst = <<>>
  /\ CountsWhatIsLeft

(* One step of SNKRLE.asm: the words written are those counted off.        *)
LEMMA StepsCount ==
  ASSUME ITypeOK, Counts, pc \in Labelled, Steps, size' = size
  PROVE  Counts'
<1>1. ~(pc' \in {"encode", "run"})
  BY DEF Steps, Labelled
<1>2. ASSUME pc' \in Labelled
      PROVE  d1' % 2 = 0 /\ Wrap(Len(dst') + d1') = Wrap(size')
  <2>1. PICK m \in Nat : Takes(m)
    BY <1>2 DEF Steps
  <2>2. PICK l \in Nat : l = Len(dst)
    BY DEF ITypeOK
  <2>3. PICK d \in Nat : d = d1 /\ d % 2 = 0 /\ Wrap(l + d) = Wrap(size)
    <3>1. d1 \in Nat
      BY WordsAreNumbers DEF ITypeOK
    <3>2. d1 % 2 = 0 /\ Wrap(Len(dst) + d1) = Wrap(size)
      BY DEF Counts, CountsWhatIsLeft
    <3>3. QED
      BY <2>2, <3>1, <3>2
  <2>4. PICK x \in Int : x = d - 2 * m
    BY <2>3
  <2>5. Len(dst') = l + 2 * m /\ d1' = Wrap(x)
    BY <2>1, <2>2, <2>3, <2>4 DEF Takes
  <2>6. x % 2 = 0
    BY <2>3, <2>4
  <2>7. d1' % 2 = 0
    BY <2>5, <2>6, WrapParity
  <2>8. Wrap(Wrap(x) + (l + 2 * m)) = Wrap(x + (l + 2 * m))
    <3>1. l + 2 * m \in Int
      BY <2>2
    <3>2. QED
      BY ONLY <3>1, x \in Int, WrapSum
  <2>9. x + (l + 2 * m) = l + d
    BY <2>3, <2>4
  <2>10. PICK y \in Nat : y = Wrap(x)
    BY WrapIsWord
  <2>11. Len(dst') + d1' = y + (l + 2 * m)
    BY <2>2, <2>5, <2>10
  <2>12. QED
    BY <2>3, <2>7, <2>8, <2>9, <2>10, <2>11
<1>3. QED
  BY <1>1, <1>2 DEF Counts, CountsWhatIsLeft

(* The start, the steps of snkrle.cc and the entry of SNKRLE.asm.          *)
LEMMA InitCounts == AInit => Counts
BY DEF AInit, Init, Counts, CountsWhatIsLeft, Labelled

(* The steps of snkrle.cc leave the count of SNKRLE.asm alone.             *)
LEMMA CppCounts ==
  ASSUME ITypeOK, Counts, Cpp
  PROVE  Counts'
<1>1. UNCHANGED <<size, d1, dst>>
  BY DEF Cpp, Next, EncodeNext, EncodeRun, DecodeFirst, DecodeNext, encoder, decoder, asm
<1>2. pc \in {"encode", "run", "decode"} /\ (pc' \in {"encode", "run"} => pc \in {"encode", "run"})
  BY DEF Cpp, Next, EncodeNext, EncodeRun, DecodeFirst, DecodeNext
<1>3. pc' \in {pc, "encode", "run", "decode", "done"}
  BY DEF Cpp, Next, EncodeNext, EncodeRun, DecodeFirst, DecodeNext
<1>4. ~(pc' \in Labelled)
  BY <1>2, <1>3 DEF Labelled
<1>5. QED
  BY <1>1, <1>2, <1>4 DEF Counts, CountsWhatIsLeft

(* SNKDec takes the size it counts from.                                   *)
LEMMA SNKDecCounts ==
  ASSUME ITypeOK, Counts, SNKDec
  PROVE  ITypeOK' /\ Counts'
<1>1. /\ size % 2 = 0 /\ d1' = Wrap(size) /\ pc' = "fetch_new_char"
      /\ UNCHANGED <<encoder, decoder, a0, d3, d6, dst>> /\ pc = "encode"
  BY DEF SNKDec
<1>2. size \in Int
  BY DEF ITypeOK
<1>3. d1' \in Word /\ d1' \in Int /\ d1' % 2 = 0
  BY <1>1, <1>2, WrapIsWord, WrapParity
<1>4. ITypeOK'
  BY <1>1, <1>3 DEF ITypeOK, Labels, Labelled, encoder, decoder
<1>5. dst' = <<>> /\ size' = size
  BY <1>1 DEF Counts, encoder
<1>6. Wrap(Len(dst') + d1') = Wrap(size')
  <2>1. Len(dst') + d1' = d1'
    <3>1. Len(<<>>) = 0
      OBVIOUS
    <3>2. Len(dst') = 0
      BY <1>5, <3>1, Zenon
    <3>3. Len(dst') + d1' = 0 + d1'
      BY <3>2, Zenon
    <3>4. PICK d \in Int : d = d1'
      BY <1>3
    <3>5. QED
      BY <3>3, <3>4
  <2>2. Wrap(d1') = d1'
    BY <1>3, WrapOfWord
  <2>3. QED
    BY <1>1, <1>5, <2>1, <2>2
<1>7. QED
  BY <1>1, <1>3, <1>4, <1>6 DEF Counts, CountsWhatIsLeft

(* Every step keeps the types and the count.                               *)
LEMMA StepKeepsTypes ==
  ASSUME ITypeOK, Counts, [ANext]_asmvars
  PROVE  ITypeOK' /\ Counts'
<1>1. CASE Cpp
  <2>1. UNCHANGED asm /\ (EncodeNext \/ EncodeRun \/ DecodeFirst \/ DecodeNext)
    BY <1>1 DEF Cpp, Next
  <2>2. ITypeOK'
    BY <2>1, EncoderKeepsTypes, DecoderKeepsTypes
  <2>3. QED
    BY <1>1, <2>2, CppCounts
<1>2. CASE SNKDec
  BY <1>2, SNKDecCounts
<1>3. ASSUME Steps, pc \in Labelled, UNCHANGED <<encoder, decoder>>,
             a0' \in Nat, d6' \in Byte \X Byte, d3' \in Byte
      PROVE  ITypeOK' /\ Counts'
  <2>1. dst' \in Seq(Byte) /\ d1' \in Word /\ pc' \in Labels
    BY <1>3 DEF Steps, Labels
  <2>2. ITypeOK'
    BY <1>3, <2>1 DEF ITypeOK, encoder, decoder
  <2>3. size' = size
    BY <1>3 DEF encoder
  <2>4. QED
    BY <1>3, <2>2, <2>3, StepsCount
<1>4. CASE FetchNewChar
  <2>1. Code(a0) \subseteq Byte /\ Code(a0 + 2) \subseteq Byte /\ a0 \in Nat /\ a0 + 1 \in Nat
    <3>1. a0 \in Nat /\ a0 + 2 \in Nat /\ a0 + 1 \in Nat
      BY DEF ITypeOK
    <3>2. QED
      BY <3>1, ReadsBytes
  <2>2. /\ pc = "fetch_new_char" /\ pc' = "main_loop"
        /\ UNCHANGED <<dst, d1>> /\ UNCHANGED <<encoder, decoder>>
        /\ d6' \in Byte \X Byte /\ d3' \in Byte /\ a0' \in Nat
    BY <1>4, <2>1 DEF FetchNewChar
  <2>3. Steps /\ pc \in Labelled
    BY <2>2, NothingSteps DEF Labelled
  <2>4. QED
    BY <1>3, <2>2, <2>3
<1>5. CASE MainLoop
  <2>1. UNCHANGED <<encoder, decoder>> /\ pc \in Labelled
    BY <1>5 DEF MainLoop, Labelled
  <2>2. d3 \in Byte
    BY DEF ITypeOK
  <2>3. QED
    BY <1>3, <1>5, <2>1, <2>2, MainLoopSteps
<1>6. CASE BufferClear
  <2>1. UNCHANGED <<encoder, decoder>> /\ pc \in Labelled
    BY <1>6 DEF BufferClear, Labelled
  <2>2. QED
    BY <1>3, <1>6, <2>1, BufferClearSteps
<1>7. CASE UNCHANGED asmvars
  BY <1>7 DEF ITypeOK, Counts, CountsWhatIsLeft, asmvars, vars, asm
<1>8. QED
  BY <1>1, <1>2, <1>4, <1>5, <1>6, <1>7 DEF ANext

(* The types and the count in every reachable state.                       *)
LEMMA SpecHasTypes == ASpec => [](ITypeOK /\ Counts)
<1>1. AInit => ITypeOK /\ Counts
  BY InitHasTypes, InitCounts
<1>2. ITypeOK /\ Counts /\ [ANext]_asmvars => (ITypeOK /\ Counts)'
  BY StepKeepsTypes
<1>3. QED
  BY <1>1, <1>2, PTL DEF ASpec

(* SNKRLE.asm's preconditions (1) and (4): at every label an even number   *)
(* of bytes is left, and d1 counts just those not written.                 *)
THEOREM CountIsRight == ASpec => []CountsWhatIsLeft
<1>1. ITypeOK /\ Counts => CountsWhatIsLeft
  BY DEF Counts
<1>2. QED
  BY <1>1, SpecHasTypes, PTL

-----------------------------------------------------------------------------
(* How the codes are laid out: the file is cut into tokens.  A place is    *)
(* where a token starts, in the file and behind how many codes.            *)
Place == [p : Nat, c : Nat]

(* A byte that differs from the next one is one code.                      *)
IsLiteral(f, s, e) ==
  /\ e.p = s.p + 1 /\ e.c = s.c + 1 /\ e.c <= Len(f)
  /\ f[s.c + 1] = data[s.p]
  /\ s.p < Len(data) => data[s.p + 1] # data[s.p]

(* A run is three codes, and is as long as the run of the file or as the   *)
(* count allows.                                                           *)
IsRun(f, s, e) ==
  /\ e.c = s.c + 3 /\ e.c <= Len(f)
  /\ f[s.c + 1] = data[s.p] /\ f[s.c + 2] = data[s.p]
  /\ e.p = s.p + 2 + f[e.c] /\ e.p <= Len(data) + 1
  /\ \A j \in s.p .. e.p - 1 : data[j] = data[s.p]
  /\ f[e.c] < MaxRun /\ e.p <= Len(data) => data[e.p] # data[s.p]

Token(f, s, e) == s.p <= Len(data) /\ (IsLiteral(f, s, e) \/ IsRun(f, s, e))

(* The run of the file that holds position p starts at k.                  *)
RunFrom(k, p) ==
  /\ \A j \in k .. p : data[j] = data[k]
  /\ k > 1 => data[k - 1] # data[k]

(* A token starts where a run of the file does, or as many full counts     *)
(* behind.                                                                 *)
Aligned(p) ==
  p <= Len(data) => \E k \in 1 .. p : (p - k) % (MaxRun + 2) = 0 /\ RunFrom(k, p)

Tokens(f, at, n) ==
  /\ at \in [1 .. n + 1 -> Place]
  /\ at[1] = [p |-> 1, c |-> 0]
  /\ \A t \in 1 .. n : Token(f, at[t], at[t + 1])
  /\ \A t \in 1 .. n + 1 : at[t].p >= 1 /\ at[t].p <= Len(data) + 1 /\ Aligned(at[t].p)

(* What the encoder has of the token it works on, which starts at s.       *)
Encodes(s) ==
  /\ Good => cc = data[rd]
  /\ pc = "encode" => rd = s.p /\ Len(codes) = s.c
  /\ pc = "run" =>
       /\ s.p < Len(data) /\ Len(codes) = s.c + 2
       /\ codes[s.c + 1] = data[s.p] /\ codes[s.c + 2] = data[s.p] /\ nc = data[s.p]
       /\ rd = s.p + 2 + cnt
       /\ \A j \in s.p .. rd - 1 : data[j] = data[s.p]
  /\ pc = "decode" => s.p = Len(data) + 1 /\ Len(codes) = s.c

(* The decoder has the first byte of the token at s, or has just finished  *)
(* the run from s to e and goes on behind it.                              *)
InToken(s) == dpos = s.c + 1 /\ Len(out) = s.p /\ dcc = data[s.p]
AfterRunOf(s, e) ==
  /\ IsRun(codes, s, e)
  /\ dpos = e.c /\ Len(out) = e.p - 1 /\ dcc = data[s.p]
  /\ e.p <= Len(data) => codes[e.c] < MaxRun

Decodes(at, n) ==
  /\ ~(pc \in {"decode", "done"}) => dpos = 0 /\ left = 0 /\ out = <<>>
  /\ pc = "decode" =>
       /\ left = size - Len(out)
       /\ \E t \in 1 .. n : InToken(at[t]) \/ AfterRunOf(at[t], at[t + 1])
  /\ pc = "done" => left = 0 /\ dpos = Len(codes) /\ Len(out) = Len(data)

LaidOut(at, n) == Tokens(codes, at, n) /\ Encodes(at[n + 1]) /\ Decodes(at, n)

-----------------------------------------------------------------------------
(* A number divided by another has one remainder.                          *)
LEMMA DivisionIsUnique ==
  ASSUME NEW m \in Nat \ {0}, NEW a \in Nat, NEW b \in Nat,
         NEW r \in 0 .. m - 1, NEW s \in 0 .. m - 1, m * a + r = m * b + s
  PROVE  r = s
<1>1. ASSUME NEW x \in Nat, NEW y \in Nat, NEW u \in 0 .. m - 1, NEW v \in 0 .. m - 1,
             m * x + u = m * y + v, x < y
      PROVE  FALSE
  <2>1. PICK d \in Nat : y = x + d /\ d >= 1
    BY <1>1
  <2>2. m * d >= m
    BY <2>1
  <2>3. m * y = m * x + m * d
    BY <2>1
  <2>4. QED
    BY <1>1, <2>2, <2>3
<1>2. CASE a < b
  BY <1>1, <1>2
<1>3. CASE a > b
  BY <1>1, <1>3
<1>4. CASE a = b
  BY <1>4
<1>5. QED
  BY <1>2, <1>3, <1>4

(* What is left when a multiple of m is added to.                          *)
LEMMA RemainderOfSum ==
  ASSUME NEW m \in Nat \ {0}, NEW x \in Nat, x % m = 0, NEW r \in 0 .. m - 1
  PROVE  (x + r) % m = r /\ (x + m) % m = 0
<1>1. PICK q \in Nat : x = m * q
  <2>1. x = m * (x \div m) + (x % m) /\ x \div m \in Nat
    OBVIOUS
  <2>2. PICK q \in Nat : q = x \div m
    BY <2>1
  <2>3. x = m * q + 0 /\ m * q \in Nat
    BY <2>1, <2>2
  <2>4. x = m * q
    BY <2>3
  <2>5. QED
    BY <2>4
<1>2. ASSUME NEW k \in Nat, NEW s \in 0 .. m - 1 PROVE (m * k + s) % m = s
  <2>1. PICK y \in Nat : y = m * k + s
    <3>1. m * k \in Nat
      OBVIOUS
    <3>2. QED
      BY <3>1
  <2>2. y = m * (y \div m) + (y % m) /\ y \div m \in Nat /\ y % m \in 0 .. m - 1
    OBVIOUS
  <2>3. PICK a \in Nat, b \in 0 .. m - 1 : a = y \div m /\ b = y % m
    BY <2>2
  <2>4. m * k + s = m * a + b
    BY <2>1, <2>2, <2>3
  <2>5. s = b
    BY ONLY m \in Nat \ {0}, k \in Nat, a \in Nat, s \in 0 .. m - 1, b \in 0 .. m - 1, <2>4, DivisionIsUnique
  <2>6. QED
    BY <2>1, <2>3, <2>5
<1>3. (x + r) % m = r
  BY <1>1, <1>2
<1>4. x + m = m * (q + 1) + 0
  BY <1>1
<1>5. (m * (q + 1) + 0) % m = 0
  <2>1. q + 1 \in Nat /\ 0 \in 0 .. m - 1
    OBVIOUS
  <2>2. QED
    BY <1>2, <2>1
<1>6. QED
  BY <1>3, <1>4, <1>5

(* A run of the file starts at one place.                                  *)
LEMMA RunStartsOnce ==
  ASSUME NEW p \in Nat, NEW k \in 1 .. p, NEW l \in 1 .. p, RunFrom(k, p), RunFrom(l, p)
  PROVE  k = l
<1>1. ASSUME NEW a \in 1 .. p, NEW b \in 1 .. p, RunFrom(a, p), RunFrom(b, p), a < b PROVE FALSE
  <2>1. data[b - 1] # data[b]
    BY <1>1 DEF RunFrom
  <2>2. b - 1 \in a .. p /\ b \in a .. p
    BY <1>1
  <2>3. data[b - 1] = data[a] /\ data[b] = data[a]
    BY <1>1, <2>2 DEF RunFrom
  <2>4. QED
    BY <2>1, <2>3
<1>2. k < l \/ l < k \/ k = l
  OBVIOUS
<1>3. QED
  BY <1>1, <1>2

(* Codes written later do not change the tokens.                           *)
LEMMA TokensStay ==
  ASSUME NEW f \in Seq(Byte), NEW g \in Seq(Byte), Len(f) <= Len(g),
         \A i \in 1 .. Len(f) : g[i] = f[i],
         NEW n \in Nat, NEW at, Tokens(f, at, n)
  PROVE  Tokens(g, at, n)
<1>1. ASSUME NEW s \in Place, NEW e \in Place, Token(f, s, e) PROVE Token(g, s, e)
  <2>1. s.p \in Nat /\ s.c \in Nat /\ e.p \in Nat /\ e.c \in Nat
    BY DEF Place
  <2>2. s.p <= Len(data)
    BY <1>1 DEF Token
  <2>3. CASE IsLiteral(f, s, e)
    <3>1. s.c + 1 \in 1 .. Len(f)
      BY <2>1, <2>3 DEF IsLiteral
    <3>2. g[s.c + 1] = f[s.c + 1]
      BY <3>1
    <3>3. e.c <= Len(g)
      BY <2>1, <2>3 DEF IsLiteral
    <3>4. IsLiteral(g, s, e)
      BY <2>3, <3>2, <3>3 DEF IsLiteral
    <3>5. QED
      BY <2>2, <3>4 DEF Token
  <2>4. CASE IsRun(f, s, e)
    <3>1. s.c + 1 \in 1 .. Len(f) /\ s.c + 2 \in 1 .. Len(f) /\ e.c \in 1 .. Len(f)
      <4>1. e.c = s.c + 3 /\ e.c <= Len(f)
        BY <2>4 DEF IsRun
      <4>2. QED
        <5>1. PICK x \in Nat, l \in Nat, d \in Nat :
                x = s.c /\ d = e.c /\ l = Len(f) /\ d = x + 3 /\ d <= l
          BY <2>1, <4>1
        <5>2. x + 1 \in 1 .. l /\ x + 2 \in 1 .. l /\ x + 3 \in 1 .. l
          <6>1. x + 3 <= l
            BY <5>1
          <6>2. QED
            BY ONLY x \in Nat, l \in Nat, <6>1
        <5>3. QED
          BY <5>1, <5>2
    <3>2. g[s.c + 1] = f[s.c + 1] /\ g[s.c + 2] = f[s.c + 2] /\ g[e.c] = f[e.c]
      BY <3>1
    <3>3. e.c <= Len(g)
      BY <2>1, <2>4 DEF IsRun
    <3>4. IsRun(g, s, e)
      BY <2>4, <3>2, <3>3 DEF IsRun
    <3>5. QED
      BY <2>2, <3>4 DEF Token
  <2>5. QED
    BY <1>1, <2>3, <2>4 DEF Token
<1>2. \A t \in 1 .. n : at[t] \in Place /\ at[t + 1] \in Place
  BY DEF Tokens
<1>3. \A t \in 1 .. n : Token(g, at[t], at[t + 1])
  BY <1>1, <1>2 DEF Tokens
<1>4. QED
  BY <1>3 DEF Tokens

(* One token more.                                                         *)
LEMMA TokenIsAdded ==
  ASSUME NEW g, NEW n \in Nat, NEW at, Tokens(g, at, n),
         NEW e \in Place, Token(g, at[n + 1], e), e.p >= 1, e.p <= Len(data) + 1, Aligned(e.p)
  PROVE  \E b : Tokens(g, b, n + 1) /\ b[n + 1 + 1] = e
<1> DEFINE b == [i \in 1 .. n + 1 + 1 |-> IF i <= n + 1 THEN at[i] ELSE e]
<1>1. \A i \in 1 .. n + 1 : at[i] \in Place /\ b[i] = at[i] /\ i \in 1 .. n + 1 + 1
  BY DEF Tokens
<1>2. b[n + 1 + 1] = e
  OBVIOUS
<1>3. b \in [1 .. n + 1 + 1 -> Place]
  <2>1. ASSUME NEW i \in 1 .. n + 1 + 1 PROVE (IF i <= n + 1 THEN at[i] ELSE e) \in Place
    <3>1. i <= n + 1 => i \in 1 .. n + 1
      OBVIOUS
    <3>2. QED
      BY <1>1, <3>1
  <2>2. QED
    BY <2>1
<1>4. b[1] = [p |-> 1, c |-> 0]
  BY <1>1 DEF Tokens
<1>5. ASSUME NEW t \in 1 .. n + 1 PROVE Token(g, b[t], b[t + 1])
  <2>1. CASE t = n + 1
    BY <1>1, <1>2, <2>1
  <2>2. CASE t # n + 1
    <3>1. t \in 1 .. n /\ t + 1 \in 1 .. n + 1
      BY <2>2
    <3>2. b[t] = at[t] /\ b[t + 1] = at[t + 1]
      BY <1>1, <3>1
    <3>3. QED
      BY <3>1, <3>2 DEF Tokens
  <2>3. QED
    BY <2>1, <2>2
<1>6. ASSUME NEW t \in 1 .. n + 1 + 1
      PROVE  b[t].p >= 1 /\ b[t].p <= Len(data) + 1 /\ Aligned(b[t].p)
  <2>1. CASE t = n + 1 + 1
    BY <1>2, <2>1
  <2>2. CASE t # n + 1 + 1
    <3>1. t \in 1 .. n + 1
      BY <2>2
    <3>2. b[t] = at[t]
      BY <1>1, <3>1
    <3>3. QED
      BY <3>1, <3>2 DEF Tokens
  <2>3. QED
    BY <2>1, <2>2
<1> HIDE DEF b
<1>7. QED
  BY <1>2, <1>3, <1>4, <1>5, <1>6 DEF Tokens

(* The tokens are about data, which stays.                                 *)
LEMMA TokensPrimed ==
  ASSUME data' = data, NEW n, NEW at, Tokens(codes', at, n)
  PROVE  Tokens(codes, at, n)'
<1>1. \A p : Aligned(p)' <=> Aligned(p)
  BY DEF Aligned, RunFrom
<1>2. \A s, e : Token(codes, s, e)' <=> Token(codes', s, e)
  BY DEF Token, IsLiteral, IsRun
<1>3. QED
  BY <1>1, <1>2 DEF Tokens

-----------------------------------------------------------------------------
(* The encoder begins with the first token.                                *)
LEMMA InitIsLaidOut == AInit => \E n \in Nat : \E at : LaidOut(at, n)
<1> SUFFICES ASSUME AInit PROVE \E n \in Nat : \E at : LaidOut(at, n)
  OBVIOUS
<1> DEFINE at == [i \in 1 .. 0 + 1 |-> [p |-> 1, c |-> 0]]
<1>1. at \in [1 .. 0 + 1 -> Place] /\ at[1] = [p |-> 1, c |-> 0] /\ at[0 + 1] = [p |-> 1, c |-> 0]
  BY DEF Place
<1>2. ASSUME NEW t \in 1 .. 0 + 1 PROVE at[t].p = 1
  OBVIOUS
<1>3. data \in Seq(Byte) /\ Len(data) \in Nat
  BY InitHasTypes DEF ITypeOK
<1>4. Aligned(1)
  <2>1. (1 - 1) % (MaxRun + 2) = 0
    <3>1. MaxRun + 2 \in Nat \ {0} /\ MaxRun + 2 > 0
      BY BytesAreNumbers
    <3>2. PICK m \in Nat \ {0} : m = MaxRun + 2
      BY <3>1
    <3>3. 0 % m = 0
      OBVIOUS
    <3>4. QED
      BY <3>2, <3>3
  <2>2. RunFrom(1, 1)
    BY DEF RunFrom
  <2>3. QED
    BY <2>1, <2>2 DEF Aligned
<1> HIDE DEF at
<1>5. Tokens(codes, at, 0)
  <2>1. \A t \in 1 .. 0 + 1 : at[t].p >= 1 /\ at[t].p <= Len(data) + 1 /\ Aligned(at[t].p)
    BY <1>2, <1>3, <1>4
  <2>2. \A t \in 1 .. 0 : Token(codes, at[t], at[t + 1])
    OBVIOUS
  <2>3. QED
    BY <1>1, <2>1, <2>2 DEF Tokens
<1>6. Encodes(at[0 + 1])
  <2>1. rd = 1 /\ codes = <<>> /\ pc = "encode" /\ cc \in Given(0)
    BY DEF AInit, Init
  <2>2. Good => cc = data[rd]
    BY <1>3, <2>1 DEF Good, Given
  <2>3. Len(codes) = 0
    BY <2>1
  <2>4. QED
    BY <1>1, <2>1, <2>2, <2>3 DEF Encodes
<1>7. Decodes(at, 0)
  BY DEF AInit, Init, Decodes
<1>8. QED
  BY <1>5, <1>6, <1>7 DEF LaidOut

(* The encoder ends a token: what it has written, x being the last code,   *)
(* is laid out up to e.                                                    *)
LEMMA TokenIsEncoded ==
  ASSUME ITypeOK, ITypeOK', NEW n \in Nat, NEW at, LaidOut(at, n), pc \in {"encode", "run"},
         pc' = "encode", UNCHANGED data, UNCHANGED decoder, NEW x \in Byte, codes' = Append(codes, x),
         NEW e \in Place, Token(codes', at[n + 1], e), e.p >= 1, e.p <= Len(data) + 1,
         Aligned(e.p), rd' = e.p, Len(codes') = e.c, rd' <= Len(data) => cc' = data[rd']
  PROVE  \E m \in Nat : \E b : LaidOut(b, m)'
<1>1. Tokens(codes', at, n)
  <2>1. /\ codes \in Seq(Byte) /\ codes' \in Seq(Byte) /\ Len(codes) <= Len(codes')
        /\ \A i \in 1 .. Len(codes) : codes'[i] = codes[i]
    <3>1. codes \in Seq(Byte)
      BY Numbers
    <3>2. PICK g : g = Append(codes, x)
      OBVIOUS
    <3>3. g \in Seq(Byte) /\ Len(codes) <= Len(g) /\ \A i \in 1 .. Len(codes) : g[i] = codes[i]
      BY ONLY <3>1, <3>2, x \in Byte
    <3>4. QED
      BY <3>1, <3>2, <3>3
  <2>2. Tokens(codes, at, n)
    BY DEF LaidOut
  <2>3. QED
    BY ONLY <2>1, <2>2, n \in Nat, TokensStay
<1>2. PICK b : Tokens(codes', b, n + 1) /\ b[n + 1 + 1] = e
  BY <1>1, TokenIsAdded
<1>3. Tokens(codes, b, n + 1)'
  BY <1>2, TokensPrimed
<1>4. Encodes(b[n + 1 + 1])'
  BY <1>2 DEF Encodes, Good
<1>5. Decodes(b, n + 1)'
  <2>1. dpos = 0 /\ left = 0 /\ out = <<>>
    BY DEF LaidOut, Decodes
  <2>2. QED
    BY <2>1 DEF Decodes, decoder
<1>6. QED
  BY <1>3, <1>4, <1>5 DEF LaidOut

(* Two codes behind others.                                                *)
LEMMA TwoMore ==
  ASSUME NEW f \in Seq(Byte), NEW a \in Byte, NEW b \in Byte, NEW g, g = f \o <<a, b>>
  PROVE  /\ g \in Seq(Byte) /\ Len(g) = Len(f) + 2 /\ \A i \in 1 .. Len(f) : g[i] = f[i]
         /\ g[Len(f) + 1] = a /\ g[Len(f) + 2] = b
OBVIOUS

(* A round of the encoder's loop.                                          *)
LEMMA EncodeNextKeepsLayout ==
  ASSUME ITypeOK, ITypeOK', NEW n \in Nat, NEW at, LaidOut(at, n), EncodeNext
  PROVE  \E m \in Nat : \E b : LaidOut(b, m)'
<1>1. PICK s \in Place : s = at[n + 1]
  BY DEF LaidOut, Tokens
<1>2. /\ pc = "encode" /\ rd = s.p /\ Len(codes) = s.c /\ rd <= Len(data) /\ cc = data[rd]
      /\ s.p >= 1 /\ s.p \in Nat /\ s.c \in Nat
  BY <1>1 DEF EncodeNext, LaidOut, Encodes, Good, Place, Tokens
<1>3. UNCHANGED <<data, size>> /\ UNCHANGED decoder
  BY DEF EncodeNext
<1>4. Len(data) \in Nat /\ rd \in Nat /\ codes \in Seq(Byte) /\ cc \in Byte
  BY DEF ITypeOK
<1>5. PICK e \in Place : e = [p |-> s.p + 1, c |-> s.c + 1]
  <2>1. s.p + 1 \in Nat /\ s.c + 1 \in Nat
    BY <1>2
  <2>2. [p |-> s.p + 1, c |-> s.c + 1] \in Place
    BY ONLY <2>1 DEF Place
  <2>3. QED
    BY <2>2
<1>6. ASSUME codes' = Append(codes, cc), rd' = rd + 1, pc' = "encode",
             rd < Len(data) => data[rd + 1] # cc /\ cc' = data[rd + 1]
      PROVE  \E m \in Nat : \E b : LaidOut(b, m)'
  <2>1. codes'[s.c + 1] = cc /\ Len(codes') = s.c + 1
    BY <1>2, <1>4, <1>6
  <2>2. e.p = s.p + 1 /\ e.c = s.c + 1
    BY <1>5
  <2>3. Token(codes', at[n + 1], e)
    <3>1. IsLiteral(codes', s, e)
      BY <1>2, <1>6, <2>1, <2>2 DEF IsLiteral
    <3>2. QED
      BY <1>1, <1>2, <3>1 DEF Token
  <2>4. Aligned(e.p)
    <3>1. SUFFICES ASSUME e.p <= Len(data)
                   PROVE  (e.p - e.p) % (MaxRun + 2) = 0 /\ RunFrom(e.p, e.p)
      BY <1>2, <2>2 DEF Aligned
    <3>2. (e.p - e.p) % (MaxRun + 2) = 0
      <4>1. PICK m \in Nat \ {0} : m = MaxRun + 2
        BY BytesAreNumbers
      <4>2. e.p - e.p = 0 /\ 0 % m = 0
        BY <1>2, <2>2
      <4>3. QED
        BY <4>1, <4>2
    <3>3. data[e.p - 1] # data[e.p]
      BY <1>2, <1>6, <2>2, <3>1
    <3>4. \A j \in e.p .. e.p : data[j] = data[e.p]
      BY <1>2, <2>2
    <3>5. QED
      BY <3>2, <3>3, <3>4 DEF RunFrom
  <2>5. rd' = e.p /\ Len(codes') = e.c /\ e.p >= 1 /\ e.p <= Len(data) + 1
    BY <1>2, <1>4, <1>6, <2>1, <2>2
  <2>6. rd' <= Len(data) => cc' = data[rd']
    BY <1>2, <1>4, <1>6
  <2>7. QED
    BY <1>2, <1>3, <1>4, <1>6, <2>3, <2>4, <2>5, <2>6, TokenIsEncoded
<1>7. ASSUME NEW b \in Byte, b = cc, rd < Len(data), data[rd + 1] = b, nc' = b, rd' = rd + 2, cnt' = 0,
             codes' = codes \o <<cc, b>>, cc' \in Given(rd + 1), pc' = "run"
      PROVE  LaidOut(at, n)'
  <2>1. /\ codes' \in Seq(Byte) /\ Len(codes') = s.c + 2
        /\ \A i \in 1 .. Len(codes) : codes'[i] = codes[i]
        /\ codes'[s.c + 1] = cc /\ codes'[s.c + 2] = cc
    <3>1. PICK g : g = codes \o <<cc, b>>
      OBVIOUS
    <3>2. /\ g \in Seq(Byte) /\ Len(g) = Len(codes) + 2 /\ \A i \in 1 .. Len(codes) : g[i] = codes[i]
          /\ g[Len(codes) + 1] = cc /\ g[Len(codes) + 2] = b
      BY ONLY <1>4, <3>1, b \in Byte, TwoMore
    <3>3. QED
      BY <1>2, <1>7, <3>1, <3>2
  <2>2. Tokens(codes', at, n)
    <3>1. Tokens(codes, at, n) /\ Len(codes) <= Len(codes')
      BY <1>2, <2>1 DEF LaidOut
    <3>2. QED
      BY ONLY <1>4, <2>1, <3>1, n \in Nat, TokensStay
  <2>3. Tokens(codes, at, n)'
    BY <1>3, <2>2, TokensPrimed
  <2>4. Encodes(at[n + 1])'
    <3>1. rd' <= Len(data) => cc' = data[rd']
      <4>1. rd + 1 < Len(data) => Given(rd + 1) = {data[rd + 1 + 1]}
        BY DEF Given
      <4>2. QED
        BY <1>4, <1>7, <4>1
    <3>2. \A j \in s.p .. rd' - 1 : data[j] = data[s.p]
      <4>1. ASSUME NEW j \in s.p .. rd' - 1 PROVE data[j] = data[s.p]
        <5>1. j = s.p \/ j = s.p + 1
          <6>1. PICK p \in Nat : p = s.p /\ rd' = p + 2
            BY <1>2, <1>7
          <6>2. j \in p .. p + 2 - 1
            BY <6>1
          <6>3. QED
            BY <6>1, <6>2
        <5>2. QED
          BY <1>2, <1>7, <5>1
      <4>2. QED
        BY <4>1
    <3>3. rd' = s.p + 2 + cnt' /\ s.p < Len(data)
      BY <1>2, <1>7
    <3>4. nc' = data[s.p] /\ cc = data[s.p]
      BY <1>2, <1>7
    <3>5. QED
      BY <1>1, <1>3, <1>7, <2>1, <3>1, <3>2, <3>3, <3>4 DEF Encodes, Good
  <2>5. Decodes(at, n)'
    <3>1. dpos = 0 /\ left = 0 /\ out = <<>>
      BY <1>2 DEF LaidOut, Decodes
    <3>2. QED
      BY <1>3, <1>7, <3>1 DEF Decodes, decoder
  <2>6. QED
    BY <2>3, <2>4, <2>5 DEF LaidOut
<1>8. PICK b \in Given(rd) :
       IF rd >= Len(data)
         THEN /\ nc' = b /\ rd' = rd + 1
              /\ codes' = Append(codes, cc)
              /\ UNCHANGED <<cc, cnt, pc>>
       ELSE IF b = cc
         THEN /\ nc' = b /\ rd' = rd + 2 /\ cnt' = 0
              /\ codes' = codes \o <<cc, b>>
              /\ \E c \in Given(rd + 1) : cc' = c
              /\ pc' = "run"
       ELSE /\ nc' = b /\ cc' = b /\ rd' = rd + 1
            /\ codes' = Append(codes, cc)
            /\ UNCHANGED <<cnt, pc>>
  BY DEF EncodeNext
<1>9. b \in Byte /\ (rd < Len(data) => b = data[rd + 1])
  BY <1>4, ReadsBytes
<1>10. CASE rd >= Len(data) \/ b # cc
  BY <1>2, <1>4, <1>6, <1>8, <1>9, <1>10
<1>11. CASE ~(rd >= Len(data)) /\ b = cc
  <2>1. /\ nc' = b /\ rd' = rd + 2 /\ cnt' = 0 /\ codes' = codes \o <<cc, b>>
        /\ cc' \in Given(rd + 1) /\ pc' = "run" /\ rd < Len(data) /\ data[rd + 1] = b
    BY <1>4, <1>8, <1>9, <1>11
  <2>2. LaidOut(at, n)'
    BY <1>7, <1>9, <1>11, <2>1
  <2>3. QED
    BY <2>2
<1>12. QED
  BY <1>10, <1>11

(* A run goes on, or ends with its count.                                  *)
LEMMA EncodeRunKeepsLayout ==
  ASSUME ITypeOK, ITypeOK', NEW n \in Nat, NEW at, LaidOut(at, n), EncodeRun
  PROVE  \E m \in Nat : \E b : LaidOut(b, m)'
<1>1. PICK s \in Place : s = at[n + 1]
  BY DEF LaidOut, Tokens
<1>2. /\ pc = "run" /\ s.p < Len(data) /\ Len(codes) = s.c + 2
      /\ codes[s.c + 1] = data[s.p] /\ codes[s.c + 2] = data[s.p] /\ nc = data[s.p]
      /\ rd = s.p + 2 + cnt
      /\ \A j \in s.p .. rd - 1 : data[j] = data[s.p]
      /\ rd <= Len(data) => cc = data[rd]
  BY <1>1 DEF EncodeRun, LaidOut, Encodes, Good
<1>3. s.p \in Nat /\ s.c \in Nat /\ s.p >= 1 /\ Aligned(s.p)
  BY <1>1 DEF Place, LaidOut, Tokens
<1>4. UNCHANGED <<data, nc, size>> /\ UNCHANGED decoder
  BY DEF EncodeRun
<1>5. /\ Len(data) \in Nat /\ rd \in Nat /\ rd <= Len(data) + 1 /\ codes \in Seq(Byte)
      /\ cnt \in Byte /\ cnt \in Nat /\ cnt <= MaxRun
  <2>1. cnt \in Byte
    BY DEF ITypeOK
  <2>2. cnt \in Nat /\ cnt <= MaxRun
    BY <2>1, BytesAreNumbers
  <2>3. QED
    BY <2>1, <2>2, Numbers
<1>0. /\ rd = s.p + 2 + cnt /\ s.p \in Nat /\ s.c \in Nat /\ cnt \in Nat /\ rd \in Nat
      /\ Len(data) \in Nat /\ s.p >= 1 /\ MaxRun \in Nat /\ cnt <= MaxRun
      /\ Len(codes) = s.c + 2
  BY <1>2, <1>3, <1>5, BytesAreNumbers
<1>6. CASE Good /\ nc = cc /\ cnt < MaxRun
  <2>1. cnt' = cnt + 1 /\ rd' = rd + 1 /\ cc' \in Given(rd) /\ UNCHANGED <<codes, pc>>
    BY <1>6 DEF EncodeRun
  <2>2. Tokens(codes, at, n)'
    <3>1. Tokens(codes', at, n)
      BY <2>1 DEF LaidOut
    <3>2. QED
      BY <1>4, <3>1, TokensPrimed
  <2>3. Encodes(at[n + 1])'
    <3>1. rd' <= Len(data) => cc' = data[rd']
      <4>1. rd < Len(data) => Given(rd) = {data[rd + 1]}
        BY DEF Given
      <4>2. QED
        BY <1>5, <2>1, <4>1
    <3>2. ASSUME NEW j \in s.p .. rd' - 1 PROVE data[j] = data[s.p]
      <4>1. CASE j = rd
        BY <1>2, <1>6, <4>1 DEF Good
      <4>2. CASE j # rd
        <5>1. j \in s.p .. rd - 1
          BY <1>3, <1>5, <2>1, <4>2
        <5>2. QED
          BY <1>2, <5>1
      <4>3. QED
        BY <4>1, <4>2
    <3>3. rd' = s.p + 2 + cnt'
      <4>1. rd' = rd + 1 /\ cnt' = cnt + 1
        BY <2>1
      <4>2. PICK p \in Nat, c \in Nat : p = s.p /\ c = cnt /\ rd = p + 2 + c
        BY <1>0
      <4>3. rd + 1 = p + 2 + (c + 1)
        BY <4>2
      <4>4. QED
        BY <4>1, <4>2, <4>3
    <3>4. QED
      BY <1>1, <1>2, <1>4, <2>1, <3>1, <3>2, <3>3 DEF Encodes, Good
  <2>4. Decodes(at, n)'
    <3>1. dpos = 0 /\ left = 0 /\ out = <<>>
      BY <1>2 DEF LaidOut, Decodes
    <3>2. QED
      BY <1>2, <1>4, <2>1, <3>1 DEF Decodes, decoder
  <2>5. QED
    BY <2>2, <2>3, <2>4 DEF LaidOut
<1>7. CASE ~(Good /\ nc = cc /\ cnt < MaxRun)
  <2>1. codes' = Append(codes, cnt) /\ pc' = "encode" /\ UNCHANGED <<cnt, rd, cc>>
    BY <1>7 DEF EncodeRun
  <2>2. PICK e \in Place : e = [p |-> s.p + 2 + cnt, c |-> s.c + 3]
    <3>1. s.p + 2 + cnt \in Nat /\ s.c + 3 \in Nat
      BY <1>0
    <3>2. [p |-> s.p + 2 + cnt, c |-> s.c + 3] \in Place
      BY ONLY <3>1 DEF Place
    <3>3. QED
      BY <3>2
  <2>3. e.p = rd /\ e.c = s.c + 3 /\ e.p = s.p + 2 + cnt
    BY <1>2, <2>2
  <2>4. /\ codes'[s.c + 1] = codes[s.c + 1] /\ codes'[s.c + 2] = codes[s.c + 2]
        /\ codes'[e.c] = cnt /\ Len(codes') = e.c
    <3>1. PICK g : g = Append(codes, cnt)
      OBVIOUS
    <3>2. Len(g) = Len(codes) + 1 /\ \A i \in 1 .. Len(codes) : g[i] = codes[i] /\ g[Len(codes) + 1] = cnt
      BY ONLY <1>5, <3>1
    <3>3. g[s.c + 2 + 1] = cnt /\ Len(g) = s.c + 3 /\ s.c + 2 + 1 = s.c + 3
      BY <1>0, <3>2
    <3>4. s.c + 1 \in 1 .. Len(codes) /\ s.c + 2 \in 1 .. Len(codes)
      <4>1. PICK x \in Nat : x = s.c /\ Len(codes) = x + 2
        BY <1>0
      <4>2. x + 1 \in 1 .. x + 2 /\ x + 2 \in 1 .. x + 2
        OBVIOUS
      <4>3. QED
        BY <4>1, <4>2
    <3>5. g[s.c + 1] = codes[s.c + 1] /\ g[s.c + 2] = codes[s.c + 2]
      BY <3>2, <3>4
    <3>6. QED
      BY <2>1, <2>3, <3>1, <3>3, <3>5
  <2>5. rd <= Len(data) => data[rd] # data[s.p] \/ cnt = MaxRun
    <3>1. SUFFICES ASSUME rd <= Len(data), cnt # MaxRun PROVE data[rd] # data[s.p]
      OBVIOUS
    <3>2. Good /\ cnt < MaxRun
      BY <1>0, <3>1 DEF Good
    <3>3. nc # cc
      BY <1>7, <3>2
    <3>4. QED
      BY <1>2, <3>1, <3>3
  <2>6. Token(codes', at[n + 1], e)
    <3>1. codes'[e.c] < MaxRun /\ e.p <= Len(data) => data[e.p] # data[s.p]
      BY <1>5, <2>3, <2>4, <2>5
    <3>2. IsRun(codes', s, e)
      BY <1>2, <1>3, <1>5, <2>3, <2>4, <3>1 DEF IsRun
    <3>3. QED
      BY <1>1, <1>2, <1>3, <3>2 DEF Token
  <2>7. Aligned(e.p)
    <3>1. SUFFICES ASSUME rd <= Len(data)
                   PROVE  \E k \in 1 .. rd : (rd - k) % (MaxRun + 2) = 0 /\ RunFrom(k, rd)
      BY <2>3 DEF Aligned
    <3>2. PICK m \in Nat \ {0} : m = MaxRun + 2
      BY BytesAreNumbers
    <3>3. data[rd - 1] = data[s.p]
      <4>1. rd - 1 \in s.p .. rd - 1
        <5>1. PICK p \in Nat, c \in Nat : p = s.p /\ c = cnt /\ rd = p + 2 + c
          BY <1>0
        <5>2. p + 2 + c - 1 \in p .. p + 2 + c - 1
          BY <5>1
        <5>3. QED
          BY <5>1, <5>2
      <4>2. QED
        BY <1>2, <4>1
    <3>4. CASE data[rd] # data[s.p]
      <4>1. (rd - rd) % m = 0
        BY <1>5
      <4>2. RunFrom(rd, rd)
        BY <1>5, <3>3, <3>4 DEF RunFrom
      <4>3. rd \in 1 .. rd
        <5>1. PICK p \in Nat, c \in Nat : p = s.p /\ c = cnt /\ rd = p + 2 + c
          BY <1>0
        <5>2. rd \in Nat /\ rd >= 1
          BY <5>1
        <5>3. QED
          BY <5>2
      <4>4. QED
        BY <3>2, <4>1, <4>2, <4>3
    <3>5. CASE data[rd] = data[s.p]
      <4>1. PICK k \in 1 .. s.p : (s.p - k) % m = 0 /\ RunFrom(k, s.p)
        <5>1. s.p <= Len(data)
          BY <1>0, <1>2
        <5>2. \E k \in 1 .. s.p : (s.p - k) % (MaxRun + 2) = 0 /\ RunFrom(k, s.p)
          BY <1>3, <5>1 DEF Aligned
        <5>3. QED
          BY <3>2, <5>2
      <4>2. rd = s.p + m
        <5>1. cnt = MaxRun
          BY <2>5, <3>1, <3>5
        <5>2. QED
          BY <1>0, <3>2, <5>1
      <4>3. (rd - k) % m = 0
        <5>1. PICK x \in Nat : x = s.p - k
          BY <1>3
        <5>2. rd - k = x + m
          BY <1>3, <4>2, <5>1
        <5>3. 0 \in 0 .. m - 1
          OBVIOUS
        <5>4. (x + m) % m = 0
          BY <4>1, <5>1, <5>3, RemainderOfSum
        <5>5. QED
          BY <5>2, <5>4
      <4>4. RunFrom(k, rd)
        <5>1. data[s.p] = data[k]
          BY <1>3, <4>1 DEF RunFrom
        <5>2. ASSUME NEW j \in k .. rd PROVE data[j] = data[k]
          <6>1. j \in k .. s.p \/ j \in s.p .. rd - 1 \/ j = rd
            BY <1>3, <1>5
          <6>2. QED
            BY <1>2, <3>5, <4>1, <5>1, <6>1 DEF RunFrom
        <5>3. QED
          BY <4>1, <5>2 DEF RunFrom
      <4>5. k \in 1 .. rd
        BY <1>3, <1>5, <4>2
      <4>6. QED
        BY <3>2, <4>3, <4>4, <4>5
    <3>6. QED
      BY <3>4, <3>5
  <2>8. e.p >= 1 /\ e.p <= Len(data) + 1 /\ rd' = e.p /\ (rd' <= Len(data) => cc' = data[rd'])
    <3>1. e.p >= 1
      <4>1. PICK p \in Nat, c \in Nat : p = s.p /\ c = cnt /\ rd = p + 2 + c
        BY <1>0
      <4>2. rd >= 1
        BY <4>1
      <4>3. QED
        BY <2>3, <4>2
    <3>2. e.p <= Len(data) + 1 /\ rd' = e.p
      BY <1>5, <2>1, <2>3
    <3>3. rd' <= Len(data) => cc' = data[rd']
      BY <1>2, <2>1
    <3>4. QED
      BY <3>1, <3>2, <3>3
  <2>9. QED
    BY <1>2, <1>4, <1>5, <2>1, <2>4, <2>6, <2>7, <2>8, TokenIsEncoded
<1>8. QED
  BY <1>6, <1>7

-----------------------------------------------------------------------------
(* What the decoder is to give at position i.                              *)
Expected(i) == IF AfterFullRun(i) THEN data[i - 1] ELSE data[i]

(* A byte that repeats the one before it is not behind a full run.         *)
LEMMA InsideRun ==
  ASSUME NEW q \in Nat, q >= 2, data[q] = data[q - 1]
  PROVE  ~AfterFullRun(q)
<1>1. ASSUME NEW k \in 1 .. q - 1, \A j \in k .. q - 1 : data[j] = data[k], data[q] # data[k]
      PROVE  FALSE
  <2>1. q - 1 \in k .. q - 1
    OBVIOUS
  <2>2. QED
    BY <1>1, <2>1
<1>2. QED
  BY <1>1 DEF AfterFullRun

(* One that differs is behind a full run just if the token before it is a  *)
(* full run.                                                               *)
LEMMA BehindToken ==
  ASSUME NEW p \in Nat, NEW q \in Nat, p >= 1, p < q, p <= Len(data), Aligned(p),
         \A j \in p .. q - 1 : data[j] = data[p], data[q] # data[p], q - p <= MaxRun + 2
  PROVE  AfterFullRun(q) <=> q - p = MaxRun + 2
<1>1. PICK m \in Nat \ {0} : m = MaxRun + 2
  BY BytesAreNumbers
<1>2. PICK k \in 1 .. p : (p - k) % m = 0 /\ RunFrom(k, p)
  BY <1>1 DEF Aligned
<1>3. data[p] = data[k]
  BY <1>2 DEF RunFrom
<1>4. \A j \in k .. q - 1 : data[j] = data[k]
  <2>1. ASSUME NEW j \in k .. q - 1 PROVE data[j] = data[k]
    <3>1. j \in k .. p \/ j \in p .. q - 1
      OBVIOUS
    <3>2. QED
      BY <1>2, <1>3, <3>1 DEF RunFrom
  <2>2. QED
    BY <2>1
<1>5. CASE q - p = m
  <2>1. PICK x \in Nat : x = p - k
    OBVIOUS
  <2>2. q - k = x + m
    BY <1>5, <2>1
  <2>3. (x + m) % m = 0
    <3>1. 0 \in 0 .. m - 1
      OBVIOUS
    <3>2. QED
      BY <1>2, <2>1, <3>1, RemainderOfSum
  <2>4. (q - k) % m = 0
    BY <2>2, <2>3
  <2>5. k \in 1 .. q - 1
    OBVIOUS
  <2>6. data[q] # data[k] /\ (k > 1 => data[k - 1] # data[k])
    BY <1>2, <1>3 DEF RunFrom
  <2>7. AfterFullRun(q)
    BY <1>1, <1>4, <2>4, <2>5, <2>6 DEF AfterFullRun
  <2>8. QED
    BY <1>1, <1>5, <2>7
<1>6. ASSUME AfterFullRun(q) PROVE q - p = m
  <2>1. PICK l \in 1 .. q - 1 :
          /\ (q - l) % m = 0
          /\ \A j \in l .. q - 1 : data[j] = data[l]
          /\ l > 1 => data[l - 1] # data[l]
    BY <1>1, <1>6 DEF AfterFullRun
  <2>2. k = l
    <3>1. q - 1 \in Nat /\ k \in 1 .. q - 1
      OBVIOUS
    <3>2. RunFrom(k, q - 1)
      BY <1>2, <1>4 DEF RunFrom
    <3>3. RunFrom(l, q - 1)
      BY <2>1 DEF RunFrom
    <3>4. QED
      BY <3>1, <3>2, <3>3, RunStartsOnce
  <2>3. PICK x \in Nat, r \in Nat : x = p - k /\ r = q - p
    OBVIOUS
  <2>4. q - k = x + r
    BY <2>3
  <2>5. ASSUME r # m PROVE FALSE
    <3>1. r \in 0 .. m - 1 /\ r >= 1
      BY <1>1, <2>3, <2>5
    <3>2. (x + r) % m = r
      <4>1. x % m = 0
        BY <1>2, <2>3
      <4>2. r \in 0 .. m - 1
        BY <3>1
      <4>3. QED
        BY <4>1, <4>2, RemainderOfSum
    <3>3. QED
      BY <2>1, <2>2, <2>4, <3>1, <3>2
  <2>6. QED
    BY <2>3, <2>5
<1>7. QED
  BY <1>1, <1>5, <1>6

(* What the decoder writes is as expected if what it adds is.              *)
LEMMA OutGrows ==
  ASSUME ITypeOK, DecodesButAfterFullRuns, data' = data, out' \in Seq(Byte),
         Len(out) <= Len(out'), Len(out') <= Len(data),
         \A i \in 1 .. Len(out) : out'[i] = out[i],
         \A i \in Len(out) + 1 .. Len(out') : out'[i] = Expected(i)
  PROVE  DecodesButAfterFullRuns'
<1>1. \A i : AfterFullRun(i)' <=> AfterFullRun(i)
  BY DEF AfterFullRun
<1>2. ASSUME NEW i \in 1 .. Len(out') PROVE out'[i] = Expected(i)
  <2>1. Len(out) \in Nat /\ Len(out') \in Nat
    BY DEF ITypeOK
  <2>2. i \in 1 .. Len(out) \/ i \in Len(out) + 1 .. Len(out')
    BY <2>1
  <2>3. QED
    BY <2>2 DEF DecodesButAfterFullRuns, Expected
<1>3. QED
  BY <1>1, <1>2 DEF DecodesButAfterFullRuns, Expected

(* The elements of a concatenation.                                        *)
LEMMA Joined ==
  ASSUME NEW f \in Seq(Byte), NEW g \in Seq(Byte), NEW h, h = f \o g
  PROVE  /\ h \in Seq(Byte) /\ Len(h) = Len(f) + Len(g)
         /\ \A i \in 1 .. Len(h) : h[i] = IF i <= Len(f) THEN f[i] ELSE g[i - Len(f)]
BY ConcatProperties

(* What a round adds to out.                                               *)
LEMMA ByteAdds ==
  ASSUME ITypeOK, NEW b \in Byte, NEW g, g = Append(out, b)
  PROVE  /\ g \in Seq(Byte) /\ Len(g) = Len(out) + 1
         /\ \A i \in 1 .. Len(out) : g[i] = out[i]
         /\ g[Len(out) + 1] = b
<1>1. out \in Seq(Byte)
  BY Numbers
<1>2. QED
  BY <1>1

(* g is out with n more bytes, all of them b.                              *)
Adds(g, n, b) ==
  /\ g \in Seq(Byte) /\ Len(g) = Len(out) + n
  /\ \A i \in 1 .. Len(out) : g[i] = out[i]
  /\ \A i \in Len(out) + 1 .. Len(out) + n : g[i] = b

(* Writing a byte and its run adds that many of it.                        *)
LEMMA RunAdds ==
  ASSUME ITypeOK, NEW b \in Byte, NEW n \in Byte
  PROVE  Adds(Append(out, b) \o Copies(b, n), 1 + n, b)
<1>1. out \in Seq(Byte) /\ n \in Nat /\ Len(out) \in Nat
  BY BytesAreNumbers DEF ITypeOK
<1>2. PICK l \in Nat : l = Len(out)
  BY <1>1
<1>3. PICK one : one = Append(out, b)
  OBVIOUS
<1>4. /\ one \in Seq(Byte) /\ Len(one) = l + 1 /\ \A i \in 1 .. l : one[i] = out[i]
      /\ one[l + 1] = b
  BY <1>1, <1>2, <1>3
<1>5. PICK q : q = Copies(b, n)
  OBVIOUS
<1>6. q \in Seq(Byte) /\ Len(q) = n /\ \A i \in 1 .. n : q[i] = b
  BY <1>1, <1>5, CopiesAre
<1>7. PICK run : run = one \o q
  OBVIOUS
<1>8. /\ run \in Seq(Byte) /\ Len(run) = l + 1 + n /\ \A i \in 1 .. l : run[i] = out[i]
      /\ \A i \in l + 1 .. l + 1 + n : run[i] = b
  <2>1. /\ run \in Seq(Byte) /\ Len(run) = Len(one) + Len(q)
        /\ \A i \in 1 .. Len(run) : run[i] = IF i <= Len(one) THEN one[i] ELSE q[i - Len(one)]
    <3>1. one \in Seq(Byte) /\ q \in Seq(Byte)
      BY <1>4, <1>6
    <3>2. QED
      BY ONLY <3>1, <1>7, Joined
  <2>2. Len(run) = l + 1 + n
    BY <1>1, <1>4, <1>6, <2>1
  <2>3. ASSUME NEW i \in 1 .. l PROVE run[i] = out[i]
    <3>1. i \in 1 .. Len(run) /\ i <= Len(one)
      BY <1>1, <1>4, <2>2
    <3>2. QED
      BY <1>4, <2>1, <3>1
  <2>4. ASSUME NEW i \in l + 1 .. l + 1 + n PROVE run[i] = b
    <3>1. i \in 1 .. Len(run)
      BY <1>1, <2>2
    <3>2. CASE i = l + 1
      BY <1>4, <2>1, <3>1, <3>2
    <3>3. CASE i # l + 1
      <4>1. ~(i <= Len(one)) /\ i - Len(one) \in 1 .. n
        BY <1>1, <1>4, <3>3
      <4>2. run[i] = q[i - Len(one)]
        BY <2>1, <3>1, <4>1
      <4>3. QED
        BY <1>6, <4>1, <4>2
    <3>4. QED
      BY <3>2, <3>3
  <2>5. QED
    BY <2>1, <2>2, <2>3, <2>4
<1>9. l + (1 + n) = l + 1 + n
  BY <1>1
<1>10. Adds(run, 1 + n, b)
  BY <1>2, <1>8, <1>9 DEF Adds
<1>11. QED
  BY <1>3, <1>5, <1>7, <1>10

(* So does one with the byte behind a full run.                            *)
LEMMA FullRunAdds ==
  ASSUME ITypeOK, NEW b \in Byte, NEW n \in Byte
  PROVE  Adds(Append(out, b) \o Copies(b, n) \o <<b>>, 2 + n, b)
<1>1. n \in Nat
  BY BytesAreNumbers
<1>2. PICK l \in Nat : l = Len(out)
  BY Numbers
<1>7. PICK run : run = Append(out, b) \o Copies(b, n)
  OBVIOUS
<1>8. /\ run \in Seq(Byte) /\ Len(run) = l + 1 + n /\ \A i \in 1 .. l : run[i] = out[i]
      /\ \A i \in l + 1 .. l + 1 + n : run[i] = b
  <2>1. Adds(run, 1 + n, b)
    BY <1>7, RunAdds
  <2>2. l + (1 + n) = l + 1 + n
    BY <1>1
  <2>3. QED
    BY <1>2, <2>1, <2>2 DEF Adds
<1>9. PICK more : more = run \o <<b>>
  OBVIOUS
<1>10. /\ more \in Seq(Byte) /\ Len(more) = l + 2 + n /\ \A i \in 1 .. l : more[i] = out[i]
       /\ \A i \in l + 1 .. l + 2 + n : more[i] = b
  <2>1. PICK e : e = <<b>>
    OBVIOUS
  <2>0. e \in Seq(Byte) /\ Len(e) = 1 /\ e[1] = b
    BY <2>1
  <2>2. /\ more \in Seq(Byte) /\ Len(more) = Len(run) + Len(e)
        /\ \A i \in 1 .. Len(more) : more[i] = IF i <= Len(run) THEN run[i] ELSE e[i - Len(run)]
    BY ONLY <1>8, <1>9, <2>0, <2>1, Joined
  <2>3. Len(more) = l + 2 + n
    BY <1>1, <1>8, <2>0, <2>2
  <2>4. ASSUME NEW i \in 1 .. l PROVE more[i] = out[i]
    <3>1. i \in 1 .. Len(more) /\ i <= Len(run)
      BY <1>1, <1>8, <2>3
    <3>2. QED
      BY <1>8, <2>2, <3>1
  <2>5. ASSUME NEW i \in l + 1 .. l + 2 + n PROVE more[i] = b
    <3>1. i \in 1 .. Len(more)
      BY <1>1, <2>3
    <3>2. CASE i = l + 2 + n
      <4>1. ~(i <= Len(run)) /\ i - Len(run) = 1
        BY <1>1, <1>8, <3>2
      <4>2. QED
        BY <2>0, <2>2, <3>1, <4>1
    <3>3. CASE i # l + 2 + n
      <4>1. i <= Len(run) /\ i \in l + 1 .. l + 1 + n
        BY <1>1, <1>8, <3>3
      <4>2. QED
        BY <1>8, <2>2, <3>1, <4>1
    <3>4. QED
      BY <3>2, <3>3
  <2>6. QED
    BY <2>2, <2>3, <2>4, <2>5
<1>11. l + (2 + n) = l + 2 + n
  BY <1>1
<1>12. Adds(more, 2 + n, b)
  BY <1>2, <1>10, <1>11 DEF Adds
<1>13. QED
  BY <1>7, <1>9, <1>12

-----------------------------------------------------------------------------
(* The tokens once the encoder is through: what follows one that does not  *)
(* reach the end of the file, and where the last one ends.                 *)
LEMMA NextToken ==
  ASSUME ITypeOK, NEW n \in Nat, NEW at, Tokens(codes, at, n),
         at[n + 1].p = Len(data) + 1, at[n + 1].c = Len(codes), NEW t \in 1 .. n
  PROVE  /\ at[t] \in Place /\ at[t + 1] \in Place /\ Token(codes, at[t], at[t + 1])
         /\ at[t].p >= 1 /\ at[t].p <= Len(data) /\ Aligned(at[t].p)
         /\ at[t + 1].p <= Len(data) =>
              /\ t + 1 \in 1 .. n
              /\ at[t + 1].c < Len(codes)
              /\ codes[at[t + 1].c + 1] = data[at[t + 1].p]
         /\ at[t + 1].p = Len(data) + 1 => at[t + 1].c = Len(codes)
<1>1. t \in 1 .. n + 1 /\ t + 1 \in 1 .. n + 1
  OBVIOUS
<1>2. /\ at[t] \in Place /\ at[t + 1] \in Place /\ Token(codes, at[t], at[t + 1])
      /\ at[t].p >= 1 /\ at[t].p <= Len(data) /\ Aligned(at[t].p)
  BY <1>1 DEF Tokens, Token
<1>3. Len(data) \in Nat /\ Len(codes) \in Nat
  BY DEF ITypeOK
<1>4. ASSUME t + 1 \in 1 .. n
      PROVE  /\ at[t + 1].p <= Len(data) /\ at[t + 1].c < Len(codes)
             /\ codes[at[t + 1].c + 1] = data[at[t + 1].p]
  <2>1. Token(codes, at[t + 1], at[t + 1 + 1])
    BY <1>4 DEF Tokens
  <2>2. PICK s, e : s \in Place /\ s = at[t + 1] /\ e = at[t + 1 + 1]
    BY <1>2
  <2>3. s.p <= Len(data) /\ s.c \in Nat /\ (IsLiteral(codes, s, e) \/ IsRun(codes, s, e))
    BY <2>1, <2>2 DEF Token, Place
  <2>4. s.c < Len(codes) /\ codes[s.c + 1] = data[s.p]
    <3>1. CASE IsLiteral(codes, s, e)
      <4>1. e.c = s.c + 1 /\ e.c <= Len(codes) /\ codes[s.c + 1] = data[s.p]
        BY <3>1 DEF IsLiteral
      <4>2. QED
        BY <1>3, <2>3, <4>1
    <3>2. CASE IsRun(codes, s, e)
      <4>1. e.c = s.c + 3 /\ e.c <= Len(codes) /\ codes[s.c + 1] = data[s.p]
        BY <3>2 DEF IsRun
      <4>2. QED
        BY <1>3, <2>3, <4>1
    <3>3. QED
      BY <2>3, <3>1, <3>2
  <2>5. QED
    BY <2>2, <2>3, <2>4
<1>5. CASE t + 1 \in 1 .. n
  <2>1. at[t + 1].p # Len(data) + 1
    <3>1. at[t + 1].p \in Nat
      BY <1>2 DEF Place
    <3>2. QED
      BY <1>3, <1>4, <1>5, <3>1
  <2>2. QED
    BY <1>2, <1>4, <1>5, <2>1
<1>6. CASE t = n
  <2>1. ~(at[t + 1].p <= Len(data))
    BY <1>3, <1>6
  <2>2. QED
    BY <1>2, <1>6, <2>1
<1>7. QED
  <2>1. t = n \/ t + 1 \in 1 .. n
    OBVIOUS
  <2>2. QED
    BY <1>5, <1>6, <2>1

(* The layout, while the decoder reads.                                    *)
Reads(at, n) == Tokens(codes, at, n) /\ at[n + 1].p = Len(data) + 1 /\ at[n + 1].c = Len(codes)

(* The decoder starts: with the first byte, or at once at the end of an    *)
(* empty file.                                                             *)
LEMMA DecodeFirstKeepsLayout ==
  ASSUME ITypeOK, ITypeOK', DecodesButAfterFullRuns, NEW n \in Nat, NEW at, LaidOut(at, n), DecodeFirst
  PROVE  LaidOut(at, n)' /\ DecodesButAfterFullRuns'
<1>1. /\ pc = "encode" /\ ~Good /\ UNCHANGED encoder
      /\ \/ size = 0 /\ pc' = "done" /\ UNCHANGED decoder
         \/ /\ size # 0 /\ dpos' = 1 /\ left' = size - 1 /\ pc' = "decode"
            /\ \E b \in Code(0) : dcc' = b /\ out' = <<b>>
  BY DEF DecodeFirst
<1>2. UNCHANGED <<data, rd, cc, nc, cnt, size, codes>>
  BY <1>1 DEF encoder
<1>3. at[n + 1].p = rd /\ at[n + 1].c = Len(codes)
  <2>1. PICK s : s = at[n + 1] /\ Encodes(s)
    BY DEF LaidOut
  <2>2. rd = s.p /\ Len(codes) = s.c
    BY <1>1, <2>1 DEF Encodes
  <2>3. QED
    BY <2>1, <2>2
<1>4. size = Len(data) /\ rd \in 1 .. Len(data) + 1 /\ Len(data) \in Nat /\ Len(codes) \in Nat
  BY Numbers
<1>5. rd = Len(data) + 1
  BY <1>1, <1>4 DEF Good
<1>6. Tokens(codes, at, n) /\ dpos = 0 /\ left = 0 /\ out = <<>>
  BY <1>1 DEF LaidOut, Decodes
<1>7. Tokens(codes, at, n)'
  <2>1. Tokens(codes', at, n)
    BY <1>2, <1>6
  <2>2. QED
    BY <1>2, <2>1, TokensPrimed
<1>8. Encodes(at[n + 1])'
  BY <1>1, <1>2, <1>3, <1>5 DEF Encodes, Good
<1>9. CASE size = 0
  <2>1. n = 0
    <3>1. ASSUME n # 0 PROVE FALSE
      <4>1. 1 \in 1 .. n
        BY <3>1
      <4>2. at[1].p <= Len(data) /\ at[1].p = 1
        BY <1>6, <4>1 DEF Tokens, Token
      <4>3. QED
        BY <1>4, <1>9, <4>2
    <3>2. QED
      BY <3>1
  <2>2. Len(codes) = 0
    <3>1. at[n + 1] = at[1]
      BY <2>1
    <3>2. QED
      BY <1>3, <1>6, <3>1 DEF Tokens
  <2>3. pc' = "done" /\ dpos' = 0 /\ left' = 0 /\ out' = out /\ dcc' = dcc
    BY <1>1, <1>6, <1>9 DEF decoder
  <2>4. Len(out') = 0
    BY <1>6, <2>3
  <2>5. Decodes(at, n)'
    BY <1>2, <1>4, <1>9, <2>2, <2>3, <2>4 DEF Decodes
  <2>6. DecodesButAfterFullRuns'
    BY <1>2, <2>3 DEF DecodesButAfterFullRuns, AfterFullRun
  <2>7. QED
    BY <1>7, <1>8, <2>5, <2>6 DEF LaidOut
<1>10. CASE size # 0
  <2>1. PICK b \in Code(0) : dcc' = b /\ out' = <<b>>
    BY <1>1, <1>10
  <2>2. n >= 1 /\ 1 \in 1 .. n
    <3>1. ASSUME n = 0 PROVE FALSE
      <4>1. at[n + 1] = at[1] /\ at[1].p = 1
        BY <1>6, <3>1 DEF Tokens
      <4>2. QED
        BY <1>3, <1>4, <1>5, <1>10, <4>1
    <3>2. QED
      BY <3>1
  <2>3. at[1].p = 1 /\ at[1].c = 0
    BY <1>6 DEF Tokens
  <2>4. 0 < Len(codes) /\ codes[0 + 1] = data[1]
    <3>1. Token(codes, at[1], at[1 + 1])
      BY <1>6, <2>2 DEF Tokens
    <3>2. PICK s, e : s = at[1] /\ e = at[1 + 1]
      OBVIOUS
    <3>3. codes[s.c + 1] = data[s.p] /\ (e.c = s.c + 1 \/ e.c = s.c + 3) /\ e.c <= Len(codes)
      BY <3>1, <3>2 DEF Token, IsLiteral, IsRun
    <3>4. QED
      BY <1>4, <2>3, <3>2, <3>3
  <2>5. b = data[1]
    BY <2>1, <2>4 DEF Code
  <2>6. Len(out') = 1 /\ out'[1] = b
    BY <2>1
  <2>7. Decodes(at, n)'
    <3>1. InToken(at[1])'
      BY <1>1, <1>2, <1>10, <2>1, <2>3, <2>5, <2>6 DEF InToken
    <3>2. left' = size' - Len(out')
      BY <1>1, <1>2, <1>10, <2>6
    <3>3. QED
      BY <1>1, <1>10, <2>2, <3>1, <3>2 DEF Decodes
  <2>8. DecodesButAfterFullRuns'
    <3>1. ~AfterFullRun(1)
      BY DEF AfterFullRun
    <3>2. Expected(1) = data[1]
      BY <3>1 DEF Expected
    <3>3. Len(out) = 0
      BY <1>6
    <3>4. \A i \in Len(out) + 1 .. Len(out') : out'[i] = Expected(i)
      BY <2>5, <2>6, <3>2, <3>3
    <3>5. out' \in Seq(Byte) /\ Len(out) <= Len(out') /\ Len(out') <= Len(data)
      BY <1>4, <1>10, <2>6, <3>3 DEF ITypeOK
    <3>6. \A i \in 1 .. Len(out) : out'[i] = out[i]
      BY <3>3
    <3>7. QED
      BY <1>2, <3>4, <3>5, <3>6, OutGrows
  <2>9. QED
    BY <1>7, <1>8, <2>7, <2>8 DEF LaidOut
<1>11. QED
  BY <1>9, <1>10

(* A round of the decoder writes bytes that are expected.                  *)
LEMMA RoundIsExpected ==
  ASSUME ITypeOK, DecodesButAfterFullRuns, UNCHANGED data, NEW b \in Byte, NEW o \in Nat, o = Len(out),
         NEW q \in Nat, q >= o, q <= Len(data), out' \in Seq(Byte), Len(out') = q,
         \A i \in 1 .. o : out'[i] = out[i],
         \A i \in o + 1 .. q : out'[i] = b,
         \A i \in o + 1 .. q : Expected(i) = b
  PROVE  DecodesButAfterFullRuns'
<1>1. \A i \in Len(out) + 1 .. Len(out') : out'[i] = Expected(i)
  OBVIOUS
<1>2. Len(out) <= Len(out') /\ Len(out') <= Len(data)
  OBVIOUS
<1>3. QED
  BY <1>1, <1>2, OutGrows

(* A round of the decoder that takes the first code of the next token, at  *)
(* place q of the file and behind d codes.                                 *)
LEMMA FirstOfToken ==
  ASSUME ITypeOK, DecodesButAfterFullRuns, UNCHANGED <<data, codes>>,
         NEW q \in Nat, NEW d \in Nat, q <= Len(data), d < Len(codes), codes[d + 1] = data[q],
         dpos = d, Len(out) = q - 1, left = Len(data) - Len(out), dcc # data[q], Expected(q) = data[q],
         NEW b \in Code(dpos), NEW k, NEW c, Round(b, k, c)
  PROVE  /\ left' = Len(data) - Len(out')
         /\ dpos' = d + 1 /\ Len(out') = q /\ dcc' = data[q]
         /\ DecodesButAfterFullRuns'
<1>1. b = data[q] /\ b # dcc /\ b \in Byte
  <2>1. Code(d) = {codes[d + 1]}
    BY DEF Code
  <2>2. b = data[q]
    BY <2>1
  <2>3. b \in Byte
    BY ReadsBytes
  <2>4. QED
    BY <2>2, <2>3
<1>2. out' = Append(out, b) /\ dcc' = b /\ dpos' = dpos + 1 /\ left' = left - 1
  BY <1>1 DEF Round
<1>3. /\ out' \in Seq(Byte) /\ Len(out') = Len(out) + 1 /\ \A i \in 1 .. Len(out) : out'[i] = out[i]
      /\ out'[Len(out) + 1] = b
  BY <1>1, <1>2, ByteAdds
<1>4. PICK o \in Nat, l \in Nat : o = Len(out) /\ l = Len(data) /\ o = q - 1
  BY Numbers
<1>5. Len(out') = q
  BY <1>3, <1>4
<1>6. left' = l - q
  BY <1>2, <1>4
<1>7. DecodesButAfterFullRuns'
  <2>1. \A i \in o + 1 .. q : out'[i] = b /\ Expected(i) = b
    <3>1. ASSUME NEW i \in o + 1 .. q PROVE i = q /\ i = o + 1
      BY <1>4
    <3>2. QED
      BY <1>1, <1>3, <1>4, <3>1
  <2>2. \A i \in 1 .. o : out'[i] = out[i]
    BY <1>3, <1>4
  <2>3. q >= o /\ q <= Len(data)
    BY <1>4
  <2>4. QED
    BY <1>1, <1>3, <1>4, <1>5, <2>1, <2>2, <2>3, RoundIsExpected
<1>8. QED
  BY <1>1, <1>2, <1>4, <1>5, <1>6, <1>7

(* A round of the decoder that takes the rest of the token from s to e, a  *)
(* run: it ends behind it, or with the byte after a full run.              *)
LEMMA RestOfRun ==
  ASSUME ITypeOK, DecodesButAfterFullRuns, UNCHANGED <<data, codes>>,
         NEW s \in Place, NEW e \in Place, IsRun(codes, s, e), InToken(s),
         s.p >= 1, s.p <= Len(data), Aligned(s.p),
         e.p <= Len(data) => e.c < Len(codes) /\ codes[e.c + 1] = data[e.p],
         left = Len(data) - Len(out),
         NEW b \in Code(dpos), NEW k \in Code(dpos + 1), NEW c \in Code(dpos + 2), Round(b, k, c)
  PROVE  /\ left' = Len(data) - Len(out')
         /\ AfterRunOf(s, e)' \/ (e.p <= Len(data) /\ InToken(e)')
         /\ DecodesButAfterFullRuns'
<1>1. PICK p \in Nat, x \in Nat, q \in Nat, d \in Nat : p = s.p /\ x = s.c /\ q = e.p /\ d = e.c
  BY DEF Place
<1>2. PICK l \in Nat, o \in Nat, m \in Nat, r \in Nat :
        l = Len(data) /\ o = Len(out) /\ m = Len(codes) /\ r = MaxRun
  BY Numbers
<1>3. /\ d = x + 3 /\ d <= m /\ codes[x + 2] = data[p]
      /\ q = p + 2 + codes[d] /\ q <= l + 1
      /\ codes[d] < r /\ q <= l => data[q] # data[p]
  BY <1>1, <1>2 DEF IsRun
<1>4. \A j \in p .. q - 1 : data[j] = data[p]
  BY <1>1 DEF IsRun
<1>5. dpos = x + 1 /\ o = p /\ dcc = data[p] /\ p >= 1 /\ p <= l
  BY <1>1, <1>2 DEF InToken
<1>6. b = dcc /\ k = codes[d] /\ b \in Byte /\ k \in Byte
  <2>1. x + 1 < m /\ x + 1 + 1 < m /\ x + 1 + 1 = x + 2 /\ x + 1 + 1 + 1 = d
    BY <1>3
  <2>2. Code(x + 1) = {codes[x + 2]} /\ Code(x + 1 + 1) = {codes[d]}
    BY <1>2, <2>1 DEF Code
  <2>3. Code(x + 1) \subseteq Byte /\ Code(x + 1 + 1) \subseteq Byte
    <3>1. x + 1 \in Nat /\ x + 1 + 1 \in Nat
      OBVIOUS
    <3>2. QED
      BY <3>1, ReadsBytes
  <2>4. QED
    BY <1>3, <1>5, <2>2, <2>3
<1>7. q = p + 2 + k /\ k \in Nat /\ k <= r
  BY <1>2, <1>3, <1>6, BytesAreNumbers
<1>8. left = l - p
  BY <1>2, <1>5
<1>9. ASSUME NEW i \in p + 1 .. q - 1 PROVE Expected(i) = b
  <2>1. i \in p .. q - 1 /\ i - 1 \in p .. q - 1
    OBVIOUS
  <2>2. data[i] = data[p] /\ data[i - 1] = data[p]
    BY <1>4, <2>1
  <2>3. QED
    BY <1>5, <1>6, <2>2 DEF Expected
<1>10. CASE k = MaxRun /\ left - 1 - k # 0
  <2>1. /\ out' = Append(out, b) \o Copies(b, k) \o <<b>>
        /\ dcc' = c /\ dpos' = dpos + 3 /\ left' = left - 2 - k
    BY <1>6, <1>10 DEF Round
  <2>2. /\ out' \in Seq(Byte) /\ Len(out') = o + 2 + k /\ \A i \in 1 .. o : out'[i] = out[i]
        /\ \A i \in o + 1 .. o + 2 + k : out'[i] = b
    <3>1. Adds(out', 2 + k, b)
      BY <1>6, <2>1, FullRunAdds
    <3>2. o + (2 + k) = o + 2 + k
      BY <1>7
    <3>3. QED
      BY <1>2, <3>1, <3>2 DEF Adds
  <2>3. q <= l /\ q = o + 2 + k /\ q - 1 >= p
    <3>1. q = p + 2 + k /\ o = p /\ q <= l + 1 /\ p <= l
      BY <1>3, <1>5, <1>7
    <3>2. l - p - 1 - k # 0
      BY <1>8, <1>10
    <3>3. QED
      BY <1>7, <3>1, <3>2
  <2>4. left' = l - q
    BY <1>7, <1>8, <2>1
  <2>5. InToken(e)'
    <3>1. dpos' = d + 1 /\ dpos + 2 = d
      BY <1>3, <1>5, <2>1
    <3>2. c = data[q]
      <4>1. d < Len(codes) /\ codes[d + 1] = data[q]
        BY <1>1, <1>2, <2>3
      <4>2. Code(d) = {codes[d + 1]}
        BY <4>1 DEF Code
      <4>3. QED
        BY <3>1, <4>1, <4>2
    <3>3. Len(out') = q /\ dcc' = data[q]
      BY <2>1, <2>2, <2>3, <3>2
    <3>4. QED
      BY <1>1, <3>1, <3>3 DEF InToken
  <2>6. Expected(q) = b
    <3>1. data[q - 1] = data[p]
      <4>1. q - 1 \in p .. q - 1
        BY <2>3
      <4>2. QED
        BY <1>4, <4>1
    <3>2. CASE data[q] = data[p]
      BY <1>5, <1>6, <3>1, <3>2 DEF Expected
    <3>3. CASE data[q] # data[p]
      <4>1. q - p = MaxRun + 2 /\ p < q /\ q - p <= MaxRun + 2
        BY <1>2, <1>7, <1>10
      <4>2. Aligned(p) /\ p <= Len(data)
        BY <1>1
      <4>3. AfterFullRun(q)
        BY ONLY p \in Nat, q \in Nat, <1>4, <1>5, <3>3, <4>1, <4>2, BehindToken
      <4>4. QED
        BY <1>5, <1>6, <3>1, <4>3 DEF Expected
    <3>4. QED
      BY <3>2, <3>3
  <2>7. \A i \in o + 1 .. q : out'[i] = b /\ Expected(i) = b
    <3>1. ASSUME NEW i \in o + 1 .. q PROVE Expected(i) = b
      <4>1. i = q \/ i \in p + 1 .. q - 1
        BY <1>5
      <4>2. QED
        BY <1>9, <2>6, <4>1
    <3>2. QED
      BY <2>2, <2>3, <3>1
  <2>8. DecodesButAfterFullRuns'
    <3>1. q >= o /\ q <= Len(data) /\ Len(out') = q
      <4>1. Len(out') = q /\ q <= Len(data)
        BY <1>2, <2>2, <2>3
      <4>2. q >= o
        BY <1>7, <2>3
      <4>3. QED
        BY <4>1, <4>2
    <3>2. QED
      BY <1>2, <1>6, <2>2, <2>7, <3>1, RoundIsExpected
  <2>9. QED
    BY <1>1, <1>2, <2>2, <2>3, <2>4, <2>5, <2>8
<1>11. CASE ~(k = MaxRun /\ left - 1 - k # 0)
  <2>1. /\ out' = Append(out, b) \o Copies(b, k)
        /\ dcc' = dcc /\ dpos' = dpos + 2 /\ left' = left - 1 - k
    BY <1>6, <1>11 DEF Round
  <2>2. /\ out' \in Seq(Byte) /\ Len(out') = o + 1 + k /\ \A i \in 1 .. o : out'[i] = out[i]
        /\ \A i \in o + 1 .. o + 1 + k : out'[i] = b
    <3>1. Adds(out', 1 + k, b)
      BY <1>6, <2>1, RunAdds
    <3>2. o + (1 + k) = o + 1 + k
      BY <1>7
    <3>3. QED
      BY <1>2, <3>1, <3>2 DEF Adds
  <2>3. PICK z \in Nat : z = q - 1 /\ z = o + 1 + k /\ z <= l
    <3>1. q = p + 2 + k /\ o = p /\ q <= l + 1 /\ k \in Nat
      BY <1>3, <1>5, <1>7
    <3>2. o + 1 + k \in Nat /\ q - 1 = o + 1 + k /\ o + 1 + k <= l
      BY <3>1
    <3>3. QED
      BY <3>2
  <2>4. left' = l - z
    BY <1>7, <1>8, <2>1, <2>3
  <2>5. AfterRunOf(s, e)'
    <3>1. dpos' = d
      BY <1>3, <1>5, <2>1
    <3>2. q <= l => codes[d] < r
      <4>1. left - 1 - k = l - z
        <5>1. left = l - p /\ z = p + 1 + k /\ k \in Nat
          <6>1. o = p /\ z = o + 1 + k
            BY <1>5, <2>3
          <6>2. QED
            BY <1>7, <1>8, <6>1
        <5>2. QED
          BY ONLY p \in Nat, l \in Nat, <5>1
      <4>2. q <= l => k # MaxRun
        BY <1>11, <2>3, <4>1
      <4>3. QED
        BY <1>2, <1>6, <1>7, <4>2
    <3>3. IsRun(codes, s, e)'
      BY DEF IsRun
    <3>4. Len(out') = q - 1 /\ dcc' = data[p]
      BY <1>5, <2>1, <2>2, <2>3
    <3>5. QED
      BY <1>1, <1>2, <3>1, <3>2, <3>3, <3>4 DEF AfterRunOf
  <2>6. \A i \in o + 1 .. z : out'[i] = b /\ Expected(i) = b
    <3>1. ASSUME NEW i \in o + 1 .. z PROVE i \in p + 1 .. q - 1 /\ i \in o + 1 .. o + 1 + k
      BY <1>5, <2>3
    <3>2. QED
      BY <1>9, <2>2, <3>1
  <2>7. DecodesButAfterFullRuns'
    <3>1. z >= o /\ z <= Len(data) /\ Len(out') = z
      BY <1>2, <1>7, <2>2, <2>3
    <3>2. QED
      BY <1>2, <1>6, <2>2, <2>6, <3>1, RoundIsExpected
  <2>8. QED
    BY <1>2, <2>2, <2>3, <2>4, <2>5, <2>7
<1>12. QED
  BY <1>10, <1>11

(* A round of the decoder, from within a token or from behind a run.       *)
LEMMA RoundKeepsLayout ==
  ASSUME ITypeOK, DecodesButAfterFullRuns, NEW n \in Nat, NEW at, Reads(at, n),
         NEW t \in 1 .. n, InToken(at[t]) \/ AfterRunOf(at[t], at[t + 1]),
         left = Len(data) - Len(out), left # 0, UNCHANGED <<data, codes>>,
         NEW b \in Code(dpos), NEW k \in Code(dpos + 1), NEW c \in Code(dpos + 2), Round(b, k, c)
  PROVE  /\ left' = Len(data) - Len(out')
         /\ \E u \in 1 .. n : InToken(at[u])' \/ AfterRunOf(at[u], at[u + 1])'
         /\ DecodesButAfterFullRuns'
<1>1. PICK s \in Place, e \in Place : s = at[t] /\ e = at[t + 1]
  BY NextToken DEF Reads
<1>2. /\ Token(codes, s, e) /\ s.p >= 1 /\ s.p <= Len(data) /\ Aligned(s.p)
      /\ e.p <= Len(data) => t + 1 \in 1 .. n /\ e.c < Len(codes) /\ codes[e.c + 1] = data[e.p]
  BY <1>1, NextToken DEF Reads
<1>3. PICK p \in Nat, q \in Nat, d \in Nat : p = s.p /\ q = e.p /\ d = e.c
  BY DEF Place
<1>4. PICK l \in Nat, o \in Nat, r \in Nat : l = Len(data) /\ o = Len(out) /\ r = MaxRun /\ o <= l
  BY Numbers DEF DecodesButAfterFullRuns
<1>5. ASSUME q <= l, dpos = d, o = q - 1, dcc = data[p], data[q] # data[p], p < q,
             \A j \in p .. q - 1 : data[j] = data[p], q - p < r + 2
      PROVE  /\ left' = Len(data) - Len(out')
             /\ t + 1 \in 1 .. n /\ InToken(e)'
             /\ DecodesButAfterFullRuns'
  <2>1. ~AfterFullRun(q)
    <3>1. q - p # MaxRun + 2 /\ q - p <= MaxRun + 2 /\ p >= 1 /\ p <= Len(data) /\ Aligned(p)
      <4>1. q - p # MaxRun + 2 /\ q - p <= MaxRun + 2
        BY <1>4, <1>5
      <4>2. QED
        BY <1>2, <1>3, <4>1
    <3>2. QED
      BY <1>5, <3>1, BehindToken
  <2>2. Expected(q) = data[q]
    BY <2>1 DEF Expected
  <2>3. /\ q <= Len(data) /\ d < Len(codes) /\ codes[d + 1] = data[q] /\ dpos = d
        /\ Len(out) = q - 1 /\ dcc # data[q]
    BY <1>2, <1>3, <1>4, <1>5
  <2>4. /\ left' = Len(data) - Len(out') /\ DecodesButAfterFullRuns'
        /\ dpos' = d + 1 /\ Len(out') = q /\ dcc' = data[q]
    BY <2>2, <2>3, FirstOfToken
  <2>5. InToken(e)'
    BY <1>3, <2>4 DEF InToken
  <2>6. t + 1 \in 1 .. n
    BY <1>2, <1>3, <2>3
  <2>7. QED
    BY <2>4, <2>5, <2>6
<1>6. CASE AfterRunOf(s, e)
  <2>1. dpos = d /\ o = q - 1 /\ dcc = data[p] /\ (q <= l => codes[d] < r)
    BY <1>3, <1>4, <1>6 DEF AfterRunOf
  <2>2. q <= l
    <3>1. left = l - o
      BY <1>4
    <3>2. QED
      BY <1>4, <2>1, <3>1
  <2>3. /\ d <= Len(codes) /\ q = p + 2 + codes[d] /\ (\A j \in p .. q - 1 : data[j] = data[p])
        /\ (codes[d] < r /\ q <= l => data[q] # data[p]) /\ d = s.c + 3 /\ s.c \in Nat
    BY <1>3, <1>4, <1>6 DEF AfterRunOf, IsRun, Place
  <2>4. codes[d] \in Nat
    <3>1. d \in 1 .. Len(codes)
      <4>1. d >= 1
        BY <2>3
      <4>2. QED
        BY <2>3, <4>1, Numbers
    <3>2. codes[d] \in Byte
      BY <3>1, Numbers
    <3>3. QED
      BY <3>2, BytesAreNumbers
  <2>5. p < q /\ q - p < r + 2
    <3>1. PICK j \in Nat : j = codes[d]
      BY <2>4
    <3>2. q = p + 2 + j /\ j < r
      BY <2>1, <2>2, <2>3, <3>1
    <3>3. QED
      BY <3>2
  <2>6. QED
    BY <1>1, <1>5, <2>1, <2>2, <2>3, <2>5
<1>7. CASE InToken(s) /\ IsLiteral(codes, s, e)
  <2>1. dpos = s.c + 1 /\ o = p /\ dcc = data[p]
    BY <1>3, <1>4, <1>7 DEF InToken
  <2>2. q = p + 1 /\ d = s.c + 1 /\ (p < l => data[p + 1] # data[p])
    BY <1>3, <1>4, <1>7 DEF IsLiteral
  <2>3. p < l
    <3>1. left = l - o
      BY <1>4
    <3>2. QED
      BY <1>4, <2>1, <3>1
  <2>4. q <= l /\ dpos = d /\ o = q - 1 /\ data[q] # data[p] /\ p < q /\ q - p < r + 2
    BY <2>1, <2>2, <2>3
  <2>5. ASSUME NEW j \in p .. q - 1 PROVE data[j] = data[p]
    <3>1. j = p
      BY <2>2
    <3>2. QED
      BY <3>1
  <2>6. QED
    BY <1>1, <1>5, <2>1, <2>4, <2>5
<1>8. CASE InToken(s) /\ IsRun(codes, s, e)
  <2>1. /\ left' = Len(data) - Len(out')
        /\ AfterRunOf(s, e)' \/ (e.p <= Len(data) /\ InToken(e)')
        /\ DecodesButAfterFullRuns'
    BY <1>2, <1>8, RestOfRun
  <2>2. CASE AfterRunOf(s, e)'
    BY <1>1, <2>1, <2>2
  <2>3. CASE e.p <= Len(data) /\ InToken(e)'
    BY <1>1, <1>2, <2>1, <2>3
  <2>4. QED
    BY <2>1, <2>2, <2>3
<1>9. QED
  BY <1>1, <1>2, <1>6, <1>7, <1>8 DEF Token

(* When nothing is left, all the codes are read.                           *)
LEMMA NothingIsLeft ==
  ASSUME ITypeOK, NEW n \in Nat, NEW at, Reads(at, n),
         NEW t \in 1 .. n, InToken(at[t]) \/ AfterRunOf(at[t], at[t + 1]), Len(out) = Len(data)
  PROVE  dpos = Len(codes)
<1>1. PICK s \in Place, e \in Place : s = at[t] /\ e = at[t + 1]
  BY NextToken DEF Reads
<1>2. Token(codes, s, e) /\ (e.p = Len(data) + 1 => e.c = Len(codes))
  BY <1>1, NextToken DEF Reads
<1>3. PICK p \in Nat, x \in Nat, q \in Nat, d \in Nat : p = s.p /\ x = s.c /\ q = e.p /\ d = e.c
  BY DEF Place
<1>4. PICK l \in Nat : l = Len(data) /\ l = Len(out)
  BY Numbers
<1>5. CASE AfterRunOf(s, e)
  <2>1. dpos = d /\ l = q - 1
    BY <1>3, <1>4, <1>5 DEF AfterRunOf
  <2>2. q = l + 1
    BY <2>1
  <2>3. QED
    BY <1>2, <1>3, <1>4, <2>1, <2>2
<1>6. CASE InToken(s) /\ IsLiteral(codes, s, e)
  <2>1. dpos = x + 1 /\ l = p /\ q = p + 1 /\ d = x + 1
    BY <1>3, <1>4, <1>6 DEF InToken, IsLiteral
  <2>2. QED
    BY <1>2, <1>3, <1>4, <2>1
<1>7. CASE InToken(s) /\ IsRun(codes, s, e)
  <2>1. l = p /\ q = p + 2 + codes[d] /\ q <= l + 1 /\ d = x + 3 /\ d <= Len(codes)
    BY <1>3, <1>4, <1>7 DEF InToken, IsRun
  <2>2. codes[d] \in Nat
    <3>1. d \in 1 .. Len(codes)
      <4>1. d >= 1
        BY <2>1
      <4>2. QED
        BY <2>1, <4>1, Numbers
    <3>2. codes[d] \in Byte
      BY <3>1, Numbers
    <3>3. QED
      BY <3>2, BytesAreNumbers
  <2>3. FALSE
    BY <2>1, <2>2
  <2>4. QED
    BY <2>3
<1>8. QED
  BY <1>1, <1>2, <1>5, <1>6, <1>7 DEF Token

(* A step of the decoder.                                                  *)
LEMMA DecodeNextKeepsLayout ==
  ASSUME ITypeOK, DecodesButAfterFullRuns, NEW n \in Nat, NEW at, LaidOut(at, n), DecodeNext
  PROVE  LaidOut(at, n)' /\ DecodesButAfterFullRuns'
<1>1. pc = "decode" /\ UNCHANGED encoder /\ (left # 0 => pc' = pc)
  BY DEF DecodeNext
<1>2. UNCHANGED <<data, rd, cc, nc, cnt, size, codes>>
  BY <1>1 DEF encoder
<1>3. PICK z : z = at[n + 1] /\ Encodes(z)
  BY DEF LaidOut
<1>4. z.p = Len(data) + 1 /\ z.c = Len(codes) /\ (Good => cc = data[rd])
  BY <1>1, <1>3 DEF Encodes
<1>5. Reads(at, n)
  BY <1>3, <1>4 DEF LaidOut, Reads
<1>6. left = Len(data) - Len(out)
  BY <1>1, Numbers DEF LaidOut, Decodes
<1>7. PICK t \in 1 .. n : InToken(at[t]) \/ AfterRunOf(at[t], at[t + 1])
  BY <1>1 DEF LaidOut, Decodes
<1>8. Tokens(codes, at, n)'
  <2>1. Tokens(codes', at, n)
    BY <1>2 DEF LaidOut
  <2>2. QED
    BY <1>2, <2>1, TokensPrimed
<1>9. ASSUME pc' \in {"decode", "done"} PROVE Encodes(z)'
  BY <1>2, <1>4, <1>9 DEF Encodes, Good
<1>10. CASE left = 0
  <2>1. pc' = "done" /\ UNCHANGED decoder
    BY <1>10 DEF DecodeNext
  <2>2. Len(out) = Len(data)
    BY <1>6, <1>10, Numbers
  <2>3. dpos = Len(codes)
    BY <1>5, <1>7, <2>2, NothingIsLeft
  <2>4. Decodes(at, n)'
    BY <1>2, <1>10, <2>1, <2>2, <2>3 DEF Decodes, decoder
  <2>5. DecodesButAfterFullRuns'
    BY <1>2, <2>1 DEF DecodesButAfterFullRuns, AfterFullRun, decoder
  <2>6. QED
    BY <1>3, <1>8, <1>9, <2>1, <2>4, <2>5 DEF LaidOut
<1>11. CASE left # 0
  <2>1. PICK b \in Code(dpos), k \in Code(dpos + 1), c \in Code(dpos + 2) : Round(b, k, c)
    BY <1>11, DecodeNextIsRound
  <2>2. /\ left' = Len(data) - Len(out')
        /\ \E u \in 1 .. n : InToken(at[u])' \/ AfterRunOf(at[u], at[u + 1])'
        /\ DecodesButAfterFullRuns'
    BY <1>2, <1>5, <1>6, <1>7, <1>11, <2>1, RoundKeepsLayout
  <2>3. pc' = "decode" /\ left' = size' - Len(out')
    BY <1>1, <1>2, <1>11, <2>2, Numbers
  <2>4. Decodes(at, n)'
    BY <2>2, <2>3 DEF Decodes
  <2>5. QED
    BY <1>3, <1>8, <1>9, <2>2, <2>3, <2>4 DEF LaidOut
<1>12. QED
  BY <1>10, <1>11

-----------------------------------------------------------------------------
(* The invariant: the types, what has been decoded, and that the codes are *)
(* laid out.                                                               *)
Inv ==
  /\ ITypeOK
  /\ DecodesButAfterFullRuns
  /\ \E n \in Nat : \E at : LaidOut(at, n)

(* The invariant holds at first.                                           *)
LEMMA InitHasInv == AInit => Inv
<1>1. AInit => ITypeOK /\ \E n \in Nat : \E at : LaidOut(at, n)
  BY InitHasTypes, InitIsLaidOut
<1>2. AInit /\ ITypeOK => DecodesButAfterFullRuns
  <2>1. SUFFICES ASSUME AInit, ITypeOK PROVE DecodesButAfterFullRuns
    OBVIOUS
  <2>2. out = <<>> /\ Len(data) \in Nat
    BY <2>1, Numbers DEF AInit, Init
  <2>3. Len(out) = 0
    BY <2>2
  <2>4. QED
    BY <2>2, <2>3 DEF DecodesButAfterFullRuns
<1>3. QED
  BY <1>1, <1>2 DEF Inv

(* The steps of SNKRLE.asm leave the encoder and the other decoder alone.  *)
LEMMA AsmKeepsLayout ==
  ASSUME DecodesButAfterFullRuns, NEW n \in Nat, NEW at, LaidOut(at, n),
         UNCHANGED <<encoder, decoder>>, ~(pc \in {"decode", "done"}),
         pc' \in Labelled \cup {"end"}
  PROVE  LaidOut(at, n)' /\ DecodesButAfterFullRuns'
<1>1. UNCHANGED <<data, rd, cc, nc, cnt, size, codes, dpos, left, dcc, out>>
  BY DEF encoder, decoder
<1>2. ~(pc' \in {"encode", "run", "decode", "done"})
  BY DEF Labelled
<1>3. Tokens(codes, at, n)'
  <2>1. Tokens(codes', at, n)
    BY <1>1 DEF LaidOut
  <2>2. QED
    BY <1>1, <2>1, TokensPrimed
<1>4. Encodes(at[n + 1])'
  <2>1. Good => cc = data[rd]
    BY DEF LaidOut, Encodes
  <2>2. QED
    BY <1>1, <1>2, <2>1 DEF Encodes, Good
<1>5. Decodes(at, n)'
  <2>1. dpos = 0 /\ left = 0 /\ out = <<>>
    BY DEF LaidOut, Decodes
  <2>2. QED
    BY <1>1, <1>2, <2>1 DEF Decodes
<1>6. DecodesButAfterFullRuns'
  BY <1>1 DEF DecodesButAfterFullRuns, AfterFullRun
<1>7. QED
  BY <1>3, <1>4, <1>5, <1>6 DEF LaidOut

(* Every step keeps it.                                                    *)
LEMMA StepKeepsInv ==
  ASSUME Inv, ITypeOK', [ANext]_asmvars
  PROVE  Inv'
<1>1. PICK n \in Nat : \E at : LaidOut(at, n)
  BY DEF Inv
<1>2. PICK at : LaidOut(at, n)
  BY <1>1
<1>3. ITypeOK /\ DecodesButAfterFullRuns
  BY DEF Inv
<1>4. SUFFICES (\E m \in Nat : \E b : LaidOut(b, m)') /\ DecodesButAfterFullRuns'
  BY DEF Inv
<1>5. ASSUME UNCHANGED <<data, out>> PROVE DecodesButAfterFullRuns'
  BY <1>3, <1>5 DEF DecodesButAfterFullRuns, AfterFullRun
<1>6. CASE EncodeNext
  <2>1. UNCHANGED <<data, out>>
    BY <1>6 DEF EncodeNext, decoder
  <2>2. QED
    BY <1>2, <1>3, <1>5, <1>6, <2>1, EncodeNextKeepsLayout
<1>7. CASE EncodeRun
  <2>1. UNCHANGED <<data, out>>
    BY <1>7 DEF EncodeRun, decoder
  <2>2. QED
    BY <1>2, <1>3, <1>5, <1>7, <2>1, EncodeRunKeepsLayout
<1>8. CASE DecodeFirst
  BY <1>2, <1>3, <1>8, DecodeFirstKeepsLayout
<1>9. CASE DecodeNext
  BY <1>2, <1>3, <1>9, DecodeNextKeepsLayout
<1>10. CASE SNKDec \/ FetchNewChar \/ MainLoop \/ BufferClear
  <2>1. /\ UNCHANGED <<encoder, decoder>> /\ ~(pc \in {"decode", "done"})
        /\ pc' \in Labelled \cup {"end"}
    <3>1. CASE SNKDec
      BY <3>1 DEF SNKDec, Labelled
    <3>2. CASE FetchNewChar
      BY <3>2 DEF FetchNewChar, Labelled
    <3>3. CASE MainLoop
      <4>1. UNCHANGED <<encoder, decoder>> /\ pc = "main_loop"
        BY <3>3 DEF MainLoop
      <4>2. QED
        BY <1>3, <3>3, <4>1, MainLoopSteps DEF Steps
    <3>4. CASE BufferClear
      <4>1. UNCHANGED <<encoder, decoder>> /\ pc = "main_loop_buffer_clear"
        BY <3>4 DEF BufferClear
      <4>2. QED
        BY <1>3, <3>4, <4>1, BufferClearSteps DEF Steps
    <3>5. QED
      BY <1>10, <3>1, <3>2, <3>3, <3>4
  <2>2. QED
    BY <1>2, <1>3, <2>1, AsmKeepsLayout
<1>11. CASE UNCHANGED asmvars
  <2>1. UNCHANGED <<data, rd, cc, nc, cnt, size, codes, dpos, left, dcc, out, pc>>
    BY <1>11 DEF asmvars, vars
  <2>2. LaidOut(at, n)'
    <3>1. Tokens(codes, at, n)'
      <4>1. Tokens(codes', at, n)
        BY <1>2, <2>1 DEF LaidOut
      <4>2. QED
        BY <2>1, <4>1, TokensPrimed
    <3>2. Encodes(at[n + 1])'
      BY <1>2, <2>1 DEF LaidOut, Encodes, Good
    <3>3. Decodes(at, n)'
      BY <1>2, <2>1 DEF LaidOut, Decodes, InToken, AfterRunOf, IsRun
    <3>4. QED
      BY <3>1, <3>2, <3>3 DEF LaidOut
  <2>3. QED
    BY <1>5, <2>1, <2>2
<1>12. QED
  BY <1>6, <1>7, <1>8, <1>9, <1>10, <1>11 DEF ANext, Cpp, Next

(* So it holds in every reachable state.                                   *)
LEMMA SpecHasInv == ASpec => []Inv
<1>1. AInit => Inv
  BY InitHasInv
<1>2. Inv /\ ITypeOK' /\ [ANext]_asmvars => Inv'
  BY StepKeepsInv
<1>3. ASpec => []ITypeOK
  BY SpecHasTypes, PTL
<1>4. QED
  BY <1>1, <1>2, <1>3, PTL DEF ASpec

(* The decoder of snkrle.cc gives the file back, but for the byte behind a *)
(* run that fills the count exactly: there it repeats the run's byte       *)
(* (snkrle.cc:60-64).                                                      *)
THEOREM DecodedFile == ASpec => []DecodesButAfterFullRuns
<1>1. Inv => DecodesButAfterFullRuns
  BY DEF Inv
<1>2. QED
  BY <1>1, SpecHasInv, PTL

(* What the layout says of dpos and left.                                  *)
LEMMA DecoderIsInBounds ==
  ASSUME Inv
  PROVE  dpos \in 0 .. Len(codes) /\ left \in 0 .. size
<1>1. PICK n \in Nat : \E at : LaidOut(at, n)
  BY DEF Inv
<1>2. PICK at : LaidOut(at, n)
  BY <1>1
<1>3. ITypeOK /\ DecodesButAfterFullRuns
  BY DEF Inv
<1>4. PICK l \in Nat, o \in Nat, m \in Nat : l = Len(data) /\ l = size /\ o = Len(out) /\ m = Len(codes) /\ o <= l
  BY <1>3, Numbers DEF DecodesButAfterFullRuns
<1>5. CASE ~(pc \in {"decode", "done"})
  <2>1. dpos = 0 /\ left = 0
    BY <1>2, <1>5 DEF LaidOut, Decodes
  <2>2. QED
    BY <1>4, <2>1
<1>6. CASE pc = "done"
  <2>1. dpos = Len(codes) /\ left = 0
    BY <1>2, <1>6 DEF LaidOut, Decodes
  <2>2. QED
    BY <1>4, <2>1
<1>7. CASE pc = "decode"
  <2>1. left = size - Len(out)
    BY <1>2, <1>7 DEF LaidOut, Decodes
  <2>2. PICK t \in 1 .. n : InToken(at[t]) \/ AfterRunOf(at[t], at[t + 1])
    BY <1>2, <1>7 DEF LaidOut, Decodes
  <2>3. PICK z : z = at[n + 1] /\ Encodes(z)
    BY <1>2 DEF LaidOut
  <2>4. Reads(at, n)
    BY <1>2, <1>7, <2>3 DEF LaidOut, Encodes, Reads
  <2>5. PICK s \in Place, e \in Place : s = at[t] /\ e = at[t + 1] /\ Token(codes, s, e)
    <3>1. /\ Tokens(codes, at, n) /\ at[n + 1].p = Len(data) + 1 /\ at[n + 1].c = Len(codes)
          /\ ITypeOK
      BY <1>3, <2>4 DEF Reads
    <3>2. at[t] \in Place /\ at[t + 1] \in Place /\ Token(codes, at[t], at[t + 1])
      BY <3>1, NextToken
    <3>3. QED
      BY <3>2
  <2>6. PICK x \in Nat, d \in Nat : x = s.c /\ d = e.c
    BY DEF Place
  <2>7. (d = x + 1 \/ d = x + 3) /\ d <= m
    BY <1>4, <2>5, <2>6 DEF Token, IsLiteral, IsRun
  <2>8. dpos = x + 1 \/ dpos = d
    BY <2>2, <2>5, <2>6 DEF InToken, AfterRunOf
  <2>9. dpos \in 0 .. m
    BY <2>7, <2>8
  <2>10. left \in 0 .. size
    BY <1>4, <2>1
  <2>11. QED
    BY <1>4, <2>9, <2>10
<1>8. QED
  BY <1>5, <1>6, <1>7

(* The decoder never reads behind what was written, ends with all of it    *)
(* read, and has then written as many bytes as the file has.               *)
THEOREM KeepsInStep == ASpec => []StaysInStep
<1>1. Inv => StaysInStep
  <2> SUFFICES ASSUME Inv PROVE StaysInStep
    OBVIOUS
  <2>2. dpos <= Len(codes)
    <3>1. Len(codes) \in Nat
      BY Numbers DEF Inv
    <3>2. QED
      BY <3>1, DecoderIsInBounds
  <2>3. PICK n \in Nat : \E at : LaidOut(at, n)
    BY DEF Inv
  <2>4. PICK at : LaidOut(at, n)
    BY <2>3
  <2>5. pc = "done" => dpos = Len(codes) /\ Len(out) = Len(data)
    BY <2>4 DEF LaidOut, Decodes
  <2>6. QED
    BY <2>2, <2>5 DEF StaysInStep
<1>2. QED
  BY <1>1, SpecHasInv, PTL

(* The types, with the bounds on what the decoder has read and has left.   *)
THEOREM CoderTypes == ASpec => []ATypeOK
<1>1. Inv => ATypeOK
  <2> SUFFICES ASSUME Inv PROVE ATypeOK
    OBVIOUS
  <2>2. ITypeOK
    BY DEF Inv
  <2>3. TypeOK
    BY <2>2, DecoderIsInBounds DEF ITypeOK, TypeOK
  <2>4. d1 \in Word /\ d3 \in Byte /\ d6 \in Byte \X Byte /\ dst \in Seq(Byte)
    BY <2>2 DEF ITypeOK
  <2>5. pc \in Labelled \cup {"encode", "run", "decode", "done", "end"}
    BY <2>2 DEF ITypeOK, Labels
  <2>6. QED
    BY <2>3, <2>4, <2>5 DEF ATypeOK
<1>2. QED
  BY <1>1, SpecHasInv, PTL
=============================================================================
