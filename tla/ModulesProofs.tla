--------------------------- MODULE ModulesProofs ----------------------------
(***************************************************************************)
(* What moduled_adaptor.hh promises, for modules of any size, every        *)
(* format, every file and every number of bits its modules take.  Whether  *)
(* a format gives a module back is what its record assumes (exact, blanks):*)
(* see Modules.                                                            *)
(***************************************************************************)
EXTENDS Modules, TLAPS

-----------------------------------------------------------------------------
(* Division with a variable divisor.                                       *)
LEMMA Division ==
  ASSUME NEW m \in Nat \ {0}, NEW n \in Int
  PROVE  /\ n \div m \in Int /\ n % m \in Nat /\ n % m < m
         /\ n = m * (n \div m) + (n % m)
  OBVIOUS

LEMMA Apart ==
  ASSUME NEW m \in Nat \ {0}, NEW q \in Int, NEW p \in Int, q < p
  PROVE  m * q + m <= m * p
<1>1. PICK d \in Nat : p = q + 1 + d
  <2>1. p - q - 1 \in Nat
    OBVIOUS
  <2>2. QED
    BY <2>1
<1>2. m * p = m * q + m + m * d
  BY <1>1
<1>3. m * d \in Nat
  BY <1>1
<1>4. QED
  BY <1>2, <1>3

LEMMA Quotient ==
  ASSUME NEW m \in Nat \ {0}, NEW q \in Int, NEW r \in Nat, r < m
  PROVE  (m * q + r) \div m = q /\ (m * q + r) % m = r
<1> DEFINE n == m * q + r
<1> DEFINE p == n \div m
<1> DEFINE s == n % m
<1>1. n \in Int
  OBVIOUS
<1>2. p \in Int /\ s \in Nat /\ s < m /\ n = m * p + s
  BY <1>1, Division
<1>3. ~(p < q)
  BY <1>2, Apart
<1>4. ~(q < p)
  BY <1>2, Apart
<1>5. p = q
  BY <1>2, <1>3, <1>4
<1>6. s = r
  BY <1>2, <1>5
<1>7. QED
  BY <1>5, <1>6

(* RoundUp gives the next multiple.                                        *)
LEMMA Rounding ==
  ASSUME NEW m \in Nat \ {0}, NEW n \in Nat
  PROVE  /\ RoundUp(n, m) \in Nat /\ n <= RoundUp(n, m) /\ RoundUp(n, m) < n + m
         /\ \E q \in Nat : RoundUp(n, m) = m * q
<1> DEFINE x == n + m - 1
<1> DEFINE q == x \div m
<1> DEFINE r == x % m
<1>1. x \in Nat
  OBVIOUS
<1>2. q \in Int /\ r \in Nat /\ r < m /\ x = m * q + r
  BY <1>1, Division
<1>3. RoundUp(n, m) = m * q
  BY DEF RoundUp
<1> HIDE DEF q, r
<1>4. m * q \in Int /\ n <= m * q /\ m * q < n + m
  BY <1>2
<1>5. q >= 0
  <2>1. q < 0 => m * q + m <= m * 0
    BY <1>2, Apart
  <2>2. QED
    BY <1>2, <1>4, <2>1
<1>6. QED
  BY <1>2, <1>3, <1>4, <1>5

(* It leaves a multiple alone, and everything if the padding is 1.         *)
LEMMA RoundMultiple ==
  ASSUME NEW m \in Nat \ {0}, NEW q \in Nat
  PROVE  RoundUp(m * q, m) = m * q
<1>1. m * q + m - 1 = m * q + (m - 1) /\ m - 1 \in Nat /\ m - 1 < m
  OBVIOUS
<1>2. (m * q + (m - 1)) \div m = q
  BY <1>1, Quotient
<1>3. QED
  BY <1>1, <1>2 DEF RoundUp

LEMMA RoundByOne ==
  ASSUME NEW n \in Nat
  PROVE  RoundUp(n, 1) = n
<1>1. RoundUp(1 * n, 1) = 1 * n
  BY RoundMultiple
<1>2. QED
  BY <1>1

(* Rounding does not pass a multiple.                                      *)
LEMMA RoundBelow ==
  ASSUME NEW m \in Nat \ {0}, NEW n \in Nat, NEW p \in Nat, n <= m * p
  PROVE  RoundUp(n, m) <= m * p
<1>1. PICK q \in Nat : RoundUp(n, m) = m * q
  BY Rounding
<1>2. m * q < n + m
  BY <1>1, Rounding
<1>3. ~(p < q)
  <2>1. p < q => m * p + m <= m * q
    BY Apart
  <2>2. QED
    BY <1>2, <2>1
<1>4. q < p => m * q + m <= m * p
  BY Apart
<1>5. QED
  BY <1>1, <1>3, <1>4

(* What PaddedTo adds is what RoundUp adds.                                *)
LEMMA PaddingLength ==
  ASSUME NEW m \in Nat \ {0}, NEW n \in Nat
  PROVE  (-n) % m \in Nat /\ n + ((-n) % m) = RoundUp(n, m)
<1> DEFINE z == -n
<1> DEFINE q == z \div m
<1> DEFINE r == z % m
<1>1. z \in Int /\ z = -n
  OBVIOUS
<1>2. q \in Int /\ r \in Nat /\ r < m /\ z = m * q + r
  BY <1>1, Division
<1> HIDE DEF q, r, z
<1>3. PICK p \in Int : p = -q
  BY <1>2
<1>4. m * p = -(m * q)
  BY <1>2, <1>3
<1>5. n + r = m * p /\ n + m - 1 = m * p + (m - 1 - r)
  BY <1>1, <1>2, <1>4
<1>6. m - 1 - r \in Nat /\ m - 1 - r < m
  BY <1>2
<1>7. (m * p + (m - 1 - r)) \div m = p
  BY <1>6, Quotient
<1>8. RoundUp(n, m) = n + r
  BY <1>5, <1>7 DEF RoundUp
<1>9. QED
  BY <1>2, <1>8 DEF r, z

-----------------------------------------------------------------------------
(* What a module takes and gives.                                          *)
LEMMA FormatFacts ==
  ASSUME format \in Formats
  PROVE  /\ format.padding \in Nat \ {0} /\ format.word \in Nat \ {0}
         /\ format.grain \in Nat \ {0} /\ format.pads \in BOOLEAN /\ format.early \in BOOLEAN
         /\ ModuleSize % format.grain = 0
         /\ format.early => format.padding = 1
         /\ format.blanks \in Nat /\ format.blanks < ModuleSize
         /\ format.exact # "none" \/ format.grain # 1 => format.blanks = 0
         /\ \A b \in BitCounts : b \in Nat \ {0} /\ b > 8 * format.word
  BY ModulesAssumption

LEMMA SizeFacts ==
  /\ ModuleSize \in Nat \ {0} /\ SizeLimit \in Nat \ {0} /\ ModuleSize <= SizeLimit
  /\ FileSizes \subseteq Nat \ {0}
  BY ModulesAssumption

(* No module is shorter than two words.                                    *)
LEMMA BytesFacts ==
  ASSUME format \in Formats, NEW b \in BitCounts
  PROVE  Bytes(b) \in Nat /\ Bytes(b) >= 2 * format.word /\ Bytes(b) >= 2
<1>1. PICK w \in Nat \ {0} : w = format.word
  BY FormatFacts
<1>2. b \in Nat /\ b > 8 * w
  BY <1>1, FormatFacts
<1> DEFINE m == 8 * w
<1> DEFINE q == (b + m - 1) \div m
<1>3. m \in Nat \ {0} /\ b + m - 1 \in Int
  BY <1>2
<1>4. PICK p \in Int, r \in Nat : p = q /\ r < m /\ b + m - 1 = m * p + r
  BY <1>3, Division
<1>5. p >= 2
  <2>1. p < 2 => m * p + m <= m * 2
    BY <1>3, <1>4, Apart
  <2>2. p < 2 => m * p <= m
    BY <2>1, <1>3, <1>4
  <2>3. m * p >= 2 * m - r
    BY <1>2, <1>3, <1>4
  <2>4. QED
    BY <2>2, <2>3, <1>3, <1>4
<1>6. w * p >= 2 * w /\ w * p \in Nat
  <2>1. PICK d \in Nat : p = d + 2
    <3>1. p - 2 \in Nat
      BY <1>4, <1>5
    <3>2. QED
      BY <3>1, <1>4
  <2>2. w * p = w * d + 2 * w /\ w * d \in Nat
    BY <2>1
  <2>3. QED
    BY <2>2
<1>7. Bytes(b) = w * p
  BY <1>1, <1>4 DEF Bytes
<1>8. QED
  BY <1>1, <1>6, <1>7

(* The bytes a whole module gives, and those n bytes of a file come back as*)
Share == ModuleSize - format.blanks
Whole(n) == IF format.pads THEN RoundUp(n, format.grain) ELSE n - (n % format.grain)

LEMMA ShareFacts ==
  ASSUME format \in Formats
  PROVE  /\ Share \in Nat \ {0} /\ Share <= ModuleSize
         /\ ModuleSize = Share + format.blanks
         /\ format.exact # "none" => Share = ModuleSize
         /\ \E q \in Nat : Share = format.grain * q
<1>1. PICK M \in Nat \ {0}, b \in Nat, g \in Nat \ {0} :
        /\ M = ModuleSize /\ b = format.blanks /\ g = format.grain
        /\ b < M /\ M % g = 0 /\ (g # 1 => b = 0)
  BY FormatFacts, SizeFacts
<1>2. Share = M - b
  BY <1>1 DEF Share
<1>3. \E q \in Nat : Share = g * q
  <2>1. CASE g = 1
    <3>1. M - b \in Nat /\ M - b = g * (M - b)
      BY <1>1, <2>1
    <3>2. QED
      BY <1>2, <3>1
  <2>2. CASE g # 1
    <3>1. PICK q \in Int : M = g * q
      <4>1. M \div g \in Int /\ M = g * (M \div g) + (M % g)
        BY Division
      <4>2. QED
        BY <1>1, <4>1
    <3>2. q >= 0
      <4>1. q < 0 => g * q + g <= g * 0
        BY Apart
      <4>2. QED
        BY <3>1, <4>1
    <3>3. Share = M
      BY <1>1, <1>2, <2>2
    <3>4. QED
      BY <3>1, <3>2, <3>3
  <2>3. QED
    BY <2>1, <2>2
<1>4. format.exact # "none" => b = 0
  BY <1>1, FormatFacts
<1>5. QED
  BY <1>1, <1>2, <1>3, <1>4

LEMMA WholeShare ==
  ASSUME format \in Formats
  PROVE  Whole(Share) = Share
<1>1. PICK g \in Nat \ {0}, q \in Nat : g = format.grain /\ Share = g * q
  BY FormatFacts, ShareFacts
<1>2. RoundUp(Share, g) = Share
  BY <1>1, RoundMultiple
<1>3. (g * q + 0) % g = 0
  BY Quotient
<1>4. Share - (Share % g) = Share
  BY <1>1, <1>3, ShareFacts
<1>5. QED
  BY <1>1, <1>2, <1>4 DEF Whole

LEMMA WholePart ==
  ASSUME format \in Formats, NEW n \in Nat, n <= Share
  PROVE  /\ Whole(n) \in Nat /\ Whole(n) <= Share
         /\ Whole(n) > n - format.grain
         /\ Whole(n) < n => ~format.pads /\ n % format.grain # 0
<1>1. PICK g \in Nat \ {0}, q \in Nat : g = format.grain /\ Share = g * q
  BY FormatFacts, ShareFacts
<1>2. format.pads \in BOOLEAN /\ Share \in Nat
  BY FormatFacts, ShareFacts
<1>3. RoundUp(n, g) \in Nat /\ n <= RoundUp(n, g) /\ RoundUp(n, g) <= Share
  BY <1>1, Rounding, RoundBelow
<1>4. n % g \in Nat /\ n % g < g /\ n % g <= n
  <2>1. PICK d \in Int, r \in Nat : r = n % g /\ r < g /\ n = g * d + r
    BY Division
  <2>2. d >= 0
    <3>1. d < 0 => g * d + g <= g * 0
      BY Apart
    <3>2. QED
      BY <2>1, <3>1
  <2>3. g * d \in Nat
    BY <2>2
  <2>4. QED
    BY <2>1, <2>3
<1>5. CASE format.pads
  <2>1. Whole(n) = RoundUp(n, g)
    BY <1>1, <1>5 DEF Whole
  <2>2. QED
    BY <1>1, <1>3, <2>1
<1>6. CASE ~format.pads
  <2>1. Whole(n) = n - (n % g)
    BY <1>1, <1>6 DEF Whole
  <2>2. QED
    BY <1>1, <1>2, <1>4, <1>6, <2>1
<1>7. QED
  BY <1>2, <1>5, <1>6

(* What decode gives of a module of n bytes.                               *)
Given(first, n, i) == IF ~Exact THEN Unknown ELSE IF i <= n THEN first + i ELSE 0

LEMMA RestoredFacts ==
  ASSUME format \in Formats, NEW m, NEW n \in Nat, NEW first \in Nat, n <= Share,
         m.n = n, m.first = first
  PROVE  /\ Restored(m) = [i \in 1 .. Whole(n) |-> Given(first, n, i)]
         /\ Restored(m) \in Seq(Int) /\ Len(Restored(m)) = Whole(n)
<1>1. Restored(m) = [i \in 1 .. Whole(n) |-> Given(first, n, i)]
  BY DEF Restored, Whole, Given
<1>2. Whole(n) \in Nat
  BY WholePart
<1>3. \A i \in 1 .. Whole(n) : Given(first, n, i) \in Int
  BY <1>2 DEF Given, Unknown
<1>4. QED
  BY <1>1, <1>2, <1>3

-----------------------------------------------------------------------------
(* A byte of the module cut off at first, n bytes long.                    *)
Coded(first, n, i) == ModuleByte(first + format.blanks, n - format.blanks, i)

(* The invariant.  Complete: the last module is written.                   *)
Complete == pc # "encode"
Opened == pc \notin {"encode", "copy"}
Stored == {Zero} \cup [at : Nat, first : Nat, n : Nat]

CodecTypes ==
  /\ format \in Formats /\ size \in FileSizes
  /\ pc \in {"encode", "copy", "decode", "done", "lost"}
  /\ left \in Nat \ {0} /\ ptr \in Nat /\ ptr + left = size
  /\ bits \in Seq(BitCounts) /\ sout \in Seq(Stored)
  /\ Dst \in Seq(Int) /\ tellg \in Nat

(* The file is cut into whole modules and what is left.                    *)
Cut ==
  IF Complete
    THEN /\ Len(bits) # 0 /\ ptr = (Len(bits) - 1) * ModuleSize
         /\ left <= ModuleSize /\ left >= format.blanks
  ELSE ptr = Len(bits) * ModuleSize

(* at says where in sout each module begins, and where the next would.     *)
InModule(k) == IF Complete /\ k = Len(bits) THEN left ELSE ModuleSize
EndsAt(k, p) ==
  IF Complete /\ k = Len(bits) THEN p + Bytes(bits[k])
  ELSE RoundUp(p + Bytes(bits[k]), format.padding)
InPlace(k, p) ==
  \A i \in 1 .. Bytes(bits[k]) :
    sout[p + i] = Coded((k - 1) * ModuleSize, InModule(k), i)
Layout(at) ==
  /\ at \in [1 .. Len(bits) + 1 -> Nat] /\ at[1] = 0 /\ at[Len(bits) + 1] = Len(sout)
  /\ \A k \in 1 .. Len(bits) :
       /\ at[k] + Bytes(bits[k]) <= at[k + 1] /\ at[k + 1] <= Len(sout)
       /\ at[k + 1] = EndsAt(k, at[k])
       /\ InPlace(k, at[k])

(* What moduled_decode has opened is what was written, made even.          *)
Unopened == ~Opened => Dst = << >> /\ tellg = 0
Copied ==
  Opened =>
    /\ FullSize = size % SizeLimit
    /\ Len(in) \in Nat /\ Len(sout) <= Len(in) /\ Len(in) <= Len(sout) + 1 /\ Len(in) % 2 = 0
    /\ \A i \in 1 .. Len(sout) : in[i] = sout[i]
    /\ Len(in) > Len(sout) => in[Len(in)] = Zero

(* k modules are decoded, and give the first bytes of the file as far as   *)
(* the format gives them back.                                             *)
Decoded(k) ==
  IF k < Len(bits) THEN k * Share ELSE (k - 1) * Share + Whole(left - format.blanks)
Restoring(k) ==
  /\ Len(Dst) = Decoded(k)
  /\ \A i \in 1 .. Len(Dst) : Relied(i) => Dst[i] = IF i <= size THEN i ELSE 0

(* Where this leaves Src: at the next module, or where none begins.        *)
Astray(k) ==
  /\ ~Begins(tellg) /\ k >= 1
  /\ \/ k < Len(bits) /\ format.early /\ FullWord(bits[k])
     \/ /\ k = Len(bits) /\ ((LeftOver /\ size < SizeLimit) \/ format.blanks # 0)
        /\ tellg >= Len(sout) \/ (format.early /\ FullWord(bits[k]))
Standing(k, at) ==
  IF pc = "done"
    THEN k >= 1 /\ Len(Dst) >= FullSize /\ (k > 1 => (k - 1) * Share < FullSize)
    ELSE /\ k >= 1 => Len(Dst) < FullSize
         /\ \/ pc = "decode" /\ k < Len(bits) /\ tellg = at[k + 1]
            \/ Astray(k)
Decoding(at) == Opened => \E k \in 0 .. Len(bits) : Restoring(k) /\ Standing(k, at)

Inv ==
  /\ CodecTypes /\ Cut /\ Unopened /\ Copied
  /\ \E at : Layout(at) /\ Decoding(at)

-----------------------------------------------------------------------------
(* Sequences that grow.                                                    *)
LEMMA Appended ==
  ASSUME NEW S, NEW s \in Seq(S), NEW n \in Nat, NEW f \in [1 .. n -> S]
  PROVE  /\ s \o f \in Seq(S) /\ Len(s \o f) = Len(s) + n
         /\ \A i \in 1 .. Len(s) : (s \o f)[i] = s[i]
         /\ \A i \in 1 .. n : (s \o f)[Len(s) + i] = f[i]
<1>1. f \in Seq(S) /\ Len(f) = n
  OBVIOUS
<1>2. QED
  BY <1>1

LEMMA Joined ==
  ASSUME NEW S, NEW s \in Seq(S), NEW r \in Seq(S)
  PROVE  /\ s \o r \in Seq(S) /\ Len(s \o r) = Len(s) + Len(r)
         /\ \A i \in 1 .. Len(s) : (s \o r)[i] = s[i]
         /\ \A i \in 1 .. Len(r) : (s \o r)[Len(s) + i] = r[i]
  OBVIOUS

LEMMA PaddedFacts ==
  ASSUME NEW s \in Seq(Stored), NEW m \in Nat \ {0}
  PROVE  /\ PaddedTo(s, m) \in Seq(Stored) /\ Len(PaddedTo(s, m)) = RoundUp(Len(s), m)
         /\ \A i \in 1 .. Len(s) : PaddedTo(s, m)[i] = s[i]
         /\ \A i \in Len(s) + 1 .. RoundUp(Len(s), m) : PaddedTo(s, m)[i] = Zero
<1>1. Len(s) \in Nat
  OBVIOUS
<1>2. PICK n \in Nat : n = (-Len(s)) % m /\ Len(s) + n = RoundUp(Len(s), m)
  BY <1>1, PaddingLength
<1> DEFINE f == [k \in 1 .. n |-> Zero]
<1>3. f \in [1 .. n -> Stored]
  BY DEF Stored
<1>4. PaddedTo(s, m) = s \o f
  BY <1>2 DEF PaddedTo
<1>5. \A i \in 1 .. n : f[i] = Zero
  OBVIOUS
<1> HIDE DEF f
<1>6. /\ s \o f \in Seq(Stored) /\ Len(s \o f) = Len(s) + n
      /\ \A i \in 1 .. Len(s) : (s \o f)[i] = s[i]
      /\ \A i \in 1 .. n : (s \o f)[Len(s) + i] = Zero
  BY <1>3, <1>5, Appended
<1>7. \A i \in Len(s) + 1 .. Len(s) + n : (s \o f)[i] = Zero
  <2> TAKE i \in Len(s) + 1 .. Len(s) + n
  <2>1. i - Len(s) \in 1 .. n /\ Len(s) + (i - Len(s)) = i
    BY <1>1
  <2>2. QED
    BY <1>6, <2>1
<1>8. QED
  BY <1>2, <1>4, <1>6, <1>7

(* A module is appended to what is there.                                  *)
LEMMA EncodedFacts ==
  ASSUME CodecTypes, NEW b \in BitCounts, NEW n \in Nat, n >= format.blanks
  PROVE  /\ sout \o Encoded(n, b) \in Seq(Stored)
         /\ Len(sout \o Encoded(n, b)) = Len(sout) + Bytes(b)
         /\ \A i \in 1 .. Len(sout) : (sout \o Encoded(n, b))[i] = sout[i]
         /\ \A i \in 1 .. Bytes(b) : (sout \o Encoded(n, b))[Len(sout) + i] = Coded(ptr, n, i)
<1>1. sout \in Seq(Stored) /\ ptr \in Nat /\ format \in Formats
  BY DEF CodecTypes
<1>2. Bytes(b) \in Nat /\ format.blanks \in Nat
  BY <1>1, BytesFacts, FormatFacts
<1>3. Encoded(n, b) \in [1 .. Bytes(b) -> Stored]
  <2>1. \A i \in 1 .. Bytes(b) : Coded(ptr, n, i) \in Stored
    BY <1>1, <1>2 DEF Coded, ModuleByte, Stored
  <2>2. QED
    BY <2>1 DEF Encoded, Coded
<1>4. \A i \in 1 .. Bytes(b) : Encoded(n, b)[i] = Coded(ptr, n, i)
  BY DEF Encoded, Coded
<1>5. PICK c \in Nat : c = Bytes(b)
  BY <1>2
<1> PICK f \in [1 .. c -> Stored] : f = Encoded(n, b)
  BY <1>3, <1>5
<1>6. /\ sout \o f \in Seq(Stored) /\ Len(sout \o f) = Len(sout) + c
      /\ \A i \in 1 .. Len(sout) : (sout \o f)[i] = sout[i]
      /\ \A i \in 1 .. c : (sout \o f)[Len(sout) + i] = f[i]
  BY ONLY <1>1, Appended
<1>7. QED
  BY ONLY <1>4, <1>5, <1>6, f = Encoded(n, b)

(* With the module it has a place.                                         *)
LEMMA LayoutGrows ==
  ASSUME CodecTypes, Cut, pc = "encode", NEW at, Layout(at),
         NEW b \in BitCounts, NEW n \in Nat, NEW m \in Nat, NEW l \in Nat,
         n = Len(bits) + 1, l = Len(sout), format' = format, bits' = Append(bits, b),
         Len(sout') \in Nat, Len(sout) + Bytes(b) <= Len(sout'),
         Len(sout') = EndsAt(n, l)', m = InModule(n)',
         \A i \in 1 .. Len(sout) : sout'[i] = sout[i],
         \A i \in 1 .. Bytes(b) : sout'[Len(sout) + i] = Coded(ptr, m, i)
  PROVE  \E new : Layout(new)'
<1> PICK x \in Nat : x = Len(sout')
  OBVIOUS
<1> DEFINE new == [k \in 1 .. n + 1 |-> IF k = n + 1 THEN x ELSE at[k]]
<1> SUFFICES Layout(new)'
  OBVIOUS
<1>1. l = Len(sout) /\ EndsAt(n, l)' = x
  OBVIOUS
<1>2. /\ Len(bits') = n /\ n - 1 = Len(bits) /\ n - 1 \in Nat /\ bits'[n] = b
      /\ \A k \in 1 .. n - 1 : bits'[k] = bits[k] /\ bits[k] \in BitCounts
  BY DEF CodecTypes
<1>3. \A c : Bytes(c)' = Bytes(c)
  BY DEF Bytes
<1>4. at \in [1 .. n -> Nat] /\ at[1] = 0 /\ at[n] = l
  BY <1>1, <1>2 DEF Layout
<1>5. /\ new \in [1 .. n + 1 -> Nat] /\ new[1] = 0 /\ new[n + 1] = x
      /\ \A k \in 1 .. n : new[k] = at[k]
  BY <1>2, <1>4
<1> HIDE DEF new
<1>6. ASSUME NEW k \in 1 .. n - 1
      PROVE  /\ new[k] + Bytes(bits[k])' <= new[k + 1] /\ new[k + 1] <= x
             /\ new[k + 1] = EndsAt(k, new[k])'
             /\ InPlace(k, new[k])'
  <2>1. k \in 1 .. Len(bits) /\ k \in 1 .. n /\ k + 1 \in 1 .. n /\ k # n
    BY <1>2
  <2>2. PICK p \in Nat, q \in Nat : p = at[k] /\ q = at[k + 1] /\ new[k] = p /\ new[k + 1] = q
    BY <1>4, <1>5, <2>1
  <2>3. PICK c \in BitCounts : c = bits[k] /\ bits'[k] = c
    BY <1>2
  <2>4. p + Bytes(c) <= q /\ q <= l /\ q = EndsAt(k, p) /\ InPlace(k, p)
    BY <1>1, <2>1, <2>2, <2>3 DEF Layout
  <2>5. Bytes(c) \in Nat
    BY BytesFacts DEF CodecTypes
  <2>6. EndsAt(k, p)' = RoundUp(p + Bytes(c), format.padding)
    BY <1>2, <1>3, <2>1, <2>3 DEF EndsAt
  <2>7. EndsAt(k, p) = RoundUp(p + Bytes(c), format.padding)
    BY <2>3 DEF EndsAt, Complete
  <2>8. InPlace(k, p)'
    <3>1. InModule(k)' = ModuleSize /\ InModule(k) = ModuleSize
      BY <1>2, <2>1 DEF InModule, Complete
    <3>2. \A i \in 1 .. Bytes(c) : p + i \in 1 .. l
      <4>1. p + Bytes(c) <= l
        BY <2>4, <2>5
      <4>2. PICK d \in Nat : d = Bytes(c)
        BY <2>5
      <4>3. QED
        BY ONLY <4>1, <4>2, p \in Nat, l \in Nat, d \in Nat
    <3>3. \A i \in 1 .. Bytes(c) : sout[p + i] = Coded((k - 1) * ModuleSize, ModuleSize, i)
      BY <2>3, <2>4, <3>1 DEF InPlace
    <3>4. \A i \in 1 .. Bytes(c) : sout'[p + i] = Coded((k - 1) * ModuleSize, ModuleSize, i)
      BY <1>1, <3>2, <3>3
    <3>5. QED
      BY <1>3, <2>3, <3>1, <3>4 DEF InPlace, Coded, ModuleByte
  <2>9. l <= x /\ Bytes(bits[k])' = Bytes(c)
    BY <1>1, <1>3, <2>3, BytesFacts DEF CodecTypes
  <2>10. QED
    BY <2>2, <2>4, <2>6, <2>7, <2>8, <2>9
<1>7. /\ new[n] + Bytes(bits[n])' <= new[n + 1] /\ new[n + 1] <= x
      /\ new[n + 1] = EndsAt(n, new[n])'
      /\ InPlace(n, new[n])'
  <2>1. new[n] = l /\ Bytes(bits[n])' = Bytes(b) /\ n - 1 + 1 = n
    BY <1>2, <1>3, <1>4, <1>5
  <2>2. EndsAt(n, l)' = x
    BY <1>1
  <2>3. ptr = (n - 1) * ModuleSize
    BY <1>2 DEF Cut, Complete
  <2>4. InPlace(n, l)'
    <3>1. \A i \in 1 .. Bytes(b) : sout'[l + i] = Coded((n - 1) * ModuleSize, m, i)
      BY <1>1, <2>3
    <3>2. QED
      BY <1>2, <1>3, <3>1 DEF InPlace, Coded, ModuleByte
  <2>5. QED
    BY <1>1, <1>5, <2>1, <2>2, <2>4
<1>8. \A k \in 1 .. n : k \in 1 .. n - 1 \/ k = n
  BY <1>2
<1>9. \A k \in 1 .. n :
        /\ new[k] + Bytes(bits[k])' <= new[k + 1] /\ new[k + 1] <= x
        /\ new[k + 1] = EndsAt(k, new[k])'
        /\ InPlace(k, new[k])'
  BY <1>6, <1>7, <1>8
<1>10. QED
  BY <1>2, <1>5, <1>9 DEF Layout

-----------------------------------------------------------------------------
LEMMA InitInv == ASSUME Init PROVE Inv
<1>1. CodecTypes
  BY SizeFacts DEF Init, CodecTypes
<1>2. Cut /\ Unopened /\ Copied
  BY SizeFacts DEF Init, Cut, Complete, Unopened, Copied, Opened
<1> DEFINE at == [k \in 1 .. 1 |-> 0]
<1>3. Len(bits) = 0 /\ Len(sout) = 0
  BY DEF Init
<1>4. at \in [1 .. Len(bits) + 1 -> Nat] /\ at[1] = 0 /\ at[Len(bits) + 1] = Len(sout)
  BY <1>3
<1> HIDE DEF at
<1>5. Layout(at)
  BY <1>3, <1>4 DEF Layout
<1>6. Decoding(at)
  BY DEF Init, Decoding, Opened
<1>7. QED
  BY <1>1, <1>2, <1>5, <1>6 DEF Inv

(* Another whole module.                                                   *)
LEMMA EncodeModuleStep == ASSUME Inv, EncodeModule PROVE Inv'
<1>1. CodecTypes /\ Cut /\ Unopened
  BY DEF Inv
<1>2. PICK at : Layout(at)
  BY DEF Inv
<1>3. PICK b \in BitCounts :
        /\ sout' = PaddedTo(sout \o Encoded(ModuleSize, b), format.padding)
        /\ bits' = Append(bits, b)
  BY DEF EncodeModule
<1>4. /\ pc = "encode" /\ left > ModuleSize /\ left' = left - ModuleSize /\ ptr' = ptr + ModuleSize
      /\ UNCHANGED <<format, size, pc, FullSize, in, tellg, Dst>>
  BY DEF EncodeModule
<1>5. PICK l \in Nat, n \in Nat, c \in Nat, z \in Nat \ {0} :
        l = Len(sout) /\ n = Len(bits) + 1 /\ c = Bytes(b) /\ z = format.padding
  <2>1. Bytes(b) \in Nat /\ format.padding \in Nat \ {0}
    BY <1>1, BytesFacts, FormatFacts DEF CodecTypes
  <2>2. Len(sout) \in Nat /\ Len(bits) + 1 \in Nat
    BY <1>1 DEF CodecTypes
  <2>3. QED
    BY <2>1, <2>2
<1>6. PICK s \in Seq(Stored) :
        /\ s = sout \o Encoded(ModuleSize, b) /\ Len(s) = l + c
        /\ \A i \in 1 .. l : s[i] = sout[i]
        /\ \A i \in 1 .. c : s[l + i] = Coded(ptr, ModuleSize, i)
  <2>1. ModuleSize \in Nat /\ ModuleSize >= format.blanks
    BY <1>1, SizeFacts, FormatFacts DEF CodecTypes
  <2>2. PICK s : s = sout \o Encoded(ModuleSize, b)
    OBVIOUS
  <2>3. /\ s \in Seq(Stored) /\ Len(s) = Len(sout) + Bytes(b)
        /\ \A i \in 1 .. Len(sout) : s[i] = sout[i]
        /\ \A i \in 1 .. Bytes(b) : s[Len(sout) + i] = Coded(ptr, ModuleSize, i)
    BY ONLY <1>1, <2>1, <2>2, b \in BitCounts, EncodedFacts
  <2>4. QED
    BY <1>5, <2>2, <2>3
<1>7. /\ sout' \in Seq(Stored) /\ Len(sout') = RoundUp(l + c, z)
      /\ \A i \in 1 .. l + c : sout'[i] = s[i]
  <2>1. sout' = PaddedTo(s, z)
    BY <1>3, <1>5, <1>6
  <2>2. QED
    BY <1>6, <2>1, PaddedFacts
<1>8. RoundUp(l + c, z) \in Nat /\ l + c <= RoundUp(l + c, z)
  <2>1. PICK e \in Nat : e = l + c
    BY ONLY l \in Nat, c \in Nat
  <2>2. RoundUp(e, z) \in Nat /\ e <= RoundUp(e, z)
    BY Rounding
  <2>3. QED
    BY ONLY <2>1, <2>2
<1>9. (\A i \in 1 .. l : sout'[i] = sout[i]) /\ (\A i \in 1 .. c : sout'[l + i] = Coded(ptr, ModuleSize, i))
  <2>1. (\A i \in 1 .. l : i \in 1 .. l + c) /\ (\A i \in 1 .. c : l + i \in 1 .. l + c)
    BY ONLY l \in Nat, c \in Nat
  <2>2. QED
    BY ONLY <1>6, <1>7, <2>1
<1>10. EndsAt(n, l)' = RoundUp(l + c, z) /\ InModule(n)' = ModuleSize
  <2>1. ~Complete'
    BY <1>4 DEF Complete
  <2>2. Bytes(bits[n])' = c
    BY <1>1, <1>3, <1>4, <1>5 DEF CodecTypes, Bytes
  <2>3. QED
    BY <1>4, <1>5, <2>1, <2>2 DEF EndsAt, InModule
<1>11. \E new : Layout(new)'
  <2>1. Cut /\ pc = "encode" /\ format' = format /\ bits' = Append(bits, b)
    BY <1>1, <1>3, <1>4
  <2>2. /\ Len(sout') \in Nat /\ Len(sout) + Bytes(b) <= Len(sout') /\ Len(sout') = EndsAt(n, l)'
        /\ (\A i \in 1 .. Len(sout) : sout'[i] = sout[i])
        /\ (\A i \in 1 .. Bytes(b) : sout'[Len(sout) + i] = Coded(ptr, ModuleSize, i))
    BY ONLY <1>5, <1>7, <1>8, <1>9, <1>10
  <2>3. ModuleSize \in Nat
    BY SizeFacts
  <2>4. QED
    BY ONLY <1>1, <1>2, <1>5, <1>10, <2>1, <2>2, <2>3, LayoutGrows
<1>12. CodecTypes'
  <2>1. left' \in Nat \ {0} /\ ptr' \in Nat /\ ptr' + left' = size
    BY <1>1, <1>4, SizeFacts DEF CodecTypes
  <2>2. bits' \in Seq(BitCounts)
    BY <1>1, <1>3 DEF CodecTypes
  <2>3. QED
    BY <1>1, <1>4, <1>7, <2>1, <2>2 DEF CodecTypes
<1>13. Cut'
  <2>1. Len(bits') = Len(bits) + 1 /\ Len(bits) \in Nat
    BY <1>1, <1>3 DEF CodecTypes
  <2>2. ptr = Len(bits) * ModuleSize
    BY <1>1, <1>4 DEF Cut, Complete
  <2>3. (Len(bits) + 1) * ModuleSize = Len(bits) * ModuleSize + ModuleSize
    BY <2>1, SizeFacts
  <2>4. QED
    BY <1>4, <2>1, <2>2, <2>3 DEF Cut, Complete
<1>14. Unopened' /\ Copied' /\ \A new : Decoding(new)'
  BY <1>1, <1>4 DEF Unopened, Copied, Decoding, Opened
<1>15. QED
  BY <1>11, <1>12, <1>13, <1>14 DEF Inv

(* The last one, without padding.                                          *)
LEMMA EncodeLastStep == ASSUME Inv, EncodeLast PROVE Inv'
<1>1. CodecTypes /\ Cut /\ Unopened
  BY DEF Inv
<1>2. PICK at : Layout(at)
  BY DEF Inv
<1>3. PICK b \in BitCounts : sout' = sout \o Encoded(left, b) /\ bits' = Append(bits, b)
  BY DEF EncodeLast
<1>4. /\ pc = "encode" /\ left <= ModuleSize /\ left >= format.blanks /\ pc' = "copy"
      /\ UNCHANGED <<format, size, left, ptr, FullSize, in, tellg, Dst>>
  BY DEF EncodeLast
<1>5. PICK l \in Nat, n \in Nat, c \in Nat :
        l = Len(sout) /\ n = Len(bits) + 1 /\ c = Bytes(b)
  <2>1. Bytes(b) \in Nat
    BY <1>1, BytesFacts DEF CodecTypes
  <2>2. Len(sout) \in Nat /\ Len(bits) + 1 \in Nat
    BY <1>1 DEF CodecTypes
  <2>3. QED
    BY <2>1, <2>2
<1>6. left \in Nat \ {0}
  BY <1>1 DEF CodecTypes
<1>7. /\ sout' \in Seq(Stored) /\ Len(sout') = l + c
      /\ \A i \in 1 .. l : sout'[i] = sout[i]
      /\ \A i \in 1 .. c : sout'[l + i] = Coded(ptr, left, i)
  BY ONLY <1>1, <1>3, <1>4, <1>5, <1>6, EncodedFacts
<1>8. EndsAt(n, l)' = l + c /\ InModule(n)' = left
  <2>1. Complete' /\ Len(bits') = n
    BY <1>1, <1>3, <1>4, <1>5 DEF Complete, CodecTypes
  <2>2. Bytes(bits[n])' = c
    BY <1>1, <1>3, <1>4, <1>5 DEF CodecTypes, Bytes
  <2>3. QED
    BY <1>4, <1>5, <2>1, <2>2 DEF EndsAt, InModule
<1>9. \E new : Layout(new)'
  <2>1. Cut /\ pc = "encode" /\ format' = format /\ bits' = Append(bits, b)
    BY <1>1, <1>3, <1>4
  <2>2. /\ Len(sout') \in Nat /\ Len(sout) + Bytes(b) <= Len(sout') /\ Len(sout') = EndsAt(n, l)'
        /\ (\A i \in 1 .. Len(sout) : sout'[i] = sout[i])
        /\ (\A i \in 1 .. Bytes(b) : sout'[Len(sout) + i] = Coded(ptr, left, i))
    BY ONLY <1>5, <1>7, <1>8
  <2>3. QED
    BY ONLY <1>1, <1>2, <1>5, <1>6, <1>8, <2>1, <2>2, LayoutGrows
<1>10. CodecTypes'
  <2>1. bits' \in Seq(BitCounts)
    BY <1>1, <1>3 DEF CodecTypes
  <2>2. QED
    BY <1>1, <1>4, <1>7, <2>1 DEF CodecTypes
<1>11. Cut'
  <2>1. Len(bits') = Len(bits) + 1 /\ Len(bits) \in Nat
    BY <1>1, <1>3 DEF CodecTypes
  <2>2. ptr = Len(bits) * ModuleSize
    BY <1>1, <1>4 DEF Cut, Complete
  <2>3. QED
    BY <1>4, <2>1, <2>2 DEF Cut, Complete
<1>12. Unopened' /\ Copied' /\ \A new : Decoding(new)'
  BY <1>1, <1>4 DEF Unopened, Copied, Decoding, Opened
<1>13. QED
  BY <1>9, <1>10, <1>11, <1>12 DEF Inv

-----------------------------------------------------------------------------
(* moduled_decode finds in its copy what was written.                      *)
LEMMA ReadModulesStep == ASSUME Inv, ReadModules PROVE Inv'
<1>1. CodecTypes /\ Cut /\ Unopened
  BY DEF Inv
<1>2. PICK at : Layout(at)
  BY DEF Inv
<1>3. /\ pc = "copy" /\ pc' = "decode" /\ FullSize' = size % SizeLimit /\ in' = PaddedTo(sout, 2)
      /\ UNCHANGED <<format, size, left, ptr, sout, bits, tellg, Dst>>
  BY DEF ReadModules, encoder
<1>4. PICK l \in Nat, q \in Nat, x \in Nat :
        l = Len(sout) /\ x = Len(in') /\ x = 2 * q /\ l <= x /\ x < l + 2
  <2>1. PICK l \in Nat : l = Len(sout)
    BY <1>1 DEF CodecTypes
  <2> PICK m \in Nat \ {0} : m = 2
    OBVIOUS
  <2>2. PICK q \in Nat : RoundUp(l, m) = m * q
    BY Rounding
  <2>3. RoundUp(l, m) \in Nat /\ l <= RoundUp(l, m) /\ RoundUp(l, m) < l + 2
    BY Rounding
  <2>4. Len(in') = RoundUp(l, 2)
    BY <1>1, <1>3, <2>1, PaddedFacts DEF CodecTypes
  <2>5. QED
    BY <2>1, <2>2, <2>3, <2>4
<1>5. /\ \A i \in 1 .. l : in'[i] = sout[i]
      /\ \A i \in l + 1 .. x : in'[i] = Zero
  <2>1. sout \in Seq(Stored)
    BY <1>1 DEF CodecTypes
  <2>2. PICK m \in Nat \ {0} : m = 2
    OBVIOUS
  <2>3. /\ Len(PaddedTo(sout, m)) = RoundUp(Len(sout), m)
        /\ \A i \in 1 .. Len(sout) : PaddedTo(sout, m)[i] = sout[i]
        /\ \A i \in Len(sout) + 1 .. RoundUp(Len(sout), m) : PaddedTo(sout, m)[i] = Zero
    BY ONLY <2>1, m \in Nat \ {0}, PaddedFacts
  <2>4. QED
    BY ONLY <1>3, <1>4, <2>2, <2>3
<1>6. Copied'
  <2>1. x <= l + 1 /\ x % 2 = 0 /\ (x > l => x \in l + 1 .. x)
    BY <1>4
  <2>2. QED
    BY <1>3, <1>4, <1>5, <2>1 DEF Copied, Zero
<1>7. CodecTypes' /\ Cut' /\ Unopened'
  BY <1>1, <1>3 DEF CodecTypes, Cut, Complete, Unopened, Opened
<1>8. \A k : /\ Bytes(bits[k])' = Bytes(bits[k]) /\ InModule(k)' = InModule(k)
             /\ \A p : EndsAt(k, p)' = EndsAt(k, p) /\ (InPlace(k, p) => InPlace(k, p)')
  BY <1>3 DEF Bytes, InModule, EndsAt, InPlace, Complete, Coded, ModuleByte
<1>9. Layout(at)'
  BY <1>2, <1>3, <1>8 DEF Layout
<1>10. Decoding(at)'
  <2>1. Dst = << >> /\ tellg = 0 /\ Len(bits) \in Nat \ {0}
    BY <1>1, <1>3 DEF Unopened, Opened, Cut, Complete, CodecTypes
  <2>2. Restoring(0)'
    <3>1. format \in Formats /\ Share' = Share
      BY <1>1, <1>3 DEF CodecTypes, Share
    <3>2. Decoded(0)' = 0
      BY <1>3, <2>1, <3>1, ShareFacts DEF Decoded
    <3>3. QED
      BY <1>3, <2>1, <3>2 DEF Restoring
  <2>3. Standing(0, at)'
    BY <1>2, <1>3, <2>1 DEF Standing, Layout
  <2>4. QED
    BY <1>3, <2>1, <2>2, <2>3 DEF Decoding
<1>11. QED
  BY <1>6, <1>7, <1>9, <1>10 DEF Inv

(* Module k where it was put.                                              *)
LEMMA Located ==
  ASSUME CodecTypes, Copied, Opened, NEW at, Layout(at), NEW k \in 1 .. Len(bits)
  PROVE  /\ at[k] \in Nat /\ at[k + 1] \in Nat /\ bits[k] \in BitCounts
         /\ Bytes(bits[k]) \in Nat /\ Bytes(bits[k]) >= 2 /\ Bytes(bits[k]) >= 2 * format.word
         /\ at[k] + Bytes(bits[k]) <= at[k + 1] /\ at[k + 1] <= Len(sout)
         /\ at[k + 1] = EndsAt(k, at[k])
         /\ \A i \in 1 .. Bytes(bits[k]) :
              in[at[k] + i] = Coded((k - 1) * ModuleSize, InModule(k), i)
<1>1. Len(bits) \in Nat /\ bits[k] \in BitCounts /\ Len(sout) \in Nat
  BY DEF CodecTypes
<1>2. k \in 1 .. Len(bits) + 1 /\ k + 1 \in 1 .. Len(bits) + 1
  BY <1>1
<1>3. at[k] \in Nat /\ at[k + 1] \in Nat
  BY <1>2 DEF Layout
<1>4. Bytes(bits[k]) \in Nat /\ Bytes(bits[k]) >= 2 /\ Bytes(bits[k]) >= 2 * format.word
  BY <1>1, BytesFacts DEF CodecTypes
<1>5. /\ at[k] + Bytes(bits[k]) <= at[k + 1] /\ at[k + 1] <= Len(sout)
      /\ at[k + 1] = EndsAt(k, at[k]) /\ InPlace(k, at[k])
  BY DEF Layout
<1>6. \A i \in 1 .. Bytes(bits[k]) : at[k] + i \in 1 .. Len(sout)
  BY <1>1, <1>3, <1>4, <1>5
<1>7. \A i \in 1 .. Len(sout) : in[i] = sout[i]
  BY DEF Copied
<1>8. QED
  BY <1>1, <1>3, <1>4, <1>5, <1>6, <1>7 DEF InPlace

(* Where the module that Src stands at was cut from the file.              *)
ModuleInTurn(at, k, j, p, n, b) ==
  /\ Layout(at) /\ Restoring(k) /\ j = k + 1 /\ j \in 1 .. Len(bits)
  /\ k >= 1 => Len(Dst) < FullSize
  /\ p = at[j] /\ tellg = p /\ b = bits[j] /\ n = InModule(j)
  /\ ModuleAt(p).n = n - format.blanks /\ ModuleAt(p).first = k * ModuleSize + format.blanks
  /\ Module = k

LEMMA InTurn ==
  ASSUME Inv, DecodeModule
  PROVE  \E at : \E k \in Nat, j \in Nat, p \in Nat, n \in Nat, b \in BitCounts :
           ModuleInTurn(at, k, j, p, n, b)
<1>1. CodecTypes /\ Cut /\ Copied /\ Opened
  BY DEF Inv, DecodeModule, Opened
<1>2. PICK at : Layout(at) /\ Decoding(at)
  BY DEF Inv
<1>3. PICK k \in 0 .. Len(bits) : Restoring(k) /\ Standing(k, at)
  BY <1>1, <1>2 DEF Decoding
<1>4. /\ Len(bits) \in Nat /\ k < Len(bits) /\ tellg = at[k + 1]
      /\ k >= 1 => Len(Dst) < FullSize
  BY <1>1, <1>3 DEF DecodeModule, Standing, Astray, CodecTypes
<1>5. PICK j \in 1 .. Len(bits) : j = k + 1
  BY <1>4
<1>6. /\ at[j] \in Nat /\ bits[j] \in BitCounts /\ Bytes(bits[j]) \in Nat /\ Bytes(bits[j]) >= 2
      /\ \A i \in 1 .. Bytes(bits[j]) :
           in[at[j] + i] = Coded((j - 1) * ModuleSize, InModule(j), i)
  BY <1>1, <1>2, Located
<1>7. in[at[j] + 1] =
        Coded(k * ModuleSize, InModule(j), 1)
  BY <1>5, <1>6
<1>8. /\ ModuleAt(at[j]).n = InModule(j) - format.blanks
      /\ ModuleAt(at[j]).first = k * ModuleSize + format.blanks
  BY <1>7 DEF ModuleAt, Coded, ModuleByte
<1>9. Module = k
  <2>1. (ModuleSize * k + format.blanks) \div ModuleSize = k
    <3>1. PICK M \in Nat \ {0}, e \in Nat : M = ModuleSize /\ e = format.blanks /\ e < M
      BY <1>1, SizeFacts, FormatFacts DEF CodecTypes
    <3>2. k \in Int
      BY <1>4
    <3>3. (M * k + e) \div M = k
      BY <3>1, <3>2, Quotient
    <3>4. QED
      BY ONLY <3>1, <3>3
  <2>2. ModuleSize * k = k * ModuleSize
    BY SizeFacts
  <2>3. QED
    BY <1>4, <1>5, <1>8, <2>1, <2>2 DEF Module
<1>10. InModule(j) \in Nat
  BY <1>1, SizeFacts DEF InModule, CodecTypes
<1>11. PICK n \in Nat, p \in Nat, b \in BitCounts : n = InModule(j) /\ p = at[j] /\ b = bits[j]
  BY <1>6, <1>10
<1>12. k \in Nat /\ j \in Nat
  BY <1>4
<1>13. ModuleInTurn(at, k, j, p, n, b)
  BY ONLY <1>2, <1>3, <1>4, <1>5, <1>8, <1>9, <1>11 DEF ModuleInTurn
<1>14. QED
  BY ONLY <1>11, <1>12, <1>13

(* What it gives follows in the file on what there is, if it gives it back.*)
LEMMA RestoredInPlace ==
  ASSUME Inv, DecodeModule,
         NEW at, NEW k \in Nat, NEW j \in Nat, NEW p \in Nat, NEW n \in Nat, NEW b \in BitCounts,
         ModuleInTurn(at, k, j, p, n, b)
  PROVE  /\ Dst' \in Seq(Int) /\ Len(Dst') = k * Share + Whole(n - format.blanks)
         /\ Restoring(j)'
<1>1. CodecTypes /\ Cut /\ Complete /\ format \in Formats
  BY DEF Inv, DecodeModule, Complete, CodecTypes
<1>2. PICK N \in Nat, M \in Nat \ {0}, S \in Nat \ {0}, e \in Nat :
        /\ N = Len(bits) /\ M = ModuleSize /\ S = Share /\ e = format.blanks /\ M = S + e
        /\ format.exact # "none" => S = M /\ e = 0
  <2>1. Len(bits) \in Nat
    BY <1>1 DEF CodecTypes
  <2>2. ModuleSize \in Nat \ {0} /\ format.blanks \in Nat
    BY <1>1, SizeFacts, FormatFacts
  <2>3. /\ Share \in Nat \ {0} /\ ModuleSize = Share + format.blanks
        /\ format.exact # "none" => Share = ModuleSize
    BY <1>1, ShareFacts
  <2>4. QED
    BY <2>1, <2>2, <2>3
<1>3. /\ j = k + 1 /\ 1 <= j /\ j <= N /\ k < N /\ Restoring(k) /\ n = InModule(j)
      /\ ModuleAt(p).n = n - e /\ ModuleAt(p).first = k * M + e /\ tellg = p
  BY <1>2 DEF ModuleInTurn
<1>4. /\ left \in Nat \ {0} /\ left <= M /\ left >= e
      /\ ptr = (N - 1) * M /\ ptr + left = size /\ size \in Nat
  BY <1>1, <1>2, SizeFacts DEF CodecTypes, Cut
<1>5. n <= M /\ n >= e /\ (j = N => n = left) /\ (j # N => n = M)
  <2>1. InModule(j) = IF j = N THEN left ELSE M
    BY <1>1, <1>2 DEF InModule
  <2>2. e <= M
    BY ONLY <1>2, M \in Nat, S \in Nat, e \in Nat
  <2>3. QED
    BY ONLY <1>3, <1>4, <2>1, <2>2, M \in Nat, e \in Nat
<1>6. PICK s \in Nat, first \in Nat, c \in Nat :
        s = k * S /\ first = k * M + e /\ c = n - e /\ c <= S
  <2>1. k * S \in Nat /\ k * M \in Nat
    BY <1>2
  <2>2. k * M + e \in Nat /\ n - e \in Nat /\ n - e <= S
    <3>1. k * M + e \in Nat
      BY ONLY <2>1, e \in Nat
    <3>2. n - e \in Nat /\ n - e <= S
      <4>1. M = S + e /\ n <= M /\ n >= e
        BY <1>2, <1>5
      <4>2. QED
        BY ONLY <4>1, n \in Nat, M \in Nat, S \in Nat, e \in Nat
    <3>3. QED
      BY ONLY <3>1, <3>2
  <2>3. QED
    BY <2>1, <2>2
<1>7. PICK w \in Nat : w = Whole(c)
  BY <1>1, <1>2, <1>6, WholePart
<1>8. PICK r \in Seq(Int) :
        /\ r = Restored(ModuleAt(p)) /\ Len(r) = w
        /\ \A i \in 1 .. w : r[i] = Given(first, c, i)
  <2>1. c <= Share /\ ModuleAt(p).n = c /\ ModuleAt(p).first = first
    BY <1>2, <1>3, <1>6
  <2>2. PICK r : r = Restored(ModuleAt(p))
    OBVIOUS
  <2>3. r = [i \in 1 .. Whole(c) |-> Given(first, c, i)] /\ r \in Seq(Int) /\ Len(r) = w
    BY ONLY <1>1, <1>7, <2>1, <2>2, first \in Nat, c \in Nat, RestoredFacts
  <2>4. QED
    BY ONLY <1>7, <2>2, <2>3
<1>9. /\ Dst \in Seq(Int) /\ Len(Dst) = s
      /\ \A i \in 1 .. s : Relied(i) => Dst[i] = IF i <= size THEN i ELSE 0
  <2>1. Decoded(k) = s
    BY <1>2, <1>3, <1>6 DEF Decoded
  <2>2. QED
    BY <1>1, <1>3, <2>1 DEF Restoring, CodecTypes
<1>10. Dst' = Dst \o r
  BY <1>3, <1>8 DEF DecodeModule
<1>11. /\ Dst' \in Seq(Int) /\ Len(Dst') = s + w
       /\ \A i \in 1 .. s : Dst'[i] = Dst[i]
       /\ \A i \in 1 .. w : Dst'[s + i] = r[i]
  <2>1. PICK d \in Seq(Int) : d = Dst
    BY <1>9
  <2>2. /\ d \o r \in Seq(Int) /\ Len(d \o r) = Len(d) + Len(r)
        /\ \A i \in 1 .. Len(d) : (d \o r)[i] = d[i]
        /\ \A i \in 1 .. Len(r) : (d \o r)[Len(d) + i] = r[i]
    BY ONLY d \in Seq(Int), r \in Seq(Int), Joined
  <2>3. QED
    BY ONLY <1>8, <1>9, <1>10, <2>1, <2>2
<1>12. (j - 1) * S = s /\ j * S = s + S
  <2>1. j - 1 = k
    BY <1>3
  <2>2. j * S = s + S
    BY <1>2, <1>3, <1>6
  <2>3. QED
    BY <1>6, <2>1, <2>2
<1>13. ASSUME S = M, e = 0
       PROVE  \A i \in 1 .. w : (IF i <= c THEN first + i ELSE 0) = IF s + i <= size THEN s + i ELSE 0
  <2>1. first = s /\ c = n
    BY <1>6, <1>13
  <2>2. CASE j = N
    <3>1. ptr = s
      BY <1>4, <1>12, <1>13, <2>2
    <3>2. size = s + n
      BY <1>4, <1>5, <2>2, <3>1
    <3>3. QED
      BY <2>1, <3>2
  <2>3. CASE j < N
    <3>1. w = S /\ n = S
      <4>1. n = M
        BY <1>5, <2>3
      <4>2. QED
        BY <1>1, <1>2, <1>7, <1>13, <2>1, <4>1, WholeShare
    <3>2. j * S <= (N - 1) * S
      <4>1. j = N - 1 \/ j < N - 1
        BY ONLY <2>3, j \in Nat, N \in Nat
      <4>2. N - 1 \in Int /\ j \in Int
        BY ONLY j \in Nat, N \in Nat
      <4>3. j < N - 1 => S * j + S <= S * (N - 1)
        BY ONLY <4>2, S \in Nat \ {0}, Apart
      <4>4. QED
        BY ONLY <4>1, <4>3, S \in Nat \ {0}
    <3>3. s + S <= size
      <4>1. PICK x \in Nat : x = ptr /\ x = (N - 1) * S /\ x <= size
        <5>1. ptr \in Nat /\ ptr <= size
          BY <1>1, <1>4 DEF CodecTypes
        <5>2. QED
          BY <1>4, <1>13, <5>1
      <4>2. QED
        BY ONLY <1>4, <1>12, <3>2, <4>1, x \in Nat, s \in Nat, S \in Nat
    <3>4. \A i \in 1 .. w : s + i <= size /\ i <= c
      BY ONLY <2>1, <3>1, <3>3, <1>4, s \in Nat, w \in Nat, S \in Nat
    <3>5. QED
      BY ONLY <2>1, <3>4
  <2>4. QED
    BY <1>3, <2>2, <2>3
<1>14. ASSUME NEW i \in 1 .. s + w, Relied(i)
       PROVE  Dst'[i] = IF i <= size THEN i ELSE 0
  <2>1. CASE i <= s
    BY <1>9, <1>11, <1>14, <2>1
  <2>2. CASE i > s
    <3>1. PICK t \in 1 .. w : i = s + t
      <4>1. i - s \in 1 .. w
        BY <2>2
      <4>2. QED
        BY <4>1
    <3>2. S = M /\ e = 0 /\ (format.exact = "all" \/ (format.exact = "first" /\ i <= M))
      BY <1>2, <1>14 DEF Relied
    <3>3. Exact
      <4>1. CASE format.exact = "all"
        BY <4>1 DEF Exact
      <4>2. CASE format.exact = "first" /\ i <= M
        <5>1. k = 0
          <6>1. 0 < k => S * 0 + S <= S * k
            BY Apart
          <6>2. S * 0 = 0 /\ S * k = s
            BY <1>6
          <6>3. 0 < k => S <= s
            BY <6>1, <6>2
          <6>4. QED
            BY <2>2, <3>2, <4>2, <6>3
        <5>2. s = 0
          BY <1>6, <5>1
        <5>3. Dst = << >>
          BY <1>9, <5>2
        <5>4. QED
          BY <4>2, <5>3 DEF Exact
      <4>3. QED
        BY <3>2, <4>1, <4>2
    <3>4. r[t] = IF t <= c THEN first + t ELSE 0
      BY <1>8, <3>1, <3>3 DEF Given
    <3>5. r[t] = IF s + t <= size THEN s + t ELSE 0
      BY <1>13, <3>1, <3>2, <3>4
    <3>6. QED
      BY <1>11, <3>1, <3>5
  <2>3. QED
    BY <2>1, <2>2
<1>15. Decoded(j)' = s + w
  <2>1. /\ UNCHANGED <<format, bits, left, size>> /\ Share' = Share
        /\ \A x : Whole(x)' = Whole(x)
    BY DEF DecodeModule, encoder, Whole, Share
  <2>2. CASE j = N
    <3>1. Whole(left - format.blanks) = w
      BY <1>2, <1>5, <1>6, <1>7, <2>2
    <3>2. QED
      BY <1>2, <1>12, <2>1, <2>2, <3>1 DEF Decoded
  <2>3. CASE j < N
    <3>1. w = S
      <4>1. c = S
        BY ONLY <1>2, <1>5, <1>6, <2>3, n \in Nat, M \in Nat, S \in Nat, e \in Nat, j \in Nat
      <4>2. QED
        BY <1>1, <1>2, <1>7, <4>1, WholeShare
    <3>2. QED
      BY <1>2, <1>12, <2>1, <2>3, <3>1 DEF Decoded
  <2>4. QED
    BY <1>3, <2>2, <2>3
<1>16. Restoring(j)'
  <2>1. size' = size /\ \A i : Relied(i)' <=> Relied(i)
    BY DEF DecodeModule, Relied
  <2>2. QED
    BY <1>11, <1>14, <1>15, <2>1 DEF Restoring
<1>17. QED
  BY <1>2, <1>6, <1>7, <1>11, <1>16

(* What is extracted is at least what is left of Src.                      *)
LEMMA LeftFacts ==
  ASSUME CodecTypes, Copied, Opened, NEW b \in BitCounts, tellg <= Len(in)
  PROVE  /\ Left(b) \in Nat
         /\ tellg + Taken(b) <= Len(in) => Left(b) = tellg + Taken(b)
         /\ \/ Left(b) = tellg + Taken(b)
            \/ tellg > 0 /\ Left(b) = tellg - 1
            \/ Left(b) = Len(in)
         /\ format.early /\ FullWord(b) => Taken(b) = Bytes(b) + format.word
         /\ ~(format.early /\ FullWord(b)) => Taken(b) = Bytes(b)
<1>1. tellg \in Nat /\ Len(in) \in Nat
  BY DEF CodecTypes, Copied
<1>2. Bytes(b) \in Nat /\ format.word \in Nat
  BY BytesFacts, FormatFacts DEF CodecTypes
<1>3. PICK t \in Nat : t = Taken(b)
  BY <1>2 DEF Taken
<1>4. PICK m \in Nat \ {0}, e \in Nat : m = 2 /\ e = Len(in) - tellg
  <2>1. Len(in) - tellg \in Nat
    BY <1>1
  <2>2. QED
    BY <2>1
<1>5. RoundUp(e, m) \in Nat /\ e <= RoundUp(e, m)
  BY Rounding
<1>6. PICK x \in Nat : x = Extracted /\ e <= x
  BY <1>4, <1>5 DEF Extracted
<1>7. Left(b) = IF t <= x THEN tellg + t
                ELSE IF format.copies /\ tellg > 0 THEN tellg - 1 ELSE Len(in)
  BY <1>3, <1>6 DEF Left
<1>8. /\ format.early /\ FullWord(b) => Taken(b) = Bytes(b) + format.word
      /\ ~(format.early /\ FullWord(b)) => Taken(b) = Bytes(b)
  BY <1>2 DEF Taken
<1>9. tellg + t <= Len(in) => t <= x
  BY <1>1, <1>4, <1>6
<1>10. QED
  BY <1>1, <1>3, <1>7, <1>8, <1>9

(* What is behind sout is no module.                                       *)
LEMMA NothingBehind ==
  ASSUME CodecTypes, Copied, Opened, NEW q \in Nat, q >= Len(sout)
  PROVE  ~Begins(q)
<1>1. Len(in) \in Nat /\ Len(sout) \in Nat /\ Len(in) <= Len(sout) + 1
  BY DEF CodecTypes, Copied
<1>2. q < Len(in) => q + 1 = Len(in) /\ Len(in) > Len(sout)
  BY <1>1
<1>3. Len(in) > Len(sout) => in[Len(in)] = Zero
  BY DEF Copied
<1>4. Zero.at # 1
  BY DEF Zero
<1>5. QED
  BY <1>2, <1>3, <1>4 DEF Begins

(* If there is another module, Src is moved to it, or a word past it.      *)
LEMMA MovedToNext ==
  ASSUME Inv, DecodeModule,
         NEW at, NEW k \in Nat, NEW j \in Nat, NEW p \in Nat, NEW n \in Nat, NEW b \in BitCounts,
         ModuleInTurn(at, k, j, p, n, b), j < Len(bits)
  PROVE  /\ Skipped(Left(b)) \in Nat
         /\ \/ Skipped(Left(b)) = at[j + 1]
            \/ format.early /\ FullWord(b) /\ ~Begins(Skipped(Left(b)))
<1>1. CodecTypes /\ Copied /\ Opened
  BY DEF Inv, DecodeModule, Opened
<1>2. Layout(at) /\ j \in 1 .. Len(bits) /\ p = at[j] /\ tellg = p /\ b = bits[j]
  BY ONLY ModuleInTurn(at, k, j, p, n, b) DEF ModuleInTurn
<1>3. PICK i \in 1 .. Len(bits) : i = j + 1
  BY <1>1, <1>2 DEF CodecTypes
<1>4. Len(sout) \in Nat /\ Len(in) \in Nat /\ Len(sout) <= Len(in)
  BY <1>1 DEF CodecTypes, Copied
<1>5. PICK c \in Nat, q \in Nat :
        c = Bytes(b) /\ q = at[i] /\ p + c <= q /\ q <= Len(sout) /\ q = EndsAt(j, p)
  BY <1>1, <1>2, <1>3, Located
<1>6. PICK d \in Nat, r \in Nat :
        /\ d = Bytes(bits[i]) /\ r = at[i + 1] /\ d >= 2 /\ d >= 2 * format.word
        /\ q + d <= r /\ r <= Len(sout)
        /\ \A x \in 1 .. d : in[q + x] = Coded((i - 1) * ModuleSize, InModule(i), x)
  <2>1. /\ at[i + 1] \in Nat /\ Bytes(bits[i]) \in Nat
        /\ Bytes(bits[i]) >= 2 /\ Bytes(bits[i]) >= 2 * format.word
        /\ at[i] + Bytes(bits[i]) <= at[i + 1] /\ at[i + 1] <= Len(sout)
        /\ \A x \in 1 .. Bytes(bits[i]) :
             in[at[i] + x] = Coded((i - 1) * ModuleSize, InModule(i), x)
    BY ONLY <1>1, <1>2, i \in 1 .. Len(bits), Located
  <2>2. QED
    BY <1>5, <2>1
<1>7. PICK w \in Nat \ {0}, z \in Nat \ {0} : w = format.word /\ z = format.padding /\ (format.early => z = 1)
  BY <1>1, FormatFacts DEF CodecTypes
<1>8. q = RoundUp(p + c, z)
  <2>1. j # Len(bits)
    BY <1>1, <1>2 DEF CodecTypes
  <2>2. QED
    BY <1>2, <1>5, <1>7, <2>1 DEF EndsAt
<1>9. tellg <= Len(in)
  BY <1>2, <1>4, <1>5
<1>10. CASE ~(format.early /\ FullWord(b))
  <2>1. Taken(b) = c
    BY <1>1, <1>5, <1>9, <1>10, LeftFacts
  <2>2. Left(b) = p + c
    BY <1>1, <1>2, <1>4, <1>5, <1>9, <2>1, LeftFacts
  <2>3. QED
    BY <1>3, <1>5, <1>7, <1>8, <2>2 DEF Skipped
<1>11. CASE format.early /\ FullWord(b)
  <2>1. Taken(b) = c + w
    BY <1>1, <1>5, <1>7, <1>9, <1>11, LeftFacts
  <2>2. PICK s \in Nat : s = p + c /\ s = q /\ z = 1
    <3>1. PICK s \in Nat : s = p + c
      OBVIOUS
    <3>2. RoundUp(s, 1) = s
      BY RoundByOne
    <3>3. QED
      BY <1>7, <1>8, <1>11, <3>1, <3>2
  <2>3. PICK y \in Nat : y = q + w /\ y < q + d /\ y < Len(in) /\ w + 1 \in 1 .. d
    <3>1. d >= 2 * w /\ w \in Nat \ {0} /\ q + d <= Len(in)
      <4>1. q + d <= r /\ r <= Len(sout) /\ d >= 2 * format.word /\ w = format.word
        BY <1>6, <1>7
      <4>2. d >= 2 * w
        BY ONLY <4>1
      <4>3. q + d <= Len(in)
        BY ONLY <1>4, <4>1, q \in Nat, d \in Nat, r \in Nat
      <4>4. QED
        BY ONLY <4>2, <4>3, w \in Nat \ {0}
    <3>2. PICK y \in Nat : y = q + w
      BY <3>1
    <3>3. y < q + d /\ y < Len(in) /\ w + 1 \in 1 .. d
      BY ONLY <1>4, <3>1, <3>2, q \in Nat, d \in Nat, y \in Nat
    <3>4. QED
      BY ONLY <3>2, <3>3, y \in Nat
  <2>4. Left(b) = y
    <3>1. tellg + Taken(b) = y
      <4>1. q = p + c /\ y = q + w
        BY <2>2, <2>3
      <4>2. y = p + (c + w)
        BY ONLY <4>1, p \in Nat, c \in Nat, w \in Nat
      <4>3. QED
        BY ONLY <1>2, <2>1, <4>2
    <3>2. tellg + Taken(b) <= Len(in)
      BY ONLY <1>4, <2>3, <3>1, y \in Nat
    <3>3. QED
      BY <1>1, <1>9, <3>1, <3>2, LeftFacts
  <2>5. Skipped(Left(b)) = y
    BY <1>7, <2>2, <2>4, RoundByOne DEF Skipped
  <2>6. in[y + 1] = Coded((i - 1) * ModuleSize, InModule(i), w + 1)
    <3>1. y + 1 = q + (w + 1)
      BY <2>3
    <3>2. QED
      BY ONLY <1>6, <2>3, <3>1
  <2>7. in[y + 1].at # 1
    BY <2>6, <1>7 DEF Coded, ModuleByte
  <2>8. QED
    BY <1>11, <2>5, <2>7 DEF Begins
<1>12. QED
  BY <1>10, <1>11

(* If there is none, it is moved to where none begins.                     *)
LEMMA MovedBehind ==
  ASSUME Inv, DecodeModule,
         NEW at, NEW k \in Nat, NEW j \in Nat, NEW p \in Nat, NEW n \in Nat, NEW b \in BitCounts,
         ModuleInTurn(at, k, j, p, n, b), j = Len(bits)
  PROVE  /\ Skipped(Left(b)) \in Nat /\ ~Begins(Skipped(Left(b)))
         /\ Skipped(Left(b)) >= Len(sout) \/ (format.early /\ FullWord(b))
<1>1. CodecTypes /\ Copied /\ Opened
  BY DEF Inv, DecodeModule, Opened
<1>2. Layout(at) /\ j \in 1 .. Len(bits) /\ p = at[j] /\ tellg = p /\ b = bits[j] /\ j = k + 1
  BY ONLY ModuleInTurn(at, k, j, p, n, b) DEF ModuleInTurn
<1>3. PICK l \in Nat, x \in Nat : l = Len(sout) /\ x = Len(in) /\ l <= x /\ x <= l + 1
  <2>1. Len(in) \in Nat /\ Len(sout) <= Len(in) /\ Len(in) <= Len(sout) + 1
    BY <1>1 DEF Copied
  <2>2. Len(sout) \in Nat
    BY <1>1 DEF CodecTypes
  <2>3. QED
    BY ONLY <2>1, <2>2
<1>4. PICK c \in Nat, q \in Nat : c = Bytes(b) /\ q = at[j + 1] /\ p + c <= q /\ q = EndsAt(j, p)
  BY <1>1, <1>2, Located
<1>5. q = l /\ p + c = l
  <2>1. at[Len(bits) + 1] = Len(sout)
    BY <1>2 DEF Layout
  <2>2. EndsAt(j, p) = p + c
    BY <1>1, <1>2, <1>4 DEF EndsAt, Complete, Opened
  <2>3. QED
    BY <1>3, <1>4, <2>1, <2>2
<1>6. PICK w \in Nat \ {0}, z \in Nat \ {0} : w = format.word /\ z = format.padding /\ (format.early => z = 1)
  BY <1>1, FormatFacts DEF CodecTypes
<1>7. tellg <= Len(in)
  BY ONLY <1>2, <1>3, <1>5, p \in Nat, c \in Nat, l \in Nat, x \in Nat
<1>8. \A s \in Nat : Skipped(s) \in Nat /\ s <= Skipped(s) /\ (format.early => Skipped(s) = s)
  <2> TAKE s \in Nat
  <2>1. RoundUp(s, z) \in Nat /\ s <= RoundUp(s, z)
    BY Rounding
  <2>2. RoundUp(s, 1) = s
    BY RoundByOne
  <2>3. QED
    BY <1>6, <2>1, <2>2 DEF Skipped
<1>9. \A s \in Nat : s >= l => ~Begins(s)
  BY <1>1, <1>3, NothingBehind
<1>10. ASSUME NEW s \in Nat, Left(b) = s, s >= l
       PROVE  /\ Skipped(Left(b)) \in Nat /\ ~Begins(Skipped(Left(b)))
              /\ Skipped(Left(b)) >= Len(sout)
  <2>1. PICK y \in Nat : y = Skipped(s) /\ s <= y
    BY <1>8
  <2>2. y >= l
    BY <1>10, <2>1
  <2>3. QED
    BY <1>3, <1>9, <1>10, <2>1, <2>2
<1>11. CASE ~(format.early /\ FullWord(b))
  <2>1. Taken(b) = c
    BY <1>1, <1>4, <1>7, <1>11, LeftFacts
  <2>2. tellg + Taken(b) = l
    BY <1>2, <1>5, <2>1
  <2>3. Left(b) = l
    BY <1>1, <1>3, <1>7, <2>2, LeftFacts
  <2>4. QED
    BY <1>10, <2>3
<1>12. CASE format.early /\ FullWord(b)
  <2>1. Taken(b) = c + w
    BY <1>1, <1>4, <1>6, <1>7, <1>12, LeftFacts
  <2>2. \/ Left(b) = tellg + Taken(b)
        \/ tellg > 0 /\ Left(b) = tellg - 1
        \/ Left(b) = Len(in)
    BY <1>1, <1>7, LeftFacts
  <2>3. CASE Left(b) = tellg + Taken(b)
    <3>1. PICK s \in Nat : s = l + w /\ s >= l
      BY <1>3, <1>6
    <3>2. tellg + Taken(b) = s
      <4>1. p + (c + w) = (p + c) + w
        BY <1>6
      <4>2. QED
        BY <1>2, <1>5, <2>1, <3>1, <4>1
    <3>3. QED
      BY <1>10, <2>3, <3>1, <3>2
  <2>4. CASE Left(b) = Len(in)
    BY <1>3, <1>10, <2>4
  <2>5. CASE tellg > 0 /\ Left(b) = tellg - 1
    <3>1. j # 1
      BY <1>2, <2>5 DEF Layout
    <3>2. PICK i \in 1 .. Len(bits) : j = i + 1 /\ i # Len(bits)
      <4>1. Len(bits) \in Nat /\ k \in 1 .. Len(bits) /\ k # Len(bits)
        BY <1>1, <1>2, <3>1 DEF CodecTypes
      <4>2. QED
        BY <1>2, <4>1
    <3>3. PICK d \in Nat, r \in Nat :
            /\ d = Bytes(bits[i]) /\ r = at[i] /\ d >= 2 /\ p = EndsAt(i, r)
            /\ in[r + d] = Coded((i - 1) * ModuleSize, InModule(i), d)
      <4>1. /\ at[i] \in Nat /\ Bytes(bits[i]) \in Nat /\ Bytes(bits[i]) >= 2
            /\ at[i + 1] = EndsAt(i, at[i])
            /\ \A y \in 1 .. Bytes(bits[i]) :
                 in[at[i] + y] = Coded((i - 1) * ModuleSize, InModule(i), y)
        BY ONLY <1>1, <1>2, i \in 1 .. Len(bits), Located
      <4>2. Bytes(bits[i]) \in 1 .. Bytes(bits[i])
        BY <4>1
      <4>3. QED
        BY <1>2, <3>2, <4>1, <4>2
    <3>4. p = r + d
      <4>1. PICK e \in Nat : e = r + d
        BY <3>3
      <4>2. EndsAt(i, r) = RoundUp(e, 1)
        BY <1>6, <1>12, <3>2, <3>3, <4>1 DEF EndsAt
      <4>3. QED
        BY <3>3, <4>1, <4>2, RoundByOne
    <3>5. PICK y \in Nat : y = p - 1 /\ y + 1 = r + d
      BY <1>2, <2>5, <3>4
    <3>6. Skipped(Left(b)) = y
      BY <1>2, <1>8, <1>12, <2>5, <3>5
    <3>7. in[y + 1].at # 1
      BY <3>3, <3>5 DEF Coded, ModuleByte
    <3>8. QED
      BY <1>12, <3>6, <3>7 DEF Begins
  <2>6. QED
    BY <1>12, <2>2, <2>3, <2>4, <2>5
<1>13. QED
  BY <1>11, <1>12

(* A file that is not reached by its whole modules was cut short, by less  *)
(* than what is coded at once, unless every module is.                     *)
LEMMA NotReached ==
  ASSUME CodecTypes, Cut, Copied, Opened, NEW s \in Nat, NEW w \in Nat,
         s = (Len(bits) - 1) * Share, w = Whole(left - format.blanks), s + w < FullSize
  PROVE  (LeftOver /\ size < SizeLimit) \/ format.blanks # 0
<1> SUFFICES ASSUME format.blanks = 0 PROVE LeftOver /\ size < SizeLimit
  OBVIOUS
<1> PICK t \in Nat, z \in Nat : t = left /\ z = size
  BY SizeFacts DEF CodecTypes
<1>1. /\ t <= ModuleSize /\ z = s + t /\ s + w < z % SizeLimit /\ w = Whole(t)
      /\ Len(bits) \in Nat \ {0} /\ format \in Formats
      /\ Share = ModuleSize /\ s = (Len(bits) - 1) * ModuleSize
  <2>1. Complete
    BY DEF Opened, Complete
  <2>2. Share = ModuleSize
    BY SizeFacts DEF Share
  <2>3. left <= ModuleSize /\ ptr = s /\ Len(bits) # 0
    BY <2>1, <2>2 DEF Cut
  <2>4. ptr + left = size /\ Len(bits) \in Nat /\ format \in Formats
    BY DEF CodecTypes
  <2>5. FullSize = size % SizeLimit
    BY DEF Copied
  <2>6. left - format.blanks = left
    OBVIOUS
  <2>7. QED
    BY <2>2, <2>3, <2>4, <2>5, <2>6
<1>2. PICK M \in Nat \ {0}, g \in Nat \ {0}, S \in Nat \ {0} :
        M = ModuleSize /\ g = format.grain /\ S = SizeLimit /\ M <= S
  BY <1>1, SizeFacts, FormatFacts
<1>3. PICK h \in Nat : M = g * h
  BY <1>1, <1>2, ShareFacts
<1>4. w > t - g /\ (w < t => ~format.pads /\ t % g # 0)
  BY <1>1, <1>2, WholePart
<1>5. PICK q \in Int, f \in Nat : q = z \div S /\ f = z % S /\ f < S /\ z = S * q + f
  BY Division
<1>6. q >= 0
  <2>1. q < 0 => S * q + S <= S * 0
    BY <1>2, Apart
  <2>2. QED
    BY <1>1, <1>2, <1>5, <2>1
<1>7. f <= z
  <2>1. S * q \in Nat
    BY <1>2, <1>6
  <2>2. QED
    BY <1>5, <2>1
<1>8. s + w < f
  BY <1>1, <1>2, <1>5
<1>9. w < t
  BY <1>1, <1>7, <1>8
<1>10. z % g = t % g
  <2>1. PICK d \in Int, r \in Nat : d = t \div g /\ r = t % g /\ r < g /\ t = g * d + r
    <3>1. t \in Int /\ g \in Nat \ {0}
      OBVIOUS
    <3>2. t \div g \in Int /\ t % g \in Nat /\ t % g < g /\ t = g * (t \div g) + (t % g)
      BY ONLY <3>1, Division
    <3>3. QED
      BY ONLY <3>2
  <2>2. PICK e \in Int : s = g * e
    <3>1. PICK m \in Nat : m = Len(bits) - 1
      <4>1. Len(bits) - 1 \in Nat
        BY <1>1
      <4>2. QED
        BY ONLY <4>1
    <3>2. s = m * (g * h)
      BY ONLY <1>1, <1>2, <1>3, <3>1
    <3>3. m * (g * h) = g * (m * h) /\ m * h \in Int
      BY ONLY m \in Nat, g \in Nat, h \in Nat
    <3>4. QED
      BY ONLY <3>2, <3>3
  <2>3. PICK c \in Int : c = e + d
    BY ONLY e \in Int, d \in Int
  <2>4. z = g * c + r
    <3>1. g * c = g * e + g * d
      BY <2>1, <2>2, <2>3
    <3>2. z = s + t
      BY <1>1
    <3>3. QED
      <4>1. PICK x \in Int, y \in Int : x = g * e /\ y = g * d
        BY ONLY g \in Nat, e \in Int, d \in Int
      <4>2. s = x /\ t = y + r /\ g * c = x + y
        BY ONLY <2>1, <2>2, <3>1, <4>1
      <4>3. QED
        BY ONLY <3>2, <4>2, x \in Int, y \in Int, r \in Nat
  <2>5. z % g = r
    <3>1. r < g
      BY <2>1
    <3>2. (g * c + r) % g = r
      BY ONLY <3>1, g \in Nat \ {0}, c \in Int, r \in Nat, Quotient
    <3>3. QED
      BY ONLY <2>4, <3>2
  <2>6. QED
    BY <2>1, <2>5
<1>11. LeftOver
  BY <1>2, <1>4, <1>9, <1>10 DEF LeftOver
<1>12. q = 0
  <2>1. SUFFICES ASSUME 0 < q PROVE FALSE
    BY <1>6
  <2>2. S * 0 + S <= S * q
    BY <1>2, <2>1, Apart
  <2>3. z >= S + f
    BY <1>5, <2>2
  <2>4. g <= M
    <3>1. h # 0
      BY <1>2, <1>3
    <3>2. g * 0 + g <= g * h
      BY <1>3, <3>1, Apart
    <3>3. QED
      BY <1>2, <1>3, <3>2
  <2>5. s + w > z - g
    BY <1>1, <1>4
  <2>6. M <= S
    BY <1>2
  <2>7. QED
    BY ONLY <1>8, <2>3, <2>4, <2>5, <2>6, M \in Nat, S \in Nat, g \in Nat, f \in Nat, z \in Nat,
            s \in Nat, w \in Nat
<1>13. QED
  BY <1>2, <1>5, <1>11, <1>12

LEMMA DecodeModuleStep == ASSUME Inv, DecodeModule PROVE Inv'
<1>1. CodecTypes /\ Cut /\ Copied /\ Opened
  BY DEF Inv, DecodeModule, Opened
<1>2. PICK at : \E k \in Nat, j \in Nat, p \in Nat, n \in Nat, b \in BitCounts :
                  ModuleInTurn(at, k, j, p, n, b)
  BY InTurn
<1>3. PICK k \in Nat, j \in Nat, p \in Nat, n \in Nat, b \in BitCounts :
        ModuleInTurn(at, k, j, p, n, b)
  BY <1>2
<1>4. /\ Layout(at) /\ j = k + 1 /\ j \in 1 .. Len(bits) /\ b = bits[j] /\ n = InModule(j)
      /\ Restoring(k) /\ Module = k /\ (k >= 1 => Len(Dst) < FullSize)
  BY ONLY <1>3 DEF ModuleInTurn
<1>5. /\ pc = "decode"
      /\ IF Reached(Dst') THEN pc' = "done" /\ tellg' = Left(b)
         ELSE pc' = "decode" /\ tellg' = Skipped(Left(b))
      /\ UNCHANGED <<format, size, left, ptr, sout, bits, FullSize, in>>
  BY <1>4 DEF DecodeModule, encoder
<1>6. /\ Dst' \in Seq(Int) /\ Len(Dst') = k * Share + Whole(n - format.blanks)
      /\ Restoring(j)'
  BY <1>3, RestoredInPlace
<1>7. Left(b) \in Nat
  <2>1. tellg <= Len(in)
    <3>1. tellg < Len(in)
      BY DEF DecodeModule, Begins
    <3>2. tellg \in Nat /\ Len(in) \in Nat
      BY <1>1 DEF CodecTypes, Copied
    <3>3. QED
      BY ONLY <3>1, <3>2
  <2>2. QED
    BY <1>1, <2>1, LeftFacts
<1>8. j < Len(bits) \/ j = Len(bits)
  BY <1>1, <1>4 DEF CodecTypes
<1>9. Skipped(Left(b)) \in Nat
  BY <1>3, <1>8, MovedToNext, MovedBehind
<1>10. CodecTypes'
  <2>1. tellg' \in Nat /\ pc' \in {"done", "decode"}
    BY <1>5, <1>7, <1>9
  <2>2. QED
    BY <1>1, <1>5, <1>6, <2>1 DEF CodecTypes
<1>11. Cut' /\ Copied' /\ Opened' /\ Unopened'
  BY <1>1, <1>5 DEF Cut, Copied, Complete, Opened, Unopened
<1>12. \A i : /\ Bytes(bits[i])' = Bytes(bits[i]) /\ InModule(i)' = InModule(i)
              /\ FullWord(bits[i])' = FullWord(bits[i])
              /\ \A q : EndsAt(i, q)' = EndsAt(i, q) /\ (InPlace(i, q) => InPlace(i, q)')
  BY <1>1, <1>5 DEF Bytes, FullWord, InModule, EndsAt, InPlace, Complete, Coded, ModuleByte, Opened
<1>13. Layout(at)'
  BY <1>4, <1>5, <1>12 DEF Layout
<1>14. Standing(j, at)'
  <2>1. CASE Reached(Dst')
    <3>1. pc' = "done" /\ Len(Dst') >= FullSize'
      BY <1>5, <2>1 DEF Reached
    <3>2. k >= 1 => k * Share < FullSize
      <4>1. Len(Dst) = k * Share
        BY <1>1, <1>4 DEF Restoring, Decoded, CodecTypes
      <4>2. QED
        BY <1>4, <4>1
    <3>3. j >= 1 /\ (j > 1 => k >= 1) /\ j - 1 = k
      BY <1>4
    <3>4. Share' = Share
      BY <1>5 DEF Share
    <3>5. QED
      BY <1>5, <3>1, <3>2, <3>3, <3>4 DEF Standing
  <2>2. CASE ~Reached(Dst')
    <3>1. pc' = "decode" /\ tellg' = Skipped(Left(b)) /\ ~(Len(Dst') >= FullSize)
      BY <1>5, <2>2 DEF Reached
    <3>2. Len(Dst') < FullSize
      <4>1. FullSize \in Nat
        <5>1. PICK z \in Nat : z = size
          BY <1>1, SizeFacts DEF CodecTypes
        <5>2. z % SizeLimit \in Nat
          BY SizeFacts, Division
        <5>3. QED
          BY <1>1, <5>1, <5>2 DEF Copied
      <4>2. Len(Dst') \in Nat
        BY <1>6
      <4>3. QED
        BY ONLY <3>1, <4>1, <4>2
    <3>3. \A q : Begins(q)' <=> Begins(q)
      BY <1>5 DEF Begins
    <3>4. CASE j < Len(bits)
      <4>1. \/ Skipped(Left(b)) = at[j + 1]
            \/ format.early /\ FullWord(b) /\ ~Begins(Skipped(Left(b)))
        BY <1>3, <3>4, MovedToNext
      <4>2. CASE Skipped(Left(b)) = at[j + 1]
        BY <1>4, <1>5, <3>1, <3>2, <3>4, <4>2 DEF Standing
      <4>3. CASE format.early /\ FullWord(b) /\ ~Begins(Skipped(Left(b)))
        <5>1. ~Begins(tellg)'
          BY <1>5, <3>1, <4>3 DEF Begins
        <5>2. FullWord(bits[j])'
          BY <1>4, <1>12, <4>3
        <5>3. Astray(j)'
          BY <1>4, <1>5, <3>4, <4>3, <5>1, <5>2 DEF Astray
        <5>4. QED
          BY <1>5, <3>1, <3>2, <5>3 DEF Standing
      <4>4. QED
        BY <4>1, <4>2, <4>3
    <3>5. CASE j = Len(bits)
      <4>1. /\ ~Begins(Skipped(Left(b)))
            /\ Skipped(Left(b)) >= Len(sout) \/ (format.early /\ FullWord(b))
        BY <1>3, <3>5, MovedBehind
      <4>2. (LeftOver /\ size < SizeLimit) \/ format.blanks # 0
        <5>1. n = left /\ k = Len(bits) - 1
          BY <1>1, <1>4, <3>5 DEF InModule, Complete, Opened, CodecTypes
        <5>2. PICK s \in Nat, w \in Nat : s = k * Share /\ w = Whole(left - format.blanks)
          <6>1. format \in Formats /\ left \in Nat /\ left <= ModuleSize /\ left >= format.blanks
            BY <1>1 DEF CodecTypes, Cut, Opened, Complete
          <6>2. PICK c \in Nat : c = left - format.blanks /\ c <= Share
            BY <6>1, FormatFacts, SizeFacts DEF Share
          <6>3. k * Share \in Nat
            BY <6>1, ShareFacts
          <6>4. QED
            BY <6>1, <6>2, <6>3, WholePart
        <5>3. s + w < FullSize /\ s = (Len(bits) - 1) * Share
          BY <1>6, <3>2, <5>1, <5>2
        <5>4. QED
          BY <1>1, <5>2, <5>3, NotReached
      <4>3. ~Begins(tellg)' /\ (FullWord(b) => FullWord(bits[j])')
        BY <1>4, <1>5, <1>12, <3>1, <4>1 DEF Begins
      <4>4. ((LeftOver /\ size < SizeLimit) \/ format.blanks # 0)'
        BY <1>5, <4>2 DEF LeftOver
      <4>5. Astray(j)'
        BY <1>4, <1>5, <3>1, <3>5, <4>1, <4>3, <4>4 DEF Astray
      <4>6. QED
        BY <1>5, <3>1, <3>2, <4>5 DEF Standing
    <3>6. QED
      BY <1>8, <3>4, <3>5
  <2>3. QED
    BY <2>1, <2>2
<1>15. Decoding(at)'
  <2>1. j \in 0 .. Len(bits')
    BY <1>1, <1>4, <1>5 DEF CodecTypes
  <2>2. QED
    BY <1>6, <1>14, <2>1 DEF Decoding
<1>16. QED
  BY <1>10, <1>11, <1>13, <1>15 DEF Inv

(* decode is called where no module begins only if Src has gone astray.    *)
LEMMA DecodeNoModuleStep == ASSUME Inv, DecodeNoModule PROVE Inv'
<1>1. CodecTypes /\ Cut /\ Copied /\ Opened
  BY DEF Inv, DecodeNoModule, Opened
<1>2. PICK at : Layout(at) /\ Decoding(at)
  BY DEF Inv
<1>3. PICK k \in 0 .. Len(bits) : Restoring(k) /\ Standing(k, at)
  BY <1>1, <1>2 DEF Decoding
<1>4. /\ pc = "decode" /\ pc' = "lost" /\ ~Begins(tellg)
      /\ UNCHANGED <<format, size, left, ptr, sout, bits, FullSize, in, tellg, Dst>>
  BY DEF DecodeNoModule, encoder
<1>5. ASSUME k < Len(bits), tellg = at[k + 1] PROVE FALSE
  <2>1. PICK j \in 1 .. Len(bits) : j = k + 1
    BY <1>1, <1>5 DEF CodecTypes
  <2>2. /\ at[j] \in Nat /\ at[j + 1] \in Nat /\ Bytes(bits[j]) \in Nat /\ Bytes(bits[j]) >= 2
        /\ at[j] + Bytes(bits[j]) <= at[j + 1] /\ at[j + 1] <= Len(sout)
        /\ \A i \in 1 .. Bytes(bits[j]) :
             in[at[j] + i] = Coded((j - 1) * ModuleSize, InModule(j), i)
    BY ONLY <1>1, <1>2, j \in 1 .. Len(bits), Located
  <2>3. 1 \in 1 .. Bytes(bits[j])
    BY <2>2
  <2>4. in[at[j] + 1].at = 1
    <3>1. in[at[j] + 1] = Coded((j - 1) * ModuleSize, InModule(j), 1)
      BY ONLY <2>2, <2>3
    <3>2. QED
      BY ONLY <3>1 DEF Coded, ModuleByte
  <2>5. Len(sout) \in Nat /\ Len(in) \in Nat /\ Len(sout) <= Len(in)
    BY <1>1 DEF CodecTypes, Copied
  <2>6. at[j] < Len(in)
    BY ONLY <2>2, <2>5
  <2>7. QED
    BY <1>4, <1>5, <2>1, <2>4, <2>6 DEF Begins
<1>6. Astray(k) /\ (k >= 1 => Len(Dst) < FullSize)
  BY <1>3, <1>4, <1>5 DEF Standing
<1>7. CodecTypes' /\ Cut' /\ Copied' /\ Opened' /\ Unopened'
  BY <1>1, <1>4 DEF CodecTypes, Cut, Copied, Complete, Opened, Unopened
<1>8. \A i : /\ Bytes(bits[i])' = Bytes(bits[i]) /\ InModule(i)' = InModule(i)
             /\ FullWord(bits[i])' = FullWord(bits[i])
             /\ \A q : EndsAt(i, q)' = EndsAt(i, q) /\ (InPlace(i, q) => InPlace(i, q)')
  BY <1>1, <1>4 DEF Bytes, FullWord, InModule, EndsAt, InPlace, Complete, Coded, ModuleByte, Opened
<1>9. Layout(at)'
  BY <1>2, <1>4, <1>8 DEF Layout
<1>10. Restoring(k)'
  <2>1. Decoded(k)' = Decoded(k) /\ \A i : Relied(i)' <=> Relied(i)
    BY <1>4 DEF Decoded, Whole, Share, Relied
  <2>2. QED
    BY <1>3, <1>4, <2>1 DEF Restoring
<1>11. Standing(k, at)'
  <2>1. Astray(k)'
    <3>1. ~Begins(tellg)' /\ LeftOver' = LeftOver
      BY <1>4 DEF Begins, LeftOver
    <3>2. QED
      BY <1>4, <1>6, <1>8, <3>1 DEF Astray
  <2>2. QED
    BY <1>4, <1>6, <2>1 DEF Standing
<1>12. Decoding(at)'
  BY <1>4, <1>10, <1>11 DEF Decoding
<1>13. QED
  BY <1>7, <1>9, <1>12 DEF Inv

LEMMA IdleStep == ASSUME Inv, UNCHANGED vars PROVE Inv'
<1>1. CodecTypes' /\ Cut' /\ Copied' /\ Unopened'
  BY DEF Inv, vars, CodecTypes, Cut, Copied, Complete, Opened, Unopened
<1>2. PICK at : Layout(at) /\ Decoding(at)
  BY DEF Inv
<1>3. \A i : /\ Bytes(bits[i])' = Bytes(bits[i]) /\ InModule(i)' = InModule(i)
             /\ FullWord(bits[i])' = FullWord(bits[i])
             /\ \A q : EndsAt(i, q)' = EndsAt(i, q) /\ (InPlace(i, q) => InPlace(i, q)')
  BY DEF vars, Bytes, FullWord, InModule, EndsAt, InPlace, Complete, Coded, ModuleByte, Opened
<1>4. Layout(at)'
  BY <1>2, <1>3 DEF vars, Layout
<1>5. Decoding(at)'
  <2>1. (\A k : Decoded(k)' = Decoded(k)) /\ \A i : Relied(i)' <=> Relied(i)
    BY DEF vars, Decoded, Whole, Share, Relied
  <2>2. \A k : Restoring(k) => Restoring(k)'
    BY <2>1 DEF vars, Restoring
  <2>3. \A k : Astray(k) => Astray(k)'
    <3>1. Begins(tellg)' = Begins(tellg) /\ LeftOver' = LeftOver
      BY DEF vars, Begins, LeftOver
    <3>2. QED
      BY <1>3, <3>1 DEF vars, Astray
  <2>4. \A k : Standing(k, at) => Standing(k, at)'
    BY <2>3 DEF vars, Standing, Share
  <2>5. QED
    BY <1>2, <2>2, <2>4 DEF vars, Decoding, Opened
<1>6. QED
  BY <1>1, <1>4, <1>5 DEF Inv

LEMMA NextInv == ASSUME Inv, [Next]_vars PROVE Inv'
<1>1. CASE EncodeModule
  BY <1>1, EncodeModuleStep
<1>2. CASE EncodeLast
  BY <1>2, EncodeLastStep
<1>3. CASE ReadModules
  BY <1>3, ReadModulesStep
<1>4. CASE DecodeModule
  BY <1>4, DecodeModuleStep
<1>5. CASE DecodeNoModule
  BY <1>5, DecodeNoModuleStep
<1>6. CASE UNCHANGED vars
  BY <1>6, IdleStep
<1>7. QED
  BY <1>1, <1>2, <1>3, <1>4, <1>5, <1>6 DEF Next

-----------------------------------------------------------------------------
(* The modules have their places in what is written, and decoding stands   *)
(* at one of them, or astray for a reason that is known.                   *)
THEOREM LayoutInvariant == Spec => []Inv
<1>1. Init => Inv
  BY InitInv
<1>2. Inv /\ [Next]_vars => Inv'
  BY NextInv
<1>3. QED
  BY <1>1, <1>2, PTL DEF Spec

(* moduled_decode finds every module in its place.  A format that gives a  *)
(* module back wherever Dst stands gets the file so, all of it if its size *)
(* fits the word, and nothing but what completes the last module behind    *)
(* it; Saxman is only said to get its first module, Rocket and SNK run     *)
(* lengths nothing; but none ends before the size is reached.              *)
THEOREM FileIsDecoded == Spec => []DecodesToFile
<1>1. Inv => DecodesToFile
  <2> SUFFICES ASSUME Inv PROVE DecodesToFile
    OBVIOUS
  <2>1. CodecTypes /\ Copied /\ Unopened
    BY DEF Inv
  <2>2. CASE ~Opened
    BY <2>1, <2>2 DEF Unopened, Opened, DecodesToFile
  <2>3. CASE Opened
    <3>1. PICK at : Decoding(at)
      BY DEF Inv
    <3>2. PICK k \in 0 .. Len(bits) : Restoring(k) /\ Standing(k, at)
      BY <2>3, <3>1 DEF Decoding
    <3>3. \A i \in DOMAIN Dst : Relied(i) => Dst[i] = IF i <= size THEN i ELSE 0
      BY <2>1, <3>2 DEF CodecTypes, Restoring
    <3>4. ASSUME pc = "done", size < SizeLimit PROVE Len(Dst) >= size
      <4>1. Len(Dst) >= FullSize
        BY <3>2, <3>4 DEF Standing
      <4>2. size % SizeLimit = size
        <5>1. PICK z \in Nat, m \in Nat \ {0} : z = size /\ m = SizeLimit /\ z < m
          BY <2>1, <3>4, SizeFacts DEF CodecTypes
        <5>2. (m * 0 + z) % m = z
          BY <5>1, Quotient
        <5>3. m * 0 + z = z
          OBVIOUS
        <5>4. QED
          BY ONLY <5>1, <5>2, <5>3
      <4>3. QED
        BY <2>1, <2>3, <4>1, <4>2 DEF Copied
    <3>5. QED
      BY <3>3, <3>4 DEF DecodesToFile
  <2>4. QED
    BY <2>2, <2>3
<1>2. QED
  BY <1>1, LayoutInvariant, PTL

(* The loop ends with the first module at which the size is reached.       *)
THEOREM EndsInTime == Spec => []StopsAtWrittenSize
<1>1. Inv => StopsAtWrittenSize
  <2> SUFFICES ASSUME Inv, pc = "done" PROVE StopsAtWrittenSize
    BY DEF StopsAtWrittenSize
  <2>1. CodecTypes /\ Cut /\ Copied /\ Opened
    BY DEF Inv, Opened
  <2>2. PICK at : Decoding(at)
    BY DEF Inv
  <2>3. PICK k \in 0 .. Len(bits) : Restoring(k) /\ Standing(k, at)
    BY <2>1, <2>2 DEF Decoding
  <2>4. k >= 1 /\ Len(Dst) >= FullSize /\ (k > 1 => (k - 1) * Share < FullSize)
    BY <2>3 DEF Standing
  <2>0. PICK S \in Nat \ {0}, e \in Nat :
        S = Share /\ e = format.blanks /\ ModuleSize = S + e /\ Whole(S) = S /\ left >= e
    <3>1. format \in Formats /\ left >= format.blanks
      BY <2>1 DEF CodecTypes, Cut, Complete, Opened
    <3>2. QED
      BY <3>1, FormatFacts, ShareFacts, WholeShare
  <2>5. PICK N \in Nat, t \in Nat, z \in Nat, M \in Nat \ {0} :
          /\ N = Len(bits) /\ t = left /\ z = size /\ M = ModuleSize
          /\ z = (N - 1) * M + t /\ t <= M /\ t >= e /\ M = S + e /\ N # 0 /\ k <= N
    <3>1. Len(bits) \in Nat /\ left \in Nat /\ size \in Nat /\ ModuleSize \in Nat \ {0}
      BY <2>1, SizeFacts DEF CodecTypes
    <3>2. size = (Len(bits) - 1) * ModuleSize + left /\ left <= ModuleSize /\ Len(bits) # 0
      BY <2>1 DEF CodecTypes, Cut, Complete, Opened
    <3>3. PICK N \in Nat, t \in Nat, z \in Nat, M \in Nat \ {0} :
            /\ N = Len(bits) /\ t = left /\ z = size /\ M = ModuleSize
            /\ z = (N - 1) * M + t /\ t <= M /\ N # 0 /\ k <= N
      BY ONLY <3>1, <3>2, k \in 0 .. Len(bits)
    <3>4. t >= e /\ M = S + e
      BY ONLY <2>0, <3>3
    <3>5. QED
      BY ONLY <3>3, <3>4
  <2>6. PICK m \in Nat :
          /\ m = Min({size, ModuleSize}) - e /\ m <= S
          /\ (N > 1 => m = S) /\ (N = 1 => m = t - e)
    <3>1. N > 1 => z >= M
      <4>1. SUFFICES ASSUME N > 1 PROVE z >= M
        OBVIOUS
      <4>2. M * 0 + M <= M * (N - 1)
        BY <4>1, Apart
      <4>3. PICK y \in Nat : y = M * (N - 1) /\ z = y + t
        BY ONLY <2>5, <4>1, M \in Nat, N \in Nat
      <4>4. QED
        BY ONLY <4>2, <4>3, M \in Nat, y \in Nat, t \in Nat
    <3>2. N = 1 => z = t
      BY <2>5
    <3>3. PICK x \in Nat : x \in {z, M} /\ x <= z /\ x <= M
      <4>1. CASE z <= M
        BY <4>1
      <4>2. CASE ~(z <= M)
        BY <4>2
      <4>3. QED
        BY <4>1, <4>2
    <3>4. Min({z, M}) = x
      BY ONLY <3>3, z \in Nat, M \in Nat, x \in Nat DEF Min
    <3>5. (N > 1 => x = M) /\ (N = 1 => x = t)
      BY ONLY <3>1, <3>2, <3>3, <2>5, z \in Nat, M \in Nat, x \in Nat, t \in Nat
    <3>6. N > 1 \/ N = 1
      BY <2>5
    <3>7. PICK m \in Nat : m = x - e /\ m <= S /\ (N > 1 => m = S) /\ (N = 1 => m = t - e)
      BY ONLY <2>5, <3>5, <3>6, x \in Nat, e \in Nat, S \in Nat, t \in Nat, M \in Nat
    <3>8. QED
      BY <2>5, <3>4, <3>7
  <2>7. PICK v \in Nat :
          v = Len(Restored(ModuleByte(0, Min({size, ModuleSize}) - format.blanks, 1))) /\ v = Whole(m)
    <3>1. format \in Formats /\ m <= Share
      BY <2>0, <2>1, <2>5, <2>6 DEF CodecTypes
    <3>2. PICK x : x = ModuleByte(0, m, 1)
      OBVIOUS
    <3>3. x.n = m /\ x.first = 0
      BY <3>2 DEF Coded, ModuleByte
    <3>4. Len(Restored(x)) = Whole(m)
      BY <3>1, <3>3, RestoredFacts
    <3>5. Whole(m) \in Nat
      BY <3>1, WholePart
    <3>6. QED
      BY <2>0, <2>6, <3>2, <3>4, <3>5
  <2>8. PICK s \in Nat, u \in Nat : s = (k - 1) * S /\ Len(Dst) = s + u /\ u <= v /\ (N = 1 => u = v)
    <3>1. (k - 1) * S \in Nat /\ k * S = (k - 1) * S + S
      <4>1. PICK d \in Nat : k = d + 1
        BY <2>4, k - 1 \in Nat
      <4>2. QED
        BY <4>1
    <3>2. CASE k < N
      <4>1. Len(Dst) = k * S
        BY <2>0, <2>3, <2>5, <3>2 DEF Restoring, Decoded
      <4>2. N > 1
        BY ONLY <2>4, <3>2, N \in Nat, k \in 0 .. Len(bits)
      <4>3. v = S
        BY <2>0, <2>1, <2>5, <2>6, <2>7, <4>2, WholeShare DEF CodecTypes
      <4>4. PICK s \in Nat : s = (k - 1) * S
        BY <3>1
      <4>5. Len(Dst) = s + S
        BY ONLY <3>1, <4>1, <4>4
      <4>6. QED
        BY ONLY <4>2, <4>3, <4>4, <4>5, S \in Nat, s \in Nat, N \in Nat
    <3>3. CASE k = N
      <4>1. Len(Dst) = (k - 1) * S + Whole(t - e)
        BY <2>0, <2>3, <2>5, <3>3 DEF Restoring, Decoded
      <4>2. Whole(t - e) \in Nat /\ Whole(t - e) <= S
        <5>1. PICK c \in Nat : c = t - e /\ c <= Share
          BY <2>0, <2>5
        <5>2. QED
          BY <2>0, <2>1, <5>1, WholePart DEF CodecTypes
      <4>3. (N > 1 => v = S) /\ (N = 1 => v = Whole(t - e))
        BY <2>0, <2>1, <2>5, <2>6, <2>7, WholeShare DEF CodecTypes
      <4>4. N > 1 \/ N = 1
        BY <2>5
      <4>5. PICK s \in Nat, u \in Nat : s = (k - 1) * S /\ u = Whole(t - e)
        BY ONLY <3>1, <4>2
      <4>6. u <= v /\ (N = 1 => u = v)
        BY ONLY <4>2, <4>3, <4>4, <4>5, u \in Nat
      <4>7. Len(Dst) = s + u
        BY ONLY <4>1, <4>5
      <4>8. QED
        BY ONLY <4>5, <4>6, <4>7, s \in Nat, u \in Nat
    <3>4. k < N \/ k = N
      BY ONLY <2>5, N \in Nat, k \in 0 .. Len(bits)
    <3>5. QED
      BY ONLY <3>2, <3>3, <3>4
  <2>9. k = 1 => s = 0
    BY <2>5, <2>8
  <2>10. Len(Dst) - v > 0 => Len(Dst) - v < FullSize
    <3>1. FullSize \in Nat
      <4>1. size % SizeLimit \in Nat
        BY ONLY <2>5, z \in Nat, SizeFacts, Division
      <4>2. QED
        BY <2>1, <4>1 DEF Copied
    <3>2. k > 1 => s < FullSize
      BY <2>0, <2>4, <2>5, <2>8
    <3>3. k = 1 \/ k > 1
      BY <2>4
    <3>4. QED
      BY ONLY <2>8, <2>9, <3>1, <3>2, <3>3, s \in Nat, u \in Nat, v \in Nat
  <2>11. QED
    BY <2>4, <2>7, <2>10 DEF StopsAtWrittenSize
<1>2. QED
  BY <1>1, LayoutInvariant, PTL

(* Src goes astray for three reasons only: an early reader, a last module  *)
(* that drops bytes, and, with blanks, bytes that every module lacks.      *)
THEOREM PlaceIsKept == Spec => []KeepsItsPlace
<1>1. Inv => KeepsItsPlace
  <2> SUFFICES ASSUME Inv, pc = "lost" PROVE KeepsItsPlace
    BY DEF KeepsItsPlace
  <2>1. CodecTypes /\ Opened
    BY DEF Inv, Opened
  <2>2. PICK at : Decoding(at)
    BY DEF Inv
  <2>3. PICK k \in 0 .. Len(bits) : Astray(k)
    BY <2>1, <2>2 DEF Decoding, Standing
  <2>4. k < Len(bits) => k \in 1 .. Len(bits) - 1
    BY <2>1, <2>3 DEF CodecTypes, Astray
  <2>5. k = Len(bits) => bits[k] = Last(bits)
    BY DEF Last
  <2>6. QED
    BY <2>3, <2>4, <2>5 DEF Astray, KeepsItsPlace
<1>2. QED
  BY <1>1, LayoutInvariant, PTL
=============================================================================
