---------------------------- MODULE EnigmaProofs ----------------------------
(***************************************************************************)
(* Proofs about Enigma for every file, every division of a word into flags *)
(* and bits and every size of its counts, over bit streams of any words:   *)
(* the streams are used as StreamSpec says, the decoder gives back the     *)
(* file, and it stops by the terminator.                                   *)
(***************************************************************************)
EXTENDS Enigma, BitStreamProofs

-----------------------------------------------------------------------------
(* FlattenSeq, by the recursive function it is defined with: one for every *)
(* sequence of sequences, and no second.                                   *)
Flattening(s, g) ==
  g = [i \in 1 .. Len(s) |-> IF i = 1 THEN s[i] ELSE g[i - 1] \o s[i]]

LEMMA FlatteningsAgree ==
  ASSUME NEW s, Len(s) \in Nat, NEW g, Flattening(s, g),
         NEW t, Len(t) \in Nat, NEW h, Flattening(t, h),
         NEW n \in Nat, n <= Len(s), n <= Len(t), \A i \in 1 .. n : s[i] = t[i]
  PROVE  \A i \in 1 .. n : g[i] = h[i]
<1> DEFINE P == {k \in Nat : k \in 1 .. n => g[k] = h[k]}
<1>0. Len(s) \in Nat /\ Len(t) \in Nat
  OBVIOUS
<1>1. \A i \in 1 .. Len(s) : g[i] = IF i = 1 THEN s[i] ELSE g[i - 1] \o s[i]
  BY DEF Flattening
<1>2. \A i \in 1 .. Len(t) : h[i] = IF i = 1 THEN t[i] ELSE h[i - 1] \o t[i]
  BY DEF Flattening
<1>3. 0 \in P
  OBVIOUS
<1>4. ASSUME NEW k \in P PROVE k + 1 \in P
  <2>1. SUFFICES ASSUME k + 1 \in 1 .. n PROVE g[k + 1] = h[k + 1]
    OBVIOUS
  <2>2. k + 1 \in 1 .. Len(s) /\ k + 1 \in 1 .. Len(t) /\ s[k + 1] = t[k + 1] /\ k \in Nat
    BY <2>1, <1>0
  <2>3. (k + 1) - 1 = k
    BY <2>2
  <2>4. g[k + 1] = IF k + 1 = 1 THEN s[k + 1] ELSE g[k] \o s[k + 1]
    BY <1>1, <2>2, <2>3
  <2>5. h[k + 1] = IF k + 1 = 1 THEN t[k + 1] ELSE h[k] \o t[k + 1]
    BY <1>2, <2>2, <2>3
  <2>6. k + 1 # 1 => g[k] = h[k]
    BY <2>1, <2>2
  <2>7. QED
    BY <2>2, <2>4, <2>5, <2>6
<1>5. Nat \subseteq P
  <2> HIDE DEF P
  <2>1. P \in SUBSET Nat
    BY DEF P
  <2>2. QED
    BY <1>3, <1>4, <2>1, Induction
<1>6. QED
  BY <1>5

(* What a longer one begins with.                                          *)
LEMMA FlatteningGoesOn ==
  ASSUME NEW s, Len(s) \in Nat, NEW g, Flattening(s, g),
         NEW t, Len(t) \in Nat, NEW h, Flattening(t, h),
         Len(s) <= Len(t), \A i \in 1 .. Len(s) : s[i] = t[i], Len(s) # 0
  PROVE  g[Len(s)] = h[Len(s)]
<1>1. \A i \in 1 .. Len(s) : g[i] = h[i]
  BY FlatteningsAgree
<1>2. QED
  BY <1>1

(* There is one.                                                           *)
LEMMA FlatteningsExist ==
  ASSUME NEW E, NEW s \in Seq(Seq(E))
  PROVE  \E g \in [1 .. Len(s) -> Seq(E)] : Flattening(s, g)
<1> DEFINE Upto(k, g) ==
             /\ g \in [1 .. k -> Seq(E)]
             /\ \A i \in 1 .. k : g[i] = IF i = 1 THEN s[i] ELSE g[i - 1] \o s[i]
           P == {k \in Nat : k <= Len(s) => \E g : Upto(k, g)}
<1>0. Len(s) \in Nat /\ \A i \in 1 .. Len(s) : s[i] \in Seq(E)
  OBVIOUS
<1>1. 0 \in P
  <2> DEFINE none == [i \in 1 .. 0 |-> <<>>]
  <2>1. 1 .. 0 = {}
    OBVIOUS
  <2>2. none \in [1 .. 0 -> Seq(E)]
    BY <2>1
  <2>3. Upto(0, none)
    <3> HIDE DEF none
    <3>1. QED
      BY <2>1, <2>2
  <2>4. \E g : Upto(0, g)
    <3> HIDE DEF none, Upto
    <3>1. QED
      BY <2>3
  <2>5. QED
    <3> HIDE DEF Upto
    <3>1. 0 \in Nat
      OBVIOUS
    <3>2. QED
      BY <2>4, <3>1
<1>2. ASSUME NEW k \in P PROVE k + 1 \in P
  <2> HIDE DEF Upto
  <2>1. SUFFICES ASSUME k + 1 <= Len(s) PROVE \E g : Upto(k + 1, g)
    OBVIOUS
  <2>2. k \in Nat /\ k <= Len(s) /\ k + 1 \in 1 .. Len(s)
    BY <2>1, <1>0
  <2>3. PICK g : Upto(k, g)
    BY <2>2
  <2> USE DEF Upto
  <2> DEFINE x == IF k + 1 = 1 THEN s[k + 1] ELSE g[k] \o s[k + 1]
             h == [i \in 1 .. k + 1 |-> IF i = k + 1 THEN x ELSE g[i]]
  <2>4. x \in Seq(E)
    <3>1. CASE k + 1 = 1
      BY <3>1, <2>2, <1>0
    <3>2. CASE k + 1 # 1
      <4>1. k \in 1 .. k
        BY <2>2, <3>2
      <4>2. g[k] \in Seq(E) /\ s[k + 1] \in Seq(E)
        BY <4>1, <2>2, <2>3, <1>0
      <4>3. QED
        BY <3>2, <4>2
    <3>3. QED
      BY <3>1, <3>2
  <2>5. h \in [1 .. k + 1 -> Seq(E)]
    <3>1. ASSUME NEW i \in 1 .. k + 1, i # k + 1 PROVE g[i] \in Seq(E)
      <4>1. i \in 1 .. k
        BY <2>2, <3>1
      <4>2. QED
        BY <4>1, <2>3
    <3> HIDE DEF x
    <3>2. QED
      BY <2>4, <3>1
  <2>6. ASSUME NEW i \in 1 .. k + 1
        PROVE  h[i] = IF i = 1 THEN s[i] ELSE h[i - 1] \o s[i]
    <3>1. CASE i = k + 1
      <4>1. i - 1 = k /\ h[i] = x
        BY <2>2, <3>1
      <4>2. i # 1 => h[k] = g[k]
        BY <2>2, <3>1
      <4>3. QED
        BY <4>1, <4>2, <3>1
    <3>2. CASE i # k + 1
      <4>1. i \in 1 .. k /\ h[i] = g[i]
        BY <2>2, <3>2
      <4>2. i # 1 => h[i - 1] = g[i - 1]
        <5>1. ASSUME i # 1 PROVE i - 1 \in 1 .. k + 1 /\ i - 1 # k + 1
          BY <2>2, <3>2, <5>1
        <5> HIDE DEF x
        <5>2. QED
          BY <5>1
      <4>3. QED
        BY <4>1, <4>2, <2>3
    <3>3. QED
      BY <3>1, <3>2
  <2>7. Upto(k + 1, h)
    <3> HIDE DEF h
    <3>1. QED
      BY <2>5, <2>6
  <2>8. QED
    <3> HIDE DEF h, Upto
    <3>1. QED
      BY <2>7
<1>3. Nat \subseteq P
  <2> HIDE DEF P
  <2>1. P \in SUBSET Nat
    BY DEF P
  <2>2. QED
    BY <1>1, <1>2, <2>1, Induction
<1>4. PICK g : Upto(Len(s), g)
  <2> HIDE DEF Upto
  <2>1. QED
    BY <1>0, <1>3
<1>5. Flattening(s, g)
  <2> DEFINE f == [i \in 1 .. Len(s) |-> IF i = 1 THEN s[i] ELSE g[i - 1] \o s[i]]
  <2>1. \A i \in 1 .. Len(s) : g[i] = f[i]
    BY <1>4
  <2>2. g = f
    BY <1>4, <2>1
  <2>3. QED
    BY <2>2 DEF Flattening
<1>6. QED
  BY <1>4, <1>5

LEMMA FlattenedBy ==
  ASSUME NEW E, NEW s \in Seq(Seq(E)), Len(s) # 0
  PROVE  \E g \in [1 .. Len(s) -> Seq(E)] : Flattening(s, g) /\ FlattenSeq(s) = g[Len(s)]
<1> DEFINE f == CHOOSE g : Flattening(s, g)
<1>1. FlattenSeq(s) = f[Len(s)]
  BY DEF FlattenSeq, Flattening
<1>2. PICK h \in [1 .. Len(s) -> Seq(E)] : Flattening(s, h)
  BY FlatteningsExist
<1>3. Flattening(s, f)
  BY <1>2
<1> HIDE DEF f
<1>4. \A i \in 1 .. Len(s) : f[i] = h[i]
  <2>1. Len(s) \in Nat /\ Len(s) <= Len(s)
    OBVIOUS
  <2>2. QED
    BY <1>2, <1>3, <2>1, FlatteningsAgree
<1>5. Len(s) \in 1 .. Len(s)
  BY Len(s) \in Nat
<1>6. QED
  BY <1>1, <1>2, <1>4, <1>5

(* One sequence behind the other.                                          *)
Cat(s, t) == s \o t

(* FlattenSeq joins them, one after the other.                             *)
LEMMA FlattenNone == FlattenSeq(<<>>) = <<>>
BY DEF FlattenSeq

LEMMA FlattenOne ==
  ASSUME NEW E, NEW s \in Seq(Seq(E)), NEW x \in Seq(E)
  PROVE  FlattenSeq(s) \in Seq(E) /\ FlattenSeq(Append(s, x)) = Cat(FlattenSeq(s), x)
<1>0. PICK t : t = Append(s, x)
  OBVIOUS
<1>1. /\ t \in Seq(Seq(E)) /\ Len(t) = Len(s) + 1 /\ t[Len(t)] = x /\ Len(s) \in Nat
      /\ \A i \in 1 .. Len(s) : t[i] = s[i]
  BY <1>0, Appended
<1>2. PICK h \in [1 .. Len(t) -> Seq(E)] : Flattening(t, h) /\ FlattenSeq(t) = h[Len(t)]
  BY <1>1, FlattenedBy
<1>3. \A i \in 1 .. Len(t) : h[i] = IF i = 1 THEN t[i] ELSE h[i - 1] \o t[i]
  BY <1>2 DEF Flattening
<1>4. h[Len(t)] = IF Len(t) = 1 THEN x ELSE h[Len(s)] \o x
  <2>1. Len(t) \in 1 .. Len(t) /\ Len(t) - 1 = Len(s)
    BY <1>1
  <2>2. h[Len(t)] = IF Len(t) = 1 THEN t[Len(t)] ELSE h[Len(t) - 1] \o t[Len(t)]
    BY <1>3, <2>1
  <2>3. QED
    BY <1>1, <2>1, <2>2
<1>5. CASE Len(s) = 0
  <2>1. s = <<>> /\ FlattenSeq(s) = <<>>
    BY <1>5, FlattenNone
  <2>2. FlattenSeq(t) = x
    BY <1>1, <1>2, <1>4, <1>5
  <2>3. <<>> \o x = x /\ <<>> \in Seq(E)
    OBVIOUS
  <2>4. QED
    BY <2>1, <2>2, <2>3, <1>0 DEF Cat
<1>6. CASE Len(s) # 0
  <2>1. PICK g \in [1 .. Len(s) -> Seq(E)] : Flattening(s, g) /\ FlattenSeq(s) = g[Len(s)]
    BY <1>6, FlattenedBy
  <2>2. g[Len(s)] \in Seq(E)
    BY <1>1, <1>6
  <2>3. Flattening(s, g) /\ Flattening(t, h) /\ Len(s) \in Nat /\ Len(t) \in Nat /\ Len(s) <= Len(t)
    BY <1>1, <1>2, <2>1
  <2>4. g[Len(s)] = h[Len(s)]
    BY <2>3, <1>1, <1>6, FlatteningGoesOn
  <2>5. h[Len(t)] = h[Len(s)] \o x
    BY <1>1, <1>4, <1>6
  <2>6. QED
    BY <1>2, <2>1, <2>2, <2>4, <2>5, <1>0 DEF Cat
<1>7. QED
  BY <1>5, <1>6

-----------------------------------------------------------------------------
(* The calls a codec makes, and the bits they write.                       *)
CallSet ==
  {c \in [call : {"push", "write"}, val : Nat, size : 1 .. W] :
     c.val < Pow(c.size) /\ (c.call = "push" => c.size = 1)}

CallBits(c) == BitsOf(c.val, c.size)
Bits(t) == FlattenSeq([k \in DOMAIN t |-> CallBits(t[k])])

LEMMA SameSequence ==
  ASSUME NEW S, NEW s \in Seq(S), NEW t \in Seq(S), Len(s) = Len(t),
         \A i \in 1 .. Len(s) : s[i] = t[i]
  PROVE  s = t
OBVIOUS

(* The bits of a call.                                                     *)
LEMMA CallBitsAre ==
  ASSUME NEW c \in CallSet
  PROVE  CallBits(c) \in Seq(0 .. 1) /\ Len(CallBits(c)) = c.size
<1>1. c.val \in Nat /\ c.size \in Nat
  BY WidthAssumption DEF CallSet
<1>2. QED
  BY <1>1, BitsAre DEF CallBits

(* No calls, no bits.                                                      *)
LEMMA BitsNone == Bits(<<>>) = <<>>
<1>1. [k \in DOMAIN <<>> |-> CallBits(<<>>[k])] = <<>>
  OBVIOUS
<1>2. QED
  BY <1>1, FlattenNone DEF Bits

(* A call more.                                                            *)
LEMMA BitsAppended ==
  ASSUME NEW t \in Seq(CallSet), NEW c \in CallSet
  PROVE  Bits(t) \in Seq(0 .. 1) /\ Bits(Append(t, c)) = Cat(Bits(t), CallBits(c))
<1> DEFINE s == [k \in DOMAIN t |-> CallBits(t[k])]
           u == [k \in DOMAIN Append(t, c) |-> CallBits(Append(t, c)[k])]
<1>1. \A k \in 1 .. Len(t) : t[k] \in CallSet
  OBVIOUS
<1>2. \A k \in 1 .. Len(t) : CallBits(t[k]) \in Seq(0 .. 1)
  BY <1>1, CallBitsAre
<1>3. s \in Seq(Seq(0 .. 1)) /\ Len(s) = Len(t) /\ Len(t) \in Nat
  BY <1>2
<1>4. CallBits(c) \in Seq(0 .. 1)
  BY CallBitsAre
<1>5. u = Append(s, CallBits(c))
  <2>1. DOMAIN Append(t, c) = 1 .. Len(t) + 1 /\ DOMAIN t = 1 .. Len(t)
    BY Appended
  <2>2. \A k \in 1 .. Len(t) : u[k] = s[k]
    BY <2>1, Appended
  <2>3. u[Len(t) + 1] = CallBits(c)
    BY <2>1, Appended
  <2>4. u \in Seq(Seq(0 .. 1)) /\ Len(u) = Len(t) + 1
    <3>1. \A k \in 1 .. Len(t) + 1 : u[k] \in Seq(0 .. 1)
      <4>1. \A k \in 1 .. Len(t) : s[k] \in Seq(0 .. 1)
        BY <1>2
      <4>2. \A k \in 1 .. Len(t) + 1 : k \in 1 .. Len(t) \/ k = Len(t) + 1
        BY <1>3
      <4> HIDE DEF u, s
      <4>3. \A k \in 1 .. Len(t) : u[k] \in Seq(0 .. 1)
        BY <2>2, <4>1
      <4>4. QED
        BY <1>4, <2>3, <4>2, <4>3
    <3>2. u = [k \in 1 .. Len(t) + 1 |-> u[k]]
      BY <2>1
    <3> HIDE DEF u
    <3>3. QED
      BY <1>3, <3>1, <3>2
  <2> HIDE DEF u, s
  <2>5. Append(s, CallBits(c)) \in Seq(Seq(0 .. 1)) /\ Len(Append(s, CallBits(c))) = Len(t) + 1
    BY <1>3, <1>4
  <2>6. ASSUME NEW k \in 1 .. Len(t) + 1 PROVE u[k] = Append(s, CallBits(c))[k]
    <3>1. k = Len(t) + 1 \/ k \in 1 .. Len(t)
      BY <1>3
    <3>2. QED
      BY <1>3, <1>4, <2>2, <2>3, <3>1
  <2>7. QED
    BY <2>4, <2>5, <2>6, SameSequence
<1> HIDE DEF s, u
<1>6. FlattenSeq(s) \in Seq(0 .. 1) /\ FlattenSeq(Append(s, CallBits(c))) = Cat(FlattenSeq(s), CallBits(c))
  BY <1>3, <1>4, FlattenOne
<1>7. Bits(t) = FlattenSeq(s) /\ Bits(Append(t, c)) = FlattenSeq(u)
  BY DEF Bits, s, u
<1>8. QED
  BY <1>5, <1>6, <1>7

(* They are bits.                                                          *)
LEMMA BitsAreBits ==
  ASSUME NEW t \in Seq(CallSet)
  PROVE  Bits(t) \in Seq(0 .. 1)
<1>1. PICK c : c \in CallSet
  <2>1. Pow(1) \in Nat \ {0} /\ 1 \in 1 .. W
    BY PowersAreNumbers, WidthAssumption
  <2>2. [call |-> "push", val |-> 0, size |-> 1] \in CallSet
    BY <2>1 DEF CallSet
  <2>3. QED
    BY <2>2
<1>2. QED
  BY <1>1, BitsAppended

(* Of a single call.                                                       *)
LEMMA BitsOfOne ==
  ASSUME NEW c \in CallSet
  PROVE  Bits(<< c >>) = CallBits(c)
<1>1. <<>> \in Seq(CallSet) /\ Append(<<>>, c) = << c >>
  OBVIOUS
<1>2. Bits(<< c >>) = Cat(Bits(<<>>), CallBits(c))
  BY <1>1, BitsAppended
<1>3. \A r \in Seq(0 .. 1) : <<>> \o r = r
  OBVIOUS
<1>4. QED
  BY <1>2, <1>3, BitsNone, CallBitsAre DEF Cat

(* Of two sequences of calls in one.                                       *)
LEMMA BitsJoined ==
  ASSUME NEW s \in Seq(CallSet), NEW t \in Seq(CallSet)
  PROVE  Bits(Cat(s, t)) = Cat(Bits(s), Bits(t))
<1> DEFINE P == {k \in Nat : k <= Len(t) =>
                   Bits(s \o SubSeq(t, 1, k)) = Bits(s) \o Bits(SubSeq(t, 1, k))}
<1>0. Len(t) \in Nat /\ SubSeq(t, 1, Len(t)) = t
  OBVIOUS
<1>1. 0 \in P
  <2>1. SubSeq(t, 1, 0) = <<>> /\ s \o <<>> = s
    OBVIOUS
  <2>2. \A r \in Seq(0 .. 1) : r \o <<>> = r
    OBVIOUS
  <2>3. Bits(s) \in Seq(0 .. 1)
    BY BitsAreBits
  <2>4. Bits(s \o SubSeq(t, 1, 0)) = Bits(s) \o Bits(SubSeq(t, 1, 0))
    BY <2>1, <2>2, <2>3, BitsNone
  <2>5. QED
    BY <2>4
<1>2. ASSUME NEW k \in P PROVE k + 1 \in P
  <2>1. SUFFICES ASSUME k + 1 <= Len(t)
                 PROVE  Bits(s \o SubSeq(t, 1, k + 1)) = Bits(s) \o Bits(SubSeq(t, 1, k + 1))
    OBVIOUS
  <2> DEFINE a == SubSeq(t, 1, k)
             c == t[k + 1]
  <2>2. k \in Nat /\ k <= Len(t) /\ Bits(s \o a) = Bits(s) \o Bits(a)
    BY <2>1, <1>0
  <2>3. a \in Seq(CallSet) /\ c \in CallSet /\ SubSeq(t, 1, k + 1) = Append(a, c)
    BY <2>1, <2>2, <1>0
  <2> HIDE DEF a, c
  <2>4. s \o Append(a, c) = Append(s \o a, c) /\ s \o a \in Seq(CallSet)
    BY <2>3
  <2>5. Bits(Append(s \o a, c)) = Bits(s \o a) \o CallBits(c)
        /\ Bits(Append(a, c)) = Bits(a) \o CallBits(c)
    BY <2>3, <2>4, BitsAppended DEF Cat
  <2>6. Bits(s) \in Seq(0 .. 1) /\ Bits(a) \in Seq(0 .. 1) /\ CallBits(c) \in Seq(0 .. 1)
    BY <2>3, BitsAreBits, CallBitsAre
  <2>7. (Bits(s) \o Bits(a)) \o CallBits(c) = Bits(s) \o (Bits(a) \o CallBits(c))
    BY <2>6
  <2>8. QED
    BY <2>2, <2>3, <2>4, <2>5, <2>7
<1>3. Nat \subseteq P
  <2> HIDE DEF P
  <2>1. P \in SUBSET Nat
    BY DEF P
  <2>2. QED
    BY <1>1, <1>2, <2>1, Induction
<1>4. Len(t) \in P
  BY <1>0, <1>3
<1>5. Bits(s \o SubSeq(t, 1, Len(t))) = Bits(s) \o Bits(SubSeq(t, 1, Len(t)))
  BY <1>0, <1>4
<1>6. QED
  BY <1>0, <1>5 DEF Cat

(* Three in one.                                                           *)
LEMMA JoinedTwice ==
  ASSUME NEW S, NEW r \in Seq(S), NEW s \in Seq(S), NEW t \in Seq(S)
  PROVE  /\ Cat(r, s) \in Seq(S)
         /\ Cat(Cat(r, s), t) = Cat(r, Cat(s, t)) /\ Cat(r, Cat(s, t)) \in Seq(S)
<1>1. r \o s \in Seq(S) /\ s \o t \in Seq(S)
  OBVIOUS
<1>2. (r \o s) \o t = r \o (s \o t)
  OBVIOUS
<1>3. r \o (s \o t) \in Seq(S)
  BY <1>1
<1>4. QED
  BY <1>1, <1>2, <1>3 DEF Cat

(* None is no difference.                                                  *)
LEMMA JoinedToNone ==
  ASSUME NEW S, NEW r \in Seq(S)
  PROVE  Cat(r, <<>>) = r /\ Cat(<<>>, r) = r
<1>1. r \o <<>> = r /\ <<>> \o r = r
  OBVIOUS
<1>2. QED
  BY <1>1 DEF Cat

-----------------------------------------------------------------------------
(* A number bit by bit.                                                    *)
LEMMA OneMoreBit ==
  ASSUME NEW x \in Nat, NEW k \in Nat
  PROVE  /\ x \div Pow(k) = 2 * (x \div Pow(k + 1)) + BitAt(x, k)
         /\ x % Pow(k + 1) = (x % Pow(k)) + BitAt(x, k) * Pow(k)
         /\ x % Pow(k) \in Nat /\ x \div Pow(k) \in Nat
<1>1. PICK m \in Nat \ {0} : m = Pow(k)
  BY PowersAreNumbers
<1>2. Pow(k + 1) = 2 * m
  BY <1>1, PowersRecur
<1>3. PICK q, r \in Nat : x \div m = q /\ x % m = r /\ r < m /\ x = m * q + r
  BY Divided
<1>4. q \in Nat /\ r \in Nat
  OBVIOUS
<1>5. 2 \in Nat \ {0}
  OBVIOUS
<1>6. PICK p, b \in Nat : q \div 2 = p /\ q % 2 = b /\ b < 2 /\ q = 2 * p + b
  BY <1>4, <1>5, Divided
<1>7. p \in Nat /\ b \in Nat
  OBVIOUS
<1>8. BitAt(x, k) = b
  BY <1>1, <1>3, <1>6 DEF BitAt
<1>9. b = 0 \/ b = 1
  BY <1>6, <1>7
<1>10. PICK n \in Nat \ {0} : n = 2 * m
  BY 2 * m \in Nat \ {0}
<1>11. PICK e \in Nat : e = b * m + r
  BY b * m + r \in Nat
<1>12. e < n /\ x = n * p + e
  <2>1. m * (2 * p + b) = (2 * m) * p + b * m
    OBVIOUS
  <2>2. x = (2 * m) * p + b * m + r
    BY <1>3, <1>6, <2>1
  <2>3. CASE b = 0
    BY <1>3, <1>10, <1>11, <2>2, <2>3
  <2>4. CASE b = 1
    BY <1>3, <1>10, <1>11, <2>2, <2>4
  <2>5. QED
    BY <1>9, <2>3, <2>4
<1>13. x \div n = p /\ x % n = e
  BY <1>7, <1>10, <1>11, <1>12, Quotient
<1>14. x \div Pow(k + 1) = p /\ x % Pow(k + 1) = e
  BY <1>2, <1>10, <1>13
<1>15. x \div Pow(k) = q /\ x % Pow(k) = r
  BY <1>1, <1>3
<1>16. e = r + b * m /\ b * m = BitAt(x, k) * Pow(k)
  BY <1>1, <1>4, <1>7, <1>8, <1>11
<1>17. x % Pow(k + 1) = (x % Pow(k)) + BitAt(x, k) * Pow(k)
  BY <1>14, <1>15, <1>16
<1>18. QED
  BY <1>4, <1>6, <1>8, <1>14, <1>15, <1>17

(* A number that fits k bits is its own remainder.                         *)
LEMMA BelowItsPower ==
  ASSUME NEW x \in Nat, NEW k \in Nat, x < Pow(k)
  PROVE  x % Pow(k) = x /\ x \div Pow(k) = 0
<1>1. PICK m \in Nat \ {0} : m = Pow(k)
  BY PowersAreNumbers
<1>2. (m * 0 + x) % m = x /\ (m * 0 + x) \div m = 0
  BY <1>1, 0 \in Int, Quotient
<1>3. m * 0 + x = x
  BY <1>1
<1>4. QED
  BY <1>1, <1>2, <1>3

(* Numbers with the same bits from p to q - 1 and the same remainder at p  *)
(* have the same at q.                                                     *)
LEMMA SameRemainder ==
  ASSUME NEW x \in Nat, NEW y \in Nat, NEW p \in Nat, NEW q \in Nat, p <= q,
         x % Pow(p) = y % Pow(p),
         \A i \in Nat : p <= i /\ i < q => BitAt(x, i) = BitAt(y, i)
  PROVE  x % Pow(q) = y % Pow(q)
<1> DEFINE P == {k \in Nat : p + k <= q => x % Pow(p + k) = y % Pow(p + k)}
<1>1. 0 \in P
  <2>1. p + 0 = p
    OBVIOUS
  <2>2. QED
    BY <2>1
<1>2. ASSUME NEW k \in P PROVE k + 1 \in P
  <2>1. SUFFICES ASSUME p + (k + 1) <= q
                 PROVE  x % Pow(p + (k + 1)) = y % Pow(p + (k + 1))
    OBVIOUS
  <2>2. k \in Nat /\ p + k <= q /\ p + k \in Nat /\ p <= p + k /\ p + k < q
    BY <2>1
  <2>3. x % Pow(p + k) = y % Pow(p + k)
    BY <2>2
  <2>4. BitAt(x, p + k) = BitAt(y, p + k)
    BY <2>2
  <2>5. x % Pow((p + k) + 1) = (x % Pow(p + k)) + BitAt(x, p + k) * Pow(p + k)
        /\ y % Pow((p + k) + 1) = (y % Pow(p + k)) + BitAt(y, p + k) * Pow(p + k)
    BY <2>2, OneMoreBit
  <2>6. (p + k) + 1 = p + (k + 1)
    BY <2>2
  <2>7. QED
    BY <2>3, <2>4, <2>5, <2>6
<1>3. Nat \subseteq P
  <2> HIDE DEF P
  <2>1. P \in SUBSET Nat
    BY DEF P
  <2>2. QED
    BY <1>1, <1>2, <2>1, Induction
<1>4. PICK k \in Nat : p + k = q
  BY q - p \in Nat, p + (q - p) = q
<1>5. QED
  BY <1>3, <1>4

(* A value is what its bits say.                                           *)
LEMMA BitsTell ==
  ASSUME NEW n \in Nat, NEW x \in Nat, x < Pow(n), NEW y \in Nat, y < Pow(n),
         BitsOf(x, n) = BitsOf(y, n)
  PROVE  x = y
<1>1. ASSUME NEW i \in Nat, i < n PROVE BitAt(x, i) = BitAt(y, i)
  <2>1. n - i \in 1 .. n /\ n - (n - i) = i
    BY <1>1
  <2>2. BitsOf(x, n)[n - i] = BitAt(x, n - (n - i)) /\ BitsOf(y, n)[n - i] = BitAt(y, n - (n - i))
    <3>1. PICK j : j = n - i
      OBVIOUS
    <3>2. BitsOf(x, n)[j] = BitAt(x, n - j) /\ BitsOf(y, n)[j] = BitAt(y, n - j)
      BY <2>1, <3>1, BitsAre
    <3>3. QED
      BY <3>1, <3>2
  <2>3. QED
    BY <2>1, <2>2
<1>2. x % Pow(0) = y % Pow(0)
  <2>1. Pow(0) = 1 /\ x % 1 = 0 /\ y % 1 = 0
    BY PowersRecur
  <2>2. QED
    BY <2>1
<1>3. x % Pow(n) = y % Pow(n)
  BY <1>1, <1>2, 0 \in Nat, 0 <= n, SameRemainder
<1>4. QED
  BY <1>3, BelowItsPower

(* The bits of a value of two parts are those of the parts.                *)
LEMMA BitsOfParts ==
  ASSUME NEW e \in Nat, NEW d \in Nat, NEW h \in Nat, NEW l \in Nat, l < Pow(d),
         NEW v, v = h * Pow(d) + l, NEW n, n = e + d
  PROVE  BitsOf(v, n) = Cat(BitsOf(h, e), BitsOf(l, d))
<1>1. PICK x \in Nat : x = h * Pow(d) + l /\ x = v /\ n = e + d
  BY PowersAreNumbers
<1>2. /\ BitsOf(x, e + d) \in Seq(0 .. 1) /\ Len(BitsOf(x, e + d)) = e + d
      /\ \A i \in 1 .. e + d : BitsOf(x, e + d)[i] = BitAt(x, (e + d) - i)
  BY BitsAre, e + d \in Nat
<1>3. /\ BitsOf(h, e) \in Seq(0 .. 1) /\ Len(BitsOf(h, e)) = e
      /\ \A i \in 1 .. e : BitsOf(h, e)[i] = BitAt(h, e - i)
      /\ BitsOf(l, d) \in Seq(0 .. 1) /\ Len(BitsOf(l, d)) = d
      /\ \A i \in 1 .. d : BitsOf(l, d)[i] = BitAt(l, d - i)
  BY BitsAre
<1> DEFINE s == BitsOf(h, e)
           t == BitsOf(l, d)
           b == BitsOf(x, e + d)
<1> HIDE DEF s, t, b
<1>4. s \o t \in Seq(0 .. 1) /\ Len(s \o t) = e + d
  <2>1. s \in Seq(0 .. 1) /\ t \in Seq(0 .. 1) /\ Len(s) = e /\ Len(t) = d
    BY <1>3 DEF s, t
  <2>2. QED
    BY <2>1, Joined
<1>5. ASSUME NEW i \in 1 .. e + d PROVE b[i] = (s \o t)[i]
  <2>1. CASE i <= e
    <3>1. i \in 1 .. e /\ e - i \in Nat /\ (e + d) - i = d + (e - i)
      BY <2>1
    <3>2. BitAt(x, d + (e - i)) = BitAt(h, e - i)
      BY <1>1, <3>1, UpperBits
    <3>3. (s \o t)[i] = s[i]
      BY <1>3, <3>1 DEF s, t
    <3>4. b[i] = BitAt(x, (e + d) - i) /\ s[i] = BitAt(h, e - i)
      BY <1>2, <1>3, <3>1 DEF s, b
    <3>5. QED
      BY <3>1, <3>2, <3>3, <3>4
  <2>2. CASE ~(i <= e)
    <3>1. i - e \in 1 .. d /\ (e + d) - i = d - (i - e) /\ d - (i - e) \in Nat /\ d - (i - e) < d
      BY <2>2
    <3>2. BitAt(x, d - (i - e)) = BitAt(l, d - (i - e))
      BY <1>1, <3>1, LowerBits
    <3>3. (s \o t)[i] = t[i - e]
      BY <1>3, <2>2, <3>1 DEF s, t
    <3>4. b[i] = BitAt(x, (e + d) - i) /\ t[i - e] = BitAt(l, d - (i - e))
      BY <1>2, <1>3, <3>1 DEF t, b
    <3>5. QED
      BY <3>1, <3>2, <3>3, <3>4
  <2>3. QED
    BY <2>1, <2>2
<1>6. b \in Seq(0 .. 1) /\ Len(b) = e + d
  BY <1>2 DEF b
<1>7. b = s \o t
  BY <1>4, <1>5, <1>6, SameSequence
<1>8. QED
  BY <1>1, <1>7 DEF b, s, t, Cat

-----------------------------------------------------------------------------
(* The words of a file f, and what its header says of them.                *)
WordSet == 0 .. Mod - 1

(* What the assumptions say of the constants.                              *)
LEMMA Assumed ==
  /\ LowBits \in Nat \ {0} /\ FlagBits \in Nat /\ CountBits \in Nat \ {0} /\ W \in Nat \ {0}
  /\ LowBits + FlagBits <= W /\ 3 + CountBits <= W
  /\ Mod \in Nat \ {0} /\ CMax \in Nat /\ CMax + 1 = Pow(CountBits) /\ CMax >= 1
  /\ Mod = Pow(LowBits + FlagBits)
<1>1. /\ LowBits \in Nat \ {0} /\ FlagBits \in Nat /\ CountBits \in Nat \ {0} /\ W \in Nat \ {0}
      /\ LowBits + FlagBits <= W /\ 3 + CountBits <= W
  BY EnigmaAssumption, WidthAssumption
<1>2. Mod \in Nat \ {0} /\ Mod = Pow(LowBits + FlagBits)
  BY <1>1, LowBits + FlagBits \in Nat, PowersAreNumbers DEF Mod
<1>3. Pow(CountBits) \in Nat /\ Pow(CountBits) >= 2
  <2>1. PICK k \in Nat : CountBits = k + 1
    BY <1>1, CountBits - 1 \in Nat, CountBits = (CountBits - 1) + 1
  <2>2. Pow(k + 1) = 2 * Pow(k) /\ Pow(k) \in Nat \ {0}
    BY <2>1, PowersRecur, PowersAreNumbers
  <2>3. QED
    BY <2>1, <2>2
<1>4. QED
  BY <1>1, <1>2, <1>3 DEF CMax

(* The words of a file.                                                    *)
LEMMA FilesAre ==
  ASSUME NEW f \in Files
  PROVE  /\ f \in Seq(WordSet) /\ Len(f) \in Nat
         /\ \A k \in 1 .. Len(f) : f[k] \in WordSet /\ f[k] \in Nat /\ f[k] < Mod
<1>1. f \in Seq(WordSet)
  BY EnigmaAssumption DEF WordSet
<1>2. \A k \in 1 .. Len(f) : f[k] \in WordSet
  BY <1>1
<1>3. QED
  BY <1>1, <1>2, Assumed DEF WordSet

(* A bit outside of the mask is set in no word.                            *)
LEMMA HasBitIs ==
  ASSUME NEW f \in Files, NEW k \in 1 .. Len(f), NEW i \in 0 .. LowBits + FlagBits - 1,
         i \notin MaskBits(f)
  PROVE  BitAt(f[k], i) = 0
<1>1. f[k] \in Nat /\ i \in Nat /\ k \in DOMAIN f
  BY FilesAre
<1>2. BitAt(f[k], i) \in 0 .. 1
  BY <1>1, BitIsBit
<1>3. ~HasBit(f[k], i)
  BY <1>1 DEF MaskBits
<1>4. QED
  BY <1>2, <1>3 DEF HasBit, BitAt

(* A set of numbers up to m has a greatest.                                *)
LEMMA Greatest ==
  ASSUME NEW m \in Nat, NEW S \in SUBSET (0 .. m), S # {}
  PROVE  Max(S) \in S /\ \A y \in S : y <= Max(S)
<1> DEFINE R == {m - y : y \in S}
<1>1. \A y \in S : y \in 0 .. m
  OBVIOUS
<1>2. \A y \in S : m - y \in Nat
  BY <1>1
<1>3. R \in SUBSET Nat /\ R # {}
  BY <1>2
<1>4. PICK x \in R : \A z \in R : x <= z
  <2> HIDE DEF R
  <2>1. QED
    BY <1>3, LeastMissing
<1>5. PICK g \in S : x = m - g
  OBVIOUS
<1>6. \A y \in S : g >= y
  <2>1. ASSUME NEW y \in S PROVE g >= y
    <3>1. m - y \in R
      OBVIOUS
    <3>2. x <= m - y
      <4> HIDE DEF R
      <4>1. QED
        BY <1>4, <3>1
    <3>3. y \in Nat /\ g \in Nat
      BY <1>1
    <3>4. QED
      BY <1>5, <3>2, <3>3
  <2>2. QED
    BY <2>1
<1>7. Max(S) \in S /\ \A y \in S : Max(S) >= y
  <2>1. \E a \in S : \A y \in S : a >= y
    BY <1>6
  <2>2. QED
    BY <2>1 DEF Max
<1>8. QED
  BY <1>1, <1>7

(* The rest of a word fits packet_length bits.                             *)
LEMMA RestFits ==
  ASSUME NEW f \in Files
  PROVE  /\ packet_length(f) \in 1 .. LowBits /\ packet_length(f) \in 1 .. W
         /\ \A k \in 1 .. Len(f) : f[k] % Pow(LowBits) \in Nat
                                   /\ f[k] % Pow(LowBits) < Pow(packet_length(f))
<1> DEFINE S == {i \in MaskBits(f) : i < LowBits}
<1>0. LowBits \in Nat \ {0} /\ LowBits - 1 \in Nat /\ FlagBits \in Nat /\ LowBits <= W /\ W \in Nat
  BY Assumed
<1>1. S \in SUBSET (0 .. LowBits - 1)
  <2>1. \A i \in MaskBits(f) : i \in Nat
    BY <1>0 DEF MaskBits
  <2>2. QED
    BY <1>0, <2>1
<1>2. ASSUME NEW k \in 1 .. Len(f), NEW p \in 0 .. LowBits, \A i \in S : i < p
      PROVE  f[k] % Pow(LowBits) = f[k] % Pow(p)
  <2>1. f[k] \in Nat /\ p \in Nat /\ p <= LowBits
    BY <1>0, FilesAre
  <2>2. PICK x \in Nat : x = f[k] % Pow(p) /\ x < Pow(p)
    BY <2>1, 0 \in Nat, CutFits
  <2>3. x % Pow(p) = x
    BY <2>1, <2>2, BelowItsPower
  <2>4. ASSUME NEW i \in Nat, p <= i, i < LowBits PROVE BitAt(f[k], i) = BitAt(x, i)
    <3>1. i \notin MaskBits(f)
      BY <1>2, <2>1, <2>4
    <3>2. BitAt(f[k], i) = 0
      BY <1>0, <2>4, <3>1, HasBitIs, i \in 0 .. LowBits + FlagBits - 1
    <3>3. x < Pow(i)
      <4>1. Pow(p) <= Pow(i) /\ Pow(p) \in Nat /\ Pow(i) \in Nat
        BY <2>1, <2>4, PowersGrow, PowersAreNumbers
      <4>2. QED
        BY <2>2, <4>1
    <3>4. x \div Pow(i) = 0
      BY <3>3, BelowItsPower
    <3>5. QED
      BY <3>2, <3>4 DEF BitAt
  <2>5. f[k] % Pow(LowBits) = x % Pow(LowBits)
    <3>1. f[k] % Pow(p) = x % Pow(p)
      BY <2>2, <2>3
    <3>2. QED
      BY <1>0, <2>1, <2>4, <3>1, SameRemainder
  <2>6. x < Pow(LowBits)
    <3>1. Pow(p) <= Pow(LowBits) /\ Pow(p) \in Nat /\ Pow(LowBits) \in Nat
      BY <1>0, <2>1, PowersGrow, PowersAreNumbers
    <3>2. QED
      BY <2>2, <3>1
  <2>7. QED
    BY <1>0, <2>2, <2>5, <2>6, BelowItsPower
<1>3. S # {}
  <2>1. SUFFICES ASSUME S = {} PROVE FALSE
    OBVIOUS
  <2>2. PICK k \in 1 .. Len(f) : f[k] % Pow(LowBits) # 0
    BY EnigmaAssumption, FilesAre
  <2>3. f[k] % Pow(LowBits) = f[k] % Pow(0)
    BY <1>0, <1>2, <2>1, 0 \in 0 .. LowBits
  <2>4. f[k] \in Nat /\ Pow(0) = 1
    BY FilesAre, PowersRecur
  <2>5. f[k] % 1 = 0
    BY <2>4
  <2>6. QED
    BY <2>2, <2>3, <2>4, <2>5
<1>4. Max(S) \in S /\ \A y \in S : y <= Max(S)
  <2> HIDE DEF S
  <2>1. QED
    BY <1>0, <1>1, <1>3, Greatest
<1>5. packet_length(f) = 1 + Max(S)
  BY DEF packet_length
<1>6. Max(S) \in 0 .. LowBits - 1
  <2> HIDE DEF S
  <2>1. QED
    BY <1>1, <1>4
<1> HIDE DEF S
<1>7. packet_length(f) \in 1 .. LowBits /\ packet_length(f) \in 1 .. W
  BY <1>0, <1>5, <1>6
<1>8. ASSUME NEW k \in 1 .. Len(f)
      PROVE  f[k] % Pow(LowBits) \in Nat /\ f[k] % Pow(LowBits) < Pow(packet_length(f))
  <2>1. \A i \in S : i < packet_length(f)
    <3>1. \A i \in S : i \in Nat
      BY <1>0, <1>1
    <3>2. QED
      BY <1>4, <1>5, <1>6, <3>1
  <2>2. f[k] % Pow(LowBits) = f[k] % Pow(packet_length(f))
    BY <1>2, <1>7, <2>1, packet_length(f) \in 0 .. LowBits
  <2>3. f[k] \in Nat /\ packet_length(f) \in Nat
    BY <1>7, FilesAre
  <2>4. QED
    BY <2>2, <2>3, 0 \in Nat, CutFits
<1>9. QED
  BY <1>7, <1>8

-----------------------------------------------------------------------------
(* What getMask has of the flags of w when there are j of them to come.    *)
FlagsTill(w, j) == (w \div Pow(LowBits + j)) * Pow(LowBits + j)

(* None, when all are to come.                                             *)
LEMMA FlagsBegin ==
  ASSUME NEW w \in WordSet
  PROVE  FlagsTill(w, FlagBits) = 0
<1>1. w \in Nat /\ w < Pow(LowBits + FlagBits) /\ LowBits + FlagBits \in Nat
  BY Assumed DEF WordSet
<1>2. w \div Pow(LowBits + FlagBits) = 0 /\ Pow(LowBits + FlagBits) \in Nat
  BY <1>1, BelowItsPower, PowersAreNumbers
<1>3. QED
  BY <1>2 DEF FlagsTill

(* One flag more.                                                          *)
LEMMA FlagsGoOn ==
  ASSUME NEW w \in WordSet, NEW j \in 1 .. FlagBits
  PROVE  /\ FlagsTill(w, j - 1) = FlagsTill(w, j) + BitAt(w, LowBits + j - 1) * Pow(LowBits + j - 1)
         /\ FlagsTill(w, j) \in Nat
<1>1. PICK k \in Nat : k = LowBits + j - 1 /\ LowBits + j = k + 1 /\ LowBits + (j - 1) = k
  <2>1. LowBits \in Nat /\ FlagBits \in Nat
    BY Assumed
  <2>2. LowBits + j - 1 \in Nat
    BY <2>1
  <2>3. QED
    BY <2>1, <2>2
<1>2. w \in Nat
  BY Assumed DEF WordSet
<1>3. PICK m \in Nat : m = Pow(k)
  BY PowersAreNumbers
<1>4. Pow(k + 1) = 2 * m
  BY <1>3, PowersRecur
<1>5. PICK q \in Nat : q = w \div Pow(k + 1)
  <2>1. k + 1 \in Nat
    BY <1>1
  <2>2. QED
    BY <1>2, <2>1, OneMoreBit
<1>6. PICK b \in 0 .. 1 : b = BitAt(w, k)
  BY <1>2, BitIsBit
<1>7. w \div Pow(k) = 2 * q + b
  BY <1>2, <1>5, <1>6, OneMoreBit
<1>8. (2 * q + b) * m = q * (2 * m) + b * m
  OBVIOUS
<1>9. FlagsTill(w, j - 1) = (2 * q + b) * m
  BY <1>1, <1>3, <1>7 DEF FlagsTill
<1>10. FlagsTill(w, j) = q * (2 * m)
  BY <1>1, <1>4, <1>5 DEF FlagsTill
<1>11. BitAt(w, LowBits + j - 1) * Pow(LowBits + j - 1) = b * m
  BY <1>1, <1>3, <1>6
<1>12. q * (2 * m) \in Nat
  BY 2 * m \in Nat
<1>13. FlagsTill(w, j - 1) = FlagsTill(w, j) + b * m
  BY <1>8, <1>9, <1>10
<1>14. QED
  BY <1>10, <1>11, <1>12, <1>13

(* All of them and the rest are the word.                                  *)
LEMMA FlagsEnd ==
  ASSUME NEW w \in WordSet
  PROVE  FlagsTill(w, 0) + (w % Pow(LowBits)) = w /\ FlagsTill(w, 0) \in Nat
<1>1. w \in Nat /\ LowBits \in Nat /\ LowBits + 0 = LowBits
  BY Assumed DEF WordSet
<1>2. PICK m \in Nat : m = Pow(LowBits)
  BY <1>1, PowersAreNumbers
<1>3. PICK q \in Nat, r \in Nat : q = w \div Pow(LowBits) /\ r = w % Pow(LowBits)
  BY <1>1, OneMoreBit
<1>4. w = q * m + r
  BY <1>1, <1>2, <1>3, 0 \in Nat, CutFits
<1>5. FlagsTill(w, 0) = q * m
  BY <1>1, <1>2, <1>3 DEF FlagsTill
<1>6. q * m \in Nat
  OBVIOUS
<1>7. FlagsTill(w, 0) + r = w /\ FlagsTill(w, 0) \in Nat
  <2>1. PICK c \in Nat : c = q * m
    BY <1>6
  <2>2. w = c + r /\ FlagsTill(w, 0) = c
    BY <1>4, <1>5, <2>1
  <2>3. QED
    BY <2>2
<1>8. QED
  BY <1>3, <1>7

-----------------------------------------------------------------------------
(* Where decode can stand in a stream that has rest to come, when u is the *)
(* file to be given back and at of its words are written.                  *)
At(r, l, m, c, g, i, d, a) ==
  [rest |-> r, pc |-> l, mode |-> m, cnt |-> c, flags |-> g, left |-> i, dincr |-> d, at |-> a]
AtPacket(r, d, a) == At(r, "packet", 0, 0, 0, 0, d, a)

Counters(u) == WordSet \cup {incrementing_value(u)}
Places(u) ==
  [rest : Seq(0 .. 1), pc : {"packet", "kind", "mode", "count", "flags", "done"},
   mode : 0 .. 5, cnt : 0 .. CMax, flags : Nat, left : 0 .. FlagBits,
   dincr : Counters(u), at : 0 .. Len(u)]

(* The value b of n bits takes it from x to y.                             *)
MovePacket(x, n, b, y) ==
  /\ x.pc = "packet" /\ n = 1
  /\ y = At(y.rest, IF b = 1 THEN "mode" ELSE "kind", 0, 0, 0, 0, x.dincr, x.at)

MoveKind(x, n, b, y) ==
  /\ x.pc = "kind" /\ n = 1
  /\ y = At(y.rest, "count", 4 + b, 0, 0, 0, x.dincr, x.at)

MoveMode(x, n, b, y) ==
  /\ x.pc = "mode" /\ n = 2
  /\ y = At(y.rest, "count", b, 0, 0, 0, x.dincr, x.at)

MoveCount(u, x, n, b, y) ==
  /\ x.pc = "count" /\ n = CountBits
  /\ \/ /\ x.mode = 4
        /\ x.at + b + 1 <= Len(u)
        /\ x.dincr \in WordSet
        /\ \A k \in 1 .. b + 1 : u[x.at + k] = (x.dincr + k - 1) % Mod
        /\ y = AtPacket(y.rest, (x.dincr + b + 1) % Mod, x.at + b + 1)
     \/ /\ x.mode = 5
        /\ x.at + b + 1 <= Len(u)
        /\ \A k \in 1 .. b + 1 : u[x.at + k] = common_value(u)
        /\ y = AtPacket(y.rest, x.dincr, x.at + b + 1)
     \/ /\ x.mode < 4 /\ ~(x.mode = 3 /\ b = CMax)
        /\ y = At(y.rest, "flags", x.mode, b, 0, FlagBits, x.dincr, x.at)
     \/ /\ x.mode = 3 /\ b = CMax
        /\ y = At(y.rest, "done", 0, 0, 0, 0, x.dincr, x.at)

MoveFlag(u, x, n, b, y) ==
  /\ x.pc = "flags" /\ x.left > 0
  /\ n = IF LowBits + x.left - 1 \in MaskBits(u) THEN 1 ELSE 0
  /\ y = At(y.rest, "flags", x.mode, x.cnt,
            IF n = 1 THEN x.flags + b * Pow(LowBits + x.left - 1) ELSE x.flags,
            x.left - 1, x.dincr, x.at)

MoveValue(u, x, n, b, y) ==
  /\ x.pc = "flags" /\ x.left = 0 /\ n = packet_length(u)
  /\ \/ /\ x.mode < 3
        /\ x.at + x.cnt + 1 <= Len(u)
        /\ \A k \in 1 .. x.cnt + 1 :
             u[x.at + k] = (x.flags + b + (k - 1) * Deltas[x.mode]) % Mod
        /\ y = AtPacket(y.rest, x.dincr, x.at + x.cnt + 1)
     \/ /\ x.mode = 3
        /\ x.at + 1 <= Len(u) /\ u[x.at + 1] = x.flags + b
        /\ y = IF x.cnt > 0
                 THEN At(y.rest, "flags", 3, x.cnt - 1, 0, FlagBits, x.dincr, x.at + 1)
                 ELSE AtPacket(y.rest, x.dincr, x.at + 1)

Move(u, x, n, b, y) ==
  \/ MovePacket(x, n, b, y) \/ MoveKind(x, n, b, y) \/ MoveMode(x, n, b, y)
  \/ MoveCount(u, x, n, b, y) \/ MoveFlag(u, x, n, b, y) \/ MoveValue(u, x, n, b, y)

Steps(u, x, y) ==
  \E n \in 0 .. W, b \in Nat :
    b < Pow(n) /\ x.rest = Cat(BitsOf(b, n), y.rest) /\ Move(u, x, n, b, y)

AtEnd(u, x) == x.pc = "done" /\ x.rest = <<>> /\ x.at = Len(u)

(* From here decode gives back the file and stops with the last bit: there *)
(* is a set of places to go to in which every step stays.                  *)
Leads(u, x) ==
  \E R \in SUBSET Places(u) :
    x \in R /\ \A y \in R : AtEnd(u, y) \/ \E z \in R : Steps(u, y, z)

(* Done, with no bit left and the whole file written.                      *)
LEMMA EndLeads ==
  ASSUME NEW u, NEW x \in Places(u), AtEnd(u, x)
  PROVE  Leads(u, x)
<1>1. {x} \in SUBSET Places(u) /\ x \in {x}
  OBVIOUS
<1>2. \A y \in {x} : AtEnd(u, y)
  OBVIOUS
<1>3. QED
  BY <1>1, <1>2 DEF Leads

(* A step to where the file follows.                                       *)
LEMMA StepLeads ==
  ASSUME NEW u, NEW x \in Places(u), NEW z, Leads(u, z), Steps(u, x, z)
  PROVE  Leads(u, x)
<1>1. PICK R \in SUBSET Places(u) :
        z \in R /\ \A y \in R : AtEnd(u, y) \/ \E w \in R : Steps(u, y, w)
  BY DEF Leads
<1> DEFINE Q == R \cup {x}
<1>2. Q \in SUBSET Places(u) /\ x \in Q /\ z \in Q
  BY <1>1
<1>3. ASSUME NEW y \in Q PROVE AtEnd(u, y) \/ \E w \in Q : Steps(u, y, w)
  <2>1. CASE y \in R
    <3>1. AtEnd(u, y) \/ \E w \in R : Steps(u, y, w)
      BY <1>1, <2>1
    <3>2. QED
      BY <3>1
  <2>2. CASE y = x
    BY <1>2, <2>2
  <2>3. QED
    BY <2>1, <2>2
<1> HIDE DEF Q
<1>4. QED
  BY <1>2, <1>3 DEF Leads

(* Where the file follows, decode is done or has such a step to take.      *)
LEMMA LeadsOn ==
  ASSUME NEW u, NEW x, Leads(u, x)
  PROVE  x \in Places(u) /\ (AtEnd(u, x) \/ \E z : Leads(u, z) /\ Steps(u, x, z))
<1>1. PICK R \in SUBSET Places(u) :
        x \in R /\ \A y \in R : AtEnd(u, y) \/ \E z \in R : Steps(u, y, z)
  BY DEF Leads
<1>2. ASSUME NEW z \in R PROVE Leads(u, z)
  BY <1>1 DEF Leads
<1>3. QED
  BY <1>1, <1>2

-----------------------------------------------------------------------------
(* The parts of a place.                                                   *)
LEMMA AtIs ==
  ASSUME NEW r, NEW l, NEW m, NEW c, NEW g, NEW i, NEW d, NEW a
  PROVE  LET x == At(r, l, m, c, g, i, d, a) IN
           /\ x.rest = r /\ x.pc = l /\ x.mode = m /\ x.cnt = c /\ x.flags = g /\ x.left = i
           /\ x.dincr = d /\ x.at = a
BY DEF At

(* A place.                                                                *)
LEMMA AtIsPlace ==
  ASSUME NEW u, NEW r \in Seq(0 .. 1), NEW l \in {"packet", "kind", "mode", "count", "flags", "done"},
         NEW m \in 0 .. 5, NEW c \in 0 .. CMax, NEW g \in Nat, NEW i \in 0 .. FlagBits,
         NEW d \in Counters(u), NEW a \in 0 .. Len(u)
  PROVE  At(r, l, m, c, g, i, d, a) \in Places(u)
BY DEF At, Places

(* What a place holds.                                                     *)
LEMMA PlaceIs ==
  ASSUME NEW u, NEW x \in Places(u)
  PROVE  /\ x.rest \in Seq(0 .. 1) /\ x.pc \in {"packet", "kind", "mode", "count", "flags", "done"}
         /\ x.mode \in 0 .. 5 /\ x.cnt \in 0 .. CMax /\ x.flags \in Nat /\ x.left \in 0 .. FlagBits
         /\ x.dincr \in Counters(u) /\ x.at \in 0 .. Len(u)
BY DEF Places

-----------------------------------------------------------------------------
(* What the bits of the packets of encode lead to.                         *)
LEMMA SmallPowers == Pow(0) = 1 /\ Pow(1) = 2 /\ Pow(2) = 4 /\ Pow(3) = 8
<1>1. Pow(0) = 1 /\ Pow(0 + 1) = 2 * Pow(0) /\ Pow(1 + 1) = 2 * Pow(1) /\ Pow(2 + 1) = 2 * Pow(2)
  BY PowersRecur
<1>2. QED
  BY <1>1

(* The bits 0 and b and a count: an incrementing or a common packet.       *)
LEMMA KindLeads ==
  ASSUME NEW u \in Files, NEW c \in Seq(0 .. 1), NEW n \in 0 .. CMax, NEW b \in 0 .. 1,
         NEW d \in Counters(u), NEW a \in 0 .. Len(u),
         Leads(u, At(Cat(BitsOf(n, CountBits), c), "count", 4 + b, 0, 0, 0, d, a))
  PROVE  Leads(u, AtPacket(Cat(BitsOf(b * Pow(CountBits) + n, 2 + CountBits), c), d, a))
<1>0. CountBits \in Nat /\ CMax \in Nat /\ n \in Nat /\ n < Pow(CountBits) /\ b \in Nat
      /\ 0 \in 0 .. 5 /\ 0 \in 0 .. CMax /\ 0 \in Nat /\ 0 \in 0 .. FlagBits /\ FlagBits \in Nat
      /\ W \in Nat /\ 1 \in 0 .. W /\ 1 \in Nat /\ 2 \in Nat
  BY Assumed
<1> DEFINE t == BitsOf(n, CountBits)
<1>1. t \in Seq(0 .. 1) /\ Cat(t, c) \in Seq(0 .. 1) /\ BitsOf(b, 1) \in Seq(0 .. 1)
      /\ BitsOf(0, 1) \in Seq(0 .. 1)
  BY <1>0, BitsAre, JoinedTwice
<1>2. BitsOf(b * Pow(CountBits) + n, 2 + CountBits) = Cat(BitsOf(b, 2), t)
  BY <1>0, BitsOfParts
<1>3. BitsOf(b, 2) = Cat(BitsOf(0, 1), BitsOf(b, 1))
  <2>1. b = 0 * Pow(1) + b /\ 2 = 1 + 1 /\ b < Pow(1)
    BY SmallPowers
  <2>2. QED
    BY <1>0, <2>1, BitsOfParts
<1> HIDE DEF t
<1> DEFINE r == Cat(BitsOf(b, 1), Cat(t, c))
           z == At(Cat(t, c), "count", 4 + b, 0, 0, 0, d, a)
           y == At(r, "kind", 0, 0, 0, 0, d, a)
           x == AtPacket(Cat(BitsOf(0, 1), r), d, a)
<1>4. r \in Seq(0 .. 1) /\ Cat(BitsOf(0, 1), r) \in Seq(0 .. 1)
  BY <1>1, JoinedTwice
<1>5. y \in Places(u) /\ x \in Places(u)
  BY <1>0, <1>4, AtIsPlace DEF AtPacket
<1>6. Leads(u, z)
  BY DEF t
<1>7. Steps(u, y, z)
  <2>1. b < Pow(1) /\ y.rest = Cat(BitsOf(b, 1), z.rest)
    BY SmallPowers DEF At
  <2>2. MoveKind(y, 1, b, z)
    BY DEF At, MoveKind
  <2> HIDE DEF y, z
  <2>3. Move(u, y, 1, b, z)
    BY <2>2 DEF Move
  <2>4. QED
    BY <1>0, <2>1, <2>3 DEF Steps
<1>8. Leads(u, y)
  <2> HIDE DEF y, z
  <2>1. QED
    BY <1>5, <1>6, <1>7, StepLeads
<1>9. Steps(u, x, y)
  <2>1. 0 < Pow(1) /\ x.rest = Cat(BitsOf(0, 1), y.rest)
    BY SmallPowers DEF At, AtPacket
  <2>2. MovePacket(x, 1, 0, y)
    BY DEF At, MovePacket, AtPacket
  <2> HIDE DEF x, y
  <2>3. Move(u, x, 1, 0, y)
    BY <2>2 DEF Move
  <2>4. QED
    BY <1>0, <2>1, <2>3 DEF Steps
<1>10. Leads(u, x)
  <2> HIDE DEF x, y
  <2>1. QED
    BY <1>5, <1>8, <1>9, StepLeads
<1>11. Cat(BitsOf(0, 1), r) = Cat(Cat(BitsOf(b, 2), t), c)
  <2>1. Cat(Cat(BitsOf(b, 2), t), c) = Cat(BitsOf(b, 2), Cat(t, c))
    <3>1. BitsOf(b, 2) \in Seq(0 .. 1)
      BY <1>0, BitsAre
    <3>2. QED
      BY <1>1, <3>1, JoinedTwice
  <2>2. Cat(Cat(BitsOf(0, 1), BitsOf(b, 1)), Cat(t, c)) = Cat(BitsOf(0, 1), r)
    BY <1>1, JoinedTwice
  <2>3. QED
    BY <1>3, <2>1, <2>2
<1>12. QED
  BY <1>2, <1>10, <1>11

(* The bit 1, two bits m and a count: a stepped or an inlined packet.      *)
LEMMA ModeLeads ==
  ASSUME NEW u \in Files, NEW c \in Seq(0 .. 1), NEW n \in 0 .. CMax, NEW m \in 0 .. 3,
         NEW d \in Counters(u), NEW a \in 0 .. Len(u),
         Leads(u, At(Cat(BitsOf(n, CountBits), c), "count", m, 0, 0, 0, d, a))
  PROVE  Leads(u, AtPacket(Cat(BitsOf((4 + m) * Pow(CountBits) + n, 3 + CountBits), c), d, a))
<1>0. CountBits \in Nat /\ CMax \in Nat /\ n \in Nat /\ n < Pow(CountBits) /\ m \in Nat
      /\ 0 \in 0 .. 5 /\ 0 \in 0 .. CMax /\ 0 \in Nat /\ 0 \in 0 .. FlagBits /\ FlagBits \in Nat
      /\ W \in Nat /\ 1 \in 0 .. W /\ 2 \in 0 .. W /\ 1 \in Nat /\ 2 \in Nat /\ 3 \in Nat
      /\ 4 + m \in Nat
  BY Assumed
<1> DEFINE t == BitsOf(n, CountBits)
<1>1. t \in Seq(0 .. 1) /\ Cat(t, c) \in Seq(0 .. 1) /\ BitsOf(m, 2) \in Seq(0 .. 1)
      /\ BitsOf(1, 1) \in Seq(0 .. 1) /\ BitsOf(4 + m, 3) \in Seq(0 .. 1)
  BY <1>0, BitsAre, JoinedTwice
<1>2. BitsOf((4 + m) * Pow(CountBits) + n, 3 + CountBits) = Cat(BitsOf(4 + m, 3), t)
  BY <1>0, BitsOfParts
<1>3. BitsOf(4 + m, 3) = Cat(BitsOf(1, 1), BitsOf(m, 2))
  <2>1. 4 + m = 1 * Pow(2) + m /\ 3 = 1 + 2 /\ m < Pow(2)
    BY SmallPowers
  <2>2. QED
    BY <1>0, <2>1, BitsOfParts
<1> HIDE DEF t
<1> DEFINE r == Cat(BitsOf(m, 2), Cat(t, c))
           z == At(Cat(t, c), "count", m, 0, 0, 0, d, a)
           y == At(r, "mode", 0, 0, 0, 0, d, a)
           x == AtPacket(Cat(BitsOf(1, 1), r), d, a)
<1>4. r \in Seq(0 .. 1) /\ Cat(BitsOf(1, 1), r) \in Seq(0 .. 1)
  BY <1>1, JoinedTwice
<1>5. y \in Places(u) /\ x \in Places(u)
  BY <1>0, <1>4, AtIsPlace DEF AtPacket
<1>6. Leads(u, z)
  BY DEF t
<1>7. Steps(u, y, z)
  <2>1. m < Pow(2) /\ y.rest = Cat(BitsOf(m, 2), z.rest)
    BY SmallPowers DEF At
  <2>2. MoveMode(y, 2, m, z)
    BY DEF At, MoveMode
  <2> HIDE DEF y, z
  <2>3. Move(u, y, 2, m, z)
    BY <2>2 DEF Move
  <2>4. QED
    BY <1>0, <2>1, <2>3 DEF Steps
<1>8. Leads(u, y)
  <2> HIDE DEF y, z
  <2>1. QED
    BY <1>5, <1>6, <1>7, StepLeads
<1>9. Steps(u, x, y)
  <2>1. 1 < Pow(1) /\ x.rest = Cat(BitsOf(1, 1), y.rest)
    BY SmallPowers DEF At, AtPacket
  <2>2. MovePacket(x, 1, 1, y)
    BY DEF At, MovePacket, AtPacket
  <2> HIDE DEF x, y
  <2>3. Move(u, x, 1, 1, y)
    BY <2>2 DEF Move
  <2>4. QED
    BY <1>0, <2>1, <2>3 DEF Steps
<1>10. Leads(u, x)
  <2> HIDE DEF x, y
  <2>1. QED
    BY <1>5, <1>8, <1>9, StepLeads
<1>11. Cat(BitsOf(1, 1), r) = Cat(Cat(BitsOf(4 + m, 3), t), c)
  <2>1. Cat(Cat(BitsOf(4 + m, 3), t), c) = Cat(BitsOf(4 + m, 3), Cat(t, c))
    BY <1>1, JoinedTwice
  <2>2. Cat(Cat(BitsOf(1, 1), BitsOf(m, 2)), Cat(t, c)) = Cat(BitsOf(1, 1), r)
    BY <1>1, JoinedTwice
  <2>3. QED
    BY <1>3, <2>1, <2>2
<1>12. QED
  BY <1>2, <1>10, <1>11

(* A step on a count.                                                      *)
LEMMA CountLeads ==
  ASSUME NEW u \in Files, NEW c \in Seq(0 .. 1), NEW n \in 0 .. CMax, NEW m \in 0 .. 5,
         NEW d \in Counters(u), NEW a \in 0 .. Len(u), NEW z, Leads(u, z), z.rest = c,
         MoveCount(u, At(Cat(BitsOf(n, CountBits), c), "count", m, 0, 0, 0, d, a), CountBits, n, z)
  PROVE  Leads(u, At(Cat(BitsOf(n, CountBits), c), "count", m, 0, 0, 0, d, a))
<1>0. CountBits \in 0 .. W /\ CountBits \in Nat /\ CMax \in Nat /\ n \in Nat /\ n < Pow(CountBits)
      /\ 0 \in 0 .. CMax /\ 0 \in Nat /\ 0 \in 0 .. FlagBits
  BY Assumed
<1> DEFINE x == At(Cat(BitsOf(n, CountBits), c), "count", m, 0, 0, 0, d, a)
<1>1. Cat(BitsOf(n, CountBits), c) \in Seq(0 .. 1)
  BY <1>0, BitsAre, JoinedTwice
<1>2. x \in Places(u)
  BY <1>0, <1>1, AtIsPlace
<1>3. x.rest = Cat(BitsOf(n, CountBits), z.rest)
  BY DEF At
<1> HIDE DEF x
<1>4. Move(u, x, CountBits, n, z)
  BY DEF Move, x
<1>5. Steps(u, x, z)
  BY <1>0, <1>3, <1>4 DEF Steps
<1>6. QED
  BY <1>2, <1>5, StepLeads DEF x

(* The incrementing value, and n words that go on counting.                *)
LEMMA IncrementingLeads ==
  ASSUME NEW u \in Files, NEW c \in Seq(0 .. 1), NEW n \in 0 .. CMax,
         NEW d \in WordSet, NEW a \in 0 .. Len(u), a + n + 1 <= Len(u),
         \A k \in 1 .. n + 1 : u[a + k] = (d + k - 1) % Mod,
         Leads(u, AtPacket(c, (d + n + 1) % Mod, a + n + 1))
  PROVE  Leads(u, AtPacket(Cat(BitsOf(n, 2 + CountBits), c), d, a))
<1> DEFINE x == At(Cat(BitsOf(n, CountBits), c), "count", 4, 0, 0, 0, d, a)
           z == AtPacket(c, (d + n + 1) % Mod, a + n + 1)
<1>1. x.pc = "count" /\ x.mode = 4 /\ x.at = a /\ x.dincr = d /\ z.rest = c
  BY DEF At, AtPacket
<1>2. z = AtPacket(z.rest, (x.dincr + n + 1) % Mod, x.at + n + 1)
  BY <1>1
<1>3. d \in Counters(u) /\ Leads(u, z) /\ 4 \in 0 .. 5
  BY DEF Counters
<1> HIDE DEF x, z
<1>4. MoveCount(u, x, CountBits, n, z)
  BY <1>1, <1>2 DEF MoveCount
<1>5. Leads(u, x)
  BY <1>1, <1>3, <1>4, CountLeads DEF x
<1>6. Leads(u, AtPacket(Cat(BitsOf(0 * Pow(CountBits) + n, 2 + CountBits), c), d, a))
  <2>1. 4 + 0 = 4 /\ 0 \in 0 .. 1
    OBVIOUS
  <2>2. QED
    BY <1>3, <1>5, <2>1, KindLeads DEF x
<1>7. 0 * Pow(CountBits) + n = n
  BY Assumed, PowersAreNumbers
<1>8. QED
  BY <1>6, <1>7

(* The common value, and n words more of it.                               *)
LEMMA CommonLeads ==
  ASSUME NEW u \in Files, NEW c \in Seq(0 .. 1), NEW n \in 0 .. CMax,
         NEW d \in Counters(u), NEW a \in 0 .. Len(u), a + n + 1 <= Len(u),
         \A k \in 1 .. n + 1 : u[a + k] = common_value(u),
         Leads(u, AtPacket(c, d, a + n + 1))
  PROVE  Leads(u, AtPacket(Cat(BitsOf(Pow(CountBits) + n, 2 + CountBits), c), d, a))
<1> DEFINE x == At(Cat(BitsOf(n, CountBits), c), "count", 5, 0, 0, 0, d, a)
           z == AtPacket(c, d, a + n + 1)
<1>1. x.pc = "count" /\ x.mode = 5 /\ x.at = a /\ x.dincr = d /\ z.rest = c
  BY DEF At, AtPacket
<1>2. z = AtPacket(z.rest, x.dincr, x.at + n + 1)
  BY <1>1
<1>3. Leads(u, z) /\ 5 \in 0 .. 5
  OBVIOUS
<1> HIDE DEF x, z
<1>4. MoveCount(u, x, CountBits, n, z)
  BY <1>1, <1>2 DEF MoveCount
<1>5. Leads(u, x)
  BY <1>1, <1>3, <1>4, CountLeads DEF x
<1>6. Leads(u, AtPacket(Cat(BitsOf(1 * Pow(CountBits) + n, 2 + CountBits), c), d, a))
  <2>1. 4 + 1 = 5 /\ 1 \in 0 .. 1
    OBVIOUS
  <2>2. QED
    BY <1>3, <1>5, <2>1, KindLeads DEF x
<1>7. 1 * Pow(CountBits) + n = Pow(CountBits) + n
  BY Assumed, PowersAreNumbers
<1>8. QED
  BY <1>6, <1>7

(* The terminator: an inlined packet of CMax + 1 words.                    *)
LEMMA TerminatorLeads ==
  ASSUME NEW u \in Files, NEW d \in Counters(u)
  PROVE  Leads(u, AtPacket(BitsOf(Pow(3 + CountBits) - 1, 3 + CountBits), d, Len(u)))
<1>0. CountBits \in Nat /\ CMax \in Nat /\ CMax \in 0 .. CMax /\ 0 \in 0 .. CMax /\ 0 \in 0 .. 5
      /\ 0 \in Nat /\ FlagBits \in Nat /\ 0 \in 0 .. FlagBits /\ CMax + 1 = Pow(CountBits)
      /\ 3 \in 0 .. 5 /\ 3 \in 0 .. 3
  BY Assumed
<1>1. Len(u) \in 0 .. Len(u) /\ <<>> \in Seq(0 .. 1)
  BY FilesAre
<1> DEFINE x == At(Cat(BitsOf(CMax, CountBits), <<>>), "count", 3, 0, 0, 0, d, Len(u))
           z == At(<<>>, "done", 0, 0, 0, 0, d, Len(u))
<1>2. x.pc = "count" /\ x.mode = 3 /\ x.at = Len(u) /\ x.dincr = d
      /\ z.rest = <<>> /\ z.pc = "done" /\ z.at = Len(u)
  BY DEF At
<1>3. z = At(z.rest, "done", 0, 0, 0, 0, x.dincr, x.at)
  BY <1>2
<1>4. z \in Places(u)
  BY <1>0, <1>1, AtIsPlace
<1> HIDE DEF x, z
<1>5. Leads(u, z)
  BY <1>2, <1>4, EndLeads DEF AtEnd
<1>6. MoveCount(u, x, CountBits, CMax, z)
  BY <1>2, <1>3 DEF MoveCount
<1>7. Leads(u, x)
  BY <1>0, <1>1, <1>2, <1>5, <1>6, CountLeads DEF x
<1>8. Leads(u, AtPacket(Cat(BitsOf((4 + 3) * Pow(CountBits) + CMax, 3 + CountBits), <<>>), d, Len(u)))
  BY <1>0, <1>1, <1>7, ModeLeads DEF x
<1>9. (4 + 3) * Pow(CountBits) + CMax = Pow(3 + CountBits) - 1
  <2>1. Pow(3 + CountBits) = 8 * Pow(CountBits)
    BY <1>0, PowersMultiply, SmallPowers
  <2>2. Pow(CountBits) \in Nat
    BY <1>0, PowersAreNumbers
  <2>3. QED
    BY <1>0, <2>1, <2>2
<1>10. Pow(3 + CountBits) - 1 \in Nat
  BY <1>0, PowersAreNumbers, 3 + CountBits \in Nat
<1>11. BitsOf(Pow(3 + CountBits) - 1, 3 + CountBits) \in Seq(0 .. 1)
  BY <1>0, <1>10, BitsAre, 3 + CountBits \in Nat
<1>12. Cat(BitsOf(Pow(3 + CountBits) - 1, 3 + CountBits), <<>>)
         = BitsOf(Pow(3 + CountBits) - 1, 3 + CountBits)
  BY <1>11, JoinedToNone
<1>13. QED
  BY <1>8, <1>9, <1>12

-----------------------------------------------------------------------------
(* The first k of a row of sequences, in one.                              *)
UpTo(g, k) == FlattenSeq([i \in 1 .. k |-> g[i]])

(* One sequence more.                                                      *)
LEMMA UpToGoesOn ==
  ASSUME NEW E, NEW n \in Nat, NEW g \in [1 .. n -> Seq(E)]
  PROVE  /\ UpTo(g, 0) = <<>>
         /\ \A k \in 0 .. n : UpTo(g, k) \in Seq(E)
         /\ \A k \in 0 .. n - 1 : UpTo(g, k + 1) = Cat(UpTo(g, k), g[k + 1])
<1> DEFINE s(k) == [i \in 1 .. k |-> g[i]]
<1>1. ASSUME NEW k \in 0 .. n PROVE s(k) \in Seq(Seq(E)) /\ Len(s(k)) = k
  <2>1. \A j \in 1 .. k : g[j] \in Seq(E)
    OBVIOUS
  <2>2. k \in Nat
    OBVIOUS
  <2>3. QED
    BY <2>1, <2>2
<1>2. UpTo(g, 0) = <<>>
  <2>1. s(0) = <<>>
    OBVIOUS
  <2>2. QED
    BY <2>1, FlattenNone DEF UpTo
<1>3. ASSUME NEW k \in 0 .. n - 1 PROVE s(k + 1) = Append(s(k), g[k + 1])
  <2>1. k \in 0 .. n /\ k + 1 \in 0 .. n /\ k \in Nat /\ k + 1 \in 1 .. n
    OBVIOUS
  <2>2. PICK x : x = g[k + 1]
    OBVIOUS
  <2>3. x \in Seq(E)
    BY <2>1, <2>2
  <2>4. \A j \in 1 .. k + 1 : s(k + 1)[j] = IF j = k + 1 THEN x ELSE s(k)[j]
    BY <2>1, <2>2
  <2>5. s(k) \in Seq(Seq(E)) /\ Len(s(k)) = k /\ s(k + 1) \in Seq(Seq(E)) /\ Len(s(k + 1)) = k + 1
    BY <1>1, <2>1
  <2> HIDE DEF s
  <2>6. Append(s(k), x) \in Seq(Seq(E)) /\ Len(Append(s(k), x)) = k + 1
    BY <2>3, <2>5
  <2>7. \A j \in 1 .. k + 1 : Append(s(k), x)[j] = IF j = k + 1 THEN x ELSE s(k)[j]
    BY <2>1, <2>3, <2>5
  <2>8. s(k + 1) = Append(s(k), x)
    BY <2>4, <2>5, <2>6, <2>7, SameSequence
  <2>9. QED
    BY <2>2, <2>8
<1>4. \A k \in 0 .. n : UpTo(g, k) = FlattenSeq(s(k))
  BY DEF UpTo
<1> HIDE DEF s
<1>5. ASSUME NEW k \in 0 .. n PROVE UpTo(g, k) \in Seq(E)
  <2>1. <<>> \in Seq(E)
    OBVIOUS
  <2>2. FlattenSeq(s(k)) \in Seq(E)
    BY <1>1, <2>1, FlattenOne
  <2>3. QED
    BY <1>4, <2>2
<1>6. ASSUME NEW k \in 0 .. n - 1 PROVE UpTo(g, k + 1) = Cat(UpTo(g, k), g[k + 1])
  <2>1. k \in 0 .. n /\ k + 1 \in 0 .. n /\ k + 1 \in 1 .. n
    OBVIOUS
  <2>2. PICK x \in Seq(E) : x = g[k + 1]
    BY <2>1
  <2>3. s(k) \in Seq(Seq(E)) /\ s(k + 1) = Append(s(k), x)
    BY <1>1, <1>3, <2>1, <2>2
  <2>4. FlattenSeq(Append(s(k), x)) = Cat(FlattenSeq(s(k)), x)
    BY <2>3, FlattenOne
  <2>5. QED
    BY <1>4, <2>1, <2>2, <2>3, <2>4
<1>7. QED
  BY <1>2, <1>5, <1>6

-----------------------------------------------------------------------------
(* The calls of a word that is written out: its flags one by one, and the  *)
(* rest.                                                                   *)
FlagCalls(w, k) == FlattenSeq([j \in 1 .. k |-> Flag(w, LowBits + FlagBits - j)])

(* A single call, and its bits.                                            *)
LEMMA OneCall ==
  ASSUME NEW call \in {"push", "write"}, NEW x \in Nat, NEW n \in 1 .. W, x < Pow(n),
         call = "push" => n = 1
  PROVE  /\ Calls(call, x, n) \in Seq(CallSet)
         /\ Bits(Calls(call, x, n)) = BitsOf(x, n)
<1> DEFINE c == [call |-> call, val |-> x, size |-> n]
<1>1. c \in CallSet
  BY DEF CallSet
<1>2. Bits(<< c >>) = CallBits(c)
  BY <1>1, BitsOfOne
<1>3. QED
  BY <1>1, <1>2 DEF Calls, CallBits

(* The call for a flag, if the file uses it.                               *)
LEMMA FlagIs ==
  ASSUME NEW w \in WordSet, NEW i \in Nat
  PROVE  /\ Flag(w, i) \in Seq(CallSet)
         /\ i \in MaskBits(unpack) => Bits(Flag(w, i)) = BitsOf(BitAt(w, i), 1)
         /\ i \notin MaskBits(unpack) => Bits(Flag(w, i)) = <<>>
<1>1. w \in Nat /\ 1 \in 1 .. W
  BY Assumed DEF WordSet
<1>2. BitAt(w, i) \in Nat /\ BitAt(w, i) < Pow(1)
  BY <1>1, BitIsBit, SmallPowers
<1>3. CASE i \in MaskBits(unpack)
  <2>1. Flag(w, i) = Calls("push", BitAt(w, i), 1)
    BY <1>3 DEF Flag, BitAt
  <2>2. QED
    BY <1>1, <1>2, <1>3, <2>1, OneCall
<1>4. CASE i \notin MaskBits(unpack)
  <2>1. Flag(w, i) = <<>> /\ <<>> \in Seq(CallSet)
    BY <1>4 DEF Flag
  <2>2. QED
    BY <1>4, <2>1, BitsNone
<1>5. QED
  BY <1>3, <1>4

(* The calls for the flags, one by one.                                    *)
LEMMA FlagCallsAre ==
  ASSUME NEW w \in WordSet
  PROVE  /\ FlagCalls(w, 0) = <<>>
         /\ \A k \in 0 .. FlagBits : FlagCalls(w, k) \in Seq(CallSet)
         /\ \A k \in 0 .. FlagBits - 1 :
              FlagCalls(w, k + 1) = Cat(FlagCalls(w, k), Flag(w, LowBits + FlagBits - (k + 1)))
<1> DEFINE g == [j \in 1 .. FlagBits |-> Flag(w, LowBits + FlagBits - j)]
<1>0. FlagBits \in Nat /\ LowBits \in Nat
  BY Assumed
<1>1. ASSUME NEW j \in 1 .. FlagBits PROVE Flag(w, LowBits + FlagBits - j) \in Seq(CallSet)
  BY <1>0, FlagIs, LowBits + FlagBits - j \in Nat
<1>2. g \in [1 .. FlagBits -> Seq(CallSet)]
  BY <1>1
<1>3. ASSUME NEW k \in 0 .. FlagBits PROVE FlagCalls(w, k) = UpTo(g, k)
  <2>1. \A j \in 1 .. k : g[j] = Flag(w, LowBits + FlagBits - j)
    BY <1>0
  <2>2. [j \in 1 .. k |-> Flag(w, LowBits + FlagBits - j)] = [j \in 1 .. k |-> g[j]]
    BY <2>1
  <2>3. QED
    BY <2>2 DEF FlagCalls, UpTo
<1>4. \A k \in 0 .. FlagBits - 1 :
        /\ k \in 0 .. FlagBits /\ k + 1 \in 0 .. FlagBits
        /\ g[k + 1] = Flag(w, LowBits + FlagBits - (k + 1))
  BY <1>0
<1>5. 0 \in 0 .. FlagBits
  BY <1>0
<1> HIDE DEF g
<1>6. /\ UpTo(g, 0) = <<>>
      /\ \A k \in 0 .. FlagBits : UpTo(g, k) \in Seq(CallSet)
      /\ \A k \in 0 .. FlagBits - 1 : UpTo(g, k + 1) = Cat(UpTo(g, k), g[k + 1])
  BY <1>0, <1>2, UpToGoesOn
<1>7. QED
  BY <1>3, <1>4, <1>5, <1>6

(* getMask, flag by flag, has the flags of a word in the end.              *)
LEMMA FlagsLead ==
  ASSUME unpack \in Files, NEW e \in 1 .. Len(unpack), NEW c \in Seq(0 .. 1), NEW m \in 0 .. 5,
         NEW n \in 0 .. CMax, NEW d \in Counters(unpack), NEW a \in 0 .. Len(unpack),
         Leads(unpack, At(c, "flags", m, n, FlagsTill(unpack[e], 0), 0, d, a))
  PROVE  /\ Flags(unpack[e]) \in Seq(CallSet)
         /\ Leads(unpack, At(Cat(Bits(Flags(unpack[e])), c), "flags", m, n, 0, FlagBits, d, a))
<1> DEFINE w == unpack[e]
           Place(r, j) == At(r, "flags", m, n, FlagsTill(w, j), j, d, a)
           P == {k \in Nat : k <= FlagBits =>
                   \A r \in Seq(0 .. 1) :
                     Leads(unpack, Place(r, FlagBits - k))
                       => Leads(unpack, Place(Cat(Bits(FlagCalls(w, k)), r), FlagBits))}
<1>0. FlagBits \in Nat /\ LowBits \in Nat /\ LowBits >= 1 /\ w \in WordSet /\ W \in Nat /\ W >= 1 /\ w \in Nat
  BY Assumed, FilesAre
<1>1. 0 \in P
  <2>1. ASSUME NEW r \in Seq(0 .. 1) PROVE Cat(Bits(FlagCalls(w, 0)), r) = r
    BY <1>0, FlagCallsAre, BitsNone, JoinedToNone
  <2>2. FlagBits - 0 = FlagBits
    BY <1>0
  <2> HIDE DEF w, Place
  <2>3. QED
    BY <2>1, <2>2
<1>2. ASSUME NEW k \in P PROVE k + 1 \in P
  <2>0. SUFFICES ASSUME k + 1 <= FlagBits, NEW r \in Seq(0 .. 1),
                        Leads(unpack, Place(r, FlagBits - (k + 1)))
                 PROVE  Leads(unpack, Place(Cat(Bits(FlagCalls(w, k + 1)), r), FlagBits))
    <3> HIDE DEF w, Place
    <3>1. QED
      OBVIOUS
  <2>1. k \in Nat /\ k <= FlagBits /\ k \in 0 .. FlagBits /\ k \in 0 .. FlagBits - 1
    BY <2>0, <1>0
  <2>2. PICK j \in 1 .. FlagBits : j = FlagBits - k /\ FlagBits - (k + 1) = j - 1
    BY <2>0, <2>1, <1>0
  <2>3. PICK i \in 0 .. LowBits + FlagBits - 1 :
          i = LowBits + j - 1 /\ i = LowBits + FlagBits - (k + 1) /\ i \in Nat
    BY <1>0, <2>2
  <2>4. PICK t : t = Flag(w, i) /\ t \in Seq(CallSet)
    BY <1>0, <2>3, FlagIs
  <2>5. BitAt(w, i) \in 0 .. 1
    BY <1>0, <2>3, BitIsBit
  <2>6. FlagsTill(w, j) \in Nat /\ FlagsTill(w, j - 1) = FlagsTill(w, j) + BitAt(w, i) * Pow(i)
    BY <1>0, <2>2, <2>3, FlagsGoOn
  <2>7. i \notin MaskBits(unpack) => BitAt(w, i) = 0
    BY <2>3, HasBitIs
  <2> DEFINE x == Place(Cat(Bits(t), r), j)
             z == Place(r, j - 1)
  <2>8. Bits(t) \in Seq(0 .. 1) /\ Cat(Bits(t), r) \in Seq(0 .. 1)
    BY <2>4, BitsAreBits, JoinedTwice
  <2>9. x \in Places(unpack)
    <3>1. j \in 0 .. FlagBits
      BY <1>0
    <3>2. QED
      BY <2>6, <2>8, <3>1, AtIsPlace
  <2>10. Leads(unpack, z)
    BY <2>0, <2>2
  <2>11. /\ x.rest = Cat(Bits(t), r) /\ x.pc = "flags" /\ x.mode = m /\ x.cnt = n
         /\ x.flags = FlagsTill(w, j) /\ x.left = j /\ x.dincr = d /\ x.at = a /\ z.rest = r
    BY DEF At
  <2>12. z = At(z.rest, "flags", x.mode, x.cnt, FlagsTill(w, j - 1), x.left - 1, x.dincr, x.at)
    BY <2>11
  <2> HIDE DEF x, z, Place, w
  <2>13. Steps(unpack, x, z)
    <3>1. CASE i \in MaskBits(unpack)
      <4>1. PICK b \in Nat : b = BitAt(w, i) /\ b < Pow(1)
        BY <2>5, SmallPowers
      <4>2. x.rest = Cat(BitsOf(b, 1), z.rest)
        BY <1>0, <2>3, <2>4, <2>11, <3>1, <4>1, FlagIs
      <4>3. FlagsTill(w, j - 1) = x.flags + b * Pow(LowBits + x.left - 1)
        BY <2>3, <2>6, <2>11, <4>1
      <4>4. LowBits + x.left - 1 \in MaskBits(unpack) /\ x.left > 0
        BY <2>3, <2>11, <3>1
      <4>5. MoveFlag(unpack, x, 1, b, z)
        BY <2>11, <2>12, <4>3, <4>4 DEF MoveFlag
      <4>6. 1 \in 0 .. W
        BY <1>0
      <4>7. QED
        BY <4>1, <4>2, <4>5, <4>6 DEF Steps, Move
    <3>2. CASE i \notin MaskBits(unpack)
      <4>1. BitsOf(0, 0) = <<>>
        BY DEF BitsOf
      <4>2. x.rest = Cat(BitsOf(0, 0), z.rest)
        BY <1>0, <2>3, <2>4, <2>11, <3>2, <4>1, FlagIs
      <4>3. FlagsTill(w, j - 1) = x.flags
        <5>1. Pow(i) \in Nat
          BY <2>3, PowersAreNumbers
        <5>2. QED
          BY <2>6, <2>7, <2>11, <3>2, <5>1
      <4>4. LowBits + x.left - 1 \notin MaskBits(unpack) /\ x.left > 0
        BY <2>3, <2>11, <3>2
      <4>5. MoveFlag(unpack, x, 0, 0, z)
        BY <2>11, <2>12, <4>3, <4>4 DEF MoveFlag
      <4>6. 0 \in 0 .. W /\ 0 \in Nat /\ 0 < Pow(0)
        BY <1>0, SmallPowers
      <4>7. QED
        BY <4>2, <4>5, <4>6 DEF Steps, Move
    <3>3. QED
      BY <3>1, <3>2
  <2>14. Leads(unpack, Place(Cat(Bits(t), r), FlagBits - k))
    <3>1. Leads(unpack, x)
      BY <2>9, <2>10, <2>13, StepLeads
    <3>2. QED
      BY <2>2, <3>1 DEF x
  <2>15. Leads(unpack, Place(Cat(Bits(FlagCalls(w, k)), Cat(Bits(t), r)), FlagBits))
    BY <2>1, <2>8, <2>14
  <2>16. Cat(Bits(FlagCalls(w, k)), Cat(Bits(t), r)) = Cat(Bits(FlagCalls(w, k + 1)), r)
    <3>1. FlagCalls(w, k) \in Seq(CallSet) /\ FlagCalls(w, k + 1) = Cat(FlagCalls(w, k), t)
      BY <1>0, <2>1, <2>3, <2>4, FlagCallsAre
    <3>2. Bits(FlagCalls(w, k + 1)) = Cat(Bits(FlagCalls(w, k)), Bits(t))
      BY <2>4, <3>1, BitsJoined
    <3>3. Bits(FlagCalls(w, k)) \in Seq(0 .. 1)
      BY <3>1, BitsAreBits
    <3>4. QED
      BY <2>8, <3>2, <3>3, JoinedTwice
  <2>17. QED
    BY <2>15, <2>16
<1>3. Nat \subseteq P
  <2> HIDE DEF P
  <2>1. P \in SUBSET Nat
    BY DEF P
  <2>2. QED
    BY <1>1, <1>2, <2>1, Induction
<1>4. Flags(w) = FlagCalls(w, FlagBits)
  BY DEF Flags, FlagCalls
<1>5. Flags(w) \in Seq(CallSet)
  BY <1>0, <1>4, FlagCallsAre, FlagBits \in 0 .. FlagBits
<1>6. FlagBits \in P /\ FlagBits - FlagBits = 0
  BY <1>0, <1>3
<1>7. Leads(unpack, Place(Cat(Bits(FlagCalls(w, FlagBits)), c), FlagBits))
  <2>1. Leads(unpack, Place(c, FlagBits - FlagBits))
    BY <1>6
  <2> HIDE DEF Place, w
  <2>2. QED
    BY <1>0, <1>6, <2>1
<1>8. FlagsTill(w, FlagBits) = 0
  BY <1>0, FlagsBegin
<1>9. QED
  BY <1>4, <1>5, <1>7, <1>8

-----------------------------------------------------------------------------
(* What is called to write out a word of the file.                         *)
LEMMA InlinedIsCalls ==
  ASSUME unpack \in Files, NEW e \in 1 .. Len(unpack)
  PROVE  Inlined(unpack[e]) \in Seq(CallSet)
<1>1. PICK l \in 1 .. W : l = packet_length(unpack)
  BY RestFits
<1>2. PICK v \in Nat : v = unpack[e] % Pow(LowBits) /\ v < Pow(l)
  BY <1>1, RestFits
<1>3. Calls("write", v, l) \in Seq(CallSet)
  BY <1>2, OneCall
<1>4. unpack[e] \in WordSet /\ FlagBits \in 0 .. FlagBits
  BY Assumed, FilesAre
<1>5. Flags(unpack[e]) = FlagCalls(unpack[e], FlagBits)
  BY DEF Flags, FlagCalls
<1>6. Flags(unpack[e]) \in Seq(CallSet)
  BY <1>4, <1>5, FlagCallsAre
<1>7. Inlined(unpack[e]) = Cat(Flags(unpack[e]), Calls("write", v, l))
  BY <1>1, <1>2 DEF Inlined, Cat
<1>8. QED
  BY <1>3, <1>6, <1>7, JoinedTwice

(* A word that is written out, read by getMask and read.                   *)
LEMMA ValueLeads ==
  ASSUME unpack \in Files, NEW e \in 1 .. Len(unpack), NEW c \in Seq(0 .. 1), NEW m \in 0 .. 5,
         NEW n \in 0 .. CMax, NEW d \in Counters(unpack), NEW a \in 0 .. Len(unpack),
         NEW z, Leads(unpack, z), z.rest = c,
         \A r : MoveValue(unpack, At(r, "flags", m, n, FlagsTill(unpack[e], 0), 0, d, a),
                          packet_length(unpack), unpack[e] % Pow(LowBits), z)
  PROVE  /\ Inlined(unpack[e]) \in Seq(CallSet)
         /\ Leads(unpack, At(Cat(Bits(Inlined(unpack[e])), c), "flags", m, n, 0, FlagBits, d, a))
<1>1. PICK l \in 1 .. W : l = packet_length(unpack)
  BY RestFits
<1>2. PICK v \in Nat : v = unpack[e] % Pow(LowBits) /\ v < Pow(l)
  BY <1>1, RestFits
<1>3. W \in Nat /\ l \in Nat /\ l \in 0 .. W /\ unpack[e] \in WordSet /\ FlagBits \in Nat
      /\ 0 \in 0 .. FlagBits
  BY Assumed, FilesAre
<1>4. PICK q : q = Calls("write", v, l)
  OBVIOUS
<1>5. q \in Seq(CallSet) /\ Bits(q) = BitsOf(v, l)
  BY <1>2, <1>4, OneCall
<1>6. BitsOf(v, l) \in Seq(0 .. 1) /\ Cat(BitsOf(v, l), c) \in Seq(0 .. 1)
  BY <1>2, <1>3, BitsAre, JoinedTwice
<1> DEFINE x == At(Cat(BitsOf(v, l), c), "flags", m, n, FlagsTill(unpack[e], 0), 0, d, a)
<1>7. x \in Places(unpack)
  <2>1. FlagsTill(unpack[e], 0) \in Nat
    BY <1>3, FlagsEnd
  <2>2. QED
    BY <1>3, <1>6, <2>1, AtIsPlace
<1>8. x.rest = Cat(BitsOf(v, l), z.rest)
  BY DEF At
<1>9. MoveValue(unpack, x, l, v, z)
  BY <1>1, <1>2
<1>10. Leads(unpack, x)
  <2> HIDE DEF x
  <2>1. Steps(unpack, x, z)
    BY <1>2, <1>3, <1>8, <1>9 DEF Steps, Move
  <2>2. QED
    BY <1>7, <2>1, StepLeads
<1>11. PICK g : g = Flags(unpack[e])
  OBVIOUS
<1>12. g \in Seq(CallSet)
       /\ Leads(unpack, At(Cat(Bits(g), Cat(BitsOf(v, l), c)), "flags", m, n, 0, FlagBits, d, a))
  BY <1>6, <1>10, <1>11, FlagsLead
<1>13. Inlined(unpack[e]) = Cat(g, q)
  BY <1>1, <1>2, <1>4, <1>11 DEF Inlined, Cat
<1>14. Bits(g) \in Seq(0 .. 1)
  BY <1>12, BitsAreBits
<1>15. Cat(g, q) \in Seq(CallSet) /\ Bits(Cat(g, q)) = Cat(Bits(g), BitsOf(v, l))
  BY <1>5, <1>12, BitsJoined, JoinedTwice
<1>16. Cat(Bits(g), Cat(BitsOf(v, l), c)) = Cat(Bits(Cat(g, q)), c)
  BY <1>6, <1>14, <1>15, JoinedTwice
<1>17. QED
  BY <1>12, <1>13, <1>15, <1>16

(* A packet that begins with a word written out.                           *)
LEMMA PacketLeads ==
  ASSUME NEW u \in Files, NEW c \in Seq(0 .. 1), NEW n \in 0 .. CMax, NEW m \in 0 .. 3,
         ~(m = 3 /\ n = CMax), NEW d \in Counters(u), NEW a \in 0 .. Len(u),
         Leads(u, At(c, "flags", m, n, 0, FlagBits, d, a))
  PROVE  Leads(u, AtPacket(Cat(BitsOf((4 + m) * Pow(CountBits) + n, 3 + CountBits), c), d, a))
<1> DEFINE x == At(Cat(BitsOf(n, CountBits), c), "count", m, 0, 0, 0, d, a)
           z == At(c, "flags", m, n, 0, FlagBits, d, a)
<1>1. x.pc = "count" /\ x.mode = m /\ x.dincr = d /\ x.at = a /\ z.rest = c
  BY DEF At
<1>2. z = At(z.rest, "flags", x.mode, n, 0, FlagBits, x.dincr, x.at)
  BY <1>1
<1>3. Leads(u, z) /\ m \in 0 .. 5 /\ m < 4
  OBVIOUS
<1> HIDE DEF x, z
<1>4. MoveCount(u, x, CountBits, n, z)
  BY <1>1, <1>2, <1>3 DEF MoveCount
<1>5. Leads(u, x)
  BY <1>1, <1>3, <1>4, CountLeads DEF x
<1>6. QED
  BY <1>5, ModeLeads DEF x

(* A word and n that go on in steps: what decode adds is what encode saw.  *)
LEMMA SteppedLeads ==
  ASSUME unpack \in Files, NEW e \in 1 .. Len(unpack), NEW c \in Seq(0 .. 1), NEW m \in 0 .. 2,
         NEW n \in 0 .. CMax, NEW d \in Counters(unpack), e + n <= Len(unpack),
         \A k \in 1 .. n : unpack[e + k] = (unpack[e] + k * Deltas[m]) % Mod,
         Leads(unpack, AtPacket(c, d, e + n))
  PROVE  /\ Inlined(unpack[e]) \in Seq(CallSet)
         /\ Leads(unpack,
                  AtPacket(Cat(BitsOf((4 + m) * Pow(CountBits) + n, 3 + CountBits),
                               Cat(Bits(Inlined(unpack[e])), c)), d, e - 1))
<1>0. CMax \in Nat /\ n \in Nat /\ Len(unpack) \in Nat /\ unpack[e] \in Nat /\ unpack[e] < Mod
      /\ Mod \in Nat \ {0} /\ unpack[e] \in WordSet /\ m < 3 /\ m \in 0 .. 5 /\ m \in 0 .. 3
      /\ ~(m = 3 /\ n = CMax)
  BY Assumed, FilesAre
<1>1. PICK a \in 0 .. Len(unpack) : a = e - 1 /\ a + n + 1 = e + n /\ a + n + 1 <= Len(unpack)
  BY <1>0
<1>2. PICK t \in Int : t = Deltas[m]
  <2>1. \A k \in 0 .. 2 : Deltas[k] = IF k = 2 THEN -1 ELSE k
    BY DEF Deltas
  <2>2. (IF m = 2 THEN -1 ELSE m) \in Int
    OBVIOUS
  <2>3. QED
    BY <2>1, <2>2
<1>3. ASSUME NEW k \in 1 .. n + 1 PROVE unpack[a + k] = (unpack[e] + (k - 1) * t) % Mod
  <2>1. CASE k = 1
    <3>1. unpack[e] + (k - 1) * t = unpack[e] /\ a + k = e
      BY <1>0, <1>1, <2>1
    <3>2. unpack[e] % Mod = unpack[e]
      <4>1. unpack[e] < Pow(LowBits + FlagBits) /\ LowBits + FlagBits \in Nat
        BY <1>0, Assumed
      <4>2. QED
        BY <1>0, <4>1, BelowItsPower, Assumed
    <3>3. QED
      BY <3>1, <3>2
  <2>2. CASE k # 1
    <3>1. k - 1 \in 1 .. n /\ a + k = e + (k - 1)
      BY <1>0, <1>1, <2>2
    <3>2. QED
      BY <1>2, <3>1
  <2>3. QED
    BY <2>1, <2>2
<1> DEFINE z == AtPacket(c, d, e + n)
           x(r) == At(r, "flags", m, n, FlagsTill(unpack[e], 0), 0, d, a)
<1>4. z.rest = c
  BY DEF AtPacket, At
<1>5. ASSUME NEW r
      PROVE  MoveValue(unpack, x(r), packet_length(unpack), unpack[e] % Pow(LowBits), z)
  <2>1. x(r).pc = "flags" /\ x(r).mode = m /\ x(r).left = 0 /\ x(r).cnt = n /\ x(r).at = a
        /\ x(r).dincr = d /\ x(r).flags = FlagsTill(unpack[e], 0)
    BY DEF At
  <2>2. FlagsTill(unpack[e], 0) + (unpack[e] % Pow(LowBits)) = unpack[e]
    BY <1>0, FlagsEnd
  <2>3. z = AtPacket(z.rest, x(r).dincr, x(r).at + x(r).cnt + 1)
    BY <1>1, <1>4, <2>1
  <2> HIDE DEF x, z
  <2>4. \A k \in 1 .. x(r).cnt + 1 :
          unpack[x(r).at + k]
            = (x(r).flags + (unpack[e] % Pow(LowBits)) + (k - 1) * Deltas[x(r).mode]) % Mod
    BY <1>2, <1>3, <2>1, <2>2
  <2>5. QED
    BY <1>0, <1>1, <2>1, <2>3, <2>4 DEF MoveValue
<1>6. Leads(unpack, z)
  OBVIOUS
<1>7. PICK q : q = Inlined(unpack[e])
  OBVIOUS
<1>8. q \in Seq(CallSet) /\ Leads(unpack, At(Cat(Bits(q), c), "flags", m, n, 0, FlagBits, d, a))
  <2> HIDE DEF z
  <2>1. QED
    BY <1>0, <1>4, <1>5, <1>6, <1>7, ValueLeads
<1>9. Cat(Bits(q), c) \in Seq(0 .. 1)
  BY <1>8, BitsAreBits, JoinedTwice
<1>10. QED
  BY <1>0, <1>1, <1>7, <1>8, <1>9, PacketLeads

-----------------------------------------------------------------------------
(* Words that waited, from behind the first s of the file.                 *)
LEMMA InlinedLead ==
  ASSUME unpack \in Files, NEW s \in Nat, NEW n \in Nat, n + 1 <= CMax, s + n + 1 <= Len(unpack),
         NEW g, g = [k \in 1 .. n + 1 |-> Inlined(unpack[s + k])],
         NEW c \in Seq(0 .. 1), NEW d \in Counters(unpack),
         Leads(unpack, AtPacket(c, d, s + n + 1))
  PROVE  /\ UpTo(g, n + 1) \in Seq(CallSet)
         /\ Leads(unpack, At(Cat(Bits(UpTo(g, n + 1)), c), "flags", 3, n, 0, FlagBits, d, s))
<1>0. CMax \in Nat /\ Len(unpack) \in Nat /\ 3 \in 0 .. 5 /\ n + 1 \in Nat /\ FlagBits \in Nat
      /\ n \in 0 .. CMax
  BY Assumed, FilesAre
(* One of them, with j behind it.                                          *)
<1>1. ASSUME NEW e \in 1 .. Len(unpack), NEW j \in 0 .. CMax, NEW a \in 0 .. Len(unpack),
             a + 1 = e, NEW r \in Seq(0 .. 1), NEW z, Leads(unpack, z), z.rest = r,
             z = IF j > 0 THEN At(r, "flags", 3, j - 1, 0, FlagBits, d, a + 1)
                 ELSE AtPacket(r, d, a + 1)
      PROVE  /\ Inlined(unpack[e]) \in Seq(CallSet)
             /\ Leads(unpack, At(Cat(Bits(Inlined(unpack[e])), r), "flags", 3, j, 0, FlagBits, d, a))
  <2> DEFINE x(q) == At(q, "flags", 3, j, FlagsTill(unpack[e], 0), 0, d, a)
  <2>1. ASSUME NEW q
        PROVE  MoveValue(unpack, x(q), packet_length(unpack), unpack[e] % Pow(LowBits), z)
    <3>1. x(q).pc = "flags" /\ x(q).mode = 3 /\ x(q).left = 0 /\ x(q).cnt = j /\ x(q).at = a
          /\ x(q).dincr = d /\ x(q).flags = FlagsTill(unpack[e], 0)
      BY DEF At
    <3>2. FlagsTill(unpack[e], 0) + (unpack[e] % Pow(LowBits)) = unpack[e]
      BY FilesAre, FlagsEnd
    <3> HIDE DEF x
    <3>3. z = IF x(q).cnt > 0
                THEN At(z.rest, "flags", 3, x(q).cnt - 1, 0, FlagBits, x(q).dincr, x(q).at + 1)
                ELSE AtPacket(z.rest, x(q).dincr, x(q).at + 1)
      BY <1>1, <3>1
    <3>4. unpack[x(q).at + 1] = x(q).flags + (unpack[e] % Pow(LowBits))
          /\ x(q).at + 1 <= Len(unpack)
      BY <1>1, <3>1, <3>2
    <3>5. QED
      BY <3>1, <3>3, <3>4 DEF MoveValue
  <2>2. QED
    BY <1>0, <1>1, <2>1, ValueLeads
<1>2. ASSUME NEW k \in 1 .. n + 1
      PROVE  s + k \in 1 .. Len(unpack) /\ s + (k - 1) \in 0 .. Len(unpack)
             /\ (s + (k - 1)) + 1 = s + k /\ n + 1 - k \in 0 .. CMax
  BY <1>0
(* Inlined is a sequence of calls, whatever it leads to.                   *)
<1>3. g \in [1 .. n + 1 -> Seq(CallSet)]
  <2>1. ASSUME NEW k \in 1 .. n + 1 PROVE Inlined(unpack[s + k]) \in Seq(CallSet)
    BY <1>2, InlinedIsCalls
  <2>2. QED
    BY <2>1
<1>4. /\ UpTo(g, 0) = <<>>
      /\ \A k \in 0 .. n + 1 : UpTo(g, k) \in Seq(CallSet)
      /\ \A k \in 0 .. n : UpTo(g, k + 1) = Cat(UpTo(g, k), g[k + 1])
  <2>1. PICK h \in Nat : h = n + 1 /\ h - 1 = n
    BY <1>0
  <2>2. g \in [1 .. h -> Seq(CallSet)]
    BY <1>3, <2>1
  <2>3. /\ UpTo(g, 0) = <<>>
        /\ \A k \in 0 .. h : UpTo(g, k) \in Seq(CallSet)
        /\ \A k \in 0 .. h - 1 : UpTo(g, k + 1) = Cat(UpTo(g, k), g[k + 1])
    BY <2>1, <2>2, UpToGoesOn
  <2>4. QED
    BY <2>1, <2>3
<1> DEFINE Place(r, k) == At(r, "flags", 3, n - k, 0, FlagBits, d, s + k)
           P == {k \in Nat : k <= n =>
                   \A r \in Seq(0 .. 1) :
                     Leads(unpack, Place(r, k)) => Leads(unpack, Place(Cat(Bits(UpTo(g, k)), r), 0))}
<1>5. 0 \in P
  <2>1. ASSUME NEW r \in Seq(0 .. 1) PROVE Cat(Bits(UpTo(g, 0)), r) = r
    BY <1>4, BitsNone, JoinedToNone
  <2> HIDE DEF Place
  <2>2. QED
    BY <2>1
<1>6. ASSUME NEW k \in P PROVE k + 1 \in P
  <2>0. SUFFICES ASSUME k + 1 <= n, NEW r \in Seq(0 .. 1), Leads(unpack, Place(r, k + 1))
                 PROVE  Leads(unpack, Place(Cat(Bits(UpTo(g, k + 1)), r), 0))
    <3> HIDE DEF Place
    <3>1. QED
      OBVIOUS
  <2>1. k \in Nat /\ k <= n /\ k + 1 \in 1 .. n + 1 /\ k \in 0 .. n /\ n - k > 0
        /\ n - (k + 1) = (n - k) - 1 /\ n - k \in 0 .. CMax
    BY <2>0, <1>0
  <2>2. PICK e \in 1 .. Len(unpack) : e = s + (k + 1)
    BY <2>1, <1>2
  <2>3. PICK a \in 0 .. Len(unpack) : a = s + k /\ a + 1 = e /\ a + 1 = s + (k + 1)
    BY <2>1, <2>2, <1>2
  <2>4. PICK q : q = Inlined(unpack[e]) /\ q = g[k + 1]
    BY <2>1, <2>2
  <2>5. Place(r, k + 1) = At(r, "flags", 3, (n - k) - 1, 0, FlagBits, d, a + 1)
        /\ Place(r, k + 1).rest = r
    <3>1. Place(r, k + 1) = At(r, "flags", 3, (n - k) - 1, 0, FlagBits, d, a + 1)
      BY <2>1, <2>3
    <3>2. QED
      BY <3>1 DEF At
  <2>6. q \in Seq(CallSet)
        /\ Leads(unpack, At(Cat(Bits(q), r), "flags", 3, n - k, 0, FlagBits, d, a))
    <3> HIDE DEF Place
    <3>1. QED
      BY <2>0, <2>1, <2>3, <2>4, <2>5, <1>1
  <2>7. Leads(unpack, Place(Cat(Bits(q), r), k))
    BY <2>3, <2>6
  <2>8. Bits(q) \in Seq(0 .. 1) /\ Cat(Bits(q), r) \in Seq(0 .. 1)
    BY <2>6, BitsAreBits, JoinedTwice
  <2>9. Leads(unpack, Place(Cat(Bits(UpTo(g, k)), Cat(Bits(q), r)), 0))
    <3> HIDE DEF Place
    <3>1. QED
      BY <2>1, <2>7, <2>8
  <2>10. Cat(Bits(UpTo(g, k)), Cat(Bits(q), r)) = Cat(Bits(UpTo(g, k + 1)), r)
    <3>1. UpTo(g, k) \in Seq(CallSet) /\ UpTo(g, k + 1) = Cat(UpTo(g, k), q)
      <4>1. k \in 0 .. n + 1
        BY <2>1
      <4>2. QED
        BY <1>4, <2>1, <2>4, <4>1
    <3>2. Bits(UpTo(g, k + 1)) = Cat(Bits(UpTo(g, k)), Bits(q))
      BY <2>6, <3>1, BitsJoined
    <3>3. Bits(UpTo(g, k)) \in Seq(0 .. 1)
      BY <3>1, BitsAreBits
    <3>4. QED
      BY <2>8, <3>2, <3>3, JoinedTwice
  <2>11. QED
    BY <2>9, <2>10
<1>7. Nat \subseteq P
  <2> HIDE DEF P
  <2>1. P \in SUBSET Nat
    BY DEF P
  <2>2. QED
    BY <1>5, <1>6, <2>1, Induction
<1>8. PICK e \in 1 .. Len(unpack) : e = s + (n + 1)
  BY <1>2, n + 1 \in 1 .. n + 1
<1>9. PICK a \in 0 .. Len(unpack) : a = s + n /\ a + 1 = e /\ a + 1 = s + n + 1
  BY <1>0, <1>8
<1>10. PICK q : q = Inlined(unpack[e]) /\ q = g[n + 1]
  BY <1>8, n + 1 \in 1 .. n + 1
<1>11. q \in Seq(CallSet) /\ Leads(unpack, At(Cat(Bits(q), c), "flags", 3, 0, 0, FlagBits, d, a))
  <2> DEFINE z == AtPacket(c, d, a + 1)
  <2>1. z.rest = c
    BY DEF AtPacket, At
  <2>2. Leads(unpack, z) /\ z = AtPacket(c, d, a + 1) /\ ~(0 > 0) /\ 0 \in 0 .. CMax
    BY <1>0, <1>9
  <2> HIDE DEF z
  <2>3. QED
    BY <1>9, <1>10, <2>1, <2>2, <1>1
<1>12. Bits(q) \in Seq(0 .. 1) /\ Cat(Bits(q), c) \in Seq(0 .. 1)
  BY <1>11, BitsAreBits, JoinedTwice
<1>13. Leads(unpack, Place(Cat(Bits(q), c), n))
  <2>1. n - n = 0
    OBVIOUS
  <2>2. QED
    BY <1>9, <1>11, <2>1
<1>14. Leads(unpack, Place(Cat(Bits(UpTo(g, n)), Cat(Bits(q), c)), 0))
  <2>1. n \in P /\ n <= n
    BY <1>7
  <2> HIDE DEF Place
  <2>2. QED
    BY <1>12, <1>13, <2>1
<1>15. Cat(Bits(UpTo(g, n)), Cat(Bits(q), c)) = Cat(Bits(UpTo(g, n + 1)), c)
       /\ UpTo(g, n + 1) \in Seq(CallSet)
  <2>1. UpTo(g, n) \in Seq(CallSet) /\ UpTo(g, n + 1) = Cat(UpTo(g, n), q)
        /\ UpTo(g, n + 1) \in Seq(CallSet)
    <3>1. n \in 0 .. n + 1 /\ n \in 0 .. n /\ n + 1 \in 0 .. n + 1
      OBVIOUS
    <3>2. QED
      BY <1>4, <1>10, <3>1
  <2>2. Bits(UpTo(g, n + 1)) = Cat(Bits(UpTo(g, n)), Bits(q))
    BY <1>11, <2>1, BitsJoined
  <2>3. Bits(UpTo(g, n)) \in Seq(0 .. 1)
    BY <2>1, BitsAreBits
  <2>4. QED
    BY <1>12, <2>1, <2>2, <2>3, JoinedTwice
<1>16. s + 0 = s /\ n - 0 = n
  OBVIOUS
<1>17. QED
  BY <1>14, <1>15, <1>16

-----------------------------------------------------------------------------
(* What waits to be inlined, when it is written out.                       *)
LEMMA FlushIsCalls ==
  ASSUME unpack \in Files, NEW s \in Nat, NEW b \in Seq(WordSet), Len(b) <= CMax,
         s + Len(b) <= Len(unpack), \A i \in 1 .. Len(b) : b[i] = unpack[s + i]
  PROVE  /\ FlushBuffer(b) \in Seq(CallSet)
         /\ \A c \in Seq(0 .. 1), d \in Counters(unpack) :
              Leads(unpack, AtPacket(c, d, s + Len(b)))
                => Leads(unpack, AtPacket(Cat(Bits(FlushBuffer(b)), c), d, s))
<1>0. CMax \in Nat /\ Len(unpack) \in Nat /\ CountBits \in Nat /\ W \in Nat /\ 3 + CountBits \in 1 .. W
      /\ CMax + 1 = Pow(CountBits) /\ FlagBits \in Nat
  BY Assumed, FilesAre
<1>1. CASE b = <<>>
  <2>1. FlushBuffer(b) = <<>> /\ <<>> \in Seq(CallSet)
    BY <1>1 DEF FlushBuffer
  <2>2. s + Len(b) = s
    BY <1>1
  <2>3. \A c \in Seq(0 .. 1) : Cat(Bits(<<>>), c) = c
    BY BitsNone, JoinedToNone
  <2>4. QED
    BY <2>1, <2>2, <2>3
<1>2. CASE b # <<>>
  <2>1. Len(b) \in Nat /\ Len(b) # 0
    BY <1>2
  <2>2. PICK n \in Nat : Len(b) = n + 1 /\ n = Len(b) - 1
    BY <2>1, Len(b) - 1 \in Nat, Len(b) = (Len(b) - 1) + 1
  <2>3. n + 1 <= CMax /\ s + n + 1 <= Len(unpack) /\ n \in 0 .. CMax /\ n < Pow(CountBits)
        /\ s + Len(b) = s + n + 1 /\ n + 1 \in Nat /\ s \in 0 .. Len(unpack) /\ n # CMax
    BY <1>0, <2>2
  <2>4. PICK g : g = [k \in 1 .. n + 1 |-> Inlined(unpack[s + k])]
    OBVIOUS
  <2>5. [k \in DOMAIN b |-> Inlined(b[k])] = [i \in 1 .. n + 1 |-> g[i]]
    <3>1. DOMAIN b = 1 .. n + 1
      BY <2>2
    <3>2. \A k \in 1 .. n + 1 : Inlined(b[k]) = g[k]
      BY <2>2, <2>4
    <3>3. QED
      BY <3>1, <3>2
  <2>6. PICK v \in Nat : v = 7 * Pow(CountBits) + Len(b) - 1 /\ v = (4 + 3) * Pow(CountBits) + n
                         /\ v < Pow(3 + CountBits)
    <3>1. Pow(CountBits) \in Nat
      BY <1>0, PowersAreNumbers
    <3>2. 7 * Pow(CountBits) + Len(b) - 1 = 7 * Pow(CountBits) + n /\ 4 + 3 = 7
      BY <2>2, <3>1
    <3>3. 7 * Pow(CountBits) + n \in Nat /\ 7 * Pow(CountBits) + n < Pow(3 + CountBits)
      BY <1>0, <2>3, SmallPowers, MergedFits, 7 \in Nat, 3 \in Nat, 7 < 8
    <3>4. QED
      BY <3>2, <3>3
  <2>7. PICK q : q = Calls("write", v, 3 + CountBits)
    OBVIOUS
  <2>8. q \in Seq(CallSet) /\ Bits(q) = BitsOf(v, 3 + CountBits)
    BY <1>0, <2>6, <2>7, OneCall
  <2>9. PICK p : p = UpTo(g, n + 1)
    OBVIOUS
  <2>10. FlushBuffer(b) = Cat(q, p)
    BY <1>2, <2>5, <2>6, <2>7, <2>9 DEF FlushBuffer, UpTo, Cat
  <2>11. p \in Seq(CallSet)
    <3>1. ASSUME NEW k \in 1 .. n + 1 PROVE Inlined(unpack[s + k]) \in Seq(CallSet)
      <4>1. s + k \in 1 .. Len(unpack)
        BY <1>0, <2>3
      <4>2. QED
        BY <4>1, InlinedIsCalls
    <3>2. g \in [1 .. n + 1 -> Seq(CallSet)]
      BY <2>4, <3>1
    <3>3. PICK h \in Nat : h = n + 1
      BY <2>3
    <3>4. \A k \in 0 .. h : UpTo(g, k) \in Seq(CallSet)
      BY <3>2, <3>3, UpToGoesOn
    <3>5. QED
      BY <2>9, <3>3, <3>4
  <2>12. BitsOf(v, 3 + CountBits) \in Seq(0 .. 1) /\ Bits(p) \in Seq(0 .. 1)
    BY <1>0, <2>6, <2>11, BitsAre, BitsAreBits, 3 + CountBits \in Nat
  <2>13. ASSUME NEW c \in Seq(0 .. 1), NEW d \in Counters(unpack),
                Leads(unpack, AtPacket(c, d, s + n + 1))
         PROVE  Leads(unpack, AtPacket(Cat(Bits(Cat(q, p)), c), d, s))
    <3>1. Leads(unpack, At(Cat(Bits(p), c), "flags", 3, n, 0, FlagBits, d, s))
      BY <2>3, <2>4, <2>9, <2>13, InlinedLead
    <3>2. Cat(Bits(p), c) \in Seq(0 .. 1)
      BY <2>12, JoinedTwice
    <3>3. Leads(unpack, AtPacket(Cat(BitsOf(v, 3 + CountBits), Cat(Bits(p), c)), d, s))
      BY <2>3, <2>6, <3>1, <3>2, PacketLeads, 3 \in 0 .. 3
    <3>4. Bits(Cat(q, p)) = Cat(BitsOf(v, 3 + CountBits), Bits(p))
      BY <2>8, <2>11, BitsJoined
    <3>5. Cat(Bits(Cat(q, p)), c) = Cat(BitsOf(v, 3 + CountBits), Cat(Bits(p), c))
      BY <2>12, <3>4, JoinedTwice
    <3>6. QED
      BY <3>3, <3>5
  <2>14. Cat(q, p) \in Seq(CallSet)
    BY <2>8, <2>11, JoinedTwice
  <2>15. QED
    BY <2>3, <2>10, <2>13, <2>14
<1>3. QED
  BY <1>1, <1>2

(* How many words go on in steps.                                          *)
LEMMA StepsAre ==
  ASSUME unpack \in Files, NEW p \in 1 .. Len(unpack), NEW d, NEW stop
  PROVE  /\ StepsOf(p, d, stop) \in 0 .. CMax /\ p + StepsOf(p, d, stop) <= Len(unpack)
         /\ \A k \in 1 .. StepsOf(p, d, stop) : unpack[p + k] = (unpack[p] + k * d) % Mod
<1>0. CMax \in Nat /\ Len(unpack) \in Nat /\ Len(unpack) - p \in Nat
  BY Assumed, FilesAre
<1>1. Behind(p) \in Nat /\ Behind(p) <= CMax /\ Behind(p) <= Len(unpack) - p
  <2> DEFINE S == {CMax, Len(unpack) - p}
  <2>1. \E x \in S : \A y \in S : x <= y
    BY <1>0
  <2>2. Min(S) \in S /\ \A y \in S : Min(S) <= y
    BY <2>1 DEF Min
  <2>3. Behind(p) = Min(S)
    BY DEF Behind
  <2>4. QED
    BY <1>0, <2>2, <2>3
<1> DEFINE S == {n \in 0 .. Behind(p) :
                   \A k \in 1 .. n : unpack[p + k] = (unpack[p] + k * d) % Mod
                                     /\ unpack[p + k] \notin stop}
<1>2. S \in SUBSET (0 .. Behind(p)) /\ 0 \in S
  BY <1>1
<1>3. StepsOf(p, d, stop) = Max(S)
  BY DEF StepsOf
<1>4. Max(S) \in S
  <2> HIDE DEF S
  <2>1. QED
    BY <1>1, <1>2, Greatest
<1>5. PICK n \in S : n = Max(S)
  BY <1>4
<1>6. n \in 0 .. Behind(p) /\ \A k \in 1 .. n : unpack[p + k] = (unpack[p] + k * d) % Mod
  OBVIOUS
<1>7. n \in 0 .. CMax /\ p + n <= Len(unpack)
  BY <1>0, <1>1, <1>6
<1>8. StepsOf(p, d, stop) = n
  BY <1>3, <1>5
<1> HIDE DEF S
<1>9. QED
  BY <1>6, <1>7, <1>8

(* The packets whose kind and count are all there is to write first.       *)
LEMMA TaggedFits ==
  ASSUME NEW n \in 0 .. CMax
  PROVE  /\ \A b \in 0 .. 1 :
              /\ b * Pow(CountBits) + n \in Nat /\ b * Pow(CountBits) + n < Pow(2 + CountBits)
              /\ Calls("write", b * Pow(CountBits) + n, 2 + CountBits) \in Seq(CallSet)
              /\ Bits(Calls("write", b * Pow(CountBits) + n, 2 + CountBits))
                   = BitsOf(b * Pow(CountBits) + n, 2 + CountBits)
         /\ \A m \in 0 .. 3 :
              /\ (4 + m) * Pow(CountBits) + n \in Nat /\ (4 + m) * Pow(CountBits) + n < Pow(3 + CountBits)
              /\ Calls("write", (4 + m) * Pow(CountBits) + n, 3 + CountBits) \in Seq(CallSet)
              /\ Bits(Calls("write", (4 + m) * Pow(CountBits) + n, 3 + CountBits))
                   = BitsOf((4 + m) * Pow(CountBits) + n, 3 + CountBits)
<1>0. CountBits \in Nat /\ W \in Nat /\ 2 + CountBits \in 1 .. W /\ 3 + CountBits \in 1 .. W
      /\ n \in Nat /\ n < Pow(CountBits) /\ 2 \in Nat /\ 3 \in Nat
  BY Assumed
<1>1. ASSUME NEW b \in 0 .. 1
      PROVE  /\ b * Pow(CountBits) + n \in Nat /\ b * Pow(CountBits) + n < Pow(2 + CountBits)
             /\ Calls("write", b * Pow(CountBits) + n, 2 + CountBits) \in Seq(CallSet)
             /\ Bits(Calls("write", b * Pow(CountBits) + n, 2 + CountBits))
                  = BitsOf(b * Pow(CountBits) + n, 2 + CountBits)
  <2>1. b \in Nat /\ b < Pow(2)
    BY SmallPowers
  <2>2. PICK v \in Nat : v = b * Pow(CountBits) + n /\ v < Pow(2 + CountBits)
    BY <1>0, <2>1, MergedFits
  <2>3. Calls("write", v, 2 + CountBits) \in Seq(CallSet)
        /\ Bits(Calls("write", v, 2 + CountBits)) = BitsOf(v, 2 + CountBits)
    BY <1>0, <2>2, OneCall
  <2>4. QED
    BY <2>2, <2>3
<1>2. ASSUME NEW m \in 0 .. 3
      PROVE  /\ (4 + m) * Pow(CountBits) + n \in Nat /\ (4 + m) * Pow(CountBits) + n < Pow(3 + CountBits)
             /\ Calls("write", (4 + m) * Pow(CountBits) + n, 3 + CountBits) \in Seq(CallSet)
             /\ Bits(Calls("write", (4 + m) * Pow(CountBits) + n, 3 + CountBits))
                  = BitsOf((4 + m) * Pow(CountBits) + n, 3 + CountBits)
  <2>1. 4 + m \in Nat /\ 4 + m < Pow(3)
    BY SmallPowers
  <2>2. PICK v \in Nat : v = (4 + m) * Pow(CountBits) + n /\ v < Pow(3 + CountBits)
    BY <1>0, <2>1, MergedFits
  <2>3. Calls("write", v, 3 + CountBits) \in Seq(CallSet)
        /\ Bits(Calls("write", v, 3 + CountBits)) = BitsOf(v, 3 + CountBits)
    BY <1>0, <2>2, OneCall
  <2>4. QED
    BY <2>2, <2>3
<1>3. QED
  BY <1>1, <1>2

-----------------------------------------------------------------------------
(* What decode has written, and more of the file behind it.                *)
LEMMA WrittenOn ==
  ASSUME NEW S, NEW u \in Seq(S), NEW a \in 0 .. Len(u), NEW n \in Nat, a + n <= Len(u),
         NEW t, t = [k \in 1 .. n |-> u[a + k]]
  PROVE  SubSeq(u, 1, a) \o t = SubSeq(u, 1, a + n)
<1>1. Len(u) \in Nat /\ a \in Nat /\ a + n \in Nat /\ a + n \in 0 .. Len(u)
  OBVIOUS
<1>2. \A k \in 1 .. n : u[a + k] \in S
  BY <1>1
<1>3. t \in Seq(S) /\ Len(t) = n
  BY <1>2
<1>4. SubSeq(u, 1, a) \in Seq(S) /\ Len(SubSeq(u, 1, a)) = a
      /\ \A i \in 1 .. a : SubSeq(u, 1, a)[i] = u[i]
  BY <1>1
<1>5. SubSeq(u, 1, a + n) \in Seq(S) /\ Len(SubSeq(u, 1, a + n)) = a + n
      /\ \A i \in 1 .. a + n : SubSeq(u, 1, a + n)[i] = u[i]
  BY <1>1
<1>6. PICK q \in Seq(S) : q = SubSeq(u, 1, a) /\ Len(q) = a /\ \A i \in 1 .. a : q[i] = u[i]
  BY <1>4
<1>7. /\ q \o t \in Seq(S) /\ Len(q \o t) = a + n
      /\ \A i \in 1 .. a : (q \o t)[i] = u[i]
      /\ \A i \in 1 .. n : (q \o t)[a + i] = t[i]
  BY <1>3, <1>6, Joined
<1>8. ASSUME NEW i \in 1 .. a + n PROVE (q \o t)[i] = u[i]
  <2>1. CASE i \in 1 .. a
    BY <1>7, <2>1
  <2>2. CASE i \notin 1 .. a
    <3>1. PICK j \in 1 .. n : i = a + j
      BY <1>1, <2>2, i - a \in 1 .. n, i = a + (i - a)
    <3>2. QED
      BY <1>7, <3>1
  <2>3. QED
    BY <2>1, <2>2
<1>9. q \o t = SubSeq(u, 1, a + n)
  <2>1. PICK r \in Seq(S) : r = q \o t /\ Len(r) = a + n /\ \A i \in 1 .. a + n : r[i] = u[i]
    BY <1>7, <1>8
  <2>2. PICK p \in Seq(S) : p = SubSeq(u, 1, a + n) /\ Len(p) = a + n /\ \A i \in 1 .. a + n : p[i] = u[i]
    BY <1>5
  <2>3. r = p
    BY <2>1, <2>2, SameSequence
  <2>4. QED
    BY <2>1, <2>2, <2>3
<1>10. QED
  BY <1>6, <1>9

-----------------------------------------------------------------------------
(* The length of two in one.                                               *)
LEMMA JoinedLong ==
  ASSUME NEW S, NEW s \in Seq(S), NEW t \in Seq(S)
  PROVE  Len(Cat(s, t)) = Len(s) + Len(t)
BY Joined DEF Cat

(* Of sequences that begin alike, the parts behind.                        *)
LEMMA BehindIsSame ==
  ASSUME NEW S, NEW r \in Seq(S), NEW s \in Seq(S), NEW t \in Seq(S), NEW q \in Seq(S),
         Len(s) = Len(q),
         \A i \in 1 .. Len(Cat(r, q)) : Cat(r, q)[i] = Cat(r, Cat(s, t))[i]
  PROVE  s = q
<1>1. PICK l \in Nat, m \in Nat : l = Len(r) /\ m = Len(s) /\ m = Len(q)
  OBVIOUS
<1>2. Cat(s, t) \in Seq(S) /\ \A i \in 1 .. m : Cat(s, t)[i] = s[i]
  BY <1>1, Joined DEF Cat
<1>3. Len(Cat(s, t)) = m + Len(t)
  BY <1>1, Joined DEF Cat
<1>4. \A i \in 1 .. m : i \in 1 .. Len(Cat(s, t))
  BY <1>1, <1>3
<1>5. \A i \in 1 .. Len(Cat(s, t)) : Cat(r, Cat(s, t))[l + i] = Cat(s, t)[i]
  <2>1. PICK p \in Seq(S) : p = Cat(s, t)
    BY <1>2
  <2>2. \A i \in 1 .. Len(p) : Cat(r, p)[l + i] = p[i]
    BY <1>1, Joined DEF Cat
  <2>3. QED
    BY <2>1, <2>2
<1>6. Len(Cat(r, q)) = l + m /\ \A i \in 1 .. m : Cat(r, q)[l + i] = q[i]
  BY <1>1, Joined DEF Cat
<1>7. ASSUME NEW i \in 1 .. m PROVE s[i] = q[i]
  <2>1. l + i \in 1 .. Len(Cat(r, q))
    BY <1>1, <1>6
  <2>2. Cat(r, q)[l + i] = Cat(r, Cat(s, t))[l + i]
    BY <2>1
  <2>3. QED
    BY <1>2, <1>4, <1>5, <1>6, <2>2
<1>8. QED
  BY <1>1, <1>7, SameSequence

(* When n bits of a value are the next to come, a value of n bits can be   *)
(* read and is that one.                                                   *)
LEMMA TakenIs ==
  ASSUME IInv, NEW n \in 1 .. W, NEW b \in Nat, b < Pow(n), NEW r \in Seq(0 .. 1),
         sent = Cat(received, Cat(BitsOf(b, n), r))
  PROVE  /\ MayRead(n) /\ (spos > 0 => spos <= Len(file))
         /\ \A v \in Nat : v < Pow(n) /\ Read(n, v)
              => v = b /\ sent' = Cat(received', r) /\ IInv' /\ spos' > 0 /\ flushed' = flushed
<1>0. n \in Nat /\ W \in Nat
  BY Assumed
<1>1. received \in Seq(0 .. 1) /\ sent \in Seq(0 .. 1)
  BY DEF IInv, Types
<1>2. BitsOf(b, n) \in Seq(0 .. 1) /\ Len(BitsOf(b, n)) = n
  BY <1>0, BitsAre
<1>3. Cat(BitsOf(b, n), r) \in Seq(0 .. 1) /\ Len(Cat(BitsOf(b, n), r)) = n + Len(r)
  BY <1>2, JoinedTwice, JoinedLong
<1>4. Len(sent) = Len(received) + (n + Len(r))
  BY <1>1, <1>3, JoinedLong
<1>5. MayRead(n)
  BY <1>0, <1>1, <1>4 DEF MayRead
<1>6. spos > 0 => spos <= Len(file)
  <2>1. ASSUME spos > 0 PROVE spos <= Len(file)
    <3>1. spos \in 1 .. Len(file)
      BY <1>5, <2>1, ReaderStands
    <3>2. Len(file) \in Nat
      BY DEF IInv, Types
    <3>3. QED
      BY <3>1, <3>2
  <2>2. QED
    BY <2>1
<1>7. ASSUME NEW v \in Nat, v < Pow(n), Read(n, v)
      PROVE  v = b /\ sent' = Cat(received', r) /\ IInv' /\ spos' > 0 /\ flushed' = flushed
  <2>1. IInv'
    BY <1>5, <1>7, ReadStep
  <2>2. PICK q \in Seq(0 .. 1) : q = BitsOf(v, n) /\ Len(q) = n
    BY <1>0, BitsAre
  <2>3. received' = Cat(received, q) /\ sent' = sent /\ spos > 0 /\ flushed' = flushed
    BY <1>7, <2>2 DEF Read, Cat, writer
  <2>4. Cat(received, q) \in Seq(0 .. 1)
    BY <1>1, <2>2, JoinedTwice
  <2>5. \A i \in 1 .. Len(Cat(received, q)) : Cat(received, q)[i] = Cat(received, Cat(BitsOf(b, n), r))[i]
    <3>1. \A i \in 1 .. Len(received') : received'[i] = sent'[i]
      BY <2>1 DEF IInv, ReaderInv
    <3>2. QED
      BY <2>3, <3>1
  <2>6. BitsOf(b, n) = q
    <3>1. PICK t : t = BitsOf(b, n)
      OBVIOUS
    <3>2. t \in Seq(0 .. 1) /\ Len(t) = Len(q)
      BY <1>2, <2>2, <3>1
    <3>3. \A i \in 1 .. Len(Cat(received, q)) : Cat(received, q)[i] = Cat(received, Cat(t, r))[i]
      BY <2>5, <3>1
    <3>4. received \in Seq(0 .. 1) /\ q \in Seq(0 .. 1) /\ r \in Seq(0 .. 1)
      BY <1>1
    <3>5. PICK p \in Seq(0 .. 1) : p = received
      BY <3>4
    <3>6. \A i \in 1 .. Len(Cat(p, q)) : Cat(p, q)[i] = Cat(p, Cat(t, r))[i]
      BY <3>3, <3>5
    <3>7. t = q
      BY ONLY <3>2, <3>4, <3>6, BehindIsSame
    <3>8. QED
      BY <3>1, <3>7
  <2>7. v = b
    BY <1>0, <1>7, <2>2, <2>6, BitsTell
  <2>8. sent' = Cat(received', r)
    <3>1. Cat(Cat(received, q), r) = Cat(received, Cat(q, r))
      BY <1>1, <2>2, JoinedTwice
    <3>2. QED
      BY <2>3, <2>6, <3>1
  <2>9. spos' > 0
    <3>1. spos' \in Nat /\ (spos' = 0 => received' = <<>>)
      BY <2>1 DEF IInv, Types, ReaderInv
    <3>2. Len(received') = Len(received) + n
      BY <1>1, <2>2, <2>3, JoinedLong
    <3>3. received' # <<>>
      <4>1. Len(received') # 0
        BY <1>0, <1>1, <3>2
      <4>2. QED
        BY <4>1
    <3>4. QED
      BY <3>1, <3>3
  <2>10. QED
    BY <2>1, <2>3, <2>7, <2>8, <2>9
<1>8. QED
  BY <1>5, <1>6, <1>7

(* The same for pop.                                                       *)
LEMMA PoppedIs ==
  ASSUME IInv, NEW b \in Nat, b < Pow(1), NEW r \in Seq(0 .. 1),
         sent = Cat(received, Cat(BitsOf(b, 1), r))
  PROVE  /\ MayRead(1) /\ (spos > 0 => spos <= Len(file))
         /\ \A v \in {0, 1} : Pop(v)
              => v = b /\ sent' = Cat(received', r) /\ IInv' /\ spos' > 0 /\ flushed' = flushed
<1>0. 1 \in 1 .. W
  BY Assumed
<1>1. MayRead(1) /\ (spos > 0 => spos <= Len(file))
  BY <1>0, TakenIs
<1>2. ASSUME NEW v \in {0, 1}, Pop(v)
      PROVE  v = b /\ sent' = Cat(received', r) /\ IInv' /\ spos' > 0 /\ flushed' = flushed
  <2>1. v \in 0 .. 1 /\ v \in Nat /\ v < Pow(1)
    BY SmallPowers
  <2>2. Read(1, v)
    BY <1>1, <1>2, <2>1, PopIsRead
  <2>3. QED
    BY <1>0, <2>1, <2>2, TakenIs
<1>3. QED
  BY <1>1, <1>2

-----------------------------------------------------------------------------
(* The invariant.  Where decode stands, it follows the file: what is still *)
(* to come of the stream leads to its end.                                 *)
Follows(x) ==
  /\ Leads(unpack, x) /\ x.pc = pc
  /\ sent = Cat(received, x.rest)
  /\ dst = SubSeq(unpack, 1, x.at) /\ dincr = x.dincr
  /\ pc \in {"count", "flags"} => mode = x.mode
  /\ pc = "flags" => cnt = x.cnt /\ flags = x.flags /\ left = x.left

(* The bits t are the stream of the file u.                                *)
Begins(u, t) == Leads(u, AtPacket(t, incrementing_value(u), 0))

(* The words encode has taken last wait.                                   *)
Waits ==
  /\ pos \in 0 .. Len(unpack) /\ incr \in Counters(unpack)
  /\ buf \in Seq(WordSet) /\ Len(buf) <= CMax /\ Len(buf) <= pos
  /\ \A i \in 1 .. Len(buf) : buf[i] = unpack[(pos - Len(buf)) + i]

NotBegun ==
  received = <<>> /\ spos = 0 /\ dst = <<>> /\ dincr = incrementing_value(unpack)

(* What encode has sent and called for needs only what leads from the      *)
(* words that wait to the end of the file.                                 *)
EncodeInv ==
  pc = "encoding" =>
    /\ NotBegun /\ ~flushed /\ Waits /\ todo \in Seq(CallSet)
    /\ \A c \in Seq(0 .. 1) :
         Leads(unpack, AtPacket(c, incr, pos - Len(buf)))
           => Begins(unpack, Cat(Cat(sent, Bits(todo)), c))

EndInv ==
  pc = "ending" =>
    NotBegun /\ ~flushed /\ todo \in Seq(CallSet) /\ Begins(unpack, Cat(sent, Bits(todo)))

HeaderInv ==
  pc = "header" => NotBegun /\ flushed /\ todo = <<>> /\ Begins(unpack, sent)

Decoding == {"packet", "kind", "mode", "count", "flags", "done"}
DecodeInv ==
  pc \in Decoding => flushed /\ spos > 0 /\ todo = <<>> /\ \E x : Follows(x)

EInv ==
  /\ IInv /\ unpack \in Files /\ pc \in {"encoding", "ending", "header"} \cup Decoding
  /\ EncodeInv /\ EndInv /\ HeaderInv /\ DecodeInv

-----------------------------------------------------------------------------
(* Before the first word is taken.                                         *)
LEMMA InitEInv == ASSUME Init PROVE EInv
<1>1. StreamInit /\ unpack \in Files /\ pos = 0 /\ incr = incrementing_value(unpack) /\ buf = <<>>
      /\ todo = <<>> /\ pc = "encoding" /\ dincr = incrementing_value(unpack) /\ dst = <<>>
  BY DEF Init
<1>2. IInv /\ ~flushed /\ spos = 0 /\ received = <<>> /\ sent = <<>>
  BY <1>1, InitIInv DEF StreamInit
<1>3. Waits
  <2>1. Len(buf) = 0 /\ buf \in Seq(WordSet) /\ Len(unpack) \in Nat /\ CMax \in Nat
    BY <1>1, FilesAre, Assumed
  <2>2. pos \in 0 .. Len(unpack) /\ Len(buf) <= CMax /\ Len(buf) <= pos
    BY <1>1, <2>1
  <2>3. incr \in Counters(unpack)
    BY <1>1 DEF Counters
  <2>4. \A i \in 1 .. Len(buf) : FALSE
    BY <2>1
  <2>5. QED
    BY <2>1, <2>2, <2>3, <2>4 DEF Waits
<1>4. ASSUME NEW c \in Seq(0 .. 1), Leads(unpack, AtPacket(c, incr, pos - Len(buf)))
      PROVE  Begins(unpack, Cat(Cat(sent, Bits(todo)), c))
  <2>1. pos - Len(buf) = 0
    <3>1. Len(<<>>) = 0 /\ 0 - 0 = 0
      OBVIOUS
    <3>2. QED
      BY <1>1, <3>1
  <2>2. Bits(todo) = <<>> /\ <<>> \in Seq(0 .. 1)
    BY <1>1, BitsNone
  <2>3. Cat(Cat(sent, Bits(todo)), c) = c
    BY <1>2, <2>2, JoinedToNone
  <2>4. QED
    BY <1>1, <1>4, <2>1, <2>3 DEF Begins
<1>5. todo \in Seq(CallSet)
  BY <1>1
<1>6. EncodeInv
  BY <1>1, <1>2, <1>3, <1>4, <1>5 DEF EncodeInv, NotBegun
<1>7. QED
  BY <1>1, <1>2, <1>6 DEF EInv, EndInv, HeaderInv, DecodeInv, Decoding

(* encode in the state it leaves.                                          *)
LEMMA EncodesOn ==
  ASSUME IInv', unpack' \in Files, pc' = "encoding", NotBegun', ~flushed', Waits',
         todo' \in Seq(CallSet),
         \A c \in Seq(0 .. 1) :
           Leads(unpack', AtPacket(c, incr', pos' - Len(buf')))
             => Begins(unpack', Cat(Cat(sent', Bits(todo')), c))
  PROVE  EInv'
BY DEF EInv, EncodeInv, EndInv, HeaderInv, DecodeInv, Decoding

(* What the invariant says when no call is waiting.                        *)
LEMMA EncodingIs ==
  ASSUME EInv, pc = "encoding", todo = <<>>
  PROVE  /\ IInv /\ unpack \in Files /\ NotBegun /\ ~flushed /\ Waits
         /\ sent \in Seq(0 .. 1)
         /\ \A c \in Seq(0 .. 1) :
              Leads(unpack, AtPacket(c, incr, pos - Len(buf))) => Begins(unpack, Cat(sent, c))
<1>1. IInv /\ unpack \in Files /\ NotBegun /\ ~flushed /\ Waits
  BY DEF EInv, EncodeInv
<1>2. sent \in Seq(0 .. 1)
  BY <1>1 DEF IInv, Types
<1>3. Cat(sent, Bits(todo)) = sent
  BY <1>2, BitsNone, JoinedToNone
<1>4. QED
  BY <1>1, <1>2, <1>3 DEF EInv, EncodeInv

(* What waits is written out, and the calls behind it.                     *)
LEMMA FlushedLeads ==
  ASSUME EInv, pc = "encoding", todo = <<>>, NEW t \in Seq(CallSet)
  PROVE  /\ FlushBuffer(buf) \in Seq(CallSet) /\ Cat(FlushBuffer(buf), t) \in Seq(CallSet)
         /\ \A c \in Seq(0 .. 1) :
              Leads(unpack, AtPacket(Cat(Bits(t), c), incr, pos))
                => Begins(unpack, Cat(Cat(sent, Bits(Cat(FlushBuffer(buf), t))), c))
<1>1. /\ unpack \in Files /\ sent \in Seq(0 .. 1)
      /\ pos \in 0 .. Len(unpack) /\ incr \in Counters(unpack)
      /\ buf \in Seq(WordSet) /\ Len(buf) <= CMax /\ Len(buf) <= pos
      /\ \A i \in 1 .. Len(buf) : buf[i] = unpack[(pos - Len(buf)) + i]
      /\ \A c \in Seq(0 .. 1) :
           Leads(unpack, AtPacket(c, incr, pos - Len(buf))) => Begins(unpack, Cat(sent, c))
  BY EncodingIs DEF Waits
<1>2. PICK s \in Nat : s = pos - Len(buf) /\ s + Len(buf) = pos /\ s + Len(buf) <= Len(unpack)
  <2>1. Len(buf) \in Nat /\ pos \in Nat /\ Len(unpack) \in Nat /\ pos <= Len(unpack)
        /\ Len(buf) <= pos
    BY <1>1, FilesAre
  <2>2. pos - Len(buf) \in Nat /\ (pos - Len(buf)) + Len(buf) = pos
    BY <2>1
  <2>3. QED
    BY <2>1, <2>2
<1>3. /\ FlushBuffer(buf) \in Seq(CallSet)
      /\ \A c \in Seq(0 .. 1), d \in Counters(unpack) :
           Leads(unpack, AtPacket(c, d, s + Len(buf)))
             => Leads(unpack, AtPacket(Cat(Bits(FlushBuffer(buf)), c), d, s))
  BY <1>1, <1>2, FlushIsCalls
<1>4. PICK f \in Seq(CallSet) : f = FlushBuffer(buf)
  BY <1>3
<1>5. Bits(f) \in Seq(0 .. 1) /\ Bits(t) \in Seq(0 .. 1) /\ Bits(Cat(f, t)) = Cat(Bits(f), Bits(t))
      /\ Cat(f, t) \in Seq(CallSet)
  BY BitsAreBits, BitsJoined, JoinedTwice
<1>6. ASSUME NEW c \in Seq(0 .. 1), Leads(unpack, AtPacket(Cat(Bits(t), c), incr, pos))
      PROVE  Begins(unpack, Cat(Cat(sent, Bits(Cat(f, t))), c))
  <2>1. Cat(Bits(t), c) \in Seq(0 .. 1) /\ Cat(Bits(f), Cat(Bits(t), c)) \in Seq(0 .. 1)
    BY <1>5, JoinedTwice
  <2>2. Leads(unpack, AtPacket(Cat(Bits(f), Cat(Bits(t), c)), incr, s))
    BY <1>1, <1>2, <1>3, <1>4, <1>6, <2>1
  <2>3. Begins(unpack, Cat(sent, Cat(Bits(f), Cat(Bits(t), c))))
    BY <1>1, <1>2, <2>1, <2>2
  <2>4. Cat(Cat(sent, Bits(Cat(f, t))), c) = Cat(sent, Cat(Bits(f), Cat(Bits(t), c)))
    <3>1. Cat(Bits(f), Bits(t)) \in Seq(0 .. 1)
      BY <1>5, JoinedTwice
    <3>2. Cat(Cat(sent, Cat(Bits(f), Bits(t))), c) = Cat(sent, Cat(Cat(Bits(f), Bits(t)), c))
      BY <1>1, <3>1, JoinedTwice
    <3>3. Cat(Cat(Bits(f), Bits(t)), c) = Cat(Bits(f), Cat(Bits(t), c))
      BY <1>5, JoinedTwice
    <3>4. QED
      BY <1>5, <3>2, <3>3
  <2>5. QED
    BY <2>3, <2>4
<1>7. QED
  BY <1>4, <1>5, <1>6

(* A packet leaves the invariant intact if its calls lead from where it    *)
(* begins to where it ends.                                                *)
LEMMA PacketStep ==
  ASSUME EInv, Encoding, NEW t \in Seq(CallSet), NEW n \in Nat, Packet(t, n),
         pos + 1 + n <= Len(unpack), incr' \in Counters(unpack),
         \A c \in Seq(0 .. 1) :
           Leads(unpack, AtPacket(c, incr', pos + 1 + n))
             => Leads(unpack, AtPacket(Cat(Bits(t), c), incr, pos))
  PROVE  EInv'
<1>1. pc = "encoding" /\ todo = <<>>
  BY DEF Encoding
<1>2. IInv /\ unpack \in Files /\ NotBegun /\ ~flushed /\ Waits /\ sent \in Seq(0 .. 1)
  BY <1>1, EncodingIs
<1>3. /\ todo' = Cat(FlushBuffer(buf), t) /\ buf' = <<>> /\ pos' = pos + 1 + n
      /\ unpack' = unpack /\ pc' = pc /\ dst' = dst /\ dincr' = dincr /\ UNCHANGED <<writer, reader>>
  BY DEF Packet, Cat, decoder
<1>4. IInv' /\ NotBegun' /\ ~flushed' /\ sent' = sent
  BY <1>2, <1>3, IdleStep DEF NotBegun, writer, reader
<1>5. Len(buf') = 0 /\ pos' \in 0 .. Len(unpack) /\ pos' - Len(buf') = pos + 1 + n
  <2>1. pos \in Nat /\ Len(unpack) \in Nat /\ Len(buf') = 0
    BY <1>2, <1>3, FilesAre DEF Waits
  <2>2. QED
    BY <1>3, <2>1
<1>6. Waits'
  <2>1. CMax \in Nat /\ pos' \in Nat /\ buf' \in Seq(WordSet)
    BY <1>3, <1>5, Assumed
  <2>2. QED
    BY <1>3, <1>5, <2>1 DEF Waits
<1>7. todo' \in Seq(CallSet)
  BY <1>1, <1>3, FlushedLeads
<1>8. ASSUME NEW c \in Seq(0 .. 1), Leads(unpack', AtPacket(c, incr', pos' - Len(buf')))
      PROVE  Begins(unpack', Cat(Cat(sent', Bits(todo')), c))
  <2>1. Leads(unpack, AtPacket(Cat(Bits(t), c), incr, pos))
    BY <1>3, <1>5, <1>8
  <2>2. Begins(unpack, Cat(Cat(sent, Bits(Cat(FlushBuffer(buf), t))), c))
    BY <1>1, <2>1, FlushedLeads
  <2>3. QED
    BY <1>3, <1>4, <2>2
<1>9. QED
  BY <1>1, <1>2, <1>3, <1>4, <1>6, <1>7, <1>8, EncodesOn

(* The word encode is about to take.                                       *)
LEMMA WordIs ==
  ASSUME EInv, Encoding
  PROVE  /\ pos \in Nat /\ pos \in 0 .. Len(unpack) /\ pos + 1 \in 1 .. Len(unpack)
         /\ unpack \in Files /\ word = unpack[pos + 1] /\ word \in WordSet /\ word \in Nat /\ word < Mod
         /\ incr \in Counters(unpack)
<1>1. unpack \in Files /\ Waits /\ pos < Len(unpack)
  BY EncodingIs DEF Encoding
<1>2. pos \in Nat /\ Len(unpack) \in Nat
  BY <1>1, FilesAre DEF Waits
<1>3. pos + 1 \in 1 .. Len(unpack)
  BY <1>1, <1>2
<1>4. QED
  BY <1>1, <1>2, <1>3, FilesAre DEF Waits, word

(* A word is no wider than a word.                                         *)
LEMMA ModOfWord ==
  ASSUME NEW w \in WordSet
  PROVE  w % Mod = w
<1>1. w \in Nat /\ w < Pow(LowBits + FlagBits) /\ LowBits + FlagBits \in Nat
  BY Assumed DEF WordSet
<1>2. QED
  BY <1>1, BelowItsPower, Assumed

(* The steps of encode, each with the lemma on its packet.                 *)
LEMMA IncrementingStep == ASSUME EInv, Incrementing PROVE EInv'
<1>1. Encoding /\ word = incr
  BY DEF Incrementing
<1>2. PICK p : p = pos + 1
  OBVIOUS
<1>3. /\ pos \in Nat /\ pos \in 0 .. Len(unpack) /\ p \in 1 .. Len(unpack) /\ unpack \in Files
      /\ word = unpack[p] /\ word \in WordSet /\ word \in Nat /\ Len(unpack) \in Nat
  BY <1>1, <1>2, WordIs, FilesAre
<1>4. PICK n \in 0 .. CMax :
        /\ n = StepsOf(p, 1, {}) /\ p + n <= Len(unpack)
        /\ \A k \in 1 .. n : unpack[p + k] = (unpack[p] + k * 1) % Mod
  BY <1>3, StepsAre
<1>5. n \in Nat /\ CMax \in Nat
  BY Assumed
<1>6. PICK t : t = Calls("write", n, 2 + CountBits)
  OBVIOUS
<1>7. t \in Seq(CallSet) /\ Bits(t) = BitsOf(n, 2 + CountBits)
  <2>1. 0 * Pow(CountBits) + n = n
    BY <1>5, Assumed, PowersAreNumbers
  <2>2. QED
    BY <1>6, <2>1, TaggedFits, 0 \in 0 .. 1
<1>8. Packet(t, n) /\ incr' = (word + 1 + n) % Mod
  BY <1>2, <1>4, <1>6 DEF Incrementing
<1>9. incr' \in Counters(unpack)
  <2>1. word + 1 + n \in Nat /\ Mod \in Nat \ {0}
    BY <1>3, <1>5, Assumed
  <2>2. incr' \in 0 .. Mod - 1
    BY <1>8, <2>1
  <2>3. QED
    BY <2>2 DEF Counters, WordSet
<1>10. pos + n + 1 <= Len(unpack) /\ pos + 1 + n = pos + n + 1 /\ word + 1 + n = word + n + 1
       /\ pos + 1 + n <= Len(unpack)
  BY <1>2, <1>3, <1>4, <1>5
<1>11. ASSUME NEW k \in 1 .. n + 1 PROVE unpack[pos + k] = (word + k - 1) % Mod
  <2>1. CASE k = 1
    <3>1. word + k - 1 = word /\ pos + k = p
      BY <1>2, <1>3, <2>1
    <3>2. word % Mod = word
      BY <1>3, ModOfWord
    <3>3. QED
      BY <1>3, <3>1, <3>2
  <2>2. CASE k # 1
    <3>1. PICK j \in 1 .. n : k = j + 1 /\ pos + k = p + j /\ word + k - 1 = word + j * 1
      BY <1>2, <1>3, <1>5, <2>2, k - 1 \in 1 .. n
    <3>2. QED
      BY <1>3, <1>4, <3>1
  <2>3. QED
    BY <2>1, <2>2
<1>12. ASSUME NEW c \in Seq(0 .. 1), Leads(unpack, AtPacket(c, incr', pos + 1 + n))
       PROVE  Leads(unpack, AtPacket(Cat(Bits(t), c), incr, pos))
  <2>1. PICK d \in WordSet : d = word /\ d = incr
    BY <1>1, <1>3
  <2>2. \A k \in 1 .. n + 1 : unpack[pos + k] = (d + k - 1) % Mod
    BY <1>11, <2>1
  <2>3. Leads(unpack, AtPacket(c, (d + n + 1) % Mod, pos + n + 1))
    BY <1>8, <1>10, <1>12, <2>1
  <2>4. Leads(unpack, AtPacket(Cat(BitsOf(n, 2 + CountBits), c), d, pos))
    BY <1>3, <1>10, <2>2, <2>3, IncrementingLeads
  <2>5. QED
    BY <1>7, <2>1, <2>4
<1>13. QED
  BY <1>1, <1>5, <1>7, <1>8, <1>9, <1>10, <1>12, PacketStep

LEMMA CommonStep == ASSUME EInv, Common PROVE EInv'
<1>1. Encoding /\ word = common_value(unpack) /\ incr' = incr
  BY DEF Common
<1>2. PICK p : p = pos + 1
  OBVIOUS
<1>3. /\ pos \in Nat /\ pos \in 0 .. Len(unpack) /\ p \in 1 .. Len(unpack) /\ unpack \in Files
      /\ word = unpack[p] /\ word \in WordSet /\ word \in Nat /\ Len(unpack) \in Nat
      /\ incr \in Counters(unpack)
  BY <1>1, <1>2, WordIs, FilesAre
<1>4. PICK n \in 0 .. CMax :
        /\ n = StepsOf(p, 0, {}) /\ p + n <= Len(unpack)
        /\ \A k \in 1 .. n : unpack[p + k] = (unpack[p] + k * 0) % Mod
  BY <1>3, StepsAre
<1>5. n \in Nat /\ CMax \in Nat
  BY Assumed
<1>6. PICK t : t = Calls("write", Pow(CountBits) + n, 2 + CountBits)
  OBVIOUS
<1>7. t \in Seq(CallSet) /\ Bits(t) = BitsOf(Pow(CountBits) + n, 2 + CountBits)
  <2>1. 1 * Pow(CountBits) + n = Pow(CountBits) + n
    BY <1>5, Assumed, PowersAreNumbers
  <2>2. QED
    BY <1>6, <2>1, TaggedFits, 1 \in 0 .. 1
<1>8. Packet(t, n)
  BY <1>2, <1>4, <1>6 DEF Common
<1>9. pos + n + 1 <= Len(unpack) /\ pos + 1 + n = pos + n + 1 /\ pos + 1 + n <= Len(unpack)
  BY <1>2, <1>3, <1>4, <1>5
<1>10. ASSUME NEW k \in 1 .. n + 1 PROVE unpack[pos + k] = common_value(unpack)
  <2>1. CASE k = 1
    BY <1>1, <1>2, <1>3, <2>1
  <2>2. CASE k # 1
    <3>1. PICK j \in 1 .. n : k = j + 1 /\ pos + k = p + j /\ word + j * 0 = word
      BY <1>2, <1>3, <1>5, <2>2, k - 1 \in 1 .. n
    <3>2. word % Mod = word
      BY <1>3, ModOfWord
    <3>3. QED
      BY <1>1, <1>3, <1>4, <3>1, <3>2
  <2>3. QED
    BY <2>1, <2>2
<1>11. ASSUME NEW c \in Seq(0 .. 1), Leads(unpack, AtPacket(c, incr', pos + 1 + n))
       PROVE  Leads(unpack, AtPacket(Cat(Bits(t), c), incr, pos))
  <2>1. Leads(unpack, AtPacket(c, incr, pos + n + 1))
    BY <1>1, <1>9, <1>11
  <2>2. Leads(unpack, AtPacket(Cat(BitsOf(Pow(CountBits) + n, 2 + CountBits), c), incr, pos))
    BY <1>3, <1>9, <1>10, <2>1, CommonLeads
  <2>3. QED
    BY <1>7, <2>2
<1>12. QED
  BY <1>1, <1>3, <1>5, <1>7, <1>8, <1>9, <1>11, PacketStep

LEMMA SteppedStep == ASSUME EInv, Stepped PROVE EInv'
<1>1. Encoding /\ incr' = incr
  BY DEF Stepped
<1>2. PICK p : p = pos + 1
  OBVIOUS
<1>3. /\ pos \in Nat /\ pos \in 0 .. Len(unpack) /\ p \in 1 .. Len(unpack) /\ unpack \in Files
      /\ word = unpack[p] /\ Len(unpack) \in Nat /\ incr \in Counters(unpack) /\ p - 1 = pos
  BY <1>1, <1>2, WordIs, FilesAre
<1>4. PICK m \in 0 .. 2 :
        Packet(Calls("write", (4 + m) * Pow(CountBits) + StepsOf(p, Deltas[m], {incr}), 3 + CountBits)
                 \o Inlined(word), StepsOf(p, Deltas[m], {incr}))
  BY <1>2 DEF Stepped, Deltas
<1>5. PICK d : d = Deltas[m]
  OBVIOUS
<1>6. PICK n \in 0 .. CMax :
        /\ n = StepsOf(p, d, {incr}) /\ p + n <= Len(unpack)
        /\ \A k \in 1 .. n : unpack[p + k] = (unpack[p] + k * d) % Mod
  BY <1>3, StepsAre
<1>7. n \in Nat /\ CMax \in Nat
  BY Assumed
<1>8. PICK q : q = Calls("write", (4 + m) * Pow(CountBits) + n, 3 + CountBits)
  OBVIOUS
<1>9. q \in Seq(CallSet) /\ Bits(q) = BitsOf((4 + m) * Pow(CountBits) + n, 3 + CountBits)
  BY <1>8, TaggedFits, m \in 0 .. 3
<1>10. PICK i \in Seq(CallSet) : i = Inlined(unpack[p])
  BY <1>3, InlinedIsCalls
<1>11. PICK t : t = Cat(q, i)
  OBVIOUS
<1>12. t \in Seq(CallSet) /\ Bits(t) = Cat(Bits(q), Bits(i))
  BY <1>9, <1>10, <1>11, BitsJoined, JoinedTwice
<1>13. Packet(t, n)
  BY <1>3, <1>4, <1>5, <1>6, <1>8, <1>10, <1>11 DEF Cat
<1>14. pos + 1 + n = p + n /\ pos + 1 + n <= Len(unpack)
  BY <1>2, <1>3, <1>6, <1>7
<1>15. ASSUME NEW c \in Seq(0 .. 1), Leads(unpack, AtPacket(c, incr', pos + 1 + n))
       PROVE  Leads(unpack, AtPacket(Cat(Bits(t), c), incr, pos))
  <2>1. Leads(unpack, AtPacket(c, incr, p + n))
    BY <1>1, <1>14, <1>15
  <2>2. \A k \in 1 .. n : unpack[p + k] = (unpack[p] + k * Deltas[m]) % Mod
    BY <1>5, <1>6
  <2>3. Leads(unpack, AtPacket(Cat(BitsOf((4 + m) * Pow(CountBits) + n, 3 + CountBits),
                                   Cat(Bits(Inlined(unpack[p])), c)), incr, p - 1))
    BY <1>3, <1>6, <2>1, <2>2, SteppedLeads
  <2>4. Leads(unpack, AtPacket(Cat(Bits(q), Cat(Bits(i), c)), incr, pos))
    BY <1>3, <1>9, <1>10, <2>3
  <2>5. Bits(q) \in Seq(0 .. 1) /\ Bits(i) \in Seq(0 .. 1)
    BY <1>9, <1>10, BitsAreBits
  <2>6. Cat(Cat(Bits(q), Bits(i)), c) = Cat(Bits(q), Cat(Bits(i), c))
    BY <2>5, JoinedTwice
  <2>7. QED
    BY <1>12, <2>4, <2>6
<1>16. QED
  BY <1>1, <1>3, <1>7, <1>12, <1>13, <1>14, <1>15, PacketStep

(* A word that waits; when too many do, they are written out first.        *)
LEMMA SingleStep == ASSUME EInv, Single PROVE EInv'
<1>1. Encoding /\ pc = "encoding" /\ todo = <<>>
  BY DEF Single, Encoding
<1>2. IInv /\ unpack \in Files /\ NotBegun /\ ~flushed /\ Waits /\ sent \in Seq(0 .. 1)
      /\ \A c \in Seq(0 .. 1) :
           Leads(unpack, AtPacket(c, incr, pos - Len(buf))) => Begins(unpack, Cat(sent, c))
  BY <1>1, EncodingIs
<1>3. /\ pos' = pos + 1 /\ unpack' = unpack /\ incr' = incr
      /\ pc' = pc /\ dst' = dst /\ dincr' = dincr /\ UNCHANGED <<writer, reader>>
  BY DEF Single, decoder
<1>4. IInv' /\ NotBegun' /\ ~flushed' /\ sent' = sent
  BY <1>2, <1>3, IdleStep DEF NotBegun, writer, reader
<1>5. PICK w \in WordSet : w = word /\ w = unpack[pos + 1]
  BY <1>1, WordIs
<1>6. pos \in Nat /\ pos' \in 0 .. Len(unpack) /\ Len(unpack) \in Nat /\ CMax \in Nat /\ CMax >= 1
  BY <1>1, <1>2, <1>3, WordIs, FilesAre, Assumed
<1>7. CASE FullBuffer
  <2>1. todo' = FlushBuffer(buf) /\ buf' = << w >>
    BY <1>5, <1>7 DEF Single
  <2>2. Len(buf') = 1 /\ buf' \in Seq(WordSet) /\ buf'[1] = w /\ pos' - Len(buf') = pos
    BY <1>3, <1>6, <2>1
  <2>3. Waits'
    <3>1. \A i \in 1 .. Len(buf') : buf'[i] = unpack[(pos' - Len(buf')) + i]
      BY <1>5, <2>2
    <3>2. QED
      BY <1>2, <1>3, <1>6, <2>2, <3>1 DEF Waits
  <2>4. <<>> \in Seq(CallSet)
    OBVIOUS
  <2>5. FlushBuffer(buf) \in Seq(CallSet) /\ Cat(FlushBuffer(buf), <<>>) = FlushBuffer(buf)
    BY <1>1, <2>4, FlushedLeads, JoinedToNone
  <2>6. ASSUME NEW c \in Seq(0 .. 1), Leads(unpack', AtPacket(c, incr', pos' - Len(buf')))
        PROVE  Begins(unpack', Cat(Cat(sent', Bits(todo')), c))
    <3>1. Cat(Bits(<<>>), c) = c
      BY BitsNone, JoinedToNone
    <3>2. Leads(unpack, AtPacket(Cat(Bits(<<>>), c), incr, pos))
      BY <1>3, <2>2, <2>6, <3>1
    <3>3. Begins(unpack, Cat(Cat(sent, Bits(Cat(FlushBuffer(buf), <<>>))), c))
      BY <1>1, <2>4, <3>2, FlushedLeads
    <3>4. QED
      BY <1>3, <1>4, <2>1, <2>5, <3>3
  <2>7. QED
    BY <1>1, <1>2, <1>3, <1>4, <2>1, <2>3, <2>5, <2>6, EncodesOn
<1>8. CASE ~FullBuffer
  <2>1. todo' = <<>> /\ buf' = Append(buf, w)
    BY <1>5, <1>8 DEF Single
  <2>2. PICK l \in Nat : l = Len(buf) /\ l < CMax /\ l <= pos /\ buf \in Seq(WordSet)
    <3>1. Len(buf) \in Nat /\ ~(Len(buf) >= CMax) /\ Len(buf) <= pos /\ buf \in Seq(WordSet)
      BY <1>2, <1>8 DEF FullBuffer, Waits
    <3>2. QED
      BY <1>6, <3>1
  <2>3. buf' \in Seq(WordSet) /\ Len(buf') = l + 1 /\ buf'[l + 1] = w
        /\ \A i \in 1 .. l : buf'[i] = buf[i]
    BY <2>1, <2>2, Appended
  <2>4. pos' - Len(buf') = pos - Len(buf) /\ Len(buf') <= CMax /\ Len(buf') <= pos'
        /\ (pos - l) + (l + 1) = pos + 1
    BY <1>3, <1>6, <2>2, <2>3
  <2>5. \A i \in 1 .. Len(buf') : buf'[i] = unpack[(pos' - Len(buf')) + i]
    <3>1. ASSUME NEW i \in 1 .. l + 1 PROVE buf'[i] = unpack[(pos - l) + i]
      <4>1. CASE i = l + 1
        BY <1>5, <2>3, <2>4, <4>1
      <4>2. CASE i # l + 1
        <5>1. i \in 1 .. l
          BY <2>2, <4>2
        <5>2. buf[i] = unpack[(pos - l) + i]
          BY <1>2, <2>2, <5>1 DEF Waits
        <5>3. QED
          BY <2>3, <5>1, <5>2
      <4>3. QED
        BY <4>1, <4>2
    <3>2. QED
      BY <2>2, <2>3, <2>4, <3>1
  <2>6. Waits'
    BY <1>2, <1>3, <1>6, <2>3, <2>4, <2>5 DEF Waits
  <2>7. ASSUME NEW c \in Seq(0 .. 1), Leads(unpack', AtPacket(c, incr', pos' - Len(buf')))
        PROVE  Begins(unpack', Cat(Cat(sent', Bits(todo')), c))
    <3>1. Begins(unpack, Cat(sent, c))
      BY <1>2, <1>3, <2>4, <2>7
    <3>2. Cat(sent, Bits(<<>>)) = sent
      BY <1>2, BitsNone, JoinedToNone
    <3>3. QED
      BY <1>3, <1>4, <2>1, <3>1, <3>2
  <2>8. todo' \in Seq(CallSet)
    BY <2>1
  <2>9. QED
    BY <1>1, <1>2, <1>3, <1>4, <2>6, <2>7, <2>8, EncodesOn
<1>9. QED
  BY <1>7, <1>8

(* The end of the file.                                                    *)
LEMMA TerminatorStep == ASSUME EInv, Terminator PROVE EInv'
<1>1. pc = "encoding" /\ todo = <<>> /\ pos = Len(unpack)
  BY DEF Terminator
<1>2. IInv /\ unpack \in Files /\ NotBegun /\ ~flushed /\ Waits /\ sent \in Seq(0 .. 1)
  BY <1>1, EncodingIs
<1>3. PICK v \in Nat : v = Pow(3 + CountBits) - 1 /\ v < Pow(3 + CountBits)
  <2>1. Pow(3 + CountBits) \in Nat \ {0}
    BY PowersAreNumbers, Assumed, 3 + CountBits \in Nat
  <2>2. QED
    BY <2>1
<1>4. PICK t : t = Calls("write", v, 3 + CountBits)
  OBVIOUS
<1>5. t \in Seq(CallSet) /\ Bits(t) = BitsOf(v, 3 + CountBits)
  BY <1>3, <1>4, OneCall, Assumed, 3 + CountBits \in 1 .. W
<1>6. /\ todo' = Cat(FlushBuffer(buf), t) /\ pc' = "ending"
      /\ unpack' = unpack /\ dst' = dst /\ dincr' = dincr /\ UNCHANGED <<writer, reader>>
  BY <1>3, <1>4 DEF Terminator, Cat
<1>7. IInv' /\ NotBegun' /\ ~flushed' /\ sent' = sent
  BY <1>2, <1>6, IdleStep DEF NotBegun, writer, reader
<1>8. Cat(FlushBuffer(buf), t) \in Seq(CallSet)
  BY <1>1, <1>5, FlushedLeads
<1>9. Begins(unpack, Cat(sent, Bits(Cat(FlushBuffer(buf), t))))
  <2>1. Leads(unpack, AtPacket(BitsOf(v, 3 + CountBits), incr, Len(unpack)))
    BY <1>2, <1>3, TerminatorLeads DEF Waits
  <2>2. <<>> \in Seq(0 .. 1) /\ Bits(t) \in Seq(0 .. 1)
    BY <1>5, BitsAreBits
  <2>3. Cat(Bits(t), <<>>) = Bits(t)
    BY <2>2, JoinedToNone
  <2>4. Leads(unpack, AtPacket(Cat(Bits(t), <<>>), incr, pos))
    BY <1>1, <1>5, <2>1, <2>3
  <2>5. Begins(unpack, Cat(Cat(sent, Bits(Cat(FlushBuffer(buf), t))), <<>>))
    BY <1>1, <1>5, <2>2, <2>4, FlushedLeads
  <2>6. Bits(Cat(FlushBuffer(buf), t)) \in Seq(0 .. 1)
    BY <1>8, BitsAreBits
  <2>7. Cat(sent, Bits(Cat(FlushBuffer(buf), t))) \in Seq(0 .. 1)
    BY <1>2, <2>6, JoinedTwice
  <2>8. QED
    BY <2>5, <2>7, JoinedToNone
<1>10. EndInv'
  BY <1>6, <1>7, <1>8, <1>9 DEF EndInv
<1>11. QED
  BY <1>2, <1>6, <1>7, <1>10 DEF EInv, EncodeInv, HeaderInv, DecodeInv, Decoding

-----------------------------------------------------------------------------
(* The next of the calls.                                                  *)
LEMMA CallIsWrite ==
  ASSUME IInv, NEW c \in CallSet, IF c.call = "push" THEN Push(c.val) ELSE Write(c.val, c.size)
  PROVE  /\ IInv' /\ sent' = Cat(sent, CallBits(c)) /\ StreamNext
         /\ ~flushed' /\ spos' = spos /\ received' = received
<1>1. c.call \in {"push", "write"} /\ c.val \in Nat /\ c.size \in 1 .. W /\ c.val < Pow(c.size)
      /\ (c.call = "push" => c.size = 1)
  BY DEF CallSet
<1>2. c.call = "push" => c.val \in 0 .. 1
  BY <1>1, SmallPowers
<1>3. Write(c.val, c.size)
  <2>1. CASE c.call = "push"
    BY <1>1, <1>2, <2>1, PushIsWrite DEF IInv
  <2>2. CASE c.call # "push"
    BY <2>2
  <2>3. QED
    BY <2>1, <2>2
<1>4. IInv'
  BY <1>1, <1>3, WriteStep
<1>5. StreamNext
  <2>1. CASE c.call = "push"
    BY <1>2, <2>1 DEF StreamNext
  <2>2. CASE c.call # "push"
    <3>1. Pow(c.size) \in Nat
      BY <1>1, WidthAssumption, c.size \in Nat, PowersAreNumbers
    <3>2. c.val \in 0 .. Pow(c.size) - 1
      BY <1>1, <3>1
    <3>3. QED
      BY <1>1, <1>3, <3>2 DEF StreamNext
  <2>3. QED
    BY <2>1, <2>2
<1>6. sent' = Cat(sent, CallBits(c)) /\ ~flushed' /\ spos' = spos /\ received' = received
  BY <1>3 DEF Write, CallBits, Cat, reader
<1>7. QED
  BY <1>4, <1>5, <1>6

(* What has been sent and what is to be called is the same after a call.   *)
LEMMA CallsGoOn ==
  ASSUME NEW s \in Seq(0 .. 1), NEW t \in Seq(CallSet), t # <<>>
  PROVE  /\ Head(t) \in CallSet /\ Tail(t) \in Seq(CallSet)
         /\ Cat(Cat(s, CallBits(Head(t))), Bits(Tail(t))) = Cat(s, Bits(t))
<1>1. PICK S : S = CallSet
  OBVIOUS
<1>2. t \in Seq(S) /\ Len(t) > 0
  BY <1>1
<1>3. Head(t) \in S /\ Tail(t) \in Seq(S) /\ << Head(t) >> \in Seq(S)
       /\ t = << Head(t) >> \o Tail(t)
  BY <1>2
<1>4. PICK c \in CallSet, q \in Seq(CallSet) : c = Head(t) /\ q = Tail(t)
  BY <1>1, <1>3
<1>5. t = Cat(<< c >>, q) /\ << c >> \in Seq(CallSet)
  BY <1>1, <1>3, <1>4 DEF Cat
<1>6. Bits(t) = Cat(Bits(<< c >>), Bits(q)) /\ Bits(<< c >>) = CallBits(c)
  BY <1>5, BitsJoined, BitsOfOne
<1>7. CallBits(c) \in Seq(0 .. 1) /\ Bits(q) \in Seq(0 .. 1)
  BY CallBitsAre, BitsAreBits
<1>8. Cat(Cat(s, CallBits(c)), Bits(q)) = Cat(s, Cat(CallBits(c), Bits(q)))
  BY <1>7, JoinedTwice
<1>9. QED
  BY <1>4, <1>6, <1>8

(* A call leaves all there is to send.                                     *)
LEMMA CallStreamStep == ASSUME EInv, CallStream PROVE EInv' /\ StreamNext
<1>1. todo # <<>> /\ pc' = pc /\ unpack' = unpack /\ dst' = dst /\ dincr' = dincr
      /\ pos' = pos /\ incr' = incr /\ buf' = buf /\ todo' = Tail(todo)
  BY DEF CallStream, decoder
<1>2. IInv /\ unpack \in Files /\ sent \in Seq(0 .. 1)
  BY DEF EInv, IInv, Types
<1>3. pc \in {"encoding", "ending"} /\ NotBegun /\ ~flushed /\ todo \in Seq(CallSet)
  BY <1>1 DEF EInv, EncodeInv, EndInv, HeaderInv, DecodeInv, Decoding
<1>4. PICK c \in CallSet : c = Head(todo)
  BY <1>1, <1>3, <1>2, CallsGoOn
<1>5. IF c.call = "push" THEN Push(c.val) ELSE Write(c.val, c.size)
  BY <1>4 DEF CallStream
<1>6. /\ IInv' /\ sent' = Cat(sent, CallBits(c)) /\ StreamNext
      /\ ~flushed' /\ spos' = spos /\ received' = received
  BY <1>2, <1>5, CallIsWrite
<1>7. todo' \in Seq(CallSet) /\ Cat(sent', Bits(todo')) = Cat(sent, Bits(todo))
  BY <1>1, <1>2, <1>3, <1>4, <1>6, CallsGoOn
<1>8. NotBegun'
  BY <1>1, <1>3, <1>6 DEF NotBegun
<1>9. CASE pc = "encoding"
  <2>1. Waits'
    BY <1>1, <1>9 DEF EInv, EncodeInv, Waits
  <2>2. ASSUME NEW q \in Seq(0 .. 1), Leads(unpack', AtPacket(q, incr', pos' - Len(buf')))
        PROVE  Begins(unpack', Cat(Cat(sent', Bits(todo')), q))
    <3>1. Begins(unpack, Cat(Cat(sent, Bits(todo)), q))
      BY <1>1, <1>9, <2>2 DEF EInv, EncodeInv
    <3>2. QED
      BY <1>1, <1>7, <3>1
  <2>3. QED
    BY <1>1, <1>2, <1>6, <1>7, <1>8, <1>9, <2>1, <2>2, EncodesOn
<1>10. CASE pc = "ending"
  <2>1. Begins(unpack', Cat(sent', Bits(todo')))
    BY <1>1, <1>7, <1>10 DEF EInv, EndInv
  <2>2. EndInv'
    BY <1>6, <1>7, <1>8, <2>1 DEF EndInv
  <2>3. EInv'
    BY <1>1, <1>2, <1>6, <1>10, <2>2 DEF EInv, EncodeInv, HeaderInv, DecodeInv, Decoding
  <2>4. QED
    BY <1>6, <2>3
<1>11. QED
  BY <1>3, <1>6, <1>9, <1>10

(* The stream is flushed, and opened to be read.                           *)
LEMMA FinishStep == ASSUME EInv, Finish PROVE EInv' /\ StreamNext
<1>1. pc = "ending" /\ todo = <<>> /\ Flush /\ pc' = "header" /\ todo' = todo
      /\ unpack' = unpack /\ dst' = dst /\ dincr' = dincr
  BY DEF Finish, encoder
<1>2. sent' = sent /\ flushed' /\ spos' = spos /\ received' = received
  BY <1>1 DEF Flush, reader
<1>3. IInv /\ unpack \in Files /\ sent \in Seq(0 .. 1) /\ NotBegun /\ Begins(unpack, Cat(sent, Bits(todo)))
  BY <1>1 DEF EInv, EndInv, IInv, Types
<1>4. IInv' /\ StreamNext
  BY <1>1, <1>3, FlushStep DEF StreamNext
<1>5. Cat(sent, Bits(todo)) = sent
  BY <1>1, <1>3, BitsNone, JoinedToNone
<1>6. NotBegun'
  BY <1>1, <1>2, <1>3 DEF NotBegun
<1>7. Begins(unpack', sent')
  BY <1>1, <1>2, <1>3, <1>5
<1>8. HeaderInv'
  BY <1>1, <1>2, <1>6, <1>7 DEF HeaderInv
<1>9. EInv'
  BY <1>1, <1>3, <1>4, <1>8 DEF EInv, EncodeInv, EndInv, DecodeInv, Decoding
<1>10. QED
  BY <1>4, <1>9

(* decode in the state it leaves.                                          *)
LEMMA DecodesOn ==
  ASSUME IInv', unpack' \in Files, pc' \in Decoding, flushed', spos' > 0, todo' = <<>>,
         NEW x, Follows(x)'
  PROVE  EInv'
BY DEF EInv, EncodeInv, EndInv, HeaderInv, DecodeInv, Decoding

LEMMA HeaderStep == ASSUME EInv, Header PROVE EInv' /\ StreamNext
<1>1. pc = "header" /\ Open /\ pc' = "packet" /\ todo' = todo
      /\ unpack' = unpack /\ dst' = dst /\ dincr' = dincr
  BY DEF Header, Goto, encoder
<1>2. spos' = 1 /\ sent' = sent /\ flushed' = flushed /\ received' = received
  BY <1>1 DEF Open, writer
<1>3. IInv /\ unpack \in Files /\ sent \in Seq(0 .. 1) /\ NotBegun /\ flushed /\ todo = <<>>
      /\ Begins(unpack, sent)
  BY <1>1 DEF EInv, HeaderInv, IInv, Types
<1>4. IInv' /\ StreamNext
  BY <1>1, <1>3, OpenStep DEF StreamNext
<1>5. PICK x : x = AtPacket(sent, incrementing_value(unpack), 0)
  OBVIOUS
<1>6. x.rest = sent /\ x.pc = "packet" /\ x.dincr = incrementing_value(unpack) /\ x.at = 0
  BY <1>5 DEF AtPacket, At
<1>7. Leads(unpack, x)
  BY <1>3, <1>5 DEF Begins
<1>8. SubSeq(unpack, 1, 0) = <<>> /\ Cat(<<>>, sent) = sent
  <2>1. SubSeq(unpack, 1, 0) = <<>>
    BY <1>3, FilesAre
  <2>2. QED
    BY <1>3, <2>1, JoinedToNone
<1>9. Follows(x)'
  <2>1. Leads(unpack', x) /\ x.pc = pc' /\ sent' = Cat(received', x.rest)
    BY <1>1, <1>2, <1>3, <1>6, <1>7, <1>8 DEF NotBegun
  <2>2. dst' = SubSeq(unpack', 1, x.at) /\ dincr' = x.dincr
    BY <1>1, <1>3, <1>6, <1>8 DEF NotBegun
  <2>3. pc' \notin {"count", "flags"}
    BY <1>1
  <2>4. QED
    BY <2>1, <2>2, <2>3 DEF Follows
<1>10. EInv'
  BY <1>1, <1>2, <1>3, <1>4, <1>9, DecodesOn DEF Decoding
<1>11. QED
  BY <1>4, <1>10

-----------------------------------------------------------------------------
(* Where decode stands, and where the bits to come take it.                *)
LEMMA DecodingIs ==
  ASSUME EInv, pc \in Decoding
  PROVE  /\ IInv /\ unpack \in Files /\ flushed /\ spos > 0 /\ todo = <<>>
         /\ received \in Seq(0 .. 1) /\ unpack \in Seq(WordSet)
         /\ \E x \in Places(unpack) :
              Follows(x) /\
              (\/ AtEnd(unpack, x)
               \/ \E z \in Places(unpack), n \in 0 .. W, b \in Nat :
                    /\ Leads(unpack, z) /\ b < Pow(n) /\ x.rest = Cat(BitsOf(b, n), z.rest)
                    /\ Move(unpack, x, n, b, z))
<1>1. IInv /\ unpack \in Files /\ flushed /\ spos > 0 /\ todo = <<>>
  BY DEF EInv, DecodeInv
<1>2. received \in Seq(0 .. 1) /\ unpack \in Seq(WordSet)
  BY <1>1, FilesAre DEF IInv, Types
<1>3. PICK x : Follows(x)
  BY DEF EInv, DecodeInv
<1>4. Leads(unpack, x)
  BY <1>3 DEF Follows
<1>5. x \in Places(unpack) /\ (AtEnd(unpack, x) \/ \E z : Leads(unpack, z) /\ Steps(unpack, x, z))
  BY <1>4, LeadsOn
<1>6. CASE AtEnd(unpack, x)
  BY <1>1, <1>2, <1>3, <1>5, <1>6
<1>7. CASE \E z : Leads(unpack, z) /\ Steps(unpack, x, z)
  <2>1. PICK z : Leads(unpack, z) /\ Steps(unpack, x, z)
    BY <1>7
  <2>2. z \in Places(unpack)
    BY <2>1, LeadsOn
  <2>3. PICK n \in 0 .. W, b \in Nat :
          b < Pow(n) /\ x.rest = Cat(BitsOf(b, n), z.rest) /\ Move(unpack, x, n, b, z)
    BY <2>1 DEF Steps
  <2>4. QED
    BY <1>1, <1>2, <1>3, <1>5, <2>1, <2>2, <2>3
<1>8. QED
  BY <1>5, <1>6, <1>7

(* Which bits those are, by where decode stands.                           *)
LEMMA MoveIs ==
  ASSUME EInv, pc \in Decoding \ {"done"}
  PROVE  \E x \in Places(unpack), z \in Places(unpack), n \in 0 .. W, b \in Nat :
           /\ Follows(x) /\ Leads(unpack, z)
           /\ b < Pow(n) /\ z.rest \in Seq(0 .. 1)
           /\ sent = Cat(received, Cat(BitsOf(b, n), z.rest))
           /\ pc = "packet" => MovePacket(x, n, b, z)
           /\ pc = "kind" => MoveKind(x, n, b, z)
           /\ pc = "mode" => MoveMode(x, n, b, z)
           /\ pc = "count" => MoveCount(unpack, x, n, b, z)
           /\ pc = "flags" /\ left > 0 => MoveFlag(unpack, x, n, b, z)
           /\ pc = "flags" /\ left = 0 => MoveValue(unpack, x, n, b, z)
<1>1. PICK x \in Places(unpack) :
        Follows(x) /\
        (\/ AtEnd(unpack, x)
         \/ \E z \in Places(unpack), n \in 0 .. W, b \in Nat :
              /\ Leads(unpack, z) /\ b < Pow(n) /\ x.rest = Cat(BitsOf(b, n), z.rest)
              /\ Move(unpack, x, n, b, z))
  BY DecodingIs
<1>2. x.pc = pc /\ sent = Cat(received, x.rest) /\ (pc = "flags" => left = x.left)
  BY <1>1 DEF Follows
<1>3. ~AtEnd(unpack, x)
  BY <1>2 DEF AtEnd
<1>4. PICK z \in Places(unpack), n \in 0 .. W, b \in Nat :
        /\ Leads(unpack, z) /\ b < Pow(n) /\ x.rest = Cat(BitsOf(b, n), z.rest)
        /\ Move(unpack, x, n, b, z)
  BY <1>1, <1>3
<1>5. z.rest \in Seq(0 .. 1)
  BY PlaceIs
<1>6. pc = "packet" => MovePacket(x, n, b, z)
  BY <1>2, <1>4 DEF Move, MoveKind, MoveMode, MoveCount, MoveFlag, MoveValue
<1>7. pc = "kind" => MoveKind(x, n, b, z)
  BY <1>2, <1>4 DEF Move, MovePacket, MoveMode, MoveCount, MoveFlag, MoveValue
<1>8. pc = "mode" => MoveMode(x, n, b, z)
  BY <1>2, <1>4 DEF Move, MovePacket, MoveKind, MoveCount, MoveFlag, MoveValue
<1>9. pc = "count" => MoveCount(unpack, x, n, b, z)
  BY <1>2, <1>4 DEF Move, MovePacket, MoveKind, MoveMode, MoveFlag, MoveValue
<1>10. pc = "flags" /\ left > 0 => MoveFlag(unpack, x, n, b, z)
  BY <1>2, <1>4 DEF Move, MovePacket, MoveKind, MoveMode, MoveCount, MoveValue
<1>11. pc = "flags" /\ left = 0 => MoveValue(unpack, x, n, b, z)
  BY <1>2, <1>4 DEF Move, MovePacket, MoveKind, MoveMode, MoveCount, MoveFlag
<1>12. QED
  BY <1>1, <1>2, <1>4, <1>5, <1>6, <1>7, <1>8, <1>9, <1>10, <1>11

-----------------------------------------------------------------------------
(* What decode reads is what is next to come.                              *)
LEMMA ReadIs ==
  ASSUME EInv, pc \in Decoding, NEW n \in 1 .. W, NEW b \in Nat, b < Pow(n),
         NEW r \in Seq(0 .. 1), sent = Cat(received, Cat(BitsOf(b, n), r)),
         NEW v \in 0 .. Pow(n) - 1, Read(n, v)
  PROVE  v = b /\ sent' = Cat(received', r) /\ IInv' /\ flushed' /\ spos' > 0 /\ StreamNext
<1>1. IInv /\ flushed
  BY DEF EInv, DecodeInv
<1>2. Pow(n) \in Nat
  BY Assumed, n \in Nat, PowersAreNumbers
<1>3. v \in Nat /\ v < Pow(n)
  BY <1>2
<1>4. MayRead(n)
  BY <1>1, TakenIs
<1>5. v = b /\ sent' = Cat(received', r) /\ IInv' /\ spos' > 0 /\ flushed' = flushed
  BY <1>1, <1>3, TakenIs
<1>6. StreamNext
  BY <1>4 DEF StreamNext
<1>7. QED
  BY <1>1, <1>5, <1>6

LEMMA PopIs ==
  ASSUME EInv, pc \in Decoding, NEW b \in Nat, b < Pow(1),
         NEW r \in Seq(0 .. 1), sent = Cat(received, Cat(BitsOf(b, 1), r)),
         NEW v \in {0, 1}, Pop(v)
  PROVE  v = b /\ sent' = Cat(received', r) /\ IInv' /\ flushed' /\ spos' > 0 /\ StreamNext
<1>1. IInv /\ flushed
  BY DEF EInv, DecodeInv
<1>2. MayRead(1) /\ v \in 0 .. 1
  <2>1. MayRead(1)
    BY <1>1, PoppedIs
  <2>2. QED
    BY <2>1
<1>3. v = b /\ sent' = Cat(received', r) /\ IInv' /\ spos' > 0 /\ flushed' = flushed
  BY <1>1, PoppedIs
<1>4. StreamNext
  BY <1>2 DEF StreamNext
<1>5. QED
  BY <1>1, <1>3, <1>4

(* The steps of decode: what is read is what comes next, so decode goes    *)
(* where it leads.                                                         *)
LEMMA PacketBitStep == ASSUME EInv, PacketBit PROVE EInv' /\ StreamNext
<1>1. pc = "packet" /\ pc \in Decoding /\ pc \in Decoding \ {"done"} /\ unpack' = unpack /\ todo' = todo
      /\ dst' = dst /\ dincr' = dincr
  BY DEF PacketBit, Decoding, encoder
<1>2. PICK x \in Places(unpack), z \in Places(unpack), n \in 0 .. W, b \in Nat :
        /\ Follows(x) /\ Leads(unpack, z) /\ b < Pow(n) /\ z.rest \in Seq(0 .. 1)
        /\ sent = Cat(received, Cat(BitsOf(b, n), z.rest)) /\ MovePacket(x, n, b, z)
  BY <1>1, MoveIs
<1>3. n = 1 /\ z = At(z.rest, IF b = 1 THEN "mode" ELSE "kind", 0, 0, 0, 0, x.dincr, x.at)
  BY <1>2 DEF MovePacket
<1>4. PICK v \in {0, 1} : Pop(v) /\ pc' = IF v = 1 THEN "mode" ELSE "kind"
  BY DEF PacketBit, Goto
<1>5. v = b /\ sent' = Cat(received', z.rest) /\ IInv' /\ flushed' /\ spos' > 0 /\ StreamNext
  BY <1>1, <1>2, <1>3, <1>4, PopIs
<1>6. z.pc = (IF b = 1 THEN "mode" ELSE "kind") /\ z.dincr = x.dincr /\ z.at = x.at
  BY <1>3 DEF At
<1>7. Follows(z)'
  BY <1>1, <1>2, <1>4, <1>5, <1>6 DEF Follows
<1>8. unpack \in Files /\ todo = <<>> /\ pc' \in Decoding
  BY <1>1, <1>4, DecodingIs DEF Decoding
<1>9. EInv'
  BY <1>1, <1>5, <1>7, <1>8, DecodesOn
<1>10. QED
  BY <1>5, <1>9

LEMMA KindStep == ASSUME EInv, Kind PROVE EInv' /\ StreamNext
<1>1. pc = "kind" /\ pc \in Decoding /\ pc \in Decoding \ {"done"} /\ unpack' = unpack /\ todo' = todo
      /\ dst' = dst /\ dincr' = dincr /\ pc' = "count"
  BY DEF Kind, Decoding, encoder, Goto
<1>2. PICK x \in Places(unpack), z \in Places(unpack), n \in 0 .. W, b \in Nat :
        /\ Follows(x) /\ Leads(unpack, z) /\ b < Pow(n) /\ z.rest \in Seq(0 .. 1)
        /\ sent = Cat(received, Cat(BitsOf(b, n), z.rest)) /\ MoveKind(x, n, b, z)
  BY <1>1, MoveIs
<1>3. n = 1 /\ z = At(z.rest, "count", 4 + b, 0, 0, 0, x.dincr, x.at)
  BY <1>2 DEF MoveKind
<1>4. PICK v \in {0, 1} : Pop(v) /\ mode' = 4 + v
  BY DEF Kind
<1>5. v = b /\ sent' = Cat(received', z.rest) /\ IInv' /\ flushed' /\ spos' > 0 /\ StreamNext
  BY <1>1, <1>2, <1>3, <1>4, PopIs
<1>6. z.pc = "count" /\ z.mode = 4 + b /\ z.dincr = x.dincr /\ z.at = x.at
  BY <1>3 DEF At
<1>7. Follows(z)'
  BY <1>1, <1>2, <1>4, <1>5, <1>6 DEF Follows
<1>8. unpack \in Files /\ todo = <<>> /\ pc' \in Decoding
  BY <1>1, DecodingIs DEF Decoding
<1>9. EInv'
  BY <1>1, <1>5, <1>7, <1>8, DecodesOn
<1>10. QED
  BY <1>5, <1>9

LEMMA ModeStep == ASSUME EInv, Mode PROVE EInv' /\ StreamNext
<1>1. pc = "mode" /\ pc \in Decoding /\ pc \in Decoding \ {"done"} /\ unpack' = unpack /\ todo' = todo
      /\ dst' = dst /\ dincr' = dincr /\ pc' = "count"
  BY DEF Mode, Decoding, encoder, Goto
<1>2. PICK x \in Places(unpack), z \in Places(unpack), n \in 0 .. W, b \in Nat :
        /\ Follows(x) /\ Leads(unpack, z) /\ b < Pow(n) /\ z.rest \in Seq(0 .. 1)
        /\ sent = Cat(received, Cat(BitsOf(b, n), z.rest)) /\ MoveMode(x, n, b, z)
  BY <1>1, MoveIs
<1>3. n = 2 /\ z = At(z.rest, "count", b, 0, 0, 0, x.dincr, x.at)
  BY <1>2 DEF MoveMode
<1>4. PICK v \in 0 .. 3 : Read(2, v) /\ mode' = v
  BY DEF Mode
<1>5. v = b /\ sent' = Cat(received', z.rest) /\ IInv' /\ flushed' /\ spos' > 0 /\ StreamNext
  <2>1. v \in 0 .. Pow(2) - 1 /\ 2 \in 1 .. W
    BY SmallPowers, Assumed
  <2>2. QED
    BY <1>1, <1>2, <1>3, <1>4, <2>1, ReadIs
<1>6. z.pc = "count" /\ z.mode = b /\ z.dincr = x.dincr /\ z.at = x.at
  BY <1>3 DEF At
<1>7. Follows(z)'
  BY <1>1, <1>2, <1>4, <1>5, <1>6 DEF Follows
<1>8. unpack \in Files /\ todo = <<>> /\ pc' \in Decoding
  BY <1>1, DecodingIs DEF Decoding
<1>9. EInv'
  BY <1>1, <1>5, <1>7, <1>8, DecodesOn
<1>10. QED
  BY <1>5, <1>9

(* A row of words of the file that decode writes.                          *)
LEMMA RowIsWritten ==
  ASSUME NEW u \in Files, NEW a \in 0 .. Len(u), NEW n \in Nat, a + n + 1 <= Len(u),
         NEW t, t = [k \in 1 .. n + 1 |-> u[a + k]]
  PROVE  SubSeq(u, 1, a) \o t = SubSeq(u, 1, a + n + 1)
<1>1. u \in Seq(WordSet) /\ Len(u) \in Nat
  BY FilesAre
<1>2. PICK m \in Nat : m = n + 1 /\ a + m = a + n + 1
  OBVIOUS
<1>3. SubSeq(u, 1, a) \o t = SubSeq(u, 1, a + m)
  BY <1>1, <1>2, WrittenOn
<1>4. QED
  BY <1>2, <1>3

LEMMA CountStep == ASSUME EInv, Count PROVE EInv' /\ StreamNext
<1>1. pc = "count" /\ pc \in Decoding /\ pc \in Decoding \ {"done"} /\ unpack' = unpack /\ todo' = todo
      /\ mode' = mode /\ flags' = 0 /\ left' = FlagBits
  BY DEF Count, Decoding, encoder
<1>2. PICK x \in Places(unpack), z \in Places(unpack), n \in 0 .. W, b \in Nat :
        /\ Follows(x) /\ Leads(unpack, z) /\ b < Pow(n) /\ z.rest \in Seq(0 .. 1)
        /\ sent = Cat(received, Cat(BitsOf(b, n), z.rest)) /\ MoveCount(unpack, x, n, b, z)
  BY <1>1, MoveIs
<1>3. n = CountBits /\ n \in 1 .. W
  BY <1>2, Assumed DEF MoveCount
<1>4. PICK v \in 0 .. CMax :
        /\ Read(CountBits, v) /\ cnt' = v
        /\ CASE mode = 4 ->
                  /\ dst' = dst \o [k \in 1 .. v + 1 |-> (dincr + k - 1) % Mod]
                  /\ dincr' = (dincr + v + 1) % Mod
                  /\ pc' = "packet"
             [] mode = 5 ->
                  /\ dst' = dst \o [k \in 1 .. v + 1 |-> common_value(unpack)]
                  /\ pc' = "packet"
                  /\ dincr' = dincr
             [] OTHER ->
                  /\ pc' = IF mode = 3 /\ v = CMax THEN "done" ELSE "flags"
                  /\ dst' = dst /\ dincr' = dincr
  BY DEF Count, Goto
<1>5. v = b /\ sent' = Cat(received', z.rest) /\ IInv' /\ flushed' /\ spos' > 0 /\ StreamNext
  <2>1. v \in 0 .. Pow(n) - 1
    BY <1>3 DEF CMax
  <2>2. QED
    BY <1>1, <1>2, <1>3, <1>4, <2>1, ReadIs
<1>6. x.at \in 0 .. Len(unpack) /\ mode = x.mode /\ x.mode \in 0 .. 5 /\ dincr = x.dincr
      /\ dst = SubSeq(unpack, 1, x.at)
  BY <1>1, <1>2, PlaceIs DEF Follows
<1>7. unpack \in Files /\ todo = <<>>
  BY <1>1, DecodingIs
<1>8. SUFFICES pc' \in Decoding /\ Follows(z)'
  BY <1>1, <1>5, <1>7, DecodesOn
<1>9. SUFFICES /\ pc' \in Decoding /\ z.pc = pc' /\ pc' # "count"
               /\ dst' = SubSeq(unpack, 1, z.at) /\ dincr' = z.dincr
               /\ pc' = "flags" => mode' = z.mode /\ cnt' = z.cnt /\ flags' = z.flags /\ left' = z.left
  BY <1>1, <1>2, <1>5 DEF Follows
<1>10. CASE mode = 4
  <2>1. /\ dst' = dst \o [k \in 1 .. v + 1 |-> (dincr + k - 1) % Mod]
        /\ dincr' = (dincr + v + 1) % Mod /\ pc' = "packet"
    <3>1. mode = 4 /\ mode # 5
      BY <1>10
    <3>2. QED
      BY <1>4, <3>1
  <2>2. /\ x.at + b + 1 <= Len(unpack)
        /\ \A k \in 1 .. b + 1 : unpack[x.at + k] = (x.dincr + k - 1) % Mod
        /\ z = AtPacket(z.rest, (x.dincr + b + 1) % Mod, x.at + b + 1)
    BY <1>2, <1>6, <1>10 DEF MoveCount
  <2>3. z.pc = "packet" /\ z.dincr = (x.dincr + b + 1) % Mod /\ z.at = x.at + b + 1
    BY <2>2 DEF AtPacket, At
  <2>4. [k \in 1 .. v + 1 |-> (dincr + k - 1) % Mod] = [k \in 1 .. b + 1 |-> unpack[x.at + k]]
    BY <1>5, <1>6, <2>2
  <2>5. dst' = SubSeq(unpack, 1, x.at + b + 1)
    <3>1. PICK t : t = [k \in 1 .. b + 1 |-> unpack[x.at + k]]
      OBVIOUS
    <3>2. SubSeq(unpack, 1, x.at) \o t = SubSeq(unpack, 1, x.at + b + 1)
      BY <1>6, <1>7, <2>2, <3>1, RowIsWritten
    <3>3. QED
      BY <1>6, <2>1, <2>4, <3>1, <3>2
  <2>6. QED
    BY <1>5, <1>6, <2>1, <2>3, <2>5 DEF Decoding
<1>11. CASE mode = 5
  <2>1. /\ dst' = dst \o [k \in 1 .. v + 1 |-> common_value(unpack)]
        /\ dincr' = dincr /\ pc' = "packet"
    BY <1>4, <1>11
  <2>2. /\ x.at + b + 1 <= Len(unpack)
        /\ \A k \in 1 .. b + 1 : unpack[x.at + k] = common_value(unpack)
        /\ z = AtPacket(z.rest, x.dincr, x.at + b + 1)
    BY <1>2, <1>6, <1>11 DEF MoveCount
  <2>3. z.pc = "packet" /\ z.dincr = x.dincr /\ z.at = x.at + b + 1
    BY <2>2 DEF AtPacket, At
  <2>4. [k \in 1 .. v + 1 |-> common_value(unpack)] = [k \in 1 .. b + 1 |-> unpack[x.at + k]]
    BY <1>5, <2>2
  <2>5. dst' = SubSeq(unpack, 1, x.at + b + 1)
    <3>1. PICK t : t = [k \in 1 .. b + 1 |-> unpack[x.at + k]]
      OBVIOUS
    <3>2. SubSeq(unpack, 1, x.at) \o t = SubSeq(unpack, 1, x.at + b + 1)
      BY <1>6, <1>7, <2>2, <3>1, RowIsWritten
    <3>3. QED
      BY <1>6, <2>1, <2>4, <3>1, <3>2
  <2>6. QED
    BY <1>6, <2>1, <2>3, <2>5 DEF Decoding
<1>12. CASE mode \notin {4, 5}
  <2>1. /\ pc' = IF mode = 3 /\ v = CMax THEN "done" ELSE "flags"
        /\ dst' = dst /\ dincr' = dincr
    BY <1>4, <1>12
  <2>2. CASE mode = 3 /\ v = CMax
    <3>1. z = At(z.rest, "done", 0, 0, 0, 0, x.dincr, x.at)
      BY <1>2, <1>5, <1>6, <2>2 DEF MoveCount
    <3>2. z.pc = "done" /\ z.dincr = x.dincr /\ z.at = x.at
      BY <3>1 DEF At
    <3>3. QED
      BY <1>6, <2>1, <2>2, <3>2 DEF Decoding
  <2>3. CASE ~(mode = 3 /\ v = CMax)
    <3>1. z = At(z.rest, "flags", x.mode, b, 0, FlagBits, x.dincr, x.at)
      BY <1>2, <1>5, <1>6, <1>12, <2>3 DEF MoveCount
    <3>2. z.pc = "flags" /\ z.dincr = x.dincr /\ z.at = x.at /\ z.mode = x.mode /\ z.cnt = b
          /\ z.flags = 0 /\ z.left = FlagBits
      BY <3>1 DEF At
    <3>3. QED
      BY <1>1, <1>4, <1>5, <1>6, <2>1, <2>3, <3>2 DEF Decoding
  <2>4. QED
    BY <2>2, <2>3
<1>13. QED
  BY <1>10, <1>11, <1>12

LEMMA GetMaskStep == ASSUME EInv, GetMask PROVE EInv' /\ [StreamNext]_<<writer, reader>>
<1>1. pc = "flags" /\ left > 0 /\ pc \in Decoding /\ pc \in Decoding \ {"done"} /\ unpack' = unpack
      /\ todo' = todo /\ mode' = mode /\ cnt' = cnt /\ dincr' = dincr /\ dst' = dst /\ pc' = pc
      /\ left' = left - 1
  BY DEF GetMask, Decoding, encoder
<1>2. PICK x \in Places(unpack), z \in Places(unpack), n \in 0 .. W, b \in Nat :
        /\ Follows(x) /\ Leads(unpack, z) /\ b < Pow(n) /\ z.rest \in Seq(0 .. 1)
        /\ sent = Cat(received, Cat(BitsOf(b, n), z.rest)) /\ MoveFlag(unpack, x, n, b, z)
  BY <1>1, MoveIs
<1>3. PICK i : i = LowBits + left - 1
  OBVIOUS
<1>4. mode = x.mode /\ cnt = x.cnt /\ flags = x.flags /\ left = x.left /\ dincr = x.dincr
      /\ dst = SubSeq(unpack, 1, x.at)
  BY <1>1, <1>2 DEF Follows
<1>5. /\ n = IF i \in MaskBits(unpack) THEN 1 ELSE 0
      /\ z = At(z.rest, "flags", x.mode, x.cnt,
                IF n = 1 THEN x.flags + b * Pow(i) ELSE x.flags, x.left - 1, x.dincr, x.at)
  BY <1>2, <1>3, <1>4 DEF MoveFlag
<1>6. /\ z.pc = "flags" /\ z.mode = x.mode /\ z.cnt = x.cnt /\ z.left = x.left - 1
      /\ z.flags = (IF n = 1 THEN x.flags + b * Pow(i) ELSE x.flags)
      /\ z.dincr = x.dincr /\ z.at = x.at
  BY <1>5 DEF At
<1>7. unpack \in Files /\ todo = <<>> /\ IInv /\ flushed /\ spos > 0
  BY <1>1, DecodingIs
<1>8. CASE i \in MaskBits(unpack)
  <2>1. PICK v \in {0, 1} : Pop(v) /\ flags' = flags + v * Pow(i)
    BY <1>3, <1>8 DEF GetMask
  <2>2. v = b /\ sent' = Cat(received', z.rest) /\ IInv' /\ flushed' /\ spos' > 0 /\ StreamNext
    BY <1>1, <1>2, <1>5, <1>8, <2>1, PopIs
  <2>3. Follows(z)'
    BY <1>1, <1>2, <1>4, <1>5, <1>6, <1>8, <2>1, <2>2 DEF Follows
  <2>4. EInv'
    BY <1>1, <1>7, <2>2, <2>3, DecodesOn
  <2>5. QED
    BY <2>2, <2>4
<1>9. CASE i \notin MaskBits(unpack)
  <2>1. flags' = flags /\ UNCHANGED <<writer, reader>>
    BY <1>3, <1>9 DEF GetMask
  <2>2. sent' = sent /\ received' = received /\ flushed' = flushed /\ spos' = spos
    BY <2>1 DEF writer, reader
  <2>3. BitsOf(b, n) = <<>>
    BY <1>5, <1>9 DEF BitsOf
  <2>4. sent' = Cat(received', z.rest)
    BY <1>2, <2>2, <2>3, JoinedToNone
  <2>5. Follows(z)'
    BY <1>1, <1>2, <1>4, <1>5, <1>6, <1>9, <2>1, <2>4 DEF Follows
  <2>6. IInv'
    BY <1>7, <2>1, IdleStep
  <2>7. EInv'
    BY <1>1, <1>7, <2>2, <2>5, <2>6, DecodesOn
  <2>8. QED
    BY <2>1, <2>7
<1>10. QED
  BY <1>8, <1>9

LEMMA ValueStep == ASSUME EInv, Value PROVE EInv' /\ StreamNext
<1>1. pc = "flags" /\ left = 0 /\ pc \in Decoding /\ pc \in Decoding \ {"done"} /\ unpack' = unpack
      /\ todo' = todo /\ mode' = mode /\ dincr' = dincr
  BY DEF Value, Decoding, encoder
<1>2. PICK x \in Places(unpack), z \in Places(unpack), n \in 0 .. W, b \in Nat :
        /\ Follows(x) /\ Leads(unpack, z) /\ b < Pow(n) /\ z.rest \in Seq(0 .. 1)
        /\ sent = Cat(received, Cat(BitsOf(b, n), z.rest)) /\ MoveValue(unpack, x, n, b, z)
  BY <1>1, MoveIs
<1>3. mode = x.mode /\ cnt = x.cnt /\ flags = x.flags /\ left = x.left /\ dincr = x.dincr
      /\ dst = SubSeq(unpack, 1, x.at) /\ x.at \in 0 .. Len(unpack) /\ x.cnt \in Nat
  BY <1>1, <1>2, PlaceIs, Assumed DEF Follows
<1>4. unpack \in Files /\ todo = <<>>
  BY <1>1, DecodingIs
<1>5. n = packet_length(unpack) /\ n \in 1 .. W
  BY <1>2, <1>4, RestFits DEF MoveValue
<1>6. PICK v \in 0 .. Pow(n) - 1 :
        /\ Read(n, v)
        /\ dst' = IF mode = 3 THEN Append(dst, flags + v)
                  ELSE dst \o [k \in 1 .. cnt + 1 |-> (flags + v + (k - 1) * Deltas[mode]) % Mod]
  BY <1>5 DEF Value
<1>7. v = b /\ sent' = Cat(received', z.rest) /\ IInv' /\ flushed' /\ spos' > 0 /\ StreamNext
  BY <1>1, <1>2, <1>5, <1>6, ReadIs
<1>8. IF mode = 3 /\ cnt > 0
        THEN cnt' = cnt - 1 /\ flags' = 0 /\ left' = FlagBits /\ pc' = pc
        ELSE pc' = "packet" /\ cnt' = cnt /\ flags' = flags /\ left' = left
  BY DEF Value, Goto
<1>9. SUFFICES pc' \in Decoding /\ Follows(z)'
  BY <1>1, <1>4, <1>7, DecodesOn
<1>10. SUFFICES /\ pc' \in Decoding /\ z.pc = pc' /\ pc' # "count"
                /\ dst' = SubSeq(unpack, 1, z.at) /\ dincr' = z.dincr
                /\ pc' = "flags" => mode' = z.mode /\ cnt' = z.cnt /\ flags' = z.flags /\ left' = z.left
  BY <1>1, <1>2, <1>7 DEF Follows
<1>11. CASE mode = 3
  <2>1. /\ x.at + 1 <= Len(unpack) /\ unpack[x.at + 1] = x.flags + b
        /\ z = IF x.cnt > 0
                 THEN At(z.rest, "flags", 3, x.cnt - 1, 0, FlagBits, x.dincr, x.at + 1)
                 ELSE AtPacket(z.rest, x.dincr, x.at + 1)
    BY <1>2, <1>3, <1>11 DEF MoveValue
  <2>2. dst' = SubSeq(unpack, 1, x.at + 1)
    <3>1. dst' = Append(SubSeq(unpack, 1, x.at), unpack[x.at + 1])
      BY <1>3, <1>6, <1>7, <1>11, <2>1
    <3>2. PICK a \in Nat, l \in Nat : a = x.at /\ l = Len(unpack) /\ a + 1 <= l
      BY <1>3, <1>4, <2>1, FilesAre
    <3>3. unpack \in Seq(WordSet)
      BY <1>4, FilesAre
    <3>4. Append(SubSeq(unpack, 1, a), unpack[a + 1]) = SubSeq(unpack, 1, a + 1)
      BY <3>2, <3>3
    <3>5. QED
      BY <3>1, <3>2, <3>4
  <2>3. CASE cnt > 0
    <3>1. z = At(z.rest, "flags", 3, x.cnt - 1, 0, FlagBits, x.dincr, x.at + 1)
      BY <1>3, <2>1, <2>3
    <3>2. z.pc = "flags" /\ z.mode = 3 /\ z.cnt = x.cnt - 1 /\ z.flags = 0 /\ z.left = FlagBits
          /\ z.dincr = x.dincr /\ z.at = x.at + 1
      BY <3>1 DEF At
    <3>3. QED
      BY <1>1, <1>3, <1>8, <1>11, <2>2, <2>3, <3>2 DEF Decoding
  <2>4. CASE ~(cnt > 0)
    <3>1. z = AtPacket(z.rest, x.dincr, x.at + 1)
      BY <1>3, <2>1, <2>4
    <3>2. z.pc = "packet" /\ z.dincr = x.dincr /\ z.at = x.at + 1
      BY <3>1 DEF AtPacket, At
    <3>3. QED
      BY <1>1, <1>3, <1>8, <2>2, <2>4, <3>2 DEF Decoding
  <2>5. QED
    BY <2>3, <2>4
<1>12. CASE mode # 3
  <2>1. /\ x.at + x.cnt + 1 <= Len(unpack)
        /\ \A k \in 1 .. x.cnt + 1 :
             unpack[x.at + k] = (x.flags + b + (k - 1) * Deltas[x.mode]) % Mod
        /\ z = AtPacket(z.rest, x.dincr, x.at + x.cnt + 1)
    BY <1>2, <1>3, <1>12 DEF MoveValue
  <2>2. dst' = dst \o [k \in 1 .. cnt + 1 |-> (flags + v + (k - 1) * Deltas[mode]) % Mod]
    BY <1>6, <1>12
  <2>3. [k \in 1 .. cnt + 1 |-> (flags + v + (k - 1) * Deltas[mode]) % Mod]
          = [k \in 1 .. x.cnt + 1 |-> unpack[x.at + k]]
    BY <1>3, <1>7, <2>1
  <2>4. dst' = SubSeq(unpack, 1, x.at + x.cnt + 1)
    <3>1. PICK t : t = [k \in 1 .. x.cnt + 1 |-> unpack[x.at + k]]
      OBVIOUS
    <3>2. SubSeq(unpack, 1, x.at) \o t = SubSeq(unpack, 1, x.at + x.cnt + 1)
      BY <1>3, <1>4, <2>1, <3>1, RowIsWritten
    <3>3. QED
      BY <1>3, <2>2, <2>3, <3>1, <3>2
  <2>5. z.pc = "packet" /\ z.dincr = x.dincr /\ z.at = x.at + x.cnt + 1
    BY <2>1 DEF AtPacket, At
  <2>6. QED
    BY <1>1, <1>3, <1>8, <1>12, <2>4, <2>5 DEF Decoding
<1>13. QED
  BY <1>11, <1>12

-----------------------------------------------------------------------------
(* The steps that leave the streams alone.                                 *)
LEMMA EncoderOnly ==
  ASSUME EInv, Incrementing \/ Common \/ Stepped \/ Single \/ Terminator
  PROVE  EInv' /\ UNCHANGED <<writer, reader>>
<1>1. EInv'
  BY IncrementingStep, CommonStep, SteppedStep, SingleStep, TerminatorStep
<1>2. UNCHANGED <<writer, reader>>
  BY DEF Incrementing, Common, Stepped, Single, Terminator, Packet
<1>3. QED
  BY <1>1, <1>2

(* Every step.                                                             *)
LEMMA NextEInv == ASSUME EInv, [Next]_vars PROVE EInv' /\ [StreamNext]_<<writer, reader>>
<1>1. CASE Next
  BY <1>1, EncoderOnly, CallStreamStep, FinishStep, HeaderStep, PacketBitStep, KindStep, ModeStep,
     CountStep, GetMaskStep, ValueStep DEF Next
<1>2. CASE UNCHANGED vars
  <2>1. /\ unpack' = unpack /\ pos' = pos /\ incr' = incr /\ buf' = buf /\ todo' = todo /\ pc' = pc
        /\ mode' = mode /\ cnt' = cnt /\ flags' = flags /\ left' = left /\ dincr' = dincr /\ dst' = dst
        /\ UNCHANGED <<writer, reader>>
    BY <1>2 DEF vars, encoder, decoder
  <2>2. sent' = sent /\ received' = received /\ spos' = spos /\ flushed' = flushed
    BY <2>1 DEF writer, reader
  <2>3. IInv'
    BY <2>1, IdleStep DEF EInv
  <2>4. EncodeInv'
    BY <2>1, <2>2 DEF EInv, EncodeInv, NotBegun, Waits
  <2>5. EndInv' /\ HeaderInv'
    BY <2>1, <2>2 DEF EInv, EndInv, HeaderInv, NotBegun
  <2>6. DecodeInv'
    BY <2>1, <2>2 DEF EInv, DecodeInv, Follows
  <2>7. QED
    BY <2>1, <2>3, <2>4, <2>5, <2>6 DEF EInv
<1>3. QED
  BY <1>1, <1>2

(* The inductive invariant.                                                *)
THEOREM EnigmaInvariant == Spec => []EInv
<1>1. Init => EInv
  BY InitEInv
<1>2. EInv /\ [Next]_vars => EInv'
  BY NextEInv
<1>3. QED
  BY <1>1, <1>2, PTL DEF Spec

(* Every step of encode and decode is, for the bit streams, a step their   *)
(* specification allows: the values fit the bits they are written with,    *)
(* and no bit is asked for that was not written.                           *)
THEOREM StreamsAreUsedProperly == Spec => UsesStreamProperly
<1>1. Init => StreamInit
  BY DEF Init
<1>2. EInv /\ [Next]_vars => [StreamNext]_<<writer, reader>>
  BY NextEInv
<1>3. QED
  BY <1>1, <1>2, EnigmaInvariant, PTL DEF Spec, UsesStreamProperly, StreamSpec

(* When decode has stopped it was by the terminator.                       *)
LEMMA OverIs ==
  ASSUME EInv, Over
  PROVE  pc = "done" /\ received = sent /\ dst = unpack
<1>1. pc = "done"
  <2>1. SUFFICES ASSUME pc = "packet", ~Good PROVE FALSE
    BY DEF Over
  <2>2. pc \in Decoding \ {"done"} /\ pc \in Decoding
    BY <2>1 DEF Decoding
  <2>3. PICK x \in Places(unpack), z \in Places(unpack), n \in 0 .. W, b \in Nat :
          /\ b < Pow(n) /\ z.rest \in Seq(0 .. 1)
          /\ sent = Cat(received, Cat(BitsOf(b, n), z.rest)) /\ MovePacket(x, n, b, z)
    BY <2>1, <2>2, MoveIs
  <2>4. n = 1
    BY <2>3 DEF MovePacket
  <2>5. IInv /\ spos > 0
    BY <2>2, DecodingIs
  <2>6. spos <= Len(file)
    BY <2>3, <2>4, <2>5, PoppedIs
  <2>7. QED
    BY <2>1, <2>6 DEF Good
<1>2. PICK x : Follows(x)
  BY <1>1, DecodingIs DEF Decoding
<1>3. x \in Places(unpack) /\ AtEnd(unpack, x)
  <2>1. x \in Places(unpack) /\ (AtEnd(unpack, x) \/ \E z : Leads(unpack, z) /\ Steps(unpack, x, z))
    BY <1>2, LeadsOn DEF Follows
  <2>2. ASSUME NEW z, Steps(unpack, x, z) PROVE FALSE
    <3>1. x.pc = "done"
      BY <1>1, <1>2 DEF Follows
    <3>2. PICK n \in 0 .. W, b \in Nat : Move(unpack, x, n, b, z)
      BY <2>2 DEF Steps
    <3>3. QED
      BY <3>1, <3>2 DEF Move, MovePacket, MoveKind, MoveMode, MoveCount, MoveFlag, MoveValue
  <2>3. QED
    BY <2>1, <2>2
<1>4. sent = Cat(received, <<>>) /\ dst = SubSeq(unpack, 1, Len(unpack))
  BY <1>2, <1>3 DEF Follows, AtEnd
<1>5. unpack \in Seq(WordSet) /\ received \in Seq(0 .. 1)
  BY <1>1, DecodingIs DEF Decoding
<1>6. SubSeq(unpack, 1, Len(unpack)) = unpack /\ Cat(received, <<>>) = received
  BY <1>5, JoinedToNone
<1>7. QED
  BY <1>1, <1>4, <1>6

(* All that is written is the beginning of the file.                       *)
LEMMA WrittenIsFile == ASSUME EInv PROVE IsPrefix(dst, unpack)
<1>1. unpack \in Files /\ unpack \in Seq(WordSet) /\ Len(unpack) \in Nat
  BY FilesAre DEF EInv
<1>2. PICK a \in 0 .. Len(unpack) : dst = SubSeq(unpack, 1, a)
  <2>1. CASE pc \in Decoding
    <3>1. PICK x \in Places(unpack) : Follows(x)
      BY <2>1, DecodingIs
    <3>2. QED
      BY <3>1, PlaceIs DEF Follows
  <2>2. CASE pc \notin Decoding
    <3>1. dst = <<>>
      BY <2>2 DEF EInv, EncodeInv, EndInv, HeaderInv, NotBegun
    <3>2. SubSeq(unpack, 1, 0) = <<>> /\ 0 \in 0 .. Len(unpack)
      BY <1>1
    <3>3. QED
      BY <3>1, <3>2
  <2>3. QED
    BY <2>1, <2>2
<1>3. Len(dst) = a /\ \A i \in 1 .. a : dst[i] = unpack[i]
  BY <1>1, <1>2
<1>4. dst \in Seq(WordSet) /\ a <= Len(unpack)
  BY <1>1, <1>2
<1>5. QED
  BY <1>1, <1>3, <1>4 DEF IsPrefix

(* What decode has written is the beginning of the file, and all of it     *)
(* once decode has returned.                                               *)
THEOREM FileIsGivenBack == Spec => []DecodesToFile
<1>1. EInv => DecodesToFile
  BY OverIs, WrittenIsFile DEF DecodesToFile
<1>2. QED
  BY <1>1, EnigmaInvariant, PTL

(* decode returns at the terminator and never because a word was missing,  *)
(* and no bit is left unread.                                              *)
THEOREM TerminatorStops == Spec => []StopsAtTerminator
<1>1. EInv => StopsAtTerminator
  BY OverIs DEF StopsAtTerminator
<1>2. QED
  BY <1>1, EnigmaInvariant, PTL
=============================================================================
