-------------------------- MODULE LzssStreamProofs --------------------------
(***************************************************************************)
(* Proofs about the streams of LzssStream, for descriptor fields of any    *)
(* width, any bytes and streams of any length: the variables keep their    *)
(* types, the streams are a channel (LzssChannel), and the reader has      *)
(* taken the whole file when it has got all that was written.              *)
(***************************************************************************)
EXTENDS LzssStream, SequenceTheorems, TLAPS

Unit == [kind : {"desc"}, bits : Fields] \cup [kind : {"data"}, val : Bytes]
Item == [kind : {"bit"}, val : {0, 1}] \cup [kind : {"byte"}, val : Bytes]

(* The types, with those of what the reader has, and an early reader never *)
(* left without a bit.                                                     *)
ITypeOK ==
  /\ TypeOK
  /\ received \in Seq(Item)
  /\ needEarlyDescriptor /\ pos > 0 => word # <<>>

(* A descriptor field is a sequence of bits, and the other way round.      *)
LEMMA FieldIsSeq ==
  ASSUME NEW f
  PROVE  f \in Fields <=> f \in Seq({0, 1}) /\ Len(f) = NumDescBits
<1>1. NumDescBits \in Nat
  BY StreamAssumption
<1>2. ASSUME f \in Fields PROVE f \in Seq({0, 1}) /\ Len(f) = NumDescBits
  BY <1>1, <1>2 DEF Fields
<1>3. ASSUME f \in Seq({0, 1}), Len(f) = NumDescBits PROVE f \in Fields
  BY <1>1, <1>3 DEF Fields
<1>4. QED
  BY <1>2, <1>3

(* The units and items a writer makes.                                     *)
LEMMA UnitsAndItems ==
  /\ \A f \in Fields : Desc(f) \in Unit /\ Desc(f).kind = "desc" /\ Desc(f).bits = f
  /\ \A c \in Bytes : Data(c) \in Unit /\ Data(c).kind = "data" /\ Data(c).val = c
  /\ \A b \in {0, 1} : [kind |-> "bit", val |-> b] \in Item
  /\ \A c \in Bytes : [kind |-> "byte", val |-> c] \in Item
  /\ \A u \in Unit : u.kind = "desc" => u.bits \in Fields
  /\ \A u \in Unit : u.kind = "data" => u.val \in Bytes
BY DEF Unit, Item, Desc, Data

(* An item is its kind and its value.                                      *)
LEMMA ItemIs ==
  ASSUME NEW x \in Item
  PROVE  /\ x.kind \in {"bit", "byte"}
         /\ x.kind = "bit" => x.val \in {0, 1}
         /\ x.kind = "byte" => x.val \in Bytes
         /\ x = [kind |-> x.kind, val |-> x.val]
BY DEF Item

(* The bytes in flight become as many items of the file.                   *)
LEMMA WrittenIsSeq ==
  ASSUME NEW s \in Seq(Bytes)
  PROVE  /\ Written(s) \in Seq(Unit) /\ Len(Written(s)) = Len(s)
         /\ \A i \in 1 .. Len(s) : Written(s)[i] = Data(s[i])
<1>1. \A i \in 1 .. Len(s) : Data(s[i]) \in Unit
  BY UnitsAndItems
<1>2. Written(s) = [i \in 1 .. Len(s) |-> Data(s[i])] /\ Len(s) \in Nat
  BY DEF Written
<1>3. QED
  BY <1>1, <1>2

(* The padding of a descriptor field is bits.                              *)
LEMMA ZerosIsSeq ==
  ASSUME NEW n \in Nat
  PROVE  Zeros(n) \in Seq({0, 1}) /\ Len(Zeros(n)) = n
BY DEF Zeros

(* What a field filled up with zeros is.                                   *)
LEMMA PaddedIsField ==
  ASSUME NEW p \in Seq({0, 1}), Len(p) <= NumDescBits
  PROVE  /\ p \o Zeros(NumDescBits - Len(p)) \in Fields
         /\ \A i \in 1 .. Len(p) : (p \o Zeros(NumDescBits - Len(p)))[i] = p[i]
         /\ \A i \in Len(p) + 1 .. NumDescBits : (p \o Zeros(NumDescBits - Len(p)))[i] = 0
<1> DEFINE z == Zeros(NumDescBits - Len(p))
<1>1. NumDescBits \in Nat /\ Len(p) \in Nat /\ NumDescBits - Len(p) \in Nat
  BY StreamAssumption
<1>2. z \in Seq({0, 1}) /\ Len(z) = NumDescBits - Len(p)
  BY <1>1, ZerosIsSeq
<1>3. \A i \in 1 .. Len(z) : z[i] = 0
  BY <1>1 DEF Zeros
<1> HIDE DEF z
<1>4. p \o z \in Seq({0, 1}) /\ Len(p \o z) = NumDescBits
  BY <1>1, <1>2
<1>5. p \o z \in Fields
  BY <1>4, FieldIsSeq
<1>6. \A i \in Len(p) + 1 .. NumDescBits : (p \o z)[i] = 0
  BY <1>1, <1>2, <1>3
<1>7. \A i \in 1 .. Len(p) : (p \o z)[i] = p[i]
  BY <1>1, <1>2
<1>8. QED
  BY <1>5, <1>6, <1>7 DEF z

(* What a read of the file can give.                                       *)
LEMMA ReadsAreTyped ==
  ASSUME out \in Seq(Unit), NEW p
  PROVE  FieldAt(p) \subseteq Fields /\ ByteAt(p) \subseteq Bytes
<1>1. \A q \in DOMAIN out : out[q] \in Unit
  OBVIOUS
<1>2. QED
  BY <1>1, UnitsAndItems DEF FieldAt, ByteAt

-----------------------------------------------------------------------------
(* Types, action by action.                                                *)
LEMMA DescbitKeepsTypes ==
  ASSUME ITypeOK, NEW b \in {0, 1}, Descbit(b)
  PROVE  ITypeOK'
<1> DEFINE p == Append(bits, b)
<1>1. NumDescBits \in Nat \ {0, 1} /\ out \in Seq(Unit) /\ bits \in Seq({0, 1}) /\ Len(bits) < NumDescBits
      /\ buffer \in Seq(Bytes) /\ sent \in Seq(Item)
  BY StreamAssumption DEF ITypeOK, TypeOK, Unit, Item
<1>2. p \in Seq({0, 1}) /\ Len(p) = Len(bits) + 1 /\ Len(p) <= NumDescBits
  BY <1>1
<1> HIDE DEF p
<1>3. Full(p) => Desc(p) \in Unit
  BY <1>1, <1>2, FieldIsSeq, UnitsAndItems DEF Full
<1>4. Written(buffer) \in Seq(Unit)
  BY <1>1, WrittenIsSeq
<1>5. /\ <<>> \in Seq(Unit) /\ <<>> \in Seq(Bytes) /\ <<>> \in Seq({0, 1}) /\ Len(<<>>) < NumDescBits
      /\ ~Full(p) => Len(p) < NumDescBits
  BY <1>1, <1>2 DEF Full
<1>6. ASSUME NEW f \in Seq(Unit) PROVE Pushed(f, p) \in Seq(Unit)
  BY <1>3, <1>6 DEF Pushed
<1>7. /\ out' \in Seq(Unit) /\ bits' \in Seq({0, 1}) /\ Len(bits') < NumDescBits
      /\ buffer' \in Seq(Bytes)
  <2>1. CASE needEarlyDescriptor
    <3>1. /\ bits' = IF Full(p) THEN <<>> ELSE p
          /\ out' = Pushed(out, p) \o (IF Full(p) THEN Written(buffer) ELSE <<>>)
          /\ buffer' = IF Full(p) THEN <<>> ELSE buffer
      BY <2>1 DEF Descbit, DescbitEarly, p
    <3>2. Pushed(out, p) \in Seq(Unit) /\ (IF Full(p) THEN Written(buffer) ELSE <<>>) \in Seq(Unit)
      BY <1>1, <1>4, <1>5, <1>6
    <3>3. out' \in Seq(Unit)
      BY <3>1, <3>2
    <3>4. QED
      BY <1>1, <1>2, <1>5, <3>1, <3>3
  <2>2. CASE ~needEarlyDescriptor
    <3>1. /\ bits' = IF Full(p) THEN <<>> ELSE p
          /\ out' = Pushed(out \o (IF bits = <<>> THEN Written(buffer) ELSE <<>>), p)
          /\ buffer' = IF bits = <<>> THEN <<>> ELSE buffer
      BY <2>2 DEF Descbit, DescbitLate, p
    <3>2. (IF bits = <<>> THEN Written(buffer) ELSE <<>>) \in Seq(Unit)
      BY <1>4, <1>5
    <3>3. out \o (IF bits = <<>> THEN Written(buffer) ELSE <<>>) \in Seq(Unit)
      BY <1>1, <3>2
    <3>4. out' \in Seq(Unit)
      BY <1>6, <3>1, <3>3
    <3>5. QED
      BY <1>1, <1>2, <1>5, <3>1, <3>4
  <2>3. QED
    BY <2>1, <2>2
<1>8. sent' \in Seq(Item) /\ Len(sent') = Len(sent) + 1 /\ Len(sent) \in Nat
  <2>1. sent' = Append(sent, [kind |-> "bit", val |-> b])
    BY DEF Descbit, Sends
  <2>2. [kind |-> "bit", val |-> b] \in Item
    BY UnitsAndItems
  <2>3. QED
    BY <1>1, <2>1, <2>2
<1>9. UNCHANGED <<needEarlyDescriptor, closed, pos, word, received>>
  BY DEF Descbit, Sends
<1>10. Len(received') <= Len(sent')
  BY <1>8, <1>9 DEF ITypeOK, TypeOK
<1>11. QED
  BY <1>7, <1>8, <1>9, <1>10 DEF ITypeOK, TypeOK, Unit, Item

(* putbyte keeps the types.                                                *)
LEMMA PutbyteKeepsTypes ==
  ASSUME ITypeOK, NEW c \in Bytes, Putbyte(c)
  PROVE  ITypeOK'
<1>1. buffer \in Seq(Bytes) /\ sent \in Seq(Item) /\ received \in Seq(Item) /\ Len(received) <= Len(sent)
  BY DEF ITypeOK, TypeOK, Item
<1>2. buffer' = Append(buffer, c) /\ sent' = Append(sent, [kind |-> "byte", val |-> c])
  BY DEF Putbyte, Sends
<1>3. UNCHANGED <<needEarlyDescriptor, closed, pos, word, received, out, bits>>
  BY DEF Putbyte, Sends
<1>4. buffer' \in Seq(Bytes)
  BY <1>1, <1>2
<1>5. sent' \in Seq(Item) /\ Len(sent') = Len(sent) + 1
  BY <1>1, <1>2, UnitsAndItems
<1>6. Len(received') <= Len(sent')
  BY <1>1, <1>3, <1>5
<1>7. QED
  BY <1>3, <1>4, <1>5, <1>6 DEF ITypeOK, TypeOK, Item

(* So does the destructor.                                                 *)
LEMMA DestroyKeepsTypes ==
  ASSUME ITypeOK, Destroy
  PROVE  ITypeOK'
<1>1. /\ NumDescBits \in Nat \ {0, 1} /\ out \in Seq(Unit) /\ bits \in Seq({0, 1})
      /\ Len(bits) <= NumDescBits /\ buffer \in Seq(Bytes)
  BY StreamAssumption DEF ITypeOK, TypeOK, Unit
<1>2. Padded \in Seq(Unit)
  BY <1>1, PaddedIsField, UnitsAndItems DEF Padded
<1>3. Append(out, Desc(Zeros(NumDescBits))) \in Seq(Unit)
  BY <1>1, ZerosIsSeq, FieldIsSeq, UnitsAndItems
<1>4. Written(buffer) \in Seq(Unit)
  BY <1>1, WrittenIsSeq
<1>5. out' \in Seq(Unit)
  BY <1>1, <1>2, <1>3, <1>4 DEF Destroy
<1>6. bits' = <<>> /\ buffer' = <<>> /\ closed' \in BOOLEAN
      /\ UNCHANGED <<needEarlyDescriptor, pos, word, sent, received>>
  BY DEF Destroy
<1>7. bits' \in Seq({0, 1}) /\ Len(bits') < NumDescBits /\ buffer' \in Seq(Bytes)
  BY <1>1, <1>6
<1>8. QED
  BY <1>5, <1>6, <1>7 DEF ITypeOK, TypeOK, Unit

(* So does the reader's constructor.                                       *)
LEMMA OpenKeepsTypes ==
  ASSUME ITypeOK, Open
  PROVE  ITypeOK'
<1>1. out \in Seq(Unit) /\ NumDescBits \in Nat \ {0, 1}
  BY StreamAssumption DEF ITypeOK, TypeOK, Unit
<1>2. word' \in Fields
  BY <1>1, ReadsAreTyped DEF Open
<1>3. word' \in Seq({0, 1}) /\ Len(word') = NumDescBits
  BY <1>2, FieldIsSeq
<1>4. word' # <<>> /\ Len(word') <= NumDescBits
  BY <1>1, <1>3
<1>5. pos' = 1 /\ UNCHANGED <<needEarlyDescriptor, out, bits, buffer, closed, sent, received>>
  BY DEF Open
<1>6. QED
  BY <1>3, <1>4, <1>5 DEF ITypeOK, TypeOK

(* So does descbit, late or early.                                         *)
LEMMA DescbitReadKeepsTypes ==
  ASSUME ITypeOK, DescbitRead
  PROVE  ITypeOK'
<1>1. /\ NumDescBits \in Nat \ {0, 1} /\ out \in Seq(Unit) /\ pos \in Nat /\ pos > 0
      /\ word \in Seq({0, 1}) /\ Len(word) <= NumDescBits
      /\ sent \in Seq(Item) /\ received \in Seq(Item) /\ Len(received) < Len(sent)
  BY StreamAssumption DEF ITypeOK, TypeOK, Unit, Item, DescbitRead, Reading
<1>2. FieldAt(pos + 1) \subseteq Fields
  BY <1>1, ReadsAreTyped
<1>3. \A f \in Fields : f \in Seq({0, 1}) /\ f # <<>> /\ Len(f) = NumDescBits
  BY <1>1, FieldIsSeq
<1>4. ASSUME NEW s \in Seq({0, 1}), s # <<>>
      PROVE  Head(s) \in {0, 1} /\ Tail(s) \in Seq({0, 1}) /\ Len(Tail(s)) = Len(s) - 1
  BY <1>4
<1>5. /\ word' \in Seq({0, 1}) /\ Len(word') <= NumDescBits /\ pos' \in Nat
      /\ needEarlyDescriptor => word' # <<>>
      /\ \E v \in {0, 1} : Gets(v)
  <2>1. CASE needEarlyDescriptor
    <3>1. word # <<>> /\ Head(word) \in {0, 1}
      BY <1>1, <1>4, <2>1 DEF ITypeOK
    <3>2. CASE Len(word) = 1
      BY <1>1, <1>2, <1>3, <2>1, <3>1, <3>2 DEF DescbitRead
    <3>3. CASE Len(word) # 1
      <4>1. word' = Tail(word) /\ pos' = pos /\ Gets(Head(word))
        BY <2>1, <3>3 DEF DescbitRead
      <4>2. Tail(word) \in Seq({0, 1}) /\ Len(Tail(word)) = Len(word) - 1
        BY <1>1, <1>4, <3>1
      <4>3. Len(word) \in Nat /\ Len(word) # 0
        BY <1>1, <3>1, EmptySeq
      <4>4. Len(Tail(word)) # 0
        BY <3>3, <4>2, <4>3
      <4>5. Tail(word) # <<>>
        BY <4>4
      <4>6. QED
        BY <1>1, <3>1, <4>1, <4>2, <4>5
    <3>4. QED
      BY <3>2, <3>3
  <2>2. CASE ~needEarlyDescriptor /\ word = <<>>
    <3>1. PICK f \in FieldAt(pos + 1) : Gets(Head(f)) /\ word' = Tail(f) /\ pos' = pos + 1
      BY <2>2 DEF DescbitRead
    <3>2. QED
      BY <1>1, <1>2, <1>3, <1>4, <2>2, <3>1
  <2>3. CASE ~needEarlyDescriptor /\ word # <<>>
    <3>1. Gets(Head(word)) /\ word' = Tail(word) /\ pos' = pos
      BY <2>3 DEF DescbitRead
    <3>2. QED
      BY <1>1, <1>4, <2>3, <3>1
  <2>4. QED
    BY <2>1, <2>2, <2>3
<1>6. received' \in Seq(Item) /\ Len(received') = Len(received) + 1
  <2>1. PICK v \in {0, 1} : Gets(v)
    BY <1>5
  <2>2. received' = Append(received, [kind |-> "bit", val |-> v])
    BY <2>1 DEF Gets, DescbitRead
  <2>3. QED
    BY <1>1, <2>2, UnitsAndItems
<1>7. UNCHANGED <<needEarlyDescriptor, out, bits, buffer, closed, sent>>
  BY DEF DescbitRead
<1>8. Len(received') <= Len(sent')
  BY <1>1, <1>6, <1>7
<1>9. QED
  BY <1>5, <1>6, <1>7, <1>8 DEF ITypeOK, TypeOK

(* So does getbyte.                                                        *)
LEMMA GetbyteKeepsTypes ==
  ASSUME ITypeOK, Getbyte
  PROVE  ITypeOK'
<1>1. /\ out \in Seq(Unit) /\ pos \in Nat
      /\ sent \in Seq(Item) /\ received \in Seq(Item) /\ Len(received) < Len(sent)
  BY DEF ITypeOK, TypeOK, Unit, Item, Getbyte, Reading
<1>2. PICK c \in Bytes : received' = Append(received, [kind |-> "byte", val |-> c])
  BY <1>1, ReadsAreTyped DEF Getbyte, Gets
<1>3. received' \in Seq(Item) /\ Len(received') = Len(received) + 1
  BY <1>1, <1>2, UnitsAndItems
<1>4. pos' = pos + 1 /\ pos' \in Nat /\ pos > 0
      /\ UNCHANGED <<needEarlyDescriptor, out, bits, buffer, closed, word, sent>>
  BY <1>1 DEF Getbyte, Reading
<1>5. Len(received') <= Len(sent')
  BY <1>1, <1>3, <1>4
<1>6. QED
  BY <1>3, <1>4, <1>5 DEF ITypeOK, TypeOK

(* The types hold at first.                                                *)
LEMMA InitHasTypes == Init => ITypeOK
<1>1. NumDescBits \in Nat \ {0, 1} /\ Disciplines \subseteq BOOLEAN
  BY StreamAssumption
<1>2. /\ <<>> \in Seq(Unit) /\ <<>> \in Seq(Item) /\ <<>> \in Seq(Bytes) /\ <<>> \in Seq({0, 1})
      /\ Len(<<>>) = 0
  BY EmptySeq
<1>3. SUFFICES ASSUME Init PROVE ITypeOK
  OBVIOUS
<1>4. /\ needEarlyDescriptor \in BOOLEAN /\ out \in Seq(Unit) /\ bits \in Seq({0, 1})
      /\ buffer \in Seq(Bytes) /\ closed \in BOOLEAN /\ word \in Seq({0, 1})
      /\ sent \in Seq(Item) /\ received \in Seq(Item)
  BY <1>1, <1>2, <1>3 DEF Init
<1>5. /\ pos = 0 /\ Len(bits) < NumDescBits /\ Len(word) <= NumDescBits
      /\ Len(received) <= Len(sent)
  BY <1>1, <1>2, <1>3 DEF Init
<1>6. QED
  BY <1>4, <1>5 DEF ITypeOK, TypeOK, Unit, Item

(* Every step keeps them.                                                  *)
LEMMA StepKeepsTypes ==
  ASSUME ITypeOK, [Next]_vars
  PROVE  ITypeOK'
<1>1. ASSUME NEW b \in {0, 1}, Descbit(b) PROVE ITypeOK'
  BY <1>1, DescbitKeepsTypes
<1>2. ASSUME NEW c \in Bytes, Putbyte(c) PROVE ITypeOK'
  BY <1>2, PutbyteKeepsTypes
<1>3. CASE Destroy
  BY <1>3, DestroyKeepsTypes
<1>4. CASE Open
  BY <1>4, OpenKeepsTypes
<1>5. CASE DescbitRead
  BY <1>5, DescbitReadKeepsTypes
<1>6. CASE Getbyte
  BY <1>6, GetbyteKeepsTypes
<1>7. CASE UNCHANGED vars
  BY <1>7 DEF vars, ITypeOK, TypeOK
<1>8. QED
  BY <1>1, <1>2, <1>3, <1>4, <1>5, <1>6, <1>7 DEF Next

(* The types, with those of the reader, in every reachable state.          *)
LEMMA SpecHasTypes == Spec => []ITypeOK
<1>1. Init => ITypeOK
  BY InitHasTypes
<1>2. ITypeOK /\ [Next]_vars => ITypeOK'
  BY StepKeepsTypes
<1>3. QED
  BY <1>1, <1>2, PTL DEF Spec

(* A stream's variables keep their types: no field of the file has more or *)
(* fewer bits than a descriptor, no writer holds a full field back.        *)
THEOREM StreamTypes == Spec => []TypeOK
<1>1. ITypeOK => TypeOK
  BY DEF ITypeOK
<1>2. QED
  BY <1>1, SpecHasTypes, PTL
-----------------------------------------------------------------------------
(* The layout of the file.  A place is where the reader stands after some  *)
(* items: the units it has taken, the bits left in its word, and the unit  *)
(* that word was read from.  Start is the place before the first item; a   *)
(* late reader, which does read its first field before it needs one, is    *)
(* then in fact at First, which makes no difference to what comes next.    *)
Place == [pos : Nat, left : 0 .. NumDescBits, field : Nat]
First == [pos |-> 1, left |-> NumDescBits, field |-> 1]
Nowhere == [pos |-> 0, left |-> 0, field |-> 0]
Start == IF needEarlyDescriptor THEN First ELSE Nowhere

Fetch(l) == [pos |-> l.pos + 1, left |-> NumDescBits, field |-> l.pos + 1]
UsedUp(l) == l.left = 0
Before(l) == IF ~needEarlyDescriptor /\ UsedUp(l) THEN Fetch(l) ELSE l
Take(l) == [l EXCEPT !.left = @ - 1]
After(l) == IF needEarlyDescriptor /\ UsedUp(l) THEN Fetch(l) ELSE l
Skip(l) == [l EXCEPT !.pos = @ + 1]
Then(l, kind) == IF kind = "bit" THEN After(Take(Before(l))) ELSE Skip(l)

(* The file as it would be if the writer were destroyed now.               *)
Begun ==
  IF bits # <<>> THEN Padded
  ELSE IF needEarlyDescriptor THEN Append(out, Desc(Zeros(NumDescBits)))
  ELSE out
File == IF closed THEN out ELSE Begun \o Written(buffer)

HasField(f, p) == p \in 1 .. Len(f) /\ f[p].kind = "desc"
HasBit(f, l, b) == HasField(f, l.field) /\ f[l.field].bits[NumDescBits - l.left + 1] = b
HasByte(f, l, c) == l.pos \in 1 .. Len(f) /\ f[l.pos] = Data(c)

(* The places of all items, one after the other.                           *)
Places(at) ==
  /\ at \in [0 .. Len(sent) -> Place]
  /\ at[0] = Start
  /\ \A i \in 1 .. Len(sent) : at[i] = Then(at[i - 1], sent[i].kind)
  /\ \A i \in 0 .. Len(sent) :
       IF needEarlyDescriptor THEN at[i].left > 0 ELSE at[i].left < NumDescBits
  /\ sent # <<>> => sent[1].kind = "bit"

(* Places do not go back, and of a field the bits are taken in order.      *)
Ordered(at) ==
  LET last == at[Len(sent)] IN
    /\ \A i \in 0 .. Len(sent) : at[i].pos <= last.pos
    /\ last.field <= last.pos
    /\ \A i \in 1 .. Len(sent) : sent[i].kind = "bit" =>
         /\ Before(at[i - 1]).field <= last.field
         /\ Before(at[i - 1]).field = last.field => Before(at[i - 1]).left > last.left

(* While the writer is open, the file ends with the last field or, if that *)
(* is not complete, before it; what follows the field is held back.        *)
Held(at) ==
  ~closed => LET last == at[Len(sent)] IN
    /\ Len(bits) = IF UsedUp(last) THEN 0 ELSE NumDescBits - last.left
    /\ Len(out) = IF UsedUp(last) THEN last.field ELSE last.field - 1
    /\ Len(buffer) = last.pos - last.field

(* Every item is at its place, and the file ends at the last one.          *)
Contents(at) ==
  /\ Len(File) = at[Len(sent)].pos
  /\ \A i \in 1 .. Len(sent) :
       /\ HasField(File, at[i].field)
       /\ sent[i].kind = "bit" => HasBit(File, Before(at[i - 1]), sent[i].val)
       /\ sent[i].kind = "byte" => HasByte(File, at[i], sent[i].val)

(* The reader is at the place of the last item it got.                     *)
Standing(at) == IF received = <<>> THEN First ELSE at[Len(received)]
Reads(at) ==
  /\ pos = 0 => received = <<>>
  /\ pos > 0 => closed
  /\ closed => sent # <<>>
  /\ \A i \in 1 .. Len(received) : received[i] = sent[i]
  /\ pos > 0 => LET here == Standing(at) IN
       /\ pos = here.pos
       /\ Len(word) = here.left
       /\ \A k \in 1 .. here.left : word[k] = out[here.field].bits[NumDescBits - here.left + k]

LaidOut(at) == Places(at) /\ Ordered(at) /\ Held(at) /\ Contents(at) /\ Reads(at)
Inv == \E at \in [0 .. Len(sent) -> Place] : LaidOut(at)

-----------------------------------------------------------------------------
(* The file as a function of what the writer holds.                        *)
Pending == bits # <<>> \/ needEarlyDescriptor

(* Unit by unit: what is written, the field begun filled up with zeros,    *)
(* and the bytes held back.                                                *)
Shape ==
  /\ File \in Seq(Unit)
  /\ Len(File) = Len(out) + (IF Pending THEN 1 ELSE 0) + Len(buffer)
  /\ \A p \in 1 .. Len(out) : File[p] = out[p]
  /\ Pending =>
       LET q == Len(out) + 1 IN
         /\ q \in 1 .. Len(File) /\ File[q].kind = "desc"
         /\ \A k \in 1 .. Len(bits) : File[q].bits[k] = bits[k]
         /\ \A k \in Len(bits) + 1 .. NumDescBits : File[q].bits[k] = 0
         /\ \A p \in q + 1 .. Len(File) : File[p] = Data(buffer[p - q])
  /\ ~Pending =>
       \A p \in Len(out) + 1 .. Len(File) : File[p] = Data(buffer[p - Len(out)])

(* What the library says of a concatenation, as the proofs use it.         *)
LEMMA Concatenated ==
  ASSUME NEW S, NEW s \in Seq(S), NEW t \in Seq(S)
  PROVE  /\ s \o t \in Seq(S) /\ Len(s \o t) = Len(s) + Len(t)
         /\ \A p \in 1 .. Len(s) : (s \o t)[p] = s[p]
         /\ \A p \in Len(s) + 1 .. Len(s) + Len(t) : (s \o t)[p] = t[p - Len(s)]
<1>1. /\ s \o t \in Seq(S) /\ Len(s \o t) = Len(s) + Len(t)
      /\ \A p \in 1 .. Len(s) + Len(t) : (s \o t)[p] = IF p <= Len(s) THEN s[p] ELSE t[p - Len(s)]
  BY ConcatProperties
<1>2. Len(s) \in Nat /\ Len(t) \in Nat
  OBVIOUS
<1>3. QED
  BY <1>1, <1>2

(* The file of an open writer ends in what it has in hand.                 *)
LEMMA ShapeOfFile == ITypeOK /\ ~closed => Shape
<1> SUFFICES ASSUME ITypeOK, ~closed PROVE Shape
  OBVIOUS
<1> DEFINE field == bits \o Zeros(NumDescBits - Len(bits))
           w == Written(buffer)
<1>1. /\ NumDescBits \in Nat \ {0, 1} /\ out \in Seq(Unit) /\ bits \in Seq({0, 1})
      /\ Len(bits) \in Nat /\ Len(bits) <= NumDescBits /\ Len(out) \in Nat
      /\ buffer \in Seq(Bytes) /\ Len(buffer) \in Nat
  BY StreamAssumption DEF ITypeOK, TypeOK, Unit
<1>2. /\ w \in Seq(Unit) /\ Len(w) = Len(buffer)
      /\ \A i \in 1 .. Len(buffer) : w[i] = Data(buffer[i])
  BY <1>1, WrittenIsSeq
<1>3. /\ field \in Fields
      /\ \A k \in 1 .. Len(bits) : field[k] = bits[k]
      /\ \A k \in Len(bits) + 1 .. NumDescBits : field[k] = 0
  <2> HIDE DEF w
  <2>1. bits \in Seq({0, 1}) /\ Len(bits) <= NumDescBits
    BY <1>1
  <2>2. QED
    BY ONLY <2>1, PaddedIsField DEF field
<1>4. Desc(field) \in Unit /\ Desc(field).kind = "desc" /\ Desc(field).bits = field
  BY <1>3, UnitsAndItems
<1>5. Begun = IF Pending THEN Append(out, Desc(field)) ELSE out
  <2>1. CASE bits # <<>>
    BY <2>1 DEF Begun, Padded, Pending
  <2>2. CASE bits = <<>>
    <3>1. Len(bits) = 0 /\ NumDescBits - Len(bits) = NumDescBits
      BY <1>1, <2>2
    <3>2. Zeros(NumDescBits) \in Seq({0, 1})
      BY <1>1, ZerosIsSeq
    <3>3. field = Zeros(NumDescBits)
      BY <2>2, <3>1, <3>2, ConcatEmptySeq
    <3> HIDE DEF field
    <3>4. QED
      BY <2>2, <3>3 DEF Begun, Pending
  <2>3. QED
    BY <2>1, <2>2
<1>6. File = Begun \o w
  BY DEF File
<1> HIDE DEF field, w
<1>7. CASE Pending
  <2> DEFINE q == Len(out) + 1
             f == Append(out, Desc(field))
  <2>1. /\ f \in Seq(Unit) /\ Len(f) = q /\ f[q] = Desc(field)
        /\ \A p \in 1 .. Len(out) : f[p] = out[p]
    BY <1>1, <1>4
  <2>2. File = f \o w
    BY <1>5, <1>6, <1>7
  <2> HIDE DEF f
  <2>3. /\ File \in Seq(Unit) /\ Len(File) = q + Len(buffer)
        /\ \A p \in 1 .. q : File[p] = f[p]
        /\ \A p \in q + 1 .. Len(File) : File[p] = w[p - q]
    <3>1. f \in Seq(Unit) /\ w \in Seq(Unit)
      BY <1>2, <2>1
    <3>2. /\ f \o w \in Seq(Unit) /\ Len(f \o w) = Len(f) + Len(w)
          /\ \A p \in 1 .. Len(f) : (f \o w)[p] = f[p]
          /\ \A p \in Len(f) + 1 .. Len(f) + Len(w) : (f \o w)[p] = w[p - Len(f)]
      BY <3>1, Concatenated
    <3>3. Len(f) = q /\ Len(w) = Len(buffer)
      BY <1>2, <2>1
    <3>4. QED
      BY <2>2, <3>2, <3>3
  <2>4. q \in 1 .. Len(File) /\ File[q] = Desc(field)
    BY <1>1, <2>1, <2>3
  <2>5. ASSUME NEW p \in q + 1 .. Len(File) PROVE File[p] = Data(buffer[p - q])
    <3>1. p - q \in 1 .. Len(buffer)
      BY <1>1, <2>3
    <3>2. QED
      BY <1>2, <2>3, <3>1
  <2>6. \A p \in 1 .. Len(out) : File[p] = out[p]
    BY <1>1, <2>1, <2>3
  <2>7. QED
    BY <1>1, <1>3, <1>4, <1>7, <2>3, <2>4, <2>5, <2>6 DEF Shape
<1>8. CASE ~Pending
  <2>1. File = out \o w
    BY <1>5, <1>6, <1>8
  <2>2. /\ File \in Seq(Unit) /\ Len(File) = Len(out) + Len(buffer)
        /\ \A p \in 1 .. Len(out) : File[p] = out[p]
        /\ \A p \in Len(out) + 1 .. Len(File) : File[p] = w[p - Len(out)]
    <3>1. out \in Seq(Unit) /\ w \in Seq(Unit)
      BY <1>1, <1>2
    <3>2. /\ out \o w \in Seq(Unit) /\ Len(out \o w) = Len(out) + Len(w)
          /\ \A p \in 1 .. Len(out) : (out \o w)[p] = out[p]
          /\ \A p \in Len(out) + 1 .. Len(out) + Len(w) : (out \o w)[p] = w[p - Len(out)]
      BY <3>1, Concatenated
    <3>3. QED
      BY <1>2, <2>1, <3>2
  <2>3. ASSUME NEW p \in Len(out) + 1 .. Len(File) PROVE File[p] = Data(buffer[p - Len(out)])
    <3>1. p - Len(out) \in 1 .. Len(buffer)
      BY <1>1, <2>2
    <3>2. QED
      BY <1>2, <2>2, <3>1
  <2>4. QED
    BY <1>8, <2>2, <2>3 DEF Shape
<1>9. QED
  BY <1>7, <1>8

(* The same after a step of the open writer.                               *)
LEMMA ShapeThen == (ITypeOK /\ ~closed)' => Shape'
BY ShapeOfFile, PTL

(* A byte goes to the end.                                                 *)
LEMMA PutbyteFile ==
  ASSUME ITypeOK, NEW c \in Bytes, Putbyte(c)
  PROVE  /\ File \in Seq(Unit) /\ Len(File') = Len(File) + 1
         /\ \A p \in 1 .. Len(File) : File'[p] = File[p]
         /\ File'[Len(File) + 1] = Data(c)
<1> DEFINE w == Written(buffer)
           v == Written(buffer')
<1>1. ~closed /\ ~closed' /\ buffer \in Seq(Bytes) /\ buffer' = Append(buffer, c)
  BY DEF Putbyte, Sends, ITypeOK, TypeOK
<1>2. Len(buffer) \in Nat /\ buffer' \in Seq(Bytes) /\ Len(buffer') = Len(buffer) + 1
      /\ buffer'[Len(buffer) + 1] = c /\ \A i \in 1 .. Len(buffer) : buffer'[i] = buffer[i]
  BY <1>1
<1>3. /\ w \in Seq(Unit) /\ Len(w) = Len(buffer)
      /\ \A i \in 1 .. Len(buffer) : w[i] = Data(buffer[i])
  BY <1>1, WrittenIsSeq
<1>4. /\ v \in Seq(Unit) /\ Len(v) = Len(buffer')
      /\ \A i \in 1 .. Len(buffer') : v[i] = Data(buffer'[i])
  BY <1>2, WrittenIsSeq
<1>5. File = Begun \o w /\ File' = Begun \o v
  <2>1. Begun' = Begun
    BY DEF Begun, Padded, Putbyte, Sends
  <2>2. QED
    BY <1>1, <2>1 DEF File
<1> HIDE DEF w, v
<1>6. Begun \in Seq(Unit)
  <2>1. /\ NumDescBits \in Nat \ {0, 1} /\ out \in Seq(Unit) /\ bits \in Seq({0, 1})
        /\ Len(bits) <= NumDescBits
    BY StreamAssumption DEF ITypeOK, TypeOK, Unit
  <2>2. Padded \in Seq(Unit)
    BY <2>1, PaddedIsField, UnitsAndItems DEF Padded
  <2>3. Append(out, Desc(Zeros(NumDescBits))) \in Seq(Unit)
    BY <2>1, ZerosIsSeq, FieldIsSeq, UnitsAndItems
  <2>4. QED
    BY <2>1, <2>2, <2>3 DEF Begun
<1>7. /\ File \in Seq(Unit) /\ Len(File) = Len(Begun) + Len(w)
      /\ \A p \in 1 .. Len(Begun) : File[p] = Begun[p]
      /\ \A p \in Len(Begun) + 1 .. Len(Begun) + Len(w) : File[p] = w[p - Len(Begun)]
  <2>1. w \in Seq(Unit) /\ Begun \in Seq(Unit)
    BY <1>3, <1>6
  <2>2. QED
    BY ONLY <2>1, <1>5, Concatenated
<1>8. /\ Len(File') = Len(Begun) + Len(v)
      /\ \A p \in 1 .. Len(Begun) : File'[p] = Begun[p]
      /\ \A p \in Len(Begun) + 1 .. Len(Begun) + Len(v) : File'[p] = v[p - Len(Begun)]
  <2>1. v \in Seq(Unit) /\ Begun \in Seq(Unit)
    BY <1>4, <1>6
  <2>2. QED
    BY ONLY <2>1, <1>5, Concatenated
<1>9. Len(Begun) \in Nat
  BY <1>6
<1>10. ASSUME NEW p \in 1 .. Len(File) PROVE File'[p] = File[p]
  <2>1. CASE p \in 1 .. Len(Begun)
    BY <1>7, <1>8, <2>1
  <2>2. CASE p \notin 1 .. Len(Begun)
    <3>1. p - Len(Begun) \in 1 .. Len(buffer) /\ p \in Len(Begun) + 1 .. Len(Begun) + Len(w)
      BY <1>2, <1>3, <1>7, <1>9, <2>2
    <3>2. p \in Len(Begun) + 1 .. Len(Begun) + Len(v) /\ p - Len(Begun) \in 1 .. Len(buffer')
      BY <1>2, <1>3, <1>4, <1>9, <3>1
    <3>3. w[p - Len(Begun)] = v[p - Len(Begun)]
      BY <1>2, <1>3, <1>4, <3>1, <3>2
    <3>4. QED
      BY <1>7, <1>8, <3>1, <3>2, <3>3
  <2>3. QED
    BY <2>1, <2>2
<1>11. File'[Len(File) + 1] = Data(c)
  <2>1. Len(File) + 1 = Len(Begun) + Len(v) /\ Len(File) + 1 - Len(Begun) = Len(buffer')
        /\ Len(File) + 1 \in Len(Begun) + 1 .. Len(Begun) + Len(v)
    BY <1>2, <1>3, <1>4, <1>7, <1>9
  <2>2. v[Len(buffer')] = Data(c)
    BY <1>2, <1>4
  <2>3. QED
    BY <1>8, <2>1, <2>2
<1>12. QED
  BY <1>2, <1>3, <1>4, <1>7, <1>8, <1>9, <1>10, <1>11

(* The writer's end puts down what was to be written.                      *)
LEMMA DestroyFile ==
  ASSUME ITypeOK, Destroy
  PROVE  File' = File
<1>1. ~closed /\ closed' /\ out' = Begun \o Written(buffer)
  BY DEF Destroy, Begun, NeedDummyDesc
<1>2. QED
  BY <1>1 DEF File

(* With no field begun (a late writer) a bit begins one at the end.        *)
LEMMA DescbitBegins ==
  ASSUME ITypeOK, NEW b \in {0, 1}, Descbit(b), ~Pending
  PROVE  /\ File \in Seq(Unit) /\ Len(File') = Len(File) + 1
         /\ \A p \in 1 .. Len(File) : File'[p] = File[p]
         /\ File'[Len(File) + 1].kind = "desc" /\ File'[Len(File) + 1].bits[1] = b
         /\ bits' = <<b>> /\ buffer' = <<>> /\ out' = File
<1>1. /\ NumDescBits \in Nat \ {0, 1} /\ out \in Seq(Unit) /\ bits = <<>> /\ ~closed /\ ~closed'
      /\ ~needEarlyDescriptor /\ buffer \in Seq(Bytes)
  BY StreamAssumption DEF ITypeOK, TypeOK, Unit, Pending, Descbit, Sends
<1>2. Append(bits, b) = <<b>> /\ ~Full(<<b>>)
  BY <1>1 DEF Full
<1>3. File = out \o Written(buffer)
  BY <1>1 DEF File, Begun
<1>4. bits' = <<b>> /\ buffer' = <<>> /\ out' = File
  BY <1>1, <1>2, <1>3 DEF Descbit, DescbitLate, Pushed
<1>5. ITypeOK'
  BY DescbitKeepsTypes
<1>6. Shape /\ Shape'
  BY <1>1, <1>5, ShapeOfFile, ShapeThen
<1>7. Pending'
  BY <1>4 DEF Pending
<1>8. Len(bits') = 1 /\ bits'[1] = b /\ Len(buffer') = 0 /\ Len(out') = Len(File)
      /\ Len(File) \in Nat /\ File \in Seq(Unit)
  BY <1>4, <1>6 DEF Shape
<1>9. /\ Len(File') = Len(File) + 1
      /\ \A p \in 1 .. Len(File) : File'[p] = out'[p]
      /\ File'[Len(File) + 1].kind = "desc"
      /\ \A k \in 1 .. Len(bits') : File'[Len(File) + 1].bits[k] = bits'[k]
  BY <1>6, <1>7, <1>8 DEF Shape
<1>10. QED
  BY <1>4, <1>8, <1>9

(* Else the bit is the next of the field begun, and where that was its     *)
(* last one an early writer begins another at the end.                     *)
LEMMA DescbitContinues ==
  ASSUME ITypeOK, NEW b \in {0, 1}, Descbit(b), Pending
  PROVE  LET q == Len(out) + 1
             k == Len(bits) + 1
         IN
         /\ File \in Seq(Unit)
         /\ q \in 1 .. Len(File) /\ File[q].kind = "desc" /\ File'[q].kind = "desc"
         /\ \A p \in 1 .. Len(File) : p # q => File'[p] = File[p]
         /\ \A j \in 1 .. NumDescBits : j # k => File'[q].bits[j] = File[q].bits[j]
         /\ File'[q].bits[k] = b
         /\ IF k < NumDescBits
              THEN /\ Len(File') = Len(File) /\ out' = out /\ buffer' = buffer
                   /\ bits' = Append(bits, b)
            ELSE IF needEarlyDescriptor
              THEN /\ Len(File') = Len(File) + 1 /\ File'[Len(File) + 1].kind = "desc"
                   /\ Len(out') = Len(File) /\ buffer' = <<>> /\ bits' = <<>>
            ELSE /\ Len(File') = Len(File) /\ Len(out') = q /\ buffer' = buffer /\ bits' = <<>>
<1> DEFINE q == Len(out) + 1
           k == Len(bits) + 1
           r == Append(bits, b)
           g == Append(out, Desc(r))
           w == Written(buffer)
<1>1. /\ NumDescBits \in Nat \ {0, 1} /\ out \in Seq(Unit) /\ bits \in Seq({0, 1})
      /\ Len(bits) \in Nat /\ Len(bits) < NumDescBits /\ buffer \in Seq(Bytes)
      /\ ~closed /\ ~closed' /\ needEarlyDescriptor' = needEarlyDescriptor
  BY StreamAssumption DEF ITypeOK, TypeOK, Unit, Descbit, Sends
<1>2. /\ r \in Seq({0, 1}) /\ Len(r) = k /\ r[k] = b /\ r # <<>>
      /\ \A j \in 1 .. Len(bits) : r[j] = bits[j]
  BY <1>1
<1>3. ITypeOK'
  BY DescbitKeepsTypes
<1>4. Shape /\ Shape'
  BY <1>1, <1>3, ShapeOfFile, ShapeThen
<1>5. /\ File \in Seq(Unit) /\ Len(File) = q + Len(buffer) /\ Len(File) \in Nat
      /\ \A p \in 1 .. Len(out) : File[p] = out[p]
      /\ q \in 1 .. Len(File) /\ File[q].kind = "desc"
      /\ \A j \in 1 .. Len(bits) : File[q].bits[j] = bits[j]
      /\ \A j \in k .. NumDescBits : File[q].bits[j] = 0
      /\ \A p \in q + 1 .. Len(File) : File[p] = Data(buffer[p - q])
  BY <1>1, <1>4 DEF Shape
<1>6. Full(r) <=> k >= NumDescBits
  BY <1>1, <1>2 DEF Full
<1>7. /\ w \in Seq(Unit) /\ Len(w) = Len(buffer) /\ Len(buffer) \in Nat
      /\ \A i \in 1 .. Len(buffer) : w[i] = Data(buffer[i])
  BY <1>1, WrittenIsSeq
<1>8. /\ bits' = IF Full(r) THEN <<>> ELSE r
      /\ needEarlyDescriptor =>
           /\ out' = Pushed(out, r) \o (IF Full(r) THEN w ELSE <<>>)
           /\ buffer' = IF Full(r) THEN <<>> ELSE buffer
      /\ ~needEarlyDescriptor =>
           /\ out' = Pushed(out \o (IF bits = <<>> THEN w ELSE <<>>), r)
           /\ buffer' = IF bits = <<>> THEN <<>> ELSE buffer
  BY DEF Descbit, DescbitEarly, DescbitLate
<1>9. out \o <<>> = out
  BY <1>1, ConcatEmptySeq
<1> HIDE DEF r, w
<1>10. CASE k < NumDescBits
  <2>1. out' = out /\ buffer' = buffer /\ bits' = r
    <3>1. ~Full(r)
      BY <1>1, <1>6, <1>10
    <3>2. CASE needEarlyDescriptor
      BY <1>8, <1>9, <3>1, <3>2 DEF Pushed
    <3>3. CASE ~needEarlyDescriptor
      <4>1. bits # <<>>
        BY <3>3 DEF Pending
      <4>2. QED
        BY <1>8, <1>9, <3>1, <3>3, <4>1 DEF Pushed
    <3>4. QED
      BY <3>2, <3>3
  <2>2. Pending' /\ Len(bits') = k
    BY <1>2, <2>1 DEF Pending
  <2>3. /\ Len(File') = q + Len(buffer)
        /\ \A p \in 1 .. Len(out) : File'[p] = out[p]
        /\ File'[q].kind = "desc"
        /\ \A j \in 1 .. k : File'[q].bits[j] = r[j]
        /\ \A j \in k + 1 .. NumDescBits : File'[q].bits[j] = 0
        /\ \A p \in q + 1 .. Len(File') : File'[p] = Data(buffer[p - q])
    BY <1>1, <1>4, <2>1, <2>2 DEF Shape
  <2>4. ASSUME NEW p \in 1 .. Len(File), p # q PROVE File'[p] = File[p]
    <3>1. CASE p \in 1 .. Len(out)
      BY <1>5, <2>3, <3>1
    <3>2. CASE p \in q + 1 .. Len(File)
      BY <1>5, <2>3, <3>2
    <3>3. QED
      BY <1>1, <2>4, <1>5, <3>1, <3>2
  <2>5. ASSUME NEW j \in 1 .. NumDescBits, j # k PROVE File'[q].bits[j] = File[q].bits[j]
    <3>1. CASE j \in 1 .. Len(bits)
      <4>1. j \in 1 .. k
        BY <1>1, <3>1
      <4>2. File'[q].bits[j] = r[j] /\ r[j] = bits[j] /\ File[q].bits[j] = bits[j]
        BY <1>2, <1>5, <2>3, <3>1, <4>1
      <4>3. QED
        BY <4>2
    <3>2. CASE j \in k + 1 .. NumDescBits
      BY <1>1, <1>5, <2>3, <3>2
    <3>3. QED
      BY <1>1, <2>5, <3>1, <3>2
  <2>6. File'[q].bits[k] = b
    BY <1>1, <1>2, <2>3
  <2>7. QED
    BY <1>5, <1>10, <2>1, <2>3, <2>4, <2>5, <2>6 DEF r
<1>11. CASE k = NumDescBits
  <2>1. Full(r) /\ bits' = <<>> /\ bits # <<>> /\ Len(bits') = 0
    BY <1>1, <1>6, <1>8, <1>11
  <2>2. r \in Fields /\ Desc(r) \in Unit /\ Desc(r).kind = "desc" /\ Desc(r).bits = r
    BY <1>2, <1>11, FieldIsSeq, UnitsAndItems
  <2>3. /\ g \in Seq(Unit) /\ Len(g) = q /\ g[q] = Desc(r)
        /\ \A p \in 1 .. Len(out) : g[p] = out[p]
    BY <1>1, <2>2
  <2>4. \A j \in 1 .. NumDescBits : j # k => r[j] = File[q].bits[j]
    BY <1>1, <1>2, <1>5, <1>11
  <2> HIDE DEF g
  <2>5. CASE needEarlyDescriptor
    <3>1. out' = g \o w /\ buffer' = <<>> /\ Len(buffer') = 0 /\ Pending'
      BY <1>1, <1>8, <2>1, <2>5 DEF Pushed, g, Pending
    <3>2. /\ Len(out') = q + Len(buffer)
          /\ \A p \in 1 .. q : out'[p] = g[p]
          /\ \A p \in q + 1 .. q + Len(buffer) : out'[p] = w[p - q]
      <4>1. /\ Len(g \o w) = Len(g) + Len(w)
            /\ \A p \in 1 .. Len(g) : (g \o w)[p] = g[p]
            /\ \A p \in Len(g) + 1 .. Len(g) + Len(w) : (g \o w)[p] = w[p - Len(g)]
        <5>1. g \in Seq(Unit) /\ w \in Seq(Unit)
          BY <1>7, <2>3
        <5>2. QED
          BY ONLY <5>1, Concatenated
      <4>2. QED
        BY <1>7, <2>3, <3>1, <4>1
    <3>3. Len(out') = Len(File)
      BY <1>5, <3>2
    <3>4. /\ Len(File') = Len(File) + 1
          /\ \A p \in 1 .. Len(File) : File'[p] = out'[p]
          /\ File'[Len(File) + 1].kind = "desc"
      BY <1>4, <1>5, <3>1, <3>3 DEF Shape
    <3>5. \A p \in q + 1 .. Len(File) : w[p - q] = Data(buffer[p - q])
      BY <1>1, <1>5, <1>7
    <3>6. ASSUME NEW p \in 1 .. Len(File), p # q PROVE File'[p] = File[p]
      <4>1. CASE p \in 1 .. Len(out)
        BY <1>1, <1>5, <2>3, <3>2, <3>4, <4>1
      <4>2. CASE p \in q + 1 .. Len(File)
        BY <1>1, <1>5, <3>2, <3>4, <3>5, <4>2
      <4>3. QED
        BY <1>1, <3>6, <1>5, <4>1, <4>2
    <3>7. File'[q] = Desc(r)
      BY <1>1, <1>5, <2>3, <3>2, <3>4
    <3>8. QED
      BY <1>1, <1>2, <1>5, <1>11, <2>1, <2>2, <2>4, <2>5, <3>1, <3>3, <3>4, <3>6, <3>7
  <2>6. CASE ~needEarlyDescriptor
    <3>1. out' = g /\ buffer' = buffer /\ ~Pending'
      BY <1>1, <1>8, <1>9, <2>1, <2>6 DEF Pushed, g, Pending
    <3>2. /\ Len(File') = q + Len(buffer)
          /\ \A p \in 1 .. q : File'[p] = g[p]
          /\ \A p \in q + 1 .. Len(File') : File'[p] = Data(buffer[p - q])
      <4>1. Len(out') = q /\ Len(buffer') = Len(buffer)
        BY <2>3, <3>1
      <4>2. /\ Len(File') = Len(out') + Len(buffer')
            /\ \A p \in 1 .. Len(out') : File'[p] = out'[p]
            /\ \A p \in Len(out') + 1 .. Len(File') : File'[p] = Data(buffer'[p - Len(out')])
        BY <1>1, <1>4, <1>7, <3>1, <4>1 DEF Shape
      <4>3. QED
        BY <3>1, <4>1, <4>2
    <3>3. ASSUME NEW p \in 1 .. Len(File), p # q PROVE File'[p] = File[p]
      <4>1. CASE p \in 1 .. Len(out)
        BY <1>1, <1>5, <2>3, <3>2, <4>1
      <4>2. CASE p \in q + 1 .. Len(File)
        BY <1>5, <3>2, <4>2
      <4>3. QED
        BY <1>1, <3>3, <1>5, <4>1, <4>2
    <3>4. File'[q] = Desc(r)
      BY <1>1, <2>3, <3>2
    <3>5. QED
      BY <1>1, <1>2, <1>5, <1>11, <2>1, <2>2, <2>3, <2>4, <2>6, <3>1, <3>2, <3>3, <3>4
  <2>7. QED
    BY <2>5, <2>6
<1>12. QED
  BY <1>1, <1>10, <1>11

-----------------------------------------------------------------------------
(* A place before which the rule for fetching fields leaves it.            *)
Standable(l) == IF needEarlyDescriptor THEN l.left > 0 ELSE l.left < NumDescBits

(* Where the next item leads: a byte is one unit further; a bit is one     *)
(* less in the word, unless the word was or is now used up.                *)
LEMMA NextPlace ==
  ASSUME needEarlyDescriptor \in BOOLEAN, NEW l \in Place, Standable(l)
  PROVE  /\ Skip(l) = [pos |-> l.pos + 1, left |-> l.left, field |-> l.field]
         /\ Before(l) \in Place /\ Before(l).left \in 1 .. NumDescBits
         /\ ~needEarlyDescriptor /\ l.left = 0 =>
              /\ Before(l) = [pos |-> l.pos + 1, left |-> NumDescBits, field |-> l.pos + 1]
              /\ Then(l, "bit") = [pos |-> l.pos + 1, left |-> NumDescBits - 1, field |-> l.pos + 1]
         /\ l.left > 0 => Before(l) = l
         /\ l.left > 0 /\ ~(needEarlyDescriptor /\ l.left = 1) =>
              Then(l, "bit") = [pos |-> l.pos, left |-> l.left - 1, field |-> l.field]
         /\ needEarlyDescriptor /\ l.left = 1 =>
              Then(l, "bit") = [pos |-> l.pos + 1, left |-> NumDescBits, field |-> l.pos + 1]
         /\ Skip(l) \in Place /\ Standable(Skip(l))
         /\ Then(l, "bit") \in Place /\ Standable(Then(l, "bit"))
<1>1. NumDescBits \in Nat \ {0, 1}
  BY StreamAssumption
<1>2. /\ l.pos \in Nat /\ l.left \in 0 .. NumDescBits /\ l.field \in Nat
      /\ l = [pos |-> l.pos, left |-> l.left, field |-> l.field]
  BY DEF Place
<1>3. PICK p \in Nat, f \in Nat, k \in 0 .. NumDescBits : l = [pos |-> p, left |-> k, field |-> f]
  BY <1>2
<1>4. Skip(l) = [pos |-> p + 1, left |-> k, field |-> f]
  BY <1>3 DEF Skip
<1>5. Take(l) = [pos |-> p, left |-> k - 1, field |-> f]
  BY <1>3 DEF Take
<1>6. Fetch(l) = [pos |-> p + 1, left |-> NumDescBits, field |-> p + 1]
  BY <1>3 DEF Fetch
<1>7. CASE ~needEarlyDescriptor /\ k = 0
  <2>1. Before(l) = [pos |-> p + 1, left |-> NumDescBits, field |-> p + 1]
    BY <1>3, <1>6, <1>7 DEF Before, UsedUp
  <2>2. Take(Before(l)) = [pos |-> p + 1, left |-> NumDescBits - 1, field |-> p + 1]
    BY <2>1 DEF Take
  <2>3. Then(l, "bit") = [pos |-> p + 1, left |-> NumDescBits - 1, field |-> p + 1]
    BY <1>7, <2>2 DEF Then, After
  <2>4. QED
    BY <1>1, <1>3, <1>4, <1>7, <2>1, <2>3 DEF Place, Standable
<1>8. CASE needEarlyDescriptor /\ k = 1
  <2>1. Before(l) = l
    BY <1>8 DEF Before
  <2>2. After(Take(l)) = Fetch(Take(l)) /\ Fetch(Take(l)) = [pos |-> p + 1, left |-> NumDescBits, field |-> p + 1]
    BY <1>5, <1>8 DEF After, Fetch, UsedUp
  <2>3. Then(l, "bit") = [pos |-> p + 1, left |-> NumDescBits, field |-> p + 1]
    BY <2>1, <2>2 DEF Then
  <2>4. QED
    BY <1>1, <1>3, <1>4, <1>8, <2>1, <2>3 DEF Place, Standable
<1>9. CASE k > 0 /\ ~(needEarlyDescriptor /\ k = 1)
  <2>1. Before(l) = l
    BY <1>3, <1>9 DEF Before, UsedUp
  <2>2. After(Take(l)) = Take(l)
    BY <1>5, <1>9 DEF After, UsedUp
  <2>3. Then(l, "bit") = [pos |-> p, left |-> k - 1, field |-> f]
    BY <1>5, <2>1, <2>2 DEF Then
  <2>4. k - 1 \in 0 .. NumDescBits /\ (needEarlyDescriptor => k - 1 > 0)
        /\ k - 1 < NumDescBits /\ (~needEarlyDescriptor => k < NumDescBits)
    BY <1>1, <1>3, <1>9 DEF Standable
  <2>5. QED
    BY <1>1, <1>3, <1>4, <1>9, <2>1, <2>3, <2>4 DEF Place, Standable
<1>10. QED
  <2>1. needEarlyDescriptor => k > 0
    BY <1>3 DEF Standable
  <2>2. QED
    BY <1>1, <1>3, <1>7, <1>8, <1>9, <2>1

(* The rule stays the same.                                                *)
LEMMA RuleStays ==
  ASSUME needEarlyDescriptor \in BOOLEAN, needEarlyDescriptor' = needEarlyDescriptor, NEW l
  PROVE  Before(l)' = Before(l) /\ After(l)' = After(l)
<1>1. needEarlyDescriptor' <=> needEarlyDescriptor
  OBVIOUS
<1>2. Fetch(l)' = Fetch(l) /\ UsedUp(l)' = UsedUp(l)
  BY DEF Fetch, UsedUp
<1>3. QED
  BY <1>1 DEF Before, After, Fetch, UsedUp

(* The step of the reader over an item depends on the kind of the item.    *)
LEMMA ThenStays ==
  ASSUME needEarlyDescriptor \in BOOLEAN, needEarlyDescriptor' = needEarlyDescriptor,
         NEW l, NEW k, NEW i, sent[i]'.kind = k
  PROVE  Then(l, sent[i].kind)' = Then(l, k)
<1>1. CASE k = "bit"
  <2>1. PICK a : a = Before(l)
    OBVIOUS
  <2>2. PICK t : t = Take(a)
    OBVIOUS
  <2>3. Before(l)' = a /\ Take(a)' = t
    BY <2>1, <2>2, RuleStays DEF Take
  <2>4. After(t)' = After(t)
    BY RuleStays
  <2>5. Then(l, sent[i].kind)' = After(Take(Before(l)))'
    BY <1>1 DEF Then
  <2>6. After(Take(Before(l)))' = After(t)'
    BY <2>3 DEF After, Take, UsedUp, Fetch
  <2>7. Then(l, k) = After(t)
    BY <1>1, <2>1, <2>2 DEF Then
  <2>8. QED
    BY <2>4, <2>5, <2>6, <2>7
<1>2. CASE k # "bit"
  BY <1>2 DEF Then, Skip
<1>3. QED
  BY <1>1, <1>2

(* The places after one more item.                                         *)
LEMMA PlacesExtend ==
  ASSUME ITypeOK, NEW at, Places(at), NEW x \in Item, sent = <<>> => x.kind = "bit",
         sent' = Append(sent, x), needEarlyDescriptor' = needEarlyDescriptor,
         NEW then, then = [i \in 0 .. Len(sent) + 1 |->
                             IF i = Len(sent) + 1 THEN Then(at[Len(sent)], x.kind) ELSE at[i]]
  PROVE  /\ Places(then)'
         /\ then[Len(sent) + 1] = Then(at[Len(sent)], x.kind)
         /\ then[Len(sent) + 1] \in Place
         /\ \A i \in 0 .. Len(sent) : then[i] = at[i]
<1> DEFINE n == Len(sent)
<1>1. /\ sent \in Seq(Item) /\ n \in Nat /\ Len(sent') = n + 1 /\ sent'[n + 1] = x
      /\ \A i \in 1 .. n : sent'[i] = sent[i]
      /\ needEarlyDescriptor \in BOOLEAN
  BY DEF ITypeOK, TypeOK, Item
<1>2. at[n] \in Place /\ Standable(at[n])
  BY <1>1 DEF Places, Standable
<1>3. x.kind \in {"bit", "byte"}
  BY ItemIs
<1>4. Then(at[n], x.kind) \in Place /\ Standable(Then(at[n], x.kind))
  <2>1. CASE x.kind = "bit"
    BY <1>1, <1>2, <2>1, NextPlace
  <2>2. CASE x.kind = "byte"
    <3>1. Then(at[n], x.kind) = Skip(at[n])
      BY <2>2 DEF Then
    <3>2. QED
      BY <1>1, <1>2, <3>1, NextPlace
  <2>3. QED
    BY <1>3, <2>1, <2>2
<1>5. then[n + 1] = Then(at[n], x.kind) /\ \A i \in 0 .. n : then[i] = at[i]
  BY <1>1
<1>7. then \in [0 .. n + 1 -> Place]
  <2>1. at \in [0 .. n -> Place]
    BY DEF Places
  <2>2. \A i \in 0 .. n + 1 : (IF i = n + 1 THEN Then(at[n], x.kind) ELSE at[i]) \in Place
    BY <1>1, <1>4, <2>1
  <2>3. QED
    BY <2>2
<1>8. ASSUME NEW i \in 1 .. n + 1 PROVE then[i] = Then(then[i - 1], sent[i].kind)'
  <2>1. CASE i = n + 1
    <3>1. i - 1 = n /\ n \in 0 .. n /\ sent'[i] = x
      BY <1>1, <2>1
    <3>2. then[i] = Then(at[n], x.kind) /\ then[i - 1] = at[n]
      BY <1>5, <2>1, <3>1
    <3>3. PICK k : k = x.kind
      OBVIOUS
    <3>4. PICK a : a = then[i - 1]
      OBVIOUS
    <3>5. sent'[i].kind = k /\ then[i] = Then(a, k)
      BY <3>1, <3>2, <3>3, <3>4
    <3>6. needEarlyDescriptor \in BOOLEAN /\ needEarlyDescriptor' = needEarlyDescriptor
      BY <1>1
    <3>7. Then(a, sent[i].kind)' = Then(a, k)
      BY ONLY <3>5, <3>6, ThenStays
    <3>8. QED
      BY <3>4, <3>5, <3>7
  <2>2. CASE i # n + 1
    <3>1. i \in 1 .. n /\ i \in 0 .. n /\ i - 1 \in 0 .. n
      BY <1>1, <2>2
    <3>2. at[i] = Then(at[i - 1], sent[i].kind)
      BY <3>1 DEF Places
    <3>3. then[i] = Then(then[i - 1], sent[i].kind) /\ sent'[i] = sent[i]
      BY <1>1, <1>5, <3>1, <3>2
    <3>4. PICK k : k = sent[i].kind
      OBVIOUS
    <3>5. sent'[i].kind = k /\ then[i] = Then(then[i - 1], k)
      BY <3>3, <3>4
    <3>6. needEarlyDescriptor \in BOOLEAN /\ needEarlyDescriptor' = needEarlyDescriptor
      BY <1>1
    <3>7. PICK a : a = then[i - 1]
      OBVIOUS
    <3>8. Then(a, sent[i].kind)' = Then(a, k)
      BY ONLY <3>5, <3>6, ThenStays
    <3>9. QED
      BY <3>5, <3>7, <3>8
  <2>3. QED
    BY <2>1, <2>2
<1>9. ASSUME NEW i \in 0 .. n + 1 PROVE Standable(then[i])
  <2>1. CASE i = n + 1
    BY <1>4, <1>5, <2>1
  <2>2. CASE i # n + 1
    <3>1. i \in 0 .. n
      BY <1>1, <2>2
    <3>2. QED
      BY <1>5, <3>1 DEF Places, Standable
  <2>3. QED
    BY <2>1, <2>2
<1>10. then[0] = Start /\ Start' = Start
  BY <1>1, <1>5 DEF Places, Start
<1>11. sent'[1].kind = "bit"
  <2>1. CASE sent = <<>>
    BY <1>1, <2>1
  <2>2. CASE sent # <<>>
    <3>1. 1 \in 1 .. n
      BY <1>1, <2>2, EmptySeq
    <3>2. QED
      BY <1>1, <2>2, <3>1 DEF Places
  <2>3. QED
    BY <2>1, <2>2
<1>12. Places(then)'
  <2>1. then \in [0 .. Len(sent') -> Place] /\ then[0] = Start'
    BY <1>1, <1>7, <1>10
  <2>2. \A i \in 1 .. Len(sent') : then[i] = Then(then[i - 1], sent[i].kind)'
    BY <1>1, <1>8
  <2>3. \A i \in 0 .. Len(sent') :
          IF needEarlyDescriptor' THEN then[i].left > 0 ELSE then[i].left < NumDescBits
    BY <1>1, <1>9 DEF Standable
  <2>4. QED
    BY <1>11, <2>1, <2>2, <2>3 DEF Places
<1>13. QED
  BY <1>4, <1>5, <1>12

(* Order is kept if the new place is no further back in the field of the   *)
(* last one, or in a field of its own.                                     *)
LEMMA OrderExtends ==
  ASSUME ITypeOK, NEW at, Places(at), Ordered(at), NEW x \in Item, NEW then,
         sent' = Append(sent, x), needEarlyDescriptor' = needEarlyDescriptor,
         then[Len(sent) + 1] \in Place, \A i \in 0 .. Len(sent) : then[i] = at[i],
         NEW last, last = at[Len(sent)], NEW nx, nx = then[Len(sent) + 1],
         nx.pos >= last.pos, nx.field <= nx.pos,
         (nx.field = last.field /\ nx.left <= last.left) \/ nx.field > last.pos,
         x.kind = "bit" => /\ Before(last).field <= nx.field
                           /\ Before(last).field = nx.field => Before(last).left > nx.left
  PROVE  Ordered(then)'
<1> DEFINE n == Len(sent)
<1>1. /\ sent \in Seq(Item) /\ n \in Nat /\ Len(sent') = n + 1 /\ sent'[n + 1] = x
      /\ \A i \in 1 .. n : sent'[i] = sent[i]
      /\ needEarlyDescriptor \in BOOLEAN
  BY DEF ITypeOK, TypeOK, Item
<1>2. ASSUME NEW i \in 0 .. n PROVE at[i] \in Place /\ Standable(at[i])
  BY DEF Places, Standable
<1>3. last \in Place /\ nx \in Place
  BY <1>1, <1>2
<1>4. ASSUME NEW i \in 0 .. n + 1 PROVE then[i].pos <= nx.pos
  <2>1. CASE i = n + 1
    BY <1>3, <2>1 DEF Place
  <2>2. CASE i \in 0 .. n
    <3>1. at[i].pos <= last.pos /\ then[i] = at[i] /\ at[i].pos \in Nat
      BY <1>2, <2>2 DEF Ordered, Place
    <3>2. QED
      BY <1>3, <3>1 DEF Place
  <2>3. QED
    BY <1>1, <2>1, <2>2
<1>5. ASSUME NEW i \in 1 .. n + 1, sent'[i].kind = "bit"
      PROVE  /\ Before(then[i - 1]).field <= nx.field
             /\ Before(then[i - 1]).field = nx.field => Before(then[i - 1]).left > nx.left
  <2>1. CASE i = n + 1
    <3>1. then[i - 1] = last /\ x.kind = "bit"
      BY <1>1, <1>5, <2>1
    <3>2. QED
      BY <3>1
  <2>2. CASE i \in 1 .. n
    <3>1. i - 1 \in 0 .. n /\ then[i - 1] = at[i - 1] /\ sent[i].kind = "bit"
      BY <1>1, <1>5, <2>2
    <3>2. PICK b : b = Before(at[i - 1])
      OBVIOUS
    <3>3. b.field <= last.field /\ (b.field = last.field => b.left > last.left)
      BY <2>2, <3>1, <3>2 DEF Ordered
    <3>4. b \in Place
      BY <1>1, <1>2, <3>1, <3>2, NextPlace
    <3>5. last.field <= last.pos
      BY DEF Ordered
    <3>6. b.field <= nx.field /\ (b.field = nx.field => b.left > nx.left)
      <4>1. PICK f \in Nat, u \in Nat : f = b.field /\ u = b.left
        BY <3>4 DEF Place
      <4>2. PICK g \in Nat, v \in Nat, h \in Nat : g = last.field /\ v = last.left /\ h = last.pos
        BY <1>3 DEF Place
      <4>3. PICK l \in Nat, w \in Nat : l = nx.field /\ w = nx.left
        BY <1>3 DEF Place
      <4>4. f <= g /\ (f = g => u > v) /\ g <= h /\ ((l = g /\ w <= v) \/ l > h)
        BY <3>3, <3>5, <4>1, <4>2, <4>3
      <4>5. f <= l /\ (f = l => u > w)
        BY <4>4
      <4>6. QED
        BY <4>1, <4>3, <4>5
    <3>7. QED
      BY <3>1, <3>2, <3>6
  <2>3. QED
    BY <1>1, <2>1, <2>2
<1>6. \A i \in 1 .. n + 1 : Before(then[i - 1])' = Before(then[i - 1])
  BY <1>1, RuleStays
<1>7. Ordered(then)'
  <2>1. then[Len(sent')] = nx
    BY <1>1
  <2>2. \A i \in 0 .. Len(sent') : then[i].pos <= then[Len(sent')].pos
    BY <1>1, <1>4, <2>1
  <2>3. \A i \in 1 .. Len(sent') : sent'[i].kind = "bit" =>
          /\ Before(then[i - 1])'.field <= then[Len(sent')].field
          /\ Before(then[i - 1])'.field = then[Len(sent')].field =>
               Before(then[i - 1])'.left > then[Len(sent')].left
    BY <1>1, <1>5, <1>6, <2>1
  <2>4. QED
    BY <2>1, <2>2, <2>3 DEF Ordered
<1>8. QED
  BY <1>7

(* What was in its place stays there, and the new item is in its own.      *)
LEMMA ContentsExtend ==
  ASSUME ITypeOK, NEW at, Places(at), Contents(at), NEW x \in Item, NEW then,
         sent' = Append(sent, x), needEarlyDescriptor' = needEarlyDescriptor,
         \A i \in 0 .. Len(sent) : then[i] = at[i],
         NEW last, last = at[Len(sent)], NEW nx, nx = then[Len(sent) + 1],
         Len(File') = nx.pos, HasField(File', nx.field),
         x.kind = "bit" => HasBit(File', Before(last), x.val),
         x.kind = "byte" => HasByte(File', nx, x.val),
         \A p : HasField(File, p) => HasField(File', p),
         \A i \in 1 .. Len(sent) : sent[i].kind = "bit" =>
           HasBit(File', Before(at[i - 1]), sent[i].val),
         \A i \in 1 .. Len(sent) : sent[i].kind = "byte" => HasByte(File', at[i], sent[i].val)
  PROVE  Contents(then)'
<1> DEFINE n == Len(sent)
<1>1. /\ sent \in Seq(Item) /\ n \in Nat /\ Len(sent') = n + 1 /\ sent'[n + 1] = x
      /\ \A i \in 1 .. n : sent'[i] = sent[i]
      /\ needEarlyDescriptor \in BOOLEAN
  BY DEF ITypeOK, TypeOK, Item
<1>2. ASSUME NEW i \in 1 .. n + 1
      PROVE  /\ HasField(File', then[i].field)
             /\ sent'[i].kind = "bit" => HasBit(File', Before(then[i - 1]), sent'[i].val)
             /\ sent'[i].kind = "byte" => HasByte(File', then[i], sent'[i].val)
  <2>1. CASE i = n + 1
    <3>1. then[i - 1] = last /\ sent'[i] = x /\ then[i] = nx
      BY <1>1, <2>1
    <3>2. QED
      BY <3>1
  <2>2. CASE i \in 1 .. n
    <3>1. i - 1 \in 0 .. n /\ then[i - 1] = at[i - 1] /\ then[i] = at[i] /\ sent'[i] = sent[i]
      BY <1>1, <2>2
    <3>2. HasField(File, at[i].field)
      BY <2>2 DEF Contents
    <3>3. QED
      BY <2>2, <3>1, <3>2
  <2>3. QED
    BY <1>1, <2>1, <2>2
<1>3. \A i \in 1 .. n + 1 : Before(then[i - 1])' = Before(then[i - 1])
  BY <1>1, RuleStays
<1>4. Len(File') = then[Len(sent')].pos
  BY <1>1
<1>5. \A i \in 1 .. Len(sent') :
        /\ HasField(File', then[i].field)
        /\ sent'[i].kind = "bit" => HasBit(File', Before(then[i - 1])', sent'[i].val)
        /\ sent'[i].kind = "byte" => HasByte(File', then[i], sent'[i].val)
  BY <1>1, <1>2, <1>3
<1>6. QED
  BY <1>4, <1>5 DEF Contents, HasBit, HasByte, HasField

-----------------------------------------------------------------------------
(* The writer's steps keep the file laid out.  What they have in common:   *)
(* nobody reads yet.                                                       *)
LEMMA NobodyReads ==
  ASSUME ITypeOK, NEW at, Reads(at), ~closed, ~closed', UNCHANGED <<pos, received>>
  PROVE  \A then : Reads(then)'
<1>1. pos = 0 /\ received = <<>>
  BY DEF Reads, ITypeOK, TypeOK
<1>2. pos' = 0 /\ received' = <<>> /\ Len(received') = 0
  BY <1>1
<1>3. QED
  BY <1>2 DEF Reads

(* The place after the last item is where the writer stands.               *)
LEMMA LastPlace ==
  ASSUME ITypeOK, NEW at, Places(at), Ordered(at), Held(at), Contents(at), ~closed
  PROVE  LET last == at[Len(sent)] IN
         /\ last \in Place /\ Standable(last) /\ last.field <= last.pos
         /\ Len(File) = last.pos
         /\ Pending <=> last.left > 0
         /\ Pending => Len(bits) = NumDescBits - last.left /\ Len(out) = last.field - 1
         /\ ~Pending => Len(bits) = 0 /\ Len(out) = last.field
         /\ Len(buffer) = last.pos - last.field
<1> DEFINE last == at[Len(sent)]
<1>1. /\ Len(sent) \in Nat /\ needEarlyDescriptor \in BOOLEAN /\ bits \in Seq({0, 1})
      /\ NumDescBits \in Nat \ {0, 1}
  BY StreamAssumption DEF ITypeOK, TypeOK
<1>2. last \in Place /\ Standable(last)
  BY <1>1 DEF Places, Standable
<1>3. last.left \in 0 .. NumDescBits /\ last.pos \in Nat /\ last.field \in Nat
  BY <1>2 DEF Place
<1>4. /\ Len(bits) = IF last.left = 0 THEN 0 ELSE NumDescBits - last.left
      /\ Len(out) = IF last.left = 0 THEN last.field ELSE last.field - 1
      /\ Len(buffer) = last.pos - last.field
  BY DEF Held, UsedUp
<1>5. bits = <<>> <=> Len(bits) = 0
  BY <1>1, EmptySeq
<1>6. Pending <=> last.left > 0
  BY <1>1, <1>2, <1>3, <1>4, <1>5 DEF Pending, Standable
<1>7. Len(File) = last.pos /\ last.field <= last.pos
  BY DEF Contents, Ordered
<1>8. QED
  BY <1>2, <1>3, <1>4, <1>6, <1>7

(* descbit lays its bit out behind what was there.                         *)
LEMMA DescbitKeepsLayout ==
  ASSUME ITypeOK, NEW at, LaidOut(at), NEW b \in {0, 1}, Descbit(b)
  PROVE  Inv'
<1> DEFINE n == Len(sent)
<1>1. PICK x \in Item : x = [kind |-> "bit", val |-> b]
  BY UnitsAndItems
<1>2. PICK then : then = [i \in 0 .. n + 1 |-> IF i = n + 1 THEN Then(at[n], x.kind) ELSE at[i]]
  OBVIOUS
<1>3. PICK last, nx : last = at[n] /\ nx = then[n + 1]
  OBVIOUS
<1>4. /\ sent' = Append(sent, x) /\ needEarlyDescriptor' = needEarlyDescriptor
      /\ ~closed /\ ~closed' /\ UNCHANGED <<pos, received>>
      /\ x.kind = "bit" /\ x.val = b
  BY <1>1 DEF Descbit, Sends
<1>5. /\ Places(at) /\ Ordered(at) /\ Held(at) /\ Contents(at) /\ Reads(at)
      /\ NumDescBits \in Nat \ {0, 1} /\ needEarlyDescriptor \in BOOLEAN
      /\ sent \in Seq(Item) /\ n \in Nat /\ Len(sent') = n + 1
  BY <1>4, StreamAssumption DEF LaidOut, ITypeOK, TypeOK, Item
<1>6. /\ Places(then)' /\ nx = Then(last, "bit") /\ nx \in Place
      /\ \A i \in 0 .. n : then[i] = at[i]
  BY <1>2, <1>3, <1>4, <1>5, PlacesExtend
<1>7. /\ last \in Place /\ Standable(last) /\ last.field <= last.pos
      /\ Len(File) = last.pos
      /\ Pending <=> last.left > 0
      /\ Pending => Len(bits) = NumDescBits - last.left /\ Len(out) = last.field - 1
      /\ ~Pending => Len(bits) = 0 /\ Len(out) = last.field
      /\ Len(buffer) = last.pos - last.field
  BY <1>3, <1>4, <1>5, LastPlace
<1>8. last.pos \in Nat /\ last.left \in 0 .. NumDescBits /\ last.field \in Nat
  BY <1>7 DEF Place
<1>9. ASSUME NEW i \in 1 .. n, sent[i].kind = "bit"
      PROVE  /\ Before(at[i - 1]) \in Place /\ Before(at[i - 1]).left \in 1 .. NumDescBits
             /\ HasBit(File, Before(at[i - 1]), sent[i].val)
             /\ Before(at[i - 1]).field = last.field => Before(at[i - 1]).left > last.left
  <2>1. i - 1 \in 0 .. n
    BY <1>5
  <2>2. at[i - 1] \in Place /\ Standable(at[i - 1])
    BY <1>5, <2>1 DEF Places, Standable
  <2>3. QED
    BY <1>3, <1>5, <1>9, <2>2, NextPlace DEF Ordered, Contents
<1> DEFINE Old ==
  /\ \A p : HasField(File, p) => HasField(File', p)
  /\ \A i \in 1 .. n : sent[i].kind = "bit" => HasBit(File', Before(at[i - 1]), sent[i].val)
  /\ \A i \in 1 .. n : sent[i].kind = "byte" => HasByte(File', at[i], sent[i].val)
<1> DEFINE New ==
  /\ nx.pos >= last.pos /\ nx.field <= nx.pos
  /\ (nx.field = last.field /\ nx.left <= last.left) \/ nx.field > last.pos
  /\ Before(last).field <= nx.field
  /\ Before(last).field = nx.field => Before(last).left > nx.left
  /\ Len(File') = nx.pos /\ HasField(File', nx.field)
  /\ HasBit(File', Before(last), b)
  /\ Held(then)'
<1>10. Old /\ New => Inv'
  <2>1. SUFFICES ASSUME Old, New PROVE Inv'
    OBVIOUS
  <2>2. Ordered(then)'
    BY <1>3, <1>4, <1>5, <1>6, <2>1, OrderExtends
  <2>3. Contents(then)'
    BY <1>3, <1>4, <1>5, <1>6, <2>1, ContentsExtend
  <2>4. Reads(then)'
    BY <1>4, <1>5, NobodyReads
  <2>5. then \in [0 .. Len(sent') -> Place]
    BY <1>6 DEF Places
  <2>6. LaidOut(then)'
    BY <1>6, <2>1, <2>2, <2>3, <2>4 DEF LaidOut
  <2>7. QED
    BY <2>5, <2>6 DEF Inv
<1>11. CASE ~Pending
  <2>1. ~needEarlyDescriptor /\ last.left = 0
    BY <1>7, <1>8, <1>11 DEF Pending
  <2>2. /\ File \in Seq(Unit) /\ Len(File') = Len(File) + 1
        /\ \A p \in 1 .. Len(File) : File'[p] = File[p]
        /\ File'[Len(File) + 1].kind = "desc" /\ File'[Len(File) + 1].bits[1] = b
        /\ bits' = <<b>> /\ buffer' = <<>> /\ out' = File
    BY <1>11, DescbitBegins
  <2>3. /\ Before(last) = [pos |-> last.pos + 1, left |-> NumDescBits, field |-> last.pos + 1]
        /\ nx = [pos |-> last.pos + 1, left |-> NumDescBits - 1, field |-> last.pos + 1]
    BY <1>5, <1>6, <1>7, <2>1, NextPlace
  <2>4. Held(then)'
    <3>1. Len(bits') = 1 /\ Len(buffer') = 0 /\ Len(out') = last.pos
      BY <1>7, <2>2
    <3>2. then[Len(sent')] = nx
      BY <1>3, <1>5
    <3>3. /\ Len(bits') = IF nx.left = 0 THEN 0 ELSE NumDescBits - nx.left
          /\ Len(out') = IF nx.left = 0 THEN nx.field ELSE nx.field - 1
          /\ Len(buffer') = nx.pos - nx.field
      BY <1>5, <1>8, <2>3, <3>1
    <3>4. QED
      BY <3>2, <3>3 DEF Held, UsedUp
  <2>5. New
    <3>1. HasField(File', last.pos + 1)
      BY <1>7, <1>8, <2>2 DEF HasField
    <3>2. HasBit(File', Before(last), b)
      BY <1>5, <1>7, <2>2, <2>3, <3>1 DEF HasBit
    <3>3. PICK f \in Nat, q \in Nat, m \in Nat \ {0} : f = last.field /\ q = last.pos /\ m = NumDescBits
      BY <1>5, <1>8
    <3>4. nx.pos = q + 1 /\ nx.left = m - 1 /\ nx.field = q + 1
      BY <2>3, <3>3
    <3>5. Before(last).field = q + 1 /\ Before(last).left = m
      BY <2>3, <3>3
    <3>6. q + 1 >= q /\ q + 1 > q /\ m > m - 1
      OBVIOUS
    <3>7. Len(File') = q + 1
      BY <1>7, <2>2, <3>3
    <3>8. QED
      BY <2>4, <3>1, <3>2, <3>3, <3>4, <3>5, <3>6, <3>7
  <2>6. Old
    <3>1. ASSUME NEW p \in 1 .. Len(File) PROVE p \in 1 .. Len(File') /\ File'[p] = File[p]
      BY <1>7, <1>8, <2>2
    <3>2. QED
      BY <1>9, <3>1 DEF HasField, HasBit, HasByte, Contents, LaidOut
  <2>7. QED
    BY <1>10, <2>5, <2>6
<1>12. CASE Pending
  <2> DEFINE q == Len(out) + 1
             k == Len(bits) + 1
  <2>1. /\ File \in Seq(Unit)
        /\ q \in 1 .. Len(File) /\ File[q].kind = "desc" /\ File'[q].kind = "desc"
        /\ \A p \in 1 .. Len(File) : p # q => File'[p] = File[p]
        /\ \A j \in 1 .. NumDescBits : j # k => File'[q].bits[j] = File[q].bits[j]
        /\ File'[q].bits[k] = b
        /\ IF k < NumDescBits
             THEN /\ Len(File') = Len(File) /\ out' = out /\ buffer' = buffer
                  /\ bits' = Append(bits, b)
           ELSE IF needEarlyDescriptor
             THEN /\ Len(File') = Len(File) + 1 /\ File'[Len(File) + 1].kind = "desc"
                  /\ Len(out') = Len(File) /\ buffer' = <<>> /\ bits' = <<>>
           ELSE /\ Len(File') = Len(File) /\ Len(out') = q /\ buffer' = buffer /\ bits' = <<>>
    BY <1>12, DescbitContinues
  <2>2. /\ last.left > 0 /\ q = last.field /\ k = NumDescBits - last.left + 1
        /\ Before(last) = last
    <3>1. last.left > 0 /\ q = last.field /\ k = NumDescBits - last.left + 1
      <4>1. last.left > 0 /\ Len(bits) = NumDescBits - last.left /\ Len(out) = last.field - 1
        BY <1>7, <1>12
      <4>2. NumDescBits \in Nat /\ last.left \in Int /\ last.field \in Nat
        BY <1>5, <1>8
      <4>3. QED
        BY <4>1, <4>2
    <3>2. Before(last) = last
      BY <1>5, <1>7, <3>1, NextPlace
    <3>3. QED
      BY <3>1, <3>2
  <2> HIDE DEF q, k
  <2>3. Len(File') \in Nat /\ Len(File') >= Len(File)
    BY <1>7, <1>8, <2>1
  <2>4. Old
    <3>1. ASSUME NEW p, HasField(File, p) PROVE HasField(File', p)
      <4>1. p \in 1 .. Len(File')
        BY <1>7, <1>8, <2>3, <3>1 DEF HasField
      <4>2. QED
        BY <2>1, <3>1, <4>1 DEF HasField
    <3>2. ASSUME NEW i \in 1 .. n, sent[i].kind = "bit"
          PROVE  HasBit(File', Before(at[i - 1]), sent[i].val)
      <4>1. PICK l : l = Before(at[i - 1])
        OBVIOUS
      <4>2. /\ l \in Place /\ l.left \in 1 .. NumDescBits /\ HasBit(File, l, sent[i].val)
            /\ l.field = last.field => l.left > last.left
        BY <1>9, <3>2, <4>1
      <4>3. NumDescBits - l.left + 1 \in 1 .. NumDescBits
        BY <1>5, <4>2
      <4>4. l.field = q => NumDescBits - l.left + 1 # k
        BY <1>5, <1>8, <2>2, <4>2
      <4>5. l.field \in 1 .. Len(File) /\ HasField(File', l.field)
        BY <3>1, <4>2 DEF HasBit, HasField
      <4>6. File'[l.field].bits[NumDescBits - l.left + 1] = File[l.field].bits[NumDescBits - l.left + 1]
        BY <2>1, <4>3, <4>4, <4>5
      <4>7. QED
        BY <4>1, <4>2, <4>5, <4>6 DEF HasBit
    <3>3. ASSUME NEW i \in 1 .. n, sent[i].kind = "byte"
          PROVE  HasByte(File', at[i], sent[i].val)
      <4>1. at[i].pos \in 1 .. Len(File) /\ File[at[i].pos] = Data(sent[i].val)
        BY <1>5, <3>3 DEF Contents, HasByte
      <4>2. at[i].pos # q
        BY <2>1, <4>1 DEF Data
      <4>3. at[i].pos \in 1 .. Len(File')
        BY <1>7, <1>8, <2>3, <4>1
      <4>4. QED
        BY <2>1, <4>1, <4>2, <4>3 DEF HasByte
    <3>4. QED
      BY <3>1, <3>2, <3>3
  <2>5. HasField(File', q) /\ HasBit(File', last, b)
    <3>1. q \in 1 .. Len(File')
      BY <1>7, <1>8, <2>1, <2>3
    <3>2. QED
      BY <2>1, <2>2, <3>1 DEF HasField, HasBit
  <2>6. /\ Len(bits) \in Nat /\ Len(Append(bits, b)) = Len(bits) + 1
        /\ then[Len(sent')] = nx
    BY <1>3, <1>5 DEF ITypeOK, TypeOK
  <2>7. CASE last.left > 1
    <3>1. nx = [pos |-> last.pos, left |-> last.left - 1, field |-> last.field]
      <4>1. last.left > 0 /\ ~(needEarlyDescriptor /\ last.left = 1)
        BY <1>8, <2>7
      <4>2. QED
        BY <1>5, <1>6, <1>7, <4>1, NextPlace
    <3>2. k < NumDescBits
      BY <1>5, <1>8, <2>2, <2>7
    <3>3. Len(File') = Len(File) /\ out' = out /\ buffer' = buffer /\ bits' = Append(bits, b)
      BY <2>1, <3>2
    <3>4. Held(then)'
      <4>1. /\ Len(bits') = IF nx.left = 0 THEN 0 ELSE NumDescBits - nx.left
            /\ Len(out') = IF nx.left = 0 THEN nx.field ELSE nx.field - 1
            /\ Len(buffer') = nx.pos - nx.field
        <5>1. Len(bits') = NumDescBits - (last.left - 1) /\ last.left - 1 # 0
          BY <1>5, <1>7, <1>8, <1>12, <2>6, <2>7, <3>3
        <5>2. Len(out') = last.field - 1 /\ Len(buffer') = last.pos - last.field
          BY <1>7, <1>12, <3>3
        <5>3. QED
          BY <3>1, <5>1, <5>2
      <4>2. QED
        BY <2>6, <4>1 DEF Held, UsedUp
    <3>5. nx.pos = last.pos /\ nx.left = last.left - 1 /\ nx.field = last.field
      BY <3>1
    <3>6. /\ nx.pos >= last.pos /\ nx.field <= nx.pos /\ nx.left <= last.left
          /\ last.field <= nx.field /\ last.left > nx.left /\ Len(File') = nx.pos
      BY <1>7, <1>8, <2>5, <2>7, <3>3, <3>5
    <3>7. New
      BY <2>2, <2>5, <3>4, <3>5, <3>6
    <3>8. QED
      BY <1>10, <2>4, <3>7
  <2>8. CASE last.left = 1 /\ needEarlyDescriptor
    <3>1. nx = [pos |-> last.pos + 1, left |-> NumDescBits, field |-> last.pos + 1]
      BY <1>5, <1>6, <1>7, <2>8, NextPlace
    <3>2. /\ Len(File') = Len(File) + 1 /\ File'[Len(File) + 1].kind = "desc"
          /\ Len(out') = Len(File) /\ buffer' = <<>> /\ bits' = <<>>
      BY <1>5, <1>8, <2>1, <2>2, <2>8
    <3>3. Held(then)'
      <4>1. /\ Len(bits') = IF nx.left = 0 THEN 0 ELSE NumDescBits - nx.left
            /\ Len(out') = IF nx.left = 0 THEN nx.field ELSE nx.field - 1
            /\ Len(buffer') = nx.pos - nx.field
        <5>1. Len(bits') = 0 /\ Len(buffer') = 0 /\ Len(out') = last.pos
          BY <1>7, <3>2
        <5>2. nx.left = NumDescBits /\ nx.field = last.pos + 1 /\ nx.pos = last.pos + 1
          BY <3>1
        <5>3. QED
          BY <1>5, <1>8, <5>1, <5>2
      <4>2. QED
        BY <2>6, <4>1 DEF Held, UsedUp
    <3>4. HasField(File', nx.field)
      BY <1>7, <1>8, <3>1, <3>2 DEF HasField
    <3>5. New
      BY <1>5, <1>7, <1>8, <2>2, <2>5, <2>8, <3>1, <3>2, <3>3, <3>4
    <3>6. QED
      BY <1>10, <2>4, <3>5
  <2>9. CASE last.left = 1 /\ ~needEarlyDescriptor
    <3>1. nx = [pos |-> last.pos, left |-> last.left - 1, field |-> last.field]
      <4>1. last.left > 0 /\ ~(needEarlyDescriptor /\ last.left = 1)
        BY <2>9
      <4>2. QED
        BY <1>5, <1>6, <1>7, <4>1, NextPlace
    <3>2. Len(File') = Len(File) /\ Len(out') = q /\ buffer' = buffer /\ bits' = <<>>
      BY <1>5, <1>8, <2>1, <2>2, <2>9
    <3>3. Held(then)'
      <4>1. /\ Len(bits') = IF nx.left = 0 THEN 0 ELSE NumDescBits - nx.left
            /\ Len(out') = IF nx.left = 0 THEN nx.field ELSE nx.field - 1
            /\ Len(buffer') = nx.pos - nx.field
        BY <1>5, <1>7, <1>8, <2>2, <2>9, <3>1, <3>2
      <4>2. QED
        BY <2>6, <4>1 DEF Held, UsedUp
    <3>4. New
      BY <1>7, <1>8, <2>2, <2>5, <2>9, <3>1, <3>2, <3>3
    <3>5. QED
      BY <1>10, <2>4, <3>4
  <2>10. QED
    BY <1>8, <2>2, <2>7, <2>8, <2>9
<1>13. QED
  BY <1>11, <1>12

(* So does putbyte with its byte.                                          *)
LEMMA PutbyteKeepsLayout ==
  ASSUME ITypeOK, NEW at, LaidOut(at), NEW c \in Bytes, Putbyte(c)
  PROVE  Inv'
<1> DEFINE n == Len(sent)
<1>1. PICK x \in Item : x = [kind |-> "byte", val |-> c]
  BY UnitsAndItems
<1>2. PICK then : then = [i \in 0 .. n + 1 |-> IF i = n + 1 THEN Then(at[n], x.kind) ELSE at[i]]
  OBVIOUS
<1>3. PICK last, nx : last = at[n] /\ nx = then[n + 1]
  OBVIOUS
<1>4. /\ sent' = Append(sent, x) /\ needEarlyDescriptor' = needEarlyDescriptor
      /\ ~closed /\ ~closed' /\ UNCHANGED <<pos, received, out, bits>>
      /\ x.kind = "byte" /\ x.val = c /\ sent # <<>> /\ buffer' = Append(buffer, c)
  BY <1>1 DEF Putbyte, Sends
<1>5. /\ Places(at) /\ Ordered(at) /\ Held(at) /\ Contents(at) /\ Reads(at)
      /\ NumDescBits \in Nat \ {0, 1} /\ needEarlyDescriptor \in BOOLEAN
      /\ sent \in Seq(Item) /\ n \in Nat /\ Len(sent') = n + 1 /\ n \in 1 .. n
      /\ Len(buffer') = Len(buffer) + 1
  <2>1. sent \in Seq(Item) /\ buffer \in Seq(Bytes) /\ needEarlyDescriptor \in BOOLEAN
    BY DEF ITypeOK, TypeOK, Item
  <2>2. n \in Nat /\ n # 0
    BY <1>4, <2>1, EmptySeq
  <2>3. QED
    BY <1>4, <2>1, <2>2, StreamAssumption DEF LaidOut
<1>6. /\ Places(then)' /\ nx = Then(last, "byte") /\ nx \in Place
      /\ \A i \in 0 .. n : then[i] = at[i]
  <2>1. sent = <<>> => x.kind = "bit"
    BY <1>4
  <2>2. /\ Places(then)' /\ then[n + 1] = Then(at[n], x.kind) /\ then[n + 1] \in Place
        /\ \A i \in 0 .. n : then[i] = at[i]
    <3>1. ITypeOK /\ Places(at) /\ sent' = Append(sent, x) /\ needEarlyDescriptor' = needEarlyDescriptor
      BY <1>4, <1>5
    <3> HIDE DEF n
    <3>2. then = [i \in 0 .. Len(sent) + 1 |->
                    IF i = Len(sent) + 1 THEN Then(at[Len(sent)], x.kind) ELSE at[i]]
      BY <1>2 DEF n
    <3>3. QED
      BY ONLY <2>1, <3>1, <3>2, x \in Item, PlacesExtend DEF n
  <2>3. QED
    BY <1>3, <1>4, <2>2
<1>7. /\ last \in Place /\ Standable(last) /\ last.field <= last.pos
      /\ Len(File) = last.pos
      /\ Len(buffer) = last.pos - last.field
  BY <1>3, <1>4, <1>5, LastPlace
<1>8. last.pos \in Nat /\ last.left \in 0 .. NumDescBits /\ last.field \in Nat
  BY <1>7 DEF Place
<1>9. nx = [pos |-> last.pos + 1, left |-> last.left, field |-> last.field]
  <2>1. nx = Skip(last)
    BY <1>6 DEF Then
  <2>2. QED
    BY <1>5, <1>7, <2>1, NextPlace
<1>10. /\ Len(File') = Len(File) + 1
       /\ \A p \in 1 .. Len(File) : File'[p] = File[p]
       /\ File'[Len(File) + 1] = Data(c)
  BY PutbyteFile
<1>11. ASSUME NEW p \in 1 .. Len(File) PROVE p \in 1 .. Len(File') /\ File'[p] = File[p]
  BY <1>7, <1>8, <1>10
<1>12. /\ \A p : HasField(File, p) => HasField(File', p)
       /\ \A i \in 1 .. n : sent[i].kind = "bit" => HasBit(File', Before(at[i - 1]), sent[i].val)
       /\ \A i \in 1 .. n : sent[i].kind = "byte" => HasByte(File', at[i], sent[i].val)
  BY <1>5, <1>11 DEF HasField, HasBit, HasByte, Contents
<1>13. HasField(File', nx.field)
  BY <1>3, <1>5, <1>9, <1>12 DEF Contents
<1>14. HasByte(File', nx, c)
  BY <1>7, <1>8, <1>9, <1>10 DEF HasByte
<1>15. Held(then)'
  <2>1. /\ Len(bits) = IF last.left = 0 THEN 0 ELSE NumDescBits - last.left
        /\ Len(out) = IF last.left = 0 THEN last.field ELSE last.field - 1
    BY <1>3, <1>4, <1>5 DEF Held, UsedUp
  <2>2. /\ Len(bits') = IF nx.left = 0 THEN 0 ELSE NumDescBits - nx.left
        /\ Len(out') = IF nx.left = 0 THEN nx.field ELSE nx.field - 1
    BY <1>4, <1>9, <2>1
  <2>3. Len(buffer') = nx.pos - nx.field
    BY <1>5, <1>7, <1>8, <1>9
  <2>4. then[Len(sent')] = nx
    BY <1>3, <1>5
  <2>5. QED
    BY <2>2, <2>3, <2>4 DEF Held, UsedUp
<1>16. Ordered(then)'
  <2>1. nx.pos >= last.pos /\ nx.field <= nx.pos /\ nx.field = last.field /\ nx.left <= last.left
    BY <1>7, <1>8, <1>9
  <2>2. QED
    BY <1>3, <1>4, <1>5, <1>6, <2>1, OrderExtends
<1>17. Contents(then)'
  <2>1. Len(File') = nx.pos
    BY <1>7, <1>9, <1>10
  <2>2. QED
    BY <1>3, <1>4, <1>5, <1>6, <1>12, <1>13, <1>14, <2>1, ContentsExtend
<1>18. Reads(then)'
  BY <1>4, <1>5, NobodyReads
<1>19. then \in [0 .. Len(sent') -> Place]
  BY <1>6 DEF Places
<1>20. QED
  BY <1>6, <1>15, <1>16, <1>17, <1>18, <1>19 DEF LaidOut, Inv

(* What does not change as long as the writer's calls are the same and the *)
(* file is.                                                                *)
LEMMA LayoutStays ==
  ASSUME ITypeOK, NEW at, LaidOut(at), UNCHANGED <<needEarlyDescriptor, sent>>, File' = File
  PROVE  Places(at)' /\ Ordered(at)' /\ Contents(at)'
<1>1. needEarlyDescriptor \in BOOLEAN /\ needEarlyDescriptor' = needEarlyDescriptor /\ sent' = sent
  BY DEF ITypeOK, TypeOK
<1>2. \A l : Before(l)' = Before(l) /\ After(l)' = After(l)
  BY <1>1, RuleStays
<1>3. Places(at) /\ Ordered(at) /\ Contents(at)
  BY DEF LaidOut
<1>4. ASSUME NEW i \in 1 .. Len(sent) PROVE at[i] = Then(at[i - 1], sent[i].kind)'
  <2>1. PICK k, a : k = sent[i].kind /\ a = at[i - 1]
    OBVIOUS
  <2>2. sent'[i].kind = k
    BY <1>1, <2>1
  <2>3. Then(a, sent[i].kind)' = Then(a, k)
    BY ONLY <1>1, <2>2, ThenStays
  <2>4. at[i] = Then(a, k)
    BY <1>3, <2>1 DEF Places
  <2>5. QED
    BY <2>1, <2>3, <2>4
<1>5. Start' = Start
  BY <1>1 DEF Start
<1>6. Places(at)'
  <2>1. \A i \in 0 .. Len(sent) : IF needEarlyDescriptor' THEN at[i].left > 0 ELSE at[i].left < NumDescBits
    BY <1>1, <1>3 DEF Places
  <2>2. QED
    BY <1>1, <1>3, <1>4, <1>5, <2>1 DEF Places
<1>7. ASSUME NEW i \in 1 .. Len(sent) PROVE Before(at[i - 1])' = Before(at[i - 1])
  <2>1. PICK a : a = at[i - 1]
    OBVIOUS
  <2>2. Before(a)' = Before(a)
    BY <1>1, RuleStays
  <2>3. QED
    BY <2>1, <2>2
<1>8. Ordered(at)'
  BY <1>1, <1>3, <1>7 DEF Ordered
<1>9. Contents(at)'
  <2>1. \A i \in 1 .. Len(sent) :
          /\ HasField(File', at[i].field)
          /\ sent'[i].kind = "bit" => HasBit(File', Before(at[i - 1])', sent'[i].val)
          /\ sent'[i].kind = "byte" => HasByte(File', at[i], sent'[i].val)
    BY <1>1, <1>3, <1>7 DEF Contents
  <2>2. Len(File') = at[Len(sent')].pos
    BY <1>1, <1>3 DEF Contents
  <2>3. QED
    BY <1>1, <2>1, <2>2 DEF Contents, HasBit, HasByte, HasField
<1>10. QED
  BY <1>6, <1>8, <1>9

(* The destructor pads, and leaves every item where it is.                 *)
LEMMA DestroyKeepsLayout ==
  ASSUME ITypeOK, NEW at, LaidOut(at), Destroy
  PROVE  Inv'
<1>1. /\ ~closed /\ closed' /\ sent # <<>>
      /\ UNCHANGED <<needEarlyDescriptor, sent, pos, word, received>>
  BY DEF Destroy
<1>2. Places(at)' /\ Ordered(at)' /\ Contents(at)'
  BY <1>1, DestroyFile, LayoutStays
<1>3. Held(at)'
  BY <1>1 DEF Held
<1>4. pos = 0 /\ received = <<>>
  BY <1>1 DEF LaidOut, Reads, ITypeOK, TypeOK
<1>5. Reads(at)'
  BY <1>1, <1>4 DEF Reads
<1>6. at \in [0 .. Len(sent') -> Place]
  BY <1>2 DEF Places
<1>7. QED
  BY <1>2, <1>3, <1>5, <1>6 DEF LaidOut, Inv

(* Nothing is laid out at first.                                           *)
LEMMA InitIsLaidOut == Init => Inv
<1>1. SUFFICES ASSUME Init PROVE Inv
  OBVIOUS
<1>2. NumDescBits \in Nat \ {0, 1} /\ needEarlyDescriptor \in BOOLEAN /\ ITypeOK
  BY <1>1, StreamAssumption, InitHasTypes DEF Init
<1>3. /\ out = <<>> /\ bits = <<>> /\ buffer = <<>> /\ ~closed /\ pos = 0 /\ sent = <<>>
      /\ received = <<>> /\ Len(<<>>) = 0
  BY <1>1 DEF Init
<1>4. PICK at : at = [i \in {0} |-> Start]
  OBVIOUS
<1>5. Start \in Place /\ Standable(Start) /\ Start.field <= Start.pos
  BY <1>2 DEF Start, First, Nowhere, Place, Standable
<1>6. Len(sent) = 0 /\ at[0] = Start /\ at[Len(sent)] = Start /\ 0 .. Len(sent) = {0}
  BY <1>3, <1>4
<1>7. Places(at)
  BY <1>3, <1>4, <1>5, <1>6 DEF Places, Standable
<1>8. Ordered(at)
  BY <1>5, <1>6 DEF Ordered, Place
<1>9. Held(at)
  BY <1>2, <1>3, <1>6 DEF Held, Start, First, Nowhere, UsedUp
<1>10. Contents(at)
  <2>1. Shape
    BY <1>2, <1>3, ShapeOfFile
  <2>2. Len(File) = IF needEarlyDescriptor THEN 1 ELSE 0
    BY <1>2, <1>3, <2>1 DEF Shape, Pending
  <2>3. Len(File) = Start.pos
    BY <1>2, <2>2 DEF Start, First, Nowhere
  <2>4. QED
    BY <1>6, <2>3 DEF Contents
<1>11. Reads(at)
  BY <1>3 DEF Reads
<1>12. at \in [0 .. Len(sent) -> Place]
  BY <1>7 DEF Places
<1>13. QED
  BY <1>7, <1>8, <1>9, <1>10, <1>11, <1>12 DEF LaidOut, Inv

-----------------------------------------------------------------------------
(* The reader.  A field where it should be gives its bits, and a byte      *)
(* itself.                                                                 *)
LEMMA ReadsInPlace ==
  ASSUME ITypeOK
  PROVE  /\ \A p : HasField(out, p) => /\ FieldAt(p) = {out[p].bits}
                                      /\ out[p].bits \in Seq({0, 1})
                                      /\ Len(out[p].bits) = NumDescBits
         /\ \A l, c : HasByte(out, l, c) => ByteAt(l.pos) = {c}
<1>1. out \in Seq(Unit) /\ DOMAIN out = 1 .. Len(out)
  BY DEF ITypeOK, TypeOK, Unit
<1>2. ASSUME NEW p, HasField(out, p)
      PROVE  /\ FieldAt(p) = {out[p].bits}
             /\ out[p].bits \in Seq({0, 1}) /\ Len(out[p].bits) = NumDescBits
  <2>1. p \in DOMAIN out /\ out[p].kind = "desc" /\ out[p] \in Unit
    BY <1>1, <1>2 DEF HasField
  <2>2. out[p].bits \in Fields
    BY <2>1, UnitsAndItems
  <2>3. QED
    BY <2>1, <2>2, FieldIsSeq DEF FieldAt
<1>3. ASSUME NEW l, NEW c, HasByte(out, l, c) PROVE ByteAt(l.pos) = {c}
  <2>1. l.pos \in DOMAIN out /\ out[l.pos].kind = "data" /\ out[l.pos].val = c
    BY <1>1, <1>3 DEF HasByte, Data
  <2>2. QED
    BY <2>1 DEF ByteAt
<1>4. QED
  BY <1>2, <1>3

(* The reader's constructor takes the first descriptor field, early or     *)
(* late.                                                                   *)
LEMMA OpenKeepsLayout ==
  ASSUME ITypeOK, NEW at, LaidOut(at), Open
  PROVE  Inv'
<1>1. /\ closed /\ pos = 0 /\ pos' = 1
      /\ UNCHANGED <<needEarlyDescriptor, out, bits, buffer, closed, sent, received>>
  BY DEF Open
<1>2. /\ NumDescBits \in Nat \ {0, 1} /\ needEarlyDescriptor \in BOOLEAN
      /\ sent \in Seq(Item) /\ Len(sent) \in Nat
  BY StreamAssumption DEF ITypeOK, TypeOK, Item
<1>3. Places(at) /\ Contents(at) /\ Reads(at)
  BY DEF LaidOut
<1>4. received = <<>> /\ sent # <<>> /\ File = out
  BY <1>1, <1>3 DEF Reads, File
<1>5. 1 \in 1 .. Len(sent) /\ sent[1].kind = "bit"
  BY <1>2, <1>3, <1>4, EmptySeq DEF Places
<1>6. HasBit(out, Before(at[1 - 1]), sent[1].val)
  BY <1>3, <1>4, <1>5 DEF Contents
<1>7. Before(Start) = First
  BY <1>2 DEF Start, Before, First, Nowhere, Fetch, UsedUp
<1>8. HasField(out, 1)
  <2>1. at[1 - 1] = Start
    BY <1>3 DEF Places
  <2>2. QED
    BY <1>6, <1>7, <2>1 DEF HasBit, First
<1>9. word' = out[1].bits /\ Len(word') = NumDescBits
  BY <1>8, ReadsInPlace DEF Open
<1>10. Places(at)' /\ Ordered(at)' /\ Contents(at)'
  <2>1. File' = File
    BY <1>1, <1>4 DEF File
  <2>2. QED
    BY <1>1, <2>1, LayoutStays
<1>11. Reads(at)'
  <2>1. Standing(at)' = First
    BY <1>1, <1>4 DEF Standing
  <2>2. \A k \in 1 .. NumDescBits : word'[k] = out'[1].bits[NumDescBits - NumDescBits + k]
    BY <1>1, <1>2, <1>9
  <2>3. pos' = First.pos /\ Len(word') = First.left /\ First.field = 1 /\ First.left = NumDescBits
    BY <1>1, <1>9 DEF First
  <2>4. received' = <<>> /\ Len(received') = 0 /\ sent' # <<>>
    BY <1>1, <1>4
  <2>5. QED
    BY <1>1, <2>1, <2>2, <2>3, <2>4 DEF Reads
<1>12. Held(at)'
  BY <1>1 DEF Held
<1>13. at \in [0 .. Len(sent') -> Place]
  BY <1>10 DEF Places
<1>14. QED
  BY <1>10, <1>11, <1>12, <1>13 DEF LaidOut, Inv

(* What the reader finds where it stands, before it takes item i.          *)
LEMMA ReaderStands ==
  ASSUME ITypeOK, NEW at, LaidOut(at), Reading
  PROVE  LET i == Len(received) + 1
             here == Standing(at)
         IN
         /\ closed /\ File = out /\ i \in 1 .. Len(sent)
         /\ here \in Place /\ pos = here.pos /\ Len(word) = here.left
         /\ \A k \in 1 .. here.left : word[k] = out[here.field].bits[NumDescBits - here.left + k]
         /\ sent[i].kind = "bit" =>
              /\ Before(here).left \in 1 .. NumDescBits
              /\ HasBit(out, Before(here), sent[i].val)
              /\ at[i] = After(Take(Before(here)))
         /\ sent[i].kind = "byte" => at[i] = Skip(here) /\ HasByte(out, at[i], sent[i].val)
         /\ HasField(out, at[i].field)
<1> DEFINE i == Len(received) + 1
           here == Standing(at)
<1>1. /\ NumDescBits \in Nat \ {0, 1} /\ needEarlyDescriptor \in BOOLEAN /\ pos \in Nat
      /\ sent \in Seq(Item) /\ received \in Seq(Item) /\ Len(received) \in Nat
      /\ pos > 0 /\ Len(received) < Len(sent)
  BY StreamAssumption DEF ITypeOK, TypeOK, Item, Reading
<1>2. Places(at) /\ Contents(at) /\ Reads(at)
  BY DEF LaidOut
<1>3. closed /\ File = out /\ i \in 1 .. Len(sent) /\ i - 1 = Len(received)
  BY <1>1, <1>2 DEF Reads, File
<1>4. First \in Place /\ Before(First) = First /\ Before(Start) = First
  BY <1>1 DEF Start, Before, First, Nowhere, Fetch, UsedUp, Place
<1>5. here \in Place /\ Before(here) = Before(at[i - 1]) /\ Before(here).left \in 1 .. NumDescBits
      /\ (received # <<>> => here = at[i - 1])
  <2>1. CASE received = <<>>
    <3>1. here = First /\ at[i - 1] = Start
      BY <1>2, <1>3, <2>1 DEF Standing, Places
    <3>2. QED
      BY <1>1, <1>4, <2>1, <3>1 DEF First
  <2>2. CASE received # <<>>
    <3>1. here = at[i - 1] /\ i - 1 \in 0 .. Len(sent)
      BY <1>1, <1>3, <2>2 DEF Standing
    <3>2. at[i - 1] \in Place /\ Standable(at[i - 1])
      BY <1>2, <3>1 DEF Places, Standable
    <3>3. QED
      BY <1>1, <3>1, <3>2, NextPlace
  <2>3. QED
    BY <2>1, <2>2
<1>6. /\ pos = here.pos /\ Len(word) = here.left
      /\ \A k \in 1 .. here.left : word[k] = out[here.field].bits[NumDescBits - here.left + k]
  BY <1>1, <1>2 DEF Reads
<1>7. at[i] = Then(at[i - 1], sent[i].kind) /\ HasField(out, at[i].field)
  BY <1>2, <1>3 DEF Places, Contents
<1>8. ASSUME sent[i].kind = "bit"
      PROVE  HasBit(out, Before(here), sent[i].val) /\ at[i] = After(Take(Before(here)))
  BY <1>2, <1>3, <1>5, <1>7, <1>8 DEF Contents, Then
<1>9. ASSUME sent[i].kind = "byte"
      PROVE  at[i] = Skip(here) /\ HasByte(out, at[i], sent[i].val)
  <2>1. received # <<>>
    <3>1. SUFFICES ASSUME received = <<>> PROVE FALSE
      OBVIOUS
    <3>2. i = 1 /\ sent # <<>>
      BY <1>1, <1>3, <3>1
    <3>3. QED
      BY <1>2, <1>9, <3>2 DEF Places
  <2>2. QED
    BY <1>2, <1>3, <1>5, <1>7, <1>9, <2>1 DEF Contents, Then
<1>10. QED
  BY <1>3, <1>5, <1>6, <1>7, <1>8, <1>9

(* A reader that has taken item i, and stands where it should, keeps the   *)
(* layout.                                                                 *)
LEMMA ReaderMoves ==
  ASSUME ITypeOK, NEW at, LaidOut(at), Reading, NEW i, i = Len(received) + 1,
         UNCHANGED <<needEarlyDescriptor, out, bits, buffer, closed, sent>>,
         received' = Append(received, sent[i]),
         pos' = at[i].pos, pos' > 0, Len(word') = at[i].left,
         \A k \in 1 .. at[i].left : word'[k] = out[at[i].field].bits[NumDescBits - at[i].left + k]
  PROVE  Inv'
<1>1. /\ sent \in Seq(Item) /\ received \in Seq(Item) /\ Len(received) \in Nat
      /\ pos > 0 /\ Len(received) < Len(sent) /\ i \in 1 .. Len(sent) /\ i \in Nat
      /\ sent[i] \in Item
  BY DEF ITypeOK, TypeOK, Item, Reading
<1>2. closed /\ File = out
  BY <1>1, ReaderStands
<1>3. /\ Len(received') = i /\ received'[i] = sent[i] /\ received' # <<>>
      /\ \A j \in 1 .. Len(received) : received'[j] = received[j]
  BY <1>1
<1>4. Places(at)' /\ Ordered(at)' /\ Contents(at)'
  <2>1. File' = File
    BY <1>2 DEF File
  <2>2. QED
    BY <2>1, LayoutStays
<1>5. Standing(at)' = at[i]
  BY <1>3 DEF Standing
<1>6. ASSUME NEW j \in 1 .. i PROVE received'[j] = sent'[j]
  <2>1. CASE j = i
    BY <1>3, <2>1
  <2>2. CASE j # i
    <3>1. j \in 1 .. Len(received)
      BY <1>1, <2>2
    <3>2. QED
      BY <1>3, <3>1 DEF LaidOut, Reads
  <2>3. QED
    BY <2>1, <2>2
<1>7. sent' # <<>> /\ closed' /\ out' = out
  BY <1>2 DEF LaidOut, Reads
<1>8. Reads(at)'
  <2>1. /\ pos' = Standing(at)'.pos /\ Len(word') = Standing(at)'.left
        /\ \A k \in 1 .. Standing(at)'.left :
             word'[k] = out'[Standing(at)'.field].bits[NumDescBits - Standing(at)'.left + k]
    BY <1>5, <1>7
  <2>2. pos' # 0
    BY <1>1
  <2>3. \A j \in 1 .. Len(received') : received'[j] = sent'[j]
    BY <1>3, <1>6
  <2>4. QED
    BY <1>7, <2>1, <2>2, <2>3 DEF Reads
<1>9. Held(at)'
  BY <1>7 DEF Held
<1>10. at \in [0 .. Len(sent') -> Place]
  BY <1>4 DEF Places
<1>11. QED
  BY <1>4, <1>8, <1>9, <1>10 DEF LaidOut, Inv

(* descbit of the reader returns the bit that was sent.                    *)
LEMMA DescbitReadKeepsLayout ==
  ASSUME ITypeOK, NEW at, LaidOut(at), DescbitRead
  PROVE  Inv' /\ received' = Append(received, sent[Len(received) + 1])
<1>1. PICK i, here, b : i = Len(received) + 1 /\ here = Standing(at) /\ b = Before(here)
  OBVIOUS
<1>2. /\ NumDescBits \in Nat \ {0, 1} /\ needEarlyDescriptor \in BOOLEAN
      /\ word \in Seq({0, 1}) /\ pos \in Nat /\ sent \in Seq(Item)
  BY StreamAssumption DEF ITypeOK, TypeOK, Item
<1>3. Reading /\ sent[i].kind = "bit"
      /\ UNCHANGED <<needEarlyDescriptor, out, bits, buffer, closed, sent>>
  BY <1>1 DEF DescbitRead, NextKind
<1>4. /\ here \in Place /\ pos = here.pos /\ Len(word) = here.left
      /\ \A k \in 1 .. here.left : word[k] = out[here.field].bits[NumDescBits - here.left + k]
      /\ b.left \in 1 .. NumDescBits /\ HasBit(out, b, sent[i].val)
      /\ at[i] = After(Take(b)) /\ i \in 1 .. Len(sent)
      /\ HasField(out, at[i].field)
  BY <1>1, <1>3, ReaderStands
<1>5. here.pos \in Nat /\ here.left \in 0 .. NumDescBits /\ here.field \in Nat
  BY <1>4 DEF Place
<1>6. sent[i] = [kind |-> "bit", val |-> sent[i].val] /\ NextKind = "bit"
  <2>1. sent[i] \in Item
    BY <1>2, <1>4
  <2>2. QED
    BY <1>1, <1>3, <2>1, ItemIs DEF NextKind
<1>7. ASSUME received' = Append(received, sent[i]),
             pos' = at[i].pos, pos' > 0, Len(word') = at[i].left,
             \A k \in 1 .. at[i].left : word'[k] = out[at[i].field].bits[NumDescBits - at[i].left + k]
      PROVE  Inv' /\ received' = Append(received, sent[Len(received) + 1])
  BY <1>1, <1>3, <1>7, ReaderMoves
<1>8. ASSUME Len(word) # 0
      PROVE  /\ b = here /\ Head(word) = sent[i].val
             /\ Len(Tail(word)) = here.left - 1
             /\ \A k \in 1 .. here.left - 1 :
                  Tail(word)[k] = out[here.field].bits[NumDescBits - (here.left - 1) + k]
  <2>1. here.left \in 1 .. NumDescBits /\ word # <<>>
    BY <1>2, <1>4, <1>5, <1>8
  <2>2. b = here
    BY <1>1, <2>1 DEF Before, UsedUp
  <2>3. Head(word) = word[1]
    BY <1>2, <2>1
  <2>4. word[1] = out[here.field].bits[NumDescBits - here.left + 1]
    BY <1>4, <2>1
  <2>5. Head(word) = sent[i].val
    BY <1>4, <2>2, <2>3, <2>4 DEF HasBit
  <2>6. Len(Tail(word)) = here.left - 1 /\ \A k \in 1 .. here.left - 1 : Tail(word)[k] = word[k + 1]
    BY <1>2, <1>4, <2>1, HeadTailProperties
  <2>7. ASSUME NEW k \in 1 .. here.left - 1
        PROVE  Tail(word)[k] = out[here.field].bits[NumDescBits - (here.left - 1) + k]
    <3>1. k + 1 \in 1 .. here.left
          /\ NumDescBits - here.left + (k + 1) = NumDescBits - (here.left - 1) + k
      BY <1>2, <2>1
    <3>2. word[k + 1] = out[here.field].bits[NumDescBits - here.left + (k + 1)]
      BY <1>4, <3>1
    <3>3. QED
      BY <2>6, <3>1, <3>2
  <2>8. QED
    BY <2>2, <2>5, <2>6, <2>7
<1>9. CASE needEarlyDescriptor
  <2>1. Len(word) # 0
    <3>1. pos > 0 /\ word # <<>>
      BY <1>3, <1>9 DEF Reading, ITypeOK
    <3>2. QED
      BY <1>2, <3>1, EmptySeq
  <2>2. b = here /\ Gets(sent[i].val)
    BY <1>8, <1>9, <2>1 DEF DescbitRead
  <2>3. received' = Append(received, sent[i])
    BY <1>6, <2>2 DEF Gets
  <2>4. Take(here) = [pos |-> here.pos, left |-> here.left - 1, field |-> here.field]
    BY <1>4 DEF Take, Place
  <2>5. CASE Len(word) = 1
    <3>1. at[i] = [pos |-> here.pos + 1, left |-> NumDescBits, field |-> here.pos + 1]
      BY <1>4, <1>9, <2>2, <2>4, <2>5 DEF After, UsedUp, Fetch
    <3>2. pos' = pos + 1 /\ word' = out[pos + 1].bits /\ Len(word') = NumDescBits
      <4>1. HasField(out, pos + 1)
        BY <1>4, <3>1
      <4>2. QED
        BY <1>9, <2>5, <4>1, ReadsInPlace DEF DescbitRead
    <3>3. \A k \in 1 .. NumDescBits : word'[k] = out[pos + 1].bits[NumDescBits - NumDescBits + k]
      BY <1>2, <3>2
    <3>4. pos' > 0
      BY <1>2, <3>2
    <3>5. at[i].pos = pos + 1 /\ at[i].left = NumDescBits /\ at[i].field = pos + 1
      BY <1>4, <3>1
    <3>6. QED
      BY <1>7, <2>3, <3>2, <3>3, <3>4, <3>5
  <2>6. CASE Len(word) # 1
    <3>1. at[i] = Take(here)
      BY <1>4, <2>2, <2>4, <2>6 DEF After, UsedUp
    <3>2. pos' = pos /\ word' = Tail(word) /\ pos' > 0
      BY <1>3, <1>9, <2>6 DEF DescbitRead, Reading
    <3>3. at[i].pos = pos /\ at[i].left = here.left - 1 /\ at[i].field = here.field
      BY <1>4, <2>4, <3>1
    <3>4. /\ Len(word') = here.left - 1
          /\ \A k \in 1 .. here.left - 1 :
               word'[k] = out[here.field].bits[NumDescBits - (here.left - 1) + k]
      BY <1>8, <2>1, <3>2
    <3>5. QED
      BY <1>7, <2>3, <3>2, <3>3, <3>4
  <2>7. QED
    BY <2>5, <2>6
<1>10. CASE ~needEarlyDescriptor /\ word = <<>>
  <2>1. here.left = 0
    BY <1>4, <1>10
  <2>2. b = [pos |-> pos + 1, left |-> NumDescBits, field |-> pos + 1]
    BY <1>1, <1>4, <1>10, <2>1 DEF Before, UsedUp, Fetch
  <2>3. at[i] = [pos |-> pos + 1, left |-> NumDescBits - 1, field |-> pos + 1]
    <3>1. Take(b) = [pos |-> pos + 1, left |-> NumDescBits - 1, field |-> pos + 1]
      BY <2>2 DEF Take
    <3>2. QED
      BY <1>4, <1>10, <3>1 DEF After
  <2>4. HasField(out, pos + 1)
    BY <1>4, <2>2 DEF HasBit
  <2>5. PICK f : f = out[pos + 1].bits
    OBVIOUS
  <2>6. /\ pos' = pos + 1 /\ Gets(Head(f)) /\ word' = Tail(f)
        /\ f \in Seq({0, 1}) /\ Len(f) = NumDescBits
    BY <1>10, <2>4, <2>5, ReadsInPlace DEF DescbitRead
  <2>7. f # <<>> /\ Head(f) = f[1]
    BY <1>2, <2>6
  <2>8. f[1] = sent[i].val
    <3>1. b.field = pos + 1 /\ NumDescBits - b.left + 1 = 1
      BY <1>2, <2>2
    <3>2. QED
      BY <1>4, <2>5, <3>1 DEF HasBit
  <2>9. received' = Append(received, sent[i])
    BY <1>6, <2>6, <2>7, <2>8 DEF Gets
  <2>10. Len(word') = NumDescBits - 1 /\ \A k \in 1 .. NumDescBits - 1 : word'[k] = f[k + 1]
    BY <2>6, <2>7, HeadTailProperties
  <2>11. \A k \in 1 .. NumDescBits - 1 : word'[k] = out[pos + 1].bits[NumDescBits - (NumDescBits - 1) + k]
    <3>1. ASSUME NEW k \in 1 .. NumDescBits - 1 PROVE NumDescBits - (NumDescBits - 1) + k = k + 1
      BY <1>2
    <3>2. QED
      BY <2>5, <2>10, <3>1
  <2>12. at[i].pos = pos + 1 /\ at[i].left = NumDescBits - 1 /\ at[i].field = pos + 1
    BY <2>3
  <2>13. pos' > 0
    BY <1>2, <2>6
  <2>14. QED
    BY <1>7, <2>6, <2>9, <2>10, <2>11, <2>12, <2>13
<1>11. CASE ~needEarlyDescriptor /\ word # <<>>
  <2>1. Len(word) # 0
    BY <1>2, <1>11, EmptySeq
  <2>2. /\ b = here /\ Gets(sent[i].val) /\ word' = Tail(word) /\ pos' = pos
    BY <1>8, <1>11, <2>1 DEF DescbitRead
  <2>3. received' = Append(received, sent[i])
    BY <1>6, <2>2 DEF Gets
  <2>4. at[i] = [pos |-> here.pos, left |-> here.left - 1, field |-> here.field]
    BY <1>4, <1>11, <2>2 DEF After, Take, Place
  <2>5. at[i].pos = pos /\ at[i].left = here.left - 1 /\ at[i].field = here.field
    BY <1>4, <2>4
  <2>6. /\ Len(word') = here.left - 1
        /\ \A k \in 1 .. here.left - 1 :
             word'[k] = out[here.field].bits[NumDescBits - (here.left - 1) + k]
    BY <1>8, <2>1, <2>2
  <2>7. pos' > 0
    BY <1>3, <2>2 DEF Reading
  <2>8. QED
    BY <1>7, <2>2, <2>3, <2>5, <2>6, <2>7
<1>12. QED
  BY <1>9, <1>10, <1>11

(* getbyte returns the byte that was sent.                                 *)
LEMMA GetbyteKeepsLayout ==
  ASSUME ITypeOK, NEW at, LaidOut(at), Getbyte
  PROVE  Inv' /\ received' = Append(received, sent[Len(received) + 1])
<1>1. PICK i, here : i = Len(received) + 1 /\ here = Standing(at)
  OBVIOUS
<1>2. pos \in Nat /\ sent \in Seq(Item)
  BY DEF ITypeOK, TypeOK, Item
<1>3. Reading /\ sent[i].kind = "byte" /\ pos' = pos + 1 /\ word' = word
      /\ UNCHANGED <<needEarlyDescriptor, out, bits, buffer, closed, sent>>
  BY <1>1 DEF Getbyte, NextKind
<1>4. /\ here \in Place /\ pos = here.pos /\ Len(word) = here.left
      /\ \A k \in 1 .. here.left : word[k] = out[here.field].bits[NumDescBits - here.left + k]
      /\ at[i] = Skip(here) /\ HasByte(out, at[i], sent[i].val) /\ i \in 1 .. Len(sent)
  BY <1>1, <1>3, ReaderStands
<1>5. at[i].pos = pos + 1 /\ at[i].left = here.left /\ at[i].field = here.field
  BY <1>4 DEF Skip, Place
<1>6. ByteAt(pos + 1) = {sent[i].val}
  BY <1>4, <1>5, ReadsInPlace
<1>7. sent[i] = [kind |-> "byte", val |-> sent[i].val] /\ NextKind = "byte"
  <2>1. sent[i] \in Item
    BY <1>2, <1>4
  <2>2. QED
    BY <1>1, <1>3, <2>1, ItemIs DEF NextKind
<1>8. received' = Append(received, sent[i])
  BY <1>6, <1>7 DEF Getbyte, Gets
<1>9. pos' > 0
  BY <1>2, <1>3
<1>10. /\ pos' = at[i].pos /\ Len(word') = at[i].left
       /\ \A k \in 1 .. at[i].left : word'[k] = out[at[i].field].bits[NumDescBits - at[i].left + k]
  BY <1>3, <1>4, <1>5
<1>11. QED
  BY <1>1, <1>3, <1>8, <1>9, <1>10, ReaderMoves

-----------------------------------------------------------------------------
(* A stuttering step disturbs nothing.                                     *)
LEMMA StutterKeepsLayout ==
  ASSUME ITypeOK, NEW at, LaidOut(at), UNCHANGED vars
  PROVE  Inv'
<1>1. UNCHANGED <<needEarlyDescriptor, out, bits, buffer, closed, pos, word, sent, received>>
  BY DEF vars
<1>2. File' = File
  BY <1>1 DEF File, Begun, Padded
<1>3. Places(at)' /\ Ordered(at)' /\ Contents(at)'
  BY <1>1, <1>2, LayoutStays
<1>4. Held(at)' /\ Reads(at)'
  BY <1>1 DEF LaidOut, Held, Reads, Standing
<1>5. at \in [0 .. Len(sent') -> Place]
  BY <1>3 DEF Places
<1>6. QED
  BY <1>3, <1>4, <1>5 DEF LaidOut, Inv

(* Every step keeps a layout.                                              *)
LEMMA StepKeepsLayout ==
  ASSUME ITypeOK, Inv, [Next]_vars
  PROVE  Inv'
<1>1. PICK at : LaidOut(at)
  BY DEF Inv
<1>2. ASSUME NEW b \in {0, 1}, Descbit(b) PROVE Inv'
  BY <1>1, <1>2, DescbitKeepsLayout
<1>3. ASSUME NEW c \in Bytes, Putbyte(c) PROVE Inv'
  BY <1>1, <1>3, PutbyteKeepsLayout
<1>4. CASE Destroy
  BY <1>1, <1>4, DestroyKeepsLayout
<1>5. CASE Open
  BY <1>1, <1>5, OpenKeepsLayout
<1>6. CASE DescbitRead
  BY <1>1, <1>6, DescbitReadKeepsLayout
<1>7. CASE Getbyte
  BY <1>1, <1>7, GetbyteKeepsLayout
<1>8. CASE UNCHANGED vars
  BY <1>1, <1>8, StutterKeepsLayout
<1>9. QED
  BY <1>2, <1>3, <1>4, <1>5, <1>6, <1>7, <1>8 DEF Next

(* So there is one in every reachable state.                               *)
LEMMA SpecIsLaidOut == Spec => [](ITypeOK /\ Inv)
<1>1. Init => ITypeOK /\ Inv
  BY InitHasTypes, InitIsLaidOut
<1>2. ITypeOK /\ Inv /\ [Next]_vars => (ITypeOK /\ Inv)'
  BY StepKeepsTypes, StepKeepsLayout
<1>3. QED
  BY <1>1, <1>2, PTL DEF Spec

(* The reader never runs off the file, and has taken all of it when it has *)
(* all the items: what comes after the stream (a module's padding) begins  *)
(* right where the reader stands.                                          *)
THEOREM StreamStopsAtEnd == Spec => []StopsAtEnd
<1>1. ASSUME ITypeOK, Inv PROVE StopsAtEnd
  <2>1. PICK at : LaidOut(at)
    BY <1>1 DEF Inv
  <2>2. /\ pos \in Nat /\ sent \in Seq(Item) /\ received \in Seq(Item) /\ out \in Seq(Unit)
        /\ Len(received) \in Nat /\ Len(sent) \in Nat /\ Len(received) <= Len(sent)
        /\ Len(out) \in Nat /\ needEarlyDescriptor \in BOOLEAN /\ NumDescBits \in Nat \ {0, 1}
    BY <1>1, StreamAssumption DEF ITypeOK, TypeOK, Item, Unit
  <2>3. Places(at) /\ Ordered(at) /\ Contents(at) /\ Reads(at)
    BY <2>1 DEF LaidOut
  <2>4. CASE pos = 0
    BY <2>2, <2>4 DEF StopsAtEnd
  <2>5. CASE pos > 0
    <3>1. closed /\ sent # <<>> /\ File = out /\ pos = Standing(at).pos
      BY <2>3, <2>5 DEF Reads, File
    <3>2. 1 \in 1 .. Len(sent) /\ sent[1].kind = "bit" /\ Len(out) = at[Len(sent)].pos
      BY <2>2, <2>3, <3>1, EmptySeq DEF Places, Contents
    <3>3. CASE received = <<>>
      <4>1. HasBit(out, Before(at[1 - 1]), sent[1].val) /\ at[1 - 1] = Start
        BY <2>3, <3>1, <3>2 DEF Contents, Places
      <4>2. Before(Start) = First
        BY <2>2 DEF Start, Before, First, Nowhere, Fetch, UsedUp
      <4>3. 1 \in 1 .. Len(out)
        BY <4>1, <4>2 DEF HasBit, HasField, First
      <4>4. pos = 1
        BY <3>1, <3>3 DEF Standing, First
      <4>5. pos <= Len(out) /\ received # sent
        BY <2>2, <3>1, <3>3, <4>3, <4>4
      <4>6. QED
        BY <4>5 DEF StopsAtEnd
    <3>4. CASE received # <<>>
      <4>1. pos = at[Len(received)].pos /\ Len(received) \in 0 .. Len(sent)
        BY <2>2, <3>1, <3>4 DEF Standing
      <4>2. pos <= Len(out)
        BY <2>3, <3>2, <4>1 DEF Ordered
      <4>3. received = sent => pos = Len(out)
        BY <3>2, <4>1
      <4>4. QED
        BY <4>2, <4>3 DEF StopsAtEnd
    <3>5. QED
      BY <3>3, <3>4
  <2>6. QED
    BY <2>2, <2>4, <2>5
<1>2. QED
  BY <1>1, SpecIsLaidOut, PTL

(* Every bit and byte the encoder puts into the stream comes out of it in  *)
(* its turn and unchanged: the streams implement the channel.              *)
THEOREM StreamsAreChannel == Spec => ImplementsChannel
<1>1. Init => Channel!Init
  BY DEF Init, Channel!Init
<1>2. ASSUME ITypeOK, Inv, [Next]_vars PROVE [Channel!Next]_Channel!chan
  <2>1. PICK at : LaidOut(at)
    BY <1>2 DEF Inv
  <2>2. ASSUME NEW kind, NEW val, Sends(kind, val), [kind |-> kind, val |-> val] \in Item
        PROVE  Channel!Next
    <3>1. received = <<>>
      BY <1>2, <2>1, <2>2 DEF LaidOut, Reads, Sends, ITypeOK, TypeOK
    <3>2. Channel!Send([kind |-> kind, val |-> val])
      BY <2>2, <3>1 DEF Sends, Channel!Send
    <3>3. QED
      BY <2>2, <3>2 DEF Channel!Next, Channel!Item, Item
  <2>3. ASSUME NEW b \in {0, 1}, Descbit(b) PROVE Channel!Next
    BY <2>2, <2>3, UnitsAndItems DEF Descbit
  <2>4. ASSUME NEW c \in Bytes, Putbyte(c) PROVE Channel!Next
    BY <2>2, <2>4, UnitsAndItems DEF Putbyte
  <2>5. CASE Destroy
    BY <2>5 DEF Destroy, Channel!chan
  <2>6. CASE Open
    BY <2>6 DEF Open, Channel!chan
  <2>7. CASE DescbitRead
    <3>1. received' = Append(received, sent[Len(received) + 1])
      BY <1>2, <2>1, <2>7, DescbitReadKeepsLayout
    <3>2. Channel!Receive
      BY <2>7, <3>1 DEF DescbitRead, Reading, Channel!Receive
    <3>3. QED
      BY <3>2 DEF Channel!Next
  <2>8. CASE Getbyte
    <3>1. received' = Append(received, sent[Len(received) + 1])
      BY <1>2, <2>1, <2>8, GetbyteKeepsLayout
    <3>2. Channel!Receive
      BY <2>8, <3>1 DEF Getbyte, Reading, Channel!Receive
    <3>3. QED
      BY <3>2 DEF Channel!Next
  <2>9. CASE UNCHANGED vars
    BY <2>9 DEF vars, Channel!chan
  <2>10. QED
    BY <1>2, <2>3, <2>4, <2>5, <2>6, <2>7, <2>8, <2>9 DEF Next
<1>3. QED
  BY <1>1, <1>2, SpecIsLaidOut, PTL DEF Spec, ImplementsChannel, Channel!Spec
=============================================================================
