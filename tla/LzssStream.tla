----------------------------- MODULE LzssStream -----------------------------
(***************************************************************************)
(* LZSSOStream and LZSSIStream of lzss.hh, with the obitstream and         *)
(* ibitstream of bitstream.hh inside them.  The writer buffers parameter   *)
(* bytes until the descriptor field they belong to is full; the reader has *)
(* no such buffer and must find, at every call, exactly the unit it needs  *)
(* next in the file.  Which of the two rules for fetching a descriptor     *)
(* applies is the adaptor's NeedEarlyDescriptor, which never changes.       *)
(*                                                                         *)
(* The file is a sequence of units: a descriptor field (its bits in the    *)
(* order they are taken; descriptors of two bytes are one unit, and bit    *)
(* and byte order, the same on both sides, are left out) or one byte.      *)
(***************************************************************************)
EXTENDS Naturals, Sequences

CONSTANTS
  Bytes,                (* the parameter bytes                              *)
  NumDescBits,          (* bits in a descriptor field                       *)
  Disciplines,          (* the values of NeedEarlyDescriptor                *)
  MaxItems              (* bound: bits and bytes written to a stream        *)

ASSUME StreamAssumption ==
  /\ NumDescBits \in Nat \ {0, 1}
  /\ Disciplines \subseteq BOOLEAN
  /\ MaxItems \in Nat

VARIABLES
  needEarlyDescriptor,  (* the adaptor's: fetch a field as soon as the last *)
                        (* is used up                                       *)
  out,                  (* the file                                         *)
  bits,                 (* obitstream::bitbuffer, waitingbits of them       *)
  buffer,               (* LZSSOStream::buffer, the bytes held back         *)
  closed,               (* the LZSSOStream is destroyed                     *)
  pos,                  (* units of the file the reader has taken           *)
  word,                 (* ibitstream::bitbuffer, readbits of them          *)
  sent, received        (* history: the calls and what they gave            *)

vars == <<needEarlyDescriptor, out, bits, buffer, closed, pos, word, sent, received>>

Fields == [1 .. NumDescBits -> {0, 1}]
Desc(f) == [kind |-> "desc", bits |-> f]
Data(c) == [kind |-> "data", val |-> c]
Zeros(n) == [i \in 1 .. n |-> 0]
Written(s) == [i \in DOMAIN s |-> Data(s[i])]      \* flushbuffer

Init ==
  /\ needEarlyDescriptor \in Disciplines
  /\ out = <<>>
  /\ bits = <<>>
  /\ buffer = <<>>
  /\ closed = FALSE
  /\ pos = 0
  /\ word = <<>>
  /\ sent = <<>>
  /\ received = <<>>

-----------------------------------------------------------------------------
Sends(kind, val) ==
  /\ ~closed
  /\ Len(sent) < MaxItems
  /\ sent' = Append(sent, [kind |-> kind, val |-> val])
  /\ UNCHANGED <<needEarlyDescriptor, closed, pos, word, received>>

(* obitstream::push on the bits p, to the file f.                          *)
Full_OffByOne(p) == Len(p) > NumDescBits           \* a slip: > for >=
Full(p) == Len(p) >= NumDescBits
Pushed(f, p) == IF Full(p) THEN Append(f, Desc(p)) ELSE f

(* LZSSOStream::descbit.  With early descriptors a full field goes out at  *)
(* once, followed by the bytes held back, which belong to it; otherwise    *)
(* the bytes wait for the first bit of the next field.                     *)
DescbitEarly(b) ==
  LET p == Append(bits, b) IN
    /\ bits' = IF Full(p) THEN <<>> ELSE p
    /\ out' = Pushed(out, p) \o (IF Full(p) THEN Written(buffer) ELSE <<>>)
    /\ buffer' = IF Full(p) THEN <<>> ELSE buffer

DescbitLate(b) ==
  LET p == Append(bits, b) IN
    /\ bits' = IF Full(p) THEN <<>> ELSE p
    /\ out' = Pushed(out \o (IF bits = <<>> THEN Written(buffer) ELSE <<>>), p)
    /\ buffer' = IF bits = <<>> THEN <<>> ELSE buffer

Descbit(b) ==
  /\ Sends("bit", b)
  /\ IF needEarlyDescriptor THEN DescbitEarly(b) ELSE DescbitLate(b)

(* A slip: the byte goes to the file at once.                              *)
Putbyte_Unbuffered(c) ==
  /\ sent # <<>>
  /\ Sends("byte", c)
  /\ out' = Append(out, Data(c))
  /\ UNCHANGED <<bits, buffer>>

(* LZSSOStream::putbyte.  Every token a codec writes begins with a bit.    *)
Putbyte(c) ==
  /\ sent # <<>>
  /\ Sends("byte", c)
  /\ buffer' = Append(buffer, c)
  /\ UNCHANGED <<out, bits>>

(* ~LZSSOStream: flush the field begun, or write the dummy field an early  *)
(* reader is going to fetch; then the bytes held back.                     *)
NeedDummyDesc == bits = <<>>
Padded == Append(out, Desc(bits \o Zeros(NumDescBits - Len(bits))))

Destroy_NoDummy ==                       \* a slip: no dummy field
  /\ ~closed /\ sent # <<>>
  /\ closed' = TRUE
  /\ bits' = <<>>
  /\ buffer' = <<>>
  /\ out' = (IF bits # <<>> THEN Padded ELSE out) \o Written(buffer)
  /\ UNCHANGED <<needEarlyDescriptor, pos, word, sent, received>>

Destroy ==
  /\ ~closed /\ sent # <<>>
  /\ closed' = TRUE
  /\ bits' = <<>>
  /\ buffer' = <<>>
  /\ out' = (IF bits # <<>> THEN Padded
             ELSE IF needEarlyDescriptor /\ NeedDummyDesc
                    THEN Append(out, Desc(Zeros(NumDescBits)))
             ELSE out)
              \o Written(buffer)
  /\ UNCHANGED <<needEarlyDescriptor, pos, word, sent, received>>

-----------------------------------------------------------------------------
(* Taking a unit of the file.  A read that finds the end of the file, or a *)
(* unit of the other kind, gives anything (Read leaves its buffer as it    *)
(* was; a field read across bytes is made of whatever they are).           *)
FieldAt(p) ==
  IF p \in DOMAIN out /\ out[p].kind = "desc" THEN {out[p].bits} ELSE Fields
ByteAt(p) ==
  IF p \in DOMAIN out /\ out[p].kind = "data" THEN {out[p].val} ELSE Bytes

NextKind == sent[Len(received) + 1].kind
Gets(val) == received' = Append(received, [kind |-> NextKind, val |-> val])

(* The decoder constructs its LZSSIStream, which reads the first field.    *)
Open ==
  /\ closed /\ pos = 0
  /\ \E f \in FieldAt(1) : word' = f
  /\ pos' = 1
  /\ UNCHANGED <<needEarlyDescriptor, out, bits, buffer, closed, sent, received>>

(* The decoder reads what the encoder wrote, call for call: what it calls  *)
(* next depends on nothing but the items it has got.                       *)
Reading == pos > 0 /\ Len(received) < Len(sent)

(* LZSSIStream::descbit, which is ibitstream::pop with check_buffer after  *)
(* (early) or before the bit is taken.                                     *)
DescbitRead ==
  /\ Reading /\ NextKind = "bit"
  /\ IF needEarlyDescriptor
       THEN /\ Gets(Head(word))
            /\ IF Len(word) = 1
                 THEN pos' = pos + 1 /\ \E f \in FieldAt(pos + 1) : word' = f
                 ELSE word' = Tail(word) /\ UNCHANGED pos
     ELSE IF word = <<>>
       THEN pos' = pos + 1 /\ \E f \in FieldAt(pos + 1) : Gets(Head(f)) /\ word' = Tail(f)
       ELSE Gets(Head(word)) /\ word' = Tail(word) /\ UNCHANGED pos
  /\ UNCHANGED <<needEarlyDescriptor, out, bits, buffer, closed, sent>>

(* LZSSIStream::getbyte.                                                   *)
Getbyte ==
  /\ Reading /\ NextKind = "byte"
  /\ \E c \in ByteAt(pos + 1) : Gets(c)
  /\ pos' = pos + 1
  /\ UNCHANGED <<needEarlyDescriptor, out, bits, buffer, closed, word, sent>>

-----------------------------------------------------------------------------
Next ==
  \/ \E b \in {0, 1} : Descbit(b)
  \/ \E c \in Bytes : Putbyte(c)
  \/ Destroy
  \/ Open
  \/ DescbitRead
  \/ Getbyte

Spec == Init /\ [][Next]_vars

-----------------------------------------------------------------------------
TypeOK ==
  /\ needEarlyDescriptor \in BOOLEAN
  /\ out \in Seq([kind : {"desc"}, bits : Fields] \cup [kind : {"data"}, val : Bytes])
  /\ bits \in Seq({0, 1}) /\ Len(bits) < NumDescBits
  /\ buffer \in Seq(Bytes)
  /\ closed \in BOOLEAN
  /\ pos \in Nat
  /\ word \in Seq({0, 1}) /\ Len(word) <= NumDescBits
  /\ sent \in Seq([kind : {"bit"}, val : {0, 1}] \cup [kind : {"byte"}, val : Bytes])
  /\ Len(received) <= Len(sent)

(* Every bit and byte comes out as it was put in, in order: although the   *)
(* two are interleaved differently in the file, the reader never takes a   *)
(* parameter byte for a descriptor or the other way round.                 *)
Channel == INSTANCE LzssChannel
ImplementsChannel == Channel!Spec

(* The reader never runs off the file, and when the decoder has what it    *)
(* needs it has taken the whole file, the dummy field included: what       *)
(* follows (the padding of a module) begins right there.                   *)
StopsAtEnd ==
  /\ pos <= Len(out)
  /\ closed /\ pos > 0 /\ received = sent => pos = Len(out)
=============================================================================
