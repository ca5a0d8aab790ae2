------------------------------- MODULE Enigma -------------------------------
(***************************************************************************)
(* enigma_internal of enigma.cc: the words of a file are cut into packets  *)
(* (incrementing, common, repeated with a step, inlined), written bit by   *)
(* bit to an obitstream, and read back from an ibitstream.                 *)
(***************************************************************************)
EXTENDS BitStream

CONSTANTS
  LowBits, FlagBits,    (* bits of a word below and among its flags (11, 5) *)
  CountBits,            (* bits of a count (4)                              *)
  Files                 (* the files: sequences of words                    *)

Mod == Pow(LowBits + FlagBits)
CMax == Pow(CountBits) - 1

(* encode has no defined result for an empty file, nor (slog2 of 0) for a  *)
(* file none of whose words has a bit below the flags.                     *)
ASSUME EnigmaAssumption ==
  /\ LowBits \in Nat \ {0} /\ FlagBits \in Nat /\ CountBits \in Nat \ {0}
  /\ LowBits + FlagBits <= W /\ 3 + CountBits <= W
  /\ \A f \in Files : f \in Seq(0 .. Mod - 1) /\ \E i \in DOMAIN f : f[i] % Pow(LowBits) # 0

VARIABLES
  unpack,               (* the file                                         *)
  pos, incr, buf,       (* encode: words taken, incrementing_value, and the *)
                        (* words that wait to be inlined                    *)
  todo,                 (* the calls it is about to make to the bit stream  *)
  pc,                   (* where decode is                                  *)
  mode,                 (* 0 .. 2: stepped, 3: inlined, 4 and 5: the        *)
                        (* incrementing and the common value                *)
  cnt, flags, left, dincr,
  dst                   (* what decode has written                          *)

encoder == <<pos, incr, buf, todo>>
decoder == <<pc, mode, cnt, flags, left, dincr, dst>>

-----------------------------------------------------------------------------
(* The header: what encode finds out about the whole file f.               *)
HasBit(w, i) == (w \div Pow(i)) % 2 = 1
MaskBits(f) == {i \in 0 .. LowBits + FlagBits - 1 : \E k \in DOMAIN f : HasBit(f[k], i)}
packet_length(f) == 1 + Max({i \in MaskBits(f) : i < LowBits})

(* max_element over a map: the first of the greatest, in order of the key. *)
MaxElement(f, weight(_)) ==
  LET elems == Range(f)
      most == Max({weight(w) : w \in elems})
  IN  Min({w \in elems : weight(w) = most})

common_value(f) == MaxElement(f, LAMBDA w : Cardinality({k \in DOMAIN f : f[k] = w}))

incrementing_value(f) ==
  MaxElement(f, LAMBDA w :
    FoldLeft(LAMBDA n, x : IF x = (w + n) % Mod THEN n + 1 ELSE n, 0, f))

-----------------------------------------------------------------------------
Calls(call, w, n) == << [call |-> call, val |-> w, size |-> n] >>

(* putMask and write: the flags the file uses at all, the highest first,   *)
(* then the rest.                                                          *)
Flag(w, i) == IF i \in MaskBits(unpack) THEN Calls("push", (w \div Pow(i)) % 2, 1) ELSE <<>>
Flags(w) == FlattenSeq([k \in 1 .. FlagBits |-> Flag(w, LowBits + FlagBits - k)])

Inlined_Whole(w) ==                      \* a slip: the flags are left in the rest
  Flags(w) \o Calls("write", w, packet_length(unpack))

Inlined(w) == Flags(w) \o Calls("write", w % Pow(LowBits), packet_length(unpack))

FlushBuffer(b) ==
  IF b = <<>> THEN <<>>
  ELSE Calls("write", 7 * Pow(CountBits) + Len(b) - 1, 3 + CountBits)
         \o FlattenSeq([k \in DOMAIN b |-> Inlined(b[k])])

(* How many of the words behind word p, at most CMax, go on in steps of d. *)
Behind(p) == Min({CMax, Len(unpack) - p})
StepsOf(p, d, stop) ==
  Max({n \in 0 .. Behind(p) :
         \A k \in 1 .. n : unpack[p + k] = (unpack[p] + k * d) % Mod /\ unpack[p + k] \notin stop})

(* The code of delta, with the delta: modeDeltaLUT of decode.              *)
Deltas == [m \in 0 .. 2 |-> IF m = 2 THEN -1 ELSE m]

Init ==
  /\ StreamInit
  /\ unpack \in Files
  /\ pos = 0 /\ incr = incrementing_value(unpack) /\ buf = <<>> /\ todo = <<>>
  /\ pc = "encoding"
  /\ mode = 0 /\ cnt = 0 /\ flags = 0 /\ left = 0
  /\ dincr = incrementing_value(unpack)
  /\ dst = <<>>

Encoding == pc = "encoding" /\ todo = <<>> /\ pos < Len(unpack)
word == unpack[pos + 1]

(* A packet: what waits is written first.                                  *)
Packet(calls, n) ==
  /\ todo' = FlushBuffer(buf) \o calls
  /\ buf' = <<>>
  /\ pos' = pos + 1 + n
  /\ UNCHANGED <<unpack, decoder, writer, reader>>

Incrementing_Kept ==                     \* a slip: incrementing_value not moved on
  /\ Encoding /\ word = incr
  /\ LET n == StepsOf(pos + 1, 1, {}) IN Packet(Calls("write", n, 2 + CountBits), n)
  /\ UNCHANGED incr

Incrementing ==
  /\ Encoding /\ word = incr
  /\ LET n == StepsOf(pos + 1, 1, {}) IN
       /\ Packet(Calls("write", n, 2 + CountBits), n)
       /\ incr' = (word + 1 + n) % Mod

Common ==
  /\ Encoding /\ word # incr /\ word = common_value(unpack)
  /\ LET n == StepsOf(pos + 1, 0, {}) IN
       Packet(Calls("write", Pow(CountBits) + n, 2 + CountBits), n)
  /\ UNCHANGED incr

(* unpack[pos + 1] is read before it is known to be there, but not used.   *)
Stepping(m) == StepsOf(pos + 1, Deltas[m], {incr}) > 0
Plain == word # incr /\ word # common_value(unpack)

Stepped ==
  /\ Encoding /\ Plain
  /\ \E m \in DOMAIN Deltas :
       /\ Stepping(m)
       /\ LET n == StepsOf(pos + 1, Deltas[m], {incr}) IN
            Packet(Calls("write", (4 + m) * Pow(CountBits) + n, 3 + CountBits) \o Inlined(word), n)
  /\ UNCHANGED incr

FullBuffer_OneMore == Len(buf) > CMax    \* a slip: a packet of 16, the terminator
FullBuffer == Len(buf) >= CMax

Single ==
  /\ Encoding /\ Plain /\ \A m \in DOMAIN Deltas : ~Stepping(m)
  /\ todo' = IF FullBuffer THEN FlushBuffer(buf) ELSE <<>>
  /\ buf' = IF FullBuffer THEN << word >> ELSE Append(buf, word)
  /\ pos' = pos + 1
  /\ UNCHANGED <<unpack, incr, decoder, writer, reader>>

Terminator ==
  /\ pc = "encoding" /\ todo = <<>> /\ pos = Len(unpack)
  /\ todo' = FlushBuffer(buf) \o Calls("write", Pow(3 + CountBits) - 1, 3 + CountBits)
  /\ buf' = <<>>
  /\ pc' = "ending"
  /\ UNCHANGED <<unpack, pos, incr, mode, cnt, flags, left, dincr, dst, writer, reader>>

CallStream ==
  /\ todo # <<>>
  /\ LET c == Head(todo) IN IF c.call = "push" THEN Push(c.val) ELSE Write(c.val, c.size)
  /\ todo' = Tail(todo)
  /\ UNCHANGED <<unpack, pos, incr, buf, decoder>>

Finish ==
  /\ pc = "ending" /\ todo = <<>>
  /\ Flush
  /\ pc' = "header"
  /\ UNCHANGED <<unpack, encoder, mode, cnt, flags, left, dincr, dst>>

-----------------------------------------------------------------------------
Goto(label) == pc' = label

(* The header is read, and the first word with the stream's constructor.   *)
Header ==
  /\ pc = "header" /\ Open /\ Goto("packet")
  /\ UNCHANGED <<unpack, encoder, mode, cnt, flags, left, dincr, dst>>

(* decode's loop goes on while in.good(): while no word was missing.       *)
Good == spos <= Len(file)

PacketBit ==
  /\ pc = "packet" /\ Good
  /\ \E b \in {0, 1} : Pop(b) /\ Goto(IF b = 1 THEN "mode" ELSE "kind")
  /\ UNCHANGED <<unpack, encoder, mode, cnt, flags, left, dincr, dst>>

Kind ==
  /\ pc = "kind"
  /\ \E b \in {0, 1} : Pop(b) /\ mode' = 4 + b
  /\ Goto("count")
  /\ UNCHANGED <<unpack, encoder, cnt, flags, left, dincr, dst>>

Mode ==
  /\ pc = "mode"
  /\ \E m \in 0 .. 3 : Read(2, m) /\ mode' = m
  /\ Goto("count")
  /\ UNCHANGED <<unpack, encoder, cnt, flags, left, dincr, dst>>

(* The words of the two packets that say all with their count.             *)
Count ==
  /\ pc = "count"
  /\ \E n \in 0 .. CMax :
       /\ Read(CountBits, n)
       /\ cnt' = n
       /\ CASE mode = 4 ->
                 /\ dst' = dst \o [k \in 1 .. n + 1 |-> (dincr + k - 1) % Mod]
                 /\ dincr' = (dincr + n + 1) % Mod
                 /\ Goto("packet")
            [] mode = 5 ->
                 /\ dst' = dst \o [k \in 1 .. n + 1 |-> common_value(unpack)]
                 /\ Goto("packet")
                 /\ UNCHANGED dincr
            [] OTHER ->
                 /\ Goto(IF mode = 3 /\ n = CMax THEN "done" ELSE "flags")
                 /\ UNCHANGED <<dst, dincr>>
  /\ flags' = 0 /\ left' = FlagBits
  /\ UNCHANGED <<unpack, encoder, mode>>

(* getMask: one bit for every flag of the mask, the highest first.         *)
GetMask ==
  /\ pc = "flags" /\ left > 0
  /\ LET i == LowBits + left - 1 IN
       IF i \in MaskBits(unpack)
         THEN \E b \in {0, 1} : Pop(b) /\ flags' = flags + b * Pow(i)
         ELSE UNCHANGED <<flags, writer, reader>>
  /\ left' = left - 1
  /\ UNCHANGED <<unpack, encoder, pc, mode, cnt, dincr, dst>>

(* The word of a stepped packet and its followers, or one inlined word.    *)
Value ==
  /\ pc = "flags" /\ left = 0
  /\ \E n \in 0 .. Pow(packet_length(unpack)) - 1 :
       /\ Read(packet_length(unpack), n)
       /\ dst' = IF mode = 3 THEN Append(dst, flags + n)
                 ELSE dst \o [k \in 1 .. cnt + 1 |-> (flags + n + (k - 1) * Deltas[mode]) % Mod]
  /\ IF mode = 3 /\ cnt > 0
       THEN cnt' = cnt - 1 /\ flags' = 0 /\ left' = FlagBits /\ UNCHANGED pc
       ELSE Goto("packet") /\ UNCHANGED <<cnt, flags, left>>
  /\ UNCHANGED <<unpack, encoder, mode, dincr>>

Next ==
  \/ Incrementing \/ Common \/ Stepped \/ Single \/ Terminator \/ CallStream \/ Finish
  \/ Header \/ PacketBit \/ Kind \/ Mode \/ Count \/ GetMask \/ Value

vars == <<unpack, encoder, decoder, writer, reader>>
Spec == Init /\ [][Next]_vars

-----------------------------------------------------------------------------
(* decode has returned.                                                    *)
Over == pc = "done" \/ (pc = "packet" /\ ~Good)

(* The decoder gives back the words of the file: no packet is taken for    *)
(* another or for the terminator, and decoder and encoder agree at every   *)
(* packet on how far the incrementing value has got.                       *)
DecodesToFile == IsPrefix(dst, unpack) /\ (Over => dst = unpack)

(* The decoder stops by the terminator, with the last bit written.         *)
StopsAtTerminator == Over => pc = "done" /\ received = sent
(* encode and decode use the streams as they are meant to be used: every   *)
(* value fits the bits it is written with, and decode asks for none behind *)
(* the last one written.                                                   *)
UsesStreamProperly == StreamSpec
=============================================================================
