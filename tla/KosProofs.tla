------------------------------ MODULE KosProofs -----------------------------
(***************************************************************************)
(* Proofs about KosQueue for every ROM, destination set, queue size and    *)
(* number of requests: the inductive invariant, and from it that a parked  *)
(* decompression is resumable, that the slots are the pending requests,    *)
(* that decoding stays in place and that the queue implements KosFifo.     *)
(*                                                                         *)
(* Then about KosModules on top of it, for every layout of archives, every *)
(* size of both queues and every number of requests, provided that the     *)
(* program makes none of its own while a module is being decompressed      *)
(* (Polite): the module queue is a proper client of the decompression      *)
(* queue, and transfers exactly the modules of the archives, in order.     *)
(***************************************************************************)
EXTENDS KosModules, FiniteSetTheorems, TLAPS

(* What the assumptions say of the constants.                              *)
LEMMA ConstantFacts ==
  /\ QueueSize \in Nat /\ 1 <= QueueSize /\ QueueSize <= 8191
  /\ \A s \in Streams : s \in Nat /\ Length[s] \in Nat /\ Length[s] >= 1
  /\ \A s \in Streams, d \in Dests :
       d \in Nat /\ \A i \in 0 .. Length[s] - 1 : d + i \in RamAddrs
BY RomAssumption, RamAssumption, QueueAssumption

(* The sign bit is taken off by clearing it or by the shift that makes an  *)
(* offset of the count.                                                    *)
LEMMA SignArithmetic ==
  ASSUME NEW c \in 0 .. QueueSize \cup SignBit + 1 .. SignBit + QueueSize
  PROVE  /\ ClearSign(c) = IF c < SignBit THEN c ELSE c - SignBit
         /\ SlotOf(c) = ClearSign(c) \/ ClearSign(c) >= QueueSize
         /\ ClearSign(c) \in 0 .. QueueSize
BY ConstantFacts DEF ClearSign, SlotOf, SignBit

(* A consistent decompression is somewhere between its beginning and its end.*)
LEMMA ConsistentLabel ==
  ASSUME NEW at, NEW g, NEW r, NEW mem, Consistent(at, g, r, mem)
  PROVE  at \in Midway
BY DEF Consistent, Midway, Decompressing

(* The last unit of a stream is at its last address and nowhere before.    *)
LEMMA EndOfStreamIsLast ==
  ASSUME NEW s \in Streams, NEW n \in 0 .. Length[s] - 1
  PROVE  s + n \in EndOfStream <=> n = Length[s] - 1
<1>1. \A t \in Streams : t \in Nat /\ Length[t] \in Nat \ {0}
  BY ConstantFacts
<1>2. ASSUME NEW t \in Streams, s + n = t + Length[t] - 1
      PROVE  n = Length[s] - 1
  <2>1. CASE s = t
    BY <1>1, <1>2, <2>1
  <2>2. CASE s # t
    <3>1. s + Length[s] <= t \/ t + Length[t] <= s
      BY <2>2, RomAssumption DEF StreamsDisjoint
    <3>2. QED
      BY <1>1, <1>2, <3>1
  <2>3. QED
    BY <2>1, <2>2
<1>3. QED
  BY <1>1, <1>2 DEF EndOfStream

(* A request at the head stays the head when another is queued behind it.  *)
LEMMA AppendKeepsHead ==
  ASSUME NEW S, NEW p \in Seq(S), NEW x \in S
  PROVE  /\ Append(p, x) \in Seq(S)
         /\ Len(Append(p, x)) = Len(p) + 1
         /\ \A i \in 1 .. Len(p) : Append(p, x)[i] = p[i]
         /\ Append(p, x)[Len(p) + 1] = x
         /\ p # <<>> => Head(Append(p, x)) = Head(p)
         /\ p # <<>> => Head(p) = p[1] /\ Head(p) \in S /\ Len(p) > 0
OBVIOUS

(* What is left of the requests when the first is gone.                    *)
LEMMA TailShifts ==
  ASSUME NEW S, NEW p \in Seq(S), p # <<>>
  PROVE  /\ Tail(p) \in Seq(S)
         /\ Len(Tail(p)) = Len(p) - 1
         /\ \A i \in 1 .. Len(p) - 1 : Tail(p)[i] = p[i + 1]
         /\ Head(p) = p[1] /\ Head(p) \in S
OBVIOUS

-----------------------------------------------------------------------------
(* The invariant holds at first, with nothing requested.                   *)
LEMMA InitIInv == Init => IInv
<1> SUFFICES ASSUME Init PROVE IInv
  OBVIOUS
<1>1. TypeOK
  BY ConstantFacts DEF Init, TypeOK, Labels, Regs, JunkRegs, Junk
<1>2. ~InProgress
  BY DEF Init, InProgress, SignBit
<1>3. SignBitInv
  BY <1>2 DEF Init, SignBitInv, Midway, Decompressing, Restoring, BackingUp
<1>4. SlotsArePending
  BY DEF Init, SlotsArePending, ClearSign, SignBit
<1>5. HeadSlotInv /\ DecodingInv /\ ParkingInv
  BY <1>2 DEF Init, HeadSlotInv, DecodingInv, ParkingInv, Midway, Decompressing, Restoring, BackingUp
<1>6. QED
  BY <1>1, <1>3, <1>4, <1>5 DEF IInv

(* What every later step uses of the invariant about the oldest request.   *)
LEMMA HeadFacts ==
  ASSUME IInv, count # 0
  PROVE  /\ pending # <<>>
         /\ Len(pending) \in 1 .. QueueSize
         /\ Head(pending) = pending[1]
         /\ Head(pending) \in [src : Streams, dst : Dests]
         /\ Head(pending).src \in Streams
         /\ Head(pending).src \in Nat
         /\ Head(pending).dst \in Dests
         /\ Head(pending).dst \in Nat
         /\ Length[Head(pending).src] \in Nat
         /\ Length[Head(pending).src] >= 1
<1>1. ClearSign(count) = Len(pending) /\ pending \in Seq([src : Streams, dst : Dests])
  BY DEF IInv, SlotsArePending, TypeOK
<1>2. ClearSign(count) \in 1 .. QueueSize
  BY SignArithmetic, ConstantFacts DEF IInv, TypeOK, SignBit
<1>3. pending # <<>> /\ Len(pending) \in 1 .. QueueSize
  BY <1>1, <1>2, ConstantFacts
<1>4. Head(pending) = pending[1] /\ Head(pending) \in [src : Streams, dst : Dests]
  BY <1>1, <1>3, TailShifts
<1>5. Head(pending).src \in Streams /\ Head(pending).dst \in Dests
  BY <1>4
<1>6. QED
  BY <1>3, <1>4, <1>5, ConstantFacts

-----------------------------------------------------------------------------
(* Actions that touch neither the queue nor its history nor RAM: only the  *)
(* program counter, the registers and their copies can break the invariant.*)
LEMMA LoadSourceStep == ASSUME IInv, LoadSource PROVE IInv'
<1>1. /\ pc = "source" /\ pc' = "destination"
      /\ regs' = [regs EXCEPT !.a0 = slots[0].src]
      /\ UNCHANGED <<count, slots, saved, bookmark, frame, ram, pending, delivered>>
  BY DEF LoadSource, Goto
<1>2. InProgress /\ count # 0 /\ slots[0] = pending[1]
  BY <1>1 DEF IInv, SignBitInv, HeadSlotInv, Midway, Decompressing, Restoring, BackingUp
<1>3. regs'.a0 = Head(pending).src
  BY <1>1, <1>2, HeadFacts DEF IInv, TypeOK, Regs
<1>4. TypeOK'
  <2>1. slots[0].src \in Int
    BY ConstantFacts DEF IInv, TypeOK
  <2>2. regs' \in Regs
    BY <1>1, <2>1 DEF IInv, TypeOK, Regs
  <2>3. QED
    BY <1>1, <2>2 DEF IInv, TypeOK, Labels, Decompressing
<1>5. SignBitInv'
  BY <1>1, <1>2 DEF SignBitInv, Midway, Decompressing, Restoring, BackingUp, InProgress
<1>6. SlotsArePending'
  BY <1>1, <1>2 DEF IInv, SlotsArePending, InProgress
<1>7. HeadSlotInv'
  BY <1>1, <1>2 DEF HeadSlotInv, InProgress, Restoring, BackingUp
<1>8. DecodingInv'
  BY <1>1, <1>3 DEF DecodingInv, Consistent
<1>9. ParkingInv'
  BY <1>1 DEF ParkingInv, Restoring, BackingUp
<1>10. QED
  BY <1>4, <1>5, <1>6, <1>7, <1>8, <1>9 DEF IInv

(* The destination is loaded while slot 0 still is the oldest request.     *)
LEMMA LoadDestinationStep == ASSUME IInv, LoadDestination PROVE IInv'
<1>1. /\ pc = "destination" /\ pc' = "init"
      /\ regs' = [regs EXCEPT !.a1 = slots[0].dst]
      /\ UNCHANGED <<count, slots, saved, bookmark, frame, ram, pending, delivered>>
  BY DEF LoadDestination, Goto
<1>2. InProgress /\ count # 0 /\ slots[0] = pending[1]
  BY <1>1 DEF IInv, SignBitInv, HeadSlotInv, Midway, Decompressing, Restoring, BackingUp
<1>3. regs'.a0 = Head(pending).src /\ regs'.a1 = Head(pending).dst
  <2>1. Consistent("destination", regs, Head(pending), ram)
    BY <1>1 DEF IInv, DecodingInv, Midway, Decompressing
  <2>2. QED
    BY <1>1, <1>2, <2>1, HeadFacts DEF IInv, TypeOK, Regs, Consistent
<1>4. TypeOK'
  <2>1. slots[0].dst \in Int
    BY ConstantFacts DEF IInv, TypeOK
  <2>2. regs' \in Regs
    BY <1>1, <2>1 DEF IInv, TypeOK, Regs
  <2>3. QED
    BY <1>1, <2>2 DEF IInv, TypeOK, Labels, Decompressing
<1>5. SignBitInv'
  BY <1>1, <1>2 DEF SignBitInv, Midway, Decompressing, Restoring, BackingUp, InProgress
<1>6. SlotsArePending'
  BY <1>1, <1>2 DEF IInv, SlotsArePending, InProgress
<1>7. HeadSlotInv'
  BY <1>1, <1>2 DEF HeadSlotInv, InProgress, Restoring, BackingUp
<1>8. DecodingInv'
  BY <1>1, <1>3 DEF DecodingInv, Consistent
<1>9. ParkingInv'
  BY <1>1 DEF ParkingInv, Restoring, BackingUp
<1>10. QED
  BY <1>4, <1>5, <1>6, <1>7, <1>8, <1>9 DEF IInv

(* The decoder starts at the first code of the oldest request.             *)
LEMMA InitDecoderStep == ASSUME IInv, InitDecoder PROVE IInv'
<1>1. /\ pc = "init" /\ pc' = "readbit"
      /\ regs' = [regs EXCEPT !.d = regs.a0, !.sr = regs.a0]
      /\ UNCHANGED <<count, slots, saved, bookmark, frame, ram, pending, delivered>>
  BY DEF InitDecoder, Goto
<1>2. InProgress /\ count # 0
  BY <1>1 DEF IInv, SignBitInv, Midway, Decompressing
<1>3. Consistent("readbit", regs', Head(pending), ram)
  <2>1. regs.a0 = Head(pending).src /\ regs.a1 = Head(pending).dst
    BY <1>1 DEF IInv, DecodingInv, Midway, Decompressing, Consistent
  <2>2. /\ regs'.a0 = Head(pending).src + 0 /\ regs'.a1 = Head(pending).dst + 0
        /\ regs'.d = regs'.a0 /\ regs'.sr = regs'.d
    BY <1>1, <1>2, <2>1, HeadFacts DEF IInv, TypeOK, Regs
  <2>3. Placed(Head(pending), 0, ram) /\ 0 \in 0 .. Length[Head(pending).src] - 1
    BY <1>2, HeadFacts DEF Placed
  <2>4. QED
    BY <2>2, <2>3 DEF Consistent
<1>4. TypeOK'
  <2>1. regs' \in Regs
    BY <1>1 DEF IInv, TypeOK, Regs
  <2>2. QED
    BY <1>1, <2>1 DEF IInv, TypeOK, Labels, Decompressing
<1>5. SignBitInv'
  BY <1>1, <1>2 DEF SignBitInv, Midway, Decompressing, Restoring, BackingUp, InProgress
<1>6. SlotsArePending'
  BY <1>1, <1>2 DEF IInv, SlotsArePending, InProgress
<1>7. HeadSlotInv'
  BY <1>1 DEF HeadSlotInv, Restoring, BackingUp
<1>8. DecodingInv'
  BY <1>1, <1>3 DEF DecodingInv
<1>9. ParkingInv'
  BY <1>1 DEF ParkingInv, Restoring, BackingUp
<1>10. QED
  BY <1>4, <1>5, <1>6, <1>7, <1>8, <1>9 DEF IInv

(* A code moves flags and registers on together, ahead of the pointers.    *)
LEMMA ReadBitStep == ASSUME IInv, ReadBit PROVE IInv'
<1>1. /\ pc = "readbit" /\ pc' = "copy"
      /\ regs' = [regs EXCEPT !.d = regs.d + 1, !.sr = regs.d + 1]
      /\ UNCHANGED <<count, slots, saved, bookmark, frame, ram, pending, delivered>>
  BY DEF ReadBit, Goto
<1>2. InProgress /\ count # 0
  BY <1>1 DEF IInv, SignBitInv, Midway, Decompressing
<1>3. Consistent("copy", regs', Head(pending), ram)
  <2>1. Consistent("readbit", regs, Head(pending), ram)
    BY <1>1 DEF IInv, DecodingInv, Midway, Decompressing
  <2>2. PICK n \in 0 .. Length[Head(pending).src] - 1 :
          /\ regs.a0 = Head(pending).src + n /\ regs.a1 = Head(pending).dst + n
          /\ regs.d = regs.a0 /\ Placed(Head(pending), n, ram)
    BY <2>1 DEF Consistent
  <2>3. /\ regs'.a0 = Head(pending).src + n /\ regs'.a1 = Head(pending).dst + n
        /\ regs'.d = regs'.a0 + 1 /\ regs'.sr = regs'.d
    BY <1>1, <2>2 DEF IInv, TypeOK, Regs
  <2>4. QED
    BY <2>2, <2>3 DEF Consistent
<1>4. TypeOK'
  <2>1. regs' \in Regs
    <3>1. regs \in Regs /\ regs.d + 1 \in Int
      BY DEF IInv, TypeOK, Regs
    <3>2. QED
      BY <1>1, <3>1 DEF Regs
  <2>2. QED
    BY <1>1, <2>1 DEF IInv, TypeOK, Labels, Decompressing
<1>5. SignBitInv'
  BY <1>1, <1>2 DEF SignBitInv, Midway, Decompressing, Restoring, BackingUp, InProgress
<1>6. SlotsArePending'
  BY <1>1, <1>2 DEF IInv, SlotsArePending, InProgress
<1>7. HeadSlotInv'
  BY <1>1 DEF HeadSlotInv, Restoring, BackingUp
<1>8. DecodingInv'
  BY <1>1, <1>3 DEF DecodingInv
<1>9. ParkingInv'
  BY <1>1 DEF ParkingInv, Restoring, BackingUp
<1>10. QED
  BY <1>4, <1>5, <1>6, <1>7, <1>8, <1>9 DEF IInv

(* The one step that changes RAM: it adds the next unit, right after those *)
(* that are already in place.                                              *)
LEMMA CopyPlaces ==
  ASSUME IInv, Copy
  PROVE  \E n \in 0 .. Length[Head(pending).src] - 1 :
           LET r == Head(pending) IN
             /\ regs.a0 = r.src + n /\ regs.a1 = r.dst + n
             /\ regs.d = regs.a0 + 1 /\ regs.sr = regs.d
             /\ ram' = [a \in RamAddrs |-> IF a # r.dst + n THEN ram[a] ELSE r.src + n]
             /\ Placed(r, n, ram)
             /\ Placed(r, n + 1, ram')
<1> DEFINE r == Head(pending)
<1>1. pc = "copy" /\ count # 0
  BY DEF Copy, IInv, SignBitInv
<1>2. Consistent("copy", regs, r, ram)
  BY <1>1 DEF IInv, DecodingInv, Midway, Decompressing
<1>3. PICK n \in 0 .. Length[r.src] - 1 :
        /\ regs.a0 = r.src + n /\ regs.a1 = r.dst + n
        /\ regs.d = regs.a0 + 1 /\ regs.sr = regs.d /\ Placed(r, n, ram)
  BY <1>2 DEF Consistent
<1>4. ram' = [a \in RamAddrs |-> IF a # r.dst + n THEN ram[a] ELSE r.src + n]
  BY <1>3 DEF Copy
<1>5. /\ r.src \in Streams /\ r.dst \in Dests /\ r.src \in Nat /\ r.dst \in Nat
      /\ Length[r.src] \in Nat
  BY <1>1, HeadFacts
<1>6. ASSUME NEW i \in 0 .. n PROVE ram'[r.dst + i] = r.src + i
  <2>1. r.dst + i \in RamAddrs
    <3>1. i \in 0 .. Length[r.src] - 1
      BY <1>3, <1>5
    <3>2. QED
      BY <3>1, <1>5, ConstantFacts
  <2>2. CASE i = n
    BY <2>1, <2>2, <1>4
  <2>3. CASE i # n
    <3>1. i \in 0 .. n - 1 /\ r.dst + i # r.dst + n
      BY <2>3, <1>3, <1>5
    <3>2. ram[r.dst + i] = r.src + i
      BY <3>1, <1>3 DEF Placed
    <3>3. QED
      BY <3>1, <3>2, <2>1, <1>4
  <2>4. QED
    BY <2>2, <2>3
<1>7. Placed(r, n + 1, ram')
  BY <1>6, <1>3, <1>5 DEF Placed
<1>8. QED
  BY <1>3, <1>4, <1>7

(* A unit is written at its place, and the pointers follow.                *)
LEMMA CopyStep == ASSUME IInv, Copy PROVE IInv'
<1> DEFINE r == Head(pending)
<1>1. /\ pc = "copy"
      /\ pc' = IF regs.a0 \in EndOfStream THEN "store_source" ELSE "readbit"
      /\ regs' = [regs EXCEPT !.a0 = regs.a0 + 1, !.a1 = regs.a1 + 1]
      /\ UNCHANGED <<count, slots, saved, bookmark, frame, pending, delivered>>
  BY DEF Copy
<1>2. InProgress /\ count # 0
  BY <1>1 DEF IInv, SignBitInv, Midway, Decompressing
<1>3. PICK n \in 0 .. Length[r.src] - 1 :
        /\ regs.a0 = r.src + n /\ regs.a1 = r.dst + n
        /\ regs.d = regs.a0 + 1 /\ regs.sr = regs.d
        /\ ram' = [a \in RamAddrs |-> IF a # r.dst + n THEN ram[a] ELSE r.src + n]
        /\ Placed(r, n + 1, ram')
  BY CopyPlaces
<1>4. /\ r.src \in Streams /\ r.src \in Nat /\ r.dst \in Nat
      /\ Length[r.src] \in Nat /\ Length[r.src] >= 1
  BY <1>2, HeadFacts
<1>5. /\ regs' \in Regs
      /\ regs'.a0 = r.src + (n + 1) /\ regs'.a1 = r.dst + (n + 1)
      /\ regs'.d = regs'.a0 /\ regs'.sr = regs'.d
  <2>1. regs \in Regs /\ regs.a0 + 1 \in Int /\ regs.a1 + 1 \in Int
    BY DEF IInv, TypeOK, Regs
  <2>2. /\ regs' \in Regs /\ regs'.a0 = regs.a0 + 1 /\ regs'.a1 = regs.a1 + 1
        /\ regs'.d = regs.d /\ regs'.sr = regs.sr
    BY <1>1, <2>1 DEF Regs
  <2>3. QED
    BY <2>1, <2>2, <1>3, <1>4
<1>6. Consistent(pc', regs', r, ram')
  <2>1. CASE regs.a0 \in EndOfStream
    <3>1. n + 1 = Length[r.src]
      BY <2>1, <1>3, <1>4, EndOfStreamIsLast
    <3>2. pc' = "store_source" /\ regs'.a0 = r.src + Length[r.src] /\ Placed(r, Length[r.src], ram')
      BY <3>1, <2>1, <1>1, <1>3, <1>5
    <3>3. QED
      BY <3>2 DEF Consistent
  <2>2. CASE regs.a0 \notin EndOfStream
    <3>1. n + 1 \in 0 .. Length[r.src] - 1
      <4>1. n # Length[r.src] - 1
        BY <2>2, <1>3, <1>4, EndOfStreamIsLast
      <4>2. QED
        BY <4>1, <1>4
    <3>2. pc' = "readbit"
      BY <2>2, <1>1
    <3>3. QED
      BY <3>1, <3>2, <1>3, <1>5 DEF Consistent
  <2>3. QED
    BY <2>1, <2>2
<1>7. TypeOK'
  <2>1. ram' \in [RamAddrs -> Int]
    BY <1>3, <1>4 DEF IInv, TypeOK
  <2>2. QED
    BY <1>1, <1>5, <2>1 DEF IInv, TypeOK, Labels, Decompressing
<1>8. SignBitInv'
  BY <1>1, <1>2 DEF SignBitInv, Midway, Decompressing, Restoring, BackingUp, InProgress
<1>9. SlotsArePending'
  BY <1>1, <1>2 DEF IInv, SlotsArePending, InProgress
<1>10. HeadSlotInv'
  BY <1>1 DEF HeadSlotInv, Restoring, BackingUp
<1>11. DecodingInv'
  BY <1>1, <1>6 DEF DecodingInv
<1>12. ParkingInv'
  BY <1>1 DEF ParkingInv, Restoring, BackingUp
<1>13. QED
  BY <1>7, <1>8, <1>9, <1>10, <1>11, <1>12 DEF IInv

(* Storing the pointers back spoils slot 0, which nothing reads any more.  *)
LEMMA StoreStep == ASSUME IInv, StoreSource \/ StoreDestination PROVE IInv'
<1>1. /\ \/ pc = "store_source" /\ pc' = "store_destination"
            /\ slots' = [slots EXCEPT ![0].src = regs.a0]
         \/ pc = "store_destination" /\ pc' = "clear_sign"
            /\ slots' = [slots EXCEPT ![0].dst = regs.a1]
      /\ UNCHANGED <<count, regs, saved, bookmark, frame, ram, pending, delivered>>
  BY DEF StoreSource, StoreDestination, Goto
<1>2. InProgress
  BY <1>1 DEF IInv, SignBitInv, Midway, Decompressing
<1>3. Consistent(pc', regs, Head(pending), ram)
  <2>1. Consistent(pc, regs, Head(pending), ram)
    BY <1>1 DEF IInv, DecodingInv, Midway, Decompressing
  <2>2. QED
    BY <1>1, <2>1 DEF Consistent
<1>4. TypeOK'
  <2>1. /\ slots' \in [0 .. QueueSize - 1 -> [src : Int, dst : Int]]
        /\ \A i \in 1 .. QueueSize - 1 : slots'[i] = slots[i]
    <3>1. regs.a0 \in Int /\ regs.a1 \in Int /\ slots \in [0 .. QueueSize - 1 -> [src : Int, dst : Int]]
      BY DEF IInv, TypeOK, Regs
    <3>2. 0 \in 0 .. QueueSize - 1 /\ slots[0].src \in Int /\ slots[0].dst \in Int
      BY <3>1, ConstantFacts
    <3>3. PICK e \in [src : Int, dst : Int] : slots' = [slots EXCEPT ![0] = e]
      <4>1. CASE slots' = [slots EXCEPT ![0].src = regs.a0]
        <5>1. [slots[0] EXCEPT !.src = regs.a0] \in [src : Int, dst : Int]
          BY <3>1, <3>2
        <5>2. QED
          BY <4>1, <5>1
      <4>2. CASE slots' = [slots EXCEPT ![0].dst = regs.a1]
        <5>1. [slots[0] EXCEPT !.dst = regs.a1] \in [src : Int, dst : Int]
          BY <3>1, <3>2
        <5>2. QED
          BY <4>2, <5>1
      <4>3. QED
        BY <4>1, <4>2, <1>1
    <3>4. QED
      BY <3>1, <3>3, ConstantFacts
  <2>2. QED
    BY <1>1, <2>1 DEF IInv, TypeOK, Labels, Decompressing
<1>5. SignBitInv'
  BY <1>1, <1>2 DEF IInv, SignBitInv, Midway, Decompressing, Restoring, BackingUp, InProgress
<1>6. SlotsArePending'
  <2>1. \A i \in 1 .. QueueSize - 1 : slots'[i] = slots[i]
    BY <1>1, ConstantFacts DEF IInv, TypeOK
  <2>2. Len(pending) <= QueueSize /\ Len(pending) \in Nat
    BY HeadFacts, <1>1 DEF IInv, SignBitInv
  <2>3. ASSUME NEW i \in 1 .. Len(pending), i > 1 PROVE slots'[i - 1] = pending[i]
    <3>1. i - 1 \in 1 .. QueueSize - 1
      BY <2>2, <2>3, ConstantFacts
    <3>2. slots[i - 1] = pending[i]
      BY <1>1, <2>3 DEF IInv, SlotsArePending
    <3>3. QED
      BY <3>1, <3>2, <2>1
  <2>4. QED
    BY <1>1, <1>2, <2>3 DEF IInv, SlotsArePending, InProgress
<1>7. HeadSlotInv'
  BY <1>1 DEF HeadSlotInv, Restoring, BackingUp
<1>8. DecodingInv'
  BY <1>1, <1>3 DEF DecodingInv
<1>9. ParkingInv'
  BY <1>1 DEF ParkingInv, Restoring, BackingUp
<1>10. QED
  BY <1>4, <1>5, <1>6, <1>7, <1>8, <1>9 DEF IInv

-----------------------------------------------------------------------------
(* The sign bit is set before anything is loaded.                          *)
LEMMA MainStep == ASSUME IInv, Main PROVE IInv'
<1>1. /\ pc = "main" /\ pc' = "source" /\ count' = SetSign(count)
      /\ UNCHANGED <<slots, regs, saved, bookmark, frame, ram, pending, delivered>>
  BY DEF Main, Goto
<1>2. ~InProgress /\ count # 0
  BY <1>1 DEF IInv, SignBitInv, Midway, Decompressing, Restoring, BackingUp
<1>3. /\ count \in 1 .. QueueSize /\ count' = count + SignBit
      /\ count' \in SignBit + 1 .. SignBit + QueueSize
  BY <1>1, <1>2, ConstantFacts DEF IInv, TypeOK, InProgress, SignBit, SetSign
<1>4. InProgress' /\ count' # 0
  BY <1>3, ConstantFacts DEF InProgress, SignBit
<1>5. ClearSign(count') = ClearSign(count)
  BY <1>3, SignArithmetic, ConstantFacts DEF SignBit
<1>6. slots[0] = pending[1]
  BY <1>1, <1>2, HeadFacts DEF IInv, SlotsArePending
<1>7. TypeOK'
  BY <1>1, <1>3 DEF IInv, TypeOK, Labels, Decompressing
<1>8. SignBitInv'
  BY <1>1, <1>4 DEF SignBitInv
<1>9. SlotsArePending'
  BY <1>1, <1>4, <1>5 DEF IInv, SlotsArePending
<1>10. HeadSlotInv'
  BY <1>1, <1>6 DEF HeadSlotInv
<1>11. DecodingInv'
  BY <1>1 DEF DecodingInv, Consistent
<1>12. ParkingInv'
  BY <1>1 DEF ParkingInv, Restoring, BackingUp
<1>13. QED
  BY <1>7, <1>8, <1>9, <1>10, <1>11, <1>12 DEF IInv

(* The sign bit goes when the whole output is in RAM.                      *)
LEMMA ClearInProgressStep == ASSUME IInv, ClearInProgress PROVE IInv'
<1>1. /\ pc = "clear_sign" /\ pc' = "dequeue" /\ count' = ClearSign(count)
      /\ UNCHANGED <<slots, regs, saved, bookmark, frame, ram, pending, delivered>>
  BY DEF ClearInProgress, Goto
<1>2. InProgress /\ count # 0
  BY <1>1 DEF IInv, SignBitInv, Midway, Decompressing
<1>3. count' = Len(pending) /\ count' \in 1 .. QueueSize
  BY <1>1, <1>2, HeadFacts DEF IInv, SlotsArePending
<1>4. ~InProgress' /\ count' # 0 /\ ClearSign(count') = count'
  BY <1>3, SignArithmetic, ConstantFacts DEF InProgress, SignBit
<1>5. Placed(Head(pending), Length[Head(pending).src], ram)
  BY <1>1 DEF IInv, DecodingInv, Midway, Decompressing, Consistent
<1>6. TypeOK'
  BY <1>1, <1>3 DEF IInv, TypeOK, Labels, Decompressing
<1>7. SignBitInv'
  BY <1>1, <1>4 DEF SignBitInv, Midway, Restoring, BackingUp
<1>8. SlotsArePending'
  BY <1>1, <1>3, <1>4 DEF IInv, SlotsArePending
<1>9. HeadSlotInv'
  BY <1>4 DEF HeadSlotInv
<1>10. DecodingInv'
  BY <1>1, <1>5 DEF DecodingInv, Midway
<1>11. ParkingInv'
  BY <1>1 DEF ParkingInv, Restoring, BackingUp
<1>12. QED
  BY <1>6, <1>7, <1>8, <1>9, <1>10, <1>11 DEF IInv

(* The count loses the request that has been served.                       *)
LEMMA DequeueStep == ASSUME IInv, Dequeue PROVE IInv'
<1>1. /\ pc = "dequeue" /\ count' = count - 1 /\ pending' = Tail(pending)
      /\ \/ count = 1 /\ pc' = "game" /\ regs' = JunkRegs
         \/ count # 1 /\ pc' = "shift" /\ regs' = regs
      /\ UNCHANGED <<slots, saved, bookmark, frame, ram>>
  BY DEF Dequeue
<1>2. ~InProgress /\ count # 0
  BY <1>1 DEF IInv, SignBitInv
<1>3. /\ count \in 1 .. QueueSize /\ count = Len(pending)
      /\ ClearSign(count - 1) = count - 1
  BY <1>2, SignArithmetic, ConstantFacts
     DEF IInv, TypeOK, SlotsArePending, InProgress, SignBit
<1>4. ~InProgress' /\ ClearSign(count') = count' /\ count' < QueueSize
  BY <1>1, <1>3, ConstantFacts DEF InProgress, SignBit
<1>5. /\ pending' \in Seq([src : Streams, dst : Dests])
      /\ Len(pending') = count'
      /\ \A i \in 1 .. Len(pending') : pending'[i] = pending[i + 1]
  <2>1. pending # <<>> /\ pending \in Seq([src : Streams, dst : Dests])
    BY <1>2, HeadFacts DEF IInv, TypeOK
  <2>2. QED
    BY <1>1, <1>3, <2>1, TailShifts
<1>6. TypeOK'
  <2>1. count' \in 0 .. QueueSize
    BY <1>1, <1>3, ConstantFacts
  <2>2. regs' \in Regs
    BY <1>1 DEF IInv, TypeOK, JunkRegs, Junk, Regs
  <2>3. QED
    BY <1>1, <1>5, <2>1, <2>2 DEF IInv, TypeOK, Labels, Decompressing
<1>7. SignBitInv'
  BY <1>1, <1>3, <1>4 DEF SignBitInv, Midway, Decompressing, Restoring, BackingUp
<1>8. SlotsArePending'
  <2>1. CASE pc' = "game"
    BY <1>1, <1>4, <1>5, <2>1 DEF SlotsArePending
  <2>2. CASE pc' = "shift"
    <3>1. ASSUME NEW i \in 1 .. Len(pending') PROVE slots[i] = pending'[i]
      <4>1. i + 1 \in 1 .. Len(pending) /\ i + 1 > 1 /\ (i + 1) - 1 = i
        BY <1>1, <1>3, <1>5
      <4>2. slots[(i + 1) - 1] = pending[i + 1]
        BY <4>1, <1>1 DEF IInv, SlotsArePending
      <4>3. QED
        BY <4>1, <4>2, <1>5
    <3>2. QED
      BY <1>1, <1>4, <1>5, <2>2, <3>1 DEF SlotsArePending
  <2>3. QED
    BY <1>1, <2>1, <2>2
<1>9. HeadSlotInv'
  BY <1>4 DEF HeadSlotInv
<1>10. DecodingInv'
  BY <1>1 DEF DecodingInv, Midway, Decompressing
<1>11. ParkingInv'
  BY <1>1, <1>4 DEF ParkingInv, Restoring, BackingUp
<1>12. QED
  BY <1>6, <1>7, <1>8, <1>9, <1>10, <1>11 DEF IInv

(* The slots move up by one: what was next is the oldest.                  *)
LEMMA ShiftStep == ASSUME IInv, Shift PROVE IInv'
<1>1. /\ pc = "shift" /\ pc' = "game" /\ regs' = JunkRegs
      /\ slots' = [i \in 0 .. QueueSize - 1 |-> IF i < QueueSize - 1 THEN slots[i + 1] ELSE slots[i]]
      /\ UNCHANGED <<count, saved, bookmark, frame, ram, pending, delivered>>
  BY DEF Shift, Goto
<1>2. ~InProgress /\ count # 0 /\ count < QueueSize
  BY <1>1 DEF IInv, SignBitInv
<1>3. Len(pending) \in 1 .. QueueSize - 1 /\ ClearSign(count) = Len(pending)
  BY <1>2, HeadFacts, SignArithmetic, ConstantFacts
     DEF IInv, TypeOK, SlotsArePending, InProgress, SignBit
<1>4. TypeOK'
  <2>1. slots' \in [0 .. QueueSize - 1 -> [src : Int, dst : Int]]
    BY <1>1, ConstantFacts DEF IInv, TypeOK
  <2>2. QED
    BY <1>1, <2>1 DEF IInv, TypeOK, Labels, Regs, JunkRegs, Junk
<1>5. SignBitInv'
  BY <1>1 DEF SignBitInv, Midway, Decompressing, Restoring, BackingUp
<1>6. SlotsArePending'
  <2>1. ASSUME NEW i \in 1 .. Len(pending) PROVE slots'[i - 1] = pending[i]
    <3>1. i - 1 \in 0 .. QueueSize - 1 /\ i - 1 < QueueSize - 1 /\ (i - 1) + 1 = i
      BY <1>3, ConstantFacts
    <3>2. slots'[i - 1] = slots[i]
      BY <1>1, <3>1
    <3>3. slots[i] = pending[i]
      BY <1>1 DEF IInv, SlotsArePending
    <3>4. QED
      BY <3>2, <3>3
  <2>2. QED
    BY <1>1, <1>3, <2>1 DEF SlotsArePending
<1>7. HeadSlotInv'
  BY <1>1, <1>2 DEF HeadSlotInv, InProgress
<1>8. DecodingInv'
  BY <1>1 DEF DecodingInv, Midway, Decompressing
<1>9. ParkingInv'
  BY <1>1, <1>2 DEF ParkingInv, Restoring, BackingUp, InProgress
<1>10. QED
  BY <1>4, <1>5, <1>6, <1>7, <1>8, <1>9 DEF IInv

-----------------------------------------------------------------------------
(* The call takes up what was parked, or begins, or returns.               *)
LEMMA ProcessStep == ASSUME IInv, Process_Kos_Queue PROVE IInv'
<1>1. /\ pc = "game" /\ count # 0
      /\ \/ InProgress /\ pc' = "restore_w"
         \/ ~InProgress /\ pc' = "main"
      /\ UNCHANGED <<count, slots, regs, saved, bookmark, frame, ram, pending, delivered>>
  BY DEF Process_Kos_Queue
<1>2. TypeOK'
  BY <1>1 DEF IInv, TypeOK, Labels, Decompressing, Restoring
<1>3. SignBitInv'
  BY <1>1 DEF SignBitInv, Midway, Decompressing, Restoring, BackingUp, InProgress
<1>4. SlotsArePending'
  BY <1>1 DEF IInv, SlotsArePending, InProgress
<1>5. HeadSlotInv'
  BY <1>1 DEF IInv, HeadSlotInv, InProgress, Restoring, BackingUp
<1>6. DecodingInv'
  BY <1>1 DEF DecodingInv, Midway, Decompressing
<1>7. ParkingInv'
  BY <1>1 DEF IInv, ParkingInv, InProgress, Restoring, BackingUp
<1>8. QED
  BY <1>2, <1>3, <1>4, <1>5, <1>6, <1>7 DEF IInv

(* The interrupt only diverts what is between .Main and .Done.             *)
LEMMA SetBookmarkStep == ASSUME IInv, Set_Kos_Bookmark PROVE IInv'
<1>1. /\ InProgress /\ pc \in Decompressing /\ bookmark' = pc /\ pc' = "backup_sr"
      /\ UNCHANGED <<count, slots, regs, saved, frame, ram, pending, delivered>>
  BY DEF Set_Kos_Bookmark
<1>2. pc \in Midway
  BY <1>1 DEF IInv, SignBitInv, Midway
<1>3. count # 0 /\ pc \notin {"game"} \cup Restoring \cup BackingUp
  BY <1>2 DEF IInv, SignBitInv, Midway, Decompressing, Restoring, BackingUp
<1>4. TypeOK'
  BY <1>1 DEF IInv, TypeOK, Labels, BackingUp
<1>5. SignBitInv'
  BY <1>1, <1>3 DEF SignBitInv, Midway, Decompressing, Restoring, BackingUp, InProgress
<1>6. SlotsArePending'
  BY <1>1, <1>2 DEF IInv, SlotsArePending, InProgress, Midway
<1>7. HeadSlotInv'
  BY <1>1, <1>3 DEF IInv, HeadSlotInv, InProgress, BackingUp
<1>8. DecodingInv'
  BY <1>1 DEF DecodingInv, Midway, Decompressing
<1>9. ParkingInv'
  BY <1>1, <1>2 DEF IInv, DecodingInv, ParkingInv, Restoring, BackingUp
<1>10. QED
  BY <1>4, <1>5, <1>6, <1>7, <1>8, <1>9 DEF IInv

(* The registers reach their copies one by one, with nothing decoded.      *)
LEMMA BackupStep == ASSUME IInv, Backup PROVE IInv'
<1>1. /\ \/ /\ pc = "backup_sr" /\ pc' = "backup_w" /\ regs' = regs
            /\ saved' = [saved EXCEPT !.sr = regs.sr]
         \/ /\ pc = "backup_w" /\ pc' = "backup_l" /\ regs' = regs
            /\ saved' = [saved EXCEPT !.d = regs.d]
         \/ /\ pc = "backup_l" /\ pc' = "game" /\ regs' = JunkRegs
            /\ saved' = [saved EXCEPT !.a0 = regs.a0, !.a1 = regs.a1]
      /\ UNCHANGED <<count, slots, bookmark, frame, ram, pending, delivered>>
  BY DEF Backup, BackupSR, BackupWregisters, BackupLregisters, Goto
<1>2. InProgress /\ count # 0
  BY <1>1 DEF IInv, SignBitInv, BackingUp
<1>3. regs \in Regs /\ saved \in Regs /\ regs' \in Regs /\ saved' \in Regs
  <2>1. regs \in Regs /\ saved \in Regs /\ JunkRegs \in Regs
    BY DEF IInv, TypeOK, Regs, JunkRegs, Junk
  <2>2. /\ [saved EXCEPT !.sr = regs.sr] \in Regs
        /\ [saved EXCEPT !.d = regs.d] \in Regs
        /\ [saved EXCEPT !.a0 = regs.a0, !.a1 = regs.a1] \in Regs
    BY <2>1 DEF Regs
  <2>3. QED
    BY <1>1, <2>1, <2>2
<1>4. Consistent(bookmark, regs, Head(pending), ram)
  BY <1>1 DEF IInv, ParkingInv, BackingUp
<1>5. TypeOK'
  BY <1>1, <1>3 DEF IInv, TypeOK, Labels, BackingUp
<1>6. SignBitInv'
  BY <1>1, <1>2 DEF SignBitInv, Midway, Decompressing, Restoring, BackingUp, InProgress
<1>7. SlotsArePending'
  BY <1>1, <1>2 DEF IInv, SlotsArePending, InProgress
<1>8. HeadSlotInv'
  BY <1>1 DEF IInv, HeadSlotInv, InProgress, Restoring, BackingUp
<1>9. DecodingInv'
  BY <1>1 DEF DecodingInv, Midway, Decompressing
<1>10. ParkingInv'
  <2>1. CASE pc' = "game"
    <3>1. saved' = regs
      <4>1. saved.sr = regs.sr /\ saved.d = regs.d
        BY <1>1, <2>1 DEF IInv, ParkingInv
      <4>2. saved' = [saved EXCEPT !.a0 = regs.a0, !.a1 = regs.a1]
        BY <1>1, <2>1
      <4>3. QED
        BY <1>3, <4>1, <4>2 DEF Regs
    <3>2. QED
      BY <1>1, <1>4, <2>1, <3>1 DEF ParkingInv, Restoring, BackingUp
  <2>2. CASE pc' # "game"
    <3>1. /\ pc' \in {"backup_w", "backup_l"} /\ regs' = regs
          /\ saved'.sr = regs.sr
          /\ pc' = "backup_l" => saved'.d = regs.d
      BY <1>1, <1>3, <2>2 DEF IInv, ParkingInv, Regs
    <3>2. QED
      BY <1>1, <1>4, <3>1 DEF ParkingInv, Restoring, BackingUp
  <2>3. QED
    BY <2>1, <2>2
<1>11. QED
  BY <1>5, <1>6, <1>7, <1>8, <1>9, <1>10 DEF IInv

(* They come back the same way, where no interrupt can divert.             *)
LEMMA RestoreStep == ASSUME IInv, Restore PROVE IInv'
<1>1. /\ \/ /\ pc = "restore_w" /\ pc' = "restore_l" /\ frame' = frame
            /\ regs' = [regs EXCEPT !.d = saved.d]
         \/ /\ pc = "restore_l" /\ pc' = "restore_pc" /\ frame' = frame
            /\ regs' = [regs EXCEPT !.a0 = saved.a0, !.a1 = saved.a1]
         \/ /\ pc = "restore_pc" /\ pc' = "restore_sr" /\ regs' = regs
            /\ frame' = [frame EXCEPT !.pc = bookmark]
         \/ /\ pc = "restore_sr" /\ pc' = "rte" /\ regs' = regs
            /\ frame' = [frame EXCEPT !.sr = saved.sr]
         \/ /\ pc = "rte" /\ pc' = frame.pc /\ frame' = frame
            /\ regs' = [regs EXCEPT !.sr = frame.sr]
      /\ UNCHANGED <<count, slots, saved, bookmark, ram, pending, delivered>>
  BY DEF Restore, RestoreWregisters, RestoreLregisters, PushBookmark, PushSR, Rte, Goto
<1>2. pc \in Restoring /\ InProgress /\ count # 0
  BY <1>1 DEF IInv, SignBitInv, Restoring
<1>3. /\ regs \in Regs /\ saved \in Regs
      /\ frame \in [pc : Labels, sr : Int] /\ bookmark \in Labels
  BY DEF IInv, TypeOK
<1>4. Consistent(bookmark, saved, Head(pending), ram) /\ bookmark \in Midway
  BY <1>2, ConsistentLabel DEF IInv, ParkingInv
<1>5. CASE pc = "rte"
  <2>1. pc' = bookmark /\ regs' = saved
    <3>1. /\ frame.pc = bookmark /\ frame.sr = saved.sr /\ regs.d = saved.d
          /\ regs.a0 = saved.a0 /\ regs.a1 = saved.a1
      BY <1>5 DEF IInv, ParkingInv, Restoring
    <3>2. regs' = [regs EXCEPT !.sr = saved.sr]
      BY <1>1, <1>5, <3>1
    <3>3. QED
      BY <1>1, <1>3, <1>5, <3>1, <3>2 DEF Regs
  <2>2. pc' \notin {"game", "main", "dequeue", "shift"} \cup Restoring \cup BackingUp
    BY <1>4, <2>1 DEF Midway, Decompressing, Restoring, BackingUp
  <2>3. TypeOK'
    BY <1>1, <1>3, <1>5, <2>1 DEF IInv, TypeOK
  <2>4. SignBitInv'
    BY <1>1, <1>2, <2>2 DEF SignBitInv, InProgress
  <2>5. SlotsArePending'
    BY <1>1, <1>2, <1>5, <2>2 DEF IInv, SlotsArePending, InProgress
  <2>6. HeadSlotInv'
    BY <1>1, <1>2, <1>5, <2>1, <2>2 DEF IInv, HeadSlotInv, InProgress
  <2>7. DecodingInv'
    BY <1>1, <1>4, <2>1, <2>2 DEF DecodingInv
  <2>8. ParkingInv'
    BY <2>2 DEF ParkingInv, Restoring, BackingUp
  <2>9. QED
    BY <2>3, <2>4, <2>5, <2>6, <2>7, <2>8 DEF IInv
<1>6. CASE pc # "rte"
  <2>1. pc' \in Restoring \ {"restore_w"}
    BY <1>1, <1>6 DEF Restoring
  <2>2. /\ regs' \in Regs /\ frame' \in [pc : Labels, sr : Int]
        /\ regs'.d = saved.d
        /\ pc' \in {"restore_pc", "restore_sr", "rte"} => regs'.a0 = saved.a0 /\ regs'.a1 = saved.a1
        /\ pc' \in {"restore_sr", "rte"} => frame'.pc = bookmark
        /\ pc' = "rte" => frame'.sr = saved.sr
    <3>1. CASE pc = "restore_w"
      BY <1>1, <1>3, <3>1 DEF Regs
    <3>2. CASE pc = "restore_l"
      BY <1>1, <1>3, <3>2 DEF Regs, IInv, ParkingInv, Restoring
    <3>3. CASE pc = "restore_pc"
      BY <1>1, <1>3, <3>3 DEF IInv, ParkingInv, Restoring
    <3>4. CASE pc = "restore_sr"
      <4>1. saved.sr \in Int
        BY <1>3 DEF Regs
      <4>2. QED
        BY <1>1, <1>3, <3>4, <4>1 DEF IInv, ParkingInv, Restoring
    <3>5. QED
      BY <1>1, <1>6, <3>1, <3>2, <3>3, <3>4
  <2>3. TypeOK'
    BY <1>1, <2>1, <2>2 DEF IInv, TypeOK, Labels
  <2>4. SignBitInv'
    BY <1>1, <1>2, <2>1 DEF SignBitInv, InProgress, Restoring
  <2>5. SlotsArePending'
    BY <1>1, <1>2, <2>1 DEF IInv, SlotsArePending, InProgress, Restoring
  <2>6. HeadSlotInv'
    BY <1>1, <1>2, <2>1 DEF IInv, HeadSlotInv, InProgress, Restoring
  <2>7. DecodingInv'
    BY <2>1 DEF DecodingInv, Midway, Decompressing, Restoring
  <2>8. ParkingInv'
    BY <1>1, <1>4, <2>1, <2>2 DEF ParkingInv, BackingUp, Restoring
  <2>9. QED
    BY <2>3, <2>4, <2>5, <2>6, <2>7, <2>8 DEF IInv
<1>7. QED
  BY <1>5, <1>6

-----------------------------------------------------------------------------
(* Queueing behind whatever is there, also while a decompression is parked *)
(* and the sign bit is set.                                                *)
LEMMA QueueStep ==
  ASSUME IInv, NEW s \in Streams, NEW d \in Dests, GameQueues(s, d)
  PROVE  IInv'
<1> DEFINE q == [src |-> s, dst |-> d]
           k == Len(pending)
<1>1. /\ pc = "game" /\ HasRoom /\ count' = count + 1
      /\ slots' = [slots EXCEPT ![SlotOf(count)] = q]
      /\ pending' = Append(pending, q)
      /\ UNCHANGED <<pc, regs, saved, bookmark, frame, ram, delivered>>
  BY DEF GameQueues, Queue_Kos
<1>2. /\ k = ClearSign(count) /\ k \in 0 .. QueueSize - 1 /\ SlotOf(count) = k
  <2>1. count \in 0 .. QueueSize \cup SignBit + 1 .. SignBit + QueueSize
    BY DEF IInv, TypeOK
  <2>2. /\ SlotOf(count) = ClearSign(count) \/ ClearSign(count) >= QueueSize
        /\ ClearSign(count) \in 0 .. QueueSize
    BY <2>1, SignArithmetic
  <2>3. k = ClearSign(count) /\ ClearSign(count) < QueueSize
    BY <1>1 DEF HasRoom, IInv, SlotsArePending
  <2>4. QED
    BY <2>2, <2>3, ConstantFacts
<1>3. /\ count' \in 0 .. QueueSize \cup SignBit + 1 .. SignBit + QueueSize
      /\ ClearSign(count') = k + 1
      /\ InProgress' = InProgress
      /\ count' # 0
  <2>1. count \in 0 .. QueueSize \cup SignBit + 1 .. SignBit + QueueSize
    BY DEF IInv, TypeOK
  <2>2. ClearSign(count) = IF count < SignBit THEN count ELSE count - SignBit
    BY <2>1, SignArithmetic
  <2>3. \/ count \in 0 .. QueueSize - 1 /\ count = k
        \/ count \in SignBit + 1 .. SignBit + QueueSize - 1 /\ count = SignBit + k
    BY <2>1, <2>2, <1>2, ConstantFacts DEF SignBit
  <2>4. /\ count' \in 0 .. QueueSize \cup SignBit + 1 .. SignBit + QueueSize
        /\ count' # 0 /\ (count' >= SignBit <=> count >= SignBit)
        /\ count' = k + 1 \/ count' = SignBit + k + 1
    BY <2>3, <1>1, <1>2, ConstantFacts DEF SignBit
  <2>5. ClearSign(count') = IF count' < SignBit THEN count' ELSE count' - SignBit
    BY <2>4, SignArithmetic
  <2>6. ClearSign(count') = k + 1
    BY <2>3, <2>4, <2>5, <1>1, <1>2, ConstantFacts DEF SignBit
  <2>7. QED
    BY <2>4, <2>6 DEF InProgress
<1>4. InProgress => k >= 1
  BY <1>2, SignArithmetic, ConstantFacts DEF IInv, TypeOK, InProgress, SignBit
<1>5. /\ q \in [src : Streams, dst : Dests]
      /\ pending \in Seq([src : Streams, dst : Dests])
      /\ pending' \in Seq([src : Streams, dst : Dests])
      /\ Len(pending') = k + 1
      /\ \A i \in 1 .. k : pending'[i] = pending[i]
      /\ pending'[k + 1] = q
      /\ k >= 1 => Head(pending') = Head(pending)
  BY <1>1, AppendKeepsHead DEF IInv, TypeOK
<1>6. /\ slots' \in [0 .. QueueSize - 1 -> [src : Int, dst : Int]]
      /\ \A i \in 0 .. QueueSize - 1 : i # k => slots'[i] = slots[i]
      /\ slots'[k] = q
  <2>1. q \in [src : Int, dst : Int]
    BY ConstantFacts
  <2>2. slots \in [0 .. QueueSize - 1 -> [src : Int, dst : Int]]
    BY DEF IInv, TypeOK
  <2>3. QED
    BY <1>1, <1>2, <2>1, <2>2
<1>7. TypeOK'
  BY <1>1, <1>3, <1>5, <1>6 DEF IInv, TypeOK
<1>8. SignBitInv'
  BY <1>1, <1>3 DEF SignBitInv, Midway, Decompressing, Restoring, BackingUp
<1>9. SlotsArePending'
  <2>1. ASSUME NEW i \in 1 .. k + 1, i > 1 \/ ~InProgress
        PROVE  slots'[i - 1] = pending'[i]
    <3>1. CASE i = k + 1
      BY <3>1, <1>2, <1>5, <1>6
    <3>2. CASE i # k + 1
      <4>1. i \in 1 .. k /\ i - 1 \in 0 .. QueueSize - 1 /\ i - 1 # k
        BY <3>2, <1>2, ConstantFacts
      <4>2. slots[i - 1] = pending[i]
        BY <4>1, <2>1, <1>1 DEF IInv, SlotsArePending
      <4>3. QED
        BY <4>1, <4>2, <1>5, <1>6
    <3>3. QED
      BY <3>1, <3>2
  <2>2. QED
    BY <2>1, <1>1, <1>3, <1>5 DEF SlotsArePending
<1>10. HeadSlotInv'
  <2>1. CASE InProgress
    <3>1. slots'[0] = slots[0] /\ pending'[1] = pending[1]
      BY <2>1, <1>2, <1>4, <1>5, <1>6, ConstantFacts
    <3>2. QED
      BY <1>1, <1>3, <3>1 DEF IInv, HeadSlotInv
  <2>2. QED
    BY <2>1, <1>3 DEF HeadSlotInv
<1>11. DecodingInv'
  BY <1>1 DEF DecodingInv, Midway, Decompressing
<1>12. ParkingInv'
  BY <1>1, <1>3, <1>4, <1>5 DEF IInv, ParkingInv, Restoring, BackingUp
<1>13. QED
  BY <1>7, <1>8, <1>9, <1>10, <1>11, <1>12 DEF IInv

-----------------------------------------------------------------------------
(* Nothing changes in a stuttering step.                                   *)
LEMMA StutterStep == ASSUME IInv, UNCHANGED vars PROVE IInv'
BY DEF vars, IInv, TypeOK, SignBitInv, SlotsArePending, HeadSlotInv, DecodingInv, ParkingInv,
       InProgress

(* The invariant is inductive.                                             *)
LEMMA NextIInv == IInv /\ [Next]_vars => IInv'
<1> SUFFICES ASSUME IInv, [Next]_vars PROVE IInv'
  OBVIOUS
<1>1. CASE \E s \in Streams, d \in Dests : GameQueues(s, d)
  BY <1>1, QueueStep
<1>2. CASE Process_Kos_Queue
  BY <1>2, ProcessStep
<1>3. CASE Routine
  BY <1>3, MainStep, LoadSourceStep, LoadDestinationStep, InitDecoderStep, ReadBitStep, CopyStep,
     StoreStep, ClearInProgressStep, DequeueStep, ShiftStep, RestoreStep, BackupStep
     DEF Routine, Decode, Finish
<1>4. CASE Set_Kos_Bookmark
  BY <1>4, SetBookmarkStep
<1>5. CASE UNCHANGED vars
  BY <1>5, StutterStep
<1>6. QED
  BY <1>1, <1>2, <1>3, <1>4, <1>5 DEF Next

(* The inductive invariant of the interruptible decompression queue.       *)
THEOREM InductiveInvariant == Spec => []IInv
<1>1. Init => IInv
  BY InitIInv
<1>2. IInv /\ [Next]_vars => IInv'
  BY NextIInv
<1>3. QED
  BY <1>1, <1>2, PTL DEF Spec

(* Every variable stays in its type; in particular the count word never    *)
(* exceeds the queue, in progress or not, and no slot beyond the queue is  *)
(* written.                                                                *)
THEOREM TypeCorrect == Spec => []TypeOK
<1>1. IInv => TypeOK
  BY DEF IInv
<1>2. QED
  BY <1>1, InductiveInvariant, PTL

(* Whatever instruction the vertical interrupt strikes at, and however     *)
(* often, a decompression it puts aside can be taken up again where it     *)
(* stopped.                                                                *)
THEOREM ParkedStaysResumable == Spec => []ParkedIsResumable
<1>1. IInv => ParkedIsResumable
  <2> SUFFICES ASSUME IInv, InProgress, pc = "game"
               PROVE  pending # <<>> /\ Consistent(bookmark, saved, Head(pending), ram)
    BY DEF ParkedIsResumable
  <2>1. count # 0
    BY DEF InProgress, SignBit
  <2>2. QED
    BY <2>1, HeadFacts DEF IInv, ParkingInv
<1>2. QED
  BY <1>1, InductiveInvariant, PTL

(* The queue's RAM image is the list of unserved requests.                 *)
THEOREM SlotsStayPending == Spec => []SlotsArePending
<1>1. IInv => SlotsArePending
  BY DEF IInv
<1>2. QED
  BY <1>1, InductiveInvariant, PTL

(* No step of the routine, resumed or not, writes outside the area of the  *)
(* oldest request, or anything but the unit that belongs there.            *)
THEOREM DecodingInPlace == Spec => DecodeStaysInPlace
<1>1. ASSUME IInv, [Next]_vars, NEW a \in RamAddrs, ram'[a] # ram[a]
      PROVE  LET r == Head(pending) IN
               /\ pending # <<>>
               /\ a \in r.dst .. r.dst + Length[r.src] - 1
               /\ ram'[a] = r.src + (a - r.dst)
  <2> DEFINE r == Head(pending)
  <2>1. Copy
    BY <1>1 DEF Next, vars, GameQueues, Queue_Kos, Process_Kos_Queue, Routine, Set_Kos_Bookmark,
       Main, LoadSource, LoadDestination, Decode, InitDecoder, ReadBit, Finish, StoreSource,
       StoreDestination, ClearInProgress, Dequeue, Shift, Restore, RestoreWregisters,
       RestoreLregisters, PushBookmark, PushSR, Rte, Backup, BackupSR, BackupWregisters,
       BackupLregisters
  <2>2. count # 0
    BY <2>1, <1>1 DEF Copy, IInv, SignBitInv
  <2>3. PICK n \in 0 .. Length[r.src] - 1 :
          ram' = [x \in RamAddrs |-> IF x # r.dst + n THEN ram[x] ELSE r.src + n]
    BY <1>1, <2>1, CopyPlaces
  <2>4. a = r.dst + n /\ ram'[a] = r.src + n
    BY <1>1, <2>3
  <2>5. QED
    BY <1>1, <2>2, <2>3, <2>4, HeadFacts
<1>2. IInv /\ [Next]_vars =>
        [\A a \in RamAddrs :
           ram'[a] # ram[a] =>
             LET r == Head(pending) IN
               /\ pending # <<>>
               /\ a \in r.dst .. r.dst + Length[r.src] - 1
               /\ ram'[a] = r.src + (a - r.dst)]_vars
  BY <1>1
<1>3. QED
  BY <1>2, InductiveInvariant, PTL DEF Spec, DecodeStaysInPlace

-----------------------------------------------------------------------------
(* Every step of the queue is a step of the FIFO or none.                  *)
LEMMA FifoStep == IInv /\ [Next]_vars => [Fifo!Next]_(Fifo!vars)
<1> SUFFICES ASSUME IInv, [Next]_vars PROVE [Fifo!Next]_(Fifo!vars)
  OBVIOUS
<1>1. CASE \E s \in Streams, d \in Dests : GameQueues(s, d)
  <2>1. PICK s \in Streams, d \in Dests : GameQueues(s, d)
    BY <1>1
  <2> DEFINE q == [src |-> s, dst |-> d]
  <2>2. pending' = Append(pending, q) /\ delivered' = delivered /\ HasRoom
    BY <2>1 DEF GameQueues, Queue_Kos
  <2>3. Len(pending) < QueueSize
    BY <2>2 DEF HasRoom, IInv, SlotsArePending
  <2>4. q \in Fifo!Request
    BY DEF Fifo!Request
  <2>5. Fifo!Enqueue(q)
    BY <2>2, <2>3 DEF Fifo!Enqueue
  <2>6. QED
    BY <2>4, <2>5 DEF Fifo!Next
<1>2. CASE Dequeue
  <2> DEFINE r == Head(pending)
  <2>1. count # 0 /\ Placed(r, Length[r.src], ram)
    BY <1>2 DEF Dequeue, IInv, SignBitInv, DecodingInv
  <2>2. \A i \in 0 .. Length[r.src] - 1 : ram[r.dst + i] = r.src + i
    BY <2>1 DEF Placed
  <2>3. [i \in 0 .. Length[r.src] - 1 |-> ram[r.dst + i]] = Fifo!Decoded(r.src)
    BY <2>2 DEF Fifo!Decoded
  <2>4. /\ pending' = Tail(pending)
        /\ delivered' = Append(delivered, [req |-> r, data |-> Fifo!Decoded(r.src)])
    BY <1>2, <2>3 DEF Dequeue
  <2>5. QED
    BY <2>1, <2>4, HeadFacts DEF Fifo!Next, Fifo!Serve
<1>3. CASE ~Dequeue /\ ~\E s \in Streams, d \in Dests : GameQueues(s, d)
  <2>1. pending' = pending /\ delivered' = delivered
    BY <1>3 DEF Next, vars, Process_Kos_Queue, Routine, Set_Kos_Bookmark,
       Main, LoadSource, LoadDestination, Decode, InitDecoder, ReadBit, Copy, Finish, StoreSource,
       StoreDestination, ClearInProgress, Shift, Restore, RestoreWregisters,
       RestoreLregisters, PushBookmark, PushSR, Rte, Backup, BackupSR, BackupWregisters,
       BackupLregisters
  <2>2. QED
    BY <2>1 DEF Fifo!vars
<1>4. QED
  BY <1>1, <1>2, <1>3

(* The interruptible queue implements the plain bounded FIFO: interrupts,  *)
(* bookmarks and the shifting of slots are invisible to its caller.        *)
THEOREM QueueImplementsFifo == Spec => ImplementsFifo
<1>1. Init => Fifo!Init
  BY DEF Init, Fifo!Init
<1>2. IInv /\ [Next]_vars => [Fifo!Next]_(Fifo!vars)
  BY FifoStep
<1>3. QED
  BY <1>1, <1>2, InductiveInvariant, PTL DEF Spec, ImplementsFifo, Fifo!Spec

-----------------------------------------------------------------------------
(* The instruction the decompression under way stands at, also while it is *)
(* put aside.                                                              *)
Instruction == IF pc \in {"game"} \cup Restoring \cup BackingUp THEN bookmark ELSE pc

(* Kos_decomp_source, once stored back, is the end of the oldest request.  *)
StoredInv ==
  (InProgress /\ Instruction \in {"store_destination", "clear_sign"}) \/ pc = "dequeue" =>
    slots[0].src = Head(pending).src + Length[Head(pending).src]

-----------------------------------------------------------------------------
(* The numbers of the transfers the archives call for.                     *)
NumberedInv ==
  /\ submitted \in Seq([archive : Archives, dst : VramDests, first : Nat])
  /\ Len(submitted) <= MaxArchives
  /\ \A j \in 1 .. Len(submitted) :
       /\ submitted[j].first >= 1 /\ submitted[j].first <= 16 * (j - 1) + 1
       /\ IF j = 1 THEN submitted[j].first = 1 ELSE submitted[j].first = Behind(j - 1)
  /\ \A j, k \in 1 .. Len(submitted) : j < k => Behind(j) <= submitted[k].first

(* The number of words in the last module of an archive.                   *)
LastWords(h) == (Bytes(h) - (ModuleCount(h) - 1) * 4096) \div 2

(* The module of archive j that is transferred next.                       *)
Turn(j) == Len(dma) + 2 - submitted[j].first

(* All archives before the j-th are transferred, and of this one all       *)
(* modules before the one whose turn it is.                                *)
InArchive(j) ==
  IF j = Len(submitted) + 1
    THEN Len(dma) + 1 = NextFirst /\ modulesLeft = 0 /\ mslots[0] = NoEntry
    ELSE LET h == submitted[j].archive
             left == ModuleCount(h) - Turn(j) + 1
         IN  /\ Turn(j) \in 1 .. ModuleCount(h)
             /\ modulesLeft = left \/ modulesLeft = left + SignBit
             /\ lastSize = LastWords(h)
             /\ mslots[0] = [src |-> ModuleStart[h][Turn(j)],
                             dst |-> Word(submitted[j].dst + (Turn(j) - 1) * 4096)]

(* The other archives wait in the slots behind.                            *)
Entry(j) == [src |-> submitted[j].archive, dst |-> submitted[j].dst]
WaitBehind(j) ==
  /\ Len(submitted) < j + ModuleSlots
  /\ \A i \in 1 .. ModuleSlots - 1 :
       mslots[i] = IF j + i <= Len(submitted) THEN Entry(j + i) ELSE NoEntry

(* A module that has been requested is the last in the decompression queue *)
(* or, when that is empty, has been decompressed into the buffer and left  *)
(* its end in Kos_decomp_source.                                           *)
Wanted == [src |-> mslots[0].src, dst |-> Buffer]
RequestedInv ==
  modulesLeft >= SignBit =>
    \/ pending # <<>> /\ pending[Len(pending)] = Wanted
    \/ /\ pending = <<>>
       /\ slots[0].src = Wanted.src + Length[Wanted.src]
       /\ Placed(Wanted, Length[Wanted.src], ram)

(* Every request is one of the program's own or for a module.              *)
CountedInv ==
  /\ direct <= MaxDirect
  /\ Len(pending) + Len(delivered)
       = direct + Len(dma) + (IF modulesLeft >= SignBit THEN 1 ELSE 0)

Unit == [req : [src : Streams, dst : Dests], data : UNION {[0 .. n - 1 -> Int] : n \in Nat}]
Transfer == [dst : VramAddresses, words : 0 .. 2048, data : [RamAddrs -> Int]]
HistoryTypes == delivered \in Seq(Unit) /\ dma \in Seq(Transfer) /\ direct \in Nat

MInv ==
  /\ IInv /\ StoredInv /\ HistoryTypes /\ MTypeOK
  /\ NumberedInv /\ RequestedInv /\ CountedInv /\ TransfersFollowArchives
  /\ \E j \in 1 .. Len(submitted) + 1 : InArchive(j) /\ WaitBehind(j)

-----------------------------------------------------------------------------
(* The steps of the decompression queue that are not a request's.          *)
Decompresses == Process_Kos_Queue \/ Routine \/ Set_Kos_Bookmark

(* The count is zero just if there is nothing to be served.                *)
LEMMA NothingCounted == IInv => (count = 0 <=> pending = <<>>)
<1> SUFFICES ASSUME IInv PROVE count = 0 <=> pending = <<>>
  OBVIOUS
<1>1. ASSUME count = 0 PROVE pending = <<>>
  <2>1. ClearSign(count) = 0
    BY <1>1 DEF ClearSign, SignBit
  <2>2. Len(pending) = 0 /\ pending \in Seq([src : Streams, dst : Dests])
    BY <2>1 DEF IInv, SlotsArePending, TypeOK
  <2>3. QED
    BY <2>2
<1>2. QED
  BY <1>1, HeadFacts

(* They serve somebody, and all but Dequeue leave the requests alone.      *)
LEMMA ServesSomebody ==
  ASSUME IInv, Decompresses
  PROVE  /\ count # 0 /\ pending # <<>>
         /\ Dequeue \/ (pending' = pending /\ delivered' = delivered)
<1>1. count # 0
  BY DEF Decompresses, IInv, SignBitInv, Process_Kos_Queue, Routine, Set_Kos_Bookmark, InProgress, SignBit,
         Main, LoadSource, LoadDestination, Decode, InitDecoder, ReadBit, Copy, Finish, StoreSource,
         StoreDestination, ClearInProgress, Dequeue, Shift, Restore, RestoreWregisters,
         RestoreLregisters, PushBookmark, PushSR, Rte, Backup, BackupSR, BackupWregisters,
         BackupLregisters, Goto
<1>2. pending # <<>>
  BY <1>1, HeadFacts
<1>3. Dequeue \/ (pending' = pending /\ delivered' = delivered)
  BY DEF Decompresses, Process_Kos_Queue, Routine, Set_Kos_Bookmark,
         Main, LoadSource, LoadDestination, Decode, InitDecoder, ReadBit, Copy, Finish, StoreSource,
         StoreDestination, ClearInProgress, Shift, Restore, RestoreWregisters,
         RestoreLregisters, PushBookmark, PushSR, Rte, Backup, BackupSR, BackupWregisters,
         BackupLregisters
<1>4. QED
  BY <1>1, <1>2, <1>3

(* Every step of it is one of the decompression queue, and keeps IInv.     *)
LEMMA DecompressesKeeps ==
  ASSUME IInv, Decompresses
  PROVE  IInv' /\ Next
<1>1. Next
  BY DEF Decompresses, Next
<1>2. QED
  BY <1>1, NextIInv

(* What happens to the instruction and to Kos_decomp_source.               *)
LEMMA DecompressesKeepsStored ==
  ASSUME IInv, StoredInv, Decompresses
  PROVE  StoredInv'
<1> DEFINE Stored == slots[0].src = Head(pending).src + Length[Head(pending).src]
           Still == UNCHANGED <<slots, pending>> /\ (InProgress' => InProgress)
                    /\ Instruction' = Instruction /\ pc' # "dequeue"
<1>1. pc \in Labels /\ bookmark \in Labels
  BY DEF IInv, TypeOK
<1>2. ASSUME Still PROVE StoredInv'
  BY <1>2 DEF StoredInv
<1>3. CASE Dequeue \/ Shift
  <2>1. /\ pc \in {"dequeue", "shift"} /\ pc' # "dequeue"
        /\ count' = count \/ count' = count - 1
    BY <1>3 DEF Dequeue, Shift, Goto
  <2>2. ~InProgress /\ count \in Int
    <3>1. ~InProgress
      BY <2>1 DEF IInv, SignBitInv
    <3>2. QED
      BY <3>1, ConstantFacts DEF IInv, TypeOK, SignBit
  <2>3. ~InProgress'
    BY <2>1, <2>2 DEF InProgress, SignBit
  <2>4. QED
    BY <2>1, <2>3 DEF StoredInv
<1>4. CASE StoreSource
  <2>1. pc = "store_source" /\ pc' = "store_destination" /\ pending' = pending
        /\ slots' = [slots EXCEPT ![0].src = regs.a0]
    BY <1>4 DEF StoreSource, Goto
  <2>2. Consistent(pc, regs, Head(pending), ram)
    BY <2>1 DEF IInv, DecodingInv, Midway, Decompressing
  <2>3. regs.a0 = Head(pending).src + Length[Head(pending).src]
    BY <2>1, <2>2 DEF Consistent
  <2>4. slots'[0].src = regs.a0
    BY <2>1, ConstantFacts DEF IInv, TypeOK
  <2>5. QED
    BY <2>1, <2>3, <2>4 DEF StoredInv
<1>5. CASE StoreDestination \/ ClearInProgress
  <2>1. pc \in {"store_destination", "clear_sign"} /\ pending' = pending
        /\ (slots' = slots \/ slots' = [slots EXCEPT ![0].dst = regs.a1])
    BY <1>5 DEF StoreDestination, ClearInProgress, Goto
  <2>2. InProgress /\ Instruction = pc
    BY <2>1 DEF IInv, SignBitInv, Midway, Decompressing, Instruction, Restoring, BackingUp
  <2>3. Stored
    <3>1. InProgress /\ Instruction \in {"store_destination", "clear_sign"}
      BY <2>1, <2>2
    <3>2. QED
      BY <3>1 DEF StoredInv
  <2>4. slots'[0].src = slots[0].src
    <3>1. slots \in [0 .. QueueSize - 1 -> [src : Int, dst : Int]] /\ 0 \in 0 .. QueueSize - 1
      BY ConstantFacts DEF IInv, TypeOK
    <3>2. CASE slots' = [slots EXCEPT ![0].dst = regs.a1]
      BY <3>1, <3>2
    <3>3. QED
      BY <2>1, <3>2
  <2>5. QED
    BY <2>1, <2>3, <2>4 DEF StoredInv
<1>6. CASE Main \/ LoadSource \/ LoadDestination \/ Decode
  <2>1. pc' \in {"source", "destination", "init", "readbit", "copy", "store_source"}
    BY <1>6 DEF Main, LoadSource, LoadDestination, Decode, InitDecoder, ReadBit, Copy, Goto
  <2>2. Instruction' = pc'
    BY <2>1 DEF Instruction, Restoring, BackingUp
  <2>3. QED
    BY <2>1, <2>2 DEF StoredInv
<1>7. CASE Rte
  <2>1. pc = "rte" /\ pc' = frame.pc /\ UNCHANGED <<count, slots, pending, bookmark>>
    BY <1>7 DEF Rte
  <2>2. InProgress /\ frame.pc = bookmark /\ Consistent(bookmark, saved, Head(pending), ram)
    BY <2>1 DEF IInv, SignBitInv, ParkingInv, Restoring
  <2>3. bookmark \in Midway
    BY <2>2, ConsistentLabel
  <2>4. pc' # "dequeue" /\ Instruction' = bookmark /\ Instruction = bookmark
    BY <2>1, <2>2, <2>3 DEF Midway, Decompressing, Instruction, Restoring
  <2>5. Still
    BY <2>1, <2>4 DEF InProgress
  <2>6. QED
    BY <1>2, <2>5
<1>8. CASE Restore /\ ~Rte
  <2>1. pc \in Restoring /\ pc' \in Restoring /\ UNCHANGED <<count, slots, pending, bookmark>>
    BY <1>8 DEF Restore, RestoreWregisters, RestoreLregisters, PushBookmark, PushSR, Goto, Restoring
  <2>2. Still
    BY <2>1 DEF Instruction, InProgress, Restoring
  <2>3. QED
    BY <1>2, <2>2
<1>9. CASE Backup
  <2>1. pc \in BackingUp /\ pc' \in {"game"} \cup BackingUp /\ UNCHANGED <<count, slots, pending, bookmark>>
    BY <1>9 DEF Backup, BackupSR, BackupWregisters, BackupLregisters, Goto, BackingUp
  <2>2. Still
    BY <2>1 DEF Instruction, InProgress, BackingUp
  <2>3. QED
    BY <1>2, <2>2
<1>10. CASE Set_Kos_Bookmark
  <2>1. pc \in Decompressing /\ InProgress /\ pc' = "backup_sr" /\ bookmark' = pc
        /\ UNCHANGED <<count, slots, pending>>
    BY <1>10 DEF Set_Kos_Bookmark
  <2>2. Instruction = pc /\ Instruction' = pc
    BY <2>1 DEF Instruction, Decompressing, Restoring, BackingUp
  <2>3. Still
    BY <2>1, <2>2 DEF InProgress
  <2>4. QED
    BY <1>2, <2>3
<1>11. CASE Process_Kos_Queue
  <2>1. pc = "game" /\ pc' = (IF InProgress THEN "restore_w" ELSE "main")
        /\ UNCHANGED <<count, slots, pending, bookmark>>
    BY <1>11 DEF Process_Kos_Queue
  <2>2. CASE InProgress
    <3>1. Still
      BY <2>1, <2>2 DEF Instruction, InProgress, Restoring
    <3>2. QED
      BY <1>2, <3>1
  <2>3. CASE ~InProgress
    BY <2>1, <2>3 DEF StoredInv, InProgress
  <2>4. QED
    BY <2>2, <2>3
<1>12. QED
  BY <1>3, <1>4, <1>5, <1>6, <1>7, <1>8, <1>9, <1>10, <1>11
     DEF Decompresses, Routine, Finish

(* Dequeue hands over what was requested.                                  *)
LEMMA DequeueDelivers ==
  ASSUME IInv, delivered \in Seq(Unit), Dequeue
  PROVE  /\ delivered' \in Seq(Unit) /\ Len(delivered') = Len(delivered) + 1
         /\ pending' = Tail(pending) /\ Len(pending') = Len(pending) - 1 /\ Len(pending) \in Nat
         /\ \A i \in 1 .. Len(pending') : pending'[i] = pending[i + 1]
         /\ pending' \in Seq([src : Streams, dst : Dests])
<1> DEFINE r == Head(pending)
           n == Length[r.src]
           d == [i \in 0 .. n - 1 |-> ram[r.dst + i]]
<1>1. count # 0
  BY DEF Dequeue, IInv, SignBitInv
<1>2. r \in [src : Streams, dst : Dests] /\ n \in Nat /\ pending # <<>>
  BY <1>1, HeadFacts
<1>3. d \in [0 .. n - 1 -> Int]
  <2>1. \A i \in 0 .. n - 1 : r.dst + i \in RamAddrs
    BY <1>2, ConstantFacts
  <2>2. ram \in [RamAddrs -> Int]
    BY DEF IInv, TypeOK
  <2>3. QED
    BY <2>1, <2>2
<1>4. [req |-> r, data |-> d] \in Unit
  BY <1>2, <1>3 DEF Unit
<1>5. delivered' = Append(delivered, [req |-> r, data |-> d]) /\ pending' = Tail(pending)
  BY DEF Dequeue
<1>6. delivered' \in Seq(Unit) /\ Len(delivered') = Len(delivered) + 1
  <2> HIDE DEF d, r
  <2>1. QED
    BY <1>4, <1>5, AppendKeepsHead
<1>7. pending \in Seq([src : Streams, dst : Dests])
  BY DEF IInv, TypeOK
<1>8. QED
  BY <1>2, <1>5, <1>6, <1>7, TailShifts

(* A module requested stays the last in the queue, or has been served.     *)
LEMMA DecompressesKeepsRequested ==
  ASSUME IInv, StoredInv, delivered \in Seq(Unit), RequestedInv, Decompresses, UNCHANGED mvars
  PROVE  RequestedInv'
<1>1. Wanted' = Wanted /\ modulesLeft' = modulesLeft
  BY DEF Wanted, mvars
<1>2. SUFFICES ASSUME modulesLeft >= SignBit
               PROVE  \/ pending' # <<>> /\ pending'[Len(pending')] = Wanted
                      \/ /\ pending' = <<>>
                         /\ slots'[0].src = Wanted.src + Length[Wanted.src]
                         /\ Placed(Wanted, Length[Wanted.src], ram')
  BY <1>1 DEF RequestedInv, Placed
<1>3. count # 0 /\ pending # <<>>
  BY ServesSomebody
<1>4. pending[Len(pending)] = Wanted
  BY <1>2, <1>3 DEF RequestedInv
<1>5. CASE ~Dequeue
  <2>1. pending' = pending
    BY <1>5, ServesSomebody
  <2>2. QED
    BY <1>3, <1>4, <2>1
<1>6. CASE Dequeue
  <2>1. /\ Len(pending') = Len(pending) - 1 /\ Len(pending) \in Nat
        /\ \A i \in 1 .. Len(pending') : pending'[i] = pending[i + 1]
        /\ pending' \in Seq([src : Streams, dst : Dests])
    BY <1>6, DequeueDelivers
  <2>2. CASE Len(pending) = 1
    <3>1. Wanted = Head(pending) /\ pending' = <<>>
      BY <1>3, <1>4, <2>1, <2>2, HeadFacts
    <3>2. pc = "dequeue" /\ slots' = slots /\ ram' = ram
      BY <1>6 DEF Dequeue
    <3>3. slots[0].src = Wanted.src + Length[Wanted.src]
      BY <3>1, <3>2 DEF StoredInv
    <3>4. Placed(Wanted, Length[Wanted.src], ram)
      BY <3>1, <3>2 DEF IInv, DecodingInv
    <3>5. QED
      BY <3>1, <3>2, <3>3, <3>4
  <2>3. CASE Len(pending) # 1
    <3>1. Len(pending') \in 1 .. Len(pending') /\ Len(pending') + 1 = Len(pending)
      BY <1>3, <2>1, <2>3, HeadFacts
    <3>2. pending'[Len(pending')] = pending[Len(pending)] /\ pending' # <<>>
      BY <2>1, <3>1
    <3>3. QED
      BY <1>4, <3>2
  <2>4. QED
    BY <2>2, <2>3
<1>7. QED
  BY <1>5, <1>6

(* An archive is in turn, or all are transferred.                          *)
AnArchive == \E j \in 1 .. Len(submitted) + 1 : InArchive(j) /\ WaitBehind(j)
(* What depends on the module queue only stays when that does.             *)
LEMMA ModulesStay ==
  ASSUME UNCHANGED mvars
  PROVE  /\ MTypeOK => MTypeOK'
         /\ NumberedInv => NumberedInv'
         /\ TransfersFollowArchives => TransfersFollowArchives'
         /\ AnArchive => AnArchive'
<1>1. \A j : Behind(j)' = Behind(j) /\ Turn(j)' = Turn(j) /\ Entry(j)' = Entry(j)
  BY DEF mvars, Behind, Turn, Entry
<1>2. NextFirst' = NextFirst
  BY DEF mvars, NextFirst, Behind
<1>3. MTypeOK => MTypeOK'
  BY DEF mvars, MTypeOK
<1>4. NumberedInv => NumberedInv'
  BY <1>1 DEF mvars, NumberedInv
<1>5. TransfersFollowArchives => TransfersFollowArchives'
  <2>1. \A t, j, m : Expected(t, j, m)' <=> Expected(t, j, m)
    BY DEF mvars, Expected
  <2>2. QED
    BY <1>1, <2>1 DEF mvars, TransfersFollowArchives
<1>6. \A j : (InArchive(j)' <=> InArchive(j)) /\ (WaitBehind(j)' <=> WaitBehind(j))
  BY <1>1, <1>2 DEF mvars, InArchive, WaitBehind
<1>7. AnArchive => AnArchive'
  BY <1>6 DEF mvars, AnArchive
<1>8. QED
  BY <1>3, <1>4, <1>5, <1>7

(* The archives queued are a sequence.                                     *)
LEMMA Archived ==
  ASSUME MInv
  PROVE  /\ NumberedInv /\ HistoryTypes /\ MTypeOK /\ Len(submitted) \in Nat
         /\ submitted \in Seq([archive : Archives, dst : VramDests, first : Nat])
<1>1. NumberedInv /\ HistoryTypes /\ MTypeOK
  BY DEF MInv
<1>2. QED
  BY ONLY <1>1 DEF NumberedInv

(* The decompression queue keeps the invariant of the module queue.        *)
LEMMA DecompressorStep == ASSUME MInv, Decompressor PROVE MInv'
<1>1. Decompresses /\ UNCHANGED mvars
  BY DEF Decompressor, Decompresses
<1>2. IInv /\ StoredInv /\ delivered \in Seq(Unit) /\ RequestedInv
  BY DEF MInv, HistoryTypes
<1>3. IInv' /\ StoredInv' /\ RequestedInv'
  BY <1>1, <1>2, DecompressesKeeps, DecompressesKeepsStored, DecompressesKeepsRequested
<1>4. MTypeOK' /\ NumberedInv' /\ TransfersFollowArchives' /\ AnArchive'
  BY <1>1, ModulesStay DEF MInv, AnArchive
<1>5. CASE Dequeue
  <2>1. /\ delivered' \in Seq(Unit) /\ Len(delivered') = Len(delivered) + 1
        /\ Len(pending') = Len(pending) - 1 /\ Len(pending) \in Nat
    BY <1>2, <1>5, DequeueDelivers
  <2>2. HistoryTypes'
    BY <1>1, <2>1 DEF MInv, HistoryTypes, mvars
  <2>3. CountedInv'
    <3>1. Len(pending') + Len(delivered') = Len(pending) + Len(delivered)
      BY <1>2, <2>1
    <3>2. QED
      BY <1>1, <3>1 DEF MInv, CountedInv, mvars
  <2>4. QED
    BY <1>3, <1>4, <2>2, <2>3 DEF MInv, AnArchive
<1>6. CASE ~Dequeue
  <2>1. pending' = pending /\ delivered' = delivered
    BY <1>1, <1>2, <1>6, ServesSomebody
  <2>2. HistoryTypes' /\ CountedInv'
    BY <1>1, <2>1 DEF MInv, HistoryTypes, CountedInv, mvars
  <2>3. QED
    BY <1>3, <1>4, <2>2 DEF MInv, AnArchive
<1>7. QED
  BY <1>5, <1>6

-----------------------------------------------------------------------------
(* The arithmetic of sizes: words are counted in $800s and bytes in $1000s.*)
LEMMA SizesOf ==
  ASSUME NEW w \in Nat, 1 <= w, w <= 32767
  PROVE  \E q, r \in Nat :
           /\ w = 2048 * q + r /\ q <= 15 /\ r <= 2047
           /\ w % 2048 = r /\ (w \div 2048) % 32 = q
           /\ (2 * w + 4095) \div 4096 = IF r = 0 THEN q ELSE q + 1
<1>1. PICK q \in Nat, r \in Nat : q = w \div 2048 /\ r = w % 2048
  OBVIOUS
<1>2. w = 2048 * q + r /\ r <= 2047 /\ q <= 15
  BY <1>1
<1>3. q % 32 = q
  BY <1>2
<1>4. (2 * w + 4095) \div 4096 = IF r = 0 THEN q ELSE q + 1
  <2>1. CASE r = 0
    <3>1. 2 * w + 4095 = 4096 * q + 4095
      BY <1>2, <2>1
    <3>2. (4096 * q + 4095) \div 4096 = q
      OBVIOUS
    <3>3. QED
      BY <2>1, <3>1, <3>2
  <2>2. CASE r # 0
    <3>1. 2 * w + 4095 = 4096 * (q + 1) + (2 * r - 1) /\ 2 * r - 1 >= 0 /\ 2 * r - 1 < 4096
      BY <1>2, <2>2
    <3>2. (4096 * (q + 1) + (2 * r - 1)) \div 4096 = q + 1
      BY <3>1
    <3>3. QED
      BY <2>2, <3>1, <3>2
  <2>3. QED
    BY <2>1, <2>2
<1>5. QED
  BY <1>1, <1>2, <1>3, <1>4

(* An address is rounded up by what is missing to a multiple of $10.       *)
LEMMA Rounded ==
  ASSUME NEW s \in Nat, NEW n \in Nat
  PROVE  s + n + ((s - (s + n)) % 16) = s + RoundUp(n)
<1>1. PICK q \in Nat, r \in Nat : n = 16 * q + r /\ r < 16
  <2>1. n = 16 * (n \div 16) + (n % 16) /\ n % 16 < 16 /\ n % 16 \in Nat /\ n \div 16 \in Nat
    OBVIOUS
  <2>2. QED
    BY <2>1
<1>2. s - (s + n) = -n
  OBVIOUS
<1>3. CASE r = 0
  <2>1. (-n) % 16 = 0 /\ (n + 15) \div 16 = q
    BY <1>1, <1>3
  <2>2. QED
    BY <1>1, <1>2, <1>3, <2>1 DEF RoundUp
<1>4. CASE r # 0
  <2>1. (-n) % 16 = 16 - r /\ (n + 15) \div 16 = q + 1
    BY <1>1, <1>4
  <2>2. QED
    BY <1>1, <1>2, <1>4, <2>1 DEF RoundUp
<1>5. QED
  BY <1>3, <1>4

(* Words add up in sixteen bits.                                           *)
LEMMA WordSum ==
  ASSUME NEW a \in Nat, NEW b \in Nat
  PROVE  /\ Word(Word(a) + b) = Word(a + b)
         /\ Word(a) \in Nat /\ Word(a) < 65536
         /\ a < 65536 => Word(a) = a
<1>1. PICK q \in Nat, r \in Nat : a = 65536 * q + r /\ r < 65536 /\ a % 65536 = r
  OBVIOUS
<1>2. (65536 * q + (r + b)) % 65536 = (r + b) % 65536
  OBVIOUS
<1>3. QED
  BY <1>1, <1>2 DEF Word

(* The count of the modules left, with or without the sign bit.            *)
LEMMA SignOfCount ==
  ASSUME NEW n \in Nat, 1 <= n, n <= 16
  PROVE  /\ SetSign(n) = n + SignBit /\ n < SignBit /\ n + SignBit >= SignBit
         /\ (n + SignBit) % 128 = n
BY DEF SetSign, SignBit

-----------------------------------------------------------------------------
(* The numbers of an archive.                                              *)
LEMMA SizeFacts ==
  ASSUME NEW h \in Archives
  PROVE  \E w, q, r \in Nat :
           /\ Bytes(h) = 2 * w /\ 1 <= w /\ w <= 32767
           /\ w = 2048 * q + r /\ q <= 15 /\ r <= 2047
           /\ Bytes(h) \div 2 = w /\ w % 2048 = r /\ (w \div 2048) % 32 = q
           /\ ModuleCount(h) = IF r = 0 THEN q ELSE q + 1
<1>1. /\ ArchiveSize[h] \in Nat /\ 2 <= ArchiveSize[h] /\ ArchiveSize[h] < 65536
      /\ Bytes(h) % 2 = 0
  BY ArchiveAssumption
<1>2. Bytes(h) \in Nat /\ 2 <= Bytes(h) /\ Bytes(h) < 65536
  BY <1>1 DEF Bytes
<1>3. PICK b \in Nat : b = Bytes(h)
  BY <1>2
<1>4. PICK w \in Nat : b = 2 * w /\ b \div 2 = w
  <2>1. b = 2 * (b \div 2) + (b % 2) /\ b \div 2 \in Nat
    OBVIOUS
  <2>2. QED
    BY <1>1, <1>3, <2>1
<1>5. 1 <= w /\ w <= 32767
  BY <1>2, <1>3, <1>4
<1>6. PICK q \in Nat, r \in Nat :
        /\ w = 2048 * q + r /\ q <= 15 /\ r <= 2047
        /\ w % 2048 = r /\ (w \div 2048) % 32 = q
        /\ (2 * w + 4095) \div 4096 = IF r = 0 THEN q ELSE q + 1
  BY <1>5, SizesOf
<1>7. ModuleCount(h) = IF r = 0 THEN q ELSE q + 1
  BY <1>3, <1>4, <1>6 DEF ModuleCount
<1>8. QED
  BY <1>3, <1>4, <1>5, <1>6, <1>7

(* Where its modules are.                                                  *)
LEMMA ArchiveFacts ==
  ASSUME NEW h \in Archives
  PROVE  /\ h \in Nat /\ h # Free
         /\ ModuleCount(h) \in Nat /\ 1 <= ModuleCount(h) /\ ModuleCount(h) <= 16
         /\ LastWords(h) \in Nat /\ LastWords(h) <= 2048
         /\ ModuleStart[h][1] = h + 2
         /\ \A m \in 1 .. ModuleCount(h) :
              /\ ModuleStart[h][m] \in Streams /\ ModuleStart[h][m] \in Nat
              /\ ModuleStart[h][m] # Free
         /\ \A m \in 2 .. ModuleCount(h) :
              ModuleStart[h][m] = ModuleStart[h][m - 1] + RoundUp(Length[ModuleStart[h][m - 1]])
<1>1. h \in Nat /\ h # Free
  BY ArchiveAssumption
<1>2. PICK w \in Nat, q \in Nat, r \in Nat :
        /\ Bytes(h) = 2 * w /\ 1 <= w /\ w <= 32767
        /\ w = 2048 * q + r /\ q <= 15 /\ r <= 2047
        /\ ModuleCount(h) = IF r = 0 THEN q ELSE q + 1
  BY SizeFacts
<1>3. ModuleCount(h) \in Nat /\ 1 <= ModuleCount(h) /\ ModuleCount(h) <= 16
  BY <1>2
<1>4. LastWords(h) \in Nat /\ LastWords(h) <= 2048
  <2>1. LastWords(h) = (2 * w - (ModuleCount(h) - 1) * 4096) \div 2
    BY <1>2 DEF LastWords
  <2>2. CASE r = 0
    <3>1. 2 * w - (ModuleCount(h) - 1) * 4096 = 2 * 2048
      BY <1>2, <2>2
    <3>2. (2 * 2048) \div 2 = 2048
      OBVIOUS
    <3>3. QED
      BY <2>1, <3>1, <3>2
  <2>3. CASE r # 0
    <3>1. 2 * w - (ModuleCount(h) - 1) * 4096 = 2 * r
      BY <1>2, <2>3
    <3>2. (2 * r) \div 2 = r
      OBVIOUS
    <3>3. QED
      BY <1>2, <2>1, <3>1, <3>2
  <2>4. QED
    BY <2>2, <2>3
<1>5. LaidOut(h, ModuleStart[h])
  BY ArchiveAssumption
<1>6. ASSUME NEW m \in 1 .. ModuleCount(h)
      PROVE  ModuleStart[h][m] \in Streams /\ ModuleStart[h][m] \in Nat
  <2>1. ModuleStart[h] \in [1 .. ModuleCount(h) -> Streams]
    BY <1>5 DEF LaidOut
  <2>2. ModuleStart[h][m] \in Streams
    BY <2>1
  <2>3. QED
    BY <2>2, ConstantFacts
<1>7. ASSUME NEW m \in 2 .. ModuleCount(h)
      PROVE  ModuleStart[h][m] = ModuleStart[h][m - 1] + RoundUp(Length[ModuleStart[h][m - 1]])
  BY <1>5 DEF LaidOut
<1>8. ASSUME NEW m \in 1 .. ModuleCount(h) PROVE ModuleStart[h][m] # Free
  <2>1. CASE m = 1
    <3>1. ModuleStart[h][1] = h + 2
      BY <1>5 DEF LaidOut
    <3>2. QED
      BY <1>1, <2>1, <3>1 DEF Free
  <2>2. CASE m # 1
    <3>1. m \in 2 .. ModuleCount(h) /\ m - 1 \in 1 .. ModuleCount(h)
      BY <1>3, <2>2
    <3>2. PICK s \in Nat, n \in Nat : s = ModuleStart[h][m - 1] /\ n = Length[s] /\ n >= 1
      BY <1>6, <3>1, ConstantFacts
    <3>3. s + RoundUp(n) >= 1
      BY <3>2 DEF RoundUp
    <3>4. QED
      BY <1>7, <3>1, <3>2, <3>3 DEF Free
  <2>3. QED
    BY <2>1, <2>2
<1>9. ModuleStart[h][1] = h + 2
  BY <1>5 DEF LaidOut
<1>10. QED
  BY <1>1, <1>3, <1>4, <1>6, <1>7, <1>8, <1>9

(* What Process_Kos_Module_Queue_Init works out.                           *)
LEMMA Initialised ==
  ASSUME NEW h \in Archives, NEW d, NEW q, Process_Kos_Module_Queue_Init(h, d, q)
  PROVE  /\ modulesLeft' = ModuleCount(h) /\ lastSize' = LastWords(h)
         /\ mslots' = [q EXCEPT ![0] = [src |-> h + 2, dst |-> d]]
<1>1. PICK w \in Nat, u \in Nat, r \in Nat :
        /\ Bytes(h) = 2 * w /\ 1 <= w /\ w <= 32767
        /\ w = 2048 * u + r /\ u <= 15 /\ r <= 2047
        /\ Bytes(h) \div 2 = w /\ w % 2048 = r /\ (w \div 2048) % 32 = u
        /\ ModuleCount(h) = IF r = 0 THEN u ELSE u + 1
  BY SizeFacts
<1>2. /\ modulesLeft' = Word((IF r = 0 THEN u - 1 ELSE u) + 1)
      /\ lastSize' = IF r = 0 THEN 2048 ELSE r
      /\ mslots' = [q EXCEPT ![0] = [src |-> h + 2, dst |-> d]]
  BY <1>1 DEF Process_Kos_Module_Queue_Init, Bytes
<1>3. (IF r = 0 THEN u - 1 ELSE u) + 1 = ModuleCount(h) /\ ModuleCount(h) \in Nat /\ ModuleCount(h) < 65536
  BY <1>1
<1>4. modulesLeft' = ModuleCount(h)
  <2>1. modulesLeft' = Word(ModuleCount(h))
    BY <1>2, <1>3
  <2>2. QED
    BY <1>3, <2>1, WordSum
<1>5. LastWords(h) = IF r = 0 THEN 2048 ELSE r
  <2>1. LastWords(h) = (2 * w - (ModuleCount(h) - 1) * 4096) \div 2
    BY <1>1 DEF LastWords
  <2>2. CASE r = 0
    <3>1. 2 * w - (ModuleCount(h) - 1) * 4096 = 2 * 2048
      BY <1>1, <2>2
    <3>2. (2 * 2048) \div 2 = 2048
      OBVIOUS
    <3>3. QED
      BY <2>1, <2>2, <3>1, <3>2
  <2>3. CASE r # 0
    <3>1. 2 * w - (ModuleCount(h) - 1) * 4096 = 2 * r
      BY <1>1, <2>3
    <3>2. (2 * r) \div 2 = r
      OBVIOUS
    <3>3. QED
      BY <2>1, <2>3, <3>1, <3>2
  <2>4. QED
    BY <2>2, <2>3
<1>6. QED
  BY <1>2, <1>4, <1>5


-----------------------------------------------------------------------------
(* A request queued behind the others.                                     *)
LEMMA RequestQueues ==
  ASSUME IInv, StoredInv, NEW s \in Streams, NEW d \in Dests, GameQueues(s, d)
  PROVE  /\ IInv' /\ StoredInv' /\ Next
         /\ pending' # <<>> /\ pending'[Len(pending')] = [src |-> s, dst |-> d]
         /\ pending \in Seq([src : Streams, dst : Dests])
         /\ Len(pending') = Len(pending) + 1 /\ delivered' = delivered
<1>1. Next
  BY DEF Next
<1>2. IInv'
  BY <1>1, NextIInv
<1>3. /\ pc = "game" /\ ClearSign(count) < QueueSize
      /\ slots' = [slots EXCEPT ![SlotOf(count)] = [src |-> s, dst |-> d]]
      /\ count' = count + 1 /\ pending' = Append(pending, [src |-> s, dst |-> d])
      /\ UNCHANGED <<pc, bookmark, delivered>>
  BY DEF GameQueues, HasRoom, Queue_Kos
<1>4. pending \in Seq([src : Streams, dst : Dests]) /\ [src |-> s, dst |-> d] \in [src : Streams, dst : Dests]
  BY DEF IInv, TypeOK
<1>5. /\ Len(pending') = Len(pending) + 1 /\ pending'[Len(pending) + 1] = [src |-> s, dst |-> d]
      /\ pending # <<>> => Head(pending') = Head(pending)
  <2>1. QED
    BY <1>3, <1>4, AppendKeepsHead
<1>6. pending' # <<>> /\ pending'[Len(pending')] = [src |-> s, dst |-> d]
  BY <1>3, <1>4, <1>5
<1>7. StoredInv'
  <2>1. SUFFICES ASSUME InProgress', Instruction' \in {"store_destination", "clear_sign"}
                 PROVE  slots'[0].src = Head(pending').src + Length[Head(pending').src]
    BY <1>3 DEF StoredInv
  <2>2. count \in 0 .. QueueSize \cup SignBit + 1 .. SignBit + QueueSize
    BY DEF IInv, TypeOK
  <2>3. InProgress /\ count # 0 /\ SlotOf(count) # 0
    BY <1>3, <2>1, <2>2, SignArithmetic, ConstantFacts DEF InProgress, SignBit
  <2>4. Instruction' = Instruction
    BY <1>3 DEF Instruction
  <2>5. slots[0].src = Head(pending).src + Length[Head(pending).src]
    BY <2>1, <2>3, <2>4 DEF StoredInv
  <2>6. Head(pending') = Head(pending)
    BY <1>5, <2>3, HeadFacts
  <2>7. slots'[0] = slots[0]
    BY <1>3, <2>3, ConstantFacts DEF IInv, TypeOK
  <2>8. QED
    BY <2>5, <2>6, <2>7
<1>8. QED
  BY <1>1, <1>2, <1>3, <1>4, <1>5, <1>6, <1>7

(* The elements of a sequence.                                             *)
LEMMA ElementOf ==
  ASSUME NEW S, NEW p \in Seq(S), NEW i \in 1 .. Len(p)
  PROVE  p[i] \in S
OBVIOUS

(* What is known of the archive of which a module is next: its header h,   *)
(* its destination d, the address s of that module, the number f of its    *)
(* first transfer, that it is the turn of module t and that it has c.      *)
InTurn(j, h, d, s, f, t, c) ==
  /\ h = submitted[j].archive /\ d = submitted[j].dst /\ f = submitted[j].first
  /\ t = Turn(j) /\ c = ModuleCount(h) /\ s = ModuleStart[h][t]
  /\ j \in Nat /\ j <= MaxArchives
  /\ 1 <= f /\ f <= 16 * (j - 1) + 1
  /\ 1 <= t /\ t <= c /\ c <= 16
  /\ Len(dma) \in Nat /\ Len(dma) + 2 = f + t
  /\ s \in Nat /\ s # Free /\ Length[s] \in Nat
  /\ lastSize = LastWords(h)
  /\ mslots[0] = [src |-> s, dst |-> Word(d + (t - 1) * 4096)]
  /\ modulesLeft = c - t + 1 \/ modulesLeft = c - t + 1 + SignBit

(* There is such an archive while modules are left to transfer.            *)
LEMMA ArchiveInTurn ==
  ASSUME NumberedInv, HistoryTypes, NEW j \in 1 .. Len(submitted), InArchive(j)
  PROVE  \E h \in Archives, d \in VramDests, s \in Streams, f \in Nat, t \in Nat, c \in Nat :
           InTurn(j, h, d, s, f, t, c)
<1>1. /\ Len(submitted) \in Nat /\ Len(submitted) <= MaxArchives /\ MaxArchives \in Nat
      /\ submitted[j] \in [archive : Archives, dst : VramDests, first : Nat]
  <2>1. submitted \in Seq([archive : Archives, dst : VramDests, first : Nat])
        /\ Len(submitted) <= MaxArchives
    BY DEF NumberedInv
  <2>2. MaxArchives \in Nat
    BY ArchiveAssumption
  <2>3. Len(submitted) \in Nat
    BY <2>1
  <2>4. submitted[j] \in [archive : Archives, dst : VramDests, first : Nat]
    BY <2>1, ElementOf
  <2>5. QED
    BY <2>1, <2>2, <2>3, <2>4
<1>2. PICK h \in Archives, d \in VramDests, f \in Nat :
        h = submitted[j].archive /\ d = submitted[j].dst /\ f = submitted[j].first
  BY <1>1
<1>3. 1 <= f /\ f <= 16 * (j - 1) + 1
  BY <1>2 DEF NumberedInv
<1>4. j # Len(submitted) + 1 /\ j \in Nat /\ j <= MaxArchives
  BY <1>1
<1>5. /\ Turn(j) \in 1 .. ModuleCount(h)
      /\ modulesLeft = ModuleCount(h) - Turn(j) + 1 \/ modulesLeft = ModuleCount(h) - Turn(j) + 1 + SignBit
      /\ lastSize = LastWords(h)
      /\ mslots[0] = [src |-> ModuleStart[h][Turn(j)], dst |-> Word(d + (Turn(j) - 1) * 4096)]
  BY <1>2, <1>4 DEF InArchive
<1>6. PICK t \in Nat, c \in Nat : t = Turn(j) /\ c = ModuleCount(h) /\ 1 <= t /\ t <= c /\ c <= 16
  <2>1. ModuleCount(h) \in Nat /\ ModuleCount(h) <= 16
    BY ArchiveFacts
  <2>2. QED
    BY <1>5, <2>1
<1>7. PICK s \in Streams : s = ModuleStart[h][t] /\ s \in Nat /\ s # Free
  <2>1. \A m \in 1 .. ModuleCount(h) : /\ ModuleStart[h][m] \in Streams /\ ModuleStart[h][m] \in Nat
                                      /\ ModuleStart[h][m] # Free
    BY ArchiveFacts
  <2>2. t \in 1 .. ModuleCount(h)
    BY <1>5, <1>6
  <2>3. QED
    BY <2>1, <2>2
<1>8. Length[s] \in Nat
  BY ConstantFacts
<1>9. Len(dma) \in Nat /\ Len(dma) + 2 = f + t
  BY <1>2, <1>6 DEF HistoryTypes, Turn
<1>10. InTurn(j, h, d, s, f, t, c)
  BY <1>2, <1>3, <1>4, <1>5, <1>6, <1>7, <1>8, <1>9 DEF InTurn
<1>11. QED
  BY <1>10

(* A module is requested: there is room, in the queue and in the bound.    *)
LEMMA RequestIsProper ==
  ASSUME MInv, RequestModule
  PROVE  /\ GameQueues(mslots[0].src, Buffer)
         /\ mslots[0].src \in Streams /\ Buffer \in Dests
         /\ modulesLeft \in 1 .. 16
<1>1. /\ pc = "game" /\ modulesLeft # 0 /\ modulesLeft < SignBit /\ count < QueueSize
      /\ Queue_Kos(mslots[0].src, Buffer)
  BY ConstantFacts DEF RequestModule, QueueFull, MInv, IInv, TypeOK, SignBit
<1>2. PICK j \in 1 .. Len(submitted) + 1 : InArchive(j) /\ WaitBehind(j)
  BY DEF MInv
<1>3. j \in 1 .. Len(submitted)
  BY <1>1, <1>2, Archived DEF InArchive
<1>4. NumberedInv /\ HistoryTypes
  BY DEF MInv
<1>5. PICK h \in Archives, d \in VramDests, s \in Streams, f \in Nat, t \in Nat, c \in Nat :
        InTurn(j, h, d, s, f, t, c)
  BY <1>2, <1>3, <1>4, ArchiveInTurn
<1>6. mslots[0].src \in Streams /\ modulesLeft \in 1 .. 16
  <2>1. modulesLeft \in 1 .. 16
    <3>1. modulesLeft = c - t + 1 \/ modulesLeft = c - t + 1 + SignBit
      BY <1>5 DEF InTurn
    <3>2. 1 <= t /\ t <= c /\ c <= 16
      BY <1>5 DEF InTurn
    <3>3. QED
      BY <1>1, <3>1, <3>2 DEF SignBit
  <2>2. mslots[0].src \in Streams
    BY <1>5 DEF InTurn
  <2>3. QED
    BY <2>1, <2>2
<1>7. Len(pending) + Len(delivered) < MaxRequests
  <2>1. Len(pending) + Len(delivered) = direct + Len(dma) /\ direct <= MaxDirect /\ direct \in Nat
    <3>1. ~(modulesLeft >= SignBit)
      BY <1>6 DEF SignBit
    <3>2. direct \in Nat /\ CountedInv
      BY DEF MInv, HistoryTypes
    <3>3. QED
      BY <3>1, <3>2 DEF CountedInv
  <2>2. 16 * MaxArchives + MaxDirect <= MaxRequests /\ MaxArchives \in Nat /\ MaxDirect \in Nat /\ MaxRequests \in Nat
    BY ArchiveAssumption, QueueAssumption
  <2>3. Len(dma) < 16 * MaxArchives
    <3>1. /\ j \in Nat /\ j <= MaxArchives /\ f <= 16 * (j - 1) + 1 /\ t <= c /\ c <= 16
          /\ Len(dma) \in Nat /\ Len(dma) + 2 = f + t
      BY <1>5 DEF InTurn
    <3>2. QED
      BY ONLY <2>2, <3>1, f \in Nat, t \in Nat, c \in Nat
  <2>4. QED
    BY <1>5, <2>1, <2>2, <2>3 DEF InTurn
<1>8. HasRoom
  <2>1. count \in 0 .. QueueSize \cup SignBit + 1 .. SignBit + QueueSize
    BY DEF MInv, IInv, TypeOK
  <2>2. QED
    BY <1>1, <2>1, SignArithmetic, ConstantFacts DEF HasRoom, SignBit
<1>9. Buffer \in Dests
  BY ArchiveAssumption
<1>10. QED
  BY <1>1, <1>6, <1>7, <1>8, <1>9 DEF GameQueues


-----------------------------------------------------------------------------
(* At first both queues are empty.                                         *)
LEMMA InitMInv == MInit => MInv
<1> SUFFICES ASSUME MInit PROVE MInv
  OBVIOUS
<1>1. /\ Init /\ mslots = [i \in 0 .. ModuleSlots - 1 |-> NoEntry] /\ modulesLeft = 0 /\ lastSize = 0
      /\ submitted = <<>> /\ dma = <<>> /\ direct = 0
  BY DEF MInit
<1>2. ModuleSlots \in Nat /\ ModuleSlots >= 1 /\ MaxArchives \in Nat /\ MaxDirect \in Nat
  BY ArchiveAssumption
<1>3. IInv
  BY <1>1, InitIInv
<1>4. StoredInv /\ delivered = <<>> /\ pending = <<>>
  BY <1>1 DEF StoredInv, Init, InProgress, SignBit
<1>5. HistoryTypes
  BY <1>1, <1>4 DEF HistoryTypes
<1>6. NoEntry \in [src : Nat, dst : VramAddresses]
  BY DEF NoEntry, Free, VramAddresses
<1>7. MTypeOK
  BY <1>1, <1>6 DEF MTypeOK
<1>8. Len(submitted) = 0 /\ Len(dma) = 0 /\ submitted \in Seq([archive : Archives, dst : VramDests, first : Nat])
  BY <1>1
<1>9. NumberedInv
  BY <1>2, <1>8 DEF NumberedInv
<1>10. RequestedInv /\ CountedInv
  BY <1>1, <1>2, <1>4, <1>8 DEF RequestedInv, CountedInv, SignBit
<1>11. TransfersFollowArchives
  BY <1>1 DEF TransfersFollowArchives
<1>12. InArchive(1) /\ WaitBehind(1)
  <2>1. mslots[0] = NoEntry /\ \A i \in 1 .. ModuleSlots - 1 : mslots[i] = NoEntry
    BY <1>1, <1>2
  <2>2. InArchive(1)
    BY <1>1, <1>8, <2>1 DEF InArchive, NextFirst
  <2>3. WaitBehind(1)
    BY <1>2, <1>8, <2>1 DEF WaitBehind
  <2>4. QED
    BY <2>2, <2>3
<1>13. QED
  BY <1>3, <1>4, <1>5, <1>7, <1>8, <1>9, <1>10, <1>11, <1>12 DEF MInv

(* What the history of the archives and the transfers is concerned with.   *)
LEMMA HistoryStays ==
  ASSUME UNCHANGED <<submitted, dma>>
  PROVE  /\ NumberedInv => NumberedInv'
         /\ TransfersFollowArchives => TransfersFollowArchives'
         /\ NextFirst' = NextFirst
         /\ \A j : Behind(j)' = Behind(j) /\ Turn(j)' = Turn(j) /\ Entry(j)' = Entry(j)
<1>1. \A j : Behind(j)' = Behind(j) /\ Turn(j)' = Turn(j) /\ Entry(j)' = Entry(j)
  BY DEF Behind, Turn, Entry
<1>2. NextFirst' = NextFirst
  BY DEF NextFirst, Behind
<1>3. NumberedInv => NumberedInv'
  BY <1>1 DEF NumberedInv
<1>4. TransfersFollowArchives => TransfersFollowArchives'
  <2>1. \A t, j, m : Expected(t, j, m)' <=> Expected(t, j, m)
    BY DEF Expected
  <2>2. QED
    BY <1>1, <2>1 DEF TransfersFollowArchives
<1>5. QED
  BY <1>1, <1>2, <1>3, <1>4

(* The request for a module.                                               *)
LEMMA RequestStep == ASSUME MInv, RequestModule PROVE MInv'
<1>1. /\ modulesLeft' = SetSign(modulesLeft)
      /\ UNCHANGED <<mslots, lastSize, submitted, dma, direct>>
  BY DEF RequestModule
<1>2. /\ GameQueues(mslots[0].src, Buffer)
      /\ mslots[0].src \in Streams /\ Buffer \in Dests /\ modulesLeft \in 1 .. 16
  BY RequestIsProper
<1>3. /\ IInv' /\ StoredInv'
      /\ pending' # <<>> /\ pending'[Len(pending')] = Wanted
      /\ pending \in Seq([src : Streams, dst : Dests])
      /\ Len(pending') = Len(pending) + 1 /\ delivered' = delivered
  BY <1>2, RequestQueues DEF MInv, Wanted
<1>4. modulesLeft' = modulesLeft + SignBit /\ modulesLeft < SignBit /\ modulesLeft' >= SignBit
  BY <1>1, <1>2, SignOfCount
<1>5. HistoryTypes'
  BY <1>1, <1>3 DEF MInv, HistoryTypes
<1>6. MTypeOK'
  BY <1>1, <1>2, <1>4 DEF MInv, MTypeOK, SignBit
<1>7. NumberedInv' /\ TransfersFollowArchives'
  BY <1>1, HistoryStays DEF MInv
<1>8. RequestedInv'
  BY <1>1, <1>3 DEF RequestedInv, Wanted
<1>9. CountedInv'
  <2>1. Len(pending) \in Nat /\ Len(delivered) \in Nat /\ Len(dma) \in Nat /\ direct \in Nat
    BY <1>3 DEF MInv, HistoryTypes
  <2>2. Len(pending) + Len(delivered) = direct + Len(dma) /\ direct <= MaxDirect
    <3>1. ~(modulesLeft >= SignBit)
      BY <1>2, <1>4 DEF SignBit
    <3>2. QED
      BY <2>1, <3>1 DEF MInv, CountedInv
  <2>3. QED
    BY <1>1, <1>3, <1>4, <2>1, <2>2 DEF CountedInv
<1>10. PICK j \in 1 .. Len(submitted) + 1 : InArchive(j) /\ WaitBehind(j)
  BY DEF MInv
<1>11. j \in 1 .. Len(submitted)' + 1 /\ j # Len(submitted) + 1
  BY <1>1, <1>2, <1>10 DEF InArchive
<1>12. WaitBehind(j)'
  BY <1>1, <1>10, HistoryStays DEF WaitBehind
<1>13. InArchive(j)'
  <2>1. PICK h \in Archives, d \in VramDests, s \in Streams, f \in Nat, t \in Nat, c \in Nat :
          InTurn(j, h, d, s, f, t, c)
    <3>1. NumberedInv /\ HistoryTypes /\ j \in 1 .. Len(submitted)
      BY <1>11, Archived
    <3>2. QED
      BY <1>10, <3>1, ArchiveInTurn
  <2>2. modulesLeft = c - t + 1
    <3>1. modulesLeft = c - t + 1 \/ modulesLeft = c - t + 1 + SignBit
      BY <2>1 DEF InTurn
    <3>2. t <= c
      BY <2>1 DEF InTurn
    <3>3. QED
      BY <1>2, <3>1, <3>2 DEF SignBit
  <2>3. modulesLeft' = c - t + 1 + SignBit
    BY <1>4, <2>2
  <2>4. Turn(j)' = Turn(j)
    BY <1>1, HistoryStays
  <2>5. QED
    BY <1>1, <1>10, <1>11, <2>1, <2>3, <2>4 DEF InArchive, InTurn
<1>14. QED
  BY <1>3, <1>5, <1>6, <1>7, <1>8, <1>9, <1>11, <1>12, <1>13 DEF MInv

(* A request of the program's own.                                         *)
LEMMA DirectStep ==
  ASSUME Polite, MInv, NEW s \in DirectStreams, NEW d \in Dests, DirectRequest(s, d)
  PROVE  MInv'
<1>1. /\ direct < MaxDirect /\ modulesLeft < SignBit /\ GameQueues(s, d) /\ direct' = direct + 1
      /\ UNCHANGED <<mslots, modulesLeft, lastSize, submitted, dma>>
  BY DEF DirectRequest
<1>2. s \in Streams /\ MaxDirect \in Nat
  BY ArchiveAssumption
<1>3. /\ IInv' /\ StoredInv'
      /\ pending \in Seq([src : Streams, dst : Dests])
      /\ Len(pending') = Len(pending) + 1 /\ delivered' = delivered
  BY <1>1, <1>2, RequestQueues DEF MInv
<1>4. HistoryTypes'
  BY <1>1, <1>3 DEF MInv, HistoryTypes
<1>5. MTypeOK'
  BY <1>1 DEF MInv, MTypeOK
<1>6. NumberedInv' /\ TransfersFollowArchives'
  BY <1>1, HistoryStays DEF MInv
<1>7. ~(modulesLeft >= SignBit)
  BY <1>1 DEF MInv, MTypeOK, SignBit
<1>8. RequestedInv'
  BY <1>1, <1>7 DEF RequestedInv
<1>9. CountedInv'
  <2>1. Len(pending) \in Nat /\ Len(delivered) \in Nat /\ Len(dma) \in Nat /\ direct \in Nat
    BY <1>3 DEF MInv, HistoryTypes
  <2>2. Len(pending) + Len(delivered) = direct + Len(dma)
    BY <1>7, <2>1 DEF MInv, CountedInv
  <2>3. QED
    BY <1>1, <1>2, <1>3, <1>7, <2>1, <2>2 DEF CountedInv
<1>10. PICK j \in 1 .. Len(submitted) + 1 : InArchive(j) /\ WaitBehind(j)
  BY DEF MInv
<1>11. InArchive(j)' /\ WaitBehind(j)'
  BY <1>1, <1>10, HistoryStays DEF InArchive, WaitBehind
<1>12. QED
  BY <1>1, <1>3, <1>4, <1>5, <1>6, <1>8, <1>9, <1>11 DEF MInv


-----------------------------------------------------------------------------
(* What is handed to the DMA is the module whose turn it is.               *)
LEMMA TransferredIsInTurn ==
  ASSUME MInv, TransferModule
  PROVE  \E j \in 1 .. Len(submitted) :
           \E h \in Archives, d \in VramDests, s \in Streams, f \in Nat, t \in Nat, c \in Nat, x \in Transfer :
             /\ InTurn(j, h, d, s, f, t, c) /\ InArchive(j) /\ WaitBehind(j)
             /\ (modulesLeft % 128) - 1 = c - t
             /\ slots[0].src = s + Length[s]
             /\ x.dst = mslots[0].dst /\ x.words = (IF c = t THEN lastSize ELSE 2048)
             /\ dma' = Append(dma, x) /\ Expected(x, j, t)
<1>1. /\ modulesLeft >= SignBit /\ count = 0
      /\ dma' = Append(dma, [dst |-> mslots[0].dst,
                             words |-> IF (modulesLeft % 128) - 1 = 0 THEN lastSize ELSE 2048,
                             data |-> ram])
  BY DEF TransferModule
<1>2. PICK j \in 1 .. Len(submitted) + 1 : InArchive(j) /\ WaitBehind(j)
  BY DEF MInv
<1>3. Len(submitted) \in Nat /\ NumberedInv /\ HistoryTypes /\ MTypeOK
  BY Archived
<1>4. j \in 1 .. Len(submitted)
  BY <1>1, <1>2, <1>3 DEF InArchive, SignBit
<1>5. PICK h \in Archives, d \in VramDests, s \in Streams, f \in Nat, t \in Nat, c \in Nat :
        InTurn(j, h, d, s, f, t, c)
  BY <1>2, <1>3, <1>4, ArchiveInTurn
<1>6. /\ h = submitted[j].archive /\ d = submitted[j].dst /\ t = Turn(j)
      /\ c = ModuleCount(h) /\ s = ModuleStart[h][t]
      /\ 1 <= t /\ t <= c /\ c <= 16 /\ lastSize = LastWords(h)
      /\ mslots[0] = [src |-> s, dst |-> Word(d + (t - 1) * 4096)]
  BY <1>5 DEF InTurn
<1>7. modulesLeft % 128 = c - t + 1
  <2>1. modulesLeft = c - t + 1 \/ modulesLeft = c - t + 1 + SignBit
    BY <1>5 DEF InTurn
  <2>2. PICK n \in Nat : n = c - t + 1 /\ 1 <= n /\ n <= 16
    BY <1>6
  <2>3. modulesLeft = n + SignBit
    BY <1>1, <2>1, <2>2 DEF SignBit
  <2>4. QED
    BY <2>2, <2>3, SignOfCount
<1>8. slots[0].src = s + Length[s] /\ \A i \in 0 .. Length[s] - 1 : ram[Buffer + i] = s + i
  <2>1. pending = <<>>
    BY <1>1, NothingCounted DEF MInv
  <2>2. /\ slots[0].src = Wanted.src + Length[Wanted.src]
        /\ Placed(Wanted, Length[Wanted.src], ram)
    BY <1>1, <2>1 DEF MInv, RequestedInv
  <2>3. Wanted.src = s /\ Wanted.dst = Buffer
    BY <1>6 DEF Wanted
  <2>4. QED
    BY <2>2, <2>3 DEF Placed
<1> DEFINE size == IF c = t THEN lastSize ELSE 2048
           x == [dst |-> mslots[0].dst, words |-> size, data |-> ram]
<1>9. dma' = Append(dma, x) /\ (modulesLeft % 128) - 1 = c - t
  BY <1>1, <1>6, <1>7
<1>10. x \in Transfer
  <2>1. mslots[0].dst \in VramAddresses
    <3>1. ModuleSlots \in Nat /\ ModuleSlots >= 1
      BY ArchiveAssumption
    <3>2. mslots \in [0 .. ModuleSlots - 1 -> [src : Nat, dst : VramAddresses]]
      BY <1>3 DEF MTypeOK
    <3>3. 0 \in 0 .. ModuleSlots - 1
      BY <3>1
    <3>4. mslots[0] \in [src : Nat, dst : VramAddresses]
      BY <3>2, <3>3
    <3>5. QED
      BY <3>4
  <2>2. size \in 0 .. 2048
    BY <1>3 DEF MTypeOK
  <2>3. ram \in [RamAddrs -> Int]
    BY DEF MInv, IInv, TypeOK
  <2>4. QED
    BY <2>1, <2>2, <2>3 DEF Transfer
<1>11. Expected(x, j, t)
  <2>1. x.dst = Word(submitted[j].dst + (t - 1) * 4096)
    BY <1>6
  <2>2. x.words = IF t < ModuleCount(h) THEN 2048 ELSE (Bytes(h) - (t - 1) * 4096) \div 2
    BY <1>6 DEF LastWords
  <2>3. \A i \in 0 .. Length[s] - 1 : x.data[Buffer + i] = s + i
    BY <1>8
  <2>4. QED
    BY <1>6, <2>1, <2>2, <2>3 DEF Expected
<1>12. QED
  <2>1. x.dst = mslots[0].dst /\ x.words = (IF c = t THEN lastSize ELSE 2048)
    OBVIOUS
  <2> HIDE DEF x
  <2>2. QED
    BY <1>2, <1>4, <1>5, <1>8, <1>9, <1>10, <1>11, <2>1


(* The history of the transfers then still follows the archives.           *)
LEMMA TransferRecorded ==
  ASSUME HistoryTypes, TransfersFollowArchives, UNCHANGED submitted,
         NEW j \in 1 .. Len(submitted), NEW h \in Archives, NEW d, NEW s,
         NEW f \in Nat, NEW t \in Nat, NEW c \in Nat, NEW x \in Transfer,
         InTurn(j, h, d, s, f, t, c), dma' = Append(dma, x), Expected(x, j, t)
  PROVE  /\ dma' \in Seq(Transfer) /\ Len(dma') = Len(dma) + 1
         /\ TransfersFollowArchives'
<1>1. dma \in Seq(Transfer)
  BY DEF HistoryTypes
<1>2. /\ dma' \in Seq(Transfer) /\ Len(dma') = Len(dma) + 1 /\ Len(dma) \in Nat
      /\ \A k \in 1 .. Len(dma) : dma'[k] = dma[k]
      /\ dma'[Len(dma) + 1] = x
  BY <1>1, AppendKeepsHead
<1>3. \A u, i, m : Expected(u, i, m)' <=> Expected(u, i, m)
  BY DEF Expected
<1>4. \A i : Behind(i)' = Behind(i)
  BY DEF Behind
<1>5. ASSUME NEW k \in 1 .. Len(dma')
      PROVE  \E i \in DOMAIN submitted :
               /\ k \in submitted[i].first .. Behind(i) - 1
               /\ Expected(dma'[k], i, k - submitted[i].first + 1)
  <2>1. CASE k # Len(dma) + 1
    <3>1. k \in 1 .. Len(dma) /\ k \in DOMAIN dma
      BY <1>1, <1>2, <2>1
    <3>2. dma'[k] = dma[k]
      BY <1>2, <3>1
    <3>3. QED
      BY <3>1, <3>2 DEF TransfersFollowArchives
  <2>2. CASE k = Len(dma) + 1
    <3>1. f = submitted[j].first /\ c = ModuleCount(submitted[j].archive)
      BY DEF InTurn
    <3>2. Behind(j) = f + c
      BY ONLY <3>1 DEF Behind
    <3>3. k \in f .. Behind(j) - 1 /\ k - f + 1 = t
      <4>1. 1 <= t /\ t <= c /\ Len(dma) + 2 = f + t
        BY DEF InTurn
      <4>2. QED
        BY <1>2, <2>2, <3>2, <4>1
    <3>4. j \in DOMAIN submitted
      BY DEF InTurn
    <3>5. dma'[k] = x
      BY <1>2, <2>2
    <3>6. QED
      BY <3>1, <3>2, <3>3, <3>4, <3>5
  <2>3. QED
    BY <2>1, <2>2
<1>6. DOMAIN dma' = 1 .. Len(dma')
  BY <1>2
<1>7. TransfersFollowArchives'
  BY <1>3, <1>4, <1>5, <1>6 DEF TransfersFollowArchives
<1>8. QED
  BY <1>2, <1>7

(* What is the same in all three cases of a transfer.                      *)
LEMMA TransferKeeps ==
  ASSUME MInv, TransferModule, dma' \in Seq(Transfer), Len(dma') = Len(dma) + 1,
         modulesLeft' \in 0 .. 16
  PROVE  IInv' /\ StoredInv' /\ HistoryTypes' /\ NumberedInv' /\ RequestedInv' /\ CountedInv'
<1>1. modulesLeft >= SignBit /\ UNCHANGED <<vars, submitted, direct>>
  BY DEF TransferModule
<1>2. IInv'
  BY <1>1, NextIInv DEF MInv
<1>3. StoredInv'
  BY <1>1 DEF MInv, StoredInv, Instruction, InProgress, vars
<1>4. HistoryTypes'
  BY <1>1 DEF MInv, HistoryTypes, vars
<1>5. NumberedInv'
  <2>1. \A j : Behind(j)' = Behind(j)
    BY <1>1 DEF Behind
  <2>2. QED
    BY <1>1, <2>1 DEF MInv, NumberedInv
<1>6. ~(modulesLeft' >= SignBit)
  BY DEF SignBit
<1>7. RequestedInv'
  BY <1>6 DEF RequestedInv
<1>8. CountedInv'
  <2>1. Len(pending) + Len(delivered) = direct + Len(dma) + 1 /\ direct <= MaxDirect
    BY <1>1 DEF MInv, CountedInv
  <2>2. Len(dma) \in Nat /\ direct \in Nat
    BY DEF MInv, HistoryTypes
  <2>3. direct + Len(dma) + 1 = direct + Len(dma') + 0
    BY <2>2
  <2>4. pending' = pending /\ delivered' = delivered /\ direct' = direct
    BY <1>1 DEF vars
  <2>5. QED
    BY <1>6, <2>1, <2>3, <2>4 DEF CountedInv
<1>9. QED
  BY <1>2, <1>3, <1>4, <1>5, <1>7, <1>8

(* Slot 0 after it: the archive's next module, or what was in slot 1.      *)
LEMMA ShiftedFirst ==
  ASSUME MTypeOK, NumberedInv, NEW j \in 1 .. Len(submitted), WaitBehind(j)
  PROVE  /\ j < Len(submitted) => ShiftedModules[0] = Entry(j + 1)
         /\ j = Len(submitted) => ShiftedModules[0] = NoEntry
         /\ Len(submitted) < (j + 1) + ModuleSlots
         /\ \A i \in 1 .. ModuleSlots - 1 :
              ShiftedModules[i] = IF (j + 1) + i <= Len(submitted) THEN Entry((j + 1) + i) ELSE NoEntry
<1>1. /\ ModuleSlots \in Nat /\ ModuleSlots >= 1
  BY ArchiveAssumption
<1>2. Len(submitted) \in Nat /\ j \in Nat /\ j <= Len(submitted)
  BY DEF NumberedInv
<1>3. /\ Len(submitted) < j + ModuleSlots
      /\ \A i \in 1 .. ModuleSlots - 1 :
           mslots[i] = IF j + i <= Len(submitted) THEN Entry(j + i) ELSE NoEntry
  BY DEF WaitBehind
<1>4. \A i \in 0 .. ModuleSlots - 1 :
        ShiftedModules[i] = IF i < ModuleSlots - 1 THEN mslots[i + 1] ELSE NoEntry
  BY DEF ShiftedModules
<1>5. ShiftedModules[0] = IF 1 < ModuleSlots THEN mslots[1] ELSE NoEntry
  BY <1>1, <1>4
<1>6. ASSUME j < Len(submitted) PROVE ShiftedModules[0] = Entry(j + 1)
  <2>1. 1 < ModuleSlots /\ 1 \in 1 .. ModuleSlots - 1 /\ j + 1 <= Len(submitted)
    BY <1>1, <1>2, <1>3, <1>6
  <2>2. QED
    BY <1>3, <1>5, <2>1
<1>7. ASSUME j = Len(submitted) PROVE ShiftedModules[0] = NoEntry
  <2>1. CASE 1 < ModuleSlots
    <3>1. 1 \in 1 .. ModuleSlots - 1 /\ ~(j + 1 <= Len(submitted))
      BY <1>1, <1>2, <1>7, <2>1
    <3>2. QED
      BY <1>3, <1>5, <2>1, <3>1
  <2>2. QED
    BY <1>5, <2>1
<1>8. ASSUME NEW i \in 1 .. ModuleSlots - 1
      PROVE  ShiftedModules[i] = IF (j + 1) + i <= Len(submitted) THEN Entry((j + 1) + i) ELSE NoEntry
  <2>1. CASE i < ModuleSlots - 1
    <3>1. i + 1 \in 1 .. ModuleSlots - 1 /\ j + (i + 1) = (j + 1) + i /\ i \in 0 .. ModuleSlots - 1
      BY <1>1, <1>2, <2>1
    <3>2. ShiftedModules[i] = mslots[i + 1]
      BY <1>4, <2>1, <3>1
    <3>3. mslots[i + 1] = IF j + (i + 1) <= Len(submitted) THEN Entry(j + (i + 1)) ELSE NoEntry
      BY <1>3, <3>1
    <3>4. QED
      BY <3>1, <3>2, <3>3
  <2>2. CASE ~(i < ModuleSlots - 1)
    <3>1. i \in 0 .. ModuleSlots - 1 /\ ~((j + 1) + i <= Len(submitted))
      BY <1>1, <1>2, <1>3, <2>2
    <3>2. QED
      BY <1>4, <2>2, <3>1
  <2>3. QED
    BY <2>1, <2>2
<1>9. QED
  BY <1>1, <1>2, <1>3, <1>6, <1>7, <1>8


(* The address of an archive's next module, worked out from where the one  *)
(* before it ended.                                                        *)
LEMMA NextModule ==
  ASSUME NEW h \in Archives, NEW t \in Nat, 1 <= t, t < ModuleCount(h),
         NEW s \in Nat, s = ModuleStart[h][t],
         mslots[0].src = s, slots[0].src = s + Length[s]
  PROVE  /\ NextSource = ModuleStart[h][t + 1] /\ ModuleStart[h][t + 1] \in Nat
<1>1. /\ ModuleCount(h) \in Nat
      /\ \A m \in 1 .. ModuleCount(h) : ModuleStart[h][m] \in Streams /\ ModuleStart[h][m] \in Nat
      /\ \A m \in 2 .. ModuleCount(h) :
           ModuleStart[h][m] = ModuleStart[h][m - 1] + RoundUp(Length[ModuleStart[h][m - 1]])
  BY ArchiveFacts
<1>2. t \in 1 .. ModuleCount(h) /\ t + 1 \in 2 .. ModuleCount(h) /\ t + 1 \in 1 .. ModuleCount(h) /\ (t + 1) - 1 = t
  BY <1>1
<1>3. s \in Streams /\ Length[s] \in Nat
  BY <1>1, <1>2, ConstantFacts
<1>4. ModuleStart[h][t + 1] = s + RoundUp(Length[s])
  BY <1>1, <1>2
<1>5. NextSource = s + Length[s] + ((s - (s + Length[s])) % 16)
  BY DEF NextSource
<1>6. NextSource = s + RoundUp(Length[s])
  BY <1>3, <1>5, Rounded
<1>7. QED
  BY <1>1, <1>2, <1>4, <1>6

(* Where the module behind the t-th goes in VRAM.                          *)
LEMMA NextPlace ==
  ASSUME NEW d \in Nat, NEW t \in Nat, 1 <= t
  PROVE  Word(Word(d + (t - 1) * 4096) + 2 * 2048) = Word(d + ((t + 1) - 1) * 4096)
<1>1. PICK a \in Nat : a = d + (t - 1) * 4096
  OBVIOUS
<1>2. a + 2 * 2048 = d + ((t + 1) - 1) * 4096
  BY <1>1
<1>3. Word(Word(a) + 2 * 2048) = Word(a + 2 * 2048)
  BY WordSum
<1>4. QED
  BY <1>1, <1>2, <1>3

(* Words are VRAM addresses.                                               *)
LEMMA WordsAreAddresses == \A n \in Nat : Word(n) \in VramAddresses
<1> TAKE n \in Nat
<1>1. Word(n) \in Nat /\ Word(n) < 65536
  BY WordSum
<1>2. QED
  BY <1>1 DEF VramAddresses

(* The counts of an archive in the ranges of the variables.                *)
LEMMA CountsInRange ==
  ASSUME NEW h \in Archives
  PROVE  ModuleCount(h) \in 0 .. 16 /\ LastWords(h) \in 0 .. 2048
<1>1. PICK a \in Nat, b \in Nat : a = ModuleCount(h) /\ a <= 16 /\ b = LastWords(h) /\ b <= 2048
  BY ArchiveFacts
<1>2. a \in 0 .. 16
  BY <1>1
<1>3. b \in 0 .. 2048
  BY <1>1
<1>4. QED
  BY <1>1, <1>2, <1>3

(* Slot 0 alone is written.                                                *)
LEMMA FirstReplaced ==
  ASSUME NEW q \in [0 .. ModuleSlots - 1 -> [src : Nat, dst : VramAddresses]],
         NEW e \in [src : Nat, dst : VramAddresses]
  PROVE  /\ [q EXCEPT ![0] = e] \in [0 .. ModuleSlots - 1 -> [src : Nat, dst : VramAddresses]]
         /\ [q EXCEPT ![0] = e][0] = e
         /\ \A i \in 1 .. ModuleSlots - 1 : [q EXCEPT ![0] = e][i] = q[i]
<1>1. ModuleSlots \in Nat /\ ModuleSlots >= 1
  BY ArchiveAssumption
<1>2. 0 \in 0 .. ModuleSlots - 1 /\ \A i \in 1 .. ModuleSlots - 1 : i \in 0 .. ModuleSlots - 1 /\ i # 0
  BY <1>1
<1>3. QED
  BY <1>2

(* A module of the archive is still to come.                               *)
LEMMA TransferWithin ==
  ASSUME MInv, TransferModule, Len(dma') = Len(dma) + 1,
         NEW j \in 1 .. Len(submitted), NEW h \in Archives, NEW d \in VramDests, NEW s \in Streams,
         NEW f \in Nat, NEW t \in Nat, NEW c \in Nat,
         InTurn(j, h, d, s, f, t, c), InArchive(j), WaitBehind(j),
         (modulesLeft % 128) - 1 = c - t, slots[0].src = s + Length[s], t # c
  PROVE  modulesLeft' \in 0 .. 16 /\ MTypeOK' /\ InArchive(j)' /\ WaitBehind(j)' /\ j \in 1 .. Len(submitted') + 1
<1>1. /\ h = submitted[j].archive /\ d = submitted[j].dst /\ f = submitted[j].first
      /\ t = Turn(j) /\ c = ModuleCount(h) /\ s = ModuleStart[h][t]
      /\ 1 <= t /\ t <= c /\ c <= 16 /\ Len(dma) \in Nat /\ Len(dma) + 2 = f + t /\ s \in Nat
      /\ lastSize = LastWords(h)
      /\ mslots[0] = [src |-> s, dst |-> Word(d + (t - 1) * 4096)]
  BY DEF InTurn
<1>2. c - t # 0 /\ c - t \in 0 .. 16
  <2>1. t <= c /\ c <= 16
    BY <1>1
  <2>2. PICK n \in Nat : n = c - t /\ n # 0 /\ n <= 16
    BY ONLY <2>1, t # c, t \in Nat, c \in Nat
  <2>3. n <= 16
    BY <2>2
  <2>4. n \in 0 .. 16
    BY ONLY <2>3, n \in Nat
  <2>5. QED
    BY <2>2, <2>4
<1> DEFINE u == Word(Word(d + (t - 1) * 4096) + 2 * 2048)
<1>3. /\ modulesLeft' = c - t
      /\ mslots' = [mslots EXCEPT ![0] = [src |-> NextSource, dst |-> u]]
      /\ lastSize' = lastSize
  <2>1. \A left : left = (modulesLeft % 128) - 1 /\ left # 0 =>
          /\ modulesLeft' = left
          /\ mslots' = [mslots EXCEPT ![0] =
                          [src |-> NextSource, dst |-> Word(mslots[0].dst + 2 * 2048)]]
          /\ lastSize' = lastSize
    BY DEF TransferModule
  <2>2. mslots[0].dst = Word(d + (t - 1) * 4096)
    BY <1>1
  <2>3. QED
    BY <1>2, <2>1, <2>2
<1>4. submitted' = submitted
  BY DEF TransferModule
<1>5. NextSource = ModuleStart[h][t + 1] /\ ModuleStart[h][t + 1] \in Nat
  <2>1. mslots[0].src = s /\ t < ModuleCount(h) /\ s \in Nat /\ 1 <= t /\ s = ModuleStart[h][t]
    <3>1. t < c
      BY <1>1
    <3>2. QED
      BY <1>1, <3>1
  <2>2. QED
    BY <2>1, NextModule
<1>6. /\ Word(Word(d + (t - 1) * 4096) + 2 * 2048) = Word(d + ((t + 1) - 1) * 4096)
      /\ Word(d + ((t + 1) - 1) * 4096) \in VramAddresses
  <2>1. d \in Nat
    BY ArchiveAssumption DEF VramAddresses
  <2>2. d + ((t + 1) - 1) * 4096 \in Nat
    BY <2>1
  <2>3. 1 <= t
    BY <1>1
  <2>4. QED
    BY <2>1, <2>2, <2>3, NextPlace, WordsAreAddresses
<1> DEFINE n == ModuleStart[h][t + 1]
           v == Word(d + ((t + 1) - 1) * 4096)
           e == [src |-> n, dst |-> v]
<1>7. mslots' = [mslots EXCEPT ![0] = e] /\ e \in [src : Nat, dst : VramAddresses]
  <2>1. NextSource = n /\ u = v /\ n \in Nat /\ v \in VramAddresses
    BY <1>5, <1>6
  <2> HIDE DEF n, u, v
  <2>2. mslots' = [mslots EXCEPT ![0] = [src |-> n, dst |-> v]]
    BY <1>3, <2>1
  <2>3. QED
    BY <2>1, <2>2
<1>8. ModuleSlots \in Nat /\ ModuleSlots >= 1
  BY ArchiveAssumption
<1>9. /\ mslots' \in [0 .. ModuleSlots - 1 -> [src : Nat, dst : VramAddresses]]
      /\ mslots'[0] = e /\ \A i \in 1 .. ModuleSlots - 1 : mslots'[i] = mslots[i]
  <2>1. mslots \in [0 .. ModuleSlots - 1 -> [src : Nat, dst : VramAddresses]]
    BY DEF MInv, MTypeOK
  <2> HIDE DEF e
  <2>2. QED
    BY <1>7, <2>1, FirstReplaced
<1>10. MTypeOK'
  <2>1. lastSize \in 0 .. 2048
    BY DEF MInv, MTypeOK
  <2>2. modulesLeft' \in 0 .. 16 /\ lastSize' \in 0 .. 2048
    BY <1>2, <1>3, <2>1
  <2>3. QED
    BY <1>9, <2>2 DEF MTypeOK
<1>11. Entry(j)' = Entry(j) /\ \A i : Entry(i)' = Entry(i)
  BY <1>4 DEF Entry
<1>12. WaitBehind(j)'
  <2>1. /\ Len(submitted) < j + ModuleSlots
        /\ \A i \in 1 .. ModuleSlots - 1 :
             mslots[i] = IF j + i <= Len(submitted) THEN Entry(j + i) ELSE NoEntry
    BY DEF WaitBehind
  <2>2. \A i \in 1 .. ModuleSlots - 1 : mslots'[i] = mslots[i]
    BY <1>9
  <2>3. QED
    BY ONLY <1>4, <1>11, <2>1, <2>2 DEF WaitBehind
<1>13. InArchive(j)'
  <2>1. Turn(j)' = t + 1 /\ t + 1 \in 1 .. c
    <3>1. f = submitted[j].first
      BY <1>1
    <3>2. Turn(j)' = Len(dma') + 2 - f
      BY <1>4, <3>1 DEF Turn
    <3>3. PICK l \in Nat : l = Len(dma) /\ l + 2 = f + t
      BY <1>1
    <3>4. Len(dma') + 2 - f = t + 1
      <4>1. Len(dma') = l + 1
        BY <3>3
      <4>2. QED
        BY ONLY <3>3, <4>1, f \in Nat, t \in Nat
    <3>5. t + 1 \in 1 .. c
      <4>1. t <= c
        BY <1>1
      <4>2. QED
        BY ONLY <4>1, t # c, t \in Nat, c \in Nat
    <3>6. QED
      BY <3>2, <3>4, <3>5
  <2>2. modulesLeft' = c - (t + 1) + 1
    BY <1>1, <1>3
  <2>3. j # Len(submitted') + 1
    BY <1>4, Archived
  <2>4. QED
    BY <1>1, <1>3, <1>4, <1>9, <2>1, <2>2, <2>3 DEF InArchive
<1>14. QED
  BY <1>2, <1>3, <1>4, <1>10, <1>12, <1>13 DEF MInv, NumberedInv


(* The slots moved up are slots.                                           *)
LEMMA ShiftedTypes ==
  ASSUME MTypeOK
  PROVE  ShiftedModules \in [0 .. ModuleSlots - 1 -> [src : Nat, dst : VramAddresses]]
<1>1. mslots \in [0 .. ModuleSlots - 1 -> [src : Nat, dst : VramAddresses]]
  BY DEF MTypeOK
<1>2. ModuleSlots \in Nat
  BY ArchiveAssumption
<1>3. NoEntry \in [src : Nat, dst : VramAddresses]
  BY DEF NoEntry, Free, VramAddresses
<1>4. \A i \in 0 .. ModuleSlots - 1 : i < ModuleSlots - 1 => i + 1 \in 0 .. ModuleSlots - 1
  BY <1>2
<1>5. QED
  BY <1>1, <1>3, <1>4 DEF ShiftedModules

(* The last module of the last archive: both queues are empty then.        *)
LEMMA TransferLast ==
  ASSUME MInv, TransferModule, Len(dma') = Len(dma) + 1,
         NEW j \in 1 .. Len(submitted), NEW h \in Archives, NEW d \in VramDests, NEW s \in Streams,
         NEW f \in Nat, NEW t \in Nat, NEW c \in Nat,
         InTurn(j, h, d, s, f, t, c), WaitBehind(j),
         (modulesLeft % 128) - 1 = c - t, t = c, j = Len(submitted)
  PROVE  /\ modulesLeft' \in 0 .. 16 /\ MTypeOK'
         /\ InArchive(j + 1)' /\ WaitBehind(j + 1)' /\ j + 1 \in 1 .. Len(submitted') + 1
<1>1. submitted' = submitted /\ Len(submitted) \in Nat /\ j \in Nat
  BY Archived DEF TransferModule
<1>2. (modulesLeft % 128) - 1 = 0
  OBVIOUS
<1>3. /\ ShiftedModules[0] = NoEntry
      /\ Len(submitted) < (j + 1) + ModuleSlots
      /\ \A i \in 1 .. ModuleSlots - 1 :
           ShiftedModules[i] = IF (j + 1) + i <= Len(submitted) THEN Entry((j + 1) + i) ELSE NoEntry
  <2>1. MTypeOK /\ NumberedInv
    BY DEF MInv
  <2>2. QED
    BY <2>1, ShiftedFirst
<1>4. modulesLeft' = 0 /\ mslots' = ShiftedModules /\ lastSize' = lastSize
  <2>1. ~(ShiftedModules[0].src # Free)
    BY <1>3 DEF NoEntry
  <2>2. QED
    BY <1>2, <2>1 DEF TransferModule
<1>5. ShiftedModules \in [0 .. ModuleSlots - 1 -> [src : Nat, dst : VramAddresses]]
  BY ShiftedTypes DEF MInv
<1>6. modulesLeft' \in 0 .. 16 /\ lastSize' \in 0 .. 2048
  BY <1>4 DEF MInv, MTypeOK
<1>7. MTypeOK'
  BY <1>4, <1>5, <1>6 DEF MTypeOK
<1>8. WaitBehind(j + 1)'
  <2>1. \A i : Entry(i)' = Entry(i)
    BY <1>1 DEF Entry
  <2>2. QED
    BY <1>1, <1>3, <1>4, <2>1 DEF WaitBehind
<1>9. Len(dma') + 1 = NextFirst'
  <2>1. submitted # <<>>
    BY <1>1
  <2>2. NextFirst' = submitted[j].first + ModuleCount(submitted[j].archive)
    BY <1>1, <2>1 DEF NextFirst, Behind
  <2>3. submitted[j].first = f /\ ModuleCount(submitted[j].archive) = c
    BY DEF InTurn
  <2>4. PICK l \in Nat : l = Len(dma) /\ l + 2 = f + t
    BY DEF InTurn
  <2>5. Len(dma') + 1 = f + c
    BY <2>4
  <2>6. QED
    BY <2>2, <2>3, <2>5
<1>10. InArchive(j + 1)'
  <2>1. j + 1 = Len(submitted') + 1
    BY <1>1
  <2>2. QED
    BY <1>3, <1>4, <1>9, <2>1 DEF InArchive
<1>11. QED
  BY <1>1, <1>6, <1>7, <1>8, <1>10

(* The last module of an archive behind which another waits.               *)
LEMMA TransferOver ==
  ASSUME MInv, TransferModule, Len(dma') = Len(dma) + 1,
         NEW j \in 1 .. Len(submitted), NEW h \in Archives, NEW d \in VramDests, NEW s \in Streams,
         NEW f \in Nat, NEW t \in Nat, NEW c \in Nat,
         InTurn(j, h, d, s, f, t, c), WaitBehind(j),
         (modulesLeft % 128) - 1 = c - t, t = c, j < Len(submitted)
  PROVE  /\ modulesLeft' \in 0 .. 16 /\ MTypeOK'
         /\ InArchive(j + 1)' /\ WaitBehind(j + 1)' /\ j + 1 \in 1 .. Len(submitted') + 1
<1>1. submitted' = submitted /\ Len(submitted) \in Nat /\ j \in Nat /\ j + 1 \in 1 .. Len(submitted)
  BY Archived DEF TransferModule
<1>2. (modulesLeft % 128) - 1 = 0
  OBVIOUS
<1>3. /\ ShiftedModules[0] = Entry(j + 1)
      /\ Len(submitted) < (j + 1) + ModuleSlots
      /\ \A i \in 1 .. ModuleSlots - 1 :
           ShiftedModules[i] = IF (j + 1) + i <= Len(submitted) THEN Entry((j + 1) + i) ELSE NoEntry
  <2>1. MTypeOK /\ NumberedInv
    BY DEF MInv
  <2>2. QED
    BY <2>1, ShiftedFirst
<1>4. PICK g \in Archives, e \in VramDests : g = submitted[j + 1].archive /\ e = submitted[j + 1].dst
  <2>1. submitted \in Seq([archive : Archives, dst : VramDests, first : Nat])
    BY Archived
  <2>2. submitted[j + 1] \in [archive : Archives, dst : VramDests, first : Nat]
    BY <1>1, <2>1, ElementOf
  <2>3. QED
    BY <2>2
<1>5. ShiftedModules[0] = [src |-> g, dst |-> e]
  BY <1>3, <1>4 DEF Entry
<1>6. g \in Nat /\ g # Free /\ ModuleCount(g) \in Nat /\ 1 <= ModuleCount(g) /\ ModuleCount(g) <= 16
      /\ ModuleStart[g][1] = g + 2 /\ LastWords(g) \in Nat /\ LastWords(g) <= 2048
  BY ArchiveFacts
<1>7. Process_Kos_Module_Queue_Init(g, e, ShiftedModules)
  <2>1. ShiftedModules[0].src = g /\ ShiftedModules[0].dst = e
    BY <1>5
  <2>2. Process_Kos_Module_Queue_Init(ShiftedModules[0].src, ShiftedModules[0].dst, ShiftedModules)
    BY <1>2, <1>6, <2>1 DEF TransferModule
  <2>3. QED
    BY <2>1, <2>2
<1> DEFINE n == [src |-> g + 2, dst |-> e]
<1>8. modulesLeft' = ModuleCount(g) /\ lastSize' = LastWords(g) /\ mslots' = [ShiftedModules EXCEPT ![0] = n]
  BY <1>7, Initialised
<1>9. e \in Nat /\ e < 65536 /\ n \in [src : Nat, dst : VramAddresses]
  <2>1. e \in VramAddresses
    BY ArchiveAssumption
  <2>2. QED
    BY <1>6, <2>1 DEF VramAddresses
<1>10. ModuleSlots \in Nat /\ ModuleSlots >= 1
  BY ArchiveAssumption
<1>11. /\ mslots' \in [0 .. ModuleSlots - 1 -> [src : Nat, dst : VramAddresses]]
       /\ mslots'[0] = n /\ \A i \in 1 .. ModuleSlots - 1 : mslots'[i] = ShiftedModules[i]
  <2>1. ShiftedModules \in [0 .. ModuleSlots - 1 -> [src : Nat, dst : VramAddresses]]
    BY ShiftedTypes DEF MInv
  <2> HIDE DEF n
  <2>2. mslots' = [ShiftedModules EXCEPT ![0] = n] /\ n \in [src : Nat, dst : VramAddresses]
    BY <1>8, <1>9
  <2>3. QED
    BY ONLY <2>1, <2>2, FirstReplaced
<1>12. modulesLeft' \in 0 .. 16 /\ lastSize' \in 0 .. 2048
  <2>1. ModuleCount(g) \in 0 .. 16 /\ LastWords(g) \in 0 .. 2048
    BY CountsInRange
  <2>2. modulesLeft' = ModuleCount(g) /\ lastSize' = LastWords(g)
    BY <1>8
  <2>3. QED
    BY ONLY <2>1, <2>2
<1>13. MTypeOK'
  BY <1>11, <1>12 DEF MTypeOK
<1>14. WaitBehind(j + 1)'
  <2>1. \A i : Entry(i)' = Entry(i)
    BY <1>1 DEF Entry
  <2>2. QED
    BY <1>1, <1>3, <1>11, <2>1 DEF WaitBehind
<1>15. Turn(j + 1)' = 1
  <2>1. submitted[j + 1].first = submitted[j].first + ModuleCount(submitted[j].archive)
    <3>1. j + 1 # 1 /\ (j + 1) - 1 = j
      BY <1>1
    <3>2. NumberedInv
      BY DEF MInv
    <3>3. submitted[j + 1].first = Behind((j + 1) - 1)
      BY <1>1, <3>1, <3>2 DEF NumberedInv
    <3>4. QED
      BY <3>1, <3>3 DEF Behind
  <2>2. submitted[j].first = f /\ ModuleCount(submitted[j].archive) = c
    BY DEF InTurn
  <2>3. PICK l \in Nat : l = Len(dma) /\ l + 2 = f + t
    BY DEF InTurn
  <2>4. Len(dma') + 2 - (f + c) = 1
    BY <2>3
  <2>5. Turn(j + 1)' = Len(dma') + 2 - submitted[j + 1].first
    BY <1>1 DEF Turn
  <2>6. QED
    BY <2>1, <2>2, <2>4, <2>5
<1>16. InArchive(j + 1)'
  <2>1. j + 1 # Len(submitted') + 1
    BY <1>1
  <2>2. Word(e + (1 - 1) * 4096) = e
    <3>1. Word(e) = e
      BY ONLY <1>9, WordSum
    <3>2. e + (1 - 1) * 4096 = e
      BY ONLY <1>9
    <3>3. QED
      BY ONLY <3>1, <3>2
  <2>3. mslots'[0] = [src |-> ModuleStart[g][1], dst |-> Word(e + (1 - 1) * 4096)]
    BY <1>6, <1>11, <2>2
  <2>4. modulesLeft' = ModuleCount(g) - 1 + 1 /\ 1 \in 1 .. ModuleCount(g)
    BY <1>6, <1>8
  <2>5. submitted'[j + 1].archive = g /\ submitted'[j + 1].dst = e
    BY <1>1, <1>4
  <2>6. /\ Turn(j + 1)' \in 1 .. ModuleCount(g)
        /\ modulesLeft' = ModuleCount(g) - Turn(j + 1)' + 1
        /\ mslots'[0] = [src |-> ModuleStart[g][Turn(j + 1)'],
                         dst |-> Word(e + (Turn(j + 1)' - 1) * 4096)]
    BY <1>15, <2>3, <2>4
  <2>7. lastSize' = LastWords(g)
    BY <1>8
  <2>8. QED
    BY ONLY <2>1, <2>5, <2>6, <2>7 DEF InArchive
<1>17. QED
  BY <1>1, <1>12, <1>13, <1>14, <1>16


(* A transfer keeps the invariant.                                         *)
LEMMA TransferStep == ASSUME MInv, TransferModule PROVE MInv'
<1>1. PICK j \in 1 .. Len(submitted) :
        \E h \in Archives, d \in VramDests, s \in Streams, f \in Nat, t \in Nat, c \in Nat, x \in Transfer :
          /\ InTurn(j, h, d, s, f, t, c) /\ InArchive(j) /\ WaitBehind(j)
          /\ (modulesLeft % 128) - 1 = c - t
          /\ slots[0].src = s + Length[s]
          /\ x.dst = mslots[0].dst /\ x.words = (IF c = t THEN lastSize ELSE 2048)
          /\ dma' = Append(dma, x) /\ Expected(x, j, t)
  BY TransferredIsInTurn
<1>2. PICK h \in Archives, d \in VramDests, s \in Streams, f \in Nat, t \in Nat, c \in Nat, x \in Transfer :
        /\ InTurn(j, h, d, s, f, t, c) /\ InArchive(j) /\ WaitBehind(j)
        /\ (modulesLeft % 128) - 1 = c - t
        /\ slots[0].src = s + Length[s]
        /\ dma' = Append(dma, x) /\ Expected(x, j, t)
  BY <1>1
<1>3. dma' \in Seq(Transfer) /\ Len(dma') = Len(dma) + 1 /\ TransfersFollowArchives'
  <2>1. UNCHANGED submitted
    BY DEF TransferModule
  <2>2. HistoryTypes /\ TransfersFollowArchives
    BY DEF MInv
  <2>3. QED
    BY <1>2, <2>1, <2>2, TransferRecorded
<1>4. \E i \in 1 .. Len(submitted') + 1 :
        modulesLeft' \in 0 .. 16 /\ MTypeOK' /\ InArchive(i)' /\ WaitBehind(i)'
  <2>1. CASE t # c
    BY <1>2, <1>3, <2>1, TransferWithin
  <2>2. CASE t = c /\ j = Len(submitted)
    <3>1. /\ modulesLeft' \in 0 .. 16 /\ MTypeOK'
          /\ InArchive(j + 1)' /\ WaitBehind(j + 1)' /\ j + 1 \in 1 .. Len(submitted') + 1
      BY <1>2, <1>3, <2>2, TransferLast
    <3>2. QED
      BY <3>1
  <2>3. CASE t = c /\ j < Len(submitted)
    <3>1. /\ modulesLeft' \in 0 .. 16 /\ MTypeOK'
          /\ InArchive(j + 1)' /\ WaitBehind(j + 1)' /\ j + 1 \in 1 .. Len(submitted') + 1
      BY <1>2, <1>3, <2>3, TransferOver
    <3>2. QED
      BY <3>1
  <2>4. j = Len(submitted) \/ j < Len(submitted)
    BY Archived
  <2>5. QED
    BY <2>1, <2>2, <2>3, <2>4
<1>5. IInv' /\ StoredInv' /\ HistoryTypes' /\ NumberedInv' /\ RequestedInv' /\ CountedInv'
  BY <1>3, <1>4, TransferKeeps
<1>6. \E i \in (1 .. Len(submitted) + 1)' : InArchive(i)' /\ WaitBehind(i)'
  BY <1>4
<1>7. QED
  BY <1>3, <1>4, <1>5, <1>6 DEF MInv

-----------------------------------------------------------------------------
(* An archive queued is numbered from behind the one before it.            *)
LEMMA NumberingGrows ==
  ASSUME NumberedInv, TransfersFollowArchives, NEW h \in Archives, NEW d \in VramDests, UNCHANGED dma,
         Len(submitted) < MaxArchives,
         submitted' = Append(submitted, [archive |-> h, dst |-> d, first |-> NextFirst])
  PROVE  /\ NumberedInv' /\ TransfersFollowArchives'
         /\ Len(submitted) \in Nat /\ Len(submitted') = Len(submitted) + 1
         /\ \A i \in 1 .. Len(submitted) : submitted'[i] = submitted[i]
         /\ submitted'[Len(submitted) + 1] = [archive |-> h, dst |-> d, first |-> NextFirst]
         /\ NextFirst \in Nat
<1> DEFINE n == Len(submitted)
           E == [archive : Archives, dst : VramDests, first : Nat]
           e == [archive |-> h, dst |-> d, first |-> NextFirst]
<1>1. submitted \in Seq(E) /\ n \in Nat /\ MaxArchives \in Nat
  <2>1. submitted \in Seq(E)
    BY DEF NumberedInv
  <2>2. MaxArchives \in Nat
    BY ArchiveAssumption
  <2>3. QED
    BY <2>1, <2>2
<1>2. /\ \A j \in 1 .. n : /\ submitted[j].first >= 1 /\ submitted[j].first <= 16 * (j - 1) + 1
                           /\ IF j = 1 THEN submitted[j].first = 1 ELSE submitted[j].first = Behind(j - 1)
      /\ \A j, k \in 1 .. n : j < k => Behind(j) <= submitted[k].first
  BY DEF NumberedInv
<1>3. \A j \in 1 .. n : /\ submitted[j].first \in Nat /\ submitted[j].archive \in Archives
                        /\ ModuleCount(submitted[j].archive) \in Nat
                        /\ 1 <= ModuleCount(submitted[j].archive) /\ ModuleCount(submitted[j].archive) <= 16
                        /\ Behind(j) = submitted[j].first + ModuleCount(submitted[j].archive)
  <2> TAKE j \in 1 .. n
  <2>1. submitted[j] \in E
    BY <1>1, ElementOf
  <2>2. submitted[j].first \in Nat /\ submitted[j].archive \in Archives
    BY <2>1
  <2>3. QED
    BY <2>2, ArchiveFacts DEF Behind
<1>4. \A j \in 1 .. n : Behind(j) \in Nat /\ Behind(j) >= 1 /\ Behind(j) <= 16 * j + 1 /\ submitted[j].first <= Behind(j)
  <2> TAKE j \in 1 .. n
  <2>1. PICK f \in Nat, c \in Nat : f = submitted[j].first /\ c = ModuleCount(submitted[j].archive)
                                    /\ 1 <= c /\ c <= 16 /\ Behind(j) = f + c
    BY <1>3
  <2>2. f <= 16 * (j - 1) + 1
    BY <1>2, <2>1
  <2>3. f + c <= 16 * j + 1 /\ f + c >= 1 /\ f <= f + c /\ f + c \in Nat
    <3>1. j \in Nat /\ c <= 16 /\ 1 <= c
      BY <2>1
    <3>2. QED
      BY ONLY <2>2, <3>1, f \in Nat, c \in Nat
  <2>4. QED
    BY <2>1, <2>3
<1>5. /\ NextFirst \in Nat /\ NextFirst >= 1 /\ NextFirst <= 16 * n + 1
      /\ NextFirst = IF n = 0 THEN 1 ELSE Behind(n)
  <2>1. submitted = <<>> <=> n = 0
    BY <1>1
  <2>2. n # 0 => n \in 1 .. n
    BY <1>1
  <2>3. QED
    BY <1>1, <1>4, <2>1, <2>2 DEF NextFirst
<1>6. /\ submitted' \in Seq(E) /\ Len(submitted') = n + 1
      /\ \A i \in 1 .. n : submitted'[i] = submitted[i]
      /\ submitted'[n + 1] = e
  <2>1. e \in E
    BY <1>5
  <2> HIDE DEF e, E
  <2>2. submitted' = Append(submitted, e)
    BY DEF e
  <2>3. QED
    BY <1>1, <2>1, <2>2, AppendKeepsHead
<1>7. \A j \in 1 .. n : Behind(j)' = Behind(j)
  BY <1>6 DEF Behind
<1>8. ASSUME NEW j \in 1 .. n + 1
      PROVE  /\ submitted'[j].first >= 1 /\ submitted'[j].first <= 16 * (j - 1) + 1
             /\ IF j = 1 THEN submitted'[j].first = 1 ELSE submitted'[j].first = Behind(j - 1)'
  <2>1. CASE j \in 1 .. n
    <3>1. submitted'[j].first = submitted[j].first
      BY <1>6, <2>1
    <3>2. j # 1 => j - 1 \in 1 .. n
      BY <1>1, <2>1
    <3>3. QED
      BY <1>2, <1>7, <2>1, <3>1, <3>2
  <2>2. CASE j = n + 1
    <3>1. submitted'[j].first = NextFirst /\ j - 1 = n
      BY <1>1, <1>6, <2>2
    <3>2. j # 1 => n # 0 /\ n \in 1 .. n
      BY <1>1, <2>2
    <3>3. j = 1 => n = 0
      BY <1>1, <2>2
    <3>4. QED
      BY <1>5, <1>7, <3>1, <3>2, <3>3
  <2>3. QED
    BY <1>1, <2>1, <2>2
<1>9. ASSUME NEW j \in 1 .. n + 1, NEW k \in 1 .. n + 1, j < k
      PROVE  Behind(j)' <= submitted'[k].first
  <2>1. j \in 1 .. n /\ Behind(j)' = Behind(j) /\ Behind(j) \in Nat
    BY <1>1, <1>4, <1>7, <1>9
  <2>2. CASE k \in 1 .. n
    BY <1>2, <1>6, <1>9, <2>1, <2>2
  <2>3. CASE k = n + 1
    <3>1. submitted'[k].first = Behind(n) /\ n \in 1 .. n
      BY <1>1, <1>5, <1>6, <2>1, <2>3
    <3>2. Behind(j) <= Behind(n)
      <4>1. CASE j = n
        BY <2>1, <4>1
      <4>2. CASE j # n
        <5>1. j < n
          BY <1>1, <2>1, <4>2
        <5>2. Behind(j) <= submitted[n].first
          BY <1>2, <2>1, <3>1, <5>1
        <5>3. submitted[n].first <= Behind(n) /\ Behind(n) \in Nat /\ submitted[n].first \in Nat
          BY <1>3, <1>4, <3>1
        <5>4. QED
          BY <2>1, <5>2, <5>3
      <4>3. QED
        BY <4>1, <4>2
    <3>3. QED
      BY <2>1, <3>1, <3>2
  <2>4. QED
    BY <1>1, <2>2, <2>3
<1>10. NumberedInv'
  <2>1. Len(submitted') <= MaxArchives
    BY <1>1, <1>6
  <2>2. QED
    BY <1>6, <1>8, <1>9, <2>1 DEF NumberedInv
<1>11. TransfersFollowArchives'
  <2>1. \A u, i, m : i \in 1 .. n => (Expected(u, i, m)' <=> Expected(u, i, m))
    BY <1>6 DEF Expected
  <2>2. DOMAIN submitted = 1 .. n /\ DOMAIN submitted' = 1 .. n + 1
    BY <1>1, <1>6
  <2>3. \A i \in 1 .. n : i \in 1 .. n + 1 /\ submitted'[i].first = submitted[i].first /\ Behind(i)' = Behind(i)
    BY <1>1, <1>6, <1>7
  <2>4. ASSUME NEW k \in DOMAIN dma
        PROVE  \E i \in 1 .. n + 1 : /\ k \in submitted'[i].first .. Behind(i)' - 1
                                     /\ i \in 1 .. n /\ Expected(dma[k], i, k - submitted'[i].first + 1)
    <3>1. PICK i \in 1 .. n : /\ k \in submitted[i].first .. Behind(i) - 1
                              /\ Expected(dma[k], i, k - submitted[i].first + 1)
      BY <2>2 DEF TransfersFollowArchives
    <3>2. QED
      BY <2>3, <3>1
  <2>5. QED
    BY <2>1, <2>2, <2>4 DEF TransfersFollowArchives
<1>12. QED
  BY <1>1, <1>5, <1>6, <1>10, <1>11


(* An archive queued while no other is unfinished is set up at once.       *)
LEMMA QueueFirst ==
  ASSUME MInv, NEW h \in Archives, NEW d \in VramDests, Queue_Kos_Module(h, d),
         mslots[0].src = Free, NumberedInv', TransfersFollowArchives',
         Len(submitted') = Len(submitted) + 1, Len(submitted) \in Nat, NextFirst \in Nat,
         submitted'[Len(submitted) + 1] = [archive |-> h, dst |-> d, first |-> NextFirst]
  PROVE  MInv'
<1>0. PICK n \in Nat : n = Len(submitted)
  OBVIOUS
<1> DEFINE e == [src |-> h + 2, dst |-> d]
<1>1. /\ Process_Kos_Module_Queue_Init(h, d, mslots)
      /\ UNCHANGED <<vars, dma, direct>>
  BY DEF Queue_Kos_Module
<1>2. modulesLeft' = ModuleCount(h) /\ lastSize' = LastWords(h) /\ mslots' = [mslots EXCEPT ![0] = e]
  BY <1>1, Initialised
<1>3. /\ h \in Nat /\ ModuleCount(h) \in Nat /\ 1 <= ModuleCount(h) /\ ModuleCount(h) <= 16
      /\ ModuleStart[h][1] = h + 2
  BY ArchiveFacts
<1>4. d \in Nat /\ d < 65536 /\ e \in [src : Nat, dst : VramAddresses]
  <2>1. d \in VramAddresses
    BY ArchiveAssumption
  <2>2. QED
    BY <1>3, <2>1 DEF VramAddresses
<1>5. /\ mslots' \in [0 .. ModuleSlots - 1 -> [src : Nat, dst : VramAddresses]]
      /\ mslots'[0] = e /\ \A i \in 1 .. ModuleSlots - 1 : mslots'[i] = mslots[i]
  <2>1. mslots \in [0 .. ModuleSlots - 1 -> [src : Nat, dst : VramAddresses]]
    BY DEF MInv, MTypeOK
  <2>2. mslots' = [mslots EXCEPT ![0] = e] /\ e \in [src : Nat, dst : VramAddresses]
    BY <1>2, <1>4
  <2> HIDE DEF e
  <2>3. QED
    BY ONLY <2>1, <2>2, FirstReplaced
<1>6. MTypeOK'
  <2>1. ModuleCount(h) \in 0 .. 16 /\ LastWords(h) \in 0 .. 2048
    BY CountsInRange
  <2>2. modulesLeft' = ModuleCount(h) /\ lastSize' = LastWords(h)
    BY <1>2
  <2>3. modulesLeft' \in 0 .. 16 /\ lastSize' \in 0 .. 2048
    BY ONLY <2>1, <2>2
  <2>4. QED
    BY <1>5, <2>3 DEF MTypeOK
<1>7. InArchive(n + 1) /\ WaitBehind(n + 1)
  <2>1. PICK j \in 1 .. n + 1 : InArchive(j) /\ WaitBehind(j)
    BY <1>0 DEF MInv
  <2>2. ~(j \in 1 .. n)
    <3>1. SUFFICES ASSUME j \in 1 .. n PROVE FALSE
      OBVIOUS
    <3>2. NumberedInv /\ HistoryTypes /\ j \in 1 .. Len(submitted)
      BY <1>0, <3>1 DEF MInv
    <3>3. PICK g \in Archives, v \in VramDests, s \in Streams, f \in Nat, t \in Nat, c \in Nat :
            InTurn(j, g, v, s, f, t, c)
      BY <2>1, <3>1, <3>2, ArchiveInTurn
    <3>4. s # Free
      BY <3>3 DEF InTurn
    <3>5. mslots[0].src = s
      <4>1. mslots[0] = [src |-> s, dst |-> Word(v + (t - 1) * 4096)]
        BY <3>3 DEF InTurn
      <4>2. QED
        BY ONLY <4>1
    <3>6. QED
      BY <3>4, <3>5
  <2>3. QED
    BY <1>0, <2>1, <2>2
<1>8. modulesLeft = 0 /\ Len(dma) + 1 = NextFirst
  BY <1>0, <1>7 DEF InArchive
<1>9. WaitBehind(n + 1)'
  <2>1. ModuleSlots \in Nat /\ ModuleSlots >= 1
    BY ArchiveAssumption
  <2>2. ASSUME NEW i \in 1 .. ModuleSlots - 1
        PROVE  mslots'[i] = NoEntry /\ ~((n + 1) + i <= n + 1)
    <3>1. mslots[i] = IF (n + 1) + i <= n THEN Entry((n + 1) + i) ELSE NoEntry
      BY <1>0, <1>7 DEF WaitBehind
    <3>2. ~((n + 1) + i <= n) /\ ~((n + 1) + i <= n + 1)
      BY <2>1
    <3>3. QED
      BY <1>5, <3>1, <3>2
  <2>3. Len(submitted') < (n + 1) + ModuleSlots /\ Len(submitted') = n + 1
    BY <1>0, <2>1
  <2>4. QED
    BY <2>2, <2>3 DEF WaitBehind
<1>10. InArchive(n + 1)'
  <2>1. n + 1 # Len(submitted') + 1
    BY <1>0
  <2>2. submitted'[n + 1].archive = h /\ submitted'[n + 1].dst = d /\ submitted'[n + 1].first = NextFirst
    BY <1>0
  <2>3. Turn(n + 1)' = 1
    <3>1. Turn(n + 1)' = Len(dma) + 2 - NextFirst
      BY <1>1, <2>2 DEF Turn
    <3>2. Len(dma) \in Nat
      BY DEF MInv, HistoryTypes
    <3>3. QED
      BY <1>8, <3>1, <3>2
  <2>4. Word(d + (1 - 1) * 4096) = d
    <3>1. d + (1 - 1) * 4096 = d
      BY <1>4
    <3>2. Word(d) = d
      BY ONLY <1>4, WordSum
    <3>3. QED
      BY ONLY <3>1, <3>2
  <2>5. /\ Turn(n + 1)' \in 1 .. ModuleCount(h)
        /\ modulesLeft' = ModuleCount(h) - Turn(n + 1)' + 1
        /\ mslots'[0] = [src |-> ModuleStart[h][Turn(n + 1)'],
                         dst |-> Word(d + (Turn(n + 1)' - 1) * 4096)]
    BY <1>2, <1>3, <1>5, <2>3, <2>4
  <2>6. lastSize' = LastWords(h)
    BY <1>2
  <2>7. QED
    BY ONLY <2>1, <2>2, <2>5, <2>6 DEF InArchive
<1>11. IInv' /\ StoredInv' /\ HistoryTypes'
  <2>1. IInv'
    BY <1>1, NextIInv DEF MInv
  <2>2. StoredInv'
    BY <1>1 DEF MInv, StoredInv, Instruction, InProgress, vars
  <2>3. HistoryTypes'
    BY <1>1 DEF MInv, HistoryTypes, vars
  <2>4. QED
    BY <2>1, <2>2, <2>3
<1>12. ~(modulesLeft' >= SignBit) /\ ~(modulesLeft >= SignBit)
  <2>1. ModuleCount(h) < SignBit
    BY <1>3, SignOfCount
  <2>2. QED
    BY <1>2, <1>3, <1>8, <2>1 DEF SignBit
<1>13. RequestedInv'
  BY <1>12 DEF RequestedInv
<1>14. CountedInv'
  BY <1>1, <1>12 DEF MInv, CountedInv, vars
<1>15. \E j \in (1 .. Len(submitted) + 1)' : InArchive(j)' /\ WaitBehind(j)'
  <2>1. n + 1 \in 1 .. Len(submitted') + 1
    BY <1>0
  <2>2. QED
    BY <1>9, <1>10, <2>1
<1>16. QED
  BY <1>6, <1>11, <1>13, <1>14, <1>15 DEF MInv


(* The first free slot is right behind the archives that wait.             *)
LEMMA FirstFreeSlot ==
  ASSUME MInv, mslots[0].src # Free, NEW j \in 1 .. Len(submitted), WaitBehind(j),
         \E i \in 0 .. ModuleSlots - 1 : mslots[i].src = Free
  PROVE  LET i == CHOOSE k \in 0 .. ModuleSlots - 1 :
                    mslots[k].src = Free /\ \A l \in 0 .. k - 1 : mslots[l].src # Free
         IN  i \in 1 .. ModuleSlots - 1 /\ j + i = Len(submitted) + 1
<1> DEFINE P(k) == mslots[k].src = Free /\ \A l \in 0 .. k - 1 : mslots[l].src # Free
           i == CHOOSE k \in 0 .. ModuleSlots - 1 : P(k)
<1>1. ModuleSlots \in Nat /\ ModuleSlots >= 1
  BY ArchiveAssumption
<1>2. PICK n \in Nat : n = Len(submitted) /\ j \in Nat /\ 1 <= j /\ j <= n
  BY Archived
<1>3. \A k \in 1 .. ModuleSlots - 1 : mslots[k].src = Free <=> ~(j + k <= n)
  <2> TAKE k \in 1 .. ModuleSlots - 1
  <2>1. mslots[k] = IF j + k <= n THEN Entry(j + k) ELSE NoEntry
    BY <1>2 DEF WaitBehind
  <2>2. CASE j + k <= n
    <3>1. j + k \in 1 .. Len(submitted)
      BY <1>1, <1>2, <2>2
    <3>2. submitted[j + k] \in [archive : Archives, dst : VramDests, first : Nat]
      BY <3>1, ElementOf, Archived
    <3>3. submitted[j + k].archive # Free
      BY <3>2, ArchiveFacts
    <3>4. mslots[k].src = submitted[j + k].archive
      BY <2>1, <2>2 DEF Entry
    <3>5. QED
      BY <2>2, <3>3, <3>4
  <2>3. CASE ~(j + k <= n)
    BY <2>1, <2>3 DEF NoEntry
  <2>4. QED
    BY <2>2, <2>3
<1>4. n - j + 1 \in 1 .. ModuleSlots - 1
  <2>1. PICK k \in 0 .. ModuleSlots - 1 : mslots[k].src = Free
    OBVIOUS
  <2>2. k \in 1 .. ModuleSlots - 1
    BY <1>1, <2>1
  <2>3. ~(j + k <= n)
    BY <1>3, <2>1, <2>2
  <2>4. QED
    BY <1>1, <1>2, <2>2, <2>3
<1>5. P(n - j + 1)
  <2>1. mslots[n - j + 1].src = Free
    BY <1>2, <1>3, <1>4
  <2>2. ASSUME NEW l \in 0 .. (n - j + 1) - 1 PROVE mslots[l].src # Free
    <3>1. CASE l = 0
      BY <3>1
    <3>2. CASE l # 0
      <4>1. l \in 1 .. ModuleSlots - 1 /\ j + l <= n
        BY <1>1, <1>2, <1>4, <3>2
      <4>2. QED
        BY <1>3, <4>1
    <3>3. QED
      BY <3>1, <3>2
  <2>3. QED
    BY <2>1, <2>2
<1>6. i \in 0 .. ModuleSlots - 1 /\ P(i)
  <2>1. n - j + 1 \in 0 .. ModuleSlots - 1
    BY <1>1, <1>4
  <2> HIDE DEF P
  <2>2. QED
    BY <1>5, <2>1
<1>7. i \in 1 .. ModuleSlots - 1
  <2>1. i # 0
    BY <1>6
  <2> HIDE DEF i
  <2>2. QED
    BY <1>1, <1>6, <2>1
<1>8. ~(j + i <= n)
  <2>1. mslots[i].src = Free
    BY <1>6
  <2> HIDE DEF i
  <2>2. QED
    BY <1>3, <1>7, <2>1
<1>9. ~(n - j + 1 < i)
  <2>1. \A l \in 0 .. i - 1 : mslots[l].src # Free
    BY <1>6
  <2>2. mslots[n - j + 1].src = Free
    BY <1>5
  <2> HIDE DEF i
  <2>3. QED
    BY <1>2, <1>4, <1>7, <2>1, <2>2
<1>10. i \in 1 .. ModuleSlots - 1 /\ j + i = Len(submitted) + 1
  <2> HIDE DEF i
  <2>1. QED
    BY <1>1, <1>2, <1>7, <1>8, <1>9
<1>11. QED
  BY <1>10

(* An archive queued behind others waits in the first free slot.           *)
LEMMA QueueBehind ==
  ASSUME MInv, NEW h \in Archives, NEW d \in VramDests, Queue_Kos_Module(h, d),
         mslots[0].src # Free, NumberedInv', TransfersFollowArchives',
         Len(submitted') = Len(submitted) + 1, Len(submitted) \in Nat,
         \A i \in 1 .. Len(submitted) : submitted'[i] = submitted[i],
         submitted'[Len(submitted) + 1] = [archive |-> h, dst |-> d, first |-> NextFirst]
  PROVE  MInv'
<1> DEFINE e == [src |-> h, dst |-> d]
<1>0. PICK n \in Nat : n = Len(submitted)
  OBVIOUS
<1>1. PICK j \in 1 .. n + 1 : InArchive(j) /\ WaitBehind(j)
  BY <1>0 DEF MInv
<1>2. j \in 1 .. n /\ j \in 1 .. Len(submitted)
  <2>1. j # n + 1
    <3>1. SUFFICES ASSUME j = n + 1 PROVE FALSE
      OBVIOUS
    <3>2. mslots[0] = NoEntry
      BY <1>0, <1>1, <3>1 DEF InArchive
    <3>3. QED
      BY <3>2 DEF NoEntry
  <2>2. QED
    BY <1>0, <1>1, <2>1
<1>3. PICK i \in 1 .. ModuleSlots - 1 : j + i = n + 1 /\ mslots' = [mslots EXCEPT ![i] = e]
  <2> DEFINE k == CHOOSE k \in 0 .. ModuleSlots - 1 :
                    mslots[k].src = Free /\ \A l \in 0 .. k - 1 : mslots[l].src # Free
  <2>1. mslots' = [mslots EXCEPT ![k] = e] /\ \E l \in 0 .. ModuleSlots - 1 : mslots[l].src = Free
    BY DEF Queue_Kos_Module
  <2>2. k \in 1 .. ModuleSlots - 1 /\ j + k = n + 1
    BY <1>0, <1>1, <1>2, <2>1, FirstFreeSlot
  <2> HIDE DEF k, e
  <2>3. QED
    BY <2>1, <2>2
<1>4. UNCHANGED <<vars, dma, direct, modulesLeft, lastSize>>
  BY DEF Queue_Kos_Module
<1>5. ModuleSlots \in Nat /\ ModuleSlots >= 1
  BY ArchiveAssumption
<1>6. e \in [src : Nat, dst : VramAddresses]
  <2>1. h \in Nat /\ d \in VramAddresses
    BY ArchiveAssumption
  <2>2. QED
    BY <2>1
<1>7. mslots \in [0 .. ModuleSlots - 1 -> [src : Nat, dst : VramAddresses]]
  BY DEF MInv, MTypeOK
<1>8. /\ mslots' \in [0 .. ModuleSlots - 1 -> [src : Nat, dst : VramAddresses]]
      /\ mslots'[0] = mslots[0] /\ mslots'[i] = e
      /\ \A k \in 1 .. ModuleSlots - 1 : k # i => mslots'[k] = mslots[k]
  <2> HIDE DEF e
  <2>1. i \in 0 .. ModuleSlots - 1 /\ 0 \in 0 .. ModuleSlots - 1 /\ i # 0
        /\ \A k \in 1 .. ModuleSlots - 1 : k \in 0 .. ModuleSlots - 1
    BY <1>3, <1>5
  <2>2. mslots' = [mslots EXCEPT ![i] = e]
    BY <1>3
  <2>3. QED
    BY <1>6, <1>7, <2>1, <2>2
<1>9. MTypeOK'
  <2>1. modulesLeft' = modulesLeft /\ lastSize' = lastSize
    BY <1>4
  <2>2. QED
    BY <1>8, <2>1 DEF MInv, MTypeOK
<1>10. IInv' /\ StoredInv' /\ HistoryTypes'
  <2>1. IInv'
    BY <1>4, NextIInv DEF MInv
  <2>2. StoredInv'
    BY <1>4 DEF MInv, StoredInv, Instruction, InProgress, vars
  <2>3. HistoryTypes'
    BY <1>4 DEF MInv, HistoryTypes, vars
  <2>4. QED
    BY <2>1, <2>2, <2>3
<1>11. RequestedInv'
  <2>1. Wanted' = Wanted /\ pending' = pending /\ slots' = slots /\ ram' = ram /\ modulesLeft' = modulesLeft
    BY <1>4, <1>8 DEF Wanted, vars
  <2>2. QED
    BY <2>1 DEF MInv, RequestedInv, Placed
<1>12. CountedInv'
  BY <1>4 DEF MInv, CountedInv, vars
<1>13. Len(submitted') = n + 1 /\ j # n + 1 /\ j # (n + 1) + 1
  BY <1>0, <1>2
<1>14. \A k \in 1 .. n : submitted'[k] = submitted[k] /\ Entry(k)' = Entry(k)
  BY <1>0 DEF Entry
<1>15. Entry(n + 1)' = e
  BY <1>0 DEF Entry
<1>16. InArchive(j)'
  <2>1. submitted'[j] = submitted[j] /\ Turn(j)' = Turn(j)
    BY <1>2, <1>4, <1>14 DEF Turn
  <2>2. QED
    BY <1>0, <1>1, <1>4, <1>8, <1>13, <2>1 DEF InArchive
<1>17. WaitBehind(j)'
  <2>1. ASSUME NEW k \in 1 .. ModuleSlots - 1
        PROVE  mslots'[k] = IF j + k <= n + 1 THEN Entry(j + k)' ELSE NoEntry
    <3>1. mslots[k] = IF j + k <= n THEN Entry(j + k) ELSE NoEntry
      BY <1>0, <1>1 DEF WaitBehind
    <3>2. j \in Nat /\ k \in Nat /\ i \in Nat /\ 1 <= j /\ 1 <= k /\ j + i = n + 1
      BY <1>2, <1>3, <1>5
    <3>3. CASE k = i
      BY <1>8, <1>15, <3>2, <3>3
    <3>4. CASE k # i
      <4>1. j + k <= n + 1 <=> j + k <= n
        BY <3>2, <3>4
      <4>2. j + k <= n => Entry(j + k)' = Entry(j + k)
        BY <1>14, <3>2
      <4>3. mslots'[k] = mslots[k]
        BY <1>8, <3>4
      <4>4. QED
        BY <3>1, <4>1, <4>2, <4>3
    <3>5. QED
      BY <3>3, <3>4
  <2>2. n + 1 < j + ModuleSlots
    BY <1>2, <1>3, <1>5
  <2>3. QED
    BY <1>13, <2>1, <2>2 DEF WaitBehind
<1>18. \E k \in (1 .. Len(submitted) + 1)' : InArchive(k)' /\ WaitBehind(k)'
  <2>1. j \in 1 .. Len(submitted') + 1
    BY <1>2, <1>13
  <2>2. QED
    BY <1>16, <1>17, <2>1
<1>19. QED
  BY <1>9, <1>10, <1>11, <1>12, <1>18 DEF MInv


(* Queueing an archive keeps the invariant.                                *)
LEMMA QueueModuleStep ==
  ASSUME MInv, NEW h \in Archives, NEW d \in VramDests, Queue_Kos_Module(h, d)
  PROVE  MInv'
<1>1. /\ Len(submitted) < MaxArchives /\ dma' = dma
      /\ submitted' = Append(submitted, [archive |-> h, dst |-> d, first |-> NextFirst])
  BY DEF Queue_Kos_Module
<1>2. /\ NumberedInv' /\ TransfersFollowArchives'
      /\ Len(submitted) \in Nat /\ Len(submitted') = Len(submitted) + 1
      /\ \A i \in 1 .. Len(submitted) : submitted'[i] = submitted[i]
      /\ submitted'[Len(submitted) + 1] = [archive |-> h, dst |-> d, first |-> NextFirst]
      /\ NextFirst \in Nat
  BY <1>1, NumberingGrows DEF MInv
<1>3. CASE mslots[0].src = Free
  BY <1>2, <1>3, QueueFirst
<1>4. CASE mslots[0].src # Free
  BY <1>2, <1>4, QueueBehind
<1>5. QED
  BY <1>3, <1>4

(* A step that changes nothing.                                            *)
LEMMA IdleStep == ASSUME MInv, UNCHANGED allvars PROVE MInv'
<1>1. UNCHANGED vars /\ UNCHANGED mvars
  BY DEF allvars
<1>2. IInv'
  BY <1>1, NextIInv DEF MInv
<1>3. StoredInv' /\ HistoryTypes' /\ RequestedInv' /\ CountedInv'
  BY <1>1 DEF MInv, StoredInv, HistoryTypes, RequestedInv, CountedInv, Wanted, Placed, Instruction,
              InProgress, vars, mvars
<1>4. MTypeOK' /\ NumberedInv' /\ TransfersFollowArchives' /\ AnArchive'
  BY <1>1, ModulesStay DEF MInv, AnArchive
<1>5. QED
  BY <1>2, <1>3, <1>4 DEF MInv, AnArchive

(* Every step does.                                                        *)
LEMMA NextMInv == ASSUME Polite, MInv, [MNext]_allvars PROVE MInv'
<1>1. CASE \E h \in Archives, d \in VramDests : Queue_Kos_Module(h, d)
  BY <1>1, QueueModuleStep
<1>2. CASE RequestModule
  BY <1>2, RequestStep
<1>3. CASE TransferModule
  BY <1>3, TransferStep
<1>4. CASE \E s \in DirectStreams, d \in Dests : DirectRequest(s, d)
  BY <1>4, DirectStep
<1>5. CASE Decompressor
  BY <1>5, DecompressorStep
<1>6. CASE UNCHANGED allvars
  BY <1>6, IdleStep
<1>7. QED
  BY <1>1, <1>2, <1>3, <1>4, <1>5, <1>6 DEF MNext

-----------------------------------------------------------------------------
(* As long as the program makes no request of its own while a module is    *)
(* being decompressed, the decompression queue holds that module last or   *)
(* has left it, whole, in the buffer and its end in Kos_decomp_source; and *)
(* the module queue is the archives from the one in turn to the last.      *)
THEOREM ModulesInvariant == Polite => (MSpec => []MInv)
<1> SUFFICES ASSUME Polite PROVE MSpec => []MInv
  OBVIOUS
<1>1. MInit => MInv
  BY InitMInv
<1>2. MInv /\ [MNext]_allvars => MInv'
  BY NextMInv
<1>3. QED
  BY <1>1, <1>2, PTL DEF MSpec

(* The slots hold addresses of ROM and VRAM, the counter at most sixteen   *)
(* modules with or without the sign bit.                                   *)
THEOREM ModuleTypes == Polite => (MSpec => []MTypeOK)
<1> SUFFICES ASSUME Polite PROVE MSpec => []MTypeOK
  OBVIOUS
<1>1. MInv => MTypeOK
  BY DEF MInv
<1>2. QED
  BY <1>1, ModulesInvariant, PTL

(* The DMA is handed the modules of the archives, in the order they were   *)
(* queued in, each whole, in the right length and to the right place.      *)
THEOREM TransfersInOrder == Polite => (MSpec => []TransfersFollowArchives)
<1> SUFFICES ASSUME Polite PROVE MSpec => []TransfersFollowArchives
  OBVIOUS
<1>1. MInv => TransfersFollowArchives
  BY DEF MInv
<1>2. QED
  BY <1>1, ModulesInvariant, PTL

(* Slot 0 always points at the module to be transferred next.              *)
THEOREM NextModuleIsFound == Polite => (MSpec => []SourceIsNextModule)
<1> SUFFICES ASSUME Polite PROVE MSpec => []SourceIsNextModule
  OBVIOUS
<1>1. MInv => SourceIsNextModule
  <2> SUFFICES ASSUME MInv, modulesLeft # 0
               PROVE  \E j \in DOMAIN submitted :
                        /\ Len(dma) + 1 \in submitted[j].first .. Behind(j) - 1
                        /\ mslots[0].src = ModuleStart[submitted[j].archive][Len(dma) + 2 - submitted[j].first]
    BY DEF SourceIsNextModule
  <2>1. PICK j \in 1 .. Len(submitted) + 1 : InArchive(j) /\ WaitBehind(j)
    BY DEF MInv
  <2>2. j \in 1 .. Len(submitted) /\ NumberedInv /\ HistoryTypes
    <3>1. j # Len(submitted) + 1
      BY ONLY <2>1, modulesLeft # 0 DEF InArchive
    <3>2. QED
      BY <3>1, Archived
  <2>3. PICK h \in Archives, d \in VramDests, s \in Streams, f \in Nat, t \in Nat, c \in Nat :
          InTurn(j, h, d, s, f, t, c)
    BY <2>1, <2>2, ArchiveInTurn
  <2>4. /\ h = submitted[j].archive /\ f = submitted[j].first /\ c = ModuleCount(h)
        /\ t = Len(dma) + 2 - f
    BY <2>3 DEF InTurn, Turn
  <2>5. Behind(j) = f + c
    BY ONLY <2>4 DEF Behind
  <2>6. Len(dma) + 1 \in f .. (f + c) - 1
    <3>1. PICK l \in Nat : l = Len(dma) /\ l + 2 = f + t /\ 1 <= t /\ t <= c
      BY <2>3 DEF InTurn
    <3>2. QED
      BY <3>1
  <2>7. mslots[0].src = ModuleStart[h][t]
    <3>1. mslots[0] = [src |-> s, dst |-> Word(d + (t - 1) * 4096)] /\ s = ModuleStart[h][t]
      BY <2>3 DEF InTurn
    <3>2. QED
      BY ONLY <3>1
  <2>8. j \in DOMAIN submitted
    BY <2>2 DEF NumberedInv
  <2>9. QED
    BY <2>4, <2>5, <2>6, <2>7, <2>8
<1>2. QED
  BY <1>1, ModulesInvariant, PTL

(* The module queue never makes a request the decompression queue has no   *)
(* room for, nor touches it otherwise: all that is proved of KosQueue      *)
(* holds of the two together.                                              *)
THEOREM ProperClient == Polite => (MSpec => UsesQueueProperly)
<1> SUFFICES ASSUME Polite PROVE MSpec => UsesQueueProperly
  OBVIOUS
<1>1. MInit => Init
  BY DEF MInit
<1>2. MInv /\ [MNext]_allvars => [Next]_vars
  <2> SUFFICES ASSUME MInv, [MNext]_allvars PROVE [Next]_vars
    OBVIOUS
  <2>1. CASE \E h \in Archives, d \in VramDests : Queue_Kos_Module(h, d)
    BY <2>1 DEF Queue_Kos_Module
  <2>2. CASE RequestModule
    BY <2>2, RequestIsProper DEF Next
  <2>3. CASE TransferModule
    BY <2>3 DEF TransferModule
  <2>4. CASE \E s \in DirectStreams, d \in Dests : DirectRequest(s, d)
    BY <2>4, ArchiveAssumption DEF DirectRequest, Next
  <2>5. CASE Decompressor
    BY <2>5 DEF Decompressor, Next
  <2>6. CASE UNCHANGED allvars
    BY <2>6 DEF allvars
  <2>7. QED
    BY <2>1, <2>2, <2>3, <2>4, <2>5, <2>6 DEF MNext
<1>3. QED
  BY <1>1, <1>2, ModulesInvariant, PTL DEF MSpec, UsesQueueProperly, Spec


(* The archives not yet wholly transferred are the one in turn and those   *)
(* behind it.                                                              *)
LEMMA UnfinishedOnes ==
  ASSUME MInv, NEW j \in 1 .. Len(submitted) + 1, InArchive(j)
  PROVE  {i \in DOMAIN submitted : Behind(i) - 1 > Len(dma)} = j .. Len(submitted)
<1>1. NumberedInv /\ HistoryTypes
  BY DEF MInv
<1>2. PICK n \in Nat : n = Len(submitted) /\ DOMAIN submitted = 1 .. n
  BY <1>1 DEF NumberedInv
<1>3. PICK l \in Nat : l = Len(dma)
  BY <1>1 DEF HistoryTypes
<1>4. \A i \in 1 .. n : /\ submitted[i].first \in Nat /\ Behind(i) \in Nat
                        /\ submitted[i].first < Behind(i)
  <2> TAKE i \in 1 .. n
  <2>1. submitted[i] \in [archive : Archives, dst : VramDests, first : Nat]
    BY <1>1, <1>2, ElementOf DEF NumberedInv
  <2>2. PICK f \in Nat, c \in Nat : f = submitted[i].first /\ c = ModuleCount(submitted[i].archive) /\ 1 <= c
    BY <2>1, ArchiveFacts
  <2>3. Behind(i) = f + c
    BY <2>2 DEF Behind
  <2>4. QED
    BY <2>2, <2>3
<1>5. \A i, k \in 1 .. n : i < k => Behind(i) <= submitted[k].first
  BY <1>1, <1>2 DEF NumberedInv
<1>6. ASSUME NEW i \in 1 .. n, i < j PROVE ~(Behind(i) - 1 > l)
  <2>1. CASE j \in 1 .. n
    <3>1. PICK h \in Archives, d \in VramDests, s \in Streams, f \in Nat, t \in Nat, c \in Nat :
            InTurn(j, h, d, s, f, t, c)
      BY <1>1, <1>2, <2>1, ArchiveInTurn
    <3>2. f = submitted[j].first /\ l + 2 = f + t /\ 1 <= t
      BY <1>3, <3>1 DEF InTurn
    <3>3. Behind(i) <= f /\ Behind(i) \in Nat
      BY <1>4, <1>5, <1>6, <2>1, <3>2
    <3>4. QED
      BY <3>2, <3>3
  <2>2. CASE j = n + 1
    <3>1. n \in 1 .. n /\ submitted # <<>>
      BY <1>2
    <3>2. l + 1 = Behind(n)
      BY <1>2, <1>3, <2>2, <3>1 DEF InArchive, NextFirst
    <3>3. Behind(i) <= Behind(n)
      <4>1. CASE i = n
        BY <1>4, <4>1
      <4>2. CASE i # n
        <5>1. Behind(i) <= submitted[n].first
          BY <1>5, <3>1, <4>2
        <5>2. QED
          BY <1>4, <3>1, <5>1
      <4>3. QED
        BY <4>1, <4>2
    <3>4. Behind(i) \in Nat
      BY <1>4
    <3>5. QED
      BY <3>2, <3>3, <3>4
  <2>3. QED
    BY <1>2, <2>1, <2>2
<1>7. ASSUME NEW i \in 1 .. n, i >= j PROVE Behind(i) - 1 > l
  <2>1. j \in 1 .. n
    BY <1>2, <1>7
  <2>2. PICK h \in Archives, d \in VramDests, s \in Streams, f \in Nat, t \in Nat, c \in Nat :
          InTurn(j, h, d, s, f, t, c)
    BY <1>1, <1>2, <2>1, ArchiveInTurn
  <2>3. /\ h = submitted[j].archive /\ f = submitted[j].first /\ c = ModuleCount(h)
        /\ l + 2 = f + t /\ t <= c
    BY <1>3, <2>2 DEF InTurn
  <2>4. Behind(j) = f + c
    BY ONLY <2>3 DEF Behind
  <2>5. Behind(i) >= Behind(j)
    <3>1. CASE i = j
      BY <1>4, <3>1
    <3>2. CASE i # j
      <4>1. Behind(j) <= submitted[i].first
        BY <1>5, <1>7, <2>1, <3>2
      <4>2. QED
        BY <1>4, <2>1, <4>1
    <3>3. QED
      BY <3>1, <3>2
  <2>6. Behind(i) \in Nat
    BY <1>4
  <2>7. QED
    BY <2>3, <2>4, <2>5, <2>6
<1>8. QED
  BY <1>2, <1>3, <1>6, <1>7

(* Exactly the archives not yet wholly transferred are in the module       *)
(* queue, in the order they were queued in.                                *)
THEOREM QueueIsUnfinished == Polite => (MSpec => []ModuleQueueIsUnfinished)
<1> SUFFICES ASSUME Polite PROVE MSpec => []ModuleQueueIsUnfinished
  OBVIOUS
<1>1. MInv => ModuleQueueIsUnfinished
  <2> SUFFICES ASSUME MInv PROVE ModuleQueueIsUnfinished
    OBVIOUS
  <2> DEFINE unfinished == {j \in DOMAIN submitted : Behind(j) - 1 > Len(dma)}
             done == Len(submitted) - Cardinality(unfinished)
  <2>1. PICK j \in 1 .. Len(submitted) + 1 : InArchive(j) /\ WaitBehind(j)
    BY DEF MInv
  <2>2. PICK n \in Nat : n = Len(submitted) /\ j \in Nat /\ 1 <= j /\ j <= n + 1
    BY Archived
  <2>3. unfinished = j .. n
    BY <2>1, <2>2, UnfinishedOnes
  <2>4. Cardinality(j .. n) = n - j + 1
    <3>1. Cardinality(j .. n) = IF j > n THEN 0 ELSE n - j + 1
      <4>1. j \in Int /\ n \in Int
        BY <2>2
      <4>2. QED
        BY ONLY <4>1, FS_Interval, Zenon
    <3>2. QED
      BY <2>2, <3>1
  <2>5. done = j - 1
    <3>1. Cardinality(unfinished) = n - j + 1
      BY <2>3, <2>4
    <3> HIDE DEF unfinished
    <3>2. QED
      BY <2>2, <3>1
  <2>6. ModuleSlots \in Nat /\ ModuleSlots >= 1
    BY ArchiveAssumption
  <2>7. mslots[0].src # Free <=> j <= n
    <3>1. CASE j \in 1 .. Len(submitted)
      <4>1. PICK h \in Archives, d \in VramDests, s \in Streams, f \in Nat, t \in Nat, c \in Nat :
              InTurn(j, h, d, s, f, t, c)
        BY <2>1, <3>1, ArchiveInTurn DEF MInv
      <4>2. mslots[0] = [src |-> s, dst |-> Word(d + (t - 1) * 4096)] /\ s # Free
        BY <4>1 DEF InTurn
      <4>3. mslots[0].src # Free
        BY ONLY <4>2
      <4>4. QED
        BY <2>2, <3>1, <4>3
    <3>2. CASE j = Len(submitted) + 1
      <4>1. mslots[0] = NoEntry
        BY <2>1, <3>2 DEF InArchive
      <4>2. QED
        BY <2>2, <3>2, <4>1 DEF NoEntry
    <3>3. QED
      BY <2>2, <3>1, <3>2
  <2>8. modulesLeft # 0 <=> j <= n
    <3>1. CASE j \in 1 .. Len(submitted)
      <4>1. PICK h \in Archives, d \in VramDests, s \in Streams, f \in Nat, t \in Nat, c \in Nat :
              InTurn(j, h, d, s, f, t, c)
        BY <2>1, <3>1, ArchiveInTurn DEF MInv
      <4>2. (modulesLeft = c - t + 1 \/ modulesLeft = c - t + 1 + SignBit) /\ t <= c
        BY <4>1 DEF InTurn
      <4>3. QED
        BY <2>2, <3>1, <4>2 DEF SignBit
    <3>2. CASE j = Len(submitted) + 1
      BY <2>1, <2>2, <3>2 DEF InArchive
    <3>3. QED
      BY <2>2, <3>1, <3>2
  <2>9. \A i \in 1 .. ModuleSlots - 1 :
          /\ mslots[i].src # Free <=> i < n - (j - 1)
          /\ i < n - (j - 1) => mslots[i] = [src |-> submitted[(j - 1) + i + 1].archive,
                                             dst |-> submitted[(j - 1) + i + 1].dst]
    <3> TAKE i \in 1 .. ModuleSlots - 1
    <3>1. mslots[i] = IF j + i <= n THEN Entry(j + i) ELSE NoEntry
      BY <2>1, <2>2 DEF WaitBehind
    <3>2. (j - 1) + i + 1 = j + i /\ (i < n - (j - 1) <=> j + i <= n)
      BY <2>2, <2>6
    <3>3. CASE j + i <= n
      <4>1. j + i \in 1 .. Len(submitted)
        BY <2>2, <2>6, <3>3
      <4>2. submitted[j + i] \in [archive : Archives, dst : VramDests, first : Nat]
        BY <4>1, ElementOf, Archived
      <4>3. submitted[j + i].archive # Free
        BY <4>2, ArchiveFacts
      <4>4. mslots[i] = [src |-> submitted[j + i].archive, dst |-> submitted[j + i].dst]
        BY <3>1, <3>3 DEF Entry
      <4>5. QED
        BY <3>2, <3>3, <4>3, <4>4
    <3>4. CASE ~(j + i <= n)
      <4>1. mslots[i].src = Free
        BY <3>1, <3>4 DEF NoEntry
      <4>2. QED
        BY <3>2, <3>4, <4>1
    <3>5. QED
      BY <3>3, <3>4
  <2>10. \A i \in 0 .. ModuleSlots - 1 : mslots[i].src # Free <=> i < n - (j - 1)
    <3> TAKE i \in 0 .. ModuleSlots - 1
    <3>1. CASE i = 0
      BY <2>2, <2>7, <3>1
    <3>2. CASE i # 0
      <4>1. i \in 1 .. ModuleSlots - 1
        BY <2>6, <3>2
      <4>2. QED
        BY <2>9, <4>1
    <3>3. QED
      BY <3>1, <3>2
  <2>11. unfinished = (j - 1) + 1 .. n
    BY <2>2, <2>3
  <2>12. mslots[0].src # Free <=> modulesLeft # 0
    BY <2>7, <2>8
  <2> HIDE DEF unfinished
  <2>13. /\ unfinished = done + 1 .. Len(submitted)
         /\ \A i \in 0 .. ModuleSlots - 1 : mslots[i].src # Free <=> i < Len(submitted) - done
         /\ \A i \in 1 .. ModuleSlots - 1 :
              i < Len(submitted) - done =>
                mslots[i] = [src |-> submitted[done + i + 1].archive,
                             dst |-> submitted[done + i + 1].dst]
    <3> HIDE DEF done
    <3>1. done = j - 1 /\ Len(submitted) = n
      BY <2>2, <2>5
    <3>2. QED
      BY ONLY <2>9, <2>10, <2>11, <3>1
  <2>14. QED
    BY <2>12, <2>13 DEF ModuleQueueIsUnfinished, unfinished
<1>2. QED
  BY <1>1, ModulesInvariant, PTL
=============================================================================
