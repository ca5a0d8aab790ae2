------------------------------ MODULE KosQueue ------------------------------
(***************************************************************************)
(* The interruptible Kosinski decompression queue of src/asm/KosM.asm:     *)
(* Queue_Kos, Process_Kos_Queue, Set_Kos_Bookmark, Restore_Kos_Bookmark    *)
(* and Backup_Kos_Registers.                                               *)
(*                                                                         *)
(* Two actors share one 68000: the main program, which queues requests and *)
(* calls Process_Kos_Queue, and the vertical interrupt, which may strike   *)
(* between any two instructions of it and, through Set_Kos_Bookmark, make  *)
(* Process_Kos_Queue return early, to be resumed by a later call.          *)
(*                                                                         *)
(* ROM: a stream is the interval of addresses [s, s + Length[s]); address  *)
(* s+i holds the code of output unit i, and the unit is named by that      *)
(* address, so that a unit decoded from the wrong place, in the wrong      *)
(* order or with the wrong descriptor state shows in RAM.                  *)
(***************************************************************************)
EXTENDS Integers, Sequences

CONSTANTS
  Streams, Length, Dests, QueueSize,
  RamAddrs,     (* the RAM the destinations lie in                          *)
  MaxRequests   (* bound: requests the program makes in a behaviour         *)

StreamsDisjoint ==
  \A s, t \in Streams : s # t => s + Length[s] <= t \/ t + Length[t] <= s

ASSUME RomAssumption ==
  /\ Streams \subseteq Nat
  /\ Length \in [Streams -> Nat \ {0}]
  /\ StreamsDisjoint

ASSUME RamAssumption ==
  /\ Dests \subseteq Nat
  /\ RamAddrs \subseteq Nat
  /\ \A s \in Streams, d \in Dests : \A i \in 0 .. Length[s] - 1 : d + i \in RamAddrs

ASSUME QueueAssumption ==
  /\ QueueSize \in 1 .. 8191    (* offsets into the queue are signed words  *)
  /\ MaxRequests \in Nat

VARIABLES
  count,        (* Kos_decomp_queue_count: a word, sign bit = in progress   *)
  slots,        (* Kos_decomp_queue; slot 0 is Kos_decomp_source and        *)
                (* Kos_decomp_destination                                   *)
  pc,           (* the main program's next instruction                      *)
  regs,         (* its registers: SR, d0-d6, a0, a1/a5                      *)
  saved,        (* Kos_decomp_stored_SR, ..._Wregisters, ..._Lregisters     *)
  bookmark,     (* Kos_decomp_bookmark                                      *)
  frame,        (* the exception frame Restore_Kos_Bookmark builds          *)
  ram,          (* the decompressed output                                  *)
  pending,      (* history: requests made and not yet complete              *)
  delivered     (* history: what each completed request left in RAM         *)

vars == <<count, slots, pc, regs, saved, bookmark, frame, ram, pending, delivered>>

-----------------------------------------------------------------------------
Junk == -1                           \* whatever the caller has in a register
Regs == [sr : Int, d : Int, a0 : Int, a1 : Int]
JunkRegs == [sr |-> Junk, d |-> Junk, a0 |-> Junk, a1 |-> Junk]

SignBit == 32768
InProgress == count >= SignBit                                 \* bmi
SetSign(c) == IF c < SignBit THEN c + SignBit ELSE c           \* ori.w  #$8000
ClearSign(c) == c % SignBit                                    \* andi.w #$7FFF
SlotOf_Unmasked(c) == c                  \* a slip: the sign bit is not shifted out
SlotOf(c) == c % 8192                                          \* lsl.w  #3

EndOfStream == {s + Length[s] - 1 : s \in Streams}

(* The labels of Process_Kos_Queue from .Main up to .Done, .Done excluded: *)
(* the addresses Set_Kos_Bookmark takes for "decompressing".               *)
Decompressing ==
  {"main", "source", "destination", "init", "readbit", "copy",
   "store_source", "store_destination", "clear_sign", "dequeue", "shift"}
(* Among them, those with the sign bit set: a decompression is under way.  *)
Midway == Decompressing \ {"main", "dequeue", "shift"}
Restoring == {"restore_w", "restore_l", "restore_pc", "restore_sr", "rte"}
BackingUp == {"backup_sr", "backup_w", "backup_l"}
Labels == {"game"} \cup Decompressing \cup Restoring \cup BackingUp

Init ==
  /\ count = 0
  /\ slots = [i \in 0 .. QueueSize - 1 |-> [src |-> Junk, dst |-> Junk]]
  /\ pc = "game"
  /\ regs = JunkRegs
  /\ saved = JunkRegs
  /\ bookmark = "game"
  /\ frame = [pc |-> "game", sr |-> Junk]
  /\ ram = [a \in RamAddrs |-> Junk]
  /\ pending = <<>>
  /\ delivered = <<>>

-----------------------------------------------------------------------------
(* Queue_Kos(a1, a2).  It checks nothing: Process_Kos_Module_Queue tests   *)
(* the count first, and a direct caller has to know the queue has room.    *)
Queue_Kos(a1, a2) ==
  /\ slots' = [slots EXCEPT ![SlotOf(count)] = [src |-> a1, dst |-> a2]]
  /\ count' = count + 1
  /\ pending' = Append(pending, [src |-> a1, dst |-> a2])
  /\ UNCHANGED <<pc, regs, saved, bookmark, frame, ram, delivered>>

HasRoom == ClearSign(count) < QueueSize

GameQueues(a1, a2) ==
  /\ pc = "game"
  /\ HasRoom
  /\ Len(pending) + Len(delivered) < MaxRequests
  /\ Queue_Kos(a1, a2)

-----------------------------------------------------------------------------
(* A slip: .Main is entered even when a decompression is parked.           *)
Process_Kos_Queue_NoBmi ==
  /\ pc = "game"
  /\ count # 0
  /\ pc' = "main"
  /\ UNCHANGED <<count, slots, regs, saved, bookmark, frame, ram, pending, delivered>>

(* Process_Kos_Queue.  beq .Done returns at once and changes nothing.      *)
Process_Kos_Queue ==
  /\ pc = "game"
  /\ count # 0
  /\ pc' = IF InProgress THEN "restore_w" ELSE "main"
  /\ UNCHANGED <<count, slots, regs, saved, bookmark, frame, ram, pending, delivered>>

Goto(from, to) == pc = from /\ pc' = to

Main ==
  /\ Goto("main", "source")
  /\ count' = SetSign(count)
  /\ UNCHANGED <<slots, regs, saved, bookmark, frame, ram, pending, delivered>>

LoadSource ==
  /\ Goto("source", "destination")
  /\ regs' = [regs EXCEPT !.a0 = slots[0].src]
  /\ UNCHANGED <<count, slots, saved, bookmark, frame, ram, pending, delivered>>

LoadDestination ==
  /\ Goto("destination", "init")
  /\ regs' = [regs EXCEPT !.a1 = slots[0].dst]
  /\ UNCHANGED <<count, slots, saved, bookmark, frame, ram, pending, delivered>>

(* Kosinski_internal: fetch the descriptor field that goes with a0.        *)
InitDecoder ==
  /\ Goto("init", "readbit")
  /\ regs' = [regs EXCEPT !.d = regs.a0, !.sr = regs.a0]
  /\ UNCHANGED <<count, slots, saved, bookmark, frame, ram, pending, delivered>>

(* Kosinski_internal: take the code of the next unit out of d0-d3 into the *)
(* flags ...                                                               *)
ReadBit ==
  /\ Goto("readbit", "copy")
  /\ regs' = [regs EXCEPT !.d = @ + 1, !.sr = regs.d + 1]
  /\ UNCHANGED <<count, slots, saved, bookmark, frame, ram, pending, delivered>>

(* ... and produce it.  The unit is the right one only if flags, d0-d6 and *)
(* a0 belong to the same point of the same stream.                         *)
Copy ==
  /\ pc = "copy"
  /\ ram' = [a \in RamAddrs |->
               IF a # regs.a1 THEN ram[a]
               ELSE IF regs.sr = regs.d /\ regs.d = regs.a0 + 1 THEN regs.a0 ELSE Junk]
  /\ regs' = [regs EXCEPT !.a0 = @ + 1, !.a1 = @ + 1]
  /\ pc' = IF regs.a0 \in EndOfStream THEN "store_source" ELSE "readbit"
  /\ UNCHANGED <<count, slots, saved, bookmark, frame, pending, delivered>>

StoreSource ==
  /\ Goto("store_source", "store_destination")
  /\ slots' = [slots EXCEPT ![0].src = regs.a0]
  /\ UNCHANGED <<count, regs, saved, bookmark, frame, ram, pending, delivered>>

StoreDestination ==
  /\ Goto("store_destination", "clear_sign")
  /\ slots' = [slots EXCEPT ![0].dst = regs.a1]
  /\ UNCHANGED <<count, regs, saved, bookmark, frame, ram, pending, delivered>>

(* A slip: the in-progress bit is left set.                                *)
ClearInProgress_Missing ==
  /\ Goto("clear_sign", "dequeue")
  /\ UNCHANGED <<count, slots, regs, saved, bookmark, frame, ram, pending, delivered>>

ClearInProgress ==
  /\ Goto("clear_sign", "dequeue")
  /\ count' = ClearSign(count)
  /\ UNCHANGED <<slots, regs, saved, bookmark, frame, ram, pending, delivered>>

(* subq.w #1 and beq .Done: the request is complete.  The history records  *)
(* what RAM holds at the destination the caller asked for.                 *)
Dequeue ==
  /\ pc = "dequeue"
  /\ count' = count - 1
  /\ IF count = 1
       THEN pc' = "game" /\ regs' = JunkRegs
       ELSE pc' = "shift" /\ UNCHANGED regs
  /\ pending' = Tail(pending)
  /\ LET r == Head(pending) IN
       delivered' = Append(delivered,
         [req |-> r, data |-> [i \in 0 .. Length[r.src] - 1 |-> ram[r.dst + i]]])
  /\ UNCHANGED <<slots, saved, bookmark, frame, ram>>

(* A slip: the copy starts one entry too far.                              *)
Shift_SkipsOne ==
  /\ Goto("shift", "game")
  /\ slots' = [i \in 0 .. QueueSize - 1 |-> IF i < QueueSize - 2 THEN slots[i + 2] ELSE slots[i]]
  /\ regs' = JunkRegs
  /\ UNCHANGED <<count, saved, bookmark, frame, ram, pending, delivered>>

(* The unrolled copy that shifts all entries up; the last slot keeps its   *)
(* old contents.  The sign bit is clear: the interrupt has no effect here. *)
Shift ==
  /\ Goto("shift", "game")
  /\ slots' = [i \in 0 .. QueueSize - 1 |-> IF i < QueueSize - 1 THEN slots[i + 1] ELSE slots[i]]
  /\ regs' = JunkRegs
  /\ UNCHANGED <<count, saved, bookmark, frame, ram, pending, delivered>>

-----------------------------------------------------------------------------
(* A slip: d0-d6 are not reloaded.                                         *)
RestoreWregisters_Missing ==
  /\ Goto("restore_w", "restore_l")
  /\ UNCHANGED <<count, slots, regs, saved, bookmark, frame, ram, pending, delivered>>

(* Restore_Kos_Bookmark: reload the registers, push the bookmark and SR,   *)
(* return from exception to it.                                            *)
RestoreWregisters ==
  /\ Goto("restore_w", "restore_l")
  /\ regs' = [regs EXCEPT !.d = saved.d]
  /\ UNCHANGED <<count, slots, saved, bookmark, frame, ram, pending, delivered>>

RestoreLregisters ==
  /\ Goto("restore_l", "restore_pc")
  /\ regs' = [regs EXCEPT !.a0 = saved.a0, !.a1 = saved.a1]
  /\ UNCHANGED <<count, slots, saved, bookmark, frame, ram, pending, delivered>>

PushBookmark ==
  /\ Goto("restore_pc", "restore_sr")
  /\ frame' = [frame EXCEPT !.pc = bookmark]
  /\ UNCHANGED <<count, slots, regs, saved, bookmark, ram, pending, delivered>>

PushSR ==
  /\ Goto("restore_sr", "rte")
  /\ frame' = [frame EXCEPT !.sr = saved.sr]
  /\ UNCHANGED <<count, slots, regs, saved, bookmark, ram, pending, delivered>>

Rte ==
  /\ pc = "rte"
  /\ pc' = frame.pc
  /\ regs' = [regs EXCEPT !.sr = frame.sr]
  /\ UNCHANGED <<count, slots, saved, bookmark, frame, ram, pending, delivered>>

-----------------------------------------------------------------------------
(* Backup_Kos_Registers, which the interrupt returns to instead of to the  *)
(* decoder; its rts ends the call of Process_Kos_Queue.                    *)
BackupSR ==
  /\ Goto("backup_sr", "backup_w")
  /\ saved' = [saved EXCEPT !.sr = regs.sr]
  /\ UNCHANGED <<count, slots, regs, bookmark, frame, ram, pending, delivered>>

BackupWregisters ==
  /\ Goto("backup_w", "backup_l")
  /\ saved' = [saved EXCEPT !.d = regs.d]
  /\ UNCHANGED <<count, slots, regs, bookmark, frame, ram, pending, delivered>>

(* A slip: the register list of the second movem lacks a1.                 *)
BackupLregisters_NoA1 ==
  /\ Goto("backup_l", "game")
  /\ saved' = [saved EXCEPT !.a0 = regs.a0]
  /\ regs' = JunkRegs
  /\ UNCHANGED <<count, slots, bookmark, frame, ram, pending, delivered>>

BackupLregisters ==
  /\ Goto("backup_l", "game")
  /\ saved' = [saved EXCEPT !.a0 = regs.a0, !.a1 = regs.a1]
  /\ regs' = JunkRegs
  /\ UNCHANGED <<count, slots, bookmark, frame, ram, pending, delivered>>

-----------------------------------------------------------------------------
(* A slip: no upper bound on the return address, so that an interrupt of   *)
(* Restore_Kos_Bookmark, which lies behind .Done, sets a bookmark too.     *)
Set_Kos_Bookmark_NoEnd ==
  /\ InProgress
  /\ pc \in Decompressing \cup Restoring
  /\ bookmark' = pc
  /\ pc' = "backup_sr"
  /\ UNCHANGED <<count, slots, regs, saved, frame, ram, pending, delivered>>

(* The vertical interrupt.  Its handler keeps the interrupted registers    *)
(* (the frame at $42(sp) lies above them); where the guard is false it has *)
(* no effect on this state, which is a stuttering step.                    *)
Set_Kos_Bookmark ==
  /\ InProgress
  /\ pc \in Decompressing
  /\ bookmark' = pc
  /\ pc' = "backup_sr"
  /\ UNCHANGED <<count, slots, regs, saved, frame, ram, pending, delivered>>

-----------------------------------------------------------------------------
Decode == InitDecoder \/ ReadBit \/ Copy
Finish == StoreSource \/ StoreDestination \/ ClearInProgress \/ Dequeue \/ Shift
Restore == RestoreWregisters \/ RestoreLregisters \/ PushBookmark \/ PushSR \/ Rte
Backup == BackupSR \/ BackupWregisters \/ BackupLregisters

(* One instruction of Process_Kos_Queue after its entry.                   *)
Routine == Main \/ LoadSource \/ LoadDestination \/ Decode \/ Finish \/ Restore \/ Backup

Next ==
  \/ \E s \in Streams, d \in Dests : GameQueues(s, d)
  \/ Process_Kos_Queue
  \/ Routine
  \/ Set_Kos_Bookmark

Spec == Init /\ [][Next]_vars

(* The program's main loop calls Process_Kos_Queue every frame, although   *)
(* it may do other things in between, and the processor executes the       *)
(* routine.  Interrupts are a frame apart, so they cannot forever preempt  *)
(* the decoder before its next instruction: strong fairness for the part   *)
(* of the routine Set_Kos_Bookmark can cut short.                          *)
Fairness ==
  /\ WF_vars(Process_Kos_Queue)
  /\ WF_vars(Main)
  /\ WF_vars(Restore)
  /\ WF_vars(Backup)
  /\ SF_vars(LoadSource \/ LoadDestination \/ Decode \/ Finish)

FairSpec == Spec /\ Fairness

-----------------------------------------------------------------------------
TypeOK ==
  /\ count \in 0 .. QueueSize \cup SignBit + 1 .. SignBit + QueueSize
  /\ slots \in [0 .. QueueSize - 1 -> [src : Int, dst : Int]]
  /\ pc \in Labels
  /\ regs \in Regs
  /\ saved \in Regs
  /\ bookmark \in Labels
  /\ frame \in [pc : Labels, sr : Int]
  /\ ram \in [RamAddrs -> Int]
  /\ pending \in Seq([src : Streams, dst : Dests])

(* Where request r stands when instruction "at" is next with registers g:  *)
(* n units of its stream are in place in memory mem, and every register    *)
(* the rest of the routine depends on agrees with that.                    *)
Placed(r, n, mem) == \A i \in 0 .. n - 1 : mem[r.dst + i] = r.src + i

Consistent(at, g, r, mem) ==
  \/ at = "source"
  \/ at = "destination" /\ g.a0 = r.src
  \/ at = "init" /\ g.a0 = r.src /\ g.a1 = r.dst
  \/ /\ at \in {"readbit", "copy"}
     /\ \E n \in 0 .. Length[r.src] - 1 :
          /\ g.a0 = r.src + n
          /\ g.a1 = r.dst + n
          /\ g.d = IF at = "copy" THEN g.a0 + 1 ELSE g.a0
          /\ g.sr = g.d
          /\ Placed(r, n, mem)
  \/ /\ at \in {"store_source", "store_destination", "clear_sign"}
     /\ at = "store_source" => g.a0 = r.src + Length[r.src]
     /\ Placed(r, Length[r.src], mem)

(* A decompression the interrupt put aside can be taken up again: while    *)
(* the sign bit says one is in progress and the main program is elsewhere, *)
(* bookmark and stored registers name a point of the oldest request that   *)
(* everything decoded so far agrees with.  Set_Kos_Bookmark, Backup and    *)
(* Restore must keep this however often they are themselves interrupted.   *)
ParkedIsResumable ==
  InProgress /\ pc = "game" =>
    pending # <<>> /\ Consistent(bookmark, saved, Head(pending), ram)

(* The count and the slots are the requests still to be served, in order:  *)
(* Queue_Kos (which may run while a decompression is parked and the sign   *)
(* bit set) and the shift after a completion neither lose, duplicate nor   *)
(* reorder one.  Slot 0 is also the routine's scratch pointer pair, so it  *)
(* is exempt from the moment the source is stored back.                    *)
SlotsArePending ==
  /\ ClearSign(count) = Len(pending)
  /\ \A i \in 1 .. Len(pending) :
       IF pc = "shift" THEN slots[i] = pending[i]
       ELSE i > 1 \/ (~InProgress /\ pc # "dequeue") => slots[i - 1] = pending[i]

(* Decoding only ever writes inside the area of the oldest request.        *)
DecodeStaysInPlace ==
  [][\A a \in RamAddrs :
       ram'[a] # ram[a] =>
         LET r == Head(pending) IN
           /\ pending # <<>>
           /\ a \in r.dst .. r.dst + Length[r.src] - 1
           /\ ram'[a] = r.src + (a - r.dst)]_vars

(* The inductive invariant behind the two properties above.  Where the     *)
(* truth about the oldest request lives moves with the program counter: in *)
(* the registers while decoding and while Backup saves them, in the stored *)
(* registers while parked and while Restore reloads them.                  *)
SignBitInv ==
  /\ pc \in {"main", "dequeue", "shift"} => ~InProgress
  /\ pc \in Midway \cup Restoring \cup BackingUp => InProgress
  /\ pc # "game" => count # 0
  /\ pc = "shift" => count < QueueSize

HeadSlotInv ==
  LET at == IF pc \in {"game"} \cup Restoring \cup BackingUp THEN bookmark ELSE pc IN
    InProgress /\ at \in {"source", "destination"} => slots[0] = pending[1]

DecodingInv ==
  /\ pc \in Midway => Consistent(pc, regs, Head(pending), ram)
  /\ pc = "dequeue" => Placed(Head(pending), Length[Head(pending).src], ram)

ParkingInv ==
  /\ pc \in BackingUp => Consistent(bookmark, regs, Head(pending), ram)
  /\ pc \in {"backup_w", "backup_l"} => saved.sr = regs.sr
  /\ pc = "backup_l" => saved.d = regs.d
  /\ InProgress /\ pc \in {"game"} \cup Restoring =>
       Consistent(bookmark, saved, Head(pending), ram)
  /\ pc \in Restoring \ {"restore_w"} => regs.d = saved.d
  /\ pc \in {"restore_pc", "restore_sr", "rte"} => regs.a0 = saved.a0 /\ regs.a1 = saved.a1
  /\ pc \in {"restore_sr", "rte"} => frame.pc = bookmark
  /\ pc = "rte" => frame.sr = saved.sr

IInv ==
  TypeOK /\ SignBitInv /\ SlotsArePending /\ HeadSlotInv /\ DecodingInv /\ ParkingInv

(* The whole mechanism implements the plain FIFO of KosFifo: every request *)
(* leaves once, in order, with its complete output in RAM.                 *)
Fifo == INSTANCE KosFifo WITH queue <- pending, delivered <- delivered
ImplementsFifo == Fifo!Spec

(* Every request is served in the end, whatever the interrupts do.         *)
EventuallyServed == \A n \in 1 .. MaxRequests :
  Len(pending) + Len(delivered) >= n ~> Len(delivered) >= n
=============================================================================
