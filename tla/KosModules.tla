----------------------------- MODULE KosModules -----------------------------
(***************************************************************************)
(* The module queue of src/asm/KosM.asm (Queue_Kos_Module,                 *)
(* Process_Kos_Module_Queue_Init, Process_Kos_Module_Queue) on top of the  *)
(* decompression queue of KosQueue.  An archive is a word with its         *)
(* uncompressed size followed by Kosinski streams of $1000 bytes each (the *)
(* last may be shorter), every one padded to the next $10 boundary counted *)
(* from its own start; each is decompressed into one RAM buffer and sent   *)
(* to VRAM by DMA before the next is requested.                            *)
(*                                                                         *)
(* Both queues run in the main program; the interrupt acts on neither of   *)
(* the module queue's variables, so its routines are single actions.       *)
(***************************************************************************)
EXTENDS KosQueue, FiniteSets

CONSTANTS
  Archives,       (* the addresses of the archives' headers in ROM          *)
  ArchiveSize,    (* the size word at each header                           *)
  ModuleStart,    (* where each module of an archive begins                 *)
  VramDests,      (* VRAM addresses archives are queued for                 *)
  Buffer,         (* Kos_decomp_buffer                                      *)
  DirectStreams,  (* streams the program also decompresses on its own       *)
  ModuleSlots,    (* entries of Kos_module_queue                            *)
  MaxArchives,    (* bound: archives queued in a behaviour                  *)
  MaxDirect,      (* bound: requests the program makes on its own           *)
  Polite          (* the program makes no request of its own between the    *)
                  (* request for a module and the end of its decompression  *)

VARIABLES
  mslots,         (* Kos_module_queue; slot 0's dst is Kos_module_destination *)
  modulesLeft,    (* Kos_modules_left: a word, sign bit = being decompressed *)
  lastSize,       (* Kos_last_module_size, in words                         *)
  submitted,      (* history: the archives queued, with the number of the   *)
                  (* first transfer each calls for                          *)
  dma,            (* history: the transfers handed to QueueDMATransfer      *)
  direct          (* bound: how many requests the program made on its own   *)

mvars == <<mslots, modulesLeft, lastSize, submitted, dma, direct>>
allvars == <<vars, mvars>>

-----------------------------------------------------------------------------
Free == 0                                  \* a source of 0 marks a free slot
NoEntry == [src |-> Free, dst |-> 0]
Word_Long(n) == n                          \* a slip: add.l instead of add.w
Word(n) == n % 65536
VramAddresses == {n \in Nat : n < 65536}

(* The layout of an archive, as moduled_adaptor.hh writes it.              *)
RoundUp(n) == ((n + 15) \div 16) * 16
Bytes(h) == IF ArchiveSize[h] = 40960 THEN 32768 ELSE ArchiveSize[h]
ModuleCount(h) == (Bytes(h) + 4095) \div 4096
LaidOut(h, start) ==
  /\ start \in [1 .. ModuleCount(h) -> Streams]
  /\ start[1] = h + 2
  /\ \A m \in 2 .. ModuleCount(h) : start[m] = start[m - 1] + RoundUp(Length[start[m - 1]])

ASSUME ArchiveAssumption ==
  /\ Archives \subseteq Nat \ {Free}
  /\ ArchiveSize \in [Archives -> Nat]
  /\ \A h \in Archives :
       /\ 2 <= ArchiveSize[h] /\ ArchiveSize[h] < 65536 /\ Bytes(h) % 2 = 0
       /\ LaidOut(h, ModuleStart[h])
  /\ VramDests \subseteq VramAddresses
  /\ Buffer \in Dests
  /\ DirectStreams \subseteq Streams
  /\ ModuleSlots \in Nat \ {0} /\ MaxArchives \in Nat /\ MaxDirect \in Nat
  /\ 16 * MaxArchives + MaxDirect <= MaxRequests
  /\ Polite \in BOOLEAN

MInit ==
  /\ Init
  /\ mslots = [i \in 0 .. ModuleSlots - 1 |-> NoEntry]
  /\ modulesLeft = 0
  /\ lastSize = 0
  /\ submitted = <<>>
  /\ dma = <<>>
  /\ direct = 0

-----------------------------------------------------------------------------
(* Slips: a last module that is whole keeps the size 0; the total number   *)
(* of modules is not stored back.                                          *)
Process_Kos_Module_Queue_Init_NoSize(h, d, q) ==
  LET words == (IF ArchiveSize[h] = 40960 THEN 32768 ELSE ArchiveSize[h]) \div 2
      rest == words % 2048
      full == (words \div 2048) % 32
  IN  /\ modulesLeft' = Word((IF rest = 0 THEN full - 1 ELSE full) + 1)
      /\ lastSize' = rest
      /\ mslots' = [q EXCEPT ![0] = [src |-> h + 2, dst |-> d]]

Process_Kos_Module_Queue_Init_NoTotal(h, d, q) ==
  LET words == (IF ArchiveSize[h] = 40960 THEN 32768 ELSE ArchiveSize[h]) \div 2
      rest == words % 2048
      full == (words \div 2048) % 32
  IN  /\ modulesLeft' = Word(IF rest = 0 THEN full - 1 ELSE full)
      /\ lastSize' = IF rest = 0 THEN 2048 ELSE rest
      /\ mslots' = [q EXCEPT ![0] = [src |-> h + 2, dst |-> d]]

(* Process_Kos_Module_Queue_Init with a1 = h, d2 = d, on slots q.          *)
Process_Kos_Module_Queue_Init(h, d, q) ==
  LET words == (IF ArchiveSize[h] = 40960 THEN 32768 ELSE ArchiveSize[h]) \div 2
      rest == words % 2048
      full == (words \div 2048) % 32
  IN  /\ modulesLeft' = Word((IF rest = 0 THEN full - 1 ELSE full) + 1)
      /\ lastSize' = IF rest = 0 THEN 2048 ELSE rest
      /\ mslots' = [q EXCEPT ![0] = [src |-> h + 2, dst |-> d]]

(* The first transfer of the archive behind the j-th one, and of the next  *)
(* to be queued.                                                           *)
Behind(j) == submitted[j].first + ModuleCount(submitted[j].archive)
NextFirst == IF submitted = <<>> THEN 1 ELSE Behind(Len(submitted))

(* Queue_Kos_Module(a1, d2).  The search for a free slot does not stop at  *)
(* the end of the queue: the caller has to know there is one.              *)
Queue_Kos_Module(h, d) ==
  /\ pc = "game"
  /\ Len(submitted) < MaxArchives
  /\ \E i \in 0 .. ModuleSlots - 1 : mslots[i].src = Free
  /\ IF mslots[0].src = Free
       THEN Process_Kos_Module_Queue_Init(h, d, mslots)
       ELSE LET i == CHOOSE j \in 0 .. ModuleSlots - 1 :
                       mslots[j].src = Free /\ \A k \in 0 .. j - 1 : mslots[k].src # Free
            IN  /\ mslots' = [mslots EXCEPT ![i] = [src |-> h, dst |-> d]]
                /\ UNCHANGED <<modulesLeft, lastSize>>
  /\ submitted' = Append(submitted, [archive |-> h, dst |-> d, first |-> NextFirst])
  /\ UNCHANGED <<vars, dma, direct>>

-----------------------------------------------------------------------------
(* Process_Kos_Module_Queue, with a module to request: unless the queue is *)
(* full, which an entry in progress (sign bit) makes it too.               *)
QueueFull_Bhi == count > QueueSize                             \* a slip: bhi
QueueFull == count >= QueueSize                                \* bhs

RequestModule ==
  /\ pc = "game"
  /\ modulesLeft # 0 /\ modulesLeft < SignBit
  /\ ~QueueFull
  /\ Queue_Kos(mslots[0].src, Buffer)
  /\ modulesLeft' = SetSign(modulesLeft)
  /\ UNCHANGED <<mslots, lastSize, submitted, dma, direct>>

(* ... and with one requested: once nothing is left to decompress, hand it *)
(* to the DMA and move on.  Where it ended is taken from                   *)
(* Kos_decomp_source, rounded up to $10 bytes from where it began.         *)
NextSource_NoRounding == slots[0].src
NextSource == slots[0].src + ((mslots[0].src - slots[0].src) % 16)

ShiftedModules_KeepLast ==                \* a slip: the last slot is not freed
  [i \in 0 .. ModuleSlots - 1 |-> IF i < ModuleSlots - 1 THEN mslots[i + 1] ELSE mslots[i]]

ShiftedModules ==
  [i \in 0 .. ModuleSlots - 1 |-> IF i < ModuleSlots - 1 THEN mslots[i + 1] ELSE NoEntry]

TransferModule ==
  /\ pc = "game"
  /\ modulesLeft >= SignBit
  /\ count = 0
  /\ LET left == (modulesLeft % 128) - 1
         size == IF left = 0 THEN lastSize ELSE 2048
         dst == mslots[0].dst
     IN  /\ dma' = Append(dma, [dst |-> dst, words |-> size, data |-> ram])
         /\ IF left # 0
              THEN /\ modulesLeft' = left
                   /\ mslots' = [mslots EXCEPT ![0] =
                                   [src |-> NextSource, dst |-> Word(dst + 2 * size)]]
                   /\ UNCHANGED lastSize
            ELSE IF ShiftedModules[0].src # Free
              THEN Process_Kos_Module_Queue_Init(ShiftedModules[0].src, ShiftedModules[0].dst,
                                                 ShiftedModules)
              ELSE modulesLeft' = left /\ mslots' = ShiftedModules /\ UNCHANGED lastSize
  /\ UNCHANGED <<vars, submitted, direct>>

-----------------------------------------------------------------------------
Decompressor ==
  /\ Process_Kos_Queue \/ Routine \/ Set_Kos_Bookmark
  /\ UNCHANGED mvars

(* The program's own requests, to destinations of their own.               *)
DirectRequest(s, d) ==
  /\ d # Buffer
  /\ direct < MaxDirect
  /\ Polite => modulesLeft < SignBit
  /\ GameQueues(s, d)
  /\ direct' = direct + 1
  /\ UNCHANGED <<mslots, modulesLeft, lastSize, submitted, dma>>

MNext ==
  \/ \E h \in Archives, d \in VramDests : Queue_Kos_Module(h, d)
  \/ RequestModule
  \/ TransferModule
  \/ \E s \in DirectStreams, d \in Dests : DirectRequest(s, d)
  \/ Decompressor

MSpec == MInit /\ [][MNext]_allvars

(* The main loop calls both routines every frame.  RequestModule can be    *)
(* disabled by a parked entry, but only until that entry is complete; the  *)
(* program's own requests are bounded.                                     *)
MFairSpec ==
  /\ MSpec
  /\ WF_allvars(RequestModule)
  /\ WF_allvars(TransferModule)
  /\ WF_allvars((Process_Kos_Queue \/ Main \/ Restore \/ Backup) /\ UNCHANGED mvars)
  /\ SF_allvars((LoadSource \/ LoadDestination \/ Decode \/ Finish) /\ UNCHANGED mvars)

-----------------------------------------------------------------------------
MTypeOK ==
  /\ mslots \in [0 .. ModuleSlots - 1 -> [src : Nat, dst : VramAddresses]]
  /\ modulesLeft \in 0 .. 16 \cup SignBit + 1 .. SignBit + 16
  /\ lastSize \in 0 .. 2048

(* Transfer t is module m of the j-th archive.                             *)
Expected(t, j, m) ==
  LET h == submitted[j].archive
      s == ModuleStart[h][m]
  IN  /\ t.dst = Word(submitted[j].dst + (m - 1) * 4096)
      /\ t.words = IF m < ModuleCount(h) THEN 2048 ELSE (Bytes(h) - (m - 1) * 4096) \div 2
      /\ \A i \in 0 .. Length[s] - 1 : t.data[Buffer + i] = s + i

(* Every transfer is the next module of the oldest unfinished archive: its *)
(* data is what is in the buffer, it goes right behind the module before   *)
(* it, and its length is right, also for an archive of whole modules only. *)
(* Relates both queues: the next module's address is worked out from       *)
(* scratch left in the decompression queue.                                *)
TransfersFollowArchives ==
  \A k \in DOMAIN dma :
    \E j \in DOMAIN submitted :
      /\ k \in submitted[j].first .. Behind(j) - 1
      /\ Expected(dma[k], j, k - submitted[j].first + 1)

(* The module queue is exactly the archives not yet wholly transferred.    *)
ModuleQueueIsUnfinished ==
  LET unfinished == {j \in DOMAIN submitted : Behind(j) - 1 > Len(dma)}
      done == Len(submitted) - Cardinality(unfinished)
  IN  /\ unfinished = done + 1 .. Len(submitted)
      /\ \A i \in 0 .. ModuleSlots - 1 :
           mslots[i].src # Free <=> i < Len(submitted) - done
      /\ mslots[0].src # Free <=> modulesLeft # 0
      /\ \A i \in 1 .. ModuleSlots - 1 :
           i < Len(submitted) - done =>
             mslots[i] = [src |-> submitted[done + i + 1].archive,
                          dst |-> submitted[done + i + 1].dst]

(* While an archive is unfinished, slot 0 holds the address of its next    *)
(* module.  The comments at KosM.asm:147-148 have the code round the       *)
(* address where the module ended "to the nearest $10 boundary" and "set   *)
(* new source" with it; the address is taken from Kos_decomp_source, which *)
(* is this module's end only if no other entry was queued behind it.       *)
SourceIsNextModule ==
  modulesLeft # 0 =>
    \E j \in DOMAIN submitted :
      /\ Len(dma) + 1 \in submitted[j].first .. Behind(j) - 1
      /\ mslots[0].src = ModuleStart[submitted[j].archive][Len(dma) + 2 - submitted[j].first]

(* The module queue is a well-behaved client of the decompression queue:   *)
(* in particular it never queues a module into a full one.                 *)
UsesQueueProperly == Spec

(* Every archive queued is transferred to its last module in the end.      *)
EventuallyTransferred ==
  \A n \in 1 .. MaxArchives :
    Len(submitted) >= n ~> Len(submitted) >= n /\ Len(dma) >= Behind(n) - 1
=============================================================================
