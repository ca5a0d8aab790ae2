------------------------------- MODULE KosFifo -------------------------------
(***************************************************************************)
(* What the Kosinski decompression queue of KosM.asm promises its caller:  *)
(* a bounded FIFO of (compressed source, RAM destination) requests, each   *)
(* of which is served once, in order, and completely.  Interrupts,         *)
(* bookmarks and registers do not exist at this level.                     *)
(***************************************************************************)
EXTENDS Integers, Sequences

CONSTANTS
  Streams,      (* start addresses of the Kosinski streams in ROM           *)
  Length,       (* Length[s]: how many units the stream at s decodes to     *)
  Dests,        (* RAM addresses a request may name as its destination      *)
  QueueSize     (* entries of Kos_decomp_queue (the caller's RAM map: 4)    *)

VARIABLES
  queue,        (* the requests not yet served, oldest first                *)
  delivered     (* what was in RAM at each request's destination when the   *)
                (* request left the queue, in the order they left           *)

vars == <<queue, delivered>>

Request == [src : Streams, dst : Dests]

(* The output of the stream at s: unit i of it is named by the address s+i *)
(* of the code that produces it.                                           *)
Decoded(s) == [i \in 0 .. Length[s] - 1 |-> s + i]

Init ==
  /\ queue = <<>>
  /\ delivered = <<>>

Enqueue(r) ==
  /\ Len(queue) < QueueSize
  /\ queue' = Append(queue, r)
  /\ UNCHANGED delivered

Serve ==
  /\ queue # <<>>
  /\ queue' = Tail(queue)
  /\ delivered' = Append(delivered, [req |-> Head(queue), data |-> Decoded(Head(queue).src)])

Next ==
  \/ \E r \in Request : Enqueue(r)
  \/ Serve

Spec == Init /\ [][Next]_vars
=============================================================================
