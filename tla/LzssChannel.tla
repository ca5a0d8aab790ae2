---------------------------- MODULE LzssChannel ----------------------------
(***************************************************************************)
(* What LZSSOStream and LZSSIStream of lzss.hh promise the codecs together:*)
(* descriptor bits and parameter bytes, put in any order, come out in that *)
(* order.  The two kinds are multiplexed into one file, but at this level  *)
(* there is no file.                                                       *)
(***************************************************************************)
EXTENDS Naturals, Sequences

CONSTANT Bytes          (* the parameter bytes                              *)

VARIABLES
  sent,                 (* what the encoder has written                     *)
  received              (* what the decoder has read                        *)

chan == <<sent, received>>

Item == [kind : {"bit"}, val : {0, 1}] \cup [kind : {"byte"}, val : Bytes]

Init ==
  /\ sent = <<>>
  /\ received = <<>>

Send(item) ==
  /\ received = <<>>
  /\ sent' = Append(sent, item)
  /\ UNCHANGED received

Receive ==
  /\ Len(received) < Len(sent)
  /\ received' = Append(received, sent[Len(received) + 1])
  /\ UNCHANGED sent

Next == (\E item \in Item : Send(item)) \/ Receive

Spec == Init /\ [][Next]_chan
=============================================================================
