------------------------------- MODULE Snkrle -------------------------------
(***************************************************************************)
(* The run length coder of snkrle.cc: the encoder writes a file out byte   *)
(* by byte, a pair of equal bytes followed by the number of further equal  *)
(* bytes; the decoder then reads what was written.  Bytes and counts share *)
(* one range, which is scaled down; a run that fills the count restarts    *)
(* the coder on the byte behind it.                                        *)
(***************************************************************************)
EXTENDS Integers, Sequences

CONSTANTS
  MaxRun,       (* 255: the largest byte                                    *)
  Files         (* the files; none of 65536 bytes, the size being a word    *)

Byte == 0 .. MaxRun

ASSUME RunAssumption ==
  /\ MaxRun \in Nat \ {0}
  /\ Files \subseteq Seq(Byte)

VARIABLES
  data,                         (* Src of encode                            *)
  rd, cc, nc, cnt,              (* encode: bytes read of it and its locals  *)
  size, codes,                  (* Dst of encode and Src of decode          *)
  dpos, left, dcc, out,         (* decode: codes read, Size, cc and Dst     *)
  pc

vars == <<data, rd, cc, nc, cnt, size, codes, dpos, left, dcc, out, pc>>
encoder == <<data, rd, cc, nc, cnt, size, codes>>
decoder == <<dpos, left, dcc, out>>

(* Read1 on Src: at the end it clears good and gives any byte.             *)
Good == rd <= Len(data)
Given(k) == IF k < Len(data) THEN {data[k + 1]} ELSE Byte

Init ==
  /\ data \in Files
  /\ rd = 1
  /\ cc \in Given(0)
  /\ nc = 0
  /\ cnt = 0
  /\ size = Len(data)
  /\ codes = <<>>
  /\ dpos = 0 /\ left = 0 /\ dcc = 0 /\ out = <<>>
  /\ pc = "encode"

-----------------------------------------------------------------------------
(* One round of encode's loop: write cc; a second equal byte opens a run.  *)
EncodeNext ==
  /\ pc = "encode" /\ Good
  /\ \E b \in Given(rd) :
       IF rd >= Len(data)
         THEN /\ nc' = b /\ rd' = rd + 1
              /\ codes' = Append(codes, cc)
              /\ UNCHANGED <<cc, cnt, pc>>
       ELSE IF b = cc
         THEN /\ nc' = b /\ rd' = rd + 2 /\ cnt' = 0
              /\ codes' = codes \o <<cc, b>>
              /\ \E c \in Given(rd + 1) : cc' = c
              /\ pc' = "run"
       ELSE /\ nc' = b /\ cc' = b /\ rd' = rd + 1
            /\ codes' = Append(codes, cc)
            /\ UNCHANGED <<cnt, pc>>
  /\ UNCHANGED <<data, size>> /\ UNCHANGED decoder

(* A slip: the run may grow past what the count can hold.                  *)
EncodeRun_NoLimit ==
  /\ pc = "run"
  /\ IF Good /\ nc = cc /\ cnt <= MaxRun
       THEN /\ cnt' = cnt + 1 /\ rd' = rd + 1
            /\ \E c \in Given(rd) : cc' = c
            /\ UNCHANGED <<codes, pc>>
       ELSE /\ codes' = Append(codes, cnt)
            /\ pc' = "encode"
            /\ UNCHANGED <<cnt, rd, cc>>
  /\ UNCHANGED <<data, nc, size>> /\ UNCHANGED decoder

EncodeRun ==
  /\ pc = "run"
  /\ IF Good /\ nc = cc /\ cnt < MaxRun
       THEN /\ cnt' = cnt + 1 /\ rd' = rd + 1
            /\ \E c \in Given(rd) : cc' = c
            /\ UNCHANGED <<codes, pc>>
       ELSE /\ codes' = Append(codes, cnt)
            /\ pc' = "encode"
            /\ UNCHANGED <<cnt, rd, cc>>
  /\ UNCHANGED <<data, nc, size>> /\ UNCHANGED decoder

-----------------------------------------------------------------------------
Code(k) == IF k < Len(codes) THEN {codes[k + 1]} ELSE Byte
Copies(b, n) == [i \in 1 .. n |-> b]

DecodeFirst ==
  /\ pc = "encode" /\ ~Good
  /\ IF size = 0
       THEN pc' = "done" /\ UNCHANGED decoder
       ELSE /\ \E b \in Code(0) : dcc' = b /\ out' = <<b>>
            /\ dpos' = 1
            /\ left' = size - 1
            /\ pc' = "decode"
  /\ UNCHANGED encoder

DecodeNext_NoRestart ==                  \* a slip: a full count is like any other
  /\ pc = "decode"
  /\ IF left = 0 THEN pc' = "done" /\ UNCHANGED decoder
     ELSE \E b \in Code(dpos) :
       IF b # dcc
         THEN /\ out' = Append(out, b) /\ dcc' = b
              /\ dpos' = dpos + 1 /\ left' = left - 1
       ELSE \E n \in Code(dpos + 1) :
              /\ out' = Append(out, b) \o Copies(b, n)
              /\ dpos' = dpos + 2 /\ left' = left - 1 - n
              /\ UNCHANGED dcc
  /\ (left # 0 => UNCHANGED pc)
  /\ UNCHANGED encoder

(* One round of decode's loop.  After a full count (lines 60-64) the next  *)
(* byte is read into cc, but nc is what is written.                        *)
DecodeNext ==
  /\ pc = "decode"
  /\ IF left = 0 THEN pc' = "done" /\ UNCHANGED decoder
     ELSE \E b \in Code(dpos) :
       IF b # dcc
         THEN /\ out' = Append(out, b) /\ dcc' = b
              /\ dpos' = dpos + 1 /\ left' = left - 1
       ELSE \E n \in Code(dpos + 1) :
         IF n = MaxRun /\ left - 1 - n # 0
           THEN \E c \in Code(dpos + 2) :
                  /\ out' = Append(out, b) \o Copies(b, n) \o <<b>>
                  /\ dcc' = c
                  /\ dpos' = dpos + 3 /\ left' = left - 2 - n
         ELSE /\ out' = Append(out, b) \o Copies(b, n)
              /\ dpos' = dpos + 2 /\ left' = left - 1 - n
              /\ UNCHANGED dcc
  /\ (left # 0 => UNCHANGED pc)
  /\ UNCHANGED encoder

Next == EncodeNext \/ EncodeRun \/ DecodeFirst \/ DecodeNext
Spec == Init /\ [][Next]_vars

-----------------------------------------------------------------------------
TypeOK ==
  /\ rd \in 1 .. Len(data) + 1
  /\ cc \in Byte /\ nc \in Byte /\ cnt \in Byte
  /\ codes \in Seq(Byte)
  /\ dpos \in 0 .. Len(codes)
  /\ left \in 0 .. size
  /\ dcc \in Byte
  /\ out \in Seq(Byte)

(* Position i follows a run of equal bytes that fills the count exactly,   *)
(* one or more times over: 257 bytes, 514, ...                             *)
AfterFullRun(i) ==
  \E k \in 1 .. i - 1 :
    /\ (i - k) % (MaxRun + 2) = 0
    /\ \A j \in k .. i - 1 : data[j] = data[k]
    /\ data[i] # data[k]
    /\ k > 1 => data[k - 1] # data[k]

(* The decoder reproduces the file, but for the byte behind a run that     *)
(* fills the count exactly: there it repeats the run's byte.               *)
DecodesButAfterFullRuns ==
  /\ Len(out) <= Len(data)
  /\ \A i \in 1 .. Len(out) :
       out[i] = IF AfterFullRun(i) THEN data[i - 1] ELSE data[i]

(* The decoder never reads behind what was written, ends with all of it    *)
(* read, and writes as many bytes as the file has: also after a full run   *)
(* it has not lost its place.                                              *)
StaysInStep ==
  /\ dpos <= Len(codes)
  /\ pc = "done" => dpos = Len(codes) /\ Len(out) = Len(data)

(* What SNKRLE.asm:112-117 says is to happen after a full count ("We need  *)
(* to read in a new character", "Read and print new character"): the       *)
(* decoder gives the file back.                                            *)
DecodesToFile == pc = "done" => out = data
=============================================================================
