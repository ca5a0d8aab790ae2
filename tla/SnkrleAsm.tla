------------------------------ MODULE SnkrleAsm ------------------------------
(***************************************************************************)
(* SNKDec of SNKRLE.asm, which decodes what the encoder of Snkrle wrote    *)
(* instead of the decoder there, if the file has an even size.             *)
(* It writes words only and keeps the odd byte in the upper half of d6;    *)
(* the preconditions its comments number are properties here.  One action  *)
(* is the code from one of its labels to the next.                         *)
(***************************************************************************)
EXTENDS Snkrle

CONSTANT MaxOut         (* bound: bytes written                             *)

ASSUME WordAssumption ==
  /\ MaxRun % 2 = 1
  /\ MaxOut \in Nat

VARIABLES
  a0,           (* codes read                                               *)
  d1,           (* bytes left to decompress, a word                         *)
  d3,           (* the byte to compare with                                 *)
  d6,           (* its low word: <<upper, lower>>                           *)
  dst           (* what was written through a1                              *)

asm == <<a0, d1, d3, d6, dst>>
asmvars == <<vars, asm>>

Word == 0 .. (65536 - 1)
Wrap_Long(n) == n                       \* a slip: long arithmetic
Wrap(n) == n % 65536
Words(w, n) == [i \in 1 .. 2 * n |-> IF i % 2 = 1 THEN w[1] ELSE w[2]]

AInit ==
  /\ Init
  /\ a0 = 0 /\ d1 = 0 /\ d3 = 0 /\ d6 = <<0, 0>> /\ dst = <<>>

Cpp == Next /\ UNCHANGED asm

(* SNKDec up to its first label, once the encoder is through.  It is for   *)
(* files of an even size, not empty: precondition (1).                     *)
SNKDec ==
  /\ pc = "encode" /\ ~Good
  /\ size % 2 = 0 /\ size > 0
  /\ d1' = Wrap(size)
  /\ pc' = "fetch_new_char"
  /\ UNCHANGED <<encoder, decoder, a0, d3, d6, dst>>

Bounded == Len(dst) < MaxOut

(* movep.w fetches the byte at a0 into the upper half, and the one at a0+2 *)
(* into the lower, where it does not matter.                               *)
FetchNewChar ==
  /\ pc = "fetch_new_char"
  /\ \E c \in Code(a0), x \in Code(a0 + 2) :
       d6' = <<c, x>> /\ d3' = c
  /\ a0' = a0 + 1
  /\ pc' = "main_loop"
  /\ UNCHANGED <<encoder, decoder, d1, dst>>

(* Where a run goes once its words are written, n of its bytes still to be *)
(* counted off d1: an odd byte is left in d6 by adding it back.            *)
AfterRun_NotAddedBack(n, w, from) ==     \* a slip: addq.w #1,d1 is missing
  LET rest == Wrap(from - n) IN
    /\ dst' = dst \o <<w[1], w[2]>> \o Words(w, n \div 2)
    /\ d1' = rest
    /\ pc' = IF rest = 0 THEN "end" ELSE IF n % 2 = 1 THEN "main_loop" ELSE "main_loop_buffer_clear"

AfterRun(n, w, from) ==
  LET rest == Wrap(from - n) IN
    /\ dst' = dst \o <<w[1], w[2]>> \o Words(w, n \div 2)
    /\ IF rest = 0 THEN d1' = 0 /\ pc' = "end"
       ELSE IF n % 2 = 1 THEN d1' = Wrap(rest + 1) /\ pc' = "main_loop"
       ELSE d1' = rest /\ pc' = "main_loop_buffer_clear"

(* .main_loop: the buffer holds a character; a second one makes a word.    *)
MainLoop ==
  /\ pc = "main_loop" /\ Bounded
  /\ \E c \in Code(a0) :
       LET w == <<d6[1], c>>
           rest == Wrap(d1 - 2)
           single == dst' = dst \o w /\ d1' = rest /\ d6' = w
       IN
       \/ /\ rest = 0
          /\ single /\ pc' = "end" /\ a0' = a0 + 1
       \/ /\ rest # 0 /\ d3 # c
          /\ single /\ pc' = "main_loop_buffer_clear" /\ a0' = a0 + 1
       \/ /\ rest # 0 /\ d3 = c
          /\ \E n \in Code(a0 + 1) :
               \/ /\ n = 0
                  /\ single /\ pc' = "main_loop_buffer_clear" /\ a0' = a0 + 2
               \/ /\ n # 0 /\ ~(n = MaxRun /\ rest # n)
                  /\ AfterRun(n, w, rest) /\ d6' = w /\ a0' = a0 + 2
               \/ /\ n = MaxRun /\ rest # n
                  /\ \E b \in Code(a0 + 2) :
                       /\ dst' = dst \o w \o Words(w, n \div 2) \o <<w[1], b>>
                       /\ d1' = Wrap(rest - n + 1 - 2)
                       /\ d6' = <<w[1], b>>
                       /\ pc' = IF Wrap(rest - n - 1) = 0 THEN "end" ELSE "main_loop_buffer_clear"
                       /\ a0' = a0 + 3
  /\ UNCHANGED <<encoder, decoder, d3>>

(* .main_loop_buffer_clear: the buffer is empty.  d3 takes the lower half  *)
(* of d6, and the character read next goes to d6 alone.                    *)
BufferClear ==
  /\ pc = "main_loop_buffer_clear" /\ Bounded
  /\ d3' = d6[2]
  /\ \E c \in Code(a0) :
       /\ d6' = <<c, c>>
      
       /\ \/ /\ c # d6[2]
             /\ pc' = "main_loop" /\ a0' = a0 + 1
             /\ UNCHANGED <<d1, dst>>
          \/ /\ c = d6[2]
             /\ a0' = a0 + 2
             /\ \E n \in Code(a0 + 1) :
                  \/ n = 0 /\ pc' = "main_loop" /\ UNCHANGED <<d1, dst>>
                  \/ n # 0 /\ n # MaxRun /\ AfterRun(n - 1, <<c, c>>, Wrap(d1 - 2))
                  \/ /\ n = MaxRun
                     /\ dst' = dst \o <<c, c>> \o Words(<<c, c>>, (n - 1) \div 2)
                     /\ d1' = Wrap(d1 - 2 - (n - 1))
                     /\ pc' = IF d1' = 0 THEN "end" ELSE "fetch_new_char"
  /\ UNCHANGED <<encoder, decoder>>

ANext == Cpp \/ SNKDec \/ FetchNewChar \/ MainLoop \/ BufferClear
ASpec == AInit /\ [][ANext]_asmvars

-----------------------------------------------------------------------------
Labelled == {"fetch_new_char", "main_loop", "main_loop_buffer_clear"}

ATypeOK ==
  /\ TypeOK
  /\ d1 \in Word /\ d3 \in Byte /\ d6 \in Byte \X Byte
  /\ dst \in Seq(Byte)
  /\ pc \in Labelled \cup {"encode", "run", "decode", "done", "end"}

(* Preconditions (1) and (4): at every label an even number of bytes is    *)
(* left and d1 counts just those not written, the one in d6 included.      *)
(* Both parities of a run and both entries into one must agree on who      *)
(* counts the odd byte.                                                    *)
CountsWhatIsLeft ==
  pc \in Labelled =>
    /\ d1 % 2 = 0
    /\ Wrap(Len(dst) + d1) = Wrap(size)
=============================================================================
