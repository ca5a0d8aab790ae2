----------------------------- MODULE BitStream -----------------------------
(***************************************************************************)
(* obitstream and ibitstream of bitstream.hh, as Enigma and Nemesis use    *)
(* them: values of 1 to W bits written across the boundaries of words of   *)
(* W bits, and read back early, that is, with the next word fetched as     *)
(* soon as the last is used up.  The reader need not cut the bits up as    *)
(* the writer did.  Every variable of type T wraps at 2^W.  A codec takes  *)
(* these operations for steps of its own.                                  *)
(***************************************************************************)
EXTENDS Integers, Sequences, SequencesExt

CONSTANT W      (* sizeof(T) * CHAR_BIT                                     *)

ASSUME WidthAssumption == W \in Nat \ {0}

VARIABLES
  file,                         (* the words written                        *)
  waitingbits, obuffer,         (* obitstream; obuffer is its bitbuffer     *)
  flushed,
  spos, readbits, ibuffer,      (* ibitstream and the words it has taken    *)
  sent, received                (* history: the bits written and read       *)

writer == <<file, waitingbits, obuffer, flushed, sent>>
reader == <<spos, readbits, ibuffer, received>>

pow2[n \in Nat] == IF n = 0 THEN 1 ELSE 2 * pow2[n - 1]
Pow(n) == pow2[n]
T(n) == n % Pow(W)                         \* conversion to the word type
Words == 0 .. Pow(W) - 1
BitsOf(v, n) == [i \in 1 .. n |-> (v \div Pow(n - i)) % 2]

StreamInit ==
  /\ file = <<>>
  /\ waitingbits = 0 /\ obuffer = 0 /\ flushed = FALSE
  /\ spos = 0 /\ readbits = 0 /\ ibuffer = 0
  /\ sent = <<>> /\ received = <<>>

-----------------------------------------------------------------------------
(* push: one bit.                                                          *)
Push(v) ==
  LET b == T(obuffer * 2) + v IN
    /\ ~flushed
    /\ sent' = Append(sent, v)
    /\ IF waitingbits + 1 >= W
         THEN file' = Append(file, b) /\ waitingbits' = 0 /\ obuffer' = 0
         ELSE waitingbits' = waitingbits + 1 /\ obuffer' = b /\ UNCHANGED file
    /\ UNCHANGED <<flushed, reader>>

(* A write that just fills the word ends it.                               *)
Fills(n) == waitingbits + n >= W

(* write: n bits, of which the first delta complete the word begun and the *)
(* rest begin the next.  v is less than 2^n: the callers see to it, as v   *)
(* is merged without a mask.                                               *)
Write(v, n) ==
  /\ ~flushed
  /\ sent' = sent \o BitsOf(v, n)
  /\ IF Fills(n)
       THEN LET delta == W - waitingbits
                rest == (waitingbits + n) % W
            IN  /\ file' = Append(file, T(T(obuffer * Pow(delta)) + v \div Pow(rest)))
                /\ waitingbits' = rest
                /\ obuffer' = v % Pow(rest)
       ELSE /\ obuffer' = T(obuffer * Pow(n) + v)
            /\ waitingbits' = waitingbits + n
            /\ UNCHANGED file
  /\ UNCHANGED <<flushed, reader>>

(* flush, after the last call.                                             *)
Flush_Always ==                          \* a slip: also when nothing waits
  /\ ~flushed
  /\ flushed' = TRUE
  /\ waitingbits' = 0
  /\ LET b == T(obuffer * Pow(W - waitingbits)) IN file' = Append(file, b) /\ obuffer' = b
  /\ UNCHANGED <<sent, reader>>

Flush ==
  /\ ~flushed
  /\ flushed' = TRUE
  /\ waitingbits' = 0
  /\ IF waitingbits # 0
       THEN LET b == T(obuffer * Pow(W - waitingbits)) IN file' = Append(file, b) /\ obuffer' = b
       ELSE UNCHANGED <<file, obuffer>>
  /\ UNCHANGED <<sent, reader>>

-----------------------------------------------------------------------------
(* A word of the file; behind its end, any.                                *)
WordAt(k) == IF k \in DOMAIN file THEN {file[k]} ELSE Words

Open ==
  /\ flushed /\ spos = 0
  /\ spos' = 1 /\ readbits' = W
  /\ \E w \in WordAt(1) : ibuffer' = w
  /\ UNCHANGED <<writer, received>>

(* What check_buffer leaves of a reader with r bits of w left, having      *)
(* taken k words.                                                          *)
Becomes(r, w, k) ==
  IF r # 0 THEN readbits' = r /\ ibuffer' = w /\ spos' = k
  ELSE readbits' = W /\ spos' = k + 1 /\ \E x \in WordAt(k + 1) : ibuffer' = x

(* A slip: the mask keeps the bits already taken.                          *)
Rest_Taken(w, n) == w \div Pow(W - n)
Rest(w, n) == w % Pow(n)

(* read: the bits left of this word and the first of the next.  Its value  *)
(* is v.                                                                   *)
Read(n, v) ==
  /\ spos > 0
  /\ IF readbits < n
       THEN \E w \in WordAt(spos + 1) :
              LET delta == n - readbits IN
                /\ v = T(ibuffer * Pow(delta)) + w \div Pow(W - delta)
                /\ Becomes(W - delta, Rest(w, W - delta), spos + 1)
       ELSE /\ v = ibuffer \div Pow(readbits - n)
            /\ Becomes(readbits - n, Rest(ibuffer, readbits - n), spos)
  /\ received' = received \o BitsOf(v, n)
  /\ UNCHANGED writer

(* pop: the top bit, which is then cleared.                                *)
Pop(v) ==
  /\ spos > 0
  /\ v = (ibuffer \div Pow(readbits - 1)) % 2
  /\ Becomes(readbits - 1, ibuffer - v * Pow(readbits - 1), spos)
  /\ received' = Append(received, v)
  /\ UNCHANGED writer

-----------------------------------------------------------------------------
(* Whoever calls: values that fit their bits, and no more bits read than   *)
(* were written.                                                           *)
MayRead(n) == Len(received) + n <= Len(sent)

StreamNext ==
  \/ \E v \in 0 .. 1 : Push(v)
  \/ \E n \in 1 .. W : \E v \in 0 .. Pow(n) - 1 : Write(v, n)
  \/ Flush
  \/ Open
  \/ \E n \in 1 .. W : MayRead(n) /\ \E v \in 0 .. Pow(n) - 1 : Read(n, v)
  \/ MayRead(1) /\ \E v \in 0 .. 1 : Pop(v)

StreamSpec == StreamInit /\ [][StreamNext]_<<writer, reader>>

-----------------------------------------------------------------------------
StreamTypeOK ==
  /\ file \in Seq(Words)
  /\ waitingbits \in 0 .. W - 1
  /\ ~flushed => obuffer \in 0 .. Pow(waitingbits) - 1
  /\ readbits \in 0 .. W
  /\ ibuffer \in 0 .. Pow(readbits) - 1

(* Every bit read is the bit written at its place, wherever the word       *)
(* boundaries fall and however writer and reader cut the bits into calls;  *)
(* and no more are read than were written.                                 *)
ReadsWhatWasWritten == IsPrefix(received, sent)

(* How far the reader gets: it never takes more than one word too many,    *)
(* and that one only if the bits fill their last word: then whoever reads  *)
(* on behind the stream finds a word missing.                              *)
TakesItsWords ==
  received = sent /\ spos > 0 =>
    spos = IF Len(sent) % W = 0 THEN Len(file) + 1 ELSE Len(file)
=============================================================================
