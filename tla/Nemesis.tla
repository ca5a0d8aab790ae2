------------------------------ MODULE Nemesis -------------------------------
(***************************************************************************)
(* nemesis.cc: encode makes four attempts at a file (its lines as they are *)
(* or each XORed with the one before; the runs that are to have a code     *)
(* given up in one of two orders), each of which tries one set of runs     *)
(* after another; the shortest is kept, and decode reads it back.          *)
(***************************************************************************)
EXTENDS NemesisCodes

CONSTANTS
  LineNibbles, Lines,   (* nibbles of a line (8), lines of a tile (8)       *)
  Files                 (* the files: sequences of nibbles                  *)

(* encode has no defined result for an empty file: sin.size() - 4.         *)
ASSUME NemesisAssumption ==
  /\ LineNibbles \in Nat \ {0} /\ Lines \in Nat \ {0}
  /\ << >> \notin Files

VARIABLES
  file,
  pc,                   (* counts, codes, write, choose, header, bits, done *)
  buffers,              (* the encodings made so far                        *)
  rleSrc, counts, qt,   (* this attempt: runs of the source, how often each *)
                        (* occurs, and those still to have a code           *)
  temp,                 (* the table of the last set of runs                *)
  best,                 (* codemap and size_est                             *)
  spos, code, out       (* decode: bits taken, bits of the code so far, and *)
                        (* the nibbles written                              *)

attempt == <<rleSrc, counts, qt, temp, best>>
decoder == <<spos, code, out>>
vars == <<file, pc, buffers, attempt, decoder>>

-----------------------------------------------------------------------------
Tile == LineNibbles * Lines
Padded == file \o [n \in 1 .. (-Len(file)) % Tile |-> 0]

Value(bits) == FoldLeft(LAMBDA acc, b : 2 * acc + b, 0, bits)
Xor(a, b) ==
  Value([i \in 1 .. NibbleBits |-> (BitsOf(a, NibbleBits)[i] + BitsOf(b, NibbleBits)[i]) % 2])
XorWith(s, i, j) == [s EXCEPT ![i] = Xor(@, s[j])]

(* The alternating source: from the last line to the second.               *)
Alternated_Forwards(s) ==                \* a slip: from the second to the last
  FoldLeft(LAMBDA t, i : XorWith(t, i, i - LineNibbles), s,
           [k \in 1 .. Len(s) - LineNibbles |-> k + LineNibbles])

Alternated(s) ==
  FoldRight(LAMBDA i, t : XorWith(t, i, i - LineNibbles),
            [k \in 1 .. Len(s) - LineNibbles |-> k + LineNibbles], s)

(* What decode makes of it: line by line, with the line it has just put.   *)
Restored(s) ==
  FoldLeft(LAMBDA t, i : XorWith(t, i, i - LineNibbles), s,
           [k \in 1 .. Len(s) - LineNibbles |-> k + LineNibbles])

(* Attempts 1 and 2 have the lines as they are, 3 and 4 alternate; 1 and 3 *)
(* compare with Compare_node, 2 and 4 with Compare_node2.                  *)
Current == Len(buffers) + 1
Mode(n) == IF n \in {3, 4} THEN 1 ELSE 0
Source(n) == IF Mode(n) = 1 THEN Alternated(Padded) ELSE Padded

(* The source as runs of up to MaxCount + 1 nibbles.                       *)
RunsOf(s) ==
  FoldLeft(LAMBDA runs, x :
             IF runs # << >> /\ Last(runs).nibble = x /\ Last(runs).count < MaxCount
             THEN Front(runs) \o << Run(x, Last(runs).count + 1) >>
             ELSE Append(runs, Run(x, 0)),
           << >>, s)

-----------------------------------------------------------------------------
(* update: the run that is given up.  What the heap gives among several    *)
(* that compare equal is up to the library.                                *)
Before(f, g) == \E i \in DOMAIN f : f[i] < g[i] /\ \A j \in 1 .. i - 1 : f[j] = g[j]
Least(S, key(_)) == {r \in S : \A o \in S : ~Before(key(o), key(r))}

ByWeight(r) == <<counts[r], -r.count>>

BitsSpent(codemap, r) ==
  IF r \in DOMAIN codemap
  THEN Len(codemap[r]) * counts[r] + 2 * ByteBits
  ELSE InlineBits * counts[r]
ByBits(codemap, r) == <<BitsSpent(codemap, r), -(r.count + 1) * counts[r], -r.count>>

GivenUp(codemap) ==
  IF Current \in {1, 3}
  THEN Least(qt, ByWeight)
  ELSE Least(qt, LAMBDA r : ByBits(codemap, r))

-----------------------------------------------------------------------------
Nothing == << >>
NoBest == [codemap |-> Nothing, own |-> {}, size |-> -1]
Better(new, old) == old.size = -1 \/ new.size < old.size

(* A table, with the false codes estimate_file_size puts in.               *)
Completed(codemap) ==
  LET sup == Supplement(codemap, counts) IN
  [codemap |-> codemap @@ sup, own |-> DOMAIN codemap, size |-> Estimate(codemap, sup, counts)]

CountRuns ==
  /\ pc = "counts"
  /\ LET runs == RunsOf(Source(Current)) IN
       /\ rleSrc' = runs
       /\ counts' = [r \in Range(runs) |-> Cardinality({k \in DOMAIN runs : runs[k] = r})]
  /\ qt' = {r \in DOMAIN counts' : counts'[r] > 1}
  /\ best' = NoBest
  /\ temp' = Nothing
  /\ pc' = "codes"
  /\ UNCHANGED <<file, buffers, decoder>>

(* One turn of the loop over fewer and fewer runs.                         *)
TryCodes ==
  /\ pc = "codes"
  /\ Cardinality(qt) > 1
  /\ temp' = CodeMap(counts, CodeLengths(counts, qt))
  /\ LET new == Completed(temp') IN
       /\ \E r \in GivenUp(new.codemap) : qt' = qt \ {r}
       /\ best' = IF Better(new, best) THEN new ELSE best
  /\ UNCHANGED <<file, pc, buffers, rleSrc, counts, decoder>>

TryOneCode ==
  /\ pc = "codes"
  /\ Cardinality(qt) = 1
  /\ temp' = [r \in qt |-> << 0 >>]
  /\ best' = IF Better(Completed(temp'), best) THEN Completed(temp') ELSE best
  /\ pc' = "write"
  /\ UNCHANGED <<file, buffers, rleSrc, counts, qt, decoder>>

NoCodes ==
  /\ pc = "codes"
  /\ qt = {}
  /\ pc' = "write"
  /\ UNCHANGED <<file, buffers, attempt, decoder>>

(* The table: the runs that have a code of their own, in order; a nibble   *)
(* is named where it changes.                                              *)
SetNibble(n) == [set |-> n]
Entry(r, c) == [count |-> r.count, code |-> c]
Header(codemap, own) ==
  LET runs == SetToSortSeq(own, LAMBDA a, b : \/ a.nibble < b.nibble
                                              \/ a.nibble = b.nibble /\ a.count < b.count)
  IN  FlattenSeq([k \in DOMAIN runs |->
        (IF k = 1 \/ runs[k].nibble # runs[k - 1].nibble THEN << SetNibble(runs[k].nibble) >> ELSE <<>>)
          \o << Entry(runs[k], codemap[runs[k]]) >>])

BitsOfRun(codemap, r) ==
  IF r \in DOMAIN codemap THEN codemap[r]
  ELSE Ones(Reserved) \o BitsOf(r.count, CountBits) \o BitsOf(r.nibble, NibbleBits)

Flushed(bits) == bits \o [n \in 1 .. (-Len(bits)) % ByteBits |-> 0]

HeaderBytes(h) == 3 + FoldLeft(LAMBDA n, e : n + IF "set" \in DOMAIN e THEN 1 ELSE 2, 0, h)
Bytes(b) == HeaderBytes(b.header) + (Len(b.bits) \div ByteBits)

WriteFile ==
  /\ pc = "write"
  /\ buffers' = Append(buffers,
       [mode |-> Mode(Current), rtiles |-> Len(Padded) \div Tile, estimate |-> best.size,
        header |-> Header(best.codemap, best.own),
        bits |-> Flushed(FlattenSeq([k \in DOMAIN rleSrc |-> BitsOfRun(best.codemap, rleSrc[k])]))])
  /\ pc' = IF Len(buffers') = 4 THEN "header" ELSE "counts"
  /\ UNCHANGED <<file, attempt, decoder>>

(* The first of the shortest is the file.                                  *)
Chosen ==
  buffers[Min({n \in DOMAIN buffers : \A m \in DOMAIN buffers : Bytes(buffers[n]) <= Bytes(buffers[m])})]

-----------------------------------------------------------------------------
(* decode_header.                                                          *)
Table(h) ==
  FoldLeft(LAMBDA t, e :
             IF "set" \in DOMAIN e THEN [t EXCEPT !.nibble = e.set]
             ELSE [t EXCEPT !.runs = (e.code :> Run(t.nibble, e.count)) @@ @],
           [nibble |-> 0, runs |-> Nothing], h).runs
Codes == Table(Chosen.header)

(* What the next n bits may be.  Past the end Read leaves the buffer it    *)
(* returns as it was, which is anything (bigendian_io.hh:300).             *)
Ahead(n) ==
  LET there == SubSeq(Chosen.bits, spos + 1, Min({spos + n, Len(Chosen.bits)})) IN
    {there \o past : past \in [1 .. n - Len(there) -> 0 .. 1]}
TotalNibbles == Chosen.rtiles * Tile
Times(x, n) == [k \in 1 .. n |-> x]

ReadHeader ==
  /\ pc = "header"
  /\ spos' = 1
  /\ code' \in Ahead(1)
  /\ pc' = "bits"
  /\ UNCHANGED <<file, buffers, attempt, out>>

(* A run is done with; the first bit of the next code is taken, if there   *)
(* is one to come.                                                         *)
RunEnds(x, n, used) ==
  /\ out' = out \o Times(x, n)
  /\ IF Len(out') >= TotalNibbles
     THEN /\ pc' = "done"
          /\ spos' = spos + used
          /\ code' = << >>
     ELSE /\ spos' = spos + used + 1
          /\ \E r \in Ahead(used + 1) : code' = << r[used + 1] >>
          /\ UNCHANGED pc

Inlined ==
  /\ pc = "bits"
  /\ code = Ones(Reserved)
  /\ \E r \in Ahead(CountBits + NibbleBits) :
       RunEnds(Value(SubSeq(r, CountBits + 1, Len(r))), Value(SubSeq(r, 1, CountBits)) + 1, Len(r))
  /\ UNCHANGED <<file, buffers, attempt>>

Coded ==
  /\ pc = "bits"
  /\ code # Ones(Reserved)
  /\ code \in DOMAIN Codes
  /\ RunEnds(Codes[code].nibble, Codes[code].count + 1, 0)
  /\ UNCHANGED <<file, buffers, attempt>>

LongerCode ==
  /\ pc = "bits"
  /\ code \notin DOMAIN Codes \cup {Ones(Reserved)}
  /\ spos' = spos + 1
  /\ \E r \in Ahead(1) : code' = code \o r
  /\ UNCHANGED <<file, pc, buffers, attempt, out>>

(* What is put to Dst: rtiles tiles.                                       *)
Decoded ==
  LET s == SubSeq(out, 1, TotalNibbles) IN IF Chosen.mode = 1 THEN Restored(s) ELSE s

-----------------------------------------------------------------------------
Init ==
  /\ file \in Files
  /\ pc = "counts"
  /\ buffers = << >>
  /\ rleSrc = << >> /\ counts = Nothing /\ qt = {} /\ temp = Nothing /\ best = NoBest
  /\ spos = 0 /\ code = << >> /\ out = << >>

Next ==
  \/ CountRuns \/ TryCodes \/ TryOneCode \/ NoCodes \/ WriteFile
  \/ ReadHeader \/ Inlined \/ Coded \/ LongerCode

Spec == Init /\ [][Next]_vars

-----------------------------------------------------------------------------
(* No code of a table begins another, nor an inlined run, nor does an      *)
(* inlined run begin a code, and the table has room for each: what the     *)
(* demotion of codes in the loop over the lengths is for.                  *)
CodesArePrefixFree ==
  /\ \A r \in DOMAIN temp : Len(temp[r]) \in 1 .. CodeMax
  /\ \A r, o \in DOMAIN temp : r # o => ~IsPrefix(temp[r], temp[o])
  /\ \A r \in DOMAIN temp : ~IsPrefix(temp[r], Ones(Reserved)) /\ ~IsPrefix(Ones(Reserved), temp[r])

(* Package-merge gives each set of runs the lengths that cost least among  *)
(* all that leave a prefix-free code of at most CodeMax bits ("the optimal *)
(* length-limited Huffman code for the current file").                     *)
LengthsAreOptimal ==
  pc = "codes" /\ Cardinality(qt) > 1 =>
    LET lens == CodeLengths(counts, qt) IN
      /\ Kraft(lens)
      /\ Cost(counts, lens) = LeastCost(counts, qt)

(* The size a table was preferred for is the size of the file that is then *)
(* written with it: estimate_file_size counts what the header, the coded,  *)
(* the broken up and the inlined runs take.                                *)
EstimateIsFileSize ==
  \A n \in DOMAIN buffers :
    buffers[n].estimate # -1 => buffers[n].estimate = ByteBits * Bytes(buffers[n])

(* decode gives back the file, padded to whole tiles, having taken no bit  *)
(* that is not there: the false codes decode as the runs they stand for,   *)
(* and the alternated lines are undone.                                    *)
DecodesToFile ==
  /\ pc = "bits" => IsPrefix(out, IF Chosen.mode = 1 THEN Alternated(Padded) ELSE Padded)
  /\ pc = "done" => Decoded = Padded
  /\ pc \in {"bits", "done"} => spos <= Len(Chosen.bits)
=============================================================================
