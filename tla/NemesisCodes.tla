---------------------------- MODULE NemesisCodes ----------------------------
(***************************************************************************)
(* The code tables of nemesis.cc: how long the code of each nibble run is  *)
(* to be (package-merge), which codes of those lengths are given away, how *)
(* runs without a code are broken up, and what the file is going to take.  *)
(* A run of n + 1 times a nibble is [nibble, count |-> n].                 *)
(***************************************************************************)
EXTENDS Integers, Sequences, SequencesExt

CONSTANTS
  CodeMax,              (* bits of the longest code (8)                     *)
  Reserved,             (* ones that begin an inlined run (6)               *)
  CountBits, NibbleBits,(* what follows them (3 and 4)                      *)
  ByteBits              (* bits of a byte (8)                               *)

ASSUME CodesAssumption ==
  /\ Reserved \in Nat \ {0, 1} /\ CodeMax \in Nat /\ CodeMax > Reserved
  /\ {CountBits, NibbleBits, ByteBits} \subseteq Nat \ {0}

Pow(n) == 2 ^ n
BitsOf(v, n) == [i \in 1 .. n |-> (v \div Pow(n - i)) % 2]
Ones(n) == [i \in 1 .. n |-> 1]
InlineBits == Reserved + CountBits + NibbleBits
MaxCount == Pow(CountBits) - 1

Run(nibble, count) == [nibble |-> nibble, count |-> count]
SumOver(S, f(_)) == FoldSet(LAMBDA x, acc : acc + f(x), 0, S)

-----------------------------------------------------------------------------
(* A coin: a run, or a package of them; uses[r] counts run r.  counts is   *)
(* how often each run occurs in the file.                                  *)
Coin(counts, runs, r) ==
  [weight |-> counts[r], count |-> r.count, uses |-> [x \in runs |-> IF x = r THEN 1 ELSE 0]]
Package(a, b) ==
  [weight |-> a.weight + b.weight, count |-> 0, uses |-> [x \in DOMAIN a.uses |-> a.uses[x] + b.uses[x]]]

(* The queue gives the lightest first (Compare_node), among those the      *)
(* longest run; which of several that are equal is up to the library.      *)
Sooner(a, b) == a.weight < b.weight \/ (a.weight = b.weight /\ a.count > b.count)
Queue(s) == SortSeq(s, Sooner)

Pairs(q) == [k \in 1 .. Len(q) \div 2 |-> Package(q[2 * k - 1], q[2 * k])]

(* One denomination: if the target has it, the lightest coin is taken; the *)
(* others are packed in pairs for the next, which has coins of its own as  *)
(* long as there are such denominations.                                   *)
Denomination_KeepsCoin(coins, s, idx) == \* a slip: what is taken stays in the queue
  LET takes == (s.target \div Pow(idx)) % 2 = 1
  IN  [target |-> IF takes THEN s.target - Pow(idx) ELSE s.target,
       solution |-> IF takes THEN Append(s.solution, Head(s.q)) ELSE s.solution,
       q |-> Queue((IF idx < CodeMax - 1 THEN coins ELSE <<>>) \o Pairs(s.q))]

Denomination(coins, s, idx) ==
  LET takes == (s.target \div Pow(idx)) % 2 = 1
      rest == IF takes THEN Tail(s.q) ELSE s.q
  IN  [target |-> IF takes THEN s.target - Pow(idx) ELSE s.target,
       solution |-> IF takes THEN Append(s.solution, Head(s.q)) ELSE s.solution,
       q |-> Queue((IF idx < CodeMax - 1 THEN coins ELSE <<>>) \o Pairs(rest))]

(* The number of times a run is in the solution is the length of its code. *)
CodeLengths(counts, runs) ==
  LET coins == Queue([k \in 1 .. Cardinality(runs) |-> Coin(counts, runs, SetToSeq(runs)[k])])
      start == [target |-> (Len(coins) - 1) * Pow(CodeMax), solution |-> <<>>, q |-> coins]
      end == FoldLeft(LAMBDA s, n : IF s.target = 0 THEN s ELSE Denomination(coins, s, n - 1),
                      start, [n \in 1 .. CodeMax + Len(coins) |-> n])
  IN  [r \in runs |-> FoldLeft(LAMBDA acc, c : acc + c.uses[r], 0, end.solution)]

-----------------------------------------------------------------------------
(* The codes of i bits are consecutive.  One that is all ones, or begins   *)
(* with the reserved ones, is not given away: it and what would follow it  *)
(* are left to longer codes, and past the longest to none.                 *)
Forbidden_OnlyOnes(i) == Pow(i) - 1      \* a slip: no mask2
Forbidden(i) == IF i <= Reserved THEN Pow(i) - 1 ELSE (Pow(Reserved) - 1) * Pow(i - Reserved)

CodesOf(sizecounts) ==
  FoldLeft(LAMBDA s, i :
             LET cnt == sizecounts[i] + s.carry
                 n == IF Forbidden(i) \in s.base .. s.base + cnt - 1 THEN Forbidden(i) - s.base ELSE cnt
             IN  [base |-> 2 * (s.base + n), carry |-> cnt - n,
                  codes |-> s.codes \o [j \in 1 .. n |-> BitsOf(s.base + j - 1, i)]],
           [base |-> 0, carry |-> 0, codes |-> <<>>], [i \in 1 .. CodeMax |-> i]).codes

(* Compare_size: short codes first, then frequent runs, then the runs.     *)
Earlier(counts, lens, a, b) ==
  \/ lens[a] < lens[b]
  \/ lens[a] = lens[b] /\ counts[a] > counts[b]
  \/ /\ lens[a] = lens[b] /\ counts[a] = counts[b]
     /\ a.nibble < b.nibble \/ (a.nibble = b.nibble /\ a.count > b.count)

CodeMap(counts, lens) ==
  LET runs == DOMAIN lens
      sizemap == SortSeq(SetToSeq(runs), LAMBDA a, b : Earlier(counts, lens, a, b))
      codes == CodesOf([i \in 1 .. CodeMax |-> Cardinality({r \in runs : lens[r] = i})])
      coded == {k \in 1 .. Len(sizemap) : k <= Len(codes)}
  IN  [r \in {sizemap[k] : k \in coded} |-> codes[CHOOSE k \in coded : sizemap[k] = r]]

-----------------------------------------------------------------------------
(* The linear coefficient tables: the ways to make up m nibbles of runs of *)
(* at most k, the shortest run first.                                      *)
Partitions[m \in 0 .. MaxCount + 1, k \in 0 .. MaxCount + 1] ==
  IF m = 0 THEN {<<>>}
  ELSE IF k = 0 THEN {}
  ELSE Partitions[m, k - 1]
         \cup (IF k <= m THEN {Append(p, k) : p \in Partitions[m - k, k]} ELSE {})

LenOf(codemap, r) == IF r \in DOMAIN codemap THEN Len(codemap[r]) ELSE InlineBits
BrokenLen(codemap, r, p) ==
  FoldLeft(LAMBDA acc, n : acc + LenOf(codemap, Run(r.nibble, n - 1)), 0, p)

(* A run without a code is broken up if that takes less than to inline it; *)
(* its false code is the codes of its parts one after the other.           *)
Ways(codemap, r) ==
  {p \in Partitions[r.count + 1, r.count] : BrokenLen(codemap, r, p) < InlineBits}
BestWay(codemap, r) ==
  CHOOSE p \in Ways(codemap, r) :
    \A o \in Ways(codemap, r) : BrokenLen(codemap, r, p) <= BrokenLen(codemap, r, o)
FalseCode(codemap, r) ==
  LET p == BestWay(codemap, r) IN
    FlattenSeq([k \in DOMAIN p |-> codemap[Run(r.nibble, p[k] - 1)]])

(* supcodemap.                                                             *)
Supplement(codemap, counts) ==
  [r \in {x \in DOMAIN counts \ DOMAIN codemap : Ways(codemap, x) # {}} |-> FalseCode(codemap, r)]

Nibbles(runs) == {r.nibble : r \in runs}
RoundUp(n) == ByteBits * ((n + ByteBits - 1) \div ByteBits)

(* Bits of the file: the tile count and the end of the table, the table    *)
(* with a byte for every new nibble, and every run of the source.          *)
Estimate_PerRun(codemap, sup, counts) == \* a slip: last is never set
  RoundUp(ByteBits * (3 + 3 * Cardinality(DOMAIN codemap))
            + SumOver(DOMAIN counts, LAMBDA r : counts[r] * LenOf(codemap @@ sup, r)))

Estimate(codemap, sup, counts) ==
  RoundUp(ByteBits * (3 + Cardinality(Nibbles(DOMAIN codemap)) + 2 * Cardinality(DOMAIN codemap))
            + SumOver(DOMAIN counts, LAMBDA r : counts[r] * LenOf(codemap @@ sup, r)))

-----------------------------------------------------------------------------
(* The reference: the least any lengths up to the limit that leave a       *)
(* prefix-free code (Kraft's inequality) can cost.                         *)
Cost(counts, lens) == SumOver(DOMAIN lens, LAMBDA r : counts[r] * lens[r])
Kraft(lens) ==
  /\ \A r \in DOMAIN lens : lens[r] \in 1 .. CodeMax
  /\ SumOver(DOMAIN lens, LAMBDA r : Pow(CodeMax - lens[r])) <= Pow(CodeMax)
LeastCost(counts, runs) == Min({Cost(counts, l) : l \in {x \in [runs -> 1 .. CodeMax] : Kraft(x)}})
=============================================================================
