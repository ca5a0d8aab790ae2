------------------------------ MODULE MCEnigma ------------------------------
(* Words of two low bits and one flag, and counts of two bits: all files   *)
(* of three words, and those of six, every other word value apart, that    *)
(* fill the inline buffer; and runs that fill a count or wrap.             *)
EXTENDS Enigma

MCWords == 0 .. Pow(LowBits + FlagBits) - 1
HasLow(f) == \E i \in DOMAIN f : f[i] % Pow(LowBits) # 0

Runs == {[k \in 1 .. n |-> (a + k * d) % 8] : n \in 5 .. 8, a \in MCWords, d \in {0, 1, 7}}
MCFiles ==
  {f \in UNION {[1 .. k -> MCWords] : k \in 1 .. 3} \cup [1 .. 6 -> {0, 2, 4, 6}]
         \cup Runs \cup {<< 7 >> \o r \o << 7, 7 >> : r \in Runs} : HasLow(f)}
=============================================================================
