----------------------------- MODULE MCNemesis ------------------------------
(* Nibbles of two bits, runs of up to four, codes of up to three bits, and  *)
(* two ones before an inlined run: words said three times over, so that    *)
(* runs recur and tables pay, and each once, when nothing does.            *)
EXTENDS Nemesis

Words == UNION {[1 .. k -> 0 .. 2] : k \in 3 .. 4} \cup [1 .. 5 -> {0, 3}]
Long == {[k \in 1 .. 9 |-> (a + b * k * k + (k \div c)) % 4] : a, b \in 0 .. 3, c \in 1 .. 4}
(* Runs whose unlimited Huffman codes take four bits.                      *)
Others == << <<1>>, <<1, 1>>, <<2>>, <<1>>, <<3>>, <<1>>, <<2>>, <<1>>, <<1, 1>>, <<1>>, <<3>>, <<2>>, <<1>> >>
Skewed(x) == FlattenSeq([k \in 1 .. 13 |-> Others[k] \o <<x>>])

MCFiles ==
  Words \cup {w \o w \o w : w \in Words} \cup {w \o w : w \in Long} \cup {Skewed(x) : x \in {0, 3}}
=============================================================================
