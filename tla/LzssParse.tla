------------------------------ MODULE LzssParse ------------------------------
(***************************************************************************)
(* find_optimal_lzss_parse of lzss.hh, with SlidingWindow and AdjListNode: *)
(* one pass over the nodes of the file, in which every node relaxes the    *)
(* edges its literal and its sliding windows give, and a walk back along   *)
(* the parents.  The format is a template argument: chosen once.           *)
(***************************************************************************)
EXTENDS Integers, Sequences, SequencesExt

CONSTANTS
  Adaptors,             (* the formats: for each name one of LzssAdaptors,  *)
                        (* possibly with its windows scaled down            *)
  Inputs                (* for each, the files: sequences of symbols        *)

(* What an adaptor is.  Zeros are filled by the one window of Saxman.      *)
EdgeTypes(A) ==
  {"symbolwise"} \cup {A.windows[i].type : i \in DOMAIN A.windows}
                 \cup {t \in {"zerofill"} : A.extra = t}

AdaptorOK(A) ==
  /\ {A.FirstMatchPosition, A.SearchBufSize, A.NumTermBits, A.TerminatorWeight, A.padMask} \subseteq Nat
  /\ A.NumDescBits \in Nat \ {0} /\ A.NeedEarlyDescriptor \in BOOLEAN
  /\ A.windows \in Seq([buf : Nat, min : Nat \ {0}, max : Nat, type : STRING])
  /\ Len(A.windows) > 0 /\ (A.extra = "zerofill" => Len(A.windows) = 1)
  /\ \A t \in EdgeTypes(A) : {A.codes.desc[t], A.codes.param[t], A.codes.unit[t]} \subseteq Nat

(* rocket::encode puts what lies before the first position into the file.  *)
ASSUME FormatAssumption ==
  /\ DOMAIN Inputs = DOMAIN Adaptors
  /\ \A f \in DOMAIN Adaptors :
       /\ AdaptorOK(Adaptors[f])
       /\ \A s \in Inputs[f] : s \in Seq(Nat) /\ Len(s) >= Adaptors[f].FirstMatchPosition

(* numeric_limits<size_t>::max(), the cost of a node that is not reached:  *)
(* no file is so long that its literals would cost as much.                *)
Infinity == 1000000000

LiteralWeight(A) ==
  A.codes.desc["symbolwise"] + A.codes.param["symbolwise"] + 8 * A.codes.unit["symbolwise"]

ASSUME CostAssumption ==
  \A f \in DOMAIN Adaptors : \A s \in Inputs[f] :
    LET A == Adaptors[f] IN
      Len(s) * LiteralWeight(A) + A.TerminatorWeight + A.NumDescBits + A.padMask < Infinity

VARIABLES
  format,
  data,                 (* the file; data[i] of the code is data[i + 1]     *)
  node,                 (* ii                                               *)
  layer,                (* 0: the literal is next; n: window n is           *)
  windows,              (* basenode, ubound and lbound of each window       *)
  costs, desccosts, parents, pedges,
  parselist,            (* the parse, once the pass is over                 *)
  at                    (* ii of the walk back                              *)

vars == <<format, data, node, layer, windows, costs, desccosts, parents, pedges, parselist, at>>

Adaptor == Adaptors[format]
First == Adaptor.FirstMatchPosition
NoEdge == [pos |-> 0, len |-> 0, dist |-> 0, type |-> "invalid"]
Layers == Len(Adaptor.windows)
Least(a, b) == IF a < b THEN a ELSE b

nlen == Len(data)
numNodes == nlen - First
Symbol(p) == data[p + 1]

-----------------------------------------------------------------------------
(* AdjListNode.                                                            *)
Edge(p, d, n, t) == [pos |-> p, dist |-> d, len |-> n, type |-> t]
Dest(e) == e.pos + e.len
DescBits(e) == Adaptor.codes.desc[e.type]
Weight(e) == DescBits(e) + Adaptor.codes.param[e.type] + 8 * Adaptor.codes.unit[e.type] * e.len

(* SlidingWindow's constructor and slideWindow.                            *)
OpenWindow(w, n) ==
  [basenode |-> First, ubound |-> Least(First + w.max, n),
   lbound |-> IF First > w.buf THEN First - w.buf ELSE 0]

Slide_KeepsLbound(w, s) ==               \* a slip: the far end is not moved
  LET base == IF s.basenode # nlen THEN s.basenode + 1 ELSE s.basenode IN
  [basenode |-> base,
   ubound |-> IF s.ubound # nlen THEN s.ubound + 1 ELSE s.ubound,
   lbound |-> s.lbound]

Slide(w, s) ==
  LET base == IF s.basenode # nlen THEN s.basenode + 1 ELSE s.basenode IN
  [basenode |-> base,
   ubound |-> IF s.ubound # nlen THEN s.ubound + 1 ELSE s.ubound,
   lbound |-> IF base - s.lbound > w.buf THEN s.lbound + 1 ELSE s.lbound]

(* The number of symbols, at most ubound - basenode, that agree with those *)
(* at i: the search may run into the look-ahead, a match of itself.        *)
Agreement(s, i) ==
  LET end == s.ubound - s.basenode IN
  Min({n \in 0 .. end : n = end \/ Symbol(i + n) # Symbol(s.basenode + n)})

(* find_matches: the longest match, the nearest of its length, and its     *)
(* prefixes of at least the minimum length.                                *)
Matches(w, s) ==
  IF s.basenode = s.lbound THEN {}
  ELSE LET best == Max({Agreement(s, i) : i \in s.lbound .. s.basenode - 1})
           from == Max({i \in s.lbound .. s.basenode - 1 : Agreement(s, i) = best})
       IN  {Edge(s.basenode, s.basenode - from, n, w.type) : n \in w.min .. best}

(* extra_matches of Saxman: runs of zeros, whose distance, Infinity, is    *)
(* none.                                                                   *)
ZeroRun(s) ==
  LET end == s.ubound - s.basenode IN
  Min({n \in 0 .. end : n = end \/ Symbol(s.basenode + n) # 0})

ZeroFills_Anywhere(s) ==                 \* a slip: also past the first block
  {Edge(s.basenode, Infinity, n, "zerofill") : n \in 3 .. ZeroRun(s)}

ZeroFills(s) ==
  IF s.basenode >= Adaptor.SearchBufSize - 1 THEN {}
  ELSE {Edge(s.basenode, Infinity, n, "zerofill") : n \in 3 .. ZeroRun(s)}

(* What a node gets from a window.  Zero fills stand instead of matches.   *)
(* The packed literals that lzkn1's extra_matches adds come with "do       *)
(* normal matches", and find_matches begins with clearing what it is given *)
(* (lzss.hh:159): they reach no parse.                                     *)
EdgesOf(w, s) ==
  IF Adaptor.extra = "zerofill" /\ ZeroFills(s) # {} THEN ZeroFills(s)
  ELSE Matches(w, s)

-----------------------------------------------------------------------------
(* Relax: what edge e adds to the cost and the descriptor bits of its end. *)
(* The ending node takes the terminator, the rest of the descriptor field  *)
(* it leaves open (a whole dummy one if the adaptor fetches early) and the *)
(* adaptor's padding.                                                      *)
Ending(e) == Dest(e) - First = nlen

FieldRest_NoDummy(d) ==                  \* a slip: a full field needs no dummy
  LET m == d % Adaptor.NumDescBits IN IF m # 0 THEN Adaptor.NumDescBits - m ELSE 0

FieldRest(d) ==
  LET m == d % Adaptor.NumDescBits IN
  IF m # 0 \/ Adaptor.NeedEarlyDescriptor THEN Adaptor.NumDescBits - m ELSE 0

Padding(w) == (-w) % (Adaptor.padMask + 1)

Reached(cost, desc, e) ==
  LET w == cost + Weight(e)
      d == desc + DescBits(e)
      r == FieldRest(d + Adaptor.NumTermBits)
      t == w + Adaptor.TerminatorWeight + r
  IN  IF Ending(e) THEN [cost |-> t + Padding(t), desc |-> d + Adaptor.NumTermBits + r]
      ELSE [cost |-> w, desc |-> d]

(* A slip: a node keeps the first edge that reaches it.                    *)
Relaxing_FirstOnly(edges) ==
  LET new(n) == {e \in edges : Dest(e) - First = n /\ costs[n] = Infinity}
      first(n) == CHOOSE e \in new(n) : TRUE
      reached(n) == Reached(costs[node], desccosts[node], first(n))
  IN  /\ costs' = [n \in DOMAIN costs |-> IF new(n) # {} THEN reached(n).cost ELSE costs[n]]
      /\ desccosts' = [n \in DOMAIN costs |-> IF new(n) # {} THEN reached(n).desc ELSE desccosts[n]]
      /\ parents' = [n \in DOMAIN costs |-> IF new(n) # {} THEN node ELSE parents[n]]
      /\ pedges' = [n \in DOMAIN costs |-> IF new(n) # {} THEN first(n) ELSE pedges[n]]

(* Relaxing the edges of the current node; they end at different nodes.    *)
Relaxing(edges) ==
  LET reached(e) == Reached(costs[node], desccosts[node], e)
      better(n) == {e \in edges : Dest(e) - First = n /\ costs[n] > reached(e).cost}
      best(n) == CHOOSE e \in better(n) : TRUE
  IN  /\ costs' = [n \in DOMAIN costs |-> IF better(n) # {} THEN reached(best(n)).cost ELSE costs[n]]
      /\ desccosts' = [n \in DOMAIN costs |-> IF better(n) # {} THEN reached(best(n)).desc ELSE desccosts[n]]
      /\ parents' = [n \in DOMAIN costs |-> IF better(n) # {} THEN node ELSE parents[n]]
      /\ pedges' = [n \in DOMAIN costs |-> IF better(n) # {} THEN best(n) ELSE pedges[n]]

Init ==
  /\ format \in DOMAIN Adaptors
  /\ data \in Inputs[format]
  /\ node = 0
  /\ layer = 0
  /\ windows = [i \in 1 .. Layers |-> OpenWindow(Adaptor.windows[i], nlen)]
  /\ costs = [n \in 0 .. numNodes |-> IF n = 0 THEN 0 ELSE Infinity]
  /\ desccosts = [n \in 0 .. numNodes |-> IF n = 0 THEN 0 ELSE Infinity]
  /\ parents = [n \in 0 .. numNodes |-> 0]
  /\ pedges = [n \in 0 .. numNodes |-> NoEdge]
  /\ parselist = <<>>
  /\ at = numNodes

Symbolwise ==
  /\ node < numNodes /\ layer = 0
  /\ Relaxing({Edge(node + First, 0, 1, "symbolwise")})
  /\ layer' = 1
  /\ UNCHANGED <<format, data, node, windows, parselist, at>>

SearchWindow ==
  /\ node < numNodes /\ layer > 0
  /\ Relaxing(EdgesOf(Adaptor.windows[layer], windows[layer]))
  /\ windows' = [windows EXCEPT ![layer] = Slide(Adaptor.windows[layer], @)]
  /\ IF layer < Layers THEN layer' = layer + 1 /\ UNCHANGED node
     ELSE layer' = 0 /\ node' = node + 1
  /\ UNCHANGED <<format, data, parselist, at>>

WalkBack ==
  /\ node = numNodes /\ at # 0
  /\ parselist' = <<pedges[at]>> \o parselist
  /\ at' = parents[at]
  /\ UNCHANGED <<format, data, node, layer, windows, costs, desccosts, parents, pedges>>

Next == Symbolwise \/ SearchWindow \/ WalkBack
Spec == Init /\ [][Next]_vars

-----------------------------------------------------------------------------
TypeOK ==
  /\ format \in DOMAIN Adaptors
  /\ node \in 0 .. numNodes /\ layer \in 0 .. Layers
  /\ \A i \in 1 .. Layers :
       LET s == windows[i] IN
         0 <= s.lbound /\ s.lbound <= s.basenode /\ s.basenode <= s.ubound /\ s.ubound <= nlen
  /\ costs \in [0 .. numNodes -> Nat] /\ desccosts \in [0 .. numNodes -> Nat]
  /\ parents \in [0 .. numNodes -> 0 .. numNodes]
  /\ at \in 0 .. numNodes

(* Every window stands at the node being relaxed, reaches back exactly as  *)
(* far as its search buffer and forward exactly as far as its look-ahead,  *)
(* clipped to the file: the windows are moved one step at a time, each by  *)
(* itself, and never recomputed.                                           *)
WindowsFollowNode ==
  \A i \in 1 .. Layers :
    LET w == Adaptor.windows[i]
        s == windows[i]
        p == First + (IF i < layer THEN node + 1 ELSE node)
    IN  /\ s.basenode = p
        /\ s.lbound = IF p > w.buf THEN p - w.buf ELSE 0
        /\ s.ubound = Least(p + w.max, nlen)

(* A back reference the format can express, to symbols that are the same.  *)
Genuine(e) ==
  \/ e.type = "symbolwise" /\ e.len = 1
  \/ \E i \in 1 .. Layers :
       LET w == Adaptor.windows[i] IN
         /\ e.type = w.type
         /\ e.len \in w.min .. w.max
         /\ e.dist \in 1 .. Least(w.buf, e.pos)
         /\ \A k \in 0 .. e.len - 1 : Symbol(e.pos + k) = Symbol(e.pos + k - e.dist)
  \/ /\ e.type = "zerofill" /\ Adaptor.extra = "zerofill"
     /\ e.len \in 3 .. Adaptor.windows[1].max
     /\ e.pos < Adaptor.SearchBufSize - 1
     /\ \A k \in 0 .. e.len - 1 : Symbol(e.pos + k) = 0
  \/ e.type = "packed_symbolwise" /\ e.len \in 8 .. 71

(* Whatever edge a node is reached by, it comes from the node's parent, is *)
(* one the format can express, and covers symbols it reproduces.           *)
EdgesAreGenuine ==
  \A n \in 1 .. numNodes :
    costs[n] # Infinity =>
      /\ pedges[n].pos = parents[n] + First
      /\ Dest(pedges[n]) = n + First
      /\ Dest(pedges[n]) <= nlen
      /\ Genuine(pedges[n])

(* The pass and the walk back are over: parselist is the parse.            *)
Finished == node = numNodes /\ at = 0

(* The reference: every way of writing the file the format has, whether    *)
(* the windows find it or not, as pairs of total bits and descriptor bits. *)
AllEdges(p) ==
  {Edge(p, 0, 1, "symbolwise")} \cup
  {e \in (UNION {{Edge(p, d, n, Adaptor.windows[i].type) :
                    d \in 1 .. Least(p, Adaptor.windows[i].buf),
                    n \in 1 .. Least(nlen - p, Adaptor.windows[i].max)} : i \in 1 .. Layers})
     \cup {Edge(p, Infinity, n, t) :
             n \in 1 .. nlen - p, t \in DOMAIN Adaptor.codes.desc \cap {"zerofill", "packed_symbolwise"}} :
     Genuine(e)}

Ways(edges(_)) ==
  LET shapes == [p \in First .. nlen - 1 |->
                   {[to |-> Dest(e), weight |-> Weight(e), desc |-> DescBits(e)] : e \in edges(p)}]
      ways[n \in First .. nlen] ==
        IF n = First THEN {<<0, 0>>}
        ELSE UNION {{<<c[1] + x.weight, c[2] + x.desc>> :
                       c \in ways[p], x \in {y \in shapes[p] : y.to = n}} : p \in First .. n - 1}
  IN  ways[nlen]

(* The edges the code looks at: no packed literals, and no dictionary      *)
(* match where zeros can be filled.                                        *)
Considered(p) ==
  LET edges == {e \in AllEdges(p) : e.type # "packed_symbolwise"} IN
    IF \E e \in edges : e.type = "zerofill"
      THEN {e \in edges : e.type \in {"symbolwise", "zerofill"}} ELSE edges
=============================================================================
