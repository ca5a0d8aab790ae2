-------------------------- MODULE LzssParseProofs --------------------------
(***************************************************************************)
(* Proofs about the parser of LzssParse, for every format, every window    *)
(* and every file: its windows keep their places, its variables their      *)
(* types, every edge it stores is one the format can express, and none it  *)
(* was offered would have made its end cheaper.                            *)
(***************************************************************************)
EXTENDS LzssParse, FiniteSetTheorems, TLAPS

(* A set of natural numbers has a least element: of the intervals below    *)
(* its members one is within all others, as strict inclusion of finite     *)
(* sets is well-founded.                                                   *)
Below(n) == 0 .. n - 1

LEMMA LeastOfNat ==
  ASSUME NEW S \in SUBSET Nat, S # {}
  PROVE  \E x \in S : \A y \in S : x <= y
<1> DEFINE T == {Below(n) : n \in S}
           R == StrictSubsetOrdering(Nat)
<1>1. \A n \in S : Below(n) \in FiniteSubsetsOf(Nat)
  <2>1. SUFFICES ASSUME NEW n \in S PROVE Below(n) \in FiniteSubsetsOf(Nat)
    OBVIOUS
  <2>2. n \in Nat /\ 0 \in Int /\ n - 1 \in Int
    OBVIOUS
  <2>3. IsFiniteSet(0 .. n - 1)
    BY <2>2, FS_Interval
  <2>4. 0 .. n - 1 \subseteq Nat
    BY <2>2
  <2>5. QED
    BY <2>3, <2>4 DEF Below, FiniteSubsetsOf
<1>2. T \subseteq FiniteSubsetsOf(Nat) /\ T # {}
  BY <1>1
<1>3. \E a \in T : \A b \in T : ~(<<b, a>> \in R)
  <2> HIDE DEF T, R
  <2>1. IsWellFoundedOn(R, FiniteSubsetsOf(Nat))
    BY FS_StrictSubsetOrderingWellFounded DEF R
  <2>2. QED
    BY <1>2, <2>1, WFMin
<1>4. PICK x \in S : \A n \in S : ~(<<Below(n), Below(x)>> \in R)
  BY <1>3
<1>5. \A n \in S : x <= n
  <2>1. SUFFICES ASSUME NEW n \in S, ~(x <= n) PROVE FALSE
    OBVIOUS
  <2>2. n \in Nat /\ x \in Nat /\ n < x
    BY <2>1
  <2>3. Below(n) \subseteq Below(x) /\ n \in Below(x) /\ n \notin Below(n)
    BY <2>2 DEF Below
  <2>4. Below(n) \in SUBSET Nat /\ Below(x) \in SUBSET Nat
    BY <1>1 DEF FiniteSubsetsOf
  <2>5. <<Below(n), Below(x)>> \in R
    BY <2>3, <2>4 DEF StrictSubsetOrdering
  <2>6. QED
    BY <1>4, <2>5
<1>6. QED
  BY <1>5

(* Min of a set of natural numbers is its least member.                    *)
LEMMA MinOfNat ==
  ASSUME NEW S \in SUBSET Nat, S # {}
  PROVE  Min(S) \in S /\ \A y \in S : Min(S) <= y
BY LeastOfNat DEF Min

(* And a bounded one its greatest member.                                  *)
LEMMA MaxOfNat ==
  ASSUME NEW S \in SUBSET Nat, S # {}, NEW b \in Nat, \A y \in S : y <= b
  PROVE  Max(S) \in S /\ \A y \in S : y <= Max(S)
<1> DEFINE D == {n \in Nat : b - n \in S}
<1>1. PICK s \in S : TRUE
  OBVIOUS
<1>2. b - s \in D
  OBVIOUS
<1>3. D \in SUBSET Nat /\ D # {}
  BY <1>2
<1>4. Min(D) \in D /\ \A n \in D : Min(D) <= n
  BY <1>3, MinOfNat
<1>5. b - Min(D) \in S /\ \A y \in S : y <= b - Min(D)
  <2>1. SUFFICES ASSUME NEW y \in S PROVE y <= b - Min(D)
    BY <1>4
  <2>2. b - y \in D
    OBVIOUS
  <2>3. Min(D) <= b - y /\ Min(D) \in Nat
    BY <1>4, <2>2
  <2>4. QED
    BY <2>3
<1>6. \E x \in S : \A y \in S : x >= y
  BY <1>5
<1>7. QED
  BY <1>6 DEF Max

-----------------------------------------------------------------------------
(* What the assumption says of the format that was chosen.                 *)
LEMMA TheAdaptor ==
  ASSUME format \in DOMAIN Adaptors, data \in Inputs[format]
  PROVE  /\ AdaptorOK(Adaptor) /\ data \in Seq(Nat)
         /\ nlen \in Nat /\ First \in Nat /\ First <= nlen /\ numNodes \in Nat
         /\ Layers \in Nat \ {0}
         /\ \A i \in 1 .. Layers :
              /\ Adaptor.windows[i].buf \in Nat /\ Adaptor.windows[i].max \in Nat
              /\ Adaptor.windows[i].min \in Nat \ {0} /\ Adaptor.windows[i].type \in STRING
<1>1. AdaptorOK(Adaptor) /\ data \in Seq(Nat) /\ Len(data) >= First
  BY FormatAssumption DEF Adaptor, First
<1>2. First \in Nat /\ nlen \in Nat /\ First <= nlen /\ numNodes \in Nat
  BY <1>1 DEF AdaptorOK, nlen, numNodes, First
<1>3. Layers \in Nat \ {0}
  BY <1>1 DEF AdaptorOK, Layers
<1>4. ASSUME NEW i \in 1 .. Layers
      PROVE  Adaptor.windows[i] \in [buf : Nat, min : Nat \ {0}, max : Nat, type : STRING]
  <2> DEFINE W == [buf : Nat, min : Nat \ {0}, max : Nat, type : STRING]
  <2>1. Adaptor.windows \in Seq(W)
    BY <1>1 DEF AdaptorOK
  <2> HIDE DEF W
  <2>2. Adaptor.windows[i] \in W
    BY <1>4, <2>1 DEF Layers
  <2>3. QED
    BY <2>2 DEF W
<1>5. QED
  BY <1>1, <1>2, <1>3, <1>4

(* A window that stands where it should.                                   *)
InPlace(w, s, p) ==
  /\ s.basenode = p
  /\ s.lbound = IF p > w.buf THEN p - w.buf ELSE 0
  /\ s.ubound = Least(p + w.max, nlen)

(* The constructor puts a window where it should stand at first.           *)
LEMMA OpensInPlace ==
  ASSUME NEW w, nlen \in Nat, First \in Nat
  PROVE  InPlace(w, OpenWindow(w, nlen), First)
BY DEF InPlace, OpenWindow

(* One step of a window goes with one step of the node: at the end of the  *)
(* file the near end waits, and the far one follows once the search buffer *)
(* is full.                                                                *)
LEMMA SlidesInPlace ==
  ASSUME nlen \in Nat, NEW w, w.buf \in Nat, w.max \in Nat,
         NEW p \in Nat, p < nlen, NEW s, InPlace(w, s, p)
  PROVE  InPlace(w, Slide(w, s), p + 1)
<1>1. s.basenode = p /\ s.basenode # nlen
  BY DEF InPlace
<1>2. Slide(w, s).basenode = p + 1
  BY <1>1 DEF Slide
<1>3. Slide(w, s).ubound = Least(p + 1 + w.max, nlen)
  BY DEF InPlace, Slide, Least
<1>4. Slide(w, s).lbound = IF p + 1 > w.buf THEN p + 1 - w.buf ELSE 0
  BY <1>1 DEF InPlace, Slide
<1>5. QED
  BY <1>2, <1>3, <1>4 DEF InPlace

(* Where a window stands, by its number: those before the layer have been  *)
(* moved on.                                                               *)
Place(i) == First + (IF i < layer THEN node + 1 ELSE node)

(* WindowsFollowNode says that every window is in its place.               *)
LEMMA WindowsInPlace ==
  WindowsFollowNode <=> \A i \in 1 .. Layers : InPlace(Adaptor.windows[i], windows[i], Place(i))
BY DEF WindowsFollowNode, InPlace, Place

-----------------------------------------------------------------------------
(* A match agrees as far as it is long, and ends within the window.        *)
LEMMA AgreementIsOne ==
  ASSUME NEW s, s.basenode \in Nat, s.ubound \in Nat, s.basenode <= s.ubound, NEW i
  PROVE  /\ Agreement(s, i) \in 0 .. s.ubound - s.basenode
         /\ \A k \in 0 .. Agreement(s, i) - 1 : Symbol(i + k) = Symbol(s.basenode + k)
<1> DEFINE end == s.ubound - s.basenode
           S == {n \in 0 .. end : n = end \/ Symbol(i + n) # Symbol(s.basenode + n)}
<1>1. end \in Nat /\ end \in S /\ S \in SUBSET Nat
  OBVIOUS
<1>2. Agreement(s, i) = Min(S)
  BY DEF Agreement
<1>3. Min(S) \in S /\ \A y \in S : Min(S) <= y
  BY <1>1, MinOfNat
<1>4. ASSUME NEW k \in 0 .. Min(S) - 1 PROVE Symbol(i + k) = Symbol(s.basenode + k)
  <2>1. k \in 0 .. end /\ ~(Min(S) <= k)
    BY <1>1, <1>3
  <2>2. k \notin S
    BY <1>3, <2>1
  <2>3. QED
    BY <2>1, <2>2
<1>5. QED
  BY <1>2, <1>3, <1>4

(* A run of zeros is one, and ends within the window.                      *)
LEMMA ZeroRunIsOne ==
  ASSUME NEW s, s.basenode \in Nat, s.ubound \in Nat, s.basenode <= s.ubound
  PROVE  /\ ZeroRun(s) \in 0 .. s.ubound - s.basenode
         /\ \A k \in 0 .. ZeroRun(s) - 1 : Symbol(s.basenode + k) = 0
<1> DEFINE end == s.ubound - s.basenode
           S == {n \in 0 .. end : n = end \/ Symbol(s.basenode + n) # 0}
<1>1. end \in Nat /\ end \in S /\ S \in SUBSET Nat
  OBVIOUS
<1>2. ZeroRun(s) = Min(S)
  BY DEF ZeroRun
<1>3. Min(S) \in S /\ \A y \in S : Min(S) <= y
  BY <1>1, MinOfNat
<1>4. ASSUME NEW k \in 0 .. Min(S) - 1 PROVE Symbol(s.basenode + k) = 0
  <2>1. k \in 0 .. end /\ ~(Min(S) <= k)
    BY <1>1, <1>3
  <2>2. k \notin S
    BY <1>3, <2>1
  <2>3. QED
    BY <2>1, <2>2
<1>5. QED
  BY <1>2, <1>3, <1>4

(* find_matches gives prefixes of one match that is in the search buffer.  *)
LEMMA MatchesAreReal ==
  ASSUME NEW w, w.min \in Nat,
         NEW s, s.basenode \in Nat, s.ubound \in Nat, s.lbound \in Nat,
         s.lbound <= s.basenode, s.basenode <= s.ubound,
         NEW e \in Matches(w, s)
  PROVE  \E i \in s.lbound .. s.basenode - 1, n \in w.min .. s.ubound - s.basenode :
            /\ e = Edge(s.basenode, s.basenode - i, n, w.type)
            /\ \A k \in 0 .. n - 1 : Symbol(i + k) = Symbol(s.basenode + k)
<1> DEFINE P == s.lbound .. s.basenode - 1
           end == s.ubound - s.basenode
           A == {Agreement(s, i) : i \in P}
           best == Max(A)
           F == {i \in P : Agreement(s, i) = best}
           from == Max(F)
<1>1. s.basenode # s.lbound /\ e \in {Edge(s.basenode, s.basenode - from, n, w.type) : n \in w.min .. best}
  BY DEF Matches
<1>2. P \in SUBSET Nat /\ s.lbound \in P /\ end \in Nat /\ \A i \in P : i <= s.basenode
  BY <1>1
<1>3. \A i \in P : Agreement(s, i) \in 0 .. end
  BY AgreementIsOne
<1>4. A \in SUBSET Nat /\ A # {} /\ \A a \in A : a <= end
  BY <1>2, <1>3
<1>5. best \in A /\ best \in 0 .. end
  BY <1>2, <1>3, <1>4, MaxOfNat
<1>6. F \in SUBSET Nat /\ F # {} /\ \A i \in F : i <= s.basenode
  BY <1>2, <1>5
<1>7. from \in F
  BY <1>6, MaxOfNat
<1>8. from \in P /\ Agreement(s, from) = best
  BY <1>7
<1>9. PICK n \in w.min .. best : e = Edge(s.basenode, s.basenode - from, n, w.type)
  BY <1>1
<1>10. \A k \in 0 .. n - 1 : Symbol(from + k) = Symbol(s.basenode + k)
  <2>1. \A k \in 0 .. best - 1 : Symbol(from + k) = Symbol(s.basenode + k)
    BY <1>8, AgreementIsOne
  <2>2. \A k \in 0 .. n - 1 : k \in 0 .. best - 1
    BY <1>5, <1>9
  <2>3. QED
    BY <2>1, <2>2
<1>11. n \in w.min .. end
  BY <1>5, <1>9
<1>12. QED
  BY <1>8, <1>9, <1>10, <1>11

-----------------------------------------------------------------------------
(* The edges of the node being relaxed.                                    *)
Sound(e) ==
  /\ e \in [pos : Nat, dist : Nat, len : Nat \ {0}, type : EdgeTypes(Adaptor)]
  /\ e.pos = First + node /\ Dest(e) <= nlen
  /\ Genuine(e)

(* A literal of a node before the end of the file is sound.                *)
LEMMA LiteralIsSound ==
  ASSUME format \in DOMAIN Adaptors, data \in Inputs[format],
         node \in 0 .. numNodes, node < numNodes
  PROVE  Sound(Edge(node + First, 0, 1, "symbolwise"))
<1> DEFINE e == Edge(node + First, 0, 1, "symbolwise")
<1>1. e = [pos |-> node + First, dist |-> 0, len |-> 1, type |-> "symbolwise"]
  BY DEF Edge
<1>2. node + First \in Nat /\ node + First + 1 <= nlen
  BY TheAdaptor DEF numNodes
<1>3. "symbolwise" \in EdgeTypes(Adaptor)
  BY DEF EdgeTypes
<1>4. Genuine(e)
  BY <1>1 DEF Genuine
<1>5. QED
  BY <1>1, <1>2, <1>3, <1>4, TheAdaptor DEF Sound, Dest

(* So is every match, and every zero fill, of a window in its place.       *)
LEMMA EdgesAreSound ==
  ASSUME format \in DOMAIN Adaptors, data \in Inputs[format],
         node \in 0 .. numNodes, node < numNodes,
         NEW i \in 1 .. Layers, InPlace(Adaptor.windows[i], windows[i], First + node),
         NEW e \in EdgesOf(Adaptor.windows[i], windows[i])
  PROVE  Sound(e)
<1> DEFINE w == Adaptor.windows[i]
           s == windows[i]
           p == First + node
<1>1. w.buf \in Nat /\ w.max \in Nat /\ w.min \in Nat \ {0} /\ w.type \in STRING
  BY TheAdaptor
<1>2. p \in Nat /\ nlen \in Nat /\ p < nlen /\ First \in Nat
  BY TheAdaptor DEF numNodes
<1>3. /\ s.basenode = p /\ s.ubound \in Nat /\ s.lbound \in Nat
      /\ s.lbound <= p /\ p <= s.ubound
      /\ s.ubound - p <= w.max /\ s.ubound <= nlen
      /\ p - s.lbound <= w.buf
  BY <1>1, <1>2 DEF InPlace, Least
<1> HIDE DEF w, s, p
<1>4. CASE e \in Matches(w, s)
  <2>1. PICK j \in s.lbound .. s.basenode - 1, n \in w.min .. s.ubound - s.basenode :
            /\ e = Edge(s.basenode, s.basenode - j, n, w.type)
            /\ \A k \in 0 .. n - 1 : Symbol(j + k) = Symbol(s.basenode + k)
    BY <1>1, <1>2, <1>3, <1>4, MatchesAreReal
  <2>2. /\ e = [pos |-> p, dist |-> p - j, len |-> n, type |-> w.type]
        /\ e.pos = p /\ e.dist = p - j /\ e.len = n /\ e.type = w.type
    BY <1>3, <2>1 DEF Edge
  <2>3. /\ n \in Nat \ {0} /\ n \in w.min .. w.max /\ p + n <= nlen
        /\ p - j \in Nat /\ p - j \in 1 .. Least(w.buf, p)
    BY <1>1, <1>2, <1>3, <2>1 DEF Least
  <2>4. w.type \in EdgeTypes(Adaptor)
    BY DEF EdgeTypes, w, Layers
  <2>5. \A k \in 0 .. n - 1 : Symbol(p + k) = Symbol(p + k - (p - j))
    <3>1. SUFFICES ASSUME NEW k \in 0 .. n - 1
                   PROVE  Symbol(p + k) = Symbol(p + k - (p - j))
      OBVIOUS
    <3>2. p + k - (p - j) = j + k
      BY <1>2, <1>3, <2>1
    <3>3. Symbol(j + k) = Symbol(p + k)
      BY <1>3, <2>1
    <3>4. QED
      BY <3>2, <3>3
  <2>6. Genuine(e)
    BY <2>2, <2>3, <2>5 DEF Genuine, w
  <2>7. QED
    BY <1>2, <2>2, <2>3, <2>4, <2>6 DEF Sound, Dest, p
<1>5. CASE Adaptor.extra = "zerofill" /\ e \in ZeroFills(s)
  <2>1. s.basenode < Adaptor.SearchBufSize - 1
        /\ e \in {Edge(s.basenode, Infinity, n, "zerofill") : n \in 3 .. ZeroRun(s)}
    <3>1. Adaptor.SearchBufSize \in Nat
      BY TheAdaptor DEF AdaptorOK
    <3>2. QED
      BY <1>2, <1>3, <1>5, <3>1 DEF ZeroFills
  <2>2. PICK n \in 3 .. ZeroRun(s) : e = Edge(s.basenode, Infinity, n, "zerofill")
    BY <2>1
  <2>3. /\ e = [pos |-> p, dist |-> Infinity, len |-> n, type |-> "zerofill"]
        /\ e.pos = p /\ e.len = n /\ e.type = "zerofill"
    BY <1>3, <2>2 DEF Edge
  <2>4. /\ ZeroRun(s) \in 0 .. s.ubound - s.basenode
        /\ \A k \in 0 .. ZeroRun(s) - 1 : Symbol(s.basenode + k) = 0
    BY <1>2, <1>3, ZeroRunIsOne
  <2>5. i = 1
    <3>1. Layers = 1
      BY <1>5, TheAdaptor DEF AdaptorOK, Layers
    <3>2. QED
      BY <3>1
  <2>6. n \in Nat \ {0} /\ n \in 3 .. Adaptor.windows[1].max /\ p + n <= nlen
    BY <1>1, <1>2, <1>3, <2>2, <2>4, <2>5 DEF w
  <2>7. \A k \in 0 .. n - 1 : Symbol(p + k) = 0
    <3>1. \A k \in 0 .. n - 1 : k \in 0 .. ZeroRun(s) - 1
      BY <2>2, <2>4
    <3>2. QED
      BY <1>3, <2>4, <3>1
  <2>8. "zerofill" \in EdgeTypes(Adaptor)
    BY <1>5 DEF EdgeTypes
  <2>9. Genuine(e)
    BY <1>3, <1>5, <2>1, <2>3, <2>6, <2>7 DEF Genuine
  <2>10. QED
    BY <1>2, <2>3, <2>6, <2>8, <2>9 DEF Sound, Dest, p, Infinity
<1>6. QED
  BY <1>4, <1>5 DEF EdgesOf, w, s

-----------------------------------------------------------------------------
(* What an edge costs is a natural number.  What is left of a division is  *)
(* less than the divisor, whatever the sign.                               *)
LEMMA RestIsNat ==
  ASSUME NEW a \in Nat, NEW b \in Nat \ {0}
  PROVE  a % b \in 0 .. b - 1 /\ (-a) % b \in 0 .. b - 1
OBVIOUS

(* The weight of an edge is one, and so are its descriptor bits.           *)
LEMMA WeightIsNat ==
  ASSUME AdaptorOK(Adaptor), NEW e \in [pos : Nat, dist : Nat, len : Nat \ {0}, type : EdgeTypes(Adaptor)]
  PROVE  DescBits(e) \in Nat /\ Weight(e) \in Nat
<1> DEFINE d == Adaptor.codes.desc[e.type]
           p == Adaptor.codes.param[e.type]
           u == Adaptor.codes.unit[e.type]
<1>1. d \in Nat /\ p \in Nat /\ u \in Nat /\ e.len \in Nat
  BY DEF AdaptorOK
<1>2. DescBits(e) = d /\ Weight(e) = d + p + 8 * u * e.len
  BY DEF DescBits, Weight
<1> HIDE DEF d, p, u
<1>3. 8 * u \in Nat
  BY <1>1
<1>4. 8 * u * e.len \in Nat
  BY <1>1, <1>3
<1>5. QED
  BY <1>1, <1>2, <1>4

(* So are the cost and the bits with which an edge reaches its end.        *)
LEMMA ReachedIsNat ==
  ASSUME AdaptorOK(Adaptor), NEW e \in [pos : Nat, dist : Nat, len : Nat \ {0}, type : EdgeTypes(Adaptor)],
         NEW c \in Nat, NEW b \in Nat
  PROVE  Reached(c, b, e).cost \in Nat /\ Reached(c, b, e).desc \in Nat
<1> DEFINE w == c + Weight(e)
           d == b + DescBits(e)
           r == FieldRest(d + Adaptor.NumTermBits)
           t == w + Adaptor.TerminatorWeight + r
<1>1. w \in Nat /\ d \in Nat
  BY WeightIsNat
<1>2. /\ Adaptor.NumTermBits \in Nat /\ Adaptor.TerminatorWeight \in Nat
      /\ Adaptor.padMask \in Nat /\ Adaptor.NumDescBits \in Nat \ {0}
  BY DEF AdaptorOK
<1> HIDE DEF w, d
<1>3. r \in Nat
  <2>1. (d + Adaptor.NumTermBits) % Adaptor.NumDescBits \in 0 .. Adaptor.NumDescBits - 1
    <3>1. d + Adaptor.NumTermBits \in Nat
      BY <1>1, <1>2
    <3>2. QED
      BY <1>2, <3>1, RestIsNat
  <2>2. QED
    BY <1>2, <2>1 DEF FieldRest
<1> HIDE DEF r
<1>4. t \in Nat
  BY <1>1, <1>2, <1>3
<1> HIDE DEF t
<1>5. Padding(t) \in Nat
  <2>1. Adaptor.padMask + 1 \in Nat \ {0}
    BY <1>2
  <2>2. (-t) % (Adaptor.padMask + 1) \in 0 .. (Adaptor.padMask + 1) - 1
    BY <1>4, <2>1, RestIsNat
  <2>3. QED
    BY <2>1, <2>2 DEF Padding
<1>6. t + Padding(t) \in Nat /\ d + Adaptor.NumTermBits + r \in Nat
  BY <1>1, <1>2, <1>3, <1>4, <1>5
<1>7. Reached(c, b, e) = IF Ending(e) THEN [cost |-> t + Padding(t), desc |-> d + Adaptor.NumTermBits + r]
                         ELSE [cost |-> w, desc |-> d]
  BY DEF Reached, w, d, r, t
<1>8. QED
  BY <1>1, <1>6, <1>7

(* The invariant the three properties follow from.                         *)
Types ==
  /\ costs \in [0 .. numNodes -> Nat] /\ desccosts \in [0 .. numNodes -> Nat]
  /\ parents \in [0 .. numNodes -> 0 .. numNodes]
  /\ pedges = [n \in 0 .. numNodes |-> pedges[n]]

PInv ==
  /\ format \in DOMAIN Adaptors /\ data \in Inputs[format]
  /\ node \in 0 .. numNodes /\ layer \in 0 .. Layers
  /\ layer > 0 => node < numNodes
  /\ windows = [i \in 1 .. Layers |-> windows[i]]
  /\ WindowsFollowNode
  /\ Types
  /\ at \in 0 .. numNodes
  /\ EdgesAreGenuine

(* A node keeps what it has or is reached by one of the edges.             *)
LEMMA RelaxingReaches ==
  ASSUME numNodes \in Nat, First \in Nat, AdaptorOK(Adaptor), node \in 0 .. numNodes, Types,
         NEW edges, \A e \in edges : Sound(e), Relaxing(edges)
  PROVE  /\ costs' \in [0 .. numNodes -> Nat] /\ desccosts' \in [0 .. numNodes -> Nat]
         /\ parents' \in [0 .. numNodes -> 0 .. numNodes]
         /\ pedges' = [n \in 0 .. numNodes |-> pedges'[n]]
         /\ \A n \in 0 .. numNodes :
              \/ costs'[n] = costs[n] /\ parents'[n] = parents[n] /\ pedges'[n] = pedges[n]
              \/ parents'[n] = node /\ pedges'[n] \in edges /\ Dest(pedges'[n]) - First = n
<1> DEFINE reached(e) == Reached(costs[node], desccosts[node], e)
           better(n) == {e \in edges : Dest(e) - First = n /\ costs[n] > reached(e).cost}
           best(n) == CHOOSE e \in better(n) : TRUE
<1>1. /\ costs' = [n \in 0 .. numNodes |-> IF better(n) # {} THEN reached(best(n)).cost ELSE costs[n]]
      /\ desccosts' = [n \in 0 .. numNodes |-> IF better(n) # {} THEN reached(best(n)).desc ELSE desccosts[n]]
      /\ parents' = [n \in 0 .. numNodes |-> IF better(n) # {} THEN node ELSE parents[n]]
      /\ pedges' = [n \in 0 .. numNodes |-> IF better(n) # {} THEN best(n) ELSE pedges[n]]
  <2>1. DOMAIN costs = 0 .. numNodes
    BY DEF Types
  <2>2. QED
    BY <2>1, Zenon DEF Relaxing
<1>2. \A e \in edges : reached(e).cost \in Nat /\ reached(e).desc \in Nat
  <2>1. costs[node] \in Nat /\ desccosts[node] \in Nat
    BY DEF Types
  <2>2. QED
    BY <2>1, ReachedIsNat DEF Sound
<1>3. \A n : better(n) # {} => best(n) \in edges /\ Dest(best(n)) - First = n
  OBVIOUS
<1> HIDE DEF reached, better, best
<1>4. \A n \in 0 .. numNodes :
        /\ costs'[n] \in Nat /\ desccosts'[n] \in Nat /\ parents'[n] \in 0 .. numNodes
        /\ \/ costs'[n] = costs[n] /\ parents'[n] = parents[n] /\ pedges'[n] = pedges[n]
           \/ parents'[n] = node /\ pedges'[n] \in edges /\ Dest(pedges'[n]) - First = n
  <2>1. SUFFICES ASSUME NEW n \in 0 .. numNodes
        PROVE /\ costs'[n] \in Nat /\ desccosts'[n] \in Nat /\ parents'[n] \in 0 .. numNodes
              /\ \/ costs'[n] = costs[n] /\ parents'[n] = parents[n] /\ pedges'[n] = pedges[n]
                 \/ parents'[n] = node /\ pedges'[n] \in edges /\ Dest(pedges'[n]) - First = n
    OBVIOUS
  <2>2. CASE better(n) # {}
    <3>1. /\ costs'[n] = reached(best(n)).cost /\ desccosts'[n] = reached(best(n)).desc
          /\ parents'[n] = node /\ pedges'[n] = best(n)
      BY <1>1, <2>2
    <3>2. best(n) \in edges /\ Dest(best(n)) - First = n
      BY <1>3, <2>2
    <3>3. QED
      BY <1>2, <3>1, <3>2
  <2>3. CASE better(n) = {}
    <3>1. /\ costs'[n] = costs[n] /\ desccosts'[n] = desccosts[n]
          /\ parents'[n] = parents[n] /\ pedges'[n] = pedges[n]
      BY <1>1, <2>3
    <3>2. QED
      BY <3>1 DEF Types
  <2>4. QED
    BY <2>2, <2>3
<1>5. QED
  BY <1>1, <1>4

(* What an edge is does not depend on the pass.                            *)
LEMMA GenuineStays ==
  ASSUME format' = format, data' = data, NEW n, Genuine(pedges'[n])
  PROVE  Genuine(pedges[n])'
<1>1. Adaptor' = Adaptor /\ Layers' = Layers
  BY DEF Adaptor, Layers
<1>2. QED
  BY <1>1 DEF Genuine, Symbol

(* Relaxing sound edges leaves genuine edges at every node.                *)
LEMMA RelaxingKeepsEdges ==
  ASSUME PInv, format' = format, data' = data,
         NEW edges, \A e \in edges : Sound(e), Relaxing(edges)
  PROVE  Types' /\ EdgesAreGenuine'
<1>1. /\ numNodes \in Nat /\ First \in Nat /\ AdaptorOK(Adaptor)
      /\ numNodes' = numNodes /\ First' = First /\ nlen' = nlen
  BY TheAdaptor DEF PInv, numNodes, nlen, First, Adaptor
<1>2. /\ costs' \in [0 .. numNodes -> Nat] /\ desccosts' \in [0 .. numNodes -> Nat]
      /\ parents' \in [0 .. numNodes -> 0 .. numNodes]
      /\ pedges' = [n \in 0 .. numNodes |-> pedges'[n]]
      /\ \A n \in 0 .. numNodes :
           \/ costs'[n] = costs[n] /\ parents'[n] = parents[n] /\ pedges'[n] = pedges[n]
           \/ parents'[n] = node /\ pedges'[n] \in edges /\ Dest(pedges'[n]) - First = n
  <2>1. node \in 0 .. numNodes /\ Types
    BY DEF PInv
  <2>2. QED
    BY <1>1, <2>1, RelaxingReaches
<1>3. Types'
  BY <1>1, <1>2 DEF Types
<1>4. ASSUME NEW n \in 1 .. numNodes, costs'[n] # Infinity
      PROVE  /\ (pedges'[n]).pos = parents'[n] + First
             /\ Dest(pedges'[n]) = n + First
             /\ Dest(pedges'[n]) <= nlen
             /\ Genuine(pedges'[n])
  <2>1. n \in 0 .. numNodes
    BY <1>1
  <2>2. CASE costs'[n] = costs[n] /\ parents'[n] = parents[n] /\ pedges'[n] = pedges[n]
    BY <1>4, <2>2 DEF PInv, EdgesAreGenuine
  <2>3. CASE parents'[n] = node /\ pedges'[n] \in edges /\ Dest(pedges'[n]) - First = n
    <3>1. Sound(pedges'[n])
      BY <2>3
    <3>2. Dest(pedges'[n]) \in Int
      BY <3>1 DEF Sound, Dest
    <3>3. node \in Int /\ n \in Int
      BY DEF PInv
    <3>4. QED
      BY <1>1, <2>3, <3>1, <3>2, <3>3 DEF Sound
  <2>4. QED
    BY <1>2, <2>1, <2>2, <2>3
<1>5. EdgesAreGenuine'
  <2>1. SUFFICES ASSUME NEW n \in 1 .. numNodes, costs'[n] # Infinity
        PROVE  /\ (pedges'[n]).pos = parents'[n] + First
               /\ Dest(pedges'[n]) = n + First
               /\ Dest(pedges'[n]) <= nlen
               /\ Genuine(pedges[n])'
    BY <1>1 DEF EdgesAreGenuine, Infinity, Dest
  <2>2. /\ (pedges'[n]).pos = parents'[n] + First
        /\ Dest(pedges'[n]) = n + First
        /\ Dest(pedges'[n]) <= nlen
        /\ Genuine(pedges'[n])
    BY <1>4, <2>1
  <2>3. QED
    BY <2>2, GenuineStays
<1>6. QED
  BY <1>3, <1>5

-----------------------------------------------------------------------------
(* The invariant holds at first.                                           *)
LEMMA InitKeeps ==
  ASSUME Init
  PROVE  PInv
<1>1. /\ format \in DOMAIN Adaptors /\ data \in Inputs[format]
      /\ node = 0 /\ layer = 0 /\ at = numNodes
      /\ windows = [i \in 1 .. Layers |-> OpenWindow(Adaptor.windows[i], nlen)]
      /\ costs = [n \in 0 .. numNodes |-> IF n = 0 THEN 0 ELSE Infinity]
      /\ desccosts = [n \in 0 .. numNodes |-> IF n = 0 THEN 0 ELSE Infinity]
      /\ parents = [n \in 0 .. numNodes |-> 0]
      /\ pedges = [n \in 0 .. numNodes |-> NoEdge]
  BY DEF Init
<1>2. numNodes \in Nat /\ First \in Nat /\ nlen \in Nat /\ Layers \in Nat
  BY <1>1, TheAdaptor
<1>3. Types
  BY <1>1, <1>2 DEF Types, Infinity
<1>4. WindowsFollowNode
  <2>1. SUFFICES ASSUME NEW i \in 1 .. Layers
                 PROVE  InPlace(Adaptor.windows[i], windows[i], Place(i))
    BY WindowsInPlace
  <2>2. Place(i) = First
    BY <1>1, <1>2 DEF Place
  <2>3. windows[i] = OpenWindow(Adaptor.windows[i], nlen)
    BY <1>1
  <2>4. QED
    BY <1>2, <2>2, <2>3, OpensInPlace
<1>5. EdgesAreGenuine
  <2>1. \A n \in 1 .. numNodes : costs[n] = Infinity
    BY <1>1, <1>2
  <2>2. QED
    BY <2>1 DEF EdgesAreGenuine
<1>6. windows = [i \in 1 .. Layers |-> windows[i]]
  BY <1>1
<1>7. QED
  BY <1>1, <1>2, <1>3, <1>4, <1>5, <1>6 DEF PInv

(* The step of the literal keeps the invariant.                            *)
LEMMA SymbolwiseKeeps ==
  ASSUME PInv, Symbolwise
  PROVE  PInv'
<1>1. /\ format' = format /\ data' = data /\ node' = node /\ windows' = windows /\ at' = at
      /\ node < numNodes /\ layer = 0 /\ layer' = 1
      /\ Relaxing({Edge(node + First, 0, 1, "symbolwise")})
  BY DEF Symbolwise
<1>2. /\ Adaptor' = Adaptor /\ numNodes' = numNodes /\ nlen' = nlen /\ First' = First /\ Layers' = Layers
      /\ Layers \in Nat \ {0}
  BY <1>1, TheAdaptor DEF PInv, numNodes, nlen, First, Adaptor, Layers
<1>3. Types' /\ EdgesAreGenuine'
  <2>1. Sound(Edge(node + First, 0, 1, "symbolwise"))
    BY <1>1, LiteralIsSound DEF PInv
  <2>2. QED
    BY <1>1, <2>1, RelaxingKeepsEdges
<1>4. WindowsFollowNode'
  <2>1. \A i \in 1 .. Layers : ~(i < layer) /\ ~(i < layer')
    BY <1>1
  <2>2. QED
    BY <1>1, <1>2, <2>1 DEF PInv, WindowsFollowNode
<1>5. QED
  BY <1>1, <1>2, <1>3, <1>4 DEF PInv

(* The step of a window keeps the invariant: it alone is moved on.         *)
LEMMA SearchWindowKeeps ==
  ASSUME PInv, SearchWindow
  PROVE  PInv'
<1>1. /\ format' = format /\ data' = data /\ at' = at
      /\ node < numNodes /\ layer > 0
      /\ Relaxing(EdgesOf(Adaptor.windows[layer], windows[layer]))
      /\ windows' = [windows EXCEPT ![layer] = Slide(Adaptor.windows[layer], @)]
      /\ \/ layer < Layers /\ layer' = layer + 1 /\ node' = node
         \/ ~(layer < Layers) /\ layer' = 0 /\ node' = node + 1
  BY DEF SearchWindow
<1>2. /\ Adaptor' = Adaptor /\ numNodes' = numNodes /\ nlen' = nlen /\ First' = First /\ Layers' = Layers
      /\ Layers \in Nat \ {0} /\ numNodes \in Nat /\ First \in Nat /\ nlen \in Nat
  BY <1>1, TheAdaptor DEF PInv, numNodes, nlen, First, Adaptor, Layers
<1>3. layer \in 1 .. Layers /\ node \in 0 .. numNodes
  BY <1>1, <1>2 DEF PInv
<1>4. \A i \in 1 .. Layers : InPlace(Adaptor.windows[i], windows[i], Place(i))
  BY WindowsInPlace DEF PInv
<1>5. Types' /\ EdgesAreGenuine'
  <2>1. Place(layer) = First + node
    BY <1>2, <1>3 DEF Place
  <2>2. \A e \in EdgesOf(Adaptor.windows[layer], windows[layer]) : Sound(e)
    BY <1>1, <1>3, <1>4, <2>1, EdgesAreSound DEF PInv
  <2>3. QED
    BY <1>1, <2>2, RelaxingKeepsEdges
<1>6. node' \in 0 .. numNodes /\ layer' \in 0 .. Layers /\ (layer' > 0 => node' < numNodes)
  BY <1>1, <1>2, <1>3
<1>7. windows' = [i \in 1 .. Layers |-> windows'[i]]
  BY <1>1 DEF PInv
<1>8. ASSUME NEW i \in 1 .. Layers
      PROVE  InPlace(Adaptor.windows[i], windows'[i], Place(i)')
  <2>1. Place(i)' = First + (IF i < layer' THEN node' + 1 ELSE node')
    BY <1>2 DEF Place
  <2>2. CASE i = layer
    <3>1. windows'[i] = Slide(Adaptor.windows[i], windows[i])
      BY <1>1, <1>3, <2>2 DEF PInv
    <3>2. Place(i) = First + node /\ Place(i)' = First + node + 1
      BY <1>1, <1>2, <1>3, <2>1, <2>2 DEF Place
    <3>3. First + node \in Nat /\ First + node < nlen
      BY <1>1, <1>2, <1>3 DEF numNodes
    <3>4. Adaptor.windows[i].buf \in Nat /\ Adaptor.windows[i].max \in Nat
      BY TheAdaptor DEF PInv
    <3>5. QED
      BY <1>2, <1>4, <3>1, <3>2, <3>3, <3>4, SlidesInPlace
  <2>3. CASE i # layer
    <3>1. windows'[i] = windows[i]
      BY <1>1, <2>3 DEF PInv
    <3>2. Place(i)' = Place(i)
      BY <1>1, <1>2, <1>3, <2>1, <2>3 DEF Place
    <3>3. QED
      BY <1>4, <3>1, <3>2
  <2>4. QED
    BY <2>2, <2>3
<1>9. WindowsFollowNode'
  <2>1. \A i \in 1 .. Layers :
          /\ windows'[i].basenode = Place(i)'
          /\ windows'[i].lbound = IF Place(i)' > Adaptor.windows[i].buf THEN Place(i)' - Adaptor.windows[i].buf ELSE 0
          /\ windows'[i].ubound = Least(Place(i)' + Adaptor.windows[i].max, nlen)
    BY <1>8 DEF InPlace
  <2>2. QED
    BY <1>2, <2>1 DEF WindowsFollowNode, Place, Least
<1>10. QED
  BY <1>1, <1>2, <1>5, <1>6, <1>7, <1>9 DEF PInv

(* When the pass does nothing, what it has built stays as it is.           *)
LEMMA NothingMoved ==
  ASSUME PInv, UNCHANGED <<format, data, node, layer, windows, costs, desccosts, parents, pedges>>
  PROVE  WindowsFollowNode' /\ Types' /\ EdgesAreGenuine'
<1>1. /\ Adaptor' = Adaptor /\ numNodes' = numNodes /\ nlen' = nlen /\ First' = First /\ Layers' = Layers
  BY DEF numNodes, nlen, First, Adaptor, Layers
<1>2. WindowsFollowNode'
  BY <1>1 DEF PInv, WindowsFollowNode
<1>3. Types'
  BY <1>1 DEF PInv, Types
<1>4. EdgesAreGenuine'
  <2>1. SUFFICES ASSUME NEW n \in 1 .. numNodes, costs'[n] # Infinity
        PROVE  /\ (pedges'[n]).pos = parents'[n] + First
               /\ Dest(pedges'[n]) = n + First
               /\ Dest(pedges'[n]) <= nlen
               /\ Genuine(pedges[n])'
    BY <1>1 DEF EdgesAreGenuine, Infinity, Dest
  <2>2. /\ pedges[n].pos = parents[n] + First
        /\ Dest(pedges[n]) = n + First
        /\ Dest(pedges[n]) <= nlen
        /\ Genuine(pedges[n])
    BY <2>1 DEF PInv, EdgesAreGenuine
  <2>3. QED
    BY <2>2, GenuineStays
<1>5. QED
  BY <1>2, <1>3, <1>4

(* The walk back keeps the invariant: parents are nodes.                   *)
LEMMA WalkBackKeeps ==
  ASSUME PInv, WalkBack
  PROVE  PInv'
<1>1. /\ node = numNodes /\ at # 0 /\ at' = parents[at]
      /\ UNCHANGED <<format, data, node, layer, windows, costs, desccosts, parents, pedges>>
  BY DEF WalkBack
<1>2. at' \in 0 .. numNodes
  BY <1>1 DEF PInv, Types
<1>3. WindowsFollowNode' /\ Types' /\ EdgesAreGenuine'
  BY <1>1, NothingMoved
<1>4. QED
  BY <1>1, <1>2, <1>3 DEF PInv, Layers, Adaptor, numNodes, nlen, First

(* A step that changes nothing keeps the invariant.                        *)
LEMMA StutteringKeeps ==
  ASSUME PInv, UNCHANGED vars
  PROVE  PInv'
<1>1. UNCHANGED <<format, data, node, layer, windows, costs, desccosts, parents, pedges>> /\ at' = at
  BY DEF vars
<1>2. WindowsFollowNode' /\ Types' /\ EdgesAreGenuine'
  BY <1>1, NothingMoved
<1>3. QED
  BY <1>1, <1>2 DEF PInv, Layers, Adaptor, numNodes, nlen, First

(* Every state of the parser satisfies the invariant.                      *)
THEOREM PInvHolds == Spec => []PInv
<1>1. Init => PInv
  BY InitKeeps
<1>2. PInv /\ [Next]_vars => PInv'
  BY SymbolwiseKeeps, SearchWindowKeeps, WalkBackKeeps, StutteringKeeps DEF Next
<1>3. QED
  BY <1>1, <1>2, PTL DEF Spec

(* The invariant gives the types.                                          *)
LEMMA PInvTypes ==
  ASSUME PInv
  PROVE  TypeOK
<1>1. /\ numNodes \in Nat /\ First \in Nat /\ nlen \in Nat /\ Layers \in Nat \ {0}
      /\ numNodes = nlen - First
  BY TheAdaptor DEF PInv, numNodes
<1>2. ASSUME NEW i \in 1 .. Layers
      PROVE  LET s == windows[i] IN
               0 <= s.lbound /\ s.lbound <= s.basenode /\ s.basenode <= s.ubound /\ s.ubound <= nlen
  <2>1. InPlace(Adaptor.windows[i], windows[i], Place(i))
    BY WindowsInPlace DEF PInv
  <2>2. Adaptor.windows[i].buf \in Nat /\ Adaptor.windows[i].max \in Nat
    BY TheAdaptor DEF PInv
  <2>3. Place(i) \in Nat /\ Place(i) <= nlen
    BY <1>1 DEF PInv, Place
  <2>4. QED
    BY <1>1, <2>1, <2>2, <2>3 DEF InPlace, Least
<1>3. QED
  BY <1>2 DEF PInv, TypeOK, Types

(* The variables of the parser keep their types, and every window lies     *)
(* within the file with its near end between its bounds, for every format, *)
(* every size of its windows and every file (lzss.hh, SlidingWindow and    *)
(* find_optimal_lzss_parse).                                               *)
THEOREM TypeCorrect == Spec => []TypeOK
<1>1. PInv => TypeOK
  BY PInvTypes
<1>2. QED
  BY <1>1, PInvHolds, PTL

(* Every window stands at the node being relaxed, and reaches as far back  *)
(* and as far ahead as it may, though slideWindow moves it by steps.       *)
THEOREM WindowsKeepTheirPlaces == Spec => []WindowsFollowNode
<1>1. PInv => WindowsFollowNode
  BY DEF PInv
<1>2. QED
  BY <1>1, PInvHolds, PTL

(* Whatever edge the parser stores for a node, the format can express it,  *)
(* it comes from the node's parent, and the symbols it copies are those of *)
(* the file.                                                               *)
THEOREM EdgesReproduceTheFile == Spec => []EdgesAreGenuine
<1>1. PInv => EdgesAreGenuine
  BY DEF PInv
<1>2. QED
  BY <1>1, PInvHolds, PTL


-----------------------------------------------------------------------------
(* What the parse is.  An edge of the parser, packed literals never.       *)
Edges == [pos : Nat, dist : Nat, len : Nat \ {0}, type : EdgeTypes(Adaptor)]

(* A node that is reached has the price of its parent and of the edge that *)
(* leads from there.  The parent is behind the node being relaxed, so that *)
(* its own price is final.                                                 *)
Price(n) == Reached(costs[parents[n]], desccosts[parents[n]], pedges[n])

Priced(n) ==
  /\ pedges[n] \in Edges
  /\ parents[n] < n /\ parents[n] <= node
  /\ costs[parents[n]] < Infinity
  /\ costs[n] = Price(n).cost /\ desccosts[n] = Price(n).desc

PricesInv ==
  /\ costs[0] = 0 /\ desccosts[0] = 0
  /\ \A n \in 0 .. numNodes : costs[n] <= Infinity
  /\ \A n \in 1 .. numNodes : costs[n] # Infinity => Priced(n)

(* The nodes up to the one being relaxed are reached, as no edge costs     *)
(* more than the literals beside it; the last, with all that the end of    *)
(* the file adds.                                                          *)
Frontier == IF layer > 0 THEN node + 1 ELSE node
EndWeight == Adaptor.TerminatorWeight + Adaptor.NumDescBits + Adaptor.padMask
Bound(n) == n * LiteralWeight(Adaptor) + (IF n = numNodes THEN EndWeight ELSE 0)

FrontInv == \A n \in 0 .. Frontier : costs[n] <= Bound(n)

(* The walk back goes from the last node to the first, and what it leaves  *)
(* is a chain of edges from there.                                         *)
Stop(i) == IF i = 0 THEN at ELSE Dest(parselist[i]) - First

ChainInv ==
  /\ parselist \in Seq(Edges)
  /\ node < numNodes => parselist = << >> /\ at = numNodes
  /\ Stop(Len(parselist)) = numNodes
  /\ \A i \in 1 .. Len(parselist) :
       /\ Stop(i) \in 1 .. numNodes
       /\ parselist[i] = pedges[Stop(i)]
       /\ Stop(i - 1) = parents[Stop(i)]

WInv == PInv /\ PricesInv /\ FrontInv /\ ChainInv

(* The literal's weight is that of its edge, and the assumption about the  *)
(* costs is about the file that is coded.                                  *)
LEMMA CostsAreNumbers ==
  ASSUME format \in DOMAIN Adaptors, data \in Inputs[format]
  PROVE  /\ LiteralWeight(Adaptor) \in Nat /\ EndWeight \in Nat
         /\ nlen * LiteralWeight(Adaptor) + EndWeight < Infinity
         /\ nlen * LiteralWeight(Adaptor) \in Nat
<1>1. AdaptorOK(Adaptor) /\ nlen \in Nat
  BY TheAdaptor
<1>2. "symbolwise" \in EdgeTypes(Adaptor)
  BY DEF EdgeTypes
<1>3. /\ Adaptor.codes.desc["symbolwise"] \in Nat /\ Adaptor.codes.param["symbolwise"] \in Nat
      /\ Adaptor.codes.unit["symbolwise"] \in Nat
  BY <1>1, <1>2 DEF AdaptorOK
<1>4. LiteralWeight(Adaptor) \in Nat
  BY <1>3 DEF LiteralWeight
<1>5. Adaptor.TerminatorWeight \in Nat /\ Adaptor.NumDescBits \in Nat /\ Adaptor.padMask \in Nat
  BY <1>1 DEF AdaptorOK
<1>6. nlen * LiteralWeight(Adaptor) + Adaptor.TerminatorWeight + Adaptor.NumDescBits + Adaptor.padMask < Infinity
  BY CostAssumption DEF Adaptor, nlen
<1>7. nlen * LiteralWeight(Adaptor) \in Nat
  BY <1>1, <1>4
<1>8. QED
  BY <1>4, <1>5, <1>6, <1>7 DEF EndWeight, Infinity

(* A bound on a node is below the cost of one that is not reached, and one *)
(* literal further it has grown by a literal's weight.                     *)
LEMMA BoundsGrow ==
  ASSUME format \in DOMAIN Adaptors, data \in Inputs[format], NEW n \in 0 .. numNodes
  PROVE  /\ Bound(n) \in Nat /\ Bound(n) < Infinity
         /\ n < numNodes => n * LiteralWeight(Adaptor) \in Nat /\ Bound(n) = n * LiteralWeight(Adaptor)
         /\ n < numNodes =>
              Bound(n + 1) = Bound(n) + LiteralWeight(Adaptor) + (IF n + 1 = numNodes THEN EndWeight ELSE 0)
<1> DEFINE L == LiteralWeight(Adaptor)
<1>1. L \in Nat /\ EndWeight \in Nat /\ nlen * L + EndWeight < Infinity /\ nlen * L \in Nat
  BY CostsAreNumbers
<1>2. n \in Nat /\ nlen \in Nat /\ numNodes \in Nat /\ n <= numNodes /\ numNodes <= nlen
  BY TheAdaptor DEF numNodes
<1> HIDE DEF L
<1>3. n * L \in Nat /\ n * L <= nlen * L
  <2>1. PICK r \in Nat : nlen = n + r
    <3>1. nlen - n \in Nat /\ nlen = n + (nlen - n)
      BY <1>2
    <3>2. QED
      BY <3>1
  <2>2. nlen * L = n * L + r * L /\ r * L \in Nat /\ n * L \in Nat
    BY <1>1, <1>2, <2>1
  <2>3. QED
    BY <2>2
<1>4. (n + 1) * L = n * L + L
  BY <1>1, <1>2
<1>5. n < numNodes => n # numNodes
  BY <1>2
<1>6. QED
  BY <1>1, <1>2, <1>3, <1>4, <1>5 DEF Bound, L, Infinity

(* What is added at the end of the file is no more than that.              *)
LEMMA LiteralReaches ==
  ASSUME format \in DOMAIN Adaptors, data \in Inputs[format],
         NEW n \in 0 .. numNodes, n < numNodes, NEW c \in Nat, NEW b \in Nat, c <= Bound(n),
         NEW e, e = Edge(n + First, 0, 1, "symbolwise")
  PROVE  Reached(c, b, e).cost <= Bound(n + 1)
<1> DEFINE w == c + Weight(e)
           d == b + DescBits(e)
           r == FieldRest(d + Adaptor.NumTermBits)
           t == w + Adaptor.TerminatorWeight + r
<1>1. /\ AdaptorOK(Adaptor) /\ nlen \in Nat /\ First \in Nat /\ numNodes \in Nat /\ numNodes = nlen - First
      /\ LiteralWeight(Adaptor) \in Nat /\ EndWeight \in Nat
  BY TheAdaptor, CostsAreNumbers DEF numNodes
<1>2. e.pos = n + First /\ e.len = 1 /\ e.type = "symbolwise"
  BY DEF Edge
<1>3. "symbolwise" \in EdgeTypes(Adaptor)
  BY DEF EdgeTypes
<1>4. /\ Adaptor.codes.desc["symbolwise"] \in Nat /\ Adaptor.codes.param["symbolwise"] \in Nat
      /\ Adaptor.codes.unit["symbolwise"] \in Nat
      /\ Adaptor.TerminatorWeight \in Nat /\ Adaptor.NumDescBits \in Nat \ {0} /\ Adaptor.padMask \in Nat
      /\ Adaptor.NumTermBits \in Nat
  BY <1>1, <1>3 DEF AdaptorOK
<1>5. Weight(e) = LiteralWeight(Adaptor) /\ DescBits(e) \in Nat
  BY <1>2, <1>4 DEF Weight, DescBits, LiteralWeight
<1>6. w \in Nat /\ w <= Bound(n) + LiteralWeight(Adaptor) /\ d \in Nat /\ Bound(n) \in Nat
  <2>1. Bound(n) \in Nat
    BY BoundsGrow
  <2>2. QED
    BY <1>1, <1>5, <2>1
<1>7. r \in 0 .. Adaptor.NumDescBits
  <2>1. d + Adaptor.NumTermBits \in Nat
    BY <1>4, <1>6
  <2>2. (d + Adaptor.NumTermBits) % Adaptor.NumDescBits \in 0 .. Adaptor.NumDescBits - 1
    BY <1>4, <2>1, RestIsNat
  <2>3. QED
    BY <1>4, <2>2 DEF FieldRest
<1> HIDE DEF r
<1>8. t \in Nat /\ t <= w + Adaptor.TerminatorWeight + Adaptor.NumDescBits
  BY <1>4, <1>6, <1>7
<1> HIDE DEF t
<1>9. Padding(t) \in 0 .. Adaptor.padMask
  <2>1. Adaptor.padMask + 1 \in Nat \ {0}
    BY <1>4
  <2>2. (-t) % (Adaptor.padMask + 1) \in 0 .. (Adaptor.padMask + 1) - 1
    BY <1>8, <2>1, RestIsNat
  <2>3. QED
    BY <1>4, <2>2 DEF Padding
<1>10. Reached(c, b, e).cost = IF Ending(e) THEN t + Padding(t) ELSE w
  BY DEF Reached, w, d, r, t
<1> HIDE DEF w
<1>11. Bound(n + 1) = Bound(n) + LiteralWeight(Adaptor) + (IF n + 1 = numNodes THEN EndWeight ELSE 0)
  BY BoundsGrow
<1>12. CASE Ending(e)
  <2>1. n + 1 = nlen /\ nlen = numNodes
    BY <1>1, <1>2, <1>12 DEF Ending, Dest
  <2>2. EndWeight = Adaptor.TerminatorWeight + Adaptor.NumDescBits + Adaptor.padMask
    BY DEF EndWeight
  <2>3. QED
    BY <1>1, <1>4, <1>6, <1>8, <1>9, <1>10, <1>11, <1>12, <2>1, <2>2
<1>13. CASE ~Ending(e)
  BY <1>1, <1>6, <1>10, <1>11, <1>13
<1>14. QED
  BY <1>12, <1>13

-----------------------------------------------------------------------------
(* What relaxing does to a node: it keeps what it has, or it is reached at *)
(* a lower price from the node being relaxed; and an edge that alone ends  *)
(* there leaves it no dearer than itself.                                  *)
Same(n) ==
  /\ costs'[n] = costs[n] /\ desccosts'[n] = desccosts[n]
  /\ parents'[n] = parents[n] /\ pedges'[n] = pedges[n]

Cheaper(n, edges) ==
  /\ parents'[n] = node /\ pedges'[n] \in edges /\ Dest(pedges'[n]) - First = n
  /\ costs'[n] = Reached(costs[node], desccosts[node], pedges'[n]).cost
  /\ desccosts'[n] = Reached(costs[node], desccosts[node], pedges'[n]).desc
  /\ costs'[n] < costs[n]

LEMMA RelaxingLowers ==
  ASSUME numNodes \in Nat, First \in Nat, AdaptorOK(Adaptor), node \in 0 .. numNodes, Types,
         NEW edges, \A e \in edges : Sound(e), Relaxing(edges),
         NEW n \in 0 .. numNodes
  PROVE  /\ Same(n) \/ Cheaper(n, edges)
         /\ costs'[n] \in Nat /\ costs'[n] <= costs[n]
         /\ \A e \in edges :
              Dest(e) - First = n /\ (\A f \in edges : Dest(f) = Dest(e) => f = e)
                => costs'[n] <= Reached(costs[node], desccosts[node], e).cost
<1> DEFINE reached(e) == Reached(costs[node], desccosts[node], e)
           better == {e \in edges : Dest(e) - First = n /\ costs[n] > reached(e).cost}
           best == CHOOSE e \in better : TRUE
<1>1. /\ costs'[n] = IF better # {} THEN reached(best).cost ELSE costs[n]
      /\ desccosts'[n] = IF better # {} THEN reached(best).desc ELSE desccosts[n]
      /\ parents'[n] = IF better # {} THEN node ELSE parents[n]
      /\ pedges'[n] = IF better # {} THEN best ELSE pedges[n]
  <2>1. n \in DOMAIN costs
    BY DEF Types
  <2>2. QED
    BY <2>1, Zenon DEF Relaxing
<1>2. \A e \in edges : reached(e).cost \in Nat /\ reached(e).desc \in Nat /\ Dest(e) \in Nat
  <2>1. costs[node] \in Nat /\ desccosts[node] \in Nat
    BY DEF Types
  <2>2. \A e \in edges : Dest(e) \in Nat
    BY DEF Sound, Dest
  <2>3. QED
    BY <2>1, <2>2, ReachedIsNat DEF Sound
<1>3. better # {} => best \in edges /\ Dest(best) - First = n /\ costs[n] > reached(best).cost
  OBVIOUS
<1>4. \A e \in edges : Dest(e) - First = n => e \in better \/ ~(costs[n] > reached(e).cost)
  OBVIOUS
<1>5. costs[n] \in Nat
  BY DEF Types
<1> HIDE DEF best, better
<1>6. CASE better # {}
  <2>1. /\ costs'[n] = reached(best).cost /\ desccosts'[n] = reached(best).desc
        /\ parents'[n] = node /\ pedges'[n] = best
    BY <1>1, <1>6
  <2>2. /\ best \in edges /\ Dest(best) - First = n /\ reached(best).cost < costs[n]
        /\ reached(best).cost \in Nat /\ Dest(best) \in Nat
    BY <1>2, <1>3, <1>5, <1>6
  <2>3. Cheaper(n, edges)
    BY <2>1, <2>2 DEF Cheaper
  <2>4. ASSUME NEW e \in edges, Dest(e) - First = n, \A f \in edges : Dest(f) = Dest(e) => f = e
        PROVE  costs'[n] <= reached(e).cost
    <3>1. Dest(best) = Dest(e)
      BY <1>2, <2>2, <2>4
    <3>2. best = e
      BY <2>2, <2>4, <3>1
    <3>3. QED
      BY <2>1, <2>2, <3>2
  <2>5. QED
    BY <1>5, <2>1, <2>2, <2>3, <2>4
<1>7. CASE better = {}
  <2>1. Same(n)
    BY <1>1, <1>7 DEF Same
  <2>2. \A e \in edges : Dest(e) - First = n => costs[n] <= reached(e).cost
    BY <1>2, <1>4, <1>5, <1>7
  <2>3. QED
    BY <1>5, <2>1, <2>2 DEF Same
<1>8. QED
  BY <1>6, <1>7

(* No edge leads to the node being relaxed or behind it.                   *)
LEMMA BehindIsFinal ==
  ASSUME PInv, NEW edges, \A e \in edges : Sound(e), Relaxing(edges),
         NEW n \in 0 .. numNodes, n <= node
  PROVE  Same(n)
<1>1. /\ numNodes \in Nat /\ First \in Nat /\ AdaptorOK(Adaptor) /\ node \in 0 .. numNodes /\ Types
  BY TheAdaptor DEF PInv
<1>2. Same(n) \/ Cheaper(n, edges)
  BY <1>1, RelaxingLowers
<1>3. ASSUME Cheaper(n, edges) PROVE FALSE
  <2>1. pedges'[n] \in edges /\ Dest(pedges'[n]) - First = n
    BY <1>3 DEF Cheaper
  <2>2. Sound(pedges'[n])
    BY <2>1
  <2> DEFINE f == pedges'[n]
  <2>3. Sound(f) /\ Dest(f) - First = n
    BY <2>1, <2>2
  <2> HIDE DEF f
  <2>4. f.pos = First + node /\ f.len \in Nat \ {0} /\ Dest(f) = f.pos + f.len
    BY <2>3 DEF Sound, Dest
  <2>5. QED
    BY <1>1, <2>3, <2>4
<1>4. QED
  BY <1>2, <1>3

(* The price of a node is reckoned in the same way throughout.             *)
LEMMA PriceStays ==
  ASSUME format' = format, data' = data, NEW n
  PROVE  Price(n)' = Reached(costs'[parents'[n]], desccosts'[parents'[n]], pedges'[n])
<1>1. Adaptor' = Adaptor /\ First' = First /\ nlen' = nlen
  BY DEF Adaptor, First, nlen
<1>2. QED
  BY <1>1 DEF Price, Reached, Weight, DescBits, Ending, Dest, FieldRest, Padding

(* Relaxing keeps the prices in order, and makes nothing dearer.           *)
LEMMA RelaxingKeepsPrices ==
  ASSUME PInv, PricesInv, FrontInv, format' = format, data' = data, node' \in {node, node + 1},
         NEW edges, \A e \in edges : Sound(e), Relaxing(edges)
  PROVE  PricesInv' /\ \A n \in 0 .. numNodes : costs'[n] \in Nat /\ costs'[n] <= costs[n]
<1>1. /\ numNodes \in Nat /\ First \in Nat /\ AdaptorOK(Adaptor) /\ node \in 0 .. numNodes /\ Types
      /\ format \in DOMAIN Adaptors /\ data \in Inputs[format]
      /\ numNodes' = numNodes /\ Edges' = Edges
  BY TheAdaptor DEF PInv, numNodes, nlen, First, Adaptor, Edges, EdgeTypes
<1>2. ASSUME NEW n \in 0 .. numNodes
      PROVE  /\ Same(n) \/ Cheaper(n, edges)
             /\ costs'[n] \in Nat /\ costs'[n] <= costs[n] /\ costs[n] \in Nat
  <2>1. costs[n] \in Nat
    BY <1>1 DEF Types
  <2>2. QED
    BY <1>1, <2>1, RelaxingLowers
<1>3. ASSUME NEW n \in 0 .. numNodes, n <= node PROVE Same(n)
  BY <1>3, BehindIsFinal
<1>4. costs'[0] = 0 /\ desccosts'[0] = 0
  BY <1>1, <1>3 DEF Same, PricesInv
<1>5. ASSUME NEW n \in 0 .. numNodes PROVE costs'[n] <= Infinity
  BY <1>2 DEF PricesInv, Infinity
<1>6. costs[node] < Infinity
  <2>1. node \in 0 .. Frontier
    BY <1>1 DEF Frontier
  <2>2. costs[node] <= Bound(node)
    BY <2>1 DEF FrontInv
  <2>3. Bound(node) \in Nat /\ Bound(node) < Infinity
    BY <1>1, BoundsGrow
  <2>4. QED
    BY <1>2, <1>1, <2>2, <2>3 DEF Infinity
<1>7. ASSUME NEW n \in 1 .. numNodes, costs'[n] # Infinity
      PROVE  Priced(n)'
  <2> DEFINE q == parents'[n]
  <2>1. n \in 0 .. numNodes
    OBVIOUS
  <2>2. /\ pedges'[n] \in Edges /\ q < n /\ q <= node /\ q \in 0 .. numNodes
        /\ costs[q] < Infinity
        /\ costs'[n] = Reached(costs[q], desccosts[q], pedges'[n]).cost
        /\ desccosts'[n] = Reached(costs[q], desccosts[q], pedges'[n]).desc
    <3>1. CASE Same(n)
      <4>1. Priced(n)
        BY <1>7, <3>1 DEF PricesInv, Same
      <4>2. q = parents[n] /\ q \in 0 .. numNodes
        BY <1>1, <2>1, <3>1 DEF Same, Types
      <4>3. QED
        BY <3>1, <4>1, <4>2 DEF Priced, Price, Same
    <3>2. CASE Cheaper(n, edges)
      <4>1. /\ q = node /\ pedges'[n] \in edges /\ Dest(pedges'[n]) - First = n
        BY <3>2 DEF Cheaper
      <4>2. Sound(pedges'[n])
        BY <4>1
      <4>3. /\ pedges'[n] \in Edges
            /\ (pedges'[n]).pos = First + node /\ (pedges'[n]).len \in Nat \ {0}
        BY <4>2 DEF Sound, Edges
      <4>4. node < n
        BY <1>1, <4>1, <4>3 DEF Dest
      <4>5. QED
        BY <1>1, <1>6, <3>2, <4>1, <4>3, <4>4 DEF Cheaper
    <3>3. QED
      BY <1>2, <2>1, <3>1, <3>2
  <2>3. Same(q)
    BY <1>3, <2>2
  <2>4. costs'[q] = costs[q] /\ desccosts'[q] = desccosts[q]
    BY <2>3 DEF Same
  <2>5. Price(n)' = Reached(costs[q], desccosts[q], pedges'[n])
    BY <2>4, PriceStays
  <2>6. q <= node'
    BY <1>1, <2>2
  <2> HIDE DEF q
  <2>7. /\ (Price(n)').cost = costs'[n] /\ (Price(n)').desc = desccosts'[n]
    BY <2>2, <2>5
  <2>8. /\ pedges'[n] \in Edges' /\ q < n /\ q <= node' /\ costs'[q] < Infinity
    BY <1>1, <2>2, <2>4, <2>6
  <2>9. QED
    BY <2>7, <2>8 DEF Priced, q, Infinity
<1>8. PricesInv'
  BY <1>1, <1>4, <1>5, <1>7 DEF PricesInv, Infinity
<1>9. QED
  BY <1>2, <1>8

-----------------------------------------------------------------------------
(* Initially nothing is reached but the first node.                        *)
LEMMA InitWalks ==
  ASSUME Init
  PROVE  WInv
<1>1. PInv
  BY InitKeeps
<1>2. /\ format \in DOMAIN Adaptors /\ data \in Inputs[format]
      /\ node = 0 /\ layer = 0 /\ at = numNodes /\ parselist = << >>
      /\ costs = [n \in 0 .. numNodes |-> IF n = 0 THEN 0 ELSE Infinity]
      /\ desccosts = [n \in 0 .. numNodes |-> IF n = 0 THEN 0 ELSE Infinity]
  BY DEF Init
<1>3. numNodes \in Nat /\ 0 \in 0 .. numNodes
  BY <1>2, TheAdaptor
<1>4. PricesInv
  <2>1. costs[0] = 0 /\ desccosts[0] = 0
    BY <1>2, <1>3
  <2>2. \A n \in 0 .. numNodes : costs[n] <= Infinity
    BY <1>2 DEF Infinity
  <2>3. \A n \in 1 .. numNodes : costs[n] = Infinity
    BY <1>2, <1>3
  <2>4. QED
    BY <2>1, <2>2, <2>3 DEF PricesInv
<1>5. FrontInv
  <2>1. SUFFICES ASSUME NEW n \in 0 .. Frontier PROVE costs[n] <= Bound(n)
    BY DEF FrontInv
  <2>2. n = 0
    BY <1>2, <2>1 DEF Frontier
  <2>3. Bound(0) \in Nat
    BY <1>2, <1>3, BoundsGrow
  <2>4. QED
    BY <1>2, <1>3, <2>2, <2>3
<1>6. ChainInv
  <2>1. parselist \in Seq(Edges) /\ Len(parselist) = 0
    BY <1>2
  <2>2. Stop(0) = numNodes
    BY <1>2 DEF Stop
  <2>3. QED
    BY <1>2, <2>1, <2>2 DEF ChainInv
<1>7. QED
  BY <1>1, <1>4, <1>5, <1>6 DEF WInv

(* While the pass is on there is no parse.                                 *)
LEMMA NoParseYet ==
  ASSUME ChainInv, PInv, node < numNodes, format' = format, data' = data,
         parselist' = parselist, at' = at
  PROVE  ChainInv'
<1>1. numNodes' = numNodes /\ numNodes \in Nat
  BY TheAdaptor DEF PInv, numNodes, nlen, First, Adaptor
<1>2. parselist' = << >> /\ at' = numNodes
  BY DEF ChainInv
<1>3. Stop(0)' = numNodes
  BY <1>2 DEF Stop
<1>4. parselist' \in Seq(Edges') /\ Len(parselist') = 0
  BY <1>2
<1>5. QED
  BY <1>1, <1>2, <1>3, <1>4 DEF ChainInv

(* A bound does not change.                                                *)
LEMMA BoundStays ==
  ASSUME format' = format, data' = data, NEW n
  PROVE  Bound(n)' = Bound(n)
<1>1. Adaptor' = Adaptor /\ numNodes' = numNodes
  BY DEF Adaptor, First, nlen, numNodes
<1>2. QED
  BY <1>1 DEF Bound, EndWeight

(* The literal reaches the next node.                                      *)
LEMMA SymbolwiseWalks ==
  ASSUME WInv, Symbolwise
  PROVE  WInv'
<1>1. /\ PInv /\ PricesInv /\ FrontInv /\ ChainInv
      /\ format' = format /\ data' = data /\ node' = node /\ parselist' = parselist /\ at' = at
      /\ node < numNodes /\ layer = 0 /\ layer' = 1
  BY DEF Symbolwise, WInv
<1>2. /\ numNodes \in Nat /\ First \in Nat /\ AdaptorOK(Adaptor) /\ node \in 0 .. numNodes /\ Types
      /\ format \in DOMAIN Adaptors /\ data \in Inputs[format]
      /\ numNodes' = numNodes
  BY <1>1, TheAdaptor DEF PInv, numNodes, nlen, First, Adaptor
<1> DEFINE e == Edge(node + First, 0, 1, "symbolwise")
<1>3. Sound(e) /\ Relaxing({e})
  BY <1>1, <1>2, LiteralIsSound DEF Symbolwise
<1>4. Dest(e) - First = node + 1
  <2>1. Dest(e) = node + First + 1
    BY DEF e, Edge, Dest
  <2>2. QED
    BY <1>2, <2>1
<1>5. costs[node] \in Nat /\ desccosts[node] \in Nat /\ costs[node] <= Bound(node)
  <2>1. node \in 0 .. Frontier
    BY <1>1, <1>2 DEF Frontier
  <2>2. QED
    BY <1>1, <1>2, <2>1 DEF FrontInv, Types
<1>6. Reached(costs[node], desccosts[node], e).cost <= Bound(node + 1)
  BY <1>1, <1>2, <1>5, LiteralReaches
<1>7. Reached(costs[node], desccosts[node], e).cost \in Nat
  BY <1>2, <1>3, <1>5, ReachedIsNat DEF Sound
<1> HIDE DEF e
<1>8. PricesInv' /\ \A n \in 0 .. numNodes : costs'[n] \in Nat /\ costs'[n] <= costs[n]
  BY <1>1, <1>3, RelaxingKeepsPrices
<1>9. node + 1 \in 0 .. numNodes
  BY <1>1, <1>2
<1>10. costs'[node + 1] <= Reached(costs[node], desccosts[node], e).cost
  BY <1>2, <1>3, <1>4, <1>9, RelaxingLowers
<1>11. FrontInv'
  <2>1. SUFFICES ASSUME NEW n \in 0 .. Frontier' PROVE costs'[n] <= Bound(n)
    BY <1>1, BoundStays DEF FrontInv
  <2>2. n \in 0 .. node + 1 /\ n \in 0 .. numNodes
    BY <1>1, <1>2, <1>9 DEF Frontier
  <2>3. Bound(n) \in Nat /\ costs[n] \in Nat
    BY <1>2, <2>2, BoundsGrow DEF Types
  <2>4. CASE n = node + 1
    BY <1>6, <1>7, <1>8, <1>10, <2>2, <2>3, <2>4
  <2>5. CASE n # node + 1
    <3>1. n \in 0 .. Frontier
      BY <1>1, <1>2, <2>2, <2>5 DEF Frontier
    <3>2. costs[n] <= Bound(n) /\ costs'[n] \in Nat /\ costs'[n] <= costs[n]
      BY <1>1, <1>8, <2>2, <3>1 DEF FrontInv
    <3>3. QED
      BY <2>3, <3>2
  <2>6. QED
    BY <2>4, <2>5
<1>12. PInv'
  BY <1>1, SymbolwiseKeeps
<1>13. ChainInv'
  BY <1>1, NoParseYet
<1>14. QED
  BY <1>8, <1>11, <1>12, <1>13 DEF WInv

(* A window moves on, and with the last the node: nothing gets dearer.     *)
LEMMA SearchWindowWalks ==
  ASSUME WInv, SearchWindow
  PROVE  WInv'
<1>1. /\ PInv /\ PricesInv /\ FrontInv /\ ChainInv
      /\ format' = format /\ data' = data /\ parselist' = parselist /\ at' = at
      /\ node < numNodes /\ layer > 0
      /\ Relaxing(EdgesOf(Adaptor.windows[layer], windows[layer]))
      /\ IF layer < Layers THEN layer' = layer + 1 /\ node' = node ELSE layer' = 0 /\ node' = node + 1
  BY DEF SearchWindow, WInv
<1>2. /\ numNodes \in Nat /\ First \in Nat /\ AdaptorOK(Adaptor) /\ node \in 0 .. numNodes /\ Types
      /\ format \in DOMAIN Adaptors /\ data \in Inputs[format]
      /\ layer \in 1 .. Layers /\ Layers \in Nat
      /\ numNodes' = numNodes
  BY <1>1, TheAdaptor DEF PInv, numNodes, nlen, First, Adaptor
<1> DEFINE edges == EdgesOf(Adaptor.windows[layer], windows[layer])
<1>3. \A e \in edges : Sound(e)
  <2>1. InPlace(Adaptor.windows[layer], windows[layer], Place(layer))
    BY <1>1, <1>2, WindowsInPlace DEF PInv
  <2>2. Place(layer) = First + node
    BY <1>1, <1>2 DEF Place
  <2>3. QED
    BY <1>1, <1>2, <2>1, <2>2, EdgesAreSound
<1> HIDE DEF edges
<1>4. node' \in {node, node + 1}
  BY <1>1
<1>5. PricesInv' /\ \A n \in 0 .. numNodes : costs'[n] \in Nat /\ costs'[n] <= costs[n]
  BY <1>1, <1>3, <1>4, RelaxingKeepsPrices DEF edges
<1>6. Frontier = node + 1 /\ Frontier' = node + 1
  BY <1>1, <1>2 DEF Frontier
<1>7. FrontInv'
  <2>1. SUFFICES ASSUME NEW n \in 0 .. Frontier' PROVE costs'[n] <= Bound(n)
    BY <1>1, BoundStays DEF FrontInv
  <2>2. n \in 0 .. Frontier /\ n \in 0 .. numNodes
    BY <1>1, <1>2, <1>6
  <2>3. Bound(n) \in Nat /\ costs[n] \in Nat
    BY <1>2, <2>2, BoundsGrow DEF Types
  <2>4. costs[n] <= Bound(n) /\ costs'[n] \in Nat /\ costs'[n] <= costs[n]
    BY <1>1, <1>5, <2>2 DEF FrontInv
  <2>5. QED
    BY <2>3, <2>4
<1>8. PInv'
  BY <1>1, SearchWindowKeeps
<1>9. ChainInv'
  BY <1>1, NoParseYet
<1>10. QED
  BY <1>5, <1>7, <1>8, <1>9 DEF WInv

(* Every node the pass has come to is reached.                             *)
LEMMA BehindIsReached ==
  ASSUME WInv, NEW n \in 1 .. node
  PROVE  Priced(n) /\ n \in 1 .. numNodes /\ costs[n] < Infinity
<1>1. PInv /\ PricesInv /\ FrontInv
  BY DEF WInv
<1>2. numNodes \in Nat /\ node \in 0 .. numNodes /\ format \in DOMAIN Adaptors /\ data \in Inputs[format]
  BY <1>1, TheAdaptor DEF PInv
<1>3. n \in 0 .. Frontier /\ n \in 0 .. numNodes
  BY <1>2 DEF Frontier
<1>4. costs[n] \in Nat /\ costs[n] <= Bound(n)
  BY <1>1, <1>3 DEF PInv, Types, FrontInv
<1>5. Bound(n) \in Nat /\ Bound(n) < Infinity
  BY <1>2, <1>3, BoundsGrow
<1>6. costs[n] < Infinity /\ costs[n] # Infinity
  BY <1>4, <1>5 DEF Infinity
<1>7. QED
  BY <1>1, <1>2, <1>3, <1>6 DEF PricesInv

(* The prices do not depend on the walk back.                              *)
LEMMA PassIsOver ==
  ASSUME PricesInv, FrontInv,
         UNCHANGED <<format, data, node, layer, windows, costs, desccosts, parents, pedges>>
  PROVE  PricesInv' /\ FrontInv' /\ Edges' = Edges /\ numNodes' = numNodes
<1>1. Adaptor' = Adaptor /\ First' = First /\ nlen' = nlen /\ numNodes' = numNodes
  BY DEF Adaptor, First, nlen, numNodes
<1>2. Edges' = Edges
  BY <1>1 DEF Edges, EdgeTypes
<1>3. \A n : Priced(n) => Priced(n)'
  <2>1. SUFFICES ASSUME NEW n, Priced(n) PROVE Priced(n)'
    OBVIOUS
  <2>2. Price(n)' = Price(n)
    <3>1. Price(n)' = Reached(costs'[parents'[n]], desccosts'[parents'[n]], pedges'[n])
      BY PriceStays
    <3>2. QED
      BY <3>1 DEF Price
  <2>3. QED
    BY <1>2, <2>1, <2>2 DEF Priced, Infinity
<1>4. PricesInv'
  BY <1>1, <1>3 DEF PricesInv, Infinity
<1>5. FrontInv'
  BY BoundStays DEF FrontInv, Frontier
<1>6. QED
  BY <1>1, <1>2, <1>4, <1>5

(* A step of the walk back puts the edge by which a node is reached before *)
(* those from there on.                                                    *)
LEMMA WalkBackWalks ==
  ASSUME WInv, WalkBack
  PROVE  WInv'
<1>1. /\ PInv /\ PricesInv /\ FrontInv /\ ChainInv
      /\ node = numNodes /\ at # 0 /\ at' = parents[at]
      /\ parselist' = <<pedges[at]>> \o parselist
      /\ UNCHANGED <<format, data, node, layer, windows, costs, desccosts, parents, pedges>>
  BY DEF WalkBack, WInv
<1>2. PInv' /\ PricesInv' /\ FrontInv' /\ Edges' = Edges /\ numNodes' = numNodes
  BY <1>1, WalkBackKeeps, PassIsOver
<1>3. at \in 1 .. numNodes /\ numNodes \in Nat /\ First \in Nat
  BY <1>1, TheAdaptor DEF PInv
<1>4. Priced(at) /\ costs[at] # Infinity
  BY <1>1, <1>3, BehindIsReached DEF Infinity
<1>5. pedges[at] \in Edges /\ Dest(pedges[at]) - First = at
  <2>1. Dest(pedges[at]) = at + First
    BY <1>1, <1>3, <1>4 DEF PInv, EdgesAreGenuine
  <2>2. QED
    BY <1>3, <1>4, <2>1 DEF Priced
<1>6. PICK L \in Nat : L = Len(parselist) /\ parselist \in Seq(Edges)
  BY <1>1 DEF ChainInv
<1>7. /\ parselist' \in Seq(Edges) /\ Len(parselist') = L + 1
      /\ parselist'[1] = pedges[at]
      /\ \A i \in 1 .. L : parselist'[i + 1] = parselist[i]
  BY <1>1, <1>5, <1>6
<1>8. First' = First /\ \A e : Dest(e)' = Dest(e)
  BY <1>1 DEF First, Adaptor, Dest
<1>9. Stop(0)' = parents[at] /\ Stop(1)' = at
  BY <1>1, <1>5, <1>7, <1>8 DEF Stop, Dest
<1>10. ASSUME NEW i \in 1 .. L PROVE Stop(i + 1)' = Stop(i)
  <2>1. parselist'[i + 1] = parselist[i] /\ i + 1 # 0 /\ i # 0
    BY <1>6, <1>7
  <2>2. QED
    BY <1>8, <2>1 DEF Stop, Dest
<1>11. Stop(0) = at
  BY DEF Stop
<1>12. ASSUME NEW i \in 0 .. L PROVE Stop(i + 1)' = Stop(i)
  <2>1. CASE i = 0
    BY <1>9, <1>11, <2>1
  <2>2. CASE i # 0
    BY <1>10, <2>2
  <2>3. QED
    BY <2>1, <2>2
<1>13. Stop(L + 1)' = numNodes
  <2>1. Stop(L) = numNodes
    BY <1>1, <1>6 DEF ChainInv
  <2>2. L \in 0 .. L
    BY <1>6
  <2>3. QED
    BY <1>12, <2>1, <2>2
<1>14. ASSUME NEW j \in 1 .. L + 1
       PROVE  /\ Stop(j)' \in 1 .. numNodes
              /\ parselist'[j] = pedges[Stop(j)']
              /\ Stop(j - 1)' = parents[Stop(j)']
  <2>1. CASE j = 1
    BY <1>3, <1>7, <1>9, <2>1
  <2>2. CASE j # 1
    <3>1. PICK i \in 1 .. L : j = i + 1
      <4>1. j - 1 \in 1 .. L /\ j = (j - 1) + 1
        BY <1>6, <2>2
      <4>2. QED
        BY <4>1
    <3>2. Stop(j)' = Stop(i) /\ parselist'[j] = parselist[i]
      BY <1>6, <1>7, <1>10, <3>1
    <3>3. /\ Stop(i) \in 1 .. numNodes /\ parselist[i] = pedges[Stop(i)]
          /\ Stop(i - 1) = parents[Stop(i)]
      BY <1>1, <1>6, <3>1 DEF ChainInv
    <3>4. Stop(j - 1)' = Stop(i - 1)
      <4>1. i - 1 \in 0 .. L /\ (i - 1) + 1 = j - 1
        BY <1>6, <3>1
      <4>2. QED
        BY <1>12, <4>1
    <3>5. QED
      BY <3>2, <3>3, <3>4
  <2>3. QED
    BY <2>1, <2>2
<1>15. ChainInv'
  <2>1. Stop(Len(parselist))' = numNodes'
    BY <1>2, <1>7, <1>13 DEF Stop
  <2>2. node' = node /\ Len(parselist') = L + 1 /\ ~(node' < numNodes')
    BY <1>1, <1>2, <1>3, <1>7
  <2>3. QED
    BY <1>1, <1>2, <1>7, <1>14, <2>1, <2>2 DEF ChainInv
<1>16. QED
  BY <1>2, <1>15 DEF WInv

(* And a step of nothing.                                                  *)
LEMMA StutteringWalks ==
  ASSUME WInv, UNCHANGED vars
  PROVE  WInv'
<1>1. /\ UNCHANGED <<format, data, node, layer, windows, costs, desccosts, parents, pedges>>
      /\ at' = at /\ parselist' = parselist
  BY DEF vars
<1>2. PInv' /\ PricesInv' /\ FrontInv' /\ Edges' = Edges /\ numNodes' = numNodes
  BY <1>1, StutteringKeeps, PassIsOver DEF WInv
<1>3. \A i : Stop(i)' = Stop(i)
  BY <1>1 DEF Stop, Dest, First, Adaptor
<1>4. ChainInv'
  BY <1>1, <1>2, <1>3 DEF WInv, ChainInv
<1>5. QED
  BY <1>2, <1>4 DEF WInv

LEMMA StepWalks ==
  ASSUME WInv, [Next]_vars
  PROVE  WInv'
BY SymbolwiseWalks, SearchWindowWalks, WalkBackWalks, StutteringWalks DEF Next

-----------------------------------------------------------------------------
(* The parse, once it is there: it leads from the first symbol to the end  *)
(* of the file, edge after edge, each of them one the format can express.  *)
ParseCovers ==
  Finished =>
    /\ parselist \in Seq(Edges)
    /\ Stop(0) = 0 /\ Stop(Len(parselist)) = numNodes
    /\ \A i \in 1 .. Len(parselist) :
         /\ Genuine(parselist[i])
         /\ parselist[i].pos = First + Stop(i - 1)
         /\ Stop(i) = Stop(i - 1) + parselist[i].len /\ Stop(i - 1) \in 0 .. numNodes
         /\ Stop(i) <= numNodes

LEMMA WInvCovers ==
  ASSUME WInv
  PROVE  ParseCovers
<1>1. SUFFICES ASSUME Finished
      PROVE  /\ parselist \in Seq(Edges)
             /\ Stop(0) = 0 /\ Stop(Len(parselist)) = numNodes
             /\ \A i \in 1 .. Len(parselist) :
                  /\ Genuine(parselist[i])
                  /\ parselist[i].pos = First + Stop(i - 1)
                  /\ Stop(i) = Stop(i - 1) + parselist[i].len /\ Stop(i - 1) \in 0 .. numNodes
                  /\ Stop(i) <= numNodes
  BY DEF ParseCovers
<1>2. PInv /\ ChainInv /\ numNodes \in Nat /\ First \in Nat /\ node = numNodes
  BY <1>1, TheAdaptor DEF WInv, PInv, Finished
<1>3. Stop(0) = 0
  BY <1>1 DEF Stop, Finished
<1>4. ASSUME NEW i \in 1 .. Len(parselist)
      PROVE  /\ Genuine(parselist[i])
             /\ parselist[i].pos = First + Stop(i - 1)
             /\ Stop(i) = Stop(i - 1) + parselist[i].len /\ Stop(i - 1) \in 0 .. numNodes
             /\ Stop(i) <= numNodes
  <2>1. PICK n \in 1 .. numNodes : n = Stop(i) /\ parselist[i] = pedges[n] /\ Stop(i - 1) = parents[n]
    BY <1>2 DEF ChainInv
  <2>2. Priced(n) /\ costs[n] # Infinity
    BY <1>2, BehindIsReached DEF Infinity
  <2>3. /\ pedges[n].pos = parents[n] + First /\ Dest(pedges[n]) = n + First /\ Genuine(pedges[n])
    BY <1>2, <2>2 DEF PInv, EdgesAreGenuine
  <2>4. parents[n] \in 0 .. numNodes
    BY <1>2 DEF PInv, Types
  <2>5. pedges[n].len \in Nat
    BY <2>2 DEF Priced, Edges
  <2>6. n + First = pedges[n].pos + pedges[n].len
    BY <2>3 DEF Dest
  <2>7. n = parents[n] + pedges[n].len /\ pedges[n].pos = First + parents[n] /\ n <= numNodes
    <3>1. n \in Int /\ parents[n] \in Int
      BY <2>1, <2>4
    <3>2. QED
      BY <1>2, <2>3, <2>5, <2>6, <3>1
  <2>8. QED
    BY <2>1, <2>3, <2>4, <2>7
<1>5. QED
  BY <1>2, <1>3, <1>4 DEF ChainInv

(* The parse is complete and in order, and all of it can be expressed: no  *)
(* node is left without a way to it, and the walk back loses none.         *)
THEOREM ParseCoversTheFile == Spec => []ParseCovers
<1>1. Init => WInv
  BY InitWalks
<1>2. WInv /\ [Next]_vars => WInv'
  BY StepWalks
<1>3. WInv => ParseCovers
  BY WInvCovers
<1>4. QED
  BY <1>1, <1>2, <1>3, PTL DEF Spec

-----------------------------------------------------------------------------
(* What a node offers: a literal, and what each window finds there; they   *)
(* are relaxed in this order.                                              *)
Stand(w, p) ==
  [basenode |-> p, lbound |-> IF p > w.buf THEN p - w.buf ELSE 0, ubound |-> Least(p + w.max, nlen)]

Offer(q, i) ==
  IF i = 0 THEN {Edge(q + First, 0, 1, "symbolwise")}
  ELSE EdgesOf(Adaptor.windows[i], Stand(Adaptor.windows[i], First + q))

(* The end of an edge is no dearer than by that edge.                      *)
Settled(e, q) ==
  /\ e \in Edges /\ Dest(e) - First \in 0 .. numNodes
  /\ costs[Dest(e) - First] <= Reached(costs[q], desccosts[q], e).cost

(* A node's offers are passed up to the layer that is searched next.       *)
Passed(q, i) == q < node \/ (q = node /\ i < layer)

(* What is passed is settled, and stays so.                                *)
OfferInv ==
  \A q \in 0 .. numNodes - 1, i \in 0 .. Layers :
    Passed(q, i) => \A e \in Offer(q, i) : Settled(e, q)

(* A window finds the same wherever it is in the same place.               *)
LEMMA PlaceIsAll ==
  ASSUME NEW w, NEW s, NEW p, InPlace(w, s, p)
  PROVE  EdgesOf(w, s) = EdgesOf(w, Stand(w, p))
<1> DEFINE t == Stand(w, p)
<1>1. s.basenode = t.basenode /\ s.lbound = t.lbound /\ s.ubound = t.ubound
  BY DEF InPlace, Stand
<1> HIDE DEF t
<1>2. \A i : Agreement(s, i) = Agreement(t, i)
  BY <1>1, Zenon DEF Agreement
<1>3. ZeroRun(s) = ZeroRun(t)
  BY <1>1, Zenon DEF ZeroRun
<1>4. ZeroFills(s) = ZeroFills(t)
  BY <1>1, <1>3, Zenon DEF ZeroFills
<1>5. Matches(w, s) = Matches(w, t)
  <2> DEFINE A(u) == {Agreement(u, i) : i \in u.lbound .. u.basenode - 1}
             F(u, b) == {i \in u.lbound .. u.basenode - 1 : Agreement(u, i) = b}
  <2>1. A(s) = A(t)
    BY <1>1, <1>2
  <2>2. \A b : F(s, b) = F(t, b)
    BY <1>1, <1>2
  <2> DEFINE found(u, a, f) ==
               IF u.basenode = u.lbound THEN {}
               ELSE {Edge(u.basenode, u.basenode - f, n, w.type) : n \in w.min .. a}
  <2>3. \A u : Matches(w, u) = found(u, Max(A(u)), Max(F(u, Max(A(u)))))
    BY Zenon DEF Matches
  <2>4. \A a, f : found(s, a, f) = found(t, a, f)
    BY <1>1
  <2> HIDE DEF A, F, found
  <2>5. PICK a : a = Max(A(s)) /\ a = Max(A(t))
    BY <2>1
  <2>6. PICK f : f = Max(F(s, a)) /\ f = Max(F(t, a))
    BY <2>2
  <2>7. Matches(w, s) = found(s, a, f) /\ Matches(w, t) = found(t, a, f)
    BY <2>3, <2>5, <2>6, Zenon
  <2>8. QED
    BY <2>4, <2>7
<1>6. QED
  BY <1>4, <1>5 DEF EdgesOf, t

(* No two of what it finds end at the same node.                           *)
LEMMA EndsDiffer ==
  ASSUME NEW w, NEW s, s.basenode \in Nat, NEW e \in EdgesOf(w, s), NEW f \in EdgesOf(w, s), Dest(e) = Dest(f)
  PROVE  e = f
<1>1. EdgesOf(w, s) = ZeroFills(s) \/ EdgesOf(w, s) = Matches(w, s)
  BY DEF EdgesOf
<1>2. \E d, t : \A g \in EdgesOf(w, s) : \E n \in Int : g = Edge(s.basenode, d, n, t)
  <2>1. CASE EdgesOf(w, s) = ZeroFills(s)
    BY <2>1 DEF ZeroFills
  <2>2. CASE EdgesOf(w, s) = Matches(w, s)
    <3>1. PICK a, d : \A g \in Matches(w, s) : \E n \in w.min .. a : g = Edge(s.basenode, d, n, w.type)
      <4> DEFINE best == Max({Agreement(s, i) : i \in s.lbound .. s.basenode - 1})
                 from == Max({i \in s.lbound .. s.basenode - 1 : Agreement(s, i) = best})
      <4>1. \A g \in Matches(w, s) : g \in {Edge(s.basenode, s.basenode - from, n, w.type) : n \in w.min .. best}
        BY DEF Matches
      <4> HIDE DEF best, from
      <4>2. QED
        BY <4>1
    <3>2. QED
      BY <2>2, <3>1
  <2>3. QED
    BY <1>1, <2>1, <2>2
<1>3. PICK d, t : \A g \in EdgesOf(w, s) : \E n \in Int : g = Edge(s.basenode, d, n, t)
  BY <1>2
<1>4. PICK n \in Int : e = Edge(s.basenode, d, n, t)
  BY <1>3
<1>5. PICK m \in Int : f = Edge(s.basenode, d, m, t)
  BY <1>3
<1>6. PICK b \in Nat : b = s.basenode
  OBVIOUS
<1>7. n = m
  <2>1. Dest(e) = b + n /\ Dest(f) = b + m
    BY <1>4, <1>5, <1>6 DEF Dest, Edge
  <2>2. b + n = b + m
    BY <2>1
  <2>3. QED
    BY <2>2
<1>8. QED
  BY <1>4, <1>5, <1>7

(* What is offered does not change.                                        *)
LEMMA OffersStay ==
  ASSUME format' = format, data' = data
  PROVE  \A q, i : Offer(q, i)' = Offer(q, i)
<1>1. Adaptor' = Adaptor /\ First' = First /\ nlen' = nlen
  BY DEF Adaptor, First, nlen
<1>2. \A w, p : Stand(w, p)' = Stand(w, p)
  BY <1>1 DEF Stand
<1>3. \A w, s : EdgesOf(w, s)' = EdgesOf(w, s)
  BY <1>1 DEF EdgesOf, ZeroFills, Matches, ZeroRun, Agreement, Symbol
<1>4. QED
  BY <1>1, <1>2, <1>3 DEF Offer

(* Settled edges stay so while what they lead from is kept and nothing     *)
(* gets dearer.                                                            *)
LEMMA SettledStays ==
  ASSUME format' = format, data' = data, NEW e, NEW q, Settled(e, q),
         costs'[q] = costs[q], desccosts'[q] = desccosts[q],
         \A n \in 0 .. numNodes : costs[n] \in Nat /\ costs'[n] \in Nat /\ costs'[n] <= costs[n],
         Reached(costs[q], desccosts[q], e).cost \in Nat
  PROVE  Settled(e, q)'
<1>1. Adaptor' = Adaptor /\ First' = First /\ nlen' = nlen /\ numNodes' = numNodes
  BY DEF Adaptor, First, nlen, numNodes
<1>2. Edges' = Edges /\ Dest(e)' = Dest(e)
  BY <1>1 DEF Edges, EdgeTypes, Dest
<1>3. Reached(costs[q], desccosts[q], e)' = Reached(costs[q], desccosts[q], e)
  BY <1>1 DEF Reached, Weight, DescBits, Ending, Dest, FieldRest, Padding
<1>4. PICK n \in 0 .. numNodes : n = Dest(e) - First
  BY DEF Settled
<1>5. costs'[n] <= Reached(costs[q], desccosts[q], e).cost
  BY <1>4 DEF Settled
<1>6. QED
  BY <1>1, <1>2, <1>3, <1>4, <1>5 DEF Settled

(* Relaxing what a node offers next settles it.                            *)
LEMMA RelaxingSettles ==
  ASSUME PInv, PricesInv, FrontInv, OfferInv, node < numNodes,
         format' = format, data' = data, node' \in {node, node + 1},
         \A e \in Offer(node, layer) : Sound(e), Relaxing(Offer(node, layer)),
         \A q \in 0 .. numNodes - 1, i \in 0 .. Layers :
           Passed(q, i)' => Passed(q, i) \/ (q = node /\ i = layer)
  PROVE  OfferInv'
<1>1. /\ numNodes \in Nat /\ First \in Nat /\ AdaptorOK(Adaptor) /\ node \in 0 .. numNodes /\ Types
      /\ format \in DOMAIN Adaptors /\ data \in Inputs[format] /\ nlen \in Nat
      /\ numNodes' = numNodes /\ Layers' = Layers
  BY TheAdaptor DEF PInv, numNodes, nlen, First, Adaptor, Layers
<1>2. \A n \in 0 .. numNodes : costs[n] \in Nat /\ costs'[n] \in Nat /\ costs'[n] <= costs[n]
  BY <1>1, RelaxingKeepsPrices DEF Types
<1>3. SUFFICES ASSUME NEW q \in 0 .. numNodes - 1, NEW i \in 0 .. Layers, Passed(q, i)', NEW e \in Offer(q, i)
      PROVE  Settled(e, q)'
  <2>1. \A q, i : Offer(q, i)' = Offer(q, i)
    BY OffersStay
  <2>2. OfferInv' <=> \A q \in 0 .. numNodes - 1, i \in 0 .. Layers :
                        Passed(q, i)' => \A e \in Offer(q, i)' : Settled(e, q)'
    BY <1>1 DEF OfferInv
  <2>3. QED
    BY <2>1, <2>2, Zenon
<1>4. q \in 0 .. numNodes /\ q <= node
  <2>1. Passed(q, i) \/ q = node
    BY <1>3
  <2>2. QED
    BY <1>1, <2>1 DEF Passed
<1>5. costs'[q] = costs[q] /\ desccosts'[q] = desccosts[q] /\ costs[q] \in Nat /\ desccosts[q] \in Nat
  <2>1. Same(q)
    BY <1>4, BehindIsFinal
  <2>2. QED
    BY <1>1, <1>4, <2>1 DEF Same, Types
<1>6. \/ Settled(e, q)
      \/ /\ q = node /\ i = layer /\ e \in Edges /\ Dest(e) - First \in 0 .. numNodes
         /\ costs'[Dest(e) - First] <= Reached(costs[q], desccosts[q], e).cost
  <2>1. CASE Passed(q, i)
    BY <1>3, <2>1 DEF OfferInv
  <2>2. CASE q = node /\ i = layer
    <3>1. Sound(e) /\ e \in Offer(node, layer)
      BY <2>2
    <3>2. e \in Edges /\ e.pos = First + node /\ Dest(e) <= nlen /\ e.len \in Nat /\ Dest(e) = e.pos + e.len
      BY <3>1 DEF Sound, Edges, Dest
    <3>3. Dest(e) - First \in 0 .. numNodes
      BY <1>1, <3>2 DEF numNodes
    <3>4. \A f \in Offer(node, layer) : Dest(f) = Dest(e) => f = e
      <4>1. CASE layer = 0
        BY <2>2, <4>1 DEF Offer
      <4>2. CASE layer # 0
        <5>1. PICK w, s : /\ w = Adaptor.windows[layer] /\ s = Stand(w, First + node)
                          /\ Offer(node, layer) = EdgesOf(w, s)
          BY <4>2 DEF Offer
        <5>2. s.basenode \in Nat
          BY <1>1, <5>1 DEF Stand
        <5>3. QED
          BY <3>1, <5>1, <5>2, EndsDiffer
      <4>3. QED
        BY <4>1, <4>2
    <3>5. PICK n \in 0 .. numNodes : n = Dest(e) - First
      BY <3>3
    <3>6. costs'[n] <= Reached(costs[node], desccosts[node], e).cost
      BY <1>1, <3>1, <3>4, <3>5, RelaxingLowers
    <3>7. QED
      BY <2>2, <3>2, <3>5, <3>6
  <2>3. QED
    BY <1>3, <2>1, <2>2
<1>7. e \in Edges /\ Reached(costs[q], desccosts[q], e).cost \in Nat
  <2>1. e \in Edges
    BY <1>6 DEF Settled
  <2>2. QED
    BY <1>1, <1>5, <2>1, ReachedIsNat DEF Edges
<1>8. CASE Settled(e, q)
  BY <1>2, <1>5, <1>7, <1>8, SettledStays
<1>9. CASE ~Settled(e, q)
  <2>1. Adaptor' = Adaptor /\ First' = First /\ nlen' = nlen
    BY DEF Adaptor, First, nlen
  <2>2. Edges' = Edges /\ Dest(e)' = Dest(e)
    BY <2>1 DEF Edges, EdgeTypes, Dest
  <2>3. Reached(costs[q], desccosts[q], e)' = Reached(costs[q], desccosts[q], e)
    BY <1>5, <2>1 DEF Reached, Weight, DescBits, Ending, Dest, FieldRest, Padding
  <2>4. QED
    BY <1>1, <1>6, <1>9, <2>1, <2>2, <2>3 DEF Settled
<1>10. QED
  BY <1>8, <1>9

(* Nothing is passed at first.                                             *)
LEMMA InitOffers ==
  ASSUME Init
  PROVE  OfferInv
<1>1. node = 0 /\ layer = 0
  BY DEF Init
<1>2. QED
  BY <1>1 DEF OfferInv, Passed

(* The literal is settled first.                                           *)
LEMMA SymbolwiseOffers ==
  ASSUME WInv, OfferInv, Symbolwise
  PROVE  OfferInv'
<1>1. /\ PInv /\ PricesInv /\ FrontInv
      /\ format' = format /\ data' = data /\ node' = node
      /\ node < numNodes /\ layer = 0 /\ layer' = 1 /\ node \in 0 .. numNodes
  BY DEF Symbolwise, WInv, PInv
<1>2. Offer(node, layer) = {Edge(node + First, 0, 1, "symbolwise")}
  BY <1>1 DEF Offer
<1>3. Sound(Edge(node + First, 0, 1, "symbolwise"))
  BY <1>1, LiteralIsSound DEF PInv
<1>4. \A q \in 0 .. numNodes - 1, i \in 0 .. Layers : Passed(q, i)' => Passed(q, i) \/ (q = node /\ i = layer)
  BY <1>1 DEF Passed
<1>5. Relaxing(Offer(node, layer))
  BY <1>2 DEF Symbolwise
<1>6. \A e \in Offer(node, layer) : Sound(e)
  BY <1>2, <1>3
<1>7. QED
  BY <1>1, <1>4, <1>5, <1>6, RelaxingSettles

(* Then what the windows find, each in its turn.                           *)
LEMMA SearchWindowOffers ==
  ASSUME WInv, OfferInv, SearchWindow
  PROVE  OfferInv'
<1>1. /\ PInv /\ PricesInv /\ FrontInv
      /\ format' = format /\ data' = data
      /\ node < numNodes /\ layer > 0
      /\ Relaxing(EdgesOf(Adaptor.windows[layer], windows[layer]))
      /\ IF layer < Layers THEN layer' = layer + 1 /\ node' = node ELSE layer' = 0 /\ node' = node + 1
  BY DEF SearchWindow, WInv
<1>2. /\ numNodes \in Nat /\ node \in 0 .. numNodes
      /\ format \in DOMAIN Adaptors /\ data \in Inputs[format]
      /\ layer \in 1 .. Layers /\ Layers \in Nat
  BY <1>1, TheAdaptor DEF PInv
<1>3. InPlace(Adaptor.windows[layer], windows[layer], First + node)
  <2>1. InPlace(Adaptor.windows[layer], windows[layer], Place(layer))
    BY <1>1, <1>2, WindowsInPlace DEF PInv
  <2>2. Place(layer) = First + node
    BY <1>1, <1>2 DEF Place
  <2>3. QED
    BY <2>1, <2>2
<1>4. Offer(node, layer) = EdgesOf(Adaptor.windows[layer], windows[layer])
  <2>1. layer # 0
    BY <1>1
  <2>2. QED
    BY <1>3, <2>1, PlaceIsAll DEF Offer
<1>5. \A e \in Offer(node, layer) : Sound(e)
  BY <1>1, <1>2, <1>3, <1>4, EdgesAreSound
<1>6. \A q \in 0 .. numNodes - 1, i \in 0 .. Layers : Passed(q, i)' => Passed(q, i) \/ (q = node /\ i = layer)
  BY <1>1, <1>2 DEF Passed
<1>7. Relaxing(Offer(node, layer))
  BY <1>1, <1>4
<1>8. node' \in {node, node + 1}
  BY <1>1
<1>9. QED
  BY <1>1, <1>5, <1>6, <1>7, <1>8, RelaxingSettles

(* Behind the pass nothing is relaxed any more.                            *)
LEMMA OffersKept ==
  ASSUME OfferInv, UNCHANGED <<format, data, node, layer, costs, desccosts>>
  PROVE  OfferInv'
<1>1. Adaptor' = Adaptor /\ First' = First /\ nlen' = nlen /\ numNodes' = numNodes /\ Layers' = Layers
  BY DEF Adaptor, First, nlen, numNodes, Layers
<1>2. Edges' = Edges
  BY <1>1 DEF Edges, EdgeTypes
<1>3. \A e, q : Settled(e, q)' = Settled(e, q)
  BY <1>1, <1>2 DEF Settled, Reached, Weight, DescBits, Ending, Dest, FieldRest, Padding
<1>4. \A q, i : Passed(q, i)' = Passed(q, i) /\ Offer(q, i)' = Offer(q, i)
  BY OffersStay DEF Passed
<1>5. QED
  BY <1>1, <1>3, <1>4 DEF OfferInv

(* So every step settles what it passes.                                   *)
LEMMA StepOffers ==
  ASSUME WInv, OfferInv, [Next]_vars
  PROVE  OfferInv'
<1>1. CASE WalkBack
  BY <1>1, OffersKept DEF WalkBack
<1>2. CASE UNCHANGED vars
  BY <1>2, OffersKept DEF vars
<1>3. QED
  BY <1>1, <1>2, SymbolwiseOffers, SearchWindowOffers DEF Next

(* Behind the pass no edge that was offered would make its end cheaper:    *)
(* what the loop over the nodes relaxes once needs no second pass, though  *)
(* the costs of nodes before and after are changed all the while.          *)
THEOREM OffersAreSettled == Spec => []OfferInv
<1>1. Init => WInv /\ OfferInv
  BY InitWalks, InitOffers
<1>2. WInv /\ OfferInv /\ [Next]_vars => WInv' /\ OfferInv'
  BY StepWalks, StepOffers
<1>3. QED
  BY <1>1, <1>2, PTL DEF Spec

-----------------------------------------------------------------------------
(* What agrees for n symbols is found to agree for no fewer.               *)
LEMMA AgreementIsAll ==
  ASSUME NEW s, s.basenode \in Nat, s.ubound \in Nat, s.basenode <= s.ubound, NEW i,
         NEW n \in 0 .. s.ubound - s.basenode, \A k \in 0 .. n - 1 : Symbol(i + k) = Symbol(s.basenode + k)
  PROVE  n <= Agreement(s, i)
<1> DEFINE end == s.ubound - s.basenode
           S == {m \in 0 .. end : m = end \/ Symbol(i + m) # Symbol(s.basenode + m)}
<1>1. end \in Nat /\ end \in S /\ S \in SUBSET Nat
  OBVIOUS
<1>2. Agreement(s, i) = Min(S)
  BY DEF Agreement
<1>3. Min(S) \in S
  BY <1>1, MinOfNat
<1>4. \A m \in S : n <= m
  OBVIOUS
<1>5. QED
  BY <1>2, <1>3, <1>4

(* A run of zeros is found to be no shorter than it is.                    *)
LEMMA ZeroRunIsAll ==
  ASSUME NEW s, s.basenode \in Nat, s.ubound \in Nat, s.basenode <= s.ubound,
         NEW n \in 0 .. s.ubound - s.basenode, \A k \in 0 .. n - 1 : Symbol(s.basenode + k) = 0
  PROVE  n <= ZeroRun(s)
<1> DEFINE end == s.ubound - s.basenode
           S == {m \in 0 .. end : m = end \/ Symbol(s.basenode + m) # 0}
<1>1. end \in Nat /\ end \in S /\ S \in SUBSET Nat
  OBVIOUS
<1>2. ZeroRun(s) = Min(S)
  BY DEF ZeroRun
<1>3. Min(S) \in S
  BY <1>1, MinOfNat
<1>4. \A m \in S : n <= m
  OBVIOUS
<1>5. QED
  BY <1>2, <1>3, <1>4

(* Whatever matches in the search buffer, a match as long is found.        *)
LEMMA MatchesAreAll ==
  ASSUME NEW w, w.min \in Nat,
         NEW s, s.basenode \in Nat, s.ubound \in Nat, s.lbound \in Nat,
         s.lbound <= s.basenode, s.basenode <= s.ubound,
         NEW j \in s.lbound .. s.basenode - 1, NEW n \in w.min .. s.ubound - s.basenode,
         \A k \in 0 .. n - 1 : Symbol(j + k) = Symbol(s.basenode + k)
  PROVE  \E d : Edge(s.basenode, d, n, w.type) \in Matches(w, s)
<1> DEFINE P == s.lbound .. s.basenode - 1
           end == s.ubound - s.basenode
           A == {Agreement(s, i) : i \in P}
           best == Max(A)
           from == Max({i \in P : Agreement(s, i) = best})
<1>1. P \in SUBSET Nat /\ end \in Nat /\ j \in P /\ s.basenode # s.lbound
  OBVIOUS
<1>2. \A i \in P : Agreement(s, i) \in 0 .. end
  BY AgreementIsOne
<1>3. A \in SUBSET Nat /\ A # {} /\ \A a \in A : a <= end
  BY <1>1, <1>2
<1>4. best \in Nat /\ \A a \in A : a <= best
  BY <1>1, <1>3, MaxOfNat
<1>5. n <= Agreement(s, j)
  <2>1. n \in 0 .. s.ubound - s.basenode
    OBVIOUS
  <2>2. QED
    BY <2>1, AgreementIsAll
<1>6. n <= best
  <2>1. Agreement(s, j) \in A /\ Agreement(s, j) \in Nat
    BY <1>1, <1>2
  <2>2. QED
    BY <1>4, <1>5, <2>1
<1>7. Matches(w, s) = {Edge(s.basenode, s.basenode - from, m, w.type) : m \in w.min .. best}
  BY <1>1 DEF Matches
<1> HIDE DEF best, from
<1>8. n \in w.min .. best
  BY <1>4, <1>6
<1>9. QED
  BY <1>7, <1>8

(* What Considered asks of a table: no window finds literals or zeros, and *)
(* zero fills have a price where there are any.                            *)
Plain(A) ==
  /\ \A i \in DOMAIN A.windows : A.windows[i].type \notin {"symbolwise", "zerofill"}
  /\ A.extra = "zerofill" => "zerofill" \in DOMAIN A.codes.desc

(* Every edge of AllEdges is within the file.                              *)
LEMMA AllEdgesFit ==
  ASSUME format \in DOMAIN Adaptors, data \in Inputs[format],
         NEW q \in 0 .. numNodes - 1, NEW e \in AllEdges(First + q)
  PROVE  /\ e.pos = First + q /\ e.len \in 1 .. nlen - (First + q) /\ Genuine(e)
<1> DEFINE p == First + q
           M(i) == {Edge(p, d, n, Adaptor.windows[i].type) :
                      d \in 1 .. Least(p, Adaptor.windows[i].buf),
                      n \in 1 .. Least(nlen - p, Adaptor.windows[i].max)}
           U == UNION {M(i) : i \in 1 .. Layers}
           Z == {Edge(p, Infinity, n, t) :
                      n \in 1 .. nlen - p, t \in DOMAIN Adaptor.codes.desc \cap {"zerofill", "packed_symbolwise"}}
<1>1. PICK b \in Nat, z \in Nat : b = p /\ z = nlen /\ b < z
  <2>1. First \in Nat /\ nlen \in Nat /\ numNodes = nlen - First
    BY TheAdaptor DEF numNodes
  <2>2. p \in Nat /\ p < nlen
    BY <2>1
  <2>3. QED
    BY <2>1, <2>2
<1>2. CASE e = Edge(p, 0, 1, "symbolwise")
  <2>1. Genuine(e)
    BY <1>2 DEF Genuine, Edge
  <2>2. e.pos = p /\ e.len = 1 /\ 1 \in 1 .. z - b
    BY <1>1, <1>2 DEF Edge
  <2>3. QED
    BY <1>1, <2>1, <2>2
<1>3. CASE e \in U /\ Genuine(e)
  <2>1. PICK i \in 1 .. Layers : e \in M(i)
    BY <1>3
  <2>2. PICK d \in 1 .. Least(p, Adaptor.windows[i].buf), n \in 1 .. Least(nlen - p, Adaptor.windows[i].max) :
          e = Edge(p, d, n, Adaptor.windows[i].type)
    BY <2>1
  <2>3. Adaptor.windows[i].max \in Nat
    BY TheAdaptor
  <2>4. n \in 1 .. z - b
    BY <1>1, <2>2, <2>3 DEF Least
  <2>5. e.pos = p /\ e.len = n
    BY <2>2 DEF Edge
  <2>6. QED
    BY <1>1, <1>3, <2>4, <2>5
<1>4. CASE e \in Z /\ Genuine(e)
  <2>1. PICK n \in 1 .. nlen - p, t \in DOMAIN Adaptor.codes.desc : e = Edge(p, Infinity, n, t)
    BY <1>4
  <2>2. e.pos = p /\ e.len = n
    BY <2>1 DEF Edge
  <2>3. QED
    BY <1>4, <2>1, <2>2
<1>5. QED
  <2>1. AllEdges(p) = {Edge(p, 0, 1, "symbolwise")} \cup {f \in U \cup Z : Genuine(f)}
    BY DEF AllEdges
  <2> HIDE DEF p, U, Z
  <2>2. QED
    <3>1. e \in AllEdges(p)
      BY DEF p
    <3>2. QED
      BY <1>2, <1>3, <1>4, <2>1, <3>1

(* A zero fill the format can express is one of them.                      *)
LEMMA FillIsEdge ==
  ASSUME NEW p, NEW n \in 1 .. nlen - p, NEW t \in DOMAIN Adaptor.codes.desc \cap {"zerofill", "packed_symbolwise"},
         Genuine(Edge(p, Infinity, n, t))
  PROVE  Edge(p, Infinity, n, t) \in AllEdges(p)
<1> DEFINE U == UNION {{Edge(p, d, m, Adaptor.windows[i].type) :
                          d \in 1 .. Least(p, Adaptor.windows[i].buf),
                          m \in 1 .. Least(nlen - p, Adaptor.windows[i].max)} : i \in 1 .. Layers}
           Z == {Edge(p, Infinity, m, u) :
                   m \in 1 .. nlen - p, u \in DOMAIN Adaptor.codes.desc \cap {"zerofill", "packed_symbolwise"}}
           e == Edge(p, Infinity, n, t)
<1>1. AllEdges(p) = {Edge(p, 0, 1, "symbolwise")} \cup {f \in U \cup Z : Genuine(f)}
  BY DEF AllEdges
<1>2. e \in Z /\ Genuine(e)
  OBVIOUS
<1> HIDE DEF U, Z, e
<1>3. e \in AllEdges(p)
  BY <1>1, <1>2
<1>4. QED
  BY <1>3 DEF e

(* Where zeros can be filled the window does so, and where it does the     *)
(* reference knows of it.                                                  *)
LEMMA FillsAreKnown ==
  ASSUME format \in DOMAIN Adaptors, data \in Inputs[format], Plain(Adaptor),
         NEW q \in 0 .. numNodes - 1, NEW i \in 1 .. Layers, Adaptor.extra = "zerofill",
         ZeroFills(Stand(Adaptor.windows[i], First + q)) # {}
  PROVE  \E e \in AllEdges(First + q) : e.type = "zerofill"
<1> DEFINE w == Adaptor.windows[i]
           p == First + q
           s == Stand(w, p)
<1>1. /\ AdaptorOK(Adaptor) /\ i = 1 /\ w.max \in Nat
      /\ First \in Nat /\ nlen \in Nat /\ numNodes = nlen - First /\ Layers = 1
  <2>1. Layers \in Nat /\ Layers = 1
    BY TheAdaptor DEF AdaptorOK, Layers
  <2>2. QED
    BY <2>1, TheAdaptor DEF numNodes
<1>2. PICK b \in Nat, z \in Nat, m \in Nat : b = p /\ z = nlen /\ m = w.max /\ b < z
  <2>1. p \in Nat /\ p < nlen
    BY <1>1
  <2>2. QED
    BY <1>1, <2>1
<1>3. s.basenode = b /\ s.ubound \in Nat /\ b <= s.ubound /\ s.ubound - b <= m /\ s.ubound - b <= z - b
  BY <1>2 DEF Stand, Least
<1> HIDE DEF s
<1>4. PICK n \in 3 .. ZeroRun(s) : ~(s.basenode >= Adaptor.SearchBufSize - 1)
  BY DEF ZeroFills, s
<1>5. ZeroRun(s) \in 0 .. s.ubound - b /\ \A k \in 0 .. ZeroRun(s) - 1 : Symbol(b + k) = 0
  BY <1>2, <1>3, ZeroRunIsOne
<1>6. 3 \in 1 .. z - b /\ 3 \in 3 .. m /\ 3 \in 0 .. ZeroRun(s) /\ \A k \in 0 .. 2 : Symbol(b + k) = 0
  BY <1>3, <1>4, <1>5
<1> DEFINE g == Edge(p, Infinity, 3, "zerofill")
<1>7. g.pos = b /\ g.len = 3 /\ g.type = "zerofill"
  BY <1>2 DEF Edge
<1>8. b < Adaptor.SearchBufSize - 1
  <2>1. Adaptor.SearchBufSize \in Nat
    BY <1>1 DEF AdaptorOK
  <2>2. QED
    BY <1>3, <1>4, <2>1
<1>9. Genuine(g)
  <2>1. g.len \in 3 .. Adaptor.windows[1].max
    BY <1>1, <1>2, <1>6, <1>7
  <2>2. \A k \in 0 .. g.len - 1 : Symbol(g.pos + k) = 0
    BY <1>6, <1>7
  <2>3. QED
    BY <1>7, <1>8, <2>1, <2>2 DEF Genuine
<1>10. g \in AllEdges(p)
  <2>1. "zerofill" \in DOMAIN Adaptor.codes.desc \cap {"zerofill", "packed_symbolwise"}
    BY DEF Plain
  <2>2. 3 \in 1 .. nlen - p
    BY <1>2, <1>6
  <2>3. QED
    BY <1>9, <2>1, <2>2, FillIsEdge
<1>11. QED
  BY <1>7, <1>10

(* Every edge the parser is to consider is offered, though its distance    *)
(* may be another.                                                         *)
Like(e, f) == e.pos = f.pos /\ e.len = f.len /\ e.type = f.type

LEMMA ConsideredIsOffered ==
  ASSUME format \in DOMAIN Adaptors, data \in Inputs[format], Plain(Adaptor),
         NEW q \in 0 .. numNodes - 1, NEW e \in Considered(First + q)
  PROVE  \E i \in 0 .. Layers : \E f \in Offer(q, i) : Like(e, f)
<1> DEFINE p == First + q
           W(i) == Adaptor.windows[i]
           edges == {f \in AllEdges(p) : f.type # "packed_symbolwise"}
<1>1. /\ AdaptorOK(Adaptor) /\ First \in Nat /\ nlen \in Nat /\ numNodes = nlen - First /\ Layers \in Nat \ {0}
      /\ DOMAIN Adaptor.windows = 1 .. Layers
  <2>1. PICK T : Adaptor.windows \in Seq(T)
    BY TheAdaptor DEF AdaptorOK
  <2>2. QED
    BY <2>1, TheAdaptor DEF Layers, numNodes
<1>2. PICK b \in Nat, z \in Nat : b = p /\ z = nlen /\ b < z
  <2>1. p \in Nat /\ p < nlen
    BY <1>1
  <2>2. QED
    BY <1>1, <2>1
<1>3. e \in edges /\ ((\E f \in edges : f.type = "zerofill") => e.type \in {"symbolwise", "zerofill"})
  BY DEF Considered
<1>4. e.pos = b /\ e.len \in 1 .. z - b /\ Genuine(e) /\ e.type # "packed_symbolwise"
  BY <1>2, <1>3, AllEdgesFit
<1>5. ASSUME NEW i \in 1 .. Layers
      PROVE  /\ W(i).buf \in Nat /\ W(i).max \in Nat /\ W(i).min \in Nat \ {0}
             /\ W(i).type \notin {"symbolwise", "zerofill"}
             /\ Offer(q, i) = EdgesOf(W(i), Stand(W(i), p))
             /\ Stand(W(i), p).basenode = b
             /\ Stand(W(i), p).lbound = IF b > W(i).buf THEN b - W(i).buf ELSE 0
             /\ Stand(W(i), p).ubound = Least(b + W(i).max, z)
  <2>1. i # 0
    OBVIOUS
  <2>2. QED
    BY <1>1, <1>2, <2>1, TheAdaptor DEF Offer, Stand, Plain
<1> HIDE DEF edges, p
<1>6. CASE e.type = "symbolwise"
  <2>1. e.len = 1
    <3>1. ~(\E i \in 1 .. Layers : e.type = W(i).type)
      BY <1>5, <1>6
    <3>2. QED
      BY <1>4, <1>6, <3>1 DEF Genuine
  <2>2. Offer(q, 0) = {Edge(q + First, 0, 1, "symbolwise")}
    BY DEF Offer
  <2>3. Like(e, Edge(q + First, 0, 1, "symbolwise"))
    <3>1. b = q + First
      BY <1>1, <1>2 DEF p
    <3>2. QED
      BY <1>4, <1>6, <2>1, <3>1 DEF Like, Edge
  <2>4. 0 \in 0 .. Layers
    BY <1>1
  <2>5. QED
    BY <2>2, <2>3, <2>4
<1>7. ASSUME NEW i \in 1 .. Layers, e.type = W(i).type, e.len \in W(i).min .. W(i).max,
             e.dist \in 1 .. Least(W(i).buf, e.pos),
             \A k \in 0 .. e.len - 1 : Symbol(e.pos + k) = Symbol(e.pos + k - e.dist)
      PROVE  \E f \in Offer(q, i) : Like(e, f)
  <2>1. PICK w : w = W(i)
    OBVIOUS
  <2>2. PICK s : s = Stand(w, p)
    OBVIOUS
  <2>3. PICK m \in Nat, u \in Nat, d \in Nat, n \in Nat :
          /\ m = w.max /\ u = w.buf /\ d = e.dist /\ n = e.len
          /\ n \in w.min .. m /\ d >= 1 /\ d <= u /\ d <= b /\ n <= z - b
    <3>1. e.dist \in Nat /\ e.dist >= 1 /\ e.dist <= w.buf /\ e.dist <= b
      BY <1>4, <1>5, <1>7, <2>1 DEF Least
    <3>2. e.len \in Nat /\ e.len <= z - b
      BY <1>4
    <3>3. QED
      BY <1>5, <1>7, <2>1, <3>1, <3>2
  <2>4. /\ s.basenode = b /\ s.lbound \in Nat /\ s.ubound \in Nat /\ s.lbound <= b /\ b <= s.ubound
        /\ b - d \in s.lbound .. s.basenode - 1 /\ n \in w.min .. s.ubound - s.basenode /\ w.min \in Nat
    <3>1. /\ s.basenode = b /\ s.lbound = (IF b > u THEN b - u ELSE 0)
          /\ s.ubound = Least(b + m, z) /\ w.min \in Nat
      BY <1>5, <2>1, <2>2, <2>3
    <3>2. s.lbound \in Nat /\ s.lbound <= b /\ b - d \in s.lbound .. s.basenode - 1
      BY <2>3, <3>1
    <3>3. s.ubound \in Nat /\ b <= s.ubound /\ n <= s.ubound - b
      BY <1>2, <2>3, <3>1 DEF Least
    <3>4. QED
      BY <2>3, <3>1, <3>2, <3>3
  <2>5. \A k \in 0 .. n - 1 : Symbol((b - d) + k) = Symbol(s.basenode + k)
    <3>1. SUFFICES ASSUME NEW k \in 0 .. n - 1 PROVE Symbol((b - d) + k) = Symbol(b + k)
      BY <2>4
    <3>2. (b - d) + k = b + k - d
      BY <2>3
    <3>3. QED
      BY <1>4, <1>7, <2>3, <3>2
  <2>6. PICK r : Edge(b, r, n, w.type) \in Matches(w, s)
    <3>1. PICK j \in s.lbound .. s.basenode - 1 : j = b - d
      BY <2>4
    <3>2. \E r_1 : Edge(s.basenode, r_1, n, w.type) \in Matches(w, s)
      BY <2>4, <2>5, <3>1, MatchesAreAll
    <3>3. QED
      BY <2>4, <3>2
  <2>7. ~(Adaptor.extra = "zerofill" /\ ZeroFills(s) # {})
    <3>1. SUFFICES ASSUME Adaptor.extra = "zerofill", ZeroFills(s) # {} PROVE FALSE
      OBVIOUS
    <3>2. PICK f \in AllEdges(p) : f.type = "zerofill"
      BY <2>1, <2>2, <3>1, FillsAreKnown DEF p
    <3>3. f \in edges
      BY <3>2 DEF edges
    <3>4. QED
      BY <1>3, <1>5, <1>7, <3>2, <3>3
  <2>8. Edge(b, r, n, w.type) \in Offer(q, i)
    BY <1>5, <2>1, <2>2, <2>6, <2>7 DEF EdgesOf
  <2>9. Like(e, Edge(b, r, n, w.type))
    BY <1>4, <1>7, <2>1, <2>3 DEF Like, Edge
  <2>10. QED
    BY <2>8, <2>9
<1>8. ASSUME e.type = "zerofill", Adaptor.extra = "zerofill",
             e.len \in 3 .. Adaptor.windows[1].max, e.pos < Adaptor.SearchBufSize - 1,
             \A k \in 0 .. e.len - 1 : Symbol(e.pos + k) = 0
      PROVE  \E f \in Offer(q, 1) : Like(e, f)
  <2>1. 1 \in 1 .. Layers
    BY <1>1
  <2>2. PICK w, s : w = W(1) /\ s = Stand(w, p)
    OBVIOUS
  <2>3. PICK m \in Nat, n \in Nat : m = w.max /\ n = e.len /\ n \in 3 .. m /\ n <= z - b
    BY <1>4, <1>5, <1>8, <2>1, <2>2
  <2>4. s.basenode = b /\ s.ubound \in Nat /\ b <= s.ubound /\ n \in 0 .. s.ubound - s.basenode
    <3>1. s.basenode = b /\ s.ubound = Least(b + m, z)
      BY <1>5, <2>1, <2>2, <2>3
    <3>2. QED
      BY <1>2, <2>3, <3>1 DEF Least
  <2>5. \A k \in 0 .. n - 1 : Symbol(s.basenode + k) = 0
    BY <1>4, <1>8, <2>3, <2>4
  <2>6. n <= ZeroRun(s) /\ ZeroRun(s) \in Nat
    <3>1. n <= ZeroRun(s)
      BY <2>4, <2>5, ZeroRunIsAll
    <3>2. ZeroRun(s) \in 0 .. s.ubound - s.basenode
      BY <2>4, ZeroRunIsOne
    <3>3. QED
      BY <2>4, <3>1, <3>2
  <2>7. ~(s.basenode >= Adaptor.SearchBufSize - 1)
    <3>1. Adaptor.SearchBufSize \in Nat
      BY <1>1 DEF AdaptorOK
    <3>2. QED
      BY <1>4, <1>8, <2>4, <3>1
  <2>8. n \in 3 .. ZeroRun(s)
    BY <2>3, <2>6
  <2>9. Edge(b, Infinity, n, "zerofill") \in ZeroFills(s)
    BY <2>4, <2>7, <2>8 DEF ZeroFills
  <2>10. Edge(b, Infinity, n, "zerofill") \in Offer(q, 1)
    BY <1>5, <1>8, <2>1, <2>2, <2>9 DEF EdgesOf
  <2>11. Like(e, Edge(b, Infinity, n, "zerofill"))
    BY <1>4, <1>8, <2>3 DEF Like, Edge
  <2>12. QED
    BY <2>10, <2>11
<1>9. QED
  <2>1. 1 \in 0 .. Layers /\ \A i \in 1 .. Layers : i \in 0 .. Layers
    BY <1>1
  <2>2. QED
    BY <1>4, <1>6, <1>7, <1>8, <2>1 DEF Genuine

(* The pass being over, none of the edges it was to consider improves      *)
(* anything.                                                               *)
LEMMA NoEdgeImproves ==
  ASSUME WInv, OfferInv, node = numNodes, Plain(Adaptor),
         NEW q \in 0 .. numNodes - 1, NEW e \in Considered(First + q)
  PROVE  \E f \in Edges :
            /\ Settled(f, q) /\ f.pos = First + q
            /\ Dest(e) = Dest(f) /\ Weight(e) = Weight(f) /\ DescBits(e) = DescBits(f)
<1>1. format \in DOMAIN Adaptors /\ data \in Inputs[format] /\ numNodes \in Nat
  BY TheAdaptor DEF WInv, PInv
<1>2. PICK i \in 0 .. Layers : \E f \in Offer(q, i) : Like(e, f)
  BY <1>1, ConsideredIsOffered
<1>3. PICK f \in Offer(q, i) : Like(e, f)
  BY <1>2
<1>4. Passed(q, i)
  BY <1>1 DEF Passed
<1>5. Settled(f, q)
  BY <1>4 DEF OfferInv
<1>6. e.pos = First + q
  <2>1. e \in AllEdges(First + q)
    BY DEF Considered
  <2>2. QED
    BY <1>1, <2>1, AllEdgesFit
<1>7. QED
  BY <1>3, <1>5, <1>6 DEF Like, Settled, Dest, Weight, DescBits
=============================================================================
