-------------------------------- MODULE FcProofs --------------------------------
(***************************************************************************)
(* Proofs about Fc for every set of inputs and for nodes nested as deeply  *)
(* as one likes: induction and recursion over nodes; the parser makes      *)
(* trees; what a program means is well defined; the shell does what the    *)
(* program means; a program without tuples and fn reads no memory that is  *)
(* gone; the parser reads the forests of the grammar.                      *)
(***************************************************************************)
EXTENDS Fc, FiniteSetTheorems, SequenceTheorems, WellFoundedInduction, TLAPS

-----------------------------------------------------------------------------
(* Nodes: what each kind is made of.                                       *)

\* The tags of nodes without other nodes in them.
Leaves == {"Char", "Num", "Str", "Sym"}

\* The fields of each kind of node (fc/ast.h:75-126).
LEMMA NodeIs ==
  ASSUME NEW S, NEW As, NEW Bs, NEW e \in NodesOver(S, As, Bs)
  PROVE  /\ e.tag \in Leaves \cup {"Tuple", "Apply", "Quote"}
         /\ e.tag \in Leaves => \A R : e \in NodesOver(R, As, Bs)
         /\ e.tag = "Sym" => e.name \in Names /\ e.builtin \in Bs
                               /\ e = [tag |-> "Sym", name |-> e.name, builtin |-> e.builtin]
         /\ e.tag = "Tuple" => e.xs \in Seq(S) /\ e.arena \in As /\ e = TupleIn(e.arena, e.xs)
         /\ e.tag = "Apply" => e.lambda \in S /\ e.args \in Seq(S) /\ e = ApplyNode(e.lambda, e.args)
         /\ e.tag = "Quote" => e.expr \in S /\ e = QuoteNode(e.expr)
<1>1. CASE e \in [tag : {"Char"}, x : Characters]
  BY <1>1 DEF NodesOver, Leaves
<1>2. CASE e \in [tag : {"Num"}, x : Seq(Characters)]
  BY <1>2 DEF NodesOver, Leaves
<1>3. CASE e \in [tag : {"Str"}, xs : Seq(Characters)]
  BY <1>3 DEF NodesOver, Leaves
<1>4. CASE e \in [tag : {"Sym"}, name : Names, builtin : Bs]
  BY <1>4 DEF NodesOver, Leaves
<1>5. CASE e \in [tag : {"Tuple"}, xs : Seq(S), arena : As]
  BY <1>5 DEF Leaves, TupleIn
<1>6. CASE e \in [tag : {"Apply"}, lambda : S, args : Seq(S)]
  BY <1>6 DEF Leaves, ApplyNode
<1>7. CASE e \in [tag : {"Quote"}, expr : S]
  BY <1>7 DEF Leaves, QuoteNode
<1>8. QED
  BY <1>1, <1>2, <1>3, <1>4, <1>5, <1>6, <1>7 DEF NodesOver

\* Nodes built of nodes.
LEMMA Built ==
  ASSUME NEW S, NEW As, NEW Bs
  PROVE  /\ \A c \in Characters : CharLeaf(c) \in NodesOver(S, As, Bs)
         /\ \A x \in Seq(Characters) : NumLeaf(x) \in NodesOver(S, As, Bs) /\ StrNode(x) \in NodesOver(S, As, Bs)
         /\ \A n \in Names, b \in Bs : [tag |-> "Sym", name |-> n, builtin |-> b] \in NodesOver(S, As, Bs)
         /\ \A xs \in Seq(S), a \in As : TupleIn(a, xs) \in NodesOver(S, As, Bs)
         /\ \A l \in S, xs \in Seq(S) : ApplyNode(l, xs) \in NodesOver(S, As, Bs)
         /\ \A x \in S : QuoteNode(x) \in NodesOver(S, As, Bs)
<1>1. \A c \in Characters : CharLeaf(c) \in NodesOver(S, As, Bs)
  BY DEF CharLeaf, NodesOver
<1>2. \A x \in Seq(Characters) : NumLeaf(x) \in NodesOver(S, As, Bs) /\ StrNode(x) \in NodesOver(S, As, Bs)
  BY DEF NumLeaf, StrNode, NodesOver
<1>3. \A n \in Names, b \in Bs : [tag |-> "Sym", name |-> n, builtin |-> b] \in NodesOver(S, As, Bs)
  BY DEF NodesOver
<1>4. \A xs \in Seq(S), a \in As : TupleIn(a, xs) \in NodesOver(S, As, Bs)
  BY DEF TupleIn, NodesOver
<1>5. \A l \in S, xs \in Seq(S) : ApplyNode(l, xs) \in NodesOver(S, As, Bs)
  BY DEF ApplyNode, NodesOver
<1>6. \A x \in S : QuoteNode(x) \in NodesOver(S, As, Bs)
  BY DEF QuoteNode, NodesOver
<1>7. QED
  BY <1>1, <1>2, <1>3, <1>4, <1>5, <1>6

\* More nodes below, more nodes one level above.
LEMMA NodesMonotonic ==
  ASSUME NEW S, NEW R, NEW As, NEW Bs, NEW Cs, NEW Ds, S \subseteq R, As \subseteq Cs, Bs \subseteq Ds
  PROVE  NodesOver(S, As, Bs) \subseteq NodesOver(R, Cs, Ds)
<1>1. Seq(S) \subseteq Seq(R)
  BY SeqMonotonic
<1>2. QED
  BY <1>1 DEF NodesOver

\* A function of the first n numbers is a sequence.
LEMMA FunctionIsSeq ==
  ASSUME NEW S, NEW n \in Nat, NEW s \in [1..n -> S]
  PROVE  s \in Seq(S) /\ Len(s) = n
BY SeqDef, LenProperties

\* A sequence is a function of the first numbers.
LEMMA SeqIsFunction ==
  ASSUME NEW S, NEW s \in Seq(S)
  PROVE  Len(s) \in Nat /\ DOMAIN s = 1..Len(s) /\ \A k \in 1..Len(s) : s[k] \in S
BY LenProperties

\* The parts of a node that are evaluated are one level below.
LEMMA PartsBelow ==
  ASSUME NEW S, NEW As, NEW Bs, NEW e \in NodesOver(S, As, Bs)
  PROVE  Parts(e) \in Seq(S)
<1>1. CASE e.tag = "Tuple"
  BY <1>1, NodeIs DEF Parts
<1>2. CASE e.tag = "Apply"
  <2>1. Parts(e) = Append(e.args, e.lambda)
    BY <1>2 DEF Parts
  <2>2. QED
    BY <1>2, <2>1, NodeIs, AppendProperties
<1>3. CASE e.tag \in Leaves \cup {"Quote"}
  <2>1. Parts(e) = <<>>
    BY <1>3 DEF Parts, Leaves
  <2>2. QED
    BY <2>1
<1>4. QED
  BY <1>1, <1>2, <1>3, NodeIs

-----------------------------------------------------------------------------
(* The levels of nodes.                                                    *)

\* Induction over numbers, for a set.
LEMMA AllNumbers ==
  ASSUME NEW T, 0 \in T, \A m \in Nat : m \in T => m + 1 \in T
  PROVE  \A m \in Nat : m \in T
<1> DEFINE R == OpToRel(<, Nat)
           Bad == {m \in Nat : m \notin T}
<1>1. IsWellFoundedOn(R, Nat)
  BY NatLessThanWellFounded
<1>2. \A x, y \in Nat : <<x, y>> \in R <=> x < y
  BY DEF OpToRel
<1> HIDE DEF R
<1> SUFFICES ASSUME Bad # {} PROVE FALSE
  OBVIOUS
<1>3. PICK m \in Bad : \A b \in Bad : ~ (<<b, m>> \in R)
  <2>1. Bad \in SUBSET Nat
    OBVIOUS
  <2> HIDE DEF Bad
  <2>2. QED
    BY <1>1, <2>1, WFMin
<1>4. m \in Nat \ {0} /\ m \notin T
  OBVIOUS
<1>5. m - 1 \in Nat /\ m - 1 < m /\ (m - 1) + 1 = m
  BY <1>4
<1>6. m - 1 \in T
  BY <1>2, <1>3, <1>4, <1>5
<1>7. QED
  BY <1>4, <1>5, <1>6

\* What a level is made of: the nodes one level above those below.
OneLevel(As, Bs, n, below) == IF n = 0 THEN {} ELSE NodesOver(below, As, Bs)
LevelBelow(f, n) == IF n = 0 THEN {} ELSE f[n - 1]
\* The levels up to a number.
Prefix(As, Bs, m, f) == f = [n \in 0..m |-> OneLevel(As, Bs, n, LevelBelow(f, n))]

\* There is such a function up to every number.
LEMMA PrefixesExist ==
  ASSUME NEW As, NEW Bs
  PROVE  \A m \in Nat : \E f : Prefix(As, Bs, m, f)
<1> DEFINE T == {m \in Nat : \E f : Prefix(As, Bs, m, f)}
<1>1. 0 \in T
  <2> DEFINE f == [n \in 0..0 |-> OneLevel(As, Bs, n, {})]
  <2>1. \A n \in 0..0 : LevelBelow(f, n) = {}
    BY DEF LevelBelow
  <2>2. f = [n \in 0..0 |-> OneLevel(As, Bs, n, LevelBelow(f, n))]
    BY <2>1
  <2>3. Prefix(As, Bs, 0, f)
    BY <2>2 DEF Prefix
  <2>4. QED
    BY <2>3
<1>2. ASSUME NEW m \in Nat, m \in T PROVE m + 1 \in T
  <2>1. PICK f : Prefix(As, Bs, m, f)
    BY <1>2
  <2>2. f = [n \in 0..m |-> OneLevel(As, Bs, n, LevelBelow(f, n))]
    BY <2>1 DEF Prefix
  <2> DEFINE g == [n \in 0..(m + 1) |-> IF n = m + 1 THEN OneLevel(As, Bs, n, f[m]) ELSE f[n]]
  <2>3. ASSUME NEW n \in 0..(m + 1) PROVE g[n] = OneLevel(As, Bs, n, LevelBelow(g, n))
    <3>1. CASE n = m + 1
      <4>1. LevelBelow(g, n) = g[m] /\ g[m] = f[m]
        BY <3>1 DEF LevelBelow
      <4>2. QED
        BY <3>1, <4>1
    <3>2. CASE n # m + 1
      <4>1. n \in 0..m /\ (n # 0 => n - 1 \in 0..m /\ n - 1 # m + 1)
        BY <3>2
      <4>2. LevelBelow(g, n) = LevelBelow(f, n)
        BY <4>1 DEF LevelBelow
      <4>3. g[n] = f[n] /\ f[n] = OneLevel(As, Bs, n, LevelBelow(f, n))
        BY <2>2, <4>1, <3>2
      <4>4. QED
        BY <4>2, <4>3
    <3>3. QED
      BY <3>1, <3>2
  <2>4. g = [n \in 0..(m + 1) |-> OneLevel(As, Bs, n, LevelBelow(g, n))]
    BY <2>3
  <2> HIDE DEF g
  <2>5. Prefix(As, Bs, m + 1, g)
    BY <2>4 DEF Prefix
  <2>6. m + 1 \in Nat /\ \E h : Prefix(As, Bs, m + 1, h)
    BY <2>5
  <2>7. QED
    BY <2>6
<1> HIDE DEF T
<1>3. \A m \in Nat : m \in T
  BY <1>1, <1>2, AllNumbers
<1>4. QED
  BY <1>3 DEF T

\* Two such functions agree as far as both go.
LEMMA PrefixesAgree ==
  ASSUME NEW As, NEW Bs, NEW m \in Nat, NEW k \in Nat, NEW f, NEW g, Prefix(As, Bs, m, f), Prefix(As, Bs, k, g), m <= k
  PROVE  f[m] = g[m]
<1> DEFINE T == {n \in Nat : n <= m => f[n] = g[n]}
<1>0. /\ \A n \in 0..m : f[n] = OneLevel(As, Bs, n, LevelBelow(f, n))
      /\ \A n \in 0..k : g[n] = OneLevel(As, Bs, n, LevelBelow(g, n))
  <2>1. f = [n \in 0..m |-> OneLevel(As, Bs, n, LevelBelow(f, n))]
    BY DEF Prefix
  <2>2. g = [n \in 0..k |-> OneLevel(As, Bs, n, LevelBelow(g, n))]
    BY DEF Prefix
  <2>3. \A n \in 0..m : f[n] = OneLevel(As, Bs, n, LevelBelow(f, n))
    BY <2>1
  <2>4. QED
    BY <2>2, <2>3
<1>1. 0 \in T
  <2>1. LevelBelow(f, 0) = LevelBelow(g, 0)
    BY DEF LevelBelow
  <2>2. QED
    BY <1>0, <2>1
<1>2. ASSUME NEW n \in Nat, n \in T PROVE n + 1 \in T
  <2>1. SUFFICES ASSUME n + 1 <= m PROVE f[n + 1] = g[n + 1]
    OBVIOUS
  <2>2. f[n] = g[n] /\ n + 1 \in 0..m /\ n + 1 \in 0..k /\ n + 1 # 0 /\ (n + 1) - 1 = n
    BY <1>2, <2>1
  <2>3. LevelBelow(f, n + 1) = LevelBelow(g, n + 1)
    BY <2>2 DEF LevelBelow
  <2>4. QED
    BY <1>0, <2>2, <2>3
<1> HIDE DEF T
<1>3. m \in T
  BY <1>1, <1>2, AllNumbers
<1>4. QED
  BY <1>3 DEF T

\* There is such a function.
LEMMA NumberRecursion ==
  ASSUME NEW As, NEW Bs
  PROVE  \E f : f = [n \in Nat |-> OneLevel(As, Bs, n, LevelBelow(f, n))]
<1> DEFINE P(m) == CHOOSE f : Prefix(As, Bs, m, f)
           F == [n \in Nat |-> P(n)[n]]
<1>1. \A m \in Nat : Prefix(As, Bs, m, P(m))
  BY PrefixesExist
<1>2. ASSUME NEW n \in Nat PROVE F[n] = OneLevel(As, Bs, n, LevelBelow(F, n))
  <2>1. Prefix(As, Bs, n, P(n))
    BY <1>1
  <2> DEFINE p == P(n)
  <2>2. p = [k \in 0..n |-> OneLevel(As, Bs, k, LevelBelow(p, k))]
    BY <2>1 DEF Prefix
  <2>3. n \in 0..n
    OBVIOUS
  <2> HIDE DEF p
  <2>4. p[n] = OneLevel(As, Bs, n, LevelBelow(p, n))
    BY <2>2, <2>3
  <2>5. LevelBelow(p, n) = LevelBelow(F, n)
    <3>1. CASE n = 0
      BY <3>1 DEF LevelBelow
    <3>2. CASE n # 0
      <4>1. n - 1 \in Nat /\ n - 1 <= n
        BY <3>2
      <4>2. Prefix(As, Bs, n - 1, P(n - 1))
        BY <1>1, <4>1
      <4>3. Prefix(As, Bs, n, p)
        BY <2>1 DEF p
      <4> HIDE DEF P
      <4>4. P(n - 1)[n - 1] = p[n - 1]
        BY <4>1, <4>2, <4>3, PrefixesAgree
      <4>5. QED
        BY <3>2, <4>1, <4>4 DEF LevelBelow
    <3>3. QED
      BY <3>1, <3>2
  <2>6. F[n] = p[n]
    BY DEF p
  <2>7. QED
    BY <2>4, <2>5, <2>6
<1> HIDE DEF P
<1>3. F = [n \in Nat |-> OneLevel(As, Bs, n, LevelBelow(F, n))]
  BY <1>2
<1> HIDE DEF F
<1>4. QED
  BY <1>3

\* The levels of the nodes in some arenas.
Level(As, Bs) == CHOOSE f : f = [n \in Nat |-> IF n = 0 THEN {} ELSE NodesOver(f[n - 1], As, Bs)]

\* Each level is one above the one before.
LEMMA LevelsAre ==
  ASSUME NEW As, NEW Bs
  PROVE  /\ Level(As, Bs)[0] = {}
         /\ \A n \in Nat : Level(As, Bs)[n + 1] = NodesOver(Level(As, Bs)[n], As, Bs)
<1>1. PICK f : f = [n \in Nat |-> OneLevel(As, Bs, n, LevelBelow(f, n))]
  BY NumberRecursion
<1>2. \A n \in Nat : OneLevel(As, Bs, n, LevelBelow(f, n)) = IF n = 0 THEN {} ELSE NodesOver(f[n - 1], As, Bs)
  BY DEF OneLevel, LevelBelow
<1>3. f = [n \in Nat |-> IF n = 0 THEN {} ELSE NodesOver(f[n - 1], As, Bs)]
  BY <1>1, <1>2
<1> DEFINE Is(g) == g = [n \in Nat |-> IF n = 0 THEN {} ELSE NodesOver(g[n - 1], As, Bs)]
           L == Level(As, Bs)
<1>4. L = CHOOSE g : Is(g)
  BY DEF Level
<1>5. Is(L)
  BY <1>3, <1>4
<1> HIDE DEF L
<1>6. L[0] = {}
  BY <1>5
<1>7. ASSUME NEW n \in Nat PROVE L[n + 1] = NodesOver(L[n], As, Bs)
  <2>1. n + 1 \in Nat /\ n + 1 # 0 /\ (n + 1) - 1 = n
    OBVIOUS
  <2>2. L[n + 1] = IF n + 1 = 0 THEN {} ELSE NodesOver(L[(n + 1) - 1], As, Bs)
    BY <1>5, <2>1
  <2>3. QED
    BY <2>1, <2>2
<1>8. QED
  BY <1>6, <1>7 DEF L

\* The nodes are those of all levels.
LEMMA NodesAreLevels ==
  ASSUME NEW As, NEW Bs, Nestings = Nat
  PROVE  NodesIn(As, Bs) = UNION {Level(As, Bs)[n] : n \in Nat}
BY DEF NodesIn, Level

\* Each level of nodes includes those below.
LEMMA LevelsGrow ==
  ASSUME NEW As, NEW Bs, NEW m \in Nat, NEW n \in Nat, m <= n
  PROVE  Level(As, Bs)[m] \subseteq Level(As, Bs)[n]
<1> DEFINE T == {k \in Nat : Level(As, Bs)[k] \subseteq Level(As, Bs)[k + 1]}
<1>1. 0 \in T
  BY LevelsAre
<1>2. ASSUME NEW k \in Nat, k \in T PROVE k + 1 \in T
  <2>1. Level(As, Bs)[k + 1] = NodesOver(Level(As, Bs)[k], As, Bs) /\ Level(As, Bs)[(k + 1) + 1] = NodesOver(Level(As, Bs)[k + 1], As, Bs)
    BY LevelsAre
  <2>2. Level(As, Bs)[k] \subseteq Level(As, Bs)[k + 1]
    BY <1>2
  <2>3. QED
    BY <2>1, <2>2, NodesMonotonic
<1> HIDE DEF T
<1>3. \A k \in Nat : k \in T
  BY <1>1, <1>2, AllNumbers
<1> DEFINE U == {k \in Nat : Level(As, Bs)[m] \subseteq Level(As, Bs)[m + k]}
<1>4. 0 \in U
  OBVIOUS
<1>5. ASSUME NEW k \in Nat, k \in U PROVE k + 1 \in U
  <2>1. m + k \in Nat /\ m + (k + 1) = (m + k) + 1
    OBVIOUS
  <2>2. Level(As, Bs)[m + k] \subseteq Level(As, Bs)[(m + k) + 1]
    BY <1>3, <2>1 DEF T
  <2>3. QED
    BY <1>5, <2>1, <2>2
<1> HIDE DEF U
<1>6. n - m \in U
  <2>1. n - m \in Nat
    OBVIOUS
  <2>2. QED
    BY <2>1, <1>4, <1>5, AllNumbers
<1>7. m + (n - m) = n
  OBVIOUS
<1>8. QED
  BY <1>6, <1>7 DEF U

\* Every node is on a level, made of nodes of the level below.
LEMMA SomeLevel ==
  ASSUME Nestings = Nat, NEW As, NEW Bs, NEW t \in NodesIn(As, Bs)
  PROVE  \E n \in Nat : t \in Level(As, Bs)[n + 1] /\ Level(As, Bs)[n + 1] = NodesOver(Level(As, Bs)[n], As, Bs)
                        /\ Level(As, Bs)[n] \subseteq NodesIn(As, Bs)
<1>1. PICK m \in Nat : t \in Level(As, Bs)[m]
  BY NodesAreLevels
<1>2. m # 0
  BY <1>1, LevelsAre
<1>3. m - 1 \in Nat /\ (m - 1) + 1 = m
  BY <1>2
<1>4. Level(As, Bs)[m] = NodesOver(Level(As, Bs)[m - 1], As, Bs)
  BY <1>3, LevelsAre
<1>5. Level(As, Bs)[m - 1] \subseteq NodesIn(As, Bs)
  BY <1>3, NodesAreLevels
<1>6. QED
  BY <1>1, <1>3, <1>4, <1>5

\* Every node is made of nodes.
LEMMA NodeOverNodes ==
  ASSUME Nestings = Nat, NEW As, NEW Bs, NEW t \in NodesIn(As, Bs)
  PROVE  t \in NodesOver(NodesIn(As, Bs), As, Bs)
BY SomeLevel, NodesMonotonic

\* The parts of a node are nodes.
LEMMA PartsAreNodes ==
  ASSUME Nestings = Nat, NEW As, NEW Bs, NEW t \in NodesIn(As, Bs)
  PROVE  /\ Parts(t) \in Seq(NodesIn(As, Bs))
         /\ Len(Parts(t)) \in Nat
         /\ DOMAIN Parts(t) = 1..Len(Parts(t))
         /\ \A k \in DOMAIN Parts(t) : Parts(t)[k] \in NodesIn(As, Bs)
<1> DEFINE N == NodesIn(As, Bs)
<1>1. Parts(t) \in Seq(N)
  BY NodeOverNodes, PartsBelow
<1> HIDE DEF N
<1>2. Len(Parts(t)) \in Nat /\ DOMAIN Parts(t) = 1..Len(Parts(t)) /\ \A k \in DOMAIN Parts(t) : Parts(t)[k] \in N
  BY <1>1, SeqIsFunction
<1>3. QED
  BY <1>1, <1>2 DEF N

-----------------------------------------------------------------------------
(* Induction and recursion over nodes.                                     *)

\* Induction over nodes.
LEMMA NodeInduction ==
  ASSUME Nestings = Nat, NEW As, NEW Bs, NEW T,
         \A t \in NodesIn(As, Bs) : (\A k \in DOMAIN Parts(t) : Parts(t)[k] \in T) => t \in T
  PROVE  NodesIn(As, Bs) \subseteq T
<1> DEFINE U == {n \in Nat : Level(As, Bs)[n] \subseteq T}
<1>1. 0 \in U
  BY LevelsAre
<1>2. ASSUME NEW n \in Nat, n \in U PROVE n + 1 \in U
  <2>1. SUFFICES ASSUME NEW t \in Level(As, Bs)[n + 1] PROVE t \in T
    OBVIOUS
  <2>2. t \in NodesIn(As, Bs)
    BY <2>1, NodesAreLevels
  <2>3. t \in NodesOver(Level(As, Bs)[n], As, Bs)
    BY LevelsAre
  <2>4. Parts(t) \in Seq(Level(As, Bs)[n])
    BY <2>3, PartsBelow
  <2>5. \A k \in DOMAIN Parts(t) : Parts(t)[k] \in Level(As, Bs)[n]
    BY <2>4, SeqIsFunction
  <2>6. QED
    BY <1>2, <2>2, <2>5
<1> HIDE DEF U
<1>3. \A n \in Nat : n \in U
  BY <1>1, <1>2, AllNumbers
<1>4. ASSUME NEW n \in Nat PROVE Level(As, Bs)[n] \subseteq T
  BY <1>3 DEF U
<1>5. QED
  BY <1>4, NodesAreLevels

\* What a recursive function gives for the components of a node.
Given(f, t) == [u \in Range(Parts(t)) |-> f[u]]
Solution(As, Bs, n, V, B, f) ==
  /\ f \in [Level(As, Bs)[n] -> V]
  /\ \A t \in Level(As, Bs)[n] : f[t] = B[t][Given(f, t)]

\* A recursion over nodes defines a function of the nodes of every level.
LEMMA SolutionsExist ==
  ASSUME Nestings = Nat, NEW As, NEW Bs, NEW V, NEW B,
         \A t \in NodesIn(As, Bs) : \A r \in [Range(Parts(t)) -> V] : B[t][r] \in V
  PROVE  \A n \in Nat : \E f : Solution(As, Bs, n, V, B, f)
<1> DEFINE T == {n \in Nat : \E f : Solution(As, Bs, n, V, B, f)}
<1>0. ASSUME NEW n \in Nat PROVE Level(As, Bs)[n] \subseteq NodesIn(As, Bs)
  BY NodesAreLevels
<1>1. 0 \in T
  <2> DEFINE f == [t \in {} |-> t]
  <2>1. Level(As, Bs)[0] = {}
    BY LevelsAre
  <2>2. f \in [{} -> V]
    OBVIOUS
  <2> HIDE DEF f
  <2>3. Solution(As, Bs, 0, V, B, f)
    BY <2>1, <2>2 DEF Solution
  <2>4. QED
    BY <2>3
<1>2. ASSUME NEW n \in Nat, n \in T PROVE n + 1 \in T
  <2>1. PICK f : Solution(As, Bs, n, V, B, f)
    BY <1>2
  <2>2. f \in [Level(As, Bs)[n] -> V] /\ \A t \in Level(As, Bs)[n] : f[t] = B[t][Given(f, t)]
    BY <2>1 DEF Solution
  <2> DEFINE g == [t \in Level(As, Bs)[n + 1] |-> B[t][Given(f, t)]]
  <2>3. ASSUME NEW t \in Level(As, Bs)[n + 1] PROVE Range(Parts(t)) \subseteq Level(As, Bs)[n]
    <3>1. t \in NodesOver(Level(As, Bs)[n], As, Bs)
      BY LevelsAre
    <3>2. Parts(t) \in Seq(Level(As, Bs)[n])
      BY <3>1, PartsBelow
    <3>3. QED
      BY <3>2, SeqIsFunction DEF Range
  <2>4. ASSUME NEW t \in Level(As, Bs)[n + 1] PROVE g[t] \in V
    <3>1. Given(f, t) \in [Range(Parts(t)) -> V]
      BY <2>2, <2>3 DEF Given
    <3>2. t \in NodesIn(As, Bs)
      BY <1>0
    <3>3. QED
      BY <3>1, <3>2
  <2>5. ASSUME NEW t \in Level(As, Bs)[n] PROVE g[t] = f[t]
    <3>1. t \in Level(As, Bs)[n + 1]
      BY LevelsGrow
    <3>2. QED
      BY <2>2, <3>1
  <2>6. ASSUME NEW t \in Level(As, Bs)[n + 1] PROVE g[t] = B[t][Given(g, t)]
    <3>1. \A u \in Range(Parts(t)) : g[u] = f[u]
      BY <2>3, <2>5
    <3> HIDE DEF g
    <3>2. Given(g, t) = Given(f, t)
      BY <3>1 DEF Given
    <3>3. g[t] = B[t][Given(f, t)]
      BY DEF g
    <3>4. QED
      BY <3>2, <3>3
  <2>7. g \in [Level(As, Bs)[n + 1] -> V]
    BY <2>4
  <2> HIDE DEF g
  <2>8. Solution(As, Bs, n + 1, V, B, g)
    BY <2>6, <2>7 DEF Solution
  <2>9. QED
    BY <2>8
<1> HIDE DEF T
<1>3. \A n \in Nat : n \in T
  BY <1>1, <1>2, AllNumbers
<1>4. QED
  BY <1>3 DEF T

\* The functions of two levels agree on their nodes.
LEMMA SolutionsAgree ==
  ASSUME Nestings = Nat, NEW As, NEW Bs, NEW V, NEW B, NEW m \in Nat, NEW n \in Nat, NEW f, NEW g,
         Solution(As, Bs, m, V, B, f), Solution(As, Bs, n, V, B, g), NEW t \in Level(As, Bs)[m], t \in Level(As, Bs)[n]
  PROVE  f[t] = g[t]
<1> DEFINE T == {x \in NodesIn(As, Bs) : x \in Level(As, Bs)[m] /\ x \in Level(As, Bs)[n] => f[x] = g[x]}
<1>1. ASSUME NEW x \in NodesIn(As, Bs), \A k \in DOMAIN Parts(x) : Parts(x)[k] \in T PROVE x \in T
  <2> SUFFICES ASSUME x \in Level(As, Bs)[m], x \in Level(As, Bs)[n] PROVE f[x] = g[x]
    OBVIOUS
  <2>1. ASSUME NEW l \in Nat, x \in Level(As, Bs)[l]
        PROVE \A k \in DOMAIN Parts(x) : Parts(x)[k] \in Level(As, Bs)[l]
    <3>1. l # 0
      BY <2>1, LevelsAre
    <3>2. l - 1 \in Nat /\ (l - 1) + 1 = l /\ l - 1 <= l
      BY <3>1
    <3>3. x \in NodesOver(Level(As, Bs)[l - 1], As, Bs)
      BY <2>1, <3>2, LevelsAre
    <3>4. Parts(x) \in Seq(Level(As, Bs)[l - 1])
      BY <3>3, PartsBelow
    <3>5. \A k \in DOMAIN Parts(x) : Parts(x)[k] \in Level(As, Bs)[l - 1]
      BY <3>4, SeqIsFunction
    <3>6. QED
      BY <3>2, <3>5, LevelsGrow
  <2>2. \A k \in DOMAIN Parts(x) : f[Parts(x)[k]] = g[Parts(x)[k]]
    BY <1>1, <2>1
  <2>3. \A u \in Range(Parts(x)) : f[u] = g[u]
    BY <2>2 DEF Range
  <2>4. Given(f, x) = Given(g, x)
    BY <2>3 DEF Given
  <2>5. f[x] = B[x][Given(f, x)] /\ g[x] = B[x][Given(g, x)]
    BY DEF Solution
  <2>6. QED
    BY <2>4, <2>5
<1> HIDE DEF T
<1>2. NodesIn(As, Bs) \subseteq T
  BY <1>1, NodeInduction
<1>3. t \in NodesIn(As, Bs)
  BY NodesAreLevels
<1>4. QED
  BY <1>2, <1>3 DEF T

\* A recursion over nodes, and a function that follows it.
IsClosed(As, Bs, V, B) == \A t \in NodesIn(As, Bs) : \A r \in [Range(Parts(t)) -> V] : B[t][r] \in V
Follows(As, Bs, V, B, f) == f \in [NodesIn(As, Bs) -> V] /\ \A t \in NodesIn(As, Bs) : f[t] = B[t][Given(f, t)]

\* A recursion over nodes that says what follows from the components defines a function.
LEMMA NodeRecursion ==
  ASSUME Nestings = Nat, NEW As, NEW Bs, NEW V, NEW B, IsClosed(As, Bs, V, B)
  PROVE  \E f : Follows(As, Bs, V, B, f)
<1> DEFINE S(n) == CHOOSE f : Solution(As, Bs, n, V, B, f)
           L(t) == CHOOSE n \in Nat : t \in Level(As, Bs)[n]
           F == [t \in NodesIn(As, Bs) |-> S(L(t))[t]]
<1>1. \A n \in Nat : Solution(As, Bs, n, V, B, S(n))
  BY SolutionsExist DEF IsClosed
<1>2. \A t \in NodesIn(As, Bs) : L(t) \in Nat /\ t \in Level(As, Bs)[L(t)]
  BY NodesAreLevels
<1> HIDE DEF S, L
<1>3. ASSUME NEW t \in NodesIn(As, Bs) PROVE F[t] \in V
  BY <1>1, <1>2 DEF Solution
<1>4. ASSUME NEW n \in Nat, NEW t \in Level(As, Bs)[n] PROVE F[t] = S(n)[t]
  <2>1. t \in NodesIn(As, Bs)
    BY NodesAreLevels
  <2>2. L(t) \in Nat /\ t \in Level(As, Bs)[L(t)] /\ Solution(As, Bs, L(t), V, B, S(L(t))) /\ Solution(As, Bs, n, V, B, S(n))
    BY <1>1, <1>2, <2>1
  <2>3. S(L(t))[t] = S(n)[t]
    BY <2>2, SolutionsAgree
  <2>4. QED
    BY <2>1, <2>3
<1>5. ASSUME NEW t \in NodesIn(As, Bs) PROVE F[t] = B[t][Given(F, t)]
  <2>1. PICK n \in Nat : t \in Level(As, Bs)[n + 1] /\ Level(As, Bs)[n + 1] = NodesOver(Level(As, Bs)[n], As, Bs)
    BY SomeLevel
  <2>2. Parts(t) \in Seq(Level(As, Bs)[n])
    BY <2>1, PartsBelow
  <2>3. \A u \in Range(Parts(t)) : u \in Level(As, Bs)[n + 1]
    <3>1. \A u \in Range(Parts(t)) : u \in Level(As, Bs)[n]
      BY <2>2, SeqIsFunction DEF Range
    <3>2. n + 1 \in Nat /\ n <= n + 1
      OBVIOUS
    <3>3. Level(As, Bs)[n] \subseteq Level(As, Bs)[n + 1]
      BY <3>2, LevelsGrow
    <3>4. QED
      BY <3>1, <3>3
  <2>4. n + 1 \in Nat
    OBVIOUS
  <2> DEFINE s == S(n + 1)
  <2>5. Solution(As, Bs, n + 1, V, B, s)
    BY <1>1, <2>4
  <2>6. \A u \in Range(Parts(t)) : F[u] = s[u]
    BY <1>4, <2>3, <2>4
  <2>7. F[t] = s[t]
    BY <1>4, <2>1, <2>4
  <2> HIDE DEF F, s
  <2>8. Given(F, t) = Given(s, t)
    BY <2>6 DEF Given
  <2>9. s[t] = B[t][Given(s, t)]
    BY <2>1, <2>5 DEF Solution
  <2>10. QED
    BY <2>7, <2>8, <2>9
<1>6. F \in [NodesIn(As, Bs) -> V]
  BY <1>3
<1> HIDE DEF F
<1>7. Follows(As, Bs, V, B, F)
  BY <1>5, <1>6 DEF Follows
<1>8. QED
  BY <1>7

\* A bound on the levels of finitely many nodes.
LEMMA LevelOfSeq ==
  ASSUME Nestings = Nat, NEW As, NEW Bs, NEW s \in Seq(NodesIn(As, Bs))
  PROVE  \E m \in Nat : s \in Seq(Level(As, Bs)[m])
<1> DEFINE T == {k \in Nat : k <= Len(s) => \E m \in Nat : \A j \in 1..k : s[j] \in Level(As, Bs)[m]}
<1>0. Len(s) \in Nat /\ DOMAIN s = 1..Len(s) /\ \A k \in 1..Len(s) : s[k] \in NodesIn(As, Bs)
  BY SeqIsFunction
<1>1. 0 \in T
  OBVIOUS
<1>2. ASSUME NEW k \in Nat, k \in T PROVE k + 1 \in T
  <2> SUFFICES ASSUME k + 1 <= Len(s) PROVE \E m \in Nat : \A j \in 1..(k + 1) : s[j] \in Level(As, Bs)[m]
    OBVIOUS
  <2>1. k <= Len(s) /\ k + 1 \in 1..Len(s)
    BY <1>0
  <2>2. PICK m \in Nat : \A j \in 1..k : s[j] \in Level(As, Bs)[m]
    BY <1>2, <2>1
  <2>3. PICK n \in Nat : s[k + 1] \in Level(As, Bs)[n]
    BY <1>0, <2>1, NodesAreLevels
  <2> DEFINE x == IF m <= n THEN n ELSE m
  <2>4. x \in Nat /\ m <= x /\ n <= x
    OBVIOUS
  <2> HIDE DEF x
  <2>5. Level(As, Bs)[m] \subseteq Level(As, Bs)[x] /\ Level(As, Bs)[n] \subseteq Level(As, Bs)[x]
    BY <2>4, LevelsGrow
  <2>6. ASSUME NEW j \in 1..(k + 1) PROVE s[j] \in Level(As, Bs)[x]
    <3>1. CASE j = k + 1
      BY <2>3, <2>5, <3>1
    <3>2. CASE j # k + 1
      <4>1. j \in 1..k
        BY <3>2
      <4>2. QED
        BY <2>2, <2>5, <4>1
    <3>3. QED
      BY <3>1, <3>2
  <2>7. QED
    BY <2>4, <2>6
<1> HIDE DEF T
<1>3. Len(s) \in T
  BY <1>0, <1>1, <1>2, AllNumbers
<1>4. PICK m \in Nat : \A j \in 1..Len(s) : s[j] \in Level(As, Bs)[m]
  <2>1. Len(s) <= Len(s)
    BY <1>0
  <2>2. Len(s) <= Len(s) => \E m \in Nat : \A j \in 1..Len(s) : s[j] \in Level(As, Bs)[m]
    BY <1>3 DEF T
  <2>3. QED
    BY <2>1, <2>2
<1> DEFINE U == Level(As, Bs)[m]
<1>5. s \in [1..Len(s) -> NodesIn(As, Bs)]
  BY <1>0, LenProperties
<1>6. s \in [1..Len(s) -> U]
  BY <1>4, <1>5
<1> HIDE DEF U
<1>7. s \in Seq(U)
  BY <1>0, <1>6, FunctionIsSeq
<1>8. QED
  BY <1>7 DEF U

-----------------------------------------------------------------------------
(* Nodes of all levels.                                                    *)

\* The nodes one level above all nodes are nodes.
LEMMA NodesAreClosed ==
  ASSUME Nestings = Nat, NEW As, NEW Bs
  PROVE  NodesOver(NodesIn(As, Bs), As, Bs) = NodesIn(As, Bs)
<1> DEFINE N == NodesIn(As, Bs)
<1>1. ASSUME NEW e \in NodesOver(N, As, Bs) PROVE e \in N
  <2>1. ASSUME NEW m \in Nat, e \in NodesOver(Level(As, Bs)[m], As, Bs) PROVE e \in N
    <3>1. e \in Level(As, Bs)[m + 1] /\ m + 1 \in Nat
      BY <2>1, LevelsAre
    <3>2. QED
      BY <3>1, NodesAreLevels
  <2>2. ASSUME NEW s \in Seq(N) PROVE \E m \in Nat : s \in Seq(Level(As, Bs)[m])
    BY <2>2, LevelOfSeq
  <2>3. ASSUME NEW x \in N PROVE \E m \in Nat : x \in Level(As, Bs)[m]
    BY NodesAreLevels
  <2> HIDE DEF N
  <2>4. CASE e.tag \in Leaves
    <3>1. e \in NodesOver(Level(As, Bs)[0], As, Bs)
      BY <2>4, NodeIs
    <3>2. QED
      BY <2>1, <3>1
  <2>5. CASE e.tag = "Tuple"
    <3>1. e.xs \in Seq(N) /\ e.arena \in As /\ e = TupleIn(e.arena, e.xs)
      BY <2>5, NodeIs
    <3>2. PICK m \in Nat : e.xs \in Seq(Level(As, Bs)[m])
      BY <2>2, <3>1
    <3>3. e \in NodesOver(Level(As, Bs)[m], As, Bs)
      BY <3>1, <3>2, Built
    <3>4. QED
      BY <2>1, <3>3
  <2>6. CASE e.tag = "Apply"
    <3>1. e.lambda \in N /\ e.args \in Seq(N) /\ e = ApplyNode(e.lambda, e.args)
      BY <2>6, NodeIs
    <3>2. PICK m \in Nat : e.args \in Seq(Level(As, Bs)[m])
      BY <2>2, <3>1
    <3>3. PICK n \in Nat : e.lambda \in Level(As, Bs)[n]
      BY <2>3, <3>1
    <3> DEFINE x == IF m <= n THEN n ELSE m
    <3>4. x \in Nat /\ m <= x /\ n <= x
      OBVIOUS
    <3> HIDE DEF x
    <3>5. Level(As, Bs)[m] \subseteq Level(As, Bs)[x] /\ Level(As, Bs)[n] \subseteq Level(As, Bs)[x]
      BY <3>4, LevelsGrow
    <3>6. e.args \in Seq(Level(As, Bs)[x]) /\ e.lambda \in Level(As, Bs)[x]
      BY <3>2, <3>3, <3>5, SeqMonotonic
    <3>7. e \in NodesOver(Level(As, Bs)[x], As, Bs)
      BY <3>1, <3>6, Built
    <3>8. QED
      BY <2>1, <3>4, <3>7
  <2>7. CASE e.tag = "Quote"
    <3>1. e.expr \in N /\ e = QuoteNode(e.expr)
      BY <2>7, NodeIs
    <3>2. PICK m \in Nat : e.expr \in Level(As, Bs)[m]
      BY <2>3, <3>1
    <3>3. e \in NodesOver(Level(As, Bs)[m], As, Bs)
      BY <3>1, <3>2, Built
    <3>4. QED
      BY <2>1, <3>3
  <2>8. QED
    BY <2>4, <2>5, <2>6, <2>7, NodeIs
<1>2. ASSUME NEW e \in N PROVE e \in NodesOver(N, As, Bs)
  BY NodeOverNodes
<1>3. QED
  BY <1>1, <1>2

\* What the parser makes are values, too.
LEMMA TreesAreValues == ASSUME Nestings = Nat PROVE Trees \subseteq Values
<1> DEFINE T == {n \in Nat : Level({0}, {FALSE})[n] \subseteq Level(Nat, BOOLEAN)[n]}
<1>1. 0 \in T
  BY LevelsAre
<1>2. ASSUME NEW n \in Nat, n \in T PROVE n + 1 \in T
  <2>1. Level({0}, {FALSE})[n] \subseteq Level(Nat, BOOLEAN)[n]
    BY <1>2
  <2>2. NodesOver(Level({0}, {FALSE})[n], {0}, {FALSE}) \subseteq NodesOver(Level(Nat, BOOLEAN)[n], Nat, BOOLEAN)
    <3> DEFINE S == Level({0}, {FALSE})[n]
               R == Level(Nat, BOOLEAN)[n]
    <3>1. S \subseteq R /\ {0} \subseteq Nat /\ {FALSE} \subseteq BOOLEAN
      BY <2>1
    <3> HIDE DEF S, R
    <3>2. NodesOver(S, {0}, {FALSE}) \subseteq NodesOver(R, Nat, BOOLEAN)
      BY <3>1, NodesMonotonic
    <3>3. QED
      BY <3>2 DEF S, R
  <2>3. QED
    BY <2>2, LevelsAre
<1> HIDE DEF T
<1>3. \A n \in Nat : n \in T
  BY <1>1, <1>2, AllNumbers
<1>4. ASSUME NEW n \in Nat PROVE Level({0}, {FALSE})[n] \subseteq Level(Nat, BOOLEAN)[n]
  BY <1>3 DEF T
<1>5. ASSUME NEW e \in Trees PROVE e \in Values
  <2>1. PICK n \in Nat : e \in Level({0}, {FALSE})[n]
    BY NodesAreLevels DEF Trees
  <2>2. e \in Level(Nat, BOOLEAN)[n]
    BY <1>4, <2>1
  <2>3. QED
    BY <2>2, NodesAreLevels DEF Values
<1>6. QED
  BY <1>5

\* The kinds of trees.
LEMMA TreeIs ==
  ASSUME Nestings = Nat, NEW e \in Trees
  PROVE  /\ e.tag \in Leaves \cup {"Tuple", "Apply", "Quote"}
         /\ e.tag = "Sym" => e.name \in Names /\ e.builtin = FALSE /\ e = SymLeaf(e.name)
         /\ e.tag = "Tuple" => e.xs \in Seq(Trees) /\ e.arena = 0 /\ e = TupleNode(e.xs)
         /\ e.tag = "Apply" => e.lambda \in Trees /\ e.args \in Seq(Trees) /\ e = ApplyNode(e.lambda, e.args)
         /\ e.tag = "Quote" => e.expr \in Trees /\ e = QuoteNode(e.expr)
         /\ Parts(e) \in Seq(Trees)
         /\ Len(Parts(e)) \in Nat
         /\ DOMAIN Parts(e) = 1..Len(Parts(e))
         /\ \A k \in 1..Len(Parts(e)) : Parts(e)[k] \in Trees
<1>1. e \in NodesOver(Trees, {0}, {FALSE})
  BY NodesAreClosed DEF Trees
<1>2. /\ Parts(e) \in Seq(Trees) /\ Len(Parts(e)) \in Nat /\ DOMAIN Parts(e) = 1..Len(Parts(e))
      /\ \A k \in 1..Len(Parts(e)) : Parts(e)[k] \in Trees
  BY PartsAreNodes DEF Trees
<1>3. /\ e.tag \in Leaves \cup {"Tuple", "Apply", "Quote"}
      /\ e.tag = "Sym" => e.name \in Names /\ e.builtin \in {FALSE}
                            /\ e = [tag |-> "Sym", name |-> e.name, builtin |-> e.builtin]
      /\ e.tag = "Tuple" => e.xs \in Seq(Trees) /\ e.arena \in {0} /\ e = TupleIn(e.arena, e.xs)
      /\ e.tag = "Apply" => e.lambda \in Trees /\ e.args \in Seq(Trees) /\ e = ApplyNode(e.lambda, e.args)
      /\ e.tag = "Quote" => e.expr \in Trees /\ e = QuoteNode(e.expr)
  <2> DEFINE As == {0}
             Bs == {FALSE}
  <2>1. e \in NodesOver(Trees, As, Bs)
    BY <1>1
  <2> HIDE DEF As, Bs
  <2>2. /\ e.tag \in Leaves \cup {"Tuple", "Apply", "Quote"}
        /\ e.tag = "Sym" => e.name \in Names /\ e.builtin \in Bs
                              /\ e = [tag |-> "Sym", name |-> e.name, builtin |-> e.builtin]
        /\ e.tag = "Tuple" => e.xs \in Seq(Trees) /\ e.arena \in As /\ e = TupleIn(e.arena, e.xs)
        /\ e.tag = "Apply" => e.lambda \in Trees /\ e.args \in Seq(Trees) /\ e = ApplyNode(e.lambda, e.args)
        /\ e.tag = "Quote" => e.expr \in Trees /\ e = QuoteNode(e.expr)
    BY <2>1, NodeIs
  <2>3. QED
    BY <2>2 DEF As, Bs
<1>4. e.tag = "Sym" => e.builtin = FALSE /\ e = SymLeaf(e.name)
  BY <1>3 DEF SymLeaf
<1>5. e.tag = "Tuple" => e.arena = 0 /\ e = TupleNode(e.xs)
  BY <1>3 DEF TupleNode
<1>6. QED
  BY <1>2, <1>3, <1>4, <1>5

\* Trees built of trees.
LEMMA BuiltTrees ==
  ASSUME Nestings = Nat
  PROVE  /\ \A c \in Characters : CharLeaf(c) \in Trees
         /\ \A x \in Seq(Characters) : NumLeaf(x) \in Trees /\ StrNode(x) \in Trees
         /\ \A n \in Names : SymLeaf(n) \in Trees
         /\ \A xs \in Seq(Trees) : TupleNode(xs) \in Trees
         /\ \A l \in Trees, xs \in Seq(Trees) : ApplyNode(l, xs) \in Trees
         /\ \A x \in Trees : QuoteNode(x) \in Trees
<1>1. NodesOver(Trees, {0}, {FALSE}) = Trees
  BY NodesAreClosed DEF Trees
<1>2. QED
  BY <1>1, Built DEF SymLeaf, TupleNode

\* The kinds of values.
LEMMA ValueIs ==
  ASSUME Nestings = Nat, NEW e \in Values
  PROVE  /\ e.tag \in Leaves \cup {"Tuple", "Apply", "Quote"}
         /\ e.tag = "Sym" => e.name \in Names /\ e.builtin \in BOOLEAN
                               /\ e = [tag |-> "Sym", name |-> e.name, builtin |-> e.builtin]
         /\ e.tag = "Tuple" => e.xs \in Seq(Values) /\ e.arena \in Nat /\ e = TupleIn(e.arena, e.xs)
<1>1. e \in NodesOver(Values, Nat, BOOLEAN)
  BY NodesAreClosed DEF Values
<1>2. QED
  BY <1>1, NodeIs

\* Values built of values.
LEMMA BuiltValues ==
  ASSUME Nestings = Nat
  PROVE  /\ \A n \in Names, b \in BOOLEAN : [tag |-> "Sym", name |-> n, builtin |-> b] \in Values
         /\ \A xs \in Seq(Values), a \in Nat : TupleIn(a, xs) \in Values
         /\ \A xs \in Seq(Values) : TupleNode(xs) \in Values
<1>1. NodesOver(Values, Nat, BOOLEAN) = Values
  BY NodesAreClosed DEF Values
<1>2. QED
  BY <1>1, Built DEF TupleNode

-----------------------------------------------------------------------------
(* What the recursive functions of the specification are.                  *)

\* What a function of nodes gives for the parts.
LEMMA GivenIs ==
  ASSUME Nestings = Nat, NEW As, NEW Bs, NEW t \in NodesIn(As, Bs), NEW f
  PROVE  /\ \A u \in Range(Parts(t)) : Given(f, t)[u] = f[u]
         /\ \A k \in 1..Len(Parts(t)) : Given(f, t)[Parts(t)[k]] = f[Parts(t)[k]]
<1>1. \A k \in 1..Len(Parts(t)) : Parts(t)[k] \in Range(Parts(t))
  BY PartsAreNodes DEF Range
<1>2. QED
  BY <1>1 DEF Given

\* It is a function of the parts.
LEMMA GivenType ==
  ASSUME Nestings = Nat, NEW As, NEW Bs, NEW t \in NodesIn(As, Bs), NEW V, NEW f \in [NodesIn(As, Bs) -> V]
  PROVE  Given(f, t) \in [Range(Parts(t)) -> V]
<1>1. \A u \in Range(Parts(t)) : u \in NodesIn(As, Bs)
  BY PartsAreNodes DEF Range
<1>2. QED
  BY <1>1 DEF Given

\* What is evaluated in a node, given what is in its parts.
EvaluatedIn(f, e) == {e} \cup IF e.tag \in {"Tuple", "Apply"} THEN UNION {f[u] : u \in Range(Parts(e))} ELSE {}

\* Evaluates satisfies its recursion.
LEMMA EvaluatesIs ==
  ASSUME Nestings = Nat
  PROVE  \A e \in Trees : Evaluates[e] = EvaluatedIn(Evaluates, e)
<1> DEFINE As == {0}
           Bs == {FALSE}
           N == NodesIn(As, Bs)
           V == SUBSET N
           B == [e \in N |-> [r \in [Range(Parts(e)) -> V] |-> EvaluatedIn(r, e)]]
<1>0. N = Trees
  BY DEF Trees
<1>1. ASSUME NEW e \in N, NEW r \in [Range(Parts(e)) -> V]
      PROVE  B[e][r] = EvaluatedIn(r, e) /\ B[e][r] \in V
  BY DEF EvaluatedIn
<1> HIDE DEF B, V, As, Bs
<1>2. PICK f \in [N -> V] : \A e \in N : f[e] = B[e][Given(f, e)]
  <2>1. IsClosed(As, Bs, V, B)
    BY <1>1 DEF IsClosed
  <2>2. QED
    BY <2>1, NodeRecursion DEF Follows
<1>3. ASSUME NEW e \in N PROVE f[e] = EvaluatedIn(f, e)
  <2>1. Given(f, e) \in [Range(Parts(e)) -> V] /\ \A u \in Range(Parts(e)) : Given(f, e)[u] = f[u]
    BY <1>2, GivenIs, GivenType
  <2>2. f[e] = EvaluatedIn(Given(f, e), e)
    BY <1>1, <1>2, <2>1
  <2>3. EvaluatedIn(Given(f, e), e) = EvaluatedIn(f, e)
    BY <2>1 DEF EvaluatedIn
  <2>4. QED
    BY <2>2, <2>3
<1>4. f = [e \in Trees |-> EvaluatedIn(f, e)]
  BY <1>0, <1>2, <1>3
<1> DEFINE Is(g) == g = [e \in Trees |-> {e} \cup IF e.tag \in {"Tuple", "Apply"} THEN UNION {g[u] : u \in Range(Parts(e))} ELSE {}]
<1>5. Evaluates = CHOOSE g : Is(g)
  BY DEF Evaluates
<1>6. Is(Evaluates)
  <2>1. Is(f)
    BY <1>4 DEF EvaluatedIn
  <2> HIDE DEF Is
  <2>2. QED
    BY <1>5, <2>1
<1>7. ASSUME NEW e \in Trees PROVE Evaluates[e] = EvaluatedIn(Evaluates, e)
  BY <1>6 DEF EvaluatedIn
<1>8. QED
  BY <1>7

\* A value as it would be, given what its parts would be.
LastingGiven(f, v) ==
  IF v.tag = "Tuple" /\ v.arena # 0 THEN TupleNode([k \in DOMAIN v.xs |-> f[v.xs[k]]]) ELSE v

\* Lasting satisfies its recursion, and makes values.
LEMMA LastingIs ==
  ASSUME Nestings = Nat
  PROVE  \A v \in Values : Lasting[v] = LastingGiven(Lasting, v) /\ Lasting[v] \in Values
<1> DEFINE V == Values
           N == NodesIn(Nat, BOOLEAN)
           B == [v \in N |-> [r \in [Range(Parts(v)) -> V] |-> LastingGiven(r, v)]]
<1>0. N = Values
  BY DEF Values
<1>1. ASSUME NEW v \in N, NEW r \in [Range(Parts(v)) -> V]
      PROVE  B[v][r] = LastingGiven(r, v) /\ B[v][r] \in V
  <2>1. CASE v.tag = "Tuple" /\ v.arena # 0
    <3>1. Parts(v) = v.xs /\ v.xs \in Seq(V)
      BY <1>0, <2>1, ValueIs DEF Parts
    <3>2. Len(v.xs) \in Nat /\ DOMAIN v.xs = 1..Len(v.xs)
      BY <3>1, SeqIsFunction
    <3>3. \A k \in DOMAIN v.xs : r[v.xs[k]] \in V
      BY <3>1 DEF Range
    <3> DEFINE s == [k \in DOMAIN v.xs |-> r[v.xs[k]]]
    <3>4. s \in [1..Len(v.xs) -> V]
      BY <3>2, <3>3
    <3> HIDE DEF s, V
    <3>5. s \in Seq(V)
      BY <3>2, <3>4, FunctionIsSeq
    <3>6. TupleNode(s) \in V
      BY <3>5, BuiltValues DEF V
    <3>7. LastingGiven(r, v) = TupleNode(s)
      BY <2>1 DEF LastingGiven, s
    <3>8. QED
      BY <3>6, <3>7
  <2>2. CASE ~(v.tag = "Tuple" /\ v.arena # 0)
    BY <1>0, <2>2 DEF LastingGiven
  <2>3. QED
    BY <2>1, <2>2
<1> HIDE DEF B, V
<1>2. PICK f \in [N -> V] : \A v \in N : f[v] = B[v][Given(f, v)]
  <2>1. IsClosed(Nat, BOOLEAN, V, B)
    BY <1>1 DEF IsClosed
  <2>2. QED
    BY <2>1, NodeRecursion DEF Follows
<1>3. ASSUME NEW v \in N PROVE LastingGiven(f, v) = B[v][Given(f, v)]
  <2>1. Given(f, v) \in [Range(Parts(v)) -> V] /\ \A k \in 1..Len(Parts(v)) : Given(f, v)[Parts(v)[k]] = f[Parts(v)[k]]
    BY <1>2, GivenIs, GivenType
  <2>2. B[v][Given(f, v)] = LastingGiven(Given(f, v), v)
    BY <1>1, <2>1
  <2>3. CASE v.tag = "Tuple" /\ v.arena # 0
    <3>1. Parts(v) = v.xs
      BY <2>3 DEF Parts
    <3>2. DOMAIN v.xs = 1..Len(v.xs)
      BY <3>1, PartsAreNodes
    <3>3. \A k \in DOMAIN v.xs : Given(f, v)[v.xs[k]] = f[v.xs[k]]
      BY <2>1, <3>1, <3>2
    <3>4. QED
      BY <2>2, <2>3, <3>3 DEF LastingGiven
  <2>4. CASE ~(v.tag = "Tuple" /\ v.arena # 0)
    BY <2>2, <2>4 DEF LastingGiven
  <2>5. QED
    BY <2>3, <2>4
<1>4. ASSUME NEW v \in N PROVE f[v] = LastingGiven(f, v)
  BY <1>2, <1>3
<1>5. f = [v \in Values |-> LastingGiven(f, v)]
  BY <1>0, <1>2, <1>4
<1> DEFINE Is(g) == g = [v \in Values |-> IF v.tag = "Tuple" /\ v.arena # 0
                                          THEN TupleNode([k \in DOMAIN v.xs |-> g[v.xs[k]]]) ELSE v]
<1>6. Lasting = CHOOSE g : Is(g)
  BY DEF Lasting
<1>7. Is(Lasting)
  <2>1. Is(f)
    BY <1>5 DEF LastingGiven
  <2> HIDE DEF Is
  <2>2. QED
    BY <1>6, <2>1
<1>8. ASSUME NEW v \in Values PROVE Lasting[v] = LastingGiven(Lasting, v)
  BY <1>7 DEF LastingGiven
<1>9. Lasting = [v \in Values |-> Lasting[v]]
  BY <1>7
<1> DEFINE T == {v \in N : Lasting[v] \in Values}
<1> HIDE DEF Is
<1>10. ASSUME NEW v \in N, \A k \in DOMAIN Parts(v) : Parts(v)[k] \in T PROVE v \in T
  <2>1. CASE v.tag = "Tuple" /\ v.arena # 0
    <3>1. Parts(v) = v.xs /\ v.xs \in Seq(Values)
      BY <1>0, <2>1, ValueIs DEF Parts
    <3>2. Len(v.xs) \in Nat /\ DOMAIN v.xs = 1..Len(v.xs)
      BY <3>1, SeqIsFunction
    <3>3. \A k \in DOMAIN v.xs : Lasting[v.xs[k]] \in Values
      BY <1>10, <3>1
    <3> DEFINE s == [k \in DOMAIN v.xs |-> Lasting[v.xs[k]]]
    <3>4. s \in [1..Len(v.xs) -> Values]
      BY <3>2, <3>3
    <3> HIDE DEF s
    <3>5. TupleNode(s) \in Values
      BY <3>2, <3>4, FunctionIsSeq, BuiltValues
    <3>6. Lasting[v] = TupleNode(s)
      BY <1>0, <1>8, <2>1 DEF LastingGiven, s
    <3>7. QED
      BY <3>5, <3>6
  <2>2. CASE ~(v.tag = "Tuple" /\ v.arena # 0)
    BY <1>0, <1>8, <2>2 DEF LastingGiven
  <2>3. QED
    BY <2>1, <2>2
<1> HIDE DEF T
<1>11. N \subseteq T
  BY <1>10, NodeInduction
<1>12. QED
  BY <1>0, <1>8, <1>11 DEF T

-----------------------------------------------------------------------------
(* What a program means.                                                   *)

\* What some expressions mean, given what those before the last one do.
Then(means, es, k, before) ==
  LET this == means[es[k]][before.env]
  IN  IF before.how # "value" THEN before
      ELSE IF this.how # "value" THEN this
      ELSE Meaning(Append(before.value, this.value), this.env)
\* The same, of one function.
AfterGiven(means, es, env, f, k) == IF k = 0 THEN Meaning(<<>>, env) ELSE Then(means, es, k, f[k - 1])

\* There is a function of what the first expressions mean.
LEMMA AfterExists ==
  ASSUME NEW n \in Nat, NEW means, NEW es, NEW env
  PROVE  \E f : f = [k \in 0..n |-> AfterGiven(means, es, env, f, k)]
<1> DEFINE T == {m \in Nat : \E f : f = [k \in 0..m |-> AfterGiven(means, es, env, f, k)]}
<1>1. 0 \in T
  <2> DEFINE f == [k \in 0..0 |-> Meaning(<<>>, env)]
  <2>1. \A k \in 0..0 : AfterGiven(means, es, env, f, k) = Meaning(<<>>, env)
    BY DEF AfterGiven
  <2>2. f = [k \in 0..0 |-> AfterGiven(means, es, env, f, k)]
    BY <2>1
  <2> HIDE DEF f
  <2>3. QED
    BY <2>2
<1>2. ASSUME NEW m \in Nat, m \in T PROVE m + 1 \in T
  <2>1. PICK f : f = [k \in 0..m |-> AfterGiven(means, es, env, f, k)]
    BY <1>2
  <2> DEFINE g == [k \in 0..(m + 1) |-> IF k = m + 1 THEN Then(means, es, k, f[m]) ELSE f[k]]
  <2>2. ASSUME NEW k \in 0..(m + 1) PROVE g[k] = AfterGiven(means, es, env, g, k)
    <3>1. CASE k = m + 1
      <4>1. k # 0 /\ k - 1 = m /\ g[m] = f[m] /\ g[k] = Then(means, es, k, f[m])
        BY <3>1
      <4>2. QED
        BY <4>1 DEF AfterGiven
    <3>2. CASE k # m + 1
      <4>1. k \in 0..m /\ g[k] = f[k] /\ (k # 0 => g[k - 1] = f[k - 1])
        BY <3>2
      <4>2. f[k] = AfterGiven(means, es, env, f, k)
        BY <2>1, <4>1
      <4>3. QED
        BY <4>1, <4>2 DEF AfterGiven
    <3>3. QED
      BY <3>1, <3>2
  <2>3. g = [k \in 0..(m + 1) |-> AfterGiven(means, es, env, g, k)]
    BY <2>2
  <2> HIDE DEF g
  <2>4. m + 1 \in Nat /\ \E h : h = [k \in 0..(m + 1) |-> AfterGiven(means, es, env, h, k)]
    BY <2>3
  <2>5. QED
    BY <2>4
<1> HIDE DEF T
<1>3. n \in T
  BY <1>1, <1>2, AllNumbers
<1>4. QED
  BY <1>3 DEF T

\* What expressions mean follows from what they mean without the last one.
LEMMA AfterIs ==
  ASSUME NEW means, NEW es, NEW env, Len(es) \in Nat
  PROVE  /\ After(means, es, env)[0] = Meaning(<<>>, env)
         /\ \A k \in 1..Len(es) : After(means, es, env)[k] = Then(means, es, k, After(means, es, env)[k - 1])
<1> DEFINE F == After(means, es, env)
           Is(g) == g = [k \in 0..Len(es) |-> AfterGiven(means, es, env, g, k)]
<1>1. F = CHOOSE g : Is(g)
  BY DEF After, AfterGiven, Then
<1>2. \E g : Is(g)
  BY AfterExists
<1> HIDE DEF F
<1>3. Is(F)
  <2> HIDE DEF Is
  <2>1. QED
    BY <1>1, <1>2
<1>4. ASSUME NEW k \in 0..Len(es) PROVE F[k] = AfterGiven(means, es, env, F, k)
  BY <1>3
<1>5. 0 \in 0..Len(es) /\ \A k \in 1..Len(es) : k \in 0..Len(es) /\ k # 0
  OBVIOUS
<1>6. F[0] = Meaning(<<>>, env)
  BY <1>4, <1>5 DEF AfterGiven
<1>7. ASSUME NEW k \in 1..Len(es) PROVE F[k] = Then(means, es, k, F[k - 1])
  BY <1>4, <1>5 DEF AfterGiven
<1>8. QED
  BY <1>6, <1>7 DEF F

\* What an expression can mean, and several.
Environments == SUBSET Definitions
Outcomes(V) == [how : {"value"}, value : V, env : Environments] \cup {Error, [how |-> "fn"]}
Expressed == [Environments -> Outcomes(Values)]

\* The kinds of outcomes.
LEMMA OutcomeIs ==
  ASSUME NEW V, NEW o \in Outcomes(V)
  PROVE  /\ o.how \in {"value", "error", "fn"}
         /\ o.how = "value" => o.value \in V /\ o.env \in Environments /\ o = Meaning(o.value, o.env)
         /\ o.how = "error" => o = Error
         /\ o.how = "fn" => o = [how |-> "fn"]
BY DEF Outcomes, Error, Meaning

\* What has an outcome.
LEMMA BuiltOutcome ==
  ASSUME NEW V
  PROVE  /\ \A v \in V, env \in Environments : Meaning(v, env) \in Outcomes(V) /\ Meaning(v, env).how = "value"
                                                 /\ Meaning(v, env).value = v /\ Meaning(v, env).env = env
         /\ Error \in Outcomes(V) /\ Error.how = "error"
         /\ [how |-> "fn"] \in Outcomes(V)
         /\ \A W : \A o \in Outcomes(W) : o.how # "value" => o \in Outcomes(V)
BY DEF Outcomes, Error, Meaning

\* Expressions mean as many values, or fail.
LEMMA AfterType ==
  ASSUME NEW S, NEW es \in Seq(S), NEW means, NEW env \in Environments,
         \A k \in 1..Len(es) : means[es[k]] \in Expressed
  PROVE  \A k \in 0..Len(es) :
           /\ After(means, es, env)[k] \in Outcomes(Seq(Values))
           /\ After(means, es, env)[k].how = "value" => Len(After(means, es, env)[k].value) = k
<1> DEFINE F == After(means, es, env)
           T == {k \in Nat : k <= Len(es) => /\ F[k] \in Outcomes(Seq(Values))
                                             /\ F[k].how = "value" => Len(F[k].value) = k}
<1>0. Len(es) \in Nat
  OBVIOUS
<1>1. F[0] = Meaning(<<>>, env) /\ \A k \in 1..Len(es) : F[k] = Then(means, es, k, F[k - 1])
  BY <1>0, AfterIs
<1> HIDE DEF F
<1>2. 0 \in T
  <2>1. <<>> \in Seq(Values) /\ Len(<<>>) = 0
    OBVIOUS
  <2>2. Meaning(<<>>, env) \in Outcomes(Seq(Values)) /\ Meaning(<<>>, env).value = <<>>
    BY <2>1 DEF Outcomes, Meaning
  <2>3. QED
    BY <1>1, <2>1, <2>2
<1>3. ASSUME NEW m \in Nat, m \in T PROVE m + 1 \in T
  <2> SUFFICES ASSUME m + 1 <= Len(es)
               PROVE F[m + 1] \in Outcomes(Seq(Values)) /\ (F[m + 1].how = "value" => Len(F[m + 1].value) = m + 1)
    OBVIOUS
  <2> DEFINE before == F[m]
             this == means[es[m + 1]][before.env]
  <2>1. m + 1 \in 1..Len(es) /\ (m + 1) - 1 = m /\ m <= Len(es)
    BY <1>0
  <2>2. before \in Outcomes(Seq(Values)) /\ (before.how = "value" => Len(before.value) = m)
    BY <1>3, <2>1
  <2>3. F[m + 1] = Then(means, es, m + 1, before)
    BY <1>1, <2>1
  <2>4. CASE before.how # "value"
    BY <2>2, <2>3, <2>4 DEF Then
  <2>5. CASE before.how = "value"
    <3>1. before.value \in Seq(Values) /\ before.env \in Environments
      BY <2>2, <2>5, OutcomeIs
    <3>2. means[es[m + 1]] \in Expressed
      BY <2>1
    <3>3. this \in Outcomes(Values)
      BY <3>1, <3>2 DEF Expressed
    <3>4. CASE this.how # "value"
      BY <2>3, <2>5, <3>3, <3>4, BuiltOutcome DEF Then
    <3>5. CASE this.how = "value"
      <4>1. this.value \in Values /\ this.env \in Environments
        BY <3>3, <3>5, OutcomeIs
      <4> DEFINE vs == Append(before.value, this.value)
      <4>2. vs \in Seq(Values) /\ Len(vs) = m + 1
        BY <2>2, <2>5, <3>1, <4>1, AppendProperties
      <4>3. F[m + 1] = Meaning(vs, this.env)
        BY <2>3, <2>5, <3>5 DEF Then
      <4> HIDE DEF vs, this
      <4>4. QED
        BY <4>1, <4>2, <4>3, BuiltOutcome
    <3>6. QED
      BY <3>4, <3>5
  <2>6. QED
    BY <2>4, <2>5
<1> HIDE DEF T
<1>4. \A k \in Nat : k \in T
  BY <1>2, <1>3, AllNumbers
<1>5. QED
  BY <1>0, <1>4 DEF T, F

\* It depends on what those expressions mean only.
LEMMA AfterSame ==
  ASSUME NEW es, Len(es) \in Nat, NEW means, NEW others, NEW env,
         \A k \in 1..Len(es) : means[es[k]] = others[es[k]]
  PROVE  \A k \in 0..Len(es) : After(means, es, env)[k] = After(others, es, env)[k]
<1> DEFINE F == After(means, es, env)
           G == After(others, es, env)
           T == {k \in Nat : k <= Len(es) => F[k] = G[k]}
<1>1. /\ F[0] = Meaning(<<>>, env) /\ \A k \in 1..Len(es) : F[k] = Then(means, es, k, F[k - 1])
      /\ G[0] = Meaning(<<>>, env) /\ \A k \in 1..Len(es) : G[k] = Then(others, es, k, G[k - 1])
  BY AfterIs
<1> HIDE DEF F, G
<1>2. 0 \in T
  BY <1>1
<1>3. ASSUME NEW m \in Nat, m \in T PROVE m + 1 \in T
  <2> SUFFICES ASSUME m + 1 <= Len(es) PROVE F[m + 1] = G[m + 1]
    OBVIOUS
  <2>1. m + 1 \in 1..Len(es) /\ (m + 1) - 1 = m /\ m <= Len(es)
    OBVIOUS
  <2>2. F[m] = G[m]
    BY <1>3, <2>1
  <2>3. Then(means, es, m + 1, F[m]) = Then(others, es, m + 1, G[m])
    BY <2>1, <2>2 DEF Then
  <2>4. QED
    BY <1>1, <2>1, <2>3
<1> HIDE DEF T
<1>4. \A k \in Nat : k \in T
  BY <1>2, <1>3, AllNumbers
<1>5. QED
  BY <1>4 DEF T, F, G

\* What cannot be done stays so.
LEMMA AfterFails ==
  ASSUME NEW es, Len(es) \in Nat, NEW means, NEW env, NEW k \in 0..Len(es),
         After(means, es, env)[k].how # "value"
  PROVE  \A n \in k..Len(es) : After(means, es, env)[n] = After(means, es, env)[k]
<1> DEFINE F == After(means, es, env)
           T == {m \in Nat : k + m <= Len(es) => F[k + m] = F[k]}
<1>1. \A n \in 1..Len(es) : F[n] = Then(means, es, n, F[n - 1])
  BY AfterIs
<1> HIDE DEF F
<1>2. 0 \in T
  OBVIOUS
<1>3. ASSUME NEW m \in Nat, m \in T PROVE m + 1 \in T
  <2> SUFFICES ASSUME k + (m + 1) <= Len(es) PROVE F[k + (m + 1)] = F[k]
    OBVIOUS
  <2>1. k + (m + 1) \in 1..Len(es) /\ (k + (m + 1)) - 1 = k + m /\ k + m <= Len(es)
    OBVIOUS
  <2>2. F[k + m] = F[k] /\ F[k].how # "value"
    BY <1>3, <2>1 DEF F
  <2>3. QED
    BY <1>1, <2>1, <2>2 DEF Then
<1> HIDE DEF T
<1>4. \A m \in Nat : m \in T
  BY <1>2, <1>3, AllNumbers
<1>5. ASSUME NEW n \in k..Len(es) PROVE F[n] = F[k]
  <2>1. n - k \in Nat /\ k + (n - k) = n
    OBVIOUS
  <2>2. QED
    BY <1>4, <2>1 DEF T
<1>6. QED
  BY <1>5 DEF F

\* What an expression means, given what its parts do.
MeansGiven(means, e, env) ==
  LET parts == After(means, Parts(e), env)[Len(Parts(e))]
  IN  CASE e.tag \in {"Str", "Num", "Char"} -> Meaning(e, env)
        [] e.tag = "Quote" -> Meaning(e.expr, env)
        [] e.tag = "Sym" -> IF e.name \in Builtins THEN Meaning([e EXCEPT !.builtin = TRUE], env)
                            ELSE IF e.name \notin Defined(env) THEN Error
                            ELSE Meaning(Definition(env, e.name).value, env)
        [] e.tag = "Tuple" -> IF parts.how # "value" THEN parts
                              ELSE Meaning(TupleNode(parts.value), parts.env)
        [] e.tag = "Apply" -> IF parts.how # "value" THEN parts ELSE Applied(parts.value, parts.env)

\* A symbol as a builtin.
LEMMA AsBuiltin ==
  \A n : [SymLeaf(n) EXCEPT !.builtin = TRUE] = [tag |-> "Sym", name |-> n, builtin |-> TRUE]
<1>1. ASSUME NEW n, NEW a, NEW b
      PROVE  [[tag |-> "Sym", name |-> n, builtin |-> a] EXCEPT !.builtin = b]
               = [tag |-> "Sym", name |-> n, builtin |-> b]
  OBVIOUS
<1>2. QED
  BY <1>1, Zenon DEF SymLeaf

\* What is defined has a definition.
LEMMA DefinitionIs ==
  ASSUME NEW env \in Environments, NEW n \in Defined(env)
  PROVE  Definition(env, n) \in env /\ Definition(env, n).name = n /\ Definition(env, n).value \in Values
<1>1. \E d \in env : d.name = n
  BY DEF Defined
<1>2. Definition(env, n) \in env /\ Definition(env, n).name = n
  BY <1>1 DEF Definition
<1>3. Definition(env, n) \in Definitions
  BY <1>2 DEF Environments
<1>4. QED
  BY <1>2, <1>3 DEF Definitions

\* An application has an outcome.
LEMMA AppliedType ==
  ASSUME Nestings = Nat, NEW vs \in Seq(Values), NEW env \in Environments
  PROVE  Applied(vs, env) \in Outcomes(Values)
<1> DEFINE D == [name |-> vs[1].name, value |-> vs[2]]
           Defines == /\ Last(vs) = Builtin("def") /\ Len(vs) = 3
                      /\ vs[1].tag = "Sym" /\ vs[1].name \notin Defined(env)
<1>1. CASE Defines
  <2>1. vs[1] \in Values /\ vs[2] \in Values
    <3>1. Len(vs) = 3 /\ 1 \in 1..Len(vs) /\ 2 \in 1..Len(vs)
      BY <1>1
    <3>2. QED
      BY <3>1, SeqIsFunction
  <2>2. vs[1].name \in Names
    BY <1>1, <2>1, ValueIs
  <2>3. D \in Definitions
    BY <2>1, <2>2 DEF Definitions
  <2>4. env \cup {D} \in Environments
    BY <2>3 DEF Environments
  <2>5. Applied(vs, env) = Meaning(vs[1], env \cup {D})
    BY <1>1 DEF Applied
  <2> HIDE DEF D
  <2>6. QED
    BY <2>1, <2>4, <2>5, BuiltOutcome
<1>2. CASE ~Defines
  <2>1. Applied(vs, env) = IF Last(vs) = Builtin("fn") THEN [how |-> "fn"] ELSE Error
    BY <1>2 DEF Applied
  <2>2. QED
    BY <2>1, BuiltOutcome
<1>3. QED
  BY <1>1, <1>2

\* An expression has an outcome if its parts do.
LEMMA MeansGivenType ==
  ASSUME Nestings = Nat, NEW e \in Trees, NEW env \in Environments, NEW means,
         \A k \in 1..Len(Parts(e)) : means[Parts(e)[k]] \in Expressed
  PROVE  MeansGiven(means, e, env) \in Outcomes(Values)
<1> DEFINE n == Len(Parts(e))
           parts == After(means, Parts(e), env)[n]
<1>1. Parts(e) \in Seq(Trees) /\ n \in Nat /\ e \in Values
  BY TreeIs, TreesAreValues
<1>2. parts \in Outcomes(Seq(Values))
  <2>1. n \in 0..Len(Parts(e))
    BY <1>1
  <2>2. \A k \in 0..Len(Parts(e)) : After(means, Parts(e), env)[k] \in Outcomes(Seq(Values))
    BY <1>1, AfterType
  <2>3. QED
    BY <2>1, <2>2
<1> HIDE DEF parts, n
<1>3. CASE e.tag \in {"Str", "Num", "Char"}
  <2>1. MeansGiven(means, e, env) = Meaning(e, env)
    BY <1>3 DEF MeansGiven
  <2>2. QED
    BY <1>1, <2>1, BuiltOutcome
<1>4. CASE e.tag = "Quote"
  <2>1. MeansGiven(means, e, env) = Meaning(e.expr, env)
    BY <1>4 DEF MeansGiven
  <2>2. e.expr \in Values
    BY <1>4, TreeIs, TreesAreValues
  <2>3. QED
    BY <2>1, <2>2, BuiltOutcome
<1>5. CASE e.tag = "Sym"
  <2>0. e = SymLeaf(e.name) /\ e.name \in Names
    BY <1>5, TreeIs
  <2>1. CASE e.name \in Builtins
    <3>1. MeansGiven(means, e, env) = Meaning([e EXCEPT !.builtin = TRUE], env)
      BY <1>5, <2>1 DEF MeansGiven
    <3>2. [e EXCEPT !.builtin = TRUE] = [tag |-> "Sym", name |-> e.name, builtin |-> TRUE]
      BY <2>0, AsBuiltin
    <3>3. [e EXCEPT !.builtin = TRUE] \in Values
      BY <2>0, <3>2, BuiltValues
    <3>4. QED
      BY <3>1, <3>3, BuiltOutcome
  <2>2. CASE e.name \notin Builtins /\ e.name \notin Defined(env)
    BY <1>5, <2>2, BuiltOutcome DEF MeansGiven
  <2>3. CASE e.name \notin Builtins /\ e.name \in Defined(env)
    <3>1. MeansGiven(means, e, env) = Meaning(Definition(env, e.name).value, env)
      BY <1>5, <2>3 DEF MeansGiven
    <3>2. Definition(env, e.name).value \in Values
      BY <2>3, DefinitionIs
    <3>3. QED
      BY <3>1, <3>2, BuiltOutcome
  <2>4. QED
    BY <2>1, <2>2, <2>3
<1>6. CASE e.tag \in {"Tuple", "Apply"} /\ parts.how # "value"
  <2>1. MeansGiven(means, e, env) = parts
    BY <1>6 DEF MeansGiven, parts, n
  <2>2. QED
    BY <1>2, <1>6, <2>1, BuiltOutcome
<1>7. CASE e.tag \in {"Tuple", "Apply"} /\ parts.how = "value"
  <2>1. parts.value \in Seq(Values) /\ parts.env \in Environments
    BY <1>2, <1>7, OutcomeIs
  <2>2. CASE e.tag = "Tuple"
    <3>1. MeansGiven(means, e, env) = Meaning(TupleNode(parts.value), parts.env)
      BY <1>7, <2>2 DEF MeansGiven, parts, n
    <3>2. TupleNode(parts.value) \in Values
      BY <2>1, BuiltValues
    <3>3. QED
      BY <2>1, <3>1, <3>2, BuiltOutcome
  <2>3. CASE e.tag = "Apply"
    <3>1. MeansGiven(means, e, env) = Applied(parts.value, parts.env)
      BY <1>7, <2>3 DEF MeansGiven, parts, n
    <3>2. QED
      BY <2>1, <3>1, AppliedType
  <2>4. QED
    BY <1>7, <2>2, <2>3
<1>8. QED
  BY <1>3, <1>4, <1>5, <1>6, <1>7, TreeIs DEF Leaves

\* What an expression means depends on what its parts mean only.
LEMMA MeansGivenSame ==
  ASSUME NEW e, Len(Parts(e)) \in Nat, NEW means, NEW others, NEW env,
         \A k \in 1..Len(Parts(e)) : means[Parts(e)[k]] = others[Parts(e)[k]]
  PROVE  MeansGiven(means, e, env) = MeansGiven(others, e, env)
<1> DEFINE n == Len(Parts(e))
<1>1. n \in 0..Len(Parts(e))
  OBVIOUS
<1>2. \A k \in 0..Len(Parts(e)) : After(means, Parts(e), env)[k] = After(others, Parts(e), env)[k]
  BY AfterSame
<1>3. After(means, Parts(e), env)[n] = After(others, Parts(e), env)[n]
  BY <1>1, <1>2
<1>4. QED
  BY <1>3 DEF MeansGiven

\* Every expression means something.
LEMMA MeansIs ==
  ASSUME Nestings = Nat
  PROVE  \A e \in Trees : /\ Means[e] \in Expressed
                          /\ \A env \in Environments : Means[e][env] = MeansGiven(Means, e, env)
<1> DEFINE As == {0}
           Bs == {FALSE}
           N == NodesIn(As, Bs)
           V == Expressed
           Body(f, e) == [env \in Environments |-> MeansGiven(f, e, env)]
           B == [e \in N |-> [r \in [Range(Parts(e)) -> V] |-> Body(r, e)]]
<1>0. N = Trees
  BY DEF Trees
<1>1. ASSUME NEW e \in Trees, NEW f, \A k \in 1..Len(Parts(e)) : f[Parts(e)[k]] \in V
      PROVE  Body(f, e) \in V
  <2>1. \A env \in Environments : MeansGiven(f, e, env) \in Outcomes(Values)
    BY <1>1, MeansGivenType
  <2>2. QED
    BY <2>1 DEF Expressed
<1>2. ASSUME NEW e \in Trees, NEW f, NEW g, \A k \in 1..Len(Parts(e)) : f[Parts(e)[k]] = g[Parts(e)[k]]
      PROVE  Body(f, e) = Body(g, e)
  <2>1. Len(Parts(e)) \in Nat
    BY TreeIs
  <2>2. \A env \in Environments : MeansGiven(f, e, env) = MeansGiven(g, e, env)
    BY <1>2, <2>1, MeansGivenSame
  <2>3. QED
    BY <2>2
<1>3. \A e \in N : \A r \in [Range(Parts(e)) -> V] : B[e][r] = Body(r, e)
  OBVIOUS
<1>4. \A e \in N : \A k \in 1..Len(Parts(e)) : Parts(e)[k] \in Range(Parts(e))
  BY <1>0, TreeIs DEF Range
<1> HIDE DEF B, V, As, Bs, Body
<1>5. PICK f : f \in [N -> V] /\ \A e \in N : f[e] = B[e][Given(f, e)]
  <2>1. ASSUME NEW e \in N, NEW r \in [Range(Parts(e)) -> V] PROVE B[e][r] \in V
    <3>1. \A k \in 1..Len(Parts(e)) : r[Parts(e)[k]] \in V
      BY <1>4
    <3>2. e \in Trees
      BY <1>0
    <3>3. Body(r, e) \in V
      BY <1>1, <3>1, <3>2
    <3>4. QED
      BY <1>3, <3>3
  <2>2. IsClosed(As, Bs, V, B)
    BY <2>1 DEF IsClosed
  <2>3. QED
    BY <2>2, NodeRecursion DEF Follows
<1>6. ASSUME NEW e \in N PROVE f[e] = Body(f, e)
  <2>1. f \in [N -> V]
    BY <1>5
  <2>2. Given(f, e) \in [Range(Parts(e)) -> V]
    BY <2>1, GivenType
  <2>3. \A k \in 1..Len(Parts(e)) : Given(f, e)[Parts(e)[k]] = f[Parts(e)[k]]
    BY GivenIs
  <2>4. e \in Trees
    BY <1>0
  <2>5. Body(Given(f, e), e) = Body(f, e)
    BY <1>2, <2>3, <2>4
  <2>6. f[e] = Body(Given(f, e), e)
    BY <1>3, <1>5, <2>2
  <2>7. QED
    BY <2>5, <2>6
<1>7. f = [e \in Trees |-> Body(f, e)]
  BY <1>0, <1>5, <1>6
<1> DEFINE Is(g) == g = [e \in Trees |-> Body(g, e)]
<1>8. Means = CHOOSE g : Is(g)
  BY DEF Means, Body, MeansGiven, Environments
<1>9. Is(Means)
  <2>1. Is(f)
    BY <1>7
  <2> HIDE DEF Is
  <2>2. QED
    BY <1>8, <2>1
<1>10. ASSUME NEW e \in Trees PROVE Means[e] = Body(Means, e)
  BY <1>9
<1> HIDE DEF Is
<1> DEFINE T == {e \in N : Means[e] \in V}
<1>11. ASSUME NEW e \in N, \A k \in DOMAIN Parts(e) : Parts(e)[k] \in T PROVE e \in T
  <2>1. e \in Trees /\ \A k \in 1..Len(Parts(e)) : Means[Parts(e)[k]] \in V
    BY <1>0, <1>11, TreeIs
  <2>2. QED
    BY <1>1, <1>10, <2>1
<1> HIDE DEF T
<1>12. N \subseteq T
  BY <1>11, NodeInduction
<1>13. QED
  BY <1>0, <1>10, <1>12 DEF T, V, Body

-----------------------------------------------------------------------------
(* What the parser reads.                                                  *)

\* A file whose characters are such.
IsText(f) == f.chars \in Seq(Characters)

\* A place in a text.
LEMMA PlaceIs ==
  ASSUME NEW f, IsText(f)
  PROVE  /\ Len(f.chars) \in Nat
         /\ \A i \in 1..Len(f.chars) : f.chars[i] \in Characters
         /\ \A p \in 0..Len(f.chars) : ~AtEnd(f, p) => p + 1 \in 1..Len(f.chars) /\ Next1(f, p) \in Characters
         /\ \A p \in 0..Len(f.chars) : \A S : SeesOneOf(f, p, S) => p + 1 \in 1..Len(f.chars) /\ ~AtEnd(f, p)
<1>1. Len(f.chars) \in Nat /\ \A i \in 1..Len(f.chars) : f.chars[i] \in Characters
  BY SeqIsFunction DEF IsText
<1>2. \A p \in 0..Len(f.chars) : ~AtEnd(f, p) => p + 1 \in 1..Len(f.chars)
  BY <1>1 DEF AtEnd
<1>3. QED
  BY <1>1, <1>2 DEF Next1, SeesOneOf

\* A longest run of characters ends somewhere.
LEMMA PastIs ==
  ASSUME NEW f, IsText(f), NEW p \in 0..Len(f.chars), NEW S
  PROVE  /\ Past(f, p, S) \in p..Len(f.chars) /\ Past(f, p, S) \in 0..Len(f.chars)
         /\ \A i \in (p + 1)..Past(f, p, S) : f.chars[i] \in S
         /\ ~SeesOneOf(f, Past(f, p, S), S)
<1> DEFINE n == Len(f.chars)
           Ends(q) == (\A i \in (p + 1)..q : f.chars[i] \in S) /\ ~SeesOneOf(f, q, S)
           T == {m \in Nat : \A q \in p..n : q = n - m /\ (\A i \in (p + 1)..q : f.chars[i] \in S)
                                              => \E r \in p..n : Ends(r)}
<1>0. n \in Nat
  BY PlaceIs
<1>1. 0 \in T
  <2>1. ~SeesOneOf(f, n, S)
    BY DEF SeesOneOf, AtEnd
  <2>2. QED
    BY <1>0, <2>1
<1>2. ASSUME NEW m \in Nat, m \in T PROVE m + 1 \in T
  <2> SUFFICES ASSUME NEW q \in p..n, q = n - (m + 1), \A i \in (p + 1)..q : f.chars[i] \in S
               PROVE \E r \in p..n : Ends(r)
    OBVIOUS
  <2>1. CASE ~SeesOneOf(f, q, S)
    BY <2>1
  <2>2. CASE SeesOneOf(f, q, S)
    <3>1. f.chars[q + 1] \in S
      BY <2>2 DEF SeesOneOf, Next1
    <3>2. q + 1 \in p..n /\ q + 1 = n - m
      BY <1>0
    <3>3. ASSUME NEW i \in (p + 1)..(q + 1) PROVE f.chars[i] \in S
      <4>1. CASE i = q + 1
        BY <3>1, <4>1
      <4>2. CASE i # q + 1
        <5>1. p \in Int /\ q \in Int /\ i \in Int /\ p + 1 <= i /\ i <= q + 1
          BY <1>0
        <5>2. i \in (p + 1)..q
          BY <4>2, <5>1
        <5>3. QED
          BY <5>2
      <4>3. QED
        BY <4>1, <4>2
    <3>4. \A i \in (p + 1)..(q + 1) : f.chars[i] \in S
      BY <3>3
    <3> HIDE DEF Ends
    <3>5. QED
      BY <1>2, <3>2, <3>4
  <2>3. QED
    BY <2>1, <2>2
<1>3. n - p \in T
  <2> HIDE DEF T
  <2>1. n - p \in Nat
    BY <1>0
  <2>2. QED
    BY <1>1, <1>2, <2>1, AllNumbers
<1>4. \E r \in p..n : Ends(r)
  <2>1. p \in p..n /\ p = n - (n - p) /\ \A i \in (p + 1)..p : f.chars[i] \in S
    BY <1>0
  <2> HIDE DEF Ends
  <2>2. QED
    BY <1>3, <2>1
<1>5. Past(f, p, S) = CHOOSE r \in p..n : Ends(r)
  BY DEF Past
<1>6. Past(f, p, S) \in p..n /\ Ends(Past(f, p, S))
  <2> HIDE DEF Ends
  <2>1. QED
    BY <1>4, <1>5
<1>7. QED
  BY <1>0, <1>6

\* What a function of the parser returns.
Results(f, N, p) ==
  {Nothing, Aborted} \cup [how : {"node"}, node : N, p : p..Len(f.chars), looked : BOOLEAN]

\* The kinds of results.
LEMMA ResultIs ==
  ASSUME NEW f, NEW N, NEW p, NEW r \in Results(f, N, p)
  PROVE  /\ r.how \in {"node", "none", "aborted"}
         /\ r.how = "node" => r.node \in N /\ r.p \in p..Len(f.chars) /\ r.looked \in BOOLEAN
BY DEF Results, Nothing, Aborted

\* Results built of nodes.
LEMMA BuiltResult ==
  ASSUME NEW f, NEW N, NEW p
  PROVE  /\ Nothing \in Results(f, N, p) /\ Aborted \in Results(f, N, p)
         /\ \A x \in N, q \in p..Len(f.chars), b \in BOOLEAN : Read(x, q, b) \in Results(f, N, p)
BY DEF Results, Read

\* A result that is made into another.
LEMMA MadeType ==
  ASSUME NEW f, NEW N, NEW M, NEW p \in Int, NEW q \in Int, p <= q, NEW r \in Results(f, N, q), NEW x,
         Len(f.chars) \in Nat, r.how = "node" => x \in M
  PROVE  Made(r, x) \in Results(f, M, p)
<1>1. CASE r.how # "node"
  <2>1. Made(r, x) = r /\ r \in {Nothing, Aborted}
    BY <1>1 DEF Made, Results
  <2>2. QED
    BY <2>1 DEF Results
<1>2. CASE r.how = "node"
  <2>1. r \in [how : {"node"}, node : N, p : q..Len(f.chars), looked : BOOLEAN]
    BY <1>2 DEF Results, Nothing, Aborted
  <2>2. q..Len(f.chars) \subseteq p..Len(f.chars)
    OBVIOUS
  <2>3. Made(r, x) = [how |-> "node", node |-> x, p |-> r.p, looked |-> r.looked]
    BY <1>2, <2>1 DEF Made
  <2>4. QED
    BY <1>2, <2>1, <2>2, <2>3 DEF Results
<1>3. QED
  BY <1>1, <1>2

\* A character, or one that is escaped.
LEMMA CharacterType ==
  ASSUME NEW f, IsText(f), NEW p \in 0..Len(f.chars)
  PROVE  read_utf8char(f, p) \in Results(f, Characters, p + 1) /\ read_utf8char(f, p).how # "aborted"
<1>0. Len(f.chars) \in Nat
  BY PlaceIs
<1>1. CASE AtEnd(f, p)
  BY <1>1, BuiltResult DEF read_utf8char, Nothing
<1>2. CASE ~AtEnd(f, p) /\ Next1(f, p) # STRING_ESCAPE_CHAR
  <2>1. read_utf8char(f, p) = Read(Next1(f, p), p + 1, FALSE)
    BY <1>2 DEF read_utf8char
  <2>2. Next1(f, p) \in Characters /\ p + 1 \in (p + 1)..Len(f.chars)
    BY <1>0, <1>2, PlaceIs
  <2>3. Read(Next1(f, p), p + 1, FALSE) \in Results(f, Characters, p + 1)
    BY <2>2, BuiltResult
  <2>4. QED
    BY <2>1, <2>3 DEF Read
<1>3. CASE ~AtEnd(f, p) /\ Next1(f, p) = STRING_ESCAPE_CHAR /\ SeesOneOf(f, p + 1, Escapes)
  <2>1. read_utf8char(f, p) = Read(Unescaped(Next1(f, p + 1)), p + 2, FALSE)
    BY <1>3 DEF read_utf8char
  <2>2. p + 1 \in 0..Len(f.chars)
    BY <1>0, <1>3, PlaceIs
  <2>3. p + 2 \in (p + 1)..Len(f.chars)
    BY <1>0, <1>3, <2>2, PlaceIs
  <2>4. Next1(f, p + 1) \in Escapes
    BY <1>3 DEF SeesOneOf
  <2>5. \A c \in Escapes : Unescaped(c) \in Characters
    BY DEF Escapes, Unescaped, Characters, SPECIAL_CHARS, Controls, Blanks, STRING_ESCAPE_CHAR, STRING_QUOTE_CHAR
  <2>6. Read(Unescaped(Next1(f, p + 1)), p + 2, FALSE) \in Results(f, Characters, p + 1)
    BY <2>3, <2>4, <2>5, BuiltResult
  <2>7. QED
    BY <2>1, <2>6 DEF Read
<1>4. CASE ~AtEnd(f, p) /\ Next1(f, p) = STRING_ESCAPE_CHAR /\ ~SeesOneOf(f, p + 1, Escapes)
  BY <1>4, BuiltResult DEF read_utf8char, Nothing
<1>5. QED
  BY <1>1, <1>2, <1>3, <1>4

\* Part of a text.
LEMMA PartOfText ==
  ASSUME NEW f, IsText(f), NEW m \in Nat \ {0}, NEW n \in 0..Len(f.chars)
  PROVE  SubSeq(f.chars, m, n) \in Seq(Characters)
<1>1. \A i \in m..n : f.chars[i] \in Characters
  BY PlaceIs
<1>2. QED
  BY <1>1, SubSeqProperties

\* A number.
LEMMA NumberType ==
  ASSUME Nestings = Nat, NEW f, IsText(f), NEW p \in 0..Len(f.chars), ~AtEnd(f, p)
  PROVE  read_num(f, p) \in Results(f, Trees, p + 1)
<1> DEFINE n == Len(f.chars)
           start == IF SeesOneOf(f, p, Signs) THEN p + 1 ELSE p
           whole == IF SeesOneOf(f, start, {"0"}) THEN start + 1 ELSE Past(f, start, Digits)
           end == IF SeesOneOf(f, whole, {"."}) THEN Past(f, whole + 1, Digits) ELSE whole
           first == IF Next1(f, p) = "+" THEN p + 2 ELSE p + 1
<1>0. n \in Nat /\ p + 1 \in 1..n
  BY PlaceIs
<1>1. start \in p..n /\ start \in 0..n
  BY <1>0
<1>2. whole \in start..n /\ whole \in 0..n
  <2>1. CASE SeesOneOf(f, start, {"0"})
    <3> HIDE DEF start
    <3>1. start + 1 \in 1..n
      BY <1>1, <2>1, PlaceIs
    <3>2. QED
      BY <1>0, <1>1, <2>1, <3>1
  <2>2. CASE ~SeesOneOf(f, start, {"0"})
    <3> HIDE DEF start
    <3>1. QED
      BY <1>1, <2>2, PastIs
  <2>3. QED
    BY <2>1, <2>2
<1>3. end \in whole..n
  <2>1. CASE SeesOneOf(f, whole, {"."})
    <3> HIDE DEF whole
    <3>1. whole + 1 \in 0..n
      BY <1>0, <1>2, <2>1, PlaceIs
    <3>2. Past(f, whole + 1, Digits) \in (whole + 1)..n
      BY <3>1, PastIs
    <3>3. QED
      BY <1>0, <1>2, <2>1, <3>1, <3>2
  <2>2. CASE ~SeesOneOf(f, whole, {"."})
    <3> HIDE DEF whole
    <3>1. QED
      BY <1>0, <1>2, <2>2
  <2>3. QED
    BY <2>1, <2>2
<1>4. first \in Nat \ {0}
  BY <1>0
<1>5. read_num(f, p) = IF whole = start \/ end = whole + 1 THEN Nothing
                       ELSE Read(NumLeaf(SubSeq(f.chars, first, end)), end, TRUE)
  BY DEF read_num
<1> HIDE DEF start, whole, end, first
<1>6. CASE whole = start \/ end = whole + 1
  BY <1>5, <1>6, BuiltResult
<1>7. CASE ~(whole = start \/ end = whole + 1)
  <2>1. end \in (p + 1)..n /\ end \in 0..n
    BY <1>0, <1>1, <1>2, <1>3, <1>7
  <2>2. SubSeq(f.chars, first, end) \in Seq(Characters)
    BY <1>4, <2>1, PartOfText
  <2>3. NumLeaf(SubSeq(f.chars, first, end)) \in Trees
    BY <2>2, BuiltTrees
  <2>4. QED
    BY <1>5, <1>7, <2>1, <2>3, BuiltResult
<1>8. QED
  BY <1>6, <1>7

\* A symbol.
LEMMA SymbolType ==
  ASSUME Nestings = Nat, NEW f, IsText(f), NEW p \in 0..Len(f.chars)
  PROVE  read_sym(f, p) \in Results(f, Trees, p + 1)
<1> DEFINE n == Len(f.chars)
           end == Past(f, p, {c \in Characters : is_symbol_char(c)})
<1>0. n \in Nat
  BY PlaceIs
<1>1. end \in p..n /\ end \in 0..n
  BY PastIs
<1>2. read_sym(f, p) = IF end = p THEN Nothing ELSE Read(SymLeaf(SubSeq(f.chars, p + 1, end)), end, TRUE)
  BY DEF read_sym
<1> HIDE DEF end
<1>3. CASE end = p
  BY <1>2, <1>3, BuiltResult
<1>4. CASE end # p
  <2>1. end \in (p + 1)..n /\ p + 1 \in Nat \ {0}
    BY <1>0, <1>1, <1>4
  <2>2. SubSeq(f.chars, p + 1, end) \in Seq(Characters)
    BY <1>1, <2>1, PartOfText
  <2>3. SymLeaf(SubSeq(f.chars, p + 1, end)) \in Trees
    BY <2>2, BuiltTrees DEF Names
  <2>4. QED
    BY <1>2, <1>4, <2>1, <2>3, BuiltResult
<1>5. QED
  BY <1>3, <1>4

-----------------------------------------------------------------------------
(* The functions of the parser that call each other.                       *)

\* What the functions and the loops make, and what they consume at least.
Functions == {"expr"} \cup Loops
\* What they read, and where they are then at least.
MadeOf(what) == IF what = "expr" THEN Trees ELSE IF what = "string" THEN Seq(Characters) ELSE Seq(Trees)
EndFrom(what, p) == IF what = "run" THEN p ELSE p + 1
ResultsOf(f, what, p) == Results(f, MadeOf(what), EndFrom(what, p))

\* What is read further on has its types; two readings agree further on.
ReadsFrom(f, read, p) == \A what \in Functions : \A q \in (p + 1)..Len(f.chars) : read[what][q] \in ResultsOf(f, what, q)
AgreeFrom(f, read, other, p) == \A what \in Functions : \A q \in (p + 1)..Len(f.chars) : other[what][q] = read[what][q]

\* What each of them gives further on.
LEMMA ReadIs ==
  ASSUME NEW f, NEW read, NEW p, ReadsFrom(f, read, p), NEW q \in (p + 1)..Len(f.chars)
  PROVE  /\ read["expr"][q] \in Results(f, Trees, q + 1)
         /\ read["string"][q] \in Results(f, Seq(Characters), q + 1)
         /\ read["run"][q] \in Results(f, Seq(Trees), q)
         /\ \A close \in {CLOSE_TUPLE_CHAR, CLOSE_APPLY_CHAR} : read[close][q] \in Results(f, Seq(Trees), q + 1)
<1>1. \A what \in Functions : read[what][q] \in Results(f, MadeOf(what), EndFrom(what, q))
  BY DEF ReadsFrom, ResultsOf
<1>2. QED
  BY <1>1 DEF Functions, Loops, MadeOf, EndFrom, CLOSE_TUPLE_CHAR, CLOSE_APPLY_CHAR

\* What two functions that agree have read.
LEMMA SameIs ==
  ASSUME NEW f, NEW read, NEW other, NEW p, AgreeFrom(f, read, other, p), NEW q \in (p + 1)..Len(f.chars)
  PROVE  /\ other["expr"][q] = read["expr"][q] /\ other["string"][q] = read["string"][q]
         /\ other["run"][q] = read["run"][q]
         /\ \A close \in {CLOSE_TUPLE_CHAR, CLOSE_APPLY_CHAR} : other[close][q] = read[close][q]
BY DEF AgreeFrom, Functions, Loops, CLOSE_TUPLE_CHAR, CLOSE_APPLY_CHAR

\* Something read in front of a sequence.
LEMMA InFrontType ==
  ASSUME NEW f, Len(f.chars) \in Nat, NEW S, NEW p \in Int, NEW q \in Int, p <= q,
         NEW x \in S, NEW rest \in Results(f, Seq(S), q)
  PROVE  InFront(x, rest) \in Results(f, Seq(S), p)
<1>1. rest.how = "node" => <<x>> \o rest.node \in Seq(S)
  <2> SUFFICES ASSUME rest.how = "node" PROVE <<x>> \o rest.node \in Seq(S)
    OBVIOUS
  <2>1. rest.node \in Seq(S)
    BY ResultIs
  <2>2. <<x>> \in Seq(S)
    OBVIOUS
  <2>3. QED
    BY <2>1, <2>2, ConcatProperties
<1>2. QED
  BY <1>1, MadeType DEF InFront

\* The rest of a string.
LEMMA StringStep ==
  ASSUME NEW f, IsText(f), NEW read, NEW p \in 0..Len(f.chars), ReadsFrom(f, read, p)
  PROVE  /\ read_str(f, read, p) \in Results(f, Seq(Characters), p + 1)
         /\ \A other : AgreeFrom(f, read, other, p) => read_str(f, other, p) = read_str(f, read, p)
<1> DEFINE c == read_utf8char(f, p)
<1>0. Len(f.chars) \in Nat
  BY PlaceIs
<1>1. c \in Results(f, Characters, p + 1) /\ c.how # "aborted"
  BY CharacterType
<1>2. \A r : read_str(f, r, p) = IF c.how = "none" THEN Nothing
                                 ELSE IF c.node = STRING_QUOTE_CHAR THEN Read(<<>>, c.p, FALSE)
                                 ELSE InFront(c.node, r["string"][c.p])
  BY DEF read_str
<1> HIDE DEF c
<1>3. CASE c.how = "none"
  BY <1>2, <1>3, BuiltResult
<1>4. CASE c.how # "none"
  <2>1. c.node \in Characters /\ c.p \in (p + 1)..Len(f.chars) /\ c.how = "node"
    BY <1>1, <1>4, ResultIs
  <2>2. CASE c.node = STRING_QUOTE_CHAR
    <3>1. <<>> \in Seq(Characters)
      OBVIOUS
    <3>2. QED
      BY <1>2, <1>4, <2>1, <2>2, <3>1, BuiltResult
  <2>3. CASE c.node # STRING_QUOTE_CHAR
    <3>1. read["string"][c.p] \in Results(f, Seq(Characters), c.p + 1)
      BY <2>1, ReadIs
    <3>2. c.p + 1 \in Int /\ p + 1 \in Int /\ p + 1 <= c.p + 1
      BY <1>0, <2>1
    <3>3. InFront(c.node, read["string"][c.p]) \in Results(f, Seq(Characters), p + 1)
      BY <1>0, <2>1, <3>1, <3>2, InFrontType
    <3>4. \A other : AgreeFrom(f, read, other, p) => other["string"][c.p] = read["string"][c.p]
      BY <2>1, SameIs
    <3>5. QED
      BY <1>2, <1>4, <2>3, <3>3, <3>4
  <2>4. QED
    BY <2>2, <2>3
<1>5. QED
  BY <1>3, <1>4

\* An expression.
LEMMA ExprStep ==
  ASSUME Nestings = Nat, NEW f, IsText(f), NEW read, NEW p \in 0..Len(f.chars), ReadsFrom(f, read, p)
  PROVE  /\ read_expr(f, read, p) \in Results(f, Trees, p + 1)
         /\ \A other : AgreeFrom(f, read, other, p) => read_expr(f, other, p) = read_expr(f, read, p)
<1>0. Len(f.chars) \in Nat
  BY PlaceIs
<1>1. CASE AtEnd(f, p)
  <2>1. \A r : read_expr(f, r, p) = Nothing
    BY <1>1 DEF read_expr, SeesOneOf
  <2>2. QED
    BY <2>1, BuiltResult
<1>2. CASE ~AtEnd(f, p)
  <2> DEFINE q == p + 1
             c == Next1(f, p)
  <2>1. q \in (p + 1)..Len(f.chars) /\ q \in 0..Len(f.chars) /\ q + 1 \in Int /\ p + 1 <= q + 1 /\ p + 1 <= q
    BY <1>0, <1>2, PlaceIs
  <2>2. /\ SeesOneOf(f, p, {OPEN_TUPLE_CHAR}) <=> c = OPEN_TUPLE_CHAR
        /\ SeesOneOf(f, p, {OPEN_APPLY_CHAR}) <=> c = OPEN_APPLY_CHAR
        /\ SeesOneOf(f, p, {STRING_QUOTE_CHAR}) <=> c = STRING_QUOTE_CHAR
        /\ SeesOneOf(f, p, {UTFCHAR_PREFIX}) <=> c = UTFCHAR_PREFIX
        /\ SeesOneOf(f, p, Signs \cup Digits) <=> c \in Signs \cup Digits
        /\ SeesOneOf(f, p, {QUOTE_CHAR}) <=> c = QUOTE_CHAR
    BY <1>2 DEF SeesOneOf
  <2>3. CASE c = OPEN_TUPLE_CHAR
    <3>0. /\ SeesOneOf(f, p, {OPEN_TUPLE_CHAR})
          /\ ~SeesOneOf(f, p, {OPEN_APPLY_CHAR})
          /\ ~SeesOneOf(f, p, {STRING_QUOTE_CHAR})
          /\ ~SeesOneOf(f, p, {UTFCHAR_PREFIX})
          /\ ~SeesOneOf(f, p, Signs \cup Digits)
          /\ ~SeesOneOf(f, p, {QUOTE_CHAR})
      BY <2>2, <2>3 DEF OPEN_TUPLE_CHAR, OPEN_APPLY_CHAR, STRING_QUOTE_CHAR, UTFCHAR_PREFIX, Signs, Digits, QUOTE_CHAR
    <3>1. \A r : read_expr(f, r, p) = Made(r[CLOSE_TUPLE_CHAR][q], TupleNode(r[CLOSE_TUPLE_CHAR][q].node))
      BY <1>2, <3>0 DEF read_expr
    <3> HIDE DEF q, c
    <3> DEFINE r == read[CLOSE_TUPLE_CHAR][q]
    <3>2. r \in Results(f, Seq(Trees), q + 1)
      BY <2>1, ReadIs
    <3>3. r.how = "node" => TupleNode(r.node) \in Trees
      BY <3>2, ResultIs, BuiltTrees
    <3> HIDE DEF r
    <3>4. Made(r, TupleNode(r.node)) \in Results(f, Trees, p + 1)
      BY <1>0, <2>1, <3>2, <3>3, MadeType
    <3>5. \A other : AgreeFrom(f, read, other, p) => other[CLOSE_TUPLE_CHAR][q] = r
      BY <2>1, SameIs DEF r
    <3>6. QED
      BY <3>1, <3>4, <3>5 DEF r
  <2>4. CASE c = OPEN_APPLY_CHAR
    <3>0. /\ ~SeesOneOf(f, p, {OPEN_TUPLE_CHAR})
          /\ SeesOneOf(f, p, {OPEN_APPLY_CHAR})
          /\ ~SeesOneOf(f, p, {STRING_QUOTE_CHAR})
          /\ ~SeesOneOf(f, p, {UTFCHAR_PREFIX})
          /\ ~SeesOneOf(f, p, Signs \cup Digits)
          /\ ~SeesOneOf(f, p, {QUOTE_CHAR})
      BY <2>2, <2>4 DEF OPEN_TUPLE_CHAR, OPEN_APPLY_CHAR, STRING_QUOTE_CHAR, UTFCHAR_PREFIX, Signs, Digits, QUOTE_CHAR
    <3>1. \A r : read_expr(f, r, p) =
                   IF r[CLOSE_APPLY_CHAR][q].how = "node" /\ r[CLOSE_APPLY_CHAR][q].node = <<>> THEN Nothing
                   ELSE Made(r[CLOSE_APPLY_CHAR][q],
                             ApplyNode(Head(r[CLOSE_APPLY_CHAR][q].node), Tail(r[CLOSE_APPLY_CHAR][q].node)))
      BY <1>2, <3>0 DEF read_expr
    <3> HIDE DEF q, c
    <3> DEFINE r == read[CLOSE_APPLY_CHAR][q]
    <3>2. r \in Results(f, Seq(Trees), q + 1)
      BY <2>1, ReadIs
    <3>3. \A other : AgreeFrom(f, read, other, p) => other[CLOSE_APPLY_CHAR][q] = r
      BY <2>1, SameIs DEF r
    <3>4. read_expr(f, read, p) = IF r.how = "node" /\ r.node = <<>> THEN Nothing
                                  ELSE Made(r, ApplyNode(Head(r.node), Tail(r.node)))
      BY <3>1
    <3>5. \A other : AgreeFrom(f, read, other, p) => read_expr(f, other, p) = read_expr(f, read, p)
      BY <3>1, <3>3
    <3> HIDE DEF r
    <3>6. r.how = "node" /\ r.node # <<>> => ApplyNode(Head(r.node), Tail(r.node)) \in Trees
      <4> SUFFICES ASSUME r.how = "node", r.node # <<>> PROVE ApplyNode(Head(r.node), Tail(r.node)) \in Trees
        OBVIOUS
      <4>1. r.node \in Seq(Trees)
        BY <3>2, ResultIs
      <4>2. Head(r.node) \in Trees /\ Tail(r.node) \in Seq(Trees)
        BY <4>1, HeadTailProperties
      <4>3. QED
        BY <4>2, BuiltTrees
    <3>7. CASE r.how = "node" /\ r.node = <<>>
      BY <3>4, <3>5, <3>7, BuiltResult
    <3>8. CASE ~(r.how = "node" /\ r.node = <<>>)
      <4>1. Made(r, ApplyNode(Head(r.node), Tail(r.node))) \in Results(f, Trees, p + 1)
        BY <1>0, <2>1, <3>2, <3>6, <3>8, MadeType
      <4>2. QED
        BY <3>4, <3>5, <3>8, <4>1
    <3>9. QED
      BY <3>7, <3>8
  <2>5. CASE c = STRING_QUOTE_CHAR
    <3>0. /\ ~SeesOneOf(f, p, {OPEN_TUPLE_CHAR})
          /\ ~SeesOneOf(f, p, {OPEN_APPLY_CHAR})
          /\ SeesOneOf(f, p, {STRING_QUOTE_CHAR})
          /\ ~SeesOneOf(f, p, {UTFCHAR_PREFIX})
          /\ ~SeesOneOf(f, p, Signs \cup Digits)
          /\ ~SeesOneOf(f, p, {QUOTE_CHAR})
      BY <2>2, <2>5 DEF OPEN_TUPLE_CHAR, OPEN_APPLY_CHAR, STRING_QUOTE_CHAR, UTFCHAR_PREFIX, Signs, Digits, QUOTE_CHAR
    <3>1. \A r : read_expr(f, r, p) = Made(r["string"][q], StrNode(r["string"][q].node))
      BY <1>2, <3>0 DEF read_expr
    <3> HIDE DEF q, c
    <3> DEFINE r == read["string"][q]
    <3>2. r \in Results(f, Seq(Characters), q + 1)
      BY <2>1, ReadIs
    <3>3. r.how = "node" => StrNode(r.node) \in Trees
      BY <3>2, ResultIs, BuiltTrees
    <3> HIDE DEF r
    <3>4. Made(r, StrNode(r.node)) \in Results(f, Trees, p + 1)
      BY <1>0, <2>1, <3>2, <3>3, MadeType
    <3>5. \A other : AgreeFrom(f, read, other, p) => other["string"][q] = r
      BY <2>1, SameIs DEF r
    <3>6. QED
      BY <3>1, <3>4, <3>5 DEF r
  <2>6. CASE c = UTFCHAR_PREFIX
    <3>0. /\ ~SeesOneOf(f, p, {OPEN_TUPLE_CHAR})
          /\ ~SeesOneOf(f, p, {OPEN_APPLY_CHAR})
          /\ ~SeesOneOf(f, p, {STRING_QUOTE_CHAR})
          /\ SeesOneOf(f, p, {UTFCHAR_PREFIX})
          /\ ~SeesOneOf(f, p, Signs \cup Digits)
          /\ ~SeesOneOf(f, p, {QUOTE_CHAR})
      BY <2>2, <2>6 DEF OPEN_TUPLE_CHAR, OPEN_APPLY_CHAR, STRING_QUOTE_CHAR, UTFCHAR_PREFIX, Signs, Digits, QUOTE_CHAR
    <3> DEFINE r == read_utf8char(f, q)
    <3>1. \A s : read_expr(f, s, p) = Made(r, CharLeaf(r.node))
      BY <1>2, <3>0 DEF read_expr
    <3> HIDE DEF q, c
    <3>2. r \in Results(f, Characters, q + 1)
      BY <2>1, CharacterType
    <3>3. r.how = "node" => CharLeaf(r.node) \in Trees
      BY <3>2, ResultIs, BuiltTrees
    <3> HIDE DEF r
    <3>4. Made(r, CharLeaf(r.node)) \in Results(f, Trees, p + 1)
      BY <1>0, <2>1, <3>2, <3>3, MadeType
    <3>5. QED
      BY <3>1, <3>4
  <2>7. CASE c \in Signs \cup Digits
    <3>0. /\ ~SeesOneOf(f, p, {OPEN_TUPLE_CHAR})
          /\ ~SeesOneOf(f, p, {OPEN_APPLY_CHAR})
          /\ ~SeesOneOf(f, p, {STRING_QUOTE_CHAR})
          /\ ~SeesOneOf(f, p, {UTFCHAR_PREFIX})
          /\ SeesOneOf(f, p, Signs \cup Digits)
          /\ ~SeesOneOf(f, p, {QUOTE_CHAR})
      BY <2>2, <2>7 DEF OPEN_TUPLE_CHAR, OPEN_APPLY_CHAR, STRING_QUOTE_CHAR, UTFCHAR_PREFIX, Signs, Digits, QUOTE_CHAR
    <3>1. \A r : read_expr(f, r, p) = read_num(f, p)
      BY <1>2, <3>0 DEF read_expr
    <3>2. QED
      BY <1>2, <3>1, NumberType
  <2>8. CASE c = QUOTE_CHAR
    <3>0. /\ ~SeesOneOf(f, p, {OPEN_TUPLE_CHAR})
          /\ ~SeesOneOf(f, p, {OPEN_APPLY_CHAR})
          /\ ~SeesOneOf(f, p, {STRING_QUOTE_CHAR})
          /\ ~SeesOneOf(f, p, {UTFCHAR_PREFIX})
          /\ ~SeesOneOf(f, p, Signs \cup Digits)
          /\ SeesOneOf(f, p, {QUOTE_CHAR})
      BY <2>2, <2>8 DEF OPEN_TUPLE_CHAR, OPEN_APPLY_CHAR, STRING_QUOTE_CHAR, UTFCHAR_PREFIX, Signs, Digits, QUOTE_CHAR
    <3>1. \A r : read_expr(f, r, p) = Made(r["expr"][q], QuoteNode(r["expr"][q].node))
      BY <1>2, <3>0 DEF read_expr
    <3> HIDE DEF q, c
    <3> DEFINE r == read["expr"][q]
    <3>2. r \in Results(f, Trees, q + 1)
      BY <2>1, ReadIs
    <3>3. r.how = "node" => QuoteNode(r.node) \in Trees
      BY <3>2, ResultIs, BuiltTrees
    <3> HIDE DEF r
    <3>4. Made(r, QuoteNode(r.node)) \in Results(f, Trees, p + 1)
      BY <1>0, <2>1, <3>2, <3>3, MadeType
    <3>5. \A other : AgreeFrom(f, read, other, p) => other["expr"][q] = r
      BY <2>1, SameIs DEF r
    <3>6. QED
      BY <3>1, <3>4, <3>5 DEF r
  <2>9. CASE c \notin {OPEN_TUPLE_CHAR, OPEN_APPLY_CHAR, STRING_QUOTE_CHAR, UTFCHAR_PREFIX, QUOTE_CHAR} \cup Signs \cup Digits
    <3>1. \A r : read_expr(f, r, p) = read_sym(f, p)
      BY <1>2, <2>2, <2>9 DEF read_expr
    <3>2. QED
      BY <3>1, SymbolType
  <2>10. QED
    BY <2>3, <2>4, <2>5, <2>6, <2>7, <2>8, <2>9
<1>3. QED
  BY <1>1, <1>2

\* What is read further on, further on.
LEMMA ReadsOn ==
  ASSUME NEW f, NEW read, NEW p \in Int, NEW q \in Int, p <= q, Len(f.chars) \in Nat
  PROVE  /\ ReadsFrom(f, read, p) => ReadsFrom(f, read, q)
         /\ \A other : AgreeFrom(f, read, other, p) => AgreeFrom(f, read, other, q)
<1>1. \A k \in (q + 1)..Len(f.chars) : k \in (p + 1)..Len(f.chars)
  OBVIOUS
<1>2. QED
  BY <1>1 DEF ReadsFrom, AgreeFrom

\* The items of a loop, and the expression they begin with.
LEMMA ItemIs ==
  ASSUME Nestings = Nat, NEW f, IsText(f), NEW read, NEW p \in 0..Len(f.chars), ReadsFrom(f, read, p),
         NEW q, q = skip_whitespace(f, p)
  PROVE  /\ q \in p..Len(f.chars) /\ q \in 0..Len(f.chars)
         /\ read_expr(f, read, q) \in Results(f, Trees, p + 1)
         /\ \A other : AgreeFrom(f, read, other, p) => read_expr(f, other, q) = read_expr(f, read, q)
<1>0. Len(f.chars) \in Nat
  BY PlaceIs
<1>1. q \in p..Len(f.chars) /\ q \in 0..Len(f.chars)
  BY PastIs DEF skip_whitespace
<1>2. p \in Int /\ q \in Int /\ p <= q
  BY <1>0, <1>1
<1>3. ReadsFrom(f, read, q) /\ \A other : AgreeFrom(f, read, other, p) => AgreeFrom(f, read, other, q)
  BY <1>0, <1>2, ReadsOn
<1>4. /\ read_expr(f, read, q) \in Results(f, Trees, q + 1)
      /\ \A other : AgreeFrom(f, read, other, q) => read_expr(f, other, q) = read_expr(f, read, q)
  BY <1>1, <1>3, ExprStep
<1>5. (q + 1)..Len(f.chars) \subseteq (p + 1)..Len(f.chars)
  BY <1>0, <1>2
<1>6. read_expr(f, read, q) \in Results(f, Trees, p + 1)
  BY <1>4, <1>5 DEF Results
<1>7. QED
  BY <1>1, <1>3, <1>4, <1>6

\* The rest of a tuple or of an application.
LEMMA TupleStep ==
  ASSUME Nestings = Nat, NEW f, IsText(f), NEW read, NEW p \in 0..Len(f.chars), ReadsFrom(f, read, p),
         NEW close \in {CLOSE_TUPLE_CHAR, CLOSE_APPLY_CHAR}
  PROVE  /\ read_tuple_to_vector(f, read, close, p) \in Results(f, Seq(Trees), p + 1)
         /\ \A other : AgreeFrom(f, read, other, p) =>
              read_tuple_to_vector(f, other, close, p) = read_tuple_to_vector(f, read, close, p)
<1> DEFINE q == skip_whitespace(f, p)
           item == read_expr(f, read, q)
           R(t, i) == IF AtEnd(f, q) THEN Nothing
                      ELSE IF Next1(f, q) = close THEN Read(<<>>, q + 1, FALSE)
                      ELSE IF i.how # "node" THEN i
                      ELSE IF ~Buffered(f, i) THEN Aborted
                      ELSE IF ~SeesOneOf(f, i.p, {close} \cup Blanks) THEN Nothing
                      ELSE InFront(i.node, t[close][i.p])
<1>0. Len(f.chars) \in Nat
  BY PlaceIs
<1>1. /\ q \in p..Len(f.chars) /\ q \in 0..Len(f.chars)
      /\ item \in Results(f, Trees, p + 1)
      /\ \A other : AgreeFrom(f, read, other, p) => read_expr(f, other, q) = item
  BY ItemIs
<1>2. \A t : read_tuple_to_vector(f, t, close, p) = R(t, read_expr(f, t, q))
  BY DEF read_tuple_to_vector
<1>3. item.how = "node" => item.node \in Trees /\ item.p \in (p + 1)..Len(f.chars)
  BY <1>1, ResultIs
<1>4. ASSUME NEW other, AgreeFrom(f, read, other, p) PROVE R(other, item) = R(read, item)
  <2> HIDE DEF item, q
  <2>1. CASE item.how = "node"
    <3>1. other[close][item.p] = read[close][item.p]
      BY <1>3, <1>4, <2>1, SameIs
    <3>2. QED
      BY <3>1
  <2>2. CASE item.how # "node"
    BY <2>2
  <2>3. QED
    BY <2>1, <2>2
<1>5. R(read, item) \in Results(f, Seq(Trees), p + 1)
  <2> HIDE DEF item, q
  <2>1. CASE AtEnd(f, q)
    BY <2>1, BuiltResult
  <2>2. CASE ~AtEnd(f, q) /\ Next1(f, q) = close
    <3>1. q + 1 \in (p + 1)..Len(f.chars)
      BY <1>0, <1>1, <2>2, PlaceIs
    <3>2. <<>> \in Seq(Trees)
      OBVIOUS
    <3>3. Read(<<>>, q + 1, FALSE) \in Results(f, Seq(Trees), p + 1)
      BY <3>1, <3>2, BuiltResult
    <3>4. QED
      BY <2>2, <3>3
  <2>3. CASE ~AtEnd(f, q) /\ Next1(f, q) # close /\ item.how # "node"
    <3>1. item \in {Nothing, Aborted}
      BY <1>1, <2>3 DEF Results
    <3>2. item \in Results(f, Seq(Trees), p + 1)
      BY <3>1, BuiltResult
    <3>3. QED
      BY <2>3, <3>2
  <2>4. CASE ~AtEnd(f, q) /\ Next1(f, q) # close /\ item.how = "node"
    <3>1. read[close][item.p] \in Results(f, Seq(Trees), item.p + 1)
      BY <1>3, <2>4, ReadIs
    <3>2. item.p + 1 \in Int /\ p + 1 \in Int /\ p + 1 <= item.p + 1
      BY <1>0, <1>3, <2>4
    <3>3. InFront(item.node, read[close][item.p]) \in Results(f, Seq(Trees), p + 1)
      BY <1>0, <1>3, <2>4, <3>1, <3>2, InFrontType
    <3>4. QED
      BY <2>4, <3>3, BuiltResult
  <2>5. QED
    BY <2>1, <2>2, <2>3, <2>4
<1> HIDE DEF R, item, q
<1>6. ASSUME NEW other, AgreeFrom(f, read, other, p)
      PROVE  read_tuple_to_vector(f, other, close, p) = read_tuple_to_vector(f, read, close, p)
  <2>1. read_expr(f, other, q) = item /\ read_expr(f, read, q) = item
    BY <1>1, <1>6 DEF item
  <2>2. QED
    BY <1>2, <1>4, <1>6, <2>1
<1>7. read_tuple_to_vector(f, read, close, p) \in Results(f, Seq(Trees), p + 1)
  BY <1>2, <1>5 DEF item
<1>8. QED
  BY <1>6, <1>7

\* The rest of a file.
LEMMA RunStep ==
  ASSUME Nestings = Nat, NEW f, IsText(f), NEW read, NEW p \in 0..Len(f.chars), ReadsFrom(f, read, p)
  PROVE  /\ run(f, read, p) \in Results(f, Seq(Trees), p)
         /\ \A other : AgreeFrom(f, read, other, p) => run(f, other, p) = run(f, read, p)
<1> DEFINE q == skip_whitespace(f, p)
           item == read_expr(f, read, q)
           R(t, i) == IF AtEnd(f, q) THEN IF f.ends = "error" THEN Nothing ELSE Read(<<>>, q, TRUE)
                      ELSE IF i.how # "node" THEN i
                      ELSE InFront(i.node, t["run"][i.p])
<1>0. Len(f.chars) \in Nat
  BY PlaceIs
<1>1. /\ q \in p..Len(f.chars) /\ q \in 0..Len(f.chars)
      /\ item \in Results(f, Trees, p + 1)
      /\ \A other : AgreeFrom(f, read, other, p) => read_expr(f, other, q) = item
  BY ItemIs
<1>2. \A t : run(f, t, p) = R(t, read_expr(f, t, q))
  BY DEF run
<1>3. item.how = "node" => item.node \in Trees /\ item.p \in (p + 1)..Len(f.chars)
  BY <1>1, ResultIs
<1>4. ASSUME NEW other, AgreeFrom(f, read, other, p) PROVE R(other, item) = R(read, item)
  <2> HIDE DEF item, q
  <2>1. CASE item.how = "node"
    <3>1. other["run"][item.p] = read["run"][item.p]
      BY <1>3, <1>4, <2>1, SameIs
    <3>2. QED
      BY <3>1
  <2>2. CASE item.how # "node"
    BY <2>2
  <2>3. QED
    BY <2>1, <2>2
<1>5. R(read, item) \in Results(f, Seq(Trees), p)
  <2> HIDE DEF item, q
  <2>1. CASE AtEnd(f, q)
    <3>1. <<>> \in Seq(Trees) /\ TRUE \in BOOLEAN
      OBVIOUS
    <3>2. Read(<<>>, q, TRUE) \in Results(f, Seq(Trees), p) /\ Nothing \in Results(f, Seq(Trees), p)
      BY <1>1, <3>1, BuiltResult
    <3>3. QED
      BY <2>1, <3>2
  <2>2. CASE ~AtEnd(f, q) /\ item.how # "node"
    <3>1. item \in {Nothing, Aborted}
      BY <1>1, <2>2 DEF Results
    <3>2. item \in Results(f, Seq(Trees), p)
      BY <3>1, BuiltResult
    <3>3. QED
      BY <2>2, <3>2
  <2>3. CASE ~AtEnd(f, q) /\ item.how = "node"
    <3>1. read["run"][item.p] \in Results(f, Seq(Trees), item.p)
      BY <1>3, <2>3, ReadIs
    <3>2. item.p \in Int /\ p \in Int /\ p <= item.p
      BY <1>0, <1>3, <2>3
    <3>3. InFront(item.node, read["run"][item.p]) \in Results(f, Seq(Trees), p)
      BY <1>0, <1>3, <2>3, <3>1, <3>2, InFrontType
    <3>4. QED
      BY <2>3, <3>3
  <2>4. QED
    BY <2>1, <2>2, <2>3
<1> HIDE DEF R, item, q
<1>6. ASSUME NEW other, AgreeFrom(f, read, other, p) PROVE run(f, other, p) = run(f, read, p)
  <2>1. read_expr(f, other, q) = item /\ read_expr(f, read, q) = item
    BY <1>1, <1>6 DEF item
  <2>2. QED
    BY <1>2, <1>4, <1>6, <2>1
<1>7. run(f, read, p) \in Results(f, Seq(Trees), p)
  BY <1>2, <1>5 DEF item
<1>8. QED
  BY <1>6, <1>7

\* Each function reads what it should, and its reading depends on what is read further on.
LEMMA ReadingStep ==
  ASSUME Nestings = Nat, NEW f, IsText(f), NEW read, NEW p \in 0..Len(f.chars), ReadsFrom(f, read, p),
         NEW what \in Functions
  PROVE  /\ Reading(f, read, what, p) \in ResultsOf(f, what, p)
         /\ \A other : AgreeFrom(f, read, other, p) => Reading(f, other, what, p) = Reading(f, read, what, p)
<1>1. CASE what = "expr"
  BY <1>1, ExprStep DEF Reading, ResultsOf, MadeOf, EndFrom
<1>2. CASE what = "string"
  BY <1>2, StringStep DEF Reading, ResultsOf, MadeOf, EndFrom
<1>3. CASE what = "run"
  BY <1>3, RunStep DEF Reading, ResultsOf, MadeOf, EndFrom
<1>4. CASE what \in {CLOSE_TUPLE_CHAR, CLOSE_APPLY_CHAR}
  <2>1. what # "expr" /\ what # "string" /\ what # "run"
    BY <1>4 DEF CLOSE_TUPLE_CHAR, CLOSE_APPLY_CHAR
  <2>2. \A r : Reading(f, r, what, p) = read_tuple_to_vector(f, r, what, p)
    BY <2>1 DEF Reading
  <2>3. ResultsOf(f, what, p) = Results(f, Seq(Trees), p + 1)
    BY <2>1 DEF ResultsOf, MadeOf, EndFrom
  <2>4. QED
    BY <1>4, <2>2, <2>3, TupleStep
<1>5. QED
  BY <1>1, <1>2, <1>3, <1>4 DEF Functions, Loops

\* A reading of the places behind the first p.
IsReading(f, read, p) ==
  \A what \in Functions : \A q \in p..Len(f.chars) : read[what][q] = Reading(f, read, what, q)

\* What is read has its types.
LEMMA ReadingType ==
  ASSUME Nestings = Nat, NEW f, IsText(f), NEW read, NEW p \in 0..(Len(f.chars) + 1), IsReading(f, read, p)
  PROVE  \A what \in Functions : \A q \in p..Len(f.chars) : read[what][q] \in ResultsOf(f, what, q)
<1> DEFINE n == Len(f.chars)
           T == {m \in Nat : \A q \in p..n : q + m > n =>
                               \A what \in Functions : read[what][q] \in ResultsOf(f, what, q)}
<1>0. n \in Nat
  BY PlaceIs
<1>1. 0 \in T
  BY <1>0
<1>2. ASSUME NEW m \in Nat, m \in T PROVE m + 1 \in T
  <2> SUFFICES ASSUME NEW q \in p..n, q + (m + 1) > n, NEW what \in Functions
               PROVE read[what][q] \in ResultsOf(f, what, q)
    OBVIOUS
  <2>1. \A k \in (q + 1)..n : k \in p..n /\ k + m > n
    BY <1>0
  <2>2. \A k \in (q + 1)..n : \A w \in Functions : read[w][k] \in ResultsOf(f, w, k)
    BY <1>2, <2>1
  <2>3. ReadsFrom(f, read, q)
    BY <2>2 DEF ReadsFrom
  <2>4. q \in 0..n
    BY <1>0
  <2>5. Reading(f, read, what, q) \in ResultsOf(f, what, q)
    BY <2>3, <2>4, ReadingStep
  <2>6. QED
    BY <2>5 DEF IsReading
<1> HIDE DEF T
<1>3. n + 1 \in T
  <2>1. n + 1 \in Nat
    BY <1>0
  <2>2. QED
    BY <1>1, <1>2, <2>1, AllNumbers
<1>4. ASSUME NEW q \in p..n PROVE q + (n + 1) > n
  BY <1>0
<1>5. QED
  BY <1>3, <1>4 DEF T

\* There is a reading of the whole text.
LEMMA ReadingExists ==
  ASSUME Nestings = Nat, NEW f, IsText(f)
  PROVE  \E read : read = [what \in Functions |-> [p \in 0..Len(f.chars) |-> Reading(f, read, what, p)]]
<1> DEFINE n == Len(f.chars)
           T == {m \in Nat : m <= n + 1 => \E read : IsReading(f, read, (n + 1) - m)}
<1>0. n \in Nat
  BY PlaceIs
<1>1. 0 \in T
  BY <1>0 DEF IsReading
<1>2. ASSUME NEW m \in Nat, m \in T PROVE m + 1 \in T
  <2> SUFFICES ASSUME m + 1 <= n + 1 PROVE \E read : IsReading(f, read, (n + 1) - (m + 1))
    OBVIOUS
  <2> DEFINE p == n - m
  <2>1. (n + 1) - m = p + 1 /\ (n + 1) - (m + 1) = p /\ m <= n + 1 /\ p \in 0..n /\ p + 1 \in 0..(n + 1)
    BY <1>0
  <2>2. PICK g : IsReading(f, g, p + 1)
    BY <1>2, <2>1
  <2> HIDE DEF p
  <2>3. \A what \in Functions : \A q \in (p + 1)..n : g[what][q] \in ResultsOf(f, what, q)
    BY <2>1, <2>2, ReadingType
  <2>4. \A what \in Functions : \A q \in (p + 1)..n : g[what][q] = Reading(f, g, what, q)
    BY <2>2 DEF IsReading
  <2> DEFINE h == [what \in Functions |-> [q \in 0..n |-> IF q = p THEN Reading(f, g, what, q) ELSE g[what][q]]]
  <2>5. \A what \in Functions : \A q \in 0..n : h[what][q] = IF q = p THEN Reading(f, g, what, q) ELSE g[what][q]
    OBVIOUS
  <2> HIDE DEF h
  <2>6. ASSUME NEW q \in p..n PROVE ReadsFrom(f, g, q) /\ AgreeFrom(f, g, h, q) /\ q \in 0..n
    <3>1. \A k \in (q + 1)..n : k \in (p + 1)..n /\ k \in 0..n /\ k # p
      BY <1>0, <2>1
    <3>2. \A what \in Functions : \A k \in (q + 1)..n : h[what][k] = g[what][k]
      BY <2>5, <3>1
    <3>3. q \in 0..n
      BY <1>0, <2>1
    <3>4. QED
      BY <2>3, <3>1, <3>2, <3>3 DEF ReadsFrom, AgreeFrom
  <2>7. ASSUME NEW what \in Functions, NEW q \in p..n PROVE h[what][q] = Reading(f, h, what, q)
    <3>1. Reading(f, h, what, q) = Reading(f, g, what, q)
      BY <2>6, ReadingStep
    <3>2. h[what][q] = Reading(f, g, what, q)
      <4>1. CASE q = p
        BY <2>5, <2>6, <4>1
      <4>2. CASE q # p
        <5>1. q \in (p + 1)..n /\ q \in 0..n
          BY <1>0, <2>1, <4>2
        <5>2. QED
          BY <2>4, <2>5, <4>2, <5>1
      <4>3. QED
        BY <4>1, <4>2
    <3>3. QED
      BY <3>1, <3>2
  <2>8. IsReading(f, h, p)
    BY <2>7 DEF IsReading
  <2>9. QED
    BY <2>1, <2>8
<1> HIDE DEF T
<1>3. n + 1 \in T
  <2>1. n + 1 \in Nat
    BY <1>0
  <2>2. QED
    BY <1>1, <1>2, <2>1, AllNumbers
<1>4. PICK g : IsReading(f, g, 0)
  <2>1. n + 1 <= n + 1 /\ (n + 1) - (n + 1) = 0
    BY <1>0
  <2>2. QED
    BY <1>3, <2>1 DEF T
<1>5. /\ \A what \in Functions : \A q \in 0..n : g[what][q] = Reading(f, g, what, q)
      /\ \A what \in Functions : \A q \in 0..n : g[what][q] \in ResultsOf(f, what, q)
  <2>1. 0 \in 0..(n + 1)
    BY <1>0
  <2>2. QED
    BY <1>4, <2>1, ReadingType DEF IsReading
<1> DEFINE h == [what \in Functions |-> [p \in 0..n |-> Reading(f, g, what, p)]]
<1>6. \A what \in Functions : \A q \in 0..n : h[what][q] = g[what][q]
  BY <1>5
<1>7. ASSUME NEW what \in Functions, NEW p \in 0..n PROVE Reading(f, h, what, p) = Reading(f, g, what, p)
  <2> HIDE DEF h
  <2>1. \A k \in (p + 1)..n : k \in 0..n
    BY <1>0
  <2>2. ReadsFrom(f, g, p) /\ AgreeFrom(f, g, h, p)
    BY <1>5, <1>6, <2>1 DEF ReadsFrom, AgreeFrom
  <2>3. QED
    BY <2>2, ReadingStep
<1>8. h = [what \in Functions |-> [p \in 0..n |-> Reading(f, h, what, p)]]
  BY <1>7
<1> HIDE DEF h
<1>9. QED
  BY <1>8

\* parse_filereader_into_ast returns trees (fc/ast_builder.cpp:42-359).
LEMMA ParsedType ==
  ASSUME Nestings = Nat, NEW f, IsText(f), parse_filereader_into_ast(f).how = "node"
  PROVE  parse_filereader_into_ast(f).node \in Seq(Trees)
<1> DEFINE Is(g) == g = [what \in Functions |-> [p \in 0..Len(f.chars) |-> Reading(f, g, what, p)]]
           read == CHOOSE g : Is(g)
<1>0. Len(f.chars) \in Nat /\ 0 \in 0..Len(f.chars) /\ 0 \in 0..(Len(f.chars) + 1) /\ "run" \in Functions
  BY PlaceIs DEF Functions, Loops
<1>1. parse_filereader_into_ast(f) = read["run"][0]
  BY DEF parse_filereader_into_ast, Functions
<1>2. \E g : Is(g)
  BY ReadingExists
<1>3. Is(read)
  <2> HIDE DEF Is
  <2>1. QED
    BY <1>2
<1> HIDE DEF read
<1>4. IsReading(f, read, 0)
  <2>1. read = [what \in Functions |-> [p \in 0..Len(f.chars) |-> Reading(f, read, what, p)]]
    BY <1>3
  <2>2. \A what \in Functions : read[what] = [p \in 0..Len(f.chars) |-> Reading(f, read, what, p)]
    BY <2>1
  <2>3. \A what \in Functions : \A q \in 0..Len(f.chars) : read[what][q] = Reading(f, read, what, q)
    BY <2>2
  <2>4. QED
    BY <2>3 DEF IsReading
<1>5. read["run"][0] \in ResultsOf(f, "run", 0)
  BY <1>0, <1>4, ReadingType
<1>6. read["run"][0] \in Results(f, Seq(Trees), 0)
  BY <1>5 DEF ResultsOf, MadeOf, EndFrom
<1>7. QED
  BY <1>1, <1>6, ResultIs

-----------------------------------------------------------------------------
(* The command line.                                                       *)

\* What is parsed from the i-th argument on, given what is from those behind.
ParsedFrom(args, rest, i) ==
  IF i > Len(args) THEN [ok |-> TRUE, help |-> FALSE, files |-> <<>>]
  ELSE IF args[i] = "--help" THEN [rest[i + 1] EXCEPT !.help = TRUE]
  ELSE IF args[i] = "--cpp-out" /\ i < Len(args) THEN rest[i + 2]
  ELSE IF IsOption(args[i]) THEN [rest[i + 1] EXCEPT !.ok = FALSE]
  ELSE [rest[i + 1] EXCEPT !.files = <<args[i]>> \o @]
IsRest(args, rest, i) == \A k \in i..(Len(args) + 2) : rest[k] = ParsedFrom(args, rest, k)

\* The arguments are parsed from the last one on.
LEMMA RestExists ==
  ASSUME NEW args, Len(args) \in Nat
  PROVE  \E rest : rest = [i \in 1..(Len(args) + 2) |-> ParsedFrom(args, rest, i)]
<1> DEFINE n == Len(args)
           T == {m \in Nat : m <= n + 2 => \E rest : IsRest(args, rest, (n + 3) - m)}
<1>1. 0 \in T
  BY DEF IsRest
<1>2. ASSUME NEW m \in Nat, m \in T PROVE m + 1 \in T
  <2> SUFFICES ASSUME m + 1 <= n + 2 PROVE \E rest : IsRest(args, rest, (n + 3) - (m + 1))
    OBVIOUS
  <2> DEFINE p == (n + 2) - m
  <2>1. (n + 3) - m = p + 1 /\ (n + 3) - (m + 1) = p /\ m <= n + 2 /\ p \in 1..(n + 2)
    OBVIOUS
  <2>2. PICK g : IsRest(args, g, p + 1)
    BY <1>2, <2>1
  <2> HIDE DEF p
  <2>3. \A k \in (p + 1)..(n + 2) : g[k] = ParsedFrom(args, g, k)
    BY <2>2 DEF IsRest
  <2> DEFINE h == [k \in 1..(n + 2) |-> IF k = p THEN ParsedFrom(args, g, k) ELSE g[k]]
  <2>4. \A k \in 1..(n + 2) : h[k] = IF k = p THEN ParsedFrom(args, g, k) ELSE g[k]
    OBVIOUS
  <2> HIDE DEF h
  <2>5. ASSUME NEW k \in p..(n + 2) PROVE h[k] = ParsedFrom(args, h, k)
    <3>1. k \in 1..(n + 2) /\ k <= n + 2 /\ p <= k /\ k \in Nat
      BY <2>1
    <3>2. ~(k > n) => h[k + 1] = g[k + 1] /\ h[k + 2] = g[k + 2]
      BY <2>1, <2>4, <3>1
    <3>3. ParsedFrom(args, h, k) = ParsedFrom(args, g, k)
      BY <3>2 DEF ParsedFrom
    <3>4. CASE k = p
      BY <2>4, <3>1, <3>3, <3>4
    <3>5. CASE k # p
      <4>1. k \in (p + 1)..(n + 2)
        BY <2>1, <3>1, <3>5
      <4>2. QED
        BY <2>3, <2>4, <3>1, <3>3, <3>5, <4>1
    <3>6. QED
      BY <3>4, <3>5
  <2>6. IsRest(args, h, p)
    BY <2>5 DEF IsRest
  <2>7. QED
    BY <2>1, <2>6
<1> HIDE DEF T
<1>3. n + 2 \in T
  BY <1>1, <1>2, AllNumbers
<1>4. PICK g : IsRest(args, g, 1)
  <2>1. n + 2 <= n + 2 /\ (n + 3) - (n + 2) = 1
    OBVIOUS
  <2>2. QED
    BY <1>3, <2>1 DEF T
<1> DEFINE h == [k \in 1..(n + 2) |-> ParsedFrom(args, g, k)]
<1>5. \A k \in 1..(n + 2) : h[k] = g[k]
  BY <1>4 DEF IsRest
<1>6. ASSUME NEW k \in 1..(n + 2) PROVE ParsedFrom(args, h, k) = ParsedFrom(args, g, k)
  <2> HIDE DEF h
  <2>1. ~(k > n) => k + 1 \in 1..(n + 2) /\ k + 2 \in 1..(n + 2)
    OBVIOUS
  <2>2. ~(k > n) => h[k + 1] = g[k + 1] /\ h[k + 2] = g[k + 2]
    BY <1>5, <2>1
  <2>3. QED
    BY <2>2 DEF ParsedFrom
<1>7. h = [k \in 1..(n + 2) |-> ParsedFrom(args, h, k)]
  BY <1>6
<1> HIDE DEF h
<1>8. QED
  BY <1>7

\* parse_command_line names files that are on the command line.
LEMMA CommandLineType ==
  ASSUME NEW args \in Seq(STRING), NEW D, \A k \in DOMAIN args : IsOption(args[k]) \/ args[k] \in D
  PROVE  parse_command_line(args) \in [ok : BOOLEAN, help : BOOLEAN, files : Seq(D)]
<1> DEFINE n == Len(args)
           V == [ok : BOOLEAN, help : BOOLEAN, files : Seq(D)]
           Is(g) == g = [i \in 1..(Len(args) + 2) |-> ParsedFrom(args, g, i)]
           rest == CHOOSE g : Is(g)
           T == {m \in Nat : \A i \in 1..(n + 2) : i + m > n + 2 => rest[i] \in V}
<1>0. n \in Nat /\ DOMAIN args = 1..n
  BY SeqIsFunction
<1>1. parse_command_line(args) = rest[1]
  BY DEF parse_command_line, ParsedFrom
<1>2. Is(rest)
  <2>1. \E g : Is(g)
    BY <1>0, RestExists
  <2> HIDE DEF Is
  <2>2. QED
    BY <2>1
<1>3. \A i \in 1..(n + 2) : rest[i] = ParsedFrom(args, rest, i)
  BY <1>2
<1> HIDE DEF rest, Is
<1>4. 0 \in T
  BY <1>0
<1>5. ASSUME NEW m \in Nat, m \in T PROVE m + 1 \in T
  <2> SUFFICES ASSUME NEW i \in 1..(n + 2), i + (m + 1) > n + 2 PROVE rest[i] \in V
    OBVIOUS
  <2>1. rest[i] = ParsedFrom(args, rest, i)
    BY <1>3
  <2>2. CASE i > n
    <3>1. <<>> \in Seq(D)
      OBVIOUS
    <3>2. [ok |-> TRUE, help |-> FALSE, files |-> <<>>] \in V
      BY <3>1
    <3>3. QED
      BY <2>1, <2>2, <3>2 DEF ParsedFrom
  <2>3. CASE ~(i > n)
    <3>1. i + 1 \in 1..(n + 2) /\ i + 2 \in 1..(n + 2) /\ (i + 1) + m > n + 2 /\ (i + 2) + m > n + 2 /\ i \in 1..n
      BY <1>0, <2>3
    <3>2. rest[i + 1] \in V /\ rest[i + 2] \in V
      BY <1>5, <3>1
    <3>3. CASE args[i] = "--help"
      <4>1. rest[i] = [rest[i + 1] EXCEPT !.help = TRUE]
        BY <2>1, <2>3, <3>3 DEF ParsedFrom
      <4>2. QED
        BY <3>2, <4>1
    <3>4. CASE args[i] # "--help" /\ args[i] = "--cpp-out" /\ i < n
      BY <2>1, <2>3, <3>2, <3>4 DEF ParsedFrom
    <3>5. CASE args[i] # "--help" /\ ~(args[i] = "--cpp-out" /\ i < n) /\ IsOption(args[i])
      <4>1. rest[i] = [rest[i + 1] EXCEPT !.ok = FALSE]
        BY <2>1, <2>3, <3>5 DEF ParsedFrom
      <4>2. QED
        BY <3>2, <4>1
    <3>6. CASE args[i] # "--help" /\ ~(args[i] = "--cpp-out" /\ i < n) /\ ~IsOption(args[i])
      <4> DEFINE r == rest[i + 1]
                 fs == <<args[i]>> \o r.files
      <4>1. rest[i] = [r EXCEPT !.files = fs]
        BY <2>1, <2>3, <3>6 DEF ParsedFrom
      <4>2. args[i] \in D
        BY <1>0, <3>1, <3>6
      <4>3. fs \in Seq(D)
        <5>1. <<args[i]>> \in Seq(D) /\ r.files \in Seq(D)
          BY <3>2, <4>2
        <5> HIDE DEF r
        <5>2. QED
          BY <5>1, ConcatProperties
      <4> HIDE DEF fs
      <4>4. QED
        BY <3>2, <4>1, <4>3
    <3>7. QED
      BY <3>3, <3>4, <3>5, <3>6
  <2>4. QED
    BY <2>2, <2>3
<1> HIDE DEF T
<1>6. n + 2 \in T
  <2>1. n + 2 \in Nat
    BY <1>0
  <2>2. QED
    BY <1>4, <1>5, <2>1, AllNumbers
<1>7. rest[1] \in V
  <2>1. 1 \in 1..(n + 2) /\ 1 + (n + 2) > n + 2
    BY <1>0
  <2>2. QED
    BY <1>6, <2>1 DEF T
<1>8. QED
  BY <1>1, <1>7

-----------------------------------------------------------------------------
(* Values that last.                                                       *)

\* What several values would be.
LastingSeq(vs) == [k \in DOMAIN vs |-> Lasting[vs[k]]]

\* As many values, which last.
LEMMA LastingSeqIs ==
  ASSUME Nestings = Nat, NEW vs \in Seq(Values)
  PROVE  /\ LastingSeq(vs) \in Seq(Values) /\ Len(LastingSeq(vs)) = Len(vs)
         /\ \A k \in 1..Len(vs) : LastingSeq(vs)[k] = Lasting[vs[k]]
<1>1. Len(vs) \in Nat /\ DOMAIN vs = 1..Len(vs) /\ \A k \in 1..Len(vs) : vs[k] \in Values
  BY SeqIsFunction
<1>2. \A k \in 1..Len(vs) : Lasting[vs[k]] \in Values
  BY <1>1, LastingIs
<1>3. LastingSeq(vs) \in [1..Len(vs) -> Values] /\ \A k \in 1..Len(vs) : LastingSeq(vs)[k] = Lasting[vs[k]]
  BY <1>1, <1>2 DEF LastingSeq
<1>4. QED
  BY <1>1, <1>3, FunctionIsSeq

\* One value more.
LEMMA LastingAppend ==
  ASSUME Nestings = Nat, NEW vs \in Seq(Values), NEW v \in Values
  PROVE  LastingSeq(Append(vs, v)) = Append(LastingSeq(vs), Lasting[v])
<1> DEFINE s == LastingSeq(Append(vs, v))
           t == Append(LastingSeq(vs), Lasting[v])
<1>1. /\ Append(vs, v) \in Seq(Values) /\ Len(Append(vs, v)) = Len(vs) + 1
      /\ \A i \in 1..Len(vs) : Append(vs, v)[i] = vs[i]
      /\ Append(vs, v)[Len(vs) + 1] = v
  BY AppendProperties
<1>2. /\ LastingSeq(vs) \in Seq(Values) /\ Len(LastingSeq(vs)) = Len(vs)
      /\ \A k \in 1..Len(vs) : LastingSeq(vs)[k] = Lasting[vs[k]]
  BY LastingSeqIs
<1>3. Lasting[v] \in Values /\ Len(vs) \in Nat
  BY LastingIs
<1>4. s \in Seq(Values) /\ Len(s) = Len(vs) + 1 /\ \A k \in 1..(Len(vs) + 1) : s[k] = Lasting[Append(vs, v)[k]]
  BY <1>1, LastingSeqIs
<1>5. /\ t \in Seq(Values) /\ Len(t) = Len(vs) + 1
      /\ \A i \in 1..Len(vs) : t[i] = LastingSeq(vs)[i]
      /\ t[Len(vs) + 1] = Lasting[v]
  BY <1>2, <1>3, AppendProperties
<1> HIDE DEF s, t
<1>6. ASSUME NEW k \in 1..(Len(vs) + 1) PROVE s[k] = t[k]
  <2>1. CASE k = Len(vs) + 1
    BY <1>1, <1>4, <1>5, <2>1
  <2>2. CASE k # Len(vs) + 1
    <3>1. k \in 1..Len(vs)
      BY <1>3, <2>2
    <3>2. QED
      BY <1>1, <1>2, <1>4, <1>5, <3>1
  <2>3. QED
    BY <2>1, <2>2
<1>7. s = t
  BY <1>4, <1>5, <1>6, SeqEqual
<1>8. QED
  BY <1>7 DEF s, t

\* What a value is does not change with what its tuples live for.
LEMMA LastingKeeps ==
  ASSUME Nestings = Nat, NEW v \in Values
  PROVE  /\ Lasting[v] \in Values /\ Lasting[v].tag = v.tag
         /\ v.tag # "Tuple" => Lasting[v] = v
         /\ v \in Trees => Lasting[v] = v
         /\ \A w \in Values : w.tag # "Tuple" /\ Lasting[v] = w => v = w
<1>1. Lasting[v] = LastingGiven(Lasting, v) /\ Lasting[v] \in Values
  BY LastingIs
<1>2. CASE v.tag = "Tuple" /\ v.arena # 0
  <2>1. Lasting[v].tag = "Tuple"
    BY <1>1, <1>2 DEF LastingGiven, TupleNode, TupleIn
  <2>2. v \notin Trees
    BY <1>2, TreeIs
  <2>3. QED
    BY <1>1, <1>2, <2>1, <2>2
<1>3. CASE ~(v.tag = "Tuple" /\ v.arena # 0)
  BY <1>1, <1>3 DEF LastingGiven
<1>4. QED
  BY <1>2, <1>3

\* The tuples of an evaluation.
LEMMA LastingTuple ==
  ASSUME Nestings = Nat, NEW vs \in Seq(Values), NEW a \in Nat \ {0}
  PROVE  TupleIn(a, vs) \in Values /\ Lasting[TupleIn(a, vs)] = TupleNode(LastingSeq(vs))
<1> DEFINE v == TupleIn(a, vs)
<1>1. v \in Values /\ v.tag = "Tuple" /\ v.arena = a /\ v.xs = vs
  BY BuiltValues DEF TupleIn
<1> HIDE DEF v
<1>2. Lasting[v] = LastingGiven(Lasting, v)
  BY <1>1, LastingIs
<1>3. QED
  BY <1>1, <1>2 DEF LastingGiven, LastingSeq, v

\* The definitions that are remembered, of some symbols.
Named(syms) == {[name |-> name, value |-> Lasting[syms[name]]] : name \in DOMAIN syms}
SymbolsType(syms) == DOMAIN syms \subseteq Names /\ \A name \in DOMAIN syms : syms[name] \in Values

\* They are an environment that defines the symbols.
LEMMA NamedIs ==
  ASSUME Nestings = Nat, NEW syms, SymbolsType(syms)
  PROVE  /\ Named(syms) \in Environments
         /\ Defined(Named(syms)) = DOMAIN syms
         /\ \A name \in DOMAIN syms : Definition(Named(syms), name).value = Lasting[syms[name]]
<1>1. \A name \in DOMAIN syms : name \in Names /\ Lasting[syms[name]] \in Values
  BY LastingIs DEF SymbolsType
<1>2. Named(syms) \in Environments
  BY <1>1 DEF Named, Environments, Definitions
<1>3. Defined(Named(syms)) = DOMAIN syms
  <2>1. ASSUME NEW n \in Defined(Named(syms)) PROVE n \in DOMAIN syms
    BY DEF Defined, Named
  <2>2. ASSUME NEW n \in DOMAIN syms PROVE n \in Defined(Named(syms))
    <3>1. [name |-> n, value |-> Lasting[syms[n]]] \in Named(syms)
      BY DEF Named
    <3>2. QED
      BY <3>1 DEF Defined
  <2>3. QED
    BY <2>1, <2>2
<1>4. ASSUME NEW n \in DOMAIN syms PROVE Definition(Named(syms), n).value = Lasting[syms[n]]
  <2>1. n \in Defined(Named(syms))
    BY <1>3
  <2>2. Definition(Named(syms), n) \in Named(syms) /\ Definition(Named(syms), n).name = n
    BY <1>2, <2>1, DefinitionIs
  <2> DEFINE d == Definition(Named(syms), n)
  <2> HIDE DEF d
  <2>3. d \in Named(syms) /\ d.name = n
    BY <2>2 DEF d
  <2>4. PICK m \in DOMAIN syms : d = [name |-> m, value |-> Lasting[syms[m]]]
    BY <2>3 DEF Named
  <2>5. m = n /\ d.value = Lasting[syms[n]]
    BY <2>3, <2>4
  <2>6. QED
    BY <2>5 DEF d
<1>5. QED
  BY <1>2, <1>3, <1>4

\* One definition more.
LEMMA NamedMore ==
  ASSUME NEW syms, NEW n, n \notin DOMAIN syms, NEW v
  PROVE  Named([name \in DOMAIN syms \cup {n} |-> IF name = n THEN v ELSE syms[name]])
           = Named(syms) \cup {[name |-> n, value |-> Lasting[v]]}
<1> DEFINE s == [name \in DOMAIN syms \cup {n} |-> IF name = n THEN v ELSE syms[name]]
<1>1. DOMAIN s = DOMAIN syms \cup {n} /\ s[n] = v /\ \A name \in DOMAIN syms : s[name] = syms[name]
  OBVIOUS
<1> HIDE DEF s
<1>2. ASSUME NEW d \in Named(s) PROVE d \in Named(syms) \cup {[name |-> n, value |-> Lasting[v]]}
  BY <1>1 DEF Named
<1>3. ASSUME NEW d \in Named(syms) \cup {[name |-> n, value |-> Lasting[v]]} PROVE d \in Named(s)
  BY <1>1 DEF Named
<1>4. QED
  BY <1>2, <1>3 DEF s

-----------------------------------------------------------------------------
(* The stack of the nodes whose parts are being evaluated.                 *)

\* The frame of a top-level expression, and all frames.
Tops == [tag : {"Top"}, expr : Trees]
Top(e) == [tag |-> "Top", expr |-> e]
Frames == [node : Trees \cup Tops, evald : Seq(Values)]

\* Parts of a frame's node that have no value yet, and the first of them.
Waits(x) == Len(x.evald) < Len(Parts(x.node))
NextPart(x) == Parts(x.node)[Len(x.evald) + 1]

\* The fields of a frame.
LEMMA FrameIs ==
  ASSUME Nestings = Nat, NEW x \in Frames
  PROVE  /\ x.evald \in Seq(Values) /\ Len(x.evald) \in Nat
         /\ x.node.tag = "Top" => x.node.expr \in Trees /\ x.node = Top(x.node.expr) /\ Parts(x.node) = <<x.node.expr>>
         /\ x.node.tag # "Top" => x.node \in Trees
         /\ Parts(x.node) \in Seq(Trees) /\ Len(Parts(x.node)) \in Nat
         /\ \A k \in 1..Len(Parts(x.node)) : Parts(x.node)[k] \in Trees
         /\ Waits(x) => NextPart(x) \in Trees
<1>1. x.evald \in Seq(Values) /\ Len(x.evald) \in Nat /\ x.node \in Trees \cup Tops
  BY DEF Frames
<1>2. CASE x.node \in Trees
  <2>1. x.node.tag # "Top"
    BY <1>2, TreeIs DEF Leaves
  <2>2. /\ Parts(x.node) \in Seq(Trees) /\ Len(Parts(x.node)) \in Nat
        /\ \A k \in 1..Len(Parts(x.node)) : Parts(x.node)[k] \in Trees
    BY <1>2, TreeIs
  <2>3. Waits(x) => Len(x.evald) + 1 \in 1..Len(Parts(x.node))
    BY <1>1, <2>2 DEF Waits
  <2>4. QED
    BY <1>1, <1>2, <2>1, <2>2, <2>3 DEF NextPart
<1>3. CASE x.node \in Tops
  <2>1. x.node.tag = "Top" /\ x.node.expr \in Trees /\ x.node = Top(x.node.expr)
    BY <1>3 DEF Tops, Top
  <2>2. Parts(x.node) = <<x.node.expr>>
    BY <2>1 DEF Parts
  <2>3. /\ Parts(x.node) \in Seq(Trees) /\ Len(Parts(x.node)) = 1
        /\ \A k \in 1..Len(Parts(x.node)) : Parts(x.node)[k] \in Trees
    BY <2>1, <2>2
  <2>4. Waits(x) => Len(x.evald) + 1 \in 1..Len(Parts(x.node))
    BY <1>1, <2>3 DEF Waits
  <2>5. QED
    BY <1>1, <2>1, <2>2, <2>3, <2>4 DEF NextPart
<1>4. QED
  BY <1>1, <1>2, <1>3

\* Each node is the part of the one below that is evaluated next.
Nested(F, e) ==
  /\ F \in Seq(Frames) /\ Len(F) # 0
  /\ F[1].node = Top(e)
  /\ \A j \in 1..Len(F) : Len(F[j].evald) <= Len(Parts(F[j].node))
  /\ \A j \in 1..(Len(F) - 1) : Waits(F[j]) /\ F[j + 1].node = NextPart(F[j])

\* The nodes above the first are trees, and have parts if they wait.
LEMMA NestedIs ==
  ASSUME Nestings = Nat, NEW F, NEW e, Nested(F, e)
  PROVE  /\ Len(F) \in Nat \ {0} /\ \A j \in 1..Len(F) : F[j] \in Frames
         /\ F[Len(F)] \in Frames
         /\ \A j \in 2..Len(F) : F[j].node \in Trees /\ F[j].node.tag # "Top"
         /\ F[Len(F)].node.tag = "Top" <=> Len(F) = 1
<1>1. F \in Seq(Frames) /\ Len(F) \in Nat \ {0} /\ \A j \in 1..Len(F) : F[j] \in Frames
  BY SeqIsFunction DEF Nested
<1>2. ASSUME NEW j \in 2..Len(F) PROVE F[j].node \in Trees /\ F[j].node.tag # "Top"
  <2>1. j - 1 \in 1..(Len(F) - 1) /\ (j - 1) + 1 = j /\ j - 1 \in 1..Len(F)
    BY <1>1
  <2>2. Waits(F[j - 1]) /\ F[j].node = NextPart(F[j - 1]) /\ F[j - 1] \in Frames
    BY <1>1, <2>1 DEF Nested
  <2>3. F[j].node \in Trees
    BY <2>2, FrameIs
  <2>4. QED
    BY <2>3, TreeIs DEF Leaves
<1>3. F[1].node.tag = "Top"
  BY DEF Nested, Top
<1>4. Len(F) \in 1..Len(F) /\ (Len(F) # 1 => Len(F) \in 2..Len(F))
  <2> DEFINE n == Len(F)
  <2>1. n \in Nat \ {0}
    BY <1>1
  <2> HIDE DEF n
  <2>2. n \in 1..n /\ (n # 1 => n \in 2..n)
    BY <2>1
  <2>3. QED
    BY <2>2 DEF n
<1>5. QED
  BY <1>1, <1>2, <1>3, <1>4

\* The first frame.
LEMMA NestedTop ==
  ASSUME Nestings = Nat, NEW e \in Trees
  PROVE  Nested(<<Frame(Top(e))>>, e)
<1> DEFINE x == Frame(Top(e))
           F == <<x>>
<1>1. x.node = Top(e) /\ x.evald = <<>> /\ Parts(x.node) = <<e>>
  BY DEF Frame, Top, Parts
<1>2. x \in Frames
  <2>1. Top(e) \in Tops
    BY DEF Tops, Top
  <2>2. <<>> \in Seq(Values)
    OBVIOUS
  <2>3. QED
    BY <2>1, <2>2 DEF Frames, Frame
<1> HIDE DEF x
<1>3. F \in Seq(Frames) /\ Len(F) = 1 /\ F[1] = x
  BY <1>2
<1> HIDE DEF F
<1>4. QED
  BY <1>1, <1>3 DEF Nested, F, x

\* A frame more, for the next part.
LEMMA NestedPush ==
  ASSUME Nestings = Nat, NEW F, NEW e, Nested(F, e), Waits(F[Len(F)])
  PROVE  Nested(Append(F, Frame(NextPart(F[Len(F)]))), e)
<1> DEFINE n == Len(F)
           x == Frame(NextPart(F[n]))
           G == Append(F, x)
<1>1. n \in Nat \ {0} /\ F[n] \in Frames /\ F \in Seq(Frames)
  BY NestedIs DEF Nested
<1>2. NextPart(F[n]) \in Trees
  BY <1>1, FrameIs
<1>3. x.node = NextPart(F[n]) /\ x.evald = <<>> /\ x \in Frames
  <2>1. <<>> \in Seq(Values)
    OBVIOUS
  <2>2. QED
    BY <1>2, <2>1 DEF Frame, Frames
<1>4. Len(x.evald) <= Len(Parts(x.node))
  BY <1>3, FrameIs
<1> HIDE DEF x
<1>5. /\ G \in Seq(Frames) /\ Len(G) = n + 1 /\ G[n + 1] = x
      /\ \A i \in 1..n : G[i] = F[i]
  BY <1>1, <1>3, AppendProperties
<1> HIDE DEF G
<1>6. \A j \in 1..Len(G) : Len(G[j].evald) <= Len(Parts(G[j].node))
  <2> SUFFICES ASSUME NEW j \in 1..Len(G) PROVE Len(G[j].evald) <= Len(Parts(G[j].node))
    OBVIOUS
  <2>1. CASE j = n + 1
    BY <1>4, <1>5, <2>1
  <2>2. CASE j # n + 1
    <3>1. j \in 1..n
      BY <1>1, <1>5, <2>2
    <3>2. QED
      BY <1>5, <3>1 DEF Nested
  <2>3. QED
    BY <2>1, <2>2
<1>7. \A j \in 1..(Len(G) - 1) : Waits(G[j]) /\ G[j + 1].node = NextPart(G[j])
  <2> SUFFICES ASSUME NEW j \in 1..(Len(G) - 1) PROVE Waits(G[j]) /\ G[j + 1].node = NextPart(G[j])
    OBVIOUS
  <2>1. j \in 1..n
    BY <1>1, <1>5
  <2>2. CASE j = n
    BY <1>3, <1>5, <2>1, <2>2
  <2>3. CASE j # n
    <3>1. j \in 1..(n - 1) /\ j + 1 \in 1..n
      BY <1>1, <2>1, <2>3
    <3>2. Waits(F[j]) /\ F[j + 1].node = NextPart(F[j])
      BY <3>1 DEF Nested
    <3>3. QED
      BY <1>5, <2>1, <3>1, <3>2
  <2>4. QED
    BY <2>2, <2>3
<1>8. G[1].node = Top(e)
  BY <1>1, <1>5 DEF Nested
<1>9. Nested(G, e)
  BY <1>1, <1>5, <1>6, <1>7, <1>8 DEF Nested
<1>10. QED
  BY <1>9 DEF G, x

\* The frames below.
LEMMA NestedPop ==
  ASSUME Nestings = Nat, NEW F, NEW e, Nested(F, e), Len(F) # 1
  PROVE  LET B == SubSeq(F, 1, Len(F) - 1)
         IN  /\ Nested(B, e) /\ Len(B) = Len(F) - 1 /\ Len(B) \in Nat \ {0}
             /\ \A j \in 1..Len(B) : B[j] = F[j]
             /\ Waits(B[Len(B)]) /\ F[Len(F)].node = NextPart(B[Len(B)])
<1> DEFINE n == Len(F)
           B == SubSeq(F, 1, n - 1)
<1>1. n \in Nat \ {0} /\ n - 1 \in Nat \ {0} /\ \A j \in 1..n : F[j] \in Frames
  BY NestedIs
<1>2. B \in Seq(Frames) /\ Len(B) = n - 1 /\ \A j \in 1..(n - 1) : B[j] = F[j]
  <2>1. \A j \in 1..(n - 1) : F[j] \in Frames
    BY <1>1
  <2>2. /\ B \in Seq(Frames) /\ Len(B) = (IF 1 <= n - 1 THEN (n - 1) - 1 + 1 ELSE 0)
        /\ \A i \in 1..((n - 1) - 1 + 1) : B[i] = F[1 + i - 1]
    BY <1>1, <2>1, SubSeqProperties
  <2>3. 1 <= n - 1 /\ (n - 1) - 1 + 1 = n - 1
    <3>1. n - 1 \in Nat \ {0}
      BY <1>1
    <3> DEFINE m == n - 1
    <3> HIDE DEF m
    <3>2. m \in Nat \ {0}
      BY <3>1 DEF m
    <3>3. 1 <= m /\ m - 1 + 1 = m
      BY <3>2
    <3>4. QED
      BY <3>3 DEF m
  <2>4. Len(B) = n - 1
    BY <2>2, <2>3
  <2>5. ASSUME NEW j \in 1..(n - 1) PROVE B[j] = F[j]
    <3>1. j \in 1..((n - 1) - 1 + 1) /\ 1 + j - 1 = j
      BY <1>1, <2>3
    <3>2. B[j] = F[1 + j - 1]
      BY <2>2, <3>1
    <3>3. QED
      BY <3>1, <3>2
  <2>6. QED
    BY <2>2, <2>4, <2>5
<1> HIDE DEF B
<1>3. \A j \in 1..(n - 1) : Waits(F[j]) /\ F[j + 1].node = NextPart(F[j]) /\ Len(F[j].evald) <= Len(Parts(F[j].node))
  BY <1>1 DEF Nested
<1>4. \A j \in 1..(Len(B) - 1) : Waits(B[j]) /\ B[j + 1].node = NextPart(B[j])
  <2> SUFFICES ASSUME NEW j \in 1..(Len(B) - 1) PROVE Waits(B[j]) /\ B[j + 1].node = NextPart(B[j])
    OBVIOUS
  <2>1. j \in 1..(n - 1) /\ j + 1 \in 1..(n - 1)
    BY <1>1, <1>2
  <2>2. QED
    BY <1>2, <1>3, <2>1
<1>5. B[1].node = Top(e)
  <2>1. 1 \in 1..(n - 1)
    BY <1>1
  <2>2. B[1] = F[1]
    BY <1>2, <2>1
  <2>3. QED
    BY <2>2 DEF Nested
<1>6. Nested(B, e)
  BY <1>1, <1>2, <1>3, <1>4, <1>5 DEF Nested
<1>7. Waits(B[Len(B)]) /\ F[n].node = NextPart(B[Len(B)])
  <2>1. n - 1 \in 1..(n - 1) /\ (n - 1) + 1 = n
    BY <1>1
  <2>2. QED
    BY <1>2, <1>3, <2>1
<1>8. QED
  BY <1>1, <1>2, <1>6, <1>7 DEF B

\* A value for the next part.
WithValue(F, v) == [F EXCEPT ![Len(F)].evald = Append(@, v)]

\* The frames after that.
LEMMA WithValueIs ==
  ASSUME Nestings = Nat, NEW F \in Seq(Frames), Len(F) # 0, NEW v \in Values
  PROVE  /\ WithValue(F, v) \in Seq(Frames) /\ Len(WithValue(F, v)) = Len(F)
         /\ \A j \in 1..Len(F) : WithValue(F, v)[j].node = F[j].node
         /\ \A j \in 1..(Len(F) - 1) : WithValue(F, v)[j] = F[j]
         /\ WithValue(F, v)[Len(F)].evald = Append(F[Len(F)].evald, v)
<1> DEFINE n == Len(F)
           x == [F[n] EXCEPT !.evald = Append(@, v)]
           G == [F EXCEPT ![n] = x]
<1>1. n \in Nat \ {0} /\ n \in 1..n /\ F[n] \in Frames
  BY SeqIsFunction
<1>2. Append(F[n].evald, v) \in Seq(Values)
  BY <1>1, FrameIs, AppendProperties
<1>3. x.node = F[n].node /\ x.evald = Append(F[n].evald, v) /\ x \in Frames
  BY <1>1, <1>2 DEF Frames
<1>4. WithValue(F, v) = G
  BY DEF WithValue
<1> HIDE DEF x
<1>5. G \in Seq(Frames) /\ Len(G) = n /\ \A j \in 1..n : G[j] = IF j = n THEN x ELSE F[j]
  BY <1>1, <1>3, ExceptSeq
<1> HIDE DEF G
<1>6. QED
  BY <1>1, <1>3, <1>4, <1>5

\* The nodes are nested as before.
LEMMA NestedValue ==
  ASSUME Nestings = Nat, NEW F, NEW e, Nested(F, e), Waits(F[Len(F)]), NEW v \in Values
  PROVE  Nested(WithValue(F, v), e)
<1> DEFINE n == Len(F)
           G == WithValue(F, v)
<1>1. n \in Nat \ {0} /\ F \in Seq(Frames) /\ F[n] \in Frames
  BY NestedIs DEF Nested
<1>2. /\ G \in Seq(Frames) /\ Len(G) = n
      /\ \A j \in 1..n : G[j].node = F[j].node
      /\ \A j \in 1..(n - 1) : G[j] = F[j]
      /\ G[n].evald = Append(F[n].evald, v)
  BY <1>1, WithValueIs
<1>3. Len(G[n].evald) = Len(F[n].evald) + 1 /\ Len(F[n].evald) \in Nat
  BY <1>1, <1>2, FrameIs, AppendProperties
<1> HIDE DEF G
<1>4. \A j \in 1..Len(G) : Len(G[j].evald) <= Len(Parts(G[j].node))
  <2> SUFFICES ASSUME NEW j \in 1..Len(G) PROVE Len(G[j].evald) <= Len(Parts(G[j].node))
    OBVIOUS
  <2>1. CASE j = n
    <3>1. Len(Parts(F[n].node)) \in Nat /\ Len(F[n].evald) < Len(Parts(F[n].node))
      BY <1>1, FrameIs DEF Waits
    <3>2. QED
      BY <1>1, <1>2, <1>3, <2>1, <3>1
  <2>2. CASE j # n
    <3>1. j \in 1..(n - 1) /\ j \in 1..n
      BY <1>1, <1>2, <2>2
    <3>2. QED
      BY <1>2, <3>1 DEF Nested
  <2>3. QED
    BY <2>1, <2>2
<1>5. \A j \in 1..(Len(G) - 1) : Waits(G[j]) /\ G[j + 1].node = NextPart(G[j])
  <2> SUFFICES ASSUME NEW j \in 1..(Len(G) - 1) PROVE Waits(G[j]) /\ G[j + 1].node = NextPart(G[j])
    OBVIOUS
  <2>1. j \in 1..(n - 1) /\ j + 1 \in 1..n
    BY <1>1, <1>2
  <2>2. Waits(F[j]) /\ F[j + 1].node = NextPart(F[j])
    BY <2>1 DEF Nested
  <2>3. QED
    BY <1>2, <2>1, <2>2
<1>6. G[1].node = Top(e)
  BY <1>1, <1>2 DEF Nested
<1>7. QED
  BY <1>1, <1>2, <1>4, <1>5, <1>6 DEF Nested, G

-----------------------------------------------------------------------------
(* What the evaluation of a top-level expression has done so far means.    *)

\* The values of a frame are what the first parts of its node mean.
HasMeant(x, before, now) ==
  After(Means, Parts(x.node), before)[Len(x.evald)] = Meaning(LastingSeq(x.evald), now)
Passes(F, E) ==
  /\ E \in [1..(Len(F) + 1) -> Environments]
  /\ \A j \in 1..Len(F) : HasMeant(F[j], E[j], E[j + 1])
\* The environment is `a' when the evaluation starts and `b' now.
Evaluating(F, e, a, b) ==
  /\ Nested(F, e)
  /\ \E E : Passes(F, E) /\ E[1] = a /\ E[Len(F) + 1] = b

\* The fields of a meaning.
LEMMA MeaningIs ==
  ASSUME NEW v, NEW c
  PROVE  /\ Meaning(v, c).how = "value" /\ Meaning(v, c).value = v /\ Meaning(v, c).env = c
         /\ \A w, d : Meaning(v, c) = Meaning(w, d) => v = w /\ c = d
<1>1. Meaning(v, c).how = "value" /\ Meaning(v, c).value = v /\ Meaning(v, c).env = c
  BY DEF Meaning
<1>2. ASSUME NEW w, NEW d, Meaning(v, c) = Meaning(w, d) PROVE v = w /\ c = d
  <2>1. Meaning(w, d).value = w /\ Meaning(w, d).env = d
    BY DEF Meaning
  <2>2. QED
    BY <1>1, <1>2, <2>1
<1>3. QED
  BY <1>1, <1>2

\* No value means nothing more.
LEMMA NoLasting == LastingSeq(<<>>) = <<>>
<1>1. DOMAIN <<>> = {}
  OBVIOUS
<1>2. QED
  BY <1>1 DEF LastingSeq

\* What the next part makes of it.
LEMMA AfterNext ==
  ASSUME Nestings = Nat, NEW x \in Frames, Waits(x), NEW c, NEW d, HasMeant(x, c, d)
  PROVE  LET this == Means[NextPart(x)][d]
             then == After(Means, Parts(x.node), c)[Len(x.evald) + 1]
         IN  /\ this.how # "value" => then = this
             /\ this.how = "value" => then = Meaning(Append(LastingSeq(x.evald), this.value), this.env)
<1> DEFINE es == Parts(x.node)
           k == Len(x.evald)
           this == Means[NextPart(x)][d]
           then == After(Means, es, c)[k + 1]
           before == After(Means, es, c)[k]
<1>1. k \in Nat /\ Len(es) \in Nat /\ NextPart(x) = es[k + 1]
  BY FrameIs DEF NextPart
<1>2. k + 1 \in 1..Len(es) /\ (k + 1) - 1 = k
  <2>1. k < Len(es)
    BY DEF Waits
  <2> HIDE DEF k, es
  <2>2. QED
    BY <1>1, <2>1
<1> HIDE DEF es, k
<1>3. After(Means, es, c)[k + 1] = Then(Means, es, k + 1, After(Means, es, c)[(k + 1) - 1])
  BY <1>1, <1>2, AfterIs
<1>4. then = Then(Means, es, k + 1, before)
  BY <1>2, <1>3
<1>5. before = Meaning(LastingSeq(x.evald), d)
  BY DEF HasMeant, es, k
<1>6. before.how = "value" /\ before.value = LastingSeq(x.evald) /\ before.env = d
  BY <1>5, MeaningIs
<1> HIDE DEF then, before
<1>7. this = Means[es[k + 1]][before.env]
  BY <1>1, <1>6
<1> HIDE DEF this
<1>8. /\ this.how # "value" => then = this
      /\ this.how = "value" => then = Meaning(Append(LastingSeq(x.evald), this.value), this.env)
  BY <1>4, <1>6, <1>7 DEF Then
<1>9. QED
  BY <1>8 DEF this, then, es, k

\* An evaluation starts.
LEMMA EvaluationStarts ==
  ASSUME Nestings = Nat, NEW e \in Trees, NEW a \in Environments
  PROVE  Evaluating(<<Frame(Top(e))>>, e, a, a)
<1> DEFINE x == Frame(Top(e))
           F == <<x>>
           E == [j \in 1..2 |-> a]
<1>1. Nested(F, e)
  BY NestedTop
<1>2. Len(F) = 1 /\ F[1] = x
  OBVIOUS
<1>3. x.node = Top(e) /\ x.evald = <<>> /\ Parts(x.node) = <<e>>
  BY DEF Frame, Top, Parts
<1> HIDE DEF x, F
<1>4. HasMeant(x, a, a)
  <2>1. Len(x.evald) = 0 /\ Len(Parts(x.node)) \in Nat
    BY <1>3
  <2>2. After(Means, Parts(x.node), a)[0] = Meaning(<<>>, a)
    BY <2>1, AfterIs
  <2>3. QED
    BY <1>3, <2>1, <2>2, NoLasting DEF HasMeant
<1>5. E \in [1..2 -> Environments] /\ E[1] = a /\ E[2] = a
  OBVIOUS
<1> HIDE DEF E
<1>6. \A j \in 1..Len(F) : HasMeant(F[j], E[j], E[j + 1])
  <2> SUFFICES ASSUME NEW j \in 1..Len(F) PROVE HasMeant(F[j], E[j], E[j + 1])
    OBVIOUS
  <2>1. j = 1
    BY <1>2
  <2>2. j + 1 = 2
    BY <2>1
  <2>3. QED
    BY <1>2, <1>4, <1>5, <2>1, <2>2
<1>7. Len(F) + 1 = 2
  BY <1>2
<1>8. Passes(F, E)
  BY <1>5, <1>6, <1>7 DEF Passes
<1>9. QED
  BY <1>1, <1>5, <1>7, <1>8 DEF Evaluating, F, x

\* A node more.
LEMMA EvaluationPush ==
  ASSUME Nestings = Nat, NEW F, NEW e, NEW a, NEW b, Evaluating(F, e, a, b), Waits(F[Len(F)])
  PROVE  Evaluating(Append(F, Frame(NextPart(F[Len(F)]))), e, a, b)
<1> DEFINE n == Len(F)
           x == Frame(NextPart(F[n]))
           G == Append(F, x)
<1>1. Nested(F, e) /\ n \in Nat \ {0} /\ F[n] \in Frames /\ F \in Seq(Frames)
  BY NestedIs DEF Evaluating, Nested
<1>2. Nested(G, e)
  BY <1>1, NestedPush
<1>3. PICK E : Passes(F, E) /\ E[1] = a /\ E[n + 1] = b
  BY DEF Evaluating
<1>4. NextPart(F[n]) \in Trees
  BY <1>1, FrameIs
<1>5. x.node = NextPart(F[n]) /\ x.evald = <<>> /\ x \in Frames
  <2>1. <<>> \in Seq(Values)
    OBVIOUS
  <2>2. QED
    BY <1>4, <2>1 DEF Frame, Frames
<1>6. HasMeant(x, b, b)
  <2>1. Len(x.evald) = 0 /\ Len(Parts(x.node)) \in Nat
    BY <1>5, FrameIs
  <2>2. After(Means, Parts(x.node), b)[0] = Meaning(<<>>, b)
    BY <2>1, AfterIs
  <2>3. QED
    BY <1>5, <2>1, <2>2, NoLasting DEF HasMeant
<1>7. /\ Len(G) = n + 1 /\ G[n + 1] = x
      /\ \A i \in 1..n : G[i] = F[i]
  BY <1>1, <1>5, AppendProperties
<1> HIDE DEF x, G
<1> DEFINE D == [j \in 1..((n + 1) + 1) |-> IF j = (n + 1) + 1 THEN b ELSE E[j]]
<1> HIDE DEF n
<1>8. E \in [1..(n + 1) -> Environments] /\ \A j \in 1..n : HasMeant(F[j], E[j], E[j + 1])
  BY <1>3 DEF Passes, n
<1>9. b \in Environments
  <2>1. n + 1 \in 1..(n + 1)
    BY <1>1
  <2>2. QED
    BY <1>3, <1>8, <2>1
<1>10. /\ D \in [1..((n + 1) + 1) -> Environments]
       /\ \A j \in 1..(n + 1) : D[j] = E[j]
       /\ D[(n + 1) + 1] = b
  <2>1. ASSUME NEW j \in 1..((n + 1) + 1) PROVE (IF j = (n + 1) + 1 THEN b ELSE E[j]) \in Environments
    <3>1. j # (n + 1) + 1 => j \in 1..(n + 1)
      BY <1>1
    <3>2. QED
      BY <1>8, <1>9, <3>1
  <2>2. D \in [1..((n + 1) + 1) -> Environments]
    BY <2>1
  <2>3. ASSUME NEW j \in 1..(n + 1) PROVE D[j] = E[j]
    <3>1. j \in 1..((n + 1) + 1) /\ j # (n + 1) + 1
      BY <1>1
    <3>2. QED
      BY <3>1
  <2>4. (n + 1) + 1 \in 1..((n + 1) + 1)
    BY <1>1
  <2>5. D[(n + 1) + 1] = b
    BY <2>4
  <2>6. QED
    BY <2>2, <2>3, <2>5
<1> HIDE DEF D
<1>11. \A j \in 1..Len(G) : HasMeant(G[j], D[j], D[j + 1])
  <2> SUFFICES ASSUME NEW j \in 1..(n + 1) PROVE HasMeant(G[j], D[j], D[j + 1])
    BY <1>7
  <2>1. CASE j = n + 1
    <3>1. n + 1 \in 1..(n + 1)
      BY <1>1
    <3>2. G[j] = x /\ D[j] = b /\ D[j + 1] = b
      BY <1>3, <1>7, <1>10, <2>1, <3>1 DEF n
    <3>3. QED
      BY <1>6, <3>2
  <2>2. CASE j # n + 1
    <3>1. j \in 1..n /\ j + 1 \in 1..(n + 1)
      BY <1>1, <2>2
    <3>2. G[j] = F[j] /\ D[j] = E[j] /\ D[j + 1] = E[j + 1]
      BY <1>7, <1>10, <3>1
    <3>3. QED
      BY <1>8, <3>1, <3>2
  <2>3. QED
    BY <2>1, <2>2
<1>12. Passes(G, D) /\ D[Len(G) + 1] = b
  BY <1>7, <1>10, <1>11 DEF Passes
<1>13. D[1] = a
  <2>1. 1 \in 1..(n + 1)
    BY <1>1
  <2>2. QED
    BY <1>3, <1>10, <2>1
<1>14. QED
  BY <1>2, <1>12, <1>13 DEF Evaluating, G, x, n

\* The evaluation below the last node.
LEMMA EvaluationPop ==
  ASSUME Nestings = Nat, NEW F, NEW e, NEW a, NEW b, Evaluating(F, e, a, b), Len(F) # 1
  PROVE  \E c \in Environments :
           Evaluating(SubSeq(F, 1, Len(F) - 1), e, a, c) /\ HasMeant(F[Len(F)], c, b)
<1> DEFINE n == Len(F)
           B == SubSeq(F, 1, n - 1)
<1>1. Nested(F, e)
  BY DEF Evaluating
<1>2. Nested(B, e) /\ Len(B) = n - 1 /\ n - 1 \in Nat \ {0} /\ \A j \in 1..(n - 1) : B[j] = F[j]
  <2>1. /\ Nested(B, e) /\ Len(B) = n - 1 /\ Len(B) \in Nat \ {0}
        /\ \A j \in 1..Len(B) : B[j] = F[j]
    BY <1>1, NestedPop
  <2> HIDE DEF B, n
  <2>2. QED
    BY <2>1
<1>3. PICK E : Passes(F, E) /\ E[1] = a /\ E[n + 1] = b
  BY DEF Evaluating
<1>4. E \in [1..(n + 1) -> Environments] /\ \A j \in 1..n : HasMeant(F[j], E[j], E[j + 1])
  BY <1>3 DEF Passes
<1>5. n \in Nat \ {0}
  BY <1>1, NestedIs
<1> HIDE DEF B, n
<1>6. n \in 1..n /\ n \in 1..(n + 1) /\ 1 \in 1..n /\ (n - 1) + 1 = n
  BY <1>5
<1>7. E[n] \in Environments /\ HasMeant(F[n], E[n], b)
  BY <1>3, <1>4, <1>6
<1> DEFINE D == [j \in 1..n |-> E[j]]
<1>8. D \in [1..n -> Environments] /\ \A j \in 1..n : D[j] = E[j]
  <2>1. \A j \in 1..n : j \in 1..(n + 1)
    BY <1>5
  <2>2. QED
    BY <1>4, <2>1
<1> HIDE DEF D
<1>9. \A j \in 1..(n - 1) : HasMeant(B[j], D[j], D[j + 1])
  <2> SUFFICES ASSUME NEW j \in 1..(n - 1) PROVE HasMeant(B[j], D[j], D[j + 1])
    OBVIOUS
  <2>1. j \in 1..n /\ j + 1 \in 1..n
    BY <1>5
  <2>2. QED
    BY <1>2, <1>4, <1>8, <2>1
<1>10. Passes(B, D)
  BY <1>2, <1>6, <1>8, <1>9 DEF Passes
<1>11. D[1] = a /\ D[Len(B) + 1] = E[n]
  BY <1>2, <1>3, <1>6, <1>8
<1>12. Evaluating(B, e, a, E[n])
  BY <1>2, <1>10, <1>11 DEF Evaluating
<1>13. QED
  BY <1>7, <1>12 DEF B, n

\* The environments of an evaluation.
LEMMA EvaluationEnvironments ==
  ASSUME Nestings = Nat, NEW F, NEW e, NEW a, NEW b, Evaluating(F, e, a, b)
  PROVE  a \in Environments /\ b \in Environments
<1>1. PICK E : Passes(F, E) /\ E[1] = a /\ E[Len(F) + 1] = b
  BY DEF Evaluating
<1>2. Len(F) \in Nat \ {0} /\ E \in [1..(Len(F) + 1) -> Environments]
  BY <1>1, NestedIs DEF Evaluating, Passes
<1> DEFINE n == Len(F)
<1>3. n \in Nat \ {0}
  BY <1>2
<1> HIDE DEF n
<1>4. 1 \in 1..(n + 1) /\ n + 1 \in 1..(n + 1)
  BY <1>3
<1>5. QED
  BY <1>1, <1>2, <1>4 DEF n

\* The next part has a value.
LEMMA EvaluationValue ==
  ASSUME Nestings = Nat, NEW F, NEW e, NEW a, NEW b, Evaluating(F, e, a, b), Waits(F[Len(F)]),
         NEW v \in Values, NEW d \in Environments,
         Means[NextPart(F[Len(F)])][b] = Meaning(Lasting[v], d)
  PROVE  Evaluating(WithValue(F, v), e, a, d)
<1> DEFINE n == Len(F)
           G == WithValue(F, v)
<1>1. Nested(F, e) /\ n \in Nat \ {0} /\ F \in Seq(Frames) /\ F[n] \in Frames
  BY NestedIs DEF Evaluating, Nested
<1>2. Nested(G, e)
  BY <1>1, NestedValue
<1>3. /\ Len(G) = n
      /\ \A j \in 1..n : G[j].node = F[j].node
      /\ \A j \in 1..(n - 1) : G[j] = F[j]
      /\ G[n].evald = Append(F[n].evald, v)
  BY <1>1, WithValueIs
<1>4. PICK E : Passes(F, E) /\ E[1] = a /\ E[n + 1] = b
  BY DEF Evaluating
<1>5. E \in [1..(n + 1) -> Environments] /\ \A j \in 1..n : HasMeant(F[j], E[j], E[j + 1])
  BY <1>4 DEF Passes
<1>6. Means[NextPart(F[n])][b] = Meaning(Lasting[v], d) /\ Waits(F[n])
  OBVIOUS
<1> HIDE DEF n, G
<1>7. n \in 1..n
  BY <1>1
<1>8. HasMeant(G[n], E[n], d)
  <2> DEFINE x == F[n]
             y == G[n]
  <2>1. HasMeant(x, E[n], b)
    BY <1>4, <1>5, <1>7
  <2>2. x \in Frames /\ Waits(x) /\ y.node = x.node /\ y.evald = Append(x.evald, v) /\ Means[NextPart(x)][b] = Meaning(Lasting[v], d)
    BY <1>1, <1>3, <1>6, <1>7
  <2> HIDE DEF x, y
  <2>3. x.evald \in Seq(Values)
    BY <2>2, FrameIs
  <2>4. Len(y.evald) = Len(x.evald) + 1 /\ LastingSeq(y.evald) = Append(LastingSeq(x.evald), Lasting[v])
    BY <2>2, <2>3, LastingAppend
  <2> DEFINE this == Means[NextPart(x)][b]
             then == After(Means, Parts(x.node), E[n])[Len(x.evald) + 1]
  <2>5. this.how = "value" /\ this.value = Lasting[v] /\ this.env = d
    BY <2>2, MeaningIs
  <2>6. this.how = "value" => then = Meaning(Append(LastingSeq(x.evald), this.value), this.env)
    BY <2>1, <2>2, AfterNext
  <2>7. then = Meaning(Append(LastingSeq(x.evald), Lasting[v]), d)
    BY <2>5, <2>6
  <2> HIDE DEF this
  <2>8. HasMeant(y, E[n], d)
    BY <2>2, <2>4, <2>7 DEF HasMeant
  <2>9. QED
    BY <2>8 DEF y
<1> DEFINE D == [j \in 1..(n + 1) |-> IF j = n + 1 THEN d ELSE E[j]]
<1>9. /\ D \in [1..(n + 1) -> Environments]
      /\ \A j \in 1..n : D[j] = E[j]
      /\ D[n + 1] = d
  <2>1. ASSUME NEW j \in 1..(n + 1) PROVE (IF j = n + 1 THEN d ELSE E[j]) \in Environments
    BY <1>5
  <2>2. D \in [1..(n + 1) -> Environments]
    BY <2>1
  <2>3. ASSUME NEW j \in 1..n PROVE D[j] = E[j]
    <3>1. j \in 1..(n + 1) /\ j # n + 1
      BY <1>1
    <3>2. QED
      BY <3>1
  <2>4. n + 1 \in 1..(n + 1)
    BY <1>1
  <2>5. D[n + 1] = d
    BY <2>4
  <2>6. QED
    BY <2>2, <2>3, <2>5
<1> HIDE DEF D
<1>10. \A j \in 1..n : HasMeant(G[j], D[j], D[j + 1])
  <2> SUFFICES ASSUME NEW j \in 1..n PROVE HasMeant(G[j], D[j], D[j + 1])
    OBVIOUS
  <2>1. CASE j = n
    <3>1. D[j] = E[n] /\ D[j + 1] = d
      BY <1>7, <1>9, <2>1
    <3>2. QED
      BY <1>8, <2>1, <3>1
  <2>2. CASE j # n
    <3>1. j \in 1..(n - 1) /\ j + 1 \in 1..n
      BY <1>1, <2>2
    <3>2. G[j] = F[j] /\ D[j] = E[j] /\ D[j + 1] = E[j + 1]
      BY <1>3, <1>9, <3>1
    <3>3. QED
      BY <1>5, <3>2
  <2>3. QED
    BY <2>1, <2>2
<1>11. Passes(G, D) /\ D[Len(G) + 1] = d
  BY <1>3, <1>9, <1>10 DEF Passes
<1>12. D[1] = a
  <2>1. 1 \in 1..n
    BY <1>1
  <2>2. QED
    BY <1>4, <1>9, <2>1
<1>13. QED
  BY <1>2, <1>11, <1>12 DEF Evaluating, G

\* A node whose parts cannot all be evaluated cannot be, either.
LEMMA PartFails ==
  ASSUME Nestings = Nat, NEW x \in Frames, Waits(x), x.node \in Trees,
         NEW c \in Environments, NEW d, HasMeant(x, c, d),
         Means[NextPart(x)][d].how # "value"
  PROVE  Means[x.node][c] = Means[NextPart(x)][d]
<1> DEFINE es == Parts(x.node)
           this == Means[NextPart(x)][d]
           parts == After(Means, es, c)
           k == Len(x.evald) + 1
<1>1. parts[k] = this
  BY AfterNext
<1>2. Len(es) \in Nat /\ Len(x.evald) \in Nat /\ Len(x.evald) < Len(es)
  BY FrameIs DEF Waits
<1>3. k \in 0..Len(es) /\ Len(es) \in k..Len(es) /\ Len(es) # 0
  BY <1>2
<1>4. parts[Len(es)] = this
  <2> HIDE DEF es, this, k
  <2>1. parts[k].how # "value"
    BY <1>1 DEF this
  <2>2. parts[Len(es)] = parts[k]
    BY <1>2, <1>3, <2>1, AfterFails
  <2>3. QED
    BY <1>1, <2>2
<1>5. x.node.tag = "Tuple" \/ x.node.tag = "Apply"
  <2>1. CASE x.node.tag \in Leaves
    <3>1. es = <<>>
      BY <2>1 DEF Parts, Leaves
    <3>2. QED
      BY <1>3, <3>1
  <2>2. CASE x.node.tag = "Quote"
    <3>1. es = <<>>
      BY <2>2 DEF Parts
    <3>2. QED
      BY <1>3, <3>1
  <2>3. QED
    BY <2>1, <2>2, TreeIs
<1>6. Means[x.node][c] = MeansGiven(Means, x.node, c)
  BY MeansIs
<1>7. parts[Len(es)].how # "value"
  BY <1>4
<1> HIDE DEF this
<1>8. QED
  <2>1. MeansGiven(Means, x.node, c) = parts[Len(es)]
    <3>1. CASE x.node.tag = "Tuple"
      BY <1>7, <3>1 DEF MeansGiven
    <3>2. CASE x.node.tag = "Apply"
      BY <1>7, <3>2 DEF MeansGiven
    <3>3. QED
      BY <1>5, <3>1, <3>2
  <2>2. QED
    BY <1>4, <1>6, <2>1 DEF this

\* The first frame's part is the expression.
LEMMA FirstPart ==
  ASSUME Nestings = Nat, NEW F, NEW e, NEW a, NEW b, Evaluating(F, e, a, b), Len(F) = 1
  PROVE  /\ Parts(F[1].node) = <<e>> /\ HasMeant(F[1], a, b) /\ F[1] \in Frames /\ F[1].evald \in Seq(Values)
         /\ Waits(F[1]) => NextPart(F[1]) = e /\ a = b
<1>1. PICK E : Passes(F, E) /\ E[1] = a /\ E[Len(F) + 1] = b
  BY DEF Evaluating
<1>2. HasMeant(F[1], a, b)
  <2>1. 1 \in 1..Len(F) /\ Len(F) + 1 = 1 + 1
    BY NestedIs
  <2>2. QED
    BY <1>1, <2>1 DEF Passes
<1>3. Parts(F[1].node) = <<e>>
  BY DEF Evaluating, Nested, Parts, Top
<1>4. F[1] \in Frames
  BY NestedIs DEF Evaluating
<1>5. ASSUME Waits(F[1]) PROVE NextPart(F[1]) = e /\ a = b
  <2>1. Len(F[1].evald) = 0
    BY <1>3, <1>4, <1>5, FrameIs DEF Waits
  <2>2. NextPart(F[1]) = e
    BY <1>3, <2>1 DEF NextPart
  <2>3. After(Means, Parts(F[1].node), a)[0] = Meaning(<<>>, a)
    BY <1>3, AfterIs
  <2>4. Meaning(<<>>, a) = Meaning(LastingSeq(F[1].evald), b)
    BY <1>2, <2>1, <2>3 DEF HasMeant
  <2>5. QED
    BY <2>2, <2>4, MeaningIs
<1>6. QED
  BY <1>2, <1>3, <1>4, <1>5, FrameIs

\* An expression whose next part cannot be evaluated cannot be, either.
FailsAt(n) ==
  \A F, e, a, b :
    Evaluating(F, e, a, b) /\ Len(F) = n /\ Waits(F[n]) /\ Means[NextPart(F[n])][b].how # "value"
      => Means[e][a] = Means[NextPart(F[n])][b]

\* However deeply the part lies in the expression.
LEMMA EvaluationFails ==
  ASSUME Nestings = Nat
  PROVE  \A n \in Nat \ {0} : FailsAt(n)
<1> DEFINE T == {n \in Nat : n # 0 => FailsAt(n)}
<1>1. 0 \in T
  OBVIOUS
<1>2. ASSUME NEW m \in Nat, m \in T PROVE m + 1 \in T
  <2> DEFINE n == m + 1
  <2> SUFFICES FailsAt(n)
    BY <1>2
  <2> SUFFICES ASSUME NEW F, NEW e, NEW a, NEW b, Evaluating(F, e, a, b), Len(F) = n, Waits(F[n]),
                      Means[NextPart(F[n])][b].how # "value"
               PROVE Means[e][a] = Means[NextPart(F[n])][b]
    BY DEF FailsAt
  <2>1. CASE n = 1
    BY <2>1, FirstPart
  <2>2. CASE n # 1
    <3> DEFINE B == SubSeq(F, 1, Len(F) - 1)
    <3>1. PICK c \in Environments : Evaluating(B, e, a, c) /\ HasMeant(F[Len(F)], c, b)
      BY <2>2, EvaluationPop
    <3>2. Nested(F, e) /\ F[Len(F)] \in Frames
      BY NestedIs DEF Evaluating
    <3>3. Len(B) = m /\ Waits(B[Len(B)]) /\ F[Len(F)].node = NextPart(B[Len(B)])
      <4>1. Len(B) = Len(F) - 1 /\ Waits(B[Len(B)]) /\ F[Len(F)].node = NextPart(B[Len(B)])
        BY <2>2, <3>2, NestedPop
      <4>2. Len(B) = m
        BY <4>1
      <4>3. QED
        BY <4>1, <4>2
    <3>4. F[n].node \in Trees
      <4>1. n \in 2..Len(F)
        BY <2>2
      <4>2. QED
        BY <3>2, <4>1, NestedIs
    <3>5. Means[F[n].node][c] = Means[NextPart(F[n])][b]
      <4>1. F[n] \in Frames /\ HasMeant(F[n], c, b)
        BY <3>1, <3>2
      <4>2. QED
        BY <3>4, <4>1, PartFails
    <3> HIDE DEF B
    <3>6. FailsAt(m)
      BY <1>2, <2>2
    <3>7. Evaluating(B, e, a, c) /\ Len(B) = m /\ Waits(B[m]) /\ NextPart(B[m]) = F[n].node
      BY <3>1, <3>3
    <3>8. Means[NextPart(B[m])][c].how # "value"
      BY <3>5, <3>7
    <3>9. Means[e][a] = Means[NextPart(B[m])][c]
      BY <3>6, <3>7, <3>8 DEF FailsAt
    <3>10. QED
      BY <3>5, <3>7, <3>9
  <2>3. QED
    BY <2>1, <2>2
<1> HIDE DEF T
<1>3. \A n \in Nat : n \in T
  BY <1>1, <1>2, AllNumbers
<1>4. QED
  BY <1>3 DEF T

\* The evaluation of a top-level expression is over.
LEMMA EvaluationEnds ==
  ASSUME Nestings = Nat, NEW F, NEW e \in Trees, NEW a, NEW b, Evaluating(F, e, a, b), Len(F) = 1,
         ~Waits(F[1])
  PROVE  Means[e][a].how = "value" /\ Means[e][a].env = b
<1> DEFINE x == F[1]
<1>1. Parts(x.node) = <<e>> /\ HasMeant(x, a, b) /\ x \in Frames /\ x.evald \in Seq(Values)
  BY FirstPart
<1>2. Len(x.evald) = 1
  <2>1. Len(x.evald) <= Len(Parts(x.node))
    BY DEF Evaluating, Nested
  <2>2. QED
    BY <1>1, <2>1 DEF Waits
<1> HIDE DEF x
<1>3. After(Means, <<e>>, a)[1] = Meaning(LastingSeq(x.evald), b)
  BY <1>1, <1>2 DEF HasMeant
<1>4. After(Means, <<e>>, a)[0] = Meaning(<<>>, a) /\ After(Means, <<e>>, a)[1] = Then(Means, <<e>>, 1, After(Means, <<e>>, a)[1 - 1])
  <2> DEFINE es == <<e>>
  <2>1. Len(es) \in Nat /\ 1 \in 1..Len(es)
    OBVIOUS
  <2> HIDE DEF es
  <2>2. After(Means, es, a)[0] = Meaning(<<>>, a) /\ After(Means, es, a)[1] = Then(Means, es, 1, After(Means, es, a)[1 - 1])
    BY <2>1, AfterIs
  <2>3. QED
    BY <2>2 DEF es
<1> DEFINE first == Meaning(<<>>, a)
           this == Means[e][a]
<1>5. first.how = "value" /\ first.env = a /\ first.value = <<>>
  BY MeaningIs
<1> HIDE DEF first
<1>6. Then(Means, <<e>>, 1, first) = Meaning(LastingSeq(x.evald), b)
  BY <1>3, <1>4 DEF first
<1>7. Then(Means, <<e>>, 1, first) = IF this.how # "value" THEN this ELSE Meaning(Append(<<>>, this.value), this.env)
  BY <1>5 DEF Then
<1>8. this.how = "value"
  BY <1>6, <1>7, MeaningIs
<1>9. Meaning(Append(<<>>, this.value), this.env) = Meaning(LastingSeq(x.evald), b)
  BY <1>6, <1>7, <1>8
<1>10. QED
  BY <1>8, <1>9, MeaningIs

-----------------------------------------------------------------------------
(* What the steps of the shell do is what the program means.               *)

\* A node that has all its values returns one.
LEMMA ReturnIs ==
  ASSUME Nestings = Nat, NEW x \in Frames, x.node \in Trees, ~Waits(x), Len(x.evald) <= Len(Parts(x.node)),
         NEW c \in Environments, NEW b, HasMeant(x, c, b)
  PROVE  /\ x.node.tag = "Tuple" => Means[x.node][c] = Meaning(TupleNode(LastingSeq(x.evald)), b)
         /\ x.node.tag = "Apply" => Means[x.node][c] = Applied(LastingSeq(x.evald), b)
<1> DEFINE es == Parts(x.node)
           parts == After(Means, es, c)[Len(es)]
<1>1. Len(x.evald) = Len(es)
  BY FrameIs DEF Waits
<1>2. parts = Meaning(LastingSeq(x.evald), b)
  BY <1>1 DEF HasMeant
<1>3. parts.how = "value" /\ parts.value = LastingSeq(x.evald) /\ parts.env = b
  BY <1>2, MeaningIs
<1>4. Means[x.node][c] = MeansGiven(Means, x.node, c)
  BY MeansIs
<1>5. CASE x.node.tag = "Tuple"
  <2>1. MeansGiven(Means, x.node, c) = Meaning(TupleNode(parts.value), parts.env)
    BY <1>3, <1>5 DEF MeansGiven
  <2> HIDE DEF parts
  <2>2. QED
    BY <1>3, <1>4, <1>5, <2>1
<1>6. CASE x.node.tag = "Apply"
  <2>1. MeansGiven(Means, x.node, c) = Applied(parts.value, parts.env)
    BY <1>3, <1>6 DEF MeansGiven
  <2> HIDE DEF parts
  <2>2. QED
    BY <1>3, <1>4, <1>6, <2>1
<1>7. QED
  BY <1>5, <1>6

\* The node below gets what it returns.
LEMMA EvaluationReturns ==
  ASSUME Nestings = Nat, NEW F, NEW e, NEW a, NEW b, Evaluating(F, e, a, b), Len(F) # 1, ~Waits(F[Len(F)]),
         NEW v \in Values, NEW d \in Environments,
         \/ /\ F[Len(F)].node.tag = "Tuple" /\ d = b
            /\ Lasting[v] = TupleNode(LastingSeq(F[Len(F)].evald))
         \/ /\ F[Len(F)].node.tag = "Apply"
            /\ Applied(LastingSeq(F[Len(F)].evald), b) = Meaning(Lasting[v], d)
  PROVE  Evaluating(WithValue(SubSeq(F, 1, Len(F) - 1), v), e, a, d)
<1> DEFINE n == Len(F)
           x == F[n]
           B == SubSeq(F, 1, n - 1)
<1>1. Nested(F, e)
  BY DEF Evaluating
<1>2. PICK c \in Environments : Evaluating(B, e, a, c) /\ HasMeant(x, c, b)
  BY EvaluationPop
<1>3. Waits(B[Len(B)]) /\ x.node = NextPart(B[Len(B)])
  BY <1>1, NestedPop
<1>4. x \in Frames /\ x.node \in Trees /\ Len(x.evald) <= Len(Parts(x.node)) /\ ~Waits(x)
  <2>1. n \in Nat \ {0} /\ x \in Frames
    BY <1>1, NestedIs
  <2>2. n \in 2..n /\ n \in 1..n
    <3>1. n \in Nat \ {0} /\ n # 1
      BY <2>1
    <3> HIDE DEF n
    <3>2. QED
      BY <3>1
  <2>3. x.node \in Trees
    BY <1>1, <2>2, NestedIs
  <2>4. Len(x.evald) <= Len(Parts(x.node))
    BY <1>1, <2>2 DEF Nested
  <2>5. QED
    BY <2>1, <2>3, <2>4
<1>5. \/ x.node.tag = "Tuple" /\ d = b /\ Lasting[v] = TupleNode(LastingSeq(x.evald))
      \/ x.node.tag = "Apply" /\ Applied(LastingSeq(x.evald), b) = Meaning(Lasting[v], d)
  OBVIOUS
<1> HIDE DEF x, B, n
<1>6. Means[x.node][c] = Meaning(Lasting[v], d)
  BY <1>2, <1>4, <1>5, ReturnIs
<1>7. Evaluating(WithValue(B, v), e, a, d)
  BY <1>2, <1>3, <1>6, EvaluationValue
<1>8. QED
  BY <1>7 DEF B, n

-----------------------------------------------------------------------------
(* What a program means if one of its expressions cannot be evaluated.     *)

\* What the first expressions of a program mean.
Meant(es) == After(Means, es, {})

\* Expressions that have been evaluated have a meaning.
LEMMA MeantType ==
  ASSUME Nestings = Nat, NEW es \in Seq(Trees)
  PROVE  /\ {} \in Environments /\ Len(es) \in Nat
         /\ Meant(es)[0].how = "value" /\ Meant(es)[0].env = {}
         /\ \A n \in 0..Len(es) : Meant(es)[n].how = "value" => Meant(es)[n].env \in Environments
         /\ \A n \in 1..Len(es) : es[n] \in Trees /\ Meant(es)[n] = Then(Means, es, n, Meant(es)[n - 1])
<1>1. {} \in Environments
  BY DEF Environments
<1>2. Len(es) \in Nat /\ \A n \in 1..Len(es) : es[n] \in Trees
  BY SeqIsFunction
<1>3. \A n \in 1..Len(es) : Means[es[n]] \in Expressed
  BY <1>2, MeansIs
<1>4. \A n \in 0..Len(es) : Meant(es)[n] \in Outcomes(Seq(Values))
  BY <1>1, <1>3, AfterType DEF Meant
<1>5. \A n \in 0..Len(es) : Meant(es)[n].how = "value" => Meant(es)[n].env \in Environments
  BY <1>4, OutcomeIs
<1>6. /\ Meant(es)[0] = Meaning(<<>>, {})
      /\ \A n \in 1..Len(es) : Meant(es)[n] = Then(Means, es, n, Meant(es)[n - 1])
  BY <1>2, AfterIs DEF Meant
<1>7. Meant(es)[0].how = "value" /\ Meant(es)[0].env = {}
  BY <1>6, MeaningIs
<1>8. QED
  BY <1>1, <1>2, <1>5, <1>6, <1>7

\* One expression more has been evaluated.
LEMMA MeantNext ==
  ASSUME Nestings = Nat, NEW es \in Seq(Trees), NEW n \in 1..Len(es), Meant(es)[n - 1].how = "value"
  PROVE  LET this == Means[es[n]][Meant(es)[n - 1].env]
         IN  /\ this.how = "value" => Meant(es)[n].how = "value" /\ Meant(es)[n].env = this.env
             /\ this.how # "value" => Meant(es)[Len(es)] = this
<1> DEFINE before == Meant(es)[n - 1]
           this == Means[es[n]][before.env]
<1>1. Meant(es)[n] = Then(Means, es, n, before) /\ Len(es) \in Nat
  BY MeantType
<1>2. before.how = "value"
  OBVIOUS
<1> HIDE DEF before
<1>3. Meant(es)[n] = IF this.how # "value" THEN this ELSE Meaning(Append(before.value, this.value), this.env)
  BY <1>1, <1>2 DEF Then
<1> HIDE DEF this
<1>4. ASSUME this.how = "value" PROVE Meant(es)[n].how = "value" /\ Meant(es)[n].env = this.env
  BY <1>3, <1>4, MeaningIs
<1>5. ASSUME this.how # "value" PROVE Meant(es)[Len(es)] = this
  <2>1. n \in 0..Len(es) /\ Len(es) \in n..Len(es)
    BY <1>1
  <2>2. After(Means, es, {})[n].how # "value" /\ After(Means, es, {})[n] = this
    BY <1>3, <1>5 DEF Meant
  <2>3. After(Means, es, {})[Len(es)] = After(Means, es, {})[n]
    BY <1>1, <2>1, <2>2, AfterFails
  <2>4. QED
    BY <2>2, <2>3 DEF Meant
<1>6. QED
  BY <1>4, <1>5 DEF this, before

\* The shell evaluates expression number n.
AtWork(F, es, n, b) ==
  /\ n \in 1..Len(es) /\ Meant(es)[n - 1].how = "value"
  /\ Evaluating(F, es[n], Meant(es)[n - 1].env, b)

\* A part that cannot be evaluated.
LEMMA WorkFails ==
  ASSUME Nestings = Nat, NEW es \in Seq(Trees), NEW F, NEW n, NEW b, AtWork(F, es, n, b), Waits(F[Len(F)]),
         Means[NextPart(F[Len(F)])][b].how # "value"
  PROVE  Meant(es)[Len(es)] = Means[NextPart(F[Len(F)])][b]
<1> DEFINE m == Len(F)
           a == Meant(es)[n - 1].env
           r == Means[NextPart(F[m])][b]
<1>1. Evaluating(F, es[n], a, b) /\ n \in 1..Len(es) /\ Meant(es)[n - 1].how = "value"
  BY DEF AtWork
<1>2. m \in Nat \ {0}
  BY <1>1, NestedIs DEF Evaluating
<1>3. Means[es[n]][a] = r
  <2>1. FailsAt(m)
    BY <1>2, EvaluationFails
  <2>2. QED
    BY <1>1, <2>1 DEF FailsAt
<1>4. r.how # "value"
  OBVIOUS
<1> HIDE DEF r
<1>5. Means[es[n]][Meant(es)[n - 1].env].how # "value"
  BY <1>3, <1>4
<1>6. Meant(es)[Len(es)] = Means[es[n]][Meant(es)[n - 1].env]
  BY <1>1, <1>5, MeantNext
<1>7. QED
  BY <1>3, <1>6 DEF r

\* An application that is an error.
LEMMA ApplicationFails ==
  ASSUME Nestings = Nat, NEW es \in Seq(Trees), NEW F, NEW n, NEW b, AtWork(F, es, n, b), ~Waits(F[Len(F)]),
         F[Len(F)].node.tag = "Apply", Applied(LastingSeq(F[Len(F)].evald), b).how # "value"
  PROVE  Meant(es)[Len(es)] = Applied(LastingSeq(F[Len(F)].evald), b)
<1> DEFINE m == Len(F)
           a == Meant(es)[n - 1].env
           x == F[m]
           B == SubSeq(F, 1, m - 1)
           r == Applied(LastingSeq(x.evald), b)
<1>1. Evaluating(F, es[n], a, b) /\ n \in 1..Len(es) /\ Meant(es)[n - 1].how = "value"
  BY DEF AtWork
<1>2. Nested(F, es[n]) /\ m \in Nat \ {0} /\ x \in Frames /\ m # 1
  BY <1>1, NestedIs DEF Evaluating
<1>3. PICK c \in Environments : Evaluating(B, es[n], a, c) /\ HasMeant(x, c, b)
  BY <1>1, <1>2, EvaluationPop
<1>4. Waits(B[Len(B)]) /\ x.node = NextPart(B[Len(B)])
  BY <1>2, NestedPop
<1>5. x.node \in Trees /\ Len(x.evald) <= Len(Parts(x.node))
  <2>1. m \in 2..m /\ m \in 1..m
    <3> HIDE DEF m
    <3>1. QED
      BY <1>2
  <2>2. QED
    BY <1>2, <2>1, NestedIs DEF Nested
<1>6. x.node.tag = "Apply" /\ ~Waits(x) /\ r.how # "value"
  OBVIOUS
<1> HIDE DEF x, B, m
<1>7. Means[x.node][c] = r
  BY <1>2, <1>3, <1>5, <1>6, ReturnIs
<1> HIDE DEF r
<1>8. AtWork(B, es, n, c)
  BY <1>1, <1>3 DEF AtWork
<1>9. Means[NextPart(B[Len(B)])][c].how # "value"
  BY <1>4, <1>6, <1>7
<1>10. Meant(es)[Len(es)] = Means[NextPart(B[Len(B)])][c]
  BY <1>4, <1>8, <1>9, WorkFails
<1>11. QED
  BY <1>4, <1>7, <1>10 DEF r, x, m

\* What is not a tuple or an application is evaluated at once.
LEMMA LeafMeans ==
  ASSUME Nestings = Nat, NEW e \in Trees, NEW b \in Environments
  PROVE  /\ e.tag \in {"Str", "Num", "Char"} => e \in Values /\ Means[e][b] = Meaning(Lasting[e], b)
         /\ e.tag = "Quote" => Quoted(e) \in Values /\ Means[e][b] = Meaning(Lasting[Quoted(e)], b)
<1>1. Means[e][b] = MeansGiven(Means, e, b)
  BY MeansIs
<1>2. \A t \in Trees : t \in Values /\ Lasting[t] = t
  BY TreesAreValues, LastingKeeps
<1>3. CASE e.tag \in {"Str", "Num", "Char"}
  <2>1. MeansGiven(Means, e, b) = Meaning(e, b)
    BY <1>3 DEF MeansGiven
  <2>2. QED
    BY <1>1, <1>2, <1>3, <2>1
<1>4. CASE e.tag = "Quote"
  <2>1. MeansGiven(Means, e, b) = Meaning(e.expr, b)
    BY <1>4 DEF MeansGiven
  <2>2. e.expr \in Trees
    BY <1>4, TreeIs
  <2>3. QED
    BY <1>1, <1>2, <1>4, <2>1, <2>2 DEF Quoted
<1>5. QED
  BY <1>3, <1>4

\* A symbol stands for what the shell finds.
LEMMA SymbolMeans ==
  ASSUME Nestings = Nat, NEW e \in Trees, e.tag = "Sym", SymbolsType(symbols)
  PROVE  /\ resolveSymbol(e.name) = Unresolved => Means[e][Named(symbols)] = Error
         /\ resolveSymbol(e.name) # Unresolved =>
              /\ resolveSymbol(e.name) \in Values
              /\ Means[e][Named(symbols)] = Meaning(Lasting[resolveSymbol(e.name)], Named(symbols))
<1> DEFINE b == Named(symbols)
           n == e.name
<1>1. b \in Environments /\ Defined(b) = DOMAIN symbols /\ \A m \in DOMAIN symbols : Definition(b, m).value = Lasting[symbols[m]]
  BY NamedIs
<1>2. n \in Names /\ e = SymLeaf(n)
  BY TreeIs
<1>3. Means[e][b] = MeansGiven(Means, e, b)
  BY <1>1, MeansIs
<1>4. CASE n \in Builtins
  <2> DEFINE v == [SymLeaf(n) EXCEPT !.builtin = TRUE]
  <2>1. v = [tag |-> "Sym", name |-> n, builtin |-> TRUE]
    BY AsBuiltin
  <2>2. v \in Values
    BY <1>2, <2>1, BuiltValues
  <2>3. v.tag = "Sym"
    BY <2>1
  <2> HIDE DEF v
  <2>4. Lasting[v] = v
    BY <2>2, <2>3, LastingKeeps
  <2>5. resolveSymbol(n) = v
    BY <1>4 DEF resolveSymbol, v
  <2>6. MeansGiven(Means, e, b) = Meaning(v, b)
    <3>1. MeansGiven(Means, e, b) = Meaning([e EXCEPT !.builtin = TRUE], b)
      BY <1>4 DEF MeansGiven
    <3>2. QED
      BY <1>2, <3>1 DEF v
  <2>7. v # Unresolved
    BY <2>3 DEF Unresolved
  <2>8. QED
    BY <1>3, <2>2, <2>4, <2>5, <2>6, <2>7
<1>5. CASE n \notin Builtins /\ n \in DOMAIN symbols
  <2>1. resolveSymbol(n) = symbols[n] /\ symbols[n] \in Values
    BY <1>5 DEF resolveSymbol, SymbolsType
  <2>2. MeansGiven(Means, e, b) = Meaning(Definition(b, n).value, b)
    <3>1. n \in Defined(b)
      BY <1>1, <1>5
    <3>2. QED
      BY <1>5, <3>1 DEF MeansGiven
  <2>3. Definition(b, n).value = Lasting[symbols[n]]
    BY <1>1, <1>5
  <2>4. symbols[n] # Unresolved
    <3>1. symbols[n].tag # "Unresolved"
      BY <2>1, ValueIs DEF Leaves
    <3>2. QED
      BY <3>1 DEF Unresolved
  <2>5. QED
    BY <1>3, <2>1, <2>2, <2>3, <2>4
<1>6. CASE n \notin Builtins /\ n \notin DOMAIN symbols
  <2>1. resolveSymbol(n) = Unresolved
    BY <1>6 DEF resolveSymbol
  <2>2. n \notin Defined(b)
    BY <1>1, <1>6
  <2>3. MeansGiven(Means, e, b) = Error
    BY <1>6, <2>2 DEF MeansGiven
  <2>4. QED
    BY <1>3, <2>1, <2>3
<1>7. QED
  BY <1>4, <1>5, <1>6

\* The builtins are values that last.
LEMMA BuiltinIs ==
  ASSUME Nestings = Nat
  PROVE  /\ Builtin("def") \in Values /\ Builtin("def").tag = "Sym"
         /\ Builtin("fn") \in Values /\ Builtin("fn").tag = "Sym"
         /\ Builtin("def") # Builtin("fn")
<1>1. \A n : [SymLeaf(n) EXCEPT !.builtin = TRUE] = [tag |-> "Sym", name |-> n, builtin |-> TRUE]
  BY AsBuiltin
<1>2. /\ Builtin("def") = [tag |-> "Sym", name |-> <<"def">>, builtin |-> TRUE]
      /\ Builtin("fn") = [tag |-> "Sym", name |-> <<"fn">>, builtin |-> TRUE]
  BY <1>1 DEF Builtin
<1>3. <<"def">> \in Names /\ <<"fn">> \in Names
  <2>1. "def" \in Letters /\ "fn" \in Letters
    BY DEF Letters
  <2>2. "def" \in Characters /\ "fn" \in Characters
    BY <2>1 DEF Characters
  <2>3. QED
    BY <2>2 DEF Names
<1>4. <<"def">> # <<"fn">>
  <2>1. <<"def">>[1] = "def" /\ <<"fn">>[1] = "fn"
    OBVIOUS
  <2>2. QED
    BY <2>1
<1>5. TRUE \in BOOLEAN
  OBVIOUS
<1>6. Builtin("def") \in Values /\ Builtin("fn") \in Values
  BY <1>2, <1>3, <1>5, BuiltValues
<1>7. Builtin("def").tag = "Sym" /\ Builtin("fn").tag = "Sym" /\ Builtin("def").name = <<"def">> /\ Builtin("fn").name = <<"fn">>
  BY <1>2
<1>8. QED
  BY <1>4, <1>6, <1>7

\* The values an application is made of.
LEMMA OperandsAre ==
  ASSUME Nestings = Nat, NEW vs \in Seq(Values), Len(vs) # 0
  PROVE  /\ Last(vs) \in Values /\ Last(LastingSeq(vs)) = Lasting[Last(vs)]
         /\ Len(Front(vs)) = Len(vs) - 1
         /\ Len(Front(vs)) = 2 <=> Len(vs) = 3
         /\ Len(vs) = 3 => /\ Front(vs)[1] \in Values /\ Front(vs)[2] \in Values
                           /\ LastingSeq(vs)[1] = Lasting[Front(vs)[1]] /\ LastingSeq(vs)[2] = Lasting[Front(vs)[2]]
<1> DEFINE n == Len(vs)
           as == SubSeq(vs, 1, n - 1)
<1>1. n \in Nat \ {0} /\ \A k \in 1..n : vs[k] \in Values
  BY SeqIsFunction
<1>2. Len(LastingSeq(vs)) = n /\ \A k \in 1..n : LastingSeq(vs)[k] = Lasting[vs[k]]
  BY LastingSeqIs
<1>3. Front(vs) = as /\ Last(vs) = vs[n] /\ Last(LastingSeq(vs)) = LastingSeq(vs)[n]
  BY <1>2 DEF Front, Last
<1>4. vs \in [1..n -> Values]
  BY <1>1
<1> HIDE DEF n
<1>5. Len(as) = n - 1 /\ \A k \in 1..(n - 1) : as[k] = vs[k]
  <2>1. \A j \in 1..(n - 1) : vs[j] \in Values
    BY <1>1
  <2> DEFINE m == n - 1
  <2>2. m \in Nat
    BY <1>1
  <2> HIDE DEF m
  <2>3. /\ Len(SubSeq(vs, 1, m)) = (IF 1 <= m THEN m - 1 + 1 ELSE 0)
        /\ \A i \in 1..(m - 1 + 1) : SubSeq(vs, 1, m)[i] = vs[1 + i - 1]
    <3>1. \A j \in 1..m : vs[j] \in Values
      BY <2>1 DEF m
    <3>2. QED
      BY <2>2, <3>1, SubSeqProperties
  <2>4. Len(SubSeq(vs, 1, m)) = m
    BY <2>2, <2>3
  <2>5. ASSUME NEW k \in 1..m PROVE SubSeq(vs, 1, m)[k] = vs[k]
    <3>1. k \in 1..(m - 1 + 1) /\ 1 + k - 1 = k
      BY <2>2
    <3>2. SubSeq(vs, 1, m)[k] = vs[1 + k - 1]
      BY <2>3, <3>1
    <3>3. QED
      BY <3>1, <3>2
  <2>6. QED
    BY <2>4, <2>5 DEF m
<1> HIDE DEF as
<1>6. n \in 1..n
  BY <1>1
<1>7. Len(as) = 2 <=> n = 3
  BY <1>1, <1>5
<1>8. ASSUME n = 3
      PROVE  /\ as[1] \in Values /\ as[2] \in Values
             /\ LastingSeq(vs)[1] = Lasting[as[1]] /\ LastingSeq(vs)[2] = Lasting[as[2]]
  <2>1. 1 \in 1..(n - 1) /\ 2 \in 1..(n - 1) /\ 1 \in 1..n /\ 2 \in 1..n
    BY <1>8
  <2>2. as[1] = vs[1] /\ as[2] = vs[2]
    BY <1>5, <2>1
  <2>3. QED
    BY <1>1, <1>2, <2>1, <2>2
<1>9. vs[n] \in Values /\ LastingSeq(vs)[n] = Lasting[vs[n]]
  BY <1>1, <1>2, <1>6
<1>10. QED
  BY <1>3, <1>5, <1>7, <1>8, <1>9 DEF n

\* An application means what the shell does of it.
Definable(as) == Len(as) = 2 /\ as[1].tag = "Sym" /\ as[1].name \notin DOMAIN symbols

\* The cases of an application (fc/shell.cpp:85-101, 151-167).
LEMMA AppliedIs ==
  ASSUME Nestings = Nat, NEW vs \in Seq(Values), Len(vs) # 0, SymbolsType(symbols)
  PROVE  LET head == Last(vs)
             as == Front(vs)
             applied == Applied(LastingSeq(vs), Named(symbols))
         IN  /\ head = Builtin("fn") => applied = [how |-> "fn"]
             /\ head # Builtin("fn") /\ head # Builtin("def") => applied = Error
             /\ head = Builtin("def") /\ ~Definable(as) => applied = Error
             /\ head = Builtin("def") /\ Definable(as) =>
                  applied = Meaning(Lasting[as[1]], Named(symbols) \cup {[name |-> as[1].name, value |-> Lasting[as[2]]]})
<1> DEFINE head == Last(vs)
           as == Front(vs)
           ls == LastingSeq(vs)
           b == Named(symbols)
           Defines == /\ Last(ls) = Builtin("def") /\ Len(ls) = 3
                      /\ ls[1].tag = "Sym" /\ ls[1].name \notin Defined(b)
<1>1. /\ head \in Values /\ Last(ls) = Lasting[head]
      /\ Len(as) = 2 <=> Len(vs) = 3
      /\ Len(vs) = 3 => as[1] \in Values /\ as[2] \in Values /\ ls[1] = Lasting[as[1]] /\ ls[2] = Lasting[as[2]]
  BY OperandsAre
<1>2. Len(ls) = Len(vs)
  BY LastingSeqIs
<1>3. Defined(b) = DOMAIN symbols
  BY NamedIs
<1>4. /\ Applied(ls, b) = IF Defines THEN Meaning(ls[1], b \cup {[name |-> ls[1].name, value |-> ls[2]]})
                          ELSE IF Last(ls) = Builtin("fn") THEN [how |-> "fn"] ELSE Error
  BY DEF Applied
<1>5. \A w \in {Builtin("def"), Builtin("fn")} : Last(ls) = w <=> head = w
  <2> SUFFICES ASSUME NEW w \in {Builtin("def"), Builtin("fn")} PROVE Last(ls) = w <=> head = w
    OBVIOUS
  <2>1. w \in Values /\ w.tag # "Tuple"
    BY BuiltinIs
  <2> HIDE DEF head, ls
  <2>2. head = w => Lasting[head] = head
    BY <1>1, <2>1, LastingKeeps
  <2>3. Lasting[head] = w => head = w
    BY <1>1, <2>1, LastingKeeps
  <2>4. QED
    BY <1>1, <2>2, <2>3
<1>6. /\ Last(ls) = Builtin("def") <=> head = Builtin("def")
      /\ Last(ls) = Builtin("fn") <=> head = Builtin("fn")
  BY <1>5
<1>7. Builtin("def") # Builtin("fn")
  BY BuiltinIs
<1>8. Len(vs) = 3 => (ls[1].tag = "Sym" <=> as[1].tag = "Sym") /\ (as[1].tag = "Sym" => ls[1] = as[1])
  <2> SUFFICES ASSUME Len(vs) = 3 PROVE (ls[1].tag = "Sym" <=> as[1].tag = "Sym") /\ (as[1].tag = "Sym" => ls[1] = as[1])
    OBVIOUS
  <2>1. as[1] \in Values /\ ls[1] = Lasting[as[1]]
    BY <1>1
  <2> HIDE DEF as, ls
  <2>2. QED
    BY <2>1, LastingKeeps
<1> HIDE DEF head, as, ls, b
<1>9. Defines <=> head = Builtin("def") /\ Definable(as)
  BY <1>1, <1>2, <1>3, <1>6, <1>8 DEF Definable
<1>10. ASSUME head = Builtin("def"), Definable(as)
       PROVE  Applied(ls, b) = Meaning(Lasting[as[1]], b \cup {[name |-> as[1].name, value |-> Lasting[as[2]]]})
  <2>1. Applied(ls, b) = Meaning(ls[1], b \cup {[name |-> ls[1].name, value |-> ls[2]]})
    BY <1>4, <1>9, <1>10
  <2>2. Len(vs) = 3 /\ as[1].tag = "Sym"
    BY <1>1, <1>10 DEF Definable
  <2>3. ls[1] = Lasting[as[1]] /\ ls[1] = as[1] /\ ls[2] = Lasting[as[2]]
    BY <1>1, <1>8, <2>2
  <2>4. ls[1].name = as[1].name
    BY <2>3
  <2>5. QED
    BY <2>1, <2>3, <2>4
<1> HIDE DEF Defines
<1>11. head = Builtin("fn") => Applied(ls, b) = [how |-> "fn"]
  BY <1>4, <1>6, <1>7, <1>9
<1>12. head # Builtin("fn") /\ head # Builtin("def") => Applied(ls, b) = Error
  BY <1>4, <1>6, <1>9
<1>13. head = Builtin("def") /\ ~Definable(as) => Applied(ls, b) = Error
  BY <1>4, <1>6, <1>7, <1>9
<1>14. QED
  BY <1>10, <1>11, <1>12, <1>13 DEF head, as, ls, b

-----------------------------------------------------------------------------
(* The invariant.                                                          *)

\* The types of the state.
Typed ==
  /\ input \in Inputs
  /\ pc \in {"start", "parse", "eval", "exit"}
  /\ next \in Nat
  /\ top_level_exprs \in Seq(Trees)
  /\ SymbolsType(symbols)
\* The shell has not started.
NotStarted == pc \in {"start", "parse"} => stack = <<>> /\ symbols = NoSymbols
\* What has been evaluated is what that means so far.
MeansSoFar ==
  pc = "eval" =>
    /\ next <= Len(top_level_exprs)
    /\ stack = <<>> => /\ Meant(top_level_exprs)[next].how = "value"
                       /\ Meant(top_level_exprs)[next].env = Named(symbols)
    /\ stack # <<>> => AtWork(stack, top_level_exprs, next, Named(symbols))
IInv == Typed /\ NotStarted /\ MeansSoFar /\ EvaluatesAsMeant

\* What is remembered is the definitions by name.
LEMMA RememberedIs == Remembered = Named(symbols)
BY DEF Remembered, Named

\* No symbols yet.
LEMMA NoSymbolsIs == SymbolsType(NoSymbols) /\ Named(NoSymbols) = {}
<1>1. DOMAIN NoSymbols = {}
  BY DEF NoSymbols
<1>2. QED
  BY <1>1 DEF SymbolsType, Named

\* The invariant at first.
LEMMA InitIsRight == ASSUME Nestings = Nat PROVE Init => IInv
<1> SUFFICES ASSUME Init PROVE IInv
  OBVIOUS
<1>1. Typed
  <2>1. <<>> \in Seq(Trees)
    OBVIOUS
  <2>2. QED
    BY <2>1, NoSymbolsIs DEF Init, Typed
<1>2. NotStarted /\ MeansSoFar /\ EvaluatesAsMeant
  BY DEF Init, NotStarted, MeansSoFar, EvaluatesAsMeant
<1>3. QED
  BY <1>1, <1>2 DEF IInv

\* The end of a run that evaluates something.
EndsAsMeant(how) ==
  LET meaning == Meant(top_level_exprs)[Len(top_level_exprs)]
  IN  \/ how = "success" /\ meaning.how = "value" /\ meaning.env = Named(symbols)
      \/ how = "failure" /\ meaning.how = "error"
      \/ how = "undefined" /\ meaning.how \in {"fn", "error"}

\* The invariant at that end.
LEMMA ExitIsRight ==
  ASSUME Nestings = Nat, IInv, NEW how, Exit(how), EndsAsMeant(how)
  PROVE  IInv'
<1>1. /\ pc' = "exit" /\ result' = how /\ input' = input /\ next' = next
      /\ top_level_exprs' = top_level_exprs /\ stack' = stack /\ symbols' = symbols
  BY DEF Exit
<1>2. Typed'
  BY <1>1 DEF IInv, Typed
<1>3. NotStarted' /\ MeansSoFar'
  BY <1>1 DEF NotStarted, MeansSoFar
<1>4. Remembered' = Named(symbols)
  BY <1>1 DEF Remembered, Named
<1>5. After(Means, top_level_exprs, {})'[Len(top_level_exprs)'] = Meant(top_level_exprs)[Len(top_level_exprs)]
  BY <1>1 DEF Meant
<1>6. EvaluatesAsMeant'
  <2> DEFINE m == Meant(top_level_exprs)[Len(top_level_exprs)]
  <2>1. /\ how = "success" => m.how = "value" /\ m.env = Named(symbols)
        /\ how = "failure" => m.how = "error"
        /\ how = "undefined" => m.how \in {"fn", "error"}
        /\ how \in {"success", "failure", "undefined"}
    BY DEF EndsAsMeant
  <2> HIDE DEF m
  <2>2. After(Means, top_level_exprs, {})'[Len(top_level_exprs)'] = m
    BY <1>5 DEF m
  <2>3. QED
    BY <1>1, <1>4, <2>1, <2>2 DEF EvaluatesAsMeant
<1>7. QED
  BY <1>2, <1>3, <1>6 DEF IInv

\* The end of a run that evaluates nothing.
LEMMA EarlyExitIsRight ==
  ASSUME IInv, NEW how, Exit(how), ~cl.ok \/ cl.help \/ ~ok \/ cl.files = <<>> \/ how = "aborted"
  PROVE  IInv'
<1>1. /\ pc' = "exit" /\ result' = how /\ input' = input /\ next' = next /\ ok' = ok
      /\ top_level_exprs' = top_level_exprs /\ stack' = stack /\ symbols' = symbols
  BY DEF Exit
<1>2. Typed'
  BY <1>1 DEF IInv, Typed
<1>3. NotStarted' /\ MeansSoFar'
  BY <1>1 DEF NotStarted, MeansSoFar
<1>4. cl' = cl
  BY <1>1 DEF cl
<1>5. EvaluatesAsMeant'
  BY <1>1, <1>4 DEF EvaluatesAsMeant
<1>6. QED
  BY <1>2, <1>3, <1>5 DEF IInv

-----------------------------------------------------------------------------
(* The steps before the shell.                                             *)

\* The files of the command line are texts.
LEMMA FilesAre ==
  ASSUME input \in Inputs
  PROVE  /\ Len(cl.files) \in Nat
         /\ \A k \in 1..Len(cl.files) : IsText(input.files[cl.files[k]]) /\ IsFile(input.files[cl.files[k]])
         /\ DOMAIN cl.files = 1..Len(cl.files)
<1> DEFINE D == DOMAIN input.files
           V == [ok : BOOLEAN, help : BOOLEAN, files : Seq(D)]
<1>1. /\ input.args \in Seq(STRING)
      /\ \A name \in D : IsFile(input.files[name])
      /\ \A k \in DOMAIN input.args : IsOption(input.args[k]) \/ input.args[k] \in D
  BY InputsAssumption
<1>0. \A file : IsFile(file) => IsText(file)
  <2>1. IsText(Missing)
    <3>1. <<>> \in Seq(Characters)
      OBVIOUS
    <3>2. QED
      BY <3>1 DEF IsText, Missing
  <2>2. \A file : IsFile(file) => file = Missing \/ file.chars \in Seq(Characters)
    BY DEF IsFile
  <2>3. QED
    BY <2>1, <2>2 DEF IsText
<1> HIDE DEF D
<1>2. cl \in V
  BY <1>1, CommandLineType DEF cl
<1>3. cl.files \in Seq(D)
  BY <1>2
<1>4. Len(cl.files) \in Nat /\ DOMAIN cl.files = 1..Len(cl.files) /\ \A k \in 1..Len(cl.files) : cl.files[k] \in D
  BY <1>3, SeqIsFunction
<1>5. QED
  BY <1>0, <1>1, <1>4

\* The command line is refused, or the files are parsed (fc/main.cpp:46-51, 91-109).
LEMMA C2mainIsRight == ASSUME IInv, c2main PROVE IInv'
<1>1. CASE ~cl.ok
  <2>1. Exit("failure")
    BY <1>1 DEF c2main
  <2>2. QED
    BY <1>1, <2>1, EarlyExitIsRight
<1>2. CASE cl.ok /\ cl.help
  <2>1. Exit("success")
    BY <1>2 DEF c2main
  <2>2. QED
    BY <1>2, <2>1, EarlyExitIsRight
<1>3. CASE cl.ok /\ ~cl.help /\ cl.files = <<>>
  <2>1. Exit("failure")
    BY <1>3 DEF c2main
  <2>2. QED
    BY <1>3, <2>1, EarlyExitIsRight
<1>4. CASE cl.ok /\ ~cl.help /\ cl.files # <<>>
  <2>1. pc = "start" /\ pc' = "parse" /\ UNCHANGED <<input, next, ok, top_level_exprs, stack, symbols, result>>
    BY <1>4 DEF c2main
  <2>2. QED
    BY <2>1 DEF IInv, Typed, NotStarted, MeansSoFar, EvaluatesAsMeant
<1>5. QED
  BY <1>1, <1>2, <1>3, <1>4

\* One file is parsed: the expressions are trees (fc/main.cpp:34-64).
LEMMA ParseFileIsRight == ASSUME Nestings = Nat, IInv, ParseFile PROVE IInv'
<1> DEFINE file == input.files[cl.files[next + 1]]
           m_exprs == IF file = Missing THEN Nothing ELSE parse_filereader_into_ast(file)
<1>1. pc = "parse" /\ next < Len(cl.files) /\ next \in Nat /\ input \in Inputs
  BY DEF ParseFile, IInv, Typed
<1>2. IsText(file)
  <2>1. next + 1 \in 1..Len(cl.files)
    BY <1>1, FilesAre
  <2>2. QED
    BY <1>1, <2>1, FilesAre
<1>3. m_exprs.how = "node" => m_exprs.node \in Seq(Trees)
  <2>1. CASE file = Missing
    <3>1. m_exprs = Nothing
      BY <2>1
    <3>2. QED
      BY <3>1 DEF Nothing
  <2>2. CASE file # Missing
    <3>1. m_exprs = parse_filereader_into_ast(file)
      BY <2>2
    <3> HIDE DEF m_exprs, file
    <3>2. QED
      BY <1>2, <3>1, ParsedType
  <2>3. QED
    BY <2>1, <2>2
<1>4. IF m_exprs.how = "aborted" THEN Exit("aborted")
      ELSE /\ next' = next + 1
           /\ top_level_exprs' = IF m_exprs.how = "node" THEN top_level_exprs \o m_exprs.node
                                 ELSE top_level_exprs
           /\ UNCHANGED <<input, pc, stack, symbols, result>>
  BY DEF ParseFile
<1> HIDE DEF m_exprs, file
<1>5. CASE m_exprs.how = "aborted"
  BY <1>4, <1>5, EarlyExitIsRight
<1>6. CASE m_exprs.how # "aborted"
  <2>1. /\ next' = next + 1 /\ input' = input /\ pc' = pc /\ stack' = stack /\ symbols' = symbols
        /\ top_level_exprs' = IF m_exprs.how = "node" THEN top_level_exprs \o m_exprs.node
                              ELSE top_level_exprs
    BY <1>4, <1>6
  <2>2. top_level_exprs \in Seq(Trees) /\ SymbolsType(symbols)
    BY DEF IInv, Typed
  <2>3. top_level_exprs' \in Seq(Trees)
    <3>1. CASE m_exprs.how = "node"
      <4>1. top_level_exprs' = top_level_exprs \o m_exprs.node
        BY <2>1, <3>1
      <4>2. QED
        BY <1>3, <2>2, <3>1, <4>1, ConcatProperties
    <3>2. CASE m_exprs.how # "node"
      BY <2>1, <2>2, <3>2
    <3>3. QED
      BY <3>1, <3>2
  <2>4. Typed'
    BY <1>1, <2>1, <2>2, <2>3 DEF Typed
  <2>5. NotStarted'
    BY <2>1 DEF IInv, NotStarted
  <2>6. MeansSoFar' /\ EvaluatesAsMeant'
    BY <1>1, <2>1 DEF MeansSoFar, EvaluatesAsMeant
  <2>7. QED
    BY <2>4, <2>5, <2>6 DEF IInv
<1>7. QED
  BY <1>5, <1>6

\* The shell starts with no symbols (fc/main.cpp:65-80).
LEMMA AllParsedIsRight == ASSUME Nestings = Nat, IInv, AllParsed PROVE IInv'
<1>1. CASE ~ok
  <2>1. Exit("failure")
    BY <1>1 DEF AllParsed
  <2>2. QED
    BY <1>1, <2>1, EarlyExitIsRight
<1>2. CASE ok
  <2>1. /\ pc = "parse" /\ pc' = "eval" /\ next' = 0 /\ input' = input
        /\ top_level_exprs' = top_level_exprs /\ stack' = stack /\ symbols' = symbols
    BY <1>2 DEF AllParsed
  <2>2. top_level_exprs \in Seq(Trees) /\ stack = <<>> /\ symbols = NoSymbols
    BY <2>1 DEF IInv, Typed, NotStarted
  <2>3. Typed'
    BY <2>1 DEF IInv, Typed
  <2>4. NotStarted' /\ EvaluatesAsMeant'
    BY <2>1 DEF NotStarted, EvaluatesAsMeant
  <2>5. Len(top_level_exprs) \in Nat /\ Meant(top_level_exprs)[0].how = "value" /\ Meant(top_level_exprs)[0].env = {}
    BY <2>2, MeantType
  <2>6. Named(symbols) = {}
    BY <2>2, NoSymbolsIs
  <2>7. MeansSoFar'
    BY <2>1, <2>2, <2>5, <2>6 DEF MeansSoFar, Meant, Named
  <2>8. QED
    BY <2>3, <2>4, <2>7 DEF IInv
<1>3. QED
  BY <1>1, <1>2

-----------------------------------------------------------------------------
(* The steps of the shell.                                                 *)

\* What holds while an expression is evaluated.
LEMMA WorkIs ==
  ASSUME Nestings = Nat, IInv, pc = "eval", stack # <<>>
  PROVE  /\ AtWork(stack, top_level_exprs, next, Named(symbols))
         /\ Nested(stack, top_level_exprs[next])
         /\ Len(stack) \in Nat \ {0} /\ stack \in Seq(Frames) /\ frame \in Frames
         /\ top_level_exprs \in Seq(Trees) /\ next \in 1..Len(top_level_exprs) /\ top_level_exprs[next] \in Trees
         /\ SymbolsType(symbols) /\ Named(symbols) \in Environments
         /\ Evaluated <=> ~Waits(frame)
<1>1. AtWork(stack, top_level_exprs, next, Named(symbols)) /\ top_level_exprs \in Seq(Trees) /\ SymbolsType(symbols)
  BY DEF IInv, Typed, MeansSoFar
<1>2. Nested(stack, top_level_exprs[next]) /\ next \in 1..Len(top_level_exprs)
  BY <1>1 DEF AtWork, Evaluating
<1>3. Len(stack) \in Nat \ {0} /\ stack \in Seq(Frames) /\ frame \in Frames
  BY <1>2, NestedIs DEF Nested, frame
<1>4. top_level_exprs[next] \in Trees /\ Named(symbols) \in Environments
  BY <1>1, <1>2, MeantType, NamedIs
<1>5. Len(frame.evald) <= Len(Parts(frame.node))
  <2>1. Len(stack) \in 1..Len(stack)
    <3> DEFINE n == Len(stack)
    <3>1. n \in Nat \ {0}
      BY <1>3
    <3> HIDE DEF n
    <3>2. n \in 1..n
      BY <3>1
    <3>3. QED
      BY <3>2 DEF n
  <2>2. QED
    BY <1>2, <2>1 DEF Nested, frame
<1>6. Evaluated <=> ~Waits(frame)
  <2>1. Len(frame.evald) \in Nat /\ Len(Parts(frame.node)) \in Nat
    BY <1>3, FrameIs
  <2>2. QED
    BY <1>5, <2>1 DEF Evaluated, Waits
<1>7. QED
  BY <1>1, <1>2, <1>3, <1>4, <1>6

\* An expression is begun, or all of them have been evaluated.
LEMMA StartExprIsRight == ASSUME Nestings = Nat, IInv, StartExpr PROVE IInv'
<1>1. /\ pc = "eval" /\ stack = <<>> /\ top_level_exprs \in Seq(Trees) /\ next \in Nat /\ SymbolsType(symbols)
      /\ next <= Len(top_level_exprs)
      /\ Meant(top_level_exprs)[next].how = "value" /\ Meant(top_level_exprs)[next].env = Named(symbols)
  BY DEF StartExpr, IInv, Typed, MeansSoFar
<1>2. CASE next = Len(top_level_exprs)
  <2>1. Exit("success")
    BY <1>2 DEF StartExpr
  <2>2. EndsAsMeant("success")
    BY <1>1, <1>2 DEF EndsAsMeant
  <2>3. QED
    BY <2>1, <2>2, ExitIsRight
<1>3. CASE next # Len(top_level_exprs)
  <2> DEFINE e == top_level_exprs[next + 1]
  <2>1. /\ next' = next + 1 /\ stack' = <<Frame(Top(e))>> /\ input' = input /\ pc' = pc
        /\ top_level_exprs' = top_level_exprs /\ symbols' = symbols
    BY <1>3 DEF StartExpr, Top
  <2>2. next + 1 \in 1..Len(top_level_exprs) /\ (next + 1) - 1 = next /\ Len(top_level_exprs) \in Nat
    BY <1>1, <1>3, MeantType
  <2>3. e \in Trees /\ Named(symbols) \in Environments
    BY <1>1, <2>2, MeantType, NamedIs
  <2>4. Evaluating(<<Frame(Top(e))>>, e, Named(symbols), Named(symbols))
    BY <2>3, EvaluationStarts
  <2>5. AtWork(<<Frame(Top(e))>>, top_level_exprs, next + 1, Named(symbols))
    BY <1>1, <2>2, <2>4 DEF AtWork
  <2> HIDE DEF e
  <2>6. Typed'
    BY <1>1, <2>1 DEF IInv, Typed
  <2>7. NotStarted' /\ EvaluatesAsMeant'
    BY <1>1, <2>1 DEF NotStarted, EvaluatesAsMeant
  <2>8. stack' # <<>>
    <3>1. Len(stack') = 1
      BY <2>1
    <3>2. QED
      BY <3>1
  <2>9. MeansSoFar'
    <3>1. AtWork(stack', top_level_exprs', next', Named(symbols'))
      BY <2>1, <2>5
    <3>2. next' <= Len(top_level_exprs')
      BY <2>1, <2>2
    <3>3. QED
      BY <2>8, <3>1, <3>2 DEF MeansSoFar, AtWork, Named
  <2>10. QED
    BY <2>6, <2>7, <2>9 DEF IInv
<1>4. QED
  BY <1>2, <1>3

\* A node gets the value of a part.
LEMMA ValueIsRight ==
  ASSUME Nestings = Nat, IInv, pc = "eval", NEW v, NEW frames, Value(v, frames), SymbolsType(symbols'),
         AtWork(WithValue(frames, v), top_level_exprs, next, Named(symbols'))
  PROVE  IInv'
<1> DEFINE G == WithValue(frames, v)
<1>1. /\ stack' = G /\ input' = input /\ pc' = pc /\ next' = next
      /\ top_level_exprs' = top_level_exprs
  BY DEF Value, WithValue
<1>2. AtWork(G, top_level_exprs, next, Named(symbols'))
  OBVIOUS
<1>3. Len(G) # 0 /\ next \in 1..Len(top_level_exprs)
  BY <1>2 DEF AtWork, Evaluating, Nested
<1> HIDE DEF G
<1>4. Typed'
  BY <1>1 DEF IInv, Typed
<1>5. NotStarted' /\ EvaluatesAsMeant'
  BY <1>1 DEF NotStarted, EvaluatesAsMeant
<1>6. stack' # <<>>
  BY <1>1, <1>3
<1>7. MeansSoFar'
  <2>1. AtWork(stack', top_level_exprs', next', Named(symbols'))
    BY <1>1, <1>2
  <2>2. next' <= Len(top_level_exprs')
    <3>1. Len(top_level_exprs) \in Nat
      BY SeqIsFunction DEF IInv, Typed
    <3>2. QED
      BY <1>1, <1>3, <3>1
  <2>3. QED
    BY <1>6, <2>1, <2>2 DEF MeansSoFar, AtWork, Named
<1>8. QED
  BY <1>4, <1>5, <1>7 DEF IInv

\* The next part is a leaf with its value, or a node that is begun.
LEMMA VisitIsRight == ASSUME Nestings = Nat, IInv, Visit PROVE IInv'
<1> DEFINE e == Parts(frame.node)[Len(frame.evald) + 1]
           es == top_level_exprs
           a == Meant(es)[next - 1].env
           b == Named(symbols)
<1>1. pc = "eval" /\ stack # <<>> /\ ~Evaluated
  BY DEF Visit
<1>2. /\ AtWork(stack, es, next, b)
      /\ Len(stack) \in Nat \ {0} /\ frame \in Frames /\ Waits(frame)
      /\ es \in Seq(Trees) /\ next \in 1..Len(es)
      /\ SymbolsType(symbols) /\ b \in Environments
  BY <1>1, WorkIs
<1>3. e = NextPart(frame) /\ e \in Trees
  BY <1>2, FrameIs DEF NextPart
<1>4. Waits(stack[Len(stack)]) /\ NextPart(stack[Len(stack)]) = e
  BY <1>2, <1>3 DEF frame
<1>5. /\ e.tag \in {"Str", "Num", "Char"} => Value(e, stack) /\ UNCHANGED symbols
      /\ e.tag = "Quote" => Value(Quoted(e), stack) /\ UNCHANGED symbols
      /\ e.tag = "Sym" /\ resolveSymbol(e.name) = Unresolved => Exit("failure")
      /\ e.tag = "Sym" /\ resolveSymbol(e.name) # Unresolved =>
           Value(resolveSymbol(e.name), stack) /\ UNCHANGED symbols
      /\ e.tag \notin {"Str", "Num", "Char", "Quote", "Sym"} =>
           /\ stack' = Append(stack, Frame(e))
           /\ UNCHANGED <<input, pc, next, ok, top_level_exprs, symbols, result>>
  <2>1. ASSUME e.tag \in {"Str", "Num", "Char"} PROVE Value(e, stack) /\ UNCHANGED symbols
    BY <2>1 DEF Visit
  <2>2. ASSUME e.tag = "Quote" PROVE Value(Quoted(e), stack) /\ UNCHANGED symbols
    BY <2>2 DEF Visit
  <2>3. ASSUME e.tag = "Sym", resolveSymbol(e.name) = Unresolved PROVE Exit("failure")
    BY <2>3 DEF Visit
  <2>4. ASSUME e.tag = "Sym", resolveSymbol(e.name) # Unresolved
        PROVE  Value(resolveSymbol(e.name), stack) /\ UNCHANGED symbols
    BY <2>4 DEF Visit
  <2>5. ASSUME e.tag \notin {"Str", "Num", "Char", "Quote", "Sym"}
        PROVE  /\ stack' = Append(stack, Frame(e))
               /\ UNCHANGED <<input, pc, next, ok, top_level_exprs, symbols, result>>
    BY <2>5 DEF Visit
  <2>6. QED
    BY <2>1, <2>2, <2>3, <2>4, <2>5
<1>6. Evaluating(stack, es[next], a, b)
  BY <1>2 DEF AtWork
<1> HIDE DEF e
<1>7. ASSUME NEW v \in Values, Means[e][b] = Meaning(Lasting[v], b), Value(v, stack), UNCHANGED symbols
      PROVE  IInv'
  <2>1. Evaluating(WithValue(stack, v), es[next], a, b)
    BY <1>2, <1>4, <1>6, <1>7, EvaluationValue
  <2>2. AtWork(WithValue(stack, v), es, next, b)
    BY <1>2, <2>1 DEF AtWork
  <2>3. SymbolsType(symbols') /\ Named(symbols') = b
    BY <1>2, <1>7
  <2>4. AtWork(WithValue(stack, v), top_level_exprs, next, Named(symbols'))
    BY <2>2, <2>3
  <2>5. QED
    BY <1>1, <1>7, <2>3, <2>4, ValueIsRight
<1>8. CASE e.tag \in {"Str", "Num", "Char"}
  <2>1. Value(e, stack) /\ UNCHANGED symbols
    BY <1>5, <1>8
  <2>2. QED
    BY <1>2, <1>3, <1>7, <1>8, <2>1, LeafMeans
<1>9. CASE e.tag = "Quote"
  <2>1. Value(Quoted(e), stack) /\ UNCHANGED symbols
    BY <1>5, <1>9
  <2>2. QED
    BY <1>2, <1>3, <1>7, <1>9, <2>1, LeafMeans
<1>10. CASE e.tag = "Sym" /\ resolveSymbol(e.name) # Unresolved
  <2>1. Value(resolveSymbol(e.name), stack) /\ UNCHANGED symbols
    BY <1>5, <1>10
  <2>2. QED
    BY <1>2, <1>3, <1>7, <1>10, <2>1, SymbolMeans
<1>11. CASE e.tag = "Sym" /\ resolveSymbol(e.name) = Unresolved
  <2>1. Exit("failure")
    BY <1>5, <1>11
  <2>2. Means[e][b] = Error
    BY <1>2, <1>3, <1>11, SymbolMeans
  <2>3. Error.how = "error"
    BY DEF Error
  <2>4. Meant(es)[Len(es)] = Error
    <3>1. Means[NextPart(stack[Len(stack)])][b].how # "value"
      BY <1>4, <2>2, <2>3
    <3>2. Meant(es)[Len(es)] = Means[NextPart(stack[Len(stack)])][b]
      BY <1>2, <1>4, <3>1, WorkFails
    <3>3. QED
      BY <1>4, <2>2, <3>2
  <2>5. EndsAsMeant("failure")
    BY <2>3, <2>4 DEF EndsAsMeant
  <2>6. QED
    BY <2>1, <2>5, ExitIsRight
<1>12. CASE e.tag \notin {"Str", "Num", "Char", "Quote", "Sym"}
  <2> DEFINE G == Append(stack, Frame(e))
  <2>1. /\ stack' = G /\ input' = input /\ pc' = pc /\ next' = next
        /\ top_level_exprs' = top_level_exprs /\ symbols' = symbols
    BY <1>5, <1>12
  <2>2. Evaluating(G, es[next], a, b)
    BY <1>4, <1>6, EvaluationPush
  <2>3. AtWork(G, es, next, b)
    BY <1>2, <2>2 DEF AtWork
  <2> HIDE DEF G
  <2>4. Len(G) # 0
    BY <2>2 DEF Evaluating, Nested
  <2>5. Typed'
    BY <2>1 DEF IInv, Typed
  <2>6. NotStarted' /\ EvaluatesAsMeant'
    BY <1>1, <2>1 DEF NotStarted, EvaluatesAsMeant
  <2>7. MeansSoFar'
    <3>1. AtWork(stack', top_level_exprs', next', Named(symbols'))
      BY <2>1, <2>3
    <3>2. next' <= Len(top_level_exprs') /\ stack' # <<>>
      <4>1. Len(es) \in Nat
        BY <1>2, SeqIsFunction
      <4>2. QED
        BY <1>2, <2>1, <2>4, <4>1
    <3>3. QED
      BY <3>1, <3>2 DEF MeansSoFar, AtWork, Named
  <2>8. QED
    BY <2>5, <2>6, <2>7 DEF IInv
<1>13. QED
  BY <1>8, <1>9, <1>10, <1>11, <1>12

\* A node that has all its values, and the nodes below.
LEMMA ReturnerIs ==
  ASSUME Nestings = Nat, IInv, pc = "eval", stack # <<>>, Evaluated
  PROVE  /\ frame.node.tag = "Top" => Len(stack) = 1
         /\ frame.node.tag # "Top" =>
              /\ Len(stack) # 1 /\ Len(frame.evald) = Len(Parts(frame.node))
              /\ Waits(Below[Len(Below)])
<1>1. Nested(stack, top_level_exprs[next])
  BY WorkIs
<1>2. frame.node.tag = "Top" <=> Len(stack) = 1
  BY <1>1, NestedIs DEF frame
<1>3. Len(stack) # 1 => Waits(Below[Len(Below)])
  BY <1>1, NestedPop DEF Below
<1>4. QED
  BY <1>2, <1>3 DEF Evaluated

\* A tuple is made in the arena of the evaluation, and means one that lasts.
LEMMA ReturnTupleIsRight == ASSUME Nestings = Nat, IInv, ReturnTuple PROVE IInv'
<1> DEFINE es == top_level_exprs
           a == Meant(es)[next - 1].env
           b == Named(symbols)
           v == TupleIn(next, frame.evald)
<1>1. pc = "eval" /\ stack # <<>> /\ Evaluated /\ frame.node.tag = "Tuple" /\ Value(v, Below) /\ UNCHANGED symbols
  BY DEF ReturnTuple
<1>2. /\ AtWork(stack, es, next, b)
      /\ frame \in Frames /\ ~Waits(frame)
      /\ es \in Seq(Trees) /\ next \in 1..Len(es)
      /\ SymbolsType(symbols) /\ b \in Environments
  BY <1>1, WorkIs
<1>3. Len(stack) # 1
  BY <1>1, ReturnerIs
<1>4. v \in Values /\ Lasting[v] = TupleNode(LastingSeq(frame.evald))
  <2>1. next \in Nat \ {0}
    BY <1>2
  <2>2. QED
    BY <1>2, <2>1, FrameIs, LastingTuple
<1>5. Evaluating(stack, es[next], a, b)
  BY <1>2 DEF AtWork
<1> HIDE DEF v
<1>6. Evaluating(WithValue(Below, v), es[next], a, b)
  <2>1. ~Waits(stack[Len(stack)]) /\ stack[Len(stack)].node.tag = "Tuple"
        /\ Lasting[v] = TupleNode(LastingSeq(stack[Len(stack)].evald))
    BY <1>1, <1>2, <1>4 DEF frame
  <2>2. Evaluating(WithValue(SubSeq(stack, 1, Len(stack) - 1), v), es[next], a, b)
    BY <1>2, <1>3, <1>4, <1>5, <2>1, EvaluationReturns
  <2>3. QED
    BY <2>2 DEF Below
<1>7. AtWork(WithValue(Below, v), es, next, b)
  BY <1>2, <1>6 DEF AtWork
<1>8. SymbolsType(symbols') /\ Named(symbols') = b
  BY <1>1, <1>2
<1>9. AtWork(WithValue(Below, v), top_level_exprs, next, Named(symbols'))
  BY <1>7, <1>8
<1>10. QED
  BY <1>1, <1>8, <1>9, ValueIsRight

\* The expression has been evaluated.
LEMMA ReturnTopIsRight == ASSUME Nestings = Nat, IInv, ReturnTop PROVE IInv'
<1> DEFINE es == top_level_exprs
           a == Meant(es)[next - 1].env
           b == Named(symbols)
<1>1. /\ pc = "eval" /\ stack # <<>> /\ Evaluated /\ frame.node.tag = "Top"
      /\ stack' = Below /\ input' = input /\ pc' = pc /\ next' = next
      /\ top_level_exprs' = top_level_exprs /\ symbols' = symbols
  BY DEF ReturnTop
<1>2. /\ AtWork(stack, es, next, b) /\ ~Waits(frame) /\ stack \in Seq(Frames)
      /\ es \in Seq(Trees) /\ next \in 1..Len(es) /\ es[next] \in Trees
  BY <1>1, WorkIs
<1>3. Len(stack) = 1
  BY <1>1, ReturnerIs
<1>4. stack' = <<>>
  <2>1. Below = SubSeq(stack, 1, 0)
    BY <1>3 DEF Below
  <2>2. SubSeq(stack, 1, 0) = <<>>
    OBVIOUS
  <2>3. QED
    BY <1>1, <2>1, <2>2
<1>5. Evaluating(stack, es[next], a, b) /\ Meant(es)[next - 1].how = "value"
  BY <1>2 DEF AtWork
<1>6. Means[es[next]][a].how = "value" /\ Means[es[next]][a].env = b
  <2>1. ~Waits(stack[1])
    BY <1>2, <1>3 DEF frame
  <2>2. QED
    BY <1>2, <1>3, <1>5, <2>1, EvaluationEnds
<1>7. Meant(es)[next].how = "value" /\ Meant(es)[next].env = b
  BY <1>2, <1>5, <1>6, MeantNext
<1>8. Typed'
  BY <1>1 DEF IInv, Typed
<1>9. NotStarted' /\ EvaluatesAsMeant'
  BY <1>1 DEF NotStarted, EvaluatesAsMeant
<1>10. MeansSoFar'
  <2>1. next <= Len(es)
    <3>1. Len(es) \in Nat
      BY <1>2, SeqIsFunction
    <3>2. QED
      BY <1>2, <3>1
  <2>2. QED
    BY <1>1, <1>4, <1>7, <2>1 DEF MeansSoFar, Meant, Named
<1>11. QED
  BY <1>8, <1>9, <1>10 DEF IInv

\* What is applied is a value.
LEMMA ApplicationIs ==
  ASSUME Nestings = Nat, IInv, pc = "eval", stack # <<>>, Evaluated, frame.node.tag = "Apply"
  PROVE  frame.evald \in Seq(Values) /\ Len(frame.evald) # 0 /\ Len(stack) # 1
<1>1. Len(stack) # 1 /\ Len(frame.evald) = Len(Parts(frame.node))
  BY ReturnerIs
<1>2. frame \in Frames
  BY WorkIs
<1>3. frame.node \in Trees
  BY <1>2, FrameIs
<1>4. Parts(frame.node) = Append(frame.node.args, frame.node.lambda) /\ frame.node.args \in Seq(Trees)
      /\ frame.node.lambda \in Trees
  BY <1>3, TreeIs DEF Parts
<1>5. Len(Parts(frame.node)) = Len(frame.node.args) + 1 /\ Len(frame.node.args) \in Nat
  BY <1>4, AppendProperties
<1>6. Len(frame.evald) # 0
  BY <1>1, <1>5
<1>7. QED
  BY <1>1, <1>2, <1>6, FrameIs

\* Nothing more is evaluated.
LEMMA ApplicationExits ==
  ASSUME Nestings = Nat, IInv, pc = "eval", stack # <<>>, Evaluated, frame.node.tag = "Apply",
         NEW how, Exit(how),
         LET applied == Applied(LastingSeq(frame.evald), Named(symbols))
         IN  \/ how \in {"failure", "undefined"} /\ applied = Error
             \/ how = "undefined" /\ applied = [how |-> "fn"]
  PROVE  IInv'
<1> DEFINE es == top_level_exprs
           b == Named(symbols)
           applied == Applied(LastingSeq(frame.evald), b)
<1>1. /\ AtWork(stack, es, next, b) /\ ~Waits(frame) /\ es \in Seq(Trees)
  BY WorkIs
<1>2. \/ how \in {"failure", "undefined"} /\ applied = Error
      \/ how = "undefined" /\ applied = [how |-> "fn"]
  OBVIOUS
<1>3. applied.how # "value" /\ (how = "failure" => applied.how = "error") /\ applied.how \in {"fn", "error"}
  <2> HIDE DEF applied
  <2>1. QED
    BY <1>2 DEF Error
<1>4. Meant(es)[Len(es)] = applied
  <2>1. ~Waits(stack[Len(stack)]) /\ stack[Len(stack)].node.tag = "Apply"
        /\ Applied(LastingSeq(stack[Len(stack)].evald), b).how # "value"
    BY <1>1, <1>3 DEF frame
  <2>2. Meant(es)[Len(es)] = Applied(LastingSeq(stack[Len(stack)].evald), b)
    BY <1>1, <2>1, ApplicationFails
  <2>3. QED
    BY <2>2 DEF frame
<1> HIDE DEF applied
<1>5. EndsAsMeant(how)
  BY <1>2, <1>3, <1>4 DEF EndsAsMeant
<1>6. QED
  BY <1>5, ExitIsRight

\* A definition is made, or the program ends (fc/shell.cpp:85-101, 134-168).
LEMMA ReturnApplyIsRight == ASSUME Nestings = Nat, IInv, ReturnApply PROVE IInv'
<1> DEFINE es == top_level_exprs
           a == Meant(es)[next - 1].env
           b == Named(symbols)
           vs == frame.evald
           head == Last(vs)
           as == Front(vs)
           applied == Applied(LastingSeq(vs), b)
           new == [name \in DOMAIN symbols \cup {as[1].name} |->
                     IF name = as[1].name THEN as[2] ELSE symbols[name]]
<1>1. pc = "eval" /\ stack # <<>> /\ Evaluated /\ frame.node.tag = "Apply"
  BY DEF ReturnApply
<1>2. /\ AtWork(stack, es, next, b)
      /\ frame \in Frames /\ ~Waits(frame)
      /\ es \in Seq(Trees) /\ next \in 1..Len(es)
      /\ SymbolsType(symbols) /\ b \in Environments
  BY <1>1, WorkIs
<1>3. vs \in Seq(Values) /\ Len(vs) # 0 /\ Len(stack) # 1
  BY <1>1, ApplicationIs
<1>4. /\ head \in Values
      /\ Len(as) = 2 <=> Len(vs) = 3
      /\ Len(vs) = 3 => as[1] \in Values /\ as[2] \in Values
  BY <1>3, OperandsAre
<1>5. /\ head = Builtin("fn") => applied = [how |-> "fn"]
      /\ head # Builtin("fn") /\ head # Builtin("def") => applied = Error
      /\ head = Builtin("def") /\ ~Definable(as) => applied = Error
      /\ head = Builtin("def") /\ Definable(as) =>
           applied = Meaning(Lasting[as[1]], b \cup {[name |-> as[1].name, value |-> Lasting[as[2]]]})
  BY <1>2, <1>3, AppliedIs
<1>6. Builtin("def") # Builtin("fn") /\ \A v : Dangles(v) => v # Builtin("fn") /\ v # Builtin("def")
  BY BuiltinIs DEF Dangles
<1>7. ASSUME NEW how, Exit(how),
             \/ how \in {"failure", "undefined"} /\ applied = Error
             \/ how = "undefined" /\ applied = [how |-> "fn"]
      PROVE  IInv'
  BY <1>1, <1>7, ApplicationExits
<1>8. CASE Dangles(head) \/ head = Builtin("fn")
  <2>1. Exit("undefined")
    BY <1>8 DEF ReturnApply
  <2>2. applied = Error \/ applied = [how |-> "fn"]
    BY <1>5, <1>6, <1>8
  <2> HIDE DEF applied
  <2>3. QED
    BY <1>7, <2>1, <2>2
<1>9. CASE ~(Dangles(head) \/ head = Builtin("fn")) /\ head # Builtin("def")
  <2> DEFINE how == IF try_get_fn_expr(head) THEN "undefined" ELSE "failure"
  <2>1. Exit(how)
    BY <1>9 DEF ReturnApply
  <2>2. applied = Error /\ how \in {"failure", "undefined"}
    BY <1>5, <1>9
  <2> HIDE DEF applied, how
  <2>3. QED
    BY <1>7, <2>1, <2>2
<1>10. CASE ~(Dangles(head) \/ head = Builtin("fn")) /\ head = Builtin("def")
  <2>1. eval_def(as)
    BY <1>10 DEF ReturnApply
  <2>2. CASE Len(as) # 2
    <3>1. Exit("failure")
      BY <2>1, <2>2 DEF eval_def
    <3>2. applied = Error
      BY <1>5, <1>10, <2>2 DEF Definable
    <3> HIDE DEF applied
    <3>3. QED
      BY <1>7, <3>1, <3>2
  <2>3. CASE Len(as) = 2 /\ Dangles(as[1])
    <3>1. Exit("undefined")
      BY <2>1, <2>3 DEF eval_def
    <3>2. applied = Error
      <4>1. ~Definable(as)
        BY <2>3 DEF Definable, Dangles
      <4>2. QED
        BY <1>5, <1>10, <4>1
    <3> HIDE DEF applied
    <3>3. QED
      BY <1>7, <3>1, <3>2
  <2>4. CASE Len(as) = 2 /\ ~Dangles(as[1]) /\ ~Definable(as)
    <3>1. Exit("failure")
      <4>1. as[1].tag # "Sym" \/ as[1].name \in DOMAIN symbols
        BY <2>4 DEF Definable
      <4>2. QED
        BY <2>1, <2>4, <4>1 DEF eval_def
    <3>2. applied = Error
      BY <1>5, <1>10, <2>4
    <3> HIDE DEF applied
    <3>3. QED
      BY <1>7, <3>1, <3>2
  <2>5. CASE ~Dangles(as[1]) /\ Definable(as)
    <3> DEFINE v == as[1]
               d == b \cup {[name |-> v.name, value |-> Lasting[as[2]]]}
    <3>1. Len(as) = 2 /\ v.tag = "Sym" /\ v.name \notin DOMAIN symbols
      BY <2>5 DEF Definable
    <3>2. symbols' = new /\ Value(v, Below)
      BY <2>1, <2>5, <3>1 DEF eval_def
    <3>3. v \in Values /\ as[2] \in Values
      BY <1>4, <3>1
    <3>4. v.name \in Names /\ Lasting[as[2]] \in Values
      BY <3>1, <3>3, ValueIs, LastingIs
    <3>5. applied = Meaning(Lasting[v], d)
      BY <1>5, <1>10, <2>5
    <3>6. d \in Environments
      <4>1. [name |-> v.name, value |-> Lasting[as[2]]] \in Definitions
        BY <3>4 DEF Definitions
      <4>2. QED
        BY <1>2, <4>1 DEF Environments
    <3>7. Named(new) = d
      BY <3>1, NamedMore
    <3>8. SymbolsType(new)
      <4>1. DOMAIN new = DOMAIN symbols \cup {v.name}
        OBVIOUS
      <4>2. \A name \in DOMAIN new : new[name] \in Values
        BY <1>2, <3>3 DEF SymbolsType
      <4> HIDE DEF new
      <4>3. QED
        BY <1>2, <3>4, <4>1, <4>2 DEF SymbolsType
    <3> HIDE DEF v, d, new, applied
    <3>9. Evaluating(WithValue(Below, v), es[next], a, d)
      <4>1. Evaluating(stack, es[next], a, b)
        BY <1>2 DEF AtWork
      <4>2. ~Waits(stack[Len(stack)]) /\ stack[Len(stack)].node.tag = "Apply"
            /\ Applied(LastingSeq(stack[Len(stack)].evald), b) = Meaning(Lasting[v], d)
        BY <1>1, <1>2, <3>5 DEF frame, applied
      <4>3. Evaluating(WithValue(SubSeq(stack, 1, Len(stack) - 1), v), es[next], a, d)
        BY <1>3, <3>3, <3>6, <4>1, <4>2, EvaluationReturns DEF v
      <4>4. QED
        BY <4>3 DEF Below
    <3>10. AtWork(WithValue(Below, v), es, next, d)
      BY <1>2, <3>9 DEF AtWork
    <3>11. SymbolsType(symbols') /\ Named(symbols') = d
      BY <3>2, <3>7, <3>8
    <3>12. AtWork(WithValue(Below, v), top_level_exprs, next, Named(symbols'))
      BY <3>10, <3>11
    <3>13. QED
      BY <1>1, <3>2, <3>11, <3>12, ValueIsRight
  <2>6. QED
    <3>1. Definable(as) => ~Dangles(as[1])
      BY DEF Definable, Dangles
    <3>2. QED
      BY <2>2, <2>3, <2>4, <2>5, <3>1
<1>11. QED
  BY <1>8, <1>9, <1>10

-----------------------------------------------------------------------------
(* The shell does what the program means.                                  *)

\* Each step keeps the invariant.
LEMMA StepsAreRight == ASSUME Nestings = Nat, IInv, [Next]_vars PROVE IInv'
<1>1. CASE c2main
  BY <1>1, C2mainIsRight
<1>2. CASE ParseFile
  BY <1>2, ParseFileIsRight
<1>3. CASE AllParsed
  BY <1>3, AllParsedIsRight
<1>4. CASE StartExpr
  BY <1>4, StartExprIsRight
<1>5. CASE Visit
  BY <1>5, VisitIsRight
<1>6. CASE ReturnTuple
  BY <1>6, ReturnTupleIsRight
<1>7. CASE ReturnTop
  BY <1>7, ReturnTopIsRight
<1>8. CASE ReturnApply
  BY <1>8, ReturnApplyIsRight
<1>9. CASE Terminated \/ UNCHANGED vars
  <2>1. /\ input' = input /\ pc' = pc /\ next' = next /\ ok' = ok /\ top_level_exprs' = top_level_exprs
        /\ stack' = stack /\ symbols' = symbols /\ result' = result
    BY <1>9 DEF Terminated, vars
  <2>2. Typed'
    BY <2>1 DEF IInv, Typed
  <2>3. NotStarted'
    BY <2>1 DEF IInv, NotStarted
  <2>4. MeansSoFar'
    BY <2>1 DEF IInv, MeansSoFar, Meant, AtWork, Named
  <2>5. cl' = cl /\ Remembered' = Remembered
    BY <2>1 DEF cl, Remembered
  <2>6. EvaluatesAsMeant'
    BY <2>1, <2>5 DEF IInv, EvaluatesAsMeant
  <2>7. QED
    BY <2>2, <2>3, <2>4, <2>6 DEF IInv
<1>10. QED
  BY <1>1, <1>2, <1>3, <1>4, <1>5, <1>6, <1>7, <1>8, <1>9 DEF Next

\* The state keeps its types: the parser makes trees, a symbol has a name of the
\* grammar and a value (fc/ast_builder.cpp:42-359, fc/shell.cpp:56-101).
THEOREM TypesAreKept == ASSUME Nestings = Nat PROVE Spec => []Typed
<1>1. Init => IInv
  BY InitIsRight
<1>2. IInv /\ [Next]_vars => IInv'
  BY StepsAreRight
<1>3. IInv => Typed
  BY DEF IInv
<1>4. QED
  BY <1>1, <1>2, <1>3, PTL DEF Spec

\* The shell does what the program means, for trees of any nesting: it defines the
\* symbols the program defines or fails as well (fc/shell.cpp:56-171).
THEOREM ShellIsRight == ASSUME Nestings = Nat PROVE Spec => []EvaluatesAsMeant
<1>1. Init => IInv
  BY InitIsRight
<1>2. IInv /\ [Next]_vars => IInv'
  BY StepsAreRight
<1>3. IInv => EvaluatesAsMeant
  BY DEF IInv
<1>4. QED
  BY <1>1, <1>2, <1>3, PTL DEF Spec

-----------------------------------------------------------------------------
(* Programs that make no tuple and do not name fn.                         *)

\* What is evaluated in an expression is evaluated in those that evaluate it.
LEMMA EvaluatesParts ==
  ASSUME Nestings = Nat
  PROVE  \A e \in Trees :
           /\ e \in Evaluates[e]
           /\ \A t \in Evaluates[e] : t \in Trees /\ Evaluates[t] \subseteq Evaluates[e]
<1> DEFINE N == NodesIn({0}, {FALSE})
           T == {e \in Trees : \A t \in Evaluates[e] : t \in Trees /\ Evaluates[t] \subseteq Evaluates[e]}
<1>0. N = Trees
  BY DEF Trees
<1>1. \A e \in Trees : Evaluates[e] = EvaluatedIn(Evaluates, e)
  BY EvaluatesIs
<1>2. \A e \in Trees : e \in Evaluates[e]
  BY <1>1 DEF EvaluatedIn
<1>3. ASSUME NEW e \in Trees, \A k \in DOMAIN Parts(e) : Parts(e)[k] \in T
      PROVE  e \in T
  <2> SUFFICES ASSUME NEW t \in Evaluates[e] PROVE t \in Trees /\ Evaluates[t] \subseteq Evaluates[e]
    OBVIOUS
  <2>1. CASE t = e
    BY <2>1
  <2>2. CASE t # e
    <3>1. Evaluates[e] = EvaluatedIn(Evaluates, e)
      BY <1>1
    <3>2. e.tag \in {"Tuple", "Apply"} /\ t \in UNION {Evaluates[u] : u \in Range(Parts(e))}
      BY <2>2, <3>1 DEF EvaluatedIn
    <3>3. PICK u \in Range(Parts(e)) : t \in Evaluates[u]
      BY <3>2
    <3>4. PICK k \in DOMAIN Parts(e) : u = Parts(e)[k]
      BY DEF Range
    <3>5. u \in T
      BY <1>3, <3>4
    <3>6. t \in Trees /\ Evaluates[t] \subseteq Evaluates[u]
      BY <3>3, <3>5
    <3>7. Evaluates[u] \subseteq Evaluates[e]
      BY <3>1, <3>2 DEF EvaluatedIn
    <3>8. QED
      BY <3>6, <3>7
  <2>3. QED
    BY <2>1, <2>2
<1>4. ASSUME NEW t \in N, \A k \in DOMAIN Parts(t) : Parts(t)[k] \in T
      PROVE  t \in T
  BY <1>0, <1>3, <1>4
<1> HIDE DEF T
<1>5. \A t \in N : (\A k \in DOMAIN Parts(t) : Parts(t)[k] \in T) => t \in T
  BY <1>4
<1> DEFINE As == {0}
           Bs == {FALSE}
<1> HIDE DEF As, Bs
<1>6. \A t \in NodesIn(As, Bs) : (\A k \in DOMAIN Parts(t) : Parts(t)[k] \in T) => t \in T
  BY <1>5 DEF As, Bs
<1>7. NodesIn(As, Bs) \subseteq T
  BY <1>6, NodeInduction
<1>8. Trees \subseteq T
  BY <1>0, <1>7 DEF As, Bs
<1>9. QED
  BY <1>2, <1>8 DEF T

\* A part of an expression that is evaluated is, too.
LEMMA PartsAreEvaluated ==
  ASSUME Nestings = Nat, NEW e \in Trees, NEW t \in Evaluates[e],
         NEW k \in 1..Len(Parts(t))
  PROVE  Parts(t)[k] \in Evaluates[e]
<1>1. t \in Trees /\ Evaluates[t] \subseteq Evaluates[e]
  BY EvaluatesParts
<1>2. Len(Parts(t)) \in Nat /\ DOMAIN Parts(t) = 1..Len(Parts(t)) /\ Parts(t)[k] \in Trees
  BY <1>1, TreeIs
<1>3. t.tag = "Tuple" \/ t.tag = "Apply"
  <2>1. t.tag \notin {"Tuple", "Apply"} => Parts(t) = <<>>
    <3>1. t.tag # "Top"
      BY <1>1, TreeIs DEF Leaves
    <3>2. QED
      BY <3>1 DEF Parts
  <2>2. Parts(t) # <<>>
    <3>1. Len(Parts(t)) # 0
      BY <1>2
    <3>2. QED
      BY <3>1
  <2>3. QED
    BY <2>1, <2>2
<1>4. Evaluates[t] = EvaluatedIn(Evaluates, t)
  BY <1>1, EvaluatesIs
<1>5. Parts(t)[k] \in Range(Parts(t))
  BY <1>2 DEF Range
<1>6. Evaluates[Parts(t)[k]] \subseteq Evaluates[t]
  BY <1>3, <1>4, <1>5 DEF EvaluatedIn
<1>7. Parts(t)[k] \in Evaluates[Parts(t)[k]]
  BY <1>2, EvaluatesParts
<1>8. QED
  BY <1>1, <1>6, <1>7

\* The part that a frame waits for.
LEMMA NextPartIs ==
  ASSUME Nestings = Nat, NEW x \in Frames, Waits(x)
  PROVE  Len(x.evald) + 1 \in 1..Len(Parts(x.node)) /\ NextPart(x) = Parts(x.node)[Len(x.evald) + 1]
<1>1. Len(x.evald) \in Nat /\ Len(Parts(x.node)) \in Nat /\ Len(x.evald) < Len(Parts(x.node))
  BY FrameIs DEF Waits
<1>2. QED
  BY <1>1 DEF NextPart

\* The nodes of the stack are evaluated in the expression.
LEMMA NestedEvaluates ==
  ASSUME Nestings = Nat, NEW F, NEW e \in Trees, Nested(F, e)
  PROVE  /\ \A j \in 2..Len(F) : F[j].node \in Evaluates[e]
         /\ Waits(F[Len(F)]) => NextPart(F[Len(F)]) \in Evaluates[e]
<1> DEFINE n == Len(F)
           NextIs(j) == Waits(F[j]) => NextPart(F[j]) \in Evaluates[e]
           T == {j \in Nat : j + 1 <= n => NextIs(j + 1)}
<1>1. n \in Nat \ {0} /\ \A j \in 1..n : F[j] \in Frames
  BY NestedIs
<1>2. \A j \in 1..(n - 1) : Waits(F[j]) /\ F[j + 1].node = NextPart(F[j])
  BY DEF Nested
<1>3. F[1].node = Top(e) /\ Parts(F[1].node) = <<e>>
  BY DEF Nested, Parts, Top
<1> HIDE DEF n
<1>4. NextIs(1)
  <2> SUFFICES ASSUME Waits(F[1]) PROVE NextPart(F[1]) \in Evaluates[e]
    OBVIOUS
  <2>1. F[1] \in Frames
    BY <1>1
  <2>2. Len(F[1].evald) + 1 \in 1..1 /\ NextPart(F[1]) = <<e>>[Len(F[1].evald) + 1]
    BY <1>3, <2>1, NextPartIs
  <2>3. Len(F[1].evald) + 1 = 1
    BY <2>2
  <2>4. NextPart(F[1]) = e
    BY <2>2, <2>3
  <2>5. QED
    BY <2>4, EvaluatesParts
<1>5. 0 \in T
  BY <1>4
<1>6. ASSUME NEW m \in Nat, m \in T PROVE m + 1 \in T
  <2> DEFINE j == m + 1
             x == F[j + 1]
  <2> SUFFICES ASSUME j + 1 <= n, Waits(x) PROVE NextPart(x) \in Evaluates[e]
    OBVIOUS
  <2>1. j \in 1..(n - 1) /\ j \in 1..n /\ j + 1 \in 1..n /\ j <= n
    BY <1>1
  <2>2. x \in Frames /\ x.node = NextPart(F[j]) /\ Waits(F[j])
    BY <1>1, <1>2, <2>1
  <2>3. x.node \in Evaluates[e]
    BY <1>6, <2>1, <2>2
  <2> HIDE DEF x, j
  <2>4. Len(x.evald) + 1 \in 1..Len(Parts(x.node)) /\ NextPart(x) = Parts(x.node)[Len(x.evald) + 1]
    BY <2>2, NextPartIs
  <2>5. QED
    BY <2>3, <2>4, PartsAreEvaluated
<1> HIDE DEF T
<1>7. \A m \in Nat : m \in T
  BY <1>5, <1>6, AllNumbers
<1>8. ASSUME NEW j \in 1..n PROVE NextIs(j)
  <2>1. j - 1 \in Nat /\ (j - 1) + 1 = j /\ j <= n
    BY <1>1
  <2>2. j - 1 \in T
    BY <1>7, <2>1
  <2>3. QED
    BY <2>1, <2>2 DEF T
<1>9. ASSUME NEW j \in 2..n PROVE F[j].node \in Evaluates[e]
  <2>1. j - 1 \in 1..(n - 1) /\ (j - 1) + 1 = j /\ j - 1 \in 1..n
    BY <1>1
  <2>2. Waits(F[j - 1]) /\ F[j].node = NextPart(F[j - 1])
    BY <1>2, <2>1
  <2>3. QED
    BY <1>8, <2>1, <2>2
<1>10. n \in 1..n
  BY <1>1
<1>11. QED
  BY <1>8, <1>9, <1>10 DEF n

\* No tuple is made, and fn is not named.
IsPlain(e) == \A t \in Evaluates[e] : t.tag # "Tuple" /\ t # SymLeaf(<<"fn">>)
Plain == \A k \in DOMAIN top_level_exprs : IsPlain(top_level_exprs[k])
\* The values of such a program are trees and the other builtin.
PlainValues == Trees \cup {Builtin("def")}
OfPlainValues(x) == \A k \in 1..Len(x.evald) : x.evald[k] \in PlainValues
PlainShell ==
  /\ \A name \in DOMAIN symbols : symbols[name] \in PlainValues
  /\ \A j \in 1..Len(stack) : OfPlainValues(stack[j])
PlainInv ==
  /\ pc = "eval" /\ Plain => PlainShell
  /\ result = "undefined" => ~Plain
  /\ pc # "exit" => result # "undefined"

\* The property in terms of such programs.
LEMMA UndefinedIsNotPlain == UndefinedNeedsATupleOrFn <=> (result = "undefined" => ~Plain)
BY DEF UndefinedNeedsATupleOrFn, Plain, IsPlain

\* Such a value is no tuple, and does not stand for fn.
LEMMA PlainValueIs ==
  ASSUME Nestings = Nat, NEW v \in PlainValues
  PROVE  v \in Values /\ ~Dangles(v) /\ v # Builtin("fn") /\ ~try_get_fn_expr(v)
<1>1. CASE v \in Trees
  <2>1. v \in Values
    BY <1>1, TreesAreValues
  <2>2. ~Dangles(v)
    BY <1>1, TreeIs DEF Dangles
  <2>3. \A t \in Trees : t # Builtin("fn")
    <3> SUFFICES ASSUME NEW t \in Trees, t = Builtin("fn") PROVE FALSE
      OBVIOUS
    <3>1. Builtin("fn") = [tag |-> "Sym", name |-> <<"fn">>, builtin |-> TRUE]
      BY AsBuiltin DEF Builtin
    <3>2. t.tag = "Sym" /\ t.builtin = TRUE
      BY <3>1
    <3>3. QED
      BY <3>2, TreeIs
  <2>4. ~try_get_fn_expr(v)
    <3>1. v.tag = "Apply" => v.lambda \in Trees
      BY <1>1, TreeIs
    <3>2. QED
      BY <2>3, <3>1 DEF try_get_fn_expr
  <2>5. QED
    BY <1>1, <2>1, <2>2, <2>3, <2>4
<1>2. CASE v = Builtin("def")
  BY <1>2, BuiltinIs DEF Dangles, try_get_fn_expr
<1>3. QED
  BY <1>1, <1>2 DEF PlainValues

\* The values of a node with one more.
LEMMA PlainAppend ==
  ASSUME Nestings = Nat, NEW F \in Seq(Frames), Len(F) # 0, NEW v \in Values, v \in PlainValues,
         \A j \in 1..Len(F) : OfPlainValues(F[j])
  PROVE  \A j \in 1..Len(WithValue(F, v)) : OfPlainValues(WithValue(F, v)[j])
<1> DEFINE n == Len(F)
           G == WithValue(F, v)
<1>1. n \in Nat \ {0} /\ \A j \in 1..n : F[j] \in Frames
  BY SeqIsFunction
<1>2. /\ Len(G) = n
      /\ \A j \in 1..(n - 1) : G[j] = F[j]
      /\ G[n].evald = Append(F[n].evald, v)
  BY WithValueIs
<1> HIDE DEF n, G
<1>3. n \in 1..n
  BY <1>1
<1>4. OfPlainValues(G[n])
  <2> DEFINE s == F[n].evald
  <2>1. s \in Seq(Values) /\ Len(s) \in Nat
    BY <1>1, <1>3, FrameIs
  <2>2. \A k \in 1..Len(s) : s[k] \in PlainValues
    BY <1>3 DEF OfPlainValues, n
  <2> HIDE DEF s
  <2>3. /\ Len(Append(s, v)) = Len(s) + 1
        /\ \A k \in 1..Len(s) : Append(s, v)[k] = s[k]
        /\ Append(s, v)[Len(s) + 1] = v
    BY <2>1, AppendProperties
  <2>4. ASSUME NEW k \in 1..Len(Append(s, v)) PROVE Append(s, v)[k] \in PlainValues
    <3>1. k = Len(s) + 1 \/ k \in 1..Len(s)
      BY <2>1, <2>3
    <3>2. QED
      BY <2>2, <2>3, <3>1
  <2>5. QED
    BY <1>2, <2>4 DEF OfPlainValues, s
<1>5. ASSUME NEW j \in 1..n PROVE OfPlainValues(G[j])
  <2>1. CASE j = n
    BY <1>4, <2>1
  <2>2. CASE j # n
    <3>1. j \in 1..(n - 1)
      BY <1>1, <2>2
    <3>2. OfPlainValues(F[j])
      BY DEF n
    <3>3. QED
      BY <1>2, <3>1, <3>2
  <2>3. QED
    BY <2>1, <2>2
<1>6. QED
  BY <1>2, <1>5 DEF G

\* The frames below.
LEMMA BelowIs ==
  ASSUME Nestings = Nat, NEW F, NEW e, Nested(F, e)
  PROVE  LET B == SubSeq(F, 1, Len(F) - 1)
         IN  \A j \in 1..Len(B) : j \in 1..Len(F) /\ B[j] = F[j]
<1>1. Len(F) \in Nat \ {0}
  BY NestedIs
<1>2. CASE Len(F) = 1
  <2>1. SubSeq(F, 1, Len(F) - 1) = SubSeq(F, 1, 0)
    BY <1>2
  <2>2. SubSeq(F, 1, 0) = <<>>
    OBVIOUS
  <2>3. QED
    BY <2>1, <2>2
<1>3. CASE Len(F) # 1
  <2> DEFINE B == SubSeq(F, 1, Len(F) - 1)
             n == Len(F)
  <2>1. Len(B) = n - 1 /\ \A j \in 1..Len(B) : B[j] = F[j]
    BY <1>3, NestedPop
  <2>2. n \in Nat
    BY <1>1
  <2> HIDE DEF B, n
  <2>3. \A j \in 1..Len(B) : j \in 1..n
    BY <2>1, <2>2
  <2>4. QED
    BY <2>1, <2>3 DEF B, n
<1>4. QED
  BY <1>2, <1>3

\* No step that exits before the shell does.
LEMMA PlainExit ==
  ASSUME PlainInv, NEW how, Exit(how), how = "undefined" => ~Plain
  PROVE  PlainInv'
<1>1. pc' = "exit" /\ result' = how /\ top_level_exprs' = top_level_exprs
  BY DEF Exit
<1>2. Plain' = Plain
  BY <1>1 DEF Plain
<1>3. QED
  BY <1>1, <1>2 DEF PlainInv

\* The steps before the shell.
LEMMA EarlyIsPlain == ASSUME IInv, PlainInv, c2main \/ ParseFile \/ AllParsed PROVE PlainInv'
<1>1. CASE c2main
  <2>1. pc = "start"
    BY <1>1 DEF c2main
  <2>2. CASE Exit("failure") \/ Exit("success")
    BY <2>2, PlainExit
  <2>3. CASE pc' = "parse" /\ result' = result
    BY <2>1, <2>3 DEF PlainInv
  <2>4. QED
    BY <1>1, <2>2, <2>3 DEF c2main
<1>2. CASE ParseFile
  <2>1. pc = "parse"
    BY <1>2 DEF ParseFile
  <2>2. CASE Exit("aborted")
    BY <2>2, PlainExit
  <2>3. CASE pc' = pc /\ result' = result
    BY <2>1, <2>3 DEF PlainInv
  <2>4. QED
    BY <1>2, <2>2, <2>3 DEF ParseFile
<1>3. CASE AllParsed
  <2>1. pc = "parse"
    BY <1>3 DEF AllParsed
  <2>2. CASE Exit("failure")
    BY <2>2, PlainExit
  <2>3. CASE pc' = "eval" /\ result' = result /\ stack' = stack /\ symbols' = symbols
    <3>1. stack' = <<>> /\ symbols' = NoSymbols
      BY <2>1, <2>3 DEF IInv, NotStarted
    <3>2. DOMAIN NoSymbols = {} /\ Len(<<>>) = 0
      BY DEF NoSymbols
    <3>3. PlainShell'
      BY <3>1, <3>2 DEF PlainShell
    <3>4. QED
      BY <2>1, <2>3, <3>3 DEF PlainInv
  <2>4. QED
    BY <1>3, <2>2, <2>3 DEF AllParsed
<1>4. QED
  BY <1>1, <1>2, <1>3

\* A step of the shell that does not exit.
LEMMA PlainKept ==
  ASSUME PlainInv, pc = "eval", pc' = pc, top_level_exprs' = top_level_exprs, result' = result,
         Plain => PlainShell'
  PROVE  PlainInv'
<1>1. Plain' = Plain
  BY DEF Plain
<1>2. QED
  BY <1>1 DEF PlainInv

\* A plain value for the node below, or for the same.
LEMMA PlainValueKept ==
  ASSUME Nestings = Nat, PlainInv, pc = "eval", NEW v, NEW F, Value(v, F),
         Plain => /\ F \in Seq(Frames) /\ Len(F) # 0 /\ v \in PlainValues
                  /\ \A j \in 1..Len(F) : OfPlainValues(F[j])
                  /\ \A name \in DOMAIN symbols' : symbols'[name] \in PlainValues
  PROVE  PlainInv'
<1>1. stack' = WithValue(F, v) /\ pc' = pc /\ top_level_exprs' = top_level_exprs /\ result' = result
  BY DEF Value, WithValue
<1>2. ASSUME Plain PROVE PlainShell'
  <2>1. v \in Values
    BY <1>2, PlainValueIs
  <2>2. \A j \in 1..Len(WithValue(F, v)) : OfPlainValues(WithValue(F, v)[j])
    BY <1>2, <2>1, PlainAppend
  <2>3. \A j \in 1..Len(stack') : OfPlainValues(stack'[j])
    BY <1>1, <2>2
  <2>4. QED
    BY <1>2, <2>3 DEF PlainShell, OfPlainValues
<1>3. QED
  BY <1>1, <1>2, PlainKept

\* An expression is begun with no values.
LEMMA StartExprIsPlain == ASSUME PlainInv, StartExpr PROVE PlainInv'
<1>1. pc = "eval"
  BY DEF StartExpr
<1>2. CASE next = Len(top_level_exprs)
  <2>1. Exit("success")
    BY <1>2 DEF StartExpr
  <2>2. QED
    BY <2>1, PlainExit
<1>3. CASE next # Len(top_level_exprs)
  <2> DEFINE x == Frame([tag |-> "Top", expr |-> top_level_exprs[next + 1]])
  <2>1. /\ stack' = <<x>> /\ pc' = pc /\ top_level_exprs' = top_level_exprs
        /\ symbols' = symbols /\ result' = result
    BY <1>3 DEF StartExpr
  <2>2. x.evald = <<>>
    BY DEF Frame
  <2> HIDE DEF x
  <2>3. Len(stack') = 1 /\ stack'[1] = x /\ Len(x.evald) = 0
    BY <2>1, <2>2
  <2>4. OfPlainValues(x)
    BY <2>3 DEF OfPlainValues
  <2>5. \A j \in 1..Len(stack') : OfPlainValues(stack'[j])
    <3> SUFFICES ASSUME NEW j \in 1..Len(stack') PROVE OfPlainValues(stack'[j])
      OBVIOUS
    <3>1. j = 1
      BY <2>3
    <3>2. QED
      BY <2>3, <2>4, <3>1
  <2>6. Plain => PlainShell'
    BY <1>1, <2>1, <2>5 DEF PlainInv, PlainShell, OfPlainValues
  <2>7. QED
    BY <1>1, <2>1, <2>6, PlainKept
<1>4. QED
  BY <1>2, <1>3

\* What a plain program evaluates.
LEMMA PlainWork ==
  ASSUME Nestings = Nat, IInv, PlainInv, pc = "eval", stack # <<>>, Plain
  PROVE  /\ PlainShell
         /\ Waits(frame) => IsPlain(top_level_exprs[next]) /\ NextPart(frame) \in Evaluates[top_level_exprs[next]]
         /\ frame.node.tag # "Tuple"
         /\ \A j \in 1..Len(Below) : j \in 1..Len(stack) /\ Below[j] = stack[j]
<1> DEFINE e == top_level_exprs[next]
<1>1. /\ Nested(stack, e) /\ Len(stack) \in Nat \ {0} /\ frame \in Frames
      /\ next \in 1..Len(top_level_exprs) /\ top_level_exprs \in Seq(Trees) /\ e \in Trees
  BY WorkIs
<1>2. DOMAIN top_level_exprs = 1..Len(top_level_exprs)
  BY <1>1, SeqIsFunction
<1>3. IsPlain(e)
  BY <1>1, <1>2 DEF Plain
<1> HIDE DEF e
<1>4. Waits(frame) => NextPart(frame) \in Evaluates[e]
  BY <1>1, NestedEvaluates DEF frame
<1>5. frame.node.tag # "Tuple"
  <2>1. CASE Len(stack) = 1
    BY <1>1, <2>1, NestedIs DEF frame
  <2>2. CASE Len(stack) # 1
    <3>1. Len(stack) \in 2..Len(stack)
      <4> DEFINE n == Len(stack)
      <4>1. n \in Nat \ {0} /\ n # 1
        BY <1>1, <2>2
      <4> HIDE DEF n
      <4>2. n \in 2..n
        BY <4>1
      <4>3. QED
        BY <4>2 DEF n
    <3>2. frame.node \in Evaluates[e]
      BY <1>1, <3>1, NestedEvaluates DEF frame
    <3>3. QED
      BY <1>3, <3>2 DEF IsPlain
  <2>3. QED
    BY <2>1, <2>2
<1>6. \A j \in 1..Len(Below) : j \in 1..Len(stack) /\ Below[j] = stack[j]
  BY <1>1, BelowIs DEF Below
<1>7. PlainShell
  BY DEF PlainInv
<1>8. QED
  BY <1>3, <1>4, <1>5, <1>6, <1>7 DEF e

\* The next part has a plain value, or has none yet.
LEMMA VisitIsPlain == ASSUME Nestings = Nat, IInv, PlainInv, Visit PROVE PlainInv'
<1> DEFINE e == Parts(frame.node)[Len(frame.evald) + 1]
<1>1. pc = "eval" /\ stack # <<>> /\ ~Evaluated
  BY DEF Visit
<1>2. /\ Len(stack) \in Nat \ {0} /\ stack \in Seq(Frames) /\ frame \in Frames /\ Waits(frame)
  BY <1>1, WorkIs
<1>3. e = NextPart(frame) /\ e \in Trees
  BY <1>2, FrameIs DEF NextPart
<1>4. ASSUME Plain
      PROVE  PlainShell /\ e # SymLeaf(<<"fn">>)
  <2>1. PlainShell /\ IsPlain(top_level_exprs[next]) /\ NextPart(frame) \in Evaluates[top_level_exprs[next]]
    BY <1>1, <1>2, <1>4, PlainWork
  <2>2. QED
    BY <1>3, <2>1 DEF IsPlain
<1>5. /\ e.tag \in {"Str", "Num", "Char"} => Value(e, stack) /\ UNCHANGED symbols
      /\ e.tag = "Quote" => Value(Quoted(e), stack) /\ UNCHANGED symbols
      /\ e.tag = "Sym" /\ resolveSymbol(e.name) = Unresolved => Exit("failure")
      /\ e.tag = "Sym" /\ resolveSymbol(e.name) # Unresolved =>
           Value(resolveSymbol(e.name), stack) /\ UNCHANGED symbols
      /\ e.tag \notin {"Str", "Num", "Char", "Quote", "Sym"} =>
           /\ stack' = Append(stack, Frame(e))
           /\ UNCHANGED <<input, pc, next, ok, top_level_exprs, symbols, result>>
  <2>1. ASSUME e.tag \in {"Str", "Num", "Char"} PROVE Value(e, stack) /\ UNCHANGED symbols
    BY <2>1 DEF Visit
  <2>2. ASSUME e.tag = "Quote" PROVE Value(Quoted(e), stack) /\ UNCHANGED symbols
    BY <2>2 DEF Visit
  <2>3. ASSUME e.tag = "Sym", resolveSymbol(e.name) = Unresolved PROVE Exit("failure")
    BY <2>3 DEF Visit
  <2>4. ASSUME e.tag = "Sym", resolveSymbol(e.name) # Unresolved
        PROVE  Value(resolveSymbol(e.name), stack) /\ UNCHANGED symbols
    BY <2>4 DEF Visit
  <2>5. ASSUME e.tag \notin {"Str", "Num", "Char", "Quote", "Sym"}
        PROVE  /\ stack' = Append(stack, Frame(e))
               /\ UNCHANGED <<input, pc, next, ok, top_level_exprs, symbols, result>>
    BY <2>5 DEF Visit
  <2>6. QED
    BY <2>1, <2>2, <2>3, <2>4, <2>5
<1> HIDE DEF e
<1>6. ASSUME NEW v, Value(v, stack), UNCHANGED symbols, Plain => v \in PlainValues
      PROVE  PlainInv'
  <2>1. ASSUME Plain
        PROVE  /\ stack \in Seq(Frames) /\ Len(stack) # 0 /\ v \in PlainValues
               /\ \A j \in 1..Len(stack) : OfPlainValues(stack[j])
               /\ \A name \in DOMAIN symbols' : symbols'[name] \in PlainValues
    BY <1>2, <1>4, <1>6, <2>1 DEF PlainShell
  <2>2. QED
    BY <1>1, <1>6, <2>1, PlainValueKept
<1>7. CASE e.tag \in {"Str", "Num", "Char"}
  <2>1. e \in PlainValues
    BY <1>3 DEF PlainValues
  <2>2. QED
    BY <1>5, <1>6, <1>7, <2>1
<1>8. CASE e.tag = "Quote"
  <2>1. Quoted(e) \in PlainValues
    BY <1>3, <1>8, TreeIs DEF PlainValues, Quoted
  <2>2. QED
    BY <1>5, <1>6, <1>8, <2>1
<1>9. CASE e.tag = "Sym" /\ resolveSymbol(e.name) # Unresolved
  <2>1. ASSUME Plain PROVE resolveSymbol(e.name) \in PlainValues
    <3>1. e = SymLeaf(e.name) /\ e # SymLeaf(<<"fn">>)
      BY <1>3, <1>4, <1>9, <2>1, TreeIs
    <3>2. e.name # <<"fn">>
      BY <3>1
    <3>3. CASE e.name \in Builtins
      <4>1. e.name = <<"def">>
        BY <3>2, <3>3 DEF Builtins
      <4>2. resolveSymbol(e.name) = Builtin("def")
        BY <3>3, <4>1 DEF resolveSymbol, Builtin
      <4>3. QED
        BY <4>2 DEF PlainValues
    <3>4. CASE e.name \notin Builtins
      <4>1. resolveSymbol(e.name) = symbols[e.name] /\ e.name \in DOMAIN symbols
        BY <1>9, <3>4 DEF resolveSymbol
      <4>2. QED
        BY <1>4, <2>1, <4>1 DEF PlainShell
    <3>5. QED
      BY <3>3, <3>4
  <2>2. Value(resolveSymbol(e.name), stack) /\ UNCHANGED symbols
    BY <1>5, <1>9
  <2>3. QED
    BY <1>6, <2>1, <2>2
<1>10. CASE e.tag = "Sym" /\ resolveSymbol(e.name) = Unresolved
  <2>1. Exit("failure")
    BY <1>5, <1>10
  <2>2. QED
    BY <2>1, PlainExit
<1>11. CASE e.tag \notin {"Str", "Num", "Char", "Quote", "Sym"}
  <2> DEFINE x == Frame(e)
             G == Append(stack, x)
             n == Len(stack)
  <2>1. stack' = G /\ pc' = pc /\ top_level_exprs' = top_level_exprs /\ symbols' = symbols /\ result' = result
    BY <1>5, <1>11
  <2>2. x.evald = <<>> /\ x \in Frames
    <3>1. <<>> \in Seq(Values)
      OBVIOUS
    <3>2. QED
      BY <1>3, <3>1 DEF Frame, Frames
  <2> HIDE DEF x
  <2>3. Len(G) = n + 1 /\ G[n + 1] = x /\ \A j \in 1..n : G[j] = stack[j]
    BY <1>2, <2>2, AppendProperties
  <2>4. OfPlainValues(x)
    BY <2>2 DEF OfPlainValues
  <2>5. n \in Nat
    BY <1>2
  <2> HIDE DEF G, n
  <2>6. ASSUME Plain PROVE \A j \in 1..Len(G) : OfPlainValues(G[j])
    <3> SUFFICES ASSUME NEW j \in 1..Len(G) PROVE OfPlainValues(G[j])
      OBVIOUS
    <3>1. j = n + 1 \/ j \in 1..n
      BY <2>3, <2>5
    <3>2. \A i \in 1..n : OfPlainValues(stack[i])
      BY <1>4, <2>6 DEF PlainShell, n
    <3>3. QED
      BY <2>3, <2>4, <3>1, <3>2
  <2>7. Plain => PlainShell'
    BY <1>4, <2>1, <2>6 DEF PlainShell, OfPlainValues
  <2>8. QED
    BY <1>1, <2>1, <2>7, PlainKept
<1>12. QED
  BY <1>7, <1>8, <1>9, <1>10, <1>11

\* Such a program makes no tuple.
LEMMA ReturnsArePlain == ASSUME Nestings = Nat, IInv, PlainInv, ReturnTuple \/ ReturnTop PROVE PlainInv'
<1>1. CASE ReturnTuple
  <2>1. pc = "eval" /\ stack # <<>> /\ frame.node.tag = "Tuple" /\ Value(TupleIn(next, frame.evald), Below)
    BY <1>1 DEF ReturnTuple
  <2>2. ~Plain
    BY <2>1, PlainWork
  <2>3. QED
    BY <2>1, <2>2, PlainValueKept
<1>2. CASE ReturnTop
  <2>1. /\ pc = "eval" /\ stack # <<>> /\ stack' = Below /\ pc' = pc /\ top_level_exprs' = top_level_exprs
        /\ symbols' = symbols /\ result' = result
    BY <1>2 DEF ReturnTop
  <2>2. ASSUME Plain PROVE PlainShell'
    <3>1. PlainShell /\ \A j \in 1..Len(Below) : j \in 1..Len(stack) /\ Below[j] = stack[j]
      BY <2>1, <2>2, PlainWork
    <3>2. \A j \in 1..Len(stack') : OfPlainValues(stack'[j])
      BY <2>1, <3>1 DEF PlainShell
    <3>3. QED
      BY <2>1, <3>1, <3>2 DEF PlainShell, OfPlainValues
  <2>3. QED
    BY <2>1, <2>2, PlainKept
<1>3. QED
  BY <1>1, <1>2

\* What is applied is a tree or the builtin def, and no freed tuple is read.
LEMMA ReturnApplyIsPlain == ASSUME Nestings = Nat, IInv, PlainInv, ReturnApply PROVE PlainInv'
<1> DEFINE vs == frame.evald
           head == Last(vs)
           as == Front(vs)
           new == [name \in DOMAIN symbols \cup {as[1].name} |->
                     IF name = as[1].name THEN as[2] ELSE symbols[name]]
<1>1. pc = "eval" /\ stack # <<>> /\ Evaluated /\ frame.node.tag = "Apply"
  BY DEF ReturnApply
<1>2. vs \in Seq(Values) /\ Len(vs) # 0 /\ Len(stack) # 1
  BY <1>1, ApplicationIs
<1>3. Nested(stack, top_level_exprs[next]) /\ Len(stack) \in Nat \ {0}
  BY <1>1, WorkIs
<1>4. Below \in Seq(Frames) /\ Len(Below) # 0
  BY <1>2, <1>3, NestedPop DEF Below, Nested
<1>5. ASSUME Plain
      PROVE  /\ PlainShell /\ \A j \in 1..Len(Below) : OfPlainValues(Below[j])
             /\ \A k \in 1..Len(vs) : vs[k] \in PlainValues
  <2>1. PlainShell /\ \A j \in 1..Len(Below) : j \in 1..Len(stack) /\ Below[j] = stack[j]
    BY <1>1, <1>5, PlainWork
  <2>2. Len(stack) \in 1..Len(stack)
    <3> DEFINE n == Len(stack)
    <3>1. n \in Nat \ {0}
      BY <1>3
    <3> HIDE DEF n
    <3>2. n \in 1..n
      BY <3>1
    <3>3. QED
      BY <3>2 DEF n
  <2>3. OfPlainValues(frame)
    BY <2>1, <2>2 DEF PlainShell, frame
  <2>4. \A j \in 1..Len(Below) : OfPlainValues(Below[j])
    BY <2>1 DEF PlainShell
  <2>5. QED
    BY <2>1, <2>3, <2>4 DEF OfPlainValues
<1>6. ASSUME Plain PROVE head \in PlainValues
  <2>1. Len(vs) \in 1..Len(vs)
    <3> DEFINE n == Len(vs)
    <3>1. n \in Nat \ {0}
      BY <1>2
    <3> HIDE DEF n
    <3>2. n \in 1..n
      BY <3>1
    <3>3. QED
      BY <3>2 DEF n
  <2>2. QED
    BY <1>5, <1>6, <2>1 DEF Last
<1>7. ASSUME Plain, Len(as) = 2 PROVE as[1] \in PlainValues /\ as[2] \in PlainValues
  <2>1. Len(vs) = 3
    BY <1>2, <1>7, OperandsAre
  <2>2. as = SubSeq(vs, 1, 2)
    BY <2>1 DEF Front
  <2>3. vs[1] \in PlainValues /\ vs[2] \in PlainValues
    BY <1>5, <1>7, <2>1
  <2>4. \A s : SubSeq(s, 1, 2)[1] = s[1] /\ SubSeq(s, 1, 2)[2] = s[2]
    OBVIOUS
  <2>5. QED
    BY <2>2, <2>3, <2>4
<1>8. ASSUME NEW how, Exit(how), how = "undefined" => ~Plain PROVE PlainInv'
  BY <1>8, PlainExit
<1>9. CASE Dangles(head) \/ head = Builtin("fn")
  <2>1. Exit("undefined")
    BY <1>9 DEF ReturnApply
  <2>2. ~Plain
    BY <1>6, <1>9, PlainValueIs
  <2>3. QED
    BY <1>8, <2>1, <2>2
<1>10. CASE ~(Dangles(head) \/ head = Builtin("fn")) /\ head # Builtin("def")
  <2> DEFINE how == IF try_get_fn_expr(head) THEN "undefined" ELSE "failure"
  <2>1. Exit(how)
    BY <1>10 DEF ReturnApply
  <2>2. how = "undefined" => ~Plain
    BY <1>6, PlainValueIs
  <2> HIDE DEF how
  <2>3. QED
    BY <1>8, <2>1, <2>2
<1>11. CASE ~(Dangles(head) \/ head = Builtin("fn")) /\ head = Builtin("def")
  <2>1. eval_def(as)
    BY <1>11 DEF ReturnApply
  <2>2. CASE Len(as) # 2
    <3>1. Exit("failure")
      BY <2>1, <2>2 DEF eval_def
    <3>2. QED
      BY <1>8, <3>1
  <2>3. CASE Len(as) = 2 /\ Dangles(as[1])
    <3>1. Exit("undefined")
      BY <2>1, <2>3 DEF eval_def
    <3>2. ~Plain
      BY <1>7, <2>3, PlainValueIs
    <3>3. QED
      BY <1>8, <3>1, <3>2
  <2>4. CASE Len(as) = 2 /\ ~Dangles(as[1]) /\ (as[1].tag # "Sym" \/ as[1].name \in DOMAIN symbols)
    <3>1. Exit("failure")
      BY <2>1, <2>4 DEF eval_def
    <3>2. QED
      BY <1>8, <3>1
  <2>5. CASE Len(as) = 2 /\ ~Dangles(as[1]) /\ ~(as[1].tag # "Sym" \/ as[1].name \in DOMAIN symbols)
    <3> DEFINE v == as[1]
    <3>1. symbols' = new /\ Value(v, Below)
      BY <2>1, <2>5 DEF eval_def
    <3>2. ASSUME Plain
          PROVE  /\ Below \in Seq(Frames) /\ Len(Below) # 0 /\ v \in PlainValues
                 /\ \A j \in 1..Len(Below) : OfPlainValues(Below[j])
                 /\ \A name \in DOMAIN symbols' : symbols'[name] \in PlainValues
      <4>1. as[1] \in PlainValues /\ as[2] \in PlainValues
        BY <1>7, <2>5, <3>2
      <4>2. \A name \in DOMAIN symbols : symbols[name] \in PlainValues
        BY <1>5, <3>2 DEF PlainShell
      <4>3. \A name \in DOMAIN new : new[name] \in PlainValues
        BY <4>1, <4>2
      <4> HIDE DEF new
      <4>4. QED
        BY <1>4, <1>5, <3>1, <3>2, <4>1, <4>3
    <3> HIDE DEF v, new
    <3>3. QED
      BY <1>1, <3>1, <3>2, PlainValueKept
  <2>6. QED
    BY <2>2, <2>3, <2>4, <2>5
<1>12. QED
  BY <1>9, <1>10, <1>11

\* Each step keeps what holds of such programs.
LEMMA StepsArePlain == ASSUME Nestings = Nat, IInv, PlainInv, [Next]_vars PROVE PlainInv'
<1>1. CASE c2main \/ ParseFile \/ AllParsed
  BY <1>1, EarlyIsPlain
<1>2. CASE StartExpr
  BY <1>2, StartExprIsPlain
<1>3. CASE Visit
  BY <1>3, VisitIsPlain
<1>4. CASE ReturnTuple \/ ReturnTop
  BY <1>4, ReturnsArePlain
<1>5. CASE ReturnApply
  BY <1>5, ReturnApplyIsPlain
<1>6. CASE Terminated \/ UNCHANGED vars
  <2>1. pc' = pc /\ top_level_exprs' = top_level_exprs /\ stack' = stack /\ symbols' = symbols /\ result' = result
    BY <1>6 DEF Terminated, vars
  <2>2. QED
    BY <2>1 DEF PlainInv, Plain, PlainShell, OfPlainValues
<1>7. QED
  BY <1>1, <1>2, <1>3, <1>4, <1>5, <1>6 DEF Next

\* A program that makes no tuple and does not name fn reads no tuple that is gone and
\* applies no fn, for trees of any nesting (fc/shell.cpp:68-72, 134-169).
THEOREM UndefinedIsDeserved == ASSUME Nestings = Nat PROVE Spec => []UndefinedNeedsATupleOrFn
<1>1. Init => IInv /\ PlainInv
  <2>1. Init => PlainInv
    BY DEF Init, PlainInv
  <2>2. QED
    BY <2>1, InitIsRight
<1>2. (IInv /\ PlainInv) /\ [Next]_vars => (IInv /\ PlainInv)'
  BY StepsAreRight, StepsArePlain
<1>3. (IInv /\ PlainInv) => UndefinedNeedsATupleOrFn
  BY UndefinedIsNotPlain DEF PlainInv
<1>4. QED
  BY <1>1, <1>2, <1>3, PTL DEF Spec

-----------------------------------------------------------------------------
(* The recursion of the grammar.                                           *)

\* A set of positions that has every one whose successors up to n it has.
LEMMA FromTheEnd ==
  ASSUME NEW n \in Nat, NEW T,
         \A a \in 0..n : (\A b \in (a + 1)..n : b \in T) => a \in T
  PROVE  \A a \in 0..n : a \in T
<1> DEFINE U == {m \in Nat : \A a \in 0..n : a + m > n => a \in T}
<1>1. 0 \in U
  OBVIOUS
<1>2. ASSUME NEW m \in Nat, m \in U PROVE m + 1 \in U
  <2> SUFFICES ASSUME NEW a \in 0..n, a + (m + 1) > n PROVE a \in T
    OBVIOUS
  <2>1. \A b \in (a + 1)..n : b \in 0..n /\ b + m > n
    OBVIOUS
  <2>2. \A b \in (a + 1)..n : b \in T
    BY <1>2, <2>1
  <2>3. QED
    BY <2>2
<1> HIDE DEF U
<1>3. n + 1 \in U
  BY <1>1, <1>2, AllNumbers
<1>4. \A a \in 0..n : a + (n + 1) > n
  OBVIOUS
<1>5. QED
  BY <1>3, <1>4 DEF U

\* What the segments that start at a place stand for.
RowAt(s, stands, i) == [what \in Segments |-> [j \in 0..Len(s) |-> Standing(s, stands, what, i, j)]]
SameBehind(s, f, g, i) == \A b \in (i + 1)..Len(s) : f[b] = g[b]

\* Nodes and strings are made of segments that start further on.
LEMMA NodesLocal ==
  ASSUME NEW s, Len(s) \in Nat, NEW i \in 0..Len(s), NEW j \in 0..Len(s), NEW f, NEW g, SameBehind(s, f, g, i)
  PROVE  /\ Nodes(s, f, i, j) = Nodes(s, g, i, j)
         /\ Strings(s, f, i, j) = Strings(s, g, i, j)
<1>1. i < j => f[i + 1] = g[i + 1]
  <2>1. i < j => i + 1 \in (i + 1)..Len(s)
    OBVIOUS
  <2>2. QED
    BY <2>1 DEF SameBehind
<1>2. \A open, close : Within(s, f, i, j, open, close) = Within(s, g, i, j, open, close)
  <2>1. i + 2 <= j => i < j
    OBVIOUS
  <2>2. QED
    BY <1>1, <2>1 DEF Within
<1>3. \A c : Behind(s, i, j, c, {StrNode(t) : t \in f[i + 1]["string"][j]}) = Behind(s, i, j, c, {StrNode(t) : t \in g[i + 1]["string"][j]})
  BY <1>1 DEF Behind
<1>4. \A c : Behind(s, i, j, c, {QuoteNode(e) : e \in f[i + 1]["node"][j]}) = Behind(s, i, j, c, {QuoteNode(e) : e \in g[i + 1]["node"][j]})
  BY <1>1 DEF Behind
<1>5. Nodes(s, f, i, j) = Nodes(s, g, i, j)
  BY <1>2, <1>3, <1>4 DEF Nodes
<1>6. Strings(s, f, i, j) = Strings(s, g, i, j)
  <2>1. ASSUME NEW k \in (i + 1)..j PROVE \A c : From(f, c, k, j) = From(g, c, k, j)
    <3>1. k \in (i + 1)..Len(s)
      OBVIOUS
    <3>2. f[k] = g[k]
      BY <3>1 DEF SameBehind
    <3>3. QED
      BY <3>2 DEF From
  <2> DEFINE A(h, k) == UNION {From(h, c, k, j) : c \in Character(s, i, k)}
  <2>2. \A k \in (i + 1)..j : A(f, k) = A(g, k)
    BY <2>1
  <2>3. \A h : Strings(s, h, i, j) = UNION {A(h, k) : k \in (i + 1)..j}
    BY DEF Strings
  <2> HIDE DEF A
  <2>4. QED
    BY <2>2, <2>3
<1>7. QED
  BY <1>5, <1>6

\* So are forests.
LEMMA RowLocal ==
  ASSUME NEW s, Len(s) \in Nat, NEW i \in 0..Len(s), NEW f, NEW g, SameBehind(s, f, g, i)
  PROVE  RowAt(s, f, i) = RowAt(s, g, i)
<1>1. ASSUME NEW close, NEW j \in 0..Len(s)
      PROVE  Forest(s, f, close, i, j) = Forest(s, g, close, i, j)
  <2> DEFINE P == {p \in (i..j) \X (i..j) :
                     /\ p[1] < p[2] /\ Over(s, i, p[1], Blanks)
                     /\ close # "end" => p[2] = j \/ s[p[2] + 1] \in Blanks}
             B(h, q) == {<<e>> \o rest : e \in Nodes(s, h, q[1], q[2]), rest \in h[q[2]][close][j]}
  <2>1. ASSUME NEW q \in P PROVE B(f, q) = B(g, q)
    <3>1. q[1] \in i..j /\ q[2] \in i..j /\ q[1] < q[2]
      OBVIOUS
    <3>2. q[2] \in (i + 1)..Len(s) /\ q[1] \in 0..Len(s) /\ q[2] \in 0..Len(s)
      BY <3>1
    <3>3. f[q[2]] = g[q[2]]
      BY <3>2 DEF SameBehind
    <3>4. \A b \in (q[1] + 1)..Len(s) : b \in (i + 1)..Len(s)
      BY <3>1
    <3>5. SameBehind(s, f, g, q[1])
      BY <3>4 DEF SameBehind
    <3>6. Nodes(s, f, q[1], q[2]) = Nodes(s, g, q[1], q[2])
      BY <3>2, <3>5, NodesLocal
    <3>7. QED
      BY <3>3, <3>6
  <2>2. \A h : Forest(s, h, close, i, j) = If(Over(s, i, j, Blanks), <<>>) \cup UNION {B(h, q) : q \in P}
    BY DEF Forest
  <2> HIDE DEF B, P
  <2>3. {B(f, q) : q \in P} = {B(g, q) : q \in P}
    BY <2>1
  <2>4. /\ Forest(s, f, close, i, j) = If(Over(s, i, j, Blanks), <<>>) \cup UNION {B(f, q) : q \in P}
        /\ Forest(s, g, close, i, j) = If(Over(s, i, j, Blanks), <<>>) \cup UNION {B(g, q) : q \in P}
    BY <2>2
  <2>5. QED
    BY <2>3, <2>4
<1>2. ASSUME NEW what \in Segments, NEW j \in 0..Len(s)
      PROVE  Standing(s, f, what, i, j) = Standing(s, g, what, i, j)
  BY <1>1, NodesLocal DEF Standing
<1>3. QED
  BY <1>2 DEF RowAt

SolvesGrammar(s, f) == f = [i \in 0..Len(s) |-> RowAt(s, f, i)]

\* The grammar's recursion has a solution.
LEMMA GrammarSolvable ==
  ASSUME NEW s, Len(s) \in Nat
  PROVE  \E f : SolvesGrammar(s, f)
<1> DEFINE n == Len(s)
           T == {a \in 0..n : \E f : f = [i \in a..n |-> RowAt(s, f, i)]}
<1>1. ASSUME NEW a \in 0..n, \A b \in (a + 1)..n : b \in T PROVE a \in T
  <2>1. \E f : \A i \in (a + 1)..n : f[i] = RowAt(s, f, i)
    <3>1. CASE a = n
      BY <3>1
    <3>2. CASE a # n
      <4>1. a + 1 \in (a + 1)..n
        BY <3>2
      <4>2. PICK f : f = [i \in (a + 1)..n |-> RowAt(s, f, i)]
        BY <1>1, <4>1
      <4>3. \A i \in (a + 1)..n : f[i] = RowAt(s, f, i)
        BY <4>2
      <4>4. QED
        BY <4>3
    <3>3. QED
      BY <3>1, <3>2
  <2>2. PICK f : \A i \in (a + 1)..n : f[i] = RowAt(s, f, i)
    BY <2>1
  <2> DEFINE g == [i \in a..n |-> RowAt(s, f, i)]
  <2>3. \A i \in a..n : g[i] = RowAt(s, f, i)
    OBVIOUS
  <2>4. \A b \in (a + 1)..n : b \in a..n
    OBVIOUS
  <2>5. \A b \in (a + 1)..n : f[b] = g[b]
    BY <2>2, <2>3, <2>4
  <2>6. ASSUME NEW i \in a..n PROVE RowAt(s, f, i) = RowAt(s, g, i)
    <3>1. i \in 0..n /\ \A b \in (i + 1)..n : b \in (a + 1)..n
      OBVIOUS
    <3> HIDE DEF g
    <3>2. SameBehind(s, f, g, i)
      BY <2>5, <3>1 DEF SameBehind
    <3>3. QED
      BY <3>1, <3>2, RowLocal
  <2>7. g = [i \in a..n |-> RowAt(s, g, i)]
    BY <2>6
  <2>8. QED
    BY <2>7
<1>2. n \in Nat
  OBVIOUS
<1> HIDE DEF T, n
<1>3. 0 \in T
  <2>1. \A a \in 0..n : a \in T
    BY <1>1, <1>2, FromTheEnd
  <2>2. QED
    BY <1>2, <2>1
<1>4. QED
  BY <1>3 DEF T, n, SolvesGrammar

\* What all segments of a text stand for.
Grammar(s) == CHOOSE f : SolvesGrammar(s, f)

\* They satisfy the grammar.
LEMMA GrammarIs ==
  ASSUME NEW s, Len(s) \in Nat
  PROVE  /\ \A i \in 0..Len(s), what \in Segments, j \in 0..Len(s) :
              Grammar(s)[i][what][j] = Standing(s, Grammar(s), what, i, j)
         /\ Forests(s) = Grammar(s)[0]["end"][Len(s)]
<1>1. SolvesGrammar(s, Grammar(s))
  BY GrammarSolvable DEF Grammar
<1>2. \A i \in 0..Len(s) : Grammar(s)[i] = RowAt(s, Grammar(s), i)
  BY <1>1 DEF SolvesGrammar
<1>3. \A i \in 0..Len(s), what \in Segments, j \in 0..Len(s) :
        Grammar(s)[i][what][j] = Standing(s, Grammar(s), what, i, j)
  <2>1. TAKE i \in 0..Len(s), what \in Segments, j \in 0..Len(s)
  <2>2. Grammar(s)[i] = RowAt(s, Grammar(s), i)
    BY <1>2
  <2>3. RowAt(s, Grammar(s), i)[what][j] = Standing(s, Grammar(s), what, i, j)
    BY DEF RowAt
  <2>4. QED
    BY <2>2, <2>3
<1>4. Forests(s) = Grammar(s)[0]["end"][Len(s)]
  BY DEF Forests, Grammar, SolvesGrammar, RowAt
<1>5. QED
  BY <1>3, <1>4

-----------------------------------------------------------------------------
(* The tokens: at most one starts at a place, the one the parser reads.    *)

\* Where the digits of a number start, and its text.
IntegerAt(s, i) == IF s[i + 1] \in Signs THEN i + 1 ELSE i
NumberAt(s, i) == IF s[i + 1] = "+" THEN i + 2 ELSE i + 1
\* An integer, and the two kinds of numbers.
IntegerTo(s, z, m) == z < m /\ Over(s, z, m, Digits) /\ (s[z + 1] = "0" => m = z + 1)
WholeTo(s, z, j) ==
  /\ IntegerTo(s, z, j)
  /\ Stops(s, j, {"."})
  /\ s[z + 1] # "0" => Stops(s, j, Digits)
DecimalTo(s, z, j) ==
  \E m \in (z + 1)..(j - 2) :
    /\ IntegerTo(s, z, m)
    /\ s[m + 1] = "."
    /\ Over(s, m + 1, j, Digits)
    /\ Stops(s, j, Digits)

\* The numbers of the grammar, in these words.
LEMMA NumbersHas ==
  ASSUME NEW s, NEW i \in Nat, NEW j \in Nat, i < j
  PROVE  Numbers(s, i, j) = IF WholeTo(s, IntegerAt(s, i), j) \/ DecimalTo(s, IntegerAt(s, i), j)
                            THEN {NumLeaf(SubSeq(s, NumberAt(s, i), j))} ELSE {}
BY DEF Numbers, WholeTo, DecimalTo, IntegerTo, IntegerAt, NumberAt, If

\* A decimal point is no digit.
LEMMA DotIsNoDigit == "." \notin Digits /\ "0" \in Digits
BY DEF Digits

\* Without a digit there is no number.
LEMMA NoInteger ==
  ASSUME NEW s, Len(s) \in Nat, NEW z \in Nat, NEW j \in Nat, j <= Len(s),
         z < Len(s) => s[z + 1] \notin Digits
  PROVE  ~WholeTo(s, z, j) /\ ~DecimalTo(s, z, j)
<1>2. ASSUME NEW m \in Nat, m <= Len(s) PROVE ~IntegerTo(s, z, m)
  <2>1. z < m => z < Len(s) /\ z + 1 \in (z + 1)..m
    BY <1>2
  <2>2. QED
    BY <2>1 DEF IntegerTo, Over
<1>3. \A m \in (z + 1)..(j - 2) : m \in Nat /\ m <= Len(s)
  OBVIOUS
<1>4. QED
  BY <1>2, <1>3 DEF WholeTo, DecimalTo

\* An integer without a dot is a number;
LEMMA WholeIs ==
  ASSUME NEW s, Len(s) \in Nat, NEW z \in Nat, NEW l \in Nat, l <= Len(s), NEW j \in Nat, j <= Len(s),
         IntegerTo(s, z, l),
         l < Len(s) => s[l + 1] # ".",
         l < Len(s) /\ s[z + 1] # "0" => s[l + 1] \notin Digits
  PROVE  WholeTo(s, z, j) \/ DecimalTo(s, z, j) <=> j = l
<1>2. z < l
  BY DEF IntegerTo
<1>3. WholeTo(s, z, l)
  BY DEF WholeTo, Stops
<1>4. ASSUME NEW m \in Nat, m <= Len(s), IntegerTo(s, z, m), m # l
      PROVE  m < l /\ s[m + 1] \in Digits /\ s[z + 1] # "0"
  <2>1. s[z + 1] # "0" /\ z < m
    BY <1>4 DEF IntegerTo
  <2>2. m < l
    <3>1. ASSUME l < m PROVE FALSE
      <4>1. l + 1 \in (z + 1)..m /\ l < Len(s)
        BY <1>2, <1>4, <3>1
      <4>2. QED
        BY <1>4, <2>1, <4>1 DEF IntegerTo, Over
    <3>2. QED
      BY <1>4, <3>1
  <2>3. m + 1 \in (z + 1)..l
    BY <2>1, <2>2
  <2>4. QED
    BY <2>1, <2>2, <2>3 DEF IntegerTo, Over
<1>5. ASSUME WholeTo(s, z, j), j # l PROVE FALSE
  <2>1. j < l /\ s[j + 1] \in Digits /\ s[z + 1] # "0"
    BY <1>4, <1>5 DEF WholeTo
  <2>2. j < Len(s)
    BY <2>1
  <2>3. QED
    BY <1>5, <2>1, <2>2 DEF WholeTo, Stops
<1>6. ASSUME DecimalTo(s, z, j) PROVE FALSE
  <2>1. PICK m \in (z + 1)..(j - 2) : IntegerTo(s, z, m) /\ s[m + 1] = "."
    BY <1>6 DEF DecimalTo
  <2>2. m \in Nat /\ m <= Len(s) /\ m < Len(s)
    OBVIOUS
  <2>3. m # l
    BY <2>1, <2>2
  <2>4. QED
    BY <1>4, <2>1, <2>2, <2>3, DotIsNoDigit
<1>7. QED
  BY <1>3, <1>5, <1>6

\* one with a dot is if digits follow.
LEMMA DecimalIs ==
  ASSUME NEW s, Len(s) \in Nat, NEW z \in Nat, NEW m \in Nat, NEW l \in Nat, m + 1 <= l, l <= Len(s),
         NEW j \in Nat, j <= Len(s),
         IntegerTo(s, z, m), s[m + 1] = ".", Over(s, m + 1, l, Digits),
         l < Len(s) => s[l + 1] \notin Digits
  PROVE  WholeTo(s, z, j) \/ DecimalTo(s, z, j) <=> j = l /\ m + 2 <= l
<1>2. z < m /\ m < Len(s)
  BY DEF IntegerTo
<1>3. ASSUME NEW q \in Nat, q <= Len(s), IntegerTo(s, z, q), q # m
      PROVE  q < m /\ s[q + 1] \in Digits /\ s[z + 1] # "0"
  <2>1. s[z + 1] # "0" /\ z < q
    BY <1>3 DEF IntegerTo
  <2>2. q < m
    <3>1. ASSUME m < q PROVE FALSE
      <4>1. m + 1 \in (z + 1)..q
        BY <1>2, <1>3, <3>1
      <4>2. QED
        BY <1>3, <4>1, DotIsNoDigit DEF IntegerTo, Over
    <3>2. QED
      BY <1>3, <3>1
  <2>3. q + 1 \in (z + 1)..m
    BY <2>1, <2>2
  <2>4. QED
    BY <2>1, <2>2, <2>3 DEF IntegerTo, Over
<1>4. ASSUME WholeTo(s, z, j) PROVE FALSE
  <2>1. CASE j = m
    BY <1>2, <1>4, <2>1 DEF WholeTo, Stops
  <2>2. CASE j # m
    <3>1. j < m /\ s[j + 1] \in Digits /\ s[z + 1] # "0"
      BY <1>3, <1>4, <2>2 DEF WholeTo
    <3>2. j < Len(s)
      BY <1>2, <3>1
    <3>3. QED
      BY <1>4, <3>1, <3>2 DEF WholeTo, Stops
  <2>3. QED
    BY <2>1, <2>2
<1>5. ASSUME DecimalTo(s, z, j) PROVE j = l /\ m + 2 <= l
  <2>1. PICK q \in (z + 1)..(j - 2) :
           IntegerTo(s, z, q) /\ s[q + 1] = "." /\ Over(s, q + 1, j, Digits) /\ Stops(s, j, Digits)
    BY <1>5 DEF DecimalTo
  <2>2. q \in Nat /\ q <= Len(s) /\ q + 2 <= j
    OBVIOUS
  <2>3. q = m
    BY <1>3, <2>1, <2>2, DotIsNoDigit
  <2>4. ASSUME j < l PROVE FALSE
    <3>1. j < Len(s) /\ j + 1 \in ((m + 1) + 1)..l
      BY <2>2, <2>3, <2>4
    <3>2. QED
      BY <2>1, <3>1 DEF Stops, Over
  <2>5. ASSUME l < j PROVE FALSE
    <3>1. l < Len(s) /\ l + 1 \in ((m + 1) + 1)..j
      BY <2>5
    <3>2. QED
      BY <2>1, <2>3, <3>1 DEF Over
  <2>6. QED
    BY <2>2, <2>3, <2>4, <2>5
<1>6. ASSUME m + 2 <= l PROVE DecimalTo(s, z, l)
  <2>1. m \in (z + 1)..(l - 2)
    BY <1>2, <1>6
  <2>2. Stops(s, l, Digits)
    BY DEF Stops
  <2>3. QED
    BY <2>1, <2>2 DEF DecimalTo
<1>7. QED
  BY <1>4, <1>5, <1>6

\* What may be read from a place, and where it then ends.
Gives(row, ends, r, at) ==
  IF r.how = "node" THEN at \in ends /\ \A k \in ends : row[k] = IF k = at THEN {r.node} ELSE {}
  ELSE \A k \in ends : row[k] = {}

\* read_num reads the number of the grammar (fc/ast_builder.cpp:218-308).
LEMMA NumbersAre ==
  ASSUME NEW f, IsText(f), NEW p \in 0..Len(f.chars), ~AtEnd(f, p)
  PROVE  LET r == read_num(f, p)
         IN  Gives([k \in (p + 1)..Len(f.chars) |-> Numbers(f.chars, p, k)], (p + 1)..Len(f.chars), r, r.p)
<1> DEFINE s == f.chars
           n == Len(s)
           start == IF SeesOneOf(f, p, Signs) THEN p + 1 ELSE p
           whole == IF SeesOneOf(f, start, {"0"}) THEN start + 1 ELSE Past(f, start, Digits)
           end == IF SeesOneOf(f, whole, {"."}) THEN Past(f, whole + 1, Digits) ELSE whole
           first == IF Next1(f, p) = "+" THEN p + 2 ELSE p + 1
           r == read_num(f, p)
           Is(k) == WholeTo(s, start, k) \/ DecimalTo(s, start, k)
           leaf(k) == NumLeaf(SubSeq(s, first, k))
<1>0. n \in Nat /\ p \in Nat /\ p + 1 \in 1..n /\ p < n
  BY PlaceIs
<1>1. start \in p..n /\ start \in 0..n /\ start = IntegerAt(s, p) /\ first = NumberAt(s, p)
  BY <1>0 DEF IntegerAt, NumberAt, SeesOneOf, Next1
<1>2. \A k \in (p + 1)..n : Numbers(s, p, k) = IF Is(k) THEN {leaf(k)} ELSE {}
  <2>1. \A k \in (p + 1)..n : k \in Nat /\ p < k
    BY <1>0
  <2> HIDE DEF first, start, s, n
  <2>2. QED
    BY <1>0, <1>1, <2>1, NumbersHas
<1>3. r = IF whole = start \/ end = whole + 1 THEN Nothing ELSE Read(leaf(end), end, TRUE)
  BY DEF read_num
<1> HIDE DEF first, leaf, r
<1>4. whole \in start..n /\ whole \in 0..n /\ (whole # start => IntegerTo(s, start, whole))
      /\ (whole = start => (start < n => s[start + 1] \notin Digits))
      /\ (whole < n /\ s[start + 1] # "0" => s[whole + 1] \notin Digits)
  <2>1. CASE SeesOneOf(f, start, {"0"})
    <3> HIDE DEF start
    <3>1. start + 1 \in 1..n /\ s[start + 1] = "0" /\ whole = start + 1
      BY <1>1, <2>1, PlaceIs DEF SeesOneOf, Next1
    <3>2. IntegerTo(s, start, start + 1)
      <4>1. start < start + 1 /\ \A i \in (start + 1)..(start + 1) : i = start + 1
        BY <1>1
      <4>2. QED
        BY <3>1, <4>1, DotIsNoDigit DEF IntegerTo, Over
    <3>3. QED
      BY <1>0, <1>1, <3>1, <3>2
  <2>2. CASE ~SeesOneOf(f, start, {"0"})
    <3> HIDE DEF start
    <3>1. whole = Past(f, start, Digits)
      BY <2>2
    <3>2. whole \in start..n /\ whole \in 0..n /\ (\A i \in (start + 1)..whole : s[i] \in Digits) /\ ~SeesOneOf(f, whole, Digits)
      BY <1>1, <3>1, PastIs
    <3>3. whole < n => s[whole + 1] \notin Digits
      BY <1>0, <3>2 DEF SeesOneOf, Next1, AtEnd
    <3>4. start < n => s[start + 1] # "0"
      BY <1>0, <1>1, <2>2 DEF SeesOneOf, Next1, AtEnd
    <3>5. whole # start => start < whole /\ start < n
      BY <1>0, <1>1, <3>2
    <3> HIDE DEF whole, s, n
    <3>6. whole # start => IntegerTo(s, start, whole)
      BY <3>2, <3>4, <3>5 DEF IntegerTo, Over
    <3>7. QED
      BY <3>2, <3>3, <3>6
  <2>3. QED
    BY <2>1, <2>2
<1>5. /\ SeesOneOf(f, whole, {"."}) <=> whole < n /\ s[whole + 1] = "."
      /\ SeesOneOf(f, whole, {"."}) => /\ end \in (whole + 1)..n
                                       /\ Over(s, whole + 1, end, Digits)
                                       /\ end < n => s[end + 1] \notin Digits
      /\ ~SeesOneOf(f, whole, {"."}) => end = whole
  <2> HIDE DEF whole
  <2>1. SeesOneOf(f, whole, {"."}) <=> whole < n /\ s[whole + 1] = "."
    BY <1>0, <1>4 DEF SeesOneOf, Next1, AtEnd
  <2>2. ASSUME SeesOneOf(f, whole, {"."})
        PROVE  end \in (whole + 1)..n /\ Over(s, whole + 1, end, Digits) /\ (end < n => s[end + 1] \notin Digits)
    <3>1. whole + 1 \in 0..n /\ end = Past(f, whole + 1, Digits)
      BY <1>0, <1>4, <2>1, <2>2
    <3>2. end \in (whole + 1)..n /\ (\A i \in ((whole + 1) + 1)..end : s[i] \in Digits) /\ ~SeesOneOf(f, end, Digits)
      BY <3>1, PastIs
    <3>3. end < n => s[end + 1] \notin Digits
      BY <1>0, <3>2 DEF SeesOneOf, Next1, AtEnd
    <3>4. QED
      BY <3>2, <3>3 DEF Over
  <2>3. QED
    BY <2>1, <2>2
<1> HIDE DEF start, whole, end, s, n
<1>6. \A k \in (p + 1)..n : k \in Nat /\ k <= n
  BY <1>0
<1>7. start \in Nat /\ whole \in Nat /\ whole <= n /\ start <= whole /\ p <= start
  BY <1>0, <1>1, <1>4
<1>8. CASE whole = start
  <2>1. \A k \in (p + 1)..n : ~Is(k)
    BY <1>0, <1>4, <1>6, <1>7, <1>8, NoInteger DEF n
  <2>2. r.how = "none"
    BY <1>3, <1>8 DEF Nothing
  <2>3. QED
    BY <1>2, <2>1, <2>2 DEF Gives, r, n, s
<1>9. CASE whole # start /\ SeesOneOf(f, whole, {"."})
  <2>1. IntegerTo(s, start, whole) /\ s[whole + 1] = "." /\ end \in Nat /\ whole + 1 <= end /\ end <= n
    BY <1>0, <1>4, <1>5, <1>7, <1>9
  <2>2. \A k \in (p + 1)..n : Is(k) <=> k = end /\ whole + 2 <= end
    BY <1>0, <1>5, <1>6, <1>7, <1>9, <2>1, DecimalIs DEF n
  <2>3. CASE end = whole + 1
    <3>1. \A k \in (p + 1)..n : ~Is(k)
      BY <1>7, <2>2, <2>3
    <3>2. r.how = "none"
      BY <1>3, <2>3 DEF Nothing
    <3>3. QED
      BY <1>2, <3>1, <3>2 DEF Gives, r, n, s
  <2>4. CASE end # whole + 1
    <3>0. end \in (p + 1)..n /\ whole + 2 <= end
      BY <1>0, <1>7, <2>1, <2>4
    <3>1. r = Read(leaf(end), end, TRUE) /\ end \in (p + 1)..n /\ whole + 2 <= end
      BY <1>3, <1>9, <2>4, <3>0
    <3>2. r.how = "node" /\ r.node = leaf(end) /\ r.p = end
      BY <3>1 DEF Read
    <3>3. \A k \in (p + 1)..n : Numbers(s, p, k) = IF k = end THEN {leaf(end)} ELSE {}
      BY <1>2, <2>2, <3>1
    <3>4. QED
      BY <3>1, <3>2, <3>3 DEF Gives, r, n, s
  <2>5. QED
    BY <2>3, <2>4
<1>10. CASE whole # start /\ ~SeesOneOf(f, whole, {"."})
  <2>1. IntegerTo(s, start, whole) /\ (whole < n => s[whole + 1] # ".") /\ end = whole /\ end # whole + 1
    BY <1>4, <1>5, <1>7, <1>10
  <2>2. \A k \in (p + 1)..n : Is(k) <=> k = whole
    BY <1>0, <1>4, <1>6, <1>7, <2>1, WholeIs DEF n
  <2>0. end \in (p + 1)..n
    BY <1>0, <1>7, <1>10, <2>1
  <2>3. r = Read(leaf(end), end, TRUE) /\ end \in (p + 1)..n
    BY <1>3, <1>10, <2>0, <2>1
  <2>4. r.how = "node" /\ r.node = leaf(end) /\ r.p = end
    BY <2>3 DEF Read
  <2>5. \A k \in (p + 1)..n : Numbers(s, p, k) = IF k = end THEN {leaf(end)} ELSE {}
    BY <1>2, <2>1, <2>2
  <2>6. QED
    BY <2>3, <2>4, <2>5 DEF Gives, r, n, s
<1>11. QED
  BY <1>8, <1>9, <1>10

\* Nor is a symbol anything but what read_sym reads (fc/ast_builder.cpp:310-325).
LEMMA SymbolsAre ==
  ASSUME NEW f, IsText(f), NEW p \in 0..Len(f.chars), ~AtEnd(f, p),
         Next1(f, p) \notin Digits \cup Signs \cup {UTFCHAR_PREFIX, QUOTE_CHAR}
  PROVE  LET r == read_sym(f, p)
         IN  Gives([k \in (p + 1)..Len(f.chars) |-> Symbols(f.chars, p, k)], (p + 1)..Len(f.chars), r, r.p)
<1> DEFINE s == f.chars
           n == Len(s)
           S == {c \in Characters : is_symbol_char(c)}
           l == Past(f, p, S)
           r == read_sym(f, p)
<1>0. n \in Nat /\ p \in Nat /\ p < n /\ \A i \in 1..n : s[i] \in Characters
  BY PlaceIs DEF AtEnd
<1>1. /\ l \in p..n /\ \A i \in (p + 1)..l : is_symbol_char(s[i])
      /\ l < n => ~is_symbol_char(s[l + 1])
  <2>1. l \in p..n /\ (\A i \in (p + 1)..l : s[i] \in S) /\ ~SeesOneOf(f, l, S)
    BY PastIs
  <2> HIDE DEF l
  <2>2. l < n => s[l + 1] \in Characters /\ s[l + 1] \notin S
    BY <1>0, <2>1 DEF SeesOneOf, Next1, AtEnd
  <2>3. QED
    BY <2>1, <2>2
<1>2. r = IF l = p THEN Nothing ELSE Read(SymLeaf(SubSeq(s, p + 1, l)), l, TRUE)
  BY DEF read_sym
<1>3. s[p + 1] \notin Digits \cup Signs \cup {UTFCHAR_PREFIX, QUOTE_CHAR}
  BY DEF Next1
<1> HIDE DEF l, r, n, s
<1>4. ASSUME NEW k \in (p + 1)..n
      PROVE  Symbols(s, p, k) = IF k = l THEN {SymLeaf(SubSeq(s, p + 1, l))} ELSE {}
  <2>1. p < k /\ k <= n /\ k \in Nat /\ l \in Nat
    BY <1>0, <1>1
  <2>2. CASE k = l
    BY <1>1, <1>3, <2>1, <2>2 DEF Symbols, If, n
  <2>3. CASE k < l
    <3>1. k < n /\ k + 1 \in (p + 1)..l
      BY <1>0, <1>1, <2>1, <2>3
    <3>2. is_symbol_char(s[k + 1])
      BY <1>1, <3>1
    <3>3. QED
      BY <2>3, <3>1, <3>2 DEF Symbols, If, n
  <2>4. CASE l < k
    <3>1. l < n /\ l + 1 \in (p + 1)..k
      BY <1>0, <1>1, <2>1, <2>4
    <3>2. QED
      BY <1>1, <2>4, <3>1 DEF Symbols, If, n
  <2>5. QED
    BY <2>1, <2>2, <2>3, <2>4
<1>5. CASE l = p
  <2>1. \A k \in (p + 1)..n : Symbols(s, p, k) = {}
    BY <1>0, <1>4, <1>5
  <2>2. r.how = "none"
    BY <1>2, <1>5 DEF Nothing
  <2>3. QED
    BY <2>1, <2>2 DEF Gives, r, n, s
<1>6. CASE l # p
  <2>1. l \in (p + 1)..n
    BY <1>0, <1>1, <1>6
  <2>2. r.how = "node" /\ r.node = SymLeaf(SubSeq(s, p + 1, l)) /\ r.p = l
    BY <1>2, <1>6 DEF Read
  <2>3. QED
    BY <1>4, <2>1, <2>2 DEF Gives, r, n, s
<1>7. QED
  BY <1>5, <1>6

\* Nor is a character anything but what read_utf8char reads (fc/ast_builder.cpp:158-197).
LEMMA CharactersAre ==
  ASSUME NEW f, IsText(f), NEW p \in 0..Len(f.chars)
  PROVE  LET c == read_utf8char(f, p)
         IN  /\ c.how \in {"node", "none"}
             /\ c.how = "node" => c.p \in (p + 1)..Len(f.chars)
             /\ \A k \in p..Len(f.chars) :
                  Character(f.chars, p, k) = IF c.how = "node" /\ k = c.p THEN {c.node} ELSE {}
<1> DEFINE s == f.chars
           n == Len(s)
           c == read_utf8char(f, p)
<1>0. n \in Nat /\ p \in Nat /\ p <= n /\ (AtEnd(f, p) <=> p = n)
  BY PlaceIs DEF AtEnd
<1>1. \A k \in p..n : k \in Nat /\ k <= n
  BY <1>0
<1>2. CASE p = n
  <2>1. c = Nothing
    BY <1>0, <1>2 DEF read_utf8char
  <2>2. \A k \in p..n : k # p + 1 /\ k # p + 2
    BY <1>0, <1>2
  <2>3. \A k \in p..n : Character(s, p, k) = {}
    BY <2>2 DEF Character, If
  <2>4. QED
    BY <2>1, <2>3 DEF Nothing
<1>3. CASE p < n /\ s[p + 1] # STRING_ESCAPE_CHAR
  <2>0. ~AtEnd(f, p) /\ Next1(f, p) = s[p + 1] /\ Next1(f, p) # STRING_ESCAPE_CHAR
    BY <1>0, <1>3 DEF Next1
  <2>1. c = Read(s[p + 1], p + 1, FALSE)
    BY <2>0 DEF read_utf8char
  <2>2. c.how = "node" /\ c.node = s[p + 1] /\ c.p = p + 1 /\ p + 1 \in (p + 1)..n
    BY <1>0, <1>3, <2>1 DEF Read
  <2>3. \A k \in p..n : Character(s, p, k) = IF k = p + 1 THEN {s[p + 1]} ELSE {}
    BY <1>3 DEF Character, If
  <2> HIDE DEF c
  <2>4. QED
    BY <2>2, <2>3 DEF c
<1>4. CASE p < n /\ s[p + 1] = STRING_ESCAPE_CHAR
  <2>0. ~AtEnd(f, p) /\ Next1(f, p) = STRING_ESCAPE_CHAR
    BY <1>0, <1>4 DEF Next1
  <2>1. c = IF SeesOneOf(f, p + 1, Escapes) THEN Read(Unescaped(Next1(f, p + 1)), p + 2, FALSE) ELSE Nothing
    BY <2>0 DEF read_utf8char
  <2>2. SeesOneOf(f, p + 1, Escapes) <=> p + 2 <= n /\ s[p + 2] \in Escapes
    <3>1. p + 1 <= n /\ (p + 1) + 1 = p + 2
      BY <1>0, <1>4
    <3>2. p + 1 = n <=> ~(p + 2 <= n)
      BY <1>0, <3>1
    <3>3. QED
      BY <3>1, <3>2 DEF SeesOneOf, Next1, AtEnd
  <2>3. \A k \in p..n : Character(s, p, k) = IF k = p + 2 /\ s[p + 2] \in Escapes THEN {Unescaped(s[p + 2])} ELSE {}
    <3>1. \A k \in p..n : k = p + 1 => s[k] = STRING_ESCAPE_CHAR
      BY <1>4
    <3>2. \A k \in p..n : If(k = p + 1 /\ s[k] # STRING_ESCAPE_CHAR, s[k]) = {}
      BY <3>1 DEF If
    <3>3. QED
      BY <1>4, <3>2 DEF Character, If
  <2> HIDE DEF c
  <2>4. CASE SeesOneOf(f, p + 1, Escapes)
    <3>1. c = Read(Unescaped(s[p + 2]), p + 2, FALSE) /\ p + 2 <= n /\ s[p + 2] \in Escapes
      <4>1. (p + 1) + 1 = p + 2
        BY <1>0
      <4>2. QED
        BY <2>1, <2>2, <2>4, <4>1 DEF Next1
    <3>2. c.how = "node" /\ c.node = Unescaped(s[p + 2]) /\ c.p = p + 2
      BY <3>1 DEF Read
    <3>3. p + 2 \in (p + 1)..n
      BY <1>0, <3>1
    <3>4. QED
      BY <2>3, <3>1, <3>2, <3>3 DEF c
  <2>5. CASE ~SeesOneOf(f, p + 1, Escapes)
    <3>1. c.how = "none"
      BY <2>1, <2>5 DEF Nothing
    <3>2. \A k \in p..n : k = p + 2 => ~(s[p + 2] \in Escapes)
      BY <1>0, <2>2, <2>5
    <3>3. QED
      BY <2>3, <3>1, <3>2 DEF c
  <2>6. QED
    BY <2>4, <2>5
<1>5. p = n \/ (p < n /\ s[p + 1] # STRING_ESCAPE_CHAR) \/ (p < n /\ s[p + 1] = STRING_ESCAPE_CHAR)
  BY <1>0
<1>6. QED
  BY <1>2, <1>3, <1>4, <1>5

-----------------------------------------------------------------------------
(* What can follow from a first character.                                 *)

\* A segment that begins with a character is of the kind that it opens.
OfItsKind(s, stands, i, j) ==
  /\ s[i + 1] = OPEN_TUPLE_CHAR =>
       Nodes(s, stands, i, j) =
         {TupleNode(xs) : xs \in Within(s, stands, i, j, OPEN_TUPLE_CHAR, CLOSE_TUPLE_CHAR)}
  /\ s[i + 1] = OPEN_APPLY_CHAR =>
       Nodes(s, stands, i, j) =
         {ApplyNode(Head(xs), Tail(xs)) :
            xs \in Within(s, stands, i, j, OPEN_APPLY_CHAR, CLOSE_APPLY_CHAR) \ {<<>>}}
  /\ s[i + 1] = STRING_QUOTE_CHAR => Nodes(s, stands, i, j) = {StrNode(t) : t \in stands[i + 1]["string"][j]}
  /\ s[i + 1] = UTFCHAR_PREFIX => Nodes(s, stands, i, j) = {CharLeaf(x) : x \in Character(s, i + 1, j)}
  /\ s[i + 1] = QUOTE_CHAR => Nodes(s, stands, i, j) = {QuoteNode(e) : e \in stands[i + 1]["node"][j]}
  /\ s[i + 1] \in Signs \cup Digits => Nodes(s, stands, i, j) = Numbers(s, i, j)
  /\ s[i + 1] \notin Signs \cup Digits \cup {OPEN_TUPLE_CHAR, OPEN_APPLY_CHAR, STRING_QUOTE_CHAR, UTFCHAR_PREFIX, QUOTE_CHAR} =>
       Nodes(s, stands, i, j) = Symbols(s, i, j)
\* A node is of one kind, which its first character tells.
LEMMA OneKind ==
  ASSUME NEW s, Len(s) \in Nat, NEW stands, NEW i \in Nat, NEW j \in (i + 1)..Len(s)
  PROVE  OfItsKind(s, stands, i, j)
<1> DEFINE c == s[i + 1]
           tuples == Within(s, stands, i, j, OPEN_TUPLE_CHAR, CLOSE_TUPLE_CHAR)
           applies == Within(s, stands, i, j, OPEN_APPLY_CHAR, CLOSE_APPLY_CHAR)
<1>0. i < j /\ j \in Nat /\ j <= Len(s) /\ i < Len(s) /\ i + 1 \in (i + 1)..j
  OBVIOUS
<1>1. Symbols(s, i, j) # {} => is_symbol_char(c) /\ c \notin Digits \cup Signs \cup {UTFCHAR_PREFIX, QUOTE_CHAR}
  BY <1>0 DEF Symbols, If
<1>2. c \notin Signs \cup Digits => Numbers(s, i, j) = {}
  <2> SUFFICES ASSUME c \notin Signs \cup Digits PROVE Numbers(s, i, j) = {}
    OBVIOUS
  <2>1. IntegerAt(s, i) = i
    BY DEF IntegerAt
  <2>2. ~WholeTo(s, i, j) /\ ~DecimalTo(s, i, j)
    BY <1>0, NoInteger
  <2>3. QED
    BY <1>0, <2>1, <2>2, NumbersHas
<1>3. /\ c # OPEN_TUPLE_CHAR => tuples = {}
      /\ c # OPEN_APPLY_CHAR => applies = {}
  BY DEF Within
<1>4. /\ \A X : c # STRING_QUOTE_CHAR => Behind(s, i, j, STRING_QUOTE_CHAR, X) = {}
      /\ \A X : c # UTFCHAR_PREFIX => Behind(s, i, j, UTFCHAR_PREFIX, X) = {}
      /\ \A X : c # QUOTE_CHAR => Behind(s, i, j, QUOTE_CHAR, X) = {}
      /\ \A X : Behind(s, i, j, c, X) = X
  BY <1>0 DEF Behind
<1> HIDE DEF tuples, applies
<1> DEFINE strings == {StrNode(t) : t \in stands[i + 1]["string"][j]}
           chars == {CharLeaf(x) : x \in Character(s, i + 1, j)}
           quotes == {QuoteNode(e) : e \in stands[i + 1]["node"][j]}
           T == {TupleNode(xs) : xs \in tuples}
           A == {ApplyNode(Head(xs), Tail(xs)) : xs \in applies \ {<<>>}}
<1>5. Nodes(s, stands, i, j) =
        Symbols(s, i, j) \cup Numbers(s, i, j)
          \cup Behind(s, i, j, STRING_QUOTE_CHAR, strings)
          \cup Behind(s, i, j, UTFCHAR_PREFIX, chars)
          \cup Behind(s, i, j, QUOTE_CHAR, quotes)
          \cup T \cup A
  BY DEF Nodes, tuples, applies
<1>6. /\ c # OPEN_TUPLE_CHAR => T = {}
      /\ c # OPEN_APPLY_CHAR => A = {}
  BY <1>3
<1> HIDE DEF strings, chars, quotes, T, A
<1>7. c = OPEN_TUPLE_CHAR => Nodes(s, stands, i, j) = T
  <2> SUFFICES ASSUME c = OPEN_TUPLE_CHAR PROVE Nodes(s, stands, i, j) = T
    OBVIOUS
  <2>1. /\ c \notin Signs \cup Digits \cup {OPEN_APPLY_CHAR, STRING_QUOTE_CHAR, UTFCHAR_PREFIX, QUOTE_CHAR}
        /\ ~is_symbol_char(c)
    BY DEF Signs, Digits, OPEN_TUPLE_CHAR, OPEN_APPLY_CHAR, STRING_QUOTE_CHAR, UTFCHAR_PREFIX, QUOTE_CHAR,
           is_symbol_char, SPECIAL_CHARS
  <2>2. QED
    BY <1>1, <1>2, <1>4, <1>5, <1>6, <2>1
<1>8. c = OPEN_APPLY_CHAR => Nodes(s, stands, i, j) = A
  <2> SUFFICES ASSUME c = OPEN_APPLY_CHAR PROVE Nodes(s, stands, i, j) = A
    OBVIOUS
  <2>1. /\ c \notin Signs \cup Digits \cup {OPEN_TUPLE_CHAR, STRING_QUOTE_CHAR, UTFCHAR_PREFIX, QUOTE_CHAR}
        /\ ~is_symbol_char(c)
    BY DEF Signs, Digits, OPEN_TUPLE_CHAR, OPEN_APPLY_CHAR, STRING_QUOTE_CHAR, UTFCHAR_PREFIX, QUOTE_CHAR,
           is_symbol_char, SPECIAL_CHARS
  <2>2. QED
    BY <1>1, <1>2, <1>4, <1>5, <1>6, <2>1
<1>9. c = STRING_QUOTE_CHAR => Nodes(s, stands, i, j) = strings
  <2> SUFFICES ASSUME c = STRING_QUOTE_CHAR PROVE Nodes(s, stands, i, j) = strings
    OBVIOUS
  <2>1. /\ c \notin Signs \cup Digits \cup {OPEN_TUPLE_CHAR, OPEN_APPLY_CHAR, UTFCHAR_PREFIX, QUOTE_CHAR}
        /\ ~is_symbol_char(c)
    BY DEF Signs, Digits, OPEN_TUPLE_CHAR, OPEN_APPLY_CHAR, STRING_QUOTE_CHAR, UTFCHAR_PREFIX, QUOTE_CHAR,
           is_symbol_char, SPECIAL_CHARS
  <2>2. QED
    BY <1>1, <1>2, <1>4, <1>5, <1>6, <2>1
<1>10. c = UTFCHAR_PREFIX => Nodes(s, stands, i, j) = chars
  <2> SUFFICES ASSUME c = UTFCHAR_PREFIX PROVE Nodes(s, stands, i, j) = chars
    OBVIOUS
  <2>1. c \notin Signs \cup Digits \cup {OPEN_TUPLE_CHAR, OPEN_APPLY_CHAR, STRING_QUOTE_CHAR, QUOTE_CHAR}
    BY DEF Signs, Digits, OPEN_TUPLE_CHAR, OPEN_APPLY_CHAR, STRING_QUOTE_CHAR, UTFCHAR_PREFIX, QUOTE_CHAR
  <2>2. QED
    BY <1>1, <1>2, <1>4, <1>5, <1>6, <2>1
<1>11. c = QUOTE_CHAR => Nodes(s, stands, i, j) = quotes
  <2> SUFFICES ASSUME c = QUOTE_CHAR PROVE Nodes(s, stands, i, j) = quotes
    OBVIOUS
  <2>1. c \notin Signs \cup Digits \cup {OPEN_TUPLE_CHAR, OPEN_APPLY_CHAR, STRING_QUOTE_CHAR, UTFCHAR_PREFIX}
    BY DEF Signs, Digits, OPEN_TUPLE_CHAR, OPEN_APPLY_CHAR, STRING_QUOTE_CHAR, UTFCHAR_PREFIX, QUOTE_CHAR
  <2>2. QED
    BY <1>1, <1>2, <1>4, <1>5, <1>6, <2>1
<1>12. c \in Signs \cup Digits => Nodes(s, stands, i, j) = Numbers(s, i, j)
  <2> SUFFICES ASSUME c \in Signs \cup Digits PROVE Nodes(s, stands, i, j) = Numbers(s, i, j)
    OBVIOUS
  <2>1. c \notin {OPEN_TUPLE_CHAR, OPEN_APPLY_CHAR, STRING_QUOTE_CHAR, UTFCHAR_PREFIX, QUOTE_CHAR}
    BY DEF Signs, Digits, OPEN_TUPLE_CHAR, OPEN_APPLY_CHAR, STRING_QUOTE_CHAR, UTFCHAR_PREFIX, QUOTE_CHAR
  <2>2. QED
    BY <1>1, <1>4, <1>5, <1>6, <2>1
<1>13. c \notin Signs \cup Digits \cup {OPEN_TUPLE_CHAR, OPEN_APPLY_CHAR, STRING_QUOTE_CHAR, UTFCHAR_PREFIX, QUOTE_CHAR} =>
         Nodes(s, stands, i, j) = Symbols(s, i, j)
  BY <1>2, <1>4, <1>5, <1>6
<1>14. QED
  BY <1>7, <1>8, <1>9, <1>10, <1>11, <1>12, <1>13 DEF OfItsKind, T, A, strings, chars, quotes, tuples, applies

\* Nothing begins with a blank or with a closing bracket, or ends where it begins.
LEMMA NoNodes ==
  ASSUME NEW s, Len(s) \in Nat, NEW stands, NEW i \in Nat, NEW j \in i..Len(s),
         i < j => s[i + 1] \in Blanks \cup {CLOSE_TUPLE_CHAR, CLOSE_APPLY_CHAR}
  PROVE  Nodes(s, stands, i, j) = {}
<1>1. CASE i = j
  <2>1. Symbols(s, i, j) = {} /\ \A open, close : Within(s, stands, i, j, open, close) = {}
    BY <1>1 DEF Symbols, Within, If
  <2>2. \A c, X : Behind(s, i, j, c, X) = {}
    BY <1>1 DEF Behind
  <2>3. Numbers(s, i, j) = {}
    <3>1. \A m \in (i + 1)..(j - 2) : FALSE
      BY <1>1
    <3>2. QED
      BY <1>1, <3>1 DEF Numbers, If
  <2>4. QED
    BY <2>1, <2>2, <2>3 DEF Nodes
<1>2. CASE i # j
  <2>1. j \in (i + 1)..Len(s) /\ i + 1 \in (i + 1)..j
    BY <1>2
  <2>0. s[i + 1] \in Blanks \cup {CLOSE_TUPLE_CHAR, CLOSE_APPLY_CHAR}
    BY <2>1
  <2>2. s[i + 1] \notin Signs \cup Digits \cup {OPEN_TUPLE_CHAR, OPEN_APPLY_CHAR, STRING_QUOTE_CHAR, UTFCHAR_PREFIX, QUOTE_CHAR}
        /\ ~is_symbol_char(s[i + 1])
    BY <2>0 DEF Signs, Digits, OPEN_TUPLE_CHAR, OPEN_APPLY_CHAR, STRING_QUOTE_CHAR, UTFCHAR_PREFIX, QUOTE_CHAR,
           Blanks, CLOSE_TUPLE_CHAR, CLOSE_APPLY_CHAR, is_symbol_char, SPECIAL_CHARS
  <2>3. Nodes(s, stands, i, j) = Symbols(s, i, j)
    <3>1. OfItsKind(s, stands, i, j)
      BY <2>1, OneKind
    <3>2. QED
      BY <2>2, <3>1 DEF OfItsKind
  <2>4. QED
    BY <2>1, <2>2, <2>3 DEF Symbols, If
<1>3. QED
  BY <1>1, <1>2

-----------------------------------------------------------------------------
(* The parser against the grammar.                                         *)

Brackets == {CLOSE_TUPLE_CHAR, CLOSE_APPLY_CHAR}
\* The segments a function reads, where they may end, and where one does of which
\* the function reads the bracket, too.
SegmentOf(what) == CASE what = "expr" -> "node" [] what = "run" -> "end" [] OTHER -> what
EndsOf(f, what, p) ==
  CASE what = "expr" -> (p + 1)..Len(f.chars)
    [] what = "string" -> p..Len(f.chars)
    [] what = "run" -> {Len(f.chars)}
    [] OTHER -> {k \in p..(Len(f.chars) - 1) : f.chars[k + 1] = what}
EndOf(what, r) == IF what \in Brackets THEN r.p - 1 ELSE r.p
\* The reader or the assertion on the buffer is at fault.
Excused(f, how) == (how = "none" /\ f.ends = "error") \/ (how = "aborted" /\ f.cuts # {})
\* What is read is what the grammar has there, and nothing if there is nothing.
Fits(f, what, p, r) ==
  \/ Excused(f, r.how)
  \/ /\ Gives(Grammar(f.chars)[p][SegmentOf(what)], EndsOf(f, what, p), r, EndOf(what, r))
     /\ what = "run" /\ r.how = "node" => f.ends # "error"
FitsFrom(f, read, p) == \A what \in Functions : \A q \in (p + 1)..Len(f.chars) : Fits(f, what, q, read[what][q])

\* These in the words of each function.
LEMMA FitsIs ==
  ASSUME NEW f, NEW p, NEW r
  PROVE  LET G == Grammar(f.chars)[p]
             n == Len(f.chars)
         IN  /\ Fits(f, "expr", p, r) <=> Excused(f, r.how) \/ Gives(G["node"], (p + 1)..n, r, r.p)
             /\ Fits(f, "string", p, r) <=> Excused(f, r.how) \/ Gives(G["string"], p..n, r, r.p)
             /\ Fits(f, "run", p, r) <=>
                  Excused(f, r.how) \/ (Gives(G["end"], {n}, r, r.p) /\ (r.how = "node" => f.ends # "error"))
             /\ \A close \in Brackets :
                  Fits(f, close, p, r) <=>
                    Excused(f, r.how) \/ Gives(G[close], {k \in p..(n - 1) : f.chars[k + 1] = close}, r, r.p - 1)
<1>1. \A close \in Brackets : close \notin {"expr", "string", "run"}
  BY DEF Brackets, CLOSE_TUPLE_CHAR, CLOSE_APPLY_CHAR
<1>2. "expr" \notin Brackets /\ "string" \notin Brackets /\ "run" \notin Brackets
  BY <1>1
<1>3. /\ SegmentOf("expr") = "node" /\ EndsOf(f, "expr", p) = (p + 1)..Len(f.chars) /\ EndOf("expr", r) = r.p
      /\ SegmentOf("string") = "string" /\ EndsOf(f, "string", p) = p..Len(f.chars) /\ EndOf("string", r) = r.p
      /\ SegmentOf("run") = "end" /\ EndsOf(f, "run", p) = {Len(f.chars)} /\ EndOf("run", r) = r.p
  BY <1>2 DEF SegmentOf, EndsOf, EndOf
<1>4. ASSUME NEW close \in Brackets
      PROVE  /\ SegmentOf(close) = close /\ EndOf(close, r) = r.p - 1
             /\ EndsOf(f, close, p) = {k \in p..(Len(f.chars) - 1) : f.chars[k + 1] = close}
  BY <1>1 DEF SegmentOf, EndsOf, EndOf
<1>5. \A close \in Brackets :
        Fits(f, close, p, r) <=>
          Excused(f, r.how) \/ Gives(Grammar(f.chars)[p][close], {k \in p..(Len(f.chars) - 1) : f.chars[k + 1] = close}, r, r.p - 1)
  BY <1>1, <1>4 DEF Fits
<1>6. /\ Fits(f, "expr", p, r) <=> Excused(f, r.how) \/ Gives(Grammar(f.chars)[p]["node"], (p + 1)..Len(f.chars), r, r.p)
      /\ Fits(f, "string", p, r) <=> Excused(f, r.how) \/ Gives(Grammar(f.chars)[p]["string"], p..Len(f.chars), r, r.p)
      /\ Fits(f, "run", p, r) <=>
           Excused(f, r.how) \/ (Gives(Grammar(f.chars)[p]["end"], {Len(f.chars)}, r, r.p) /\ (r.how = "node" => f.ends # "error"))
  BY <1>3 DEF Fits
<1>7. QED
  BY <1>5, <1>6

\* The segments of the grammar from one place on.
LEMMA SegmentsAre ==
  ASSUME NEW f, IsText(f), NEW p \in 0..Len(f.chars), NEW k \in 0..Len(f.chars)
  PROVE  LET s == f.chars
             G == Grammar(s)
         IN  /\ G[p]["node"][k] = Nodes(s, G, p, k)
             /\ G[p]["string"][k] = Strings(s, G, p, k)
             /\ \A close \in {"end"} \cup Brackets : G[p][close][k] = Forest(s, G, close, p, k)
<1>1. Len(f.chars) \in Nat
  BY PlaceIs
<1>2. \A what \in Segments : Grammar(f.chars)[p][what][k] = Standing(f.chars, Grammar(f.chars), what, p, k)
  BY <1>1, GrammarIs
<1>3. "node" \in Segments /\ "string" \in Segments /\ {"end"} \cup Brackets \subseteq Segments
  BY DEF Segments, Brackets
<1>4. \A close \in {"end"} \cup Brackets : close \notin {"node", "string"}
  BY DEF Brackets, CLOSE_TUPLE_CHAR, CLOSE_APPLY_CHAR
<1>5. QED
  BY <1>2, <1>3, <1>4 DEF Standing

\* A result that is made into another keeps its kind and its place.
LEMMA MadeIs ==
  ASSUME NEW f, NEW N, NEW q, NEW r \in Results(f, N, q), NEW x
  PROVE  /\ Made(r, x).how = r.how
         /\ r.how = "node" => Made(r, x).node = x /\ Made(r, x).p = r.p
<1>1. CASE r.how # "node"
  BY <1>1 DEF Made
<1>2. CASE r.how = "node"
  <2>1. r \in [how : {"node"}, node : N, p : q..Len(f.chars), looked : BOOLEAN]
    BY <1>2 DEF Results, Nothing, Aborted
  <2>2. Made(r, x) = [how |-> "node", node |-> x, p |-> r.p, looked |-> r.looked]
    BY <1>2, <2>1 DEF Made
  <2>3. QED
    BY <1>2, <2>2
<1>3. QED
  BY <1>1, <1>2

\* The rest of a string is what the grammar has (fc/ast_builder.cpp:199-216).
LEMMA StringFits ==
  ASSUME Nestings = Nat, NEW f, IsText(f), NEW read, NEW p \in 0..Len(f.chars),
         ReadsFrom(f, read, p), FitsFrom(f, read, p)
  PROVE  Fits(f, "string", p, read_str(f, read, p))
<1> DEFINE s == f.chars
           n == Len(s)
           G == Grammar(s)
           c == read_utf8char(f, p)
           r == read_str(f, read, p)
           rest == read["string"][c.p]
           B(j, k) == UNION {From(G, x, k, j) : x \in Character(s, p, k)}
<1>0. n \in Nat /\ p \in Nat /\ p <= n
  BY PlaceIs
<1>1. /\ c.how \in {"node", "none"}
      /\ c.how = "node" => c.p \in (p + 1)..n
      /\ \A k \in p..n : Character(s, p, k) = IF c.how = "node" /\ k = c.p THEN {c.node} ELSE {}
  BY CharactersAre
<1>2. r = IF c.how = "none" THEN Nothing
          ELSE IF c.node = STRING_QUOTE_CHAR THEN Read(<<>>, c.p, FALSE)
          ELSE InFront(c.node, rest)
  BY DEF read_str
<1>3. \A j \in p..n : G[p]["string"][j] = UNION {B(j, k) : k \in (p + 1)..j}
  <2>1. \A j \in p..n : j \in 0..n
    BY <1>0
  <2>2. \A j \in p..n : G[p]["string"][j] = Strings(s, G, p, j)
    BY <2>1, SegmentsAre
  <2>3. QED
    BY <2>2 DEF Strings
<1>4. Fits(f, "string", p, r) <=> Excused(f, r.how) \/ Gives(G[p]["string"], p..n, r, r.p)
  BY FitsIs
<1>5. \A j \in p..n : \A k \in (p + 1)..j : k \in p..n
  BY <1>0
<1> HIDE DEF c, r, rest
<1>6. CASE c.how = "none"
  <2>1. \A j \in p..n : \A k \in (p + 1)..j : B(j, k) = {}
    BY <1>1, <1>5, <1>6
  <2> HIDE DEF B
  <2>2. \A j \in p..n : G[p]["string"][j] = {}
    BY <1>3, <2>1
  <2>3. r.how = "none"
    BY <1>2, <1>6 DEF Nothing
  <2>4. QED
    BY <1>4, <2>2, <2>3 DEF Gives, r
<1>7. CASE c.how = "node"
  <2>1. \A j \in p..n : \A k \in (p + 1)..j : B(j, k) = IF k = c.p THEN From(G, c.node, c.p, j) ELSE {}
    BY <1>1, <1>5, <1>7
  <2> HIDE DEF B
  <2>2. c.p \in (p + 1)..n /\ c.p \in Nat /\ \A j \in p..n : j < c.p \/ c.p \in (p + 1)..j
    BY <1>0, <1>1, <1>7
  <2>3. \A j \in p..n : G[p]["string"][j] = IF j < c.p THEN {} ELSE From(G, c.node, c.p, j)
    <3>1. TAKE j \in p..n
    <3>2. CASE j < c.p
      <4>1. \A k \in (p + 1)..j : k # c.p
        BY <1>0, <2>2, <3>2
      <4>2. \A k \in (p + 1)..j : B(j, k) = {}
        BY <2>1, <4>1
      <4>3. QED
        BY <1>3, <3>2, <4>2
    <3>3. CASE ~(j < c.p)
      <4>1. c.p \in (p + 1)..j
        BY <2>2, <3>3
      <4>2. UNION {B(j, k) : k \in (p + 1)..j} = From(G, c.node, c.p, j)
        BY <2>1, <4>1
      <4>3. QED
        BY <1>3, <3>3, <4>2
    <3>4. QED
      BY <3>2, <3>3
  <2>4. CASE c.node = STRING_QUOTE_CHAR
    <3>1. r.how = "node" /\ r.node = <<>> /\ r.p = c.p
      BY <1>2, <1>7, <2>4 DEF Read
    <3>2. \A j \in p..n : From(G, c.node, c.p, j) = IF j = c.p THEN {<<>>} ELSE {}
      BY <2>4 DEF From, If
    <3>3. \A j \in p..n : G[p]["string"][j] = IF j = c.p THEN {<<>>} ELSE {}
      BY <1>0, <2>2, <2>3, <3>2
    <3>4. c.p \in p..n
      BY <1>0, <2>2
    <3>5. QED
      BY <1>4, <3>1, <3>3, <3>4 DEF Gives, r
  <2>5. CASE c.node # STRING_QUOTE_CHAR
    <3>1. rest \in Results(f, Seq(Characters), c.p + 1)
      BY <2>2, ReadIs DEF rest
    <3> DEFINE x == <<c.node>> \o rest.node
    <3>2. r = Made(rest, x)
      BY <1>2, <1>7, <2>5 DEF InFront
    <3> HIDE DEF x
    <3>3. r.how = rest.how /\ (rest.how = "node" => r.node = x /\ r.p = rest.p)
      BY <3>1, <3>2, MadeIs
    <3>4. Fits(f, "string", c.p, rest)
      <4>1. "string" \in Functions
        BY DEF Functions, Loops
      <4>2. QED
        BY <2>2, <4>1 DEF FitsFrom, rest
    <3>5. Excused(f, rest.how) \/ Gives(G[c.p]["string"], c.p..n, rest, rest.p)
      BY <3>4, FitsIs
    <3>6. CASE Excused(f, rest.how)
      BY <1>4, <3>3, <3>6 DEF r
    <3>7. CASE Gives(G[c.p]["string"], c.p..n, rest, rest.p)
      <4>1. \A j \in p..n : From(G, c.node, c.p, j) = {<<c.node>> \o t : t \in G[c.p]["string"][j]}
        BY <2>5 DEF From
      <4>2. \A j \in p..n : ~(j < c.p) => j \in c.p..n
        BY <1>0, <2>2
      <4>3. CASE rest.how = "node"
        <5>1. rest.p \in c.p..n /\ \A j \in c.p..n : G[c.p]["string"][j] = IF j = rest.p THEN {rest.node} ELSE {}
          BY <3>7, <4>3 DEF Gives
        <5>2. rest.p \in p..n /\ ~(rest.p < c.p)
          BY <1>0, <2>2, <5>1
        <5>3. ASSUME NEW j \in p..n PROVE G[p]["string"][j] = IF j = rest.p THEN {x} ELSE {}
          <6>1. CASE j < c.p
            BY <2>3, <5>2, <6>1
          <6>2. CASE ~(j < c.p)
            <7>1. G[c.p]["string"][j] = IF j = rest.p THEN {rest.node} ELSE {}
              BY <4>2, <5>1, <6>2
            <7>2. G[p]["string"][j] = {<<c.node>> \o t : t \in G[c.p]["string"][j]}
              BY <2>3, <4>1, <6>2
            <7>3. QED
              BY <7>1, <7>2 DEF x
          <6>3. QED
            BY <6>1, <6>2
        <5>4. QED
          BY <1>4, <3>3, <4>3, <5>2, <5>3 DEF Gives, r
      <4>4. CASE rest.how # "node"
        <5>1. \A j \in c.p..n : G[c.p]["string"][j] = {}
          BY <3>7, <4>4 DEF Gives
        <5>2. \A j \in p..n : G[p]["string"][j] = {}
          BY <2>3, <4>1, <4>2, <5>1
        <5>3. QED
          BY <1>4, <3>3, <4>4, <5>2 DEF Gives, r
      <4>5. QED
        BY <4>3, <4>4
    <3>8. QED
      BY <3>5, <3>6, <3>7
  <2>6. QED
    BY <2>4, <2>5
<1>8. QED
  BY <1>1, <1>6, <1>7

\* What an expression is read as, by its first character (fc/ast_builder.cpp:63-130).
ReadAs(f, read, p, r) ==
  LET c == f.chars[p + 1]
      tuple == read[CLOSE_TUPLE_CHAR][p + 1]
      apply == read[CLOSE_APPLY_CHAR][p + 1]
      string == read["string"][p + 1]
      char == read_utf8char(f, p + 1)
      quoted == read["expr"][p + 1]
  IN  /\ c = OPEN_TUPLE_CHAR => r = Made(tuple, TupleNode(tuple.node))
      /\ c = OPEN_APPLY_CHAR => r = IF apply.how = "node" /\ apply.node = <<>> THEN Nothing
                                    ELSE Made(apply, ApplyNode(Head(apply.node), Tail(apply.node)))
      /\ c = STRING_QUOTE_CHAR => r = Made(string, StrNode(string.node))
      /\ c = UTFCHAR_PREFIX => r = Made(char, CharLeaf(char.node))
      /\ c = QUOTE_CHAR => r = Made(quoted, QuoteNode(quoted.node))
      /\ c \in Signs \cup Digits => r = read_num(f, p)
      /\ c \notin Signs \cup Digits \cup {OPEN_TUPLE_CHAR, OPEN_APPLY_CHAR, STRING_QUOTE_CHAR, UTFCHAR_PREFIX, QUOTE_CHAR} =>
           r = read_sym(f, p)
\* read_expr chooses by that character.
LEMMA ExprIs ==
  ASSUME NEW f, NEW read, NEW p, ~AtEnd(f, p)
  PROVE  ReadAs(f, read, p, read_expr(f, read, p))
<1> DEFINE c == f.chars[p + 1]
           r == read_expr(f, read, p)
           tuple == read[CLOSE_TUPLE_CHAR][p + 1]
           apply == read[CLOSE_APPLY_CHAR][p + 1]
           string == read["string"][p + 1]
           char == read_utf8char(f, p + 1)
           quoted == read["expr"][p + 1]
           tupled == Made(tuple, TupleNode(tuple.node))
           applied == IF apply.how = "node" /\ apply.node = <<>> THEN Nothing
                      ELSE Made(apply, ApplyNode(Head(apply.node), Tail(apply.node)))
           stringed == Made(string, StrNode(string.node))
           chared == Made(char, CharLeaf(char.node))
           quote == Made(quoted, QuoteNode(quoted.node))
<1>1. r = CASE c = OPEN_TUPLE_CHAR -> tupled
            [] c = OPEN_APPLY_CHAR -> applied
            [] c = STRING_QUOTE_CHAR -> stringed
            [] c = UTFCHAR_PREFIX -> chared
            [] c \in Signs \cup Digits -> read_num(f, p)
            [] c = QUOTE_CHAR -> quote
            [] OTHER -> read_sym(f, p)
  <2>1. \A S : SeesOneOf(f, p, S) <=> c \in S
    BY DEF SeesOneOf, Next1
  <2> HIDE DEF c
  <2>2. /\ SeesOneOf(f, p, {OPEN_TUPLE_CHAR}) <=> c = OPEN_TUPLE_CHAR
        /\ SeesOneOf(f, p, {OPEN_APPLY_CHAR}) <=> c = OPEN_APPLY_CHAR
        /\ SeesOneOf(f, p, {STRING_QUOTE_CHAR}) <=> c = STRING_QUOTE_CHAR
        /\ SeesOneOf(f, p, {UTFCHAR_PREFIX}) <=> c = UTFCHAR_PREFIX
        /\ SeesOneOf(f, p, Signs \cup Digits) <=> c \in Signs \cup Digits
        /\ SeesOneOf(f, p, {QUOTE_CHAR}) <=> c = QUOTE_CHAR
    BY <2>1
  <2>3. r = CASE AtEnd(f, p) -> Nothing
              [] SeesOneOf(f, p, {OPEN_TUPLE_CHAR}) -> tupled
              [] SeesOneOf(f, p, {OPEN_APPLY_CHAR}) -> applied
              [] SeesOneOf(f, p, {STRING_QUOTE_CHAR}) -> stringed
              [] SeesOneOf(f, p, {UTFCHAR_PREFIX}) -> chared
              [] SeesOneOf(f, p, Signs \cup Digits) -> read_num(f, p)
              [] SeesOneOf(f, p, {QUOTE_CHAR}) -> quote
              [] OTHER -> read_sym(f, p)
    BY DEF read_expr
  <2> HIDE DEF r, tupled, applied, stringed, chared, quote
  <2>4. QED
    BY <2>2, <2>3
<1> HIDE DEF c, r, tupled, applied, stringed, chared, quote
<1>2. c = OPEN_TUPLE_CHAR => r = tupled
  BY <1>1 DEF OPEN_TUPLE_CHAR, OPEN_APPLY_CHAR, STRING_QUOTE_CHAR, UTFCHAR_PREFIX, QUOTE_CHAR, Signs, Digits
<1>3. c = OPEN_APPLY_CHAR => r = applied
  BY <1>1 DEF OPEN_TUPLE_CHAR, OPEN_APPLY_CHAR, STRING_QUOTE_CHAR, UTFCHAR_PREFIX, QUOTE_CHAR, Signs, Digits
<1>4. c = STRING_QUOTE_CHAR => r = stringed
  BY <1>1 DEF OPEN_TUPLE_CHAR, OPEN_APPLY_CHAR, STRING_QUOTE_CHAR, UTFCHAR_PREFIX, QUOTE_CHAR, Signs, Digits
<1>5. c = UTFCHAR_PREFIX => r = chared
  BY <1>1 DEF OPEN_TUPLE_CHAR, OPEN_APPLY_CHAR, STRING_QUOTE_CHAR, UTFCHAR_PREFIX, QUOTE_CHAR, Signs, Digits
<1>6. c = QUOTE_CHAR => r = quote
  BY <1>1 DEF OPEN_TUPLE_CHAR, OPEN_APPLY_CHAR, STRING_QUOTE_CHAR, UTFCHAR_PREFIX, QUOTE_CHAR, Signs, Digits
<1>7. c \in Signs \cup Digits => r = read_num(f, p)
  <2>1. c \in Signs \cup Digits => c \notin {OPEN_TUPLE_CHAR, OPEN_APPLY_CHAR, STRING_QUOTE_CHAR, UTFCHAR_PREFIX, QUOTE_CHAR}
    BY DEF OPEN_TUPLE_CHAR, OPEN_APPLY_CHAR, STRING_QUOTE_CHAR, UTFCHAR_PREFIX, QUOTE_CHAR, Signs, Digits
  <2>2. QED
    BY <1>1, <2>1
<1>8. c \notin Signs \cup Digits \cup {OPEN_TUPLE_CHAR, OPEN_APPLY_CHAR, STRING_QUOTE_CHAR, UTFCHAR_PREFIX, QUOTE_CHAR} =>
        r = read_sym(f, p)
  BY <1>1
<1>9. QED
  BY <1>2, <1>3, <1>4, <1>5, <1>6, <1>7, <1>8
     DEF ReadAs, c, r, tupled, applied, stringed, chared, quote

\* A result is made into a node as what it stands for is.
LEMMA MadeGives ==
  ASSUME NEW f, NEW N, NEW q, NEW r \in Results(f, N, q), NEW x, NEW row, NEW made, NEW ends,
         Gives(row, ends, r, r.p),
         \A k \in ends : row[k] = {} => made[k] = {},
         r.how = "node" => \A k \in ends : row[k] = {r.node} => made[k] = {x}
  PROVE  Gives(made, ends, Made(r, x), Made(r, x).p) /\ Made(r, x).how = r.how
<1>1. CASE r.how = "node"
  <2>1. Made(r, x).how = "node" /\ Made(r, x).node = x /\ Made(r, x).p = r.p
    BY <1>1, MadeIs
  <2>2. r.p \in ends /\ \A k \in ends : row[k] = IF k = r.p THEN {r.node} ELSE {}
    BY <1>1 DEF Gives
  <2>3. \A k \in ends : made[k] = IF k = r.p THEN {x} ELSE {}
    BY <1>1, <2>2
  <2>4. QED
    BY <1>1, <2>1, <2>2, <2>3 DEF Gives
<1>2. CASE r.how # "node"
  <2>1. Made(r, x).how = r.how
    BY MadeIs
  <2>2. QED
    BY <1>2, <2>1 DEF Gives
<1>3. QED
  BY <1>1, <1>2

\* What is read behind an opening bracket lies between the brackets.
LEMMA WithinGives ==
  ASSUME NEW f, IsText(f), NEW p \in 0..Len(f.chars), NEW open, NEW close, p < Len(f.chars),
         f.chars[p + 1] = open, NEW r, NEW stands,
         Gives(stands[p + 1][close], {k \in (p + 1)..(Len(f.chars) - 1) : f.chars[k + 1] = close}, r, r.p - 1),
         r.how = "node" => r.p \in Int
  PROVE  Gives([k \in (p + 1)..Len(f.chars) |-> Within(f.chars, stands, p, k, open, close)],
               (p + 1)..Len(f.chars), r, r.p)
<1> DEFINE s == f.chars
           n == Len(s)
           ends == {k \in (p + 1)..(n - 1) : s[k + 1] = close}
           row == stands[p + 1][close]
           W == [k \in (p + 1)..n |-> Within(s, stands, p, k, open, close)]
<1>0. n \in Nat /\ p \in Nat /\ p < n
  BY PlaceIs
<1>1. ASSUME NEW k \in (p + 1)..n
      PROVE  W[k] = IF k - 1 \in ends THEN row[k - 1] ELSE {}
  <2>1. W[k] = Within(s, stands, p, k, open, close)
    OBVIOUS
  <2>2. k - 1 \in ends <=> p + 2 <= k /\ s[k] = close
    <3>1. (k - 1) + 1 = k /\ (k - 1 \in (p + 1)..(n - 1) <=> p + 2 <= k)
      BY <1>0
    <3>2. QED
      BY <3>1
  <2>3. QED
    BY <2>1, <2>2 DEF Within
<1>2. Gives(row, ends, r, r.p - 1)
  OBVIOUS
<1>3. \A k \in ends : k \in Int /\ k + 1 \in (p + 1)..n
  BY <1>0
<1>4. \A k \in (p + 1)..n : k \in Int
  BY <1>0
<1> HIDE DEF ends, row, W
<1>5. CASE r.how = "node"
  <2>1. r.p - 1 \in ends /\ \A k \in ends : row[k] = IF k = r.p - 1 THEN {r.node} ELSE {}
    BY <1>2, <1>5 DEF Gives
  <2>2. r.p \in Int /\ (r.p - 1) + 1 = r.p
    BY <1>5
  <2>3. r.p \in (p + 1)..n
    BY <1>3, <2>1, <2>2
  <2>4. ASSUME NEW k \in (p + 1)..n PROVE W[k] = IF k = r.p THEN {r.node} ELSE {}
    <3>1. k - 1 = r.p - 1 <=> k = r.p
      BY <1>4, <2>2
    <3>2. QED
      BY <1>1, <2>1, <3>1
  <2>5. QED
    BY <1>5, <2>3, <2>4 DEF Gives, W
<1>6. CASE r.how # "node"
  <2>1. \A k \in ends : row[k] = {}
    BY <1>2, <1>6 DEF Gives
  <2>2. \A k \in (p + 1)..n : W[k] = {}
    BY <1>1, <2>1
  <2>3. QED
    BY <1>6, <2>2 DEF Gives, W
<1>7. QED
  BY <1>5, <1>6

\* An expression is what the grammar has (fc/ast_builder.cpp:63-130).
LEMMA ExprFits ==
  ASSUME Nestings = Nat, NEW f, IsText(f), NEW read, NEW p \in 0..Len(f.chars),
         ReadsFrom(f, read, p), FitsFrom(f, read, p)
  PROVE  Fits(f, "expr", p, read_expr(f, read, p))
<1> DEFINE s == f.chars
           n == Len(s)
           G == Grammar(s)
           r == read_expr(f, read, p)
           c == s[p + 1]
           q == p + 1
           ends == (p + 1)..n
           row == G[p]["node"]
<1>0. n \in Nat /\ p \in Nat /\ p <= n /\ (AtEnd(f, p) <=> p = n)
  BY PlaceIs DEF AtEnd
<1>1. Fits(f, "expr", p, r) <=> Excused(f, r.how) \/ Gives(row, ends, r, r.p)
  BY FitsIs
<1>2. CASE AtEnd(f, p)
  <2>1. r = Nothing
    BY <1>2 DEF read_expr, SeesOneOf
  <2>2. ends = {}
    BY <1>0, <1>2
  <2>3. r.how = "none"
    BY <2>1 DEF Nothing
  <2> HIDE DEF r, ends
  <2>4. Gives(row, ends, r, r.p)
    BY <2>2, <2>3 DEF Gives
  <2>5. QED
    BY <1>1, <2>4 DEF r
<1>3. CASE ~AtEnd(f, p)
  <2>1. p < n /\ q \in (p + 1)..n /\ q \in 0..n /\ (p + 1)..n \subseteq 0..n
    BY <1>0, <1>3
  <2>2. ReadAs(f, read, p, r)
    BY <1>3, ExprIs
  <2>3. \A k \in ends : row[k] = Nodes(s, G, p, k) /\ OfItsKind(s, G, p, k)
    <3>1. TAKE k \in ends
    <3>2. k \in 0..n /\ k \in (p + 1)..n
      BY <2>1
    <3>3. row[k] = Nodes(s, G, p, k)
      BY <3>2, SegmentsAre
    <3>4. OfItsKind(s, G, p, k)
      BY <1>0, <3>2, OneKind
    <3>5. QED
      BY <3>3, <3>4
  <2>4. \A what \in Functions : Fits(f, what, q, read[what][q])
    BY <2>1 DEF FitsFrom
  <2>5. /\ read["expr"][q] \in Results(f, Trees, q + 1)
        /\ read["string"][q] \in Results(f, Seq(Characters), q + 1)
        /\ \A close \in Brackets : read[close][q] \in Results(f, Seq(Trees), q + 1)
    BY <2>1, ReadIs DEF Brackets
  <2>6. "expr" \in Functions /\ "string" \in Functions /\ Brackets \subseteq Functions
    BY DEF Functions, Loops, Brackets
  <2> HIDE DEF r, c, q, ends, row
  <2>7. ASSUME NEW close \in Brackets, NEW open, c = open,
               ~Excused(f, read[close][q].how)
        PROVE  Gives([k \in ends |-> Within(s, G, p, k, open, close)], ends, read[close][q], read[close][q].p)
    <3> DEFINE x == read[close][q]
    <3>1. Gives(G[q][close], {k \in q..(n - 1) : s[k + 1] = close}, x, x.p - 1)
      <4>1. Fits(f, close, q, x)
        BY <2>4, <2>6
      <4>2. QED
        BY <2>7, <4>1, FitsIs
    <3>2. x.how = "node" => x.p \in Int
      <4>1. x \in Results(f, Seq(Trees), q + 1)
        BY <2>5
      <4>2. x.how = "node" => x.p \in (q + 1)..n
        BY <4>1, ResultIs
      <4>3. QED
        BY <1>0, <4>2 DEF q
    <3> HIDE DEF x
    <3>3. Gives([k \in ends |-> Within(s, G, p, k, open, close)], ends, x, x.p)
      BY <2>1, <2>7, <3>1, <3>2, WithinGives DEF q, c, ends
    <3>4. QED
      BY <3>3 DEF x
  <2>8. CASE c = OPEN_TUPLE_CHAR
    <3> DEFINE x == read[CLOSE_TUPLE_CHAR][q]
               e == TupleNode(x.node)
               W == [k \in ends |-> Within(s, G, p, k, OPEN_TUPLE_CHAR, CLOSE_TUPLE_CHAR)]
    <3>1. r = Made(x, e) /\ x \in Results(f, Seq(Trees), q + 1)
      BY <2>2, <2>5, <2>8 DEF ReadAs, c, q, Brackets
    <3>2. \A k \in ends : row[k] = {TupleNode(xs) : xs \in W[k]}
      BY <2>3, <2>8 DEF OfItsKind, c
    <3>3. CASE Excused(f, x.how)
      <4> HIDE DEF x, e
      <4>1. r.how = x.how
        BY <3>1, MadeIs
      <4>2. QED
        BY <1>1, <3>3, <4>1 DEF r
    <3>4. CASE ~Excused(f, x.how)
      <4>1. Gives(W, ends, x, x.p)
        BY <2>7, <2>8, <3>4 DEF Brackets
      <4>2. \A k \in ends : (W[k] = {} => row[k] = {}) /\ (W[k] = {x.node} => row[k] = {e})
        <5> HIDE DEF W, x
        <5>1. QED
          BY <3>2
      <4> HIDE DEF x, e, W
      <4>3. Gives(row, ends, r, r.p)
        BY <3>1, <4>1, <4>2, MadeGives
      <4>4. QED
        BY <1>1, <4>3 DEF r
    <3>5. QED
      BY <3>3, <3>4
  <2>9. CASE c = OPEN_APPLY_CHAR
    <3> DEFINE x == read[CLOSE_APPLY_CHAR][q]
               e == ApplyNode(Head(x.node), Tail(x.node))
               W == [k \in ends |-> Within(s, G, p, k, OPEN_APPLY_CHAR, CLOSE_APPLY_CHAR)]
    <3>1. r = (IF x.how = "node" /\ x.node = <<>> THEN Nothing ELSE Made(x, e)) /\ x \in Results(f, Seq(Trees), q + 1)
      BY <2>2, <2>5, <2>9 DEF ReadAs, c, q, Brackets
    <3>2. \A k \in ends : row[k] = {ApplyNode(Head(xs), Tail(xs)) : xs \in W[k] \ {<<>>}}
      BY <2>3, <2>9 DEF OfItsKind, c
    <3>3. CASE Excused(f, x.how)
      <4>0. x.how # "node"
        BY <3>3 DEF Excused
      <4> HIDE DEF x, e
      <4>1. r.how = x.how
        BY <3>1, <4>0, MadeIs
      <4>2. QED
        BY <1>1, <3>3, <4>1 DEF r
    <3>4. CASE ~Excused(f, x.how)
      <4>1. Gives(W, ends, x, x.p)
        BY <2>7, <2>9, <3>4 DEF Brackets
      <4>2. \A k \in ends : /\ W[k] = {} => row[k] = {}
                            /\ W[k] = {x.node} /\ x.node # <<>> => row[k] = {e}
                            /\ W[k] = {<<>>} => row[k] = {}
        <5> HIDE DEF W, x
        <5>1. QED
          BY <3>2
      <4> HIDE DEF x, e, W
      <4>3. CASE x.how = "node" /\ x.node = <<>>
        <5>1. \A k \in ends : W[k] = {} \/ W[k] = {<<>>}
          BY <4>1, <4>3 DEF Gives
        <5>2. \A k \in ends : row[k] = {}
          BY <4>2, <5>1
        <5>3. r.how = "none"
          BY <3>1, <4>3 DEF Nothing
        <5>4. Gives(row, ends, r, r.p)
          BY <5>2, <5>3 DEF Gives
        <5>5. QED
          BY <1>1, <5>4 DEF r
      <4>4. CASE ~(x.how = "node" /\ x.node = <<>>)
        <5>1. r = Made(x, e)
          BY <3>1, <4>4
        <5>4. x.how = "node" => \A k \in ends : W[k] = {x.node} => row[k] = {e}
          BY <4>2, <4>4
        <5>2. Gives(row, ends, r, r.p)
          <6>1. x \in Results(f, Seq(Trees), q + 1) /\ \A k \in ends : W[k] = {} => row[k] = {}
            BY <3>1, <4>2
          <6>2. QED
            BY <4>1, <5>1, <5>4, <6>1, MadeGives
        <5>3. QED
          BY <1>1, <5>2 DEF r
      <4>5. QED
        BY <4>3, <4>4
    <3>5. QED
      BY <3>3, <3>4
  <2>10. CASE c = STRING_QUOTE_CHAR
    <3> DEFINE x == read["string"][q]
               e == StrNode(x.node)
    <3>1. r = Made(x, e) /\ x \in Results(f, Seq(Characters), q + 1)
      BY <2>2, <2>5, <2>10 DEF ReadAs, c, q
    <3>2. \A k \in ends : row[k] = {StrNode(t) : t \in G[q]["string"][k]}
      BY <2>3, <2>10 DEF OfItsKind, c, q
    <3>3. Fits(f, "string", q, x)
      BY <2>4, <2>6
    <3>4. \A k \in ends : (G[q]["string"][k] = {} => row[k] = {}) /\ (G[q]["string"][k] = {x.node} => row[k] = {e})
      <4> HIDE DEF x
      <4>1. QED
        BY <3>2
    <3> HIDE DEF x, e
    <3>5. Excused(f, x.how) \/ Gives(G[q]["string"], ends, x, x.p)
      BY <3>3, FitsIs DEF ends, q
    <3>6. r.how = x.how
      BY <3>1, MadeIs
    <3>7. Gives(G[q]["string"], ends, x, x.p) => Gives(row, ends, r, r.p)
      BY <3>1, <3>4, MadeGives
    <3>8. QED
      BY <1>1, <3>5, <3>6, <3>7 DEF r
  <2>11. CASE c = UTFCHAR_PREFIX
    <3> DEFINE x == read_utf8char(f, q)
               e == CharLeaf(x.node)
               W == [k \in ends |-> Character(s, q, k)]
    <3>1. r = Made(x, e)
      BY <2>2, <2>11 DEF ReadAs, c, q
    <3>2. \A k \in ends : row[k] = {CharLeaf(y) : y \in W[k]}
      BY <2>3, <2>11 DEF OfItsKind, c, q
    <3>3. Gives(W, ends, x, x.p)
      <4>1. /\ x.how \in {"node", "none"} /\ (x.how = "node" => x.p \in (q + 1)..n)
            /\ \A k \in q..n : Character(s, q, k) = IF x.how = "node" /\ k = x.p THEN {x.node} ELSE {}
        BY <2>1, CharactersAre
      <4>2. x.how = "node" => x.p \in q..n
        BY <1>0, <4>1 DEF q
      <4>3. QED
        BY <4>1, <4>2 DEF Gives, ends, q
    <3>4. \A k \in ends : (W[k] = {} => row[k] = {}) /\ (W[k] = {x.node} => row[k] = {e})
      <4> HIDE DEF x, W
      <4>1. QED
        BY <3>2
    <3>5. x \in Results(f, Characters, q + 1)
      BY <2>1, CharacterType
    <3> HIDE DEF x, e, W
    <3>6. Gives(row, ends, r, r.p)
      BY <3>1, <3>3, <3>4, <3>5, MadeGives
    <3>7. QED
      BY <1>1, <3>6 DEF r
  <2>12. CASE c = QUOTE_CHAR
    <3> DEFINE x == read["expr"][q]
               e == QuoteNode(x.node)
    <3>1. r = Made(x, e) /\ x \in Results(f, Trees, q + 1)
      BY <2>2, <2>5, <2>12 DEF ReadAs, c, q
    <3>2. \A k \in ends : row[k] = {QuoteNode(y) : y \in G[q]["node"][k]}
      BY <2>3, <2>12 DEF OfItsKind, c, q
    <3>3. Fits(f, "expr", q, x)
      BY <2>4, <2>6
    <3>4. \A k \in ends : (G[q]["node"][k] = {} => row[k] = {}) /\ (G[q]["node"][k] = {x.node} => row[k] = {e})
      <4> HIDE DEF x
      <4>1. QED
        BY <3>2
    <3> HIDE DEF x, e
    <3>5. Excused(f, x.how) \/ Gives(G[q]["node"], (q + 1)..n, x, x.p)
      BY <3>3, FitsIs
    <3>6. r.how = x.how
      BY <3>1, MadeIs
    <3>7. Gives(G[q]["node"], (q + 1)..n, x, x.p) => Gives(G[q]["node"], ends, x, x.p)
      <4>1. G[q]["node"][q] = {}
        <5>1. G[q]["node"][q] = Nodes(s, G, q, q)
          BY <2>1, SegmentsAre
        <5>2. q \in Nat /\ q \in q..n
          BY <2>1
        <5>3. QED
          BY <1>0, <5>1, <5>2, NoNodes
      <4>2. \A k \in ends : k = q \/ k \in (q + 1)..n
        BY <1>0 DEF ends, q
      <4>3. (q + 1)..n \subseteq ends /\ q \notin (q + 1)..n
        BY <1>0 DEF ends, q
      <4>4. QED
        BY <4>1, <4>2, <4>3 DEF Gives
    <3>8. Gives(G[q]["node"], ends, x, x.p) => Gives(row, ends, r, r.p)
      BY <3>1, <3>4, MadeGives
    <3>9. QED
      BY <1>1, <3>5, <3>6, <3>7, <3>8 DEF r
  <2>13. CASE c \in Signs \cup Digits
    <3>1. r = read_num(f, p)
      BY <2>2, <2>13 DEF ReadAs, c
    <3>2. \A k \in ends : row[k] = Numbers(s, p, k)
      BY <2>3, <2>13 DEF OfItsKind, c
    <3>3. Gives([k \in ends |-> Numbers(s, p, k)], ends, r, r.p)
      BY <1>3, <3>1, NumbersAre DEF ends
    <3>4. Gives(row, ends, r, r.p)
      BY <3>2, <3>3 DEF Gives
    <3>5. QED
      BY <1>1, <3>4 DEF r
  <2>14. CASE c \notin Signs \cup Digits \cup {OPEN_TUPLE_CHAR, OPEN_APPLY_CHAR, STRING_QUOTE_CHAR, UTFCHAR_PREFIX, QUOTE_CHAR}
    <3>1. r = read_sym(f, p)
      BY <2>2, <2>14 DEF ReadAs, c
    <3>2. \A k \in ends : row[k] = Symbols(s, p, k)
      BY <2>3, <2>14 DEF OfItsKind, c
    <3>3. Next1(f, p) \notin Digits \cup Signs \cup {UTFCHAR_PREFIX, QUOTE_CHAR}
      BY <2>14 DEF Next1, c
    <3>4. Gives([k \in ends |-> Symbols(s, p, k)], ends, r, r.p)
      BY <1>3, <3>1, <3>3, SymbolsAre DEF ends
    <3>5. Gives(row, ends, r, r.p)
      BY <3>2, <3>4 DEF Gives
    <3>6. QED
      BY <1>1, <3>5 DEF r
  <2>15. QED
    BY <2>8, <2>9, <2>10, <2>11, <2>12, <2>13, <2>14
<1>4. QED
  BY <1>2, <1>3

\* White space ends where no more follows.
LEMMA SkipIs ==
  ASSUME NEW f, IsText(f), NEW p \in 0..Len(f.chars), NEW q, q = skip_whitespace(f, p)
  PROVE  /\ q \in p..Len(f.chars) /\ q \in 0..Len(f.chars)
         /\ \A i \in (p + 1)..q : f.chars[i] \in Blanks
         /\ q < Len(f.chars) => f.chars[q + 1] \notin Blanks
<1>1. /\ q \in p..Len(f.chars) /\ q \in 0..Len(f.chars)
      /\ \A i \in (p + 1)..q : f.chars[i] \in Blanks
      /\ ~SeesOneOf(f, q, Blanks)
  BY PastIs DEF skip_whitespace
<1>2. Len(f.chars) \in Nat
  BY PlaceIs
<1>3. QED
  BY <1>1, <1>2 DEF SeesOneOf, Next1, AtEnd

\* What begins with the node behind the white space, and where that may end.
BeginsWith(s, G, close, q, k, m) == {<<e>> \o rest : e \in Nodes(s, G, q, m), rest \in G[m][close][k]}
MayEnd(s, close, k, m) == close # "end" => m = k \/ s[m + 1] \in Blanks
Beginnings(s, G, close, q, k) ==
  UNION {BeginsWith(s, G, close, q, k, m) : m \in {x \in (q + 1)..k : MayEnd(s, close, k, x)}}

\* A forest begins behind the white space, which is skipped as a whole.
LEMMA ForestIs ==
  ASSUME NEW f, IsText(f), NEW p \in 0..Len(f.chars), NEW k \in p..Len(f.chars), NEW G, NEW close,
         NEW q, q = skip_whitespace(f, p)
  PROVE  /\ k <= q => Forest(f.chars, G, close, p, k) = {<<>>}
         /\ q < k => Forest(f.chars, G, close, p, k) = Beginnings(f.chars, G, close, q, k)
<1> DEFINE s == f.chars
           n == Len(s)
           P == {x \in (p..k) \X (p..k) :
                   /\ x[1] < x[2] /\ Over(s, p, x[1], Blanks)
                   /\ close # "end" => x[2] = k \/ s[x[2] + 1] \in Blanks}
           C(x) == {<<e>> \o rest : e \in Nodes(s, G, x[1], x[2]), rest \in G[x[2]][close][k]}
           M == {x \in (q + 1)..k : MayEnd(s, close, k, x)}
           B(m) == BeginsWith(s, G, close, q, k, m)
<1>0. n \in Nat /\ p \in Nat /\ k \in Nat /\ p <= k /\ k <= n
  BY PlaceIs
<1>1. /\ q \in p..n /\ q \in Nat /\ p <= q /\ \A i \in (p + 1)..q : s[i] \in Blanks
      /\ q < n => s[q + 1] \notin Blanks
  BY <1>0, SkipIs
<1>2. Forest(s, G, close, p, k) = If(Over(s, p, k, Blanks), <<>>) \cup UNION {C(x) : x \in P}
  BY DEF Forest
<1>3. ASSUME NEW x \in P
      PROVE  /\ x[1] \in p..k /\ x[2] \in p..k /\ x[1] < x[2] /\ Over(s, p, x[1], Blanks) /\ MayEnd(s, close, k, x[2])
             /\ x[1] \in Nat /\ x[2] \in Nat /\ x[2] <= k
             /\ x[1] < q => C(x) = {}
             /\ x[1] <= q
  <2>1. /\ x[1] \in p..k /\ x[2] \in p..k /\ x[1] < x[2] /\ Over(s, p, x[1], Blanks) /\ MayEnd(s, close, k, x[2])
        /\ x[1] \in Nat /\ x[2] \in Nat /\ x[2] <= k /\ p <= x[1]
    BY <1>0 DEF MayEnd
  <2>2. ASSUME x[1] < q PROVE C(x) = {}
    <3>1. x[1] + 1 \in (p + 1)..q
      BY <1>0, <1>1, <2>1, <2>2
    <3>2. x[2] \in x[1]..n
      BY <1>0, <2>1
    <3>3. Nodes(s, G, x[1], x[2]) = {}
      BY <1>0, <1>1, <2>1, <3>1, <3>2, NoNodes
    <3>4. QED
      BY <3>3
  <2>3. ASSUME q < x[1] PROVE FALSE
    <3>1. q + 1 \in (p + 1)..x[1] /\ q < n
      BY <1>0, <1>1, <2>1, <2>3
    <3>2. QED
      BY <1>1, <2>1, <3>1 DEF Over
  <2>4. x[1] <= q
    BY <1>1, <2>1, <2>3
  <2> HIDE DEF P, C
  <2>5. QED
    BY <2>1, <2>2, <2>4
<1>4. CASE k <= q
  <2>1. Over(s, p, k, Blanks)
    <3>1. \A i \in (p + 1)..k : i \in (p + 1)..q
      BY <1>0, <1>1, <1>4
    <3>2. QED
      BY <1>1, <3>1 DEF Over
  <2>2. \A x \in P : C(x) = {}
    <3> HIDE DEF P, C
    <3>1. QED
      BY <1>1, <1>3, <1>4
  <2>3. QED
    <3> HIDE DEF P, C
    <3>1. ~(q < k)
      BY <1>0, <1>1, <1>4
    <3>2. QED
      BY <1>2, <2>1, <2>2, <3>1 DEF If
<1>5. CASE q < k
  <2>1. ~Over(s, p, k, Blanks)
    <3>1. q + 1 \in (p + 1)..k /\ q < n
      BY <1>0, <1>1, <1>5
    <3>2. QED
      BY <1>1, <3>1 DEF Over
  <2>2. ASSUME NEW x \in P, x[1] = q PROVE C(x) = B(x[2]) /\ x[2] \in M
    <3>2. x[1] = q
      BY <2>2
    <3>3. x[2] \in (q + 1)..k /\ MayEnd(s, close, k, x[2])
      <4> HIDE DEF P, C
      <4>1. QED
        BY <1>0, <1>1, <1>3, <3>2
    <3>4. QED
      BY <3>2, <3>3 DEF BeginsWith
  <2>3. ASSUME NEW m \in M PROVE <<q, m>> \in P /\ C(<<q, m>>) = B(m)
    <3>2. m \in (q + 1)..k /\ MayEnd(s, close, k, m)
      OBVIOUS
    <3>3. q \in p..k /\ m \in p..k /\ q < m /\ Over(s, p, q, Blanks)
      BY <1>0, <1>1, <1>5, <3>2 DEF Over
    <3>4. QED
      BY <3>2, <3>3 DEF BeginsWith, MayEnd
  <2> HIDE DEF P, C, M, B
  <2>4. UNION {C(x) : x \in P} = UNION {B(m) : m \in M}
    <3>1. \A x \in P : C(x) = {} \/ \E m \in M : C(x) = B(m)
      BY <1>1, <1>3, <2>2
    <3>2. \A m \in M : \E x \in P : C(x) = B(m)
      BY <2>3
    <3>3. QED
      BY <3>1, <3>2
  <2>5. Forest(s, G, close, p, k) = UNION {B(m) : m \in M}
    BY <1>2, <2>1, <2>4 DEF If
  <2>6. QED
    BY <1>0, <1>1, <1>5, <2>5 DEF B, M, Beginnings
<1>6. QED
  BY <1>0, <1>1, <1>4, <1>5

\* Without a node there is no forest, with one it begins with it.
BegunBy(s, G, close, k, r, F) ==
  IF r.how = "node" /\ r.p <= k /\ MayEnd(s, close, k, r.p)
  THEN F = {<<r.node>> \o rest : rest \in G[r.p][close][k]}
  ELSE F = {}
\* At most one node begins a forest, the one the parser reads.
LEMMA BeginningIs ==
  ASSUME NEW s, Len(s) \in Nat, NEW G, NEW close, NEW q \in Nat, NEW k \in Nat, q < k, k <= Len(s),
         NEW row, \A m \in (q + 1)..Len(s) : row[m] = Nodes(s, G, q, m),
         NEW F, F = Beginnings(s, G, close, q, k),
         NEW r, Gives(row, (q + 1)..Len(s), r, r.p)
  PROVE  BegunBy(s, G, close, k, r, F)
<1> DEFINE M == {x \in (q + 1)..k : MayEnd(s, close, k, x)}
           B(m) == BeginsWith(s, G, close, q, k, m)
<1>1. \A m \in (q + 1)..k : m \in (q + 1)..Len(s) /\ m \in Nat /\ m <= k
  OBVIOUS
<1>0. ASSUME NEW m \in (q + 1)..k
      PROVE  \A x : x \in B(m) <=> \E e \in row[m] : \E rest \in G[m][close][k] : x = <<e>> \o rest
  <2>1. row[m] = Nodes(s, G, q, m)
    BY <1>1
  <2>2. QED
    BY <2>1 DEF BeginsWith
<1> HIDE DEF B
<1>2. ASSUME NEW m \in (q + 1)..k, row[m] = {} PROVE B(m) = {}
  BY <1>0, <1>2
<1>3. ASSUME NEW m \in (q + 1)..k, NEW e, row[m] = {e}
      PROVE  B(m) = {<<e>> \o rest : rest \in G[m][close][k]}
  <2> DEFINE R == {<<e>> \o rest : rest \in G[m][close][k]}
  <2>0. \A x : x \in B(m) <=> \E y \in row[m] : \E rest \in G[m][close][k] : x = <<y>> \o rest
    BY <1>0
  <2>1. \A x : x \in B(m) <=> \E rest \in G[m][close][k] : x = <<e>> \o rest
    BY <1>3, <2>0, Zenon
  <2>2. \A x : x \in R <=> \E rest \in G[m][close][k] : x = <<e>> \o rest
    OBVIOUS
  <2> HIDE DEF R
  <2>3. B(m) = R
    BY <2>1, <2>2
  <2>4. QED
    BY <2>3 DEF R
<1>4. F = UNION {B(m) : m \in M} /\ M \subseteq (q + 1)..k
  BY DEF B, Beginnings
<1>5. CASE r.how # "node"
  <2>1. \A m \in (q + 1)..k : row[m] = {}
    BY <1>1, <1>5 DEF Gives
  <2>2. \A m \in M : B(m) = {}
    BY <1>2, <2>1
  <2> HIDE DEF M
  <2>3. F = {}
    BY <1>4, <2>2
  <2>4. QED
    BY <1>5, <2>3 DEF BegunBy
<1>6. CASE r.how = "node"
  <2>1. r.p \in (q + 1)..Len(s) /\ \A m \in (q + 1)..Len(s) : row[m] = IF m = r.p THEN {r.node} ELSE {}
    BY <1>6 DEF Gives
  <2>2. ASSUME NEW m \in (q + 1)..k
        PROVE  B(m) = IF m = r.p THEN {<<r.node>> \o rest : rest \in G[m][close][k]} ELSE {}
    <3>1. row[m] = IF m = r.p THEN {r.node} ELSE {}
      BY <1>1, <2>1
    <3>2. CASE m = r.p
      BY <1>3, <3>1, <3>2
    <3>3. CASE m # r.p
      BY <1>2, <3>1, <3>3
    <3>4. QED
      BY <3>2, <3>3
  <2>3. r.p \in M <=> r.p <= k /\ MayEnd(s, close, k, r.p)
    BY <2>1
  <2>4. CASE r.p \in M
    <3>1. \A m \in M : m # r.p => B(m) = {}
      BY <2>2
    <3>2. B(r.p) = {<<r.node>> \o rest : rest \in G[r.p][close][k]}
      BY <2>2, <2>4
    <3> HIDE DEF M
    <3>3. F = B(r.p)
      BY <1>4, <2>4, <3>1
    <3>4. QED
      BY <1>6, <2>1, <2>3, <2>4, <3>2, <3>3 DEF BegunBy
  <2>5. CASE r.p \notin M
    <3>1. \A m \in M : B(m) = {}
      BY <2>2, <2>5
    <3> HIDE DEF M
    <3>2. F = {}
      BY <1>4, <3>1
    <3>3. QED
      BY <1>6, <2>1, <2>3, <2>5, <3>2 DEF BegunBy
  <2>6. QED
    BY <2>4, <2>5
<1>7. QED
  BY <1>5, <1>6

\* The expression behind white space.
LEMMA ItemFits ==
  ASSUME Nestings = Nat, NEW f, IsText(f), NEW read, NEW p \in 0..Len(f.chars),
         ReadsFrom(f, read, p), FitsFrom(f, read, p), NEW q, q = skip_whitespace(f, p)
  PROVE  LET item == read_expr(f, read, q)
         IN  /\ item \in Results(f, Trees, q + 1)
             /\ Excused(f, item.how) \/ Gives(Grammar(f.chars)[q]["node"], (q + 1)..Len(f.chars), item, item.p)
<1>0. Len(f.chars) \in Nat
  BY PlaceIs
<1>1. q \in p..Len(f.chars) /\ q \in 0..Len(f.chars)
  BY SkipIs
<1>2. p \in Int /\ q \in Int /\ p <= q
  BY <1>0, <1>1
<1>3. ReadsFrom(f, read, q)
  BY <1>0, <1>2, ReadsOn
<1>4. FitsFrom(f, read, q)
  <2>1. \A k \in (q + 1)..Len(f.chars) : k \in (p + 1)..Len(f.chars)
    BY <1>0, <1>2
  <2>2. QED
    BY <2>1 DEF FitsFrom
<1>5. read_expr(f, read, q) \in Results(f, Trees, q + 1)
  BY <1>1, <1>3, ExprStep
<1>6. Fits(f, "expr", q, read_expr(f, read, q))
  BY <1>1, <1>3, <1>4, ExprFits
<1>7. QED
  BY <1>5, <1>6, FitsIs

\* The forests from a place on by the expression that is read there.
LEMMA ForestFits ==
  ASSUME NEW f, IsText(f), NEW p \in 0..Len(f.chars), NEW k \in p..Len(f.chars),
         NEW q, q = skip_whitespace(f, p), NEW close \in {"end"} \cup Brackets, NEW item,
         Gives(Grammar(f.chars)[q]["node"], (q + 1)..Len(f.chars), item, item.p)
  PROVE  LET G == Grammar(f.chars)
         IN  /\ k <= q => G[p][close][k] = {<<>>}
             /\ q < k => BegunBy(f.chars, G, close, k, item, G[p][close][k])
<1> DEFINE s == f.chars
           n == Len(s)
           G == Grammar(s)
           F == G[p][close][k]
<1>0. n \in Nat /\ k \in 0..n /\ k \in Nat /\ k <= n
  BY PlaceIs
<1>1. q \in p..n /\ q \in 0..n /\ q \in Nat
  BY <1>0, SkipIs
<1>2. F = Forest(s, G, close, p, k)
  BY <1>0, SegmentsAre
<1>3. k <= q => F = {<<>>}
  BY <1>2, ForestIs
<1>4. q < k => F = Beginnings(s, G, close, q, k)
  BY <1>2, ForestIs
<1>5. \A m \in (q + 1)..n : G[q]["node"][m] = Nodes(s, G, q, m)
  <2>1. \A m \in (q + 1)..n : m \in 0..n
    BY <1>1
  <2>2. QED
    BY <1>1, <2>1, SegmentsAre
<1>6. Gives(G[q]["node"], (q + 1)..n, item, item.p)
  OBVIOUS
<1> HIDE DEF F, G, n, s
<1>7. CASE q < k
  <2>1. F = Beginnings(s, G, close, q, k)
    BY <1>4, <1>7
  <2>2. BegunBy(s, G, close, k, item, F)
    <3>1. Len(s) \in Nat /\ k <= Len(s) /\ q \in Nat /\ k \in Nat
      BY <1>0, <1>1 DEF n
    <3>2. /\ \A m \in (q + 1)..Len(s) : G[q]["node"][m] = Nodes(s, G, q, m)
          /\ Gives(G[q]["node"], (q + 1)..Len(s), item, item.p)
      BY <1>5, <1>6 DEF n
    <3>3. QED
      BY <1>7, <2>1, <3>1, <3>2, BeginningIs
  <2>3. ~(k <= q)
    BY <1>0, <1>1, <1>7
  <2>4. QED
    BY <1>7, <2>2, <2>3 DEF F, G, s
<1>8. CASE ~(q < k)
  BY <1>3, <1>8 DEF F, G, s
<1>9. QED
  BY <1>7, <1>8

\* The rest of a tuple or of an application is what the grammar has
\* (fc/ast_builder.cpp:131-156).
LEMMA BracketFits ==
  ASSUME Nestings = Nat, NEW f, IsText(f), NEW read, NEW p \in 0..Len(f.chars),
         ReadsFrom(f, read, p), FitsFrom(f, read, p), NEW close \in Brackets
  PROVE  Fits(f, close, p, read_tuple_to_vector(f, read, close, p))
<1> DEFINE s == f.chars
           n == Len(s)
           G == Grammar(s)
           r == read_tuple_to_vector(f, read, close, p)
           q == skip_whitespace(f, p)
           item == read_expr(f, read, q)
           rest == read[close][item.p]
           ends == {k \in p..(n - 1) : s[k + 1] = close}
           row == G[p][close]
           Item == Gives(G[q]["node"], (q + 1)..n, item, item.p)
<1>0. n \in Nat /\ p \in Nat /\ p <= n
  BY PlaceIs
<1>1. /\ q \in p..n /\ q \in 0..n /\ q \in Nat /\ (AtEnd(f, q) <=> q = n)
      /\ \A i \in (p + 1)..q : s[i] \in Blanks
      /\ q < n => s[q + 1] \notin Blanks
  BY <1>0, SkipIs DEF AtEnd
<1>2. item \in Results(f, Trees, q + 1) /\ (Excused(f, item.how) \/ Item)
  BY ItemFits
<1>3. r = IF AtEnd(f, q) THEN Nothing
          ELSE IF s[q + 1] = close THEN Read(<<>>, q + 1, FALSE)
          ELSE IF item.how # "node" THEN item
          ELSE IF ~Buffered(f, item) THEN Aborted
          ELSE IF ~SeesOneOf(f, item.p, {close} \cup Blanks) THEN Nothing
          ELSE InFront(item.node, rest)
  BY DEF read_tuple_to_vector, Next1
<1>4. Fits(f, close, p, r) <=> Excused(f, r.how) \/ Gives(row, ends, r, r.p - 1)
  BY FitsIs
<1>5. close \notin Blanks /\ close # "end"
  BY DEF Brackets, CLOSE_TUPLE_CHAR, CLOSE_APPLY_CHAR, Blanks
<1>6. \A k \in ends : k \in p..n /\ k \in Nat /\ k <= n - 1 /\ s[k + 1] = close
  BY <1>0
<1>7. \A k \in ends : q <= k
  <2>1. \A k \in ends : k < q => k + 1 \in (p + 1)..q
    BY <1>0, <1>1, <1>6
  <2>2. \A k \in ends : ~(k < q)
    BY <1>1, <1>5, <1>6, <2>1
  <2>3. QED
    BY <1>1, <1>6, <2>2
<1>8. \A k \in ends : Item => /\ k <= q => row[k] = {<<>>}
                              /\ q < k => BegunBy(s, G, close, k, item, row[k])
  <2>1. close \in {"end"} \cup Brackets
    OBVIOUS
  <2>2. \A k \in ends : k \in p..n
    BY <1>6
  <2>3. TAKE k \in ends
  <2>4. HAVE Item
  <2> HIDE DEF ends, q, item
  <2>5. QED
    BY <2>1, <2>2, <2>4, ForestFits DEF q
<1> HIDE DEF r, q, item, rest, ends, row
<1>9. CASE AtEnd(f, q)
  <2>1. ends = {}
    <3>1. \A k \in ends : FALSE
      BY <1>0, <1>1, <1>6, <1>7, <1>9
    <3>2. QED
      BY <3>1
  <2>2. r.how = "none"
    BY <1>3, <1>9 DEF Nothing
  <2>3. QED
    BY <1>4, <2>1, <2>2 DEF Gives, r
<1>10. CASE ~AtEnd(f, q) /\ s[q + 1] = close
  <2>1. r.how = "node" /\ r.node = <<>> /\ r.p - 1 = q
    <3>1. r = Read(<<>>, q + 1, FALSE)
      BY <1>3, <1>10
    <3>2. (q + 1) - 1 = q
      BY <1>1
    <3>3. QED
      BY <3>1, <3>2 DEF Read
  <2>2. q \in ends
    BY <1>0, <1>1, <1>10 DEF ends
  <2>3. \A k \in ends : row[k] = IF k = q THEN {<<>>} ELSE {}
    <3> SUFFICES ASSUME NEW k \in ends PROVE row[k] = IF k = q THEN {<<>>} ELSE {}
      OBVIOUS
    <3> DEFINE none == Nothing
    <3>1. none.how = "none"
      BY DEF Nothing
    <3>2. \A m \in (q + 1)..n : G[q]["node"][m] = {}
      <4>1. \A m \in (q + 1)..n : m \in 0..n /\ m \in q..n
        BY <1>1
      <4>2. s[q + 1] \in Blanks \cup {CLOSE_TUPLE_CHAR, CLOSE_APPLY_CHAR}
        BY <1>10 DEF Brackets
      <4>3. \A m \in (q + 1)..n : Nodes(s, G, q, m) = {}
        BY <1>0, <1>1, <4>1, <4>2, NoNodes
      <4>4. QED
        BY <1>1, <4>1, <4>3, SegmentsAre
    <3>3. Gives(G[q]["node"], (q + 1)..n, none, none.p)
      BY <3>1, <3>2 DEF Gives
    <3> HIDE DEF none
    <3>4. (k <= q => row[k] = {<<>>}) /\ (q < k => row[k] = {})
      <4>1. close \in {"end"} \cup Brackets /\ k \in p..n
        BY <1>6
      <4>2. /\ k <= q => row[k] = {<<>>}
            /\ q < k => BegunBy(s, G, close, k, none, row[k])
        BY <3>3, <4>1, ForestFits DEF q, row
      <4>3. QED
        BY <3>1, <4>2 DEF BegunBy
    <3>5. k = q \/ (q < k /\ k # q)
      BY <1>1, <1>6, <1>7
    <3>6. k = q => k <= q
      BY <1>1
    <3>7. QED
      BY <3>4, <3>5, <3>6
  <2>4. QED
    BY <1>4, <2>1, <2>2, <2>3 DEF Gives, r
<1>11. CASE ~AtEnd(f, q) /\ s[q + 1] # close
  <2>1. \A k \in ends : q < k /\ k \in Nat /\ k <= n - 1 /\ s[k + 1] = close
    <3>1. \A k \in ends : k # q
      BY <1>6, <1>11
    <3>2. QED
      BY <1>1, <1>6, <1>7, <3>1
  <2>2. CASE item.how # "node"
    <3>1. r = item
      BY <1>3, <1>11, <2>2
    <3>2. Item => Gives(row, ends, r, r.p - 1)
      <4>1. Item => \A k \in ends : row[k] = {}
        BY <1>8, <2>1, <2>2 DEF BegunBy
      <4>2. QED
        BY <2>2, <3>1, <4>1 DEF Gives
    <3>3. QED
      BY <1>2, <1>4, <3>1, <3>2 DEF r
  <2>3. CASE item.how = "node"
    <3>1. Item /\ item.p \in (q + 1)..n /\ item.node \in Trees
      BY <1>2, <2>3, ResultIs DEF Excused
    <3>2. item.p \in Nat /\ q < item.p /\ item.p <= n /\ item.p \in 0..n /\ item.p \in (p + 1)..n
      BY <1>0, <1>1, <3>1
    <3>3. \A k \in ends : row[k] = IF item.p <= k /\ (k = item.p \/ s[item.p + 1] \in Blanks)
                                   THEN {<<item.node>> \o t : t \in G[item.p][close][k]} ELSE {}
      <4>1. \A k : MayEnd(s, close, k, item.p) <=> (k = item.p \/ s[item.p + 1] \in Blanks)
        BY <1>5 DEF MayEnd
      <4> HIDE DEF Item
      <4>2. QED
        BY <1>8, <2>1, <2>3, <3>1, <4>1 DEF BegunBy
    <3>4. /\ SeesOneOf(f, item.p, {close} \cup Blanks) <=>
               item.p < n /\ s[item.p + 1] \in {close} \cup Blanks
          /\ AtEnd(f, item.p) <=> item.p = n
      BY <1>0, <3>2 DEF SeesOneOf, Next1, AtEnd
    <3>5. CASE ~Buffered(f, item)
      <4>1. r.how = "aborted"
        BY <1>3, <1>11, <2>3, <3>5 DEF Aborted
      <4>2. CASE item.p = n
        <5>1. \A k \in ends : ~(item.p <= k)
          BY <1>0, <2>1, <4>2
        <5>2. \A k \in ends : row[k] = {}
          BY <3>3, <5>1
        <5>3. QED
          BY <1>4, <4>1, <5>2 DEF Gives, r
      <4>3. CASE item.p # n
        <5>1. f.cuts # {}
          BY <3>4, <3>5, <4>3 DEF Buffered
        <5>2. QED
          BY <1>4, <4>1, <5>1 DEF Excused, r
      <4>4. QED
        BY <4>2, <4>3
    <3>6. CASE Buffered(f, item) /\ ~SeesOneOf(f, item.p, {close} \cup Blanks)
      <4>1. r.how = "none"
        BY <1>3, <1>11, <2>3, <3>6 DEF Nothing
      <4>2. item.p < n /\ s[item.p + 1] \notin {close} \cup Blanks
        BY <3>2, <3>4, <3>6 DEF Buffered
      <4>3. \A k \in ends : row[k] = {}
        BY <2>1, <3>3, <4>2
      <4>4. QED
        BY <1>4, <4>1, <4>3 DEF Gives, r
    <3>7. CASE Buffered(f, item) /\ SeesOneOf(f, item.p, {close} \cup Blanks)
      <4> DEFINE x == <<item.node>> \o rest.node
                 at == item.p
                 later == {k \in at..(n - 1) : s[k + 1] = close}
      <4>1. r = Made(rest, x)
        BY <1>3, <1>11, <2>3, <3>7 DEF InFront
      <4>2. rest \in Results(f, Seq(Trees), at + 1)
        BY <3>2, ReadIs DEF rest, Brackets
      <4>3. at < n /\ s[at + 1] \in {close} \cup Blanks
        BY <3>4, <3>7
      <4>4. Excused(f, rest.how) \/ Gives(G[at][close], later, rest, rest.p - 1)
        <5>1. close \in Functions
          BY DEF Functions, Loops, Brackets
        <5>2. Fits(f, close, at, rest)
          BY <3>2, <5>1 DEF FitsFrom, rest
        <5>3. QED
          BY <5>2, FitsIs
      <4>5. later \subseteq ends /\ \A k \in ends : at <= k => k \in later
        BY <1>0, <2>1, <3>2 DEF ends
      <4>6. s[at + 1] = close => at \in later /\ G[at][close][at] = {<<>>}
        <5> SUFFICES ASSUME s[at + 1] = close PROVE at \in later /\ G[at][close][at] = {<<>>}
          OBVIOUS
        <5>1. at \in later
          BY <1>0, <3>2, <4>3
        <5> DEFINE z == skip_whitespace(f, at)
        <5>2. z \in at..n /\ z \in 0..n
          BY <3>2, SkipIs
        <5>3. at <= z /\ at \in at..n
          BY <1>0, <3>2, <5>2
        <5>4. G[at][close][at] = Forest(s, G, close, at, at)
          BY <3>2, SegmentsAre
        <5> HIDE DEF z
        <5>5. Forest(s, G, close, at, at) = {<<>>}
          BY <3>2, <5>3, ForestIs DEF z
        <5>6. QED
          BY <5>1, <5>4, <5>5
      <4> HIDE DEF later, x, at
      <4>7. r.how = rest.how /\ (rest.how = "node" => r.node = x /\ r.p = rest.p)
        BY <4>1, <4>2, MadeIs
      <4>8. \A k \in ends : row[k] = IF at <= k /\ (k = at \/ s[at + 1] \in Blanks)
                                     THEN {<<item.node>> \o t : t \in G[at][close][k]} ELSE {}
        BY <3>3 DEF at
      <4>9. CASE Excused(f, rest.how)
        BY <1>4, <4>7, <4>9 DEF r
      <4>10. CASE Gives(G[at][close], later, rest, rest.p - 1) /\ rest.how # "node"
        <5>1. \A k \in later : G[at][close][k] = {}
          BY <4>10 DEF Gives
        <5>2. \A k \in ends : at <= k => G[at][close][k] = {}
          BY <4>5, <5>1
        <5>3. ASSUME NEW k \in ends PROVE row[k] = {}
          BY <4>8, <5>2
        <5>4. QED
          BY <1>4, <4>7, <4>10, <5>3 DEF Gives, r
      <4>11. CASE Gives(G[at][close], later, rest, rest.p - 1) /\ rest.how = "node"
        <5> DEFINE to == rest.p - 1
        <5>1. to \in later /\ \A k \in later : G[at][close][k] = IF k = to THEN {rest.node} ELSE {}
          BY <4>11 DEF Gives
        <5>2. to \in ends /\ at <= to
          BY <1>0, <4>5, <5>1 DEF later
        <5>3. to = at \/ s[at + 1] \in Blanks
          <6>1. CASE s[at + 1] = close
            <7>1. at \in later /\ G[at][close][at] = {<<>>}
              BY <4>6, <6>1
            <7> HIDE DEF to
            <7>2. at = to
              BY <5>1, <7>1
            <7>3. QED
              BY <7>2
          <6>2. CASE s[at + 1] # close
            BY <4>3, <6>2 DEF at
          <6>3. QED
            BY <6>1, <6>2
        <5> HIDE DEF to
        <5>4. ASSUME NEW k \in ends PROVE row[k] = IF k = to THEN {x} ELSE {}
          <6>1. CASE at <= k /\ (k = at \/ s[at + 1] \in Blanks)
            <7>1. row[k] = {<<item.node>> \o t : t \in G[at][close][k]}
              BY <4>8, <6>1
            <7>2. k \in later
              BY <4>5, <6>1
            <7>3. G[at][close][k] = IF k = to THEN {rest.node} ELSE {}
              BY <5>1, <7>2
            <7>4. CASE k = to
              BY <7>1, <7>3, <7>4 DEF x
            <7>5. CASE k # to
              BY <7>1, <7>3, <7>5
            <7>6. QED
              BY <7>4, <7>5
          <6>2. CASE ~(at <= k /\ (k = at \/ s[at + 1] \in Blanks))
            <7>1. row[k] = {}
              BY <4>8, <6>2
            <7>2. k # to
              BY <5>2, <5>3, <6>2
            <7>3. QED
              BY <7>1, <7>2
          <6>3. QED
            BY <6>1, <6>2
        <5>5. r.how = "node" /\ r.node = x /\ r.p - 1 = to
          BY <4>7, <4>11 DEF to
        <5>6. Gives(row, ends, r, r.p - 1)
          BY <5>2, <5>4, <5>5 DEF Gives
        <5>7. QED
          BY <1>4, <5>6 DEF r
      <4>12. QED
        BY <4>4, <4>9, <4>10, <4>11
    <3>8. QED
      BY <3>5, <3>6, <3>7
  <2>4. QED
    BY <2>2, <2>3
<1>12. QED
  BY <1>9, <1>10, <1>11

\* The rest of a file is what the grammar has (fc/ast_builder.cpp:42-59).
LEMMA RunFits ==
  ASSUME Nestings = Nat, NEW f, IsText(f), NEW read, NEW p \in 0..Len(f.chars),
         ReadsFrom(f, read, p), FitsFrom(f, read, p)
  PROVE  Fits(f, "run", p, run(f, read, p))
<1> DEFINE s == f.chars
           n == Len(s)
           G == Grammar(s)
           r == run(f, read, p)
           q == skip_whitespace(f, p)
           item == read_expr(f, read, q)
           rest == read["run"][item.p]
           row == G[p]["end"]
           Item == Gives(G[q]["node"], (q + 1)..n, item, item.p)
           x == <<item.node>> \o rest.node
<1>0. n \in Nat /\ p \in Nat /\ p <= n /\ n \in p..n
  BY PlaceIs
<1>1. q \in p..n /\ q \in 0..n /\ q \in Nat /\ (AtEnd(f, q) <=> q = n)
  BY <1>0, SkipIs DEF AtEnd
<1>2. item \in Results(f, Trees, q + 1) /\ (Excused(f, item.how) \/ Item)
  BY ItemFits
<1>3. r = IF AtEnd(f, q) THEN IF f.ends = "error" THEN Nothing ELSE Read(<<>>, q, TRUE)
          ELSE IF item.how # "node" THEN item
          ELSE InFront(item.node, rest)
  BY DEF run
<1>4. Fits(f, "run", p, r) <=> Excused(f, r.how) \/ (Gives(row, {n}, r, r.p) /\ (r.how = "node" => f.ends # "error"))
  BY FitsIs
<1>5. Item => /\ n <= q => row[n] = {<<>>}
              /\ q < n => BegunBy(s, G, "end", n, item, row[n])
  <2>1. "end" \in {"end"} \cup Brackets
    OBVIOUS
  <2>2. HAVE Item
  <2> HIDE DEF q, item
  <2>3. QED
    BY <1>0, <2>1, <2>2, ForestFits DEF q
<1>6. n <= q => row[n] = {<<>>}
  <2>1. row[n] = Forest(s, G, "end", p, n)
    BY <1>0, SegmentsAre
  <2>2. QED
    BY <1>0, <2>1, ForestIs
<1> HIDE DEF r, q, item, rest, row, x
<1>7. CASE AtEnd(f, q) /\ f.ends = "error"
  <2>1. r.how = "none"
    BY <1>3, <1>7 DEF Nothing
  <2>2. Excused(f, r.how)
    BY <1>7, <2>1 DEF Excused
  <2>3. Fits(f, "run", p, r)
    BY <1>4, <2>2
  <2>4. QED
    BY <2>3 DEF r
<1>8. CASE AtEnd(f, q) /\ f.ends # "error"
  <2>1. r.how = "node" /\ r.node = <<>> /\ r.p = n
    BY <1>1, <1>3, <1>8 DEF Read
  <2>2. row[n] = {<<>>}
    BY <1>0, <1>1, <1>6, <1>8
  <2>3. QED
    BY <1>4, <1>8, <2>1, <2>2 DEF Gives, r
<1>9. CASE ~AtEnd(f, q) /\ item.how # "node"
  <2>1. r = item /\ q < n
    BY <1>1, <1>3, <1>9
  <2>2. Item => row[n] = {}
    BY <1>5, <1>9, <2>1 DEF BegunBy
  <2>3. QED
    BY <1>2, <1>4, <1>9, <2>1, <2>2 DEF Gives, r
<1>10. CASE ~AtEnd(f, q) /\ item.how = "node"
  <2>1. Item /\ item.p \in (q + 1)..n
    BY <1>2, <1>10, ResultIs DEF Excused
  <2>2. item.p \in (p + 1)..n /\ item.p \in 0..n /\ item.p <= n /\ q < n
    BY <1>0, <1>1, <1>10, <2>1
  <2>3. row[n] = {<<item.node>> \o t : t \in G[item.p]["end"][n]}
    BY <1>5, <1>10, <2>1, <2>2 DEF BegunBy, MayEnd
  <2>4. r = Made(rest, x)
    BY <1>3, <1>10 DEF InFront, x
  <2>5. rest \in Results(f, Seq(Trees), item.p)
    BY <2>2, ReadIs DEF rest
  <2>6. r.how = rest.how /\ (rest.how = "node" => r.node = x /\ r.p = rest.p)
    BY <2>4, <2>5, MadeIs
  <2>7. Excused(f, rest.how) \/ (Gives(G[item.p]["end"], {n}, rest, rest.p) /\ (rest.how = "node" => f.ends # "error"))
    <3>1. "run" \in Functions
      BY DEF Functions, Loops
    <3>2. Fits(f, "run", item.p, rest)
      BY <2>2, <3>1 DEF FitsFrom, rest
    <3>3. QED
      BY <3>2, FitsIs
  <2>8. CASE Excused(f, rest.how)
    BY <1>4, <2>6, <2>8 DEF r
  <2>9. CASE Gives(G[item.p]["end"], {n}, rest, rest.p) /\ rest.how # "node"
    <3>1. G[item.p]["end"][n] = {}
      BY <2>9 DEF Gives
    <3>2. row[n] = {}
      BY <2>3, <3>1
    <3>3. QED
      BY <1>4, <2>6, <2>9, <3>2 DEF Gives, r
  <2>10. CASE Gives(G[item.p]["end"], {n}, rest, rest.p) /\ rest.how = "node" /\ f.ends # "error"
    <3>1. rest.p = n /\ G[item.p]["end"][n] = {rest.node}
      BY <2>10 DEF Gives
    <3>2. row[n] = {x}
      BY <2>3, <3>1 DEF x
    <3>3. QED
      BY <1>4, <2>6, <2>10, <3>1, <3>2 DEF Gives, r
  <2>11. QED
    BY <2>7, <2>8, <2>9, <2>10
<1>11. QED
  BY <1>7, <1>8, <1>9, <1>10

\* Each function, given that what is read further on fits.
LEMMA ReadingFits ==
  ASSUME Nestings = Nat, NEW f, IsText(f), NEW read, NEW p \in 0..Len(f.chars),
         ReadsFrom(f, read, p), FitsFrom(f, read, p), NEW what \in Functions
  PROVE  Fits(f, what, p, Reading(f, read, what, p))
<1>1. CASE what = "expr"
  BY <1>1, ExprFits DEF Reading
<1>2. CASE what = "string"
  BY <1>2, StringFits DEF Reading
<1>3. CASE what = "run"
  BY <1>3, RunFits DEF Reading
<1>4. CASE what \in Brackets
  <2>1. what # "expr" /\ what # "string" /\ what # "run"
    BY <1>4 DEF Brackets, CLOSE_TUPLE_CHAR, CLOSE_APPLY_CHAR
  <2>2. Reading(f, read, what, p) = read_tuple_to_vector(f, read, what, p)
    BY <2>1 DEF Reading
  <2>3. QED
    BY <1>4, <2>2, BracketFits
<1>5. QED
  BY <1>1, <1>2, <1>3, <1>4 DEF Functions, Loops, Brackets

\* The whole file.
LEMMA AllFits ==
  ASSUME Nestings = Nat, NEW f, IsText(f), NEW read, IsReading(f, read, 0)
  PROVE  \A p \in 0..Len(f.chars) : \A what \in Functions : Fits(f, what, p, read[what][p])
<1> DEFINE n == Len(f.chars)
           T == {p \in 0..n : \A what \in Functions : Fits(f, what, p, read[what][p])}
<1>0. n \in Nat
  BY PlaceIs
<1>1. \A what \in Functions : \A p \in 0..n : read[what][p] \in ResultsOf(f, what, p)
  <2>1. 0 \in 0..(n + 1)
    BY <1>0
  <2>2. QED
    BY <2>1, ReadingType
<1>2. ASSUME NEW p \in 0..n, \A b \in (p + 1)..n : b \in T PROVE p \in T
  <2>1. \A b \in (p + 1)..n : b \in 0..n
    BY <1>0
  <2>2. ReadsFrom(f, read, p)
    BY <1>1, <2>1 DEF ReadsFrom
  <2>3. FitsFrom(f, read, p)
    BY <1>2 DEF FitsFrom
  <2>4. \A what \in Functions : Fits(f, what, p, Reading(f, read, what, p))
    BY <2>2, <2>3, ReadingFits
  <2>5. \A what \in Functions : read[what][p] = Reading(f, read, what, p)
    BY DEF IsReading
  <2>6. QED
    BY <2>4, <2>5
<1> HIDE DEF T, n
<1>3. \A p \in 0..n : p \in T
  BY <1>0, <1>2, FromTheEnd
<1>4. QED
  BY <1>3 DEF T, n

\* What parse_filereader_into_ast does with a file.
Judges(f, r) ==
  /\ r.how = "node" => f.ends # "error" /\ Forests(f.chars) = {r.node} /\ r.node \in Seq(Trees)
  /\ r.how = "none" => f.ends = "error" \/ Forests(f.chars) = {}
  /\ r.how = "aborted" => f.cuts # {} \/ Forests(f.chars) = {}
  /\ r.how \in {"node", "none", "aborted"}

\* The parser tells whether a file is of the grammar, and what it is then; what else it
\* returns is due to the reader or to the buffer (fc/ast_builder.cpp:42-359).
LEMMA ParserIsRight ==
  ASSUME Nestings = Nat, NEW f, IsText(f)
  PROVE  Judges(f, parse_filereader_into_ast(f))
<1> DEFINE Is(g) == g = [what \in Functions |-> [p \in 0..Len(f.chars) |-> Reading(f, g, what, p)]]
           read == CHOOSE g : Is(g)
           r == read["run"][0]
           n == Len(f.chars)
<1>0. n \in Nat /\ 0 \in 0..n /\ 0 \in 0..(n + 1) /\ "run" \in Functions
  BY PlaceIs DEF Functions, Loops
<1>1. parse_filereader_into_ast(f) = read["run"][0]
  BY DEF parse_filereader_into_ast, Functions
<1>2. \E g : Is(g)
  BY ReadingExists
<1>3. Is(read)
  <2> HIDE DEF Is
  <2>1. QED
    BY <1>2
<1> HIDE DEF read
<1>4. IsReading(f, read, 0)
  <2>1. read = [what \in Functions |-> [p \in 0..Len(f.chars) |-> Reading(f, read, what, p)]]
    BY <1>3
  <2>2. \A what \in Functions : read[what] = [p \in 0..Len(f.chars) |-> Reading(f, read, what, p)]
    BY <2>1
  <2>3. \A what \in Functions : \A q \in 0..Len(f.chars) : read[what][q] = Reading(f, read, what, q)
    BY <2>2
  <2>4. QED
    BY <2>3 DEF IsReading
<1>5. r \in Results(f, Seq(Trees), 0)
  <2>1. r \in ResultsOf(f, "run", 0)
    BY <1>0, <1>4, ReadingType
  <2>2. QED
    BY <2>1 DEF ResultsOf, MadeOf, EndFrom
<1>6. Fits(f, "run", 0, r)
  BY <1>0, <1>4, AllFits
<1>7. Forests(f.chars) = Grammar(f.chars)[0]["end"][n]
  BY <1>0, GrammarIs
<1>8. Excused(f, r.how) \/ (Gives(Grammar(f.chars)[0]["end"], {n}, r, r.p) /\ (r.how = "node" => f.ends # "error"))
  BY <1>6, FitsIs
<1>9. r.how \in {"node", "none", "aborted"} /\ (r.how = "node" => r.node \in Seq(Trees))
  BY <1>5, ResultIs
<1> HIDE DEF r
<1>10. Judges(f, r)
  BY <1>7, <1>8, <1>9 DEF Judges, Gives, Excused
<1>11. QED
  BY <1>1, <1>10 DEF r

-----------------------------------------------------------------------------
(* The files, one after the other.                                         *)

\* What FlattenSeq makes of some sequences, given what it makes of those before.
FlatGiven(s, f, i) == IF i = 1 THEN s[i] ELSE f[i - 1] \o s[i]
Flat(s, n) == CHOOSE f : f = [i \in 1..n |-> FlatGiven(s, f, i)]

\* There is such a function of every number of sequences.
LEMMA FlatExists ==
  ASSUME NEW n \in Nat, NEW s
  PROVE  \E f : f = [i \in 1..n |-> FlatGiven(s, f, i)]
<1> DEFINE T == {m \in Nat : \E f : f = [i \in 1..m |-> FlatGiven(s, f, i)]}
<1>1. 0 \in T
  <2> DEFINE f == [i \in 1..0 |-> s[i]]
  <2>1. f = [i \in 1..0 |-> FlatGiven(s, f, i)]
    OBVIOUS
  <2> HIDE DEF f
  <2>2. QED
    BY <2>1
<1>2. ASSUME NEW m \in Nat, m \in T PROVE m + 1 \in T
  <2>1. PICK f : f = [i \in 1..m |-> FlatGiven(s, f, i)]
    BY <1>2
  <2> DEFINE g == [i \in 1..(m + 1) |-> IF i = m + 1 THEN FlatGiven(s, f, i) ELSE f[i]]
  <2>2. ASSUME NEW i \in 1..(m + 1) PROVE g[i] = FlatGiven(s, g, i)
    <3>1. i # 1 => i - 1 \in 1..m /\ i - 1 # m + 1 /\ i - 1 \in 1..(m + 1)
      OBVIOUS
    <3>2. i # 1 => g[i - 1] = f[i - 1]
      BY <3>1
    <3>3. FlatGiven(s, g, i) = FlatGiven(s, f, i)
      BY <3>2 DEF FlatGiven
    <3>4. CASE i = m + 1
      BY <3>3, <3>4
    <3>5. CASE i # m + 1
      <4>1. i \in 1..m /\ g[i] = f[i]
        BY <3>5
      <4>2. f[i] = FlatGiven(s, f, i)
        BY <2>1, <4>1
      <4>3. QED
        BY <3>3, <4>1, <4>2
    <3>6. QED
      BY <3>4, <3>5
  <2>3. g = [i \in 1..(m + 1) |-> FlatGiven(s, g, i)]
    BY <2>2
  <2> HIDE DEF g
  <2>4. m + 1 \in Nat /\ \E h : h = [i \in 1..(m + 1) |-> FlatGiven(s, h, i)]
    BY <2>3
  <2>5. QED
    BY <2>4
<1> HIDE DEF T
<1>3. n \in T
  BY <1>1, <1>2, AllNumbers
<1>4. QED
  BY <1>3 DEF T

\* What it makes of each number of sequences follows from those before.
LEMMA FlatIs ==
  ASSUME NEW n \in Nat, NEW s
  PROVE  \A i \in 1..n : Flat(s, n)[i] = FlatGiven(s, Flat(s, n), i)
<1> DEFINE Is(g) == g = [i \in 1..n |-> FlatGiven(s, g, i)]
           F == CHOOSE g : Is(g)
<1>1. Flat(s, n) = F
  BY DEF Flat
<1>2. \E g : Is(g)
  BY FlatExists
<1>3. Is(F)
  <2> HIDE DEF Is
  <2>1. QED
    BY <1>2
<1> HIDE DEF F
<1>4. \A i \in 1..n : F[i] = FlatGiven(s, F, i)
  BY <1>3
<1>5. QED
  BY <1>1, <1>4

\* With one sequence more.
LEMMA FlattenMore ==
  ASSUME NEW n \in Nat, NEW S, NEW s \in Seq(Seq(S)), NEW t \in Seq(Seq(S)), Len(s) = n, Len(t) = n + 1,
         \A k \in 1..n : t[k] = s[k]
  PROVE  FlattenSeq(t) = FlattenSeq(s) \o t[n + 1]
<1> DEFINE F == Flat(s, n)
           G == Flat(t, n + 1)
           T == {m \in Nat : m \in 1..n => G[m] = F[m]}
<1>1. FlattenSeq(t) = G[n + 1]
  <2>1. Len(t) # 0 /\ Len(t) = n + 1
    OBVIOUS
  <2>2. FlattenSeq(t) = Flat(t, Len(t))[Len(t)]
    BY <2>1 DEF FlattenSeq, Flat, FlatGiven
  <2>3. QED
    BY <2>1, <2>2
<1>2. G[n + 1] = FlatGiven(t, G, n + 1)
  <2>1. n + 1 \in Nat /\ n + 1 \in 1..(n + 1)
    OBVIOUS
  <2> HIDE DEF G
  <2>2. QED
    BY <2>1, FlatIs DEF G
<1>3. CASE n = 0
  <2>1. t[1] \in Seq(S)
    BY <1>3
  <2>2. s = <<>> /\ n + 1 = 1
    BY <1>3
  <2>3. FlattenSeq(s) = <<>>
    BY <2>2 DEF FlattenSeq
  <2>4. FlattenSeq(t) = t[1]
    BY <1>1, <1>2, <2>2 DEF FlatGiven
  <2>5. <<>> \o t[1] = t[1]
    BY <2>1
  <2>6. QED
    BY <2>2, <2>3, <2>4, <2>5
<1>4. CASE n # 0
  <2>1. FlattenSeq(s) = F[n]
    <3>1. Len(s) # 0 /\ Len(s) = n
      BY <1>4
    <3>2. FlattenSeq(s) = Flat(s, Len(s))[Len(s)]
      BY <3>1 DEF FlattenSeq, Flat, FlatGiven
    <3>3. QED
      BY <3>1, <3>2
  <2>2. \A i \in 1..n : F[i] = FlatGiven(s, F, i)
    BY FlatIs
  <2>3. \A i \in 1..n : G[i] = FlatGiven(t, G, i)
    <3>1. n + 1 \in Nat /\ \A i \in 1..n : i \in 1..(n + 1)
      OBVIOUS
    <3>2. \A i \in 1..(n + 1) : G[i] = FlatGiven(t, G, i)
      BY <3>1, FlatIs
    <3> HIDE DEF G
    <3>3. QED
      BY <3>1, <3>2
  <2> HIDE DEF F, G
  <2>4. 0 \in T
    OBVIOUS
  <2>5. ASSUME NEW m \in Nat, m \in T PROVE m + 1 \in T
    <3> SUFFICES ASSUME m + 1 \in 1..n PROVE G[m + 1] = F[m + 1]
      OBVIOUS
    <3>1. m + 1 # 1 => m \in 1..n /\ (m + 1) - 1 = m
      OBVIOUS
    <3>2. m + 1 # 1 => G[(m + 1) - 1] = F[(m + 1) - 1]
      BY <2>5, <3>1
    <3>3. t[m + 1] = s[m + 1]
      OBVIOUS
    <3>4. FlatGiven(t, G, m + 1) = FlatGiven(s, F, m + 1)
      BY <3>2, <3>3 DEF FlatGiven
    <3>5. QED
      BY <2>2, <2>3, <3>4
  <2> HIDE DEF T
  <2>6. n \in T
    BY <2>4, <2>5, AllNumbers
  <2>7. G[n] = F[n]
    BY <1>4, <2>6 DEF T
  <2>8. n + 1 # 1 /\ (n + 1) - 1 = n
    BY <1>4
  <2>9. FlatGiven(t, G, n + 1) = G[n] \o t[n + 1]
    BY <2>8 DEF FlatGiven
  <2>10. QED
    BY <1>1, <1>2, <2>1, <2>7, <2>9
<1>5. QED
  BY <1>3, <1>4

\* What a file is in the grammar, and what the first files are.
ForestOf(k) == CHOOSE t \in Forests(Files[k].chars) : TRUE
IsOne(k) == IsWhole(Files[k]) /\ Cardinality(Forests(Files[k].chars)) = 1
Parsed(n) ==
  /\ \A k \in 1..n : IsOne(k) /\ ForestOf(k) \in Seq(Trees)
  /\ top_level_exprs = FlattenSeq([k \in 1..n |-> ForestOf(k)])
Fails == \E k \in DOMAIN Files : ~IsWhole(Files[k])
\* What is parsed so far, whatever the length of the files.
GInv ==
  /\ ok \in BOOLEAN
  /\ pc = "start" => next = 0 /\ ok = TRUE /\ top_level_exprs = <<>>
  /\ pc \in {"start", "parse"} => result = "none"
  /\ pc = "parse" => /\ next <= Len(cl.files)
                     /\ ok = TRUE => Parsed(next)
                     /\ ok = FALSE => Fails
  /\ pc = "eval" => ok = TRUE /\ Parsed(Len(cl.files)) /\ result = "none"
  /\ pc = "exit" => /\ ok = FALSE => Fails
                    /\ result = "aborted" => \E k \in DOMAIN Files : Files[k].cuts # {} \/ ~IsWhole(Files[k])

\* It is what the property says.
LEMMA GrammarHolds == ASSUME IInv, GInv PROVE ParsesTheGrammar
<1>1. DOMAIN Files = 1..Len(cl.files)
  BY FilesAre DEF IInv, Typed, Files
<1>2. ASSUME pc = "eval"
      PROVE  /\ \A k \in DOMAIN Files : IsWhole(Files[k]) /\ Cardinality(Forests(Files[k].chars)) = 1
             /\ top_level_exprs = FlattenSeq([k \in DOMAIN Files |-> CHOOSE t \in Forests(Files[k].chars) : TRUE])
  <2>1. Parsed(Len(cl.files))
    BY <1>2 DEF GInv
  <2>2. QED
    BY <1>1, <2>1 DEF Parsed, IsOne, ForestOf
<1>3. ASSUME pc = "exit", ~ok PROVE \E k \in DOMAIN Files : ~IsWhole(Files[k])
  BY <1>3 DEF GInv, Fails
<1>4. ASSUME result = "aborted" PROVE \E k \in DOMAIN Files : Files[k].cuts # {} \/ ~IsWhole(Files[k])
  BY <1>4 DEF GInv, IInv, Typed
<1>5. QED
  BY <1>2, <1>3, <1>4 DEF ParsesTheGrammar

\* The files are those of the command line as long as the input is.
LEMMA SameFiles == ASSUME input' = input PROVE cl' = cl /\ Files' = Files
<1>1. cl' = cl
  BY DEF cl
<1>2. QED
  BY <1>1 DEF Files

\* What is parsed stays so as long as the expressions do.
LEMMA SameParsed ==
  ASSUME input' = input, top_level_exprs' = top_level_exprs
  PROVE  /\ \A n : Parsed(n) => Parsed(n)'
         /\ Fails' = Fails
<1>1. Files' = Files
  BY SameFiles
<1>2. QED
  BY <1>1 DEF Parsed, IsOne, ForestOf, Fails

\* The end of a run.
LEMMA ExitIsGrammatical ==
  ASSUME GInv, NEW how, Exit(how), ok = FALSE => Fails,
         how = "aborted" => \E k \in DOMAIN Files : Files[k].cuts # {} \/ ~IsWhole(Files[k])
  PROVE  GInv'
<1>1. pc' = "exit" /\ result' = how /\ input' = input /\ ok' = ok /\ top_level_exprs' = top_level_exprs
  BY DEF Exit
<1>2. Files' = Files /\ Fails' = Fails
  BY <1>1, SameFiles, SameParsed
<1>3. QED
  BY <1>1, <1>2 DEF GInv

\* The start and the step before the files are parsed (fc/main.cpp:46-51, 91-109).
LEMMA StartIsGrammatical == (Init => GInv) /\ (IInv /\ GInv /\ c2main => GInv')
<1>1. Init => GInv
  BY DEF Init, GInv
<1>2. ASSUME IInv, GInv, c2main PROVE GInv'
  <2>1. pc = "start" /\ next = 0 /\ ok = TRUE /\ top_level_exprs = <<>> /\ result = "none" /\ input \in Inputs
    BY <1>2 DEF c2main, GInv, IInv, Typed
  <2>2. CASE \E how \in {"failure", "success"} : Exit(how)
    BY <1>2, <2>1, <2>2, ExitIsGrammatical
  <2>3. CASE pc' = "parse" /\ UNCHANGED <<input, next, ok, top_level_exprs, stack, symbols, result>>
    <3>1. /\ pc' = "parse" /\ input' = input /\ next' = next /\ ok' = ok
          /\ top_level_exprs' = top_level_exprs /\ result' = result
      BY <2>3
    <3>2. cl' = cl
      BY <3>1, SameFiles
    <3>3. Parsed(0)
      <4>1. [k \in 1..0 |-> ForestOf(k)] = <<>>
        OBVIOUS
      <4>2. FlattenSeq(<<>>) = <<>>
        BY DEF FlattenSeq
      <4>3. QED
        BY <2>1, <4>1, <4>2 DEF Parsed
    <3>4. Parsed(0)'
      BY <3>1, <3>3, SameParsed
    <3>5. Parsed(next)'
      BY <2>1, <3>1, <3>4
    <3>6. Len(cl.files) \in Nat
      BY <2>1, FilesAre
    <3>7. QED
      BY <2>1, <3>1, <3>2, <3>5, <3>6 DEF GInv
  <2>4. QED
    BY <1>2, <2>2, <2>3 DEF c2main
<1>3. QED
  BY <1>1, <1>2

\* The steps of the shell parse nothing.
LEMMA ShellParsesNothing ==
  ASSUME GInv, StartExpr \/ Visit \/ ReturnTuple \/ ReturnTop \/ ReturnApply
  PROVE  GInv'
<1>1. pc = "eval" /\ ok = TRUE /\ Parsed(Len(cl.files)) /\ result = "none"
  BY DEF GInv, StartExpr, Visit, ReturnTuple, ReturnTop, ReturnApply
<1>2. \/ \E how \in {"success", "failure", "undefined"} : Exit(how)
      \/ UNCHANGED <<input, pc, ok, top_level_exprs, result>>
  <2>1. \A v, fs : Value(v, fs) => UNCHANGED <<input, pc, ok, top_level_exprs, result>>
    BY DEF Value
  <2>2. CASE StartExpr
    BY <2>2 DEF StartExpr
  <2>3. CASE Visit
    <3> DEFINE e == Parts(frame.node)[Len(frame.evald) + 1]
    <3>1. CASE e.tag \in {"Str", "Num", "Char"}
      BY <2>1, <2>3, <3>1 DEF Visit
    <3>2. CASE e.tag = "Quote"
      BY <2>1, <2>3, <3>2 DEF Visit
    <3>3. CASE e.tag = "Sym"
      <4>1. IF resolveSymbol(e.name) = Unresolved THEN Exit("failure")
            ELSE Value(resolveSymbol(e.name), stack) /\ UNCHANGED symbols
        BY <2>3, <3>3 DEF Visit
      <4>2. QED
        BY <2>1, <4>1
    <3>4. CASE e.tag \notin {"Str", "Num", "Char", "Quote", "Sym"}
      BY <2>3, <3>4 DEF Visit
    <3>5. QED
      BY <3>1, <3>2, <3>3, <3>4
  <2>4. CASE ReturnTuple
    BY <2>1, <2>4 DEF ReturnTuple
  <2>5. CASE ReturnTop
    BY <2>5 DEF ReturnTop
  <2>6. CASE ReturnApply
    <3>1. \A as : eval_def(as) => \/ \E how \in {"success", "failure", "undefined"} : Exit(how)
                                  \/ UNCHANGED <<input, pc, ok, top_level_exprs, result>>
      BY <2>1 DEF eval_def
    <3>2. QED
      BY <2>6, <3>1 DEF ReturnApply
  <2>7. QED
    BY <2>2, <2>3, <2>4, <2>5, <2>6
<1>3. CASE \E how \in {"success", "failure", "undefined"} : Exit(how)
  BY <1>1, <1>3, ExitIsGrammatical
<1>4. CASE UNCHANGED <<input, pc, ok, top_level_exprs, result>>
  <2>1. input' = input /\ pc' = pc /\ ok' = ok /\ top_level_exprs' = top_level_exprs /\ result' = result
    BY <1>4
  <2>2. cl' = cl
    BY <2>1, SameFiles
  <2>3. Parsed(Len(cl.files))'
    BY <1>1, <2>1, <2>2, SameParsed
  <2>4. QED
    BY <1>1, <2>1, <2>2, <2>3 DEF GInv
<1>5. QED
  BY <1>2, <1>3, <1>4

\* The end of the parsing (fc/main.cpp:65-80).
LEMMA AllParsedIsGrammatical == ASSUME GInv, AllParsed PROVE GInv'
<1>1. pc = "parse" /\ next = Len(cl.files) /\ result = "none" /\ ok \in BOOLEAN
  BY DEF AllParsed, GInv
<1>2. CASE ok = FALSE
  <2>1. Exit("failure") /\ Fails
    BY <1>1, <1>2 DEF AllParsed, GInv
  <2>2. QED
    BY <2>1, ExitIsGrammatical
<1>3. CASE ok = TRUE
  <2>1. /\ pc' = "eval" /\ input' = input /\ ok' = ok /\ top_level_exprs' = top_level_exprs /\ result' = result
    BY <1>3 DEF AllParsed
  <2>2. Parsed(Len(cl.files))
    BY <1>1, <1>3 DEF GInv
  <2>3. cl' = cl
    BY <2>1, SameFiles
  <2>4. Parsed(Len(cl.files))'
    BY <2>1, <2>2, <2>3, SameParsed
  <2>5. QED
    BY <1>1, <1>3, <2>1, <2>3, <2>4 DEF GInv
<1>4. QED
  BY <1>1, <1>2, <1>3

\* The forest of one file more is put behind.
LEMMA ParsedMore ==
  ASSUME IInv, GInv, pc = "parse", ok = TRUE, next < Len(cl.files),
         NEW node \in Seq(Trees), IsWhole(Files[next + 1]), Forests(Files[next + 1].chars) = {node},
         input' = input, next' = next + 1, top_level_exprs' = top_level_exprs \o node
  PROVE  Parsed(next)'
<1> DEFINE n == next
           s == [k \in 1..n |-> ForestOf(k)]
           t == [k \in 1..(n + 1) |-> ForestOf(k)]
<1>1. n \in Nat /\ Parsed(n)
  BY DEF IInv, Typed, GInv
<1>2. ForestOf(n + 1) = node
  BY DEF ForestOf
<1>3. IsOne(n + 1)
  BY FS_Singleton DEF IsOne
<1>4. \A k \in 1..(n + 1) : IsOne(k) /\ ForestOf(k) \in Seq(Trees)
  <2>1. \A k \in 1..n : IsOne(k) /\ ForestOf(k) \in Seq(Trees)
    BY <1>1 DEF Parsed
  <2>2. \A k \in 1..(n + 1) : k \in 1..n \/ k = n + 1
    BY <1>1
  <2>3. QED
    BY <1>2, <1>3, <2>1, <2>2
<1>5. FlattenSeq(t) = FlattenSeq(s) \o node
  <2> HIDE DEF n
  <2>1. /\ s \in [1..n -> Seq(Trees)] /\ t \in [1..(n + 1) -> Seq(Trees)]
        /\ \A k \in 1..n : t[k] = s[k]
        /\ t[n + 1] = ForestOf(n + 1)
    BY <1>1, <1>4
  <2> HIDE DEF s, t
  <2>2. n + 1 \in Nat
    BY <1>1
  <2>3. s \in Seq(Seq(Trees)) /\ Len(s) = n
    BY <1>1, <2>1, FunctionIsSeq
  <2>4. t \in Seq(Seq(Trees)) /\ Len(t) = n + 1
    BY <2>1, <2>2, FunctionIsSeq
  <2>5. FlattenSeq(t) = FlattenSeq(s) \o t[n + 1]
    BY <1>1, <2>1, <2>3, <2>4, FlattenMore
  <2>6. QED
    BY <1>2, <2>1, <2>5
<1>6. top_level_exprs = FlattenSeq(s)
  BY <1>1 DEF Parsed
<1>7. top_level_exprs' = FlattenSeq(t)
  BY <1>5, <1>6
<1>8. Files' = Files
  BY SameFiles
<1>9. \A k : IsOne(k)' = IsOne(k) /\ ForestOf(k)' = ForestOf(k)
  BY <1>8 DEF IsOne, ForestOf
<1> HIDE DEF s
<1>10. top_level_exprs' = FlattenSeq([k \in 1..(n + 1) |-> ForestOf(k)'])
  BY <1>7, <1>9
<1>11. next' = n + 1
  OBVIOUS
<1>12. QED
  BY <1>4, <1>9, <1>10, <1>11 DEF Parsed

\* One file is parsed: it is of the grammar or the run fails (fc/main.cpp:34-64).
LEMMA ParseFileIsGrammatical == ASSUME Nestings = Nat, IInv, GInv, ParseFile PROVE GInv'
<1> DEFINE file == input.files[cl.files[next + 1]]
           m_exprs == IF file = Missing THEN Nothing ELSE parse_filereader_into_ast(file)
<1>1. pc = "parse" /\ next < Len(cl.files) /\ next \in Nat /\ input \in Inputs /\ result = "none" /\ ok \in BOOLEAN
  BY DEF ParseFile, IInv, Typed, GInv
<1>2. /\ next + 1 \in DOMAIN Files /\ Files[next + 1] = file /\ next + 1 <= Len(cl.files)
      /\ IsText(file) /\ IsFile(file) /\ Len(cl.files) \in Nat
  <2>1. next + 1 \in 1..Len(cl.files) /\ Len(cl.files) \in Nat /\ DOMAIN cl.files = 1..Len(cl.files)
    BY <1>1, FilesAre
  <2>2. QED
    BY <1>1, <2>1, FilesAre DEF Files
<1>3. /\ m_exprs.how = "node" => IsWhole(file) /\ Forests(file.chars) = {m_exprs.node} /\ m_exprs.node \in Seq(Trees)
      /\ m_exprs.how = "none" => ~IsWhole(file)
      /\ m_exprs.how = "aborted" => file.cuts # {} \/ ~IsWhole(file)
      /\ m_exprs.how \in {"node", "none", "aborted"}
  <2>1. CASE file = Missing
    <3>1. m_exprs.how = "none"
      BY <2>1 DEF Nothing
    <3>2. file.ends = "missing"
      BY <2>1 DEF Missing
    <3>3. QED
      BY <3>1, <3>2 DEF IsWhole
  <2>2. CASE file # Missing
    <3>1. file.ends \in {"eof", "error"}
      BY <1>2, <2>2 DEF IsFile
    <3>2. Judges(file, m_exprs)
      BY <1>2, <2>2, ParserIsRight
    <3> HIDE DEF m_exprs, file
    <3>3. QED
      BY <3>1, <3>2 DEF Judges, IsWhole
  <2>3. QED
    BY <2>1, <2>2
<1>4. IF m_exprs.how = "aborted" THEN Exit("aborted")
      ELSE /\ next' = next + 1
           /\ ok' = (ok /\ m_exprs.how = "node")
           /\ top_level_exprs' = IF m_exprs.how = "node" THEN top_level_exprs \o m_exprs.node
                                 ELSE top_level_exprs
           /\ UNCHANGED <<input, pc, stack, symbols, result>>
  BY DEF ParseFile
<1> HIDE DEF m_exprs, file
<1>5. CASE m_exprs.how = "aborted"
  <2>1. ok = FALSE => Fails
    BY <1>1 DEF GInv
  <2>2. \E k \in DOMAIN Files : Files[k].cuts # {} \/ ~IsWhole(Files[k])
    BY <1>2, <1>3, <1>5
  <2>3. Exit("aborted")
    BY <1>4, <1>5
  <2>4. QED
    BY <2>1, <2>2, <2>3, ExitIsGrammatical
<1>6. CASE m_exprs.how # "aborted"
  <2>1. /\ next' = next + 1 /\ input' = input /\ pc' = pc /\ result' = result
        /\ ok' = (ok /\ m_exprs.how = "node")
        /\ top_level_exprs' = IF m_exprs.how = "node" THEN top_level_exprs \o m_exprs.node
                              ELSE top_level_exprs
    BY <1>4, <1>6
  <2>2. cl' = cl /\ Fails' = (\E k \in DOMAIN Files : ~IsWhole(Files[k]))
    BY <2>1, SameFiles DEF Fails
  <2>3. ok' \in BOOLEAN /\ (ok' = TRUE => ok = TRUE /\ m_exprs.how = "node") /\ (ok' = FALSE => ok = FALSE \/ m_exprs.how = "none")
    BY <1>1, <1>3, <1>6, <2>1
  <2>4. ASSUME ok' = TRUE PROVE Parsed(next)'
    <3>1. ok = TRUE /\ m_exprs.how = "node"
      BY <2>3, <2>4
    <3>2. IsWhole(Files[next + 1]) /\ Forests(Files[next + 1].chars) = {m_exprs.node} /\ m_exprs.node \in Seq(Trees)
      BY <1>2, <1>3, <3>1
    <3>3. QED
      BY <1>1, <2>1, <3>1, <3>2, ParsedMore
  <2>5. ASSUME ok' = FALSE PROVE Fails'
    <3>1. CASE ok = FALSE
      BY <1>1, <2>2, <3>1 DEF GInv, Fails
    <3>2. CASE m_exprs.how = "none"
      BY <1>2, <1>3, <2>2, <3>2
    <3>3. QED
      BY <2>3, <2>5, <3>1, <3>2
  <2>6. next' <= Len(cl.files)'
    BY <1>1, <1>2, <2>1, <2>2
  <2>7. QED
    BY <1>1, <2>1, <2>3, <2>4, <2>5, <2>6 DEF GInv
<1>7. QED
  BY <1>5, <1>6

\* Every step keeps what is parsed.
LEMMA StepsAreGrammatical == ASSUME Nestings = Nat, IInv, GInv, [Next]_vars PROVE GInv'
<1>1. CASE c2main
  BY <1>1, StartIsGrammatical
<1>2. CASE ParseFile
  BY <1>2, ParseFileIsGrammatical
<1>3. CASE AllParsed
  BY <1>3, AllParsedIsGrammatical
<1>4. CASE StartExpr \/ Visit \/ ReturnTuple \/ ReturnTop \/ ReturnApply
  BY <1>4, ShellParsesNothing
<1>5. CASE Terminated \/ UNCHANGED vars
  <2>1. /\ input' = input /\ pc' = pc /\ next' = next /\ ok' = ok
        /\ top_level_exprs' = top_level_exprs /\ result' = result
    BY <1>5 DEF Terminated, vars
  <2>2. cl' = cl /\ Files' = Files /\ Fails' = Fails
    BY <2>1, SameFiles, SameParsed
  <2>3. (Parsed(next) => Parsed(next)') /\ (Parsed(Len(cl.files)) => Parsed(Len(cl.files))')
    BY <2>1, <2>2, SameParsed
  <2>4. QED
    BY <2>1, <2>2, <2>3 DEF GInv
<1>6. QED
  BY <1>1, <1>2, <1>3, <1>4, <1>5 DEF Next

\* Each file is parsed to the one forest of the grammar, in the order of the command
\* line, for files of every length: a run that fails has a file that is missing,
\* unreadable or not of the grammar, and one that aborts has such a file or a buffer
\* that ends where peek_wora asserts more (fc/ast_builder.cpp:42-359, fc/main.cpp:35-67).
THEOREM GrammarIsParsed == ASSUME Nestings = Nat PROVE Spec => []ParsesTheGrammar
<1>1. Init => IInv /\ GInv
  BY InitIsRight, StartIsGrammatical
<1>2. IInv /\ GInv /\ [Next]_vars => IInv' /\ GInv'
  BY StepsAreRight, StepsAreGrammatical
<1>3. IInv /\ GInv => ParsesTheGrammar
  BY GrammarHolds
<1>4. QED
  BY <1>1, <1>2, <1>3, PTL DEF Spec
================================================================================
