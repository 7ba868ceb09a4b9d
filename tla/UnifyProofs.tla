------------------------------ MODULE UnifyProofs ------------------------------
(***************************************************************************)
(* What holds of every call of UnifyExpectedTypeToArgType (unify.cpp).     *)
(* The terms may be nested as deeply as they like: Nestings is Nat.        *)
(*                                                                         *)
(* The recursive functions of the specification are functions by           *)
(* TreeRecursion and NumberRecursion; what holds of all trees follows by   *)
(* TreeInduction, what holds of all evaluations by EvaluateInduction.      *)
(***************************************************************************)
EXTENDS Unify, FiniteSetTheorems, SequenceTheorems, WellFoundedInduction, TLAPS

-----------------------------------------------------------------------------
(* Trees: what each kind is made of.                                       *)

\* The tags of trees; those of the first kind refer to no other term.
ScalarTags == {"SimpleTypeTerm", "StringLiteral", "NumericLiteral", "Variable", "CppTerm", "NamedType",
               "TypeOfAbstraction"}
TreeTags == ScalarTags \cup {"Application", "UnitLikeValue", "DeferredValue", "LetIns", "Abstraction",
               "FunctionType", "ProductType", "ProductValue"}
BindersOver(S) == Seq([variable : S, value : S])
TypesOver(S) == Seq([type : S, comptime : SUBSET S])

\* Every tree has the tag of a term (term.h).
LEMMA TreeTag == ASSUME NEW S, NEW t \in TreesOver(S) PROVE t.tag \in TreeTags
BY DEF TreesOver, TermOver, TreeTags, ScalarTags, Literals, Unmovable, Products

\* Trees that do not refer to other terms have no level.
LEMMA IfScalar ==
  ASSUME NEW S, NEW t \in TreesOver(S), t.tag \in ScalarTags
  PROVE  /\ \A R : t \in TreesOver(R)
         /\ t.tag = "Variable" => t \in Variables /\ t = Variable(t.instance)
         /\ t.tag = "NumericLiteral" => t.literal \in Number /\ t = NumericLiteral(t.literal)
BY DEF TreesOver, TermOver, ScalarTags, Literals, Unmovable, Variables, Variable, NumericLiteral

\* The fields of an application.
LEMMA IfApplication ==
  ASSUME NEW S, NEW t \in TreesOver(S), t.tag = "Application"
  PROVE  t.function \in S /\ t.arguments \in Seq(S) /\ t = Application(t.function, t.arguments)
BY DEF TreesOver, TermOver, Application, Literals, Unmovable

\* The fields of a unit-like value.
LEMMA IfUnitLikeValue ==
  ASSUME NEW S, NEW t \in TreesOver(S), t.tag = "UnitLikeValue"
  PROVE  t.type \in S /\ t = UnitLikeValue(t.type)
BY DEF TreesOver, TermOver, UnitLikeValue, Literals, Unmovable

\* The fields of a deferred value.
LEMMA IfDeferredValue ==
  ASSUME NEW S, NEW t \in TreesOver(S), t.tag = "DeferredValue"
  PROVE  t.type \in S /\ t.availability \in {"Runtime", "Comptime"} /\ t = DeferredValue(t.type, t.availability)
BY DEF TreesOver, TermOver, DeferredValue, Literals, Unmovable

\* The fields of let-ins.
LEMMA IfLetIns ==
  ASSUME NEW S, NEW t \in TreesOver(S), t.tag = "LetIns"
  PROVE  t.bound \in BindersOver(S) /\ t.body \in S /\ t = LetIns(t.bound, t.body)
BY DEF TreesOver, TermOver, LetIns, Literals, Unmovable, BindersOver

\* The fields of an abstraction.
LEMMA IfAbstraction ==
  ASSUME NEW S, NEW t \in TreesOver(S), t.tag = "Abstraction"
  PROVE  /\ t.bound \in BindersOver(S) /\ t.parameters \in BindersOver(S) /\ t.body \in S
         /\ t = Abstraction(t.bound, t.parameters, t.body)
BY DEF TreesOver, TermOver, Abstraction, Literals, Unmovable, BindersOver

\* The fields of a function type; what it is over are variables.
LEMMA IfFunctionType ==
  ASSUME NEW S, NEW t \in TreesOver(S), t.tag = "FunctionType"
  PROVE  /\ t.forall \in SUBSET S /\ t.parameter_types \in TypesOver(S) /\ t.return_type \in S
         /\ t = FunctionType(t.forall, t.parameter_types, t.return_type)
         /\ t.forall \cup Comptimes(t) \subseteq Variables
<1>1. t \in TermOver(S) /\ t.forall \cup Comptimes(t) \subseteq Variables
  BY DEF TreesOver
<1>2. t.forall \in SUBSET S /\ t.parameter_types \in TypesOver(S) /\ t.return_type \in S
      /\ t = FunctionType(t.forall, t.parameter_types, t.return_type)
  BY <1>1 DEF TermOver, FunctionType, Literals, Unmovable, TypesOver
<1>3. QED
  BY <1>1, <1>2

\* The fields of a product type.
LEMMA IfProductType ==
  ASSUME NEW S, NEW t \in TreesOver(S), t.tag = "ProductType"
  PROVE  t.members \in MembersOver(S) /\ t = ProductType(t.members)
BY DEF TreesOver, TermOver, ProductType, Literals, Unmovable

\* The fields of a product value.
LEMMA IfProductValue ==
  ASSUME NEW S, NEW t \in TreesOver(S), t.tag = "ProductValue"
  PROVE  t.type \in S /\ t.members \in MembersOver(S) /\ t = ProductValue(t.type, t.members)
BY DEF TreesOver, TermOver, ProductValue, Literals, Unmovable

\* Terms built of trees are trees one level above.
LEMMA Built ==
  ASSUME NEW S
  PROVE  /\ \A f \in S, as \in Seq(S) : Application(f, as) \in TreesOver(S)
         /\ \A x \in S : UnitLikeValue(x) \in TreesOver(S)
         /\ \A x \in S, a \in {"Runtime", "Comptime"} : DeferredValue(x, a) \in TreesOver(S)
         /\ \A bs \in BindersOver(S), b \in S : LetIns(bs, b) \in TreesOver(S)
         /\ \A bs, ps \in BindersOver(S), b \in S : Abstraction(bs, ps, b) \in TreesOver(S)
         /\ \A fs \in SUBSET S, ps \in TypesOver(S), r \in S :
              fs \cup UNION {p.comptime : p \in Range(ps)} \subseteq Variables
              => FunctionType(fs, ps, r) \in TreesOver(S)
         /\ \A ms \in MembersOver(S) : ProductType(ms) \in TreesOver(S)
         /\ \A x \in S, ms \in MembersOver(S) : ProductValue(x, ms) \in TreesOver(S)
<1>1. \A f \in S, as \in Seq(S) : Application(f, as) \in TreesOver(S)
  BY DEF Application, TermOver, TreesOver
<1>2. \A x \in S : UnitLikeValue(x) \in TreesOver(S)
  BY DEF UnitLikeValue, TermOver, TreesOver
<1>3. \A x \in S, a \in {"Runtime", "Comptime"} : DeferredValue(x, a) \in TreesOver(S)
  BY DEF DeferredValue, TermOver, TreesOver
<1>4. \A bs \in BindersOver(S), b \in S : LetIns(bs, b) \in TreesOver(S)
  BY DEF LetIns, TermOver, TreesOver, BindersOver
<1>5. \A bs, ps \in BindersOver(S), b \in S : Abstraction(bs, ps, b) \in TreesOver(S)
  BY DEF Abstraction, TermOver, TreesOver, BindersOver
<1>6. ASSUME NEW fs \in SUBSET S, NEW ps \in TypesOver(S), NEW r \in S,
             fs \cup UNION {p.comptime : p \in Range(ps)} \subseteq Variables
      PROVE  FunctionType(fs, ps, r) \in TreesOver(S)
  <2>1. FunctionType(fs, ps, r) \in TermOver(S)
    BY DEF FunctionType, TermOver, TypesOver
  <2>2. /\ FunctionType(fs, ps, r).tag = "FunctionType" /\ FunctionType(fs, ps, r).forall = fs
        /\ FunctionType(fs, ps, r).parameter_types = ps
    BY DEF FunctionType
  <2>3. Comptimes(FunctionType(fs, ps, r)) = UNION {p.comptime : p \in Range(ps)}
    BY <2>2 DEF Comptimes
  <2>4. QED
    BY <1>6, <2>1, <2>2, <2>3 DEF TreesOver
<1>7. \A ms \in MembersOver(S) : ProductType(ms) \in TreesOver(S)
  BY DEF ProductType, TermOver, TreesOver
<1>8. \A x \in S, ms \in MembersOver(S) : ProductValue(x, ms) \in TreesOver(S)
  BY DEF ProductValue, TermOver, TreesOver
<1>9. QED
  BY <1>1, <1>2, <1>3, <1>4, <1>5, <1>6, <1>7, <1>8

\* Sequences of trees are sequences of more trees.
LEMMA MembersMonotonic ==
  ASSUME NEW S, NEW R, S \subseteq R
  PROVE  /\ Seq(S) \subseteq Seq(R)
         /\ BindersOver(S) \subseteq BindersOver(R)
         /\ TypesOver(S) \subseteq TypesOver(R)
         /\ MembersOver(S) \subseteq MembersOver(R)
<1>1. \A P, Q : P \subseteq Q => Seq(P) \subseteq Seq(Q)
  BY SeqMonotonic
<1>2. [variable : S, value : S] \subseteq [variable : R, value : R]
  OBVIOUS
<1>3. [type : S, comptime : SUBSET S] \subseteq [type : R, comptime : SUBSET R]
  OBVIOUS
<1>4. [name : STRING, value : S] \subseteq [name : STRING, value : R]
  OBVIOUS
<1>5. MembersOver(S) \subseteq MembersOver(R)
  <2> DEFINE P == [name : STRING, value : S]
             Q == [name : STRING, value : R]
             Single(ms) == \A j, k \in DOMAIN ms : ms[j].name = ms[k].name => j = k
  <2>1. MembersOver(S) = {ms \in Seq(P) : Single(ms)} /\ MembersOver(R) = {ms \in Seq(Q) : Single(ms)}
    BY DEF MembersOver
  <2>2. Seq(P) \subseteq Seq(Q)
    BY <1>1, <1>4
  <2> HIDE DEF P, Q, Single
  <2>3. QED
    BY <2>1, <2>2
<1>6. BindersOver(S) \subseteq BindersOver(R)
  BY <1>1, <1>2 DEF BindersOver
<1>7. TypesOver(S) \subseteq TypesOver(R)
  BY <1>1, <1>3 DEF TypesOver
<1>8. QED
  BY <1>1, <1>5, <1>6, <1>7

\* More trees below, more trees one level above.
LEMMA TreesMonotonic ==
  ASSUME NEW S, NEW R, S \subseteq R
  PROVE  TreesOver(S) \subseteq TreesOver(R)
<1> SUFFICES ASSUME NEW t \in TreesOver(S) PROVE t \in TreesOver(R)
  OBVIOUS
<1>1. t.tag \in TreeTags
  BY TreeTag
<1>2. CASE t.tag \in ScalarTags
  BY <1>2, IfScalar
<1>3. CASE t.tag = "Application"
  BY <1>3, IfApplication, MembersMonotonic, Built
<1>4. CASE t.tag = "UnitLikeValue"
  BY <1>4, IfUnitLikeValue, MembersMonotonic, Built
<1>5. CASE t.tag = "DeferredValue"
  BY <1>5, IfDeferredValue, MembersMonotonic, Built
<1>6. CASE t.tag = "LetIns"
  <2>1. t.bound \in BindersOver(R) /\ t.body \in R
    BY <1>6, IfLetIns, MembersMonotonic
  <2>2. LetIns(t.bound, t.body) \in TreesOver(R)
    BY <2>1, Built
  <2>3. QED
    BY <1>6, <2>2, IfLetIns
<1>7. CASE t.tag = "Abstraction"
  <2>1. t.bound \in BindersOver(R) /\ t.parameters \in BindersOver(R) /\ t.body \in R
    BY <1>7, IfAbstraction, MembersMonotonic
  <2>2. Abstraction(t.bound, t.parameters, t.body) \in TreesOver(R)
    BY <2>1, Built
  <2>3. QED
    BY <1>7, <2>2, IfAbstraction
<1>8. CASE t.tag = "FunctionType"
  <2>1. t.forall \in SUBSET R /\ t.parameter_types \in TypesOver(R) /\ t.return_type \in R
    BY <1>8, IfFunctionType, MembersMonotonic
  <2>2. t.forall \cup UNION {p.comptime : p \in Range(t.parameter_types)} \subseteq Variables
    BY <1>8, IfFunctionType DEF Comptimes
  <2>3. FunctionType(t.forall, t.parameter_types, t.return_type) \in TreesOver(R)
    BY <2>1, <2>2, Built
  <2>4. QED
    BY <1>8, <2>3, IfFunctionType
<1>9. CASE t.tag = "ProductType"
  BY <1>9, IfProductType, MembersMonotonic, Built
<1>10. CASE t.tag = "ProductValue"
  <2>1. t.type \in R /\ t.members \in MembersOver(R)
    BY <1>10, IfProductValue, MembersMonotonic
  <2>2. ProductValue(t.type, t.members) \in TreesOver(R)
    BY <2>1, Built
  <2>3. QED
    BY <1>10, <2>2, IfProductValue
<1>11. QED
  BY <1>1, <1>2, <1>3, <1>4, <1>5, <1>6, <1>7, <1>8, <1>9, <1>10 DEF TreeTags

-----------------------------------------------------------------------------
(* Functions of numbers, and the levels of trees.                          *)

\* Induction over numbers, for a set.
LEMMA AllNumbers ==
  ASSUME NEW T, 0 \in T, \A m \in Nat : m \in T => m + 1 \in T
  PROVE  \A m \in Nat : m \in T
<1> DEFINE R == OpToRel(<, Nat)
           Bad == {m \in Nat : m \notin T}
<1>1. IsWellFoundedOn(R, Nat)
  BY NatLessThanWellFounded
<1>2. \A x, y \in Nat : <<x, y>> \in R <=> x < y
  BY DEF OpToRel
<1> HIDE DEF R
<1> SUFFICES ASSUME Bad # {} PROVE FALSE
  OBVIOUS
<1>3. PICK m \in Bad : \A b \in Bad : ~ (<<b, m>> \in R)
  <2>1. Bad \in SUBSET Nat
    OBVIOUS
  <2> HIDE DEF Bad
  <2>2. QED
    BY <1>1, <2>1, WFMin
<1>4. m \in Nat \ {0} /\ m \notin T
  OBVIOUS
<1>5. m - 1 \in Nat /\ m - 1 < m /\ (m - 1) + 1 = m
  BY <1>4
<1>6. m - 1 \in T
  BY <1>2, <1>3, <1>4, <1>5
<1>7. QED
  BY <1>4, <1>5, <1>6

\* The three functions of numbers: each says what follows from the number before.
Of(w, n, below) ==
  CASE w.is = "trees" -> IF n = 0 THEN {} ELSE TreesOver(below)
    [] w.is = "again" -> [v \in BoundIn(w.chain) |->
                            IF n = 0 THEN [how |-> "forever"]
                            ELSE Evaluations(w.chain, below)[LookUp(w.chain, v)]]
    [] w.is = "resolved" -> IF n = 0 THEN w.map ELSE [v \in DOMAIN w.map |-> Substituted(below, w.map[v])]
Below(f, n) == IF n = 0 THEN {} ELSE f[n - 1]
\* Such a function, up to a number.
Prefix(w, m, f) == f = [n \in 0..m |-> Of(w, n, Below(f, n))]

\* There is such a function up to every number.
LEMMA PrefixesExist ==
  ASSUME NEW w
  PROVE  \A m \in Nat : \E f : Prefix(w, m, f)
<1> DEFINE T == {m \in Nat : \E f : Prefix(w, m, f)}
<1>1. 0 \in T
  <2> DEFINE f == [n \in 0..0 |-> Of(w, n, {})]
  <2>1. \A n \in 0..0 : Below(f, n) = {}
    BY DEF Below
  <2>2. f = [n \in 0..0 |-> Of(w, n, Below(f, n))]
    BY <2>1
  <2>3. Prefix(w, 0, f)
    BY <2>2 DEF Prefix
  <2>4. QED
    BY <2>3
<1>2. ASSUME NEW m \in Nat, m \in T PROVE m + 1 \in T
  <2>1. PICK f : Prefix(w, m, f)
    BY <1>2
  <2>2. f = [n \in 0..m |-> Of(w, n, Below(f, n))]
    BY <2>1 DEF Prefix
  <2> DEFINE g == [n \in 0..(m + 1) |-> IF n = m + 1 THEN Of(w, n, f[m]) ELSE f[n]]
  <2>3. ASSUME NEW n \in 0..(m + 1) PROVE g[n] = Of(w, n, Below(g, n))
    <3>1. CASE n = m + 1
      <4>1. Below(g, n) = g[m] /\ g[m] = f[m]
        BY <3>1 DEF Below
      <4>2. QED
        BY <3>1, <4>1
    <3>2. CASE n # m + 1
      <4>1. n \in 0..m /\ (n # 0 => n - 1 \in 0..m /\ n - 1 # m + 1)
        BY <3>2
      <4>2. Below(g, n) = Below(f, n)
        BY <4>1 DEF Below
      <4>3. g[n] = f[n] /\ f[n] = Of(w, n, Below(f, n))
        BY <2>2, <4>1, <3>2
      <4>4. QED
        BY <4>2, <4>3
    <3>3. QED
      BY <3>1, <3>2
  <2>4. g = [n \in 0..(m + 1) |-> Of(w, n, Below(g, n))]
    BY <2>3
  <2> HIDE DEF g
  <2>5. Prefix(w, m + 1, g)
    BY <2>4 DEF Prefix
  <2>6. m + 1 \in Nat /\ \E h : Prefix(w, m + 1, h)
    BY <2>5
  <2>7. QED
    BY <2>6
<1> HIDE DEF T
<1>3. \A m \in Nat : m \in T
  BY <1>1, <1>2, AllNumbers
<1>4. QED
  BY <1>3 DEF T

\* Two such functions agree as far as both go.
LEMMA PrefixesAgree ==
  ASSUME NEW w, NEW m \in Nat, NEW k \in Nat, NEW f, NEW g, Prefix(w, m, f), Prefix(w, k, g), m <= k
  PROVE  f[m] = g[m]
<1> DEFINE T == {n \in Nat : n <= m => f[n] = g[n]}
<1>0. /\ \A n \in 0..m : f[n] = Of(w, n, Below(f, n))
      /\ \A n \in 0..k : g[n] = Of(w, n, Below(g, n))
  <2>1. f = [n \in 0..m |-> Of(w, n, Below(f, n))]
    BY DEF Prefix
  <2>2. g = [n \in 0..k |-> Of(w, n, Below(g, n))]
    BY DEF Prefix
  <2>3. \A n \in 0..m : f[n] = Of(w, n, Below(f, n))
    BY <2>1
  <2>4. QED
    BY <2>2, <2>3
<1>1. 0 \in T
  <2>1. Below(f, 0) = Below(g, 0)
    BY DEF Below
  <2>2. QED
    BY <1>0, <2>1
<1>2. ASSUME NEW n \in Nat, n \in T PROVE n + 1 \in T
  <2>1. SUFFICES ASSUME n + 1 <= m PROVE f[n + 1] = g[n + 1]
    OBVIOUS
  <2>2. f[n] = g[n] /\ n + 1 \in 0..m /\ n + 1 \in 0..k /\ n + 1 # 0 /\ (n + 1) - 1 = n
    BY <1>2, <2>1
  <2>3. Below(f, n + 1) = Below(g, n + 1)
    BY <2>2 DEF Below
  <2>4. QED
    BY <1>0, <2>2, <2>3
<1> HIDE DEF T
<1>3. m \in T
  BY <1>1, <1>2, AllNumbers
<1>4. QED
  BY <1>3 DEF T

\* There is such a function.
LEMMA NumberRecursion ==
  ASSUME NEW w
  PROVE  \E f : f = [n \in Nat |-> Of(w, n, Below(f, n))]
<1> DEFINE P(m) == CHOOSE f : Prefix(w, m, f)
           F == [n \in Nat |-> P(n)[n]]
<1>1. \A m \in Nat : Prefix(w, m, P(m))
  BY PrefixesExist
<1>2. ASSUME NEW n \in Nat PROVE F[n] = Of(w, n, Below(F, n))
  <2>1. Prefix(w, n, P(n))
    BY <1>1
  <2> DEFINE p == P(n)
  <2>2. p = [k \in 0..n |-> Of(w, k, Below(p, k))]
    BY <2>1 DEF Prefix
  <2>3. n \in 0..n
    OBVIOUS
  <2> HIDE DEF p
  <2>4. p[n] = Of(w, n, Below(p, n))
    BY <2>2, <2>3
  <2>5. Below(p, n) = Below(F, n)
    <3>1. CASE n = 0
      BY <3>1 DEF Below
    <3>2. CASE n # 0
      <4>1. n - 1 \in Nat /\ n - 1 <= n
        BY <3>2
      <4>2. Prefix(w, n - 1, P(n - 1))
        BY <1>1, <4>1
      <4>3. Prefix(w, n, p)
        BY <2>1 DEF p
      <4> HIDE DEF P
      <4>4. P(n - 1)[n - 1] = p[n - 1]
        BY <4>1, <4>2, <4>3, PrefixesAgree
      <4>5. QED
        BY <3>2, <4>1, <4>4 DEF Below
    <3>3. QED
      BY <3>1, <3>2
  <2>6. F[n] = p[n]
    BY DEF p
  <2>7. QED
    BY <2>4, <2>5, <2>6
<1> HIDE DEF P
<1>3. F = [n \in Nat |-> Of(w, n, Below(F, n))]
  BY <1>2
<1> HIDE DEF F
<1>4. QED
  BY <1>3

\* The levels of trees.
LEMMA LevelsAre ==
  /\ TreesUpTo[0] = {}
  /\ \A n \in Nat : TreesUpTo[n + 1] = TreesOver(TreesUpTo[n])
<1> DEFINE w == [is |-> "trees"]
<1>1. PICK f : f = [n \in Nat |-> Of(w, n, Below(f, n))]
  BY NumberRecursion
<1>2. \A n \in Nat : Of(w, n, Below(f, n)) = IF n = 0 THEN {} ELSE TreesOver(f[n - 1])
  BY DEF Of, Below
<1>3. f = [n \in Nat |-> IF n = 0 THEN {} ELSE TreesOver(f[n - 1])]
  BY <1>1, <1>2
<1> DEFINE Is(g) == g = [n \in Nat |-> IF n = 0 THEN {} ELSE TreesOver(g[n - 1])]
<1>4. TreesUpTo = CHOOSE g : Is(g)
  BY DEF TreesUpTo
<1>5. Is(TreesUpTo)
  BY <1>3, <1>4
<1>6. TreesUpTo[0] = {}
  BY <1>5
<1>7. ASSUME NEW n \in Nat PROVE TreesUpTo[n + 1] = TreesOver(TreesUpTo[n])
  <2>1. n + 1 \in Nat /\ n + 1 # 0 /\ (n + 1) - 1 = n
    OBVIOUS
  <2>2. TreesUpTo[n + 1] = IF n + 1 = 0 THEN {} ELSE TreesOver(TreesUpTo[(n + 1) - 1])
    BY <1>5, <2>1
  <2>3. QED
    BY <2>1, <2>2
<1>8. QED
  BY <1>6, <1>7

\* Each level of trees includes those below.
LEMMA LevelsGrow ==
  ASSUME NEW m \in Nat, NEW n \in Nat, m <= n
  PROVE  TreesUpTo[m] \subseteq TreesUpTo[n]
<1> DEFINE T == {k \in Nat : TreesUpTo[k] \subseteq TreesUpTo[k + 1]}
<1>1. 0 \in T
  BY LevelsAre
<1>2. ASSUME NEW k \in Nat, k \in T PROVE k + 1 \in T
  <2>1. TreesUpTo[k + 1] = TreesOver(TreesUpTo[k]) /\ TreesUpTo[(k + 1) + 1] = TreesOver(TreesUpTo[k + 1])
    BY LevelsAre
  <2>2. TreesUpTo[k] \subseteq TreesUpTo[k + 1]
    BY <1>2
  <2>3. QED
    BY <2>1, <2>2, TreesMonotonic
<1> HIDE DEF T
<1>3. \A k \in Nat : k \in T
  BY <1>1, <1>2, AllNumbers
<1> DEFINE U == {k \in Nat : TreesUpTo[m] \subseteq TreesUpTo[m + k]}
<1>4. 0 \in U
  OBVIOUS
<1>5. ASSUME NEW k \in Nat, k \in U PROVE k + 1 \in U
  <2>1. m + k \in Nat /\ m + (k + 1) = (m + k) + 1
    OBVIOUS
  <2>2. TreesUpTo[m + k] \subseteq TreesUpTo[(m + k) + 1]
    BY <1>3, <2>1 DEF T
  <2>3. QED
    BY <1>5, <2>1, <2>2
<1> HIDE DEF U
<1>6. n - m \in U
  <2>1. n - m \in Nat
    OBVIOUS
  <2>2. QED
    BY <2>1, <1>4, <1>5, AllNumbers
<1>7. m + (n - m) = n
  OBVIOUS
<1>8. QED
  BY <1>6, <1>7 DEF U

-----------------------------------------------------------------------------
(* Components.                                                             *)

\* A function of the first n numbers is a sequence.
LEMMA FunctionIsSeq ==
  ASSUME NEW S, NEW n \in Nat, NEW s \in [1..n -> S]
  PROVE  s \in Seq(S) /\ Len(s) = n
BY SeqDef, LenProperties

\* A sequence is a function of the first numbers.
LEMMA SeqIsFunction ==
  ASSUME NEW S, NEW s \in Seq(S)
  PROVE  Len(s) \in Nat /\ DOMAIN s = 1..Len(s) /\ \A k \in 1..Len(s) : s[k] \in S
BY LenProperties

\* No components at all.
LEMMA NoComponents ==
  ASSUME NEW t, t.tag \in ScalarTags \cup {"DeferredValue", "LetIns", "Abstraction"}
  PROVE  Components(t) = <<>> /\ Parts(t) = <<>>
BY DEF Components, Parts, ScalarTags, Products

\* The components of an application.
LEMMA ComponentsOfApplication ==
  ASSUME NEW S, NEW t \in TreesOver(S), t.tag = "Application"
  PROVE  /\ Components(t) \in Seq(S) /\ Parts(t) = Components(t)
         /\ Len(Components(t)) = Len(t.arguments) + 1
         /\ Components(t)[1] = t.function
         /\ \A k \in 1..Len(t.arguments) : Components(t)[k + 1] = t.arguments[k]
<1>1. Components(t) = <<t.function>> \o t.arguments /\ Parts(t) = Components(t)
  BY DEF Components, Parts, Products
<1>2. t.arguments \in Seq(S) /\ t.function \in S
  BY IfApplication
<1>3. <<t.function>> \in Seq(S) /\ Len(<<t.function>>) = 1 /\ <<t.function>>[1] = t.function
  BY <1>2
<1>4. Len(t.arguments) \in Nat
  BY <1>2
<1> DEFINE u == <<t.function>>
<1> HIDE DEF u
<1>5. u \in Seq(S) /\ Len(u) = 1 /\ u[1] = t.function /\ Components(t) = u \o t.arguments
  BY <1>1, <1>3 DEF u
<1>6. /\ u \o t.arguments \in Seq(S)
      /\ Len(u \o t.arguments) = Len(u) + Len(t.arguments)
      /\ \A i \in 1 .. Len(u) + Len(t.arguments) : (u \o t.arguments)[i] =
             IF i <= Len(u) THEN u[i] ELSE t.arguments[i - Len(u)]
  BY <1>2, <1>5, ConcatProperties
<1>7. Components(t)[1] = t.function
  BY <1>4, <1>5, <1>6
<1>8. ASSUME NEW k \in 1..Len(t.arguments) PROVE Components(t)[k + 1] = t.arguments[k]
  <2>1. k + 1 \in 1..Len(u) + Len(t.arguments) /\ ~(k + 1 <= Len(u)) /\ (k + 1) - Len(u) = k
    BY <1>4, <1>5
  <2>2. QED
    BY <1>5, <1>6, <2>1
<1>9. QED
  BY <1>1, <1>4, <1>5, <1>6, <1>7, <1>8

\* The components of a unit-like value.
LEMMA ComponentsOfUnitLikeValue ==
  ASSUME NEW S, NEW t \in TreesOver(S), t.tag = "UnitLikeValue"
  PROVE  /\ Components(t) \in Seq(S) /\ Parts(t) = Components(t)
         /\ Len(Components(t)) = 1
         /\ Components(t)[1] = t.type
<1>1. Components(t) = <<t.type>> /\ Parts(t) = Components(t)
  BY DEF Components, Parts, Products
<1>2. t.type \in S
  BY IfUnitLikeValue
<1>3. QED
  BY <1>1, <1>2

\* The components of a function type.
LEMMA ComponentsOfFunctionType ==
  ASSUME NEW S, NEW t \in TreesOver(S), t.tag = "FunctionType"
  PROVE  /\ Components(t) \in Seq(S) /\ Parts(t) = Components(t)
         /\ Len(t.parameter_types) \in Nat
         /\ Len(Components(t)) = Len(t.parameter_types) + 1
         /\ \A k \in 1..Len(t.parameter_types) : Components(t)[k] = t.parameter_types[k].type
         /\ Components(t)[Len(t.parameter_types) + 1] = t.return_type
<1> DEFINE n == Len(t.parameter_types)
           u == [k \in DOMAIN t.parameter_types |-> t.parameter_types[k].type]
           r == <<t.return_type>>
<1>1. Components(t) = u \o r /\ Parts(t) = Components(t)
  BY DEF Components, Parts, Products
<1>2. t.parameter_types \in Seq([type : S, comptime : SUBSET S]) /\ t.return_type \in S
  BY IfFunctionType DEF TypesOver
<1>3. n \in Nat /\ DOMAIN t.parameter_types = 1..n /\ \A k \in 1..n : t.parameter_types[k].type \in S
  <2>1. n \in Nat /\ DOMAIN t.parameter_types = 1..n
        /\ \A k \in 1..n : t.parameter_types[k] \in [type : S, comptime : SUBSET S]
    BY <1>2, SeqIsFunction
  <2>2. QED
    BY <2>1
<1>4. u \in [1..n -> S]
  BY <1>3
<1>5. u \in Seq(S) /\ Len(u) = n /\ \A k \in 1..n : u[k] = t.parameter_types[k].type
  BY <1>3, <1>4, FunctionIsSeq
<1>6. r \in Seq(S) /\ Len(r) = 1 /\ r[1] = t.return_type
  BY <1>2
<1> HIDE DEF n, u, r
<1>7. /\ u \o r \in Seq(S)
      /\ Len(u \o r) = n + 1
      /\ \A i \in 1..n + 1 : (u \o r)[i] = IF i <= n THEN u[i] ELSE r[i - n]
  <2>1. /\ u \o r \in Seq(S)
        /\ Len(u \o r) = Len(u) + Len(r)
        /\ \A i \in 1 .. Len(u) + Len(r) : (u \o r)[i] = IF i <= Len(u) THEN u[i] ELSE r[i - Len(u)]
    BY <1>5, <1>6, ConcatProperties
  <2>2. QED
    BY <1>5, <1>6, <2>1
<1>8. \A k \in 1..n : Components(t)[k] = t.parameter_types[k].type
  BY <1>1, <1>3, <1>5, <1>7
<1>9. Components(t)[n + 1] = t.return_type
  <2>1. n + 1 \in 1..n + 1 /\ ~(n + 1 <= n) /\ (n + 1) - n = 1
    BY <1>3
  <2>2. QED
    BY <1>1, <1>6, <1>7, <2>1
<1>10. QED
  BY <1>1, <1>3, <1>7, <1>8, <1>9 DEF n

\* The values of the members of a map.
LEMMA ValuesOfMembers ==
  ASSUME NEW S, NEW ms \in MembersOver(S)
  PROVE  /\ Len(ms) \in Nat /\ DOMAIN ms = 1..Len(ms)
         /\ Values(ms) \in Seq(S) /\ Len(Values(ms)) = Len(ms)
         /\ \A k \in 1..Len(ms) : Values(ms)[k] = ms[k].value /\ ms[k].value \in S /\ ms[k].name \in STRING
                                  /\ ms[k] = [name |-> ms[k].name, value |-> ms[k].value]
<1>1. ms \in Seq([name : STRING, value : S])
  BY DEF MembersOver
<1>2. Len(ms) \in Nat /\ DOMAIN ms = 1..Len(ms) /\ \A k \in 1..Len(ms) : ms[k] \in [name : STRING, value : S]
  BY <1>1, SeqIsFunction
<1>3. \A k \in 1..Len(ms) : ms[k].value \in S /\ ms[k].name \in STRING /\ ms[k] = [name |-> ms[k].name, value |-> ms[k].value]
  BY <1>2
<1>4. Values(ms) \in [1..Len(ms) -> S] /\ \A k \in 1..Len(ms) : Values(ms)[k] = ms[k].value
  BY <1>2, <1>3 DEF Values
<1>5. Values(ms) \in Seq(S) /\ Len(Values(ms)) = Len(ms)
  BY <1>2, <1>4, FunctionIsSeq
<1>6. QED
  BY <1>2, <1>3, <1>4, <1>5

\* The components of a product type.
LEMMA ComponentsOfProductType ==
  ASSUME NEW S, NEW t \in TreesOver(S), t.tag = "ProductType"
  PROVE  /\ Components(t) \in Seq(S) /\ Parts(t) = Components(t)
         /\ Len(t.members) \in Nat /\ DOMAIN t.members = 1..Len(t.members)
         /\ Len(Components(t)) = Len(t.members)
         /\ \A k \in 1..Len(t.members) : Components(t)[k] = t.members[k].value
<1>1. Components(t) = Values(t.members) /\ Parts(t) = Components(t)
  BY DEF Components, Parts, Products
<1>2. t.members \in MembersOver(S)
  BY IfProductType
<1>3. /\ Len(t.members) \in Nat /\ DOMAIN t.members = 1..Len(t.members)
      /\ Values(t.members) \in Seq(S) /\ Len(Values(t.members)) = Len(t.members)
  BY <1>2, ValuesOfMembers
<1>4. \A k \in 1..Len(t.members) : Values(t.members)[k] = t.members[k].value
  BY <1>2, ValuesOfMembers
<1>5. QED
  BY <1>1, <1>3, <1>4

\* The components of a product value.
LEMMA ComponentsOfProductValue ==
  ASSUME NEW S, NEW t \in TreesOver(S), t.tag = "ProductValue"
  PROVE  /\ Components(t) \in Seq(S)
         /\ Len(t.members) \in Nat /\ DOMAIN t.members = 1..Len(t.members)
         /\ Len(Components(t)) = Len(t.members) + 1
         /\ Components(t)[1] = t.type
         /\ \A k \in 1..Len(t.members) : Components(t)[k + 1] = t.members[k].value
         /\ Parts(t) \in Seq(S) /\ Len(Parts(t)) = Len(t.members)
         /\ \A k \in 1..Len(t.members) : Parts(t)[k] = Components(t)[k + 1]
<1> DEFINE r == Values(t.members)
           u == <<t.type>>
           n == Len(t.members)
<1>1. Components(t) = u \o r /\ Parts(t) = r
  BY DEF Components, Parts, Products
<1>2. t.members \in MembersOver(S) /\ t.type \in S
  BY IfProductValue
<1>3. n \in Nat /\ DOMAIN t.members = 1..n /\ r \in Seq(S) /\ Len(r) = n
      /\ \A k \in 1..n : r[k] = t.members[k].value
  BY <1>2, ValuesOfMembers
<1>4. u \in Seq(S) /\ Len(u) = 1 /\ u[1] = t.type
  BY <1>2
<1> HIDE DEF u, r, n
<1>5. /\ u \o r \in Seq(S)
      /\ Len(u \o r) = 1 + n
      /\ \A i \in 1..1 + n : (u \o r)[i] = IF i <= 1 THEN u[i] ELSE r[i - 1]
  <2>1. /\ u \o r \in Seq(S)
        /\ Len(u \o r) = Len(u) + Len(r)
        /\ \A i \in 1 .. Len(u) + Len(r) : (u \o r)[i] = IF i <= Len(u) THEN u[i] ELSE r[i - Len(u)]
    BY <1>3, <1>4, ConcatProperties
  <2>2. QED
    BY <1>3, <1>4, <2>1
<1>6. Components(t)[1] = t.type
  BY <1>1, <1>3, <1>4, <1>5
<1>7. ASSUME NEW k \in 1..n PROVE Components(t)[k + 1] = r[k]
  <2>1. k + 1 \in 1..1 + n /\ ~(k + 1 <= 1) /\ (k + 1) - 1 = k
    BY <1>3
  <2>2. QED
    BY <1>1, <1>5, <2>1
<1>8. QED
  BY <1>1, <1>3, <1>5, <1>6, <1>7 DEF n

\* The components of a tree are trees of the level below.
LEMMA ComponentsBelow ==
  ASSUME NEW S, NEW t \in TreesOver(S)
  PROVE  /\ Components(t) \in Seq(S)
         /\ \A u \in Range(Parts(t)) : u \in Range(Components(t))
<1>1. t.tag \in TreeTags
  BY TreeTag
<1>2. CASE t.tag \in ScalarTags \cup {"DeferredValue", "LetIns", "Abstraction"}
  BY <1>2, NoComponents, EmptySeq
<1>3. CASE t.tag = "Application"
  BY <1>3, ComponentsOfApplication
<1>4. CASE t.tag = "UnitLikeValue"
  BY <1>4, ComponentsOfUnitLikeValue
<1>5. CASE t.tag = "FunctionType"
  BY <1>5, ComponentsOfFunctionType
<1>6. CASE t.tag = "ProductType"
  BY <1>6, ComponentsOfProductType
<1>7. CASE t.tag = "ProductValue"
  <2>1. Components(t) \in Seq(S)
    BY <1>7, ComponentsOfProductValue
  <2>2. ASSUME NEW u \in Range(Parts(t)) PROVE u \in Range(Components(t))
    <3>1. /\ Parts(t) \in Seq(S) /\ Len(Parts(t)) = Len(t.members) /\ Len(t.members) \in Nat
          /\ Len(Components(t)) = Len(t.members) + 1
          /\ \A k \in 1..Len(t.members) : Parts(t)[k] = Components(t)[k + 1]
      BY <1>7, ComponentsOfProductValue
    <3>2. DOMAIN Parts(t) = 1..Len(t.members) /\ DOMAIN Components(t) = 1..Len(t.members) + 1
      BY <2>1, <3>1, SeqIsFunction
    <3>3. PICK k \in 1..Len(t.members) : u = Parts(t)[k]
      BY <3>2 DEF Range
    <3>4. k + 1 \in DOMAIN Components(t) /\ u = Components(t)[k + 1]
      BY <3>1, <3>2, <3>3
    <3>5. QED
      BY <3>4 DEF Range
  <2>3. QED
    BY <2>1, <2>2
<1>8. QED
  BY <1>1, <1>2, <1>3, <1>4, <1>5, <1>6, <1>7 DEF TreeTags

\* Trees of the levels.
LEMMA SomeLevel ==
  ASSUME Nestings = Nat, NEW t \in Trees
  PROVE  \E n \in Nat : t \in TreesUpTo[n + 1] /\ TreesUpTo[n + 1] = TreesOver(TreesUpTo[n])
                        /\ TreesUpTo[n] \subseteq Trees
<1>1. PICK m \in Nat : t \in TreesUpTo[m]
  BY DEF Trees
<1>2. m # 0
  BY <1>1, LevelsAre
<1>3. m - 1 \in Nat /\ (m - 1) + 1 = m
  BY <1>2
<1>4. TreesUpTo[m] = TreesOver(TreesUpTo[m - 1])
  BY <1>3, LevelsAre
<1>5. TreesUpTo[m - 1] \subseteq Trees
  BY <1>3 DEF Trees
<1>6. QED
  BY <1>1, <1>3, <1>4, <1>5

\* Every tree is made of trees.
LEMMA TreeOverTrees ==
  ASSUME Nestings = Nat, NEW t \in Trees
  PROVE  t \in TreesOver(Trees)
BY SomeLevel, TreesMonotonic

\* The components of a tree are trees.
LEMMA ComponentsAreTrees ==
  ASSUME Nestings = Nat, NEW t \in Trees
  PROVE  /\ Components(t) \in Seq(Trees)
         /\ Len(Components(t)) \in Nat
         /\ DOMAIN Components(t) = 1..Len(Components(t))
         /\ \A k \in DOMAIN Components(t) : Components(t)[k] \in Trees
         /\ Range(Parts(t)) \subseteq Range(Components(t))
<1>1. Components(t) \in Seq(Trees) /\ Range(Parts(t)) \subseteq Range(Components(t))
  BY TreeOverTrees, ComponentsBelow
<1>2. QED
  BY <1>1, SeqIsFunction

-----------------------------------------------------------------------------
(* Induction and recursion over trees.                                     *)

\* Induction over trees.
LEMMA TreeInduction ==
  ASSUME Nestings = Nat, NEW T,
         \A t \in Trees : (\A k \in DOMAIN Components(t) : Components(t)[k] \in T) => t \in T
  PROVE  Trees \subseteq T
<1> DEFINE U == {n \in Nat : TreesUpTo[n] \subseteq T}
<1>1. 0 \in U
  BY LevelsAre
<1>2. ASSUME NEW n \in Nat, n \in U PROVE n + 1 \in U
  <2>1. SUFFICES ASSUME NEW t \in TreesUpTo[n + 1] PROVE t \in T
    OBVIOUS
  <2>2. t \in Trees
    BY <2>1 DEF Trees
  <2>3. t \in TreesOver(TreesUpTo[n])
    BY LevelsAre
  <2>4. Components(t) \in Seq(TreesUpTo[n])
    BY <2>3, ComponentsBelow
  <2>5. \A k \in DOMAIN Components(t) : Components(t)[k] \in TreesUpTo[n]
    BY <2>4, SeqIsFunction
  <2>6. QED
    BY <1>2, <2>2, <2>5
<1> HIDE DEF U
<1>3. \A n \in Nat : n \in U
  BY <1>1, <1>2, AllNumbers
<1>4. ASSUME NEW n \in Nat PROVE TreesUpTo[n] \subseteq T
  BY <1>3 DEF U
<1>5. QED
  BY <1>4 DEF Trees

\* What a recursive function gives for the components of a tree.
Given(f, t) == [u \in Range(Components(t)) |-> f[u]]
Solution(n, V, B, f) ==
  /\ f \in [TreesUpTo[n] -> V]
  /\ \A t \in TreesUpTo[n] : f[t] = B[t][Given(f, t)]

\* A recursion over trees defines a function of the trees of every level.
LEMMA SolutionsExist ==
  ASSUME Nestings = Nat, NEW V, NEW B,
         \A t \in Trees : \A r \in [Range(Components(t)) -> V] : B[t][r] \in V
  PROVE  \A n \in Nat : \E f : Solution(n, V, B, f)
<1> DEFINE T == {n \in Nat : \E f : Solution(n, V, B, f)}
<1>0. ASSUME NEW n \in Nat PROVE TreesUpTo[n] \subseteq Trees
  BY DEF Trees
<1>1. 0 \in T
  <2> DEFINE f == [t \in {} |-> t]
  <2>1. TreesUpTo[0] = {}
    BY LevelsAre
  <2>2. f \in [{} -> V]
    OBVIOUS
  <2> HIDE DEF f
  <2>3. Solution(0, V, B, f)
    BY <2>1, <2>2 DEF Solution
  <2>4. QED
    BY <2>3
<1>2. ASSUME NEW n \in Nat, n \in T PROVE n + 1 \in T
  <2>1. PICK f : Solution(n, V, B, f)
    BY <1>2
  <2>2. f \in [TreesUpTo[n] -> V] /\ \A t \in TreesUpTo[n] : f[t] = B[t][Given(f, t)]
    BY <2>1 DEF Solution
  <2> DEFINE g == [t \in TreesUpTo[n + 1] |-> B[t][Given(f, t)]]
  <2>3. ASSUME NEW t \in TreesUpTo[n + 1] PROVE Range(Components(t)) \subseteq TreesUpTo[n]
    <3>1. t \in TreesOver(TreesUpTo[n])
      BY LevelsAre
    <3>2. Components(t) \in Seq(TreesUpTo[n])
      BY <3>1, ComponentsBelow
    <3>3. QED
      BY <3>2, SeqIsFunction DEF Range
  <2>4. ASSUME NEW t \in TreesUpTo[n + 1] PROVE g[t] \in V
    <3>1. Given(f, t) \in [Range(Components(t)) -> V]
      BY <2>2, <2>3 DEF Given
    <3>2. t \in Trees
      BY <1>0
    <3>3. QED
      BY <3>1, <3>2
  <2>5. ASSUME NEW t \in TreesUpTo[n] PROVE g[t] = f[t]
    <3>1. t \in TreesUpTo[n + 1]
      BY LevelsGrow
    <3>2. QED
      BY <2>2, <3>1
  <2>6. ASSUME NEW t \in TreesUpTo[n + 1] PROVE g[t] = B[t][Given(g, t)]
    <3>1. \A u \in Range(Components(t)) : g[u] = f[u]
      BY <2>3, <2>5
    <3> HIDE DEF g
    <3>2. Given(g, t) = Given(f, t)
      BY <3>1 DEF Given
    <3>3. g[t] = B[t][Given(f, t)]
      BY DEF g
    <3>4. QED
      BY <3>2, <3>3
  <2>7. g \in [TreesUpTo[n + 1] -> V]
    BY <2>4
  <2> HIDE DEF g
  <2>8. Solution(n + 1, V, B, g)
    BY <2>6, <2>7 DEF Solution
  <2>9. QED
    BY <2>8
<1> HIDE DEF T
<1>3. \A n \in Nat : n \in T
  BY <1>1, <1>2, AllNumbers
<1>4. QED
  BY <1>3 DEF T

\* The functions of two levels agree on their trees.
LEMMA SolutionsAgree ==
  ASSUME Nestings = Nat, NEW V, NEW B, NEW m \in Nat, NEW n \in Nat, NEW f, NEW g,
         Solution(m, V, B, f), Solution(n, V, B, g), NEW t \in TreesUpTo[m], t \in TreesUpTo[n]
  PROVE  f[t] = g[t]
<1> DEFINE T == {x \in Trees : x \in TreesUpTo[m] /\ x \in TreesUpTo[n] => f[x] = g[x]}
<1>1. ASSUME NEW x \in Trees, \A k \in DOMAIN Components(x) : Components(x)[k] \in T PROVE x \in T
  <2> SUFFICES ASSUME x \in TreesUpTo[m], x \in TreesUpTo[n] PROVE f[x] = g[x]
    OBVIOUS
  <2>1. ASSUME NEW l \in Nat, x \in TreesUpTo[l]
        PROVE \A k \in DOMAIN Components(x) : Components(x)[k] \in TreesUpTo[l]
    <3>1. l # 0
      BY <2>1, LevelsAre
    <3>2. l - 1 \in Nat /\ (l - 1) + 1 = l /\ l - 1 <= l
      BY <3>1
    <3>3. x \in TreesOver(TreesUpTo[l - 1])
      BY <2>1, <3>2, LevelsAre
    <3>4. Components(x) \in Seq(TreesUpTo[l - 1])
      BY <3>3, ComponentsBelow
    <3>5. \A k \in DOMAIN Components(x) : Components(x)[k] \in TreesUpTo[l - 1]
      BY <3>4, SeqIsFunction
    <3>6. QED
      BY <3>2, <3>5, LevelsGrow
  <2>2. \A k \in DOMAIN Components(x) : f[Components(x)[k]] = g[Components(x)[k]]
    BY <1>1, <2>1
  <2>3. \A u \in Range(Components(x)) : f[u] = g[u]
    BY <2>2 DEF Range
  <2>4. Given(f, x) = Given(g, x)
    BY <2>3 DEF Given
  <2>5. f[x] = B[x][Given(f, x)] /\ g[x] = B[x][Given(g, x)]
    BY DEF Solution
  <2>6. QED
    BY <2>4, <2>5
<1> HIDE DEF T
<1>2. Trees \subseteq T
  BY <1>1, TreeInduction
<1>3. t \in Trees
  BY DEF Trees
<1>4. QED
  BY <1>2, <1>3 DEF T

\* A recursion over trees, and a function that follows it.
Closed(V, B) == \A t \in Trees : \A r \in [Range(Components(t)) -> V] : B[t][r] \in V
Defined(V, B, f) == f \in [Trees -> V] /\ \A t \in Trees : f[t] = B[t][Given(f, t)]

\* A recursion over trees that says what follows from the components defines a function.
LEMMA TreeRecursion ==
  ASSUME Nestings = Nat, NEW V, NEW B, Closed(V, B)
  PROVE  \E f : Defined(V, B, f)
<1> DEFINE S(n) == CHOOSE f : Solution(n, V, B, f)
           L(t) == CHOOSE n \in Nat : t \in TreesUpTo[n]
           F == [t \in Trees |-> S(L(t))[t]]
<1>1. \A n \in Nat : Solution(n, V, B, S(n))
  BY SolutionsExist DEF Closed
<1>2. \A t \in Trees : L(t) \in Nat /\ t \in TreesUpTo[L(t)]
  BY DEF Trees
<1> HIDE DEF S, L
<1>3. ASSUME NEW t \in Trees PROVE F[t] \in V
  BY <1>1, <1>2 DEF Solution
<1>4. ASSUME NEW n \in Nat, NEW t \in TreesUpTo[n] PROVE F[t] = S(n)[t]
  <2>1. t \in Trees
    BY DEF Trees
  <2>2. L(t) \in Nat /\ t \in TreesUpTo[L(t)] /\ Solution(L(t), V, B, S(L(t))) /\ Solution(n, V, B, S(n))
    BY <1>1, <1>2, <2>1
  <2>3. S(L(t))[t] = S(n)[t]
    BY <2>2, SolutionsAgree
  <2>4. QED
    BY <2>1, <2>3
<1>5. ASSUME NEW t \in Trees PROVE F[t] = B[t][Given(F, t)]
  <2>1. PICK n \in Nat : t \in TreesUpTo[n + 1] /\ TreesUpTo[n + 1] = TreesOver(TreesUpTo[n])
    BY SomeLevel
  <2>2. Components(t) \in Seq(TreesUpTo[n])
    BY <2>1, ComponentsBelow
  <2>3. \A u \in Range(Components(t)) : u \in TreesUpTo[n + 1]
    <3>1. \A u \in Range(Components(t)) : u \in TreesUpTo[n]
      BY <2>2, SeqIsFunction DEF Range
    <3>2. n + 1 \in Nat /\ n <= n + 1
      OBVIOUS
    <3>3. TreesUpTo[n] \subseteq TreesUpTo[n + 1]
      BY <3>2, LevelsGrow
    <3>4. QED
      BY <3>1, <3>3
  <2>4. n + 1 \in Nat
    OBVIOUS
  <2> DEFINE s == S(n + 1)
  <2>5. Solution(n + 1, V, B, s)
    BY <1>1, <2>4
  <2>6. \A u \in Range(Components(t)) : F[u] = s[u]
    BY <1>4, <2>3, <2>4
  <2>7. F[t] = s[t]
    BY <1>4, <2>1, <2>4
  <2> HIDE DEF F, s
  <2>8. Given(F, t) = Given(s, t)
    BY <2>6 DEF Given
  <2>9. s[t] = B[t][Given(s, t)]
    BY <2>1, <2>5 DEF Solution
  <2>10. QED
    BY <2>7, <2>8, <2>9
<1>6. F \in [Trees -> V]
  BY <1>3
<1> HIDE DEF F
<1>7. Defined(V, B, F)
  BY <1>5, <1>6 DEF Defined
<1>8. QED
  BY <1>7

\* A bound on the levels of finitely many trees.
LEMMA LevelOfSeq ==
  ASSUME Nestings = Nat, NEW s \in Seq(Trees)
  PROVE  \E m \in Nat : s \in Seq(TreesUpTo[m])
<1> DEFINE T == {k \in Nat : k <= Len(s) => \E m \in Nat : \A j \in 1..k : s[j] \in TreesUpTo[m]}
<1>0. Len(s) \in Nat /\ DOMAIN s = 1..Len(s) /\ \A k \in 1..Len(s) : s[k] \in Trees
  BY SeqIsFunction
<1>1. 0 \in T
  OBVIOUS
<1>2. ASSUME NEW k \in Nat, k \in T PROVE k + 1 \in T
  <2> SUFFICES ASSUME k + 1 <= Len(s) PROVE \E m \in Nat : \A j \in 1..(k + 1) : s[j] \in TreesUpTo[m]
    OBVIOUS
  <2>1. k <= Len(s) /\ k + 1 \in 1..Len(s)
    BY <1>0
  <2>2. PICK m \in Nat : \A j \in 1..k : s[j] \in TreesUpTo[m]
    BY <1>2, <2>1
  <2>3. PICK n \in Nat : s[k + 1] \in TreesUpTo[n]
    BY <1>0, <2>1 DEF Trees
  <2> DEFINE x == IF m <= n THEN n ELSE m
  <2>4. x \in Nat /\ m <= x /\ n <= x
    OBVIOUS
  <2> HIDE DEF x
  <2>5. TreesUpTo[m] \subseteq TreesUpTo[x] /\ TreesUpTo[n] \subseteq TreesUpTo[x]
    BY <2>4, LevelsGrow
  <2>6. ASSUME NEW j \in 1..(k + 1) PROVE s[j] \in TreesUpTo[x]
    <3>1. CASE j = k + 1
      BY <2>3, <2>5, <3>1
    <3>2. CASE j # k + 1
      <4>1. j \in 1..k
        BY <3>2
      <4>2. QED
        BY <2>2, <2>5, <4>1
    <3>3. QED
      BY <3>1, <3>2
  <2>7. QED
    BY <2>4, <2>6
<1> HIDE DEF T
<1>3. Len(s) \in T
  BY <1>0, <1>1, <1>2, AllNumbers
<1>4. PICK m \in Nat : \A j \in 1..Len(s) : s[j] \in TreesUpTo[m]
  <2>1. Len(s) <= Len(s)
    BY <1>0
  <2>2. Len(s) <= Len(s) => \E m \in Nat : \A j \in 1..Len(s) : s[j] \in TreesUpTo[m]
    BY <1>3 DEF T
  <2>3. QED
    BY <2>1, <2>2
<1> DEFINE U == TreesUpTo[m]
<1>5. s \in [1..Len(s) -> Trees]
  BY <1>0, LenProperties
<1>6. s \in [1..Len(s) -> U]
  BY <1>4, <1>5
<1> HIDE DEF U
<1>7. s \in Seq(U)
  BY <1>0, <1>6, FunctionIsSeq
<1>8. QED
  BY <1>7 DEF U

-----------------------------------------------------------------------------
(* Composites with other components.                                       *)

\* Variables are trees of every level.
LEMMA VariablesAreTrees == \A S : Variables \subseteq TreesOver(S)
BY DEF Variables, TreesOver, TermOver

\* A unit-like value with another component.
LEMMA WithUnitLikeValue ==
  ASSUME NEW R, NEW t \in TreesOver(R), t.tag = "UnitLikeValue", NEW S, NEW us \in Seq(S),
         Len(us) = Len(Components(t))
  PROVE  LET u == WithComponents(t, us)
         IN  /\ u \in TreesOver(S) /\ u.tag = t.tag /\ Components(u) = us
             /\ u.type = us[1]
             /\ us = Components(t) => u = t
<1>1. WithComponents(t, us) = UnitLikeValue(us[1])
  BY DEF WithComponents, Products
<1>2. Len(us) = 1 /\ us[1] \in S
  <2>1. Len(us) = 1
    BY ComponentsOfUnitLikeValue
  <2>2. 1 \in 1..Len(us)
    BY <2>1
  <2>3. QED
    BY <2>1, <2>2, SeqIsFunction
<1> DEFINE u == UnitLikeValue(us[1])
<1>3. u.tag = "UnitLikeValue" /\ u.type = us[1]
  BY DEF UnitLikeValue
<1>4. u \in TreesOver(S)
  BY <1>2, Built
<1>5. Components(u) \in Seq(S) /\ Len(Components(u)) = 1 /\ Components(u)[1] = us[1]
  BY <1>3, <1>4, ComponentsOfUnitLikeValue
<1>6. Components(u) = us
  BY <1>2, <1>5, SeqEqual
<1>7. ASSUME us = Components(t) PROVE u = t
  BY <1>7, ComponentsOfUnitLikeValue, IfUnitLikeValue
<1>8. QED
  BY <1>1, <1>3, <1>4, <1>6, <1>7

\* A function type with other components.
LEMMA WithFunctionType ==
  ASSUME NEW R, NEW t \in TreesOver(R), t.tag = "FunctionType", NEW S, NEW us \in Seq(S), Variables \subseteq S,
         Len(us) = Len(Components(t))
  PROVE  LET u == WithComponents(t, us)
         IN  /\ u \in TreesOver(S) /\ u.tag = t.tag /\ Components(u) = us
             /\ us = Components(t) => u = t
             /\ u.forall = t.forall
             /\ Len(u.parameter_types) = Len(t.parameter_types)
             /\ DOMAIN u.parameter_types = DOMAIN t.parameter_types
             /\ \A k \in DOMAIN t.parameter_types :
                  u.parameter_types[k].comptime = t.parameter_types[k].comptime /\ u.parameter_types[k].type = us[k]
             /\ u.return_type = us[Len(us)]
             /\ Comptimes(u) = Comptimes(t)
<1> DEFINE ps == t.parameter_types
           n == Len(ps)
           qs == [k \in DOMAIN ps |-> [ps[k] EXCEPT !.type = us[k]]]
           u == FunctionType(t.forall, qs, us[Len(us)])
<1>1. WithComponents(t, us) = u
  BY DEF WithComponents, Products
<1>2. /\ t.forall \in SUBSET R /\ ps \in Seq([type : R, comptime : SUBSET R])
      /\ t = FunctionType(t.forall, ps, t.return_type) /\ t.forall \cup Comptimes(t) \subseteq Variables
  BY IfFunctionType DEF TypesOver
<1>3. n \in Nat /\ DOMAIN ps = 1..n /\ \A k \in 1..n : ps[k] \in [type : R, comptime : SUBSET R]
  BY <1>2, SeqIsFunction
<1>4. /\ Len(us) = n + 1 /\ \A k \in 1..n : Components(t)[k] = ps[k].type
      /\ Components(t)[n + 1] = t.return_type
  BY ComponentsOfFunctionType
<1>5. DOMAIN us = 1..n + 1 /\ \A k \in 1..n + 1 : us[k] \in S
  BY <1>4, SeqIsFunction
<1>6. ASSUME NEW k \in 1..n
      PROVE  qs[k] = [type |-> us[k], comptime |-> ps[k].comptime]
  <2>1. ps[k] \in [type : R, comptime : SUBSET R] /\ k \in DOMAIN ps
    BY <1>3
  <2>2. qs[k] = [ps[k] EXCEPT !.type = us[k]]
    BY <2>1
  <2> HIDE DEF qs, ps
  <2>3. QED
    BY <2>1, <2>2
<1>7. ASSUME NEW k \in 1..n
      PROVE  us[k] \in S /\ ps[k].comptime \subseteq Variables /\ ps[k].comptime \subseteq S
  <2>1. ps[k].comptime \subseteq Comptimes(t)
    BY <1>3 DEF Comptimes, Range
  <2>2. k \in 1..n + 1
    BY <1>3
  <2>3. QED
    BY <1>2, <1>5, <2>1, <2>2
<1>8. qs \in [1..n -> [type : S, comptime : SUBSET S]]
  <2>1. ASSUME NEW k \in 1..n PROVE qs[k] \in [type : S, comptime : SUBSET S]
    <3>1. qs[k] = [type |-> us[k], comptime |-> ps[k].comptime] /\ us[k] \in S /\ ps[k].comptime \in SUBSET S
      BY <1>6, <1>7
    <3> HIDE DEF qs, ps
    <3>2. QED
      BY <3>1
  <2>2. DOMAIN qs = 1..n
    BY <1>3
  <2>3. qs = [k \in 1..n |-> qs[k]]
    BY <2>2
  <2> HIDE DEF qs
  <2>4. QED
    BY <2>1, <2>3
<1>9. Len(qs) = n /\ DOMAIN qs = 1..n /\ qs \in TypesOver(S)
  BY <1>3, <1>8, FunctionIsSeq DEF TypesOver
<1>10. UNION {p.comptime : p \in Range(qs)} = Comptimes(t)
  <2>1. \A k \in 1..n : qs[k].comptime = ps[k].comptime
    BY <1>6
  <2>2. Range(qs) = {qs[k] : k \in 1..n} /\ Range(ps) = {ps[k] : k \in 1..n}
    BY <1>3, <1>9 DEF Range
  <2>3. Comptimes(t) = UNION {p.comptime : p \in Range(ps)}
    BY DEF Comptimes
  <2> HIDE DEF qs, ps, n
  <2>4. ASSUME NEW x PROVE x \in UNION {p.comptime : p \in Range(qs)} <=> x \in UNION {p.comptime : p \in Range(ps)}
    BY <2>1, <2>2
  <2>5. QED
    BY <2>3, <2>4
<1>11. us[Len(us)] \in S /\ t.forall \in SUBSET S
  <2>1. n + 1 \in 1..n + 1
    BY <1>3
  <2>2. QED
    BY <1>2, <1>4, <1>5, <2>1
<1> HIDE DEF qs, ps, n
<1>12. u \in TreesOver(S)
  BY <1>2, <1>9, <1>10, <1>11, Built
<1>13. u.tag = "FunctionType" /\ u.forall = t.forall /\ u.parameter_types = qs /\ u.return_type = us[Len(us)]
  BY DEF FunctionType
<1> HIDE DEF u
<1>14. /\ Components(u) \in Seq(S) /\ Len(Components(u)) = n + 1
       /\ \A k \in 1..n : Components(u)[k] = qs[k].type
       /\ Components(u)[n + 1] = us[Len(us)]
  <2>1. Len(u.parameter_types) = n
    BY <1>9, <1>13
  <2>2. QED
    BY <1>12, <1>13, <2>1, ComponentsOfFunctionType
<1>15. Components(u) = us
  <2>1. ASSUME NEW k \in 1..n + 1 PROVE Components(u)[k] = us[k]
    <3>1. CASE k = n + 1
      BY <1>4, <1>14, <3>1
    <3>2. CASE k # n + 1
      <4>1. k \in 1..n
        BY <1>3, <3>2
      <4>2. qs[k].type = us[k]
        <5>1. qs[k] = [type |-> us[k], comptime |-> ps[k].comptime]
          BY <1>6, <4>1
        <5>2. QED
          BY <5>1
      <4>3. QED
        BY <1>14, <4>1, <4>2
    <3>3. QED
      BY <3>1, <3>2
  <2>2. QED
    BY <1>4, <1>14, <2>1, SeqEqual
<1>16. ASSUME us = Components(t) PROVE u = t
  <2>1. us[Len(us)] = t.return_type
    BY <1>4, <1>16
  <2>2. ASSUME NEW k \in 1..n PROVE qs[k] = ps[k]
    <3>1. ps[k] \in [type : R, comptime : SUBSET R]
      BY <1>3
    <3>2. us[k] = ps[k].type
      BY <1>4, <1>16
    <3>3. QED
      BY <1>6, <3>1, <3>2
  <2>3. ps \in [1..n -> [type : R, comptime : SUBSET R]]
    BY <1>2, LenProperties DEF n
  <2>4. qs = ps
    <3>1. DOMAIN qs = 1..n /\ DOMAIN ps = 1..n /\ qs = [k \in 1..n |-> qs[k]] /\ ps = [k \in 1..n |-> ps[k]]
      BY <1>8, <2>3
    <3>2. QED
      BY <2>2, <3>1
  <2>5. QED
    BY <1>2, <2>1, <2>4 DEF u
<1>17. Comptimes(u) = Comptimes(t)
  BY <1>10, <1>13 DEF Comptimes
<1>18. /\ Len(u.parameter_types) = Len(t.parameter_types) /\ DOMAIN u.parameter_types = DOMAIN t.parameter_types
  BY <1>3, <1>9, <1>13 DEF n, ps
<1>19. ASSUME NEW k \in DOMAIN t.parameter_types
       PROVE  u.parameter_types[k].comptime = t.parameter_types[k].comptime /\ u.parameter_types[k].type = us[k]
  <2>1. k \in 1..n
    BY <1>3 DEF ps
  <2>2. qs[k] = [type |-> us[k], comptime |-> ps[k].comptime]
    BY <1>6, <2>1
  <2>3. QED
    BY <1>13, <2>2 DEF ps
<1>20. QED
  BY <1>1, <1>12, <1>13, <1>15, <1>16, <1>17, <1>18, <1>19 DEF u

\* Other values for the members of a map.
Replaced(ms, vs) == [k \in DOMAIN ms |-> [ms[k] EXCEPT !.value = vs[k]]]
\* They are members, with the names they had.
LEMMA NewMembers ==
  ASSUME NEW R, NEW ms \in MembersOver(R), NEW S, NEW vs \in Seq(S), Len(vs) = Len(ms)
  PROVE  LET ns == Replaced(ms, vs)
         IN  /\ ns \in MembersOver(S) /\ Len(ns) = Len(ms) /\ DOMAIN ns = DOMAIN ms
             /\ \A k \in DOMAIN ms : ns[k].name = ms[k].name /\ ns[k].value = vs[k]
             /\ vs = Values(ms) => ns = ms
<1> DEFINE n == Len(ms)
           ns == Replaced(ms, vs)
<1>1. /\ n \in Nat /\ DOMAIN ms = 1..n
      /\ \A k \in 1..n : Values(ms)[k] = ms[k].value /\ ms[k] \in [name : STRING, value : R]
                                  /\ ms[k] = [name |-> ms[k].name, value |-> ms[k].value]
  BY ValuesOfMembers
<1>2. DOMAIN vs = 1..n /\ \A k \in 1..n : vs[k] \in S
  BY SeqIsFunction
<1>3. ASSUME NEW k \in 1..n PROVE ns[k] = [name |-> ms[k].name, value |-> vs[k]]
  <2>1. ns[k] = [ms[k] EXCEPT !.value = vs[k]]
    BY <1>1 DEF Replaced
  <2> HIDE DEF ns
  <2>2. ms[k] = [name |-> ms[k].name, value |-> ms[k].value]
    BY <1>1
  <2>3. QED
    BY <2>1, <2>2
<1>4. DOMAIN ns = 1..n
  BY <1>1 DEF Replaced
<1>5. ns = [k \in 1..n |-> ns[k]]
  BY <1>4 DEF Replaced
<1> HIDE DEF ns
<1>6. ASSUME NEW k \in 1..n PROVE ns[k] \in [name : STRING, value : S]
  <2>1. ns[k] = [name |-> ms[k].name, value |-> vs[k]] /\ vs[k] \in S
    BY <1>2, <1>3
  <2>2. ms[k].name \in STRING
    <3>1. ms[k] \in [name : STRING, value : R]
      BY <1>1
    <3>2. QED
      BY <3>1
  <2>3. QED
    BY <2>1, <2>2
<1>7. ns \in [1..n -> [name : STRING, value : S]]
  BY <1>5, <1>6
<1>8. ns \in Seq([name : STRING, value : S]) /\ Len(ns) = n
  BY <1>1, <1>7, FunctionIsSeq
<1>9. \A j, k \in DOMAIN ns : ns[j].name = ns[k].name => j = k
  <2>1. \A j, k \in DOMAIN ms : ms[j].name = ms[k].name => j = k
    BY DEF MembersOver
  <2>2. ASSUME NEW k \in 1..n PROVE ns[k].name = ms[k].name
    <3>1. ns[k] = [name |-> ms[k].name, value |-> vs[k]]
      BY <1>3
    <3>2. QED
      BY <3>1
  <2>3. QED
    BY <1>1, <1>4, <2>1, <2>2
<1>10. ns \in MembersOver(S)
  BY <1>8, <1>9 DEF MembersOver
<1>11. ASSUME vs = Values(ms) PROVE ns = ms
  <2>1. \A k \in 1..n : ns[k] = ms[k]
    BY <1>1, <1>3, <1>11
  <2>2. ms \in [1..n -> [name : STRING, value : R]]
    BY LenProperties DEF MembersOver
  <2>3. QED
    BY <1>7, <2>1, <2>2
<1>12. ASSUME NEW k \in 1..n PROVE ns[k].name = ms[k].name /\ ns[k].value = vs[k]
  <2>1. ns[k] = [name |-> ms[k].name, value |-> vs[k]]
    BY <1>3
  <2>2. QED
    BY <2>1
<1>13. QED
  BY <1>1, <1>4, <1>8, <1>10, <1>11, <1>12 DEF ns

\* A product type with other components.
LEMMA WithProductType ==
  ASSUME NEW R, NEW t \in TreesOver(R), t.tag = "ProductType", NEW S, NEW us \in Seq(S),
         Len(us) = Len(Components(t))
  PROVE  LET u == WithComponents(t, us)
         IN  /\ u \in TreesOver(S) /\ u.tag = t.tag /\ Components(u) = us
             /\ us = Components(t) => u = t
             /\ Len(u.members) = Len(t.members) /\ DOMAIN u.members = DOMAIN t.members
             /\ \A k \in DOMAIN t.members : u.members[k].name = t.members[k].name
<1> DEFINE ms == t.members
           ns == Replaced(ms, us)
           u == ProductType(ns)
<1>1. WithComponents(t, us) = u
  BY DEF WithComponents, Products, Replaced
<1>2. ms \in MembersOver(R) /\ t = ProductType(ms)
  BY IfProductType
<1>3. Components(t) = Values(ms) /\ Len(Components(t)) = Len(ms)
  <2>1. Components(t) = Values(ms)
    BY DEF Components, Parts, Products
  <2>2. QED
    BY <2>1, ComponentsOfProductType
<1>4. /\ ns \in MembersOver(S) /\ Len(ns) = Len(ms) /\ DOMAIN ns = DOMAIN ms
      /\ \A k \in DOMAIN ms : ns[k].name = ms[k].name /\ ns[k].value = us[k]
      /\ us = Values(ms) => ns = ms
  <2>1. Len(us) = Len(ms)
    BY <1>3
  <2> HIDE DEF ms
  <2>2. QED
    BY <1>2, <2>1, NewMembers
<1> HIDE DEF ns, ms
<1>5. u \in TreesOver(S)
  BY <1>4, Built
<1>6. u.tag = "ProductType" /\ u.members = ns
  BY DEF ProductType
<1> HIDE DEF u
<1>7. /\ Components(u) \in Seq(S) /\ Len(ns) \in Nat /\ DOMAIN ns = 1..Len(ns) /\ Len(Components(u)) = Len(ns)
      /\ \A k \in 1..Len(ns) : Components(u)[k] = ns[k].value
  BY <1>5, <1>6, ComponentsOfProductType
<1>8. Components(u) = us
  BY <1>3, <1>4, <1>7, SeqEqual
<1>9. us = Components(t) => u = t
  BY <1>2, <1>3, <1>4 DEF u
<1>10. QED
  BY <1>1, <1>4, <1>5, <1>6, <1>8, <1>9 DEF ms, u

\* A product value with other components.
LEMMA WithProductValue ==
  ASSUME NEW R, NEW t \in TreesOver(R), t.tag = "ProductValue", NEW S, NEW us \in Seq(S),
         Len(us) = Len(Components(t))
  PROVE  LET u == WithComponents(t, us)
         IN  /\ u \in TreesOver(S) /\ u.tag = t.tag /\ Components(u) = us
             /\ us = Components(t) => u = t
             /\ Len(u.members) = Len(t.members) /\ DOMAIN u.members = DOMAIN t.members
             /\ u.type = us[1]
             /\ \A k \in DOMAIN t.members : u.members[k].name = t.members[k].name
                                            /\ u.members[k].value = us[k + 1]
<1> DEFINE ms == t.members
           vs == Tail(us)
           ns == Replaced(ms, vs)
           u == ProductValue(us[1], ns)
<1>1. WithComponents(t, us) = u
  BY DEF WithComponents, Products, Replaced
<1>2. ms \in MembersOver(R) /\ t = ProductValue(t.type, ms)
  BY IfProductValue
<1>3. /\ Len(Components(t)) = Len(ms) + 1 /\ Components(t)[1] = t.type /\ Len(ms) \in Nat
      /\ \A k \in 1..Len(ms) : Components(t)[k + 1] = ms[k].value
  BY ComponentsOfProductValue
<1>4. Len(us) = Len(ms) + 1 /\ us # <<>> /\ us[1] \in S
  <2>1. Len(us) = Len(ms) + 1
    BY <1>3
  <2>2. 1 \in 1..Len(us)
    BY <1>3, <2>1
  <2>3. us[1] \in S
    BY <2>2, SeqIsFunction
  <2>4. QED
    BY <1>3, <2>1, <2>3, EmptySeq
<1>5. vs \in Seq(S) /\ Len(vs) = Len(ms) /\ \A k \in 1..Len(ms) : vs[k] = us[k + 1]
  <2>1. /\ Tail(us) \in Seq(S)
        /\ Len(Tail(us)) = Len(us)-1
        /\ \A i \in 1 .. Len(Tail(us)) : Tail(us)[i] = us[i+1]
    BY <1>4, HeadTailProperties
  <2>2. QED
    BY <1>3, <1>4, <2>1
<1> HIDE DEF vs
<1>6. /\ ns \in MembersOver(S) /\ Len(ns) = Len(ms) /\ DOMAIN ns = DOMAIN ms
      /\ \A k \in DOMAIN ms : ns[k].name = ms[k].name /\ ns[k].value = vs[k]
      /\ vs = Values(ms) => ns = ms
  <2>1. Len(vs) = Len(ms) /\ vs \in Seq(S)
    BY <1>5
  <2> HIDE DEF ms
  <2>2. QED
    BY <1>2, <2>1, NewMembers
<1> HIDE DEF ns, ms
<1>7. u \in TreesOver(S)
  BY <1>4, <1>6, Built
<1>8. u.tag = "ProductValue" /\ u.members = ns /\ u.type = us[1]
  BY DEF ProductValue
<1> HIDE DEF u
<1>9. /\ Components(u) \in Seq(S) /\ Len(ns) \in Nat /\ DOMAIN ns = 1..Len(ns) /\ Len(Components(u)) = Len(ns) + 1
      /\ Components(u)[1] = us[1]
      /\ \A k \in 1..Len(ns) : Components(u)[k + 1] = ns[k].value
  BY <1>7, <1>8, ComponentsOfProductValue
<1>10. Components(u) = us
  <2>1. ASSUME NEW k \in 1..Len(us) PROVE Components(u)[k] = us[k]
    <3>1. CASE k = 1
      BY <1>9, <3>1
    <3>2. CASE k # 1
      <4>1. k - 1 \in 1..Len(ms) /\ (k - 1) + 1 = k /\ k - 1 \in DOMAIN ms
        BY <1>3, <1>4, <1>6, <1>9, <3>2
      <4>2. ns[k - 1].value = vs[k - 1] /\ vs[k - 1] = us[(k - 1) + 1]
        BY <1>5, <1>6, <4>1
      <4>3. Components(u)[(k - 1) + 1] = ns[k - 1].value
        BY <1>6, <1>9, <4>1
      <4>4. QED
        BY <4>1, <4>2, <4>3
    <3>3. QED
      BY <3>1, <3>2
  <2>2. QED
    BY <1>4, <1>6, <1>9, <2>1, SeqEqual
<1>11. ASSUME us = Components(t) PROVE u = t
  <2>1. us[1] = t.type
    BY <1>3, <1>11
  <2>2. /\ Values(ms) \in Seq(R) /\ Len(Values(ms)) = Len(ms)
        /\ \A k \in 1..Len(ms) : Values(ms)[k] = ms[k].value
    BY <1>2, ValuesOfMembers
  <2>3. \A k \in 1..Len(ms) : vs[k] = Values(ms)[k]
    BY <1>3, <1>5, <1>11, <2>2
  <2>4. vs = Values(ms)
    <3>1. vs \in [1..Len(ms) -> S] /\ Values(ms) \in [1..Len(ms) -> R]
      BY <1>5, <2>2, LenProperties
    <3>2. vs = [k \in 1..Len(ms) |-> vs[k]] /\ Values(ms) = [k \in 1..Len(ms) |-> Values(ms)[k]]
      BY <3>1
    <3>3. QED
      BY <2>3, <3>2
  <2>5. QED
    BY <1>2, <1>6, <2>1, <2>4 DEF u
<1>12. \A k \in DOMAIN ms : u.members[k].name = ms[k].name /\ u.members[k].value = us[k + 1]
  <2>1. DOMAIN ms = 1..Len(ms)
    BY <1>6, <1>9
  <2>2. QED
    BY <1>5, <1>6, <1>8, <2>1
<1>13. QED
  BY <1>1, <1>6, <1>7, <1>8, <1>10, <1>11, <1>12 DEF ms, u

\* A composite with other components is a tree of the same kind with these components.
LEMMA WithComponentsAre ==
  ASSUME Nestings = Nat, NEW t \in Trees, t.tag \in Composites, NEW us \in Seq(Trees),
         Len(us) = Len(Components(t))
  PROVE  /\ WithComponents(t, us) \in Trees
         /\ WithComponents(t, us).tag = t.tag
         /\ Components(WithComponents(t, us)) = us
         /\ us = Components(t) => WithComponents(t, us) = t
<1>1. PICK m \in Nat : us \in Seq(TreesUpTo[m])
  BY LevelOfSeq
<1> DEFINE S == TreesUpTo[m + 1]
<1>2. m + 1 \in Nat /\ m <= m + 1
  OBVIOUS
<1>3. TreesUpTo[m] \subseteq S
  BY <1>2, LevelsGrow
<1>4. us \in Seq(S)
  BY <1>1, <1>3, SeqMonotonic
<1>5. Variables \subseteq S
  <2>1. S = TreesOver(TreesUpTo[m])
    BY LevelsAre
  <2> HIDE DEF S
  <2>2. QED
    BY <2>1, VariablesAreTrees
<1>6. TreesOver(S) \subseteq Trees
  <2>1. (m + 1) + 1 \in Nat
    OBVIOUS
  <2>2. TreesUpTo[(m + 1) + 1] = TreesOver(S)
    BY <1>2, LevelsAre
  <2>3. QED
    BY <2>1, <2>2 DEF Trees
<1>7. t \in TreesOver(Trees)
  BY TreeOverTrees
<1> HIDE DEF S
<1>8. CASE t.tag = "UnitLikeValue"
  BY <1>4, <1>6, <1>7, <1>8, WithUnitLikeValue
<1>9. CASE t.tag = "FunctionType"
  BY <1>4, <1>5, <1>6, <1>7, <1>9, WithFunctionType
<1>10. CASE t.tag = "ProductType"
  BY <1>4, <1>6, <1>7, <1>10, WithProductType
<1>11. CASE t.tag = "ProductValue"
  BY <1>4, <1>6, <1>7, <1>11, WithProductValue
<1>12. QED
  BY <1>8, <1>9, <1>10, <1>11 DEF Composites, Products

-----------------------------------------------------------------------------
(* What the recursive functions of trees are.                              *)

\* What a function of trees gives for the components.
LEMMA GivenIs ==
  ASSUME Nestings = Nat, NEW V, NEW f \in [Trees -> V], NEW t \in Trees
  PROVE  /\ Given(f, t) \in [Range(Components(t)) -> V]
         /\ \A u \in Range(Components(t)) : Given(f, t)[u] = f[u]
         /\ \A k \in DOMAIN Components(t) : Given(f, t)[Components(t)[k]] = f[Components(t)[k]]
         /\ \A u \in Range(Parts(t)) : Given(f, t)[u] = f[u]
<1>1. /\ \A k \in DOMAIN Components(t) : Components(t)[k] \in Trees
      /\ Range(Parts(t)) \subseteq Range(Components(t))
  BY ComponentsAreTrees
<1>2. Range(Components(t)) \subseteq Trees
  BY <1>1 DEF Range
<1>3. \A k \in DOMAIN Components(t) : Components(t)[k] \in Range(Components(t))
  BY DEF Range
<1>4. QED
  BY <1>1, <1>2, <1>3 DEF Given

\* What is within a tree: the tree, and what is within its components.
LEMMA WithinIs ==
  ASSUME Nestings = Nat
  PROVE  /\ Within \in [Trees -> SUBSET Trees]
         /\ \A t \in Trees : Within[t] = {t} \cup UNION {Within[u] : u \in Range(Components(t))}
<1> DEFINE V == SUBSET Trees
           B == [t \in Trees |-> [r \in [Range(Components(t)) -> V] |-> {t} \cup UNION {r[u] : u \in Range(Components(t))}]]
<1>1. ASSUME NEW t \in Trees, NEW r \in [Range(Components(t)) -> V]
      PROVE  B[t][r] = {t} \cup UNION {r[u] : u \in Range(Components(t))} /\ B[t][r] \in V
  OBVIOUS
<1> HIDE DEF B, V
<1>2. PICK f \in [Trees -> V] : \A t \in Trees : f[t] = B[t][Given(f, t)]
  <2>1. Closed(V, B)
    BY <1>1 DEF Closed
  <2>2. QED
    BY <2>1, TreeRecursion DEF Defined
<1>3. ASSUME NEW t \in Trees PROVE f[t] = {t} \cup UNION {f[u] : u \in Range(Components(t))}
  <2>1. Given(f, t) \in [Range(Components(t)) -> V] /\ \A u \in Range(Components(t)) : Given(f, t)[u] = f[u]
    BY GivenIs
  <2>2. f[t] = {t} \cup UNION {Given(f, t)[u] : u \in Range(Components(t))}
    BY <1>1, <1>2, <2>1
  <2>3. QED
    BY <2>1, <2>2
<1>4. f = [t \in Trees |-> {t} \cup UNION {f[u] : u \in Range(Components(t))}]
  BY <1>2, <1>3
<1> DEFINE Is(g) == g = [t \in Trees |-> {t} \cup UNION {g[u] : u \in Range(Components(t))}]
<1>5. Within = CHOOSE g : Is(g)
  BY DEF Within
<1>6. Is(Within)
  <2>1. Is(f)
    BY <1>4
  <2> HIDE DEF Is
  <2>2. QED
    BY <1>5, <2>1
<1>7. ASSUME NEW t \in Trees PROVE Within[t] = {t} \cup UNION {Within[u] : u \in Range(Components(t))}
  BY <1>6
<1>8. Within = [t \in Trees |-> Within[t]]
  BY <1>6
<1> DEFINE T == {t \in Trees : Within[t] \subseteq Trees}
<1> HIDE DEF Is
<1>9. ASSUME NEW t \in Trees, \A k \in DOMAIN Components(t) : Components(t)[k] \in T PROVE t \in T
  <2>1. \A u \in Range(Components(t)) : u \in T
    BY <1>9 DEF Range
  <2>2. QED
    BY <1>7, <2>1
<1> HIDE DEF T
<1>10. Trees \subseteq T
  BY <1>9, TreeInduction
<1>11. \A t \in Trees : Within[t] \in SUBSET Trees
  BY <1>10 DEF T
<1>12. QED
  BY <1>7, <1>8, <1>11

\* What is reached from a tree: the tree, and what is reached from its parts.
LEMMA ReachedIs ==
  ASSUME Nestings = Nat
  PROVE  /\ Reached \in [Trees -> SUBSET Trees]
         /\ \A t \in Trees : Reached[t] = {t} \cup UNION {Reached[u] : u \in Range(Parts(t))}
<1> DEFINE V == SUBSET Trees
           B == [t \in Trees |-> [r \in [Range(Components(t)) -> V] |-> {t} \cup UNION {r[u] : u \in Range(Parts(t))}]]
<1>1. ASSUME NEW t \in Trees, NEW r \in [Range(Components(t)) -> V]
      PROVE  B[t][r] = {t} \cup UNION {r[u] : u \in Range(Parts(t))} /\ B[t][r] \in V
  <2>1. Range(Parts(t)) \subseteq Range(Components(t))
    BY ComponentsAreTrees
  <2>2. QED
    BY <2>1
<1> HIDE DEF B, V
<1>2. PICK f \in [Trees -> V] : \A t \in Trees : f[t] = B[t][Given(f, t)]
  <2>1. Closed(V, B)
    BY <1>1 DEF Closed
  <2>2. QED
    BY <2>1, TreeRecursion DEF Defined
<1>3. ASSUME NEW t \in Trees PROVE f[t] = {t} \cup UNION {f[u] : u \in Range(Parts(t))}
  <2>1. Given(f, t) \in [Range(Components(t)) -> V] /\ \A u \in Range(Parts(t)) : Given(f, t)[u] = f[u]
    BY GivenIs
  <2>2. f[t] = {t} \cup UNION {Given(f, t)[u] : u \in Range(Parts(t))}
    BY <1>1, <1>2, <2>1
  <2>3. QED
    BY <2>1, <2>2
<1>4. f = [t \in Trees |-> {t} \cup UNION {f[u] : u \in Range(Parts(t))}]
  BY <1>2, <1>3
<1> DEFINE Is(g) == g = [t \in Trees |-> {t} \cup UNION {g[u] : u \in Range(Parts(t))}]
<1>5. Reached = CHOOSE g : Is(g)
  BY DEF Reached
<1>6. Is(Reached)
  <2>1. Is(f)
    BY <1>4
  <2> HIDE DEF Is
  <2>2. QED
    BY <1>5, <2>1
<1>7. ASSUME NEW t \in Trees PROVE Reached[t] = {t} \cup UNION {Reached[u] : u \in Range(Parts(t))}
  BY <1>6
<1>8. Reached = [t \in Trees |-> Reached[t]]
  BY <1>6
<1> DEFINE T == {t \in Trees : Reached[t] \subseteq Within[t]}
<1> HIDE DEF Is
<1>9. ASSUME NEW t \in Trees, \A k \in DOMAIN Components(t) : Components(t)[k] \in T PROVE t \in T
  <2>1. \A u \in Range(Components(t)) : u \in T
    BY <1>9 DEF Range
  <2>2. Range(Parts(t)) \subseteq Range(Components(t))
    BY ComponentsAreTrees
  <2>3. Within[t] = {t} \cup UNION {Within[u] : u \in Range(Components(t))}
    BY WithinIs
  <2>4. Reached[t] = {t} \cup UNION {Reached[u] : u \in Range(Parts(t))}
    BY <1>7
  <2>5. QED
    BY <2>1, <2>2, <2>3, <2>4 DEF T
<1> HIDE DEF T
<1>10. Trees \subseteq T
  BY <1>9, TreeInduction
<1>11. \A t \in Trees : Reached[t] \in SUBSET Trees
  BY <1>10, WithinIs DEF T
<1>12. QED
  BY <1>7, <1>8, <1>11

\* Substitution, as a function of trees.
LEMMA SubstitutedIs ==
  ASSUME Nestings = Nat, NEW D, NEW map \in [D -> Trees], NEW t \in Trees
  PROVE  /\ Substituted(map, t) \in Trees
         /\ Substituted(map, t) =
              IF t \in DOMAIN map THEN map[t]
              ELSE IF t.tag \in Composites
                   THEN WithComponents(t, [k \in DOMAIN Components(t) |-> Substituted(map, Components(t)[k])])
              ELSE t
<1> DEFINE B == [x \in Trees |-> [r \in [Range(Components(x)) -> Trees] |->
                  IF x \in DOMAIN map THEN map[x]
                  ELSE IF x.tag \in Composites
                       THEN WithComponents(x, [k \in DOMAIN Components(x) |-> r[Components(x)[k]]])
                  ELSE x]]
<1>1. ASSUME NEW x \in Trees, NEW r \in [Range(Components(x)) -> Trees] PROVE B[x][r] \in Trees
  <2>1. B[x][r] = IF x \in DOMAIN map THEN map[x]
                  ELSE IF x.tag \in Composites
                       THEN WithComponents(x, [k \in DOMAIN Components(x) |-> r[Components(x)[k]]])
                  ELSE x
    OBVIOUS
  <2> DEFINE us == [k \in DOMAIN Components(x) |-> r[Components(x)[k]]]
  <2>2. us \in Seq(Trees) /\ Len(us) = Len(Components(x))
    <3>1. Len(Components(x)) \in Nat /\ DOMAIN Components(x) = 1..Len(Components(x))
      BY ComponentsAreTrees
    <3>2. us \in [1..Len(Components(x)) -> Trees]
      BY <3>1 DEF Range
    <3> HIDE DEF us
    <3>3. QED
      BY <3>1, <3>2, FunctionIsSeq
  <2> HIDE DEF us, B
  <2>3. CASE x \in DOMAIN map
    BY <2>1, <2>3
  <2>4. CASE x \notin DOMAIN map /\ x.tag \in Composites
    <3>1. B[x][r] = WithComponents(x, us)
      BY <2>1, <2>4 DEF us
    <3>2. QED
      BY <2>2, <2>4, <3>1, WithComponentsAre
  <2>5. CASE x \notin DOMAIN map /\ x.tag \notin Composites
    BY <2>1, <2>5
  <2>6. QED
    BY <2>3, <2>4, <2>5
<1>2. ASSUME NEW x \in Trees, NEW r \in [Range(Components(x)) -> Trees]
      PROVE B[x][r] = IF x \in DOMAIN map THEN map[x]
                      ELSE IF x.tag \in Composites
                           THEN WithComponents(x, [k \in DOMAIN Components(x) |-> r[Components(x)[k]]])
                      ELSE x
  OBVIOUS
<1> HIDE DEF B
<1>3. PICK f \in [Trees -> Trees] : \A x \in Trees : f[x] = B[x][Given(f, x)]
  <2>1. Closed(Trees, B)
    BY <1>1 DEF Closed
  <2>2. QED
    BY <2>1, TreeRecursion DEF Defined
<1> DEFINE Rhs(g, x) == IF x \in DOMAIN map THEN map[x]
                        ELSE IF x.tag \in Composites
                             THEN WithComponents(x, [k \in DOMAIN Components(x) |-> g[Components(x)[k]]])
                        ELSE x
           Is(g) == g = [x \in Trees |-> Rhs(g, x)]
<1>4. ASSUME NEW x \in Trees PROVE f[x] = Rhs(f, x)
  <2>1. /\ Given(f, x) \in [Range(Components(x)) -> Trees]
        /\ \A k \in DOMAIN Components(x) : Given(f, x)[Components(x)[k]] = f[Components(x)[k]]
    BY GivenIs
  <2>2. f[x] = IF x \in DOMAIN map THEN map[x]
               ELSE IF x.tag \in Composites
                    THEN WithComponents(x, [k \in DOMAIN Components(x) |-> Given(f, x)[Components(x)[k]]])
               ELSE x
    BY <1>2, <1>3, <2>1
  <2>3. [k \in DOMAIN Components(x) |-> Given(f, x)[Components(x)[k]]] = [k \in DOMAIN Components(x) |-> f[Components(x)[k]]]
    BY <2>1
  <2>4. QED
    BY <2>2, <2>3
<1>5. Is(f)
  <2> HIDE DEF Rhs
  <2>1. QED
    BY <1>3, <1>4
<1> DEFINE s == CHOOSE g : Is(g)
<1>6. Is(s)
  BY <1>5
<1>7. \A x : Substituted(map, x) = s[x]
  BY DEF Substituted
<1> HIDE DEF s
<1>8. \A x \in Trees : s[x] = Rhs(s, x)
  <2> HIDE DEF Rhs
  <2>1. QED
    BY <1>6
<1>9. \A x \in Trees : s[x] = f[x]
  <2> DEFINE T == {x \in Trees : s[x] = f[x]}
  <2>1. ASSUME NEW x \in Trees, \A k \in DOMAIN Components(x) : Components(x)[k] \in T PROVE x \in T
    <3>1. [k \in DOMAIN Components(x) |-> s[Components(x)[k]]] = [k \in DOMAIN Components(x) |-> f[Components(x)[k]]]
      BY <2>1
    <3>2. Rhs(s, x) = Rhs(f, x)
      BY <3>1
    <3> HIDE DEF Rhs
    <3>3. QED
      BY <1>4, <1>8, <3>2
  <2> HIDE DEF T
  <2>2. Trees \subseteq T
    BY <2>1, TreeInduction
  <2>3. QED
    BY <2>2 DEF T
<1>10. Substituted(map, t) \in Trees
  BY <1>3, <1>7, <1>9
<1>11. s[t] = IF t \in DOMAIN map THEN map[t]
              ELSE IF t.tag \in Composites
                   THEN WithComponents(t, [k \in DOMAIN Components(t) |-> s[Components(t)[k]]])
              ELSE t
  BY <1>8
<1>12. [k \in DOMAIN Components(t) |-> Substituted(map, Components(t)[k])] = [k \in DOMAIN Components(t) |-> s[Components(t)[k]]]
  BY <1>7
<1>13. QED
  BY <1>7, <1>10, <1>11, <1>12

\* What a term refers to, as components, by kinds.
LEMMA FieldsAreComponents ==
  ASSUME Nestings = Nat, NEW t \in Trees
  PROVE  /\ t.tag = "UnitLikeValue" => t.type \in Range(Components(t))
         /\ t.tag = "FunctionType" =>
              /\ t.return_type \in Range(Components(t))
              /\ Len(t.parameter_types) \in Nat /\ DOMAIN t.parameter_types = 1..Len(t.parameter_types)
              /\ \A k \in DOMAIN t.parameter_types : t.parameter_types[k].type \in Range(Components(t))
         /\ t.tag \in Products =>
              /\ Len(t.members) \in Nat /\ DOMAIN t.members = 1..Len(t.members)
              /\ \A k \in DOMAIN t.members : t.members[k].value \in Range(Components(t))
         /\ t.tag = "ProductValue" => t.type \in Range(Components(t))
<1> DEFINE cs == Components(t)
<1>1. t \in TreesOver(Trees) /\ cs \in Seq(Trees) /\ DOMAIN cs = 1..Len(cs)
  BY TreeOverTrees, ComponentsAreTrees
<1>2. \A k \in 1..Len(cs) : cs[k] \in Range(cs)
  BY <1>1 DEF Range
<1>3. CASE t.tag = "UnitLikeValue"
  <2>1. Len(cs) = 1 /\ cs[1] = t.type
    BY <1>1, <1>3, ComponentsOfUnitLikeValue
  <2>2. QED
    BY <1>2, <1>3, <2>1 DEF Products
<1>4. CASE t.tag = "FunctionType"
  <2> DEFINE n == Len(t.parameter_types)
  <2>1. /\ n \in Nat /\ Len(cs) = n + 1 /\ \A k \in 1..n : cs[k] = t.parameter_types[k].type
        /\ cs[n + 1] = t.return_type
    BY <1>1, <1>4, ComponentsOfFunctionType
  <2>2. DOMAIN t.parameter_types = 1..n
    <3>1. t.parameter_types \in Seq([type : Trees, comptime : SUBSET Trees])
      BY <1>1, <1>4, IfFunctionType DEF TypesOver
    <3>2. QED
      BY <3>1, SeqIsFunction
  <2> HIDE DEF n, cs
  <2>3. n + 1 \in 1..n + 1 /\ \A k \in 1..n : k \in 1..n + 1
    BY <2>1
  <2>4. t.return_type \in Range(cs)
    BY <1>2, <2>1, <2>3
  <2>5. \A k \in DOMAIN t.parameter_types : t.parameter_types[k].type \in Range(cs)
    BY <1>2, <2>1, <2>2, <2>3
  <2>6. QED
    BY <1>4, <2>1, <2>2, <2>4, <2>5 DEF Products, n, cs
<1>5. CASE t.tag = "ProductType"
  <2>1. /\ Len(t.members) \in Nat /\ DOMAIN t.members = 1..Len(t.members) /\ Len(cs) = Len(t.members)
        /\ \A k \in 1..Len(t.members) : cs[k] = t.members[k].value
    BY <1>1, <1>5, ComponentsOfProductType
  <2> HIDE DEF cs
  <2>2. \A k \in DOMAIN t.members : t.members[k].value \in Range(cs)
    BY <1>2, <2>1
  <2>3. QED
    BY <1>5, <2>1, <2>2 DEF cs
<1>6. CASE t.tag = "ProductValue"
  <2> DEFINE n == Len(t.members)
  <2>1. /\ n \in Nat /\ DOMAIN t.members = 1..n /\ Len(cs) = n + 1 /\ cs[1] = t.type
        /\ \A k \in 1..n : cs[k + 1] = t.members[k].value
    BY <1>1, <1>6, ComponentsOfProductValue
  <2> HIDE DEF n, cs
  <2>2. 1 \in 1..n + 1 /\ \A k \in 1..n : k + 1 \in 1..n + 1
    BY <2>1
  <2>3. t.type \in Range(cs)
    BY <1>2, <2>1, <2>2
  <2>4. \A k \in DOMAIN t.members : t.members[k].value \in Range(cs)
    <3> SUFFICES ASSUME NEW k \in 1..n PROVE t.members[k].value \in Range(cs)
      BY <2>1
    <3>1. cs[k + 1] \in Range(cs)
      BY <1>2, <2>1, <2>2
    <3>2. QED
      BY <2>1, <3>1
  <2>5. QED
    BY <1>6, <2>1, <2>3, <2>4 DEF Products, n, cs
<1>7. CASE t.tag \notin {"UnitLikeValue", "FunctionType", "ProductType", "ProductValue"}
  BY <1>7 DEF Products
<1>8. QED
  BY <1>3, <1>4, <1>5, <1>6, <1>7

\* What a tree refers to are trees.
LEMMA FieldsAreTrees ==
  ASSUME Nestings = Nat, NEW t \in Trees
  PROVE  /\ t.tag = "UnitLikeValue" => t.type \in Trees
         /\ t.tag = "FunctionType" =>
              /\ t.return_type \in Trees
              /\ \A k \in DOMAIN t.parameter_types : t.parameter_types[k].type \in Trees
         /\ t.tag \in Products => \A k \in DOMAIN t.members : t.members[k].value \in Trees
         /\ t.tag = "ProductValue" => t.type \in Trees
<1>1. Range(Components(t)) \subseteq Trees
  BY ComponentsAreTrees DEF Range
<1>2. QED
  BY <1>1, FieldsAreComponents

\* Matching, with a function for what is below.
Matching(m, e, a) ==
  /\ e.tag = a.tag
  /\ CASE e.tag = "FunctionType" ->
            /\ Len(e.parameter_types) = Len(a.parameter_types)
            /\ \A k \in DOMAIN e.parameter_types :
                 /\ e.parameter_types[k].comptime = {} => a.parameter_types[k].comptime = {}
                 /\ m[e.parameter_types[k].type][a.parameter_types[k].type]
            /\ m[e.return_type][a.return_type]
       [] e.tag = "UnitLikeValue" -> m[e.type][a.type]
       [] e.tag = "ProductValue" ->
            /\ Len(e.members) = Len(a.members)
            /\ m[e.type][a.type]
            /\ \A k \in DOMAIN e.members : \E l \in DOMAIN a.members :
                 /\ e.members[k].name = a.members[l].name
                 /\ m[e.members[k].value][a.members[l].value]
       [] OTHER -> e = a

\* It looks at what is below only.
LEMMA MatchingOfComponents ==
  ASSUME Nestings = Nat, NEW e \in Trees, NEW a \in Trees, NEW m, NEW n,
         \A u \in Range(Components(e)) : \A b \in Trees : m[u][b] \in BOOLEAN /\ m[u][b] = n[u][b]
  PROVE  Matching(m, e, a) \in BOOLEAN /\ Matching(m, e, a) = Matching(n, e, a)
<1>1. CASE e.tag # a.tag
  BY <1>1 DEF Matching
<1>2. CASE e.tag = a.tag /\ e.tag = "FunctionType"
  <2>1. /\ e.return_type \in Range(Components(e)) /\ a.return_type \in Trees
        /\ Len(e.parameter_types) \in Nat /\ DOMAIN e.parameter_types = 1..Len(e.parameter_types)
        /\ DOMAIN a.parameter_types = 1..Len(a.parameter_types)
        /\ \A k \in DOMAIN e.parameter_types : e.parameter_types[k].type \in Range(Components(e))
        /\ \A k \in DOMAIN a.parameter_types : a.parameter_types[k].type \in Trees
    BY <1>2, FieldsAreComponents, FieldsAreTrees
  <2>2. QED
    BY <1>2, <2>1 DEF Matching
<1>3. CASE e.tag = a.tag /\ e.tag = "UnitLikeValue"
  <2>1. e.type \in Range(Components(e)) /\ a.type \in Trees
    BY <1>3, FieldsAreComponents, FieldsAreTrees
  <2>2. QED
    BY <1>3, <2>1 DEF Matching
<1>4. CASE e.tag = a.tag /\ e.tag = "ProductValue"
  <2>1. /\ e.type \in Range(Components(e)) /\ a.type \in Trees
        /\ \A k \in DOMAIN e.members : e.members[k].value \in Range(Components(e))
        /\ \A k \in DOMAIN a.members : a.members[k].value \in Trees
    BY <1>4, FieldsAreComponents, FieldsAreTrees DEF Products
  <2>2. ASSUME NEW k \in DOMAIN e.members, NEW l \in DOMAIN a.members
        PROVE  m[e.members[k].value][a.members[l].value] = n[e.members[k].value][a.members[l].value]
    BY <2>1
  <2>3. m[e.type][a.type] \in BOOLEAN /\ m[e.type][a.type] = n[e.type][a.type]
    BY <2>1
  <2> DEFINE P(f) == \A k \in DOMAIN e.members : \E l \in DOMAIN a.members :
                       /\ e.members[k].name = a.members[l].name
                       /\ f[e.members[k].value][a.members[l].value]
             Q(f) == Len(e.members) = Len(a.members) /\ f[e.type][a.type] /\ P(f)
  <2>4. Matching(m, e, a) = Q(m) /\ Matching(n, e, a) = Q(n)
    BY <1>4 DEF Matching
  <2>5. P(m) = P(n)
    BY <2>2
  <2> HIDE DEF P
  <2>6. QED
    BY <2>3, <2>4, <2>5
<1>5. CASE e.tag = a.tag /\ e.tag \notin {"FunctionType", "UnitLikeValue", "ProductValue"}
  BY <1>5 DEF Matching
<1>6. QED
  BY <1>1, <1>2, <1>3, <1>4, <1>5

\* What Matches says.
LEMMA MatchesIs ==
  ASSUME Nestings = Nat, NEW e \in Trees, NEW a \in Trees
  PROVE  Matches[e][a] \in BOOLEAN /\ Matches[e][a] = Matching(Matches, e, a)
<1> DEFINE V == [Trees -> BOOLEAN]
           B == [x \in Trees |-> [r \in [Range(Components(x)) -> V] |-> [y \in Trees |-> Matching(r, x, y)]]]
<1>1. ASSUME NEW x \in Trees, NEW r \in [Range(Components(x)) -> V]
      PROVE  B[x][r] = [y \in Trees |-> Matching(r, x, y)] /\ B[x][r] \in V
  <2>1. \A u \in Range(Components(x)) : \A b \in Trees : r[u][b] \in BOOLEAN /\ r[u][b] = r[u][b]
    OBVIOUS
  <2>2. \A y \in Trees : Matching(r, x, y) \in BOOLEAN
    BY <2>1, MatchingOfComponents
  <2>3. B[x][r] = [y \in Trees |-> Matching(r, x, y)]
    OBVIOUS
  <2>4. QED
    BY <2>2, <2>3
<1> HIDE DEF B
<1>2. PICK f : f \in [Trees -> V] /\ \A x \in Trees : f[x] = B[x][Given(f, x)]
  <2>1. Closed(V, B)
    BY <1>1 DEF Closed
  <2> HIDE DEF V
  <2>2. QED
    BY <2>1, TreeRecursion DEF Defined
<1>3. ASSUME NEW x \in Trees PROVE f[x] = [y \in Trees |-> Matching(f, x, y)]
  <2>1. Given(f, x) \in [Range(Components(x)) -> V] /\ \A u \in Range(Components(x)) : Given(f, x)[u] = f[u]
    <3> HIDE DEF V
    <3>1. QED
      BY <1>2, GivenIs
  <2>2. f[x] = [y \in Trees |-> Matching(Given(f, x), x, y)]
    BY <1>1, <1>2, <2>1
  <2> DEFINE g == Given(f, x)
  <2>3. \A u \in Range(Components(x)) : \A b \in Trees : g[u][b] \in BOOLEAN /\ g[u][b] = f[u][b]
    BY <2>1
  <2> HIDE DEF g
  <2>4. \A y \in Trees : Matching(g, x, y) = Matching(f, x, y)
    BY <2>3, MatchingOfComponents
  <2>5. QED
    BY <2>2, <2>4 DEF g
<1> DEFINE Is(g) == g = [x \in Trees |-> [y \in Trees |-> Matching(g, x, y)]]
<1>4. Is(f)
  BY <1>2, <1>3
<1>5. Matches = CHOOSE g : Is(g)
  BY DEF Matches, Matching
<1>6. Is(Matches)
  <2> HIDE DEF Is
  <2>1. QED
    BY <1>4, <1>5
<1>7. \A x, y \in Trees : Matches[x][y] = Matching(Matches, x, y)
  BY <1>6
<1> DEFINE T == {x \in Trees : \A y \in Trees : Matches[x][y] \in BOOLEAN}
<1>8. ASSUME NEW x \in Trees, \A k \in DOMAIN Components(x) : Components(x)[k] \in T PROVE x \in T
  <2>1. \A u \in Range(Components(x)) : \A b \in Trees : Matches[u][b] \in BOOLEAN /\ Matches[u][b] = Matches[u][b]
    BY <1>8 DEF Range
  <2>2. \A y \in Trees : Matching(Matches, x, y) \in BOOLEAN
    BY <2>1, MatchingOfComponents
  <2>3. QED
    BY <1>7, <2>2
<1> HIDE DEF T
<1>9. Trees \subseteq T
  BY <1>8, TreeInduction
<1>10. QED
  BY <1>7, <1>9 DEF T

\* Records with one field replaced.
LEMMA ExceptField ==
  /\ \A a, b, c : [[name |-> a, value |-> b] EXCEPT !.value = c] = [name |-> a, value |-> c]
  /\ \A a, b, c : [[type |-> a, comptime |-> b] EXCEPT !.type = c] = [type |-> c, comptime |-> b]
OBVIOUS

\* The components of a composite can be replaced twice.
LEMMA WithComponentsTwice ==
  ASSUME Nestings = Nat, NEW t \in Trees, t.tag \in Composites, NEW us \in Seq(Trees), NEW ws \in Seq(Trees),
         Len(us) = Len(Components(t)), Len(ws) = Len(Components(t))
  PROVE  WithComponents(WithComponents(t, us), ws) = WithComponents(t, ws)
<1>0. t \in TreesOver(Trees)
  BY TreeOverTrees
<1>1. CASE t.tag = "UnitLikeValue"
  BY <1>1 DEF WithComponents, UnitLikeValue
<1>2. CASE t.tag = "FunctionType"
  <2> DEFINE ps == t.parameter_types
             qs == [k \in DOMAIN ps |-> [ps[k] EXCEPT !.type = us[k]]]
             rs == [k \in DOMAIN ps |-> [ps[k] EXCEPT !.type = ws[k]]]
             u == FunctionType(t.forall, qs, us[Len(us)])
             xs == [k \in DOMAIN qs |-> [qs[k] EXCEPT !.type = ws[k]]]
  <2>1. WithComponents(t, us) = u /\ WithComponents(t, ws) = FunctionType(t.forall, rs, ws[Len(ws)])
    BY <1>2 DEF WithComponents
  <2>2. u.tag = "FunctionType" /\ u.forall = t.forall /\ u.parameter_types = qs
    BY DEF FunctionType
  <2>3. WithComponents(u, ws) = FunctionType(t.forall, xs, ws[Len(ws)])
    <3> HIDE DEF u, qs
    <3>1. QED
      BY <2>2 DEF WithComponents
  <2>4. ps \in Seq([type : Trees, comptime : SUBSET Trees])
    BY <1>0, <1>2, IfFunctionType DEF TypesOver
  <2>5. \A k \in DOMAIN ps : ps[k] \in [type : Trees, comptime : SUBSET Trees]
    BY <2>4, SeqIsFunction
  <2> HIDE DEF ps
  <2>6. DOMAIN qs = DOMAIN ps
    OBVIOUS
  <2>7. ASSUME NEW k \in DOMAIN ps PROVE [qs[k] EXCEPT !.type = ws[k]] = [ps[k] EXCEPT !.type = ws[k]]
    <3>1. qs[k] = [ps[k] EXCEPT !.type = us[k]] /\ ps[k] \in [type : Trees, comptime : SUBSET Trees]
      BY <2>5
    <3> HIDE DEF qs
    <3>2. [ps[k] EXCEPT !.type = us[k]] = [type |-> us[k], comptime |-> ps[k].comptime]
      BY <3>1
    <3>3. qs[k] = [type |-> us[k], comptime |-> ps[k].comptime] /\ ps[k] = [type |-> ps[k].type, comptime |-> ps[k].comptime]
      BY <3>1, <3>2
    <3>4. QED
      BY <3>3, ExceptField
  <2> HIDE DEF qs
  <2>8. xs = rs
    BY <2>6, <2>7
  <2>9. QED
    BY <2>1, <2>3, <2>8
<1> DEFINE ms == t.members
           Single(vs) == [k \in DOMAIN ms |-> [ms[k] EXCEPT !.value = vs[k]]]
<1>3. ASSUME t.tag \in Products, NEW vs, NEW xs
      PROVE  [k \in DOMAIN Single(vs) |-> [Single(vs)[k] EXCEPT !.value = xs[k]]] = Single(xs)
  <2>1. ms \in Seq([name : STRING, value : Trees])
    BY <1>0, <1>3, IfProductType, IfProductValue DEF MembersOver, Products
  <2>2. \A k \in DOMAIN ms : ms[k] \in [name : STRING, value : Trees]
    BY <2>1, SeqIsFunction
  <2> DEFINE ns == Single(vs)
  <2> HIDE DEF ms
  <2>3. DOMAIN ns = DOMAIN ms
    OBVIOUS
  <2>4. ASSUME NEW k \in DOMAIN ms PROVE [ns[k] EXCEPT !.value = xs[k]] = [ms[k] EXCEPT !.value = xs[k]]
    <3>1. ns[k] = [ms[k] EXCEPT !.value = vs[k]] /\ ms[k] \in [name : STRING, value : Trees]
      BY <2>2
    <3> HIDE DEF ns
    <3>2. [ms[k] EXCEPT !.value = vs[k]] = [name |-> ms[k].name, value |-> vs[k]]
      BY <3>1
    <3>3. ns[k] = [name |-> ms[k].name, value |-> vs[k]] /\ ms[k] = [name |-> ms[k].name, value |-> ms[k].value]
      BY <3>1, <3>2
    <3>4. QED
      BY <3>3, ExceptField
  <2>5. QED
    BY <2>3, <2>4
<1>4. CASE t.tag = "ProductType"
  <2> DEFINE u == ProductType(Single(us))
  <2>1. WithComponents(t, us) = u /\ WithComponents(t, ws) = ProductType(Single(ws))
    BY <1>4 DEF WithComponents
  <2>2. u.tag = "ProductType" /\ u.members = Single(us)
    BY DEF ProductType
  <2>3. WithComponents(u, ws) = ProductType([k \in DOMAIN Single(us) |-> [Single(us)[k] EXCEPT !.value = ws[k]]])
    <3> HIDE DEF u, Single
    <3>1. QED
      BY <2>2 DEF WithComponents
  <2>4. [k \in DOMAIN Single(us) |-> [Single(us)[k] EXCEPT !.value = ws[k]]] = Single(ws)
    BY <1>3, <1>4 DEF Products
  <2>5. QED
    BY <2>1, <2>3, <2>4
<1>5. CASE t.tag = "ProductValue"
  <2> DEFINE u == ProductValue(us[1], Single(Tail(us)))
             ns == Single(Tail(us))
  <2>1. WithComponents(t, us) = u /\ WithComponents(t, ws) = ProductValue(ws[1], Single(Tail(ws)))
    BY <1>5 DEF WithComponents
  <2>2. u.tag = "ProductValue" /\ u.members = ns
    BY DEF ProductValue
  <2>3. WithComponents(u, ws) = ProductValue(ws[1], [k \in DOMAIN ns |-> [ns[k] EXCEPT !.value = Tail(ws)[k]]])
    <3> HIDE DEF u, ns, Single
    <3>1. QED
      BY <2>2 DEF WithComponents
  <2>4. [k \in DOMAIN ns |-> [ns[k] EXCEPT !.value = Tail(ws)[k]]] = Single(Tail(ws))
    BY <1>3, <1>5 DEF Products
  <2>5. QED
    BY <2>1, <2>3, <2>4
<1>6. QED
  BY <1>1, <1>2, <1>4, <1>5 DEF Composites, Products

-----------------------------------------------------------------------------
(* Evaluation.                                                             *)

\* A set of numbers that is not empty has a smallest one.
LEMMA Least ==
  ASSUME NEW S, S \subseteq Nat, S # {}
  PROVE  \E k \in S : \A l \in S : k <= l
<1> DEFINE R == OpToRel(<, Nat)
<1>1. IsWellFoundedOn(R, Nat)
  BY NatLessThanWellFounded
<1>2. \A x, y \in Nat : <<x, y>> \in R <=> x < y
  BY DEF OpToRel
<1> HIDE DEF R
<1>3. PICK k \in S : \A l \in S : ~ (<<l, k>> \in R)
  BY <1>1, WFMin
<1>4. ASSUME NEW l \in S PROVE k <= l
  <2>1. k \in Nat /\ l \in Nat /\ ~ (<<l, k>> \in R)
    BY <1>3
  <2>2. ~(l < k)
    BY <1>2, <2>1
  <2>3. QED
    BY <2>1, <2>2
<1>5. QED
  BY <1>4

\* The components of a term, each with what it evaluates to.
OfComponents(f, t) == [k \in DOMAIN Components(t) |-> f[Components(t)[k]]]
Fails(t, chain, part, k) == part[k].how # "value" \/ AssertionFails(t, chain, part, k)
Failed(t, chain, part) == {k \in DOMAIN part : Fails(t, chain, part, k)}
Becoming(part) == [k \in DOMAIN part |-> part[k].term]

\* The outcomes of an evaluation.
LEMMA OutcomeIs ==
  \A o \in Outcomes : /\ o.how \in {"value", "aborted", "nullopt", "forever"}
                      /\ o.how = "value" => o.term \in Trees /\ o = Value(o.term)
BY DEF Outcomes, Value

\* A composite becomes a value of what its components become, or fails as the first
\* component does that fails.
LEMMA CompositeIs ==
  ASSUME Nestings = Nat, NEW t \in Trees, t.tag \in Composites, NEW chain,
         NEW part \in [DOMAIN Components(t) -> Outcomes]
  PROVE  /\ EvaluateComposite(t, chain, part) \in Outcomes
         /\ EvaluateComposite(t, chain, part).how = "value" =>
              /\ Failed(t, chain, part) = {}
              /\ \A k \in DOMAIN Components(t) : part[k].how = "value" /\ part[k].term \in Trees
              /\ Becoming(part) \in Seq(Trees) /\ Len(Becoming(part)) = Len(Components(t))
              /\ EvaluateComposite(t, chain, part) = Value(WithComponents(t, Becoming(part)))
         /\ EvaluateComposite(t, chain, part).how \notin {"value", "aborted"} =>
              \E k \in DOMAIN Components(t) : /\ part[k].how = EvaluateComposite(t, chain, part).how
                                              /\ \A l \in 1..(k - 1) : l \notin Failed(t, chain, part)
         /\ EvaluateComposite(t, chain, part).how = "aborted" =>
              \/ (t.tag = "FunctionType" /\ \E v \in t.forall : IsBound(chain, v))
              \/ \E k \in DOMAIN Components(t) :
                   /\ part[k].how = "aborted" \/ (part[k].how = "value" /\ AssertionFails(t, chain, part, k))
                   /\ \A l \in 1..(k - 1) : l \notin Failed(t, chain, part)
<1> DEFINE failed == Failed(t, chain, part)
           first == CHOOSE k \in failed : \A l \in failed : k <= l
           c == EvaluateComposite(t, chain, part)
<1>1. c = IF t.tag = "FunctionType" /\ \E v \in t.forall : IsBound(chain, v) THEN Aborted
          ELSE IF failed = {} THEN Value(WithComponents(t, Becoming(part)))
          ELSE IF part[first].how = "value" THEN Aborted ELSE part[first]
  BY DEF EvaluateComposite, Failed, Fails, Becoming
<1>2. /\ Len(Components(t)) \in Nat /\ DOMAIN Components(t) = 1..Len(Components(t)) /\ DOMAIN part = DOMAIN Components(t)
  BY ComponentsAreTrees
<1>3. failed \subseteq DOMAIN part /\ failed \subseteq Nat
  BY <1>2 DEF Failed
<1>4. ASSUME failed # {} PROVE first \in failed /\ \A l \in failed : first <= l
  BY <1>3, <1>4, Least
<1>5. ASSUME failed # {} PROVE first \in DOMAIN Components(t) /\ \A l \in 1..(first - 1) : l \notin failed
  <2>1. first \in failed /\ \A l \in failed : first <= l
    BY <1>4, <1>5
  <2>2. first \in DOMAIN Components(t) /\ first \in Nat
    BY <1>2, <1>3, <2>1
  <2> HIDE DEF first, failed
  <2>3. QED
    BY <2>1, <2>2
<1>6. Aborted \in Outcomes /\ Aborted.how = "aborted"
  BY DEF Aborted, Outcomes
<1>7. ASSUME failed = {}
      PROVE  /\ \A k \in DOMAIN Components(t) : part[k].how = "value" /\ part[k].term \in Trees
             /\ Becoming(part) \in Seq(Trees) /\ Len(Becoming(part)) = Len(Components(t))
             /\ Value(WithComponents(t, Becoming(part))) \in Outcomes
             /\ Value(WithComponents(t, Becoming(part))).how = "value"
  <2>1. \A k \in DOMAIN Components(t) : part[k].how = "value"
    BY <1>2, <1>7 DEF Failed, Fails
  <2>2. \A k \in DOMAIN Components(t) : part[k].term \in Trees
    BY <2>1, OutcomeIs
  <2>3. Becoming(part) \in [1..Len(Components(t)) -> Trees]
    BY <1>2, <2>2 DEF Becoming
  <2>4. Becoming(part) \in Seq(Trees) /\ Len(Becoming(part)) = Len(Components(t))
    BY <1>2, <2>3, FunctionIsSeq
  <2>5. WithComponents(t, Becoming(part)) \in Trees
    BY <2>4, WithComponentsAre
  <2>6. Value(WithComponents(t, Becoming(part))) \in Outcomes /\ Value(WithComponents(t, Becoming(part))).how = "value"
    BY <2>5 DEF Value, Outcomes
  <2>7. QED
    BY <2>1, <2>2, <2>4, <2>6
<1> HIDE DEF first, failed, c
<1>8. CASE t.tag = "FunctionType" /\ \E v \in t.forall : IsBound(chain, v)
  BY <1>1, <1>6, <1>8 DEF c
<1>9. CASE ~(t.tag = "FunctionType" /\ \E v \in t.forall : IsBound(chain, v)) /\ failed = {}
  BY <1>1, <1>7, <1>9 DEF c, failed
<1>10. CASE ~(t.tag = "FunctionType" /\ \E v \in t.forall : IsBound(chain, v)) /\ failed # {}
  <2>1. first \in DOMAIN Components(t) /\ (\A l \in 1..(first - 1) : l \notin failed) /\ first \in failed
    BY <1>4, <1>5, <1>10
  <2>2. part[first] \in Outcomes
    BY <2>1
  <2>3. CASE part[first].how = "value"
    <3>1. c = Aborted
      BY <1>1, <1>10, <2>3
    <3>2. AssertionFails(t, chain, part, first)
      BY <2>1, <2>3 DEF failed, Failed, Fails
    <3>3. QED
      BY <1>6, <2>1, <2>3, <3>1, <3>2 DEF c, failed
  <2>4. CASE part[first].how # "value"
    <3>1. c = part[first]
      BY <1>1, <1>10, <2>4
    <3>2. c \in Outcomes /\ c.how # "value"
      BY <2>2, <2>4, <3>1
    <3>3. first \in DOMAIN Components(t) /\ part[first].how = c.how /\ \A l \in 1..(first - 1) : l \notin failed
      BY <2>1, <3>1
    <3>4. \E k \in DOMAIN Components(t) : part[k].how = c.how /\ \A l \in 1..(k - 1) : l \notin failed
      BY <3>3
    <3>5. ASSUME c.how = "aborted"
          PROVE  \E k \in DOMAIN Components(t) :
                   /\ part[k].how = "aborted" \/ (part[k].how = "value" /\ AssertionFails(t, chain, part, k))
                   /\ \A l \in 1..(k - 1) : l \notin failed
      BY <3>4, <3>5
    <3>6. QED
      BY <3>2, <3>4, <3>5 DEF c, failed
  <2>5. QED
    BY <2>3, <2>4
<1>11. QED
  BY <1>8, <1>9, <1>10

\* A term of each kind.
LEMMA TermIs ==
  ASSUME Nestings = Nat, NEW t \in Trees, NEW chain, NEW again,
         NEW part \in [DOMAIN Components(t) -> Outcomes],
         t.tag = "Variable" /\ IsBound(chain, t) => again \in Outcomes
  PROVE  LET o == EvaluateTerm(t, chain, part, again)
         IN  /\ o \in Outcomes
             /\ t.tag = "Variable" => o = IF ~IsBound(chain, t) \/ LookUp(chain, t).tag = "DeferredValue" THEN Aborted ELSE again
             /\ t.tag = "Application" => o.how # "value"
             /\ t.tag = "DeferredValue" => o = Aborted
             /\ t.tag \in Composites => o = EvaluateComposite(t, chain, part)
             /\ t.tag \notin Composites \cup {"Variable", "Application", "DeferredValue"} => o = Value(t)
<1> DEFINE o == EvaluateTerm(t, chain, part, again)
<1>1. Aborted \in Outcomes /\ Aborted.how = "aborted" /\ [how |-> "nullopt"] \in Outcomes
  BY DEF Aborted, Outcomes
<1>2. CASE t.tag = "Variable"
  <2>1. o = IF ~IsBound(chain, t) THEN Aborted ELSE IF LookUp(chain, t).tag = "DeferredValue" THEN Aborted ELSE again
    BY <1>2 DEF EvaluateTerm, Composites, Products
  <2>2. QED
    BY <1>1, <1>2, <2>1 DEF Composites, Products
<1>3. CASE t.tag = "Application"
  <2>1. o = IF t.arguments = <<>> THEN Aborted
            ELSE IF part[1].how # "value" THEN part[1]
            ELSE IF part[1].term.tag = "Abstraction" THEN Aborted ELSE [how |-> "nullopt"]
    BY <1>3 DEF EvaluateTerm, Composites, Products
  <2>2. part[1] \in Outcomes
    <3>1. t \in TreesOver(Trees)
      BY TreeOverTrees
    <3>2. Len(Components(t)) = Len(t.arguments) + 1 /\ t.arguments \in Seq(Trees) /\ Components(t) \in Seq(Trees)
      BY <1>3, <3>1, ComponentsOfApplication, IfApplication
    <3>3. Len(t.arguments) \in Nat /\ DOMAIN Components(t) = 1..Len(Components(t))
      BY <3>2, SeqIsFunction
    <3>4. 1 \in DOMAIN Components(t)
      BY <3>2, <3>3
    <3>5. QED
      BY <3>4
  <2>3. [how |-> "nullopt"].how # "value"
    OBVIOUS
  <2> HIDE DEF o
  <2>4. o \in Outcomes /\ o.how # "value"
    BY <1>1, <2>1, <2>2, <2>3
  <2>5. QED
    BY <1>3, <2>4 DEF Composites, Products, o
<1>4. CASE t.tag = "DeferredValue"
  <2>1. o = Aborted
    BY <1>4 DEF EvaluateTerm, Composites, Products
  <2>2. QED
    BY <1>1, <1>4, <2>1 DEF Composites, Products
<1>5. CASE t.tag \in Composites
  <2>1. o = EvaluateComposite(t, chain, part)
    BY <1>5 DEF EvaluateTerm, Composites, Products
  <2>2. o \in Outcomes
    BY <1>5, <2>1, CompositeIs
  <2> HIDE DEF o
  <2>3. QED
    BY <1>5, <2>1, <2>2 DEF Composites, Products, o
<1>6. CASE t.tag \notin Composites \cup {"Variable", "Application", "DeferredValue"}
  <2>1. o = Value(t)
    BY <1>6 DEF EvaluateTerm, Composites, Products
  <2>2. Value(t) \in Outcomes
    BY DEF Value, Outcomes
  <2>3. QED
    BY <1>6, <2>1, <2>2 DEF Composites, Products
<1>7. QED
  BY <1>2, <1>3, <1>4, <1>5, <1>6

\* What all terms evaluate to.
LEMMA EvaluationsAre ==
  ASSUME Nestings = Nat, NEW chain, NEW again,
         \A t \in Trees : t.tag = "Variable" /\ IsBound(chain, t) => again[t] \in Outcomes
  PROVE  /\ Evaluations(chain, again) \in [Trees -> Outcomes]
         /\ \A t \in Trees : /\ OfComponents(Evaluations(chain, again), t) \in [DOMAIN Components(t) -> Outcomes]
                             /\ Evaluations(chain, again)[t] =
                                  EvaluateTerm(t, chain, OfComponents(Evaluations(chain, again), t), again[t])
<1> DEFINE B == [t \in Trees |-> [r \in [Range(Components(t)) -> Outcomes] |-> EvaluateTerm(t, chain, OfComponents(r, t), again[t])]]
<1>1. ASSUME NEW t \in Trees, NEW r \in [Range(Components(t)) -> Outcomes]
      PROVE  B[t][r] = EvaluateTerm(t, chain, OfComponents(r, t), again[t]) /\ B[t][r] \in Outcomes
  <2>1. OfComponents(r, t) \in [DOMAIN Components(t) -> Outcomes]
    BY DEF OfComponents, Range
  <2>2. EvaluateTerm(t, chain, OfComponents(r, t), again[t]) \in Outcomes
    BY <2>1, TermIs
  <2>3. B[t][r] = EvaluateTerm(t, chain, OfComponents(r, t), again[t])
    OBVIOUS
  <2>4. QED
    BY <2>2, <2>3
<1> HIDE DEF B
<1>2. PICK f : f \in [Trees -> Outcomes] /\ \A t \in Trees : f[t] = B[t][Given(f, t)]
  <2>1. Closed(Outcomes, B)
    BY <1>1 DEF Closed
  <2>2. QED
    BY <2>1, TreeRecursion DEF Defined
<1>3. ASSUME NEW t \in Trees PROVE f[t] = EvaluateTerm(t, chain, OfComponents(f, t), again[t])
  <2>1. /\ Given(f, t) \in [Range(Components(t)) -> Outcomes]
        /\ \A k \in DOMAIN Components(t) : Given(f, t)[Components(t)[k]] = f[Components(t)[k]]
    BY <1>2, GivenIs
  <2>2. OfComponents(Given(f, t), t) = OfComponents(f, t)
    BY <2>1 DEF OfComponents
  <2>3. QED
    BY <1>1, <1>2, <2>1, <2>2
<1> DEFINE Is(g) == g = [t \in Trees |-> EvaluateTerm(t, chain, OfComponents(g, t), again[t])]
           e == Evaluations(chain, again)
<1>4. Is(f)
  BY <1>2, <1>3
<1>5. e = CHOOSE g : Is(g)
  BY DEF Evaluations, OfComponents
<1> HIDE DEF e
<1>6. Is(e)
  <2> HIDE DEF Is
  <2>1. QED
    BY <1>4, <1>5
<1>7. \A t \in Trees : e[t] = EvaluateTerm(t, chain, OfComponents(e, t), again[t])
  BY <1>6
<1>8. e = [t \in Trees |-> e[t]]
  BY <1>6
<1> DEFINE T == {t \in Trees : e[t] \in Outcomes}
<1>9. ASSUME NEW t \in Trees, \A k \in DOMAIN Components(t) : Components(t)[k] \in T PROVE t \in T
  <2>1. OfComponents(e, t) \in [DOMAIN Components(t) -> Outcomes]
    BY <1>9 DEF OfComponents
  <2> HIDE DEF Is
  <2>2. EvaluateTerm(t, chain, OfComponents(e, t), again[t]) \in Outcomes
    BY <2>1, TermIs
  <2>3. QED
    BY <1>7, <2>2
<1> HIDE DEF T, Is
<1>10. Trees \subseteq T
  BY <1>9, TreeInduction
<1>11. \A t \in Trees : e[t] \in Outcomes
  BY <1>10 DEF T
<1>12. ASSUME NEW t \in Trees PROVE OfComponents(e, t) \in [DOMAIN Components(t) -> Outcomes]
  <2>1. \A k \in DOMAIN Components(t) : Components(t)[k] \in Trees
    BY ComponentsAreTrees
  <2>2. QED
    BY <1>11, <2>1 DEF OfComponents
<1>13. QED
  BY <1>7, <1>8, <1>11, <1>12 DEF e

\* The values of variables, with so many lookups inside each other.
Again(chain, f) ==
  f = [lookups \in Nat |->
        [v \in BoundIn(chain) |->
          IF lookups = 0 THEN [how |-> "forever"] ELSE Evaluations(chain, f[lookups - 1])[LookUp(chain, v)]]]

\* Evaluation is evaluation given the values of the variables.
LEMMA EvaluateIs ==
  ASSUME NEW chain
  PROVE  \E f : /\ Again(chain, f)
                /\ \A t : Evaluate(t, chain) = Evaluations(chain, f[Cardinality(BoundIn(chain))])[t]
<1> DEFINE w == [is |-> "again", chain |-> chain]
<1>1. PICK f : f = [n \in Nat |-> Of(w, n, Below(f, n))]
  BY NumberRecursion
<1>2. w.is = "again" /\ w.chain = chain
  OBVIOUS
<1> HIDE DEF w
<1>3. ASSUME NEW n \in Nat
      PROVE  Of(w, n, Below(f, n)) =
               [v \in BoundIn(chain) |->
                  IF n = 0 THEN [how |-> "forever"] ELSE Evaluations(chain, f[n - 1])[LookUp(chain, v)]]
  <2>1. Of(w, n, Below(f, n)) =
          [v \in BoundIn(chain) |->
             IF n = 0 THEN [how |-> "forever"] ELSE Evaluations(chain, Below(f, n))[LookUp(chain, v)]]
    BY <1>2 DEF Of
  <2>2. n # 0 => Below(f, n) = f[n - 1]
    BY DEF Below
  <2>3. QED
    BY <2>1, <2>2
<1>4. Again(chain, f)
  BY <1>1, <1>3 DEF Again
<1> DEFINE g == CHOOSE h : Again(chain, h)
<1>5. Again(chain, g)
  BY <1>4
<1>6. \A t : Evaluate(t, chain) = Evaluations(chain, g[Cardinality(BoundIn(chain))])[t]
  BY DEF Evaluate, Again
<1> HIDE DEF g
<1>7. QED
  BY <1>5, <1>6

\* The contexts of a call: the parent's and the inner one.
IsChain(c) ==
  /\ DOMAIN c = 1..2 /\ Len(c) = 2
  /\ \A k \in 1..2 : /\ DOMAIN c[k] \subseteq Variables /\ IsFiniteSet(DOMAIN c[k])
                     /\ c[k] \in [DOMAIN c[k] -> Trees]

\* What a chain of contexts binds.
LEMMA ChainIs ==
  ASSUME NEW c, IsChain(c)
  PROVE  /\ BoundIn(c) = DOMAIN c[1] \cup DOMAIN c[2]
         /\ IsFiniteSet(BoundIn(c)) /\ Cardinality(BoundIn(c)) \in Nat
         /\ BoundIn(c) \subseteq Variables
         /\ \A v : IsBound(c, v) <=> v \in BoundIn(c)
         /\ \A v \in BoundIn(c) : LookUp(c, v) \in Trees
         /\ \A v \in DOMAIN c[2] : LookUp(c, v) = c[2][v]
         /\ \A v \in DOMAIN c[1] : v \notin DOMAIN c[2] => LookUp(c, v) = c[1][v]
<1>1. BoundIn(c) = DOMAIN c[1] \cup DOMAIN c[2]
  <2>1. DOMAIN c = {1, 2}
    BY DEF IsChain
  <2>2. QED
    BY <2>1 DEF BoundIn
<1>2. \A v : IsBound(c, v) <=> v \in BoundIn(c)
  BY DEF IsBound, BoundIn
<1>3. IsFiniteSet(BoundIn(c))
  <2>1. IsFiniteSet(DOMAIN c[1]) /\ IsFiniteSet(DOMAIN c[2])
    BY DEF IsChain
  <2>2. QED
    BY <1>1, <2>1, FS_Union
<1>4. Cardinality(BoundIn(c)) \in Nat
  BY <1>3, FS_CardinalityType
<1>5. BoundIn(c) \subseteq Variables
  BY <1>1 DEF IsChain
<1>6. ASSUME NEW v, NEW k \in 1..2, v \in DOMAIN c[k], \A l \in (k + 1)..2 : v \notin DOMAIN c[l]
      PROVE  LookUp(c, v) = c[k][v]
  <2> DEFINE Inner(j) == v \in DOMAIN c[j] /\ \A l \in (j + 1)..Len(c) : v \notin DOMAIN c[l]
             j0 == CHOOSE j \in DOMAIN c : Inner(j)
  <2>1. LookUp(c, v) = c[j0][v]
    BY DEF LookUp
  <2>2. DOMAIN c = 1..2 /\ Len(c) = 2
    BY DEF IsChain
  <2>3. k \in DOMAIN c /\ Inner(k)
    BY <1>6, <2>2
  <2>4. j0 \in DOMAIN c /\ Inner(j0)
    <3> HIDE DEF Inner
    <3>1. QED
      BY <2>3
  <2> HIDE DEF j0
  <2>5. j0 = k
    BY <1>6, <2>2, <2>4
  <2>6. QED
    BY <2>1, <2>5
<1>7. ASSUME NEW v \in DOMAIN c[2] PROVE LookUp(c, v) = c[2][v]
  BY <1>6
<1>8. ASSUME NEW v \in DOMAIN c[1], v \notin DOMAIN c[2] PROVE LookUp(c, v) = c[1][v]
  <2>1. \A l \in (1 + 1)..2 : l = 2
    OBVIOUS
  <2>2. \A l \in (1 + 1)..2 : v \notin DOMAIN c[l]
    BY <1>8, <2>1
  <2>3. QED
    BY <1>6, <2>2
<1>9. ASSUME NEW v \in BoundIn(c) PROVE LookUp(c, v) \in Trees
  BY <1>1, <1>7, <1>8 DEF IsChain
<1>10. QED
  BY <1>1, <1>2, <1>3, <1>4, <1>5, <1>7, <1>8, <1>9

\* Trees all of whose components are of R, and what their variables are bound to.
ClosedIn(c, R) ==
  /\ R \subseteq Trees
  /\ \A t \in R : \A k \in DOMAIN Components(t) : Components(t)[k] \in R
  /\ \A v \in R : v \in BoundIn(c) => LookUp(c, v) \in R

\* One step of evaluation keeps terms and outcomes together.
KeptBy(c, R, Good) ==
  /\ \A t \in R : \A part \in [DOMAIN Components(t) -> Outcomes], again \in Outcomes :
       /\ \A k \in DOMAIN Components(t) : <<Components(t)[k], part[k]>> \in Good
       /\ t \in BoundIn(c) => <<t, again>> \in Good
       => <<t, EvaluateTerm(t, c, part, again)>> \in Good
  /\ \A v \in R \cap BoundIn(c) : <<v, [how |-> "forever"]>> \in Good
  /\ \A v \in R \cap BoundIn(c) : \A o \in Outcomes : <<LookUp(c, v), o>> \in Good => <<v, o>> \in Good

\* Induction over an evaluation.
LEMMA EvaluateInduction ==
  ASSUME Nestings = Nat, NEW c, IsChain(c), NEW R, ClosedIn(c, R), NEW Good, KeptBy(c, R, Good), NEW t \in R
  PROVE  /\ Evaluate(t, c) \in Outcomes
         /\ <<t, Evaluate(t, c)>> \in Good
<1>1. PICK f : /\ Again(c, f)
               /\ \A x : Evaluate(x, c) = Evaluations(c, f[Cardinality(BoundIn(c))])[x]
  BY EvaluateIs
<1> DEFINE Outcome(g) == \A v \in BoundIn(c) : g[v] \in Outcomes /\ (v \in R => <<v, g[v]>> \in Good)
<1>2. /\ BoundIn(c) \subseteq Variables /\ (\A v : IsBound(c, v) <=> v \in BoundIn(c))
      /\ \A v \in BoundIn(c) : LookUp(c, v) \in Trees
      /\ Cardinality(BoundIn(c)) \in Nat
  BY ChainIs
<1>3. ASSUME NEW g, Outcome(g)
      PROVE  /\ Evaluations(c, g) \in [Trees -> Outcomes]
             /\ \A x \in R : <<x, Evaluations(c, g)[x]>> \in Good
  <2>1. \A x \in Trees : x.tag = "Variable" /\ IsBound(c, x) => g[x] \in Outcomes
    BY <1>2, <1>3
  <2>2. /\ Evaluations(c, g) \in [Trees -> Outcomes]
        /\ \A x \in Trees : /\ OfComponents(Evaluations(c, g), x) \in [DOMAIN Components(x) -> Outcomes]
                            /\ Evaluations(c, g)[x] = EvaluateTerm(x, c, OfComponents(Evaluations(c, g), x), g[x])
    BY <2>1, EvaluationsAre
  <2> DEFINE e == Evaluations(c, g)
             T == {x \in Trees : x \in R => <<x, e[x]>> \in Good}
  <2> HIDE DEF e
  <2>3. ASSUME NEW x \in Trees, \A k \in DOMAIN Components(x) : Components(x)[k] \in T PROVE x \in T
    <3> SUFFICES ASSUME x \in R PROVE <<x, e[x]>> \in Good
      OBVIOUS
    <3> DEFINE part == OfComponents(e, x)
    <3>1. part \in [DOMAIN Components(x) -> Outcomes]
      BY <2>2 DEF e
    <3>2. \A k \in DOMAIN Components(x) : part[k] = e[Components(x)[k]]
      BY DEF OfComponents
    <3>3. \A k \in DOMAIN Components(x) : <<Components(x)[k], part[k]>> \in Good
      BY <2>3, <3>2 DEF ClosedIn
    <3> HIDE DEF part
    <3>4. CASE x \in BoundIn(c)
      <4>1. g[x] \in Outcomes /\ <<x, g[x]>> \in Good
        BY <1>3, <3>4
      <4>2. <<x, EvaluateTerm(x, c, part, g[x])>> \in Good
        BY <3>1, <3>3, <4>1 DEF KeptBy
      <4>3. QED
        BY <2>2, <4>2 DEF e, part
    <3>5. CASE x \notin BoundIn(c)
      <4> DEFINE o == [how |-> "forever"]
      <4>1. o \in Outcomes
        BY DEF Outcomes
      <4> HIDE DEF o
      <4>2. <<x, EvaluateTerm(x, c, part, o)>> \in Good
        BY <3>1, <3>3, <3>5, <4>1 DEF KeptBy
      <4>3. EvaluateTerm(x, c, part, o) = EvaluateTerm(x, c, part, g[x])
        <5>1. CASE x.tag = "Variable"
          <6>1. x.tag = "Variable" /\ IsBound(c, x) => o \in Outcomes
            BY <4>1
          <6>2. x.tag = "Variable" /\ IsBound(c, x) => g[x] \in Outcomes
            BY <2>1
          <6>3. EvaluateTerm(x, c, part, o) = Aborted
            BY <1>2, <3>1, <3>5, <5>1, <6>1, TermIs
          <6>4. EvaluateTerm(x, c, part, g[x]) = Aborted
            BY <1>2, <3>1, <3>5, <5>1, <6>2, TermIs
          <6>5. QED
            BY <6>3, <6>4
        <5>2. CASE x.tag # "Variable"
          BY <5>2 DEF EvaluateTerm
        <5>3. QED
          BY <5>1, <5>2
      <4>4. QED
        BY <2>2, <4>2, <4>3 DEF e, part
    <3>6. QED
      BY <3>4, <3>5
  <2> HIDE DEF T
  <2>4. Trees \subseteq T
    BY <2>3, TreeInduction
  <2>5. \A x \in R : <<x, e[x]>> \in Good
    BY <2>4 DEF T, ClosedIn
  <2>6. QED
    BY <2>2, <2>5 DEF e
<1> HIDE DEF Outcome
<1> DEFINE N == {n \in Nat : Outcome(f[n])}
<1>4. \A n \in Nat : f[n] = [v \in BoundIn(c) |->
                              IF n = 0 THEN [how |-> "forever"] ELSE Evaluations(c, f[n - 1])[LookUp(c, v)]]
  BY <1>1 DEF Again
<1>5. 0 \in N
  <2>1. \A v \in BoundIn(c) : f[0][v] = [how |-> "forever"]
    BY <1>4
  <2>2. [how |-> "forever"] \in Outcomes
    BY DEF Outcomes
  <2>3. \A v \in BoundIn(c) : v \in R => <<v, [how |-> "forever"]>> \in Good
    BY DEF KeptBy
  <2>4. Outcome(f[0])
    BY <2>1, <2>2, <2>3 DEF Outcome
  <2>5. QED
    BY <2>4
<1>6. ASSUME NEW n \in Nat, n \in N PROVE n + 1 \in N
  <2>1. Outcome(f[n])
    BY <1>6
  <2> DEFINE e == Evaluations(c, f[n])
  <2>2. e \in [Trees -> Outcomes] /\ \A x \in R : <<x, e[x]>> \in Good
    BY <1>3, <2>1
  <2>3. n + 1 \in Nat /\ n + 1 # 0 /\ (n + 1) - 1 = n
    OBVIOUS
  <2>4. \A v \in BoundIn(c) : f[n + 1][v] = e[LookUp(c, v)]
    <3>1. f[n + 1] = [v \in BoundIn(c) |->
                        IF n + 1 = 0 THEN [how |-> "forever"]
                        ELSE Evaluations(c, f[(n + 1) - 1])[LookUp(c, v)]]
      BY <1>4, <2>3
    <3>2. QED
      BY <2>3, <3>1
  <2> HIDE DEF e
  <2>5. ASSUME NEW v \in BoundIn(c) PROVE f[n + 1][v] \in Outcomes
    BY <1>2, <2>2, <2>4
  <2>6. ASSUME NEW v \in BoundIn(c), v \in R PROVE <<v, f[n + 1][v]>> \in Good
    <3>1. LookUp(c, v) \in R
      BY <2>6 DEF ClosedIn
    <3>2. <<LookUp(c, v), e[LookUp(c, v)]>> \in Good /\ e[LookUp(c, v)] \in Outcomes
      BY <1>2, <2>2, <3>1
    <3>3. QED
      BY <2>4, <2>6, <3>2 DEF KeptBy
  <2>7. Outcome(f[n + 1])
    BY <2>5, <2>6 DEF Outcome
  <2>8. QED
    BY <2>3, <2>7
<1> HIDE DEF N
<1>7. Cardinality(BoundIn(c)) \in N
  BY <1>2, <1>5, <1>6, AllNumbers
<1>8. Outcome(f[Cardinality(BoundIn(c))])
  BY <1>7 DEF N
<1>9. t \in Trees
  BY DEF ClosedIn
<1>10. QED
  BY <1>1, <1>3, <1>8, <1>9

-----------------------------------------------------------------------------
(* Substitution and matching.                                              *)

\* A substitution: trees for some variables.
Substitution(s) == DOMAIN s \subseteq Variables /\ s \in [DOMAIN s -> Trees]

\* What the components become.
Substitutes(s, t) == [k \in DOMAIN Components(t) |-> Substituted(s, Components(t)[k])]

\* Substituting in each kind of tree.
LEMMA Substituting ==
  ASSUME Nestings = Nat, NEW s, Substitution(s), NEW t \in Trees
  PROVE  /\ Substituted(s, t) \in Trees
         /\ t \in DOMAIN s => Substituted(s, t) = s[t] /\ t.tag = "Variable"
         /\ t \notin DOMAIN s /\ t.tag \in Composites => Substituted(s, t) = WithComponents(t, Substitutes(s, t))
         /\ t \notin DOMAIN s /\ t.tag \notin Composites => Substituted(s, t) = t
         /\ t.tag \in Composites => t \notin DOMAIN s
         /\ Substitutes(s, t) \in Seq(Trees) /\ Len(Substitutes(s, t)) = Len(Components(t))
<1>1. s \in [DOMAIN s -> Trees] /\ DOMAIN s \subseteq Variables
  BY DEF Substitution
<1>2. \A u \in Trees : Substituted(s, u) \in Trees
  BY <1>1, SubstitutedIs
<1>3. Substituted(s, t) =
        IF t \in DOMAIN s THEN s[t]
        ELSE IF t.tag \in Composites THEN WithComponents(t, Substitutes(s, t)) ELSE t
  BY <1>1, SubstitutedIs DEF Substitutes
<1>4. t \in DOMAIN s => t.tag = "Variable"
  BY <1>1 DEF Variables
<1>5. Substitutes(s, t) \in Seq(Trees) /\ Len(Substitutes(s, t)) = Len(Components(t))
  <2>1. /\ Len(Components(t)) \in Nat /\ DOMAIN Components(t) = 1..Len(Components(t))
        /\ \A k \in DOMAIN Components(t) : Components(t)[k] \in Trees
    BY ComponentsAreTrees
  <2>2. Substitutes(s, t) \in [1..Len(Components(t)) -> Trees]
    BY <1>2, <2>1 DEF Substitutes
  <2>3. QED
    BY <2>1, <2>2, FunctionIsSeq
<1>6. "Variable" \notin Composites
  BY DEF Composites, Products
<1>7. QED
  BY <1>2, <1>3, <1>4, <1>5, <1>6

\* The fields of a composite, substituted in.
LEMMA SubstitutedFields ==
  ASSUME Nestings = Nat, NEW s, Substitution(s), NEW t \in Trees
  PROVE  LET u == Substituted(s, t)
         IN  /\ t.tag \in Composites => u \in Trees /\ u.tag = t.tag
             /\ t.tag = "UnitLikeValue" => u.type = Substituted(s, t.type)
             /\ t.tag = "FunctionType" =>
                  /\ Len(u.parameter_types) = Len(t.parameter_types)
                  /\ DOMAIN u.parameter_types = DOMAIN t.parameter_types
                  /\ \A k \in DOMAIN t.parameter_types :
                       /\ u.parameter_types[k].comptime = t.parameter_types[k].comptime
                       /\ u.parameter_types[k].type = Substituted(s, t.parameter_types[k].type)
                  /\ u.return_type = Substituted(s, t.return_type)
             /\ t.tag = "ProductValue" =>
                  /\ Len(u.members) = Len(t.members) /\ DOMAIN u.members = DOMAIN t.members
                  /\ u.type = Substituted(s, t.type)
                  /\ \A k \in DOMAIN t.members :
                       /\ u.members[k].name = t.members[k].name
                       /\ u.members[k].value = Substituted(s, t.members[k].value)
<1> DEFINE us == Substitutes(s, t)
           u == Substituted(s, t)
<1>1. t \in TreesOver(Trees) /\ us \in Seq(Trees) /\ Len(us) = Len(Components(t))
  BY TreeOverTrees, Substituting
<1>2. t.tag \in Composites => u = WithComponents(t, us) /\ u \in Trees /\ u.tag = t.tag
  BY <1>1, Substituting, WithComponentsAre
<1>3. DOMAIN Components(t) = 1..Len(Components(t)) /\ Len(Components(t)) \in Nat
  BY ComponentsAreTrees
<1>4. \A k \in 1..Len(Components(t)) : us[k] = Substituted(s, Components(t)[k])
  BY <1>3 DEF Substitutes
<1> HIDE DEF us, u
<1>5. ASSUME t.tag = "UnitLikeValue" PROVE u.type = Substituted(s, t.type)
  <2>1. u = WithComponents(t, us)
    BY <1>2, <1>5 DEF Composites
  <2>2. u.type = us[1]
    BY <1>1, <1>5, <2>1, WithUnitLikeValue
  <2>3. Len(Components(t)) = 1 /\ Components(t)[1] = t.type
    BY <1>1, <1>5, ComponentsOfUnitLikeValue
  <2>4. us[1] = Substituted(s, Components(t)[1])
    BY <1>4, <2>3
  <2>5. QED
    BY <2>2, <2>3, <2>4
<1>6. ASSUME t.tag = "FunctionType"
      PROVE  /\ Len(u.parameter_types) = Len(t.parameter_types)
             /\ DOMAIN u.parameter_types = DOMAIN t.parameter_types
             /\ \A k \in DOMAIN t.parameter_types :
                  /\ u.parameter_types[k].comptime = t.parameter_types[k].comptime
                  /\ u.parameter_types[k].type = Substituted(s, t.parameter_types[k].type)
             /\ u.return_type = Substituted(s, t.return_type)
  <2>1. u = WithComponents(t, us)
    BY <1>2, <1>6 DEF Composites
  <2>2. Variables \subseteq Trees
    <3>1. Variables \subseteq TreesUpTo[1]
      <4>1. TreesUpTo[0 + 1] = TreesOver(TreesUpTo[0])
        BY LevelsAre
      <4>2. 0 + 1 = 1
        OBVIOUS
      <4>3. QED
        BY <4>1, <4>2, VariablesAreTrees
    <3>2. QED
      BY <3>1 DEF Trees
  <2>3. /\ Len(u.parameter_types) = Len(t.parameter_types)
        /\ DOMAIN u.parameter_types = DOMAIN t.parameter_types
        /\ \A k \in DOMAIN t.parameter_types :
             u.parameter_types[k].comptime = t.parameter_types[k].comptime /\ u.parameter_types[k].type = us[k]
        /\ u.return_type = us[Len(us)]
    BY <1>1, <1>6, <2>1, <2>2, WithFunctionType
  <2> DEFINE n == Len(t.parameter_types)
  <2>4. /\ n \in Nat /\ Len(Components(t)) = n + 1
        /\ \A k \in 1..n : Components(t)[k] = t.parameter_types[k].type
        /\ Components(t)[n + 1] = t.return_type
    BY <1>1, <1>6, ComponentsOfFunctionType
  <2>5. DOMAIN t.parameter_types = 1..n
    BY <1>6, FieldsAreComponents
  <2> HIDE DEF n
  <2>6. us[Len(us)] = Substituted(s, t.return_type)
    BY <1>1, <1>4, <2>4
  <2>7. \A k \in 1..n : us[k] = Substituted(s, t.parameter_types[k].type)
    BY <1>4, <2>4
  <2>8. QED
    BY <2>3, <2>5, <2>6, <2>7 
<1>7. ASSUME t.tag = "ProductValue"
      PROVE  /\ Len(u.members) = Len(t.members) /\ DOMAIN u.members = DOMAIN t.members
             /\ u.type = Substituted(s, t.type)
             /\ \A k \in DOMAIN t.members :
                  /\ u.members[k].name = t.members[k].name
                  /\ u.members[k].value = Substituted(s, t.members[k].value)
  <2>1. u = WithComponents(t, us)
    BY <1>2, <1>7 DEF Composites, Products
  <2>2. /\ Len(u.members) = Len(t.members) /\ DOMAIN u.members = DOMAIN t.members
        /\ u.type = us[1]
        /\ \A k \in DOMAIN t.members : u.members[k].name = t.members[k].name
                                       /\ u.members[k].value = us[k + 1]
    BY <1>1, <1>7, <2>1, WithProductValue
  <2> DEFINE n == Len(t.members)
  <2>3. /\ n \in Nat /\ DOMAIN t.members = 1..n /\ Len(Components(t)) = n + 1
        /\ Components(t)[1] = t.type
        /\ \A k \in 1..n : Components(t)[k + 1] = t.members[k].value
    BY <1>1, <1>7, ComponentsOfProductValue
  <2> HIDE DEF n
  <2>4. us[1] = Substituted(s, t.type)
    BY <1>4, <2>3
  <2>5. ASSUME NEW k \in 1..n PROVE us[k + 1] = Substituted(s, t.members[k].value)
    <3>1. k + 1 \in 1..Len(Components(t))
      BY <2>3
    <3>2. QED
      BY <1>4, <2>3, <3>1
  <2>6. QED
    BY <2>2, <2>3, <2>4, <2>5
<1>8. QED
  BY <1>2, <1>5, <1>6, <1>7 DEF u

\* Evaluating a term does not change what it is under a solution.
LEMMA EvaluationKeepsSolutions ==
  ASSUME Nestings = Nat, NEW c, IsChain(c), NEW R, ClosedIn(c, R), NEW s, Substitution(s),
         \A v \in R \cap BoundIn(c) : v \in DOMAIN s /\ s[v] = Substituted(s, LookUp(c, v)),
         NEW t \in R
  PROVE  /\ Evaluate(t, c) \in Outcomes
         /\ Evaluate(t, c).how = "value" =>
              Evaluate(t, c).term \in Trees /\ Substituted(s, Evaluate(t, c).term) = Substituted(s, t)
<1> DEFINE Good == {p \in Trees \X Outcomes :
                      p[2].how = "value" => Substituted(s, p[2].term) = Substituted(s, p[1])}
<1>0. \A x \in Trees, o \in Outcomes :
        <<x, o>> \in Good <=> (o.how = "value" => Substituted(s, o.term) = Substituted(s, x))
  OBVIOUS
<1> HIDE DEF Good
<1>1. [how |-> "forever"] \in Outcomes /\ [how |-> "forever"].how # "value" /\ Aborted.how # "value"
  BY DEF Outcomes, Aborted
<1>2. R \subseteq Trees
  BY DEF ClosedIn
<1>3. ASSUME NEW x \in R, NEW part \in [DOMAIN Components(x) -> Outcomes], NEW again \in Outcomes,
             \A k \in DOMAIN Components(x) : <<Components(x)[k], part[k]>> \in Good,
             x \in BoundIn(c) => <<x, again>> \in Good
      PROVE  <<x, EvaluateTerm(x, c, part, again)>> \in Good
  <2> DEFINE o == EvaluateTerm(x, c, part, again)
  <2>1. /\ o \in Outcomes /\ x \in Trees
        /\ x.tag = "Variable" => o = IF ~IsBound(c, x) \/ LookUp(c, x).tag = "DeferredValue" THEN Aborted ELSE again
        /\ x.tag = "Application" => o.how # "value"
        /\ x.tag = "DeferredValue" => o = Aborted
        /\ x.tag \in Composites => o = EvaluateComposite(x, c, part)
        /\ x.tag \notin Composites \cup {"Variable", "Application", "DeferredValue"} => o = Value(x)
    BY <1>2, <1>3, TermIs
  <2> HIDE DEF o
  <2> SUFFICES ASSUME o.how = "value" PROVE Substituted(s, o.term) = Substituted(s, x)
    BY <1>0, <2>1 DEF o
  <2>2. CASE x.tag = "Variable"
    <3>1. IsBound(c, x) /\ o = again
      BY <1>1, <2>1, <2>2
    <3>2. x \in BoundIn(c)
      BY <3>1, ChainIs
    <3>3. QED
      BY <1>0, <1>3, <2>1, <3>1, <3>2
  <2>3. CASE x.tag \in Composites
    <3>1. /\ o = Value(WithComponents(x, Becoming(part)))
          /\ Becoming(part) \in Seq(Trees) /\ Len(Becoming(part)) = Len(Components(x))
          /\ \A k \in DOMAIN Components(x) : part[k].how = "value" /\ part[k].term \in Trees
      BY <2>1, <2>3, CompositeIs
    <3> DEFINE us == Becoming(part)
               w == WithComponents(x, us)
    <3>2. o.term = w /\ w \in Trees /\ w.tag = x.tag /\ Components(w) = us
      BY <2>1, <2>3, <3>1, WithComponentsAre DEF Value
    <3>3. Substituted(s, w) = WithComponents(w, Substitutes(s, w)) /\ Substituted(s, x) = WithComponents(x, Substitutes(s, x))
      BY <2>1, <2>3, <3>2, Substituting
    <3>4. Substitutes(s, w) = Substitutes(s, x)
      <4>1. DOMAIN us = DOMAIN Components(x)
        BY <1>3 DEF Becoming
      <4>2. ASSUME NEW k \in DOMAIN Components(x)
            PROVE  Substituted(s, us[k]) = Substituted(s, Components(x)[k])
        <5>1. us[k] = part[k].term /\ part[k] \in Outcomes /\ part[k].how = "value"
          BY <3>1, <4>1 DEF Becoming
        <5>2. Components(x)[k] \in Trees /\ <<Components(x)[k], part[k]>> \in Good
          BY <1>3, <2>1, ComponentsAreTrees
        <5>3. QED
          BY <1>0, <5>1, <5>2
      <4> HIDE DEF us, w
      <4>3. QED
        BY <3>2, <4>1, <4>2 DEF Substitutes
    <3>5. Substitutes(s, x) \in Seq(Trees) /\ Len(Substitutes(s, x)) = Len(Components(x))
      BY <2>1, Substituting
    <3>6. WithComponents(w, Substitutes(s, x)) = WithComponents(x, Substitutes(s, x))
      BY <2>1, <2>3, <3>1, <3>5, WithComponentsTwice
    <3>7. QED
      BY <3>2, <3>3, <3>4, <3>6
  <2>4. CASE x.tag \notin Composites \cup {"Variable", "Application", "DeferredValue"}
    BY <2>1, <2>4 DEF Value
  <2>5. QED
    BY <1>1, <2>1, <2>2, <2>3, <2>4
<1>4. KeptBy(c, R, Good)
  <2>1. ASSUME NEW v \in R \cap BoundIn(c) PROVE <<v, [how |-> "forever"]>> \in Good
    BY <1>0, <1>1, <1>2
  <2>2. ASSUME NEW v \in R \cap BoundIn(c), NEW o \in Outcomes, <<LookUp(c, v), o>> \in Good PROVE <<v, o>> \in Good
    <3>1. LookUp(c, v) \in Trees /\ v \in Trees /\ v \in DOMAIN s /\ s[v] = Substituted(s, LookUp(c, v))
      BY <1>2, ChainIs
    <3>2. Substituted(s, v) = s[v]
      BY <3>1, Substituting
    <3>3. QED
      BY <1>0, <2>2, <3>1, <3>2
  <2>3. QED
    BY <1>3, <2>1, <2>2 DEF KeptBy
<1>5. Evaluate(t, c) \in Outcomes /\ <<t, Evaluate(t, c)>> \in Good
  BY <1>4, EvaluateInduction
<1>6. QED
  BY <1>0, <1>2, <1>5, OutcomeIs

\* Every tree matches itself.
LEMMA MatchesItself == ASSUME Nestings = Nat, NEW t \in Trees PROVE Matches[t][t]
<1> DEFINE T == {x \in Trees : Matches[x][x]}
<1>1. ASSUME NEW x \in Trees, \A k \in DOMAIN Components(x) : Components(x)[k] \in T PROVE x \in T
  <2>1. \A u \in Range(Components(x)) : Matches[u][u]
    BY <1>1 DEF Range
  <2>2. Matches[x][x] = Matching(Matches, x, x)
    BY MatchesIs
  <2>3. Matching(Matches, x, x)
    <3>1. CASE x.tag = "FunctionType"
      BY <2>1, <3>1, FieldsAreComponents DEF Matching
    <3>2. CASE x.tag = "UnitLikeValue"
      BY <2>1, <3>2, FieldsAreComponents DEF Matching
    <3>3. CASE x.tag = "ProductValue"
      <4>1. Matches[x.type][x.type] /\ \A k \in DOMAIN x.members : Matches[x.members[k].value][x.members[k].value]
        BY <2>1, <3>3, FieldsAreComponents DEF Products
      <4>2. QED
        BY <3>3, <4>1 DEF Matching
    <3>4. CASE x.tag \notin {"FunctionType", "UnitLikeValue", "ProductValue"}
      BY <3>4 DEF Matching
    <3>5. QED
      BY <3>1, <3>2, <3>3, <3>4
  <2>4. QED
    BY <2>2, <2>3
<1> HIDE DEF T
<1>2. Trees \subseteq T
  BY <1>1, TreeInduction
<1>3. QED
  BY <1>2 DEF T

\* The terms of a call match under a substitution.
Agree(s, e, a) == Matches[Substituted(s, e)][Substituted(s, a)]

\* Terms that become the same agree.
LEMMA AgreeIfEqual ==
  ASSUME Nestings = Nat, NEW s, Substitution(s), NEW e \in Trees, NEW a \in Trees, Substituted(s, e) = Substituted(s, a)
  PROVE  Agree(s, e, a)
BY Substituting, MatchesItself DEF Agree

\* Unit-like values agree if their types do.
LEMMA AgreeIfUnitLikeValues ==
  ASSUME Nestings = Nat, NEW s, Substitution(s), NEW e \in Trees, NEW a \in Trees,
         e.tag = "UnitLikeValue", a.tag = "UnitLikeValue"
  PROVE  Agree(s, e, a) <=> Agree(s, e.type, a.type)
<1> DEFINE x == Substituted(s, e)
           y == Substituted(s, a)
<1>1. x \in Trees /\ y \in Trees /\ x.tag = "UnitLikeValue" /\ y.tag = "UnitLikeValue"
  BY SubstitutedFields DEF Composites
<1>2. x.type = Substituted(s, e.type) /\ y.type = Substituted(s, a.type)
  BY SubstitutedFields
<1> HIDE DEF x, y
<1>3. Matches[x][y] = Matching(Matches, x, y) /\ Matches[x][y] \in BOOLEAN
  BY <1>1, MatchesIs
<1>4. Matching(Matches, x, y) <=> Matches[x.type][y.type]
  BY <1>1 DEF Matching
<1>5. QED
  BY <1>2, <1>3, <1>4 DEF Agree, x, y

\* Function types agree if their parameters and results do.
LEMMA AgreeIfFunctionTypes ==
  ASSUME Nestings = Nat, NEW s, Substitution(s), NEW e \in Trees, NEW a \in Trees,
         e.tag = "FunctionType", a.tag = "FunctionType", Len(e.parameter_types) = Len(a.parameter_types)
  PROVE  Agree(s, e, a) <=>
           /\ \A k \in DOMAIN e.parameter_types :
                /\ e.parameter_types[k].comptime = {} => a.parameter_types[k].comptime = {}
                /\ Agree(s, e.parameter_types[k].type, a.parameter_types[k].type)
           /\ Agree(s, e.return_type, a.return_type)
<1> DEFINE x == Substituted(s, e)
           y == Substituted(s, a)
<1>1. x \in Trees /\ y \in Trees /\ x.tag = "FunctionType" /\ y.tag = "FunctionType"
  BY SubstitutedFields DEF Composites
<1>2. \A t \in Trees :
        t.tag = "FunctionType" =>
          /\ Len(Substituted(s, t).parameter_types) = Len(t.parameter_types)
          /\ DOMAIN Substituted(s, t).parameter_types = DOMAIN t.parameter_types
          /\ \A k \in DOMAIN t.parameter_types :
               /\ Substituted(s, t).parameter_types[k].comptime = t.parameter_types[k].comptime
               /\ Substituted(s, t).parameter_types[k].type = Substituted(s, t.parameter_types[k].type)
          /\ Substituted(s, t).return_type = Substituted(s, t.return_type)
  BY SubstitutedFields
<1>3. DOMAIN e.parameter_types = DOMAIN a.parameter_types
  BY FieldsAreComponents
<1>4. /\ Len(x.parameter_types) = Len(y.parameter_types)
      /\ DOMAIN x.parameter_types = DOMAIN e.parameter_types
      /\ \A k \in DOMAIN e.parameter_types :
           /\ x.parameter_types[k].comptime = e.parameter_types[k].comptime
           /\ y.parameter_types[k].comptime = a.parameter_types[k].comptime
           /\ x.parameter_types[k].type = Substituted(s, e.parameter_types[k].type)
           /\ y.parameter_types[k].type = Substituted(s, a.parameter_types[k].type)
      /\ x.return_type = Substituted(s, e.return_type) /\ y.return_type = Substituted(s, a.return_type)
  BY <1>2, <1>3
<1> HIDE DEF x, y
<1>5. Matches[x][y] = Matching(Matches, x, y) /\ Matches[x][y] \in BOOLEAN
  BY <1>1, MatchesIs
<1>6. Matching(Matches, x, y) <=>
        /\ \A k \in DOMAIN x.parameter_types :
             /\ x.parameter_types[k].comptime = {} => y.parameter_types[k].comptime = {}
             /\ Matches[x.parameter_types[k].type][y.parameter_types[k].type]
        /\ Matches[x.return_type][y.return_type]
  BY <1>1, <1>4 DEF Matching
<1>7. Agree(s, e, a) <=> Matching(Matches, x, y)
  BY <1>5 DEF Agree, x, y
<1>8. \A k \in DOMAIN e.parameter_types :
        /\ x.parameter_types[k].comptime = {} => y.parameter_types[k].comptime = {}
        /\ Matches[x.parameter_types[k].type][y.parameter_types[k].type]
        <=>
        /\ e.parameter_types[k].comptime = {} => a.parameter_types[k].comptime = {}
        /\ Agree(s, e.parameter_types[k].type, a.parameter_types[k].type)
  BY <1>4 DEF Agree
<1>9. Matches[x.return_type][y.return_type] <=> Agree(s, e.return_type, a.return_type)
  BY <1>4 DEF Agree
<1>10. QED
  BY <1>4, <1>6, <1>7, <1>8, <1>9

\* Product values agree if their types and members do, by name.
LEMMA AgreeIfProductValues ==
  ASSUME Nestings = Nat, NEW s, Substitution(s), NEW e \in Trees, NEW a \in Trees,
         e.tag = "ProductValue", a.tag = "ProductValue", Len(e.members) = Len(a.members)
  PROVE  Agree(s, e, a) <=>
           /\ Agree(s, e.type, a.type)
           /\ \A k \in DOMAIN e.members : \E l \in DOMAIN a.members :
                e.members[k].name = a.members[l].name /\ Agree(s, e.members[k].value, a.members[l].value)
<1> DEFINE x == Substituted(s, e)
           y == Substituted(s, a)
<1>1. x \in Trees /\ y \in Trees /\ x.tag = "ProductValue" /\ y.tag = "ProductValue"
  BY SubstitutedFields DEF Composites, Products
<1>2. \A t \in Trees :
        t.tag = "ProductValue" =>
          /\ Len(Substituted(s, t).members) = Len(t.members)
          /\ DOMAIN Substituted(s, t).members = DOMAIN t.members
          /\ \A k \in DOMAIN t.members :
               /\ Substituted(s, t).members[k].name = t.members[k].name
               /\ Substituted(s, t).members[k].value = Substituted(s, t.members[k].value)
          /\ Substituted(s, t).type = Substituted(s, t.type)
  BY SubstitutedFields
<1>3. /\ Len(x.members) = Len(y.members)
      /\ DOMAIN x.members = DOMAIN e.members /\ DOMAIN y.members = DOMAIN a.members
      /\ \A k \in DOMAIN e.members : x.members[k].name = e.members[k].name
                                     /\ x.members[k].value = Substituted(s, e.members[k].value)
      /\ \A k \in DOMAIN a.members : y.members[k].name = a.members[k].name
                                     /\ y.members[k].value = Substituted(s, a.members[k].value)
      /\ x.type = Substituted(s, e.type) /\ y.type = Substituted(s, a.type)
  BY <1>2
<1> HIDE DEF x, y
<1>4. Matches[x][y] = Matching(Matches, x, y) /\ Matches[x][y] \in BOOLEAN
  BY <1>1, MatchesIs
<1>5. Matching(Matches, x, y) <=>
        /\ Matches[x.type][y.type]
        /\ \A k \in DOMAIN x.members : \E l \in DOMAIN y.members :
             x.members[k].name = y.members[l].name /\ Matches[x.members[k].value][y.members[l].value]
  BY <1>1, <1>3 DEF Matching
<1>6. ASSUME NEW k \in DOMAIN e.members
      PROVE  (\E l \in DOMAIN y.members :
                x.members[k].name = y.members[l].name /\ Matches[x.members[k].value][y.members[l].value])
             <=> (\E l \in DOMAIN a.members :
                    e.members[k].name = a.members[l].name /\ Agree(s, e.members[k].value, a.members[l].value))
  <2>1. x.members[k].name = e.members[k].name /\ x.members[k].value = Substituted(s, e.members[k].value)
    BY <1>3
  <2>2. ASSUME NEW l \in DOMAIN a.members
        PROVE  (x.members[k].name = y.members[l].name /\ Matches[x.members[k].value][y.members[l].value])
               <=> (e.members[k].name = a.members[l].name /\ Agree(s, e.members[k].value, a.members[l].value))
    <3>1. y.members[l].name = a.members[l].name /\ y.members[l].value = Substituted(s, a.members[l].value)
      BY <1>3
    <3>2. QED
      BY <2>1, <3>1 DEF Agree
  <2>3. DOMAIN y.members = DOMAIN a.members
    BY <1>3
  <2>4. QED
    BY <2>2, <2>3
<1>7. Matches[x.type][y.type] <=> Agree(s, e.type, a.type)
  BY <1>3 DEF Agree
<1>8. Agree(s, e, a) <=> Matching(Matches, x, y)
  BY <1>4 DEF Agree, x, y
<1>9. QED
  BY <1>3, <1>5, <1>6, <1>7, <1>8

-----------------------------------------------------------------------------
(* Comparing numbers is comparing integers, for integers of every width,   *)
(* except that two negative ones may not include the smallest.             *)

\* Compare (number.cpp:49-74) says how two numbers are ordered; it is undefined
\* exactly for two negative numbers one of which is the smallest.
THEOREM CompareOrders ==
  ASSUME NEW x \in Number, NEW y \in Number
  PROVE  /\ Compare(x, y) = "undefined" <=> x < 0 /\ y < 0 /\ MIN_INT \in {x, y}
         /\ Compare(x, y) # "undefined" =>
              /\ Compare(x, y) = "Less" <=> x < y
              /\ Compare(x, y) = "Equal" <=> x = y
              /\ Compare(x, y) = "Greater" <=> x > y
<1>1. x \in Int /\ y \in Int /\ MIN_INT \in Int
  BY MaxIntAssumption DEF Number, MIN_INT
<1>2. CASE x < 0 /\ y < 0
  BY <1>1, <1>2 DEF Compare, CompareNegatives
<1>3. CASE ~(x < 0 /\ y < 0)
  BY <1>1, <1>3 DEF Compare, ComparePositives
<1>4. QED
  BY <1>2, <1>3

\* The order of the operands does not matter to whether numbers are equal: the
\* literal that is expected and the one that is given may change places.
THEOREM CompareSymmetric ==
  ASSUME NEW x \in Number, NEW y \in Number
  PROVE  Compare(x, y) = "Equal" <=> Compare(y, x) = "Equal"
<1>1. "Equal" # "undefined"
  OBVIOUS
<1>2. QED
  BY <1>1, CompareOrders

-----------------------------------------------------------------------------
(* The call: what its state is made of, and what a step does.              *)

\* The calls to come.
Items == [expected : Trees, arg : Trees] \cup {Refused}

\* What every state of a call is made of.
TypeInv ==
  /\ problem \in Problems
  /\ IsChain(contexts)
  /\ contexts[1] = problem.outer
  /\ DOMAIN contexts[2] \subseteq problem.forall
  /\ DOMAIN contexts[1] \cap DOMAIN contexts[2] = {}
  /\ work \in Seq(Items)
  /\ result \in {"none", "unified", "nullopt", "aborted"}
  /\ result = "none" => work # <<>>
  /\ result = "unified" => work = <<>>

\* The term that the call on top looks at.
Looks(e) ==
  LET h == Head(work).expected
  IN  \/ ~MentionsBound(h) /\ e = h
      \/ /\ MentionsBound(h) /\ Evaluate(h, contexts).how = "value"
         /\ e = Evaluate(h, contexts).term

\* The calls it makes.
ParameterItems(e, a) ==
  [k \in 1..Len(e.parameter_types) |->
     IF a.parameter_types[k].comptime # {} /\ e.parameter_types[k].comptime = {} THEN Refused
     ELSE Item(e.parameter_types[k].type, a.parameter_types[k].type)]
MemberItems(e, a) ==
  [k \in 1..Len(e.members) |->
     IF e.members[k].name # a.members[k].name THEN Refused
     ELSE Item(e.members[k].value, a.members[k].value)]
Asks(e, a, items) ==
  \/ e = a /\ items = <<>>
  \/ e.tag = "UnitLikeValue" /\ a.tag = "UnitLikeValue" /\ items = <<Item(e.type, a.type)>>
  \/ /\ e.tag = "FunctionType" /\ a.tag = "FunctionType" /\ Len(e.parameter_types) = Len(a.parameter_types)
     /\ items = ParameterItems(e, a) \o <<Item(e.return_type, a.return_type)>>
  \/ /\ e.tag = "ProductValue" /\ a.tag = "ProductValue" /\ Len(e.members) = Len(a.members)
     /\ items = <<Item(e.type, a.type)>> \o MemberItems(e, a)

\* It goes on with these calls.
GoesOn(items) ==
  /\ work' = items \o Tail(work)
  /\ result' = IF work' = <<>> THEN "unified" ELSE "none"
  /\ UNCHANGED problem

\* A step compares terms, or binds a variable.
StepCompares(e, items) == Asks(e, Head(work).arg, items) /\ GoesOn(items) /\ UNCHANGED contexts
StepBinds(e) ==
  /\ e.tag = "Variable" /\ e \in problem.forall /\ e \notin BoundIn(contexts)
  /\ contexts' = Bind(contexts, e, Head(work).arg) /\ GoesOn(<<>>)

\* Why a call stops the program or refuses.
StopsAt(e, a) ==
  \/ e.tag \in {"Abstraction", "LetIns", "TypeOfAbstraction", "CppTerm", "Application", "DeferredValue"}
  \/ e.tag = "Variable" /\ (e \notin problem.forall \/ e \in BoundIn(contexts))
  \/ e.tag = "NumericLiteral" /\ a.tag = "NumericLiteral" /\ Compare(e.literal, a.literal) = "undefined"
StepStops ==
  /\ Head(work) # Refused
  /\ \/ ~Supported(Head(work).expected)
     \/ /\ MentionsBound(Head(work).expected)
        /\ Evaluate(Head(work).expected, contexts).how = "aborted"
     \/ \E e \in Trees : Looks(e) /\ StopsAt(e, Head(work).arg)
  /\ Return("aborted")
\* Why a call refuses an argument, and what it refuses.
Differ(e, a) ==
  \/ e.tag \in {"StringLiteral", "SimpleTypeTerm", "NamedType", "ProductType"} /\ e # a
  \/ e.tag = "NumericLiteral" /\ e # a
  \/ e.tag \in {"UnitLikeValue", "FunctionType", "ProductValue"} /\ a.tag # e.tag
  \/ e.tag = "FunctionType" /\ Len(a.parameter_types) # Len(e.parameter_types)
  \/ e.tag = "ProductValue" /\ Len(a.members) # Len(e.members)
StepRefuses ==
  /\ \/ Head(work) = Refused
     \/ /\ Head(work) # Refused /\ MentionsBound(Head(work).expected)
        /\ Evaluate(Head(work).expected, contexts).how = "nullopt"
     \/ Head(work) # Refused /\ \E e \in Trees : Looks(e) /\ Differ(e, Head(work).arg)
  /\ Return("nullopt")

\* An evaluation has an outcome.
LEMMA EvaluateType ==
  ASSUME Nestings = Nat, NEW c, IsChain(c), NEW t \in Trees
  PROVE  Evaluate(t, c) \in Outcomes
<1> DEFINE Good == Trees \X Outcomes
<1>1. ClosedIn(c, Trees)
  BY ComponentsAreTrees, ChainIs DEF ClosedIn
<1>2. ASSUME NEW x \in Trees, NEW part \in [DOMAIN Components(x) -> Outcomes], NEW again \in Outcomes
      PROVE  EvaluateTerm(x, c, part, again) \in Outcomes
  BY TermIs
<1>3. [how |-> "forever"] \in Outcomes
  BY DEF Outcomes
<1>4. KeptBy(c, Trees, Good)
  BY <1>2, <1>3 DEF KeptBy
<1> HIDE DEF Good
<1>5. QED
  BY <1>1, <1>4, EvaluateInduction

\* The calls of a call.
LEMMA ItemIs ==
  /\ \A x, y \in Trees : Item(x, y) \in Items /\ Item(x, y) # Refused
                         /\ Item(x, y).expected = x /\ Item(x, y).arg = y
  /\ \A i \in Items : i # Refused => i.expected \in Trees /\ i.arg \in Trees /\ i = Item(i.expected, i.arg)
  /\ Refused \in Items
<1>1. \A x, y \in Trees : Item(x, y) \in Items /\ Item(x, y).expected = x /\ Item(x, y).arg = y
  BY DEF Items, Item
<1>2. \A x, y : DOMAIN Item(x, y) = {"expected", "arg"}
  BY DEF Item
<1>3. DOMAIN Refused = {"refused"}
  BY DEF Refused
<1>4. \A x, y : Item(x, y) # Refused
  <2>1. "refused" \notin {"expected", "arg"}
    OBVIOUS
  <2>2. QED
    BY <1>2, <1>3, <2>1
<1>5. \A i \in Items : i # Refused => i.expected \in Trees /\ i.arg \in Trees /\ i = Item(i.expected, i.arg)
  BY DEF Items, Item
<1>6. QED
  BY <1>1, <1>4, <1>5 DEF Items

\* The calls that a call makes are calls.
LEMMA ItemsOfAsks ==
  ASSUME Nestings = Nat, NEW e \in Trees, NEW a \in Trees, NEW items, Asks(e, a, items)
  PROVE  items \in Seq(Items)
<1>1. CASE e = a /\ items = <<>>
  BY <1>1
<1>2. CASE e.tag = "UnitLikeValue" /\ a.tag = "UnitLikeValue" /\ items = <<Item(e.type, a.type)>>
  <2>1. Item(e.type, a.type) \in Items
    BY <1>2, FieldsAreTrees, ItemIs
  <2>2. QED
    BY <1>2, <2>1
<1>3. CASE /\ e.tag = "FunctionType" /\ a.tag = "FunctionType" /\ Len(e.parameter_types) = Len(a.parameter_types)
           /\ items = ParameterItems(e, a) \o <<Item(e.return_type, a.return_type)>>
  <2> DEFINE n == Len(e.parameter_types)
  <2>1. /\ n \in Nat /\ DOMAIN e.parameter_types = 1..n /\ DOMAIN a.parameter_types = 1..n
        /\ \A k \in 1..n : e.parameter_types[k].type \in Trees /\ a.parameter_types[k].type \in Trees
        /\ Item(e.return_type, a.return_type) \in Items
    BY <1>3, FieldsAreComponents, FieldsAreTrees, ItemIs
  <2> HIDE DEF n
  <2>2. \A k \in 1..n : Item(e.parameter_types[k].type, a.parameter_types[k].type) \in Items
    BY <2>1, ItemIs
  <2>3. ParameterItems(e, a) \in [1..n -> Items]
    BY <2>2, ItemIs DEF ParameterItems, n
  <2>4. ParameterItems(e, a) \in Seq(Items) /\ <<Item(e.return_type, a.return_type)>> \in Seq(Items)
    BY <2>1, <2>3, FunctionIsSeq
  <2>5. QED
    BY <1>3, <2>4, ConcatProperties
<1>4. CASE /\ e.tag = "ProductValue" /\ a.tag = "ProductValue" /\ Len(e.members) = Len(a.members)
           /\ items = <<Item(e.type, a.type)>> \o MemberItems(e, a)
  <2> DEFINE n == Len(e.members)
  <2>1. /\ n \in Nat /\ DOMAIN e.members = 1..n /\ DOMAIN a.members = 1..n
        /\ \A k \in 1..n : e.members[k].value \in Trees /\ a.members[k].value \in Trees
        /\ Item(e.type, a.type) \in Items
    BY <1>4, FieldsAreComponents, FieldsAreTrees, ItemIs DEF Products
  <2> HIDE DEF n
  <2>2. \A k \in 1..n : Item(e.members[k].value, a.members[k].value) \in Items
    BY <2>1, ItemIs
  <2>3. MemberItems(e, a) \in [1..n -> Items]
    BY <2>2, ItemIs DEF MemberItems, n
  <2>4. MemberItems(e, a) \in Seq(Items) /\ <<Item(e.type, a.type)>> \in Seq(Items)
    BY <2>1, <2>3, FunctionIsSeq
  <2>5. QED
    BY <1>4, <2>4, ConcatProperties
<1>5. QED
  BY <1>1, <1>2, <1>3, <1>4 DEF Asks

\* What the switch does with a term.
LEMMA SwitchIs ==
  ASSUME Nestings = Nat, TypeInv, result = "none", Head(work) # Refused, NEW e \in Trees, Looks(e),
         Switch(e, Head(work).arg)
  PROVE  \/ \E items \in Seq(Items) : StepCompares(e, items)
         \/ StepBinds(e)
         \/ StopsAt(e, Head(work).arg) /\ Return("aborted")
         \/ Differ(e, Head(work).arg) /\ Return("nullopt")
<1> DEFINE a == Head(work).arg
<1>1. work \in Seq(Items) /\ work # <<>> /\ Head(work) \in Items
  <2>1. work \in Seq(Items) /\ work # <<>>
    BY DEF TypeInv
  <2>2. QED
    BY <2>1, HeadTailProperties
<1>2. a \in Trees
  BY <1>1, ItemIs
<1>3. /\ <<>> \in Seq(Items) /\ Tail(work) \in Seq(Items) /\ <<>> \o Tail(work) = Tail(work)
      /\ Len(work) = 1 <=> Tail(work) = <<>>
  <2>1. Tail(work) \in Seq(Items) /\ Len(Tail(work)) = Len(work) - 1
    BY <1>1, HeadTailProperties
  <2>2. Len(work) \in Nat
    BY <1>1, SeqIsFunction
  <2>3. Len(Tail(work)) = 0 <=> Tail(work) = <<>>
    BY <2>1, EmptySeq
  <2>4. QED
    BY <2>1, <2>2, <2>3, ConcatEmptySeq
<1>4. ASSUME NEW items, Asks(e, a, items), Continue(items)
      PROVE  \E is \in Seq(Items) : StepCompares(e, is)
  <2>1. items \in Seq(Items)
    BY <1>2, <1>4, ItemsOfAsks
  <2>2. StepCompares(e, items)
    BY <1>4 DEF StepCompares, GoesOn, Continue
  <2>3. QED
    BY <2>1, <2>2
<1>5. CASE e.tag \in {"Abstraction", "LetIns", "TypeOfAbstraction", "CppTerm", "Application", "DeferredValue"}
  <2>1. Return("aborted")
    BY <1>5 DEF Switch
  <2>2. QED
    BY <1>5, <2>1 DEF StopsAt
<1>6. CASE e.tag = "Variable"
  <2>1. BindVariable(e, a)
    BY <1>6 DEF Switch
  <2>2. MayBind(contexts, e) <=> e \notin BoundIn(contexts)
    BY ChainIs DEF TypeInv, MayBind
  <2>3. CASE e \notin problem.forall \/ e \in BoundIn(contexts)
    BY <1>6, <2>1, <2>2, <2>3 DEF BindVariable, StopsAt
  <2>4. CASE ~(e \notin problem.forall \/ e \in BoundIn(contexts))
    <3>1. /\ contexts' = Bind(contexts, e, a)
          /\ work' = Tail(work)
          /\ result' = IF Len(work) = 1 THEN "unified" ELSE "none"
          /\ UNCHANGED problem
      BY <2>1, <2>2, <2>4 DEF BindVariable
    <3>2. StepBinds(e)
      BY <1>3, <1>6, <2>4, <3>1 DEF StepBinds, GoesOn
    <3>3. QED
      BY <3>2
  <2>5. QED
    BY <2>3, <2>4
<1>7. CASE e.tag \in {"StringLiteral", "SimpleTypeTerm", "NamedType", "ProductType"}
  <2>1. Unless(e = a, <<>>)
    BY <1>7 DEF Switch
  <2>2. CASE e = a
    <3>1. Continue(<<>>) /\ Asks(e, a, <<>>)
      BY <2>1, <2>2 DEF Unless, Asks
    <3>2. QED
      BY <1>4, <3>1
  <2>3. CASE e # a
    BY <1>7, <2>1, <2>3 DEF Unless, Differ
  <2>4. QED
    BY <2>2, <2>3
<1>8. CASE e.tag = "NumericLiteral"
  <2>1. CompareNumbers(e, a)
    BY <1>8 DEF Switch
  <2>2. e.literal \in Number /\ e = NumericLiteral(e.literal)
    BY <1>8, TreeOverTrees, IfScalar DEF ScalarTags
  <2>3. CASE a.tag # "NumericLiteral"
    <3>1. e # a /\ Return("nullopt")
      BY <1>8, <2>1, <2>3 DEF CompareNumbers
    <3>2. QED
      BY <1>8, <3>1 DEF Differ
  <2>4. CASE a.tag = "NumericLiteral"
    <3>1. a.literal \in Number /\ a = NumericLiteral(a.literal)
      BY <1>2, <2>4, TreeOverTrees, IfScalar DEF ScalarTags
    <3> DEFINE order == Compare(e.literal, a.literal)
    <3>2. IF order = "undefined" THEN Return("aborted") ELSE Unless(order = "Equal", <<>>)
      BY <2>1, <2>4 DEF CompareNumbers
    <3> HIDE DEF order
    <3>3. CASE order = "undefined"
      BY <1>8, <2>4, <3>2, <3>3 DEF StopsAt, order
    <3>4. CASE order = "Equal"
      <4>1. e.literal = a.literal
        BY <2>2, <3>1, <3>4, CompareOrders DEF order
      <4>2. Continue(<<>>) /\ Asks(e, a, <<>>)
        BY <2>2, <3>1, <3>2, <3>4, <4>1 DEF Unless, Asks
      <4>3. QED
        BY <1>4, <4>2
    <3>5. CASE order # "undefined" /\ order # "Equal"
      <4>1. e.literal # a.literal
        BY <2>2, <3>1, <3>5, CompareOrders DEF order
      <4>2. e # a /\ Return("nullopt")
        BY <3>2, <3>5, <4>1 DEF Unless
      <4>3. QED
        BY <1>8, <4>2 DEF Differ
    <3>6. QED
      BY <3>3, <3>4, <3>5
  <2>5. QED
    BY <2>3, <2>4
<1>9. CASE e.tag = "UnitLikeValue"
  <2>1. IF a.tag = "UnitLikeValue" THEN Continue(<<Item(e.type, a.type)>>) ELSE Return("nullopt")
    BY <1>9 DEF Switch
  <2>2. CASE a.tag = "UnitLikeValue"
    <3>1. Continue(<<Item(e.type, a.type)>>) /\ Asks(e, a, <<Item(e.type, a.type)>>)
      BY <1>9, <2>1, <2>2 DEF Asks
    <3>2. QED
      BY <1>4, <3>1
  <2>3. CASE a.tag # "UnitLikeValue"
    BY <1>9, <2>1, <2>3 DEF Differ
  <2>4. QED
    BY <2>2, <2>3
<1>10. CASE e.tag = "ProductValue"
  <2>1. CompareProductValues(e, a)
    BY <1>10 DEF Switch
  <2>2. CASE a.tag = "ProductValue" /\ Len(a.members) = Len(e.members)
    <3> DEFINE items == <<Item(e.type, a.type)>> \o MemberItems(e, a)
    <3>1. Continue(items)
      BY <2>1, <2>2 DEF CompareProductValues, MemberItems
    <3>2. Asks(e, a, items)
      BY <1>10, <2>2 DEF Asks
    <3>3. QED
      BY <1>4, <3>1, <3>2
  <2>3. CASE a.tag # "ProductValue" \/ Len(a.members) # Len(e.members)
    BY <1>10, <2>1, <2>3 DEF CompareProductValues, Differ
  <2>4. QED
    BY <2>2, <2>3
<1>11. CASE e.tag = "FunctionType"
  <2>1. CompareFunctionTypes(e, a)
    BY <1>11 DEF Switch
  <2>2. CASE a.tag = "FunctionType" /\ Len(a.parameter_types) = Len(e.parameter_types)
    <3> DEFINE items == ParameterItems(e, a) \o <<Item(e.return_type, a.return_type)>>
    <3>1. Continue(items)
      BY <2>1, <2>2 DEF CompareFunctionTypes, ParameterItems
    <3>2. Asks(e, a, items)
      BY <1>11, <2>2 DEF Asks
    <3>3. QED
      BY <1>4, <3>1, <3>2
  <2>3. CASE a.tag # "FunctionType" \/ Len(a.parameter_types) # Len(e.parameter_types)
    BY <1>11, <2>1, <2>3 DEF CompareFunctionTypes, Differ
  <2>4. QED
    BY <2>2, <2>3
<1>12. e.tag \in TreeTags
  BY TreeOverTrees, TreeTag
<1>13. QED
  BY <1>5, <1>6, <1>7, <1>8, <1>9, <1>10, <1>11, <1>12 DEF TreeTags, ScalarTags

\* What a step does.
LEMMA StepIs ==
  ASSUME Nestings = Nat, TypeInv, Next
  PROVE  /\ result = "none"
         /\ \/ /\ Head(work) # Refused /\ Supported(Head(work).expected)
               /\ \E e \in Trees : Looks(e) /\ (StepBinds(e) \/ \E items \in Seq(Items) : StepCompares(e, items))
            \/ StepStops
            \/ StepRefuses
<1>1. CASE RefuseItem
  BY <1>1 DEF RefuseItem, StepRefuses
<1>2. CASE UnifyExpectedTypeToArgType
  <2> DEFINE h == Head(work).expected
             a == Head(work).arg
             o == Evaluate(h, contexts)
  <2>1. /\ result = "none" /\ Head(work) # Refused
        /\ IF ~Supported(h) THEN Return("aborted")
           ELSE IF ~MentionsBound(h) THEN Switch(h, a)
           ELSE IF o.how = "value" THEN Switch(o.term, a)
           ELSE o.how # "forever" /\ Return(o.how)
    BY <1>2 DEF UnifyExpectedTypeToArgType
  <2>2. h \in Trees
    <3>1. work \in Seq(Items) /\ work # <<>>
      BY <2>1 DEF TypeInv
    <3>2. QED
      BY <2>1, <3>1, HeadTailProperties, ItemIs
  <2>3. o \in Outcomes
    BY <2>2, EvaluateType DEF TypeInv
  <2> HIDE DEF o
  <2>4. CASE ~Supported(h)
    BY <2>1, <2>4 DEF StepStops
  <2>5. CASE Supported(h) /\ ~MentionsBound(h)
    <3>1. Looks(h) /\ Switch(h, a)
      BY <2>1, <2>5 DEF Looks
    <3> HIDE DEF h, a
    <3>2. \/ \E items \in Seq(Items) : StepCompares(h, items)
          \/ StepBinds(h)
          \/ StopsAt(h, a) /\ Return("aborted")
          \/ Differ(h, a) /\ Return("nullopt")
      BY <2>1, <2>2, <3>1, SwitchIs DEF a
    <3>3. QED
      BY <2>1, <2>2, <2>5, <3>1, <3>2 DEF StepStops, StepRefuses, h, a
  <2>6. CASE Supported(h) /\ MentionsBound(h) /\ o.how = "value"
    <3>1. o.term \in Trees
      BY <2>3, <2>6, OutcomeIs
    <3> DEFINE e == o.term
    <3>2. Looks(e) /\ Switch(e, a)
      BY <2>1, <2>6 DEF Looks, o
    <3> HIDE DEF e, h, a
    <3>3. \/ \E items \in Seq(Items) : StepCompares(e, items)
          \/ StepBinds(e)
          \/ StopsAt(e, a) /\ Return("aborted")
          \/ Differ(e, a) /\ Return("nullopt")
      BY <2>1, <3>1, <3>2, SwitchIs DEF a, e
    <3>4. QED
      BY <2>1, <2>6, <3>1, <3>2, <3>3 DEF StepStops, StepRefuses, h, a, e
  <2>7. CASE Supported(h) /\ MentionsBound(h) /\ o.how # "value"
    <3>1. o.how \in {"aborted", "nullopt"} /\ Return(o.how)
      BY <2>1, <2>3, <2>7, OutcomeIs
    <3>2. QED
      BY <2>1, <2>7, <3>1 DEF StepStops, StepRefuses, o
  <2>8. QED
    BY <2>4, <2>5, <2>6, <2>7
<1>3. QED
  BY <1>1, <1>2 DEF Next

-----------------------------------------------------------------------------
(* The types of the variables, and that none is bound twice.               *)

\* With adds one binding.
BindsTrees(m) == m \in [DOMAIN m -> Trees] /\ IsFiniteSet(DOMAIN m)
\* A map with one more variable.
LEMMA WithIs ==
  ASSUME NEW m, BindsTrees(m), NEW v, NEW t \in Trees
  PROVE  LET n == With(m, v, t)
         IN  /\ DOMAIN n = DOMAIN m \cup {v} /\ BindsTrees(n)
             /\ n[v] = t
             /\ \A w \in DOMAIN m : w # v => n[w] = m[w]
<1>1. IsFiniteSet(DOMAIN m \cup {v})
  BY FS_AddElement DEF BindsTrees
<1>2. QED
  BY <1>1 DEF With, BindsTrees

\* Bind adds one binding to the inner context.
LEMMA BindIs ==
  ASSUME NEW c, IsChain(c), NEW v \in Variables, v \notin BoundIn(c), NEW t \in Trees
  PROVE  LET d == Bind(c, v, t)
         IN  /\ IsChain(d) /\ d[1] = c[1] /\ DOMAIN d[2] = DOMAIN c[2] \cup {v}
             /\ BoundIn(d) = BoundIn(c) \cup {v}
             /\ LookUp(d, v) = t
             /\ \A w \in BoundIn(c) : LookUp(d, w) = LookUp(c, w)
<1> DEFINE m == With(c[2], v, t)
           d == [k \in 1..2 |-> IF k = 2 THEN m ELSE c[1]]
<1>1. /\ DOMAIN c = 1..2 /\ Len(c) = 2
      /\ \A k \in 1..2 : DOMAIN c[k] \subseteq Variables /\ IsFiniteSet(DOMAIN c[k]) /\ c[k] \in [DOMAIN c[k] -> Trees]
  BY DEF IsChain
<1>2. 1 \in 1..2 /\ 2 \in 1..2 /\ 1..2 = {1, 2}
  OBVIOUS
<1>3. v \notin DOMAIN c[1] /\ v \notin DOMAIN c[2]
  BY ChainIs
<1>4. /\ m \in [DOMAIN c[2] \cup {v} -> Trees] /\ IsFiniteSet(DOMAIN c[2] \cup {v})
      /\ m[v] = t /\ \A w \in DOMAIN c[2] : m[w] = c[2][w]
  <2> DEFINE q == c[2]
  <2>1. BindsTrees(q) /\ v \notin DOMAIN q
    BY <1>1, <1>2, <1>3 DEF BindsTrees
  <2> HIDE DEF q
  <2>2. /\ DOMAIN With(q, v, t) = DOMAIN q \cup {v} /\ BindsTrees(With(q, v, t))
        /\ With(q, v, t)[v] = t /\ \A w \in DOMAIN q : w # v => With(q, v, t)[w] = q[w]
    BY <2>1, WithIs
  <2>3. /\ m \in [DOMAIN m -> Trees] /\ DOMAIN m = DOMAIN c[2] \cup {v} /\ IsFiniteSet(DOMAIN m) /\ m[v] = t
        /\ \A w \in DOMAIN c[2] : m[w] = c[2][w]
    BY <2>1, <2>2 DEF m, q, BindsTrees
  <2>4. QED
    BY <2>3
<1> HIDE DEF m
<1>5. Bind(c, v, t) = [c EXCEPT ![2] = m]
  BY <1>1 DEF Bind, m
<1>7. Bind(c, v, t) = d
  BY <1>1, <1>2, <1>5
<1>8. d[1] = c[1] /\ d[2] = m /\ DOMAIN d = 1..2 /\ DOMAIN m = DOMAIN c[2] \cup {v}
  BY <1>2, <1>4
<1>9. d \in Seq({c[1], m}) /\ Len(d) = 2
  <2>1. d \in [1..2 -> {c[1], m}]
    BY <1>2
  <2>2. QED
    BY <2>1, FunctionIsSeq
<1> HIDE DEF d
<1>10. IsChain(d)
  <2>1. ASSUME NEW k \in 1..2
        PROVE  DOMAIN d[k] \subseteq Variables /\ IsFiniteSet(DOMAIN d[k]) /\ d[k] \in [DOMAIN d[k] -> Trees]
    <3>1. CASE k = 1
      BY <1>1, <1>2, <1>8, <3>1
    <3>2. CASE k = 2
      BY <1>1, <1>2, <1>4, <1>8, <3>2
    <3>3. QED
      BY <3>1, <3>2
  <2>2. QED
    BY <1>8, <1>9, <2>1 DEF IsChain
<1>11. BoundIn(d) = BoundIn(c) \cup {v}
  BY <1>8, <1>10, ChainIs
<1>12. LookUp(d, v) = t
  BY <1>4, <1>8, <1>10, ChainIs
<1>13. ASSUME NEW w \in BoundIn(c)
       PROVE  LookUp(d, w) = LookUp(c, w)
  <2>1. CASE w \in DOMAIN c[2]
    BY <1>4, <1>8, <1>10, <2>1, ChainIs
  <2>2. CASE w \notin DOMAIN c[2]
    <3>1. w \in DOMAIN c[1] /\ w # v
      BY <1>3, <2>2, ChainIs
    <3>2. w \notin DOMAIN d[2] /\ w \in DOMAIN d[1]
      BY <1>8, <2>2, <3>1
    <3>3. LookUp(d, w) = d[1][w] /\ LookUp(c, w) = c[1][w]
      BY <1>10, <2>2, <3>1, <3>2, ChainIs
    <3>4. QED
      BY <1>8, <3>3
  <2>3. QED
    BY <2>1, <2>2
<1>14. QED
  BY <1>7, <1>8, <1>10, <1>11, <1>12, <1>13

\* The type invariant at the start.
LEMMA InitHasTypes ==
  ASSUME Nestings = Nat, Init
  PROVE  TypeInv
<1>1. problem \in Problems /\ Problem(problem)
  BY ProblemsAssumption DEF Init
<1> DEFINE c == <<problem.outer, Empty>>
<1>2. contexts = c /\ c[1] = problem.outer /\ c[2] = Empty /\ DOMAIN c = 1..2 /\ Len(c) = 2
  BY DEF Init
<1>3. DOMAIN Empty = {}
  BY DEF Empty
<1>4. IsChain(c)
  <2>1. DOMAIN problem.outer \subseteq Variables /\ IsFiniteSet(DOMAIN problem.outer)
        /\ problem.outer \in [DOMAIN problem.outer -> Trees]
    <3>1. problem.outer = [v \in DOMAIN problem.outer |-> problem.outer[v]]
          /\ \A v \in DOMAIN problem.outer : problem.outer[v] \in Trees
      BY <1>1 DEF Problem
    <3>2. IsFiniteSet(DOMAIN problem.outer) /\ DOMAIN problem.outer \subseteq Variables
      BY <1>1 DEF Problem
    <3>3. QED
      BY <3>1, <3>2
  <2>2. DOMAIN Empty \subseteq Variables /\ IsFiniteSet(DOMAIN Empty) /\ Empty \in [DOMAIN Empty -> Trees]
    BY <1>3, FS_EmptySet DEF Empty
  <2>3. \A k \in 1..2 : k = 1 \/ k = 2
    OBVIOUS
  <2>4. ASSUME NEW k \in 1..2
        PROVE  DOMAIN c[k] \subseteq Variables /\ IsFiniteSet(DOMAIN c[k]) /\ c[k] \in [DOMAIN c[k] -> Trees]
    BY <1>2, <2>1, <2>2, <2>3
  <2>5. QED
    BY <1>2, <2>4 DEF IsChain
<1>5. work = <<Item(problem.expected, problem.arg)>> /\ result = "none" /\ Item(problem.expected, problem.arg) \in Items
  BY <1>1, ItemIs DEF Init, Problem
<1>6. work \in Seq(Items) /\ work # <<>>
  BY <1>5
<1> HIDE DEF c
<1>7. QED
  BY <1>1, <1>2, <1>3, <1>4, <1>5, <1>6 DEF TypeInv

\* The term that a call looks at is one.
LEMMA LooksIs ==
  ASSUME Nestings = Nat, TypeInv, result = "none"
  PROVE  /\ work \in Seq(Items) /\ work # <<>> /\ Head(work) \in Items /\ Tail(work) \in Seq(Items)
         /\ Head(work) # Refused => Head(work).expected \in Trees /\ Head(work).arg \in Trees
<1>1. work \in Seq(Items) /\ work # <<>>
  BY DEF TypeInv
<1>2. Head(work) \in Items /\ Tail(work) \in Seq(Items)
  BY <1>1, HeadTailProperties
<1>3. QED
  BY <1>1, <1>2, ItemIs

\* A step keeps the type invariant.
LEMMA NextKeepsTypes ==
  ASSUME Nestings = Nat, TypeInv, [Next]_vars
  PROVE  TypeInv'
<1>1. CASE UNCHANGED vars
  BY <1>1 DEF TypeInv, vars, IsChain
<1>2. CASE Next
  <2>1. result = "none"
    BY <1>2, StepIs
  <2>2. ASSUME NEW items \in Seq(Items), GoesOn(items)
        PROVE  /\ work' \in Seq(Items) /\ problem' = problem /\ result' \in {"none", "unified"}
               /\ result' = "none" => work' # <<>>
               /\ result' = "unified" => work' = <<>>
    <3>1. work' \in Seq(Items)
      BY <2>1, <2>2, LooksIs, ConcatProperties DEF GoesOn
    <3>2. QED
      BY <2>2, <3>1 DEF GoesOn
  <2>3. ASSUME NEW e \in Trees, NEW items \in Seq(Items), StepCompares(e, items)
        PROVE  TypeInv'
    <3>1. GoesOn(items) /\ contexts' = contexts
      BY <2>3 DEF StepCompares
    <3>2. QED
      BY <2>2, <3>1 DEF TypeInv, IsChain
  <2>4. ASSUME NEW e \in Trees, Head(work) # Refused, StepBinds(e)
        PROVE  TypeInv'
    <3>1. e \in problem.forall /\ e \notin BoundIn(contexts) /\ contexts' = Bind(contexts, e, Head(work).arg) /\ GoesOn(<<>>)
      BY <2>4 DEF StepBinds
    <3>2. e \in Variables /\ Head(work).arg \in Trees
      BY <2>1, <2>4, <3>1, LooksIs, ProblemsAssumption DEF TypeInv, Problem
    <3>3. IsChain(contexts)
      BY DEF TypeInv
    <3>4. /\ IsChain(contexts') /\ contexts'[1] = contexts[1] /\ DOMAIN contexts'[2] = DOMAIN contexts[2] \cup {e}
      BY <3>1, <3>2, <3>3, BindIs
    <3>5. <<>> \in Seq(Items)
      OBVIOUS
    <3>6. e \notin DOMAIN contexts[1]
      BY <3>1, <3>3, ChainIs
    <3>7. problem' = problem /\ work' \in Seq(Items) /\ result' \in {"none", "unified"}
               /\ (result' = "none" => work' # <<>>)
               /\ (result' = "unified" => work' = <<>>)
      BY <2>2, <3>1, <3>5
    <3>8. contexts'[1] = problem.outer /\ DOMAIN contexts'[2] \subseteq problem.forall
          /\ DOMAIN contexts'[1] \cap DOMAIN contexts'[2] = {} /\ problem \in Problems
      BY <3>1, <3>4, <3>6 DEF TypeInv
    <3>9. IsChain(contexts)'
      BY <3>4 DEF IsChain
    <3>10. QED
      BY <3>7, <3>8, <3>9 DEF TypeInv
  <2>5. ASSUME NEW how \in {"aborted", "nullopt"}, Return(how)
        PROVE  TypeInv'
    BY <2>5 DEF TypeInv, Return, IsChain
  <2>6. QED
    <3>1. CASE /\ Head(work) # Refused
               /\ \E e \in Trees : Looks(e) /\ (StepBinds(e) \/ \E items \in Seq(Items) : StepCompares(e, items))
      BY <2>3, <2>4, <3>1
    <3>2. CASE StepStops \/ StepRefuses
      BY <2>5, <3>2 DEF StepStops, StepRefuses
    <3>3. QED
      BY <1>2, <3>1, <3>2, StepIs
<1>3. QED
  BY <1>1, <1>2

\* UnifyExpectedTypeToArgType (unify.cpp) goes on with a chain of two contexts that bind
\* variables to terms, the inner one forall variables only, and with calls about terms.
THEOREM TypesAreKept ==
  ASSUME Nestings = Nat
  PROVE  Spec => []TypeInv
<1>1. Init => TypeInv
  BY InitHasTypes
<1>2. TypeInv /\ [Next]_vars => TypeInv'
  BY NextKeepsTypes
<1>3. QED
  BY <1>1, <1>2, PTL DEF Spec

-----------------------------------------------------------------------------
(* A call that returns has made the types agree.                           *)

\* A substitution that gives to each variable what it is bound to.
SolutionOf(s, c) ==
  Substitution(s) /\ \A v \in BoundIn(c) : v \in DOMAIN s /\ s[v] = Substituted(s, LookUp(c, v))
\* The calls to come lead to types that agree.
Settled(s, calls) == \A k \in DOMAIN calls : calls[k] # Refused /\ Agree(s, calls[k].expected, calls[k].arg)

\* The invariant: every solution that settles the calls to come makes the types of the
\* whole problem agree.
Unifies ==
  result \in {"none", "unified"} =>
    \A s : SolutionOf(s, contexts) /\ Settled(s, work) => Agree(s, problem.expected, problem.arg)

\* Calls one after the other.
LEMMA SettledParts ==
  ASSUME NEW s, NEW p \in Seq(Items), NEW q \in Seq(Items)
  PROVE  /\ Settled(s, p \o q) <=> Settled(s, p) /\ Settled(s, q)
         /\ p # <<>> => (Settled(s, p) <=> (/\ Head(p) # Refused
                                            /\ Agree(s, Head(p).expected, Head(p).arg)
                                            /\ Settled(s, Tail(p))))
<1> DEFINE Good(i) == i # Refused /\ Agree(s, i.expected, i.arg)
<1>1. \A c : Settled(s, c) <=> \A k \in DOMAIN c : Good(c[k])
  BY DEF Settled
<1> HIDE DEF Good
<1>2. /\ DOMAIN p = 1..Len(p) /\ DOMAIN q = 1..Len(q) /\ Len(p) \in Nat /\ Len(q) \in Nat
      /\ DOMAIN (p \o q) = 1..(Len(p) + Len(q))
      /\ \A k \in 1..Len(p) : (p \o q)[k] = p[k]
      /\ \A k \in 1..Len(q) : (p \o q)[Len(p) + k] = q[k]
  <2>1. \A k \in 1..(Len(p) + Len(q)) : (p \o q)[k] = IF k <= Len(p) THEN p[k] ELSE q[k - Len(p)]
    BY ConcatProperties
  <2>2. p \o q \in Seq(Items) /\ Len(p \o q) = Len(p) + Len(q)
    BY ConcatProperties
  <2>3. /\ DOMAIN p = 1..Len(p) /\ DOMAIN q = 1..Len(q) /\ Len(p) \in Nat /\ Len(q) \in Nat
        /\ DOMAIN (p \o q) = 1..(Len(p) + Len(q))
    BY <2>2, SeqIsFunction
  <2>4. QED
    BY <2>1, <2>3
<1>3. Settled(s, p \o q) <=> Settled(s, p) /\ Settled(s, q)
  <2>1. \A k \in 1..Len(p) : k \in 1..(Len(p) + Len(q))
    BY <1>2
  <2>2. \A k \in 1..Len(q) : Len(p) + k \in 1..(Len(p) + Len(q))
    BY <1>2
  <2>3. \A k \in 1..(Len(p) + Len(q)) : k \in 1..Len(p) \/ \E l \in 1..Len(q) : k = Len(p) + l
    <3>1. ASSUME NEW k \in 1..(Len(p) + Len(q)), k \notin 1..Len(p)
          PROVE  k - Len(p) \in 1..Len(q) /\ k = Len(p) + (k - Len(p))
      BY <1>2, <3>1
    <3>2. QED
      BY <3>1
  <2>4. ASSUME Settled(s, p \o q)
        PROVE  Settled(s, p) /\ Settled(s, q)
    <3>1. ASSUME NEW k \in 1..Len(p)
          PROVE  Good(p[k])
      <4>1. Good((p \o q)[k]) /\ (p \o q)[k] = p[k]
        BY <1>1, <1>2, <2>1, <2>4
      <4>2. QED
        BY <4>1
    <3>2. ASSUME NEW k \in 1..Len(q)
          PROVE  Good(q[k])
      <4>1. Good((p \o q)[Len(p) + k]) /\ (p \o q)[Len(p) + k] = q[k]
        BY <1>1, <1>2, <2>2, <2>4
      <4>2. QED
        BY <4>1
    <3>3. QED
      BY <1>1, <1>2, <3>1, <3>2
  <2>5. ASSUME Settled(s, p), Settled(s, q)
        PROVE  Settled(s, p \o q)
    <3>1. ASSUME NEW k \in 1..(Len(p) + Len(q))
          PROVE  Good((p \o q)[k])
      <4>1. CASE k \in 1..Len(p)
        <5>1. Good(p[k]) /\ (p \o q)[k] = p[k]
          BY <1>1, <1>2, <2>5, <4>1
        <5>2. QED
          BY <5>1
      <4>2. CASE k \notin 1..Len(p)
        <5>1. PICK l \in 1..Len(q) : k = Len(p) + l
          BY <2>3, <4>2
        <5>2. Good(q[l]) /\ (p \o q)[Len(p) + l] = q[l]
          BY <1>1, <1>2, <2>5
        <5>3. QED
          BY <5>1, <5>2
      <4>3. QED
        BY <4>1, <4>2
    <3>2. QED
      BY <1>1, <1>2, <3>1
  <2>6. QED
    BY <2>4, <2>5
<1>4. ASSUME p # <<>>
      PROVE  Settled(s, p) <=> Good(Head(p)) /\ Settled(s, Tail(p))
  <2>1. /\ Len(p) >= 1 /\ Head(p) = p[1] /\ Tail(p) \in Seq(Items) /\ Len(Tail(p)) = Len(p) - 1
        /\ \A k \in 1..Len(Tail(p)) : Tail(p)[k] = p[k + 1]
    BY <1>4, HeadTailProperties
  <2>2. DOMAIN Tail(p) = 1..(Len(p) - 1)
    BY <2>1, SeqIsFunction
  <2>3. \A k \in 1..(Len(p) - 1) : k + 1 \in 1..Len(p)
    BY <1>2
  <2>4. \A k \in 1..Len(p) : k = 1 \/ \E l \in 1..(Len(p) - 1) : k = l + 1
    <3>1. ASSUME NEW k \in 1..Len(p), k # 1
          PROVE  k - 1 \in 1..(Len(p) - 1) /\ k = (k - 1) + 1
      BY <1>2, <3>1
    <3>2. QED
      BY <3>1
  <2>5. 1 \in 1..Len(p)
    BY <1>2, <2>1
  <2>6. ASSUME Settled(s, p)
        PROVE  Good(Head(p)) /\ Settled(s, Tail(p))
    <3>1. ASSUME NEW k \in 1..(Len(p) - 1)
          PROVE  Good(Tail(p)[k])
      <4>1. Good(p[k + 1]) /\ Tail(p)[k] = p[k + 1]
        BY <1>1, <1>2, <2>1, <2>3, <2>6
      <4>2. QED
        BY <4>1
    <3>2. Good(p[1])
      BY <1>1, <1>2, <2>5, <2>6
    <3>3. QED
      BY <1>1, <2>1, <2>2, <3>1, <3>2
  <2>7. ASSUME Good(Head(p)), Settled(s, Tail(p))
        PROVE  Settled(s, p)
    <3>1. ASSUME NEW k \in 1..Len(p)
          PROVE  Good(p[k])
      <4>1. CASE k = 1
        BY <2>1, <2>7, <4>1
      <4>2. CASE k # 1
        <5>1. PICK l \in 1..(Len(p) - 1) : k = l + 1
          BY <2>4, <4>2
        <5>2. Good(Tail(p)[l]) /\ Tail(p)[l] = p[l + 1]
          BY <1>1, <2>1, <2>2, <2>7
        <5>3. QED
          BY <5>1, <5>2
      <4>3. QED
        BY <4>1, <4>2
    <3>2. QED
      BY <1>1, <1>2, <3>1
  <2>8. QED
    BY <2>6, <2>7
<1>5. QED
  BY <1>3, <1>4 DEF Good

\* A term agrees with another one if the calls it makes are settled.
LEMMA AsksSettles ==
  ASSUME Nestings = Nat, NEW s, Substitution(s), NEW e \in Trees, NEW a \in Trees, NEW items, Asks(e, a, items),
         Settled(s, items)
  PROVE  Agree(s, e, a)
<1>1. CASE e = a
  BY <1>1, AgreeIfEqual
<1>2. CASE e.tag = "UnitLikeValue" /\ a.tag = "UnitLikeValue" /\ items = <<Item(e.type, a.type)>>
  <2>1. e.type \in Trees /\ a.type \in Trees
    BY <1>2, FieldsAreTrees
  <2>2. Agree(s, items[1].expected, items[1].arg) /\ items[1] = Item(e.type, a.type)
    BY <1>2 DEF Settled
  <2>3. Agree(s, e.type, a.type)
    BY <2>1, <2>2, ItemIs
  <2>4. QED
    BY <1>2, <2>3, AgreeIfUnitLikeValues
<1>3. CASE /\ e.tag = "FunctionType" /\ a.tag = "FunctionType" /\ Len(e.parameter_types) = Len(a.parameter_types)
           /\ items = ParameterItems(e, a) \o <<Item(e.return_type, a.return_type)>>
  <2> DEFINE n == Len(e.parameter_types)
             last == Item(e.return_type, a.return_type)
  <2>1. /\ n \in Nat /\ DOMAIN e.parameter_types = 1..n /\ DOMAIN a.parameter_types = 1..n
        /\ \A k \in 1..n : e.parameter_types[k].type \in Trees /\ a.parameter_types[k].type \in Trees
        /\ e.return_type \in Trees /\ a.return_type \in Trees
    BY <1>3, FieldsAreComponents, FieldsAreTrees, ItemIs
  <2>2. last \in Items
    BY <2>1, ItemIs
  <2> HIDE DEF n
  <2>3. ParameterItems(e, a) \in [1..n -> Items]
    BY <2>1, ItemIs DEF ParameterItems, n
  <2>4. ParameterItems(e, a) \in Seq(Items) /\ <<last>> \in Seq(Items) /\ DOMAIN ParameterItems(e, a) = 1..n
    BY <2>1, <2>2, <2>3, FunctionIsSeq
  <2>5. Settled(s, ParameterItems(e, a)) /\ Settled(s, <<last>>)
    BY <1>3, <2>4, SettledParts
  <2>6. Agree(s, e.return_type, a.return_type)
    <3>1. DOMAIN <<last>> = {1} /\ <<last>>[1] = last
      OBVIOUS
    <3> HIDE DEF last
    <3>2. Agree(s, last.expected, last.arg)
      BY <2>5, <3>1 DEF Settled
    <3>3. QED
      BY <2>1, <3>2, ItemIs DEF last
  <2>7. ASSUME NEW k \in 1..n
        PROVE  /\ e.parameter_types[k].comptime = {} => a.parameter_types[k].comptime = {}
               /\ Agree(s, e.parameter_types[k].type, a.parameter_types[k].type)
    <3> DEFINE i == ParameterItems(e, a)[k]
    <3>1. i = IF a.parameter_types[k].comptime # {} /\ e.parameter_types[k].comptime = {} THEN Refused
              ELSE Item(e.parameter_types[k].type, a.parameter_types[k].type)
      BY DEF ParameterItems, n
    <3>2. i # Refused /\ Agree(s, i.expected, i.arg)
      BY <2>4, <2>5 DEF Settled
    <3> HIDE DEF i
    <3>3. i = Item(e.parameter_types[k].type, a.parameter_types[k].type)
          /\ ~(a.parameter_types[k].comptime # {} /\ e.parameter_types[k].comptime = {})
      BY <3>1, <3>2
    <3>4. i.expected = e.parameter_types[k].type /\ i.arg = a.parameter_types[k].type
      BY <2>1, <3>3, ItemIs
    <3>5. QED
      BY <3>2, <3>3, <3>4
  <2>8. QED
    BY <1>3, <2>1, <2>6, <2>7, AgreeIfFunctionTypes
<1>4. CASE /\ e.tag = "ProductValue" /\ a.tag = "ProductValue" /\ Len(e.members) = Len(a.members)
           /\ items = <<Item(e.type, a.type)>> \o MemberItems(e, a)
  <2> DEFINE n == Len(e.members)
             first == Item(e.type, a.type)
  <2>1. /\ n \in Nat /\ DOMAIN e.members = 1..n /\ DOMAIN a.members = 1..n
        /\ \A k \in 1..n : e.members[k].value \in Trees /\ a.members[k].value \in Trees
        /\ e.type \in Trees /\ a.type \in Trees
    BY <1>4, FieldsAreComponents, FieldsAreTrees DEF Products
  <2>2. first \in Items
    BY <2>1, ItemIs
  <2> HIDE DEF n
  <2>3. MemberItems(e, a) \in [1..n -> Items]
    BY <2>1, ItemIs DEF MemberItems, n
  <2>4. MemberItems(e, a) \in Seq(Items) /\ <<first>> \in Seq(Items) /\ DOMAIN MemberItems(e, a) = 1..n
    BY <2>1, <2>2, <2>3, FunctionIsSeq
  <2>5. Settled(s, MemberItems(e, a)) /\ Settled(s, <<first>>)
    BY <1>4, <2>4, SettledParts
  <2>6. Agree(s, e.type, a.type)
    <3>1. DOMAIN <<first>> = {1} /\ <<first>>[1] = first
      OBVIOUS
    <3> HIDE DEF first
    <3>2. Agree(s, first.expected, first.arg)
      BY <2>5, <3>1 DEF Settled
    <3>3. QED
      BY <2>1, <3>2, ItemIs DEF first
  <2>7. ASSUME NEW k \in 1..n
        PROVE  /\ e.members[k].name = a.members[k].name
               /\ Agree(s, e.members[k].value, a.members[k].value)
    <3> DEFINE i == MemberItems(e, a)[k]
    <3>1. i = IF e.members[k].name # a.members[k].name THEN Refused ELSE Item(e.members[k].value, a.members[k].value)
      BY DEF MemberItems, n
    <3>2. i # Refused /\ Agree(s, i.expected, i.arg)
      BY <2>4, <2>5 DEF Settled
    <3> HIDE DEF i
    <3>3. i = Item(e.members[k].value, a.members[k].value) /\ e.members[k].name = a.members[k].name
      BY <3>1, <3>2
    <3>4. i.expected = e.members[k].value /\ i.arg = a.members[k].value
      BY <2>1, <3>3, ItemIs
    <3>5. QED
      BY <3>2, <3>3, <3>4
  <2>8. QED
    BY <1>4, <2>1, <2>6, <2>7, AgreeIfProductValues
<1>5. QED
  BY <1>1, <1>2, <1>3, <1>4 DEF Asks

\* Evaluating again does not change what a solution makes of a term.
LEMMA LooksSame ==
  ASSUME Nestings = Nat, TypeInv, result = "none", Head(work) # Refused, NEW e \in Trees, Looks(e),
         NEW s, SolutionOf(s, contexts)
  PROVE  Substituted(s, e) = Substituted(s, Head(work).expected)
<1> DEFINE h == Head(work).expected
<1>1. h \in Trees /\ IsChain(contexts)
  BY LooksIs DEF TypeInv
<1>2. ClosedIn(contexts, Trees)
  BY <1>1, ComponentsAreTrees, ChainIs DEF ClosedIn
<1>3. Evaluate(h, contexts).how = "value" => Substituted(s, Evaluate(h, contexts).term) = Substituted(s, h)
  <2>1. /\ Substitution(s)
        /\ \A v \in Trees \cap BoundIn(contexts) : v \in DOMAIN s /\ s[v] = Substituted(s, LookUp(contexts, v))
    BY DEF SolutionOf
  <2> HIDE DEF h
  <2>2. QED
    BY <1>1, <1>2, <2>1, EvaluationKeepsSolutions
<1>4. QED
  BY <1>3 DEF Looks

\* A step keeps what the calls to come lead to.
LEMMA NextUnifies ==
  ASSUME Nestings = Nat, TypeInv, Unifies, [Next]_vars
  PROVE  Unifies'
<1>1. CASE UNCHANGED vars
  BY <1>1 DEF Unifies, vars
<1>2. CASE StepStops \/ StepRefuses
  BY <1>2 DEF StepStops, StepRefuses, Return, Unifies
<1>3. ASSUME NEW e \in Trees, result = "none", Head(work) # Refused, Looks(e),
             NEW items \in Seq(Items), StepCompares(e, items)
      PROVE  Unifies'
  <2> DEFINE h == Head(work).expected
             a == Head(work).arg
  <2>1. /\ work \in Seq(Items) /\ work # <<>> /\ Head(work) \in Items /\ Tail(work) \in Seq(Items)
        /\ h \in Trees /\ a \in Trees
    BY <1>3, LooksIs
  <2>2. Asks(e, a, items) /\ contexts' = contexts /\ work' = items \o Tail(work) /\ problem' = problem
    BY <1>3 DEF StepCompares, GoesOn
  <2> SUFFICES ASSUME NEW s, SolutionOf(s, contexts), Settled(s, items \o Tail(work))
               PROVE  Agree(s, problem.expected, problem.arg)
    BY <2>2 DEF Unifies
  <2>3. Settled(s, items) /\ Settled(s, Tail(work))
    BY <2>1, SettledParts
  <2>4. Agree(s, e, a)
    BY <2>1, <2>2, <2>3, AsksSettles DEF SolutionOf
  <2>5. Agree(s, h, a)
    BY <1>3, <2>4, LooksSame DEF Agree
  <2>6. Settled(s, work)
    BY <1>3, <2>1, <2>3, <2>5, SettledParts
  <2>7. QED
    BY <1>3, <2>6 DEF Unifies
<1>4. ASSUME NEW e \in Trees, result = "none", Head(work) # Refused, Looks(e), StepBinds(e)
      PROVE  Unifies'
  <2> DEFINE h == Head(work).expected
             a == Head(work).arg
  <2>1. /\ work \in Seq(Items) /\ work # <<>> /\ Head(work) \in Items /\ Tail(work) \in Seq(Items)
        /\ h \in Trees /\ a \in Trees
    BY <1>4, LooksIs
  <2>2. /\ contexts' = Bind(contexts, e, a) /\ work' = <<>> \o Tail(work) /\ problem' = problem
        /\ e \notin BoundIn(contexts) /\ e \in problem.forall
    BY <1>4 DEF StepBinds, GoesOn
  <2>3. work' = Tail(work)
    BY <2>1, <2>2, ConcatEmptySeq
  <2>4. IsChain(contexts) /\ e \in Variables
    BY <2>2, ProblemsAssumption DEF TypeInv, Problem
  <2> DEFINE d == Bind(contexts, e, a)
  <2>5. /\ BoundIn(d) = BoundIn(contexts) \cup {e} /\ LookUp(d, e) = a
        /\ \A w \in BoundIn(contexts) : LookUp(d, w) = LookUp(contexts, w)
    BY <2>1, <2>2, <2>4, BindIs
  <2> SUFFICES ASSUME NEW s, SolutionOf(s, d), Settled(s, Tail(work))
               PROVE  Agree(s, problem.expected, problem.arg)
    BY <2>2, <2>3 DEF Unifies
  <2> HIDE DEF d
  <2>6. Substitution(s) /\ e \in DOMAIN s /\ s[e] = Substituted(s, a) /\ SolutionOf(s, contexts)
    BY <2>5 DEF SolutionOf
  <2>7. Substituted(s, e) = Substituted(s, a)
    BY <2>1, <2>6, Substituting
  <2>8. Agree(s, e, a)
    BY <2>1, <2>6, <2>7, AgreeIfEqual
  <2>9. Agree(s, h, a)
    BY <1>4, <2>6, <2>8, LooksSame DEF Agree
  <2>10. Settled(s, work)
    BY <1>4, <2>1, <2>9, SettledParts
  <2>11. QED
    BY <1>4, <2>6, <2>10 DEF Unifies
<1>5. QED
  BY <1>1, <1>2, <1>3, <1>4, StepIs

\* Resolving the bindings gives trees to the variables that are bound.
LEMMA ResolutionIs ==
  ASSUME Nestings = Nat, IsChain(contexts)
  PROVE  Substitution(Resolution) /\ DOMAIN Resolution = BoundIn(contexts)
<1> DEFINE w == [is |-> "resolved", map |-> bindings]
           D == BoundIn(contexts)
           Is(g) == g = [n \in Nat |-> IF n = 0 THEN bindings
                                       ELSE [v \in DOMAIN bindings |-> Substituted(g[n - 1], bindings[v])]]
<1>1. PICK f : f = [n \in Nat |-> Of(w, n, Below(f, n))]
  BY NumberRecursion
<1>2. w.is = "resolved" /\ w.map = bindings
  OBVIOUS
<1> HIDE DEF w
<1>3. ASSUME NEW n \in Nat
      PROVE  Of(w, n, Below(f, n)) = IF n = 0 THEN bindings
                                     ELSE [v \in DOMAIN bindings |-> Substituted(f[n - 1], bindings[v])]
  <2>1. Of(w, n, Below(f, n)) = IF n = 0 THEN bindings
                                ELSE [v \in DOMAIN bindings |-> Substituted(Below(f, n), bindings[v])]
    BY <1>2 DEF Of
  <2>2. n # 0 => Below(f, n) = f[n - 1]
    BY DEF Below
  <2>3. QED
    BY <2>1, <2>2
<1>4. Is(f)
  BY <1>1, <1>3
<1> DEFINE g == CHOOSE h : Is(h)
<1>5. Is(g)
  BY <1>4
<1>6. Resolution = g[Cardinality(DOMAIN bindings)]
  BY DEF Resolution
<1>7. DOMAIN bindings = D /\ bindings \in [D -> Trees] /\ D \subseteq Variables /\ Cardinality(D) \in Nat
  BY ChainIs DEF bindings
<1> HIDE DEF g
<1>8. g[0] = bindings /\ \A m \in Nat : g[m + 1] = [v \in D |-> Substituted(g[m], bindings[v])]
  <2>1. \A n \in Nat : g[n] = IF n = 0 THEN bindings
                               ELSE [v \in DOMAIN bindings |-> Substituted(g[n - 1], bindings[v])]
    BY <1>5
  <2> HIDE DEF Is
  <2>2. ASSUME NEW m \in Nat
        PROVE  g[m + 1] = [v \in D |-> Substituted(g[m], bindings[v])]
    <3>1. m + 1 \in Nat /\ m + 1 # 0 /\ (m + 1) - 1 = m
      OBVIOUS
    <3>2. QED
      BY <1>7, <2>1, <3>1
  <2>3. QED
    BY <2>1, <2>2
<1> HIDE DEF Is, D
<1> DEFINE T == {n \in Nat : g[n] \in [D -> Trees]}
<1>9. 0 \in T
  BY <1>7, <1>8
<1>10. ASSUME NEW m \in Nat, m \in T
       PROVE  m + 1 \in T
  <2>1. ASSUME NEW v \in D
        PROVE  Substituted(g[m], bindings[v]) \in Trees
    <3>1. g[m] \in [D -> Trees] /\ bindings[v] \in Trees
      BY <1>7, <1>10
    <3> DEFINE s == g[m]
               b == bindings[v]
    <3>2. s \in [D -> Trees] /\ b \in Trees
      BY <3>1
    <3> HIDE DEF s, b
    <3>3. Substituted(s, b) \in Trees
      BY <3>2, SubstitutedIs
    <3>4. QED
      BY <3>3 DEF s, b
  <2>2. g[m + 1] \in [D -> Trees]
    BY <1>8, <2>1
  <2>3. QED
    BY <2>2
<1> HIDE DEF T
<1>11. Cardinality(D) \in T
  BY <1>7, <1>9, <1>10, AllNumbers
<1>12. Resolution \in [D -> Trees]
  BY <1>6, <1>7, <1>11 DEF T
<1>13. QED
  BY <1>7, <1>12 DEF Substitution, D

\* When UnifyExpectedTypeToArgType succeeds, its bindings make the argument's type match
\* the expected type, if they are not circular.
THEOREM BindingsUnifyTypes ==
  ASSUME Nestings = Nat
  PROVE  Spec => []BindingsUnify
<1>1. Init => Unifies
  <2> SUFFICES ASSUME Init, NEW s, Settled(s, work)
               PROVE  Agree(s, problem.expected, problem.arg)
    BY DEF Unifies
  <2>1. work = <<Item(problem.expected, problem.arg)>> /\ problem.expected \in Trees /\ problem.arg \in Trees
    BY ProblemsAssumption DEF Init, Problem
  <2>2. Agree(s, work[1].expected, work[1].arg) /\ work[1] = Item(problem.expected, problem.arg)
    BY <2>1 DEF Settled
  <2>3. QED
    BY <2>1, <2>2, ItemIs
<1>2. TypeInv /\ Unifies /\ [Next]_vars => Unifies'
  BY NextUnifies
<1>3. TypeInv /\ Unifies => BindingsUnify
  <2> SUFFICES ASSUME TypeInv, Unifies, result = "unified", Solves(Resolution)
               PROVE  Agree(Resolution, problem.expected, problem.arg)
    BY DEF BindingsUnify, Agree
  <2>1. IsChain(contexts) /\ work = <<>>
    BY DEF TypeInv
  <2>2. Substitution(Resolution)
    BY <2>1, ResolutionIs
  <2>3. SolutionOf(Resolution, contexts)
    <3>1. ASSUME NEW v \in BoundIn(contexts)
          PROVE  v \in DOMAIN Resolution /\ Resolution[v] = Substituted(Resolution, LookUp(contexts, v))
      BY DEF Solves, bindings
    <3>2. QED
      BY <2>2, <3>1 DEF SolutionOf
  <2>4. Settled(Resolution, work)
    BY <2>1 DEF Settled
  <2>5. QED
    BY <2>3, <2>4 DEF Unifies
<1>4. QED
  BY <1>1, <1>2, <1>3, TypesAreKept, PTL DEF Spec

-----------------------------------------------------------------------------
(* What is within a tree, and what its variables are.                      *)

\* What is within a tree is the tree or within a component.
LEMMA WithinComponents ==
  ASSUME Nestings = Nat, NEW t \in Trees
  PROVE  /\ t \in Within[t] /\ Within[t] \subseteq Trees
         /\ \A k \in DOMAIN Components(t) : Within[Components(t)[k]] \subseteq Within[t]
         /\ \A u \in Within[t] : u = t \/ \E k \in DOMAIN Components(t) : u \in Within[Components(t)[k]]
<1>1. Within[t] = {t} \cup UNION {Within[u] : u \in Range(Components(t))} /\ Within[t] \subseteq Trees
  BY WithinIs
<1>2. /\ \A k \in DOMAIN Components(t) : Components(t)[k] \in Range(Components(t))
      /\ \A u \in Range(Components(t)) : \E k \in DOMAIN Components(t) : u = Components(t)[k]
  BY DEF Range
<1>3. QED
  BY <1>1, <1>2

\* What GetFreeVariables reaches is within.
LEMMA ReachedWithin ==
  ASSUME Nestings = Nat, NEW t \in Trees
  PROVE  Reached[t] \subseteq Within[t]
<1> DEFINE T == {x \in Trees : Reached[x] \subseteq Within[x]}
<1>1. ASSUME NEW x \in Trees, \A k \in DOMAIN Components(x) : Components(x)[k] \in T PROVE x \in T
  <2>1. /\ Within[x] = {x} \cup UNION {Within[u] : u \in Range(Components(x))}
        /\ Reached[x] = {x} \cup UNION {Reached[u] : u \in Range(Parts(x))}
    BY WithinIs, ReachedIs
  <2>2. Range(Parts(x)) \subseteq Range(Components(x))
    BY ComponentsAreTrees
  <2>3. \A u \in Range(Components(x)) : Reached[u] \subseteq Within[u]
    BY <1>1 DEF Range
  <2>4. QED
    BY <2>1, <2>2, <2>3
<1> HIDE DEF T
<1>2. Trees \subseteq T
  BY <1>1, TreeInduction
<1>3. QED
  BY <1>2 DEF T

\* A tree with the tag of a variable is one, and has no components.
LEMMA TaggedVariable ==
  ASSUME Nestings = Nat
  PROVE  /\ \A t \in Trees : t.tag = "Variable" <=> t \in Variables
         /\ \A t \in Trees : t.tag = "Variable" => Components(t) = <<>> /\ Parts(t) = <<>>
         /\ Variables \subseteq Trees
<1>1. \A t \in Trees : t.tag = "Variable" => t \in Variables
  BY TreeOverTrees, IfScalar DEF ScalarTags
<1>2. \A v \in Variables : v.tag = "Variable"
  BY DEF Variables
<1>3. \A t \in Trees : t.tag = "Variable" => Components(t) = <<>> /\ Parts(t) = <<>>
  BY NoComponents DEF ScalarTags
<1>4. Variables \subseteq Trees
  <2>1. TreesUpTo[0 + 1] = TreesOver(TreesUpTo[0])
    BY LevelsAre
  <2>2. Variables \subseteq TreesUpTo[1]
    <3>1. 0 + 1 = 1
      OBVIOUS
    <3>2. QED
      BY <2>1, <3>1, VariablesAreTrees
  <2>3. QED
    BY <2>2 DEF Trees
<1>5. QED
  BY <1>1, <1>2, <1>3, <1>4

\* The free variables of a tree are those of its parts.
LEMMA FreeVariablesAre ==
  ASSUME Nestings = Nat, NEW t \in Trees
  PROVE  /\ FreeVariables(t) \subseteq Variables
         /\ t.tag = "Variable" => FreeVariables(t) = {t}
         /\ t.tag # "Variable" => FreeVariables(t) = UNION {FreeVariables(u) : u \in Range(Parts(t))}
         /\ Ground(t) => FreeVariables(t) = {}
<1>1. Reached[t] \subseteq Trees /\ Reached[t] = {t} \cup UNION {Reached[u] : u \in Range(Parts(t))}
  BY ReachedIs
<1>2. FreeVariables(t) \subseteq Variables
  BY <1>1, TaggedVariable DEF FreeVariables
<1>3. ASSUME t.tag = "Variable" PROVE FreeVariables(t) = {t}
  <2>1. Range(Parts(t)) = {}
    BY <1>3, TaggedVariable DEF Range
  <2>2. Reached[t] = {t}
    BY <1>1, <2>1
  <2>3. QED
    BY <1>3, <2>2 DEF FreeVariables
<1>4. ASSUME t.tag # "Variable"
      PROVE  FreeVariables(t) = UNION {FreeVariables(u) : u \in Range(Parts(t))}
  BY <1>1, <1>4 DEF FreeVariables
<1>5. ASSUME Ground(t) PROVE FreeVariables(t) = {}
  BY <1>5, ReachedWithin DEF Ground, FreeVariables
<1>6. QED
  BY <1>2, <1>3, <1>4, <1>5

\* A ground tree is no variable, and neither are its components.
LEMMA GroundIs ==
  ASSUME Nestings = Nat, NEW t \in Trees
  PROVE  Ground(t) <=> t.tag # "Variable" /\ \A k \in DOMAIN Components(t) : Ground(Components(t)[k])
BY WithinComponents DEF Ground

-----------------------------------------------------------------------------
(* What is bound is replaced.                                              *)

\* What a tree evaluates to has no variables, whatever variables what is bound has.
LEMMA EvaluatedIsGround ==
  ASSUME Nestings = Nat, NEW c, IsChain(c), NEW t \in Trees
  PROVE  Evaluate(t, c).how = "value" => Evaluate(t, c).term \in Trees /\ Ground(Evaluate(t, c).term)
<1> DEFINE Good == {p \in Trees \X Outcomes : p[2].how = "value" => Ground(p[2].term)}
<1>1. \A x \in Trees, o \in Outcomes : <<x, o>> \in Good <=> (o.how = "value" => Ground(o.term))
  OBVIOUS
<1> HIDE DEF Good
<1>2. [how |-> "forever"] \in Outcomes /\ [how |-> "forever"].how # "value" /\ Aborted.how # "value"
  BY DEF Outcomes, Aborted
<1>3. ClosedIn(c, Trees)
  BY ComponentsAreTrees, ChainIs DEF ClosedIn
<1>4. ASSUME NEW x \in Trees, NEW part \in [DOMAIN Components(x) -> Outcomes], NEW again \in Outcomes,
             \A k \in DOMAIN Components(x) : <<Components(x)[k], part[k]>> \in Good,
             x \in BoundIn(c) => <<x, again>> \in Good
      PROVE  <<x, EvaluateTerm(x, c, part, again)>> \in Good
  <2> DEFINE o == EvaluateTerm(x, c, part, again)
  <2>1. /\ o \in Outcomes
        /\ x.tag = "Variable" => o = IF ~IsBound(c, x) \/ LookUp(c, x).tag = "DeferredValue" THEN Aborted ELSE again
        /\ x.tag = "Application" => o.how # "value"
        /\ x.tag = "DeferredValue" => o = Aborted
        /\ x.tag \in Composites => o = EvaluateComposite(x, c, part)
        /\ x.tag \notin Composites \cup {"Variable", "Application", "DeferredValue"} => o = Value(x)
    BY <1>4, TermIs
  <2> HIDE DEF o
  <2> SUFFICES ASSUME o.how = "value" PROVE Ground(o.term)
    BY <1>1, <2>1 DEF o
  <2>2. CASE x.tag = "Variable"
    <3>1. IsBound(c, x) /\ o = again
      BY <1>2, <2>1, <2>2
    <3>2. x \in BoundIn(c)
      BY <3>1, ChainIs
    <3>3. QED
      BY <1>1, <1>4, <3>1, <3>2
  <2>3. CASE x.tag \in Composites
    <3>1. /\ o = Value(WithComponents(x, Becoming(part)))
          /\ Becoming(part) \in Seq(Trees) /\ Len(Becoming(part)) = Len(Components(x))
          /\ \A k \in DOMAIN Components(x) : part[k].how = "value"
      BY <1>4, <2>1, <2>3, CompositeIs
    <3> DEFINE us == Becoming(part)
               w == WithComponents(x, us)
    <3>2. o.term = w /\ w \in Trees /\ w.tag = x.tag /\ Components(w) = us
      BY <2>3, <3>1, WithComponentsAre DEF Value
    <3>3. ASSUME NEW k \in DOMAIN us
          PROVE  Ground(us[k])
      <4>1. k \in DOMAIN Components(x) /\ us[k] = part[k].term
        BY DEF Becoming
      <4>2. Components(x)[k] \in Trees
        BY <4>1, ComponentsAreTrees
      <4>3. QED
        BY <1>1, <1>4, <3>1, <4>1, <4>2
    <3> HIDE DEF us, w
    <3>4. w.tag # "Variable"
      BY <2>3, <3>2 DEF Composites, Products
    <3>5. QED
      BY <3>2, <3>3, <3>4, GroundIs
  <2>4. CASE x.tag \notin Composites \cup {"Variable", "Application", "DeferredValue"}
    <3>1. x.tag \in TreeTags
      BY TreeOverTrees, TreeTag
    <3>2. x.tag \in ScalarTags \cup {"DeferredValue", "LetIns", "Abstraction"}
      BY <2>4, <3>1 DEF TreeTags, Composites, Products
    <3>3. Components(x) = <<>>
      BY <3>2, NoComponents
    <3>4. Ground(x)
      BY <2>4, <3>3, GroundIs
    <3>5. QED
      BY <2>1, <2>4, <3>4 DEF Value
  <2>5. QED
    BY <1>2, <2>1, <2>2, <2>3, <2>4
<1>5. KeptBy(c, Trees, Good)
  <2>1. ASSUME NEW v \in Trees \cap BoundIn(c) PROVE <<v, [how |-> "forever"]>> \in Good
    BY <1>1, <1>2
  <2>2. ASSUME NEW v \in Trees \cap BoundIn(c), NEW o \in Outcomes, <<LookUp(c, v), o>> \in Good PROVE <<v, o>> \in Good
    BY <1>1, <2>2, ChainIs
  <2>3. QED
    BY <1>4, <2>1, <2>2 DEF KeptBy
<1>6. Evaluate(t, c) \in Outcomes /\ <<t, Evaluate(t, c)>> \in Good
  BY <1>3, <1>5, EvaluateInduction
<1>7. QED
  BY <1>1, <1>6, OutcomeIs

\* The comment of unify.cpp:76-77: before the switch is entered, an expected type that
\* mentions bound variables has become one that mentions none, for contexts of any size.
THEOREM BoundIsReplaced ==
  ASSUME Nestings = Nat
  PROVE  Spec => []BoundVariablesAreReplaced
<1>1. TypeInv => BoundVariablesAreReplaced
  <2> SUFFICES ASSUME TypeInv, result = "none", Head(work) # Refused,
                      Evaluate(Head(work).expected, contexts).how = "value"
               PROVE  ~MentionsBound(Evaluate(Head(work).expected, contexts).term)
    BY DEF BoundVariablesAreReplaced
  <2>1. Head(work).expected \in Trees /\ IsChain(contexts)
    BY LooksIs DEF TypeInv
  <2>2. FreeVariables(Evaluate(Head(work).expected, contexts).term) = {}
    BY <2>1, EvaluatedIsGround, FreeVariablesAre
  <2>3. QED
    BY <2>2 DEF MentionsBound
<1>2. QED
  BY <1>1, TypesAreKept, PTL

-----------------------------------------------------------------------------
(* Where a call may stop the program.                                      *)

\* What makes a type plain, at its root.
PlainHere(u) ==
  /\ u.tag \notin {"Application", "Abstraction", "LetIns", "DeferredValue"} \cup Unmovable
  /\ u.tag = "NumericLiteral" => u.literal # MIN_INT
  /\ u.tag = "FunctionType" => u.forall = {} /\ Comptimes(u) = {}
  /\ u.tag = "ProductValue" =>
       u.type.tag = "ProductType" /\ Ground(u.type) /\ Len(u.type.members) = Len(u.members)
\* A tree is plain if its root and its components are.
LEMMA PlainIs ==
  ASSUME Nestings = Nat, NEW t \in Trees
  PROVE  Plain(t) <=> PlainHere(t) /\ \A k \in DOMAIN Components(t) : Plain(Components(t)[k])
<1>1. \A u : Plain(u) <=> \A x \in Within[u] : PlainHere(x)
  BY DEF Plain, PlainHere
<1>2. QED
  BY <1>1, WithinComponents

\* A plain type can be asked for its free variables, which are those of its components.
LEMMA PlainVariables ==
  ASSUME Nestings = Nat, NEW t \in Trees, Plain(t)
  PROVE  /\ Supported(t)
         /\ t.tag # "Variable" => FreeVariables(t) = UNION {FreeVariables(u) : u \in Range(Components(t))}
<1>1. \A x \in Within[t] : PlainHere(x)
  BY DEF Plain, PlainHere
<1>2. Supported(t)
  BY <1>1, ReachedWithin DEF Supported, PlainHere
<1>3. ASSUME t.tag # "Variable"
      PROVE  FreeVariables(t) = UNION {FreeVariables(u) : u \in Range(Components(t))}
  <2>1. FreeVariables(t) = UNION {FreeVariables(u) : u \in Range(Parts(t))}
    BY <1>3, FreeVariablesAre
  <2>2. CASE t.tag # "ProductValue"
    BY <2>1, <2>2 DEF Components
  <2>3. CASE t.tag = "ProductValue"
    <3>1. t \in TreesOver(Trees)
      BY TreeOverTrees
    <3>2. /\ t.type \in Trees /\ Ground(t.type)
      BY <1>1, <2>3, <3>1, IfProductValue, WithinComponents DEF PlainHere
    <3>3. FreeVariables(t.type) = {}
      BY <3>2, FreeVariablesAre
    <3>4. /\ Components(t) \in Seq(Trees) /\ Len(t.members) \in Nat
          /\ Len(Components(t)) = Len(t.members) + 1
          /\ Components(t)[1] = t.type
          /\ Parts(t) \in Seq(Trees) /\ Len(Parts(t)) = Len(t.members)
          /\ \A k \in 1..Len(t.members) : Parts(t)[k] = Components(t)[k + 1]
      BY <2>3, <3>1, ComponentsOfProductValue
    <3>5. \A u \in Range(Components(t)) : u = t.type \/ u \in Range(Parts(t))
      <4>1. ASSUME NEW k \in 1..Len(Components(t)), k # 1
            PROVE  Components(t)[k] \in Range(Parts(t))
        <5>1. k - 1 \in 1..Len(t.members) /\ (k - 1) + 1 = k
          BY <3>4, <4>1
        <5>2. Parts(t)[k - 1] = Components(t)[k] /\ k - 1 \in DOMAIN Parts(t)
          BY <3>4, <5>1, SeqIsFunction
        <5>3. QED
          BY <5>2 DEF Range
      <4>2. DOMAIN Components(t) = 1..Len(Components(t))
        BY ComponentsAreTrees
      <4>3. QED
        BY <3>4, <4>1, <4>2 DEF Range
    <3>6. Range(Parts(t)) \subseteq Range(Components(t))
      BY ComponentsAreTrees
    <3>7. QED
      BY <2>1, <3>3, <3>5, <3>6
  <2>4. QED
    BY <2>2, <2>3
<1>4. QED
  BY <1>2, <1>3

-----------------------------------------------------------------------------
(* Mixed parts.                                                            *)

Mixing(m, t, before) ==
  LET mentioned == FreeVariables(t)
      us == Components(t)
  IN  t.tag # "Variable" /\
      \/ mentioned \cap before # {} /\ ~(mentioned \subseteq before)
      \/ \E k \in DOMAIN us : m[us[k]][before \cup UNION {FreeVariables(us[l]) : l \in 1..(k - 1)}]
\* It looks at what is below only.
LEMMA MixingOfComponents ==
  ASSUME Nestings = Nat, NEW t \in Trees, NEW before \in SUBSET Variables, NEW m, NEW n,
         \A u \in Range(Components(t)) : \A b \in SUBSET Variables : m[u][b] \in BOOLEAN /\ m[u][b] = n[u][b]
  PROVE  Mixing(m, t, before) \in BOOLEAN /\ Mixing(m, t, before) = Mixing(n, t, before)
<1>1. Mixing(m, t, before) \in BOOLEAN /\ Mixing(n, t, before) \in BOOLEAN
  BY DEF Mixing
<1>2. ASSUME NEW k \in DOMAIN Components(t)
      PROVE  LET b == before \cup UNION {FreeVariables(Components(t)[l]) : l \in 1..(k - 1)}
             IN  m[Components(t)[k]][b] = n[Components(t)[k]][b]
  <2> DEFINE b == before \cup UNION {FreeVariables(Components(t)[l]) : l \in 1..(k - 1)}
  <2>1. DOMAIN Components(t) = 1..Len(Components(t)) /\ Len(Components(t)) \in Nat
        /\ \A l \in DOMAIN Components(t) : Components(t)[l] \in Trees
    BY ComponentsAreTrees
  <2>2. \A l \in 1..(k - 1) : l \in DOMAIN Components(t)
    BY <2>1
  <2>3. b \in SUBSET Variables
    BY <2>1, <2>2, FreeVariablesAre
  <2>4. Components(t)[k] \in Range(Components(t))
    BY DEF Range
  <2> HIDE DEF b
  <2>5. m[Components(t)[k]][b] = n[Components(t)[k]][b]
    BY <2>3, <2>4
  <2>6. QED
    BY <2>5 DEF b
<1>3. QED
  BY <1>1, <1>2 DEF Mixing

\* What Mixes says.
LEMMA MixesIs ==
  ASSUME Nestings = Nat, NEW t \in Trees, NEW before \in SUBSET Variables
  PROVE  Mixes[t][before] \in BOOLEAN /\ Mixes[t][before] = Mixing(Mixes, t, before)
<1> DEFINE S == SUBSET Variables
           V == [S -> BOOLEAN]
           B == [x \in Trees |-> [r \in [Range(Components(x)) -> V] |-> [y \in S |-> Mixing(r, x, y)]]]
<1>1. ASSUME NEW x \in Trees, NEW r \in [Range(Components(x)) -> V]
      PROVE  B[x][r] = [y \in S |-> Mixing(r, x, y)] /\ B[x][r] \in V
  <2>1. \A u \in Range(Components(x)) : \A b \in S : r[u][b] \in BOOLEAN /\ r[u][b] = r[u][b]
    OBVIOUS
  <2>2. \A y \in S : Mixing(r, x, y) \in BOOLEAN
    BY <2>1, MixingOfComponents
  <2>3. B[x][r] = [y \in S |-> Mixing(r, x, y)]
    OBVIOUS
  <2>4. QED
    BY <2>2, <2>3
<1> HIDE DEF B
<1>2. PICK f : f \in [Trees -> V] /\ \A x \in Trees : f[x] = B[x][Given(f, x)]
  <2>1. Closed(V, B)
    BY <1>1 DEF Closed
  <2> HIDE DEF V
  <2>2. QED
    BY <2>1, TreeRecursion DEF Defined
<1>3. ASSUME NEW x \in Trees PROVE f[x] = [y \in S |-> Mixing(f, x, y)]
  <2>1. Given(f, x) \in [Range(Components(x)) -> V] /\ \A u \in Range(Components(x)) : Given(f, x)[u] = f[u]
    <3> HIDE DEF V
    <3>1. QED
      BY <1>2, GivenIs
  <2>2. f[x] = [y \in S |-> Mixing(Given(f, x), x, y)]
    BY <1>1, <1>2, <2>1
  <2> DEFINE g == Given(f, x)
  <2>3. \A u \in Range(Components(x)) : \A b \in S : g[u][b] \in BOOLEAN /\ g[u][b] = f[u][b]
    BY <2>1
  <2> HIDE DEF g
  <2>4. \A y \in S : Mixing(g, x, y) = Mixing(f, x, y)
    BY <2>3, MixingOfComponents
  <2>5. QED
    BY <2>2, <2>4 DEF g
<1> DEFINE Is(g) == g = [x \in Trees |-> [y \in S |-> Mixing(g, x, y)]]
<1>4. Is(f)
  BY <1>2, <1>3
<1>5. Mixes = CHOOSE g : Is(g)
  BY DEF Mixes, Mixing
<1>6. Is(Mixes)
  <2> HIDE DEF Is
  <2>1. QED
    BY <1>4, <1>5
<1>7. \A x \in Trees : \A y \in S : Mixes[x][y] = Mixing(Mixes, x, y)
  BY <1>6
<1> DEFINE T == {x \in Trees : \A y \in S : Mixes[x][y] \in BOOLEAN}
<1>8. ASSUME NEW x \in Trees, \A k \in DOMAIN Components(x) : Components(x)[k] \in T PROVE x \in T
  <2>1. \A u \in Range(Components(x)) : \A b \in S : Mixes[u][b] \in BOOLEAN /\ Mixes[u][b] = Mixes[u][b]
    BY <1>8 DEF Range
  <2>2. \A y \in S : Mixing(Mixes, x, y) \in BOOLEAN
    BY <2>1, MixingOfComponents
  <2>3. QED
    BY <1>7, <2>2
<1> HIDE DEF T
<1>9. Trees \subseteq T
  BY <1>8, TreeInduction
<1>10. QED
  BY <1>7, <1>9 DEF T

-----------------------------------------------------------------------------
(* Evaluating plain types.                                                 *)

\* An assertion that fails for a component of a composite.
LEMMA PlainAsserts ==
  ASSUME Nestings = Nat, NEW x \in Trees, Plain(x), NEW c, NEW part, NEW k \in DOMAIN Components(x),
         x.tag = "ProductValue" => /\ part[1].term.tag = "ProductType"
                                   /\ Len(part[1].term.members) = Len(x.type.members)
  PROVE  ~AssertionFails(x, c, part, k)
<1>1. PlainHere(x)
  BY PlainIs
<1>2. CASE x.tag = "FunctionType" /\ k \in DOMAIN x.parameter_types
  <2>1. x.parameter_types[k].comptime \subseteq Comptimes(x)
    BY <1>2 DEF Comptimes, Range
  <2>2. x.parameter_types[k].comptime = {}
    BY <1>1, <1>2, <2>1 DEF PlainHere
  <2>3. QED
    BY <1>2, <2>2 DEF AssertionFails
<1>3. CASE x.tag = "ProductValue"
  <2>1. Len(part[1].term.members) = Len(x.members)
    BY <1>1, <1>3 DEF PlainHere
  <2>2. QED
    BY <1>3, <2>1 DEF AssertionFails
<1>4. QED
  BY <1>2, <1>3 DEF AssertionFails

\* A composite made anew of plain types without variables is one.
LEMMA PlainComposite ==
  ASSUME Nestings = Nat, NEW x \in Trees, Plain(x), x.tag \in Composites, NEW us \in Seq(Trees),
         Len(us) = Len(Components(x)),
         \A k \in DOMAIN Components(x) : Plain(us[k]) /\ Ground(us[k]),
         x.tag = "ProductValue" => us[1].tag = "ProductType" /\ Len(us[1].members) = Len(x.type.members)
  PROVE  LET w == WithComponents(x, us)
         IN  /\ w \in Trees /\ Plain(w) /\ Ground(w) /\ w.tag = x.tag
             /\ x.tag = "ProductType" => Len(w.members) = Len(x.members)
<1> DEFINE w == WithComponents(x, us)
<1>1. w \in Trees /\ w.tag = x.tag /\ Components(w) = us
  BY WithComponentsAre
<1>2. PlainHere(x) /\ x \in TreesOver(Trees) /\ Variables \subseteq Trees
  BY PlainIs, TreeOverTrees, TaggedVariable
<1>3. /\ DOMAIN Components(x) = 1..Len(Components(x)) /\ Len(Components(x)) \in Nat
      /\ DOMAIN us = 1..Len(Components(x))
  BY ComponentsAreTrees, SeqIsFunction
<1>4. \A k \in DOMAIN Components(w) : Plain(Components(w)[k]) /\ Ground(Components(w)[k])
  BY <1>1, <1>3
<1>5. w.tag # "Variable"
  BY <1>1 DEF Composites, Products
<1>6. Ground(w)
  BY <1>1, <1>4, <1>5, GroundIs
<1>7. CASE x.tag \in {"UnitLikeValue", "ProductType"}
  <2>1. PlainHere(w)
    BY <1>1, <1>2, <1>7 DEF PlainHere
  <2>2. x.tag = "ProductType" => Len(w.members) = Len(x.members)
    BY <1>2, WithProductType
  <2>3. QED
    BY <1>1, <1>4, <1>6, <2>1, <2>2, PlainIs
<1>8. CASE x.tag = "FunctionType"
  <2>1. w.forall = x.forall /\ Comptimes(w) = Comptimes(x)
    BY <1>2, <1>8, WithFunctionType
  <2>2. PlainHere(w)
    BY <1>1, <1>2, <1>8, <2>1 DEF PlainHere
  <2>3. QED
    BY <1>1, <1>4, <1>6, <1>8, <2>2, PlainIs
<1>9. CASE x.tag = "ProductValue"
  <2>1. w.type = us[1] /\ Len(w.members) = Len(x.members)
    BY <1>2, <1>9, WithProductValue
  <2>2. 1 \in DOMAIN Components(x)
    BY <1>2, <1>3, <1>9, ComponentsOfProductValue
  <2>3. Ground(us[1]) /\ us[1].tag = "ProductType" /\ Len(us[1].members) = Len(x.members)
    BY <1>2, <1>9, <2>2 DEF PlainHere
  <2>4. PlainHere(w)
    BY <1>1, <1>2, <1>9, <2>1, <2>3 DEF PlainHere
  <2>5. QED
    BY <1>1, <1>4, <1>6, <1>9, <2>4, PlainIs
<1>10. QED
  BY <1>7, <1>8, <1>9 DEF Composites, Products

\* A plain type evaluates to one without variables, or forever, if its variables are
\* bound to such types.
LEMMA PlainEvaluation ==
  ASSUME Nestings = Nat, NEW c, IsChain(c), NEW D, D \subseteq BoundIn(c),
         \A v \in D : Plain(LookUp(c, v)) /\ Ground(LookUp(c, v)),
         NEW t \in Trees, Plain(t), FreeVariables(t) \subseteq D
  PROVE  LET o == Evaluate(t, c)
         IN  /\ o.how \in {"value", "forever"}
             /\ o.how = "value" => o.term \in Trees /\ Plain(o.term) /\ Ground(o.term)
<1> DEFINE P(x, o) ==
             \/ o.how = "forever"
             \/ /\ o.how = "value" /\ Plain(o.term) /\ Ground(o.term)
                /\ x.tag = "ProductType" => /\ o.term.tag = "ProductType"
                                            /\ Len(o.term.members) = Len(x.members)
           Good == {p \in Trees \X Outcomes : P(p[1], p[2])}
           R == {x \in Trees : Plain(x) /\ FreeVariables(x) \subseteq D}
<1>1. \A x \in Trees, o \in Outcomes : <<x, o>> \in Good <=> P(x, o)
  OBVIOUS
<1>2. R \subseteq Trees /\ \A x \in Trees : x \in R <=> Plain(x) /\ FreeVariables(x) \subseteq D
  OBVIOUS
<1> HIDE DEF Good, R
<1>3. \A v \in R : v \in BoundIn(c) => v.tag = "Variable" /\ v \in D
  BY <1>2, ChainIs, TaggedVariable, FreeVariablesAre
<1>4. \A v \in D : LookUp(c, v) \in Trees /\ LookUp(c, v) \in R /\ LookUp(c, v).tag # "DeferredValue"
  <2>1. ASSUME NEW v \in D
        PROVE  LookUp(c, v) \in Trees /\ FreeVariables(LookUp(c, v)) = {} /\ PlainHere(LookUp(c, v))
    BY ChainIs, FreeVariablesAre, PlainIs
  <2>2. QED
    BY <1>2, <2>1 DEF PlainHere
<1>5. ClosedIn(c, R)
  <2>1. ASSUME NEW x \in R, NEW k \in DOMAIN Components(x)
        PROVE  Components(x)[k] \in R
    <3>1. x \in Trees /\ Components(x)[k] \in Trees /\ x.tag # "Variable"
      BY <1>2, ComponentsAreTrees, TaggedVariable
    <3>2. Plain(Components(x)[k])
      BY <1>2, <3>1, PlainIs
    <3>3. FreeVariables(Components(x)[k]) \subseteq FreeVariables(x)
      BY <1>2, <3>1, PlainVariables DEF Range
    <3>4. QED
      BY <1>2, <3>1, <3>2, <3>3
  <2>2. QED
    BY <1>2, <1>3, <1>4, <2>1 DEF ClosedIn
<1>6. ASSUME NEW x \in R, NEW part \in [DOMAIN Components(x) -> Outcomes], NEW again \in Outcomes,
             \A k \in DOMAIN Components(x) : <<Components(x)[k], part[k]>> \in Good,
             x \in BoundIn(c) => <<x, again>> \in Good
      PROVE  <<x, EvaluateTerm(x, c, part, again)>> \in Good
  <2> DEFINE o == EvaluateTerm(x, c, part, again)
  <2>1. /\ o \in Outcomes /\ x \in Trees
        /\ x.tag = "Variable" => o = IF ~IsBound(c, x) \/ LookUp(c, x).tag = "DeferredValue" THEN Aborted ELSE again
        /\ x.tag \in Composites => o = EvaluateComposite(x, c, part)
        /\ x.tag \notin Composites \cup {"Variable", "Application", "DeferredValue"} => o = Value(x)
    BY <1>2, <1>6, TermIs
  <2> HIDE DEF o
  <2>2. /\ \A k \in DOMAIN Components(x) : P(Components(x)[k], part[k]) /\ Components(x)[k] \in Trees
        /\ PlainHere(x) /\ Plain(x) /\ FreeVariables(x) \subseteq D
    BY <1>1, <1>2, <1>6, <2>1, ComponentsAreTrees, PlainIs
  <2>3. CASE x.tag = "Variable"
    <3>1. x \in D
      BY <2>1, <2>2, <2>3, FreeVariablesAre
    <3>2. IsBound(c, x) /\ x \in BoundIn(c) /\ LookUp(c, x).tag # "DeferredValue"
      BY <1>4, <3>1, ChainIs
    <3>3. o = again
      BY <2>1, <2>3, <3>2
    <3>4. QED
      BY <1>6, <3>2, <3>3 DEF o
  <2>4. CASE x.tag \in Composites
    <3>1. o = EvaluateComposite(x, c, part)
      BY <2>1, <2>4
    <3>2. x.tag = "ProductValue" =>
            /\ 1 \in DOMAIN Components(x) /\ Components(x)[1] = x.type /\ x.type.tag = "ProductType"
      <4>1. ASSUME x.tag = "ProductValue"
            PROVE  1 \in DOMAIN Components(x) /\ Components(x)[1] = x.type
        <5>1. x \in TreesOver(Trees)
          BY <2>1, TreeOverTrees
        <5>2. Len(x.members) \in Nat /\ Len(Components(x)) = Len(x.members) + 1 /\ Components(x)[1] = x.type
          BY <4>1, <5>1, ComponentsOfProductValue
        <5>3. DOMAIN Components(x) = 1..Len(Components(x))
          BY <2>1, ComponentsAreTrees
        <5>4. QED
          BY <5>2, <5>3
      <4>2. QED
        BY <2>2, <4>1 DEF PlainHere
    <3>3. x.tag = "ProductValue" /\ part[1].how = "value" =>
            part[1].term.tag = "ProductType" /\ Len(part[1].term.members) = Len(x.type.members)
      BY <2>2, <3>2
    <3>4. ASSUME o.how = "value"
          PROVE  P(x, o)
      <4>1. /\ \A k \in DOMAIN Components(x) : part[k].how = "value" /\ part[k].term \in Trees
            /\ Becoming(part) \in Seq(Trees) /\ Len(Becoming(part)) = Len(Components(x))
            /\ o = Value(WithComponents(x, Becoming(part)))
        BY <2>1, <2>4, <3>1, <3>4, CompositeIs
      <4> DEFINE us == Becoming(part)
                 w == WithComponents(x, us)
      <4>2. \A k \in DOMAIN Components(x) : us[k] = part[k].term
        BY DEF Becoming
      <4>3. \A k \in DOMAIN Components(x) : Plain(us[k]) /\ Ground(us[k])
        BY <2>2, <4>1, <4>2
      <4>4. x.tag = "ProductValue" => us[1].tag = "ProductType" /\ Len(us[1].members) = Len(x.type.members)
        BY <3>2, <3>3, <4>1, <4>2
      <4> HIDE DEF us
      <4>5. /\ Plain(w) /\ Ground(w) /\ w.tag = x.tag
            /\ x.tag = "ProductType" => Len(w.members) = Len(x.members)
        BY <2>1, <2>2, <2>4, <4>1, <4>3, <4>4, PlainComposite DEF us
      <4>6. o.term = w
        BY <4>1 DEF Value, us
      <4>7. QED
        BY <3>4, <4>5, <4>6
    <3>5. o.how # "aborted"
      <4> SUFFICES ASSUME o.how = "aborted" PROVE FALSE
        OBVIOUS
      <4>1. CASE x.tag = "FunctionType" /\ \E v \in x.forall : IsBound(c, v)
        BY <2>2, <4>1 DEF PlainHere
      <4>2. CASE \E k \in DOMAIN Components(x) :
                   /\ part[k].how = "aborted" \/ (part[k].how = "value" /\ AssertionFails(x, c, part, k))
                   /\ \A l \in 1..(k - 1) : l \notin Failed(x, c, part)
        <5>1. PICK k \in DOMAIN Components(x) :
                   /\ part[k].how = "aborted" \/ (part[k].how = "value" /\ AssertionFails(x, c, part, k))
                   /\ \A l \in 1..(k - 1) : l \notin Failed(x, c, part)
          BY <4>2
        <5>2. part[k].how \in {"forever", "value"}
          BY <2>2
        <5>3. part[k].how = "value" /\ AssertionFails(x, c, part, k)
          BY <5>1, <5>2
        <5>4. x.tag = "ProductValue" => part[1].how = "value"
          <6>1. CASE k = 1
            BY <5>3, <6>1
          <6>2. CASE k # 1
            <7>1. 1 \in 1..(k - 1) /\ 1 \in DOMAIN Components(x)
              <8>1. DOMAIN Components(x) = 1..Len(Components(x)) /\ Len(Components(x)) \in Nat
                BY <2>1, ComponentsAreTrees
              <8>2. QED
                BY <6>2, <8>1
            <7>2. 1 \notin Failed(x, c, part) /\ 1 \in DOMAIN part
              BY <5>1, <7>1
            <7>3. QED
              BY <7>2 DEF Failed, Fails
          <6>3. QED
            BY <6>1, <6>2
        <5>5. QED
          BY <2>1, <2>2, <3>3, <5>3, <5>4, PlainAsserts
      <4>3. QED
        BY <2>1, <2>4, <3>1, <4>1, <4>2, CompositeIs
    <3>6. ASSUME o.how # "value"
          PROVE  o.how = "forever"
      <4>1. PICK k \in DOMAIN Components(x) : part[k].how = o.how
        BY <2>1, <2>4, <3>1, <3>5, <3>6, CompositeIs
      <4>2. QED
        BY <2>2, <3>6, <4>1
    <3>7. QED
      BY <1>1, <2>1, <3>4, <3>6 DEF o
  <2>5. CASE x.tag \notin Composites /\ x.tag # "Variable"
    <3>1. x.tag \notin {"Application", "DeferredValue"}
      BY <2>2 DEF PlainHere
    <3>2. o = Value(x)
      BY <2>1, <2>5, <3>1
    <3>3. x.tag \in TreeTags
      BY <2>1, TreeOverTrees, TreeTag
    <3>4. Components(x) = <<>>
      BY <2>5, <3>1, <3>3, NoComponents DEF TreeTags, Composites, Products
    <3>5. Ground(x)
      BY <2>1, <2>5, <3>4, GroundIs
    <3>6. x.tag # "ProductType"
      BY <2>5 DEF Composites, Products
    <3>7. P(x, o)
      BY <2>2, <3>2, <3>5, <3>6 DEF Value
    <3>8. QED
      BY <1>1, <2>1, <3>7 DEF o
  <2>6. QED
    BY <2>3, <2>4, <2>5
<1>7. KeptBy(c, R, Good)
  <2>1. ASSUME NEW v \in R \cap BoundIn(c)
        PROVE  <<v, [how |-> "forever"]>> \in Good
    <3>1. [how |-> "forever"] \in Outcomes
      BY DEF Outcomes
    <3>2. QED
      BY <1>1, <1>2, <3>1
  <2>2. ASSUME NEW v \in R \cap BoundIn(c), NEW o \in Outcomes, <<LookUp(c, v), o>> \in Good
        PROVE  <<v, o>> \in Good
    <3>1. v \in Trees /\ LookUp(c, v) \in Trees /\ v.tag # "ProductType"
      BY <1>2, <1>3, ChainIs
    <3>2. P(LookUp(c, v), o)
      BY <1>1, <2>2, <3>1
    <3>3. QED
      BY <1>1, <3>1, <3>2
  <2>3. QED
    BY <1>6, <2>1, <2>2 DEF KeptBy
<1>8. t \in R
  BY <1>2
<1>9. Evaluate(t, c) \in Outcomes /\ <<t, Evaluate(t, c)>> \in Good
  BY <1>5, <1>7, <1>8, EvaluateInduction
<1>10. P(t, Evaluate(t, c))
  BY <1>1, <1>9
<1>11. QED
  BY <1>9, <1>10, OutcomeIs

-----------------------------------------------------------------------------
(* A call stops the program only for parts whose variables are bound in    *)
(* part.                                                                   *)

\* The calls a term makes are about its components, one after the other.
LEMMA ItemsAreComponents ==
  ASSUME Nestings = Nat, NEW e \in Trees, NEW a \in Trees, NEW items, Asks(e, a, items)
  PROVE  \/ e = a /\ items = <<>>
         \/ /\ e.tag \in Composites /\ a.tag = e.tag
            /\ items \in Seq(Items) /\ Len(items) = Len(Components(e)) /\ Len(Components(a)) = Len(Components(e))
            /\ \A k \in DOMAIN items :
                 items[k] # Refused => items[k].expected = Components(e)[k] /\ items[k].arg = Components(a)[k]
<1>0. e \in TreesOver(Trees) /\ a \in TreesOver(Trees) /\ items \in Seq(Items)
  BY TreeOverTrees, ItemsOfAsks
<1>1. CASE e = a /\ items = <<>>
  BY <1>1
<1>2. CASE e.tag = "UnitLikeValue" /\ a.tag = "UnitLikeValue" /\ items = <<Item(e.type, a.type)>>
  <2>1. /\ Len(Components(e)) = 1 /\ Components(e)[1] = e.type /\ Len(Components(a)) = 1 /\ Components(a)[1] = a.type
        /\ e.type \in Trees /\ a.type \in Trees
    BY <1>0, <1>2, ComponentsOfUnitLikeValue, FieldsAreTrees
  <2>2. Len(items) = 1 /\ items[1] = Item(e.type, a.type) /\ DOMAIN items = {1}
    BY <1>2
  <2>3. QED
    BY <1>0, <1>2, <2>1, <2>2, ItemIs DEF Composites
<1>3. CASE /\ e.tag = "FunctionType" /\ a.tag = "FunctionType" /\ Len(e.parameter_types) = Len(a.parameter_types)
           /\ items = ParameterItems(e, a) \o <<Item(e.return_type, a.return_type)>>
  <2> DEFINE n == Len(e.parameter_types)
             p == ParameterItems(e, a)
             last == Item(e.return_type, a.return_type)
  <2>1. /\ n \in Nat /\ DOMAIN e.parameter_types = 1..n /\ DOMAIN a.parameter_types = 1..n
        /\ \A k \in 1..n : e.parameter_types[k].type \in Trees /\ a.parameter_types[k].type \in Trees
        /\ e.return_type \in Trees /\ a.return_type \in Trees
    BY <1>3, FieldsAreComponents, FieldsAreTrees
  <2>2. last \in Items /\ last.expected = e.return_type /\ last.arg = a.return_type
    BY <2>1, ItemIs
  <2>3. /\ Len(Components(e)) = n + 1 /\ Len(Components(a)) = n + 1
        /\ \A k \in 1..n : Components(e)[k] = e.parameter_types[k].type
                           /\ Components(a)[k] = a.parameter_types[k].type
        /\ Components(e)[n + 1] = e.return_type /\ Components(a)[n + 1] = a.return_type
    BY <1>0, <1>3, ComponentsOfFunctionType
  <2> HIDE DEF n
  <2>4. p \in [1..n -> Items]
    BY <2>1, ItemIs DEF ParameterItems, n
  <2>5. p \in Seq(Items) /\ Len(p) = n
    BY <2>1, <2>4, FunctionIsSeq
  <2>6. \A k \in 1..n : p[k] # Refused => p[k] = Item(e.parameter_types[k].type, a.parameter_types[k].type)
    BY DEF ParameterItems, n
  <2> HIDE DEF p, last
  <2>7. <<last>> \in Seq(Items) /\ Len(<<last>>) = 1 /\ <<last>>[1] = last
    BY <2>2
  <2>8. items \in Seq(Items) /\ Len(items) = n + 1 /\ DOMAIN items = 1..(n + 1)
    BY <1>3, <2>1, <2>5, <2>7, ConcatProperties DEF p, last
  <2>9. ASSUME NEW k \in 1..(n + 1), items[k] # Refused
        PROVE  items[k].expected = Components(e)[k] /\ items[k].arg = Components(a)[k]
    <3>1. items[k] = IF k <= n THEN p[k] ELSE <<last>>[k - n]
      BY <1>3, <2>5, <2>7, ConcatProperties DEF p, last
    <3>2. CASE k <= n
      <4>1. k \in 1..n
        BY <2>1, <3>2
      <4>2. items[k] = Item(e.parameter_types[k].type, a.parameter_types[k].type)
        BY <2>6, <2>9, <3>1, <3>2, <4>1
      <4>3. QED
        BY <2>1, <2>3, <4>1, <4>2, ItemIs
    <3>3. CASE ~(k <= n)
      <4>1. k = n + 1 /\ k - n = 1
        BY <2>1, <3>3
      <4>2. items[k] = last
        BY <2>7, <3>1, <3>3, <4>1
      <4>3. QED
        BY <2>2, <2>3, <4>1, <4>2
    <3>4. QED
      BY <3>2, <3>3
  <2>10. QED
    BY <1>3, <2>3, <2>8, <2>9 DEF Composites
<1>4. CASE /\ e.tag = "ProductValue" /\ a.tag = "ProductValue" /\ Len(e.members) = Len(a.members)
           /\ items = <<Item(e.type, a.type)>> \o MemberItems(e, a)
  <2> DEFINE n == Len(e.members)
             p == MemberItems(e, a)
             first == Item(e.type, a.type)
  <2>1. /\ n \in Nat /\ DOMAIN e.members = 1..n /\ DOMAIN a.members = 1..n
        /\ \A k \in 1..n : e.members[k].value \in Trees /\ a.members[k].value \in Trees
        /\ e.type \in Trees /\ a.type \in Trees
    BY <1>4, FieldsAreComponents, FieldsAreTrees DEF Products
  <2>2. first \in Items /\ first.expected = e.type /\ first.arg = a.type
    BY <2>1, ItemIs
  <2>3. /\ Len(Components(e)) = n + 1 /\ Len(Components(a)) = n + 1
        /\ \A k \in 1..n : Components(e)[k + 1] = e.members[k].value
                           /\ Components(a)[k + 1] = a.members[k].value
        /\ Components(e)[1] = e.type /\ Components(a)[1] = a.type
    BY <1>0, <1>4, ComponentsOfProductValue
  <2> HIDE DEF n
  <2>4. p \in [1..n -> Items]
    BY <2>1, ItemIs DEF MemberItems, n
  <2>5. p \in Seq(Items) /\ Len(p) = n
    BY <2>1, <2>4, FunctionIsSeq
  <2>6. \A k \in 1..n : p[k] # Refused => p[k] = Item(e.members[k].value, a.members[k].value)
    BY DEF MemberItems, n
  <2> HIDE DEF p, first
  <2>7. <<first>> \in Seq(Items) /\ Len(<<first>>) = 1 /\ <<first>>[1] = first
    BY <2>2
  <2>8. items \in Seq(Items) /\ Len(items) = 1 + n /\ DOMAIN items = 1..(1 + n)
    BY <1>4, <2>1, <2>5, <2>7, ConcatProperties DEF p, first
  <2>9. ASSUME NEW k \in 1..(1 + n), items[k] # Refused
        PROVE  items[k].expected = Components(e)[k] /\ items[k].arg = Components(a)[k]
    <3>1. items[k] = IF k <= 1 THEN <<first>>[k] ELSE p[k - 1]
      BY <1>4, <2>5, <2>7, ConcatProperties DEF p, first
    <3>2. CASE k <= 1
      <4>1. k = 1
        BY <3>2
      <4>2. items[k] = first
        BY <2>7, <3>1, <3>2, <4>1
      <4>3. QED
        BY <2>2, <2>3, <4>1, <4>2
    <3>3. CASE ~(k <= 1)
      <4>1. k - 1 \in 1..n /\ (k - 1) + 1 = k
        BY <2>1, <3>3
      <4>2. items[k] = Item(e.members[k - 1].value, a.members[k - 1].value)
        BY <2>6, <2>9, <3>1, <3>3, <4>1
      <4>3. /\ e.members[k - 1].value \in Trees /\ a.members[k - 1].value \in Trees
            /\ Components(e)[k] = e.members[k - 1].value /\ Components(a)[k] = a.members[k - 1].value
        BY <2>1, <2>3, <4>1
      <4>4. QED
        BY <4>2, <4>3, ItemIs
    <3>4. QED
      BY <3>2, <3>3
  <2>10. Len(items) = Len(Components(e))
    BY <2>1, <2>3, <2>8
  <2>11. QED
    BY <1>4, <2>3, <2>8, <2>9, <2>10 DEF Composites, Products
<1>5. QED
  BY <1>1, <1>2, <1>3, <1>4 DEF Asks

\* Nothing of a tree without variables is bound in part.
LEMMA GroundIsUnmixed ==
  ASSUME Nestings = Nat, NEW t \in Trees, Ground(t), NEW before \in SUBSET Variables
  PROVE  ~Mixes[t][before]
<1> DEFINE T == {x \in Trees : Ground(x) => \A b \in SUBSET Variables : ~Mixes[x][b]}
<1>1. ASSUME NEW x \in Trees, \A k \in DOMAIN Components(x) : Components(x)[k] \in T PROVE x \in T
  <2> SUFFICES ASSUME Ground(x), NEW b \in SUBSET Variables PROVE ~Mixes[x][b]
    OBVIOUS
  <2>1. /\ x.tag # "Variable" /\ FreeVariables(x) = {}
        /\ \A k \in DOMAIN Components(x) : Ground(Components(x)[k]) /\ FreeVariables(Components(x)[k]) = {}
    BY GroundIs, FreeVariablesAre, ComponentsAreTrees
  <2>2. \A k \in DOMAIN Components(x) : ~Mixes[Components(x)[k]][b]
    BY <1>1, <2>1
  <2>3. DOMAIN Components(x) = 1..Len(Components(x)) /\ Len(Components(x)) \in Nat
    BY ComponentsAreTrees
  <2>4. \A k \in DOMAIN Components(x) : b \cup UNION {FreeVariables(Components(x)[l]) : l \in 1..(k - 1)} = b
    <3>1. \A k \in DOMAIN Components(x) : \A l \in 1..(k - 1) : l \in DOMAIN Components(x)
      BY <2>3
    <3>2. QED
      BY <2>1, <3>1
  <2>5. ~Mixing(Mixes, x, b)
    BY <2>1, <2>2, <2>4 DEF Mixing
  <2>6. QED
    BY <2>5, MixesIs
<1> HIDE DEF T
<1>2. Trees \subseteq T
  BY <1>1, TreeInduction
<1>3. QED
  BY <1>2 DEF T

\* Calls that can go on when some variables have been bound before.
VariablesOf(calls, n) == UNION {FreeVariables(calls[l].expected) : l \in 1..n}
Unmixed(e, a, before) ==
  /\ Plain(e) /\ FreeVariables(e) \subseteq problem.forall /\ ~Mixes[e][before]
  /\ Plain(a) /\ Ground(a)
AllUnmixed(calls, before) ==
  \A k \in DOMAIN calls :
    (\A l \in 1..k : calls[l] # Refused) =>
      Unmixed(calls[k].expected, calls[k].arg, before \cup VariablesOf(calls, k - 1))

\* The invariant: the bindings are plain, and so are the calls to come, no part of which
\* is mixed after what they bind.
NothingMixed ==
  /\ Plain(problem.expected) /\ Plain(problem.arg) /\ Ground(problem.arg)
  /\ FreeVariables(problem.expected) \subseteq problem.forall
  /\ DOMAIN problem.outer \cap problem.forall = {}
  /\ ~Mixes[problem.expected][{}]
  =>
  /\ result # "aborted"
  /\ \A v \in DOMAIN contexts[2] : Plain(contexts[2][v]) /\ Ground(contexts[2][v])
  /\ result = "none" => AllUnmixed(work, DOMAIN contexts[2])

\* The calls before others, and the first of some.
LEMMA UnmixedParts ==
  ASSUME NEW p \in Seq(Items), NEW q \in Seq(Items), NEW before
  PROVE  /\ /\ AllUnmixed(p, before)
            /\ (\A k \in DOMAIN p : p[k] # Refused) => AllUnmixed(q, before \cup VariablesOf(p, Len(p)))
            => AllUnmixed(p \o q, before)
         /\ p # <<>> /\ Head(p) # Refused /\ AllUnmixed(p, before) =>
              /\ Unmixed(Head(p).expected, Head(p).arg, before)
              /\ AllUnmixed(Tail(p), before \cup FreeVariables(Head(p).expected))
<1>1. /\ DOMAIN p = 1..Len(p) /\ DOMAIN q = 1..Len(q) /\ Len(p) \in Nat /\ Len(q) \in Nat
      /\ p \o q \in Seq(Items) /\ Len(p \o q) = Len(p) + Len(q) /\ DOMAIN (p \o q) = 1..(Len(p) + Len(q))
      /\ \A k \in 1..(Len(p) + Len(q)) : (p \o q)[k] = IF k <= Len(p) THEN p[k] ELSE q[k - Len(p)]
  BY ConcatProperties, SeqIsFunction
<1>2. ASSUME AllUnmixed(p, before),
             (\A k \in DOMAIN p : p[k] # Refused) => AllUnmixed(q, before \cup VariablesOf(p, Len(p)))
      PROVE  AllUnmixed(p \o q, before)
  <2> DEFINE w == p \o q
             n == Len(p)
             X == VariablesOf(p, n)
  <2>1. SUFFICES ASSUME NEW k \in 1..(n + Len(q)), \A l \in 1..k : w[l] # Refused
                 PROVE  Unmixed(w[k].expected, w[k].arg, before \cup VariablesOf(w, k - 1))
    BY <1>1 DEF AllUnmixed
  <2>2. n \in Nat /\ k \in Nat /\ \A l \in 1..(n + Len(q)) : w[l] = IF l <= n THEN p[l] ELSE q[l - n]
    BY <1>1
  <2> HIDE DEF w
  <2>3. CASE k <= n
    <3>1. k \in DOMAIN p /\ w[k] = p[k] /\ \A l \in 1..k : w[l] = p[l]
      BY <1>1, <2>2, <2>3
    <3>2. \A l \in 1..(k - 1) : w[l] = p[l]
      BY <2>2, <3>1
    <3>3. VariablesOf(w, k - 1) = VariablesOf(p, k - 1)
      BY <3>2 DEF VariablesOf
    <3>4. \A l \in 1..k : p[l] # Refused
      BY <2>1, <3>1
    <3>5. Unmixed(p[k].expected, p[k].arg, before \cup VariablesOf(p, k - 1))
      BY <1>2, <3>1, <3>4 DEF AllUnmixed
    <3>6. QED
      BY <3>1, <3>3, <3>5
  <2>4. CASE ~(k <= n)
    <3> DEFINE m == k - n
    <3>1. m \in 1..Len(q) /\ k = n + m /\ w[k] = q[m]
      BY <1>1, <2>2, <2>4
    <3>2. \A l \in 1..n : l \in 1..k /\ l <= n /\ l \in 1..(n + Len(q))
      BY <1>1, <2>2, <2>4
    <3>3. \A l \in 1..n : w[l] = p[l] /\ p[l] # Refused
      BY <2>1, <2>2, <3>2
    <3>4. \A l \in 1..m : n + l \in 1..k /\ ~(n + l <= n) /\ n + l \in 1..(n + Len(q)) /\ (n + l) - n = l
      BY <1>1, <2>2, <3>1
    <3>5. \A l \in 1..m : w[n + l] = q[l] /\ q[l] # Refused
      BY <2>1, <2>2, <3>4
    <3>6. \A l \in 1..(m - 1) : l \in 1..m /\ n + l \in 1..(k - 1)
      BY <1>1, <2>2, <3>1
    <3>7. \A l \in 1..(k - 1) : l \in 1..n \/ (l - n \in 1..(m - 1) /\ l = n + (l - n))
      BY <1>1, <2>2, <3>1
    <3>8. \A l \in 1..n : l \in 1..(k - 1)
      BY <1>1, <2>2, <3>1
    <3> HIDE DEF m, n
    <3>9. VariablesOf(w, k - 1) = VariablesOf(p, n) \cup VariablesOf(q, m - 1)
      <4>1. ASSUME NEW l \in 1..(k - 1)
            PROVE  FreeVariables(w[l].expected) \subseteq VariablesOf(p, n) \cup VariablesOf(q, m - 1)
        <5>1. CASE l \in 1..n
          BY <3>3, <5>1 DEF VariablesOf
        <5>2. CASE l - n \in 1..(m - 1) /\ l = n + (l - n)
          <6>1. w[l] = q[l - n]
            BY <3>5, <3>6, <5>2
          <6>2. QED
            BY <5>2, <6>1 DEF VariablesOf
        <5>3. QED
          BY <3>7, <5>1, <5>2
      <4>2. ASSUME NEW l \in 1..n
            PROVE  FreeVariables(p[l].expected) \subseteq VariablesOf(w, k - 1)
        BY <3>3, <3>8 DEF VariablesOf
      <4>3. ASSUME NEW l \in 1..(m - 1)
            PROVE  FreeVariables(q[l].expected) \subseteq VariablesOf(w, k - 1)
        <5>1. w[n + l] = q[l] /\ n + l \in 1..(k - 1)
          BY <3>5, <3>6
        <5>2. QED
          BY <5>1 DEF VariablesOf
      <4>4. VariablesOf(w, k - 1) \subseteq VariablesOf(p, n) \cup VariablesOf(q, m - 1)
        BY <4>1 DEF VariablesOf
      <4>5. VariablesOf(p, n) \subseteq VariablesOf(w, k - 1) /\ VariablesOf(q, m - 1) \subseteq VariablesOf(w, k - 1)
        BY <4>2, <4>3 DEF VariablesOf
      <4>6. QED
        BY <4>4, <4>5
    <3>10. AllUnmixed(q, before \cup VariablesOf(p, n))
      BY <1>1, <1>2, <3>3 DEF n
    <3>11. Unmixed(q[m].expected, q[m].arg, (before \cup VariablesOf(p, n)) \cup VariablesOf(q, m - 1))
      BY <1>1, <3>1, <3>5, <3>10 DEF AllUnmixed
    <3>12. (before \cup VariablesOf(p, n)) \cup VariablesOf(q, m - 1) = before \cup VariablesOf(w, k - 1)
      BY <3>9
    <3>13. QED
      BY <3>1, <3>11, <3>12
  <2>5. QED
    BY <2>3, <2>4
<1>3. ASSUME p # <<>>, Head(p) # Refused, AllUnmixed(p, before)
      PROVE  /\ Unmixed(Head(p).expected, Head(p).arg, before)
             /\ AllUnmixed(Tail(p), before \cup FreeVariables(Head(p).expected))
  <2> DEFINE X == FreeVariables(Head(p).expected)
             q1 == Tail(p)
  <2>1. /\ Len(p) >= 1 /\ Head(p) = p[1] /\ q1 \in Seq(Items) /\ Len(q1) = Len(p) - 1
        /\ \A k \in 1..Len(q1) : q1[k] = p[k + 1]
    BY <1>3, HeadTailProperties
  <2>2. DOMAIN q1 = 1..(Len(p) - 1)
    BY <2>1, SeqIsFunction
  <2> HIDE DEF q1
  <2>3. Unmixed(p[1].expected, p[1].arg, before)
    <3>1. 1 \in DOMAIN p /\ \A l \in 1..1 : p[l] # Refused
      <4>1. 1 \in DOMAIN p
        BY <1>1, <2>1
      <4>2. \A l \in 1..1 : l = 1
        OBVIOUS
      <4>3. QED
        BY <1>3, <2>1, <4>1, <4>2
    <3>2. VariablesOf(p, 1 - 1) = {}
      <4>1. 1..(1 - 1) = {}
        OBVIOUS
      <4>2. QED
        BY <4>1 DEF VariablesOf
    <3>3. Unmixed(p[1].expected, p[1].arg, before \cup VariablesOf(p, 1 - 1))
      BY <1>3, <3>1 DEF AllUnmixed
    <3>4. before \cup VariablesOf(p, 1 - 1) = before
      BY <3>2
    <3>5. QED
      BY <3>3, <3>4
  <2>4. ASSUME NEW k \in 1..(Len(p) - 1), \A l \in 1..k : q1[l] # Refused
        PROVE  Unmixed(q1[k].expected, q1[k].arg, (before \cup X) \cup VariablesOf(q1, k - 1))
    <3>1. k + 1 \in DOMAIN p /\ (k + 1) - 1 = k /\ q1[k] = p[k + 1] /\ k \in Nat
      BY <1>1, <2>1
    <3>2. \A l \in 1..(k + 1) : l = 1 \/ (l - 1 \in 1..k /\ l = (l - 1) + 1)
      BY <3>1
    <3>3. \A l \in 1..k : q1[l] = p[l + 1] /\ (l = 1 \/ (l - 1 \in 1..(k - 1) /\ l = (l - 1) + 1))
      BY <1>1, <2>1, <3>1
    <3>4. ASSUME NEW l \in 1..(k + 1)
          PROVE  p[l] # Refused
      <4>1. CASE l = 1
        BY <1>3, <2>1, <4>1
      <4>2. CASE l - 1 \in 1..k /\ l = (l - 1) + 1
        <5>1. q1[l - 1] = p[(l - 1) + 1] /\ q1[l - 1] # Refused
          BY <2>4, <3>3, <4>2
        <5>2. QED
          BY <4>2, <5>1
      <4>3. QED
        BY <3>2, <4>1, <4>2
    <3>5. \A l \in 1..(k - 1) : l + 1 \in 1..k /\ l \in 1..k
      BY <3>1
    <3>6. 1 \in 1..k
      BY <3>1
    <3>7. VariablesOf(p, k) = X \cup VariablesOf(q1, k - 1)
      <4>1. ASSUME NEW l \in 1..k
            PROVE  FreeVariables(p[l].expected) \subseteq X \cup VariablesOf(q1, k - 1)
        <5>1. CASE l = 1
          BY <2>1, <5>1
        <5>2. CASE l - 1 \in 1..(k - 1) /\ l = (l - 1) + 1
          <6>1. q1[l - 1] = p[l]
            BY <3>3, <3>5, <5>2
          <6>2. QED
            BY <5>2, <6>1 DEF VariablesOf
        <5>3. QED
          BY <3>3, <5>1, <5>2
      <4>2. ASSUME NEW l \in 1..(k - 1)
            PROVE  FreeVariables(q1[l].expected) \subseteq VariablesOf(p, k)
        BY <3>3, <3>5 DEF VariablesOf
      <4>3. X \subseteq VariablesOf(p, k)
        BY <2>1, <3>6 DEF VariablesOf
      <4>4. VariablesOf(p, k) \subseteq X \cup VariablesOf(q1, k - 1)
        BY <4>1 DEF VariablesOf
      <4>5. VariablesOf(q1, k - 1) \subseteq VariablesOf(p, k)
        BY <4>2 DEF VariablesOf
      <4>6. QED
        BY <4>3, <4>4, <4>5
    <3>8. Unmixed(p[k + 1].expected, p[k + 1].arg, before \cup VariablesOf(p, (k + 1) - 1))
      BY <1>3, <3>1, <3>4 DEF AllUnmixed
    <3>9. before \cup VariablesOf(p, (k + 1) - 1) = (before \cup X) \cup VariablesOf(q1, k - 1)
      BY <3>1, <3>7
    <3>10. QED
      BY <3>1, <3>8, <3>9
  <2>5. AllUnmixed(q1, before \cup X)
    BY <2>2, <2>4 DEF AllUnmixed
  <2>6. QED
    BY <2>1, <2>3, <2>5 DEF q1
<1>4. QED
  BY <1>2, <1>3

\* The calls of a call that can go on can go on, and have its variables.
LEMMA AsksUnmixed ==
  ASSUME Nestings = Nat, NEW e \in Trees, NEW a \in Trees, NEW items, Asks(e, a, items),
         NEW before \in SUBSET Variables, Unmixed(e, a, before)
  PROVE  /\ AllUnmixed(items, before)
         /\ (\A k \in DOMAIN items : items[k] # Refused) => VariablesOf(items, Len(items)) = FreeVariables(e)
<1>1. CASE e = a /\ items = <<>>
  <2>1. FreeVariables(e) = {}
    BY <1>1, FreeVariablesAre DEF Unmixed
  <2>2. Len(items) = 0 /\ DOMAIN items = {} /\ 1..0 = {}
    BY <1>1
  <2>3. VariablesOf(items, Len(items)) = {}
    BY <2>2 DEF VariablesOf
  <2>4. QED
    BY <2>1, <2>2, <2>3 DEF AllUnmixed
<1>2. CASE /\ e.tag \in Composites /\ a.tag = e.tag
           /\ items \in Seq(Items) /\ Len(items) = Len(Components(e)) /\ Len(Components(a)) = Len(Components(e))
           /\ \A k \in DOMAIN items :
                items[k] # Refused => items[k].expected = Components(e)[k] /\ items[k].arg = Components(a)[k]
  <2> DEFINE n == Len(items)
  <2>1. /\ n \in Nat /\ DOMAIN items = 1..n /\ DOMAIN Components(e) = 1..n /\ DOMAIN Components(a) = 1..n
        /\ \A k \in 1..n : Components(e)[k] \in Trees /\ Components(a)[k] \in Trees
    BY <1>2, ComponentsAreTrees, SeqIsFunction
  <2>2. e.tag # "Variable"
    BY <1>2 DEF Composites, Products
  <2>3. FreeVariables(e) = UNION {FreeVariables(Components(e)[k]) : k \in 1..n}
    <3>1. FreeVariables(e) = UNION {FreeVariables(u) : u \in Range(Components(e))}
      BY <2>2, PlainVariables DEF Unmixed
    <3>2. QED
      BY <2>1, <3>1 DEF Range
  <2>4. \A k \in 1..n : Plain(Components(e)[k]) /\ Plain(Components(a)[k]) /\ Ground(Components(a)[k])
    BY <2>1, PlainIs, GroundIs DEF Unmixed
  <2>5. ~Mixing(Mixes, e, before)
    BY MixesIs DEF Unmixed
  <2>6. \A k \in 1..n :
          ~Mixes[Components(e)[k]][before \cup UNION {FreeVariables(Components(e)[l]) : l \in 1..(k - 1)}]
    BY <2>1, <2>2, <2>5 DEF Mixing
  <2> HIDE DEF n
  <2>7. ASSUME NEW k \in 1..n, \A l \in 1..k : items[l] # Refused
        PROVE  Unmixed(items[k].expected, items[k].arg, before \cup VariablesOf(items, k - 1))
    <3>1. k \in 1..k /\ \A l \in 1..(k - 1) : l \in 1..k /\ l \in 1..n
      BY <2>1
    <3>2. items[k].expected = Components(e)[k] /\ items[k].arg = Components(a)[k]
      BY <1>2, <2>1, <2>7, <3>1
    <3>3. \A l \in 1..(k - 1) : items[l].expected = Components(e)[l]
      BY <1>2, <2>1, <2>7, <3>1
    <3>4. VariablesOf(items, k - 1) = UNION {FreeVariables(Components(e)[l]) : l \in 1..(k - 1)}
      BY <3>3 DEF VariablesOf
    <3>5. ~Mixes[Components(e)[k]][before \cup VariablesOf(items, k - 1)]
      BY <2>6, <3>4
    <3>6. FreeVariables(Components(e)[k]) \subseteq problem.forall
      <4>1. FreeVariables(Components(e)[k]) \subseteq FreeVariables(e)
        BY <2>3
      <4>2. QED
        BY <4>1 DEF Unmixed
    <3>7. QED
      BY <2>4, <3>2, <3>5, <3>6 DEF Unmixed
  <2>8. ASSUME \A k \in 1..n : items[k] # Refused
        PROVE  VariablesOf(items, n) = FreeVariables(e)
    <3>1. \A k \in 1..n : items[k].expected = Components(e)[k]
      BY <1>2, <2>1, <2>8
    <3>2. QED
      BY <2>3, <3>1 DEF VariablesOf
  <2>9. QED
    BY <2>1, <2>7, <2>8 DEF AllUnmixed, n
<1>3. QED
  BY <1>1, <1>2, ItemsAreComponents

\* What a call looks at can go on if the call can.
LEMMA LooksUnmixed ==
  ASSUME Nestings = Nat, TypeInv, result = "none", Head(work) # Refused,
         DOMAIN problem.outer \cap problem.forall = {},
         \A v \in DOMAIN contexts[2] : Plain(contexts[2][v]) /\ Ground(contexts[2][v]),
         Unmixed(Head(work).expected, Head(work).arg, DOMAIN contexts[2])
  PROVE  LET h == Head(work).expected
             D == DOMAIN contexts[2]
         IN  /\ Supported(h)
             /\ MentionsBound(h) => Evaluate(h, contexts).how \in {"value", "forever"}
             /\ \A e \in Trees : Looks(e) =>
                  /\ Unmixed(e, Head(work).arg, D)
                  /\ D \cup FreeVariables(e) = D \cup FreeVariables(h)
                  /\ e.tag = "Variable" => ~MentionsBound(e) /\ e = h
<1> DEFINE h == Head(work).expected
           a == Head(work).arg
           D == DOMAIN contexts[2]
           o == Evaluate(h, contexts)
<1>1. h \in Trees /\ a \in Trees /\ IsChain(contexts)
  BY LooksIs DEF TypeInv
<1>2. /\ D \subseteq BoundIn(contexts) /\ D \in SUBSET Variables /\ inner_context = contexts[2]
      /\ \A v \in D : LookUp(contexts, v) = contexts[2][v]
  BY <1>1, ChainIs DEF inner_context, IsChain
<1>3. Plain(h) /\ FreeVariables(h) \subseteq problem.forall /\ ~Mixes[h][D] /\ Plain(a) /\ Ground(a)
  BY DEF Unmixed
<1>4. Supported(h)
  BY <1>1, <1>3, PlainVariables
<1>5. ASSUME MentionsBound(h)
      PROVE  /\ FreeVariables(h) \subseteq D
             /\ o.how \in {"value", "forever"}
             /\ o.how = "value" => o.term \in Trees /\ Plain(o.term) /\ Ground(o.term)
  <2>1. FreeVariables(h) \cap D # {}
    BY <1>2, <1>5 DEF MentionsBound
  <2>2. FreeVariables(h) \subseteq D
    <3>1. CASE h.tag = "Variable"
      <4>1. FreeVariables(h) = {h}
        BY <1>1, <3>1, FreeVariablesAre
      <4>2. QED
        BY <2>1, <4>1
    <3>2. CASE h.tag # "Variable"
      <4>1. ~Mixing(Mixes, h, D)
        BY <1>1, <1>2, <1>3, MixesIs
      <4>2. QED
        BY <2>1, <3>2, <4>1 DEF Mixing
    <3>3. QED
      BY <3>1, <3>2
  <2>3. \A v \in D : Plain(LookUp(contexts, v)) /\ Ground(LookUp(contexts, v))
    BY <1>2
  <2> HIDE DEF h, D
  <2>4. QED
    BY <1>1, <1>2, <1>3, <2>2, <2>3, PlainEvaluation
<1>6. ASSUME NEW e \in Trees, Looks(e)
      PROVE  /\ Unmixed(e, a, D)
             /\ D \cup FreeVariables(e) = D \cup FreeVariables(h)
             /\ e.tag = "Variable" => ~MentionsBound(e) /\ e = h
  <2>1. CASE ~MentionsBound(h) /\ e = h
    BY <1>3, <2>1 DEF Unmixed
  <2>2. CASE MentionsBound(h) /\ o.how = "value" /\ e = o.term
    <3>1. Plain(e) /\ Ground(e) /\ FreeVariables(h) \subseteq D
      BY <1>5, <2>2
    <3>2. FreeVariables(e) = {} /\ ~Mixes[e][D] /\ e.tag # "Variable"
      BY <1>2, <3>1, FreeVariablesAre, GroundIsUnmixed, GroundIs
    <3>3. QED
      BY <1>3, <3>1, <3>2 DEF Unmixed
  <2>3. QED
    BY <1>6, <2>1, <2>2 DEF Looks
<1>7. QED
  BY <1>4, <1>5, <1>6

\* What a call looks at does not stop the program if the call can go on.
LEMMA UnmixedGoesOn ==
  ASSUME Nestings = Nat, TypeInv, result = "none", Head(work) # Refused,
         DOMAIN problem.outer \cap problem.forall = {},
         NEW e \in Trees, Unmixed(e, Head(work).arg, DOMAIN contexts[2]),
         e.tag = "Variable" => ~MentionsBound(e)
  PROVE  ~StopsAt(e, Head(work).arg)
<1> DEFINE a == Head(work).arg
<1>1. a \in Trees /\ IsChain(contexts)
  BY LooksIs DEF TypeInv
<1>2. PlainHere(e) /\ PlainHere(a)
  BY <1>1, PlainIs DEF Unmixed
<1>3. e.tag \notin {"Abstraction", "LetIns", "TypeOfAbstraction", "CppTerm", "Application", "DeferredValue"}
  BY <1>2 DEF PlainHere, Unmovable
<1>4. ASSUME e.tag = "Variable"
      PROVE  e \in problem.forall /\ e \notin BoundIn(contexts)
  <2>1. FreeVariables(e) = {e}
    BY <1>4, FreeVariablesAre
  <2>2. e \in problem.forall
    BY <2>1 DEF Unmixed
  <2>3. inner_context = contexts[2]
    BY <1>1 DEF inner_context, IsChain
  <2>4. e \notin DOMAIN contexts[2]
    BY <1>4, <2>1, <2>3 DEF MentionsBound
  <2>5. e \notin DOMAIN contexts[1]
    BY <2>2 DEF TypeInv
  <2>6. QED
    BY <1>1, <2>2, <2>4, <2>5, ChainIs
<1>5. ASSUME e.tag = "NumericLiteral", a.tag = "NumericLiteral"
      PROVE  Compare(e.literal, a.literal) # "undefined"
  <2>1. e.literal \in Number /\ a.literal \in Number
    BY <1>1, <1>5, TreeOverTrees, IfScalar DEF ScalarTags
  <2>2. e.literal # MIN_INT /\ a.literal # MIN_INT
    BY <1>2, <1>5 DEF PlainHere
  <2>3. QED
    BY <2>1, <2>2, CompareOrders
<1>6. QED
  BY <1>3, <1>4, <1>5 DEF StopsAt

\* A step keeps that nothing is mixed.
LEMMA NextMixesNothing ==
  ASSUME Nestings = Nat, TypeInv, NothingMixed, [Next]_vars
  PROVE  NothingMixed'
<1>1. CASE UNCHANGED vars
  <2>1. problem' = problem /\ contexts' = contexts /\ work' = work /\ result' = result
    BY <1>1 DEF vars
  <2>2. QED
    BY <2>1 DEF NothingMixed, AllUnmixed, Unmixed
<1>2. CASE Next
  <2>1. result = "none" /\ problem' = problem
    BY <1>2, StepIs DEF StepStops, StepRefuses, Return, StepBinds, StepCompares, GoesOn
  <2> SUFFICES ASSUME /\ Plain(problem.expected) /\ Plain(problem.arg) /\ Ground(problem.arg)
                      /\ FreeVariables(problem.expected) \subseteq problem.forall
                      /\ DOMAIN problem.outer \cap problem.forall = {}
                      /\ ~Mixes[problem.expected][{}]
               PROVE  /\ result' # "aborted"
                      /\ \A v \in DOMAIN contexts'[2] : Plain(contexts'[2][v]) /\ Ground(contexts'[2][v])
                      /\ result' = "none" => AllUnmixed(work', DOMAIN contexts'[2])
    <3>1. \A c, b : AllUnmixed(c, b)' = AllUnmixed(c', b')
      BY <2>1 DEF AllUnmixed, Unmixed
    <3>2. QED
      BY <2>1 DEF NothingMixed, AllUnmixed, Unmixed
  <2> DEFINE h == Head(work).expected
             a == Head(work).arg
             D == DOMAIN contexts[2]
  <2>2. /\ \A v \in D : Plain(contexts[2][v]) /\ Ground(contexts[2][v])
        /\ AllUnmixed(work, D)
    BY <2>1 DEF NothingMixed
  <2>3. /\ work \in Seq(Items) /\ work # <<>> /\ Tail(work) \in Seq(Items)
        /\ Head(work) # Refused => h \in Trees /\ a \in Trees
        /\ IsChain(contexts) /\ D \in SUBSET Variables
    BY <2>1, LooksIs DEF TypeInv, IsChain
  <2>4. ASSUME Head(work) # Refused
        PROVE  /\ Unmixed(h, a, D) /\ AllUnmixed(Tail(work), D \cup FreeVariables(h))
               /\ Supported(h)
               /\ MentionsBound(h) => Evaluate(h, contexts).how \in {"value", "forever"}
               /\ \A e \in Trees : Looks(e) =>
                    /\ Unmixed(e, a, D)
                    /\ D \cup FreeVariables(e) = D \cup FreeVariables(h)
                    /\ e.tag = "Variable" => ~MentionsBound(e) /\ e = h
    <3>1. Unmixed(h, a, D) /\ AllUnmixed(Tail(work), D \cup FreeVariables(h))
      BY <2>2, <2>3, <2>4, UnmixedParts
    <3>2. QED
      BY <2>1, <2>2, <2>4, <3>1, LooksUnmixed
  <2>5. CASE StepStops
    <3>1. Head(work) # Refused
      BY <2>5 DEF StepStops
    <3>2. PICK e \in Trees : Looks(e) /\ StopsAt(e, a)
      BY <2>4, <2>5, <3>1 DEF StepStops
    <3>3. QED
      BY <2>1, <2>4, <3>1, <3>2, UnmixedGoesOn
  <2>6. CASE StepRefuses
    BY <2>2, <2>6 DEF StepRefuses, Return
  <2>7. ASSUME Head(work) # Refused, NEW e \in Trees, Looks(e), NEW items \in Seq(Items), StepCompares(e, items)
        PROVE  /\ result' # "aborted"
               /\ \A v \in DOMAIN contexts'[2] : Plain(contexts'[2][v]) /\ Ground(contexts'[2][v])
               /\ result' = "none" => AllUnmixed(work', DOMAIN contexts'[2])
    <3>1. /\ Asks(e, a, items) /\ contexts' = contexts /\ work' = items \o Tail(work)
          /\ result' \in {"none", "unified"}
      BY <2>7 DEF StepCompares, GoesOn
    <3>2. Unmixed(e, a, D) /\ D \cup FreeVariables(e) = D \cup FreeVariables(h) /\ a \in Trees
      BY <2>3, <2>4, <2>7
    <3>3. /\ AllUnmixed(items, D)
          /\ (\A k \in DOMAIN items : items[k] # Refused) => VariablesOf(items, Len(items)) = FreeVariables(e)
      BY <2>3, <3>1, <3>2, AsksUnmixed
    <3>4. (\A k \in DOMAIN items : items[k] # Refused) => AllUnmixed(Tail(work), D \cup VariablesOf(items, Len(items)))
      BY <2>4, <2>7, <3>2, <3>3
    <3> HIDE DEF D
    <3>5. AllUnmixed(items \o Tail(work), D)
      BY <2>3, <3>3, <3>4, UnmixedParts
    <3>6. QED
      BY <2>2, <3>1, <3>5 DEF D
  <2>8. ASSUME Head(work) # Refused, NEW e \in Trees, Looks(e), StepBinds(e)
        PROVE  /\ result' # "aborted"
               /\ \A v \in DOMAIN contexts'[2] : Plain(contexts'[2][v]) /\ Ground(contexts'[2][v])
               /\ result' = "none" => AllUnmixed(work', DOMAIN contexts'[2])
    <3>1. /\ e.tag = "Variable" /\ e \notin BoundIn(contexts) /\ contexts' = Bind(contexts, e, a)
          /\ work' = <<>> \o Tail(work) /\ result' \in {"none", "unified"}
      BY <2>8 DEF StepBinds, GoesOn
    <3>2. work' = Tail(work)
      BY <2>3, <3>1, ConcatEmptySeq
    <3>3. e \in Variables /\ a \in Trees /\ FreeVariables(h) = {e} /\ Plain(a) /\ Ground(a)
      BY <2>3, <2>4, <2>8, <3>1, TaggedVariable, FreeVariablesAre DEF Unmixed
    <3> DEFINE d == Bind(contexts, e, a)
    <3>4. /\ IsChain(d) /\ DOMAIN d[2] = D \cup {e} /\ LookUp(d, e) = a
          /\ \A w \in BoundIn(contexts) : LookUp(d, w) = LookUp(contexts, w)
      BY <2>3, <3>1, <3>3, BindIs
    <3> HIDE DEF d
    <3>5. \A v \in D : v \in BoundIn(contexts) /\ LookUp(contexts, v) = contexts[2][v]
      BY <2>3, ChainIs
    <3>6. \A v \in D \cup {e} : LookUp(d, v) = d[2][v]
      BY <3>4, ChainIs
    <3>7. ASSUME NEW v \in D \cup {e}
          PROVE  Plain(d[2][v]) /\ Ground(d[2][v])
      <4>1. CASE v = e
        BY <3>3, <3>4, <3>6, <4>1
      <4>2. CASE v \in D
        <5>1. d[2][v] = contexts[2][v]
          BY <3>4, <3>5, <3>6, <4>2
        <5>2. QED
          BY <2>2, <4>2, <5>1
      <4>3. QED
        BY <4>1, <4>2
    <3>8. AllUnmixed(Tail(work), D \cup {e})
      BY <2>4, <2>8, <3>3
    <3>9. contexts' = d
      BY <3>1 DEF d
    <3>10. QED
      BY <3>1, <3>2, <3>4, <3>7, <3>8, <3>9
  <2>9. QED
    BY <1>2, <2>5, <2>6, <2>7, <2>8, StepIs
<1>3. QED
  BY <1>1, <1>2

\* UnifyExpectedTypeToArgType stops the program for plain types only because of a part
\* some of whose variables are bound and some are not (unify.cpp:42-49).
THEOREM MixedPartsStop ==
  ASSUME Nestings = Nat
  PROVE  Spec => []AbortsOnlyOnMixedParts
<1>1. Init => NothingMixed
  <2> SUFFICES ASSUME Init, Plain(problem.expected) /\ Plain(problem.arg) /\ Ground(problem.arg),
                      FreeVariables(problem.expected) \subseteq problem.forall,
                      ~Mixes[problem.expected][{}]
               PROVE  /\ result # "aborted"
                      /\ \A v \in DOMAIN contexts[2] : Plain(contexts[2][v]) /\ Ground(contexts[2][v])
                      /\ AllUnmixed(work, DOMAIN contexts[2])
    BY DEF NothingMixed
  <2> DEFINE i == Item(problem.expected, problem.arg)
  <2>1. /\ work = <<i>> /\ contexts[2] = Empty /\ DOMAIN Empty = {} /\ result = "none"
        /\ problem.expected \in Trees /\ problem.arg \in Trees
    BY ProblemsAssumption DEF Init, Problem, Empty
  <2>2. i.expected = problem.expected /\ i.arg = problem.arg
    BY <2>1, ItemIs
  <2> HIDE DEF i
  <2>3. DOMAIN work = {1} /\ work[1] = i
    BY <2>1
  <2>4. {} \cup VariablesOf(work, 1 - 1) = {}
    <3>1. 1..(1 - 1) = {}
      OBVIOUS
    <3>2. QED
      BY <3>1 DEF VariablesOf
  <2>5. Unmixed(work[1].expected, work[1].arg, {} \cup VariablesOf(work, 1 - 1))
    BY <2>2, <2>3, <2>4 DEF Unmixed
  <2>6. AllUnmixed(work, {})
    BY <2>3, <2>5 DEF AllUnmixed
  <2>7. QED
    BY <2>1, <2>6
<1>2. TypeInv /\ NothingMixed /\ [Next]_vars => NothingMixed'
  BY NextMixesNothing
<1>3. NothingMixed => AbortsOnlyOnMixedParts
  BY DEF NothingMixed, AbortsOnlyOnMixedParts
<1>4. QED
  BY <1>1, <1>2, <1>3, TypesAreKept, PTL DEF Spec

-----------------------------------------------------------------------------
(* What the variables of a type are met with first.                        *)

Maps == UNION {[D -> Trees] : D \in SUBSET Variables}
\* Maps from variables to trees.
LEMMA MapIs ==
  \A m : m \in Maps <=> DOMAIN m \subseteq Variables /\ m \in [DOMAIN m -> Trees]
BY DEF Maps

\* For each variable, the first of the maps that has it.
Merged(es, met) ==
  LET FirstWith(v) == CHOOSE k \in DOMAIN es : /\ v \in DOMAIN met[k]
                                               /\ \A l \in 1..(k - 1) : v \notin DOMAIN met[l]
  IN  [v \in UNION {DOMAIN met[k] : k \in DOMAIN es} |-> met[FirstWith(v)][v]]
\* What m says of v is what the first of the maps says that has it.
TakenFrom(m, met, n, v) ==
  \E k \in 1..n : v \in DOMAIN met[k] /\ m[v] = met[k][v] /\ \A l \in 1..(k - 1) : v \notin DOMAIN met[l]
MapsFor(es, n, met) == n \in Nat /\ DOMAIN es = 1..n /\ \A k \in 1..n : met[k] \in Maps
\* They can be merged.
LEMMA MergedIs ==
  ASSUME NEW es, NEW n, NEW met, MapsFor(es, n, met)
  PROVE  /\ Merged(es, met) \in Maps
         /\ DOMAIN Merged(es, met) = UNION {DOMAIN met[k] : k \in 1..n}
         /\ \A v \in DOMAIN Merged(es, met) : TakenFrom(Merged(es, met), met, n, v)
<1> DEFINE Is(v, k) == v \in DOMAIN met[k] /\ \A l \in 1..(k - 1) : v \notin DOMAIN met[l]
           First(v) == CHOOSE k \in DOMAIN es : Is(v, k)
           D == UNION {DOMAIN met[k] : k \in 1..n}
           m == [v \in D |-> met[First(v)][v]]
<1>0. n \in Nat /\ DOMAIN es = 1..n /\ \A k \in 1..n : met[k] \in Maps
  BY DEF MapsFor
<1>1. Merged(es, met) = m
  BY <1>0 DEF Merged
<1>2. ASSUME NEW v \in D
      PROVE  \E k \in 1..n : Is(v, k)
  <2> DEFINE S == {k \in 1..n : v \in DOMAIN met[k]}
  <2>1. S \subseteq Nat /\ S # {}
    BY <1>0
  <2> HIDE DEF S
  <2>2. PICK k \in S : \A l \in S : k <= l
    BY <2>1, Least
  <2>3. k \in 1..n /\ v \in DOMAIN met[k]
    BY DEF S
  <2>4. ASSUME NEW l \in 1..(k - 1)
        PROVE  v \notin DOMAIN met[l]
    <3>1. l \in 1..n /\ ~(k <= l)
      BY <1>0, <2>3
    <3>2. l \notin S
      BY <2>2, <3>1
    <3>3. QED
      BY <3>1, <3>2 DEF S
  <2>5. QED
    BY <2>3, <2>4
<1>3. \A v \in D : First(v) \in 1..n /\ Is(v, First(v))
  BY <1>0, <1>2
<1> HIDE DEF First
<1>5. DOMAIN m = D /\ \A v \in D : m[v] = met[First(v)][v]
  OBVIOUS
<1>7. ASSUME NEW v \in D
      PROVE  m[v] \in Trees
  <2>1. First(v) \in 1..n /\ v \in DOMAIN met[First(v)]
    BY <1>3
  <2>2. met[First(v)] \in [DOMAIN met[First(v)] -> Trees]
    BY <1>0, <2>1, MapIs
  <2>3. QED
    BY <1>5, <2>1, <2>2
<1>8. D \subseteq Variables
  BY <1>0, MapIs
<1> DEFINE q == m
<1>9. q \in [D -> Trees] /\ DOMAIN q = D
  BY <1>5, <1>7
<1> HIDE DEF m
<1>10. m \in Maps
  BY <1>8, <1>9 DEF Maps
<1>11. ASSUME NEW v \in D
       PROVE  TakenFrom(m, met, n, v)
  BY <1>3, <1>5 DEF TakenFrom
<1>12. QED
  BY <1>0, <1>1, <1>5, <1>10, <1>11

\* FirstMet, with a function for what is below.
Meeting(m, e, a) ==
  IF e.tag = "Variable" THEN [v \in {e} |-> a]
  ELSE IF e.tag # a.tag \/ Len(Components(e)) # Len(Components(a)) THEN Empty
  ELSE Merged(Components(e), [k \in DOMAIN Components(e) |-> m[Components(e)[k]][Components(a)[k]]])
\* It looks at what is below only.
LEMMA MeetingOfComponents ==
  ASSUME Nestings = Nat, NEW e \in Trees, NEW a \in Trees, NEW m, NEW n,
         \A u \in Range(Components(e)) : \A b \in Trees : m[u][b] \in Maps /\ m[u][b] = n[u][b]
  PROVE  Meeting(m, e, a) \in Maps /\ Meeting(m, e, a) = Meeting(n, e, a)
<1>1. CASE e.tag = "Variable"
  <2>1. e \in Variables
    BY <1>1, TaggedVariable
  <2>2. [v \in {e} |-> a] \in [{e} -> Trees] /\ {e} \in SUBSET Variables
    BY <2>1
  <2>3. QED
    BY <1>1, <2>2 DEF Meeting, Maps
<1>2. CASE e.tag # "Variable" /\ (e.tag # a.tag \/ Len(Components(e)) # Len(Components(a)))
  <2>1. Empty \in [{} -> Trees] /\ {} \in SUBSET Variables
    BY DEF Empty
  <2>2. QED
    BY <1>2, <2>1 DEF Meeting, Maps
<1>3. CASE e.tag # "Variable" /\ ~(e.tag # a.tag \/ Len(Components(e)) # Len(Components(a)))
  <2> DEFINE es == Components(e)
             M(f) == [k \in DOMAIN es |-> f[es[k]][Components(a)[k]]]
  <2>1. /\ Len(es) \in Nat /\ DOMAIN es = 1..Len(es) /\ DOMAIN Components(a) = 1..Len(es)
        /\ \A k \in 1..Len(es) : es[k] \in Range(es) /\ Components(a)[k] \in Trees
    BY <1>3, ComponentsAreTrees DEF Range
  <2>2. \A k \in 1..Len(es) : m[es[k]][Components(a)[k]] \in Maps
                              /\ m[es[k]][Components(a)[k]] = n[es[k]][Components(a)[k]]
    BY <2>1
  <2>3. M(m) = M(n) /\ \A k \in 1..Len(es) : M(m)[k] \in Maps
    BY <2>1, <2>2
  <2>4. Meeting(m, e, a) = Merged(es, M(m)) /\ Meeting(n, e, a) = Merged(es, M(n))
    BY <1>3 DEF Meeting
  <2> HIDE DEF M, es
  <2>5. Merged(es, M(m)) \in Maps
    BY <2>1, <2>3, MergedIs DEF MapsFor
  <2>6. QED
    BY <2>3, <2>4, <2>5
<1>4. QED
  BY <1>1, <1>2, <1>3

\* What FirstMet says.
LEMMA FirstMetIs ==
  ASSUME Nestings = Nat, NEW e \in Trees, NEW a \in Trees
  PROVE  FirstMet[e][a] \in Maps /\ FirstMet[e][a] = Meeting(FirstMet, e, a)
<1> DEFINE V == [Trees -> Maps]
           B == [x \in Trees |-> [r \in [Range(Components(x)) -> V] |-> [y \in Trees |-> Meeting(r, x, y)]]]
<1>1. ASSUME NEW x \in Trees, NEW r \in [Range(Components(x)) -> V]
      PROVE  B[x][r] = [y \in Trees |-> Meeting(r, x, y)] /\ B[x][r] \in V
  <2>1. \A u \in Range(Components(x)) : \A b \in Trees : r[u][b] \in Maps /\ r[u][b] = r[u][b]
    OBVIOUS
  <2>2. \A y \in Trees : Meeting(r, x, y) \in Maps
    BY <2>1, MeetingOfComponents
  <2>3. B[x][r] = [y \in Trees |-> Meeting(r, x, y)]
    OBVIOUS
  <2>4. QED
    BY <2>2, <2>3
<1> HIDE DEF B
<1>2. PICK f : f \in [Trees -> V] /\ \A x \in Trees : f[x] = B[x][Given(f, x)]
  <2>1. Closed(V, B)
    BY <1>1 DEF Closed
  <2> HIDE DEF V
  <2>2. QED
    BY <2>1, TreeRecursion DEF Defined
<1>3. ASSUME NEW x \in Trees PROVE f[x] = [y \in Trees |-> Meeting(f, x, y)]
  <2>1. Given(f, x) \in [Range(Components(x)) -> V] /\ \A u \in Range(Components(x)) : Given(f, x)[u] = f[u]
    <3> HIDE DEF V
    <3>1. QED
      BY <1>2, GivenIs
  <2>2. f[x] = [y \in Trees |-> Meeting(Given(f, x), x, y)]
    BY <1>1, <1>2, <2>1
  <2> DEFINE g == Given(f, x)
  <2>3. \A u \in Range(Components(x)) : \A b \in Trees : g[u][b] \in Maps /\ g[u][b] = f[u][b]
    BY <2>1
  <2> HIDE DEF g
  <2>4. \A y \in Trees : Meeting(g, x, y) = Meeting(f, x, y)
    BY <2>3, MeetingOfComponents
  <2>5. QED
    BY <2>2, <2>4 DEF g
<1> DEFINE Is(g) == g = [x \in Trees |-> [y \in Trees |-> Meeting(g, x, y)]]
<1>4. Is(f)
  BY <1>2, <1>3
<1>5. FirstMet = CHOOSE g : Is(g)
  BY DEF FirstMet, Meeting, Merged
<1>6. Is(FirstMet)
  <2> HIDE DEF Is
  <2>1. QED
    BY <1>4, <1>5
<1>7. \A x, y \in Trees : FirstMet[x][y] = Meeting(FirstMet, x, y)
  BY <1>6
<1> DEFINE T == {x \in Trees : \A y \in Trees : FirstMet[x][y] \in Maps}
<1>8. ASSUME NEW x \in Trees, \A k \in DOMAIN Components(x) : Components(x)[k] \in T PROVE x \in T
  <2>1. \A u \in Range(Components(x)) : \A b \in Trees : FirstMet[u][b] \in Maps /\ FirstMet[u][b] = FirstMet[u][b]
    BY <1>8 DEF Range
  <2>2. \A y \in Trees : Meeting(FirstMet, x, y) \in Maps
    BY <2>1, MeetingOfComponents
  <2>3. QED
    BY <1>7, <2>2
<1> HIDE DEF T
<1>9. Trees \subseteq T
  BY <1>8, TreeInduction
<1>10. QED
  BY <1>7, <1>9 DEF T

\* What FirstMet says of a variable comes from the first component with it.
MetAt(e, a, k, v) == v \in DOMAIN FirstMet[Components(e)[k]][Components(a)[k]]
MetFirstAt(e, a, k, v) ==
  /\ k \in DOMAIN Components(e) /\ k \in DOMAIN Components(a)
  /\ MetAt(e, a, k, v)
  /\ FirstMet[e][a][v] = FirstMet[Components(e)[k]][Components(a)[k]][v]
  /\ \A l \in 1..(k - 1) : ~MetAt(e, a, l, v)
\* It follows from the components.
LEMMA FirstMetOfComponents ==
  ASSUME Nestings = Nat, NEW e \in Trees, NEW a \in Trees
  PROVE  /\ e.tag = "Variable" => FirstMet[e][a] = [v \in {e} |-> a]
         /\ e.tag # "Variable" => \A v \in DOMAIN FirstMet[e][a] : \E k : MetFirstAt(e, a, k, v)
         /\ e.tag # "Variable" /\ e.tag = a.tag /\ Len(Components(e)) = Len(Components(a)) =>
              \A k \in DOMAIN Components(e) : \A v : MetAt(e, a, k, v) => v \in DOMAIN FirstMet[e][a]
<1>1. FirstMet[e][a] = Meeting(FirstMet, e, a)
  BY FirstMetIs
<1>2. CASE e.tag = "Variable"
  BY <1>1, <1>2 DEF Meeting
<1>3. CASE e.tag # "Variable" /\ (e.tag # a.tag \/ Len(Components(e)) # Len(Components(a)))
  <2>1. FirstMet[e][a] = Empty /\ DOMAIN Empty = {}
    BY <1>1, <1>3 DEF Meeting, Empty
  <2>2. QED
    BY <1>3, <2>1
<1>4. CASE e.tag # "Variable" /\ ~(e.tag # a.tag \/ Len(Components(e)) # Len(Components(a)))
  <2> DEFINE es == Components(e)
             bs == Components(a)
             n == Len(es)
             met == [k \in DOMAIN es |-> FirstMet[es[k]][bs[k]]]
             m == Merged(es, met)
  <2>1. /\ n \in Nat /\ DOMAIN es = 1..n /\ DOMAIN bs = 1..n
        /\ \A k \in 1..n : es[k] \in Trees /\ bs[k] \in Trees
    BY <1>4, ComponentsAreTrees
  <2>2. FirstMet[e][a] = m
    BY <1>1, <1>4 DEF Meeting
  <2>3. \A k \in 1..n : met[k] = FirstMet[es[k]][bs[k]] /\ met[k] \in Maps
    BY <2>1, FirstMetIs
  <2>4. \A k \in 1..n : \A v : v \in DOMAIN met[k] <=> MetAt(e, a, k, v)
    BY <2>3 DEF MetAt
  <2> HIDE DEF es, bs, n, met, m
  <2>5. MapsFor(es, n, met)
    BY <2>1, <2>3 DEF MapsFor
  <2>6. /\ DOMAIN m = UNION {DOMAIN met[k] : k \in 1..n}
        /\ \A v \in DOMAIN m : TakenFrom(m, met, n, v)
    BY <2>5, MergedIs DEF m
  <2>7. ASSUME NEW v \in DOMAIN m
        PROVE  \E k : MetFirstAt(e, a, k, v)
    <3>1. PICK k \in 1..n : /\ v \in DOMAIN met[k] /\ m[v] = met[k][v]
                            /\ \A l \in 1..(k - 1) : v \notin DOMAIN met[l]
      BY <2>6 DEF TakenFrom
    <3>2. \A l \in 1..(k - 1) : l \in 1..n
      BY <2>1
    <3>3. MetAt(e, a, k, v) /\ \A l \in 1..(k - 1) : ~MetAt(e, a, l, v)
      BY <2>4, <3>1, <3>2
    <3>4. FirstMet[e][a][v] = FirstMet[Components(e)[k]][Components(a)[k]][v]
      BY <2>2, <2>3, <3>1 DEF es, bs
    <3>5. k \in DOMAIN Components(e) /\ k \in DOMAIN Components(a)
      BY <2>1 DEF es, bs
    <3>6. MetFirstAt(e, a, k, v)
      BY <3>3, <3>4, <3>5 DEF MetFirstAt
    <3>7. QED
      BY <3>6
  <2>8. ASSUME NEW k \in 1..n, NEW v, MetAt(e, a, k, v)
        PROVE  v \in DOMAIN m
    BY <2>4, <2>6, <2>8
  <2>9. QED
    BY <1>4, <2>1, <2>2, <2>7, <2>8 DEF es
<1>5. QED
  BY <1>2, <1>3, <1>4

\* What is within something within a tree is within the tree.
LEMMA WithinWithin ==
  ASSUME Nestings = Nat, NEW t \in Trees, NEW u \in Within[t]
  PROVE  Within[u] \subseteq Within[t]
<1> DEFINE T == {x \in Trees : \A y \in Within[x] : Within[y] \subseteq Within[x]}
<1>1. ASSUME NEW x \in Trees, \A k \in DOMAIN Components(x) : Components(x)[k] \in T PROVE x \in T
  BY <1>1, WithinComponents
<1> HIDE DEF T
<1>2. Trees \subseteq T
  BY <1>1, TreeInduction
<1>3. QED
  BY <1>2 DEF T

\* Variables of the one type are met with what is within the other.
LEMMA MetWithin ==
  ASSUME Nestings = Nat, NEW e \in Trees, NEW a \in Trees, NEW v \in DOMAIN FirstMet[e][a]
  PROVE  v \in Variables /\ v \in Within[e] /\ FirstMet[e][a][v] \in Within[a]
<1> DEFINE T == {x \in Trees : \A y \in Trees : \A w \in DOMAIN FirstMet[x][y] :
                   w \in Variables /\ w \in Within[x] /\ FirstMet[x][y][w] \in Within[y]}
<1>1. ASSUME NEW x \in Trees, \A k \in DOMAIN Components(x) : Components(x)[k] \in T PROVE x \in T
  <2> SUFFICES ASSUME NEW y \in Trees, NEW w \in DOMAIN FirstMet[x][y]
               PROVE  w \in Variables /\ w \in Within[x] /\ FirstMet[x][y][w] \in Within[y]
    OBVIOUS
  <2>1. CASE x.tag = "Variable"
    <3>1. w = x /\ FirstMet[x][y][w] = y
      <4>1. FirstMet[x][y] = [z \in {x} |-> y]
        BY <2>1, FirstMetOfComponents
      <4>2. QED
        BY <4>1
    <3>2. QED
      BY <2>1, <3>1, TaggedVariable, WithinComponents
  <2>2. CASE x.tag # "Variable"
    <3>1. PICK k : MetFirstAt(x, y, k, w)
      BY <2>2, FirstMetOfComponents
    <3>2. /\ k \in DOMAIN Components(x) /\ k \in DOMAIN Components(y)
          /\ w \in DOMAIN FirstMet[Components(x)[k]][Components(y)[k]]
          /\ FirstMet[x][y][w] = FirstMet[Components(x)[k]][Components(y)[k]][w]
      BY <3>1 DEF MetFirstAt, MetAt
    <3>3. Components(y)[k] \in Trees /\ Components(x)[k] \in T
      BY <1>1, <3>2, ComponentsAreTrees
    <3>4. w \in Variables /\ w \in Within[Components(x)[k]] /\ FirstMet[x][y][w] \in Within[Components(y)[k]]
      BY <3>2, <3>3
    <3>5. QED
      BY <3>2, <3>4, WithinComponents
  <2>3. QED
    BY <2>1, <2>2
<1> HIDE DEF T
<1>2. Trees \subseteq T
  BY <1>1, TreeInduction
<1>3. QED
  BY <1>2 DEF T

-----------------------------------------------------------------------------
(* Evaluating terms that can be compared.                                  *)

\* What makes a type comparable, at its root.
ComparableHere(u) ==
  /\ u.tag # "Application"
  /\ u.tag = "ProductType" => Ground(u)
  /\ u.tag = "ProductValue" => Len(u.members) <= 1
\* A tree is comparable if its root and its components are; so is what is within it.
LEMMA ComparableIs ==
  ASSUME Nestings = Nat, NEW t \in Trees
  PROVE  /\ Comparable(t) <=> ComparableHere(t) /\ \A k \in DOMAIN Components(t) : Comparable(Components(t)[k])
         /\ \A u \in Within[t] : Comparable(t) => Comparable(u)
         /\ \A u \in Within[t] : Ground(t) => Ground(u)
<1>1. \A u : Comparable(u) <=> \A x \in Within[u] : ComparableHere(x)
  BY DEF Comparable, ComparableHere
<1>2. \A u \in Within[t] : Within[u] \subseteq Within[t]
  BY WithinWithin
<1>3. Comparable(t) <=> ComparableHere(t) /\ \A k \in DOMAIN Components(t) : Comparable(Components(t)[k])
  BY <1>1, WithinComponents
<1>4. \A u \in Within[t] : Ground(t) => Ground(u)
  BY <1>2 DEF Ground
<1>5. QED
  BY <1>1, <1>2, <1>3, <1>4

\* Substituting in a tree without variables does nothing.
LEMMA GroundIsKept ==
  ASSUME Nestings = Nat, NEW s, Substitution(s), NEW t \in Trees, Ground(t)
  PROVE  Substituted(s, t) = t
<1> DEFINE T == {x \in Trees : Ground(x) => Substituted(s, x) = x}
<1>1. ASSUME NEW x \in Trees, \A k \in DOMAIN Components(x) : Components(x)[k] \in T PROVE x \in T
  <2> SUFFICES ASSUME Ground(x) PROVE Substituted(s, x) = x
    OBVIOUS
  <2>1. x.tag # "Variable" /\ \A k \in DOMAIN Components(x) : Ground(Components(x)[k])
    BY GroundIs
  <2>2. x \notin DOMAIN s
    BY <2>1, Substituting
  <2>3. CASE x.tag \notin Composites
    BY <2>2, <2>3, Substituting
  <2>4. CASE x.tag \in Composites
    <3>1. \A k \in DOMAIN Components(x) : Substituted(s, Components(x)[k]) = Components(x)[k]
      BY <1>1, <2>1
    <3>2. Components(x) \in Seq(Trees)
      BY ComponentsAreTrees
    <3>3. Components(x) = [k \in DOMAIN Components(x) |-> Components(x)[k]]
      BY <3>2
    <3>4. Substitutes(s, x) = Components(x)
      BY <3>1, <3>3 DEF Substitutes
    <3>5. WithComponents(x, Components(x)) = x
      BY <2>4, <3>2, WithComponentsAre
    <3>6. QED
      BY <2>2, <2>4, <3>4, <3>5, Substituting
  <2>5. QED
    BY <2>3, <2>4
<1> HIDE DEF T
<1>2. Trees \subseteq T
  BY <1>1, TreeInduction
<1>3. QED
  BY <1>2 DEF T

\* A comparable term whose variables are bound to comparable types without variables
\* is never refused; it becomes such a type if all its variables are bound.
LEMMA ComparableEvaluation ==
  ASSUME Nestings = Nat, NEW c, IsChain(c), NEW out, out \subseteq Variables,
         \A v \in BoundIn(c) : v \notin out => Comparable(LookUp(c, v)) /\ Ground(LookUp(c, v)),
         NEW s, Substitution(s),
         \A v \in BoundIn(c) : v \notin out => v \in DOMAIN s /\ s[v] = LookUp(c, v),
         NEW t \in Trees, Comparable(t), Within[t] \cap out = {}
  PROVE  LET o == Evaluate(t, c)
         IN  /\ o.how # "nullopt"
             /\ o.how = "value" =>
                  /\ o.term = Substituted(s, t)
                  /\ o.term \in Trees /\ Comparable(o.term) /\ Ground(o.term)
                  /\ Within[t] \cap Variables \subseteq BoundIn(c)
<1> DEFINE D == BoundIn(c) \ out
           P(x, o) ==
             /\ o.how # "nullopt"
             /\ o.how = "value" =>
                  Comparable(o.term) /\ Ground(o.term) /\ Within[x] \cap Variables \subseteq D
           Good == {p \in Trees \X Outcomes : P(p[1], p[2])}
           R == {x \in Trees : Comparable(x) /\ Within[x] \cap out = {}}
<1>1. \A x \in Trees, o \in Outcomes : <<x, o>> \in Good <=> P(x, o)
  OBVIOUS
<1>2. R \subseteq Trees /\ \A x \in Trees : x \in R <=> Comparable(x) /\ Within[x] \cap out = {}
  OBVIOUS
<1> HIDE DEF Good, R
<1>3. \A v \in R : v \in BoundIn(c) => /\ v.tag = "Variable" /\ v \in D /\ Within[v] = {v}
  <2>1. ASSUME NEW v \in R, v \in BoundIn(c)
        PROVE  v.tag = "Variable" /\ v \in D /\ Within[v] = {v}
    <3>1. v \in Trees /\ v \in Variables /\ v.tag = "Variable"
      BY <1>2, <2>1, ChainIs, TaggedVariable
    <3>2. v \in Within[v] /\ Within[v] \cap out = {}
      BY <1>2, <2>1, <3>1, WithinComponents
    <3>3. DOMAIN Components(v) = {}
      BY <3>1, TaggedVariable
    <3>4. \A u \in Within[v] : u = v
      BY <3>1, <3>3, WithinComponents
    <3>5. QED
      BY <2>1, <3>1, <3>2, <3>4
  <2>2. QED
    BY <2>1
<1>4. \A v \in D : LookUp(c, v) \in Trees /\ LookUp(c, v) \in R
  <2>1. ASSUME NEW v \in D
        PROVE  LookUp(c, v) \in Trees /\ LookUp(c, v) \in R
    <3>1. LookUp(c, v) \in Trees /\ Comparable(LookUp(c, v)) /\ Ground(LookUp(c, v))
      BY ChainIs
    <3>2. \A u \in Within[LookUp(c, v)] : u \in Trees /\ u.tag # "Variable"
      BY <3>1, WithinComponents DEF Ground
    <3>3. Within[LookUp(c, v)] \cap out = {}
      BY <3>2, TaggedVariable
    <3>4. QED
      BY <1>2, <3>1, <3>3
  <2>2. QED
    BY <2>1
<1>5. ASSUME NEW x \in R, NEW k \in DOMAIN Components(x)
      PROVE  Components(x)[k] \in R /\ Components(x)[k] \in Trees
  <2>1. x \in Trees /\ Components(x)[k] \in Trees
    BY <1>2, ComponentsAreTrees
  <2>2. Comparable(Components(x)[k]) /\ Within[Components(x)[k]] \subseteq Within[x]
    BY <1>2, <2>1, ComparableIs, WithinComponents
  <2>3. QED
    BY <1>2, <2>1, <2>2
<1>6. ClosedIn(c, R)
  BY <1>2, <1>3, <1>4, <1>5 DEF ClosedIn
<1>7. ASSUME NEW x \in R, NEW part \in [DOMAIN Components(x) -> Outcomes], NEW again \in Outcomes,
             \A k \in DOMAIN Components(x) : <<Components(x)[k], part[k]>> \in Good,
             x \in BoundIn(c) => <<x, again>> \in Good
      PROVE  <<x, EvaluateTerm(x, c, part, again)>> \in Good
  <2> DEFINE o == EvaluateTerm(x, c, part, again)
  <2>1. /\ o \in Outcomes /\ x \in Trees
        /\ x.tag = "Variable" => o = IF ~IsBound(c, x) \/ LookUp(c, x).tag = "DeferredValue" THEN Aborted ELSE again
        /\ x.tag = "DeferredValue" => o = Aborted
        /\ x.tag \in Composites => o = EvaluateComposite(x, c, part)
        /\ x.tag \notin Composites \cup {"Variable", "Application", "DeferredValue"} => o = Value(x)
    BY <1>2, <1>7, TermIs
  <2> HIDE DEF o
  <2>2. /\ \A k \in DOMAIN Components(x) : P(Components(x)[k], part[k])
        /\ ComparableHere(x) /\ Comparable(x)
    BY <1>1, <1>2, <1>5, <1>7, <2>1, ComparableIs
  <2>3. Aborted.how = "aborted"
    BY DEF Aborted
  <2>4. CASE x.tag = "Variable"
    <3>1. CASE o = Aborted
      BY <1>1, <2>1, <2>3, <3>1 DEF o
    <3>2. CASE IsBound(c, x) /\ o = again
      <4>1. x \in BoundIn(c)
        BY <3>2, ChainIs
      <4>2. QED
        BY <1>7, <3>2, <4>1 DEF o
    <3>3. QED
      BY <2>1, <2>4, <3>1, <3>2
  <2>5. CASE x.tag \in Composites
    <3>1. o = EvaluateComposite(x, c, part)
      BY <2>1, <2>5
    <3>2. ASSUME o.how = "value"
          PROVE  Comparable(o.term) /\ Ground(o.term) /\ Within[x] \cap Variables \subseteq D
      <4>1. /\ \A k \in DOMAIN Components(x) : part[k].how = "value" /\ part[k].term \in Trees
            /\ Becoming(part) \in Seq(Trees) /\ Len(Becoming(part)) = Len(Components(x))
            /\ o = Value(WithComponents(x, Becoming(part)))
        BY <2>1, <2>5, <3>1, <3>2, CompositeIs
      <4> DEFINE us == Becoming(part)
                 w == WithComponents(x, us)
      <4>2. w \in Trees /\ w.tag = x.tag /\ Components(w) = us
        BY <2>1, <2>5, <4>1, WithComponentsAre
      <4>3. DOMAIN us = DOMAIN Components(x) /\ \A k \in DOMAIN Components(x) : us[k] = part[k].term
        BY DEF Becoming
      <4>4. \A k \in DOMAIN us : Comparable(us[k]) /\ Ground(us[k])
        BY <2>2, <4>1, <4>3
      <4>5. x.tag # "Variable"
        BY <2>5 DEF Composites, Products
      <4>6. Ground(w)
        BY <4>2, <4>4, <4>5, GroundIs
      <4>7. x.tag = "ProductValue" => Len(w.members) = Len(x.members)
        <5>1. x \in TreesOver(Trees)
          BY <2>1, TreeOverTrees
        <5>2. QED
          BY <4>1, <5>1, WithProductValue
      <4>8. ComparableHere(w)
        BY <2>2, <4>2, <4>6, <4>7 DEF ComparableHere
      <4>9. Comparable(w)
        BY <4>2, <4>4, <4>8, ComparableIs
      <4>10. Within[x] \cap Variables \subseteq D
        <5>1. x \notin Variables
          BY <2>1, <4>5, TaggedVariable
        <5>2. \A k \in DOMAIN Components(x) : Within[Components(x)[k]] \cap Variables \subseteq D
          BY <2>2, <4>1
        <5>3. QED
          BY <2>1, <5>1, <5>2, WithinComponents
      <4>11. o.term = w
        BY <4>1 DEF Value
      <4>12. QED
        BY <4>6, <4>9, <4>10, <4>11
    <3>3. o.how # "nullopt"
      <4> SUFFICES ASSUME o.how = "nullopt" PROVE FALSE
        OBVIOUS
      <4>1. PICK k \in DOMAIN Components(x) : part[k].how = o.how
        BY <2>1, <2>5, <3>1, CompositeIs
      <4>2. QED
        BY <2>2, <4>1
    <3>4. QED
      BY <1>1, <2>1, <3>2, <3>3 DEF o
  <2>6. CASE x.tag = "DeferredValue"
    BY <1>1, <2>1, <2>3, <2>6 DEF o
  <2>7. CASE x.tag \notin Composites /\ x.tag \notin {"Variable", "DeferredValue"}
    <3>1. x.tag # "Application"
      BY <2>2 DEF ComparableHere
    <3>2. o = Value(x)
      BY <2>1, <2>7, <3>1
    <3>3. x.tag \in TreeTags
      BY <2>1, TreeOverTrees, TreeTag
    <3>4. Components(x) = <<>>
      BY <2>7, <3>1, <3>3, NoComponents DEF TreeTags, Composites, Products
    <3>5. Ground(x) /\ \A u \in Within[x] : u = x
      BY <2>1, <2>7, <3>4, GroundIs, WithinComponents
    <3>6. Within[x] \cap Variables \subseteq D
      BY <2>1, <2>7, <3>5, TaggedVariable
    <3>7. P(x, o)
      BY <2>2, <3>2, <3>5, <3>6 DEF Value
    <3>8. QED
      BY <1>1, <2>1, <3>7 DEF o
  <2>8. QED
    BY <2>4, <2>5, <2>6, <2>7
<1>8. KeptBy(c, R, Good)
  <2>1. ASSUME NEW v \in R \cap BoundIn(c)
        PROVE  <<v, [how |-> "forever"]>> \in Good
    <3>1. [how |-> "forever"] \in Outcomes
      BY DEF Outcomes
    <3>2. QED
      BY <1>1, <1>2, <3>1
  <2>2. ASSUME NEW v \in R \cap BoundIn(c), NEW o \in Outcomes, <<LookUp(c, v), o>> \in Good
        PROVE  <<v, o>> \in Good
    <3>1. v \in Trees /\ LookUp(c, v) \in Trees /\ Within[v] = {v} /\ v \in D
      BY <1>2, <1>3, ChainIs
    <3>2. P(LookUp(c, v), o)
      BY <1>1, <2>2, <3>1
    <3>3. QED
      BY <1>1, <3>1, <3>2
  <2>3. QED
    BY <1>7, <2>1, <2>2 DEF KeptBy
<1>9. t \in R
  BY <1>2
<1>10. Evaluate(t, c) \in Outcomes /\ <<t, Evaluate(t, c)>> \in Good
  BY <1>6, <1>8, <1>9, EvaluateInduction
<1>11. P(t, Evaluate(t, c))
  BY <1>1, <1>10
<1>12. Evaluate(t, c).how = "value" => /\ Evaluate(t, c).term \in Trees
                                       /\ Substituted(s, Evaluate(t, c).term) = Substituted(s, t)
  <2>1. ASSUME NEW v \in R \cap BoundIn(c)
        PROVE  v \in DOMAIN s /\ s[v] = Substituted(s, LookUp(c, v))
    <3>1. v \in D /\ LookUp(c, v) \in Trees
      BY <1>3, <1>4
    <3>2. Substituted(s, LookUp(c, v)) = LookUp(c, v)
      BY <3>1, GroundIsKept
    <3>3. QED
      BY <3>1, <3>2
  <2>2. QED
    BY <1>6, <1>9, <2>1, EvaluationKeepsSolutions
<1>13. Evaluate(t, c).how = "value" => Substituted(s, Evaluate(t, c).term) = Evaluate(t, c).term
  BY <1>11, <1>12, GroundIsKept
<1>14. QED
  BY <1>11, <1>12, <1>13

-----------------------------------------------------------------------------
(* A call refuses no argument that what its variables are met with first   *)
(* makes match.                                                            *)

\* A call that is not refused, given what the variables are met with first.
Hopeful(s, out, e, a) ==
  /\ Comparable(e) /\ Within[e] \cap out = {} /\ Comparable(a) /\ Ground(a)
  /\ Agree(s, e, a)
HopefulItems(s, out) == {i \in Items : i # Refused /\ Hopeful(s, out, i.expected, i.arg)}

\* The first of the calls that meets v meets it with t.
MetIn(i, v) == v \in DOMAIN FirstMet[i.expected][i.arg]
FirstIn(calls, v, t) ==
  \E k \in DOMAIN calls : /\ MetIn(calls[k], v) /\ FirstMet[calls[k].expected][calls[k].arg][v] = t
                          /\ \A l \in 1..(k - 1) : ~MetIn(calls[l], v)

\* The invariant: for an argument that can be made to match, the bindings are those that
\* make it match, and so will those be that the calls to come make.
RefusesNothing ==
  LET s == FirstMet[problem.expected][problem.arg]
      out == DOMAIN problem.outer
  IN  /\ Comparable(problem.expected) /\ Comparable(problem.arg) /\ Ground(problem.arg)
      /\ out \cap Within[problem.expected] = {}
      /\ Matchable(problem.expected, problem.arg)
      =>
      /\ result # "nullopt"
      /\ \A v \in DOMAIN contexts[2] : v \in DOMAIN s /\ contexts[2][v] = s[v]
      /\ result = "none" =>
           /\ work \in Seq(HopefulItems(s, out))
           /\ \A v, t : v \notin DOMAIN contexts[2] /\ FirstIn(work, v, t) => v \in DOMAIN s /\ s[v] = t

\* The first call that meets a variable, of calls before others and of the rest of some.
LEMMA FirstInParts ==
  ASSUME NEW p \in Seq(Items), NEW q \in Seq(Items), NEW v, NEW t
  PROVE  /\ FirstIn(p \o q, v, t) => \/ FirstIn(p, v, t)
                                     \/ (\A l \in DOMAIN p : ~MetIn(p[l], v)) /\ FirstIn(q, v, t)
         /\ p # <<>> /\ MetIn(Head(p), v) => FirstIn(p, v, FirstMet[Head(p).expected][Head(p).arg][v])
         /\ p # <<>> /\ ~MetIn(Head(p), v) /\ FirstIn(Tail(p), v, t) => FirstIn(p, v, t)
<1> DEFINE MeetsWith(i) == MetIn(i, v) /\ FirstMet[i.expected][i.arg][v] = t
<1>1. \A c : FirstIn(c, v, t) <=> \E k \in DOMAIN c : MeetsWith(c[k]) /\ \A l \in 1..(k - 1) : ~MetIn(c[l], v)
  BY DEF FirstIn
<1>2. /\ DOMAIN p = 1..Len(p) /\ DOMAIN q = 1..Len(q) /\ Len(p) \in Nat /\ Len(q) \in Nat
      /\ p \o q \in Seq(Items) /\ Len(p \o q) = Len(p) + Len(q) /\ DOMAIN (p \o q) = 1..(Len(p) + Len(q))
      /\ \A k \in 1..(Len(p) + Len(q)) : (p \o q)[k] = IF k <= Len(p) THEN p[k] ELSE q[k - Len(p)]
  BY ConcatProperties, SeqIsFunction
<1>3. ASSUME FirstIn(p \o q, v, t)
      PROVE  \/ FirstIn(p, v, t)
             \/ (\A l \in DOMAIN p : ~MetIn(p[l], v)) /\ FirstIn(q, v, t)
  <2> DEFINE w == p \o q
             n == Len(p)
  <2>1. PICK k \in 1..(n + Len(q)) : MeetsWith(w[k]) /\ \A l \in 1..(k - 1) : ~MetIn(w[l], v)
    BY <1>1, <1>2, <1>3
  <2>2. n \in Nat /\ \A l \in 1..(n + Len(q)) : w[l] = IF l <= n THEN p[l] ELSE q[l - n]
    BY <1>2
  <2> HIDE DEF w, MeetsWith
  <2>3. CASE k <= n
    <3>1. k \in DOMAIN p /\ w[k] = p[k]
      BY <1>2, <2>2, <2>3
    <3>2. \A l \in 1..(k - 1) : w[l] = p[l]
      BY <2>2, <2>3
    <3>3. QED
      BY <1>1, <2>1, <3>1, <3>2
  <2>4. CASE ~(k <= n)
    <3> DEFINE m == k - n
    <3>1. m \in 1..Len(q) /\ k = n + m /\ w[k] = q[m]
      BY <1>2, <2>2, <2>4
    <3>2. \A l \in 1..n : l \in 1..(k - 1) /\ l \in 1..(n + Len(q)) /\ l <= n
      BY <1>2, <2>2, <3>1
    <3>3. \A l \in 1..n : ~MetIn(p[l], v)
      BY <2>1, <2>2, <3>2
    <3>4. \A l \in 1..(m - 1) : n + l \in 1..(k - 1) /\ n + l \in 1..(n + Len(q)) /\ ~(n + l <= n) /\ (n + l) - n = l
      BY <1>2, <2>2, <3>1
    <3> HIDE DEF m, n
    <3>5. ASSUME NEW l \in 1..(m - 1)
          PROVE  ~MetIn(q[l], v)
      <4>1. w[n + l] = q[l] /\ ~MetIn(w[n + l], v)
        BY <2>1, <2>2, <3>4
      <4>2. QED
        BY <4>1
    <3>6. FirstIn(q, v, t)
      BY <1>1, <1>2, <2>1, <3>1, <3>5
    <3>7. QED
      BY <1>2, <3>3, <3>6 DEF n
  <2>5. QED
    BY <2>3, <2>4
<1>4. ASSUME p # <<>>
      PROVE  /\ MetIn(Head(p), v) => FirstIn(p, v, FirstMet[Head(p).expected][Head(p).arg][v])
             /\ ~MetIn(Head(p), v) /\ FirstIn(Tail(p), v, t) => FirstIn(p, v, t)
  <2>1. /\ Len(p) >= 1 /\ Head(p) = p[1] /\ Tail(p) \in Seq(Items) /\ Len(Tail(p)) = Len(p) - 1
        /\ \A k \in 1..Len(Tail(p)) : Tail(p)[k] = p[k + 1]
    BY <1>4, HeadTailProperties
  <2>2. DOMAIN Tail(p) = 1..(Len(p) - 1)
    BY <2>1, SeqIsFunction
  <2>3. 1 \in DOMAIN p /\ 1..(1 - 1) = {}
    BY <1>2, <2>1
  <2>4. MetIn(Head(p), v) => FirstIn(p, v, FirstMet[Head(p).expected][Head(p).arg][v])
    BY <2>1, <2>3 DEF FirstIn
  <2>5. ASSUME ~MetIn(Head(p), v), FirstIn(Tail(p), v, t)
        PROVE  FirstIn(p, v, t)
    <3>1. PICK k \in 1..(Len(p) - 1) : MeetsWith(Tail(p)[k]) /\ \A l \in 1..(k - 1) : ~MetIn(Tail(p)[l], v)
      BY <1>1, <2>2, <2>5
    <3> HIDE DEF MeetsWith
    <3>2. k + 1 \in DOMAIN p /\ Tail(p)[k] = p[k + 1] /\ (k + 1) - 1 = k
      BY <1>2, <2>1
    <3>3. ASSUME NEW l \in 1..k
          PROVE  ~MetIn(p[l], v)
      <4>1. CASE l = 1
        BY <2>1, <2>5, <4>1
      <4>2. CASE l # 1
        <5>1. l - 1 \in 1..(k - 1) /\ l - 1 \in 1..Len(Tail(p)) /\ (l - 1) + 1 = l
          BY <1>2, <2>1, <4>2
        <5>2. Tail(p)[l - 1] = p[l] /\ ~MetIn(Tail(p)[l - 1], v)
          BY <2>1, <3>1, <5>1
        <5>3. QED
          BY <5>2
      <4>3. QED
        BY <4>1, <4>2
    <3>4. MeetsWith(p[k + 1]) /\ \A l \in 1..((k + 1) - 1) : ~MetIn(p[l], v)
      BY <3>1, <3>2, <3>3
    <3>5. QED
      BY <1>1, <3>2, <3>4
  <2>6. QED
    BY <2>4, <2>5
<1>5. QED
  BY <1>3, <1>4

\* The calls about the components meet the variables with what the call does.
LEMMA AsksMeet ==
  ASSUME Nestings = Nat, NEW e \in Trees, NEW a \in Trees, Ground(a), NEW items, Asks(e, a, items),
         \A k \in DOMAIN items : items[k] # Refused, NEW v
  PROVE  /\ \A t : FirstIn(items, v, t) => v \in DOMAIN FirstMet[e][a] /\ FirstMet[e][a][v] = t
         /\ v \in DOMAIN FirstMet[e][a] => \E l \in DOMAIN items : MetIn(items[l], v)
<1>1. CASE e = a /\ items = <<>>
  <2>1. v \notin DOMAIN FirstMet[e][a]
    BY <1>1, MetWithin, TaggedVariable, WithinComponents DEF Ground
  <2>2. DOMAIN items = {}
    BY <1>1
  <2>3. QED
    BY <2>1, <2>2 DEF FirstIn
<1>2. CASE /\ e.tag \in Composites /\ a.tag = e.tag
           /\ items \in Seq(Items) /\ Len(items) = Len(Components(e)) /\ Len(Components(a)) = Len(Components(e))
           /\ \A k \in DOMAIN items :
                items[k] # Refused => items[k].expected = Components(e)[k] /\ items[k].arg = Components(a)[k]
  <2> DEFINE n == Len(items)
  <2>1. n \in Nat /\ DOMAIN items = 1..n /\ DOMAIN Components(e) = 1..n
    BY <1>2, ComponentsAreTrees, SeqIsFunction
  <2>2. e.tag # "Variable"
    BY <1>2 DEF Composites, Products
  <2>3. \A k \in 1..n : items[k].expected = Components(e)[k] /\ items[k].arg = Components(a)[k]
    BY <1>2, <2>1
  <2>4. \A k \in 1..n : MetIn(items[k], v) <=> MetAt(e, a, k, v)
    BY <2>3 DEF MetIn, MetAt
  <2> HIDE DEF n
  <2>5. ASSUME NEW t, FirstIn(items, v, t)
        PROVE  v \in DOMAIN FirstMet[e][a] /\ FirstMet[e][a][v] = t
    <3>1. PICK k \in 1..n : /\ MetIn(items[k], v) /\ FirstMet[items[k].expected][items[k].arg][v] = t
                            /\ \A l \in 1..(k - 1) : ~MetIn(items[l], v)
      BY <2>1, <2>5 DEF FirstIn
    <3>2. v \in DOMAIN FirstMet[e][a]
      BY <1>2, <2>1, <2>2, <2>4, <3>1, FirstMetOfComponents
    <3>3. PICK j : MetFirstAt(e, a, j, v)
      BY <2>2, <3>2, FirstMetOfComponents
    <3>4. /\ j \in 1..n /\ MetAt(e, a, j, v) /\ \A l \in 1..(j - 1) : ~MetAt(e, a, l, v)
          /\ FirstMet[e][a][v] = FirstMet[Components(e)[j]][Components(a)[j]][v]
      BY <2>1, <3>3 DEF MetFirstAt
    <3>5. ~(j < k)
      <4> SUFFICES ASSUME j < k PROVE FALSE
        OBVIOUS
      <4>1. j \in 1..(k - 1)
        BY <2>1, <3>4
      <4>2. QED
        BY <2>4, <3>1, <3>4, <4>1
    <3>6. ~(k < j)
      <4> SUFFICES ASSUME k < j PROVE FALSE
        OBVIOUS
      <4>1. k \in 1..(j - 1)
        BY <2>1, <3>4
      <4>2. QED
        BY <2>4, <3>1, <3>4, <4>1
    <3>7. j = k
      BY <2>1, <3>4, <3>5, <3>6
    <3>8. QED
      BY <2>3, <3>1, <3>2, <3>4, <3>7
  <2>6. ASSUME v \in DOMAIN FirstMet[e][a]
        PROVE  \E l \in DOMAIN items : MetIn(items[l], v)
    <3>1. PICK j : MetFirstAt(e, a, j, v)
      BY <2>2, <2>6, FirstMetOfComponents
    <3>2. j \in 1..n /\ MetAt(e, a, j, v)
      BY <2>1, <3>1 DEF MetFirstAt
    <3>3. QED
      BY <2>1, <2>4, <3>2
  <2>7. QED
    BY <2>5, <2>6
<1>3. QED
  BY <1>1, <1>2, ItemsAreComponents

\* A call that agrees makes calls that agree: none of them is refused.
LEMMA AsksAgree ==
  ASSUME Nestings = Nat, NEW s, Substitution(s), NEW e \in Trees, NEW a \in Trees, Comparable(a), Agree(s, e, a),
         NEW items, Asks(e, a, items)
  PROVE  Settled(s, items)
<1>1. CASE e = a /\ items = <<>>
  BY <1>1 DEF Settled
<1>2. CASE e.tag = "UnitLikeValue" /\ a.tag = "UnitLikeValue" /\ items = <<Item(e.type, a.type)>>
  <2>1. e.type \in Trees /\ a.type \in Trees /\ Agree(s, e.type, a.type)
    BY <1>2, FieldsAreTrees, AgreeIfUnitLikeValues
  <2> DEFINE i == Item(e.type, a.type)
  <2>2. i # Refused /\ Agree(s, i.expected, i.arg)
    BY <2>1, ItemIs
  <2> HIDE DEF i
  <2>3. DOMAIN items = {1} /\ items[1] = i
    BY <1>2 DEF i
  <2>4. QED
    BY <2>2, <2>3 DEF Settled
<1>3. CASE /\ e.tag = "FunctionType" /\ a.tag = "FunctionType" /\ Len(e.parameter_types) = Len(a.parameter_types)
           /\ items = ParameterItems(e, a) \o <<Item(e.return_type, a.return_type)>>
  <2> DEFINE n == Len(e.parameter_types)
             last == Item(e.return_type, a.return_type)
             p == ParameterItems(e, a)
  <2>1. /\ n \in Nat /\ DOMAIN e.parameter_types = 1..n /\ DOMAIN a.parameter_types = 1..n
        /\ \A k \in 1..n : e.parameter_types[k].type \in Trees /\ a.parameter_types[k].type \in Trees
        /\ e.return_type \in Trees /\ a.return_type \in Trees
    BY <1>3, FieldsAreComponents, FieldsAreTrees
  <2>2. /\ Agree(s, e.return_type, a.return_type)
        /\ \A k \in 1..n :
             /\ e.parameter_types[k].comptime = {} => a.parameter_types[k].comptime = {}
             /\ Agree(s, e.parameter_types[k].type, a.parameter_types[k].type)
    BY <1>3, <2>1, AgreeIfFunctionTypes
  <2>3. last \in Items /\ last # Refused /\ Agree(s, last.expected, last.arg)
    BY <2>1, <2>2, ItemIs
  <2> HIDE DEF n
  <2>4. ASSUME NEW k \in 1..n
        PROVE  p[k] \in Items /\ p[k] # Refused /\ Agree(s, p[k].expected, p[k].arg)
    <3>1. p[k] = Item(e.parameter_types[k].type, a.parameter_types[k].type)
      BY <2>2 DEF ParameterItems, n
    <3> HIDE DEF p
    <3>2. QED
      BY <2>1, <2>2, <3>1, ItemIs
  <2>5. p \in [1..n -> Items]
    BY <2>4 DEF ParameterItems, n
  <2> HIDE DEF p, last
  <2>6. p \in Seq(Items) /\ DOMAIN p = 1..n /\ <<last>> \in Seq(Items)
    BY <2>1, <2>3, <2>5, FunctionIsSeq
  <2>7. Settled(s, p)
    BY <2>4, <2>6 DEF Settled
  <2>8. DOMAIN <<last>> = {1} /\ <<last>>[1] = last
    OBVIOUS
  <2>9. Settled(s, <<last>>)
    BY <2>3, <2>8 DEF Settled
  <2>10. QED
    BY <1>3, <2>6, <2>7, <2>9, SettledParts DEF p, last
<1>4. CASE /\ e.tag = "ProductValue" /\ a.tag = "ProductValue" /\ Len(e.members) = Len(a.members)
           /\ items = <<Item(e.type, a.type)>> \o MemberItems(e, a)
  <2> DEFINE n == Len(e.members)
             first == Item(e.type, a.type)
             p == MemberItems(e, a)
  <2>1. /\ n \in Nat /\ DOMAIN e.members = 1..n /\ DOMAIN a.members = 1..n
        /\ \A k \in 1..n : e.members[k].value \in Trees /\ a.members[k].value \in Trees
        /\ e.type \in Trees /\ a.type \in Trees
    BY <1>4, FieldsAreComponents, FieldsAreTrees DEF Products
  <2>2. n <= 1
    <3>1. ComparableHere(a)
      BY ComparableIs
    <3>2. QED
      BY <1>4, <3>1 DEF ComparableHere
  <2>3. /\ Agree(s, e.type, a.type)
        /\ \A k \in 1..n : \E l \in 1..n :
             e.members[k].name = a.members[l].name /\ Agree(s, e.members[k].value, a.members[l].value)
    BY <1>4, <2>1, AgreeIfProductValues
  <2>4. first \in Items /\ first # Refused /\ Agree(s, first.expected, first.arg)
    BY <2>1, <2>3, ItemIs
  <2> HIDE DEF n
  <2>5. ASSUME NEW k \in 1..n
        PROVE  p[k] \in Items /\ p[k] # Refused /\ Agree(s, p[k].expected, p[k].arg)
    <3>1. PICK l \in 1..n : e.members[k].name = a.members[l].name /\ Agree(s, e.members[k].value, a.members[l].value)
      BY <2>3
    <3>2. l = k
      BY <2>1, <2>2
    <3>3. p[k] = Item(e.members[k].value, a.members[k].value)
      BY <3>1, <3>2 DEF MemberItems, n
    <3> HIDE DEF p
    <3>4. QED
      BY <2>1, <3>1, <3>2, <3>3, ItemIs
  <2>6. p \in [1..n -> Items]
    BY <2>5 DEF MemberItems, n
  <2> HIDE DEF p, first
  <2>7. p \in Seq(Items) /\ DOMAIN p = 1..n /\ <<first>> \in Seq(Items)
    BY <2>1, <2>4, <2>6, FunctionIsSeq
  <2>8. Settled(s, p)
    BY <2>5, <2>7 DEF Settled
  <2>9. DOMAIN <<first>> = {1} /\ <<first>>[1] = first
    OBVIOUS
  <2>10. Settled(s, <<first>>)
    BY <2>4, <2>9 DEF Settled
  <2>11. QED
    BY <1>4, <2>7, <2>8, <2>10, SettledParts DEF p, first
<1>5. QED
  BY <1>1, <1>2, <1>3, <1>4 DEF Asks

\* The calls of a hopeful call are hopeful.
LEMMA AsksHopeful ==
  ASSUME Nestings = Nat, NEW s, Substitution(s), NEW out, NEW e \in Trees, NEW a \in Trees, Hopeful(s, out, e, a),
         NEW items, Asks(e, a, items)
  PROVE  items \in Seq(HopefulItems(s, out)) /\ \A k \in DOMAIN items : items[k] # Refused
<1>1. Settled(s, items) /\ items \in Seq(Items)
  BY AsksAgree, ItemsOfAsks DEF Hopeful
<1>2. DOMAIN items = 1..Len(items) /\ Len(items) \in Nat /\ \A k \in 1..Len(items) : items[k] \in Items
  BY <1>1, SeqIsFunction
<1>3. ASSUME NEW k \in 1..Len(items)
      PROVE  items[k] \in HopefulItems(s, out) /\ items[k] # Refused
  <2>1. items[k] # Refused /\ Agree(s, items[k].expected, items[k].arg)
    BY <1>1, <1>2 DEF Settled
  <2>2. /\ Len(items) = Len(Components(e)) /\ Len(Components(a)) = Len(Components(e))
        /\ items[k].expected = Components(e)[k] /\ items[k].arg = Components(a)[k]
    <3>1. items # <<>>
      BY <1>2
    <3>2. QED
      BY <1>2, <2>1, <3>1, ItemsAreComponents
  <2>3. k \in DOMAIN Components(e) /\ k \in DOMAIN Components(a)
    BY <1>2, <2>2, ComponentsAreTrees
  <2>4. Comparable(Components(e)[k]) /\ Within[Components(e)[k]] \subseteq Within[e]
    BY <2>3, ComparableIs, WithinComponents DEF Hopeful
  <2>5. Comparable(Components(a)[k]) /\ Ground(Components(a)[k])
    BY <2>3, ComparableIs, GroundIs DEF Hopeful
  <2>6. Hopeful(s, out, items[k].expected, items[k].arg)
    BY <2>1, <2>2, <2>4, <2>5 DEF Hopeful
  <2>7. QED
    BY <1>2, <2>1, <2>6 DEF HopefulItems
<1> HIDE DEF HopefulItems
<1>4. items \in [1..Len(items) -> HopefulItems(s, out)]
  <2>1. items = [k \in 1..Len(items) |-> items[k]]
    BY <1>1, <1>2, SeqIsFunction
  <2>2. QED
    BY <1>3, <2>1
<1>5. QED
  BY <1>2, <1>3, <1>4, FunctionIsSeq

\* A hopeful call finds no difference.
LEMMA HopefulIsSame ==
  ASSUME Nestings = Nat, NEW s, Substitution(s), NEW out, NEW e \in Trees, NEW a \in Trees, Hopeful(s, out, e, a)
  PROVE  ~Differ(e, a)
<1> DEFINE x == Substituted(s, e)
<1>1. Substituted(s, a) = a /\ x \in Trees
  BY GroundIsKept, Substituting DEF Hopeful
<1>2. Matches[x][a]
  BY <1>1 DEF Hopeful, Agree
<1>3. Matching(Matches, x, a)
  BY <1>1, <1>2, MatchesIs
<1>4. e.tag # "Variable" => e \notin DOMAIN s
  BY Substituting
<1>5. CASE e.tag \in {"StringLiteral", "SimpleTypeTerm", "NamedType", "NumericLiteral"}
  <2>1. x = e
    BY <1>4, <1>5, Substituting DEF Composites, Products
  <2>2. e = a
    BY <1>3, <1>5, <2>1 DEF Matching
  <2>3. QED
    BY <1>5, <2>2 DEF Differ
<1>6. CASE e.tag = "ProductType"
  <2>1. Ground(e)
    BY <1>6, ComparableIs DEF Hopeful, ComparableHere
  <2>2. x = e
    BY <2>1, GroundIsKept
  <2>3. e = a
    BY <1>3, <1>6, <2>2 DEF Matching
  <2>4. QED
    BY <1>6, <2>3 DEF Differ
<1>7. CASE e.tag \in {"UnitLikeValue", "FunctionType", "ProductValue"}
  <2>1. /\ x.tag = e.tag
        /\ e.tag = "FunctionType" => Len(x.parameter_types) = Len(e.parameter_types)
        /\ e.tag = "ProductValue" => Len(x.members) = Len(e.members)
    BY <1>7, SubstitutedFields DEF Composites, Products
  <2> HIDE DEF x
  <2>2. /\ a.tag = e.tag
        /\ e.tag = "FunctionType" => Len(a.parameter_types) = Len(e.parameter_types)
        /\ e.tag = "ProductValue" => Len(a.members) = Len(e.members)
    BY <1>3, <1>7, <2>1 DEF Matching
  <2>3. QED
    BY <1>7, <2>2 DEF Differ
<1>8. QED
  BY <1>5, <1>6, <1>7 DEF Differ

\* What variables are met with first can be substituted for them.
LEMMA FirstSolution ==
  ASSUME Nestings = Nat, NEW e \in Trees, NEW a \in Trees, Comparable(a), Ground(a)
  PROVE  LET s == FirstMet[e][a]
         IN  Substitution(s) /\ \A v \in DOMAIN s : v \in Within[e] /\ Comparable(s[v]) /\ Ground(s[v])
<1> DEFINE s == FirstMet[e][a]
<1>1. s \in Maps
  BY FirstMetIs
<1>2. Substitution(s)
  BY <1>1, MapIs DEF Substitution
<1>3. ASSUME NEW v \in DOMAIN s
      PROVE  v \in Within[e] /\ Comparable(s[v]) /\ Ground(s[v])
  <2>1. v \in Within[e] /\ s[v] \in Within[a]
    BY MetWithin
  <2>2. QED
    BY <2>1, ComparableIs
<1>4. QED
  BY <1>2, <1>3

\* A hopeful call is not refused where the term is evaluated, and is as hopeful about
\* what it is evaluated to; that has no variables left.
LEMMA LooksHopeful ==
  ASSUME Nestings = Nat, NEW c, IsChain(c), NEW s, Substitution(s),
         \A v \in DOMAIN c[2] : v \in DOMAIN s /\ c[2][v] = s[v] /\ Comparable(s[v]) /\ Ground(s[v]),
         NEW h \in Trees, NEW a \in Trees, Hopeful(s, DOMAIN c[1], h, a)
  PROVE  LET o == Evaluate(h, c)
         IN  /\ o.how # "nullopt"
             /\ o.how = "value" =>
                  /\ Hopeful(s, DOMAIN c[1], o.term, a) /\ o.term.tag # "Variable"
                  /\ \A v : v \notin DOMAIN FirstMet[o.term][a]
                  /\ \A v \in DOMAIN FirstMet[h][a] : v \in DOMAIN c[2]
<1> DEFINE o == Evaluate(h, c)
           out == DOMAIN c[1]
<1>1. BoundIn(c) = out \cup DOMAIN c[2] /\ out \subseteq Variables
  BY ChainIs DEF IsChain
<1>2. ASSUME NEW v \in BoundIn(c), v \notin out
      PROVE  v \in DOMAIN s /\ s[v] = LookUp(c, v) /\ Comparable(LookUp(c, v)) /\ Ground(LookUp(c, v))
  <2>1. v \in DOMAIN c[2] /\ LookUp(c, v) = c[2][v]
    BY <1>1, <1>2, ChainIs
  <2>2. QED
    BY <2>1
<1>3. /\ o.how # "nullopt"
      /\ o.how = "value" =>
           /\ o.term = Substituted(s, h)
           /\ o.term \in Trees /\ Comparable(o.term) /\ Ground(o.term)
           /\ Within[h] \cap Variables \subseteq BoundIn(c)
  <2>1. Comparable(h) /\ Within[h] \cap out = {}
    BY DEF Hopeful
  <2> HIDE DEF out
  <2>2. QED
    BY <1>1, <1>2, <2>1, ComparableEvaluation
<1> HIDE DEF o
<1>4. ASSUME o.how = "value"
      PROVE  /\ Hopeful(s, out, o.term, a) /\ o.term.tag # "Variable"
             /\ \A v : v \notin DOMAIN FirstMet[o.term][a]
             /\ \A v \in DOMAIN FirstMet[h][a] : v \in DOMAIN c[2]
  <2>1. o.term \in Trees /\ Comparable(o.term) /\ Ground(o.term) /\ o.term = Substituted(s, h)
    BY <1>3, <1>4
  <2>2. Substituted(s, o.term) = Substituted(s, h)
    BY <2>1, GroundIsKept
  <2>3. Agree(s, o.term, a)
    BY <2>2 DEF Agree, Hopeful
  <2>4. \A u \in Within[o.term] : u \in Trees /\ u.tag # "Variable"
    BY <2>1, WithinComponents DEF Ground
  <2>5. Within[o.term] \cap out = {}
    BY <1>1, <2>4, TaggedVariable
  <2>6. o.term.tag # "Variable"
    BY <2>1, <2>4, WithinComponents
  <2>7. \A v : v \notin DOMAIN FirstMet[o.term][a]
    BY <2>1, <2>4, MetWithin, TaggedVariable
  <2>8. ASSUME NEW v \in DOMAIN FirstMet[h][a]
        PROVE  v \in DOMAIN c[2]
    <3>1. v \in Variables /\ v \in Within[h]
      BY MetWithin
    <3>2. v \in BoundIn(c) /\ v \notin out
      BY <1>3, <1>4, <3>1 DEF Hopeful
    <3>3. QED
      BY <1>1, <3>2
  <2>9. QED
    BY <2>1, <2>3, <2>5, <2>6, <2>7, <2>8 DEF Hopeful
<1>5. QED
  BY <1>3, <1>4 DEF o

\* A step keeps that nothing is refused.
LEMMA NextRefusesNothing ==
  ASSUME Nestings = Nat, TypeInv, RefusesNothing, [Next]_vars
  PROVE  RefusesNothing'
<1>1. CASE UNCHANGED vars
  <2>1. problem' = problem /\ contexts' = contexts /\ work' = work /\ result' = result
    BY <1>1 DEF vars
  <2>2. QED
    BY <2>1 DEF RefusesNothing, FirstIn, MetIn, HopefulItems, Hopeful, Agree
<1>2. CASE Next
  <2> DEFINE s == FirstMet[problem.expected][problem.arg]
             out == DOMAIN problem.outer
             Met(c, m) == \A v, t : v \notin DOMAIN m /\ FirstIn(c, v, t) => v \in DOMAIN s /\ s[v] = t
             Bound(m) == \A v \in DOMAIN m : v \in DOMAIN s /\ m[v] = s[v]
             Premises == /\ Comparable(problem.expected) /\ Comparable(problem.arg) /\ Ground(problem.arg)
                         /\ out \cap Within[problem.expected] = {}
                         /\ Matchable(problem.expected, problem.arg)
  <2>1. result = "none" /\ problem' = problem
    BY <1>2, StepIs DEF StepStops, StepRefuses, Return, StepBinds, StepCompares, GoesOn
  <2> SUFFICES ASSUME Premises
               PROVE  /\ result' # "nullopt"
                      /\ Bound(contexts'[2])
                      /\ result' = "none" => /\ work' \in Seq(HopefulItems(s, out))
                                             /\ Met(work', contexts'[2])
    <3>1. \A c, v, t : FirstIn(c, v, t)' <=> FirstIn(c', v', t')
      BY DEF FirstIn, MetIn
    <3>2. QED
      BY <2>1 DEF RefusesNothing, FirstIn, MetIn
  <2> DEFINE h == Head(work).expected
             a == Head(work).arg
             D == DOMAIN contexts[2]
  <2>2. /\ Bound(contexts[2]) /\ work \in Seq(HopefulItems(s, out)) /\ Met(work, contexts[2])
    BY <2>1 DEF RefusesNothing
  <2>3. problem.expected \in Trees /\ problem.arg \in Trees
    BY ProblemsAssumption DEF TypeInv, Problem
  <2>4. Substitution(s) /\ \A v \in DOMAIN s : Comparable(s[v]) /\ Ground(s[v])
    BY <2>3, FirstSolution
  <2>5. IsChain(contexts) /\ contexts[1] = problem.outer
    BY DEF TypeInv
  <2> HIDE DEF s, out
  <2>6. /\ work \in Seq(Items) /\ work # <<>> /\ Tail(work) \in Seq(Items) /\ Head(work) \in Items
        /\ Tail(work) \in Seq(HopefulItems(s, out)) /\ Head(work) \in HopefulItems(s, out)
    <3>1. work \in Seq(Items) /\ work # <<>> /\ Tail(work) \in Seq(Items) /\ Head(work) \in Items
      BY <2>1, LooksIs
    <3>2. Tail(work) \in Seq(HopefulItems(s, out)) /\ Head(work) \in HopefulItems(s, out)
      BY <2>2, <3>1, HeadTailProperties
    <3>3. QED
      BY <3>1, <3>2
  <2>7. Head(work) # Refused /\ h \in Trees /\ a \in Trees /\ Hopeful(s, out, h, a)
    BY <2>6, ItemIs DEF HopefulItems
  <2>8. LET o == Evaluate(h, contexts)
        IN  /\ o.how # "nullopt"
            /\ o.how = "value" =>
                 /\ Hopeful(s, out, o.term, a) /\ o.term.tag # "Variable"
                 /\ \A v : v \notin DOMAIN FirstMet[o.term][a]
                 /\ \A v \in DOMAIN FirstMet[h][a] : v \in D
    <3>1. \A v \in D : v \in DOMAIN s /\ contexts[2][v] = s[v] /\ Comparable(s[v]) /\ Ground(s[v])
      BY <2>2, <2>4
    <3>2. Hopeful(s, DOMAIN contexts[1], h, a)
      BY <2>5, <2>7 DEF out
    <3> HIDE DEF h, a
    <3>3. QED
      BY <2>4, <2>5, <2>7, <3>1, <3>2, LooksHopeful DEF out
  <2>9. ASSUME NEW e \in Trees, Looks(e)
        PROVE  /\ Hopeful(s, out, e, a) /\ ~Differ(e, a)
               /\ e.tag = "Variable" => e = h
               /\ \A v \in DOMAIN FirstMet[h][a] : v \notin D => e = h
               /\ \A v \in DOMAIN FirstMet[e][a] : e = h
    <3>1. /\ Hopeful(s, out, e, a)
          /\ e.tag = "Variable" => e = h
          /\ \A v \in DOMAIN FirstMet[h][a] : v \notin D => e = h
          /\ \A v \in DOMAIN FirstMet[e][a] : e = h
      <4>1. CASE e = h
        BY <2>7, <4>1
      <4>2. CASE Evaluate(h, contexts).how = "value" /\ e = Evaluate(h, contexts).term
        BY <2>8, <4>2
      <4>3. QED
        BY <2>9, <4>1, <4>2 DEF Looks
    <3>2. ~Differ(e, a)
      BY <2>4, <2>7, <3>1, HopefulIsSame
    <3>3. QED
      BY <3>1, <3>2
  <2>10. CASE StepStops
    BY <2>2, <2>10 DEF StepStops, Return
  <2>11. ~StepRefuses
    BY <2>7, <2>8, <2>9 DEF StepRefuses
  <2>12. ASSUME NEW e \in Trees, Looks(e), NEW items \in Seq(Items), StepCompares(e, items)
         PROVE  /\ result' # "nullopt"
                /\ Bound(contexts'[2])
                /\ result' = "none" => work' \in Seq(HopefulItems(s, out)) /\ Met(work', contexts'[2])
    <3>1. /\ Asks(e, a, items) /\ contexts' = contexts /\ work' = items \o Tail(work)
          /\ result' \in {"none", "unified"}
      BY <2>12 DEF StepCompares, GoesOn
    <3>2. Hopeful(s, out, e, a)
      BY <2>9, <2>12
    <3>3. items \in Seq(HopefulItems(s, out)) /\ \A k \in DOMAIN items : items[k] # Refused
      BY <2>4, <2>7, <3>1, <3>2, AsksHopeful
    <3>4. items \o Tail(work) \in Seq(HopefulItems(s, out))
      BY <2>6, <3>3, ConcatProperties
    <3>5. ASSUME NEW v, NEW t, v \notin D, FirstIn(items \o Tail(work), v, t)
          PROVE  v \in DOMAIN s /\ s[v] = t
      <4>1. Ground(a)
        BY <2>7 DEF Hopeful
      <4>2. /\ \A u : FirstIn(items, v, u) => v \in DOMAIN FirstMet[e][a] /\ FirstMet[e][a][v] = u
            /\ v \in DOMAIN FirstMet[e][a] => \E l \in DOMAIN items : MetIn(items[l], v)
        BY <2>7, <3>1, <3>3, <4>1, AsksMeet
      <4>3. FirstIn(work, v, t)
        <5>1. CASE FirstIn(items, v, t)
          <6>1. v \in DOMAIN FirstMet[e][a] /\ FirstMet[e][a][v] = t /\ e = h
            BY <2>9, <2>12, <4>2, <5>1
          <6>2. MetIn(Head(work), v) /\ FirstMet[h][a][v] = t
            BY <6>1 DEF MetIn
          <6>3. QED
            BY <2>6, <6>2, FirstInParts
        <5>2. CASE (\A l \in DOMAIN items : ~MetIn(items[l], v)) /\ FirstIn(Tail(work), v, t)
          <6>1. v \notin DOMAIN FirstMet[e][a]
            BY <4>2, <5>2
          <6>2. ~MetIn(Head(work), v)
            BY <2>9, <2>12, <3>5, <6>1 DEF MetIn
          <6>3. QED
            BY <2>6, <5>2, <6>2, FirstInParts
        <5>3. QED
          BY <2>6, <2>12, <3>5, <5>1, <5>2, FirstInParts
      <4>4. QED
        BY <2>2, <3>5, <4>3
    <3>6. QED
      BY <2>2, <3>1, <3>4, <3>5
  <2>13. ASSUME NEW e \in Trees, Looks(e), StepBinds(e)
         PROVE  /\ result' # "nullopt"
                /\ Bound(contexts'[2])
                /\ result' = "none" => work' \in Seq(HopefulItems(s, out)) /\ Met(work', contexts'[2])
    <3>1. /\ e.tag = "Variable" /\ e \notin BoundIn(contexts) /\ contexts' = Bind(contexts, e, a)
          /\ work' = <<>> \o Tail(work) /\ result' \in {"none", "unified"}
      BY <2>13 DEF StepBinds, GoesOn
    <3>2. work' = Tail(work)
      BY <2>6, <3>1, ConcatEmptySeq
    <3>3. e \in Variables /\ e = h /\ e \notin D
      BY <2>5, <2>9, <2>13, <3>1, TaggedVariable, ChainIs
    <3>4. FirstMet[h][a] = [v \in {e} |-> a]
      <4>1. h \in Trees /\ a \in Trees /\ h.tag = "Variable"
        BY <2>7, <3>1, <3>3
      <4> HIDE DEF h, a
      <4>2. FirstMet[h][a] = [v \in {h} |-> a]
        BY <4>1, FirstMetOfComponents
      <4>3. QED
        BY <3>3, <4>2
    <3>5. \A v : MetIn(Head(work), v) <=> v = e
      BY <3>4 DEF MetIn
    <3>6. FirstIn(work, e, a)
      <4>1. FirstMet[h][a][e] = a
        BY <3>4
      <4>2. QED
        BY <2>6, <3>5, <4>1, FirstInParts
    <3>7. e \in DOMAIN s /\ s[e] = a
      BY <2>2, <3>3, <3>6
    <3> DEFINE d == Bind(contexts, e, a)
    <3>8. /\ IsChain(d) /\ DOMAIN d[2] = D \cup {e} /\ LookUp(d, e) = a
          /\ \A w \in BoundIn(contexts) : LookUp(d, w) = LookUp(contexts, w)
      BY <2>5, <2>7, <3>1, <3>3, BindIs
    <3> HIDE DEF d
    <3>9. \A v \in D : v \in BoundIn(contexts) /\ LookUp(contexts, v) = contexts[2][v]
      BY <2>5, ChainIs
    <3>10. \A v \in D \cup {e} : LookUp(d, v) = d[2][v]
      BY <3>8, ChainIs
    <3>11. ASSUME NEW v \in D \cup {e}
           PROVE  v \in DOMAIN s /\ d[2][v] = s[v]
      <4>1. CASE v = e
        BY <3>7, <3>8, <3>10, <4>1
      <4>2. CASE v \in D
        <5>1. d[2][v] = contexts[2][v]
          BY <3>8, <3>9, <3>10, <4>2
        <5>2. QED
          BY <2>2, <4>2, <5>1
      <4>3. QED
        BY <4>1, <4>2
    <3>12. ASSUME NEW v, NEW t, v \notin D \cup {e}, FirstIn(Tail(work), v, t)
           PROVE  v \in DOMAIN s /\ s[v] = t
      <4>1. ~MetIn(Head(work), v)
        BY <3>5, <3>12
      <4>2. FirstIn(work, v, t)
        BY <2>6, <3>12, <4>1, FirstInParts
      <4>3. QED
        BY <2>2, <3>12, <4>2
    <3>13. contexts' = d
      BY <3>1 DEF d
    <3>14. QED
      BY <2>6, <3>1, <3>2, <3>8, <3>11, <3>12, <3>13
  <2>14. QED
    BY <1>2, <2>10, <2>11, <2>12, <2>13, StepIs
<1>3. QED
  BY <1>1, <1>2

\* UnifyExpectedTypeToArgType returns nullopt for comparable types only if the argument's
\* type does not match with what each forall variable is met with first.
THEOREM OnlyMismatchesAreRefused ==
  ASSUME Nestings = Nat
  PROVE  Spec => []RefusesOnlyMismatches
<1>1. Init => RefusesNothing
  <2> DEFINE s == FirstMet[problem.expected][problem.arg]
             out == DOMAIN problem.outer
             i == Item(problem.expected, problem.arg)
  <2> SUFFICES ASSUME Init, Comparable(problem.expected) /\ Comparable(problem.arg) /\ Ground(problem.arg),
                      out \cap Within[problem.expected] = {},
                      Matchable(problem.expected, problem.arg)
               PROVE  /\ result # "nullopt"
                      /\ \A v \in DOMAIN contexts[2] : v \in DOMAIN s /\ contexts[2][v] = s[v]
                      /\ work \in Seq(HopefulItems(s, out))
                      /\ \A v, t : FirstIn(work, v, t) => v \in DOMAIN s /\ s[v] = t
    BY DEF RefusesNothing
  <2>1. /\ work = <<i>> /\ contexts[2] = Empty /\ DOMAIN Empty = {} /\ result = "none"
        /\ problem.expected \in Trees /\ problem.arg \in Trees
    BY ProblemsAssumption DEF Init, Problem, Empty
  <2>2. i \in Items /\ i # Refused /\ i.expected = problem.expected /\ i.arg = problem.arg
    BY <2>1, ItemIs
  <2>3. Substitution(s)
    BY <2>1, FirstSolution
  <2> HIDE DEF i
  <2>4. Agree(s, problem.expected, problem.arg)
    <3>1. Substituted(s, problem.arg) = problem.arg
      BY <2>1, <2>3, GroundIsKept
    <3>2. QED
      BY <3>1 DEF Matchable, Agree
  <2>5. i \in HopefulItems(s, out)
    BY <2>2, <2>4 DEF HopefulItems, Hopeful
  <2>6. DOMAIN work = {1} /\ work[1] = i
    BY <2>1
  <2>7. ASSUME NEW v, NEW t, FirstIn(work, v, t)
        PROVE  v \in DOMAIN s /\ s[v] = t
    BY <2>2, <2>6, <2>7 DEF FirstIn, MetIn
  <2>8. work \in Seq(HopefulItems(s, out))
    <3> HIDE DEF s, out
    <3>1. QED
      BY <2>1, <2>5
  <2>9. QED
    BY <2>1, <2>7, <2>8
<1>2. TypeInv /\ RefusesNothing /\ [Next]_vars => RefusesNothing'
  BY NextRefusesNothing
<1>3. RefusesNothing => RefusesOnlyMismatches
  BY DEF RefusesNothing, RefusesOnlyMismatches
<1>4. QED
  BY <1>1, <1>2, <1>3, TypesAreKept, PTL DEF Spec
================================================================================
