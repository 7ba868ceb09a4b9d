---------------------------- MODULE CompilerProofs ----------------------------
(***************************************************************************)
(* Proofs about the compiler, for all command lines and files, and for     *)
(* expressions of any size: names are resolved lexically, process_ast      *)
(* accepts the core language and nothing else, and the program succeeds    *)
(* for the requests and files that deserve it.                             *)
(***************************************************************************)
EXTENDS CoreLanguage, SequenceTheorems, WellFoundedInduction, TLAPS

-----------------------------------------------------------------------------
(* Expressions.                                                            *)

\* A set with 0 that has the successor of each of its members has all numbers.
LEMMA AllNumbers ==
  ASSUME NEW T, 0 \in T, \A m \in Nat : m \in T => m + 1 \in T
  PROVE  \A m \in Nat : m \in T
<1> DEFINE R == OpToRel(<, Nat)
           Bad == {m \in Nat : m \notin T}
<1>1. IsWellFoundedOn(R, Nat)
  BY NatLessThanWellFounded
<1>2. \A x, y \in Nat : <<x, y>> \in R <=> x < y
  BY DEF OpToRel
<1> HIDE DEF R
<1> SUFFICES ASSUME Bad # {} PROVE FALSE
  OBVIOUS
<1>3. PICK m \in Bad : \A b \in Bad : ~ (<<b, m>> \in R)
  <2>1. Bad \in SUBSET Nat
    OBVIOUS
  <2> HIDE DEF Bad
  <2>2. QED
    BY <1>1, <2>1, WFMin
<1>4. m \in Nat \ {0} /\ m \notin T
  OBVIOUS
<1>5. m - 1 \in Nat /\ m - 1 < m /\ (m - 1) + 1 = m
  BY <1>4
<1>6. m - 1 \in T
  BY <1>2, <1>3, <1>4, <1>5
<1>7. QED
  BY <1>4, <1>5, <1>6

\* What the recursions over the nesting of expressions say of one level.
ListsOver(S) == [is : {"list"}, fnapp : BOOLEAN, xs : Seq(S)]
Level(which, d, S) ==
  IF which = "all" THEN Tokens \cup ListsOver(S) ELSE {e \in Expressions[d] : IsCoreOver(e, S)}
Below(f, d) == IF d = 0 THEN {} ELSE f[d - 1]

LEMMA LevelsExist ==
  ASSUME NEW which
  PROVE  \A m \in Nat : \E f : f = [d \in 0..m |-> Level(which, d, Below(f, d))]
<1> DEFINE T == {m \in Nat : \E f : f = [d \in 0..m |-> Level(which, d, Below(f, d))]}
<1>1. 0 \in T
  <2> DEFINE f == [d \in 0..0 |-> Level(which, d, {})]
  <2>1. f = [d \in 0..0 |-> Level(which, d, Below(f, d))]
    <3>1. \A d \in 0..0 : Below(f, d) = {}
      BY DEF Below
    <3>2. QED
      BY <3>1
  <2>2. QED
    BY <2>1
<1>2. ASSUME NEW m \in Nat, m \in T PROVE m + 1 \in T
  <2>1. PICK f : f = [d \in 0..m |-> Level(which, d, Below(f, d))]
    BY <1>2
  <2> DEFINE g == [d \in 0..(m + 1) |-> IF d = m + 1 THEN Level(which, d, f[m]) ELSE f[d]]
  <2>2. ASSUME NEW d \in 0..(m + 1) PROVE g[d] = Level(which, d, Below(g, d))
    <3>1. CASE d = m + 1
      <4>1. Below(g, d) = g[m] /\ g[m] = f[m]
        BY <3>1 DEF Below
      <4>2. QED
        BY <3>1, <4>1
    <3>2. CASE d # m + 1
      <4>1. d \in 0..m /\ (d # 0 => d - 1 \in 0..m /\ d - 1 # m + 1)
        BY <3>2
      <4>2. Below(g, d) = Below(f, d)
        BY <4>1 DEF Below
      <4>3. g[d] = f[d] /\ f[d] = Level(which, d, Below(f, d))
        BY <2>1, <4>1, <3>2
      <4>4. QED
        BY <4>2, <4>3
    <3>3. QED
      BY <3>1, <3>2
  <2>3. g = [d \in 0..(m + 1) |-> Level(which, d, Below(g, d))]
    BY <2>2
  <2> HIDE DEF g
  <2>4. m + 1 \in Nat /\ \E h : h = [d \in 0..(m + 1) |-> Level(which, d, Below(h, d))]
    BY <2>3
  <2>5. QED
    BY <2>4
<1> HIDE DEF T
<1>3. \A m \in Nat : m \in T
  BY <1>1, <1>2, AllNumbers
<1>4. QED
  BY <1>3 DEF T

LEMMA ExpressionsAre ==
  \A d \in 0..NESTING : Expressions[d] = Tokens \cup ListsOver(Below(Expressions, d))
<1>1. PICK f : f = [d \in 0..NESTING |-> Level("all", d, Below(f, d))]
  BY LevelsExist, NestingAssumption
<1>2. f = [d \in 0..NESTING |-> Tokens \cup [is : {"list"}, fnapp : BOOLEAN, xs : Seq(IF d = 0 THEN {} ELSE f[d - 1])]]
  BY <1>1 DEF Level, Below, ListsOver
<1> DEFINE Is(g) == g = [d \in 0..NESTING |-> Tokens \cup [is : {"list"}, fnapp : BOOLEAN, xs : Seq(IF d = 0 THEN {} ELSE g[d - 1])]]
<1>3. Expressions = CHOOSE g : Is(g)
  BY DEF Expressions
<1>4. Is(Expressions)
  BY <1>2, <1>3
<1>5. QED
  BY <1>4 DEF Below, ListsOver

LEMMA CoreIs ==
  \A d \in 0..NESTING : Core[d] = {e \in Expressions[d] : IsCoreOver(e, Below(Core, d))}
<1>1. PICK f : f = [d \in 0..NESTING |-> Level("core", d, Below(f, d))]
  BY LevelsExist, NestingAssumption
<1>2. f = [d \in 0..NESTING |-> {e \in Expressions[d] : IsCoreOver(e, IF d = 0 THEN {} ELSE f[d - 1])}]
  BY <1>1 DEF Level, Below
<1> DEFINE Is(g) == g = [d \in 0..NESTING |-> {e \in Expressions[d] : IsCoreOver(e, IF d = 0 THEN {} ELSE g[d - 1])}]
<1>3. Core = CHOOSE g : Is(g)
  BY DEF Core
<1>4. Is(Core)
  BY <1>2, <1>3
<1>5. QED
  BY <1>4 DEF Below

\* A token, or a list of expressions.
LEMMA PartsOfLevels ==
  \A d \in 0..NESTING : \A e \in Expressions[d] :
    \/ e \in Tokens
    \/ e \in ListsOver(Below(Expressions, d))
BY ExpressionsAre

LEMMA TokensAre ==
  \A e \in Tokens : e.is = "token" /\ e.kind \in TokenKinds /\ e.x \in Words /\ e = Token(e.x, e.kind)
BY DEF Tokens, Token

LEMMA ListsAre ==
  ASSUME NEW S
  PROVE  \A e \in ListsOver(S) : e.is = "list" /\ e.fnapp \in BOOLEAN /\ e.xs \in Seq(S) /\ e = List(e.fnapp, e.xs)
BY DEF ListsOver, List

LEMMA LevelsGrow ==
  \A d \in 1..NESTING : Expressions[d - 1] \subseteq Expressions[d]
<1> DEFINE T == {m \in Nat : m + 1 \in 1..NESTING => Expressions[m] \subseteq Expressions[m + 1]}
<1>1. 0 \in T
  <2>1. ASSUME 1 \in 1..NESTING, NEW e \in Expressions[0] PROVE e \in Expressions[1]
    <3>1. 0 \in 0..NESTING /\ 1 \in 0..NESTING /\ Below(Expressions, 0) = {}
      BY <2>1, NestingAssumption DEF Below
    <3>2. e \in Tokens \/ e \in ListsOver({})
      BY <2>1, <3>1, ExpressionsAre
    <3>3. ListsOver({}) \subseteq ListsOver(Below(Expressions, 1))
      BY DEF ListsOver
    <3>4. QED
      BY <3>1, <3>2, <3>3, ExpressionsAre
  <2>2. QED
    BY <2>1
<1>2. ASSUME NEW m \in Nat, m \in T PROVE m + 1 \in T
  <2>1. ASSUME m + 2 \in 1..NESTING PROVE Expressions[m + 1] \subseteq Expressions[m + 2]
    <3>1. m + 1 \in 0..NESTING /\ m + 2 \in 0..NESTING /\ m + 1 \in 1..NESTING
      BY <2>1, NestingAssumption
    <3>2. Below(Expressions, m + 1) = Expressions[m] /\ Below(Expressions, m + 2) = Expressions[m + 1]
      BY DEF Below
    <3>3. Expressions[m] \subseteq Expressions[m + 1]
      BY <1>2, <3>1
    <3>4. ListsOver(Expressions[m]) \subseteq ListsOver(Expressions[m + 1])
      BY <3>3 DEF ListsOver
    <3>5. QED
      BY <3>1, <3>2, <3>4, ExpressionsAre
  <2>2. (m + 1) + 1 = m + 2
    OBVIOUS
  <2>3. QED
    BY <2>1, <2>2
<1> HIDE DEF T
<1>3. \A m \in Nat : m \in T
  BY <1>1, <1>2, AllNumbers
<1>4. QED
  <2>1. ASSUME NEW d \in 1..NESTING PROVE Expressions[d - 1] \subseteq Expressions[d]
    <3>1. d - 1 \in Nat /\ (d - 1) + 1 = d
      BY NestingAssumption
    <3>2. QED
      BY <1>3, <3>1 DEF T
  <2>2. QED
    BY <2>1

LEMMA ExprIs ==
  \A e \in Expr : e \in Tokens \/ e \in ListsOver(Expr)
<1> SUFFICES ASSUME NEW e \in Expr, e \notin Tokens PROVE e \in ListsOver(Expr)
  OBVIOUS
<1>1. NESTING \in 0..NESTING
  BY NestingAssumption
<1>2. e \in ListsOver(Below(Expressions, NESTING))
  BY <1>1, PartsOfLevels DEF Expr
<1>3. Below(Expressions, NESTING) \subseteq Expr
  <2>1. NESTING # 0 => NESTING \in 1..NESTING
    BY NestingAssumption
  <2>2. QED
    BY <2>1, LevelsGrow DEF Expr, Below
<1>4. QED
  BY <1>2, <1>3 DEF ListsOver

\* Whether an expression is of the core language depends on its parts only.
LEMMA CoreOverAgrees ==
  ASSUME NEW e, NEW S, NEW T, e.is = "list" => \A k \in 1..Len(e.xs) : e.xs[k] \in S <=> e.xs[k] \in T,
         e.is = "list" => \E U : e.xs \in Seq(U)
  PROVE  IsCoreOver(e, S) => IsCoreOver(e, T)
<1> SUFFICES ASSUME IsCoreOver(e, S) PROVE IsCoreOver(e, T)
  OBVIOUS
<1>1. CASE e.is = "token" /\ (e.kind = "STRING" => e.x \notin BuiltinNames)
  BY <1>1 DEF IsCoreOver
<1>2. CASE e.is = "list" /\ ~e.fnapp
  BY <1>2 DEF IsCoreOver
<1>3. CASE e.is = "list" /\ e.fnapp
  <2>1. e.is # "token"
    BY <1>3
  <2>2. Range(e.xs) \cap S = Range(e.xs) \cap T
    <3>1. PICK U : e.xs \in Seq(U)
      BY <1>3
    <3>2. Range(e.xs) = {e.xs[k] : k \in 1..Len(e.xs)}
      BY <3>1 DEF Range
    <3>3. QED
      BY <1>3, <3>2
  <2>3. Len(e.xs) >= 2 /\ (\A k \in 1..Len(e.xs) : e.xs[k] \in S) => \A k \in 1..Len(e.xs) : e.xs[k] \in T
    BY <1>3
  <2>4. QED
    BY <1>3, <2>1, <2>2, <2>3, Zenon DEF IsCoreOver
<1>4. QED
  BY <1>1, <1>2, <1>3 DEF IsCoreOver

LEMMA CoreLevelsAgree ==
  \A d \in 1..NESTING : \A e \in Expressions[d - 1] : e \in Core[d - 1] <=> e \in Core[d]
<1> DEFINE T == {m \in Nat : m + 1 \in 1..NESTING => \A e \in Expressions[m] : e \in Core[m] <=> e \in Core[m + 1]}
<1>1. ASSUME NEW m \in Nat, m + 1 \in 1..NESTING, NEW e \in Expressions[m],
             m # 0 => m - 1 \in T
      PROVE  e \in Core[m] <=> e \in Core[m + 1]
  <2> DEFINE S == Below(Core, m)
             U == Below(Core, m + 1)
             V == Below(Expressions, m)
  <2>1. m \in 0..NESTING /\ m + 1 \in 0..NESTING /\ e \in Expressions[m + 1]
    <3>1. m \in 0..NESTING /\ m + 1 \in 0..NESTING /\ (m + 1) - 1 = m
      BY <1>1, NestingAssumption
    <3>2. QED
      BY <1>1, <3>1, LevelsGrow
  <2>2. (e \in Core[m] <=> IsCoreOver(e, S)) /\ (e \in Core[m + 1] <=> IsCoreOver(e, U))
    BY <1>1, <2>1, CoreIs
  <2>3. U = Core[m]
    BY DEF Below
  <2>4. \A x \in V : x \in S <=> x \in U
    <3>1. CASE m = 0
      BY <3>1 DEF Below
    <3>2. CASE m # 0
      <4>1. m - 1 \in Nat /\ (m - 1) + 1 = m /\ m \in 1..NESTING
        BY <3>2, <1>1, NestingAssumption
      <4>2. V = Expressions[m - 1] /\ S = Core[m - 1]
        BY <3>2 DEF Below
      <4>3. m - 1 \in T
        BY <1>1, <3>2
      <4>4. QED
        BY <2>3, <4>1, <4>2, <4>3
    <3>3. QED
      BY <3>1, <3>2
  <2>5. e \in Tokens \/ e \in ListsOver(V)
    BY <1>1, <2>1, PartsOfLevels
  <2> HIDE DEF S, U, V
  <2>6. e.is = "list" => e.xs \in Seq(V)
    BY <2>5, TokensAre, ListsAre
  <2>7. e.is = "list" => \A k \in 1..Len(e.xs) : e.xs[k] \in S <=> e.xs[k] \in U
    BY <2>6, <2>4
  <2>8. IsCoreOver(e, S) <=> IsCoreOver(e, U)
    <3>1. e.is = "list" => \E W : e.xs \in Seq(W)
      BY <2>6
    <3>2. e.is = "list" => \A k \in 1..Len(e.xs) : e.xs[k] \in U <=> e.xs[k] \in S
      BY <2>7
    <3>3. IsCoreOver(e, S) => IsCoreOver(e, U)
      BY <2>7, <3>1, CoreOverAgrees
    <3>4. IsCoreOver(e, U) => IsCoreOver(e, S)
      BY <3>2, <3>1, CoreOverAgrees
    <3>5. QED
      BY <3>3, <3>4
  <2>9. QED
    BY <2>2, <2>8
<1>2. 0 \in T
  BY <1>1
<1>3. ASSUME NEW m \in Nat, m \in T PROVE m + 1 \in T
  <2>1. m + 1 \in Nat /\ (m + 1) - 1 = m
    OBVIOUS
  <2> HIDE DEF T
  <2>2. (m + 1) - 1 \in T
    BY <1>3, <2>1
  <2>3. QED
    BY <1>1, <2>1, <2>2 DEF T
<1> HIDE DEF T
<1>4. \A m \in Nat : m \in T
  BY <1>2, <1>3, AllNumbers
<1>5. ASSUME NEW d \in 1..NESTING, NEW e \in Expressions[d - 1]
      PROVE  e \in Core[d - 1] <=> e \in Core[d]
  <2>1. d - 1 \in Nat /\ (d - 1) + 1 = d
    BY NestingAssumption
  <2>2. QED
    BY <1>4, <1>5, <2>1 DEF T
<1>6. QED
  BY <1>5

\* The core language, however deep expressions are nested.
LEMMA CoreExpressions ==
  \A e \in Expr : IsCore(e) <=> IsCoreOver(e, Core[NESTING])
<1> SUFFICES ASSUME NEW e \in Expr PROVE IsCore(e) <=> IsCoreOver(e, Core[NESTING])
  OBVIOUS
<1> DEFINE S == Below(Core, NESTING)
           V == Below(Expressions, NESTING)
           U == Core[NESTING]
<1>1. NESTING \in 0..NESTING
  BY NestingAssumption
<1>2. IsCore(e) <=> IsCoreOver(e, S)
  BY <1>1, CoreIs DEF IsCore, Expr
<1>3. e \in Tokens \/ e \in ListsOver(V)
  BY <1>1, PartsOfLevels DEF Expr
<1>4. \A x \in V : x \in S <=> x \in U
  <2>1. NESTING = 0 \/ NESTING \in 1..NESTING
    BY NestingAssumption
  <2>2. QED
    BY <2>1, CoreLevelsAgree DEF Below
<1> HIDE DEF S, U, V
<1>5. e.is = "list" => e.xs \in Seq(V)
  BY <1>3, TokensAre, ListsAre
<1>6. e.is = "list" => \A k \in 1..Len(e.xs) : e.xs[k] \in S <=> e.xs[k] \in U
  BY <1>5, <1>4
<1>7. e.is = "list" => \A k \in 1..Len(e.xs) : e.xs[k] \in U <=> e.xs[k] \in S
  BY <1>6
<1>8. e.is = "list" => \E W : e.xs \in Seq(W)
  BY <1>5
<1>9. IsCoreOver(e, S) <=> IsCoreOver(e, U)
  BY <1>6, <1>7, <1>8, CoreOverAgrees
<1>10. QED
  BY <1>2, <1>9 DEF U

-----------------------------------------------------------------------------
(* What process_ast does with each kind of expression.                     *)

Lists == ListsOver(Expr)
IsOther(e) == e.fnapp /\ e.xs # <<>> /\ \A b \in BuiltinNames : ~IsForm(e, b)

LEMMA KindsOfExpressions ==
  \A e \in Expr :
    \/ e \in Tokens
    \/ e \in Lists /\ ~e.fnapp
    \/ e \in Lists /\ e = List(TRUE, <<>>)
    \/ \E b \in BuiltinNames : e \in Lists /\ IsForm(e, b)
    \/ e \in Lists /\ IsOther(e)
<1> SUFFICES ASSUME NEW e \in Expr, e \notin Tokens, ~(e \in Lists /\ ~e.fnapp)
             PROVE  \/ e = List(TRUE, <<>>)
                    \/ \E b \in BuiltinNames : IsForm(e, b)
                    \/ IsOther(e)
  BY ExprIs DEF Lists
<1>1. e \in Lists /\ e.fnapp /\ e = List(e.fnapp, e.xs) /\ e.fnapp \in BOOLEAN
  BY ExprIs, ListsAre DEF Lists
<1>2. e.fnapp = TRUE
  BY <1>1
<1>3. QED
  BY <1>1, <1>2 DEF IsOther

\* One form is not another.
LEMMA FormsDiffer ==
  \A e, b, c : IsForm(e, b) /\ IsForm(e, c) => b = c
<1> SUFFICES ASSUME NEW e, NEW b, NEW c, IsForm(e, b), IsForm(e, c) PROVE b = c
  OBVIOUS
<1>1. Token(b, "STRING") = Token(c, "STRING")
  BY DEF IsForm
<1>2. Token(b, "STRING").x = b /\ Token(c, "STRING").x = c
  BY DEF Token
<1>3. QED
  BY <1>1, <1>2

LEMMA OfTokens ==
  ASSUME NEW e \in Tokens, NEW path, NEW ls
  PROVE  /\ e.is = "token"
         /\ \A b : ~IsForm(e, b)
         /\ Subexpressions(e) = <<>>
         /\ FaultOf(e) = IF e.kind = "STRING" /\ e.x \in BuiltinNames THEN "check" ELSE "none"
         /\ ScopeWithin(e, path, ls) = ls
         /\ e.kind = "STRING" => NodeOf(e, path, ls) = Resolve(e.x, ls)
         /\ e.kind # "STRING" => NodeOf(e, path, ls).type \in {"String", "Number"}
<1>1. e.is = "token" /\ e.kind \in TokenKinds
  BY TokensAre
<1>2. \A b : ~IsForm(e, b)
  BY <1>1 DEF IsForm
<1>3. e # List(TRUE, <<>>)
  <2>1. List(TRUE, <<>>).is = "list"
    BY DEF List
  <2>2. QED
    BY <1>1, <2>1
<1>4. Subexpressions(e) = <<>>
  BY <1>1, <1>2 DEF Subexpressions
<1>5. FaultOf(e) = IF e.kind = "STRING" /\ e.x \in BuiltinNames THEN "check" ELSE "none"
  BY <1>1, <1>2, <1>3 DEF FaultOf
<1>6. ScopeWithin(e, path, ls) = ls
  BY <1>2 DEF ScopeWithin
<1>7. e.kind = "STRING" => NodeOf(e, path, ls) = Resolve(e.x, ls)
  BY <1>1, <1>2 DEF NodeOf
<1>8. e.kind # "STRING" => NodeOf(e, path, ls).type \in {"String", "Number"}
  <2>1. CASE e.kind = "QUOTED_STRING"
    <3>1. NodeOf(e, path, ls) = [type |-> "String", x |-> e.x]
      BY <2>1, <1>1, <1>2 DEF NodeOf
    <3>2. QED
      BY <3>1
  <2>2. CASE e.kind = "NUMBER"
    <3>1. NodeOf(e, path, ls) = [type |-> "Number", x |-> e.x]
      BY <2>2, <1>1, <1>2 DEF NodeOf
    <3>2. QED
      BY <3>1
  <2>3. QED
    BY <1>1, <2>1, <2>2 DEF TokenKinds
<1>9. QED
  BY <1>1, <1>2, <1>4, <1>5, <1>6, <1>7, <1>8

LEMMA OfTuples ==
  ASSUME NEW e \in Lists, ~e.fnapp, NEW path, NEW ls
  PROVE  /\ \A b : ~IsForm(e, b)
         /\ Subexpressions(e) = [i \in 1..Len(e.xs) |-> i]
         /\ FaultOf(e) = "none"
         /\ ScopeWithin(e, path, ls) = ls
         /\ NodeOf(e, path, ls).type = "Tuple"
<1>1. e.is = "list" /\ e.xs \in Seq(Expr)
  BY ListsAre DEF Lists
<1>2. \A b : ~IsForm(e, b)
  BY DEF IsForm
<1>3. e # List(TRUE, <<>>)
  <2>1. List(TRUE, <<>>).fnapp = TRUE
    BY DEF List
  <2>2. QED
    BY <2>1
<1>4. NodeOf(e, path, ls) = [type |-> "Tuple"]
  BY <1>1, <1>2 DEF NodeOf
<1>5. NodeOf(e, path, ls).type = "Tuple"
  BY <1>4
<1>6. QED
  BY <1>1, <1>2, <1>3, <1>5 DEF Subexpressions, FaultOf, ScopeWithin

LEMMA OfOthers ==
  ASSUME NEW e \in Lists, IsOther(e), NEW path, NEW ls
  PROVE  /\ Subexpressions(e) = [i \in 1..Len(e.xs) |-> i]
         /\ FaultOf(e) = "none"
         /\ ScopeWithin(e, path, ls) = ls
         /\ NodeOf(e, path, ls).type = "Fnapp"
<1>1. e.is = "list" /\ e.xs \in Seq(Expr) /\ e.xs # <<>> /\ e.fnapp
  BY ListsAre DEF Lists, IsOther
<1>2. ~IsForm(e, "def") /\ ~IsForm(e, "fn") /\ ~IsForm(e, "let") /\ ~IsForm(e, "fnapp")
  BY DEF IsOther, BuiltinNames
<1>3. e # List(TRUE, <<>>)
  <2>1. List(TRUE, <<>>).xs = <<>>
    BY DEF List
  <2>2. QED
    BY <1>1, <2>1
<1>4. NodeOf(e, path, ls) = [type |-> "Fnapp"]
  BY <1>1, <1>2 DEF NodeOf
<1>5. NodeOf(e, path, ls).type = "Fnapp"
  BY <1>4
<1>6. QED
  BY <1>1, <1>2, <1>3, <1>5 DEF Subexpressions, FaultOf, ScopeWithin

\* The application without head.
LEMMA OfEmpty ==
  FaultOf(List(TRUE, <<>>)) = "check" /\ \A b : ~IsForm(List(TRUE, <<>>), b)
<1> DEFINE e == List(TRUE, <<>>)
<1>1. e.is = "list" /\ e.fnapp /\ e.xs = <<>>
  BY DEF List
<1> HIDE DEF e
<1>2. Len(e.xs) = 0
  BY <1>1
<1>3. \A b : ~IsForm(e, b)
  BY <1>2 DEF IsForm
<1>4. FaultOf(e) = "check"
  BY <1>1, <1>3 DEF FaultOf, e
<1>5. QED
  BY <1>3, <1>4 DEF e

LEMMA FormsHaveHeads ==
  ASSUME NEW e, e \in Lists, NEW b, IsForm(e, b)
  PROVE  e.is = "list" /\ e.fnapp /\ e # List(TRUE, <<>>)
BY OfEmpty, ListsAre DEF Lists, IsForm

LEMMA OfDefs ==
  ASSUME NEW e, e \in Lists, IsForm(e, "def"), NEW path, NEW ls
  PROVE  /\ Subexpressions(e) = <<3>>
         /\ FaultOf(e) = NamedFault(e, 3)
         /\ ScopeWithin(e, path, ls) = ls
         /\ NodeOf(e, path, ls) = [type |-> "Def", name |-> e.xs[2].x]
<1>1. e.is = "list" /\ e.fnapp /\ e # List(TRUE, <<>>)
  BY FormsHaveHeads
<1>2. ~IsForm(e, "fn") /\ ~IsForm(e, "let") /\ ~IsForm(e, "fnapp")
  BY FormsDiffer
<1>3. IsForm(e, "def")
  OBVIOUS
<1>4. e # List(TRUE, <<>>) /\ ~(e.is = "token" /\ e.kind = "STRING" /\ e.x \in BuiltinNames)
  BY <1>1
<1>5. Subexpressions(e) = <<3>>
  BY <1>1, <1>2, <1>3 DEF Subexpressions
<1>6. FaultOf(e) = NamedFault(e, 3)
  BY <1>2, <1>3, <1>4 DEF FaultOf
<1>7. ScopeWithin(e, path, ls) = ls
  BY <1>2, <1>3 DEF ScopeWithin
<1>8. NodeOf(e, path, ls) = [type |-> "Def", name |-> e.xs[2].x]
  BY <1>1, <1>2, <1>3 DEF NodeOf
<1>9. QED
  BY <1>5, <1>6, <1>7, <1>8

LetScope(e, path) == <<Variable(e.xs[2].x, path \o <<2>>)>>

LEMMA OfLets ==
  ASSUME NEW e, e \in Lists, IsForm(e, "let"), NEW path, NEW ls
  PROVE  /\ Subexpressions(e) = <<3, 4>>
         /\ FaultOf(e) = NamedFault(e, 4)
         /\ ScopeWithin(e, path, ls) = <<LetScope(e, path)>> \o ls
         /\ NodeOf(e, path, ls) = [type |-> "Let", name |-> e.xs[2].x]
<1>1. e.is = "list" /\ e.fnapp /\ e # List(TRUE, <<>>)
  BY FormsHaveHeads
<1>2. ~IsForm(e, "fn") /\ ~IsForm(e, "def") /\ ~IsForm(e, "fnapp")
  BY FormsDiffer
<1>3. IsForm(e, "let")
  OBVIOUS
<1>4. e # List(TRUE, <<>>) /\ ~(e.is = "token" /\ e.kind = "STRING" /\ e.x \in BuiltinNames)
  BY <1>1
<1>5. Subexpressions(e) = <<3, 4>>
  BY <1>1, <1>2, <1>3 DEF Subexpressions
<1>6. FaultOf(e) = NamedFault(e, 4)
  BY <1>2, <1>3, <1>4 DEF FaultOf
<1>7. ScopeWithin(e, path, ls) = <<LetScope(e, path)>> \o ls
  BY <1>2, <1>3 DEF ScopeWithin, LetScope
<1>8. NodeOf(e, path, ls) = [type |-> "Let", name |-> e.xs[2].x]
  BY <1>1, <1>2, <1>3 DEF NodeOf
<1>9. QED
  BY <1>5, <1>6, <1>7, <1>8

LEMMA OfFns ==
  ASSUME NEW e, e \in Lists, IsForm(e, "fn"), NEW path, NEW ls
  PROVE  /\ Subexpressions(e) = <<3>>
         /\ FaultOf(e) = FnFault(e)
         /\ ScopeWithin(e, path, ls) = <<Parameters(e, path)>> \o ls
         /\ NodeOf(e, path, ls) = [type |-> "Fn", pars |-> Parameters(e, path)]
<1>1. e.is = "list" /\ e.fnapp /\ e # List(TRUE, <<>>)
  BY FormsHaveHeads
<1>2. ~IsForm(e, "def") /\ ~IsForm(e, "let") /\ ~IsForm(e, "fnapp")
  BY FormsDiffer
<1>3. IsForm(e, "fn")
  OBVIOUS
<1>4. e # List(TRUE, <<>>) /\ ~(e.is = "token" /\ e.kind = "STRING" /\ e.x \in BuiltinNames)
  BY <1>1
<1>5. Subexpressions(e) = <<3>>
  BY <1>1, <1>2, <1>3 DEF Subexpressions
<1>6. FaultOf(e) = FnFault(e)
  BY <1>2, <1>3, <1>4 DEF FaultOf
<1>7. ScopeWithin(e, path, ls) = <<Parameters(e, path)>> \o ls
  BY <1>2, <1>3 DEF ScopeWithin
<1>8. NodeOf(e, path, ls) = [type |-> "Fn", pars |-> Parameters(e, path)]
  BY <1>1, <1>2, <1>3 DEF NodeOf
<1>9. QED
  BY <1>5, <1>6, <1>7, <1>8

LEMMA OfFnapps ==
  ASSUME NEW e, e \in Lists, IsForm(e, "fnapp")
  PROVE  FaultOf(e) = "unreachable"
<1>1. e.is = "list" /\ e.fnapp /\ e # List(TRUE, <<>>)
  BY FormsHaveHeads
<1>2. ~IsForm(e, "def") /\ ~IsForm(e, "let") /\ ~IsForm(e, "fn")
  BY FormsDiffer, "fnapp" # "let", "fnapp" # "fn", "fnapp" # "def"
<1>3. QED
  BY <1>1, <1>2 DEF FaultOf

-----------------------------------------------------------------------------
(* process_ast accepts the core language.                                  *)

SubexpressionsAreCore(e) ==
  \A j \in 1..Len(Subexpressions(e)) : IsCore(e.xs[Subexpressions(e)[j]])
Passes(e) == FaultOf(e) = "none" /\ ~IsBareHead(e)

\* The word at the head of a form is no expression of the language.
LEMMA HeadsAreNotCore ==
  ASSUME NEW e \in Lists, NEW b \in BuiltinNames, IsForm(e, b)
  PROVE  ~IsCore(e.xs[1])
<1>1. e.xs \in Seq(Expr) /\ Len(e.xs) > 0 /\ e.xs[1] = Token(b, "STRING")
  BY ListsAre DEF Lists, IsForm
<1>2. e.xs[1] \in Expr
  BY <1>1
<1>3. e.xs[1].is = "token" /\ e.xs[1].kind = "STRING" /\ e.xs[1].x = b
  BY <1>1 DEF Token
<1>4. ~IsCoreOver(e.xs[1], Core[NESTING])
  BY <1>3, "token" # "list" DEF IsCoreOver
<1>5. QED
  BY <1>2, <1>4, CoreExpressions

\* A form is of the core language in no other way than as that form.
LEMMA CoreForms ==
  ASSUME NEW e \in Expr, e \in Lists, NEW b \in BuiltinNames, IsForm(e, b)
  PROVE  IsCore(e) <=>
           \/ /\ b = "def" /\ Len(e.xs) = 3
              /\ IsName(e.xs[2]) /\ IsCore(e.xs[3])
           \/ /\ b = "fn" /\ Len(e.xs) = 3
              /\ e.xs[2].is = "list" /\ ~e.xs[2].fnapp /\ e.xs[2].xs # <<>>
              /\ \A k \in 1..Len(e.xs[2].xs) : IsName(e.xs[2].xs[k])
              /\ IsCore(e.xs[3])
           \/ /\ b = "let" /\ Len(e.xs) = 4
              /\ IsName(e.xs[2]) /\ IsCore(e.xs[3]) /\ IsCore(e.xs[4])
<1> DEFINE S == Core[NESTING]
           xs == e.xs
<1>1. e.is = "list" /\ e.fnapp /\ xs \in Seq(Expr) /\ Len(xs) > 0 /\ xs[1] = Token(b, "STRING")
  BY ListsAre DEF Lists, IsForm
<1>2. xs[1] \notin S
  BY HeadsAreNotCore DEF IsCore
<1>3. \A c : Token(c, "STRING") = Token(b, "STRING") => c = b
  <2>1. \A c : Token(c, "STRING").x = c
    BY DEF Token
  <2>2. QED
    BY <2>1
<1>4. IsCore(e) <=> IsCoreOver(e, S)
  BY CoreExpressions
<1>5. \A x : x \in S <=> IsCore(x)
  BY DEF IsCore
<1>6. Range(xs) = {xs[k] : k \in 1..Len(xs)}
  BY <1>1 DEF Range
<1> HIDE DEF S
<1>7. IsCoreOver(e, S) <=>
        \/ \E name \in Range(xs), body \in Range(xs) \cap S :
             /\ IsName(name)
             /\ xs = <<Token("def", "STRING"), name, body>>
        \/ \E names \in Range(xs), body \in Range(xs) \cap S :
             /\ names.is = "list" /\ ~names.fnapp /\ names.xs # <<>>
             /\ \A k \in 1..Len(names.xs) : IsName(names.xs[k])
             /\ xs = <<Token("fn", "STRING"), names, body>>
        \/ \E name \in Range(xs), value \in Range(xs) \cap S, body \in Range(xs) \cap S :
             /\ IsName(name)
             /\ xs = <<Token("let", "STRING"), name, value, body>>
  <2>1. ~(Len(xs) >= 2 /\ \A k \in 1..Len(xs) : xs[k] \in S)
    BY <1>1, <1>2
  <2>2. e.is # "token"
    BY <1>1
  <2>3. QED
    BY <1>1, <2>1, <2>2 DEF IsCoreOver
<1> HIDE DEF xs
<1>8. (\E name \in Range(xs), body \in Range(xs) \cap S :
             /\ IsName(name)
             /\ xs = <<Token("def", "STRING"), name, body>>)
      <=> b = "def" /\ Len(xs) = 3 /\ IsName(xs[2]) /\ xs[3] \in S
  <2>1. ASSUME NEW name \in Range(xs), NEW body \in Range(xs) \cap S,
               IsName(name), xs = <<Token("def", "STRING"), name, body>>
        PROVE  b = "def" /\ Len(xs) = 3 /\ IsName(xs[2]) /\ xs[3] \in S
    BY <1>1, <1>3, <2>1
  <2>2. ASSUME b = "def", Len(xs) = 3, IsName(xs[2]), xs[3] \in S
        PROVE  /\ xs[2] \in Range(xs) /\ xs[3] \in Range(xs) \cap S
               /\ IsName(xs[2]) /\ xs = <<Token("def", "STRING"), xs[2], xs[3]>>
    BY <1>1, <1>6, <2>2
  <2>3. QED
    BY <2>1, <2>2
<1>9. (\E names \in Range(xs), body \in Range(xs) \cap S :
             /\ names.is = "list" /\ ~names.fnapp /\ names.xs # <<>>
             /\ \A k \in 1..Len(names.xs) : IsName(names.xs[k])
             /\ xs = <<Token("fn", "STRING"), names, body>>)
      <=> /\ b = "fn" /\ Len(xs) = 3
          /\ xs[2].is = "list" /\ ~xs[2].fnapp /\ xs[2].xs # <<>>
          /\ \A k \in 1..Len(xs[2].xs) : IsName(xs[2].xs[k])
          /\ xs[3] \in S
  <2> DEFINE AreNames(ns) == /\ ns.is = "list" /\ ~ns.fnapp /\ ns.xs # <<>>
                             /\ \A k \in 1..Len(ns.xs) : IsName(ns.xs[k])
  <2> HIDE DEF AreNames
  <2>1. ASSUME NEW names \in Range(xs), NEW body \in Range(xs) \cap S,
               AreNames(names), xs = <<Token("fn", "STRING"), names, body>>
        PROVE  b = "fn" /\ Len(xs) = 3 /\ AreNames(xs[2]) /\ xs[3] \in S
    BY <1>1, <1>3, <2>1
  <2>2. ASSUME b = "fn", Len(xs) = 3, AreNames(xs[2]), xs[3] \in S
        PROVE  /\ xs[2] \in Range(xs) /\ xs[3] \in Range(xs) \cap S
               /\ AreNames(xs[2]) /\ xs = <<Token("fn", "STRING"), xs[2], xs[3]>>
    BY <1>1, <1>6, <2>2
  <2>3. (\E names \in Range(xs), body \in Range(xs) \cap S :
           AreNames(names) /\ xs = <<Token("fn", "STRING"), names, body>>)
        <=> b = "fn" /\ Len(xs) = 3 /\ AreNames(xs[2]) /\ xs[3] \in S
    BY <2>1, <2>2
  <2>4. QED
    BY <2>3 DEF AreNames
<1>10. (\E name \in Range(xs), value \in Range(xs) \cap S, body \in Range(xs) \cap S :
             /\ IsName(name)
             /\ xs = <<Token("let", "STRING"), name, value, body>>)
       <=> b = "let" /\ Len(xs) = 4 /\ IsName(xs[2]) /\ xs[3] \in S /\ xs[4] \in S
  <2>1. ASSUME NEW name \in Range(xs), NEW value \in Range(xs) \cap S, NEW body \in Range(xs) \cap S,
               IsName(name), xs = <<Token("let", "STRING"), name, value, body>>
        PROVE  b = "let" /\ Len(xs) = 4 /\ IsName(xs[2]) /\ xs[3] \in S /\ xs[4] \in S
    BY <1>1, <1>3, <2>1
  <2>2. ASSUME b = "let", Len(xs) = 4, IsName(xs[2]), xs[3] \in S, xs[4] \in S
        PROVE  /\ xs[2] \in Range(xs) /\ xs[3] \in Range(xs) \cap S /\ xs[4] \in Range(xs) \cap S
               /\ IsName(xs[2]) /\ xs = <<Token("let", "STRING"), xs[2], xs[3], xs[4]>>
    BY <1>1, <1>6, <2>2
  <2>3. QED
    BY <2>1, <2>2
<1>11. QED
  BY <1>4, <1>5, <1>7, <1>8, <1>9, <1>10, Zenon DEF xs

LEMMA NameFaults ==
  \A e \in Expr : NameFault(e) = "none" <=> IsName(e)
<1> SUFFICES ASSUME NEW e \in Expr PROVE NameFault(e) = "none" <=> IsName(e)
  OBVIOUS
<1>1. e.is = "token" \/ e.is = "list"
  BY ExprIs, TokensAre, ListsAre
<1>2. CASE e.is = "list"
  BY <1>2 DEF NameFault, IsName
<1>3. CASE e.is = "token"
  BY <1>3 DEF NameFault, IsName
<1>4. QED
  BY <1>1, <1>2, <1>3

\* An expression is of the core language when it passes the checks and what
\* process_ast calls itself for is.
LEMMA Acceptance ==
  \A e \in Expr : IsCore(e) <=> Passes(e) /\ SubexpressionsAreCore(e)
<1> SUFFICES ASSUME NEW e \in Expr PROVE IsCore(e) <=> Passes(e) /\ SubexpressionsAreCore(e)
  OBVIOUS
<1> DEFINE S == Core[NESTING]
<1>1. IsCore(e) <=> IsCoreOver(e, S)
  BY CoreExpressions
<1>2. \A x : x \in S <=> IsCore(x)
  BY DEF IsCore
<1> HIDE DEF S
<1>3. CASE e \in Tokens
  <2>1. e.is = "token" /\ Subexpressions(e) = <<>>
    BY <1>3, OfTokens
  <2>2. IsCoreOver(e, S) <=> (e.kind = "STRING" => e.x \notin BuiltinNames)
    BY <2>1 DEF IsCoreOver
  <2>3. FaultOf(e) = "none" <=> (e.kind = "STRING" => e.x \notin BuiltinNames)
    BY <1>3, OfTokens
  <2>4. ~IsBareHead(e)
    <3>1. CASE e.kind = "STRING"
      <4>1. NodeOf(e, <<>>, <<>>) = Resolve(e.x, <<>>)
        BY <3>1, <1>3, OfTokens
      <4>2. Resolve(e.x, <<>>) = [type |-> "ToplevelVariableName", name |-> e.x]
        BY DEF Resolve
      <4>3. NodeOf(e, <<>>, <<>>).type = "ToplevelVariableName"
        BY <4>1, <4>2
      <4>4. QED
        BY <4>3 DEF IsBareHead
    <3>2. CASE e.kind # "STRING"
      <4>1. NodeOf(e, <<>>, <<>>).type \in {"String", "Number"}
        BY <3>2, <1>3, OfTokens
      <4>2. QED
        BY <4>1 DEF IsBareHead
    <3>3. QED
      BY <3>1, <3>2
  <2>5. QED
    BY <1>1, <2>1, <2>2, <2>3, <2>4 DEF Passes, SubexpressionsAreCore
<1>4. CASE e \in Lists /\ (~e.fnapp \/ IsOther(e))
  <2>1. e.is = "list" /\ e.xs \in Seq(Expr) /\ e.fnapp \in BOOLEAN
    BY <1>4, ListsAre DEF Lists
  <2>2. Subexpressions(e) = [i \in 1..Len(e.xs) |-> i] /\ FaultOf(e) = "none"
    BY <1>4, OfTuples, OfOthers
  <2>3. SubexpressionsAreCore(e) <=> \A k \in 1..Len(e.xs) : e.xs[k] \in S
    <3>1. Len(Subexpressions(e)) = Len(e.xs)
      BY <2>1, <2>2
    <3>2. \A k \in 1..Len(e.xs) : Subexpressions(e)[k] = k
      BY <2>2
    <3>3. QED
      BY <1>2, <3>1, <3>2 DEF SubexpressionsAreCore
  <2>4. CASE ~e.fnapp
    <3>1. NodeOf(e, <<>>, <<>>).type = "Tuple"
      BY <1>4, <2>4, OfTuples
    <3>2. Passes(e)
      BY <2>2, <3>1 DEF Passes, IsBareHead
    <3>3. IsCoreOver(e, S) <=> \A k \in 1..Len(e.xs) : e.xs[k] \in S
      BY <2>1, <2>4 DEF IsCoreOver
    <3>4. QED
      BY <1>1, <2>3, <3>2, <3>3
  <2>5. CASE IsOther(e)
    <3>1. NodeOf(e, <<>>, <<>>).type = "Fnapp"
      BY <1>4, <2>5, OfOthers
    <3>2. Len(e.xs) \in Nat /\ Len(e.xs) # 0 /\ e.fnapp
      BY <2>1, <2>5 DEF IsOther
    <3>3. Passes(e) <=> Len(e.xs) >= 2
      <4>1. ~IsBareHead(e) <=> Len(e.xs) # 1
        BY <3>1 DEF IsBareHead
      <4>2. Len(e.xs) # 1 <=> Len(e.xs) >= 2
        <5>1. \A m \in Nat : m # 0 => (m # 1 <=> m >= 2)
          OBVIOUS
        <5>2. QED
          BY <3>2, <5>1, Zenon
      <4>3. QED
        BY <2>2, <4>1, <4>2 DEF Passes
    <3>4. \A b \in {"def", "fn", "let"} : e.xs[1] # Token(b, "STRING")
      BY <2>1, <2>5, <3>2 DEF IsOther, IsForm, BuiltinNames
    <3>5. IsCoreOver(e, S) <=> Len(e.xs) >= 2 /\ \A k \in 1..Len(e.xs) : e.xs[k] \in S
      <4>1. e.is # "token"
        BY <2>1
      <4>2. \A name, body : e.xs # <<Token("def", "STRING"), name, body>>
        BY <3>4
      <4>3. \A name, body : e.xs # <<Token("fn", "STRING"), name, body>>
        BY <3>4
      <4>4. \A name, value, body : e.xs # <<Token("let", "STRING"), name, value, body>>
        BY <3>4
      <4>5. QED
        BY <2>1, <3>2, <4>1, <4>2, <4>3, <4>4, Zenon DEF IsCoreOver
    <3>6. QED
      BY <1>1, <2>3, <3>3, <3>5
  <2>6. QED
    BY <1>4, <2>4, <2>5
<1>5. CASE e \in Lists /\ e = List(TRUE, <<>>)
  <2>1. e.is = "list" /\ e.fnapp /\ e.xs = <<>>
    BY <1>5 DEF List
  <2>2. FaultOf(e) = "check"
    BY <1>5, OfEmpty
  <2>3. ~IsCoreOver(e, S)
    <3>1. e.is # "token" /\ Len(e.xs) = 0
      BY <2>1
    <3>2. \A x, y : <<>> # <<x, y>> /\ \A z : <<>> # <<x, y, z>> /\ \A u : <<>> # <<x, y, z, u>>
      OBVIOUS
    <3>3. QED
      BY <2>1, <3>1, <3>2 DEF IsCoreOver
  <2>4. QED
    BY <1>1, <2>2, <2>3 DEF Passes
<1>6. ASSUME NEW b \in BuiltinNames, e \in Lists, IsForm(e, b)
      PROVE  IsCore(e) <=> Passes(e) /\ SubexpressionsAreCore(e)
  <2> USE <1>6
  <2>1. e.xs \in Seq(Expr) /\ Len(e.xs) \in Nat /\ e.is = "list"
    BY ListsAre DEF Lists
  <2>2. b # "fnapp" => ~IsBareHead(e)
    <3>1. b = "def" => NodeOf(e, <<>>, <<>>) = [type |-> "Def", name |-> e.xs[2].x]
      BY OfDefs
    <3>2. b = "let" => NodeOf(e, <<>>, <<>>) = [type |-> "Let", name |-> e.xs[2].x]
      BY OfLets
    <3>3. b = "fn" => NodeOf(e, <<>>, <<>>) = [type |-> "Fn", pars |-> Parameters(e, <<>>)]
      BY OfFns
    <3>4. b # "fnapp" => NodeOf(e, <<>>, <<>>).type # "Fnapp"
      BY <3>1, <3>2, <3>3 DEF BuiltinNames
    <3>5. QED
      BY <3>4 DEF IsBareHead
  <2>3. CASE b = "def"
    <3>1. FaultOf(e) = NamedFault(e, 3) /\ Subexpressions(e) = <<3>>
      BY <2>3, OfDefs
    <3>2. NamedFault(e, 3) = "none" <=> Len(e.xs) = 3 /\ IsName(e.xs[2])
      BY <2>1, NameFaults DEF NamedFault
    <3>3. SubexpressionsAreCore(e) <=> IsCore(e.xs[3])
      BY <3>1 DEF SubexpressionsAreCore
    <3>4. IsCore(e) <=> Len(e.xs) = 3 /\ IsName(e.xs[2]) /\ IsCore(e.xs[3])
      BY <2>3, CoreForms
    <3>5. QED
      BY <2>2, <2>3, <3>1, <3>2, <3>3, <3>4 DEF Passes
  <2>4. CASE b = "let"
    <3>1. FaultOf(e) = NamedFault(e, 4) /\ Subexpressions(e) = <<3, 4>>
      BY <2>4, OfLets
    <3>2. NamedFault(e, 4) = "none" <=> Len(e.xs) = 4 /\ IsName(e.xs[2])
      BY <2>1, NameFaults DEF NamedFault
    <3>3. SubexpressionsAreCore(e) <=> IsCore(e.xs[3]) /\ IsCore(e.xs[4])
      BY <3>1 DEF SubexpressionsAreCore
    <3>4. IsCore(e) <=> Len(e.xs) = 4 /\ IsName(e.xs[2]) /\ IsCore(e.xs[3]) /\ IsCore(e.xs[4])
      BY <2>4, CoreForms
    <3>5. QED
      BY <2>2, <2>4, <3>1, <3>2, <3>3, <3>4 DEF Passes
  <2>5. CASE b = "fn"
    <3>1. FaultOf(e) = FnFault(e) /\ Subexpressions(e) = <<3>>
      BY <2>5, OfFns
    <3> DEFINE AreNames(ns) == /\ ~ns.fnapp /\ ns.xs # <<>>
                               /\ \A k \in 1..Len(ns.xs) : IsName(ns.xs[k])
    <3>2. FnFault(e) = "none" <=> Len(e.xs) = 3 /\ e.xs[2].is = "list" /\ AreNames(e.xs[2])
      <4>1. CASE Len(e.xs) # 3
        BY <4>1 DEF FnFault
      <4>2. CASE Len(e.xs) = 3
        <5>1. e.xs[2] \in Expr
          BY <2>1, <4>2
        <5>2. e.xs[2].is = "token" \/ e.xs[2].is = "list"
          BY <5>1, ExprIs, TokensAre, ListsAre
        <5>3. CASE e.xs[2].is = "token"
          BY <4>2, <5>3 DEF FnFault
        <5>4. CASE e.xs[2].is = "list"
          BY <4>2, <5>4 DEF FnFault
        <5>5. QED
          BY <5>2, <5>3, <5>4
      <4>3. QED
        BY <4>1, <4>2
    <3>3. SubexpressionsAreCore(e) <=> IsCore(e.xs[3])
      BY <3>1 DEF SubexpressionsAreCore
    <3>4. IsCore(e) <=> Len(e.xs) = 3 /\ e.xs[2].is = "list" /\ AreNames(e.xs[2]) /\ IsCore(e.xs[3])
      BY <2>5, CoreForms
    <3> HIDE DEF AreNames
    <3>5. QED
      BY <2>2, <2>5, <3>1, <3>2, <3>3, <3>4 DEF Passes
  <2>6. CASE b = "fnapp"
    <3>1. FaultOf(e) = "unreachable"
      BY <2>6, OfFnapps
    <3>2. ~IsCore(e)
      BY <2>6, CoreForms
    <3>3. QED
      BY <3>1, <3>2 DEF Passes
  <2>7. QED
    BY <2>3, <2>4, <2>5, <2>6 DEF BuiltinNames
<1>7. QED
  BY <1>3, <1>4, <1>5, <1>6, KindsOfExpressions

-----------------------------------------------------------------------------
(* Paths.                                                                  *)

\* An inhabited set of numbers has a least member.
LEMMA MinIs ==
  ASSUME NEW S \in SUBSET Nat, S # {}
  PROVE  Min(S) \in S /\ \A y \in S : Min(S) <= y
<1> DEFINE R == OpToRel(<, Nat)
<1>1. IsWellFoundedOn(R, Nat)
  BY NatLessThanWellFounded
<1>2. \A x, y \in Nat : <<x, y>> \in R <=> x < y
  BY DEF OpToRel
<1> HIDE DEF R
<1>3. PICK x \in S : \A y \in S : ~ (<<y, x>> \in R)
  BY <1>1, WFMin
<1>4. \A y \in S : x <= y
  <2> TAKE y \in S
  <2>1. x \in Nat /\ y \in Nat /\ ~(y < x)
    BY <1>2, <1>3
  <2>2. QED
    BY <2>1
<1>5. QED
  BY <1>4 DEF Min

AtOf(exprs, path, at, k) == IF k = 1 THEN exprs[path[1]] ELSE at[k - 1].xs[path[k]]

LEMMA AtExists ==
  ASSUME NEW exprs, NEW path
  PROVE  \A m \in Nat : \E at : at = [k \in 1..m |-> AtOf(exprs, path, at, k)]
<1> DEFINE T == {m \in Nat : \E at : at = [k \in 1..m |-> AtOf(exprs, path, at, k)]}
<1>1. 0 \in T
  <2> DEFINE at == [k \in 1..0 |-> {}]
  <2>1. at = [k \in 1..0 |-> AtOf(exprs, path, at, k)]
    OBVIOUS
  <2>2. QED
    BY <2>1
<1>2. ASSUME NEW m \in Nat, m \in T PROVE m + 1 \in T
  <2>1. PICK at : at = [k \in 1..m |-> AtOf(exprs, path, at, k)]
    BY <1>2
  <2> DEFINE g == [k \in 1..(m + 1) |-> IF k = m + 1 THEN AtOf(exprs, path, at, k) ELSE at[k]]
  <2>2. ASSUME NEW k \in 1..(m + 1) PROVE g[k] = AtOf(exprs, path, g, k)
    <3>1. k = 1 \/ (k - 1 \in 1..m /\ g[k - 1] = at[k - 1])
      OBVIOUS
    <3>2. AtOf(exprs, path, g, k) = AtOf(exprs, path, at, k)
      BY <3>1 DEF AtOf
    <3>3. k = m + 1 \/ (k \in 1..m /\ g[k] = at[k])
      OBVIOUS
    <3>4. QED
      BY <2>1, <3>2, <3>3
  <2>3. g = [k \in 1..(m + 1) |-> AtOf(exprs, path, g, k)]
    BY <2>2
  <2> HIDE DEF g
  <2>4. m + 1 \in Nat /\ \E h : h = [k \in 1..(m + 1) |-> AtOf(exprs, path, h, k)]
    BY <2>3
  <2>5. QED
    BY <2>4
<1> HIDE DEF T
<1>3. \A m \in Nat : m \in T
  BY <1>1, <1>2, AllNumbers
<1>4. QED
  BY <1>3 DEF T

LEMMA ExprInIs ==
  ASSUME NEW exprs, NEW path, Len(path) \in Nat
  PROVE  \E at : /\ at = [k \in 1..Len(path) |-> AtOf(exprs, path, at, k)]
                 /\ ExprIn(exprs, path) = at[Len(path)]
<1>1. PICK f : f = [k \in 1..Len(path) |-> AtOf(exprs, path, f, k)]
  BY AtExists
<1> DEFINE Is(g) == g = [k \in 1..Len(path) |-> IF k = 1 THEN exprs[path[1]] ELSE g[k - 1].xs[path[k]]]
           at == CHOOSE g : Is(g)
<1>2. Is(f)
  BY <1>1 DEF AtOf
<1>3. Is(at)
  BY <1>2
<1>4. ExprIn(exprs, path) = at[Len(path)]
  BY DEF ExprIn
<1> HIDE DEF at
<1>5. at = [k \in 1..Len(path) |-> AtOf(exprs, path, at, k)]
  BY <1>3 DEF AtOf
<1>6. QED
  BY <1>4, <1>5

Path == Seq(Nat) \ {<<>>}

LEMMA ExprAtTop ==
  \A k \in Nat : <<k>> \in Path /\ ExprAt(<<k>>) = top_level_exprs[k]
<1> TAKE k \in Nat
<1>1. Len(<<k>>) = 1
  OBVIOUS
<1>2. PICK at : /\ at = [j \in 1..1 |-> AtOf(top_level_exprs, <<k>>, at, j)]
                /\ ExprIn(top_level_exprs, <<k>>) = at[1]
  BY <1>1, ExprInIs
<1>3. at[1] = top_level_exprs[k]
  <2>1. AtOf(top_level_exprs, <<k>>, at, 1) = top_level_exprs[k]
    BY DEF AtOf
  <2>2. 1 \in 1..1
    OBVIOUS
  <2>3. QED
    BY <1>2, <2>1, <2>2
<1>4. QED
  BY <1>2, <1>3 DEF ExprAt, Path

LEMMA ExprAtBelow ==
  \A path \in Path, i \in Nat :
    Append(path, i) \in Path /\ ExprAt(Append(path, i)) = ExprAt(path).xs[i]
<1> SUFFICES ASSUME NEW path \in Path, NEW i \in Nat
             PROVE  Append(path, i) \in Path /\ ExprAt(Append(path, i)) = ExprAt(path).xs[i]
  OBVIOUS
<1> DEFINE longer == Append(path, i)
           E == top_level_exprs
<1>1. longer \in Path /\ Len(longer) = Len(path) + 1 /\ Len(path) \in Nat \ {0} /\ longer[Len(path) + 1] = i
      /\ \A k \in 1..Len(path) : longer[k] = path[k]
  BY DEF Path
<1> HIDE DEF longer
<1>2. PICK f : f = [k \in 1..Len(path) |-> AtOf(E, path, f, k)] /\ ExprIn(E, path) = f[Len(path)]
  BY <1>1, ExprInIs
<1>3. PICK g : g = [k \in 1..Len(longer) |-> AtOf(E, longer, g, k)] /\ ExprIn(E, longer) = g[Len(longer)]
  <2>1. Len(longer) \in Nat
    BY <1>1
  <2>2. QED
    BY <2>1, ExprInIs
<1> DEFINE T == {m \in Nat : m + 1 <= Len(path) => f[m + 1] = g[m + 1]}
<1>4. 0 \in T
  <2>1. 1 \in 1..Len(path) /\ 1 \in 1..Len(longer)
    BY <1>1
  <2>2. f[1] = AtOf(E, path, f, 1) /\ g[1] = AtOf(E, longer, g, 1)
    BY <1>2, <1>3, <2>1
  <2>3. path[1] = longer[1]
    BY <1>1, <2>1
  <2>4. QED
    BY <2>2, <2>3 DEF AtOf
<1>5. ASSUME NEW m \in Nat, m \in T PROVE m + 1 \in T
  <2>1. ASSUME m + 2 <= Len(path) PROVE f[m + 2] = g[m + 2]
    <3>1. m + 2 \in 1..Len(path) /\ m + 2 \in 1..Len(longer) /\ m + 2 # 1 /\ (m + 2) - 1 = m + 1
      BY <1>1, <2>1
    <3>2. f[m + 1] = g[m + 1]
      BY <1>5, <2>1, <1>1
    <3>3. f[m + 2] = AtOf(E, path, f, m + 2) /\ g[m + 2] = AtOf(E, longer, g, m + 2)
      BY <1>2, <1>3, <3>1
    <3>4. path[m + 2] = longer[m + 2]
      BY <1>1, <3>1
    <3>5. QED
      BY <3>1, <3>2, <3>3, <3>4 DEF AtOf
  <2>2. (m + 1) + 1 = m + 2
    OBVIOUS
  <2>3. QED
    BY <2>1, <2>2
<1> HIDE DEF T
<1>6. \A m \in Nat : m \in T
  BY <1>4, <1>5, AllNumbers
<1>7. f[Len(path)] = g[Len(path)]
  <2>1. Len(path) - 1 \in Nat /\ (Len(path) - 1) + 1 = Len(path)
    BY <1>1
  <2>2. QED
    BY <1>6, <2>1 DEF T
<1>8. g[Len(path) + 1] = g[Len(path)].xs[i]
  <2>1. Len(path) + 1 \in 1..Len(longer) /\ Len(path) + 1 # 1 /\ (Len(path) + 1) - 1 = Len(path)
    BY <1>1
  <2>2. g[Len(path) + 1] = AtOf(E, longer, g, Len(path) + 1)
    BY <1>3, <2>1
  <2>3. QED
    BY <1>1, <2>1, <2>2 DEF AtOf
<1>9. QED
  BY <1>1, <1>2, <1>3, <1>7, <1>8 DEF ExprAt, longer

-----------------------------------------------------------------------------
(* Scopes: the meaning of a name in a part of an expression, from that in  *)
(* the expression.                                                         *)

Variables == [name : Words, path : Path]
Scopes == Seq(Seq(Variables))

\* What a new scope in front of the others changes.
LEMMA ResolveInFront ==
  ASSUME NEW name, NEW scope \in Seq(Variables), NEW ls \in Scopes
  PROVE  /\ Matches(name, scope) = {} => Resolve(name, <<scope>> \o ls) = Resolve(name, ls)
         /\ Matches(name, scope) # {} =>
              Resolve(name, <<scope>> \o ls) = AsNode(scope[Min(Matches(name, scope))])
<1> DEFINE longer == <<scope>> \o ls
           new == {s \in 1..Len(longer) : Matches(name, longer[s]) # {}}
           old == {s \in 1..Len(ls) : Matches(name, ls[s]) # {}}
<1>1. Len(longer) = Len(ls) + 1 /\ longer[1] = scope /\ Len(ls) \in Nat
      /\ \A s \in 1..Len(ls) : longer[s + 1] = ls[s]
  BY DEF Scopes
<1> HIDE DEF longer
<1>2. Resolve(name, longer) = IF new = {} THEN [type |-> "ToplevelVariableName", name |-> name]
                              ELSE AsNode(longer[Min(new)][Min(Matches(name, longer[Min(new)]))])
  BY DEF Resolve
<1>3. Resolve(name, ls) = IF old = {} THEN [type |-> "ToplevelVariableName", name |-> name]
                          ELSE AsNode(ls[Min(old)][Min(Matches(name, ls[Min(old)]))])
  BY DEF Resolve
<1>4. new \in SUBSET Nat /\ old \in SUBSET Nat
  OBVIOUS
<1>5. CASE Matches(name, scope) # {}
  <2>1. 1 \in new
    BY <1>1, <1>5
  <2>2. \A s \in new : 1 <= s
    OBVIOUS
  <2>3. Min(new) \in new /\ Min(new) <= 1
    BY <1>4, <2>1, MinIs
  <2>4. Min(new) = 1
    <3> HIDE DEF new
    <3>1. Min(new) \in Nat /\ 1 <= Min(new)
      BY <1>4, <2>2, <2>3
    <3>2. QED
      BY <3>1, <2>3
  <2>5. QED
    BY <1>1, <1>2, <1>5, <2>1, <2>4 DEF longer
<1>6. CASE Matches(name, scope) = {}
  <2>1. \A s \in 1..Len(ls) : s \in old <=> s + 1 \in new
    BY <1>1
  <2>2. ASSUME NEW s \in new PROVE s - 1 \in old
    <3>1. s # 1
      BY <1>1, <1>6
    <3>2. s - 1 \in 1..Len(ls) /\ (s - 1) + 1 = s
      BY <1>1, <3>1
    <3>3. QED
      BY <2>1, <3>2
  <2>3. \A s \in old : s \in Nat /\ s \in 1..Len(ls) /\ s + 1 \in new
    BY <2>1
  <2>4. \A s \in new : s \in Nat
    OBVIOUS
  <2> HIDE DEF new, old
  <2>5. CASE old = {}
    <3>1. new = {}
      BY <2>2, <2>5
    <3>2. QED
      BY <1>2, <1>3, <1>6, <2>5, <3>1 DEF longer
  <2>6. CASE old # {}
    <3>1. new # {}
      BY <2>3, <2>6
    <3>2. Min(old) \in old /\ \A s \in old : Min(old) <= s
      BY <1>4, <2>6, MinIs
    <3>3. Min(new) \in new /\ \A s \in new : Min(new) <= s
      BY <1>4, <3>1, MinIs
    <3>4. Min(new) <= Min(old) + 1 /\ Min(old) <= Min(new) - 1
      BY <2>2, <2>3, <3>2, <3>3
    <3>5. Min(new) = Min(old) + 1
      BY <2>3, <2>4, <3>2, <3>3, <3>4
    <3>6. longer[Min(new)] = ls[Min(old)]
      BY <1>1, <2>3, <3>2, <3>5
    <3>7. QED
      BY <1>2, <1>3, <1>6, <2>6, <3>1, <3>6 DEF longer
  <2>7. QED
    BY <2>5, <2>6
<1>7. QED
  BY <1>5, <1>6 DEF longer

\* The tokens of the form at `path' that could bind a name.
Own(path) ==
  {<<path, path \o <<2>> >>}
    \cup (IF IsForm(ExprAt(path), "fn")
            THEN {<<path, path \o <<2, k>> >> : k \in 1..Len(ExprAt(path).xs[2].xs)}
            ELSE {})
OwnBinders(name, path, i) ==
  {b \in Own(path) : Binds(b[1], b[2], Append(path, i)) /\ ExprAt(b[2]).x = name}

LEMMA OuterTokens ==
  ASSUME NEW path \in Path
  PROVE  \A b \in NameTokens(path) : \E m \in 1..(Len(path) - 1) :
           b \in Own(SubSeq(path, 1, m)) /\ b[1] = SubSeq(path, 1, m) /\ Len(b[1]) = m
<1> DEFINE N(m) == LET form == SubSeq(path, 1, m) IN
                     {<<form, form \o <<2>> >>}
                       \cup (IF IsForm(ExprAt(form), "fn")
                               THEN {<<form, form \o <<2, k>> >> : k \in 1..Len(ExprAt(form).xs[2].xs)}
                               ELSE {})
<1>1. NameTokens(path) = UNION {N(m) : m \in 1..(Len(path) - 1)}
  BY DEF NameTokens
<1>2. \A m : N(m) = Own(SubSeq(path, 1, m))
  BY DEF Own
<1> HIDE DEF N
<1>3. ASSUME NEW m \in 1..(Len(path) - 1), NEW b \in Own(SubSeq(path, 1, m))
      PROVE  b[1] = SubSeq(path, 1, m) /\ Len(b[1]) = m
  <2>1. \A p : \A t \in Own(p) : t[1] = p
    <3> SUFFICES ASSUME NEW p, NEW t \in Own(p) PROVE t[1] = p
      OBVIOUS
    <3>1. \E q : t = <<p, q>>
      BY DEF Own
    <3>2. PICK q : t = <<p, q>>
      BY <3>1
    <3>3. QED
      BY <3>2
  <2>2. b[1] = SubSeq(path, 1, m)
    BY <2>1
  <2>3. QED
    BY <2>2 DEF Path
<1>4. QED
  BY <1>1, <1>2, <1>3

LEMMA TokensBelow ==
  ASSUME NEW path \in Path, NEW i \in Nat
  PROVE  NameTokens(Append(path, i)) = NameTokens(path) \cup Own(path)
<1> DEFINE longer == Append(path, i)
<1>1. \A p : NameTokens(p) = UNION {Own(SubSeq(p, 1, m)) : m \in 1..(Len(p) - 1)}
  BY DEF NameTokens, Own
<1>2. Len(longer) = Len(path) + 1 /\ Len(path) \in Nat \ {0}
  BY DEF Path
<1>3. \A m \in 1..Len(path) : SubSeq(longer, 1, m) = SubSeq(path, 1, m)
  BY DEF Path
<1>4. SubSeq(longer, 1, Len(path)) = path
  BY DEF Path
<1> HIDE DEF longer
<1>5. ASSUME NEW b PROVE b \in NameTokens(longer) <=> b \in NameTokens(path) \cup Own(path)
  <2>1. b \in NameTokens(longer) <=> \E m \in 1..Len(path) : b \in Own(SubSeq(longer, 1, m))
    BY <1>1, <1>2
  <2>2. b \in NameTokens(path) <=> \E m \in 1..(Len(path) - 1) : b \in Own(SubSeq(longer, 1, m))
    <3>1. \A m \in 1..(Len(path) - 1) : SubSeq(longer, 1, m) = SubSeq(path, 1, m)
      BY <1>2, <1>3
    <3>2. b \in NameTokens(path) <=> \E m \in 1..(Len(path) - 1) : b \in Own(SubSeq(path, 1, m))
      BY <1>1
    <3>3. QED
      BY <3>1, <3>2
  <2>3. \A m \in 1..Len(path) : m \in 1..(Len(path) - 1) \/ m = Len(path)
    BY <1>2
  <2>4. 1..(Len(path) - 1) \subseteq 1..Len(path) /\ Len(path) \in 1..Len(path)
    BY <1>2
  <2>5. QED
    BY <1>4, <2>1, <2>2, <2>3, <2>4
<1>6. QED
  BY <1>5 DEF longer

\* What a form around an expression binds it binds in the expression's parts.
LEMMA BindersBelow ==
  ASSUME NEW path \in Path, NEW i \in Nat, NEW name
  PROVE  Binders(name, Append(path, i)) = Binders(name, path) \cup OwnBinders(name, path, i)
<1> DEFINE longer == Append(path, i)
<1>1. Len(longer) = Len(path) + 1 /\ Len(path) \in Nat \ {0} /\ path \in Seq(Nat) /\ longer \in Seq(Nat)
      /\ \A m \in 1..Len(path) : longer[m] = path[m]
  BY DEF Path
<1> HIDE DEF longer
<1>2. ASSUME NEW form \in Seq(Nat), Len(form) < Len(path), NEW m \in Nat
      PROVE  IsPrefix(form \o <<m>>, longer) <=> IsPrefix(form \o <<m>>, path)
  <2> DEFINE p == form \o <<m>>
  <2>1. p \in Seq(Nat) /\ Len(p) <= Len(path) /\ Len(p) <= Len(longer) /\ Len(p) \in Nat
    BY <1>1, <1>2
  <2> HIDE DEF p
  <2>2. SubSeq(longer, 1, Len(p)) = SubSeq(path, 1, Len(p))
    BY <1>1, <2>1
  <2>3. QED
    BY <2>1, <2>2 DEF IsPrefix, p
<1>3. ASSUME NEW b \in NameTokens(path)
      PROVE  Binds(b[1], b[2], longer) <=> Binds(b[1], b[2], path)
  <2>1. b[1] \in Seq(Nat) /\ Len(b[1]) < Len(path)
    <3>1. PICK m \in 1..(Len(path) - 1) : b[1] = SubSeq(path, 1, m) /\ Len(b[1]) = m
      BY OuterTokens
    <3>2. SubSeq(path, 1, m) \in Seq(Nat) /\ m < Len(path)
      BY <1>1
    <3>3. QED
      BY <3>1, <3>2, Zenon
  <2>2. /\ IsPrefix(b[1] \o <<3>>, longer) <=> IsPrefix(b[1] \o <<3>>, path)
        /\ IsPrefix(b[1] \o <<4>>, longer) <=> IsPrefix(b[1] \o <<4>>, path)
    BY <1>2, <2>1
  <2>3. QED
    BY <2>2 DEF Binds
<1>4. NameTokens(longer) = NameTokens(path) \cup Own(path)
  BY TokensBelow DEF longer
<1>5. QED
  BY <1>3, <1>4 DEF Binders, OwnBinders, longer

\* A scope that holds what the form at `path' binds, in the order of its names.
IsScopeOf(scope, path, i) ==
  /\ scope \in Seq(Variables)
  /\ \A name \in Words :
       OwnBinders(name, path, i) = {<<path, scope[k].path>> : k \in Matches(name, scope)}
  /\ \A j, k \in DOMAIN scope : j < k => Last(scope[j].path) < Last(scope[k].path)

LEMMA MeaningInScope ==
  ASSUME NEW path \in Path, NEW i \in Nat, NEW scope, NEW ls \in Scopes, IsScopeOf(scope, path, i),
         NEW name \in Words, IsMeaning(name, path, Resolve(name, ls))
  PROVE  IsMeaning(name, Append(path, i), Resolve(name, <<scope>> \o ls))
<1> DEFINE all == Binders(name, Append(path, i))
           hits == Matches(name, scope)
           own == OwnBinders(name, path, i)
           node == Resolve(name, <<scope>> \o ls)
<1>1. all = Binders(name, path) \cup own
  BY BindersBelow
<1>2. own = {<<path, scope[k].path>> : k \in hits}
  BY DEF IsScopeOf
<1>3. scope \in Seq(Variables)
  BY DEF IsScopeOf
<1>4. \A k \in hits : scope[k] = Variable(name, scope[k].path) /\ k \in DOMAIN scope
  <2>1. \A v \in Variables : v = Variable(v.name, v.path)
    BY DEF Variables, Variable
  <2>2. \A k \in hits : k \in 1..Len(scope) /\ scope[k].name = name
    BY DEF Matches
  <2>3. QED
    BY <1>3, <2>1, <2>2
<1>5. \A b \in Binders(name, path) : Len(b[1]) < Len(path) /\ Len(b[1]) \in Nat
  <2>1. Binders(name, path) \subseteq NameTokens(path)
    BY DEF Binders
  <2>2. Len(path) \in Nat
    BY DEF Path
  <2>3. ASSUME NEW b \in NameTokens(path) PROVE Len(b[1]) < Len(path) /\ Len(b[1]) \in Nat
    <3>1. PICK m \in 1..(Len(path) - 1) : Len(b[1]) = m
      BY OuterTokens
    <3>2. QED
      BY <2>2, <3>1
  <2>4. QED
    BY <2>1, <2>3
<1> HIDE DEF all, hits, own
<1>6. CASE hits = {}
  <2>1. all = Binders(name, path)
    BY <1>1, <1>2, <1>6
  <2>2. node = Resolve(name, ls)
    BY <1>3, <1>6, ResolveInFront DEF hits
  <2>3. QED
    BY <2>1, <2>2 DEF IsMeaning, all
<1>7. CASE hits # {}
  <2> DEFINE k == Min(hits)
             b == <<path, scope[k].path>>
  <2>1. hits \in SUBSET Nat
    BY DEF hits, Matches
  <2>2. k \in hits /\ \A j \in hits : k <= j
    BY <1>7, <2>1, MinIs
  <2>3. node = AsNode(scope[k])
    BY <1>3, <1>7, ResolveInFront DEF hits
  <2> HIDE DEF k
  <2>4. b \in all
    BY <1>1, <1>2, <2>2
  <2>5. ASSUME NEW c \in all \ {b} PROVE Hides(b, c)
    <3>1. CASE c \in Binders(name, path)
      <4>1. Len(c[1]) < Len(path) /\ Len(c[1]) \in Nat /\ b[1] = path /\ Len(path) \in Nat
        BY <1>5, <3>1 DEF Path
      <4>2. Len(b[1]) > Len(c[1])
        BY <4>1
      <4>3. QED
        BY <4>2 DEF Hides
    <3>2. CASE c \in own
      <4>1. PICK j \in hits : c = <<path, scope[j].path>>
        BY <1>2, <3>2
      <4>2. j # k /\ j \in Nat /\ k \in Nat /\ k <= j
        BY <2>1, <2>2, <2>5, <4>1
      <4>3. k < j
        BY <4>2
      <4>4. Last(scope[k].path) < Last(scope[j].path)
        BY <1>4, <2>2, <4>1, <4>3 DEF IsScopeOf
      <4>5. b[1] = c[1] /\ b[2] = scope[k].path /\ c[2] = scope[j].path
        BY <4>1
      <4>6. QED
        BY <4>4, <4>5 DEF Hides
    <3>3. QED
      BY <1>1, <2>5, <3>1, <3>2
  <2>6. node = AsNode(Variable(name, b[2]))
    BY <1>4, <2>2, <2>3
  <2>7. all # {}
    BY <2>4
  <2> HIDE DEF b, node
  <2>8. IsMeaning(name, Append(path, i), node)
    BY <2>4, <2>5, <2>6, <2>7 DEF IsMeaning, all
  <2>9. QED
    BY <2>8 DEF node
<1>8. QED
  BY <1>6, <1>7

LEMMA MeaningWithoutScope ==
  ASSUME NEW path \in Path, NEW i \in Nat, NEW name, NEW node,
         ~IsForm(ExprAt(path), "fn"), ~IsForm(ExprAt(path), "let"),
         IsMeaning(name, path, node)
  PROVE  IsMeaning(name, Append(path, i), node)
<1>1. OwnBinders(name, path, i) = {}
  <2>1. ASSUME NEW b \in Own(path) PROVE ~Binds(b[1], b[2], Append(path, i))
    <3>1. b[1] = path
      BY DEF Own
    <3>2. QED
      BY <3>1 DEF Binds
  <2>2. QED
    BY <2>1 DEF OwnBinders
<1>2. Binders(name, Append(path, i)) = Binders(name, path)
  BY <1>1, BindersBelow
<1>3. QED
  BY <1>2 DEF IsMeaning

\* Names and parts of forms that pass the checks.
LEMMA NamesAre ==
  \A e \in Expr : IsName(e) => e \in Tokens /\ e.x \in Words
<1> SUFFICES ASSUME NEW e \in Expr, IsName(e) PROVE e \in Tokens /\ e.x \in Words
  OBVIOUS
<1>1. e.is = "token"
  BY DEF IsName
<1>2. e \in Tokens
  BY <1>1, ExprIs, ListsAre
<1>3. QED
  BY <1>2, TokensAre

LEMMA PathsOfTokens ==
  \A path \in Path, k \in Nat :
    /\ path \o <<2>> \in Path /\ path \o <<2, k>> \in Path
    /\ path \o <<2>> = Append(path, 2)
    /\ path \o <<2, k>> = Append(Append(path, 2), k)
    /\ Last(path \o <<2, k>>) = k
    /\ ExprAt(path \o <<2>>) = ExprAt(path).xs[2]
    /\ ExprAt(path \o <<2, k>>) = ExprAt(path).xs[2].xs[k]
<1> SUFFICES ASSUME NEW path \in Path, NEW k \in Nat
             PROVE  /\ path \o <<2>> \in Path /\ path \o <<2, k>> \in Path
                    /\ path \o <<2>> = Append(path, 2)
                    /\ path \o <<2, k>> = Append(Append(path, 2), k)
                    /\ Last(path \o <<2, k>>) = k
                    /\ ExprAt(path \o <<2>>) = ExprAt(path).xs[2]
                    /\ ExprAt(path \o <<2, k>>) = ExprAt(path).xs[2].xs[k]
  OBVIOUS
<1>1. path \o <<2>> = Append(path, 2) /\ path \o <<2, k>> = Append(Append(path, 2), k)
  BY DEF Path
<1>2. Last(Append(Append(path, 2), k)) = k
  BY DEF Path, Last
<1>3. Append(path, 2) \in Path /\ ExprAt(Append(path, 2)) = ExprAt(path).xs[2]
  BY ExprAtBelow
<1>4. Append(Append(path, 2), k) \in Path
      /\ ExprAt(Append(Append(path, 2), k)) = ExprAt(Append(path, 2)).xs[k]
  BY <1>3, ExprAtBelow
<1>5. QED
  BY <1>1, <1>2, <1>3, <1>4

LEMMA PrefixOfPart ==
  \A path \in Path, i \in Nat, m \in Nat : IsPrefix(path \o <<m>>, Append(path, i)) <=> m = i
<1> SUFFICES ASSUME NEW path \in Path, NEW i \in Nat, NEW m \in Nat
             PROVE  IsPrefix(path \o <<m>>, Append(path, i)) <=> m = i
  OBVIOUS
<1> DEFINE p == path \o <<m>>
           q == Append(path, i)
           l == Len(path) + 1
<1>1. p \in Seq(Nat) /\ q \in Seq(Nat) /\ Len(p) = l /\ Len(q) = l /\ p[l] = m /\ q[l] = i /\ l \in Nat
      /\ \A k \in 1..Len(path) : p[k] = path[k] /\ q[k] = path[k]
  BY DEF Path
<1> HIDE DEF p, q
<1>2. SubSeq(p, 1, l) = p /\ SubSeq(q, 1, l) = q
  BY <1>1
<1>3. p = q <=> m = i
  <2>1. p = q => m = i
    BY <1>1
  <2>2. m = i => p = q
    BY DEF p, q, Path
  <2>3. QED
    BY <2>1, <2>2
<1>4. IsPrefix(p, q) <=> p = q
  BY <1>1, <1>2 DEF IsPrefix
<1>5. QED
  BY <1>3, <1>4 DEF p, q

LEMMA ScopeOfLet ==
  ASSUME NEW path \in Path, NEW i \in {3, 4},
         ExprAt(path) \in Expr, ExprAt(path) \in Lists, IsForm(ExprAt(path), "let"),
         FaultOf(ExprAt(path)) = "none"
  PROVE  IsScopeOf(LetScope(ExprAt(path), path), path, i)
<1> DEFINE e == ExprAt(path)
           t == path \o <<2>>
           v == Variable(e.xs[2].x, t)
<1>1. "let" \in BuiltinNames /\ ~IsForm(e, "fn")
  BY FormsDiffer DEF BuiltinNames
<1>2. e.xs \in Seq(Expr) /\ Len(e.xs) = 4 /\ IsName(e.xs[2])
  <2>1. e.xs \in Seq(Expr)
    BY ListsAre DEF Lists
  <2>2. NamedFault(e, 4) = "none"
    BY <1>1, OfLets
  <2>3. Len(e.xs) = 4 /\ NameFault(e.xs[2]) = "none"
    BY <2>2 DEF NamedFault
  <2>4. QED
    BY <2>1, <2>3, NameFaults
<1>3. e.xs[2] \in Expr /\ e.xs[2].x \in Words
  BY <1>2, NamesAre
<1>4. t \in Path /\ ExprAt(t) = e.xs[2]
  BY PathsOfTokens
<1>5. v \in Variables /\ v.name = e.xs[2].x /\ v.path = t
  BY <1>3, <1>4 DEF Variables, Variable
<1>6. Own(path) = {<<path, t>>}
  BY <1>1 DEF Own
<1>7. IsPrefix(path \o <<3>>, Append(path, i)) \/ IsPrefix(path \o <<4>>, Append(path, i))
  BY PrefixOfPart
<1>8. Binds(path, t, Append(path, i))
  BY <1>7 DEF Binds
<1>9. \A name : OwnBinders(name, path, i) = IF e.xs[2].x = name THEN {<<path, t>>} ELSE {}
  <2> TAKE name
  <2> DEFINE b == <<path, t>>
  <2>1. b[1] = path /\ b[2] = t
    OBVIOUS
  <2>2. OwnBinders(name, path, i) = {x \in {b} : Binds(x[1], x[2], Append(path, i)) /\ ExprAt(x[2]).x = name}
    BY <1>6 DEF OwnBinders
  <2>3. ExprAt(b[2]).x = e.xs[2].x /\ Binds(b[1], b[2], Append(path, i))
    BY <1>4, <1>8, <2>1
  <2> HIDE DEF b
  <2>4. OwnBinders(name, path, i) = IF e.xs[2].x = name THEN {b} ELSE {}
    BY <2>2, <2>3
  <2>5. QED
    BY <2>4 DEF b
<1> DEFINE scope == <<v>>
<1>10. scope \in Seq(Variables) /\ Len(scope) = 1 /\ scope[1] = v /\ DOMAIN scope = {1}
  BY <1>5
<1> HIDE DEF v, scope
<1>11. \A name : Matches(name, scope) = IF e.xs[2].x = name THEN {1} ELSE {}
  BY <1>5, <1>10 DEF Matches
<1>12. \A name : OwnBinders(name, path, i) = {<<path, scope[k].path>> : k \in Matches(name, scope)}
  <2> TAKE name
  <2>1. CASE e.xs[2].x = name
    <3>1. Matches(name, scope) = {1} /\ scope[1].path = t
      BY <1>5, <1>10, <1>11, <2>1
    <3>2. {<<path, scope[k].path>> : k \in Matches(name, scope)} = {<<path, t>>}
      BY <3>1
    <3>3. QED
      BY <1>9, <2>1, <3>2
  <2>2. CASE e.xs[2].x # name
    BY <1>9, <1>11, <2>2
  <2>3. QED
    BY <2>1, <2>2
<1>13. \A j, k \in DOMAIN scope : ~(j < k)
  BY <1>10
<1>14. QED
  BY <1>10, <1>12, <1>13 DEF IsScopeOf, LetScope, scope, v

LEMMA ScopeOfFn ==
  ASSUME NEW path \in Path,
         ExprAt(path) \in Expr, ExprAt(path) \in Lists, IsForm(ExprAt(path), "fn"),
         FaultOf(ExprAt(path)) = "none"
  PROVE  IsScopeOf(Parameters(ExprAt(path), path), path, 3)
<1> DEFINE e == ExprAt(path)
           ns == e.xs[2].xs
           t(k) == path \o <<2, k>>
           scope == Parameters(e, path)
<1>1. "fn" \in BuiltinNames /\ ~IsForm(e, "let")
  BY FormsDiffer DEF BuiltinNames
<1>2. e.xs \in Seq(Expr) /\ Len(e.xs) = 3 /\ e.xs[2].is # "token" /\ \A k \in 1..Len(ns) : IsName(ns[k])
  <2>1. e.xs \in Seq(Expr)
    BY ListsAre DEF Lists
  <2>2. FnFault(e) = "none"
    BY <1>1, OfFns
  <2>3. Len(e.xs) = 3
    BY <2>2 DEF FnFault
  <2>4. e.xs[2].is # "token"
    BY <2>2, <2>3 DEF FnFault
  <2>5. \A k \in 1..Len(ns) : IsName(ns[k])
    BY <2>2, <2>3, <2>4 DEF FnFault
  <2>6. QED
    BY <2>1, <2>3, <2>4, <2>5
<1>3. ns \in Seq(Expr)
  <2>1. e.xs[2] \in Expr
    BY <1>2
  <2>2. e.xs[2] \in ListsOver(Expr)
    BY <1>2, <2>1, ExprIs, TokensAre
  <2>3. QED
    BY <2>2, ListsAre
<1>4. \A k \in 1..Len(ns) : ns[k].x \in Words
  BY <1>2, <1>3, NamesAre
<1>5. \A k \in 1..Len(ns) : t(k) \in Path /\ ExprAt(t(k)) = ns[k] /\ Last(t(k)) = k
  <2> TAKE k \in 1..Len(ns)
  <2>1. k \in Nat
    BY <1>3
  <2>2. QED
    BY <2>1, PathsOfTokens
<1>6. scope = [k \in 1..Len(ns) |-> Variable(ns[k].x, t(k))]
  BY DEF Parameters
<1>7. Own(path) = {<<path, path \o <<2>> >>} \cup {<<path, t(k)>> : k \in 1..Len(ns)}
  BY DEF Own
<1>8. \A k \in 1..Len(ns) : path \o <<2>> # t(k)
  <2>1. \A k \in Nat : path \o <<2>> = Append(path, 2) /\ t(k) = Append(Append(path, 2), k)
    BY PathsOfTokens
  <2>2. \A k \in Nat : Len(Append(path, 2)) # Len(Append(Append(path, 2), k))
    BY DEF Path
  <2>3. Len(ns) \in Nat
    BY <1>3
  <2>4. QED
    BY <2>1, <2>2, <2>3
<1>9. IsPrefix(path \o <<3>>, Append(path, 3))
  BY PrefixOfPart
<1>10. \A token : Binds(path, token, Append(path, 3)) <=> \E k \in 1..Len(ns) : token = t(k)
  BY <1>1, <1>9 DEF Binds
<1>11. \A name : OwnBinders(name, path, 3) = {<<path, t(k)>> : k \in {j \in 1..Len(ns) : ns[j].x = name}}
  <2> TAKE name
  <2>1. ASSUME NEW b PROVE b \in OwnBinders(name, path, 3) <=> \E k \in 1..Len(ns) : b = <<path, t(k)>> /\ ns[k].x = name
    <3>1. b \in OwnBinders(name, path, 3) <=> b \in Own(path) /\ Binds(b[1], b[2], Append(path, 3)) /\ ExprAt(b[2]).x = name
      BY DEF OwnBinders
    <3>2. ASSUME b \in OwnBinders(name, path, 3) PROVE \E k \in 1..Len(ns) : b = <<path, t(k)>> /\ ns[k].x = name
      <4>1. b = <<path, b[2]>> /\ b[1] = path
        <5>1. b \in Own(path)
          BY <3>1, <3>2
        <5>2. \E q : b = <<path, q>>
          BY <1>7, <5>1
        <5>3. PICK q : b = <<path, q>>
          BY <5>2
        <5>4. QED
          BY <5>3
      <4>2. PICK k \in 1..Len(ns) : b[2] = t(k)
        BY <1>10, <3>1, <3>2, <4>1
      <4>3. QED
        BY <1>5, <3>1, <3>2, <4>1, <4>2
    <3>3. ASSUME NEW k \in 1..Len(ns), b = <<path, t(k)>>, ns[k].x = name PROVE b \in OwnBinders(name, path, 3)
      <4>1. b[1] = path /\ b[2] = t(k) /\ b \in Own(path)
        BY <1>7, <3>3
      <4>2. Binds(b[1], b[2], Append(path, 3))
        BY <1>10, <4>1
      <4>3. ExprAt(b[2]).x = name
        BY <1>5, <3>3, <4>1
      <4>4. QED
        BY <3>1, <4>1, <4>2, <4>3
    <3>4. QED
      BY <3>2, <3>3
  <2>2. QED
    BY <2>1
<1> HIDE DEF scope
<1>12. scope \in Seq(Variables) /\ Len(scope) = Len(ns) /\ DOMAIN scope = 1..Len(ns)
       /\ \A k \in 1..Len(ns) : scope[k].name = ns[k].x /\ scope[k].path = t(k)
  <2>1. Len(ns) \in Nat
    BY <1>3
  <2>2. \A k \in 1..Len(ns) : Variable(ns[k].x, t(k)) \in Variables
                              /\ Variable(ns[k].x, t(k)).name = ns[k].x
                              /\ Variable(ns[k].x, t(k)).path = t(k)
    BY <1>4, <1>5 DEF Variables, Variable
  <2> HIDE DEF ns, t
  <2>3. scope \in Seq(Variables) /\ Len(scope) = Len(ns) /\ DOMAIN scope = 1..Len(ns)
    BY <1>6, <2>1, <2>2
  <2>4. QED
    BY <1>6, <2>2, <2>3
<1>13. \A name : Matches(name, scope) = {j \in 1..Len(ns) : ns[j].x = name}
  BY <1>12 DEF Matches
<1>14. \A name : OwnBinders(name, path, 3) = {<<path, scope[k].path>> : k \in Matches(name, scope)}
  <2> TAKE name
  <2>1. Matches(name, scope) \subseteq 1..Len(ns) /\ Matches(name, scope) = {j \in 1..Len(ns) : ns[j].x = name}
    BY <1>13
  <2>2. \A k \in Matches(name, scope) : scope[k].path = t(k)
    BY <1>12, <2>1
  <2>3. {<<path, scope[k].path>> : k \in Matches(name, scope)} = {<<path, t(k)>> : k \in Matches(name, scope)}
    BY <2>2
  <2>4. QED
    BY <1>11, <2>1, <2>3
<1>15. \A j, k \in DOMAIN scope : j < k => Last(scope[j].path) < Last(scope[k].path)
  BY <1>5, <1>12
<1>16. QED
  BY <1>12, <1>14, <1>15 DEF IsScopeOf, scope

-----------------------------------------------------------------------------
(* One call of process_ast.                                                *)

Call == [e : Expr, path : Path, ls : Scopes, next : Nat]

\* The scopes of a call give names their meaning where it looks.
KnowsNames(c) ==
  \A name \in Words :
    /\ c.next = 0 \/ c.e.is = "token" => IsMeaning(name, c.path, Resolve(name, c.ls))
    /\ c.next > 0 =>
         \A j \in 1..Len(Subexpressions(c.e)) :
           IsMeaning(name, Append(c.path, Subexpressions(c.e)[j]), Resolve(name, c.ls))

CallInv(c) ==
  /\ c \in Call
  /\ c.e = ExprAt(c.path)
  /\ c.next <= Len(Subexpressions(c.e)) + 1
  /\ c.next > 0 => FaultOf(c.e) = "none"
  /\ KnowsNames(c)

\* The first m calls that c made of itself accepted what they got.
AcceptedSoFar(c, m) == \A j \in 1..m : IsCore(c.e.xs[Subexpressions(c.e)[j]])

LEMMA SubexpressionsAre ==
  \A e \in Expr :
    /\ Subexpressions(e) \in Seq(Nat)
    /\ FaultOf(e) = "none" => \A j \in 1..Len(Subexpressions(e)) : e.xs[Subexpressions(e)[j]] \in Expr
<1> SUFFICES ASSUME NEW e \in Expr
             PROVE  /\ Subexpressions(e) \in Seq(Nat)
                    /\ FaultOf(e) = "none" =>
                         \A j \in 1..Len(Subexpressions(e)) : e.xs[Subexpressions(e)[j]] \in Expr
  OBVIOUS
<1>1. CASE e \in Tokens
  <2>1. Subexpressions(e) = <<>>
    BY <1>1, OfTokens
  <2>2. QED
    BY <2>1
<1>2. CASE e \in Lists /\ Subexpressions(e) = [i \in 1..Len(e.xs) |-> i]
  <2>1. e.xs \in Seq(Expr) /\ Len(e.xs) \in Nat
    BY <1>2, ListsAre DEF Lists
  <2>2. Subexpressions(e) \in Seq(Nat) /\ Len(Subexpressions(e)) = Len(e.xs)
    BY <1>2, <2>1
  <2>3. QED
    BY <1>2, <2>1, <2>2
<1>3. ASSUME e \in Lists, NEW b \in BuiltinNames, IsForm(e, b), b # "fnapp"
      PROVE  /\ Subexpressions(e) \in Seq(Nat)
             /\ FaultOf(e) = "none" =>
                  \A j \in 1..Len(Subexpressions(e)) : e.xs[Subexpressions(e)[j]] \in Expr
  <2>1. e.xs \in Seq(Expr)
    BY <1>3, ListsAre DEF Lists
  <2>2. CASE b = "let"
    <3>1. Subexpressions(e) = <<3, 4>> /\ FaultOf(e) = NamedFault(e, 4)
      BY <1>3, <2>2, OfLets
    <3>2. FaultOf(e) = "none" => Len(e.xs) = 4
      BY <3>1 DEF NamedFault
    <3>3. QED
      BY <2>1, <3>1, <3>2
  <2>3. CASE b \in {"def", "fn"}
    <3>1. Subexpressions(e) = <<3>> /\ FaultOf(e) \in {NamedFault(e, 3), FnFault(e)}
      BY <1>3, <2>3, OfDefs, OfFns
    <3>2. FaultOf(e) = "none" => Len(e.xs) = 3
      BY <3>1 DEF NamedFault, FnFault
    <3>3. QED
      BY <2>1, <3>1, <3>2
  <2>4. QED
    BY <1>3, <2>2, <2>3 DEF BuiltinNames
<1>4. ASSUME e \in Lists, e = List(TRUE, <<>>) \/ IsForm(e, "fnapp")
      PROVE  Subexpressions(e) = [i \in 1..Len(e.xs) |-> i]
  <2>1. e.is = "list"
    BY <1>4, ListsAre DEF Lists
  <2>2. ~IsForm(e, "def") /\ ~IsForm(e, "fn") /\ ~IsForm(e, "let")
    <3>1. CASE e = List(TRUE, <<>>)
      <4>1. e.xs = <<>>
        BY <3>1 DEF List
      <4>2. QED
        BY <4>1 DEF IsForm
    <3>2. CASE IsForm(e, "fnapp")
      BY <3>2, FormsDiffer
    <3>3. QED
      BY <1>4, <3>1, <3>2
  <2>3. QED
    BY <2>1, <2>2 DEF Subexpressions
<1>5. QED
  BY <1>1, <1>2, <1>3, <1>4, KindsOfExpressions, OfTuples, OfOthers

LEMMA Entering ==
  ASSUME NEW c, CallInv(c), c.next = 0, FaultOf(c.e) = "none",
         NEW d, d = [c EXCEPT !.next = 1, !.ls = ScopeWithin(c.e, c.path, c.ls)]
  PROVE  CallInv(d) /\ d.path = c.path /\ d.e = c.e /\ d.next = 1
<1> DEFINE e == c.e
           path == c.path
           ls == c.ls
<1>0. FaultOf(e) = "none"
  OBVIOUS
<1>1. c \in Call /\ e = ExprAt(path)
  BY DEF CallInv
<1>2. e \in Expr /\ path \in Path /\ ls \in Scopes
  BY <1>1 DEF Call
<1>3. \A name \in Words : IsMeaning(name, path, Resolve(name, ls))
  BY DEF CallInv, KnowsNames
<1>4. d = [e |-> e, path |-> path, ls |-> ScopeWithin(e, path, ls), next |-> 1]
  BY <1>1 DEF Call
<1>5. d.e = e /\ d.path = path /\ d.ls = ScopeWithin(e, path, ls) /\ d.next = 1
  BY <1>4
<1>6. Subexpressions(e) \in Seq(Nat)
  BY <1>2, SubexpressionsAre
<1> HIDE DEF e, path, ls
<1> DEFINE Meant(new) ==
             /\ new \in Scopes
             /\ \A name \in Words :
                  /\ e.is = "token" => IsMeaning(name, path, Resolve(name, new))
                  /\ \A j \in 1..Len(Subexpressions(e)) :
                       IsMeaning(name, Append(path, Subexpressions(e)[j]), Resolve(name, new))
<1>7. Meant(ScopeWithin(e, path, ls))
  <2>1. CASE e \in Tokens
    <3>1. ScopeWithin(e, path, ls) = ls /\ Subexpressions(e) = <<>>
      BY <2>1, OfTokens
    <3>2. QED
      BY <1>2, <1>3, <3>1
  <2>2. ASSUME ScopeWithin(e, path, ls) = ls, ~IsForm(e, "fn"), ~IsForm(e, "let")
        PROVE  Meant(ScopeWithin(e, path, ls))
    <3>1. \A j \in 1..Len(Subexpressions(e)) : Subexpressions(e)[j] \in Nat
      BY <1>6
    <3>2. ASSUME NEW name \in Words, NEW j \in 1..Len(Subexpressions(e))
          PROVE  IsMeaning(name, Append(path, Subexpressions(e)[j]), Resolve(name, ls))
      BY <1>1, <1>2, <1>3, <2>2, <3>1, MeaningWithoutScope
    <3>3. QED
      BY <1>2, <1>3, <2>2, <3>2
  <2>3. ASSUME NEW scope, ScopeWithin(e, path, ls) = <<scope>> \o ls, e.is = "list",
               \A j \in 1..Len(Subexpressions(e)) : IsScopeOf(scope, path, Subexpressions(e)[j]),
               scope \in Seq(Variables)
        PROVE  Meant(ScopeWithin(e, path, ls))
    <3>1. <<scope>> \o ls \in Scopes
      BY <1>2, <2>3 DEF Scopes
    <3>2. \A j \in 1..Len(Subexpressions(e)) : Subexpressions(e)[j] \in Nat
      BY <1>6
    <3>3. ASSUME NEW name \in Words, NEW j \in 1..Len(Subexpressions(e))
          PROVE  IsMeaning(name, Append(path, Subexpressions(e)[j]), Resolve(name, <<scope>> \o ls))
      BY <1>2, <1>3, <2>3, <3>2, MeaningInScope
    <3>4. QED
      BY <2>3, <3>1, <3>3
  <2>4. CASE e \in Lists /\ ~e.fnapp
    BY <2>2, <2>4, OfTuples
  <2>5. CASE e \in Lists /\ IsOther(e)
    BY <2>2, <2>5, OfOthers DEF IsOther, BuiltinNames
  <2>6. CASE e \in Lists /\ e = List(TRUE, <<>>)
    <3>1. FaultOf(e) = "check"
      BY <2>6, OfEmpty
    <3>2. QED
      BY <1>0, <3>1
  <2>7. ASSUME e \in Lists, NEW b \in BuiltinNames, IsForm(e, b) PROVE Meant(ScopeWithin(e, path, ls))
    <3> HIDE DEF Meant
    <3>0. e.is = "list"
      BY <2>7, ListsAre DEF Lists
    <3>1. CASE b = "def"
      BY <2>2, <2>7, <3>1, OfDefs, FormsDiffer
    <3>2. CASE b = "fn"
      <4>1. Subexpressions(e) = <<3>> /\ ScopeWithin(e, path, ls) = <<Parameters(e, path)>> \o ls
        BY <2>7, <3>2, OfFns
      <4>2. IsScopeOf(Parameters(e, path), path, 3)
        BY <1>0, <1>1, <1>2, <2>7, <3>2, ScopeOfFn
      <4>3. \A j \in 1..Len(Subexpressions(e)) : IsScopeOf(Parameters(e, path), path, Subexpressions(e)[j])
        BY <4>1, <4>2
      <4>4. Parameters(e, path) \in Seq(Variables)
        BY <4>2 DEF IsScopeOf
      <4>5. QED
        BY <2>3, <3>0, <4>1, <4>3, <4>4
    <3>3. CASE b = "let"
      <4> DEFINE scope == LetScope(e, path)
      <4>1. Subexpressions(e) = <<3, 4>> /\ ScopeWithin(e, path, ls) = <<scope>> \o ls
        BY <2>7, <3>3, OfLets
      <4>2. \A i \in {3, 4} : IsScopeOf(scope, path, i)
        BY <1>0, <1>1, <1>2, <2>7, <3>3, ScopeOfLet
      <4> HIDE DEF scope
      <4>3. \A j \in 1..Len(Subexpressions(e)) : IsScopeOf(scope, path, Subexpressions(e)[j])
        BY <4>1, <4>2
      <4>4. scope \in Seq(Variables)
        BY <4>2 DEF IsScopeOf
      <4>5. QED
        BY <2>3, <3>0, <4>1, <4>3, <4>4
    <3>4. CASE b = "fnapp"
      <4>1. FaultOf(e) = "unreachable"
        BY <2>7, <3>4, OfFnapps
      <4>2. QED
        BY <1>0, <4>1
    <3>5. QED
      BY <2>7, <3>1, <3>2, <3>3, <3>4 DEF BuiltinNames
  <2>8. QED
    BY <1>2, <2>1, <2>4, <2>5, <2>6, <2>7, KindsOfExpressions
<1>8. d \in Call
  BY <1>2, <1>4, <1>7 DEF Call
<1>9. d.next <= Len(Subexpressions(d.e)) + 1
  BY <1>5, <1>6
<1>10. KnowsNames(d)
  BY <1>5, <1>7 DEF KnowsNames
<1>11. CallInv(d)
  BY <1>0, <1>1, <1>5, <1>8, <1>9, <1>10 DEF CallInv
<1>12. QED
  BY <1>5, <1>11 DEF e, path

LEMMA Recursing ==
  ASSUME NEW c, CallInv(c), c.next \in 1..Len(Subexpressions(c.e)),
         NEW i, i = Subexpressions(c.e)[c.next],
         NEW d, d \in Call, d.e = c.e, d.path = c.path, d.ls = c.ls, d.next = c.next + 1,
         NEW new, new = [e |-> c.e.xs[i], path |-> Append(c.path, i), ls |-> c.ls, next |-> 0]
  PROVE  CallInv(d) /\ CallInv(new) /\ Len(new.path) = Len(c.path) + 1
<1>1. c \in Call /\ c.e = ExprAt(c.path) /\ KnowsNames(c)
  BY DEF CallInv
<1>2. c.e \in Expr /\ c.path \in Path /\ c.ls \in Scopes /\ c.next \in Nat
  BY <1>1 DEF Call
<1>3. Subexpressions(c.e) \in Seq(Nat)
  BY <1>2, SubexpressionsAre
<1>4. c.next > 0 /\ c.next + 1 <= Len(Subexpressions(c.e)) + 1 /\ i \in Nat
  BY <1>2, <1>3
<1>5. FaultOf(c.e) = "none"
  BY <1>4 DEF CallInv
<1>6. c.e.xs[i] \in Expr
  BY <1>2, <1>5, SubexpressionsAre
<1>7. KnowsNames(d)
  <2>1. d.next > 0 /\ d.next # 0
    BY <1>2
  <2>2. QED
    BY <1>1, <1>4, <2>1 DEF KnowsNames
<1>8. CallInv(d)
  BY <1>1, <1>4, <1>5, <1>7 DEF CallInv
<1>9. new.e = c.e.xs[i] /\ new.path = Append(c.path, i) /\ new.ls = c.ls /\ new.next = 0
  OBVIOUS
<1>10. Append(c.path, i) \in Path /\ ExprAt(Append(c.path, i)) = c.e.xs[i]
       /\ Len(Append(c.path, i)) = Len(c.path) + 1
  <2>1. Append(c.path, i) \in Path /\ ExprAt(Append(c.path, i)) = c.e.xs[i]
    BY <1>1, <1>2, <1>4, ExprAtBelow
  <2>2. QED
    BY <1>2, <1>4, <2>1 DEF Path
<1>11. new \in Call
  BY <1>2, <1>6, <1>10 DEF Call
<1>12. new.next <= Len(Subexpressions(new.e)) + 1
  <2>1. Len(Subexpressions(c.e.xs[i])) \in Nat
    BY <1>6, SubexpressionsAre
  <2>2. QED
    BY <1>9, <2>1
<1>13. \A name \in Words : IsMeaning(name, Append(c.path, i), Resolve(name, c.ls))
  BY <1>1, <1>4 DEF KnowsNames
<1>14. KnowsNames(new)
  <2>1. ~(new.next > 0)
    BY <1>9
  <2>2. QED
    BY <1>9, <1>13, <2>1 DEF KnowsNames
<1>15. CallInv(new)
  <2>1. ~(new.next > 0)
    BY <1>9
  <2>2. QED
    BY <1>9, <1>10, <1>11, <1>12, <1>14, <2>1 DEF CallInv
<1>16. QED
  BY <1>8, <1>9, <1>10, <1>15

\* What a call that returns makes of its expression.
IsNodeFor(node, e, path) ==
  /\ node.type \in {"Variable", "ToplevelVariableName"} => IsMeaning(e.x, path, node)
  /\ node.type = "Def" <=> IsForm(e, "def")
  /\ node.type = "Def" => node.name = NameOf(e)

LEMMA Returning ==
  ASSUME NEW c, CallInv(c), c.next = Len(Subexpressions(c.e)) + 1, AcceptedSoFar(c, c.next - 1)
  PROVE  /\ ~IsBareHead(c.e) <=> IsCore(c.e)
         /\ IsNodeFor(NodeOf(c.e, c.path, c.ls), c.e, c.path)
<1> DEFINE e == c.e
           path == c.path
           ls == c.ls
           node == NodeOf(e, path, ls)
<1>1. c \in Call /\ e \in Expr /\ c.next \in Nat
  BY DEF CallInv, Call
<1>2. Subexpressions(e) \in Seq(Nat) /\ Len(Subexpressions(e)) \in Nat
  BY <1>1, SubexpressionsAre
<1>3. c.next > 0 /\ c.next - 1 = Len(Subexpressions(e))
  BY <1>2
<1>4. FaultOf(e) = "none" /\ KnowsNames(c)
  BY <1>3 DEF CallInv
<1>5. ~IsBareHead(e) <=> IsCore(e)
  BY <1>1, <1>3, <1>4, Acceptance DEF AcceptedSoFar, Passes, SubexpressionsAreCore
<1> SUFFICES IsNodeFor(node, e, path)
  BY <1>5
<1> HIDE DEF e, path, ls
<1>6. CASE e \in Tokens
  <2>1. ~IsForm(e, "def") /\ e.is = "token" /\ e.x \in Words
    BY <1>6, OfTokens, TokensAre
  <2>2. CASE e.kind = "STRING"
    <3>1. node = Resolve(e.x, ls)
      BY <1>6, <2>2, OfTokens
    <3>2. IsMeaning(e.x, path, node)
      BY <1>4, <2>1, <3>1 DEF KnowsNames, e, path, ls
    <3>3. node.type # "Def"
      <4>1. \A name, scopes : Resolve(name, scopes).type # "Def"
        BY DEF Resolve, AsNode
      <4>2. QED
        BY <3>1, <4>1
    <3>4. QED
      BY <2>1, <3>2, <3>3 DEF IsNodeFor
  <2>3. CASE e.kind # "STRING"
    <3>1. node.type \in {"String", "Number"}
      BY <1>6, <2>3, OfTokens
    <3>2. QED
      BY <2>1, <3>1 DEF IsNodeFor
  <2>4. QED
    BY <2>2, <2>3
<1>7. CASE e \in Lists /\ ~e.fnapp
  BY <1>7, OfTuples DEF IsNodeFor
<1>8. CASE e \in Lists /\ IsOther(e)
  <2>1. node.type = "Fnapp" /\ ~IsForm(e, "def")
    BY <1>8, OfOthers DEF IsOther, BuiltinNames
  <2>2. QED
    BY <2>1 DEF IsNodeFor
<1>9. CASE e \in Lists /\ e = List(TRUE, <<>>)
  <2>1. FaultOf(e) = "check"
    BY <1>9, OfEmpty
  <2>2. QED
    BY <1>4, <2>1
<1>10. ASSUME e \in Lists, NEW b \in BuiltinNames, IsForm(e, b)
       PROVE  IsNodeFor(node, e, path)
  <2>1. IsForm(e, "def") <=> b = "def"
    BY <1>10, FormsDiffer
  <2>2. CASE b = "def"
    <3>1. node = [type |-> "Def", name |-> e.xs[2].x]
      BY <1>10, <2>2, OfDefs
    <3>2. QED
      BY <2>1, <2>2, <3>1 DEF IsNodeFor, NameOf
  <2>3. CASE b = "fn"
    <3>1. node = [type |-> "Fn", pars |-> Parameters(e, path)]
      BY <1>10, <2>3, OfFns
    <3>2. QED
      BY <2>1, <2>3, <3>1 DEF IsNodeFor
  <2>4. CASE b = "let"
    <3>1. node = [type |-> "Let", name |-> e.xs[2].x]
      BY <1>10, <2>4, OfLets
    <3>2. QED
      BY <2>1, <2>4, <3>1 DEF IsNodeFor
  <2>5. CASE b = "fnapp"
    <3>1. FaultOf(e) = "unreachable"
      BY <1>10, <2>5, OfFnapps
    <3>2. QED
      BY <1>4, <3>1
  <2>6. QED
    BY <2>2, <2>3, <2>4, <2>5 DEF BuiltinNames
<1>11. QED
  <2>1. e \in Expr
    BY <1>1
  <2>2. QED
    BY <1>6, <1>7, <1>8, <1>9, <1>10, <2>1, KindsOfExpressions

-----------------------------------------------------------------------------
(* The stack of calls.                                                     *)

\* d is the call that c made last; the calls that c made before were accepted.
Made(c, d) ==
  /\ c.next >= 2
  /\ d.e = c.e.xs[Subexpressions(c.e)[c.next - 1]]
  /\ AcceptedSoFar(c, c.next - 2)

IsChain(cs) ==
  /\ cs \in Seq(Call)
  /\ \A k \in 1..Len(cs) : CallInv(cs[k]) /\ Len(cs[k].path) = k
  /\ \A k \in 1..(Len(cs) - 1) : Made(cs[k], cs[k + 1])

IsStack(cs) ==
  /\ IsChain(cs)
  /\ cs # <<>> => AcceptedSoFar(Last(cs), Last(cs).next - 1)

\* The innermost call goes on.
LEMMA GoingOn ==
  ASSUME NEW cs, IsChain(cs), cs # <<>>,
         NEW d, CallInv(d), d.path = Last(cs).path, d.e = Last(cs).e,
         NEW ds, ds = [cs EXCEPT ![Len(cs)] = d]
  PROVE  /\ IsChain(ds) /\ Len(ds) = Len(cs) /\ ds # <<>> /\ Last(ds) = d
         /\ ds[1].path = cs[1].path
<1> DEFINE l == Len(cs)
<1>1. cs \in Seq(Call) /\ l \in Nat \ {0} /\ Last(cs) = cs[l] /\ d \in Call
  BY DEF IsChain, CallInv, Last
<1>2. ds \in Seq(Call) /\ Len(ds) = l /\ ds[l] = d /\ Last(ds) = d /\ \A k \in 1..l : k # l => ds[k] = cs[k]
  BY <1>1 DEF Last
<1>3. \A k \in 1..l : CallInv(ds[k]) /\ Len(ds[k].path) = k /\ ds[k].path = cs[k].path /\ ds[k].e = cs[k].e
  <2> TAKE k \in 1..l
  <2>1. CallInv(cs[k]) /\ Len(cs[k].path) = k
    BY DEF IsChain
  <2>2. CASE k = l
    BY <1>1, <1>2, <2>1, <2>2
  <2>3. CASE k # l
    BY <1>2, <2>1, <2>3
  <2>4. QED
    BY <2>2, <2>3
<1>4. ASSUME NEW k \in 1..(l - 1) PROVE Made(ds[k], ds[k + 1])
  <2>1. k \in 1..l /\ k # l /\ k + 1 \in 1..l
    BY <1>1
  <2>2. ds[k] = cs[k] /\ ds[k + 1].e = cs[k + 1].e
    BY <1>2, <1>3, <2>1
  <2>3. Made(cs[k], cs[k + 1])
    BY DEF IsChain
  <2>4. QED
    BY <2>2, <2>3 DEF Made
<1>5. 1 \in 1..l
  BY <1>1
<1> HIDE DEF l
<1>6. ds # <<>>
  BY <1>1, <1>2
<1>7. QED
  BY <1>2, <1>3, <1>4, <1>5, <1>6 DEF IsChain, l

\* The innermost call makes another.
LEMMA GoingIn ==
  ASSUME NEW cs, IsChain(cs), cs # <<>>, NEW new, CallInv(new), Len(new.path) = Len(cs) + 1,
         Made(Last(cs), new), NEW ds, ds = Append(cs, new)
  PROVE  IsChain(ds) /\ ds # <<>> /\ Last(ds) = new /\ ds[1].path = cs[1].path
<1> DEFINE l == Len(cs)
<1>1. cs \in Seq(Call) /\ l \in Nat \ {0} /\ Last(cs) = cs[l] /\ new \in Call
  BY DEF IsChain, CallInv, Last
<1>2. ds \in Seq(Call) /\ Len(ds) = l + 1 /\ ds[l + 1] = new /\ Last(ds) = new /\ \A k \in 1..l : ds[k] = cs[k]
  BY <1>1 DEF Last
<1>3. ASSUME NEW k \in 1..(l + 1) PROVE CallInv(ds[k]) /\ Len(ds[k].path) = k
  <2>1. CASE k = l + 1
    BY <1>2, <2>1
  <2>2. CASE k # l + 1
    <3>1. k \in 1..l
      BY <1>1, <2>2
    <3>2. QED
      BY <1>2, <3>1 DEF IsChain
  <2>3. QED
    BY <2>1, <2>2
<1>4. ASSUME NEW k \in 1..l PROVE Made(ds[k], ds[k + 1])
  <2>1. CASE k = l
    BY <1>1, <1>2, <2>1
  <2>2. CASE k # l
    <3>1. k \in 1..(l - 1) /\ k + 1 \in 1..l
      BY <1>1, <2>2
    <3>2. QED
      BY <1>2, <3>1 DEF IsChain
  <2>3. QED
    BY <2>1, <2>2
<1>5. (l + 1) - 1 = l /\ 1 \in 1..l
  BY <1>1
<1> HIDE DEF l
<1>6. ds # <<>>
  BY <1>1, <1>2
<1>7. QED
  BY <1>2, <1>3, <1>4, <1>5, <1>6 DEF IsChain

\* The innermost call returns; what it was called for is of the core language.
LEMMA GoingOut ==
  ASSUME NEW cs, IsChain(cs), cs # <<>>, IsCore(Last(cs).e), NEW ds, ds = Front(cs)
  PROVE  IsStack(ds) /\ (ds # <<>> => ds[1] = cs[1]) /\ Len(ds) = Len(cs) - 1
<1> DEFINE l == Len(cs)
<1>1. cs \in Seq(Call) /\ l \in Nat \ {0} /\ Last(cs) = cs[l]
  BY DEF IsChain, Last
<1>2. ds \in Seq(Call) /\ Len(ds) = l - 1 /\ \A k \in 1..(l - 1) : ds[k] = cs[k]
  <2>1. ds = SubSeq(cs, 1, l - 1) /\ l - 1 \in Nat
    BY <1>1 DEF Front
  <2>2. \A k \in 1..(l - 1) : k \in 1..l /\ cs[k] \in Call
    BY <1>1
  <2>3. Len(ds) = l - 1
    <3>1. Len(ds) = IF 1 <= l - 1 THEN (l - 1) - 1 + 1 ELSE 0
      BY <1>1, <2>1
    <3> HIDE DEF l
    <3>2. QED
      BY <2>1, <3>1
  <2>4. ds \in Seq(Call)
    BY <1>1, <2>1, <2>2
  <2>5. \A k \in 1..(l - 1) : ds[k] = cs[k]
    BY <1>1, <2>1
  <2>6. QED
    BY <2>3, <2>4, <2>5
<1>3. ASSUME NEW k \in 1..(l - 1) PROVE CallInv(ds[k]) /\ Len(ds[k].path) = k
  BY <1>1, <1>2 DEF IsChain
<1>4. ASSUME NEW k \in 1..((l - 1) - 1) PROVE Made(ds[k], ds[k + 1])
  <2>1. k \in 1..(l - 1) /\ k + 1 \in 1..(l - 1)
    BY <1>1
  <2>2. QED
    BY <1>2, <2>1 DEF IsChain
<1>5. IsChain(ds)
  BY <1>2, <1>3, <1>4 DEF IsChain
<1>6. ASSUME ds # <<>> PROVE AcceptedSoFar(Last(ds), Last(ds).next - 1) /\ ds[1] = cs[1]
  <2> DEFINE c == cs[l - 1]
  <2>1. l - 1 \in 1..(l - 1) /\ (l - 1) + 1 = l /\ 1 \in 1..(l - 1)
    BY <1>1, <1>2, <1>6
  <2>2. Made(c, cs[l])
    BY <2>1 DEF IsChain
  <2>3. Last(ds) = c /\ ds[1] = cs[1]
    BY <1>2, <2>1 DEF Last
  <2>4. c.next \in Nat
    <3>1. c \in Call
      BY <1>1, <2>1
    <3>2. QED
      BY <3>1 DEF Call
  <2> HIDE DEF c
  <2>5. ASSUME NEW j \in 1..(c.next - 1) PROVE IsCore(c.e.xs[Subexpressions(c.e)[j]])
    <3>1. CASE j = c.next - 1
      BY <1>1, <2>2, <3>1 DEF Made
    <3>2. CASE j # c.next - 1
      <4>1. j \in 1..(c.next - 2)
        BY <2>4, <3>2
      <4>2. QED
        BY <2>2, <4>1 DEF Made, AcceptedSoFar
    <3>3. QED
      BY <3>1, <3>2
  <2>6. QED
    BY <2>3, <2>5 DEF AcceptedSoFar
<1>7. QED
  BY <1>2, <1>5, <1>6 DEF IsStack

\* What an inner call refuses the outermost one was called with.
LEMMA Refusing ==
  ASSUME NEW cs, IsChain(cs), cs # <<>>, ~IsCore(Last(cs).e)
  PROVE  ~IsCore(cs[1].e)
<1> DEFINE l == Len(cs)
           T == {m \in Nat : m < l => ~IsCore(cs[l - m].e)}
<1>1. cs \in Seq(Call) /\ l \in Nat \ {0} /\ Last(cs) = cs[l]
  BY DEF IsChain, Last
<1>2. 0 \in T
  <2>1. l - 0 = l
    BY <1>1
  <2>2. QED
    BY <1>1, <2>1
<1>3. ASSUME NEW m \in Nat, m \in T PROVE m + 1 \in T
  <2> SUFFICES ASSUME m + 1 < l PROVE ~IsCore(cs[l - (m + 1)].e)
    OBVIOUS
  <2> DEFINE k == l - (m + 1)
             c == cs[k]
  <2>1. k \in 1..(l - 1) /\ k \in 1..l /\ k + 1 = l - m /\ m < l
    BY <1>1
  <2>2. ~IsCore(cs[k + 1].e)
    BY <1>3, <2>1
  <2>3. Made(c, cs[k + 1]) /\ CallInv(c)
    BY <2>1 DEF IsChain
  <2> HIDE DEF k, c
  <2>4. c \in Call /\ c.e \in Expr /\ c.next \in Nat /\ c.next <= Len(Subexpressions(c.e)) + 1
    BY <2>3 DEF CallInv, Call
  <2>5. Len(Subexpressions(c.e)) \in Nat
    BY <2>4, SubexpressionsAre
  <2>6. c.next - 1 \in 1..Len(Subexpressions(c.e))
    BY <2>3, <2>4, <2>5 DEF Made
  <2>7. ~SubexpressionsAreCore(c.e)
    BY <2>2, <2>3, <2>6 DEF Made, SubexpressionsAreCore
  <2>8. ~IsCore(c.e)
    BY <2>4, <2>7, Acceptance
  <2>9. QED
    BY <2>8 DEF c, k
<1> HIDE DEF T
<1>4. \A m \in Nat : m \in T
  BY <1>2, <1>3, AllNumbers
<1>5. l - 1 \in Nat /\ l - 1 < l /\ l - (l - 1) = 1
  BY <1>1
<1>6. QED
  BY <1>4, <1>5 DEF T

-----------------------------------------------------------------------------
(* The invariant of the translation.                                       *)

\* The top-level expression k has a node, which says what it defines.
IsTranslated(k) ==
  /\ <<k>> \in DOMAIN bst
  /\ bst[<<k>>].type = "Def" <=> IsForm(top_level_exprs[k], "def")
  /\ bst[<<k>>].type = "Def" => bst[<<k>>].name = NameOf(top_level_exprs[k])
  /\ IsCore(top_level_exprs[k])

\* How many of them were translated.
Translated ==
  CASE pc = "translate" -> IF calls = <<>> /\ fault = "none" THEN n ELSE n - 1
    [] pc = "define"    -> Len(top_level_exprs)
    [] OTHER            -> 0

File == {Failed} \cup [ok : {TRUE}, exprs : Seq(Expr)]

TypesInv ==
  /\ args \in Seq(Options \cup FileNames)
  /\ contents \in [FileNames -> File]
  /\ pc \in {"arguments", "parse", "translate", "define", "exit"}
  /\ n \in Nat
  /\ cl \in [help : BOOLEAN, files : Seq(FileNames)]
  /\ top_level_exprs \in Seq(Expr)

TranslationInv ==
  /\ TypesInv
  /\ IsStack(calls)
  /\ calls # <<>> => /\ pc = "translate" /\ fault = "none"
                     /\ n \in 1..Len(top_level_exprs) /\ calls[1].path = <<n>>
  /\ fault # "none" => /\ fault \in Faults /\ pc \in {"translate", "exit"}
                       /\ n \in 1..Len(top_level_exprs) /\ ~IsCore(top_level_exprs[n])
  /\ pc \in {"arguments", "parse"} => bst = <<>>
  /\ pc = "translate" => n <= Len(top_level_exprs)
  /\ \A k \in 1..Translated : IsTranslated(k)
  /\ ResolvesLexically

\* Meanings and stacks depend on the parsed expressions only.
LEMMA Fixed ==
  ASSUME UNCHANGED top_level_exprs
  PROVE  /\ \A p : ExprAt(p)' = ExprAt(p)
         /\ \A name, path, node : IsMeaning(name, path, node)' <=> IsMeaning(name, path, node)
         /\ \A cs : IsStack(cs)' <=> IsStack(cs)
<1>1. \A p : ExprAt(p)' = ExprAt(p)
  BY DEF ExprAt
<1>2. \A form, token, path : Binds(form, token, path)' <=> Binds(form, token, path)
  BY <1>1 DEF Binds
<1>3. \A path : NameTokens(path)' = NameTokens(path)
  BY <1>1 DEF NameTokens
<1>4. \A name, path : Binders(name, path)' = Binders(name, path)
  BY <1>1, <1>2, <1>3 DEF Binders
<1>5. \A name, path, node : IsMeaning(name, path, node)' <=> IsMeaning(name, path, node)
  BY <1>4 DEF IsMeaning
<1>6. \A c : CallInv(c)' <=> CallInv(c)
  BY <1>1, <1>5 DEF CallInv, KnowsNames
<1>7. \A cs : IsStack(cs)' <=> IsStack(cs)
  BY <1>6 DEF IsStack, IsChain
<1>8. QED
  BY <1>1, <1>5, <1>7

LEMMA NoCalls == IsStack(<<>>)
<1>1. <<>> \in Seq(Call) /\ Len(<<>>) = 0
  OBVIOUS
<1>2. QED
  BY <1>1 DEF IsStack, IsChain

LEMMA InitTranslation == Init => TranslationInv
<1> SUFFICES ASSUME Init PROVE TranslationInv
  OBVIOUS
<1>1. TypesInv
  <2>1. args \in Seq(Options \cup FileNames) /\ contents \in [FileNames -> File]
    BY ArgumentAssumption DEF Init, File
  <2>2. pc = "arguments" /\ n \in Nat /\ top_level_exprs \in Seq(Expr)
    BY DEF Init
  <2>3. cl \in [help : BOOLEAN, files : Seq(FileNames)]
    BY DEF Init
  <2>4. QED
    BY <2>1, <2>2, <2>3 DEF TypesInv
<1>2. Translated = 0
  BY DEF Init, Translated
<1>3. \A k \in 1..Translated : IsTranslated(k)
  BY <1>2
<1>4. ResolvesLexically
  BY DEF Init, ResolvesLexically
<1>5. QED
  BY <1>1, <1>3, <1>4, NoCalls DEF Init, TranslationInv

\* A failure while expression n is translated.
LEMMA Failing ==
  ASSUME TranslationInv, calls # <<>>, ~IsCore(Last(calls).e), NEW why \in Faults, Fails(why),
         UNCHANGED <<top_level_exprs, driverVars>>
  PROVE  TranslationInv'
<1>1. IsChain(calls) /\ n \in 1..Len(top_level_exprs) /\ calls[1].path = <<n>> /\ pc = "translate"
  BY DEF TranslationInv, IsStack
<1>2. UNCHANGED <<top_level_exprs, bst, n, pc>> /\ calls' = <<>> /\ fault' = why /\ why # "none"
  BY DEF Fails, driverVars, Faults
<1>3. ~IsCore(top_level_exprs[n])
  <2>1. 1 \in 1..Len(calls)
    BY <1>1 DEF IsChain
  <2>2. calls[1].e = ExprAt(<<n>>)
    BY <1>1, <2>1 DEF IsChain, CallInv
  <2>3. n \in Nat
    BY DEF TranslationInv, TypesInv
  <2>4. ExprAt(<<n>>) = top_level_exprs[n]
    BY <2>3, ExprAtTop
  <2>5. ~IsCore(calls[1].e)
    BY <1>1, Refusing
  <2>6. QED
    BY <2>2, <2>4, <2>5
<1>4. TypesInv'
  BY <1>2 DEF TranslationInv, TypesInv, driverVars
<1>5. IsStack(calls)'
  BY <1>2, Fixed, NoCalls
<1>6. (\A k \in 1..Translated : IsTranslated(k))'
  <2>1. Translated = n - 1
    BY <1>1 DEF Translated
  <2>2. Translated' = n - 1
    BY <1>1, <1>2 DEF Translated
  <2>3. \A k : IsTranslated(k)' <=> IsTranslated(k)
    BY <1>2 DEF IsTranslated
  <2>4. QED
    BY <2>1, <2>2, <2>3 DEF TranslationInv
<1>7. ResolvesLexically'
  BY <1>2, Fixed DEF TranslationInv, ResolvesLexically
<1>8. QED
  BY <1>1, <1>2, <1>3, <1>4, <1>5, <1>6, <1>7 DEF TranslationInv

\* A step that makes no node.
LEMMA Calling ==
  ASSUME TranslationInv, calls # <<>>, calls' # <<>>, IsStack(calls'), calls'[1].path = calls[1].path,
         UNCHANGED <<top_level_exprs, bst, fault, driverVars>>
  PROVE  TranslationInv'
<1>1. UNCHANGED <<top_level_exprs, bst, fault, n, pc>>
  BY DEF driverVars
<1>2. TypesInv'
  BY DEF TranslationInv, TypesInv, driverVars
<1>3. IsStack(calls)'
  BY <1>1, Fixed
<1>4. (\A k \in 1..Translated : IsTranslated(k))'
  <2>1. Translated' = Translated
    BY <1>1 DEF TranslationInv, Translated
  <2>2. \A k : IsTranslated(k)' <=> IsTranslated(k)
    BY <1>1 DEF IsTranslated
  <2>3. QED
    BY <2>1, <2>2 DEF TranslationInv
<1>5. ResolvesLexically'
  BY <1>1, Fixed DEF TranslationInv, ResolvesLexically
<1>6. QED
  BY <1>1, <1>2, <1>3, <1>4, <1>5 DEF TranslationInv

LEMMA FaultsAre ==
  \A e : FaultOf(e) # "none" => FaultOf(e) \in Faults
<1>1. \A e : NameFault(e) \in Faults \cup {"none"}
  BY DEF NameFault, Faults
<1>2. \A e, size : NamedFault(e, size) \in Faults \cup {"none"}
  BY <1>1 DEF NamedFault, Faults
<1>3. \A e : FnFault(e) \in Faults \cup {"none"}
  BY DEF FnFault, Faults
<1>4. \A e : FaultOf(e) \in {"check", "unreachable", "none", NamedFault(e, 3), NamedFault(e, 4), FnFault(e)}
  BY DEF FaultOf
<1>5. QED
  BY <1>2, <1>3, <1>4 DEF Faults

LEMMA EnterKeeps ==
  ASSUME TranslationInv, Enter, UNCHANGED <<top_level_exprs, driverVars>>
  PROVE  TranslationInv'
<1> DEFINE c == Last(calls)
           d == [c EXCEPT !.next = 1, !.ls = ScopeWithin(c.e, c.path, c.ls)]
<1>1. IsChain(calls) /\ calls # <<>> /\ c.next = 0
  BY DEF TranslationInv, IsStack, Enter, call
<1>2. CallInv(c) /\ c \in Call /\ c.e \in Expr
  BY <1>1 DEF IsChain, Last, CallInv, Call
<1>3. CASE FaultOf(c.e) # "none"
  <2>1. ~IsCore(c.e)
    BY <1>2, <1>3, Acceptance DEF Passes
  <2>2. Fails(FaultOf(c.e))
    BY <1>3 DEF Enter, call
  <2>3. QED
    BY <1>1, <1>3, <2>1, <2>2, FaultsAre, Failing
<1>4. CASE FaultOf(c.e) = "none"
  <2>1. calls' = [calls EXCEPT ![Len(calls)] = d] /\ UNCHANGED <<bst, fault>>
    BY <1>4 DEF Enter, call
  <2>2. CallInv(d) /\ d.path = c.path /\ d.e = c.e /\ d.next = 1
    BY <1>1, <1>2, <1>4, Entering
  <2> DEFINE after == [calls EXCEPT ![Len(calls)] = d]
  <2> HIDE DEF d, c
  <2>3. IsChain(after) /\ after # <<>> /\ Last(after) = d /\ after[1].path = calls[1].path
    BY <1>1, <2>2, GoingOn DEF c
  <2>4. AcceptedSoFar(d, d.next - 1)
    BY <2>2 DEF AcceptedSoFar
  <2> HIDE DEF after
  <2>5. IsStack(after)
    BY <2>3, <2>4 DEF IsStack
  <2>6. calls' = after
    BY <2>1 DEF after
  <2>7. QED
    BY <1>1, <2>1, <2>3, <2>5, <2>6, Calling
<1>5. QED
  BY <1>3, <1>4

LEMMA RecurseKeeps ==
  ASSUME TranslationInv, Recurse, UNCHANGED <<top_level_exprs, driverVars>>
  PROVE  TranslationInv'
<1> DEFINE c == Last(calls)
           i == Subexpressions(c.e)[c.next]
           d == [c EXCEPT !.next = c.next + 1]
           new == NewCall(c.e.xs[i], Append(c.path, i), c.ls)
           middle == [calls EXCEPT ![Len(calls)] = d]
<1>1. IsChain(calls) /\ AcceptedSoFar(c, c.next - 1) /\ calls # <<>> /\ c.next \in 1..Len(Subexpressions(c.e))
  BY DEF TranslationInv, IsStack, Recurse, call
<1>2. CallInv(c) /\ c \in Call /\ c.e \in Expr /\ c.next \in Nat /\ calls \in Seq(Call) /\ Len(calls) \in Nat
      /\ Len(c.path) = Len(calls)
  BY <1>1 DEF IsChain, Last, CallInv, Call
<1>3. calls' = Append(middle, new) /\ UNCHANGED <<bst, fault>>
  BY DEF Recurse, call
<1>4. d \in Call /\ d.e = c.e /\ d.path = c.path /\ d.ls = c.ls /\ d.next = c.next + 1
  BY <1>2 DEF Call
<1>5. new = [e |-> c.e.xs[i], path |-> Append(c.path, i), ls |-> c.ls, next |-> 0]
  BY DEF NewCall
<1> HIDE DEF c, i, d, new
<1>6. CallInv(d) /\ CallInv(new) /\ Len(new.path) = Len(c.path) + 1
  BY <1>1, <1>2, <1>4, <1>5, Recursing DEF i
<1>7. /\ IsChain(middle) /\ Len(middle) = Len(calls) /\ middle # <<>> /\ Last(middle) = d
      /\ middle[1].path = calls[1].path
  BY <1>1, <1>4, <1>6, GoingOn DEF c
<1>8. Made(d, new)
  <2>1. d.next >= 2 /\ d.next - 1 = c.next /\ d.next - 2 = c.next - 1
    BY <1>1, <1>2, <1>4
  <2>2. new.e = d.e.xs[Subexpressions(d.e)[d.next - 1]]
    BY <1>4, <1>5, <2>1 DEF i
  <2>3. AcceptedSoFar(d, d.next - 2)
    BY <1>1, <1>4, <2>1 DEF AcceptedSoFar
  <2>4. QED
    BY <2>1, <2>2, <2>3 DEF Made
<1> HIDE DEF middle
<1>9. IsChain(calls') /\ calls' # <<>> /\ Last(calls') = new /\ calls'[1].path = middle[1].path
  BY <1>2, <1>3, <1>6, <1>7, <1>8, GoingIn, ZenonT(30)
<1>10. AcceptedSoFar(new, new.next - 1)
  <2>1. new.next = 0
    BY <1>5
  <2>2. QED
    BY <2>1 DEF AcceptedSoFar
<1>11. IsStack(calls')
  BY <1>9, <1>10 DEF IsStack
<1>12. QED
  BY <1>1, <1>3, <1>7, <1>9, <1>11, Calling

LEMMA ReturnKeeps ==
  ASSUME TranslationInv, Return, UNCHANGED <<top_level_exprs, driverVars>>
  PROVE  TranslationInv'
<1> DEFINE c == Last(calls)
           node == NodeOf(c.e, c.path, c.ls)
<1>1. /\ IsChain(calls) /\ AcceptedSoFar(c, c.next - 1) /\ calls # <<>> /\ c.next = Len(Subexpressions(c.e)) + 1
      /\ calls[1].path = <<n>> /\ n \in 1..Len(top_level_exprs) /\ pc = "translate" /\ fault = "none"
  BY DEF TranslationInv, IsStack, Return, call
<1>2. /\ CallInv(c) /\ c \in Call /\ c.e \in Expr /\ calls \in Seq(Call) /\ Len(calls) \in Nat \ {0}
      /\ Len(c.path) = Len(calls) /\ c = calls[Len(calls)] /\ c.e = ExprAt(c.path)
  BY <1>1 DEF IsChain, Last, CallInv, Call
<1>3. (~IsBareHead(c.e) <=> IsCore(c.e)) /\ IsNodeFor(node, c.e, c.path)
  BY <1>1, <1>2, Returning
<1>4. CASE IsBareHead(c.e)
  <2>1. Fails("check") /\ "check" \in Faults
    BY <1>4 DEF Return, call, Faults
  <2>2. QED
    BY <1>1, <1>3, <1>4, <2>1, Failing
<1>5. CASE ~IsBareHead(c.e)
  <2>1. bst' = With(bst, c.path, node) /\ calls' = Front(calls) /\ UNCHANGED fault
    BY <1>5 DEF Return, call
  <2>2. UNCHANGED <<top_level_exprs, n, pc, fault>>
    BY <2>1 DEF driverVars
  <2> HIDE DEF c, node
  <2>3. IsCore(c.e)
    BY <1>3, <1>5
  <2>4. IsStack(calls') /\ (calls' # <<>> => calls'[1] = calls[1]) /\ Len(calls') = Len(calls) - 1
    BY <1>1, <2>1, <2>3, GoingOut DEF c
  <2>5. IsStack(calls)'
    BY <2>2, <2>4, Fixed
  <2>6. TypesInv'
    BY <2>2 DEF TranslationInv, TypesInv, driverVars
  <2>7. /\ DOMAIN bst' = DOMAIN bst \cup {c.path} /\ bst'[c.path] = node
        /\ \A p \in DOMAIN bst \ {c.path} : bst'[p] = bst[p]
    BY <2>1 DEF With
  <2>8. ResolvesLexically'
    <3>1. ASSUME NEW p \in DOMAIN bst', bst'[p].type \in {"Variable", "ToplevelVariableName"}
          PROVE  IsMeaning(ExprAt(p).x, p, bst'[p])
      <4>1. CASE p = c.path
        BY <1>2, <1>3, <2>7, <3>1, <4>1 DEF IsNodeFor
      <4>2. CASE p # c.path
        BY <2>7, <3>1, <4>2 DEF TranslationInv, ResolvesLexically
      <4>3. QED
        BY <4>1, <4>2
    <3>2. \A p : ExprAt(p)' = ExprAt(p)
      BY <2>2, Fixed
    <3>3. \A name, p, x : IsMeaning(name, p, x)' <=> IsMeaning(name, p, x)
      BY <2>2, Fixed
    <3>4. QED
      BY <3>1, <3>2, <3>3 DEF ResolvesLexically
  <2>9. ASSUME NEW k \in 1..Translated' PROVE IsTranslated(k)'
    <3>1. Translated = n - 1 /\ n \in Nat
      BY <1>1 DEF Translated, TranslationInv, TypesInv
    <3>2. Translated' = IF calls' = <<>> THEN n ELSE n - 1
      BY <1>1, <2>2 DEF Translated
    <3>3. CASE <<k>> = c.path
      <4>1. Len(calls) = 1
        <5>1. Len(<<k>>) = 1
          OBVIOUS
        <5>2. QED
          BY <1>2, <3>3, <5>1
      <4>2. k = n
        BY <1>1, <1>2, <3>3, <4>1
      <4>3. c.e = top_level_exprs[k]
        BY <1>2, <3>1, <3>3, <4>2, ExprAtTop
      <4>4. QED
        BY <1>3, <2>2, <2>3, <2>7, <3>3, <4>3 DEF IsTranslated, IsNodeFor
    <3>4. CASE <<k>> # c.path
      <4>1. k \in 1..(n - 1)
        <5>1. CASE calls' = <<>>
          <6>1. Len(calls) = 1
            BY <1>2, <2>4, <5>1
          <6>2. c.path = <<n>>
            BY <1>1, <1>2, <6>1
          <6>3. QED
            BY <3>1, <3>2, <3>4, <5>1, <6>2
        <5>2. CASE calls' # <<>>
          BY <3>2, <5>2
        <5>3. QED
          BY <5>1, <5>2
      <4>2. IsTranslated(k)
        BY <3>1, <4>1 DEF TranslationInv
      <4>3. QED
        BY <2>2, <2>7, <3>4, <4>2 DEF IsTranslated
    <3>5. QED
      BY <3>3, <3>4
  <2>10. pc' = "translate" /\ n' \in 1..Len(top_level_exprs') /\ fault' = "none" /\ n' <= Len(top_level_exprs')
    <3>1. n <= Len(top_level_exprs)
      BY <1>1
    <3>2. QED
      BY <1>1, <2>2, <3>1
  <2>11. calls' # <<>> => calls'[1].path = <<n'>>
    BY <1>1, <2>2, <2>4
  <2>12. (\A k \in 1..Translated : IsTranslated(k))'
    BY <2>9
  <2> HIDE DEF Return
  <2>13. QED
    BY <2>5, <2>6, <2>8, <2>10, <2>11, <2>12 DEF TranslationInv
<1>6. QED
  BY <1>4, <1>5

\* The driver goes on between two translations.
LEMMA Driving ==
  ASSUME TranslationInv, calls = <<>>, UNCHANGED <<top_level_exprs, bstVars>>, TypesInv',
         fault # "none" => pc' = "exit" /\ n' = n,
         pc' \in {"arguments", "parse"} => bst = <<>>,
         pc' = "translate" => n' <= Len(top_level_exprs),
         \A k \in 1..Translated' : IsTranslated(k)
  PROVE  TranslationInv'
<1>1. UNCHANGED <<top_level_exprs, calls, bst, fault>>
  BY DEF bstVars
<1>2. IsStack(calls)'
  BY <1>1, Fixed DEF TranslationInv
<1>3. ResolvesLexically'
  BY <1>1, Fixed DEF TranslationInv, ResolvesLexically
<1>4. \A k : IsTranslated(k)' <=> IsTranslated(k)
  BY <1>1 DEF IsTranslated
<1>5. (\A k \in 1..Translated : IsTranslated(k))'
  BY <1>4
<1>6. QED
  BY <1>1, <1>2, <1>3, <1>5 DEF TranslationInv

LEMMA ParseArgumentKeeps ==
  ASSUME TranslationInv, ParseArgument PROVE TranslationInv'
<1>1. pc = "arguments" /\ n \in Nat /\ n + 1 \in 1..Len(args) /\ args \in Seq(Options \cup FileNames)
  BY DEF ParseArgument, TranslationInv, TypesInv
<1>2. UNCHANGED <<top_level_exprs, bstVars, args, contents>> /\ calls = <<>> /\ fault = "none" /\ bst = <<>>
  BY <1>1 DEF ParseArgument, TranslationInv
<1>3. pc' \in {"arguments", "exit"} /\ n' \in Nat /\ cl' \in [help : BOOLEAN, files : Seq(FileNames)]
  <2>1. n \in Nat /\ cl \in [help : BOOLEAN, files : Seq(FileNames)]
    BY DEF TranslationInv, TypesInv
  <2>2. [cl EXCEPT !.help = TRUE] \in [help : BOOLEAN, files : Seq(FileNames)]
    BY <2>1
  <2>3. ASSUME NEW a \in FileNames
        PROVE  [cl EXCEPT !.files = Append(cl.files, a)] \in [help : BOOLEAN, files : Seq(FileNames)]
    <3>1. cl.files \in Seq(FileNames)
      BY <2>1
    <3>2. Append(cl.files, a) \in Seq(FileNames)
      BY <3>1
    <3>3. QED
      BY <2>1, <3>2
  <2>4. pc' \in {"arguments", "exit"} /\ n' \in {n, n + 1, n + 2}
    BY <1>1 DEF ParseArgument, Exit
  <2>5. cl' \in [help : BOOLEAN, files : Seq(FileNames)]
    BY <2>1, <2>2, <2>3 DEF ParseArgument, Exit
  <2>6. QED
    BY <2>1, <2>4, <2>5
<1>4. TypesInv'
  BY <1>2, <1>3 DEF TranslationInv, TypesInv
<1>5. Translated' = 0
  BY <1>3 DEF Translated
<1>6. QED
  BY <1>2, <1>3, <1>4, <1>5, Driving

LEMMA ArgumentsDoneKeeps ==
  ASSUME TranslationInv, ArgumentsDone PROVE TranslationInv'
<1>1. pc = "arguments" /\ UNCHANGED <<top_level_exprs, bstVars, args, contents>>
  BY DEF ArgumentsDone
<1>2. calls = <<>> /\ fault = "none" /\ bst = <<>>
  BY <1>1 DEF TranslationInv
<1>3. pc' \in {"parse", "exit"} /\ n' \in {0, n} /\ cl' = cl
  BY DEF ArgumentsDone, Exit, GoTo
<1>4. TypesInv'
  BY <1>1, <1>3 DEF TranslationInv, TypesInv
<1>5. Translated' = 0
  BY <1>3 DEF Translated
<1>6. QED
  BY <1>1, <1>2, <1>3, <1>4, <1>5, Driving

LEMMA ParseFileKeeps ==
  ASSUME TranslationInv, ParseFile PROVE TranslationInv'
<1>1. pc = "parse" /\ n \in Nat /\ n + 1 \in 1..Len(cl.files) /\ cl.files \in Seq(FileNames)
  BY DEF ParseFile, TranslationInv, TypesInv
<1>2. UNCHANGED <<calls, bst, fault, args, contents, pc, cl>> /\ n' = n + 1
  BY DEF ParseFile, bstVars
<1>3. calls = <<>> /\ fault = "none" /\ bst = <<>>
  BY <1>1 DEF TranslationInv
<1>4. top_level_exprs' \in Seq(Expr)
  <2>1. contents \in [FileNames -> File] /\ top_level_exprs \in Seq(Expr)
    BY DEF TranslationInv, TypesInv
  <2>2. contents[cl.files[n + 1]] \in File
    BY <1>1, <2>1
  <2>3. \A f \in File : f.ok => f.exprs \in Seq(Expr)
    <3>1. Failed.ok = FALSE
      BY DEF Failed
    <3>2. QED
      BY <3>1 DEF File
  <2> DEFINE parsed == contents[cl.files[n + 1]]
  <2>4. \/ parsed.ok /\ top_level_exprs' = top_level_exprs \o parsed.exprs
        \/ top_level_exprs' = top_level_exprs
    BY DEF ParseFile
  <2> HIDE DEF parsed
  <2>5. parsed.ok => parsed.exprs \in Seq(Expr)
    BY <2>2, <2>3 DEF parsed
  <2>6. CASE parsed.ok /\ top_level_exprs' = top_level_exprs \o parsed.exprs
    <3>1. parsed.exprs \in Seq(Expr)
      BY <2>5, <2>6
    <3>2. top_level_exprs \o parsed.exprs \in Seq(Expr)
      BY <2>1, <3>1
    <3>3. QED
      BY <2>6, <3>2
  <2>7. QED
    BY <2>1, <2>4, <2>6
<1>5. TypesInv'
  BY <1>1, <1>2, <1>4 DEF TranslationInv, TypesInv
<1>6. IsStack(calls)'
  BY <1>2, <1>3 DEF IsStack, IsChain
<1>7. Translated' = 0
  BY <1>1, <1>2 DEF Translated
<1>8. (\A k \in 1..Translated : IsTranslated(k))'
  BY <1>7
<1>9. ResolvesLexically'
  BY <1>2, <1>3 DEF ResolvesLexically
<1>10. pc' = "parse" /\ calls' = <<>> /\ fault' = "none" /\ bst' = <<>>
  BY <1>1, <1>2, <1>3
<1>11. QED
  BY <1>5, <1>6, <1>8, <1>9, <1>10 DEF TranslationInv

LEMMA AllParsedKeeps ==
  ASSUME TranslationInv, AllParsed PROVE TranslationInv'
<1>1. pc = "parse" /\ UNCHANGED <<top_level_exprs, bstVars, args, contents>>
  BY DEF AllParsed
<1>2. calls = <<>> /\ fault = "none" /\ bst = <<>> /\ n \in Nat /\ top_level_exprs \in Seq(Expr)
  BY <1>1 DEF TranslationInv, TypesInv
<1>3. cl' = cl /\ \/ pc' = "translate" /\ n' = 0
                  \/ pc' = "exit" /\ n' = n
  BY DEF AllParsed, Exit, GoTo
<1>4. TypesInv'
  BY <1>1, <1>2, <1>3 DEF TranslationInv, TypesInv
<1>5. Translated' = 0
  BY <1>1, <1>2, <1>3 DEF Translated, bstVars
<1>6. pc' = "translate" => n' <= Len(top_level_exprs)
  BY <1>2, <1>3
<1>7. QED
  BY <1>1, <1>2, <1>3, <1>4, <1>5, <1>6, Driving

LEMMA TranslateNextKeeps ==
  ASSUME TranslationInv, TranslateNext PROVE TranslationInv'
<1> DEFINE c == NewCall(top_level_exprs[n + 1], <<n + 1>>, <<>>)
<1>1. pc = "translate" /\ fault = "none" /\ calls = <<>> /\ n \in Nat /\ n + 1 \in 1..Len(top_level_exprs)
      /\ top_level_exprs \in Seq(Expr)
  BY DEF TranslateNext, Translating, TranslationInv, TypesInv
<1>2. UNCHANGED <<top_level_exprs, bst, fault, args, contents, pc, cl>> /\ calls' = <<c>> /\ n' = n + 1
  BY DEF TranslateNext, Start
<1>3. c = [e |-> top_level_exprs[n + 1], path |-> <<n + 1>>, ls |-> <<>>, next |-> 0]
  BY DEF NewCall
<1> HIDE DEF c
<1>4. c.e = top_level_exprs[n + 1] /\ c.path = <<n + 1>> /\ c.ls = <<>> /\ c.next = 0
  BY <1>3
<1>5. c.e \in Expr /\ c.path \in Path /\ c.e = ExprAt(c.path)
  BY <1>1, <1>4, ExprAtTop
<1>6. c \in Call
  <2>1. <<>> \in Scopes
    BY DEF Scopes
  <2>2. QED
    BY <1>3, <1>4, <1>5, <2>1 DEF Call
<1>7. KnowsNames(c)
  <2>1. ASSUME NEW name PROVE IsMeaning(name, c.path, Resolve(name, <<>>))
    <3>1. Binders(name, c.path) = {}
      BY <1>1, <1>4 DEF Binders, NameTokens
    <3>2. Resolve(name, <<>>) = [type |-> "ToplevelVariableName", name |-> name]
      BY DEF Resolve
    <3>3. QED
      BY <3>1, <3>2 DEF IsMeaning
  <2>2. QED
    BY <1>4, <2>1 DEF KnowsNames
<1>8. CallInv(c)
  <2>1. Len(Subexpressions(c.e)) \in Nat
    BY <1>5, SubexpressionsAre
  <2>2. QED
    BY <1>4, <1>5, <1>6, <1>7, <2>1 DEF CallInv
<1>9. IsStack(<<c>>)
  <2>1. <<c>> \in Seq(Call) /\ Len(<<c>>) = 1 /\ <<c>>[1] = c /\ Last(<<c>>) = c
    BY <1>6 DEF Last
  <2>2. Len(c.path) = 1
    BY <1>4
  <2>3. AcceptedSoFar(c, c.next - 1)
    BY <1>4 DEF AcceptedSoFar
  <2> DEFINE cs == <<c>>
  <2> HIDE DEF cs
  <2>4. \A k \in 1..Len(cs) : k = 1 /\ CallInv(cs[k]) /\ Len(cs[k].path) = k
    <3>1. Len(cs) = 1 /\ cs[1] = c
      BY <2>1 DEF cs
    <3>2. \A k \in 1..Len(cs) : k = 1
      BY <3>1
    <3>3. QED
      BY <1>8, <2>2, <3>1, <3>2, Zenon
  <2>5. 1..(Len(cs) - 1) = {}
    BY <2>1 DEF cs
  <2>6. IsChain(cs)
    BY <2>1, <2>4, <2>5 DEF IsChain, cs
  <2>7. QED
    BY <2>1, <2>3, <2>6 DEF IsStack, cs
<1>10. IsStack(calls)'
  BY <1>2, <1>9, Fixed
<1>11. TypesInv'
  BY <1>1, <1>2 DEF TranslationInv, TypesInv
<1>12. (\A k \in 1..Translated : IsTranslated(k))'
  <2>1. Translated = n
    BY <1>1 DEF Translated
  <2>2. Translated' = n
    <3>1. <<c>> # <<>> /\ (n + 1) - 1 = n
      BY <1>1
    <3>2. QED
      BY <1>1, <1>2, <3>1 DEF Translated
  <2>3. \A k : IsTranslated(k)' <=> IsTranslated(k)
    BY <1>2 DEF IsTranslated
  <2>4. QED
    BY <2>1, <2>2, <2>3 DEF TranslationInv
<1>13. ResolvesLexically'
  BY <1>2, Fixed DEF TranslationInv, ResolvesLexically
<1>14. calls'[1].path = <<n'>> /\ n' \in 1..Len(top_level_exprs') /\ n' <= Len(top_level_exprs')
  <2>1. calls'[1] = c
    BY <1>2
  <2>2. QED
    BY <1>1, <1>2, <1>4, <2>1
<1>15. QED
  BY <1>1, <1>2, <1>10, <1>11, <1>12, <1>13, <1>14 DEF TranslationInv

LEMMA TranslateKeeps ==
  ASSUME TranslationInv, Translate PROVE TranslationInv'
BY EnterKeeps, RecurseKeeps, ReturnKeeps DEF Translate, ProcessAst

LEMMA TranslationFailsKeeps ==
  ASSUME TranslationInv, TranslationFails PROVE TranslationInv'
<1>1. UNCHANGED <<top_level_exprs, bstVars, args, contents, n, cl>> /\ pc' = "exit" /\ fault # "none"
  BY DEF TranslationFails, Exit
<1>2. calls = <<>>
  BY <1>1 DEF TranslationInv
<1>3. TypesInv'
  BY <1>1 DEF TranslationInv, TypesInv
<1>4. Translated' = 0
  BY <1>1 DEF Translated
<1>5. QED
  BY <1>1, <1>2, <1>3, <1>4, Driving

LEMMA AllTranslatedKeeps ==
  ASSUME TranslationInv, AllTranslated PROVE TranslationInv'
<1>1. UNCHANGED <<top_level_exprs, bstVars, args, contents, cl>> /\ pc' = "define" /\ n' = 0
      /\ fault = "none" /\ calls = <<>> /\ n = Len(top_level_exprs) /\ pc = "translate"
  BY DEF AllTranslated, GoTo, Translating
<1>2. TypesInv'
  BY <1>1 DEF TranslationInv, TypesInv
<1>3. Translated = n /\ Translated' = n
  BY <1>1 DEF Translated
<1>4. \A k \in 1..n : IsTranslated(k)
  BY <1>3 DEF TranslationInv
<1>5. QED
  BY <1>1, <1>2, <1>3, <1>4, Driving

\* What Define and EntryPoint have in common.
LEMMA DefiningKeeps ==
  ASSUME TranslationInv, pc = "define", UNCHANGED <<top_level_exprs, bstVars, args, contents, cl>>,
         pc' \in {"define", "exit"}, n' \in {n, n + 1}
  PROVE  TranslationInv'
<1>1. calls = <<>> /\ fault = "none" /\ n \in Nat
  BY DEF TranslationInv, TypesInv
<1>2. TypesInv'
  BY <1>1 DEF TranslationInv, TypesInv
<1>3. Translated = Len(top_level_exprs) /\ Translated' \in {0, Len(top_level_exprs)}
  BY DEF Translated
<1>4. \A k \in 1..Translated' : IsTranslated(k)
  BY <1>3 DEF TranslationInv
<1>5. QED
  BY <1>1, <1>2, <1>4, Driving

LEMMA DefineKeeps ==
  ASSUME TranslationInv, Define PROVE TranslationInv'
<1>1. UNCHANGED <<top_level_exprs, bstVars, args, contents, cl>> /\ pc = "define"
      /\ pc' \in {"define", "exit"} /\ n' \in {n, n + 1}
  BY DEF Define, Exit
<1>2. QED
  BY <1>1, DefiningKeeps

LEMMA EntryPointKeeps ==
  ASSUME TranslationInv, EntryPoint PROVE TranslationInv'
<1>1. UNCHANGED <<top_level_exprs, bstVars, args, contents, cl>> /\ pc = "define"
      /\ pc' \in {"define", "exit"} /\ n' \in {n, n + 1}
  BY DEF EntryPoint, Exit
<1>2. QED
  BY <1>1, DefiningKeeps

LEMMA StutterKeeps ==
  ASSUME TranslationInv, UNCHANGED vars PROVE TranslationInv'
<1>1. UNCHANGED <<top_level_exprs, calls, bst, fault, args, contents, pc, n, cl>>
  BY DEF vars, bstVars, driverVars
<1>2. IsStack(calls)'
  BY <1>1, Fixed DEF TranslationInv
<1>3. ResolvesLexically'
  BY <1>1, Fixed DEF TranslationInv, ResolvesLexically
<1>4. TypesInv'
  BY <1>1 DEF TranslationInv, TypesInv
<1>5. (\A k \in 1..Translated : IsTranslated(k))'
  <2>1. Translated' = Translated
    BY <1>1 DEF Translated
  <2>2. \A k : IsTranslated(k)' <=> IsTranslated(k)
    BY <1>1 DEF IsTranslated
  <2>3. QED
    BY <2>1, <2>2 DEF TranslationInv
<1>6. QED
  BY <1>1, <1>2, <1>3, <1>4, <1>5 DEF TranslationInv

LEMMA TranslationKept ==
  TranslationInv /\ [Next]_vars => TranslationInv'
<1> SUFFICES ASSUME TranslationInv, [Next]_vars PROVE TranslationInv'
  OBVIOUS
<1>1. CASE ParseArgument BY <1>1, ParseArgumentKeeps
<1>2. CASE ArgumentsDone BY <1>2, ArgumentsDoneKeeps
<1>3. CASE ParseFile BY <1>3, ParseFileKeeps
<1>4. CASE AllParsed BY <1>4, AllParsedKeeps
<1>5. CASE TranslateNext BY <1>5, TranslateNextKeeps
<1>6. CASE Translate BY <1>6, TranslateKeeps
<1>7. CASE TranslationFails BY <1>7, TranslationFailsKeeps
<1>8. CASE AllTranslated BY <1>8, AllTranslatedKeeps
<1>9. CASE Define BY <1>9, DefineKeeps
<1>10. CASE EntryPoint BY <1>10, EntryPointKeeps
<1>11. CASE Terminated BY <1>11, StutterKeeps DEF Terminated
<1>12. CASE UNCHANGED vars BY <1>12, StutterKeeps
<1>13. QED
  BY <1>1, <1>2, <1>3, <1>4, <1>5, <1>6, <1>7, <1>8, <1>9, <1>10, <1>11, <1>12 DEF Next

\* In every run of the compiler each name token of the expressions was made the
\* node that lexical scoping gives it, however deep and in whatever forms it is
\* (process_ast and try_resolve_variable_name).
THEOREM NamesResolveLexically == Spec => []ResolvesLexically
<1>1. TranslationInv => ResolvesLexically
  BY DEF TranslationInv
<1>2. QED
  BY InitTranslation, TranslationKept, <1>1, PTL DEF Spec

\* process_ast accepts exactly the core language: the expressions that were all
\* translated are in it, and the one at which the translation failed is not.
THEOREM CoreIsAccepted == Spec => []AcceptsTheCore
<1>1. TranslationInv => AcceptsTheCore
  <2> SUFFICES ASSUME TranslationInv PROVE AcceptsTheCore
    OBVIOUS
  <2>1. ASSUME pc = "define" PROVE \A e \in Range(top_level_exprs) : IsCore(e)
    <3>1. Translated = Len(top_level_exprs)
      BY <2>1 DEF Translated
    <3>2. \A k \in 1..Len(top_level_exprs) : IsCore(top_level_exprs[k])
      BY <3>1 DEF TranslationInv, IsTranslated
    <3>3. top_level_exprs \in Seq(Expr)
      BY DEF TranslationInv, TypesInv
    <3>4. QED
      BY <3>2, <3>3 DEF Range
  <2>2. fault # "none" => ~IsCore(top_level_exprs[n])
    BY DEF TranslationInv
  <2>3. QED
    BY <2>1, <2>2 DEF AcceptsTheCore
<1>2. QED
  BY InitTranslation, TranslationKept, <1>1, PTL DEF Spec

-----------------------------------------------------------------------------
(* The command line.                                                       *)

\* An argument is taken by the one before it, if that is a --cpp-out which is
\* not itself taken.
LEMMA OperandStep ==
  ASSUME NEW k \in Nat \ {0}
  PROVE  IsOperand(k + 1) <=> args[k] = "--cpp-out" /\ ~IsOperand(k)
<1> DEFINE Run(f, m) == /\ f \in 1..m
                        /\ \A j \in f..m : args[j] = "--cpp-out"
                        /\ f > 1 => args[f - 1] # "--cpp-out"
<1>1. \A m \in Nat : IsOperand(m + 1) <=> \E f \in 1..m : Run(f, m) /\ ((m + 1) - f) % 2 = 1
  <2> TAKE m \in Nat
  <2>1. (m + 1) - 1 = m
    OBVIOUS
  <2>2. QED
    BY <2>1 DEF IsOperand
<1>2. k - 1 \in Nat /\ (k - 1) + 1 = k
  OBVIOUS
<1>3. IsOperand(k) <=> \E f \in 1..(k - 1) : Run(f, k - 1) /\ (k - f) % 2 = 1
  BY <1>1, <1>2
<1>4. \A f, m \in Nat : f <= m => (((m + 1) - f) % 2 = 1 <=> ~((m - f) % 2 = 1))
  OBVIOUS
<1>5. ASSUME NEW f, Run(f, k), NEW g, Run(g, k - 1) PROVE f = g
  <2>1. f \in 1..k /\ g \in 1..(k - 1) /\ g \in 1..k
    BY <1>2, <1>5
  <2>2. ~(f < g)
    <3> SUFFICES ASSUME f < g PROVE FALSE
      OBVIOUS
    <3>1. g > 1 /\ g - 1 \in f..k
      BY <2>1
    <3>2. QED
      BY <1>5, <3>1
  <2>3. ~(g < f)
    <3> SUFFICES ASSUME g < f PROVE FALSE
      OBVIOUS
    <3>1. f > 1 /\ f - 1 \in g..(k - 1)
      BY <2>1
    <3>2. QED
      BY <1>5, <3>1
  <2>4. QED
    BY <2>1, <2>2, <2>3
<1>6. ASSUME IsOperand(k + 1) PROVE args[k] = "--cpp-out" /\ ~IsOperand(k)
  <2>1. PICK f \in 1..k : Run(f, k) /\ ((k + 1) - f) % 2 = 1
    BY <1>1, <1>6
  <2>2. args[k] = "--cpp-out"
    BY <2>1
  <2>3. ASSUME NEW g \in 1..(k - 1), Run(g, k - 1), (k - g) % 2 = 1 PROVE FALSE
    <3>1. f = g
      BY <1>5, <2>1, <2>3
    <3>2. QED
      BY <1>4, <2>1, <2>3, <3>1
  <2>4. QED
    BY <1>3, <2>2, <2>3
<1>7. ASSUME args[k] = "--cpp-out", ~IsOperand(k) PROVE IsOperand(k + 1)
  <2> DEFINE S == {f \in 1..k : \A j \in f..k : args[j] = "--cpp-out"}
             f == Min(S)
  <2>1. k \in S
    BY <1>7
  <2>2. S \in SUBSET Nat
    OBVIOUS
  <2>3. f \in S /\ \A g \in S : f <= g
    BY <2>1, <2>2, MinIs
  <2> HIDE DEF f
  <2>4. Run(f, k)
    <3>1. f \in 1..k /\ \A j \in f..k : args[j] = "--cpp-out"
      BY <2>3
    <3>2. ASSUME f > 1, args[f - 1] = "--cpp-out" PROVE FALSE
      <4>1. f - 1 \in 1..k /\ \A j \in (f - 1)..k : j = f - 1 \/ j \in f..k
        BY <3>1, <3>2
      <4>2. f - 1 \in S
        BY <3>1, <3>2, <4>1
      <4>3. QED
        BY <2>3, <3>1, <4>2
    <3>3. QED
      BY <3>1, <3>2
  <2>5. CASE ((k + 1) - f) % 2 = 1
    BY <1>1, <2>4, <2>5
  <2>6. CASE ~(((k + 1) - f) % 2 = 1)
    <3>1. f \in Nat /\ f <= k /\ f \in 1..k
      BY <2>4
    <3>2. (k - f) % 2 = 1
      BY <1>4, <2>6, <3>1
    <3>3. f # k
      BY <3>2
    <3>4. f \in 1..(k - 1)
      BY <3>1, <3>3
    <3>5. Run(f, k - 1)
      BY <2>4, <3>4
    <3>6. QED
      BY <1>3, <1>7, <3>2, <3>4, <3>5
  <2>7. QED
    BY <2>5, <2>6
<1>8. QED
  BY <1>6, <1>7

LEMMA FirstIsFree == ~IsOperand(1)
BY DEF IsOperand

\* What m arguments that were read left in the command line options.
IsFree(k) == ~IsOperand(k)
Twice(f, s) == \E i, j \in 1..Len(s) : i < j /\ s[i] = f /\ s[j] = f
ArgumentsInv(options, m) ==
  /\ \A k \in 1..m : IsFree(k) =>
       args[k] # "--unknown" /\ (args[k] = "--cpp-out" => k < Len(args))
  /\ options.help <=> \E k \in 1..m : IsFree(k) /\ args[k] = "--help"
  /\ \A f \in FileNames :
       /\ f \in Range(options.files) <=> \E k \in 1..m : IsFree(k) /\ args[k] = f
       /\ Twice(f, options.files) <=>
            \E j, k \in 1..m : j < k /\ IsFree(j) /\ IsFree(k) /\ args[j] = f /\ args[k] = f

HelpWanted == \E k \in FreeArguments : args[k] = "--help"

LEMMA ArgumentsRead ==
  ASSUME TypesInv, ArgumentsInv(cl, Len(args))
  PROVE  /\ Accepted
         /\ cl.help <=> HelpWanted
         /\ Wanted = Range(cl.files)
         /\ \A f \in FileNames : WantedTwice(f) <=> Twice(f, cl.files)
<1>1. \A k : k \in FreeArguments <=> k \in 1..Len(args) /\ IsFree(k)
  BY DEF FreeArguments, IsFree
<1>2. Accepted
  BY <1>1 DEF Accepted, ArgumentsInv
<1>3. cl.help <=> HelpWanted
  BY <1>1 DEF HelpWanted, ArgumentsInv
<1>4. Wanted = Range(cl.files)
  <2>1. cl.files \in Seq(FileNames)
    BY DEF TypesInv
  <2>2. Range(cl.files) \subseteq FileNames
    BY <2>1 DEF Range
  <2>3. \A f : f \in Wanted <=> f \in FileNames /\ \E k \in 1..Len(args) : IsFree(k) /\ args[k] = f
    BY <1>1 DEF Wanted
  <2>4. QED
    BY <2>2, <2>3 DEF ArgumentsInv
<1>5. \A f \in FileNames : WantedTwice(f) <=> Twice(f, cl.files)
  BY <1>1 DEF WantedTwice, ArgumentsInv
<1>6. QED
  BY <1>2, <1>3, <1>4, <1>5

\* One more file on the command line.
LEMMA OneMoreFile ==
  ASSUME NEW s \in Seq(FileNames), NEW a \in FileNames, NEW f
  PROVE  /\ Append(s, a) \in Seq(FileNames)
         /\ f \in Range(Append(s, a)) <=> f \in Range(s) \/ f = a
         /\ Twice(f, Append(s, a)) <=> Twice(f, s) \/ (f = a /\ f \in Range(s))
<1> DEFINE t == Append(s, a)
           l == Len(s)
<1>1. t \in Seq(FileNames) /\ Len(t) = l + 1 /\ t[l + 1] = a /\ l \in Nat /\ \A i \in 1..l : t[i] = s[i]
  OBVIOUS
<1>2. f \in Range(s) <=> \E i \in 1..l : s[i] = f
  BY DEF Range
<1>3. f \in Range(t) <=> \E i \in 1..(l + 1) : t[i] = f
  BY <1>1 DEF Range
<1>4. \A i \in 1..(l + 1) : i = l + 1 \/ i \in 1..l
  BY <1>1
<1>5. 1..l \subseteq 1..(l + 1) /\ l + 1 \in 1..(l + 1) /\ \A i \in 1..l : i < l + 1
  BY <1>1
<1>6. Twice(f, t) <=> \E i, j \in 1..(l + 1) : i < j /\ t[i] = f /\ t[j] = f
  BY <1>1 DEF Twice
<1>7. Twice(f, s) <=> \E i, j \in 1..l : i < j /\ s[i] = f /\ s[j] = f
  BY DEF Twice
<1> HIDE DEF t, l
<1>8. f \in Range(t) <=> f \in Range(s) \/ f = a
  BY <1>1, <1>2, <1>3, <1>4, <1>5
<1>9. ASSUME Twice(f, t) PROVE Twice(f, s) \/ (f = a /\ f \in Range(s))
  <2>1. PICK i \in 1..(l + 1), j \in 1..(l + 1) : i < j /\ t[i] = f /\ t[j] = f
    BY <1>6, <1>9
  <2>2. i \in 1..l
    BY <1>1, <2>1
  <2>3. QED
    BY <1>1, <1>2, <1>4, <1>7, <2>1, <2>2
<1>10. ASSUME Twice(f, s) \/ (f = a /\ f \in Range(s)) PROVE Twice(f, t)
  BY <1>1, <1>2, <1>5, <1>6, <1>7, <1>10
<1>11. QED
  BY <1>1, <1>8, <1>9, <1>10 DEF t

\* A free argument was read.
LEMMA ReadFree ==
  ASSUME NEW m \in Nat, IsFree(m + 1), NEW c, NEW d, ArgumentsInv(c, m), NEW a, a = args[m + 1],
         a # "--unknown", a = "--cpp-out" => m + 1 < Len(args),
         d.help <=> c.help \/ a = "--help",
         \A f \in FileNames :
           /\ f \in Range(d.files) <=> f \in Range(c.files) \/ f = a
           /\ Twice(f, d.files) <=> Twice(f, c.files) \/ (f = a /\ f \in Range(c.files))
  PROVE  ArgumentsInv(d, m + 1)
<1>1. \A k \in 1..(m + 1) : k = m + 1 \/ k \in 1..m
  OBVIOUS
<1>2. 1..m \subseteq 1..(m + 1) /\ m + 1 \in 1..(m + 1) /\ \A k \in 1..m : k < m + 1
  OBVIOUS
<1>3. \A k \in 1..(m + 1) : IsFree(k) =>
        args[k] # "--unknown" /\ (args[k] = "--cpp-out" => k < Len(args))
  BY <1>1 DEF ArgumentsInv
<1>4. d.help <=> \E k \in 1..(m + 1) : IsFree(k) /\ args[k] = "--help"
  BY <1>1, <1>2 DEF ArgumentsInv
<1>5. ASSUME NEW f \in FileNames
      PROVE  f \in Range(d.files) <=> \E k \in 1..(m + 1) : IsFree(k) /\ args[k] = f
  BY <1>1, <1>2 DEF ArgumentsInv
<1>6. ASSUME NEW f \in FileNames
      PROVE  Twice(f, d.files) <=>
               \E j, k \in 1..(m + 1) : j < k /\ IsFree(j) /\ IsFree(k) /\ args[j] = f /\ args[k] = f
  <2>1. Twice(f, c.files) <=>
          \E j, k \in 1..m : j < k /\ IsFree(j) /\ IsFree(k) /\ args[j] = f /\ args[k] = f
    BY DEF ArgumentsInv
  <2>2. f \in Range(c.files) <=> \E k \in 1..m : IsFree(k) /\ args[k] = f
    BY DEF ArgumentsInv
  <2>3. ASSUME NEW j \in 1..(m + 1), NEW k \in 1..(m + 1), j < k,
               IsFree(j), IsFree(k), args[j] = f, args[k] = f
        PROVE  Twice(f, d.files)
    <3>1. j \in 1..m
      BY <2>3
    <3>2. CASE k \in 1..m
      BY <2>1, <2>3, <3>1, <3>2
    <3>3. CASE k = m + 1
      BY <2>2, <2>3, <3>1, <3>3
    <3>4. QED
      BY <1>1, <3>2, <3>3
  <2>4. ASSUME Twice(f, d.files)
        PROVE  \E j, k \in 1..(m + 1) : j < k /\ IsFree(j) /\ IsFree(k) /\ args[j] = f /\ args[k] = f
    <3>1. CASE Twice(f, c.files)
      BY <1>2, <2>1, <3>1
    <3>2. CASE f = a /\ f \in Range(c.files)
      BY <1>2, <2>2, <3>2
    <3>3. QED
      BY <2>4, <3>1, <3>2
  <2>5. QED
    BY <2>3, <2>4
<1>7. QED
  BY <1>3, <1>4, <1>5, <1>6 DEF ArgumentsInv

\* An argument was taken by the one before it.
LEMMA ReadTaken ==
  ASSUME NEW m \in Nat, ~IsFree(m + 1), NEW c, ArgumentsInv(c, m)
  PROVE  ArgumentsInv(c, m + 1)
<1>1. \A k \in 1..(m + 1) : IsFree(k) => k \in 1..m
  <2> TAKE k \in 1..(m + 1)
  <2>1. k = m + 1 \/ k \in 1..m
    OBVIOUS
  <2>2. QED
    BY <2>1
<1>2. 1..m \subseteq 1..(m + 1)
  OBVIOUS
<1>4. \A k \in 1..(m + 1) : IsFree(k) =>
        args[k] # "--unknown" /\ (args[k] = "--cpp-out" => k < Len(args))
  BY <1>1 DEF ArgumentsInv
<1>5. c.help <=> \E k \in 1..(m + 1) : IsFree(k) /\ args[k] = "--help"
  BY <1>1, <1>2 DEF ArgumentsInv
<1>6. ASSUME NEW f \in FileNames
      PROVE  /\ f \in Range(c.files) <=> \E k \in 1..(m + 1) : IsFree(k) /\ args[k] = f
             /\ Twice(f, c.files) <=>
                  \E j, k \in 1..(m + 1) : j < k /\ IsFree(j) /\ IsFree(k) /\ args[j] = f /\ args[k] = f
  BY <1>1, <1>2 DEF ArgumentsInv
<1>7. QED
  BY <1>4, <1>5, <1>6 DEF ArgumentsInv

-----------------------------------------------------------------------------
(* The files.                                                              *)

FileAt(i) == contents[cl.files[i]]
NamesIn(exprs) == {NameOf(e) : e \in Range(exprs)}

\* The first m files define no name twice.
DistinctIn(m) ==
  /\ \A i \in 1..m : Distinct(FileAt(i).exprs)
  /\ \A i, j \in 1..m : i < j => NamesIn(FileAt(i).exprs) \cap NamesIn(FileAt(j).exprs) = {}

\* What m files that were parsed left.
ParsedInv(m) ==
  /\ ok <=> \A i \in 1..m : FileAt(i).ok
  /\ ok => /\ \A e : e \in Range(top_level_exprs) <=> \E i \in 1..m : e \in Range(FileAt(i).exprs)
           /\ Distinct(top_level_exprs) <=> DistinctIn(m)

LEMMA DistinctConcat ==
  ASSUME NEW S, NEW s \in Seq(S), NEW t \in Seq(S)
  PROVE  /\ Distinct(s \o t) <=> Distinct(s) /\ Distinct(t) /\ NamesIn(s) \cap NamesIn(t) = {}
         /\ Range(s \o t) = Range(s) \cup Range(t)
<1> DEFINE u == s \o t
           a == Len(s)
           b == Len(t)
<1>1. a \in Nat /\ b \in Nat /\ Len(u) = a + b /\ (\A i \in 1..a : u[i] = s[i]) /\ \A i \in 1..b : u[a + i] = t[i]
  OBVIOUS
<1>2. Range(u) = {u[i] : i \in 1..(a + b)} /\ Range(s) = {s[i] : i \in 1..a} /\ Range(t) = {t[i] : i \in 1..b}
  BY <1>1 DEF Range
<1>3. /\ Distinct(u) <=> \A j, k \in 1..(a + b) : NameOf(u[j]) = NameOf(u[k]) => j = k
      /\ Distinct(s) <=> \A j, k \in 1..a : NameOf(s[j]) = NameOf(s[k]) => j = k
      /\ Distinct(t) <=> \A j, k \in 1..b : NameOf(t[j]) = NameOf(t[k]) => j = k
  BY <1>1 DEF Distinct
<1> HIDE DEF u, a, b
<1>4. \A i \in 1..(a + b) : i \in 1..a \/ \E k \in 1..b : i = a + k
  <2> SUFFICES ASSUME NEW i \in 1..(a + b), i \notin 1..a PROVE \E k \in 1..b : i = a + k
    OBVIOUS
  <2>1. i - a \in 1..b /\ i = a + (i - a)
    BY <1>1
  <2>2. QED
    BY <2>1
<1>5. (\A i \in 1..a : i \in 1..(a + b)) /\ \A k \in 1..b : a + k \in 1..(a + b) /\ a + k \notin 1..a
  BY <1>1
<1>6. Range(u) = Range(s) \cup Range(t)
  <2>1. ASSUME NEW i \in 1..(a + b) PROVE u[i] \in Range(s) \cup Range(t)
    <3>1. CASE i \in 1..a
      BY <1>1, <1>2, <3>1
    <3>2. CASE i \notin 1..a
      <4>1. PICK k \in 1..b : i = a + k
        BY <1>4, <3>2
      <4>2. u[i] = t[k] /\ t[k] \in Range(t)
        BY <1>1, <1>2, <4>1
      <4>3. QED
        BY <4>2
    <3>3. QED
      BY <3>1, <3>2
  <2>2. \A x \in Range(s) \cup Range(t) : x \in Range(u)
    BY <1>1, <1>2, <1>5
  <2>3. \A x \in Range(u) : x \in Range(s) \cup Range(t)
    BY <1>2, <2>1
  <2>4. QED
    BY <2>2, <2>3
<1>7. NamesIn(s) \cap NamesIn(t) = {} <=> \A j \in 1..a, k \in 1..b : NameOf(s[j]) # NameOf(t[k])
  <2>1. \A x : x \in NamesIn(s) <=> \E j \in 1..a : x = NameOf(s[j])
    BY <1>2 DEF NamesIn
  <2>2. \A x : x \in NamesIn(t) <=> \E k \in 1..b : x = NameOf(t[k])
    BY <1>2 DEF NamesIn
  <2>3. QED
    BY <2>1, <2>2, ZenonT(30)
<1>8. ASSUME Distinct(u) PROVE Distinct(s) /\ Distinct(t) /\ NamesIn(s) \cap NamesIn(t) = {}
  <2>1. Distinct(s)
    BY <1>1, <1>3, <1>5, <1>8
  <2>2. Distinct(t)
    <3> SUFFICES ASSUME NEW j \in 1..b, NEW k \in 1..b, NameOf(t[j]) = NameOf(t[k]) PROVE j = k
      BY <1>3
    <3>1. a + j = a + k
      BY <1>1, <1>3, <1>5, <1>8
    <3>2. QED
      BY <1>1, <3>1
  <2>3. NamesIn(s) \cap NamesIn(t) = {}
    <3> SUFFICES ASSUME NEW j \in 1..a, NEW k \in 1..b, NameOf(s[j]) = NameOf(t[k]) PROVE FALSE
      BY <1>7
    <3>1. j = a + k
      BY <1>1, <1>3, <1>5, <1>8
    <3>2. QED
      BY <1>5, <3>1
  <2>4. QED
    BY <2>1, <2>2, <2>3
<1>9. ASSUME Distinct(s), Distinct(t), NamesIn(s) \cap NamesIn(t) = {} PROVE Distinct(u)
  <2> SUFFICES ASSUME NEW j \in 1..(a + b), NEW k \in 1..(a + b), NameOf(u[j]) = NameOf(u[k]) PROVE j = k
    BY <1>3
  <2>1. CASE j \in 1..a /\ k \in 1..a
    BY <1>1, <1>3, <1>9, <2>1
  <2>2. CASE j \in 1..a /\ k \notin 1..a
    <3>1. PICK q \in 1..b : k = a + q
      BY <1>4, <2>2
    <3>2. NameOf(s[j]) = NameOf(t[q])
      BY <1>1, <2>2, <3>1
    <3>3. QED
      BY <1>7, <1>9, <2>2, <3>2
  <2>3. CASE j \notin 1..a /\ k \in 1..a
    <3>1. PICK p \in 1..b : j = a + p
      BY <1>4, <2>3
    <3>2. NameOf(s[k]) = NameOf(t[p])
      BY <1>1, <2>3, <3>1
    <3>3. QED
      BY <1>7, <1>9, <2>3, <3>2
  <2>4. CASE j \notin 1..a /\ k \notin 1..a
    <3>1. PICK p \in 1..b : j = a + p
      BY <1>4, <2>4
    <3>2. PICK q \in 1..b : k = a + q
      BY <1>4, <2>4
    <3>3. p = q
      BY <1>1, <1>3, <1>9, <3>1, <3>2, SMTT(20)
    <3>4. QED
      BY <3>1, <3>2, <3>3
  <2>5. QED
    BY <2>1, <2>2, <2>3, <2>4
<1>10. QED
  BY <1>6, <1>8, <1>9 DEF u

LEMMA OneMoreDistinct ==
  ASSUME NEW m \in Nat
  PROVE  DistinctIn(m + 1) <=>
           /\ DistinctIn(m) /\ Distinct(FileAt(m + 1).exprs)
           /\ \A i \in 1..m : NamesIn(FileAt(i).exprs) \cap NamesIn(FileAt(m + 1).exprs) = {}
<1>1. \A k \in 1..(m + 1) : k = m + 1 \/ k \in 1..m
  OBVIOUS
<1>2. 1..m \subseteq 1..(m + 1) /\ m + 1 \in 1..(m + 1) /\ \A k \in 1..m : k < m + 1
  OBVIOUS
<1>3. \A j, k \in 1..(m + 1) : j < k => j \in 1..m
  OBVIOUS
<1> DEFINE Apart(i, j) == NamesIn(FileAt(i).exprs) \cap NamesIn(FileAt(j).exprs) = {}
           Once(i) == Distinct(FileAt(i).exprs)
<1> HIDE DEF Apart, Once
<1>4. \A l : DistinctIn(l) <=> (\A i \in 1..l : Once(i)) /\ \A i, j \in 1..l : i < j => Apart(i, j)
  BY DEF DistinctIn, Apart, Once
<1>5. ASSUME DistinctIn(m + 1) PROVE DistinctIn(m) /\ Once(m + 1) /\ \A i \in 1..m : Apart(i, m + 1)
  BY <1>2, <1>4, <1>5
<1>6. ASSUME DistinctIn(m), Once(m + 1), \A i \in 1..m : Apart(i, m + 1) PROVE DistinctIn(m + 1)
  BY <1>1, <1>3, <1>4, <1>6
<1>7. QED
  BY <1>5, <1>6 DEF Apart, Once

\* A program of files that all parsed, by the expressions that they hold.
LEMMA ProgramIs ==
  ASSUME TypesInv, ArgumentsInv(cl, Len(args)), ok, ParsedInv(Len(cl.files))
  PROVE  IsProgram <=>
           /\ \A k \in 1..Len(top_level_exprs) :
                IsForm(top_level_exprs[k], "def") /\ IsCore(top_level_exprs[k])
           /\ Distinct(top_level_exprs)
           /\ \E k \in 1..Len(top_level_exprs) : NameOf(top_level_exprs[k]) = "main"
<1> DEFINE F == cl.files
           M == Len(F)
           X(f) == contents[f].exprs
           Good(e) == IsForm(e, "def") /\ IsCore(e)
           all == Range(top_level_exprs)
<1>1. F \in Seq(FileNames) /\ contents \in [FileNames -> File] /\ top_level_exprs \in Seq(Expr)
  BY DEF TypesInv
<1>2. all = {top_level_exprs[k] : k \in 1..Len(top_level_exprs)}
  BY <1>1 DEF Range
<1>3. \A f : f \in Wanted <=> \E i \in 1..M : F[i] = f
  <2>1. Wanted = Range(F)
    BY ArgumentsRead
  <2>2. Range(F) = {F[i] : i \in 1..M}
    BY <1>1 DEF Range
  <2>3. QED
    BY <2>1, <2>2
<1>4. \A f \in Wanted : f \in FileNames /\ (WantedTwice(f) <=> \E i, j \in 1..M : i < j /\ F[i] = f /\ F[j] = f)
  <2>1. \A f \in Wanted : f \in FileNames
    BY <1>1, <1>3
  <2>2. \A f \in FileNames : WantedTwice(f) <=> Twice(f, F)
    BY ArgumentsRead
  <2>3. QED
    BY <2>1, <2>2 DEF Twice
<1>5. \A i \in 1..M : FileAt(i) = contents[F[i]] /\ FileAt(i).exprs = X(F[i])
  BY DEF FileAt
<1>6. \A f \in Wanted : contents[f].ok
  <2>1. \A i \in 1..M : FileAt(i).ok
    BY DEF ParsedInv
  <2>2. QED
    BY <1>3, <1>5, <2>1
<1>7. \A f \in Wanted : X(f) \in Seq(Expr)
  <2>1. \A file \in File : file.ok => file.exprs \in Seq(Expr)
    <3>1. Failed.ok = FALSE
      BY DEF Failed
    <3>2. QED
      BY <3>1 DEF File
  <2>2. QED
    BY <1>1, <1>4, <1>6, <2>1
<1>8. \A e : e \in all <=> \E f \in Wanted : e \in Range(X(f))
  <2>1. \A e : e \in all <=> \E i \in 1..M : e \in Range(FileAt(i).exprs)
    BY DEF ParsedInv
  <2>2. QED
    BY <1>3, <1>5, <2>1
<1>9. Distinct(top_level_exprs) <=> DistinctIn(M)
  BY DEF ParsedInv
<1>10. \A f \in Wanted : OnlyDefinitions(f) <=> (\A e \in Range(X(f)) : Good(e)) /\ Distinct(X(f))
  BY <1>6 DEF OnlyDefinitions
<1>11. \A f : NamesOf(f) = NamesIn(X(f))
  BY DEF NamesOf, NamesIn
<1> HIDE DEF F, M, X, Good, all
<1>12. (\A f \in Wanted : \A e \in Range(X(f)) : Good(e)) <=> \A e \in all : Good(e)
  BY <1>8
<1>13. (\E f \in Wanted : "main" \in NamesOf(f)) <=> \E e \in all : NameOf(e) = "main"
  <2>1. \A f : "main" \in NamesOf(f) <=> \E e \in Range(X(f)) : NameOf(e) = "main"
    BY <1>11 DEF NamesIn
  <2>2. QED
    BY <1>8, <2>1
<1>14. \A f \in Wanted : X(f) = <<>> <=> NamesIn(X(f)) = {}
  <2>1. ASSUME NEW x \in Seq(Expr), x # <<>> PROVE NameOf(x[1]) \in NamesIn(x)
    <3>1. 1 \in DOMAIN x
      BY <2>1
    <3>2. QED
      BY <3>1 DEF NamesIn, Range
  <2>2. NamesIn(<<>>) = {}
    BY DEF NamesIn, Range
  <2>3. QED
    BY <1>7, <2>1, <2>2
<1> DEFINE Together == /\ \A f \in Wanted : Distinct(X(f))
                       /\ \A f, g \in Wanted : f # g => NamesOf(f) \cap NamesOf(g) = {}
                       /\ \A f \in Wanted : WantedTwice(f) => X(f) = <<>>
<1>15. DistinctIn(M) <=> Together
  <2>1. DistinctIn(M) <=> /\ \A i \in 1..M : Distinct(X(F[i]))
                          /\ \A i, j \in 1..M : i < j => NamesIn(X(F[i])) \cap NamesIn(X(F[j])) = {}
    BY <1>5 DEF DistinctIn
  <2>2. (\A i \in 1..M : Distinct(X(F[i]))) <=> \A f \in Wanted : Distinct(X(f))
    BY <1>3
  <2>3. ASSUME \A i, j \in 1..M : i < j => NamesIn(X(F[i])) \cap NamesIn(X(F[j])) = {}
        PROVE  /\ \A f, g \in Wanted : f # g => NamesOf(f) \cap NamesOf(g) = {}
               /\ \A f \in Wanted : WantedTwice(f) => X(f) = <<>>
    <3>1. ASSUME NEW f \in Wanted, NEW g \in Wanted, f # g PROVE NamesOf(f) \cap NamesOf(g) = {}
      <4>1. PICK i \in 1..M : F[i] = f
        BY <1>3
      <4>2. PICK j \in 1..M : F[j] = g
        BY <1>3
      <4>3. i < j \/ j < i
        BY <3>1, <4>1, <4>2
      <4>4. QED
        BY <1>11, <2>3, <4>1, <4>2, <4>3
    <3>2. ASSUME NEW f \in Wanted, WantedTwice(f) PROVE X(f) = <<>>
      <4>1. PICK i \in 1..M, j \in 1..M : i < j /\ F[i] = f /\ F[j] = f
        BY <1>4, <3>2
      <4>2. NamesIn(X(f)) \cap NamesIn(X(f)) = {}
        BY <2>3, <4>1
      <4>3. QED
        BY <1>14, <4>2
    <3>3. QED
      BY <3>1, <3>2
  <2>4. ASSUME \A f, g \in Wanted : f # g => NamesOf(f) \cap NamesOf(g) = {},
               \A f \in Wanted : WantedTwice(f) => X(f) = <<>>,
               NEW i \in 1..M, NEW j \in 1..M, i < j
        PROVE  NamesIn(X(F[i])) \cap NamesIn(X(F[j])) = {}
    <3>1. F[i] \in Wanted /\ F[j] \in Wanted
      BY <1>3
    <3>2. CASE F[i] # F[j]
      BY <1>11, <2>4, <3>1, <3>2
    <3>3. CASE F[i] = F[j]
      <4>1. WantedTwice(F[i])
        BY <1>4, <2>4, <3>1, <3>3
      <4>2. NamesIn(X(F[i])) = {}
        BY <1>14, <2>4, <3>1, <4>1
      <4>3. QED
        BY <4>2
    <3>4. QED
      BY <3>2, <3>3
  <2>5. QED
    BY <2>1, <2>2, <2>3, <2>4
<1>16. IsProgram <=>
         /\ \A f \in Wanted : \A e \in Range(X(f)) : Good(e)
         /\ Together
         /\ \E f \in Wanted : "main" \in NamesOf(f)
  BY <1>10 DEF IsProgram, X
<1>17. (\A e \in all : Good(e)) <=> \A k \in 1..Len(top_level_exprs) : Good(top_level_exprs[k])
  BY <1>2
<1>18. (\E e \in all : NameOf(e) = "main") <=> \E k \in 1..Len(top_level_exprs) : NameOf(top_level_exprs[k]) = "main"
  BY <1>2
<1> HIDE DEF Together
<1>19. QED
  BY <1>9, <1>12, <1>13, <1>15, <1>16, <1>17, <1>18 DEF Good

\* Files of which one did not parse are no program.
LEMMA NoProgram ==
  ASSUME TypesInv, ArgumentsInv(cl, Len(args)), ~ok, ParsedInv(Len(cl.files))
  PROVE  ~IsProgram
<1>1. PICK i \in 1..Len(cl.files) : ~FileAt(i).ok
  BY DEF ParsedInv
<1>2. cl.files[i] \in Range(cl.files)
  BY DEF TypesInv, Range
<1>3. cl.files[i] \in Wanted
  BY <1>2, ArgumentsRead
<1>4. ~OnlyDefinitions(cl.files[i])
  BY <1>1 DEF FileAt, OnlyDefinitions
<1>5. QED
  BY <1>3, <1>4 DEF IsProgram

-----------------------------------------------------------------------------
(* The invariant of the driver.                                            *)

Deserved == Accepted /\ (HelpWanted \/ (Wanted # {} /\ IsProgram))

\* What m definitions left.
DefinedInv(m) ==
  /\ \A k \in 1..m : IsForm(top_level_exprs[k], "def")
  /\ \A j, k \in 1..m : NameOf(top_level_exprs[j]) = NameOf(top_level_exprs[k]) => j = k
  /\ DOMAIN toplevel_variables = {NameOf(top_level_exprs[k]) : k \in 1..m}

ArgumentsOver == ArgumentsInv(cl, Len(args)) /\ ~cl.help /\ cl.files # <<>>
FilesOver == ArgumentsOver /\ ok /\ ParsedInv(Len(cl.files))

AtArguments ==
  /\ pc = "arguments" /\ n <= Len(args) /\ IsFree(n + 1) /\ ArgumentsInv(cl, n)
  /\ ok /\ top_level_exprs = <<>> /\ toplevel_variables = <<>>
AtParse ==
  /\ pc = "parse" /\ ArgumentsOver /\ n <= Len(cl.files) /\ ok \in BOOLEAN /\ ParsedInv(n)
  /\ toplevel_variables = <<>>
AtTranslate == pc = "translate" /\ FilesOver /\ toplevel_variables = <<>>
AtDefine == pc = "define" /\ FilesOver /\ n <= Len(top_level_exprs) /\ DefinedInv(n)
AtExit == pc = "exit" /\ (result = "success" <=> Deserved)

DriverInv == AtArguments \/ AtParse \/ AtTranslate \/ AtDefine \/ AtExit

\* What depends on the command line and the files only.
LEMMA FixedInput ==
  ASSUME UNCHANGED <<args, contents>>
  PROVE  /\ \A k : IsFree(k)' <=> IsFree(k)
         /\ \A c, m : ArgumentsInv(c, m)' <=> ArgumentsInv(c, m)
         /\ Deserved' <=> Deserved
<1>1. \A k : IsOperand(k)' <=> IsOperand(k)
  BY DEF IsOperand
<1>2. \A k : IsFree(k)' <=> IsFree(k)
  BY <1>1 DEF IsFree
<1>3. \A c, m : ArgumentsInv(c, m)' <=> ArgumentsInv(c, m)
  BY <1>2 DEF ArgumentsInv
<1>4. FreeArguments' = FreeArguments
  BY <1>1 DEF FreeArguments
<1>5. Accepted' <=> Accepted
  BY <1>4 DEF Accepted
<1>6. HelpWanted' <=> HelpWanted
  BY <1>4 DEF HelpWanted
<1>7. Wanted' = Wanted
  BY <1>4 DEF Wanted
<1>8. \A f : WantedTwice(f)' <=> WantedTwice(f)
  BY <1>4 DEF WantedTwice
<1>9. \A f : OnlyDefinitions(f)' <=> OnlyDefinitions(f)
  BY DEF OnlyDefinitions
<1>10. \A f : NamesOf(f)' = NamesOf(f)
  BY DEF NamesOf
<1>11. IsProgram' <=> IsProgram
  BY <1>7, <1>8, <1>9, <1>10 DEF IsProgram
<1>12. QED
  BY <1>2, <1>3, <1>5, <1>6, <1>7, <1>11 DEF Deserved

\* What depends on the files' expressions too.
LEMMA FixedFiles ==
  ASSUME UNCHANGED <<args, contents, cl, ok, top_level_exprs>>
  PROVE  /\ \A m : ParsedInv(m)' <=> ParsedInv(m)
         /\ ArgumentsOver' <=> ArgumentsOver
         /\ FilesOver' <=> FilesOver
<1>1. \A i : FileAt(i)' = FileAt(i)
  BY DEF FileAt
<1>2. \A m : DistinctIn(m)' <=> DistinctIn(m)
  BY <1>1 DEF DistinctIn
<1>3. \A m : ParsedInv(m)' <=> ParsedInv(m)
  BY <1>1, <1>2 DEF ParsedInv
<1>4. ArgumentsOver' <=> ArgumentsOver
  <2>1. \A c, m : ArgumentsInv(c, m)' <=> ArgumentsInv(c, m)
    BY FixedInput
  <2>2. QED
    BY <2>1 DEF ArgumentsOver
<1>5. QED
  BY <1>3, <1>4 DEF FilesOver

LEMMA InitDriver == Init => DriverInv
<1> SUFFICES ASSUME Init PROVE DriverInv
  OBVIOUS
<1>1. pc = "arguments" /\ n = 0 /\ cl = [help |-> FALSE, files |-> <<>>] /\ ok
      /\ top_level_exprs = <<>> /\ toplevel_variables = <<>>
  BY DEF Init
<1>2. Len(args) \in Nat
  BY ArgumentAssumption DEF Init
<1>3. IsFree(0 + 1)
  BY FirstIsFree DEF IsFree
<1>4. ArgumentsInv(cl, 0)
  <2>1. ~cl.help /\ Range(cl.files) = {} /\ \A f : ~Twice(f, cl.files)
    BY <1>1 DEF Range, Twice
  <2>2. QED
    BY <2>1 DEF ArgumentsInv
<1>5. AtArguments
  BY <1>1, <1>2, <1>3, <1>4 DEF AtArguments
<1>6. QED
  BY <1>5 DEF DriverInv

LEMMA ParseArgumentDrives ==
  ASSUME TypesInv, DriverInv, ParseArgument PROVE DriverInv'
<1> DEFINE a == args[n + 1]
<1>1. AtArguments
  BY DEF ParseArgument, DriverInv, AtParse, AtTranslate, AtDefine, AtExit
<1>2. /\ n \in Nat /\ args \in Seq(Options \cup FileNames) /\ Len(args) \in Nat /\ n < Len(args)
      /\ n + 1 \in 1..Len(args) /\ n + 1 \in Nat \ {0}
      /\ IsFree(n + 1) /\ ArgumentsInv(cl, n) /\ cl \in [help : BOOLEAN, files : Seq(FileNames)]
  BY <1>1 DEF ParseArgument, TypesInv, AtArguments
<1>3. UNCHANGED <<args, contents, top_level_exprs>>
  BY DEF ParseArgument
<1>4. IsFree((n + 1) + 1) <=> a # "--cpp-out"
  BY <1>2, OperandStep DEF IsFree
<1>5. ASSUME pc' = "arguments", UNCHANGED <<ok, toplevel_variables>>, n' <= Len(args),
             IsFree(n' + 1), ArgumentsInv(cl', n')
      PROVE  DriverInv'
  <2>1. IsFree(n + 1)' /\ ArgumentsInv(cl, n)'
    BY <1>3, <1>5, FixedInput
  <2>2. AtArguments'
    BY <1>1, <1>3, <1>5, <2>1 DEF AtArguments
  <2>3. QED
    BY <2>2 DEF DriverInv
<1>6. ASSUME Exit("failure"), ~Accepted PROVE DriverInv'
  <2>1. pc' = "exit" /\ result' # "success" /\ ~Deserved
    BY <1>6 DEF Exit, Deserved
  <2>2. AtExit'
    BY <1>3, <2>1, FixedInput DEF AtExit
  <2>3. QED
    BY <2>2 DEF DriverInv
<1>7. n + 1 \in FreeArguments
  BY <1>2 DEF FreeArguments, IsFree
<1>8. FileNames \cap Options = {}
  BY ArgumentAssumption
<1> HIDE DEF a
<1>9. CASE a \in FileNames /\ cl' = [cl EXCEPT !.files = Append(@, a)] /\ n' = n + 1
           /\ UNCHANGED <<pc, ok, toplevel_variables, result>>
  <2>1. a # "--unknown" /\ a # "--cpp-out" /\ a # "--help"
    BY <1>8, <1>9 DEF Options
  <2>2. cl'.files = Append(cl.files, a) /\ cl'.help = cl.help /\ cl.files \in Seq(FileNames)
    BY <1>2, <1>9
  <2>3. cl'.help <=> cl.help \/ a = "--help"
    BY <2>1, <2>2
  <2>4. ASSUME NEW f \in FileNames
        PROVE  /\ f \in Range(cl'.files) <=> f \in Range(cl.files) \/ f = a
               /\ Twice(f, cl'.files) <=> Twice(f, cl.files) \/ (f = a /\ f \in Range(cl.files))
    BY <1>9, <2>2, OneMoreFile
  <2>5. ArgumentsInv(cl', n + 1)
    BY <1>2, <2>1, <2>3, <2>4, ReadFree DEF a
  <2>6. IsFree(n' + 1)
    BY <1>4, <1>9, <2>1
  <2>7. pc' = "arguments" /\ n' <= Len(args)
    BY <1>1, <1>2, <1>9 DEF AtArguments
  <2>8. QED
    BY <1>5, <1>9, <2>5, <2>6, <2>7
<1>10. CASE a = "--help" /\ cl' = [cl EXCEPT !.help = TRUE] /\ n' = n + 1
            /\ UNCHANGED <<pc, ok, toplevel_variables, result>>
  <2>1. a # "--unknown" /\ a # "--cpp-out" /\ a \notin FileNames
    BY <1>8, <1>10 DEF Options
  <2>2. cl'.files = cl.files /\ cl'.help
    BY <1>2, <1>10
  <2>3. cl'.help <=> cl.help \/ a = "--help"
    BY <1>10, <2>2
  <2>4. ASSUME NEW f \in FileNames
        PROVE  /\ f \in Range(cl'.files) <=> f \in Range(cl.files) \/ f = a
               /\ Twice(f, cl'.files) <=> Twice(f, cl.files) \/ (f = a /\ f \in Range(cl.files))
    BY <2>1, <2>2
  <2>5. ArgumentsInv(cl', n + 1)
    BY <1>2, <2>1, <2>3, <2>4, ReadFree DEF a
  <2>6. IsFree(n' + 1)
    BY <1>4, <1>10, <2>1
  <2>7. pc' = "arguments" /\ n' <= Len(args)
    BY <1>1, <1>2, <1>10 DEF AtArguments
  <2>8. QED
    BY <1>5, <1>10, <2>5, <2>6, <2>7
<1>11. CASE a = "--cpp-out" /\ n + 2 <= Len(args) /\ n' = n + 2
            /\ UNCHANGED <<pc, cl, ok, toplevel_variables, result>>
  <2>1. a # "--unknown" /\ a # "--help" /\ a \notin FileNames
    BY <1>8, <1>11 DEF Options
  <2>2. a = "--cpp-out" => n + 1 < Len(args)
    BY <1>2, <1>11
  <2>3. ASSUME NEW f \in FileNames
        PROVE  /\ f \in Range(cl.files) <=> f \in Range(cl.files) \/ f = a
               /\ Twice(f, cl.files) <=> Twice(f, cl.files) \/ (f = a /\ f \in Range(cl.files))
    BY <2>1
  <2>4. cl.help <=> cl.help \/ a = "--help"
    BY <2>1
  <2>5. ArgumentsInv(cl, n + 1)
    BY <1>2, <2>1, <2>2, <2>3, <2>4, ReadFree DEF a
  <2>6. ~IsFree((n + 1) + 1)
    BY <1>4, <1>11
  <2>7. n + 1 \in Nat /\ (n + 1) + 1 = n + 2 /\ n + 2 \in Nat \ {0}
    BY <1>2
  <2>8. ArgumentsInv(cl, n + 2)
    BY <2>5, <2>6, <2>7, ReadTaken
  <2>9. IsFree((n + 2) + 1)
    BY <2>6, <2>7, OperandStep DEF IsFree
  <2>10. pc' = "arguments"
    BY <1>1, <1>11 DEF AtArguments
  <2>11. QED
    BY <1>5, <1>11, <2>8, <2>9, <2>10
<1>12. CASE a = "--cpp-out" /\ n + 2 > Len(args) /\ Exit("failure")
  <2>1. ~(n + 1 < Len(args))
    BY <1>2, <1>12
  <2>2. ~Accepted
    BY <1>7, <1>12, <2>1 DEF Accepted, a
  <2>3. QED
    BY <1>6, <1>12, <2>2
<1>13. CASE a = "--unknown" /\ Exit("failure")
  <2>1. ~Accepted
    BY <1>7, <1>13 DEF Accepted, a
  <2>2. QED
    BY <1>6, <1>13, <2>1
<1>14. QED
  BY <1>9, <1>10, <1>11, <1>12, <1>13 DEF ParseArgument, a

LEMMA ArgumentsDoneDrives ==
  ASSUME TypesInv, DriverInv, ArgumentsDone PROVE DriverInv'
<1>1. AtArguments
  BY DEF ArgumentsDone, DriverInv, AtParse, AtTranslate, AtDefine, AtExit
<1>2. ArgumentsInv(cl, Len(args)) /\ ok /\ top_level_exprs = <<>> /\ toplevel_variables = <<>>
  BY <1>1 DEF ArgumentsDone, AtArguments
<1>3. UNCHANGED <<args, contents, top_level_exprs>>
  BY DEF ArgumentsDone
<1>4. Accepted /\ (cl.help <=> HelpWanted) /\ Wanted = Range(cl.files)
  BY <1>2, ArgumentsRead
<1>5. Wanted = {} <=> cl.files = <<>>
  <2>1. cl.files \in Seq(FileNames)
    BY DEF TypesInv
  <2>2. cl.files # <<>> => cl.files[1] \in Range(cl.files)
    BY <2>1 DEF Range
  <2>3. cl.files = <<>> => Range(cl.files) = {}
    BY DEF Range
  <2>4. QED
    BY <1>4, <2>2, <2>3
<1>6. CASE cl.help /\ Exit("success")
  <2>1. Deserved /\ pc' = "exit" /\ result' = "success"
    BY <1>4, <1>6 DEF Deserved, Exit
  <2>2. AtExit'
    BY <1>3, <2>1, FixedInput DEF AtExit
  <2>3. QED
    BY <2>2 DEF DriverInv
<1>7. CASE ~cl.help /\ cl.files = <<>> /\ Exit("failure")
  <2>1. ~Deserved /\ pc' = "exit" /\ result' # "success"
    BY <1>4, <1>5, <1>7 DEF Deserved, Exit
  <2>2. AtExit'
    BY <1>3, <2>1, FixedInput DEF AtExit
  <2>3. QED
    BY <2>2 DEF DriverInv
<1>8. CASE ~cl.help /\ cl.files # <<>> /\ GoTo("parse")
  <2>1. pc' = "parse" /\ n' = 0 /\ UNCHANGED <<cl, ok, toplevel_variables>>
    BY <1>8 DEF GoTo
  <2>2. ArgumentsOver
    BY <1>2, <1>8 DEF ArgumentsOver
  <2>3. ParsedInv(0)
    <3>1. Range(top_level_exprs) = {} /\ Distinct(top_level_exprs) /\ DistinctIn(0)
      BY <1>2 DEF Range, Distinct, DistinctIn
    <3>2. QED
      BY <1>2, <3>1 DEF ParsedInv
  <2>4. ArgumentsOver' /\ ParsedInv(0)'
    BY <1>3, <2>1, <2>2, <2>3, FixedFiles
  <2>5. ParsedInv(n)'
    BY <2>1, <2>4
  <2>6. Len(cl.files) \in Nat
    BY DEF TypesInv
  <2>7. AtParse'
    BY <1>2, <2>1, <2>4, <2>5, <2>6 DEF AtParse
  <2>8. QED
    BY <2>7 DEF DriverInv
<1>9. QED
  BY <1>6, <1>7, <1>8 DEF ArgumentsDone

LEMMA ParseFileDrives ==
  ASSUME TypesInv, DriverInv, ParseFile PROVE DriverInv'
<1> DEFINE file == FileAt(n + 1)
<1>1. AtParse
  BY DEF ParseFile, DriverInv, AtArguments, AtTranslate, AtDefine, AtExit
<1>2. UNCHANGED <<args, contents, pc, cl, toplevel_variables>> /\ n' = n + 1
  BY DEF ParseFile
<1>3. n \in Nat /\ n + 1 \in 1..Len(cl.files) /\ top_level_exprs \in Seq(Expr) /\ ok \in BOOLEAN
  BY <1>1 DEF ParseFile, TypesInv, AtParse
<1>4. file \in File
  BY <1>3 DEF TypesInv, FileAt
<1>5. file.ok \in BOOLEAN /\ (file.ok => file.exprs \in Seq(Expr))
  <2>1. Failed.ok = FALSE
    BY DEF Failed
  <2>2. QED
    BY <1>4, <2>1 DEF File
<1>6. \/ file.ok /\ top_level_exprs' = top_level_exprs \o file.exprs /\ ok' = ok
      \/ ~file.ok /\ ok' = FALSE
  BY DEF ParseFile, FileAt
<1> HIDE DEF file
<1>7. ok' \in BOOLEAN /\ (ok' <=> ok /\ file.ok)
  <2>1. CASE file.ok /\ ok' = ok
    BY <1>3, <2>1
  <2>2. CASE ~file.ok /\ ok' = FALSE
    BY <2>2
  <2>3. QED
    BY <1>6, <2>1, <2>2
<1>8. \A i : FileAt(i)' = FileAt(i)
  BY <1>2 DEF FileAt
<1>9. \A m : DistinctIn(m)' <=> DistinctIn(m)
  BY <1>8 DEF DistinctIn
<1>10. \A k \in 1..(n + 1) : k = n + 1 \/ k \in 1..n
  BY <1>3
<1>11. 1..n \subseteq 1..(n + 1) /\ n + 1 \in 1..(n + 1)
  BY <1>3
<1>12. ok' <=> \A i \in 1..(n + 1) : FileAt(i).ok
  <2>1. ok <=> \A i \in 1..n : FileAt(i).ok
    BY <1>1 DEF AtParse, ParsedInv
  <2>2. QED
    BY <1>7, <1>10, <1>11, <2>1 DEF file
<1>13. ASSUME ok'
       PROVE  /\ \A e : e \in Range(top_level_exprs') <=> \E i \in 1..(n + 1) : e \in Range(FileAt(i).exprs)
              /\ Distinct(top_level_exprs') <=> DistinctIn(n + 1)
  <2>1. ok /\ file.ok /\ file.exprs \in Seq(Expr) /\ top_level_exprs' = top_level_exprs \o file.exprs
    BY <1>5, <1>6, <1>7, <1>13
  <2>2. \A e : e \in Range(top_level_exprs) <=> \E i \in 1..n : e \in Range(FileAt(i).exprs)
    BY <1>1, <2>1 DEF AtParse, ParsedInv
  <2>3. Distinct(top_level_exprs) <=> DistinctIn(n)
    BY <1>1, <2>1 DEF AtParse, ParsedInv
  <2>4. /\ Range(top_level_exprs') = Range(top_level_exprs) \cup Range(file.exprs)
        /\ Distinct(top_level_exprs') <=>
             /\ Distinct(top_level_exprs) /\ Distinct(file.exprs)
             /\ NamesIn(top_level_exprs) \cap NamesIn(file.exprs) = {}
    BY <1>3, <2>1, DistinctConcat
  <2>5. \A e : e \in Range(top_level_exprs') <=> \E i \in 1..(n + 1) : e \in Range(FileAt(i).exprs)
    BY <1>10, <1>11, <2>2, <2>4 DEF file
  <2>6. NamesIn(top_level_exprs) \cap NamesIn(file.exprs) = {}
        <=> \A i \in 1..n : NamesIn(FileAt(i).exprs) \cap NamesIn(file.exprs) = {}
    <3>1. \A x : x \in NamesIn(top_level_exprs) <=> \E i \in 1..n : x \in NamesIn(FileAt(i).exprs)
      BY <2>2 DEF NamesIn
    <3>2. QED
      BY <3>1
  <2>7. Distinct(top_level_exprs') <=> DistinctIn(n + 1)
    BY <1>3, <2>3, <2>4, <2>6, OneMoreDistinct DEF file
  <2>8. QED
    BY <2>5, <2>7
<1>14. ParsedInv(n)'
  BY <1>2, <1>8, <1>9, <1>12, <1>13 DEF ParsedInv
<1>15. ArgumentsOver'
  <2>1. \A c, m : ArgumentsInv(c, m)' <=> ArgumentsInv(c, m)
    BY <1>2, FixedInput
  <2>2. QED
    BY <1>1, <1>2, <2>1 DEF AtParse, ArgumentsOver
<1>16. n' <= Len(cl.files)
  BY <1>2, <1>3
<1>17. AtParse'
  BY <1>1, <1>2, <1>7, <1>14, <1>15, <1>16 DEF AtParse
<1>18. QED
  BY <1>17 DEF DriverInv

LEMMA AllParsedDrives ==
  ASSUME TypesInv, DriverInv, AllParsed PROVE DriverInv'
<1>1. AtParse /\ n = Len(cl.files)
  BY DEF AllParsed, DriverInv, AtArguments, AtTranslate, AtDefine, AtExit
<1>2. UNCHANGED <<args, contents, cl, ok, top_level_exprs, toplevel_variables>>
  BY DEF AllParsed, Exit, GoTo
<1>3. ArgumentsOver /\ ParsedInv(Len(cl.files)) /\ ok \in BOOLEAN
  BY <1>1 DEF AtParse
<1>4. CASE ok
  <2>1. pc' = "translate"
    BY <1>4 DEF AllParsed, GoTo
  <2>2. FilesOver
    BY <1>3, <1>4 DEF FilesOver
  <2>3. FilesOver'
    BY <1>2, <2>2, FixedFiles
  <2>4. AtTranslate'
    BY <1>1, <1>2, <2>1, <2>3 DEF AtParse, AtTranslate
  <2>5. QED
    BY <2>4 DEF DriverInv
<1>5. CASE ~ok
  <2>1. pc' = "exit" /\ result' # "success"
    BY <1>5 DEF AllParsed, Exit
  <2>2. ~Deserved
    BY <1>3, <1>5, ArgumentsRead, NoProgram DEF Deserved, ArgumentsOver
  <2>3. AtExit'
    BY <1>2, <2>1, <2>2, FixedInput DEF AtExit
  <2>4. QED
    BY <2>3 DEF DriverInv
<1>6. QED
  BY <1>4, <1>5

LEMMA TranslatingDrives ==
  ASSUME DriverInv, pc = "translate",
         UNCHANGED <<top_level_exprs, args, contents, pc, cl, ok, toplevel_variables>>
  PROVE  DriverInv'
<1>1. AtTranslate
  BY DEF DriverInv, AtArguments, AtParse, AtDefine, AtExit
<1>2. FilesOver'
  BY <1>1, FixedFiles DEF AtTranslate
<1>3. AtTranslate'
  BY <1>1, <1>2 DEF AtTranslate
<1>4. QED
  BY <1>3 DEF DriverInv

\* What deserves success once all files were parsed.
LEMMA DeservedIs ==
  ASSUME TypesInv, FilesOver
  PROVE  Deserved <=>
           /\ \A k \in 1..Len(top_level_exprs) :
                IsForm(top_level_exprs[k], "def") /\ IsCore(top_level_exprs[k])
           /\ Distinct(top_level_exprs)
           /\ \E k \in 1..Len(top_level_exprs) : NameOf(top_level_exprs[k]) = "main"
<1>1. ArgumentsInv(cl, Len(args)) /\ ~cl.help /\ cl.files # <<>> /\ ok /\ ParsedInv(Len(cl.files))
  BY DEF FilesOver, ArgumentsOver
<1>2. Accepted /\ ~HelpWanted /\ Wanted = Range(cl.files)
  BY <1>1, ArgumentsRead
<1>3. Wanted # {}
  <2>1. cl.files \in Seq(FileNames)
    BY DEF TypesInv
  <2>2. cl.files[1] \in Range(cl.files)
    BY <1>1, <2>1 DEF Range
  <2>3. QED
    BY <1>2, <2>2
<1>4. Deserved <=> IsProgram
  BY <1>2, <1>3 DEF Deserved
<1>5. QED
  BY <1>1, <1>4, ProgramIs

\* The program ends without success because it does not deserve any.
LEMMA Ending ==
  ASSUME NEW how, Exit(how), UNCHANGED <<args, contents>>, how = "success" <=> Deserved
  PROVE  DriverInv'
<1>1. AtExit'
  BY FixedInput DEF AtExit, Exit
<1>2. QED
  BY <1>1 DEF DriverInv

LEMMA TranslationFailsDrives ==
  ASSUME TranslationInv, DriverInv, TranslationFails PROVE DriverInv'
<1>1. AtTranslate /\ fault # "none" /\ UNCHANGED <<args, contents>>
  BY DEF TranslationFails, DriverInv, AtArguments, AtParse, AtDefine, AtExit
<1>2. n \in 1..Len(top_level_exprs) /\ ~IsCore(top_level_exprs[n]) /\ TypesInv
  BY <1>1 DEF TranslationInv
<1>3. ~Deserved
  BY <1>1, <1>2, DeservedIs DEF AtTranslate
<1>4. fault # "success"
  BY <1>1 DEF TranslationInv, Faults
<1>5. QED
  BY <1>1, <1>3, <1>4, Ending DEF TranslationFails

LEMMA AllTranslatedDrives ==
  ASSUME TypesInv, DriverInv, AllTranslated PROVE DriverInv'
<1>1. AtTranslate
  BY DEF AllTranslated, Translating, DriverInv, AtArguments, AtParse, AtDefine, AtExit
<1>2. UNCHANGED <<args, contents, cl, ok, top_level_exprs, toplevel_variables>> /\ pc' = "define" /\ n' = 0
  BY DEF AllTranslated, GoTo
<1>3. FilesOver'
  BY <1>1, <1>2, FixedFiles DEF AtTranslate
<1>4. DefinedInv(n)'
  <2>1. 1..0 = {} /\ DOMAIN <<>> = {}
    OBVIOUS
  <2>2. toplevel_variables' = <<>>
    BY <1>1, <1>2 DEF AtTranslate
  <2>3. QED
    BY <1>2, <2>1, <2>2 DEF DefinedInv
<1>5. n' <= Len(top_level_exprs')
  <2>1. Len(top_level_exprs) \in Nat
    BY DEF TypesInv
  <2>2. QED
    BY <1>2, <2>1
<1>6. AtDefine'
  BY <1>2, <1>3, <1>4, <1>5 DEF AtDefine
<1>7. QED
  BY <1>6 DEF DriverInv

LEMMA DefineDrives ==
  ASSUME TranslationInv, DriverInv, Define PROVE DriverInv'
<1> DEFINE x == bst[<<n + 1>>]
           e(k) == top_level_exprs[k]
<1>1. AtDefine
  BY DEF Define, DriverInv, AtArguments, AtParse, AtTranslate, AtExit
<1>2. TypesInv /\ FilesOver /\ DefinedInv(n) /\ n \in Nat /\ n + 1 \in 1..Len(top_level_exprs)
      /\ Len(top_level_exprs) \in Nat
  BY <1>1 DEF Define, AtDefine, TranslationInv, TypesInv
<1>3. UNCHANGED <<args, contents, top_level_exprs>>
  BY DEF Define
<1>4. IsTranslated(n + 1)
  <2>1. Translated = Len(top_level_exprs)
    BY DEF Translated, Define
  <2>2. QED
    BY <1>2, <2>1 DEF TranslationInv
<1>5. (x.type = "Def" <=> IsForm(e(n + 1), "def")) /\ (x.type = "Def" => x.name = NameOf(e(n + 1)))
  BY <1>4 DEF IsTranslated
<1>6. \A k \in 1..(n + 1) : k = n + 1 \/ k \in 1..n
  BY <1>2
<1>7. 1..n \subseteq 1..(n + 1) /\ n + 1 \in 1..(n + 1) /\ n + 1 \notin 1..n
      /\ 1..n \subseteq 1..Len(top_level_exprs)
  BY <1>2
<1>8. DOMAIN toplevel_variables = {NameOf(e(k)) : k \in 1..n}
  BY <1>2 DEF DefinedInv
<1>9. /\ \A k \in 1..n : IsForm(e(k), "def")
      /\ \A j, k \in 1..n : NameOf(e(j)) = NameOf(e(k)) => j = k
  BY <1>2 DEF DefinedInv
<1>10. Define <=>
         /\ pc = "define" /\ n < Len(top_level_exprs)
         /\ \/ /\ x.type = "Def" /\ ~Redefines(x.name)
               /\ toplevel_variables' = With(toplevel_variables, x.name, n + 1)
               /\ n' = n + 1
               /\ UNCHANGED <<pc, cl, ok, result>>
            \/ /\ x.type = "Def" /\ Redefines(x.name)
               /\ Exit("check")
            \/ /\ x.type # "Def"
               /\ Exit("unreachable")
         /\ UNCHANGED <<top_level_exprs, bstVars, args, contents>>
  BY DEF Define
<1> HIDE DEF x
<1>11. CASE x.type = "Def" /\ ~Redefines(x.name) /\ UNCHANGED <<pc, cl, ok>> /\ n' = n + 1
            /\ toplevel_variables' = With(toplevel_variables, x.name, n + 1)
  <2>1. IsForm(e(n + 1), "def") /\ x.name = NameOf(e(n + 1))
    BY <1>5, <1>11
  <2>2. \A k \in 1..n : NameOf(e(k)) # NameOf(e(n + 1))
    BY <1>8, <1>11, <2>1 DEF Redefines
  <2>3. \A k \in 1..(n + 1) : IsForm(e(k), "def")
    BY <1>6, <1>9, <2>1
  <2>4. \A j, k \in 1..(n + 1) : NameOf(e(j)) = NameOf(e(k)) => j = k
    BY <1>6, <1>9, <2>2
  <2>5. DOMAIN toplevel_variables' = {NameOf(e(k)) : k \in 1..(n + 1)}
    <3>1. DOMAIN toplevel_variables' = DOMAIN toplevel_variables \cup {NameOf(e(n + 1))}
      BY <1>11, <2>1 DEF With
    <3>2. \A y : (\E k \in 1..(n + 1) : y = NameOf(e(k))) <=> (\E k \in 1..n : y = NameOf(e(k))) \/ y = NameOf(e(n + 1))
      BY <1>6, <1>7
    <3> HIDE DEF e
    <3>3. QED
      BY <1>8, <3>1, <3>2
  <2>6. DefinedInv(n)'
    BY <1>3, <1>11, <2>3, <2>4, <2>5 DEF DefinedInv
  <2>7. FilesOver'
    BY <1>2, <1>3, <1>11, FixedFiles
  <2>8. n' <= Len(top_level_exprs')
    BY <1>2, <1>3, <1>11
  <2>9. AtDefine'
    BY <1>1, <1>11, <2>6, <2>7, <2>8 DEF AtDefine
  <2>10. QED
    BY <2>9 DEF DriverInv
<1>12. CASE x.type = "Def" /\ Redefines(x.name) /\ Exit("check")
  <2>1. x.name = NameOf(e(n + 1))
    BY <1>5, <1>12
  <2>2. PICK k \in 1..n : NameOf(e(n + 1)) = NameOf(e(k))
    BY <1>8, <1>12, <2>1 DEF Redefines
  <2>3. ~Distinct(top_level_exprs)
    BY <1>2, <1>7, <2>2 DEF Distinct
  <2>4. ~Deserved
    BY <1>2, <2>3, DeservedIs
  <2>5. QED
    BY <1>3, <1>12, <2>4, Ending
<1>13. CASE x.type # "Def" /\ Exit("unreachable")
  <2>1. ~IsForm(e(n + 1), "def")
    BY <1>5, <1>13
  <2>2. ~Deserved
    BY <1>2, <2>1, DeservedIs
  <2>3. QED
    BY <1>3, <1>13, <2>2, Ending
<1>14. QED
  BY <1>10, <1>11, <1>12, <1>13

LEMMA EntryPointDrives ==
  ASSUME TranslationInv, DriverInv, EntryPoint PROVE DriverInv'
<1> DEFINE e(k) == top_level_exprs[k]
           N == Len(top_level_exprs)
<1>1. AtDefine
  BY DEF EntryPoint, DriverInv, AtArguments, AtParse, AtTranslate, AtExit
<1>2. TypesInv /\ FilesOver /\ DefinedInv(N)
  BY <1>1 DEF EntryPoint, AtDefine, TranslationInv
<1>3. \A k \in 1..N : IsCore(e(k))
  <2>1. Translated = N
    BY DEF Translated, EntryPoint
  <2>2. QED
    BY <2>1 DEF TranslationInv, IsTranslated
<1>4. (\A k \in 1..N : IsForm(e(k), "def")) /\ Distinct(top_level_exprs)
  BY <1>2 DEF DefinedInv, Distinct
<1>5. "main" \in DOMAIN toplevel_variables <=> \E k \in 1..N : NameOf(e(k)) = "main"
  BY <1>2 DEF DefinedInv
<1>6. Deserved <=> "main" \in DOMAIN toplevel_variables
  BY <1>2, <1>3, <1>4, <1>5, DeservedIs
<1> DEFINE how == IF "main" \in DOMAIN toplevel_variables THEN "success" ELSE "check"
<1>7. Exit(how) /\ UNCHANGED <<args, contents>>
  BY DEF EntryPoint
<1>8. how = "success" <=> Deserved
  BY <1>6
<1> HIDE DEF how
<1>9. QED
  BY <1>7, <1>8, Ending

LEMMA StutterDrives ==
  ASSUME DriverInv, UNCHANGED vars PROVE DriverInv'
<1>1. UNCHANGED <<args, contents, pc, n, cl, ok, toplevel_variables, result, top_level_exprs>>
  BY DEF vars, driverVars
<1>2. \A k : IsFree(k)' <=> IsFree(k)
  BY <1>1, FixedInput
<1>3. \A c, m : ArgumentsInv(c, m)' <=> ArgumentsInv(c, m)
  BY <1>1, FixedInput
<1>4. \A m : ParsedInv(m)' <=> ParsedInv(m)
  BY <1>1, FixedFiles
<1>5. (ArgumentsOver' <=> ArgumentsOver) /\ (FilesOver' <=> FilesOver)
  BY <1>1, FixedFiles
<1>6. Deserved' <=> Deserved
  BY <1>1, FixedInput
<1>7. \A m : DefinedInv(m)' <=> DefinedInv(m)
  BY <1>1 DEF DefinedInv
<1>8. (AtArguments => AtArguments') /\ (AtParse => AtParse') /\ (AtTranslate => AtTranslate')
  BY <1>1, <1>2, <1>3, <1>4, <1>5 DEF AtArguments, AtParse, AtTranslate
<1>9. (AtDefine => AtDefine') /\ (AtExit => AtExit')
  BY <1>1, <1>5, <1>6, <1>7 DEF AtDefine, AtExit
<1>10. QED
  BY <1>8, <1>9 DEF DriverInv

LEMMA DriverKept ==
  TranslationInv /\ DriverInv /\ [Next]_vars => DriverInv'
<1> SUFFICES ASSUME TranslationInv, DriverInv, [Next]_vars PROVE DriverInv'
  OBVIOUS
<1>0. TypesInv
  BY DEF TranslationInv
<1>1. CASE ParseArgument BY <1>0, <1>1, ParseArgumentDrives
<1>2. CASE ArgumentsDone BY <1>0, <1>2, ArgumentsDoneDrives
<1>3. CASE ParseFile BY <1>0, <1>3, ParseFileDrives
<1>4. CASE AllParsed BY <1>0, <1>4, AllParsedDrives
<1>5. CASE TranslateNext BY <1>5, TranslatingDrives DEF TranslateNext, Translating
<1>6. CASE Translate BY <1>6, TranslatingDrives DEF Translate, Translating, driverVars
<1>7. CASE TranslationFails BY <1>7, TranslationFailsDrives
<1>8. CASE AllTranslated BY <1>0, <1>8, AllTranslatedDrives
<1>9. CASE Define BY <1>9, DefineDrives
<1>10. CASE EntryPoint BY <1>10, EntryPointDrives
<1>11. CASE Terminated BY <1>11, StutterDrives DEF Terminated
<1>12. CASE UNCHANGED vars BY <1>12, StutterDrives
<1>13. QED
  BY <1>1, <1>2, <1>3, <1>4, <1>5, <1>6, <1>7, <1>8, <1>9, <1>10, <1>11, <1>12 DEF Next

\* The compiler succeeds for the command lines and files that deserve it and for
\* no others, whatever they are: the options are read as they are meant, files
\* that are named twice or share a name fail, and so does a program without main
\* (main.cpp, command_line.cpp).
THEOREM ProgramsSucceed == Spec => []SucceedsForPrograms
<1> DEFINE Inv == TranslationInv /\ DriverInv
<1>1. Init => Inv
  BY InitTranslation, InitDriver
<1>2. Inv /\ [Next]_vars => Inv'
  BY TranslationKept, DriverKept
<1>3. Inv => SucceedsForPrograms
  <2>1. DriverInv => (pc = "exit" => (result = "success" <=> Deserved))
    BY DEF DriverInv, AtArguments, AtParse, AtTranslate, AtDefine, AtExit
  <2>2. QED
    BY <2>1 DEF SucceedsForPrograms, Deserved, HelpWanted
<1> HIDE DEF Inv
<1>4. QED
  BY <1>1, <1>2, <1>3, PTL DEF Spec
=============================================================================
