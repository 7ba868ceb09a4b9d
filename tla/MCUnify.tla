-------------------------------- MODULE MCUnify --------------------------------
(***************************************************************************)
(* Types over two forall variables, an argument's types with and without   *)
(* variables, integers of three bits.                                      *)
(***************************************************************************)
EXTENDS Unify

X == Variable(0)
Y == Variable(1)
Z == Variable(2)
Unit == SimpleTypeTerm("Unit")
Top == SimpleTypeTerm("Top")

Arrow(ts, r) == FunctionType({}, [k \in DOMAIN ts |-> [type |-> ts[k], comptime |-> {}]], r)
ForAll(v, t, r) == FunctionType({v}, <<[type |-> t, comptime |-> {v}]>>, r)
Comptime(t, r) == FunctionType({}, <<[type |-> t, comptime |-> {Z}]>>, r)

\* Functions of two parameters: the parts are met one after the other.
Expected2 == {X, Y, UnitLikeValue(X), Arrow(<<X>>, Y)}
Given2 == {Unit, UnitLikeValue(Unit), Arrow(<<Unit>>, Top), Comptime(Unit, Unit)}
OfTwo(S) == {Arrow(<<s, t>>, r) : s \in S, t \in S, r \in S}

\* Terms of every kind.
Member(n, t) == [name |-> n, value |-> t]
Maps == {<<>>, <<Member("a", Unit)>>, <<Member("a", Unit), Member("b", Unit)>>,
         <<Member("b", Unit), Member("a", Unit)>>}
Record == ProductType(<<Member("a", Unit)>>)
Kinds ==
  {X, Y, Z, Unit, StringLiteral("s"), StringLiteral("t")}
    \cup {NumericLiteral(n) : n \in {MIN_INT, -1, 2}}
    \cup {ProductType(m) : m \in Maps} \cup {ProductValue(Record, m) : m \in Maps}
    \cup {ProductType(<<Member("a", X)>>), ProductValue(Record, <<Member("a", X)>>)}
    \cup {UnitLikeValue(X), UnitLikeValue(Unit), Comptime(Unit, Unit), ForAll(Z, Z, Unit)}
\* What the first parameter binds before the rest is compared.
Bound == {Unit, X, UnitLikeValue(X), ProductValue(Record, <<>>), DeferredValue(Unit, "Comptime"),
          ForAll(Z, Z, Unit), Comptime(Unit, Unit), NumericLiteral(2)}
Function == Abstraction(<<>>, <<[variable |-> Z, value |-> Unit]>>, X)
Unevaluated ==
  {Application(StringLiteral("f"), <<X>>), Application(Function, <<X>>),
   DeferredValue(Unit, "Comptime"), LetIns(<<>>, Unit), Function}

ProblemsOf(o, E, A) == [outer : o, forall : {{X, Y}}, expected : E, arg : A]
NoOuter == {Empty}
MCNestings == {7}
MCProblems ==
  ProblemsOf(NoOuter, OfTwo(Expected2), OfTwo(Given2))
    \cup ProblemsOf(NoOuter, OfTwo({X, Y, UnitLikeValue(X)}), OfTwo({X, Y, UnitLikeValue(X), Unit}))
    \cup ProblemsOf({Empty, With(Empty, X, Unit), With(Empty, Z, Unit)}, Kinds \cup Unevaluated, Kinds)
    \cup ProblemsOf(NoOuter, {Arrow(<<X>>, e) : e \in Kinds \cup Unevaluated},
                 {Arrow(<<a>>, b) : a \in Bound, b \in Kinds})
=============================================================================
