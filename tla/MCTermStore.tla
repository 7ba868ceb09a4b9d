------------------------------ MODULE MCTermStore ------------------------------
(***************************************************************************)
(* Plans over two variables x and y: a term over them, a term over that,   *)
(* the same two once more or differing in one place, and a question about  *)
(* what was made last.  Other plans ask for types in contexts.             *)
(***************************************************************************)
EXTENDS TermStore

MCTypes == {Nothing, 1, 2}

x == Predefined + 1
y == Predefined + 2
first == Predefined + 3
second == Predefined + 4
third == Predefined + 5
fourth == Predefined + 6

Make(T) == [call : {"make"}, term : T]
New == [call |-> "variable"]
Free(k) == [call |-> "free", of |-> k]

Bind(v, t) == <<[variable |-> v, value |-> t]>>
Optional(S) == {{}} \cup {{v} : v \in S}
Member(n, t) == [name |-> n, value |-> t]

\* Terms of every kind over the results S.
Leaves == {StringLiteral("s"), NumericLiteral("s"), SimpleTypeTerm("Bottom"), [tag |-> "CppTerm"]}
Functions(S) ==
  {FunctionType(f, <<[type |-> t, comptime |-> c]>>, r) :
     f \in Optional({x}), t \in S, c \in Optional({x}), r \in S}
Maps(S) ==
  {<<>>} \cup {<<Member("a", t)>> : t \in S}
    \cup {<<Member("a", t), Member("b", unit_type)>> : t \in S}
    \cup {<<Member("b", unit_type), Member("a", t)>> : t \in S}
Terms(S) ==
  Leaves \cup Functions(S)
    \cup {Application(f, <<a>>) : f \in S, a \in S}
    \cup {UnitLikeValue(t) : t \in S}
    \cup {DeferredValue(t, a) : t \in S, a \in {"Runtime", "Comptime"}}
    \cup {LetIns(Bind(x, t), b) : t \in S, b \in S}
    \cup {ProductType(m) : m \in Maps(S)}
    \cup {ProductValue(t, m) : t \in S, m \in Maps(S)}
Lambdas(S) ==
  [call : {"abstraction"},
   term : {Abstraction(bs, Bind(p, t), b) :
             bs \in {<<>>, Bind(y, x)} \cup {Bind(y, t) : t \in S}, p \in {x, y}, t \in S, b \in S}]

Twice(c, d) == <<New, New, c, d, c, d>>
AskTwice ==
  {Twice(c, d) \o <<Free(second)>> :
     c \in Make(Terms({unit_type, x})) \cup Lambdas({unit_type, x}),
     d \in Make(Terms({first})) \cup Make({Application(first, <<first>>)}) \cup Lambdas({first})}

\* Two terms that agree in almost everything, and a term over each.
NearlyTwice ==
  {<<New, New, c, d, [call |-> "make", term |-> Application(x, <<first>>)],
     [call |-> "make", term |-> Application(x, <<second>>)], Free(third), Free(fourth)>> :
     c \in Make(Functions({unit_type, x}) \cup {ProductType(m) : m \in Maps({unit_type, x})}),
     d \in Make(Functions({unit_type, x}) \cup {ProductType(m) : m \in Maps({unit_type, x})})}

\* Questions for the type of a term in the contexts of no, one and two variables.
Type(bs) == [call |-> "type", term |-> x, bindings |-> bs]
AskTypes ==
  {<<New, New, Type(b), Type(c), Type(d)>> :
     b \in {<<>>, <<x>>}, c \in {<<>>, <<x>>, <<x, y>>}, d \in {<<x>>, <<x, y>>, <<y, x>>}}

MCPlans == AskTwice \cup NearlyTwice \cup AskTypes
=============================================================================
