--------------------------------- MODULE Terms ---------------------------------
(***************************************************************************)
(* The terms of src2 (term.h): a term is a record of its contents, and it  *)
(* refers to other terms by their addresses.  What TermHash hashes and     *)
(* what TermEqual compares decide which terms become one.  The members of  *)
(* the unordered maps are kept in the order in which they are iterated.    *)
(***************************************************************************)
EXTENDS Integers, Sequences

SimpleTypes ==
  {"TypeOfTypes", "Bottom", "Unit", "Top", "TypeToBeInferred", "StringLiteral", "NumericLiteral"}
SimpleTypeTerm(s) == [tag |-> "SimpleTypeTerm", simple_type |-> s]
StringLiteral(v) == [tag |-> "StringLiteral", literal |-> v]
NumericLiteral(v) == [tag |-> "NumericLiteral", literal |-> v]
Variable(n) == [tag |-> "Variable", instance |-> n]
Application(f, as) == [tag |-> "Application", function |-> f, arguments |-> as]
UnitLikeValue(t) == [tag |-> "UnitLikeValue", type |-> t]
DeferredValue(t, a) == [tag |-> "DeferredValue", type |-> t, availability |-> a]
LetIns(bs, b) == [tag |-> "LetIns", bound |-> bs, body |-> b]
\* The constructors of an abstraction drop its forall variables (term.h:163-183).
Abstraction(bs, ps, b) == [tag |-> "Abstraction", bound |-> bs, parameters |-> ps, body |-> b]
\* A parameter type has a set of at most one comptime parameter.
FunctionType(vs, ps, r) ==
  [tag |-> "FunctionType", forall |-> vs, parameter_types |-> ps, return_type |-> r]
ProductType(ms) == [tag |-> "ProductType", members |-> ms]
ProductValue(t, ms) == [tag |-> "ProductValue", type |-> t, members |-> ms]
\* These have no case in MoveToHeap.
Unmovable == {"CppTerm", "NamedType", "TypeOfAbstraction"}

Literals == {"SimpleTypeTerm", "StringLiteral", "NumericLiteral"}
Products == {"ProductType", "ProductValue"}

\* The contents of an unordered map from strings, no two entries with one name.
MembersOver(S) ==
  {ms \in Seq([name : STRING, value : S]) :
     \A j, k \in DOMAIN ms : ms[j].name = ms[k].name => j = k}

\* The terms that refer to S.
TermOver(S) ==
  LET Binders == Seq([variable : S, value : S])
  IN  [tag : {"SimpleTypeTerm"}, simple_type : SimpleTypes]
        \cup [tag : {"StringLiteral", "NumericLiteral"}, literal : STRING]
        \cup [tag : Unmovable]
        \cup [tag : {"Variable"}, instance : Nat]
        \cup [tag : {"Application"}, function : S, arguments : Seq(S)]
        \cup [tag : {"UnitLikeValue"}, type : S]
        \cup [tag : {"DeferredValue"}, type : S, availability : {"Runtime", "Comptime"}]
        \cup [tag : {"LetIns"}, bound : Binders, body : S]
        \cup [tag : {"Abstraction"}, bound : Binders, parameters : Binders, body : S]
        \cup [tag : {"FunctionType"}, forall : SUBSET S,
              parameter_types : Seq([type : S, comptime : SUBSET S]), return_type : S]
        \cup [tag : {"ProductType"}, members : MembersOver(S)]
        \cup [tag : {"ProductValue"}, type : S, members : MembersOver(S)]

\* The term with other names for the terms it refers to.
Renamed(t, f) ==
  LET Binders(bs) == [k \in DOMAIN bs |-> [variable |-> f[bs[k].variable], value |-> f[bs[k].value]]]
      Members(ms) == [k \in DOMAIN ms |-> [name |-> ms[k].name, value |-> f[ms[k].value]]]
      Set(S) == {f[x] : x \in S}
  IN  CASE t.tag \in Literals \cup Unmovable \cup {"Variable"} -> t
        [] t.tag = "Application" ->
             Application(f[t.function], [k \in DOMAIN t.arguments |-> f[t.arguments[k]]])
        [] t.tag = "UnitLikeValue" -> UnitLikeValue(f[t.type])
        [] t.tag = "DeferredValue" -> DeferredValue(f[t.type], t.availability)
        [] t.tag = "LetIns" -> LetIns(Binders(t.bound), f[t.body])
        [] t.tag = "Abstraction" -> Abstraction(Binders(t.bound), Binders(t.parameters), f[t.body])
        [] t.tag = "FunctionType" ->
             FunctionType(Set(t.forall),
               [k \in DOMAIN t.parameter_types |->
                 [type |-> f[t.parameter_types[k].type],
                  comptime |-> Set(t.parameter_types[k].comptime)]],
               f[t.return_type])
        [] t.tag = "ProductType" -> ProductType(Members(t.members))
        [] t.tag = "ProductValue" -> ProductValue(f[t.type], Members(t.members))

\* Mutant: the forall variables are hashed, although they are not compared.
HashedWithForall(t) == t

\* What TermHash goes through: everything but the forall variables of a function
\* type, members of a map in the order of iteration.  Hashes of different things
\* are taken to be different.  (The case of NamedType has no break, term.cpp:241-245;
\* no NamedType is hashed in the store, where MoveToHeap has no case for one.)
Hashed(t) == IF t.tag = "FunctionType" THEN [t EXCEPT !.forall = {}] ELSE t

\* What TermEqual compares: the same, but maps are compared as maps.
Compared(t) ==
  IF t.tag \in Products
  THEN [t EXCEPT !.members = {t.members[k] : k \in DOMAIN t.members}]
  ELSE IF t.tag = "FunctionType" THEN [t EXCEPT !.forall = {}] ELSE t

TermEqual(t, u) == t.tag # "Variable" /\ t.tag = u.tag /\ Compared(t) = Compared(u)
=============================================================================
