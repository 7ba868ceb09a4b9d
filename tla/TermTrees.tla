------------------------------- MODULE TermTrees -------------------------------
(***************************************************************************)
(* Terms of src2 as whole trees, as unification (unify.cpp) and evaluation *)
(* (evaluateterm.cpp) follow them: a term is given with the terms it       *)
(* refers to.  Canonical terms are the same if their trees are.            *)
(***************************************************************************)
EXTENDS Terms, Numbers, Functions

CONSTANT
  Nestings   \* how deeply terms may be nested: Nat, or numbers that are large enough
ASSUME NestingsAssumption == Nestings \subseteq Nat

Variables == [tag : {"Variable"}, instance : Nat]
Comptimes(t) == UNION {p.comptime : p \in Range(t.parameter_types)}

\* The trees one level above S; numbers have a value.
TreesOver(S) ==
  [tag : {"NumericLiteral"}, literal : Number]
    \cup {t \in TermOver(S) :
            /\ t.tag # "NumericLiteral"
            /\ t.tag = "FunctionType" => t.forall \cup Comptimes(t) \subseteq Variables}
TreesUpTo[n \in Nat] == IF n = 0 THEN {} ELSE TreesOver(TreesUpTo[n - 1])
Trees == UNION {TreesUpTo[n] : n \in Nestings}

-----------------------------------------------------------------------------
(* What GetFreeVariables goes through, and what it stops at.  Abstractions *)
(* are leaves here, although it goes into them: evaluation leaves one as   *)
(* it is, and unification stops at one whatever is in it.                  *)

Values(ms) == [k \in DOMAIN ms |-> ms[k].value]
Parts(t) ==
  CASE t.tag = "Application" -> <<t.function>> \o t.arguments
    [] t.tag = "UnitLikeValue" -> <<t.type>>
    [] t.tag = "FunctionType" -> [k \in DOMAIN t.parameter_types |-> t.parameter_types[k].type]
                                   \o <<t.return_type>>
    [] t.tag \in Products -> Values(t.members)
    [] OTHER -> <<>>

Reached[t \in Trees] == {t} \cup UNION {Reached[u] : u \in Range(Parts(t))}
FreeVariables(t) == {u \in Reached[t] : u.tag = "Variable"}
Supported(t) ==
  \A u \in Reached[t] :
    /\ u.tag \notin {"LetIns", "DeferredValue"}
    /\ u.tag = "FunctionType" => u.forall = {} /\ Comptimes(u) = {}

-----------------------------------------------------------------------------
(* What evaluation and unification go through: a product value has a type, *)
(* too.                                                                    *)

Components(t) == IF t.tag = "ProductValue" THEN <<t.type>> \o Parts(t) ELSE Parts(t)
Within[t \in Trees] == {t} \cup UNION {Within[u] : u \in Range(Components(t))}

\* The terms that evaluation makes anew, with other components.
Composites == {"UnitLikeValue", "FunctionType"} \cup Products
WithComponents(t, us) ==
  LET Members(vs) == [k \in DOMAIN t.members |-> [t.members[k] EXCEPT !.value = vs[k]]]
  IN  CASE t.tag = "UnitLikeValue" -> UnitLikeValue(us[1])
        [] t.tag = "FunctionType" ->
             FunctionType(t.forall,
               [k \in DOMAIN t.parameter_types |-> [t.parameter_types[k] EXCEPT !.type = us[k]]],
               us[Len(us)])
        [] t.tag = "ProductType" -> ProductType(Members(us))
        [] t.tag = "ProductValue" -> ProductValue(us[1], Members(Tail(us)))
=============================================================================
