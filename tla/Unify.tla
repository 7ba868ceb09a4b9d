--------------------------------- MODULE Unify ---------------------------------
(***************************************************************************)
(* UnifyExpectedTypeToArgType (unify.cpp): an expected type, in which      *)
(* forall variables may occur, is compared with the type of an argument,   *)
(* and the inner context binds the variables on the way.  A call is an     *)
(* item of work; the calls it makes come before what is left to do.  The   *)
(* expected type is evaluated again (evaluateterm.cpp) where it mentions   *)
(* what has been bound.  Terms are whole trees: canonical terms are the    *)
(* same if their trees are.  Assertions are enabled: one that fails ends   *)
(* the program.                                                            *)
(***************************************************************************)
EXTENDS TermTrees, Contexts

CONSTANT
  Problems   \* a context and one call each
\* A LetIns is evaluated away before its value is bound or has its type taken.
LetFree(t) == \A u \in Within[t] : u.tag # "LetIns"
Problem(p) ==
  /\ IsFiniteSet(DOMAIN p.outer) /\ DOMAIN p.outer \cup p.forall \subseteq Variables
  /\ p.outer = [v \in DOMAIN p.outer |-> p.outer[v]]
  /\ \A v \in DOMAIN p.outer : p.outer[v] \in Trees /\ LetFree(p.outer[v])
  /\ p.arg \in Trees /\ LetFree(p.arg)
  /\ p.expected \in Trees
  /\ \A t \in Within[p.expected] : t.tag = "ProductValue" => LetFree(t.type)
ASSUME ProblemsAssumption == \A p \in Problems : Problem(p)

VARIABLES
  problem,
  contexts,  \* the parent's context and inner_context
  work,      \* calls to come: [expected, arg] or, for one parameter, with comptimes
  result     \* "none", "unified", "nullopt" or "aborted"

vars == <<problem, contexts, work, result>>

inner_context == contexts[Len(contexts)]

Item(e, a) == [expected |-> e, arg |-> a]

Init ==
  /\ problem \in Problems
  /\ contexts = <<problem.outer, Empty>>
  /\ work = <<Item(problem.expected, problem.arg)>>
  /\ result = "none"

-----------------------------------------------------------------------------
(* Evaluation.                                                             *)

Value(u) == [how |-> "value", term |-> u]
Aborted == [how |-> "aborted"]
Outcomes == [how : {"value"}, term : Trees] \cup [how : {"aborted", "nullopt", "forever"}]

\* What fails once component k of a composite has been evaluated: binding a
\* comptime parameter asserts that its variable is new, a product value that its
\* type is a product type with as many members.
AssertionFails(t, chain, part, k) ==
  \/ /\ t.tag = "FunctionType" /\ k \in DOMAIN t.parameter_types
     /\ \E v \in t.parameter_types[k].comptime :
          \/ v \in t.forall \/ IsBound(chain, v)
          \/ \E l \in 1..(k - 1) : v \in t.parameter_types[l].comptime
  \/ /\ t.tag = "ProductValue" /\ k = 1
     /\ part[1].term.tag # "ProductType" \/ Len(part[1].term.members) # Len(t.members)

\* The components are evaluated one after the other, to `part'.  (The members of a
\* product value are cast by a Cast, which term.h does not declare: it is taken
\* for what is cast.)
EvaluateComposite(t, chain, part) ==
  LET Fails(k) == part[k].how # "value" \/ AssertionFails(t, chain, part, k)
      failed == {k \in DOMAIN part : Fails(k)}
      first == CHOOSE k \in failed : \A l \in failed : k <= l
  IN  CASE t.tag = "FunctionType" /\ (\E v \in t.forall : IsBound(chain, v)) -> Aborted
        [] OTHER -> IF failed = {} THEN Value(WithComponents(t, [k \in DOMAIN part |-> part[k].term]))
                    ELSE IF part[first].how = "value" THEN Aborted ELSE part[first]

\* EvaluateTerm: what a term is or how it does not become anything.  A variable is
\* what it is bound to, evaluated `again'.  The arguments of an abstraction are given
\* to a function that asserts false (unify.cpp:6-14).
EvaluateTerm(t, chain, part, again) ==
  CASE t.tag = "Variable" ->
         IF ~IsBound(chain, t) THEN Aborted
         ELSE IF LookUp(chain, t).tag = "DeferredValue" THEN Aborted ELSE again
    [] t.tag = "Application" ->
         IF t.arguments = <<>> THEN Aborted
         ELSE IF part[1].how # "value" THEN part[1]
         ELSE IF part[1].term.tag = "Abstraction" THEN Aborted ELSE [how |-> "nullopt"]
    [] t.tag = "DeferredValue" -> Aborted
    [] t.tag \in Composites -> EvaluateComposite(t, chain, part)
    [] OTHER -> Value(t)
\* What terms evaluate to, given what the variables do.
Evaluations(chain, again) ==
  LET value[t \in Trees] ==
        EvaluateTerm(t, chain, [k \in DOMAIN Components(t) |-> value[Components(t)[k]]], again[t])
  IN  value
\* Mutant: what a variable is bound to is not evaluated.
EvaluateOnce(term, chain) ==
  Evaluations(chain, [v \in BoundIn(chain) |-> Value(LookUp(chain, v))])[term]

\* It runs forever if it looks up more variables inside each other than are bound.
Evaluate(term, chain) ==
  LET again[lookups \in Nat] ==
        [v \in BoundIn(chain) |->
          IF lookups = 0 THEN [how |-> "forever"]
          ELSE Evaluations(chain, again[lookups - 1])[LookUp(chain, v)]]
  IN  Evaluations(chain, again[Cardinality(BoundIn(chain))])[term]

\* Mutant: a variable by itself is not taken to be mentioned.
MentionsBoundInside(t) == t.tag # "Variable" /\ \E v \in FreeVariables(t) : v \in DOMAIN inner_context

MentionsBound(t) == \E v \in FreeVariables(t) : v \in DOMAIN inner_context

-----------------------------------------------------------------------------
(* One call.                                                               *)

Return(how) ==
  /\ work' = <<>>
  /\ result' = how
  /\ UNCHANGED <<problem, contexts>>

\* Mutant: the call just made is left among those to come.
ContinueWithAll(items) ==
  /\ work' = items \o work
  /\ result' = IF work' = <<>> THEN "unified" ELSE "none"
  /\ UNCHANGED <<problem, contexts>>

\* Nothing was wrong: go on with these calls, or return if there are none.
Continue(items) ==
  /\ work' = items \o Tail(work)
  /\ result' = IF work' = <<>> THEN "unified" ELSE "none"
  /\ UNCHANGED <<problem, contexts>>

Unless(accepted, items) == IF accepted THEN Continue(items) ELSE Return("nullopt")

\* A forall variable takes the argument's type.
BindVariable(v, a) ==
  IF v \notin problem.forall \/ ~MayBind(contexts, v) THEN Return("aborted")
  ELSE /\ contexts' = Bind(contexts, v, a)
       /\ work' = Tail(work)
       /\ result' = IF Len(work) = 1 THEN "unified" ELSE "none"
       /\ UNCHANGED problem

\* Mutant: the parameter types are not compared.
CompareReturnTypes(e, a) ==
  LET n == Len(e.parameter_types)
  IN  Unless(a.tag = "FunctionType" /\ Len(a.parameter_types) = n, <<Item(e.return_type, a.return_type)>>)

\* A parameter that must be comptime is refused when its turn comes: an item
\* without an argument stands for that.
Refused == [refused |-> TRUE]
CompareFunctionTypes(e, a) ==
  LET n == Len(e.parameter_types)
      Parameter(k) ==
        IF a.parameter_types[k].comptime # {} /\ e.parameter_types[k].comptime = {}
        THEN Refused
        ELSE Item(e.parameter_types[k].type, a.parameter_types[k].type)
  IN  IF a.tag # "FunctionType" \/ Len(a.parameter_types) # n THEN Return("nullopt")
      ELSE Continue([k \in 1..n |-> Parameter(k)] \o <<Item(e.return_type, a.return_type)>>)

\* Maps are gone through in the order of their iteration.  (At the end of one the
\* place in the other is compared with the wrong end, unify.cpp:142, which is undefined;
\* both have as many members, and the ends are taken to be equal.)
CompareProductValues(e, a) ==
  LET n == Len(e.members)
      Member(k) == IF e.members[k].name # a.members[k].name THEN Refused
                   ELSE Item(e.members[k].value, a.members[k].value)
  IN  IF a.tag # "ProductValue" \/ Len(a.members) # n THEN Return("nullopt")
      ELSE Continue(<<Item(e.type, a.type)>> \o [k \in 1..n |-> Member(k)])

CompareNumbers(e, a) ==
  IF a.tag # "NumericLiteral" THEN Return("nullopt")
  ELSE LET order == Compare(e.literal, a.literal)
       IN  IF order = "undefined" THEN Return("aborted") ELSE Unless(order = "Equal", <<>>)

\* The switch over the expected type, evaluated if need be.
Switch(e, a) ==
  CASE e.tag \in {"Abstraction", "LetIns", "TypeOfAbstraction", "CppTerm", "Application",
                  "DeferredValue"} -> Return("aborted")
    [] e.tag = "Variable" -> BindVariable(e, a)
    [] e.tag \in {"StringLiteral", "SimpleTypeTerm", "NamedType", "ProductType"} ->
         Unless(e = a, <<>>)
    [] e.tag = "NumericLiteral" -> CompareNumbers(e, a)
    [] e.tag = "UnitLikeValue" ->
         IF a.tag = "UnitLikeValue" THEN Continue(<<Item(e.type, a.type)>>) ELSE Return("nullopt")
    [] e.tag = "ProductValue" -> CompareProductValues(e, a)
    [] e.tag = "FunctionType" -> CompareFunctionTypes(e, a)

UnifyExpectedTypeToArgType ==
  /\ result = "none" /\ Head(work) # Refused
  /\ LET e == Head(work).expected
         a == Head(work).arg
         evaluated == Evaluate(e, contexts)
     IN  IF ~Supported(e) THEN Return("aborted")
         ELSE IF ~MentionsBound(e) THEN Switch(e, a)
         ELSE IF evaluated.how = "value" THEN Switch(evaluated.term, a)
         ELSE /\ evaluated.how # "forever"
              /\ Return(evaluated.how)

RefuseItem ==
  /\ result = "none" /\ Head(work) = Refused
  /\ Return("nullopt")

Next == UnifyExpectedTypeToArgType \/ RefuseItem

Spec == Init /\ [][Next]_vars

\* One call runs until it returns; an evaluation without end is no step.
FairSpec == Spec /\ WF_vars(Next)

-----------------------------------------------------------------------------
(* Properties.                                                             *)

\* An argument's type matches an expected one if they are equal, except that a
\* parameter may be comptime where one is expected, and the forall variables are
\* not looked at; maps are maps.
Matches[e \in Trees] ==
  [a \in Trees |->
    /\ e.tag = a.tag
    /\ CASE e.tag = "FunctionType" ->
              /\ Len(e.parameter_types) = Len(a.parameter_types)
              /\ \A k \in DOMAIN e.parameter_types :
                   /\ e.parameter_types[k].comptime = {} => a.parameter_types[k].comptime = {}
                   /\ Matches[e.parameter_types[k].type][a.parameter_types[k].type]
              /\ Matches[e.return_type][a.return_type]
         [] e.tag = "UnitLikeValue" -> Matches[e.type][a.type]
         [] e.tag = "ProductValue" ->
              /\ Len(e.members) = Len(a.members)
              /\ Matches[e.type][a.type]
              /\ \A k \in DOMAIN e.members : \E l \in DOMAIN a.members :
                   /\ e.members[k].name = a.members[l].name
                   /\ Matches[e.members[k].value][a.members[l].value]
         [] OTHER -> e = a]

\* A term with trees for variables.
Substituted(map, term) ==
  LET substituted[t \in Trees] ==
        IF t \in DOMAIN map THEN map[t]
        ELSE IF t.tag \in Composites
             THEN WithComponents(t, [k \in DOMAIN Components(t) |-> substituted[Components(t)[k]]])
        ELSE t
  IN  substituted[term]

\* A solution gives to each bound variable what it is bound to, under the solution.
bindings == [v \in BoundIn(contexts) |-> LookUp(contexts, v)]
Solves(map) ==
  \A v \in DOMAIN bindings : v \in DOMAIN map /\ map[v] = Substituted(map, bindings[v])
\* The bindings applied to themselves, to the end: a solution, if there is one.
Resolution ==
  LET resolved[n \in Nat] ==
        IF n = 0 THEN bindings
        ELSE [v \in DOMAIN bindings |-> Substituted(resolved[n - 1], bindings[v])]
  IN  resolved[Cardinality(DOMAIN bindings)]

\* When the call succeeds, its bindings make the argument's type one that the
\* expected type matches (unless they are circular).
BindingsUnify ==
  result = "unified" /\ Solves(Resolution) =>
    Matches[Substituted(Resolution, problem.expected)][Substituted(Resolution, problem.arg)]

\* What each variable of an expected type is met with first in an argument's type.
FirstMet[e \in Trees] ==
  [a \in Trees |->
    LET es == Components(e)
        as == Components(a)
        met == [k \in DOMAIN es |-> FirstMet[es[k]][as[k]]]
        FirstWith(v) == CHOOSE k \in DOMAIN es : /\ v \in DOMAIN met[k]
                                                 /\ \A l \in 1..(k - 1) : v \notin DOMAIN met[l]
    IN  IF e.tag = "Variable" THEN [v \in {e} |-> a]
        ELSE IF e.tag # a.tag \/ Len(es) # Len(as) THEN Empty
        ELSE [v \in UNION {DOMAIN met[k] : k \in DOMAIN es} |-> met[FirstWith(v)][v]]]
Matchable(e, a) == Matches[Substituted(FirstMet[e][a], e)][a]

\* The call refuses an argument only if what its variables are met with first does
\* not make it match.  This leaves out arguments with variables, and what is known to
\* be missing: applications, product types whose members are to be found, and maps,
\* which may have their entries in two orders.
Ground(t) == \A u \in Within[t] : u.tag # "Variable"
Comparable(t) ==
  \A u \in Within[t] :
    /\ u.tag # "Application"
    /\ u.tag = "ProductType" => Ground(u)
    /\ u.tag = "ProductValue" => Len(u.members) <= 1
RefusesOnlyMismatches ==
  /\ result = "nullopt"
  /\ Comparable(problem.expected) /\ Comparable(problem.arg) /\ Ground(problem.arg)
  /\ DOMAIN problem.outer \cap Within[problem.expected] = {}
  => ~Matchable(problem.expected, problem.arg)

\* A part whose variables are bound in part cannot be evaluated: the call stops
\* the program although the types may match (unify.cpp:42-49, evaluateterm.cpp:276).
Mixes[t \in Trees] ==
  [before \in SUBSET Variables |->
    LET mentioned == FreeVariables(t)
        us == Components(t)
    IN  t.tag # "Variable" /\
        \/ mentioned \cap before # {} /\ ~(mentioned \subseteq before)
        \/ \E k \in DOMAIN us :
             Mixes[us[k]][before \cup UNION {FreeVariables(us[l]) : l \in 1..(k - 1)}]]
\* Types as inference makes them, of those that can be evaluated and compared.
Plain(t) ==
  \A u \in Within[t] :
    /\ u.tag \notin {"Application", "Abstraction", "LetIns", "DeferredValue"} \cup Unmovable
    /\ u.tag = "NumericLiteral" => u.literal # MIN_INT
    /\ u.tag = "FunctionType" => u.forall = {} /\ Comptimes(u) = {}
    /\ u.tag = "ProductValue" =>
         u.type.tag = "ProductType" /\ Ground(u.type) /\ Len(u.type.members) = Len(u.members)
AbortsOnlyOnMixedParts ==
  /\ result = "aborted"
  /\ Plain(problem.expected) /\ Plain(problem.arg) /\ Ground(problem.arg)
  /\ FreeVariables(problem.expected) \subseteq problem.forall
  /\ DOMAIN problem.outer \cap problem.forall = {}
  => Mixes[problem.expected][{}]

\* "All variables of the inner context are replaced with their values before entering
\* this switch" (unify.cpp:76-77): what an expected type evaluates to mentions no bound
\* variable, although what a variable is bound to may mention others.
BoundVariablesAreReplaced ==
  result = "none" /\ Head(work) # Refused /\ Supported(Head(work).expected) =>
    LET evaluated == Evaluate(Head(work).expected, contexts)
    IN  evaluated.how = "value" => ~MentionsBound(evaluated.term)

\* A call returns if the argument's type has no variables.  (With one, it need
\* not: a variable bound to a type that it occurs in is evaluated without end.)
ReturnsForGroundTypes == Ground(problem.arg) => <>(result # "none")
=============================================================================
