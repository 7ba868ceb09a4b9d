------------------------------- MODULE TermStore -------------------------------
(***************************************************************************)
(* The store of terms of src2 (store.cpp), its client one plan of calls.   *)
(* A term's address is its place on the heap, where every term is          *)
(* canonical.  GetFreeVariables (freevariablesofterm.cpp) and its cache,   *)
(* MakeAbstraction, and the cache of the types of terms in contexts are    *)
(* here too.  Making a type is the client's: while it does, it may call    *)
(* again.                                                                  *)
(***************************************************************************)
EXTENDS Terms, FiniteSets, SequencesExt

CONSTANTS
  Plans,      \* sequences of calls, operands given by the place of their result
  Types       \* the results make_type_fn may have, Nothing among them

Nothing == 0
\* Store::Store makes six terms.
Predefined == 6
unit_type == 2

\* A call whose operands are places of results.  An abstraction and a variable have
\* calls of their own.
Call(S) ==
  [call : {"variable"}]
    \cup [call : {"make"}, term : {t \in TermOver(S) : t.tag \notin {"Variable", "Abstraction"}}]
    \cup [call : {"abstraction"}, term : {t \in TermOver(S) : t.tag = "Abstraction"}]
    \cup [call : {"free"}, of : S]
    \cup [call : {"type"}, term : S, bindings : Seq(S)]

\* The first n places, after the first k calls of p: a client passes only what it
\* was given.
Given(p, k) == Predefined + Cardinality({j \in 1..k : p[j].call \in {"variable", "make", "abstraction"}})
ASSUME PlansAssumption ==
  \A p \in Plans :
    /\ p \in Seq(Call(Nat))
    /\ \A k \in DOMAIN p : p[k] \in Call(1..Given(p, k - 1))

VARIABLES
  plan,       \* the calls to come
  heap,       \* canonical_terms, by address
  results,    \* addresses the client was given
  asked,      \* the trees it had asked for
  free_variables_of_terms,
  types_of_terms_in_context,   \* the entries <<key, type>>
  making,     \* keys whose make_type_fn is under way, innermost last
  answers,    \* keys and the types given for them
  status      \* "running", "refused" or "stopped"

storeVars == <<heap, results, asked>>
typeVars == <<types_of_terms_in_context, making, answers>>
vars == <<plan, storeVars, free_variables_of_terms, typeVars, status>>

\* The whole term below an address, maps as maps and without the forall variables
\* of function types.
Tree ==
  LET tree[a \in DOMAIN heap] == Compared(Renamed(heap[a], tree))
  IN  tree

Init ==
  /\ plan \in Plans
  /\ heap = << SimpleTypeTerm("TypeOfTypes"), SimpleTypeTerm("Unit"),
               SimpleTypeTerm("StringLiteral"), SimpleTypeTerm("NumericLiteral"),
               DeferredValue(1, "Comptime"), DeferredValue(5, "Comptime") >>
  /\ results = [a \in 1..Predefined |-> a]
  /\ asked = [a \in 1..Predefined |-> Tree[a]]
  /\ free_variables_of_terms = [a \in {} |-> {}]
  /\ types_of_terms_in_context = {}
  /\ making = <<>>
  /\ answers = {}
  /\ status = "running"

Calls(name) == status = "running" /\ plan # <<>> /\ Head(plan).call = name

Stop ==
  /\ status' = "stopped"
  /\ UNCHANGED <<plan, storeVars, free_variables_of_terms, typeVars>>

-----------------------------------------------------------------------------
(* Canonical terms.                                                        *)

MakeNewVariable ==
  /\ Calls("variable")
  /\ LET v == Variable(Len(heap) + 1)
     IN  /\ heap' = Append(heap, v)
         /\ asked' = Append(asked, v)
  /\ results' = Append(results, Len(heap'))
  /\ plan' = Tail(plan)
  /\ UNCHANGED <<free_variables_of_terms, typeVars, status>>

\* Mutant: neither hash nor equality looks at the comptime parameters.
FoundByTypesOnly(t) ==
  LET TypesOnly(u) == IF u.tag = "FunctionType"
                      THEN [[u EXCEPT !.forall = {}] EXCEPT
                              !.parameter_types = [k \in DOMAIN @ |-> @[k].type]]
                      ELSE u
  IN  {a \in DOMAIN heap : TypesOnly(heap[a]) = TypesOnly(t)}

\* The set looks among the terms with the same hash.
Found(t) == {a \in DOMAIN heap : Hashed(heap[a]) = Hashed(t) /\ TermEqual(heap[a], t)}

\* MoveToHeap casts the type of a product value to a product type.
Moves(t) ==
  /\ t.tag \notin Unmovable
  /\ t.tag = "ProductValue" => heap[t.type].tag = "ProductType"

\* MakeCanonical of a term t, the client having asked for a tree.
Canonical(t, tree) ==
  LET found == Found(t)
  IN  /\ heap' = IF found = {} THEN Append(heap, t) ELSE heap
      /\ results' = Append(results, IF found = {} THEN Len(heap) + 1 ELSE CHOOSE a \in found : TRUE)
      /\ asked' = Append(asked, tree)
      /\ plan' = Tail(plan)
      /\ UNCHANGED <<typeVars, status>>

\* A term that is not there and cannot be moved ends the program.
MakeCanonical ==
  /\ Calls("make")
  /\ LET t == Renamed(Head(plan).term, results)
     IN  IF Moves(t) \/ Found(t) # {}
         THEN /\ Canonical(t, Compared(Renamed(Head(plan).term, asked)))
              /\ UNCHANGED free_variables_of_terms
         ELSE Stop

-----------------------------------------------------------------------------
(* Free variables.                                                         *)

\* The terms whose free variables GetFreeVariablesCore asks for.
Parts(t) ==
  CASE t.tag \in Literals \cup Unmovable \cup {"Variable", "DeferredValue"} -> {}
    [] t.tag = "Application" -> {t.function} \cup Range(t.arguments)
    [] t.tag = "UnitLikeValue" -> {t.type}
    [] t.tag = "LetIns" -> {b.value : b \in Range(t.bound)} \cup {t.body}
    [] t.tag = "Abstraction" ->
         {b.value : b \in Range(t.bound) \cup Range(t.parameters)} \cup {t.body}
    [] t.tag = "FunctionType" -> {p.type : p \in Range(t.parameter_types)} \cup {t.return_type}
    [] t.tag \in Products -> {m.value : m \in Range(t.members)}

\* A let-in is cast to an abstraction, a deferred value is asserted not to be
\* here, and erasing a range of another set is undefined if it is not empty.
Unsupported(t) ==
  \/ t.tag \in Unmovable \cup {"LetIns", "DeferredValue"}
  \/ t.tag = "FunctionType" /\ t.forall # {}
  \/ t.tag = "FunctionType" /\ \E p \in Range(t.parameter_types) : ~(p.comptime \subseteq t.forall)

\* The addresses below one, up to those in a set.
BelowUpTo(ends) ==
  LET below[a \in DOMAIN heap] ==
        IF a \in ends THEN {} ELSE {a} \cup UNION {below[b] : b \in Parts(heap[a])}
  IN  below

\* The addresses GetFreeVariables comes by: it stops at what is cached.
Visited == BelowUpTo(DOMAIN free_variables_of_terms)

\* Mutant: a parameter is free in its own abstraction.
CoreWithoutErase(t, free) ==
  CASE t.tag = "Abstraction" ->
         free[t.body] \cup UNION {free[p.value] : p \in Range(t.parameters)}
           \cup UNION {free[b.value] : b \in Range(t.bound)}
    [] t.tag = "Variable" -> {t.instance}
    [] OTHER -> UNION {free[b] : b \in Parts(t)}

\* The loop backwards over the bound variables.
BoundErased(bs, free, fvs) ==
  LET from[k \in 1..(Len(bs) + 1)] ==
        IF k > Len(bs) THEN fvs
        ELSE (from[k + 1] \ {bs[k].variable}) \cup free[bs[k].value]
  IN  from[1]

\* GetFreeVariablesCore, given the free variables of the parts.
Core(t, free) ==
  CASE t.tag = "Abstraction" ->
         LET OfTypes == UNION {free[p.value] : p \in Range(t.parameters)}
             Parameters == {p.variable : p \in Range(t.parameters)}
         IN  BoundErased(t.bound, free, (free[t.body] \cup OfTypes) \ Parameters)
    [] t.tag = "Variable" -> {t.instance}
    [] OTHER -> UNION {free[b] : b \in Parts(t)}

\* What GetFreeVariables returns, and what it leaves in the cache.
FreeVariables ==
  LET free[a \in DOMAIN heap] ==
        IF a \in DOMAIN free_variables_of_terms THEN free_variables_of_terms[a]
        ELSE Core(heap[a], free)
  IN  free
Cached(S) == {a \in UNION {Visited[b] : b \in S} : heap[a].tag \notin Literals \cup {"UnitLikeValue"}}
\* Mutant: only the terms asked about are looked at.
AllSupportedAtTop(S) == \A a \in S : ~Unsupported(heap[a])

AllSupported(S) == \A a \in UNION {Visited[b] : b \in S} : ~Unsupported(heap[a])
CacheFreeVariables(S) ==
  free_variables_of_terms' =
    [a \in DOMAIN free_variables_of_terms \cup Cached(S) |-> FreeVariables[a]]

GetFreeVariables ==
  /\ Calls("free")
  /\ LET a == results[Head(plan).of]
     IN  IF AllSupported({a})
         THEN /\ CacheFreeVariables({a})
              /\ plan' = Tail(plan)
              /\ UNCHANGED <<storeVars, typeVars, status>>
         ELSE Stop

\* The abstraction as MakeAbstraction sees it (module Abstraction).
Scoped(t) == INSTANCE Abstraction WITH
  Variables <- Nat, Requests <- {},
  request <- [forall |-> {}, body |-> FreeVariables[t.body],
              bound |-> [k \in DOMAIN t.bound |->
                [variable |-> t.bound[k].variable, fvs |-> FreeVariables[t.bound[k].value]]],
              parameters |-> [k \in DOMAIN t.parameters |->
                [variable |-> t.parameters[k].variable, fvs |-> FreeVariables[t.parameters[k].value]]]],
  pc <- "exit", i <- 0, bound_variables_so_far <- {}, unbound_forall_variables_so_far <- {},
  fvs <- {}, result <- "none"

\* The terms whose free variables it asks for, in order, and whether the first n
\* binders are legal.
Operands(t) == <<t.body>> \o [k \in DOMAIN t.bound |-> t.bound[k].value]
                 \o [k \in DOMAIN t.parameters |-> t.parameters[k].value]
LegalUpTo(t, n) ==
  LET nb == Len(t.bound)
  IN  Scoped(t)!BoundInOrder(IF n < nb THEN n ELSE nb) /\ Scoped(t)!ParametersInOrder(n - nb)

\* The only way to an abstraction.  It is refused by an ASSERT_ELSE, which ends the
\* program if assertions are enabled.  (One that is refused may leave fewer terms in
\* the cache: the client goes no further.)
MakeAbstraction ==
  /\ Calls("abstraction")
  /\ LET t == Renamed(Head(plan).term, results)
         stops == /\ t.parameters # <<>>
                  /\ \E n \in DOMAIN Operands(t) :
                       ~AllSupported({Operands(t)[n]}) /\ LegalUpTo(t, n - 2)
     IN  \/ stops /\ Stop
         \/ /\ ~stops /\ ~Scoped(t)!WellScoped
            /\ status' = "refused"
            /\ UNCHANGED <<plan, storeVars, free_variables_of_terms, typeVars>>
         \/ /\ ~stops /\ Scoped(t)!WellScoped
            /\ CacheFreeVariables(Parts(t))
            /\ Canonical(t, Compared(Renamed(Head(plan).term, asked)))

-----------------------------------------------------------------------------
(* Types in contexts.  A key is a term and the variables bound, in the     *)
(* order in which hashing goes through them.                               *)

SameKey(k, l) == k.term = l.term /\ Range(k.bindings) = Range(l.bindings)

\* Mutant: the type just made replaces the entry there is.
InsertOrAssign(key, type) == {e \in types_of_terms_in_context : e[1] # key} \cup {<<key, type>>}

\* insert does nothing if there is an equal key with the same hash.
Insert(key, type) ==
  IF \E e \in types_of_terms_in_context : e[1] = key
  THEN types_of_terms_in_context
  ELSE types_of_terms_in_context \cup {<<key, type>>}
TypeIn(entries, key) == (CHOOSE e \in entries : e[1] = key)[2]

GetOrInsertTypeOfTermInContext ==
  /\ Calls("type")
  /\ LET key == [term |-> results[Head(plan).term],
                 bindings |-> [k \in DOMAIN Head(plan).bindings |-> results[Head(plan).bindings[k]]]]
     IN  IF \E e \in types_of_terms_in_context : e[1] = key
         THEN /\ answers' = answers \cup {<<key, TypeIn(types_of_terms_in_context, key)>>}
              /\ UNCHANGED making
         ELSE /\ making' = Append(making, key)
              /\ UNCHANGED answers
  /\ plan' = Tail(plan)
  /\ UNCHANGED <<storeVars, free_variables_of_terms, types_of_terms_in_context, status>>

TypeMade ==
  /\ status = "running" /\ making # <<>>
  /\ \E type \in Types :
       \/ type = Nothing /\ UNCHANGED <<types_of_terms_in_context, answers>>
       \/ /\ type # Nothing
          /\ types_of_terms_in_context' = Insert(Last(making), type)
          /\ answers' = answers \cup
               {<<Last(making), TypeIn(types_of_terms_in_context', Last(making))>>}
  /\ making' = Front(making)
  /\ UNCHANGED <<plan, storeVars, free_variables_of_terms, status>>

\* A client that is done, or that did not get its abstraction, asks no more.
Terminated ==
  /\ status # "running" \/ (plan = <<>> /\ making = <<>>)
  /\ UNCHANGED vars

Next ==
  \/ MakeNewVariable \/ MakeCanonical \/ MakeAbstraction \/ GetFreeVariables
  \/ GetOrInsertTypeOfTermInContext \/ TypeMade
  \/ Terminated

Spec == Init /\ [][Next]_vars

-----------------------------------------------------------------------------
(* Properties.                                                             *)

\* The terms a term is made of, and whether an unordered map of two or more entries
\* is among them.
Mentions(t, b) == Renamed(t, [c \in Nat |-> IF c = b THEN 0 ELSE c]) # t
Holds ==
  LET holds[a \in DOMAIN heap] ==
        {a} \cup UNION {holds[b] : b \in {c \in 1..(a - 1) : Mentions(heap[a], c)}}
  IN  holds
HoldsWideMap(a) == \E b \in Holds[a] : heap[b].tag \in Products /\ Len(heap[b].members) > 1

\* Terms are compared by their addresses everywhere in src2: one tree must have
\* one address.  It does, unless the tree holds an unordered map with several
\* entries, which is hashed in the order of its iteration (term.cpp:255-258,
\* common.h:166-172).
OneAddressPerTree ==
  \A a, b \in DOMAIN heap :
    Tree[a] = Tree[b] /\ ~HoldsWideMap(a) => a = b

\* A client gets the term it asked for, whatever was merged below it; only the
\* forall variables of function types may be another's (term.cpp:246-250).
GivenAsAsked == \A k \in DOMAIN results : Tree[results[k]] = asked[k]

\* The free variables of a term by the textbook, from its whole tree and no cache.
Binds(binders, k) == {binders[j].variable : j \in 1..k}
TextbookAbstraction(t, free) ==
  LET Bound == Binds(t.bound, Len(t.bound))
      Values == UNION {free[t.bound[k].value] \ Binds(t.bound, k - 1) : k \in DOMAIN t.bound}
      OfTypes == UNION {free[t.parameters[k].value] \ Binds(t.parameters, k - 1) : k \in DOMAIN t.parameters}
  IN  Values \cup (OfTypes \ Bound)
        \cup (free[t.body] \ (Bound \cup Binds(t.parameters, Len(t.parameters))))
Textbook(a, t, free) ==
  CASE t.tag = "Variable" -> {a}
    [] t.tag = "Abstraction" -> TextbookAbstraction(t, free)
    [] OTHER -> UNION {free[b] : b \in Parts(t)}
TextbookFreeVariables ==
  LET free[a \in DOMAIN heap] == Textbook(a, heap[a], free) IN free

\* The cache says what the textbook says, of every term that was looked at on the
\* way (freevariablesofterm.cpp:98-121).
CacheIsTextbook ==
  \A a \in DOMAIN free_variables_of_terms : free_variables_of_terms[a] = TextbookFreeVariables[a]

\* A term in a context never changes its type, although its type may be made
\* again while it is being made; but contexts of two or more variables that were
\* filled in other orders count as different (store.cpp:114-129, context.h:31-35).
OneTypePerTermInContext ==
  \A x, y \in answers :
    SameKey(x[1], y[1]) /\ Len(x[1].bindings) < 2 /\ Len(y[1].bindings) < 2 => x[2] = y[2]

\* The calls that end the program are the ones a let-in, a deferred value, a
\* function type with forall or comptime variables or a term without a case in
\* MoveToHeap gets into (freevariablesofterm.cpp:31,58,74,83; store.cpp:47-78).
Below == BelowUpTo({})
AsksTheUnsupported ==
  LET c == Head(plan)
      asks == CASE c.call = "free" -> {results[c.of]}
                [] c.call = "abstraction" -> Parts(Renamed(c.term, results))
                [] OTHER -> {}
  IN  \/ \E a \in UNION {Below[b] : b \in asks} : Unsupported(heap[a])
      \/ c.call = "make" /\ ~Moves(Renamed(c.term, results))
CachedAreSupported ==
  \A a \in DOMAIN free_variables_of_terms : \A b \in Below[a] : ~Unsupported(heap[b])
StopsAtTheUnsupported ==
  /\ status = "stopped" => AsksTheUnsupported
  /\ CachedAreSupported
=============================================================================
