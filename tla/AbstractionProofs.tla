--------------------------- MODULE AbstractionProofs ---------------------------
(***************************************************************************)
(* MakeAbstraction makes exactly the well scoped abstractions, and the     *)
(* free variables computed for those are the textbook ones, for every set  *)
(* of variables and every number of binders.                               *)
(***************************************************************************)
EXTENDS Abstraction, TLAPS

-----------------------------------------------------------------------------
(* The inductive invariant.  While binders are checked, the set of what is *)
(* known is the context and the binders seen; while free variables are     *)
(* collected, the set lies between the context and the binders that are    *)
(* still to be erased.                                                     *)

Checking ==
  pc \in {"bound", "parameters"} =>
    /\ parameters # <<>> /\ request.forall = {} /\ unbound_forall_variables_so_far = {}
    /\ result = "none"

CheckingBound ==
  pc = "bound" =>
    /\ bound_variables_so_far = ContextVariables \cup Introduced(bound, i)
    /\ BoundInOrder(i)

CheckingParameters ==
  pc = "parameters" =>
    /\ bound_variables_so_far = ContextVariables \cup All(bound) \cup Introduced(parameters, i)
    /\ BoundInOrder(Len(bound))
    /\ ParametersInOrder(i)

Collecting ==
  pc \in {"types", "erase", "values"} =>
    /\ result = "made" /\ request.forall = {} /\ WellScoped
    /\ ContextVariables \subseteq fvs

\* What may still be in the set beside the context.
StillBound ==
  IF pc = "types" THEN All(bound) \cup All(parameters)
  ELSE IF pc = "erase" THEN All(bound) \cup (All(parameters) \ Introduced(parameters, i))
  ELSE Introduced(bound, i)
CollectedBounds ==
  pc \in {"types", "erase", "values"} => fvs \subseteq ContextVariables \cup StillBound

IInv ==
  /\ TypeOK
  /\ pc = "context" => i = 0 /\ result = "none"
  /\ Checking /\ CheckingBound /\ CheckingParameters
  /\ Collecting /\ CollectedBounds
  /\ MadeIfWellScoped /\ FreeVariablesAreTextbook

-----------------------------------------------------------------------------
(* Facts about requests.                                                   *)

LEMMA RequestType ==
  ASSUME TypeOK
  PROVE  /\ bound \in Seq(Binder) /\ parameters \in Seq(Binder)
         /\ request.body \in SUBSET Variables /\ request.forall \in SUBSET Variables
         /\ Len(bound) \in Nat /\ Len(parameters) \in Nat
         /\ \A j \in 1..Len(bound) : bound[j] \in Binder
         /\ \A j \in 1..Len(parameters) : parameters[j] \in Binder
BY DEF TypeOK, Request, bound, parameters

LEMMA IntroducedNext ==
  ASSUME NEW binders, NEW k \in Nat
  PROVE  Introduced(binders, k + 1) = Introduced(binders, k) \cup {binders[k + 1].variable}
BY DEF Introduced

LEMMA IntroducedNone == ASSUME NEW binders PROVE Introduced(binders, 0) = {}
BY DEF Introduced

\* No variable of the context is a binder.
LEMMA ContextIsFree ==
  ContextVariables \cap All(bound) = {} /\ ContextVariables \cap All(parameters) = {}
BY DEF ContextVariables

LEMMA IntroducedInAll ==
  ASSUME NEW binders, Len(binders) \in Nat, NEW k \in 0..Len(binders)
  PROVE  /\ Introduced(binders, k) \subseteq All(binders)
         /\ k # 0 => binders[k].variable \in All(binders)
BY DEF Introduced, All

\* In a well scoped abstraction nothing outside the binders is mentioned but the
\* context, and the body mentions the context.
LEMMA TextbookIsContext ==
  ASSUME TypeOK, WellScoped
  PROVE  TextbookFreeVariables = ContextVariables
<1>1. \A k \in 1..Len(bound) :
        bound[k].fvs \ Introduced(bound, k - 1) \subseteq ContextVariables
  BY DEF WellScoped, BoundInOrder
<1>2. \A k \in 1..Len(parameters) :
        parameters[k].fvs \ (All(bound) \cup Introduced(parameters, k - 1))
          \subseteq ContextVariables
  BY DEF WellScoped, ParametersInOrder
<1> HIDE DEF WellScoped
<1>3. UNION {bound[k].fvs \ Introduced(bound, k - 1) : k \in 1..Len(bound)}
        \subseteq ContextVariables
  BY <1>1
<1>4. UNION {parameters[k].fvs \ (All(bound) \cup Introduced(parameters, k - 1)) :
               k \in 1..Len(parameters)} \subseteq ContextVariables
  BY <1>2
<1>5. QED
  BY <1>3, <1>4 DEF TextbookFreeVariables, ContextVariables

-----------------------------------------------------------------------------
(* The steps.                                                              *)

LEMMA InitInv == ASSUME Init PROVE IInv
<1>1. TypeOK
  BY RequestsAssumption DEF Init, TypeOK
<1>2. QED
  BY <1>1 DEF Init, IInv, Checking, CheckingBound, CheckingParameters, Collecting,
     CollectedBounds, MadeIfWellScoped, FreeVariablesAreTextbook

\* A return keeps the invariant if its result is right.
LEMMA ReturnInv ==
  ASSUME IInv, NEW how \in {"made", "nullopt", "undefined"}, Return(how),
         request.forall = {} \/ parameters = <<>> => (how = "made" <=> WellScoped),
         how = "made" => fvs = TextbookFreeVariables /\ fvs = ContextVariables
  PROVE  IInv'
<1>1. /\ pc' = "exit" /\ result' = how /\ request' = request /\ i' = i /\ fvs' = fvs
      /\ bound_variables_so_far' = bound_variables_so_far
      /\ unbound_forall_variables_so_far' = unbound_forall_variables_so_far
  BY DEF Return, makeVars
<1>2. TypeOK'
  BY <1>1 DEF IInv, TypeOK
<1>3. (Checking /\ CheckingBound /\ CheckingParameters /\ Collecting /\ CollectedBounds)'
  BY <1>1 DEF Checking, CheckingBound, CheckingParameters, Collecting, CollectedBounds
<1>4. /\ WellScoped' <=> WellScoped
      /\ TextbookFreeVariables' = TextbookFreeVariables
      /\ ContextVariables' = ContextVariables
      /\ parameters' = parameters
  BY <1>1 DEF WellScoped, BoundInOrder, ParametersInOrder, ContextVariables, bound, parameters,
     TextbookFreeVariables, All, Introduced
<1>5. (MadeIfWellScoped /\ FreeVariablesAreTextbook)'
  BY <1>1, <1>4 DEF MadeIfWellScoped, FreeVariablesAreTextbook
<1>6. QED
  BY <1>1, <1>2, <1>3, <1>5 DEF IInv

\* A step inside the loops: the request is the same, so is what is said of it.
LEMMA SameRequest ==
  ASSUME request' = request
  PROVE  /\ bound' = bound /\ parameters' = parameters
         /\ ContextVariables' = ContextVariables
         /\ \A k : BoundInOrder(k)' <=> BoundInOrder(k)
         /\ \A k : ParametersInOrder(k)' <=> ParametersInOrder(k)
         /\ WellScoped' <=> WellScoped
BY DEF WellScoped, BoundInOrder, ParametersInOrder, ContextVariables, bound, parameters,
   All, Introduced

\* The steps of MakeAbstraction go on only without forall variables.
LEMMA ContextInv == ASSUME IInv, Context PROVE IInv'
<1>1. CASE parameters = <<>> /\ Return("nullopt")
  <2>1. ~WellScoped
    BY <1>1 DEF WellScoped
  <2>2. QED
    BY <1>1, <2>1, ReturnInv
<1>2. CASE parameters # <<>> /\ request.forall # {} /\ Return("undefined")
  BY <1>2, ReturnInv
<1>3. CASE parameters # <<>> /\ request.forall = {} /\ ~Return("nullopt") /\ pc' = "bound"
  <2>1. /\ i = 0 /\ i' = 0 /\ result = "none" /\ result' = "none" /\ request' = request
        /\ fvs' = fvs /\ bound_variables_so_far' = ContextVariables
        /\ unbound_forall_variables_so_far' = {}
    BY <1>3 DEF Context, Return, IInv, ContextVariables
  <2>2. TypeOK'
    BY <1>3, <2>1, RequestType, SameRequest DEF IInv, TypeOK, ContextVariables
  <2>3. Introduced(bound, 0) = {}
    BY IntroducedNone
  <2>4. BoundInOrder(0)
    BY DEF BoundInOrder
  <2>5. (Checking /\ CheckingBound /\ CheckingParameters /\ Collecting /\ CollectedBounds)'
    BY <1>3, <2>1, <2>3, <2>4, SameRequest
       DEF Checking, CheckingBound, CheckingParameters, Collecting, CollectedBounds
  <2>6. QED
    BY <1>3, <2>1, <2>2, <2>5
       DEF IInv, MadeIfWellScoped, FreeVariablesAreTextbook
<1>4. QED
  BY <1>1, <1>2, <1>3 DEF Context, Return

LEMMA BindVariableInv == ASSUME IInv, BindVariable PROVE IInv'
<1> DEFINE bv == bound[i + 1]
           legal == bv.fvs \subseteq bound_variables_so_far /\ bv.variable \notin bound_variables_so_far
<1>1. /\ pc = "bound" /\ i \in Nat /\ i < Len(bound) /\ Len(bound) \in Nat /\ i + 1 \in 1..Len(bound)
      /\ parameters # <<>> /\ request.forall = {} /\ unbound_forall_variables_so_far = {}
      /\ result = "none"
      /\ bound_variables_so_far = ContextVariables \cup Introduced(bound, i)
      /\ BoundInOrder(i)
      /\ bv \in Binder
  BY RequestType DEF BindVariable, IInv, Checking, CheckingBound, TypeOK
<1>2. bv.variable \in All(bound) /\ bv.variable \notin ContextVariables
  BY <1>1, IntroducedInAll, ContextIsFree
<1>3. BoundInOrder(i + 1) <=> legal
  <2>1. BoundInOrder(i + 1) <=> /\ BoundInOrder(i)
                               /\ bv.fvs \subseteq ContextVariables \cup Introduced(bound, i)
                               /\ bv.variable \notin Introduced(bound, i)
    <3>1. 1..(i + 1) = (1..i) \cup {i + 1} /\ (i + 1) - 1 = i
      BY <1>1
    <3>2. QED
      BY <3>1 DEF BoundInOrder
  <2>2. QED
    BY <2>1, <1>1, <1>2
<1>4. CASE ~legal /\ Return("nullopt")
  <2>1. ~WellScoped
    <3>1. SUFFICES ASSUME BoundInOrder(Len(bound)) PROVE FALSE
      BY DEF WellScoped
    <3>2. 1..(i + 1) \subseteq 1..Len(bound)
      BY <1>1
    <3>3. BoundInOrder(i + 1)
      BY <3>1, <3>2 DEF BoundInOrder
    <3>4. QED
      BY <3>3, <1>3, <1>4
  <2>2. QED
    BY <1>1, <1>4, <2>1, ReturnInv
<1>5. CASE legal /\ i' = i + 1
  <2>1. /\ pc' = "bound" /\ request' = request /\ result' = "none" /\ fvs' = fvs
        /\ bound_variables_so_far' = bound_variables_so_far \cup {bv.variable}
        /\ unbound_forall_variables_so_far' = {}
    BY <1>1, <1>5 DEF BindVariable, Return
  <2>2. Introduced(bound, i + 1) = Introduced(bound, i) \cup {bv.variable}
    BY <1>1, IntroducedNext
  <2>3. bv.variable \in Variables
    BY <1>1 DEF Binder
  <2>4. TypeOK'
    BY <1>1, <1>5, <2>1, <2>3, SameRequest DEF IInv, TypeOK
  <2>5. (Checking /\ CheckingBound /\ CheckingParameters /\ Collecting /\ CollectedBounds)'
    BY <1>1, <1>3, <1>5, <2>1, <2>2, SameRequest
       DEF Checking, CheckingBound, CheckingParameters, Collecting, CollectedBounds
  <2>6. QED
    BY <2>1, <2>4, <2>5
       DEF IInv, MadeIfWellScoped, FreeVariablesAreTextbook
<1>6. QED
  BY <1>1, <1>4, <1>5 DEF BindVariable, Return

LEMMA BoundDoneInv == ASSUME IInv, BoundDone PROVE IInv'
<1>1. /\ pc = "bound" /\ pc' = "parameters" /\ i = Len(bound) /\ i' = 0 /\ request' = request
      /\ result' = result /\ fvs' = fvs /\ bound_variables_so_far' = bound_variables_so_far
      /\ unbound_forall_variables_so_far' = unbound_forall_variables_so_far
  BY DEF BoundDone, makeVars
<1>2. TypeOK'
  BY <1>1, RequestType, SameRequest DEF IInv, TypeOK
<1>3. Introduced(bound, i) = All(bound) /\ Introduced(parameters, 0) = {}
  BY <1>1, IntroducedNone DEF All
<1>4. ParametersInOrder(0)
  BY DEF ParametersInOrder
<1>5. (Checking /\ CheckingBound /\ CheckingParameters /\ Collecting /\ CollectedBounds)'
  BY <1>1, <1>3, <1>4, SameRequest
     DEF IInv, Checking, CheckingBound, CheckingParameters, Collecting, CollectedBounds, All
<1>6. QED
  BY <1>1, <1>2, <1>5
     DEF IInv, MadeIfWellScoped, FreeVariablesAreTextbook

\* Without forall variables a type may not bring in new variables.
LEMMA BindParameterInv == ASSUME IInv, BindParameter PROVE IInv'
<1> DEFINE par == parameters[i + 1]
           new == par.fvs \ bound_variables_so_far
           legal == /\ new \subseteq unbound_forall_variables_so_far
                    /\ par.variable \notin bound_variables_so_far \cup new
<1>1. /\ pc = "parameters" /\ i \in Nat /\ i < Len(parameters) /\ Len(parameters) \in Nat
      /\ i + 1 \in 1..Len(parameters)
      /\ parameters # <<>> /\ request.forall = {} /\ unbound_forall_variables_so_far = {}
      /\ result = "none"
      /\ bound_variables_so_far = ContextVariables \cup All(bound) \cup Introduced(parameters, i)
      /\ BoundInOrder(Len(bound)) /\ ParametersInOrder(i)
      /\ par \in Binder
  BY RequestType DEF BindParameter, IInv, Checking, CheckingParameters, TypeOK
<1>2. par.variable \in All(parameters) /\ par.variable \notin ContextVariables
  BY <1>1, IntroducedInAll, ContextIsFree
<1>3. ParametersInOrder(i + 1) <=> legal
  <2>1. ParametersInOrder(i + 1) <=>
          /\ ParametersInOrder(i)
          /\ par.fvs \subseteq ContextVariables \cup All(bound) \cup Introduced(parameters, i)
          /\ par.variable \notin All(bound) \cup Introduced(parameters, i)
    <3>1. 1..(i + 1) = (1..i) \cup {i + 1} /\ (i + 1) - 1 = i
      BY <1>1
    <3>2. QED
      BY <3>1 DEF ParametersInOrder
  <2>2. legal <=> par.fvs \subseteq bound_variables_so_far /\ par.variable \notin bound_variables_so_far
    BY <1>1
  <2>3. QED
    BY <2>1, <2>2, <1>1, <1>2
<1>4. CASE ~legal /\ Return("nullopt")
  <2>1. ~WellScoped
    <3>1. SUFFICES ASSUME ParametersInOrder(Len(parameters)) PROVE FALSE
      BY DEF WellScoped
    <3>2. 1..(i + 1) \subseteq 1..Len(parameters)
      BY <1>1
    <3>3. ParametersInOrder(i + 1)
      BY <3>1, <3>2 DEF ParametersInOrder
    <3>4. QED
      BY <3>3, <1>3, <1>4
  <2>2. QED
    BY <1>1, <1>4, <2>1, ReturnInv
<1>5. CASE legal /\ i' = i + 1
  <2>1. /\ pc' = "parameters" /\ request' = request /\ result' = "none" /\ fvs' = fvs
        /\ bound_variables_so_far' = bound_variables_so_far \cup {par.variable}
        /\ unbound_forall_variables_so_far' = {}
    <3>1. new = {}
      BY <1>1, <1>5
    <3>2. /\ bound_variables_so_far' = bound_variables_so_far \cup new \cup {par.variable}
          /\ unbound_forall_variables_so_far' =
               unbound_forall_variables_so_far \ (new \cup {par.variable})
          /\ pc' = pc /\ request' = request /\ result' = result /\ fvs' = fvs
      BY <1>1, <1>5 DEF BindParameter, Return
    <3>3. QED
      BY <1>1, <3>1, <3>2
  <2>2. Introduced(parameters, i + 1) = Introduced(parameters, i) \cup {par.variable}
    BY <1>1, IntroducedNext
  <2>3. par.variable \in Variables
    BY <1>1 DEF Binder
  <2>4. TypeOK'
    BY <1>1, <1>5, <2>1, <2>3, SameRequest DEF IInv, TypeOK
  <2>5. (Checking /\ CheckingBound /\ CheckingParameters /\ Collecting /\ CollectedBounds)'
    <3>1. Len(bound') = Len(bound) /\ All(bound') = All(bound)
      BY <2>1, SameRequest
    <3>2. ContextVariables \cup All(bound) \cup Introduced(parameters, i + 1)
            = bound_variables_so_far'
      BY <1>1, <2>1, <2>2
    <3>3. CheckingParameters'
      BY <1>1, <1>3, <1>5, <2>1, <3>1, <3>2, SameRequest DEF CheckingParameters, All
    <3>4. QED
      BY <1>1, <2>1, <3>3, SameRequest DEF Checking, CheckingBound, Collecting, CollectedBounds
  <2>6. QED
    BY <2>1, <2>4, <2>5
       DEF IInv, MadeIfWellScoped, FreeVariablesAreTextbook
<1>6. QED
  BY <1>1, <1>4, <1>5 DEF BindParameter, Return

\* Every check has passed: the body mentions what is in scope.
LEMMA ParametersDoneInv == ASSUME IInv, ParametersDone PROVE IInv'
<1>1. /\ pc = "parameters" /\ i = Len(parameters) /\ parameters # <<>> /\ request.forall = {}
      /\ unbound_forall_variables_so_far = {}
      /\ BoundInOrder(Len(bound)) /\ ParametersInOrder(Len(parameters))
  BY DEF ParametersDone, IInv, Checking, CheckingParameters
<1>2. /\ pc' = "types" /\ i' = 0 /\ fvs' = request.body /\ result' = "made"
      /\ request' = request /\ bound_variables_so_far' = bound_variables_so_far
      /\ unbound_forall_variables_so_far' = unbound_forall_variables_so_far
  BY <1>1 DEF ParametersDone, makeVars
<1>3. WellScoped
  BY <1>1 DEF WellScoped
<1>4. TypeOK'
  BY <1>2, RequestType, SameRequest DEF IInv, TypeOK
<1>5. /\ ContextVariables \subseteq request.body
      /\ request.body \subseteq ContextVariables \cup All(bound) \cup All(parameters)
  BY DEF ContextVariables
<1>6. Checking' /\ CheckingBound' /\ CheckingParameters'
  BY <1>2 DEF Checking, CheckingBound, CheckingParameters
<1>7. Collecting'
  BY <1>1, <1>2, <1>3, <1>5, SameRequest DEF Collecting
<1>8. CollectedBounds'
  <2>1. StillBound' = All(bound) \cup All(parameters)
    BY <1>2, SameRequest DEF StillBound, All
  <2>2. QED
    BY <1>2, <1>5, <2>1, SameRequest DEF CollectedBounds
<1>9. QED
  BY <1>2, <1>4, <1>6, <1>7, <1>8
     DEF IInv, MadeIfWellScoped, FreeVariablesAreTextbook

\* A step of the collecting loops keeps the invariant if the set stays within its
\* bounds.
LEMMA CollectInv ==
  ASSUME IInv, pc \in {"types", "erase", "values"}, pc' \in {"types", "erase", "values"},
         i' \in Nat, pc' = "values" => i' <= Len(bound),
         pc' \in {"types", "erase"} => i' <= Len(parameters),
         fvs' \in SUBSET Variables,
         ContextVariables \subseteq fvs', fvs' \subseteq ContextVariables \cup StillBound',
         UNCHANGED <<request, makeVars, result>>
  PROVE  IInv'
<1>1. /\ request' = request /\ bound_variables_so_far' = bound_variables_so_far
      /\ unbound_forall_variables_so_far' = unbound_forall_variables_so_far /\ result' = result
  BY DEF makeVars
<1>2. TypeOK'
  BY <1>1, SameRequest DEF IInv, TypeOK
<1>3. /\ Checking' /\ CheckingBound' /\ CheckingParameters'
      /\ Collecting' /\ CollectedBounds'
  BY <1>1, SameRequest
     DEF IInv, Checking, CheckingBound, CheckingParameters, Collecting, CollectedBounds
<1>4. QED
  BY <1>2, <1>3 DEF IInv, MadeIfWellScoped, FreeVariablesAreTextbook

\* What is known while free variables are collected.
LEMMA WhileCollecting ==
  ASSUME IInv, pc \in {"types", "erase", "values"}
  PROVE  /\ i \in Nat /\ Len(bound) \in Nat /\ Len(parameters) \in Nat
         /\ WellScoped /\ result = "made" /\ request.forall = {}
         /\ ContextVariables \subseteq fvs /\ fvs \in SUBSET Variables
         /\ fvs \subseteq ContextVariables \cup StillBound
         /\ pc \in {"types", "erase"} => i <= Len(parameters)
         /\ pc = "values" => i <= Len(bound)
BY RequestType DEF IInv, TypeOK, Collecting, CollectedBounds

\* Types mention the context and binders before them.
LEMMA AddTypeInv == ASSUME IInv, AddType PROVE IInv'
<1> DEFINE par == parameters[i + 1]
<1>1. /\ pc = "types" /\ pc' = "types" /\ i < Len(parameters) /\ i' = i + 1
      /\ fvs' = fvs \cup par.fvs /\ UNCHANGED <<request, makeVars, result>>
  BY DEF AddType
<1>2. i \in Nat /\ Len(parameters) \in Nat /\ i + 1 \in 1..Len(parameters) /\ (i + 1) - 1 = i
  BY <1>1, WhileCollecting
<1>3. par.fvs \subseteq ContextVariables \cup All(bound) \cup Introduced(parameters, i)
  <2>1. ParametersInOrder(Len(parameters))
    BY <1>1, WhileCollecting DEF WellScoped
  <2>2. QED
    BY <2>1, <1>2 DEF ParametersInOrder
<1>4. Introduced(parameters, i) \subseteq All(parameters)
  BY <1>2, IntroducedInAll
<1>5. StillBound = All(bound) \cup All(parameters) /\ StillBound' = StillBound
  BY <1>1, SameRequest DEF StillBound, All
<1>6. par.fvs \in SUBSET Variables
  BY <1>2, RequestType DEF IInv, Binder
<1>7. /\ fvs' \in SUBSET Variables /\ ContextVariables \subseteq fvs'
      /\ fvs' \subseteq ContextVariables \cup StillBound'
  BY <1>1, <1>3, <1>4, <1>5, <1>6, WhileCollecting
<1>8. QED
  BY <1>1, <1>2, <1>7, CollectInv

LEMMA TypesDoneInv == ASSUME IInv, TypesDone PROVE IInv'
<1>1. /\ pc = "types" /\ pc' = "erase" /\ i' = 0 /\ fvs' = fvs
      /\ UNCHANGED <<request, makeVars, result>>
  BY DEF TypesDone
<1>2. Introduced(parameters, 0) = {}
  BY IntroducedNone
<1>3. StillBound' = StillBound
  BY <1>1, <1>2, SameRequest DEF StillBound, All
<1>4. QED
  BY <1>1, <1>3, WhileCollecting, CollectInv

LEMMA EraseParameterInv == ASSUME IInv, EraseParameter PROVE IInv'
<1> DEFINE par == parameters[i + 1]
<1>1. /\ pc = "erase" /\ pc' = "erase" /\ i < Len(parameters) /\ i' = i + 1
      /\ fvs' = fvs \ {par.variable} /\ UNCHANGED <<request, makeVars, result>>
  BY DEF EraseParameter
<1>2. i \in Nat /\ Len(parameters) \in Nat /\ i + 1 \in 1..Len(parameters)
  BY <1>1, WhileCollecting
\* A parameter is no bound variable: erasing it loses none.
<1>3. par.variable \in All(parameters) /\ par.variable \notin ContextVariables
  BY <1>2, IntroducedInAll, ContextIsFree
<1>4. par.variable \notin All(bound)
  <2>1. ParametersInOrder(Len(parameters))
    BY <1>1, WhileCollecting DEF WellScoped
  <2>2. QED
    BY <2>1, <1>2 DEF ParametersInOrder
<1>5. Introduced(parameters, i + 1) = Introduced(parameters, i) \cup {par.variable}
  BY <1>2, IntroducedNext
<1>6. /\ StillBound = All(bound) \cup (All(parameters) \ Introduced(parameters, i))
      /\ StillBound' = All(bound) \cup (All(parameters) \ Introduced(parameters, i + 1))
  BY <1>1, SameRequest DEF StillBound, All
<1>7. /\ fvs' \in SUBSET Variables /\ ContextVariables \subseteq fvs'
      /\ fvs' \subseteq ContextVariables \cup StillBound'
  BY <1>1, <1>3, <1>4, <1>5, <1>6, WhileCollecting
<1>8. QED
  BY <1>1, <1>2, <1>7, CollectInv

LEMMA EraseDoneInv == ASSUME IInv, EraseDone PROVE IInv'
<1>1. /\ pc = "erase" /\ pc' = "values" /\ i = Len(parameters) /\ i' = Len(bound) /\ fvs' = fvs
      /\ UNCHANGED <<request, makeVars, result>>
  BY DEF EraseDone
<1>2. StillBound = All(bound) /\ StillBound' = All(bound)
  BY <1>1, SameRequest DEF StillBound, All
<1>3. QED
  BY <1>1, <1>2, WhileCollecting, CollectInv

\* A value mentions only variables that the loop erases later.
LEMMA AddValueInv == ASSUME IInv, AddValue PROVE IInv'
<1> DEFINE bv == bound[i]
<1>1. /\ pc = "values" /\ pc' = "values" /\ i > 0 /\ i' = i - 1
      /\ fvs' = (fvs \ {bv.variable}) \cup bv.fvs /\ UNCHANGED <<request, makeVars, result>>
  BY DEF AddValue
<1>2. /\ i \in Nat /\ Len(bound) \in Nat /\ i \in 1..Len(bound) /\ i - 1 \in Nat
      /\ i - 1 <= Len(bound) /\ (i - 1) + 1 = i
  BY <1>1, WhileCollecting
<1>3. bv.variable \in All(bound) /\ bv.variable \notin ContextVariables
  BY <1>2, IntroducedInAll, ContextIsFree
<1>4. bv.fvs \subseteq ContextVariables \cup Introduced(bound, i - 1)
  <2>1. BoundInOrder(Len(bound))
    BY <1>1, WhileCollecting DEF WellScoped
  <2>2. QED
    BY <2>1, <1>2 DEF BoundInOrder
<1>5. Introduced(bound, i) = Introduced(bound, i - 1) \cup {bv.variable}
  BY <1>2, IntroducedNext
<1>6. StillBound = Introduced(bound, i) /\ StillBound' = Introduced(bound, i - 1)
  BY <1>1, SameRequest DEF StillBound
<1>7. bv.fvs \in SUBSET Variables
  BY <1>2, RequestType DEF IInv, Binder
<1>8. /\ fvs' \in SUBSET Variables /\ ContextVariables \subseteq fvs'
      /\ fvs' \subseteq ContextVariables \cup StillBound'
  BY <1>1, <1>3, <1>4, <1>5, <1>6, <1>7, WhileCollecting
<1>9. QED
  BY <1>1, <1>2, <1>8, CollectInv

LEMMA ValuesDoneInv == ASSUME IInv, ValuesDone PROVE IInv'
<1>1. pc = "values" /\ i = 0 /\ Return(result)
  BY DEF ValuesDone
<1>2. StillBound = {}
  BY <1>1, IntroducedNone DEF StillBound
<1>3. WellScoped /\ result = "made" /\ request.forall = {} /\ fvs = ContextVariables
  BY <1>1, <1>2, WhileCollecting
<1>4. fvs = TextbookFreeVariables
  BY <1>3, TextbookIsContext DEF IInv
<1>5. QED
  BY <1>1, <1>3, <1>4, ReturnInv

LEMMA NextInv == ASSUME IInv, [Next]_vars PROVE IInv'
<1>1. CASE UNCHANGED vars
  <2>1. /\ request' = request /\ pc' = pc /\ i' = i /\ fvs' = fvs /\ result' = result
        /\ bound_variables_so_far' = bound_variables_so_far
        /\ unbound_forall_variables_so_far' = unbound_forall_variables_so_far
    BY <1>1 DEF vars, makeVars
  <2>2. StillBound' = StillBound /\ TextbookFreeVariables' = TextbookFreeVariables
    BY <2>1, SameRequest DEF StillBound, TextbookFreeVariables, All, Introduced
  <2>3. QED
    BY <2>1, <2>2, SameRequest
       DEF IInv, TypeOK, Checking, CheckingBound, CheckingParameters, Collecting, CollectedBounds,
           MadeIfWellScoped, FreeVariablesAreTextbook, All, Introduced
<1>2. CASE Terminated
  BY <1>1, <1>2 DEF Terminated
<1>3. CASE Next
  BY <1>2, <1>3, ContextInv, BindVariableInv, BoundDoneInv, BindParameterInv, ParametersDoneInv,
     AddTypeInv, TypesDoneInv, EraseParameterInv, EraseDoneInv, AddValueInv, ValuesDoneInv
     DEF Next
<1>4. QED
  BY <1>1, <1>3

-----------------------------------------------------------------------------

\* The inductive invariant holds throughout both calls.
THEOREM Invariance == Spec => []IInv
<1>1. Init => IInv
  BY InitInv
<1>2. IInv /\ [Next]_vars => IInv'
  BY NextInv
<1>3. QED
  BY <1>1, <1>2, PTL DEF Spec

\* No loop of the two calls leaves its binders.
THEOREM TypeCorrect == Spec => []TypeOK
<1>1. IInv => TypeOK
  BY DEF IInv
<1>2. QED
  BY <1>1, Invariance, PTL

\* MakeAbstraction makes exactly the well scoped abstractions.
THEOREM MadeExactly == Spec => []MadeIfWellScoped
<1>1. IInv => MadeIfWellScoped
  BY DEF IInv
<1>2. QED
  BY <1>1, Invariance, PTL

\* GetFreeVariablesCore computes the textbook free variables of what was made.
THEOREM FreeVariablesCorrect == Spec => []FreeVariablesAreTextbook
<1>1. IInv => FreeVariablesAreTextbook
  BY DEF IInv
<1>2. QED
  BY <1>1, Invariance, PTL
=============================================================================
