------------------------------ MODULE Abstraction ------------------------------
(***************************************************************************)
(* Lambda abstractions of src2: MakeAbstraction (term.cpp) decides whether *)
(* binders, values and types are in a legal order, and                     *)
(* GetFreeVariablesCore (freevariablesofterm.cpp) then computes the free   *)
(* variables of what was made.  A term inside the abstraction is known by  *)
(* its free variables, which is all that both look at.                     *)
(***************************************************************************)
EXTENDS Integers, Sequences

CONSTANTS
  Variables,   \* term::Variable
  Requests     \* the arguments of MakeAbstraction

\* A bound variable has a value, a parameter an expected type.
Binder == [variable : Variables, fvs : SUBSET Variables]
Request == [forall : SUBSET Variables, bound : Seq(Binder), parameters : Seq(Binder),
            body : SUBSET Variables]
ASSUME RequestsAssumption == Requests \subseteq Request

VARIABLES
  request,
  pc,                     \* where MakeAbstraction or GetFreeVariablesCore is
  i,                      \* binders its loop has done
  bound_variables_so_far,
  unbound_forall_variables_so_far,
  fvs,                    \* the set GetFreeVariablesCore works on
  result                  \* "none", "made", "nullopt" or "undefined"

makeVars == <<bound_variables_so_far, unbound_forall_variables_so_far>>
vars == <<request, pc, i, makeVars, fvs, result>>

bound == request.bound
parameters == request.parameters
Introduced(binders, k) == {binders[j].variable : j \in 1..k}
All(binders) == Introduced(binders, Len(binders))

Init ==
  /\ request \in Requests
  /\ pc = "context"
  /\ i = 0
  /\ bound_variables_so_far = {}
  /\ unbound_forall_variables_so_far = {}
  /\ fvs = {}
  /\ result = "none"

Return(how) ==
  /\ pc' = "exit"
  /\ result' = how
  /\ UNCHANGED <<request, i, makeVars, fvs>>

-----------------------------------------------------------------------------
(* MakeAbstraction.  A condition of an ASSERT_ELSE that fails returns      *)
(* nullopt in a release build and ends the program with assertions         *)
(* enabled: both are "nullopt".                                            *)

\* The variables of the context are those of the body.  Erasing a range of
\* another set, that of the forall variables, is undefined behaviour unless the
\* range is empty: anything may follow, and the model follows it no further.
Context ==
  /\ pc = "context"
  /\ \/ parameters = <<>> /\ Return("nullopt")
     \/ parameters # <<>> /\ request.forall # {} /\ Return("undefined")
     \/ /\ parameters # <<>> /\ request.forall = {}
        /\ bound_variables_so_far' = request.body \ (All(bound) \cup All(parameters))
        /\ unbound_forall_variables_so_far' = request.forall
        /\ pc' = "bound"
        /\ UNCHANGED <<request, i, fvs, result>>

\* Mutant: a variable may be bound twice.
BindAgain ==
  /\ pc = "bound" /\ i < Len(bound)
  /\ LET bv == bound[i + 1]
     IN  \/ ~(bv.fvs \subseteq bound_variables_so_far) /\ Return("nullopt")
         \/ /\ bv.fvs \subseteq bound_variables_so_far
            /\ bound_variables_so_far' = bound_variables_so_far \cup {bv.variable}
            /\ unbound_forall_variables_so_far' = unbound_forall_variables_so_far \ {bv.variable}
            /\ i' = i + 1
            /\ UNCHANGED <<request, pc, fvs, result>>

\* The value uses what is known, the variable is new.
BindVariable ==
  /\ pc = "bound" /\ i < Len(bound)
  /\ LET bv == bound[i + 1]
         legal == bv.fvs \subseteq bound_variables_so_far /\ bv.variable \notin bound_variables_so_far
     IN  \/ ~legal /\ Return("nullopt")
         \/ /\ legal
            /\ bound_variables_so_far' = bound_variables_so_far \cup {bv.variable}
            /\ unbound_forall_variables_so_far' = unbound_forall_variables_so_far \ {bv.variable}
            /\ i' = i + 1
            /\ UNCHANGED <<request, pc, fvs, result>>

BoundDone ==
  /\ pc = "bound" /\ i = Len(bound)
  /\ pc' = "parameters"
  /\ i' = 0
  /\ UNCHANGED <<request, makeVars, fvs, result>>

\* The expected type uses what is known or forall variables, which it binds.
BindParameter ==
  /\ pc = "parameters" /\ i < Len(parameters)
  /\ LET par == parameters[i + 1]
         new == par.fvs \ bound_variables_so_far
         legal == /\ new \subseteq unbound_forall_variables_so_far
                  /\ par.variable \notin bound_variables_so_far \cup new
     IN  \/ ~legal /\ Return("nullopt")
         \/ /\ legal
            /\ bound_variables_so_far' = bound_variables_so_far \cup new \cup {par.variable}
            /\ unbound_forall_variables_so_far' =
                 unbound_forall_variables_so_far \ (new \cup {par.variable})
            /\ i' = i + 1
            /\ UNCHANGED <<request, pc, fvs, result>>

ParametersDone ==
  /\ pc = "parameters" /\ i = Len(parameters)
  /\ IF unbound_forall_variables_so_far # {}
     THEN Return("nullopt")
     ELSE /\ pc' = "types"
          /\ i' = 0
          /\ fvs' = request.body
          /\ result' = "made"
          /\ UNCHANGED <<request, makeVars>>

-----------------------------------------------------------------------------
(* GetFreeVariablesCore of the abstraction that was made.                  *)

AddType ==
  /\ pc = "types" /\ i < Len(parameters)
  /\ fvs' = fvs \cup parameters[i + 1].fvs
  /\ i' = i + 1
  /\ UNCHANGED <<request, pc, makeVars, result>>

TypesDone ==
  /\ pc = "types" /\ i = Len(parameters)
  /\ pc' = "erase"
  /\ i' = 0
  /\ UNCHANGED <<request, makeVars, fvs, result>>

EraseParameter ==
  /\ pc = "erase" /\ i < Len(parameters)
  /\ fvs' = fvs \ {parameters[i + 1].variable}
  /\ i' = i + 1
  /\ UNCHANGED <<request, pc, makeVars, result>>

EraseDone ==
  /\ pc = "erase" /\ i = Len(parameters)
  /\ pc' = "values"
  /\ i' = Len(bound)
  /\ UNCHANGED <<request, makeVars, fvs, result>>

\* Mutant: the loop runs forwards.
AddValueForwards ==
  /\ pc = "values" /\ i > 0
  /\ LET bv == bound[Len(bound) - i + 1] IN fvs' = (fvs \ {bv.variable}) \cup bv.fvs
  /\ i' = i - 1
  /\ UNCHANGED <<request, pc, makeVars, result>>

\* The reverse loop: i is the number of bound variables not yet seen.
AddValue ==
  /\ pc = "values" /\ i > 0
  /\ fvs' = (fvs \ {bound[i].variable}) \cup bound[i].fvs
  /\ i' = i - 1
  /\ UNCHANGED <<request, pc, makeVars, result>>

\* The constructor has dropped the forall variables (term.h:175-183): nothing
\* is left for the last erase.
ValuesDone ==
  /\ pc = "values" /\ i = 0
  /\ Return(result)

\* Both functions return or end the program: being stuck elsewhere is a deadlock.
Terminated == pc = "exit" /\ UNCHANGED vars

Next ==
  \/ Context \/ BindVariable \/ BoundDone \/ BindParameter \/ ParametersDone
  \/ AddType \/ TypesDone \/ EraseParameter \/ EraseDone \/ AddValue \/ ValuesDone
  \/ Terminated

Spec == Init /\ [][Next]_vars

-----------------------------------------------------------------------------
(* Properties.                                                             *)

\* The state is what the declarations of term.cpp and freevariablesofterm.cpp
\* allow, and no loop runs past the end of its binders.
TypeOK ==
  /\ request \in Request
  /\ pc \in {"context", "bound", "parameters", "types", "erase", "values", "exit"}
  /\ i \in Nat
  /\ pc \in {"bound", "values"} => i <= Len(bound)
  /\ pc \in {"parameters", "types", "erase"} => i <= Len(parameters)
  /\ bound_variables_so_far \in SUBSET Variables
  /\ unbound_forall_variables_so_far \in SUBSET Variables
  /\ fvs \in SUBSET Variables
  /\ result \in {"none", "made", "nullopt", "undefined"}

\* What an abstraction without forall variables may mention where: variables of
\* the context, and binders that come before; no variable is bound twice.
ContextVariables == request.body \ (All(bound) \cup All(parameters))
BoundInOrder(k) ==
  \A j \in 1..k :
    /\ bound[j].fvs \subseteq ContextVariables \cup Introduced(bound, j - 1)
    /\ bound[j].variable \notin Introduced(bound, j - 1)
ParametersInOrder(k) ==
  \A j \in 1..k :
    /\ parameters[j].fvs \subseteq ContextVariables \cup All(bound) \cup Introduced(parameters, j - 1)
    /\ parameters[j].variable \notin All(bound) \cup Introduced(parameters, j - 1)
WellScoped ==
  parameters # <<>> /\ BoundInOrder(Len(bound)) /\ ParametersInOrder(Len(parameters))

\* MakeAbstraction makes exactly the well scoped abstractions
\* (term.cpp:7-55; the order is that of term.h:146-148), where the context is
\* the one that the body shows.
MadeIfWellScoped ==
  pc = "exit" /\ (request.forall = {} \/ parameters = <<>>) => (result = "made" <=> WellScoped)

\* The free variables of an abstraction by the rule for each of its parts: what
\* a value, a type or the body mentions and no binder before it binds.
TextbookFreeVariables ==
  (UNION {bound[k].fvs \ Introduced(bound, k - 1) : k \in 1..Len(bound)})
    \cup (UNION {parameters[k].fvs \ (All(bound) \cup Introduced(parameters, k - 1)) :
                   k \in 1..Len(parameters)})
    \cup (request.body \ (All(bound) \cup All(parameters)))

\* The two loops of GetFreeVariablesCore, which treat all parameters alike and
\* run backwards over the bound variables, compute the textbook set, and it is
\* the context MakeAbstraction went by (freevariablesofterm.cpp:11-28).
FreeVariablesAreTextbook ==
  pc = "exit" /\ result = "made" => fvs = TextbookFreeVariables /\ fvs = ContextVariables
=============================================================================
