-------------------------------- MODULE Bst --------------------------------
(***************************************************************************)
(* process_ast of c2/bst.cpp: the translation of the parser's expressions  *)
(* into bst, which resolves variable names to the Variable objects that    *)
(* fn and let create.                                                      *)
(*                                                                         *)
(* An expression is known by its path: the index of a top-level expression *)
(* followed by indices into lists.  A Variable object is known by the path *)
(* of the token that names it, a bst node by the path of the expression it *)
(* is the translation of.  `calls' is the C++ stack: a record for each     *)
(* call of process_ast that is running.                                    *)
(***************************************************************************)
EXTENDS AstSyntax, SequencesExt

CONSTANTS
  Words,      \* what tokens hold
  NESTING     \* how deep lists are nested at most

ASSUME NestingAssumption == NESTING \in Nat

VARIABLES
  top_level_exprs,   \* the parsed expressions of all files
  calls,             \* running calls, innermost last
  bst,               \* the nodes made so far: a function of paths
  fault              \* what ended the translation, if anything has

bstVars == <<calls, bst, fault>>

Faults == {"check", "exception", "unreachable"}
BuiltinNames == {"def", "fn", "let", "fnapp"}

-----------------------------------------------------------------------------
(* Expressions.                                                            *)

TokenKinds == {"STRING", "QUOTED_STRING", "NUMBER"}
Tokens == [is : {"token"}, x : Words, kind : TokenKinds]
Expressions[d \in 0..NESTING] ==
  Tokens \cup [is : {"list"}, fnapp : BOOLEAN, xs : Seq(IF d = 0 THEN {} ELSE Expressions[d - 1])]
Expr == Expressions[NESTING]

IsName(e) == e.is = "token" /\ e.kind = "QUOTED_STRING"
IsForm(e, builtin) ==
  /\ e.is = "list" /\ e.fnapp
  /\ Len(e.xs) > 0 /\ e.xs[1] = Token(builtin, "STRING")

\* The list elements that process_ast calls itself for, in this order.
Subexpressions(e) ==
  CASE e.is = "token"                       -> <<>>
    [] IsForm(e, "def") \/ IsForm(e, "fn")  -> <<3>>
    [] IsForm(e, "let")                     -> <<3, 4>>
    [] OTHER                                -> [i \in 1..Len(e.xs) |-> i]

\* A name: get<ast::Token> throws for a list, the CHECK fails for another kind.
NameFault(e) == CASE e.is = "list" -> "exception"
                  [] IsName(e)     -> "none"
                  [] OTHER         -> "check"

NamedFault(e, size) == IF Len(e.xs) # size THEN "check" ELSE NameFault(e.xs[2])

FnFault(e) ==
  CASE Len(e.xs) # 3         -> "check"
    [] e.xs[2].is = "token"  -> "exception"
    [] OTHER ->
         IF /\ ~e.xs[2].fnapp
            /\ e.xs[2].xs # <<>>
            /\ \A k \in 1..Len(e.xs[2].xs) : IsName(e.xs[2].xs[k])
           THEN "none" ELSE "check"

\* The checks that process_ast makes before it calls itself.
FaultOf(e) ==
  CASE e = List(TRUE, <<>>)                          -> "check"
    [] e.is = "token" /\ e.kind = "STRING"
         /\ e.x \in BuiltinNames                     -> "check"
    [] IsForm(e, "def")                              -> NamedFault(e, 3)
    [] IsForm(e, "let")                              -> NamedFault(e, 4)
    [] IsForm(e, "fn")                               -> FnFault(e)
    [] IsForm(e, "fnapp")                            -> "unreachable"
    [] OTHER                                         -> "none"

-----------------------------------------------------------------------------
(* Lexical scopes: the innermost first, each the Variables it holds.       *)

Variable(name, path) == [name |-> name, path |-> path]
AsNode(v) == [type |-> "Variable", var |-> v]

\* The Variables that a form creates.
Parameters(e, path) ==
  [k \in 1..Len(e.xs[2].xs) |-> Variable(e.xs[2].xs[k].x, path \o <<2, k>>)]

\* Mutant: a let whose name hides nothing.
LetAppendsScope(e, path, ls) ==
  CASE IsForm(e, "fn")  -> <<Parameters(e, path)>> \o ls
    [] IsForm(e, "let") -> ls \o << <<Variable(e.xs[2].x, path \o <<2>>)>> >>
    [] OTHER            -> ls

ScopeWithin(e, path, ls) ==
  CASE IsForm(e, "fn")  -> <<Parameters(e, path)>> \o ls
    [] IsForm(e, "let") -> << <<Variable(e.xs[2].x, path \o <<2>>)>> >> \o ls
    [] OTHER            -> ls

\* try_resolve_variable_name: the first match of the innermost scope with one.
Matches(name, scope) == {k \in 1..Len(scope) : scope[k].name = name}
Resolve(name, ls) ==
  LET scopes == {s \in 1..Len(ls) : Matches(name, ls[s]) # {}}
      scope == ls[Min(scopes)]
  IN  IF scopes = {} THEN [type |-> "ToplevelVariableName", name |-> name]
      ELSE AsNode(scope[Min(Matches(name, scope))])

NodeOf(e, path, ls) ==
  CASE e.is = "token" /\ e.kind = "STRING"        -> Resolve(e.x, ls)
    [] e.is = "token" /\ e.kind = "QUOTED_STRING" -> [type |-> "String", x |-> e.x]
    [] e.is = "token" /\ e.kind = "NUMBER"        -> [type |-> "Number", x |-> e.x]
    [] IsForm(e, "def")                           -> [type |-> "Def", name |-> e.xs[2].x]
    [] IsForm(e, "let")                           -> [type |-> "Let", name |-> e.xs[2].x]
    [] IsForm(e, "fn")           -> [type |-> "Fn", pars |-> Parameters(e, path)]
    [] e.is = "list" /\ ~e.fnapp -> [type |-> "Tuple"]
    [] OTHER                     -> [type |-> "Fnapp"]

-----------------------------------------------------------------------------
(* process_ast.                                                            *)

\* A call for e in scope ls; `next' counts its calls of itself.
NewCall(e, path, ls) == [e |-> e, path |-> path, ls |-> ls, next |-> 0]
call == Last(calls)

Start(k) == calls' = <<NewCall(top_level_exprs[k], <<k>>, <<>>)>>

Fails(why) ==
  /\ fault' = why
  /\ calls' = <<>>
  /\ UNCHANGED bst

\* A call that has just begun makes its checks and its new scope.
Enter ==
  /\ calls # <<>> /\ call.next = 0
  /\ IF FaultOf(call.e) # "none"
       THEN Fails(FaultOf(call.e))
       ELSE /\ calls' = [calls EXCEPT ![Len(calls)] =
                            [call EXCEPT !.next = 1, !.ls = ScopeWithin(call.e, call.path, call.ls)]]
            /\ UNCHANGED <<bst, fault>>

Recurse ==
  /\ calls # <<>> /\ call.next \in 1..Len(Subexpressions(call.e))
  /\ LET i == Subexpressions(call.e)[call.next]
     IN  calls' = Append([calls EXCEPT ![Len(calls)] = [call EXCEPT !.next = @ + 1]],
                         NewCall(call.e.xs[i], Append(call.path, i), call.ls))
  /\ UNCHANGED <<bst, fault>>

\* Mutant: a Fnapp that accepts no arguments.
AnyHead(e) == FALSE

\* f, and y for x.
With(f, x, y) == [z \in DOMAIN f \cup {x} |-> IF z = x THEN y ELSE f[z]]

\* An application without arguments fails in the constructor of Fnapp, after
\* its head was translated.
IsBareHead(e) == NodeOf(e, <<>>, <<>>).type = "Fnapp" /\ Len(e.xs) = 1

Return ==
  /\ calls # <<>> /\ call.next = Len(Subexpressions(call.e)) + 1
  /\ IF IsBareHead(call.e)
       THEN Fails("check")
       ELSE /\ bst' = With(bst, call.path, NodeOf(call.e, call.path, call.ls))
            /\ calls' = Front(calls)
            /\ UNCHANGED fault

ProcessAst == Enter \/ Recurse \/ Return

-----------------------------------------------------------------------------
(* Lexical scoping said without scopes: the binder of a name is the        *)
(* innermost form around it that binds the name.                           *)

ExprIn(exprs, path) ==
  LET at[k \in 1..Len(path)] == IF k = 1 THEN exprs[path[1]] ELSE at[k - 1].xs[path[k]]
  IN  at[Len(path)]
ExprAt(path) == ExprIn(top_level_exprs, path)

\* A name token at `token' is bound in the parts of the form at `form'.  A let
\* binds its name in its value too.
Binds(form, token, path) ==
  \/ /\ IsForm(ExprAt(form), "fn")
     /\ \E k \in 1..Len(ExprAt(form).xs[2].xs) : token = form \o <<2, k>>
     /\ IsPrefix(form \o <<3>>, path)
  \/ /\ IsForm(ExprAt(form), "let")
     /\ token = form \o <<2>>
     /\ IsPrefix(form \o <<3>>, path) \/ IsPrefix(form \o <<4>>, path)

\* Every path of a name that could bind one at `path'.
NameTokens(path) ==
  UNION {LET form == SubSeq(path, 1, n) IN
           {<<form, form \o <<2>> >>}
             \cup (IF IsForm(ExprAt(form), "fn")
                     THEN {<<form, form \o <<2, k>> >> : k \in 1..Len(ExprAt(form).xs[2].xs)}
                     ELSE {})
         : n \in 1..(Len(path) - 1)}

Binders(name, path) ==
  {b \in NameTokens(path) : Binds(b[1], b[2], path) /\ ExprAt(b[2]).x = name}

\* b is inside c, or an earlier parameter of the same fn.
Hides(b, c) ==
  \/ Len(b[1]) > Len(c[1])
  \/ b[1] = c[1] /\ Last(b[2]) < Last(c[2])

\* What lexical scoping makes of a name at `path': the Variable of its innermost
\* binder, the first of the parameters with that name, or a top-level name when
\* nothing around it binds it.
IsMeaning(name, path, node) ==
  LET all == Binders(name, path)
  IN  IF all = {} THEN node = [type |-> "ToplevelVariableName", name |-> name]
      ELSE \E b \in all : /\ \A c \in all \ {b} : Hides(b, c)
                          /\ node = AsNode(Variable(name, b[2]))

\* Names mean what lexical scoping says: each STRING token became a node with
\* its meaning (bst.h:133-144, bst.cpp:89-100).
ResolvesLexically ==
  \A path \in DOMAIN bst :
    bst[path].type \in {"Variable", "ToplevelVariableName"} =>
      IsMeaning(ExprAt(path).x, path, bst[path])

=============================================================================
