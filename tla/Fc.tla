---------------------------------- MODULE Fc ----------------------------------
(***************************************************************************)
(* The first front end, fc: its driver (fc/main.cpp) and its shell         *)
(* (fc/shell.cpp).  The files are parsed one after the other, then each    *)
(* top-level expression is evaluated.  The tuples that an evaluation makes *)
(* lie in an arena that is gone when the evaluation is over; `symbols'     *)
(* may keep them.  Visitor's recursion is a stack of the nodes whose parts *)
(* are being evaluated.                                                    *)
(***************************************************************************)
EXTENDS FcParser, FcGrammar, SequencesExt

CONSTANTS
  Inputs,     \* [args, files]: command lines and what the named files are
  MaxGrammar  \* up to how many characters a text is held against the grammar
IsOption(a) == a \in {"--help", "--cpp-out", "--other"}
\* A file is what the reader does with it, or "missing".
Missing == [chars |-> <<>>, ends |-> "missing", cuts |-> {}]
IsFile(f) == f = Missing \/ (f.chars \in Seq(Characters) /\ f.ends \in {"eof", "error"})
ASSUME InputsAssumption ==
  \A i \in Inputs :
    /\ i.args \in Seq(STRING)
    /\ \A name \in DOMAIN i.files : IsFile(i.files[name])
    /\ \A k \in DOMAIN i.args : IsOption(i.args[k]) \/ i.args[k] \in DOMAIN i.files

VARIABLES
  input,
  pc,       \* "start", "parse", "eval" or "exit"
  next,     \* files parsed or expressions evaluated so far
  ok,
  top_level_exprs,
  stack,    \* nodes with the values of the parts that have been evaluated
  symbols,
  result    \* "success", "failure", "aborted" or "undefined"

vars == <<input, pc, next, ok, top_level_exprs, stack, symbols, result>>

NoSymbols == [name \in {} |-> SymLeaf(name)]

Init ==
  /\ input \in Inputs
  /\ pc = "start"
  /\ next = 0
  /\ ok = TRUE
  /\ top_level_exprs = <<>>
  /\ stack = <<>>
  /\ symbols = NoSymbols
  /\ result = "none"

Exit(how) ==
  /\ pc' = "exit"
  /\ result' = how
  /\ UNCHANGED <<input, next, ok, top_level_exprs, stack, symbols>>

-----------------------------------------------------------------------------
(* The command line and the files.                                         *)

\* parse_command_line: the path behind --cpp-out is taken whatever it is.
parse_command_line(args) ==
  LET rest[i \in 1..(Len(args) + 2)] ==
        IF i > Len(args) THEN [ok |-> TRUE, help |-> FALSE, files |-> <<>>]
        ELSE IF args[i] = "--help" THEN [rest[i + 1] EXCEPT !.help = TRUE]
        ELSE IF args[i] = "--cpp-out" /\ i < Len(args) THEN rest[i + 2]
        ELSE IF IsOption(args[i]) THEN [rest[i + 1] EXCEPT !.ok = FALSE]
        ELSE [rest[i + 1] EXCEPT !.files = <<args[i]>> \o @]
  IN  rest[1]
cl == parse_command_line(input.args)

c2main ==
  /\ pc = "start"
  /\ IF ~cl.ok THEN Exit("failure")
     ELSE IF cl.help THEN Exit("success")
     ELSE IF cl.files = <<>> THEN Exit("failure")
     ELSE /\ pc' = "parse"
          /\ UNCHANGED <<input, next, ok, top_level_exprs, stack, symbols, result>>

\* parse_fast_file_add_to_ast: the other files are parsed even if one fails.
ParseFile ==
  /\ pc = "parse" /\ next < Len(cl.files)
  /\ LET file == input.files[cl.files[next + 1]]
         m_exprs == IF file = Missing THEN Nothing ELSE parse_filereader_into_ast(file)
     IN  IF m_exprs.how = "aborted" THEN Exit("aborted")
         ELSE /\ next' = next + 1
              /\ ok' = (ok /\ m_exprs.how = "node")
              /\ top_level_exprs' = IF m_exprs.how = "node" THEN top_level_exprs \o m_exprs.node
                                    ELSE top_level_exprs
              /\ UNCHANGED <<input, pc, stack, symbols, result>>

AllParsed ==
  /\ pc = "parse" /\ next = Len(cl.files)
  /\ IF ~ok THEN Exit("failure")
     ELSE /\ pc' = "eval"
          /\ next' = 0
          /\ UNCHANGED <<input, ok, top_level_exprs, stack, symbols, result>>

-----------------------------------------------------------------------------
(* The shell.  Expression number `next' is evaluated, in an arena of the   *)
(* same number; the arenas before are gone.                                *)

Builtin(name) == [SymLeaf(<<name>>) EXCEPT !.builtin = TRUE]
Builtins == {<<"fn">>, <<"def">>}

\* Reading such a node is reading freed memory.
Dangles(v) == v.tag = "Tuple" /\ v.arena \notin {0, next}

Unresolved == [tag |-> "Unresolved"]
\* Mutant: the definitions come before the builtins.
resolveDefinedFirst(name) ==
  IF name \in DOMAIN symbols THEN symbols[name]
  ELSE IF name \in Builtins THEN [SymLeaf(name) EXCEPT !.builtin = TRUE]
  ELSE Unresolved

resolveSymbol(name) ==
  IF name \in Builtins THEN [SymLeaf(name) EXCEPT !.builtin = TRUE]
  ELSE IF name \in DOMAIN symbols THEN symbols[name]
  ELSE Unresolved

frame == stack[Len(stack)]
Below == SubSeq(stack, 1, Len(stack) - 1)
Frame(node) == [node |-> node, evald |-> <<>>]
\* What is evaluated of a node, in order: the head of an application comes last.
Parts(node) == CASE node.tag = "Tuple" -> node.xs
                 [] node.tag = "Apply" -> Append(node.args, node.lambda)
                 [] node.tag = "Top" -> <<node.expr>>
                 [] OTHER -> <<>>
Evaluated == Len(frame.evald) = Len(Parts(frame.node))

\* The frame below gets the value.
Value(v, frames) ==
  /\ stack' = [frames EXCEPT ![Len(frames)].evald = Append(@, v)]
  /\ UNCHANGED <<input, pc, next, ok, top_level_exprs, result>>

StartExpr ==
  /\ pc = "eval" /\ stack = <<>>
  /\ IF next = Len(top_level_exprs) THEN Exit("success")
     ELSE /\ next' = next + 1
          /\ stack' = <<Frame([tag |-> "Top", expr |-> top_level_exprs[next + 1]])>>
          /\ UNCHANGED <<input, pc, ok, top_level_exprs, symbols, result>>

\* Mutant: a quoted tuple is copied into the arena of the evaluation.
QuotedCopy(e) == IF e.expr.tag = "Tuple" THEN TupleIn(next, e.expr.xs) ELSE e.expr

Quoted(e) == e.expr

\* Visitor's operators: tuples and applications start with their parts.
Visit ==
  /\ pc = "eval" /\ stack # <<>> /\ ~Evaluated
  /\ LET e == Parts(frame.node)[Len(frame.evald) + 1]
     IN  CASE e.tag \in {"Str", "Num", "Char"} -> Value(e, stack) /\ UNCHANGED symbols
           [] e.tag = "Quote" -> Value(Quoted(e), stack) /\ UNCHANGED symbols
           [] e.tag = "Sym" -> IF resolveSymbol(e.name) = Unresolved THEN Exit("failure")
                               ELSE Value(resolveSymbol(e.name), stack) /\ UNCHANGED symbols
           [] OTHER -> /\ stack' = Append(stack, Frame(e))
                       /\ UNCHANGED <<input, pc, next, ok, top_level_exprs, symbols, result>>

ReturnTuple ==
  /\ pc = "eval" /\ stack # <<>> /\ Evaluated
  /\ frame.node.tag = "Tuple"
  /\ Value(TupleIn(next, frame.evald), Below)
  /\ UNCHANGED symbols

\* The value of a top-level expression is dropped, with the arena.
ReturnTop ==
  /\ pc = "eval" /\ stack # <<>> /\ Evaluated
  /\ frame.node.tag = "Top"
  /\ stack' = Below
  /\ UNCHANGED <<input, pc, next, ok, top_level_exprs, symbols, result>>

eval_def(args) ==
  IF Len(args) # 2 THEN Exit("failure")
  ELSE IF Dangles(args[1]) THEN Exit("undefined")
  ELSE IF args[1].tag # "Sym" \/ args[1].name \in DOMAIN symbols THEN Exit("failure")
  ELSE /\ symbols' = [name \in DOMAIN symbols \cup {args[1].name} |->
                        IF name = args[1].name THEN args[2] ELSE symbols[name]]
       /\ Value(args[1], Below)

\* The head must be the builtin's own node, which no parsed tree holds.
try_get_fn_expr(e) ==
  /\ e.tag = "Apply" /\ e.lambda = Builtin("fn") /\ Len(e.args) = 2
  /\ e.args[1].tag = "Tuple" /\ \A k \in DOMAIN e.args[1].xs : e.args[1].xs[k].tag = "Sym"

\* eval_fn and beta_reduction end without a result, which is undefined.
ReturnApply ==
  /\ pc = "eval" /\ stack # <<>> /\ Evaluated
  /\ frame.node.tag = "Apply"
  /\ LET lambda == Last(frame.evald)
     IN  IF Dangles(lambda) \/ lambda = Builtin("fn") THEN Exit("undefined")
         ELSE IF lambda = Builtin("def") THEN eval_def(Front(frame.evald))
         ELSE Exit(IF try_get_fn_expr(lambda) THEN "undefined" ELSE "failure")

Terminated == pc = "exit" /\ UNCHANGED vars

Next ==
  \/ c2main \/ ParseFile \/ AllParsed
  \/ StartExpr \/ Visit \/ ReturnTuple \/ ReturnTop \/ ReturnApply
  \/ Terminated

Spec == Init /\ [][Next]_vars
-----------------------------------------------------------------------------
(* Properties.                                                             *)

\* Each file is parsed to the one forest of the grammar, in the order of the
\* command line; a file that fails is missing, unreadable or not of the grammar;
\* the assertion of peek_wora fails only at the end of a buffer or in a file that
\* is not of the grammar (fc/ast_builder.cpp:42-359, fc/main.cpp:35-67).
Files == [k \in DOMAIN cl.files |-> input.files[cl.files[k]]]
IsWhole(file) == file.ends = "eof" /\ Forests(file.chars) # {}
\* The files are short enough to look for every forest of theirs.
AreShort == \A k \in DOMAIN Files : Len(Files[k].chars) <= MaxGrammar
ParsesTheGrammar ==
  AreShort =>
    /\ pc = "eval" /\ next = 0 /\ stack = <<>> =>
         /\ \A k \in DOMAIN Files : IsWhole(Files[k]) /\ Cardinality(Forests(Files[k].chars)) = 1
         /\ top_level_exprs = FlattenSeq([k \in DOMAIN Files |-> CHOOSE t \in Forests(Files[k].chars) : TRUE])
    /\ pc = "exit" /\ ~ok => \E k \in DOMAIN Files : ~IsWhole(Files[k])
    /\ result = "aborted" => \E k \in DOMAIN Files : Files[k].cuts # {} \/ ~IsWhole(Files[k])

\* What a program means, each of its values living for good.  What is defined is a set
\* of definitions.
Definitions == [name : Names, value : Values]
Defined(env) == {d.name : d \in env}
Definition(env, name) == CHOOSE d \in env : d.name = name

Meaning(v, env) == [how |-> "value", value |-> v, env |-> env]
Error == [how |-> "error"]
\* What the first k of some expressions mean, given what each of them does.
After(means, es, env) ==
  LET after[k \in 0..Len(es)] ==
        IF k = 0 THEN Meaning(<<>>, env)
        ELSE LET before == after[k - 1]
                 this == means[es[k]][before.env]
             IN  IF before.how # "value" THEN before
                 ELSE IF this.how # "value" THEN this
                 ELSE Meaning(Append(before.value, this.value), this.env)
  IN  after
Applied(values, env) ==
  LET head == Last(values)
      Defines == /\ head = Builtin("def") /\ Len(values) = 3
                 /\ values[1].tag = "Sym" /\ values[1].name \notin Defined(env)
  IN  IF Defines THEN Meaning(values[1], env \cup {[name |-> values[1].name, value |-> values[2]]})
      ELSE IF head = Builtin("fn") THEN [how |-> "fn"] ELSE Error
Means[e \in Trees] ==
  [env \in SUBSET Definitions |->
    LET parts == After(Means, Parts(e), env)[Len(Parts(e))]
    IN  CASE e.tag \in {"Str", "Num", "Char"} -> Meaning(e, env)
          [] e.tag = "Quote" -> Meaning(e.expr, env)
          [] e.tag = "Sym" -> IF e.name \in Builtins THEN Meaning([e EXCEPT !.builtin = TRUE], env)
                              ELSE IF e.name \notin Defined(env) THEN Error
                              ELSE Meaning(Definition(env, e.name).value, env)
          [] e.tag = "Tuple" -> IF parts.how # "value" THEN parts
                                ELSE Meaning(TupleNode(parts.value), parts.env)
          [] e.tag = "Apply" -> IF parts.how # "value" THEN parts ELSE Applied(parts.value, parts.env)]

\* A value as it would be if its tuples lived for good.
Lasting[v \in Values] ==
  IF v.tag = "Tuple" /\ v.arena # 0 THEN TupleNode([k \in DOMAIN v.xs |-> Lasting[v.xs[k]]]) ELSE v
Remembered == {[name |-> name, value |-> Lasting[symbols[name]]] : name \in DOMAIN symbols}

\* The shell does what the program means: it defines the same symbols or fails as
\* well.  Where it reads a tuple that is gone, or applies fn, the program is wrong
\* or has no meaning yet (fc/shell.cpp:56-171).
EvaluatesAsMeant ==
  pc = "exit" /\ cl.ok /\ ~cl.help /\ ok /\ cl.files # <<>> /\ result # "aborted" =>
    LET meaning == After(Means, top_level_exprs, {})[Len(top_level_exprs)]
    IN  CASE result = "success" -> meaning.how = "value" /\ meaning.env = Remembered
          [] result = "failure" -> meaning.how = "error"
          [] result = "undefined" -> meaning.how \in {"fn", "error"}

\* What is evaluated in an expression.
Evaluates[e \in Trees] ==
  {e} \cup IF e.tag \in {"Tuple", "Apply"} THEN UNION {Evaluates[u] : u \in Range(Parts(e))} ELSE {}
\* A program that makes no tuple and does not name fn reads no memory that is gone:
\* what is quoted lasts (fc/shell.cpp:68-72, 169).
UndefinedNeedsATupleOrFn ==
  result = "undefined" =>
    \E k \in DOMAIN top_level_exprs : \E e \in Evaluates[top_level_exprs[k]] :
      e.tag = "Tuple" \/ e = SymLeaf(<<"fn">>)
=============================================================================
