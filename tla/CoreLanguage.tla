---------------------------- MODULE CoreLanguage ----------------------------
(***************************************************************************)
(* The programs the compiler is for, and that it succeeds for these and no *)
(* others.                                                                 *)
(***************************************************************************)
EXTENDS Compiler

(* The core language: names are quoted, a def has a name and a body, a fn  *)
(* parameters and a body, a let a name, its value and a body, and an       *)
(* application has arguments.                                              *)

\* e is of the core language, if what it consists of is when it is in S.
IsCoreOver(e, S) ==
  \/ e.is = "token" /\ (e.kind = "STRING" => e.x \notin BuiltinNames)
  \/ /\ e.is = "list" /\ ~e.fnapp
     /\ \A k \in 1..Len(e.xs) : e.xs[k] \in S
  \/ /\ e.is = "list" /\ e.fnapp
     /\ \/ \E name \in Range(e.xs), body \in Range(e.xs) \cap S :
             /\ IsName(name)
             /\ e.xs = <<Token("def", "STRING"), name, body>>
        \/ \E names \in Range(e.xs), body \in Range(e.xs) \cap S :
             /\ names.is = "list" /\ ~names.fnapp /\ names.xs # <<>>
             /\ \A k \in 1..Len(names.xs) : IsName(names.xs[k])
             /\ e.xs = <<Token("fn", "STRING"), names, body>>
        \/ \E name \in Range(e.xs), value \in Range(e.xs) \cap S, body \in Range(e.xs) \cap S :
             /\ IsName(name)
             /\ e.xs = <<Token("let", "STRING"), name, value, body>>
        \/ Len(e.xs) >= 2 /\ \A k \in 1..Len(e.xs) : e.xs[k] \in S

Core[d \in 0..NESTING] ==
  {e \in Expressions[d] : IsCoreOver(e, IF d = 0 THEN {} ELSE Core[d - 1])}
IsCore(e) == e \in Core[NESTING]

-----------------------------------------------------------------------------
(* Which command lines and files deserve success.                          *)

\* An argument that a --cpp-out before it takes: it follows an odd number of
\* adjacent ones.
IsOperand(k) ==
  \E first \in 1..(k - 1) :
    /\ \A j \in first..(k - 1) : args[j] = "--cpp-out"
    /\ first > 1 => args[first - 1] # "--cpp-out"
    /\ (k - first) % 2 = 1
FreeArguments == {k \in 1..Len(args) : ~IsOperand(k)}
Accepted ==
  /\ \A k \in FreeArguments : args[k] # "--unknown"
  /\ \A k \in FreeArguments : args[k] = "--cpp-out" => k < Len(args)
Wanted == {args[k] : k \in {j \in FreeArguments : args[j] \in FileNames}}
WantedTwice(f) == \E j, k \in FreeArguments : j < k /\ args[j] = f /\ args[k] = f

\* The definitions of one file, when it holds nothing else.
NameOf(e) == e.xs[2].x
NamesOf(f) == {NameOf(e) : e \in Range(contents[f].exprs)}
Distinct(exprs) ==
  \A j, k \in 1..Len(exprs) : NameOf(exprs[j]) = NameOf(exprs[k]) => j = k
OnlyDefinitions(f) ==
  /\ contents[f].ok
  /\ \A e \in Range(contents[f].exprs) : IsForm(e, "def") /\ IsCore(e)
  /\ Distinct(contents[f].exprs)
IsProgram ==
  /\ \A f \in Wanted : OnlyDefinitions(f)
  /\ \A f, g \in Wanted : f # g => NamesOf(f) \cap NamesOf(g) = {}
  /\ \A f \in Wanted : WantedTwice(f) => contents[f].exprs = <<>>
  /\ \E f \in Wanted : "main" \in NamesOf(f)

\* The program succeeds exactly for a request for help, and for files that all
\* parse and that together define every name once, main among them, and hold
\* nothing else (main.cpp:58-138, command_line.cpp:10-35).
SucceedsForPrograms ==
  pc = "exit" =>
    (result = "success" <=>
       /\ Accepted
       /\ \/ \E k \in FreeArguments : args[k] = "--help"
          \/ Wanted # {} /\ IsProgram)

\* What process_ast accepts is the core language:
\* when all expressions were translated each of them is in it, and when the
\* translation fails the expression it was at is not (bst.cpp:45-145).
AcceptsTheCore ==
  /\ pc = "define" => \A e \in Range(top_level_exprs) : IsCore(e)
  /\ fault # "none" => ~IsCore(top_level_exprs[n])
=============================================================================
