------------------------------ MODULE Compiler ------------------------------
(***************************************************************************)
(* The compiler c2, from its command line to its exit: c2/command_line.cpp *)
(* and run_fc_with_parsed_command_line of c2/main.cpp, over the parser,    *)
(* which this module knows by its result for a file, and process_ast,      *)
(* which is module Bst.                                                    *)
(***************************************************************************)
EXTENDS Bst

CONSTANTS
  FileNames,      \* the arguments that are no options
  Inputs          \* command lines, with what parsing each file gives

Options == {"--help", "--cpp-out", "--unknown"}

\* The parser's message or the expressions of the file.
Failed == [ok |-> FALSE]
Parsed(xs) == [ok |-> TRUE, exprs |-> xs]

ASSUME ArgumentAssumption ==
  /\ \A input \in Inputs :
       /\ input.args \in Seq(Options \cup FileNames)
       /\ input.contents \in [FileNames -> {Failed} \cup [ok : {TRUE}, exprs : Seq(Expr)]]
  /\ FileNames \cap Options = {}

VARIABLES
  args,                 \* the command line
  contents,             \* the files
  pc,
  n,                    \* arguments, files, expressions or definitions done
  cl,                   \* CommandLineOptions
  ok,                   \* no file has failed
  toplevel_variables,   \* the definitions, by name
  result                \* how the program ended

driverVars == <<args, contents, pc, n, cl, ok, toplevel_variables, result>>
vars == <<top_level_exprs, bstVars, driverVars>>

Init ==
  /\ \E input \in Inputs : args = input.args /\ contents = input.contents
  /\ pc = "arguments"
  /\ n = 0
  /\ cl = [help |-> FALSE, files |-> <<>>]
  /\ ok = TRUE
  /\ toplevel_variables = <<>>
  /\ result = "none"
  /\ top_level_exprs = <<>>
  /\ calls = <<>>
  /\ bst = <<>>
  /\ fault = "none"

Exit(how) ==
  /\ pc' = "exit"
  /\ result' = how
  /\ UNCHANGED <<n, cl, ok, toplevel_variables>>

GoTo(next) ==
  /\ pc' = next
  /\ n' = 0
  /\ UNCHANGED <<cl, ok, toplevel_variables, result>>

-----------------------------------------------------------------------------
(* parse_command_line.                                                     *)

ParseArgument ==
  /\ pc = "arguments" /\ n < Len(args)
  /\ LET a == args[n + 1]
     IN  \/ /\ a \in FileNames
            /\ cl' = [cl EXCEPT !.files = Append(@, a)]
            /\ n' = n + 1
            /\ UNCHANGED <<pc, ok, toplevel_variables, result>>
         \/ /\ a = "--help"
            /\ cl' = [cl EXCEPT !.help = TRUE]
            /\ n' = n + 1
            /\ UNCHANGED <<pc, ok, toplevel_variables, result>>
         \/ /\ a = "--cpp-out" /\ n + 2 <= Len(args)
            /\ n' = n + 2
            /\ UNCHANGED <<pc, cl, ok, toplevel_variables, result>>
         \/ /\ a = "--cpp-out" /\ n + 2 > Len(args)
            /\ Exit("failure")
         \/ /\ a = "--unknown"
            /\ Exit("failure")
  /\ UNCHANGED <<top_level_exprs, bstVars, args, contents>>

\* c2main and the beginning of run_fc_with_parsed_command_line.
ArgumentsDone ==
  /\ pc = "arguments" /\ n = Len(args)
  /\ \/ cl.help /\ Exit("success")
     \/ ~cl.help /\ cl.files = <<>> /\ Exit("failure")
     \/ ~cl.help /\ cl.files # <<>> /\ GoTo("parse")
  /\ UNCHANGED <<top_level_exprs, bstVars, args, contents>>

-----------------------------------------------------------------------------
(* run_fc_with_parsed_command_line.                                        *)

\* A file that fails is reported, and the next one is parsed.
ParseFile ==
  /\ pc = "parse" /\ n < Len(cl.files)
  /\ n' = n + 1
  /\ LET parsed == contents[cl.files[n + 1]]
     IN  \/ /\ parsed.ok
            /\ top_level_exprs' = top_level_exprs \o parsed.exprs
            /\ UNCHANGED ok
         \/ /\ ~parsed.ok
            /\ ok' = FALSE
            /\ UNCHANGED top_level_exprs
  /\ UNCHANGED <<bstVars, args, contents, pc, cl, toplevel_variables, result>>

AllParsed ==
  /\ pc = "parse" /\ n = Len(cl.files)
  /\ IF ok THEN GoTo("translate") ELSE Exit("failure")
  /\ UNCHANGED <<top_level_exprs, bstVars, args, contents>>

Translating == pc = "translate" /\ fault = "none"

TranslateNext ==
  /\ Translating /\ calls = <<>> /\ n < Len(top_level_exprs)
  /\ Start(n + 1)
  /\ n' = n + 1
  /\ UNCHANGED <<top_level_exprs, bst, fault, args, contents, pc, cl, ok,
                 toplevel_variables, result>>

Translate ==
  /\ Translating
  /\ ProcessAst
  /\ UNCHANGED <<top_level_exprs, driverVars>>

\* A failed CHECK ends the process; main catches an exception.
TranslationFails ==
  /\ pc = "translate" /\ fault # "none"
  /\ Exit(IF fault = "exception" THEN "failure" ELSE fault)
  /\ UNCHANGED <<top_level_exprs, bstVars, args, contents>>

AllTranslated ==
  /\ Translating /\ calls = <<>> /\ n = Len(top_level_exprs)
  /\ GoTo("define")
  /\ UNCHANGED <<top_level_exprs, bstVars, args, contents>>

\* Mutant: the CHECK for a second definition is missing.
NeverRedefines(name) == FALSE

Redefines(name) == name \in DOMAIN toplevel_variables

Define ==
  /\ pc = "define" /\ n < Len(top_level_exprs)
  /\ LET x == bst[<<n + 1>>]
     IN  \/ /\ x.type = "Def" /\ ~Redefines(x.name)
            /\ toplevel_variables' = With(toplevel_variables, x.name, n + 1)
            /\ n' = n + 1
            /\ UNCHANGED <<pc, cl, ok, result>>
         \/ /\ x.type = "Def" /\ Redefines(x.name)
            /\ Exit("check")
         \/ /\ x.type # "Def"
            /\ Exit("unreachable")
  /\ UNCHANGED <<top_level_exprs, bstVars, args, contents>>

\* The entry point is looked up; compile_function only checks its arguments.
EntryPoint ==
  /\ pc = "define" /\ n = Len(top_level_exprs)
  /\ Exit(IF "main" \in DOMAIN toplevel_variables THEN "success" ELSE "check")
  /\ UNCHANGED <<top_level_exprs, bstVars, args, contents>>

\* A process that has exited takes no step; one that is stuck elsewhere is a
\* deadlock.
Terminated == pc = "exit" /\ UNCHANGED vars

Next ==
  \/ ParseArgument \/ ArgumentsDone
  \/ ParseFile \/ AllParsed
  \/ TranslateNext \/ Translate \/ TranslationFails \/ AllTranslated
  \/ Define \/ EntryPoint
  \/ Terminated

Spec == Init /\ [][Next]_vars
=============================================================================
