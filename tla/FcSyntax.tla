------------------------------- MODULE FcSyntax -------------------------------
(***************************************************************************)
(* The characters and the nodes of the first front end: fc/ast_syntax.cpp  *)
(* and fc/ast.h.  The digits 0 and 1 stand for theirs, each of the words   *)
(* def and fn for its letters, a and n for the others.                     *)
(***************************************************************************)
EXTENDS Integers, Sequences

OPEN_TUPLE_CHAR == "("
CLOSE_TUPLE_CHAR == ")"
OPEN_APPLY_CHAR == "{"
CLOSE_APPLY_CHAR == "}"
STRING_QUOTE_CHAR == "QUOTE"
STRING_ESCAPE_CHAR == "BACKSLASH"
UTFCHAR_PREFIX == "'"
QUOTE_CHAR == "BACKTICK"

Blanks == {" "}                      \* isspace
Digits == {"0", "1"}                 \* isdigit
Signs == {"+", "-"}
Controls == {"NUL"}                  \* iscntrl and not isspace
Letters == {"a", "n", "def", "fn"}   \* "n" is one the escapes know

SPECIAL_CHARS == {OPEN_TUPLE_CHAR, CLOSE_TUPLE_CHAR, STRING_QUOTE_CHAR, STRING_ESCAPE_CHAR,
                  OPEN_APPLY_CHAR, CLOSE_APPLY_CHAR}
Characters == SPECIAL_CHARS \cup {UTFCHAR_PREFIX, QUOTE_CHAR, "."}
                \cup Blanks \cup Digits \cup Signs \cup Controls \cup Letters
is_symbol_char(c) == c \notin SPECIAL_CHARS \cup Controls \cup Blanks

\* What a backslash and a character stand for (\t and \r are like \n).
Escapes == {"0", "n", STRING_ESCAPE_CHAR, STRING_QUOTE_CHAR}
Unescaped(c) == CASE c = "0" -> "NUL" [] c = "n" -> " " [] OTHER -> c

CharLeaf(c) == [tag |-> "Char", x |-> c]
NumLeaf(x) == [tag |-> "Num", x |-> x]
StrNode(xs) == [tag |-> "Str", xs |-> xs]
\* The symbols of BuiltinNames are compared with others by their addresses.
SymLeaf(name) == [tag |-> "Sym", name |-> name, builtin |-> FALSE]
\* A tuple lies in the arena of the syntax trees, or in that of an evaluation.
TupleIn(arena, xs) == [tag |-> "Tuple", xs |-> xs, arena |-> arena]
TupleNode(xs) == TupleIn(0, xs)
ApplyNode(lambda, args) == [tag |-> "Apply", lambda |-> lambda, args |-> args]
QuoteNode(e) == [tag |-> "Quote", expr |-> e]

-----------------------------------------------------------------------------
(* Nodes with those they refer to, in some arenas, with or without the     *)
(* symbols of BuiltinNames.                                                *)

CONSTANT
  Nestings   \* how deeply nodes may be nested: Nat, or numbers that are large enough
ASSUME NestingsAssumption == Nestings \subseteq Nat

Names == Seq(Characters)
NodesOver(S, arenas, builtins) ==
  [tag : {"Char"}, x : Characters] \cup [tag : {"Num"}, x : Seq(Characters)]
    \cup [tag : {"Str"}, xs : Seq(Characters)]
    \cup [tag : {"Sym"}, name : Names, builtin : builtins]
    \cup [tag : {"Tuple"}, xs : Seq(S), arena : arenas]
    \cup [tag : {"Apply"}, lambda : S, args : Seq(S)]
    \cup [tag : {"Quote"}, expr : S]
NodesIn(arenas, builtins) ==
  LET upTo[n \in Nat] == IF n = 0 THEN {} ELSE NodesOver(upTo[n - 1], arenas, builtins)
  IN  UNION {upTo[n] : n \in Nestings}

Trees == NodesIn({0}, {FALSE})      \* what the parser makes
Values == NodesIn(Nat, BOOLEAN)     \* what evaluation makes of them
=============================================================================
