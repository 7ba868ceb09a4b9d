------------------------------ MODULE AstSyntax ------------------------------
(***************************************************************************)
(* The characters of the language and the expressions its parser builds:   *)
(* c2/ast_syntax.{h,cpp} and c2/ast.h.  A character is a member of a set   *)
(* with one letter, one control character and the digits 0 and 1 standing  *)
(* for their classes.                                                      *)
(***************************************************************************)
EXTENDS Integers, Sequences

OPEN_FNAPP_CHAR == "("
CLOSE_FNAPP_CHAR == ")"
OPEN_LIST_CHAR == "["
CLOSE_LIST_CHAR == "]"
STRING_QUOTE_CHAR == "\""
STRING_ESCAPE_CHAR == "\\"
COMMENT_CHAR == ";"

Newline == "LF"
Blanks == {" ", Newline}             \* isspace
Digits == {"0", "1"}                 \* isdigit
Signs == {"+", "-"}
Controls == {"NUL"}                  \* iscntrl and not isspace
Letters == {"a", "n"}                \* all else; "n" is one the escapes know

Characters ==
  {OPEN_FNAPP_CHAR, CLOSE_FNAPP_CHAR, OPEN_LIST_CHAR, CLOSE_LIST_CHAR, STRING_QUOTE_CHAR,
   STRING_ESCAPE_CHAR, COMMENT_CHAR, "."}
    \cup Blanks \cup Digits \cup Signs \cup Controls \cup Letters

\* SPECIAL_CHARS: the fnapp brackets are not among them.
SPECIAL_CHARS ==
  {OPEN_LIST_CHAR, CLOSE_LIST_CHAR, STRING_QUOTE_CHAR, STRING_ESCAPE_CHAR, COMMENT_CHAR}

is_symbol_char(c) == c \notin SPECIAL_CHARS \cup Controls \cup Blanks

\* What the characters after a backslash stand for (\t and \r are like \n).
Escapes == {"0", "n", STRING_ESCAPE_CHAR, STRING_QUOTE_CHAR}
Unescaped(c) == CASE c = "0" -> "NUL"
                  [] c = "n" -> Newline
                  [] OTHER   -> c

Closing(open) == IF open = OPEN_FNAPP_CHAR THEN CLOSE_FNAPP_CHAR ELSE CLOSE_LIST_CHAR

\* ast::Expr: a token or a list.
Token(x, kind) == [is |-> "token", x |-> x, kind |-> kind]
List(fnapp, xs) == [is |-> "list", fnapp |-> fnapp, xs |-> xs]
=============================================================================
