------------------------------- MODULE FcParser -------------------------------
(***************************************************************************)
(* The parser of the first front end, fc/ast_builder.cpp, on a file:       *)
(*   chars  the characters the reader delivers,                            *)
(*   ends   what comes behind them, "eof" or "error",                      *)
(*   cuts   where its buffer ends: after so many characters nothing is     *)
(*          buffered until a function that reads ahead is called.          *)
(* A function of the parser is given how many characters were consumed.    *)
(* Its result has a node, and tells how many are consumed then and whether *)
(* the next one was looked at; or the parser returns nothing, or the       *)
(* assertion of peek_wora ends the program.  A loop's result is what it    *)
(* still reads.                                                            *)
(***************************************************************************)
EXTENDS FcSyntax

Read(node, p, looked) == [how |-> "node", node |-> node, p |-> p, looked |-> looked]
Nothing == [how |-> "none"]
Aborted == [how |-> "aborted"]
\* A result made into a node, or read in front of the rest.
Made(result, node) == IF result.how = "node" THEN [result EXCEPT !.node = node] ELSE result
InFront(x, rest) == Made(rest, <<x>> \o rest.node)

AtEnd(f, p) == p = Len(f.chars)
Next1(f, p) == f.chars[p + 1]
SeesOneOf(f, p, S) == ~AtEnd(f, p) /\ Next1(f, p) \in S
\* As many characters of S as there are.
Past(f, p, S) ==
  CHOOSE q \in p..Len(f.chars) : (\A i \in (p + 1)..q : f.chars[i] \in S) /\ ~SeesOneOf(f, q, S)

skip_whitespace(f, p) == Past(f, p, Blanks)

read_utf8char(f, p) ==
  IF AtEnd(f, p) THEN Nothing
  ELSE IF Next1(f, p) # STRING_ESCAPE_CHAR THEN Read(Next1(f, p), p + 1, FALSE)
  ELSE IF SeesOneOf(f, p + 1, Escapes) THEN Read(Unescaped(Next1(f, p + 1)), p + 2, FALSE)
  ELSE Nothing

\* A sign, a zero or digits, and a dot with digits.  A plus sign is not stored.
read_num(f, p) ==
  LET start == IF SeesOneOf(f, p, Signs) THEN p + 1 ELSE p
      whole == IF SeesOneOf(f, start, {"0"}) THEN start + 1 ELSE Past(f, start, Digits)
      end == IF SeesOneOf(f, whole, {"."}) THEN Past(f, whole + 1, Digits) ELSE whole
      first == IF Next1(f, p) = "+" THEN p + 2 ELSE p + 1
  IN  IF whole = start \/ end = whole + 1 THEN Nothing
      ELSE Read(NumLeaf(SubSeq(f.chars, first, end)), end, TRUE)

read_sym(f, p) ==
  LET end == Past(f, p, {c \in Characters : is_symbol_char(c)})
  IN  IF end = p THEN Nothing ELSE Read(SymLeaf(SubSeq(f.chars, p + 1, end)), end, TRUE)

\* peek_wora asserts that a character is buffered.
Buffered(f, r) == ~AtEnd(f, r.p) /\ (r.looked \/ r.p \notin f.cuts)

-----------------------------------------------------------------------------
(* The functions that call each other; `read' has what they and their loops *)
(* read from each place on.                                                *)

\* The character is compared after unescaping: an escaped quote ends the string.
read_str(f, read, p) ==
  LET c == read_utf8char(f, p)
  IN  IF c.how = "none" THEN Nothing
      ELSE IF c.node = STRING_QUOTE_CHAR THEN Read(<<>>, c.p, FALSE)
      ELSE InFront(c.node, read["string"][c.p])

\* read_tuple, read_apply and read_quote, called for their first character.
read_expr(f, read, p) ==
  LET tuple == read[CLOSE_TUPLE_CHAR][p + 1]
      apply == read[CLOSE_APPLY_CHAR][p + 1]
      string == read["string"][p + 1]
      char == read_utf8char(f, p + 1)
      quoted == read["expr"][p + 1]
  IN  CASE AtEnd(f, p) -> Nothing
        [] SeesOneOf(f, p, {OPEN_TUPLE_CHAR}) -> Made(tuple, TupleNode(tuple.node))
        [] SeesOneOf(f, p, {OPEN_APPLY_CHAR}) ->
             IF apply.how = "node" /\ apply.node = <<>> THEN Nothing
             ELSE Made(apply, ApplyNode(Head(apply.node), Tail(apply.node)))
        [] SeesOneOf(f, p, {STRING_QUOTE_CHAR}) -> Made(string, StrNode(string.node))
        [] SeesOneOf(f, p, {UTFCHAR_PREFIX}) -> Made(char, CharLeaf(char.node))
        [] SeesOneOf(f, p, Signs \cup Digits) -> read_num(f, p)
        [] SeesOneOf(f, p, {QUOTE_CHAR}) -> Made(quoted, QuoteNode(quoted.node))
        [] OTHER -> read_sym(f, p)

\* Mutant: what follows an item is not looked at.
read_items(f, read, close, p) ==
  LET q == skip_whitespace(f, p)
      item == read_expr(f, read, q)
  IN  IF AtEnd(f, q) THEN Nothing
      ELSE IF Next1(f, q) = close THEN Read(<<>>, q + 1, FALSE)
      ELSE IF item.how # "node" THEN item
      ELSE InFront(item.node, read[close][item.p])

read_tuple_to_vector(f, read, close, p) ==
  LET q == skip_whitespace(f, p)
      item == read_expr(f, read, q)
  IN  IF AtEnd(f, q) THEN Nothing
      ELSE IF Next1(f, q) = close THEN Read(<<>>, q + 1, FALSE)
      ELSE IF item.how # "node" THEN item
      ELSE IF ~Buffered(f, item) THEN Aborted
      ELSE IF ~SeesOneOf(f, item.p, {close} \cup Blanks) THEN Nothing
      ELSE InFront(item.node, read[close][item.p])

run(f, read, p) ==
  LET q == skip_whitespace(f, p)
      expr == read_expr(f, read, q)
  IN  IF AtEnd(f, q) THEN IF f.ends = "error" THEN Nothing ELSE Read(<<>>, q, TRUE)
      ELSE IF expr.how # "node" THEN expr
      ELSE InFront(expr.node, read["run"][expr.p])

Loops == {"run", "string", CLOSE_TUPLE_CHAR, CLOSE_APPLY_CHAR}
Reading(f, read, what, p) ==
  CASE what = "expr" -> read_expr(f, read, p)
    [] what = "string" -> read_str(f, read, p)
    [] what = "run" -> run(f, read, p)
    [] OTHER -> read_tuple_to_vector(f, read, what, p)
parse_filereader_into_ast(f) ==
  LET read[what \in {"expr"} \cup Loops] == [p \in 0..Len(f.chars) |-> Reading(f, read, what, p)]
  IN  read["run"][0]
=============================================================================
