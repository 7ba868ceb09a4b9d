------------------------------- MODULE FcGrammar -------------------------------
(***************************************************************************)
(* The language of the first front end as a grammar over positions:        *)
(* segment i, j of a text is what follows its first i characters, up to    *)
(* the j-th.                                                               *)
(***************************************************************************)
EXTENDS FcSyntax

Over(s, i, j, S) == \A p \in (i + 1)..j : s[p] \in S
Stops(s, j, S) == j < Len(s) => s[j + 1] \notin S
If(condition, x) == IF condition THEN {x} ELSE {}

\* As long as possible, and nothing else by its first character.
Symbols(s, i, j) ==
  If(/\ i < j /\ \A p \in (i + 1)..j : is_symbol_char(s[p])
     /\ j < Len(s) => ~is_symbol_char(s[j + 1])
     /\ s[i + 1] \notin Digits \cup Signs \cup {UTFCHAR_PREFIX, QUOTE_CHAR},
     SymLeaf(SubSeq(s, i + 1, j)))

\* [+-] (0 | nonzero digits) [. digits], as long as possible.
Numbers(s, i, j) ==
  LET k == IF i < j /\ s[i + 1] \in Signs THEN i + 1 ELSE i
      Integer(m) == k < m /\ Over(s, k, m, Digits) /\ (s[k + 1] = "0" => m = k + 1)
      Whole == /\ Integer(j) /\ Stops(s, j, {"."})
               /\ s[k + 1] # "0" => Stops(s, j, Digits)
      Decimal == \E m \in (k + 1)..(j - 2) :
                   Integer(m) /\ s[m + 1] = "." /\ Over(s, m + 1, j, Digits) /\ Stops(s, j, Digits)
  IN  If(Whole \/ Decimal, NumLeaf(SubSeq(s, IF i < j /\ s[i + 1] = "+" THEN i + 2 ELSE i + 1, j)))

Character(s, i, j) ==
  If(j = i + 1 /\ s[j] # STRING_ESCAPE_CHAR, s[j])
    \cup If(j = i + 2 /\ s[i + 1] = STRING_ESCAPE_CHAR /\ s[j] \in Escapes, Unescaped(s[j]))

-----------------------------------------------------------------------------
(* What is made of other segments: `stands' has what they stand for.       *)

\* The rest of a string: up to the first quote, be it an escaped one.
From(stands, c, k, j) ==
  IF c = STRING_QUOTE_CHAR THEN If(k = j, <<>>) ELSE {<<c>> \o t : t \in stands[k]["string"][j]}
Strings(s, stands, i, j) ==
  UNION {UNION {From(stands, c, k, j) : c \in Character(s, i, k)} : k \in (i + 1)..j}

Within(s, stands, i, j, open, close) ==
  IF i + 2 <= j /\ s[i + 1] = open /\ s[j] = close THEN stands[i + 1][close][j - 1] ELSE {}
\* What follows a character of its own.
Behind(s, i, j, c, nodes) == IF i < j /\ s[i + 1] = c THEN nodes ELSE {}

Nodes(s, stands, i, j) ==
  Symbols(s, i, j) \cup Numbers(s, i, j)
    \cup Behind(s, i, j, STRING_QUOTE_CHAR, {StrNode(t) : t \in stands[i + 1]["string"][j]})
    \cup Behind(s, i, j, UTFCHAR_PREFIX, {CharLeaf(c) : c \in Character(s, i + 1, j)})
    \cup Behind(s, i, j, QUOTE_CHAR, {QuoteNode(e) : e \in stands[i + 1]["node"][j]})
    \cup {TupleNode(xs) : xs \in Within(s, stands, i, j, OPEN_TUPLE_CHAR, CLOSE_TUPLE_CHAR)}
    \cup {ApplyNode(Head(xs), Tail(xs)) :
            xs \in Within(s, stands, i, j, OPEN_APPLY_CHAR, CLOSE_APPLY_CHAR) \ {<<>>}}

\* White space, or white space, a node and the rest; in brackets a node is followed by
\* white space or the end.
Forest(s, stands, close, i, j) ==
  If(Over(s, i, j, Blanks), <<>>)
    \cup UNION {{<<e>> \o rest : e \in Nodes(s, stands, q[1], q[2]), rest \in stands[q[2]][close][j]} :
                  q \in {p \in (i..j) \X (i..j) :
                           /\ p[1] < p[2] /\ Over(s, i, p[1], Blanks)
                           /\ close # "end" => p[2] = j \/ s[p[2] + 1] \in Blanks}}

Segments == {"node", "string", "end", CLOSE_TUPLE_CHAR, CLOSE_APPLY_CHAR}
Standing(s, stands, what, i, j) ==
  CASE what = "node" -> Nodes(s, stands, i, j)
    [] what = "string" -> Strings(s, stands, i, j)
    [] OTHER -> Forest(s, stands, what, i, j)
Forests(s) ==
  LET stands[i \in 0..Len(s)] == [what \in Segments |-> [j \in 0..Len(s) |-> Standing(s, stands, what, i, j)]]
  IN  stands[0]["end"][Len(s)]
=============================================================================
