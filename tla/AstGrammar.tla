----------------------------- MODULE AstGrammar -----------------------------
(***************************************************************************)
(* The language the parser accepts, as a grammar over positions of the     *)
(* text: the reference the parser is checked against.  Segment i, j is the *)
(* text after its first i characters up to and including the j-th.         *)
(***************************************************************************)
EXTENDS AstSyntax

\* The segment is over S.  What follows position j is in S, or nothing is.
AllIn(s, i, j, S) == \A p \in (i + 1)..j : s[p] \in S
Before(s, j, S) == j < Len(s) => s[j + 1] \in S

\* p lies in a comment that starts after position i.
InComment(s, i, p) ==
  \E c \in (i + 1)..p : s[c] = COMMENT_CHAR /\ \A q \in c..p : s[q] # Newline

\* White space and comments; a comment reaches to the end of its line.
Blank(s, i, j) ==
  /\ \A p \in (i + 1)..j : s[p] \in Blanks \/ InComment(s, i, p)
  /\ j < Len(s) /\ i < j => ~InComment(s, i, j)

\* The longest run of symbol characters that starts no other item.
Symbols(s, i, j) ==
  IF /\ i < j
     /\ \A p \in (i + 1)..j : is_symbol_char(s[p])
     /\ s[i + 1] \notin Digits \cup Signs \cup {OPEN_FNAPP_CHAR}
     /\ Before(s, j, {c \in Characters : ~is_symbol_char(c)})
    THEN {Token(SubSeq(s, i + 1, j), "STRING")} ELSE {}

\* [+-] (0 | nonzero digits) [. digits], as long as possible; a plus is dropped.
Numbers(s, i, j) ==
  LET signed == i < j /\ s[i + 1] \in Signs
      k == IF signed THEN i + 1 ELSE i
      Integer(m) == /\ k < m /\ AllIn(s, k, m, Digits)
                    /\ s[k + 1] = "0" => m = k + 1
      Whole == /\ Integer(j)
               /\ Before(s, j, Characters \ {"."})
               /\ s[k + 1] # "0" => Before(s, j, Characters \ Digits)
      Decimal == \E m \in (k + 1)..(j - 2) :
                   /\ Integer(m)
                   /\ s[m + 1] = "."
                   /\ AllIn(s, m + 1, j, Digits)
                   /\ Before(s, j, Characters \ Digits)
  IN  IF Whole \/ Decimal
        THEN {Token(SubSeq(s, IF i < j /\ s[i + 1] = "+" THEN i + 2 ELSE i + 1, j), "NUMBER")}
        ELSE {}

\* What was read from the opening quote up to position p, of a string that
\* starts after position i: the characters they stand for, and whether the last
\* one escapes the next one.
Quoted(s, i, j) ==
  LET read[p \in (i + 1)..j] ==
        IF p = i + 1 THEN [escapes |-> FALSE, value |-> <<>>]
        ELSE LET c == IF read[p - 1].escapes THEN Unescaped(s[p]) ELSE s[p]
                 escapes == s[p] = STRING_ESCAPE_CHAR /\ ~read[p - 1].escapes
             IN  [escapes |-> escapes,
                  value |-> read[p - 1].value \o (IF escapes THEN <<>> ELSE <<c>>)]
  IN read

\* From a quote to the next one, escaped or not (see ReadEscape); a
\* backslash that is not escaped itself escapes the next character.
Strings(s, i, j) ==
  LET read == Quoted(s, i, j)
  IN  IF /\ i + 2 <= j
         /\ s[i + 1] = STRING_QUOTE_CHAR /\ s[j] = STRING_QUOTE_CHAR
         /\ \A p \in (i + 2)..(j - 1) : s[p] # STRING_QUOTE_CHAR
         /\ \A p \in (i + 2)..(j - 1) : read[p].escapes => s[p + 1] \in Escapes
        THEN {Token(read[j - 1].value, "QUOTED_STRING")} ELSE {}

\* Inside what a segment can stand: in the file, or in the brackets that a
\* closing character ends.
Ends == {"end", CLOSE_LIST_CHAR, CLOSE_FNAPP_CHAR}

\* A list of what may stand between its brackets.
Lists(s, forest, m, k) ==
  IF k >= m + 2 /\ s[m + 1] \in {OPEN_LIST_CHAR, OPEN_FNAPP_CHAR} /\ s[k] = Closing(s[m + 1])
    THEN {List(s[m + 1] = OPEN_FNAPP_CHAR, xs) :
            xs \in forest[m + 1][Closing(s[m + 1])][k - 1]}
    ELSE {}

Items(s, forest, m, k) ==
  Symbols(s, m, k) \cup Numbers(s, m, k) \cup Strings(s, m, k) \cup Lists(s, forest, m, k)

\* In a list, an item starts with no closing character and is followed by white
\* space, a comment or the end of the list, which is at j.
Fits(s, close, m, k, j) ==
  close # "end" => /\ s[m + 1] # close
                   /\ k = j \/ s[k + 1] \in Blanks \cup {COMMENT_CHAR}

\* Nothing but white space, or white space, an item and the rest.
Segment(s, forest, close, i, j) ==
  (IF Blank(s, i, j) THEN {<<>>} ELSE {})
    \cup UNION {{<<e>> \o rest : e \in Items(s, forest, p[1], p[2]), rest \in forest[p[2]][close][j]} :
                  p \in {q \in (i..j) \X (i..j) :
                           /\ q[1] < q[2]
                           /\ Blank(s, i, q[1])
                           /\ Fits(s, close, q[1], q[2], j)}}

\* The forests that the text can stand for.
Forests(s) ==
  LET forest[i \in 0..Len(s)] ==
        [close \in Ends |-> [j \in 0..Len(s) |-> Segment(s, forest, close, i, j)]]
  IN forest[0]["end"][Len(s)]
=============================================================================
