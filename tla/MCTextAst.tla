------------------------------- MODULE MCTextAst -------------------------------
(***************************************************************************)
(* Small vectors of lines for checking TextAst.                            *)
(***************************************************************************)
EXTENDS TextTree

Lines(indents, rests) == {i \o r : i \in indents, r \in rests}
UpTo(n, S) == UNION {[1..k -> S] : k \in 0..n}

Indents == {<<>>, <<" ">>, <<" ", " ">>, <<" ", " ", " ">>, <<"TAB">>}
Word == {<<"a", ":">>}
Indented == UpTo(5, Lines(Indents, Word) \cup {<<" ">>})

\* Lines of one to four tokens, with literals and variables.
Rests == {<<"a", ":">>, <<"a">>, <<":">>,
          <<"a", ":", " ", "$", "v">>, <<"a", ":", "TAB", "b", " ", "$", "v">>,
          <<"$", "v", ":", " ", "c">>, <<"$", "v", ":">>, <<"$", ":", " ", "$", "v">>,
          <<"a", ":", " ", "\"", "b", " ", "\\", "\"", "\"">>,
          <<"a", ":", " ", "\"", "b">>, <<"a", ":", " ", "\"", "\\">>,
          <<"\"", "a", "\"", ":">>, <<"a", ":", " ", "b", "\"", " ", "\"", "\"", "c">>}
Worded == UpTo(2, Lines(Indents, Rests)) \cup UpTo(3, Lines({<<>>, <<" ">>}, Rests))

\* Literals of up to four characters.
Quoted == {<<<<"a", ":", " ", "\"">> \o s \o <<"\"">>>> :
             s \in UpTo(4, {"a", "n", "\\", "\"", " ", "ESC", "TAB"})}

MCInputs == Indented \cup Worded \cup Quoted
=============================================================================
