--------------------------------- MODULE MCFc ---------------------------------
(***************************************************************************)
(* Short texts with every cut, programs of up to three definitions and     *)
(* uses, and command lines.                                                *)
(***************************************************************************)
EXTENDS Fc

MCNestings == {7}

File(chars, ends, cuts) == [chars |-> chars, ends |-> ends, cuts |-> cuts]
OneFile(file) == [args |-> <<"a">>, files |-> [a |-> file]]
TextsOver(S, n) == UNION {[1..k -> S] : k \in 0..n}

Texts == TextsOver({"(", ")", "n", " "}, 4) \cup TextsOver({"{", "}", "n", "BACKTICK"}, 4)
           \cup TextsOver({"0", "1", ".", "-", "+", "n"}, 3)
           \cup {<<"(">> \o t : t \in TextsOver({")", STRING_QUOTE_CHAR, "'", "1", "n", STRING_ESCAPE_CHAR}, 3)}
           \cup {<<STRING_QUOTE_CHAR>> \o t : t \in TextsOver({STRING_QUOTE_CHAR, STRING_ESCAPE_CHAR, "n", "0"}, 4)}
           \cup {<<"1", ".">> \o t : t \in TextsOver({"1", ".", "("}, 2)}
Parsed == {OneFile(File(t, e, c)) : t \in Texts, e \in {"eof"}, c \in {{}}}
            \cup UNION {{OneFile(File(t, e, c)) : e \in {"eof", "error"}, c \in SUBSET (1..(Len(t) - 1))} :
                          t \in {t \in Texts : Len(t) \in 1..4 /\ t[1] \in {"(", "{"}}}

\* The text of a tree.
RECURSIVE Text(_), Texted(_)
Texted(xs) == IF xs = <<>> THEN <<>>
              ELSE IF Len(xs) = 1 THEN Text(xs[1])
              ELSE Text(Head(xs)) \o <<" ">> \o Texted(Tail(xs))
Text(e) ==
  CASE e.tag = "Sym" -> e.name
    [] e.tag = "Num" -> e.x
    [] e.tag = "Quote" -> <<QUOTE_CHAR>> \o Text(e.expr)
    [] e.tag = "Tuple" -> <<"(">> \o Texted(e.xs) \o <<")">>
    [] e.tag = "Apply" -> <<"{">> \o Texted(<<e.lambda>> \o e.args) \o <<"}">>
Program(es) == OneFile(File(Texted(es), "eof", {}))

A == SymLeaf(<<"a">>)
Def == SymLeaf(<<"def">>)
Fn == SymLeaf(<<"fn">>)
One == NumLeaf(<<"1">>)
Pair == TupleNode(<<A>>)
Operands == {A, Def, Fn, One, Pair, TupleNode(<<>>), QuoteNode(A), QuoteNode(Pair), QuoteNode(Def),
           ApplyNode(Def, <<QuoteNode(SymLeaf(<<"n">>)), A>>)}
Exprs == {ApplyNode(Def, <<v, w>>) : v, w \in Operands} \cup {ApplyNode(v, <<>>) : v \in Operands}
           \cup {ApplyNode(A, <<QuoteNode(A), One>>), ApplyNode(QuoteNode(Def), <<QuoteNode(A), One>>),
                 ApplyNode(ApplyNode(Def, <<Def, One>>), <<QuoteNode(A), Def>>),
                 QuoteNode(ApplyNode(Fn, <<Pair, A>>)),
                 ApplyNode(QuoteNode(ApplyNode(Fn, <<Pair, A>>)), <<One>>)}
Short == Operands \cup {ApplyNode(A, <<>>), ApplyNode(Def, <<A, One>>), ApplyNode(Def, <<QuoteNode(A), One>>),
                      ApplyNode(A, <<QuoteNode(SymLeaf(<<"n">>)), One>>)}
Defining == {ApplyNode(Def, <<QuoteNode(A), v>>) : v \in Operands}
Programs == {Program(<<e, g>>) : e \in Exprs, g \in Short}
              \cup {Program(<<e, g, h>>) : e \in Defining, g, h \in Short}

\* Command lines over two files.
Small == {Missing, File(<<>>, "eof", {}), File(<<"(">>, "eof", {}), File(<<"1">>, "error", {}),
          File(Text(ApplyNode(Def, <<QuoteNode(A), One>>)), "eof", {}), File(<<"a">>, "eof", {})}
Driven == {[args |-> as, files |-> [a |-> f, b |-> g]] :
             as \in TextsOver({"a", "b", "--help", "--cpp-out", "--other"}, 3), f, g \in Small}

MCInputs == Parsed \cup Programs \cup Driven
=============================================================================
