----------------------------- MODULE MCCompiler -----------------------------
(***************************************************************************)
(* Small programs and command lines for checking Compiler.                 *)
(***************************************************************************)
EXTENDS CoreLanguage

Word(x) == Token(x, "STRING")
Name(x) == Token(x, "QUOTED_STRING")
Def(name, e) == List(TRUE, <<Word("def"), Name(name), e>>)
Fn(names, e) == List(TRUE, <<Word("fn"), List(FALSE, names), e>>)
Let(name, value, e) == List(TRUE, <<Word("let"), Name(name), value, e>>)

\* Forms nested in one another that bind and use two names.
Uses == {Word("x"), Word("y")}
Within(E) ==
  E \cup {Let(n1, v, e) : n1 \in {"x", "y"}, v \in E, e \in E}
    \cup {Fn(ns, e) : ns \in {<<Name("x")>>, <<Name("y"), Name("x")>>, <<Name("x"), Name("x")>>}, e \in E}
    \cup {List(TRUE, <<f, e>>) : f \in E, e \in E}
Nested == Within(Within(Uses) \ {List(TRUE, <<Word("x"), Word("x")>>)})

\* Every short list of these elements, well formed or not.
Elements == {Word("def"), Word("fn"), Word("let"), Word("fnapp"), Word("x"), Name("x"),
             Token("1", "NUMBER"), List(FALSE, <<Name("x")>>), List(FALSE, <<Word("x")>>),
             List(FALSE, <<>>), List(TRUE, <<>>), List(TRUE, <<Word("x")>>),
             Def("x", Word("x"))}
Lists == {List(f, xs) : f \in BOOLEAN, xs \in UNION {[1..k -> Elements] : k \in 0..3}}
           \cup {List(TRUE, <<Word(h)>> \o xs) : h \in {"let", "def"}, xs \in [1..3 -> Elements]}

FileNamesAB == {"a", "b"}
Input(as, a, b) == [args |-> as, contents |-> [f \in FileNamesAB |-> IF f = "a" THEN a ELSE b]]

\* One file with one definition of any of these.
Translated == {Input(<<"a">>, Parsed(<<Def("main", e)>>), Failed) : e \in Nested \cup Lists}

\* Short command lines with every pair of these files.
Arguments == Options \cup FileNamesAB
CommandLines == UNION {[1..k -> Arguments] : k \in 0..3}
                  \cup {<<"--cpp-out">> \o as : as \in [1..3 -> Arguments]}
SmallFiles ==
  {Failed} \cup {Parsed(xs) : xs \in {<<>>,
     <<Def("main", Word("x"))>>,
     <<Def("x", Word("main"))>>,
     <<Def("x", Word("x")), Def("main", Word("y"))>>,
     <<Def("x", Def("main", Word("x")))>>,
     <<Def("main", Word("x")), Word("x")>>,
     <<List(TRUE, <<Word("def"), List(FALSE, <<>>), Word("x")>>)>>}}
Driven == {Input(as, a, b) : as \in CommandLines, a \in SmallFiles, b \in SmallFiles}

MCInputs == Translated \cup Driven

MCWords == {"main", "def", "fn", "let", "fnapp", "x", "y", "1"}
=============================================================================
