---------------------------- MODULE MCFileReader ----------------------------
(***************************************************************************)
(* Files for checking FileReader.  Two families: every short file over a   *)
(* byte alphabet with all the classes add_utf8 and the decoder tell apart, *)
(* and longer files that fill the buffer more than once.                   *)
(***************************************************************************)
EXTENDS FileReader

\* 'a', CR, LF, a leading byte of two, a continuation byte, no leading byte.
ShortAlphabet == {97, 13, 10, 195, 191, 255}
ShortFiles == UNION {[1..n -> ShortAlphabet] : n \in 0..4}

a == <<97>>
sp == <<32>>
e2 == <<195, 169>>
e3 == <<226, 130, 172>>
e4 == <<240, 159, 152, 128>>

\* Sequences of every length across block ends, byte order marks, and runs of
\* characters longer than the buffer.
LongFiles ==
  { a \o e2 \o e3 \o e4 \o a,
    a \o a \o e4 \o sp \o e3 \o e2,
    e4 \o e4 \o a,
    UTF8_BOM \o a \o UTF8_BOM \o <<13, 10>> \o a,
    <<10>> \o UTF8_BOM \o sp \o a,
    <<13>> \o UTF8_BOM \o <<10, 10>> \o a,
    a \o <<13, 10, 13, 13, 10>> \o a \o sp \o sp,
    sp \o sp \o sp \o sp \o <<10>> \o sp \o sp \o sp \o sp \o a,
    [i \in 1..10 |-> IF i % 4 = 2 THEN 32 ELSE 97],
    a \o a \o a \o e3 \o <<226, 130>> \o a,
    a \o a \o a \o a \o a \o a \o e4 \o <<240, 159>> }

MCFiles == ShortFiles \cup LongFiles
DrainFiles == {[i \in 1..n |-> 97] : n \in 0..12}
TruncatedFiles == {<<195>>, a \o <<226, 130>>, a \o a \o <<240, 159, 152>>, a}
=============================================================================
