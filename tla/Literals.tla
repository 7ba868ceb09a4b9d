------------------------------- MODULE Literals -------------------------------
(***************************************************************************)
(* String literals: src2/common.cpp.  A string is a sequence of            *)
(* characters; those that do not print have names of more than one letter. *)
(***************************************************************************)
EXTENDS Integers, Sequences, SequencesExt

\* An optional string.
NoString == <<>>
Read(s) == <<s>>

\* Escapes: the letter behind the backslash, for the reader and the writer.
EscapesRead ==
  [c \in {"\\", "\"", "n", "r", "t"} |->
    CASE c = "n" -> "LF" [] c = "r" -> "CR" [] c = "t" -> "TAB" [] OTHER -> c]
EscapesWritten ==
  [c \in {"\\", "\"", "BEL", "BS", "FF", "LF", "CR", "TAB", "VT"} |->
    CASE c = "BEL" -> "a" [] c = "BS" -> "b" [] c = "FF" -> "f" [] c = "LF" -> "n"
      [] c = "CR" -> "r" [] c = "TAB" -> "t" [] c = "VT" -> "v" [] OTHER -> c]
HexDigits == {"0", "1", "a", "b", "c"}

\* A byte that does not print and has no letter is written as its code, which
\* {:#x} formats without a backslash: ESC, of code 27, stands for all of them.
Formatted(c) == IF c = "ESC" THEN <<"0", "x", "1", "b">> ELSE <<>>

\* Mutant: a backslash is written as it is.
QuoteWithoutBackslash(s) ==
  LET rest[i \in 1..(Len(s) + 1)] ==
        IF i > Len(s) THEN <<"\"">>
        ELSE (IF s[i] # "\\" /\ s[i] \in DOMAIN EscapesWritten
              THEN <<"\\", EscapesWritten[s[i]]>> ELSE <<s[i]>>) \o rest[i + 1]
  IN  <<"\"">> \o rest[1]

\* A hexadecimal digit behind a formatted code starts a new literal.
QuoteStringForCLiteral(s) ==
  LET avoid_hexdigit(i) == i > 1 /\ Formatted(s[i - 1]) # <<>>
      rest[i \in 1..(Len(s) + 1)] ==
        IF i > Len(s) THEN <<"\"">>
        ELSE (IF avoid_hexdigit(i) /\ s[i] \in HexDigits THEN <<"\"", "\"">> ELSE <<>>)
               \o (IF s[i] \in DOMAIN EscapesWritten THEN <<"\\", EscapesWritten[s[i]]>>
                   ELSE IF Formatted(s[i]) # <<>> THEN Formatted(s[i])
                   ELSE <<s[i]>>)
               \o rest[i + 1]
  IN  <<"\"">> \o rest[1]

\* Nothing for a backslash at the end or before another character.
Unescape(s) ==
  LET rest[i \in 1..(Len(s) + 2)] ==
        IF i > Len(s) THEN <<>>
        ELSE IF s[i] # "\\" THEN <<s[i]>> \o rest[i + 1]
        ELSE <<EscapesRead[s[i + 1]]>> \o rest[i + 2]
      escapes[i \in 1..(Len(s) + 2)] ==   \* all escapes from i on are known
        \/ i > Len(s)
        \/ s[i] # "\\" /\ escapes[i + 1]
        \/ s[i] = "\\" /\ i < Len(s) /\ s[i + 1] \in DOMAIN EscapesRead /\ escapes[i + 2]
  IN  IF escapes[1] THEN Read(rest[1]) ELSE NoString

\* The precondition of the assertion: a literal is closed.
IsClosed(ctor) == Len(ctor) >= 2 /\ Last(ctor) = "\""
TryGetStringLiteral(ctor) ==
  IF ctor[1] # "\"" THEN NoString ELSE Unescape(SubSeq(ctor, 2, Len(ctor) - 1))
=============================================================================
