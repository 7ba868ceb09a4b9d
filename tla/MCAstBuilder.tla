---------------------------- MODULE MCAstBuilder ----------------------------
(***************************************************************************)
(* Texts for checking AstBuilder: every short text over alphabets that mix *)
(* the characters which matter to one another.                             *)
(***************************************************************************)
EXTENDS AstBuilder

TextsOver(S, n) == UNION {[1..k -> S] : k \in 0..n}

ListTexts == TextsOver({"[", "]", "(", ")", "a", " "}, 5)
StringTexts == {<<"\"">> \o t : t \in TextsOver({"\"", "\\", "n", "a", "0"}, 4)}
NumberTexts == TextsOver({"0", "1", ".", "-", "+", "a"}, 4)
ItemTexts == {<<"[">> \o t : t \in TextsOver({"]", "\"", "a", "1", ";", "LF"}, 4)}
OtherTexts == TextsOver({"NUL", "\\", "]", ";", "LF", " "}, 3)

MCTexts == ListTexts \cup StringTexts \cup NumberTexts \cup ItemTexts \cup OtherTexts
FewTexts == TextsOver({"[", "]", "a", " "}, 4)
=============================================================================
