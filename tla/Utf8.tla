-------------------------------- MODULE Utf8 --------------------------------
(***************************************************************************)
(* The byte classes the reader and the parser branch on: util/utf.h's      *)
(* tests on one byte, and the characters they are compared with.  A byte   *)
(* is a number below 256, a character the sequence of its 1..4 bytes (the  *)
(* bytes of Utf8Char's array that size() spans).                           *)
(***************************************************************************)
EXTENDS Integers, Sequences

Byte == 0..255

ASCII_LF == 10
ASCII_CR == 13

UTF8_BOM == <<239, 187, 191>>

\* Length announced by a leading byte; 0 for a byte that cannot lead.
SeqLength(b) ==
  CASE b \in 0..127   -> 1
    [] b \in 192..223 -> 2
    [] b \in 224..239 -> 3
    [] b \in 240..247 -> 4
    [] OTHER          -> 0

IsContinuation(b) == b \in 128..191

\* isspace() in the C locale: HT, LF, VT, FF, CR and the space.
IsSpace(b) == b = 32 \/ b \in 9..13

\* Characters: what the reader's buffer holds.
Char == [1..1 -> Byte] \cup [1..2 -> Byte] \cup [1..3 -> Byte] \cup [1..4 -> Byte]

WellFormed(c) == \A i \in 2..Len(c) : IsContinuation(c[i])

Slice(bytes, at, n) == SubSeq(bytes, at + 1, at + n)
=============================================================================
