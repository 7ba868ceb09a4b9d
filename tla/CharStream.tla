----------------------------- MODULE CharStream -----------------------------
(***************************************************************************)
(* What util/filereader.h promises its clients, without fread, blocks,     *)
(* leftover bytes or buffer indices: the characters of the file, in order, *)
(* each handed out once.  Which characters are dropped is a function of    *)
(* the file alone.  `unread' is the look-ahead: decoded, not yet consumed. *)
(***************************************************************************)
EXTENDS Utf8

CONSTANTS
  Files,        \* the byte sequences a file may hold
  LookAheads,   \* the arguments of read_ahead_at_least
  Wanted        \* the ASCII characters clients attempt to read

VARIABLES
  file,         \* the bytes of the file
  off,          \* how many of them have been decoded
  unread,       \* decoded characters not consumed yet
  error,        \* what ended the stream early: none, encoding or read
  skipping,     \* a skip_whitespace call is under way
  ret           \* the answer of the last call

vars == <<file, off, unread, error, skipping, ret>>

Something(c) == [ok |-> TRUE, char |-> c]
Nothing == [ok |-> FALSE, char |-> <<>>]
Success == [ok |-> TRUE, char |-> <<>>]

-----------------------------------------------------------------------------
(* The decoding of a file, from the file alone.                            *)

IsNewline(bytes, o) == bytes[o + 1] \in {ASCII_CR, ASCII_LF}

\* A whole sequence, or a byte that cannot start one, lies at offset o.
HasSeq(bytes, o) ==
  /\ o < Len(bytes)
  /\ o + SeqLength(bytes[o + 1]) <= Len(bytes)

CharAt(bytes, o) == Slice(bytes, o, SeqLength(bytes[o + 1]))

Malformed(bytes, o) ==
  /\ HasSeq(bytes, o)
  /\ \/ SeqLength(bytes[o + 1]) = 0
     \/ ~WellFormed(CharAt(bytes, o))

\* o is the offset of the first character that is not a line end.
FirstText(bytes, o) ==
  /\ o < Len(bytes)
  /\ ~IsNewline(bytes, o)
  /\ \A i \in 0..(o - 1) : IsNewline(bytes, i)

\* The character that ends at offset o is one after which a LF is taken
\* for the second half of a CR LF pair: a CR, and also the file's first text
\* character when a CR precedes it (adding it does not clear the CR flag).
AfterCr(bytes, o) ==
  \/ o >= 1 /\ bytes[o] = ASCII_CR
  \/ \E t \in 1..(o - 1) :
       /\ FirstText(bytes, t)
       /\ bytes[t] = ASCII_CR
       /\ t + SeqLength(bytes[t + 1]) = o

\* The character at o never reaches a client.
Dropped(bytes, o) ==
  \/ bytes[o + 1] = ASCII_LF /\ AfterCr(bytes, o)
  \/ CharAt(bytes, o) = UTF8_BOM /\ FirstText(bytes, o)

\* No further character can come.
Exhausted == error # "none" \/ ~HasSeq(file, off)

-----------------------------------------------------------------------------
Init ==
  /\ file \in Files
  /\ off = 0
  /\ unread = <<>>
  /\ error = "none"
  /\ skipping = FALSE
  /\ ret = Nothing

\* Look ahead by one character.
Decode ==
  /\ error = "none"
  /\ HasSeq(file, off)
  /\ ~Malformed(file, off)
  /\ off' = off + SeqLength(file[off + 1])
  /\ unread' = IF Dropped(file, off) THEN unread ELSE Append(unread, CharAt(file, off))
  /\ UNCHANGED <<file, error, skipping, ret>>

\* The stream breaks at a malformed sequence, or wherever a read fails.
Fail ==
  /\ error = "none"
  /\ \/ error' = "encoding" /\ Malformed(file, off)
     \/ error' = "read"
  /\ UNCHANGED <<file, off, unread, skipping, ret>>

NextChar ==
  /\ ~skipping
  /\ unread # <<>>
  /\ ret' = Something(Head(unread))
  /\ unread' = Tail(unread)
  /\ UNCHANGED <<file, off, error, skipping>>

PeekChar ==
  /\ ~skipping
  /\ unread # <<>>
  /\ ret' = Something(Head(unread))
  /\ UNCHANGED <<file, off, unread, error, skipping>>

Attempt(c) ==
  /\ ~skipping
  /\ unread # <<>>
  /\ \/ /\ Head(unread)[1] = c
        /\ ret' = Success
        /\ unread' = Tail(unread)
     \/ /\ Head(unread)[1] # c
        /\ ret' = Nothing
        /\ UNCHANGED unread
  /\ UNCHANGED <<file, off, error, skipping>>

\* next_char, peek_char or attempt, when no character is left.
AnswerNothing ==
  /\ ~skipping
  /\ unread = <<>>
  /\ Exhausted
  /\ ret' = Nothing
  /\ UNCHANGED <<file, off, unread, error, skipping>>

ReadAhead(n) ==
  /\ ~skipping
  /\ \/ Len(unread) >= n /\ ret' = Success
     \/ Len(unread) < n /\ Exhausted /\ ret' = Nothing
  /\ UNCHANGED <<file, off, unread, error, skipping>>

\* skip_whitespace drops white space only, k characters of it, and ends at
\* a character that is none or at the end of the stream.
Skip ==
  \E k \in 0..Len(unread) :
    /\ \A i \in 1..k : IsSpace(unread[i][1])
    /\ unread' = SubSeq(unread, k + 1, Len(unread))
    /\ \/ skipping' = TRUE /\ ret' = ret       \* the call is still under way
       \/ /\ k < Len(unread) => ~IsSpace(unread[k + 1][1])
          /\ k = Len(unread) => Exhausted
          /\ skipping' = FALSE
          /\ ret' = Success
    /\ UNCHANGED <<file, off, error>>

Next ==
  \/ Decode
  \/ Fail
  \/ NextChar
  \/ PeekChar
  \/ \E c \in Wanted : Attempt(c)
  \/ AnswerNothing
  \/ \E n \in LookAheads : ReadAhead(n)
  \/ Skip

Spec == Init /\ [][Next]_vars
=============================================================================
