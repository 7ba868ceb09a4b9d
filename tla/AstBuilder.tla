----------------------------- MODULE AstBuilder -----------------------------
(***************************************************************************)
(* The parser, c2/ast_builder.cpp, over a reader that promises what        *)
(* CharStream says and one thing more, which FileReader's DecoderInv       *)
(* states: a refill ends with UTF8_BUF_MIN_SIZE characters unread or with  *)
(* the handle gone.                                                        *)
(*                                                                         *)
(* read_expr, read_list, read_list_to_vector and read_expr again recurse:  *)
(* `frames' is that part of the C++ stack, one frame for each list being   *)
(* read.  A step of this module consumes at most one character.            *)
(***************************************************************************)
EXTENDS AstGrammar

CONSTANTS
  Texts,               \* the characters a file may decode to
  UTF8_BUF_MIN_SIZE,   \* unread characters a refill aims at
  FREAD_BUF_SIZE       \* bytes it reads at once

ASSUME TextAssumption == Texts \subseteq Seq(Characters)
ASSUME SizeAssumption == UTF8_BUF_MIN_SIZE \in Nat \ {0} /\ FREAD_BUF_SIZE \in Nat \ {0}

VARIABLES
  text,        \* the reader: all the characters it can deliver,
  ends,        \* what comes after them: "eof" or "error",
  rp,          \* how many were consumed,
  ahead,       \* how many more are in its buffer,
  gone,        \* and whether its handle is gone
  pc,          \* where the parser is
  frames,      \* the lists being read, innermost last
  xs,          \* the token being read
  mx,          \* the expression a list got from read_expr, if any
  state,       \* read_num's state
  top_level_exprs,
  error        \* the kind of message run returns

readerVars == <<text, ends, rp, ahead, gone>>
treeVars == <<frames, mx, top_level_exprs>>
tokenVars == <<xs, state>>
vars == <<readerVars, pc, treeVars, tokenVars, error>>

NumStates == {"NEED_SIGN_OR_GO_ON", "NEED_SINGLE_ZERO_OR_NONZERO_INTEGER",
              "FINISHING_NONZERO_INTEGER", "MAYBE_DECIMAL_DOT", "AFTER_DECIMAL_DOT"}

Init ==
  /\ text \in Texts
  /\ ends \in {"eof", "error"}
  /\ rp = 0
  /\ ahead = 0
  /\ gone = FALSE
  /\ pc = "skip"
  /\ frames = <<>>
  /\ xs = <<>>
  /\ mx = <<>>
  /\ state = "NEED_SIGN_OR_GO_ON"
  /\ top_level_exprs = <<>>
  /\ error = "none"

-----------------------------------------------------------------------------
(* The reader.                                                             *)

remaining == Len(text) - rp
next == text[rp + 1]

\* The control points at which the parser calls a function that reads ahead;
\* at "item" and "follow" it calls attempt_wora and peek_wora.
ReadingAhead == {"skip", "comment", "str", "escape", "num", "sym"}

RefillEnough ==
  /\ ahead' \in UTF8_BUF_MIN_SIZE..(UTF8_BUF_MIN_SIZE + FREAD_BUF_SIZE - 1)
  /\ ahead' <= remaining
  /\ UNCHANGED gone

RefillRest ==
  /\ ahead' = remaining
  /\ gone' = TRUE

Refill ==
  /\ pc \in ReadingAhead
  /\ ahead = 0 /\ ~gone
  /\ RefillEnough \/ RefillRest
  /\ UNCHANGED <<text, ends, rp, pc, treeVars, tokenVars, error>>

\* What peek_char and next_char find.
Sees(c) == ahead > 0 /\ next = c
SeesOneOf(S) == ahead > 0 /\ next \in S
PeekBufferOnly == ahead = 0      \* mutant: peek_char that does not refill
SeesNothing == ahead = 0 /\ gone

Consume ==
  /\ rp' = rp + 1
  /\ ahead' = ahead - 1
  /\ UNCHANGED <<text, ends, gone>>

-----------------------------------------------------------------------------
(* Results.                                                                *)

Fail(why) ==
  /\ pc' = "failed"
  /\ error' = why
  /\ UNCHANGED <<treeVars, tokenVars>>

\* report_error without a message: what it says depends on the reader.
WhyNothing == IF ends = "error" THEN "input" ELSE "end of file"

\* An expression is complete and the lists `outer' are being read: run
\* stores it, a list first looks at what follows it.
Built(e, outer) ==
  /\ frames' = outer
  /\ \/ /\ outer = <<>>
        /\ top_level_exprs' = Append(top_level_exprs, e)
        /\ pc' = "skip"
        /\ UNCHANGED mx
     \/ /\ outer # <<>>
        /\ mx' = <<e>>
        /\ pc' = "follow"
        /\ UNCHANGED top_level_exprs
  /\ xs' = <<>>
  /\ UNCHANGED <<state, error>>

-----------------------------------------------------------------------------
(* skip_whitespace_and_comments.                                           *)

SkipWhitespace ==
  /\ pc = "skip"
  /\ SeesOneOf(Blanks)
  /\ Consume
  /\ UNCHANGED <<pc, treeVars, tokenVars, error>>

StartComment ==
  /\ pc = "skip"
  /\ Sees(COMMENT_CHAR)
  /\ Consume
  /\ pc' = "comment"
  /\ UNCHANGED <<treeVars, tokenVars, error>>

SkipDone ==
  /\ pc = "skip"
  /\ SeesNothing \/ SeesOneOf(Characters \ (Blanks \cup {COMMENT_CHAR}))
  /\ pc' = "item"
  /\ UNCHANGED <<readerVars, treeVars, tokenVars, error>>

\* Mutant: only the end of the line ends a comment.
CommentToNewline ==
  /\ pc = "comment"
  /\ ahead > 0
  /\ Consume
  /\ pc' = IF next = Newline THEN "skip" ELSE pc
  /\ UNCHANGED <<treeVars, tokenVars, error>>

\* Until the line number changes or nothing comes.
Comment ==
  /\ pc = "comment"
  /\ \/ /\ ahead > 0
        /\ Consume
        /\ pc' = IF next = Newline THEN "skip" ELSE pc
     \/ /\ SeesNothing
        /\ pc' = "skip"
        /\ UNCHANGED readerVars
  /\ UNCHANGED <<treeVars, tokenVars, error>>

-----------------------------------------------------------------------------
(* run's and read_list_to_vector's loops.                                  *)

InList == frames # <<>>
frame == frames[Len(frames)]
Outer == SubSeq(frames, 1, Len(frames) - 1)
close_char == Closing(frame.open)

\* Mutant: the reader's error is not looked at.
FinishRegardless ==
  /\ pc = "item"
  /\ ~InList
  /\ ahead = 0
  /\ pc' = "done"
  /\ UNCHANGED <<readerVars, treeVars, tokenVars, error>>

\* run has no more characters: an error of the reader, or the result.
Finish ==
  /\ pc = "item"
  /\ ~InList
  /\ ahead = 0
  /\ \/ /\ ends = "error"
        /\ Fail("input")
     \/ /\ ends = "eof"
        /\ pc' = "done"
        /\ UNCHANGED <<treeVars, tokenVars, error>>
  /\ UNCHANGED readerVars

\* A list has no more characters.
MissingClose ==
  /\ pc = "item"
  /\ InList
  /\ ahead = 0
  /\ Fail("missing char")
  /\ UNCHANGED readerVars

CloseList ==
  /\ pc = "item"
  /\ InList
  /\ Sees(close_char)
  /\ Consume
  /\ Built(List(frame.open = OPEN_FNAPP_CHAR, frame.xs), Outer)

\* peek_wora: it asserts that a character is in the buffer.
Follow ==
  /\ pc = "follow"
  /\ \/ /\ ahead = 0
        /\ pc' = "aborted"
        /\ UNCHANGED <<treeVars, tokenVars, error>>
     \/ /\ SeesOneOf({close_char, COMMENT_CHAR} \cup Blanks)
        /\ frames' = Append(Outer, [frame EXCEPT !.xs = @ \o mx])
        /\ mx' = <<>>
        /\ pc' = "skip"
        /\ UNCHANGED <<top_level_exprs, tokenVars, error>>
     \/ /\ SeesOneOf(Characters \ ({close_char, COMMENT_CHAR} \cup Blanks))
        /\ Fail("unexpected char")
  /\ UNCHANGED readerVars

-----------------------------------------------------------------------------
(* read_expr: the first character decides.                                 *)

StartsItem == pc = "item" /\ ahead > 0 /\ (InList => next # close_char)

StartList ==
  /\ StartsItem
  /\ SeesOneOf({OPEN_LIST_CHAR, OPEN_FNAPP_CHAR})
  /\ Consume
  /\ frames' = Append(frames, [open |-> next, xs |-> <<>>])
  /\ pc' = "skip"
  /\ UNCHANGED <<mx, top_level_exprs, tokenVars, error>>

StartStr ==
  /\ StartsItem
  /\ Sees(STRING_QUOTE_CHAR)
  /\ Consume
  /\ pc' = "str"
  /\ UNCHANGED <<treeVars, tokenVars, error>>

StartNum ==
  /\ StartsItem
  /\ SeesOneOf(Digits \cup Signs)
  /\ pc' = "num"
  /\ state' = "NEED_SIGN_OR_GO_ON"
  /\ UNCHANGED <<readerVars, treeVars, xs, error>>

StartSym ==
  /\ StartsItem
  /\ SeesOneOf(Characters \ ({OPEN_LIST_CHAR, OPEN_FNAPP_CHAR, STRING_QUOTE_CHAR}
                               \cup Digits \cup Signs))
  /\ pc' = "sym"
  /\ UNCHANGED <<readerVars, treeVars, tokenVars, error>>

-----------------------------------------------------------------------------
(* read_sym and read_str.                                                  *)

ReadSym ==
  /\ pc = "sym"
  /\ \/ /\ SeesOneOf({c \in Characters : is_symbol_char(c)})
        /\ Consume
        /\ xs' = Append(xs, next)
        /\ UNCHANGED <<pc, treeVars, state, error>>
     \/ /\ SeesNothing \/ SeesOneOf({c \in Characters : ~is_symbol_char(c)})
        /\ UNCHANGED readerVars
        /\ IF xs # <<>>
             THEN Built(Token(xs, "STRING"), frames)
             ELSE Fail("unexpected char")

\* The character that read_utf8char returns to read_str.
StrChar(c) ==
  IF c = STRING_QUOTE_CHAR
    THEN Built(Token(xs, "QUOTED_STRING"), frames)
    ELSE /\ xs' = Append(xs, c)
         /\ pc' = "str"
         /\ UNCHANGED <<treeVars, state, error>>

ReadStr ==
  /\ pc = "str"
  /\ \/ /\ SeesNothing
        /\ Fail("missing char")
        /\ UNCHANGED readerVars
     \/ /\ Sees(STRING_ESCAPE_CHAR)
        /\ Consume
        /\ pc' = "escape"
        /\ UNCHANGED <<treeVars, tokenVars, error>>
     \/ /\ SeesOneOf(Characters \ {STRING_ESCAPE_CHAR})
        /\ Consume
        /\ StrChar(next)

\* The escaped character goes back to read_str like any other: an escaped
\* quote ends the string too.
ReadEscape ==
  /\ pc = "escape"
  /\ \/ /\ SeesNothing
        /\ Fail(WhyNothing)
        /\ UNCHANGED readerVars
     \/ /\ SeesOneOf(Escapes)
        /\ Consume
        /\ StrChar(Unescaped(next))
     \/ /\ SeesOneOf(Characters \ Escapes)
        /\ Consume
        /\ Fail("invalid escape")

-----------------------------------------------------------------------------
(* read_num.                                                               *)

\* next_char, with the character stored in the token unless it is a plus.
Take(s) ==
  /\ Consume
  /\ xs' = IF next = "+" THEN xs ELSE Append(xs, next)
  /\ state' = s
  /\ UNCHANGED <<pc, treeVars, error>>

NumFails ==
  /\ Fail(IF SeesNothing THEN WhyNothing ELSE "unexpected char")
  /\ UNCHANGED readerVars

NumDone == Built(Token(xs, "NUMBER"), frames) /\ UNCHANGED readerVars

SeesNoneOf(S) == SeesNothing \/ SeesOneOf(Characters \ S)

\* read_expr saw a character, so peek_char answers in this state.
NeedSign ==
  /\ state = "NEED_SIGN_OR_GO_ON"
  /\ \/ SeesOneOf(Signs) /\ Take("NEED_SINGLE_ZERO_OR_NONZERO_INTEGER")
     \/ /\ SeesOneOf(Characters \ Signs)
        /\ state' = "NEED_SINGLE_ZERO_OR_NONZERO_INTEGER"
        /\ UNCHANGED <<readerVars, pc, treeVars, xs, error>>

NeedInteger ==
  /\ state = "NEED_SINGLE_ZERO_OR_NONZERO_INTEGER"
  /\ \/ Sees("0") /\ Take("MAYBE_DECIMAL_DOT")
     \/ SeesOneOf(Digits \ {"0"}) /\ Take("FINISHING_NONZERO_INTEGER")
     \/ SeesNoneOf(Digits) /\ NumFails

FinishInteger ==
  /\ state = "FINISHING_NONZERO_INTEGER"
  /\ \/ SeesOneOf(Digits) /\ Take(state)
     \/ Sees(".") /\ Take("AFTER_DECIMAL_DOT")
     \/ SeesNoneOf(Digits \cup {"."}) /\ NumDone

MaybeDot ==
  /\ state = "MAYBE_DECIMAL_DOT"
  /\ \/ Sees(".") /\ Take("AFTER_DECIMAL_DOT")
     \/ SeesNoneOf({"."}) /\ NumDone

\* Mutant: a number may end in its dot.
AfterDotMaybeNothing ==
  /\ state = "AFTER_DECIMAL_DOT"
  /\ \/ SeesOneOf(Digits) /\ Take(state)
     \/ SeesNoneOf(Digits) /\ NumDone

AfterDot ==
  /\ state = "AFTER_DECIMAL_DOT"
  /\ \/ SeesOneOf(Digits) /\ Take(state)
     \/ SeesNoneOf(Digits) /\ xs[Len(xs)] = "." /\ NumFails
     \/ SeesNoneOf(Digits) /\ xs[Len(xs)] # "." /\ NumDone

ReadNum ==
  /\ pc = "num"
  /\ NeedSign \/ NeedInteger \/ FinishInteger \/ MaybeDot \/ AfterDot

-----------------------------------------------------------------------------
Next ==
  \/ Refill
  \/ SkipWhitespace \/ StartComment \/ SkipDone \/ Comment
  \/ Finish \/ MissingClose \/ CloseList \/ Follow
  \/ StartList \/ StartStr \/ StartNum \/ StartSym
  \/ ReadSym \/ ReadStr \/ ReadEscape \/ ReadNum

Spec == Init /\ [][Next]_vars

\* One thread that is never blocked for good.
FairSpec == Spec /\ WF_vars(Next)
-----------------------------------------------------------------------------
(* Correctness.                                                            *)

\* The parser returns a tree exactly for the texts of the grammar, and the tree
\* they stand for: nothing lost, reordered or attached to the wrong list,
\* wherever the reader's refills fall (ast_builder.cpp:41-353).
ParsesTheGrammar ==
  /\ pc = "done" => Forests(text) = {top_level_exprs}
  /\ pc = "failed" /\ ends = "eof" => Forests(text) = {}

\* A file that could not be read to its end yields no tree, although the end
\* of the characters ends a token like any delimiter does and the reader's
\* error is looked at only in run's loop (ast_builder.cpp:47-51); and run never
\* returns an empty list of messages for it.
NoTreeFromBrokenInput ==
  /\ pc = "done" => ends = "eof" /\ gone /\ rp = Len(text)
  /\ pc = "failed" => error # "none"

\* The assertion in peek_wora (filereader.h:141) can only fail in a list, and
\* there only where the input ends or right behind a nested list or a string,
\* the two items whose reading does not look at the next character.
AbortOnlyBehindAClosedItem ==
  pc = "aborted" =>
    /\ InList /\ ahead = 0
    /\ gone \/ text[rp] \in {CLOSE_LIST_CHAR, CLOSE_FNAPP_CHAR, STRING_QUOTE_CHAR}

\* The parser comes to an end on every input, however it is cut by refills.
ParseEnds == <>(pc \in {"done", "failed", "aborted"})

\* filereader.h:137, "because already read ahead previously", and the
\* assertion at filereader.h:141.  Refuted: read_list_to_vector does not read
\* ahead behind an item.
ReadAheadBeforePeek == pc # "aborted"

=============================================================================
