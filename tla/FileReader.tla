----------------------------- MODULE FileReader -----------------------------
(***************************************************************************)
(* The buffered UTF-8 reader, util/filereader.{h,cpp}.                     *)
(*                                                                         *)
(* The reader owns one array of UTF8_BUF_FULL_SIZE characters.  `next' is  *)
(* the index of next_utf8_to_read and `unread' holds the characters from   *)
(* there to utf8_buf_end; what lies before `next' is never read again.     *)
(* refill_read_buf is cut at its loop head, at every character it decodes  *)
(* and at its return, because those are the points where it can stop,      *)
(* recurse, fail or hit the assertion in add_utf8.                         *)
(***************************************************************************)
EXTENDS Utf8, FiniteSets

CONSTANTS
  FREAD_BUF_SIZE,      \* bytes asked of fread at once
  UTF8_BUF_MIN_SIZE,   \* a refill goes on until this many are unread
  Files,               \* the byte sequences a file may hold
  LookAheads,          \* the arguments of read_ahead_at_least
  Wanted               \* the ASCII characters clients attempt to read

MAX_UTF_SEQ_SIZE == 4
UTF8_BUF_FULL_SIZE == UTF8_BUF_MIN_SIZE + FREAD_BUF_SIZE

\* A leftover is shorter than a block, so a block always makes progress.
ASSUME BufferSizes ==
  /\ FREAD_BUF_SIZE \in Nat /\ FREAD_BUF_SIZE >= MAX_UTF_SEQ_SIZE
  /\ UTF8_BUF_MIN_SIZE \in Nat \ {0}
ASSUME FileAssumption == Files \subseteq Seq(Byte)
ASSUME ClientAssumption ==
  /\ LookAheads \subseteq 1..UTF8_BUF_MIN_SIZE
  /\ Wanted \subseteq 0..127

VARIABLES
  file,                  \* the bytes of the file
  pos,                   \* how many of them fread has handed out
  f,                     \* the FILE*: "open" or "null"
  next,                  \* index of next_utf8_to_read in the buffer
  unread,                \* the buffer from there to utf8_buf_end
  fread_buf,             \* refill_read_buf's bytes from p to bytes_end
  leftover,              \* leftover_fread_bytes
  in_line,               \* line the decoder has reached
  utf8_line,             \* line the client has reached
  last_was_cr,           \* last_utf8_added_was_cr
  no_text_yet,           \* no_utf8_chars_added_yet
  input_error,           \* "none", "encoding" or "read"
  pc,                    \* idle, refill, decode, return or aborted
  call,                  \* the call under way
  ret,                   \* the answer of the last call
  off                    \* history: bytes decoded so far

bufVars == <<next, unread>>
addVars == <<in_line, last_was_cr, no_text_yet>>
vars == <<file, pos, f, next, unread, fread_buf, leftover, in_line, utf8_line,
          last_was_cr, no_text_yet, input_error, pc, call, ret, off>>

Something(c) == [ok |-> TRUE, char |-> c]
Nothing == [ok |-> FALSE, char |-> <<>>]
Success == [ok |-> TRUE, char |-> <<>>]

Calls == [op : {"next_char", "peek_char", "skip_whitespace"}, arg : {0}]
           \cup [op : {"read_ahead"}, arg : LookAheads]
           \cup [op : {"attempt"}, arg : Wanted]

Answers == [ok : BOOLEAN, char : {<<>>} \cup Char]

n_unread_chars == Len(unread)
utf8_buf_end == next + Len(unread)
is_eof == f = "null"

Init ==
  /\ file \in Files
  /\ pos = 0
  /\ f = "open"
  /\ next = 0
  /\ unread = <<>>
  /\ fread_buf = <<>>
  /\ leftover = <<>>
  /\ in_line = 1
  /\ utf8_line = 1
  /\ last_was_cr = FALSE
  /\ no_text_yet = TRUE
  /\ input_error = "none"
  /\ pc = "idle"
  /\ call = [op |-> "next_char", arg |-> 0]
  /\ ret = Nothing
  /\ off = 0

-----------------------------------------------------------------------------
(* Client calls.  A call is answered from the buffer, or at once when the  *)
(* handle is gone; otherwise it refills the buffer and answers after that. *)

Consume(n) ==
  /\ next' = next + n
  /\ unread' = SubSeq(unread, n + 1, Len(unread))

\* The number of characters a call must find to be answered from the buffer.
Need(c) == IF c.op = "read_ahead" THEN c.arg ELSE 1

AnswerNextChar ==
  /\ call'.op = "next_char"
  /\ \/ /\ unread # <<>>
        /\ Consume(1)
        /\ ret' = Something(Head(unread))
        /\ utf8_line' = IF Head(unread)[1] \in {ASCII_CR, ASCII_LF}
                          THEN utf8_line + 1 ELSE utf8_line
     \/ /\ unread = <<>>
        /\ ret' = Nothing
        /\ UNCHANGED <<next, unread, utf8_line>>

AnswerPeekChar ==
  /\ call'.op = "peek_char"
  /\ ret' = IF unread # <<>> THEN Something(Head(unread)) ELSE Nothing
  /\ UNCHANGED <<next, unread, utf8_line>>

AnswerReadAhead ==
  /\ call'.op = "read_ahead"
  /\ ret' = IF n_unread_chars >= call'.arg THEN Success ELSE Nothing
  /\ UNCHANGED <<next, unread, utf8_line>>

NextIs(c) == unread # <<>> /\ Head(unread)[1] = c

AnswerAttempt ==
  /\ call'.op = "attempt"
  /\ \/ /\ NextIs(call'.arg)
        /\ Consume(1)
        /\ ret' = Success
     \/ /\ ~NextIs(call'.arg)
        /\ ret' = Nothing
        /\ UNCHANGED <<next, unread>>
  /\ UNCHANGED utf8_line

Answer ==
  /\ pc' = "idle"
  /\ \/ AnswerNextChar
     \/ AnswerPeekChar
     \/ AnswerReadAhead
     \/ AnswerAttempt

\* skip_whitespace: drop the white space in the buffer; when that empties it
\* and the handle is still open, refill and go on.
SkipSpaces ==
  /\ call'.op = "skip_whitespace"
  /\ \E n \in 0..Len(unread) :
       /\ \A i \in 1..n : IsSpace(unread[i][1])
       /\ n < Len(unread) => ~IsSpace(unread[n + 1][1])
       /\ Consume(n)
       /\ \/ /\ n < Len(unread) \/ is_eof
             /\ pc' = "idle"
             /\ ret' = Success
          \/ /\ n = Len(unread) /\ ~is_eof
             /\ pc' = "refill"
             /\ UNCHANGED ret
  /\ UNCHANGED utf8_line

Call ==
  /\ pc = "idle"
  /\ call' \in Calls
  /\ \/ SkipSpaces
     \/ n_unread_chars >= Need(call') /\ Answer
     \/ n_unread_chars < Need(call') /\ is_eof /\ Answer
     \/ /\ call'.op # "skip_whitespace"
        /\ n_unread_chars < Need(call') /\ ~is_eof
        /\ pc' = "refill"
        /\ UNCHANGED <<next, unread, ret, utf8_line>>
  /\ UNCHANGED <<file, pos, f, fread_buf, leftover, addVars, input_error, off>>

Return ==
  /\ pc = "return"
  /\ UNCHANGED call
  /\ SkipSpaces \/ Answer
  /\ UNCHANGED <<file, pos, f, fread_buf, leftover, addVars, input_error, off>>

-----------------------------------------------------------------------------
(* refill_read_buf: the loop head.                                         *)

\* Mutant: the unread part stays where it is.
NeverCompact == UNCHANGED next

\* Move the unread part back to the start of the buffer; an empty unread
\* part is left where it is.
Compact == next' = IF n_unread_chars > 0 THEN 0 ELSE next

\* Mutant: the end of the file is no reason to stop.
RefillOnlyWhenEnough ==
  /\ pc = "refill"
  /\ n_unread_chars >= UTF8_BUF_MIN_SIZE
  /\ pc' = "return"
  /\ UNCHANGED <<file, pos, f, bufVars, fread_buf, leftover, addVars, utf8_line,
                 input_error, call, ret, off>>

\* Enough characters, or nothing left to read and nothing left over.
RefillDone ==
  /\ pc = "refill"
  /\ \/ n_unread_chars >= UTF8_BUF_MIN_SIZE /\ UNCHANGED next
     \/ n_unread_chars < UTF8_BUF_MIN_SIZE /\ is_eof /\ leftover = <<>> /\ Compact
  /\ pc' = "return"
  /\ UNCHANGED <<file, pos, f, unread, fread_buf, leftover, addVars, utf8_line,
                 input_error, call, ret, off>>

\* Mutant: fread writes over the leftover bytes.
BlockOverLeftover(k) ==
  /\ fread_buf' = Slice(file, pos, k)
  /\ leftover' = <<>>
  /\ pos' = pos + k

\* The block is the leftover bytes followed by the k bytes fread delivers.
Block(k) ==
  /\ fread_buf' = leftover \o Slice(file, pos, k)
  /\ leftover' = <<>>
  /\ pos' = pos + k

\* Mutant: the leftover bytes do not count against the block.
full_block == IF is_eof THEN 0 ELSE FREAD_BUF_SIZE

n_bytes_to_read == IF is_eof THEN 0 ELSE FREAD_BUF_SIZE - Len(leftover)

Fread ==
  /\ pc = "refill"
  /\ n_unread_chars < UTF8_BUF_MIN_SIZE
  /\ n_bytes_to_read + Len(leftover) > 0
  /\ Compact
  /\ \/ /\ pos + n_bytes_to_read <= Len(file)
        /\ Block(n_bytes_to_read)
        /\ UNCHANGED f
     \/ /\ pos + n_bytes_to_read > Len(file)      \* short, feof
        /\ Block(Len(file) - pos)
        /\ f' = "null"
  /\ pc' = "decode"
  /\ UNCHANGED <<file, unread, addVars, utf8_line, input_error, call, ret, off>>

\* A short count with ferror, or with neither ferror nor feof: the bytes
\* read and the leftover bytes are discarded.
FreadFails ==
  /\ pc = "refill"
  /\ n_unread_chars < UTF8_BUF_MIN_SIZE
  /\ n_bytes_to_read > 0
  /\ Compact
  /\ leftover' = <<>>
  /\ \E k \in 0..(n_bytes_to_read - 1) :
       pos + k <= Len(file) /\ pos' = pos + k
  /\ f' = "null"
  /\ input_error' = "read"
  /\ pc' = "return"
  /\ UNCHANGED <<file, unread, fread_buf, addVars, utf8_line, call, ret, off>>

-----------------------------------------------------------------------------
(* refill_read_buf: the decoding loop.                                     *)

BlockDone ==
  /\ pc = "decode"
  /\ fread_buf = <<>>
  /\ pc' = "refill"
  /\ UNCHANGED <<file, pos, f, bufVars, fread_buf, leftover, addVars, utf8_line,
                 input_error, call, ret, off>>

\* The length of the sequence at p.
utf8_seq_length == SeqLength(fread_buf[1])

\* The sequence runs past the block: keep its bytes and call
\* refill_read_buf again (a tail call: the caller returns right after it).
SplitSequence ==
  /\ pc = "decode"
  /\ fread_buf # <<>>
  /\ utf8_seq_length > Len(fread_buf)
  /\ leftover' = fread_buf
  /\ fread_buf' = <<>>
  /\ pc' = "refill"
  /\ UNCHANGED <<file, pos, f, bufVars, addVars, utf8_line, input_error, call, ret, off>>

NextSeq == SubSeq(fread_buf, 1, utf8_seq_length)

BadSequence ==
  /\ pc = "decode"
  /\ fread_buf # <<>>
  /\ utf8_seq_length <= Len(fread_buf)
  /\ utf8_seq_length = 0 \/ ~WellFormed(NextSeq)
  /\ f' = "null"
  /\ input_error' = "encoding"
  /\ fread_buf' = <<>>
  /\ pc' = "return"
  /\ UNCHANGED <<file, pos, bufVars, leftover, addVars, utf8_line, call, ret, off>>

\* Mutant: a byte order mark is ignored wherever it occurs.
BomIgnoredAnywhere(c) == (c = <<ASCII_LF>> /\ last_was_cr) \/ c = UTF8_BOM

\* add_utf8's decision whether the character is stored.
Ignored(c) ==
  \/ c = <<ASCII_LF>> /\ last_was_cr
  \/ c = UTF8_BOM /\ no_text_yet

\* Mutants: a LF leaves the CR flag set; a CR LF pair is two lines.
LfKeepsCrFlag(c) ==
  /\ in_line' = IF c[1] \in {ASCII_CR, ASCII_LF} /\ ~Ignored(c) THEN in_line + 1 ELSE in_line
  /\ last_was_cr' = (c = <<ASCII_CR>> \/ (last_was_cr /\ (no_text_yet \/ c = <<ASCII_LF>>)))
  /\ no_text_yet' = (no_text_yet /\ c[1] \in {ASCII_CR, ASCII_LF})
CrLfCountsTwice(c) ==
  /\ in_line' = IF c[1] \in {ASCII_CR, ASCII_LF} THEN in_line + 1 ELSE in_line
  /\ last_was_cr' = CASE c = <<ASCII_CR>> -> TRUE
                      [] c = <<ASCII_LF>> -> FALSE
                      [] OTHER -> last_was_cr /\ no_text_yet
  /\ no_text_yet' = (no_text_yet /\ c[1] \in {ASCII_CR, ASCII_LF})

\* add_utf8's bookkeeping of lines and flags.
CountChar(c) ==
  /\ in_line' = IF c[1] \in {ASCII_CR, ASCII_LF} /\ ~Ignored(c) THEN in_line + 1 ELSE in_line
  /\ last_was_cr' = CASE c = <<ASCII_CR>> -> TRUE
                      [] c = <<ASCII_LF>> -> FALSE
                      [] OTHER -> last_was_cr /\ no_text_yet
  /\ no_text_yet' = (no_text_yet /\ c[1] \in {ASCII_CR, ASCII_LF})

AddUtf8 ==
  /\ pc = "decode"
  /\ fread_buf # <<>>
  /\ utf8_seq_length # 0
  /\ utf8_seq_length <= Len(fread_buf)
  /\ WellFormed(NextSeq)
  /\ CountChar(NextSeq)
  /\ \/ /\ Ignored(NextSeq)
        /\ UNCHANGED <<unread, pc>>
     \/ /\ ~Ignored(NextSeq)
        /\ utf8_buf_end < UTF8_BUF_FULL_SIZE
        /\ unread' = Append(unread, NextSeq)
        /\ UNCHANGED pc
  /\ off' = off + utf8_seq_length
  /\ fread_buf' = SubSeq(fread_buf, utf8_seq_length + 1, Len(fread_buf))
  /\ UNCHANGED <<file, pos, f, next, leftover, utf8_line, input_error, call, ret>>

\* The assertion before the store: the program stops.
AssertFails ==
  /\ pc = "decode"
  /\ fread_buf # <<>>
  /\ utf8_seq_length # 0
  /\ utf8_seq_length <= Len(fread_buf)
  /\ WellFormed(NextSeq)
  /\ ~Ignored(NextSeq)
  /\ utf8_buf_end >= UTF8_BUF_FULL_SIZE
  /\ pc' = "aborted"
  /\ CountChar(NextSeq)
  /\ UNCHANGED <<file, pos, f, bufVars, fread_buf, leftover, utf8_line, input_error,
                 call, ret, off>>

-----------------------------------------------------------------------------
Refill == RefillDone \/ Fread \/ FreadFails \/ BlockDone \/ SplitSequence
            \/ BadSequence \/ AddUtf8 \/ AssertFails

Next == Call \/ Return \/ Refill

Spec == Init /\ [][Next]_vars

\* The program is sequential and fread returns: a call under way keeps
\* running.  No client is obliged to call.
FairSpec == Spec /\ WF_vars(Return \/ Refill)
-----------------------------------------------------------------------------
(* Correctness.                                                            *)

\* The state's types, with the capacities of the C++ arrays: the buffer's
\* UTF8_BUF_FULL_SIZE characters, the block's FREAD_BUF_SIZE bytes on
\* refill_read_buf's stack, and leftover_fread_bytes' MAX_UTF_SEQ_SIZE.
TypeOK ==
  /\ file \in Files
  /\ pos \in 0..Len(file)
  /\ f \in {"open", "null"}
  /\ next \in Nat
  /\ unread \in Seq(Char)
  /\ utf8_buf_end <= UTF8_BUF_FULL_SIZE
  /\ fread_buf \in Seq(Byte) /\ Len(fread_buf) <= FREAD_BUF_SIZE
  /\ leftover \in Seq(Byte) /\ Len(leftover) < MAX_UTF_SEQ_SIZE
  /\ in_line \in Nat /\ utf8_line \in Nat
  /\ last_was_cr \in BOOLEAN /\ no_text_yet \in BOOLEAN
  /\ input_error \in {"none", "encoding", "read"}
  /\ pc \in {"idle", "refill", "decode", "return", "aborted"}
  /\ call \in Calls
  /\ ret \in Answers
  /\ off \in 0..pos

\* refill_read_buf (filereader.cpp:85-134) neither loses, repeats nor reorders
\* a byte when a sequence is cut by the end of a block: while there is no
\* error, the leftover bytes and the block together are the bytes of the file
\* between what was decoded and what fread handed out.
BytesConserved ==
  input_error = "none" => leftover \o fread_buf = Slice(file, off, pos - off)

\* The assertion in add_utf8 (filereader.cpp:66) can only fail in a file of
\* more than UTF8_BUF_FULL_SIZE bytes, and only after a refill found the
\* buffer drained beyond UTF8_BUF_MIN_SIZE: a reader that still holds unread
\* characters when it refills never overflows.
OverflowNeedsDrain ==
  pc = "aborted" => next > UTF8_BUF_MIN_SIZE /\ off >= UTF8_BUF_FULL_SIZE

\* The inductive invariant behind the three properties above.  Where the
\* block and the leftover bytes can be:
ControlInv ==
  /\ pc \in {"idle", "refill", "return"} => fread_buf = <<>>
  /\ pc \in {"decode", "aborted"} => leftover = <<>>
  /\ input_error # "none" => f = "null" /\ pc \in {"idle", "return"}
  /\ f = "null" /\ input_error = "none" => pos = Len(file)

\* The buffer has room for a block read after a compaction, and for one read
\* into a drained buffer unless that was drained beyond UTF8_BUF_MIN_SIZE.
BlockRoom ==
  /\ next > UTF8_BUF_MIN_SIZE \/ utf8_buf_end + Len(fread_buf) <= UTF8_BUF_FULL_SIZE
  /\ utf8_buf_end <= off

IInv == TypeOK /\ BytesConserved /\ ControlInv /\ BlockRoom

CS == INSTANCE CharStream
        WITH error <- input_error,
             skipping <- pc # "idle" /\ call.op = "skip_whitespace"

\* What links the decoder's flags and its pauses to the file: add_utf8's two
\* flags say what the decoded bytes say, a split sequence is kept whole, and a
\* refill returns with enough characters or with the handle gone.
DecoderInv ==
  /\ pc # "aborted" =>
       /\ no_text_yet <=> \A i \in 0..(off - 1) : CS!IsNewline(file, i)
       /\ last_was_cr <=> CS!AfterCr(file, off)
       /\ \A t \in 0..(off - 1) :
            CS!FirstText(file, t) => t + SeqLength(file[t + 1]) <= off
  /\ leftover # <<>> => SeqLength(leftover[1]) > Len(leftover)
  /\ pc = "return" => n_unread_chars >= UTF8_BUF_MIN_SIZE \/ is_eof

\* Blocks, leftover bytes and buffer indices are invisible to clients: every
\* behaviour of the reader is one of the character stream that filereader.h
\* describes (each character once and in order, nothing only at the end or on
\* an error, white space skipped and nothing else).
ImplementsCharStream == CS!Spec

\* The line in an error message is the line of the bad sequence, counting a
\* CR LF pair once (add_utf8), and the client's line (next_char) is not ahead.
LineNumbers ==
  /\ pc # "aborted" =>
       in_line = 1 + Cardinality({o \in 0..(off - 1) :
                                    CS!IsNewline(file, o) /\ ~CS!Dropped(file, o)})
  /\ utf8_line <= in_line

\* The file's last bytes start a sequence they do not finish.
EndsInsideSequence(bytes) ==
  \E o \in 0..(Len(bytes) - 1) : o + SeqLength(bytes[o + 1]) > Len(bytes)

\* A call returns: read ahead, block decoding and the recursion over split
\* sequences terminate on every file that does not end inside a sequence.
CallsReturn ==
  pc # "idle" /\ ~EndsInsideSequence(file) ~> pc \in {"idle", "aborted"}

\* filereader.h:103 and 157, "Return nothing if eof or error": a call returns,
\* on every file.  Refuted: the recursion never ends on an unfinished sequence.
CallsAlwaysReturn == pc # "idle" ~> pc \in {"idle", "aborted"}

\* filereader.h:29-31, "we won't have more than UTF8_BUF_FULL_SIZE utf8 chars
\* there", and the assertion at filereader.cpp:66.  Refuted: an empty unread
\* part is not moved back to the start of the buffer.
NeverOverflows == pc # "aborted"
=============================================================================
