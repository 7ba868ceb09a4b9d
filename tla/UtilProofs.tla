----------------------------- MODULE UtilProofs -----------------------------
(***************************************************************************)
(* Proofs about the two utilities of src/util that keep state of their     *)
(* own.                                                                    *)
(*                                                                         *)
(* FileReader, for every buffer size, every set of files and every way a   *)
(* read can fail: the inductive invariant, byte conservation and where the *)
(* assertion in add_utf8 can fail; the decoder's flags; the reader         *)
(* implements the character stream; line numbers.                          *)
(*                                                                         *)
(* Arena, at the end of the module, for every page size and every sequence *)
(* of requests: no byte is handed out twice, blocks lie aligned within     *)
(* their pages, and a call opens at most one page.                         *)
(***************************************************************************)
EXTENDS FileReader, Arena, FiniteSetTheorems, SequenceTheorems, TLAPS

-----------------------------------------------------------------------------
(* Slices: what fread copies out of a file and what is left of a block or  *)
(* a buffer after its first elements were consumed.                        *)

\* A slice within a sequence has the requested length and the sequence's
\* elements (what fread copies into refill_read_buf's block).
LEMMA SliceProperties ==
  ASSUME NEW s \in Seq(Byte), NEW at \in Nat, NEW n \in Nat, at + n <= Len(s)
  PROVE  /\ Slice(s, at, n) \in Seq(Byte)
         /\ Len(Slice(s, at, n)) = n
         /\ \A i \in 1..n : Slice(s, at, n)[i] = s[at + i]
<1>1. \A i \in (at + 1)..(at + n) : s[i] \in Byte
  BY LenProperties, ElementOfSeq
<1>2. /\ SubSeq(s, at + 1, at + n) \in Seq(Byte)
      /\ Len(SubSeq(s, at + 1, at + n)) = n
      /\ \A i \in 1..n : SubSeq(s, at + 1, at + n)[i] = s[at + i]
  BY <1>1, SubSeqProperties
<1>3. QED
  BY <1>2 DEF Slice

\* Two adjacent slices make one (leftover bytes followed by new ones).
LEMMA SliceConcat ==
  ASSUME NEW s \in Seq(Byte), NEW at \in Nat, NEW m \in Nat, NEW n \in Nat,
         at + m + n <= Len(s)
  PROVE  Slice(s, at, m) \o Slice(s, at + m, n) = Slice(s, at, m + n)
<1>1. /\ at + 1 \in 1..(Len(s) + 1)
      /\ at + m \in ((at + 1) - 1)..Len(s)
      /\ at + m + n \in (at + m)..Len(s)
  BY LenProperties
<1>2. SubSeq(s, at + 1, at + m) \o SubSeq(s, (at + m) + 1, at + m + n)
        = SubSeq(s, at + 1, at + m + n)
  BY <1>1, ConcatAdjacentSubSeq
<1>3. QED
  BY <1>2 DEF Slice

\* Dropping or keeping the first k elements of a slice.
LEMMA SliceSplit ==
  ASSUME NEW s \in Seq(Byte), NEW at \in Nat, NEW n \in Nat, at + n <= Len(s),
         NEW k \in 0..n
  PROVE  /\ SubSeq(Slice(s, at, n), 1, k) = Slice(s, at, k)
         /\ SubSeq(Slice(s, at, n), k + 1, n) = Slice(s, at + k, n - k)
<1> DEFINE t == Slice(s, at, n)
<1>1. /\ t \in Seq(Byte) /\ Len(t) = n
      /\ \A i \in 1..n : t[i] = s[at + i]
  BY SliceProperties
<1>2. SubSeq(t, 1, k) = Slice(s, at, k)
  <2>1. /\ SubSeq(t, 1, k) \in Seq(Byte) /\ Len(SubSeq(t, 1, k)) = k
        /\ \A i \in 1..k : SubSeq(t, 1, k)[i] = t[i]
    <3>1. \A i \in 1..k : t[i] \in Byte
      BY <1>1, ElementOfSeq
    <3>2. QED
      BY <3>1, SubSeqProperties
  <2>2. /\ Slice(s, at, k) \in Seq(Byte) /\ Len(Slice(s, at, k)) = k
        /\ \A i \in 1..k : Slice(s, at, k)[i] = s[at + i]
    <3>1. Len(s) \in Nat
      BY LenProperties
    <3>2. k \in Nat /\ at + k <= Len(s)
      BY <3>1
    <3>3. QED
      BY <3>2, SliceProperties
  <2>3. ASSUME NEW i \in 1..k PROVE SubSeq(t, 1, k)[i] = Slice(s, at, k)[i]
    <3>1. i \in 1..n
      OBVIOUS
    <3>2. SubSeq(t, 1, k)[i] = t[i] /\ Slice(s, at, k)[i] = s[at + i]
      BY <2>1, <2>2
    <3>3. QED
      BY <1>1, <3>1, <3>2
  <2>4. QED
    BY <2>1, <2>2, <2>3, SeqEqual
<1>3. SubSeq(t, k + 1, n) = Slice(s, at + k, n - k)
  <2>1. /\ SubSeq(t, k + 1, n) \in Seq(Byte) /\ Len(SubSeq(t, k + 1, n)) = n - k
        /\ \A i \in 1..(n - k) : SubSeq(t, k + 1, n)[i] = t[k + i]
    <3>1. \A i \in (k + 1)..n : t[i] \in Byte
      BY <1>1, ElementOfSeq
    <3>2. QED
      BY <3>1, SubSeqProperties
  <2>2. /\ Slice(s, at + k, n - k) \in Seq(Byte) /\ Len(Slice(s, at + k, n - k)) = n - k
        /\ \A i \in 1..(n - k) : Slice(s, at + k, n - k)[i] = s[(at + k) + i]
    <3>1. Len(s) \in Nat
      BY LenProperties
    <3>2. at + k \in Nat /\ n - k \in Nat /\ (at + k) + (n - k) <= Len(s)
      BY <3>1
    <3>3. QED
      BY <3>2, SliceProperties
  <2>3. ASSUME NEW i \in 1..(n - k)
        PROVE  SubSeq(t, k + 1, n)[i] = Slice(s, at + k, n - k)[i]
    <3>1. k + i \in 1..n /\ at + (k + i) = (at + k) + i
      OBVIOUS
    <3>2. t[k + i] = s[at + (k + i)]
      BY <1>1, <3>1
    <3>3. QED
      BY <3>1, <3>2, <2>1, <2>2
  <2>4. QED
    BY <2>1, <2>2, <2>3, SeqEqual
<1>4. QED
  BY <1>2, <1>3

\* The first n bytes of a block, n being a sequence length, are a character.
LEMMA FirstChar ==
  ASSUME NEW s \in Seq(Byte), NEW n \in 1..4, n <= Len(s)
  PROVE  SubSeq(s, 1, n) \in Char
<1>1. \A i \in 1..n : s[i] \in Byte
  BY ElementOfSeq
<1>2. SubSeq(s, 1, n) \in Seq(Byte) /\ Len(SubSeq(s, 1, n)) = n
  BY <1>1, SubSeqProperties
<1>3. SubSeq(s, 1, n) \in [1..n -> Byte]
  BY <1>2, LenProperties
<1>4. QED
  BY <1>3 DEF Char

LEMMA CharIsBytes == \A c \in Char : c \in Seq(Byte)
<1> TAKE c \in Char
<1>1. PICK n \in {1, 2, 3, 4} : c \in [1..n -> Byte]
  BY DEF Char
<1>2. n \in Nat
  OBVIOUS
<1>3. QED
  BY <1>1, <1>2, SeqDef

\* What is left of a sequence after its first n elements.
LEMMA Rest ==
  ASSUME NEW S, NEW s \in Seq(S), NEW n \in 0..Len(s)
  PROVE  /\ SubSeq(s, n + 1, Len(s)) \in Seq(S)
         /\ Len(SubSeq(s, n + 1, Len(s))) = Len(s) - n
<1>1. \A i \in (n + 1)..Len(s) : s[i] \in S
  BY ElementOfSeq
<1>2. QED
  BY <1>1, SubSeqProperties, LenProperties

LEMMA SeqLengthRange == \A b \in Byte : SeqLength(b) \in 0..4
BY DEF SeqLength, Byte

-----------------------------------------------------------------------------
(* The reader.                                                             *)

\* Consuming characters moves `next' towards the end of the buffer and leaves
\* the end where it is.
LEMMA ConsumeEffect ==
  ASSUME TypeOK, NEW n \in 0..Len(unread), Consume(n)
  PROVE  /\ next' \in Nat /\ next' >= next
         /\ unread' \in Seq(Char)
         /\ next' + Len(unread') = next + Len(unread)
<1>1. unread \in Seq(Char) /\ next \in Nat /\ Len(unread) \in Nat
  BY LenProperties DEF TypeOK
<1>2. /\ SubSeq(unread, n + 1, Len(unread)) \in Seq(Char)
      /\ Len(SubSeq(unread, n + 1, Len(unread))) = Len(unread) - n
  BY <1>1, Rest
<1>3. unread' \in Seq(Char) /\ Len(unread') = Len(unread) - n
  BY <1>2 DEF Consume
<1>4. next' = next + n
  BY DEF Consume
<1>5. QED
  BY <1>1, <1>3, <1>4

\* Answering a call touches nothing but the consumed prefix of the buffer,
\* and only a reader with an open handle goes back to refilling.
LEMMA AnswerEffect ==
  ASSUME TypeOK, call' \in Calls, SkipSpaces \/ Answer
  PROVE  /\ next' \in Nat /\ next' >= next
         /\ unread' \in Seq(Char)
         /\ next' + Len(unread') = next + Len(unread)
         /\ utf8_line' \in Nat
         /\ ret' \in Answers
         /\ pc' \in {"idle", "refill"}
         /\ pc' = "refill" => f = "open"
<1>1. /\ unread \in Seq(Char) /\ next \in Nat /\ Len(unread) \in Nat
      /\ utf8_line \in Nat /\ ret \in Answers /\ f \in {"open", "null"}
  BY LenProperties DEF TypeOK
<1>2. Nothing \in Answers /\ Success \in Answers
  BY DEF Nothing, Success, Answers
<1>3. unread # <<>> => Head(unread) \in Char /\ 1 \in 0..Len(unread)
  BY <1>1, HeadTailProperties, EmptySeq
<1>4. \A c \in Char : Something(c) \in Answers
  BY DEF Something, Answers
<1>5. ASSUME UNCHANGED <<next, unread>>
      PROVE  /\ next' \in Nat /\ next' >= next /\ unread' \in Seq(Char)
             /\ next' + Len(unread') = next + Len(unread)
  BY <1>1, <1>5
<1>6. CASE AnswerNextChar /\ pc' = "idle"
  <2>1. CASE unread # <<>> /\ Consume(1) /\ ret' = Something(Head(unread))
                /\ utf8_line' = IF Head(unread)[1] \in {ASCII_CR, ASCII_LF}
                                  THEN utf8_line + 1 ELSE utf8_line
    <3>1. /\ next' \in Nat /\ next' >= next /\ unread' \in Seq(Char)
          /\ next' + Len(unread') = next + Len(unread)
      BY <1>3, <2>1, ConsumeEffect
    <3>2. utf8_line' \in Nat
      BY <1>1, <2>1
    <3>3. ret' \in Answers
      BY <1>3, <1>4, <2>1
    <3>4. QED
      BY <1>6, <3>1, <3>2, <3>3
  <2>2. CASE ret' = Nothing /\ UNCHANGED <<next, unread, utf8_line>>
    BY <1>1, <1>2, <1>5, <1>6, <2>2
  <2>3. QED
    BY <1>6, <2>1, <2>2 DEF AnswerNextChar
<1>7. CASE AnswerPeekChar /\ pc' = "idle"
  <2>1. ret' \in Answers
    BY <1>2, <1>3, <1>4, <1>7 DEF AnswerPeekChar
  <2>2. QED
    BY <1>1, <1>5, <1>7, <2>1 DEF AnswerPeekChar
<1>8. CASE AnswerReadAhead /\ pc' = "idle"
  <2>1. ret' \in Answers
    BY <1>2, <1>8 DEF AnswerReadAhead
  <2>2. QED
    BY <1>1, <1>5, <1>8, <2>1 DEF AnswerReadAhead
<1>9. CASE AnswerAttempt /\ pc' = "idle"
  <2>1. ret' \in Answers /\ UNCHANGED utf8_line
    BY <1>2, <1>9 DEF AnswerAttempt
  <2>2. CASE NextIs(call'.arg) /\ Consume(1)
    <3>1. 1 \in 0..Len(unread)
      BY <1>3, <2>2 DEF NextIs
    <3>2. QED
      BY <1>1, <1>9, <2>1, <2>2, <3>1, ConsumeEffect
  <2>3. CASE UNCHANGED <<next, unread>>
    BY <1>1, <1>5, <1>9, <2>1, <2>3
  <2>4. QED
    BY <1>9, <2>2, <2>3 DEF AnswerAttempt
<1>10. CASE SkipSpaces
  <2>1. PICK n \in 0..Len(unread) :
          /\ Consume(n)
          /\ \/ (n < Len(unread) \/ is_eof) /\ pc' = "idle" /\ ret' = Success
             \/ (n = Len(unread) /\ ~is_eof) /\ pc' = "refill" /\ UNCHANGED ret
    BY <1>10 DEF SkipSpaces
  <2>2. ret' \in Answers /\ utf8_line' \in Nat
    BY <1>1, <1>2, <1>10, <2>1 DEF SkipSpaces
  <2>3. pc' \in {"idle", "refill"} /\ (pc' = "refill" => f = "open")
    BY <1>1, <2>1 DEF is_eof
  <2>4. QED
    BY <2>1, <2>2, <2>3, ConsumeEffect
<1>11. QED
  BY <1>6, <1>7, <1>8, <1>9, <1>10 DEF Answer

-----------------------------------------------------------------------------
(* The inductive invariant, action by action.                              *)

LEMMA TypeFacts ==
  ASSUME TypeOK
  PROVE  /\ file \in Seq(Byte) /\ Len(file) \in Nat
         /\ pos \in Nat /\ pos <= Len(file) /\ off \in Nat /\ off <= pos
         /\ f \in {"open", "null"} /\ next \in Nat
         /\ unread \in Seq(Char) /\ Len(unread) \in Nat
         /\ fread_buf \in Seq(Byte) /\ Len(fread_buf) \in Nat
         /\ leftover \in Seq(Byte) /\ Len(leftover) \in Nat /\ Len(leftover) < 4
         /\ FREAD_BUF_SIZE \in Nat /\ FREAD_BUF_SIZE >= 4
         /\ UTF8_BUF_MIN_SIZE \in Nat /\ UTF8_BUF_MIN_SIZE >= 1
         /\ UTF8_BUF_FULL_SIZE = UTF8_BUF_MIN_SIZE + FREAD_BUF_SIZE
<1>1. file \in Seq(Byte) /\ Len(file) \in Nat
  BY FileAssumption, LenProperties DEF TypeOK
<1>2. QED
  BY <1>1, BufferSizes, LenProperties DEF TypeOK, MAX_UTF_SEQ_SIZE, UTF8_BUF_FULL_SIZE

\* The part of TypeFacts about numbers.
LEMMA NumberFacts ==
  ASSUME TypeOK
  PROVE  /\ Len(file) \in Nat /\ pos \in Nat /\ pos <= Len(file) /\ off \in Nat /\ off <= pos
         /\ next \in Nat /\ Len(unread) \in Nat
         /\ Len(fread_buf) \in Nat /\ Len(leftover) \in Nat
         /\ FREAD_BUF_SIZE \in Nat /\ UTF8_BUF_MIN_SIZE \in Nat
         /\ UTF8_BUF_FULL_SIZE = UTF8_BUF_MIN_SIZE + FREAD_BUF_SIZE
BY TypeFacts

LEMMA InitIInv == Init => IInv
<1> SUFFICES ASSUME Init PROVE IInv
  OBVIOUS
<1>1. file \in Seq(Byte) /\ Len(file) \in Nat
  BY FileAssumption, LenProperties DEF Init
<1>2. /\ <<>> \in Seq(Char) /\ <<>> \in Seq(Byte) /\ Len(<<>>) = 0
  BY EmptySeq
<1>3. call \in Calls /\ ret \in Answers
  BY DEF Init, Calls, Answers, Nothing
<1>4. TypeOK
  <2>1. /\ pos \in 0..Len(file) /\ off \in 0..pos /\ next \in Nat
        /\ in_line \in Nat /\ utf8_line \in Nat
    BY <1>1 DEF Init
  <2>2. /\ unread \in Seq(Char) /\ utf8_buf_end <= UTF8_BUF_FULL_SIZE
        /\ fread_buf \in Seq(Byte) /\ Len(fread_buf) <= FREAD_BUF_SIZE
        /\ leftover \in Seq(Byte) /\ Len(leftover) < MAX_UTF_SEQ_SIZE
    BY <1>2, BufferSizes DEF Init, utf8_buf_end, UTF8_BUF_FULL_SIZE, MAX_UTF_SEQ_SIZE
  <2>3. QED
    BY <1>3, <2>1, <2>2 DEF Init, TypeOK
<1>5. BytesConserved
  <2>1. Slice(file, 0, 0) = <<>>
    <3>1. Slice(file, 0, 0) \in Seq(Byte) /\ Len(Slice(file, 0, 0)) = 0
      BY <1>1, SliceProperties
    <3>2. QED
      BY <3>1, EmptySeq
  <2>2. <<>> \o <<>> = <<>>
    BY <1>2, ConcatEmptySeq
  <2>3. QED
    BY <2>1, <2>2 DEF Init, BytesConserved
<1>6. ControlInv
  BY DEF Init, ControlInv
<1>7. BlockRoom
  BY <1>2, BufferSizes DEF Init, BlockRoom, utf8_buf_end, UTF8_BUF_FULL_SIZE
<1>8. QED
  BY <1>4, <1>5, <1>6, <1>7 DEF IInv

\* Calls and returns answer from the buffer or start a refill.
LEMMA CallOrReturnIInv ==
  ASSUME IInv, Call \/ Return
  PROVE  IInv'
<1>1. TypeOK /\ BytesConserved /\ ControlInv /\ BlockRoom
  BY DEF IInv
<1>2. /\ pc \in {"idle", "return"}
      /\ UNCHANGED <<file, pos, f, fread_buf, leftover, addVars, input_error, off>>
      /\ call' \in Calls
  BY <1>1 DEF Call, Return, TypeOK
<1>3. /\ next' \in Nat /\ next' >= next
      /\ unread' \in Seq(Char)
      /\ next' + Len(unread') = next + Len(unread)
      /\ utf8_line' \in Nat
      /\ ret' \in Answers
      /\ pc' \in {"idle", "refill"}
      /\ pc' = "refill" => f = "open"
  <2>1. CASE SkipSpaces \/ Answer
    BY <1>1, <1>2, <2>1, AnswerEffect
  <2>2. CASE Call /\ ~is_eof /\ pc' = "refill" /\ UNCHANGED <<next, unread, ret, utf8_line>>
    BY <1>1, <2>2, TypeFacts DEF TypeOK, is_eof
  <2>3. QED
    BY <2>1, <2>2 DEF Call, Return
<1>4. TypeOK'
  BY <1>1, <1>2, <1>3 DEF TypeOK, utf8_buf_end, addVars
<1>5. BytesConserved'
  BY <1>1, <1>2 DEF BytesConserved
<1>6. ControlInv'
  BY <1>1, <1>2, <1>3 DEF ControlInv
<1>7. BlockRoom'
  <2>1. utf8_buf_end' = utf8_buf_end /\ Len(fread_buf') = Len(fread_buf) /\ off' = off
    BY <1>2, <1>3 DEF utf8_buf_end
  <2>2. next' > UTF8_BUF_MIN_SIZE \/ ~(next > UTF8_BUF_MIN_SIZE)
    <3>1. next' \in Nat /\ next \in Nat /\ UTF8_BUF_MIN_SIZE \in Nat /\ next' >= next
      BY <1>1, <1>3, NumberFacts
    <3>2. QED
      BY <3>1
  <2>3. QED
    BY <1>1, <2>1, <2>2 DEF BlockRoom
<1>8. QED
  BY <1>4, <1>5, <1>6, <1>7 DEF IInv

\* Moving the unread part back leaves room for a block.
LEMMA CompactEffect ==
  ASSUME TypeOK, Compact, UNCHANGED unread, n_unread_chars < UTF8_BUF_MIN_SIZE
  PROVE  /\ next' \in Nat /\ next' <= next
         /\ next' > UTF8_BUF_MIN_SIZE \/ next' + Len(unread') <= UTF8_BUF_MIN_SIZE
         /\ next' + Len(unread') <= next + Len(unread)
<1>1. CASE Len(unread) > 0
  BY <1>1, TypeFacts DEF Compact, n_unread_chars
<1>2. CASE Len(unread) = 0
  BY <1>2, TypeFacts DEF Compact, n_unread_chars
<1>3. QED
  BY <1>1, <1>2, TypeFacts

LEMMA RefillDoneIInv ==
  ASSUME IInv, RefillDone
  PROVE  IInv'
<1>1. TypeOK /\ BytesConserved /\ ControlInv /\ BlockRoom
  BY DEF IInv
<1>2. /\ pc = "refill" /\ pc' = "return"
      /\ UNCHANGED <<file, pos, f, unread, fread_buf, leftover, addVars, utf8_line,
                     input_error, call, ret, off>>
  BY DEF RefillDone
<1>3. fread_buf = <<>> /\ Len(fread_buf) = 0
  BY <1>1, <1>2, EmptySeq DEF ControlInv
<1>4. /\ next' \in Nat
      /\ next' > UTF8_BUF_MIN_SIZE \/ next' + Len(unread') <= UTF8_BUF_FULL_SIZE
      /\ next' + Len(unread') <= next + Len(unread)
  <2>1. CASE UNCHANGED next
    BY <1>1, <1>2, <1>3, <2>1, TypeFacts DEF BlockRoom, utf8_buf_end
  <2>2. CASE n_unread_chars < UTF8_BUF_MIN_SIZE /\ Compact
    BY <1>1, <1>2, <2>2, CompactEffect, TypeFacts
  <2>3. QED
    BY <2>1, <2>2 DEF RefillDone
<1>5. TypeOK'
  BY <1>1, <1>2, <1>4, TypeFacts DEF TypeOK, utf8_buf_end, addVars
<1>6. BytesConserved'
  BY <1>1, <1>2 DEF BytesConserved
<1>7. ControlInv'
  BY <1>1, <1>2 DEF ControlInv
<1>8. BlockRoom'
  <2>1. Len(fread_buf') = 0 /\ unread' = unread /\ off' = off
    BY <1>2, <1>3
  <2>2. next' + Len(unread') \in Nat
    BY <1>1, <1>4, <2>1, NumberFacts
  <2>3. next' + Len(unread') <= off'
    BY <1>1, <1>4, <2>1, NumberFacts DEF BlockRoom, utf8_buf_end
  <2>4. QED
    BY <1>4, <2>1, <2>2, <2>3 DEF BlockRoom, utf8_buf_end
<1>9. QED
  BY <1>5, <1>6, <1>7, <1>8 DEF IInv

\* fread appends to the leftover bytes what follows them in the file.
LEMMA FreadIInv ==
  ASSUME IInv, Fread
  PROVE  IInv'
<1>1. TypeOK /\ BytesConserved /\ ControlInv /\ BlockRoom
  BY DEF IInv
<1>2. /\ pc = "refill" /\ pc' = "decode"
      /\ UNCHANGED <<file, unread, addVars, utf8_line, input_error, call, ret, off>>
      /\ n_unread_chars < UTF8_BUF_MIN_SIZE /\ Compact
  BY DEF Fread
<1>3. fread_buf = <<>> /\ input_error = "none"
  BY <1>1, <1>2 DEF ControlInv
<1>4. leftover = Slice(file, off, pos - off) /\ Len(leftover) = pos - off
  <2>1. leftover = Slice(file, off, pos - off)
    BY <1>1, <1>3, TypeFacts, ConcatEmptySeq DEF BytesConserved
  <2>2. pos - off \in Nat /\ off + (pos - off) <= Len(file)
    BY <1>1, TypeFacts
  <2>3. QED
    BY <1>1, <2>1, <2>2, TypeFacts, SliceProperties
<1>5. n_bytes_to_read \in Nat /\ n_bytes_to_read + Len(leftover) <= FREAD_BUF_SIZE
  BY <1>1, TypeFacts DEF n_bytes_to_read
<1>6. PICK k \in Nat :
        /\ k <= n_bytes_to_read /\ pos + k <= Len(file) /\ Block(k)
        /\ f' = f \/ (f' = "null" /\ pos + k = Len(file))
  <2>1. CASE pos + n_bytes_to_read <= Len(file) /\ Block(n_bytes_to_read) /\ UNCHANGED f
    BY <1>5, <2>1
  <2>2. CASE /\ pos + n_bytes_to_read > Len(file)
             /\ Block(Len(file) - pos) /\ f' = "null"
    <3>1. /\ Len(file) - pos \in Nat /\ Len(file) - pos <= n_bytes_to_read
          /\ pos + (Len(file) - pos) = Len(file)
      BY <1>1, <1>5, <2>2, TypeFacts
    <3>2. QED
      BY <2>2, <3>1
  <2>3. QED
    BY <2>1, <2>2 DEF Fread
<1>7. /\ fread_buf' = Slice(file, off, (pos - off) + k)
      /\ leftover' = <<>>
      /\ pos' = pos + k
  <2>1. /\ off \in Nat /\ pos - off \in Nat /\ off + (pos - off) = pos
        /\ off + (pos - off) + k <= Len(file)
    BY <1>1, <1>6, TypeFacts
  <2>2. \A m \in Nat : off + m + k <= Len(file) =>
          Slice(file, off, m) \o Slice(file, off + m, k) = Slice(file, off, m + k)
    <3>1. file \in Seq(Byte) /\ off \in Nat /\ k \in Nat
      BY <1>1, TypeFacts
    <3>2. QED
      BY <3>1, SliceConcat
  <2>3. Slice(file, off, pos - off) \o Slice(file, pos, k) = Slice(file, off, (pos - off) + k)
    BY <2>1, <2>2
  <2>4. QED
    BY <1>4, <1>6, <2>3 DEF Block
<1>8. /\ fread_buf' \in Seq(Byte)
      /\ Len(fread_buf') = pos' - off
      /\ Len(fread_buf') <= FREAD_BUF_SIZE
  <2>1. /\ (pos - off) + k \in Nat /\ off + ((pos - off) + k) <= Len(file)
        /\ (pos - off) + k = (pos + k) - off
    BY <1>1, <1>6, NumberFacts
  <2> DEFINE m == (pos - off) + k
  <2>2. Slice(file, off, m) \in Seq(Byte) /\ Len(Slice(file, off, m)) = m
    <3>1. file \in Seq(Byte) /\ off \in Nat
      BY <1>1, TypeFacts
    <3>2. m \in Nat /\ off + m <= Len(file)
      BY <2>1
    <3> HIDE DEF m
    <3>3. QED
      BY <3>1, <3>2, SliceProperties
  <2>3. m <= FREAD_BUF_SIZE
    <3>1. n_bytes_to_read \in Nat /\ n_bytes_to_read + (pos - off) <= FREAD_BUF_SIZE
      BY <1>4, <1>5
    <3>2. pos \in Nat /\ off \in Nat /\ FREAD_BUF_SIZE \in Nat
      BY <1>1, NumberFacts
    <3>3. k \in Nat /\ k <= n_bytes_to_read
      BY <1>6
    <3> HIDE DEF n_bytes_to_read
    <3>4. QED
      BY <3>1, <3>2, <3>3
  <2>4. QED
    BY <1>7, <2>1, <2>2, <2>3
<1>9. /\ next' \in Nat
      /\ next' > UTF8_BUF_MIN_SIZE \/ next' + Len(unread') <= UTF8_BUF_MIN_SIZE
      /\ next' + Len(unread') <= next + Len(unread)
  BY <1>1, <1>2, CompactEffect
<1>10. <<>> \in Seq(Byte) /\ Len(<<>>) = 0
  BY EmptySeq
<1>11. TypeOK'
  <2>1. /\ pos' \in 0..Len(file') /\ off' \in 0..pos' /\ f' \in {"open", "null"}
    <3>1. /\ pos \in Nat /\ off \in Nat /\ Len(file) \in Nat /\ off <= pos
          /\ f \in {"open", "null"}
      BY <1>1, TypeFacts
    <3>2. file' = file /\ off' = off /\ pos' = pos + k /\ f' \in {f, "null"}
      BY <1>2, <1>6, <1>7
    <3>3. k \in Nat /\ pos + k <= Len(file)
      BY <1>6
    <3>4. QED
      BY <3>1, <3>2, <3>3
  <2>2. utf8_buf_end' <= UTF8_BUF_FULL_SIZE /\ unread' \in Seq(Char)
    <3>1. unread' = unread /\ unread \in Seq(Char)
      BY <1>1, <1>2, TypeFacts
    <3>2. next + Len(unread) <= UTF8_BUF_FULL_SIZE
      BY <1>1 DEF TypeOK, utf8_buf_end
    <3>3. next' + Len(unread') <= UTF8_BUF_FULL_SIZE
      BY <1>1, <1>9, <3>1, <3>2, NumberFacts
    <3>4. QED
      BY <3>1, <3>3 DEF utf8_buf_end
  <2>3. Len(leftover') < MAX_UTF_SEQ_SIZE /\ leftover' \in Seq(Byte)
    BY <1>7, <1>10 DEF MAX_UTF_SEQ_SIZE
  <2>4. QED
    BY <1>1, <1>2, <1>8, <1>9, <2>1, <2>2, <2>3 DEF TypeOK, addVars
<1>12. BytesConserved'
  <2>1. (pos - off) + k = pos' - off'
    BY <1>1, <1>2, <1>6, <1>7, TypeFacts
  <2>2. leftover' \o fread_buf' = fread_buf'
    BY <1>7, <1>8, ConcatEmptySeq
  <2>3. QED
    BY <1>2, <1>7, <2>1, <2>2 DEF BytesConserved
<1>13. ControlInv'
  <2>1. f' = "null" => pos' = Len(file')
    <3>1. file' = file /\ pos' = pos + k
      BY <1>2, <1>7
    <3>2. CASE f' = f
      <4>1. f = "null" => pos = Len(file)
        BY <1>1, <1>3 DEF ControlInv
      <4>2. pos \in Nat /\ Len(file) \in Nat
        BY <1>1, NumberFacts
      <4>3. k \in Nat /\ pos + k <= Len(file)
        BY <1>6
      <4>4. QED
        BY <3>1, <3>2, <4>1, <4>2, <4>3
    <3>3. CASE f' = "null" /\ pos + k = Len(file)
      BY <3>1, <3>3
    <3>4. QED
      BY <1>6, <3>2, <3>3
  <2>2. QED
    BY <1>2, <1>3, <1>7, <2>1 DEF ControlInv
<1>14. BlockRoom'
  <2>1. /\ next' \in Nat /\ Len(unread) \in Nat /\ next \in Nat /\ off \in Nat
        /\ FREAD_BUF_SIZE \in Nat /\ UTF8_BUF_MIN_SIZE \in Nat
        /\ UTF8_BUF_FULL_SIZE = UTF8_BUF_MIN_SIZE + FREAD_BUF_SIZE
    BY <1>1, <1>9, NumberFacts
  <2>2. unread' = unread /\ off' = off
    BY <1>2
  <2>3. Len(fread_buf') \in Nat /\ Len(fread_buf') <= FREAD_BUF_SIZE
    BY <1>8, LenProperties
  <2>4. /\ next' > UTF8_BUF_MIN_SIZE \/ next' + Len(unread) <= UTF8_BUF_MIN_SIZE
        /\ next' + Len(unread) <= next + Len(unread)
    BY <1>9, <2>2
  <2>5. next + Len(unread) <= off
    BY <1>1 DEF BlockRoom, utf8_buf_end
  <2>6. \/ next' > UTF8_BUF_MIN_SIZE
        \/ (next' + Len(unread)) + Len(fread_buf') <= UTF8_BUF_FULL_SIZE
    BY <2>1, <2>3, <2>4
  <2>7. next' + Len(unread) <= off
    BY <2>1, <2>4, <2>5
  <2>8. QED
    BY <2>2, <2>6, <2>7 DEF BlockRoom, utf8_buf_end
<1>15. QED
  BY <1>11, <1>12, <1>13, <1>14 DEF IInv

\* A failed read discards bytes, so byte conservation ends with it.
LEMMA FreadFailsIInv ==
  ASSUME IInv, FreadFails
  PROVE  IInv'
<1>1. TypeOK /\ BytesConserved /\ ControlInv /\ BlockRoom
  BY DEF IInv
<1>2. /\ pc = "refill" /\ pc' = "return" /\ f' = "null" /\ input_error' = "read"
      /\ leftover' = <<>>
      /\ UNCHANGED <<file, unread, fread_buf, addVars, utf8_line, call, ret, off>>
      /\ n_unread_chars < UTF8_BUF_MIN_SIZE /\ Compact
  BY DEF FreadFails
<1>3. pos' \in Nat /\ pos' >= pos /\ pos' <= Len(file)
  <2>1. n_bytes_to_read \in Nat
    BY <1>1, TypeFacts DEF n_bytes_to_read
  <2>2. PICK k \in 0..(n_bytes_to_read - 1) : pos + k <= Len(file) /\ pos' = pos + k
    BY DEF FreadFails
  <2>3. QED
    BY <1>1, <2>1, <2>2, TypeFacts
<1>4. fread_buf = <<>> /\ Len(fread_buf) = 0 /\ <<>> \in Seq(Byte) /\ Len(<<>>) = 0
  BY <1>1, <1>2, EmptySeq DEF ControlInv
<1>5. /\ next' \in Nat
      /\ next' > UTF8_BUF_MIN_SIZE \/ next' + Len(unread') <= UTF8_BUF_MIN_SIZE
      /\ next' + Len(unread') <= next + Len(unread)
  BY <1>1, <1>2, CompactEffect
<1>6. TypeOK'
  <2>1. pos' \in 0..Len(file') /\ off' \in 0..pos'
    BY <1>1, <1>2, <1>3, TypeFacts
  <2>2. utf8_buf_end' <= UTF8_BUF_FULL_SIZE /\ unread' \in Seq(Char)
    BY <1>1, <1>2, <1>5, TypeFacts DEF TypeOK, utf8_buf_end
  <2>3. QED
    BY <1>1, <1>2, <1>4, <1>5, <2>1, <2>2 DEF TypeOK, addVars, MAX_UTF_SEQ_SIZE
<1>7. BytesConserved'
  BY <1>2 DEF BytesConserved
<1>8. ControlInv'
  BY <1>2, <1>4 DEF ControlInv
<1>9. BlockRoom'
  BY <1>1, <1>2, <1>4, <1>5, TypeFacts DEF BlockRoom, utf8_buf_end
<1>10. QED
  BY <1>6, <1>7, <1>8, <1>9 DEF IInv

LEMMA BlockDoneIInv ==
  ASSUME IInv, BlockDone
  PROVE  IInv'
<1>1. TypeOK /\ BytesConserved /\ ControlInv /\ BlockRoom
  BY DEF IInv
<1>2. /\ pc = "decode" /\ pc' = "refill" /\ fread_buf = <<>>
      /\ UNCHANGED <<file, pos, f, bufVars, fread_buf, leftover, addVars, utf8_line,
                     input_error, call, ret, off>>
  BY DEF BlockDone
<1>3. TypeOK'
  BY <1>1, <1>2 DEF TypeOK, utf8_buf_end, addVars, bufVars
<1>4. BytesConserved'
  BY <1>1, <1>2 DEF BytesConserved
<1>5. ControlInv'
  BY <1>1, <1>2 DEF ControlInv
<1>6. BlockRoom'
  BY <1>1, <1>2 DEF BlockRoom, utf8_buf_end, bufVars
<1>7. QED
  BY <1>3, <1>4, <1>5, <1>6 DEF IInv

\* A split sequence moves from the block to the leftover bytes.
LEMMA SplitSequenceIInv ==
  ASSUME IInv, SplitSequence
  PROVE  IInv'
<1>1. TypeOK /\ BytesConserved /\ ControlInv /\ BlockRoom
  BY DEF IInv
<1>2. /\ pc = "decode" /\ pc' = "refill" /\ leftover' = fread_buf /\ fread_buf' = <<>>
      /\ fread_buf # <<>> /\ utf8_seq_length > Len(fread_buf)
      /\ UNCHANGED <<file, pos, f, bufVars, addVars, utf8_line, input_error, call, ret, off>>
  BY DEF SplitSequence
<1>3. leftover = <<>> /\ input_error = "none"
  BY <1>1, <1>2 DEF ControlInv
<1>4. fread_buf \in Seq(Byte) /\ Len(fread_buf) \in Nat /\ Len(fread_buf) < 4
  <2>1. fread_buf[1] \in Byte
    BY <1>1, <1>2, TypeFacts, EmptySeq, ElementOfSeq
  <2>2. utf8_seq_length \in 0..4
    BY <2>1, SeqLengthRange DEF utf8_seq_length
  <2>3. QED
    BY <1>1, <1>2, <2>2, TypeFacts
<1>5. <<>> \in Seq(Byte) /\ Len(<<>>) = 0
  BY EmptySeq
<1>6. TypeOK'
  BY <1>1, <1>2, <1>4, <1>5, TypeFacts
  DEF TypeOK, utf8_buf_end, addVars, bufVars, MAX_UTF_SEQ_SIZE
<1>7. BytesConserved'
  <2>1. leftover \o fread_buf = fread_buf /\ fread_buf \o <<>> = fread_buf
    BY <1>3, <1>4, ConcatEmptySeq
  <2>2. QED
    BY <1>1, <1>2, <2>1 DEF BytesConserved
<1>8. ControlInv'
  BY <1>1, <1>2, <1>3 DEF ControlInv
<1>9. BlockRoom'
  BY <1>1, <1>2, <1>5, TypeFacts DEF BlockRoom, utf8_buf_end, bufVars
<1>10. QED
  BY <1>6, <1>7, <1>8, <1>9 DEF IInv

LEMMA BadSequenceIInv ==
  ASSUME IInv, BadSequence
  PROVE  IInv'
<1>1. TypeOK /\ BytesConserved /\ ControlInv /\ BlockRoom
  BY DEF IInv
<1>2. /\ pc' = "return" /\ f' = "null" /\ input_error' = "encoding" /\ fread_buf' = <<>>
      /\ UNCHANGED <<file, pos, bufVars, leftover, addVars, utf8_line, call, ret, off>>
  BY DEF BadSequence
<1>3. <<>> \in Seq(Byte) /\ Len(<<>>) = 0
  BY EmptySeq
<1>4. TypeOK'
  BY <1>1, <1>2, <1>3, TypeFacts DEF TypeOK, utf8_buf_end, addVars, bufVars
<1>5. BytesConserved'
  BY <1>2 DEF BytesConserved
<1>6. ControlInv'
  BY <1>2 DEF ControlInv
<1>7. BlockRoom'
  BY <1>1, <1>2, <1>3, TypeFacts DEF BlockRoom, utf8_buf_end, bufVars
<1>8. QED
  BY <1>4, <1>5, <1>6, <1>7 DEF IInv

\* The sequence at the head of the block, when it is whole.
LEMMA WholeSequence ==
  ASSUME TypeOK, fread_buf # <<>>, utf8_seq_length # 0, utf8_seq_length <= Len(fread_buf)
  PROVE  /\ utf8_seq_length \in 1..4
         /\ NextSeq \in Char
         /\ SubSeq(fread_buf, utf8_seq_length + 1, Len(fread_buf)) \in Seq(Byte)
         /\ Len(SubSeq(fread_buf, utf8_seq_length + 1, Len(fread_buf)))
              = Len(fread_buf) - utf8_seq_length
<1>1. fread_buf \in Seq(Byte) /\ Len(fread_buf) \in Nat
  BY TypeFacts
<1>2. fread_buf[1] \in Byte
  BY <1>1, EmptySeq, ElementOfSeq
<1>3. utf8_seq_length \in 1..4
  BY <1>2, SeqLengthRange DEF utf8_seq_length
<1>4. NextSeq \in Char
  BY <1>1, <1>3, FirstChar DEF NextSeq
<1>5. utf8_seq_length \in 0..Len(fread_buf)
  BY <1>1, <1>3
<1>6. QED
  BY <1>1, <1>3, <1>4, <1>5, Rest

LEMMA CountCharTypes ==
  ASSUME TypeOK, NEW c, CountChar(c)
  PROVE  in_line' \in Nat /\ last_was_cr' \in BOOLEAN /\ no_text_yet' \in BOOLEAN
<1>1. in_line \in Nat /\ last_was_cr \in BOOLEAN /\ no_text_yet \in BOOLEAN
  BY DEF TypeOK
<1>2. in_line' \in Nat
  BY <1>1 DEF CountChar
<1>3. last_was_cr' \in BOOLEAN
  BY <1>1 DEF CountChar
<1>4. no_text_yet' \in BOOLEAN
  BY <1>1 DEF CountChar
<1>5. QED
  BY <1>2, <1>3, <1>4

\* A decoded character leaves the block and, unless it is ignored, enters the
\* buffer; the block's bytes still follow the decoded ones in the file.
LEMMA AddUtf8IInv ==
  ASSUME IInv, AddUtf8
  PROVE  IInv'
<1> DEFINE n == utf8_seq_length
<1>1. TypeOK /\ BytesConserved /\ ControlInv /\ BlockRoom
  BY DEF IInv
<1>2. /\ pc = "decode" /\ pc' = pc /\ fread_buf # <<>> /\ n # 0 /\ n <= Len(fread_buf)
      /\ CountChar(NextSeq)
      /\ off' = off + n
      /\ fread_buf' = SubSeq(fread_buf, n + 1, Len(fread_buf))
      /\ UNCHANGED <<file, pos, f, next, leftover, utf8_line, input_error, call, ret>>
      /\ \/ UNCHANGED unread
         \/ utf8_buf_end < UTF8_BUF_FULL_SIZE /\ unread' = Append(unread, NextSeq)
  BY DEF AddUtf8
<1>3. /\ n \in 1..4 /\ NextSeq \in Char
      /\ fread_buf' \in Seq(Byte) /\ Len(fread_buf') = Len(fread_buf) - n
  BY <1>1, <1>2, WholeSequence
<1>4. leftover = <<>> /\ input_error = "none"
  BY <1>1, <1>2 DEF ControlInv
<1>5. fread_buf = Slice(file, off, pos - off) /\ Len(fread_buf) = pos - off
  <2>1. fread_buf = Slice(file, off, pos - off)
    BY <1>1, <1>4, TypeFacts, ConcatEmptySeq DEF BytesConserved
  <2>2. pos - off \in Nat /\ off + (pos - off) <= Len(file)
    BY <1>1, TypeFacts
  <2>3. QED
    BY <1>1, <2>1, <2>2, TypeFacts, SliceProperties
<1>6. /\ unread' \in Seq(Char) /\ Len(unread') \in Nat
      /\ Len(unread') >= Len(unread) /\ Len(unread') <= Len(unread) + 1
      /\ next + Len(unread') <= UTF8_BUF_FULL_SIZE
  <2>1. CASE UNCHANGED unread
    BY <1>1, <2>1, TypeFacts DEF TypeOK, utf8_buf_end
  <2>2. CASE utf8_buf_end < UTF8_BUF_FULL_SIZE /\ unread' = Append(unread, NextSeq)
    <3>1. unread' \in Seq(Char) /\ Len(unread') = Len(unread) + 1
      BY <1>1, <1>3, <2>2, TypeFacts, AppendProperties
    <3>2. next + Len(unread) < UTF8_BUF_FULL_SIZE
      BY <2>2 DEF utf8_buf_end
    <3>3. /\ next \in Nat /\ Len(unread) \in Nat
          /\ FREAD_BUF_SIZE \in Nat /\ UTF8_BUF_MIN_SIZE \in Nat
          /\ UTF8_BUF_FULL_SIZE = UTF8_BUF_MIN_SIZE + FREAD_BUF_SIZE
      BY <1>1, NumberFacts
    <3>4. QED
      BY <3>1, <3>2, <3>3
  <2>3. QED
    BY <1>2, <2>1, <2>2
<1>7. TypeOK'
  <2>1. /\ off' \in 0..pos' /\ Len(fread_buf') <= FREAD_BUF_SIZE
    <3>1. /\ pos \in Nat /\ off \in Nat /\ Len(fread_buf) \in Nat /\ FREAD_BUF_SIZE \in Nat
          /\ Len(fread_buf) <= FREAD_BUF_SIZE
      BY <1>1, NumberFacts DEF TypeOK
    <3>2. n \in 1..4 /\ n <= Len(fread_buf) /\ off' = off + n /\ pos' = pos
      BY <1>2, <1>3
    <3> HIDE DEF n
    <3>3. QED
      BY <1>3, <1>5, <3>1, <3>2
  <2>2. in_line' \in Nat /\ last_was_cr' \in BOOLEAN /\ no_text_yet' \in BOOLEAN
    BY <1>1, <1>2, CountCharTypes
  <2>3. QED
    BY <1>1, <1>2, <1>3, <1>6, <2>1, <2>2 DEF TypeOK, utf8_buf_end
<1>8. BytesConserved'
  <2>1. /\ file \in Seq(Byte) /\ off \in Nat /\ pos - off \in Nat
        /\ off + (pos - off) <= Len(file) /\ n \in 0..(pos - off)
    <3>1. n \in 1..4 /\ n <= pos - off
      BY <1>2, <1>3, <1>5
    <3>2. file \in Seq(Byte)
      BY <1>1, TypeFacts
    <3>3. QED
      BY <1>1, <3>1, <3>2, NumberFacts
  <2>2. SubSeq(Slice(file, off, pos - off), n + 1, pos - off)
          = Slice(file, off + n, (pos - off) - n)
    BY <2>1, SliceSplit
  <2>3. (pos - off) - n = pos' - off'
    <3>1. pos \in Nat /\ off \in Nat /\ n \in Nat /\ pos' = pos /\ off' = off + n
      BY <1>1, <1>2, <1>3, NumberFacts
    <3>2. QED
      BY <3>1
  <2>4. fread_buf' = Slice(file', off', pos' - off')
    BY <1>2, <1>5, <2>2, <2>3
  <2>5. leftover' \o fread_buf' = fread_buf'
    BY <1>2, <1>3, <1>4, ConcatEmptySeq
  <2>6. QED
    BY <2>4, <2>5 DEF BytesConserved
<1>9. ControlInv'
  BY <1>1, <1>2, <1>4 DEF ControlInv
<1>10. BlockRoom'
  <2>1. next' = next /\ off' = off + n /\ n \in 1..4 /\ Len(fread_buf') = Len(fread_buf) - n
    BY <1>2, <1>3
  <2>2. /\ next \in Nat /\ off \in Nat /\ Len(unread) \in Nat /\ Len(fread_buf) \in Nat
        /\ UTF8_BUF_FULL_SIZE \in Nat /\ UTF8_BUF_MIN_SIZE \in Nat
    BY <1>1, TypeFacts
  <2>3. /\ next + Len(unread) <= off
        /\ \/ next > UTF8_BUF_MIN_SIZE
           \/ next + Len(unread) + Len(fread_buf) <= UTF8_BUF_FULL_SIZE
    BY <1>1 DEF BlockRoom, utf8_buf_end
  <2>4. /\ next' + Len(unread') <= off'
        /\ \/ next' > UTF8_BUF_MIN_SIZE
           \/ next' + Len(unread') + Len(fread_buf') <= UTF8_BUF_FULL_SIZE
    BY <1>6, <2>1, <2>2, <2>3
  <2>5. QED
    BY <2>4 DEF BlockRoom, utf8_buf_end
<1>11. QED
  BY <1>7, <1>8, <1>9, <1>10 DEF IInv

LEMMA AssertFailsIInv ==
  ASSUME IInv, AssertFails
  PROVE  IInv' /\ OverflowNeedsDrain'
<1>1. TypeOK /\ BytesConserved /\ ControlInv /\ BlockRoom
  BY DEF IInv
<1>2. /\ pc = "decode" /\ pc' = "aborted" /\ fread_buf # <<>> /\ CountChar(NextSeq)
      /\ utf8_buf_end >= UTF8_BUF_FULL_SIZE
      /\ UNCHANGED <<file, pos, f, bufVars, fread_buf, leftover, utf8_line, input_error,
                     call, ret, off>>
  BY DEF AssertFails
<1>3. TypeOK'
  <2>1. in_line' \in Nat /\ last_was_cr' \in BOOLEAN /\ no_text_yet' \in BOOLEAN
    BY <1>1, <1>2, CountCharTypes
  <2>2. QED
    BY <1>1, <1>2, <2>1 DEF TypeOK, utf8_buf_end, bufVars
<1>4. BytesConserved'
  BY <1>1, <1>2 DEF BytesConserved
<1>5. ControlInv'
  BY <1>1, <1>2 DEF ControlInv
<1>6. BlockRoom'
  BY <1>1, <1>2 DEF BlockRoom, utf8_buf_end, bufVars
<1>7. OverflowNeedsDrain'
  <2>1. Len(fread_buf) >= 1
    BY <1>1, <1>2, TypeFacts, EmptySeq
  <2>2. next > UTF8_BUF_MIN_SIZE /\ off >= UTF8_BUF_FULL_SIZE
    BY <1>1, <1>2, <2>1, TypeFacts DEF BlockRoom, utf8_buf_end
  <2>3. QED
    BY <1>2, <2>2 DEF OverflowNeedsDrain, bufVars
<1>8. QED
  BY <1>3, <1>4, <1>5, <1>6, <1>7 DEF IInv

\* Every step preserves the invariant.
LEMMA NextIInv ==
  ASSUME IInv, [Next]_vars
  PROVE  IInv'
<1>1. CASE Call \/ Return
  BY <1>1, CallOrReturnIInv
<1>2. CASE Refill
  BY <1>2, RefillDoneIInv, FreadIInv, FreadFailsIInv, BlockDoneIInv, SplitSequenceIInv,
     BadSequenceIInv, AddUtf8IInv, AssertFailsIInv
  DEF Refill
<1>3. CASE UNCHANGED vars
  BY <1>3
  DEF IInv, TypeOK, BytesConserved, ControlInv, BlockRoom, utf8_buf_end, vars
<1>4. QED
  BY <1>1, <1>2, <1>3 DEF Next

\* The inductive invariant holds in every behaviour, for every buffer size and
\* every set of files.
THEOREM Invariance == Spec => []IInv
<1>1. IInv /\ [Next]_vars => IInv'
  BY NextIInv
<1>2. QED
  BY InitIInv, <1>1, PTL DEF Spec

\* The indices, the block and the leftover bytes stay within their arrays
\* (filereader.h:27-34, the arrays of refill_read_buf).
THEOREM TypeCorrect == Spec => []TypeOK
<1>1. IInv => TypeOK
  BY DEF IInv
<1>2. QED
  BY Invariance, <1>1, PTL

\* No byte is lost, repeated or reordered by splitting the file into blocks
\* and sequences across blocks (refill_read_buf).
THEOREM Conservation == Spec => []BytesConserved
<1>1. IInv => BytesConserved
  BY DEF IInv
<1>2. QED
  BY Invariance, <1>1, PTL

\* The assertion of add_utf8 fails only in a file longer than the buffer and
\* only in a reader that was drained beyond UTF8_BUF_MIN_SIZE.
THEOREM OverflowCause == Spec => []OverflowNeedsDrain
<1>1. Init => OverflowNeedsDrain
  BY DEF Init, OverflowNeedsDrain
<1>2. IInv /\ OverflowNeedsDrain /\ [Next]_vars => OverflowNeedsDrain'
  <2> SUFFICES ASSUME IInv, OverflowNeedsDrain, [Next]_vars
               PROVE  OverflowNeedsDrain'
    OBVIOUS
  <2>1. CASE AssertFails
    BY <2>1, AssertFailsIInv
  <2>2. CASE UNCHANGED vars
    BY <2>2 DEF OverflowNeedsDrain, vars
  <2>3. CASE Call \/ Return
    <3>1. pc' # "aborted"
      BY <2>3, AnswerEffect DEF Call, Return, IInv, TypeOK
    <3>2. QED
      BY <3>1 DEF OverflowNeedsDrain
  <2>4. CASE Next /\ ~AssertFails /\ ~(Call \/ Return)
    <3>1. pc' # "aborted"
      BY <2>4 DEF Next, Refill, RefillDone, Fread, FreadFails, BlockDone, SplitSequence,
                  BadSequence, AddUtf8
    <3>2. QED
      BY <3>1 DEF OverflowNeedsDrain
  <2>5. QED
    BY <2>1, <2>2, <2>3, <2>4
<1>3. QED
  BY Invariance, <1>1, <1>2, PTL DEF Spec

-----------------------------------------------------------------------------
(* The stream and the file.                                                *)

\* The stream's byte classes are the reader's: both are util/utf.h's.
LEMMA SameOperators ==
  /\ \A b : CS!SeqLength(b) = SeqLength(b)
  /\ \A b : CS!IsContinuation(b) <=> IsContinuation(b)
  /\ \A b : CS!IsSpace(b) <=> IsSpace(b)
  /\ \A c : CS!WellFormed(c) <=> WellFormed(c)
  /\ \A s, o, n : CS!Slice(s, o, n) = Slice(s, o, n)
  /\ CS!ASCII_LF = ASCII_LF /\ CS!ASCII_CR = ASCII_CR /\ CS!UTF8_BOM = UTF8_BOM
  /\ CS!Nothing = Nothing /\ CS!Success = Success
  /\ \A c : CS!Something(c) = Something(c)
BY DEF CS!SeqLength, SeqLength, CS!IsContinuation, IsContinuation, CS!IsSpace, IsSpace,
       CS!WellFormed, WellFormed, CS!Slice, Slice, CS!ASCII_LF, ASCII_LF, CS!ASCII_CR,
       ASCII_CR, CS!UTF8_BOM, UTF8_BOM, CS!Nothing, Nothing, CS!Success, Success,
       CS!Something, Something

LEMMA AsciiLength == \A b \in 0..127 : SeqLength(b) = 1
BY DEF SeqLength

\* The sequence at the head of the block is the one at `off' in the file.
LEMMA HeadOfBlock ==
  ASSUME IInv, pc = "decode", fread_buf # <<>>
  PROVE  /\ input_error = "none" /\ leftover = <<>>
         /\ off < Len(file) /\ fread_buf[1] = file[off + 1] /\ fread_buf[1] \in Byte
         /\ utf8_seq_length = SeqLength(file[off + 1]) /\ utf8_seq_length \in 0..4
         /\ Len(fread_buf) = pos - off
         /\ fread_buf = Slice(file, off, pos - off)
<1>1. TypeOK /\ BytesConserved /\ ControlInv
  BY DEF IInv
<1>2. leftover = <<>> /\ input_error = "none"
  BY <1>1 DEF ControlInv
<1>3. fread_buf = Slice(file, off, pos - off)
  BY <1>1, <1>2, TypeFacts, ConcatEmptySeq DEF BytesConserved
<1>4. pos - off \in Nat /\ off \in Nat /\ off + (pos - off) <= Len(file) /\ file \in Seq(Byte)
  BY <1>1, TypeFacts
<1>5. /\ Len(fread_buf) = pos - off
      /\ \A i \in 1..(pos - off) : fread_buf[i] = file[off + i]
  BY <1>3, <1>4, SliceProperties
<1>6. Len(fread_buf) >= 1
  BY <1>1, TypeFacts, EmptySeq
<1>7. off < Len(file) /\ fread_buf[1] = file[off + 1]
  BY <1>4, <1>5, <1>6, TypeFacts
<1>8. fread_buf[1] \in Byte
  BY <1>1, <1>6, TypeFacts, ElementOfSeq
<1>9. QED
  BY <1>2, <1>3, <1>5, <1>7, <1>8, SeqLengthRange DEF utf8_seq_length

LEMMA WholeSequenceInFile ==
  ASSUME IInv, pc = "decode", fread_buf # <<>>, utf8_seq_length <= Len(fread_buf)
  PROVE  /\ off + utf8_seq_length <= Len(file)
         /\ NextSeq = CS!CharAt(file, off)
         /\ Len(NextSeq) = utf8_seq_length
         /\ \A i \in 1..utf8_seq_length : NextSeq[i] = file[off + i]
         /\ CS!HasSeq(file, off)
<1> DEFINE n == utf8_seq_length
<1>1. /\ off < Len(file) /\ n = SeqLength(file[off + 1]) /\ n \in 0..4
      /\ Len(fread_buf) = pos - off /\ fread_buf = Slice(file, off, pos - off)
  BY HeadOfBlock
<1>2. /\ file \in Seq(Byte) /\ off \in Nat /\ pos \in Nat /\ pos <= Len(file)
      /\ Len(file) \in Nat /\ off <= pos
  BY TypeFacts DEF IInv
<1>3. /\ n \in 0..(pos - off) /\ pos - off \in Nat /\ off + (pos - off) <= Len(file)
      /\ off + n <= Len(file) /\ n \in Nat
  BY <1>1, <1>2
<1>4. NextSeq = Slice(file, off, n)
  <2>1. SubSeq(Slice(file, off, pos - off), 1, n) = Slice(file, off, n)
    BY <1>2, <1>3, SliceSplit
  <2>2. QED
    BY <1>1, <2>1 DEF NextSeq
<1>5. Len(Slice(file, off, n)) = n /\ \A i \in 1..n : Slice(file, off, n)[i] = file[off + i]
  BY <1>2, <1>3, SliceProperties
<1>6. NextSeq = CS!CharAt(file, off)
  BY <1>1, <1>4, SameOperators DEF CS!CharAt
<1>7. CS!HasSeq(file, off)
  BY <1>1, <1>3, SameOperators DEF CS!HasSeq
<1>8. QED
  BY <1>3, <1>4, <1>5, <1>6, <1>7

\* A one-byte character is determined by its first byte.
LEMMA OneByte ==
  ASSUME IInv, pc = "decode", fread_buf # <<>>, utf8_seq_length <= Len(fread_buf),
         utf8_seq_length # 0, NEW b \in {ASCII_CR, ASCII_LF}
  PROVE  /\ NextSeq[1] = file[off + 1]
         /\ (NextSeq = <<b>>) <=> (file[off + 1] = b)
         /\ file[off + 1] = b => utf8_seq_length = 1
<1>1. /\ Len(NextSeq) = utf8_seq_length
      /\ \A i \in 1..utf8_seq_length : NextSeq[i] = file[off + i]
  BY WholeSequenceInFile
<1>2. utf8_seq_length \in 1..4 /\ NextSeq \in Char /\ utf8_seq_length = SeqLength(file[off + 1])
  BY HeadOfBlock, WholeSequence DEF IInv
<1>3. NextSeq[1] = file[off + 1]
  BY <1>1, <1>2
<1>4. file[off + 1] = b => utf8_seq_length = 1
  <2>1. b \in 0..127
    BY DEF ASCII_CR, ASCII_LF
  <2>2. SeqLength(b) = 1
    BY <2>1, AsciiLength
  <2>3. QED
    BY <1>2, <2>2
<1>5. ASSUME file[off + 1] = b PROVE NextSeq = <<b>>
  <2>1. b \in Byte
    BY DEF ASCII_CR, ASCII_LF, Byte
  <2>2. NextSeq \in Seq(Byte)
    BY <1>2, CharIsBytes
  <2>3. <<b>> \in Seq(Byte) /\ Len(<<b>>) = 1 /\ <<b>>[1] = b
    BY <2>1
  <2>4. Len(NextSeq) = 1 /\ NextSeq[1] = b
    BY <1>1, <1>3, <1>4, <1>5
  <2>5. QED
    BY <2>2, <2>3, <2>4, SeqEqual
<1>6. NextSeq = <<b>> => file[off + 1] = b
  BY <1>3
<1>7. QED
  BY <1>3, <1>4, <1>5, <1>6
-----------------------------------------------------------------------------
(* The decoder's flags.                                                    *)

LEMMA NewlineDef ==
  \A o : CS!IsNewline(file, o) <=> file[o + 1] \in {ASCII_CR, ASCII_LF}
BY SameOperators DEF CS!IsNewline

\* add_utf8 ignores a character exactly when the stream drops it.
LEMMA IgnoredIsDropped ==
  ASSUME IInv, DecoderInv, pc = "decode", fread_buf # <<>>,
         utf8_seq_length # 0, utf8_seq_length <= Len(fread_buf)
  PROVE  Ignored(NextSeq) <=> CS!Dropped(file, off)
<1>1. /\ no_text_yet <=> \A i \in 0..(off - 1) : CS!IsNewline(file, i)
      /\ last_was_cr <=> CS!AfterCr(file, off)
  BY DEF DecoderInv
<1>2. NextSeq = <<ASCII_LF>> <=> file[off + 1] = ASCII_LF
  BY OneByte
<1>3. NextSeq = CS!CharAt(file, off) /\ off < Len(file) /\ NextSeq[1] = file[off + 1]
  BY HeadOfBlock, WholeSequenceInFile, OneByte
<1>4. ASSUME NextSeq = UTF8_BOM
      PROVE  no_text_yet <=> CS!FirstText(file, off)
  <2>1. ~CS!IsNewline(file, off)
    BY <1>3, <1>4, NewlineDef DEF UTF8_BOM, ASCII_CR, ASCII_LF
  <2>2. QED
    BY <1>1, <1>3, <2>1 DEF CS!FirstText
<1>5. QED
  BY <1>1, <1>2, <1>3, <1>4, SameOperators DEF Ignored, CS!Dropped

\* Adding a character keeps the flags in step with the file.
LEMMA AddUtf8Decoder ==
  ASSUME IInv, DecoderInv, AddUtf8
  PROVE  DecoderInv'
<1> DEFINE n == utf8_seq_length
           AllNewlines(o) == \A i \in 0..(o - 1) : CS!IsNewline(file, i)
<1>1. /\ pc = "decode" /\ pc' = pc /\ fread_buf # <<>> /\ n # 0 /\ n <= Len(fread_buf)
      /\ WellFormed(NextSeq) /\ CountChar(NextSeq)
      /\ off' = off + n /\ file' = file /\ leftover' = leftover
  BY DEF AddUtf8
<1>2. /\ off \in Nat /\ off < Len(file) /\ n = SeqLength(file[off + 1]) /\ n \in 1..4
      /\ leftover = <<>> /\ off + n <= Len(file) /\ Len(file) \in Nat
      /\ Len(NextSeq) = n /\ \A i \in 1..n : NextSeq[i] = file[off + i]
  BY <1>1, HeadOfBlock, WholeSequenceInFile, TypeFacts DEF IInv
<1>3. /\ no_text_yet \in BOOLEAN /\ last_was_cr \in BOOLEAN
      /\ no_text_yet <=> AllNewlines(off)
      /\ last_was_cr <=> CS!AfterCr(file, off)
      /\ \A t \in 0..(off - 1) :
            CS!FirstText(file, t) => t + SeqLength(file[t + 1]) <= off
  BY <1>1 DEF DecoderInv, IInv, TypeOK
<1>4. \A b \in {ASCII_CR, ASCII_LF} :
        /\ NextSeq[1] = file[off + 1]
        /\ (NextSeq = <<b>>) <=> (file[off + 1] = b)
        /\ file[off + 1] = b => n = 1
  BY <1>1, OneByte
<1>5. NextSeq[1] = file[off + 1]
  BY <1>4
<1>6. CS!IsNewline(file, off) => n = 1
  BY <1>4, NewlineDef
\* The bytes of a sequence after its first one are no line ends.
<1>7. ASSUME n > 1 PROVE file[off + n] \notin {ASCII_CR, ASCII_LF}
  <2>1. n \in 2..Len(NextSeq) /\ n \in 1..n
    BY <1>2, <1>7
  <2>2. IsContinuation(NextSeq[n]) /\ NextSeq[n] = file[off + n]
    BY <1>1, <1>2, <2>1 DEF WellFormed
  <2>3. file[off + n] \in 128..191
    BY <2>2 DEF IsContinuation
  <2>4. QED
    BY <2>3 DEF ASCII_CR, ASCII_LF
<1>8. AllNewlines(off + n) <=> AllNewlines(off) /\ CS!IsNewline(file, off)
  <2>1. ASSUME AllNewlines(off), CS!IsNewline(file, off)
        PROVE  AllNewlines(off + n)
    <3>1. n = 1
      BY <1>6, <2>1
    <3>2. ASSUME NEW i \in 0..(off + n - 1) PROVE CS!IsNewline(file, i)
      <4>1. i \in 0..(off - 1) \/ i = off
        BY <1>2, <3>1
      <4>2. CASE i \in 0..(off - 1)
        BY <2>1, <4>2
      <4>3. CASE i = off
        BY <2>1, <4>3
      <4>4. QED
        BY <4>1, <4>2, <4>3
    <3>3. off \in Nat /\ n \in Nat
      BY <1>2
    <3>4. QED
      BY <3>2, <3>3
  <2>2. ASSUME AllNewlines(off + n)
        PROVE  AllNewlines(off) /\ CS!IsNewline(file, off)
    <3>1. off \in 0..(off + n - 1)
      BY <1>2
    <3>2. \A i \in 0..(off - 1) : i \in 0..(off + n - 1)
      BY <1>2
    <3>3. CS!IsNewline(file, off)
      BY <1>2, <2>2, <3>1
    <3>4. \A i \in 0..(off - 1) : CS!IsNewline(file, i)
      BY <1>2, <2>2, <3>2
    <3>5. QED
      BY <3>3, <3>4
  <2>3. QED
    <3> HIDE DEF AllNewlines
    <3>1. QED
      BY <2>1, <2>2
<1>9. no_text_yet' <=> AllNewlines(off')
  <2>1. no_text_yet' = (no_text_yet /\ NextSeq[1] \in {ASCII_CR, ASCII_LF})
    BY <1>1 DEF CountChar
  <2>2. QED
    BY <1>1, <1>3, <1>5, <1>8, <2>1, NewlineDef
<1>10. \A t \in 0..(off' - 1) :
         CS!FirstText(file, t) => t + SeqLength(file[t + 1]) <= off'
  <2> SUFFICES ASSUME NEW t \in 0..(off' - 1), CS!FirstText(file, t)
               PROVE  t + SeqLength(file[t + 1]) <= off'
    OBVIOUS
  <2>1. CASE t < off
    <3>1. t \in 0..(off - 1)
      BY <1>2, <2>1
    <3>2. t + SeqLength(file[t + 1]) <= off
      BY <1>3, <3>1
    <3>3. file[t + 1] \in Byte
      <4>1. file \in Seq(Byte)
        BY TypeFacts DEF IInv
      <4>2. t + 1 \in 1..Len(file)
        BY <1>2, <3>1
      <4>3. QED
        BY <4>1, <4>2, ElementOfSeq
    <3>4. SeqLength(file[t + 1]) \in 0..4
      BY <3>3, SeqLengthRange
    <3>5. off' = off + n /\ off \in Nat /\ n \in Nat /\ t \in Nat
      BY <1>1, <1>2, <3>1
    <3>6. QED
      BY <3>2, <3>4, <3>5
  <2>2. CASE t = off
    BY <1>1, <1>2, <2>2
  <2>3. CASE t > off
    <3>1. off \in 0..(t - 1)
      BY <1>1, <1>2, <2>3
    <3>2. CS!IsNewline(file, off)
      BY <3>1 DEF CS!FirstText
    <3>3. n = 1
      BY <1>6, <3>2
    <3>4. QED
      BY <1>1, <1>2, <2>3, <3>3
  <2>4. QED
    BY <1>1, <1>2, <2>1, <2>2, <2>3
\* Only a CR, or the first text after a CR, makes a following LF the second
\* half of a pair.
<1>11. CS!AfterCr(file, off + n) <=>
         \/ file[off + n] = ASCII_CR
         \/ off >= 1 /\ CS!FirstText(file, off) /\ file[off] = ASCII_CR
  <2> DEFINE Pair(t) == /\ CS!FirstText(file, t)
                        /\ file[t] = ASCII_CR
                        /\ t + SeqLength(file[t + 1]) = off + n
  <2>1. CS!AfterCr(file, off + n) <=>
          \/ off + n >= 1 /\ file[off + n] = ASCII_CR
          \/ \E t \in 1..(off + n - 1) : Pair(t)
    <3>1. CS!ASCII_CR = ASCII_CR /\ \A b : CS!SeqLength(b) = SeqLength(b)
      BY SameOperators
    <3>2. QED
      BY <1>2, <3>1 DEF CS!AfterCr
  <2>2. ASSUME NEW t \in 1..(off + n - 1), Pair(t)
        PROVE  t = off
    <3>1. CASE t < off
      <4>1. t \in 0..(off - 1)
        BY <1>2, <3>1
      <4>2. t + SeqLength(file[t + 1]) <= off
        BY <1>3, <2>2, <4>1
      <4>3. t + SeqLength(file[t + 1]) = off + n
        BY <2>2
      <4>4. off + n <= off
        BY <4>2, <4>3
      <4>5. off \in Nat /\ n \in 1..4
        BY <1>2
      <4>6. QED
        BY <4>4, <4>5
    <3>2. CASE t > off
      <4> HIDE DEF Pair
      <4>1. off \in 0..(t - 1)
        BY <1>2, <3>2
      <4>2. CS!FirstText(file, t)
        BY <2>2 DEF Pair
      <4>3. CS!IsNewline(file, off)
        BY <4>1, <4>2 DEF CS!FirstText
      <4>4. QED
        BY <1>2, <1>6, <3>2, <4>3
    <3>3. QED
      BY <1>2, <3>1, <3>2
  <2>3. (off >= 1 /\ CS!FirstText(file, off) /\ file[off] = ASCII_CR)
          <=> (off >= 1 /\ Pair(off))
    BY <1>2
  <2>4. off >= 1 => off \in 1..(off + n - 1)
    BY <1>2
  <2>5. (\E t \in 1..(off + n - 1) : Pair(t)) <=> (off >= 1 /\ Pair(off))
    <3> HIDE DEF Pair
    <3>1. QED
      BY <1>2, <2>2, <2>4
  <2>6. off + n >= 1
    BY <1>2
  <2>7. QED
    BY <2>1, <2>3, <2>5, <2>6
<1>12. last_was_cr' <=> CS!AfterCr(file, off')
  <2>1. CASE file[off + 1] = ASCII_CR
    <3>1. n = 1 /\ NextSeq = <<ASCII_CR>> /\ NextSeq # <<ASCII_LF>>
      BY <1>4, <2>1 DEF ASCII_CR, ASCII_LF
    <3>2. last_was_cr' = TRUE
      BY <1>1, <3>1 DEF CountChar
    <3>3. QED
      BY <1>1, <1>11, <2>1, <3>1, <3>2
  <2>2. CASE file[off + 1] = ASCII_LF
    <3>1. n = 1 /\ NextSeq = <<ASCII_LF>> /\ NextSeq # <<ASCII_CR>>
      BY <1>4, <2>2 DEF ASCII_CR, ASCII_LF
    <3>2. last_was_cr' = FALSE
      BY <1>1, <3>1 DEF CountChar
    <3>3. ~CS!FirstText(file, off) /\ file[off + n] # ASCII_CR
      BY <2>2, <3>1, NewlineDef DEF CS!FirstText, ASCII_CR, ASCII_LF
    <3>4. QED
      BY <1>1, <1>11, <3>2, <3>3
  <2>3. CASE file[off + 1] \notin {ASCII_CR, ASCII_LF}
    <3>1. NextSeq # <<ASCII_CR>> /\ NextSeq # <<ASCII_LF>>
      BY <1>4, <2>3
    <3>2. last_was_cr' = (last_was_cr /\ no_text_yet)
      BY <1>1, <3>1 DEF CountChar
    <3>3. file[off + n] # ASCII_CR
      BY <1>2, <1>7, <2>3
    <3>4. ~CS!IsNewline(file, off)
      BY <2>3, NewlineDef
    <3>5. CS!FirstText(file, off) <=> AllNewlines(off)
      BY <1>2, <3>4 DEF CS!FirstText
    <3>6. ASSUME AllNewlines(off)
          PROVE  CS!AfterCr(file, off) <=> off >= 1 /\ file[off] = ASCII_CR
      <4>1. \A t \in 1..(off - 1) : ~CS!FirstText(file, t)
        BY <1>2, <3>6 DEF CS!FirstText
      <4>2. QED
        BY <4>1, SameOperators DEF CS!AfterCr
    <3>7. QED
      BY <1>1, <1>3, <1>11, <3>2, <3>3, <3>5, <3>6
  <2>4. QED
    BY <2>1, <2>2, <2>3
<1>13. QED
  BY <1>1, <1>2, <1>9, <1>10, <1>12 DEF DecoderInv

-----------------------------------------------------------------------------
LEMMA InitDecoder == ASSUME Init PROVE DecoderInv
<1>1. off = 0 /\ no_text_yet = TRUE /\ last_was_cr = FALSE /\ leftover = <<>> /\ pc = "idle"
  BY DEF Init
<1>2. \A i \in 0..(off - 1) : FALSE
  BY <1>1
<1>3. ~CS!AfterCr(file, off)
  <2>1. ~(off >= 1) /\ \A t \in 1..(off - 1) : FALSE
    BY <1>1
  <2>2. QED
    BY <2>1 DEF CS!AfterCr
<1>4. QED
  BY <1>1, <1>2, <1>3 DEF DecoderInv

LEMMA NextDecoder ==
  ASSUME IInv, DecoderInv, [Next]_vars
  PROVE  DecoderInv'
<1> DEFINE Same == UNCHANGED <<file, off, addVars>>
           Kept == (leftover # <<>> => SeqLength(leftover[1]) > Len(leftover))'
           Enough == (pc = "return" => n_unread_chars >= UTF8_BUF_MIN_SIZE \/ is_eof)'
<1>1. ASSUME Same, pc # "aborted", Kept, Enough
      PROVE  DecoderInv'
  <2>1. /\ file' = file /\ off' = off /\ last_was_cr' = last_was_cr
        /\ no_text_yet' = no_text_yet
    BY <1>1 DEF addVars
  <2>2. QED
    BY <1>1, <2>1 DEF DecoderInv
<1>2. CASE Call \/ Return
  <2>1. /\ Same /\ leftover' = leftover /\ f' = f
        /\ pc' \in {"idle", "refill"} /\ pc \in {"idle", "return"}
    BY <1>2 DEF Call, Return, SkipSpaces, Answer
  <2>2. Kept
    BY <2>1 DEF DecoderInv
  <2>3. QED
    BY <1>1, <2>1, <2>2
<1>3. CASE RefillDone
  <2>1. Same /\ leftover' = leftover /\ f' = f /\ unread' = unread /\ pc = "refill"
    BY <1>3 DEF RefillDone
  <2>2. Kept
    BY <2>1 DEF DecoderInv
  <2>3. Enough
    BY <1>3, <2>1 DEF RefillDone, n_unread_chars, is_eof
  <2>4. QED
    BY <1>1, <2>1, <2>2, <2>3
<1>4. CASE Fread
  <2>1. Same /\ leftover' = <<>> /\ pc = "refill" /\ pc' = "decode"
    BY <1>4 DEF Fread, Block
  <2>2. QED
    BY <1>1, <2>1
<1>5. CASE FreadFails
  <2>1. Same /\ leftover' = <<>> /\ pc = "refill" /\ f' = "null"
    BY <1>5 DEF FreadFails
  <2>2. QED
    BY <1>1, <2>1 DEF is_eof
<1>6. CASE BlockDone
  <2>1. Same /\ leftover' = leftover /\ pc = "decode" /\ pc' = "refill"
    BY <1>6 DEF BlockDone
  <2>2. Kept
    BY <2>1 DEF DecoderInv
  <2>3. QED
    BY <1>1, <2>1, <2>2
<1>7. CASE SplitSequence
  <2>1. /\ Same /\ leftover' = fread_buf /\ pc = "decode" /\ pc' = "refill"
        /\ SeqLength(fread_buf[1]) > Len(fread_buf)
    BY <1>7 DEF SplitSequence, utf8_seq_length
  <2>2. QED
    BY <1>1, <2>1
<1>8. CASE BadSequence
  <2>1. Same /\ leftover' = leftover /\ pc = "decode" /\ f' = "null"
    BY <1>8 DEF BadSequence
  <2>2. Kept
    BY <2>1 DEF DecoderInv
  <2>3. QED
    BY <1>1, <2>1, <2>2 DEF is_eof
<1>9. CASE AddUtf8
  BY <1>9, AddUtf8Decoder
<1>10. CASE AssertFails
  <2>1. pc' = "aborted" /\ leftover' = leftover
    BY <1>10 DEF AssertFails
  <2>2. QED
    BY <2>1 DEF DecoderInv
<1>11. CASE UNCHANGED vars
  BY <1>11 DEF vars, DecoderInv, n_unread_chars, is_eof
<1>12. QED
  BY <1>2, <1>3, <1>4, <1>5, <1>6, <1>7, <1>8, <1>9, <1>10, <1>11 DEF Next, Refill

\* add_utf8's flags always say what the decoded bytes say, and a call answers
\* only with enough characters or with the handle gone (filereader.cpp:39-83).
THEOREM DecoderCorrect == Spec => []DecoderInv
<1>1. Init => DecoderInv
  BY InitDecoder
<1>2. IInv /\ DecoderInv /\ [Next]_vars => DecoderInv'
  BY NextDecoder
<1>3. Spec => []IInv
  BY Invariance
<1>4. QED
  BY <1>1, <1>2, <1>3, PTL DEF Spec

-----------------------------------------------------------------------------
(* Every step of the reader is one of the stream, or a stutter.            *)

StreamSkipping == pc # "idle" /\ call.op = "skip_whitespace"

\* Between calls, and when a refill has returned, a reader without a handle
\* has nothing more to decode: what is left over is an unfinished sequence.
LEMMA NoHandleIsExhausted ==
  ASSUME IInv, DecoderInv, pc \in {"idle", "return"}, is_eof
  PROVE  CS!Exhausted
<1> SUFFICES ASSUME input_error = "none" PROVE ~CS!HasSeq(file, off)
  BY DEF CS!Exhausted
<1>1. /\ file \in Seq(Byte) /\ off \in Nat /\ pos \in Nat /\ Len(file) \in Nat
      /\ off <= pos /\ leftover \in Seq(Byte)
  BY TypeFacts DEF IInv
<1>2. pos = Len(file) /\ fread_buf = <<>>
  BY DEF IInv, ControlInv, is_eof
<1>3. leftover = Slice(file, off, pos - off)
  BY <1>1, <1>2, ConcatEmptySeq DEF IInv, BytesConserved
<1>4. /\ pos - off \in Nat /\ off + (pos - off) <= Len(file)
  BY <1>1, <1>2
<1>5. Len(leftover) = pos - off /\ \A i \in 1..(pos - off) : leftover[i] = file[off + i]
  <2> DEFINE m == pos - off
  <2>1. m \in Nat /\ off + m <= Len(file)
    BY <1>4
  <2> HIDE DEF m
  <2>2. Len(Slice(file, off, m)) = m /\ \A i \in 1..m : Slice(file, off, m)[i] = file[off + i]
    BY <1>1, <2>1, SliceProperties
  <2>3. QED
    BY <1>3, <2>2 DEF m
<1>6. CASE leftover = <<>>
  <2>1. pos - off = 0
    BY <1>5, <1>6
  <2>2. ~(off < Len(file))
    BY <1>1, <1>2, <2>1
  <2>3. QED
    BY <2>2 DEF CS!HasSeq
<1>7. CASE leftover # <<>>
  <2>1. Len(leftover) >= 1
    BY <1>1, <1>7, EmptySeq
  <2>2. leftover[1] = file[off + 1] /\ leftover[1] \in Byte
    BY <1>1, <1>4, <1>5, <2>1, ElementOfSeq
  <2>3. SeqLength(file[off + 1]) > Len(file) - off /\ SeqLength(file[off + 1]) \in 0..4
    BY <1>2, <1>5, <1>7, <2>2, SeqLengthRange DEF DecoderInv
  <2>4. ~(off + SeqLength(file[off + 1]) <= Len(file))
    BY <1>1, <2>3
  <2>5. QED
    BY <2>4, SameOperators DEF CS!HasSeq
<1>8. QED
  BY <1>6, <1>7

LEMMA CallArguments ==
  ASSUME NEW c \in Calls
  PROVE  /\ c.op = "read_ahead" => c.arg \in LookAheads
         /\ c.op = "attempt" => c.arg \in Wanted
         /\ c.arg \in Int
         /\ Need(c) \in Nat /\ Need(c) <= UTF8_BUF_MIN_SIZE
<1>1. \/ c \in [op : {"next_char", "peek_char", "skip_whitespace"}, arg : {0}]
      \/ c \in [op : {"read_ahead"}, arg : LookAheads]
      \/ c \in [op : {"attempt"}, arg : Wanted]
  BY DEF Calls
<1>2. /\ UTF8_BUF_MIN_SIZE \in Nat /\ UTF8_BUF_MIN_SIZE >= 1
      /\ LookAheads \subseteq 1..UTF8_BUF_MIN_SIZE /\ Wanted \subseteq 0..127
  BY BufferSizes, ClientAssumption
<1>3. CASE c \in [op : {"next_char", "peek_char", "skip_whitespace"}, arg : {0}]
  BY <1>2, <1>3 DEF Need
<1>4. CASE c \in [op : {"read_ahead"}, arg : LookAheads]
  <2>1. c.op = "read_ahead" /\ c.arg \in LookAheads
    BY <1>4
  <2>2. c.arg \in 1..UTF8_BUF_MIN_SIZE
    BY <1>2, <2>1
  <2>3. QED
    BY <1>2, <2>1, <2>2 DEF Need
<1>5. CASE c \in [op : {"attempt"}, arg : Wanted]
  <2>1. c.op = "attempt" /\ c.arg \in Wanted
    BY <1>5
  <2>2. c.arg \in 0..127
    BY <1>2, <2>1
  <2>3. Need(c) = 1
    BY <2>1 DEF Need
  <2>4. QED
    BY <1>2, <2>1, <2>2, <2>3
<1>6. QED
  BY <1>1, <1>3, <1>4, <1>5

LEMMA AnswerIsStreamStep ==
  ASSUME IInv, DecoderInv, call' \in Calls, ~StreamSkipping, Answer,
         n_unread_chars >= Need(call') \/ CS!Exhausted,
         UNCHANGED <<file, off, input_error>>
  PROVE  CS!Next
<1>1. (StreamSkipping') <=> StreamSkipping
  BY DEF Answer, StreamSkipping
<1>2. /\ ~(pc # "idle" /\ call.op = "skip_whitespace")
      /\ UNCHANGED <<file, off, input_error, pc # "idle" /\ call.op = "skip_whitespace">>
  BY <1>1 DEF StreamSkipping
<1>3. unread \in Seq(Char) /\ Len(unread) \in Nat
  BY TypeFacts DEF IInv
<1>4. unread = <<>> <=> Len(unread) = 0
  BY <1>3, EmptySeq
<1>5. ASSUME Consume(1), unread # <<>>
      PROVE  unread' = Tail(unread)
  <2>1. unread' = SubSeq(unread, 2, Len(unread))
    BY <1>5 DEF Consume
  <2>2. QED
    BY <1>3, <1>5, <2>1
<1>6. CASE AnswerNextChar
  <2>1. Need(call') = 1
    BY <1>6 DEF AnswerNextChar, Need
  <2>2. CASE unread # <<>>
    <3>1. ret' = Something(Head(unread)) /\ unread' = Tail(unread)
      BY <1>5, <1>6, <2>2 DEF AnswerNextChar
    <3>2. CS!NextChar
      BY <1>2, <2>2, <3>1, SameOperators DEF CS!NextChar
    <3>3. QED
      BY <3>2 DEF CS!Next
  <2>3. CASE unread = <<>>
    <3>1. ret' = Nothing /\ unread' = unread
      BY <1>6, <2>3 DEF AnswerNextChar
    <3>2. CS!Exhausted
      BY <1>4, <2>1, <2>3 DEF n_unread_chars
    <3>3. CS!AnswerNothing
      BY <1>2, <2>3, <3>1, <3>2, SameOperators DEF CS!AnswerNothing
    <3>4. QED
      BY <3>3 DEF CS!Next
  <2>4. QED
    BY <2>2, <2>3
<1>7. CASE AnswerPeekChar
  <2>1. Need(call') = 1 /\ unread' = unread
    BY <1>7 DEF AnswerPeekChar, Need
  <2>2. CASE unread # <<>>
    <3>1. ret' = Something(Head(unread))
      BY <1>7, <2>2 DEF AnswerPeekChar
    <3>2. CS!PeekChar
      BY <1>2, <2>1, <2>2, <3>1, SameOperators DEF CS!PeekChar
    <3>3. QED
      BY <3>2 DEF CS!Next
  <2>3. CASE unread = <<>>
    <3>1. ret' = Nothing
      BY <1>7, <2>3 DEF AnswerPeekChar
    <3>2. CS!Exhausted
      BY <1>4, <2>1, <2>3 DEF n_unread_chars
    <3>3. CS!AnswerNothing
      BY <1>2, <2>1, <2>3, <3>1, <3>2, SameOperators DEF CS!AnswerNothing
    <3>4. QED
      BY <3>3 DEF CS!Next
  <2>4. QED
    BY <2>2, <2>3
<1>8. CASE AnswerReadAhead
  <2>1. /\ Need(call') = call'.arg /\ unread' = unread
        /\ ret' = IF Len(unread) >= call'.arg THEN Success ELSE Nothing
    BY <1>8 DEF AnswerReadAhead, Need, n_unread_chars
  <2>2. call'.arg \in LookAheads /\ call'.arg \in Int
    BY <1>8, CallArguments DEF AnswerReadAhead
  <2>3. CS!ReadAhead(call'.arg)
    BY <1>2, <1>3, <2>1, <2>2, SameOperators DEF CS!ReadAhead, n_unread_chars
  <2>4. QED
    BY <2>2, <2>3 DEF CS!Next
<1>9. CASE AnswerAttempt
  <2>1. Need(call') = 1 /\ call'.arg \in Wanted
    BY <1>9 DEF AnswerAttempt, Need, Calls
  <2>2. CASE unread # <<>>
    <3>1. \/ Head(unread)[1] = call'.arg /\ ret' = Success /\ unread' = Tail(unread)
          \/ Head(unread)[1] # call'.arg /\ ret' = Nothing /\ unread' = unread
      BY <1>5, <1>9, <2>2 DEF AnswerAttempt, NextIs
    <3>2. CS!Attempt(call'.arg)
      BY <1>2, <2>2, <3>1, SameOperators DEF CS!Attempt
    <3>3. QED
      BY <2>1, <3>2 DEF CS!Next
  <2>3. CASE unread = <<>>
    <3>1. ret' = Nothing /\ unread' = unread
      BY <1>9, <2>3 DEF AnswerAttempt, NextIs
    <3>2. CS!Exhausted
      BY <1>4, <2>1, <2>3 DEF n_unread_chars
    <3>3. CS!AnswerNothing
      BY <1>2, <2>3, <3>1, <3>2, SameOperators DEF CS!AnswerNothing
    <3>4. QED
      BY <3>3 DEF CS!Next
  <2>4. QED
    BY <2>2, <2>3
<1>10. QED
  BY <1>6, <1>7, <1>8, <1>9 DEF Answer

LEMMA SkipSpacesIsStreamStep ==
  ASSUME IInv, DecoderInv, SkipSpaces, is_eof => CS!Exhausted,
         UNCHANGED <<file, off, input_error>>
  PROVE  CS!Next
<1>1. PICK n \in 0..Len(unread) :
        /\ \A i \in 1..n : IsSpace(unread[i][1])
        /\ n < Len(unread) => ~IsSpace(unread[n + 1][1])
        /\ Consume(n)
        /\ \/ /\ n < Len(unread) \/ is_eof
              /\ pc' = "idle"
              /\ ret' = Success
           \/ /\ n = Len(unread) /\ ~is_eof
              /\ pc' = "refill"
              /\ UNCHANGED ret
  BY DEF SkipSpaces
<1>2. call'.op = "skip_whitespace" /\ Len(unread) \in Nat
  BY TypeFacts DEF SkipSpaces, IInv
<1>3. unread' = SubSeq(unread, n + 1, Len(unread))
  BY <1>1 DEF Consume
<1>4. \/ (StreamSkipping)' /\ ret' = ret
      \/ /\ n < Len(unread) => ~IsSpace(unread[n + 1][1])
         /\ n = Len(unread) => CS!Exhausted
         /\ ~(StreamSkipping')
         /\ ret' = Success
  BY <1>1, <1>2 DEF StreamSkipping
<1>5. \/ (pc' # "idle" /\ call'.op = "skip_whitespace") = TRUE /\ ret' = ret
      \/ /\ n < Len(unread) => ~IsSpace(unread[n + 1][1])
         /\ n = Len(unread) => CS!Exhausted
         /\ (pc' # "idle" /\ call'.op = "skip_whitespace") = FALSE
         /\ ret' = Success
  BY <1>4 DEF StreamSkipping
<1>6. CS!Skip
  BY <1>1, <1>3, <1>5, SameOperators DEF CS!Skip
<1>7. QED
  BY <1>6 DEF CS!Next

LEMMA InitStream == ASSUME Init PROVE CS!Init
BY SameOperators DEF Init, CS!Init

LEMMA NextStream ==
  ASSUME IInv, DecoderInv, [Next]_vars
  PROVE  [CS!Next]_CS!vars
<1>1. ASSUME UNCHANGED <<file, off, unread, input_error, ret>>,
             (StreamSkipping') <=> StreamSkipping
      PROVE  UNCHANGED CS!vars
  BY <1>1 DEF CS!vars, StreamSkipping
<1>2. CASE Call
  <2>1. /\ pc = "idle" /\ call' \in Calls /\ UNCHANGED <<file, off, input_error>>
        /\ ~StreamSkipping
    BY <1>2 DEF Call, StreamSkipping
  <2>2. is_eof => CS!Exhausted
    BY <2>1, NoHandleIsExhausted
  <2>3. CASE SkipSpaces
    BY <2>1, <2>2, <2>3, SkipSpacesIsStreamStep
  <2>4. CASE Answer /\ (n_unread_chars >= Need(call') \/ is_eof)
    BY <2>1, <2>2, <2>4, AnswerIsStreamStep
  <2>5. CASE call'.op # "skip_whitespace" /\ UNCHANGED <<next, unread, ret, utf8_line>>
    <3>1. ~(StreamSkipping')
      BY <2>5 DEF StreamSkipping
    <3>2. QED
      BY <1>1, <2>1, <2>5, <3>1
  <2>6. QED
    BY <1>2, <2>3, <2>4, <2>5 DEF Call
<1>3. CASE Return
  <2>1. /\ pc = "return" /\ call' = call /\ UNCHANGED <<file, off, input_error>>
        /\ call \in Calls
    BY <1>3 DEF Return, IInv, TypeOK
  <2>2. is_eof => CS!Exhausted
    BY <2>1, NoHandleIsExhausted
  <2>3. n_unread_chars >= UTF8_BUF_MIN_SIZE \/ is_eof
    BY <2>1 DEF DecoderInv
  <2>4. CASE SkipSpaces
    BY <2>1, <2>2, <2>4, SkipSpacesIsStreamStep
  <2>5. CASE Answer
    <3>1. call.op # "skip_whitespace"
      BY <2>1, <2>5 DEF Answer, AnswerNextChar, AnswerPeekChar, AnswerReadAhead, AnswerAttempt
    <3>2. Need(call) \in Nat /\ Need(call) <= UTF8_BUF_MIN_SIZE
      BY <2>1, CallArguments
    <3>3. n_unread_chars \in Nat /\ UTF8_BUF_MIN_SIZE \in Nat
      BY TypeFacts, BufferSizes DEF IInv, n_unread_chars
    <3>4. n_unread_chars >= Need(call') \/ CS!Exhausted
      BY <2>1, <2>2, <2>3, <3>2, <3>3
    <3>5. QED
      BY <2>1, <2>5, <3>1, <3>4, AnswerIsStreamStep DEF StreamSkipping
  <2>6. QED
    BY <1>3, <2>4, <2>5 DEF Return
<1>4. CASE RefillDone \/ Fread \/ BlockDone \/ SplitSequence \/ AssertFails
  <2>1. /\ UNCHANGED <<file, off, unread, input_error, ret, call>>
        /\ pc # "idle" /\ pc' # "idle"
    BY <1>4 DEF RefillDone, Fread, BlockDone, SplitSequence, AssertFails, bufVars
  <2>2. QED
    BY <1>1, <2>1 DEF StreamSkipping
<1>5. CASE FreadFails \/ BadSequence
  <2>1. /\ UNCHANGED <<file, off, unread, ret, call>> /\ pc \in {"refill", "decode"}
        /\ pc' = "return"
    BY <1>5 DEF FreadFails, BadSequence, bufVars
  <2>2. input_error = "none"
    BY <2>1 DEF IInv, ControlInv
  <2>3. UNCHANGED <<pc # "idle" /\ call.op = "skip_whitespace">>
    BY <2>1
  <2>4. BadSequence => CS!Malformed(file, off)
    <3> SUFFICES ASSUME BadSequence PROVE CS!Malformed(file, off)
      OBVIOUS
    <3>1. /\ pc = "decode" /\ fread_buf # <<>> /\ utf8_seq_length <= Len(fread_buf)
          /\ utf8_seq_length = 0 \/ ~WellFormed(NextSeq)
      BY DEF BadSequence
    <3>2. /\ CS!HasSeq(file, off) /\ NextSeq = CS!CharAt(file, off)
          /\ utf8_seq_length = SeqLength(file[off + 1])
      BY <3>1, WholeSequenceInFile, HeadOfBlock
    <3>3. QED
      BY <3>1, <3>2, SameOperators DEF CS!Malformed
  <2>5. \/ input_error' = "encoding" /\ CS!Malformed(file, off)
        \/ input_error' = "read"
    BY <1>5, <2>4 DEF FreadFails, BadSequence
  <2>6. CS!Fail
    BY <2>1, <2>2, <2>3, <2>5 DEF CS!Fail
  <2>7. QED
    BY <2>6 DEF CS!Next
<1>6. CASE AddUtf8
  <2>1. /\ pc = "decode" /\ pc' = "decode" /\ call' = call /\ ret' = ret /\ file' = file
        /\ input_error' = input_error /\ fread_buf # <<>> /\ utf8_seq_length # 0
        /\ utf8_seq_length <= Len(fread_buf) /\ WellFormed(NextSeq)
        /\ off' = off + utf8_seq_length
        /\ unread' = IF Ignored(NextSeq) THEN unread ELSE Append(unread, NextSeq)
    BY <1>6 DEF AddUtf8
  <2>2. /\ CS!HasSeq(file, off) /\ NextSeq = CS!CharAt(file, off)
        /\ utf8_seq_length = SeqLength(file[off + 1]) /\ input_error = "none"
    BY <2>1, WholeSequenceInFile, HeadOfBlock
  <2>3. Ignored(NextSeq) <=> CS!Dropped(file, off)
    BY <2>1, IgnoredIsDropped
  <2>4. ~CS!Malformed(file, off)
    BY <2>1, <2>2, SameOperators DEF CS!Malformed
  <2>5. UNCHANGED <<pc # "idle" /\ call.op = "skip_whitespace">>
    BY <2>1
  <2>6. unread' = IF CS!Dropped(file, off) THEN unread
                    ELSE Append(unread, CS!CharAt(file, off))
    BY <2>1, <2>2, <2>3
  <2>7. off' = off + CS!SeqLength(file[off + 1])
    BY <2>1, <2>2, SameOperators
  <2>8. CS!Decode
    BY <2>1, <2>2, <2>4, <2>5, <2>6, <2>7 DEF CS!Decode
  <2>9. QED
    BY <2>8 DEF CS!Next
<1>7. CASE UNCHANGED vars
  BY <1>7 DEF vars, CS!vars
<1>8. QED
  BY <1>2, <1>3, <1>4, <1>5, <1>6, <1>7 DEF Next, Refill

\* filereader.{h,cpp} implement the character stream: clients get the file's
\* characters in order, each once, and `nothing' only at the end or on an error.
THEOREM Refinement == Spec => ImplementsCharStream
<1>1. Init => CS!Init
  BY InitStream
<1>2. IInv /\ DecoderInv /\ [Next]_vars => [CS!Next]_CS!vars
  BY NextStream
<1>3. Spec => [](IInv /\ DecoderInv)
  BY Invariance, DecoderCorrect, PTL
<1>4. QED
  BY <1>1, <1>2, <1>3, PTL DEF Spec, CS!Spec, ImplementsCharStream

-----------------------------------------------------------------------------
(* Line numbers.                                                           *)

IsLineEnd(c) == c[1] \in {ASCII_CR, ASCII_LF}

\* The line ends among the characters a client has not seen yet.
LineEnds(s) == {i \in 1..Len(s) : IsLineEnd(s[i])}
LinesAhead(s) == Cardinality(LineEnds(s))

\* The line ends among the first o bytes of the file that the stream keeps.
LinesTo(o) == {i \in 0..(o - 1) : CS!IsNewline(file, i) /\ ~CS!Dropped(file, i)}

\* The decoder's line is the number of line ends decoded; the client's line
\* and the line ends waiting for the client do not exceed it.
LineInv ==
  /\ pc # "aborted" => in_line = 1 + Cardinality(LinesTo(off))
  /\ utf8_line + LinesAhead(unread) <= in_line

LEMMA LinesAheadType ==
  ASSUME NEW s \in Seq(Char)
  PROVE  IsFiniteSet(LineEnds(s)) /\ LinesAhead(s) \in Nat
<1>1. IsFiniteSet(1..Len(s)) /\ LineEnds(s) \in SUBSET (1..Len(s))
  BY LenProperties, FS_Interval DEF LineEnds
<1>2. IsFiniteSet(LineEnds(s))
  BY <1>1, FS_Subset
<1>3. QED
  BY <1>2, FS_CardinalityType DEF LinesAhead

\* A character added to the buffer adds one line end at most.
LEMMA LinesAheadAppend ==
  ASSUME NEW s \in Seq(Char), NEW c \in Char
  PROVE  LinesAhead(Append(s, c)) <= LinesAhead(s) + (IF IsLineEnd(c) THEN 1 ELSE 0)
<1> DEFINE t == Append(s, c)
<1>1. /\ Len(t) = Len(s) + 1 /\ Len(s) \in Nat
      /\ \A i \in 1..Len(s) : t[i] = s[i]
      /\ t[Len(s) + 1] = c
  BY AppendProperties, LenProperties
<1> HIDE DEF t
<1>2. LineEnds(t) = LineEnds(s) \cup (IF IsLineEnd(c) THEN {Len(s) + 1} ELSE {})
  <2>1. \A i : i \in 1..Len(t) <=> i \in 1..Len(s) \/ i = Len(s) + 1
    BY <1>1
  <2>2. QED
    BY <1>1, <2>1 DEF LineEnds
<1>3. IsFiniteSet(LineEnds(s)) /\ LinesAhead(s) \in Nat
  BY LinesAheadType
<1>4. Cardinality(LineEnds(s) \cup {Len(s) + 1})
        = (IF Len(s) + 1 \in LineEnds(s) THEN Cardinality(LineEnds(s)) ELSE Cardinality(LineEnds(s)) + 1)
  BY <1>3, FS_AddElement
<1>5. LinesAhead(t) <= LinesAhead(s) + (IF IsLineEnd(c) THEN 1 ELSE 0)
  <2>1. CASE IsLineEnd(c)
    BY <1>2, <1>3, <1>4, <2>1 DEF LinesAhead
  <2>2. CASE ~IsLineEnd(c)
    <3>1. LineEnds(t) = LineEnds(s)
      BY <1>2, <2>2
    <3>2. QED
      BY <1>3, <2>2, <3>1 DEF LinesAhead
  <2>3. QED
    BY <2>1, <2>2
<1>6. QED
  BY <1>5 DEF t

\* What a client consumes takes its line ends along.
LEMMA LinesAheadRest ==
  ASSUME NEW s \in Seq(Char), NEW n \in 0..Len(s)
  PROVE  /\ LinesAhead(SubSeq(s, n + 1, Len(s))) <= LinesAhead(s)
         /\ n >= 1 /\ IsLineEnd(s[1]) =>
              LinesAhead(SubSeq(s, n + 1, Len(s))) + 1 <= LinesAhead(s)
<1> DEFINE t == SubSeq(s, n + 1, Len(s))
           A == LineEnds(t)
           B == LineEnds(s) \ (1..n)
           shift == [i \in A |-> i + n]
<1>1. Len(s) \in Nat /\ n \in Nat /\ n <= Len(s)
  BY LenProperties
<1>2. t \in Seq(Char) /\ Len(t) = Len(s) - n /\ \A i \in 1..(Len(s) - n) : t[i] = s[n + i]
  <2>1. \A i \in (n + 1)..Len(s) : s[i] \in Char
    BY <1>1, ElementOfSeq
  <2>2. n + 1 \in Int /\ Len(s) \in Int
    BY <1>1
  <2>3. /\ t \in Seq(Char) /\ Len(t) = (IF n + 1 <= Len(s) THEN Len(s) - (n + 1) + 1 ELSE 0)
        /\ \A i \in 1..(Len(s) - (n + 1) + 1) : t[i] = s[(n + 1) + i - 1]
    BY <2>1, <2>2, SubSeqProperties
  <2> HIDE DEF t
  <2>4. Len(t) = Len(s) - n
    <3>1. Len(t) = (IF n + 1 <= Len(s) THEN Len(s) - (n + 1) + 1 ELSE 0)
      BY <2>3
    <3>2. QED
      BY <1>1, <3>1
  <2>5. ASSUME NEW i \in 1..(Len(s) - n) PROVE t[i] = s[n + i]
    <3>1. i \in 1..(Len(s) - (n + 1) + 1) /\ (n + 1) + i - 1 = n + i
      BY <1>1
    <3>2. t[i] = s[(n + 1) + i - 1]
      BY <2>3, <3>1
    <3>3. QED
      BY <3>1, <3>2
  <2>6. QED
    BY <2>3, <2>4, <2>5
<1> HIDE DEF t
<1>3. shift \in Injection(A, B)
  <2>1. \A i \in A : i \in 1..(Len(s) - n) /\ IsLineEnd(s[n + i])
    BY <1>2 DEF LineEnds
  <2>2. \A i \in A : i + n \in B
    <3> SUFFICES ASSUME NEW i \in A PROVE i + n \in B
      OBVIOUS
    <3>1. i \in 1..(Len(s) - n) /\ IsLineEnd(s[n + i]) /\ n + i = i + n
      BY <1>1, <2>1
    <3>2. i + n \in 1..Len(s) /\ i + n \notin 1..n
      BY <1>1, <3>1
    <3>3. QED
      BY <3>1, <3>2 DEF LineEnds
  <2>3. \A i, j \in A : shift[i] = shift[j] => i = j
    BY <1>1, <2>1
  <2>4. shift \in [A -> B]
    BY <2>2
  <2>5. QED
    <3>1. DOMAIN shift = A
      OBVIOUS
    <3>2. IsInjective(shift)
      BY <2>3, <3>1 DEF IsInjective
    <3> HIDE DEF shift
    <3>3. QED
      BY <2>4, <3>2 DEF Injection
<1>4. IsFiniteSet(LineEnds(s)) /\ LinesAhead(s) \in Nat /\ LinesAhead(t) \in Nat
  BY <1>2, LinesAheadType
<1>5. IsFiniteSet(B) /\ Cardinality(B) <= Cardinality(LineEnds(s)) /\ Cardinality(B) \in Nat
  BY <1>4, FS_Subset, FS_CardinalityType
<1>6. Cardinality(A) <= Cardinality(B)
  BY <1>3, <1>5, FS_Injection
<1>7. ASSUME n >= 1, IsLineEnd(s[1])
      PROVE  Cardinality(B) + 1 <= Cardinality(LineEnds(s))
  <2>1. 1 \in LineEnds(s) /\ 1 \notin B
    BY <1>1, <1>7 DEF LineEnds
  <2>2. Cardinality(B \cup {1}) = Cardinality(B) + 1
    BY <1>5, <2>1, FS_AddElement
  <2>3. B \cup {1} \in SUBSET LineEnds(s)
    BY <2>1
  <2>4. QED
    BY <1>4, <2>2, <2>3, FS_Subset
<1>8. QED
  <2>1. LinesAhead(t) = Cardinality(A) /\ LinesAhead(s) = Cardinality(LineEnds(s))
    BY DEF LinesAhead
  <2>2. LinesAhead(t) <= LinesAhead(s)
    BY <1>4, <1>5, <1>6, <2>1
  <2>3. n >= 1 /\ IsLineEnd(s[1]) => LinesAhead(t) + 1 <= LinesAhead(s)
    BY <1>4, <1>5, <1>6, <1>7, <2>1
  <2>4. QED
    BY <2>2, <2>3 DEF t

\* Adding a character adds its line end, if it is one that the stream keeps:
\* the other bytes of its sequence are none.
LEMMA LinesToNext ==
  ASSUME IInv, DecoderInv, AddUtf8
  PROVE  /\ IsFiniteSet(LinesTo(off)) /\ Cardinality(LinesTo(off)) \in Nat
         /\ Cardinality(LinesTo(off))' = Cardinality(LinesTo(off))
              + (IF IsLineEnd(NextSeq) /\ ~Ignored(NextSeq) THEN 1 ELSE 0)
<1> DEFINE n == utf8_seq_length
           Kept(i) == CS!IsNewline(file, i) /\ ~CS!Dropped(file, i)
<1>1. /\ pc = "decode" /\ fread_buf # <<>> /\ n # 0 /\ n <= Len(fread_buf)
      /\ WellFormed(NextSeq) /\ off' = off + n /\ file' = file
  BY DEF AddUtf8
<1>2. /\ off \in Nat /\ n \in 1..4 /\ Len(NextSeq) = n
      /\ \A i \in 1..n : NextSeq[i] = file[off + i]
  BY <1>1, HeadOfBlock, WholeSequenceInFile, TypeFacts DEF IInv
<1>3. Kept(off) <=> IsLineEnd(NextSeq) /\ ~Ignored(NextSeq)
  <2>1. NextSeq[1] = file[off + 1]
    BY <1>2
  <2>2. QED
    BY <1>1, <2>1, NewlineDef, IgnoredIsDropped DEF IsLineEnd
<1>4. ASSUME NEW i \in (off + 1)..(off + n - 1) PROVE ~Kept(i)
  <2>1. i + 1 - off \in 2..n /\ i + 1 - off \in 1..n /\ off + (i + 1 - off) = i + 1
    BY <1>2
  <2>2. NextSeq[i + 1 - off] = file[i + 1] /\ IsContinuation(NextSeq[i + 1 - off])
    BY <1>1, <1>2, <2>1 DEF WellFormed
  <2>3. file[i + 1] \in 128..191
    BY <2>2 DEF IsContinuation
  <2>4. QED
    BY <2>3, NewlineDef DEF ASCII_CR, ASCII_LF
<1>5. LinesTo(off)' = LinesTo(off) \cup (IF Kept(off) THEN {off} ELSE {})
  <2>1. LinesTo(off)' = {i \in 0..(off + n - 1) : Kept(i)}
    <3>1. LinesTo(off)' = {i \in 0..(off' - 1) : (CS!IsNewline(file, i) /\ ~CS!Dropped(file, i))'}
      BY DEF LinesTo
    <3>2. \A i : (CS!IsNewline(file, i) /\ ~CS!Dropped(file, i))' <=> Kept(i)
      BY <1>1
    <3>3. off' = off + n
      BY <1>1
    <3>4. LinesTo(off)' = {i \in 0..(off' - 1) : Kept(i)}
      BY <3>1, <3>2
    <3>5. off' - 1 = off + n - 1
      BY <1>2, <3>3
    <3>6. QED
      BY <3>4, <3>5
  <2>2. LinesTo(off) = {i \in 0..(off - 1) : Kept(i)}
    BY DEF LinesTo
  <2>3. \A i : i \in 0..(off + n - 1) <=>
               i \in 0..(off - 1) \/ i = off \/ i \in (off + 1)..(off + n - 1)
    BY <1>2
  <2> HIDE DEF Kept
  <2>4. QED
    BY <1>4, <2>1, <2>2, <2>3
<1>6. IsFiniteSet(LinesTo(off))
  <2>1. IsFiniteSet(0..(off - 1)) /\ LinesTo(off) \in SUBSET (0..(off - 1))
    <3>1. off - 1 \in Int /\ 0 \in Int
      BY <1>2
    <3>2. IsFiniteSet(0..(off - 1))
      BY <3>1, FS_Interval
    <3>3. QED
      BY <3>2 DEF LinesTo
  <2>2. QED
    BY <2>1, FS_Subset
<1>7. Cardinality(LinesTo(off)) \in Nat
  BY <1>6, FS_CardinalityType
<1>8. off \notin LinesTo(off)
  BY <1>2 DEF LinesTo
<1>9. Cardinality(LinesTo(off) \cup {off}) = Cardinality(LinesTo(off)) + 1
  BY <1>6, <1>8, FS_AddElement
<1>10. Cardinality(LinesTo(off))' = Cardinality(LinesTo(off)')
  OBVIOUS
<1> HIDE DEF Kept
<1>11. CASE Kept(off)
  <2>1. LinesTo(off)' = LinesTo(off) \cup {off}
    BY <1>5, <1>11
  <2>2. QED
    BY <1>3, <1>6, <1>7, <1>9, <1>10, <1>11, <2>1
<1>12. CASE ~Kept(off)
  <2>1. LinesTo(off)' = LinesTo(off)
    BY <1>5, <1>12
  <2>2. QED
    BY <1>3, <1>6, <1>7, <1>10, <1>12, <2>1
<1>13. QED
  BY <1>11, <1>12

LEMMA AddUtf8Lines ==
  ASSUME IInv, DecoderInv, LineInv, AddUtf8
  PROVE  LineInv'
<1>1. /\ pc = "decode" /\ pc' = "decode" /\ fread_buf # <<>>
      /\ utf8_seq_length # 0 /\ utf8_seq_length <= Len(fread_buf)
      /\ CountChar(NextSeq) /\ utf8_line' = utf8_line
      /\ unread' = IF Ignored(NextSeq) THEN unread ELSE Append(unread, NextSeq)
  BY DEF AddUtf8
<1>2. in_line' = in_line + (IF IsLineEnd(NextSeq) /\ ~Ignored(NextSeq) THEN 1 ELSE 0)
  <2>1. in_line \in Nat
    BY DEF IInv, TypeOK
  <2>2. QED
    BY <1>1, <2>1 DEF CountChar, IsLineEnd
<1>3. /\ utf8_line \in Nat /\ in_line \in Nat /\ unread \in Seq(Char) /\ NextSeq \in Char
  BY <1>1, WholeSequence DEF IInv, TypeOK
<1>4. LinesAhead(unread) \in Nat /\ in_line = 1 + Cardinality(LinesTo(off))
      /\ utf8_line + LinesAhead(unread) <= in_line
  BY <1>1, <1>3, LinesAheadType DEF LineInv
<1>5. /\ Cardinality(LinesTo(off)) \in Nat
      /\ Cardinality(LinesTo(off))' = Cardinality(LinesTo(off))
              + (IF IsLineEnd(NextSeq) /\ ~Ignored(NextSeq) THEN 1 ELSE 0)
  BY LinesToNext
<1>6. in_line' = 1 + Cardinality(LinesTo(off))'
  <2>1. CASE IsLineEnd(NextSeq) /\ ~Ignored(NextSeq)
    BY <1>2, <1>3, <1>4, <1>5, <2>1
  <2>2. CASE ~(IsLineEnd(NextSeq) /\ ~Ignored(NextSeq))
    BY <1>2, <1>3, <1>4, <1>5, <2>2
  <2>3. QED
    BY <2>1, <2>2
<1>7. utf8_line' + LinesAhead(unread') <= in_line'
  <2>1. CASE Ignored(NextSeq)
    BY <1>1, <1>2, <1>3, <1>4, <2>1
  <2>2. CASE ~Ignored(NextSeq) /\ IsLineEnd(NextSeq)
    <3>1. LinesAhead(unread') <= LinesAhead(unread) + 1 /\ LinesAhead(unread') \in Nat
      BY <1>1, <1>3, <2>2, LinesAheadAppend, LinesAheadType, AppendProperties
    <3>2. QED
      BY <1>1, <1>2, <1>3, <1>4, <2>2, <3>1
  <2>3. CASE ~Ignored(NextSeq) /\ ~IsLineEnd(NextSeq)
    <3>1. LinesAhead(unread') <= LinesAhead(unread) + 0 /\ LinesAhead(unread') \in Nat
      BY <1>1, <1>3, <2>3, LinesAheadAppend, LinesAheadType, AppendProperties
    <3>2. QED
      BY <1>1, <1>2, <1>3, <1>4, <2>3, <3>1
  <2>4. QED
    BY <2>1, <2>2, <2>3
<1>8. QED
  BY <1>6, <1>7 DEF LineInv

\* A client never counts a line end that was not decoded: what a call consumes
\* it counts once or not at all.
LEMMA CallOrReturnLines ==
  ASSUME IInv, LineInv, Call \/ Return
  PROVE  LineInv'
<1>1. /\ UNCHANGED <<file, addVars, off>> /\ pc \in {"idle", "return"}
      /\ unread \in Seq(Char) /\ utf8_line \in Nat /\ in_line \in Nat
      /\ Len(unread) \in Nat /\ LinesAhead(unread) \in Nat
  BY LinesAheadType, LenProperties DEF Call, Return, IInv, TypeOK
<1>2. utf8_line + LinesAhead(unread) <= in_line
  BY DEF LineInv
<1> DEFINE Rst(n) == SubSeq(unread, n + 1, Len(unread))
<1>3. \A n \in 0..Len(unread) :
        /\ LinesAhead(Rst(n)) \in Nat
        /\ LinesAhead(Rst(n)) <= LinesAhead(unread)
        /\ n >= 1 /\ IsLineEnd(unread[1]) => LinesAhead(Rst(n)) + 1 <= LinesAhead(unread)
  <2>1. \A n \in 0..Len(unread) : Rst(n) \in Seq(Char)
    BY <1>1, Rest
  <2>2. QED
    BY <1>1, <2>1, LinesAheadRest, LinesAheadType
<1> HIDE DEF Rst
<1>4. ASSUME NEW n \in 0..Len(unread), unread' = Rst(n), UNCHANGED utf8_line
      PROVE  utf8_line' + LinesAhead(unread') <= in_line
  BY <1>1, <1>2, <1>3, <1>4
<1>5. ASSUME UNCHANGED <<unread, utf8_line>>
      PROVE  utf8_line' + LinesAhead(unread') <= in_line
  BY <1>2, <1>5
<1>6. utf8_line' + LinesAhead(unread') <= in_line
  <2>1. CASE SkipSpaces
    <3>1. PICK n \in 0..Len(unread) : Consume(n)
      BY <2>1 DEF SkipSpaces
    <3>2. unread' = Rst(n) /\ UNCHANGED utf8_line
      BY <2>1, <3>1 DEF SkipSpaces, Consume, Rst
    <3>3. QED
      BY <1>4, <3>2
  <2>2. CASE AnswerNextChar
    <3>1. CASE unread # <<>> /\ Consume(1)
      <4>1. 1 \in 0..Len(unread) /\ Head(unread) = unread[1]
        BY <1>1, <3>1, EmptySeq
      <4>2. unread' = Rst(1)
        BY <3>1 DEF Consume, Rst
      <4>3. utf8_line' = IF IsLineEnd(unread[1]) THEN utf8_line + 1 ELSE utf8_line
        <5>1. unread # <<>>
          BY <3>1
        <5>2. utf8_line' = IF Head(unread)[1] \in {ASCII_CR, ASCII_LF}
                             THEN utf8_line + 1 ELSE utf8_line
          BY <2>2, <5>1 DEF AnswerNextChar
        <5>3. QED
          BY <4>1, <5>2 DEF IsLineEnd
      <4>4. CASE IsLineEnd(unread[1])
        <5>1. LinesAhead(Rst(1)) + 1 <= LinesAhead(unread) /\ LinesAhead(Rst(1)) \in Nat
          BY <1>3, <4>1, <4>4
        <5>2. QED
          BY <1>1, <1>2, <4>2, <4>3, <4>4, <5>1
      <4>5. CASE ~IsLineEnd(unread[1])
        BY <1>4, <4>1, <4>2, <4>3, <4>5
      <4>6. QED
        BY <4>4, <4>5
    <3>2. CASE UNCHANGED <<unread, utf8_line>>
      BY <1>5, <3>2
    <3>3. QED
      BY <2>2, <3>1, <3>2 DEF AnswerNextChar
  <2>3. CASE AnswerAttempt
    <3>1. CASE NextIs(call'.arg) /\ Consume(1)
      <4>1. 1 \in 0..Len(unread)
        BY <1>1, <3>1, EmptySeq DEF NextIs
      <4>2. unread' = Rst(1) /\ UNCHANGED utf8_line
        BY <2>3, <3>1 DEF Consume, AnswerAttempt, Rst
      <4>3. QED
        BY <1>4, <4>1, <4>2
    <3>2. CASE UNCHANGED unread
      BY <1>5, <2>3, <3>2 DEF AnswerAttempt
    <3>3. QED
      BY <2>3, <3>1, <3>2 DEF AnswerAttempt
  <2>4. CASE UNCHANGED <<unread, utf8_line>>
    BY <1>5, <2>4
  <2>5. QED
    BY <2>1, <2>2, <2>3, <2>4
    DEF Call, Return, Answer, AnswerPeekChar, AnswerReadAhead
<1>7. in_line' = in_line /\ LinesTo(off)' = LinesTo(off)
  BY <1>1 DEF addVars, LinesTo
<1>8. in_line' = 1 + Cardinality(LinesTo(off))'
  BY <1>1, <1>7 DEF LineInv
<1>9. QED
  BY <1>6, <1>7, <1>8 DEF LineInv

LEMMA InitLines ==
  ASSUME Init
  PROVE  LineInv
<1>1. LinesTo(off) = {} /\ LineEnds(unread) = {}
  BY EmptySeq DEF Init, LinesTo, LineEnds
<1>2. Cardinality({}) = 0
  BY FS_EmptySet
<1>3. LinesAhead(unread) = 0
  BY <1>1, <1>2 DEF LinesAhead
<1>4. in_line = 1 /\ utf8_line = 1
  BY DEF Init
<1>5. QED
  BY <1>1, <1>2, <1>3, <1>4 DEF LineInv

LEMMA NextLines ==
  ASSUME IInv, DecoderInv, LineInv, [Next]_vars
  PROVE  LineInv'
<1>1. CASE Call \/ Return
  BY <1>1, CallOrReturnLines
<1>2. CASE AddUtf8
  BY <1>2, AddUtf8Lines
<1>3. CASE AssertFails
  <2>1. /\ pc' = "aborted" /\ UNCHANGED <<unread, utf8_line>> /\ CountChar(NextSeq)
        /\ utf8_line \in Nat /\ in_line \in Nat /\ LinesAhead(unread) \in Nat
    BY <1>3, LinesAheadType DEF AssertFails, bufVars, IInv, TypeOK
  <2>2. in_line' >= in_line /\ in_line' \in Nat
    BY <2>1 DEF CountChar
  <2>3. QED
    BY <2>1, <2>2 DEF LineInv
<1>4. CASE Next /\ ~(Call \/ Return) /\ ~AddUtf8 /\ ~AssertFails
  <2>1. UNCHANGED <<file, off, unread, utf8_line, in_line>> /\ pc # "aborted" /\ pc' # "aborted"
    BY <1>4 DEF Next, Refill, RefillDone, Fread, FreadFails, BlockDone, SplitSequence,
                BadSequence, addVars, bufVars
  <2>2. LinesTo(off)' = LinesTo(off)
    BY <2>1 DEF LinesTo
  <2>3. QED
    BY <2>1, <2>2 DEF LineInv
<1>5. CASE UNCHANGED vars
  <2>1. LinesTo(off)' = LinesTo(off)
    BY <1>5 DEF LinesTo, vars
  <2>2. QED
    BY <1>5, <2>1 DEF LineInv, vars
<1>6. QED
  BY <1>1, <1>2, <1>3, <1>4, <1>5

\* The decoder's line is the line of the next byte, a CR LF pair counting once,
\* and the client's line is never ahead of it (filereader.cpp:39-68,
\* filereader.h:158-169).
THEOREM LinesCorrect == Spec => []LineNumbers
<1>1. Init => LineInv
  BY InitLines
<1>2. IInv /\ DecoderInv /\ LineInv /\ [Next]_vars => LineInv'
  BY NextLines
<1>3. Spec => [](IInv /\ DecoderInv)
  BY Invariance, DecoderCorrect, PTL
<1>4. Spec => [](IInv /\ LineInv)
  BY <1>1, <1>2, <1>3, PTL DEF Spec
<1>5. IInv /\ LineInv => LineNumbers
  <2> SUFFICES ASSUME IInv, LineInv PROVE LineNumbers
    OBVIOUS
  <2>1. utf8_line \in Nat /\ in_line \in Nat /\ LinesAhead(unread) \in Nat
    BY LinesAheadType DEF IInv, TypeOK
  <2>2. utf8_line <= in_line
    BY <2>1 DEF LineInv
  <2>3. QED
    BY <2>2 DEF LineInv, LineNumbers, LinesTo
<1>6. QED
  BY <1>4, <1>5, PTL

-----------------------------------------------------------------------------
(* The arena (arena.h).                                                    *)

\* The start of a page is aligned for every block (arena.h:28).
LEMMA ZeroIsAligned == \A a \in Nat \ {0} : 0 % a = 0
OBVIOUS

\* A request has a positive size and a positive alignment.
LEMMA RequestType == \A r \in Requests : r.size \in Nat \ {0} /\ r.alignment \in Nat \ {0}
BY RequestAssumption

\* The sizes are numbers, and the largest small block fits a page (arena.h:11-12, 21).
LEMMA SizeTypes ==
  /\ PAGE_SIZE \in Nat /\ MAX_SMALL_BLOCK_SIZE \in Nat /\ MAX_SMALL_BLOCK_SIZE <= PAGE_SIZE
BY SizeAssumption

\* An arena starts with no page and no block, so the invariant holds.
LEMMA ArenaInitInv == ASSUME ArenaInit PROVE ArenaIInv
<1>1. active \in BOOLEAN /\ opened \in BOOLEAN /\ ~active /\ doing = "idle" /\ blocks = <<>>
  BY DEF ArenaInit
<1>2. 0 \in 0..PAGE_SIZE /\ <<>> \in Seq(Blocks) /\ DOMAIN <<>> = {}
  BY SizeTypes
<1>3. ArenaTypeOK
  BY <1>1, <1>2 DEF ArenaInit, ArenaTypeOK
<1>4. PageInv
  BY <1>1, <1>2 DEF PageInv
<1>5. BlocksPlaced /\ BlocksDisjoint
  BY <1>1, <1>2 DEF BlocksPlaced, BlocksDisjoint
<1>6. QED
  BY <1>3, <1>4, <1>5 DEF ArenaIInv

\* Steps that change neither the pages nor the blocks.
LEMMA PagesKeptInv ==
  ASSUME ArenaIInv, UNCHANGED <<pageVars, blocks>>, doing' \in {"idle", "allocate", "terminated"},
         request' \in Requests, opened' \in BOOLEAN,
         doing' = "allocate" => ~opened' \/ (doing = "allocate" /\ opened' = opened)
  PROVE  ArenaIInv'
<1>1. /\ pages' = pages /\ active' = active /\ first_free' = first_free
      /\ bytes_left' = bytes_left /\ blocks' = blocks
  BY DEF pageVars
<1>2. ArenaTypeOK'
  BY <1>1 DEF ArenaIInv, ArenaTypeOK
<1>3. PageInv'
  BY <1>1 DEF ArenaIInv, PageInv
<1>4. BlocksPlaced' /\ BlocksDisjoint'
  BY <1>1 DEF ArenaIInv, BlocksPlaced, BlocksDisjoint
<1>5. QED
  BY <1>2, <1>3, <1>4 DEF ArenaIInv

\* Adding a page (arena.h:22-27): no block lies on it, and it is empty for the call
\* that opened it.
LEMMA NewPageInv == ASSUME ArenaIInv, NewPage PROVE ArenaIInv'
<1>1. /\ pages \in Nat /\ pages' = pages + 1 /\ active' = TRUE /\ first_free' = 0
      /\ bytes_left' = PAGE_SIZE /\ opened' = TRUE /\ blocks' = blocks /\ doing' = doing
      /\ request' = request
  BY DEF NewPage, ArenaIInv, ArenaTypeOK
<1>2. ArenaTypeOK'
  BY <1>1, SizeTypes DEF ArenaIInv, ArenaTypeOK
\* No block lies on the page that has just been added.
<1>3. \A i \in DOMAIN blocks : blocks[i].page # pages'
  BY <1>1 DEF ArenaIInv, BlocksPlaced
<1>4. PageInv'
  BY <1>1, <1>3, SizeTypes DEF PageInv
<1>5. BlocksPlaced'
  BY <1>1 DEF ArenaIInv, BlocksPlaced
<1>6. BlocksDisjoint'
  BY <1>1 DEF ArenaIInv, BlocksDisjoint
<1>7. QED
  BY <1>2, <1>4, <1>5, <1>6 DEF ArenaIInv

\* Handing out a block (arena.h:28-33): it starts where the page's blocks end, so it
\* overlaps none of them, and it ends within the page.
LEMMA AllocateInv == ASSUME ArenaIInv, Allocate PROVE ArenaIInv'
<1> DEFINE new(at) == [page |-> pages, at |-> at, size |-> request.size,
                       alignment |-> request.alignment]
<1>1. PICK at \in first_free..(first_free + bytes_left) :
        /\ Room(at)
        /\ blocks' = Append(blocks, new(at))
        /\ first_free' = at + request.size
        /\ bytes_left' = bytes_left - (at - first_free) - request.size
  BY DEF Allocate
<1> DEFINE b == new(at)
<1>2. /\ doing' = "idle" /\ pages' = pages /\ active' = active /\ request' = request
      /\ opened' = opened /\ active
  BY DEF Allocate
<1>3. /\ ArenaTypeOK /\ PageInv /\ BlocksPlaced /\ BlocksDisjoint
  BY DEF ArenaIInv
<1>4. /\ request.size \in Nat \ {0} /\ request.alignment \in Nat \ {0}
  BY <1>3, RequestType DEF ArenaTypeOK
<1>5. /\ pages \in Nat /\ first_free \in Nat /\ bytes_left \in Nat /\ PAGE_SIZE \in Nat
      /\ first_free + bytes_left = PAGE_SIZE /\ pages >= 1
  BY <1>2, <1>3, SizeTypes DEF ArenaTypeOK, PageInv
<1>6. /\ at \in Nat /\ first_free <= at /\ at + request.size <= PAGE_SIZE
      /\ at % request.alignment = 0
  BY <1>1, <1>4, <1>5 DEF Room, Aligned
<1>7. b \in Blocks
  BY <1>4, <1>5, <1>6 DEF Blocks
<1>8. /\ blocks \in Seq(Blocks) /\ blocks' \in Seq(Blocks) /\ Len(blocks) \in Nat
      /\ DOMAIN blocks = 1..Len(blocks) /\ DOMAIN blocks' = 1..(Len(blocks) + 1)
      /\ \A i \in 1..Len(blocks) : blocks'[i] = blocks[i] /\ blocks[i] \in Blocks
      /\ blocks'[Len(blocks) + 1] = b
  BY <1>1, <1>3, <1>7 DEF ArenaTypeOK
<1>9. first_free' \in 0..PAGE_SIZE /\ bytes_left' \in 0..PAGE_SIZE
      /\ first_free' + bytes_left' = PAGE_SIZE
  <2>1. request.size \in Nat
    BY <1>4
  <2> DEFINE size == request.size
  <2> HIDE DEF size
  <2>2. /\ size \in Nat /\ at + size <= PAGE_SIZE /\ first_free' = at + size
        /\ bytes_left' = bytes_left - (at - first_free) - size
    BY <1>1, <1>6, <2>1 DEF size
  <2>3. at \in Nat /\ first_free <= at
    BY <1>6
  <2>4. QED
    BY <1>5, <2>2, <2>3
<1>10. ArenaTypeOK'
  BY <1>2, <1>3, <1>8, <1>9 DEF ArenaTypeOK
<1> HIDE DEF new
<1>11. /\ b.page = pages /\ b.at = at /\ b.size = request.size
       /\ b.alignment = request.alignment
  BY DEF new
<1>12. \A i \in 1..Len(blocks) :
         /\ blocks[i].page = pages => blocks[i].at + blocks[i].size <= first_free
         /\ blocks[i].at \in Nat /\ blocks[i].size \in Nat
  BY <1>2, <1>3, <1>8 DEF PageInv, Blocks
<1>13. PageInv'
  <2>1. \A i \in 1..(Len(blocks) + 1) :
          blocks'[i].page = pages => blocks'[i].at + blocks'[i].size <= first_free'
    <3> SUFFICES ASSUME NEW i \in 1..(Len(blocks) + 1), blocks'[i].page = pages
                 PROVE  blocks'[i].at + blocks'[i].size <= first_free'
      OBVIOUS
    <3>1. CASE i = Len(blocks) + 1
      BY <1>1, <1>4, <1>6, <1>8, <1>11, <3>1
    <3>2. CASE i \in 1..Len(blocks)
      <4>1. blocks'[i] = blocks[i] /\ blocks[i].page = pages
        BY <1>8, <3>2
      <4>2. /\ blocks[i].at + blocks[i].size <= first_free
            /\ blocks[i].at + blocks[i].size \in Nat
        BY <1>12, <3>2, <4>1
      <4>3. first_free' \in Nat /\ first_free <= first_free'
        <5>1. request.size \in Nat /\ first_free' = at + request.size
          BY <1>1, <1>4
        <5>2. QED
          BY <1>5, <1>6, <5>1
      <4>4. QED
        BY <1>5, <4>1, <4>2, <4>3
    <3>3. QED
      BY <1>8, <3>1, <3>2
  <2>2. QED
    BY <1>2, <1>5, <1>8, <1>9, <2>1 DEF PageInv
<1>14. BlocksPlaced'
  <2> SUFFICES ASSUME NEW i \in 1..(Len(blocks) + 1)
               PROVE  /\ blocks'[i].page \in 1..pages
                      /\ blocks'[i].at + blocks'[i].size <= PAGE_SIZE
                      /\ blocks'[i].at % blocks'[i].alignment = 0
    BY <1>2, <1>8 DEF BlocksPlaced
  <2>1. CASE i = Len(blocks) + 1
    BY <1>5, <1>6, <1>8, <1>11, <2>1
  <2>2. CASE i \in 1..Len(blocks)
    BY <1>3, <1>8, <2>2 DEF BlocksPlaced
  <2>3. QED
    BY <1>8, <2>1, <2>2
<1>15. BlocksDisjoint'
  <2> SUFFICES ASSUME NEW i \in 1..(Len(blocks) + 1), NEW j \in 1..(Len(blocks) + 1), i < j
               PROVE  \/ blocks'[i].page # blocks'[j].page
                      \/ blocks'[i].at + blocks'[i].size <= blocks'[j].at
    BY <1>8 DEF BlocksDisjoint
  <2>1. i \in 1..Len(blocks)
    BY <1>8
  <2>2. CASE j = Len(blocks) + 1
    <3>1. blocks'[i] = blocks[i] /\ blocks'[j] = b
      BY <1>8, <2>1, <2>2
    <3>2. blocks[i].page = pages => blocks[i].at + blocks[i].size <= first_free
      BY <1>12, <2>1
    <3>3. blocks[i].at + blocks[i].size \in Nat
      BY <1>12, <2>1
    <3>4. QED
      BY <1>5, <1>6, <1>11, <3>1, <3>2, <3>3
  <2>3. CASE j \in 1..Len(blocks)
    BY <1>3, <1>8, <2>1, <2>3 DEF BlocksDisjoint
  <2>4. QED
    BY <1>8, <2>2, <2>3
<1>16. QED
  BY <1>10, <1>13, <1>14, <1>15 DEF ArenaIInv

\* A small block fits in an empty page, so a call does not give up the page it
\* has opened.
LEMMA EmptyPageHasRoom ==
  ASSUME ArenaIInv, doing = "allocate", opened, IsSmall
  PROVE  Room(0)
<1>1. active /\ first_free = 0 /\ first_free + bytes_left = PAGE_SIZE
  BY DEF ArenaIInv, PageInv
<1>2. request.size \in Nat /\ request.size <= PAGE_SIZE /\ 0 % request.alignment = 0
  BY RequestType, SizeTypes, ZeroIsAligned DEF ArenaIInv, ArenaTypeOK, IsSmall
<1>3. bytes_left \in Nat /\ PAGE_SIZE \in Nat
  BY SizeTypes DEF ArenaIInv, ArenaTypeOK
<1>4. QED
  BY <1>1, <1>2, <1>3 DEF Room, Aligned

\* Giving up a page (arena.h:34-38): never the one this call has opened, for a small
\* block fits in an empty page.
LEMMA RetryInv == ASSUME ArenaIInv, Retry PROVE ArenaIInv'
<1>1. /\ active' = FALSE /\ bytes_left' = 0 /\ pages' = pages /\ first_free' = first_free
      /\ blocks' = blocks /\ doing' = doing /\ request' = request /\ opened' = opened
      /\ doing = "allocate" /\ IsSmall
  BY DEF Retry
<1>2. ~opened
  <2> SUFFICES ASSUME opened PROVE FALSE
    OBVIOUS
  <2>1. Room(0)
    BY <1>1, EmptyPageHasRoom
  <2>2. 0 \in first_free..(first_free + bytes_left)
    BY <2>1 DEF Room
  <2>3. QED
    BY <2>1, <2>2 DEF Retry
<1>3. ArenaTypeOK'
  <2>1. active' \in BOOLEAN
    BY <1>1
  <2>2. 0 \in 0..PAGE_SIZE
    BY SizeTypes
  <2>3. QED
    BY <1>1, <2>1, <2>2 DEF ArenaIInv, ArenaTypeOK
<1>4. PageInv'
  BY <1>1, <1>2 DEF PageInv
<1>5. BlocksPlaced' /\ BlocksDisjoint'
  BY <1>1 DEF ArenaIInv, BlocksPlaced, BlocksDisjoint
<1>6. QED
  BY <1>3, <1>4, <1>5 DEF ArenaIInv

\* Every step of the arena preserves the invariant.
LEMMA ArenaNextInv == ASSUME ArenaIInv, [ArenaNext]_arenaVars PROVE ArenaIInv'
<1>1. ASSUME NEW r \in Requests, New(r) PROVE ArenaIInv'
  BY <1>1, PagesKeptInv DEF New
<1>2. CASE Terminate
  BY <1>2, PagesKeptInv DEF Terminate, ArenaIInv, ArenaTypeOK
<1>3. CASE UNCHANGED arenaVars
  <2>1. pageVars' = pageVars /\ blocks' = blocks /\ doing' = doing /\ request' = request
        /\ opened' = opened
    BY <1>3 DEF arenaVars
  <2>2. QED
    BY <2>1, PagesKeptInv DEF ArenaIInv, ArenaTypeOK
<1>4. QED
  BY <1>1, <1>2, <1>3, NewPageInv, AllocateInv, RetryInv DEF ArenaNext

\* The arena's inductive invariant holds in every state (arena.h:19-43).
THEOREM ArenaInvariance == ArenaSpec => []ArenaIInv
<1>1. ArenaInit => ArenaIInv
  BY ArenaInitInv
<1>2. ArenaIInv /\ [ArenaNext]_arenaVars => ArenaIInv'
  BY ArenaNextInv
<1>3. QED
  BY <1>1, <1>2, PTL DEF ArenaSpec

\* No byte is handed out twice.
THEOREM Disjointness == ArenaSpec => []BlocksDisjoint
<1>1. ArenaIInv => BlocksDisjoint
  BY DEF ArenaIInv
<1>2. QED
  BY <1>1, ArenaInvariance, PTL

\* Every block lies in a page of the arena, aligned as asked.
THEOREM Placement == ArenaSpec => []BlocksPlaced
<1>1. ArenaIInv => BlocksPlaced
  BY DEF ArenaIInv
<1>2. QED
  BY <1>1, ArenaInvariance, PTL

\* allocate_block calls itself at most once.
THEOREM OneRetry == ArenaSpec => []OnePagePerCall
<1>1. ArenaIInv => OnePagePerCall
  BY DEF ArenaIInv, PageInv, OnePagePerCall
<1>2. QED
  BY <1>1, ArenaInvariance, PTL
=============================================================================
