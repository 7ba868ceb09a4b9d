---------------------------- MODULE TextTreeProofs ----------------------------
(***************************************************************************)
(* The line-oriented parser does what indentation means, for all vectors   *)
(* of lines.  The proof follows the parser: a line has an indentation and  *)
(* tokens; the lines that are open at a line form a chain, each indented   *)
(* further than the one before; the stack mirrors a part of the chain      *)
(* while a parent is looked for; and a line that has found its place is    *)
(* put last below its parent.                                              *)
(***************************************************************************)
EXTENDS TextTree, SequenceTheorems, WellFoundedInduction, TLAPS

-----------------------------------------------------------------------------
(* A line: the recursions of the tokenizer, and what it returns.           *)

\* A set of numbers that has every number whose successors up to n it has.
LEMMA Downwards ==
  ASSUME NEW l \in Nat, NEW n \in Nat, NEW T,
         \A a \in l..n : (\A b \in (a + 1)..n : b \in T) => a \in T
  PROVE  \A a \in l..n : a \in T
<1> DEFINE R == OpToRel(<, Nat)
           Bad == {d \in 0..n : n - d \in l..n /\ n - d \notin T}
<1>1. IsWellFoundedOn(R, Nat)
  BY NatLessThanWellFounded
<1>2. \A x, y \in Nat : <<x, y>> \in R <=> x < y
  BY DEF OpToRel
<1> HIDE DEF R
<1>3. ASSUME NEW x \in l..n, x \notin T PROVE Bad # {}
  <2>1. n - x \in 0..n /\ n - (n - x) = x
    OBVIOUS
  <2>2. n - x \in Bad
    BY <1>3, <2>1
  <2>3. QED
    BY <2>2
<1>4. ASSUME Bad # {} PROVE FALSE
  <2>1. Bad \in SUBSET Nat
    OBVIOUS
  <2> HIDE DEF Bad
  <2>2. PICK d \in Bad : \A e \in Bad : ~ (<<e, d>> \in R)
    BY <1>1, <1>4, <2>1, WFMin
  <2>3. d \in 0..n /\ n - d \in l..n /\ n - d \notin T
    BY DEF Bad
  <2>4. ASSUME NEW b \in (n - d + 1)..n PROVE b \in T
    <3>1. n - b \in 0..n /\ n - b < d /\ b \in l..n /\ n - (n - b) = b
      BY <2>3
    <3>2. n - b \notin Bad
      BY <1>2, <2>1, <2>2, <2>3, <3>1
    <3>3. QED
      BY <3>1, <3>2 DEF Bad
  <2>5. QED
    BY <2>3, <2>4
<1>5. QED
  BY <1>3, <1>4

\* The recursions of the tokenizer, the rest of a literal and the tokens from a
\* position on, and those that read and write a literal.
Start(s, i) == IF (i > 1 /\ Formatted(s[i - 1]) # <<>>) /\ s[i] \in HexDigits THEN <<"\"", "\"">> ELSE <<>>
Written(c) ==
  IF c \in DOMAIN EscapesWritten THEN <<"\\", EscapesWritten[c]>>
  ELSE IF Formatted(c) # <<>> THEN Formatted(c)
  ELSE <<c>>
Walk(which, s, f, i) ==
  IF which = "rest"
  THEN IF i > Len(s) THEN 0
       ELSE IF s[i] = "\"" THEN i + 1
       ELSE IF s[i] # "\\" THEN f[i + 1]
       ELSE IF i = Len(s) THEN 0 ELSE f[i + 2]
  ELSE IF which = "tokens"
  THEN LET j == AcceptSpaceAndTabs(s, i)
           end == TokenEnd(s, j)
       IN  IF j > Len(s) THEN [ok |-> TRUE, list |-> <<>>]
           ELSE IF end = 0 THEN [ok |-> FALSE, list |-> <<>>]
           ELSE [f[end] EXCEPT !.list = <<Cut(s, j, end)>> \o @]
  ELSE IF which = "read"
  THEN IF i > Len(s) THEN <<>>
       ELSE IF s[i] # "\\" THEN <<s[i]>> \o f[i + 1]
       ELSE <<EscapesRead[s[i + 1]]>> \o f[i + 2]
  ELSE IF which = "escapes"
  THEN \/ i > Len(s)
       \/ s[i] # "\\" /\ f[i + 1]
       \/ s[i] = "\\" /\ i < Len(s) /\ s[i + 1] \in DOMAIN EscapesRead /\ f[i + 2]
  ELSE IF i > Len(s) THEN <<"\"">>
       ELSE Start(s, i) \o Written(s[i]) \o f[i + 1]
Walks(which, s, l, n, f) == f = [i \in l..n |-> Walk(which, s, f, i)]

\* They have solutions, as each position needs what comes behind it only.
LEMMA WalkSolvable ==
  ASSUME NEW which, NEW s, NEW l \in Nat, NEW n \in Nat, l <= n,
         \A i \in l..n : \A f, g :
           (\A b \in (i + 1)..n : f[b] = g[b]) => Walk(which, s, f, i) = Walk(which, s, g, i)
  PROVE  \E f : Walks(which, s, l, n, f)
<1> DEFINE From_(a, f) == DOMAIN f = a..n /\ \A i \in a..n : f[i] = Walk(which, s, f, i)
           T == {a \in l..n : \E f : f = [i \in DOMAIN f |-> f[i]] /\ From_(a, f)}
<1>1. ASSUME NEW a \in l..n, \A b \in (a + 1)..n : b \in T PROVE a \in T
  <2>1. \E f : \A i \in (a + 1)..n : f[i] = Walk(which, s, f, i)
    <3>1. CASE a = n
      BY <3>1
    <3>2. CASE a # n
      <4>1. a + 1 \in (a + 1)..n
        BY <3>2
      <4>2. QED
        BY <1>1, <4>1
    <3>3. QED
      BY <3>1, <3>2
  <2>2. PICK f : \A i \in (a + 1)..n : f[i] = Walk(which, s, f, i)
    BY <2>1
  <2> DEFINE g == [i \in a..n |-> IF i = a THEN Walk(which, s, f, i) ELSE f[i]]
  <2>3. \A b \in (a + 1)..n : g[b] = f[b]
    OBVIOUS
  <2>4. g[a] = Walk(which, s, f, a)
    OBVIOUS
  <2>5. DOMAIN g = a..n /\ g = [i \in DOMAIN g |-> g[i]]
    OBVIOUS
  <2> HIDE DEF g
  <2>6. ASSUME NEW i \in a..n PROVE g[i] = Walk(which, s, g, i)
    <3>1. i \in l..n /\ \A b \in (i + 1)..n : f[b] = g[b]
      BY <2>3
    <3>2. Walk(which, s, f, i) = Walk(which, s, g, i)
      BY <3>1
    <3>3. g[i] = Walk(which, s, f, i)
      <4>1. CASE i = a
        BY <2>4, <4>1
      <4>2. CASE i # a
        <5>1. i \in (a + 1)..n
          BY <4>2
        <5>2. QED
          BY <2>2, <2>3, <5>1
      <4>3. QED
        BY <4>1, <4>2
    <3>4. QED
      BY <3>2, <3>3
  <2>7. QED
    BY <2>5, <2>6
<1> HIDE DEF T
<1>2. l \in T
  <2>1. l \in l..n
    OBVIOUS
  <2>2. \A a \in l..n : (\A b \in (a + 1)..n : b \in T) => a \in T
    BY <1>1
  <2>3. \A a \in l..n : a \in T
    BY <2>2, Downwards
  <2>4. QED
    BY <2>1, <2>3
<1>3. PICK f : f = [i \in DOMAIN f |-> f[i]] /\ From_(l, f)
  BY <1>2 DEF T
<1>4. QED
  BY <1>3 DEF Walks

\* A position in the line, found from another one on.
LEMMA EarliestIs ==
  ASSUME NEW l \in Nat, NEW n \in Nat, NEW X \in SUBSET (l..n), X # {}
  PROVE  Earliest(X) \in X /\ \A j \in X : Earliest(X) <= j
<1> DEFINE T == {a \in l..n : (\A b \in l..(a - 1) : b \notin X) => \E m \in X : \A j \in X : m <= j}
<1>1. ASSUME NEW a \in l..n, \A b \in (a + 1)..n : b \in T PROVE a \in T
  <2> SUFFICES ASSUME \A b \in l..(a - 1) : b \notin X PROVE \E m \in X : \A j \in X : m <= j
    OBVIOUS
  <2>1. CASE a \in X
    <3>1. \A j \in X : a <= j
      OBVIOUS
    <3>2. QED
      BY <2>1, <3>1
  <2>2. CASE a \notin X
    <3>1. a # n
      <4>1. PICK x \in X : TRUE
        OBVIOUS
      <4>2. QED
        BY <2>2, <4>1
    <3>2. a + 1 \in (a + 1)..n /\ \A b \in l..((a + 1) - 1) : b \notin X
      BY <2>2, <3>1
    <3>3. QED
      BY <1>1, <3>2
  <2>3. QED
    BY <2>1, <2>2
<1> HIDE DEF T
<1>2. l \in l..n
  <2>1. PICK x \in X : TRUE
    OBVIOUS
  <2>2. QED
    BY <2>1
<1>3. l \in T
  BY <1>1, <1>2, Downwards
<1>4. \E m \in X : \A j \in X : m <= j
  <2>1. \A b \in l..(l - 1) : b \notin X
    OBVIOUS
  <2>2. QED
    BY <1>3, <2>1 DEF T
<1>5. QED
  BY <1>4 DEF Earliest

Text == Seq(STRING)

\* The quotation mark, by a name that the provers of arithmetic can read.
Mark == "\""

\* A piece of a line that begins a literal is a literal.
Closed(t) == t # <<>> /\ t[1] = Mark => IsClosed(t)

\* Where a run of blanks, or a token without a quote, ends.
LEMMA AcceptedSpan ==
  ASSUME NEW s \in Text, NEW i \in 1..(Len(s) + 1)
  PROVE  /\ AcceptSpaceAndTabs(s, i) \in i..(Len(s) + 1)
         /\ AcceptSpaceAndTabs(s, i) <= Len(s) => s[AcceptSpaceAndTabs(s, i)] \notin Blank
         /\ AcceptToken(s, i) \in i..(Len(s) + 1)
         /\ i <= Len(s) /\ s[i] \notin Blank => AcceptToken(s, i) \in (i + 1)..(Len(s) + 1)
<1> DEFINE X == {j \in From(s, i) : j = Len(s) + 1 \/ s[j] \notin Blank}
           Y == {j \in From(s, i) : j = Len(s) + 1 \/ s[j] \in Blank}
<1>1. Len(s) \in Nat
  BY LenProperties DEF Text
<1>2. Len(s) + 1 \in X /\ X \in SUBSET (i..(Len(s) + 1)) /\ Len(s) + 1 \in Y /\ Y \in SUBSET (i..(Len(s) + 1))
  BY <1>1 DEF From
<1>3. AcceptSpaceAndTabs(s, i) = Earliest(X) /\ AcceptToken(s, i) = Earliest(Y)
  BY DEF AcceptSpaceAndTabs, AcceptToken
<1>4. \A j \in X : j <= Len(s) => s[j] \notin Blank
  BY <1>1
<1>5. \A j \in Y : j <= Len(s) => s[j] \in Blank
  BY <1>1
<1> HIDE DEF X, Y
<1>6. Earliest(X) \in X /\ Earliest(Y) \in Y
  <2>1. i \in Nat /\ Len(s) + 1 \in Nat /\ X # {} /\ Y # {}
    BY <1>1, <1>2
  <2>2. Earliest(X) \in X
    BY <1>2, <2>1, EarliestIs
  <2>3. Earliest(Y) \in Y
    BY <1>2, <2>1, EarliestIs
  <2>4. QED
    BY <2>2, <2>3
<1>7. i <= Len(s) /\ s[i] \notin Blank => Earliest(Y) # i
  BY <1>5, <1>6
<1>8. Earliest(X) \in i..(Len(s) + 1) /\ Earliest(Y) \in i..(Len(s) + 1)
  BY <1>2, <1>6
<1>9. i <= Len(s) /\ s[i] \notin Blank => Earliest(Y) \in (i + 1)..(Len(s) + 1)
  BY <1>1, <1>7, <1>8
<1>10. QED
  BY <1>3, <1>4, <1>6, <1>8, <1>9

\* Where a literal ends.
LEMMA QuotedEnds ==
  ASSUME NEW s \in Text, NEW i \in 1..Len(s)
  PROVE  LET end == AcceptQuotedString(s, i)
         IN  end = 0 \/ (end \in (i + 2)..(Len(s) + 1) /\ s[end - 1] = Mark)
<1> DEFINE n == Len(s) + 1
           P(f) == f = [j \in From(s, i + 1) |->
                         IF j > Len(s) THEN 0
                         ELSE IF s[j] = "\"" THEN j + 1
                         ELSE IF s[j] # "\\" THEN f[j + 1]
                         ELSE IF j = Len(s) THEN 0 ELSE f[j + 2]]
           f0 == CHOOSE f : P(f)
<1>1. Len(s) \in Nat
  BY LenProperties DEF Text
<1>2. AcceptQuotedString(s, i) = f0[i + 1]
  BY DEF AcceptQuotedString
<1>3. \A f : P(f) <=> Walks("rest", s, i + 1, n, f)
  BY DEF Walks, Walk, From
<1> HIDE DEF P
<1>4. \E f : Walks("rest", s, i + 1, n, f)
  <2>1. ASSUME NEW j \in (i + 1)..n, NEW f, NEW g, \A b \in (j + 1)..n : f[b] = g[b]
        PROVE  Walk("rest", s, f, j) = Walk("rest", s, g, j)
    <3>1. j <= Len(s) => j + 1 \in (j + 1)..n
      BY <1>1
    <3>2. j < Len(s) => j + 2 \in (j + 1)..n
      BY <1>1
    <3>3. j <= Len(s) => f[j + 1] = g[j + 1]
      BY <2>1, <3>1
    <3>4. j < Len(s) => f[j + 2] = g[j + 2]
      BY <2>1, <3>2
    <3>5. j \in Nat /\ (j <= Len(s) \/ j > Len(s)) /\ (j <= Len(s) /\ j # Len(s) => j < Len(s))
      BY <1>1
    <3>6. CASE j > Len(s)
      BY <3>6 DEF Walk
    <3>7. CASE j <= Len(s)
      BY <3>3, <3>4, <3>5, <3>7 DEF Walk
    <3>8. QED
      BY <3>5, <3>6, <3>7
  <2>2. i + 1 \in Nat /\ n \in Nat /\ i + 1 <= n
    BY <1>1
  <2> HIDE DEF n
  <2>3. QED
    BY <2>1, <2>2, WalkSolvable
<1>5. Walks("rest", s, i + 1, n, f0)
  BY <1>3, <1>4
<1> HIDE DEF f0
<1> DEFINE Good(j, end) == end = 0 \/ (end \in (j + 1)..n /\ s[end - 1] = Mark)
           T == {j \in (i + 1)..n : Good(j, f0[j])}
<1>6. ASSUME NEW j \in (i + 1)..n, \A b \in (j + 1)..n : b \in T PROVE j \in T
  <2>1. f0[j] = Walk("rest", s, f0, j)
    BY <1>5 DEF Walks
  <2>2. j <= Len(s) => j + 1 \in (j + 1)..n
    BY <1>1
  <2>3. j < Len(s) => j + 2 \in (j + 1)..n
    BY <1>1
  <2>4. j <= Len(s) \/ j > Len(s)
    BY <1>1
  <2>5. \A a \in (j + 1)..n : \A end : Good(a, end) => Good(j, end)
    BY <1>1
  <2>6. j <= Len(s) => Good(j, f0[j + 1])
    BY <1>6, <2>2, <2>5
  <2>7. j < Len(s) => Good(j, f0[j + 2])
    BY <1>6, <2>3, <2>5
  <2>8. j <= Len(s) /\ j # Len(s) => j < Len(s)
    BY <1>1
  <2>9. j <= Len(s) /\ s[j] = Mark => Good(j, j + 1)
    <3>1. (j + 1) - 1 = j
      BY <1>1
    <3>2. QED
      BY <2>2, <3>1
  <2>a. Good(j, 0)
    OBVIOUS
  <2> HIDE DEF Good
  <2>10. CASE j > Len(s)
    <3>1. f0[j] = 0
      BY <2>1, <2>10 DEF Walk
    <3>2. QED
      BY <2>a, <3>1
  <2>11. CASE j <= Len(s)
    <3>1. ~(j > Len(s))
      BY <1>1, <2>11
    <3>2. \/ f0[j] = 0
          \/ s[j] = Mark /\ f0[j] = j + 1
          \/ f0[j] = f0[j + 1]
          \/ j < Len(s) /\ f0[j] = f0[j + 2]
      BY <2>1, <2>8, <2>11, <3>1 DEF Walk, Mark
    <3>3. QED
      BY <2>6, <2>7, <2>9, <2>a, <2>11, <3>2
  <2>12. QED
    BY <2>4, <2>10, <2>11
<1>7. i + 1 \in Nat /\ n \in Nat /\ i + 1 \in (i + 1)..n
  BY <1>1
<1> HIDE DEF T, n
<1>8. i + 1 \in T
  <2>1. \A j \in (i + 1)..n : j \in T
    BY <1>6, <1>7, Downwards
  <2>2. QED
    BY <1>7, <2>1
<1>9. f0[i + 1] = 0 \/ (f0[i + 1] \in ((i + 1) + 1)..(Len(s) + 1) /\ s[f0[i + 1] - 1] = Mark)
  BY <1>8 DEF T, n
<1>10. \A end : end \in ((i + 1) + 1)..(Len(s) + 1) <=> end \in (i + 2)..(Len(s) + 1)
  BY <1>1
<1> HIDE DEF f0
<1>11. QED
  BY <1>2, <1>9, <1>10

Token == {t \in Text : t # <<>> /\ Closed(t)}

\* A piece of a line is a text.
LEMMA CutIs ==
  ASSUME NEW s \in Text, NEW i \in 1..(Len(s) + 1), NEW j \in i..(Len(s) + 1)
  PROVE  /\ Cut(s, i, j) \in Text
         /\ i < j => /\ Cut(s, i, j) # <<>> /\ Len(Cut(s, i, j)) = j - i
                     /\ Cut(s, i, j)[1] = s[i] /\ Last(Cut(s, i, j)) = s[j - 1]
<1>1. Len(s) \in Nat
  BY LenProperties DEF Text
<1>2. \A k \in i..(j - 1) : s[k] \in STRING
  <2>1. \A k \in i..(j - 1) : k \in 1..Len(s)
    BY <1>1
  <2>2. QED
    BY <2>1, ElementOfSeq DEF Text
<1>3. i \in Int /\ j - 1 \in Int
  BY <1>1
<1>4. /\ SubSeq(s, i, j - 1) \in Seq(STRING)
      /\ Len(SubSeq(s, i, j - 1)) = IF i <= j - 1 THEN (j - 1) - i + 1 ELSE 0
      /\ \A k \in 1..((j - 1) - i + 1) : SubSeq(s, i, j - 1)[k] = s[i + k - 1]
  BY <1>2, <1>3, SubSeqProperties
<1>5. ASSUME i < j
      PROVE  /\ Cut(s, i, j) # <<>> /\ Len(Cut(s, i, j)) = j - i
             /\ Cut(s, i, j)[1] = s[i] /\ Last(Cut(s, i, j)) = s[j - 1]
  <2>1. /\ i <= j - 1 /\ (j - 1) - i + 1 = j - i /\ j - i # 0
        /\ 1 \in 1..(j - i) /\ j - i \in 1..(j - i)
        /\ i + 1 - 1 = i /\ i + (j - i) - 1 = j - 1
    BY <1>3, <1>5
  <2>2. Len(Cut(s, i, j)) = j - i /\ Cut(s, i, j)[1] = s[i] /\ Cut(s, i, j)[j - i] = s[j - 1]
    BY <1>4, <2>1 DEF Cut
  <2>3. Len(<<>>) = 0
    BY EmptySeq
  <2>4. QED
    BY <2>1, <2>2, <2>3 DEF Last
<1>6. QED
  BY <1>4, <1>5 DEF Cut, Text

\* A token ends behind where it begins, if it ends at all.
LEMMA TokenEndIs ==
  ASSUME NEW s \in Text, NEW j \in 1..Len(s), s[j] \notin Blank
  PROVE  LET end == TokenEnd(s, j)
         IN  end = 0 \/ (end \in (j + 1)..(Len(s) + 1) /\ Cut(s, j, end) \in Token)
<1>1. Len(s) \in Nat
  BY LenProperties DEF Text
<1>2. j \in 1..(Len(s) + 1) /\ j <= Len(s)
  BY <1>1
<1>3. AcceptToken(s, j) \in (j + 1)..(Len(s) + 1)
  BY <1>2, AcceptedSpan
<1> DEFINE end == TokenEnd(s, j)
<1>4. \/ end = 0
      \/ end \in (j + 1)..(Len(s) + 1) /\ (s[j] = Mark => end \in (j + 2)..(Len(s) + 1) /\ s[end - 1] = Mark)
  <2>1. CASE s[j] = Mark
    <3>1. end = AcceptQuotedString(s, j)
      BY <2>1 DEF TokenEnd, Mark
    <3>2. end = 0 \/ (end \in (j + 2)..(Len(s) + 1) /\ s[end - 1] = Mark)
      BY <3>1, QuotedEnds
    <3>3. \A e \in (j + 2)..(Len(s) + 1) : e \in (j + 1)..(Len(s) + 1)
      BY <1>1
    <3>4. QED
      BY <3>2, <3>3
  <2>2. CASE s[j] # Mark
    <3>1. end = AcceptToken(s, j)
      BY <2>2 DEF TokenEnd, Mark
    <3>2. QED
      BY <1>3, <2>2, <3>1
  <2>3. QED
    BY <2>1, <2>2
<1> HIDE DEF end
<1>5. ASSUME end # 0 PROVE end \in (j + 1)..(Len(s) + 1) /\ Cut(s, j, end) \in Token
  <2> DEFINE t == Cut(s, j, end)
  <2>1. end \in (j + 1)..(Len(s) + 1) /\ end \in j..(Len(s) + 1) /\ j < end
    BY <1>1, <1>4, <1>5
  <2>2. t \in Text /\ t # <<>> /\ Len(t) = end - j /\ t[1] = s[j] /\ Last(t) = s[end - 1]
    BY <1>2, <2>1, CutIs
  <2> HIDE DEF t
  <2>3. ASSUME s[j] = Mark PROVE IsClosed(t)
    <3>1. Len(t) >= 2
      BY <1>1, <1>4, <1>5, <2>2, <2>3
    <3>2. Last(t) = Mark
      BY <1>4, <1>5, <2>2, <2>3
    <3>3. QED
      BY <3>1, <3>2 DEF IsClosed, Mark
  <2>4. t \in Token
    BY <2>2, <2>3 DEF Token, Closed
  <2>5. QED
    BY <2>1, <2>4 DEF t
<1>6. QED
  BY <1>5 DEF end

Tokens == [ok : BOOLEAN, list : Seq(Token)]

\* What the tokenizer makes of a line.
LEMMA TokenizeIs ==
  ASSUME NEW s \in Text
  PROVE  Tokenize(s) \in [ok : BOOLEAN, indentation : Text, tokens : Seq(Token)]
<1> DEFINE n == Len(s) + 1
           P(f) == f = [i \in From(s, 1) |->
                     LET j == AcceptSpaceAndTabs(s, i)
                         end == TokenEnd(s, j)
                     IN  IF j > Len(s) THEN [ok |-> TRUE, list |-> <<>>]
                         ELSE IF end = 0 THEN [ok |-> FALSE, list |-> <<>>]
                         ELSE [f[end] EXCEPT !.list = <<Cut(s, j, end)>> \o @]]
           f0 == CHOOSE f : P(f)
<1>1. Len(s) \in Nat
  BY LenProperties DEF Text
<1>2. Tokenize(s) =
        IF f0[1].ok THEN [ok |-> TRUE, indentation |-> Cut(s, 1, AcceptSpaceAndTabs(s, 1)),
                          tokens |-> f0[1].list]
        ELSE NotTokenized
  BY DEF Tokenize
<1>3. \A f : P(f) <=> Walks("tokens", s, 1, n, f)
  BY DEF Walks, Walk, From
<1> HIDE DEF P
<1>a. ASSUME NEW i \in 1..n
      PROVE  LET j == AcceptSpaceAndTabs(s, i)
                 end == TokenEnd(s, j)
             IN  /\ j \in i..n
                 /\ ~(j > Len(s)) /\ end # 0 =>
                      /\ end \in (i + 1)..n
                      /\ Cut(s, j, end) \in Token
  <2> DEFINE j == AcceptSpaceAndTabs(s, i)
             end == TokenEnd(s, j)
  <2>1. j \in i..(Len(s) + 1) /\ (j <= Len(s) => s[j] \notin Blank)
    BY AcceptedSpan
  <2> HIDE DEF j
  <2>2. ASSUME ~(j > Len(s)), end # 0 PROVE end \in (i + 1)..n /\ Cut(s, j, end) \in Token
    <3>1. j \in 1..Len(s) /\ s[j] \notin Blank
      BY <1>1, <2>1, <2>2
    <3>2. end \in (j + 1)..(Len(s) + 1) /\ Cut(s, j, end) \in Token
      BY <2>2, <3>1, TokenEndIs
    <3> HIDE DEF end
    <3>3. end \in (i + 1)..n
      BY <1>1, <2>1, <3>1, <3>2
    <3>4. QED
      BY <3>2, <3>3
  <2>3. QED
    BY <2>1, <2>2 DEF j
<1>4. \E f : Walks("tokens", s, 1, n, f)
  <2>1. ASSUME NEW i \in 1..n, NEW f, NEW g, \A b \in (i + 1)..n : f[b] = g[b]
        PROVE  Walk("tokens", s, f, i) = Walk("tokens", s, g, i)
    <3> DEFINE j == AcceptSpaceAndTabs(s, i)
               end == TokenEnd(s, j)
    <3>1. ~(j > Len(s)) /\ end # 0 => f[end] = g[end]
      BY <1>a, <2>1
    <3>2. /\ Walk("tokens", s, f, i) =
               IF j > Len(s) THEN [ok |-> TRUE, list |-> <<>>]
               ELSE IF end = 0 THEN [ok |-> FALSE, list |-> <<>>]
               ELSE [f[end] EXCEPT !.list = <<Cut(s, j, end)>> \o @]
          /\ Walk("tokens", s, g, i) =
               IF j > Len(s) THEN [ok |-> TRUE, list |-> <<>>]
               ELSE IF end = 0 THEN [ok |-> FALSE, list |-> <<>>]
               ELSE [g[end] EXCEPT !.list = <<Cut(s, j, end)>> \o @]
      BY DEF Walk
    <3> HIDE DEF j, end
    <3>3. CASE j > Len(s)
      BY <3>2, <3>3
    <3>4. CASE ~(j > Len(s)) /\ end = 0
      BY <3>2, <3>4
    <3>5. CASE ~(j > Len(s)) /\ end # 0
      <4>1. Walk("tokens", s, f, i) = [f[end] EXCEPT !.list = <<Cut(s, j, end)>> \o @]
        BY <3>2, <3>5
      <4>2. Walk("tokens", s, g, i) = [g[end] EXCEPT !.list = <<Cut(s, j, end)>> \o @]
        BY <3>2, <3>5
      <4>3. f[end] = g[end]
        BY <3>1, <3>5
      <4>4. QED
        BY <4>1, <4>2, <4>3
    <3>6. QED
      BY <3>3, <3>4, <3>5
  <2>2. 1 \in Nat /\ n \in Nat /\ 1 <= n
    BY <1>1
  <2> HIDE DEF n
  <2>3. QED
    BY <2>1, <2>2, WalkSolvable
<1>5. Walks("tokens", s, 1, n, f0)
  BY <1>3, <1>4
<1> HIDE DEF f0
<1> DEFINE T == {i \in 1..n : f0[i] \in Tokens}
<1>6. ASSUME NEW i \in 1..n, \A b \in (i + 1)..n : b \in T PROVE i \in T
  <2> DEFINE j == AcceptSpaceAndTabs(s, i)
             end == TokenEnd(s, j)
  <2>1. f0[i] = IF j > Len(s) THEN [ok |-> TRUE, list |-> <<>>]
                ELSE IF end = 0 THEN [ok |-> FALSE, list |-> <<>>]
                ELSE [f0[end] EXCEPT !.list = <<Cut(s, j, end)>> \o @]
    BY <1>5 DEF Walks, Walk
  <2>2. ~(j > Len(s)) /\ end # 0 => end \in (i + 1)..n /\ Cut(s, j, end) \in Token
    BY <1>a
  <2> HIDE DEF j, end
  <2>3. <<>> \in Seq(Token)
    BY EmptySeq
  <2>a. \A b \in BOOLEAN, l \in Seq(Token) : [ok |-> b, list |-> l] \in Tokens
    BY DEF Tokens
  <2>b. [ok |-> TRUE, list |-> <<>>] \in Tokens /\ [ok |-> FALSE, list |-> <<>>] \in Tokens
    BY <2>3, <2>a
  <2>4. CASE j > Len(s)
    <3>1. f0[i] = [ok |-> TRUE, list |-> <<>>]
      BY <2>1, <2>4
    <3>2. QED
      BY <2>b, <3>1
  <2>5. CASE ~(j > Len(s)) /\ end = 0
    <3>1. f0[i] = [ok |-> FALSE, list |-> <<>>]
      BY <2>1, <2>5
    <3>2. QED
      BY <2>b, <3>1
  <2>6. CASE ~(j > Len(s)) /\ end # 0
    <3> DEFINE c == Cut(s, j, end)
    <3>1. f0[end] \in Tokens /\ c \in Token
      BY <1>6, <2>2, <2>6
    <3> HIDE DEF c
    <3>2. f0[i] = [f0[end] EXCEPT !.list = <<c>> \o @]
      BY <2>1, <2>6 DEF c
    <3>3. <<c>> \in Seq(Token)
      BY <3>1
    <3>4. f0[end].list \in Seq(Token)
      BY <3>1 DEF Tokens
    <3>5. <<c>> \o f0[end].list \in Seq(Token)
      BY <3>3, <3>4, ConcatProperties
    <3>6. f0[i] \in Tokens
      BY <3>1, <3>2, <3>5 DEF Tokens
    <3>7. QED
      BY <3>6
  <2>7. QED
    BY <2>4, <2>5, <2>6
<1>7. 1 \in Nat /\ n \in Nat /\ 1 \in 1..n
  BY <1>1
<1> HIDE DEF T
<1>8. f0[1] \in Tokens
  <2>1. \A i \in 1..n : i \in T
    <3> HIDE DEF n
    <3>1. QED
      BY <1>6, <1>7, Downwards
  <2>2. QED
    BY <1>7, <2>1 DEF T
<1>9. Cut(s, 1, AcceptSpaceAndTabs(s, 1)) \in Text
  <2>1. 1 \in 1..(Len(s) + 1)
    BY <1>1
  <2>2. AcceptSpaceAndTabs(s, 1) \in 1..(Len(s) + 1)
    BY <2>1, AcceptedSpan
  <2>3. QED
    BY <2>1, <2>2, CutIs
<1>10. NotTokenized \in [ok : BOOLEAN, indentation : Text, tokens : Seq(Token)]
  BY EmptySeq DEF NotTokenized, Text
<1>11. f0[1].ok \in BOOLEAN /\ f0[1].list \in Seq(Token)
  BY <1>8 DEF Tokens
<1>12. QED
  BY <1>2, <1>9, <1>10, <1>11

-----------------------------------------------------------------------------
(* Comparing indentations.                                                 *)

\* A prefix, position by position.
LEMMA PrefixIs ==
  ASSUME NEW i \in Text, NEW j \in Text
  PROVE  IsPrefix(i, j) <=> Len(i) <= Len(j) /\ \A n \in 1..Len(i) : i[n] = j[n]
<1>1. Len(i) \in Nat /\ Len(j) \in Nat
  BY LenProperties DEF Text
<1>2. SubSeq(i, 1, Len(i)) = i
  BY SubSeqFull DEF Text
<1>3. ASSUME Len(i) <= Len(j)
      PROVE  SubSeq(i, 1, Len(i)) = SubSeq(j, 1, Len(i)) <=> \A n \in 1..Len(i) : i[n] = j[n]
  <2>1. \A n \in 1..Len(i) : j[n] \in STRING
    <3>1. \A n \in 1..Len(i) : n \in 1..Len(j)
      BY <1>1, <1>3
    <3>2. QED
      BY <3>1, ElementOfSeq DEF Text
  <2>2. 1 \in Int /\ Len(i) \in Int
    BY <1>1
  <2>3. /\ SubSeq(j, 1, Len(i)) \in Seq(STRING)
        /\ Len(SubSeq(j, 1, Len(i))) = IF 1 <= Len(i) THEN Len(i) - 1 + 1 ELSE 0
        /\ \A n \in 1..(Len(i) - 1 + 1) : SubSeq(j, 1, Len(i))[n] = j[1 + n - 1]
    BY <2>1, <2>2, SubSeqProperties
  <2> DEFINE c == SubSeq(j, 1, Len(i))
  <2>4. c \in Seq(STRING) /\ Len(c) = Len(i)
    BY <1>1, <2>3
  <2>5. \A n \in 1..Len(i) : c[n] = j[n]
    <3>1. TAKE n \in 1..Len(i)
    <3>2. n \in 1..(Len(i) - 1 + 1) /\ 1 + n - 1 = n
      BY <1>1
    <3>3. QED
      BY <2>3, <3>2
  <2> HIDE DEF c
  <2>6. i \in Seq(STRING)
    BY DEF Text
  <2>7. (\A n \in 1..Len(i) : i[n] = j[n]) => i = c
    BY <2>4, <2>5, <2>6, SeqEqual
  <2>8. i = c => \A n \in 1..Len(i) : i[n] = j[n]
    BY <2>5
  <2>9. QED
    BY <1>2, <2>7, <2>8 DEF c
<1>4. QED
  BY <1>3 DEF IsPrefix

\* A proper prefix is shorter.
LEMMA StrictlyIs ==
  ASSUME NEW i \in Text, NEW j \in Text
  PROVE  Strictly(i, j) <=> Len(i) < Len(j) /\ \A n \in 1..Len(i) : i[n] = j[n]
<1>1. Len(i) \in Nat /\ Len(j) \in Nat
  BY LenProperties DEF Text
<1>2. Len(i) = Len(j) /\ (\A n \in 1..Len(i) : i[n] = j[n]) => i = j
  BY SeqEqual DEF Text
<1>3. Strictly(i, j) <=> i # j /\ Len(i) <= Len(j) /\ \A n \in 1..Len(i) : i[n] = j[n]
  BY PrefixIs DEF Strictly
<1>4. QED
  BY <1>1, <1>2, <1>3

\* The indentations that one can get to by indenting further, and back again.
LEMMA StrictlyOrders ==
  ASSUME NEW i \in Text, NEW j \in Text, NEW k \in Text
  PROVE  /\ ~Strictly(i, i)
         /\ Strictly(i, j) => Len(i) < Len(j) /\ ~Strictly(j, i) /\ i # j
         /\ Strictly(i, j) /\ Strictly(j, k) => Strictly(i, k)
         /\ Strictly(i, k) /\ Strictly(j, k) => i = j \/ Strictly(i, j) \/ Strictly(j, i)
<1>1. Len(i) \in Nat /\ Len(j) \in Nat /\ Len(k) \in Nat
  BY LenProperties DEF Text
<1>2. Strictly(i, j) => Len(i) < Len(j) /\ ~Strictly(j, i) /\ i # j
  BY <1>1, StrictlyIs
<1>3. ASSUME Strictly(i, j), Strictly(j, k) PROVE Strictly(i, k)
  <2>1. Len(i) < Len(j) /\ Len(j) < Len(k)
    BY <1>3, StrictlyIs
  <2>2. \A n \in 1..Len(i) : n \in 1..Len(j)
    BY <1>1, <2>1
  <2>3. \A n \in 1..Len(i) : i[n] = k[n]
    BY <1>3, <2>2, StrictlyIs
  <2>4. Len(i) < Len(k)
    BY <1>1, <2>1
  <2>5. QED
    BY <2>3, <2>4, StrictlyIs
<1>4. ASSUME Strictly(i, k), Strictly(j, k) PROVE i = j \/ Strictly(i, j) \/ Strictly(j, i)
  <2>1. (\A n \in 1..Len(i) : i[n] = k[n]) /\ \A n \in 1..Len(j) : j[n] = k[n]
    BY <1>4, StrictlyIs
  <2>2. CASE Len(i) < Len(j)
    <3>1. \A n \in 1..Len(i) : n \in 1..Len(j)
      BY <1>1, <2>2
    <3>2. \A n \in 1..Len(i) : i[n] = j[n]
      BY <2>1, <3>1
    <3>3. QED
      BY <2>2, <3>2, StrictlyIs
  <2>3. CASE Len(j) < Len(i)
    <3>1. \A n \in 1..Len(j) : n \in 1..Len(i)
      BY <1>1, <2>3
    <3>2. \A n \in 1..Len(j) : j[n] = i[n]
      BY <2>1, <3>1
    <3>3. QED
      BY <2>3, <3>2, StrictlyIs
  <2>4. CASE Len(i) = Len(j)
    <3>1. \A n \in 1..Len(i) : i[n] = j[n]
      BY <2>1, <2>4
    <3>2. QED
      BY <2>4, <3>1, SeqEqual DEF Text
  <2>5. QED
    BY <1>1, <2>2, <2>3, <2>4
<1>5. ~Strictly(i, i)
  BY DEF Strictly
<1>6. QED
  BY <1>2, <1>3, <1>4, <1>5

\* No indentation is where every other one starts.
LEMMA Unindented ==
  ASSUME NEW i \in Text
  PROVE  <<>> \in Text /\ (Strictly(<<>>, i) <=> i # <<>>) /\ ~Strictly(i, <<>>)
           /\ Len(<<>>) = 0
<1>1. <<>> \in Text /\ Len(<<>>) = 0 /\ Len(i) \in Nat
  BY EmptySeq, LenProperties DEF Text
<1>2. \A n \in 1..0 : FALSE
  OBVIOUS
<1>3. i # <<>> => Len(i) > 0
  BY <1>1, EmptySeq DEF Text
<1>4. Strictly(<<>>, i) <=> Len(<<>>) < Len(i) /\ \A n \in 1..Len(<<>>) : <<>>[n] = i[n]
  BY <1>1, StrictlyIs
<1>5. Strictly(i, <<>>) => Len(i) < Len(<<>>)
  BY <1>1, StrictlyIs
<1>6. QED
  BY <1>1, <1>2, <1>3, <1>4, <1>5

\* What the comparison of text_ast.cpp:104-112 says of two indentations.
LEMMA CompareIs ==
  ASSUME NEW i \in Text, NEW j \in Text
  PROVE  /\ CompareIndentations(i, j) = "Equal" <=> i = j
         /\ CompareIndentations(i, j) = "Less" <=> Strictly(i, j)
         /\ CompareIndentations(i, j) = "Greater" <=> Strictly(j, i)
         /\ CompareIndentations(i, j) \in {"Equal", "Less", "Greater", "none"}
<1>1. Strictly(i, j) => ~Strictly(j, i) /\ i # j
  BY StrictlyOrders
<1>2. Strictly(j, i) => i # j
  BY StrictlyOrders
<1>3. IsPrefix(i, j) /\ i # j <=> Strictly(i, j)
  BY DEF Strictly
<1>4. IsPrefix(j, i) /\ i # j <=> Strictly(j, i)
  BY DEF Strictly
<1>5. QED
  BY <1>1, <1>2, <1>3, <1>4 DEF CompareIndentations

-----------------------------------------------------------------------------
(* The lines that are open.                                                *)

LinesAreText == lines \in Seq(Text)

\* What is known of a line.
LEMMA LineIs ==
  ASSUME LinesAreText, NEW k \in 1..Len(lines)
  PROVE  /\ lines[k] \in Text
         /\ Line(k).ok \in BOOLEAN /\ Indent(k) \in Text /\ Line(k).tokens \in Seq(Token)
         /\ Len(Indent(k)) \in Nat
<1>1. lines[k] \in Text
  BY ElementOfSeq DEF LinesAreText
<1>2. Line(k) \in [ok : BOOLEAN, indentation : Text, tokens : Seq(Token)]
  BY <1>1, TokenizeIs DEF Line
<1>3. Indent(k) \in Text
  BY <1>2 DEF Indent
<1>4. QED
  BY <1>1, <1>2, <1>3, LenProperties DEF Text

\* A line closes those that are not indented less, and a blank one closes all.
LEMMA OpenNext ==
  ASSUME NEW k \in Nat, NEW j \in 1..k
  PROVE  IsOpen(j, k + 1) <=>
           ~IsBlank(k) /\ (j = k \/ (IsOpen(j, k) /\ Len(Indent(k)) > Len(Indent(j))))
<1>1. CASE j = k
  <2>1. \A m \in k..((k + 1) - 1) : m = k
    OBVIOUS
  <2>2. k \in k..((k + 1) - 1) /\ \A m \in (k + 1)..((k + 1) - 1) : FALSE
    OBVIOUS
  <2>3. QED
    BY <1>1, <2>1, <2>2 DEF IsOpen
<1>2. CASE j # k
  <2>1. j < k /\ j < k + 1
    BY <1>2
  <2>2. \A m \in j..((k + 1) - 1) : m = k \/ m \in j..(k - 1)
    OBVIOUS
  <2>3. \A m \in (j + 1)..((k + 1) - 1) : m = k \/ m \in (j + 1)..(k - 1)
    OBVIOUS
  <2>4. k \in j..((k + 1) - 1) /\ k \in (j + 1)..((k + 1) - 1)
    BY <2>1
  <2>5. \A m \in j..(k - 1) : m \in j..((k + 1) - 1)
    OBVIOUS
  <2>6. \A m \in (j + 1)..(k - 1) : m \in (j + 1)..((k + 1) - 1)
    OBVIOUS
  <2>7. ASSUME IsOpen(j, k + 1)
        PROVE  ~IsBlank(k) /\ IsOpen(j, k) /\ Len(Indent(k)) > Len(Indent(j))
    BY <2>1, <2>4, <2>5, <2>6, <2>7 DEF IsOpen
  <2>8. ASSUME ~IsBlank(k), IsOpen(j, k), Len(Indent(k)) > Len(Indent(j))
        PROVE  IsOpen(j, k + 1)
    BY <2>1, <2>2, <2>3, <2>8 DEF IsOpen
  <2>9. QED
    BY <1>2, <2>7, <2>8
<1>3. QED
  BY <1>1, <1>2

\* The sequence full has the lines that are open at line k, each indented further
\* than the one before it and the first one not at all.
Chain(full, k) ==
  /\ full \in Seq(1..(k - 1))
  /\ \A j \in 1..(k - 1) : IsOpen(j, k) <=> \E d \in 1..Len(full) : full[d] = j
  /\ \A c, d \in 1..Len(full) :
       c < d => full[c] < full[d] /\ Strictly(Indent(full[c]), Indent(full[d]))
  /\ Len(full) > 0 => Indent(full[1]) = <<>> /\ full[Len(full)] = k - 1

\* The open lines are lines, each with an indentation, and the last is the previous line.
LEMMA ChainIs ==
  ASSUME LinesAreText, NEW k \in 1..(Len(lines) + 1), NEW full, Chain(full, k)
  PROVE  /\ Len(full) \in Nat
         /\ \A d \in 1..Len(full) :
              full[d] \in 1..(k - 1) /\ full[d] \in 1..Len(lines) /\ Indent(full[d]) \in Text
              /\ IsOpen(full[d], k)
         /\ Len(full) = 0 => \A j \in 1..(k - 1) : ~IsOpen(j, k)
         /\ Len(full) = 0 => k = 1 \/ IsBlank(k - 1)
         /\ Len(full) > 0 => k > 1 /\ k - 1 \in 1..Len(lines) /\ ~IsBlank(k - 1)
<1>1. Len(lines) \in Nat /\ full \in Seq(1..(k - 1)) /\ k \in Nat
  BY LenProperties DEF LinesAreText, Chain
<1>2. Len(full) \in Nat /\ \A d \in 1..Len(full) : full[d] \in 1..(k - 1)
  BY <1>1, LenProperties, ElementOfSeq
<1>3. \A d \in 1..Len(full) : full[d] \in 1..Len(lines)
  BY <1>1, <1>2
<1>4. \A d \in 1..Len(full) : Indent(full[d]) \in Text
  BY <1>3, LineIs
<1>5. \A d \in 1..Len(full) : IsOpen(full[d], k)
  BY <1>2 DEF Chain
<1>6. Len(full) = 0 => \A j \in 1..(k - 1) : ~IsOpen(j, k)
  <2>1. Len(full) = 0 => \A d \in 1..Len(full) : FALSE
    OBVIOUS
  <2>2. QED
    BY <2>1 DEF Chain
<1>7. k > 1 => k - 1 \in Nat /\ k - 1 \in 1..(k - 1) /\ (k - 1) + 1 = k
  BY <1>1
<1>8. k > 1 => (IsOpen(k - 1, k) <=> ~IsBlank(k - 1))
  BY <1>7, OpenNext
<1>9. Len(full) = 0 => k = 1 \/ IsBlank(k - 1)
  BY <1>1, <1>6, <1>7, <1>8
<1>10. Len(full) > 0 => k > 1 /\ k - 1 \in 1..Len(lines) /\ ~IsBlank(k - 1)
  <2>1. Len(full) > 0 => Len(full) \in 1..Len(full)
    BY <1>2
  <2>2. Len(full) > 0 => full[Len(full)] = k - 1 /\ IsOpen(full[Len(full)], k) /\ full[Len(full)] \in 1..Len(lines)
    BY <1>3, <1>5, <2>1 DEF Chain
  <2>3. Len(full) > 0 => k > 1 /\ k - 1 \in 1..Len(lines) /\ IsOpen(k - 1, k)
    BY <1>1, <2>2
  <2>4. QED
    BY <1>8, <2>3
<1>11. QED
  BY <1>2, <1>3, <1>4, <1>5, <1>6, <1>9, <1>10

\* Where line k goes: below the d-th open line.
GoesBelow(full, k, d) ==
  /\ d \in 0..Len(full)
  /\ IF d = 0 THEN Indent(k) = <<>> ELSE Strictly(Indent(full[d]), Indent(k))
  /\ \A c \in (d + 1)..Len(full) : ~(Len(Indent(k)) > Len(Indent(full[c])))

\* The line that a line goes below is its parent.
LEMMA ParentIs ==
  ASSUME LinesAreText, NEW k \in 1..Len(lines), NEW full, Chain(full, k),
         NEW d, GoesBelow(full, k, d)
  PROVE  Parent(k) = IF d = 0 THEN 0 ELSE full[d]
<1> DEFINE above == {j \in Numbers(k) : IsOpen(j, k) /\ Strictly(Indent(j), Indent(k))}
<1>1. Len(lines) \in Nat /\ k \in Nat /\ k \in 1..(Len(lines) + 1)
  BY LenProperties DEF LinesAreText
<1>2. Len(full) \in Nat /\ \A c \in 1..Len(full) :
        full[c] \in 1..(k - 1) /\ full[c] \in 1..Len(lines) /\ Indent(full[c]) \in Text /\ IsOpen(full[c], k)
  BY <1>1, ChainIs
<1>3. Indent(k) \in Text /\ \A j \in 1..(k - 1) : Indent(j) \in Text
  <2>1. \A j \in 1..(k - 1) : j \in 1..Len(lines)
    BY <1>1
  <2>2. QED
    BY <2>1, LineIs
<1>4. CASE d = 0
  <2>1. Indent(k) = <<>>
    BY <1>4 DEF GoesBelow
  <2>2. above = {}
    BY <1>3, <2>1, Unindented DEF Numbers
  <2>3. QED
    BY <1>4, <2>2 DEF Parent
<1>5. CASE d # 0
  <2>1. d \in 1..Len(full) /\ Strictly(Indent(full[d]), Indent(k))
    BY <1>2, <1>5 DEF GoesBelow
  <2>2. full[d] \in above
    BY <1>2, <2>1 DEF Numbers
  <2>3. ASSUME NEW j \in above PROVE j <= full[d]
    <3>1. j \in 1..(k - 1) /\ IsOpen(j, k) /\ Strictly(Indent(j), Indent(k))
      BY DEF Numbers
    <3>2. PICK c \in 1..Len(full) : full[c] = j
      BY <3>1 DEF Chain
    <3>3. Len(Indent(k)) > Len(Indent(full[c]))
      <4>1. Len(Indent(j)) < Len(Indent(k))
        BY <1>3, <3>1, StrictlyOrders
      <4>2. Len(Indent(j)) \in Nat /\ Len(Indent(k)) \in Nat
        BY <1>3, <3>1, LenProperties DEF Text
      <4>3. QED
        BY <3>2, <4>1, <4>2
    <3>4. c <= d
      <4>1. ~(c \in (d + 1)..Len(full))
        BY <3>3 DEF GoesBelow
      <4>2. QED
        BY <1>2, <2>1, <4>1
    <3>5. c = d \/ full[c] < full[d]
      <4>1. c = d \/ c < d
        BY <2>1, <3>4
      <4>2. QED
        BY <2>1, <4>1 DEF Chain
    <3>6. QED
      BY <1>2, <2>1, <3>2, <3>5
  <2>4. above \in SUBSET Nat
    BY DEF Numbers
  <2> HIDE DEF above
  <2>5. ASSUME NEW x \in above, \A y \in above : x >= y PROVE x = full[d]
    <3>1. x >= full[d] /\ x <= full[d] /\ x \in Nat /\ full[d] \in Nat
      BY <2>2, <2>3, <2>4, <2>5
    <3>2. QED
      BY <3>1
  <2>6. \A y \in above : full[d] >= y
    BY <2>2, <2>3, <2>4
  <2>7. Max(above) = full[d]
    BY <2>2, <2>5, <2>6 DEF Max
  <2>8. Parent(k) = IF above = {} THEN 0 ELSE Max(above)
    BY DEF Parent, above
  <2>9. QED
    BY <1>5, <2>2, <2>7, <2>8
<1>6. QED
  BY <1>4, <1>5

\* And it is the innermost open line from then on.
LEMMA ChainNext ==
  ASSUME LinesAreText, NEW k \in 1..Len(lines), NEW full, Chain(full, k),
         NEW d, GoesBelow(full, k, d), ~IsBlank(k)
  PROVE  Chain([c \in 1..(d + 1) |-> IF c = d + 1 THEN k ELSE full[c]], k + 1)
<1> DEFINE next == [c \in 1..(d + 1) |-> IF c = d + 1 THEN k ELSE full[c]]
<1>1. Len(lines) \in Nat /\ k \in Nat /\ k \in 1..(Len(lines) + 1) /\ (k + 1) - 1 = k
  BY LenProperties DEF LinesAreText
<1>2. Len(full) \in Nat /\ \A c \in 1..Len(full) :
        full[c] \in 1..(k - 1) /\ full[c] \in 1..Len(lines) /\ Indent(full[c]) \in Text /\ IsOpen(full[c], k)
  BY <1>1, ChainIs
<1>3. Indent(k) \in Text /\ d \in Nat /\ d <= Len(full)
  BY <1>2, LineIs DEF GoesBelow
<1>4. /\ \A c \in 1..(d + 1) : c = d + 1 \/ (c \in 1..d /\ c \in 1..Len(full))
      /\ d + 1 \in 1..(d + 1) /\ \A c \in 1..d : c \in 1..(d + 1) /\ c # d + 1 /\ c \in 1..Len(full)
  BY <1>2, <1>3
<1>5. next[d + 1] = k /\ \A c \in 1..d : next[c] = full[c]
  BY <1>4
<1>6. next \in Seq(1..k) /\ Len(next) = d + 1
  <2>1. next \in [1..(d + 1) -> 1..k]
    <3>1. k \in 1..k /\ \A c \in 1..Len(full) : full[c] \in 1..k
      BY <1>1, <1>2
    <3>2. QED
      BY <1>4, <3>1
  <2>2. d + 1 \in Nat
    BY <1>3
  <2> HIDE DEF next
  <2>3. QED
    BY <2>1, <2>2, SeqDef, LenProperties
<1> HIDE DEF next
<1>7. \A c \in 1..d : Strictly(Indent(full[c]), Indent(k)) /\ full[c] < k
  <2>1. TAKE c \in 1..d
  <2>2. d \in 1..Len(full) /\ c \in 1..Len(full) /\ d # 0 /\ (c = d \/ c < d)
    BY <1>2, <1>3, <2>1
  <2>3. Strictly(Indent(full[d]), Indent(k))
    BY <2>2 DEF GoesBelow
  <2>4. c = d \/ Strictly(Indent(full[c]), Indent(full[d]))
    BY <2>2 DEF Chain
  <2>5. Strictly(Indent(full[c]), Indent(k))
    BY <1>2, <1>3, <2>2, <2>3, <2>4, StrictlyOrders
  <2>6. full[c] < k
    BY <1>1, <1>2, <2>2
  <2>7. QED
    BY <2>5, <2>6
<1>8. ASSUME NEW c \in 1..Len(next), NEW e \in 1..Len(next), c < e
      PROVE  next[c] < next[e] /\ Strictly(Indent(next[c]), Indent(next[e]))
  <2>1. c \in 1..d /\ (e = d + 1 \/ e \in 1..d)
    BY <1>3, <1>6, <1>8
  <2>2. CASE e = d + 1
    BY <1>5, <1>7, <2>1, <2>2
  <2>3. CASE e \in 1..d
    BY <1>4, <1>5, <1>8, <2>1, <2>3 DEF Chain
  <2>4. QED
    BY <2>1, <2>2, <2>3
<1>9. ASSUME NEW j \in 1..k
      PROVE  IsOpen(j, k + 1) <=> \E c \in 1..Len(next) : next[c] = j
  <2>1. IsOpen(j, k + 1) <=> j = k \/ (IsOpen(j, k) /\ Len(Indent(k)) > Len(Indent(j)))
    BY OpenNext
  <2>2. CASE j = k
    BY <1>4, <1>5, <1>6, <2>1, <2>2
  <2>3. CASE j # k
    <3>0. j \in 1..(k - 1)
      BY <1>1, <2>3
    <3>1. ASSUME IsOpen(j, k), Len(Indent(k)) > Len(Indent(j)) PROVE \E c \in 1..Len(next) : next[c] = j
      <4>1. PICK c \in 1..Len(full) : full[c] = j
        BY <3>0, <3>1 DEF Chain
      <4>2. ~(c \in (d + 1)..Len(full))
        BY <3>1, <4>1 DEF GoesBelow
      <4>3. c \in 1..d
        BY <1>2, <1>3, <4>2
      <4>4. QED
        BY <1>4, <1>5, <1>6, <4>1, <4>3
    <3>2. ASSUME NEW c \in 1..Len(next), next[c] = j PROVE IsOpen(j, k) /\ Len(Indent(k)) > Len(Indent(j))
      <4>1. c \in 1..d
        BY <1>4, <1>5, <1>6, <2>3, <3>2
      <4>2. full[c] = j /\ c \in 1..Len(full)
        BY <1>4, <1>5, <3>2, <4>1
      <4>3. IsOpen(j, k) /\ Strictly(Indent(j), Indent(k)) /\ Indent(j) \in Text
        BY <1>2, <1>7, <4>1, <4>2
      <4>4. Len(Indent(j)) < Len(Indent(k)) /\ Len(Indent(j)) \in Nat /\ Len(Indent(k)) \in Nat
        BY <1>3, <4>3, StrictlyOrders, LenProperties DEF Text
      <4>5. QED
        BY <4>3, <4>4
    <3>3. QED
      BY <2>1, <2>3, <3>1, <3>2
  <2>4. QED
    BY <2>2, <2>3
<1>10. Indent(next[1]) = <<>> /\ next[Len(next)] = (k + 1) - 1
  <2>1. CASE d = 0
    <3>1. Indent(k) = <<>>
      BY <2>1 DEF GoesBelow
    <3>2. QED
      BY <1>1, <1>5, <1>6, <2>1, <3>1
  <2>2. CASE d # 0
    <3>1. 1 \in 1..d /\ Len(full) > 0
      BY <1>2, <1>3, <2>2
    <3>2. Indent(full[1]) = <<>>
      BY <3>1 DEF Chain
    <3>3. QED
      BY <1>1, <1>5, <1>6, <3>1, <3>2
  <2>3. QED
    BY <2>1, <2>2
<1>11. Chain(next, k + 1)
  BY <1>1, <1>6, <1>8, <1>9, <1>10 DEF Chain
<1>12. QED
  BY <1>11 DEF next

\* After a blank line nothing is open.
LEMMA ChainBlank ==
  ASSUME NEW k \in Nat, IsBlank(k)
  PROVE  Chain(<<>>, k + 1)
<1>1. \A j \in 1..k : ~IsOpen(j, k + 1)
  BY OpenNext
<1>2. (k + 1) - 1 = k /\ <<>> \in Seq(1..k) /\ Len(<<>>) = 0 /\ 1..0 = {}
  BY EmptySeq
<1>3. QED
  BY <1>1, <1>2 DEF Chain

-----------------------------------------------------------------------------
(* The levels on the stack.                                                *)

Levels == [node : Nat, childrenIndentation : Text]

\* The levels on the stack are the outermost open lines, each with the
\* indentation of the next one.
Mirrors(stack, full) ==
  /\ stack \in Seq(Levels)
  /\ Len(stack) <= Len(full)
  /\ \A d \in 1..Len(stack) :
       /\ stack[d].node = full[d]
       /\ d < Len(stack) => stack[d].childrenIndentation = Indent(full[d + 1])

\* Line k is not looked at yet: the stack has all open lines.
Starts(stack, full, k) ==
  /\ Chain(full, k) /\ Mirrors(stack, full)
  /\ Len(stack) = Len(full)
  /\ Len(stack) > 0 => stack[Len(stack)].childrenIndentation = Unset

\* The open lines that were popped are indented further than line k, the last
\* of them perhaps not, unless it is the last open line.
Looks(stack, full, k) ==
  /\ Chain(full, k) /\ Mirrors(stack, full)
  /\ Len(stack) < Len(full)
  /\ Len(stack) > 0 => stack[Len(stack)].childrenIndentation = Indent(full[Len(stack) + 1])
  /\ \A d \in 1..Len(full) :
       d = Len(full) \/ d > Len(stack) + 1 => Strictly(Indent(k), Indent(full[d]))
  /\ Indent(k) # <<>>

\* Line k goes below the last line on the stack.
Goes(stack, full, k) ==
  /\ Chain(full, k) /\ Mirrors(stack, full)
  /\ GoesBelow(full, k, Len(stack))
  /\ WellIndented(k)
  /\ Len(stack) > 0 => stack[Len(stack)].childrenIndentation \in {Unset, Indent(k)}

\* The lines above k that go below j.
Below(j, k) == {m \in 1..(k - 1) : ~IsBlank(m) /\ Parent(m) = j}
Definitions(k) == {m \in Below(0, k) : ~DefinesVariable(m)}

\* Nothing that is said of the lines changes while they do not.
LEMMA Same ==
  ASSUME lines' = lines
  PROVE  /\ \A k : /\ Line(k)' = Line(k) /\ Indent(k)' = Indent(k) /\ IsBlank(k)' = IsBlank(k)
                   /\ WellIndented(k)' = WellIndented(k) /\ GoodLine(k)' = GoodLine(k)
                   /\ DefinesVariable(k)' = DefinesVariable(k)
                   /\ VariableName(k)' = VariableName(k) /\ Parent(k)' = Parent(k)
         /\ \A j, k : IsOpen(j, k)' = IsOpen(j, k)
<1>1. \A k : Line(k)' = Line(k)
  BY DEF Line
<1>2. \A k : Indent(k)' = Indent(k)
  BY <1>1 DEF Indent
<1>3. \A k : IsBlank(k)' = IsBlank(k)
  BY <1>1 DEF IsBlank
<1>4. \A j, k : IsOpen(j, k)' = IsOpen(j, k)
  BY <1>2, <1>3 DEF IsOpen
<1>5. \A k : WellIndented(k)' = WellIndented(k)
  BY <1>2, <1>3, <1>4 DEF WellIndented, Numbers
<1>6. \A k : DefinesVariable(k)' = DefinesVariable(k)
  BY <1>1, <1>3 DEF DefinesVariable
<1>7. \A k : VariableName(k)' = VariableName(k)
  BY <1>1 DEF VariableName
<1>8. \A k : WellFormed(k)' = WellFormed(k)
  BY <1>1, <1>2, <1>6, <1>7 DEF WellFormed, Numbers
<1>9. \A k : GoodLine(k)' = GoodLine(k)
  BY <1>1, <1>3, <1>5, <1>8 DEF GoodLine
<1>10. \A k : Parent(k)' = Parent(k)
  BY <1>2, <1>4 DEF Parent, Numbers
<1>11. QED
  BY <1>1, <1>2, <1>3, <1>4, <1>5, <1>6, <1>7, <1>9, <1>10

\* Nor what is said of the stack,
LEMMA SameStack ==
  ASSUME lines' = lines
  PROVE  \A stack, full, k : /\ Starts(stack, full, k)' = Starts(stack, full, k)
                             /\ Looks(stack, full, k)' = Looks(stack, full, k)
                             /\ Goes(stack, full, k)' = Goes(stack, full, k)
                             /\ Chain(full, k)' = Chain(full, k)
<1>1. \A full, k : Chain(full, k)' = Chain(full, k)
  BY Same DEF Chain
<1>2. \A full, stack : Mirrors(stack, full)' = Mirrors(stack, full)
  BY Same DEF Mirrors
<1>3. \A full, k, d : GoesBelow(full, k, d)' = GoesBelow(full, k, d)
  BY Same DEF GoesBelow
<1>4. QED
  BY <1>1, <1>2, <1>3, Same DEF Starts, Looks, Goes

\* and of the lines below a line.
LEMMA SameTree ==
  ASSUME lines' = lines
  PROVE  \A j, k : Below(j, k)' = Below(j, k) /\ Definitions(k)' = Definitions(k)
<1>1. \A j, k : Below(j, k)' = Below(j, k)
  BY Same DEF Below
<1>2. QED
  BY <1>1, Same DEF Definitions

\* What a stack that mirrors open lines has.
LEMMA MirrorsIs ==
  ASSUME LinesAreText, NEW k \in 1..Len(lines), NEW full, Chain(full, k),
         NEW stack, Mirrors(stack, full)
  PROVE  /\ Len(stack) \in Nat /\ Len(full) \in Nat /\ Len(stack) <= Len(full)
         /\ \A d \in 1..Len(stack) :
              /\ stack[d] \in Levels /\ stack[d].node = full[d] /\ full[d] \in 1..(k - 1)
              /\ stack[d].childrenIndentation \in Text
         /\ \A d \in 1..Len(full) : Indent(full[d]) \in Text /\ full[d] \in 1..(k - 1) /\ IsOpen(full[d], k)
         /\ Indent(k) \in Text /\ Len(lines) \in Nat /\ k \in Nat /\ k \in 1..(Len(lines) + 1)
         /\ Len(full) = 0 => k = 1 \/ IsBlank(k - 1)
         /\ Len(full) > 0 => full[Len(full)] = k - 1 /\ k > 1 /\ ~IsBlank(k - 1)
<1>1. Len(lines) \in Nat /\ k \in Nat /\ k \in 1..(Len(lines) + 1)
  BY LenProperties DEF LinesAreText
<1>2. Len(stack) \in Nat /\ \A d \in 1..Len(stack) : stack[d] \in Levels
  BY LenProperties, ElementOfSeq DEF Mirrors
<1>3. /\ Len(full) \in Nat
      /\ \A d \in 1..Len(full) : Indent(full[d]) \in Text /\ full[d] \in 1..(k - 1) /\ IsOpen(full[d], k)
      /\ Len(full) = 0 => k = 1 \/ IsBlank(k - 1)
      /\ Len(full) > 0 => k > 1 /\ ~IsBlank(k - 1)
  BY <1>1, ChainIs
<1>4. Len(full) > 0 => full[Len(full)] = k - 1
  BY DEF Chain
<1>5. Len(stack) <= Len(full) /\ \A d \in 1..Len(stack) : stack[d].node = full[d]
  BY DEF Mirrors
<1>6. \A d \in 1..Len(stack) : d \in 1..Len(full)
  BY <1>2, <1>3, <1>5
<1>7. \A d \in 1..Len(stack) : stack[d].childrenIndentation \in Text
  BY <1>2 DEF Levels
<1>8. Indent(k) \in Text
  BY LineIs
<1>9. QED
  BY <1>1, <1>2, <1>3, <1>4, <1>5, <1>6, <1>7, <1>8

\* No line is open to begin with, nor after a blank line.
LEMMA StartsAfresh ==
  ASSUME NEW k \in Nat, k = 0 \/ IsBlank(k)
  PROVE  Starts(<<>>, <<>>, k + 1)
<1>1. Chain(<<>>, k + 1)
  <2>1. CASE k = 0
    <3>1. 1..((0 + 1) - 1) = {} /\ 1..0 = {} /\ Len(<<>>) = 0 /\ <<>> \in Seq(1..((0 + 1) - 1))
      BY EmptySeq
    <3>2. QED
      BY <2>1, <3>1 DEF Chain
  <2>2. QED
    BY <2>1, ChainBlank
<1>2. Len(<<>>) = 0 /\ <<>> \in Seq(Levels) /\ 1..0 = {}
  BY EmptySeq
<1>3. QED
  BY <1>1, <1>2 DEF Starts, Mirrors

\* A line without indentation goes to the top.
LEMMA GoesToTheTop ==
  ASSUME LinesAreText, NEW k \in 1..Len(lines), NEW full, Chain(full, k), Indent(k) = <<>>
  PROVE  Goes(<<>>, full, k)
<1>1. Len(<<>>) = 0 /\ <<>> \in Seq(Levels) /\ 1..0 = {}
  BY EmptySeq
<1>2. Len(lines) \in Nat /\ k \in 1..(Len(lines) + 1)
  BY LenProperties DEF LinesAreText
<1>3. Len(full) \in Nat /\ \A d \in 1..Len(full) : Indent(full[d]) \in Text
  BY <1>2, ChainIs
<1>4. \A d \in 1..Len(full) : Len(Indent(full[d])) \in Nat
  BY <1>3, LenProperties DEF Text
<1>5. Mirrors(<<>>, full)
  BY <1>1, <1>3 DEF Mirrors
<1>6. GoesBelow(full, k, 0)
  <2>1. \A d \in (0 + 1)..Len(full) : d \in 1..Len(full)
    OBVIOUS
  <2>2. \A d \in (0 + 1)..Len(full) : ~(0 > Len(Indent(full[d])))
    BY <1>4, <2>1
  <2>3. 0 \in 0..Len(full)
    BY <1>3
  <2>4. QED
    BY <1>1, <2>2, <2>3 DEF GoesBelow
<1>7. WellIndented(k)
  BY DEF WellIndented
<1>8. QED
  BY <1>1, <1>5, <1>6, <1>7 DEF Goes

\* All elements but the last.
LEMMA FrontIs ==
  ASSUME NEW S, NEW s \in Seq(S), s # <<>>
  PROVE  /\ Front(s) \in Seq(S) /\ Len(Front(s)) = Len(s) - 1
         /\ \A d \in 1..(Len(s) - 1) : Front(s)[d] = s[d]
<1>1. Len(s) \in Nat /\ Len(s) > 0
  BY EmptySeq, LenProperties
<1>2. /\ SubSeq(s, 1, Len(s) - 1) \in Seq(S) /\ Len(SubSeq(s, 1, Len(s) - 1)) = Len(s) - 1
      /\ \A d \in 1..(Len(s) - 1) : SubSeq(s, 1, Len(s) - 1)[d] = s[d]
  <2> DEFINE n == Len(s) - 1
  <2>1. n \in Int /\ n >= 0 /\ \A d \in 1..n : s[d] \in S
    BY <1>1, ElementOfSeq
  <2> HIDE DEF n
  <2>2. /\ SubSeq(s, 1, n) \in Seq(S) /\ Len(SubSeq(s, 1, n)) = IF 1 <= n THEN n - 1 + 1 ELSE 0
        /\ \A d \in 1..(n - 1 + 1) : SubSeq(s, 1, n)[d] = s[1 + d - 1]
    BY <2>1, SubSeqProperties
  <2>3. Len(SubSeq(s, 1, n)) = n /\ \A d \in 1..n : SubSeq(s, 1, n)[d] = s[d]
    BY <2>1, <2>2
  <2>4. QED
    BY <2>2, <2>3 DEF n
<1>3. QED
  BY <1>2 DEF Front

\* The last level of a stack may be dropped or replaced.
LEMMA FrontMirrors ==
  ASSUME NEW stack, NEW full, Mirrors(stack, full), Len(stack) > 0
  PROVE  /\ Mirrors(Front(stack), full) /\ Len(Front(stack)) = Len(stack) - 1
         /\ Len(stack) > 1 =>
              Front(stack)[Len(stack) - 1].childrenIndentation = Indent(full[Len(stack)])
<1>1. stack \in Seq(Levels) /\ Len(stack) \in Nat /\ stack # <<>>
  BY LenProperties, EmptySeq DEF Mirrors
<1>2. /\ Front(stack) \in Seq(Levels) /\ Len(Front(stack)) = Len(stack) - 1
      /\ \A d \in 1..(Len(stack) - 1) : Front(stack)[d] = stack[d]
  BY <1>1, FrontIs
<1>3. \A d \in 1..(Len(stack) - 1) : d \in 1..Len(stack) /\ d < Len(stack)
  BY <1>1
<1>4. Len(Front(stack)) <= Len(full)
  <2>1. Len(full) >= Len(stack) /\ Len(stack) <= Len(full)
    BY DEF Mirrors
  <2>2. QED
    BY <1>1, <1>2, <2>1
<1>5. QED
  BY <1>1, <1>2, <1>3, <1>4 DEF Mirrors

-----------------------------------------------------------------------------
(* The search for the parent of a line.                                    *)

\* What is reported of a first bad line.
Verdict(k) ==
  IF \/ ~Line(k).ok \/ IsBlank(k) \/ WellIndented(k)
     \/ IndentsAtLine(k) = {} \/ ~Strictly(Indent(k), Indent(k - 1))
  THEN "error"
  ELSE IF \A i \in IndentsAtLine(k) : Strictly(Indent(k), i) THEN "undefined"
  ELSE "internal"

\* The outcome is what the first bad line does.
LEMMA FirstBad ==
  ASSUME LinesAreText, NEW k \in 1..Len(lines), ~GoodLine(k), \A j \in 1..(k - 1) : GoodLine(j)
  PROVE  Outcome = Verdict(k)
<1> DEFINE bad == {j \in DOMAIN lines : ~GoodLine(j)}
<1>1. Len(lines) \in Nat /\ DOMAIN lines = 1..Len(lines)
  BY LenProperties DEF LinesAreText
<1>2. k \in bad /\ \A j \in bad : j \in Nat /\ k <= j
  BY <1>1
<1>3. Outcome = IF bad = {} THEN "ok" ELSE Verdict(Min(bad))
  BY DEF Outcome, Verdict
<1> HIDE DEF bad
<1>4. ASSUME NEW x \in bad, \A y \in bad : x <= y PROVE x = k
  <2>1. x <= k /\ k <= x /\ x \in Nat /\ k \in Nat
    BY <1>2, <1>4
  <2>2. QED
    BY <2>1
<1>5. Min(bad) = k
  BY <1>2, <1>4 DEF Min
<1>6. QED
  BY <1>2, <1>3, <1>5

\* Good lines are accepted.
LEMMA AllGood ==
  ASSUME LinesAreText, \A j \in 1..Len(lines) : GoodLine(j)
  PROVE  Outcome = "ok"
<1>1. DOMAIN lines = 1..Len(lines)
  BY LenProperties DEF LinesAreText
<1>2. {j \in DOMAIN lines : ~GoodLine(j)} = {}
  BY <1>1
<1>3. QED
  BY <1>2 DEF Outcome

\* Whether a line is indented well, and what it is compared with, in terms of
\* the open lines.
LEMMA IndentationIs ==
  ASSUME LinesAreText, NEW k \in 1..Len(lines), NEW full, Chain(full, k)
  PROVE  /\ WellIndented(k) <=>
              \/ Indent(k) = <<>>
              \/ Len(full) > 0 /\ Strictly(Indent(full[Len(full)]), Indent(k))
              \/ \E d \in 1..Len(full) : Indent(full[d]) = Indent(k)
         /\ \A i : i \in IndentsAtLine(k) <=> \E d \in 1..Len(full) : Indent(full[d]) = i /\ i # <<>>
<1>1. Len(lines) \in Nat /\ k \in Nat /\ k \in 1..(Len(lines) + 1)
  BY LenProperties DEF LinesAreText
<1>2. /\ Len(full) \in Nat /\ \A d \in 1..Len(full) : full[d] \in 1..(k - 1) /\ IsOpen(full[d], k)
      /\ Len(full) = 0 => k = 1 \/ IsBlank(k - 1)
      /\ Len(full) > 0 => k > 1 /\ ~IsBlank(k - 1)
  BY <1>1, ChainIs
<1>3. Len(full) > 0 => full[Len(full)] = k - 1
  BY DEF Chain
<1>4. \A j \in Numbers(k) : IsOpen(j, k) <=> \E d \in 1..Len(full) : full[d] = j
  BY DEF Chain, Numbers
<1>5. \A d \in 1..Len(full) : full[d] \in Numbers(k)
  BY <1>2 DEF Numbers
<1>6. (k > 1 /\ ~IsBlank(k - 1) /\ Strictly(Indent(k - 1), Indent(k)))
        <=> (Len(full) > 0 /\ Strictly(Indent(full[Len(full)]), Indent(k)))
  BY <1>1, <1>2, <1>3
<1>7. (\E j \in Numbers(k) : IsOpen(j, k) /\ Indent(j) = Indent(k))
        <=> \E d \in 1..Len(full) : Indent(full[d]) = Indent(k)
  BY <1>4, <1>5
<1>8. \A i : i \in IndentsAtLine(k) <=> \E j \in Numbers(k) : IsOpen(j, k) /\ Indent(j) # <<>> /\ i = Indent(j)
  BY DEF IndentsAtLine
<1>9. \A i : i \in IndentsAtLine(k) <=> \E d \in 1..Len(full) : Indent(full[d]) = i /\ i # <<>>
  BY <1>4, <1>5, <1>8
<1>10. WellIndented(k) <=>
          \/ Indent(k) = <<>>
          \/ k > 1 /\ ~IsBlank(k - 1) /\ Strictly(Indent(k - 1), Indent(k))
          \/ \E j \in Numbers(k) : IsOpen(j, k) /\ Indent(j) = Indent(k)
  BY DEF WellIndented
<1>11. QED
  BY <1>6, <1>7, <1>9, <1>10

\* An indented line has nowhere to go if no line is open.
LEMMA NothingIsOpen ==
  ASSUME LinesAreText, NEW k \in 1..Len(lines), NEW full, Chain(full, k), Len(full) = 0,
         Indent(k) # <<>>
  PROVE  ~WellIndented(k) /\ Verdict(k) = "error"
<1>1. \A d \in 1..Len(full) : FALSE
  OBVIOUS
<1>2. ~(Len(full) > 0)
  OBVIOUS
<1>3. ~WellIndented(k)
  BY <1>1, <1>2, IndentationIs
<1>4. \A i : i \notin IndentsAtLine(k)
  BY <1>1, IndentationIs
<1>5. IndentsAtLine(k) = {}
  BY <1>4
<1>6. QED
  BY <1>3, <1>5 DEF Verdict

\* The open lines are indented ever further.
LEMMA ChainLengths ==
  ASSUME LinesAreText, NEW k \in 1..Len(lines), NEW full, Chain(full, k),
         NEW c \in 1..Len(full), NEW d \in 1..Len(full), c < d
  PROVE  /\ Strictly(Indent(full[c]), Indent(full[d]))
         /\ Len(Indent(full[c])) < Len(Indent(full[d])) /\ Indent(full[d]) # <<>>
<1>1. Len(lines) \in Nat /\ k \in 1..(Len(lines) + 1)
  BY LenProperties DEF LinesAreText
<1>2. Indent(full[c]) \in Text /\ Indent(full[d]) \in Text
  BY <1>1, ChainIs
<1>3. Strictly(Indent(full[c]), Indent(full[d]))
  BY DEF Chain
<1>4. QED
  BY <1>2, <1>3, StrictlyOrders, Unindented

\* A line that is indented less than the last open line goes below the d-th open
\* line if it is indented further than that and not further than the next.
LEMMA GoesBelowIs ==
  ASSUME LinesAreText, NEW k \in 1..Len(lines), NEW full, Chain(full, k),
         NEW d \in 1..Len(full), Strictly(Indent(full[d]), Indent(k)),
         \A c \in 1..Len(full) : c > d => Indent(full[c]) = Indent(k) \/ Strictly(Indent(k), Indent(full[c]))
  PROVE  GoesBelow(full, k, d)
<1>1. Len(lines) \in Nat /\ k \in 1..(Len(lines) + 1)
  BY LenProperties DEF LinesAreText
<1>2. Len(full) \in Nat /\ Indent(k) \in Text /\ \A c \in 1..Len(full) : Indent(full[c]) \in Text
  BY <1>1, ChainIs, LineIs
<1>3. Len(Indent(k)) \in Nat /\ \A c \in 1..Len(full) : Len(Indent(full[c])) \in Nat
  BY <1>2, LenProperties DEF Text
<1>4. ASSUME NEW c \in (d + 1)..Len(full) PROVE ~(Len(Indent(k)) > Len(Indent(full[c])))
  <2>1. c \in 1..Len(full) /\ c > d
    BY <1>2
  <2>2. Indent(full[c]) = Indent(k) \/ Len(Indent(k)) < Len(Indent(full[c]))
    BY <1>2, <2>1, StrictlyOrders
  <2>3. QED
    BY <1>3, <2>1, <2>2
<1>5. d \in 0..Len(full) /\ d # 0
  BY <1>2
<1>6. QED
  BY <1>4, <1>5 DEF GoesBelow

\* The first look at line k: the last level is the previous line.
LEMMA FirstLookIs ==
  ASSUME LinesAreText, NEW k \in 1..Len(lines), NEW full, NEW stack, Starts(stack, full, k),
         Len(stack) > 0, Indent(k) # <<>>
  PROVE  LET ordering == CompareIndentations(stack[Len(stack) - 1].childrenIndentation, Indent(k))
         IN  /\ Len(stack) = 1 => Goes(<<[stack[1] EXCEPT !.childrenIndentation = Indent(k)]>>, full, k)
             /\ Len(stack) # 1 =>
                  /\ ordering = "Less" => Goes(stack, full, k)
                  /\ ordering = "Equal" => Goes(Front(stack), full, k)
                  /\ ordering = "Greater" => Looks(Front(stack), full, k)
                  /\ ordering \notin {"Less", "Equal", "Greater"} =>
                       ~WellIndented(k) /\ Verdict(k) = "error"
<1> DEFINE n == Len(stack)
           last == Indent(full[n])
           ordering == CompareIndentations(stack[n - 1].childrenIndentation, Indent(k))
<1>1. /\ Chain(full, k) /\ Mirrors(stack, full) /\ n = Len(full)
      /\ stack[n].childrenIndentation = Unset
  BY DEF Starts
<1>2. /\ n \in Nat /\ k \in Nat /\ Indent(k) \in Text /\ n \in 1..n /\ n \in 1..Len(full)
      /\ \A d \in 1..n : Indent(full[d]) \in Text /\ stack[d] \in Levels
      /\ full[n] = k - 1
  BY <1>1, MirrorsIs
<1>3. \A c \in 1..Len(full) : ~(c > n)
  BY <1>1, <1>2
<1>4. CASE n = 1
  <2> DEFINE top == [stack[1] EXCEPT !.childrenIndentation = Indent(k)]
  <2>1. last = <<>>
    BY <1>1, <1>4 DEF Chain
  <2>2. Strictly(last, Indent(k))
    BY <1>2, <2>1, Unindented
  <2>3. GoesBelow(full, k, n)
    BY <1>1, <1>2, <1>3, <2>2, GoesBelowIs
  <2>4. WellIndented(k)
    BY <1>1, <1>4, <2>2, IndentationIs
  <2>5. top \in Levels /\ top.node = stack[1].node /\ top.childrenIndentation = Indent(k)
    BY <1>2, <1>4 DEF Levels
  <2> HIDE DEF top
  <2>6. <<top>> \in Seq(Levels) /\ Len(<<top>>) = 1 /\ <<top>>[1] = top
    BY <2>5
  <2>7. stack[1].node = full[1] /\ 1 <= Len(full)
    BY <1>1, <1>2, <1>4 DEF Mirrors
  <2>8. \A d \in 1..1 : d = 1 /\ ~(d < 1)
    OBVIOUS
  <2>9. Mirrors(<<top>>, full)
    BY <2>5, <2>6, <2>7, <2>8 DEF Mirrors
  <2>10. Goes(<<top>>, full, k)
    BY <1>1, <1>4, <2>3, <2>4, <2>5, <2>6, <2>9 DEF Goes
  <2>11. QED
    BY <1>4, <2>10 DEF top
<1>5. CASE n # 1
  <2>1. n > 1 /\ n - 1 \in 1..n /\ n - 1 < n /\ n - 1 \in 1..Len(full) /\ (n - 1) + 1 = n
    BY <1>1, <1>2, <1>5
  <2>2. stack[n - 1].childrenIndentation = last
    BY <1>1, <2>1 DEF Mirrors
  <2>3. /\ ordering = "Equal" <=> last = Indent(k)
        /\ ordering = "Less" <=> Strictly(last, Indent(k))
        /\ ordering = "Greater" <=> Strictly(Indent(k), last)
        /\ last \in Text
    BY <1>2, <2>2, CompareIs
  <2>4. Strictly(Indent(full[n - 1]), last)
    BY <1>1, <1>2, <2>1, ChainLengths
  <2>5. ASSUME ordering = "Less" PROVE Goes(stack, full, k)
    <3>1. GoesBelow(full, k, n)
      BY <1>1, <1>2, <1>3, <2>3, <2>5, GoesBelowIs
    <3>2. WellIndented(k)
      BY <1>1, <1>2, <2>3, <2>5, IndentationIs
    <3>3. QED
      BY <1>1, <3>1, <3>2 DEF Goes
  <2>6. /\ Mirrors(Front(stack), full) /\ Len(Front(stack)) = n - 1
        /\ Front(stack)[n - 1].childrenIndentation = last
    BY <1>1, <2>1, FrontMirrors
  <2>7. ASSUME ordering = "Equal" PROVE Goes(Front(stack), full, k)
    <3>1. \A c \in 1..Len(full) : c > n - 1 => c = n
      BY <1>1, <1>2
    <3>2. Strictly(Indent(full[n - 1]), Indent(k)) /\ last = Indent(k)
      BY <2>3, <2>4, <2>7
    <3>3. GoesBelow(full, k, n - 1)
      BY <1>1, <2>1, <3>1, <3>2, GoesBelowIs
    <3>4. WellIndented(k)
      BY <1>1, <1>2, <3>2, IndentationIs
    <3>5. QED
      BY <1>1, <2>6, <3>2, <3>3, <3>4 DEF Goes
  <2>8. ASSUME ordering = "Greater" PROVE Looks(Front(stack), full, k)
    <3>1. \A d \in 1..Len(full) : d = Len(full) \/ d > (n - 1) + 1 => d = n
      BY <1>1, <1>2
    <3>2. \A d \in 1..Len(full) : d = Len(full) \/ d > (n - 1) + 1 => Strictly(Indent(k), Indent(full[d]))
      BY <2>3, <2>8, <3>1
    <3>3. Len(Front(stack)) < Len(full)
      BY <1>1, <1>2, <2>6
    <3>4. QED
      BY <1>1, <2>1, <2>6, <3>2, <3>3 DEF Looks
  <2>9. ASSUME ordering \notin {"Less", "Equal", "Greater"} PROVE ~WellIndented(k) /\ Verdict(k) = "error"
    <3>1. last # Indent(k) /\ ~Strictly(last, Indent(k)) /\ ~Strictly(Indent(k), last)
      BY <2>3, <2>9
    <3>2. ASSUME NEW d \in 1..Len(full) PROVE Indent(full[d]) # Indent(k)
      <4>1. d = n \/ (d \in 1..Len(full) /\ d < n)
        BY <1>1, <1>2
      <4>2. d = n \/ Strictly(Indent(full[d]), last)
        BY <1>1, <1>2, <4>1, ChainLengths
      <4>3. QED
        BY <3>1, <4>2
    <3>3. ~WellIndented(k)
      BY <1>1, <3>1, <3>2, IndentationIs
    <3>4. ~Strictly(Indent(k), Indent(k - 1))
      BY <1>2, <3>1
    <3>5. QED
      BY <3>3, <3>4 DEF Verdict
  <2>10. QED
    BY <1>5, <2>5, <2>7, <2>8, <2>9
<1>6. QED
  BY <1>4, <1>5

\* No open line is indented like a line that falls between two.
LEMMA FallsBetween ==
  ASSUME LinesAreText, NEW k \in 1..Len(lines), NEW full, Chain(full, k), NEW m \in 1..Len(full),
         m = 1 \/ Strictly(Indent(full[m]), Indent(k)), Indent(k) # <<>>,
         \A d \in 1..Len(full) : d = Len(full) \/ d > m => Strictly(Indent(k), Indent(full[d]))
  PROVE  /\ ~WellIndented(k) /\ m < Len(full)
         /\ \A d \in 1..Len(full) : d <= m => ~Strictly(Indent(k), Indent(full[d]))
         /\ IndentsAtLine(k) # {} /\ Strictly(Indent(k), Indent(k - 1))
<1> DEFINE n == Len(full)
<1>1. Len(lines) \in Nat /\ k \in Nat /\ k \in 1..(Len(lines) + 1)
  BY LenProperties DEF LinesAreText
<1>2. n \in Nat /\ \A d \in 1..n : Indent(full[d]) \in Text
  BY <1>1, ChainIs
<1>3. Indent(k) \in Text /\ n \in 1..n /\ m \in Nat
  BY <1>2, LineIs
<1>4. full[n] = k - 1 /\ Indent(full[1]) = <<>>
  BY <1>2 DEF Chain
<1>5. Strictly(Indent(full[m]), Indent(k))
  BY <1>3, <1>4, Unindented
<1>6. \A d \in 1..n : d <= m => Strictly(Indent(full[d]), Indent(k))
  <2>1. TAKE d \in 1..n
  <2>2. HAVE d <= m
  <2>3. d = m \/ d < m
    BY <1>3, <2>2
  <2>4. d = m \/ Strictly(Indent(full[d]), Indent(full[m]))
    BY <2>3, ChainLengths
  <2>5. QED
    BY <1>2, <1>3, <1>5, <2>4, StrictlyOrders
<1>7. \A d \in 1..n : d <= m => ~Strictly(Indent(k), Indent(full[d])) /\ Indent(full[d]) # Indent(k)
  BY <1>2, <1>3, <1>6, StrictlyOrders
<1>8. \A d \in 1..n : d > m => Strictly(Indent(k), Indent(full[d])) /\ Indent(full[d]) # Indent(k)
  BY <1>2, <1>3, StrictlyOrders
<1>9. \A d \in 1..n : Indent(full[d]) # Indent(k)
  <2>1. \A d \in 1..n : d <= m \/ d > m
    BY <1>3
  <2>2. QED
    BY <1>7, <1>8, <2>1
<1>10. Strictly(Indent(k), Indent(full[n]))
  BY <1>3
<1>11. m < n
  BY <1>3, <1>7, <1>10
<1>12. ~Strictly(Indent(full[n]), Indent(k)) /\ Indent(full[n]) # <<>>
  BY <1>2, <1>3, <1>10, StrictlyOrders, Unindented
<1>13. ~WellIndented(k)
  BY <1>9, <1>12, IndentationIs
<1>14. Indent(full[n]) \in IndentsAtLine(k)
  BY <1>3, <1>12, IndentationIs
<1>15. QED
  BY <1>4, <1>7, <1>10, <1>11, <1>13, <1>14

\* Another look, at a level that has children.
LEMMA LookBackIs ==
  ASSUME LinesAreText, NEW k \in 1..Len(lines), NEW full, NEW stack, Looks(stack, full, k),
         Len(stack) > 0, Line(k).ok, ~IsBlank(k)
  PROVE  LET ordering == CompareIndentations(stack[Len(stack)].childrenIndentation, Indent(k))
         IN  /\ ordering \in {"Less", "Equal", "Greater"}
             /\ stack[Len(stack)].childrenIndentation # Unset
             /\ ordering = "Less" => ~WellIndented(k) /\ Verdict(k) = "internal"
             /\ ordering = "Equal" => Goes(stack, full, k)
             /\ ordering = "Greater" => Looks(Front(stack), full, k)
<1> DEFINE m == Len(stack)
           n == Len(full)
           next == Indent(full[m + 1])
           ordering == CompareIndentations(stack[m].childrenIndentation, Indent(k))
<1>1. /\ Chain(full, k) /\ Mirrors(stack, full) /\ m < n /\ Indent(k) # <<>>
      /\ stack[m].childrenIndentation = next
      /\ \A d \in 1..n : d = n \/ d > m + 1 => Strictly(Indent(k), Indent(full[d]))
  BY DEF Looks
<1>2. /\ m \in Nat /\ n \in Nat /\ Indent(k) \in Text
      /\ \A d \in 1..n : Indent(full[d]) \in Text
  BY <1>1, MirrorsIs
<1>3. m \in 1..n /\ m + 1 \in 1..n /\ n \in 1..n /\ m < m + 1
  BY <1>1, <1>2
<1>4. Strictly(Indent(full[m]), next) /\ next # <<>> /\ next \in Text
  BY <1>1, <1>2, <1>3, ChainLengths
<1>5. /\ ordering = "Equal" <=> next = Indent(k)
      /\ ordering = "Less" <=> Strictly(next, Indent(k))
      /\ ordering = "Greater" <=> Strictly(Indent(k), next)
  BY <1>1, <1>2, <1>4, CompareIs
<1>6. next = Indent(k) \/ Strictly(next, Indent(k)) \/ Strictly(Indent(k), next)
  <2>1. Strictly(Indent(k), Indent(full[n]))
    BY <1>1, <1>3
  <2>2. m + 1 = n \/ m + 1 < n
    BY <1>1, <1>2
  <2>3. m + 1 = n \/ Strictly(next, Indent(full[n]))
    BY <1>1, <1>3, <2>2, ChainLengths
  <2>4. QED
    BY <1>2, <1>3, <2>1, <2>3, StrictlyOrders
<1>7. ASSUME ordering = "Less" PROVE ~WellIndented(k) /\ Verdict(k) = "internal"
  <2>1. Strictly(next, Indent(k))
    BY <1>5, <1>7
  <2>2. /\ ~WellIndented(k) /\ ~Strictly(Indent(k), next)
        /\ IndentsAtLine(k) # {} /\ Strictly(Indent(k), Indent(k - 1))
    BY <1>1, <1>2, <1>3, <2>1, FallsBetween
  <2>3. next \in IndentsAtLine(k)
    BY <1>1, <1>3, <1>4, IndentationIs
  <2>4. QED
    BY <2>2, <2>3 DEF Verdict
<1>8. ASSUME ordering = "Equal" PROVE Goes(stack, full, k)
  <2>1. next = Indent(k) /\ Strictly(Indent(full[m]), Indent(k))
    BY <1>4, <1>5, <1>8
  <2>2. \A c \in 1..n : c > m => c = m + 1 \/ c > m + 1
    BY <1>2
  <2>3. \A c \in 1..n : c > m => Indent(full[c]) = Indent(k) \/ Strictly(Indent(k), Indent(full[c]))
    BY <1>1, <2>1, <2>2
  <2>4. GoesBelow(full, k, m)
    BY <1>1, <1>3, <2>1, <2>3, GoesBelowIs
  <2>5. WellIndented(k)
    BY <1>1, <1>3, <2>1, IndentationIs
  <2>6. QED
    BY <1>1, <2>1, <2>4, <2>5 DEF Goes
<1>9. ASSUME ordering = "Greater" PROVE Looks(Front(stack), full, k)
  <2>1. Strictly(Indent(k), next)
    BY <1>5, <1>9
  <2>2. /\ Mirrors(Front(stack), full) /\ Len(Front(stack)) = m - 1
        /\ m > 1 => Front(stack)[m - 1].childrenIndentation = Indent(full[m])
    BY <1>1, FrontMirrors
  <2>3. \A d \in 1..n : d = n \/ d > (m - 1) + 1 => d = n \/ d > m + 1 \/ d = m + 1
    BY <1>2
  <2>4. \A d \in 1..n : d = n \/ d > (m - 1) + 1 => Strictly(Indent(k), Indent(full[d]))
    BY <1>1, <2>1, <2>3
  <2>5. m - 1 < n /\ (m - 1) + 1 = m /\ (m - 1 > 0 => m > 1)
    BY <1>1, <1>2
  <2>6. QED
    BY <1>1, <2>2, <2>4, <2>5 DEF Looks
<1>10. QED
  BY <1>1, <1>4, <1>5, <1>6, <1>7, <1>8, <1>9 DEF Unset

\* No level is left to look at.
LEMMA LookNowhere ==
  ASSUME LinesAreText, NEW k \in 1..Len(lines), NEW full, NEW stack, Looks(stack, full, k),
         Len(stack) = 0, Line(k).ok, ~IsBlank(k)
  PROVE  ~WellIndented(k) /\ Verdict(k) = "undefined"
<1> DEFINE n == Len(full)
<1>1. /\ Chain(full, k) /\ Mirrors(stack, full) /\ n > 0 /\ Indent(k) # <<>>
      /\ \A d \in 1..n : d = n \/ d > 1 => Strictly(Indent(k), Indent(full[d]))
  BY DEF Looks
<1>2. /\ n \in Nat /\ \A d \in 1..n : Indent(full[d]) \in Text
  BY <1>1, MirrorsIs
<1>3. 1 \in 1..n
  BY <1>1, <1>2
<1>4. ~WellIndented(k) /\ IndentsAtLine(k) # {} /\ Strictly(Indent(k), Indent(k - 1))
  BY <1>1, <1>3, FallsBetween
<1>5. \A i \in IndentsAtLine(k) : Strictly(Indent(k), i)
  <2>1. TAKE i \in IndentsAtLine(k)
  <2>2. PICK d \in 1..n : Indent(full[d]) = i /\ i # <<>>
    BY <1>1, IndentationIs
  <2>3. d # 1
    BY <1>1, <2>2 DEF Chain
  <2>4. d > 1
    BY <2>3
  <2>5. QED
    BY <1>1, <2>2, <2>4
<1>6. QED
  BY <1>4, <1>5 DEF Verdict

\* Once line k has its place, it is the innermost open line.
LEMMA GoesOn ==
  ASSUME LinesAreText, NEW k \in 1..Len(lines), NEW full, NEW stack, Goes(stack, full, k),
         ~IsBlank(k)
  PROVE  LET d == Len(stack)
             next == [c \in 1..(d + 1) |-> IF c = d + 1 THEN k ELSE full[c]]
         IN  /\ d = 0 <=> Indent(k) = <<>>
             /\ Parent(k) = IF d = 0 THEN 0 ELSE stack[d].node
             /\ d = 0 => Starts(<<Level(k)>>, next, k + 1)
             /\ d # 0 => Starts([stack EXCEPT ![d].childrenIndentation = Indent(k)]
                                  \o <<Level(k)>>, next, k + 1)
<1> DEFINE d == Len(stack)
           next == [c \in 1..(d + 1) |-> IF c = d + 1 THEN k ELSE full[c]]
<1>1. Chain(full, k) /\ Mirrors(stack, full) /\ GoesBelow(full, k, d)
  BY DEF Goes
<1>2. /\ d \in Nat /\ d <= Len(full) /\ Len(full) \in Nat /\ k \in Nat /\ Indent(k) \in Text
      /\ \A c \in 1..d : stack[c] \in Levels /\ stack[c].node = full[c]
      /\ \A c \in 1..Len(full) : Indent(full[c]) \in Text
  BY <1>1, MirrorsIs
<1>3. d = 0 <=> Indent(k) = <<>>
  <2>1. d = 0 => Indent(k) = <<>>
    BY <1>1 DEF GoesBelow
  <2>2. d # 0 => d \in 1..Len(full) /\ Strictly(Indent(full[d]), Indent(k))
    BY <1>1, <1>2 DEF GoesBelow
  <2>3. d # 0 => Indent(k) # <<>>
    BY <1>2, <2>2, Unindented
  <2>4. QED
    BY <2>1, <2>3
<1>4. Parent(k) = IF d = 0 THEN 0 ELSE stack[d].node
  <2>1. Parent(k) = IF d = 0 THEN 0 ELSE full[d]
    BY <1>1, ParentIs
  <2>2. d # 0 => d \in 1..d
    BY <1>2
  <2>3. QED
    BY <1>2, <2>1, <2>2
<1>5. Chain(next, k + 1) /\ Len(next) = d + 1 /\ next[d + 1] = k /\ \A c \in 1..d : next[c] = full[c]
  <2>1. Chain(next, k + 1)
    BY <1>1, ChainNext
  <2>2. d + 1 \in Nat /\ d + 1 \in 1..(d + 1) /\ \A c \in 1..d : c \in 1..(d + 1) /\ c # d + 1
    BY <1>2
  <2>3. next[d + 1] = k /\ \A c \in 1..d : next[c] = full[c]
    BY <2>2
  <2>4. next \in Seq(1..((k + 1) - 1)) /\ DOMAIN next = 1..(d + 1)
    BY <2>1 DEF Chain
  <2>5. Len(next) = d + 1
    BY <2>2, <2>4, LenProperties
  <2>6. QED
    BY <2>1, <2>3, <2>5
<1> HIDE DEF next
<1>6. Level(k) \in Levels /\ Level(k).node = k /\ Level(k).childrenIndentation = Unset
  BY <1>2, EmptySeq DEF Level, Levels, Unset, Text
<1>7. CASE d = 0
  <2>1. <<Level(k)>> \in Seq(Levels) /\ Len(<<Level(k)>>) = 1 /\ <<Level(k)>>[1] = Level(k)
    BY <1>6
  <2>2. \A c \in 1..1 : c = 1 /\ ~(c < 1)
    OBVIOUS
  <2>3. Mirrors(<<Level(k)>>, next)
    BY <1>5, <1>6, <1>7, <2>1, <2>2 DEF Mirrors
  <2>4. Starts(<<Level(k)>>, next, k + 1)
    BY <1>5, <1>6, <1>7, <2>1, <2>3 DEF Starts
  <2>5. QED
    BY <1>3, <1>4, <1>7, <2>4 DEF next
<1>8. CASE d # 0
  <2> DEFINE top == [stack[d] EXCEPT !.childrenIndentation = Indent(k)]
             below == [stack EXCEPT ![d] = top]
             whole == below \o <<Level(k)>>
  <2>1. d \in 1..d /\ d + 1 \in 1..(d + 1) /\ stack \in Seq(Levels) /\ DOMAIN stack = 1..d
    BY <1>1, <1>2, <1>8, LenProperties DEF Mirrors
  <2>2. top \in Levels /\ top.node = stack[d].node /\ top.childrenIndentation = Indent(k)
    BY <1>2, <2>1 DEF Levels
  <2> HIDE DEF top
  <2>3. below \in Seq(Levels) /\ Len(below) = d /\ below[d] = top /\ \A c \in 1..d : c # d => below[c] = stack[c]
    BY <2>1, <2>2, ExceptSeq
  <2> HIDE DEF below
  <2>4. <<Level(k)>> \in Seq(Levels) /\ Len(<<Level(k)>>) = 1 /\ <<Level(k)>>[1] = Level(k)
    BY <1>6
  <2>5. /\ whole \in Seq(Levels) /\ Len(whole) = d + 1 /\ whole[d + 1] = Level(k)
        /\ \A c \in 1..d : whole[c] = below[c]
    <3>1. /\ whole \in Seq(Levels) /\ Len(whole) = d + 1
          /\ \A c \in 1..(d + 1) : whole[c] = IF c <= d THEN below[c] ELSE <<Level(k)>>[c - d]
      BY <2>3, <2>4, ConcatProperties
    <3>2. ~(d + 1 <= d) /\ (d + 1) - d = 1 /\ \A c \in 1..d : c \in 1..(d + 1) /\ c <= d
      BY <1>2
    <3>3. QED
      BY <2>1, <2>4, <3>1, <3>2
  <2> HIDE DEF whole
  <2>6. ASSUME NEW c \in 1..(d + 1)
        PROVE  /\ whole[c].node = next[c]
               /\ c < d + 1 => whole[c].childrenIndentation = Indent(next[c + 1])
    <3>1. CASE c = d + 1
      BY <1>2, <1>5, <1>6, <2>5, <3>1
    <3>2. CASE c = d
      BY <1>2, <1>5, <2>1, <2>2, <2>3, <2>5, <3>2
    <3>3. CASE c < d
      <4>1. c \in 1..d /\ c # d /\ c + 1 \in 1..d
        BY <1>2, <3>3
      <4>2. whole[c] = stack[c] /\ stack[c].node = full[c] /\ next[c] = full[c] /\ next[c + 1] = full[c + 1]
        BY <1>2, <1>5, <2>3, <2>5, <4>1
      <4>3. stack[c].childrenIndentation = Indent(full[c + 1])
        BY <1>1, <3>3, <4>1 DEF Mirrors
      <4>4. QED
        BY <4>2, <4>3
    <3>4. QED
      BY <1>2, <3>1, <3>2, <3>3
  <2>7. Mirrors(whole, next)
    BY <1>2, <1>5, <2>5, <2>6 DEF Mirrors
  <2>8. Starts(whole, next, k + 1)
    BY <1>5, <1>6, <2>5, <2>7 DEF Starts
  <2>9. [stack EXCEPT ![d].childrenIndentation = Indent(k)] = below
    BY DEF below, top
  <2>10. QED
    BY <1>3, <1>4, <1>8, <2>8, <2>9 DEF whole, next
<1>9. QED
  BY <1>7, <1>8

-----------------------------------------------------------------------------
(* The tree.                                                               *)

Constructor == {c \in Text : Closed(c)}
Nodes == [name : Text, ctor : Constructor, field : Seq(Token), args : Seq(Nat)]

\* The lines above k have their nodes, each with the lines that go below it.
Placed(tree, k) ==
  /\ DOMAIN tree = {m \in 1..(k - 1) : ~IsBlank(m)}
  /\ \A m \in DOMAIN tree :
       tree[m] \in Nodes /\ InOrder(tree[m].args, Below(m, k)) /\ Parent(m) \in 0..(m - 1)

\* The variables and the other definitions above line k are known.
Defined(lineOf, others, k) ==
  /\ others \in Seq(Nat) /\ InOrder(others, Definitions(k))
  /\ DOMAIN lineOf = {VariableName(m) : m \in {m \in 1..(k - 1) : DefinesVariable(m)}}
  /\ \A m \in 1..(k - 1) : DefinesVariable(m) => lineOf[VariableName(m)] = m

\* A later line is put behind the earlier ones.
LEMMA AppendInOrder ==
  ASSUME NEW s \in Seq(Nat), NEW S, InOrder(s, S), NEW k \in Nat, \A m \in S : m < k
  PROVE  /\ Append(s, k) \in Seq(Nat) /\ InOrder(Append(s, k), S \cup {k})
         /\ Append(s, k) # <<>> /\ Last(Append(s, k)) = k
<1> DEFINE n == Len(s)
           t == Append(s, k)
<1>1. /\ n \in Nat /\ t \in Seq(Nat) /\ Len(t) = n + 1 /\ t[n + 1] = k
      /\ \A i \in 1..n : t[i] = s[i]
  BY AppendProperties
<1>2. DOMAIN s = 1..n /\ DOMAIN t = 1..(n + 1) /\ t # <<>>
  <2>1. Len(t) # 0
    BY <1>1
  <2>2. QED
    BY <1>1, <2>1, LenProperties, EmptySeq
<1> HIDE DEF t
<1>3. \A i \in 1..(n + 1) : i = n + 1 \/ i \in 1..n
  BY <1>1
<1>4. \A i \in 1..n : s[i] \in S /\ i \in 1..(n + 1)
  BY <1>1, <1>2 DEF InOrder, Range
<1>5. Range(t) = S \cup {k}
  <2>1. ASSUME NEW i \in 1..(n + 1) PROVE t[i] \in S \cup {k}
    BY <1>1, <1>3, <1>4
  <2>2. \A m \in S : \E i \in 1..n : s[i] = m
    BY <1>2 DEF InOrder, Range
  <2>3. \A m \in S : \E i \in 1..(n + 1) : t[i] = m
    BY <1>1, <1>4, <2>2
  <2>4. n + 1 \in 1..(n + 1)
    BY <1>1
  <2>5. \A m : m \in Range(t) <=> \E i \in 1..(n + 1) : t[i] = m
    BY <1>2 DEF Range
  <2>6. QED
    BY <1>1, <2>1, <2>3, <2>4, <2>5
<1>6. ASSUME NEW i \in 1..(n + 1), NEW j \in 1..(n + 1), i < j PROVE t[i] < t[j]
  <2>1. i \in 1..n
    BY <1>1, <1>6
  <2>2. CASE j = n + 1
    BY <1>1, <1>4, <2>1, <2>2
  <2>3. CASE j # n + 1
    <3>1. j \in 1..n
      BY <1>3, <2>3
    <3>2. s[i] < s[j]
      BY <1>2, <1>6, <2>1, <3>1 DEF InOrder
    <3>3. QED
      BY <1>1, <2>1, <3>1, <3>2
  <2>4. QED
    BY <2>2, <2>3
<1>7. InOrder(t, S \cup {k})
  BY <1>2, <1>5, <1>6 DEF InOrder
<1>8. Last(t) = k
  BY <1>1 DEF Last
<1>9. QED
  BY <1>1, <1>2, <1>7, <1>8 DEF t

\* There is an order of no lines.
LEMMA NothingInOrder == <<>> \in Seq(Nat) /\ InOrder(<<>>, {})
<1>1. <<>> \in Seq(Nat) /\ DOMAIN <<>> = {}
  BY EmptySeq, LenProperties
<1>2. Range(<<>>) = {}
  BY <1>1 DEF Range
<1>3. QED
  BY <1>1, <1>2 DEF InOrder

\* The lines that are placed after one more line.
LEMMA BelowNext ==
  ASSUME NEW k \in Nat \ {0}
  PROVE  /\ \A j : Below(j, k + 1) = IF ~IsBlank(k) /\ Parent(k) = j THEN Below(j, k) \cup {k} ELSE Below(j, k)
         /\ \A j : \A m \in Below(j, k) : m \in 1..(k - 1) /\ m < k
         /\ Definitions(k + 1) = IF ~IsBlank(k) /\ Parent(k) = 0 /\ ~DefinesVariable(k)
                                 THEN Definitions(k) \cup {k} ELSE Definitions(k)
         /\ \A m \in Definitions(k) : m < k
<1>1. \A m : m \in 1..((k + 1) - 1) <=> (m \in 1..(k - 1) \/ m = k)
  OBVIOUS
<1>2. k \notin 1..(k - 1) /\ \A m \in 1..(k - 1) : m < k
  OBVIOUS
<1>3. \A j, m : m \in Below(j, k + 1) <=> (m \in 1..(k - 1) \/ m = k) /\ ~IsBlank(m) /\ Parent(m) = j
  BY <1>1 DEF Below
<1>4. \A j, m : m \in Below(j, k) <=> m \in 1..(k - 1) /\ ~IsBlank(m) /\ Parent(m) = j
  BY DEF Below
<1>5. \A j : Below(j, k + 1) = IF ~IsBlank(k) /\ Parent(k) = j THEN Below(j, k) \cup {k} ELSE Below(j, k)
  BY <1>3, <1>4
<1>6. \A n, m : m \in Definitions(n) <=> m \in Below(0, n) /\ ~DefinesVariable(m)
  BY DEF Definitions
<1>7. Definitions(k + 1) = IF ~IsBlank(k) /\ Parent(k) = 0 /\ ~DefinesVariable(k)
                           THEN Definitions(k) \cup {k} ELSE Definitions(k)
  <2>1. \A m : m \in Below(0, k + 1) <=> m \in Below(0, k) \/ (~IsBlank(k) /\ Parent(k) = 0 /\ m = k)
    BY <1>5
  <2>2. QED
    BY <1>6, <2>1
<1>8. QED
  BY <1>2, <1>4, <1>5, <1>6, <1>7

\* A blank line places nothing.
LEMMA BlankPlaces ==
  ASSUME NEW k \in Nat \ {0}, IsBlank(k), NEW tree, Placed(tree, k), NEW lineOf, NEW others,
         Defined(lineOf, others, k)
  PROVE  Placed(tree, k + 1) /\ Defined(lineOf, others, k + 1)
<1>1. \A m : m \in 1..((k + 1) - 1) <=> (m \in 1..(k - 1) \/ m = k)
  OBVIOUS
<1>2. \A j : Below(j, k + 1) = Below(j, k)
  BY BelowNext
<1>3. Definitions(k + 1) = Definitions(k) /\ ~DefinesVariable(k)
  BY BelowNext DEF DefinesVariable
<1>4. {m \in 1..((k + 1) - 1) : ~IsBlank(m)} = {m \in 1..(k - 1) : ~IsBlank(m)}
  BY <1>1
<1>5. {m \in 1..((k + 1) - 1) : DefinesVariable(m)} = {m \in 1..(k - 1) : DefinesVariable(m)}
  BY <1>1, <1>3
<1>6. \A m \in 1..((k + 1) - 1) : DefinesVariable(m) => lineOf[VariableName(m)] = m
  BY <1>1, <1>3 DEF Defined
<1>7. Placed(tree, k + 1)
  BY <1>2, <1>4 DEF Placed
<1>8. Defined(lineOf, others, k + 1)
  BY <1>3, <1>5, <1>6 DEF Defined
<1>9. QED
  BY <1>7, <1>8

\* The node of a line is placed, as the last argument of its parent if it has one.
LEMMA NodePlaces ==
  ASSUME NEW k \in Nat \ {0}, ~IsBlank(k), NEW tree, Placed(tree, k),
         NEW node \in Nodes, node.args = <<>>
  PROVE  /\ Parent(k) = 0 => Placed(Put(tree, k, node), k + 1)
         /\ Parent(k) \in DOMAIN tree =>
              LET grown == Put([tree EXCEPT ![Parent(k)].args = Append(@, k)], k, node)
              IN  /\ Placed(grown, k + 1) /\ Last(grown[Parent(k)].args) = k
                  /\ \A m \in DOMAIN tree : m # Parent(k) => grown[m] = tree[m]
<1> DEFINE p == Parent(k)
<1>1. /\ \A m : m \in 1..((k + 1) - 1) <=> (m \in 1..(k - 1) \/ m = k)
      /\ \A m \in 1..(k - 1) : m # k
  OBVIOUS
<1>2. \A m : m \in DOMAIN tree <=> m \in 1..(k - 1) /\ ~IsBlank(m)
  BY DEF Placed
<1>3. ASSUME NEW t, DOMAIN t = DOMAIN tree, p \in 0..(k - 1),
             \A m \in DOMAIN tree : t[m] \in Nodes /\ InOrder(t[m].args, Below(m, k + 1))
      PROVE  Placed(Put(t, k, node), k + 1) /\ \A m \in DOMAIN tree : Put(t, k, node)[m] = t[m]
  <2> DEFINE all == Put(t, k, node)
  <2>1. DOMAIN all = {k} \cup DOMAIN tree
    BY <1>3 DEF Put
  <2>2. k \notin DOMAIN tree
    BY <1>1, <1>2
  <2>3. all[k] = node /\ \A m \in DOMAIN tree : all[m] = t[m]
    BY <1>3, <2>2 DEF Put
  <2> HIDE DEF all
  <2>4. DOMAIN all = {m \in 1..((k + 1) - 1) : ~IsBlank(m)}
    BY <1>1, <1>2, <2>1
  <2>5. InOrder(node.args, Below(k, k + 1))
    <3>1. Below(k, k) = {}
      <4>1. \A m \in DOMAIN tree : Parent(m) # k
        <5>1. \A m \in DOMAIN tree : Parent(m) \in 0..(m - 1) /\ m \in 1..(k - 1)
          BY <1>2 DEF Placed
        <5>2. \A m \in 1..(k - 1) : \A q \in 0..(m - 1) : q # k
          OBVIOUS
        <5>3. QED
          BY <5>1, <5>2
      <4>2. QED
        BY <1>2, <4>1 DEF Below
    <3>2. p # k
      BY <1>3
    <3>3. Below(k, k + 1) = {}
      BY <3>1, <3>2, BelowNext
    <3>4. QED
      BY <3>3, NothingInOrder
  <2>6. \A m \in DOMAIN all :
          all[m] \in Nodes /\ InOrder(all[m].args, Below(m, k + 1)) /\ Parent(m) \in 0..(m - 1)
    BY <1>3, <2>1, <2>3, <2>5 DEF Placed
  <2>7. Placed(all, k + 1)
    BY <2>4, <2>6 DEF Placed
  <2>8. QED
    BY <2>3, <2>7 DEF all
<1>4. ASSUME p = 0 PROVE Placed(Put(tree, k, node), k + 1)
  <2>1. 0 \in 0..(k - 1) /\ \A m \in DOMAIN tree : m # 0
    BY <1>2
  <2>2. \A m \in DOMAIN tree : Below(m, k + 1) = Below(m, k)
    BY <1>4, <2>1, BelowNext
  <2>3. \A m \in DOMAIN tree : tree[m] \in Nodes /\ InOrder(tree[m].args, Below(m, k + 1))
    BY <2>2 DEF Placed
  <2>4. QED
    BY <1>3, <1>4, <2>1, <2>3
<1>5. ASSUME p \in DOMAIN tree
      PROVE  LET grown == Put([tree EXCEPT ![p].args = Append(@, k)], k, node)
             IN  /\ Placed(grown, k + 1) /\ Last(grown[p].args) = k
                 /\ \A m \in DOMAIN tree : m # p => grown[m] = tree[m]
  <2> DEFINE s == tree[p].args
             t == [tree EXCEPT ![p].args = Append(@, k)]
  <2>1. p \in 1..(k - 1) /\ p \in 0..(k - 1)
    BY <1>2, <1>5
  <2>2. tree[p] \in Nodes /\ s \in Seq(Nat) /\ InOrder(s, Below(p, k))
    BY <1>5 DEF Placed, Nodes
  <2>3. Append(s, k) \in Seq(Nat) /\ InOrder(Append(s, k), Below(p, k) \cup {k}) /\ Last(Append(s, k)) = k
    <3>1. \A m \in Below(p, k) : m < k
      BY BelowNext
    <3> HIDE DEF s
    <3>2. QED
      BY <2>2, <3>1, AppendInOrder
  <2>4. /\ DOMAIN t = DOMAIN tree
        /\ t[p] = [tree[p] EXCEPT !.args = Append(s, k)]
        /\ \A m \in DOMAIN tree : m # p => t[m] = tree[m]
    BY <1>5
  <2> HIDE DEF t, s
  <2>5. t[p] \in Nodes /\ t[p].args = Append(s, k)
    BY <2>2, <2>3, <2>4 DEF Nodes
  <2>6. Below(p, k + 1) = Below(p, k) \cup {k} /\ \A m : m # p => Below(m, k + 1) = Below(m, k)
    BY BelowNext
  <2>7. \A m \in DOMAIN tree : t[m] \in Nodes /\ InOrder(t[m].args, Below(m, k + 1))
    <3>1. TAKE m \in DOMAIN tree
    <3>2. CASE m = p
      BY <2>3, <2>5, <2>6, <3>2
    <3>3. CASE m # p
      BY <2>4, <2>6, <3>3 DEF Placed
    <3>4. QED
      BY <3>2, <3>3
  <2>8. Placed(Put(t, k, node), k + 1) /\ \A m \in DOMAIN tree : Put(t, k, node)[m] = t[m]
    BY <1>3, <2>1, <2>4, <2>7
  <2>9. QED
    BY <1>5, <2>3, <2>4, <2>5, <2>8 DEF t
<1>6. QED
  BY <1>4, <1>5

\* A definition at the top level is known from then on.
LEMMA TopLevelDefines ==
  ASSUME NEW k \in Nat \ {0}, ~IsBlank(k), NEW lineOf, NEW others, Defined(lineOf, others, k)
  PROVE  /\ DefinesVariable(k) /\ VariableName(k) \notin DOMAIN lineOf =>
              LET known == Put(lineOf, VariableName(k), k)
              IN  Defined(known, others, k + 1) /\ known[VariableName(k)] = k
                  /\ VariableName(k) \in DOMAIN known
         /\ ~DefinesVariable(k) /\ Parent(k) # 0 => Defined(lineOf, others, k + 1)
         /\ ~DefinesVariable(k) /\ Parent(k) = 0 =>
              /\ Defined(lineOf, Append(others, k), k + 1)
              /\ Append(others, k) # <<>> /\ Last(Append(others, k)) = k
<1>1. \A m : m \in 1..((k + 1) - 1) <=> (m \in 1..(k - 1) \/ m = k)
  OBVIOUS
<1>2. ~DefinesVariable(k) =>
        /\ {m \in 1..((k + 1) - 1) : DefinesVariable(m)} = {m \in 1..(k - 1) : DefinesVariable(m)}
        /\ \A m \in 1..((k + 1) - 1) : DefinesVariable(m) => lineOf[VariableName(m)] = m
  BY <1>1 DEF Defined
<1>3. ASSUME ~DefinesVariable(k), Parent(k) # 0 PROVE Defined(lineOf, others, k + 1)
  <2>1. Definitions(k + 1) = Definitions(k)
    BY <1>3, BelowNext
  <2>2. QED
    BY <1>2, <1>3, <2>1 DEF Defined
<1>4. ASSUME ~DefinesVariable(k), Parent(k) = 0
      PROVE  /\ Defined(lineOf, Append(others, k), k + 1)
             /\ Append(others, k) # <<>> /\ Last(Append(others, k)) = k
  <2>1. Definitions(k + 1) = Definitions(k) \cup {k} /\ \A m \in Definitions(k) : m < k
    BY <1>4, BelowNext
  <2>2. others \in Seq(Nat) /\ InOrder(others, Definitions(k))
    BY DEF Defined
  <2>3. /\ Append(others, k) \in Seq(Nat) /\ InOrder(Append(others, k), Definitions(k) \cup {k})
        /\ Append(others, k) # <<>> /\ Last(Append(others, k)) = k
    BY <2>1, <2>2, AppendInOrder
  <2>4. QED
    BY <1>2, <1>4, <2>1, <2>3 DEF Defined
<1>5. ASSUME DefinesVariable(k), VariableName(k) \notin DOMAIN lineOf
      PROVE  LET known == Put(lineOf, VariableName(k), k)
             IN  Defined(known, others, k + 1) /\ known[VariableName(k)] = k
                 /\ VariableName(k) \in DOMAIN known
  <2> DEFINE known == Put(lineOf, VariableName(k), k)
  <2>1. DOMAIN known = {VariableName(k)} \cup DOMAIN lineOf
    BY DEF Put
  <2>2. known[VariableName(k)] = k
    BY DEF Put
  <2>3. \A v \in DOMAIN lineOf : known[v] = lineOf[v]
    BY <1>5 DEF Put
  <2> HIDE DEF known
  <2>4. Definitions(k + 1) = Definitions(k)
    BY <1>5, BelowNext
  <2>5. \A v : v \in DOMAIN lineOf <=> \E m \in 1..(k - 1) : DefinesVariable(m) /\ v = VariableName(m)
    BY DEF Defined
  <2>6. DOMAIN known = {VariableName(m) : m \in {m \in 1..((k + 1) - 1) : DefinesVariable(m)}}
    <3>1. \A v : v \in DOMAIN known <=>
             \E m \in 1..((k + 1) - 1) : DefinesVariable(m) /\ v = VariableName(m)
      BY <1>1, <1>5, <2>1, <2>5
    <3>2. QED
      BY <3>1
  <2>7. \A m \in 1..((k + 1) - 1) : DefinesVariable(m) => known[VariableName(m)] = m
    <3>1. TAKE m \in 1..((k + 1) - 1)
    <3>2. HAVE DefinesVariable(m)
    <3>3. CASE m = k
      BY <2>2, <3>3
    <3>4. CASE m # k
      <4>1. m \in 1..(k - 1) /\ VariableName(m) \in DOMAIN lineOf
        BY <1>1, <2>5, <3>2, <3>4
      <4>2. lineOf[VariableName(m)] = m
        BY <3>2, <4>1 DEF Defined
      <4>3. QED
        BY <2>3, <4>1, <4>2
    <3>5. QED
      BY <3>3, <3>4
  <2>8. Defined(known, others, k + 1)
    BY <2>4, <2>6, <2>7 DEF Defined
  <2>9. QED
    BY <2>1, <2>2, <2>8 DEF known
<1>6. QED
  BY <1>3, <1>4, <1>5

-----------------------------------------------------------------------------
(* The line under way and the pointers on the stack.                       *)

\* The line under way, once it has tokens.
LEMMA TokensAre ==
  ASSUME LinesAreText, NEW k \in 1..Len(lines), tokenizedLine = Line(k), Line(k).ok, ~IsBlank(k)
  PROVE  /\ indentation = Indent(k) /\ (IsVariable <=> DefinesVariable(k))
         /\ TokensInOrder => NodeOfLine \in Nodes /\ NodeOfLine.args = <<>>
         /\ DefinesVariable(k) => NodeOfLine.name = VariableName(k)
         /\ GoodLine(k) <=>
              /\ WellIndented(k) /\ TokensInOrder
              /\ IsVariable => /\ Indent(k) = <<>>
                               /\ \A j \in Numbers(k) :
                                    DefinesVariable(j) => VariableName(j) # VariableName(k)
<1> DEFINE first == tokens[1]
<1>1. tokens = Line(k).tokens /\ tokens \in Seq(Token) /\ tokens # <<>> /\ indentation = Indent(k)
  BY LineIs DEF tokens, indentation, Indent, IsBlank
<1>2. Len(tokens) \in Nat /\ Len(tokens) > 0 /\ \A i \in 1..Len(tokens) : tokens[i] \in Token
  BY <1>1, LenProperties, EmptySeq, ElementOfSeq
<1>a. \A n \in Nat : n > 0 =>
        /\ n # 1 => 2 \in 1..n
        /\ n \in 2..3 <=> n # 1 /\ n <= 3
        /\ n \in 1..3 <=> n <= 3
  OBVIOUS
<1>3. first \in Text /\ first # <<>> /\ first \in Seq(STRING)
  BY <1>2 DEF Token, Text
<1>4. IsVariable <=> DefinesVariable(k)
  BY <1>1 DEF IsVariable, DefinesVariable, IsBlank
<1>5. GoodLine(k) <=>
        /\ WellIndented(k) /\ TokensInOrder
        /\ IsVariable => /\ Indent(k) = <<>>
                         /\ \A j \in Numbers(k) : DefinesVariable(j) => VariableName(j) # VariableName(k)
  <2>1. (Len(tokens) \in IF DefinesVariable(k) THEN 2..3 ELSE 1..3)
          <=> (Len(tokens) = 1 => ~DefinesVariable(k)) /\ Len(tokens) <= 3
    <3>1. /\ Len(tokens) \in 2..3 <=> Len(tokens) # 1 /\ Len(tokens) <= 3
          /\ Len(tokens) \in 1..3 <=> Len(tokens) <= 3
      BY <1>2, <1>a
    <3>2. QED
      BY <3>1
  <2>2. WellFormed(k) <=>
          /\ Last(tokens[1]) = ":" /\ (Len(tokens) \in IF DefinesVariable(k) THEN 2..3 ELSE 1..3)
          /\ DefinesVariable(k) =>
               /\ Indent(k) = <<>>
               /\ \A j \in Numbers(k) : DefinesVariable(j) => VariableName(j) # VariableName(k)
    BY <1>1 DEF WellFormed
  <2>3. TokensInOrder <=>
          Last(tokens[1]) = ":" /\ (Len(tokens) = 1 => ~DefinesVariable(k)) /\ Len(tokens) <= 3
    BY <1>4 DEF TokensInOrder
  <2>4. QED
    BY <1>4, <2>1, <2>2, <2>3 DEF GoodLine
<1>6. DefinesVariable(k) => NodeOfLine.name = VariableName(k)
  BY <1>1, <1>4 DEF NodeOfLine, Node, VariableName
<1>7. NodeOfLine.args = <<>>
  BY DEF NodeOfLine, Node
<1>8. ASSUME TokensInOrder PROVE NodeOfLine \in Nodes
  <2> DEFINE name == IF IsVariable THEN Tail(Front(first)) ELSE Front(first)
             ctor == IF Len(tokens) = 1 THEN Front(first) ELSE tokens[2]
             field == IF Len(tokens) = 3 THEN <<tokens[3]>> ELSE <<>>
  <2>1. Front(first) \in Text /\ Len(Front(first)) = Len(first) - 1
    BY <1>3, FrontIs DEF Text
  <2>2. IsVariable => Front(first) # <<>>
    <3>1. Last(first) = ":" /\ (IsVariable <=> first[1] = "$")
      BY <1>8 DEF TokensInOrder, IsVariable
    <3>2. IsVariable => Len(first) # 1
      BY <3>1 DEF Last
    <3>3. Len(first) \in Nat /\ Len(first) # 0
      BY <1>3, LenProperties, EmptySeq
    <3>4. IsVariable => Len(Front(first)) # 0
      BY <2>1, <3>2, <3>3
    <3>5. QED
      BY <3>4, EmptySeq
  <2>3. name \in Text
    BY <2>1, <2>2, HeadTailProperties DEF Text
  <2>4. ctor \in Constructor
    <3>1. Len(tokens) # 1 => 2 \in 1..Len(tokens)
      BY <1>2, <1>a
    <3>2. Len(tokens) # 1 => tokens[2] \in Constructor
      BY <1>2, <3>1 DEF Token, Constructor
    <3>3. first[1] # Mark
      <4>1. Last(first) # Mark
        BY <1>8 DEF TokensInOrder, Mark
      <4>2. first[1] = Mark => Last(first) = Mark
        <5>1. first \in Token
          BY <1>2
        <5>2. IsClosed(first) => Last(first) = Mark
          BY DEF IsClosed, Mark
        <5>3. QED
          BY <5>1, <5>2 DEF Token, Closed
      <4>3. QED
        BY <4>1, <4>2
    <3>4. Front(first) # <<>> => Front(first)[1] = first[1]
      <4>1. Front(first) # <<>> => Len(Front(first)) \in Nat \ {0}
        BY <2>1, EmptySeq DEF Text
      <4>2. Front(first) # <<>> => 1 \in 1..(Len(first) - 1)
        BY <2>1, <4>1
      <4>3. QED
        BY <1>3, <4>2, FrontIs
    <3>5. Front(first) \in Constructor
      BY <2>1, <3>3, <3>4 DEF Constructor, Closed
    <3>6. QED
      BY <3>2, <3>5
  <2>5. field \in Seq(Token)
    <3>1. Len(tokens) = 3 => tokens[3] \in Token
      BY <1>2
    <3>2. Len(tokens) = 3 => <<tokens[3]>> \in Seq(Token)
      BY <3>1
    <3>3. QED
      BY <3>2, EmptySeq
  <2>6. NodeOfLine = [name |-> name, ctor |-> ctor, field |-> field, args |-> <<>>]
    BY DEF NodeOfLine, Node
  <2>7. \A n \in Text, c \in Constructor, f \in Seq(Token) :
          [name |-> n, ctor |-> c, field |-> f, args |-> <<>>] \in Nodes
    BY EmptySeq DEF Nodes
  <2> HIDE DEF name, ctor, field
  <2>8. QED
    BY <2>3, <2>4, <2>5, <2>6, <2>7
<1>9. QED
  BY <1>1, <1>4, <1>5, <1>6, <1>7, <1>8

\* PointersAreLast, of a given stack and tree.
Pointed(stack, tree, lineOf, others) ==
  /\ stack # <<>> =>
       \/ \E name \in DOMAIN lineOf : lineOf[name] = stack[1].node
       \/ others # <<>> /\ Last(others) = stack[1].node
  /\ \A i \in 2..Len(stack) : Last(tree[stack[i - 1].node].args) = stack[i].node

\* A pop leaves good pointers.
LEMMA PointedFront ==
  ASSUME NEW stack \in Seq(Levels), Len(stack) > 0, NEW tree, NEW lineOf, NEW others,
         Pointed(stack, tree, lineOf, others)
  PROVE  Pointed(Front(stack), tree, lineOf, others)
<1>1. Len(stack) \in Nat /\ stack # <<>>
  BY LenProperties, EmptySeq
<1>2. /\ Front(stack) \in Seq(Levels) /\ Len(Front(stack)) = Len(stack) - 1
      /\ \A d \in 1..(Len(stack) - 1) : Front(stack)[d] = stack[d]
  BY <1>1, FrontIs
<1>3. Front(stack) # <<>> => Front(stack)[1] = stack[1]
  <2>1. Front(stack) # <<>> => Len(Front(stack)) # 0
    BY <1>2, EmptySeq
  <2>2. QED
    BY <1>1, <1>2, <2>1
<1>4. \A i \in 2..(Len(stack) - 1) :
        i \in 2..Len(stack) /\ Front(stack)[i] = stack[i] /\ Front(stack)[i - 1] = stack[i - 1]
  <2>1. \A i \in 2..(Len(stack) - 1) :
          i \in 2..Len(stack) /\ i \in 1..(Len(stack) - 1) /\ i - 1 \in 1..(Len(stack) - 1)
    BY <1>1
  <2>2. QED
    BY <1>2, <2>1
<1>5. QED
  BY <1>1, <1>2, <1>3, <1>4 DEF Pointed

\* No pointer but the last reaches the vector that the next node is put into.
LEMMA PointedBelow ==
  ASSUME NEW stack \in Seq(Levels), Len(stack) > 0, NEW tree, NEW grown, NEW lineOf, NEW others,
         Pointed(stack, tree, lineOf, others), NEW k \in Nat, NEW i, NEW next \in Seq(Levels),
         next = [stack EXCEPT ![Len(stack)].childrenIndentation = i] \o <<Level(k)>>,
         \A c, d \in 1..Len(stack) : c < d => stack[c].node < stack[d].node,
         \A d \in 1..(Len(stack) - 1) : grown[stack[d].node] = tree[stack[d].node],
         Last(grown[stack[Len(stack)].node].args) = k, i \in Text
  PROVE  Pointed(next, grown, lineOf, others)
<1> DEFINE n == Len(stack)
           top == [stack[n] EXCEPT !.childrenIndentation = i]
           below == [stack EXCEPT ![n] = top]
<1>a. n \in Nat /\ n > 0
  BY LenProperties
<1>1. n \in Nat /\ n \in 1..n /\ DOMAIN stack = 1..n /\ stack # <<>> /\ \A d \in 1..n : stack[d] \in Levels
  BY LenProperties, EmptySeq, ElementOfSeq
<1>2. top \in Levels /\ top.node = stack[n].node
  BY <1>1 DEF Levels
<1> HIDE DEF top
<1>3. below \in Seq(Levels) /\ Len(below) = n /\ \A d \in 1..n : below[d].node = stack[d].node
  <2>1. /\ below \in Seq(Levels) /\ Len(below) = n
        /\ \A d \in 1..n : below[d] = IF d = n THEN top ELSE stack[d]
    <3>1. n \in 1..Len(stack) /\ stack \in Seq(Levels)
      BY <1>a
    <3>2. QED
      BY <1>2, <3>1, ExceptSeq
  <2>2. QED
    BY <1>2, <2>1
<1>4. next = below \o <<Level(k)>>
  BY DEF below, top
<1> HIDE DEF below
<1>5. Level(k) \in Levels /\ Level(k).node = k
  BY EmptySeq DEF Level, Levels, Unset, Text
<1>6. Len(next) = n + 1 /\ next[n + 1].node = k /\ \A d \in 1..n : next[d].node = stack[d].node
  <2>1. <<Level(k)>> \in Seq(Levels) /\ Len(<<Level(k)>>) = 1 /\ <<Level(k)>>[1] = Level(k)
    BY <1>5
  <2>2. /\ Len(next) = n + 1
        /\ \A c \in 1..(n + 1) : next[c] = IF c <= n THEN below[c] ELSE <<Level(k)>>[c - n]
    BY <1>3, <1>4, <2>1, ConcatProperties
  <2>3. ~(n + 1 <= n) /\ (n + 1) - n = 1 /\ n + 1 \in 1..(n + 1) /\ \A c \in 1..n : c \in 1..(n + 1) /\ c <= n
    BY <1>a
  <2>4. QED
    BY <1>3, <1>5, <2>1, <2>2, <2>3
<1>7. \/ \E name \in DOMAIN lineOf : lineOf[name] = next[1].node
      \/ others # <<>> /\ Last(others) = next[1].node
  <2>1. 1 \in 1..n
    BY <1>a
  <2>2. QED
    BY <1>1, <1>6, <2>1 DEF Pointed
<1>8. ASSUME NEW c \in 2..(n + 1) PROVE Last(grown[next[c - 1].node].args) = next[c].node
  <2>1. CASE c = n + 1
    BY <1>a, <1>6, <2>1
  <2>2. CASE c # n + 1
    <3>1. c \in 2..n /\ c \in 1..n /\ c - 1 \in 1..(n - 1) /\ c - 1 \in 1..n
      BY <1>a, <2>2
    <3>2. Last(tree[stack[c - 1].node].args) = stack[c].node
      BY <3>1 DEF Pointed
    <3>3. QED
      BY <1>6, <3>1, <3>2
  <2>3. QED
    BY <2>1, <2>2
<1>9. QED
  BY <1>6, <1>7, <1>8 DEF Pointed

-----------------------------------------------------------------------------
(* The inductive invariant.                                                *)

\* The lines before the current one are good, the one under way is tokenized,
\* and the result tells of the first bad line.
LinesInv ==
  /\ LinesAreText /\ nline \in 0..Len(lines)
  /\ pc \in {"line", "parent", "attach", "exit"} /\ first_iteration \in BOOLEAN
  /\ \A j \in 1..nline : GoodLine(j)
  /\ pc \in {"parent", "attach"} =>
       \E k \in 1..Len(lines) :
         k = nline + 1 /\ tokenizedLine = Line(k) /\ Line(k).ok /\ ~IsBlank(k)
  /\ IF pc = "exit" THEN result = Outcome /\ (result = "ok" => nline = Len(lines))
     ELSE result = "none"

\* The stack is that of the open lines, as far as line k has been looked at.
StackInv ==
  pc # "exit" =>
    \E full, k, stack :
      /\ k = nline + 1 /\ stack = node_stack
      /\ pc = "line" => Starts(stack, full, k)
      /\ pc = "parent" =>
           IF first_iteration THEN Starts(stack, full, k) /\ Len(stack) > 0 /\ Indent(k) # <<>>
           ELSE Looks(stack, full, k)
      /\ pc = "attach" => Goes(stack, full, k)

\* The nodes and the definitions are those of the lines so far.
TreeInv ==
  \E k, tree, lineOf, others :
    /\ k = nline + 1 /\ tree = nodes /\ lineOf = variables /\ others = definitions
    /\ Placed(tree, k) /\ Defined(lineOf, others, k)

Inv == LinesInv /\ StackInv /\ TreeInv /\ PointersAreLast

\* The outcome is that of the lines.
LEMMA SameOutcome == ASSUME lines' = lines PROVE Outcome' = Outcome
<1>1. \A k : IndentsAtLine(k)' = IndentsAtLine(k)
  BY Same DEF IndentsAtLine, Numbers
<1>2. QED
  BY <1>1, Same DEF Outcome

\* What is said of a given tree is said of the lines.
LEMMA SamePlaces ==
  ASSUME lines' = lines
  PROVE  /\ \A tree, k : Placed(tree, k)' = Placed(tree, k)
         /\ \A lineOf, others, k : Defined(lineOf, others, k)' = Defined(lineOf, others, k)
<1>1. \A tree, k : Placed(tree, k)' = Placed(tree, k)
  BY Same, SameTree DEF Placed
<1>2. \A k : {m \in 1..(k - 1) : DefinesVariable(m)}' = {m \in 1..(k - 1) : DefinesVariable(m)}
  BY Same
<1>3. \A k : {VariableName(m) : m \in {m \in 1..(k - 1) : DefinesVariable(m)}}'
                = {VariableName(m) : m \in {m \in 1..(k - 1) : DefinesVariable(m)}}
  BY <1>2, Same
<1>4. ASSUME NEW lineOf, NEW others, NEW k
      PROVE  Defined(lineOf, others, k)' = Defined(lineOf, others, k)
  <2> DEFINE Names == {VariableName(m) : m \in {m \in 1..(k - 1) : DefinesVariable(m)}}
             Lines == \A m \in 1..(k - 1) : DefinesVariable(m) => lineOf[VariableName(m)] = m
  <2>1. Names' = Names
    BY <1>3
  <2>2. Lines' = Lines
    BY Same
  <2>3. Definitions(k)' = Definitions(k)
    BY SameTree
  <2>4. Defined(lineOf, others, k) =
          (others \in Seq(Nat) /\ InOrder(others, Definitions(k)) /\ DOMAIN lineOf = Names /\ Lines)
    BY DEF Defined
  <2>5. Defined(lineOf, others, k)' =
          (others \in Seq(Nat) /\ InOrder(others, Definitions(k)') /\ DOMAIN lineOf = Names' /\ Lines')
    BY DEF Defined
  <2> HIDE DEF Names, Lines
  <2>6. QED
    BY <2>1, <2>2, <2>3, <2>4, <2>5
<1>5. QED
  BY <1>1, <1>4

\* Before the first line nothing is open and nothing is placed.
LEMMA Initially == ASSUME Init PROVE Inv
<1>1. LinesAreText
  BY InputsAssumption DEF Init, LinesAreText, Text
<1>2. 0 \in 0..Len(lines) /\ 1..0 = {}
  BY <1>1, LenProperties DEF LinesAreText
<1>3. LinesInv
  BY <1>1, <1>2 DEF Init, LinesInv
<1>4. StackInv
  <2>1. Starts(<<>>, <<>>, 0 + 1)
    BY StartsAfresh
  <2>2. QED
    BY <2>1 DEF Init, StackInv
<1>5. TreeInv
  <2>1. 1..((0 + 1) - 1) = {}
    OBVIOUS
  <2>2. DOMAIN <<>> = {} /\ <<>> \in Seq(Nat)
    BY EmptySeq, LenProperties
  <2>3. Definitions(0 + 1) = {}
    BY <2>1 DEF Definitions, Below
  <2>4. Placed(<<>>, 0 + 1)
    BY <2>1, <2>2 DEF Placed
  <2>5. Defined(<<>>, <<>>, 0 + 1)
    BY <2>1, <2>2, <2>3, NothingInOrder DEF Defined
  <2>6. QED
    BY <2>4, <2>5 DEF Init, TreeInv
<1>6. PointersAreLast
  <2>1. Len(<<>>) = 0 /\ 2..0 = {}
    BY EmptySeq
  <2>2. QED
    BY <2>1 DEF Init, PointersAreLast
<1>7. QED
  BY <1>3, <1>4, <1>5, <1>6 DEF Inv

\* The invariant, with names for what it says there is.
LEMMA InvIs ==
  ASSUME Inv
  PROVE  /\ LinesAreText /\ nline \in Nat /\ nline <= Len(lines) /\ Len(lines) \in Nat
         /\ Placed(nodes, nline + 1) /\ Defined(variables, definitions, nline + 1)
         /\ Pointed(node_stack, nodes, variables, definitions)
<1>1. LinesAreText /\ nline \in Nat /\ nline <= Len(lines) /\ Len(lines) \in Nat
  BY LenProperties DEF Inv, LinesInv, LinesAreText
<1>2. Placed(nodes, nline + 1) /\ Defined(variables, definitions, nline + 1)
  BY DEF Inv, TreeInv
<1>3. Pointed(node_stack, nodes, variables, definitions)
  BY DEF Inv, PointersAreLast, Pointed
<1>4. QED
  BY <1>1, <1>2, <1>3

\* The tree is kept while no line is done.
LEMMA TreeKept ==
  ASSUME Inv, UNCHANGED <<lines, nline, treeVars>>
  PROVE  TreeInv' /\ (\A j \in 1..nline : GoodLine(j))' /\ (LinesAreText /\ nline \in 0..Len(lines))'
<1>1. TreeInv'
  <2>1. PICK k, tree, lineOf, others :
          /\ k = nline + 1 /\ tree = nodes /\ lineOf = variables /\ others = definitions
          /\ Placed(tree, k) /\ Defined(lineOf, others, k)
    BY DEF Inv, TreeInv
  <2>2. \A t, l, o, n : Placed(t, n)' = Placed(t, n) /\ Defined(l, o, n)' = Defined(l, o, n)
    BY SamePlaces
  <2>3. k = nline' + 1 /\ tree = nodes' /\ lineOf = variables' /\ others = definitions'
    BY <2>1 DEF treeVars
  <2>4. Placed(tree, k)' /\ Defined(lineOf, others, k)'
    BY <2>1, <2>2
  <2>5. QED
    BY <2>3, <2>4 DEF TreeInv
<1>2. QED
  BY <1>1, Same DEF Inv, LinesInv, LinesAreText

\* A return that tells of the first bad line.
LEMMA Returns ==
  ASSUME Inv, pc' = "exit", UNCHANGED <<lines, nline, node_stack, treeVars>>,
         first_iteration' \in BOOLEAN, result' = Outcome, result' = "ok" => nline = Len(lines)
  PROVE  Inv'
<1>1. LinesInv'
  BY TreeKept, SameOutcome DEF LinesInv
<1>2. StackInv' /\ TreeInv'
  BY TreeKept DEF StackInv
<1>3. PointersAreLast'
  BY DEF Inv, PointersAreLast, treeVars
<1>4. QED
  BY <1>1, <1>2, <1>3 DEF Inv

-----------------------------------------------------------------------------
(* The steps.                                                              *)

\* What is kept of the invariant while a line is under way.
LEMMA UnderWay ==
  ASSUME Inv, UNCHANGED <<lines, nline, treeVars>>, pc' \in {"parent", "attach"},
         result' = "none", first_iteration' \in BOOLEAN,
         NEW k \in 1..Len(lines), k = nline + 1, tokenizedLine' = Line(k), Line(k).ok, ~IsBlank(k),
         NEW full, NEW stack, stack = node_stack',
         pc' = "parent" => IF first_iteration' THEN Starts(stack, full, k) /\ Len(stack) > 0 /\ Indent(k) # <<>>
                           ELSE Looks(stack, full, k),
         pc' = "attach" => Goes(stack, full, k),
         Pointed(node_stack', nodes, variables, definitions)
  PROVE  Inv'
<1>1. TreeInv' /\ (\A j \in 1..nline : GoodLine(j))' /\ (LinesAreText /\ nline \in 0..Len(lines))'
  BY TreeKept
<1>2. (\E j \in 1..Len(lines) : j = nline + 1 /\ tokenizedLine = Line(j) /\ Line(j).ok /\ ~IsBlank(j))'
  <2>1. k \in 1..Len(lines') /\ k = nline' + 1 /\ tokenizedLine' = Line(k)' /\ Line(k)'.ok /\ ~IsBlank(k)'
    BY Same
  <2>2. QED
    BY <2>1
<1>3. LinesInv'
  BY <1>1, <1>2 DEF LinesInv
<1>4. StackInv'
  <2>1. /\ pc' = "parent" => IF first_iteration' THEN Starts(stack, full, k)' /\ Len(stack) > 0 /\ Indent(k)' # <<>>
                             ELSE Looks(stack, full, k)'
        /\ pc' = "attach" => Goes(stack, full, k)'
    BY Same, SameStack
  <2>2. k = nline' + 1 /\ pc' # "line"
    OBVIOUS
  <2>3. QED
    BY <2>1, <2>2 DEF StackInv
<1>5. PointersAreLast'
  BY DEF PointersAreLast, Pointed, treeVars
<1>6. QED
  BY <1>1, <1>3, <1>4, <1>5 DEF Inv

\* The next line is tokenized: it is blank, bad, at the top, or looks for its parent.
LEMMA NextLineStep == ASSUME Inv, NextLine PROVE Inv'
<1> DEFINE k == nline + 1
<1>1. /\ LinesAreText /\ nline \in Nat /\ nline <= Len(lines) /\ Len(lines) \in Nat
      /\ Placed(nodes, k) /\ Defined(variables, definitions, k)
  BY InvIs
<1>2. pc = "line" /\ nline < Len(lines) /\ tokenizedLine' = Line(k) /\ lines' = lines /\ result = "none"
  BY DEF NextLine, Line, Inv, LinesInv
<1>3. k \in 1..Len(lines) /\ k \in Nat \ {0} /\ k - 1 = nline /\ first_iteration \in BOOLEAN
  BY <1>1, <1>2 DEF Inv, LinesInv
<1>4. \A j \in 1..(k - 1) : GoodLine(j)
  BY <1>3 DEF Inv, LinesInv
<1>5. PICK full : Starts(node_stack, full, k)
  BY <1>2 DEF Inv, StackInv
<1>6. Chain(full, k) /\ Mirrors(node_stack, full) /\ Len(node_stack) = Len(full)
  BY <1>5 DEF Starts
<1>7. node_stack \in Seq(Levels) /\ Len(node_stack) \in Nat
  BY <1>6, LenProperties DEF Mirrors
<1>8. Pointed(<<>>, nodes, variables, definitions)
  <2>1. Len(<<>>) = 0 /\ 2..0 = {}
    BY EmptySeq
  <2>2. QED
    BY <2>1 DEF Pointed
<1> HIDE DEF k
<1>9. CASE ~Line(k).ok /\ Return("error")
  <2>1. ~GoodLine(k) /\ Verdict(k) = "error"
    BY <1>9 DEF GoodLine, Verdict
  <2>2. Outcome = "error"
    BY <1>1, <1>3, <1>4, <2>1, FirstBad
  <2>3. QED
    BY <1>2, <1>3, <1>9, <2>2, Returns DEF Return
<1>10. CASE /\ Line(k).ok /\ Line(k).tokens = <<>> /\ node_stack' = <<>> /\ nline' = nline + 1
            /\ UNCHANGED <<pc, first_iteration, treeVars, result>>
  <2>1. IsBlank(k) /\ GoodLine(k)
    BY <1>10 DEF IsBlank, GoodLine
  <2>2. /\ nline' = k /\ pc' = "line" /\ first_iteration' \in BOOLEAN /\ result' = "none"
        /\ nodes' = nodes /\ variables' = variables /\ definitions' = definitions
    BY <1>2, <1>3, <1>10 DEF treeVars, k
  <2>3. LinesInv'
    <3>1. \A j \in 1..k : j \in 1..(k - 1) \/ j = k
      BY <1>3
    <3>2. \A j \in 1..k : GoodLine(j)'
      BY <1>2, <1>4, <2>1, <3>1, Same
    <3>3. LinesAreText' /\ k \in 0..Len(lines)
      BY <1>1, <1>2, <1>3 DEF LinesAreText
    <3>4. QED
      BY <1>2, <2>2, <3>2, <3>3 DEF LinesInv
  <2>4. StackInv'
    <3>1. Starts(<<>>, <<>>, k + 1)
      BY <1>3, <2>1, StartsAfresh
    <3>2. \A n, s : n = k + 1 /\ s = <<>> => Starts(s, <<>>, n)'
      BY <1>2, <3>1, SameStack
    <3>3. PICK n, s : n = nline' + 1 /\ s = node_stack' /\ Starts(s, <<>>, n)'
      BY <1>10, <2>2, <3>2
    <3>4. QED
      BY <2>2, <3>3 DEF StackInv
  <2>5. TreeInv'
    <3>1. Placed(nodes, k + 1) /\ Defined(variables, definitions, k + 1)
      BY <1>1, <1>3, <2>1, BlankPlaces
    <3>2. \A n, t, l, o : n = k + 1 /\ t = nodes /\ l = variables /\ o = definitions =>
             Placed(t, n)' /\ Defined(l, o, n)'
      BY <1>2, <3>1, SamePlaces
    <3>3. QED
      BY <2>2, <3>2 DEF TreeInv
  <2>6. PointersAreLast'
    BY <1>8, <1>10, <2>2 DEF PointersAreLast, Pointed
  <2>7. QED
    BY <2>3, <2>4, <2>5, <2>6 DEF Inv
<1>11. CASE /\ Line(k).ok /\ Line(k).tokens # <<>> /\ Indent(k) = <<>> /\ node_stack' = <<>> /\ pc' = "attach"
            /\ UNCHANGED <<nline, first_iteration, treeVars, result>>
  <2>1. Goes(<<>>, full, k)
    BY <1>1, <1>3, <1>6, <1>11, GoesToTheTop
  <2>2. QED
    BY <1>2, <1>3, <1>8, <1>11, <2>1, UnderWay DEF IsBlank, k
<1>12. CASE /\ Line(k).ok /\ Line(k).tokens # <<>> /\ Indent(k) # <<>> /\ node_stack = <<>> /\ Return("error")
  <2>1. Len(full) = 0
    BY <1>6, <1>12, EmptySeq
  <2>2. ~WellIndented(k) /\ Verdict(k) = "error"
    BY <1>1, <1>3, <1>6, <1>12, <2>1, NothingIsOpen
  <2>3. ~GoodLine(k)
    BY <1>12, <2>2 DEF GoodLine, IsBlank
  <2>4. Outcome = "error"
    BY <1>1, <1>3, <1>4, <2>2, <2>3, FirstBad
  <2>5. QED
    BY <1>2, <1>3, <1>12, <2>4, Returns DEF Return
<1>13. CASE /\ Line(k).ok /\ Line(k).tokens # <<>> /\ Indent(k) # <<>> /\ node_stack # <<>>
            /\ pc' = "parent" /\ first_iteration' = TRUE
            /\ UNCHANGED <<nline, node_stack, treeVars, result>>
  <2>1. Len(node_stack) > 0
    BY <1>7, <1>13, EmptySeq
  <2>2. Pointed(node_stack', nodes, variables, definitions)
    BY <1>13, InvIs
  <2>3. QED
    BY <1>2, <1>3, <1>5, <1>13, <2>1, <2>2, UnderWay DEF IsBlank, k
<1>14. QED
  BY <1>2, <1>9, <1>10, <1>11, <1>12, <1>13 DEF NextLine, Indent

\* Only good lines are behind a call that has seen all of them.
LEMMA AllLinesStep == ASSUME Inv, AllLines PROVE Inv'
<1>1. pc = "line" /\ nline = Len(lines) /\ Return("ok") /\ lines' = lines
  BY DEF AllLines
<1>2. LinesAreText /\ (\A j \in 1..Len(lines) : GoodLine(j)) /\ first_iteration \in BOOLEAN
  BY <1>1 DEF Inv, LinesInv
<1>3. Outcome = "ok"
  BY <1>2, AllGood
<1>4. QED
  BY <1>1, <1>2, <1>3, Returns DEF Return

\* An iteration finds the parent, pops a level, or tells that there is none.
LEMMA FindParentStep == ASSUME Inv, FindParent PROVE Inv'
<1>1. pc = "parent" /\ lines' = lines /\ tokenizedLine' = tokenizedLine /\ result = "none"
  BY DEF FindParent, Inv, LinesInv
<1>2. PICK k \in 1..Len(lines) :
        k = nline + 1 /\ tokenizedLine = Line(k) /\ Line(k).ok /\ ~IsBlank(k)
  BY <1>1 DEF Inv, LinesInv
<1>3. /\ LinesAreText /\ nline \in Nat /\ Len(lines) \in Nat
      /\ Pointed(node_stack, nodes, variables, definitions)
  BY InvIs
<1>4. k - 1 = nline /\ first_iteration \in BOOLEAN /\ \A j \in 1..(k - 1) : GoodLine(j)
  BY <1>2, <1>3 DEF Inv, LinesInv
<1>5. PICK full :
        IF first_iteration THEN Starts(node_stack, full, k) /\ Len(node_stack) > 0 /\ Indent(k) # <<>>
        ELSE Looks(node_stack, full, k)
  BY <1>1, <1>2 DEF Inv, StackInv
<1>6. Chain(full, k) /\ Mirrors(node_stack, full) /\ Indent(k) # <<>>
  BY <1>5 DEF Starts, Looks
<1>7. node_stack \in Seq(Levels) /\ Depth \in Nat /\ (node_stack = <<>> <=> Depth = 0)
  BY <1>6, LenProperties, EmptySeq DEF Mirrors, Depth
<1>8. indentation = Indent(k)
  BY <1>2 DEF indentation, Indent
<1>9. ~WellIndented(k) => ~GoodLine(k)
  BY <1>2 DEF GoodLine
<1>10. ~WellIndented(k) => Outcome = Verdict(k)
  BY <1>2, <1>3, <1>4, <1>9, FirstBad
\* What the ways to leave an iteration do.
<1>11. ASSUME first_iteration' \in BOOLEAN,
              NEW stack, Attaches(stack), Goes(stack, full, k),
              Pointed(stack, nodes, variables, definitions)
       PROVE  Inv'
  <2>1. node_stack' = stack /\ pc' = "attach" /\ UNCHANGED <<lines, nline, treeVars>> /\ result' = "none"
    BY <1>1, <1>11 DEF Attaches
  <2>2. QED
    BY <1>1, <1>2, <1>11, <2>1, UnderWay
<1>12. ASSUME first_iteration' = FALSE, NEW stack, LooksAt(stack), Looks(stack, full, k),
              Pointed(stack, nodes, variables, definitions)
       PROVE  Inv'
  <2>1. node_stack' = stack /\ pc' = "parent" /\ UNCHANGED <<lines, nline, treeVars>> /\ result' = "none"
    BY <1>1, <1>12 DEF LooksAt
  <2>2. QED
    BY <1>1, <1>2, <1>12, <2>1, UnderWay
<1>13. ASSUME NEW how, pc' = "exit", result' = how, UNCHANGED <<nline, node_stack, treeVars>>,
              first_iteration' \in BOOLEAN, ~WellIndented(k), Verdict(k) = how, how # "ok"
       PROVE  Inv'
  BY <1>1, <1>10, <1>13, Returns
<1>14. Depth > 0 => Pointed(Front(node_stack), nodes, variables, definitions)
  BY <1>3, <1>7, PointedFront DEF Depth
<1>15. CASE node_stack = <<>> /\ Return("undefined")
  <2>1. ~first_iteration /\ Looks(node_stack, full, k) /\ Len(node_stack) = 0
    BY <1>5, <1>7, <1>15 DEF Depth
  <2>2. ~WellIndented(k) /\ Verdict(k) = "undefined"
    BY <1>2, <1>3, <2>1, LookNowhere
  <2>3. QED
    BY <1>4, <1>13, <1>15, <2>2 DEF Return
<1>16. CASE node_stack # <<>> /\ Top.childrenIndentation # Unset /\ Backtrack
  <2> DEFINE ordering == CompareIndentations(Top.childrenIndentation, indentation)
  <2>1. ~first_iteration /\ Looks(node_stack, full, k) /\ Depth > 0
    <3>1. Depth > 0
      BY <1>7, <1>16
    <3>2. ~first_iteration
      BY <1>5, <1>16, <3>1 DEF Starts, Top, Depth
    <3>3. QED
      BY <1>5, <3>1, <3>2
  <2>2. /\ ordering \in {"Less", "Equal", "Greater"}
        /\ ordering = "Less" => ~WellIndented(k) /\ Verdict(k) = "internal"
        /\ ordering = "Equal" => Goes(node_stack, full, k)
        /\ ordering = "Greater" => Looks(Front(node_stack), full, k)
    BY <1>2, <1>3, <1>8, <2>1, LookBackIs DEF Top, Depth
  <2>3. /\ first_iteration' = FALSE
        /\ ordering = "Less" => Return("internal")
        /\ ordering = "Equal" => Attaches(node_stack)
        /\ ordering = "Greater" => LooksAt(Front(node_stack))
    BY <1>4, <1>16, <2>1 DEF Backtrack
  <2> HIDE DEF ordering
  <2>4. CASE ordering = "Less"
    BY <1>13, <2>2, <2>3, <2>4 DEF Return
  <2>5. CASE ordering = "Equal"
    BY <1>3, <1>11, <2>2, <2>3, <2>5
  <2>6. CASE ordering = "Greater"
    BY <1>12, <1>14, <2>1, <2>2, <2>3, <2>6
  <2>7. QED
    BY <2>2, <2>4, <2>5, <2>6
<1>17. CASE node_stack # <<>> /\ Top.childrenIndentation = Unset /\ FirstLook
  <2> DEFINE ordering == CompareIndentations(node_stack[Depth - 1].childrenIndentation, indentation)
  <2>1. Depth > 0
    BY <1>7, <1>17
  <2>2. first_iteration /\ Starts(node_stack, full, k)
    <3>1. ASSUME ~first_iteration PROVE FALSE
      <4>1. Looks(node_stack, full, k)
        BY <1>5, <3>1
      <4>2. QED
        BY <1>2, <1>3, <1>17, <2>1, <4>1, LookBackIs DEF Top, Depth
    <3>2. QED
      BY <1>4, <1>5, <3>1
  <2>3. /\ Depth = 1 => Goes(<<[node_stack[1] EXCEPT !.childrenIndentation = Indent(k)]>>, full, k)
        /\ Depth # 1 =>
             /\ ordering = "Less" => Goes(node_stack, full, k)
             /\ ordering = "Equal" => Goes(Front(node_stack), full, k)
             /\ ordering = "Greater" => Looks(Front(node_stack), full, k)
             /\ ordering \notin {"Less", "Equal", "Greater"} => ~WellIndented(k) /\ Verdict(k) = "error"
    BY <1>2, <1>3, <1>6, <1>8, <2>1, <2>2, FirstLookIs DEF Depth
  <2>4. /\ first_iteration' = FALSE
        /\ Depth = 1 => Attaches(<<[node_stack[1] EXCEPT !.childrenIndentation = Indent(k)]>>)
        /\ Depth # 1 =>
             /\ ordering = "Less" => Attaches(node_stack)
             /\ ordering = "Equal" => Attaches(Front(node_stack))
             /\ ordering = "Greater" => LooksAt(Front(node_stack))
             /\ ordering \notin {"Less", "Equal", "Greater"} =>
                  pc' = "exit" /\ result' = "error" /\ UNCHANGED <<nline, node_stack, treeVars>>
    BY <1>8, <1>17 DEF FirstLook, Top
  <2> HIDE DEF ordering
  <2>5. CASE Depth = 1
    <3> DEFINE stack == <<[node_stack[1] EXCEPT !.childrenIndentation = Indent(k)]>>
    <3>1. Goes(stack, full, k) /\ Attaches(stack)
      BY <2>3, <2>4, <2>5
    <3>2. stack[1].node = node_stack[1].node /\ Len(stack) = 1 /\ 2..1 = {} /\ stack # <<>>
      <4>1. node_stack[1] \in Levels
        BY <1>7, <2>5, ElementOfSeq DEF Depth
      <4>2. [node_stack[1] EXCEPT !.childrenIndentation = Indent(k)].node = node_stack[1].node
        BY <4>1 DEF Levels
      <4>3. \A x : Len(<<x>>) = 1 /\ <<x>>[1] = x /\ <<x>> # <<>>
        OBVIOUS
      <4>4. Len(stack) = 1 /\ stack # <<>> /\ stack[1] = [node_stack[1] EXCEPT !.childrenIndentation = Indent(k)]
        BY <4>3
      <4>5. 2..1 = {}
        OBVIOUS
      <4> HIDE DEF stack
      <4>6. QED
        BY <4>2, <4>4, <4>5
    <3> HIDE DEF stack
    <3>3. Pointed(stack, nodes, variables, definitions)
      BY <1>3, <1>7, <2>5, <3>2 DEF Pointed
    <3>4. QED
      BY <1>11, <2>4, <3>1, <3>3
  <2>6. CASE Depth # 1 /\ ordering = "Less"
    BY <1>3, <1>11, <2>3, <2>4, <2>6
  <2>7. CASE Depth # 1 /\ ordering = "Equal"
    BY <1>11, <1>14, <2>1, <2>3, <2>4, <2>7
  <2>8. CASE Depth # 1 /\ ordering = "Greater"
    BY <1>12, <1>14, <2>1, <2>3, <2>4, <2>8
  <2>9. CASE Depth # 1 /\ ordering \notin {"Less", "Equal", "Greater"}
    BY <1>13, <2>3, <2>4, <2>9
  <2>10. QED
    BY <2>5, <2>6, <2>7, <2>8, <2>9
<1>18. QED
  BY <1>15, <1>16, <1>17 DEF FindParent

\* What is to show when a line is done.
LEMMA Completes ==
  ASSUME Inv, Done, lines' = lines, result = "none", first_iteration \in BOOLEAN,
         NEW k \in 1..Len(lines), k = nline + 1, GoodLine(k),
         NEW stack, stack = node_stack', NEW full, Starts(stack, full, k + 1),
         NEW tree, tree = nodes', Placed(tree, k + 1),
         NEW lineOf, NEW others, lineOf = variables', others = definitions', Defined(lineOf, others, k + 1),
         Pointed(stack, tree, lineOf, others)
  PROVE  Inv'
<1>1. /\ nline' = k /\ pc' = "line" /\ first_iteration' = first_iteration /\ result' = "none"
      /\ LinesAreText /\ nline \in Nat /\ Len(lines) \in Nat
  BY InvIs DEF Done
<1>2. LinesInv'
  <2>1. \A j \in 1..k : j \in 1..nline \/ j = k
    BY <1>1
  <2>2. \A j \in 1..k : GoodLine(j)'
    <3>1. \A j \in 1..nline : GoodLine(j)
      BY DEF Inv, LinesInv
    <3>2. QED
      BY <2>1, <3>1, Same
  <2>3. LinesAreText' /\ k \in 0..Len(lines)
    BY <1>1 DEF LinesAreText
  <2>4. QED
    BY <1>1, <2>2, <2>3 DEF LinesInv
<1>3. StackInv'
  <2>1. \A n, s : n = k + 1 /\ s = stack => Starts(s, full, n)'
    BY SameStack
  <2>2. PICK n, s : n = nline' + 1 /\ s = node_stack' /\ Starts(s, full, n)'
    BY <1>1, <2>1
  <2>3. QED
    BY <1>1, <2>2 DEF StackInv
<1>4. TreeInv'
  <2>1. \A n : n = k + 1 => Placed(tree, n)' /\ Defined(lineOf, others, n)'
    BY SamePlaces
  <2>2. PICK n : n = nline' + 1 /\ Placed(tree, n)' /\ Defined(lineOf, others, n)'
    BY <1>1, <2>1
  <2>3. QED
    BY <2>2 DEF TreeInv
<1>5. PointersAreLast'
  BY DEF PointersAreLast, Pointed
<1>6. QED
  BY <1>2, <1>3, <1>4, <1>5 DEF Inv

\* The node of the line becomes the last one below its parent, if its tokens are in order.
LEMMA AttachStep == ASSUME Inv, Attach PROVE Inv'
<1>1. pc = "attach" /\ lines' = lines /\ tokenizedLine' = tokenizedLine /\ result = "none"
  BY DEF Attach, Inv, LinesInv
<1>2. PICK k \in 1..Len(lines) :
        k = nline + 1 /\ tokenizedLine = Line(k) /\ Line(k).ok /\ ~IsBlank(k)
  BY <1>1 DEF Inv, LinesInv
<1>3. /\ LinesAreText /\ nline \in Nat /\ Len(lines) \in Nat
      /\ Placed(nodes, k) /\ Defined(variables, definitions, k)
      /\ Pointed(node_stack, nodes, variables, definitions)
  BY <1>2, InvIs
<1>4. k \in Nat \ {0} /\ k - 1 = nline /\ first_iteration \in BOOLEAN /\ \A j \in 1..(k - 1) : GoodLine(j)
  BY <1>2, <1>3 DEF Inv, LinesInv
<1>5. PICK full : Goes(node_stack, full, k)
  BY <1>1, <1>2 DEF Inv, StackInv
<1> DEFINE d == Len(node_stack)
           next == [c \in 1..(d + 1) |-> IF c = d + 1 THEN k ELSE full[c]]
           below == [node_stack EXCEPT ![d].childrenIndentation = Indent(k)] \o <<Level(k)>>
<1>6. /\ Chain(full, k) /\ Mirrors(node_stack, full) /\ WellIndented(k)
      /\ d > 0 => node_stack[d].childrenIndentation \in {Unset, Indent(k)}
  BY <1>5 DEF Goes
<1>7. node_stack \in Seq(Levels) /\ d \in Nat /\ (node_stack = <<>> <=> d = 0)
  BY <1>6, LenProperties, EmptySeq DEF Mirrors
<1>8. /\ d = 0 <=> Indent(k) = <<>>
      /\ Parent(k) = IF d = 0 THEN 0 ELSE node_stack[d].node
      /\ d = 0 => Starts(<<Level(k)>>, next, k + 1)
      /\ d # 0 => Starts(below, next, k + 1)
  BY <1>2, <1>3, <1>5, GoesOn
<1> HIDE DEF next
<1>9. /\ indentation = Indent(k) /\ (IsVariable <=> DefinesVariable(k))
      /\ TokensInOrder => NodeOfLine \in Nodes /\ NodeOfLine.args = <<>>
      /\ DefinesVariable(k) => NodeOfLine.name = VariableName(k)
      /\ GoodLine(k) <=>
           /\ WellIndented(k) /\ TokensInOrder
           /\ IsVariable => /\ Indent(k) = <<>>
                            /\ \A j \in Numbers(k) :
                                 DefinesVariable(j) => VariableName(j) # VariableName(k)
  BY <1>2, <1>3, TokensAre
<1>10. DefinesVariable(k) =>
         (Redefines <=> \E j \in Numbers(k) : DefinesVariable(j) /\ VariableName(j) = VariableName(k))
  <2>1. \A v : v \in DOMAIN variables <=> \E j \in 1..(k - 1) : DefinesVariable(j) /\ v = VariableName(j)
    BY <1>3 DEF Defined
  <2>2. QED
    BY <1>9, <2>1 DEF Redefines, Numbers
<1>11. ~GoodLine(k) => Outcome = "error"
  <2>1. Verdict(k) = "error"
    BY <1>6 DEF Verdict
  <2>2. QED
    BY <1>2, <1>3, <1>4, <2>1, FirstBad
<1>12. ASSUME Return("error"), ~GoodLine(k) PROVE Inv'
  BY <1>1, <1>4, <1>11, <1>12, Returns DEF Return
<1>13. CASE ~TokensInOrder /\ Return("error")
  BY <1>9, <1>12, <1>13
<1>14. CASE TokensInOrder /\ IsVariable /\ (node_stack # <<>> \/ Redefines) /\ Return("error")
  <2>1. ~GoodLine(k)
    BY <1>7, <1>8, <1>9, <1>10, <1>14
  <2>2. QED
    BY <1>12, <1>14, <2>1
<1>15. CASE TokensInOrder /\ node_stack = <<>> /\ (IsVariable => ~Redefines) /\ AttachTopLevel /\ Done
  <2>1. d = 0 /\ Parent(k) = 0 /\ Starts(<<Level(k)>>, next, k + 1)
    BY <1>7, <1>8, <1>15
  <2>2. GoodLine(k)
    BY <1>6, <1>8, <1>9, <1>10, <1>15, <2>1
  <2>3. node_stack' = <<Level(k)>> /\ nodes' = Put(nodes, k, NodeOfLine)
    BY <1>2, <1>15 DEF AttachTopLevel
  <2>4. Placed(Put(nodes, k, NodeOfLine), k + 1)
    BY <1>2, <1>3, <1>4, <1>9, <1>15, <2>1, NodePlaces
  <2>5. Len(<<Level(k)>>) = 1 /\ <<Level(k)>>[1].node = k /\ 2..1 = {}
    BY DEF Level
  <2>6. CASE IsVariable
    <3>1. variables' = Put(variables, VariableName(k), k) /\ definitions' = definitions
      BY <1>2, <1>9, <1>15, <2>6 DEF AttachTopLevel
    <3>2. VariableName(k) \notin DOMAIN variables
      BY <1>9, <1>15, <2>6 DEF Redefines
    <3>3. /\ Defined(variables', definitions', k + 1) /\ variables'[VariableName(k)] = k
          /\ VariableName(k) \in DOMAIN variables'
      BY <1>2, <1>3, <1>4, <1>9, <2>6, <3>1, <3>2, TopLevelDefines
    <3>4. Pointed(node_stack', nodes', variables', definitions')
      BY <2>3, <2>5, <3>3 DEF Pointed
    <3>5. QED
      BY <1>1, <1>2, <1>4, <1>15, <2>1, <2>2, <2>3, <2>4, <3>3, <3>4, Completes
  <2>7. CASE ~IsVariable
    <3>1. variables' = variables /\ definitions' = Append(definitions, k)
      BY <1>2, <1>15, <2>7 DEF AttachTopLevel
    <3>2. Defined(variables', definitions', k + 1) /\ definitions' # <<>> /\ Last(definitions') = k
      BY <1>2, <1>3, <1>4, <1>9, <2>1, <2>7, <3>1, TopLevelDefines
    <3>3. Pointed(node_stack', nodes', variables', definitions')
      BY <2>3, <2>5, <3>2 DEF Pointed
    <3>4. QED
      BY <1>1, <1>2, <1>4, <1>15, <2>1, <2>2, <2>3, <2>4, <3>2, <3>3, Completes
  <2>8. QED
    BY <2>6, <2>7
<1>16. CASE /\ TokensInOrder /\ node_stack # <<>> /\ ~IsVariable
            /\ IF Top.childrenIndentation \in {Unset, indentation} THEN AttachBelow /\ Done ELSE Return("assert")
  <2>1. d # 0 /\ d > 0 /\ d \in 1..d /\ Parent(k) = node_stack[d].node /\ Starts(below, next, k + 1)
    BY <1>7, <1>8, <1>16
  <2>2. AttachBelow /\ Done
    BY <1>6, <1>9, <1>16, <2>1 DEF Top, Depth
  <2>3. GoodLine(k)
    BY <1>6, <1>9, <1>16
  <2>4. node_stack' = below /\ variables' = variables /\ definitions' = definitions
    BY <1>2, <1>9, <2>2 DEF AttachBelow, Depth
  <2> DEFINE grown == Put([nodes EXCEPT ![Parent(k)].args = Append(@, k)], k, NodeOfLine)
  <2>5. nodes' = grown
    BY <1>2, <2>1, <2>2 DEF AttachBelow, Top, Depth
  <2>6. \A c \in 1..d : node_stack[c].node = full[c] /\ full[c] \in 1..(k - 1) /\ IsOpen(full[c], k) /\ c \in 1..Len(full)
    <3>1. /\ d <= Len(full) /\ Len(full) \in Nat
          /\ \A c \in 1..d : node_stack[c].node = full[c]
          /\ \A c \in 1..Len(full) : full[c] \in 1..(k - 1) /\ IsOpen(full[c], k)
      BY <1>2, <1>3, <1>6, MirrorsIs
    <3>2. \A c \in 1..d : c \in 1..Len(full)
      BY <1>7, <3>1
    <3>3. QED
      BY <3>1, <3>2
  <2>7. \A c \in 1..d : node_stack[c].node \in DOMAIN nodes
    <3>1. TAKE c \in 1..d
    <3>2. full[c] \in full[c]..(k - 1)
      BY <2>6
    <3>3. ~IsBlank(full[c])
      BY <2>6, <3>2 DEF IsOpen
    <3>4. QED
      BY <1>3, <2>6, <3>3 DEF Placed
  <2>8. \A c, e \in 1..d : c < e => node_stack[c].node < node_stack[e].node
    BY <1>6, <2>6 DEF Chain
  <2>9. /\ Placed(grown, k + 1) /\ Last(grown[Parent(k)].args) = k
        /\ \A m \in DOMAIN nodes : m # Parent(k) => grown[m] = nodes[m]
    <3>1. NodeOfLine \in Nodes /\ NodeOfLine.args = <<>> /\ Parent(k) \in DOMAIN nodes
      BY <1>9, <1>16, <2>1, <2>7
    <3>2. ~IsBlank(k) /\ Placed(nodes, k)
      BY <1>2, <1>3
    <3>3. QED
      BY <1>4, <3>1, <3>2, NodePlaces
  <2> HIDE DEF grown, below
  <2>10. \A c \in 1..(d - 1) : grown[node_stack[c].node] = nodes[node_stack[c].node]
    <3>1. TAKE c \in 1..(d - 1)
    <3>2. c \in 1..d /\ c < d
      BY <1>7
    <3>3. node_stack[c].node < node_stack[d].node /\ node_stack[c].node \in Nat /\ node_stack[d].node \in Nat
      BY <2>1, <2>6, <2>8, <3>2
    <3>4. node_stack[c].node # Parent(k)
      BY <2>1, <3>3
    <3>5. QED
      BY <2>7, <2>9, <3>2, <3>4
  <2>11. below \in Seq(Levels)
    BY <2>1 DEF Starts, Mirrors
  <2>12. Indent(k) \in Text
    BY <1>2, <1>3, LineIs
  <2>13. Pointed(below, grown, variables, definitions)
    BY <1>3, <1>4, <1>7, <2>1, <2>8, <2>9, <2>10, <2>11, <2>12, PointedBelow DEF below
  <2>14. Defined(variables, definitions, k + 1)
    <3>1. node_stack[d].node # 0
      BY <2>1, <2>6
    <3>2. QED
      BY <1>2, <1>3, <1>4, <1>9, <1>16, <2>1, <3>1, TopLevelDefines
  <2>15. QED
    BY <1>1, <1>2, <1>4, <2>1, <2>2, <2>3, <2>4, <2>5, <2>9, <2>13, <2>14, Completes
<1>17. QED
  BY <1>13, <1>14, <1>15, <1>16 DEF Attach

\* A step that changes nothing.
LEMMA StutterStep == ASSUME Inv, UNCHANGED vars PROVE Inv'
<1>1. /\ UNCHANGED <<lines, nline, treeVars>> /\ pc' = pc /\ tokenizedLine' = tokenizedLine
      /\ first_iteration' = first_iteration /\ node_stack' = node_stack /\ result' = result
      /\ nodes' = nodes /\ definitions' = definitions /\ variables' = variables
  BY DEF vars, treeVars
<1>2. TreeInv' /\ (\A j \in 1..nline : GoodLine(j))' /\ (LinesAreText /\ nline \in 0..Len(lines))'
  BY <1>1, TreeKept
<1>3. LinesInv'
  <2>1. pc \in {"parent", "attach"} =>
          \E k \in 1..Len(lines) : k = nline + 1 /\ tokenizedLine = Line(k)' /\ Line(k)'.ok /\ ~IsBlank(k)'
    BY <1>1, Same DEF Inv, LinesInv
  <2>2. (pc \in {"parent", "attach"} =>
           \E k \in 1..Len(lines) : k = nline + 1 /\ tokenizedLine = Line(k) /\ Line(k).ok /\ ~IsBlank(k))'
    BY <1>1, <2>1
  <2>3. (IF pc = "exit" THEN result = Outcome /\ (result = "ok" => nline = Len(lines)) ELSE result = "none")'
    BY <1>1, SameOutcome DEF Inv, LinesInv
  <2>4. (pc \in {"line", "parent", "attach", "exit"} /\ first_iteration \in BOOLEAN)'
    BY <1>1 DEF Inv, LinesInv
  <2>5. QED
    BY <1>2, <2>2, <2>3, <2>4 DEF LinesInv
<1>4. StackInv'
  <2>1. CASE pc = "exit"
    BY <1>1, <2>1 DEF StackInv
  <2>2. CASE pc # "exit"
    <3>1. PICK full, k, stack :
            /\ k = nline + 1 /\ stack = node_stack
            /\ pc = "line" => Starts(stack, full, k)
            /\ pc = "parent" =>
                 IF first_iteration THEN Starts(stack, full, k) /\ Len(stack) > 0 /\ Indent(k) # <<>>
                 ELSE Looks(stack, full, k)
            /\ pc = "attach" => Goes(stack, full, k)
      BY <2>2 DEF Inv, StackInv
    <3>2. /\ Starts(stack, full, k)' = Starts(stack, full, k) /\ Looks(stack, full, k)' = Looks(stack, full, k)
          /\ Goes(stack, full, k)' = Goes(stack, full, k) /\ Indent(k)' = Indent(k)
      BY <1>1, Same, SameStack
    <3>3. /\ k = nline' + 1 /\ stack = node_stack'
          /\ pc' = "line" => Starts(stack, full, k)'
          /\ pc' = "parent" =>
               IF first_iteration' THEN Starts(stack, full, k)' /\ Len(stack) > 0 /\ Indent(k)' # <<>>
               ELSE Looks(stack, full, k)'
          /\ pc' = "attach" => Goes(stack, full, k)'
      BY <1>1, <3>1, <3>2
    <3>4. QED
      BY <3>3 DEF StackInv
  <2>3. QED
    BY <2>1, <2>2
<1>5. PointersAreLast'
  BY <1>1 DEF Inv, PointersAreLast
<1>6. QED
  BY <1>2, <1>3, <1>4, <1>5 DEF Inv

-----------------------------------------------------------------------------
(* What follows.                                                           *)

\* Every step of ParseLinesToTextAst keeps the stack that of the open lines, the tree that
\* of the lines so far and the pointers good, for all vectors of lines.
THEOREM Invariance == Spec => []Inv
<1>1. Init => Inv
  BY Initially
<1>2. Inv /\ [Next]_vars => Inv'
  <2> SUFFICES ASSUME Inv, [Next]_vars PROVE Inv'
    OBVIOUS
  <2>1. CASE NextLine
    BY <2>1, NextLineStep
  <2>2. CASE AllLines
    BY <2>2, AllLinesStep
  <2>3. CASE FindParent
    BY <2>3, FindParentStep
  <2>4. CASE Attach
    BY <2>4, AttachStep
  <2>5. CASE Terminated
    BY <2>5, StutterStep DEF Terminated
  <2>6. CASE UNCHANGED vars
    BY <2>6, StutterStep
  <2>7. QED
    BY <2>1, <2>2, <2>3, <2>4, <2>5, <2>6 DEF Next
<1>3. QED
  BY <1>1, <1>2, PTL DEF Spec

\* A call accepts the lines if all are good, and otherwise does what the first bad one
\* makes it do (text_ast.cpp:167-231); its assertions hold.
THEOREM OutcomeCorrect == Spec => []OutcomeByFirstBadLine
<1>1. Inv => OutcomeByFirstBadLine
  BY DEF Inv, LinesInv, OutcomeByFirstBadLine
<1>2. QED
  BY <1>1, Invariance, PTL

\* Between lines node_stack holds the open lines with their children's indentations, and
\* no pointer on it was moved by the growth of a vector (text_ast.cpp:136, 182-223, 288).
THEOREM StackCorrect == Spec => []StackIsTheOpenLines
<1>1. ASSUME Inv PROVE StackIsTheOpenLines
  <2> DEFINE open == [i \in DOMAIN node_stack |-> node_stack[i].node]
             k == nline + 1
  <2>1. ASSUME pc = "line"
        PROVE  /\ InOrder(open, {j \in 1..nline : IsOpen(j, k)})
               /\ \A i \in DOMAIN open :
                    node_stack[i].childrenIndentation = IF i < Depth THEN Indent(open[i + 1]) ELSE Unset
    <3>1. PICK full : Starts(node_stack, full, k)
      BY <1>1, <2>1 DEF Inv, StackInv
    <3>2. /\ Chain(full, k) /\ Mirrors(node_stack, full) /\ Depth = Len(full)
          /\ Depth > 0 => node_stack[Depth].childrenIndentation = Unset
      BY <3>1 DEF Starts, Depth
    <3>3. Depth \in Nat /\ DOMAIN node_stack = 1..Depth /\ nline \in Nat
      BY <1>1, <3>2, LenProperties, InvIs DEF Mirrors, Depth
    <3>4. /\ DOMAIN open = 1..Depth /\ \A i \in 1..Depth : open[i] = full[i]
      BY <3>2, <3>3 DEF Mirrors, Depth
    <3>5. k - 1 = nline
      BY <3>3
    <3> HIDE DEF open, k
    <3>6. \A i \in 1..Depth : full[i] \in 1..nline
      <4>1. full \in Seq(1..nline)
        BY <3>2, <3>5 DEF Chain
      <4>2. QED
        BY <3>2, <4>1, ElementOfSeq
    <3>7. \A j \in 1..nline : IsOpen(j, k) <=> \E i \in 1..Depth : full[i] = j
      BY <3>2, <3>5 DEF Chain
    <3>8. Range(open) = {j \in 1..nline : IsOpen(j, k)}
      <4>1. \A j : j \in Range(open) <=> \E i \in 1..Depth : full[i] = j
        BY <3>4 DEF Range
      <4>2. QED
        BY <3>6, <3>7, <4>1
    <3>9. \A i, j \in DOMAIN open : i < j => open[i] < open[j]
      BY <3>2, <3>4 DEF Chain
    <3>10. ASSUME NEW i \in DOMAIN open
           PROVE  node_stack[i].childrenIndentation = IF i < Depth THEN Indent(open[i + 1]) ELSE Unset
      <4>1. i \in 1..Depth /\ (i < Depth => i + 1 \in 1..Depth) /\ (i < Depth \/ i = Depth)
        BY <3>3, <3>4
      <4>2. CASE i < Depth
        BY <3>2, <3>4, <4>1, <4>2 DEF Mirrors, Depth
      <4>3. CASE i = Depth
        BY <3>2, <3>3, <4>1, <4>3
      <4>4. QED
        BY <4>1, <4>2, <4>3
    <3>11. QED
      BY <3>8, <3>9, <3>10 DEF InOrder
  <2>2. QED
    BY <1>1, <2>1 DEF Inv, StackIsTheOpenLines
<1>2. QED
  BY <1>1, Invariance, PTL

\* A call that has returned the tree has seen all lines.
LEMMA Accepted ==
  ASSUME Inv, result = "ok"
  PROVE  /\ LinesAreText /\ DOMAIN lines = 1..Len(lines) /\ Len(lines) \in Nat
         /\ \A j \in 1..Len(lines) : GoodLine(j)
         /\ Placed(nodes, Len(lines) + 1) /\ Defined(variables, definitions, Len(lines) + 1)
         /\ \A m : m \in 1..((Len(lines) + 1) - 1) <=> m \in DOMAIN lines
<1>1. pc = "exit" /\ nline = Len(lines) /\ \A j \in 1..nline : GoodLine(j)
  BY DEF Inv, LinesInv
<1>2. LinesAreText /\ Len(lines) \in Nat /\ Placed(nodes, nline + 1) /\ Defined(variables, definitions, nline + 1)
  BY InvIs
<1>3. DOMAIN lines = 1..Len(lines)
  BY <1>2, LenProperties DEF LinesAreText
<1>4. (Len(lines) + 1) - 1 = Len(lines)
  BY <1>2
<1>5. QED
  BY <1>1, <1>2, <1>3, <1>4

\* The tree that is returned has every line below the nearest earlier line that is
\* indented less, in order (text_ast.cpp:182-306).
THEOREM TreeCorrect == Spec => []TreeFollowsIndentation
<1>1. ASSUME Inv, result = "ok"
      PROVE  /\ InOrder(definitions, {k \in Children(0) : ~DefinesVariable(k)})
             /\ DOMAIN nodes = {k \in DOMAIN lines : ~IsBlank(k)}
             /\ \A k \in DOMAIN nodes : InOrder(nodes[k].args, Children(k))
  <2> DEFINE n == Len(lines) + 1
  <2>1. /\ Placed(nodes, n) /\ Defined(variables, definitions, n)
        /\ \A m : m \in 1..(n - 1) <=> m \in DOMAIN lines
    BY <1>1, Accepted
  <2> HIDE DEF n
  <2>2. \A j : Below(j, n) = Children(j)
    BY <2>1 DEF Below, Children
  <2>3. Definitions(n) = {k \in Children(0) : ~DefinesVariable(k)}
    BY <2>2 DEF Definitions
  <2>4. {m \in 1..(n - 1) : ~IsBlank(m)} = {k \in DOMAIN lines : ~IsBlank(k)}
    BY <2>1
  <2>5. QED
    BY <2>1, <2>2, <2>3, <2>4 DEF Placed, Defined
<1>2. Inv => TreeFollowsIndentation
  BY <1>1 DEF TreeFollowsIndentation
<1>3. QED
  BY <1>2, Invariance, PTL

\* The name of a variable is what stands between its dollar sign and its colon.
LEMMA VariableNameIs ==
  ASSUME LinesAreText, NEW k \in 1..Len(lines), GoodLine(k), DefinesVariable(k)
  PROVE  VariableName(k) \in Text
<1> DEFINE first == Line(k).tokens[1]
<1>1. Line(k).tokens \in Seq(Token) /\ Line(k).tokens # <<>> /\ first[1] = "$" /\ Last(first) = ":"
  BY LineIs DEF DefinesVariable, IsBlank, GoodLine, WellFormed
<1>2. first \in Token
  <2>1. Len(Line(k).tokens) \in Nat /\ Len(Line(k).tokens) # 0
    BY <1>1, LenProperties, EmptySeq
  <2>2. 1 \in 1..Len(Line(k).tokens)
    BY <2>1
  <2>3. QED
    BY <1>1, <2>2, ElementOfSeq
<1> HIDE DEF first
<1>3. first \in Seq(STRING) /\ first # <<>> /\ Len(first) \in Nat /\ Len(first) # 0
  BY <1>2, LenProperties, EmptySeq DEF Token, Text
<1>4. Len(first) # 1
  BY <1>1 DEF Last
<1>5. Front(first) \in Seq(STRING) /\ Len(Front(first)) = Len(first) - 1
  BY <1>3, FrontIs
<1>6. Front(first) # <<>>
  <2>1. Len(Front(first)) # 0
    BY <1>3, <1>4, <1>5
  <2>2. QED
    BY <2>1, EmptySeq
<1>7. Tail(Front(first)) \in Seq(STRING)
  BY <1>5, <1>6, HeadTailProperties
<1>8. QED
  BY <1>7 DEF VariableName, Text, first

\* A word that begins with a dollar sign is that sign and the rest.
LEMMA DollarAndRest ==
  ASSUME NEW s \in Text, s # <<>>, NEW v \in Text
  PROVE  s = <<"$">> \o v <=> s[1] = "$" /\ Tail(s) = v
<1> DEFINE C == STRING \cup {"$"}
<1>1. s \in Seq(C) /\ v \in Seq(C)
  <2>1. \A t \in Seq(STRING) : t \in Seq(C)
    <3>1. TAKE t \in Seq(STRING)
    <3>2. Len(t) \in Nat /\ t \in [1..Len(t) -> STRING]
      BY LenProperties, SeqDef
    <3>3. t \in [1..Len(t) -> C]
      BY <3>2
    <3> HIDE DEF C
    <3>4. QED
      BY <3>2, <3>3, SeqDef
  <2>2. QED
    BY <2>1 DEF Text
<1>2. <<"$">> \in Seq(C) /\ Len(<<"$">>) = 1 /\ <<"$">>[1] = "$"
  <2>1. "$" \in C
    OBVIOUS
  <2> HIDE DEF C
  <2>2. QED
    BY <2>1
<1> HIDE DEF C
<1>3. Len(s) \in Nat /\ Len(v) \in Nat /\ Len(s) > 0
  BY <1>1, LenProperties, EmptySeq
<1> DEFINE w == <<"$">> \o v
<1>4. /\ w \in Seq(C) /\ Len(w) = 1 + Len(v)
      /\ \A i \in 1..(1 + Len(v)) : w[i] = IF i <= 1 THEN <<"$">>[i] ELSE v[i - 1]
  BY <1>1, <1>2, <1>3, ConcatProperties
<1>5. w[1] = "$" /\ \A i \in 1..Len(v) : w[i + 1] = v[i]
  <2>1. 1 \in 1..(1 + Len(v)) /\ \A i \in 1..Len(v) : i + 1 \in 1..(1 + Len(v)) /\ ~(i + 1 <= 1) /\ (i + 1) - 1 = i
    BY <1>3
  <2>2. QED
    BY <1>2, <1>4, <2>1
<1> HIDE DEF w
<1>6. Tail(s) \in Seq(C) /\ Len(Tail(s)) = Len(s) - 1 /\ \A i \in 1..Len(Tail(s)) : Tail(s)[i] = s[i + 1]
  BY <1>1, <1>3, HeadTailProperties
<1>7. ASSUME s = w PROVE s[1] = "$" /\ Tail(s) = v
  <2>1. Len(Tail(s)) = Len(v)
    BY <1>3, <1>4, <1>6, <1>7
  <2>2. \A i \in 1..Len(v) : Tail(s)[i] = v[i]
    BY <1>5, <1>6, <1>7, <2>1
  <2>3. Tail(s) = v
    BY <1>1, <1>6, <2>1, <2>2, SeqEqual
  <2>4. QED
    BY <1>5, <1>7, <2>3
<1>8. ASSUME s[1] = "$", Tail(s) = v PROVE s = w
  <2>1. Len(s) = Len(w)
    <3>1. Len(v) = Len(s) - 1
      BY <1>6, <1>8
    <3>2. QED
      BY <1>3, <1>4, <3>1
  <2>2. \A i \in 1..Len(s) : s[i] = w[i]
    <3>1. TAKE i \in 1..Len(s)
    <3>2. i = 1 \/ (i - 1 \in 1..Len(v) /\ (i - 1) + 1 = i)
      BY <1>3, <1>6, <1>8
    <3>3. CASE i = 1
      BY <1>5, <1>8, <3>3
    <3>4. CASE i - 1 \in 1..Len(v) /\ (i - 1) + 1 = i
      BY <1>5, <1>6, <1>8, <3>4
    <3>5. QED
      BY <3>2, <3>3, <3>4
  <2>3. QED
    BY <1>1, <1>4, <2>1, <2>2, SeqEqual
<1>9. QED
  BY <1>7, <1>8 DEF w

\* A use of a variable resolves to the one line that defines it, wherever that stands
\* (text_ast.cpp:34-58).
THEOREM VariablesCorrect == Spec => []VariablesResolve
<1>1. ASSUME Inv, result = "ok", NEW k \in DOMAIN nodes
      PROVE  LET defining == {j \in DOMAIN lines : DefinesVariable(j) /\
                                nodes[k].ctor # <<>> /\ nodes[k].ctor = <<"$">> \o VariableName(j)}
             IN  {ResolveNode(k)} = IF defining = {} THEN {k} ELSE defining
  <2> DEFINE ctor == nodes[k].ctor
             n == Len(lines) + 1
             defining == {j \in DOMAIN lines : DefinesVariable(j) /\ ctor # <<>> /\ ctor = <<"$">> \o VariableName(j)}
  <2>1. /\ LinesAreText /\ DOMAIN lines = 1..Len(lines) /\ \A j \in 1..Len(lines) : GoodLine(j)
        /\ Placed(nodes, n) /\ Defined(variables, definitions, n)
        /\ \A m : m \in 1..(n - 1) <=> m \in DOMAIN lines
    BY <1>1, Accepted
  <2>2. ctor \in Text
    BY <2>1 DEF Placed, Nodes, Constructor
  <2> HIDE DEF ctor, n
  <2>3. \A j \in DOMAIN lines : DefinesVariable(j) => VariableName(j) \in Text
    BY <2>1, VariableNameIs
  <2>4. \A j : j \in defining <=>
          j \in DOMAIN lines /\ DefinesVariable(j) /\ ctor # <<>> /\ ctor[1] = "$" /\ Tail(ctor) = VariableName(j)
    BY <2>2, <2>3, DollarAndRest
  <2>5. \A v : v \in DOMAIN variables <=> \E j \in DOMAIN lines : DefinesVariable(j) /\ v = VariableName(j)
    BY <2>1 DEF Defined
  <2>6. \A j \in DOMAIN lines : DefinesVariable(j) => variables[VariableName(j)] = j
    BY <2>1 DEF Defined
  <2>7. ResolveNode(k) = IF ctor = <<>> \/ ctor[1] # "$" \/ Tail(ctor) \notin DOMAIN variables THEN k
                         ELSE variables[Tail(ctor)]
    BY DEF ResolveNode, ctor
  <2> HIDE DEF defining
  <2>8. CASE defining = {}
    <3>1. ctor = <<>> \/ ctor[1] # "$" \/ Tail(ctor) \notin DOMAIN variables
      BY <2>4, <2>5, <2>8
    <3>2. {ResolveNode(k)} = IF defining = {} THEN {k} ELSE defining
      BY <2>7, <2>8, <3>1
    <3>3. QED
      BY <3>2 DEF defining, ctor
  <2>9. CASE defining # {}
    <3>1. PICK j : j \in defining
      BY <2>9
    <3>2. /\ j \in DOMAIN lines /\ DefinesVariable(j) /\ ctor # <<>> /\ ctor[1] = "$"
          /\ Tail(ctor) = VariableName(j)
      BY <2>4, <3>1
    <3>3. ResolveNode(k) = j
      BY <2>5, <2>6, <2>7, <3>2
    <3>4. \A i \in defining : i = j
      BY <2>4, <2>6, <3>2
    <3>5. {ResolveNode(k)} = IF defining = {} THEN {k} ELSE defining
      BY <2>9, <3>1, <3>3, <3>4
    <3>6. QED
      BY <3>5 DEF defining, ctor
  <2>10. QED
    BY <2>8, <2>9
<1>2. Inv => VariablesResolve
  BY <1>1 DEF VariablesResolve
<1>3. QED
  BY <1>2, Invariance, PTL

-----------------------------------------------------------------------------
(* Literals.                                                               *)

\* The backslash has a name like the quotation mark, and a set of characters in which
\* both occur.
Backslash == "\\"
Letters ==
  STRING \cup DOMAIN EscapesRead \cup {EscapesRead[l] : l \in DOMAIN EscapesRead} \cup {Mark, Backslash}
Strings == Seq(Letters)

LEMMA EscapesAre ==
  \A l \in DOMAIN EscapesRead : l \in Letters /\ EscapesRead[l] \in Letters
BY DEF Letters

\* The recursions of the reader and the writer have solutions.
LEMMA ReadSolvable ==
  ASSUME NEW u \in Strings, NEW which \in {"read", "escapes"}
  PROVE  \E f : Walks(which, u, 1, Len(u) + 2, f)
<1> DEFINE n == Len(u) + 2
<1>1. Len(u) \in Nat
  BY LenProperties DEF Strings
<1>2. ASSUME NEW i \in 1..n, NEW f, NEW g, \A b \in (i + 1)..n : f[b] = g[b]
      PROVE  Walk(which, u, f, i) = Walk(which, u, g, i)
  <2>1. i <= Len(u) => i + 1 \in (i + 1)..n /\ i + 2 \in (i + 1)..n
    BY <1>1
  <2>2. i <= Len(u) => f[i + 1] = g[i + 1] /\ f[i + 2] = g[i + 2]
    BY <1>2, <2>1
  <2>3. CASE i > Len(u)
    BY <2>3 DEF Walk
  <2>4. CASE i <= Len(u)
    BY <2>2, <2>4 DEF Walk
  <2>5. QED
    BY <1>1, <2>3, <2>4
<1>3. 1 \in Nat /\ n \in Nat /\ 1 <= n
  BY <1>1
<1> HIDE DEF n
<1>4. \E f : Walks(which, u, 1, n, f)
  BY <1>2, <1>3, WalkSolvable
<1>5. QED
  BY <1>4 DEF n

LEMMA WriteSolvable ==
  ASSUME NEW s \in Strings
  PROVE  \E f : Walks("write", s, 1, Len(s) + 1, f)
<1> DEFINE n == Len(s) + 1
<1>1. Len(s) \in Nat
  BY LenProperties DEF Strings
<1>2. ASSUME NEW i \in 1..n, NEW f, NEW g, \A b \in (i + 1)..n : f[b] = g[b]
      PROVE  Walk("write", s, f, i) = Walk("write", s, g, i)
  <2>1. i <= Len(s) => i + 1 \in (i + 1)..n
    BY <1>1
  <2>2. i <= Len(s) => f[i + 1] = g[i + 1]
    BY <1>2, <2>1
  <2>3. CASE i > Len(s)
    BY <2>3 DEF Walk
  <2>4. CASE i <= Len(s)
    <3>1. ~(i > Len(s))
      BY <1>1, <2>4
    <3>2. /\ Walk("write", s, f, i) = Start(s, i) \o Written(s[i]) \o f[i + 1]
          /\ Walk("write", s, g, i) = Start(s, i) \o Written(s[i]) \o g[i + 1]
      BY <3>1 DEF Walk
    <3>3. QED
      BY <2>2, <2>4, <3>2
  <2>5. QED
    BY <1>1, <2>3, <2>4
<1>3. 1 \in Nat /\ n \in Nat /\ 1 <= n
  BY <1>1
<1> HIDE DEF n
<1>4. \E f : Walks("write", s, 1, n, f)
  BY <1>2, <1>3, WalkSolvable
<1>5. QED
  BY <1>4 DEF n

\* Reading a literal: which escapes are known, and what is read.
LEMMA UnescapeIs ==
  ASSUME NEW u \in Strings
  PROVE  \E d, e : /\ Walks("read", u, 1, Len(u) + 2, d)
                   /\ Walks("escapes", u, 1, Len(u) + 2, e)
                   /\ Unescape(u) = IF e[1] THEN Read(d[1]) ELSE NoString
<1> DEFINE D(f) == f = [i \in 1..(Len(u) + 2) |->
                         IF i > Len(u) THEN <<>>
                         ELSE IF u[i] # "\\" THEN <<u[i]>> \o f[i + 1]
                         ELSE <<EscapesRead[u[i + 1]]>> \o f[i + 2]]
           E(f) == f = [i \in 1..(Len(u) + 2) |->
                         \/ i > Len(u)
                         \/ u[i] # "\\" /\ f[i + 1]
                         \/ u[i] = "\\" /\ i < Len(u) /\ u[i + 1] \in DOMAIN EscapesRead /\ f[i + 2]]
           d0 == CHOOSE f : D(f)
           e0 == CHOOSE f : E(f)
<1>1. Unescape(u) = IF e0[1] THEN Read(d0[1]) ELSE NoString
  BY DEF Unescape
<1>2. \A f : D(f) <=> Walks("read", u, 1, Len(u) + 2, f)
  BY DEF Walks, Walk
<1>3. \A f : E(f) <=> Walks("escapes", u, 1, Len(u) + 2, f)
  BY DEF Walks, Walk
<1> HIDE DEF D, E
<1>4. D(d0)
  BY <1>2, ReadSolvable
<1>5. E(e0)
  BY <1>3, ReadSolvable
<1> HIDE DEF d0, e0
<1>6. QED
  BY <1>1, <1>2, <1>3, <1>4, <1>5

LEMMA QuoteIs ==
  ASSUME NEW s \in Strings
  PROVE  \E r : Walks("write", s, 1, Len(s) + 1, r) /\ QuoteStringForCLiteral(s) = <<"\"">> \o r[1]
<1> DEFINE R(f) == f = [i \in 1..(Len(s) + 1) |->
                         IF i > Len(s) THEN <<"\"">>
                         ELSE (IF (i > 1 /\ Formatted(s[i - 1]) # <<>>) /\ s[i] \in HexDigits
                               THEN <<"\"", "\"">> ELSE <<>>)
                                \o (IF s[i] \in DOMAIN EscapesWritten THEN <<"\\", EscapesWritten[s[i]]>>
                                    ELSE IF Formatted(s[i]) # <<>> THEN Formatted(s[i])
                                    ELSE <<s[i]>>)
                                \o f[i + 1]]
           r0 == CHOOSE f : R(f)
<1>1. QuoteStringForCLiteral(s) = <<"\"">> \o r0[1]
  BY DEF QuoteStringForCLiteral
<1>2. \A f : R(f) <=> Walks("write", s, 1, Len(s) + 1, f)
  BY DEF Walks, Walk, Start, Written
<1> HIDE DEF R
<1>3. R(r0)
  BY <1>2, WriteSolvable
<1> HIDE DEF r0
<1>4. QED
  BY <1>1, <1>2, <1>3

\* What is read is a text.
LEMMA ReadIsText ==
  ASSUME NEW u \in Strings, Unescape(u) # NoString
  PROVE  Unescape(u) = Read(Unescape(u)[1]) /\ Unescape(u)[1] \in Strings
<1>1. PICK d, e : /\ Walks("read", u, 1, Len(u) + 2, d)
                  /\ Walks("escapes", u, 1, Len(u) + 2, e)
                  /\ Unescape(u) = IF e[1] THEN Read(d[1]) ELSE NoString
  BY UnescapeIs
<1> DEFINE n == Len(u) + 2
           T == {i \in 1..n : e[i] => d[i] \in Strings}
<1>2. Len(u) \in Nat /\ \A i \in 1..Len(u) : u[i] \in Letters
  BY LenProperties, ElementOfSeq DEF Strings
<1>3. ASSUME NEW i \in 1..n, \A b \in (i + 1)..n : b \in T PROVE i \in T
  <2> SUFFICES ASSUME e[i] PROVE d[i] \in Strings
    OBVIOUS
  <2>1. /\ d[i] = IF i > Len(u) THEN <<>>
                  ELSE IF u[i] # "\\" THEN <<u[i]>> \o d[i + 1]
                  ELSE <<EscapesRead[u[i + 1]]>> \o d[i + 2]
        /\ e[i] <=> \/ i > Len(u)
                    \/ u[i] # "\\" /\ e[i + 1]
                    \/ u[i] = "\\" /\ i < Len(u) /\ u[i + 1] \in DOMAIN EscapesRead /\ e[i + 2]
    <3>1. d[i] = Walk("read", u, d, i) /\ e[i] = Walk("escapes", u, e, i)
      BY <1>1 DEF Walks
    <3>2. QED
      BY <3>1 DEF Walk
  <2>2. i <= Len(u) => i + 1 \in (i + 1)..n /\ i + 2 \in (i + 1)..n
    BY <1>2
  <2>3. CASE i > Len(u)
    BY <2>1, <2>3, EmptySeq DEF Strings
  <2>4. CASE i <= Len(u) /\ u[i] # "\\"
    <3>1. d[i] = <<u[i]>> \o d[i + 1] /\ e[i + 1]
      BY <1>2, <2>1, <2>4
    <3>2. d[i + 1] \in Strings /\ <<u[i]>> \in Strings
      BY <1>2, <1>3, <2>2, <2>4, <3>1 DEF Strings
    <3>3. QED
      BY <3>1, <3>2, ConcatProperties DEF Strings
  <2>5. CASE i <= Len(u) /\ u[i] = "\\"
    <3>1. d[i] = <<EscapesRead[u[i + 1]]>> \o d[i + 2] /\ e[i + 2] /\ u[i + 1] \in DOMAIN EscapesRead
      BY <1>2, <2>1, <2>5
    <3>2. EscapesRead[u[i + 1]] \in Letters
      BY <3>1, EscapesAre
    <3>3. d[i + 2] \in Strings /\ <<EscapesRead[u[i + 1]]>> \in Strings
      BY <1>3, <2>2, <2>5, <3>1, <3>2 DEF Strings
    <3>4. QED
      BY <3>1, <3>3, ConcatProperties DEF Strings
  <2>6. QED
    BY <1>2, <2>3, <2>4, <2>5
<1>4. 1 \in Nat /\ n \in Nat /\ 1 \in 1..n
  BY <1>2
<1> HIDE DEF T, n
<1>5. e[1] => d[1] \in Strings
  <2>1. \A i \in 1..n : i \in T
    BY <1>3, <1>4, Downwards
  <2>2. QED
    BY <1>4, <2>1 DEF T
<1>6. QED
  BY <1>1, <1>5 DEF Read, NoString

\* A character is written as it is, or by an escape that stands for it.
LEMMA WrittenIs ==
  ASSUME NEW c \in Letters \ Unwritable
  PROVE  /\ Formatted(c) = <<>>
         /\ \/ Written(c) = <<c>> /\ c # "\\"
            \/ \E l \in DOMAIN EscapesRead : Written(c) = <<"\\", l>> /\ EscapesRead[l] = c
<1>1. Formatted(c) = <<>>
  BY DEF Formatted, Unwritable
<1>2. CASE c \in {"\\", "\"", "LF", "CR", "TAB"}
  <2>1. c \in DOMAIN EscapesWritten /\ Written(c) = <<"\\", EscapesWritten[c]>>
    BY <1>2 DEF Written, EscapesWritten
  <2>2. EscapesWritten[c] \in DOMAIN EscapesRead /\ EscapesRead[EscapesWritten[c]] = c
    BY <1>2 DEF EscapesWritten, EscapesRead
  <2>3. QED
    BY <1>1, <2>1, <2>2
<1>3. CASE c \notin {"\\", "\"", "LF", "CR", "TAB"}
  <2>1. c \notin DOMAIN EscapesWritten /\ c # "\\"
    BY <1>3 DEF EscapesWritten, Unwritable
  <2>2. QED
    BY <1>1, <2>1 DEF Written
<1>4. QED
  BY <1>2, <1>3

\* What was written at a place of u is read back.
LEMMA ReadsBack ==
  ASSUME NEW s \in Strings, \A i \in 1..Len(s) : s[i] \notin Unwritable,
         NEW r, Walks("write", s, 1, Len(s) + 1, r),
         NEW u \in Strings, NEW d, NEW e,
         Walks("read", u, 1, Len(u) + 2, d), Walks("escapes", u, 1, Len(u) + 2, e)
  PROVE  /\ r[1] \in Strings /\ Len(r[1]) > 0
         /\ (Len(u) + 1 = Len(r[1]) /\ \A k \in 1..Len(u) : u[k] = r[1][k]) => e[1] /\ d[1] = s
<1> DEFINE n == Len(s) + 1
           At(q, i) == /\ q \in 1..(Len(u) + 1) /\ Len(u) + 1 = q - 1 + Len(r[i])
                       /\ \A k \in 1..(Len(r[i]) - 1) : u[q - 1 + k] = r[i][k]
           T == {i \in 1..n : /\ r[i] \in Strings /\ Len(r[i]) > 0
                              /\ \A q \in Nat : At(q, i) => e[q] /\ d[q] = SubSeq(s, i, Len(s))}
<1>1. /\ Len(s) \in Nat /\ (\A i \in 1..Len(s) : s[i] \in Letters)
      /\ Len(u) \in Nat
  BY LenProperties, ElementOfSeq DEF Strings
<1>2. ASSUME NEW q \in 1..(Len(u) + 1)
      PROVE  /\ d[q] = IF q > Len(u) THEN <<>>
                       ELSE IF u[q] # Backslash THEN <<u[q]>> \o d[q + 1]
                       ELSE <<EscapesRead[u[q + 1]]>> \o d[q + 2]
             /\ e[q] <=> \/ q > Len(u)
                         \/ u[q] # Backslash /\ e[q + 1]
                         \/ u[q] = Backslash /\ q < Len(u) /\ u[q + 1] \in DOMAIN EscapesRead /\ e[q + 2]
  <2>1. q \in 1..(Len(u) + 2)
    BY <1>1
  <2>2. d[q] = Walk("read", u, d, q) /\ e[q] = Walk("escapes", u, e, q)
    BY <2>1 DEF Walks
  <2>3. QED
    BY <2>2 DEF Walk, Backslash
<1>3. ASSUME NEW i \in 1..n, \A b \in (i + 1)..n : b \in T PROVE i \in T
  <2>1. r[i] = IF i > Len(s) THEN <<Mark>> ELSE Start(s, i) \o Written(s[i]) \o r[i + 1]
    <3>1. r[i] = Walk("write", s, r, i)
      BY DEF Walks
    <3>2. QED
      BY <3>1 DEF Walk, Mark
  <2>2. CASE i > Len(s)
    <3>1. r[i] = <<Mark>> /\ i = Len(s) + 1
      BY <1>1, <2>1, <2>2
    <3>2. r[i] \in Strings /\ Len(r[i]) = 1
      <4>1. Mark \in Letters
        BY DEF Letters
      <4>2. QED
        BY <3>1, <4>1 DEF Strings
    <3>3. ASSUME NEW q \in Nat, At(q, i) PROVE e[q] /\ d[q] = SubSeq(s, i, Len(s))
      <4>1. q = Len(u) + 1 /\ q \in 1..(Len(u) + 1) /\ q > Len(u)
        BY <1>1, <3>2, <3>3
      <4>2. e[q] /\ d[q] = <<>>
        BY <1>2, <4>1
      <4>3. SubSeq(s, i, Len(s)) = <<>>
        BY <1>1, <3>1, SubSeqEmpty
      <4>4. QED
        BY <4>2, <4>3
    <3>4. Len(r[i]) > 0
      BY <3>2
    <3>5. QED
      BY <3>2, <3>3, <3>4
  <2>3. CASE i <= Len(s)
    <3> DEFINE w == Written(s[i])
               t == r[i + 1]
    <3>1. i \in 1..Len(s) /\ s[i] \in Letters \ Unwritable /\ i + 1 \in (i + 1)..n
      BY <1>1, <2>3
    <3>2. /\ t \in Strings /\ Len(t) > 0 /\ Len(t) \in Nat
          /\ \A q \in Nat : At(q, i + 1) => e[q] /\ d[q] = SubSeq(s, i + 1, Len(s))
      BY <1>3, <3>1, LenProperties DEF Strings
    <3>3. Start(s, i) = <<>>
      <4>1. i > 1 => s[i - 1] \in Letters \ Unwritable
        BY <1>1, <3>1
      <4>2. QED
        BY <4>1, WrittenIs DEF Start
    <3>4. \/ w = <<s[i]>> /\ s[i] # Backslash
          \/ \E l \in DOMAIN EscapesRead : w = <<Backslash, l>> /\ EscapesRead[l] = s[i]
      BY <3>1, WrittenIs DEF Backslash
    <3>5. w \in Strings /\ Len(w) \in 1..2
      <4>1. ASSUME NEW l \in DOMAIN EscapesRead, w = <<Backslash, l>> PROVE w \in Strings /\ Len(w) \in 1..2
        <5>1. l \in Letters
          BY EscapesAre
        <5>2. Backslash \in Letters
          BY DEF Letters
        <5>3. QED
          BY <4>1, <5>1, <5>2 DEF Strings
      <4>2. CASE w = <<s[i]>>
        BY <3>1, <4>2 DEF Strings
      <4>3. QED
        BY <3>4, <4>1, <4>2
    <3> HIDE DEF w
    <3>6. r[i] = w \o t
      <4>1. <<>> \o w = w
        BY <3>5, ConcatEmptySeq DEF Strings
      <4>2. ~(i > Len(s))
        BY <1>1, <2>3
      <4>3. r[i] = Start(s, i) \o Written(s[i]) \o t
        BY <2>1, <4>2
      <4>4. QED
        BY <3>3, <4>1, <4>3 DEF w
    <3> HIDE DEF t
    <3>7. /\ r[i] \in Strings /\ Len(r[i]) = Len(w) + Len(t)
          /\ \A k \in 1..(Len(w) + Len(t)) : r[i][k] = IF k <= Len(w) THEN w[k] ELSE t[k - Len(w)]
      BY <3>2, <3>5, <3>6, ConcatProperties DEF Strings
    <3>8. ASSUME NEW q \in Nat, At(q, i) PROVE e[q] /\ d[q] = SubSeq(s, i, Len(s))
      <4> DEFINE q1 == q + Len(w)
      <4>1. /\ q \in 1..(Len(u) + 1) /\ Len(u) + 1 = q - 1 + Len(w) + Len(t)
            /\ \A k \in 1..(Len(w) + Len(t) - 1) : u[q - 1 + k] = r[i][k]
        <5>1. /\ q \in 1..(Len(u) + 1) /\ Len(u) + 1 = q - 1 + Len(r[i])
              /\ \A k \in 1..(Len(r[i]) - 1) : u[q - 1 + k] = r[i][k]
          BY <3>8
        <5>2. Len(r[i]) = Len(w) + Len(t)
          BY <3>7
        <5>3. q - 1 + (Len(w) + Len(t)) = q - 1 + Len(w) + Len(t)
          BY <3>2, <3>5
        <5> HIDE DEF At
        <5>4. QED
          BY <5>1, <5>2, <5>3
      <4>2. /\ q1 \in 1..(Len(u) + 1) /\ q1 \in Nat
            /\ Len(u) + 1 = q1 - 1 + Len(t)
        BY <1>1, <3>2, <3>5, <4>1
      <4>3. \A k \in 1..(Len(t) - 1) : u[q1 - 1 + k] = t[k]
        <5>1. TAKE k \in 1..(Len(t) - 1)
        <5>2. /\ Len(w) + k \in 1..(Len(w) + Len(t) - 1) /\ Len(w) + k \in 1..(Len(w) + Len(t))
              /\ ~(Len(w) + k <= Len(w)) /\ (Len(w) + k) - Len(w) = k
              /\ q - 1 + (Len(w) + k) = q1 - 1 + k
          BY <3>2, <3>5
        <5>3. r[i][Len(w) + k] = t[k]
          BY <3>7, <5>2
        <5>4. u[q - 1 + (Len(w) + k)] = r[i][Len(w) + k]
          BY <4>1, <5>2
        <5>5. QED
          BY <5>2, <5>3, <5>4
      <4>4. At(q1, i + 1)
        BY <4>2, <4>3 DEF t
      <4>5. e[q1] /\ d[q1] = SubSeq(s, i + 1, Len(s))
        BY <3>2, <4>2, <4>4
      <4>6. \A k \in 1..Len(w) : u[q - 1 + k] = w[k]
        <5>1. TAKE k \in 1..Len(w)
        <5>2. k \in 1..(Len(w) + Len(t) - 1) /\ k \in 1..(Len(w) + Len(t)) /\ k <= Len(w)
          BY <3>2, <3>5
        <5>3. QED
          BY <3>7, <4>1, <5>2
      <4>7. SubSeq(s, i, Len(s)) = <<s[i]>> \o SubSeq(s, i + 1, Len(s))
        <5>1. Len(s) \in i..Len(s)
          BY <1>1, <3>1
        <5>2. QED
          BY <3>1, <5>1, SubSeqRecursiveFirst DEF Strings
      <4>8. ~(q > Len(u))
        <5>1. q < q1 /\ q1 \in Nat
          <6>1. \A m \in 1..2 : q < q + m /\ q + m \in Nat
            OBVIOUS
          <6>2. QED
            BY <3>5, <6>1
        <5> HIDE DEF q1
        <5>2. q1 <= Len(u) + 1
          BY <1>1, <4>2
        <5>3. QED
          BY <1>1, <5>1, <5>2
      <4>9. CASE w = <<s[i]>> /\ s[i] # Backslash
        <5>1. Len(w) = 1 /\ w[1] = s[i]
          BY <4>9
        <5>2. u[q] = s[i] /\ q1 = q + 1
          <6>1. u[q - 1 + 1] = w[1] /\ q - 1 + 1 = q
            BY <4>6, <5>1
          <6>2. QED
            BY <5>1, <6>1
        <5> HIDE DEF q1
        <5>3. QED
          BY <1>2, <4>1, <4>5, <4>7, <4>8, <4>9, <5>2
      <4>10. ASSUME NEW l \in DOMAIN EscapesRead, w = <<Backslash, l>>, EscapesRead[l] = s[i]
             PROVE  e[q] /\ d[q] = SubSeq(s, i, Len(s))
        <5>1. Len(w) = 2 /\ w[1] = Backslash /\ w[2] = l
          BY <4>10
        <5>2. u[q] = Backslash /\ u[q + 1] = l /\ q1 = q + 2 /\ q < Len(u)
          <6>1. u[q - 1 + 1] = w[1] /\ u[q - 1 + 2] = w[2] /\ q - 1 + 1 = q /\ q - 1 + 2 = q + 1
            BY <4>6, <5>1
          <6>2. q1 = q + 2 /\ q < Len(u)
            BY <1>1, <3>2, <4>1, <5>1
          <6>3. QED
            BY <5>1, <6>1, <6>2
        <5> HIDE DEF q1
        <5>3. QED
          <6>1. d[q] = <<EscapesRead[u[q + 1]]>> \o d[q + 2]
            BY <1>2, <4>1, <4>8, <5>2
          <6>2. e[q]
            BY <1>2, <4>1, <4>5, <4>8, <5>2
          <6>3. QED
            BY <4>5, <4>7, <4>10, <5>2, <6>1, <6>2
      <4>11. QED
        BY <3>4, <4>9, <4>10
    <3>9. Len(r[i]) > 0
      BY <3>2, <3>5, <3>7
    <3>10. QED
      BY <3>7, <3>8, <3>9
  <2>4. QED
    BY <1>1, <2>2, <2>3
<1>4. 1 \in Nat /\ n \in Nat /\ 1 \in 1..n
  BY <1>1
<1> HIDE DEF T, n
<1>5. 1 \in T
  BY <1>3, <1>4, Downwards
<1>6. r[1] \in Strings /\ Len(r[1]) > 0 /\ (At(1, 1) => e[1] /\ d[1] = SubSeq(s, 1, Len(s)))
  BY <1>5 DEF T
<1>7. SubSeq(s, 1, Len(s)) = s
  BY SubSeqFull DEF Strings
<1>8. ASSUME Len(u) + 1 = Len(r[1]), \A k \in 1..Len(u) : u[k] = r[1][k] PROVE At(1, 1)
  <2>1. 1 \in 1..(Len(u) + 1) /\ Len(r[1]) - 1 = Len(u) /\ Len(u) + 1 = 1 - 1 + Len(r[1])
    BY <1>1, <1>8
  <2>2. \A k \in 1..(Len(r[1]) - 1) : k \in 1..Len(u) /\ 1 - 1 + k = k
    BY <2>1
  <2>3. QED
    BY <1>8, <2>1, <2>2
<1> HIDE DEF At
<1>9. QED
  BY <1>6, <1>7, <1>8

\* Every string of characters that can be written is read back.
LEMMA WrittenIsReadBack ==
  ASSUME NEW s \in Strings, ToSet(s) \cap Unwritable = {}
  PROVE  TryGetStringLiteral(QuoteStringForCLiteral(s)) = Read(s)
<1>1. PICK r : Walks("write", s, 1, Len(s) + 1, r) /\ QuoteStringForCLiteral(s) = <<Mark>> \o r[1]
  BY QuoteIs DEF Mark
<1>2. \A i \in 1..Len(s) : s[i] \notin Unwritable
  <2>1. DOMAIN s = 1..Len(s)
    BY LenProperties DEF Strings
  <2>2. QED
    BY <2>1 DEF ToSet
<1>3. r[1] \in Strings /\ Len(r[1]) > 0 /\ Len(r[1]) \in Nat
  <2>1. <<>> \in Strings
    BY EmptySeq DEF Strings
  <2>2. PICK d, e : Walks("read", <<>>, 1, Len(<<>>) + 2, d) /\ Walks("escapes", <<>>, 1, Len(<<>>) + 2, e)
    BY <2>1, UnescapeIs
  <2>3. r[1] \in Strings /\ Len(r[1]) > 0
    BY <1>1, <1>2, <2>1, <2>2, ReadsBack
  <2>4. QED
    BY <2>3, LenProperties DEF Strings
<1> DEFINE q == <<Mark>> \o r[1]
           u == SubSeq(q, 2, Len(q) - 1)
<1>4. /\ q \in Strings /\ Len(q) = Len(r[1]) + 1 /\ q[1] = Mark
      /\ \A k \in 1..Len(r[1]) : q[1 + k] = r[1][k]
  <2>1. <<Mark>> \in Seq(Letters) /\ Len(<<Mark>>) = 1 /\ <<Mark>>[1] = Mark
    <3>1. Mark \in Letters
      BY DEF Letters
    <3>2. QED
      BY <3>1
  <2>2. /\ q \in Strings /\ Len(q) = 1 + Len(r[1])
        /\ \A k \in 1..(1 + Len(r[1])) : q[k] = IF k <= 1 THEN <<Mark>>[k] ELSE r[1][k - 1]
    BY <1>3, <2>1, ConcatProperties DEF Strings
  <2>3. \A k \in 1..Len(r[1]) : 1 + k \in 1..(1 + Len(r[1])) /\ ~(1 + k <= 1) /\ (1 + k) - 1 = k
    BY <1>3
  <2>4. 1 \in 1..(1 + Len(r[1])) /\ 1 <= 1 /\ 1 + Len(r[1]) = Len(r[1]) + 1
    BY <1>3
  <2> HIDE DEF q
  <2>5. QED
    BY <2>1, <2>2, <2>3, <2>4
<1> HIDE DEF q
<1>5. /\ u \in Strings /\ Len(u) = Len(r[1]) - 1
      /\ \A k \in 1..Len(u) : u[k] = r[1][k]
  <2>1. \A k \in 2..(Len(q) - 1) : q[k] \in Letters
    <3>1. \A k \in 2..(Len(q) - 1) : k \in 1..Len(q)
      BY <1>3, <1>4
    <3>2. QED
      BY <1>4, <3>1, ElementOfSeq DEF Strings
  <2>2. 2 \in Int /\ Len(q) - 1 \in Int
    BY <1>3, <1>4
  <2>3. /\ u \in Seq(Letters) /\ Len(u) = IF 2 <= Len(q) - 1 THEN (Len(q) - 1) - 2 + 1 ELSE 0
        /\ \A k \in 1..((Len(q) - 1) - 2 + 1) : u[k] = q[2 + k - 1]
    BY <2>1, <2>2, SubSeqProperties
  <2>4. Len(u) = Len(r[1]) - 1 /\ (Len(q) - 1) - 2 + 1 = Len(r[1]) - 1
    BY <1>3, <1>4, <2>3
  <2>5. \A k \in 1..(Len(r[1]) - 1) : 2 + k - 1 = 1 + k /\ k \in 1..Len(r[1])
    BY <1>3
  <2> HIDE DEF u
  <2>6. QED
    BY <1>4, <2>3, <2>4, <2>5 DEF Strings
<1> HIDE DEF u
<1>6. PICK d, e : /\ Walks("read", u, 1, Len(u) + 2, d)
                  /\ Walks("escapes", u, 1, Len(u) + 2, e)
                  /\ Unescape(u) = IF e[1] THEN Read(d[1]) ELSE NoString
  BY <1>5, UnescapeIs
<1>7. Len(u) + 1 = Len(r[1])
  BY <1>3, <1>5
<1>8. e[1] /\ d[1] = s
  <2>1. Walks("write", s, 1, Len(s) + 1, r)
    BY <1>1
  <2>2. Walks("read", u, 1, Len(u) + 2, d) /\ Walks("escapes", u, 1, Len(u) + 2, e) /\ u \in Strings
    BY <1>5, <1>6
  <2>3. (Len(u) + 1 = Len(r[1]) /\ \A k \in 1..Len(u) : u[k] = r[1][k]) => e[1] /\ d[1] = s
    BY <1>2, <2>1, <2>2, ReadsBack
  <2>4. QED
    BY <1>5, <1>7, <2>3
<1>9. TryGetStringLiteral(q) = Unescape(u)
  BY <1>4 DEF TryGetStringLiteral, u, Mark
<1>10. QED
  BY <1>1, <1>6, <1>8, <1>9 DEF q

\* A constructor that begins with a quotation mark is a literal (text_ast.cpp:33-62), and
\* what it stands for is read again when it is written, unless that holds a character
\* the reader knows no escape for (src2/common.cpp:30-125).
THEOREM LiteralsCorrect == Spec => []LiteralsReadBack
<1>1. ASSUME Inv, NEW k \in DOMAIN nodes, NEW c \in Constructors(k)
      PROVE  c \in Text /\ Closed(c)
  <2>1. nodes[k].ctor \in Constructor /\ nodes[k].field \in Seq(Token)
    <3>1. Placed(nodes, nline + 1)
      BY <1>1, InvIs
    <3>2. QED
      BY <3>1 DEF Placed, Nodes
  <2>2. CASE c = nodes[k].ctor
    BY <2>1, <2>2 DEF Constructor
  <2>3. CASE c \in ToSet(nodes[k].field)
    <3>1. PICK i \in DOMAIN nodes[k].field : c = nodes[k].field[i]
      BY <2>3 DEF ToSet
    <3>2. i \in 1..Len(nodes[k].field)
      BY <2>1, LenProperties
    <3>3. c \in Token
      BY <2>1, <3>1, <3>2, ElementOfSeq
    <3>4. QED
      BY <3>3 DEF Token
  <2>4. QED
    BY <2>2, <2>3 DEF Constructors
<1>2. Inv => LiteralsAreClosed
  BY <1>1 DEF LiteralsAreClosed, Closed, Mark
<1>3. ASSUME Inv, NEW k \in DOMAIN nodes, NEW c \in Constructors(k) \ {<<>>}, TryGetStringLiteral(c) # NoString
      PROVE  LET literal == TryGetStringLiteral(c)
             IN  \/ TryGetStringLiteral(QuoteStringForCLiteral(literal[1])) = literal
                 \/ ToSet(literal[1]) \cap Unwritable # {}
  <2> DEFINE u == SubSeq(c, 2, Len(c) - 1)
  <2>1. TryGetStringLiteral(c) = Unescape(u)
    BY <1>3 DEF TryGetStringLiteral
  <2>2. u \in Strings
    <3>1. c \in Seq(STRING) /\ Len(c) \in Nat
      BY <1>1, <1>3, LenProperties DEF Text
    <3>2. \A i \in 2..(Len(c) - 1) : i \in 1..Len(c)
      BY <3>1
    <3>3. \A i \in 2..(Len(c) - 1) : c[i] \in Letters
      BY <3>1, <3>2, ElementOfSeq DEF Letters
    <3>4. 2 \in Int /\ Len(c) - 1 \in Int
      BY <3>1
    <3>5. QED
      BY <3>3, <3>4, SubSeqProperties DEF Strings
  <2> HIDE DEF u
  <2>3. Unescape(u) = Read(Unescape(u)[1]) /\ Unescape(u)[1] \in Strings
    BY <1>3, <2>1, <2>2, ReadIsText
  <2>4. QED
    BY <2>1, <2>3, WrittenIsReadBack
<1>4. Inv => LiteralsReadBack
  BY <1>2, <1>3 DEF LiteralsReadBack
<1>5. QED
  BY <1>4, Invariance, PTL
=============================================================================
