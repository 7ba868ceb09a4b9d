-------------------------- MODULE AstBuilderProofs --------------------------
(***************************************************************************)
(* Proofs about AstBuilder for every set of texts and every buffer size:   *)
(* no tree comes out of an input that was not read to its end, where the   *)
(* assertion in peek_wora can fail, and that what comes out is what the    *)
(* text stands for in the grammar.                                         *)
(***************************************************************************)
EXTENDS AstBuilder, SequenceTheorems, WellFoundedInduction, TLAPS

-----------------------------------------------------------------------------
(* The recursion of the grammar.                                           *)

\* A set of positions that has every one whose successors up to n it has.
LEMMA FromTheEnd ==
  ASSUME NEW n \in Nat, NEW T,
         \A a \in 0..n : (\A b \in (a + 1)..n : b \in T) => a \in T
  PROVE  \A a \in 0..n : a \in T
<1> DEFINE R == OpToRel(<, Nat)
           Bad == {d \in 0..n : n - d \notin T}
<1>1. IsWellFoundedOn(R, Nat)
  BY NatLessThanWellFounded
<1>2. \A x, y \in Nat : <<x, y>> \in R <=> x < y
  BY DEF OpToRel
<1> HIDE DEF R
<1>3. ASSUME NEW x \in 0..n, x \notin T PROVE Bad # {}
  <2>1. n - x \in 0..n /\ n - (n - x) = x
    OBVIOUS
  <2>2. n - x \in Bad
    BY <1>3, <2>1
  <2>3. QED
    BY <2>2
<1>4. ASSUME Bad # {} PROVE FALSE
  <2>1. Bad \in SUBSET Nat
    OBVIOUS
  <2> HIDE DEF Bad
  <2>2. PICK d \in Bad : \A e \in Bad : ~ (<<e, d>> \in R)
    BY <1>1, <1>4, <2>1, WFMin
  <2>3. d \in 0..n /\ n - d \in 0..n /\ n - d \notin T
    BY DEF Bad
  <2>4. ASSUME NEW b \in (n - d + 1)..n PROVE b \in T
    <3>1. n - b \in 0..n /\ n - b < d /\ n - (n - b) = b
      BY <2>3
    <3>2. n - b \notin Bad
      BY <1>2, <2>1, <2>2, <2>3, <3>1
    <3>3. QED
      BY <3>1, <3>2 DEF Bad
  <2>5. QED
    BY <2>3, <2>4
<1>5. QED
  BY <1>3, <1>4

\* The forests of all segments that start at a position.
Row(s, f, i) == [close \in Ends |-> [j \in 0..Len(s) |-> Segment(s, f, close, i, j)]]

\* A segment's forests follow from those of the segments that start later.
LEMMA RowLocal ==
  ASSUME NEW s, Len(s) \in Nat, NEW i \in 0..Len(s), NEW f, NEW g,
         \A b \in (i + 1)..Len(s) : f[b] = g[b]
  PROVE  Row(s, f, i) = Row(s, g, i)
<1>1. ASSUME NEW close \in Ends, NEW j \in 0..Len(s)
      PROVE  Segment(s, f, close, i, j) = Segment(s, g, close, i, j)
  <2> DEFINE P == {q \in (i..j) \X (i..j) :
                     /\ q[1] < q[2]
                     /\ Blank(s, i, q[1])
                     /\ Fits(s, close, q[1], q[2], j)}
             Of(h, p) == {<<e>> \o rest : e \in Items(s, h, p[1], p[2]), rest \in h[p[2]][close][j]}
  <2>1. ASSUME NEW p \in P PROVE Of(f, p) = Of(g, p)
    <3>1. p[1] \in i..j /\ p[2] \in i..j /\ p[1] < p[2]
      OBVIOUS
    <3>2. p[2] \in (i + 1)..Len(s)
      BY <3>1
    <3>3. f[p[2]] = g[p[2]]
      BY <3>2
    <3>4. p[2] >= p[1] + 2 => p[1] + 1 \in (i + 1)..Len(s)
      BY <3>1
    <3>5. p[2] >= p[1] + 2 => f[p[1] + 1] = g[p[1] + 1]
      BY <3>4
    <3>6. Lists(s, f, p[1], p[2]) = Lists(s, g, p[1], p[2])
      BY <3>5 DEF Lists
    <3>7. Items(s, f, p[1], p[2]) = Items(s, g, p[1], p[2])
      BY <3>6 DEF Items
    <3>8. QED
      BY <3>3, <3>7
  <2>2. \A h : Segment(s, h, close, i, j) = (IF Blank(s, i, j) THEN {<<>>} ELSE {}) \cup UNION {Of(h, p) : p \in P}
    BY DEF Segment
  <2> HIDE DEF Of, P
  <2>3. {Of(f, p) : p \in P} = {Of(g, p) : p \in P}
    BY <2>1
  <2>4. QED
    BY <2>2, <2>3
<1>2. QED
  BY <1>1 DEF Row

Solves(s, f) == f = [i \in 0..Len(s) |-> Row(s, f, i)]

LEMMA Solvable ==
  ASSUME NEW s, Len(s) \in Nat
  PROVE  \E f : Solves(s, f)
<1> DEFINE n == Len(s)
           From_(a, f) == DOMAIN f = a..n /\ \A i \in a..n : f[i] = Row(s, f, i)
           T == {a \in 0..n : \E f : f = [i \in DOMAIN f |-> f[i]] /\ From_(a, f)}
<1>1. ASSUME NEW a \in 0..n, \A b \in (a + 1)..n : b \in T PROVE a \in T
  <2>1. \E f : \A i \in (a + 1)..n : f[i] = Row(s, f, i)
    <3>1. CASE a = n
      BY <3>1
    <3>2. CASE a # n
      <4>1. a + 1 \in (a + 1)..n
        BY <3>2
      <4>2. QED
        BY <1>1, <4>1
    <3>3. QED
      BY <3>1, <3>2
  <2>2. PICK f : \A i \in (a + 1)..n : f[i] = Row(s, f, i)
    BY <2>1
  <2> DEFINE g == [i \in a..n |-> IF i = a THEN Row(s, f, i) ELSE f[i]]
  <2>3. \A b \in (a + 1)..n : g[b] = f[b]
    OBVIOUS
  <2>4. g[a] = Row(s, f, a)
    OBVIOUS
  <2>5. DOMAIN g = a..n /\ g = [i \in DOMAIN g |-> g[i]]
    OBVIOUS
  <2> HIDE DEF g
  <2>6. ASSUME NEW i \in a..n PROVE g[i] = Row(s, g, i)
    <3>1. i \in 0..Len(s) /\ \A b \in (i + 1)..Len(s) : f[b] = g[b]
      BY <2>3
    <3>2. Row(s, f, i) = Row(s, g, i)
      BY <3>1, RowLocal
    <3>3. CASE i = a
      BY <2>4, <3>2, <3>3
    <3>4. CASE i # a
      <4>1. i \in (a + 1)..n
        BY <3>4
      <4>2. QED
        BY <2>2, <2>3, <3>2, <4>1
    <3>5. QED
      BY <3>3, <3>4
  <2>7. QED
    BY <2>5, <2>6
<1>2. n \in Nat
  OBVIOUS
<1> HIDE DEF T, n
<1>3. 0 \in T
  <2>1. \A a \in 0..n : a \in T
    BY <1>1, <1>2, FromTheEnd
  <2>2. QED
    BY <1>2, <2>1
<1>4. PICK f : f = [i \in DOMAIN f |-> f[i]] /\ DOMAIN f = 0..n /\ \A i \in 0..n : f[i] = Row(s, f, i)
  BY <1>3 DEF T
<1>5. QED
  BY <1>4 DEF Solves, n

\* The forests of the segments of a text.
Forest(s) == CHOOSE f : Solves(s, f)

LEMMA ForestIs ==
  ASSUME NEW s, Len(s) \in Nat
  PROVE  /\ \A i \in 0..Len(s), close \in Ends, j \in 0..Len(s) :
              Forest(s)[i][close][j] = Segment(s, Forest(s), close, i, j)
         /\ Forests(s) = Forest(s)[0]["end"][Len(s)]
<1>1. Solves(s, Forest(s))
  BY Solvable DEF Forest
<1>2. \A i \in 0..Len(s) : Forest(s)[i] = Row(s, Forest(s), i)
  BY <1>1 DEF Solves
<1>3. \A i \in 0..Len(s), close \in Ends, j \in 0..Len(s) :
        Forest(s)[i][close][j] = Segment(s, Forest(s), close, i, j)
  <2>1. TAKE i \in 0..Len(s), close \in Ends, j \in 0..Len(s)
  <2>2. Forest(s)[i] = Row(s, Forest(s), i)
    BY <1>2
  <2>3. Row(s, Forest(s), i)[close][j] = Segment(s, Forest(s), close, i, j)
    BY DEF Row
  <2>4. QED
    BY <2>2, <2>3
<1>4. Forests(s) = Forest(s)[0]["end"][Len(s)]
  BY DEF Forests, Forest, Solves, Row
<1>5. QED
  BY <1>3, <1>4

-----------------------------------------------------------------------------
(* What can be read from a position to the end of the brackets it is in.   *)

IsText(s) == s \in Seq(Characters)

\* Where the brackets, or the file, end; and what may follow an item in them.
Ending(s, close, j) == IF close = "end" THEN j = Len(s) ELSE j < Len(s) /\ s[j + 1] = close
Follows(s, close, k) ==
  close # "end" => k < Len(s) /\ s[k + 1] \in {close, COMMENT_CHAR} \cup Blanks

\* Expressions with the position where their bracket closes.
Reads(s, close, i) ==
  UNION {{<<es, j>> : es \in Forest(s)[i][close][j]} : j \in {k \in i..Len(s) : Ending(s, close, k)}}

LEMMA ReadsAre ==
  ASSUME NEW s, NEW close, NEW i, NEW r
  PROVE  r \in Reads(s, close, i) <=>
           \E j \in i..Len(s) : /\ Ending(s, close, j)
                                /\ \E es \in Forest(s)[i][close][j] : r = <<es, j>>
BY DEF Reads

Cons(e, rest) == <<e>> \o rest

\* The forests of a segment, one by one.
SegmentHas(s, close, i, j, es) ==
  \/ Blank(s, i, j) /\ es = <<>>
  \/ \E m, k \in i..j : /\ m < k /\ Blank(s, i, m) /\ Fits(s, close, m, k, j)
                        /\ \E e \in Items(s, Forest(s), m, k) : \E rest \in Forest(s)[k][close][j] :
                             es = Cons(e, rest)

\* An expression before each of some forests.
Extended(A, B) == {<<e>> \o rest : e \in A, rest \in B}

LEMMA ForestHas ==
  ASSUME NEW s, IsText(s), NEW close \in Ends, NEW i \in 0..Len(s), NEW j \in 0..Len(s), NEW es
  PROVE  es \in Forest(s)[i][close][j] <=> SegmentHas(s, close, i, j, es)
<1>1. Len(s) \in Nat
  BY LenProperties DEF IsText
<1>2. Forest(s)[i][close][j] = Segment(s, Forest(s), close, i, j)
  BY <1>1, ForestIs
<1> DEFINE P == {q \in (i..j) \X (i..j) :
                     /\ q[1] < q[2]
                     /\ Blank(s, i, q[1])
                     /\ Fits(s, close, q[1], q[2], j)}
           Of(p) == Extended(Items(s, Forest(s), p[1], p[2]), Forest(s)[p[2]][close][j])
<1>3. Segment(s, Forest(s), close, i, j) =
        (IF Blank(s, i, j) THEN {<<>>} ELSE {}) \cup UNION {Of(p) : p \in P}
  BY DEF Segment, Extended
<1>4. \A m, k : <<m, k>> \in P <=> /\ m \in i..j /\ k \in i..j /\ m < k
                                   /\ Blank(s, i, m) /\ Fits(s, close, m, k, j)
  OBVIOUS
<1>5. \A p \in P : p = <<p[1], p[2]>>
  OBVIOUS
<1>6. \A m, k : es \in Of(<<m, k>>) <=>
        \E e \in Items(s, Forest(s), m, k) : \E rest \in Forest(s)[k][close][j] : es = <<e>> \o rest
  <2>1. TAKE m, k
  <2> DEFINE A == Items(s, Forest(s), m, k)
             B == Forest(s)[k][close][j]
  <2>2. Of(<<m, k>>) = Extended(A, B)
    OBVIOUS
  <2> SUFFICES es \in Extended(A, B) <=> \E e \in A : \E rest \in B : es = <<e>> \o rest
    BY <2>2
  <2> HIDE DEF A, B, Of
  <2>3. QED
    BY DEF Extended
<1> DEFINE Has(m, k) ==
             \E e \in Items(s, Forest(s), m, k) : \E rest \in Forest(s)[k][close][j] : es = <<e>> \o rest
<1> HIDE DEF P, Of
<1>7. es \in Segment(s, Forest(s), close, i, j) <=>
        (Blank(s, i, j) /\ es = <<>>) \/ \E p \in P : es \in Of(p)
  BY <1>3
<1>8. (\E p \in P : es \in Of(p)) <=> \E m, k : <<m, k>> \in P /\ es \in Of(<<m, k>>)
  BY <1>5
<1>9. (\E p \in P : es \in Of(p)) <=>
        \E m, k \in i..j : m < k /\ Blank(s, i, m) /\ Fits(s, close, m, k, j) /\ Has(m, k)
  <2>1. \A m, k : es \in Of(<<m, k>>) <=> Has(m, k)
    BY <1>6
  <2> HIDE DEF Has
  <2>2. QED
    BY <1>4, <1>8, <2>1
<1>10. QED
  BY <1>2, <1>7, <1>9 DEF SegmentHas, Cons

\* The classes of characters differ.
LEMMA Classes ==
  /\ Blanks \cap {COMMENT_CHAR, STRING_QUOTE_CHAR, OPEN_LIST_CHAR, OPEN_FNAPP_CHAR, CLOSE_LIST_CHAR, CLOSE_FNAPP_CHAR} = {}
  /\ COMMENT_CHAR \notin {STRING_QUOTE_CHAR, OPEN_LIST_CHAR, OPEN_FNAPP_CHAR, CLOSE_LIST_CHAR, CLOSE_FNAPP_CHAR}
  /\ (Blanks \cup {COMMENT_CHAR}) \cap (Digits \cup Signs) = {}
  /\ \A c \in Blanks \cup {COMMENT_CHAR} : ~is_symbol_char(c)
  /\ Newline \in Blanks
BY DEF Blanks, Newline, COMMENT_CHAR, STRING_QUOTE_CHAR, OPEN_LIST_CHAR, OPEN_FNAPP_CHAR,
  CLOSE_LIST_CHAR, CLOSE_FNAPP_CHAR, Digits, Signs, is_symbol_char, SPECIAL_CHARS

\* The first character tells the kinds of items apart,
LEMMA FirstCharacters ==
  ASSUME NEW s, IsText(s), NEW m \in Nat, NEW k \in Nat, m < k, k <= Len(s), NEW f
  PROVE  /\ Symbols(s, m, k) # {} =>
              is_symbol_char(s[m + 1]) /\ s[m + 1] \notin Digits \cup Signs \cup {OPEN_FNAPP_CHAR}
         /\ Numbers(s, m, k) # {} => s[m + 1] \in Digits \cup Signs
         /\ Strings(s, m, k) # {} => s[m + 1] = STRING_QUOTE_CHAR
         /\ Lists(s, f, m, k) # {} => s[m + 1] \in {OPEN_LIST_CHAR, OPEN_FNAPP_CHAR}
<1>1. Symbols(s, m, k) # {} =>
        is_symbol_char(s[m + 1]) /\ s[m + 1] \notin Digits \cup Signs \cup {OPEN_FNAPP_CHAR}
  <2>1. m + 1 \in (m + 1)..k
    OBVIOUS
  <2>2. QED
    BY <2>1 DEF Symbols
<1>2. ASSUME Numbers(s, m, k) # {}, s[m + 1] \notin Signs PROVE s[m + 1] \in Digits
  <2> DEFINE Integer(q) == /\ m < q /\ AllIn(s, m, q, Digits)
                           /\ s[m + 1] = "0" => q = m + 1
  <2>1. \E q \in (m + 1)..k : Integer(q)
    <3>1. Integer(k) \/ \E q \in (m + 1)..(k - 2) : Integer(q)
      BY <1>2 DEF Numbers
    <3>2. QED
      BY <3>1
  <2>2. QED
    BY <2>1 DEF AllIn
<1>3. Strings(s, m, k) # {} => s[m + 1] = STRING_QUOTE_CHAR
  BY DEF Strings
<1>4. Lists(s, f, m, k) # {} => s[m + 1] \in {OPEN_LIST_CHAR, OPEN_FNAPP_CHAR}
  BY DEF Lists
<1>5. QED
  BY <1>1, <1>2, <1>3, <1>4

\* which is not that of white space or a comment.
LEMMA ItemStarts ==
  ASSUME NEW s, IsText(s), NEW m \in Nat, NEW k \in Nat, m < k, k <= Len(s), NEW f,
         Items(s, f, m, k) # {}
  PROVE  s[m + 1] \notin Blanks \cup {COMMENT_CHAR}
BY FirstCharacters, Classes DEF Items

\* What is read does not change by skipping to c what stands for nothing.
LEMMA ReadsSkip ==
  ASSUME NEW s, IsText(s), NEW close \in Ends, NEW i \in 0..Len(s), NEW c \in i..Len(s),
         \A m \in c..Len(s) : Blank(s, i, m) <=> Blank(s, c, m),
         \A m \in i..(c - 1) : Blank(s, i, m) => s[m + 1] \in Blanks \cup {COMMENT_CHAR}
  PROVE  Reads(s, close, i) = Reads(s, close, c)
<1>1. Len(s) \in Nat
  BY LenProperties DEF IsText
<1>2. \A m \in i..Len(s), k \in i..Len(s) :
        m < k /\ Blank(s, i, m) /\ Items(s, Forest(s), m, k) # {} => m \in c..Len(s)
  <2>1. TAKE m \in i..Len(s), k \in i..Len(s)
  <2>2. ASSUME m < k, Blank(s, i, m), Items(s, Forest(s), m, k) # {}, m \notin c..Len(s) PROVE FALSE
    <3>1. m \in i..(c - 1) /\ m \in Nat /\ k \in Nat /\ k <= Len(s)
      BY <1>1, <2>2
    <3>2. QED
      BY <2>2, <3>1, ItemStarts
  <2>3. QED
    BY <2>2
<1>3. ASSUME NEW j \in c..Len(s), NEW es
      PROVE  SegmentHas(s, close, i, j, es) <=> SegmentHas(s, close, c, j, es)
  <2>1. Blank(s, i, j) <=> Blank(s, c, j)
    OBVIOUS
  <2>2. ASSUME NEW m \in i..j, NEW k \in i..j, m < k, Blank(s, i, m), Fits(s, close, m, k, j),
               NEW e \in Items(s, Forest(s), m, k), NEW rest \in Forest(s)[k][close][j], es = Cons(e, rest)
        PROVE  SegmentHas(s, close, c, j, es)
    <3>1. m \in i..Len(s) /\ k \in i..Len(s)
      BY <1>1
    <3>2. m \in c..Len(s)
      BY <1>2, <2>2, <3>1
    <3>3. m \in c..j /\ k \in c..j /\ Blank(s, c, m)
      BY <1>1, <2>2, <3>2
    <3>4. QED
      BY <2>2, <3>3 DEF SegmentHas
  <2>3. ASSUME NEW m \in c..j, NEW k \in c..j, m < k, Blank(s, c, m), Fits(s, close, m, k, j),
               NEW e \in Items(s, Forest(s), m, k), NEW rest \in Forest(s)[k][close][j], es = Cons(e, rest)
        PROVE  SegmentHas(s, close, i, j, es)
    <3>1. m \in c..Len(s) /\ m \in i..j /\ k \in i..j
      BY <1>1
    <3>2. Blank(s, i, m)
      BY <2>3, <3>1
    <3>3. QED
      BY <2>3, <3>1, <3>2 DEF SegmentHas
  <2>4. QED
    BY <2>1, <2>2, <2>3 DEF SegmentHas
<1>4. ASSUME NEW j \in i..Len(s), j < c, Ending(s, close, j), NEW es PROVE ~SegmentHas(s, close, i, j, es)
  <2>1. j \in i..(c - 1) /\ j < Len(s)
    BY <1>1, <1>4
  <2>2. close # "end" /\ s[j + 1] = close
    BY <1>4, <2>1 DEF Ending
  <2>3. close \notin Blanks \cup {COMMENT_CHAR}
    BY <2>2, Classes DEF Ends
  <2>4. ~Blank(s, i, j)
    BY <2>1, <2>2, <2>3
  <2>5. \A m, k \in i..j : m < k /\ Blank(s, i, m) => Items(s, Forest(s), m, k) = {}
    <3>1. TAKE m, k \in i..j
    <3>2. m \in i..Len(s) /\ k \in i..Len(s) /\ m \notin c..Len(s)
      BY <1>1, <1>4
    <3>3. QED
      BY <1>2, <3>2
  <2>6. QED
    BY <2>4, <2>5 DEF SegmentHas
<1>5. ASSUME NEW r PROVE r \in Reads(s, close, i) <=> r \in Reads(s, close, c)
  <2>1. i \in 0..Len(s) /\ c \in 0..Len(s) /\ \A j \in i..Len(s) : j \in 0..Len(s)
    BY <1>1
  <2>2. ASSUME r \in Reads(s, close, i) PROVE r \in Reads(s, close, c)
    <3>1. PICK j \in i..Len(s) : Ending(s, close, j) /\ \E es \in Forest(s)[i][close][j] : r = <<es, j>>
      BY <2>2, ReadsAre
    <3>2. PICK es \in Forest(s)[i][close][j] : r = <<es, j>>
      BY <3>1
    <3>3. SegmentHas(s, close, i, j, es)
      BY <2>1, <3>2, ForestHas
    <3>4. j \in c..Len(s)
      <4>1. ~(j < c)
        BY <1>4, <3>1, <3>3
      <4>2. QED
        BY <1>1, <4>1
    <3>5. SegmentHas(s, close, c, j, es)
      BY <1>3, <3>3, <3>4
    <3>6. es \in Forest(s)[c][close][j]
      BY <2>1, <3>5, ForestHas
    <3>7. QED
      BY <3>1, <3>2, <3>4, <3>6, ReadsAre
  <2>3. ASSUME r \in Reads(s, close, c) PROVE r \in Reads(s, close, i)
    <3>1. PICK j \in c..Len(s) : Ending(s, close, j) /\ \E es \in Forest(s)[c][close][j] : r = <<es, j>>
      BY <2>3, ReadsAre
    <3>2. PICK es \in Forest(s)[c][close][j] : r = <<es, j>>
      BY <3>1
    <3>3. j \in i..Len(s)
      BY <1>1
    <3>4. SegmentHas(s, close, c, j, es)
      BY <2>1, <3>2, <3>3, ForestHas
    <3>5. es \in Forest(s)[i][close][j]
      BY <1>3, <2>1, <3>3, <3>4, ForestHas
    <3>6. QED
      BY <3>1, <3>2, <3>3, <3>5, ReadsAre
  <2>4. QED
    BY <2>2, <2>3
<1>6. QED
  <2>1. Reads(s, close, i) \subseteq Reads(s, close, c) /\ Reads(s, close, c) \subseteq Reads(s, close, i)
    BY <1>5
  <2>2. QED
    BY <2>1

LEMMA ReadsBlank ==
  ASSUME NEW s, IsText(s), NEW close \in Ends, NEW i \in Nat, i < Len(s), s[i + 1] \in Blanks
  PROVE  Reads(s, close, i) = Reads(s, close, i + 1)
<1>1. Len(s) \in Nat
  BY LenProperties DEF IsText
<1>2. ASSUME NEW m \in (i + 1)..Len(s) PROVE Blank(s, i, m) <=> Blank(s, i + 1, m)
  <2>1. s[i + 1] # COMMENT_CHAR
    BY Classes
  <2>2. \A p \in (i + 1)..m : InComment(s, i, p) <=> p # i + 1 /\ InComment(s, i + 1, p)
    <3>1. TAKE p \in (i + 1)..m
    <3>2. \A c \in (i + 1)..p : c = i + 1 \/ (c \in ((i + 1) + 1)..p /\ p # i + 1)
      BY <1>1
    <3>3. \A c \in ((i + 1) + 1)..p : c \in (i + 1)..p /\ p # i + 1
      BY <1>1
    <3>4. QED
      BY <2>1, <3>2, <3>3 DEF InComment
  <2>3. \A p \in (i + 1)..m : p = i + 1 \/ p \in ((i + 1) + 1)..m
    BY <1>1
  <2>4. \A p \in ((i + 1) + 1)..m : p \in (i + 1)..m /\ p # i + 1
    BY <1>1
  <2>5. (\A p \in (i + 1)..m : s[p] \in Blanks \/ InComment(s, i, p))
          <=> \A p \in ((i + 1) + 1)..m : s[p] \in Blanks \/ InComment(s, i + 1, p)
    BY <2>2, <2>3, <2>4
  <2>6. m \in (i + 1)..m /\ i < m /\ (i + 1 < m <=> m # i + 1)
    BY <1>1
  <2>7. (m < Len(s) /\ i < m => ~InComment(s, i, m)) <=> (m < Len(s) /\ i + 1 < m => ~InComment(s, i + 1, m))
    BY <2>2, <2>6
  <2>8. QED
    BY <2>5, <2>7 DEF Blank
<1>3. \A m \in i..((i + 1) - 1) : s[m + 1] \in Blanks \cup {COMMENT_CHAR}
  BY <1>1
<1>4. i \in 0..Len(s) /\ i + 1 \in i..Len(s)
  BY <1>1
<1>5. QED
  BY <1>2, <1>3, <1>4, ReadsSkip

\* A comment goes to the end of its line, or of the text.
LEMMA ReadsComment ==
  ASSUME NEW s, IsText(s), NEW close \in Ends, NEW i \in Nat, NEW c \in (i + 1)..Len(s), s[i + 1] = COMMENT_CHAR,
         \A q \in (i + 1)..(c - 1) : s[q] # Newline,
         s[c] = Newline \/ c = Len(s)
  PROVE  Reads(s, close, i) = Reads(s, close, c)
<1>1. Len(s) \in Nat
  BY LenProperties DEF IsText
<1>2. \A p \in (i + 1)..(c - 1) : InComment(s, i, p)
  <2>1. TAKE p \in (i + 1)..(c - 1)
  <2>2. i + 1 \in (i + 1)..p /\ \A q \in (i + 1)..p : q \in (i + 1)..(c - 1)
    BY <1>1
  <2>3. QED
    BY <2>2 DEF InComment
<1>3. ASSUME NEW m \in (i + 1)..(c - 1) PROVE ~Blank(s, i, m)
  <2>1. m < Len(s) /\ i < m
    BY <1>1
  <2>2. QED
    BY <1>2, <2>1 DEF Blank
<1>4. \A m \in i..(c - 1) : Blank(s, i, m) => s[m + 1] \in Blanks \cup {COMMENT_CHAR}
  <2>1. \A m \in i..(c - 1) : m = i \/ m \in (i + 1)..(c - 1)
    BY <1>1
  <2>2. QED
    BY <1>3, <2>1
<1>5. CASE s[c] = Newline
  <2>1. s[c] \in Blanks /\ ~InComment(s, i, c)
    <3>1. \A b \in (i + 1)..c : c \in b..c
      BY <1>1
    <3>2. QED
      BY <1>5, <3>1, Classes DEF InComment
  <2>2. \A p \in (c + 1)..Len(s) : InComment(s, i, p) <=> InComment(s, c, p)
    <3>1. TAKE p \in (c + 1)..Len(s)
    <3>2. \A b \in (i + 1)..p : b \in (c + 1)..p \/ c \in b..p
      BY <1>1
    <3>3. \A b \in (c + 1)..p : b \in (i + 1)..p
      BY <1>1
    <3>4. QED
      BY <1>5, <3>2, <3>3 DEF InComment
  <2>3. ASSUME NEW m \in c..Len(s) PROVE Blank(s, i, m) <=> Blank(s, c, m)
    <3>1. \A p \in (i + 1)..m : p \in (i + 1)..(c - 1) \/ p = c \/ p \in (c + 1)..m
      BY <1>1
    <3>2. \A p \in (c + 1)..m : p \in (i + 1)..m /\ p \in (c + 1)..Len(s)
      BY <1>1
    <3>3. (\A p \in (i + 1)..m : s[p] \in Blanks \/ InComment(s, i, p))
             <=> \A p \in (c + 1)..m : s[p] \in Blanks \/ InComment(s, c, p)
      BY <1>2, <2>1, <2>2, <3>1, <3>2
    <3>4. i < m /\ (m = c \/ (c < m /\ m \in (c + 1)..Len(s))) /\ ~(c < c)
      BY <1>1
    <3>5. (m < Len(s) /\ i < m => ~InComment(s, i, m)) <=> (m < Len(s) /\ c < m => ~InComment(s, c, m))
      BY <2>1, <2>2, <3>4
    <3>6. QED
      BY <3>3, <3>5 DEF Blank
  <2>4. i \in 0..Len(s) /\ c \in i..Len(s)
    BY <1>1
  <2>5. QED
    BY <1>4, <2>3, <2>4, ReadsSkip
<1>6. CASE s[c] # Newline /\ c = Len(s)
  <2>1. InComment(s, i, c)
    <3>1. i + 1 \in (i + 1)..c /\ \A q \in (i + 1)..c : q \in (i + 1)..(c - 1) \/ q = c
      BY <1>1
    <3>2. QED
      BY <1>6, <3>1 DEF InComment
  <2>2. Blank(s, i, c)
    <3>1. \A p \in (i + 1)..c : p \in (i + 1)..(c - 1) \/ p = c
      BY <1>1
    <3>2. ~(c < Len(s))
      BY <1>1, <1>6
    <3>3. QED
      BY <1>2, <2>1, <3>1, <3>2 DEF Blank
  <2>3. Blank(s, c, c)
    BY <1>1, <1>6 DEF Blank
  <2>4. \A m \in c..Len(s) : m = c
    BY <1>1, <1>6
  <2>5. i \in 0..Len(s) /\ c \in i..Len(s)
    BY <1>1
  <2>6. \A m \in c..Len(s) : Blank(s, i, m) <=> Blank(s, c, m)
    BY <2>2, <2>3, <2>4
  <2>7. QED
    BY <1>4, <2>5, <2>6, ReadsSkip
<1>7. QED
  BY <1>5, <1>6

\* Where an item or a bracket starts no white space does.
LEMMA NoBlank ==
  ASSUME NEW s, IsText(s), NEW i \in Nat, i < Len(s), s[i + 1] \notin Blanks \cup {COMMENT_CHAR}
  PROVE  /\ \A m \in i..Len(s) : Blank(s, i, m) => m = i
         /\ Blank(s, i, i)
<1>1. Len(s) \in Nat
  BY LenProperties DEF IsText
<1>2. ~InComment(s, i, i + 1)
  <2>1. \A c \in (i + 1)..(i + 1) : c = i + 1
    BY <1>1
  <2>2. QED
    BY <2>1 DEF InComment
<1>3. ASSUME NEW m \in i..Len(s), m # i PROVE ~Blank(s, i, m)
  <2>1. i + 1 \in (i + 1)..m
    BY <1>1, <1>3
  <2>2. QED
    BY <1>2, <2>1 DEF Blank
<1>4. Blank(s, i, i)
  BY <1>1 DEF Blank
<1>5. QED
  BY <1>3, <1>4

\* Behind the last item comes the bracket,
LEMMA ReadsClose ==
  ASSUME NEW s, IsText(s), NEW close \in Ends \ {"end"}, NEW i \in Nat, i < Len(s), s[i + 1] = close
  PROVE  Reads(s, close, i) = {<<<<>>, i>>}
<1>1. Len(s) \in Nat
  BY LenProperties DEF IsText
<1>2. s[i + 1] \notin Blanks \cup {COMMENT_CHAR}
  BY Classes DEF Ends
<1>3. /\ \A m \in i..Len(s) : Blank(s, i, m) => m = i
      /\ Blank(s, i, i)
  BY <1>2, NoBlank
<1>4. ASSUME NEW j \in i..Len(s), NEW es
      PROVE  SegmentHas(s, close, i, j, es) <=> j = i /\ es = <<>>
  <2>1. Blank(s, i, j) <=> j = i
    BY <1>3
  <2>2. \A m, k \in i..j : Blank(s, i, m) => ~Fits(s, close, m, k, j)
    <3>1. TAKE m, k \in i..j
    <3>2. m \in i..Len(s)
      BY <1>1
    <3>3. QED
      BY <1>3, <3>2 DEF Fits
  <2>3. QED
    BY <2>1, <2>2 DEF SegmentHas
<1>5. i \in i..Len(s) /\ i \in 0..Len(s) /\ Ending(s, close, i) /\ \A j \in i..Len(s) : j \in 0..Len(s)
  BY <1>1 DEF Ending
<1>6. ASSUME NEW r PROVE r \in Reads(s, close, i) <=> r = <<<<>>, i>>
  <2>1. ASSUME r \in Reads(s, close, i) PROVE r = <<<<>>, i>>
    <3>1. PICK j \in i..Len(s) : Ending(s, close, j) /\ \E es \in Forest(s)[i][close][j] : r = <<es, j>>
      BY <2>1, ReadsAre
    <3>2. PICK es \in Forest(s)[i][close][j] : r = <<es, j>>
      BY <3>1
    <3>3. SegmentHas(s, close, i, j, es)
      BY <1>5, <3>2, ForestHas
    <3>4. QED
      BY <1>4, <3>2, <3>3
  <2>2. <<>> \in Forest(s)[i][close][i]
    BY <1>4, <1>5, ForestHas
  <2>3. <<<<>>, i>> \in Reads(s, close, i)
    BY <1>5, <2>2, ReadsAre
  <2>4. QED
    BY <2>1, <2>3
<1>7. QED
  BY <1>6

\* or the end of the file, which no bracket survives.
LEMMA ReadsEnd ==
  ASSUME NEW s, IsText(s), NEW close \in Ends
  PROVE  Reads(s, close, Len(s)) = IF close = "end" THEN {<<<<>>, Len(s)>>} ELSE {}
<1> DEFINE n == Len(s)
<1>1. n \in Nat
  BY LenProperties DEF IsText
<1>2. n \in 0..Len(s) /\ \A j \in n..Len(s) : j = n
  BY <1>1
<1>3. Blank(s, n, n)
  BY <1>1 DEF Blank
<1>4. ASSUME NEW es PROVE SegmentHas(s, close, n, n, es) <=> es = <<>>
  <2>1. \A m, k \in n..n : ~(m < k)
    BY <1>1
  <2>2. QED
    BY <1>3, <2>1 DEF SegmentHas
<1>5. \A es : es \in Forest(s)[n][close][n] <=> es = <<>>
  BY <1>2, <1>4, ForestHas
<1>6. Ending(s, close, n) <=> close = "end"
  BY <1>1 DEF Ending
<1>7. n \in n..Len(s)
  BY <1>1
<1>8. \A r : r \in Reads(s, close, n) <=>
         \E j \in n..Len(s) : Ending(s, close, j) /\ \E es \in Forest(s)[n][close][j] : r = <<es, j>>
  BY ReadsAre
<1> HIDE DEF n
<1>9. \A r : r \in Reads(s, close, n) <=> close = "end" /\ r = <<<<>>, n>>
  BY <1>2, <1>5, <1>6, <1>7, <1>8
<1>10. QED
  <2>1. CASE close = "end"
    BY <1>9, <2>1 DEF n
  <2>2. CASE close # "end"
    BY <1>9, <2>2 DEF n
  <2>3. QED
    BY <2>1, <2>2

\* An item comes first, then what can be read behind it.
LEMMA ReadsItem ==
  ASSUME NEW s, IsText(s), NEW close \in Ends, NEW i \in Nat, i < Len(s),
         s[i + 1] \notin Blanks \cup {COMMENT_CHAR}, s[i + 1] # close, NEW r
  PROVE  r \in Reads(s, close, i) <=>
           \E k \in (i + 1)..Len(s) :
             /\ Follows(s, close, k)
             /\ \E e \in Items(s, Forest(s), i, k) : \E r2 \in Reads(s, close, k) :
                  r = <<Cons(e, r2[1]), r2[2]>>
<1>1. Len(s) \in Nat
  BY LenProperties DEF IsText
<1>2. /\ \A m \in i..Len(s) : Blank(s, i, m) => m = i
      /\ Blank(s, i, i)
  BY NoBlank
<1>3. ASSUME r \in Reads(s, close, i)
      PROVE  \E k \in (i + 1)..Len(s) :
               /\ Follows(s, close, k)
               /\ \E e \in Items(s, Forest(s), i, k) : \E r2 \in Reads(s, close, k) :
                    r = <<Cons(e, r2[1]), r2[2]>>
  <2>1. PICK j \in i..Len(s) : Ending(s, close, j) /\ \E es \in Forest(s)[i][close][j] : r = <<es, j>>
    BY <1>3, ReadsAre
  <2>2. PICK es \in Forest(s)[i][close][j] : r = <<es, j>>
    BY <2>1
  <2>3. i \in 0..Len(s) /\ j \in 0..Len(s)
    BY <1>1
  <2>4. SegmentHas(s, close, i, j, es)
    BY <2>2, <2>3, ForestHas
  <2>5. ~(Blank(s, i, j) /\ es = <<>>)
    BY <1>1, <1>2, <2>1 DEF Ending
  <2>6. PICK m \in i..j, k \in i..j :
               /\ m < k /\ Blank(s, i, m) /\ Fits(s, close, m, k, j)
               /\ \E e \in Items(s, Forest(s), m, k) : \E rest \in Forest(s)[k][close][j] : es = Cons(e, rest)
    BY <2>4, <2>5 DEF SegmentHas
  <2>7. m = i
    <3>1. m \in i..Len(s)
      BY <1>1
    <3>2. QED
      BY <1>2, <2>6, <3>1
  <2>8. PICK e \in Items(s, Forest(s), i, k) : \E rest \in Forest(s)[k][close][j] : es = Cons(e, rest)
    BY <2>6, <2>7
  <2>9. PICK rest \in Forest(s)[k][close][j] : es = Cons(e, rest)
    BY <2>8
  <2>10. k \in (i + 1)..Len(s) /\ j \in k..Len(s) /\ (k = j \/ k < Len(s))
    BY <1>1, <2>6, <2>7
  <2>11. <<rest, j>> \in Reads(s, close, k)
    BY <2>1, <2>9, <2>10, ReadsAre
  <2>12. Follows(s, close, k)
    BY <2>1, <2>6, <2>7, <2>10 DEF Follows, Fits, Ending
  <2>13. r = <<Cons(e, <<rest, j>>[1]), <<rest, j>>[2]>>
    BY <2>2, <2>9
  <2> HIDE DEF Cons
  <2>14. QED
    BY <2>10, <2>11, <2>12, <2>13
<1>4. ASSUME NEW k \in (i + 1)..Len(s), Follows(s, close, k),
             NEW e \in Items(s, Forest(s), i, k), NEW r2 \in Reads(s, close, k),
             r = <<Cons(e, r2[1]), r2[2]>>
      PROVE  r \in Reads(s, close, i)
  <2>1. PICK j \in k..Len(s) : Ending(s, close, j) /\ \E es \in Forest(s)[k][close][j] : r2 = <<es, j>>
    BY ReadsAre
  <2>2. PICK rest \in Forest(s)[k][close][j] : r2 = <<rest, j>>
    BY <2>1
  <2>3. k \in Nat /\ i \in i..j /\ k \in i..j /\ i < k /\ j \in i..Len(s) /\ i \in 0..Len(s) /\ j \in 0..Len(s)
    BY <1>1
  <2>4. CASE close # "end" /\ s[k + 1] = close
    <3>1. k < Len(s)
      BY <1>4, <2>4 DEF Follows
    <3>2. r2 = <<<<>>, k>>
      BY <2>3, <2>4, <3>1, ReadsClose
    <3>3. Fits(s, close, i, k, j)
      BY <2>2, <3>2 DEF Fits
    <3>4. QED
      <4>1. SegmentHas(s, close, i, j, Cons(e, rest))
        BY <1>2, <2>3, <3>3 DEF SegmentHas
      <4>2. Cons(e, rest) \in Forest(s)[i][close][j]
        BY <2>3, <4>1, ForestHas
      <4>3. r = <<Cons(e, rest), j>>
        BY <1>4, <2>2
      <4>4. QED
        BY <2>1, <2>3, <4>2, <4>3, ReadsAre
  <2>5. CASE ~(close # "end" /\ s[k + 1] = close)
    <3>1. Fits(s, close, i, k, j)
      BY <1>4, <2>5 DEF Fits, Follows
    <3>2. SegmentHas(s, close, i, j, Cons(e, rest))
      BY <1>2, <2>3, <3>1 DEF SegmentHas
    <3>3. Cons(e, rest) \in Forest(s)[i][close][j]
      BY <2>3, <3>2, ForestHas
    <3>4. r = <<Cons(e, rest), j>>
      BY <1>4, <2>2
    <3>5. QED
      BY <2>1, <2>3, <3>3, <3>4, ReadsAre
  <2>6. QED
    BY <2>4, <2>5
<1>5. QED
  BY <1>3, <1>4

-----------------------------------------------------------------------------
(* What was read before something else.                                    *)

IsList(es) == \E S : es \in Seq(S)
AllLists(R) == \A r \in R : IsList(r[1]) /\ r = <<r[1], r[2]>>
Join(es, ys) == es \o ys
After(es, R) == {<<Join(es, r[1]), r[2]>> : r \in R}

LEMMA Together ==
  ASSUME NEW es, NEW ys, IsList(es), IsList(ys)
  PROVE  IsList(Join(es, ys))
<1>1. PICK S, T : es \in Seq(S) /\ ys \in Seq(T)
  BY DEF IsList
<1>2. es \in Seq(S \cup T) /\ ys \in Seq(S \cup T)
  BY <1>1, SeqDef
<1>3. QED
  BY <1>2, ConcatProperties DEF IsList, Join

LEMMA OneIsList == /\ IsList(<<>>) /\ \A e : IsList(<<e>>)
<1>1. <<>> \in Seq({}) /\ \A e : <<e>> \in Seq({e})
  OBVIOUS
<1>2. QED
  BY <1>1 DEF IsList

LEMMA ListLength == ASSUME NEW es, IsList(es) PROVE Len(es) \in Nat /\ DOMAIN es = 1..Len(es)
BY LenProperties DEF IsList

LEMMA Associates ==
  ASSUME NEW es, NEW ys, NEW zs, IsList(es), IsList(ys), IsList(zs)
  PROVE  Join(Join(es, ys), zs) = Join(es, Join(ys, zs))
<1>1. PICK S, T, U : es \in Seq(S) /\ ys \in Seq(T) /\ zs \in Seq(U)
  BY DEF IsList
<1> DEFINE V == S \cup T \cup U
<1>2. es \in Seq(V) /\ ys \in Seq(V) /\ zs \in Seq(V)
  BY <1>1, SeqDef
<1> HIDE DEF V
<1>3. QED
  BY <1>2, ConcatAssociative DEF Join

LEMMA WithNothing ==
  ASSUME NEW es, IsList(es)
  PROVE  Join(<<>>, es) = es /\ Join(es, <<>>) = es
<1>1. PICK S : es \in Seq(S)
  BY DEF IsList
<1>2. QED
  BY <1>1, ConcatEmptySeq DEF Join

LEMMA AfterLists ==
  ASSUME NEW es, IsList(es), NEW R, AllLists(R)
  PROVE  AllLists(After(es, R))
<1> SUFFICES ASSUME NEW q \in After(es, R) PROVE IsList(q[1]) /\ q = <<q[1], q[2]>>
  BY DEF AllLists
<1>1. PICK r \in R : q = <<Join(es, r[1]), r[2]>>
  BY DEF After
<1>2. IsList(r[1])
  BY DEF AllLists
<1>3. IsList(Join(es, r[1]))
  BY <1>2, Together
<1>4. QED
  BY <1>1, <1>3

LEMMA AfterNothing == ASSUME NEW R, AllLists(R) PROVE After(<<>>, R) = R
<1>1. \A r \in R : <<Join(<<>>, r[1]), r[2]>> = r
  BY WithNothing DEF AllLists
<1>2. QED
  BY <1>1 DEF After

LEMMA AfterTwice ==
  ASSUME NEW es, NEW ys, IsList(es), IsList(ys), NEW R, AllLists(R)
  PROVE  After(es, After(ys, R)) = After(Join(es, ys), R)
<1>1. ASSUME NEW r \in R PROVE <<Join(es, Join(ys, r[1])), r[2]>> = <<Join(Join(es, ys), r[1]), r[2]>>
  <2>1. IsList(r[1])
    BY DEF AllLists
  <2>2. QED
    BY <2>1, Associates
<1>2. ASSUME NEW q \in After(es, After(ys, R)) PROVE q \in After(Join(es, ys), R)
  <2>1. PICK p \in After(ys, R) : q = <<Join(es, p[1]), p[2]>>
    BY DEF After
  <2>2. PICK r \in R : p = <<Join(ys, r[1]), r[2]>>
    BY DEF After
  <2>3. q = <<Join(es, Join(ys, r[1])), r[2]>>
    BY <2>1, <2>2
  <2>4. q = <<Join(Join(es, ys), r[1]), r[2]>>
    BY <1>1, <2>3
  <2>5. QED
    BY <2>4 DEF After
<1>3. ASSUME NEW q \in After(Join(es, ys), R) PROVE q \in After(es, After(ys, R))
  <2>1. PICK r \in R : q = <<Join(Join(es, ys), r[1]), r[2]>>
    BY DEF After
  <2>2. q = <<Join(es, Join(ys, r[1])), r[2]>>
    BY <1>1, <2>1
  <2>3. <<Join(ys, r[1]), r[2]>> \in After(ys, R)
    BY DEF After
  <2>4. q = <<Join(es, <<Join(ys, r[1]), r[2]>>[1]), <<Join(ys, r[1]), r[2]>>[2]>>
    BY <2>2
  <2>5. QED
    BY <2>3, <2>4 DEF After
<1>4. QED
  BY <1>2, <1>3

LEMMA AfterNone == \A es : After(es, {}) = {}
BY DEF After

LEMMA AfterEnd == ASSUME NEW es, IsList(es), NEW k PROVE After(es, {<<<<>>, k>>}) = {<<es, k>>}
<1>1. Join(es, <<>>) = es
  BY WithNothing
<1>2. After(es, {<<<<>>, k>>}) = {<<Join(es, <<>>), k>>}
  BY DEF After
<1>3. QED
  BY <1>1, <1>2

\* The forests are lists.
LEMMA ReadsLists ==
  ASSUME NEW s, IsText(s), NEW close \in Ends, NEW i \in 0..Len(s)
  PROVE  AllLists(Reads(s, close, i))
<1> DEFINE n == Len(s)
           T == {a \in 0..n : \A c \in Ends, j \in 0..n : \A es \in Forest(s)[a][c][j] : IsList(es)}
<1>1. n \in Nat
  BY LenProperties DEF IsText
<1>2. ASSUME NEW a \in 0..n, \A b \in (a + 1)..n : b \in T PROVE a \in T
  <2>1. SUFFICES ASSUME NEW c \in Ends, NEW j \in 0..n, NEW es \in Forest(s)[a][c][j] PROVE IsList(es)
    OBVIOUS
  <2>2. SegmentHas(s, c, a, j, es)
    BY <2>1, ForestHas
  <2>3. ASSUME NEW m \in a..j, NEW k \in a..j, m < k, NEW e, NEW rest \in Forest(s)[k][c][j], es = Cons(e, rest)
        PROVE  IsList(es)
    <3>1. k \in (a + 1)..n
      BY <1>1, <2>3
    <3>2. IsList(rest)
      BY <1>2, <3>1
    <3>3. QED
      BY <2>3, <3>2, Together, OneIsList DEF Cons, Join
  <2>4. QED
    BY <2>2, <2>3, OneIsList DEF SegmentHas
<1> HIDE DEF T
<1>3. \A a \in 0..n : a \in T
  BY <1>1, <1>2, FromTheEnd
<1>4. i \in T
  BY <1>3 DEF n
<1>5. ASSUME NEW r \in Reads(s, close, i) PROVE IsList(r[1]) /\ r = <<r[1], r[2]>>
  <2>1. PICK j \in i..Len(s) : \E es \in Forest(s)[i][close][j] : r = <<es, j>>
    BY ReadsAre
  <2>2. PICK es \in Forest(s)[i][close][j] : r = <<es, j>>
    BY <2>1
  <2>3. j \in 0..n
    BY <1>1 DEF n
  <2>4. IsList(es)
    BY <1>4, <2>3 DEF T
  <2>5. QED
    BY <2>2, <2>4
<1>6. QED
  BY <1>5 DEF AllLists

\* What can be read behind an item.
Rest(s, close, k) == IF Follows(s, close, k) THEN Reads(s, close, k) ELSE {}

LEMMA RestLists ==
  ASSUME NEW s, IsText(s), NEW close \in Ends, NEW k \in 0..Len(s)
  PROVE  AllLists(Rest(s, close, k))
BY ReadsLists DEF Rest, AllLists

\* If only one item can start at a position, it is read;
LEMMA ReadsOne ==
  ASSUME NEW s, IsText(s), NEW close \in Ends, NEW i \in Nat, i < Len(s),
         s[i + 1] \notin Blanks \cup {COMMENT_CHAR}, s[i + 1] # close,
         NEW l \in (i + 1)..Len(s), NEW e,
         \A k \in (i + 1)..Len(s) : Items(s, Forest(s), i, k) = IF k = l THEN {e} ELSE {}
  PROVE  Reads(s, close, i) = After(<<e>>, Rest(s, close, l))
<1>1. \A k \in (i + 1)..Len(s) : \A x : x \in Items(s, Forest(s), i, k) <=> k = l /\ x = e
  <2>1. TAKE k \in (i + 1)..Len(s)
  <2>2. TAKE x
  <2>3. CASE k = l
    BY <2>3
  <2>4. CASE k # l
    BY <2>4
  <2>5. QED
    BY <2>3, <2>4
<1>2. ASSUME NEW r
      PROVE  r \in Reads(s, close, i) <=> \E r2 \in Rest(s, close, l) : r = <<Cons(e, r2[1]), r2[2]>>
  <2>1. r \in Reads(s, close, i) <=>
           \E k \in (i + 1)..Len(s) :
             /\ Follows(s, close, k)
             /\ \E x \in Items(s, Forest(s), i, k) : \E r2 \in Reads(s, close, k) :
                  r = <<Cons(x, r2[1]), r2[2]>>
    BY ReadsItem
  <2>2. r \in Reads(s, close, i) <=>
           Follows(s, close, l) /\ \E r2 \in Reads(s, close, l) : r = <<Cons(e, r2[1]), r2[2]>>
    BY <1>1, <2>1
  <2>3. QED
    BY <2>2 DEF Rest
<1>3. \A r : r \in After(<<e>>, Rest(s, close, l)) <=> \E r2 \in Rest(s, close, l) : r = <<Cons(e, r2[1]), r2[2]>>
  BY DEF After, Cons, Join
<1>4. QED
  BY <1>2, <1>3

\* if none can, nothing is.
LEMMA ReadsNone ==
  ASSUME NEW s, IsText(s), NEW close \in Ends, NEW i \in Nat, i < Len(s),
         s[i + 1] \notin Blanks \cup {COMMENT_CHAR}, s[i + 1] # close,
         \A k \in (i + 1)..Len(s) : Items(s, Forest(s), i, k) = {}
  PROVE  Reads(s, close, i) = {}
<1>1. ASSUME NEW r PROVE r \notin Reads(s, close, i)
  BY ReadsItem
<1>2. QED
  BY <1>1

\* A list is what can be read to its closing bracket.
LEMMA ListItems ==
  ASSUME NEW s, IsText(s), NEW i \in Nat, NEW k \in (i + 1)..Len(s),
         s[i + 1] \in {OPEN_LIST_CHAR, OPEN_FNAPP_CHAR}, NEW e
  PROVE  e \in Items(s, Forest(s), i, k) <=>
           \E r \in Reads(s, Closing(s[i + 1]), i + 1) :
             k = r[2] + 1 /\ e = List(s[i + 1] = OPEN_FNAPP_CHAR, r[1])
<1> DEFINE close == Closing(s[i + 1])
           Of(es) == List(s[i + 1] = OPEN_FNAPP_CHAR, es)
<1>1. Len(s) \in Nat
  BY LenProperties DEF IsText
<1>2. close \in Ends \ {"end"}
  BY DEF Closing, Ends, CLOSE_LIST_CHAR, CLOSE_FNAPP_CHAR
<1>3. /\ s[i + 1] \notin Digits \cup Signs \cup {STRING_QUOTE_CHAR}
      /\ ~is_symbol_char(s[i + 1]) \/ s[i + 1] = OPEN_FNAPP_CHAR
  BY DEF Digits, Signs, STRING_QUOTE_CHAR, OPEN_LIST_CHAR, OPEN_FNAPP_CHAR, is_symbol_char, SPECIAL_CHARS
<1>4. i < k /\ k <= Len(s) /\ k \in Nat
  BY <1>1
<1>5. Items(s, Forest(s), i, k) = Lists(s, Forest(s), i, k)
  BY <1>3, <1>4, FirstCharacters DEF Items
<1>6. e \in Lists(s, Forest(s), i, k) <=>
        k >= i + 2 /\ s[k] = close /\ \E es \in Forest(s)[i + 1][close][k - 1] : e = Of(es)
  BY DEF Lists
<1>7. ASSUME NEW es PROVE <<es, k - 1>> \in Reads(s, close, i + 1) <=>
                              k >= i + 2 /\ s[k] = close /\ es \in Forest(s)[i + 1][close][k - 1]
  <2>1. k - 1 \in (i + 1)..Len(s) <=> k >= i + 2
    BY <1>1
  <2>2. k - 1 < Len(s) /\ (k - 1) + 1 = k
    BY <1>1
  <2>3. Ending(s, close, k - 1) <=> s[k] = close
    BY <1>2, <2>2 DEF Ending
  <2>4. <<es, k - 1>> \in Reads(s, close, i + 1) <=>
           \E j \in (i + 1)..Len(s) : /\ Ending(s, close, j)
                                      /\ \E ys \in Forest(s)[i + 1][close][j] : <<es, k - 1>> = <<ys, j>>
    BY ReadsAre
  <2> HIDE DEF close
  <2>5. QED
    BY <2>1, <2>3, <2>4
<1>8. \A r \in Reads(s, close, i + 1) : r = <<r[1], r[2]>> /\ (k = r[2] + 1 => r[2] = k - 1)
  <2>1. TAKE r \in Reads(s, close, i + 1)
  <2>2. PICK j \in (i + 1)..Len(s) : \E es \in Forest(s)[i + 1][close][j] : r = <<es, j>>
    BY ReadsAre
  <2>3. QED
    BY <1>1, <2>2
<1>9. (k - 1) + 1 = k
  BY <1>1
<1> HIDE DEF close, Of
<1>10. (\E r \in Reads(s, close, i + 1) : k = r[2] + 1 /\ e = Of(r[1]))
         <=> \E es : <<es, k - 1>> \in Reads(s, close, i + 1) /\ e = Of(es)
  <2>1. ASSUME NEW r \in Reads(s, close, i + 1), k = r[2] + 1, e = Of(r[1])
        PROVE  \E es : <<es, k - 1>> \in Reads(s, close, i + 1) /\ e = Of(es)
    <3>1. r = <<r[1], k - 1>>
      BY <1>8, <2>1
    <3>2. QED
      BY <2>1, <3>1
  <2>2. ASSUME NEW es, <<es, k - 1>> \in Reads(s, close, i + 1), e = Of(es)
        PROVE  \E r \in Reads(s, close, i + 1) : k = r[2] + 1 /\ e = Of(r[1])
    <3>1. k = <<es, k - 1>>[2] + 1 /\ e = Of(<<es, k - 1>>[1])
      BY <1>9, <2>2
    <3>2. QED
      BY <2>2, <3>1
  <2>3. QED
    BY <2>1, <2>2
<1>11. QED
  <2>1. e \in Items(s, Forest(s), i, k) <=> \E r \in Reads(s, close, i + 1) : k = r[2] + 1 /\ e = Of(r[1])
    BY <1>5, <1>6, <1>7, <1>10
  <2>2. QED
    BY <2>1 DEF close, Of

\* The list that starts after position i.
ListAt(s, i, es) == List(s[i + 1] = OPEN_FNAPP_CHAR, es)

LEMMA OpensNoItem ==
  ASSUME NEW s, NEW i, NEW close \in Ends, s[i + 1] \in {OPEN_LIST_CHAR, OPEN_FNAPP_CHAR}
  PROVE  s[i + 1] \notin Blanks \cup {COMMENT_CHAR} /\ s[i + 1] # close
BY Classes DEF Ends, OPEN_LIST_CHAR, OPEN_FNAPP_CHAR, CLOSE_LIST_CHAR, CLOSE_FNAPP_CHAR

\* If nothing can be read in a list, it is no item;
LEMMA ReadsNoList ==
  ASSUME NEW s, IsText(s), NEW close \in Ends, NEW i \in Nat, i < Len(s),
         s[i + 1] \in {OPEN_LIST_CHAR, OPEN_FNAPP_CHAR},
         Reads(s, Closing(s[i + 1]), i + 1) = {}
  PROVE  Reads(s, close, i) = {}
<1>1. Len(s) \in Nat
  BY LenProperties DEF IsText
<1>2. ASSUME NEW k \in (i + 1)..Len(s) PROVE Items(s, Forest(s), i, k) = {}
  <2>1. \A e : e \notin Items(s, Forest(s), i, k)
    BY ListItems
  <2>2. QED
    BY <2>1
<1>3. QED
  BY <1>2, OpensNoItem, ReadsNone

\* if one forest can, the list of it is read first.
LEMMA ReadsList ==
  ASSUME NEW s, IsText(s), NEW close \in Ends, NEW i \in Nat, i < Len(s),
         s[i + 1] \in {OPEN_LIST_CHAR, OPEN_FNAPP_CHAR}, NEW es, NEW l,
         Reads(s, Closing(s[i + 1]), i + 1) = {<<es, l>>}
  PROVE  /\ l \in Nat /\ l + 1 \in (i + 1)..Len(s)
         /\ Reads(s, close, i) = After(<<ListAt(s, i, es)>>, Rest(s, close, l + 1))
<1> DEFINE inner == Closing(s[i + 1])
<1>1. Len(s) \in Nat
  BY LenProperties DEF IsText
<1>2. inner \in Ends \ {"end"}
  BY DEF Closing, Ends, CLOSE_LIST_CHAR, CLOSE_FNAPP_CHAR
<1>3. <<es, l>> \in Reads(s, inner, i + 1)
  OBVIOUS
<1>4. PICK j \in (i + 1)..Len(s) : /\ Ending(s, inner, j)
                                   /\ \E ys \in Forest(s)[i + 1][inner][j] : <<es, l>> = <<ys, j>>
  BY <1>3, ReadsAre
<1>5. l = j /\ l < Len(s)
  BY <1>2, <1>4 DEF Ending
<1>6. l \in Nat /\ l + 1 \in (i + 1)..Len(s)
  BY <1>1, <1>4, <1>5
<1>7. ASSUME NEW k \in (i + 1)..Len(s)
      PROVE  Items(s, Forest(s), i, k) = IF k = l + 1 THEN {ListAt(s, i, es)} ELSE {}
  <2>1. \A e : e \in Items(s, Forest(s), i, k) <=> \E r \in Reads(s, inner, i + 1) : k = r[2] + 1 /\ e = ListAt(s, i, r[1])
    BY ListItems DEF ListAt
  <2>2. \A r : r \in Reads(s, inner, i + 1) <=> r = <<es, l>>
    OBVIOUS
  <2>3. <<es, l>>[1] = es /\ <<es, l>>[2] = l
    OBVIOUS
  <2> HIDE DEF inner
  <2>4. \A e : (\E r \in Reads(s, inner, i + 1) : k = r[2] + 1 /\ e = ListAt(s, i, r[1])) <=> k = l + 1 /\ e = ListAt(s, i, es)
    BY <2>2, <2>3
  <2>5. Items(s, Forest(s), i, k) = IF k = l + 1 THEN {ListAt(s, i, es)} ELSE {}
    BY <2>1, <2>4
  <2>6. QED
    BY <2>5
<1>8. s[i + 1] \notin Blanks \cup {COMMENT_CHAR} /\ s[i + 1] # close
  BY OpensNoItem
<1>9. Reads(s, close, i) = After(<<ListAt(s, i, es)>>, Rest(s, close, l + 1))
  <2> DEFINE e == ListAt(s, i, es)
             m == l + 1
  <2>1. m \in (i + 1)..Len(s)
    BY <1>6
  <2>2. \A k \in (i + 1)..Len(s) : Items(s, Forest(s), i, k) = IF k = m THEN {e} ELSE {}
    BY <1>7
  <2> HIDE DEF e, m
  <2>3. Reads(s, close, i) = After(<<e>>, Rest(s, close, m))
    BY <1>8, <2>1, <2>2, ReadsOne
  <2>4. QED
    BY <2>3 DEF e, m
<1>10. QED
  BY <1>6, <1>9

-----------------------------------------------------------------------------
(* The tokens of the grammar: at most one starts at a position.            *)

LEMMA OnlySymbols ==
  ASSUME NEW s, IsText(s), NEW i \in Nat, NEW k \in (i + 1)..Len(s),
         s[i + 1] \notin Digits \cup Signs \cup {STRING_QUOTE_CHAR, OPEN_LIST_CHAR, OPEN_FNAPP_CHAR}
  PROVE  Items(s, Forest(s), i, k) = Symbols(s, i, k)
<1>1. Len(s) \in Nat
  BY LenProperties DEF IsText
<1>2. i < k /\ k <= Len(s) /\ k \in Nat
  BY <1>1
<1>3. QED
  BY <1>2, FirstCharacters DEF Items

LEMMA OnlyNumbers ==
  ASSUME NEW s, IsText(s), NEW i \in Nat, NEW k \in (i + 1)..Len(s), s[i + 1] \in Digits \cup Signs
  PROVE  Items(s, Forest(s), i, k) = Numbers(s, i, k)
<1>1. Len(s) \in Nat
  BY LenProperties DEF IsText
<1>2. i < k /\ k <= Len(s) /\ k \in Nat
  BY <1>1
<1>3. s[i + 1] \notin {STRING_QUOTE_CHAR, OPEN_LIST_CHAR, OPEN_FNAPP_CHAR}
  BY DEF Digits, Signs, STRING_QUOTE_CHAR, OPEN_LIST_CHAR, OPEN_FNAPP_CHAR
<1>4. QED
  BY <1>2, <1>3, FirstCharacters DEF Items

LEMMA OnlyStrings ==
  ASSUME NEW s, IsText(s), NEW i \in Nat, NEW k \in (i + 1)..Len(s), s[i + 1] = STRING_QUOTE_CHAR
  PROVE  Items(s, Forest(s), i, k) = Strings(s, i, k)
<1>1. Len(s) \in Nat
  BY LenProperties DEF IsText
<1>2. i < k /\ k <= Len(s) /\ k \in Nat
  BY <1>1
<1>3. s[i + 1] \notin Digits \cup Signs \cup {OPEN_LIST_CHAR, OPEN_FNAPP_CHAR} /\ ~is_symbol_char(s[i + 1])
  BY DEF Digits, Signs, STRING_QUOTE_CHAR, OPEN_LIST_CHAR, OPEN_FNAPP_CHAR, is_symbol_char, SPECIAL_CHARS
<1>4. QED
  BY <1>2, <1>3, FirstCharacters DEF Items

LEMMA TextHas == ASSUME NEW s, IsText(s) PROVE Len(s) \in Nat /\ \A p \in 1..Len(s) : s[p] \in Characters
BY LenProperties, ElementOfSeq DEF IsText

\* A symbol ends where its characters do.
LEMMA SymbolsAre ==
  ASSUME NEW s, IsText(s), NEW i \in Nat, NEW l \in i..Len(s), NEW k \in (i + 1)..Len(s),
         s[i + 1] \notin Digits \cup Signs \cup {OPEN_FNAPP_CHAR},
         \A p \in (i + 1)..l : is_symbol_char(s[p]),
         l < Len(s) => ~is_symbol_char(s[l + 1])
  PROVE  Symbols(s, i, k) = IF k = l THEN {Token(SubSeq(s, i + 1, l), "STRING")} ELSE {}
<1>1. Len(s) \in Nat /\ \A p \in 1..Len(s) : s[p] \in Characters
  BY TextHas
<1>2. CASE k = l
  <2>1. Before(s, l, {c \in Characters : ~is_symbol_char(c)})
    <3>1. l < Len(s) => l + 1 \in 1..Len(s)
      BY <1>1
    <3>2. QED
      BY <1>1, <3>1 DEF Before
  <2>2. i < k
    BY <1>1
  <2>3. QED
    BY <1>2, <2>1, <2>2 DEF Symbols
<1>3. CASE k < l
  <2>1. k < Len(s) /\ k + 1 \in (i + 1)..l
    BY <1>1, <1>3
  <2>2. ~Before(s, k, {c \in Characters : ~is_symbol_char(c)})
    BY <2>1 DEF Before
  <2>3. QED
    BY <1>3, <2>2 DEF Symbols
<1>4. CASE l < k
  <2>1. l < Len(s) /\ l + 1 \in (i + 1)..k
    BY <1>1, <1>4
  <2>2. QED
    BY <1>4, <2>1 DEF Symbols
<1>5. QED
  BY <1>1, <1>2, <1>3, <1>4

\* Where the digits of a number start, and its text.
IntegerAt(s, i) == IF s[i + 1] \in Signs THEN i + 1 ELSE i
NumberAt(s, i) == IF s[i + 1] = "+" THEN i + 2 ELSE i + 1
\* An integer, and the two kinds of numbers.
IntegerTo(s, z, m) == z < m /\ AllIn(s, z, m, Digits) /\ (s[z + 1] = "0" => m = z + 1)
WholeTo(s, z, j) ==
  /\ IntegerTo(s, z, j)
  /\ Before(s, j, Characters \ {"."})
  /\ s[z + 1] # "0" => Before(s, j, Characters \ Digits)
DecimalTo(s, z, j) ==
  \E m \in (z + 1)..(j - 2) :
    /\ IntegerTo(s, z, m)
    /\ s[m + 1] = "."
    /\ AllIn(s, m + 1, j, Digits)
    /\ Before(s, j, Characters \ Digits)

LEMMA NumbersHas ==
  ASSUME NEW s, NEW i \in Nat, NEW j \in Nat, i < j
  PROVE  Numbers(s, i, j) = IF WholeTo(s, IntegerAt(s, i), j) \/ DecimalTo(s, IntegerAt(s, i), j)
                            THEN {Token(SubSeq(s, NumberAt(s, i), j), "NUMBER")} ELSE {}
BY DEF Numbers, WholeTo, DecimalTo, IntegerTo, IntegerAt, NumberAt

LEMMA DotIsNoDigit == "." \notin Digits /\ "." \in Characters /\ Digits \subseteq Characters
BY DEF Digits, Characters

\* Without a digit there is no number.
LEMMA NoInteger ==
  ASSUME NEW s, IsText(s), NEW z \in Nat, NEW j \in Nat, j <= Len(s),
         z < Len(s) => s[z + 1] \notin Digits
  PROVE  ~WholeTo(s, z, j) /\ ~DecimalTo(s, z, j)
<1>1. Len(s) \in Nat
  BY TextHas
<1>2. ASSUME NEW m \in Nat, m <= Len(s) PROVE ~IntegerTo(s, z, m)
  <2>1. z < m => z < Len(s) /\ z + 1 \in (z + 1)..m
    BY <1>1, <1>2
  <2>2. QED
    BY <2>1 DEF IntegerTo, AllIn
<1>3. \A m \in (z + 1)..(j - 2) : m \in Nat /\ m <= Len(s)
  BY <1>1
<1>4. QED
  BY <1>2, <1>3 DEF WholeTo, DecimalTo

\* An integer without a dot is a number;
LEMMA WholeIs ==
  ASSUME NEW s, IsText(s), NEW z \in Nat, NEW l \in Nat, l <= Len(s), NEW j \in Nat, j <= Len(s),
         IntegerTo(s, z, l),
         l < Len(s) => s[l + 1] # ".",
         l < Len(s) /\ s[z + 1] # "0" => s[l + 1] \notin Digits
  PROVE  WholeTo(s, z, j) \/ DecimalTo(s, z, j) <=> j = l
<1>1. Len(s) \in Nat /\ \A p \in 1..Len(s) : s[p] \in Characters
  BY TextHas
<1>2. z < l
  BY DEF IntegerTo
<1>3. WholeTo(s, z, l)
  <2>1. l < Len(s) => l + 1 \in 1..Len(s)
    BY <1>1
  <2>2. QED
    BY <1>1, <2>1 DEF WholeTo, Before
<1>4. ASSUME NEW m \in Nat, m <= Len(s), IntegerTo(s, z, m), m # l
      PROVE  m < l /\ s[m + 1] \in Digits /\ s[z + 1] # "0"
  <2>1. s[z + 1] # "0" /\ z < m
    BY <1>4 DEF IntegerTo
  <2>2. m < l
    <3>1. ASSUME l < m PROVE FALSE
      <4>1. l + 1 \in (z + 1)..m /\ l < Len(s)
        BY <1>1, <1>2, <1>4, <3>1
      <4>2. QED
        BY <1>4, <2>1, <4>1 DEF IntegerTo, AllIn
    <3>2. QED
      BY <1>4, <3>1
  <2>3. m + 1 \in (z + 1)..l
    BY <2>1, <2>2
  <2>4. QED
    BY <2>1, <2>2, <2>3 DEF IntegerTo, AllIn
<1>5. ASSUME WholeTo(s, z, j), j # l PROVE FALSE
  <2>1. j < l /\ s[j + 1] \in Digits /\ s[z + 1] # "0"
    BY <1>4, <1>5 DEF WholeTo
  <2>2. j < Len(s)
    BY <1>1, <2>1
  <2>3. QED
    BY <1>5, <2>1, <2>2 DEF WholeTo, Before
<1>6. ASSUME DecimalTo(s, z, j) PROVE FALSE
  <2>1. PICK m \in (z + 1)..(j - 2) : IntegerTo(s, z, m) /\ s[m + 1] = "."
    BY <1>6 DEF DecimalTo
  <2>2. m \in Nat /\ m <= Len(s) /\ m < Len(s)
    BY <1>1
  <2>3. m # l
    BY <2>1, <2>2
  <2>4. QED
    BY <1>4, <2>1, <2>2, <2>3, DotIsNoDigit
<1>7. QED
  BY <1>3, <1>5, <1>6

\* one with a dot is if digits follow.
LEMMA DecimalIs ==
  ASSUME NEW s, IsText(s), NEW z \in Nat, NEW m \in Nat, NEW l \in Nat, m + 1 <= l, l <= Len(s),
         NEW j \in Nat, j <= Len(s),
         IntegerTo(s, z, m), s[m + 1] = ".", AllIn(s, m + 1, l, Digits),
         l < Len(s) => s[l + 1] \notin Digits
  PROVE  WholeTo(s, z, j) \/ DecimalTo(s, z, j) <=> j = l /\ m + 2 <= l
<1>1. Len(s) \in Nat /\ \A p \in 1..Len(s) : s[p] \in Characters
  BY TextHas
<1>2. z < m /\ m < Len(s)
  BY <1>1 DEF IntegerTo
<1>3. ASSUME NEW q \in Nat, q <= Len(s), IntegerTo(s, z, q), q # m
      PROVE  q < m /\ s[q + 1] \in Digits /\ s[z + 1] # "0"
  <2>1. s[z + 1] # "0" /\ z < q
    BY <1>3 DEF IntegerTo
  <2>2. q < m
    <3>1. ASSUME m < q PROVE FALSE
      <4>1. m + 1 \in (z + 1)..q
        BY <1>1, <1>2, <1>3, <3>1
      <4>2. QED
        BY <1>3, <4>1, DotIsNoDigit DEF IntegerTo, AllIn
    <3>2. QED
      BY <1>3, <3>1
  <2>3. q + 1 \in (z + 1)..m
    BY <2>1, <2>2
  <2>4. QED
    BY <2>1, <2>2, <2>3 DEF IntegerTo, AllIn
<1>4. ASSUME WholeTo(s, z, j) PROVE FALSE
  <2>1. CASE j = m
    BY <1>2, <1>4, <2>1 DEF WholeTo, Before
  <2>2. CASE j # m
    <3>1. j < m /\ s[j + 1] \in Digits /\ s[z + 1] # "0"
      BY <1>3, <1>4, <2>2 DEF WholeTo
    <3>2. j < Len(s)
      BY <1>1, <1>2, <3>1
    <3>3. QED
      BY <1>4, <3>1, <3>2 DEF WholeTo, Before
  <2>3. QED
    BY <2>1, <2>2
<1>5. ASSUME DecimalTo(s, z, j) PROVE j = l /\ m + 2 <= l
  <2>1. PICK q \in (z + 1)..(j - 2) :
           IntegerTo(s, z, q) /\ s[q + 1] = "." /\ AllIn(s, q + 1, j, Digits) /\ Before(s, j, Characters \ Digits)
    BY <1>5 DEF DecimalTo
  <2>2. q \in Nat /\ q <= Len(s) /\ q + 2 <= j
    BY <1>1
  <2>3. q = m
    BY <1>3, <2>1, <2>2, DotIsNoDigit
  <2>4. ASSUME j < l PROVE FALSE
    <3>1. j < Len(s) /\ j + 1 \in ((m + 1) + 1)..l
      BY <1>1, <2>2, <2>3, <2>4
    <3>2. QED
      BY <2>1, <3>1 DEF Before, AllIn
  <2>5. ASSUME l < j PROVE FALSE
    <3>1. l < Len(s) /\ l + 1 \in ((m + 1) + 1)..j
      BY <1>1, <2>5
    <3>2. QED
      BY <2>1, <2>3, <3>1 DEF AllIn
  <2>6. QED
    BY <2>2, <2>3, <2>4, <2>5
<1>6. ASSUME m + 2 <= l PROVE DecimalTo(s, z, l)
  <2>1. m \in (z + 1)..(l - 2)
    BY <1>2, <1>6
  <2>2. l < Len(s) => l + 1 \in 1..Len(s)
    BY <1>1
  <2>3. Before(s, l, Characters \ Digits)
    BY <1>1, <2>2 DEF Before
  <2>4. QED
    BY <2>1, <2>3 DEF DecimalTo
<1>7. QED
  BY <1>4, <1>5, <1>6

-----------------------------------------------------------------------------
(* The strings of the grammar.                                             *)

\* One character of a string.
ReadOn(s, f, i, p) ==
  IF p = i + 1 THEN [escapes |-> FALSE, value |-> <<>>]
  ELSE LET c == IF f[p - 1].escapes THEN Unescaped(s[p]) ELSE s[p]
           escapes == s[p] = STRING_ESCAPE_CHAR /\ ~f[p - 1].escapes
       IN  [escapes |-> escapes,
            value |-> f[p - 1].value \o (IF escapes THEN <<>> ELSE <<c>>)]
Reading(s, i, j, f) == f = [p \in (i + 1)..j |-> ReadOn(s, f, i, p)]

\* Numbers up to n of which each is in a set if its predecessor is.
LEMMA Climb ==
  ASSUME NEW n \in Nat, NEW T, 0 \in T, \A a \in 0..n : a + 1 <= n /\ a \in T => a + 1 \in T
  PROVE  \A a \in 0..n : a \in T
<1> DEFINE U == {d \in 0..n : n - d \in T}
<1>1. ASSUME NEW d \in 0..n, \A b \in (d + 1)..n : b \in U PROVE d \in U
  <2>1. CASE d = n
    BY <2>1
  <2>2. CASE d # n
    <3>1. d + 1 \in (d + 1)..n
      BY <2>2
    <3>2. n - (d + 1) \in T
      BY <1>1, <3>1
    <3>3. n - (d + 1) \in 0..n /\ (n - (d + 1)) + 1 = n - d /\ n - d <= n
      BY <2>2
    <3>4. n - d \in T
      BY <3>2, <3>3
    <3>5. QED
      BY <3>4
  <2>3. QED
    BY <2>1, <2>2
<1> HIDE DEF U
<1>2. \A d \in 0..n : d \in U
  BY <1>1, FromTheEnd
<1>3. \A a \in 0..n : n - a \in 0..n /\ n - (n - a) = a
  OBVIOUS
<1>4. QED
  BY <1>2, <1>3 DEF U

LEMMA ReadingSolvable ==
  ASSUME NEW s, NEW i \in Nat, NEW j \in Nat, i <= j
  PROVE  \E f : Reading(s, i, j, f)
<1> DEFINE T == {d \in 0..(j - i) : \E f : Reading(s, i, i + d, f)}
<1>1. 0 \in T
  <2>1. (i + 1)..(i + 0) = {}
    OBVIOUS
  <2>2. Reading(s, i, i + 0, [p \in {} |-> p])
    BY <2>1 DEF Reading
  <2>3. QED
    BY <2>2
<1>2. ASSUME NEW d \in 0..(j - i), d + 1 <= j - i, d \in T PROVE d + 1 \in T
  <2>1. PICK f : Reading(s, i, i + d, f)
    BY <1>2
  <2> DEFINE l == i + (d + 1)
             g == [p \in (i + 1)..l |-> IF p = l THEN ReadOn(s, f, i, l) ELSE f[p]]
  <2>2. l \in Nat /\ i < l /\ l = (i + d) + 1
    OBVIOUS
  <2>3. \A p \in (i + 1)..l : p = l \/ p \in (i + 1)..(i + d)
    BY <2>2
  <2>4. \A p \in (i + 1)..(i + d) : p \in (i + 1)..l /\ p # l /\ g[p] = f[p]
    BY <2>2
  <2>5. \A p \in (i + 1)..l : p # i + 1 => g[p - 1] = f[p - 1]
    <3>1. \A p \in (i + 1)..l : p # i + 1 => p - 1 \in (i + 1)..(i + d)
      BY <2>2
    <3>2. QED
      BY <2>4, <3>1
  <2>6. \A p \in (i + 1)..l : ReadOn(s, f, i, p) = ReadOn(s, g, i, p)
    BY <2>5 DEF ReadOn
  <2>7. \A p \in (i + 1)..(i + d) : f[p] = ReadOn(s, f, i, p)
    BY <2>1 DEF Reading
  <2>8. l \in (i + 1)..l /\ g[l] = ReadOn(s, f, i, l)
    BY <2>2
  <2>9. DOMAIN g = (i + 1)..l /\ g = [p \in DOMAIN g |-> g[p]]
    OBVIOUS
  <2> HIDE DEF g, l
  <2>10. \A p \in (i + 1)..l : g[p] = ReadOn(s, g, i, p)
    BY <2>3, <2>4, <2>6, <2>7, <2>8
  <2>11. Reading(s, i, l, g)
    BY <2>9, <2>10 DEF Reading
  <2>12. QED
    BY <2>11, <1>2 DEF l
<1>3. j - i \in Nat
  OBVIOUS
<1> HIDE DEF T
<1>4. \A d \in 0..(j - i) : d \in T
  <2>1. \A a \in 0..(j - i) : a + 1 <= j - i /\ a \in T => a + 1 \in T
    BY <1>2
  <2>2. QED
    BY <1>1, <1>3, <2>1, Climb
<1>5. j - i \in T
  BY <1>3, <1>4
<1>6. i + (j - i) = j
  OBVIOUS
<1>7. QED
  BY <1>5, <1>6 DEF T

\* What was read from the quote to p does not depend on what is behind.
ReadTo(s, i, p) == Quoted(s, i, p)[p]

LEMMA QuotedIs ==
  ASSUME NEW s, NEW i \in Nat, NEW j \in Nat, i <= j, NEW p \in (i + 1)..j
  PROVE  Quoted(s, i, j)[p] = ReadOn(s, Quoted(s, i, j), i, p)
<1>1. Quoted(s, i, j) = CHOOSE f : Reading(s, i, j, f)
  BY DEF Quoted, Reading, ReadOn
<1>2. Reading(s, i, j, Quoted(s, i, j))
  BY <1>1, ReadingSolvable
<1> DEFINE f == Quoted(s, i, j)
<1>3. Reading(s, i, j, f)
  BY <1>2
<1> HIDE DEF f
<1>4. f[p] = ReadOn(s, f, i, p)
  BY <1>3 DEF Reading
<1>5. QED
  BY <1>4 DEF f

LEMMA QuotedPrefix ==
  ASSUME NEW s, NEW i \in Nat, NEW j \in Nat, NEW k \in Nat, i <= j, i <= k, NEW p \in (i + 1)..j, p <= k
  PROVE  Quoted(s, i, j)[p] = Quoted(s, i, k)[p]
<1> DEFINE f == Quoted(s, i, j)
           g == Quoted(s, i, k)
           n == p - (i + 1)
           T == {d \in 0..n : f[(i + 1) + d] = g[(i + 1) + d]}
<1>1. n \in Nat
  OBVIOUS
<1>2. \A d \in 0..n : /\ (i + 1) + d \in (i + 1)..j /\ (i + 1) + d \in (i + 1)..k
                      /\ d + 1 <= n => ((i + 1) + (d + 1)) - 1 = (i + 1) + d /\ (i + 1) + (d + 1) # i + 1
  OBVIOUS
<1>3. \A d \in 0..n : /\ f[(i + 1) + d] = ReadOn(s, f, i, (i + 1) + d)
                      /\ g[(i + 1) + d] = ReadOn(s, g, i, (i + 1) + d)
  <2>1. TAKE d \in 0..n
  <2>2. (i + 1) + d \in (i + 1)..j /\ (i + 1) + d \in (i + 1)..k
    BY <1>2
  <2> HIDE DEF n
  <2>3. QED
    BY <2>2, QuotedIs
<1> HIDE DEF f, g, n
<1>4. 0 \in T
  <2>1. 0 \in 0..n /\ (i + 1) + 0 = i + 1
    BY <1>1
  <2>2. ReadOn(s, f, i, i + 1) = ReadOn(s, g, i, i + 1)
    BY DEF ReadOn
  <2>3. QED
    BY <1>3, <2>1, <2>2
<1>5. ASSUME NEW d \in 0..n, d + 1 <= n, d \in T PROVE d + 1 \in T
  <2>1. d + 1 \in 0..n
    BY <1>1, <1>5
  <2>2. ((i + 1) + (d + 1)) - 1 = (i + 1) + d /\ (i + 1) + (d + 1) # i + 1
    BY <1>2, <1>5
  <2>3. f[((i + 1) + (d + 1)) - 1] = g[((i + 1) + (d + 1)) - 1]
    BY <1>5, <2>2
  <2>4. ReadOn(s, f, i, (i + 1) + (d + 1)) = ReadOn(s, g, i, (i + 1) + (d + 1))
    BY <2>2, <2>3 DEF ReadOn
  <2>5. QED
    BY <1>3, <2>1, <2>4
<1> HIDE DEF T
<1>6. \A d \in 0..n : d \in T
  <2>1. \A a \in 0..n : a + 1 <= n /\ a \in T => a + 1 \in T
    BY <1>5
  <2>2. QED
    BY <1>1, <1>4, <2>1, Climb
<1>7. n \in T
  BY <1>1, <1>6
<1>8. (i + 1) + n = p
  BY DEF n
<1>9. f[p] = g[p]
  BY <1>7, <1>8 DEF T
<1>10. QED
  BY <1>9 DEF f, g

LEMMA ReadToIs ==
  ASSUME NEW s, NEW i \in Nat
  PROVE  /\ ReadTo(s, i, i + 1) = [escapes |-> FALSE, value |-> <<>>]
         /\ \A j \in Nat : \A p \in (i + 1)..j : Quoted(s, i, j)[p] = ReadTo(s, i, p)
<1>1. ReadTo(s, i, i + 1) = [escapes |-> FALSE, value |-> <<>>]
  <2>1. i + 1 \in (i + 1)..(i + 1) /\ i + 1 \in Nat /\ i <= i + 1
    OBVIOUS
  <2>2. Quoted(s, i, i + 1)[i + 1] = ReadOn(s, Quoted(s, i, i + 1), i, i + 1)
    BY <2>1, QuotedIs
  <2>3. QED
    BY <2>2 DEF ReadTo, ReadOn
<1>2. ASSUME NEW j \in Nat, NEW p \in (i + 1)..j PROVE Quoted(s, i, j)[p] = ReadTo(s, i, p)
  <2>1. p \in Nat /\ i <= p /\ i <= j /\ p <= p
    OBVIOUS
  <2>2. QED
    BY <2>1, QuotedPrefix DEF ReadTo
<1>3. QED
  BY <1>1, <1>2

LEMMA ReadToNext ==
  ASSUME NEW s, NEW i \in Nat, NEW p \in Nat, i < p
  PROVE  LET before == ReadTo(s, i, p)
             escapes == s[p + 1] = STRING_ESCAPE_CHAR /\ ~before.escapes
             c == IF before.escapes THEN Unescaped(s[p + 1]) ELSE s[p + 1]
         IN  ReadTo(s, i, p + 1) =
               [escapes |-> escapes, value |-> before.value \o (IF escapes THEN <<>> ELSE <<c>>)]
<1> DEFINE f == Quoted(s, i, p + 1)
<1>1. p + 1 \in Nat /\ i <= p + 1 /\ p + 1 \in (i + 1)..(p + 1) /\ p \in (i + 1)..(p + 1) /\ p + 1 # i + 1
      /\ (p + 1) - 1 = p
  OBVIOUS
<1>2. f[p + 1] = ReadOn(s, f, i, p + 1)
  BY <1>1, QuotedIs
<1>3. f[(p + 1) - 1] = ReadTo(s, i, p)
  <2>1. f[p] = ReadTo(s, i, p)
    BY <1>1, ReadToIs
  <2>2. QED
    BY <1>1, <2>1
<1>4. ReadTo(s, i, p + 1) = f[p + 1]
  BY DEF ReadTo
<1> HIDE DEF f
<1>5. QED
  BY <1>1, <1>2, <1>3, <1>4 DEF ReadOn

\* What the parser has seen of a string while it is in it.
InString(s, i, l) ==
  /\ s[i + 1] = STRING_QUOTE_CHAR
  /\ l \in (i + 1)..Len(s)
  /\ \A p \in (i + 2)..l : s[p] # STRING_QUOTE_CHAR
  /\ \A p \in (i + 2)..(l - 1) : ReadTo(s, i, p).escapes => s[p + 1] \in Escapes

\* It ends at the next quote;
LEMMA StringsAre ==
  ASSUME NEW s, IsText(s), NEW i \in Nat, NEW l, InString(s, i, l), l < Len(s),
         s[l + 1] = STRING_QUOTE_CHAR, NEW k \in (i + 1)..Len(s)
  PROVE  Strings(s, i, k) = IF k = l + 1 THEN {Token(ReadTo(s, i, l).value, "QUOTED_STRING")} ELSE {}
<1>1. Len(s) \in Nat /\ l \in Nat
  BY TextHas DEF InString
<1>2. CASE k = l + 1
  <2>1. k - 1 = l /\ i + 2 <= k /\ k \in Nat /\ l \in (i + 1)..k
    BY <1>1, <1>2 DEF InString
  <2>2. Quoted(s, i, k)[k - 1] = ReadTo(s, i, l)
    BY <2>1, ReadToIs
  <2>3. \A p \in (i + 2)..l : Quoted(s, i, k)[p] = ReadTo(s, i, p)
    <3>1. \A p \in (i + 2)..l : p \in (i + 1)..k
      BY <1>1, <2>1
    <3>2. QED
      BY <2>1, <3>1, ReadToIs
  <2>4. \A p \in (i + 2)..l : ReadTo(s, i, p).escapes => s[p + 1] \in Escapes
    <3>1. \A p \in (i + 2)..l : p = l \/ p \in (i + 2)..(l - 1)
      BY <1>1
    <3>2. STRING_QUOTE_CHAR \in Escapes
      BY DEF Escapes
    <3>3. QED
      BY <3>1, <3>2 DEF InString
  <2>5. QED
    BY <1>2, <2>1, <2>2, <2>3, <2>4 DEF Strings, InString
<1>3. CASE k # l + 1
  <2>1. ASSUME Strings(s, i, k) # {} PROVE FALSE
    <3>1. i + 2 <= k /\ s[k] = STRING_QUOTE_CHAR /\ \A p \in (i + 2)..(k - 1) : s[p] # STRING_QUOTE_CHAR
      BY <2>1 DEF Strings
    <3>2. ~(k \in (i + 2)..l)
      BY <3>1 DEF InString
    <3>3. l + 1 \in (i + 2)..(k - 1)
      BY <1>1, <1>3, <3>1, <3>2 DEF InString
    <3>4. QED
      BY <3>1, <3>3
  <2>2. QED
    BY <1>3, <2>1
<1>4. QED
  BY <1>2, <1>3

\* it has no end if there is none, or if an escape in it stands for nothing.
LEMMA NoString ==
  ASSUME NEW s, IsText(s), NEW i \in Nat, NEW l, InString(s, i, l),
         l < Len(s) => l # i + 1 /\ ReadTo(s, i, l).escapes /\ s[l + 1] \notin Escapes,
         NEW k \in (i + 1)..Len(s)
  PROVE  Strings(s, i, k) = {}
<1>1. Len(s) \in Nat /\ l \in Nat /\ i + 1 <= l /\ l <= Len(s)
  BY TextHas DEF InString
<1> SUFFICES ASSUME Strings(s, i, k) # {} PROVE FALSE
  OBVIOUS
<1>2. /\ i + 2 <= k /\ s[k] = STRING_QUOTE_CHAR
      /\ \A p \in (i + 2)..(k - 1) : Quoted(s, i, k)[p].escapes => s[p + 1] \in Escapes
  BY DEF Strings
<1>3. ~(k \in (i + 2)..l)
  BY <1>2 DEF InString
<1>4. l < k /\ l < Len(s)
  BY <1>1, <1>2, <1>3
<1>5. s[l + 1] # STRING_QUOTE_CHAR
  BY <1>4 DEF Escapes
<1>6. l \in (i + 2)..(k - 1) /\ l \in (i + 1)..k /\ k \in Nat
  BY <1>1, <1>2, <1>4, <1>5
<1>7. Quoted(s, i, k)[l] = ReadTo(s, i, l)
  BY <1>6, ReadToIs
<1>8. QED
  BY <1>2, <1>4, <1>6, <1>7

-----------------------------------------------------------------------------
(* The lists that are open.                                                *)

Opens == {OPEN_LIST_CHAR, OPEN_FNAPP_CHAR}
FramesOk(fs) ==
  /\ \E S : fs \in Seq(S)
  /\ \A d \in 1..Len(fs) : /\ fs[d] = [open |-> fs[d].open, xs |-> fs[d].xs]
                           /\ fs[d].open \in Opens
                           /\ IsList(fs[d].xs)

\* The d-th list, or the file: what closes it, and what was read in it.
CloseAt(fs, d) == IF d = 0 THEN "end" ELSE Closing(fs[d].open)
Inner(fs) == CloseAt(fs, Len(fs))
HasRead(fs, top, d) == IF d = 0 THEN top ELSE fs[d].xs

\* It was opened behind b[d], and what can be read in it from its start on is what
\* was read and then what can be read from the next list on, or R in the last one.
StartAt(b, d) == IF d = 0 THEN 0 ELSE b[d] + 1
Level(s, fs, top, b, d, R) == Reads(s, CloseAt(fs, d), StartAt(b, d)) = After(HasRead(fs, top, d), R)
Opened(s, fs, b) == \A d \in 1..Len(fs) : b[d] \in Nat /\ b[d] < Len(s) /\ s[b[d] + 1] = fs[d].open
Outside(s, fs, top, b) ==
  \A d \in 0..(Len(fs) - 1) : Level(s, fs, top, b, d, Reads(s, CloseAt(fs, d), b[d + 1]))

\* R is what can be read in the innermost list behind what was read in it.
Standing(s, fs, top, R) ==
  /\ FramesOk(fs)
  /\ IsList(top)
  /\ \E b : Opened(s, fs, b) /\ Outside(s, fs, top, b) /\ Level(s, fs, top, b, Len(fs), R)

LEMMA FramesLength == ASSUME NEW fs, FramesOk(fs) PROVE Len(fs) \in Nat
BY LenProperties DEF FramesOk

LEMMA ClosesAre ==
  ASSUME NEW fs, FramesOk(fs), NEW d \in 0..Len(fs)
  PROVE  CloseAt(fs, d) \in Ends /\ (d # 0 => CloseAt(fs, d) \in Ends \ {"end"})
<1>1. CASE d = 0
  BY <1>1 DEF CloseAt, Ends
<1>2. CASE d # 0
  <2>1. d \in 1..Len(fs)
    BY <1>2, FramesLength
  <2>2. fs[d].open \in Opens
    BY <2>1 DEF FramesOk
  <2>3. QED
    BY <1>2, <2>2 DEF CloseAt, Closing, Ends, CLOSE_LIST_CHAR, CLOSE_FNAPP_CHAR
<1>3. QED
  BY <1>1, <1>2

LEMMA InnerIs ==
  ASSUME NEW fs, FramesOk(fs)
  PROVE  Inner(fs) \in Ends /\ (Len(fs) # 0 <=> Inner(fs) # "end")
<1>1. Len(fs) \in Nat /\ Len(fs) \in 0..Len(fs)
  BY FramesLength
<1>2. QED
  BY <1>1, ClosesAre DEF Inner, CloseAt

\* At the beginning.
LEMMA StandsFirst ==
  ASSUME NEW s, IsText(s)
  PROVE  Standing(s, <<>>, <<>>, Reads(s, "end", 0))
<1>1. Len(s) \in Nat /\ 0 \in 0..Len(s) /\ "end" \in Ends
  BY TextHas DEF Ends
<1>2. After(<<>>, Reads(s, "end", 0)) = Reads(s, "end", 0)
  BY <1>1, ReadsLists, AfterNothing
<1>3. <<>> \in Seq({}) /\ Len(<<>>) = 0
  OBVIOUS
<1>4. FramesOk(<<>>)
  BY <1>3 DEF FramesOk
<1>5. \A b : Opened(s, <<>>, b) /\ Outside(s, <<>>, <<>>, b)
  BY <1>3 DEF Opened, Outside
<1>6. \A b : Level(s, <<>>, <<>>, b, 0, Reads(s, "end", 0))
  BY <1>2 DEF Level, CloseAt, StartAt, HasRead
<1>7. QED
  BY <1>3, <1>4, <1>5, <1>6, OneIsList DEF Standing

\* A list is opened.
LEMMA StandsInside ==
  ASSUME NEW s, IsText(s), NEW fs, NEW top, NEW i \in Nat, i < Len(s), s[i + 1] \in Opens,
         Standing(s, fs, top, Reads(s, Inner(fs), i))
  PROVE  LET gs == Append(fs, [open |-> s[i + 1], xs |-> <<>>])
         IN  Standing(s, gs, top, Reads(s, Inner(gs), i + 1))
<1> DEFINE x == [open |-> s[i + 1], xs |-> <<>>]
           gs == Append(fs, x)
           n == Len(fs)
<1>1. n \in Nat /\ FramesOk(fs) /\ IsList(top)
  BY FramesLength DEF Standing
<1>2. PICK S : fs \in Seq(S)
  BY DEF Standing, FramesOk
<1>3. fs \in Seq(S \cup {x}) /\ x \in S \cup {x}
  BY <1>2, SeqDef
<1>4. /\ gs \in Seq(S \cup {x}) /\ Len(gs) = n + 1
      /\ \A d \in 1..n : gs[d] = fs[d]
      /\ gs[n + 1] = x
  BY <1>3, AppendProperties
<1>5. PICK b : Opened(s, fs, b) /\ Outside(s, fs, top, b) /\ Level(s, fs, top, b, n, Reads(s, Inner(fs), i))
  BY DEF Standing
<1> DEFINE c == [d \in 1..(n + 1) |-> IF d = n + 1 THEN i ELSE b[d]]
<1>6. c[n + 1] = i /\ \A d \in 1..n : c[d] = b[d]
  BY <1>1
<1>7. x.open = s[i + 1] /\ x.xs = <<>> /\ x = [open |-> x.open, xs |-> x.xs]
  OBVIOUS
<1> HIDE DEF gs, c, n, x
<1>8. FramesOk(gs)
  <2>1. \A d \in 1..(n + 1) : d = n + 1 \/ d \in 1..n
    BY <1>1
  <2>2. ASSUME NEW d \in 1..(n + 1)
        PROVE  gs[d] = [open |-> gs[d].open, xs |-> gs[d].xs] /\ gs[d].open \in Opens /\ IsList(gs[d].xs)
    <3>1. CASE d = n + 1
      BY <1>4, <1>7, <3>1, OneIsList
    <3>2. CASE d \in 1..n
      <4>1. gs[d] = fs[d]
        BY <1>4, <3>2
      <4>2. fs[d] = [open |-> fs[d].open, xs |-> fs[d].xs] /\ fs[d].open \in Opens /\ IsList(fs[d].xs)
        BY <1>1, <3>2 DEF FramesOk, n
      <4>3. QED
        BY <4>1, <4>2
    <3>3. QED
      BY <2>1, <3>1, <3>2
  <2>3. QED
    BY <1>4, <2>2 DEF FramesOk
<1>9. \A d \in 0..n : /\ CloseAt(gs, d) = CloseAt(fs, d) /\ HasRead(gs, top, d) = HasRead(fs, top, d)
                      /\ StartAt(c, d) = StartAt(b, d)
  <2>1. \A d \in 0..n : d = 0 \/ d \in 1..n
    BY <1>1
  <2>2. QED
    BY <1>4, <1>6, <2>1 DEF CloseAt, HasRead, StartAt
<1>10. n + 1 # 0 /\ CloseAt(gs, n + 1) = Closing(s[i + 1]) /\ HasRead(gs, top, n + 1) = <<>> /\ StartAt(c, n + 1) = i + 1
  BY <1>1, <1>4, <1>6, <1>7 DEF CloseAt, HasRead, StartAt
<1>11. Opened(s, gs, c)
  <2>1. \A d \in 1..(n + 1) : d = n + 1 \/ d \in 1..n
    BY <1>1
  <2>2. \A d \in 1..n : b[d] \in Nat /\ b[d] < Len(s) /\ s[b[d] + 1] = fs[d].open
    BY <1>5 DEF Opened, n
  <2>3. QED
    BY <1>4, <1>6, <1>7, <2>1, <2>2 DEF Opened
<1>12. Outside(s, gs, top, c)
  <2>1. SUFFICES ASSUME NEW d \in 0..n PROVE Level(s, gs, top, c, d, Reads(s, CloseAt(gs, d), c[d + 1]))
    <3>1. (n + 1) - 1 = n
      BY <1>1
    <3>2. QED
      BY <1>4, <3>1 DEF Outside
  <2>2. CASE d = n
    <3>1. Level(s, fs, top, b, n, Reads(s, CloseAt(fs, n), i))
      BY <1>5 DEF Inner, n
    <3>2. QED
      BY <1>6, <1>9, <2>2, <3>1 DEF Level
  <2>3. CASE d # n
    <3>1. d \in 0..(n - 1) /\ d + 1 \in 1..n
      BY <1>1, <2>3
    <3>2. Level(s, fs, top, b, d, Reads(s, CloseAt(fs, d), b[d + 1]))
      BY <1>5, <3>1 DEF Outside, n
    <3>3. QED
      BY <1>6, <1>9, <3>1, <3>2 DEF Level
  <2>4. QED
    BY <2>2, <2>3
<1>13. Level(s, gs, top, c, n + 1, Reads(s, Inner(gs), i + 1))
  <2>1. Inner(gs) = Closing(s[i + 1]) /\ Inner(gs) \in Ends
    BY <1>4, <1>8, <1>10, InnerIs DEF Inner
  <2>2. i + 1 \in 0..Len(s)
    BY TextHas
  <2>3. After(<<>>, Reads(s, Inner(gs), i + 1)) = Reads(s, Inner(gs), i + 1)
    BY <2>1, <2>2, ReadsLists, AfterNothing
  <2>4. QED
    BY <1>10, <2>1, <2>3 DEF Level
<1>14. QED
  BY <1>1, <1>4, <1>8, <1>11, <1>12, <1>13 DEF Standing, gs, x

\* The innermost list is complete: in the one around it, it is an item.
LEMMA StandsOutside ==
  ASSUME NEW s, IsText(s), NEW fs, Len(fs) # 0, NEW top, NEW k,
         Standing(s, fs, top, {<<<<>>, k>>})
  PROVE  LET gs == SubSeq(fs, 1, Len(fs) - 1)
             x == fs[Len(fs)]
         IN  /\ k + 1 \in 0..Len(s)
             /\ Standing(s, gs, top,
                  After(<<List(x.open = OPEN_FNAPP_CHAR, x.xs)>>, Rest(s, Inner(gs), k + 1)))
<1> DEFINE n == Len(fs)
           gs == SubSeq(fs, 1, n - 1)
           x == fs[n]
           e == List(x.open = OPEN_FNAPP_CHAR, x.xs)
<1>1. n \in Nat /\ n # 0 /\ FramesOk(fs) /\ IsList(top) /\ Len(s) \in Nat
  BY FramesLength, TextHas DEF Standing
<1>2. PICK S : fs \in Seq(S)
  BY DEF Standing, FramesOk
<1>3. n \in 1..n /\ n - 1 \in 0..(n - 1) /\ (n - 1) + 1 = n /\ n - 1 \in Nat /\ n - 1 <= n
  BY <1>1
<1>4. /\ gs \in Seq(S) /\ Len(gs) = n - 1
      /\ \A d \in 1..(n - 1) : gs[d] = fs[d]
  <2>1. 1 \in Int /\ n - 1 \in Int /\ \A d \in 1..(n - 1) : fs[d] \in S
    <3>1. \A d \in 1..(n - 1) : d \in 1..Len(fs)
      BY <1>1
    <3>2. QED
      BY <1>1, <1>2, <3>1, ElementOfSeq
  <2>2. /\ gs \in Seq(S) /\ Len(gs) = IF 1 <= n - 1 THEN (n - 1) - 1 + 1 ELSE 0
        /\ \A d \in 1..((n - 1) - 1 + 1) : gs[d] = fs[1 + d - 1]
    BY <2>1, SubSeqProperties
  <2>3. (n - 1) - 1 + 1 = n - 1 /\ (~(1 <= n - 1) => n - 1 = 0) /\ \A d \in 1..(n - 1) : 1 + d - 1 = d
    <3>1. n \in Nat /\ n # 0
      BY <1>1
    <3> HIDE DEF n
    <3>2. QED
      BY <3>1
  <2>4. QED
    BY <2>2, <2>3
<1>5. PICK b : Opened(s, fs, b) /\ Outside(s, fs, top, b) /\ Level(s, fs, top, b, n, {<<<<>>, k>>})
  BY DEF Standing
<1>6. x.open \in Opens /\ IsList(x.xs) /\ b[n] \in Nat /\ b[n] < Len(s) /\ s[b[n] + 1] = x.open
  BY <1>1, <1>3, <1>5 DEF FramesOk, Opened
<1>7. Reads(s, Closing(x.open), b[n] + 1) = {<<x.xs, k>>}
  <2>1. Reads(s, Closing(x.open), b[n] + 1) = After(x.xs, {<<<<>>, k>>})
    BY <1>1, <1>5 DEF Level, CloseAt, StartAt, HasRead
  <2>2. QED
    BY <1>6, <2>1, AfterEnd
<1> HIDE DEF gs, x, n
<1>8. FramesOk(gs)
  <2>1. \A d \in 1..(n - 1) : d \in 1..Len(fs)
    BY <1>1 DEF n
  <2>2. QED
    BY <1>1, <1>4, <2>1 DEF FramesOk
<1>9. \A d \in 0..(n - 1) : CloseAt(gs, d) = CloseAt(fs, d) /\ HasRead(gs, top, d) = HasRead(fs, top, d)
  <2>1. \A d \in 0..(n - 1) : d = 0 \/ d \in 1..(n - 1)
    BY <1>1
  <2>2. QED
    BY <1>4, <2>1 DEF CloseAt, HasRead
<1>10. Inner(gs) = CloseAt(fs, n - 1) /\ Inner(gs) \in Ends
  BY <1>3, <1>4, <1>8, <1>9, InnerIs DEF Inner
<1>11. /\ k \in Nat /\ k + 1 \in (b[n] + 1)..Len(s)
       /\ Reads(s, Inner(gs), b[n]) = After(<<e>>, Rest(s, Inner(gs), k + 1))
  <2>1. s[b[n] + 1] \in {OPEN_LIST_CHAR, OPEN_FNAPP_CHAR}
    BY <1>6 DEF Opens
  <2>2. Reads(s, Closing(s[b[n] + 1]), b[n] + 1) = {<<x.xs, k>>}
    BY <1>6, <1>7
  <2> HIDE DEF e
  <2>3. /\ k \in Nat /\ k + 1 \in (b[n] + 1)..Len(s)
        /\ Reads(s, Inner(gs), b[n]) =
             After(<<List(s[b[n] + 1] = OPEN_FNAPP_CHAR, x.xs)>>, Rest(s, Inner(gs), k + 1))
    <3> DEFINE i == b[n]
               close == Inner(gs)
    <3>1. i \in Nat /\ i < Len(s) /\ s[i + 1] \in {OPEN_LIST_CHAR, OPEN_FNAPP_CHAR} /\ close \in Ends
      BY <1>6, <1>10, <2>1
    <3>2. Reads(s, Closing(s[i + 1]), i + 1) = {<<x.xs, k>>}
      BY <2>2
    <3> HIDE DEF i, close
    <3>3. /\ k \in Nat /\ k + 1 \in (i + 1)..Len(s)
          /\ Reads(s, close, i) = After(<<ListAt(s, i, x.xs)>>, Rest(s, close, k + 1))
      BY <3>1, <3>2, ReadsList
    <3>4. QED
      BY <3>3 DEF i, close, ListAt
  <2>4. QED
    BY <1>6, <2>3 DEF e
<1>12. k + 1 \in 0..Len(s)
  BY <1>1, <1>6, <1>11
<1>13. Opened(s, gs, b)
  <2>1. \A d \in 1..(n - 1) : d \in 1..Len(fs)
    BY <1>1 DEF n
  <2>2. QED
    BY <1>4, <1>5, <2>1 DEF Opened
<1>14. \A d \in 0..(n - 1) : Level(s, fs, top, b, d, Reads(s, CloseAt(fs, d), b[d + 1]))
  BY <1>5 DEF Outside, n
<1>15. Outside(s, gs, top, b)
  <2>1. \A d \in 0..(Len(gs) - 1) : d \in 0..(n - 1)
    BY <1>1, <1>4
  <2>2. QED
    BY <1>9, <1>14, <2>1 DEF Outside, Level
<1>16. Level(s, gs, top, b, n - 1, After(<<e>>, Rest(s, Inner(gs), k + 1)))
  <2>1. Level(s, fs, top, b, n - 1, Reads(s, CloseAt(fs, n - 1), b[n]))
    BY <1>3, <1>14
  <2> HIDE DEF e
  <2>2. QED
    BY <1>3, <1>9, <1>10, <1>11, <2>1 DEF Level
<1>17. Standing(s, gs, top, After(<<e>>, Rest(s, Inner(gs), k + 1)))
  <2> HIDE DEF e
  <2>1. QED
    BY <1>1, <1>4, <1>8, <1>13, <1>15, <1>16 DEF Standing
<1>18. QED
  BY <1>12, <1>17 DEF gs, x, n

LEMMA AppendJoins ==
  ASSUME NEW es, IsList(es), NEW e
  PROVE  Append(es, e) = Join(es, <<e>>)
<1>1. PICK S : es \in Seq(S)
  BY DEF IsList
<1>2. es \in Seq(S \cup {e}) /\ e \in S \cup {e}
  BY <1>1, SeqDef
<1>3. QED
  BY <1>2, AppendIsConcat DEF Join

\* An item of the file is complete,
LEMMA StandsAtTop ==
  ASSUME NEW s, IsText(s), NEW top, NEW e, NEW k \in 0..Len(s),
         Standing(s, <<>>, top, After(<<e>>, Rest(s, Inner(<<>>), k)))
  PROVE  Standing(s, <<>>, Append(top, e), Reads(s, "end", k))
<1>1. Len(<<>>) = 0
  OBVIOUS
<1>2. Inner(<<>>) = "end" /\ "end" \in Ends
  BY <1>1 DEF Inner, CloseAt, Ends
<1>3. Rest(s, Inner(<<>>), k) = Reads(s, "end", k)
  BY <1>2 DEF Rest, Follows
<1>4. IsList(top) /\ IsList(<<e>>) /\ AllLists(Reads(s, "end", k)) /\ IsList(Append(top, e))
  <2>1. IsList(top) /\ IsList(<<e>>) /\ AllLists(Reads(s, "end", k))
    BY <1>2, OneIsList, ReadsLists DEF Standing
  <2>2. QED
    BY <2>1, AppendJoins, Together
<1>5. After(top, After(<<e>>, Reads(s, "end", k))) = After(Append(top, e), Reads(s, "end", k))
  <2>1. After(top, After(<<e>>, Reads(s, "end", k))) = After(Join(top, <<e>>), Reads(s, "end", k))
    BY <1>4, AfterTwice
  <2>2. Append(top, e) = Join(top, <<e>>)
    BY <1>4, AppendJoins
  <2>3. QED
    BY <2>1, <2>2
<1>6. PICK b : Level(s, <<>>, top, b, 0, After(<<e>>, Rest(s, Inner(<<>>), k)))
  BY <1>1 DEF Standing
<1>7. Level(s, <<>>, Append(top, e), b, 0, Reads(s, "end", k))
  BY <1>3, <1>5, <1>6 DEF Level, HasRead, StartAt, CloseAt
<1>8. Opened(s, <<>>, b) /\ Outside(s, <<>>, Append(top, e), b)
  BY <1>1 DEF Opened, Outside
<1>9. FramesOk(<<>>)
  BY DEF Standing
<1>10. QED
  BY <1>1, <1>4, <1>7, <1>8, <1>9 DEF Standing

\* or one of a list, and what follows may follow it.
LEMMA StandsBehind ==
  ASSUME NEW s, IsText(s), NEW fs, Len(fs) # 0, NEW top, NEW e, NEW k \in 0..Len(s),
         Standing(s, fs, top, After(<<e>>, Rest(s, Inner(fs), k))),
         Follows(s, Inner(fs), k)
  PROVE  LET x == [fs[Len(fs)] EXCEPT !.xs = @ \o <<e>>]
             gs == Append(SubSeq(fs, 1, Len(fs) - 1), x)
         IN  Standing(s, gs, top, Reads(s, Inner(gs), k))
<1> DEFINE n == Len(fs)
           y == fs[n]
           x == [y EXCEPT !.xs = @ \o <<e>>]
           gs == Append(SubSeq(fs, 1, n - 1), x)
<1>1. n \in Nat /\ n # 0 /\ FramesOk(fs) /\ IsList(top) /\ Len(s) \in Nat
  BY FramesLength, TextHas DEF Standing
<1>2. PICK S : fs \in Seq(S)
  BY DEF Standing, FramesOk
<1>3. n \in 1..n /\ (n - 1) + 1 = n /\ n - 1 \in Nat
  BY <1>1
<1>4. y = [open |-> y.open, xs |-> y.xs] /\ y.open \in Opens /\ IsList(y.xs)
  BY <1>1, <1>3 DEF FramesOk
<1>5. x = [open |-> y.open, xs |-> y.xs \o <<e>>]
  <2> DEFINE v == y.xs \o <<e>>
  <2>1. x = [y EXCEPT !.xs = v]
    OBVIOUS
  <2>2. y.open = y.open /\ v = v
    OBVIOUS
  <2> HIDE DEF v, y
  <2>3. [y EXCEPT !.xs = v] = [open |-> y.open, xs |-> v]
    BY <1>4
  <2> HIDE DEF x
  <2>4. x = [open |-> y.open, xs |-> v]
    BY <2>1, <2>3
  <2>5. QED
    BY <2>4 DEF v
<1>6. /\ x = [open |-> x.open, xs |-> x.xs] /\ x.open = y.open /\ x.xs = Join(y.xs, <<e>>)
      /\ IsList(x.xs)
  BY <1>4, <1>5, Together, OneIsList DEF Join
<1>7. /\ \E U : gs \in Seq(U)
      /\ Len(gs) = n
      /\ \A d \in 1..(n - 1) : gs[d] = fs[d]
      /\ gs[n] = x
  <2> DEFINE fr == SubSeq(fs, 1, n - 1)
  <2>1. 1 \in Int /\ n - 1 \in Int /\ \A d \in 1..(n - 1) : fs[d] \in S
    <3>1. \A d \in 1..(n - 1) : d \in 1..Len(fs)
      BY <1>1
    <3>2. QED
      BY <1>1, <1>2, <3>1, ElementOfSeq
  <2>2. /\ fr \in Seq(S) /\ Len(fr) = IF 1 <= n - 1 THEN (n - 1) - 1 + 1 ELSE 0
        /\ \A d \in 1..((n - 1) - 1 + 1) : fr[d] = fs[1 + d - 1]
    BY <2>1, SubSeqProperties
  <2>3. (n - 1) - 1 + 1 = n - 1 /\ (~(1 <= n - 1) => n - 1 = 0) /\ \A d \in 1..(n - 1) : 1 + d - 1 = d
    <3>1. n \in Nat /\ n # 0
      BY <1>1
    <3> HIDE DEF n
    <3>2. QED
      BY <3>1
  <2>4. fr \in Seq(S) /\ Len(fr) = n - 1 /\ \A d \in 1..(n - 1) : fr[d] = fs[d]
    BY <2>2, <2>3
  <2> HIDE DEF fr, x, y
  <2>5. fr \in Seq(S \cup {x}) /\ x \in S \cup {x}
    BY <2>4, SeqDef
  <2>6. /\ Append(fr, x) \in Seq(S \cup {x})
        /\ Len(Append(fr, x)) = Len(fr) + 1
        /\ \A d \in 1..Len(fr) : Append(fr, x)[d] = fr[d]
        /\ Append(fr, x)[Len(fr) + 1] = x
    BY <2>5, AppendProperties
  <2>7. gs = Append(fr, x)
    BY DEF fr
  <2> HIDE DEF gs, n
  <2>8. QED
    BY <1>3, <2>4, <2>6, <2>7
<1>8. PICK b : Opened(s, fs, b) /\ Outside(s, fs, top, b) /\ Level(s, fs, top, b, n, After(<<e>>, Rest(s, Inner(fs), k)))
  BY DEF Standing
<1> HIDE DEF gs, x, y, n
<1>9. \A d \in 1..n : d = n \/ d \in 1..(n - 1)
  BY <1>1
<1>10. FramesOk(gs)
  <2>1. \A d \in 1..(n - 1) : d \in 1..Len(fs)
    BY <1>1 DEF n
  <2>2. \A d \in 1..(n - 1) : gs[d] = [open |-> gs[d].open, xs |-> gs[d].xs] /\ gs[d].open \in Opens /\ IsList(gs[d].xs)
    BY <1>1, <1>7, <2>1 DEF FramesOk
  <2>3. QED
    BY <1>4, <1>6, <1>7, <1>9, <2>2 DEF FramesOk
<1>11. \A d \in 0..n : CloseAt(gs, d) = CloseAt(fs, d)
  <2>1. \A d \in 0..n : d = 0 \/ d = n \/ d \in 1..(n - 1)
    BY <1>1
  <2>2. y = fs[n]
    BY DEF y
  <2>3. QED
    BY <1>6, <1>7, <2>1, <2>2 DEF CloseAt
<1>12. \A d \in 0..(n - 1) : HasRead(gs, top, d) = HasRead(fs, top, d) /\ d \in 0..n
  <2>1. \A d \in 0..(n - 1) : (d = 0 \/ d \in 1..(n - 1)) /\ d \in 0..n
    BY <1>1
  <2>2. QED
    BY <1>7, <2>1 DEF HasRead
<1>13. Opened(s, gs, b)
  <2>1. \A d \in 1..n : b[d] \in Nat /\ b[d] < Len(s) /\ s[b[d] + 1] = fs[d].open
    BY <1>8 DEF Opened, n
  <2>2. \A d \in 1..n : gs[d].open = fs[d].open
    <3>1. y = fs[n]
      BY DEF y
    <3>2. QED
      BY <1>6, <1>7, <1>9, <3>1
  <2>3. QED
    BY <1>7, <2>1, <2>2 DEF Opened
<1>14. Outside(s, gs, top, b)
  <2>1. \A d \in 0..(n - 1) : Level(s, fs, top, b, d, Reads(s, CloseAt(fs, d), b[d + 1]))
    BY <1>8 DEF Outside, n
  <2>2. \A d \in 0..(n - 1) : Level(s, gs, top, b, d, Reads(s, CloseAt(gs, d), b[d + 1]))
    BY <1>11, <1>12, <2>1 DEF Level
  <2>3. QED
    BY <1>7, <2>2 DEF Outside
<1>15. Inner(gs) = Inner(fs) /\ Inner(fs) \in Ends
  <2>1. n \in 0..n
    BY <1>1
  <2>2. Inner(fs) = CloseAt(fs, n) /\ Inner(gs) = CloseAt(gs, n)
    BY <1>7 DEF Inner, n
  <2>3. QED
    BY <1>1, <1>11, <2>1, <2>2, InnerIs
<1>16. Level(s, gs, top, b, n, Reads(s, Inner(gs), k))
  <2>1. Rest(s, Inner(fs), k) = Reads(s, Inner(fs), k)
    BY DEF Rest
  <2>2. IsList(<<e>>) /\ AllLists(Reads(s, Inner(fs), k))
    BY <1>15, OneIsList, ReadsLists
  <2>3. After(y.xs, After(<<e>>, Reads(s, Inner(fs), k))) = After(x.xs, Reads(s, Inner(fs), k))
    BY <1>4, <1>6, <2>2, AfterTwice
  <2>4. HasRead(fs, top, n) = y.xs /\ HasRead(gs, top, n) = x.xs
    BY <1>1, <1>7 DEF HasRead, y
  <2>5. n \in 0..n
    BY <1>1
  <2>6. QED
    BY <1>8, <1>11, <1>15, <2>1, <2>3, <2>4, <2>5 DEF Level
<1>17. Standing(s, gs, top, Reads(s, Inner(gs), k))
  BY <1>1, <1>7, <1>10, <1>13, <1>14, <1>16 DEF Standing
<1>18. QED
  BY <1>17 DEF gs, x, y, n

\* What the text stands for is what can be read from its beginning.
LEMMA ForestsAre ==
  ASSUME NEW s, IsText(s), NEW es
  PROVE  es \in Forests(s) <=> <<es, Len(s)>> \in Reads(s, "end", 0)
<1>1. Len(s) \in Nat /\ Len(s) \in 0..Len(s)
  BY TextHas
<1>2. Forests(s) = Forest(s)[0]["end"][Len(s)]
  BY <1>1, ForestIs
<1>3. Ending(s, "end", Len(s))
  BY DEF Ending
<1>4. <<es, Len(s)>> \in Reads(s, "end", 0) <=>
        \E j \in 0..Len(s) : Ending(s, "end", j) /\ \E ys \in Forest(s)[0]["end"][j] : <<es, Len(s)>> = <<ys, j>>
  BY ReadsAre
<1>5. QED
  BY <1>1, <1>2, <1>3, <1>4

\* If nothing can be read in the innermost list, the text stands for nothing;
LEMMA StandsNowhere ==
  ASSUME NEW s, IsText(s), NEW fs, NEW top, Standing(s, fs, top, {})
  PROVE  Forests(s) = {}
<1> DEFINE n == Len(fs)
           T == {a \in 0..n : \A b : Opened(s, fs, b) /\ Outside(s, fs, top, b) /\ Level(s, fs, top, b, n, {}) =>
                                       Reads(s, CloseAt(fs, a), StartAt(b, a)) = {}}
<1>1. n \in Nat /\ FramesOk(fs)
  BY FramesLength DEF Standing
<1>2. ASSUME NEW a \in 0..n, \A b \in (a + 1)..n : b \in T PROVE a \in T
  <2> SUFFICES ASSUME NEW b, Opened(s, fs, b), Outside(s, fs, top, b), Level(s, fs, top, b, n, {})
               PROVE  Reads(s, CloseAt(fs, a), StartAt(b, a)) = {}
    OBVIOUS
  <2>1. CASE a = n
    BY <2>1, AfterNone DEF Level
  <2>2. CASE a # n
    <3>1. a + 1 \in (a + 1)..n /\ a + 1 \in 1..n /\ a \in 0..(n - 1) /\ a + 1 # 0
      BY <1>1, <2>2
    <3>2. Reads(s, CloseAt(fs, a + 1), StartAt(b, a + 1)) = {}
      BY <1>2, <3>1
    <3> DEFINE i == b[a + 1]
    <3>3. i \in Nat /\ i < Len(s) /\ s[i + 1] = fs[a + 1].open /\ s[i + 1] \in Opens
      BY <1>1, <3>1 DEF Opened, FramesOk
    <3>4. Reads(s, Closing(s[i + 1]), i + 1) = {}
      BY <3>1, <3>2, <3>3 DEF CloseAt, StartAt
    <3>5. CloseAt(fs, a) \in Ends
      BY <1>1, ClosesAre
    <3>6. Level(s, fs, top, b, a, Reads(s, CloseAt(fs, a), i))
      BY <3>1 DEF Outside
    <3> HIDE DEF i
    <3>7. Reads(s, CloseAt(fs, a), i) = {}
      BY <3>3, <3>4, <3>5, ReadsNoList DEF Opens
    <3>8. QED
      BY <3>6, <3>7, AfterNone DEF Level
  <2>3. QED
    BY <2>1, <2>2
<1>3. PICK b : Opened(s, fs, b) /\ Outside(s, fs, top, b) /\ Level(s, fs, top, b, n, {})
  BY DEF Standing
<1> HIDE DEF T, n
<1>4. 0 \in T
  <2>1. \A a \in 0..n : a \in T
    BY <1>1, <1>2, FromTheEnd
  <2>2. QED
    BY <1>1, <2>1
<1>5. Reads(s, "end", 0) = {}
  BY <1>3, <1>4 DEF T, CloseAt, StartAt
<1>6. QED
  BY <1>5, ForestsAre

\* if the text is at its end and no list is open, for what was read.
LEMMA StandsAtEnd ==
  ASSUME NEW s, IsText(s), NEW top, Standing(s, <<>>, top, Reads(s, "end", Len(s)))
  PROVE  Forests(s) = {top}
<1>1. Len(<<>>) = 0 /\ "end" \in Ends
  BY DEF Ends
<1>2. PICK b : Level(s, <<>>, top, b, 0, Reads(s, "end", Len(s)))
  BY <1>1 DEF Standing
<1>3. Reads(s, "end", Len(s)) = {<<<<>>, Len(s)>>}
  BY <1>1, ReadsEnd
<1>4. After(top, {<<<<>>, Len(s)>>}) = {<<top, Len(s)>>}
  BY AfterEnd DEF Standing
<1>5. Reads(s, "end", 0) = {<<top, Len(s)>>}
  BY <1>2, <1>3, <1>4 DEF Level, HasRead, StartAt, CloseAt
<1>6. \A es : es \in Forests(s) <=> es = top
  <2>1. TAKE es
  <2>2. <<es, Len(s)>> \in {<<top, Len(s)>>} <=> es = top
    OBVIOUS
  <2>3. QED
    BY <1>5, <2>2, ForestsAre
<1>7. QED
  BY <1>6

-----------------------------------------------------------------------------
(* The reader and the loops that look behind items.                        *)

Closers == {CLOSE_LIST_CHAR, CLOSE_FNAPP_CHAR, STRING_QUOTE_CHAR}

\* What is consumed and what is in the buffer are parts of the text, all of it
\* once the reader's handle is gone.
ReaderInv ==
  /\ text \in Seq(Characters)
  /\ rp \in Nat /\ ahead \in Nat
  /\ rp + ahead <= Len(text)
  /\ gone \in BOOLEAN
  /\ gone => rp + ahead = Len(text)
  /\ ends \in {"eof", "error"}

\* The loops look for an item only after reading ahead.
LookedAhead == pc = "item" => ahead > 0 \/ gone

\* A list that got an item looks at the character behind it, which was read
\* ahead unless the item ends in a bracket or a quote of its own.
BehindAnItem ==
  pc \in {"follow", "aborted"} =>
    /\ InList
    /\ ahead > 0 \/ gone \/ text[rp] \in Closers

Ended ==
  /\ pc = "done" => ends = "eof" /\ gone /\ rp = Len(text)
  /\ pc = "failed" => error # "none"
  /\ pc = "aborted" => ahead = 0

IInv == ReaderInv /\ LookedAhead /\ BehindAnItem /\ Ended

-----------------------------------------------------------------------------
(* The pieces the actions are made of.                                     *)

LEMMA Lengths == ASSUME ReaderInv PROVE Len(text) \in Nat
BY LenProperties DEF ReaderInv

\* Consuming moves a character from the buffer to what is consumed.
LEMMA ConsumeReader ==
  ASSUME ReaderInv, ahead > 0, Consume
  PROVE  ReaderInv' /\ text[rp'] = next /\ text'[rp'] = next
<1>1. Len(text) \in Nat
  BY Lengths
<1>2. /\ rp' = rp + 1 /\ ahead' = ahead - 1
      /\ text' = text /\ ends' = ends /\ gone' = gone
  BY DEF Consume
<1>3. ReaderInv'
  BY <1>1, <1>2 DEF ReaderInv
<1>4. QED
  BY <1>2, <1>3 DEF next

LEMMA SameReader ==
  ASSUME ReaderInv, UNCHANGED readerVars
  PROVE  ReaderInv'
BY DEF ReaderInv, readerVars

\* Failing is reported under a name that is not "none".
LEMMA FailEnds ==
  ASSUME NEW why, why # "none", Fail(why)
  PROVE  LookedAhead' /\ BehindAnItem' /\ Ended'
BY DEF Fail, LookedAhead, BehindAnItem, Ended

\* An expression is built where the next character was looked at, or behind its
\* closing character.
LEMMA BuiltInv ==
  ASSUME NEW e, NEW outer, Built(e, outer),
         (ahead > 0 \/ gone \/ text[rp] \in Closers)'
  PROVE  LookedAhead' /\ BehindAnItem' /\ Ended'
BY DEF Built, LookedAhead, BehindAnItem, Ended, InList

\* A step that goes on elsewhere in the parser.
LEMMA Elsewhere ==
  ASSUME pc' \notin {"item", "follow", "aborted", "done", "failed"}
  PROVE  LookedAhead' /\ BehindAnItem' /\ Ended'
BY DEF LookedAhead, BehindAnItem, Ended

-----------------------------------------------------------------------------
(* The inductive invariant, action by action.                              *)

LEMMA InitIInv == Init => IInv
<1> SUFFICES ASSUME Init PROVE IInv
  OBVIOUS
<1>1. text \in Seq(Characters) /\ Len(text) \in Nat
  BY TextAssumption, LenProperties DEF Init
<1>2. rp = 0 /\ ahead = 0 /\ gone = FALSE /\ ends \in {"eof", "error"}
  BY DEF Init
<1>3. ReaderInv
  <2>1. rp \in Nat /\ ahead \in Nat /\ rp + ahead <= Len(text)
    BY <1>1, <1>2
  <2>2. QED
    BY <1>1, <1>2, <2>1 DEF ReaderInv
<1>4. QED
  BY <1>3 DEF Init, IInv, LookedAhead, BehindAnItem, Ended

LEMMA RefillIInv ==
  ASSUME IInv, Refill
  PROVE  IInv'
<1>1. ReaderInv /\ Len(text) \in Nat
  BY Lengths DEF IInv
<1>2. /\ UNCHANGED <<text, ends, rp, pc, treeVars, tokenVars, error>>
      /\ pc \in ReadingAhead /\ ahead = 0 /\ ~gone
  BY DEF Refill
<1>3. /\ ahead' \in Nat /\ rp + ahead' <= Len(text) /\ gone' \in BOOLEAN
      /\ gone' => rp + ahead' = Len(text)
  <2>1. CASE RefillEnough
    <3>1. /\ ahead' \in UTF8_BUF_MIN_SIZE..(UTF8_BUF_MIN_SIZE + FREAD_BUF_SIZE - 1)
          /\ ahead' <= Len(text) - rp /\ gone' = gone
      BY <2>1 DEF RefillEnough, remaining
    <3>2. UTF8_BUF_MIN_SIZE \in Nat /\ FREAD_BUF_SIZE \in Nat
      BY SizeAssumption
    <3>3. rp \in Nat /\ Len(text) \in Nat
      BY <1>1 DEF ReaderInv
    <3>4. ahead' \in Nat
      BY <3>1, <3>2
    <3>5. rp + ahead' <= Len(text)
      BY <3>1, <3>3, <3>4
    <3>6. gone' = FALSE
      BY <1>1, <1>2, <3>1 DEF ReaderInv
    <3>7. QED
      BY <3>4, <3>5, <3>6
  <2>2. CASE RefillRest
    BY <1>1, <2>2 DEF RefillRest, remaining, ReaderInv
  <2>3. QED
    BY <2>1, <2>2 DEF Refill
<1>4. ReaderInv'
  BY <1>1, <1>2, <1>3 DEF ReaderInv
<1>5. LookedAhead' /\ BehindAnItem' /\ Ended'
  BY <1>2, Elsewhere DEF ReadingAhead
<1>6. QED
  BY <1>4, <1>5 DEF IInv

\* skip_whitespace_and_comments.
LEMMA SkipIInv ==
  ASSUME IInv, SkipWhitespace \/ StartComment \/ SkipDone \/ Comment
  PROVE  IInv'
<1>1. ReaderInv
  BY DEF IInv
<1>2. CASE SkipWhitespace \/ StartComment
  <2>1. ahead > 0 /\ Consume /\ pc' \in {"skip", "comment"}
    BY <1>2 DEF SkipWhitespace, StartComment, SeesOneOf, Sees
  <2>2. QED
    BY <1>1, <2>1, ConsumeReader, Elsewhere DEF IInv
<1>3. CASE SkipDone
  <2>1. UNCHANGED readerVars /\ pc' = "item" /\ (ahead > 0 \/ gone)
    BY <1>3 DEF SkipDone, SeesNothing, SeesOneOf
  <2>2. LookedAhead' /\ BehindAnItem' /\ Ended'
    BY <2>1 DEF readerVars, LookedAhead, BehindAnItem, Ended
  <2>3. QED
    BY <1>1, <2>1, <2>2, SameReader DEF IInv
<1>4. CASE Comment
  <2>1. pc' \in {"skip", "comment"}
    BY <1>4 DEF Comment
  <2>2. (ahead > 0 /\ Consume) \/ UNCHANGED readerVars
    BY <1>4 DEF Comment
  <2>3. QED
    BY <1>1, <2>1, <2>2, ConsumeReader, SameReader, Elsewhere DEF IInv
<1>5. QED
  BY <1>2, <1>3, <1>4

\* The ends of the loops: run's, and a list's.
LEMMA LoopIInv ==
  ASSUME IInv, Finish \/ MissingClose \/ CloseList \/ Follow
  PROVE  IInv'
<1>1. ReaderInv /\ LookedAhead /\ BehindAnItem /\ Ended /\ Len(text) \in Nat
  BY Lengths DEF IInv
<1>2. CASE Finish
  <2>1. /\ UNCHANGED readerVars /\ pc = "item" /\ ahead = 0
        /\ Fail("input") \/ (ends = "eof" /\ pc' = "done")
    BY <1>2 DEF Finish
  <2>2. ReaderInv'
    BY <1>1, <2>1, SameReader
  <2>3. CASE Fail("input")
    BY <2>2, <2>3, FailEnds DEF IInv
  <2>4. CASE ends = "eof" /\ pc' = "done"
    <3>1. gone /\ rp = Len(text)
      BY <1>1, <2>1 DEF LookedAhead, ReaderInv
    <3>2. LookedAhead' /\ BehindAnItem' /\ Ended'
      BY <2>1, <2>4, <3>1 DEF readerVars, LookedAhead, BehindAnItem, Ended
    <3>3. QED
      BY <2>2, <3>2 DEF IInv
  <2>5. QED
    BY <2>1, <2>3, <2>4
<1>3. CASE MissingClose
  BY <1>1, <1>3, SameReader, FailEnds DEF MissingClose, IInv
<1>4. CASE CloseList
  <2>1. /\ ahead > 0 /\ next = close_char /\ Consume
        /\ Built(List(frame.open = OPEN_FNAPP_CHAR, frame.xs), Outer)
    BY <1>4 DEF CloseList, Sees
  <2>2. ReaderInv' /\ text'[rp'] = close_char
    BY <1>1, <2>1, ConsumeReader
  <2>3. close_char \in Closers
    BY DEF close_char, Closing, Closers
  <2>4. (text[rp] \in Closers)'
    BY <2>2, <2>3 DEF Closers
  <2>5. QED
    BY <2>1, <2>2, <2>4, BuiltInv DEF IInv
<1>5. CASE Follow
  <2>1. /\ UNCHANGED readerVars /\ pc = "follow"
        /\ \/ ahead = 0 /\ pc' = "aborted" /\ UNCHANGED frames
           \/ pc' = "skip"
           \/ Fail("unexpected char")
    BY <1>5 DEF Follow, treeVars
  <2>2. ReaderInv'
    BY <1>1, <2>1, SameReader
  <2>3. CASE ahead = 0 /\ pc' = "aborted" /\ UNCHANGED frames
    <3>1. BehindAnItem'
      BY <1>1, <2>1, <2>3 DEF BehindAnItem, readerVars, InList
    <3>2. LookedAhead' /\ Ended'
      BY <2>1, <2>3 DEF LookedAhead, Ended, readerVars
    <3>3. QED
      BY <2>2, <3>1, <3>2 DEF IInv
  <2>4. CASE pc' = "skip"
    BY <2>2, <2>4, Elsewhere DEF IInv
  <2>5. CASE Fail("unexpected char")
    BY <2>2, <2>5, FailEnds DEF IInv
  <2>6. QED
    BY <2>1, <2>3, <2>4, <2>5
<1>6. QED
  BY <1>2, <1>3, <1>4, <1>5

LEMMA StartIInv ==
  ASSUME IInv, StartList \/ StartStr \/ StartNum \/ StartSym
  PROVE  IInv'
<1>1. ReaderInv
  BY DEF IInv
<1>2. pc' \in {"skip", "str", "num", "sym"}
  BY DEF StartList, StartStr, StartNum, StartSym
<1>3. (ahead > 0 /\ Consume) \/ UNCHANGED readerVars
  BY DEF StartList, StartStr, StartNum, StartSym, StartsItem
<1>4. QED
  BY <1>1, <1>2, <1>3, ConsumeReader, SameReader, Elsewhere DEF IInv

\* A symbol ends where a character that does not belong to it was seen, or none.
LEMMA ReadSymIInv ==
  ASSUME IInv, ReadSym
  PROVE  IInv'
<1>1. ReaderInv
  BY DEF IInv
<1>2. CASE ahead > 0 /\ Consume /\ UNCHANGED pc
  BY <1>1, <1>2, ConsumeReader, Elsewhere DEF ReadSym, IInv
<1>3. CASE /\ SeesNothing \/ ahead > 0
           /\ UNCHANGED readerVars
           /\ Built(Token(xs, "STRING"), frames) \/ Fail("unexpected char")
  <2>1. (ahead > 0 \/ gone \/ text[rp] \in Closers)'
    BY <1>3 DEF SeesNothing, readerVars
  <2>2. QED
    BY <1>1, <1>3, <2>1, SameReader, BuiltInv, FailEnds DEF IInv
<1>4. QED
  BY <1>2, <1>3 DEF ReadSym, SeesOneOf

\* A string ends behind its quote.
LEMMA StrCharInv ==
  ASSUME ReaderInv, ahead > 0, Consume, NEW c, StrChar(c),
         c = STRING_QUOTE_CHAR => next = STRING_QUOTE_CHAR
  PROVE  IInv'
<1>1. ReaderInv' /\ text'[rp'] = next
  BY ConsumeReader
<1>2. CASE c = STRING_QUOTE_CHAR
  <2>1. (text[rp] \in Closers)'
    BY <1>1, <1>2 DEF Closers
  <2>2. Built(Token(xs, "QUOTED_STRING"), frames)
    BY <1>2 DEF StrChar
  <2>3. QED
    BY <1>1, <2>1, <2>2, BuiltInv DEF IInv
<1>3. CASE c # STRING_QUOTE_CHAR
  BY <1>1, <1>3, Elsewhere DEF StrChar, IInv
<1>4. QED
  BY <1>2, <1>3

LEMMA ReadStrIInv ==
  ASSUME IInv, ReadStr
  PROVE  IInv'
<1>1. ReaderInv
  BY DEF IInv
<1>2. CASE Fail("missing char") /\ UNCHANGED readerVars
  BY <1>1, <1>2, SameReader, FailEnds DEF IInv
<1>3. CASE ahead > 0 /\ Consume /\ pc' = "escape"
  BY <1>1, <1>3, ConsumeReader, Elsewhere DEF IInv
<1>4. CASE ahead > 0 /\ Consume /\ StrChar(next)
  BY <1>1, <1>4, StrCharInv
<1>5. QED
  BY <1>2, <1>3, <1>4 DEF ReadStr, Sees, SeesOneOf

\* Of the escapes only an escaped quote is a quote.
LEMMA UnescapedQuote ==
  \A c : Unescaped(c) = STRING_QUOTE_CHAR => c = STRING_QUOTE_CHAR
BY DEF Unescaped, STRING_QUOTE_CHAR, Newline

LEMMA WhyNothingIsSomething == WhyNothing # "none"
BY DEF WhyNothing

LEMMA ReadEscapeIInv ==
  ASSUME IInv, ReadEscape
  PROVE  IInv'
<1>1. ReaderInv
  BY DEF IInv
<1>2. CASE Fail(WhyNothing) /\ UNCHANGED readerVars
  BY <1>1, <1>2, SameReader, FailEnds, WhyNothingIsSomething DEF IInv
<1>3. CASE ahead > 0 /\ Consume /\ StrChar(Unescaped(next))
  BY <1>1, <1>3, StrCharInv, UnescapedQuote
<1>4. CASE ahead > 0 /\ Consume /\ Fail("invalid escape")
  BY <1>1, <1>4, ConsumeReader, FailEnds DEF IInv
<1>5. QED
  BY <1>2, <1>3, <1>4 DEF ReadEscape, SeesOneOf

\* A number ends like a symbol.
LEMMA ReadNumIInv ==
  ASSUME IInv, ReadNum
  PROVE  IInv'
<1>1. ReaderInv /\ pc = "num"
  BY DEF IInv, ReadNum
<1>2. ASSUME NEW s, ahead > 0, Take(s) PROVE IInv'
  <2>1. Consume /\ pc' = pc
    BY <1>2 DEF Take
  <2>2. QED
    BY <1>1, <1>2, <2>1, ConsumeReader, Elsewhere DEF IInv
<1>3. ASSUME NumFails PROVE IInv'
  <2>1. UNCHANGED readerVars /\ (Fail(WhyNothing) \/ Fail("unexpected char"))
    BY <1>3 DEF NumFails
  <2>2. QED
    BY <1>1, <2>1, SameReader, FailEnds, WhyNothingIsSomething DEF IInv
<1>4. ASSUME SeesNothing \/ ahead > 0, NumDone PROVE IInv'
  <2>1. UNCHANGED readerVars /\ Built(Token(xs, "NUMBER"), frames)
    BY <1>4 DEF NumDone
  <2>2. (ahead > 0 \/ gone \/ text[rp] \in Closers)'
    BY <1>4, <2>1 DEF SeesNothing, readerVars
  <2>3. QED
    BY <1>1, <2>1, <2>2, SameReader, BuiltInv DEF IInv
<1>5. CASE NeedSign
  <2>1. ASSUME UNCHANGED <<readerVars, pc>> PROVE IInv'
    BY <1>1, <2>1, SameReader, Elsewhere DEF IInv
  <2>2. QED
    BY <1>2, <1>5, <2>1 DEF NeedSign, SeesOneOf
<1>6. CASE NeedInteger
  BY <1>2, <1>3, <1>6 DEF NeedInteger, SeesOneOf, Sees
<1>7. CASE FinishInteger
  BY <1>2, <1>4, <1>7 DEF FinishInteger, SeesOneOf, Sees, SeesNoneOf
<1>8. CASE MaybeDot
  BY <1>2, <1>4, <1>8 DEF MaybeDot, SeesOneOf, Sees, SeesNoneOf
<1>9. CASE AfterDot
  BY <1>2, <1>3, <1>4, <1>9 DEF AfterDot, SeesOneOf, SeesNoneOf
<1>10. QED
  BY <1>5, <1>6, <1>7, <1>8, <1>9 DEF ReadNum

LEMMA NextIInv ==
  ASSUME IInv, [Next]_vars
  PROVE  IInv'
<1>1. CASE UNCHANGED vars
  BY <1>1 DEF vars, readerVars, treeVars, IInv, ReaderInv, LookedAhead, BehindAnItem, Ended, InList
<1>2. QED
  BY <1>1, RefillIInv, SkipIInv, LoopIInv, StartIInv, ReadSymIInv, ReadStrIInv,
     ReadEscapeIInv, ReadNumIInv DEF Next

\* The inductive invariant holds for every set of texts and every buffer size.
THEOREM Invariance == Spec => []IInv
<1>1. IInv /\ [Next]_vars => IInv'
  BY NextIInv
<1>2. QED
  BY InitIInv, <1>1, PTL DEF Spec

\* run returns a tree only for an input that was read to its end without an
\* error, and never an empty list of messages (ast_builder.cpp:41-66).
THEOREM BrokenInputHasNoTree == Spec => []NoTreeFromBrokenInput
<1>1. IInv => NoTreeFromBrokenInput
  BY DEF IInv, Ended, NoTreeFromBrokenInput
<1>2. QED
  BY Invariance, <1>1, PTL

\* The assertion of peek_wora fails only in a list, and only where the input
\* ends or behind a nested list or a string (filereader.h:137-145).
THEOREM AbortCause == Spec => []AbortOnlyBehindAClosedItem
<1>1. IInv => AbortOnlyBehindAClosedItem
  BY DEF IInv, Ended, BehindAnItem, AbortOnlyBehindAClosedItem, Closers
<1>2. QED
  BY Invariance, <1>1, PTL

-----------------------------------------------------------------------------
(* What the parser knows at each of its control points.                    *)

\* At position i, with the lists fs open and top read, the text can still be read
\* from here or not at all.
At(s, fs, top, i) == Standing(s, fs, top, Reads(s, Inner(fs), i))

\* A character from which read_expr reads an item.
Starts(s, fs, i) == i < Len(s) /\ s[i + 1] \notin Blanks \cup {COMMENT_CHAR} /\ s[i + 1] # Inner(fs)

\* What was read of an item from position p to l: a comment,
OfComment(s, p, l) ==
  /\ p < l
  /\ s[p + 1] = COMMENT_CHAR
  /\ \A q \in (p + 1)..l : s[q] # Newline

\* a symbol,
OfSymbol(s, p, l, ys) ==
  /\ s[p + 1] \notin Digits \cup Signs \cup Opens \cup {STRING_QUOTE_CHAR}
  /\ p <= l
  /\ \A q \in (p + 1)..l : is_symbol_char(s[q])
  /\ ys = SubSeq(s, p + 1, l)

\* a number, of which the digits start at z,
OfNumber(s, p, l, ys, st) ==
  LET z == IntegerAt(s, p)
  IN /\ s[p + 1] \in Digits \cup Signs
     /\ ys = SubSeq(s, NumberAt(s, p), l)
     /\ \/ st = "NEED_SIGN_OR_GO_ON" /\ l = p
        \/ st = "NEED_SINGLE_ZERO_OR_NONZERO_INTEGER" /\ l = z
        \/ st = "FINISHING_NONZERO_INTEGER" /\ IntegerTo(s, z, l) /\ s[z + 1] # "0"
        \/ st = "MAYBE_DECIMAL_DOT" /\ IntegerTo(s, z, l) /\ s[z + 1] = "0"
        \/ /\ st = "AFTER_DECIMAL_DOT"
           /\ \E m \in Nat : /\ m + 1 <= l
                             /\ IntegerTo(s, z, m)
                             /\ s[m + 1] = "."
                             /\ AllIn(s, m + 1, l, Digits)

\* or a string, escaping the next character or not.
OfString(s, p, l, ys, escapes) ==
  /\ InString(s, p, l)
  /\ ReadTo(s, p, l) = [escapes |-> escapes, value |-> ys]
  /\ IsList(ys)

\* The parser is at i in an item that starts at p.
In(s, fs, top, p, i) == p \in Nat /\ p <= i /\ Starts(s, fs, p) /\ At(s, fs, top, p)

Skipping == xs = <<>> /\ At(text, frames, top_level_exprs, rp)
Commenting ==
  xs = <<>> /\ \E p \in Nat : OfComment(text, p, rp) /\ At(text, frames, top_level_exprs, p)
Following ==
  /\ xs = <<>>
  /\ \E e : /\ mx = <<e>>
            /\ Standing(text, frames, top_level_exprs, After(<<e>>, Rest(text, Inner(frames), rp)))
Symboling ==
  \E p \in Nat : In(text, frames, top_level_exprs, p, rp) /\ OfSymbol(text, p, rp, xs)
Numbering ==
  \E p \in Nat : In(text, frames, top_level_exprs, p, rp) /\ OfNumber(text, p, rp, xs, state)
Quoting(escapes) ==
  \E p \in Nat : In(text, frames, top_level_exprs, p, rp) /\ OfString(text, p, rp, xs, escapes)

GrammarInv ==
  /\ pc \in {"skip", "item"} => Skipping
  /\ pc = "item" /\ rp < Len(text) => text[rp + 1] \notin Blanks \cup {COMMENT_CHAR}
  /\ pc = "comment" => Commenting
  /\ pc = "follow" => Following
  /\ pc = "sym" => Symboling
  /\ pc = "num" => Numbering
  /\ pc = "str" => Quoting(FALSE)
  /\ pc = "escape" => Quoting(TRUE)
  /\ ParsesTheGrammar

-----------------------------------------------------------------------------
\* Consumed and unread parts of the text.
LEMMA Around ==
  ASSUME ReaderInv
  PROVE  /\ IsText(text) /\ Len(text) \in Nat /\ rp \in 0..Len(text)
         /\ ahead > 0 => rp \in Nat /\ rp < Len(text) /\ rp + 1 \in 0..Len(text) /\ next \in Characters
         /\ SeesNothing => rp = Len(text)
<1>1. IsText(text) /\ Len(text) \in Nat /\ rp \in Nat /\ ahead \in Nat /\ rp + ahead <= Len(text)
  BY Lengths DEF ReaderInv, IsText
<1>2. ahead > 0 => rp + 1 \in 1..Len(text)
  BY <1>1
<1>3. SeesNothing => rp = Len(text)
  BY <1>1 DEF SeesNothing, ReaderInv
<1>4. QED
  BY <1>1, <1>2, <1>3, TextHas DEF next

LEMMA Reached == ASSUME NEW s, NEW fs, NEW top, NEW R, Standing(s, fs, top, R)
                 PROVE  FramesOk(fs) /\ Inner(fs) \in Ends /\ (fs # <<>> <=> Inner(fs) # "end") /\ (fs # <<>> <=> Len(fs) # 0)
<1>1. FramesOk(fs)
  BY DEF Standing
<1>2. Len(fs) # 0 <=> fs # <<>>
  <2>1. PICK S : fs \in Seq(S)
    BY <1>1 DEF FramesOk
  <2>2. QED
    BY <2>1, EmptySeq
<1>3. QED
  BY <1>1, <1>2, InnerIs

LEMMA InitGrammar == Init => GrammarInv
<1> SUFFICES ASSUME Init PROVE GrammarInv
  OBVIOUS
<1>1. IsText(text)
  BY TextAssumption DEF Init, IsText
<1>2. Inner(<<>>) = "end"
  BY DEF Inner, CloseAt
<1>3. Standing(text, <<>>, <<>>, Reads(text, "end", 0))
  BY <1>1, StandsFirst
<1>4. Skipping
  BY <1>2, <1>3 DEF Skipping, At, Init
<1>5. QED
  BY <1>4 DEF GrammarInv, ParsesTheGrammar, Init

\* The reader's buffer is not part of it.
GrammarVars == <<text, ends, rp, pc, treeVars, tokenVars>>
LEMMA SameGrammar ==
  ASSUME GrammarInv, UNCHANGED GrammarVars
  PROVE  GrammarInv'
BY DEF GrammarInv, GrammarVars, treeVars, tokenVars, Skipping, Commenting, Following, Symboling, Numbering,
  Quoting, ParsesTheGrammar

\* The text can no longer stand for anything.
LEMMA Fails ==
  ASSUME IInv, NEW why, Fail(why), text' = text, ends' = ends,
         NEW fs, NEW top, ends = "eof" => Standing(text, fs, top, {})
  PROVE  GrammarInv'
<1>1. IsText(text)
  BY Around DEF IInv
<1>2. ends = "eof" => Forests(text) = {}
  BY <1>1, StandsNowhere
<1>3. ParsesTheGrammar'
  BY <1>2 DEF Fail, ParsesTheGrammar
<1>4. QED
  BY <1>3 DEF Fail, GrammarInv

\* An item was read, and the position is behind it.
LEMMA Builds ==
  ASSUME IInv, NEW e, NEW outer, Built(e, outer), text' = text, rp' \in 0..Len(text),
         Standing(text, outer, top_level_exprs, After(<<e>>, Rest(text, Inner(outer), rp')))
  PROVE  GrammarInv'
<1>1. IsText(text) /\ xs' = <<>> /\ frames' = outer
  BY Around DEF IInv, Built
<1>2. CASE outer = <<>>
  <2>1. pc' = "skip" /\ top_level_exprs' = Append(top_level_exprs, e)
    BY <1>2 DEF Built
  <2>2. Standing(text, <<>>, Append(top_level_exprs, e), Reads(text, "end", rp'))
    BY <1>1, <1>2, StandsAtTop
  <2>3. Inner(<<>>) = "end"
    BY DEF Inner, CloseAt
  <2>4. Skipping'
    BY <1>1, <1>2, <2>1, <2>2, <2>3 DEF Skipping, At
  <2>5. QED
    BY <2>1, <2>4 DEF GrammarInv, ParsesTheGrammar
<1>3. CASE outer # <<>>
  <2>1. pc' = "follow" /\ mx' = <<e>> /\ top_level_exprs' = top_level_exprs
    BY <1>3 DEF Built
  <2>2. Following'
    BY <1>1, <2>1 DEF Following
  <2>3. QED
    BY <2>1, <2>2 DEF GrammarInv, ParsesTheGrammar
<1>4. QED
  BY <1>2, <1>3

-----------------------------------------------------------------------------
(* The actions.                                                            *)

LEMMA RefillGrammar == ASSUME GrammarInv, Refill PROVE GrammarInv'
BY SameGrammar DEF Refill, GrammarVars

\* skip_whitespace_and_comments.
LEMMA SkipGrammar ==
  ASSUME IInv, GrammarInv, SkipWhitespace \/ StartComment \/ SkipDone
  PROVE  GrammarInv'
<1>1. /\ IsText(text) /\ Len(text) \in Nat /\ rp \in 0..Len(text)
      /\ ahead > 0 => rp \in Nat /\ rp < Len(text) /\ rp + 1 \in 0..Len(text)
      /\ SeesNothing => rp = Len(text)
  BY Around DEF IInv
<1>2. Skipping /\ pc = "skip"
  BY DEF GrammarInv, SkipWhitespace, StartComment, SkipDone
<1>3. Inner(frames) \in Ends
  BY <1>2, Reached DEF Skipping, At
<1>4. text' = text /\ UNCHANGED <<frames, top_level_exprs, xs>>
  BY DEF SkipWhitespace, StartComment, SkipDone, Consume, readerVars, treeVars, tokenVars
<1>5. CASE SkipWhitespace
  <2>1. ahead > 0 /\ text[rp + 1] \in Blanks /\ pc' = "skip" /\ rp' = rp + 1
    BY <1>2, <1>5 DEF SkipWhitespace, SeesOneOf, next, Consume
  <2>2. Reads(text, Inner(frames), rp) = Reads(text, Inner(frames), rp + 1)
    BY <1>1, <1>3, <2>1, ReadsBlank
  <2>3. Skipping'
    BY <1>2, <1>4, <2>1, <2>2 DEF Skipping, At
  <2>4. QED
    BY <2>1, <2>3 DEF GrammarInv, ParsesTheGrammar
<1>6. CASE StartComment
  <2>1. ahead > 0 /\ text[rp + 1] = COMMENT_CHAR /\ pc' = "comment" /\ rp' = rp + 1
    BY <1>6 DEF StartComment, Sees, next, Consume
  <2>2. OfComment(text, rp, rp + 1)
    <3>1. rp < rp + 1 /\ \A q \in (rp + 1)..(rp + 1) : q = rp + 1
      BY <1>1
    <3>2. COMMENT_CHAR # Newline
      BY DEF COMMENT_CHAR, Newline
    <3>3. QED
      BY <2>1, <3>1, <3>2 DEF OfComment
  <2>3. Commenting'
    BY <1>1, <1>2, <1>4, <2>1, <2>2 DEF Skipping, Commenting
  <2>4. QED
    BY <2>1, <2>3 DEF GrammarInv, ParsesTheGrammar
<1>7. CASE SkipDone
  <2>1. pc' = "item" /\ rp' = rp
    BY <1>7 DEF SkipDone, readerVars
  <2>2. Skipping'
    BY <1>2, <1>4, <2>1 DEF Skipping
  <2>3. rp < Len(text) => text[rp + 1] \notin Blanks \cup {COMMENT_CHAR}
    BY <1>1, <1>7 DEF SkipDone, SeesOneOf, next
  <2>4. QED
    BY <1>4, <2>1, <2>2, <2>3 DEF GrammarInv, ParsesTheGrammar
<1>8. QED
  BY <1>5, <1>6, <1>7

LEMMA CommentGrammar ==
  ASSUME IInv, GrammarInv, Comment
  PROVE  GrammarInv'
<1>1. /\ IsText(text) /\ Len(text) \in Nat /\ rp \in 0..Len(text)
      /\ ahead > 0 => rp \in Nat /\ rp < Len(text) /\ rp + 1 \in 0..Len(text)
      /\ SeesNothing => rp = Len(text)
  BY Around DEF IInv
<1>2. Commenting /\ pc = "comment"
  BY DEF GrammarInv, Comment
<1>3. PICK p \in Nat : OfComment(text, p, rp) /\ At(text, frames, top_level_exprs, p)
  BY <1>2 DEF Commenting
<1>4. Inner(frames) \in Ends
  BY <1>3, Reached DEF At
<1>5. text' = text /\ UNCHANGED <<frames, top_level_exprs, xs>> /\ xs = <<>>
  BY <1>2 DEF Comment, Consume, readerVars, treeVars, tokenVars, Commenting
<1>6. ASSUME rp' \in (p + 1)..Len(text), text[rp'] = Newline \/ rp' = Len(text), pc' = "skip",
             \A q \in (p + 1)..(rp' - 1) : text[q] # Newline
      PROVE  GrammarInv'
  <2>1. Reads(text, Inner(frames), p) = Reads(text, Inner(frames), rp')
    BY <1>1, <1>3, <1>4, <1>6, ReadsComment DEF OfComment
  <2>2. Skipping'
    BY <1>3, <1>5, <2>1 DEF Skipping, At
  <2>3. QED
    BY <1>6, <2>2 DEF GrammarInv, ParsesTheGrammar
<1>7. CASE ahead > 0 /\ Consume
  <2>1. rp' = rp + 1 /\ pc' = IF text[rp + 1] = Newline THEN "skip" ELSE "comment"
    BY <1>2, <1>7 DEF Comment, Consume, next, SeesNothing
  <2>2. p < rp /\ \A q \in (p + 1)..rp : text[q] # Newline
    BY <1>3 DEF OfComment
  <2>3. CASE text[rp + 1] = Newline
    <3>1. rp' \in (p + 1)..Len(text) /\ (rp + 1) - 1 = rp
      BY <1>1, <1>7, <2>1, <2>2
    <3>2. QED
      BY <1>6, <2>1, <2>2, <2>3, <3>1
  <2>4. CASE text[rp + 1] # Newline
    <3>1. \A q \in (p + 1)..(rp + 1) : q = rp + 1 \/ q \in (p + 1)..rp
      BY <1>1, <2>2
    <3>2. OfComment(text, p, rp + 1)
      BY <1>1, <1>3, <2>2, <2>4, <3>1 DEF OfComment
    <3>3. Commenting'
      BY <1>3, <1>5, <2>1, <3>2 DEF Commenting
    <3>4. QED
      BY <2>1, <2>4, <3>3 DEF GrammarInv, ParsesTheGrammar
  <2>5. QED
    BY <2>3, <2>4
<1>8. CASE SeesNothing /\ UNCHANGED readerVars
  <2>1. rp' = rp /\ rp = Len(text) /\ pc' = "skip"
    BY <1>1, <1>8 DEF Comment, readerVars, SeesNothing
  <2>2. p < rp /\ \A q \in (p + 1)..rp : text[q] # Newline
    BY <1>3 DEF OfComment
  <2>3. rp \in (p + 1)..Len(text) /\ \A q \in (p + 1)..(rp - 1) : q \in (p + 1)..rp
    BY <1>1, <2>1, <2>2
  <2>4. QED
    BY <1>6, <2>1, <2>2, <2>3
<1>9. QED
  BY <1>7, <1>8 DEF Comment

\* run's loop and those of the lists.
LEMMA FinishGrammar ==
  ASSUME IInv, GrammarInv, Finish \/ MissingClose
  PROVE  GrammarInv'
<1>1. IsText(text) /\ (SeesNothing => rp = Len(text))
  BY Around DEF IInv
<1>2. pc = "item" /\ ahead = 0 /\ UNCHANGED readerVars
  BY DEF Finish, MissingClose
<1>3. rp = Len(text)
  BY <1>1, <1>2 DEF IInv, LookedAhead, SeesNothing
<1>4. Standing(text, frames, top_level_exprs, Reads(text, Inner(frames), Len(text)))
  BY <1>2, <1>3 DEF GrammarInv, Skipping, At
<1>5. Inner(frames) \in Ends /\ (frames # <<>> <=> Inner(frames) # "end")
  BY <1>4, Reached
<1>6. text' = text /\ ends' = ends
  BY <1>2 DEF readerVars
<1>7. CASE Finish /\ ends = "error" /\ Fail("input")
  BY <1>6, <1>7, Fails
<1>8. CASE Finish /\ ends = "eof" /\ pc' = "done" /\ UNCHANGED treeVars
  <2>1. frames = <<>> /\ top_level_exprs' = top_level_exprs
    BY <1>8 DEF Finish, InList, treeVars
  <2>2. Standing(text, <<>>, top_level_exprs, Reads(text, "end", Len(text)))
    BY <1>4, <1>5, <2>1
  <2>3. Forests(text) = {top_level_exprs}
    BY <1>1, <2>2, StandsAtEnd
  <2>4. ParsesTheGrammar'
    BY <1>6, <1>8, <2>1, <2>3 DEF ParsesTheGrammar
  <2>5. QED
    BY <1>8, <2>4 DEF GrammarInv
<1>9. CASE MissingClose
  <2>1. Inner(frames) # "end"
    BY <1>5, <1>9 DEF MissingClose, InList
  <2>2. Reads(text, Inner(frames), Len(text)) = {}
    BY <1>1, <1>5, <2>1, ReadsEnd
  <2>3. Standing(text, frames, top_level_exprs, {})
    BY <1>4, <2>2
  <2>4. QED
    BY <1>6, <1>9, <2>3, Fails DEF MissingClose
<1>10. QED
  BY <1>7, <1>8, <1>9 DEF Finish

LEMMA CloseChar == frames # <<>> /\ FramesOk(frames) => close_char = Inner(frames) /\ Len(frames) # 0
<1> SUFFICES ASSUME frames # <<>>, FramesOk(frames) PROVE close_char = Inner(frames) /\ Len(frames) # 0
  OBVIOUS
<1>1. PICK S : frames \in Seq(S)
  BY DEF FramesOk
<1>2. Len(frames) # 0
  BY <1>1, EmptySeq
<1>3. QED
  BY <1>2 DEF close_char, frame, Inner, CloseAt

LEMMA CloseGrammar ==
  ASSUME IInv, GrammarInv, CloseList
  PROVE  GrammarInv'
<1>1. /\ IsText(text) /\ Len(text) \in Nat /\ rp \in 0..Len(text)
      /\ ahead > 0 => rp \in Nat /\ rp < Len(text) /\ rp + 1 \in 0..Len(text)
  BY Around DEF IInv
<1>2. /\ pc = "item" /\ frames # <<>> /\ ahead > 0 /\ text[rp + 1] = close_char
      /\ rp' = rp + 1 /\ text' = text
      /\ Built(List(frame.open = OPEN_FNAPP_CHAR, frame.xs), Outer)
  BY DEF CloseList, InList, Sees, next, Consume
<1>3. Standing(text, frames, top_level_exprs, Reads(text, Inner(frames), rp))
  BY <1>2 DEF GrammarInv, Skipping, At
<1>4. FramesOk(frames) /\ Inner(frames) \in Ends /\ Inner(frames) # "end"
  BY <1>2, <1>3, Reached
<1>5. close_char = Inner(frames) /\ Len(frames) # 0
  BY <1>2, <1>4, CloseChar
<1>6. Reads(text, Inner(frames), rp) = {<<<<>>, rp>>}
  BY <1>1, <1>2, <1>4, <1>5, ReadsClose
<1>7. Standing(text, frames, top_level_exprs, {<<<<>>, rp>>})
  BY <1>3, <1>6
<1>8. Standing(text, Outer, top_level_exprs,
         After(<<List(frame.open = OPEN_FNAPP_CHAR, frame.xs)>>, Rest(text, Inner(Outer), rp + 1)))
  BY <1>1, <1>5, <1>7, StandsOutside DEF Outer, frame
<1>9. QED
  BY <1>1, <1>2, <1>8, Builds

\* peek_wora, behind an item of a list.
LEMMA FollowGrammar ==
  ASSUME IInv, GrammarInv, Follow
  PROVE  GrammarInv'
<1>1. /\ IsText(text) /\ Len(text) \in Nat /\ rp \in 0..Len(text)
      /\ ahead > 0 => rp \in Nat /\ rp < Len(text) /\ rp + 1 \in 0..Len(text)
  BY Around DEF IInv
<1>2. pc = "follow" /\ text' = text /\ rp' = rp /\ ends' = ends /\ Following /\ frames # <<>>
  BY DEF Follow, readerVars, GrammarInv, IInv, BehindAnItem, InList
<1>3. PICK e : /\ mx = <<e>>
               /\ Standing(text, frames, top_level_exprs, After(<<e>>, Rest(text, Inner(frames), rp)))
  BY <1>2 DEF Following
<1>4. FramesOk(frames) /\ Inner(frames) \in Ends /\ Inner(frames) # "end"
  BY <1>2, <1>3, Reached
<1>5. close_char = Inner(frames) /\ Len(frames) # 0
  BY <1>2, <1>4, CloseChar
<1>6. CASE pc' = "aborted"
  BY <1>6 DEF GrammarInv, ParsesTheGrammar
<1>7. CASE /\ SeesOneOf({close_char, COMMENT_CHAR} \cup Blanks)
           /\ frames' = Append(Outer, [frame EXCEPT !.xs = @ \o mx])
           /\ pc' = "skip" /\ UNCHANGED <<top_level_exprs, tokenVars>>
  <2>1. Follows(text, Inner(frames), rp)
    BY <1>1, <1>5, <1>7 DEF Follows, SeesOneOf, next
  <2>2. frames' = Append(SubSeq(frames, 1, Len(frames) - 1), [frames[Len(frames)] EXCEPT !.xs = @ \o <<e>>])
    BY <1>3, <1>7 DEF Outer, frame
  <2>3. Standing(text, frames', top_level_exprs, Reads(text, Inner(frames'), rp))
    BY <1>1, <1>3, <1>5, <2>1, <2>2, StandsBehind
  <2>4. xs' = <<>> /\ top_level_exprs' = top_level_exprs
    BY <1>2, <1>7 DEF tokenVars, Following
  <2>5. Skipping'
    <3>1. (Inner(frames))' = Inner(frames')
      OBVIOUS
    <3>2. QED
      BY <1>2, <2>3, <2>4, <3>1 DEF Skipping, At
  <2>6. QED
    BY <1>7, <2>5 DEF GrammarInv, ParsesTheGrammar
<1>8. CASE SeesOneOf(Characters \ ({close_char, COMMENT_CHAR} \cup Blanks)) /\ Fail("unexpected char")
  <2>1. ~Follows(text, Inner(frames), rp)
    BY <1>4, <1>5, <1>8 DEF Follows, SeesOneOf, next
  <2>2. Rest(text, Inner(frames), rp) = {}
    BY <2>1 DEF Rest
  <2>3. Standing(text, frames, top_level_exprs, {})
    BY <1>3, <2>2, AfterNone
  <2>4. QED
    BY <1>2, <1>8, <2>3, Fails
<1>9. QED
  BY <1>6, <1>7, <1>8 DEF Follow

LEMMA CharacterNotEnd == "end" \notin Characters
BY DEF Characters, OPEN_LIST_CHAR, OPEN_FNAPP_CHAR, CLOSE_LIST_CHAR, CLOSE_FNAPP_CHAR,
  STRING_QUOTE_CHAR, STRING_ESCAPE_CHAR, COMMENT_CHAR, Blanks, Newline, Digits, Signs, Controls, Letters

\* The first character of an item.
LEMMA AtAnItem ==
  ASSUME IInv, GrammarInv, StartsItem
  PROVE  /\ In(text, frames, top_level_exprs, rp, rp)
         /\ rp + 1 \in 0..Len(text)
         /\ IsText(text) /\ xs = <<>> /\ next = text[rp + 1]
<1>1. /\ IsText(text) /\ Len(text) \in Nat
      /\ rp \in Nat /\ rp < Len(text) /\ rp + 1 \in 0..Len(text) /\ next \in Characters
  BY Around DEF IInv, StartsItem
<1>2. pc = "item" /\ xs = <<>> /\ At(text, frames, top_level_exprs, rp)
  BY DEF GrammarInv, Skipping, StartsItem
<1>3. text[rp + 1] \notin Blanks \cup {COMMENT_CHAR}
  BY <1>1, <1>2 DEF GrammarInv
<1>4. text[rp + 1] # Inner(frames)
  <2>1. CASE frames = <<>>
    <3>1. Inner(frames) = "end"
      BY <2>1 DEF Inner, CloseAt
    <3>2. QED
      BY <1>1, <3>1, CharacterNotEnd DEF next
  <2>2. CASE frames # <<>>
    <3>1. FramesOk(frames)
      BY <1>2, Reached DEF At
    <3>2. close_char = Inner(frames)
      BY <2>2, <3>1, CloseChar
    <3>3. QED
      BY <2>2, <3>2 DEF StartsItem, InList, next
  <2>3. QED
    BY <2>1, <2>2
<1>5. QED
  BY <1>1, <1>2, <1>3, <1>4 DEF In, Starts, next

\* What is read of it is nothing yet.
LEMMA NothingYet ==
  ASSUME NEW s, NEW l \in Nat
  PROVE  SubSeq(s, l + 1, l) = <<>> /\ SubSeq(s, l + 2, l) = <<>>
<1>1. ASSUME NEW m \in Int, m > l PROVE SubSeq(s, m, l) = <<>>
  <2>1. \A d \in m..l : s[d] \in {}
    BY <1>1
  <2>2. SubSeq(s, m, l) \in Seq({}) /\ Len(SubSeq(s, m, l)) = IF m <= l THEN l - m + 1 ELSE 0
    BY <2>1, SubSeqProperties
  <2>3. QED
    BY <1>1, <2>2, EmptySeq
<1>2. QED
  BY <1>1

LEMMA StartGrammar ==
  ASSUME IInv, GrammarInv, StartList \/ StartStr \/ StartNum \/ StartSym
  PROVE  GrammarInv'
<1>1. StartsItem /\ ahead > 0
  BY DEF StartList, StartStr, StartNum, StartSym, StartsItem
<1>2. /\ In(text, frames, top_level_exprs, rp, rp)
      /\ IsText(text) /\ xs = <<>> /\ next = text[rp + 1]
      /\ rp \in Nat /\ Len(text) \in Nat /\ rp < Len(text) /\ next \in Characters
      /\ rp + 1 \in 0..Len(text)
  BY <1>1, AtAnItem, Around DEF IInv
<1>3. At(text, frames, top_level_exprs, rp)
  BY <1>2 DEF In
<1>4. CASE StartList
  <2>1. /\ text[rp + 1] \in Opens /\ text' = text /\ rp' = rp + 1 /\ pc' = "skip"
        /\ frames' = Append(frames, [open |-> text[rp + 1], xs |-> <<>>])
        /\ top_level_exprs' = top_level_exprs /\ xs' = xs
    BY <1>2, <1>4 DEF StartList, SeesOneOf, Consume, Opens, tokenVars
  <2>2. Standing(text, frames', top_level_exprs, Reads(text, Inner(frames'), rp + 1))
    BY <1>2, <1>3, <2>1, StandsInside DEF At
  <2>3. Skipping'
    <3>1. (Inner(frames))' = Inner(frames')
      OBVIOUS
    <3>2. QED
      BY <1>2, <2>1, <2>2, <3>1 DEF Skipping, At
  <2>4. QED
    BY <2>1, <2>3 DEF GrammarInv, ParsesTheGrammar
<1>5. CASE StartStr
  <2>1. /\ text[rp + 1] = STRING_QUOTE_CHAR /\ text' = text /\ rp' = rp + 1 /\ pc' = "str"
        /\ UNCHANGED <<frames, top_level_exprs, xs>>
    BY <1>2, <1>5 DEF StartStr, Sees, Consume, tokenVars, treeVars
  <2>2. OfString(text, rp, rp + 1, <<>>, FALSE)
    <3>1. rp + 1 \in (rp + 1)..Len(text) /\ (rp + 2)..(rp + 1) = {} /\ (rp + 2)..((rp + 1) - 1) = {}
      BY <1>2
    <3>2. QED
      BY <1>2, <2>1, <3>1, ReadToIs, OneIsList DEF OfString, InString
  <2>3. In(text, frames, top_level_exprs, rp, rp + 1)
    BY <1>2 DEF In
  <2>4. Quoting(FALSE)'
    BY <1>2, <2>1, <2>2, <2>3 DEF Quoting
  <2>5. QED
    BY <2>1, <2>4 DEF GrammarInv, ParsesTheGrammar
<1>6. CASE StartNum
  <2>1. /\ text[rp + 1] \in Digits \cup Signs /\ pc' = "num" /\ state' = "NEED_SIGN_OR_GO_ON"
        /\ UNCHANGED <<text, rp, frames, top_level_exprs, xs>>
    BY <1>2, <1>6 DEF StartNum, SeesOneOf, readerVars, treeVars
  <2>2. SubSeq(text, NumberAt(text, rp), rp) = <<>>
    BY <1>2, NothingYet DEF NumberAt
  <2>3. OfNumber(text, rp, rp, <<>>, "NEED_SIGN_OR_GO_ON")
    BY <2>1, <2>2 DEF OfNumber
  <2>4. Numbering'
    BY <1>2, <2>1, <2>3 DEF Numbering
  <2>5. QED
    BY <2>1, <2>4 DEF GrammarInv, ParsesTheGrammar
<1>7. CASE StartSym
  <2>1. /\ text[rp + 1] \notin Digits \cup Signs \cup Opens \cup {STRING_QUOTE_CHAR} /\ pc' = "sym"
        /\ UNCHANGED <<text, rp, frames, top_level_exprs, xs>>
    BY <1>2, <1>7 DEF StartSym, SeesOneOf, readerVars, treeVars, tokenVars, Opens
  <2>2. OfSymbol(text, rp, rp, <<>>)
    <3>1. (rp + 1)..rp = {} /\ rp <= rp
      BY <1>2
    <3>2. QED
      BY <1>2, <2>1, <3>1, NothingYet DEF OfSymbol
  <2>3. Symboling'
    BY <1>2, <2>1, <2>2 DEF Symboling
  <2>4. QED
    BY <2>1, <2>3 DEF GrammarInv, ParsesTheGrammar
<1>8. QED
  BY <1>4, <1>5, <1>6, <1>7

-----------------------------------------------------------------------------
(* The tokens.                                                             *)

\* One more character of a token.
LEMMA OneMore ==
  ASSUME NEW s, IsText(s), NEW m \in Nat, NEW l \in Nat, 1 <= m, m <= l + 1, l < Len(s)
  PROVE  SubSeq(s, m, l + 1) = Append(SubSeq(s, m, l), s[l + 1])
<1>1. Len(s) \in Nat /\ s \in Seq(Characters)
  BY TextHas DEF IsText
<1> DEFINE a == SubSeq(s, m, l + 1)
           b == SubSeq(s, m, l)
<1>2. \A p \in m..l : s[p] \in Characters
  <2>1. \A p \in m..l : p \in 1..Len(s)
    BY <1>1
  <2>2. QED
    BY <2>1, TextHas
<1>3. \A p \in m..(l + 1) : s[p] \in Characters
  <2>1. \A p \in m..(l + 1) : p \in 1..Len(s)
    BY <1>1
  <2>2. QED
    BY <2>1, TextHas
<1>4. /\ a \in Seq(Characters) /\ Len(a) = (IF m <= l + 1 THEN (l + 1) - m + 1 ELSE 0)
      /\ \A p \in 1..((l + 1) - m + 1) : a[p] = s[m + p - 1]
  BY <1>3, SubSeqProperties
<1>5. /\ b \in Seq(Characters) /\ Len(b) = (IF m <= l THEN l - m + 1 ELSE 0)
      /\ \A p \in 1..(l - m + 1) : b[p] = s[m + p - 1]
  BY <1>2, SubSeqProperties
<1>6. s[l + 1] \in Characters
  <2>1. l + 1 \in m..(l + 1)
    OBVIOUS
  <2>2. QED
    BY <1>3, <2>1
<1> DEFINE c == Append(b, s[l + 1])
           n == l - m + 1
<1>7. n \in Nat /\ Len(a) = n + 1 /\ Len(b) = n /\ (l + 1) - m + 1 = n + 1
  BY <1>4, <1>5
<1>8. /\ c \in Seq(Characters) /\ Len(c) = n + 1
      /\ \A p \in 1..n : c[p] = b[p]
      /\ c[n + 1] = s[l + 1]
  BY <1>5, <1>6, <1>7, AppendProperties
<1> HIDE DEF a, b, c
<1>9. \A p \in 1..(n + 1) : a[p] = c[p]
  <2>1. TAKE p \in 1..(n + 1)
  <2>2. CASE p = n + 1
    <3>1. m + p - 1 = l + 1
      BY <2>2
    <3>2. QED
      BY <1>4, <1>7, <1>8, <2>2, <3>1
  <2>3. CASE p # n + 1
    <3>1. p \in 1..n
      BY <1>7, <2>3
    <3>2. QED
      BY <1>4, <1>5, <1>7, <1>8, <3>1
  <2>4. QED
    BY <2>2, <2>3
<1>10. a = c
  BY <1>4, <1>7, <1>8, <1>9, SeqEqual
<1>11. QED
  BY <1>10 DEF a, b, c

\* A token is complete and the parser stands behind it.
LEMMA TokenRead ==
  ASSUME NEW s, IsText(s), NEW fs, NEW top, NEW p, NEW l \in (p + 1)..Len(s),
         In(s, fs, top, p, l), NEW e,
         \A k \in (p + 1)..Len(s) : Items(s, Forest(s), p, k) = IF k = l THEN {e} ELSE {}
  PROVE  Standing(s, fs, top, After(<<e>>, Rest(s, Inner(fs), l)))
<1>1. Inner(fs) \in Ends
  BY Reached DEF In, At
<1>2. Reads(s, Inner(fs), p) = After(<<e>>, Rest(s, Inner(fs), l))
  BY <1>1, ReadsOne DEF In, Starts
<1>3. QED
  BY <1>2 DEF In, At

\* No token can be read.
LEMMA TokenMissing ==
  ASSUME NEW s, IsText(s), NEW fs, NEW top, NEW p, NEW l, In(s, fs, top, p, l),
         \A k \in (p + 1)..Len(s) : Items(s, Forest(s), p, k) = {}
  PROVE  Standing(s, fs, top, {})
<1>1. Inner(fs) \in Ends
  BY Reached DEF In, At
<1>2. Reads(s, Inner(fs), p) = {}
  BY <1>1, ReadsNone DEF In, Starts
<1>3. QED
  BY <1>2 DEF In, At

LEMMA Further ==
  ASSUME NEW s, NEW fs, NEW top, NEW p, NEW l \in Nat, In(s, fs, top, p, l)
  PROVE  In(s, fs, top, p, l + 1)
BY DEF In

LEMMA SymGrammar ==
  ASSUME IInv, GrammarInv, ReadSym
  PROVE  GrammarInv'
<1>1. /\ IsText(text) /\ Len(text) \in Nat /\ rp \in 0..Len(text)
      /\ ahead > 0 => rp \in Nat /\ rp < Len(text) /\ rp + 1 \in 0..Len(text)
      /\ SeesNothing => rp = Len(text)
  BY Around DEF IInv
<1>2. PICK p \in Nat : In(text, frames, top_level_exprs, p, rp) /\ OfSymbol(text, p, rp, xs)
  BY DEF ReadSym, GrammarInv, Symboling
<1>3. /\ text[p + 1] \notin Digits \cup Signs \cup Opens \cup {STRING_QUOTE_CHAR}
      /\ p <= rp /\ p < Len(text)
      /\ \A q \in (p + 1)..rp : is_symbol_char(text[q])
      /\ xs = SubSeq(text, p + 1, rp)
  BY <1>2 DEF OfSymbol, In, Starts
<1>4. CASE /\ SeesOneOf({c \in Characters : is_symbol_char(c)})
           /\ Consume
           /\ xs' = Append(xs, next)
           /\ UNCHANGED <<pc, treeVars, state, error>>
  <2>1. /\ rp < Len(text) /\ is_symbol_char(text[rp + 1]) /\ text' = text /\ rp' = rp + 1
        /\ xs' = Append(xs, text[rp + 1]) /\ pc' = "sym" /\ UNCHANGED <<frames, top_level_exprs>>
    BY <1>1, <1>4 DEF SeesOneOf, next, Consume, ReadSym, treeVars
  <2>2. SubSeq(text, p + 1, rp + 1) = Append(xs, text[rp + 1])
    BY <1>1, <1>3, <2>1, OneMore
  <2>3. \A q \in (p + 1)..(rp + 1) : q = rp + 1 \/ q \in (p + 1)..rp
    BY <1>1, <1>3
  <2>4. OfSymbol(text, p, rp + 1, Append(xs, text[rp + 1]))
    BY <1>1, <1>3, <2>1, <2>2, <2>3 DEF OfSymbol
  <2>5. In(text, frames, top_level_exprs, p, rp + 1)
    BY <1>1, <1>2, Further
  <2>6. Symboling'
    BY <2>1, <2>4, <2>5 DEF Symboling
  <2>7. QED
    BY <2>1, <2>6 DEF GrammarInv, ParsesTheGrammar
<1>5. CASE /\ SeesNothing \/ SeesOneOf({c \in Characters : ~is_symbol_char(c)})
           /\ UNCHANGED readerVars
           /\ IF xs # <<>>
                THEN Built(Token(xs, "STRING"), frames)
                ELSE Fail("unexpected char")
  <2>1. rp < Len(text) => ~is_symbol_char(text[rp + 1])
    <3>1. SeesOneOf({c \in Characters : ~is_symbol_char(c)}) => ~is_symbol_char(text[rp + 1])
      BY DEF SeesOneOf, next
    <3>2. rp < Len(text) => ~SeesNothing
      BY <1>1
    <3>3. SeesNothing \/ SeesOneOf({c \in Characters : ~is_symbol_char(c)})
      BY <1>5
    <3>4. QED
      BY <3>1, <3>2, <3>3
  <2>2. text' = text /\ rp' = rp /\ ends' = ends
    BY <1>5 DEF readerVars
  <2>3. \A k \in (p + 1)..Len(text) :
          Items(text, Forest(text), p, k) = IF k = rp THEN {Token(xs, "STRING")} ELSE {}
    <3>1. TAKE k \in (p + 1)..Len(text)
    <3>2. Items(text, Forest(text), p, k) = Symbols(text, p, k)
      BY <1>1, <1>3, OnlySymbols DEF Opens
    <3>3. rp \in p..Len(text) /\ text[p + 1] \notin Digits \cup Signs \cup {OPEN_FNAPP_CHAR}
      BY <1>1, <1>3 DEF Opens
    <3>4. Symbols(text, p, k) = IF k = rp THEN {Token(SubSeq(text, p + 1, rp), "STRING")} ELSE {}
      BY <1>1, <1>3, <2>1, <3>3, SymbolsAre
    <3>5. QED
      BY <1>3, <3>2, <3>4
  <2>4. CASE xs # <<>>
    <3>1. rp # p
      BY <1>3, <2>4, NothingYet
    <3>2. rp \in (p + 1)..Len(text)
      BY <1>1, <1>3, <3>1
    <3>3. Standing(text, frames, top_level_exprs, After(<<Token(xs, "STRING")>>, Rest(text, Inner(frames), rp)))
      BY <1>1, <1>2, <2>3, <3>2, TokenRead
    <3>4. QED
      BY <1>1, <1>5, <2>2, <2>4, <3>3, Builds
  <2>5. CASE xs = <<>>
    <3>1. rp = p
      <4>1. SUFFICES ASSUME p < rp PROVE FALSE
        BY <1>1, <1>3
      <4>2. \A q \in (p + 1)..rp : text[q] \in Characters
        <5>1. \A q \in (p + 1)..rp : q \in 1..Len(text)
          BY <1>1
        <5>2. QED
          BY <1>1, <5>1, TextHas
      <4>3. Len(SubSeq(text, p + 1, rp)) = IF p + 1 <= rp THEN rp - (p + 1) + 1 ELSE 0
        BY <1>1, <4>2, SubSeqProperties
      <4>4. Len(xs) = 0
        BY <2>5
      <4>5. QED
        BY <1>1, <1>3, <4>1, <4>3, <4>4
    <3>2. \A k \in (p + 1)..Len(text) : Items(text, Forest(text), p, k) = {}
      BY <1>1, <2>3, <3>1
    <3>3. Standing(text, frames, top_level_exprs, {})
      BY <1>1, <1>2, <3>2, TokenMissing
    <3>4. QED
      BY <1>5, <2>2, <2>5, <3>3, Fails
  <2>6. QED
    BY <2>4, <2>5
<1>6. QED
  BY <1>4, <1>5 DEF ReadSym

\* One more character of a string that is not a quote.
LEMMA StringOn ==
  ASSUME NEW s, IsText(s), NEW p \in Nat, NEW l, NEW ys, NEW esc \in BOOLEAN, OfString(s, p, l, ys, esc),
         l < Len(s), s[l + 1] # STRING_QUOTE_CHAR, esc => s[l + 1] \in Escapes
  PROVE  /\ s[l + 1] = STRING_ESCAPE_CHAR /\ ~esc => OfString(s, p, l + 1, ys, TRUE)
         /\ ~(s[l + 1] = STRING_ESCAPE_CHAR /\ ~esc) =>
              OfString(s, p, l + 1, Append(ys, IF esc THEN Unescaped(s[l + 1]) ELSE s[l + 1]), FALSE)
<1>1. Len(s) \in Nat /\ l \in Nat /\ p + 1 <= l /\ l <= Len(s) /\ IsList(ys)
  BY TextHas DEF OfString, InString
<1>2. InString(s, p, l + 1)
  <2>1. l + 1 \in (p + 1)..Len(s) /\ (l + 1) - 1 = l
    BY <1>1
  <2>2. \A q \in (p + 2)..(l + 1) : q = l + 1 \/ q \in (p + 2)..l
    BY <1>1
  <2>3. \A q \in (p + 2)..l : q = l \/ q \in (p + 2)..(l - 1)
    BY <1>1
  <2>4. ReadTo(s, p, l).escapes = esc
    BY DEF OfString
  <2>5. QED
    BY <2>1, <2>2, <2>3, <2>4 DEF InString, OfString
<1> DEFINE c == IF esc THEN Unescaped(s[l + 1]) ELSE s[l + 1]
           escapes == s[l + 1] = STRING_ESCAPE_CHAR /\ ~esc
<1>3. ReadTo(s, p, l + 1) = [escapes |-> escapes, value |-> Join(ys, IF escapes THEN <<>> ELSE <<c>>)]
  <2>1. ReadTo(s, p, l).escapes = esc /\ ReadTo(s, p, l).value = ys
    BY DEF OfString
  <2>2. LET before == ReadTo(s, p, l)
            escapes_ == s[l + 1] = STRING_ESCAPE_CHAR /\ ~before.escapes
            c_ == IF before.escapes THEN Unescaped(s[l + 1]) ELSE s[l + 1]
        IN  ReadTo(s, p, l + 1) =
              [escapes |-> escapes_, value |-> before.value \o (IF escapes_ THEN <<>> ELSE <<c_>>)]
    <3>1. p < l
      BY <1>1
    <3>2. QED
      BY <1>1, <3>1, ReadToNext
  <2>3. QED
    BY <2>1, <2>2 DEF Join
<1>4. Join(ys, <<>>) = ys /\ Join(ys, <<c>>) = Append(ys, c) /\ IsList(Join(ys, <<c>>))
  <2> HIDE DEF c
  <2>1. QED
    BY <1>1, WithNothing, AppendJoins, Together, OneIsList
<1>5. CASE escapes
  BY <1>1, <1>2, <1>3, <1>4, <1>5 DEF OfString
<1>6. CASE ~escapes
  <2>1. ReadTo(s, p, l + 1) = [escapes |-> FALSE, value |-> Append(ys, c)]
    <3>1. (IF escapes THEN <<>> ELSE <<c>>) = <<c>> /\ escapes = FALSE
      BY <1>6
    <3> HIDE DEF escapes, c
    <3>2. QED
      BY <1>3, <1>4, <3>1
  <2>2. OfString(s, p, l + 1, Append(ys, c), FALSE)
    <3> HIDE DEF c
    <3>1. QED
      BY <1>2, <1>4, <2>1 DEF OfString
  <2>3. QED
    BY <1>6, <2>2
<1>7. QED
  BY <1>5, <1>6

\* A quote ends it,
LEMMA StringRead ==
  ASSUME NEW s, IsText(s), NEW p \in Nat, NEW l, NEW ys, NEW esc, OfString(s, p, l, ys, esc),
         l < Len(s), s[l + 1] = STRING_QUOTE_CHAR, NEW fs, NEW top, In(s, fs, top, p, l)
  PROVE  Standing(s, fs, top, After(<<Token(ys, "QUOTED_STRING")>>, Rest(s, Inner(fs), l + 1)))
<1>1. Len(s) \in Nat /\ l \in Nat /\ p + 1 <= l /\ s[p + 1] = STRING_QUOTE_CHAR
  BY TextHas DEF OfString, InString
<1>2. \A k \in (p + 1)..Len(s) :
        Items(s, Forest(s), p, k) = IF k = l + 1 THEN {Token(ys, "QUOTED_STRING")} ELSE {}
  <2>1. TAKE k \in (p + 1)..Len(s)
  <2>2. Items(s, Forest(s), p, k) = Strings(s, p, k)
    BY <1>1, OnlyStrings
  <2>3. InString(s, p, l) /\ ReadTo(s, p, l).value = ys
    BY DEF OfString
  <2>4. Strings(s, p, k) = IF k = l + 1 THEN {Token(ReadTo(s, p, l).value, "QUOTED_STRING")} ELSE {}
    BY <2>3, StringsAre
  <2>5. QED
    BY <2>2, <2>3, <2>4
<1>3. l + 1 \in (p + 1)..Len(s) /\ In(s, fs, top, p, l + 1)
  BY <1>1, Further
<1>4. QED
  BY <1>2, <1>3, TokenRead

\* the end of the text does not, nor does an escape that stands for nothing.
LEMMA StringMissing ==
  ASSUME NEW s, IsText(s), NEW p \in Nat, NEW l, NEW ys, NEW esc, OfString(s, p, l, ys, esc),
         l < Len(s) => esc = TRUE /\ s[l + 1] \notin Escapes, NEW fs, NEW top, In(s, fs, top, p, l)
  PROVE  Standing(s, fs, top, {})
<1>1. s[p + 1] = STRING_QUOTE_CHAR /\ InString(s, p, l) /\ ReadTo(s, p, l).escapes = esc
  BY DEF OfString, InString
<1>2. l = p + 1 => esc = FALSE
  <2>1. ReadTo(s, p, p + 1).escapes = FALSE
    BY ReadToIs
  <2>2. QED
    BY <1>1, <2>1
<1>3. \A k \in (p + 1)..Len(s) : Items(s, Forest(s), p, k) = {}
  <2>1. TAKE k \in (p + 1)..Len(s)
  <2>2. Items(s, Forest(s), p, k) = Strings(s, p, k)
    BY <1>1, OnlyStrings
  <2>3. Strings(s, p, k) = {}
    BY <1>1, <1>2, NoString
  <2>4. QED
    BY <2>2, <2>3
<1>4. QED
  BY <1>3, TokenMissing

\* read_str gets a character that stands for itself or was escaped.
LEMMA StrCharGrammar ==
  ASSUME IInv, ahead > 0, Consume, NEW esc \in BOOLEAN, Quoting(esc), NEW c, StrChar(c),
         c = IF esc THEN Unescaped(next) ELSE next,
         IF esc THEN next \in Escapes ELSE next # STRING_ESCAPE_CHAR
  PROVE  GrammarInv'
<1>1. /\ IsText(text) /\ Len(text) \in Nat /\ rp \in Nat /\ rp < Len(text) /\ rp + 1 \in 0..Len(text)
      /\ text' = text /\ rp' = rp + 1 /\ next = text[rp + 1]
  BY Around DEF IInv, Consume, next
<1>2. PICK p \in Nat : In(text, frames, top_level_exprs, p, rp) /\ OfString(text, p, rp, xs, esc)
  BY DEF Quoting
<1>3. c = STRING_QUOTE_CHAR <=> next = STRING_QUOTE_CHAR
  BY DEF Unescaped, STRING_QUOTE_CHAR, Newline
<1>4. CASE c = STRING_QUOTE_CHAR
  <2>1. Built(Token(xs, "QUOTED_STRING"), frames)
    BY <1>4 DEF StrChar
  <2>2. Standing(text, frames, top_level_exprs, After(<<Token(xs, "QUOTED_STRING")>>, Rest(text, Inner(frames), rp + 1)))
    BY <1>1, <1>2, <1>3, <1>4, StringRead
  <2>3. QED
    BY <1>1, <2>1, <2>2, Builds
<1>5. CASE c # STRING_QUOTE_CHAR
  <2>1. xs' = Append(xs, c) /\ pc' = "str" /\ UNCHANGED <<frames, top_level_exprs>>
    BY <1>5 DEF StrChar, treeVars
  <2>2. OfString(text, p, rp + 1, Append(xs, c), FALSE)
    BY <1>1, <1>2, <1>3, <1>5, StringOn
  <2>3. In(text, frames, top_level_exprs, p, rp + 1)
    BY <1>1, <1>2, Further
  <2>4. Quoting(FALSE)'
    BY <1>1, <2>1, <2>2, <2>3 DEF Quoting
  <2>5. QED
    BY <2>1, <2>4 DEF GrammarInv, ParsesTheGrammar
<1>6. QED
  BY <1>4, <1>5

LEMMA StrGrammar ==
  ASSUME IInv, GrammarInv, ReadStr \/ ReadEscape
  PROVE  GrammarInv'
<1>1. /\ IsText(text) /\ Len(text) \in Nat /\ rp \in 0..Len(text)
      /\ ahead > 0 => rp \in Nat /\ rp < Len(text)
      /\ SeesNothing => rp = Len(text)
  BY Around DEF IInv
<1>2. (pc = "str" => Quoting(FALSE)) /\ (pc = "escape" => Quoting(TRUE))
  BY DEF GrammarInv
<1>3. pc \in {"str", "escape"}
  BY DEF ReadStr, ReadEscape
<1>4. PICK esc \in BOOLEAN : Quoting(esc)
  BY <1>2, <1>3
<1>5. PICK p \in Nat : In(text, frames, top_level_exprs, p, rp) /\ OfString(text, p, rp, xs, esc)
  BY <1>4 DEF Quoting
<1>6. ASSUME SeesNothing, UNCHANGED readerVars, NEW why, Fail(why) PROVE GrammarInv'
  <2>1. ~(rp < Len(text))
    BY <1>1, <1>6
  <2>2. Standing(text, frames, top_level_exprs, {})
    BY <1>1, <1>5, <2>1, StringMissing
  <2>3. QED
    BY <1>6, <2>2, Fails DEF readerVars
<1>7. CASE ReadStr /\ Sees(STRING_ESCAPE_CHAR) /\ Consume /\ pc' = "escape" /\ UNCHANGED <<treeVars, tokenVars>>
  <2>1. Quoting(FALSE)
    BY <1>2, <1>7 DEF ReadStr
  <2>2. PICK q \in Nat : In(text, frames, top_level_exprs, q, rp) /\ OfString(text, q, rp, xs, FALSE)
    BY <2>1 DEF Quoting
  <2>3. /\ text[rp + 1] = STRING_ESCAPE_CHAR /\ rp < Len(text) /\ text' = text /\ rp' = rp + 1
        /\ UNCHANGED <<frames, top_level_exprs, xs>>
    BY <1>1, <1>7 DEF Sees, next, Consume, treeVars, tokenVars
  <2>4. STRING_ESCAPE_CHAR # STRING_QUOTE_CHAR
    BY DEF STRING_ESCAPE_CHAR, STRING_QUOTE_CHAR
  <2>5. OfString(text, q, rp + 1, xs, TRUE)
    BY <1>1, <2>2, <2>3, <2>4, StringOn
  <2>6. In(text, frames, top_level_exprs, q, rp + 1)
    BY <1>1, <2>2, Further
  <2>7. Quoting(TRUE)'
    BY <2>3, <2>5, <2>6 DEF Quoting
  <2>8. QED
    BY <1>7, <2>7 DEF GrammarInv, ParsesTheGrammar
<1>8. CASE ReadStr /\ SeesOneOf(Characters \ {STRING_ESCAPE_CHAR}) /\ Consume /\ StrChar(next)
  <2>1. Quoting(FALSE)
    BY <1>2, <1>8 DEF ReadStr
  <2>2. ahead > 0 /\ next # STRING_ESCAPE_CHAR
    BY <1>8 DEF SeesOneOf
  <2>3. QED
    BY <1>8, <2>1, <2>2, StrCharGrammar
<1>9. CASE ReadEscape /\ SeesOneOf(Escapes) /\ Consume /\ StrChar(Unescaped(next))
  <2>1. Quoting(TRUE)
    BY <1>2, <1>9 DEF ReadEscape
  <2>2. ahead > 0 /\ next \in Escapes
    BY <1>9 DEF SeesOneOf
  <2>3. QED
    BY <1>9, <2>1, <2>2, StrCharGrammar
<1>10. CASE ReadEscape /\ SeesOneOf(Characters \ Escapes) /\ Consume /\ Fail("invalid escape")
  <2>1. Quoting(TRUE)
    BY <1>2, <1>10 DEF ReadEscape
  <2>2. PICK q \in Nat : In(text, frames, top_level_exprs, q, rp) /\ OfString(text, q, rp, xs, TRUE)
    BY <2>1 DEF Quoting
  <2>3. text[rp + 1] \notin Escapes /\ text' = text /\ ends' = ends
    BY <1>10 DEF SeesOneOf, next, Consume
  <2>4. Standing(text, frames, top_level_exprs, {})
    BY <1>1, <2>2, <2>3, StringMissing
  <2>5. QED
    BY <1>10, <2>3, <2>4, Fails
<1>11. CASE ReadStr
  BY <1>6, <1>7, <1>8, <1>11 DEF ReadStr
<1>12. CASE ReadEscape
  BY <1>6, <1>9, <1>10, <1>12 DEF ReadEscape
<1>13. QED
  BY <1>11, <1>12

\* Where the digits of a number and its text start.
LEMMA NumberStarts ==
  ASSUME NEW s, IsText(s), NEW p \in Nat, p < Len(s)
  PROVE  /\ IntegerAt(s, p) \in Nat /\ NumberAt(s, p) \in Nat
         /\ p <= IntegerAt(s, p) /\ IntegerAt(s, p) <= Len(s) /\ IntegerAt(s, p) <= p + 1
         /\ 1 <= NumberAt(s, p) /\ NumberAt(s, p) <= IntegerAt(s, p) + 1
         /\ s[p + 1] \in Signs => IntegerAt(s, p) = p + 1
         /\ s[p + 1] \notin Signs => IntegerAt(s, p) = p
         /\ NumberAt(s, p) = IF s[p + 1] = "+" THEN p + 2 ELSE p + 1
<1>1. Len(s) \in Nat
  BY TextHas
<1>2. "+" \in Signs
  BY DEF Signs
<1>3. CASE s[p + 1] \in Signs
  BY <1>1, <1>3 DEF IntegerAt, NumberAt
<1>4. CASE s[p + 1] \notin Signs
  BY <1>1, <1>2, <1>4 DEF IntegerAt, NumberAt
<1>5. QED
  BY <1>3, <1>4

LEMMA NumberItems ==
  ASSUME NEW s, IsText(s), NEW p \in Nat, p < Len(s), s[p + 1] \in Digits \cup Signs,
         NEW k \in (p + 1)..Len(s)
  PROVE  Items(s, Forest(s), p, k) =
           IF WholeTo(s, IntegerAt(s, p), k) \/ DecimalTo(s, IntegerAt(s, p), k)
             THEN {Token(SubSeq(s, NumberAt(s, p), k), "NUMBER")} ELSE {}
<1>1. Len(s) \in Nat /\ k \in Nat /\ p < k
  BY TextHas
<1>2. Items(s, Forest(s), p, k) = Numbers(s, p, k)
  BY OnlyNumbers
<1>3. QED
  BY <1>1, <1>2, NumbersHas

\* The only number that starts at p ends at l,
LEMMA NumberRead ==
  ASSUME NEW s, IsText(s), NEW fs, NEW top, NEW p, NEW l \in Nat, l <= Len(s), In(s, fs, top, p, l),
         s[p + 1] \in Digits \cup Signs, p < l,
         \A j \in Nat : j <= Len(s) =>
           (WholeTo(s, IntegerAt(s, p), j) \/ DecimalTo(s, IntegerAt(s, p), j) <=> j = l)
  PROVE  Standing(s, fs, top, After(<<Token(SubSeq(s, NumberAt(s, p), l), "NUMBER")>>, Rest(s, Inner(fs), l)))
<1>1. Len(s) \in Nat /\ p \in Nat /\ p < Len(s)
  BY TextHas DEF In, Starts
<1>2. \A k \in (p + 1)..Len(s) :
        Items(s, Forest(s), p, k) = IF k = l THEN {Token(SubSeq(s, NumberAt(s, p), l), "NUMBER")} ELSE {}
  <2>1. TAKE k \in (p + 1)..Len(s)
  <2>2. k \in Nat /\ k <= Len(s)
    BY <1>1
  <2>3. WholeTo(s, IntegerAt(s, p), k) \/ DecimalTo(s, IntegerAt(s, p), k) <=> k = l
    BY <2>2
  <2>4. Items(s, Forest(s), p, k) = IF WholeTo(s, IntegerAt(s, p), k) \/ DecimalTo(s, IntegerAt(s, p), k)
             THEN {Token(SubSeq(s, NumberAt(s, p), k), "NUMBER")} ELSE {}
    BY <1>1, NumberItems
  <2>5. QED
    BY <2>3, <2>4
<1>3. l \in (p + 1)..Len(s)
  BY <1>1
<1>4. QED
  BY <1>2, <1>3, TokenRead

\* or there is none.
LEMMA NumberMissing ==
  ASSUME NEW s, IsText(s), NEW fs, NEW top, NEW p, NEW l, In(s, fs, top, p, l),
         s[p + 1] \in Digits \cup Signs,
         \A j \in Nat : j <= Len(s) => ~WholeTo(s, IntegerAt(s, p), j) /\ ~DecimalTo(s, IntegerAt(s, p), j)
  PROVE  Standing(s, fs, top, {})
<1>1. Len(s) \in Nat /\ p \in Nat /\ p < Len(s)
  BY TextHas DEF In, Starts
<1>2. \A k \in (p + 1)..Len(s) : Items(s, Forest(s), p, k) = {}
  <2>1. TAKE k \in (p + 1)..Len(s)
  <2>2. k \in Nat /\ k <= Len(s)
    BY <1>1
  <2>3. QED
    BY <1>1, <2>2, NumberItems
<1>3. QED
  BY <1>2, TokenMissing

\* The steps of read_num: a character is taken,
LEMMA TakeGrammar ==
  ASSUME IInv, ahead > 0, pc = "num", NEW p \in Nat, In(text, frames, top_level_exprs, p, rp),
         NEW s, Take(s), OfNumber(text, p, rp + 1, IF next = "+" THEN xs ELSE Append(xs, next), s)
  PROVE  GrammarInv'
<1>1. rp \in Nat
  BY Around DEF IInv
<1>2. /\ text' = text /\ rp' = rp + 1 /\ state' = s /\ UNCHANGED <<pc, frames, top_level_exprs>>
      /\ xs' = IF next = "+" THEN xs ELSE Append(xs, next)
  BY DEF Take, Consume, treeVars
<1>3. In(text, frames, top_level_exprs, p, rp + 1)
  BY <1>1, Further
<1>4. Numbering'
  BY <1>2, <1>3 DEF Numbering
<1>5. QED
  BY <1>2, <1>4 DEF GrammarInv, ParsesTheGrammar

\* the number is complete,
LEMMA DoneGrammar ==
  ASSUME IInv, NEW p \in Nat, In(text, frames, top_level_exprs, p, rp), NumDone, p < rp,
         text[p + 1] \in Digits \cup Signs, xs = SubSeq(text, NumberAt(text, p), rp),
         \A j \in Nat : j <= Len(text) =>
           (WholeTo(text, IntegerAt(text, p), j) \/ DecimalTo(text, IntegerAt(text, p), j) <=> j = rp)
  PROVE  GrammarInv'
<1>1. IsText(text) /\ rp \in 0..Len(text) /\ rp \in Nat /\ rp <= Len(text)
  BY Around DEF IInv
<1>2. text' = text /\ rp' = rp /\ Built(Token(xs, "NUMBER"), frames)
  BY DEF NumDone, readerVars
<1>3. Standing(text, frames, top_level_exprs, After(<<Token(xs, "NUMBER")>>, Rest(text, Inner(frames), rp)))
  BY <1>1, NumberRead
<1>4. QED
  BY <1>1, <1>2, <1>3, Builds

\* or there is none.
LEMMA NumFailsGrammar ==
  ASSUME IInv, NEW p \in Nat, In(text, frames, top_level_exprs, p, rp), NumFails,
         text[p + 1] \in Digits \cup Signs,
         \A j \in Nat : j <= Len(text) => ~WholeTo(text, IntegerAt(text, p), j) /\ ~DecimalTo(text, IntegerAt(text, p), j)
  PROVE  GrammarInv'
<1>1. IsText(text)
  BY Around DEF IInv
<1>2. Standing(text, frames, top_level_exprs, {})
  BY <1>1, NumberMissing
<1>3. text' = text /\ ends' = ends
  BY DEF NumFails, readerVars
<1>4. PICK why : Fail(why)
  BY DEF NumFails
<1>5. QED
  BY <1>2, <1>3, <1>4, Fails

LEMMA NumGrammar ==
  ASSUME IInv, GrammarInv, ReadNum
  PROVE  GrammarInv'
<1>1. /\ IsText(text) /\ Len(text) \in Nat /\ rp \in Nat /\ rp <= Len(text)
      /\ ahead > 0 => rp < Len(text) /\ next = text[rp + 1] /\ next \in Characters
      /\ SeesNothing => rp = Len(text)
  BY Around DEF IInv, next
<1>2. pc = "num"
  BY DEF ReadNum
<1>3. PICK p \in Nat : In(text, frames, top_level_exprs, p, rp) /\ OfNumber(text, p, rp, xs, state)
  BY <1>2 DEF GrammarInv, Numbering
<1> DEFINE z == IntegerAt(text, p)
           a == NumberAt(text, p)
<1>4. /\ p < Len(text) /\ z \in Nat /\ a \in Nat /\ p <= z /\ z <= Len(text) /\ 1 <= a /\ a <= z + 1
      /\ z <= p + 1
      /\ text[p + 1] \in Signs => z = p + 1
      /\ text[p + 1] \notin Signs => z = p
      /\ a = IF text[p + 1] = "+" THEN p + 2 ELSE p + 1
  <2>1. p < Len(text)
    BY <1>3 DEF In, Starts
  <2>2. QED
    BY <1>1, <2>1, NumberStarts
<1>5. text[p + 1] \in Digits \cup Signs /\ xs = SubSeq(text, a, rp)
  BY <1>3 DEF OfNumber
<1>6. \A S : ahead > 0 /\ next \in S => rp < Len(text) /\ text[rp + 1] \in S
  BY <1>1
<1>7. \A S : SeesNoneOf(S) /\ rp < Len(text) => text[rp + 1] \notin S
  BY <1>1 DEF SeesNoneOf, SeesOneOf
<1>8. ASSUME ahead > 0, next # "+", a <= rp + 1
      PROVE  (IF next = "+" THEN xs ELSE Append(xs, next)) = SubSeq(text, a, rp + 1)
  <2>1. rp < Len(text) /\ next = text[rp + 1]
    BY <1>1, <1>8
  <2>2. SubSeq(text, a, rp + 1) = Append(SubSeq(text, a, rp), text[rp + 1])
    BY <1>1, <1>4, <1>8, <2>1, OneMore
  <2>3. QED
    BY <1>5, <1>8, <2>1, <2>2
<1>9. "+" \notin Digits /\ "." # "+" /\ "0" \in Digits /\ "." \notin Digits
  BY DEF Digits
<1> HIDE DEF z, a
<1>10. CASE NeedSign
  <2>1. state = "NEED_SIGN_OR_GO_ON"
    BY <1>10 DEF NeedSign
  <2>2. rp = p
    BY <1>3, <2>1 DEF OfNumber
  <2>3. CASE SeesOneOf(Signs) /\ Take("NEED_SINGLE_ZERO_OR_NONZERO_INTEGER")
    <3>1. ahead > 0 /\ next \in Signs /\ text[p + 1] \in Signs /\ next = text[p + 1]
      BY <1>1, <2>2, <2>3 DEF SeesOneOf
    <3>2. (IF next = "+" THEN xs ELSE Append(xs, next)) = SubSeq(text, a, rp + 1)
      <4>1. CASE next = "+"
        <5>1. a = p + 2
          BY <1>4, <3>1, <4>1
        <5>2. SubSeq(text, p + 2, p) = <<>> /\ SubSeq(text, (p + 1) + 1, p + 1) = <<>> /\ (p + 1) + 1 = p + 2
          BY NothingYet
        <5>3. QED
          BY <1>5, <2>2, <4>1, <5>1, <5>2
      <4>2. CASE next # "+"
        <5>1. a = p + 1
          BY <1>4, <3>1, <4>2
        <5>2. QED
          BY <1>1, <1>8, <2>2, <3>1, <4>2, <5>1
      <4>3. QED
        BY <4>1, <4>2
    <3>3. OfNumber(text, p, rp + 1, IF next = "+" THEN xs ELSE Append(xs, next), "NEED_SINGLE_ZERO_OR_NONZERO_INTEGER")
      BY <1>4, <1>5, <2>2, <3>1, <3>2 DEF OfNumber, z, a
    <3>4. QED
      BY <1>2, <1>3, <2>3, <3>1, <3>3, TakeGrammar
  <2>4. CASE /\ SeesOneOf(Characters \ Signs)
             /\ state' = "NEED_SINGLE_ZERO_OR_NONZERO_INTEGER"
             /\ UNCHANGED <<readerVars, pc, treeVars, xs, error>>
    <3>1. text[p + 1] \notin Signs
      BY <1>1, <2>2, <2>4 DEF SeesOneOf
    <3>2. OfNumber(text, p, rp, xs, "NEED_SINGLE_ZERO_OR_NONZERO_INTEGER")
      BY <1>4, <1>5, <2>2, <3>1 DEF OfNumber, z, a
    <3>3. UNCHANGED <<text, rp, frames, top_level_exprs, xs>> /\ pc' = "num"
      BY <1>2, <2>4 DEF readerVars, treeVars
    <3>4. Numbering'
      BY <1>3, <2>4, <3>2, <3>3 DEF Numbering
    <3>5. QED
      BY <3>3, <3>4 DEF GrammarInv, ParsesTheGrammar
  <2>5. QED
    BY <1>10, <2>3, <2>4 DEF NeedSign
<1>11. CASE NeedInteger
  <2>1. state = "NEED_SINGLE_ZERO_OR_NONZERO_INTEGER"
    BY <1>11 DEF NeedInteger
  <2>2. rp = z
    BY <1>3, <2>1 DEF OfNumber, z
  <2>3. ASSUME ahead > 0, next \in Digits, NEW s, Take(s),
               s = IF next = "0" THEN "MAYBE_DECIMAL_DOT" ELSE "FINISHING_NONZERO_INTEGER"
        PROVE  GrammarInv'
    <3>1. text[z + 1] \in Digits /\ next = text[z + 1] /\ next # "+" /\ a <= rp + 1
      BY <1>1, <1>4, <1>9, <2>2, <2>3
    <3>2. (IF next = "+" THEN xs ELSE Append(xs, next)) = SubSeq(text, a, rp + 1)
      BY <1>8, <2>3, <3>1
    <3>3. IntegerTo(text, z, z + 1)
      <4>1. z < z + 1 /\ \A q \in (z + 1)..(z + 1) : q = z + 1
        BY <1>4
      <4>2. QED
        BY <3>1, <4>1 DEF IntegerTo, AllIn
    <3>4. OfNumber(text, p, rp + 1, IF next = "+" THEN xs ELSE Append(xs, next), s)
      BY <1>5, <2>2, <2>3, <3>1, <3>2, <3>3 DEF OfNumber, z, a
    <3>5. QED
      BY <1>2, <1>3, <2>3, <3>4, TakeGrammar
  <2>4. CASE Sees("0") /\ Take("MAYBE_DECIMAL_DOT")
    BY <1>9, <2>3, <2>4 DEF Sees
  <2>5. CASE SeesOneOf(Digits \ {"0"}) /\ Take("FINISHING_NONZERO_INTEGER")
    BY <2>3, <2>5 DEF SeesOneOf
  <2>6. CASE SeesNoneOf(Digits) /\ NumFails
    <3>1. z < Len(text) => text[z + 1] \notin Digits
      BY <1>7, <2>2, <2>6
    <3>2. \A j \in Nat : j <= Len(text) => ~WholeTo(text, z, j) /\ ~DecimalTo(text, z, j)
      BY <1>1, <1>4, <3>1, NoInteger
    <3>3. QED
      BY <1>3, <1>5, <2>6, <3>2, NumFailsGrammar DEF z
  <2>7. QED
    BY <1>11, <2>4, <2>5, <2>6 DEF NeedInteger
<1>12. CASE FinishInteger
  <2>1. state = "FINISHING_NONZERO_INTEGER"
    BY <1>12 DEF FinishInteger
  <2>2. IntegerTo(text, z, rp) /\ text[z + 1] # "0" /\ z < rp
    BY <1>3, <2>1 DEF OfNumber, z, IntegerTo
  <2>3. a <= rp + 1
    BY <1>1, <1>4, <2>2
  <2>4. CASE SeesOneOf(Digits) /\ Take(state)
    <3>1. ahead > 0 /\ next = text[rp + 1] /\ text[rp + 1] \in Digits /\ next # "+"
      BY <1>1, <1>9, <2>4 DEF SeesOneOf
    <3>2. (IF next = "+" THEN xs ELSE Append(xs, next)) = SubSeq(text, a, rp + 1)
      BY <1>8, <2>3, <3>1
    <3>3. IntegerTo(text, z, rp + 1)
      <4>1. z < rp + 1 /\ \A q \in (z + 1)..(rp + 1) : q = rp + 1 \/ q \in (z + 1)..rp
        BY <1>1, <1>4, <2>2
      <4>2. QED
        BY <2>2, <3>1, <4>1 DEF IntegerTo, AllIn
    <3>4. OfNumber(text, p, rp + 1, IF next = "+" THEN xs ELSE Append(xs, next), state)
      BY <1>5, <2>1, <2>2, <3>2, <3>3 DEF OfNumber, z, a
    <3>5. QED
      BY <1>2, <1>3, <2>4, <3>1, <3>4, TakeGrammar
  <2>5. CASE Sees(".") /\ Take("AFTER_DECIMAL_DOT")
    <3>1. ahead > 0 /\ next = text[rp + 1] /\ text[rp + 1] = "." /\ next # "+"
      BY <1>1, <1>9, <2>5 DEF Sees
    <3>2. OfNumber(text, p, rp + 1, IF next = "+" THEN xs ELSE Append(xs, next), "AFTER_DECIMAL_DOT")
      <4>1. (IF next = "+" THEN xs ELSE Append(xs, next)) = SubSeq(text, a, rp + 1)
        BY <1>8, <2>3, <3>1
      <4>2. rp + 1 <= rp + 1 /\ (rp + 1 + 1)..(rp + 1) = {}
        BY <1>1
      <4>3. AllIn(text, rp + 1, rp + 1, Digits)
        BY <4>2 DEF AllIn
      <4>4. QED
        BY <1>1, <1>5, <2>2, <3>1, <4>1, <4>2, <4>3 DEF OfNumber, z, a
    <3>3. QED
      BY <1>2, <1>3, <2>5, <3>1, <3>2, TakeGrammar
  <2>6. CASE SeesNoneOf(Digits \cup {"."}) /\ NumDone
    <3>1. rp < Len(text) => text[rp + 1] # "." /\ text[rp + 1] \notin Digits
      BY <1>7, <2>6
    <3>2. \A j \in Nat : j <= Len(text) => (WholeTo(text, z, j) \/ DecimalTo(text, z, j) <=> j = rp)
      BY <1>1, <1>4, <2>2, <3>1, WholeIs
    <3>3. p < rp
      BY <1>1, <1>4, <2>2
    <3>4. QED
      BY <1>3, <1>5, <2>6, <3>2, <3>3, DoneGrammar DEF z, a
  <2>7. QED
    BY <1>12, <2>4, <2>5, <2>6 DEF FinishInteger
<1>13. CASE MaybeDot
  <2>1. state = "MAYBE_DECIMAL_DOT"
    BY <1>13 DEF MaybeDot
  <2>2. IntegerTo(text, z, rp) /\ text[z + 1] = "0" /\ z < rp
    BY <1>3, <2>1 DEF OfNumber, z, IntegerTo
  <2>3. a <= rp + 1
    BY <1>1, <1>4, <2>2
  <2>4. CASE Sees(".") /\ Take("AFTER_DECIMAL_DOT")
    <3>1. ahead > 0 /\ next = text[rp + 1] /\ text[rp + 1] = "." /\ next # "+"
      BY <1>1, <1>9, <2>4 DEF Sees
    <3>2. OfNumber(text, p, rp + 1, IF next = "+" THEN xs ELSE Append(xs, next), "AFTER_DECIMAL_DOT")
      <4>1. (IF next = "+" THEN xs ELSE Append(xs, next)) = SubSeq(text, a, rp + 1)
        BY <1>8, <2>3, <3>1
      <4>2. rp + 1 <= rp + 1 /\ (rp + 1 + 1)..(rp + 1) = {}
        BY <1>1
      <4>3. AllIn(text, rp + 1, rp + 1, Digits)
        BY <4>2 DEF AllIn
      <4>4. QED
        BY <1>1, <1>5, <2>2, <3>1, <4>1, <4>2, <4>3 DEF OfNumber, z, a
    <3>3. QED
      BY <1>2, <1>3, <2>4, <3>1, <3>2, TakeGrammar
  <2>5. CASE SeesNoneOf({"."}) /\ NumDone
    <3>1. rp < Len(text) => text[rp + 1] # "."
      BY <1>7, <2>5
    <3>2. \A j \in Nat : j <= Len(text) => (WholeTo(text, z, j) \/ DecimalTo(text, z, j) <=> j = rp)
      BY <1>1, <1>4, <2>2, <3>1, WholeIs
    <3>3. p < rp
      BY <1>1, <1>4, <2>2
    <3>4. QED
      BY <1>3, <1>5, <2>5, <3>2, <3>3, DoneGrammar DEF z, a
  <2>6. QED
    BY <1>13, <2>4, <2>5 DEF MaybeDot
<1>14. CASE AfterDot
  <2>1. state = "AFTER_DECIMAL_DOT"
    BY <1>14 DEF AfterDot
  <2>2. PICK m \in Nat : m + 1 <= rp /\ IntegerTo(text, z, m) /\ text[m + 1] = "." /\ AllIn(text, m + 1, rp, Digits)
    BY <1>3, <2>1 DEF OfNumber, z
  <2>3. z < m /\ a <= rp + 1 /\ p < rp /\ a <= rp
    <3>1. z < m
      BY <2>2 DEF IntegerTo
    <3>2. QED
      BY <1>1, <1>4, <2>2, <3>1
  <2>4. xs[Len(xs)] = "." <=> rp = m + 1
    <3>1. xs[Len(xs)] = text[rp]
      <4>1. \A d \in a..rp : text[d] \in Characters
        <5>1. \A d \in a..rp : d \in 1..Len(text)
          BY <1>1, <1>4
        <5>2. QED
          BY <1>1, <5>1, TextHas
      <4>2. /\ Len(xs) = IF a <= rp THEN rp - a + 1 ELSE 0
            /\ \A d \in 1..(rp - a + 1) : xs[d] = text[a + d - 1]
        BY <1>1, <1>4, <1>5, <4>1, SubSeqProperties
      <4>3. Len(xs) \in 1..(rp - a + 1) /\ a + Len(xs) - 1 = rp
        BY <1>1, <1>4, <2>3, <4>2
      <4>4. QED
        BY <4>2, <4>3
    <3>2. rp # m + 1 => rp \in (m + 1 + 1)..rp
      BY <1>1, <2>2
    <3>3. QED
      BY <1>9, <2>2, <3>1, <3>2 DEF AllIn
  <2>5. rp < Len(text) => text[rp + 1] \notin Digits \/ ~SeesNoneOf(Digits)
    BY <1>7
  <2>6. ASSUME rp < Len(text) => text[rp + 1] \notin Digits
        PROVE  \A j \in Nat : j <= Len(text) =>
                 (WholeTo(text, z, j) \/ DecimalTo(text, z, j) <=> j = rp /\ m + 2 <= rp)
    BY <1>1, <1>4, <2>2, <2>6, DecimalIs
  <2>7. CASE SeesOneOf(Digits) /\ Take(state)
    <3>1. ahead > 0 /\ next = text[rp + 1] /\ text[rp + 1] \in Digits /\ next # "+"
      BY <1>1, <1>9, <2>7 DEF SeesOneOf
    <3>2. (IF next = "+" THEN xs ELSE Append(xs, next)) = SubSeq(text, a, rp + 1)
      BY <1>8, <2>3, <3>1
    <3>3. m + 1 <= rp + 1 /\ AllIn(text, m + 1, rp + 1, Digits)
      <4>1. m + 1 <= rp + 1 /\ \A q \in (m + 1 + 1)..(rp + 1) : q = rp + 1 \/ q \in (m + 1 + 1)..rp
        BY <1>1, <2>2
      <4>2. QED
        BY <2>2, <3>1, <4>1 DEF AllIn
    <3>4. OfNumber(text, p, rp + 1, IF next = "+" THEN xs ELSE Append(xs, next), state)
      BY <1>5, <2>1, <2>2, <3>2, <3>3 DEF OfNumber, z, a
    <3>5. QED
      BY <1>2, <1>3, <2>7, <3>1, <3>4, TakeGrammar
  <2>8. CASE SeesNoneOf(Digits) /\ xs[Len(xs)] = "." /\ NumFails
    <3>1. rp < Len(text) => text[rp + 1] \notin Digits
      BY <2>5, <2>8
    <3>2. ~(m + 2 <= rp)
      BY <1>1, <2>4, <2>8
    <3>3. \A j \in Nat : j <= Len(text) => ~WholeTo(text, z, j) /\ ~DecimalTo(text, z, j)
      BY <2>6, <3>1, <3>2
    <3>4. QED
      BY <1>3, <1>5, <2>8, <3>3, NumFailsGrammar DEF z
  <2>9. CASE SeesNoneOf(Digits) /\ xs[Len(xs)] # "." /\ NumDone
    <3>1. rp < Len(text) => text[rp + 1] \notin Digits
      BY <2>5, <2>9
    <3>2. m + 2 <= rp
      BY <1>1, <2>2, <2>4, <2>9
    <3>3. \A j \in Nat : j <= Len(text) => (WholeTo(text, z, j) \/ DecimalTo(text, z, j) <=> j = rp)
      BY <2>6, <3>1, <3>2
    <3>4. QED
      BY <1>3, <1>5, <2>3, <2>9, <3>3, DoneGrammar DEF z, a
  <2>10. QED
    BY <1>14, <2>7, <2>8, <2>9 DEF AfterDot
<1>15. QED
  BY <1>10, <1>11, <1>12, <1>13, <1>14 DEF ReadNum

LEMMA NextGrammar ==
  ASSUME IInv, GrammarInv, [Next]_vars
  PROVE  GrammarInv'
<1>1. CASE UNCHANGED vars
  BY <1>1, SameGrammar DEF vars, readerVars, GrammarVars
<1>2. CASE Next
  BY <1>2, RefillGrammar, SkipGrammar, CommentGrammar, FinishGrammar, CloseGrammar, FollowGrammar,
     StartGrammar, SymGrammar, StrGrammar, NumGrammar DEF Next
<1>3. QED
  BY <1>1, <1>2

\* The parser returns the tree a text stands for, and a message exactly for the
\* texts that stand for nothing, however refills cut them (ast_builder.cpp:41-353).
THEOREM ParserCorrect == Spec => []ParsesTheGrammar
<1>1. Init => IInv /\ GrammarInv
  BY InitIInv, InitGrammar
<1>2. IInv /\ GrammarInv /\ [Next]_vars => (IInv /\ GrammarInv)'
  BY NextIInv, NextGrammar
<1>3. GrammarInv => ParsesTheGrammar
  BY DEF GrammarInv
<1>4. QED
  BY <1>1, <1>2, <1>3, PTL DEF Spec
=============================================================================
