--------------------------------- MODULE Numbers ---------------------------------
(***************************************************************************)
(* The numbers of src2 (number.cpp) as Number's only constructor makes     *)
(* them: an integer over the denominator 1, of the width of int64_t.       *)
(***************************************************************************)
EXTENDS Integers

CONSTANT MAX_INT
ASSUME MaxIntAssumption == MAX_INT \in Nat \ {0}

MIN_INT == -MAX_INT - 1
Number == MIN_INT..MAX_INT

\* ComparePositiveRationals of the negated operands, swapped.  Negating the
\* smallest integer overflows; what it gives is no positive number.
CompareNegatives(x, y) ==
  IF x = MIN_INT \/ y = MIN_INT THEN "undefined"
  ELSE IF -y < -x THEN "Less" ELSE IF x = y THEN "Equal" ELSE "Greater"

\* Mutant: equal numbers compare as less.
ComparePositivesInclusive(x, y) == IF x <= y THEN "Less" ELSE "Greater"

\* ComparePositiveRationals with the denominators 1.
ComparePositives(x, y) == IF x < y THEN "Less" ELSE IF x = y THEN "Equal" ELSE "Greater"

\* By the signs first.
Compare(x, y) ==
  IF x < 0 THEN IF y < 0 THEN CompareNegatives(x, y) ELSE "Less"
  ELSE IF x = 0 THEN IF y < 0 THEN "Greater" ELSE IF y = 0 THEN "Equal" ELSE "Less"
  ELSE IF y <= 0 THEN "Greater" ELSE ComparePositives(x, y)
=============================================================================
