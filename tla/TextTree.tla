------------------------------- MODULE TextTree -------------------------------
(***************************************************************************)
(* What indentation means, said of the lines alone, and the properties of  *)
(* TextAst that compare the parser with it.                                *)
(***************************************************************************)
EXTENDS TextAst, Literals, FiniteSetsExt

Line(k) == Tokenize(lines[k])
Indent(k) == Line(k).indentation
IsBlank(k) == Line(k).tokens = <<>>
Numbers(k) == 1..(k - 1)

\* Line j can still get children at line k.
IsOpen(j, k) ==
  /\ j < k
  /\ \A m \in j..(k - 1) : ~IsBlank(m)
  /\ \A m \in (j + 1)..(k - 1) : Len(Indent(m)) > Len(Indent(j))

Strictly(i, j) == i # j /\ IsPrefix(i, j)

\* A line is indented further than the previous one or like an open one.
WellIndented(k) ==
  \/ Indent(k) = <<>>
  \/ k > 1 /\ ~IsBlank(k - 1) /\ Strictly(Indent(k - 1), Indent(k))
  \/ \E j \in Numbers(k) : IsOpen(j, k) /\ Indent(j) = Indent(k)

Parent(k) ==
  LET above == {j \in Numbers(k) : IsOpen(j, k) /\ Strictly(Indent(j), Indent(k))}
  IN  IF above = {} THEN 0 ELSE Max(above)
Children(k) == {m \in DOMAIN lines : ~IsBlank(m) /\ Parent(m) = k}

\* The sequence s goes through the lines in S from top to bottom.
InOrder(s, S) ==
  /\ Range(s) = S
  /\ \A i, j \in DOMAIN s : i < j => s[i] < s[j]

DefinesVariable(k) == ~IsBlank(k) /\ Line(k).tokens[1][1] = "$"
VariableName(k) == Tail(Front(Line(k).tokens[1]))
WellFormed(k) ==
  LET ts == Line(k).tokens
  IN  /\ Last(ts[1]) = ":"
      /\ Len(ts) \in (IF DefinesVariable(k) THEN 2..3 ELSE 1..3)
      /\ DefinesVariable(k) =>
           /\ Indent(k) = <<>>
           /\ \A j \in Numbers(k) : DefinesVariable(j) => VariableName(j) # VariableName(k)
GoodLine(k) == Line(k).ok /\ (IsBlank(k) \/ (WellIndented(k) /\ WellFormed(k)))

\* What a first bad line does: it is reported, unless it falls between the
\* indentations of two open lines (an internal error) or of a top-level line
\* and its children (undefined behaviour).
IndentsAtLine(k) == {Indent(j) : j \in {j \in Numbers(k) : IsOpen(j, k) /\ Indent(j) # <<>>}}
Outcome ==
  LET bad == {k \in DOMAIN lines : ~GoodLine(k)}
      k == Min(bad)
  IN  IF bad = {} THEN "ok"
      ELSE IF \/ ~Line(k).ok \/ IsBlank(k) \/ WellIndented(k)
              \/ IndentsAtLine(k) = {} \/ ~Strictly(Indent(k), Indent(k - 1))
           THEN "error"
      ELSE IF \A i \in IndentsAtLine(k) : Strictly(Indent(k), i) THEN "undefined"
      ELSE "internal"

-----------------------------------------------------------------------------
(* Properties.                                                             *)

\* A Node* on the stack (text_ast.cpp:136, 288) addresses the last element of
\* its vector: no growth of a vector has moved a node that is still pointed at.
PointersAreLast ==
  /\ node_stack # <<>> =>
       \/ \E name \in DOMAIN variables : variables[name] = node_stack[1].node
       \/ definitions # <<>> /\ Last(definitions) = node_stack[1].node
  /\ \A i \in 2..Len(node_stack) : Last(nodes[node_stack[i - 1].node].args) = node_stack[i].node

\* Between lines node_stack holds the lines that are still open, each with the
\* indentation of the next one (the pops of text_ast.cpp:182-223), and all its
\* pointers are good.
StackIsTheOpenLines ==
  /\ PointersAreLast
  /\ pc = "line" =>
       LET open == [i \in DOMAIN node_stack |-> node_stack[i].node]
       IN  /\ InOrder(open, {j \in 1..nline : IsOpen(j, nline + 1)})
           /\ \A i \in DOMAIN open :
                node_stack[i].childrenIndentation =
                  IF i < Depth THEN Indent(open[i + 1]) ELSE Unset

\* The tree that is returned has every line below the nearest earlier line that
\* is indented less, in order.
TreeFollowsIndentation ==
  result = "ok" =>
    /\ InOrder(definitions, {k \in Children(0) : ~DefinesVariable(k)})
    /\ DOMAIN nodes = {k \in DOMAIN lines : ~IsBlank(k)}
    /\ \A k \in DOMAIN nodes : InOrder(nodes[k].args, Children(k))

\* A vector of lines is accepted if all lines are good; a first bad line is
\* reported unless the backtracking runs past the level it looks for.
OutcomeByFirstBadLine == pc = "exit" => result = Outcome

\* A use of a variable stands for the one line that defines it, before or after.
VariablesResolve ==
  result = "ok" =>
    \A k \in DOMAIN nodes :
      LET defining == {j \in DOMAIN lines : DefinesVariable(j) /\
                         nodes[k].ctor # <<>> /\ nodes[k].ctor = <<"$">> \o VariableName(j)}
      IN  {ResolveNode(k)} = IF defining = {} THEN {k} ELSE defining

\* A constructor that starts with a quote is a closed literal: what
\* TryGetStringLiteral asserts of it (src2/common.cpp:133).
Constructors(k) == {nodes[k].ctor} \cup ToSet(nodes[k].field)
LiteralsAreClosed ==
  \A k \in DOMAIN nodes : \A s \in Constructors(k) : s # <<>> /\ s[1] = "\"" => IsClosed(s)

\* A literal that was read is closed, and keeps its value when it is written and
\* read again, unless it holds a character that is written by an escape the
\* reader does not know (src2/common.cpp:30-125).
Unwritable == {"BEL", "BS", "FF", "VT", "ESC"}
LiteralsReadBack ==
  /\ LiteralsAreClosed
  /\ \A k \in DOMAIN nodes : \A s \in Constructors(k) \ {<<>>} :
       LET literal == TryGetStringLiteral(s)
       IN  literal # NoString =>
             \/ TryGetStringLiteral(QuoteStringForCLiteral(literal[1])) = literal
             \/ ToSet(literal[1]) \cap Unwritable # {}
=============================================================================
