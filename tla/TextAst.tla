-------------------------------- MODULE TextAst --------------------------------
(***************************************************************************)
(* The line-oriented parser of src_recycle/text_ast.cpp: an indentation    *)
(* tree is built from a vector of lines.  A node is known by the number of *)
(* the line that made it, so a Node* on node_stack is a line number too.   *)
(***************************************************************************)
EXTENDS Integers, Sequences, SequencesExt

CONSTANT Inputs   \* vectors of lines; a line is a sequence of characters
ASSUME InputsAssumption == \A input \in Inputs : input \in Seq(Seq(STRING))

VARIABLES
  lines,          \* the argument
  nline,          \* how many lines are done
  pc,             \* "line", "parent" (the do loop), "attach" or "exit"
  tokenizedLine,  \* of the line under way
  first_iteration,
  node_stack,     \* the levels, outermost first
  nodes,          \* the nodes, by line
  definitions,    \* lines of the top-level nodes, in order
  variables,      \* lines of the variables, by name
  result          \* "none", "ok", "error", "internal", "assert" or "undefined"

treeVars == <<nodes, definitions, variables>>
vars == <<lines, nline, pc, tokenizedLine, first_iteration, node_stack, treeVars, result>>

-----------------------------------------------------------------------------
(* Tokens.  A position is an index into the line; one past its end is a    *)
(* position too.                                                           *)

Blank == {" ", "TAB"}
From(s, i) == i..(Len(s) + 1)
Cut(s, i, j) == SubSeq(s, i, j - 1)
Earliest(S) == CHOOSE i \in S : \A j \in S : i <= j

\* Where the spaces and tabs that start at i, or the token, end.
AcceptSpaceAndTabs(s, i) == Earliest({j \in From(s, i) : j = Len(s) + 1 \/ s[j] \notin Blank})
AcceptToken(s, i) == Earliest({j \in From(s, i) : j = Len(s) + 1 \/ s[j] \in Blank})

\* Where the literal whose opening quote is at i ends, 0 if it is not closed.
AcceptQuotedString(s, i) ==
  LET rest[j \in From(s, i + 1)] ==
        IF j > Len(s) THEN 0
        ELSE IF s[j] = "\"" THEN j + 1
        ELSE IF s[j] # "\\" THEN rest[j + 1]
        ELSE IF j = Len(s) THEN 0 ELSE rest[j + 2]
  IN  rest[i + 1]

TokenEnd(s, i) == IF s[i] = "\"" THEN AcceptQuotedString(s, i) ELSE AcceptToken(s, i)

NotTokenized == [ok |-> FALSE, indentation |-> <<>>, tokens |-> <<>>]
Tokenize(s) ==
  LET tokens[i \in From(s, 1)] ==
        LET j == AcceptSpaceAndTabs(s, i)
            end == TokenEnd(s, j)
        IN  IF j > Len(s) THEN [ok |-> TRUE, list |-> <<>>]
            ELSE IF end = 0 THEN [ok |-> FALSE, list |-> <<>>]
            ELSE [tokens[end] EXCEPT !.list = <<Cut(s, j, end)>> \o @]
  IN  IF tokens[1].ok
      THEN [ok |-> TRUE, indentation |-> Cut(s, 1, AcceptSpaceAndTabs(s, 1)),
            tokens |-> tokens[1].list]
      ELSE NotTokenized

CompareIndentations(i, j) ==
  IF i = j THEN "Equal"
  ELSE IF IsPrefix(i, j) THEN "Less"
  ELSE IF IsPrefix(j, i) THEN "Greater"
  ELSE "none"

-----------------------------------------------------------------------------
(* ParseLinesToTextAst.                                                    *)

\* A map or a set of nodes with one more entry.
Put(map, key, value) ==
  [k \in DOMAIN map \cup {key} |-> IF k = key THEN value ELSE map[k]]

\* An optional indentation is set from lines that have one: <<>> is unset.
Unset == <<>>
Level(node) == [node |-> node, childrenIndentation |-> Unset]
Node(name, ctor, field) == [name |-> name, ctor |-> ctor, field |-> field, args |-> <<>>]

indentation == tokenizedLine.indentation
tokens == tokenizedLine.tokens
Depth == Len(node_stack)
Top == node_stack[Depth]

Init ==
  /\ lines \in Inputs
  /\ nline = 0
  /\ pc = "line"
  /\ tokenizedLine = NotTokenized
  /\ first_iteration = TRUE
  /\ node_stack = <<>>
  /\ nodes = <<>>
  /\ definitions = <<>>
  /\ variables = <<>>
  /\ result = "none"

Return(how) ==
  /\ pc' = "exit"
  /\ result' = how
  /\ UNCHANGED <<nline, node_stack, first_iteration, treeVars>>

\* Mutant: a line without indentation does not close the open ones.
ForgetsToClear ==
  /\ pc = "line" /\ nline < Len(lines)
  /\ tokenizedLine' = Tokenize(lines[nline + 1])
  /\ LET line == tokenizedLine'
     IN  \/ ~line.ok /\ Return("error")
         \/ /\ line.ok /\ line.tokens = <<>>
            /\ node_stack' = <<>>
            /\ nline' = nline + 1
            /\ UNCHANGED <<pc, first_iteration, treeVars, result>>
         \/ /\ line.ok /\ line.tokens # <<>>
            /\ pc' = IF line.indentation = <<>> \/ node_stack = <<>> THEN "attach" ELSE "parent"
            /\ first_iteration' = TRUE
            /\ UNCHANGED <<nline, node_stack, treeVars, result>>
  /\ UNCHANGED lines

NextLine ==
  /\ pc = "line" /\ nline < Len(lines)
  /\ tokenizedLine' = Tokenize(lines[nline + 1])
  /\ LET line == tokenizedLine'
     IN  \/ ~line.ok /\ Return("error")
         \/ /\ line.ok /\ line.tokens = <<>>
            /\ node_stack' = <<>>
            /\ nline' = nline + 1
            /\ UNCHANGED <<pc, first_iteration, treeVars, result>>
         \/ /\ line.ok /\ line.tokens # <<>> /\ line.indentation = <<>>
            /\ node_stack' = <<>>
            /\ pc' = "attach"
            /\ UNCHANGED <<nline, first_iteration, treeVars, result>>
         \/ /\ line.ok /\ line.tokens # <<>> /\ line.indentation # <<>>
            /\ IF node_stack = <<>>
               THEN Return("error")
               ELSE /\ pc' = "parent"
                    /\ first_iteration' = TRUE
                    /\ UNCHANGED <<nline, node_stack, treeVars, result>>
  /\ UNCHANGED lines

AllLines ==
  /\ pc = "line" /\ nline = Len(lines)
  /\ Return("ok")
  /\ UNCHANGED <<lines, tokenizedLine>>

\* The line goes below the level that is now the last one, or the loop looks
\* at the next level.
Attaches(stack) ==
  /\ node_stack' = stack
  /\ pc' = "attach"
  /\ UNCHANGED <<nline, treeVars, result>>
LooksAt(stack) ==
  /\ node_stack' = stack
  /\ UNCHANGED <<nline, pc, treeVars, result>>

\* Another iteration, whose last level already has children.
Backtrack ==
  IF first_iteration THEN Return("assert")
  ELSE LET ordering == CompareIndentations(Top.childrenIndentation, indentation)
       IN  /\ CASE ordering = "Less" -> Return("internal")
                [] ordering = "Equal" -> Attaches(node_stack)
                [] ordering = "Greater" -> LooksAt(Front(node_stack))
                [] OTHER -> Return("error")
           /\ UNCHANGED first_iteration

\* Mutant: a line that is indented like the previous one becomes its child.
EqualIsBelow ==
  /\ first_iteration' = FALSE
  /\ IF Depth = 1
     THEN Attaches(<<[Top EXCEPT !.childrenIndentation = indentation]>>)
     ELSE LET ordering == CompareIndentations(node_stack[Depth - 1].childrenIndentation, indentation)
          IN  CASE ordering \in {"Less", "Equal"} -> Attaches(node_stack)
                [] ordering = "Greater" -> LooksAt(Front(node_stack))
                [] OTHER -> pc' = "exit" /\ result' = "error" /\ UNCHANGED <<nline, node_stack, treeVars>>

\* The first iteration: the last level is the previous line, without children.
FirstLook ==
  /\ first_iteration' = FALSE
  /\ IF Depth = 1
     THEN Attaches(<<[Top EXCEPT !.childrenIndentation = indentation]>>)
     ELSE LET ordering == CompareIndentations(node_stack[Depth - 1].childrenIndentation, indentation)
          IN  CASE ordering = "Less" -> Attaches(node_stack)
                [] ordering = "Equal" -> Attaches(Front(node_stack))
                [] ordering = "Greater" -> LooksAt(Front(node_stack))
                [] OTHER -> pc' = "exit" /\ result' = "error" /\ UNCHANGED <<nline, node_stack, treeVars>>

\* back() of an empty vector is undefined behaviour.
FindParent ==
  /\ pc = "parent"
  /\ \/ node_stack = <<>> /\ Return("undefined")
     \/ node_stack # <<>> /\ Top.childrenIndentation # Unset /\ Backtrack
     \/ node_stack # <<>> /\ Top.childrenIndentation = Unset /\ FirstLook
  /\ UNCHANGED <<lines, tokenizedLine>>

IsVariable == tokens[1][1] = "$"

\* The node of the line, if its tokens are in order.
NodeOfLine ==
  LET first == tokens[1]
  IN  Node(IF IsVariable THEN Tail(Front(first)) ELSE Front(first),
           IF Len(tokens) = 1 THEN Front(first) ELSE tokens[2],
           IF Len(tokens) = 3 THEN <<tokens[3]>> ELSE <<>>)
TokensInOrder ==
  /\ Last(tokens[1]) = ":"
  /\ Len(tokens) = 1 => ~IsVariable
  /\ Len(tokens) <= 3

\* Mutant: a second definition of a variable replaces the first.
NeverRedefines == FALSE

Redefines == NodeOfLine.name \in DOMAIN variables

AttachTopLevel ==
  /\ nodes' = Put(nodes, nline + 1, NodeOfLine)
  /\ node_stack' = <<Level(nline + 1)>>
  /\ IF IsVariable
     THEN /\ variables' = Put(variables, NodeOfLine.name, nline + 1)
          /\ UNCHANGED definitions
     ELSE /\ definitions' = Append(definitions, nline + 1)
          /\ UNCHANGED variables

\* Mutant: the new child is put first.
InsertFirst ==
  /\ nodes' = Put([nodes EXCEPT ![Top.node].args = <<nline + 1>> \o @], nline + 1, NodeOfLine)
  /\ node_stack' = [node_stack EXCEPT ![Depth].childrenIndentation = indentation]
                     \o <<Level(nline + 1)>>
  /\ UNCHANGED <<definitions, variables>>

AttachBelow ==
  /\ nodes' = Put([nodes EXCEPT ![Top.node].args = Append(@, nline + 1)], nline + 1, NodeOfLine)
  /\ node_stack' = [node_stack EXCEPT ![Depth].childrenIndentation = indentation]
                     \o <<Level(nline + 1)>>
  /\ UNCHANGED <<definitions, variables>>

Done ==
  /\ nline' = nline + 1
  /\ pc' = "line"
  /\ UNCHANGED <<first_iteration, result>>

Attach ==
  /\ pc = "attach"
  /\ \/ ~TokensInOrder /\ Return("error")
     \/ /\ TokensInOrder /\ IsVariable /\ (node_stack # <<>> \/ Redefines)
        /\ Return("error")
     \/ /\ TokensInOrder /\ node_stack = <<>> /\ (IsVariable => ~Redefines)
        /\ AttachTopLevel
        /\ Done
     \/ /\ TokensInOrder /\ node_stack # <<>> /\ ~IsVariable
        /\ IF Top.childrenIndentation \in {Unset, indentation}
           THEN AttachBelow /\ Done
           ELSE Return("assert")
  /\ UNCHANGED <<lines, tokenizedLine>>

\* A call that is stuck before it has returned is a deadlock.
Terminated == pc = "exit" /\ UNCHANGED vars

Next == NextLine \/ AllLines \/ FindParent \/ Attach \/ Terminated

Spec == Init /\ [][Next]_vars

\* A node whose constructor names a variable stands for the variable's node.
ResolveNode(k) ==
  LET ctor == nodes[k].ctor
  IN  IF ctor = <<>> \/ ctor[1] # "$" \/ Tail(ctor) \notin DOMAIN variables THEN k
      ELSE variables[Tail(ctor)]
=============================================================================
