-------------------------------- MODULE Contexts --------------------------------
(***************************************************************************)
(* Contexts of bound variables in src2 (context.cpp): a chain of maps from *)
(* variables to terms, the outermost first.                                *)
(***************************************************************************)
EXTENDS Naturals, Sequences, FiniteSets

Empty == [v \in {} |-> v]
With(map, v, value) == [w \in DOMAIN map \cup {v} |-> IF w = v THEN value ELSE map[w]]

BoundIn(chain) == UNION {DOMAIN chain[k] : k \in DOMAIN chain}
IsBound(chain, v) == \E k \in DOMAIN chain : v \in DOMAIN chain[k]
\* The innermost binding counts.
LookUp(chain, v) ==
  LET k == CHOOSE j \in DOMAIN chain : /\ v \in DOMAIN chain[j]
                                       /\ \A l \in (j + 1)..Len(chain) : v \notin DOMAIN chain[l]
  IN  chain[k][v]

\* Context::Bind asserts that no context of the chain binds the variable.
MayBind(chain, v) == ~IsBound(chain, v)
Bind(chain, v, value) == [chain EXCEPT ![Len(chain)] = With(@, v, value)]
=============================================================================
