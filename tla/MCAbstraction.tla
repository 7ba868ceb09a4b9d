----------------------------- MODULE MCAbstraction -----------------------------
(***************************************************************************)
(* Small abstractions over binders that may clash, and a variable of the   *)
(* context.                                                                *)
(***************************************************************************)
EXTENDS Abstraction

MCVariables == {"x", "y", "p", "c"}
Bindings == [variable : {"x", "y"}, fvs : SUBSET {"x", "y", "c"}]
Typed == [variable : {"x", "p"}, fvs : SUBSET {"x", "p", "c"}]
UpTo(n, binders) == UNION {[1..k -> binders] : k \in 0..n}
Of(F, bs, ps) == [forall : F, bound : bs, parameters : ps, body : SUBSET MCVariables]

MCRequests ==
  Of({{}}, UpTo(2, Bindings), UpTo(1, Typed)) \cup Of({{}}, UpTo(1, Bindings), UpTo(2, Typed))
    \cup Of({{"x"}}, UpTo(1, Bindings), UpTo(1, Typed))
=============================================================================
