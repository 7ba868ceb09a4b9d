---------------------------- MODULE TermStoreProofs ----------------------------
(***************************************************************************)
(* Proofs about TermStore, for every set of plans and every set of types:  *)
(* what the store gives is what it was asked for, one tree has one address *)
(* unless an unordered map of several entries is in it, the cache of free  *)
(* variables is right, and the types of terms in contexts do not change.   *)
(***************************************************************************)
EXTENDS TermStore, FiniteSetTheorems, SequenceTheorems, WellFoundedInduction, TLAPS

-----------------------------------------------------------------------------
(* Terms, whatever they refer to: what a term of each kind is made of,     *)
(* what renaming keeps, and that terms which are compared alike are alike. *)

\* Every inhabited set of naturals has a least element.
LEMMA NatMin == \A T \in SUBSET Nat : T # {} => \E x \in T : \A y \in T : x <= y
<1> DEFINE R == OpToRel(<, Nat)
<1>1. IsWellFoundedOn(R, Nat)
  BY NatLessThanWellFounded
<1>2. \A a, b \in Nat : <<a, b>> \in R <=> a < b
  BY DEF OpToRel
<1> HIDE DEF R
<1> SUFFICES ASSUME NEW T \in SUBSET Nat, T # {} PROVE \E x \in T : \A y \in T : x <= y
  OBVIOUS
<1>3. PICK x \in T : \A y \in T : ~ (<<y, x>> \in R)
  BY <1>1, WFMin
<1>4. ASSUME NEW y \in T PROVE x <= y
  <2>1. ~(y < x)
    BY <1>2, <1>3
  <2>2. QED
    BY <2>1
<1>5. QED
  BY <1>4

\* What holds of an address whenever it holds of all before it holds of all.
LEMMA Upwards ==
  ASSUME NEW n \in Nat, NEW T,
         \A a \in 1..n : (\A b \in 1..(a - 1) : b \in T) => a \in T
  PROVE  \A a \in 1..n : a \in T
<1> DEFINE Bad == {a \in 1..n : a \notin T}
<1> SUFFICES ASSUME Bad # {} PROVE FALSE
  OBVIOUS
<1>1. PICK a \in Bad : \A b \in Bad : a <= b
  <2>1. Bad \in SUBSET Nat
    OBVIOUS
  <2>2. QED
    BY <2>1, NatMin
<1>2. a \in 1..n /\ a \notin T
  OBVIOUS
<1>3. \A b \in 1..(a - 1) : b \in T
  <2>1. TAKE b \in 1..(a - 1)
  <2>2. b \in 1..n /\ ~(a <= b)
    BY <1>2
  <2>3. QED
    BY <1>1, <2>2
<1>4. QED
  BY <1>2, <1>3

Tags == Literals \cup Unmovable \cup Products
          \cup {"Variable", "Application", "UnitLikeValue", "DeferredValue", "LetIns",
                "Abstraction", "FunctionType"}
BindersOver(S) == Seq([variable : S, value : S])

TypesOver(S) == Seq([type : S, comptime : SUBSET S])

RenamedBinders(bs, f) == [k \in DOMAIN bs |-> [variable |-> f[bs[k].variable], value |-> f[bs[k].value]]]
RenamedMembers(ms, f) == [k \in DOMAIN ms |-> [name |-> ms[k].name, value |-> f[ms[k].value]]]
RenamedSet(S, f) == {f[x] : x \in S}
RenamedTypes(ps, f) ==
  [k \in DOMAIN ps |-> [type |-> f[ps[k].type], comptime |-> RenamedSet(ps[k].comptime, f)]]

\* The kinds of terms there are.
LEMMA TermTag == ASSUME NEW S, NEW t \in TermOver(S) PROVE t.tag \in Tags
BY DEF TermOver, Tags, Literals, Unmovable, Products

\* One lemma for each kind of term: what it is made of, and what renaming does to it.
LEMMA IfPlain ==
  ASSUME NEW S, NEW t \in TermOver(S), t.tag \in Literals \cup Unmovable \cup {"Variable"}
  PROVE  /\ \A R : t \in TermOver(R)
         /\ \A f : Renamed(t, f) = t
BY DEF TermOver, Renamed, Literals, Unmovable

\* An application.
LEMMA IfApplication ==
  ASSUME NEW S, NEW t \in TermOver(S), t.tag = "Application"
  PROVE  /\ t = Application(t.function, t.arguments)
         /\ t.function \in S /\ t.arguments \in Seq(S)
         /\ \A f : Renamed(t, f) = Application(f[t.function], [k \in DOMAIN t.arguments |-> f[t.arguments[k]]])
<1>1. t = Application(t.function, t.arguments) /\ t.function \in S /\ t.arguments \in Seq(S)
  BY DEF TermOver, Application, Literals, Unmovable
<1>2. \A f : Renamed(t, f) = Application(f[t.function], [k \in DOMAIN t.arguments |-> f[t.arguments[k]]])
  BY DEF Renamed, Literals, Unmovable
<1>3. QED
  BY <1>1, <1>2

\* A unit-like value.
LEMMA IfUnitLikeValue ==
  ASSUME NEW S, NEW t \in TermOver(S), t.tag = "UnitLikeValue"
  PROVE  /\ t = UnitLikeValue(t.type)
         /\ t.type \in S
         /\ \A f : Renamed(t, f) = UnitLikeValue(f[t.type])
<1>1. t = UnitLikeValue(t.type) /\ t.type \in S
  BY DEF TermOver, UnitLikeValue, Literals, Unmovable
<1>2. \A f : Renamed(t, f) = UnitLikeValue(f[t.type])
  BY DEF Renamed, Literals, Unmovable
<1>3. QED
  BY <1>1, <1>2

\* A deferred value.
LEMMA IfDeferredValue ==
  ASSUME NEW S, NEW t \in TermOver(S), t.tag = "DeferredValue"
  PROVE  /\ t = DeferredValue(t.type, t.availability)
         /\ t.type \in S /\ t.availability \in {"Runtime", "Comptime"}
         /\ \A f : Renamed(t, f) = DeferredValue(f[t.type], t.availability)
<1>1. t = DeferredValue(t.type, t.availability) /\ t.type \in S /\ t.availability \in {"Runtime", "Comptime"}
  BY DEF TermOver, DeferredValue, Literals, Unmovable
<1>2. \A f : Renamed(t, f) = DeferredValue(f[t.type], t.availability)
  BY DEF Renamed, Literals, Unmovable
<1>3. QED
  BY <1>1, <1>2

\* A let-in.
LEMMA IfLetIns ==
  ASSUME NEW S, NEW t \in TermOver(S), t.tag = "LetIns"
  PROVE  /\ t = LetIns(t.bound, t.body)
         /\ t.bound \in BindersOver(S) /\ t.body \in S
         /\ \A f : Renamed(t, f) = LetIns(RenamedBinders(t.bound, f), f[t.body])
<1>1. t = LetIns(t.bound, t.body) /\ t.bound \in BindersOver(S) /\ t.body \in S
  BY DEF TermOver, LetIns, Literals, Unmovable, BindersOver
<1>2. \A f : Renamed(t, f) = LetIns(RenamedBinders(t.bound, f), f[t.body])
  BY DEF Renamed, Literals, Unmovable, BindersOver, RenamedBinders
<1>3. QED
  BY <1>1, <1>2

\* An abstraction.
LEMMA IfAbstraction ==
  ASSUME NEW S, NEW t \in TermOver(S), t.tag = "Abstraction"
  PROVE  /\ t = Abstraction(t.bound, t.parameters, t.body)
         /\ t.bound \in BindersOver(S) /\ t.parameters \in BindersOver(S) /\ t.body \in S
         /\ \A f : Renamed(t, f) = 
              Abstraction(RenamedBinders(t.bound, f), RenamedBinders(t.parameters, f), f[t.body])
<1>1. t = Abstraction(t.bound, t.parameters, t.body) /\ t.bound \in BindersOver(S) /\ t.parameters \in BindersOver(S) /\ t.body \in S
  BY DEF TermOver, Abstraction, Literals, Unmovable, BindersOver
<1>2. \A f : Renamed(t, f) = 
              Abstraction(RenamedBinders(t.bound, f), RenamedBinders(t.parameters, f), f[t.body])
  BY DEF Renamed, Literals, Unmovable, BindersOver, RenamedBinders
<1>3. QED
  BY <1>1, <1>2

\* A function type.
LEMMA IfFunctionType ==
  ASSUME NEW S, NEW t \in TermOver(S), t.tag = "FunctionType"
  PROVE  /\ t = FunctionType(t.forall, t.parameter_types, t.return_type)
         /\ t.forall \in SUBSET S /\ t.parameter_types \in TypesOver(S) /\ t.return_type \in S
         /\ \A f : Renamed(t, f) = 
              FunctionType(RenamedSet(t.forall, f), RenamedTypes(t.parameter_types, f), f[t.return_type])
<1>1. t = FunctionType(t.forall, t.parameter_types, t.return_type) /\ t.forall \in SUBSET S /\ t.parameter_types \in TypesOver(S) /\ t.return_type \in S
  BY DEF TermOver, FunctionType, Literals, Unmovable, TypesOver
<1>2. \A f : Renamed(t, f) = 
              FunctionType(RenamedSet(t.forall, f), RenamedTypes(t.parameter_types, f), f[t.return_type])
  BY DEF Renamed, Literals, Unmovable, TypesOver, RenamedSet, RenamedTypes
<1>3. QED
  BY <1>1, <1>2

\* A product type.
LEMMA IfProductType ==
  ASSUME NEW S, NEW t \in TermOver(S), t.tag = "ProductType"
  PROVE  /\ t = ProductType(t.members)
         /\ t.members \in MembersOver(S)
         /\ \A f : Renamed(t, f) = ProductType(RenamedMembers(t.members, f))
<1>1. t = ProductType(t.members) /\ t.members \in MembersOver(S)
  BY DEF TermOver, ProductType, Literals, Unmovable
<1>2. \A f : Renamed(t, f) = ProductType(RenamedMembers(t.members, f))
  BY DEF Renamed, Literals, Unmovable, RenamedMembers
<1>3. QED
  BY <1>1, <1>2

\* A product value.
LEMMA IfProductValue ==
  ASSUME NEW S, NEW t \in TermOver(S), t.tag = "ProductValue"
  PROVE  /\ t = ProductValue(t.type, t.members)
         /\ t.type \in S /\ t.members \in MembersOver(S)
         /\ \A f : Renamed(t, f) = ProductValue(f[t.type], RenamedMembers(t.members, f))
<1>1. t = ProductValue(t.type, t.members) /\ t.type \in S /\ t.members \in MembersOver(S)
  BY DEF TermOver, ProductValue, Literals, Unmovable
<1>2. \A f : Renamed(t, f) = ProductValue(f[t.type], RenamedMembers(t.members, f))
  BY DEF Renamed, Literals, Unmovable, RenamedMembers
<1>3. QED
  BY <1>1, <1>2

\* What the constructors make is a term.
LEMMA Built ==
  ASSUME NEW S
  PROVE  /\ \A f \in S, as \in Seq(S) : Application(f, as) \in TermOver(S)
         /\ \A x \in S : UnitLikeValue(x) \in TermOver(S)
         /\ \A x \in S, a \in {"Runtime", "Comptime"} : DeferredValue(x, a) \in TermOver(S)
         /\ \A bs \in BindersOver(S), b \in S : LetIns(bs, b) \in TermOver(S)
         /\ \A bs, ps \in BindersOver(S), b \in S : Abstraction(bs, ps, b) \in TermOver(S)
         /\ \A fs \in SUBSET S, ps \in TypesOver(S), r \in S :
              FunctionType(fs, ps, r) \in TermOver(S)
         /\ \A ms \in MembersOver(S) : ProductType(ms) \in TermOver(S)
         /\ \A x \in S, ms \in MembersOver(S) : ProductValue(x, ms) \in TermOver(S)
<1>1. \A f \in S, as \in Seq(S) : Application(f, as) \in TermOver(S)
  BY DEF Application, TermOver
<1>2. \A x \in S : UnitLikeValue(x) \in TermOver(S)
  BY DEF UnitLikeValue, TermOver
<1>3. \A x \in S, a \in {"Runtime", "Comptime"} : DeferredValue(x, a) \in TermOver(S)
  BY DEF DeferredValue, TermOver
<1>4. \A bs \in BindersOver(S), b \in S : LetIns(bs, b) \in TermOver(S)
  BY DEF LetIns, TermOver, BindersOver
<1>5. \A bs, ps \in BindersOver(S), b \in S : Abstraction(bs, ps, b) \in TermOver(S)
  BY DEF Abstraction, TermOver, BindersOver
<1>6. \A fs \in SUBSET S, ps \in TypesOver(S), r \in S :
        FunctionType(fs, ps, r) \in TermOver(S)
  BY DEF FunctionType, TermOver, TypesOver
<1>7. \A ms \in MembersOver(S) : ProductType(ms) \in TermOver(S)
  BY DEF ProductType, TermOver
<1>8. \A x \in S, ms \in MembersOver(S) : ProductValue(x, ms) \in TermOver(S)
  BY DEF ProductValue, TermOver
<1>9. QED
  BY <1>1, <1>2, <1>3, <1>4, <1>5, <1>6, <1>7, <1>8

\* A function on 1..n is a sequence of length n.
LEMMA FunctionIsSeq ==
  ASSUME NEW S, NEW n \in Nat, NEW s \in [1..n -> S]
  PROVE  s \in Seq(S) /\ Len(s) = n
BY SeqDef, LenProperties

\* A renamed term is of the same kind,
LEMMA KeepsTag ==
  ASSUME NEW S, NEW t \in TermOver(S), NEW f
  PROVE  Renamed(t, f).tag = t.tag
<1>1. CASE t.tag \in Literals \cup Unmovable \cup {"Variable"}
  BY <1>1, IfPlain
<1>2. CASE t.tag = "Application"
  BY <1>2, IfApplication DEF Application
<1>3. CASE t.tag = "UnitLikeValue"
  BY <1>3, IfUnitLikeValue DEF UnitLikeValue
<1>4. CASE t.tag = "DeferredValue"
  BY <1>4, IfDeferredValue DEF DeferredValue
<1>5. CASE t.tag = "LetIns"
  BY <1>5, IfLetIns DEF LetIns
<1>6. CASE t.tag = "Abstraction"
  BY <1>6, IfAbstraction DEF Abstraction
<1>7. CASE t.tag = "FunctionType"
  BY <1>7, IfFunctionType DEF FunctionType
<1>8. CASE t.tag = "ProductType"
  BY <1>8, IfProductType DEF ProductType
<1>9. CASE t.tag = "ProductValue"
  BY <1>9, IfProductValue DEF ProductValue
<1>10. QED
  BY <1>1, <1>2, <1>3, <1>4, <1>5, <1>6, <1>7, <1>8, <1>9, TermTag DEF Tags, Products

\* The arguments of a renamed application.
LEMMA RenamedArguments ==
  ASSUME NEW S, NEW R, NEW f, \A x \in S : f[x] \in R, NEW as \in Seq(S)
  PROVE  [k \in DOMAIN as |-> f[as[k]]] \in Seq(R)
<1>1. Len(as) \in Nat /\ DOMAIN as = 1..Len(as) /\ \A k \in DOMAIN as : as[k] \in S
  BY LenProperties
<1>2. [k \in DOMAIN as |-> f[as[k]]] \in [1..Len(as) -> R]
  BY <1>1
<1>3. QED
  BY <1>1, <1>2, FunctionIsSeq

\* The parts of a renamed term.
LEMMA RenamedParts ==
  ASSUME NEW S, NEW R, NEW f, \A x \in S : f[x] \in R
  PROVE  /\ \A as \in Seq(S) : [k \in DOMAIN as |-> f[as[k]]] \in Seq(R)
         /\ \A bs \in BindersOver(S) : RenamedBinders(bs, f) \in BindersOver(R)
         /\ \A ms \in MembersOver(S) : RenamedMembers(ms, f) \in MembersOver(R)
         /\ \A X \in SUBSET S : RenamedSet(X, f) \in SUBSET R
         /\ \A ps \in TypesOver(S) :
              RenamedTypes(ps, f) \in TypesOver(R)
<1>1. \A as \in Seq(S) : [k \in DOMAIN as |-> f[as[k]]] \in Seq(R)
  BY RenamedArguments
<1>2. ASSUME NEW bs \in BindersOver(S) PROVE RenamedBinders(bs, f) \in BindersOver(R)
  <2>1. Len(bs) \in Nat /\ DOMAIN bs = 1..Len(bs) /\ \A k \in DOMAIN bs : bs[k] \in [variable : S, value : S]
    BY LenProperties DEF BindersOver
  <2>2. RenamedBinders(bs, f) \in [1..Len(bs) -> [variable : R, value : R]]
    BY <2>1 DEF RenamedBinders
  <2>3. QED
    BY <2>1, <2>2, FunctionIsSeq DEF BindersOver
<1>3. ASSUME NEW ms \in MembersOver(S) PROVE RenamedMembers(ms, f) \in MembersOver(R)
  <2>1. Len(ms) \in Nat /\ DOMAIN ms = 1..Len(ms) /\ \A k \in DOMAIN ms : ms[k] \in [name : STRING, value : S]
    <3>1. ms \in Seq([name : STRING, value : S])
      BY DEF MembersOver
    <3>2. QED
      BY <3>1, LenProperties, ElementOfSeq
  <2>2. RenamedMembers(ms, f) \in [1..Len(ms) -> [name : STRING, value : R]]
    BY <2>1 DEF RenamedMembers
  <2>3. RenamedMembers(ms, f) \in Seq([name : STRING, value : R])
    BY <2>1, <2>2, FunctionIsSeq
  <2>4. \A j, k \in DOMAIN ms : RenamedMembers(ms, f)[j].name = RenamedMembers(ms, f)[k].name => j = k
    BY DEF RenamedMembers, MembersOver
  <2>5. DOMAIN RenamedMembers(ms, f) = DOMAIN ms
    BY DEF RenamedMembers
  <2>6. QED
    BY <2>3, <2>4, <2>5 DEF MembersOver
<1>4. ASSUME NEW X \in SUBSET S PROVE RenamedSet(X, f) \in SUBSET R
  BY DEF RenamedSet
<1>5. ASSUME NEW ps \in TypesOver(S)
      PROVE  RenamedTypes(ps, f) \in TypesOver(R)
  <2>1. Len(ps) \in Nat /\ DOMAIN ps = 1..Len(ps) /\ \A k \in DOMAIN ps : ps[k] \in [type : S, comptime : SUBSET S]
    BY LenProperties, ElementOfSeq DEF TypesOver
  <2>2. RenamedTypes(ps, f) \in [1..Len(ps) -> [type : R, comptime : SUBSET R]]
    BY <2>1, <1>4 DEF RenamedTypes
  <2>3. QED
    BY <2>1, <2>2, FunctionIsSeq DEF TypesOver
<1>6. QED
  BY <1>1, <1>2, <1>3, <1>4, <1>5

\* and it refers to the new names.
LEMMA RenamedType ==
  ASSUME NEW S, NEW R, NEW t \in TermOver(S), NEW f, \A x \in S : f[x] \in R
  PROVE  Renamed(t, f) \in TermOver(R)
<1>1. CASE t.tag \in Literals \cup Unmovable \cup {"Variable"}
  BY <1>1, IfPlain
<1>2. CASE t.tag = "Application"
  <2>1. t.function \in S /\ t.arguments \in Seq(S)
    BY <1>2, IfApplication
  <2>2. [k \in DOMAIN t.arguments |-> f[t.arguments[k]]] \in Seq(R)
    BY <2>1, RenamedParts
  <2>3. QED
    BY <1>2, <2>1, <2>2, IfApplication, Built
<1>3. CASE t.tag = "UnitLikeValue"
  BY <1>3, IfUnitLikeValue, Built
<1>4. CASE t.tag = "DeferredValue"
  BY <1>4, IfDeferredValue, Built
<1>5. CASE t.tag = "LetIns"
  <2>1. t.bound \in BindersOver(S) /\ t.body \in S
    BY <1>5, IfLetIns
  <2>2. RenamedBinders(t.bound, f) \in BindersOver(R)
    BY <2>1, RenamedParts
  <2>3. QED
    BY <1>5, <2>1, <2>2, IfLetIns, Built
<1>6. CASE t.tag = "Abstraction"
  <2>1. t.bound \in BindersOver(S) /\ t.parameters \in BindersOver(S) /\ t.body \in S
    BY <1>6, IfAbstraction
  <2>2. RenamedBinders(t.bound, f) \in BindersOver(R)
        /\ RenamedBinders(t.parameters, f) \in BindersOver(R)
    BY <2>1, RenamedParts
  <2>3. QED
    BY <1>6, <2>1, <2>2, IfAbstraction, Built
<1>7. CASE t.tag = "FunctionType"
  <2>1. t.forall \in SUBSET S /\ t.parameter_types \in TypesOver(S) /\ t.return_type \in S
    BY <1>7, IfFunctionType
  <2>2. RenamedSet(t.forall, f) \in SUBSET R
    BY <2>1 DEF RenamedSet
  <2>3. RenamedTypes(t.parameter_types, f) \in TypesOver(R)
    BY <2>1, RenamedParts
  <2>4. QED
    BY <1>7, <2>1, <2>2, <2>3, IfFunctionType, Built
<1>8. CASE t.tag = "ProductType"
  <2>1. t.members \in MembersOver(S)
    BY <1>8, IfProductType
  <2>2. RenamedMembers(t.members, f) \in MembersOver(R)
    BY <2>1, RenamedParts
  <2>3. QED
    BY <1>8, <2>1, <2>2, IfProductType, Built
<1>9. CASE t.tag = "ProductValue"
  <2>1. t.type \in S /\ t.members \in MembersOver(S)
    BY <1>9, IfProductValue
  <2>2. RenamedMembers(t.members, f) \in MembersOver(R)
    BY <2>1, RenamedParts
  <2>3. QED
    BY <1>9, <2>1, <2>2, IfProductValue, Built
<1>10. QED
  BY <1>1, <1>2, <1>3, <1>4, <1>5, <1>6, <1>7, <1>8, <1>9, TermTag DEF Tags, Products

\* The elements of the parts.
LEMMA Elements ==
  ASSUME NEW S
  PROVE  /\ \A as \in Seq(S) : \A k \in DOMAIN as : as[k] \in S
         /\ \A bs \in BindersOver(S) : \A k \in DOMAIN bs :
              bs[k].variable \in S /\ bs[k].value \in S /\ bs[k] = [variable |-> bs[k].variable, value |-> bs[k].value]
         /\ \A ms \in MembersOver(S) : \A k \in DOMAIN ms :
              ms[k].value \in S /\ ms[k] = [name |-> ms[k].name, value |-> ms[k].value]
         /\ \A ps \in TypesOver(S) : \A k \in DOMAIN ps :
              ps[k].type \in S /\ ps[k].comptime \in SUBSET S /\ ps[k] = [type |-> ps[k].type, comptime |-> ps[k].comptime]
<1>1. \A as \in Seq(S) : \A k \in DOMAIN as : as[k] \in S
  BY LenProperties
<1>2. \A bs \in BindersOver(S) : \A k \in DOMAIN bs : bs[k] \in [variable : S, value : S]
  BY LenProperties DEF BindersOver
<1>3. \A ms \in MembersOver(S) : \A k \in DOMAIN ms : ms[k] \in [name : STRING, value : S]
  <2>1. \A ms \in MembersOver(S) : ms \in Seq([name : STRING, value : S])
    BY DEF MembersOver
  <2>2. QED
    BY <2>1, LenProperties, ElementOfSeq
<1>4. \A ps \in TypesOver(S) : \A k \in DOMAIN ps : ps[k] \in [type : S, comptime : SUBSET S]
  BY LenProperties, ElementOfSeq DEF TypesOver
<1>5. QED
  BY <1>1, <1>2, <1>3, <1>4

\* Only the names of what a term refers to matter.
LEMMA RenamedSame ==
  ASSUME NEW S, NEW t \in TermOver(S), NEW f, NEW g, \A x \in S : f[x] = g[x]
  PROVE  Renamed(t, f) = Renamed(t, g)
<1>0. /\ \A as \in Seq(S) : [k \in DOMAIN as |-> f[as[k]]] = [k \in DOMAIN as |-> g[as[k]]]
      /\ \A bs \in BindersOver(S) : RenamedBinders(bs, f) = RenamedBinders(bs, g)
      /\ \A ms \in MembersOver(S) : RenamedMembers(ms, f) = RenamedMembers(ms, g)
      /\ \A X \in SUBSET S : RenamedSet(X, f) = RenamedSet(X, g)
      /\ \A ps \in TypesOver(S) : RenamedTypes(ps, f) = RenamedTypes(ps, g)
  <2>1. \A as \in Seq(S) : [k \in DOMAIN as |-> f[as[k]]] = [k \in DOMAIN as |-> g[as[k]]]
    BY Elements
  <2>2. \A bs \in BindersOver(S) : RenamedBinders(bs, f) = RenamedBinders(bs, g)
    BY Elements DEF RenamedBinders
  <2>3. \A ms \in MembersOver(S) : RenamedMembers(ms, f) = RenamedMembers(ms, g)
    BY Elements DEF RenamedMembers
  <2>4. \A X \in SUBSET S : RenamedSet(X, f) = RenamedSet(X, g)
    BY DEF RenamedSet
  <2>5. \A ps \in TypesOver(S) : RenamedTypes(ps, f) = RenamedTypes(ps, g)
    BY <2>4, Elements DEF RenamedTypes
  <2>6. QED
    BY <2>1, <2>2, <2>3, <2>4, <2>5
<1>1. CASE t.tag \in Literals \cup Unmovable \cup {"Variable"}
  BY <1>1, IfPlain
<1>2. CASE t.tag = "Application"
  <2>1. t.function \in S /\ t.arguments \in Seq(S)
    BY <1>2, IfApplication
  <2>2. [k \in DOMAIN t.arguments |-> f[t.arguments[k]]] = [k \in DOMAIN t.arguments |-> g[t.arguments[k]]]
    BY <1>0, <2>1
  <2>3. /\ Renamed(t, f) = Application(f[t.function], [k \in DOMAIN t.arguments |-> f[t.arguments[k]]])
        /\ Renamed(t, g) = Application(g[t.function], [k \in DOMAIN t.arguments |-> g[t.arguments[k]]])
    BY <1>2, IfApplication
  <2>4. QED
    BY <2>1, <2>2, <2>3
<1>3. CASE t.tag = "UnitLikeValue"
  BY <1>3, IfUnitLikeValue
<1>4. CASE t.tag = "DeferredValue"
  BY <1>4, IfDeferredValue
<1>5. CASE t.tag = "LetIns"
  BY <1>0, <1>5, IfLetIns
<1>6. CASE t.tag = "Abstraction"
  BY <1>0, <1>6, IfAbstraction
<1>7. CASE t.tag = "FunctionType"
  BY <1>0, <1>7, IfFunctionType
<1>8. CASE t.tag = "ProductType"
  BY <1>0, <1>8, IfProductType
<1>9. CASE t.tag = "ProductValue"
  BY <1>0, <1>9, IfProductValue
<1>10. QED
  BY <1>1, <1>2, <1>3, <1>4, <1>5, <1>6, <1>7, <1>8, <1>9, TermTag DEF Tags, Products

\* Renaming twice is renaming once.
LEMMA RenamedTwice ==
  ASSUME NEW S, NEW t \in TermOver(S), NEW g, NEW f, NEW h, \A x \in S : h[x] = f[g[x]]
  PROVE  Renamed(Renamed(t, g), f) = Renamed(t, h)
<1> DEFINE u == Renamed(t, g)
           R == {g[x] : x \in S}
<1>0. u \in TermOver(R) /\ u.tag = t.tag
  BY RenamedType, KeepsTag
<1> HIDE DEF u, R
<1>b. \A bs \in BindersOver(S) : RenamedBinders(RenamedBinders(bs, g), f) = RenamedBinders(bs, h)
  BY Elements DEF RenamedBinders
<1>m. \A ms \in MembersOver(S) : RenamedMembers(RenamedMembers(ms, g), f) = RenamedMembers(ms, h)
  BY Elements DEF RenamedMembers
<1>s. \A X \in SUBSET S : RenamedSet(RenamedSet(X, g), f) = RenamedSet(X, h)
  BY DEF RenamedSet
<1>t. \A ps \in TypesOver(S) : RenamedTypes(RenamedTypes(ps, g), f) = RenamedTypes(ps, h)
  BY <1>s, Elements DEF RenamedTypes
<1>1. CASE t.tag \in Literals \cup Unmovable \cup {"Variable"}
  BY <1>0, <1>1, IfPlain DEF u
<1>2. CASE t.tag = "Application"
  <2>1. u = Application(g[t.function], [k \in DOMAIN t.arguments |-> g[t.arguments[k]]])
    BY <1>2, IfApplication DEF u
  <2>2. u.function = g[t.function] /\ u.arguments = [k \in DOMAIN t.arguments |-> g[t.arguments[k]]]
    BY <2>1 DEF Application
  <2>3. Renamed(u, f) = Application(f[u.function], [k \in DOMAIN u.arguments |-> f[u.arguments[k]]])
    BY <1>0, <1>2, IfApplication
  <2>4. \A k \in DOMAIN t.arguments : t.arguments[k] \in S
    BY <1>2, IfApplication, Elements
  <2>5. [k \in DOMAIN u.arguments |-> f[u.arguments[k]]] = [k \in DOMAIN t.arguments |-> h[t.arguments[k]]]
    BY <2>2, <2>4
  <2>6. f[u.function] = h[t.function]
    BY <1>2, <2>2, IfApplication
  <2>7. Renamed(t, h) = Application(h[t.function], [k \in DOMAIN t.arguments |-> h[t.arguments[k]]])
    BY <1>2, IfApplication
  <2>8. QED
    BY <2>3, <2>5, <2>6, <2>7 DEF u
<1>3. CASE t.tag = "UnitLikeValue"
  <2>1. u = UnitLikeValue(g[t.type])
    BY <1>3, IfUnitLikeValue DEF u
  <2>2. u.type = g[t.type]
    BY <2>1 DEF UnitLikeValue
  <2>3. Renamed(u, f) = UnitLikeValue(f[u.type])
    BY <1>0, <1>3, IfUnitLikeValue
  <2>4. QED
    BY <1>3, <2>2, <2>3, IfUnitLikeValue DEF u
<1>4. CASE t.tag = "DeferredValue"
  <2>1. u = DeferredValue(g[t.type], t.availability)
    BY <1>4, IfDeferredValue DEF u
  <2>2. u.type = g[t.type] /\ u.availability = t.availability
    BY <2>1 DEF DeferredValue
  <2>3. Renamed(u, f) = DeferredValue(f[u.type], u.availability)
    BY <1>0, <1>4, IfDeferredValue
  <2>4. QED
    BY <1>4, <2>2, <2>3, IfDeferredValue DEF u
<1>5. CASE t.tag = "LetIns"
  <2>1. u = LetIns(RenamedBinders(t.bound, g), g[t.body])
    BY <1>5, IfLetIns DEF u
  <2>2. u.bound = RenamedBinders(t.bound, g) /\ u.body = g[t.body]
    BY <2>1 DEF LetIns
  <2>3. Renamed(u, f) = LetIns(RenamedBinders(u.bound, f), f[u.body])
    BY <1>0, <1>5, IfLetIns
  <2>4. QED
    BY <1>5, <1>b, <2>2, <2>3, IfLetIns DEF u
<1>6. CASE t.tag = "Abstraction"
  <2>1. u = Abstraction(RenamedBinders(t.bound, g), RenamedBinders(t.parameters, g), g[t.body])
    BY <1>6, IfAbstraction DEF u
  <2>2. u.bound = RenamedBinders(t.bound, g) /\ u.parameters = RenamedBinders(t.parameters, g) /\ u.body = g[t.body]
    BY <2>1 DEF Abstraction
  <2>3. Renamed(u, f) = Abstraction(RenamedBinders(u.bound, f), RenamedBinders(u.parameters, f), f[u.body])
    BY <1>0, <1>6, IfAbstraction
  <2>4. QED
    BY <1>6, <1>b, <2>2, <2>3, IfAbstraction DEF u
<1>7. CASE t.tag = "FunctionType"
  <2>1. u = FunctionType(RenamedSet(t.forall, g), RenamedTypes(t.parameter_types, g), g[t.return_type])
    BY <1>7, IfFunctionType DEF u
  <2>2. u.forall = RenamedSet(t.forall, g) /\ u.parameter_types = RenamedTypes(t.parameter_types, g) /\ u.return_type = g[t.return_type]
    BY <2>1 DEF FunctionType
  <2>3. Renamed(u, f) = FunctionType(RenamedSet(u.forall, f), RenamedTypes(u.parameter_types, f), f[u.return_type])
    BY <1>0, <1>7, IfFunctionType
  <2>4. QED
    BY <1>7, <1>s, <1>t, <2>2, <2>3, IfFunctionType DEF u
<1>8. CASE t.tag = "ProductType"
  <2>1. u = ProductType(RenamedMembers(t.members, g))
    BY <1>8, IfProductType DEF u
  <2>2. u.members = RenamedMembers(t.members, g)
    BY <2>1 DEF ProductType
  <2>3. Renamed(u, f) = ProductType(RenamedMembers(u.members, f))
    BY <1>0, <1>8, IfProductType
  <2>4. QED
    BY <1>8, <1>m, <2>2, <2>3, IfProductType DEF u
<1>9. CASE t.tag = "ProductValue"
  <2>1. u = ProductValue(g[t.type], RenamedMembers(t.members, g))
    BY <1>9, IfProductValue DEF u
  <2>2. u.type = g[t.type] /\ u.members = RenamedMembers(t.members, g)
    BY <2>1 DEF ProductValue
  <2>3. Renamed(u, f) = ProductValue(f[u.type], RenamedMembers(u.members, f))
    BY <1>0, <1>9, IfProductValue
  <2>4. QED
    BY <1>9, <1>m, <2>2, <2>3, IfProductValue DEF u
<1>10. QED
  BY <1>1, <1>2, <1>3, <1>4, <1>5, <1>6, <1>7, <1>8, <1>9, TermTag DEF Tags, Products


\* What is compared of the three kinds of which not everything is.
MemberSet(ms) == {ms[k] : k \in DOMAIN ms}
LEMMA ComparedShape ==
  /\ \A ms : Compared(ProductType(ms)) = [tag |-> "ProductType", members |-> MemberSet(ms)]
  /\ \A x, ms : Compared(ProductValue(x, ms)) = [tag |-> "ProductValue", type |-> x, members |-> MemberSet(ms)]
  /\ \A fs, ps, r : Compared(FunctionType(fs, ps, r)) = FunctionType({}, ps, r)
  /\ \A t : t.tag \notin Products \cup {"FunctionType"} => Compared(t) = t
<1>1. \A ms : Compared(ProductType(ms)) = [tag |-> "ProductType", members |-> MemberSet(ms)]
  BY DEF Compared, ProductType, Products, MemberSet
<1>2. \A x, ms : Compared(ProductValue(x, ms)) =
                   [tag |-> "ProductValue", type |-> x, members |-> MemberSet(ms)]
  BY DEF Compared, ProductValue, Products, MemberSet
<1>3. \A fs, ps, r : Compared(FunctionType(fs, ps, r)) = FunctionType({}, ps, r)
  BY DEF Compared, FunctionType, Products
<1>4. \A t : t.tag \notin Products \cup {"FunctionType"} => Compared(t) = t
  BY DEF Compared
<1>5. QED
  BY <1>1, <1>2, <1>3, <1>4

\* Terms that are equal for the store stay so when what they refer to is renamed.
LEMMA ComparedRenamed ==
  ASSUME NEW S, NEW t \in TermOver(S), NEW u \in TermOver(S), NEW f,
         t.tag = u.tag, Compared(t) = Compared(u)
  PROVE  Compared(Renamed(t, f)) = Compared(Renamed(u, f))
<1>1. CASE t.tag \notin Products \cup {"FunctionType"}
  BY <1>1, ComparedShape
<1>2. CASE t.tag = "FunctionType"
  <2>1. FunctionType({}, t.parameter_types, t.return_type) = FunctionType({}, u.parameter_types, u.return_type)
    <3>1. /\ t = FunctionType(t.forall, t.parameter_types, t.return_type)
          /\ u = FunctionType(u.forall, u.parameter_types, u.return_type)
      BY <1>2, IfFunctionType
    <3>2. /\ Compared(t) = FunctionType({}, t.parameter_types, t.return_type)
          /\ Compared(u) = FunctionType({}, u.parameter_types, u.return_type)
      BY <3>1, ComparedShape
    <3>3. QED
      BY <3>2
  <2>2. t.parameter_types = u.parameter_types /\ t.return_type = u.return_type
    BY <2>1 DEF FunctionType
  <2>3. /\ Renamed(t, f) = FunctionType(RenamedSet(t.forall, f), RenamedTypes(t.parameter_types, f), f[t.return_type])
        /\ Renamed(u, f) = FunctionType(RenamedSet(u.forall, f), RenamedTypes(u.parameter_types, f), f[u.return_type])
    BY <1>2, IfFunctionType
  <2>4. QED
    BY <2>2, <2>3, ComparedShape
<1>m. ASSUME NEW ms, NEW ns, MemberSet(ms) = MemberSet(ns)
      PROVE  MemberSet(RenamedMembers(ms, f)) \subseteq MemberSet(RenamedMembers(ns, f))
  <2>1. SUFFICES ASSUME NEW x \in MemberSet(RenamedMembers(ms, f))
                 PROVE  x \in MemberSet(RenamedMembers(ns, f))
    OBVIOUS
  <2>2. PICK k \in DOMAIN ms : x = [name |-> ms[k].name, value |-> f[ms[k].value]]
    BY <2>1 DEF RenamedMembers, MemberSet
  <2>3. PICK j \in DOMAIN ns : ms[k] = ns[j]
    BY <1>m DEF MemberSet
  <2>4. QED
    BY <2>2, <2>3 DEF RenamedMembers, MemberSet
<1>3. CASE t.tag = "ProductType"
  <2>1. MemberSet(t.members) = MemberSet(u.members)
    <3>1. t = ProductType(t.members) /\ u = ProductType(u.members)
      BY <1>3, IfProductType
    <3>2. Compared(t).members = MemberSet(t.members) /\ Compared(u).members = MemberSet(u.members)
      BY <3>1, ComparedShape
    <3>3. QED
      BY <3>2
  <2>2. MemberSet(RenamedMembers(t.members, f)) = MemberSet(RenamedMembers(u.members, f))
    <3>1. /\ MemberSet(RenamedMembers(t.members, f)) \subseteq MemberSet(RenamedMembers(u.members, f))
          /\ MemberSet(RenamedMembers(u.members, f)) \subseteq MemberSet(RenamedMembers(t.members, f))
      BY <2>1, <1>m
    <3>2. QED
      BY <3>1
  <2>3. /\ Renamed(t, f) = ProductType(RenamedMembers(t.members, f))
        /\ Renamed(u, f) = ProductType(RenamedMembers(u.members, f))
    BY <1>3, IfProductType
  <2>4. QED
    BY <2>2, <2>3, ComparedShape
<1>4. CASE t.tag = "ProductValue"
  <2>1. MemberSet(t.members) = MemberSet(u.members) /\ t.type = u.type
    <3>1. t = ProductValue(t.type, t.members) /\ u = ProductValue(u.type, u.members)
      BY <1>4, IfProductValue
    <3>2. /\ Compared(t).members = MemberSet(t.members) /\ Compared(u).members = MemberSet(u.members)
          /\ Compared(t).type = t.type /\ Compared(u).type = u.type
      BY <3>1, ComparedShape
    <3>3. QED
      BY <3>2
  <2>2. MemberSet(RenamedMembers(t.members, f)) = MemberSet(RenamedMembers(u.members, f))
    <3>1. /\ MemberSet(RenamedMembers(t.members, f)) \subseteq MemberSet(RenamedMembers(u.members, f))
          /\ MemberSet(RenamedMembers(u.members, f)) \subseteq MemberSet(RenamedMembers(t.members, f))
      BY <2>1, <1>m
    <3>2. QED
      BY <3>1
  <2>3. /\ Renamed(t, f) = ProductValue(f[t.type], RenamedMembers(t.members, f))
        /\ Renamed(u, f) = ProductValue(f[u.type], RenamedMembers(u.members, f))
    BY <1>4, IfProductValue
  <2>4. QED
    BY <2>1, <2>2, <2>3, ComparedShape
<1>5. QED
  BY <1>1, <1>2, <1>3, <1>4 DEF Products

\* A term is itself when nothing it refers to gets another name.
LEMMA RenamedId ==
  ASSUME NEW S, NEW t \in TermOver(S), NEW f, \A x \in S : f[x] = x
  PROVE  Renamed(t, f) = t
<1>b. \A bs \in BindersOver(S) : RenamedBinders(bs, f) = bs
  <2>1. ASSUME NEW bs \in BindersOver(S) PROVE RenamedBinders(bs, f) = bs
    <3>1. \A k \in DOMAIN bs : bs[k] = [variable |-> f[bs[k].variable], value |-> f[bs[k].value]]
      BY Elements
    <3>2. bs = [k \in DOMAIN bs |-> bs[k]]
      BY DEF BindersOver
    <3>3. QED
      BY <3>1, <3>2 DEF RenamedBinders
  <2>2. QED
    BY <2>1
<1>m. \A ms \in MembersOver(S) : RenamedMembers(ms, f) = ms
  <2>1. ASSUME NEW ms \in MembersOver(S) PROVE RenamedMembers(ms, f) = ms
    <3>1. \A k \in DOMAIN ms : ms[k] = [name |-> ms[k].name, value |-> f[ms[k].value]]
      BY Elements
    <3>2. ms = [k \in DOMAIN ms |-> ms[k]]
      BY DEF MembersOver
    <3>3. QED
      BY <3>1, <3>2 DEF RenamedMembers
  <2>2. QED
    BY <2>1
<1>s. \A X \in SUBSET S : RenamedSet(X, f) = X
  BY DEF RenamedSet
<1>t. \A ps \in TypesOver(S) : RenamedTypes(ps, f) = ps
  <2>1. ASSUME NEW ps \in TypesOver(S) PROVE RenamedTypes(ps, f) = ps
    <3>1. \A k \in DOMAIN ps : ps[k] = [type |-> f[ps[k].type], comptime |-> RenamedSet(ps[k].comptime, f)]
      BY <1>s, Elements
    <3>2. ps = [k \in DOMAIN ps |-> ps[k]]
      BY DEF TypesOver
    <3>3. QED
      BY <3>1, <3>2 DEF RenamedTypes
  <2>2. QED
    BY <2>1
<1>1. CASE t.tag \in Literals \cup Unmovable \cup {"Variable"}
  BY <1>1, IfPlain
<1>2. CASE t.tag = "Application"
  <2>1. t.function \in S /\ t.arguments \in Seq(S)
    BY <1>2, IfApplication
  <2>2. [k \in DOMAIN t.arguments |-> f[t.arguments[k]]] = t.arguments
    BY <2>1, Elements
  <2>3. QED
    BY <1>2, <2>1, <2>2, IfApplication
<1>3. CASE t.tag = "UnitLikeValue"
  BY <1>3, IfUnitLikeValue
<1>4. CASE t.tag = "DeferredValue"
  BY <1>4, IfDeferredValue
<1>5. CASE t.tag = "LetIns"
  BY <1>b, <1>5, IfLetIns
<1>6. CASE t.tag = "Abstraction"
  BY <1>b, <1>6, IfAbstraction
<1>7. CASE t.tag = "FunctionType"
  BY <1>s, <1>t, <1>7, IfFunctionType
<1>8. CASE t.tag = "ProductType"
  BY <1>m, <1>8, IfProductType
<1>9. CASE t.tag = "ProductValue"
  BY <1>m, <1>9, IfProductValue
<1>10. QED
  BY <1>1, <1>2, <1>3, <1>4, <1>5, <1>6, <1>7, <1>8, <1>9, TermTag DEF Tags, Products

\* A term is compared with terms of its own kind.
LEMMA ComparedTag ==
  ASSUME NEW S, NEW t \in TermOver(S)
  PROVE  Compared(t).tag = t.tag
<1>1. CASE t.tag \notin Products \cup {"FunctionType"}
  BY <1>1, ComparedShape
<1>2. CASE t.tag = "FunctionType"
  <2>1. t = FunctionType(t.forall, t.parameter_types, t.return_type)
    BY <1>2, IfFunctionType
  <2>2. Compared(t) = FunctionType({}, t.parameter_types, t.return_type)
    BY <2>1, ComparedShape
  <2>3. QED
    BY <1>2, <2>2 DEF FunctionType
<1>3. CASE t.tag = "ProductType"
  <2>1. t = ProductType(t.members)
    BY <1>3, IfProductType
  <2>2. Compared(t) = [tag |-> "ProductType", members |-> MemberSet(t.members)]
    BY <2>1, ComparedShape
  <2>3. QED
    BY <1>3, <2>2
<1>4. CASE t.tag = "ProductValue"
  <2>1. t = ProductValue(t.type, t.members)
    BY <1>4, IfProductValue
  <2>2. Compared(t) = [tag |-> "ProductValue", type |-> t.type, members |-> MemberSet(t.members)]
    BY <2>1, ComparedShape
  <2>3. QED
    BY <1>4, <2>2
<1>5. QED
  BY <1>1, <1>2, <1>3, <1>4 DEF Products

\* A map of at most one entry is told from its set of entries.
LEMMA SmallMap ==
  ASSUME NEW S, NEW R, NEW f, \A x \in S, y \in R : f[x] = f[y] => x = y,
         NEW ms \in MembersOver(S), NEW ns \in MembersOver(R), ~(Len(ms) > 1),
         MemberSet(RenamedMembers(ms, f)) = MemberSet(RenamedMembers(ns, f))
  PROVE  ms = ns
<1>1. /\ ms \in Seq([name : STRING, value : S]) /\ ns \in Seq([name : STRING, value : R])
      /\ \A j, k \in DOMAIN ns : ns[j].name = ns[k].name => j = k
  BY DEF MembersOver
<1>2. /\ Len(ms) \in Nat /\ DOMAIN ms = 1..Len(ms)
      /\ Len(ns) \in Nat /\ DOMAIN ns = 1..Len(ns)
  BY <1>1, LenProperties
<1>3. \A k \in DOMAIN ms : \E j \in DOMAIN ns : ms[k].name = ns[j].name /\ f[ms[k].value] = f[ns[j].value]
  <2>1. TAKE k \in DOMAIN ms
  <2>2. [name |-> ms[k].name, value |-> f[ms[k].value]] \in MemberSet(RenamedMembers(ns, f))
    BY DEF MemberSet, RenamedMembers
  <2>3. PICK j \in DOMAIN ns : [name |-> ms[k].name, value |-> f[ms[k].value]]
                                 = [name |-> ns[j].name, value |-> f[ns[j].value]]
    BY <2>2 DEF MemberSet, RenamedMembers
  <2>4. QED
    BY <2>3
<1>4. \A j \in DOMAIN ns : \E k \in DOMAIN ms : ms[k].name = ns[j].name /\ f[ms[k].value] = f[ns[j].value]
  <2>1. TAKE j \in DOMAIN ns
  <2>2. [name |-> ns[j].name, value |-> f[ns[j].value]] \in MemberSet(RenamedMembers(ms, f))
    BY DEF MemberSet, RenamedMembers
  <2>3. PICK k \in DOMAIN ms : [name |-> ms[k].name, value |-> f[ms[k].value]]
                                 = [name |-> ns[j].name, value |-> f[ns[j].value]]
    BY <2>2 DEF MemberSet, RenamedMembers
  <2>4. QED
    BY <2>3
<1>5. CASE Len(ms) = 0
  <2>1. \A j \in DOMAIN ns : FALSE
    BY <1>2, <1>4, <1>5
  <2>2. Len(ns) = 0
    BY <1>2, <2>1
  <2>3. QED
    BY <1>1, <1>5, <2>2, EmptySeq
<1>6. CASE Len(ms) = 1
  <2>1. DOMAIN ms = {1}
    BY <1>2, <1>6
  <2>2. PICK j \in DOMAIN ns : ms[1].name = ns[j].name /\ f[ms[1].value] = f[ns[j].value]
    BY <1>3, <2>1
  <2>3. \A i \in DOMAIN ns : i = j
    BY <1>1, <1>4, <2>1, <2>2
  <2>4. Len(ns) = 1 /\ j = 1
    <3>1. 1 \in DOMAIN ns /\ Len(ns) \in DOMAIN ns
      BY <1>2
    <3>2. QED
      BY <2>3, <3>1
  <2>5. ms[1] = ns[1]
    <3>1. /\ ms[1].value \in S /\ ns[1].value \in R
          /\ ms[1] = [name |-> ms[1].name, value |-> ms[1].value]
          /\ ns[1] = [name |-> ns[1].name, value |-> ns[1].value]
      BY <2>1, <2>2, <2>4, Elements
    <3>2. ms[1].value = ns[1].value /\ ms[1].name = ns[1].name
      BY <2>2, <2>4, <3>1
    <3>3. QED
      BY <3>1, <3>2
  <2>6. ms = [k \in {1} |-> ms[k]] /\ ns = [k \in {1} |-> ns[k]]
    <3>1. ms = [k \in DOMAIN ms |-> ms[k]] /\ ns = [k \in DOMAIN ns |-> ns[k]]
      BY <1>1
    <3>2. DOMAIN ns = {1}
      BY <1>2, <2>4
    <3>3. QED
      BY <2>1, <3>1, <3>2
  <2>7. QED
    BY <2>5, <2>6
<1>7. QED
  <2>1. \A n \in Nat : ~(n > 1) => n = 0 \/ n = 1
    OBVIOUS
  <2>2. QED
    BY <1>2, <1>5, <1>6, <2>1

\* Terms that cannot be told apart after a renaming that keeps what they refer to apart
\* are the same.
LEMMA RenamedApart ==
  ASSUME NEW S, NEW R, NEW t \in TermOver(S), NEW u \in TermOver(R), NEW f,
         \A x \in S, y \in R : f[x] = f[y] => x = y,
         Compared(Renamed(t, f)) = Compared(Renamed(u, f)),
         t.tag \in Products => ~(Len(t.members) > 1),
         t.tag = "FunctionType" => t.forall = {},
         u.tag = "FunctionType" => u.forall = {}
  PROVE  t = u
<1>0. t.tag = u.tag
  <2>1. Renamed(t, f) \in TermOver({f[x] : x \in S}) /\ Renamed(u, f) \in TermOver({f[x] : x \in R})
    <3>1. (\A x \in S : f[x] \in {f[z] : z \in S}) /\ (\A x \in R : f[x] \in {f[z] : z \in R})
      OBVIOUS
    <3>2. QED
      BY <3>1, RenamedType
  <2>2. QED
    BY <2>1, ComparedTag, KeepsTag
<1>e. ASSUME NEW s, NEW r, s \in Seq(S), r \in Seq(R),
             [k \in DOMAIN s |-> f[s[k]]] = [k \in DOMAIN r |-> f[r[k]]]
      PROVE  s = r
  <2>1. DOMAIN s = DOMAIN r /\ \A k \in DOMAIN s : f[s[k]] = f[r[k]]
    BY <1>e
  <2>2. \A k \in DOMAIN s : s[k] = r[k]
    BY <1>e, <2>1, Elements
  <2>3. s = [k \in DOMAIN s |-> s[k]] /\ r = [k \in DOMAIN r |-> r[k]]
    BY <1>e
  <2>4. QED
    BY <2>1, <2>2, <2>3
<1>b. ASSUME NEW s \in BindersOver(S), NEW r \in BindersOver(R), RenamedBinders(s, f) = RenamedBinders(r, f)
      PROVE  s = r
  <2>1. DOMAIN s = DOMAIN r
    BY <1>b DEF RenamedBinders
  <2>2. \A k \in DOMAIN s : s[k] = r[k]
    <3>1. TAKE k \in DOMAIN s
    <3>2. RenamedBinders(s, f)[k] = RenamedBinders(r, f)[k]
      BY <1>b
    <3>3. f[s[k].variable] = f[r[k].variable] /\ f[s[k].value] = f[r[k].value]
      BY <2>1, <3>2 DEF RenamedBinders
    <3>4. s[k].variable = r[k].variable /\ s[k].value = r[k].value
      BY <2>1, <3>3, Elements
    <3>5. s[k] = [variable |-> s[k].variable, value |-> s[k].value] /\ r[k] = [variable |-> r[k].variable, value |-> r[k].value]
      BY <2>1, Elements
    <3>6. QED
      BY <3>4, <3>5
  <2>3. s = [k \in DOMAIN s |-> s[k]] /\ r = [k \in DOMAIN r |-> r[k]]
    BY DEF BindersOver
  <2>4. QED
    BY <2>1, <2>2, <2>3
<1>s. ASSUME NEW X \in SUBSET S, NEW Y \in SUBSET R, RenamedSet(X, f) = RenamedSet(Y, f)
      PROVE  X = Y
  <2>1. \A x \in X : \E y \in Y : f[x] = f[y]
    <3>1. TAKE x \in X
    <3>2. f[x] \in RenamedSet(Y, f)
      BY <1>s DEF RenamedSet
    <3>3. QED
      BY <3>2 DEF RenamedSet
  <2>2. \A y \in Y : \E x \in X : f[x] = f[y]
    <3>1. TAKE y \in Y
    <3>2. f[y] \in RenamedSet(X, f)
      BY <1>s DEF RenamedSet
    <3>3. QED
      BY <3>2 DEF RenamedSet
  <2>3. QED
    BY <2>1, <2>2
<1>t. ASSUME NEW s \in TypesOver(S), NEW r \in TypesOver(R), RenamedTypes(s, f) = RenamedTypes(r, f)
      PROVE  s = r
  <2>1. DOMAIN s = DOMAIN r
    BY <1>t DEF RenamedTypes
  <2>2. \A k \in DOMAIN s : s[k] = r[k]
    <3>1. TAKE k \in DOMAIN s
    <3>2. RenamedTypes(s, f)[k] = RenamedTypes(r, f)[k]
      BY <1>t
    <3>3. f[s[k].type] = f[r[k].type] /\ RenamedSet(s[k].comptime, f) = RenamedSet(r[k].comptime, f)
      BY <2>1, <3>2 DEF RenamedTypes
    <3>4. s[k].type = r[k].type /\ s[k].comptime = r[k].comptime
      BY <1>s, <2>1, <3>3, Elements
    <3>5. s[k] = [type |-> s[k].type, comptime |-> s[k].comptime] /\ r[k] = [type |-> r[k].type, comptime |-> r[k].comptime]
      BY <2>1, Elements
    <3>6. QED
      BY <3>4, <3>5
  <2>3. s = [k \in DOMAIN s |-> s[k]] /\ r = [k \in DOMAIN r |-> r[k]]
    BY DEF TypesOver
  <2>4. QED
    BY <2>1, <2>2, <2>3
<1>1. CASE t.tag \in Literals \cup Unmovable \cup {"Variable"}
  <2>1. Renamed(t, f) = t /\ Renamed(u, f) = u
    BY <1>0, <1>1, IfPlain
  <2>2. Compared(t) = t /\ Compared(u) = u
    BY <1>0, <1>1, ComparedShape DEF Literals, Unmovable, Products
  <2>3. QED
    BY <2>1, <2>2
<1>p. ASSUME t.tag \notin Products \cup {"FunctionType"}
      PROVE  Renamed(t, f) = Renamed(u, f)
  <2>1. Renamed(t, f).tag = t.tag /\ Renamed(u, f).tag = u.tag
    BY KeepsTag
  <2>2. Compared(Renamed(t, f)) = Renamed(t, f) /\ Compared(Renamed(u, f)) = Renamed(u, f)
    BY <1>0, <1>p, <2>1, ComparedShape
  <2>3. QED
    BY <2>2
<1>2. CASE t.tag = "Application"
  <2>1. u.tag = "Application"
    BY <1>0, <1>2
  <2>2. /\ t = Application(t.function, t.arguments)
        /\ t.function \in S /\ t.arguments \in Seq(S)
        /\ Renamed(t, f) = Application(f[t.function], [k \in DOMAIN t.arguments |-> f[t.arguments[k]]])
    BY <1>2, IfApplication
  <2>3. /\ u = Application(u.function, u.arguments)
        /\ u.function \in R /\ u.arguments \in Seq(R)
        /\ Renamed(u, f) = Application(f[u.function], [k \in DOMAIN u.arguments |-> f[u.arguments[k]]])
    BY <2>1, IfApplication
  <2>4. Application(f[t.function], [k \in DOMAIN t.arguments |-> f[t.arguments[k]]])
          = Application(f[u.function], [k \in DOMAIN u.arguments |-> f[u.arguments[k]]])
    BY <1>p, <1>2, <2>2, <2>3 DEF Products
  <2>5. /\ f[t.function] = f[u.function]
        /\ [k \in DOMAIN t.arguments |-> f[t.arguments[k]]] = [k \in DOMAIN u.arguments |-> f[u.arguments[k]]]
    BY <2>4 DEF Application
  <2>6. t.function = u.function /\ t.arguments = u.arguments
    BY <1>e, <2>2, <2>3, <2>5
  <2>7. QED
    BY <2>2, <2>3, <2>6
<1>3. CASE t.tag = "UnitLikeValue"
  <2>1. u.tag = "UnitLikeValue"
    BY <1>0, <1>3
  <2>2. /\ t = UnitLikeValue(t.type)
        /\ t.type \in S
        /\ Renamed(t, f) = UnitLikeValue(f[t.type])
    BY <1>3, IfUnitLikeValue
  <2>3. /\ u = UnitLikeValue(u.type)
        /\ u.type \in R
        /\ Renamed(u, f) = UnitLikeValue(f[u.type])
    BY <2>1, IfUnitLikeValue
  <2>4. UnitLikeValue(f[t.type])
          = UnitLikeValue(f[u.type])
    BY <1>p, <1>3, <2>2, <2>3 DEF Products
  <2>5. f[t.type] = f[u.type]
    BY <2>4 DEF UnitLikeValue
  <2>6. t.type = u.type
    BY <2>2, <2>3, <2>5
  <2>7. QED
    BY <2>2, <2>3, <2>6
<1>4. CASE t.tag = "DeferredValue"
  <2>1. u.tag = "DeferredValue"
    BY <1>0, <1>4
  <2>2. /\ t = DeferredValue(t.type, t.availability)
        /\ t.type \in S
        /\ Renamed(t, f) = DeferredValue(f[t.type], t.availability)
    BY <1>4, IfDeferredValue
  <2>3. /\ u = DeferredValue(u.type, u.availability)
        /\ u.type \in R
        /\ Renamed(u, f) = DeferredValue(f[u.type], u.availability)
    BY <2>1, IfDeferredValue
  <2>4. DeferredValue(f[t.type], t.availability)
          = DeferredValue(f[u.type], u.availability)
    BY <1>p, <1>4, <2>2, <2>3 DEF Products
  <2>5. f[t.type] = f[u.type] /\ t.availability = u.availability
    BY <2>4 DEF DeferredValue
  <2>6. t.type = u.type /\ t.availability = u.availability
    BY <2>2, <2>3, <2>5
  <2>7. QED
    BY <2>2, <2>3, <2>6
<1>5. CASE t.tag = "LetIns"
  <2>1. u.tag = "LetIns"
    BY <1>0, <1>5
  <2>2. /\ t = LetIns(t.bound, t.body)
        /\ t.bound \in BindersOver(S) /\ t.body \in S
        /\ Renamed(t, f) = LetIns(RenamedBinders(t.bound, f), f[t.body])
    BY <1>5, IfLetIns
  <2>3. /\ u = LetIns(u.bound, u.body)
        /\ u.bound \in BindersOver(R) /\ u.body \in R
        /\ Renamed(u, f) = LetIns(RenamedBinders(u.bound, f), f[u.body])
    BY <2>1, IfLetIns
  <2>4. LetIns(RenamedBinders(t.bound, f), f[t.body])
          = LetIns(RenamedBinders(u.bound, f), f[u.body])
    BY <1>p, <1>5, <2>2, <2>3 DEF Products
  <2>5. RenamedBinders(t.bound, f) = RenamedBinders(u.bound, f) /\ f[t.body] = f[u.body]
    BY <2>4 DEF LetIns
  <2>6. t.bound = u.bound /\ t.body = u.body
    BY <1>b, <2>2, <2>3, <2>5
  <2>7. QED
    BY <2>2, <2>3, <2>6
<1>6. CASE t.tag = "Abstraction"
  <2>1. u.tag = "Abstraction"
    BY <1>0, <1>6
  <2>2. /\ t = Abstraction(t.bound, t.parameters, t.body)
        /\ t.bound \in BindersOver(S) /\ t.parameters \in BindersOver(S) /\ t.body \in S
        /\ Renamed(t, f) = Abstraction(RenamedBinders(t.bound, f), RenamedBinders(t.parameters, f), f[t.body])
    BY <1>6, IfAbstraction
  <2>3. /\ u = Abstraction(u.bound, u.parameters, u.body)
        /\ u.bound \in BindersOver(R) /\ u.parameters \in BindersOver(R) /\ u.body \in R
        /\ Renamed(u, f) = Abstraction(RenamedBinders(u.bound, f), RenamedBinders(u.parameters, f), f[u.body])
    BY <2>1, IfAbstraction
  <2>4. Abstraction(RenamedBinders(t.bound, f), RenamedBinders(t.parameters, f), f[t.body])
          = Abstraction(RenamedBinders(u.bound, f), RenamedBinders(u.parameters, f), f[u.body])
    BY <1>p, <1>6, <2>2, <2>3 DEF Products
  <2>5. /\ RenamedBinders(t.bound, f) = RenamedBinders(u.bound, f)
        /\ RenamedBinders(t.parameters, f) = RenamedBinders(u.parameters, f)
        /\ f[t.body] = f[u.body]
    BY <2>4 DEF Abstraction
  <2>6. t.bound = u.bound /\ t.parameters = u.parameters /\ t.body = u.body
    BY <1>b, <2>2, <2>3, <2>5
  <2>7. QED
    BY <2>2, <2>3, <2>6
<1>7. CASE t.tag = "FunctionType"
  <2>1. u.tag = "FunctionType"
    BY <1>0, <1>7
  <2>2. /\ t = FunctionType(t.forall, t.parameter_types, t.return_type)
        /\ t.parameter_types \in TypesOver(S) /\ t.return_type \in S
        /\ Renamed(t, f) = FunctionType(RenamedSet(t.forall, f), RenamedTypes(t.parameter_types, f), f[t.return_type])
    BY <1>7, IfFunctionType
  <2>3. /\ u = FunctionType(u.forall, u.parameter_types, u.return_type)
        /\ u.parameter_types \in TypesOver(R) /\ u.return_type \in R
        /\ Renamed(u, f) = FunctionType(RenamedSet(u.forall, f), RenamedTypes(u.parameter_types, f), f[u.return_type])
    BY <2>1, IfFunctionType
  <2>4. FunctionType({}, RenamedTypes(t.parameter_types, f), f[t.return_type])
          = FunctionType({}, RenamedTypes(u.parameter_types, f), f[u.return_type])
    BY <2>2, <2>3, ComparedShape
  <2>5. /\ RenamedTypes(t.parameter_types, f) = RenamedTypes(u.parameter_types, f)
        /\ f[t.return_type] = f[u.return_type]
    BY <2>4 DEF FunctionType
  <2>6. t.parameter_types = u.parameter_types /\ t.return_type = u.return_type
    BY <1>t, <2>2, <2>3, <2>5
  <2>7. t.forall = u.forall
    BY <1>7, <2>1
  <2>8. QED
    BY <2>2, <2>3, <2>6, <2>7
<1>8. CASE t.tag = "ProductType"
  <2>1. u.tag = "ProductType"
    BY <1>0, <1>8
  <2>2. /\ t = ProductType(t.members)
        /\ t.members \in MembersOver(S)
        /\ Renamed(t, f) = ProductType(RenamedMembers(t.members, f))
    BY <1>8, IfProductType
  <2>3. /\ u = ProductType(u.members)
        /\ u.members \in MembersOver(R)
        /\ Renamed(u, f) = ProductType(RenamedMembers(u.members, f))
    BY <2>1, IfProductType
  <2>4. /\ Compared(Renamed(t, f)).members = MemberSet(RenamedMembers(t.members, f))
        /\ Compared(Renamed(u, f)).members = MemberSet(RenamedMembers(u.members, f))
    BY <2>2, <2>3, ComparedShape
  <2>5. MemberSet(RenamedMembers(t.members, f)) = MemberSet(RenamedMembers(u.members, f))
    BY <2>4
  <2>6. ~(Len(t.members) > 1)
    BY <1>8 DEF Products
  <2>7. t.members = u.members
    BY <2>2, <2>3, <2>5, <2>6, SmallMap
  <2>8. QED
    BY <2>2, <2>3, <2>7
<1>9. CASE t.tag = "ProductValue"
  <2>1. u.tag = "ProductValue"
    BY <1>0, <1>9
  <2>2. /\ t = ProductValue(t.type, t.members)
        /\ t.type \in S /\ t.members \in MembersOver(S)
        /\ Renamed(t, f) = ProductValue(f[t.type], RenamedMembers(t.members, f))
    BY <1>9, IfProductValue
  <2>3. /\ u = ProductValue(u.type, u.members)
        /\ u.type \in R /\ u.members \in MembersOver(R)
        /\ Renamed(u, f) = ProductValue(f[u.type], RenamedMembers(u.members, f))
    BY <2>1, IfProductValue
  <2>4. /\ Compared(Renamed(t, f)).members = MemberSet(RenamedMembers(t.members, f)) /\ Compared(Renamed(t, f)).type = f[t.type]
        /\ Compared(Renamed(u, f)).members = MemberSet(RenamedMembers(u.members, f)) /\ Compared(Renamed(u, f)).type = f[u.type]
    BY <2>2, <2>3, ComparedShape
  <2>5. /\ MemberSet(RenamedMembers(t.members, f)) = MemberSet(RenamedMembers(u.members, f))
        /\ f[t.type] = f[u.type]
    BY <2>4
  <2>6. ~(Len(t.members) > 1)
    BY <1>9 DEF Products
  <2>7. t.type = u.type /\ t.members = u.members
    BY <2>2, <2>3, <2>5, <2>6, SmallMap
  <2>8. QED
    BY <2>2, <2>3, <2>7
<1>10. QED
  BY <1>1, <1>2, <1>3, <1>4, <1>5, <1>6, <1>7, <1>8, <1>9, TermTag DEF Tags, Products

-----------------------------------------------------------------------------
(* What GetFreeVariables computes.                                         *)

\* The loop over the bound variables in closed form, from the k-th on.
Remaining(bs, free, fvs, k) ==
  (fvs \ {bs[j].variable : j \in k..Len(bs)})
    \cup UNION {free[bs[i].value] \ {bs[j].variable : j \in k..(i - 1)} : i \in k..Len(bs)}

\* What is in it,
LEMMA RemainingElement ==
  ASSUME NEW bs, NEW free, NEW fvs, NEW k, NEW x
  PROVE  x \in Remaining(bs, free, fvs, k) <=>
           \/ x \in fvs /\ \A j \in k..Len(bs) : x # bs[j].variable
           \/ \E i \in k..Len(bs) : x \in free[bs[i].value] /\ \A j \in k..(i - 1) : x # bs[j].variable
BY DEF Remaining

\* and that it does what one round of the loop does.
LEMMA RemainingStep ==
  ASSUME NEW bs, NEW free, NEW fvs, Len(bs) \in Nat, NEW k \in 1..Len(bs)
  PROVE  Remaining(bs, free, fvs, k) =
           (Remaining(bs, free, fvs, k + 1) \ {bs[k].variable}) \cup free[bs[k].value]
<1> SUFFICES ASSUME NEW x
             PROVE  x \in Remaining(bs, free, fvs, k) <=>
                      x \in (Remaining(bs, free, fvs, k + 1) \ {bs[k].variable}) \cup free[bs[k].value]
  OBVIOUS
<1>1. \A m \in k..Len(bs) : m = k \/ m \in (k + 1)..Len(bs)
  OBVIOUS
<1>2. ASSUME x \in Remaining(bs, free, fvs, k), x \notin free[bs[k].value]
      PROVE  x \in Remaining(bs, free, fvs, k + 1) /\ x # bs[k].variable
  <2>1. CASE x \in fvs /\ \A j \in k..Len(bs) : x # bs[j].variable
    BY <2>1, RemainingElement
  <2>2. CASE \E i \in k..Len(bs) : x \in free[bs[i].value] /\ \A j \in k..(i - 1) : x # bs[j].variable
    <3>1. PICK i \in (k + 1)..Len(bs) : x \in free[bs[i].value] /\ \A j \in k..(i - 1) : x # bs[j].variable
      BY <1>1, <1>2, <2>2
    <3>2. k \in k..(i - 1) /\ \A j \in (k + 1)..(i - 1) : j \in k..(i - 1)
      OBVIOUS
    <3>3. QED
      BY <3>1, <3>2, RemainingElement
  <2>3. QED
    BY <1>2, <2>1, <2>2, RemainingElement
<1>3. ASSUME x \in free[bs[k].value] PROVE x \in Remaining(bs, free, fvs, k)
  <2>1. k \in k..Len(bs) /\ \A j \in k..(k - 1) : x # bs[j].variable
    OBVIOUS
  <2>2. QED
    BY <1>3, <2>1, RemainingElement
<1>4. ASSUME x \in Remaining(bs, free, fvs, k + 1), x # bs[k].variable
      PROVE  x \in Remaining(bs, free, fvs, k)
  <2>1. CASE x \in fvs /\ \A j \in (k + 1)..Len(bs) : x # bs[j].variable
    BY <1>1, <1>4, <2>1, RemainingElement
  <2>2. CASE \E i \in (k + 1)..Len(bs) :
               x \in free[bs[i].value] /\ \A j \in (k + 1)..(i - 1) : x # bs[j].variable
    <3>1. PICK i \in (k + 1)..Len(bs) :
                 x \in free[bs[i].value] /\ \A j \in (k + 1)..(i - 1) : x # bs[j].variable
      BY <2>2
    <3>2. \A j \in k..(i - 1) : j = k \/ j \in (k + 1)..(i - 1)
      OBVIOUS
    <3>3. i \in k..Len(bs) /\ \A j \in k..(i - 1) : x # bs[j].variable
      BY <1>4, <3>1, <3>2
    <3>4. QED
      BY <3>1, <3>3, RemainingElement
  <2>3. QED
    BY <1>4, <2>1, <2>2, RemainingElement
<1>5. QED
  BY <1>2, <1>3, <1>4

\* The loop computes it.
LEMMA BoundErasedIs ==
  ASSUME NEW S, NEW bs \in BindersOver(S), NEW free, NEW fvs
  PROVE  BoundErased(bs, free, fvs) = Remaining(bs, free, fvs, 1)
<1> DEFINE n == Len(bs)
           P(v) == v = [k \in 1..(n + 1) |->
                          IF k > n THEN fvs ELSE (v[k + 1] \ {bs[k].variable}) \cup free[bs[k].value]]
           closed == [k \in 1..(n + 1) |-> Remaining(bs, free, fvs, k)]
           v == CHOOSE w : P(w)
<1>1. n \in Nat
  BY LenProperties DEF BindersOver
<1> HIDE DEF n
<1>2. Remaining(bs, free, fvs, n + 1) = fvs
  BY <1>1 DEF Remaining, n
<1>3. P(closed)
  <2>1. ASSUME NEW k \in 1..(n + 1)
        PROVE  Remaining(bs, free, fvs, k) =
                 IF k > n THEN fvs ELSE (closed[k + 1] \ {bs[k].variable}) \cup free[bs[k].value]
    <3>1. CASE k > n
      BY <1>1, <1>2, <3>1
    <3>2. CASE ~(k > n)
      <4>1. k \in 1..n /\ k + 1 \in 1..(n + 1)
        BY <1>1, <3>2
      <4>2. QED
        BY <1>1, <3>2, <4>1, RemainingStep DEF n
    <3>3. QED
      BY <3>1, <3>2
  <2>2. QED
    BY <2>1
<1>4. P(v)
  <2> HIDE DEF P, closed
  <2>1. QED
    BY <1>3
<1>5. BoundErased(bs, free, fvs) = v[1]
  BY DEF BoundErased, n
<1> HIDE DEF v
<1>6. \A k \in 1..(n + 1) :
        v[k] = IF k > n THEN fvs ELSE (v[k + 1] \ {bs[k].variable}) \cup free[bs[k].value]
  BY <1>4
<1> DEFINE T == {d \in 1..(n + 1) : v[n + 2 - d] = Remaining(bs, free, fvs, n + 2 - d)}
<1>7. ASSUME NEW d \in 1..(n + 1), \A b \in 1..(d - 1) : b \in T PROVE d \in T
  <2>1. CASE d = 1
    <3>1. n + 2 - d = n + 1 /\ n + 1 \in 1..(n + 1) /\ n + 1 > n
      BY <1>1, <2>1
    <3>2. QED
      BY <1>2, <1>6, <3>1
  <2>2. CASE d # 1
    <3> DEFINE k == n + 2 - d
    <3>1. d - 1 \in 1..(d - 1) /\ n + 2 - (d - 1) = k + 1 /\ k \in 1..n /\ k \in 1..(n + 1) /\ ~(k > n)
      BY <1>1, <2>2
    <3>2. v[k + 1] = Remaining(bs, free, fvs, k + 1)
      BY <1>7, <3>1
    <3>3. v[k] = (v[k + 1] \ {bs[k].variable}) \cup free[bs[k].value]
      BY <1>6, <3>1
    <3>4. Remaining(bs, free, fvs, k) =
            (Remaining(bs, free, fvs, k + 1) \ {bs[k].variable}) \cup free[bs[k].value]
      <4>1. Len(bs) \in Nat /\ k \in 1..Len(bs)
        BY <1>1, <3>1 DEF n
      <4> HIDE DEF k
      <4>2. QED
        BY <4>1, RemainingStep
    <3>5. QED
      BY <3>2, <3>3, <3>4
  <2>3. QED
    BY <2>1, <2>2
<1>8. \A d \in 1..(n + 1) : d \in T
  <2>1. n + 1 \in Nat
    BY <1>1
  <2> HIDE DEF T
  <2>2. QED
    BY <1>7, <2>1, Upwards
<1>9. n + 1 \in 1..(n + 1) /\ n + 2 - (n + 1) = 1
  BY <1>1
<1>10. v[1] = Remaining(bs, free, fvs, 1)
  <2>1. v[n + 2 - (n + 1)] = Remaining(bs, free, fvs, n + 2 - (n + 1))
    BY <1>8, <1>9
  <2>2. QED
    BY <1>9, <2>1
<1>11. QED
  BY <1>5, <1>10

ContextOf(t, free) ==
  free[t.body] \ (Binds(t.bound, Len(t.bound)) \cup Binds(t.parameters, Len(t.parameters)))
WellScopedIn(t, free) ==
  /\ \A j \in 1..Len(t.bound) :
       free[t.bound[j].value] \subseteq ContextOf(t, free) \cup Binds(t.bound, j - 1)
  /\ \A j \in 1..Len(t.parameters) :
       free[t.parameters[j].value] \subseteq
         ContextOf(t, free) \cup Binds(t.bound, Len(t.bound)) \cup Binds(t.parameters, j - 1)

\* The test of MakeAbstraction (module Abstraction) says that the abstraction is well scoped.
LEMMA ScopedIs ==
  ASSUME NEW S, NEW t \in TermOver(S), t.tag = "Abstraction", Scoped(t)!WellScoped
  PROVE  WellScopedIn(t, FreeVariables)
<1>0. t.bound \in BindersOver(S) /\ t.parameters \in BindersOver(S)
  BY IfAbstraction
<1>1. /\ DOMAIN t.bound = 1..Len(t.bound) /\ DOMAIN t.parameters = 1..Len(t.parameters)
      /\ Len(t.bound) \in Nat /\ Len(t.parameters) \in Nat
  BY <1>0, LenProperties DEF BindersOver
<1> DEFINE bs == Scoped(t)!bound
           ps == Scoped(t)!parameters
<1>2. /\ bs = [k \in DOMAIN t.bound |->
                [variable |-> t.bound[k].variable, fvs |-> FreeVariables[t.bound[k].value]]]
      /\ ps = [k \in DOMAIN t.parameters |->
                [variable |-> t.parameters[k].variable, fvs |-> FreeVariables[t.parameters[k].value]]]
  BY DEF Scoped!bound, Scoped!parameters
<1>3. /\ Len(bs) = Len(t.bound) /\ Len(ps) = Len(t.parameters)
      /\ \A k \in 1..Len(t.bound) :
           bs[k].variable = t.bound[k].variable /\ bs[k].fvs = FreeVariables[t.bound[k].value]
      /\ \A k \in 1..Len(t.parameters) :
           ps[k].variable = t.parameters[k].variable /\ ps[k].fvs = FreeVariables[t.parameters[k].value]
  <2>1. /\ bs \in [1..Len(t.bound) -> {bs[k] : k \in 1..Len(t.bound)}]
        /\ ps \in [1..Len(t.parameters) -> {ps[k] : k \in 1..Len(t.parameters)}]
    BY <1>1, <1>2
  <2>2. Len(bs) = Len(t.bound) /\ Len(ps) = Len(t.parameters)
    BY <1>1, <2>1, FunctionIsSeq
  <2>3. QED
    BY <1>1, <1>2, <2>2
<1>4. /\ \A k \in 0..Len(t.bound) : Scoped(t)!Introduced(bs, k) = Binds(t.bound, k)
      /\ \A k \in 0..Len(t.parameters) : Scoped(t)!Introduced(ps, k) = Binds(t.parameters, k)
  <2>1. ASSUME NEW k \in 0..Len(t.bound) PROVE Scoped(t)!Introduced(bs, k) = Binds(t.bound, k)
    <3>1. \A j \in 1..k : j \in 1..Len(t.bound)
      BY <1>1
    <3> HIDE DEF bs, ps
    <3>2. \A j \in 1..k : bs[j].variable = t.bound[j].variable
      BY <1>3, <3>1
    <3>3. QED
      BY <3>2 DEF Scoped!Introduced, Binds
  <2>2. ASSUME NEW k \in 0..Len(t.parameters)
        PROVE  Scoped(t)!Introduced(ps, k) = Binds(t.parameters, k)
    <3>1. \A j \in 1..k : j \in 1..Len(t.parameters)
      BY <1>1
    <3> HIDE DEF bs, ps
    <3>2. \A j \in 1..k : ps[j].variable = t.parameters[j].variable
      BY <1>3, <3>1
    <3>3. QED
      BY <3>2 DEF Scoped!Introduced, Binds
  <2>3. QED
    BY <2>1, <2>2
<1>5. /\ Scoped(t)!All(bs) = Binds(t.bound, Len(t.bound))
      /\ Scoped(t)!All(ps) = Binds(t.parameters, Len(t.parameters))
  BY <1>1, <1>3, <1>4 DEF Scoped!All
<1> HIDE DEF bs, ps
<1>6. Scoped(t)!ContextVariables = ContextOf(t, FreeVariables)
  BY <1>5 DEF Scoped!ContextVariables, ContextOf, bs, ps
<1>7. ASSUME NEW j \in 1..Len(t.bound)
      PROVE  FreeVariables[t.bound[j].value] \subseteq
               ContextOf(t, FreeVariables) \cup Binds(t.bound, j - 1)
  <2>1. bs[j].fvs \subseteq Scoped(t)!ContextVariables \cup Scoped(t)!Introduced(bs, j - 1)
    BY <1>3 DEF Scoped!WellScoped, Scoped!BoundInOrder, bs
  <2>2. j - 1 \in 0..Len(t.bound)
    BY <1>1
  <2>3. QED
    BY <1>3, <1>4, <1>6, <2>1, <2>2
<1>8. ASSUME NEW j \in 1..Len(t.parameters)
      PROVE  FreeVariables[t.parameters[j].value] \subseteq
               ContextOf(t, FreeVariables) \cup Binds(t.bound, Len(t.bound))
                 \cup Binds(t.parameters, j - 1)
  <2>1. ps[j].fvs \subseteq Scoped(t)!ContextVariables \cup Scoped(t)!All(bs)
                              \cup Scoped(t)!Introduced(ps, j - 1)
    BY <1>3 DEF Scoped!WellScoped, Scoped!ParametersInOrder, bs, ps
  <2>2. j - 1 \in 0..Len(t.parameters)
    BY <1>1
  <2>3. QED
    BY <1>3, <1>4, <1>5, <1>6, <2>1, <2>2
<1>9. QED
  BY <1>7, <1>8 DEF WellScopedIn

\* The parts of a term are what it refers to.
LEMMA PartsIn == ASSUME NEW S, NEW t \in TermOver(S) PROVE Parts(t) \subseteq S
<1>1. CASE t.tag \in Literals \cup Unmovable \cup {"Variable", "DeferredValue"}
  BY <1>1 DEF Parts, Literals, Unmovable, Products
<1>2. CASE t.tag = "Application"
  <2>1. Parts(t) = {t.function} \cup Range(t.arguments)
    BY <1>2 DEF Parts, Literals, Unmovable, Products
  <2>2. t.function \in S /\ t.arguments \in Seq(S)
    BY <1>2, IfApplication
  <2>3. QED
    BY <2>1, <2>2, Elements DEF Range
<1>3. CASE t.tag = "UnitLikeValue"
  <2>1. Parts(t) = {t.type}
    BY <1>3 DEF Parts, Literals, Unmovable, Products
  <2>2. QED
    BY <1>3, <2>1, IfUnitLikeValue
<1>5. CASE t.tag = "LetIns"
  <2>1. Parts(t) = {b.value : b \in Range(t.bound)} \cup {t.body}
    BY <1>5 DEF Parts, Literals, Unmovable, Products
  <2>2. t.bound \in BindersOver(S) /\ t.body \in S
    BY <1>5, IfLetIns
  <2>3. QED
    BY <2>1, <2>2, Elements DEF Range
<1>6. CASE t.tag = "Abstraction"
  <2>1. Parts(t) = {b.value : b \in Range(t.bound) \cup Range(t.parameters)} \cup {t.body}
    BY <1>6 DEF Parts, Literals, Unmovable, Products
  <2>2. t.bound \in BindersOver(S) /\ t.parameters \in BindersOver(S) /\ t.body \in S
    BY <1>6, IfAbstraction
  <2>3. QED
    BY <2>1, <2>2, Elements DEF Range
<1>7. CASE t.tag = "FunctionType"
  <2>1. Parts(t) = {p.type : p \in Range(t.parameter_types)} \cup {t.return_type}
    BY <1>7 DEF Parts, Literals, Unmovable, Products
  <2>2. t.parameter_types \in TypesOver(S) /\ t.return_type \in S
    BY <1>7, IfFunctionType
  <2>3. QED
    BY <2>1, <2>2, Elements DEF Range
<1>8. CASE t.tag \in Products
  <2>1. Parts(t) = {m.value : m \in Range(t.members)}
    BY <1>8 DEF Parts, Literals, Unmovable, Products
  <2>2. t.members \in MembersOver(S)
    BY <1>8, IfProductType, IfProductValue DEF Products
  <2>3. QED
    BY <2>1, <2>2, Elements DEF Range
<1>9. QED
  BY <1>1, <1>2, <1>3, <1>5, <1>6, <1>7, <1>8, TermTag DEF Tags, Products

\* The values and types of the binders of an abstraction, and its body, are parts.
LEMMA BinderParts ==
  ASSUME NEW S, NEW t \in TermOver(S), t.tag = "Abstraction"
  PROVE  /\ Len(t.bound) \in Nat /\ DOMAIN t.bound = 1..Len(t.bound)
         /\ Len(t.parameters) \in Nat /\ DOMAIN t.parameters = 1..Len(t.parameters)
         /\ \A k \in DOMAIN t.bound : t.bound[k].value \in S
         /\ \A k \in DOMAIN t.parameters : t.parameters[k].value \in S
         /\ t.body \in S
<1>1. t.bound \in BindersOver(S) /\ t.parameters \in BindersOver(S) /\ t.body \in S
  BY IfAbstraction
<1>2. QED
  BY <1>1, Elements, LenProperties DEF BindersOver

\* GetFreeVariablesCore of an abstraction.
LEMMA CoreOfAbstraction ==
  ASSUME NEW S, NEW t \in TermOver(S), t.tag = "Abstraction", NEW free
  PROVE  Core(t, free) =
           Remaining(t.bound, free,
             (free[t.body] \cup UNION {free[p.value] : p \in Range(t.parameters)})
               \ {p.variable : p \in Range(t.parameters)}, 1)
<1>1. t.bound \in BindersOver(S)
  BY IfAbstraction
<1>2. QED
  BY <1>1, BoundErasedIs DEF Core

\* What is computed of a term depends on what is known of its parts alone.
LEMMA CoreLocal ==
  ASSUME NEW S, NEW t \in TermOver(S), NEW f, NEW g, \A x \in S : f[x] = g[x]
  PROVE  Core(t, f) = Core(t, g)
<1>1. CASE t.tag = "Abstraction"
  <2>1. UNION {f[p.value] : p \in Range(t.parameters)} = UNION {g[p.value] : p \in Range(t.parameters)}
    BY <1>1, BinderParts DEF Range
  <2>2. f[t.body] = g[t.body]
    BY <1>1, BinderParts
  <2>3. ASSUME NEW fvs PROVE Remaining(t.bound, f, fvs, 1) = Remaining(t.bound, g, fvs, 1)
    BY <1>1, BinderParts DEF Remaining
  <2>4. QED
    BY <1>1, <2>1, <2>2, <2>3, CoreOfAbstraction
<1>2. CASE t.tag = "Variable"
  BY <1>2 DEF Core
<1>3. CASE t.tag \notin {"Abstraction", "Variable"}
  <2>1. Core(t, f) = UNION {f[b] : b \in Parts(t)} /\ Core(t, g) = UNION {g[b] : b \in Parts(t)}
    BY <1>3 DEF Core
  <2>2. QED
    BY <2>1, PartsIn
<1>4. QED
  BY <1>1, <1>2, <1>3

\* The same of the textbook.
LEMMA TextbookLocal ==
  ASSUME NEW S, NEW t \in TermOver(S), NEW f, NEW g, \A x \in S : f[x] = g[x], NEW a
  PROVE  Textbook(a, t, f) = Textbook(a, t, g)
<1>1. CASE t.tag = "Abstraction"
  <2>1. UNION {f[t.bound[k].value] \ Binds(t.bound, k - 1) : k \in DOMAIN t.bound}
          = UNION {g[t.bound[k].value] \ Binds(t.bound, k - 1) : k \in DOMAIN t.bound}
    BY <1>1, BinderParts
  <2>2. UNION {f[t.parameters[k].value] \ Binds(t.parameters, k - 1) : k \in DOMAIN t.parameters}
          = UNION {g[t.parameters[k].value] \ Binds(t.parameters, k - 1) : k \in DOMAIN t.parameters}
    BY <1>1, BinderParts
  <2>3. f[t.body] = g[t.body]
    BY <1>1, BinderParts
  <2>4. TextbookAbstraction(t, f) = TextbookAbstraction(t, g)
    BY <2>1, <2>2, <2>3 DEF TextbookAbstraction
  <2>5. QED
    BY <1>1, <2>4 DEF Textbook
<1>2. CASE t.tag = "Variable"
  BY <1>2 DEF Textbook
<1>3. CASE t.tag \notin {"Abstraction", "Variable"}
  <2>1. Textbook(a, t, f) = UNION {f[b] : b \in Parts(t)} /\ Textbook(a, t, g) = UNION {g[b] : b \in Parts(t)}
    BY <1>3 DEF Textbook
  <2>2. QED
    BY <2>1, PartsIn
<1>4. QED
  BY <1>1, <1>2, <1>3

\* In a well scoped abstraction the loops compute the textbook set.
LEMMA CoreIsTextbook ==
  ASSUME NEW S, NEW t \in TermOver(S), NEW free, NEW a,
         t.tag = "Abstraction" => WellScopedIn(t, free),
         t.tag = "Variable" => t.instance = a
  PROVE  Core(t, free) = Textbook(a, t, free)
<1>1. CASE t.tag # "Abstraction"
  BY <1>1 DEF Core, Textbook
<1>2. CASE t.tag = "Abstraction"
  <2> DEFINE bs == t.bound
             ps == t.parameters
             fvs == (free[t.body] \cup UNION {free[p.value] : p \in Range(ps)}) \ {p.variable : p \in Range(ps)}
  <2>0. /\ Len(bs) \in Nat /\ Len(ps) \in Nat /\ DOMAIN bs = 1..Len(bs) /\ DOMAIN ps = 1..Len(ps)
    BY <1>2, BinderParts
  <2>1. {p.variable : p \in Range(ps)} = Binds(ps, Len(ps))
    BY <2>0 DEF Range, Binds
  <2>2. Core(t, free) = ContextOf(t, free)
    <3>1. Core(t, free) = Remaining(bs, free, fvs, 1)
      BY <1>2, CoreOfAbstraction
    <3>2. ContextOf(t, free) \subseteq fvs
      BY <2>1 DEF ContextOf
    <3>3. fvs \subseteq ContextOf(t, free) \cup Binds(bs, Len(bs))
      <4>1. \A p \in Range(ps) : free[p.value] \subseteq
              ContextOf(t, free) \cup Binds(bs, Len(bs)) \cup Binds(ps, Len(ps))
        <5>1. ASSUME NEW j \in 1..Len(ps) PROVE Binds(ps, j - 1) \subseteq Binds(ps, Len(ps))
          BY <2>0 DEF Binds
        <5>2. QED
          BY <1>2, <2>0, <5>1 DEF WellScopedIn, Range
      <4>2. QED
        BY <2>1, <4>1 DEF ContextOf
    <3>4. ContextOf(t, free) \cap Binds(bs, Len(bs)) = {}
      BY DEF ContextOf
    <3>5. fvs \ {bs[j].variable : j \in 1..Len(bs)} = ContextOf(t, free)
      BY <3>2, <3>3, <3>4 DEF Binds
    <3>6. \A i \in 1..Len(bs) :
            free[bs[i].value] \ {bs[j].variable : j \in 1..(i - 1)} \subseteq ContextOf(t, free)
      BY <1>2 DEF WellScopedIn, Binds
    <3>7. QED
      BY <3>1, <3>5, <3>6 DEF Remaining
  <2>3. TextbookAbstraction(t, free) = ContextOf(t, free)
    <3> DEFINE Bound == Binds(bs, Len(bs))
               Values == UNION {free[bs[k].value] \ Binds(bs, k - 1) : k \in DOMAIN bs}
               OfTypes == UNION {free[ps[k].value] \ Binds(ps, k - 1) : k \in DOMAIN ps}
    <3>1. Values \subseteq ContextOf(t, free)
      BY <1>2, <2>0 DEF WellScopedIn
    <3>2. OfTypes \subseteq ContextOf(t, free) \cup Bound
      BY <1>2, <2>0 DEF WellScopedIn
    <3>3. TextbookAbstraction(t, free) = Values \cup (OfTypes \ Bound) \cup ContextOf(t, free)
      BY DEF TextbookAbstraction, ContextOf
    <3> HIDE DEF Bound, Values, OfTypes
    <3>4. QED
      BY <3>1, <3>2, <3>3
  <2>4. QED
    BY <1>2, <2>2, <2>3 DEF Textbook
<1>3. QED
  BY <1>1, <1>2

-----------------------------------------------------------------------------
(* The recursions down the heap.  A recursive function is a CHOOSE: that there is *)
(* one to choose is shown by continuing one for the first m terms.         *)

OnHeap(h) ==
  /\ h \in Seq(TermOver(Nat))
  /\ \A a \in DOMAIN h : h[a] \in TermOver(1..(a - 1))

Recursions == {"tree", "below", "free", "textbook", "holds"}
Step(which, p, h, f, a) ==
  CASE which = "tree" -> Compared(Renamed(h[a], f))
    [] which = "below" -> IF a \in p THEN {} ELSE {a} \cup UNION {f[b] : b \in Parts(h[a])}
    [] which = "free" -> IF a \in DOMAIN p THEN p[a] ELSE Core(h[a], f)
    [] which = "textbook" -> Textbook(a, h[a], f)
    [] which = "holds" -> {a} \cup UNION {f[b] : b \in {c \in 1..(a - 1) : Mentions(h[a], c)}}
Solves(which, p, h, f) == f = [a \in DOMAIN h |-> Step(which, p, h, f, a)]

\* The addresses on a heap.
LEMMA HeapDomain ==
  ASSUME NEW h, OnHeap(h)
  PROVE  Len(h) \in Nat /\ DOMAIN h = 1..Len(h)
BY LenProperties DEF OnHeap

\* Every step looks only at what was computed of earlier terms.
LEMMA StepLocal ==
  ASSUME NEW which \in Recursions, NEW p, NEW h, NEW a, h[a] \in TermOver(1..(a - 1)),
         NEW f, NEW g, \A b \in 1..(a - 1) : f[b] = g[b]
  PROVE  Step(which, p, h, f, a) = Step(which, p, h, g, a)
<1> DEFINE S == 1..(a - 1)
           t == h[a]
<1>0. t \in TermOver(S) /\ \A b \in S : f[b] = g[b]
  OBVIOUS
<1> HIDE DEF S, t
<1>1. CASE which = "tree"
  <2>1. Renamed(t, f) = Renamed(t, g)
    BY <1>0, RenamedSame
  <2>2. QED
    BY <1>1, <2>1 DEF Step, t
<1>2. CASE which = "below"
  <2>1. UNION {f[b] : b \in Parts(t)} = UNION {g[b] : b \in Parts(t)}
    BY <1>0, PartsIn
  <2>2. QED
    BY <1>2, <2>1 DEF Step, t
<1>3. CASE which = "free"
  <2>1. Core(t, f) = Core(t, g)
    BY <1>0, CoreLocal
  <2>2. QED
    BY <1>3, <2>1 DEF Step, t
<1>4. CASE which = "textbook"
  <2>1. Textbook(a, t, f) = Textbook(a, t, g)
    BY <1>0, TextbookLocal
  <2>2. QED
    BY <1>4, <2>1 DEF Step, t
<1>5. CASE which = "holds"
  <2>1. UNION {f[b] : b \in {c \in 1..(a - 1) : Mentions(h[a], c)}}
          = UNION {g[b] : b \in {c \in 1..(a - 1) : Mentions(h[a], c)}}
    OBVIOUS
  <2>2. QED
    BY <1>5, <2>1 DEF Step
<1>6. QED
  BY <1>1, <1>2, <1>3, <1>4, <1>5 DEF Recursions

\* There is a solution on every heap: one for its first m terms is continued.
LEMMA Solvable ==
  ASSUME NEW which \in Recursions, NEW p, NEW h, OnHeap(h)
  PROVE  \E f : Solves(which, p, h, f)
<1> DEFINE n == Len(h)
           Upto(m, f) == DOMAIN f = 1..m /\ \A a \in 1..m : f[a] = Step(which, p, h, f, a)
           T == {d \in 1..(n + 1) : \E f : f = [a \in DOMAIN f |-> f[a]] /\ Upto(d - 1, f)}
<1>1. n \in Nat /\ DOMAIN h = 1..n
  BY HeapDomain
<1> HIDE DEF n
<1>2. ASSUME NEW d \in 1..(n + 1), \A b \in 1..(d - 1) : b \in T PROVE d \in T
  <2>1. CASE d = 1
    <3> DEFINE f == [a \in 1..0 |-> 0]
    <3>1. f = [a \in DOMAIN f |-> f[a]] /\ Upto(d - 1, f)
      BY <2>1
    <3> HIDE DEF f, Upto
    <3>2. QED
      BY <3>1
  <2>2. CASE d # 1
    <3>1. d - 1 \in 1..(d - 1) /\ d - 1 \in 1..n
      BY <1>1, <2>2
    <3>2. PICK f : Upto((d - 1) - 1, f)
      BY <1>2, <3>1
    <3> DEFINE g == [a \in 1..(d - 1) |-> IF a = d - 1 THEN Step(which, p, h, f, a) ELSE f[a]]
    <3>3. \A b \in 1..((d - 1) - 1) : g[b] = f[b]
      BY <3>1
    <3>4. ASSUME NEW a \in 1..(d - 1) PROVE g[a] = Step(which, p, h, g, a)
      <4>1. a \in DOMAIN h /\ \A b \in 1..(a - 1) : b \in 1..((d - 1) - 1)
        BY <1>1, <3>1
      <4>2. h[a] \in TermOver(1..(a - 1)) /\ \A b \in 1..(a - 1) : f[b] = g[b]
        BY <3>3, <4>1 DEF OnHeap
      <4> HIDE DEF g
      <4>3. Step(which, p, h, f, a) = Step(which, p, h, g, a)
        BY <4>2, StepLocal
      <4>4. g[a] = Step(which, p, h, f, a)
        <5>1. CASE a = d - 1
          BY <5>1 DEF g
        <5>2. CASE a # d - 1
          <6>1. a \in 1..((d - 1) - 1)
            BY <3>1, <5>2
          <6>2. QED
            BY <3>2, <3>3, <6>1
        <5>3. QED
          BY <5>1, <5>2
      <4>5. QED
        BY <4>3, <4>4
    <3>5. g = [a \in DOMAIN g |-> g[a]] /\ Upto(d - 1, g)
      <4>1. DOMAIN g = 1..(d - 1) /\ g = [a \in DOMAIN g |-> g[a]]
        OBVIOUS
      <4> HIDE DEF g
      <4>2. QED
        BY <3>4, <4>1
    <3> HIDE DEF g, Upto
    <3>6. QED
      BY <3>5
  <2>3. QED
    BY <2>1, <2>2
<1>3. n + 1 \in T
  <2>1. n + 1 \in Nat /\ n + 1 \in 1..(n + 1)
    BY <1>1
  <2> HIDE DEF T
  <2>2. QED
    BY <1>2, <2>1, Upwards
<1>4. PICK f : f = [a \in DOMAIN f |-> f[a]] /\ Upto(n, f)
  <2>1. (n + 1) - 1 = n
    BY <1>1
  <2>2. QED
    BY <1>3, <2>1
<1>5. Solves(which, p, h, f)
  BY <1>1, <1>4 DEF Solves
<1>6. QED
  BY <1>5

\* Solutions on heaps that begin alike begin alike.
LEMMA SolutionsAgree ==
  ASSUME NEW which \in Recursions, NEW p, NEW h, NEW k, OnHeap(h), OnHeap(k),
         NEW n \in Nat, n <= Len(h), n <= Len(k), \A a \in 1..n : h[a] = k[a],
         NEW f, NEW g, Solves(which, p, h, f), Solves(which, p, k, g)
  PROVE  \A a \in 1..n : f[a] = g[a]
<1> DEFINE T == {a \in 1..n : f[a] = g[a]}
<1>1. DOMAIN h = 1..Len(h) /\ DOMAIN k = 1..Len(k) /\ Len(h) \in Nat /\ Len(k) \in Nat
  BY HeapDomain
<1>2. ASSUME NEW a \in 1..n, \A b \in 1..(a - 1) : b \in T PROVE a \in T
  <2>1. a \in DOMAIN h /\ a \in DOMAIN k
    BY <1>1
  <2>2. f[a] = Step(which, p, h, f, a) /\ g[a] = Step(which, p, k, g, a)
    BY <2>1 DEF Solves
  <2>3. h[a] \in TermOver(1..(a - 1))
    BY <2>1 DEF OnHeap
  <2>4. Step(which, p, h, f, a) = Step(which, p, h, g, a)
    BY <1>2, <2>3, StepLocal
  <2>5. Step(which, p, h, g, a) = Step(which, p, k, g, a)
    BY DEF Step, Recursions
  <2>6. QED
    BY <2>2, <2>4, <2>5
<1> HIDE DEF T
<1>3. \A a \in 1..n : a \in T
  BY <1>2, Upwards
<1>4. QED
  BY <1>3 DEF T

TreeOn(h) ==
  LET tree[a \in DOMAIN h] == Compared(Renamed(h[a], tree)) IN tree
BelowOn(h, ends) ==
  LET below[a \in DOMAIN h] ==
        IF a \in ends THEN {} ELSE {a} \cup UNION {below[b] : b \in Parts(h[a])}
  IN  below
FreeOn(h, cached) ==
  LET free[a \in DOMAIN h] == IF a \in DOMAIN cached THEN cached[a] ELSE Core(h[a], free)
  IN  free
TextbookOn(h) ==
  LET free[a \in DOMAIN h] == Textbook(a, h[a], free) IN free
HoldsOn(h) ==
  LET holds[a \in DOMAIN h] == {a} \cup UNION {holds[b] : b \in {c \in 1..(a - 1) : Mentions(h[a], c)}}
  IN  holds

\* The recursions of TermStore are these, for the heap there is
LEMMA OnTheHeap ==
  /\ Tree = TreeOn(heap)
  /\ \A ends : BelowUpTo(ends) = BelowOn(heap, ends)
  /\ FreeVariables = FreeOn(heap, free_variables_of_terms)
  /\ TextbookFreeVariables = TextbookOn(heap)
  /\ Holds = HoldsOn(heap)
BY DEF Tree, TreeOn, BelowUpTo, BelowOn, FreeVariables, FreeOn, TextbookFreeVariables, TextbookOn, Holds, HoldsOn

\* and for the heap after a step.
LEMMA OnTheNextHeap ==
  /\ Tree' = TreeOn(heap')
  /\ \A ends : BelowUpTo(ends)' = BelowOn(heap', ends)
  /\ FreeVariables' = FreeOn(heap', free_variables_of_terms')
  /\ TextbookFreeVariables' = TextbookOn(heap')
  /\ Holds' = HoldsOn(heap')
BY DEF Tree, TreeOn, BelowUpTo, BelowOn, FreeVariables, FreeOn, TextbookFreeVariables, TextbookOn, Holds, HoldsOn

\* Each of the recursions has a solution, so that each computes what it says.
LEMMA TreeSolves == ASSUME NEW h, OnHeap(h) PROVE Solves("tree", {}, h, TreeOn(h))
<1> DEFINE P(f) == f = [a \in DOMAIN h |-> Compared(Renamed(h[a], f))]
<1>1. \A f : P(f) <=> Solves("tree", {}, h, f)
  BY DEF Solves, Step
<1>2. TreeOn(h) = CHOOSE f : P(f)
  BY DEF TreeOn
<1> HIDE DEF P
<1>3. PICK f : P(f)
  BY <1>1, Solvable DEF Recursions
<1>4. QED
  BY <1>1, <1>2, <1>3

\* The addresses below one have a solution as well,
LEMMA BelowSolves == ASSUME NEW h, OnHeap(h), NEW ends PROVE Solves("below", ends, h, BelowOn(h, ends))
<1> DEFINE P(f) == f = [a \in DOMAIN h |->
                          IF a \in ends THEN {} ELSE {a} \cup UNION {f[b] : b \in Parts(h[a])}]
<1>1. \A f : P(f) <=> Solves("below", ends, h, f)
  BY DEF Solves, Step
<1>2. BelowOn(h, ends) = CHOOSE f : P(f)
  BY DEF BelowOn
<1> HIDE DEF P
<1>3. PICK f : P(f)
  BY <1>1, Solvable DEF Recursions
<1>4. QED
  BY <1>1, <1>2, <1>3

\* So has GetFreeVariables,
LEMMA FreeSolves ==
  ASSUME NEW h, OnHeap(h), NEW cached PROVE Solves("free", cached, h, FreeOn(h, cached))
<1> DEFINE P(f) == f = [a \in DOMAIN h |-> IF a \in DOMAIN cached THEN cached[a] ELSE Core(h[a], f)]
<1>1. \A f : P(f) <=> Solves("free", cached, h, f)
  BY DEF Solves, Step
<1>2. FreeOn(h, cached) = CHOOSE f : P(f)
  BY DEF FreeOn
<1> HIDE DEF P
<1>3. PICK f : P(f)
  BY <1>1, Solvable DEF Recursions
<1>4. QED
  BY <1>1, <1>2, <1>3

\* the textbook,
LEMMA TextbookSolves == ASSUME NEW h, OnHeap(h) PROVE Solves("textbook", {}, h, TextbookOn(h))
<1> DEFINE P(f) == f = [a \in DOMAIN h |-> Textbook(a, h[a], f)]
<1>1. \A f : P(f) <=> Solves("textbook", {}, h, f)
  BY DEF Solves, Step
<1>2. TextbookOn(h) = CHOOSE f : P(f)
  BY DEF TextbookOn
<1> HIDE DEF P
<1>3. PICK f : P(f)
  BY <1>1, Solvable DEF Recursions
<1>4. QED
  BY <1>1, <1>2, <1>3

\* and what a term holds.
LEMMA HoldsSolves == ASSUME NEW h, OnHeap(h) PROVE Solves("holds", {}, h, HoldsOn(h))
<1> DEFINE P(f) == f = [a \in DOMAIN h |->
                          {a} \cup UNION {f[b] : b \in {c \in 1..(a - 1) : Mentions(h[a], c)}}]
<1>1. \A f : P(f) <=> Solves("holds", {}, h, f)
  BY DEF Solves, Step
<1>2. HoldsOn(h) = CHOOSE f : P(f)
  BY DEF HoldsOn
<1> HIDE DEF P
<1>3. PICK f : P(f)
  BY <1>1, Solvable DEF Recursions
<1>4. QED
  BY <1>1, <1>2, <1>3

\* A term over the addresses of a heap goes on it.
LEMMA Pushed ==
  ASSUME NEW h, OnHeap(h), NEW t \in TermOver(1..Len(h))
  PROVE  /\ OnHeap(Append(h, t))
         /\ Len(Append(h, t)) = Len(h) + 1
         /\ DOMAIN Append(h, t) = 1..(Len(h) + 1)
         /\ Append(h, t)[Len(h) + 1] = t
         /\ \A a \in 1..Len(h) : Append(h, t)[a] = h[a]
<1>1. h \in Seq(TermOver(Nat)) /\ Len(h) \in Nat /\ DOMAIN h = 1..Len(h)
  BY HeapDomain DEF OnHeap
<1>2. t \in TermOver(Nat)
  <2>1. \A x \in 1..Len(h) : [c \in 1..Len(h) |-> c][x] \in Nat
    OBVIOUS
  <2>2. Renamed(t, [c \in 1..Len(h) |-> c]) \in TermOver(Nat)
    BY <2>1, RenamedType
  <2>3. Renamed(t, [c \in 1..Len(h) |-> c]) = t
    BY RenamedId
  <2>4. QED
    BY <2>2, <2>3
<1>3. /\ Append(h, t) \in Seq(TermOver(Nat))
      /\ Len(Append(h, t)) = Len(h) + 1
      /\ DOMAIN Append(h, t) = 1..(Len(h) + 1)
      /\ Append(h, t)[Len(h) + 1] = t
      /\ \A a \in 1..Len(h) : Append(h, t)[a] = h[a]
  BY <1>1, <1>2, AppendProperties
<1>4. ASSUME NEW a \in 1..(Len(h) + 1) PROVE Append(h, t)[a] \in TermOver(1..(a - 1))
  <2>1. CASE a = Len(h) + 1
    <3>1. a - 1 = Len(h)
      BY <1>1, <2>1
    <3>2. QED
      BY <1>3, <2>1, <3>1
  <2>2. CASE a # Len(h) + 1
    <3>1. a \in 1..Len(h)
      BY <1>1, <2>2
    <3>2. QED
      BY <1>1, <1>3, <3>1 DEF OnHeap
  <2>3. QED
    BY <2>1, <2>2
<1>5. QED
  BY <1>3, <1>4 DEF OnHeap

-----------------------------------------------------------------------------
(* The client.                                                             *)

Giving == {"variable", "make", "abstraction"}

\* One call more gives one place more, if it makes a term.
LEMMA GivenStep ==
  ASSUME NEW p, NEW k \in Nat, k >= 1
  PROVE  /\ Given(p, k - 1) \in Nat
         /\ Given(p, k) = IF p[k].call \in Giving THEN Given(p, k - 1) + 1 ELSE Given(p, k - 1)
<1> DEFINE N(m) == {j \in 1..m : p[j].call \in Giving}
<1>1. IsFiniteSet(N(k - 1))
  <2>1. IsFiniteSet(1..(k - 1)) /\ N(k - 1) \in SUBSET (1..(k - 1))
    BY FS_Interval
  <2> HIDE DEF N
  <2>2. QED
    BY <2>1, FS_Subset
<1>2. Cardinality(N(k - 1)) \in Nat
  <2> HIDE DEF N
  <2>1. QED
    BY <1>1, FS_CardinalityType
<1>3. /\ Given(p, k - 1) = Predefined + Cardinality(N(k - 1))
      /\ Given(p, k) = Predefined + Cardinality(N(k))
  BY DEF Given, Giving
<1>4. CASE p[k].call \in Giving
  <2>1. N(k) = N(k - 1) \cup {k} /\ k \notin N(k - 1)
    BY <1>4
  <2> HIDE DEF N
  <2>2. Cardinality(N(k)) = Cardinality(N(k - 1)) + 1
    BY <1>1, <2>1, FS_AddElement
  <2>3. QED
    BY <1>2, <1>3, <1>4, <2>2 DEF Predefined
<1>5. CASE p[k].call \notin Giving
  <2>1. N(k) = N(k - 1)
    <3>1. \A j \in 1..k : j = k \/ j \in 1..(k - 1)
      OBVIOUS
    <3>2. \A j \in 1..(k - 1) : j \in 1..k
      OBVIOUS
    <3>3. QED
      BY <1>5, <3>1, <3>2
  <2> HIDE DEF N
  <2>2. QED
    BY <1>2, <1>3, <1>5, <2>1 DEF Predefined
<1>6. QED
  BY <1>4, <1>5

PlanInv ==
  \E p \in Plans : \E k \in 1..(Len(p) + 1) :
    plan = SubSeq(p, k, Len(p)) /\ Len(results) = Given(p, k - 1)

\* The next call refers to what the client was given, and so do those behind it.
LEMMA NextCall ==
  ASSUME PlanInv, plan # <<>>
  PROVE  /\ Head(plan) \in Call(1..Len(results))
         /\ plan' = Tail(plan) /\ Len(results') = Len(results) + (IF Head(plan).call \in Giving THEN 1 ELSE 0)
              => PlanInv'
<1>0. PICK p \in Plans : \E k \in 1..(Len(p) + 1) :
        plan = SubSeq(p, k, Len(p)) /\ Len(results) = Given(p, k - 1)
  BY DEF PlanInv
<1>1. PICK k \in 1..(Len(p) + 1) : plan = SubSeq(p, k, Len(p)) /\ Len(results) = Given(p, k - 1)
  BY <1>0
<1>2. p \in Seq(Call(Nat)) /\ Len(p) \in Nat /\ DOMAIN p = 1..Len(p)
  BY PlansAssumption, LenProperties
<1>3. k \in 1..Len(p)
  <2>1. SUFFICES ASSUME k = Len(p) + 1 PROVE FALSE
    BY <1>2
  <2>2. SubSeq(p, Len(p) + 1, Len(p)) = <<>>
    BY <1>2, SubSeqEmpty
  <2>3. QED
    BY <1>1, <2>1, <2>2
<1>4. Head(plan) = p[k] /\ Tail(plan) = SubSeq(p, k + 1, Len(p))
  BY <1>1, <1>2, <1>3, HeadTailOfSubSeq
<1>5. Head(plan) \in Call(1..Len(results))
  BY <1>1, <1>2, <1>3, <1>4, PlansAssumption
<1>6. ASSUME plan' = Tail(plan), Len(results') = Len(results) + (IF Head(plan).call \in Giving THEN 1 ELSE 0)
      PROVE  PlanInv'
  <2>1. Given(p, k) = Len(results')
    <3>1. k \in Nat /\ k >= 1
      BY <1>3
    <3>2. QED
      BY <1>1, <1>4, <1>6, <3>1, GivenStep
  <2>2. k + 1 \in 1..(Len(p) + 1) /\ (k + 1) - 1 = k
    BY <1>2, <1>3
  <2>3. QED
    BY <1>4, <1>6, <2>1, <2>2 DEF PlanInv
<1>7. QED
  BY <1>5, <1>6

\* So does the first.
LEMMA PlanInit == Init => PlanInv
<1> SUFFICES ASSUME Init PROVE PlanInv
  OBVIOUS
<1>1. plan \in Plans /\ plan \in Seq(Call(Nat)) /\ Len(plan) \in Nat
  BY PlansAssumption, LenProperties DEF Init
<1>2. SubSeq(plan, 1, Len(plan)) = plan
  BY <1>1, SubSeqFull
<1>3. Len(results) = 6
  <2>1. results \in [1..6 -> Nat]
    BY DEF Init, Predefined
  <2>2. QED
    BY <2>1, FunctionIsSeq
<1>4. Given(plan, 1 - 1) = 6
  <2>1. {j \in 1..(1 - 1) : plan[j].call \in Giving} = {}
    OBVIOUS
  <2>2. QED
    BY <2>1, FS_EmptySet DEF Given, Predefined, Giving
<1>5. 1 \in 1..(Len(plan) + 1)
  BY <1>1
<1>6. QED
  BY <1>1, <1>2, <1>3, <1>4, <1>5 DEF PlanInv

-----------------------------------------------------------------------------
(* The heap, the results and the cache.                                    *)

OfParts(t, f) == UNION {f[b] : b \in Parts(t)}

\* The recursions, now and after a step.
LEMMA Computed ==
  ASSUME OnHeap(heap), NEW a \in DOMAIN heap
  PROVE  /\ Tree[a] = Compared(Renamed(heap[a], Tree))
         /\ \A ends : BelowUpTo(ends)[a] =
              IF a \in ends THEN {} ELSE {a} \cup OfParts(heap[a], BelowUpTo(ends))
         /\ FreeVariables[a] = IF a \in DOMAIN free_variables_of_terms THEN free_variables_of_terms[a]
                               ELSE Core(heap[a], FreeVariables)
         /\ TextbookFreeVariables[a] = Textbook(a, heap[a], TextbookFreeVariables)
         /\ Holds[a] = {a} \cup UNION {Holds[b] : b \in {c \in 1..(a - 1) : Mentions(heap[a], c)}}
<1>1. Tree[a] = Compared(Renamed(heap[a], Tree))
  BY OnTheHeap, TreeSolves DEF Solves, Step
<1>2. ASSUME NEW ends
      PROVE  BelowUpTo(ends)[a] =
              IF a \in ends THEN {} ELSE {a} \cup OfParts(heap[a], BelowUpTo(ends))
  <2>1. Solves("below", ends, heap, BelowUpTo(ends))
    BY OnTheHeap, BelowSolves
  <2>2. BelowUpTo(ends)[a] = Step("below", ends, heap, BelowUpTo(ends), a)
    BY <2>1 DEF Solves
  <2>3. QED
    BY <2>2 DEF Step, OfParts
<1>3. FreeVariables[a] = IF a \in DOMAIN free_variables_of_terms THEN free_variables_of_terms[a]
                         ELSE Core(heap[a], FreeVariables)
  BY OnTheHeap, FreeSolves DEF Solves, Step
<1>4. TextbookFreeVariables[a] = Textbook(a, heap[a], TextbookFreeVariables)
  BY OnTheHeap, TextbookSolves DEF Solves, Step
<1>5. Holds[a] = {a} \cup UNION {Holds[b] : b \in {c \in 1..(a - 1) : Mentions(heap[a], c)}}
  BY OnTheHeap, HoldsSolves DEF Solves, Step
<1>6. QED
  BY <1>1, <1>2, <1>3, <1>4, <1>5

\* What is known of the terms on the heap stays when more are put there.
Grows ==
  /\ OnHeap(heap')
  /\ Len(heap) <= Len(heap')
  /\ \A a \in 1..Len(heap) : heap'[a] = heap[a]

\* A recursion goes on as it began when terms are put on the heap:
LEMMA ContinuationAgrees ==
  ASSUME NEW h, NEW k, OnHeap(h), OnHeap(k), Len(h) <= Len(k), \A a \in 1..Len(h) : h[a] = k[a],
         NEW which \in Recursions, NEW p,
         NEW f, NEW g, Solves(which, p, h, f), Solves(which, p, k, g)
  PROVE  \A a \in 1..Len(h) : f[a] = g[a]
<1> DEFINE n == Len(h)
<1>1. n \in Nat /\ n <= Len(h) /\ n <= Len(k) /\ \A a \in 1..n : h[a] = k[a]
  BY HeapDomain
<1> HIDE DEF n
<1>2. \A a \in 1..n : f[a] = g[a]
  BY <1>1, SolutionsAgree
<1>3. QED
  BY <1>2 DEF n

\* all of them on two heaps that begin alike,
LEMMA GrownOn ==
  ASSUME NEW h, NEW k, OnHeap(h), OnHeap(k), Len(h) <= Len(k), \A a \in 1..Len(h) : h[a] = k[a]
  PROVE  \A a \in 1..Len(h) :
           /\ TreeOn(h)[a] = TreeOn(k)[a]
           /\ TextbookOn(h)[a] = TextbookOn(k)[a]
           /\ BelowOn(h, {})[a] = BelowOn(k, {})[a]
<1>2. \A a \in 1..Len(h) : TreeOn(h)[a] = TreeOn(k)[a]
  <2>1. Solves("tree", {}, h, TreeOn(h)) /\ Solves("tree", {}, k, TreeOn(k)) /\ "tree" \in Recursions
    BY TreeSolves DEF Recursions
  <2>2. QED
    BY <2>1, ContinuationAgrees
<1>3. \A a \in 1..Len(h) : TextbookOn(h)[a] = TextbookOn(k)[a]
  <2>1. Solves("textbook", {}, h, TextbookOn(h)) /\ Solves("textbook", {}, k, TextbookOn(k)) /\ "textbook" \in Recursions
    BY TextbookSolves DEF Recursions
  <2>2. QED
    BY <2>1, ContinuationAgrees
<1>4. \A a \in 1..Len(h) : BelowOn(h, {})[a] = BelowOn(k, {})[a]
  <2>1. Solves("below", {}, h, BelowOn(h, {})) /\ Solves("below", {}, k, BelowOn(k, {})) /\ "below" \in Recursions
    BY BelowSolves DEF Recursions
  <2>2. QED
    BY <2>1, ContinuationAgrees
<1>5. QED
  BY <1>2, <1>3, <1>4

\* and on the heap before and after a step.
LEMMA Grown ==
  ASSUME OnHeap(heap), Grows
  PROVE  \A a \in DOMAIN heap :
           /\ a \in DOMAIN heap'
           /\ Tree'[a] = Tree[a]
           /\ TextbookFreeVariables'[a] = TextbookFreeVariables[a]
           /\ Below'[a] = Below[a]
<1>1. /\ Len(heap) \in Nat /\ DOMAIN heap = 1..Len(heap)
      /\ OnHeap(heap') /\ Len(heap') \in Nat /\ DOMAIN heap' = 1..Len(heap')
  BY HeapDomain DEF Grows
<1>2. /\ Tree = TreeOn(heap) /\ Tree' = TreeOn(heap')
      /\ TextbookFreeVariables = TextbookOn(heap) /\ TextbookFreeVariables' = TextbookOn(heap')
      /\ Below = BelowOn(heap, {}) /\ Below' = BelowOn(heap', {})
  <2>1. Below = BelowOn(heap, {}) /\ Below' = BelowOn(heap', {})
    BY DEF Below, BelowUpTo, BelowOn
  <2>2. QED
    BY <2>1, OnTheHeap, OnTheNextHeap
<1>3. \A a \in 1..Len(heap) :
        /\ TreeOn(heap)[a] = TreeOn(heap')[a]
        /\ TextbookOn(heap)[a] = TextbookOn(heap')[a]
        /\ BelowOn(heap, {})[a] = BelowOn(heap', {})[a]
  <2>1. Len(heap) <= Len(heap') /\ \A a \in 1..Len(heap) : heap[a] = heap'[a]
    BY DEF Grows
  <2>2. QED
    BY <1>1, <2>1, GrownOn
<1>4. ASSUME NEW a \in DOMAIN heap
      PROVE  /\ a \in DOMAIN heap'
             /\ Tree'[a] = Tree[a]
             /\ TextbookFreeVariables'[a] = TextbookFreeVariables[a]
             /\ Below'[a] = Below[a]
  <2>1. a \in 1..Len(heap) /\ a \in DOMAIN heap'
    BY <1>1 DEF Grows
  <2>2. QED
    BY <1>2, <1>3, <2>1
<1>5. QED
  BY <1>4

\* Whether an abstraction is well scoped depends on what its parts have free.
LEMMA WellScopedLocal ==
  ASSUME NEW S, NEW t \in TermOver(S), t.tag = "Abstraction", NEW f, NEW g, \A x \in S : f[x] = g[x],
         WellScopedIn(t, f)
  PROVE  WellScopedIn(t, g)
<1>1. f[t.body] = g[t.body]
  BY BinderParts
<1>2. ContextOf(t, f) = ContextOf(t, g)
  BY <1>1 DEF ContextOf
<1>3. /\ \A j \in 1..Len(t.bound) : f[t.bound[j].value] = g[t.bound[j].value]
      /\ \A j \in 1..Len(t.parameters) : f[t.parameters[j].value] = g[t.parameters[j].value]
  BY BinderParts
<1>4. QED
  BY <1>2, <1>3 DEF WellScopedIn

-----------------------------------------------------------------------------

HeapInv ==
  /\ OnHeap(heap)
  /\ \A a \in DOMAIN heap : heap[a].tag = "Variable" => heap[a].instance = a
  /\ \A a \in DOMAIN heap : heap[a].tag = "Abstraction" => WellScopedIn(heap[a], TextbookFreeVariables)
  /\ \A a, b \in DOMAIN heap :
       Hashed(heap[a]) = Hashed(heap[b]) /\ TermEqual(heap[a], heap[b]) => a = b
ResultsInv ==
  /\ results \in Seq(1..Len(heap))
  /\ asked = [k \in 1..Len(results) |-> Tree[results[k]]]
CacheInv ==
  /\ DOMAIN free_variables_of_terms \subseteq DOMAIN heap
  /\ CacheIsTextbook
  /\ CachedAreSupported

\* TermEqual is symmetric.
LEMMA EqualBothWays == ASSUME NEW t, NEW u, TermEqual(t, u) PROVE TermEqual(u, t)
BY DEF TermEqual

\* A term that is put on the heap because it was not found there.
LEMMA HeapGrows ==
  ASSUME HeapInv, NEW t \in TermOver(1..Len(heap)), heap' = Append(heap, t),
         t.tag = "Variable" => t.instance = Len(heap) + 1,
         t.tag = "Abstraction" => WellScopedIn(t, TextbookFreeVariables),
         t.tag = "Variable" \/ Found(t) = {}
  PROVE  Grows /\ HeapInv'
<1>1. /\ OnHeap(heap) /\ Len(heap) \in Nat /\ DOMAIN heap = 1..Len(heap)
      /\ OnHeap(heap') /\ Len(heap') = Len(heap) + 1 /\ DOMAIN heap' = 1..(Len(heap) + 1)
      /\ heap'[Len(heap) + 1] = t
      /\ \A a \in 1..Len(heap) : heap'[a] = heap[a]
  BY HeapDomain, Pushed DEF HeapInv
<1>2. Grows
  BY <1>1 DEF Grows
<1>3. \A a \in DOMAIN heap' : a = Len(heap) + 1 \/ a \in DOMAIN heap
  BY <1>1
<1>4. \A a \in 1..Len(heap) : TextbookFreeVariables[a] = TextbookFreeVariables'[a]
  BY <1>1, <1>2, Grown
<1>5. \A a \in DOMAIN heap' : heap'[a].tag = "Variable" => heap'[a].instance = a
  BY <1>1, <1>3 DEF HeapInv
<1>6. ASSUME NEW a \in DOMAIN heap', heap'[a].tag = "Abstraction"
      PROVE  WellScopedIn(heap'[a], TextbookFreeVariables')
  <2>1. CASE a = Len(heap) + 1
    BY <1>1, <1>4, <1>6, <2>1, WellScopedLocal
  <2>2. CASE a \in DOMAIN heap
    <3>1. heap[a] \in TermOver(1..(a - 1)) /\ heap'[a] = heap[a] /\ WellScopedIn(heap[a], TextbookFreeVariables)
      BY <1>1, <1>6, <2>2 DEF HeapInv, OnHeap
    <3>2. \A x \in 1..(a - 1) : TextbookFreeVariables[x] = TextbookFreeVariables'[x]
      BY <1>1, <1>4, <2>2
    <3>3. heap[a].tag = "Abstraction"
      BY <1>6, <3>1
    <3>4. WellScopedIn(heap[a], TextbookFreeVariables')
      <4> DEFINE S == 1..(a - 1)
      <4>1. heap[a] \in TermOver(S) /\ \A x \in S : TextbookFreeVariables[x] = TextbookFreeVariables'[x]
        BY <3>1, <3>2
      <4> HIDE DEF S
      <4>2. QED
        BY <3>1, <3>3, <4>1, WellScopedLocal
    <3>5. QED
      BY <3>1, <3>4
  <2>3. QED
    BY <1>3, <2>1, <2>2
<1>7. ASSUME NEW a \in DOMAIN heap', NEW b \in DOMAIN heap',
             Hashed(heap'[a]) = Hashed(heap'[b]), TermEqual(heap'[a], heap'[b])
      PROVE  a = b
  <2>1. CASE a \in DOMAIN heap /\ b \in DOMAIN heap
    BY <1>1, <1>7, <2>1 DEF HeapInv
  <2>2. ASSUME NEW c \in DOMAIN heap, Hashed(heap[c]) = Hashed(t), TermEqual(heap[c], t) PROVE FALSE
    <3>1. t.tag # "Variable"
      BY <2>2 DEF TermEqual
    <3>2. QED
      BY <2>2, <3>1 DEF Found
  <2>3. QED
    BY <1>1, <1>3, <1>7, <2>1, <2>2, EqualBothWays
<1>8. QED
  BY <1>1, <1>2, <1>5, <1>6, <1>7 DEF HeapInv

\* What GetFreeVariables computes with its cache is what the textbook says.
LEMMA FreeIsTextbook ==
  ASSUME HeapInv, CacheInv
  PROVE  \A a \in DOMAIN heap : FreeVariables[a] = TextbookFreeVariables[a]
<1> DEFINE n == Len(heap)
           T == {a \in 1..n : FreeVariables[a] = TextbookFreeVariables[a]}
<1>1. OnHeap(heap) /\ n \in Nat /\ DOMAIN heap = 1..n
  BY HeapDomain DEF HeapInv
<1>2. ASSUME NEW a \in 1..n, \A b \in 1..(a - 1) : b \in T PROVE a \in T
  <2>1. CASE a \in DOMAIN free_variables_of_terms
    BY <1>1, <2>1, Computed DEF CacheInv, CacheIsTextbook, CachedAreSupported
  <2>2. CASE a \notin DOMAIN free_variables_of_terms
    <3> DEFINE S == 1..(a - 1)
               t == heap[a]
    <3>1. t \in TermOver(S) /\ \A b \in S : FreeVariables[b] = TextbookFreeVariables[b]
      BY <1>1, <1>2 DEF OnHeap
    <3>2. /\ t.tag = "Abstraction" => WellScopedIn(t, TextbookFreeVariables)
          /\ t.tag = "Variable" => t.instance = a
      BY <1>1 DEF HeapInv
    <3>3. /\ FreeVariables[a] = Core(t, FreeVariables)
          /\ TextbookFreeVariables[a] = Textbook(a, t, TextbookFreeVariables)
      BY <1>1, <2>2, Computed
    <3> HIDE DEF S, t
    <3>4. Core(t, FreeVariables) = Core(t, TextbookFreeVariables)
      BY <3>1, CoreLocal
    <3>5. Core(t, TextbookFreeVariables) = Textbook(a, t, TextbookFreeVariables)
      BY <3>1, <3>2, CoreIsTextbook
    <3>6. QED
      BY <3>3, <3>4, <3>5
  <2>3. QED
    BY <2>1, <2>2
<1> HIDE DEF n, T
<1>3. \A a \in 1..n : a \in T
  BY <1>1, <1>2, Upwards
<1>4. QED
  BY <1>1, <1>3 DEF T

\* What is below a term, and below that.
LEMMA BelowIs ==
  ASSUME HeapInv, NEW ends
  PROVE  \A a \in DOMAIN heap :
           /\ BelowUpTo(ends)[a] \subseteq 1..a
           /\ BelowUpTo(ends)[a] \subseteq Below[a]
           /\ \A c \in BelowUpTo(ends)[a] : BelowUpTo(ends)[c] \subseteq BelowUpTo(ends)[a]
<1> DEFINE n == Len(heap)
           B == BelowUpTo(ends)
           T == {a \in 1..n : /\ B[a] \subseteq 1..a
                              /\ B[a] \subseteq Below[a]
                              /\ \A c \in B[a] : B[c] \subseteq B[a]}
<1>1. OnHeap(heap) /\ n \in Nat /\ DOMAIN heap = 1..n
  BY HeapDomain DEF HeapInv
<1>2. ASSUME NEW a \in 1..n, \A b \in 1..(a - 1) : b \in T PROVE a \in T
  <2>1. B[a] = IF a \in ends THEN {} ELSE {a} \cup OfParts(heap[a], B)
    BY <1>1, Computed
  <2>2. Below[a] = {a} \cup OfParts(heap[a], Below)
    BY <1>1, Computed DEF Below
  <2> HIDE DEF B
  <2>3. \A b \in Parts(heap[a]) : b \in 1..(a - 1) /\ b \in T
    <3>1. heap[a] \in TermOver(1..(a - 1))
      BY <1>1 DEF OnHeap
    <3>2. QED
      BY <1>2, <3>1, PartsIn
  <2>4. CASE a \in ends
    BY <2>1, <2>4
  <2>5. CASE a \notin ends
    <3>1. B[a] = {a} \cup OfParts(heap[a], B)
      BY <2>1, <2>5
    <3>2. B[a] \subseteq 1..a
      <4>1. \A b \in Parts(heap[a]) : B[b] \subseteq 1..a
        BY <2>3
      <4>2. QED
        BY <3>1, <4>1 DEF OfParts
    <3>3. B[a] \subseteq Below[a]
      BY <2>2, <2>3, <3>1 DEF OfParts
    <3>4. \A c \in B[a] : B[c] \subseteq B[a]
      BY <2>3, <3>1 DEF OfParts
    <3>5. QED
      BY <3>2, <3>3, <3>4
  <2>6. QED
    BY <2>4, <2>5
<1> HIDE DEF n, T
<1>3. \A a \in 1..n : a \in T
  BY <1>1, <1>2, Upwards
<1>4. QED
  BY <1>1, <1>3 DEF T

\* When the terms that GetFreeVariables comes by are supported, all are: those below
\* a cached term were looked at before.
LEMMA SupportedBelow ==
  ASSUME HeapInv, CacheInv, NEW x \in DOMAIN heap, \A v \in Visited[x] : ~Unsupported(heap[v])
  PROVE  \A v \in Below[x] : ~Unsupported(heap[v])
<1> DEFINE n == Len(heap)
           Good(S) == \A v \in S : ~Unsupported(heap[v])
           T == {a \in 1..n : Good(Visited[a]) => Good(Below[a])}
<1>1. OnHeap(heap) /\ n \in Nat /\ DOMAIN heap = 1..n
  BY HeapDomain DEF HeapInv
<1>2. ASSUME NEW a \in 1..n, \A b \in 1..(a - 1) : b \in T PROVE a \in T
  <2>1. CASE a \in DOMAIN free_variables_of_terms
    BY <2>1 DEF CacheInv, CachedAreSupported
  <2>2. CASE a \notin DOMAIN free_variables_of_terms
    <3>1. Visited[a] = {a} \cup OfParts(heap[a], Visited)
      BY <1>1, <2>2, Computed DEF Visited
    <3>2. Below[a] = {a} \cup OfParts(heap[a], Below)
      BY <1>1, Computed DEF Below
    <3>3. \A b \in Parts(heap[a]) : b \in 1..(a - 1) /\ b \in T
      <4>1. heap[a] \in TermOver(1..(a - 1))
        BY <1>1 DEF OnHeap
      <4>2. QED
        BY <1>2, <4>1, PartsIn
    <3>4. QED
      BY <3>1, <3>2, <3>3 DEF OfParts
  <2>3. QED
    BY <2>1, <2>2
<1> HIDE DEF n, T
<1>3. \A a \in 1..n : a \in T
  BY <1>1, <1>2, Upwards
<1>4. QED
  BY <1>1, <1>3 DEF T

\* The cache stays right when terms are put on the heap,
LEMMA CacheKept ==
  ASSUME HeapInv, CacheInv, Grows, UNCHANGED free_variables_of_terms
  PROVE  CacheInv'
<1>1. OnHeap(heap) /\ Len(heap) \in Nat /\ DOMAIN heap = 1..Len(heap)
  BY HeapDomain DEF HeapInv
<1>2. ASSUME NEW a \in DOMAIN free_variables_of_terms
      PROVE  /\ a \in DOMAIN heap'
             /\ free_variables_of_terms[a] = TextbookFreeVariables'[a]
             /\ \A b \in Below'[a] : ~Unsupported(heap'[b])
  <2>1. a \in DOMAIN heap
    BY DEF CacheInv
  <2>2. \A b \in Below[a] : b \in 1..Len(heap)
    BY <1>1, <2>1, BelowIs DEF Below
  <2>3. QED
    BY <1>1, <2>1, <2>2, Grown DEF CacheInv, CacheIsTextbook, CachedAreSupported, Grows
<1>3. QED
  BY <1>2 DEF CacheInv, CacheIsTextbook, CachedAreSupported

\* and when the free variables of supported terms are put into it.
LEMMA CacheGrows ==
  ASSUME HeapInv, CacheInv, Grows, NEW S \in SUBSET DOMAIN heap, AllSupported(S),
         CacheFreeVariables(S)
  PROVE  CacheInv'
<1>1. OnHeap(heap) /\ Len(heap) \in Nat /\ DOMAIN heap = 1..Len(heap)
  BY HeapDomain DEF HeapInv
<1>2. ASSUME NEW a \in DOMAIN free_variables_of_terms \cup Cached(S)
      PROVE  /\ a \in DOMAIN heap
             /\ \A b \in Below[a] : ~Unsupported(heap[b])
  <2>1. CASE a \in DOMAIN free_variables_of_terms
    BY <2>1 DEF CacheInv, CachedAreSupported
  <2>2. CASE a \in Cached(S)
    <3>1. PICK b \in S : a \in Visited[b]
      BY <2>2 DEF Cached
    <3>2. a \in DOMAIN heap /\ Visited[a] \subseteq Visited[b]
      BY <1>1, <3>1, BelowIs DEF Visited
    <3>3. \A v \in Visited[a] : ~Unsupported(heap[v])
      BY <3>1, <3>2 DEF AllSupported
    <3>4. QED
      BY <3>2, <3>3, SupportedBelow
  <2>3. QED
    BY <2>1, <2>2
<1>3. ASSUME NEW a \in DOMAIN free_variables_of_terms \cup Cached(S)
      PROVE  /\ a \in DOMAIN heap'
             /\ FreeVariables[a] = TextbookFreeVariables'[a]
             /\ \A b \in Below'[a] : ~Unsupported(heap'[b])
  <2>1. a \in DOMAIN heap
    BY <1>2
  <2>2. \A b \in Below[a] : b \in 1..Len(heap)
    BY <1>1, <2>1, BelowIs DEF Below
  <2>3. QED
    BY <1>1, <1>2, <2>1, <2>2, Grown, FreeIsTextbook DEF Grows
<1>4. /\ DOMAIN free_variables_of_terms' = DOMAIN free_variables_of_terms \cup Cached(S)
      /\ \A a \in DOMAIN free_variables_of_terms' : free_variables_of_terms'[a] = FreeVariables[a]
  BY DEF CacheFreeVariables
<1>5. QED
  BY <1>3, <1>4 DEF CacheInv, CacheIsTextbook, CachedAreSupported

\* The operands of a call.
LEMMA CallIs ==
  ASSUME NEW S, NEW c \in Call(S)
  PROVE  /\ c.call = "make" => c.term \in TermOver(S) /\ c.term.tag \notin {"Variable", "Abstraction"}
         /\ c.call = "abstraction" => c.term \in TermOver(S) /\ c.term.tag = "Abstraction"
         /\ c.call = "free" => c.of \in S
         /\ c.call = "type" => c.term \in S /\ c.bindings \in Seq(S)
BY DEF Call

\* A term over some addresses is one over more of them.
LEMMA TermOverMore ==
  ASSUME NEW S, NEW R, S \subseteq R, NEW t \in TermOver(S)
  PROVE  t \in TermOver(R)
<1> DEFINE f == [c \in S |-> c]
<1>1. \A c \in S : f[c] = c /\ f[c] \in R
  OBVIOUS
<1> HIDE DEF f
<1>2. QED
  BY <1>1, RenamedType, RenamedId

\* What Append does to a function on 1..n, whatever the element.
LEMMA AppendAny ==
  ASSUME NEW n \in Nat, NEW s, s = [k \in 1..n |-> s[k]], NEW e
  PROVE  Append(s, e) = [k \in 1..(n + 1) |-> IF k = n + 1 THEN e ELSE s[k]]
<1> DEFINE S == {s[k] : k \in 1..n} \cup {e}
<1>1. s \in [1..n -> S]
  OBVIOUS
<1>2. s \in Seq(S) /\ Len(s) = n /\ e \in S
  BY <1>1, FunctionIsSeq
<1> HIDE DEF S
<1>3. /\ Append(s, e) \in Seq(S) /\ Len(Append(s, e)) = n + 1
      /\ \A k \in 1..n : Append(s, e)[k] = s[k]
      /\ Append(s, e)[n + 1] = e
  BY <1>2, AppendProperties
<1>4. Append(s, e) = [k \in 1..(n + 1) |-> Append(s, e)[k]]
  BY <1>3, LenProperties
<1>5. \A k \in 1..(n + 1) : k = n + 1 \/ k \in 1..n
  OBVIOUS
<1>6. QED
  BY <1>3, <1>4, <1>5

\* What the client holds.
LEMMA ResultIs ==
  ASSUME HeapInv, ResultsInv
  PROVE  /\ Len(results) \in Nat
         /\ \A k \in 1..Len(results) :
              results[k] \in 1..Len(heap) /\ results[k] \in DOMAIN heap /\ asked[k] = Tree[results[k]]
<1>1. DOMAIN heap = 1..Len(heap)
  BY HeapDomain DEF HeapInv
<1>2. QED
  BY <1>1, LenProperties, ElementOfSeq DEF ResultsInv

\* One more result.
LEMMA ResultGrows ==
  ASSUME HeapInv, ResultsInv, Grows, NEW x \in 1..Len(heap'), results' = Append(results, x),
         asked' = Append(asked, Tree'[x])
  PROVE  ResultsInv' /\ Len(results') = Len(results) + 1
<1>1. /\ Len(results) \in Nat
      /\ Len(heap) \in Nat /\ DOMAIN heap = 1..Len(heap)
      /\ Len(heap') \in Nat /\ Len(heap) <= Len(heap')
  BY ResultIs, HeapDomain DEF HeapInv, Grows
<1>2. \A k \in 1..Len(results) : results[k] \in 1..Len(heap')
  BY <1>1, ResultIs
<1>3. results \in Seq(1..Len(heap'))
  <2>1. results = [k \in 1..Len(results) |-> results[k]]
    BY LenProperties DEF ResultsInv
  <2>2. results \in [1..Len(results) -> 1..Len(heap')]
    BY <1>2, <2>1
  <2>3. QED
    BY <1>1, <2>2, FunctionIsSeq
<1>4. /\ results' \in Seq(1..Len(heap')) /\ Len(results') = Len(results) + 1
      /\ \A k \in 1..Len(results) : results'[k] = results[k]
      /\ results'[Len(results) + 1] = x
  BY <1>3, AppendProperties
<1>5. asked' = [k \in 1..(Len(results) + 1) |-> IF k = Len(results) + 1 THEN Tree'[x] ELSE asked[k]]
  <2>1. asked = [k \in 1..Len(results) |-> asked[k]]
    BY DEF ResultsInv
  <2>2. QED
    BY <1>1, <2>1, AppendAny
<1>6. ASSUME NEW k \in 1..(Len(results) + 1)
      PROVE  (IF k = Len(results) + 1 THEN Tree'[x] ELSE asked[k]) = Tree'[results'[k]]
  <2>1. CASE k = Len(results) + 1
    BY <1>4, <2>1
  <2>2. CASE k # Len(results) + 1
    <3>1. k \in 1..Len(results)
      BY <1>1, <2>2
    <3>2. asked[k] = Tree[results[k]] /\ results[k] \in DOMAIN heap
      BY <3>1, ResultIs
    <3>3. Tree'[results[k]] = Tree[results[k]]
      BY <3>2, Grown DEF HeapInv
    <3>4. QED
      BY <1>4, <2>2, <3>1, <3>2, <3>3
  <2>3. QED
    BY <2>1, <2>2
<1>7. asked' = [k \in 1..Len(results') |-> Tree'[results'[k]]]
  BY <1>4, <1>5, <1>6
<1>8. QED
  BY <1>4, <1>7 DEF ResultsInv

\* A call that makes no term leaves the heap and what the client holds alone.
LEMMA StoreKept ==
  ASSUME HeapInv, ResultsInv, UNCHANGED storeVars
  PROVE  Grows /\ HeapInv' /\ ResultsInv'
<1>1. heap' = heap /\ results' = results /\ asked' = asked
  BY DEF storeVars
<1>2. Len(heap) \in Nat
  BY HeapDomain DEF HeapInv
<1>3. Tree' = Tree /\ TextbookFreeVariables' = TextbookFreeVariables
  BY <1>1, OnTheHeap, OnTheNextHeap
<1>4. Grows
  BY <1>1, <1>2 DEF Grows, HeapInv
<1>5. HeapInv'
  BY <1>1, <1>3 DEF HeapInv
<1>6. ResultsInv'
  BY <1>1, <1>3 DEF ResultsInv
<1>7. QED
  BY <1>4, <1>5, <1>6

\* MakeCanonical of a term over the results.
LEMMA MadeCanonical ==
  ASSUME HeapInv, ResultsInv, NEW c \in TermOver(1..Len(results)), c.tag # "Variable",
         c.tag = "Abstraction" => WellScopedIn(Renamed(c, results), TextbookFreeVariables),
         Canonical(Renamed(c, results), Compared(Renamed(c, asked)))
  PROVE  Grows /\ HeapInv' /\ ResultsInv' /\ Len(results') = Len(results) + 1
<1> DEFINE t == Renamed(c, results)
           tree == Compared(Renamed(c, asked))
           n == Len(heap)
<1>1. OnHeap(heap) /\ n \in Nat /\ DOMAIN heap = 1..n
  BY HeapDomain DEF HeapInv
<1>2. t \in TermOver(1..n) /\ t.tag = c.tag
  BY ResultIs, RenamedType, KeepsTag
<1>3. Compared(Renamed(t, Tree)) = tree
  <2> DEFINE S == 1..Len(results)
  <2>1. c \in TermOver(S) /\ \A x \in S : asked[x] = Tree[results[x]]
    BY ResultIs
  <2> HIDE DEF S
  <2>2. Renamed(Renamed(c, results), Tree) = Renamed(c, asked)
    BY <2>1, RenamedTwice
  <2>3. QED
    BY <2>2
<1>4. t.tag # "Variable" /\ (t.tag = "Abstraction" => WellScopedIn(t, TextbookFreeVariables))
  BY <1>2
<1>5. /\ heap' = IF Found(t) = {} THEN Append(heap, t) ELSE heap
      /\ results' = Append(results, IF Found(t) = {} THEN n + 1 ELSE CHOOSE a \in Found(t) : TRUE)
      /\ asked' = Append(asked, tree)
  BY DEF Canonical
<1> HIDE DEF t, tree, n
<1>6. CASE Found(t) = {}
  <2>1. heap' = Append(heap, t) /\ results' = Append(results, n + 1) /\ asked' = Append(asked, tree)
    BY <1>5, <1>6
  <2>2. Grows /\ HeapInv'
    BY <1>2, <1>4, <1>6, <2>1, HeapGrows DEF n
  <2>3. OnHeap(heap') /\ Len(heap') = n + 1 /\ n + 1 \in DOMAIN heap' /\ heap'[n + 1] = t
    BY <1>1, <1>2, <2>1, Pushed DEF n
  <2>4. Tree'[n + 1] = tree
    <3>1. TreeOn(heap')[n + 1] = Compared(Renamed(t, TreeOn(heap')))
      BY <2>3, TreeSolves DEF Solves, Step
    <3>2. Tree'[n + 1] = Compared(Renamed(t, Tree'))
      BY <3>1, OnTheNextHeap
    <3>3. Renamed(t, Tree') = Renamed(t, Tree)
      <4>1. \A a \in 1..n : Tree'[a] = Tree[a]
        BY <1>1, <2>2, Grown
      <4> DEFINE S == 1..n
      <4>2. t \in TermOver(S) /\ \A x \in S : Tree'[x] = Tree[x]
        BY <1>2, <4>1
      <4> HIDE DEF S
      <4>3. QED
        BY <4>2, RenamedSame
    <3>4. QED
      BY <1>3, <3>2, <3>3
  <2>5. n + 1 \in 1..Len(heap')
    BY <1>1, <2>3
  <2>6. QED
    BY <2>1, <2>2, <2>4, <2>5, ResultGrows
<1>7. CASE Found(t) # {}
  <2> DEFINE a == CHOOSE x \in Found(t) : TRUE
  <2>1. heap' = heap /\ results' = Append(results, a) /\ asked' = Append(asked, tree)
    BY <1>5, <1>7
  <2>2. a \in DOMAIN heap /\ TermEqual(heap[a], t)
    <3>1. a \in Found(t)
      BY <1>7
    <3>2. QED
      BY <3>1 DEF Found
  <2> HIDE DEF a
  <2>3. Tree' = Tree /\ TextbookFreeVariables' = TextbookFreeVariables
    BY <2>1, OnTheHeap, OnTheNextHeap
  <2>4. Grows /\ HeapInv'
    BY <1>1, <2>1, <2>3 DEF Grows, HeapInv, n
  <2>5. Tree[a] = tree
    <3>1. heap[a] \in TermOver(1..n)
      <4>1. heap[a] \in TermOver(1..(a - 1)) /\ 1..(a - 1) \subseteq 1..n
        BY <1>1, <2>2 DEF OnHeap
      <4>2. QED
        BY <4>1, TermOverMore
    <3>2. Compared(Renamed(heap[a], Tree)) = Compared(Renamed(t, Tree))
      BY <1>2, <2>2, <3>1, ComparedRenamed DEF TermEqual
    <3>3. QED
      BY <1>1, <1>3, <2>2, <3>2, Computed
  <2>6. a \in 1..Len(heap')
    BY <1>1, <2>1, <2>2 DEF n
  <2>7. QED
    BY <2>1, <2>3, <2>4, <2>5, <2>6, ResultGrows
<1>8. QED
  BY <1>6, <1>7

-----------------------------------------------------------------------------
(* The inductive invariant.                                                *)

Key == [term : Nat, bindings : Seq(Nat)]
TypesInv ==
  /\ types_of_terms_in_context \subseteq Key \X Types
  /\ making \in Seq(Key)
  /\ \A e, f \in types_of_terms_in_context : e[1] = f[1] => e = f
  /\ answers \subseteq types_of_terms_in_context
StoreInv == PlanInv /\ HeapInv /\ ResultsInv /\ CacheInv
Inv == StoreInv /\ TypesInv /\ (status = "stopped" => AsksTheUnsupported)

\* Calls that are not about types leave the types alone.
LEMMA TypesKept == ASSUME TypesInv, UNCHANGED typeVars PROVE TypesInv'
BY DEF TypesInv, typeVars

\* An entry for a key is the entry for it.
LEMMA EntryIs ==
  ASSUME NEW E, E \subseteq Key \X Types, NEW key, \E e \in E : e[1] = key
  PROVE  <<key, TypeIn(E, key)>> \in E
<1> DEFINE e == CHOOSE x \in E : x[1] = key
<1>1. e \in E /\ e[1] = key
  OBVIOUS
<1> HIDE DEF e
<1>2. e = <<e[1], e[2]>>
  BY <1>1
<1>3. TypeIn(E, key) = e[2]
  BY DEF TypeIn, e
<1>4. QED
  BY <1>1, <1>2, <1>3

\* Nothing on the heap or in the cache changes.
LEMMA AllKept ==
  ASSUME StoreInv, UNCHANGED <<plan, storeVars, free_variables_of_terms>>
  PROVE  StoreInv' /\ (AsksTheUnsupported => AsksTheUnsupported')
<1>1. HeapInv /\ ResultsInv /\ CacheInv /\ PlanInv
  BY DEF StoreInv
<1>2. heap' = heap /\ results' = results /\ plan' = plan
  BY DEF storeVars
<1>3. Grows /\ HeapInv' /\ ResultsInv'
  BY <1>1, StoreKept
<1>4. CacheInv'
  BY <1>1, <1>3, CacheKept
<1>5. PlanInv'
  BY <1>1, <1>2 DEF PlanInv
<1>6. Below' = Below
  BY <1>2 DEF Below, BelowUpTo
<1>7. AsksTheUnsupported => AsksTheUnsupported'
  BY <1>2, <1>6 DEF AsksTheUnsupported, Moves
<1>8. QED
  BY <1>1, <1>3, <1>4, <1>5, <1>7 DEF StoreInv

\* A call that ends the program may do so only where it is not supported.
LEMMA Stops == ASSUME Inv, Stop, AsksTheUnsupported PROVE Inv'
<1>1. StoreInv' /\ AsksTheUnsupported'
  BY AllKept DEF Stop, Inv
<1>2. TypesInv'
  BY TypesKept DEF Stop, Inv
<1>3. QED
  BY <1>1, <1>2 DEF Inv

\* A step that does not end the program.
LEMMA RunsOn ==
  ASSUME status' = status, status = "running", StoreInv', TypesInv' PROVE Inv'
BY DEF Inv

\* The steps of TermStore, one by one.
LEMMA VariableStep == ASSUME Inv, MakeNewVariable PROVE Inv'
<1>0. /\ PlanInv /\ HeapInv /\ ResultsInv /\ CacheInv /\ TypesInv
      /\ plan # <<>> /\ Head(plan).call = "variable" /\ status = "running" /\ status' = status
      /\ plan' = Tail(plan) /\ free_variables_of_terms' = free_variables_of_terms
      /\ UNCHANGED typeVars
  BY DEF Inv, StoreInv, MakeNewVariable, Calls
<1> DEFINE n == Len(heap)
           v == Variable(n + 1)
<1>1. heap' = Append(heap, v) /\ results' = Append(results, Len(heap')) /\ asked' = Append(asked, v)
  BY DEF MakeNewVariable
<1>2. OnHeap(heap) /\ n \in Nat
  BY <1>0, HeapDomain DEF HeapInv
<1>3. v \in TermOver(1..n) /\ v.tag = "Variable" /\ v.instance = n + 1
  BY <1>2 DEF Variable, TermOver
<1> HIDE DEF n, v
<1>4. Grows /\ HeapInv'
  BY <1>0, <1>1, <1>3, HeapGrows DEF n, Literals, Unmovable
<1>5. OnHeap(heap') /\ Len(heap') = n + 1 /\ n + 1 \in DOMAIN heap' /\ heap'[n + 1] = v
  BY <1>1, <1>2, <1>3, Pushed DEF n
<1>6. Tree'[n + 1] = v
  <2>1. TreeOn(heap')[n + 1] = Compared(Renamed(v, TreeOn(heap')))
    BY <1>5, TreeSolves DEF Solves, Step
  <2>2. Renamed(v, TreeOn(heap')) = v
    BY <1>3, IfPlain
  <2>3. Compared(v) = v
    BY <1>3, ComparedShape DEF Products
  <2>4. QED
    BY <2>1, <2>2, <2>3, OnTheNextHeap
<1>7. ResultsInv' /\ Len(results') = Len(results) + 1
  <2>1. n + 1 \in 1..Len(heap')
    BY <1>2, <1>5
  <2>2. results' = Append(results, n + 1) /\ asked' = Append(asked, Tree'[n + 1])
    BY <1>1, <1>5, <1>6
  <2>3. QED
    BY <1>0, <1>4, <2>1, <2>2, ResultGrows
<1>8. PlanInv'
  BY <1>0, <1>7, NextCall DEF Giving
<1>9. CacheInv'
  BY <1>0, <1>4, CacheKept
<1>10. QED
  BY <1>0, <1>4, <1>7, <1>8, <1>9, TypesKept, RunsOn DEF StoreInv

\* MakeCanonical.
LEMMA CanonicalStep == ASSUME Inv, MakeCanonical PROVE Inv'
<1> DEFINE c == Head(plan).term
           t == Renamed(c, results)
<1>0. /\ PlanInv /\ HeapInv /\ ResultsInv /\ CacheInv /\ TypesInv
      /\ plan # <<>> /\ Head(plan).call = "make" /\ status = "running"
  BY DEF Inv, StoreInv, MakeCanonical, Calls
<1>1. c \in TermOver(1..Len(results)) /\ c.tag # "Variable" /\ c.tag # "Abstraction"
  BY <1>0, NextCall, CallIs
<1>2. CASE ~(Moves(t) \/ Found(t) # {})
  <2>1. Stop
    BY <1>2 DEF MakeCanonical
  <2>2. AsksTheUnsupported
    BY <1>0, <1>2 DEF AsksTheUnsupported
  <2>3. QED
    BY <2>1, <2>2, Stops
<1>3. CASE Moves(t) \/ Found(t) # {}
  <2>1. Canonical(t, Compared(Renamed(c, asked))) /\ UNCHANGED free_variables_of_terms
    BY <1>3 DEF MakeCanonical
  <2>2. plan' = Tail(plan) /\ UNCHANGED typeVars /\ status' = status
    BY <2>1 DEF Canonical
  <2>3. Grows /\ HeapInv' /\ ResultsInv' /\ Len(results') = Len(results) + 1
    BY <1>0, <1>1, <2>1, MadeCanonical
  <2>4. PlanInv'
    BY <1>0, <2>2, <2>3, NextCall DEF Giving
  <2>5. CacheInv'
    BY <1>0, <2>1, <2>3, CacheKept
  <2>6. QED
    BY <1>0, <2>2, <2>3, <2>4, <2>5, TypesKept, RunsOn DEF StoreInv
<1>4. QED
  BY <1>2, <1>3

\* What is not supported among the terms GetFreeVariables comes by is below one it was
\* asked about.
LEMMA NotSupported ==
  ASSUME HeapInv, NEW S \in SUBSET DOMAIN heap, ~AllSupported(S)
  PROVE  \E a \in UNION {Below[b] : b \in S} : Unsupported(heap[a])
BY BelowIs DEF AllSupported, Visited

\* GetFreeVariables.
LEMMA FreeStep == ASSUME Inv, GetFreeVariables PROVE Inv'
<1> DEFINE a == results[Head(plan).of]
<1>0. /\ StoreInv /\ PlanInv /\ HeapInv /\ ResultsInv /\ CacheInv /\ TypesInv
      /\ plan # <<>> /\ Head(plan).call = "free" /\ status = "running"
  BY DEF Inv, StoreInv, GetFreeVariables, Calls
<1>1. a \in DOMAIN heap
  BY <1>0, NextCall, CallIs, ResultIs
<1>2. CASE ~AllSupported({a})
  <2>1. Stop
    BY <1>2 DEF GetFreeVariables
  <2>2. AsksTheUnsupported
    <3>1. {a} \in SUBSET DOMAIN heap
      BY <1>1
    <3>2. \E x \in UNION {Below[b] : b \in {a}} : Unsupported(heap[x])
      BY <1>0, <1>2, <3>1, NotSupported
    <3>3. QED
      BY <1>0, <3>2 DEF AsksTheUnsupported
  <2>3. QED
    BY <2>1, <2>2, Stops
<1>3. CASE AllSupported({a})
  <2>1. /\ CacheFreeVariables({a}) /\ plan' = Tail(plan)
        /\ UNCHANGED storeVars /\ UNCHANGED typeVars /\ status' = status
    BY <1>3 DEF GetFreeVariables
  <2>2. Grows /\ HeapInv' /\ ResultsInv'
    BY <1>0, <2>1, StoreKept
  <2>3. CacheInv'
    <3>1. {a} \in SUBSET DOMAIN heap
      BY <1>1
    <3>2. QED
      BY <1>0, <1>3, <2>1, <2>2, <3>1, CacheGrows
  <2>4. PlanInv'
    <3>1. results' = results
      BY <2>1 DEF storeVars
    <3>2. Len(results) + 0 = Len(results)
      BY <1>0, ResultIs
    <3>3. QED
      BY <1>0, <2>1, <3>1, <3>2, NextCall DEF Giving
  <2>5. QED
    BY <1>0, <2>1, <2>2, <2>3, <2>4, TypesKept, RunsOn DEF StoreInv
<1>4. QED
  BY <1>2, <1>3

-----------------------------------------------------------------------------
(* MakeAbstraction.                                                        *)

\* The operands of MakeAbstraction are the parts of the abstraction.
LEMMA OperandsAre ==
  ASSUME NEW S, NEW t \in TermOver(S), t.tag = "Abstraction"
  PROVE  /\ DOMAIN Operands(t) = 1..(1 + Len(t.bound) + Len(t.parameters))
         /\ {Operands(t)[n] : n \in DOMAIN Operands(t)} = Parts(t)
<1> DEFINE nb == Len(t.bound)
           np == Len(t.parameters)
           P == Parts(t)
           body == <<t.body>>
           bound == [k \in DOMAIN t.bound |-> t.bound[k].value]
           parameters == [k \in DOMAIN t.parameters |-> t.parameters[k].value]
<1>1. nb \in Nat /\ np \in Nat /\ DOMAIN t.bound = 1..nb /\ DOMAIN t.parameters = 1..np
  BY BinderParts
<1>2. P = {b.value : b \in Range(t.bound) \cup Range(t.parameters)} \cup {t.body}
  BY DEF Parts, Literals, Unmovable, Products
<1>3. /\ t.body \in P
      /\ \A k \in 1..nb : t.bound[k].value \in P
      /\ \A k \in 1..np : t.parameters[k].value \in P
  BY <1>1, <1>2 DEF Range
<1>4. ASSUME NEW x \in P
      PROVE  \/ x = t.body
             \/ \E k \in 1..nb : x = t.bound[k].value
             \/ \E k \in 1..np : x = t.parameters[k].value
  BY <1>1, <1>2 DEF Range
<1> HIDE DEF nb, np, P
<1>5. body \in Seq(P) /\ Len(body) = 1 /\ body[1] = t.body
  BY <1>3
<1>6. bound \in Seq(P) /\ Len(bound) = nb /\ \A k \in 1..nb : bound[k] = t.bound[k].value
  <2>1. bound \in [1..nb -> P]
    BY <1>1, <1>3
  <2>2. QED
    BY <1>1, <2>1, FunctionIsSeq
<1>7. parameters \in Seq(P) /\ Len(parameters) = np /\ \A k \in 1..np : parameters[k] = t.parameters[k].value
  <2>1. parameters \in [1..np -> P]
    BY <1>1, <1>3
  <2>2. QED
    BY <1>1, <2>1, FunctionIsSeq
<1>8. Operands(t) = (body \o bound) \o parameters
  BY DEF Operands
<1> HIDE DEF body, bound, parameters
<1>9. /\ body \o bound \in Seq(P)
      /\ Len(body \o bound) = 1 + nb
      /\ \A i \in 1..(1 + nb) : (body \o bound)[i] = IF i <= 1 THEN body[i] ELSE bound[i - 1]
  <2>1. /\ body \o bound \in Seq(P)
        /\ Len(body \o bound) = Len(body) + Len(bound)
        /\ \A i \in 1..(Len(body) + Len(bound)) :
             (body \o bound)[i] = IF i <= Len(body) THEN body[i] ELSE bound[i - Len(body)]
    BY <1>5, <1>6, ConcatProperties
  <2>2. QED
    BY <1>5, <1>6, <2>1
<1>10. /\ Operands(t) \in Seq(P)
       /\ Len(Operands(t)) = 1 + nb + np
       /\ \A i \in 1..(1 + nb + np) :
            Operands(t)[i] = IF i <= 1 + nb THEN (body \o bound)[i] ELSE parameters[i - (1 + nb)]
  <2> DEFINE bb == body \o bound
  <2>1. bb \in Seq(P) /\ Len(bb) = 1 + nb /\ Operands(t) = bb \o parameters
    BY <1>8, <1>9
  <2> HIDE DEF bb
  <2>2. /\ bb \o parameters \in Seq(P)
        /\ Len(bb \o parameters) = Len(bb) + Len(parameters)
        /\ \A i \in 1..(Len(bb) + Len(parameters)) :
             (bb \o parameters)[i] = IF i <= Len(bb) THEN bb[i] ELSE parameters[i - Len(bb)]
    BY <1>7, <2>1, ConcatProperties
  <2>3. QED
    BY <1>7, <2>1, <2>2 DEF bb
<1>11. DOMAIN Operands(t) = 1..(1 + nb + np) /\ \A n \in 1..(1 + nb + np) : Operands(t)[n] \in P
  BY <1>10, LenProperties, ElementOfSeq
<1>12. ASSUME NEW x \in P PROVE \E n \in 1..(1 + nb + np) : Operands(t)[n] = x
  <2>1. CASE x = t.body
    <3>1. 1 \in 1..(1 + nb + np) /\ 1 \in 1..(1 + nb) /\ 1 <= 1 + nb
      BY <1>1
    <3>2. Operands(t)[1] = (body \o bound)[1]
      BY <1>10, <3>1
    <3>4. (body \o bound)[1] = body[1]
      BY <1>9, <3>1
    <3>3. QED
      BY <1>5, <2>1, <3>1, <3>2, <3>4
  <2>2. ASSUME NEW k \in 1..nb, x = t.bound[k].value PROVE \E n \in 1..(1 + nb + np) : Operands(t)[n] = x
    <3>1. 1 + k \in 1..(1 + nb + np) /\ 1 + k \in 1..(1 + nb) /\ 1 + k <= 1 + nb /\ ~(1 + k <= 1) /\ (1 + k) - 1 = k
      BY <1>1
    <3>2. Operands(t)[1 + k] = (body \o bound)[1 + k]
      BY <1>10, <3>1
    <3>3. (body \o bound)[1 + k] = bound[k]
      BY <1>9, <3>1
    <3>4. QED
      BY <1>6, <2>2, <3>1, <3>2, <3>3
  <2>3. ASSUME NEW k \in 1..np, x = t.parameters[k].value PROVE \E n \in 1..(1 + nb + np) : Operands(t)[n] = x
    <3>1. 1 + nb + k \in 1..(1 + nb + np) /\ ~(1 + nb + k <= 1 + nb) /\ (1 + nb + k) - (1 + nb) = k
      BY <1>1
    <3>2. Operands(t)[1 + nb + k] = parameters[k]
      BY <1>10, <3>1
    <3>3. QED
      BY <1>7, <2>3, <3>1, <3>2
  <2>4. QED
    BY <1>4, <2>1, <2>2, <2>3
<1>13. QED
  BY <1>11, <1>12 DEF nb, np, P

\* Module Abstraction sees as many binders as the term has.
LEMMA ScopedLengths ==
  ASSUME NEW S, NEW t \in TermOver(S), t.tag = "Abstraction"
  PROVE  /\ Len(Scoped(t)!bound) = Len(t.bound)
         /\ Len(Scoped(t)!parameters) = Len(t.parameters)
         /\ Scoped(t)!parameters # <<>> => t.parameters # <<>>
<1>1. /\ DOMAIN t.bound = 1..Len(t.bound) /\ DOMAIN t.parameters = 1..Len(t.parameters)
      /\ Len(t.bound) \in Nat /\ Len(t.parameters) \in Nat
  BY BinderParts
<1> DEFINE bs == Scoped(t)!bound
           ps == Scoped(t)!parameters
<1>2. /\ bs = [k \in DOMAIN t.bound |->
                [variable |-> t.bound[k].variable, fvs |-> FreeVariables[t.bound[k].value]]]
      /\ ps = [k \in DOMAIN t.parameters |->
                [variable |-> t.parameters[k].variable, fvs |-> FreeVariables[t.parameters[k].value]]]
  BY DEF Scoped!bound, Scoped!parameters
<1>3. /\ bs \in [1..Len(t.bound) -> {bs[k] : k \in 1..Len(t.bound)}]
      /\ ps \in [1..Len(t.parameters) -> {ps[k] : k \in 1..Len(t.parameters)}]
  BY <1>1, <1>2
<1>4. Len(bs) = Len(t.bound) /\ Len(ps) = Len(t.parameters)
  BY <1>1, <1>3, FunctionIsSeq
<1>5. t.parameters = <<>> => ps = <<>>
  BY <1>2
<1>6. QED
  BY <1>4, <1>5

\* In a well scoped abstraction no operand comes after an illegal binder.
LEMMA WellScopedIsLegal ==
  ASSUME NEW S, NEW t \in TermOver(S), t.tag = "Abstraction", Scoped(t)!WellScoped,
         NEW n \in 1..(1 + Len(t.bound) + Len(t.parameters))
  PROVE  t.parameters # <<>> /\ LegalUpTo(t, n - 2)
<1>1. /\ Len(t.bound) \in Nat /\ Len(t.parameters) \in Nat
      /\ Len(Scoped(t)!bound) = Len(t.bound)
      /\ Len(Scoped(t)!parameters) = Len(t.parameters)
  BY BinderParts, ScopedLengths
<1>2. t.parameters # <<>>
  BY ScopedLengths DEF Scoped!WellScoped
<1>3. /\ Scoped(t)!BoundInOrder(Len(t.bound))
      /\ Scoped(t)!ParametersInOrder(Len(t.parameters))
  BY <1>1 DEF Scoped!WellScoped
<1>4. ASSUME NEW m \in Int, m <= Len(t.bound) PROVE Scoped(t)!BoundInOrder(m)
  <2>1. \A j \in 1..m : j \in 1..Len(t.bound)
    BY <1>1, <1>4
  <2>2. QED
    BY <1>3, <2>1 DEF Scoped!BoundInOrder
<1>5. ASSUME NEW m \in Int, m <= Len(t.parameters) PROVE Scoped(t)!ParametersInOrder(m)
  <2>1. \A j \in 1..m : j \in 1..Len(t.parameters)
    BY <1>1, <1>5
  <2>2. QED
    BY <1>3, <2>1 DEF Scoped!ParametersInOrder
<1>6. LegalUpTo(t, n - 2)
  <2> DEFINE nb == Len(t.bound)
             m == IF n - 2 < nb THEN n - 2 ELSE nb
  <2>1. m \in Int /\ m <= nb /\ (n - 2) - nb \in Int /\ (n - 2) - nb <= Len(t.parameters)
    <3>1. \A x, y \in Nat : \A k \in 1..(1 + x + y) :
            LET l == IF k - 2 < x THEN k - 2 ELSE x
            IN  l \in Int /\ l <= x /\ (k - 2) - x \in Int /\ (k - 2) - x <= y
      OBVIOUS
    <3>2. QED
      BY <1>1, <3>1
  <2> HIDE DEF m, nb
  <2>2. Scoped(t)!BoundInOrder(m) /\ Scoped(t)!ParametersInOrder((n - 2) - nb)
    BY <1>4, <1>5, <2>1 DEF nb
  <2>3. QED
    BY <2>2 DEF LegalUpTo, m, nb
<1>7. QED
  BY <1>2, <1>6

\* MakeAbstraction.
LEMMA AbstractionStep == ASSUME Inv, MakeAbstraction PROVE Inv'
<1> DEFINE c == Head(plan).term
           t == Renamed(c, results)
           stops == /\ t.parameters # <<>>
                    /\ \E n \in DOMAIN Operands(t) :
                         ~AllSupported({Operands(t)[n]}) /\ LegalUpTo(t, n - 2)
<1>0. /\ StoreInv /\ PlanInv /\ HeapInv /\ ResultsInv /\ CacheInv /\ TypesInv
      /\ plan # <<>> /\ Head(plan).call = "abstraction" /\ status = "running"
  BY DEF Inv, StoreInv, MakeAbstraction, Calls
<1>1. c \in TermOver(1..Len(results)) /\ c.tag = "Abstraction"
  BY <1>0, NextCall, CallIs
<1>2. t \in TermOver(1..Len(heap)) /\ t.tag = "Abstraction"
  BY <1>0, <1>1, ResultIs, RenamedType, KeepsTag
<1>3. Parts(t) \in SUBSET DOMAIN heap
  BY <1>0, <1>2, HeapDomain, PartsIn DEF HeapInv
<1>4. \/ stops /\ Stop
      \/ /\ ~stops /\ ~Scoped(t)!WellScoped
         /\ status' = "refused"
         /\ UNCHANGED <<plan, storeVars, free_variables_of_terms, typeVars>>
      \/ /\ ~stops /\ Scoped(t)!WellScoped
         /\ CacheFreeVariables(Parts(t))
         /\ Canonical(t, Compared(Renamed(Head(plan).term, asked)))
  BY DEF MakeAbstraction
<1> HIDE DEF c, t
<1>5. CASE stops /\ Stop
  <2>1. PICK n \in DOMAIN Operands(t) : ~AllSupported({Operands(t)[n]})
    BY <1>5
  <2>2. {Operands(t)[n]} \in SUBSET DOMAIN heap /\ Operands(t)[n] \in Parts(t)
    BY <1>2, <1>3, OperandsAre
  <2>3. \E a \in UNION {Below[b] : b \in {Operands(t)[n]}} : Unsupported(heap[a])
    BY <1>0, <2>1, <2>2, NotSupported
  <2>4. \E a \in UNION {Below[b] : b \in Parts(t)} : Unsupported(heap[a])
    BY <2>2, <2>3
  <2>5. AsksTheUnsupported
    BY <1>0, <2>4 DEF AsksTheUnsupported, t, c
  <2>6. QED
    BY <1>5, <2>5, Stops
<1>6. CASE /\ status' = "refused"
           /\ UNCHANGED <<plan, storeVars, free_variables_of_terms, typeVars>>
  <2>1. StoreInv' /\ TypesInv'
    BY <1>0, <1>6, AllKept, TypesKept
  <2>2. QED
    BY <1>6, <2>1 DEF Inv
<1>7. CASE /\ ~stops /\ Scoped(t)!WellScoped
           /\ CacheFreeVariables(Parts(t))
           /\ Canonical(t, Compared(Renamed(Head(plan).term, asked)))
  <2>1. AllSupported(Parts(t))
    <3>1. \A n \in DOMAIN Operands(t) : t.parameters # <<>> /\ LegalUpTo(t, n - 2)
      <4>1. DOMAIN Operands(t) = 1..(1 + Len(t.bound) + Len(t.parameters))
        BY <1>2, OperandsAre
      <4>2. QED
        BY <1>2, <1>7, <4>1, WellScopedIsLegal
    <3>2. \A n \in DOMAIN Operands(t) : AllSupported({Operands(t)[n]})
      BY <1>7, <3>1
    <3>3. \A b \in Parts(t) : AllSupported({b})
      <4>1. Parts(t) = {Operands(t)[n] : n \in DOMAIN Operands(t)}
        BY <1>2, OperandsAre
      <4>2. QED
        BY <3>2, <4>1
    <3>4. QED
      BY <3>3 DEF AllSupported
  <2>2. WellScopedIn(t, TextbookFreeVariables)
    <3>1. WellScopedIn(t, FreeVariables)
      BY <1>2, <1>7, ScopedIs
    <3>2. \A x \in 1..Len(heap) : FreeVariables[x] = TextbookFreeVariables[x]
      BY <1>0, FreeIsTextbook, HeapDomain DEF HeapInv
    <3> DEFINE S == 1..Len(heap)
    <3>3. t \in TermOver(S) /\ \A x \in S : FreeVariables[x] = TextbookFreeVariables[x]
      BY <1>2, <3>2
    <3> HIDE DEF S
    <3>4. QED
      BY <1>2, <3>1, <3>3, WellScopedLocal
  <2>3. plan' = Tail(plan) /\ UNCHANGED typeVars /\ status' = status
    BY <1>7 DEF Canonical
  <2>4. Grows /\ HeapInv' /\ ResultsInv' /\ Len(results') = Len(results) + 1
    BY <1>0, <1>1, <1>7, <2>2, MadeCanonical DEF t, c
  <2>5. CacheInv'
    BY <1>0, <1>3, <1>7, <2>1, <2>4, CacheGrows
  <2>6. PlanInv'
    BY <1>0, <2>3, <2>4, NextCall DEF Giving
  <2>7. QED
    BY <1>0, <2>3, <2>4, <2>5, <2>6, TypesKept, RunsOn DEF StoreInv
<1>8. QED
  BY <1>4, <1>5, <1>6, <1>7

-----------------------------------------------------------------------------
(* Types in contexts, and the theorems that follow from the invariant alone. *)

\* GetOrInsertTypeOfTermInContext.
LEMMA TypeStep == ASSUME Inv, GetOrInsertTypeOfTermInContext PROVE Inv'
<1> DEFINE c == Head(plan)
           key == [term |-> results[c.term], bindings |-> [k \in DOMAIN c.bindings |-> results[c.bindings[k]]]]
           E == types_of_terms_in_context
<1>0. /\ StoreInv /\ PlanInv /\ HeapInv /\ ResultsInv /\ CacheInv /\ TypesInv
      /\ plan # <<>> /\ c.call = "type" /\ status = "running" /\ status' = status
      /\ plan' = Tail(plan) /\ UNCHANGED storeVars /\ UNCHANGED free_variables_of_terms
      /\ types_of_terms_in_context' = E
  BY DEF Inv, StoreInv, GetOrInsertTypeOfTermInContext, Calls
<1>1. c.term \in 1..Len(results) /\ c.bindings \in Seq(1..Len(results))
  BY <1>0, NextCall, CallIs
<1>2. key \in Key
  <2>1. \A k \in 1..Len(results) : results[k] \in Nat
    BY <1>0, ResultIs
  <2> DEFINE S == 1..Len(results)
  <2>2. c.bindings \in Seq(S) /\ \A k \in S : results[k] \in Nat
    BY <1>1, <2>1
  <2> HIDE DEF S
  <2>3. ASSUME NEW f, \A k \in S : f[k] \in Nat, NEW as \in Seq(S)
        PROVE  [k \in DOMAIN as |-> f[as[k]]] \in Seq(Nat)
    BY <2>3, RenamedArguments
  <2>4. [k \in DOMAIN c.bindings |-> results[c.bindings[k]]] \in Seq(Nat)
    BY <2>2, <2>3
  <2>5. QED
    BY <1>1, <2>1, <2>4 DEF Key
<1>3. IF \E e \in E : e[1] = key
      THEN answers' = answers \cup {<<key, TypeIn(E, key)>>} /\ making' = making
      ELSE making' = Append(making, key) /\ answers' = answers
  BY DEF GetOrInsertTypeOfTermInContext
<1> HIDE DEF key
<1>4. TypesInv'
  <2>1. CASE \E e \in E : e[1] = key
    <3>1. <<key, TypeIn(E, key)>> \in E
      BY <1>0, <2>1, EntryIs DEF TypesInv
    <3>2. answers' = answers \cup {<<key, TypeIn(E, key)>>} /\ making' = making
      BY <1>3, <2>1
    <3>3. QED
      BY <1>0, <3>1, <3>2 DEF TypesInv
  <2>2. CASE ~\E e \in E : e[1] = key
    <3>1. making' = Append(making, key) /\ answers' = answers
      BY <1>3, <2>2
    <3>2. making' \in Seq(Key)
      BY <1>0, <1>2, <3>1, AppendProperties DEF TypesInv
    <3>3. QED
      BY <1>0, <3>1, <3>2 DEF TypesInv
  <2>3. QED
    BY <2>1, <2>2
<1>5. Grows /\ HeapInv' /\ ResultsInv'
  BY <1>0, StoreKept
<1>6. CacheInv'
  BY <1>0, <1>5, CacheKept
<1>7. PlanInv'
  <2>1. results' = results
    BY <1>0 DEF storeVars
  <2>2. Len(results) + 0 = Len(results)
    BY <1>0, ResultIs
  <2>3. QED
    BY <1>0, <2>1, <2>2, NextCall DEF Giving
<1>8. QED
  BY <1>0, <1>4, <1>5, <1>6, <1>7, RunsOn DEF StoreInv

\* The type is made.
LEMMA MadeStep == ASSUME Inv, TypeMade PROVE Inv'
<1> DEFINE key == Last(making)
           E == types_of_terms_in_context
<1>0. /\ StoreInv /\ TypesInv /\ status = "running" /\ making # <<>> /\ status' = status
      /\ UNCHANGED <<plan, storeVars, free_variables_of_terms>>
      /\ making' = Front(making)
  BY DEF Inv, TypeMade
<1>1. StoreInv'
  BY <1>0, AllKept
<1>2. key \in Key /\ Front(making) \in Seq(Key)
  <2>1. making \in Seq(Key) /\ Len(making) \in Nat /\ Len(making) >= 1
    BY <1>0, LenProperties, EmptySeq DEF TypesInv
  <2>2. key \in Key
    BY <2>1, ElementOfSeq DEF Last
  <2>3. Front(making) \in Seq(Key)
    <3>1. \A i \in 1..(Len(making) - 1) : making[i] \in Key
      BY <2>1, ElementOfSeq
    <3>2. QED
      BY <2>1, <3>1, SubSeqProperties DEF Front
  <2>4. QED
    BY <2>2, <2>3
<1>3. PICK type \in Types :
        \/ type = Nothing /\ UNCHANGED <<types_of_terms_in_context, answers>>
        \/ /\ types_of_terms_in_context' = Insert(key, type)
           /\ answers' = answers \cup {<<key, TypeIn(types_of_terms_in_context', key)>>}
  BY DEF TypeMade
<1> HIDE DEF key
<1>4. TypesInv'
  <2>1. CASE UNCHANGED <<types_of_terms_in_context, answers>>
    BY <1>0, <1>2, <2>1 DEF TypesInv
  <2>2. CASE /\ types_of_terms_in_context' = Insert(key, type)
             /\ answers' = answers \cup {<<key, TypeIn(types_of_terms_in_context', key)>>}
    <3> DEFINE F == Insert(key, type)
    <3>1. /\ F \subseteq Key \X Types /\ E \subseteq F /\ \E e \in F : e[1] = key
          /\ \A e, f \in F : e[1] = f[1] => e = f
      <4>1. CASE \E e \in E : e[1] = key
        BY <1>0, <4>1 DEF Insert, TypesInv
      <4>2. CASE ~\E e \in E : e[1] = key
        <5>1. F = E \cup {<<key, type>>}
          BY <4>2 DEF Insert
        <5> HIDE DEF F
        <5>2. E \subseteq Key \X Types /\ \A e, f \in E : e[1] = f[1] => e = f
          BY <1>0 DEF TypesInv
        <5>3. <<key, type>> \in Key \X Types /\ <<key, type>>[1] = key
          BY <1>2
        <5>4. \A e \in E : e[1] # key
          BY <4>2
        <5> HIDE DEF E
        <5>5. \A e, f \in F : e[1] = f[1] => e = f
          BY <5>1, <5>2, <5>3, <5>4
        <5>6. QED
          BY <5>1, <5>2, <5>3, <5>5
      <4>3. QED
        BY <4>1, <4>2
    <3> HIDE DEF F
    <3>2. <<key, TypeIn(F, key)>> \in F
      BY <3>1, EntryIs
    <3>3. types_of_terms_in_context' = F /\ answers' = answers \cup {<<key, TypeIn(F, key)>>}
      BY <2>2 DEF F
    <3>4. QED
      BY <1>0, <1>2, <3>1, <3>2, <3>3 DEF TypesInv
  <2>3. QED
    BY <1>3, <2>1, <2>2
<1>5. QED
  BY <1>0, <1>1, <1>4, RunsOn

\* The six terms the store begins with.
LEMMA InitHeap == ASSUME Init PROVE HeapInv /\ ResultsInv
<1> DEFINE h == << SimpleTypeTerm("TypeOfTypes"), SimpleTypeTerm("Unit"),
                   SimpleTypeTerm("StringLiteral"), SimpleTypeTerm("NumericLiteral"),
                   DeferredValue(1, "Comptime"), DeferredValue(5, "Comptime") >>
<1>1. heap = h /\ results = [a \in 1..6 |-> a] /\ asked = [a \in 1..6 |-> Tree[a]]
  BY DEF Init, Predefined
<1>2. ASSUME NEW a \in 1..6 PROVE a = 1 \/ a = 2 \/ a = 3 \/ a = 4 \/ a = 5 \/ a = 6
  OBVIOUS
<1>3. /\ DOMAIN h = 1..6 /\ Len(h) = 6
      /\ h[1] = SimpleTypeTerm("TypeOfTypes") /\ h[2] = SimpleTypeTerm("Unit")
      /\ h[3] = SimpleTypeTerm("StringLiteral") /\ h[4] = SimpleTypeTerm("NumericLiteral")
      /\ h[5] = DeferredValue(1, "Comptime") /\ h[6] = DeferredValue(5, "Comptime")
      /\ h = [a \in 1..6 |-> h[a]]
  OBVIOUS
<1> HIDE DEF h
<1>4. \A a \in 1..6 : h[a].tag \in {"SimpleTypeTerm", "DeferredValue"}
  BY <1>2, <1>3 DEF SimpleTypeTerm, DeferredValue
<1>5. \A a \in 1..6 : h[a] \in TermOver(1..(a - 1))
  <2>1. ASSUME NEW S
        PROVE  /\ SimpleTypeTerm("TypeOfTypes") \in TermOver(S) /\ SimpleTypeTerm("Unit") \in TermOver(S)
               /\ SimpleTypeTerm("StringLiteral") \in TermOver(S)
               /\ SimpleTypeTerm("NumericLiteral") \in TermOver(S)
    BY DEF SimpleTypeTerm, TermOver, SimpleTypes
  <2>2. DeferredValue(1, "Comptime") \in TermOver(1..(5 - 1)) /\ DeferredValue(5, "Comptime") \in TermOver(1..(6 - 1))
    <3>1. 1 \in 1..(5 - 1) /\ 5 \in 1..(6 - 1)
      OBVIOUS
    <3>2. QED
      BY <3>1, Built
  <2>3. ASSUME NEW a \in 1..6 PROVE h[a] \in TermOver(1..(a - 1))
    <3>1. CASE a = 5 \/ a = 6
      BY <1>3, <2>2, <3>1
    <3>2. CASE a # 5 /\ a # 6
      <4> DEFINE S == 1..(a - 1)
      <4>1. a = 1 \/ a = 2 \/ a = 3 \/ a = 4
        BY <1>2, <3>2
      <4>2. h[a] \in TermOver(S)
        BY <1>3, <2>1, <4>1
      <4>3. QED
        BY <4>2
    <3>3. QED
      BY <3>1, <3>2
  <2>4. QED
    BY <2>3
<1>6. \A a \in 1..6 : h[a] \in TermOver(Nat)
  <2>1. ASSUME NEW a \in 1..6 PROVE h[a] \in TermOver(Nat)
    <3> DEFINE S == 1..(a - 1)
    <3>1. S \subseteq Nat
      OBVIOUS
    <3>2. h[a] \in TermOver(S)
      BY <1>5
    <3> HIDE DEF S
    <3>3. QED
      BY <3>1, <3>2, TermOverMore
  <2>2. QED
    BY <2>1
<1>7. OnHeap(h)
  <2>1. h \in [1..6 -> TermOver(Nat)]
    BY <1>3, <1>6
  <2>2. h \in Seq(TermOver(Nat))
    BY <2>1, FunctionIsSeq
  <2>3. QED
    BY <1>3, <1>5, <2>2 DEF OnHeap
<1>8. \A a, b \in 1..6 : Hashed(h[a]) = Hashed(h[b]) => a = b
  <2>1. \A a \in 1..6 : Hashed(h[a]) = h[a]
    BY <1>4 DEF Hashed
  <2>2. \A a, b \in 1..6 : h[a] = h[b] => a = b
    BY <1>2, <1>3 DEF SimpleTypeTerm, DeferredValue
  <2>3. QED
    BY <2>1, <2>2
<1>9. HeapInv
  BY <1>1, <1>3, <1>4, <1>7, <1>8 DEF HeapInv
<1>10. ResultsInv
  <2> DEFINE S == 1..Len(heap)
  <2>1. results \in [1..6 -> S]
    BY <1>1, <1>3
  <2> HIDE DEF S
  <2>2. results \in Seq(S) /\ Len(results) = 6
    BY <2>1, FunctionIsSeq
  <2>3. \A k \in 1..6 : results[k] = k
    BY <1>1
  <2>4. QED
    BY <1>1, <2>2, <2>3 DEF ResultsInv, S
<1>11. QED
  BY <1>9, <1>10

\* The invariant holds at first,
LEMMA Initially == Init => Inv
<1> SUFFICES ASSUME Init PROVE Inv
  OBVIOUS
<1>1. HeapInv /\ ResultsInv
  BY InitHeap
<1>2. DOMAIN free_variables_of_terms = {}
  BY DEF Init
<1>3. CacheInv
  BY <1>2 DEF CacheInv, CacheIsTextbook, CachedAreSupported
<1>4. TypesInv
  <2>1. <<>> \in Seq(Key)
    BY EmptySeq
  <2>2. QED
    BY <2>1 DEF Init, TypesInv
<1>5. PlanInv /\ status = "running"
  BY PlanInit DEF Init
<1>6. QED
  BY <1>1, <1>3, <1>4, <1>5 DEF Inv, StoreInv

\* and every step keeps it.
LEMMA Steps == Inv /\ [Next]_vars => Inv'
<1> SUFFICES ASSUME Inv, [Next]_vars PROVE Inv'
  OBVIOUS
<1>1. CASE MakeNewVariable
  BY <1>1, VariableStep
<1>2. CASE MakeCanonical
  BY <1>2, CanonicalStep
<1>3. CASE MakeAbstraction
  BY <1>3, AbstractionStep
<1>4. CASE GetFreeVariables
  BY <1>4, FreeStep
<1>5. CASE GetOrInsertTypeOfTermInContext
  BY <1>5, TypeStep
<1>6. CASE TypeMade
  BY <1>6, MadeStep
<1>7. CASE UNCHANGED vars
  <2>1. UNCHANGED <<plan, storeVars, free_variables_of_terms>> /\ UNCHANGED typeVars /\ status' = status
    BY <1>7 DEF vars
  <2>2. StoreInv' /\ (AsksTheUnsupported => AsksTheUnsupported') /\ TypesInv'
    BY <2>1, AllKept, TypesKept DEF Inv
  <2>3. QED
    BY <2>1, <2>2 DEF Inv
<1>8. QED
  BY <1>1, <1>2, <1>3, <1>4, <1>5, <1>6, <1>7 DEF Next, Terminated

\* The store, the caches and the client agree at all times, in every state that any plan
\* of calls leads to (store.cpp, freevariablesofterm.cpp).
THEOREM Invariance == Spec => []Inv
BY Initially, Steps, PTL DEF Spec

\* A client that asks MakeCanonical for a term is given an address with the tree it asked
\* for, whatever was merged below it (store.cpp:81-91, term.cpp:246-250).
THEOREM TreesAsAsked == Spec => []GivenAsAsked
<1>1. Inv => GivenAsAsked
  <2>1. ASSUME Inv PROVE GivenAsAsked
    <3>1. HeapInv /\ ResultsInv
      BY <2>1 DEF Inv, StoreInv
    <3>2. DOMAIN results = 1..Len(results)
      BY <3>1, LenProperties DEF ResultsInv
    <3>3. QED
      BY <3>1, <3>2, ResultIs DEF GivenAsAsked
  <2>2. QED
    BY <2>1
<1>2. QED
  BY <1>1, Invariance, PTL

\* The sets of free variables in the cache are those of the textbook, although they are
\* computed from other entries of the cache (freevariablesofterm.cpp:98-121).
THEOREM CacheCorrect == Spec => []CacheIsTextbook
<1>1. Inv => CacheIsTextbook
  BY DEF Inv, StoreInv, CacheInv
<1>2. QED
  BY <1>1, Invariance, PTL

\* The program ends only at calls that get into terms which are not supported, and nothing
\* above such a term is ever in the cache (freevariablesofterm.cpp:31,58,74,83;
\* store.cpp:47-78).
THEOREM StopsRightly == Spec => []StopsAtTheUnsupported
<1>1. Inv => StopsAtTheUnsupported
  BY DEF Inv, StoreInv, CacheInv, StopsAtTheUnsupported
<1>2. QED
  BY <1>1, Invariance, PTL

\* Two contexts of at most one variable that are the same are the same key.
LEMMA ShortContexts ==
  ASSUME NEW k \in Key, NEW l \in Key, SameKey(k, l), Len(k.bindings) < 2, Len(l.bindings) < 2
  PROVE  k = l
<1> DEFINE b == k.bindings
           d == l.bindings
<1>1. /\ b \in Seq(Nat) /\ d \in Seq(Nat) /\ Range(b) = Range(d) /\ Len(b) < 2 /\ Len(d) < 2
      /\ k = [term |-> k.term, bindings |-> b] /\ l = [term |-> l.term, bindings |-> d] /\ k.term = l.term
  BY DEF Key, SameKey
<1> HIDE DEF b, d
<1>2. Len(b) \in {0, 1} /\ Len(d) \in {0, 1}
  <2>1. Len(b) \in Nat /\ Len(d) \in Nat
    BY <1>1, LenProperties
  <2>2. \A n \in Nat : n < 2 => n \in {0, 1}
    OBVIOUS
  <2>3. Len(b) < 2 /\ Len(d) < 2
    BY <1>1
  <2>4. QED
    BY <2>1, <2>2, <2>3
<1>3. DOMAIN b = 1..Len(b) /\ DOMAIN d = 1..Len(d)
  BY <1>1, LenProperties
<1>4. CASE Len(b) = 0
  <2>1. Range(b) = {} /\ b = <<>>
    BY <1>1, <1>3, <1>4, EmptySeq DEF Range
  <2>2. ASSUME Len(d) = 1 PROVE FALSE
    BY <1>1, <1>3, <2>1, <2>2 DEF Range
  <2>3. d = <<>>
    BY <1>1, <1>2, <2>2, EmptySeq
  <2>4. QED
    BY <1>1, <2>1, <2>3
<1>5. CASE Len(b) = 1
  <2>1. Range(b) = {b[1]}
    BY <1>3, <1>5 DEF Range
  <2>2. ASSUME Len(d) = 0 PROVE FALSE
    <3>1. Range(d) = {}
      BY <1>3, <2>2 DEF Range
    <3>2. QED
      BY <1>1, <2>1, <3>1
  <2>3. Len(d) = 1
    BY <1>2, <2>2
  <2>4. Range(d) = {d[1]}
    BY <1>3, <2>3 DEF Range
  <2>5. b[1] = d[1]
    <3>1. {b[1]} = {d[1]}
      BY <1>1, <2>1, <2>4
    <3>2. QED
      BY <3>1
  <2>6. b = d
    BY <1>1, <1>5, <2>3, <2>5, SeqEqual
  <2>7. QED
    BY <1>1, <2>6
<1>6. QED
  BY <1>2, <1>4, <1>5

\* Two answers for one term in one context of at most one variable are the same type, even
\* if its type was made again while it was being made (store.cpp:114-129).
THEOREM OneType == Spec => []OneTypePerTermInContext
<1>1. Inv => OneTypePerTermInContext
  <2>1. SUFFICES ASSUME Inv, NEW x \in answers, NEW y \in answers, SameKey(x[1], y[1]),
                        Len(x[1].bindings) < 2, Len(y[1].bindings) < 2
                 PROVE  x[2] = y[2]
    BY DEF OneTypePerTermInContext
  <2>2. x \in types_of_terms_in_context /\ y \in types_of_terms_in_context /\ x[1] \in Key /\ y[1] \in Key
    BY <2>1 DEF Inv, TypesInv
  <2>3. x[1] = y[1]
    BY <2>1, <2>2, ShortContexts
  <2>4. QED
    BY <2>1, <2>2, <2>3 DEF Inv, TypesInv
<1>2. QED
  BY <1>1, Invariance, PTL

-----------------------------------------------------------------------------
(* One address.                                                            *)

Zeroed(c) == [x \in Nat |-> IF x = c THEN 0 ELSE x]

\* What a term mentions is all it is made of, but for its forall variables.
LEMMA Mentioned ==
  ASSUME NEW m \in Nat, NEW t \in TermOver(1..m)
  PROVE  Hashed(t) \in TermOver({c \in 1..m : Mentions(t, c)})
<1> DEFINE S == 1..m
           M == {c \in 1..m : Mentions(t, c)}
<1>1. \A x \in S : Zeroed(x)[x] # x
  BY DEF Zeroed
<1>2. \A x \in S : Renamed(t, Zeroed(x)) # t => x \in M
  BY DEF Mentions, Zeroed
<1>3. t \in TermOver(S)
  OBVIOUS
<1>h. t.tag # "FunctionType" => Hashed(t) = t
  BY DEF Hashed
<1> HIDE DEF S, M
<1>b. ASSUME NEW bs \in BindersOver(S), \A x \in S : RenamedBinders(bs, Zeroed(x)) # bs => x \in M
      PROVE  bs \in BindersOver(M)
  <2>1. ASSUME NEW k \in DOMAIN bs PROVE bs[k].variable \in M /\ bs[k].value \in M
    <3>1. bs[k].variable \in S /\ bs[k].value \in S
      BY Elements
    <3>2. \A x \in S : RenamedBinders(bs, Zeroed(x))[k] = [variable |-> Zeroed(x)[bs[k].variable], value |-> Zeroed(x)[bs[k].value]]
      BY DEF RenamedBinders
    <3>3. RenamedBinders(bs, Zeroed(bs[k].variable))[k].variable # bs[k].variable
      <4> DEFINE x == bs[k].variable
      <4>1. x \in S /\ Zeroed(x)[x] # x
        BY <1>1, <3>1
      <4> HIDE DEF x
      <4>2. RenamedBinders(bs, Zeroed(x))[k] = [variable |-> Zeroed(x)[bs[k].variable], value |-> Zeroed(x)[bs[k].value]]
        BY <3>2, <4>1
      <4>3. RenamedBinders(bs, Zeroed(x))[k].variable = Zeroed(x)[bs[k].variable]
        BY <4>2
      <4>4. RenamedBinders(bs, Zeroed(x))[k].variable = Zeroed(x)[x]
        BY <4>3 DEF x
      <4>5. RenamedBinders(bs, Zeroed(x))[k].variable # x
        BY <4>1, <4>4
      <4>6. QED
        BY <4>5 DEF x
    <3>4. RenamedBinders(bs, Zeroed(bs[k].value))[k].value # bs[k].value
      <4> DEFINE x == bs[k].value
      <4>1. x \in S /\ Zeroed(x)[x] # x
        BY <1>1, <3>1
      <4> HIDE DEF x
      <4>2. RenamedBinders(bs, Zeroed(x))[k] = [variable |-> Zeroed(x)[bs[k].variable], value |-> Zeroed(x)[bs[k].value]]
        BY <3>2, <4>1
      <4>3. RenamedBinders(bs, Zeroed(x))[k].value = Zeroed(x)[bs[k].value]
        BY <4>2
      <4>4. RenamedBinders(bs, Zeroed(x))[k].value = Zeroed(x)[x]
        BY <4>3 DEF x
      <4>5. RenamedBinders(bs, Zeroed(x))[k].value # x
        BY <4>1, <4>4
      <4>6. QED
        BY <4>5 DEF x
    <3>5. QED
      BY <1>b, <3>1, <3>3, <3>4
  <2>2. Len(bs) \in Nat /\ DOMAIN bs = 1..Len(bs) /\ bs = [k \in 1..Len(bs) |-> bs[k]]
    BY LenProperties DEF BindersOver
  <2>3. \A k \in DOMAIN bs : bs[k] \in [variable : M, value : M]
    <3>1. \A k \in DOMAIN bs : bs[k] = [variable |-> bs[k].variable, value |-> bs[k].value]
      BY Elements
    <3>2. QED
      BY <2>1, <3>1
  <2>4. bs \in [1..Len(bs) -> [variable : M, value : M]]
    BY <2>2, <2>3
  <2>5. QED
    BY <2>2, <2>4, FunctionIsSeq DEF BindersOver
<1>m. ASSUME NEW ms \in MembersOver(S), \A x \in S : RenamedMembers(ms, Zeroed(x)) # ms => x \in M
      PROVE  ms \in MembersOver(M)
  <2>1. ASSUME NEW k \in DOMAIN ms PROVE ms[k].value \in M
    <3>1. ms[k].value \in S
      BY Elements
    <3>2. \A x \in S : RenamedMembers(ms, Zeroed(x))[k] = [name |-> ms[k].name, value |-> Zeroed(x)[ms[k].value]]
      BY DEF RenamedMembers
    <3>3. RenamedMembers(ms, Zeroed(ms[k].value))[k].value # ms[k].value
      <4> DEFINE x == ms[k].value
      <4>1. x \in S /\ Zeroed(x)[x] # x
        BY <1>1, <3>1
      <4> HIDE DEF x
      <4>2. RenamedMembers(ms, Zeroed(x))[k] = [name |-> ms[k].name, value |-> Zeroed(x)[ms[k].value]]
        BY <3>2, <4>1
      <4>3. RenamedMembers(ms, Zeroed(x))[k].value = Zeroed(x)[ms[k].value]
        BY <4>2
      <4>4. RenamedMembers(ms, Zeroed(x))[k].value = Zeroed(x)[x]
        BY <4>3 DEF x
      <4>5. RenamedMembers(ms, Zeroed(x))[k].value # x
        BY <4>1, <4>4
      <4>6. QED
        BY <4>5 DEF x
    <3>4. QED
      BY <1>m, <3>1, <3>3
  <2>2. ms \in Seq([name : STRING, value : S]) /\ \A j, k \in DOMAIN ms : ms[j].name = ms[k].name => j = k
    BY DEF MembersOver
  <2>3. Len(ms) \in Nat /\ DOMAIN ms = 1..Len(ms) /\ ms = [k \in 1..Len(ms) |-> ms[k]]
    BY <2>2, LenProperties
  <2>4. \A k \in DOMAIN ms : ms[k] \in [name : STRING, value : M]
    <3>1. \A k \in DOMAIN ms : ms[k] \in [name : STRING, value : S]
      BY <2>2, <2>3, ElementOfSeq
    <3>2. \A k \in DOMAIN ms : ms[k] = [name |-> ms[k].name, value |-> ms[k].value]
      BY Elements
    <3>3. QED
      BY <2>1, <3>1, <3>2
  <2>5. ms \in [1..Len(ms) -> [name : STRING, value : M]]
    BY <2>3, <2>4
  <2>6. ms \in Seq([name : STRING, value : M])
    BY <2>3, <2>5, FunctionIsSeq
  <2>7. QED
    BY <2>2, <2>6 DEF MembersOver
<1>t. ASSUME NEW ps \in TypesOver(S), \A x \in S : RenamedTypes(ps, Zeroed(x)) # ps => x \in M
      PROVE  ps \in TypesOver(M)
  <2>1. ASSUME NEW k \in DOMAIN ps PROVE ps[k].type \in M /\ ps[k].comptime \subseteq M
    <3>1. ps[k].type \in S /\ ps[k].comptime \subseteq S
      BY Elements
    <3>2. \A x \in S : RenamedTypes(ps, Zeroed(x))[k] =
            [type |-> Zeroed(x)[ps[k].type], comptime |-> RenamedSet(ps[k].comptime, Zeroed(x))]
      BY DEF RenamedTypes
    <3>3. RenamedTypes(ps, Zeroed(ps[k].type))[k].type # ps[k].type
      <4> DEFINE x == ps[k].type
      <4>1. x \in S /\ Zeroed(x)[x] # x
        BY <1>1, <3>1
      <4> HIDE DEF x
      <4>2. RenamedTypes(ps, Zeroed(x))[k] =
              [type |-> Zeroed(x)[ps[k].type], comptime |-> RenamedSet(ps[k].comptime, Zeroed(x))]
        BY <3>2, <4>1
      <4>3. RenamedTypes(ps, Zeroed(x))[k].type = Zeroed(x)[ps[k].type]
        BY <4>2
      <4>4. RenamedTypes(ps, Zeroed(x))[k].type = Zeroed(x)[x]
        BY <4>3 DEF x
      <4>5. RenamedTypes(ps, Zeroed(x))[k].type # x
        BY <4>1, <4>4
      <4>6. QED
        BY <4>5 DEF x
    <3>4. ASSUME NEW x \in ps[k].comptime PROVE x \in M
      <4>1. x \in S /\ Zeroed(x)[x] = 0 /\ 0 \notin S
        <5>1. x \in S
          BY <3>1
        <5>2. QED
          BY <5>1 DEF Zeroed, S
      <4>2. 0 \in RenamedSet(ps[k].comptime, Zeroed(x))
        BY <4>1 DEF RenamedSet
      <4>3. RenamedSet(ps[k].comptime, Zeroed(x)) # ps[k].comptime
        BY <3>1, <4>1, <4>2
      <4>4. RenamedTypes(ps, Zeroed(x))[k].comptime # ps[k].comptime
        <5>1. RenamedTypes(ps, Zeroed(x))[k] =
                [type |-> Zeroed(x)[ps[k].type], comptime |-> RenamedSet(ps[k].comptime, Zeroed(x))]
          BY <3>2, <4>1
        <5>2. RenamedTypes(ps, Zeroed(x))[k].comptime = RenamedSet(ps[k].comptime, Zeroed(x))
          BY <5>1
        <5>3. QED
          BY <4>3, <5>2
      <4>5. QED
        BY <1>t, <4>1, <4>4
    <3>5. QED
      BY <1>t, <3>1, <3>3, <3>4
  <2>2. Len(ps) \in Nat /\ DOMAIN ps = 1..Len(ps) /\ ps = [k \in 1..Len(ps) |-> ps[k]]
    BY LenProperties DEF TypesOver
  <2>3. \A k \in DOMAIN ps : ps[k] \in [type : M, comptime : SUBSET M]
    <3>1. \A k \in DOMAIN ps : ps[k] = [type |-> ps[k].type, comptime |-> ps[k].comptime]
      BY Elements
    <3>2. QED
      BY <2>1, <3>1
  <2>4. ps \in [1..Len(ps) -> [type : M, comptime : SUBSET M]]
    BY <2>2, <2>3
  <2>5. QED
    BY <2>2, <2>4, FunctionIsSeq DEF TypesOver
<1>4. CASE t.tag \in Literals \cup Unmovable \cup {"Variable"}
  <2>1. Hashed(t) = t
    BY <1>4, <1>h DEF Literals, Unmovable
  <2>2. QED
    BY <1>3, <1>4, <2>1, IfPlain DEF M
<1>5. CASE t.tag = "Application"
  <2>1. /\ t = Application(t.function, t.arguments) /\ t.function \in S /\ t.arguments \in Seq(S)
        /\ \A x \in S : Renamed(t, Zeroed(x)) =
             Application(Zeroed(x)[t.function], [k \in DOMAIN t.arguments |-> Zeroed(x)[t.arguments[k]]])
    BY <1>3, <1>5, IfApplication
  <2>2. \A x \in S : /\ Renamed(t, Zeroed(x)).function = Zeroed(x)[t.function]
                     /\ Renamed(t, Zeroed(x)).arguments = [k \in DOMAIN t.arguments |-> Zeroed(x)[t.arguments[k]]]
    <3>1. ASSUME NEW f, NEW as PROVE Application(f, as).function = f /\ Application(f, as).arguments = as
      BY DEF Application
    <3>2. TAKE x \in S
    <3> DEFINE as == [k \in DOMAIN t.arguments |-> Zeroed(x)[t.arguments[k]]]
    <3>3. Renamed(t, Zeroed(x)) = Application(Zeroed(x)[t.function], as)
      BY <2>1
    <3> DEFINE f == Zeroed(x)[t.function]
    <3> HIDE DEF as, f
    <3>a. Application(f, as).function = f /\ Application(f, as).arguments = as
      BY <3>1
    <3>b. Renamed(t, Zeroed(x)) = Application(f, as)
      BY <3>3 DEF f
    <3>4. Renamed(t, Zeroed(x)).function = Zeroed(x)[t.function] /\ Renamed(t, Zeroed(x)).arguments = as
      BY <3>a, <3>b DEF f
    <3>5. QED
      BY <3>4 DEF as
  <2>3. t.function \in M
    BY <1>1, <1>2, <2>1, <2>2
  <2>4. Len(t.arguments) \in Nat /\ DOMAIN t.arguments = 1..Len(t.arguments)
        /\ t.arguments = [k \in 1..Len(t.arguments) |-> t.arguments[k]]
    BY <2>1, LenProperties
  <2>5. \A k \in DOMAIN t.arguments : t.arguments[k] \in M
    <3>1. TAKE k \in DOMAIN t.arguments
    <3>2. t.arguments[k] \in S
      BY <2>1, Elements
    <3>3. Renamed(t, Zeroed(t.arguments[k])).arguments[k] # t.arguments[k]
      BY <1>1, <2>2, <3>2
    <3>4. QED
      BY <1>2, <3>2, <3>3
  <2>6. t.arguments \in [1..Len(t.arguments) -> M]
    BY <2>4, <2>5
  <2>7. t.arguments \in Seq(M)
    BY <2>4, <2>6, FunctionIsSeq
  <2>8. t \in TermOver(M)
    BY <2>1, <2>3, <2>7, Built
  <2>9. QED
    BY <1>5, <1>h, <2>8 DEF M
<1>6. CASE t.tag = "UnitLikeValue"
  <2>1. t = UnitLikeValue(t.type) /\ t.type \in S /\ \A x \in S : Renamed(t, Zeroed(x)) = UnitLikeValue(Zeroed(x)[t.type])
    BY <1>3, <1>6, IfUnitLikeValue
  <2>2. \A x \in S : Renamed(t, Zeroed(x)).type = Zeroed(x)[t.type]
    BY <2>1 DEF UnitLikeValue
  <2>3. t.type \in M
    BY <1>1, <1>2, <2>1, <2>2
  <2>4. t \in TermOver(M)
    BY <2>1, <2>3, Built
  <2>5. QED
    BY <1>6, <1>h, <2>4 DEF M
<1>7. CASE t.tag = "DeferredValue"
  <2>1. /\ t = DeferredValue(t.type, t.availability) /\ t.type \in S /\ t.availability \in {"Runtime", "Comptime"}
        /\ \A x \in S : Renamed(t, Zeroed(x)) = DeferredValue(Zeroed(x)[t.type], t.availability)
    BY <1>3, <1>7, IfDeferredValue
  <2>2. \A x \in S : Renamed(t, Zeroed(x)).type = Zeroed(x)[t.type]
    BY <2>1 DEF DeferredValue
  <2>3. t.type \in M
    BY <1>1, <1>2, <2>1, <2>2
  <2>4. t \in TermOver(M)
    BY <2>1, <2>3, Built
  <2>5. QED
    BY <1>7, <1>h, <2>4 DEF M
<1>8. CASE t.tag = "LetIns"
  <2>1. /\ t = LetIns(t.bound, t.body) /\ t.bound \in BindersOver(S) /\ t.body \in S
        /\ \A x \in S : Renamed(t, Zeroed(x)) = LetIns(RenamedBinders(t.bound, Zeroed(x)), Zeroed(x)[t.body])
    BY <1>3, <1>8, IfLetIns
  <2>2. \A x \in S : /\ Renamed(t, Zeroed(x)).bound = RenamedBinders(t.bound, Zeroed(x))
                     /\ Renamed(t, Zeroed(x)).body = Zeroed(x)[t.body]
    BY <2>1 DEF LetIns
  <2>3. t.body \in M
    BY <1>1, <1>2, <2>1, <2>2
  <2>4. t.bound \in BindersOver(M)
    <3>1. \A x \in S : RenamedBinders(t.bound, Zeroed(x)) # t.bound => x \in M
      BY <1>2, <2>2
    <3>2. QED
      BY <1>b, <2>1, <3>1
  <2>5. t \in TermOver(M)
    BY <2>1, <2>3, <2>4, Built
  <2>6. QED
    BY <1>8, <1>h, <2>5 DEF M
<1>9. CASE t.tag = "Abstraction"
  <2>1. /\ t = Abstraction(t.bound, t.parameters, t.body)
        /\ t.bound \in BindersOver(S) /\ t.parameters \in BindersOver(S) /\ t.body \in S
        /\ \A x \in S : Renamed(t, Zeroed(x)) =
             Abstraction(RenamedBinders(t.bound, Zeroed(x)), RenamedBinders(t.parameters, Zeroed(x)), Zeroed(x)[t.body])
    BY <1>3, <1>9, IfAbstraction
  <2>2. \A x \in S : /\ Renamed(t, Zeroed(x)).bound = RenamedBinders(t.bound, Zeroed(x))
                     /\ Renamed(t, Zeroed(x)).parameters = RenamedBinders(t.parameters, Zeroed(x))
                     /\ Renamed(t, Zeroed(x)).body = Zeroed(x)[t.body]
    BY <2>1 DEF Abstraction
  <2>3. t.body \in M
    BY <1>1, <1>2, <2>1, <2>2
  <2>4. t.bound \in BindersOver(M) /\ t.parameters \in BindersOver(M)
    <3>1. /\ \A x \in S : RenamedBinders(t.bound, Zeroed(x)) # t.bound => x \in M
          /\ \A x \in S : RenamedBinders(t.parameters, Zeroed(x)) # t.parameters => x \in M
      BY <1>2, <2>2
    <3>2. QED
      BY <1>b, <2>1, <3>1
  <2>5. t \in TermOver(M)
    BY <2>1, <2>3, <2>4, Built
  <2>6. QED
    BY <1>9, <1>h, <2>5 DEF M
<1>10. CASE t.tag = "FunctionType"
  <2>1. /\ t = FunctionType(t.forall, t.parameter_types, t.return_type)
        /\ t.parameter_types \in TypesOver(S) /\ t.return_type \in S
        /\ \A x \in S : Renamed(t, Zeroed(x)) =
             FunctionType(RenamedSet(t.forall, Zeroed(x)), RenamedTypes(t.parameter_types, Zeroed(x)), Zeroed(x)[t.return_type])
    BY <1>3, <1>10, IfFunctionType
  <2>2. \A x \in S : /\ Renamed(t, Zeroed(x)).parameter_types = RenamedTypes(t.parameter_types, Zeroed(x))
                     /\ Renamed(t, Zeroed(x)).return_type = Zeroed(x)[t.return_type]
    BY <2>1 DEF FunctionType
  <2>3. t.return_type \in M
    BY <1>1, <1>2, <2>1, <2>2
  <2>4. t.parameter_types \in TypesOver(M)
    <3>1. \A x \in S : RenamedTypes(t.parameter_types, Zeroed(x)) # t.parameter_types => x \in M
      BY <1>2, <2>2
    <3>2. QED
      BY <1>t, <2>1, <3>1
  <2>5. Hashed(t) = FunctionType({}, t.parameter_types, t.return_type)
    BY <1>10, <2>1 DEF Hashed, FunctionType
  <2>6. Hashed(t) \in TermOver(M)
    BY <2>3, <2>4, <2>5, Built
  <2>7. QED
    BY <2>6 DEF M
<1>11. CASE t.tag = "ProductType"
  <2>1. /\ t = ProductType(t.members) /\ t.members \in MembersOver(S)
        /\ \A x \in S : Renamed(t, Zeroed(x)) = ProductType(RenamedMembers(t.members, Zeroed(x)))
    BY <1>3, <1>11, IfProductType
  <2>2. \A x \in S : Renamed(t, Zeroed(x)).members = RenamedMembers(t.members, Zeroed(x))
    BY <2>1 DEF ProductType
  <2>3. t.members \in MembersOver(M)
    <3>1. \A x \in S : RenamedMembers(t.members, Zeroed(x)) # t.members => x \in M
      BY <1>2, <2>2
    <3>2. QED
      BY <1>m, <2>1, <3>1
  <2>4. t \in TermOver(M)
    BY <2>1, <2>3, Built
  <2>5. QED
    BY <1>11, <1>h, <2>4 DEF M
<1>12. CASE t.tag = "ProductValue"
  <2>1. /\ t = ProductValue(t.type, t.members) /\ t.type \in S /\ t.members \in MembersOver(S)
        /\ \A x \in S : Renamed(t, Zeroed(x)) = ProductValue(Zeroed(x)[t.type], RenamedMembers(t.members, Zeroed(x)))
    BY <1>3, <1>12, IfProductValue
  <2>2. \A x \in S : /\ Renamed(t, Zeroed(x)).members = RenamedMembers(t.members, Zeroed(x))
                     /\ Renamed(t, Zeroed(x)).type = Zeroed(x)[t.type]
    BY <2>1 DEF ProductValue
  <2>3. t.members \in MembersOver(M)
    <3>1. \A x \in S : RenamedMembers(t.members, Zeroed(x)) # t.members => x \in M
      BY <1>2, <2>2
    <3>2. QED
      BY <1>m, <2>1, <3>1
  <2>4. t.type \in M
    BY <1>1, <1>2, <2>1, <2>2
  <2>5. t \in TermOver(M)
    BY <2>1, <2>3, <2>4, Built
  <2>6. QED
    BY <1>12, <1>h, <2>5 DEF M
<1>13. QED
  BY <1>3, <1>4, <1>5, <1>6, <1>7, <1>8, <1>9, <1>10, <1>11, <1>12, TermTag DEF Tags, Products

\* The term that is hashed,
LEMMA HashedShape ==
  ASSUME NEW S, NEW t \in TermOver(S)
  PROVE  /\ Hashed(t).tag = t.tag
         /\ Hashed(t).tag = "FunctionType" => Hashed(t).forall = {}
         /\ t.tag # "FunctionType" => Hashed(t) = t
         /\ t.tag = "FunctionType" => Hashed(t) = FunctionType({}, t.parameter_types, t.return_type)
<1>1. CASE t.tag = "FunctionType"
  <2>1. t = FunctionType(t.forall, t.parameter_types, t.return_type)
    BY <1>1, IfFunctionType
  <2>2. Hashed(t) = FunctionType({}, t.parameter_types, t.return_type)
    BY <1>1, <2>1 DEF Hashed, FunctionType
  <2>3. QED
    BY <1>1, <2>2 DEF FunctionType
<1>2. CASE t.tag # "FunctionType"
  BY <1>2 DEF Hashed
<1>3. QED
  BY <1>1, <1>2

\* and that it is compared as the term itself.
LEMMA HashedIsComparedAlike ==
  ASSUME NEW S, NEW t \in TermOver(S), NEW f
  PROVE  Compared(Renamed(Hashed(t), f)) = Compared(Renamed(t, f))
<1>1. CASE t.tag = "FunctionType"
  <2>1. /\ t.parameter_types \in TypesOver(S) /\ t.return_type \in S
        /\ t = FunctionType(t.forall, t.parameter_types, t.return_type)
    BY <1>1, IfFunctionType
  <2>2. Hashed(t) = FunctionType({}, t.parameter_types, t.return_type)
    BY <1>1, HashedShape
  <2>3. Hashed(t) \in TermOver(S) /\ Hashed(t).tag = "FunctionType"
    BY <2>1, <2>2, Built DEF FunctionType
  <2>4. Compared(t) = FunctionType({}, t.parameter_types, t.return_type)
    BY <2>1, ComparedShape
  <2>5. Compared(Hashed(t)) = FunctionType({}, t.parameter_types, t.return_type)
    BY <2>2, ComparedShape
  <2>6. QED
    BY <1>1, <2>3, <2>4, <2>5, ComparedRenamed
<1>2. CASE t.tag # "FunctionType"
  BY <1>2 DEF Hashed
<1>3. QED
  BY <1>1, <1>2

\* From the bottom of the heap upwards: two terms with one tree have parts with one tree
\* each, which are the same by then, so that the store found one when the other was made.
LEMMA OneAddress == ASSUME HeapInv PROVE OneAddressPerTree
<1> DEFINE n == Len(heap)
           T == {a \in 1..n : \A b \in 1..n : Tree[a] = Tree[b] /\ ~HoldsWideMap(a) => a = b}
<1>1. OnHeap(heap) /\ n \in Nat /\ DOMAIN heap = 1..n
  BY HeapDomain DEF HeapInv
<1>2. ASSUME NEW a \in 1..n, \A c \in 1..(a - 1) : c \in T PROVE a \in T
  <2> SUFFICES ASSUME NEW b \in 1..n, Tree[a] = Tree[b], ~HoldsWideMap(a) PROVE a = b
    OBVIOUS
  <2> DEFINE t == heap[a]
             u == heap[b]
             M == {c \in 1..(a - 1) : Mentions(t, c)}
             R == 1..(b - 1)
  <2>1. /\ t \in TermOver(1..(a - 1)) /\ u \in TermOver(R)
        /\ Compared(Renamed(t, Tree)) = Compared(Renamed(u, Tree))
    BY <1>1, Computed DEF OnHeap
  <2>2. Holds[a] = {a} \cup UNION {Holds[c] : c \in M}
    BY <1>1, Computed
  <2>3. /\ \A c \in M : ~HoldsWideMap(c)
        /\ t.tag \in Products => ~(Len(t.members) > 1)
    <3>1. a \in Holds[a] /\ \A c \in M : Holds[c] \subseteq Holds[a]
      BY <2>2
    <3>2. QED
      BY <3>1 DEF HoldsWideMap
  <2>4. \A x \in M, y \in R : Tree[x] = Tree[y] => x = y
    <3>1. \A x \in M : x \in T
      BY <1>2
    <3>2. \A y \in R : y \in 1..n
      BY <1>1
    <3>3. QED
      BY <2>3, <3>1, <3>2
  <2>5. Hashed(t) \in TermOver(M) /\ Hashed(u) \in TermOver(R)
    <3>1. a - 1 \in Nat /\ b - 1 \in Nat
      OBVIOUS
    <3>2. Hashed(t) \in TermOver(M)
      BY <2>1, <3>1, Mentioned
    <3>3. Hashed(u) \in TermOver({c \in 1..(b - 1) : Mentions(u, c)})
      BY <2>1, <3>1, Mentioned
    <3>4. {c \in 1..(b - 1) : Mentions(u, c)} \subseteq R
      OBVIOUS
    <3>5. QED
      BY <3>2, <3>3, <3>4, TermOverMore
  <2> HIDE DEF t, u, M, R
  <2>6. /\ Compared(Renamed(Hashed(t), Tree)) = Compared(Renamed(t, Tree))
        /\ Compared(Renamed(Hashed(u), Tree)) = Compared(Renamed(u, Tree))
    BY <2>1, HashedIsComparedAlike
  <2>7. /\ t.tag = Hashed(t).tag /\ u.tag = Hashed(u).tag
        /\ Hashed(t).tag = "FunctionType" => Hashed(t).forall = {}
        /\ Hashed(u).tag = "FunctionType" => Hashed(u).forall = {}
        /\ t.tag # "FunctionType" => Hashed(t) = t
        /\ u.tag # "FunctionType" => Hashed(u) = u
    BY <2>1, HashedShape
  <2>8. Hashed(t) = Hashed(u)
    <3>1. Hashed(t).tag \in Products => ~(Len(Hashed(t).members) > 1)
      BY <2>3, <2>7 DEF Products
    <3>2. QED
      BY <2>1, <2>4, <2>5, <2>6, <2>7, <3>1, RenamedApart
  <2>9. CASE t.tag = "Variable"
    <3>1. t = u /\ u.tag = "Variable"
      BY <2>7, <2>8, <2>9
    <3>2. t.instance = a /\ u.instance = b
      BY <1>1, <2>9, <3>1 DEF HeapInv, t, u
    <3>3. QED
      BY <3>1, <3>2
  <2>10. CASE t.tag # "Variable"
    <3>1. t.tag = u.tag
      BY <2>7, <2>8
    <3>2. Compared(t) = Compared(u)
      <4>1. CASE t.tag = "FunctionType"
        BY <2>8, <3>1, <4>1 DEF Compared, Hashed, Products
      <4>2. CASE t.tag # "FunctionType"
        BY <2>7, <2>8, <3>1, <4>2
      <4>3. QED
        BY <4>1, <4>2
    <3>3. QED
      BY <1>1, <2>8, <2>10, <3>1, <3>2 DEF HeapInv, TermEqual, t, u
  <2>11. QED
    BY <2>9, <2>10
<1> HIDE DEF n, T
<1>3. \A a \in 1..n : a \in T
  BY <1>1, <1>2, Upwards
<1>4. QED
  BY <1>1, <1>3 DEF OneAddressPerTree, T

\* Comparing addresses compares trees, as all of src2 does: two terms on the heap with the
\* same tree are the same term, unless an unordered map of two or more entries is in it
\* (term.cpp:255-258, common.h:166-172).
THEOREM TreesHaveOneAddress == Spec => []OneAddressPerTree
<1>1. Inv => OneAddressPerTree
  BY OneAddress DEF Inv, StoreInv
<1>2. QED
  BY <1>1, Invariance, PTL
================================================================================
