-------------------------- MODULE CardBuildProofs --------------------------
(***************************************************************************)
(* What holds of a card for any declaration of tiles and components, any   *)
(* gated inputs and any number of things that went wrong in the week.      *)
(***************************************************************************)
EXTENDS CardBuild, TileRecordsProofs

-----------------------------------------------------------------------------
(* Sums and products over finite sets.  The library's induction theorems   *)
(* take an operator; here the exceptions to a statement are a set of       *)
(* subsets, and a smallest one cannot exist.                               *)

\* The element at which a fold over s starts (MapThenFoldSet of Folds.tla).
First(s) == CHOOSE x \in s : TRUE

\* g folds op over the values f gives to the elements of each subset of S.
Folds(op, base, f, S, g) ==
  g = [s \in SUBSET S |-> IF s = {} THEN base ELSE op[<<f[First(s)], g[s \ {First(s)}]>>]]

\* A set that is not empty has one.
LEMMA FirstIn == ASSUME NEW s, s # {} PROVE First(s) \in s
BY DEF First

\* A property of the subsets of a finite set has a smallest exception.
LEMMA SmallestSubset ==
  ASSUME NEW S, IsFiniteSet(S), NEW T, T \subseteq SUBSET S, T # {}
  PROVE  \E s \in T : \A t \in T : ~(t \subseteq s /\ t # s)
<1>1. IsWellFoundedOn(StrictSubsetOrdering(S), SUBSET S)
  BY FS_StrictSubsetOrderingWellFounded, FS_FiniteSubsetsOfFinite
<1>2. PICK s \in T : \A t \in T : ~(<<t, s>> \in StrictSubsetOrdering(S))
  BY <1>1, WFMin
<1> QED
  BY <1>2 DEF StrictSubsetOrdering

\* What holds of the empty set, and of a set when it holds of the set less any
\* one element, holds of every subset of a finite set; T is where it holds.
LEMMA SubsetInduction ==
  ASSUME NEW S, IsFiniteSet(S), NEW T, {} \in T,
         \A s \in SUBSET S : s # {} /\ (\A a \in s : s \ {a} \in T) => s \in T
  PROVE  SUBSET S \subseteq T
<1> DEFINE Except == (SUBSET S) \ T
<1> SUFFICES ASSUME Except # {} PROVE FALSE
  OBVIOUS
<1>1. PICK s \in Except : \A t \in Except : ~(t \subseteq s /\ t # s)
  <2>1. Except \subseteq SUBSET S
    OBVIOUS
  <2> HIDE DEF Except
  <2> QED
    BY <2>1, SmallestSubset
<1>2. \A a \in s : s \ {a} \in SUBSET S /\ s \ {a} \subseteq s /\ s \ {a} # s
  OBVIOUS
<1> QED
  BY <1>1, <1>2

\* Two folds agree on what both are defined for.
LEMMA FoldsAgree ==
  ASSUME NEW op, NEW base, NEW f, NEW S, IsFiniteSet(S), NEW g, Folds(op, base, f, S, g),
         NEW u \in SUBSET S, NEW h, Folds(op, base, f, u, h)
  PROVE  h[u] = g[u]
<1> DEFINE T == {s \in SUBSET u : g[s] = h[s]}
<1>1. {} \in T
  BY DEF Folds
<1>2. ASSUME NEW s \in SUBSET u, s # {}, \A a \in s : s \ {a} \in T
      PROVE  s \in T
  <2>1. g[s \ {First(s)}] = h[s \ {First(s)}]
    BY <1>2, FirstIn
  <2>2. /\ g[s] = op[<<f[First(s)], g[s \ {First(s)}]>>]
        /\ h[s] = op[<<f[First(s)], h[s \ {First(s)}]>>]
    BY <1>2 DEF Folds
  <2> QED
    BY <2>1, <2>2
<1>3. IsFiniteSet(u)
  BY FS_Subset
<1>4. SUBSET u \subseteq T
  <2> HIDE DEF T
  <2> QED
    BY <1>1, <1>2, <1>3, SubsetInduction
<1> QED
  BY <1>4

\* There is a fold over every finite set: if not, there is a smallest set
\* without one, and its proper subsets have the values it needs.
LEMMA FoldsExists ==
  ASSUME NEW op, NEW base, NEW f, NEW S, IsFiniteSet(S)
  PROVE  \E g : Folds(op, base, f, S, g)
<1> DEFINE T == {s \in SUBSET S : ~\E g : Folds(op, base, f, s, g)}
<1> SUFFICES ASSUME T # {} PROVE FALSE
  OBVIOUS
<1>1. PICK s \in T : \A t \in T : ~(t \subseteq s /\ t # s)
  <2>1. T \subseteq SUBSET S
    OBVIOUS
  <2> HIDE DEF T
  <2> QED
    BY <2>1, SmallestSubset
<1> DEFINE part(t) == CHOOSE g : Folds(op, base, f, t, g)
           smaller == (SUBSET s) \ {s}
<1>2. ASSUME NEW t \in smaller PROVE Folds(op, base, f, t, part(t))
  <2>1. t \in SUBSET S /\ t \notin T
    BY <1>1
  <2>2. \E g : Folds(op, base, f, t, g)
    BY <2>1
  <2> QED
    BY <2>2
<1> DEFINE value == [t \in smaller |-> part(t)[t]]
           whole == [t \in SUBSET s |-> IF t = s /\ s # {} THEN op[<<f[First(s)], value[s \ {First(s)}]>>]
                                        ELSE IF t = {} THEN base ELSE value[t]]
<1>3. ASSUME NEW t \in smaller, NEW u \in SUBSET t PROVE part(t)[u] = value[u]
  <2>1. IsFiniteSet(t) /\ u \in smaller
    <3>1. t \in SUBSET S
      BY <1>1
    <3> QED
      BY <3>1, FS_Subset
  <2>2. Folds(op, base, f, t, part(t)) /\ Folds(op, base, f, u, part(u))
    BY <1>2, <2>1
  <2> HIDE DEF part
  <2>3. part(u)[u] = part(t)[u]
    BY <2>1, <2>2, FoldsAgree
  <2> QED
    BY <2>1, <2>3
<1>4. ASSUME NEW t \in smaller, t # {}
      PROVE  value[t] = op[<<f[First(t)], value[t \ {First(t)}]>>]
  <2>1. part(t)[t] = op[<<f[First(t)], part(t)[t \ {First(t)}]>>]
    <3>1. Folds(op, base, f, t, part(t))
      BY <1>2
    <3> HIDE DEF part
    <3> QED
      BY <1>4, <3>1 DEF Folds
  <2>2. part(t)[t \ {First(t)}] = value[t \ {First(t)}]
    BY <1>3
  <2> HIDE DEF part
  <2> QED
    BY <2>1, <2>2
<1>5. Folds(op, base, f, s, whole)
  <2> HIDE DEF value
  <2> SUFFICES ASSUME NEW t \in SUBSET s
               PROVE  whole[t] = IF t = {} THEN base ELSE op[<<f[First(t)], whole[t \ {First(t)}]>>]
    BY DEF Folds
  <2>1. CASE t = {}
    BY <2>1
  <2>2. CASE t # {}
    <3>0. First(t) \in t
      BY <2>2, FirstIn
    <3>1. t \ {First(t)} \in smaller
      <4> HIDE DEF T
      <4>1. First(t) \in s
        BY <3>0
      <4>2. t \ {First(t)} \subseteq s /\ First(t) \notin t \ {First(t)}
        OBVIOUS
      <4> QED
        BY <4>1, <4>2
    <3>2. whole[t] = op[<<f[First(t)], value[t \ {First(t)}]>>]
      <4>1. CASE t = s
        BY <2>2, <4>1
      <4>2. CASE t # s
        <5>1. whole[t] = value[t] /\ t \in smaller
          BY <2>2, <4>2
        <5>2. value[t] = op[<<f[First(t)], value[t \ {First(t)}]>>]
          BY <1>4, <2>2, <5>1
        <5> QED
          BY <5>1, <5>2
      <4> QED
        BY <4>1, <4>2
    <3>3. value[t \ {First(t)}] = whole[t \ {First(t)}]
      <4>1. CASE t \ {First(t)} # {}
        <5>1. t \ {First(t)} \in SUBSET s /\ t \ {First(t)} # s
          BY <3>1
        <5> QED
          BY <4>1, <5>1
      <4>2. CASE t \ {First(t)} = {}
        <5>1. Folds(op, base, f, {}, part({})) /\ {} \in smaller
          BY <1>2, <3>1, <4>2
        <5>2. part({})[{}] = base
          <6> HIDE DEF part
          <6> QED
            BY <5>1 DEF Folds
        <5>3. value[{}] = base
          BY <5>1, <5>2 DEF value
        <5>4. whole[{}] = base
          BY <2>2
        <5> QED
          BY <4>2, <5>3, <5>4
      <4> QED
        BY <4>1, <4>2
    <3> QED
      BY <2>2, <3>2, <3>3
  <2> QED
    BY <2>1, <2>2
<1> QED
  BY <1>1, <1>5

\* The two operations of the composite, as functions.
Adding == [p \in Nat \X Nat |-> p[1] + p[2]]
Multiplying == [p \in Nat \X Nat |-> p[1] * p[2]]

\* A fold of naturals is natural,
LEMMA FoldsNat ==
  ASSUME NEW op \in [Nat \X Nat -> Nat], NEW base \in Nat, NEW f, NEW S, IsFiniteSet(S),
         \A n \in S : f[n] \in Nat, NEW g, Folds(op, base, f, S, g)
  PROVE  \A s \in SUBSET S : g[s] \in Nat
<1> DEFINE T == {s \in SUBSET S : g[s] \in Nat}
<1>1. {} \in T
  BY DEF Folds
<1>2. ASSUME NEW s \in SUBSET S, s # {}, \A a \in s : s \ {a} \in T
      PROVE  s \in T
  <2>1. g[s] = op[<<f[First(s)], g[s \ {First(s)}]>>]
    BY <1>2 DEF Folds
  <2>2. f[First(s)] \in Nat /\ g[s \ {First(s)}] \in Nat
    BY <1>2, FirstIn
  <2> QED
    BY <2>1, <2>2
<1>3. SUBSET S \subseteq T
  <2> HIDE DEF T
  <2> QED
    BY <1>1, <1>2, SubsetInduction
<1> QED
  BY <1>3

\* op may take its arguments in any order.
Exchanges(op) ==
  /\ op \in [Nat \X Nat -> Nat]
  /\ \A x, y, z \in Nat : op[<<x, op[<<y, z>>]>>] = op[<<y, op[<<x, z>>]>>]

\* and may start at any element, not only at the first.
LEMMA FoldsSplit ==
  ASSUME NEW op, Exchanges(op), NEW base \in Nat, NEW f, NEW S, IsFiniteSet(S),
         \A n \in S : f[n] \in Nat, NEW g, Folds(op, base, f, S, g), NEW c \in S
  PROVE  g[S] = op[<<f[c], g[S \ {c}]>>]
<1> DEFINE T == {s \in SUBSET S : \A a \in s : g[s] = op[<<f[a], g[s \ {a}]>>]}
<1>1. {} \in T
  OBVIOUS
<1>2. ASSUME NEW s \in SUBSET S, s # {}, \A a \in s : s \ {a} \in T
      PROVE  s \in T
  <2> SUFFICES ASSUME NEW a \in s PROVE g[s] = op[<<f[a], g[s \ {a}]>>]
    OBVIOUS
  <2>1. PICK b \in s : g[s] = op[<<f[b], g[s \ {b}]>>]
    BY <1>2, FirstIn DEF Folds
  <2>2. CASE a # b
    <3>1. g[s \ {b}] = op[<<f[a], g[(s \ {b}) \ {a}]>>] /\ g[s \ {a}] = op[<<f[b], g[(s \ {a}) \ {b}]>>]
      BY <1>2, <2>2
    <3>2. (s \ {b}) \ {a} = (s \ {a}) \ {b} /\ (s \ {a}) \ {b} \in SUBSET S
      OBVIOUS
    <3>3. f[a] \in Nat /\ f[b] \in Nat /\ g[(s \ {a}) \ {b}] \in Nat
      BY <3>2, FoldsNat DEF Exchanges
    <3>4. PICK x \in Nat, y \in Nat, z \in Nat :
            x = f[a] /\ y = f[b] /\ z = g[(s \ {a}) \ {b}]
      BY <3>3
    <3>5. op[<<y, op[<<x, z>>]>>] = op[<<x, op[<<y, z>>]>>]
      BY DEF Exchanges
    <3> QED
      BY <2>1, <3>1, <3>2, <3>4, <3>5
  <2> QED
    BY <2>1, <2>2
<1>3. SUBSET S \subseteq T
  <2> HIDE DEF T
  <2> QED
    BY <1>1, <1>2, SubsetInduction
<1> QED
  BY <1>3


\* The sum and the product over a finite set are such folds.
LEMMA SumFolds ==
  ASSUME NEW f, NEW S, IsFiniteSet(S), \A n \in S : f[n] \in Nat
  PROVE  \E g : Folds(Adding, 0, f, S, g) /\ SumFunctionOnSet(f, S) = g[S]
<1> DEFINE Raw(g) == g = [s \in SUBSET S |-> IF s = {} THEN 0 ELSE f[First(s)] + g[s \ {First(s)}]]
<1>0. Adding \in [Nat \X Nat -> Nat] /\ \A x, y \in Nat : Adding[<<x, y>>] = x + y
  BY DEF Adding
<1>1. PICK g : Folds(Adding, 0, f, S, g)
  BY FoldsExists
<1>2. \A s \in SUBSET S : g[s] \in Nat
  BY <1>0, <1>1, FoldsNat
<1>3. Raw(g)
  <2>1. ASSUME NEW s \in SUBSET S, s # {} PROVE g[s] = f[First(s)] + g[s \ {First(s)}]
    <3>1. f[First(s)] \in Nat /\ g[s \ {First(s)}] \in Nat
      BY <1>2, <2>1, FirstIn
    <3> QED
      BY <1>0, <1>1, <2>1, <3>1 DEF Folds
  <2>2. DOMAIN g = SUBSET S /\ g[{}] = 0 /\ g = [s \in DOMAIN g |-> g[s]]
    BY <1>1 DEF Folds
  <2> QED
    BY <2>1, <2>2
<1>4. ASSUME NEW h, Raw(h) PROVE Folds(Adding, 0, f, S, h)
  <2> DEFINE T == {s \in SUBSET S : h[s] \in Nat}
  <2>1. {} \in T
    BY <1>4
  <2>2. ASSUME NEW s \in SUBSET S, s # {}, \A a \in s : s \ {a} \in T
        PROVE  s \in T
    <3>1. f[First(s)] \in Nat /\ h[s \ {First(s)}] \in Nat
      BY <2>2, FirstIn
    <3>2. h[s] = f[First(s)] + h[s \ {First(s)}]
      BY <1>4, <2>2
    <3> QED
      BY <3>1, <3>2
  <2>3. SUBSET S \subseteq T
    <3> HIDE DEF T
    <3> QED
      BY <2>1, <2>2, SubsetInduction
  <2>4. ASSUME NEW s \in SUBSET S, s # {} PROVE h[s] = Adding[<<f[First(s)], h[s \ {First(s)}]>>]
    <3>1. f[First(s)] \in Nat /\ h[s \ {First(s)}] \in Nat
      BY <2>3, <2>4, FirstIn
    <3> QED
      BY <1>0, <1>4, <2>4, <3>1
  <2>5. DOMAIN h = SUBSET S /\ h[{}] = 0 /\ h = [s \in DOMAIN h |-> h[s]]
    BY <1>4
  <2> QED
    BY <2>4, <2>5 DEF Folds
<1>5. SumFunctionOnSet(f, S) = (CHOOSE h : Raw(h))[S]
  BY DEF SumFunctionOnSet, FoldFunctionOnSet, MapThenFoldSet, First
<1>6. Raw(CHOOSE h : Raw(h))
  <2> HIDE DEF Raw
  <2> QED
    BY <1>3
<1> HIDE DEF Raw
<1> QED
  BY <1>4, <1>5, <1>6
LEMMA ProductFolds ==
  ASSUME NEW f, NEW S, IsFiniteSet(S), \A n \in S : f[n] \in Nat
  PROVE  \E g : Folds(Multiplying, 1, f, S, g) /\ Product(f, S) = g[S]
<1> DEFINE Raw(g) == g = [s \in SUBSET S |-> IF s = {} THEN 1 ELSE f[First(s)] * g[s \ {First(s)}]]
<1>0. Multiplying \in [Nat \X Nat -> Nat] /\ \A x, y \in Nat : Multiplying[<<x, y>>] = x * y
  BY DEF Multiplying
<1>1. PICK g : Folds(Multiplying, 1, f, S, g)
  BY FoldsExists
<1>2. \A s \in SUBSET S : g[s] \in Nat
  BY <1>0, <1>1, FoldsNat
<1>3. Raw(g)
  <2>1. ASSUME NEW s \in SUBSET S, s # {} PROVE g[s] = f[First(s)] * g[s \ {First(s)}]
    <3>1. f[First(s)] \in Nat /\ g[s \ {First(s)}] \in Nat
      BY <1>2, <2>1, FirstIn
    <3> QED
      BY <1>0, <1>1, <2>1, <3>1 DEF Folds
  <2>2. DOMAIN g = SUBSET S /\ g[{}] = 1 /\ g = [s \in DOMAIN g |-> g[s]]
    BY <1>1 DEF Folds
  <2> QED
    BY <2>1, <2>2
<1>4. ASSUME NEW h, Raw(h) PROVE Folds(Multiplying, 1, f, S, h)
  <2> DEFINE T == {s \in SUBSET S : h[s] \in Nat}
  <2>1. {} \in T
    BY <1>4
  <2>2. ASSUME NEW s \in SUBSET S, s # {}, \A a \in s : s \ {a} \in T
        PROVE  s \in T
    <3>1. f[First(s)] \in Nat /\ h[s \ {First(s)}] \in Nat
      BY <2>2, FirstIn
    <3>2. h[s] = f[First(s)] * h[s \ {First(s)}]
      BY <1>4, <2>2
    <3> QED
      BY <3>1, <3>2
  <2>3. SUBSET S \subseteq T
    <3> HIDE DEF T
    <3> QED
      BY <2>1, <2>2, SubsetInduction
  <2>4. ASSUME NEW s \in SUBSET S, s # {} PROVE h[s] = Multiplying[<<f[First(s)], h[s \ {First(s)}]>>]
    <3>1. f[First(s)] \in Nat /\ h[s \ {First(s)}] \in Nat
      BY <2>3, <2>4, FirstIn
    <3> QED
      BY <1>0, <1>4, <2>4, <3>1
  <2>5. DOMAIN h = SUBSET S /\ h[{}] = 1 /\ h = [s \in DOMAIN h |-> h[s]]
    BY <1>4
  <2> QED
    BY <2>4, <2>5 DEF Folds
<1>5. Product(f, S) = (CHOOSE h : Raw(h))[S]
  BY DEF Product, FoldFunctionOnSet, MapThenFoldSet, First
<1>6. Raw(CHOOSE h : Raw(h))
  <2> HIDE DEF Raw
  <2> QED
    BY <1>3
<1> HIDE DEF Raw
<1> QED
  BY <1>4, <1>5, <1>6

\* A sum of naturals is one,
LEMMA SumIn ==
  ASSUME NEW f, NEW S, IsFiniteSet(S), \A n \in S : f[n] \in Nat
  PROVE  SumFunctionOnSet(f, S) \in Nat
<1>1. PICK g : Folds(Adding, 0, f, S, g) /\ SumFunctionOnSet(f, S) = g[S]
  BY SumFolds
<1>2. Adding \in [Nat \X Nat -> Nat]
  BY DEF Adding
<1> QED
  BY <1>1, <1>2, FoldsNat

\* of nothing 0,
LEMMA SumNone == ASSUME NEW f PROVE SumFunctionOnSet(f, {}) = 0
<1>1. PICK g : Folds(Adding, 0, f, {}, g) /\ SumFunctionOnSet(f, {}) = g[{}]
  BY SumFolds, FS_EmptySet
<1> QED
  BY <1>1 DEF Folds

\* and any term of it may be taken out.
LEMMA SumSplit ==
  ASSUME NEW f, NEW S, IsFiniteSet(S), \A n \in S : f[n] \in Nat, NEW a \in S
  PROVE  SumFunctionOnSet(f, S) = f[a] + SumFunctionOnSet(f, S \ {a})
<1> DEFINE rest == S \ {a}
<1>1. PICK g : Folds(Adding, 0, f, S, g) /\ SumFunctionOnSet(f, S) = g[S]
  BY SumFolds
<1>2. IsFiniteSet(rest) /\ rest \in SUBSET S
  BY FS_Subset
<1>3. PICK h : Folds(Adding, 0, f, rest, h) /\ SumFunctionOnSet(f, rest) = h[rest]
  BY <1>2, SumFolds
<1>4. h[rest] = g[rest]
  <2> HIDE DEF rest
  <2> QED
    BY <1>1, <1>2, <1>3, FoldsAgree
<1>5. Adding \in [Nat \X Nat -> Nat] /\ \A x, y \in Nat : Adding[<<x, y>>] = x + y
  BY DEF Adding
<1>6. Exchanges(Adding)
  BY <1>5 DEF Exchanges
<1>7. g[S] = Adding[<<f[a], g[rest]>>]
  BY <1>1, <1>6, FoldsSplit
<1>8. f[a] \in Nat /\ g[rest] \in Nat
  BY <1>1, <1>2, <1>5, FoldsNat
<1> QED
  BY <1>1, <1>3, <1>4, <1>5, <1>7, <1>8

\* The same of a product.
LEMMA ProductIn ==
  ASSUME NEW f, NEW S, IsFiniteSet(S), \A n \in S : f[n] \in Nat
  PROVE  Product(f, S) \in Nat
<1>1. PICK g : Folds(Multiplying, 1, f, S, g) /\ Product(f, S) = g[S]
  BY ProductFolds
<1>2. Multiplying \in [Nat \X Nat -> Nat]
  BY DEF Multiplying
<1> QED
  BY <1>1, <1>2, FoldsNat

LEMMA ProductSplit ==
  ASSUME NEW f, NEW S, IsFiniteSet(S), \A n \in S : f[n] \in Nat, NEW a \in S
  PROVE  Product(f, S) = f[a] * Product(f, S \ {a})
<1> DEFINE rest == S \ {a}
<1>1. PICK g : Folds(Multiplying, 1, f, S, g) /\ Product(f, S) = g[S]
  BY ProductFolds
<1>2. IsFiniteSet(rest) /\ rest \in SUBSET S
  BY FS_Subset
<1>3. PICK h : Folds(Multiplying, 1, f, rest, h) /\ Product(f, rest) = h[rest]
  BY <1>2, ProductFolds
<1>4. h[rest] = g[rest]
  <2> HIDE DEF rest
  <2> QED
    BY <1>1, <1>2, <1>3, FoldsAgree
<1>5. Multiplying \in [Nat \X Nat -> Nat] /\ \A x, y \in Nat : Multiplying[<<x, y>>] = x * y
  BY DEF Multiplying
<1>6. Exchanges(Multiplying)
  BY <1>5 DEF Exchanges
<1>7. g[S] = Multiplying[<<f[a], g[rest]>>]
  BY <1>1, <1>6, FoldsSplit
<1>8. f[a] \in Nat /\ g[rest] \in Nat
  BY <1>1, <1>2, <1>5, FoldsNat
<1> QED
  BY <1>1, <1>3, <1>4, <1>5, <1>7, <1>8

\* A sum that is term by term at most another, each scaled by its own factor,
\* is so as a whole; terms the other does not have must be 0.
LEMMA SumsCompare ==
  ASSUME NEW A, IsFiniteSet(A), NEW B, IsFiniteSet(B), NEW f, NEW g,
         \A n \in A : f[n] \in Nat, \A n \in B : g[n] \in Nat,
         NEW p \in Nat, NEW q \in Nat,
         \A n \in A \cap B : f[n] * p <= g[n] * q, \A n \in A \ B : f[n] = 0
  PROVE  SumFunctionOnSet(f, A) * p <= SumFunctionOnSet(g, B) * q
<1> DEFINE S == A \cup B
           F(s) == SumFunctionOnSet(f, s \cap A)
           G(s) == SumFunctionOnSet(g, s \cap B)
           T == {s \in SUBSET S : F(s) * p <= G(s) * q}
<1>1. {} \in T
  <2>1. F({}) = 0 /\ G({}) = 0
    <3>1. {} \cap A = {} /\ {} \cap B = {}
      OBVIOUS
    <3> QED
      BY <3>1, SumNone
  <2> HIDE DEF F, G
  <2> QED
    BY <2>1
<1>2. ASSUME NEW s \in SUBSET S PROVE F(s) \in Nat /\ G(s) \in Nat
  <2>1. IsFiniteSet(s \cap A) /\ IsFiniteSet(s \cap B)
    BY FS_Subset
  <2> QED
    BY <2>1, SumIn
<1>3. ASSUME NEW s \in SUBSET S, NEW a \in s
      PROVE  /\ F(s) = IF a \in A THEN f[a] + F(s \ {a}) ELSE F(s \ {a})
             /\ G(s) = IF a \in B THEN g[a] + G(s \ {a}) ELSE G(s \ {a})
  <2>1. IsFiniteSet(s \cap A) /\ IsFiniteSet(s \cap B)
    BY FS_Subset
  <2>2. F(s) = IF a \in A THEN f[a] + F(s \ {a}) ELSE F(s \ {a})
    <3>1. CASE a \in A
      <4>1. (s \cap A) \ {a} = (s \ {a}) \cap A
        OBVIOUS
      <4> QED
        BY <2>1, <3>1, <4>1, SumSplit
    <3>2. CASE a \notin A
      <4>1. s \cap A = (s \ {a}) \cap A
        BY <3>2
      <4> QED
        BY <3>2, <4>1
    <3> QED
      BY <3>1, <3>2
  <2>3. G(s) = IF a \in B THEN g[a] + G(s \ {a}) ELSE G(s \ {a})
    <3>1. CASE a \in B
      <4>1. (s \cap B) \ {a} = (s \ {a}) \cap B
        OBVIOUS
      <4> QED
        BY <2>1, <3>1, <4>1, SumSplit
    <3>2. CASE a \notin B
      <4>1. s \cap B = (s \ {a}) \cap B
        BY <3>2
      <4> QED
        BY <3>2, <4>1
    <3> QED
      BY <3>1, <3>2
  <2> QED
    BY <2>2, <2>3
<1>4. ASSUME NEW s \in SUBSET S, s # {}, \A a \in s : s \ {a} \in T
      PROVE  s \in T
  <2>1. PICK a : a \in s
    BY <1>4
  <2>2. s \ {a} \in SUBSET S
    OBVIOUS
  <2>3. PICK x \in Nat, y \in Nat : x = F(s \ {a}) /\ y = G(s \ {a})
    BY <1>2, <2>2
  <2>4. x * p <= y * q
    BY <1>4, <2>1, <2>3
  <2>5. /\ F(s) = IF a \in A THEN f[a] + x ELSE x
        /\ G(s) = IF a \in B THEN g[a] + y ELSE y
    BY <1>3, <2>1, <2>3
  <2> HIDE DEF F, G
  <2>6. CASE a \in A \cap B
    <3>1. PICK i \in Nat, j \in Nat : i = f[a] /\ j = g[a]
      BY <2>6
    <3>2. i * p <= j * q
      BY <2>6, <3>1
    <3>3. (i + x) * p <= (j + y) * q
      BY <2>4, <3>2, SMT
    <3> QED
      BY <2>5, <2>6, <3>1, <3>3
  <2>7. CASE a \in A \ B
    <3>1. f[a] + x = x
      BY <2>7
    <3> QED
      BY <2>4, <2>5, <2>7, <3>1
  <2>8. CASE a \in B \ A
    <3>1. PICK j \in Nat : j = g[a]
      BY <2>8
    <3>2. x * p <= (j + y) * q
      BY <2>4, SMT
    <3> QED
      BY <2>5, <2>8, <3>1, <3>2
  <2> QED
    BY <2>1, <2>6, <2>7, <2>8
<1>5. IsFiniteSet(S)
  BY FS_Union
<1>6. SUBSET S \subseteq T
  <2> HIDE DEF T, S
  <2> QED
    BY <1>1, <1>4, <1>5, SubsetInduction
<1>7. S \cap A = A /\ S \cap B = B /\ S \in SUBSET S
  OBVIOUS
<1>8. F(S) * p <= G(S) * q
  <2> HIDE DEF F, G, S
  <2> QED
    BY <1>6, <1>7
<1> HIDE DEF S
<1> QED
  BY <1>7, <1>8

-----------------------------------------------------------------------------
(* The scorecard. *)

\* A block whose numbers are numbers; without a grade it has no points.
Sound(b) ==
  /\ b.graded \in BOOLEAN /\ b.num \in Nat /\ b.den \in Nat
  /\ ~b.graded => b.num = 0

\* Whether a block is in the denominator (scorecard._resolve_components).
Scores(b) == b.graded \/ Fails(b)

\* A block that falls stays in the denominator and its grade is no higher; one
\* that enters the denominator enters with no points.
Falls(new, old) ==
  IF Scores(old) THEN Scores(new) /\ new.num * Den(old) <= old.num * Den(new) ELSE new.num = 0

\* The terms of a composite.
Dens(blocks) == [n \in Scoring(blocks) |-> Den(blocks[n])]
Shares(weights, blocks) ==
  [n \in Scoring(blocks) |-> weights[n] * blocks[n].num * Product(Dens(blocks), Scoring(blocks) \ {n})]

\* A composite in these terms.
LEMMA CompositeIs ==
  ASSUME NEW weights, NEW blocks
  PROVE  /\ Composite(weights, blocks).graded <=> Scoring(blocks) # {}
         /\ Scoring(blocks) = {} => Composite(weights, blocks) = NoValue
         /\ Scoring(blocks) # {} =>
              Composite(weights, blocks) =
                [graded |-> TRUE, skip |-> "none",
                 num |-> SumFunctionOnSet(Shares(weights, blocks), Scoring(blocks)),
                 den |-> SumFunctionOnSet(weights, Scoring(blocks)) * Product(Dens(blocks), Scoring(blocks))]
BY DEF Composite, Shares, Dens, NoValue, NotGradedBecause

\* A composite of sound blocks is sound, and so is each term of it.
LEMMA CompositeIsSound ==
  ASSUME NEW V, IsFiniteSet(V), NEW weights, \A n \in V : weights[n] \in Nat,
         NEW blocks, DOMAIN blocks = V, \A n \in V : Sound(blocks[n])
  PROVE  /\ Sound(Composite(weights, blocks))
         /\ \A n \in Scoring(blocks) : Dens(blocks)[n] \in Nat /\ Shares(weights, blocks)[n] \in Nat
         /\ Scoring(blocks) \in SUBSET V /\ IsFiniteSet(Scoring(blocks))
         /\ SumFunctionOnSet(Shares(weights, blocks), Scoring(blocks)) \in Nat
         /\ SumFunctionOnSet(weights, Scoring(blocks)) \in Nat
         /\ Product(Dens(blocks), Scoring(blocks)) \in Nat
         /\ \A n \in Scoring(blocks) : Product(Dens(blocks), Scoring(blocks) \ {n}) \in Nat
<1> DEFINE S == Scoring(blocks)
           dens == Dens(blocks)
           shares == Shares(weights, blocks)
<1>1. S \in SUBSET V /\ IsFiniteSet(S)
  <2>1. S \in SUBSET V
    BY DEF Scoring
  <2> HIDE DEF S
  <2> QED
    BY <2>1, FS_Subset
<1>2. \A n \in S : dens[n] \in Nat
  BY <1>1 DEF Dens, Den, Sound
<1>3. ASSUME NEW s \in SUBSET S PROVE Product(dens, s) \in Nat
  <2>1. IsFiniteSet(s)
    BY <1>1, FS_Subset
  <2> HIDE DEF dens, S
  <2> QED
    BY <1>2, <2>1, ProductIn
<1>4. \A n \in S : Product(dens, S \ {n}) \in Nat
  BY <1>3
<1>5. \A n \in S : shares[n] \in Nat
  <2> SUFFICES ASSUME NEW n \in S PROVE shares[n] \in Nat
    OBVIOUS
  <2>1. shares[n] = weights[n] * blocks[n].num * Product(dens, S \ {n})
    BY DEF Shares
  <2>2. weights[n] \in Nat /\ blocks[n].num \in Nat
    BY <1>1 DEF Sound
  <2> QED
    BY <1>4, <2>1, <2>2
<1>6. Product(dens, S) \in Nat
  BY <1>3
<1>7. SumFunctionOnSet(shares, S) \in Nat
  <2> HIDE DEF shares, S
  <2> QED
    BY <1>1, <1>5, SumIn
<1>8. SumFunctionOnSet(weights, S) \in Nat
  <2> HIDE DEF S
  <2> QED
    BY <1>1, SumIn
<1>9. Sound(Composite(weights, blocks))
  <2>1. CASE S = {}
    <3>1. Composite(weights, blocks) = [graded |-> FALSE, num |-> 0, den |-> 0, skip |-> "unknown"]
      BY <2>1, CompositeIs DEF NoValue, NotGradedBecause
    <3> QED
      BY <3>1 DEF Sound
  <2>2. CASE S # {}
    <3>1. PICK x \in Nat, y \in Nat, z \in Nat :
            /\ x = SumFunctionOnSet(shares, S) /\ y = SumFunctionOnSet(weights, S)
            /\ z = Product(dens, S)
      BY <1>6, <1>7, <1>8
    <3>2. Composite(weights, blocks) = [graded |-> TRUE, skip |-> "none", num |-> x, den |-> y * z]
      BY <2>2, <3>1, CompositeIs
    <3> QED
      BY <3>2 DEF Sound
  <2> QED
    BY <2>1, <2>2
<1> QED
  BY <1>1, <1>2, <1>4, <1>5, <1>6, <1>7, <1>8, <1>9

\* Cross-multiplying one share: its grade i/l is no higher than j/k.
LEMMA CrossShare ==
  ASSUME NEW w \in Nat, NEW x \in Nat, NEW y \in Nat,
         NEW i \in Nat, NEW j \in Nat, NEW k \in Nat, NEW l \in Nat, i * k <= j * l
  PROVE  (w * i * x) * (k * y) <= (w * j * y) * (l * x)
<1> DEFINE c == w * x * y
<1>1. PICK p \in Nat, q \in Nat, d \in Nat : p = i * k /\ q = j * l /\ d = c
  BY SMT
<1>2. p * d <= q * d
  BY <1>1, SMT
<1>3. (w * i * x) * (k * y) = (i * k) * c
  BY SMT
<1>4. (w * j * y) * (l * x) = (j * l) * c
  BY SMT
<1> QED
  BY <1>1, <1>2, <1>3, <1>4

\* Cross-multiplying two means.
LEMMA CrossMean ==
  ASSUME NEW n1 \in Nat, NEW n2 \in Nat, NEW p1 \in Nat, NEW p2 \in Nat, NEW w1 \in Nat, NEW w2 \in Nat,
         n1 * p2 <= n2 * p1, w2 <= w1
  PROVE  n1 * (w2 * p2) <= n2 * (w1 * p1)
<1>1. PICK a \in Nat, b \in Nat : a = n1 * p2 /\ b = n2 * p1
  BY SMT
<1>2. a * w2 <= b * w2
  BY <1>1, SMT
<1>3. b * w2 <= b * w1
  BY SMT
<1>4. n1 * (w2 * p2) = a * w2 /\ n2 * (w1 * p1) = b * w1
  BY <1>1, SMT
<1> QED
  BY <1>2, <1>3, <1>4

\* A weighted mean falls with its blocks: a failure that enters the denominator
\* at 0 only pulls it down (scorecard._weighted_avg).
LEMMA CompositeFalls ==
  ASSUME NEW V, IsFiniteSet(V), NEW weights, \A n \in V : weights[n] \in Nat,
         NEW old, DOMAIN old = V, \A n \in V : Sound(old[n]),
         NEW new, DOMAIN new = V, \A n \in V : Sound(new[n]),
         \A n \in V : Falls(new[n], old[n])
  PROVE  /\ Falls(Composite(weights, new), Composite(weights, old))
         /\ AtMost(Composite(weights, new), Composite(weights, old))
<1> DEFINE S == Scoring(old)
           R == Scoring(new)
           p == Product(Dens(old), S)
           q == Product(Dens(new), R)
<1>1. /\ S \in SUBSET R /\ R \in SUBSET V /\ IsFiniteSet(R) /\ IsFiniteSet(S)
  <2>1. S \in SUBSET R
    BY DEF Scoring, Falls, Scores
  <2> QED
    BY <2>1, CompositeIsSound
<1>2. p \in Nat /\ q \in Nat
  BY CompositeIsSound
<1>3. \A n \in S : Shares(weights, old)[n] \in Nat
  BY CompositeIsSound
<1>4. \A n \in R : Shares(weights, new)[n] \in Nat
  BY CompositeIsSound
<1>5. ASSUME NEW n \in R \ S PROVE Shares(weights, new)[n] = 0
  <2>1. new[n].num = 0
    BY <1>1 DEF Scoring, Falls, Scores
  <2>2. Shares(weights, new)[n] = weights[n] * new[n].num * Product(Dens(new), R \ {n})
    BY DEF Shares
  <2>3. weights[n] \in Nat /\ Product(Dens(new), R \ {n}) \in Nat
    BY <1>1, CompositeIsSound
  <2>4. PICK x \in Nat, y \in Nat : x = weights[n] /\ y = Product(Dens(new), R \ {n})
    BY <2>3
  <2>5. x * 0 * y = 0
    BY SMT
  <2> QED
    BY <2>1, <2>2, <2>4, <2>5
<1>6. ASSUME NEW n \in S
      PROVE  Shares(weights, new)[n] * p <= Shares(weights, old)[n] * q
  <2> DEFINE x == Product(Dens(new), R \ {n})
             y == Product(Dens(old), S \ {n})
  <2>1. n \in R /\ n \in V /\ x \in Nat /\ y \in Nat /\ weights[n] \in Nat
    BY <1>1, CompositeIsSound
  <2>2. p = Den(old[n]) * y
    <3>1. p = Dens(old)[n] * y
      <4>1. \A m \in S : Dens(old)[m] \in Nat
        BY CompositeIsSound
      <4> HIDE DEF S
      <4> QED
        BY <1>1, <4>1, ProductSplit
    <3> QED
      BY <3>1 DEF Dens
  <2>3. q = Den(new[n]) * x
    <3>1. q = Dens(new)[n] * x
      <4>1. \A m \in R : Dens(new)[m] \in Nat
        BY CompositeIsSound
      <4> HIDE DEF R
      <4> QED
        BY <1>1, <2>1, <4>1, ProductSplit
    <3> QED
      BY <2>1, <3>1 DEF Dens
  <2>4. /\ Den(old[n]) \in Nat /\ Den(new[n]) \in Nat
        /\ old[n].num \in Nat /\ new[n].num \in Nat
        /\ new[n].num * Den(old[n]) <= old[n].num * Den(new[n])
    BY <2>1 DEF Sound, Den, Scoring, Falls, Scores
  <2>5. /\ Shares(weights, new)[n] = weights[n] * new[n].num * x
        /\ Shares(weights, old)[n] = weights[n] * old[n].num * y
    BY <2>1 DEF Shares
  <2> HIDE DEF x, y, p, q
  <2>6. (weights[n] * new[n].num * x) * (Den(old[n]) * y) <= (weights[n] * old[n].num * y) * (Den(new[n]) * x)
    BY <2>1, <2>4, CrossShare
  <2> QED
    BY <2>2, <2>3, <2>5, <2>6
<1> DEFINE N(bs) == SumFunctionOnSet(Shares(weights, bs), Scoring(bs))
           W(bs) == SumFunctionOnSet(weights, Scoring(bs))
<1>7. N(new) * p <= N(old) * q
  <2>1. /\ \A n \in R \cap S : Shares(weights, new)[n] * p <= Shares(weights, old)[n] * q
        /\ \A n \in R \ S : Shares(weights, new)[n] = 0
    BY <1>5, <1>6
  <2> HIDE DEF p, q, R, S
  <2>2. SumFunctionOnSet(Shares(weights, new), R) * p <= SumFunctionOnSet(Shares(weights, old), S) * q
    BY <1>1, <1>2, <1>3, <1>4, <2>1, SumsCompare
  <2> QED
    BY <2>2 DEF R, S
<1>8. W(old) <= W(new)
  <2>1. /\ \A n \in S \cap R : weights[n] * 1 <= weights[n] * 1
        /\ S \ R = {}
        /\ \A n \in R : weights[n] \in Nat
        /\ \A n \in S : weights[n] \in Nat
    BY <1>1
  <2>2. W(old) \in Nat /\ W(new) \in Nat
    BY CompositeIsSound
  <2> HIDE DEF S, R
  <2>3. SumFunctionOnSet(weights, S) * 1 <= SumFunctionOnSet(weights, R) * 1
    BY <1>1, <2>1, SumsCompare
  <2> QED
    BY <2>2, <2>3 DEF S, R
<1>9. N(old) \in Nat /\ N(new) \in Nat /\ W(old) \in Nat /\ W(new) \in Nat
  BY CompositeIsSound
<1>10. N(new) * (W(old) * p) <= N(old) * (W(new) * q)
  <2> HIDE DEF N, W, p, q
  <2> QED
    BY <1>2, <1>7, <1>8, <1>9, CrossMean
<1>11. CASE S # {}
  <2>1. R # {}
    BY <1>1, <1>11
  <2>2. /\ Composite(weights, old) = [graded |-> TRUE, skip |-> "none", num |-> N(old), den |-> W(old) * p]
        /\ Composite(weights, new) = [graded |-> TRUE, skip |-> "none", num |-> N(new), den |-> W(new) * q]
    BY <1>11, <2>1, CompositeIs
  <2> HIDE DEF N, W, p, q
  <2> QED
    BY <1>10, <2>2 DEF AtMost, Falls, Scores, Den
<1>12. CASE S = {}
  <2>1. Composite(weights, old) = NoValue
    BY <1>12, CompositeIs
  <2>2. Composite(weights, new).num = 0
    <3>1. CASE R = {}
      BY <3>1, CompositeIs DEF NoValue, NotGradedBecause
    <3>2. CASE R # {}
      <4>1. N(old) = 0
        BY <1>12, SumNone
      <4>2. N(new) * 1 <= N(old) * 1
        <5>1. \A n \in R : Shares(weights, new)[n] = 0
          BY <1>5, <1>12
        <5> HIDE DEF R, S
        <5>2. SumFunctionOnSet(Shares(weights, new), R) * 1 <= SumFunctionOnSet(Shares(weights, old), S) * 1
          BY <1>1, <1>3, <1>4, <1>12, <5>1, SumsCompare
        <5> QED
          BY <5>2 DEF R, S
      <4>3. N(new) = 0
        <5> HIDE DEF N
        <5> QED
          BY <1>9, <4>1, <4>2
      <4> QED
        BY <3>2, <4>3, CompositeIs
    <3> QED
      BY <3>1, <3>2
  <2> QED
    BY <2>1, <2>2 DEF AtMost, Falls, Scores, Fails, FailedClasses, NoValue, NotGradedBecause
<1> QED
  BY <1>11, <1>12

\* A level for every component.
Leveled(levels) == \A n \in Leaves : levels[n] \in Nat

LEMMA ByStatusIsSound ==
  ASSUME NEW kind, NEW level \in Nat
  PROVE  Sound(ByStatus(kind, level))
BY DEF Sound, ByStatus, Graded, NoValue, NaReason, NotGradedBecause

\* Every grader returns a sound block.
LEMMA BlocksAreSound ==
  ASSUME NEW in, NEW levels, Leveled(levels)
  PROVE  \A m \in Modules : /\ DOMAIN Blocks(in, levels)[m] = Components[m]
                            /\ \A n \in Components[m] : Sound(Blocks(in, levels)[m][n])
<1> USE DEF Sound, Graded, NoValue, NaReason, NotGradedBecause
<1>0. \A n \in UNION {Components[m] : m \in Modules} : levels[n] \in Nat
  BY DEF Leveled, Leaves
<1>1. /\ Sound(Scanner(in, levels)) /\ Sound(MacroAgent(in, levels))
      /\ Sound(CompositeScoring(in, levels)) /\ Sound(Calibration(in, levels))
  <2>1. \A n \in Components["research"] : levels[n] \in Nat
    BY <1>0 DEF Modules
  <2>2. /\ levels["scanner"] \in Nat /\ levels["macro_agent"] \in Nat
        /\ levels["composite_scoring"] \in Nat /\ levels["calibration_diagnostics"] \in Nat
    BY <2>1 DEF Components
  <2> QED
    BY <2>2, ByStatusIsSound DEF Scanner, MacroAgent, CompositeScoring, Calibration
<1>2. Sound(MetaModel(in, levels)) /\ Sound(VetoGate(in, levels))
  <2>1. \A n \in Components["predictor"] : levels[n] \in Nat
    BY <1>0 DEF Modules
  <2>2. levels["meta_model"] \in Nat /\ levels["veto_gate"] \in Nat
    BY <2>1 DEF Components
  <2> QED
    BY <2>2, ByStatusIsSound DEF MetaModel, VetoGate
<1>3. /\ Sound(EntryTriggers(in, levels)) /\ Sound(RiskGuard(in, levels))
      /\ Sound(ExitRules(in, levels)) /\ Sound(PositionSizing(in, levels))
      /\ Sound(Portfolio(in, levels)) /\ Sound(Excursion(in, levels))
      /\ Sound(ActionEntropy(in, levels))
  <2>1. \A n \in Components["executor"] : levels[n] \in Nat
    BY <1>0 DEF Modules
  <2>2. /\ levels["entry_triggers"] \in Nat /\ levels["risk_guard"] \in Nat
        /\ levels["exit_rules"] \in Nat /\ levels["position_sizing"] \in Nat
        /\ levels["portfolio"] \in Nat /\ levels["excursion"] \in Nat
        /\ levels["action_entropy"] \in Nat
    BY <2>1 DEF Components
  <2> QED
    BY <2>2, ByStatusIsSound DEF EntryTriggers, RiskGuard, ExitRules, PositionSizing, Portfolio,
                                Excursion, ActionEntropy
<1>4. /\ DOMAIN Blocks(in, levels)["research"] = Components["research"]
      /\ \A n \in Components["research"] : Sound(Blocks(in, levels)["research"][n])
  BY <1>1 DEF Blocks, Components
<1>5. /\ DOMAIN Blocks(in, levels)["predictor"] = Components["predictor"]
      /\ \A n \in Components["predictor"] : Sound(Blocks(in, levels)["predictor"][n])
  BY <1>2 DEF Blocks, Components
<1>6. /\ DOMAIN Blocks(in, levels)["executor"] = Components["executor"]
      /\ \A n \in Components["executor"] : Sound(Blocks(in, levels)["executor"][n])
  BY <1>3 DEF Blocks, Components
<1> QED
  BY <1>4, <1>5, <1>6 DEF Modules


\* What a failed component's block says.
Failure == NotGradedBecause("failed")

\* A failure is a fall from any block, and a block falls to itself.
LEMMA FailureFalls ==
  ASSUME NEW old, Sound(old)
  PROVE  Falls(Failure, old) /\ Fails(Failure)
<1>1. Failure.num = 0 /\ Den(Failure) = 1 /\ Scores(Failure) /\ Fails(Failure)
  BY DEF Den, Scores, Fails, FailedClasses, Failure, NotGradedBecause
<1>2. Den(old) \in Nat /\ old.num \in Nat
  BY DEF Den, Sound
<1>3. Failure.num * Den(old) <= old.num * Den(Failure)
  <2>1. PICK d \in Nat, i \in Nat : d = Den(old) /\ i = old.num
    BY <1>2
  <2>2. 0 * d <= i * 1
    BY SMT
  <2> QED
    BY <1>1, <2>1, <2>2
<1> QED
  BY <1>1, <1>3 DEF Falls

LEMMA SameFalls ==
  ASSUME NEW b, Sound(b)
  PROVE  Falls(b, b)
<1>1. b.num * Den(b) <= b.num * Den(b)
  <2>1. PICK d \in Nat, i \in Nat : d = Den(b) /\ i = b.num
    BY DEF Den, Sound
  <2>2. i * d <= i * d
    BY SMT
  <2> QED
    BY <2>1, <2>2
<1> QED
  BY <1>1 DEF Falls, Scores, Sound

\* When a producer whose status is read reports a failure, every block falls,
\* and one of them fails.
LEMMA FailedBlocks ==
  ASSUME NEW in, NEW bad, NEW levels, Leveled(levels),
         NEW a \in StatusIsRead, in[a] \in {"bare", "full"}, bad[a] = "failed",
         \A b \in ScoreArtifacts \ {a} : bad[b] = in[b]
  PROVE  /\ \A m \in Modules : \A n \in Components[m] :
              Falls(Blocks(bad, levels)[m][n], Blocks(in, levels)[m][n])
         /\ \E m \in Modules : \E n \in Components[m] : Fails(Blocks(bad, levels)[m][n])
<1> DEFINE new == Blocks(bad, levels)
           old == Blocks(in, levels)
<1>1. \A m \in Modules : \A n \in Components[m] : Sound(old[m][n]) /\ Sound(new[m][n])
  BY BlocksAreSound
<1>2. \A level : ByStatus("failed", level) = Failure
  BY DEF ByStatus, NaReason, NotGradedBecause, SkipClass, Failure
<1>3. \A b \in {"signal_quality", "metrics", "e2e_lift", "scanner_lift", "scanner_opt",
                "score_calibration", "calibration_diagnostics", "predictor_sizing", "veto_value",
                "portfolio_stats"} : bad[b] = in[b]
  BY DEF StatusIsRead, ScoreArtifacts
<1>4. \A b \in StatusIsRead : IF b = a THEN bad[b] = "failed" ELSE bad[b] = in[b]
  BY DEF StatusIsRead, ScoreArtifacts
<1>5. /\ new["research"]["scanner"] = old["research"]["scanner"]
      /\ new["research"]["composite_scoring"] = old["research"]["composite_scoring"]
      /\ new["research"]["calibration_diagnostics"] = old["research"]["calibration_diagnostics"]
      /\ new["executor"]["portfolio"] = old["executor"]["portfolio"]
  <2>1. Scanner(bad, levels) = Scanner(in, levels)
    BY <1>3 DEF Scanner, OfLift
  <2>2. CompositeScoring(bad, levels) = CompositeScoring(in, levels)
    BY <1>3 DEF CompositeScoring, SignalQuality
  <2>3. Calibration(bad, levels) = Calibration(in, levels)
    BY <1>3 DEF Calibration
  <2>4. Portfolio(bad, levels) = Portfolio(in, levels)
    BY <1>3 DEF Portfolio, SignalQuality
  <2> QED
    BY <2>1, <2>2, <2>3, <2>4 DEF Blocks
<1>6. new["research"]["macro_agent"]
        = IF a = "macro_eval" THEN Failure ELSE old["research"]["macro_agent"]
  BY <1>2, <1>4 DEF Blocks, MacroAgent, StatusIsRead
<1>7. new["predictor"]["veto_gate"]
        = IF a = "veto_result" THEN Failure ELSE old["predictor"]["veto_gate"]
  BY <1>2, <1>3, <1>4 DEF Blocks, VetoGate, StatusIsRead
<1>8. /\ new["executor"]["entry_triggers"]
           = IF a = "trigger_scorecard" THEN Failure ELSE old["executor"]["entry_triggers"]
      /\ new["executor"]["risk_guard"]
           = IF a = "shadow_book" THEN Failure ELSE old["executor"]["risk_guard"]
      /\ new["executor"]["exit_rules"]
           = IF a = "exit_timing" THEN Failure ELSE old["executor"]["exit_rules"]
      /\ new["executor"]["position_sizing"]
           = IF a = "sizing_ab" THEN Failure ELSE old["executor"]["position_sizing"]
      /\ new["executor"]["excursion"]
           = IF a = "excursion_summary" THEN Failure ELSE old["executor"]["excursion"]
      /\ new["executor"]["action_entropy"]
           = IF a = "action_entropy" THEN Failure ELSE old["executor"]["action_entropy"]
  <2>1. EntryTriggers(bad, levels) = IF a = "trigger_scorecard" THEN Failure ELSE EntryTriggers(in, levels)
    BY <1>2, <1>4 DEF EntryTriggers, StatusIsRead
  <2>2. RiskGuard(bad, levels) = IF a = "shadow_book" THEN Failure ELSE RiskGuard(in, levels)
    BY <1>2, <1>4 DEF RiskGuard, StatusIsRead
  <2>3. ExitRules(bad, levels) = IF a = "exit_timing" THEN Failure ELSE ExitRules(in, levels)
    BY <1>2, <1>4 DEF ExitRules, StatusIsRead
  <2>4. PositionSizing(bad, levels) = IF a = "sizing_ab" THEN Failure ELSE PositionSizing(in, levels)
    BY <1>2, <1>4 DEF PositionSizing, StatusIsRead
  <2>5. Excursion(bad, levels) = IF a = "excursion_summary" THEN Failure ELSE Excursion(in, levels)
    BY <1>2, <1>4 DEF Excursion, StatusIsRead
  <2>6. ActionEntropy(bad, levels) = IF a = "action_entropy" THEN Failure ELSE ActionEntropy(in, levels)
    BY <1>2, <1>4 DEF ActionEntropy, StatusIsRead
  <2> QED
    BY <2>1, <2>2, <2>3, <2>4, <2>5, <2>6 DEF Blocks
\* A veto result that fails no longer stands in for the model's, which then
\* says itself why it has no grade.
<1>9. Falls(new["predictor"]["meta_model"], old["predictor"]["meta_model"])
  <2> DEFINE level == levels["meta_model"]
  <2>1. Sound(MetaModel(in, levels))
    <3>1. "predictor" \in Modules /\ "meta_model" \in Components["predictor"]
      BY DEF Modules, Components
    <3>2. Sound(old["predictor"]["meta_model"])
      BY <1>1, <3>1
    <3> QED
      BY <3>2 DEF Blocks
  <2>2. bad.predictor_sizing = in.predictor_sizing
    BY <1>3
  <2>3. CASE in.predictor_sizing \in {"bare", "full"} \/ a # "veto_result"
    <3>1. MetaModel(bad, levels) = MetaModel(in, levels)
      <4>1. CASE in.predictor_sizing \in {"bare", "full"}
        BY <2>2, <4>1 DEF MetaModel
      <4>2. CASE a # "veto_result"
        <5>1. bad.veto_result = in.veto_result
          BY <1>4, <4>2 DEF StatusIsRead
        <5> QED
          BY <2>2, <5>1 DEF MetaModel
      <4> QED
        BY <2>3, <4>1, <4>2
    <3> QED
      BY <2>1, <3>1, SameFalls DEF Blocks
  <2>4. CASE in.predictor_sizing \notin {"bare", "full"} /\ a = "veto_result"
    <3>1. MetaModel(in, levels) = NoValue
      BY <2>4 DEF MetaModel
    <3>2. MetaModel(bad, levels) = NaReason(in.predictor_sizing)
      BY <2>2, <2>4 DEF MetaModel, ByStatus
    <3>3. ~Scores(NoValue) /\ NaReason(in.predictor_sizing).num = 0
      BY DEF NoValue, NaReason, NotGradedBecause, Scores, Fails, FailedClasses
    <3> QED
      BY <3>1, <3>2, <3>3 DEF Falls, Blocks
  <2> QED
    BY <2>3, <2>4
<1> HIDE DEF new, old
<1>10. ASSUME NEW m \in Modules, NEW n \in Components[m]
       PROVE  Falls(new[m][n], old[m][n])
  <2>1. CASE new[m][n] = old[m][n] \/ new[m][n] = Failure
    BY <1>1, <2>1, SameFalls, FailureFalls
  <2>2. CASE m = "predictor" /\ n = "meta_model"
    BY <1>9, <2>2
  <2>3. CASE m = "research"
    BY <1>5, <1>6, <2>1, <2>3 DEF Components
  <2>4. CASE m = "predictor"
    BY <1>7, <2>1, <2>2, <2>4 DEF Components
  <2>5. CASE m = "executor"
    BY <1>5, <1>8, <2>1, <2>5 DEF Components
  <2> QED
    BY <2>3, <2>4, <2>5 DEF Modules
<1>11. \E m \in Modules : \E n \in Components[m] : Fails(new[m][n])
  <2>1. Fails(Failure)
    BY DEF Failure, NotGradedBecause, Fails, FailedClasses
  <2>2. \E m \in Modules : \E n \in Components[m] : new[m][n] = Failure
    <3>1. CASE a = "macro_eval"
      BY <1>6, <3>1 DEF Modules, Components
    <3>2. CASE a = "veto_result"
      BY <1>7, <3>2 DEF Modules, Components
    <3>3. CASE a \notin {"macro_eval", "veto_result"}
      <4>1. \E n \in Components["executor"] : new["executor"][n] = Failure
        BY <1>8, <3>3 DEF Components, StatusIsRead
      <4> QED
        BY <4>1 DEF Modules
    <3> QED
      BY <3>1, <3>2, <3>3
  <2> QED
    BY <2>1, <2>2
<1> QED
  BY <1>10, <1>11 DEF new, old

\* The modules and the voters are a few.
LEMMA ScorecardIsFinite == IsFiniteSet(Voters) /\ \A m \in Modules : IsFiniteSet(Components[m])
<1>1. IsFiniteSet({"research", "predictor", "executor", "portfolio_outcome", "portfolio_outcome"})
  BY FewAreFinite
<1>2. IsFiniteSet({"scanner", "macro_agent", "composite_scoring", "calibration_diagnostics", "scanner"})
  BY FewAreFinite
<1>3. IsFiniteSet({"meta_model", "veto_gate", "veto_gate", "veto_gate", "veto_gate"})
  BY FewAreFinite
<1>4. IsFiniteSet({"entry_triggers", "risk_guard", "exit_rules", "position_sizing", "portfolio"})
  BY FewAreFinite
<1>5. IsFiniteSet({"excursion", "action_entropy", "excursion", "excursion", "excursion"})
  BY FewAreFinite
<1>6. IsFiniteSet({"entry_triggers", "risk_guard", "exit_rules", "position_sizing", "portfolio"}
                    \cup {"excursion", "action_entropy", "excursion", "excursion", "excursion"})
  BY <1>4, <1>5, FS_Union
<1>7. /\ Voters = {"research", "predictor", "executor", "portfolio_outcome", "portfolio_outcome"}
      /\ Components["research"] =
           {"scanner", "macro_agent", "composite_scoring", "calibration_diagnostics", "scanner"}
      /\ Components["predictor"] = {"meta_model", "veto_gate", "veto_gate", "veto_gate", "veto_gate"}
      /\ Components["executor"] =
           {"entry_triggers", "risk_guard", "exit_rules", "position_sizing", "portfolio"}
             \cup {"excursion", "action_entropy", "excursion", "excursion", "excursion"}
  BY DEF Voters, Modules, Components
<1> QED
  BY <1>1, <1>2, <1>3, <1>6, <1>7 DEF Modules

\* The voters of the headline.
VotesOf(in, levels, outcome) ==
  [v \in Voters |-> IF v = "portfolio_outcome" THEN outcome
                    ELSE Composite(Weight[v], Blocks(in, levels)[v])]

\* The scorecard's grades, and what a failure inside a module does to its
\* coverage.
LEMMA ScorecardIs ==
  ASSUME NEW in, NEW levels, NEW outcome, NEW outcomeWhole,
         NEW score, score = ComputeScorecard(in, levels, outcome, outcomeWhole)
  PROVE  /\ score.overall = Composite(OverallWeight, VotesOf(in, levels, outcome))
         /\ \A m \in Modules : score.modules[m] = Composite(Weight[m], Blocks(in, levels)[m])
         /\ \A m \in Modules : \A n \in DOMAIN Blocks(in, levels)[m] :
              Fails(Blocks(in, levels)[m][n]) =>
                /\ score.coverage.failed # {}
                /\ score.coverage.qualifier = "PARTIAL-FAILURE-SCORED-ZERO"
<1> DEFINE blocks == Blocks(in, levels)
           grade == [m \in Modules |-> Composite(Weight[m], blocks[m])]
           votes == [v \in Voters |-> IF v = "portfolio_outcome" THEN outcome ELSE grade[v]]
           cover == [m \in Modules |-> LeafCoverage(blocks[m])]
           whole == [v \in Voters |-> IF v \in Modules THEN cover[v].whole ELSE outcomeWhole]
           failedIn == [v \in Voters |-> IF v \in Modules THEN cover[v].failed ELSE {}]
<1>1. score = [status |-> ScoreStatus(votes), overall |-> Composite(OverallWeight, votes),
               modules |-> grade, retired |-> RetiredBlocks(in),
               coverage |-> Coverage(votes, whole, failedIn)]
  BY DEF ComputeScorecard
<1>2. votes = VotesOf(in, levels, outcome)
  BY DEF VotesOf, Voters
<1> HIDE DEF blocks
<1>3. ASSUME NEW m \in Modules, NEW n \in DOMAIN blocks[m], Fails(blocks[m][n])
      PROVE  n \in failedIn[m] /\ m \in Scoring(votes)
  <2>1. n \in cover[m].failed
    BY <1>3 DEF LeafCoverage, Coverage, Fails
  <2>2. m \in Voters /\ m # "portfolio_outcome"
    BY DEF Voters, Modules
  <2>3. Scoring(blocks[m]) # {}
    BY <1>3 DEF Scoring
  <2>4. Composite(Weight[m], blocks[m]).graded
    BY <2>3, CompositeIs
  <2>5. votes[m].graded /\ m \in DOMAIN votes
    BY <2>2, <2>4
  <2> HIDE DEF votes, cover
  <2> QED
    BY <2>1, <2>2, <2>5 DEF Scoring
<1>4. ASSUME NEW bs, NEW w, NEW f, NEW m \in DOMAIN bs, NEW n, n \in f[m], m \in Scoring(bs)
      PROVE  /\ Coverage(bs, w, f).failed # {}
             /\ Coverage(bs, w, f).qualifier = "PARTIAL-FAILURE-SCORED-ZERO"
  <2> DEFINE skips == {k \in DOMAIN bs : ~bs[k].graded}
             failed == {k \in skips : Fails(bs[k])} \cup UNION {f[k] : k \in DOMAIN bs}
             complete == skips = {} /\ \A k \in DOMAIN bs : w[k]
  <2>1. n \in failed
    BY <1>4
  <2>2. failed # {} /\ Scoring(bs) # {}
    BY <1>4, <2>1
  <2>3. Coverage(bs, w, f) =
          [skips |-> skips, failed |-> failed, whole |-> complete,
           renormalized |-> Scoring(bs) # {} /\ \E k \in skips : ~Fails(bs[k]),
           qualifier |-> CASE Scoring(bs) = {} -> "UNGRADED"
                           [] Scoring(bs) # {} /\ failed # {} -> "PARTIAL-FAILURE-SCORED-ZERO"
                           [] Scoring(bs) # {} /\ failed = {} /\ ~complete -> "PARTIAL"
                           [] OTHER -> "COMPLETE"]
    BY DEF Coverage
  <2> HIDE DEF failed, skips, complete
  <2> QED
    BY <2>2, <2>3
<1>5. score.coverage = Coverage(votes, whole, failedIn)
  <2> HIDE DEF votes, whole, failedIn, grade
  <2> QED
    BY <1>1
<1>6. ASSUME NEW m \in Modules, NEW n \in DOMAIN blocks[m], Fails(blocks[m][n])
      PROVE  /\ score.coverage.failed # {}
             /\ score.coverage.qualifier = "PARTIAL-FAILURE-SCORED-ZERO"
  <2>1. m \in DOMAIN votes
    BY DEF Voters
  <2> HIDE DEF votes, whole, failedIn
  <2> QED
    BY <1>3, <1>4, <1>5, <1>6, <2>1
<1>7. /\ score.overall = Composite(OverallWeight, VotesOf(in, levels, outcome))
      /\ score.modules = grade
  <2> HIDE DEF votes, whole, failedIn, grade
  <2> QED
    BY <1>1, <1>2
<1> QED
  BY <1>6, <1>7 DEF blocks

\* Turning a result into a reported failure never helps a grade, and shows.
LEMMA FailureNeverHelps ==
  ASSUME NEW in, NEW bad, NEW levels, Leveled(levels), NEW outcome, Sound(outcome),
         NEW outcomeWhole,
         NEW a \in StatusIsRead, in[a] \in {"bare", "full"}, bad[a] = "failed",
         \A b \in ScoreArtifacts \ {a} : bad[b] = in[b],
         NEW new, new = ComputeScorecard(bad, levels, outcome, outcomeWhole),
         NEW old, old = ComputeScorecard(in, levels, outcome, outcomeWhole)
  PROVE  /\ AtMost(new.overall, old.overall)
         /\ \A m \in Modules : AtMost(new.modules[m], old.modules[m])
         /\ new.coverage.failed # {}
         /\ new.coverage.qualifier = "PARTIAL-FAILURE-SCORED-ZERO"
<1>1. ASSUME NEW m \in Modules
      PROVE  /\ Falls(Composite(Weight[m], Blocks(bad, levels)[m]),
                      Composite(Weight[m], Blocks(in, levels)[m]))
             /\ AtMost(Composite(Weight[m], Blocks(bad, levels)[m]),
                       Composite(Weight[m], Blocks(in, levels)[m]))
             /\ Sound(Composite(Weight[m], Blocks(bad, levels)[m]))
             /\ Sound(Composite(Weight[m], Blocks(in, levels)[m]))
  <2>1. PICK V, w, x, y : /\ V = Components[m] /\ w = Weight[m]
                          /\ x = Blocks(in, levels)[m] /\ y = Blocks(bad, levels)[m]
    OBVIOUS
  <2>2. /\ IsFiniteSet(V) /\ \A n \in V : w[n] \in Nat
        /\ DOMAIN x = V /\ \A n \in V : Sound(x[n])
        /\ DOMAIN y = V /\ \A n \in V : Sound(y[n])
    BY <2>1, BlocksAreSound, ScorecardIsFinite, WeightAssumption
  <2>3. \A n \in V : Falls(y[n], x[n])
    BY <2>1, FailedBlocks
  <2>4. Falls(Composite(w, y), Composite(w, x)) /\ AtMost(Composite(w, y), Composite(w, x))
    BY <2>2, <2>3, CompositeFalls
  <2>5. Sound(Composite(w, y)) /\ Sound(Composite(w, x))
    BY <2>2, CompositeIsSound
  <2> QED
    BY <2>1, <2>4, <2>5
<1>2. PICK x, y : x = VotesOf(in, levels, outcome) /\ y = VotesOf(bad, levels, outcome)
  OBVIOUS
<1>3. /\ DOMAIN x = Voters /\ DOMAIN y = Voters
      /\ \A v \in Voters : Sound(x[v]) /\ Sound(y[v]) /\ Falls(y[v], x[v])
  <2>1. Falls(outcome, outcome)
    BY SameFalls
  <2> QED
    BY <1>1, <1>2, <2>1 DEF VotesOf, Voters
<1>4. IsFiniteSet(Voters) /\ \A v \in Voters : OverallWeight[v] \in Nat
  BY ScorecardIsFinite, WeightAssumption
<1>5. AtMost(Composite(OverallWeight, y), Composite(OverallWeight, x))
  BY <1>3, <1>4, CompositeFalls
<1>6. /\ old.overall = Composite(OverallWeight, x) /\ new.overall = Composite(OverallWeight, y)
      /\ \A m \in Modules : /\ old.modules[m] = Composite(Weight[m], Blocks(in, levels)[m])
                            /\ new.modules[m] = Composite(Weight[m], Blocks(bad, levels)[m])
  BY <1>2, ScorecardIs
<1>7. /\ new.coverage.failed # {}
      /\ new.coverage.qualifier = "PARTIAL-FAILURE-SCORED-ZERO"
  <2>1. PICK m \in Modules : \E n \in Components[m] : Fails(Blocks(bad, levels)[m][n])
    BY FailedBlocks
  <2>2. PICK n \in Components[m] : Fails(Blocks(bad, levels)[m][n])
    BY <2>1
  <2>3. n \in DOMAIN Blocks(bad, levels)[m]
    BY BlocksAreSound
  <2> QED
    BY <2>2, <2>3, ScorecardIs
<1> QED
  BY <1>1, <1>5, <1>6, <1>7

-----------------------------------------------------------------------------
(* A tile's grade. *)

\* The record of a component bears its name and its criticality, and says of
\* it what the week did, or that nothing was measured.
LEMMA RenderedSays ==
  ASSUME NEW c, world.says[c] \in Outcomes
  PROVE  /\ Rendered(c).name = c
         /\ Rendered(c).criticality = CritOf(c)
         /\ ~IsNA(Rendered(c)) => Rendered(c).status = world.says[c]
                                  /\ world.says[c] \in {"GREEN", "WATCH", "RED", "dropped"}
BY DEF Rendered, MissingStale, Accepted, Stated, Record, IsNA, Dark, NotGraded, Outcomes

-----------------------------------------------------------------------------
(* The build. *)

\* What the proofs need of a week: the gate's cells, the scorecard's artifacts
\* and the levels are any value.
World ==
  /\ world.raises \subseteq Tiles
  /\ world.says \in [DeclaredComponents -> Outcomes]
  /\ DOMAIN world = {"mode", "registry", "recadenced", "reads", "slot", "census", "verdict",
                     "builders", "raises", "gate", "art", "level", "says"}

\* What the preflight established of an input that it let pass as status.
Judged(a, status) ==
  LET window == /\ world.gate[a] \notin {"absent", "undated", "denied"}
                /\ InWindow(a, world.gate[a])
  IN  /\ world.gate[a] # "denied" /\ (window => world.recadenced # a)
      /\ IF window THEN status = "ok" ELSE world.mode # "real" /\ status # "ok"

Statuses == {"ok", "UNMEASURED", "DEGRADED_REHEARSAL"}

\* Until the registry is loaded nothing is judged; after it every input that
\* was checked is, and the build goes on when all of them are.
GateInv ==
  /\ checked \in Seq(Statuses) /\ Len(checked) <= Len(GateOrder)
  /\ pc \in {"week", "registry"} => checked = <<>>
  /\ \A k \in 1..Len(checked) : Judged(GateOrder[k], checked[k])
  /\ pc \notin {"week", "registry", "failed"} => world.registry = "ok"
  /\ pc \in {"slot", "submit", "pool", "grade", "published"} =>
       world.reads = "ok" /\ Len(checked) = Len(GateOrder)

Result(t) ==
  IF t \in world.raises \cap world.builders THEN [status |-> "raised"]
  ELSE BuildTile(Roster[t], Emitted(t))

\* The card has the pool's tiles, one of them with its coverage record replaced,
\* and its overall status is theirs; its records are of declared components.
Shape ==
  /\ DOMAIN card.tiles = Tiles
  /\ \A t \in Tiles \ {"backtester"} : card.tiles[t] = tiles[t]
  /\ card.tiles_overall_status = OverallStatus([t \in Tiles |-> card.tiles[t].status])
  /\ IsFiniteSet(UNION {card.tiles[t].components : t \in Tiles})
  /\ \A t \in Tiles : /\ "components" \in DOMAIN card.tiles[t]
                      /\ \A r \in card.tiles[t].components : r.name \in DeclaredComponents

\* The pool holds what the builders of this week came to, and once it has
\* joined, none of them raised; the card is made of these tiles.
PoolInv ==
  /\ pc \notin {"pool", "grade", "published", "failed"} => DOMAIN tiles = {}
  /\ DOMAIN tiles \subseteq Tiles
  /\ pc # "week" => \A t \in DOMAIN tiles : tiles[t] = Result(t)
  /\ pc \in {"grade", "published"} =>
       DOMAIN tiles = Tiles /\ world.raises \cap world.builders = {}
  /\ pc = "published" => Shape

Steps == {"week", "registry", "gate", "slot", "submit", "pool", "grade", "published", "failed"}

CardInv == pc \in Steps /\ World /\ GateInv /\ PoolInv

\* A change of the week is still a week.
LEMMA ChangedWorld ==
  ASSUME World, NEW w, w \in Changed, world' = w
  PROVE  World'
<1> USE DEF World
<1>1. ASSUME NEW field \in {"mode", "registry", "recadenced", "reads", "slot", "census",
                            "verdict", "builders", "art", "level", "gate"},
             NEW m, w = [world EXCEPT ![field] = m]
      PROVE  World'
  <2>1. DOMAIN w = DOMAIN world /\ w.raises = world.raises /\ w.says = world.says
    BY <1>1
  <2> QED
    BY <2>1
<1>2. CASE w \in RunChanges
  <2>1. \E field \in {"mode", "registry", "recadenced", "reads", "slot", "census", "verdict"} :
        \E m : w = [world EXCEPT ![field] = m]
    BY <1>2 DEF RunChanges
  <2> QED
    BY <1>1, <2>1
<1>3. CASE w \in InputChanges
  <2>1. CASE w \in UNION {{[world EXCEPT !.gate[a] = c] : c \in GateCells(a)} : a \in Gated}
    <3>1. PICK a, m : w = [world EXCEPT !.gate = [world.gate EXCEPT ![a] = m]]
      BY <2>1
    <3> QED
      BY <1>1, <3>1
  <2>2. CASE w \in UNION {{[world EXCEPT !.art[a] = k] : k \in ArtifactKinds(a)} : a \in Landed}
    <3>1. PICK a, m : w = [world EXCEPT !.art = [world.art EXCEPT ![a] = m]]
      BY <2>2
    <3> QED
      BY <1>1, <3>1
  <2>3. CASE w \in {[world EXCEPT !.level[n] = Low] : n \in Leaves}
    <3>1. PICK n : w = [world EXCEPT !.level = [world.level EXCEPT ![n] = Low]]
      BY <2>3
    <3> QED
      BY <1>1, <3>1
  <2> HIDE DEF World
  <2> QED
    BY <1>3, <2>1, <2>2, <2>3 DEF InputChanges
<1>4. CASE w \in TileChanges
  <2>1. CASE w \in {[world EXCEPT !.builders = @ \ {t}] : t \in Tiles}
               \cup {[world EXCEPT !.builders = @ \cup {"stray"}]}
    <3>1. PICK m : w = [world EXCEPT !.builders = m]
      BY <2>1
    <3> QED
      BY <1>1, <3>1
  <2>2. CASE w \in {[world EXCEPT !.raises = @ \cup {t}] : t \in Tiles}
    BY <2>2
  <2>3. CASE w \in {[world EXCEPT !.says[c] = o] : c \in DeclaredComponents, o \in Outcomes}
    <3>1. PICK c \in DeclaredComponents, o \in Outcomes :
            w = [world EXCEPT !.says = [world.says EXCEPT ![c] = o]]
      BY <2>3
    <3>2. w.says \in [DeclaredComponents -> Outcomes]
      BY <3>1
    <3> QED
      BY <3>1, <3>2
  <2> HIDE DEF World
  <2> QED
    BY <1>4, <2>1, <2>2, <2>3 DEF TileChanges
<1> HIDE DEF World
<1> QED
  BY <1>2, <1>3, <1>4 DEF Changed

\* What the preflight lets pass it has judged.
LEMMA PreflightJudges ==
  ASSUME NEW a
  PROVE  /\ Finding(a) = "ok" => Judged(a, "ok")
         /\ Finding(a) # "ok" /\ Absorbed(Finding(a)) # "raise" => Judged(a, Absorbed(Finding(a)))
         /\ Absorbed(Finding(a)) \in Statuses \cup {"raise"}
<1> DEFINE cell == world.gate[a]
<1>1. CASE cell = "denied"
  BY <1>1 DEF Finding, Absorbed, Judged, Statuses
<1>2. CASE cell \in {"absent", "undated"}
  BY <1>2 DEF Finding, Absorbed, Judged, Statuses
<1>3. CASE cell \notin {"denied", "absent", "undated"}
  <2>1. CASE cell = "unparsable" /\ a # "research_signals"
    BY <1>3, <2>1 DEF Finding, Absorbed, Judged, Statuses
  <2>2. CASE world.recadenced = a /\ ~(cell = "unparsable" /\ a # "research_signals")
    BY <1>3, <2>2 DEF Finding, Absorbed, Judged, Statuses
  <2>3. CASE world.recadenced # a /\ ~(cell = "unparsable" /\ a # "research_signals")
    <3>1. Finding(a) = IF InWindow(a, cell) THEN "ok" ELSE "stale"
      BY <1>3, <2>3 DEF Finding
    <3> QED
      BY <1>3, <2>3, <3>1 DEF Absorbed, Judged, Statuses
  <2> QED
    BY <2>1, <2>2, <2>3
<1> QED
  BY <1>1, <1>2, <1>3

SelfRecords ==
  {Missing(Self, "critical")} \cup {Stated(Self, "critical", "GREEN")}
    \cup {Stated(Self, "critical", "WATCH")} \cup {Stated(Self, "critical", "RED")}

\* Every record a card of this week can carry.
Carried ==
  {Rendered(c) : c \in DeclaredComponents} \cup {Unreported(c) : c \in DeclaredComponents}
    \cup SelfRecords

LEMMA RosterIsDeclared ==
  /\ \A t \in Tiles : Roster[t] \subseteq DeclaredComponents
  /\ Self \in DeclaredComponents
BY CardAssumption DEF DeclaredComponents

\* They are finitely many, of declared components.
LEMMA CarriedFinite ==
  ASSUME World
  PROVE  IsFiniteSet(Carried) /\ \A r \in Carried : r.name \in DeclaredComponents
<1> DEFINE rendered == [c \in DeclaredComponents |-> Rendered(c)]
           unreported == [c \in DeclaredComponents |-> Unreported(c)]
<1>1. IsFiniteSet(DeclaredComponents)
  BY CardAssumption
<1>2. IsFiniteSet({rendered[c] : c \in DeclaredComponents})
  <2> HIDE DEF rendered
  <2>1. DOMAIN rendered = DeclaredComponents
    BY DEF rendered
  <2> QED
    BY <1>1, <2>1, FiniteImage
<1>3. IsFiniteSet({unreported[c] : c \in DeclaredComponents})
  <2> HIDE DEF unreported
  <2>1. DOMAIN unreported = DeclaredComponents
    BY DEF unreported
  <2> QED
    BY <1>1, <2>1, FiniteImage
<1>4. IsFiniteSet(SelfRecords)
  BY FS_Singleton, FS_Union DEF SelfRecords
<1>5. Carried = {rendered[c] : c \in DeclaredComponents}
                  \cup {unreported[c] : c \in DeclaredComponents} \cup SelfRecords
  BY DEF Carried
<1>6. IsFiniteSet(Carried)
  <2> HIDE DEF rendered, unreported
  <2> QED
    BY <1>2, <1>3, <1>4, <1>5, FS_Union
<1>7. \A c \in DeclaredComponents : Rendered(c).name = c /\ Unreported(c).name = c
  BY RenderedSays DEF World, Unreported, Record
<1>8. \A r \in SelfRecords : r.name = Self
  <2>1. Missing(Self, "critical").name = Self
    BY DEF Missing, Record
  <2>2. \A status : Stated(Self, "critical", status).name = Self
    BY DEF Stated, Record
  <2> QED
    BY <2>1, <2>2 DEF SelfRecords
<1> QED
  BY <1>6, <1>7, <1>8, RosterIsDeclared DEF Carried

\* The records of a tile of the pool, and of the tile whose record is replaced.
LEMMA BuiltIsCarried ==
  ASSUME NEW t \in Tiles
  PROVE  BuildTile(Roster[t], Emitted(t)).components \subseteq Carried
<1>1. Emitted(t) \subseteq {Rendered(c) : c \in DeclaredComponents}
  BY RosterIsDeclared DEF Emitted
<1> QED
  BY <1>1, RosterIsDeclared DEF BuildTile, GradedAgainst, Carried

LEMMA ReplacedIsCarried ==
  ASSUME NEW tile, tile.components \subseteq Carried,
         NEW record \in SelfRecords, NEW voting, voting \subseteq {record},
         tile = [components |-> tile.components, status |-> tile.status,
                 n_components |-> tile.n_components, n_graded |-> tile.n_graded,
                 unreported |-> tile.unreported]
  PROVE  WithRecord(tile, record, voting).components \subseteq Carried
<1> DEFINE others == {r \in tile.components : r.name # Self /\ r.status # "N/A-UNREPORTED"}
           rebuilt == BuildTile(Roster["backtester"], others \cup voting)
<1>1. record \in Carried
  BY DEF Carried
<1>2. rebuilt.components = (others \cup voting) \cup
        {Unreported(n) : n \in Roster["backtester"] \ {r.name : r \in others \cup voting}}
  BY DEF BuildTile, GradedAgainst
<1>3. rebuilt.components \subseteq Carried
  BY <1>1, <1>2, RosterIsDeclared, CardAssumption DEF Carried
<1>4. WithRecord(tile, record, voting).components
        = {r \in rebuilt.components : r.name # Self} \cup {record}
  <2> HIDE DEF rebuilt
  <2>1. WithRecord(tile, record, voting) =
          [tile EXCEPT !.components = {r \in rebuilt.components : r.name # Self} \cup {record},
                       !.status = rebuilt.status, !.n_components = rebuilt.n_components]
    BY DEF WithRecord, rebuilt
  <2> QED
    BY <2>1
<1> QED
  BY <1>1, <1>3, <1>4

\* The card is put together from the week's tiles and the coverage record.
LEMMA GradedCard ==
  ASSUME CardInv, Grade
  PROVE  Shape'
<1> DEFINE final == ReplaceEvaluatorCoverage(tiles)
           mine == tiles["backtester"]
<1>1. World /\ PoolInv /\ pc = "grade" /\ tiles' = tiles /\ card' = CardOf(Inputs, tiles)
  BY DEF CardInv, Grade
<1>2. DOMAIN tiles = Tiles /\ \A t \in Tiles : tiles[t] = BuildTile(Roster[t], Emitted(t))
  BY <1>1 DEF PoolInv, Result, World
<1>3. "backtester" \in Tiles
  BY CardAssumption
<1>4. PICK mended : /\ mended = IF world.census = "ok" THEN Counted(mine, tiles) ELSE MarkUnmeasured(mine)
                    /\ final = [tiles EXCEPT !["backtester"] = mended]
  BY DEF ReplaceEvaluatorCoverage
<1>5. \A t \in Tiles : tiles[t].components \subseteq Carried
  BY <1>2, BuiltIsCarried
<1>6. mended.components \subseteq Carried
  <2>1. mine = [components |-> mine.components, status |-> mine.status,
                n_components |-> mine.n_components, n_graded |-> mine.n_graded,
                unreported |-> mine.unreported]
    <3>1. mine = BuildTile(Roster["backtester"], Emitted("backtester"))
      BY <1>2, <1>3
    <3> HIDE DEF mine
    <3> QED
      BY <3>1 DEF BuildTile
  <2>2. CoverageRecord(Census(tiles)) \in SelfRecords
    BY DEF CoverageRecord, SelfRecords
  <2>3. CASE world.census = "ok"
    BY <1>3, <1>4, <1>5, <2>1, <2>2, <2>3, ReplacedIsCarried DEF Counted
  <2>4. CASE world.census # "ok"
    <3>1. Missing(Self, "critical") \in SelfRecords
      BY DEF SelfRecords
    <3> QED
      BY <1>3, <1>4, <1>5, <2>1, <2>4, <3>1, ReplacedIsCarried DEF MarkUnmeasured
  <2> QED
    BY <2>3, <2>4
<1>7. /\ DOMAIN final = Tiles
      /\ \A t \in Tiles \ {"backtester"} : final[t] = tiles[t]
      /\ \A t \in Tiles : final[t].components \subseteq Carried
  BY <1>2, <1>3, <1>4, <1>5, <1>6
<1>8. \A t \in Tiles : "components" \in DOMAIN final[t]
  <2>1. \A t \in Tiles : "components" \in DOMAIN tiles[t]
    <3>1. \A t : "components" \in DOMAIN BuildTile(Roster[t], Emitted(t))
      BY DEF BuildTile
    <3> QED
      BY <1>2, <3>1
  <2>2. \A tile, record, voting : DOMAIN WithRecord(tile, record, voting) = DOMAIN tile
    BY DEF WithRecord
  <2>3. DOMAIN mended = DOMAIN mine
    BY <1>4, <2>2 DEF Counted, MarkUnmeasured
  <2> QED
    BY <1>2, <1>3, <1>4, <2>1, <2>3
<1>9. /\ card'.tiles = final
      /\ card'.tiles_overall_status = OverallStatus([t \in DOMAIN final |-> final[t].status])
  BY <1>1 DEF CardOf
<1> HIDE DEF final
<1>10. /\ IsFiniteSet(UNION {final[t].components : t \in Tiles})
      /\ \A t \in Tiles : \A r \in final[t].components : r.name \in DeclaredComponents
  <2>1. (UNION {final[t].components : t \in Tiles}) \in SUBSET Carried
    BY <1>7
  <2> QED
    BY <1>1, <1>7, <2>1, CarriedFinite, FS_Subset
<1> QED
  BY <1>1, <1>7, <1>8, <1>9, <1>10 DEF Shape

\* Every step but Week leaves the week alone.
LEMMA StepKeepsInv ==
  ASSUME CardInv, UNCHANGED world, pc # "week",
         \/ LoadSpecs \/ CheckInput \/ ReadInputs \/ ScoreSlot \/ Submit
         \/ \E t \in Tiles : BuildOne(t)
         \/ Resolve \/ Grade
  PROVE  CardInv'
<1>1. World /\ GateInv /\ PoolInv /\ pc \in Steps
  BY DEF CardInv
<1>2. World'
  BY <1>1 DEF World
<1>3. \A t : Result(t)' = Result(t)
  BY DEF Result, Emitted, Rendered
<1>4. \A a, status : Judged(a, status)' = Judged(a, status)
  BY DEF Judged, InWindow
<1>5. CASE LoadSpecs
  <2>1. pc = "registry" /\ pc' \in {"gate", "failed"} /\ UNCHANGED <<checked, tiles, card>>
        /\ (pc' = "gate" => world.registry = "ok")
    BY <1>5 DEF LoadSpecs
  <2>2. GateInv'
    BY <1>1, <1>4, <2>1 DEF GateInv
  <2>3. PoolInv'
    BY <1>1, <1>3, <2>1 DEF PoolInv
  <2> QED
    BY <1>2, <2>1, <2>2, <2>3 DEF CardInv, Steps
<1>6. CASE CheckInput
  <2> DEFINE a == GateOrder[Len(checked) + 1]
             status == IF Finding(a) = "ok" THEN "ok" ELSE Absorbed(Finding(a))
  <2>1. pc = "gate" /\ Len(checked) < Len(GateOrder) /\ UNCHANGED <<tiles, card>>
        /\ IF status = "raise" THEN pc' = "failed" /\ UNCHANGED checked
           ELSE checked' = Append(checked, status) /\ pc' = pc
    BY <1>6 DEF CheckInput
  <2>2. PoolInv'
    BY <1>1, <1>3, <2>1 DEF PoolInv
  <2>3. CASE status = "raise"
    <3>1. GateInv'
      BY <1>1, <1>4, <2>1, <2>3 DEF GateInv
    <3> QED
      BY <1>2, <2>1, <2>2, <2>3, <3>1 DEF CardInv, Steps
  <2>4. CASE status # "raise"
    <3>1. Judged(a, status) /\ status \in Statuses
      BY <2>4, PreflightJudges DEF Statuses
    <3> HIDE DEF status
    <3>2. checked \in Seq(Statuses) /\ Len(GateOrder) \in Nat
      BY <1>1, CardAssumption DEF GateInv
    <3>3. /\ checked' \in Seq(Statuses) /\ Len(checked') = Len(checked) + 1
          /\ \A k \in 1..Len(checked) : checked'[k] = checked[k]
          /\ checked'[Len(checked) + 1] = status
      BY <2>1, <2>4, <3>1, <3>2
    <3>4. \A k \in 1..Len(checked') : Judged(GateOrder[k], checked'[k])
      <4> SUFFICES ASSUME NEW k \in 1..Len(checked') PROVE Judged(GateOrder[k], checked'[k])
        OBVIOUS
      <4>1. CASE k \in 1..Len(checked)
        BY <1>1, <3>3, <4>1 DEF GateInv
      <4>2. CASE k = Len(checked) + 1
        BY <3>1, <3>3, <4>2
      <4> QED
        BY <3>2, <3>3, <4>1, <4>2
    <3>5. GateInv'
      BY <1>1, <1>4, <2>1, <2>4, <3>2, <3>3, <3>4 DEF GateInv
    <3> QED
      BY <1>1, <1>2, <2>1, <2>2, <2>4, <3>5 DEF CardInv
  <2> QED
    BY <2>3, <2>4
<1>7. CASE ReadInputs \/ ScoreSlot \/ Submit
  <2>1. /\ UNCHANGED <<checked, tiles, card>>
        /\ pc \in {"gate", "slot", "submit"} /\ pc' \in {"slot", "submit", "pool", "failed"}
        /\ pc = "gate" => Len(checked) = Len(GateOrder) /\ (pc' # "failed" => world.reads = "ok")
    BY <1>7 DEF ReadInputs, ScoreSlot, Submit
  <2>2. GateInv'
    BY <1>1, <1>4, <2>1 DEF GateInv
  <2>3. PoolInv'
    BY <1>1, <1>3, <2>1 DEF PoolInv
  <2> QED
    BY <1>2, <2>1, <2>2, <2>3 DEF CardInv, Steps
<1>8. CASE \E t \in Tiles : BuildOne(t)
  <2>1. PICK t \in Tiles :
          /\ pc = "pool" /\ UNCHANGED <<pc, checked, card>>
          /\ tiles' = [u \in DOMAIN tiles \cup {t} |-> IF u = t THEN Result(t) ELSE tiles[u]]
    BY <1>8 DEF BuildOne, Result
  <2>2. GateInv'
    BY <1>1, <1>4, <2>1 DEF GateInv
  <2>3. PoolInv'
    BY <1>1, <1>3, <2>1 DEF PoolInv
  <2> QED
    BY <1>1, <1>2, <2>1, <2>2, <2>3 DEF CardInv
<1>9. CASE Resolve
  <2>1. /\ pc = "pool" /\ pc' \in {"grade", "failed"} /\ UNCHANGED <<checked, tiles, card>>
        /\ DOMAIN tiles = Tiles /\ (pc' = "grade" => Raised = {})
    BY <1>9 DEF Resolve
  <2>2. GateInv'
    BY <1>1, <1>4, <2>1 DEF GateInv
  <2>3. Raised = {} => world.raises \cap world.builders = {}
    <3> SUFFICES ASSUME NEW t \in world.raises \cap world.builders PROVE t \in Raised
      OBVIOUS
    <3>1. t \in DOMAIN tiles
      BY <1>1, <2>1 DEF World
    <3>2. tiles[t] = [status |-> "raised"]
      BY <1>1, <2>1, <3>1 DEF PoolInv, Result
    <3> QED
      BY <3>1, <3>2 DEF Raised
  <2>4. PoolInv'
    BY <1>1, <1>3, <2>1, <2>3 DEF PoolInv
  <2> QED
    BY <1>2, <2>1, <2>2, <2>4 DEF CardInv, Steps
<1>10. CASE Grade
  <2>1. pc = "grade" /\ pc' = "published" /\ UNCHANGED <<checked, tiles>>
    BY <1>10 DEF Grade
  <2>2. GateInv'
    BY <1>1, <1>4, <2>1 DEF GateInv
  <2>3. PoolInv'
    BY <1>1, <1>3, <1>10, <2>1, GradedCard DEF PoolInv
  <2> QED
    BY <1>2, <2>1, <2>2, <2>3 DEF CardInv, Steps
<1> QED
  BY <1>5, <1>6, <1>7, <1>8, <1>9, <1>10

\* The invariant of the build.
THEOREM CardInvariant == Spec => []CardInv
<1>1. Init => CardInv
  <2> SUFFICES ASSUME Init PROVE CardInv
    OBVIOUS
  <2>1. World
    BY DEF Init, World, GoodWeek, Outcomes
  <2>2. GateInv
    BY CardAssumption DEF Init, GateInv
  <2>3. DOMAIN tiles = {}
    BY DEF Init
  <2>4. PoolInv
    BY <2>3 DEF Init, PoolInv
  <2> QED
    BY <2>1, <2>2, <2>4 DEF CardInv, Init, Steps
<1>2. CardInv /\ [Next]_vars => CardInv'
  <2> SUFFICES ASSUME CardInv, [Next]_vars PROVE CardInv'
    OBVIOUS
  <2>1. CASE Week
    <3>1. /\ pc = "week" /\ UNCHANGED <<pc, checked, tiles, card>>
          /\ \E w : w \in Changed /\ world' = w
      BY <2>1 DEF Week
    <3>2. World'
      BY <3>1, ChangedWorld DEF CardInv
    <3> QED
      BY <3>1, <3>2 DEF CardInv, GateInv, PoolInv
  <2>2. CASE Start
    <3>1. pc = "week" /\ pc' = "registry" /\ UNCHANGED <<world, checked, tiles, card>>
      BY <2>2 DEF Start
    <3> QED
      BY <3>1 DEF CardInv, World, GateInv, PoolInv, Steps
  <2>3. CASE \/ LoadSpecs \/ CheckInput \/ ReadInputs \/ ScoreSlot \/ Submit
             \/ \E t \in Tiles : BuildOne(t)
             \/ Resolve \/ Grade
    <3>1. UNCHANGED world /\ pc # "week"
      BY <2>3 DEF LoadSpecs, CheckInput, ReadInputs, ScoreSlot, Submit, BuildOne, Resolve, Grade
    <3> QED
      BY <2>3, <3>1, StepKeepsInv
  <2>4. CASE UNCHANGED vars
    <3>1. World /\ GateInv /\ PoolInv /\ pc \in Steps
      BY DEF CardInv
    <3>2. UNCHANGED <<world, pc, checked, tiles, card>>
      BY <2>4 DEF vars
    <3>3. \A t : Result(t)' = Result(t)
      BY <3>2 DEF Result, Emitted, Rendered
    <3>4. \A a, status : Judged(a, status)' = Judged(a, status)
      BY <3>2 DEF Judged, InWindow
    <3>5. Shape' = Shape
      BY <3>2 DEF Shape
    <3> QED
      BY <3>1, <3>2, <3>3, <3>4, <3>5 DEF CardInv, World, GateInv, PoolInv
  <2> QED
    BY <2>1, <2>2, <2>3, <2>4 DEF Next
<1> QED
  BY <1>1, <1>2, PTL DEF Spec

-----------------------------------------------------------------------------
(* The theorems. *)

\* Every card rests on inputs the preflight judged, for any list of gated
\* inputs and any cadences (freshness_preflight.assert_input_freshness).
THEOREM CardsRestOnJudgedInputs == Spec => []CardRestsOnJudgedInputs
<1>1. CardInv => CardRestsOnJudgedInputs
  <2> SUFFICES ASSUME CardInv, Published PROVE
        /\ world.registry = "ok" /\ world.reads = "ok"
        /\ \A k \in DOMAIN GateOrder : Judged(GateOrder[k], checked[k])
    BY DEF CardRestsOnJudgedInputs, Judged
  <2>1. DOMAIN GateOrder = 1..Len(checked)
    BY CardAssumption DEF CardInv, GateInv, Published
  <2> QED
    BY <2>1 DEF CardInv, GateInv, Published
<1> QED
  BY <1>1, CardInvariant, PTL

\* What the tiles of a GREEN card say (module_agg.overall_status).
LEMMA OverallGreen ==
  ASSUME NEW s, "portfolio_outcome" \in DOMAIN s, Cascade \subseteq DOMAIN s,
         OverallStatus(s) = "GREEN"
  PROVE  /\ s["portfolio_outcome"] \notin {"RED", "WATCH"} /\ ~Dark(s["portfolio_outcome"])
         /\ \A t \in Cascade : s[t] # "RED" /\ ~Dark(s[t])
BY DEF OverallStatus

\* A GREEN card is earned: no builder raised, every critical component of the
\* outcome tile was measured and good, and every cascading tile has a builder,
\* a measured component and no critical RED (aggregate.py, module_agg.py).
THEOREM GreenCardsAreEarned == Spec => []GreenIsEarned
<1>1. CardInv => GreenIsEarned
  <2> SUFFICES ASSUME CardInv, Published, card.tiles_overall_status = "GREEN"
      PROVE  /\ world.raises \cap world.builders = {}
             /\ \A c \in Roster["portfolio_outcome"] \cap Critical : world.says[c] = "GREEN"
             /\ \A t \in Cascade : /\ t \in world.builders
                                   /\ \A c \in Roster[t] \cap Critical : world.says[c] # "RED"
                                   /\ \E c \in Roster[t] : world.says[c] \in {"GREEN", "WATCH", "RED"}
    BY DEF GreenIsEarned
  <2>1. World /\ PoolInv /\ Shape
    BY DEF CardInv, PoolInv, Published
  <2>2. /\ world.raises \cap world.builders = {} /\ DOMAIN tiles = Tiles
        /\ \A t \in Tiles : tiles[t] = BuildTile(Roster[t], Emitted(t))
    BY <2>1 DEF PoolInv, Published, Result, World
  <2>3. {"portfolio_outcome"} \cup Cascade \subseteq Tiles \ {"backtester"}
    BY CardAssumption
  <2> DEFINE records(t) == GradedAgainst(Roster[t], Emitted(t))
  <2>4. \A t \in {"portfolio_outcome"} \cup Cascade :
          card.tiles[t].status = ModuleStatus(records(t))
    <3>1. \A t : BuildTile(Roster[t], Emitted(t)).status = ModuleStatus(records(t))
      BY DEF BuildTile
    <3> HIDE DEF records
    <3> QED
      BY <2>1, <2>2, <2>3, <3>1 DEF Shape
  <2>5. /\ ModuleStatus(records("portfolio_outcome")) \notin {"RED", "WATCH"}
        /\ ~Dark(ModuleStatus(records("portfolio_outcome")))
        /\ \A t \in Cascade : /\ ModuleStatus(records(t)) # "RED"
                              /\ ~Dark(ModuleStatus(records(t)))
    <3> DEFINE s == [t \in Tiles |-> card.tiles[t].status]
    <3>1. OverallStatus(s) = "GREEN"
      BY <2>1 DEF Shape
    <3>2. "portfolio_outcome" \in DOMAIN s /\ Cascade \subseteq DOMAIN s
      BY <2>3
    <3>3. /\ s["portfolio_outcome"] \notin {"RED", "WATCH"} /\ ~Dark(s["portfolio_outcome"])
          /\ \A t \in Cascade : s[t] # "RED" /\ ~Dark(s[t])
      <4> HIDE DEF s
      <4> QED
        BY <3>1, <3>2, OverallGreen
    <3> HIDE DEF records
    <3> QED
      BY <2>3, <2>4, <3>3
  <2>6. \A t \in Tiles : IsFiniteSet(records(t))
    BY <2>1, BuiltIsCarried, CarriedFinite, FS_Subset DEF BuildTile
  <2>7. ASSUME NEW t \in Tiles, NEW c \in Roster[t]
        PROVE  \/ /\ t \in world.builders /\ Rendered(c) \in records(t)
                  /\ world.says[c] # "dropped"
               \/ Unreported(c) \in records(t)
    <3>1. CASE Rendered(c) \in Emitted(t)
      <4>1. PICK d \in Roster[t] : Rendered(c) = Rendered(d) /\ world.says[d] # "dropped"
                                   /\ t \in world.builders
        BY <3>1 DEF Emitted
      <4>2. c = d
        BY <2>1, <4>1, RosterIsDeclared, RenderedSays DEF World
      <4> QED
        BY <3>1, <4>1, <4>2 DEF GradedAgainst
    <3>2. CASE Rendered(c) \notin Emitted(t)
      <4>1. \A r \in Emitted(t) : r.name # c
        BY <2>1, <3>2, RosterIsDeclared, RenderedSays DEF World, Emitted
      <4> QED
        BY <4>1 DEF GradedAgainst
    <3> QED
      BY <3>1, <3>2
  <2>8. \A c : /\ Unreported(c).criticality = "critical" /\ IsNA(Unreported(c))
    BY DEF Unreported, Record, IsNA, Dark
  <2>9. ASSUME NEW c \in DeclaredComponents
        PROVE  /\ world.says[c] \in Outcomes
               /\ Rendered(c).criticality = CritOf(c)
               /\ ~IsNA(Rendered(c)) => Rendered(c).status = world.says[c]
                    /\ world.says[c] \in {"GREEN", "WATCH", "RED", "dropped"}
               /\ world.says[c] = "RED" => Rendered(c).status = "RED"
    <3>1. world.says[c] \in Outcomes
      BY <2>1 DEF World
    <3> QED
      BY <3>1, RenderedSays DEF Rendered, Stated, Record
  <2>10. ASSUME NEW c \in Roster["portfolio_outcome"] \cap Critical
         PROVE  world.says[c] = "GREEN"
    <3> DEFINE lead == "portfolio_outcome"
    <3>1. \A r \in records(lead) : r.criticality = "critical" =>
            r.status # "WATCH" /\ ~IsNA(r) /\ r.status # "RED"
      BY <2>3, <2>5, <2>6, StatusExcludes
    <3>2. Rendered(c) \in records(lead) /\ world.says[c] # "dropped"
      BY <2>3, <2>7, <2>8, <2>10, <3>1
    <3>3. c \in DeclaredComponents /\ CritOf(c) = "critical"
      BY <2>3, <2>10, RosterIsDeclared DEF CritOf
    <3> QED
      BY <2>9, <3>1, <3>2, <3>3
  <2>11. ASSUME NEW t \in Cascade
         PROVE  /\ t \in world.builders
                /\ \A c \in Roster[t] \cap Critical : world.says[c] # "RED"
                /\ \E c \in Roster[t] : world.says[c] \in {"GREEN", "WATCH", "RED"}
    <3>1. /\ \E r \in records(t) : ~IsNA(r)
          /\ \A r \in records(t) : r.criticality = "critical" => r.status # "RED"
      BY <2>3, <2>5, <2>6, StatusExcludes
    <3>2. PICK c \in Roster[t] : Rendered(c) \in Emitted(t) /\ ~IsNA(Rendered(c))
                                 /\ world.says[c] # "dropped"
      BY <2>8, <3>1 DEF GradedAgainst, Emitted
    <3>3. t \in world.builders
      BY <3>2 DEF Emitted
    <3>4. ASSUME NEW d \in Roster[t] \cap Critical PROVE world.says[d] # "RED"
      <4>1. d \in DeclaredComponents /\ CritOf(d) = "critical"
        BY <2>3, RosterIsDeclared DEF CritOf
      <4>2. CASE world.says[d] = "RED"
        <5>1. Rendered(d) \in records(t)
          BY <3>3, <4>2 DEF GradedAgainst, Emitted
        <5> QED
          BY <2>9, <3>1, <4>1, <4>2, <5>1
      <4> QED
        BY <4>2
    <3>5. c \in DeclaredComponents
      BY <2>3, RosterIsDeclared
    <3> QED
      BY <2>9, <3>2, <3>3, <3>4, <3>5
  <2> QED
    BY <2>2, <2>10, <2>11
<1> QED
  BY <1>1, CardInvariant, PTL

\* Less over at least as much is no higher.
LEMMA FractionFalls ==
  ASSUME NEW a \in Nat, NEW b \in Nat, NEW c \in Nat, NEW d \in Nat, a <= b, c <= d
  PROVE  a * c <= b * d
<1>1. a * c <= b * c
  BY SMT
<1>2. b * c <= b * d
  BY SMT
<1> QED
  BY <1>1, <1>2

\* Losing records never raises the coverage a card publishes: what is lost
\* leaves the numerator and not the denominator
\* (coverage.card_component_census).
THEOREM CoverageFallsWithRecords == Spec => []CoverageNeverRisesByLosing
<1>1. ASSUME Shape, NEW lost
      PROVE  NoHigher(Census(Without(card.tiles, lost)), Census(card.tiles))
  <2> DEFINE ts == card.tiles
             less == Without(ts, lost)
             records(x) == {r \in RecordsOn(x) : r.name # Self}
             out(x) == {r.name : r \in {y \in records(x) : y.note = "declared"}}
             graded(x) == {r \in records(x) : ~IsNA(r) /\ r.name \notin out(x)}
             total(x) == (DeclaredComponents \cup {r.name : r \in records(x)}) \ (out(x) \cup {Self})
  <2>1. DOMAIN ts = Tiles /\ DOMAIN less = Tiles
    BY <1>1 DEF Shape, Without
  <2>2. \A t \in Tiles : less[t].components = {r \in ts[t].components : r.name \notin lost}
    BY <1>1 DEF Shape, Without
  <2>3. RecordsOn(less) = {r \in RecordsOn(ts) : r.name \notin lost}
    <3> HIDE DEF ts, less
    <3> QED
      BY <2>1, <2>2 DEF RecordsOn
  <2>4. RecordsOn(ts) \in SUBSET (UNION {ts[t].components : t \in Tiles})
    BY <2>1 DEF RecordsOn
  <2>5. IsFiniteSet(RecordsOn(ts)) /\ \A r \in RecordsOn(ts) : r.name \in DeclaredComponents
    BY <1>1, <2>4, FS_Subset DEF Shape
  <2> HIDE DEF ts, less
  <2>6. records(less) = {r \in records(ts) : r.name \notin lost}
    BY <2>3
  <2>7. out(less) = {n \in out(ts) : n \notin lost}
    BY <2>6
  <2>8. graded(less) \subseteq graded(ts) /\ graded(ts) \subseteq RecordsOn(ts)
    BY <2>6, <2>7
  <2>9. total(ts) \subseteq total(less) /\ total(less) \subseteq DeclaredComponents
    BY <2>5, <2>6, <2>7
  <2>10. /\ Cardinality(graded(less)) \in Nat /\ Cardinality(graded(ts)) \in Nat
         /\ Cardinality(graded(less)) <= Cardinality(graded(ts))
    <3> HIDE DEF graded
    <3> QED
      BY <2>5, <2>8, FS_Subset, FS_CardinalityType
  <2>11. /\ Cardinality(total(less)) \in Nat /\ Cardinality(total(ts)) \in Nat
         /\ Cardinality(total(ts)) <= Cardinality(total(less))
    <3> HIDE DEF total
    <3> QED
      BY <2>9, CardAssumption, FS_Subset, FS_CardinalityType
  <2>12. \A x : Census(x).graded = Cardinality(graded(x)) /\ Census(x).total = Cardinality(total(x))
    BY DEF Census
  <2> HIDE DEF graded, total
  <2> QED
    BY <2>10, <2>11, <2>12, FractionFalls DEF NoHigher, ts, less
<1>2. CardInv => CoverageNeverRisesByLosing
  BY <1>1 DEF CardInv, PoolInv, Published, CoverageNeverRisesByLosing
<1> QED
  BY <1>2, CardInvariant, PTL

\* Replacing the coverage record leaves the tile with that record and no other
\* of its name, with the records the census counts, and with the status of
\* its records; a record that does not vote stands for an unreported stub.
LEMMA ReplacedSpeaks ==
  ASSUME World, NEW tile, NEW record \in SelfRecords, NEW voting \in {{}, {record}},
         tile = BuildTile(Roster["backtester"], Emitted("backtester")),
         voting = {} => IsNA(record),
         NEW mended, mended = WithRecord(tile, record, voting)
  PROVE  /\ {r \in mended.components : r.name = Self} = {record}
         /\ {r \in mended.components : r.name # Self /\ r.status # "N/A-UNREPORTED"}
              = {r \in tile.components : r.name # Self /\ r.status # "N/A-UNREPORTED"}
         /\ \/ mended.status = ModuleStatus(mended.components)
            \/ Dark(mended.status) /\ Dark(ModuleStatus(mended.components))
<1> DEFINE roster == Roster["backtester"]
           others == {r \in tile.components : r.name # Self /\ r.status # "N/A-UNREPORTED"}
           stubs == {Unreported(n) : n \in roster \ ({r.name : r \in others} \cup {Self})}
           rebuilt == BuildTile(roster, others \cup voting)
<1>1. record.name = Self /\ record.criticality = "critical" /\ record.status # "N/A-UNREPORTED"
  <2>1. PICK status \in {"N/A-MISSING-INPUT", "GREEN", "WATCH", "RED"} :
          record = Record(Self, "critical", status, "")
    BY DEF SelfRecords, Missing, Stated
  <2> QED
    BY <2>1 DEF Record
<1>2. \A n : /\ Unreported(n).name = n /\ Unreported(n).status = "N/A-UNREPORTED"
             /\ Unreported(n).criticality = "critical" /\ IsNA(Unreported(n))
  BY DEF Unreported, Record, IsNA, Dark
<1>3. "backtester" \in Tiles /\ Self \in roster
  BY CardAssumption
<1>4. /\ rebuilt.components = GradedAgainst(roster, others \cup voting)
      /\ rebuilt.status = ModuleStatus(rebuilt.components)
  BY DEF BuildTile
<1>5. /\ mended.components = {r \in rebuilt.components : r.name # Self} \cup {record}
      /\ mended.status = rebuilt.status
  <2>1. mended = [tile EXCEPT !.components = {r \in rebuilt.components : r.name # Self} \cup {record},
                              !.status = rebuilt.status, !.n_components = rebuilt.n_components]
    BY DEF WithRecord
  <2>2. {"components", "status"} \subseteq DOMAIN tile
    BY DEF BuildTile
  <2> HIDE DEF rebuilt
  <2> QED
    BY <2>1, <2>2
<1>6. IsFiniteSet(others \cup stubs)
  <2>1. tile.components \subseteq Carried
    BY <1>3, BuiltIsCarried
  <2>2. stubs \subseteq Carried
    BY <1>3, RosterIsDeclared DEF Carried
  <2>3. others \cup stubs \in SUBSET Carried
    BY <2>1, <2>2
  <2> HIDE DEF others, stubs
  <2> QED
    BY <2>3, CarriedFinite, FS_Subset
<1> HIDE DEF rebuilt
<1>7. mended.components = others \cup stubs \cup {record}
  <2> DEFINE named == {r.name : r \in others \cup voting}
  <2>1. {r \in rebuilt.components : r.name # Self} = others \cup stubs
    <3>1. \A n : n # Self => (n \in named <=> n \in {r.name : r \in others})
      BY <1>1
    <3>2. rebuilt.components = others \cup voting \cup {Unreported(n) : n \in roster \ named}
      BY <1>4 DEF GradedAgainst
    <3>3. \A r \in voting : r.name = Self
      BY <1>1
    <3>4. \A r \in others : r.name # Self
      OBVIOUS
    <3>5. {r \in {Unreported(n) : n \in roster \ named} : r.name # Self} = stubs
      <4> HIDE DEF named, others
      <4> QED
        BY <1>2, <3>1
    <3> HIDE DEF stubs, others, named
    <3> QED
      BY <3>2, <3>3, <3>4, <3>5
  <2> QED
    BY <1>5, <2>1
<1>8. /\ \A r \in stubs : r.name # Self /\ r.status = "N/A-UNREPORTED"
      /\ \A r \in others : r.name # Self /\ r.status # "N/A-UNREPORTED"
  BY <1>2
<1>9. CASE voting = {record}
  <2>1. rebuilt.components = others \cup stubs \cup {record}
    <3>1. {r.name : r \in others \cup voting} = {r.name : r \in others} \cup {Self}
      BY <1>1, <1>9
    <3> HIDE DEF others
    <3> QED
      BY <1>4, <1>9, <3>1 DEF GradedAgainst
  <2> HIDE DEF others, stubs
  <2> QED
    BY <1>1, <1>4, <1>5, <1>7, <1>8, <2>1 DEF others
<1>10. CASE voting = {}
  <2>1. rebuilt.components = (others \cup stubs) \cup {Unreported(Self)}
    <3>1. Self \notin {r.name : r \in others}
      OBVIOUS
    <3> HIDE DEF others
    <3> QED
      BY <1>3, <1>4, <1>10, <3>1 DEF GradedAgainst
  <2>2. \/ rebuilt.status = ModuleStatus(mended.components)
        \/ Dark(rebuilt.status) /\ Dark(ModuleStatus(mended.components))
    <3> HIDE DEF others, stubs
    <3> QED
      BY <1>1, <1>2, <1>4, <1>6, <1>7, <1>10, <2>1, UnreadAlike
  <2> HIDE DEF others, stubs
  <2> QED
    BY <1>1, <1>5, <1>7, <1>8, <2>2 DEF others
<1> QED
  BY <1>9, <1>10

\* The coverage record speaks of the card it is on: replacing it changes
\* nothing the census counts, and the tile's status takes it into account; a
\* census that raised leaves no number and says so
\* (coverage.replace_evaluator_coverage).
THEOREM CoverageSpeaksOfItsCard == Spec => []CoverageIsOfThisCard
<1>1. ASSUME CardInv, Grade
      PROVE  CoverageIsOfThisCard'
  <2> DEFINE final == ReplaceEvaluatorCoverage(tiles)
             mine == tiles["backtester"]
             record == IF world.census = "ok" THEN CoverageRecord(Census(tiles))
                       ELSE Missing(Self, "critical")
             kept(ts) == {r \in RecordsOn(ts) : r.name # Self}
  <2>1. World /\ PoolInv /\ pc = "grade" /\ card' = CardOf(Inputs, tiles) /\ world' = world
    BY <1>1 DEF CardInv, Grade
  <2>2. /\ DOMAIN tiles = Tiles /\ "backtester" \in Tiles
        /\ mine = BuildTile(Roster["backtester"], Emitted("backtester"))
    BY <2>1, CardAssumption DEF PoolInv, Result, World
  <2>3. PICK voting \in {{}, {record}} :
          /\ voting = {} => IsNA(record)
          /\ final = [tiles EXCEPT !["backtester"] = WithRecord(mine, record, voting)]
    <3>1. CASE world.census = "ok"
      BY <3>1 DEF ReplaceEvaluatorCoverage, Counted
    <3>2. CASE world.census # "ok"
      <4>1. IsNA(Missing(Self, "critical"))
        BY DEF IsNA, Dark, NotGraded, Missing, Record
      <4>2. final = [tiles EXCEPT !["backtester"] = MarkUnmeasured(mine)]
        BY <3>2 DEF ReplaceEvaluatorCoverage
      <4> QED
        BY <3>2, <4>1, <4>2 DEF MarkUnmeasured
    <3> QED
      BY <3>1, <3>2
  <2>4. PICK mended : mended = WithRecord(mine, record, voting)
    OBVIOUS
  <2>5. record \in SelfRecords
    BY DEF CoverageRecord, SelfRecords
  <2>6. /\ {r \in mended.components : r.name = Self} = {record}
        /\ {r \in mended.components : r.name # Self /\ r.status # "N/A-UNREPORTED"}
             = {r \in mine.components : r.name # Self /\ r.status # "N/A-UNREPORTED"}
        /\ \/ mended.status = ModuleStatus(mended.components)
           \/ Dark(mended.status) /\ Dark(ModuleStatus(mended.components))
    <3> HIDE DEF record, mine, final
    <3> QED
      BY <2>1, <2>2, <2>3, <2>4, <2>5, ReplacedSpeaks
  <2>7. /\ DOMAIN final = Tiles /\ final["backtester"] = mended
        /\ \A t \in Tiles \ {"backtester"} : final[t] = tiles[t]
    BY <2>2, <2>3, <2>4
  <2> HIDE DEF final, record
  <2>8. kept(final) = kept(tiles)
    <3>1. ASSUME NEW ts, DOMAIN ts = Tiles
          PROVE  kept(ts) =
                   UNION {{r \in ts[t].components : r.name # Self /\ r.status # "N/A-UNREPORTED"} :
                            t \in Tiles}
      BY <3>1 DEF RecordsOn
    <3>2. \A t \in Tiles :
            {r \in final[t].components : r.name # Self /\ r.status # "N/A-UNREPORTED"}
              = {r \in tiles[t].components : r.name # Self /\ r.status # "N/A-UNREPORTED"}
      BY <2>6, <2>7
    <3> QED
      BY <2>2, <2>7, <3>1, <3>2
  <2>9. Census(final) = Census(tiles)
    BY <2>8 DEF Census
  <2>10. card'.tiles = final /\ (world.census # "ok" => card'.degraded_component_census)
    BY <2>1 DEF CardOf, final
  <2>11. PICK c : c = card'
    OBVIOUS
  <2>12. IF world.census = "ok" THEN record = CoverageRecord(Census(c.tiles))
         ELSE IsNA(record) /\ c.degraded_component_census
    BY <2>9, <2>10, <2>11 DEF record, IsNA, Dark, NotGraded, Missing, Record
  <2>13. /\ c.tiles["backtester"].components = mended.components
         /\ c.tiles["backtester"].status = mended.status
    BY <2>7, <2>10, <2>11
  <2>14. (CHOOSE r \in c.tiles["backtester"].components : r.name = Self) = record
    BY <2>6, <2>13
  <2> QED
    BY <2>1, <2>6, <2>11, <2>12, <2>13, <2>14 DEF CoverageIsOfThisCard
<1>2. CoverageIsOfThisCard /\ CardInv /\ [Next]_vars => CoverageIsOfThisCard'
  <2> SUFFICES ASSUME CoverageIsOfThisCard, CardInv, [Next]_vars PROVE CoverageIsOfThisCard'
    OBVIOUS
  <2>1. CASE Grade
    BY <1>1, <2>1
  <2>2. CASE Next /\ ~Grade
    <3>1. pc' # "published"
      BY <2>2 DEF Next, Week, Start, LoadSpecs, CheckInput, ReadInputs, ScoreSlot, Submit,
                  BuildOne, Resolve
    <3> QED
      BY <3>1 DEF CoverageIsOfThisCard, Published
  <2>3. CASE UNCHANGED vars
    BY <2>3 DEF vars, CoverageIsOfThisCard, Published, CoverageRecord, Census, RecordsOn
  <2> QED
    BY <2>1, <2>2, <2>3
<1>3. Init => CoverageIsOfThisCard
  BY DEF Init, CoverageIsOfThisCard, Published
<1> QED
  BY <1>2, <1>3, CardInvariant, PTL DEF Spec

\* The tile that votes has records of three statuses, each worth some points.
LEMMA OutcomeVotes ==
  ASSUME World, NEW t \in Tiles
  PROVE  Sound(OutcomeVoter(BuildTile(Roster[t], Emitted(t))))
<1> DEFINE records == BuildTile(Roster[t], Emitted(t)).components
           scored == {r \in records : ~IsNA(r) /\ r.criticality # "diagnostic"}
           points == [r \in scored |-> ScoreOf(r)]
<1>1. records = GradedAgainst(Roster[t], Emitted(t))
  BY DEF BuildTile
<1>2. \A r \in scored : r.status \in {"GREEN", "WATCH", "RED"}
  <2> SUFFICES ASSUME NEW r \in scored PROVE r.status \in {"GREEN", "WATCH", "RED"}
    OBVIOUS
  <2>1. \A c : IsNA(Unreported(c))
    BY DEF Unreported, Record, IsNA, Dark
  <2>2. r \in Emitted(t)
    <3>1. ~IsNA(r) /\ r \in GradedAgainst(Roster[t], Emitted(t))
      BY <1>1
    <3> QED
      BY <2>1, <3>1 DEF GradedAgainst
  <2>3. PICK c \in Roster[t] : r = Rendered(c) /\ world.says[c] # "dropped"
    BY <2>2 DEF Emitted
  <2>4. world.says[c] \in Outcomes
    BY <2>3, RosterIsDeclared DEF World
  <2>5. ~IsNA(Rendered(c))
    BY <2>3
  <2> QED
    BY <2>3, <2>4, <2>5, RenderedSays
<1>3. \A r \in scored : points[r] \in Nat
  BY <1>2, CardAssumption DEF ScoreOf
<1>4. IsFiniteSet(scored)
  <2>1. scored \in SUBSET Carried
    BY BuiltIsCarried
  <2> HIDE DEF scored
  <2> QED
    BY <2>1, CarriedFinite, FS_Subset
<1>5. SumFunction(points) \in Nat
  <2>1. DOMAIN points = scored
    OBVIOUS
  <2> HIDE DEF points, scored
  <2> QED
    BY <1>3, <1>4, <2>1, SumIn DEF SumFunction
<1>6. Cardinality(scored) \in Nat
  BY <1>4, FS_CardinalityType
<1>7. PICK tile : tile = BuildTile(Roster[t], Emitted(t))
  OBVIOUS
<1>8. OutcomeVoter(tile).graded \in BOOLEAN
  BY DEF OutcomeVoter, NotGradedBecause
<1>9. CASE scored = {}
  <2>1. {r \in tile.components : ~IsNA(r) /\ r.criticality # "diagnostic"} = {}
    BY <1>7, <1>9
  <2>2. \E why : OutcomeVoter(tile) = NotGradedBecause(why)
    BY <2>1 DEF OutcomeVoter
  <2> QED
    BY <1>7, <2>2 DEF Sound, NotGradedBecause
<1>10. CASE scored # {}
  <2>1. scored = {r \in tile.components : ~IsNA(r) /\ r.criticality # "diagnostic"}
    BY <1>7
  <2>2. OutcomeVoter(tile) = [graded |-> TRUE, skip |-> "none", den |-> Cardinality(scored),
                              num |-> SumFunction(points)]
    BY <1>10, <2>1 DEF OutcomeVoter
  <2> HIDE DEF scored, points
  <2>3. PICK n \in Nat, d \in Nat : n = SumFunction(points) /\ d = Cardinality(scored)
    BY <1>5, <1>6
  <2> QED
    BY <1>7, <2>2, <2>3 DEF Sound
<1> QED
  BY <1>9, <1>10

\* Every component has a level, and the composite on a card is the scorecard of
\* this week's inputs and of the outcome tile on that card.
ScoreInv ==
  /\ Leveled(world.level) /\ world.level \in [Leaves -> Nat]
  /\ Published =>
       LET outcome == card.tiles["portfolio_outcome"]
       IN  /\ Sound(OutcomeVoter(outcome))
           /\ card.score = ComputeScorecard(Inputs, world.level, OutcomeVoter(outcome),
                                            outcome.n_graded = outcome.n_components)

LEMMA ScoreInvStep == CardInv /\ ScoreInv /\ [Next]_vars => ScoreInv'
<1> SUFFICES ASSUME CardInv, ScoreInv, [Next]_vars PROVE ScoreInv'
  OBVIOUS
<1>1. CASE Week
  <2>1. PICK w \in Changed : world' = w
    BY <1>1 DEF Week
  <2>2. w.level \in [Leaves -> Nat]
    <3>1. "level" \in DOMAIN world /\ world.level \in [Leaves -> Nat]
      BY DEF CardInv, World, ScoreInv
    <3>2. CASE \E n \in Leaves : w = [world EXCEPT !.level[n] = Low]
      <4>1. PICK n \in Leaves : w = [world EXCEPT !.level = [world.level EXCEPT ![n] = Low]]
        BY <3>2
      <4>2. [world.level EXCEPT ![n] = Low] \in [Leaves -> Nat]
        BY <3>1, CardAssumption
      <4> QED
        BY <3>1, <4>1, <4>2
    <3>3. CASE w \in RunChanges
      BY <3>1, <3>3 DEF RunChanges
    <3>4. CASE w \in TileChanges
      BY <3>1, <3>4 DEF TileChanges
    <3>5. CASE \E a \in Gated : \E c \in GateCells(a) : w = [world EXCEPT !.gate[a] = c]
      BY <3>1, <3>5
    <3>6. CASE \E a \in Landed : \E k \in ArtifactKinds(a) : w = [world EXCEPT !.art[a] = k]
      BY <3>1, <3>6
    <3>7. w \in InputChanges => \/ \E n \in Leaves : w = [world EXCEPT !.level[n] = Low]
                                \/ \E a \in Gated : \E c \in GateCells(a) :
                                     w = [world EXCEPT !.gate[a] = c]
                                \/ \E a \in Landed : \E k \in ArtifactKinds(a) :
                                     w = [world EXCEPT !.art[a] = k]
      BY DEF InputChanges
    <3> QED
      BY <2>1, <3>2, <3>3, <3>4, <3>5, <3>6, <3>7 DEF Changed
  <2>3. pc' = "week"
    BY <1>1 DEF Week
  <2> QED
    BY <2>1, <2>2, <2>3 DEF ScoreInv, Published, Leveled
<1>2. CASE Grade
  <2>1. World /\ PoolInv /\ pc = "grade" /\ card' = CardOf(Inputs, tiles) /\ world' = world
    BY <1>2 DEF CardInv, Grade
  <2>2. "portfolio_outcome" \in Tiles \ {"backtester"}
    BY CardAssumption
  <2>3. tiles["portfolio_outcome"] = BuildTile(Roster["portfolio_outcome"], Emitted("portfolio_outcome"))
    BY <2>1, <2>2 DEF PoolInv, Result
  <2>4. PICK outcome : outcome = tiles["portfolio_outcome"]
    OBVIOUS
  <2>5. Sound(OutcomeVoter(outcome))
    BY <2>1, <2>2, <2>3, <2>4, OutcomeVotes
  <2>6. CardOf(Inputs, tiles).score = ComputeScorecard(Inputs, world.level, OutcomeVoter(outcome),
                                                       outcome.n_graded = outcome.n_components)
    BY <2>4 DEF CardOf
  <2>7. PICK c : c = card'
    OBVIOUS
  <2>8. c.tiles["portfolio_outcome"] = outcome
    <3>1. Shape'
      BY <1>2, GradedCard
    <3>2. card'.tiles["portfolio_outcome"] = tiles'["portfolio_outcome"]
      BY <2>2, <3>1 DEF Shape
    <3> QED
      BY <1>2, <2>4, <2>7, <3>2 DEF Grade
  <2>9. PICK in : in = Inputs /\ in = Inputs'
    BY <2>1 DEF Inputs
  <2>10. c.score = ComputeScorecard(in, world.level, OutcomeVoter(outcome),
                                    outcome.n_graded = outcome.n_components)
    BY <2>1, <2>6, <2>7, <2>9
  <2> QED
    BY <2>1, <2>5, <2>7, <2>8, <2>9, <2>10 DEF ScoreInv
<1>3. CASE UNCHANGED vars
  <2>1. Inputs' = Inputs
    BY <1>3 DEF vars, Inputs
  <2> QED
    BY <1>3, <2>1 DEF vars, ScoreInv, Published
<1>4. CASE Next /\ ~Week /\ ~Grade
  <2>1. world' = world /\ pc' # "published"
    BY <1>4 DEF Next, Start, LoadSpecs, CheckInput, ReadInputs, ScoreSlot, Submit, BuildOne, Resolve,
                CardInv, Steps
  <2> QED
    BY <2>1 DEF ScoreInv, Published
<1> QED
  BY <1>1, <1>2, <1>3, <1>4

\* A failure never raises a grade, and shows (ReportedFailureCounts): had a
\* producer whose status is read reported one, neither its module nor the
\* headline would be higher (scorecard.RENORMALIZATION_RULE).
THEOREM FailuresCount == Spec => []ReportedFailureCounts
<1>1. Init => ScoreInv
  <2> SUFFICES ASSUME Init PROVE ScoreInv
    OBVIOUS
  <2>1. world.level = [n \in Leaves |-> High]
    BY DEF Init, GoodWeek
  <2>2. world.level \in [Leaves -> Nat]
    BY <2>1, CardAssumption
  <2> QED
    BY <2>2 DEF Init, ScoreInv, Published, Leveled
<1>2. CardInv /\ ScoreInv => ReportedFailureCounts
  <2> SUFFICES ASSUME ScoreInv, Published, NEW a \in StatusIsRead, Inputs[a] \in {"bare", "full"}
               PROVE  /\ NoBetter(Failing(a), card.score)
                      /\ Failing(a).coverage.failed # {}
                      /\ Failing(a).coverage.qualifier = "PARTIAL-FAILURE-SCORED-ZERO"
    BY DEF ReportedFailureCounts
  <2>1. PICK outcome : outcome = card.tiles["portfolio_outcome"]
    OBVIOUS
  <2>2. PICK voter, whole : /\ voter = OutcomeVoter(outcome)
                            /\ whole = (outcome.n_graded = outcome.n_components)
    OBVIOUS
  <2>3. PICK in, bad : in = Inputs /\ bad = [Inputs EXCEPT ![a] = "failed"]
    OBVIOUS
  <2>4. /\ bad[a] = "failed" /\ \A b \in ScoreArtifacts \ {a} : bad[b] = in[b]
    BY <2>3 DEF Inputs, StatusIsRead, ScoreArtifacts
  <2>5. /\ Sound(voter) /\ Leveled(world.level)
        /\ card.score = ComputeScorecard(in, world.level, voter, whole)
        /\ Failing(a) = ComputeScorecard(bad, world.level, voter, whole)
    BY <2>1, <2>2, <2>3 DEF ScoreInv, Failing
  <2>6. PICK new, old : new = Failing(a) /\ old = card.score
    OBVIOUS
  <2>7. in[a] \in {"bare", "full"}
    BY <2>3
  <2>8. /\ AtMost(new.overall, old.overall)
        /\ \A m \in Modules : AtMost(new.modules[m], old.modules[m])
        /\ new.coverage.failed # {}
        /\ new.coverage.qualifier = "PARTIAL-FAILURE-SCORED-ZERO"
    BY <2>4, <2>5, <2>6, <2>7, FailureNeverHelps
  <2> QED
    BY <2>6, <2>8 DEF NoBetter
<1> QED
  BY <1>1, <1>2, ScoreInvStep, CardInvariant, PTL DEF Spec

=============================================================================
