------------------------------ MODULE SumTheorems ------------------------------
(***************************************************************************)
(* Sums over finite sets, for the proofs about averages and scores.  The   *)
(* models sum with MapThenSumSet, which takes the elements in the order in *)
(* which CHOOSE picks them; these lemmas say that no order matters.        *)
(***************************************************************************)
EXTENDS FiniteSetTheorems, TLAPS

\* The recursion of MapThenSumSet for the values of a function.
SumOver(w, S) ==
    LET t[U \in SUBSET S] ==
          IF U = {} THEN 0 ELSE LET x == CHOOSE x \in U : TRUE IN w[x] + t[U \ {x}]
    IN  t[S]

\* A sum of every subset of S, whichever element is taken last.
Additive(g, w, S) ==
    /\ g \in [SUBSET S -> Nat]
    /\ g[{}] = 0
    /\ \A U \in SUBSET S : \A x \in U : g[U] = g[U \ {x}] + w[x]

\* With one more element, the subsets that contain it sum up to its term more.
LEMMA AdditiveGrows ==
    ASSUME NEW S, NEW x \in S, NEW w, \A y \in S : w[y] \in Nat,
           NEW g, Additive(g, w, S \ {x})
    PROVE  \E h : Additive(h, w, S)
PROOF
  <1> DEFINE V == S \ {x}
             h == [U \in SUBSET S |-> IF x \in U THEN g[U \ {x}] + w[x] ELSE g[U]]
  <1>1. /\ g \in [SUBSET V -> Nat]
        /\ g[{}] = 0
        /\ \A U \in SUBSET V : \A y \in U : g[U] = g[U \ {y}] + w[y]
    BY DEF Additive
  <1>2. \A U \in SUBSET S : U \ {x} \in SUBSET V /\ (x \notin U => U \in SUBSET V)
    OBVIOUS
  <1>3. h \in [SUBSET S -> Nat]
    BY <1>1, <1>2
  <1>4. h[{}] = 0
    BY <1>1
  <1>5. ASSUME NEW U \in SUBSET S, NEW y \in U
        PROVE  h[U] = h[U \ {y}] + w[y]
    <2>1. CASE y = x
      BY <1>2, <2>1
    <2>2. CASE y # x /\ x \notin U
      <3>1. U \in SUBSET V /\ U \ {y} \in SUBSET S /\ x \notin U \ {y}
        BY <2>2
      <3> QED
        BY <1>1, <3>1, <2>2
    <2>3. CASE y # x /\ x \in U
      <3> DEFINE W == U \ {x}
      <3>1. W \in SUBSET V /\ y \in W /\ W \ {y} \in SUBSET V
        BY <2>3
      <3>2. g[W] = g[W \ {y}] + w[y]
        BY <1>1, <3>1
      <3>3. (U \ {y}) \ {x} = W \ {y} /\ x \in U \ {y} /\ U \ {y} \in SUBSET S
        BY <2>3
      <3>4. h[U \ {y}] = g[W \ {y}] + w[x] /\ h[U] = g[W] + w[x]
        BY <2>3, <3>3
      <3>5. g[W] \in Nat /\ g[W \ {y}] \in Nat
        BY <1>1, <3>1
      <3>6. w[x] \in Nat /\ w[y] \in Nat
        BY <1>1
      <3> HIDE DEF h, W
      <3> QED
        BY <3>2, <3>4, <3>5, <3>6
    <2> QED
      BY <2>1, <2>2, <2>3
  <1>6. Additive(h, w, S)
    <2> HIDE DEF h
    <2> QED
      BY <1>3, <1>4, <1>5 DEF Additive
  <1> HIDE DEF h
  <1> QED
    BY <1>6

\* Every finite set has such a function: a smallest subset without one would get it
\* from the subset with an element less.
LEMMA SumExists ==
    ASSUME NEW S, IsFiniteSet(S), NEW w, \A x \in S : w[x] \in Nat
    PROVE  \E g : Additive(g, w, S)
PROOF
  <1> DEFINE Has(U) == \E g : Additive(g, w, U)
             Bad == {U \in FiniteSubsetsOf(S) : ~Has(U)}
  <1>1. SUFFICES ASSUME Bad # {} PROVE FALSE
    <2>1. S \in FiniteSubsetsOf(S)
      BY DEF FiniteSubsetsOf
    <2> QED
      BY <2>1
  <1>2. PICK U \in Bad : \A V \in Bad : <<V, U>> \notin StrictSubsetOrdering(S)
    <2>1. Bad \subseteq FiniteSubsetsOf(S)
      OBVIOUS
    <2> HIDE DEF Bad
    <2> QED
      BY <1>1, <2>1, WFMin, FS_StrictSubsetOrderingWellFounded
  <1>3. U \subseteq S /\ IsFiniteSet(U) /\ ~Has(U)
    BY DEF FiniteSubsetsOf
  <1>4. U # {}
    <2>1. Additive([T \in {{}} |-> 0], w, {})
      <3>1. SUBSET {} = {{}}
        OBVIOUS
      <3> QED
        BY <3>1 DEF Additive
    <2> QED
      BY <1>3, <2>1
  <1>5. PICK x \in U : TRUE
    BY <1>4
  <1> DEFINE V == U \ {x}
  <1>6. V \in FiniteSubsetsOf(S)
    BY <1>3, FS_RemoveElement DEF FiniteSubsetsOf
  <1>7. <<V, U>> \in StrictSubsetOrdering(S)
    BY <1>3, <1>5, <1>6 DEF StrictSubsetOrdering, FiniteSubsetsOf
  <1>8. Has(V)
    BY <1>2, <1>6, <1>7
  <1>9. \A y \in U : w[y] \in Nat
    BY <1>3
  <1> QED
    BY <1>3, <1>5, <1>8, <1>9, AdditiveGrows

\* The recursion is the additive function: it takes one element after another.
LEMMA SumIsAdditive ==
    ASSUME NEW S, IsFiniteSet(S), NEW T \in SUBSET S, NEW w, NEW g, Additive(g, w, S),
           \A x \in S : w[x] \in Nat
    PROVE  SumOver(w, T) = g[T]
PROOF
  <1> DEFINE Step(f) == [U \in SUBSET T |->
                           IF U = {} THEN 0
                           ELSE w[CHOOSE x \in U : TRUE] + f[U \ {CHOOSE x \in U : TRUE}]]
             t == CHOOSE f : f = Step(f)
             r == [U \in SUBSET T |-> g[U]]
  <1>1. SumOver(w, T) = t[T]
    BY DEF SumOver
  <1>2. r = Step(r)
    <2>1. ASSUME NEW U \in SUBSET T, U # {}
          PROVE  r[U] = w[CHOOSE x \in U : TRUE] + r[U \ {CHOOSE x \in U : TRUE}]
      <3> DEFINE x == CHOOSE x \in U : TRUE
      <3>1. x \in U
        BY <2>1
      <3> HIDE DEF x
      <3>2. U \in SUBSET S /\ U \ {x} \in SUBSET T /\ U \ {x} \in SUBSET S
        OBVIOUS
      <3>3. r[U] = g[U] /\ r[U \ {x}] = g[U \ {x}]
        BY <3>2
      <3>4. g[U] = g[U \ {x}] + w[x]
        BY <3>1, <3>2 DEF Additive
      <3>5. g[U \ {x}] \in Nat /\ w[x] \in Nat
        BY <3>1, <3>2 DEF Additive
      <3>6. r[U] = w[x] + r[U \ {x}]
        BY <3>3, <3>4, <3>5
      <3> QED
        BY <3>6 DEF x
    <2>2. r[{}] = 0
      BY DEF Additive
    <2> QED
      BY <2>1, <2>2
  <1>3. t = Step(t)
    <2> HIDE DEF r, Step
    <2> QED
      BY <1>2
  <1> DEFINE Bad == {U \in FiniteSubsetsOf(S) : U \subseteq T /\ t[U] # g[U]}
  <1>4. SUFFICES ASSUME Bad # {} PROVE FALSE
    <2>1. T \in FiniteSubsetsOf(S)
      BY FS_Subset DEF FiniteSubsetsOf
    <2> QED
      BY <1>1, <2>1
  <1>5. PICK U \in Bad : \A V \in Bad : <<V, U>> \notin StrictSubsetOrdering(S)
    <2>1. Bad \subseteq FiniteSubsetsOf(S)
      OBVIOUS
    <2> HIDE DEF Bad
    <2> QED
      BY <1>4, <2>1, WFMin, FS_StrictSubsetOrderingWellFounded
  <1> HIDE DEF t
  <1>6. U \in SUBSET T /\ IsFiniteSet(U) /\ t[U] # g[U]
    BY DEF FiniteSubsetsOf
  <1>7. U # {}
    <2>1. t[{}] = 0
      BY <1>3
    <2> QED
      BY <1>6, <2>1 DEF Additive
  <1> DEFINE x == CHOOSE x \in U : TRUE
             V == U \ {x}
  <1>8. x \in U
    BY <1>7
  <1>9. t[U] = w[x] + t[V]
    BY <1>3, <1>6, <1>7
  <1> HIDE DEF x
  <1>10. V \in FiniteSubsetsOf(S)
    BY <1>6, FS_RemoveElement DEF FiniteSubsetsOf
  <1>11. <<V, U>> \in StrictSubsetOrdering(S)
    BY <1>6, <1>8, <1>10 DEF StrictSubsetOrdering, FiniteSubsetsOf
  <1>12. t[V] = g[V]
    BY <1>5, <1>6, <1>10, <1>11
  <1>13. g[U] = g[V] + w[x]
    BY <1>6, <1>8 DEF Additive
  <1>14. g[V] \in Nat /\ w[x] \in Nat
    BY <1>6, <1>8 DEF Additive
  <1> QED
    BY <1>6, <1>9, <1>12, <1>13, <1>14

\* A sum of natural numbers is one.
LEMMA SumType ==
    ASSUME NEW S, IsFiniteSet(S), NEW w, \A x \in S : w[x] \in Nat
    PROVE  SumOver(w, S) \in Nat
PROOF
  <1>1. PICK g : Additive(g, w, S)
    BY SumExists
  <1>2. S \in SUBSET S
    OBVIOUS
  <1>3. SumOver(w, S) = g[S]
    BY <1>1, <1>2, SumIsAdditive
  <1> QED
    BY <1>1, <1>2, <1>3 DEF Additive

\* One term more.
LEMMA SumAdds ==
    ASSUME NEW S, IsFiniteSet(S), NEW x, x \notin S, NEW w,
           \A y \in S \cup {x} : w[y] \in Nat
    PROVE  SumOver(w, S \cup {x}) = SumOver(w, S) + w[x]
PROOF
  <1> DEFINE T == S \cup {x}
  <1>1. IsFiniteSet(T)
    BY FS_AddElement
  <1>2. PICK g : Additive(g, w, T)
    BY <1>1, SumExists
  <1>3. SumOver(w, T) = g[T] /\ SumOver(w, S) = g[S]
    <2>1. T \in SUBSET T /\ S \in SUBSET T /\ \A y \in T : w[y] \in Nat
      OBVIOUS
    <2> HIDE DEF T
    <2>2. SumOver(w, T) = g[T]
      BY <1>1, <1>2, <2>1, SumIsAdditive
    <2>3. SumOver(w, S) = g[S]
      BY <1>1, <1>2, <2>1, SumIsAdditive
    <2> QED
      BY <2>2, <2>3
  <1>4. T \ {x} = S /\ x \in T
    OBVIOUS
  <1> QED
    BY <1>2, <1>3, <1>4 DEF Additive

\* A sum is of its terms, and nothing else.
LEMMA SumAgrees ==
    ASSUME NEW S, IsFiniteSet(S), NEW w, NEW u,
           \A y \in S : w[y] \in Nat /\ u[y] = w[y]
    PROVE  SumOver(u, S) = SumOver(w, S)
PROOF
  <1>1. PICK g : Additive(g, w, S)
    BY SumExists
  <1>2. Additive(g, u, S)
    BY <1>1 DEF Additive
  <1> QED
    BY <1>1, <1>2, SumIsAdditive

\* The sum of nothing.
LEMMA EmptySum == ASSUME NEW w PROVE SumOver(w, {}) = 0
PROOF
  <1>1. Additive([T \in {{}} |-> 0], w, {})
    <2>1. SUBSET {} = {{}}
      OBVIOUS
    <2> QED
      BY <2>1 DEF Additive
  <1>2. IsFiniteSet({}) /\ {} \in SUBSET {}
    BY FS_EmptySet
  <1>3. SumOver(w, {}) = [T \in {{}} |-> 0][{}]
    BY <1>1, <1>2, SumIsAdditive
  <1> QED
    BY <1>3

\* Larger terms have a larger sum.
LEMMA SumMonotone ==
    ASSUME NEW S, IsFiniteSet(S), NEW w, NEW u,
           \A x \in S : w[x] \in Nat /\ u[x] \in Nat /\ w[x] <= u[x]
    PROVE  SumOver(w, S) <= SumOver(u, S)
PROOF
  <1>1. PICK g : Additive(g, w, S)
    BY SumExists
  <1>2. PICK h : Additive(h, u, S)
    BY SumExists
  <1>3. S \in SUBSET S
    OBVIOUS
  <1>4. SumOver(w, S) = g[S]
    BY <1>1, <1>3, SumIsAdditive
  <1>5. SumOver(u, S) = h[S]
    BY <1>2, <1>3, SumIsAdditive
  <1> DEFINE Bad == {U \in FiniteSubsetsOf(S) : ~(g[U] <= h[U])}
  <1>6. SUFFICES ASSUME Bad # {} PROVE FALSE
    <2>1. S \in FiniteSubsetsOf(S)
      BY DEF FiniteSubsetsOf
    <2> QED
      BY <1>4, <1>5, <2>1
  <1>7. PICK U \in Bad : \A V \in Bad : <<V, U>> \notin StrictSubsetOrdering(S)
    <2>1. Bad \subseteq FiniteSubsetsOf(S)
      OBVIOUS
    <2> HIDE DEF Bad
    <2> QED
      BY <1>6, <2>1, WFMin, FS_StrictSubsetOrderingWellFounded
  <1>8. U \in SUBSET S /\ IsFiniteSet(U) /\ ~(g[U] <= h[U])
    BY DEF FiniteSubsetsOf
  <1>9. PICK x \in U : TRUE
    <2>1. g[{}] = 0 /\ h[{}] = 0
      BY <1>1, <1>2 DEF Additive
    <2>2. U # {}
      BY <1>8, <2>1
    <2> QED
      BY <2>2
  <1> DEFINE V == U \ {x}
  <1>10. V \in FiniteSubsetsOf(S)
    BY <1>8, FS_RemoveElement DEF FiniteSubsetsOf
  <1>11. <<V, U>> \in StrictSubsetOrdering(S)
    BY <1>8, <1>9, <1>10 DEF StrictSubsetOrdering, FiniteSubsetsOf
  <1>12. g[V] <= h[V]
    BY <1>7, <1>10, <1>11
  <1>13. g[U] = g[V] + w[x] /\ g[V] \in Nat
    BY <1>1, <1>8, <1>9 DEF Additive
  <1>14. h[U] = h[V] + u[x] /\ h[V] \in Nat
    BY <1>2, <1>8, <1>9 DEF Additive
  <1>15. w[x] \in Nat /\ u[x] \in Nat /\ w[x] <= u[x]
    BY <1>8, <1>9
  <1> QED
    BY <1>8, <1>12, <1>13, <1>14, <1>15
================================================================================
