------------------------------ MODULE Recursion ------------------------------
(***************************************************************************)
(* Induction and recursive functions for the proofs about the functions of *)
(* the models that are defined by recursion: what a call computes is given *)
(* as a set of arguments or as a rule, so that it can be cited by name.    *)
(***************************************************************************)
EXTENDS Integers, WellFoundedInduction, TLAPS

\* A set of natural numbers that is not empty has a smallest element.
LEMMA SmallestOf ==
  ASSUME NEW S \in SUBSET Nat, S # {}
  PROVE  \E m \in S : \A k \in S : m <= k
<1> DEFINE R == OpToRel(<, Nat)
<1>1. IsWellFoundedOn(R, Nat)
  BY NatLessThanWellFounded
<1> HIDE DEF R
<1>2. PICK m \in S : \A k \in S : <<k, m>> \notin R
  BY <1>1, WFMin
<1>3. ASSUME NEW k \in S PROVE m <= k
  <2>1. <<k, m>> \notin {p \in Nat \X Nat : p[1] < p[2]}
    BY <1>2 DEF R, OpToRel
  <2> QED BY <2>1
<1> QED BY <1>2, <1>3

\* Induction, the property given as the set of the numbers that have it.
LEMMA SetInduction ==
  ASSUME NEW S, 0 \in S, \A n \in Nat : n \in S => n + 1 \in S
  PROVE  Nat \subseteq S
<1> SUFFICES ASSUME Nat \ S # {} PROVE FALSE
  OBVIOUS
<1>1. PICK m \in Nat \ S : \A k \in Nat \ S : m <= k
  BY SmallestOf
<1>2. m # 0 /\ m - 1 \in Nat
  BY <1>1
<1>3. m - 1 \in S
  BY <1>1, <1>2
<1> QED BY <1>1, <1>2, <1>3

\* Induction on all that is smaller.
LEMMA StrongInduction ==
  ASSUME NEW S, \A n \in Nat : 0..(n - 1) \subseteq S => n \in S
  PROVE  Nat \subseteq S
<1> SUFFICES ASSUME Nat \ S # {} PROVE FALSE
  OBVIOUS
<1>1. PICK m \in Nat \ S : \A k \in Nat \ S : m <= k
  BY SmallestOf
<1>2. 0..(m - 1) \subseteq S
  BY <1>1
<1> QED BY <1>1, <1>2

-----------------------------------------------------------------------------
(* Functions defined by recursion                                           *)

\* The values of f before n.
Before(n, f) == [k \in 0..(n - 1) |-> f[k]]

\* Functions that agree before n have the same beginning.
LEMMA BeforeSame ==
  ASSUME NEW n \in Nat, NEW f, NEW g, \A k \in 0..(n - 1) : f[k] = g[k]
  PROVE  Before(n, f) = Before(n, g)
BY DEF Before

\* A beginning has the type of its values.
LEMMA BeforeTyped ==
  ASSUME NEW n \in Nat, NEW V, NEW f, \A k \in 0..(n - 1) : f[k] \in V
  PROVE  Before(n, f) \in [0..(n - 1) -> V]
BY DEF Before

LEMMA BeforeOf ==
  ASSUME NEW V, NEW f \in [Nat -> V], NEW n \in Nat
  PROVE  /\ Before(n, f) \in [0..(n - 1) -> V]
         /\ \A k \in 0..(n - 1) : Before(n, f)[k] = f[k]
BY DEF Before

\* g is what the rule says up to n: rule[k] gives the value at k from those
\* before.
Begins(n, g, rule) == \A k \in 0..n : g[k] = rule[k][Before(k, g)]

\* A rule leaves no choice.
LEMMA BeginsUnique ==
  ASSUME NEW rule, NEW n \in Nat, NEW g, NEW h, Begins(n, g, rule), Begins(n, h, rule)
  PROVE  \A k \in 0..n : g[k] = h[k]
<1> DEFINE Same == {k \in Nat : k > n \/ \A j \in 0..k : g[j] = h[j]}
<1>1. 0 \in Same
  <2>1. Before(0, g) = Before(0, h)
    BY DEF Before
  <2>2. g[0] = h[0]
    BY <2>1 DEF Begins
  <2> QED BY <2>2
<1>2. ASSUME NEW k \in Nat, k \in Same PROVE k + 1 \in Same
  <2> SUFFICES ASSUME k + 1 <= n PROVE \A j \in 0..(k + 1) : g[j] = h[j]
    OBVIOUS
  <2>1. \A j \in 0..k : g[j] = h[j]
    BY <1>2
  <2>2. Before(k + 1, g) = Before(k + 1, h)
    BY <2>1, BeforeSame
  <2>3. g[k + 1] = h[k + 1]
    BY <2>2 DEF Begins
  <2> QED BY <2>1, <2>3
<1>3. Nat \subseteq Same
  <2> HIDE DEF Same
  <2> QED BY <1>1, <1>2, SetInduction
<1>4. n \in Same
  BY <1>3
<1> QED BY <1>4

LEMMA BeginsAgree ==
  ASSUME NEW rule, NEW n \in Nat, NEW g, NEW h, Begins(n, g, rule), Begins(n, h, rule)
  PROVE  g[n] = h[n]
BY BeginsUnique, SMT

\* The rule gives values in V from values in V.
IsRule(rule, V) == \A n \in Nat : rule[n] \in [[0..(n - 1) -> V] -> V]

\* A rule that gives each value from those before defines a function.
LEMMA CourseOfValues ==
  ASSUME NEW V, NEW rule, IsRule(rule, V)
  PROVE  \E f \in [Nat -> V] : \A n \in Nat : f[n] = rule[n][Before(n, f)]
<1> USE DEF IsRule
<1> DEFINE Done == {n \in Nat : \E g \in [0..n -> V] : Begins(n, g, rule)}
<1>1. 0 \in Done
  <2> DEFINE e == [k \in 0..0 |-> rule[0][Before(0, <<>>)]]
  <2>1. Before(0, e) = Before(0, <<>>)
    BY DEF Before
  <2>2. Before(0, <<>>) \in [0..(0 - 1) -> V]
    BY DEF Before
  <2>3. rule[0][Before(0, <<>>)] \in V
    BY <2>2
  <2>4. e \in [0..0 -> V] /\ e[0] = rule[0][Before(0, <<>>)]
    BY <2>3
  <2> HIDE DEF e
  <2>5. Begins(0, e, rule)
    BY <2>1, <2>4 DEF Begins
  <2> QED BY <2>4, <2>5
<1>2. ASSUME NEW n \in Nat, n \in Done PROVE n + 1 \in Done
  <2>1. PICK g \in [0..n -> V] : Begins(n, g, rule)
    BY <1>2
  <2> DEFINE v == rule[n + 1][Before(n + 1, g)]
             h == [k \in 0..(n + 1) |-> IF k = n + 1 THEN v ELSE g[k]]
  <2>2. v \in V
    <3>1. n + 1 \in Nat /\ \A k \in 0..((n + 1) - 1) : g[k] \in V
      BY <2>1
    <3>2. Before(n + 1, g) \in [0..((n + 1) - 1) -> V]
      BY <3>1, BeforeTyped
    <3> QED BY <3>1, <3>2
  <2> HIDE DEF v
  <2>3. /\ h \in [0..(n + 1) -> V] /\ h[n + 1] = v
        /\ \A k \in 0..n : h[k] = g[k]
    BY <2>2
  <2> HIDE DEF h
  <2>4. ASSUME NEW k \in 0..(n + 1) PROVE h[k] = rule[k][Before(k, h)]
    <3>1. Before(k, h) = Before(k, g)
      BY <2>3, BeforeSame
    <3>2. CASE k = n + 1
      BY <3>1, <3>2, <2>3 DEF v
    <3>3. CASE k \in 0..n
      BY <3>1, <3>3, <2>1, <2>3 DEF Begins
    <3> QED BY <3>2, <3>3
  <2> QED BY <2>3, <2>4 DEF Begins
<1>3. Nat \subseteq Done
  <2> HIDE DEF Done
  <2> QED BY <1>1, <1>2, SetInduction
<1> DEFINE F == [n \in Nat |-> CHOOSE g \in [0..n -> V] : Begins(n, g, rule)]
<1>4. \A n \in Nat : F[n] \in [0..n -> V] /\ Begins(n, F[n], rule)
  BY <1>3
<1> HIDE DEF F
<1> DEFINE f == [n \in Nat |-> F[n][n]]
<1>5. f \in [Nat -> V] /\ \A n \in Nat : f[n] = F[n][n]
  <2>1. \A n \in Nat : F[n][n] \in V
    BY <1>4
  <2> QED BY <2>1
<1> HIDE DEF f
<1>6. ASSUME NEW n \in Nat, NEW k \in 0..n PROVE f[k] = F[n][k]
  <2>1. k \in Nat
    OBVIOUS
  <2>2. Begins(k, F[n], rule) /\ Begins(k, F[k], rule)
    BY <1>4, <2>1 DEF Begins
  <2>3. F[n][k] = F[k][k]
    BY <2>1, <2>2, BeginsAgree
  <2> QED BY <1>5, <2>1, <2>3
<1>7. ASSUME NEW n \in Nat PROVE f[n] = rule[n][Before(n, f)]
  <2>1. Before(n, f) = Before(n, F[n])
    BY <1>6, BeforeSame
  <2>2. F[n][n] = rule[n][Before(n, F[n])]
    BY <1>4 DEF Begins
  <2> QED BY <1>5, <2>1, <2>2
<1> QED BY <1>5, <1>7

=============================================================================
