------------------------------- MODULE Induction ------------------------------
(***************************************************************************)
(* Lemmas the proofs share: induction and recursion over the numbers up to *)
(* n and over the subsets of a finite set, in a form without operators as  *)
(* parameters: what is shown is that a set has every number, or every      *)
(* subset, and a step is a function.                                       *)
(***************************************************************************)
EXTENDS Integers, Sequences, FiniteSets, FiniteSetTheorems,
        WellFoundedInduction, TLAPS

\* Every set of numbers that is not empty has a least one.
LEMMA LeastMember ==
  ASSUME NEW T \in SUBSET Nat, T # {}
  PROVE  \E x \in T : \A y \in T : x <= y
<1> DEFINE R == OpToRel(<, Nat)
<1>1. \E x \in T : \A y \in T : ~(<<y, x>> \in R)
  BY NatLessThanWellFounded, WFMin
<1>2. \A x, y \in Nat : y < x => <<y, x>> \in R
  BY DEF OpToRel
<1>3. \E x \in T : \A y \in T : ~(y < x)
  <2> HIDE DEF R
  <2>1. QED
    BY <1>1, <1>2
<1>4. QED
  BY <1>3

\* Induction up to n.
LEMMA UpTo ==
  ASSUME NEW n \in Nat, NEW S, 0 \in S,
         \A k \in 0..(n - 1) : k \in S => k + 1 \in S
  PROVE  0..n \subseteq S
<1> DEFINE T == (0..n) \ S
<1> SUFFICES ASSUME T # {} PROVE FALSE
  OBVIOUS
<1>1. PICK x \in T : \A y \in T : x <= y
  <2>1. T \in SUBSET Nat
    OBVIOUS
  <2> HIDE DEF T
  <2>2. QED
    BY <2>1, LeastMember
<1>2. x # 0 /\ x - 1 \in 0..(n - 1) /\ x - 1 \notin T
  BY <1>1
<1>3. QED
  BY <1>1, <1>2

\* The steps of a loop over S whose values are in V.
Steps(S, V) == [S -> [V -> V]]

\* f begins with a and takes the steps of G.
Runs(f, n, a, G) == f[0] = a /\ \A i \in 1..n : f[i] = G[i][f[i - 1]]

\* A function over 0..n may be defined by its value at 0 and a step.
LEMMA Recursion ==
  ASSUME NEW n \in Nat, NEW V, NEW a \in V, NEW G \in Steps(1..n, V)
  PROVE  \E f \in [0..n -> V] : Runs(f, n, a, G)
<1> USE DEF Steps, Runs
<1> DEFINE Solves(f, k) ==
             f = [i \in 0..k |-> IF i = 0 THEN a ELSE G[i][f[i - 1]]]
           S == {k \in 0..n : \E f \in [0..k -> V] : Solves(f, k)}
<1>1. 0 \in S
  <2>1. [i \in 0..0 |-> a] \in [0..0 -> V] /\ Solves([i \in 0..0 |-> a], 0)
    OBVIOUS
  <2>2. \E f \in [0..0 -> V] : Solves(f, 0)
    <3> HIDE DEF Solves
    <3>1. QED
      BY <2>1
  <2>3. QED
    BY <2>2
<1>2. ASSUME NEW k \in 0..(n - 1), k \in S PROVE k + 1 \in S
  <2>1. PICK f \in [0..k -> V] : Solves(f, k)
    BY <1>2
  <2> DEFINE h == [i \in 0..(k + 1) |->
                     IF i = k + 1 THEN G[k + 1][f[k]] ELSE f[i]]
  <2>2. h \in [0..(k + 1) -> V]
    BY <1>2
  <2>3. ASSUME NEW i \in 0..(k + 1)
        PROVE  h[i] = IF i = 0 THEN a ELSE G[i][h[i - 1]]
    <3>1. CASE i = k + 1
      <4>1. h[i - 1] = f[k]
        BY <1>2, <3>1
      <4>2. QED
        BY <1>2, <3>1, <4>1
    <3>2. CASE i \in 0..k
      <4>1. h[i] = f[i] /\ (i # 0 => h[i - 1] = f[i - 1])
        BY <1>2, <3>2
      <4>2. f[i] = IF i = 0 THEN a ELSE G[i][f[i - 1]]
        BY <2>1, <3>2
      <4> HIDE DEF h
      <4>3. QED
        BY <4>1, <4>2
    <3>3. QED
      BY <1>2, <2>3, <3>1, <3>2
  <2>4. Solves(h, k + 1)
    <3>1. h = [i \in 0..(k + 1) |-> h[i]]
      BY <2>2
    <3> HIDE DEF h
    <3>2. QED
      BY <2>3, <3>1
  <2>5. \E q \in [0..(k + 1) -> V] : Solves(q, k + 1)
    <3> HIDE DEF h, Solves
    <3>1. QED
      BY <2>2, <2>4
  <2>6. QED
    <3> HIDE DEF Solves
    <3>1. k + 1 \in 0..n
      BY <1>2
    <3>2. QED
      BY <2>5, <3>1
<1>3. n \in S
  <2> HIDE DEF S
  <2>1. 0..n \subseteq S
    BY <1>1, <1>2, UpTo, Zenon
  <2>2. QED
    BY <2>1
<1>4. PICK f \in [0..n -> V] : Solves(f, n)
  <2> HIDE DEF Solves
  <2>1. QED
    BY <1>3
<1>5. f[0] = a /\ \A i \in 1..n : f[i] = G[i][f[i - 1]]
  BY <1>4
<1>6. QED
  BY <1>5

----------------------------------------------------------------------------
(* Subsets of a finite set.                                                 *)

\* A step from the subsets with one element less.
LEMMA SetInduction ==
  ASSUME NEW S, IsFiniteSet(S), NEW C, {} \in C,
         \A T \in SUBSET S : T # {} /\ (\A x \in T : T \ {x} \in C) => T \in C
  PROVE  \A T \in SUBSET S : T \in C
<1> DEFINE W == {n \in Nat : \A T \in SUBSET S : Cardinality(T) = n => T \in C}
<1>1. \A T \in SUBSET S : IsFiniteSet(T)
        /\ Cardinality(T) \in 0..Cardinality(S)
  BY FS_Subset, FS_CardinalityType
<1>2. Cardinality(S) \in Nat
  BY FS_CardinalityType
<1>3. 0 \in W
  BY <1>1, FS_EmptySet
<1>4. ASSUME NEW n \in 0..(Cardinality(S) - 1), n \in W PROVE n + 1 \in W
  <2>1. SUFFICES ASSUME NEW T \in SUBSET S, Cardinality(T) = n + 1
                 PROVE  T \in C
    BY <1>4
  <2>2. T # {}
    <3>1. Cardinality({}) = 0 /\ n + 1 # 0
      BY <1>2, FS_EmptySet
    <3>2. QED
      BY <2>1, <3>1
  <2>3. ASSUME NEW x \in T PROVE T \ {x} \in C
    <3>1. Cardinality(T \ {x}) = n
      BY <1>1, <2>1, FS_RemoveElement
    <3>2. QED
      BY <1>4, <3>1
  <2>4. QED
    BY <2>2, <2>3
<1>5. 0..Cardinality(S) \subseteq W
  <2> HIDE DEF W
  <2>1. QED
    BY <1>2, <1>3, <1>4, UpTo
<1>6. QED
  BY <1>1, <1>5

\* f begins with a and takes the steps of G, the one of g[T] last.
Gathers(f, S, a, G, g) ==
  /\ f[{}] = a
  /\ \A T \in SUBSET S : T # {} => f[T] = G[g[T]][f[T \ {g[T]}]]

\* A function over the subsets of a finite set may be defined by its value at
\* the empty set and a step that adds the element g names.
LEMMA SetRecursion ==
  ASSUME NEW S, IsFiniteSet(S), NEW V, NEW a \in V, NEW G \in Steps(S, V),
         NEW g, \A T \in SUBSET S : T # {} => g[T] \in T
  PROVE  \E f \in [SUBSET S -> V] : Gathers(f, S, a, G, g)
<1> USE DEF Steps
<1> DEFINE L(n) == {T \in SUBSET S : Cardinality(T) <= n}
           Solves(f, n) ==
             f = [T \in L(n) |->
                    IF T = {} THEN a ELSE G[g[T]][f[T \ {g[T]}]]]
           W == {n \in Nat : \E f \in [L(n) -> V] : Solves(f, n)}
<1>1. \A T \in SUBSET S : IsFiniteSet(T)
        /\ Cardinality(T) \in 0..Cardinality(S)
  BY FS_Subset, FS_CardinalityType
<1>2. Cardinality(S) \in Nat
  BY FS_CardinalityType
<1>3. \A T \in SUBSET S : Cardinality(T) = 0 => T = {}
  BY <1>1, FS_EmptySet
<1>4. ASSUME NEW n \in Nat, NEW T \in L(n + 1), T # {}
      PROVE  T \ {g[T]} \in L(n) /\ g[T] \in S
  <2>1. g[T] \in T /\ T \in SUBSET S
    BY <1>4
  <2>2. Cardinality(T \ {g[T]}) = Cardinality(T) - 1
    BY <1>1, <2>1, FS_RemoveElement
  <2>3. QED
    BY <1>1, <1>4, <2>1, <2>2
<1>5. 0 \in W
  <2> DEFINE f == [T \in L(0) |-> a]
  <2>1. \A T \in L(0) : T = {}
    BY <1>1, <1>3
  <2>2. f = [T \in L(0) |-> IF T = {} THEN a ELSE G[g[T]][f[T \ {g[T]}]]]
    BY <2>1
  <2>3. f \in [L(0) -> V]
    OBVIOUS
  <2>4. QED
    BY <2>2, <2>3
<1>6. ASSUME NEW n \in Nat, n \in W PROVE n + 1 \in W
  <2>1. PICK f \in [L(n) -> V] : Solves(f, n)
    BY <1>6
  <2> DEFINE h == [T \in L(n + 1) |->
                     IF T = {} THEN a ELSE G[g[T]][f[T \ {g[T]}]]]
  <2>2. ASSUME NEW T \in L(n) PROVE T \in L(n + 1) /\ h[T] = f[T]
    <3>1. T \in L(n + 1)
      BY <1>1
    <3>2. f[T] = IF T = {} THEN a ELSE G[g[T]][f[T \ {g[T]}]]
      BY <2>1
    <3>3. QED
      BY <3>1, <3>2
  <2>3. ASSUME NEW T \in L(n + 1)
        PROVE  h[T] = IF T = {} THEN a ELSE G[g[T]][h[T \ {g[T]}]]
    BY <1>4, <2>2
  <2>4. Solves(h, n + 1)
    <3>1. h = [T \in L(n + 1) |-> h[T]]
      OBVIOUS
    <3> HIDE DEF h
    <3>2. QED
      BY <2>3, <3>1
  <2>5. h \in [L(n + 1) -> V]
    <3> SUFFICES ASSUME NEW T \in L(n + 1), T # {}
                 PROVE  G[g[T]][f[T \ {g[T]}]] \in V
      OBVIOUS
    <3>1. f[T \ {g[T]}] \in V /\ G[g[T]] \in [V -> V]
      BY <1>4, <2>1
    <3>2. QED
      BY <3>1
  <2>6. \E q \in [L(n + 1) -> V] : Solves(q, n + 1)
    <3> HIDE DEF h, Solves, L
    <3>1. QED
      BY <2>4, <2>5
  <2>7. QED
    <3> HIDE DEF Solves, L
    <3>1. QED
      BY <2>6
<1>7. Cardinality(S) \in W
  <2> HIDE DEF W
  <2>1. QED
    BY <1>2, <1>5, <1>6, UpTo
<1>8. L(Cardinality(S)) = SUBSET S
  BY <1>1
<1>9. PICK f \in [L(Cardinality(S)) -> V] : Solves(f, Cardinality(S))
  BY <1>7
<1>10. f \in [SUBSET S -> V]
  BY <1>8
<1>11. f = [T \in SUBSET S |-> IF T = {} THEN a ELSE G[g[T]][f[T \ {g[T]}]]]
  <2> HIDE DEF L
  <2>1. QED
    BY <1>8, <1>9
<1>12. f[{}] = a /\ \A T \in SUBSET S : T # {} => f[T] = G[g[T]][f[T \ {g[T]}]]
  <2>1. {} \in SUBSET S
    OBVIOUS
  <2>2. f[{}] = a
    BY <1>11, <2>1
  <2>3. ASSUME NEW T \in SUBSET S, T # {} PROVE f[T] = G[g[T]][f[T \ {g[T]}]]
    BY <1>11, <2>3
  <2>4. QED
    BY <2>2, <2>3
<1>13. Gathers(f, S, a, G, g)
  BY <1>12, Zenon DEF Gathers
<1>14. QED
  BY <1>10, <1>13

\* A finite set that is totally ordered by the pairs of R has a last element.
LEMMA LastMember ==
  ASSUME NEW S, IsFiniteSet(S), S # {}, NEW R,
         \A x, y \in S : x # y => <<x, y>> \in R \/ <<y, x>> \in R,
         \A x, y, z \in S : <<x, y>> \in R /\ <<y, z>> \in R => <<x, z>> \in R
  PROVE  \E x \in S : \A y \in S \ {x} : <<y, x>> \in R
<1> DEFINE C == {T \in SUBSET S :
                   T = {} \/ \E x \in T : \A y \in T \ {x} : <<y, x>> \in R}
<1>1. ASSUME NEW T \in SUBSET S, T # {}, \A x \in T : T \ {x} \in C
      PROVE  T \in C
  <2>1. PICK x \in T : TRUE
    BY <1>1
  <2>2. CASE T \ {x} = {}
    BY <2>1, <2>2
  <2>3. CASE T \ {x} # {}
    <3>1. PICK z \in T \ {x} : \A y \in (T \ {x}) \ {z} : <<y, z>> \in R
      BY <1>1, <2>3
    <3>2. CASE <<x, z>> \in R
      BY <3>1, <3>2
    <3>3. CASE <<z, x>> \in R
      <4>1. \A y \in T \ {x} : <<y, x>> \in R
        BY <3>1, <3>3
      <4>2. QED
        BY <4>1
    <3>4. QED
      BY <3>1, <3>2, <3>3
  <2>4. QED
    BY <2>2, <2>3
<1>2. {} \in C
  OBVIOUS
<1>3. S \in C
  <2> HIDE DEF C
  <2>1. \A T \in SUBSET S : T # {} /\ (\A x \in T : T \ {x} \in C) => T \in C
    BY <1>1
  <2>2. \A T \in SUBSET S : T \in C
    BY <1>2, <2>1, SetInduction, Zenon
  <2>3. QED
    BY <2>2
<1>4. QED
  BY <1>3
=============================================================================
