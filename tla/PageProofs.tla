------------------------------ MODULE PageProofs ------------------------------
(***************************************************************************)
(* Proofs about the web page: the cards of running sends, for any sends,   *)
(* paths and chats, and the view of the open chat.                         *)
(***************************************************************************)
EXTENDS MCPage, SequenceTheorems, Induction, TLAPS

----------------------------------------------------------------------------
(* Sequences.                                                               *)

\* What is at two places of s, in the order of the places, is in R.
Follows(s, R) == \A i, j \in DOMAIN s : i < j => <<s[i], s[j]>> \in R

\* The first n elements.
Part(s, n) == {s[i] : i \in 1..n}

\* The elements of a sequence are at its places.
LEMMA SetOfSeq ==
  ASSUME NEW T, NEW s \in Seq(T)
  PROVE  /\ ToSet(s) = Part(s, Len(s)) /\ ToSet(s) \subseteq T
         /\ Len(s) \in Nat /\ DOMAIN s = 1..Len(s)
         /\ \A i \in 1..Len(s) : s[i] \in T
         /\ \A x : Contains(s, x) <=> x \in ToSet(s)
         /\ s = <<>> <=> ToSet(s) = {}
<1>1. /\ Len(s) \in Nat /\ DOMAIN s = 1..Len(s)
      /\ \A i \in 1..Len(s) : s[i] \in T
  BY ElementOfSeq, LenProperties
<1>2. s = <<>> <=> ToSet(s) = {}
  <2>1. s = <<>> <=> Len(s) = 0
    BY EmptySeq
  <2>2. Len(s) = 0 <=> DOMAIN s = {}
    <3>1. Len(s) # 0 => 1 \in 1..Len(s)
      BY <1>1
    <3>2. Len(s) = 0 => 1..Len(s) = {}
      OBVIOUS
    <3>3. QED
      BY <1>1, <3>1, <3>2
  <2>3. DOMAIN s = {} <=> ToSet(s) = {}
    BY DEF ToSet
  <2>4. QED
    BY <2>1, <2>2, <2>3
<1>3. ToSet(s) = Part(s, Len(s)) /\ ToSet(s) \subseteq T
  BY <1>1 DEF ToSet, Part
<1>4. \A x : Contains(s, x) <=> x \in ToSet(s)
  <2>1. \A x : Contains(s, x) <=> \E i \in DOMAIN s : s[i] = x
    BY <1>1 DEF Contains
  <2>2. QED
    BY <2>1 DEF ToSet
<1>5. QED
  BY <1>1, <1>2, <1>3, <1>4

\* One element more at the end.
LEMMA AppendFacts ==
  ASSUME NEW T, NEW s \in Seq(T), NEW x \in T, NEW R
  PROVE  /\ Append(s, x) \in Seq(T)
         /\ ToSet(Append(s, x)) = ToSet(s) \cup {x}
         /\ Follows(s, R) /\ (\A y \in ToSet(s) : <<y, x>> \in R) =>
              Follows(Append(s, x), R)
         /\ IsInjective(s) /\ x \notin ToSet(s) => IsInjective(Append(s, x))
<1> DEFINE t == Append(s, x)
<1>1. /\ t \in Seq(T) /\ Len(t) = Len(s) + 1 /\ Len(s) \in Nat
      /\ DOMAIN s = 1..Len(s) /\ DOMAIN t = 1..(Len(s) + 1)
      /\ \A i \in 1..Len(s) : t[i] = s[i]
      /\ t[Len(s) + 1] = x
  BY AppendProperties
<1> HIDE DEF t
<1>2. ToSet(t) = ToSet(s) \cup {x}
  BY <1>1 DEF ToSet
<1>3. Follows(s, R) /\ (\A y \in ToSet(s) : <<y, x>> \in R) => Follows(t, R)
  BY <1>1 DEF Follows, ToSet
<1>4. IsInjective(s) /\ x \notin ToSet(s) => IsInjective(t)
  BY <1>1 DEF IsInjective, ToSet
<1>5. QED
  BY <1>1, <1>2, <1>3, <1>4 DEF t

\* One sequence after another.
LEMMA ConcatFacts ==
  ASSUME NEW T, NEW s \in Seq(T), NEW t \in Seq(T), NEW R
  PROVE  /\ s \o t \in Seq(T)
         /\ Len(s \o t) = Len(s) + Len(t)
         /\ ToSet(s \o t) = ToSet(s) \cup ToSet(t)
         /\ /\ Follows(s, R) /\ Follows(t, R)
            /\ \A x \in ToSet(s), y \in ToSet(t) : <<x, y>> \in R
            => Follows(s \o t, R)
         /\ IsInjective(s) /\ IsInjective(t) /\ ToSet(s) \cap ToSet(t) = {} =>
              IsInjective(s \o t)
<1> DEFINE c == s \o t
<1>1. /\ c \in Seq(T) /\ Len(c) = Len(s) + Len(t)
      /\ Len(s) \in Nat /\ Len(t) \in Nat
      /\ DOMAIN s = 1..Len(s) /\ DOMAIN t = 1..Len(t)
      /\ DOMAIN c = 1..(Len(s) + Len(t))
  BY ConcatProperties, LenProperties
<1>2. /\ \A i \in 1..Len(s) : c[i] = s[i]
      /\ \A i \in 1..Len(t) : c[Len(s) + i] = t[i]
  BY ConcatProperties, <1>1
<1> HIDE DEF c
<1>3. \A i \in DOMAIN c :
        \/ i \in DOMAIN s /\ c[i] = s[i]
        \/ i - Len(s) \in DOMAIN t /\ c[i] = t[i - Len(s)] /\ i > Len(s)
  <2> SUFFICES ASSUME NEW i \in DOMAIN c, i > Len(s)
               PROVE  i - Len(s) \in DOMAIN t /\ c[i] = t[i - Len(s)]
    BY <1>1, <1>2
  <2>1. i - Len(s) \in 1..Len(t) /\ Len(s) + (i - Len(s)) = i
    BY <1>1
  <2>2. QED
    BY <1>1, <1>2, <2>1
<1>4. \A i \in DOMAIN t : Len(s) + i \in DOMAIN c
  BY <1>1
<1>5. ToSet(c) = ToSet(s) \cup ToSet(t)
  <2>1. DOMAIN s \subseteq DOMAIN c
    BY <1>1
  <2>2. QED
    BY <1>1, <1>2, <1>3, <1>4, <2>1 DEF ToSet
<1>6. ASSUME Follows(s, R), Follows(t, R),
             \A x \in ToSet(s), y \in ToSet(t) : <<x, y>> \in R
      PROVE  Follows(c, R)
  <2> SUFFICES ASSUME NEW i \in DOMAIN c, NEW j \in DOMAIN c, i < j
               PROVE  <<c[i], c[j]>> \in R
    BY DEF Follows
  <2>1. CASE j \in DOMAIN s
    <3>1. i \in DOMAIN s
      BY <1>1, <2>1
    <3>2. QED
      BY <1>1, <1>2, <1>6, <2>1, <3>1 DEF Follows
  <2>2. CASE i \in DOMAIN s /\ j \notin DOMAIN s
    BY <1>1, <1>2, <1>3, <1>6, <2>2 DEF ToSet
  <2>3. CASE i \notin DOMAIN s /\ j \notin DOMAIN s
    <3>1. /\ i - Len(s) \in DOMAIN t /\ c[i] = t[i - Len(s)]
          /\ j - Len(s) \in DOMAIN t /\ c[j] = t[j - Len(s)]
      BY <1>3, <2>3
    <3>2. i - Len(s) < j - Len(s)
      BY <1>1
    <3>3. QED
      BY <1>6, <3>1, <3>2 DEF Follows
  <2>4. QED
    BY <1>1, <2>1, <2>2, <2>3
<1>7. ASSUME IsInjective(s), IsInjective(t), ToSet(s) \cap ToSet(t) = {}
      PROVE  IsInjective(c)
  <2> SUFFICES ASSUME NEW i \in DOMAIN c, NEW j \in DOMAIN c, c[i] = c[j]
               PROVE  i = j
    BY DEF IsInjective
  <2>1. CASE i \in DOMAIN s /\ j \in DOMAIN s
    BY <1>1, <1>2, <1>7, <2>1 DEF IsInjective
  <2>2. /\ \A k \in DOMAIN s : c[k] \in ToSet(s)
        /\ \A k \in DOMAIN c \ DOMAIN s : c[k] \in ToSet(t)
    BY <1>1, <1>2, <1>3 DEF ToSet
  <2>3. CASE (i \in DOMAIN s) # (j \in DOMAIN s)
    BY <1>7, <2>2, <2>3
  <2>4. CASE i \notin DOMAIN s /\ j \notin DOMAIN s
    <3>1. i - Len(s) = j - Len(s)
      <4> DEFINE m == i - Len(s)
                 n == j - Len(s)
      <4>1. m \in DOMAIN t /\ n \in DOMAIN t /\ t[m] = t[n]
        BY <1>3, <2>4
      <4> HIDE DEF m, n
      <4>2. m = n
        BY <1>7, <4>1 DEF IsInjective
      <4>3. QED
        BY <4>2 DEF m, n
    <3>2. QED
      BY <1>1, <3>1
  <2>5. QED
    BY <2>1, <2>3, <2>4
<1>8. QED
  BY <1>1, <1>5, <1>6, <1>7 DEF c

\* Chosen is a loop over the elements that appends those it keeps.
LEMMA ChosenLoop ==
  ASSUME NEW T, NEW s \in Seq(T), NEW S
  PROVE  \E f : /\ f = [n \in 0..Len(s) |->
                         IF n = 0 THEN <<>>
                         ELSE IF s[n] \in S THEN Append(f[n - 1], s[n])
                         ELSE f[n - 1]]
                /\ Chosen(s, S) = f[Len(s)]
<1> DEFINE F(f) == f = [n \in 0..Len(s) |->
                         IF n = 0 THEN <<>>
                         ELSE IF s[n] \in S THEN Append(f[n - 1], s[n])
                         ELSE f[n - 1]]
           G == [n \in 1..Len(s) |-> [q \in Seq(T) |->
                   IF s[n] \in S THEN Append(q, s[n]) ELSE q]]
<1>1. Len(s) \in Nat /\ <<>> \in Seq(T)
        /\ G \in [1..Len(s) -> [Seq(T) -> Seq(T)]]
  <2>1. Len(s) \in Nat /\ <<>> \in Seq(T) /\ \A n \in 1..Len(s) : s[n] \in T
    BY EmptySeq, SetOfSeq
  <2>2. \A n \in 1..Len(s), q \in Seq(T) : Append(q, s[n]) \in Seq(T)
    BY <2>1, AppendProperties
  <2>3. QED
    BY <2>1, <2>2
<1>2. PICK f \in [0..Len(s) -> Seq(T)] : Runs(f, Len(s), <<>>, G)
  <2>1. G \in Steps(1..Len(s), Seq(T))
    BY <1>1 DEF Steps
  <2> HIDE DEF G, F
  <2>2. QED
    BY <1>1, <2>1, Recursion
<1>3. F(f)
  <2>1. ASSUME NEW n \in 1..Len(s)
        PROVE  f[n] = IF s[n] \in S THEN Append(f[n - 1], s[n]) ELSE f[n - 1]
    <3>1. f[n - 1] \in Seq(T) /\ f[n] = G[n][f[n - 1]]
      <4> HIDE DEF G, F
      <4>1. n - 1 \in 0..Len(s)
        BY <1>1
      <4>2. QED
        BY <1>2, <4>1 DEF Runs
    <3>2. G[n] = [q \in Seq(T) |-> IF s[n] \in S THEN Append(q, s[n]) ELSE q]
      OBVIOUS
    <3> HIDE DEF G, F
    <3>3. QED
      BY <3>1, <3>2
  <2>2. ASSUME NEW n \in 0..Len(s)
        PROVE  f[n] = IF n = 0 THEN <<>>
                      ELSE IF s[n] \in S THEN Append(f[n - 1], s[n])
                      ELSE f[n - 1]
    <3> HIDE DEF G, F
    <3>1. f[0] = <<>>
      BY <1>2 DEF Runs
    <3>2. n = 0 \/ n \in 1..Len(s)
      BY <1>1
    <3>3. QED
      BY <2>1, <3>1, <3>2
  <2>3. f = [n \in 0..Len(s) |-> f[n]]
    OBVIOUS
  <2> HIDE DEF G
  <2>4. QED
    BY <2>2, <2>3
<1>4. F(CHOOSE h : F(h))
  <2> HIDE DEF F
  <2>1. QED
    BY <1>3
<1>5. Chosen(s, S) = (CHOOSE h : F(h))[Len(s)]
  BY DEF Chosen
<1>6. QED
  BY <1>4, <1>5

\* What Chosen keeps, in the order it had.
LEMMA ChosenFacts ==
  ASSUME NEW T, NEW s \in Seq(T), NEW S, NEW R
  PROVE  /\ Chosen(s, S) \in Seq(T)
         /\ ToSet(Chosen(s, S)) = ToSet(s) \cap S
         /\ Follows(s, R) => Follows(Chosen(s, S), R)
         /\ IsInjective(s) => IsInjective(Chosen(s, S))
<1>1. PICK f : /\ f = [n \in 0..Len(s) |->
                         IF n = 0 THEN <<>>
                         ELSE IF s[n] \in S THEN Append(f[n - 1], s[n])
                         ELSE f[n - 1]]
               /\ Chosen(s, S) = f[Len(s)]
  BY ChosenLoop
<1> DEFINE Good(n) == /\ f[n] \in Seq(T)
                      /\ ToSet(f[n]) = Part(s, n) \cap S
                      /\ Follows(s, R) => Follows(f[n], R)
                      /\ IsInjective(s) => IsInjective(f[n])
           W == {n \in 0..Len(s) : Good(n)}
<1>2. /\ Len(s) \in Nat /\ DOMAIN s = 1..Len(s)
      /\ \A n \in 1..Len(s) : s[n] \in T
  BY SetOfSeq
<1>3. f[0] = <<>> /\ \A n \in 0..(Len(s) - 1) :
        f[n + 1] = IF s[n + 1] \in S THEN Append(f[n], s[n + 1]) ELSE f[n]
  <2>1. f[0] = <<>>
    BY <1>1, <1>2
  <2>2. ASSUME NEW n \in 0..(Len(s) - 1)
        PROVE  f[n + 1] = IF s[n + 1] \in S THEN Append(f[n], s[n + 1])
                          ELSE f[n]
    <3>1. n + 1 \in 0..Len(s) /\ n + 1 # 0 /\ (n + 1) - 1 = n
      BY <1>2
    <3>2. QED
      BY <1>1, <3>1
  <2>3. QED
    BY <2>1, <2>2
<1>4. Good(0)
  <2>1. Part(s, 0) = {} /\ <<>> \in Seq(T) /\ DOMAIN <<>> = {}
    BY EmptySeq DEF Part
  <2>2. QED
    BY <1>3, <2>1 DEF ToSet, Follows, IsInjective
<1>5. ASSUME NEW n \in 0..(Len(s) - 1), Good(n) PROVE Good(n + 1)
  <2> DEFINE x == s[n + 1]
  <2>1. /\ x \in T /\ n \in Nat /\ n + 1 \in DOMAIN s
        /\ Part(s, n + 1) = Part(s, n) \cup {x}
        /\ \A i \in 1..n : i \in DOMAIN s /\ i < n + 1 /\ i # n + 1
    BY <1>2 DEF Part
  <2>2. \A y \in ToSet(f[n]) : \E i \in 1..n : y = s[i]
    BY <1>5 DEF Part
  <2>3. IsInjective(s) => x \notin ToSet(f[n])
    BY <2>1, <2>2 DEF IsInjective
  <2>4. Follows(s, R) => \A y \in ToSet(f[n]) : <<y, x>> \in R
    BY <2>1, <2>2 DEF Follows
  <2>5. CASE x \in S
    <3>1. f[n + 1] = Append(f[n], x)
      BY <1>3, <2>5
    <3>2. /\ f[n + 1] \in Seq(T) /\ ToSet(f[n + 1]) = ToSet(f[n]) \cup {x}
          /\ Follows(s, R) => Follows(f[n + 1], R)
          /\ IsInjective(s) => IsInjective(f[n + 1])
      <4> HIDE DEF x
      <4>1. QED
        BY <1>5, <2>1, <2>3, <2>4, <3>1, AppendFacts
    <3>3. ToSet(f[n + 1]) = Part(s, n + 1) \cap S
      BY <1>5, <2>1, <2>5, <3>2
    <3>4. QED
      BY <3>2, <3>3
  <2>6. CASE x \notin S
    <3>1. f[n + 1] = f[n]
      BY <1>3, <2>6
    <3>2. ToSet(f[n + 1]) = Part(s, n + 1) \cap S
      BY <1>5, <2>1, <2>6, <3>1
    <3>3. QED
      BY <1>5, <3>1, <3>2
  <2>7. QED
    BY <2>5, <2>6
<1>6. Good(Len(s))
  <2>1. 0 \in W /\ \A n \in 0..(Len(s) - 1) : n \in W => n + 1 \in W
    <3>1. \A n \in 0..(Len(s) - 1) : n + 1 \in 0..Len(s)
      BY <1>2
    <3> HIDE DEF Good
    <3>2. QED
      BY <1>2, <1>4, <1>5, <3>1
  <2> HIDE DEF W, Good
  <2>2. 0..Len(s) \subseteq W
    BY <1>2, <2>1, UpTo
  <2>3. QED
    BY <1>2, <2>2 DEF W
<1>7. QED
  BY <1>1, <1>6, SetOfSeq

\* What Chosen and concatenation do to the elements.
LEMMA ChosenSet ==
  ASSUME NEW T, NEW s \in Seq(T), NEW S
  PROVE  /\ Chosen(s, S) \in Seq(T)
         /\ ToSet(Chosen(s, S)) = ToSet(s) \cap S
         /\ IsInjective(s) => IsInjective(Chosen(s, S))
<1>1. /\ Chosen(s, S) \in Seq(T)
      /\ ToSet(Chosen(s, S)) = ToSet(s) \cap S
      /\ Follows(s, {}) => Follows(Chosen(s, S), {})
      /\ IsInjective(s) => IsInjective(Chosen(s, S))
  BY ChosenFacts
<1>2. QED
  BY <1>1

\* The elements with one more at the end.
LEMMA AppendSet ==
  ASSUME NEW T, NEW s \in Seq(T), NEW x \in T
  PROVE  /\ Append(s, x) \in Seq(T)
         /\ ToSet(Append(s, x)) = ToSet(s) \cup {x}
         /\ IsInjective(s) /\ x \notin ToSet(s) => IsInjective(Append(s, x))
<1> DEFINE t == Append(s, x)
<1>1. /\ t \in Seq(T) /\ Len(s) \in Nat
      /\ DOMAIN s = 1..Len(s) /\ DOMAIN t = 1..(Len(s) + 1)
      /\ \A i \in 1..Len(s) : t[i] = s[i]
      /\ t[Len(s) + 1] = x
  BY AppendProperties
<1> HIDE DEF t
<1>2. ToSet(t) = ToSet(s) \cup {x}
  BY <1>1 DEF ToSet
<1>3. IsInjective(s) /\ x \notin ToSet(s) => IsInjective(t)
  BY <1>1 DEF IsInjective, ToSet
<1>4. QED
  BY <1>1, <1>2, <1>3 DEF t

\* The elements of one sequence after another.
LEMMA ConcatSet ==
  ASSUME NEW T, NEW s \in Seq(T), NEW t \in Seq(T)
  PROVE  /\ s \o t \in Seq(T)
         /\ ToSet(s \o t) = ToSet(s) \cup ToSet(t)
         /\ IsInjective(s) /\ IsInjective(t) /\ ToSet(s) \cap ToSet(t) = {} =>
              IsInjective(s \o t)
<1>1. /\ s \o t \in Seq(T)
      /\ ToSet(s \o t) = ToSet(s) \cup ToSet(t)
      /\ /\ Follows(s, {}) /\ Follows(t, {})
         /\ \A x \in ToSet(s), y \in ToSet(t) : <<x, y>> \in {}
         => Follows(s \o t, {})
      /\ IsInjective(s) /\ IsInjective(t) /\ ToSet(s) \cap ToSet(t) = {} =>
           IsInjective(s \o t)
  BY ConcatFacts
<1>2. QED
  BY <1>1

\* The first element, and what follows it.
LEMMA TailFacts ==
  ASSUME NEW T, NEW s \in Seq(T), s # <<>>, NEW R
  PROVE  /\ Head(s) \in T /\ Tail(s) \in Seq(T) /\ Head(s) = s[1]
         /\ ToSet(s) = {Head(s)} \cup ToSet(Tail(s))
         /\ Len(s) = Len(Tail(s)) + 1
         /\ Follows(s, R) =>
              /\ Follows(Tail(s), R)
              /\ \A x \in ToSet(Tail(s)) : <<Head(s), x>> \in R
<1> DEFINE t == Tail(s)
<1>1. /\ Head(s) \in T /\ t \in Seq(T) /\ Len(t) = Len(s) - 1
      /\ \A i \in 1..Len(t) : t[i] = s[i + 1]
      /\ Head(s) = s[1]
      /\ Len(s) \in Nat \ {0} /\ Len(t) \in Nat
      /\ DOMAIN s = 1..Len(s) /\ DOMAIN t = 1..Len(t)
  BY HeadTailProperties, EmptySeq, SetOfSeq
<1> HIDE DEF t
<1>2. /\ 1 \in DOMAIN s
      /\ \A i \in DOMAIN t : i + 1 \in DOMAIN s /\ t[i] = s[i + 1]
      /\ \A i \in DOMAIN s : i # 1 => i - 1 \in DOMAIN t /\ t[i - 1] = s[i]
  <2>1. \A i \in DOMAIN s : i # 1 => i - 1 \in DOMAIN t /\ (i - 1) + 1 = i
    BY <1>1
  <2>2. 1 \in DOMAIN s /\ \A i \in DOMAIN t : i + 1 \in DOMAIN s
    BY <1>1
  <2>3. \A i \in DOMAIN s : i # 1 => t[i - 1] = s[i]
    BY <1>1, <2>1
  <2>4. QED
    BY <1>1, <2>1, <2>2, <2>3
<1>3. ToSet(s) = {Head(s)} \cup ToSet(t)
  BY <1>1, <1>2 DEF ToSet
<1>4. ASSUME Follows(s, R)
      PROVE  Follows(t, R) /\ \A x \in ToSet(t) : <<Head(s), x>> \in R
  <2>1. \A i, j \in DOMAIN t : i < j => i + 1 < j + 1
    BY <1>1
  <2>2. Follows(t, R)
    BY <1>2, <1>4, <2>1 DEF Follows
  <2>3. \A i \in DOMAIN t : 1 < i + 1
    BY <1>1
  <2>4. \A x \in ToSet(t) : <<Head(s), x>> \in R
    BY <1>1, <1>2, <1>4, <2>3 DEF Follows, ToSet
  <2>5. QED
    BY <2>2, <2>4
<1>5. QED
  BY <1>1, <1>3, <1>4 DEF t

\* A sequence that ends where another one does.
LEMMA SuffixFacts ==
  ASSUME NEW T, NEW s \in Seq(T), NEW m \in 1..Len(s)
  PROVE  LET t == SubSeq(s, m, Len(s)) IN
         /\ t \in Seq(T) /\ Len(t) = Len(s) - m + 1
         /\ ToSet(t) = {s[i] : i \in m..Len(s)}
         /\ \A i \in DOMAIN t : m + i - 1 \in m..Len(s) /\ t[i] = s[m + i - 1]
         /\ IsInjective(s) => IsInjective(t)
<1> DEFINE t == SubSeq(s, m, Len(s))
<1>1. /\ Len(s) \in Nat /\ m \in Int /\ Len(s) \in Int
      /\ DOMAIN s = 1..Len(s) /\ m..Len(s) \subseteq DOMAIN s
      /\ \A i \in m..Len(s) : s[i] \in T
  BY SetOfSeq
<1>2. /\ t \in Seq(T) /\ Len(t) = Len(s) - m + 1
      /\ \A i \in 1..(Len(s) - m + 1) : t[i] = s[m + i - 1]
  BY <1>1, SubSeqProperties
<1>3. DOMAIN t = 1..(Len(s) - m + 1)
  BY <1>2, SetOfSeq
<1> HIDE DEF t
<1>4. \A i \in DOMAIN t : m + i - 1 \in m..Len(s) /\ t[i] = s[m + i - 1]
  BY <1>1, <1>2, <1>3
<1>5. ToSet(t) = {s[i] : i \in m..Len(s)}
  <2>1. ASSUME NEW i \in m..Len(s)
        PROVE  i - m + 1 \in DOMAIN t /\ t[i - m + 1] = s[i]
    <3>1. i - m + 1 \in DOMAIN t /\ m + (i - m + 1) - 1 = i
      BY <1>1, <1>3
    <3>2. QED
      BY <1>4, <3>1
  <2>2. QED
    BY <1>4, <2>1 DEF ToSet
<1>6. ASSUME IsInjective(s) PROVE IsInjective(t)
  <2> SUFFICES ASSUME NEW i \in DOMAIN t, NEW j \in DOMAIN t, t[i] = t[j]
               PROVE  i = j
    BY DEF IsInjective
  <2>1. s[m + i - 1] = s[m + j - 1] /\ m + i - 1 \in DOMAIN s
          /\ m + j - 1 \in DOMAIN s
    BY <1>1, <1>4
  <2>2. m + i - 1 = m + j - 1
    BY <1>6, <2>1 DEF IsInjective
  <2>3. QED
    BY <1>1, <1>3, <2>2
<1>7. QED
  BY <1>2, <1>4, <1>5, <1>6 DEF t

----------------------------------------------------------------------------
(* The cards: what holds in every state.                                    *)

\* Events, and the pairs of them that may follow on each other: after the entry
\* of a send only its last update, and nothing after that.
Event == [kind : {"update", "entry", "done"}, send : Send, chat : Chat]
MayFollow ==
  {p \in Event \X Event :
     p[1].send = p[2].send =>
       p[1].kind # "done" /\ (p[1].kind = "entry" => p[2].kind = "done")}

\* The types of the variables.
CardTypes ==
  /\ chatOf \in [Send -> Chat \cup {None}]
  /\ pathOf \in [Send -> Path \cup {None}]
  /\ stage \in [Send -> {"none", "runs", "recorded", "done"}]
  /\ sends \in Seq(Event)
  /\ cards \in Seq(Send) /\ finished \in Seq(Send) /\ Len(finished) <= Remember
  /\ doneFor \in [Send -> 0..Live!Waiting]
  /\ open \in Chat \cup {None} /\ views \subseteq Send /\ opens \in 0..MaxOpens
  /\ filed \in [Send -> Chat \cup {None}]
  /\ entered \subseteq Send /\ forgotten \subseteq Send

\* The events on their way are of sends that began and in the order of the
\* sender's steps, and no update waits behind the last one.
EventsHold ==
  /\ Follows(sends, MayFollow)
  /\ \A v \in ToSet(sends) :
       /\ stage[v.send] # "none" /\ doneFor[v.send] = Live!Waiting
       /\ v.kind = "entry" => stage[v.send] \in {"recorded", "done"}
       /\ v.kind = "entry" => filed[v.send] = v.chat
       /\ v.kind # "done" => v.send \notin entered
       /\ v.kind = "done" => stage[v.send] = "done"

\* A send that did not begin has left no trace; its entry comes after it was
\* recorded, and it is done when its last update is in.
StagesHold ==
  \A s \in Send :
    /\ stage[s] = "none" =>
         /\ s \notin ToSet(cards) \cup ToSet(finished) \cup entered
         /\ pathOf[s] = None
    /\ stage[s] # "none" => pathOf[s] \in Path /\ chatOf[s] \in Chat
    /\ s \in entered => stage[s] \in {"recorded", "done"}
    /\ filed[s] # None => stage[s] \in {"recorded", "done"}
    /\ doneFor[s] # Live!Waiting => stage[s] = "done"

\* A send has one card, or was removed, and is remembered once.
ListsHold ==
  /\ IsInjective(cards) /\ IsInjective(finished)
  /\ ToSet(cards) \cap ToSet(finished) = {}

\* What holds of the cards, however few removed IDs are remembered.
CardsInv ==
  CardTypes /\ EventsHold /\ StagesHold /\ ListsHold /\ Live!ViewsAreCards

\* The constants as the proofs use them.
LEMMA CardConstants ==
  /\ None \notin Chat \cup Path
  /\ Hold \in Nat \ {0} /\ Remember \in Nat \ {0} /\ MaxOpens \in Nat
  /\ Live!Waiting = Hold + 1 /\ Live!Waiting \in Nat
BY LiveConstants DEF Live!ConstantsOK, Live!Waiting

\* The sequence operators of LiveTransfers are those of this module.
LEMMA SameOperators ==
  ASSUME NEW s
  PROVE  /\ Live!ToSet(s) = ToSet(s) /\ Live!IsInjective(s) = IsInjective(s)
         /\ \A x : Live!Contains(s, x) = Contains(s, x)
         /\ \A S : Live!Chosen(s, S) = Chosen(s, S)
BY DEF Live!ToSet, ToSet, Live!Contains, Contains, Live!Chosen, Chosen,
   Live!IsInjective, IsInjective

\* The screen shows the cards of the open chat.
LEMMA Shown ==
  Live!ViewsAreCards <=> views = {s \in ToSet(cards) : chatOf[s] = open}
BY SameOperators DEF Live!ViewsAreCards, Live!CardsOf

\* An event is one of three kinds of a send.
LEMMA Events ==
  /\ \A v \in Event : v.kind \in {"update", "entry", "done"} /\ v.send \in Send
  /\ \A v \in Event : v.chat \in Chat
  /\ \A k \in {"update", "entry", "done"}, s \in Send, c \in Chat :
       [kind |-> k, send |-> s, chat |-> c] \in Event
BY DEF Event

\* It holds when the page has loaded.
LEMMA CardsStart == Live!Init => CardsInv
<1> SUFFICES ASSUME Live!Init PROVE CardsInv
  OBVIOUS
<1>1. /\ sends = <<>> /\ cards = <<>> /\ finished = <<>>
      /\ ToSet(sends) = {} /\ ToSet(cards) = {} /\ ToSet(finished) = {}
      /\ \A T : <<>> \in Seq(T)
      /\ Len(<<>>) = 0 /\ DOMAIN <<>> = {}
  <2>1. \A T : <<>> \in Seq(T)
    BY EmptySeq
  <2>2. DOMAIN <<>> = {} /\ Len(<<>>) = 0
    BY EmptySeq
  <2>3. ToSet(<<>>) = {}
    BY <2>2 DEF ToSet
  <2>4. QED
    BY <2>1, <2>2, <2>3 DEF Live!Init
<1>2. CardTypes
  <2>1. /\ sends \in Seq(Event) /\ cards \in Seq(Send)
        /\ finished \in Seq(Send)
        /\ Len(finished) <= Remember
    BY <1>1, CardConstants
  <2>2. doneFor \in [Send -> 0..Live!Waiting] /\ opens \in 0..MaxOpens
    BY CardConstants DEF Live!Init
  <2>3. QED
    BY <2>1, <2>2 DEF CardTypes, Live!Init
<1>3. EventsHold
  BY <1>1 DEF EventsHold, Follows
<1>4. StagesHold
  BY <1>1 DEF StagesHold, Live!Init
<1>5. ListsHold
  BY <1>1 DEF ListsHold, IsInjective
<1>6. Live!ViewsAreCards
  BY <1>1, Shown DEF Live!Init
<1>7. QED
  BY <1>2, <1>3, <1>4, <1>5, <1>6 DEF CardsInv

\* An event more on its way.
LEMMA EmitFacts ==
  ASSUME CardTypes, EventsHold, NEW s \in Send,
         NEW k \in {"update", "entry", "done"}, NEW c \in Chat,
         Live!Emit(Live!Event(k, s, c)),
         \A v \in ToSet(sends) : v.send = s =>
           v.kind # "done" /\ (v.kind = "entry" => k = "done")
  PROVE  /\ sends' \in Seq(Event) /\ Follows(sends', MayFollow)
         /\ ToSet(sends)' =
              ToSet(sends) \cup {[kind |-> k, send |-> s, chat |-> c]}
<1> DEFINE e == [kind |-> k, send |-> s, chat |-> c]
<1>1. sends \in Seq(Event) /\ e \in Event /\ sends' = Append(sends, e)
        /\ ToSet(sends) \subseteq Event
  BY Events, SetOfSeq DEF CardTypes, Live!Emit, Live!Event
<1>2. \A v \in ToSet(sends) : <<v, e>> \in MayFollow
  BY <1>1 DEF MayFollow
<1> HIDE DEF e
<1>3. sends' \in Seq(Event) /\ Follows(sends', MayFollow)
        /\ ToSet(sends') = ToSet(sends) \cup {e}
  BY <1>1, <1>2, AppendFacts DEF EventsHold
<1>4. QED
  BY <1>3 DEF e

\* Go's steps leave the page alone.
GoStays ==
  UNCHANGED <<cards, doneFor, finished, open, views, opens, entered,
    forgotten>>

\* A send that begins.
LEMMA StartKeeps ==
  ASSUME CardsInv, NEW s \in Send, NEW c \in Chat, NEW p \in Path,
         Live!Start(s, c, p)
  PROVE  CardsInv'
<1> USE DEF CardsInv
<1>1. /\ stage[s] = "none" /\ stage' = [stage EXCEPT ![s] = "runs"]
      /\ chatOf' = [chatOf EXCEPT ![s] = c]
      /\ pathOf' = [pathOf EXCEPT ![s] = p]
      /\ GoStays /\ UNCHANGED filed
      /\ Live!Emit(Live!Event("update", s, c))
  BY DEF Live!Start, Live!Emit, Live!liveVars, Live!viewVars, GoStays
<1>2. /\ sends' \in Seq(Event) /\ Follows(sends', MayFollow)
      /\ ToSet(sends)' = ToSet(sends)
           \cup {[kind |-> "update", send |-> s, chat |-> c]}
      /\ \A v \in ToSet(sends) : v.send # s
  <2>1. \A v \in ToSet(sends) : v.send # s
    BY <1>1 DEF EventsHold
  <2>2. QED
    BY <1>1, <2>1, EmitFacts
<1>3. CardTypes'
  BY <1>1, <1>2 DEF CardTypes, GoStays
<1>4. EventsHold'
  <2>1. doneFor[s] = Live!Waiting /\ s \notin entered
    BY <1>1 DEF StagesHold
  <2>2. stage'[s] # "none" /\ \A t \in Send : t # s => stage'[t] = stage[t]
    BY <1>1 DEF CardTypes
  <2>3. \A v \in ToSet(sends) : v.send \in Send
    BY SetOfSeq, Events DEF CardTypes
  <2>4. UNCHANGED <<doneFor, entered, filed, Live!Waiting>>
    BY <1>1 DEF GoStays, Live!Waiting
  <2>5. ASSUME NEW v \in ToSet(sends)'
        PROVE  /\ stage'[v.send] # "none" /\ doneFor'[v.send] = Live!Waiting
               /\ v.kind = "entry" => stage'[v.send] \in {"recorded", "done"}
               /\ v.kind = "entry" => filed'[v.send] = v.chat
               /\ v.kind # "done" => v.send \notin entered'
               /\ v.kind = "done" => stage'[v.send] = "done"
    <3>1. CASE v = [kind |-> "update", send |-> s, chat |-> c]
      BY <2>1, <2>2, <2>4, <3>1
    <3>2. CASE v \in ToSet(sends)
      BY <1>2, <2>2, <2>3, <2>4, <3>2 DEF EventsHold
    <3>3. QED
      BY <1>2, <3>1, <3>2
  <2>6. QED
    BY <1>2, <2>4, <2>5 DEF EventsHold
<1>5. StagesHold'
  BY <1>1 DEF StagesHold, CardTypes, GoStays, ToSet, Live!Waiting
<1>6. ListsHold'
  BY <1>1 DEF ListsHold, GoStays
<1>7. Live!ViewsAreCards'
  <2>1. s \notin ToSet(cards)
    BY <1>1 DEF StagesHold
  <2>2. ToSet(cards) \subseteq Send
    BY SetOfSeq DEF CardTypes
  <2>3. \A t \in ToSet(cards) : chatOf'[t] = chatOf[t]
    BY <1>1, <2>1, <2>2 DEF CardTypes
  <2>4. views = {t \in ToSet(cards) : chatOf'[t] = open}
    BY <2>3, Shown
  <2>5. QED
    BY <1>1, <2>4
       DEF Live!ViewsAreCards, Live!CardsOf, Live!ToSet, ToSet, GoStays
<1>8. QED
  BY <1>3, <1>4, <1>5, <1>6, <1>7

\* What is new among the events is of a send that is at g, and fits there.
NewFit(s, g) ==
  \A v \in ToSet(sends)' :
    \/ v \in ToSet(sends)
    \/ /\ v.send = s /\ doneFor[s] = Live!Waiting
       /\ v.kind = "entry" => g \in {"recorded", "done"} /\ filed'[s] = v.chat
       /\ v.kind # "done" => s \notin entered
       /\ v.kind = "done" => g = "done"

\* A send that goes on, with or without an event.
LEMMA GoKeeps ==
  ASSUME CardsInv, NEW s \in Send, NEW g \in {"runs", "recorded", "done"},
         stage[s] # "none", stage' = [stage EXCEPT ![s] = g],
         stage[s] = "recorded" => g \in {"recorded", "done"},
         stage[s] = "done" => g = "done",
         UNCHANGED <<chatOf, pathOf>>, GoStays,
         filed' \in [Send -> Chat \cup {None}],
         \A v \in ToSet(sends) :
           v.kind = "entry" => filed'[v.send] = filed[v.send],
         \A t \in Send : filed'[t] = filed[t] \/ (t = s /\ g # "runs"),
         sends' \in Seq(Event), Follows(sends', MayFollow),
         NewFit(s, g)
  PROVE  CardsInv'
<1> USE DEF CardsInv, NewFit
<1>1. CardTypes'
  BY DEF CardTypes, GoStays
<1>2. /\ stage'[s] = g /\ \A t \in Send : t # s => stage'[t] = stage[t]
      /\ \A t \in Send :
           /\ stage[t] # "none" => stage'[t] # "none"
           /\ stage[t] \in {"recorded", "done"} =>
                stage'[t] \in {"recorded", "done"}
           /\ stage[t] = "done" => stage'[t] = "done"
           /\ stage'[t] # "none" => stage[t] # "none"
  BY DEF CardTypes
<1>3. UNCHANGED <<doneFor, entered, cards, finished, Live!Waiting>>
  BY DEF GoStays, Live!Waiting
<1>4. EventsHold'
  <2>1. \A v \in ToSet(sends) : v.send \in Send
    BY SetOfSeq, Events DEF CardTypes
  <2>2. ASSUME NEW v \in ToSet(sends)'
        PROVE  /\ stage'[v.send] # "none" /\ doneFor'[v.send] = Live!Waiting
               /\ v.kind = "entry" => stage'[v.send] \in {"recorded", "done"}
               /\ v.kind = "entry" => filed'[v.send] = v.chat
               /\ v.kind # "done" => v.send \notin entered'
               /\ v.kind = "done" => stage'[v.send] = "done"
    <3>1. CASE v \in ToSet(sends)
      BY <1>2, <1>3, <2>1, <3>1 DEF EventsHold
    <3>2. CASE v \notin ToSet(sends)
      BY <1>2, <1>3, <3>2
    <3>3. QED
      BY <3>1, <3>2
  <2>3. QED
    BY <1>3, <2>2 DEF EventsHold
<1>5. StagesHold'
  <2>1. ASSUME NEW t \in Send, filed'[t] # None
        PROVE  stage'[t] \in {"recorded", "done"}
    BY <1>2, <2>1 DEF StagesHold
  <2>2. ToSet(cards)' = ToSet(cards) /\ ToSet(finished)' = ToSet(finished)
    BY <1>3 DEF ToSet
  <2>3. ASSUME NEW t \in Send
        PROVE  /\ stage'[t] = "none" =>
                    /\ t \notin ToSet(cards) \cup ToSet(finished) \cup entered
                    /\ pathOf[t] = None
               /\ stage'[t] # "none" =>
                    pathOf[t] \in Path /\ chatOf[t] \in Chat
               /\ t \in entered => stage'[t] \in {"recorded", "done"}
               /\ doneFor[t] # Live!Waiting => stage'[t] = "done"
    BY <1>2 DEF StagesHold
  <2>4. QED
    BY <1>3, <2>1, <2>2, <2>3 DEF StagesHold
<1>6. ListsHold'
  <2>1. ToSet(cards)' = ToSet(cards) /\ ToSet(finished)' = ToSet(finished)
    BY <1>3 DEF ToSet
  <2>2. IsInjective(cards') /\ IsInjective(finished')
    BY <1>3 DEF ListsHold
  <2>3. QED
    BY <2>1, <2>2 DEF ListsHold
<1>7. Live!ViewsAreCards'
  BY DEF Live!ViewsAreCards, Live!CardsOf, Live!ToSet, GoStays
<1>8. QED
  BY <1>1, <1>4, <1>5, <1>6, <1>7

\* An update of a send that runs.
LEMMA ProgressKeeps ==
  ASSUME CardsInv, NEW s \in Send, Live!Progress(s)
  PROVE  CardsInv'
<1> USE DEF CardsInv
<1>1. /\ stage[s] = "runs" /\ GoStays /\ UNCHANGED filed
      /\ Live!Emit(Live!Event("update", s, chatOf[s]))
      /\ UNCHANGED <<chatOf, pathOf>> /\ stage' = [stage EXCEPT ![s] = "runs"]
  BY DEF Live!Progress, Live!Emit, Live!liveVars, Live!viewVars, GoStays,
     CardTypes
<1>2. doneFor[s] = Live!Waiting /\ s \notin entered /\ chatOf[s] \in Chat
  BY <1>1 DEF StagesHold
<1>3. \A v \in ToSet(sends) : v.send = s => v.kind = "update"
  <2>1. \A v \in ToSet(sends) : v.kind \in {"update", "entry", "done"}
    BY SetOfSeq, Events DEF CardTypes
  <2>2. QED
    BY <1>1, <2>1 DEF EventsHold
<1>4. /\ sends' \in Seq(Event) /\ Follows(sends', MayFollow)
      /\ ToSet(sends)' = ToSet(sends)
           \cup {[kind |-> "update", send |-> s, chat |-> chatOf[s]]}
  BY <1>1, <1>2, <1>3, EmitFacts
<1>5. NewFit(s, "runs")
  BY <1>2, <1>4 DEF NewFit
<1>6. filed' \in [Send -> Chat \cup {None}]
  BY <1>1 DEF CardTypes
<1>7. QED
  BY <1>1, <1>4, <1>5, <1>6, GoKeeps

\* The entry of a send, which may be lost.
LEMMA RecordKeeps ==
  ASSUME CardsInv, NEW s \in Send, NEW c \in Chat, Live!Record(s, c)
  PROVE  CardsInv'
<1> USE DEF CardsInv
<1>1. /\ stage[s] = "runs" /\ stage' = [stage EXCEPT ![s] = "recorded"]
      /\ UNCHANGED <<chatOf, pathOf>> /\ GoStays
      /\ \/ /\ Live!Emit(Live!Event("entry", s, c))
            /\ filed' = [filed EXCEPT ![s] = c]
         \/ UNCHANGED <<sends, filed>>
  BY DEF Live!Record, Live!Emit, Live!liveVars, Live!viewVars, Live!history,
     GoStays
<1>2. doneFor[s] = Live!Waiting /\ s \notin entered
  BY <1>1 DEF StagesHold
<1>3. CASE UNCHANGED <<sends, filed>>
  <2>1. /\ sends' \in Seq(Event) /\ Follows(sends', MayFollow)
        /\ ToSet(sends)' = ToSet(sends)
        /\ filed' \in [Send -> Chat \cup {None}]
    BY <1>3 DEF CardTypes, EventsHold, ToSet
  <2>2. NewFit(s, "recorded")
    BY <2>1 DEF NewFit
  <2>3. QED
    BY <1>1, <1>3, <2>1, <2>2, GoKeeps
<1>4. CASE /\ Live!Emit(Live!Event("entry", s, c))
           /\ filed' = [filed EXCEPT ![s] = c]
  <2>1. \A v \in ToSet(sends) : v.send = s => v.kind = "update"
    <3>1. \A v \in ToSet(sends) : v.kind \in {"update", "entry", "done"}
      BY SetOfSeq, Events DEF CardTypes
    <3>2. QED
      BY <1>1, <3>1 DEF EventsHold
  <2>2. /\ sends' \in Seq(Event) /\ Follows(sends', MayFollow)
        /\ ToSet(sends)' = ToSet(sends)
             \cup {[kind |-> "entry", send |-> s, chat |-> c]}
    BY <1>4, <2>1, EmitFacts
  <2>3. filed' \in [Send -> Chat \cup {None}] /\ filed'[s] = c
    BY <1>4 DEF CardTypes
  <2>4. \A v \in ToSet(sends) :
          v.kind = "entry" => filed'[v.send] = filed[v.send]
    <3>1. \A v \in ToSet(sends) : v.send \in Send
      BY SetOfSeq, Events DEF CardTypes
    <3>2. QED
      BY <1>4, <2>1, <3>1 DEF CardTypes
  <2>5. NewFit(s, "recorded")
    BY <1>2, <2>2, <2>3 DEF NewFit
  <2>6. \A t \in Send : filed'[t] = filed[t] \/ t = s
    BY <1>4 DEF CardTypes
  <2>7. QED
    BY <1>1, <2>2, <2>3, <2>4, <2>5, <2>6, GoKeeps
<1>5. QED
  BY <1>1, <1>3, <1>4

\* The last update of a send.
LEMMA FinishKeeps ==
  ASSUME CardsInv, NEW s \in Send, Live!Finish(s)
  PROVE  CardsInv'
<1> USE DEF CardsInv
<1>1. /\ stage[s] = "recorded" /\ stage' = [stage EXCEPT ![s] = "done"]
      /\ UNCHANGED <<chatOf, pathOf, filed>> /\ GoStays
      /\ Live!Emit(Live!Event("done", s, chatOf[s]))
  BY DEF Live!Finish, Live!Emit, Live!liveVars, Live!viewVars, GoStays
<1>2. doneFor[s] = Live!Waiting /\ chatOf[s] \in Chat
  BY <1>1 DEF StagesHold
<1>3. \A v \in ToSet(sends) : v.send = s => v.kind # "done"
  BY <1>1 DEF EventsHold
<1>4. /\ sends' \in Seq(Event) /\ Follows(sends', MayFollow)
      /\ ToSet(sends)' = ToSet(sends)
           \cup {[kind |-> "done", send |-> s, chat |-> chatOf[s]]}
  BY <1>1, <1>2, <1>3, EmitFacts
<1>5. NewFit(s, "done")
  BY <1>2, <1>4 DEF NewFit
<1>6. filed' \in [Send -> Chat \cup {None}]
  BY <1>1 DEF CardTypes
<1>7. QED
  BY <1>1, <1>4, <1>5, <1>6, GoKeeps

\* The page takes the first event.
LEMMA TakenFacts ==
  ASSUME CardTypes, EventsHold, sends # <<>>, sends' = Tail(sends)
  PROVE  /\ sends' \in Seq(Event) /\ Follows(sends', MayFollow)
         /\ Head(sends) \in ToSet(sends) /\ Head(sends) \in Event
         /\ ToSet(sends)' \subseteq ToSet(sends)
         /\ ToSet(sends)' \subseteq Event
         /\ \A v \in ToSet(sends)' :
              v.send = Head(sends).send =>
                /\ Head(sends).kind # "done"
                /\ Head(sends).kind = "entry" => v.kind = "done"
<1>1. sends \in Seq(Event) /\ Follows(sends, MayFollow)
  BY DEF CardTypes, EventsHold
<1>2. /\ sends' \in Seq(Event) /\ Follows(sends', MayFollow)
      /\ Head(sends) \in Event
      /\ ToSet(sends) = {Head(sends)} \cup ToSet(sends')
      /\ \A x \in ToSet(sends') : <<Head(sends), x>> \in MayFollow
  BY <1>1, TailFacts
<1>3. ToSet(sends') \subseteq Event
  BY <1>2, SetOfSeq
<1>4. QED
  BY <1>2, <1>3 DEF MayFollow

\* The oldest of some cards is one of them.
LEMMA OldestFacts ==
  ASSUME CardTypes, NEW S, S # {}, S \subseteq ToSet(cards)
  PROVE  cards[Live!Oldest(S)] \in S /\ Live!Oldest(S) \in DOMAIN cards
<1> DEFINE I == {i \in 1..Len(cards) : cards[i] \in S}
<1>1. Len(cards) \in Nat /\ DOMAIN cards = 1..Len(cards)
  BY SetOfSeq DEF CardTypes
<1>2. I # {} /\ I \in SUBSET Nat
  BY <1>1 DEF ToSet
<1>3. Live!Oldest(S) = CHOOSE x \in I : \A y \in I : x <= y
  BY <1>2 DEF Live!Oldest, Live!SelectInSeq, Live!Min
<1>4. Live!Oldest(S) \in I
  <2> HIDE DEF I
  <2>1. \E x \in I : \A y \in I : x <= y
    BY <1>2, LeastMember
  <2>2. QED
    BY <1>3, <2>1
<1>5. QED
  BY <1>1, <1>4

\* Some cards are removed.
LEMMA RemovedFacts ==
  ASSUME CardTypes, ListsHold, NEW S, S \subseteq ToSet(cards), Live!Removed(S)
  PROVE  /\ cards' \in Seq(Send) /\ finished' \in Seq(Send)
         /\ Len(finished') <= Remember
         /\ ToSet(cards') = ToSet(cards) \ S
         /\ ToSet(finished') \subseteq ToSet(finished) \cup S
         /\ ToSet(finished) \cup S \subseteq ToSet(finished') \cup forgotten'
         /\ forgotten \subseteq forgotten' /\ forgotten' \subseteq Send
         /\ IsInjective(cards') /\ IsInjective(finished')
         /\ doneFor' = [s \in Send |-> IF s \in S THEN Live!Waiting
                                       ELSE doneFor[s]]
<1> DEFINE gone == Chosen(cards, S)
           all == finished \o gone
           m == Len(all) - Remember + 1
<1>1. cards \in Seq(Send) /\ finished \in Seq(Send)
        /\ ToSet(cards) \subseteq Send
  BY SetOfSeq DEF CardTypes
<1>2. /\ cards' = Chosen(cards, Send \ S)
      /\ finished' = IF Len(all) > Remember THEN SubSeq(all, m, Len(all))
                     ELSE all
      /\ forgotten' = forgotten \cup (ToSet(all) \ ToSet(finished'))
  <2>1. /\ Live!Chosen(cards, Send \ S) = Chosen(cards, Send \ S)
        /\ Live!Chosen(cards, S) = gone
        /\ Live!ToSet(all) = ToSet(all)
        /\ Live!ToSet(finished') = ToSet(finished')
    BY DEF Live!Chosen, Chosen, Live!ToSet, ToSet
  <2>2. /\ cards' = Live!Chosen(cards, Send \ S)
        /\ LET a == finished \o Live!Chosen(cards, S)
           IN  /\ finished' = IF Len(a) > Remember
                              THEN SubSeq(a, Len(a) - Remember + 1, Len(a))
                              ELSE a
               /\ forgotten' = forgotten \cup
                                 (Live!ToSet(a) \ Live!ToSet(finished'))
    BY DEF Live!Removed
  <2>3. QED
    BY <2>1, <2>2
<1>3. cards' \in Seq(Send) /\ ToSet(cards') = ToSet(cards) \ S
        /\ IsInjective(cards')
  <2>1. /\ Chosen(cards, Send \ S) \in Seq(Send)
        /\ ToSet(Chosen(cards, Send \ S)) = ToSet(cards) \cap (Send \ S)
        /\ IsInjective(Chosen(cards, Send \ S))
    BY <1>1, ChosenSet DEF ListsHold
  <2>2. QED
    BY <1>1, <1>2, <2>1
<1>4. gone \in Seq(Send) /\ ToSet(gone) = S /\ IsInjective(gone)
  <2>1. /\ gone \in Seq(Send) /\ ToSet(gone) = ToSet(cards) \cap S
        /\ IsInjective(gone)
    BY <1>1, ChosenSet DEF ListsHold
  <2>2. QED
    BY <2>1
<1> HIDE DEF gone
<1>5. /\ all \in Seq(Send) /\ ToSet(all) = ToSet(finished) \cup S
      /\ IsInjective(all)
  <2>1. ToSet(finished) \cap ToSet(gone) = {}
    BY <1>4 DEF ListsHold
  <2>2. QED
    BY <1>1, <1>4, <2>1, ConcatSet DEF ListsHold
<1> HIDE DEF all
<1>6. Len(all) \in Nat /\ Remember \in Nat \ {0}
        /\ ToSet(all) = {all[i] : i \in 1..Len(all)}
  BY <1>5, SetOfSeq, CardConstants DEF Part
<1> DEFINE Right == /\ finished' \in Seq(Send) /\ Len(finished') <= Remember
                    /\ ToSet(finished') \subseteq ToSet(finished) \cup S
                    /\ IsInjective(finished')
<1>7. ASSUME Len(all) > Remember PROVE Right
  <2>1. m \in 1..Len(all) /\ Len(all) - m + 1 = Remember
    BY <1>6, <1>7
  <2>2. /\ SubSeq(all, m, Len(all)) \in Seq(Send)
        /\ Len(SubSeq(all, m, Len(all))) = Len(all) - m + 1
        /\ ToSet(SubSeq(all, m, Len(all))) = {all[i] : i \in m..Len(all)}
        /\ IsInjective(SubSeq(all, m, Len(all)))
    <3> HIDE DEF m
    <3>1. QED
      BY <1>5, <2>1, SuffixFacts
  <2>3. {all[i] : i \in m..Len(all)} \subseteq ToSet(all)
    BY <1>6, <2>1
  <2> HIDE DEF m
  <2>4. finished' = SubSeq(all, m, Len(all))
    BY <1>2, <1>7
  <2>5. QED
    BY <1>5, <2>1, <2>2, <2>3, <2>4
<1>8. ASSUME ~(Len(all) > Remember) PROVE Right
  <2>1. finished' = all /\ Len(all) <= Remember
    BY <1>2, <1>6, <1>8
  <2>2. QED
    BY <1>5, <2>1
<1>9. doneFor' = [s \in Send |-> IF s \in S THEN Live!Waiting ELSE doneFor[s]]
  BY DEF Live!Removed
<1>10. ToSet(finished) \cup S \subseteq ToSet(finished') \cup forgotten'
         /\ forgotten \subseteq forgotten' /\ forgotten' \subseteq Send
  <2>1. ToSet(all) \subseteq Send
    BY <1>5, SetOfSeq
  <2>2. QED
    BY <1>2, <1>5, <2>1 DEF CardTypes
<1>11. QED
  BY <1>3, <1>7, <1>8, <1>9, <1>10

\* An update is taken.
LEMMA UpdateKeeps ==
  ASSUME CardsInv, Live!TakeUpdate PROVE CardsInv'
<1> USE DEF CardsInv
<1> DEFINE v == Head(sends)
           s == v.send
<1>1. /\ sends # <<>> /\ sends' = Tail(sends) /\ v.kind # "entry"
      /\ UNCHANGED <<chatOf, pathOf, stage, open, opens, filed, entered,
                     forgotten>>
  BY DEF Live!TakeUpdate, Live!history
<1>2. /\ sends' \in Seq(Event) /\ Follows(sends', MayFollow)
      /\ v \in ToSet(sends) /\ v \in Event
      /\ ToSet(sends)' \subseteq ToSet(sends) /\ ToSet(sends)' \subseteq Event
      /\ \A w \in ToSet(sends)' : w.send = s => v.kind # "done"
  BY <1>1, TakenFacts
<1>3. s \in Send /\ v.kind \in {"update", "entry", "done"}
  BY <1>2, Events
<1>4. stage[s] # "none" /\ (v.kind = "done" => stage[s] = "done")
  BY <1>2 DEF EventsHold
<1>5. CASE Live!IsLate(s)
  <2>1. UNCHANGED <<cards, doneFor, finished, views>>
    BY <1>5 DEF Live!TakeUpdate, Live!liveVars
  <2>2. CardTypes'
    BY <1>1, <1>2, <2>1 DEF CardTypes
  <2>3. EventsHold'
    BY <1>1, <1>2, <2>1 DEF EventsHold, Live!Waiting
  <2>4. StagesHold' /\ ListsHold'
    BY <1>1, <2>1 DEF StagesHold, ListsHold, ToSet, Live!Waiting
  <2>5. Live!ViewsAreCards'
    BY <1>1, <2>1 DEF Live!ViewsAreCards, Live!CardsOf, Live!ToSet
  <2>6. QED
    BY <2>2, <2>3, <2>4, <2>5
<1>6. CASE ~Live!IsLate(s)
  <2>1. cards \in Seq(Send) /\ finished \in Seq(Send)
          /\ ToSet(cards) \subseteq Send
    BY SetOfSeq DEF CardTypes
  <2>2. s \notin ToSet(finished)
    BY <1>6, <2>1, SetOfSeq, SameOperators DEF Live!IsLate
  <2>3. /\ finished' = finished
        /\ cards' = IF s \in ToSet(cards) THEN cards ELSE Append(cards, s)
        /\ doneFor' = IF v.kind = "done" /\ doneFor[s] = Live!Waiting
                      THEN [doneFor EXCEPT ![s] = 0] ELSE doneFor
        /\ views' = IF chatOf[s] = open /\ s \notin ToSet(cards)
                    THEN views \cup {s} ELSE views
    <3>1. Live!Contains(cards, s) <=> s \in ToSet(cards)
      BY <2>1, SetOfSeq, SameOperators
    <3>2. QED
      BY <1>6, <3>1 DEF Live!TakeUpdate, Live!Applied
  <2>4. /\ cards' \in Seq(Send) /\ ToSet(cards)' = ToSet(cards) \cup {s}
        /\ IsInjective(cards')
    <3>1. /\ Append(cards, s) \in Seq(Send)
          /\ ToSet(Append(cards, s)) = ToSet(cards) \cup {s}
          /\ s \notin ToSet(cards) => IsInjective(Append(cards, s))
      <4>1. /\ Append(cards, s) \in Seq(Send)
            /\ ToSet(Append(cards, s)) = ToSet(cards) \cup {s}
            /\ IsInjective(cards) /\ s \notin ToSet(cards) =>
                 IsInjective(Append(cards, s))
        <5> HIDE DEF s
        <5>1. QED
          BY <1>3, <2>1, AppendSet
      <4>2. QED
        BY <4>1 DEF ListsHold
    <3>2. QED
      BY <2>1, <2>3, <3>1 DEF ListsHold
  <2>5. /\ \A t \in Send : t # s => doneFor'[t] = doneFor[t]
        /\ doneFor' \in [Send -> 0..Live!Waiting]
        /\ v.kind # "done" => doneFor' = doneFor
    <3>1. 0 \in 0..Live!Waiting
      BY CardConstants
    <3>2. QED
      BY <1>3, <2>3, <3>1 DEF CardTypes
  <2> HIDE DEF s
  <2>6. CardTypes'
    <3>1. (0..Live!Waiting)' = 0..Live!Waiting
      BY DEF Live!Waiting
    <3>2. views' \subseteq Send
      BY <1>3, <2>3 DEF CardTypes
    <3>3. QED
      BY <1>1, <1>2, <2>3, <2>4, <2>5, <3>1, <3>2 DEF CardTypes
  <2>7. EventsHold'
    <3>1. ASSUME NEW w \in ToSet(sends)'
          PROVE  doneFor'[w.send] = Live!Waiting
      <4>1. w \in Event /\ w.send \in Send /\ doneFor[w.send] = Live!Waiting
        BY <1>2, Events DEF EventsHold
      <4>2. CASE w.send = s
        BY <1>2, <2>5, <4>1, <4>2
      <4>3. CASE w.send # s
        BY <2>5, <4>1, <4>3
      <4>4. QED
        BY <4>2, <4>3
    <3>2. QED
      BY <1>1, <1>2, <3>1 DEF EventsHold, Live!Waiting
  <2>8. StagesHold'
    <3>1. ToSet(finished)' = ToSet(finished)
      BY <2>3 DEF ToSet
    <3>2. \A t \in Send : doneFor'[t] # Live!Waiting => stage[t] = "done"
      BY <1>3, <1>4, <2>5 DEF StagesHold, s
    <3>3. QED
      BY <1>1, <1>4, <2>4, <3>1, <3>2 DEF StagesHold, Live!Waiting, s
  <2>9. ListsHold'
    <3>1. ToSet(finished)' = ToSet(finished) /\ IsInjective(finished')
      BY <2>3 DEF ToSet, ListsHold
    <3>2. QED
      BY <2>2, <2>4, <3>1 DEF ListsHold
  <2>10. Live!ViewsAreCards'
    <3>1. views' = {t \in ToSet(cards)' : chatOf[t] = open}
      BY <2>3, <2>4, Shown
    <3>2. ToSet(cards)' = Live!ToSet(cards)'
      BY DEF ToSet, Live!ToSet
    <3>3. QED
      BY <1>1, <3>1, <3>2 DEF Live!ViewsAreCards, Live!CardsOf
  <2>11. QED
    BY <2>6, <2>7, <2>8, <2>9, <2>10
<1>7. QED
  BY <1>5, <1>6

\* What a change of the chat does.
LEMMA OpenKeeps ==
  ASSUME CardsInv, NEW c \in Chat, Live!Open(c) PROVE CardsInv'
<1> USE DEF CardsInv
<1>1. /\ UNCHANGED <<chatOf, pathOf, stage, sends, cards, doneFor, finished,
                     filed, entered, forgotten>>
      /\ open' = c /\ opens' = opens + 1 /\ opens < MaxOpens
      /\ views' = {s \in ToSet(cards) : chatOf[s] = c}
  BY SameOperators DEF Live!Open, Live!goVars, Live!liveVars, Live!CardsOf,
     Live!history
<1>2. CardTypes'
  <2>1. opens' \in 0..MaxOpens
    BY <1>1, CardConstants DEF CardTypes
  <2>2. views' \subseteq Send
    BY <1>1, SetOfSeq DEF CardTypes
  <2>3. QED
    BY <1>1, <2>1, <2>2 DEF CardTypes, Live!Waiting
<1>3. EventsHold' /\ StagesHold' /\ ListsHold'
  BY <1>1 DEF EventsHold, StagesHold, ListsHold, ToSet, Live!Waiting
<1>4. Live!ViewsAreCards'
  BY <1>1 DEF Live!ViewsAreCards, Live!CardsOf, Live!ToSet, ToSet
<1>5. QED
  BY <1>2, <1>3, <1>4

\* Cards are removed and go from the screen.
LEMMA RemoveKeeps ==
  ASSUME CardsInv, NEW S, S \subseteq ToSet(cards), Live!Removed(S),
         views' = views \ S, UNCHANGED <<chatOf, pathOf, stage, open, opens>>
  PROVE  /\ StagesHold /\ UNCHANGED <<filed, entered>> => StagesHold'
         /\ ListsHold' /\ Live!ViewsAreCards'
         /\ cards' \in Seq(Send) /\ finished' \in Seq(Send)
         /\ Len(finished') <= Remember
         /\ doneFor' \in [Send -> 0..Live!Waiting]
         /\ \A s \in Send : doneFor'[s] \in {doneFor[s], Live!Waiting}
         /\ ToSet(cards)' = ToSet(cards) \ S
         /\ ToSet(finished)' \subseteq ToSet(finished) \cup S
         /\ forgotten' \subseteq Send
<1> USE DEF CardsInv
<1>1. /\ cards' \in Seq(Send) /\ finished' \in Seq(Send)
      /\ Len(finished') <= Remember
      /\ ToSet(cards') = ToSet(cards) \ S
      /\ ToSet(finished') \subseteq ToSet(finished) \cup S
      /\ forgotten' \subseteq Send
      /\ IsInjective(cards') /\ IsInjective(finished')
      /\ doneFor' = [s \in Send |-> IF s \in S THEN Live!Waiting
                                    ELSE doneFor[s]]
  BY RemovedFacts
<1>2. ToSet(cards)' = ToSet(cards') /\ ToSet(finished)' = ToSet(finished')
  BY DEF ToSet
<1>3. /\ doneFor' \in [Send -> 0..Live!Waiting]
      /\ \A s \in Send : doneFor'[s] \in {doneFor[s], Live!Waiting}
  BY <1>1, CardConstants DEF CardTypes
<1>4. ASSUME UNCHANGED <<filed, entered>> PROVE StagesHold'
  BY <1>1, <1>2, <1>3, <1>4 DEF StagesHold, Live!Waiting
<1>5. ListsHold'
  BY <1>1, <1>2 DEF ListsHold
<1>6. Live!ViewsAreCards'
  <2>1. views' = {s \in ToSet(cards)' : chatOf[s] = open}
    BY <1>1, <1>2, Shown
  <2>2. ToSet(cards)' = Live!ToSet(cards)'
    BY DEF ToSet, Live!ToSet
  <2>3. QED
    BY <2>1, <2>2 DEF Live!ViewsAreCards, Live!CardsOf
<1>7. QED
  BY <1>1, <1>2, <1>3, <1>4, <1>5, <1>6

\* The clock of the page.
LEMMA TickKeeps ==
  ASSUME CardsInv, Live!Tick PROVE CardsInv'
<1> USE DEF CardsInv
<1> DEFINE old == {s \in ToSet(cards) : doneFor[s] \in 0..Hold}
           S == {s \in old : doneFor[s] = Hold}
<1>1. /\ UNCHANGED <<chatOf, pathOf, stage, sends, open, opens, filed,
                     entered>>
      /\ views' = views \ S
      /\ IF S # {} THEN Live!Removed(S)
         ELSE /\ doneFor' = [s \in Send |-> IF s \in old THEN doneFor[s] + 1
                                            ELSE doneFor[s]]
              /\ UNCHANGED <<cards, finished, forgotten>>
  BY SameOperators DEF Live!Tick, Live!HasWaited, Live!goVars
<1>2. /\ cards' \in Seq(Send) /\ finished' \in Seq(Send)
      /\ Len(finished') <= Remember /\ forgotten' \subseteq Send
      /\ doneFor' \in [Send -> 0..Live!Waiting]
      /\ \A s \in Send : doneFor[s] = Live!Waiting =>
                           doneFor'[s] = Live!Waiting
      /\ ListsHold' /\ Live!ViewsAreCards' /\ StagesHold'
  <2>1. CASE S # {}
    <3>1. S \subseteq ToSet(cards) /\ Live!Removed(S)
      BY <1>1, <2>1
    <3> HIDE DEF S
    <3>2. QED
      BY <1>1, <3>1, RemoveKeeps
  <2>2. CASE S = {}
    <3>1. /\ doneFor' = [s \in Send |-> IF s \in old THEN doneFor[s] + 1
                                        ELSE doneFor[s]]
          /\ UNCHANGED <<cards, finished, views, forgotten>>
      BY <1>1, <2>2
    <3>2. ASSUME NEW s \in Send
          PROVE  /\ doneFor'[s] \in 0..Live!Waiting
                 /\ doneFor[s] = Live!Waiting => doneFor'[s] = Live!Waiting
                 /\ doneFor'[s] # Live!Waiting => doneFor[s] # Live!Waiting
      <4>1. doneFor[s] \in 0..Live!Waiting
        BY DEF CardTypes
      <4>2. CASE s \in old
        <5>1. doneFor'[s] = doneFor[s] + 1 /\ doneFor[s] \in 0..Hold
          BY <3>1, <4>2
        <5>2. QED
          BY <4>1, <5>1, CardConstants
      <4>3. CASE s \notin old
        BY <3>1, <4>1, <4>3
      <4>4. QED
        BY <4>2, <4>3
    <3>3. doneFor' \in [Send -> 0..Live!Waiting]
      BY <3>1, <3>2
    <3>4. StagesHold' /\ ListsHold'
      BY <1>1, <3>1, <3>2 DEF StagesHold, ListsHold, ToSet, Live!Waiting
    <3>5. Live!ViewsAreCards'
      BY <1>1, <3>1 DEF Live!ViewsAreCards, Live!CardsOf, Live!ToSet
    <3>6. QED
      BY <3>1, <3>2, <3>3, <3>4, <3>5 DEF CardTypes
  <2>3. QED
    BY <2>1, <2>2
<1>3. CardTypes'
  <2>1. views' \subseteq Send
    BY <1>1 DEF CardTypes
  <2>2. QED
    BY <1>1, <1>2, <2>1 DEF CardTypes, Live!Waiting
<1>4. EventsHold'
  <2>1. ASSUME NEW w \in ToSet(sends)'
        PROVE  w \in ToSet(sends) /\ doneFor'[w.send] = Live!Waiting
    <3>1. w \in ToSet(sends) /\ w.send \in Send
      BY <1>1, SetOfSeq, Events DEF CardTypes, ToSet
    <3>2. QED
      BY <1>2, <3>1 DEF EventsHold
  <2>2. QED
    BY <1>1, <2>1 DEF EventsHold, Live!Waiting
<1>5. QED
  BY <1>2, <1>3, <1>4


\* The entry of a send is taken.
LEMMA EntryKeeps ==
  ASSUME CardsInv, Live!TakeEntry PROVE CardsInv'
<1> USE DEF CardsInv
<1> DEFINE v == Head(sends)
           s == v.send
           S == Live!Matches(s, v.chat)
           c == cards[Live!Oldest(S)]
<1>1. /\ sends # <<>> /\ sends' = Tail(sends) /\ v.kind = "entry"
      /\ entered' = entered \cup {s}
      /\ UNCHANGED <<chatOf, pathOf, stage, open, opens, filed>>
      /\ IF S = {} THEN UNCHANGED <<cards, doneFor, finished, views,
           forgotten>>
         ELSE Live!Removed({c}) /\ views' = views \ {c}
  BY DEF Live!TakeEntry, Live!liveVars
<1>2. /\ sends' \in Seq(Event) /\ Follows(sends', MayFollow)
      /\ v \in ToSet(sends) /\ v \in Event
      /\ ToSet(sends)' \subseteq ToSet(sends) /\ ToSet(sends)' \subseteq Event
      /\ \A w \in ToSet(sends)' : w.send = s => w.kind = "done"
  BY <1>1, TakenFacts
<1>3. s \in Send /\ stage[s] \in {"recorded", "done"}
  BY <1>1, <1>2, Events DEF EventsHold
<1>4. S # {} => {c} \subseteq ToSet(cards)
  <2>1. S \subseteq ToSet(cards)
    BY SameOperators DEF Live!Matches
  <2> HIDE DEF S
  <2>2. QED
    BY <2>1, OldestFacts
<1>5. /\ cards' \in Seq(Send) /\ finished' \in Seq(Send)
      /\ Len(finished') <= Remember /\ forgotten' \subseteq Send
      /\ doneFor' \in [Send -> 0..Live!Waiting]
      /\ \A t \in Send : doneFor'[t] \in {doneFor[t], Live!Waiting}
      /\ ListsHold' /\ Live!ViewsAreCards'
      /\ ToSet(cards)' \subseteq ToSet(cards)
      /\ ToSet(finished)' \subseteq ToSet(finished) \cup ToSet(cards)
      /\ views' \subseteq views
  <2>1. CASE S = {}
    <3>1. UNCHANGED <<cards, doneFor, finished, views, chatOf, open,
                      forgotten>>
      BY <1>1, <2>1
    <3>2. ListsHold' /\ Live!ViewsAreCards'
      BY <3>1 DEF ListsHold, ToSet, Live!ViewsAreCards, Live!CardsOf,
         Live!ToSet
    <3>3. QED
      BY <3>1, <3>2 DEF CardTypes, ToSet
  <2>2. CASE S # {}
    <3>1. {c} \subseteq ToSet(cards) /\ Live!Removed({c})
            /\ views' = views \ {c}
      BY <1>1, <1>4, <2>2
    <3> HIDE DEF c
    <3>2. QED
      BY <1>1, <3>1, RemoveKeeps
  <2>3. QED
    BY <2>1, <2>2
<1> HIDE DEF s, S, c
<1>6. CardTypes'
  BY <1>1, <1>2, <1>3, <1>5 DEF CardTypes, Live!Waiting
<1>7. EventsHold'
  <2>1. ASSUME NEW w \in ToSet(sends)'
        PROVE  /\ doneFor'[w.send] = Live!Waiting
               /\ w.kind # "done" => w.send \notin entered'
    <3>1. w \in ToSet(sends) /\ w.send \in Send
      BY <1>2, Events
    <3>2. QED
      BY <1>1, <1>2, <1>5, <3>1 DEF EventsHold
  <2>2. QED
    BY <1>1, <1>2, <2>1 DEF EventsHold, Live!Waiting
<1>8. StagesHold'
  BY <1>1, <1>3, <1>5 DEF StagesHold, Live!Waiting
<1>9. QED
  BY <1>5, <1>6, <1>7, <1>8

\* Every step keeps it.
LEMMA CardsStep ==
  ASSUME CardsInv, [Live!Next]_cardVars PROVE CardsInv'
<1>1. ASSUME NEW s \in Send, NEW c \in Chat, NEW p \in Path,
             Live!Start(s, c, p)
      PROVE  CardsInv'
  BY <1>1, StartKeeps
<1>2. ASSUME NEW s \in Send, Live!Progress(s) PROVE CardsInv'
  BY <1>2, ProgressKeeps
<1>3. ASSUME NEW s \in Send, NEW c \in Chat, Live!Record(s, c)
      PROVE  CardsInv'
  BY <1>3, RecordKeeps
<1>4. ASSUME NEW s \in Send, Live!Finish(s) PROVE CardsInv'
  BY <1>4, FinishKeeps
<1>5. ASSUME Live!Take PROVE CardsInv'
  BY <1>5, UpdateKeeps, EntryKeeps DEF Live!Take
<1>6. ASSUME Live!Tick PROVE CardsInv'
  BY <1>6, TickKeeps
<1>7. ASSUME NEW c \in Chat, Live!Open(c) PROVE CardsInv'
  BY <1>7, OpenKeeps
<1>8. ASSUME UNCHANGED cardVars PROVE CardsInv'
  <2>1. UNCHANGED <<chatOf, pathOf, stage, sends, cards, doneFor, finished,
                    open, views, opens, filed, entered, forgotten>>
    BY <1>8 DEF cardVars
  <2>2. CardTypes' /\ EventsHold'
    BY <2>1 DEF CardsInv, CardTypes, EventsHold, ToSet, Live!Waiting
  <2>3. StagesHold' /\ ListsHold'
    BY <2>1 DEF CardsInv, StagesHold, ListsHold, ToSet, Live!Waiting
  <2>4. Live!ViewsAreCards'
    BY <2>1 DEF CardsInv, Live!ViewsAreCards, Live!CardsOf, Live!ToSet
  <2>5. QED
    BY <2>2, <2>3, <2>4 DEF CardsInv
<1>9. QED
  BY <1>1, <1>2, <1>3, <1>4, <1>5, <1>6, <1>7, <1>8 DEF Live!Next


----------------------------------------------------------------------------
(* The cards: each send has its own one.                                    *)

\* An event of that kind is on its way.
Sent(kind, s) == \E v \in ToSet(sends) : v.kind = kind /\ v.send = s

\* From its first update to its entry the send has its card, unless the update
\* is still to come, and was not removed.  After the entry it has none, and the
\* page remembers it or has forgotten it.
Held(s) ==
  /\ stage[s] = "runs" \/ Sent("entry", s) =>
       /\ Sent("update", s) \/ s \in ToSet(cards)
       /\ s \notin ToSet(finished)
  /\ s \in entered \ forgotten =>
       s \notin ToSet(cards) /\ s \in ToSet(finished)

\* So it is for a send that is apart from the others of its path.
AllHeld ==
  \A s \in Send : stage[s] # "none" /\ Live!Apart(s) => Held(s)

\* An event on its way is in the list.
LEMMA OnItsWay ==
  ASSUME CardTypes, NEW s \in Send, NEW k \in {"update", "entry", "done"}
  PROVE  Live!OnTheWay(s, {k}) <=> Sent(k, s)
BY SetOfSeq DEF CardTypes, Live!OnTheWay, Sent, ToSet

\* What this says of the cards.
LEMMA HeldCards ==
  ASSUME CardsInv, AllHeld PROVE Live!OneCardPerSend
<1> SUFFICES ASSUME NEW s \in Send, Live!Apart(s)
             PROVE  /\ stage[s] = "runs" /\ ~Live!OnTheWay(s, {"update"}) =>
                         Live!Contains(cards, s)
                    /\ s \in entered \ forgotten => ~Live!Contains(cards, s)
  BY DEF Live!OneCardPerSend
<1>1. Live!Contains(cards, s) <=> s \in ToSet(cards)
  BY SameOperators, SetOfSeq DEF CardsInv, CardTypes
<1>2. Live!OnTheWay(s, {"update"}) <=> Sent("update", s)
  BY OnItsWay DEF CardsInv
<1>3. stage[s] = "runs" \/ s \in entered => stage[s] # "none"
  BY DEF CardsInv, StagesHold
<1>4. QED
  BY <1>1, <1>2, <1>3 DEF AllHeld, Held, CardsInv, ListsHold

\* What an event more changes of the events on their way.
LEMMA EmitSet ==
  ASSUME CardTypes, NEW s \in Send, NEW k \in {"update", "entry", "done"},
         NEW c \in Chat, Live!Emit(Live!Event(k, s, c))
  PROVE  \A l, t : Sent(l, t)' <=> Sent(l, t) \/ (l = k /\ t = s)
<1> DEFINE e == [kind |-> k, send |-> s, chat |-> c]
<1>1. sends \in Seq(Event) /\ e \in Event /\ sends' = Append(sends, e)
        /\ e.kind = k /\ e.send = s
  BY Events DEF CardTypes, Live!Emit, Live!Event
<1> HIDE DEF e
<1>2. ToSet(sends') = ToSet(sends) \cup {e}
  BY <1>1, AppendSet
<1>3. ToSet(sends)' = ToSet(sends')
  BY DEF ToSet
<1>4. QED
  BY <1>1, <1>2, <1>3 DEF Sent

\* A send that is apart was so before its chat or path was known, and before
\* an entry was filed.
LEMMA ApartBefore ==
  ASSUME NEW t \in Send, Live!Apart(t)',
         \A x \in Send : pathOf[x] = pathOf[t] =>
           /\ pathOf'[x] = pathOf'[t] /\ chatOf'[x] = chatOf[x]
           /\ filed[x] \in {None, filed'[x]}
  PROVE  Live!Apart(t)
BY DEF Live!Apart

\* A send that goes on.
LEMMA GoHeld ==
  ASSUME CardsInv, AllHeld, GoStays, UNCHANGED <<chatOf, pathOf>>,
         \A s \in Send :
           /\ filed[s] \in {None, filed'[s]}
           /\ stage'[s] # "none" => stage[s] # "none"
           /\ stage'[s] = "runs" => stage[s] = "runs"
           /\ Sent("update", s) => Sent("update", s)'
           /\ Sent("entry", s)' => Sent("entry", s) \/ stage[s] = "runs"
  PROVE  AllHeld'
<1>1. UNCHANGED <<cards, finished, entered, forgotten, pathOf, chatOf>>
  BY DEF GoStays
<1>2. ToSet(cards)' = ToSet(cards) /\ ToSet(finished)' = ToSet(finished)
  BY <1>1 DEF ToSet
<1>3. \A s \in Send : Live!Apart(s)' => Live!Apart(s)
  BY <1>1, ApartBefore
<1>4. QED
  BY <1>1, <1>2, <1>3 DEF AllHeld, Held

\* Of Go's steps.
LEMMA GoStepHeld ==
  ASSUME CardsInv, AllHeld, NEW s \in Send, NEW c \in Chat,
         Live!Progress(s) \/ Live!Record(s, c) \/ Live!Finish(s)
  PROVE  AllHeld'
<1> USE DEF CardsInv
<1>1. /\ UNCHANGED <<chatOf, pathOf>> /\ GoStays
      /\ \/ /\ stage[s] = "runs" /\ UNCHANGED <<stage, filed>>
            /\ Live!Emit(Live!Event("update", s, chatOf[s]))
         \/ /\ stage[s] = "runs" /\ stage' = [stage EXCEPT ![s] = "recorded"]
            /\ Live!Emit(Live!Event("entry", s, c))
            /\ filed' = [filed EXCEPT ![s] = c]
         \/ /\ stage[s] = "runs" /\ stage' = [stage EXCEPT ![s] = "recorded"]
            /\ UNCHANGED <<sends, filed>>
         \/ /\ stage[s] = "recorded" /\ stage' = [stage EXCEPT ![s] = "done"]
            /\ Live!Emit(Live!Event("done", s, chatOf[s])) /\ UNCHANGED filed
  BY DEF Live!Progress, Live!Record, Live!Finish, Live!Emit, Live!liveVars,
     Live!viewVars, Live!history, GoStays
<1>2. \A t \in Send :
        /\ stage'[t] # "none" => stage[t] # "none"
        /\ stage'[t] = "runs" => stage[t] = "runs"
  BY <1>1 DEF CardTypes
<1>3. chatOf[s] \in Chat
  BY <1>1 DEF StagesHold
<1>4. \A t \in Send :
        /\ Sent("update", t) => Sent("update", t)'
        /\ Sent("entry", t)' => Sent("entry", t) \/ stage[t] = "runs"
  <2>1. CASE UNCHANGED sends
    BY <2>1 DEF Sent, ToSet
  <2>2. CASE ~UNCHANGED sends
    <3>1. \/ Live!Emit(Live!Event("update", s, chatOf[s]))
          \/ Live!Emit(Live!Event("done", s, chatOf[s]))
          \/ Live!Emit(Live!Event("entry", s, c)) /\ stage[s] = "runs"
      BY <1>1, <2>2
    <3>2. \/ \A l, t : Sent(l, t)' <=> Sent(l, t) \/ (l = "update" /\ t = s)
          \/ \A l, t : Sent(l, t)' <=> Sent(l, t) \/ (l = "done" /\ t = s)
          \/ /\ \A l, t : Sent(l, t)' <=> Sent(l, t) \/ (l = "entry" /\ t = s)
             /\ stage[s] = "runs"
      BY <1>3, <3>1, EmitSet
    <3>3. QED
      BY <3>2
  <2>3. QED
    BY <2>1, <2>2
<1>5. \A t \in Send : filed[t] \in {None, filed'[t]}
  <2>1. CASE UNCHANGED filed
    BY <2>1
  <2>2. CASE ~UNCHANGED filed
    <3>1. filed' = [filed EXCEPT ![s] = c] /\ filed[s] = None
      BY <1>1, <2>2 DEF StagesHold
    <3>2. QED
      BY <3>1 DEF CardTypes
  <2>3. QED
    BY <2>1, <2>2
<1>6. QED
  BY <1>1, <1>2, <1>4, <1>5, GoHeld

\* A send that begins.
LEMMA StartHeld ==
  ASSUME CardsInv, AllHeld, NEW s \in Send, NEW c \in Chat, NEW p \in Path,
         Live!Start(s, c, p)
  PROVE  AllHeld'
<1> USE DEF CardsInv
<1>1. /\ stage[s] = "none" /\ stage' = [stage EXCEPT ![s] = "runs"]
      /\ chatOf' = [chatOf EXCEPT ![s] = c]
      /\ pathOf' = [pathOf EXCEPT ![s] = p]
      /\ UNCHANGED <<cards, finished, filed, entered, forgotten>>
      /\ Live!Emit(Live!Event("update", s, c))
  BY DEF Live!Start, Live!Emit, Live!liveVars, Live!viewVars
<1>2. \A l, t : Sent(l, t)' <=> Sent(l, t) \/ (l = "update" /\ t = s)
  BY <1>1, EmitSet
<1>3. ToSet(cards)' = ToSet(cards) /\ ToSet(finished)' = ToSet(finished)
  BY <1>1 DEF ToSet
<1>4. ASSUME NEW t \in Send, t # s, stage'[t] # "none",
             Live!Apart(t)'
      PROVE  Held(t)'
  <2>1. stage'[t] = stage[t] /\ pathOf'[t] = pathOf[t] /\ stage[t] # "none"
    BY <1>1, <1>4 DEF CardTypes
  <2>2. pathOf[t] # pathOf[s]
    BY <1>1, <2>1, CardConstants DEF StagesHold
  <2>3. ASSUME NEW x \in Send, pathOf[x] = pathOf[t]
        PROVE  pathOf'[x] = pathOf[x] /\ chatOf'[x] = chatOf[x]
    BY <1>1, <2>2, <2>3 DEF CardTypes
  <2>4. Live!Apart(t)
    BY <1>1, <1>4, <2>1, <2>3, ApartBefore
  <2>5. Held(t)
    BY <2>1, <2>4 DEF AllHeld
  <2>6. QED
    BY <1>1, <1>2, <1>3, <2>1, <2>5 DEF Held
<1>5. Held(s)'
  <2>1. Sent("update", s)'
    BY <1>2
  <2>2. s \notin ToSet(finished) /\ s \notin entered
    BY <1>1 DEF StagesHold
  <2>3. QED
    BY <1>1, <1>3, <2>1, <2>2 DEF Held
<1>6. QED
  BY <1>4, <1>5 DEF AllHeld

\* Of an update that is taken.
LEMMA UpdateHeld ==
  ASSUME CardsInv, AllHeld, Live!TakeUpdate PROVE AllHeld'
<1> USE DEF CardsInv
<1> DEFINE v == Head(sends)
           s == v.send
<1>1. /\ sends # <<>> /\ sends' = Tail(sends) /\ v.kind # "entry"
      /\ UNCHANGED <<chatOf, pathOf, stage, filed, entered, forgotten,
                     finished>>
      /\ Live!IsLate(s) \/ Live!Applied(s, v.kind = "done")
      /\ Live!IsLate(s) => UNCHANGED cards
  BY DEF Live!TakeUpdate, Live!liveVars, Live!history
<1>2. /\ v \in Event /\ ToSet(sends)' \subseteq ToSet(sends)
      /\ ToSet(sends) = {v} \cup ToSet(sends)'
  <2>1. ToSet(sends) = {v} \cup ToSet(Tail(sends))
    BY <1>1, TailFacts DEF CardTypes
  <2>2. ToSet(sends)' = ToSet(Tail(sends))
    BY <1>1 DEF ToSet
  <2>3. QED
    BY <1>1, <2>1, <2>2, TakenFacts
<1>3. s \in Send
  BY <1>2, Events
<1>4. cards \in Seq(Send) /\ finished \in Seq(Send)
  BY DEF CardTypes
<1>5. /\ Live!IsLate(s) <=> s \in ToSet(finished)
      /\ Live!Contains(cards, s) <=> s \in ToSet(cards)
  BY <1>4, SetOfSeq, SameOperators DEF Live!IsLate
<1>6. /\ ToSet(finished)' = ToSet(finished)
      /\ ToSet(cards) \subseteq ToSet(cards)'
      /\ s \in ToSet(finished) \/ s \in ToSet(cards)'
      /\ ToSet(cards)' \subseteq ToSet(cards) \cup {s}
      /\ s \in ToSet(finished) => ToSet(cards)' = ToSet(cards)
  <2>1. ToSet(finished)' = ToSet(finished)
    BY <1>1 DEF ToSet
  <2>2. CASE Live!IsLate(s)
    BY <1>1, <1>5, <2>1, <2>2 DEF ToSet
  <2>3. CASE ~Live!IsLate(s)
    <3>1. cards' = IF s \in ToSet(cards) THEN cards ELSE Append(cards, s)
      BY <1>1, <1>5, <2>3 DEF Live!Applied
    <3>2. ToSet(Append(cards, s)) = ToSet(cards) \cup {s}
      <4> HIDE DEF s
      <4>1. QED
        BY <1>3, <1>4, AppendSet
    <3>3. ToSet(cards') = ToSet(cards)'
      BY DEF ToSet
    <3>4. s \notin ToSet(finished)
      BY <1>5, <2>3
    <3> HIDE DEF s
    <3>5. QED
      BY <2>1, <3>1, <3>2, <3>3, <3>4
  <2>4. QED
    BY <2>2, <2>3
<1>7. ASSUME NEW t \in Send, stage'[t] # "none", Live!Apart(t)'
      PROVE  Held(t)'
  <2>1. Held(t) /\ stage'[t] = stage[t] /\ UNCHANGED <<entered, forgotten>>
    BY <1>1, <1>7, ApartBefore DEF AllHeld
  <2>2. Sent("entry", t)' => Sent("entry", t)
    BY <1>2 DEF Sent
  <2>3. Sent("update", t) => Sent("update", t)' \/ t = s
    BY <1>2 DEF Sent
  <2>4. QED
    BY <1>6, <2>1, <2>2, <2>3 DEF Held
<1>8. QED
  BY <1>7 DEF AllHeld

\* Of an entry that is taken: its card goes, and no other one of a send like t.
LEMMA EntryHeld ==
  ASSUME CardsInv, AllHeld, Live!TakeEntry
  PROVE  AllHeld'
<1> USE DEF CardsInv
<1> DEFINE v == Head(sends)
           s == v.send
           S == Live!Matches(s, v.chat)
           c == cards[Live!Oldest(S)]
<1>1. /\ sends # <<>> /\ sends' = Tail(sends) /\ v.kind = "entry"
      /\ entered' = entered \cup {s}
      /\ UNCHANGED <<chatOf, pathOf, stage, filed>>
      /\ IF S = {} THEN UNCHANGED <<cards, finished, forgotten>>
         ELSE Live!Removed({c})
  BY DEF Live!TakeEntry, Live!liveVars
<1>2. /\ v \in ToSet(sends) /\ v \in Event
      /\ ToSet(sends)' \subseteq ToSet(sends)
      /\ \A w \in ToSet(sends)' : w.send = s => w.kind = "done"
      /\ ToSet(sends) = {v} \cup ToSet(sends)'
  <2>1. ToSet(sends) = {v} \cup ToSet(Tail(sends))
    BY <1>1, TailFacts DEF CardTypes
  <2>2. ToSet(sends)' = ToSet(Tail(sends))
    BY <1>1 DEF ToSet
  <2>3. QED
    BY <1>1, <2>1, <2>2, TakenFacts
<1>3. s \in Send /\ v.chat \in Chat /\ Sent("entry", s) /\ stage[s] # "none"
        /\ filed[s] = v.chat
  BY <1>1, <1>2, Events DEF EventsHold, Sent
<1>4. S \subseteq {x \in ToSet(cards) : pathOf[x] = pathOf[s]}
  BY SameOperators DEF Live!Matches
<1>5. S # {} => c \in S /\ c \in ToSet(cards)
  <2>1. S \subseteq ToSet(cards)
    BY <1>4
  <2> HIDE DEF S
  <2>2. QED
    BY <2>1, OldestFacts
<1>6. ASSUME Live!Apart(s) PROVE S = {s} /\ s \notin ToSet(finished)
  <2>1. Held(s)
    BY <1>3, <1>6 DEF AllHeld
  <2>2. ~Sent("update", s)
    BY <1>1, <1>2 DEF Sent
  <2>3. s \in ToSet(cards) /\ s \notin ToSet(finished)
    BY <1>3, <2>1, <2>2 DEF Held
  <2>4. ToSet(cards) \subseteq Send
    BY SetOfSeq DEF CardTypes
  <2> DEFINE ofPath == {x \in ToSet(cards) : pathOf[x] = pathOf[s]}
             ofChat == {x \in ofPath : chatOf[x] = v.chat}
  <2>5. S = IF ofChat # {} THEN ofChat ELSE ofPath
    BY SameOperators DEF Live!Matches
  <2>6. CASE ofPath = {s}
    BY <2>3, <2>5, <2>6
  <2>7. CASE ofPath # {s}
    <3>1. PICK y \in ofPath : y # s
      BY <2>3, <2>7
    <3>2. filed[s] \in {None, chatOf[s]}
      BY <1>3, <1>6, <2>4, <3>1 DEF Live!Apart
    <3>3. chatOf[s] = v.chat
      BY <1>3, <3>2, CardConstants
    <3>4. \A x \in ofPath : chatOf[x] = chatOf[s] => x = s
      BY <1>3, <1>6, <2>4 DEF Live!Apart
    <3>5. QED
      BY <2>3, <2>5, <3>3, <3>4
  <2>8. QED
    BY <2>3, <2>6, <2>7
<1>7. /\ ToSet(cards)' = ToSet(cards) \ {x \in S : x = c}
      /\ ToSet(finished)' \subseteq ToSet(finished) \cup {x \in S : x = c}
      /\ ToSet(finished) \cup {x \in S : x = c}
           \subseteq ToSet(finished)' \cup forgotten'
      /\ forgotten \subseteq forgotten'
  <2>1. CASE S = {}
    BY <1>1, <2>1 DEF ToSet
  <2>2. CASE S # {}
    <3>1. {c} \subseteq ToSet(cards) /\ Live!Removed({c})
            /\ {x \in S : x = c} = {c}
      BY <1>1, <1>5, <2>2
    <3>2. /\ ToSet(cards') = ToSet(cards) \ {c}
          /\ ToSet(finished') \subseteq ToSet(finished) \cup {c}
          /\ ToSet(finished) \cup {c} \subseteq ToSet(finished')
               \cup forgotten'
          /\ forgotten \subseteq forgotten'
      <4> HIDE DEF c, S
      <4>1. QED
        BY <3>1, RemovedFacts
    <3>3. ToSet(cards') = ToSet(cards)' /\ ToSet(finished') = ToSet(finished)'
      BY DEF ToSet
    <3> HIDE DEF c, S
    <3>4. QED
      BY <3>1, <3>2, <3>3
  <2>3. QED
    BY <2>1, <2>2
<1> HIDE DEF S, c
<1>8. ASSUME NEW t \in Send, stage'[t] # "none", Live!Apart(t)'
      PROVE  Held(t)'
  <2>1. Held(t) /\ stage'[t] = stage[t] /\ Live!Apart(t)
    BY <1>1, <1>8, ApartBefore DEF AllHeld
  <2>2. CASE t = s
    <3>1. S = {s} /\ c = s
      BY <1>5, <1>6, <2>1, <2>2
    <3>2. s \notin ToSet(cards)' /\ s \in ToSet(finished)' \cup forgotten'
      BY <1>7, <3>1
    <3>3. ~Sent("entry", t)'
      BY <1>2, <2>2 DEF Sent
    <3>4. stage[s] # "runs"
      BY <1>1, <1>2 DEF EventsHold
    <3>5. QED
      BY <2>1, <2>2, <3>2, <3>3, <3>4 DEF Held
  <2>3. CASE t # s
    <3>1. S # {} => c # t
      <4> SUFFICES ASSUME S # {}, c = t PROVE FALSE
        OBVIOUS
      <4>1. pathOf[t] = pathOf[s]
        BY <1>4, <1>5
      <4>2. S = {s}
        BY <1>6, <2>1, <4>1 DEF Live!Apart
      <4>3. QED
        BY <1>5, <2>3, <4>2
    <3>2. /\ Sent("entry", t)' => Sent("entry", t)
          /\ Sent("update", t) => Sent("update", t)'
      BY <1>1, <1>2 DEF Sent
    <3>3. /\ t \in entered' \ forgotten' => t \in entered \ forgotten
          /\ t \in ToSet(finished) => t \in ToSet(finished)' \cup forgotten'
          /\ t \in ToSet(cards) <=> t \in ToSet(cards)'
          /\ t \in ToSet(finished)' => t \in ToSet(finished)
      BY <1>1, <1>7, <2>3, <3>1
    <3>4. QED
      BY <2>1, <3>2, <3>3 DEF Held
  <2>4. QED
    BY <2>2, <2>3
<1>9. QED
  BY <1>8 DEF AllHeld

\* Of the clock.
LEMMA TickHeld ==
  ASSUME CardsInv, AllHeld, Live!Tick
  PROVE  AllHeld'
<1> USE DEF CardsInv
<1> DEFINE old == {s \in ToSet(cards) : doneFor[s] \in 0..Hold}
           S == {s \in old : doneFor[s] = Hold}
<1>1. /\ UNCHANGED <<chatOf, pathOf, stage, sends, filed, entered>>
      /\ IF S # {} THEN Live!Removed(S)
         ELSE UNCHANGED <<cards, finished, forgotten>>
  BY SameOperators DEF Live!Tick, Live!HasWaited, Live!goVars
<1>2. S \subseteq ToSet(cards) /\ \A s \in S : doneFor[s] # Live!Waiting
  BY CardConstants
<1> HIDE DEF S, old
<1>3. /\ ToSet(cards)' = ToSet(cards) \ S
      /\ ToSet(finished)' \subseteq ToSet(finished) \cup S
      /\ ToSet(finished) \cup S \subseteq ToSet(finished)' \cup forgotten'
      /\ forgotten \subseteq forgotten'
  <2>1. CASE S = {}
    BY <1>1, <2>1 DEF ToSet
  <2>2. CASE S # {}
    <3>1. /\ ToSet(cards') = ToSet(cards) \ S
          /\ ToSet(finished') \subseteq ToSet(finished) \cup S
          /\ ToSet(finished) \cup S \subseteq ToSet(finished') \cup forgotten'
          /\ forgotten \subseteq forgotten'
      BY <1>1, <1>2, <2>2, RemovedFacts
    <3>2. ToSet(cards') = ToSet(cards)' /\ ToSet(finished') = ToSet(finished)'
      BY DEF ToSet
    <3>3. QED
      BY <3>1, <3>2
  <2>3. QED
    BY <2>1, <2>2
<1>4. ASSUME NEW t \in Send, stage'[t] # "none", Live!Apart(t)'
      PROVE  Held(t)'
  <2>1. Held(t) /\ stage'[t] = stage[t]
    BY <1>1, <1>4, ApartBefore DEF AllHeld
  <2>2. /\ Sent("entry", t)' = Sent("entry", t)
        /\ Sent("update", t)' = Sent("update", t)
    BY <1>1 DEF Sent, ToSet
  <2>3. t \in S => stage[t] = "done" /\ ~Sent("entry", t)
    <3>1. Sent("entry", t) => doneFor[t] = Live!Waiting
      BY DEF Sent, EventsHold
    <3>2. QED
      BY <1>2, <3>1 DEF StagesHold
  <2>4. /\ t \in ToSet(cards)' <=> t \in ToSet(cards) /\ t \notin S
        /\ t \in ToSet(finished)' => t \in ToSet(finished) \/ t \in S
        /\ t \in ToSet(finished) => t \in ToSet(finished)' \cup forgotten'
    BY <1>3
  <2>5. QED
    BY <1>1, <1>3, <2>1, <2>2, <2>3, <2>4 DEF Held
<1>5. QED
  BY <1>4 DEF AllHeld

\* Every step keeps it.
LEMMA HeldStep ==
  ASSUME CardsInv, AllHeld, [Live!Next]_cardVars
  PROVE  AllHeld'
<1>1. ASSUME NEW s \in Send, NEW c \in Chat, NEW p \in Path,
             Live!Start(s, c, p)
      PROVE  AllHeld'
  BY <1>1, StartHeld
<1>2. ASSUME NEW s \in Send, NEW c \in Chat,
             Live!Progress(s) \/ Live!Record(s, c) \/ Live!Finish(s)
      PROVE  AllHeld'
  BY <1>2, GoStepHeld
<1>3. ASSUME NEW s \in Send, Live!Progress(s) \/ Live!Finish(s)
      PROVE  AllHeld'
  <2>1. Chat # {}
    BY <1>3 DEF CardsInv, StagesHold, Live!Progress, Live!Finish
  <2>2. QED
    BY <1>2, <1>3, <2>1
<1>4. ASSUME Live!Take PROVE AllHeld'
  BY <1>4, UpdateHeld, EntryHeld DEF Live!Take
<1>5. ASSUME Live!Tick PROVE AllHeld'
  BY <1>5, TickHeld
<1>6. ASSUME UNCHANGED <<chatOf, pathOf, stage, sends, cards, finished, filed,
             entered, forgotten>>
      PROVE  AllHeld'
  BY <1>6 DEF AllHeld, Held, Sent, ToSet, Live!Apart
<1>7. ASSUME NEW c \in Chat, Live!Open(c) PROVE AllHeld'
  BY <1>6, <1>7 DEF Live!Open, Live!goVars, Live!liveVars, Live!history
<1>8. ASSUME UNCHANGED cardVars PROVE AllHeld'
  BY <1>6, <1>8 DEF cardVars
<1>9. QED
  BY <1>1, <1>2, <1>3, <1>4, <1>5, <1>7, <1>8 DEF Live!Next

----------------------------------------------------------------------------
(* The cards in a behaviour of the page.                                    *)

\* A step of the page is one of the cards or leaves them alone.
LEMMA CardsNext ==
  [PageNext]_pageVars => [Live!Next]_cardVars
BY DEF PageNext, View, Cards, pageVars

\* The cards keep their invariant.
LEMMA CardsHoldAlways == PageSpec => []CardsInv
<1>1. PageInit => CardsInv
  BY CardsStart DEF PageInit
<1>2. CardsInv /\ [PageNext]_pageVars => CardsInv'
  BY CardsNext, CardsStep
<1>3. QED
  BY <1>1, <1>2, PTL DEF PageSpec

\* LiveTransfers: the variables keep their types, so no send has two cards and
\* no more than Remember removed IDs are kept.
THEOREM CardTypesHold == PageSpec => []Live!TypeOK
<1>1. CardsInv => Live!TypeOK
  <2> SUFFICES ASSUME CardsInv PROVE Live!TypeOK
    OBVIOUS
  <2>1. \A i \in DOMAIN sends :
          sends[i] \in [kind : {"update", "entry", "done"}, send : Send,
                        chat : Chat]
    <3>1. \A i \in DOMAIN sends : sends[i] \in Event
      BY SetOfSeq DEF CardsInv, CardTypes
    <3>2. QED
      BY <3>1 DEF Event
  <2>2. /\ Live!IsInjective(cards) /\ Live!ToSet(cards) \subseteq Send
        /\ Live!ToSet(finished) \subseteq Send
    BY SameOperators, SetOfSeq DEF CardsInv, CardTypes, ListsHold
  <2>3. QED
    BY <2>1, <2>2 DEF CardsInv, CardTypes, Live!TypeOK
<1>2. QED
  BY <1>1, CardsHoldAlways, PTL

\* The open chat shows exactly its own cards, after every event, expiry and
\* change of the chat, however few removed IDs are remembered.
THEOREM ViewsShowCards == PageSpec => []Live!ViewsAreCards
<1>1. CardsInv => Live!ViewsAreCards
  BY DEF CardsInv
<1>2. QED
  BY <1>1, CardsHoldAlways, PTL

\* A send has its card from its first update to its entry and none after it,
\* though the entry names only the path and may come for another chat than the
\* send was dropped on: as long as the file runs once, or once in each chat and
\* none of these was regrouped meanwhile, and until the page has forgotten it.
THEOREM CardsRight == PageSpec => []CardsAgree
<1>1. PageInit => AllHeld
  BY DEF PageInit, Live!Init, AllHeld
<1>2. CardsInv /\ AllHeld /\ [PageNext]_pageVars => AllHeld'
  BY CardsNext, HeldStep
<1>3. CardsInv /\ AllHeld => CardsAgree
  BY HeldCards DEF CardsAgree, CardsInv
<1>4. QED
  BY <1>1, <1>2, <1>3, CardsHoldAlways, PTL DEF PageSpec

----------------------------------------------------------------------------
(* The view: what holds in every state.                                     *)

\* Keys, entries, calls, and the two kinds of events.
KeyType == [chat : Chat, new : BOOLEAN]
CallType == [what : {"open", "older", "sync"}, chat : Chat, token : Nat,
             before : Nat, cut : Nat \cup {-1}, list : Seq(EntryType)]
MessageType == [kind : {"message"}, key : KeyType, n : Nat, rows : {{}}]
RowsType == [kind : {"chats"}, key : {NoKey}, n : {0}, rows : SUBSET Chat]
EventType == MessageType \cup RowsType

\* The pairs of events of which one may follow on the other: entries of a chat
\* come in order, its new key after the old one and with every list that has
\* it, and lists only get more new keys.
MayCome ==
  {p \in EventType \X EventType :
     LET v == p[1]
         w == p[2]
     IN  /\ v \in MessageType /\ w \in MessageType /\ v.key.chat = w.key.chat
              => v.n < w.n
         /\ v \in RowsType /\ w \in MessageType /\ w.key.chat \in v.rows
              => w.key.new
         /\ v \in RowsType /\ w \in RowsType => v.rows \subseteq w.rows}

\* The entries of a chat whose event the page has still to take.
Coming(c) ==
  {v.n : v \in {w \in ToSet(events) : w \in MessageType /\ w.key.chat = c}}
    \cup (IF adding = c THEN {log[c]} ELSE {})

\* The types of the variables.
ViewTypes ==
  /\ log \in [Chat -> Nat] /\ moved \subseteq Regrouping
  /\ mix \in [Chat -> Seq(EntryType)] /\ into \in [Chat -> Chat \cup {None}]
  /\ merged \in Nat /\ spoilt \in BOOLEAN
  /\ adding \in Chat \cup {None}
  /\ events \in Seq(EventType) /\ calls \subseteq CallType
  /\ key \in KeyType \cup {NoKey}
  /\ shown \in Seq(EntryType) /\ pending \in Seq(EntryType)
  /\ next \in (Nat \ {0}) \cup {NoPage}
  /\ loading \in BOOLEAN /\ older \in BOOLEAN /\ listDue \in BOOLEAN
  /\ syncing \in BOOLEAN /\ syncAgain \in BOOLEAN
  /\ token \in Nat /\ rows \subseteq moved
  /\ fails \in 0..MaxFails /\ floor \in Nat \ {0}
  /\ excused \subseteq EntryType

\* What is coming: the last entries of each chat, in order.
FlightHolds ==
  /\ Follows(events, MayCome)
  /\ \A v \in ToSet(events) :
       /\ v \in MessageType =>
            LET c == v.key.chat
            IN  /\ v.n \in (Older[c] + 1)..log[c]
                /\ adding = c => v.n < log[c]
                /\ v.key.new => c \in moved
                /\ c \in rows => v.key.new
       /\ v \in RowsType => rows \subseteq v.rows /\ v.rows \subseteq moved
  /\ \A c \in Chat :
       /\ Older[c] <= log[c] /\ (adding = c => Older[c] < log[c])
       /\ \A n \in Coming(c) : n..log[c] \subseteq Coming(c)

\* A call of the chat that is open now.
Current(q) == q.token = token

\* A call: what it has read is as long as it says, and is the entries of the
\* chat when nothing was merged; the view's flags say of a current one that it
\* is there.
CallHolds(q) ==
  /\ q.token <= token
  /\ q.list # <<>> => q.cut = Len(q.list)
  /\ ~Mixed(q.chat) => q.list = <<>> /\ q.cut <= log[q.chat]
  /\ q.what = "older" <=> q.before # 0
  /\ Current(q) =>
       /\ key # NoKey /\ q.chat = key.chat
       /\ q.what = "open" <=> loading
       /\ q.what = "older" => older /\ next # NoPage

\* No two of a kind are for the open chat, and no two refreshes for any.
Same(q, r) ==
  q.what = r.what /\ (q.what = "sync" \/ (Current(q) /\ Current(r)))
    => q = r

\* The flags of the view: nothing is shown while the first page loads, nothing
\* pends when it does not, and an empty view has no older page to load.
FlagsHold ==
  /\ loading => shown = <<>> /\ next = NoPage /\ key # NoKey
  /\ ~loading => pending = <<>>
  /\ key = NoKey => shown = <<>> /\ next = NoPage
  /\ next # NoPage => shown # <<>>

\* The calls and the flags.
CallsHold ==
  /\ \A q \in calls : CallHolds(q)
  /\ \A q, r \in calls : Same(q, r)
  /\ syncing <=> \E q \in calls : q.what = "sync"
  /\ FlagsHold

\* Entries by their numbers.
Before == {p \in EntryType \X EntryType : p[1].n < p[2].n}

\* The entries of the open chat that the list has.
Had(list) == {n \in Nat : Entry(key.chat, n) \in ToSet(list)}

\* The view: entries of the open chat in order, with everything that is coming
\* up to the last one, and a page without a gap at its top when there may be
\* older ones; what is pending is in order and before what is coming.
OrderHolds ==
  /\ Follows(shown, Before) /\ Follows(pending, Before)
  /\ \A e \in ToSet(shown) \cup ToSet(pending) :
       e.chat = key.chat /\ e.n \in 1..log[key.chat]
  /\ key # NoKey => \A m \in Coming(key.chat) :
       /\ m \in Had(shown) \/ \A e \in ToSet(shown) : e.n < m
       /\ \A e \in ToSet(pending) : e.n < m
  /\ next # NoPage =>
       shown[1].n..(shown[1].n + PageSize - 1) \subseteq Had(shown)

\* No merge and no burst met the open chat.
Sound == ~spoilt /\ (key # NoKey => ~Mixed(key.chat))

\* What is on its way to a view that is not spoilt is in reach of appendNew.
NearHolds ==
  ~spoilt => \A c \in Chat : \A n \in Coming(c) : log[c] - n < Window

\* A call was not overtaken by more entries than a page has: the first page
\* reaches back to what came while it was loading, and an older one overlaps
\* the view by a page at most.
Calm(q) ==
  /\ q.what = "open" => \A e \in ToSet(pending) : e.n >= PageOf(q).first
  /\ q.what = "older" => q.cut - q.before < shown[1].n + PageSize

----------------------------------------------------------------------------
(* The view: constants and records.                                         *)

\* The constants as the proofs use them.
LEMMA ViewConstants ==
  /\ None \notin Chat /\ Regrouping \subseteq Chat /\ Older \in [Chat -> Nat]
  /\ PageSize \in Nat \ {0} /\ Window \in Nat \ {0} /\ Window <= PageSize
  /\ MaxEntries \in Nat /\ MaxFails \in Nat
BY OlderType, RegroupingType, Sizes, ViewBounds

\* Keys and entries are what they are made of.
LEMMA KeyFacts ==
  /\ \A c \in Chat, b \in BOOLEAN : Key(c, b) \in KeyType
  /\ \A c, b : Key(c, b).chat = c /\ Key(c, b).new = b
  /\ \A k \in KeyType : k.chat \in Chat /\ k.new \in BOOLEAN /\ k # NoKey
  /\ \A k, l \in KeyType : k.chat = l.chat /\ k.new = l.new => k = l
  /\ NoKey.chat = None /\ NoKey.chat \notin Chat /\ ~NoKey.new
<1>1. \A k \in KeyType : k.chat \in Chat /\ k.new \in BOOLEAN
  BY DEF KeyType
<1>2. NoKey.chat = None /\ ~NoKey.new
  BY DEF NoKey, Key
<1>3. \A k \in KeyType : k # NoKey
  BY <1>1, <1>2, ViewConstants
<1>4. QED
  BY <1>1, <1>2, <1>3, ViewConstants DEF KeyType, Key

\* An entry is known by its chat and its number.
LEMMA EntryFacts ==
  /\ \A c \in Chat, n \in Nat : Entry(c, n) \in EntryType
  /\ \A c, n : Entry(c, n).chat = c /\ Entry(c, n).n = n
  /\ \A c, n, d, m : Entry(c, n) = Entry(d, m) => c = d /\ n = m
  /\ \A e \in EntryType : /\ e.chat \in Chat /\ e.n \in Nat
                          /\ e = Entry(e.chat, e.n)
<1>1. \A c, n : Entry(c, n).chat = c /\ Entry(c, n).n = n
  BY DEF Entry
<1>2. \A c, n, d, m : Entry(c, n) = Entry(d, m) => c = d /\ n = m
  <2>1. ASSUME NEW c, NEW n, NEW d, NEW m, Entry(c, n) = Entry(d, m)
        PROVE  c = d /\ n = m
    <3>1. Entry(c, n).chat = Entry(d, m).chat /\ Entry(c, n).n = Entry(d, m).n
      BY <2>1
    <3>2. QED
      BY <1>1, <3>1
  <2>2. QED
    BY <2>1
<1>3. QED
  BY <1>1, <1>2 DEF EntryType, Entry

\* The two kinds of events.
LEMMA EventFacts ==
  /\ \A v \in EventType : /\ v.kind = "message" <=> v \in MessageType
                          /\ v.kind = "chats" <=> v \in RowsType
                          /\ v.kind \in {"message", "chats"}
  /\ \A v \in MessageType : /\ v.key \in KeyType /\ v.key.chat \in Chat
                            /\ v.n \in Nat /\ v \notin RowsType
                            /\ v \in EventType
  /\ \A v \in RowsType : /\ v.rows \subseteq Chat /\ v \notin MessageType
                         /\ v \in EventType
  /\ \A c \in Chat, n \in Nat, b \in BOOLEAN :
       /\ Message(c, n, b) \in MessageType
       /\ Message(c, n, b).key.chat = c /\ Message(c, n, b).key.new = b
       /\ Message(c, n, b).n = n
  /\ \A r \in SUBSET Chat : Rows(r) \in RowsType /\ Rows(r).rows = r
<1>1. /\ \A v \in MessageType : /\ v.kind = "message" /\ v.key \in KeyType
                                /\ v.n \in Nat
      /\ \A v \in RowsType : v.kind = "chats" /\ v.rows \subseteq Chat
  BY DEF MessageType, RowsType
<1>2. \A v \in EventType : v \in MessageType \/ v \in RowsType
  BY DEF EventType
<1>3. \A v : v \in MessageType \/ v \in RowsType => v \in EventType
  BY DEF EventType
<1>4. ASSUME NEW c \in Chat, NEW n \in Nat, NEW b \in BOOLEAN
      PROVE  /\ Message(c, n, b) \in MessageType
             /\ Message(c, n, b).key.chat = c /\ Message(c, n, b).key.new = b
             /\ Message(c, n, b).n = n
  <2>1. Key(c, b) \in KeyType /\ Key(c, b).chat = c /\ Key(c, b).new = b
    BY KeyFacts
  <2>2. QED
    BY <2>1 DEF MessageType, Message
<1>5. \A r \in SUBSET Chat : Rows(r) \in RowsType /\ Rows(r).rows = r
  BY DEF RowsType, Rows
<1>6. QED
  BY <1>1, <1>2, <1>3, <1>4, <1>5, KeyFacts

\* An event may follow on another.
LEMMA MayComeFacts ==
  ASSUME NEW v \in EventType, NEW w \in EventType
  PROVE  <<v, w>> \in MayCome <=>
           /\ v \in MessageType /\ w \in MessageType /\ v.key.chat = w.key.chat
                => v.n < w.n
           /\ v \in RowsType /\ w \in MessageType /\ w.key.chat \in v.rows
                => w.key.new
           /\ v \in RowsType /\ w \in RowsType => v.rows \subseteq w.rows
BY DEF MayCome

\* What is coming for a chat.
LEMMA ComingFacts ==
  \A c, n : n \in Coming(c) <=>
    \/ \E v \in ToSet(events) :
         v \in MessageType /\ v.key.chat = c /\ v.n = n
    \/ adding = c /\ n = log[c]
BY DEF Coming

\* What is coming are the last entries of the chat.
LEMMA ComingRange ==
  ASSUME ViewTypes, FlightHolds, NEW c \in Chat, NEW n \in Coming(c)
  PROVE  /\ n \in (Older[c] + 1)..log[c] /\ n \in Nat \ {0} /\ log[c] \in Nat
         /\ Older[c] \in Nat
<1>1. log[c] \in Nat /\ Older[c] \in Nat
  BY ViewConstants DEF ViewTypes
<1>2. n \in (Older[c] + 1)..log[c]
  <2>1. CASE adding = c /\ n = log[c]
    BY <1>1, <2>1 DEF FlightHolds
  <2>2. CASE \E v \in ToSet(events) :
               v \in MessageType /\ v.key.chat = c /\ v.n = n
    BY <2>2 DEF FlightHolds
  <2>3. QED
    BY <2>1, <2>2, ComingFacts
<1>3. QED
  BY <1>1, <1>2

\* It holds when the page has loaded.
LEMMA ViewStart == Init => ViewTypes /\ FlightHolds /\ CallsHold
<1> SUFFICES ASSUME Init PROVE ViewTypes /\ FlightHolds /\ CallsHold
  OBVIOUS
<1>1. /\ \A T : <<>> \in Seq(T)
      /\ ToSet(<<>>) = {} /\ DOMAIN <<>> = {}
  <2>1. \A T : <<>> \in Seq(T)
    BY EmptySeq
  <2>2. DOMAIN <<>> = {}
    BY EmptySeq
  <2>3. QED
    BY <2>1, <2>2 DEF ToSet
<1>2. ViewTypes
  <2>1. /\ events \in Seq(EventType) /\ shown \in Seq(EntryType)
        /\ pending \in Seq(EntryType)
    BY <1>1 DEF Init
  <2>2. log \in [Chat -> Nat] /\ fails \in 0..MaxFails /\ floor \in Nat \ {0}
    BY ViewConstants DEF Init
  <2>3. /\ loading \in BOOLEAN /\ older \in BOOLEAN /\ listDue \in BOOLEAN
        /\ syncing \in BOOLEAN /\ syncAgain \in BOOLEAN
    BY DEF Init
  <2>4. QED
    BY <2>1, <2>2, <2>3 DEF Init, ViewTypes
<1>3. FlightHolds
  <2>1. \A c : Coming(c) = {} \/ c \notin Chat
    BY <1>1, ViewConstants DEF Coming, Init
  <2>2. QED
    BY <1>1, <2>1, ViewConstants DEF Init, FlightHolds, Follows
<1>4. CallsHold
  BY DEF Init, CallsHold, FlagsHold
<1>5. QED
  BY <1>2, <1>3, <1>4

----------------------------------------------------------------------------
(* The view: the events on their way.                                       *)

\* There are as many entries on their way as are coming.
LEMMA FlightCount ==
  ASSUME ViewTypes, FlightHolds, NEW c \in Chat, NEW n \in Coming(c)
  PROVE  log[c] - n + 1 <= Flying /\ Flying \in Nat
<1> DEFINE top == IF adding = c THEN log[c] - 1 ELSE log[c]
           R == n..top
           I(m) == {i \in InFlight : events[i].key.chat = c /\ events[i].n = m}
           f == [m \in R |-> CHOOSE i \in InFlight : i \in I(m)]
<1>1. /\ n \in Nat \ {0} /\ log[c] \in Nat /\ n <= log[c]
      /\ n..log[c] \subseteq Coming(c) /\ c # None
  BY ComingRange, ViewConstants DEF FlightHolds
<1>0. top \in Nat /\ n <= top + 1 /\ \A m \in R : m \in n..log[c]
  BY <1>1
<1>2. IsFiniteSet(InFlight) /\ Cardinality(InFlight) \in Nat
  <2>1. Len(events) \in Nat /\ DOMAIN events = 1..Len(events)
    BY SetOfSeq DEF ViewTypes
  <2>2. IsFiniteSet(1..Len(events))
    BY <2>1, FS_Interval
  <2>3. InFlight \subseteq 1..Len(events)
    BY <2>1 DEF InFlight
  <2>4. QED
    BY <2>2, <2>3, FS_Subset, FS_CardinalityType
<1>3. ASSUME NEW m \in R PROVE \E i \in InFlight : i \in I(m)
  <2>0. m \in Coming(c) /\ ~(adding = c /\ m = log[c])
    BY <1>0, <1>1
  <2>1. PICK v \in ToSet(events) : v \in MessageType /\ v.key.chat = c
          /\ v.n = m
    BY <2>0, ComingFacts
  <2>2. PICK i \in DOMAIN events : events[i] = v
    BY DEF ToSet
  <2>3. i \in InFlight
    BY <2>1, <2>2, EventFacts DEF InFlight
  <2>4. QED
    BY <2>1, <2>2, <2>3
<1>4. f \in Injection(R, InFlight)
  <2>1. \A m \in R : f[m] \in InFlight /\ f[m] \in I(m)
    BY <1>3
  <2>2. f \in [R -> InFlight]
    BY <2>1
  <2>3. \A m \in R : events[f[m]].n = m
    BY <2>1
  <2> HIDE DEF f, R
  <2>4. \A x, y \in R : f[x] = f[y] => x = y
    BY <2>3
  <2>5. QED
    BY <2>2, <2>4 DEF Injection, IsInjective
<1>5. Cardinality(R) <= Cardinality(InFlight)
  <2> HIDE DEF f, R
  <2>1. QED
    BY <1>2, <1>4, FS_Injection
<1>6. Cardinality(R) = top - n + 1
  <2> HIDE DEF top
  <2>1. Cardinality(n..top) = IF n > top THEN 0 ELSE top - n + 1
    BY <1>0, <1>1, FS_Interval
  <2>2. QED
    BY <1>0, <1>1, <2>1
<1>7. QED
  <2> HIDE DEF R
  <2>1. CASE adding = c
    BY <1>1, <1>2, <1>5, <1>6, <2>1 DEF Flying
  <2>2. CASE adding # c
    BY <1>1, <1>2, <1>5, <1>6, <2>2 DEF Flying
  <2>3. QED
    BY <2>1, <2>2

\* How many are on their way is a number.
LEMMA FlyingNat == ViewTypes => Flying \in Nat
<1> SUFFICES ASSUME ViewTypes PROVE Flying \in Nat
  OBVIOUS
<1>1. Len(events) \in Nat /\ DOMAIN events = 1..Len(events)
  BY SetOfSeq DEF ViewTypes
<1>2. IsFiniteSet(1..Len(events))
  BY <1>1, FS_Interval
<1>3. InFlight \subseteq 1..Len(events)
  BY <1>1 DEF InFlight
<1>4. Cardinality(InFlight) \in Nat
  BY <1>2, <1>3, FS_Subset, FS_CardinalityType
<1>5. QED
  BY <1>4 DEF Flying

\* What the steps of the view leave alone.
LEMMA FlightStays ==
  ASSUME FlightHolds, UNCHANGED <<log, moved, adding, events, rows>>
  PROVE  FlightHolds' /\ \A c : Coming(c)' = Coming(c)
<1>1. ToSet(events)' = ToSet(events)
  BY DEF ToSet
<1>2. \A c : Coming(c)' = Coming(c)
  BY <1>1 DEF Coming
<1>3. QED
  BY <1>1, <1>2 DEF FlightHolds

\* An entry is added.
LEMMA AddFlies ==
  ASSUME ViewTypes, FlightHolds, NEW c \in Chat, Add(c)
  PROVE  /\ FlightHolds'
         /\ Coming(c)' = Coming(c) \cup {log[c] + 1}
         /\ \A d \in Chat : d # c => Coming(d)' = Coming(d)
         /\ log'[c] = log[c] + 1
         /\ \A d \in Chat : d # c => log'[d] = log[d]
         /\ log' \in [Chat -> Nat]
<1>1. /\ adding = None /\ adding' = c /\ UNCHANGED <<moved, events, rows>>
      /\ log' = [log EXCEPT ![c] = @ + 1]
  BY DEF Add
<1>2. /\ \A d \in Chat : log[d] \in Nat /\ Older[d] \in Nat /\ d # None
      /\ log' \in [Chat -> Nat] /\ log'[c] = log[c] + 1
      /\ \A d \in Chat : d # c => log'[d] = log[d]
  <2>1. log \in [Chat -> Nat]
    BY DEF ViewTypes
  <2>2. \A d \in Chat : Older[d] \in Nat /\ d # None
    BY ViewConstants
  <2>3. QED
    BY <1>1, <2>1, <2>2
<1>3. ToSet(events)' = ToSet(events)
  BY <1>1 DEF ToSet
<1>4. /\ Coming(c)' = Coming(c) \cup {log[c] + 1}
      /\ \A d \in Chat : d # c => Coming(d)' = Coming(d)
  <2>1. \A d \in Chat : adding # d
    BY <1>1, <1>2
  <2>2. QED
    BY <1>1, <1>2, <1>3, <2>1 DEF Coming
<1>5. ASSUME NEW v \in ToSet(events)'
      PROVE  /\ v \in MessageType =>
                  /\ v.n \in (Older[v.key.chat] + 1)..log'[v.key.chat]
                  /\ adding' = v.key.chat => v.n < log'[v.key.chat]
                  /\ v.key.new => v.key.chat \in moved'
                  /\ v.key.chat \in rows' => v.key.new
             /\ v \in RowsType =>
                  rows' \subseteq v.rows /\ v.rows \subseteq moved'
  <2>1. CASE v \in MessageType
    <3>1. v.key.chat \in Chat /\ v \notin RowsType /\ v.n \in Nat
      BY <2>1, EventFacts
    <3>2. v.n \in (Older[v.key.chat] + 1)..log[v.key.chat]
      BY <1>3, <2>1 DEF FlightHolds
    <3>3. log'[v.key.chat] = log[v.key.chat] \/ v.key.chat = c
      BY <1>2, <3>1
    <3>4. v.n <= log'[v.key.chat]
            /\ (c = v.key.chat => v.n < log'[v.key.chat])
      BY <1>2, <3>1, <3>2, <3>3
    <3>5. /\ v.key.new => v.key.chat \in moved
          /\ v.key.chat \in rows => v.key.new
      BY <1>3, <2>1 DEF FlightHolds
    <3>6. log'[v.key.chat] \in Nat
      BY <1>2, <3>1
    <3>7. QED
      BY <1>1, <1>2, <3>1, <3>2, <3>4, <3>5, <3>6
  <2>2. CASE v \notin MessageType
    BY <1>1, <1>3, <2>2 DEF FlightHolds
  <2>3. QED
    BY <2>1, <2>2
<1>6. ASSUME NEW d \in Chat, NEW n \in Coming(d)'
      PROVE  n..log'[d] \subseteq Coming(d)'
  <2>1. CASE d # c
    BY <1>2, <1>4, <2>1 DEF FlightHolds
  <2>2. CASE d = c /\ n = log[c] + 1
    BY <1>2, <1>4, <2>2, ViewConstants
  <2>3. CASE d = c /\ n \in Coming(c)
    <3>1. n \in Nat /\ n <= log[c] /\ n..log[c] \subseteq Coming(c)
      BY <2>3, ComingRange DEF FlightHolds
    <3>2. n..log'[c] = n..log[c] \cup {log[c] + 1}
      BY <1>2, <3>1
    <3>3. QED
      BY <1>4, <2>3, <3>1, <3>2
  <2>4. QED
    BY <1>4, <2>1, <2>2, <2>3
<1>7. \A d \in Chat : /\ Older[d] <= log'[d]
                      /\ adding' = d => Older[d] < log'[d]
  <2>1. \A d \in Chat : Older[d] <= log[d]
    BY DEF FlightHolds
  <2>2. QED
    BY <1>1, <1>2, <2>1
<1>8. Follows(events, MayCome)'
  BY <1>1 DEF FlightHolds, Follows, MayCome
<1>9. FlightHolds'
  BY <1>5, <1>6, <1>7, <1>8 DEF FlightHolds
<1>10. QED
  BY <1>2, <1>4, <1>9

\* The event of an entry that was added.
LEMMA EmitFlies ==
  ASSUME ViewTypes, FlightHolds, EmitMessage
  PROVE  /\ FlightHolds' /\ \A c \in Chat : Coming(c)' = Coming(c)
         /\ events' \in Seq(EventType) /\ adding' = None
<1> DEFINE c == adding
           m == Message(c, log[c], c \in moved)
<1>1. /\ c \in Chat /\ c # None /\ events' = Append(events, m)
      /\ adding' = None
      /\ UNCHANGED <<log, moved, rows>>
  BY DEF EmitMessage, ViewTypes
<1>2. /\ m \in MessageType /\ m.key.chat = c /\ m.key.new = (c \in moved)
      /\ m.n = log[c] /\ m \in EventType /\ m \notin RowsType
  <2>1. log[c] \in Nat /\ (c \in moved) \in BOOLEAN
    BY <1>1 DEF ViewTypes
  <2> DEFINE b == c \in moved
  <2>2. b \in BOOLEAN /\ m = Message(c, log[c], b)
    BY <2>1
  <2> HIDE DEF b, m
  <2>3. /\ m \in MessageType /\ m.key.chat = c /\ m.key.new = b /\ m.n = log[c]
    BY <1>1, <2>1, <2>2, EventFacts
  <2>4. m \in EventType /\ m \notin RowsType
    BY <2>3, EventFacts
  <2>5. QED
    BY <2>3, <2>4 DEF b
<1>3. events \in Seq(EventType) /\ ToSet(events) \subseteq EventType
        /\ moved \subseteq Chat /\ rows \subseteq moved
  BY SetOfSeq, ViewConstants DEF ViewTypes
<1>4. ASSUME NEW v \in ToSet(events) PROVE <<v, m>> \in MayCome
  <2>1. v \in EventType
    BY <1>3
  <2>2. v \in MessageType /\ v.key.chat = m.key.chat => v.n < m.n
    BY <1>2 DEF FlightHolds
  <2>3. v \in RowsType /\ m.key.chat \in v.rows => m.key.new
    BY <1>2 DEF FlightHolds
  <2> HIDE DEF m
  <2>4. QED
    BY <1>2, <2>1, <2>2, <2>3, MayComeFacts
<1> HIDE DEF m
<1>5. /\ events' \in Seq(EventType) /\ ToSet(events') = ToSet(events) \cup {m}
      /\ Follows(events', MayCome)
  BY <1>1, <1>2, <1>3, <1>4, AppendFacts DEF FlightHolds
<1>6. ToSet(events)' = ToSet(events) \cup {m}
  BY <1>5 DEF ToSet
<1>7. \A d \in Chat : Coming(d)' = Coming(d)
  <2> SUFFICES ASSUME NEW d \in Chat, NEW n
               PROVE  n \in Coming(d)' <=> n \in Coming(d)
    BY DEF Coming
  <2>1. n \in Coming(d)' <=>
          \E v \in ToSet(events)' :
            v \in MessageType /\ v.key.chat = d /\ v.n = n
    BY <1>1, ViewConstants DEF Coming
  <2>2. n \in Coming(d) <=>
          \/ \E v \in ToSet(events) :
               v \in MessageType /\ v.key.chat = d /\ v.n = n
          \/ c = d /\ n = log[c]
    BY ComingFacts
  <2>3. QED
    BY <1>2, <1>6, <2>1, <2>2
<1>8. ASSUME NEW v \in ToSet(events)'
      PROVE  /\ v \in MessageType =>
                  /\ v.n \in (Older[v.key.chat] + 1)..log'[v.key.chat]
                  /\ adding' = v.key.chat => v.n < log'[v.key.chat]
                  /\ v.key.new => v.key.chat \in moved'
                  /\ v.key.chat \in rows' => v.key.new
             /\ v \in RowsType =>
                  rows' \subseteq v.rows /\ v.rows \subseteq moved'
  <2>1. adding' \notin Chat
    BY <1>1, ViewConstants
  <2>2. CASE v \in ToSet(events)
    <3>1. v \in MessageType => v.key.chat \in Chat
      BY EventFacts
    <3>2. QED
      BY <1>1, <2>1, <2>2, <3>1 DEF FlightHolds
  <2>3. CASE v = m
    <3>1. Older[c] < log[c] /\ Older[c] \in Nat /\ log[c] \in Nat
      BY <1>1, ViewConstants DEF FlightHolds, ViewTypes
    <3>2. log[c] \in (Older[c] + 1)..log[c]
      BY <3>1
    <3>3. QED
      BY <1>1, <1>2, <1>3, <2>1, <2>3, <3>2
  <2>4. QED
    BY <1>6, <2>2, <2>3
<1>9. \A d \in Chat : /\ Older[d] <= log'[d]
                      /\ adding' = d => Older[d] < log'[d]
  BY <1>1, ViewConstants DEF FlightHolds
<1>10. FlightHolds'
  <2>1. Follows(events, MayCome)'
    BY <1>5, <1>1 DEF Follows, MayCome
  <2>2. \A d \in Chat : \A n \in Coming(d)' :
          n..log'[d] \subseteq Coming(d)'
    BY <1>1, <1>7 DEF FlightHolds
  <2>3. QED
    BY <1>8, <1>9, <2>1, <2>2 DEF FlightHolds
<1>11. QED
  BY <1>1, <1>5, <1>7, <1>10

\* A chat gets its new key, or loses its entries to another one.
LEMMA RegroupFlies ==
  ASSUME FlightHolds, UNCHANGED <<log, adding, events, rows>>,
         moved \subseteq moved'
  PROVE  FlightHolds' /\ \A d : Coming(d)' = Coming(d)
<1>1. ToSet(events)' = ToSet(events)
  BY DEF ToSet
<1>2. \A d : Coming(d)' = Coming(d)
  BY <1>1 DEF Coming
<1>3. ASSUME NEW v \in ToSet(events)
      PROVE  /\ v \in MessageType => (v.key.new => v.key.chat \in moved')
             /\ v \in RowsType => v.rows \subseteq moved'
  BY DEF FlightHolds
<1>4. QED
  BY <1>1, <1>2, <1>3 DEF FlightHolds

\* What is coming holds after a step when its parts do.
LEMMA FlightParts ==
  ASSUME Follows(events, MayCome)',
         \A v \in ToSet(events)' :
           /\ v \in MessageType =>
                /\ v.n \in (Older[v.key.chat] + 1)..log'[v.key.chat]
                /\ adding' = v.key.chat => v.n < log'[v.key.chat]
                /\ v.key.new => v.key.chat \in moved'
                /\ v.key.chat \in rows' => v.key.new
           /\ v \in RowsType =>
                rows' \subseteq v.rows /\ v.rows \subseteq moved',
         \A d \in Chat : \A n \in Coming(d)' : n..log'[d] \subseteq Coming(d)',
         \A d \in Chat : /\ Older[d] <= log'[d]
                         /\ adding' = d => Older[d] < log'[d]
  PROVE  FlightHolds'
BY DEF FlightHolds

\* The list is emitted.
LEMMA ChatsFly ==
  ASSUME ViewTypes, FlightHolds, EmitChats
  PROVE  /\ FlightHolds' /\ \A c : Coming(c)' = Coming(c)
         /\ events' \in Seq(EventType)
<1> DEFINE m == Rows(moved)
<1>1. events' = Append(events, m) /\ UNCHANGED <<log, moved, adding, rows>>
  BY DEF EmitChats
<1>2. events \in Seq(EventType) /\ ToSet(events) \subseteq EventType
        /\ moved \subseteq Chat /\ rows \subseteq moved
  BY SetOfSeq, ViewConstants DEF ViewTypes
<1>3. /\ m \in RowsType /\ m.rows = moved /\ m \in EventType
      /\ m \notin MessageType
  BY <1>2, EventFacts
<1>4. ASSUME NEW v \in ToSet(events) PROVE <<v, m>> \in MayCome
  <2>1. v \in EventType
    BY <1>2
  <2>2. v \in RowsType => v.rows \subseteq m.rows
    BY <1>3 DEF FlightHolds
  <2> HIDE DEF m
  <2>3. QED
    BY <1>3, <2>1, <2>2, MayComeFacts
<1> HIDE DEF m
<1>5. /\ events' \in Seq(EventType) /\ ToSet(events') = ToSet(events) \cup {m}
      /\ Follows(events', MayCome)
  BY <1>1, <1>2, <1>3, <1>4, AppendFacts DEF FlightHolds
<1>6. ToSet(events)' = ToSet(events) \cup {m}
  BY <1>5 DEF ToSet
<1>7. \A c : Coming(c)' = Coming(c)
  BY <1>1, <1>3, <1>6 DEF Coming
<1>8. \A v \in ToSet(events)' : v \in RowsType =>
        rows' \subseteq v.rows /\ v.rows \subseteq moved'
  BY <1>1, <1>2, <1>3, <1>6 DEF FlightHolds
<1>9. \A v \in ToSet(events)' : v \in MessageType => v \in ToSet(events)
  BY <1>3, <1>6
<1>10. Follows(events, MayCome)'
  BY <1>5, <1>1 DEF Follows, MayCome
<1>11. /\ \A d \in Chat : \A n \in Coming(d)' : n..log'[d] \subseteq Coming(d)'
       /\ \A d \in Chat : /\ Older[d] <= log'[d]
                          /\ adding' = d => Older[d] < log'[d]
  BY <1>1, <1>7 DEF FlightHolds
<1>12. ASSUME NEW v \in ToSet(events)'
       PROVE  /\ v \in MessageType =>
                   /\ v.n \in (Older[v.key.chat] + 1)..log'[v.key.chat]
                   /\ adding' = v.key.chat => v.n < log'[v.key.chat]
                   /\ v.key.new => v.key.chat \in moved'
                   /\ v.key.chat \in rows' => v.key.new
              /\ v \in RowsType =>
                   rows' \subseteq v.rows /\ v.rows \subseteq moved'
  <2>1. CASE v \in MessageType
    BY <1>1, <1>8, <1>9, <2>1 DEF FlightHolds
  <2>2. CASE v \notin MessageType
    BY <1>8, <2>2
  <2>3. QED
    BY <2>1, <2>2
<1>13. FlightHolds'
  BY <1>10, <1>11, <1>12, FlightParts
<1>14. QED
  BY <1>5, <1>7, <1>13

\* What follows on the event the page takes.
LEMMA TakenEvent ==
  ASSUME ViewTypes, FlightHolds, events # <<>>, events' = Tail(events)
  PROVE  /\ events' \in Seq(EventType) /\ Follows(events, MayCome)'
         /\ Head(events) \in EventType
         /\ ToSet(events) = {Head(events)} \cup ToSet(events)'
         /\ \A v \in ToSet(events)' :
              v \in EventType /\ <<Head(events), v>> \in MayCome
<1>1. events \in Seq(EventType) /\ Follows(events, MayCome)
  BY DEF ViewTypes, FlightHolds
<1>2. /\ events' \in Seq(EventType) /\ Follows(events', MayCome)
      /\ Head(events) \in EventType
      /\ ToSet(events) = {Head(events)} \cup ToSet(events')
      /\ \A x \in ToSet(events') : <<Head(events), x>> \in MayCome
  BY <1>1, TailFacts
<1>3. ToSet(events)' = ToSet(events') /\ ToSet(events) \subseteq EventType
  BY <1>1, SetOfSeq DEF ToSet
<1>4. Follows(events, MayCome)'
  BY <1>2 DEF Follows, MayCome
<1>5. QED
  BY <1>2, <1>3, <1>4

\* A message is taken: it was the next one of its chat.
LEMMA MessageFlies ==
  ASSUME ViewTypes, FlightHolds, events # <<>>, events' = Tail(events),
         Head(events).kind = "message", UNCHANGED <<log, moved, adding, rows>>,
         NEW c \in Chat, NEW k \in Nat,
         Head(events).key.chat = c, Head(events).n = k
  PROVE  /\ FlightHolds' /\ events' \in Seq(EventType)
         /\ Head(events) \in MessageType /\ Head(events) \in ToSet(events)
         /\ k \in Coming(c) /\ k \in (Older[c] + 1)..log[c]
         /\ Coming(c)' = Coming(c) \ {k} /\ \A m \in Coming(c)' : k < m
         /\ \A d \in Chat : d # c => Coming(d)' = Coming(d)
<1> DEFINE v == Head(events)
<1>1. /\ events' \in Seq(EventType) /\ Follows(events, MayCome)'
      /\ v \in EventType
      /\ ToSet(events) = {v} \cup ToSet(events)'
      /\ \A w \in ToSet(events)' : w \in EventType /\ <<v, w>> \in MayCome
  BY TakenEvent
<1>2. v \in MessageType /\ v.key.chat = c /\ v.n = k
  BY <1>1, EventFacts
<1>3. k \in (Older[c] + 1)..log[c] /\ (adding = c => k < log[c])
  BY <1>1, <1>2 DEF FlightHolds
<1>4. \A w \in ToSet(events)' :
        w \in MessageType /\ w.key.chat = c => k < w.n
  BY <1>1, <1>2 DEF MayCome
<1> HIDE DEF v
<1>5. /\ k \in Coming(c) /\ Coming(c)' = Coming(c) \ {k}
      /\ \A m \in Coming(c)' : k < m
  <2>1. k \in Coming(c)
    BY <1>1, <1>2, ComingFacts
  <2>2. \A n : n \in Coming(c)' <=>
          \/ \E w \in ToSet(events)' :
               w \in MessageType /\ w.key.chat = c /\ w.n = n
          \/ adding = c /\ n = log[c]
    BY DEF Coming
  <2>3. \A m \in Coming(c)' : k < m
    BY <1>3, <1>4, <2>2
  <2>4. \A n : n \in Coming(c) <=> n = k \/ n \in Coming(c)'
    BY <1>1, <1>2, <2>2, ComingFacts
  <2>5. k \notin Coming(c)'
    BY <2>3
  <2>6. QED
    BY <2>1, <2>3, <2>4, <2>5
<1>6. ASSUME NEW d \in Chat, d # c PROVE Coming(d)' = Coming(d)
  <2>1. \A w \in ToSet(events) : w.key.chat = d => w \in ToSet(events)'
    BY <1>1, <1>2, <1>6
  <2>2. QED
    BY <1>1, <2>1 DEF Coming
<1>7. ASSUME NEW d \in Chat, NEW n \in Coming(d)'
      PROVE  n..log[d] \subseteq Coming(d)'
  <2>1. CASE d # c
    <3>1. Coming(d)' = Coming(d)
      BY <1>6, <2>1
    <3>2. QED
      BY <3>1 DEF FlightHolds
  <2>2. CASE d = c
    <3>1. n \in Coming(c) /\ k < n
      BY <1>5, <2>2
    <3>2. n..log[c] \subseteq Coming(c) /\ n \in Nat
      BY <3>1, ComingRange DEF FlightHolds
    <3>3. k \notin n..log[c]
      BY <3>1, <3>2
    <3>4. n..log[c] \subseteq Coming(c)'
      BY <1>5, <3>2, <3>3
    <3>5. QED
      BY <2>2, <3>2, <3>4
  <2>3. QED
    BY <2>1, <2>2
<1>8. FlightHolds'
  BY <1>1, <1>7 DEF FlightHolds
<1>9. QED
  BY <1>1, <1>2, <1>3, <1>5, <1>6, <1>8 DEF v

\* The list is taken.
LEMMA RowsFly ==
  ASSUME ViewTypes, FlightHolds, TakeChats
  PROVE  /\ FlightHolds' /\ events' \in Seq(EventType)
         /\ \A c : Coming(c)' = Coming(c)
         /\ rows \subseteq rows' /\ rows' \subseteq moved
<1> DEFINE v == Head(events)
<1>1. /\ events # <<>> /\ events' = Tail(events) /\ v.kind = "chats"
      /\ rows' = v.rows /\ UNCHANGED <<log, moved, adding>>
  BY DEF TakeChats, goVars
<1>2. /\ events' \in Seq(EventType) /\ Follows(events, MayCome)'
      /\ v \in EventType
      /\ ToSet(events) = {v} \cup ToSet(events)'
      /\ \A w \in ToSet(events)' : w \in EventType /\ <<v, w>> \in MayCome
  BY <1>1, TakenEvent
<1>3. v \in RowsType /\ v \notin MessageType
  BY <1>1, <1>2, EventFacts
<1>4. rows \subseteq v.rows /\ v.rows \subseteq moved
  BY <1>2, <1>3 DEF FlightHolds
<1>5. \A c : Coming(c)' = Coming(c)
  BY <1>1, <1>2, <1>3 DEF Coming
<1>6. ASSUME NEW w \in ToSet(events)'
      PROVE  /\ w \in MessageType /\ w.key.chat \in rows' => w.key.new
             /\ w \in RowsType => rows' \subseteq w.rows
             /\ w \in ToSet(events)
  <2>1. /\ w \in MessageType /\ w.key.chat \in v.rows => w.key.new
        /\ w \in RowsType => v.rows \subseteq w.rows
    <3> HIDE DEF v
    <3>1. QED
      BY <1>2, <1>3, MayComeFacts
  <2>2. QED
    BY <1>1, <1>2, <2>1
<1>7. FlightHolds'
  BY <1>1, <1>2, <1>5, <1>6 DEF FlightHolds
<1>8. QED
  BY <1>1, <1>2, <1>4, <1>5, <1>7

----------------------------------------------------------------------------
(* The view: lists of entries and pages.                                    *)

\* In a list in order, the first entry is the least and the last the greatest.
LEMMA EndsOfList ==
  ASSUME NEW s \in Seq(EntryType), Follows(s, Before), s # <<>>
  PROVE  /\ 1 \in DOMAIN s /\ s[1] \in ToSet(s) /\ Last(s) \in ToSet(s)
         /\ \A e \in ToSet(s) : s[1].n <= e.n /\ e.n <= Last(s).n
<1>1. /\ Len(s) \in Nat \ {0} /\ DOMAIN s = 1..Len(s)
      /\ \A i \in 1..Len(s) : s[i] \in EntryType
  BY SetOfSeq, EmptySeq
<1>2. 1 \in DOMAIN s /\ Len(s) \in DOMAIN s
  BY <1>1
<1>3. \A i, j \in DOMAIN s : i < j => s[i].n < s[j].n
  BY DEF Follows, Before
<1>4. \A i \in DOMAIN s : s[i].n \in Nat
  BY <1>1, EntryFacts
<1>5. ASSUME NEW i \in DOMAIN s PROVE s[1].n <= s[i].n /\ s[i].n <= s[Len(s)].n
  <2>1. i = 1 \/ 1 < i
    BY <1>1
  <2>2. i = Len(s) \/ i < Len(s)
    BY <1>1
  <2>3. QED
    BY <1>2, <1>3, <1>4, <2>1, <2>2
<1>6. QED
  BY <1>2, <1>5 DEF ToSet, Last

\* Pairs of entries of which the first is before the second.
LEMMA BeforeFacts ==
  \A d, e \in EntryType : <<d, e>> \in Before <=> d.n < e.n
BY DEF Before

\* In a list in order, an entry is as many places from the end as there are
\* numbers after its own, or nearer.
LEMMA NearEnd ==
  ASSUME NEW s \in Seq(EntryType), Follows(s, Before), NEW i \in DOMAIN s,
         NEW m \in Nat, \A e \in ToSet(s) : e.n <= m
  PROVE  i \in Nat /\ Len(s) \in Nat /\ Len(s) - i <= m - s[i].n
<1> DEFINE W == {d \in 0..(Len(s) - i) : s[i].n + d <= s[i + d].n}
<1>1. /\ Len(s) \in Nat /\ DOMAIN s = 1..Len(s)
      /\ \A j \in 1..Len(s) : s[j] \in EntryType
  BY SetOfSeq
<1>2. \A j \in DOMAIN s : s[j].n \in Nat
  BY <1>1, EntryFacts
<1>3. 0 \in W
  BY <1>1, <1>2
<1>4. ASSUME NEW d \in 0..(Len(s) - i - 1), d \in W PROVE d + 1 \in W
  <2>1. i + d \in DOMAIN s /\ i + (d + 1) \in DOMAIN s /\ i + d < i + (d + 1)
    BY <1>1
  <2>2. s[i + d].n < s[i + (d + 1)].n
    BY <2>1 DEF Follows, Before
  <2>3. s[i].n \in Nat /\ s[i + d].n \in Nat /\ s[i + (d + 1)].n \in Nat
    BY <1>2, <2>1
  <2>4. s[i].n + d <= s[i + d].n /\ d \in Nat
    BY <1>4
  <2>5. s[i].n + (d + 1) <= s[i + (d + 1)].n
    <3> DEFINE x == s[i].n
               y == s[i + d].n
               z == s[i + (d + 1)].n
    <3>1. x \in Nat /\ y \in Nat /\ z \in Nat /\ x + d <= y /\ y < z
      BY <2>2, <2>3, <2>4
    <3> HIDE DEF x, y, z
    <3>2. x + (d + 1) <= z
      BY <2>4, <3>1
    <3>3. QED
      BY <3>2 DEF x, z
  <2>6. d + 1 \in 0..(Len(s) - i)
    BY <1>1
  <2>7. QED
    BY <2>5, <2>6
<1>5. Len(s) - i \in W
  <2> HIDE DEF W
  <2>1. Len(s) - i \in Nat
    BY <1>1
  <2>2. 0..(Len(s) - i) \subseteq W
    BY <1>3, <1>4, <2>1, UpTo
  <2>3. QED
    BY <2>1, <2>2
<1>6. s[i].n + (Len(s) - i) <= s[Len(s)].n
  <2>1. i + (Len(s) - i) = Len(s)
    BY <1>1
  <2>2. QED
    BY <1>5, <2>1
<1>7. s[Len(s)].n <= m
  BY <1>1 DEF ToSet
<1>8. Len(s) \in DOMAIN s
  BY <1>1
<1>9. QED
  BY <1>1, <1>2, <1>6, <1>7, <1>8

\* The page a call reads: entries of its chat in order, as many as fit, up to
\* those the page has already.
LEMMA PageFacts ==
  ASSUME NEW q \in CallType, q.cut \in Nat, q.list = <<>>
  PROVE  LET p == PageOf(q)
             end == q.cut - q.before
         IN  /\ p.messages \in Seq(EntryType) /\ Follows(p.messages, Before)
             /\ p.first \in Nat \ {0} /\ end \in Int /\ q.before \in Nat
             /\ \A e : e \in ToSet(p.messages) <=>
                         \E n \in p.first..end : e = Entry(q.chat, n)
             /\ p.messages # <<>> =>
                  p.messages[1].n = p.first /\ p.first <= end
             /\ end - p.first < PageSize
             /\ \A n \in Nat \ {0} :
                  n <= end /\ end - n < PageSize => p.first <= n
             /\ \/ p.next = NoPage
                \/ /\ p.next \in Nat \ {0} /\ p.first > 1 /\ p.messages # <<>>
                   /\ p.first + PageSize = end + 1
<1> DEFINE p == PageOf(q)
           end == q.cut - q.before
           start == IF end > PageSize THEN end - PageSize ELSE 0
<1>1. q.cut \in Nat /\ q.before \in Nat /\ q.chat \in Chat
        /\ PageSize \in Nat \ {0}
  BY ViewConstants DEF CallType
<1>2. CASE q.before >= q.cut
  <2>1. p = [first |-> 1, messages |-> <<>>, next |-> NoPage]
    BY <1>2 DEF PageOf
  <2>2. p.first = 1 /\ p.messages = <<>> /\ p.next = NoPage
    BY <2>1
  <2>3. <<>> \in Seq(EntryType) /\ DOMAIN <<>> = {}
    BY EmptySeq
  <2> HIDE DEF p
  <2>4. p.messages \in Seq(EntryType) /\ Follows(p.messages, Before)
          /\ ToSet(p.messages) = {}
    BY <2>2, <2>3 DEF Follows, ToSet
  <2>5. p.first..end = {}
    BY <1>1, <1>2, <2>2
  <2>6. QED
    BY <1>1, <1>2, <2>2, <2>4, <2>5 DEF p
<1>3. CASE q.before < q.cut
  <2>1. p = [first |-> start + 1,
             messages |->
               [i \in 1..(end - start) |-> Entry(q.chat, start + i)],
             next |-> IF start = 0 THEN NoPage ELSE q.cut - start]
    BY <1>1, <1>3 DEF PageOf, Item
  <2>2. /\ p.first = start + 1
        /\ p.messages = [i \in 1..(end - start) |-> Entry(q.chat, start + i)]
        /\ p.next = IF start = 0 THEN NoPage ELSE q.cut - start
    BY <2>1
  <2>3. /\ start \in Nat /\ end \in Nat \ {0} /\ start < end
        /\ end - start <= PageSize
        /\ start # 0 => start + PageSize = end
        /\ \A n \in Nat \ {0} : n <= end /\ end - n < PageSize => start < n
    BY <1>1, <1>3
  <2> HIDE DEF start, end, p
  <2>4. \A i \in 1..(end - start) : Entry(q.chat, start + i) \in EntryType
    BY <1>1, <2>3, EntryFacts
  <2>5. /\ p.messages \in Seq(EntryType)
        /\ DOMAIN p.messages = 1..(end - start)
        /\ Len(p.messages) = end - start
        /\ \A i \in 1..(end - start) :
             p.messages[i] = Entry(q.chat, start + i)
               /\ p.messages[i].n = start + i
    <3>1. end - start \in Nat
      BY <2>3
    <3>2. p.messages \in [1..(end - start) -> EntryType]
      BY <2>2, <2>4
    <3>3. \A i \in 1..(end - start) : p.messages[i] = Entry(q.chat, start + i)
      BY <2>2
    <3>4. p.messages \in Seq(EntryType) /\ Len(p.messages) = end - start
      BY <3>1, <3>2, LenProperties, SeqDef
    <3>5. QED
      BY <3>2, <3>3, <3>4, EntryFacts
  <2>6. Follows(p.messages, Before)
    <3> SUFFICES ASSUME NEW i \in DOMAIN p.messages,
                        NEW j \in DOMAIN p.messages,
                        i < j
                 PROVE  <<p.messages[i], p.messages[j]>> \in Before
      BY DEF Follows
    <3>1. i \in Int /\ j \in Int /\ start + i < start + j
      BY <2>3, <2>5
    <3>2. /\ p.messages[i] \in EntryType /\ p.messages[j] \in EntryType
          /\ p.messages[i].n = start + i /\ p.messages[j].n = start + j
      BY <2>4, <2>5
    <3>3. QED
      BY <3>1, <3>2, BeforeFacts
  <2>7. \A e : e \in ToSet(p.messages) <=>
                 \E n \in p.first..end : e = Entry(q.chat, n)
    <3>1. \A n \in (start + 1)..end : n - start \in 1..(end - start)
                                        /\ start + (n - start) = n
      BY <2>3
    <3>2. \A i \in 1..(end - start) : start + i \in (start + 1)..end
      BY <2>3
    <3>3. \A e : e \in ToSet(p.messages) <=>
                   \E i \in 1..(end - start) : e = Entry(q.chat, start + i)
      BY <2>5 DEF ToSet
    <3>4. QED
      BY <2>2, <3>1, <3>2, <3>3
  <2>8. p.messages # <<>> /\ p.messages[1].n = p.first /\ p.first <= end
    <3>1. 1 \in 1..(end - start)
      BY <2>3
    <3>2. QED
      BY <2>2, <2>3, <2>5, <3>1, EmptySeq
  <2>9. \/ p.next = NoPage
        \/ /\ p.next \in Nat \ {0} /\ p.first > 1
           /\ p.first + PageSize = end + 1
    <3>1. CASE start = 0
      BY <2>2, <3>1
    <3>2. CASE start # 0
      <4>1. q.cut - start \in Nat \ {0}
        BY <1>1, <1>3, <2>3 DEF end
      <4>2. p.next = q.cut - start
        BY <2>2, <3>2
      <4>3. p.first > 1 /\ p.first + PageSize = end + 1
        BY <1>1, <2>2, <2>3, <3>2
      <4>4. QED
        BY <4>1, <4>2, <4>3
    <3>3. QED
      BY <3>1, <3>2
  <2>10. /\ p.first \in Nat \ {0} /\ end \in Int /\ end - p.first < PageSize
         /\ \A n \in Nat \ {0} : n <= end /\ end - n < PageSize => p.first <= n
    BY <1>1, <2>2, <2>3
  <2>11. QED
    BY <1>1, <2>5, <2>6, <2>7, <2>8, <2>9, <2>10 DEF p, end
<1>4. QED
  BY <1>1, <1>2, <1>3

\* A page that reaches the newest entry has everything that is coming.
LEMMA PageHasComing ==
  ASSUME ViewTypes, FlightHolds, NearHolds, ~spoilt, NEW q \in CallType,
         q.cut \in Nat, q.before = 0, q.list = <<>>,
         q.cut <= log[q.chat], NEW m \in Coming(q.chat), m <= q.cut
  PROVE  Entry(q.chat, m) \in ToSet(PageOf(q).messages)
<1>1. q.chat \in Chat
  BY DEF CallType
<1>2. m \in Nat \ {0} /\ log[q.chat] \in Nat /\ log[q.chat] - m < Window
  BY <1>1, ComingRange DEF NearHolds
<1>3. q.cut - q.before = q.cut
  OBVIOUS
<1>4. q.cut - m < PageSize
  BY <1>2, ViewConstants
<1>5. PageOf(q).first <= m /\ PageOf(q).first \in Nat
  BY <1>2, <1>3, <1>4, PageFacts
<1>6. m \in PageOf(q).first..(q.cut - q.before)
  BY <1>2, <1>3, <1>5
<1>7. QED
  BY <1>6, PageFacts

\* The page a call reads, whatever was merged.
LEMMA PageTyped ==
  ASSUME NEW q \in CallType, q.cut \in Nat,
         q.list # <<>> => q.cut = Len(q.list)
  PROVE  LET p == PageOf(q)
         IN  /\ p.messages \in Seq(EntryType) /\ p.first \in Nat \ {0}
             /\ p.next \in (Nat \ {0}) \cup {NoPage}
             /\ p.next # NoPage => p.messages # <<>>
<1> DEFINE p == PageOf(q)
           end == q.cut - q.before
           start == IF end > PageSize THEN end - PageSize ELSE 0
<1>1. /\ q.cut \in Nat /\ q.before \in Nat /\ q.chat \in Chat
      /\ PageSize \in Nat \ {0} /\ q.list \in Seq(EntryType)
  BY ViewConstants DEF CallType
<1>2. CASE q.before >= q.cut
  <2>1. p.first = 1 /\ p.messages = <<>> /\ p.next = NoPage
    BY <1>2 DEF PageOf
  <2>2. <<>> \in Seq(EntryType)
    BY EmptySeq
  <2>3. QED
    BY <2>1, <2>2
<1>3. CASE q.before < q.cut
  <2>1. p = [first |-> start + 1,
             messages |-> [i \in 1..(end - start) |-> Item(q, start + i)],
             next |-> IF start = 0 THEN NoPage ELSE q.cut - start]
    BY <1>1, <1>3 DEF PageOf
  <2>2. /\ p.first = start + 1
        /\ p.messages = [i \in 1..(end - start) |-> Item(q, start + i)]
        /\ p.next = IF start = 0 THEN NoPage ELSE q.cut - start
    BY <2>1
  <2>3. /\ start \in Nat /\ end - start \in Nat \ {0}
        /\ start # 0 => q.cut - start \in Nat \ {0}
        /\ \A i \in 1..(end - start) : start + i \in 1..q.cut
    <3>1. start \in Nat /\ end \in Nat /\ start < end /\ end <= q.cut
      BY <1>1, <1>3
    <3> HIDE DEF start, end
    <3>2. QED
      BY <1>1, <3>1
  <2> HIDE DEF start, end, p
  <2>4. \A i \in 1..(end - start) : Item(q, start + i) \in EntryType
    <3> SUFFICES ASSUME NEW i \in 1..(end - start)
                 PROVE  Item(q, start + i) \in EntryType
      OBVIOUS
    <3>1. start + i \in 1..q.cut /\ start + i \in Nat
      BY <1>1, <2>3
    <3>2. CASE q.list = <<>>
      BY <1>1, <3>1, <3>2, EntryFacts DEF Item
    <3>3. CASE q.list # <<>>
      <4>1. Item(q, start + i) = q.list[start + i]
        BY <3>3 DEF Item
      <4>2. \A j \in 1..Len(q.list) : q.list[j] \in EntryType
        BY <1>1, SetOfSeq
      <4>3. q.cut = Len(q.list)
        BY <3>3
      <4>4. QED
        BY <3>1, <4>1, <4>2, <4>3
    <3>4. QED
      BY <3>2, <3>3
  <2>5. p.messages \in [1..(end - start) -> EntryType]
    BY <2>2, <2>4
  <2>6. p.messages \in Seq(EntryType) /\ Len(p.messages) = end - start
    <3>1. end - start \in Nat
      BY <2>3
    <3>2. QED
      BY <2>5, <3>1, LenProperties, SeqDef
  <2>7. p.messages # <<>>
    BY <2>3, <2>6, EmptySeq
  <2>8. p.first \in Nat \ {0} /\ p.next \in (Nat \ {0}) \cup {NoPage}
    BY <2>2, <2>3
  <2>9. QED
    BY <2>6, <2>7, <2>8 DEF p
<1>4. QED
  BY <1>1, <1>2, <1>3

\* What comes after an entry of a page are entries.
LEMMA AfterTyped ==
  ASSUME NEW s \in Seq(EntryType), NEW last \in ToSet(s)
  PROVE  After(s, last) \in Seq(EntryType)
<1> DEFINE at == CHOOSE i \in DOMAIN s : s[i] = last
<1>1. /\ Len(s) \in Nat /\ DOMAIN s = 1..Len(s)
      /\ \A i \in 1..Len(s) : s[i] \in EntryType
  BY SetOfSeq
<1>2. at \in DOMAIN s
  BY DEF ToSet
<1>3. After(s, last) = SubSeq(s, at + 1, Len(s))
  BY DEF After
<1> HIDE DEF at
<1>4. at + 1 \in Nat /\ \A i \in (at + 1)..Len(s) : s[i] \in EntryType
  BY <1>1, <1>2
<1>5. QED
  BY <1>1, <1>3, <1>4, SubSeqProperties

\* What comes after an entry of a page is what is newer.
LEMMA AfterFacts ==
  ASSUME NEW s \in Seq(EntryType), Follows(s, Before), NEW last \in ToSet(s)
  PROVE  /\ After(s, last) \in Seq(EntryType)
         /\ Follows(After(s, last), Before)
         /\ ToSet(After(s, last)) = {e \in ToSet(s) : last.n < e.n}
<1> DEFINE at == CHOOSE i \in DOMAIN s : s[i] = last
           t == After(s, last)
<1>1. /\ Len(s) \in Nat /\ DOMAIN s = 1..Len(s)
      /\ \A i \in 1..Len(s) : s[i] \in EntryType
  BY SetOfSeq
<1>2. at \in DOMAIN s /\ s[at] = last
  BY DEF ToSet
<1>3. t = SubSeq(s, at + 1, Len(s))
  BY DEF After
<1> HIDE DEF at, t
<1>4. at \in Nat /\ at + 1 \in Nat /\ at <= Len(s)
  BY <1>1, <1>2
<1>5. /\ Len(t) = Len(s) - at /\ t \in Seq(EntryType)
      /\ \A i \in 1..(Len(s) - at) : t[i] = s[at + i]
  <2>1. \A i \in (at + 1)..Len(s) : s[i] \in EntryType
    BY <1>1, <1>4
  <2>2. /\ SubSeq(s, at + 1, Len(s)) \in Seq(EntryType)
        /\ Len(SubSeq(s, at + 1, Len(s))) =
             IF at + 1 <= Len(s) THEN Len(s) - (at + 1) + 1 ELSE 0
        /\ \A i \in 1..(Len(s) - (at + 1) + 1) :
             SubSeq(s, at + 1, Len(s))[i] = s[(at + 1) + i - 1]
    BY <1>1, <1>4, <2>1, SubSeqProperties
  <2>3. /\ Len(s) - (at + 1) + 1 = Len(s) - at
        /\ (IF at + 1 <= Len(s) THEN Len(s) - (at + 1) + 1 ELSE 0) =
             Len(s) - at
    <3> DEFINE m == Len(s)
    <3>1. m \in Nat /\ at \in Nat /\ at <= m
      BY <1>1, <1>4
    <3> HIDE DEF m
    <3>2. m - (at + 1) + 1 = m - at
      BY <3>1
    <3>3. at + 1 <= m \/ m - at = 0
      BY <3>1
    <3>4. QED
      BY <3>2, <3>3 DEF m
  <2>4. \A i \in 1..(Len(s) - at) : t[i] = s[at + i]
    <3> TAKE i \in 1..(Len(s) - at)
    <3>1. (at + 1) + i - 1 = at + i
      BY <1>1, <1>4
    <3>2. t[i] = s[(at + 1) + i - 1]
      BY <1>3, <2>2, <2>3
    <3>3. QED
      BY <3>1, <3>2
  <2>5. Len(t) = Len(s) - at /\ t \in Seq(EntryType)
    BY <1>3, <2>2, <2>3
  <2>6. QED
    BY <2>4, <2>5
<1>6. DOMAIN t = 1..(Len(s) - at)
  BY <1>5, LenProperties
<1>7. \A i \in DOMAIN t : at + i \in DOMAIN s /\ t[i] = s[at + i]
        /\ at < at + i
  BY <1>1, <1>4, <1>5, <1>6
<1>8. \A i, j \in DOMAIN s : i < j => s[i].n < s[j].n
  BY DEF Follows, Before
<1>9. \A i \in DOMAIN s : s[i].n \in Nat
  BY <1>1, EntryFacts
<1>10. Follows(t, Before)
  <2> SUFFICES ASSUME NEW i \in DOMAIN t, NEW j \in DOMAIN t, i < j
               PROVE  <<t[i], t[j]>> \in Before
    BY DEF Follows
  <2>1. at + i < at + j
    BY <1>1, <1>4, <1>6
  <2>2. t[i].n < t[j].n /\ t[i] \in EntryType /\ t[j] \in EntryType
    BY <1>1, <1>7, <1>8, <2>1
  <2>3. QED
    BY <2>2, BeforeFacts
<1>11. ToSet(t) = {e \in ToSet(s) : last.n < e.n}
  <2>1. ASSUME NEW e \in ToSet(t) PROVE e \in ToSet(s) /\ last.n < e.n
    BY <1>2, <1>7, <1>8 DEF ToSet
  <2>2. ASSUME NEW e \in ToSet(s), last.n < e.n PROVE e \in ToSet(t)
    <3>1. PICK i \in DOMAIN s : s[i] = e
      BY DEF ToSet
    <3>2. at < i
      <4>1. i < at => s[i].n < s[at].n
        BY <1>2, <1>8
      <4>2. s[at].n < s[i].n /\ s[i].n \in Nat /\ s[at].n \in Nat
        BY <1>2, <1>9, <2>2, <3>1
      <4>3. i # at /\ ~(i < at)
        BY <4>1, <4>2
      <4>4. QED
        BY <1>1, <1>4, <4>3
    <3>3. i - at \in DOMAIN t /\ t[i - at] = s[i]
      <4>1. i - at \in 1..(Len(s) - at) /\ at + (i - at) = i
        BY <1>1, <1>4, <3>2
      <4>2. QED
        BY <1>5, <1>6, <4>1
    <3>4. QED
      BY <3>1, <3>3 DEF ToSet
  <2>3. QED
    BY <2>1, <2>2
<1>12. QED
  BY <1>5, <1>10, <1>11 DEF t

----------------------------------------------------------------------------
(* The view: types, calls and flags.                                        *)

\* A new call.
LEMMA CallFacts ==
  ASSUME NEW w \in {"open", "older", "sync"}, NEW c \in Chat, NEW t \in Nat,
         NEW b \in Nat
  PROVE  /\ Call(w, c, t, b) \in CallType
         /\ Call(w, c, t, b).what = w /\ Call(w, c, t, b).chat = c
         /\ Call(w, c, t, b).token = t /\ Call(w, c, t, b).before = b
         /\ Call(w, c, t, b).cut = -1 /\ Call(w, c, t, b).list = <<>>
<1>1. <<>> \in Seq(EntryType)
  BY EmptySeq
<1>2. QED
  BY <1>1 DEF Call, CallType

\* The list of a chat.
LEMMA ListTyped ==
  ASSUME ViewTypes, NEW c \in Chat
  PROVE  /\ List(c) \in Seq(EntryType) /\ Len(List(c)) \in Nat
         /\ mix[c] = <<>> => Len(List(c)) = log[c]
         /\ mix[c] # <<>> => Len(List(c)) = Len(mix[c])
<1>1. log[c] \in Nat /\ mix[c] \in Seq(EntryType)
  BY DEF ViewTypes
<1>2. CASE mix[c] = <<>>
  <2>1. List(c) = [n \in 1..log[c] |-> Entry(c, n)]
    BY <1>2 DEF List
  <2>2. List(c) \in [1..log[c] -> EntryType]
    BY <1>1, <2>1, EntryFacts
  <2>3. List(c) \in Seq(EntryType) /\ Len(List(c)) = log[c]
    BY <1>1, <2>2, LenProperties, SeqDef
  <2>4. QED
    BY <1>1, <1>2, <2>3
<1>3. CASE mix[c] # <<>>
  BY <1>1, <1>3, LenProperties DEF List
<1>4. QED
  BY <1>2, <1>3

\* The list that has one list at some places and another at the rest.
LEMMA MergedTyped ==
  ASSUME NEW s \in Seq(EntryType), NEW t \in Seq(EntryType), t # <<>>,
         NEW P \in kSubset(Len(t), 1..(Len(s) + Len(t)))
  PROVE  MergedAt(P, s, t) \in Seq(EntryType) /\ MergedAt(P, s, t) # <<>>
<1> DEFINE len == Len(s) + Len(t)
           Upto(i) == {j \in P : j <= i}
           Put(i) == Cardinality(Upto(i))
           m == MergedAt(P, s, t)
<1>1. /\ Len(s) \in Nat /\ Len(t) \in Nat \ {0}
      /\ \A i \in 1..Len(s) : s[i] \in EntryType
      /\ \A i \in 1..Len(t) : t[i] \in EntryType
  BY SetOfSeq, EmptySeq
<1>2. P \subseteq 1..len /\ Cardinality(P) = Len(t) /\ len \in Nat \ {0}
  BY <1>1 DEF kSubset
<1>3. IsFiniteSet(P) /\ IsFiniteSet(1..len)
  <2> HIDE DEF len
  <2>1. IsFiniteSet(1..len)
    BY <1>2, FS_Interval
  <2>2. QED
    BY <1>2, <2>1, FS_Subset
<1>4. m = [i \in 1..len |->
             IF i \in P THEN t[Put(i)] ELSE s[i - Put(i)]]
  BY DEF MergedAt
<1>5. ASSUME NEW i \in 1..len
      PROVE  IF i \in P THEN t[Put(i)] \in EntryType
                        ELSE s[i - Put(i)] \in EntryType
  <2>1. Upto(i) \subseteq P /\ IsFiniteSet(Upto(i)) /\ Put(i) \in Nat
          /\ Put(i) <= Len(t)
    BY <1>2, <1>3, FS_Subset, FS_CardinalityType
  <2>2. CASE i \in P
    <3>1. Put(i) # 0
      <4>1. i \in Upto(i)
        BY <1>2, <2>2
      <4>2. QED
        BY <2>1, <4>1, FS_EmptySet
    <3> HIDE DEF Put
    <3>2. Put(i) \in 1..Len(t)
      BY <1>1, <2>1, <3>1
    <3>3. QED
      BY <1>1, <2>2, <3>2
  <2>3. CASE i \notin P
    <3> HIDE DEF len
    <3>1. i \in 1..len /\ i \in Nat /\ 1 <= i /\ i <= len
      BY <1>2
    <3>2. Put(i) <= i - 1
      <4>1. Upto(i) \subseteq 1..(i - 1)
        <5>1. \A j \in 1..len : j <= i /\ j # i => j \in 1..(i - 1)
          BY <1>2, <3>1
        <5>2. \A j \in Upto(i) : j \in 1..len /\ j <= i /\ j # i
          BY <1>2, <2>3
        <5>3. QED
          BY <5>1, <5>2
      <4>2. IsFiniteSet(1..(i - 1)) /\ Cardinality(1..(i - 1)) = i - 1
        <5>1. i - 1 \in Nat
          BY <3>1
        <5>2. Cardinality(1..(i - 1)) = IF 1 > i - 1 THEN 0 ELSE i - 1 - 1 + 1
          BY <5>1, FS_Interval
        <5>3. QED
          BY <5>1, <5>2, FS_Interval
      <4>3. QED
        BY <4>1, <4>2, FS_Subset
    <3>3. Len(t) - Put(i) <= len - i
      <4>1. P \ Upto(i) \subseteq (i + 1)..len
        <5>1. \A j \in 1..len : ~(j <= i) => j \in (i + 1)..len
          BY <1>2, <3>1
        <5>2. \A j \in P \ Upto(i) : j \in 1..len /\ ~(j <= i)
          BY <1>2
        <5>3. QED
          BY <5>1, <5>2
      <4>2. /\ IsFiniteSet((i + 1)..len)
            /\ Cardinality((i + 1)..len) = len - i
        <5>1. i + 1 \in Int /\ len \in Int
          BY <1>2, <3>1
        <5>2. Cardinality((i + 1)..len) =
                IF i + 1 > len THEN 0 ELSE len - (i + 1) + 1
          BY <5>1, FS_Interval
        <5>3. QED
          BY <1>2, <3>1, <5>1, <5>2, FS_Interval
      <4>3. /\ Cardinality(P \ Upto(i)) <= len - i
            /\ Cardinality(P \ Upto(i)) \in Nat
        BY <4>1, <4>2, FS_Subset, FS_CardinalityType
      <4>4. Cardinality(P \ Upto(i)) =
              Cardinality(P) - Cardinality(P \cap Upto(i))
        BY <1>3, <2>1, FS_Difference
      <4>5. P \cap Upto(i) = Upto(i)
        BY <2>1
      <4>6. QED
        BY <1>2, <4>3, <4>4, <4>5
    <3> HIDE DEF Put
    <3>4. i - Put(i) \in 1..Len(s)
      BY <1>1, <2>1, <3>1, <3>2, <3>3 DEF len
    <3>5. QED
      BY <1>1, <2>3, <3>4
  <2>4. QED
    BY <2>2, <2>3
<1> HIDE DEF m, len, Put
<1>6. m \in [1..len -> EntryType]
  BY <1>4, <1>5
<1>7. m \in Seq(EntryType) /\ Len(m) = len
  BY <1>2, <1>6, LenProperties, SeqDef
<1>8. m # <<>>
  BY <1>2, <1>7, EmptySeq
<1>9. QED
  BY <1>7, <1>8 DEF m

\* Chats that were mixed stay so, and the others are not touched.
MixStays ==
  /\ mix' \in [Chat -> Seq(EntryType)] /\ into' \in [Chat -> Chat \cup {None}]
  /\ \A c \in Chat : Mixed(c) => Mixed(c)'

\* They do when no list changes.
LEMMA MixUnchanged ==
  ASSUME ViewTypes, UNCHANGED <<mix, into>>
  PROVE  MixStays
BY DEF ViewTypes, MixStays, Mixed

\* An entry that is added.
LEMMA AddMixes ==
  ASSUME ViewTypes, NEW c \in Chat, Add(c)
  PROVE  MixStays
<1>1. /\ mix \in [Chat -> Seq(EntryType)] /\ log[c] \in Nat
      /\ into \in [Chat -> Chat \cup {None}]
      /\ into' = into
      /\ mix' = IF mix[c] = <<>> THEN mix
                ELSE [mix EXCEPT ![c] = Append(@, Entry(c, log[c] + 1))]
  BY DEF Add, ViewTypes
<1>2. CASE mix[c] = <<>>
  BY <1>1, <1>2 DEF MixStays, Mixed
<1>3. CASE mix[c] # <<>>
  <2> DEFINE e == Entry(c, log[c] + 1)
             s == Append(mix[c], e)
  <2>1. mix' = [mix EXCEPT ![c] = s]
    BY <1>1, <1>3
  <2>2. e \in EntryType /\ mix[c] \in Seq(EntryType)
    BY <1>1, EntryFacts
  <2> HIDE DEF e
  <2>3. s \in Seq(EntryType) /\ s # <<>>
    BY <2>2, AppendProperties, EmptySeq
  <2> HIDE DEF s
  <2>4. /\ mix' \in [Chat -> Seq(EntryType)] /\ mix'[c] = s
        /\ \A d \in Chat : d # c => mix'[d] = mix[d]
    BY <1>1, <2>1, <2>3
  <2>5. QED
    BY <1>1, <2>3, <2>4 DEF MixStays, Mixed
<1>4. QED
  BY <1>2, <1>3

\* Entries that are merged into another chat.
LEMMA JoinMixes ==
  ASSUME ViewTypes, NEW d \in Chat, NEW c \in Chat, Join(d, c)
  PROVE  MixStays /\ moved' \subseteq Regrouping /\ moved \subseteq moved'
           /\ merged' \in Nat
<1>1. PICK E \in (SUBSET ToSet(List(d))) \ {{}} :
        LET s == List(c)
            t == Chosen(List(d), E)
            kept == Chosen(List(d), ToSet(List(d)) \ E)
        IN  /\ merged' = merged + Len(t) /\ merged' <= MaxMerged
            /\ \E P \in kSubset(Len(t), 1..(Len(s) + Len(t))) :
                 /\ ByTime(P, s, t)
                 /\ mix' = [mix EXCEPT ![d] = kept, ![c] = MergedAt(P, s, t)]
            /\ IF kept = <<>>
               THEN /\ moved' = moved \cup {d}
                    /\ into' = [x \in Chat |->
                                  IF d \in {x, into[x]} THEN c ELSE into[x]]
               ELSE UNCHANGED <<moved, into>>
  BY DEF Join
<1> DEFINE s == List(c)
           t == Chosen(List(d), E)
           kept == Chosen(List(d), ToSet(List(d)) \ E)
<1>2. /\ d \in Regrouping /\ c # d /\ c # None
      /\ mix \in [Chat -> Seq(EntryType)] /\ moved \subseteq Regrouping
      /\ into \in [Chat -> Chat \cup {None}] /\ merged \in Nat
  BY ViewConstants DEF Join, ViewTypes
<1>3. s \in Seq(EntryType) /\ List(d) \in Seq(EntryType)
  BY ListTyped
<1>4. /\ t \in Seq(EntryType) /\ ToSet(t) = ToSet(List(d)) \cap E
      /\ kept \in Seq(EntryType)
  BY <1>3, ChosenSet
<1>5. PICK P \in kSubset(Len(t), 1..(Len(s) + Len(t))) :
        mix' = [mix EXCEPT ![d] = kept, ![c] = MergedAt(P, s, t)]
  BY <1>1
<1>0. /\ merged' = merged + Len(t)
      /\ IF kept = <<>>
         THEN /\ moved' = moved \cup {d}
              /\ into' = [x \in Chat |->
                            IF d \in {x, into[x]} THEN c ELSE into[x]]
         ELSE UNCHANGED <<moved, into>>
  BY <1>1
<1> HIDE DEF s, t, kept
<1>6. /\ kept = <<>> =>
           /\ moved' = moved \cup {d}
           /\ into' = [x \in Chat |->
                         IF d \in {x, into[x]} THEN c ELSE into[x]]
      /\ kept # <<>> => moved' = moved /\ into' = into
  BY <1>0, Zenon
<1>13. E # {} /\ E \subseteq ToSet(List(d))
  OBVIOUS
<1>7. t # <<>> /\ Len(t) \in Nat
  BY <1>4, <1>13, SetOfSeq
<1>8. MergedAt(P, s, t) \in Seq(EntryType) /\ MergedAt(P, s, t) # <<>>
  BY <1>3, <1>4, <1>7, MergedTyped
<1>9. /\ mix' \in [Chat -> Seq(EntryType)] /\ mix'[d] = kept
      /\ mix'[c] = MergedAt(P, s, t)
      /\ \A x \in Chat : x \notin {c, d} => mix'[x] = mix[x]
  BY <1>2, <1>4, <1>5, <1>8
<1>10. /\ into' \in [Chat -> Chat \cup {None}]
       /\ \A x \in Chat : into[x] # None => into'[x] # None
       /\ kept = <<>> => into'[d] # None
       /\ moved' \subseteq Regrouping /\ moved \subseteq moved'
  <2>1. CASE kept = <<>>
    BY <1>2, <1>6, <2>1
  <2>2. CASE kept # <<>>
    BY <1>2, <1>6, <2>2
  <2>3. QED
    BY <2>1, <2>2
<1>11. \A x \in Chat : Mixed(x) => Mixed(x)'
  BY <1>8, <1>9, <1>10 DEF Mixed
<1>12. QED
  BY <1>0, <1>2, <1>7, <1>9, <1>10, <1>11 DEF MixStays

\* Steps of the Go side that answer no call.
LEMMA GoTyped ==
  ASSUME ViewTypes, CallsHold,
         UNCHANGED <<calls, viewVars, syncVars, rows, fails, floor, excused>>,
         log' \in [Chat -> Nat], \A c \in Chat : log[c] <= log'[c],
         MixStays, merged' \in Nat, spoilt' \in BOOLEAN,
         moved \subseteq moved', moved' \subseteq Regrouping,
         adding' \in Chat \cup {None}, events' \in Seq(EventType),
         listDue' \in BOOLEAN
  PROVE  ViewTypes' /\ CallsHold'
<1>1. ViewTypes'
  BY DEF ViewTypes, MixStays, viewVars, syncVars
<1>2. ASSUME NEW q \in calls PROVE CallHolds(q)'
  <2>1. /\ CallHolds(q) /\ q.cut \in Nat \cup {-1} /\ q.chat \in Chat
        /\ log[q.chat] \in Nat /\ log'[q.chat] \in Nat
        /\ log[q.chat] <= log'[q.chat]
    BY DEF CallsHold, ViewTypes, CallType
  <2>2. ~Mixed(q.chat)' => q.list = <<>> /\ q.cut <= log'[q.chat]
    <3>1. ~Mixed(q.chat)' => ~Mixed(q.chat)
      BY <2>1 DEF MixStays
    <3>2. q.cut <= log[q.chat] => q.cut <= log'[q.chat]
      BY <2>1
    <3>3. QED
      BY <2>1, <3>1, <3>2 DEF CallHolds
  <2>3. QED
    BY <2>1, <2>2 DEF CallHolds, Current, viewVars
<1>3. CallsHold'
  BY <1>2 DEF CallsHold, FlagsHold, Same, Current, viewVars, syncVars
<1>4. QED
  BY <1>1, <1>3

\* Go reads a page.
LEMMA ReadTyped ==
  ASSUME ViewTypes, CallsHold, NEW q \in calls, Read(q)
  PROVE  ViewTypes' /\ CallsHold'
<1> DEFINE h == Holder(q.chat)
           cut == Len(List(h))
           list == mix[h]
           r == [q EXCEPT !.cut = cut, !.list = list]
<1>1. /\ q.cut < 0 /\ calls' = (calls \ {q}) \cup {r}
      /\ UNCHANGED <<goVars, events, viewVars, syncVars, rows, history>>
  BY DEF Read
<1>2. q \in CallType /\ q.chat \in Chat
  BY DEF ViewTypes, CallType
<1>3. /\ cut \in Nat /\ list \in Seq(EntryType)
      /\ list # <<>> => cut = Len(list)
      /\ ~Mixed(q.chat) => list = <<>> /\ cut = log[q.chat]
  <2>1. h \in Chat /\ (~Mixed(q.chat) => h = q.chat)
    BY <1>2 DEF Holder, Mixed, ViewTypes
  <2>2. mix[h] \in Seq(EntryType)
    BY <2>1 DEF ViewTypes
  <2>3. /\ cut \in Nat
        /\ list = <<>> => cut = log[h]
        /\ list # <<>> => cut = Len(list)
    BY <2>1, ListTyped
  <2>4. list \in Seq(EntryType) /\ (~Mixed(q.chat) => list = <<>>)
    BY <2>1, <2>2 DEF Mixed
  <2> HIDE DEF cut, list, h
  <2>5. QED
    BY <2>1, <2>3, <2>4
<1> HIDE DEF h, cut, list
<1>0. /\ r \in CallType /\ r.what = q.what /\ r.chat = q.chat
      /\ r.token = q.token /\ r.before = q.before /\ r.cut = cut
      /\ r.list = list
  BY <1>2, <1>3 DEF CallType
<1> HIDE DEF r
<1>4. ViewTypes'
  BY <1>0, <1>1 DEF ViewTypes, goVars, viewVars, syncVars, history
<1>5. CallHolds(r)
  <2>1. /\ r.list # <<>> => r.cut = Len(r.list)
        /\ ~Mixed(r.chat) => r.list = <<>> /\ r.cut <= log[r.chat]
    <3>1. log[q.chat] \in Nat
      BY <1>2 DEF ViewTypes
    <3>2. QED
      BY <1>0, <1>3, <3>1
  <2>2. CallHolds(q)
    BY DEF CallsHold
  <2>3. QED
    BY <1>0, <2>1, <2>2 DEF CallHolds, Current
<1>6. \A s \in calls' : CallHolds(s)'
  <2>1. \A s \in calls' : CallHolds(s)
    BY <1>1, <1>5 DEF CallsHold
  <2>2. QED
    BY <1>1, <2>1 DEF CallHolds, Current, Mixed, viewVars, goVars
<1>7. \A s, t \in calls' : Same(s, t)'
  <2>1. \A s \in calls \ {q} : Same(s, r) /\ Same(r, s)
    BY <1>0 DEF CallsHold, Same, Current
  <2>2. \A s, t \in calls' : Same(s, t)
    <3>1. Same(r, r)
      BY DEF Same
    <3>2. QED
      BY <1>1, <2>1, <3>1 DEF CallsHold
  <2>3. QED
    BY <1>1, <2>2 DEF Same, Current, viewVars
<1>8. syncing' <=> \E s \in calls' : s.what = "sync"
  BY <1>0, <1>1 DEF CallsHold, syncVars
<1>9. QED
  BY <1>1, <1>4, <1>6, <1>7, <1>8 DEF CallsHold, FlagsHold, viewVars

\* A chat is opened, and there is a call for its first page.
LEMMA OpenKeyTyped ==
  ASSUME ViewTypes, CallsHold, NEW k \in KeyType, OpenKey(k),
         NEW rest, rest \subseteq calls,
         calls' = rest \cup {Call("open", k.chat, token + 1, 0)},
         syncing' <=> \E q \in rest : q.what = "sync",
         syncing' \in BOOLEAN, syncAgain' \in BOOLEAN,
         UNCHANGED <<goVars, events, rows, fails>>
  PROVE  ViewTypes' /\ CallsHold'
<1>0. PICK n : n = Call("open", k.chat, token + 1, 0)
  OBVIOUS
<1>1. /\ token' = token + 1 /\ key' = k /\ shown' = <<>> /\ next' = NoPage
      /\ older' = FALSE /\ pending' = <<>> /\ loading' = TRUE
      /\ excused' = {} /\ floor' = 1 /\ spoilt' \in BOOLEAN
  BY DEF OpenKey
<1>2. token \in Nat /\ k.chat \in Chat /\ k # NoKey /\ 0 \in Nat
  BY KeyFacts DEF ViewTypes
<1>3. token + 1 \in Nat /\ "open" \in {"open", "older", "sync"}
  BY <1>2
<1>4. /\ n \in CallType /\ n.what = "open" /\ n.chat = k.chat
      /\ n.token = token + 1 /\ n.before = 0 /\ n.cut = -1
      /\ n.list = <<>>
  BY <1>0, <1>2, <1>3, CallFacts
<1>5. calls' = rest \cup {n}
  BY <1>0
<1>6. ViewTypes'
  <2>1. <<>> \in Seq(EntryType)
    BY EmptySeq
  <2>2. calls' \subseteq CallType
    BY <1>4, <1>5 DEF ViewTypes
  <2>3. 1 \in Nat \ {0}
    OBVIOUS
  <2>4. QED
    BY <1>1, <1>3, <2>1, <2>2, <2>3 DEF ViewTypes, goVars
<1>7. \A q \in rest : CallHolds(q)' /\ ~Current(q)'
  <2> SUFFICES ASSUME NEW q \in rest PROVE CallHolds(q)' /\ ~Current(q)'
    OBVIOUS
  <2>1. CallHolds(q) /\ q.token \in Nat
    BY DEF CallsHold, ViewTypes, CallType
  <2>2. q.token < token' /\ q.token <= token'
    BY <1>1, <1>2, <2>1 DEF CallHolds
  <2>3. ~Current(q)'
    BY <1>1, <1>2, <2>1, <2>2 DEF Current
  <2>4. QED
    BY <2>1, <2>2, <2>3 DEF CallHolds, Mixed, goVars
<1>8. CallHolds(n)'
  <2>1. log[n.chat] \in Nat /\ log' = log
    BY <1>2, <1>4 DEF ViewTypes, goVars
  <2>2. n.cut <= log'[n.chat] /\ n.token <= token'
    BY <1>1, <1>2, <1>4, <2>1
  <2>3. n.what = "open" /\ n.before = 0 /\ loading' /\ key' # NoKey
          /\ n.chat = key'.chat
    BY <1>1, <1>2, <1>4
  <2>4. QED
    BY <1>4, <2>2, <2>3 DEF CallHolds
<1>9. \A q, r \in calls' : Same(q, r)'
  BY <1>4, <1>5, <1>7 DEF Same, CallsHold
<1>10. syncing' <=> \E q \in calls' : q.what = "sync"
  BY <1>4, <1>5
<1>11. QED
  <2>1. FlagsHold'
    BY <1>1, <1>2 DEF FlagsHold
  <2>2. QED
    BY <1>5, <1>6, <1>7, <1>8, <1>9, <1>10, <2>1 DEF CallsHold

\* The user selects a chat.
LEMMA OpenTyped ==
  ASSUME ViewTypes, CallsHold, NEW c \in Chat, Open(c)
  PROVE  ViewTypes' /\ CallsHold'
<1> DEFINE b == c \in rows
           k == Key(c, b)
<1>1. /\ OpenKey(k) /\ calls' = calls \cup {Call("open", c, token + 1, 0)}
      /\ UNCHANGED <<goVars, events, syncVars, rows, fails>>
  BY DEF Open
<1>2. b \in BOOLEAN
  OBVIOUS
<1> HIDE DEF b
<1>3. k \in KeyType /\ k.chat = c
  BY <1>2, KeyFacts
<1> HIDE DEF k
<1>4. /\ syncing' <=> \E q \in calls : q.what = "sync"
      /\ syncing' \in BOOLEAN /\ syncAgain' \in BOOLEAN
  BY <1>1 DEF CallsHold, ViewTypes, syncVars
<1>5. calls' = calls \cup {Call("open", k.chat, token + 1, 0)}
  BY <1>1, <1>3
<1>6. QED
  BY <1>1, <1>3, <1>4, <1>5, OpenKeyTyped

\* The user scrolls up.
LEMMA ScrollTyped ==
  ASSUME ViewTypes, CallsHold, Scroll
  PROVE  ViewTypes' /\ CallsHold'
<1>0. PICK n : n = Call("older", key.chat, token, next)
  OBVIOUS
<1>1. /\ ~older /\ ~loading /\ next >= 0 /\ key # NoKey /\ older' = TRUE
      /\ calls' = calls \cup {n}
      /\ UNCHANGED <<goVars, events, key, shown, next, pending, loading, token,
                     syncVars, rows, history>>
  BY <1>0 DEF Scroll
<1>2. key \in KeyType /\ key.chat \in Chat /\ next \in Nat \ {0}
        /\ token \in Nat
  BY <1>1, KeyFacts DEF ViewTypes, NoPage
<1>3. /\ n \in CallType /\ n.what = "older" /\ n.chat = key.chat
      /\ n.token = token /\ n.before = next /\ n.cut = -1
      /\ n.list = <<>>
  <2>1. PICK c \in Chat, b \in Nat : c = key.chat /\ b = next
    BY <1>2
  <2>2. n = Call("older", c, token, b)
    BY <1>0, <2>1
  <2>3. QED
    BY <1>2, <2>1, <2>2, CallFacts
<1>4. ViewTypes'
  BY <1>1, <1>3 DEF ViewTypes, goVars, syncVars, history
<1>5. CallHolds(n)'
  <2>1. log[n.chat] \in Nat /\ next # NoPage
    BY <1>2, <1>3 DEF ViewTypes, NoPage
  <2>2. n.cut <= log'[n.chat] /\ n.token <= token'
    BY <1>1, <1>2, <1>3, <2>1 DEF goVars
  <2>3. /\ n.what = "older" /\ n.before # 0 /\ ~loading' /\ older'
        /\ key' # NoKey /\ n.chat = key'.chat /\ next' # NoPage
    BY <1>1, <1>2, <1>3, <2>1
  <2>4. QED
    BY <1>3, <2>2, <2>3 DEF CallHolds
<1>6. \A q \in calls : CallHolds(q)'
  BY <1>1 DEF CallsHold, CallHolds, Current, Mixed, goVars
<1>7. \A q, r \in calls' : Same(q, r)'
  <2>1. \A q \in calls : q.what = n.what => ~Current(q)
    BY <1>1, <1>3 DEF CallsHold, CallHolds
  <2>2. \A q, r \in calls' : Same(q, r)
    BY <1>1, <1>3, <2>1 DEF CallsHold, Same
  <2>3. QED
    BY <1>1, <2>2 DEF Same, Current
<1>8. syncing' <=> \E q \in calls' : q.what = "sync"
  BY <1>1, <1>3 DEF CallsHold, syncVars
<1>9. QED
  BY <1>1, <1>4, <1>5, <1>6, <1>7, <1>8 DEF CallsHold, FlagsHold

\* The key of the next older page, as entries arrive.
LEMMA ShiftedFacts ==
  ASSUME NEW b \in (Nat \ {0}) \cup {NoPage}, NEW k \in Nat
  PROVE  /\ Shifted(b, k) \in (Nat \ {0}) \cup {NoPage}
         /\ Shifted(b, k) = NoPage <=> b = NoPage
BY DEF Shifted, NoPage

\* A refresh that was just asked for.
Fresh(r) ==
  /\ key \in KeyType /\ r \in CallType /\ r.what = "sync" /\ r.chat = key.chat
  /\ r.token = token /\ r.before = 0 /\ r.cut = -1 /\ r.list = <<>>

\* Calls that were there or are new, when the view's flags say the same.
LEMMA CallsKept ==
  ASSUME ViewTypes, CallsHold, UNCHANGED <<log, mix, into, key, token>>,
         \A r \in calls' : r \in calls \/ Fresh(r),
         \A r \in calls' : Current(r) =>
           /\ r.what = "open" <=> loading'
           /\ r.what = "older" => older' /\ next' # NoPage
  PROVE  /\ \A r \in calls' : CallHolds(r)'
         /\ calls' \subseteq CallType
<1>1. ASSUME NEW r \in calls' PROVE CallHolds(r)'
  <2>1. /\ Current(r)' <=> Current(r)
        /\ Current(r) => (r.what = "open" <=> loading')
        /\ Current(r) => (r.what = "older" => older' /\ next' # NoPage)
    BY DEF Current
  <2>2. CASE r \in calls
    <3>1. CallHolds(r)
      BY <2>2 DEF CallsHold
    <3>2. QED
      BY <2>1, <3>1 DEF CallHolds, Mixed
  <2>3. CASE Fresh(r)
    <3>1. /\ r.token = token /\ r.cut = -1 /\ r.chat = key.chat /\ key # NoKey
          /\ r.what = "sync" /\ r.before = 0 /\ key.chat \in Chat
          /\ r.list = <<>>
      BY <2>3, KeyFacts DEF Fresh
    <3>2. log[r.chat] \in Nat /\ token \in Nat
      BY <3>1 DEF ViewTypes
    <3>3. r.token <= token' /\ r.cut <= log'[r.chat]
      BY <3>1, <3>2
    <3>4. r.what # "older" /\ key' # NoKey /\ r.chat = key'.chat
      BY <3>1
    <3>5. QED
      BY <2>1, <3>1, <3>3, <3>4 DEF CallHolds
  <2>4. QED
    BY <2>2, <2>3
<1>2. calls' \subseteq CallType
  BY DEF ViewTypes, Fresh
<1>3. QED
  BY <1>1, <1>2

\* A refresh of the open chat.
LEMMA FreshFacts ==
  ASSUME ViewTypes, key \in KeyType
  PROVE  LET r == Call("sync", key.chat, token, 0)
         IN  Fresh(r) /\ Current(r) /\ r.what = "sync"
<1>1. key.chat \in Chat /\ token \in Nat /\ 0 \in Nat
        /\ "sync" \in {"open", "older", "sync"}
  BY KeyFacts DEF ViewTypes
<1>2. QED
  BY <1>1, CallFacts DEF Fresh, Current

\* A refresh ends: another one follows if it was asked for.
LEMMA SyncAgainTyped ==
  ASSUME ViewTypes, CallsHold, NEW q \in calls, q.what = "sync",
         SyncAgain(q, token, calls \ {q}), token' = token
  PROVE  /\ syncing' \in BOOLEAN /\ syncAgain' \in BOOLEAN
         /\ syncing' <=> \E r \in calls' : r.what = "sync"
         /\ \A r \in calls' : r \in calls \ {q} \/ Fresh(r)
         /\ \A r, s \in calls' : Same(r, s)'
<1>1. \A r \in calls \ {q} : r.what # "sync"
  BY DEF CallsHold, Same
<1>2. \A r, s \in calls : Same(r, s)
  BY DEF CallsHold
<1>3. CASE syncAgain /\ q.token = token
  <2>1. PICK n : n = Call("sync", key.chat, token, 0)
    OBVIOUS
  <2>2. /\ syncing' = TRUE /\ syncAgain' = FALSE
        /\ calls' = (calls \ {q}) \cup {n}
    BY <1>3, <2>1 DEF SyncAgain
  <2>3. key \in KeyType
    BY <1>3, KeyFacts DEF CallsHold, CallHolds, Current, ViewTypes
  <2>4. Fresh(n) /\ n.what = "sync"
    BY <2>1, <2>3, FreshFacts
  <2>5. \A r, s \in calls' : Same(r, s)
    BY <1>1, <1>2, <2>2, <2>4 DEF Same
  <2>6. \A r, s \in calls' : Same(r, s)'
    BY <2>5 DEF Same, Current
  <2>7. QED
    BY <2>2, <2>4, <2>6
<1>4. CASE ~(syncAgain /\ q.token = token)
  <2>1. syncing' = FALSE /\ calls' = calls \ {q} /\ syncAgain' = syncAgain
    BY <1>4 DEF SyncAgain
  <2>2. \A r, s \in calls' : Same(r, s)'
    BY <1>2, <2>1 DEF Same, Current
  <2>3. QED
    BY <1>1, <2>1, <2>2 DEF ViewTypes
<1>5. QED
  BY <1>3, <1>4

\* A call of another chat is answered or fails.
LEMMA StaleTyped ==
  ASSUME ViewTypes, CallsHold, NEW q \in calls, StaleAnswer(q),
         UNCHANGED <<goVars, events, rows>>
  PROVE  ViewTypes' /\ CallsHold'
<1>1. UNCHANGED <<key, shown, next, pending, loading, older, token, fails,
                  floor, excused, spoilt, log, mix, into, moved, merged,
                  adding, listDue, events, rows>>
  BY DEF StaleAnswer, viewVars, history, goVars
<1>2. /\ syncing' \in BOOLEAN /\ syncAgain' \in BOOLEAN
      /\ syncing' <=> \E r \in calls' : r.what = "sync"
      /\ \A r \in calls' : r \in calls \ {q} \/ Fresh(r)
      /\ \A r, s \in calls' : Same(r, s)'
  <2>1. CASE q.what = "sync"
    <3>1. SyncAgain(q, token, calls \ {q})
      BY <2>1 DEF StaleAnswer
    <3>2. QED
      BY <1>1, <2>1, <3>1, SyncAgainTyped
  <2>2. CASE q.what # "sync"
    <3>1. calls' = calls \ {q} /\ syncing' = syncing /\ syncAgain' = syncAgain
      BY <2>2 DEF StaleAnswer, syncVars
    <3>2. \A r, s \in calls' : Same(r, s)'
      BY <1>1, <3>1 DEF CallsHold, Same, Current
    <3>3. syncing <=> \E r \in calls : r.what = "sync"
      BY DEF CallsHold
    <3>4. QED
      BY <2>2, <3>1, <3>2, <3>3 DEF ViewTypes
  <2>3. QED
    BY <2>1, <2>2
<1>3. \A r \in calls' : Current(r) =>
        /\ r.what = "open" <=> loading'
        /\ r.what = "older" => older' /\ next' # NoPage
  <2>1. calls' \subseteq calls
    <3>1. Stale(q) /\ (q.what # "sync" => calls' = calls \ {q})
      BY DEF StaleAnswer
    <3>2. q.what = "sync" => calls' = calls \ {q}
      BY <3>1 DEF StaleAnswer, SyncAgain, Stale
    <3>3. QED
      BY <3>1, <3>2
  <2>2. QED
    BY <1>1, <2>1 DEF CallsHold, CallHolds
<1>4. (\A r \in calls' : CallHolds(r)') /\ calls' \subseteq CallType
  BY <1>1, <1>2, <1>3, CallsKept
<1>5. ViewTypes'
  BY <1>1, <1>2, <1>4 DEF ViewTypes
<1>6. FlagsHold'
  BY <1>1 DEF CallsHold, FlagsHold
<1>7. QED
  BY <1>2, <1>4, <1>5, <1>6 DEF CallsHold

\* The first page comes.
LEMMA FirstPageTyped ==
  ASSUME ViewTypes, CallsHold, NEW q \in calls, q.cut >= 0, FirstPage(q),
         calls' = calls \ {q}, UNCHANGED <<goVars, events, rows>>
  PROVE  ViewTypes' /\ CallsHold'
<1> DEFINE p == PageOf(q)
           later == Unseen(p.messages)
<1>1. /\ q.what = "open" /\ Current(q) /\ shown' = p.messages \o later
      /\ next' = Shifted(p.next, Len(later)) /\ floor' = p.first
      /\ pending' = <<>> /\ loading' = FALSE
      /\ spoilt' \in BOOLEAN
      /\ UNCHANGED <<key, older, token, syncing, syncAgain, fails, excused>>
  BY DEF FirstPage, syncVars, Current
<1>2. UNCHANGED <<log, mix, into, moved, merged, adding, listDue, events,
        rows>>
  BY DEF goVars
<1>3. q \in CallType /\ q.cut \in Nat /\ (q.list # <<>> => q.cut = Len(q.list))
  BY DEF ViewTypes, CallType, CallsHold, CallHolds
<1>4. /\ p.messages \in Seq(EntryType) /\ p.first \in Nat \ {0}
      /\ p.next \in (Nat \ {0}) \cup {NoPage}
      /\ p.next # NoPage => p.messages # <<>>
  BY <1>3, PageTyped
<1>5. later \in Seq(EntryType) /\ Len(later) \in Nat
  <2>1. pending \in Seq(EntryType)
    BY DEF ViewTypes
  <2>2. later \in Seq(EntryType)
    BY <2>1, ChosenSet DEF Unseen
  <2>3. QED
    BY <2>2, SetOfSeq
<1> HIDE DEF p, later
<1>6. /\ next' \in (Nat \ {0}) \cup {NoPage}
      /\ next' = NoPage <=> p.next = NoPage
  BY <1>1, <1>4, <1>5, ShiftedFacts
<1>7. shown' \in Seq(EntryType) /\ (p.messages # <<>> => shown' # <<>>)
  <2>1. ToSet(shown') = ToSet(p.messages) \cup ToSet(later)
          /\ shown' \in Seq(EntryType)
    BY <1>1, <1>4, <1>5, ConcatSet
  <2>2. shown' = <<>> => p.messages = <<>>
    <3>1. /\ shown' = <<>> <=> ToSet(shown') = {}
          /\ p.messages = <<>> <=> ToSet(p.messages) = {}
      BY <1>4, <2>1, SetOfSeq
    <3>2. QED
      BY <2>1, <3>1
  <2>3. QED
    BY <2>1, <2>2
<1>8. \A r \in calls' : r \in calls /\ ~Current(r)
        /\ (r.what = "sync" => r # q)
  BY <1>1 DEF CallsHold, CallHolds, Same
<1>9. (\A r \in calls' : CallHolds(r)') /\ calls' \subseteq CallType
  BY <1>1, <1>2, <1>8, CallsKept
<1>10. ViewTypes'
  <2>1. <<>> \in Seq(EntryType)
    BY EmptySeq
  <2>2. QED
    BY <1>1, <1>2, <1>4, <1>6, <1>7, <1>9, <2>1 DEF ViewTypes
<1>11. FlagsHold'
  BY <1>1, <1>4, <1>6, <1>7 DEF CallsHold, CallHolds, FlagsHold
<1>12. \A r, s \in calls' : Same(r, s)'
  BY <1>1 DEF CallsHold, Same, Current
<1>13. syncing' <=> \E r \in calls' : r.what = "sync"
  BY <1>1 DEF CallsHold
<1>14. QED
  BY <1>9, <1>10, <1>11, <1>12, <1>13 DEF CallsHold

\* A call for the first or an older page ends, and the list stays.
LEMMA EndTyped ==
  ASSUME ViewTypes, CallsHold, NEW q \in calls, calls' = calls \ {q},
         q.what \in {"open", "older"}, Current(q),
         UNCHANGED <<goVars, events, rows, key, shown, next, token, syncVars,
                     floor, spoilt>>,
         pending' = <<>>, excused' \subseteq EntryType, fails' \in 0..MaxFails,
         loading' = FALSE, q.what = "older" => older' = FALSE,
         older' \in BOOLEAN, q.what = "open" => older' = older
  PROVE  ViewTypes' /\ CallsHold'
<1>1. UNCHANGED <<log, mix, into, moved, merged, adding, listDue, syncing,
        syncAgain>>
  BY DEF goVars, syncVars
<1>2. \A r \in calls' : r \in calls /\ (Current(r) => r.what # q.what)
  BY DEF CallsHold, Same
<1>3. \A r \in calls' : Current(r) => r.what # "open" /\ r.what # "older"
  BY <1>2 DEF CallsHold, CallHolds
<1>4. (\A r \in calls' : CallHolds(r)') /\ calls' \subseteq CallType
  BY <1>1, <1>2, <1>3, CallsKept
<1>5. ViewTypes'
  <2>1. <<>> \in Seq(EntryType)
    BY EmptySeq
  <2>2. QED
    BY <1>1, <1>4, <2>1 DEF ViewTypes
<1>6. FlagsHold'
  BY DEF CallsHold, CallHolds, FlagsHold
<1>7. \A r, s \in calls' : Same(r, s)'
  BY DEF CallsHold, Same, Current
<1>8. syncing' <=> \E r \in calls' : r.what = "sync"
  BY <1>1 DEF CallsHold
<1>9. QED
  BY <1>4, <1>5, <1>6, <1>7, <1>8 DEF CallsHold

\* Entries that are in no event any more.
LEMMA DeliveredType ==
  ASSUME ViewTypes, NEW c \in Chat
  PROVE  Delivered(c) \subseteq EntryType
<1>1. Holder(c) \in Chat
  BY DEF Holder, ViewTypes
<1>2. ToSet(List(Holder(c))) \subseteq EntryType
  BY <1>1, ListTyped, SetOfSeq
<1>3. QED
  BY <1>2 DEF Delivered

\* An older page comes.
LEMMA OlderPageTyped ==
  ASSUME ViewTypes, CallsHold, NEW q \in calls, q.cut >= 0, OlderPage(q),
         calls' = calls \ {q}, UNCHANGED <<goVars, events, rows>>
  PROVE  /\ ViewTypes' /\ CallsHold' /\ shown # <<>> /\ key \in KeyType
         /\ q.chat = key.chat
         /\ ~Mixed(q.chat) => q.list = <<>> /\ q.cut <= log[q.chat]
<1> DEFINE p == PageOf(q)
           new == NotHad(p.messages)
<1>1. /\ q.what = "older" /\ Current(q) /\ shown' = new \o shown
      /\ next' = p.next /\ older' = FALSE
      /\ spoilt' \in BOOLEAN
      /\ UNCHANGED <<key, pending, loading, token, syncing, syncAgain, fails,
                     floor, excused>>
  BY DEF OlderPage, syncVars, Current
<1>2. UNCHANGED <<log, mix, into, moved, merged, adding, listDue, events,
        rows>>
  BY DEF goVars
<1>3. q \in CallType /\ q.cut \in Nat /\ (q.list # <<>> => q.cut = Len(q.list))
  BY DEF ViewTypes, CallType, CallsHold, CallHolds
<1>4. p.messages \in Seq(EntryType) /\ p.next \in (Nat \ {0}) \cup {NoPage}
  BY <1>3, PageTyped
<1>5. new \in Seq(EntryType)
  BY <1>4, ChosenSet DEF NotHad
<1> HIDE DEF p, new
<1>6. /\ next # NoPage /\ shown # <<>> /\ ~loading /\ key # NoKey
      /\ q.chat = key.chat
      /\ ~Mixed(q.chat) => q.list = <<>> /\ q.cut <= log[q.chat]
  BY <1>1 DEF CallsHold, CallHolds, FlagsHold
<1>7. shown' \in Seq(EntryType) /\ shown' # <<>>
  <2>1. shown \in Seq(EntryType)
    BY DEF ViewTypes
  <2>2. ToSet(shown') = ToSet(new) \cup ToSet(shown)
          /\ shown' \in Seq(EntryType)
    BY <1>1, <1>5, <2>1, ConcatSet
  <2>3. /\ shown' = <<>> <=> ToSet(shown') = {}
        /\ shown = <<>> <=> ToSet(shown) = {}
    BY <2>1, <2>2, SetOfSeq
  <2>4. QED
    BY <1>6, <2>2, <2>3
<1>8. \A r \in calls' : r \in calls /\ (Current(r) => r.what # "older")
  BY <1>1 DEF CallsHold, Same
<1>9. (\A r \in calls' : CallHolds(r)') /\ calls' \subseteq CallType
  <2>1. \A r \in calls' : Current(r) => (r.what = "open" <=> loading')
    BY <1>1 DEF CallsHold, CallHolds
  <2>2. QED
    BY <1>1, <1>2, <1>8, <2>1, CallsKept
<1>10. ViewTypes'
  BY <1>1, <1>2, <1>4, <1>7, <1>9 DEF ViewTypes
<1>11. FlagsHold'
  BY <1>1, <1>6, <1>7 DEF CallsHold, FlagsHold
<1>12. \A r, s \in calls' : Same(r, s)'
  BY <1>1 DEF CallsHold, Same, Current
<1>13. syncing' <=> \E r \in calls' : r.what = "sync"
  BY <1>1 DEF CallsHold
<1>14. CallsHold'
  BY <1>9, <1>11, <1>12, <1>13 DEF CallsHold
<1>15. key \in KeyType
  BY <1>6 DEF ViewTypes
<1>16. QED
  BY <1>6, <1>10, <1>14, <1>15

\* The call for the first or an older page fails.
LEMMA PageFailsTyped ==
  ASSUME ViewTypes, CallsHold, NEW q \in calls, FirstPageFails(q)
           \/ OlderPageFails(q),
         fails < MaxFails, fails' = fails + 1,
         calls' = calls \ {q}, UNCHANGED <<goVars, events, rows>>
  PROVE  ViewTypes' /\ CallsHold' /\ Current(q) /\ shown' = shown
<1>1. /\ q.what \in {"open", "older"} /\ Current(q)
      /\ UNCHANGED <<key, shown, next, token, syncVars, floor, spoilt>>
  BY DEF FirstPageFails, OlderPageFails, Current
<1>2. /\ loading \in BOOLEAN /\ older \in BOOLEAN /\ q.chat \in Chat
      /\ fails' \in 0..MaxFails
  BY ViewConstants DEF ViewTypes, CallType
<1>3. CASE FirstPageFails(q)
  <2>1. /\ q.what = "open" /\ pending' = <<>> /\ loading' = FALSE
        /\ excused' = Delivered(q.chat) /\ older' = older
    BY <1>3 DEF FirstPageFails
  <2>2. excused' \subseteq EntryType
    BY <1>2, <2>1, DeliveredType
  <2>3. ViewTypes' /\ CallsHold'
    BY <1>1, <1>2, <2>1, <2>2, EndTyped
  <2>4. QED
    BY <1>1, <2>3
<1>4. CASE OlderPageFails(q)
  <2>1. /\ q.what = "older" /\ older' = FALSE
        /\ UNCHANGED <<pending, loading, excused>>
    BY <1>4 DEF OlderPageFails
  <2>2. loading = FALSE /\ pending = <<>> /\ excused \subseteq EntryType
    BY <1>1, <1>2, <2>1 DEF CallsHold, CallHolds, FlagsHold, ViewTypes
  <2>3. ViewTypes' /\ CallsHold'
    BY <1>1, <1>2, <2>1, <2>2, EndTyped
  <2>4. QED
    BY <1>1, <2>3
<1>5. QED
  BY <1>3, <1>4

\* A refresh that reloads the chat.
Reloads(q) == shown # <<>> /\ Last(shown) \notin ToSet(PageOf(q).messages)

\* A refresh comes: the chat is reloaded, or the view gets what is new.
LEMMA SyncPageCases ==
  ASSUME NEW q, SyncPage(q)
  PROVE  /\ q.what = "sync" /\ Current(q) /\ fails' = fails
         /\ Reloads(q) =>
              /\ OpenKey(key)
              /\ q.token # token + 1 =>
                   /\ calls' = (calls \ {q})
                                 \cup {Call("open", key.chat, token + 1, 0)}
                   /\ syncing' = FALSE /\ syncAgain' = syncAgain
         /\ ~Reloads(q) =>
              /\ SyncAgain(q, token, calls \ {q})
              /\ LET fresh == IF shown = <<>> THEN PageOf(q).messages
                              ELSE After(PageOf(q).messages, Last(shown))
                 IN  shown' = shown \o fresh
                   /\ next' = Shifted(next, Len(fresh))
              /\ spoilt' = (spoilt \/ Swamps(q))
              /\ UNCHANGED <<key, pending, loading, older, token, floor,
                             excused>>
BY DEF SyncPage, Reloads, Current, SyncAgain

\* The chat is reloaded.
LEMMA ReloadTyped ==
  ASSUME ViewTypes, CallsHold, NEW q \in calls, SyncPage(q), Reloads(q),
         UNCHANGED <<goVars, events, rows>>
  PROVE  /\ ViewTypes' /\ CallsHold' /\ OpenKey(key) /\ syncAgain' = syncAgain
         /\ calls' = (calls \ {q}) \cup {Call("open", key.chat, token + 1, 0)}
         /\ key \in KeyType /\ syncing' = FALSE
<1>1. /\ q.what = "sync" /\ Current(q) /\ fails' = fails /\ OpenKey(key)
      /\ q.token # token + 1 =>
           /\ calls' = (calls \ {q})
                \cup {Call("open", key.chat, token + 1, 0)}
           /\ syncing' = FALSE /\ syncAgain' = syncAgain
  BY SyncPageCases
<1>2. token \in Nat /\ q.token = token /\ key # NoKey /\ syncAgain \in BOOLEAN
  BY <1>1 DEF ViewTypes, CallsHold, CallHolds, Current
<1>3. q.token # token + 1
  BY <1>2
<1>4. key \in KeyType
  BY <1>2 DEF ViewTypes
<1>5. \A r \in calls \ {q} : r.what # "sync"
  BY <1>1 DEF CallsHold, Same
<1>6. PICK k \in KeyType : k = key
  BY <1>4
<1>7. PICK rest : rest = calls \ {q}
  OBVIOUS
<1>8. /\ OpenKey(k) /\ calls' = rest \cup {Call("open", k.chat, token + 1, 0)}
      /\ syncing' = FALSE /\ syncAgain' = syncAgain /\ rest \subseteq calls
      /\ \A r \in rest : r.what # "sync"
  BY <1>1, <1>3, <1>5, <1>6, <1>7
<1>9. /\ syncing' <=> \E r \in rest : r.what = "sync"
      /\ syncing' \in BOOLEAN /\ syncAgain' \in BOOLEAN
  BY <1>2, <1>8
<1>10. ViewTypes' /\ CallsHold'
  BY <1>1, <1>8, <1>9, OpenKeyTyped
<1>11. QED
  BY <1>1, <1>3, <1>4, <1>8, <1>7, <1>10

\* The view gets what is new.
LEMMA RefreshTyped ==
  ASSUME ViewTypes, CallsHold, NEW q \in calls, q.cut >= 0, SyncPage(q),
         ~Reloads(q), UNCHANGED <<goVars, events, rows>>
  PROVE  ViewTypes' /\ CallsHold'
<1> DEFINE p == PageOf(q)
           fresh == IF shown = <<>> THEN p.messages
                    ELSE After(p.messages, Last(shown))
<1>1. /\ q.what = "sync" /\ Current(q) /\ fails' = fails
      /\ SyncAgain(q, token, calls \ {q})
      /\ shown' = shown \o fresh /\ next' = Shifted(next, Len(fresh))
      /\ spoilt' \in BOOLEAN
      /\ UNCHANGED <<key, pending, loading, older, token, floor, excused>>
  BY SyncPageCases
<1>2. UNCHANGED <<log, mix, into, moved, merged, adding, listDue, events,
        rows>>
  BY DEF goVars
<1>3. q \in CallType /\ q.cut \in Nat /\ shown \in Seq(EntryType)
        /\ next \in (Nat \ {0}) \cup {NoPage}
        /\ (q.list # <<>> => q.cut = Len(q.list))
  BY DEF ViewTypes, CallType, CallsHold, CallHolds
<1>4. p.messages \in Seq(EntryType)
  BY <1>3, PageTyped
<1>5. fresh \in Seq(EntryType) /\ Len(fresh) \in Nat
  <2>1. CASE shown = <<>>
    BY <1>4, <2>1, SetOfSeq
  <2>2. CASE shown # <<>>
    <3>1. Last(shown) \in ToSet(p.messages)
      BY <2>2 DEF Reloads
    <3> HIDE DEF p
    <3>2. After(p.messages, Last(shown)) \in Seq(EntryType)
      BY <1>4, <3>1, AfterTyped
    <3>3. QED
      BY <2>2, <3>2, SetOfSeq
  <2>3. QED
    BY <2>1, <2>2
<1> HIDE DEF p, fresh
<1>6. shown' \in Seq(EntryType) /\ (shown # <<>> => shown' # <<>>)
  <2>1. ToSet(shown') = ToSet(shown) \cup ToSet(fresh)
          /\ shown' \in Seq(EntryType)
    BY <1>1, <1>3, <1>5, ConcatSet
  <2>2. /\ shown' = <<>> <=> ToSet(shown') = {}
        /\ shown = <<>> <=> ToSet(shown) = {}
    BY <1>3, <2>1, SetOfSeq
  <2>3. QED
    BY <2>1, <2>2
<1>7. /\ next' \in (Nat \ {0}) \cup {NoPage}
      /\ next' = NoPage <=> next = NoPage
  BY <1>1, <1>3, <1>5, ShiftedFacts
<1>8. /\ syncing' \in BOOLEAN /\ syncAgain' \in BOOLEAN
      /\ syncing' <=> \E r \in calls' : r.what = "sync"
      /\ \A r \in calls' : r \in calls \ {q} \/ Fresh(r)
      /\ \A r, s \in calls' : Same(r, s)'
  BY <1>1, SyncAgainTyped
<1>9. loading = FALSE
  BY <1>1 DEF CallsHold, CallHolds, ViewTypes
<1>10. (\A r \in calls' : CallHolds(r)') /\ calls' \subseteq CallType
  <2>1. \A r \in calls' : Current(r) =>
          /\ r.what = "open" <=> loading'
          /\ r.what = "older" => older' /\ next' # NoPage
    BY <1>1, <1>7, <1>8, <1>9 DEF CallsHold, CallHolds, Fresh
  <2>2. QED
    BY <1>1, <1>2, <1>8, <2>1, CallsKept
<1>11. ViewTypes'
  BY <1>1, <1>2, <1>6, <1>7, <1>8, <1>10 DEF ViewTypes
<1>12. FlagsHold'
  BY <1>1, <1>6, <1>7, <1>9 DEF CallsHold, CallHolds, FlagsHold
<1>13. QED
  BY <1>8, <1>10, <1>11, <1>12 DEF CallsHold

\* A refresh fails.
LEMMA SyncFailsTyped ==
  ASSUME ViewTypes, CallsHold, NEW q \in calls, SyncFails(q),
         fails < MaxFails, fails' = fails + 1, UNCHANGED <<goVars, events,
           rows>>
  PROVE  ViewTypes' /\ CallsHold'
<1>1. /\ q.what = "sync" /\ Current(q) /\ SyncAgain(q, token, calls \ {q})
      /\ UNCHANGED <<key, shown, next, pending, loading, older, token, floor,
                     spoilt>>
      /\ excused' = excused \cup (Delivered(q.chat) \ ToSet(shown))
  BY DEF SyncFails, viewVars, Current
<1>2. UNCHANGED <<log, mix, into, moved, merged, adding, listDue, events,
        rows>>
  BY DEF goVars
<1>3. excused' \subseteq EntryType /\ fails' \in 0..MaxFails
  <2>1. q.chat \in Chat
    BY DEF ViewTypes, CallType
  <2>2. Delivered(q.chat) \subseteq EntryType
    BY <2>1, DeliveredType
  <2>3. fails' \in 0..MaxFails
    BY ViewConstants DEF ViewTypes
  <2>4. excused \subseteq EntryType
    BY DEF ViewTypes
  <2>5. QED
    BY <1>1, <2>2, <2>3, <2>4
<1>4. /\ syncing' \in BOOLEAN /\ syncAgain' \in BOOLEAN
      /\ syncing' <=> \E r \in calls' : r.what = "sync"
      /\ \A r \in calls' : r \in calls \ {q} \/ Fresh(r)
      /\ \A r, s \in calls' : Same(r, s)'
  BY <1>1, SyncAgainTyped
<1>5. loading = FALSE
  BY <1>1 DEF CallsHold, CallHolds, ViewTypes
<1>6. (\A r \in calls' : CallHolds(r)') /\ calls' \subseteq CallType
  <2>1. \A r \in calls' : Current(r) =>
          /\ r.what = "open" <=> loading'
          /\ r.what = "older" => older' /\ next' # NoPage
    BY <1>1, <1>4, <1>5 DEF CallsHold, CallHolds, Fresh
  <2>2. QED
    BY <1>1, <1>2, <1>4, <2>1, CallsKept
<1>7. ViewTypes'
  BY <1>1, <1>2, <1>3, <1>4, <1>6 DEF ViewTypes
<1>8. FlagsHold'
  BY <1>1 DEF CallsHold, FlagsHold
<1>9. QED
  BY <1>4, <1>6, <1>7, <1>8 DEF CallsHold

\* A message for the key that is open.
LEMMA OwnTyped ==
  ASSUME ViewTypes, CallsHold, NEW e \in EntryType, TakeOwn(e), key # NoKey,
         UNCHANGED <<goVars, rows, fails, floor, spoilt>>,
           events' \in Seq(EventType)
  PROVE  ViewTypes' /\ CallsHold'
<1>1. /\ UNCHANGED <<key, loading, older, token, syncing, syncAgain, calls,
           excused>>
      /\ UNCHANGED <<log, mix, into, moved, merged, adding, listDue, rows>>
  BY DEF TakeOwn, syncVars, goVars
<1>2. shown \in Seq(EntryType) /\ pending \in Seq(EntryType)
        /\ next \in (Nat \ {0}) \cup {NoPage} /\ 1 \in Nat
  BY DEF ViewTypes
<1>3. /\ Append(shown, e) \in Seq(EntryType) /\ Append(shown, e) # <<>>
      /\ Append(pending, e) \in Seq(EntryType)
  BY <1>2, AppendProperties, EmptySeq
<1>4. /\ Shifted(next, 1) \in (Nat \ {0}) \cup {NoPage}
      /\ Shifted(next, 1) = NoPage <=> next = NoPage
  BY <1>2, ShiftedFacts
<1>5. \/ UNCHANGED <<shown, next>> /\ (pending' = pending \/ loading)
      \/ /\ shown' = Append(shown, e) /\ next' = Shifted(next, 1) /\ ~loading
         /\ pending' = pending
  BY DEF TakeOwn
<1>6. pending' \in {pending, Append(pending, e)}
  BY DEF TakeOwn
<1>7. ViewTypes'
  BY <1>1, <1>2, <1>3, <1>4, <1>5, <1>6 DEF ViewTypes
<1>8. FlagsHold'
  BY <1>1, <1>3, <1>4, <1>5 DEF CallsHold, FlagsHold
<1>9. \A r \in calls' : CallHolds(r)'
  <2>1. \A r \in calls' : r \in calls
    BY <1>1
  <2>2. \A r \in calls' : Current(r) =>
          /\ r.what = "open" <=> loading'
          /\ r.what = "older" => older' /\ next' # NoPage
    BY <1>1, <1>4, <1>5 DEF CallsHold, CallHolds
  <2>3. QED
    BY <1>1, <2>1, <2>2, CallsKept
<1>10. \A r, s \in calls' : Same(r, s)'
  BY <1>1 DEF CallsHold, Same, Current
<1>11. QED
  BY <1>1, <1>7, <1>8, <1>9, <1>10 DEF CallsHold

\* A message for another key.
LEMMA OtherTyped ==
  ASSUME ViewTypes, CallsHold, NEW e \in EntryType, TakeOther(e), key # NoKey,
         UNCHANGED <<goVars, rows, fails, floor, spoilt>>,
           events' \in Seq(EventType)
  PROVE  ViewTypes' /\ CallsHold'
<1>1. UNCHANGED <<key, shown, next, pending, loading, older, token, log, mix,
                  into, moved, merged, adding, listDue, rows>>
  BY DEF TakeOther, viewVars, goVars
<1>2. key \in KeyType
  BY DEF ViewTypes
<1>3. PICK n : n = Call("sync", key.chat, token, 0)
  OBVIOUS
<1>4. Fresh(n) /\ n.what = "sync"
  BY <1>2, <1>3, FreshFacts
<1>5. \/ UNCHANGED <<syncing, syncAgain, calls>>
      \/ ~loading /\ syncAgain' = TRUE /\ UNCHANGED <<syncing, calls>>
      \/ /\ ~loading /\ ~syncing /\ syncing' = TRUE /\ syncAgain' = syncAgain
         /\ calls' = calls \cup {n}
  BY <1>3 DEF TakeOther, Sync, MaySync, syncVars
<1>6. excused' \subseteq EntryType
  BY DEF TakeOther, ViewTypes
<1>7. syncing' \in BOOLEAN /\ syncAgain' \in BOOLEAN
  BY <1>5 DEF ViewTypes
<1>8. /\ \A r \in calls' : r \in calls
           \/ (Fresh(r) /\ r.what = "sync" /\ ~loading)
      /\ syncing' <=> \E r \in calls' : r.what = "sync"
  BY <1>4, <1>5 DEF CallsHold
<1>9. (\A r \in calls' : CallHolds(r)') /\ calls' \subseteq CallType
  <2>1. \A r \in calls' : Current(r) =>
          /\ r.what = "open" <=> loading'
          /\ r.what = "older" => older' /\ next' # NoPage
    BY <1>1, <1>8 DEF CallsHold, CallHolds
  <2>2. QED
    BY <1>1, <1>8, <2>1, CallsKept
<1>10. \A r, s \in calls' : Same(r, s)'
  <2>1. \A r, s \in calls' : Same(r, s)
    BY <1>4, <1>5 DEF CallsHold, Same
  <2>2. QED
    BY <1>1, <2>1 DEF Same, Current
<1>11. ViewTypes'
  BY <1>1, <1>6, <1>7, <1>9 DEF ViewTypes
<1>12. FlagsHold'
  BY <1>1 DEF CallsHold, FlagsHold
<1>13. QED
  BY <1>8, <1>9, <1>10, <1>11, <1>12 DEF CallsHold

----------------------------------------------------------------------------
(* The view: types, events and calls in every state.                        *)

\* What holds of the view, its calls and the events on their way in every
\* state.
ViewInv == ViewTypes /\ FlightHolds /\ CallsHold

\* A message is taken.
LEMMA TakeTyped ==
  ASSUME ViewInv, TakeMessage
  PROVE  ViewInv'
<1>1. /\ events # <<>> /\ Head(events).kind = "message"
      /\ events' = Tail(events)
      /\ UNCHANGED <<log, mix, into, moved, merged, adding, listDue, rows,
                     fails, floor, spoilt>>
  BY DEF TakeMessage, goVars
<1>2. Head(events) \in EventType
  BY <1>1, TakenEvent DEF ViewInv
<1>3. /\ Head(events) \in MessageType /\ Head(events).key.chat \in Chat
      /\ Head(events).n \in Nat
  BY <1>1, <1>2, EventFacts
<1>4. PICK c \in Chat : c = Head(events).key.chat
  BY <1>3
<1>5. PICK k \in Nat : k = Head(events).n
  BY <1>3
<1>6. FlightHolds' /\ events' \in Seq(EventType)
  BY <1>1, <1>4, <1>5, MessageFlies DEF ViewInv
<1>7. PICK e : e = Entry(c, k)
  OBVIOUS
<1>8. e \in EntryType
  BY <1>7, EntryFacts
<1>9. IF key = NoKey THEN UNCHANGED <<viewVars, syncVars, calls, excused>>
      ELSE TakeOwn(e) \/ TakeOther(e)
  BY <1>4, <1>5, <1>7 DEF TakeMessage
<1>10. UNCHANGED goVars
  BY <1>1 DEF goVars
<1>11. CASE key = NoKey
  <2>1. UNCHANGED <<calls, viewVars, syncVars, rows, fails, floor, excused>>
    BY <1>1, <1>9, <1>11
  <2>2. /\ log' \in [Chat -> Nat] /\ \A d \in Chat : log[d] <= log'[d]
        /\ moved \subseteq moved' /\ moved' \subseteq Regrouping
        /\ adding' \in Chat \cup {None} /\ listDue' \in BOOLEAN
        /\ MixStays /\ merged' \in Nat /\ spoilt' \in BOOLEAN
    BY <1>1, MixUnchanged DEF ViewInv, ViewTypes
  <2>3. ViewTypes' /\ CallsHold'
    BY <1>6, <2>1, <2>2, GoTyped DEF ViewInv
  <2>4. QED
    BY <1>6, <2>3 DEF ViewInv
<1>12. CASE key # NoKey
  <2>1. ViewTypes' /\ CallsHold'
    BY <1>1, <1>6, <1>8, <1>9, <1>10, <1>12, OwnTyped, OtherTyped DEF ViewInv
  <2>2. QED
    BY <1>6, <2>1 DEF ViewInv
<1>13. QED
  BY <1>11, <1>12

\* A call is answered or fails.
LEMMA EndsTyped ==
  ASSUME ViewInv, NEW q \in calls, Answer(q) \/ Fail(q)
  PROVE  ViewInv'
<1>1. UNCHANGED <<goVars, events, rows>>
  BY DEF Answer, Fail
<1>2. FlightHolds'
  BY <1>1, FlightStays DEF ViewInv, goVars
<1>3. CASE Answer(q)
  <2>1. /\ q.cut >= 0
        /\ \/ StaleAnswer(q)
           \/ FirstPage(q) /\ calls' = calls \ {q}
           \/ OlderPage(q) /\ calls' = calls \ {q}
           \/ SyncPage(q)
    BY <1>3 DEF Answer
  <2>2. ViewTypes' /\ CallsHold'
    BY <1>1, <2>1, StaleTyped, FirstPageTyped, OlderPageTyped, ReloadTyped,
       RefreshTyped DEF ViewInv
  <2>3. QED
    BY <1>2, <2>2 DEF ViewInv
<1>4. CASE Fail(q)
  <2>1. /\ fails < MaxFails /\ fails' = fails + 1
        /\ \/ (FirstPageFails(q) \/ OlderPageFails(q)) /\ calls' = calls \ {q}
           \/ SyncFails(q)
    BY <1>4 DEF Fail
  <2>2. ViewTypes' /\ CallsHold'
    BY <1>1, <2>1, PageFailsTyped, SyncFailsTyped DEF ViewInv
  <2>3. QED
    BY <1>2, <2>2 DEF ViewInv
<1>5. QED
  BY <1>3, <1>4

\* The steps of the Go side.
LEMMA GoStepTyped ==
  ASSUME ViewInv,
         \/ \E c \in Chat : Add(c) \/ Regroup(c)
         \/ \E c, d \in Chat : Join(d, c)
         \/ EmitMessage \/ EmitChats \/ TakeChats
  PROVE  ViewInv'
<1>1. /\ UNCHANGED <<calls, viewVars, syncVars, fails, floor, excused>>
      /\ rows' = rows \/ TakeChats
      /\ spoilt' \in BOOLEAN
  BY DEF Add, Regroup, Join, EmitMessage, EmitChats, TakeChats, history,
         ViewInv, ViewTypes
<1>2. /\ \A c \in Chat : log[c] \in Nat
      /\ log \in [Chat -> Nat] /\ moved \subseteq Regrouping
      /\ adding \in Chat \cup {None} /\ events \in Seq(EventType)
      /\ listDue \in BOOLEAN /\ merged \in Nat
  BY DEF ViewInv, ViewTypes
<1>3. CASE \E c \in Chat : Add(c)
  <2>1. PICK c \in Chat : Add(c)
    BY <1>3
  <2>2. /\ FlightHolds' /\ log' \in [Chat -> Nat]
        /\ log'[c] = log[c] + 1 /\ \A d \in Chat : d # c => log'[d] = log[d]
    BY <2>1, AddFlies DEF ViewInv
  <2>3. /\ adding' = c /\ UNCHANGED <<moved, merged, listDue, events, rows>>
        /\ MixStays
    <3>1. ViewTypes
      BY DEF ViewInv
    <3>2. MixStays
      BY <2>1, <3>1, AddMixes
    <3>3. QED
      BY <2>1, <3>2 DEF Add
  <2>4. \A d \in Chat : log[d] <= log'[d]
    BY <1>2, <2>2
  <2>5. ViewTypes' /\ CallsHold'
    BY <1>1, <1>2, <2>2, <2>3, <2>4, GoTyped DEF ViewInv
  <2>6. QED
    BY <2>2, <2>5 DEF ViewInv
<1>4. CASE \E c \in Chat : Regroup(c)
  <2>1. PICK c \in Chat : Regroup(c)
    BY <1>4
  <2>3. /\ moved' = moved \cup {c} /\ listDue' = TRUE /\ c \in Regrouping
        /\ UNCHANGED <<log, mix, into, merged, adding, events, rows>>
        /\ moved \subseteq moved'
    BY <2>1 DEF Regroup
  <2>2. FlightHolds' /\ MixStays
    BY <2>3, RegroupFlies, MixUnchanged DEF ViewInv
  <2>4. \A d \in Chat : log[d] <= log'[d]
    BY <1>2, <2>3
  <2>5. ViewTypes' /\ CallsHold'
    BY <1>1, <1>2, <2>2, <2>3, <2>4, GoTyped DEF ViewInv
  <2>6. QED
    BY <2>2, <2>5 DEF ViewInv
<1>5. CASE EmitMessage
  <2>1. FlightHolds' /\ events' \in Seq(EventType) /\ adding' = None
    BY <1>5, EmitFlies DEF ViewInv
  <2>2. UNCHANGED <<log, mix, into, moved, merged, listDue, rows>>
        /\ MixStays
    BY <1>5, MixUnchanged DEF EmitMessage, ViewInv
  <2>3. \A d \in Chat : log[d] <= log'[d]
    BY <1>2, <2>2
  <2>4. ViewTypes' /\ CallsHold'
    BY <1>1, <1>2, <2>1, <2>2, <2>3, GoTyped DEF ViewInv
  <2>5. QED
    BY <2>1, <2>4 DEF ViewInv
<1>6. CASE EmitChats
  <2>1. FlightHolds' /\ events' \in Seq(EventType)
    BY <1>6, ChatsFly DEF ViewInv
  <2>2. /\ UNCHANGED <<log, mix, into, moved, merged, adding, rows>>
        /\ listDue' = FALSE /\ MixStays
    BY <1>6, MixUnchanged DEF EmitChats, ViewInv
  <2>3. \A d \in Chat : log[d] <= log'[d]
    BY <1>2, <2>2
  <2>4. ViewTypes' /\ CallsHold'
    BY <1>1, <1>2, <2>1, <2>2, <2>3, GoTyped DEF ViewInv
  <2>5. QED
    BY <2>1, <2>4 DEF ViewInv
<1>7. CASE TakeChats
  <2>1. FlightHolds' /\ events' \in Seq(EventType) /\ rows' \subseteq moved
    BY <1>7, RowsFly DEF ViewInv
  <2>2. UNCHANGED <<log, mix, into, moved, merged, adding, listDue, calls, key,
                    shown, next, pending, loading, older, token, syncing,
                    syncAgain, fails, floor, excused, spoilt>>
    BY <1>7 DEF TakeChats, goVars, viewVars, syncVars, history
  <2>3. ViewTypes'
    BY <2>1, <2>2 DEF ViewInv, ViewTypes
  <2>4. CallsHold'
    BY <2>2 DEF ViewInv, CallsHold, CallHolds, Mixed, Same, Current, FlagsHold
  <2>5. QED
    BY <2>1, <2>3, <2>4 DEF ViewInv
<1>8. CASE \E c, d \in Chat : Join(d, c)
  <2>1. PICK c \in Chat, d \in Chat : Join(d, c)
    BY <1>8
  <2>2. /\ UNCHANGED <<log, adding, events, rows>> /\ listDue' = TRUE
    BY <2>1 DEF Join
  <2>3. MixStays /\ moved' \subseteq Regrouping /\ moved \subseteq moved'
          /\ merged' \in Nat
    BY <2>1, JoinMixes DEF ViewInv
  <2>4. FlightHolds'
    BY <2>2, <2>3, RegroupFlies DEF ViewInv
  <2>5. \A x \in Chat : log[x] <= log'[x]
    BY <1>2, <2>2
  <2>6. ViewTypes' /\ CallsHold'
    BY <1>1, <1>2, <2>2, <2>3, <2>5, GoTyped DEF ViewInv
  <2>7. QED
    BY <2>4, <2>6 DEF ViewInv
<1>9. QED
  BY <1>3, <1>4, <1>5, <1>6, <1>7, <1>8

\* Every step of the view.
LEMMA ViewStep == ViewInv /\ [Next]_vars => ViewInv'
<1> SUFFICES ASSUME ViewInv, [Next]_vars PROVE ViewInv'
  OBVIOUS
<1>1. CASE UNCHANGED vars
  <2>1. UNCHANGED <<log, mix, into, moved, merged, adding, listDue, events,
                    calls, key, shown, next, pending, loading, older, token,
                    syncing, syncAgain, rows, fails, floor, excused, spoilt>>
    BY <1>1 DEF vars, goVars, viewVars, syncVars, history
  <2>2. FlightHolds'
    BY <2>1, FlightStays DEF ViewInv
  <2>3. ViewTypes'
    BY <2>1 DEF ViewInv, ViewTypes
  <2>4. CallsHold'
    BY <2>1 DEF ViewInv, CallsHold, CallHolds, Mixed, Same, Current, FlagsHold
  <2>5. QED
    BY <2>2, <2>3, <2>4 DEF ViewInv
<1>2. CASE \E c \in Chat : Open(c)
  <2>1. PICK c \in Chat : Open(c)
    BY <1>2
  <2>2. UNCHANGED <<log, moved, adding, events, rows>>
    BY <2>1 DEF Open, goVars
  <2>3. FlightHolds'
    BY <2>2, FlightStays DEF ViewInv
  <2>4. QED
    BY <2>1, <2>3, OpenTyped DEF ViewInv
<1>3. CASE \E q \in calls : Read(q)
  <2>1. PICK q \in calls : Read(q)
    BY <1>3
  <2>2. UNCHANGED <<log, moved, adding, events, rows>>
    BY <2>1 DEF Read, goVars
  <2>3. FlightHolds'
    BY <2>2, FlightStays DEF ViewInv
  <2>4. QED
    BY <2>1, <2>3, ReadTyped DEF ViewInv
<1>4. CASE Scroll
  <2>1. UNCHANGED <<log, moved, adding, events, rows>>
    BY <1>4 DEF Scroll, goVars
  <2>2. FlightHolds'
    BY <2>1, FlightStays DEF ViewInv
  <2>3. QED
    BY <1>4, <2>2, ScrollTyped DEF ViewInv
<1>5. CASE \E q \in calls : Answer(q) \/ Fail(q)
  BY <1>5, EndsTyped
<1>6. CASE TakeMessage
  BY <1>6, TakeTyped
<1>7. CASE \/ \E c \in Chat : Add(c) \/ Regroup(c)
           \/ \E c, d \in Chat : Join(d, c)
           \/ EmitMessage \/ EmitChats \/ TakeChats
  BY <1>7, GoStepTyped
<1>8. QED
  BY <1>1, <1>2, <1>3, <1>4, <1>5, <1>6, <1>7 DEF Next, GoStep, PageStep

\* A step of the page is one of the view or leaves it alone.
LEMMA ViewNext == [PageNext]_pageVars => [Next]_vars
BY DEF PageNext, View, Cards, pageVars

\* It does.
LEMMA ViewHoldsAlways == PageSpec => []ViewInv
<1>1. PageInit => ViewInv
  BY ViewStart DEF PageInit, ViewInv
<1>2. ViewInv /\ [PageNext]_pageVars => ViewInv'
  BY ViewNext, ViewStep
<1>3. QED
  BY <1>1, <1>2, PTL DEF PageSpec

\* The variables of the view and of the cards keep their types, for any chats,
\* sends, pages and bounds.
THEOREM TypesHold == PageSpec => []TypesOK
<1>1. ViewInv => TypeOK
  <2> SUFFICES ASSUME ViewInv PROVE TypeOK
    OBVIOUS
  <2>1. \A i \in DOMAIN events : events[i].kind \in {"message", "chats"}
    <3>1. \A i \in DOMAIN events : events[i] \in EventType
      BY SetOfSeq DEF ViewInv, ViewTypes
    <3>2. QED
      BY <3>1, EventFacts
  <2>2. moved \subseteq Chat /\ rows \subseteq Chat
    BY ViewConstants DEF ViewInv, ViewTypes
  <2>3. \A q \in calls : q.what \in {"open", "older", "sync"}
          /\ q.chat \in Chat
    BY DEF ViewInv, ViewTypes, CallType
  <2>4. key = NoKey \/ key \in [chat : Chat, new : BOOLEAN]
    BY DEF ViewInv, ViewTypes, KeyType
  <2>5. {loading, older, syncing, syncAgain, spoilt} \subseteq BOOLEAN
          /\ listDue \in BOOLEAN
    BY DEF ViewInv, ViewTypes
  <2>6. next = NoPage \/ next \in Nat \ {0}
    BY DEF ViewInv, ViewTypes
  <2>7. QED
    BY <2>1, <2>2, <2>3, <2>4, <2>5, <2>6 DEF ViewInv, ViewTypes, TypeOK
<1>2. QED
  BY <1>1, ViewHoldsAlways, CardTypesHold, PTL DEF TypesOK

----------------------------------------------------------------------------
(* The view: the entries in order and none twice.                           *)

\* The first element of one sequence after another, and at the end.
LEMMA FirstOfConcat ==
  ASSUME NEW T, NEW s \in Seq(T), NEW t \in Seq(T)
  PROVE  /\ s # <<>> => (s \o t)[1] = s[1]
         /\ s = <<>> => s \o t = t
         /\ \A x \in T : s # <<>> => Append(s, x)[1] = s[1]
<1>1. s # <<>> => 1 \in 1..Len(s)
  BY SetOfSeq, EmptySeq
<1>2. s # <<>> => (s \o t)[1] = s[1]
  BY <1>1, ConcatProperties
<1>3. \A x \in T : s # <<>> => Append(s, x)[1] = s[1]
  BY <1>1, AppendProperties
<1>4. s = <<>> => s \o t = t
  BY ConcatEmptySeq
<1>5. QED
  BY <1>2, <1>3, <1>4

\* The open chat, its view, and what is coming for it.
LEMMA OpenChat ==
  ASSUME ViewInv, OrderHolds, NEW c \in Chat, key # NoKey, key.chat = c
  PROVE  /\ shown \in Seq(EntryType) /\ pending \in Seq(EntryType)
         /\ log[c] \in Nat
         /\ \A e \in ToSet(shown) \cup ToSet(pending) :
              e \in EntryType /\ e = Entry(c, e.n) /\ e.n \in 1..log[c]
         /\ \A m \in Coming(c) :
              /\ m \in Nat \ {0} /\ m <= log[c]
              /\ Entry(c, m) \in ToSet(shown)
                   \/ \A e \in ToSet(shown) : e.n < m
              /\ \A e \in ToSet(pending) : e.n < m
         /\ next # NoPage => \A n \in shown[1].n..(shown[1].n + PageSize - 1) :
              Entry(c, n) \in ToSet(shown)
<1>1. shown \in Seq(EntryType) /\ pending \in Seq(EntryType) /\ log[c] \in Nat
  BY DEF ViewInv, ViewTypes
<1>2. \A e \in ToSet(shown) \cup ToSet(pending) : e \in EntryType
  BY <1>1, SetOfSeq
<1>3. \A e \in ToSet(shown) \cup ToSet(pending) :
        e = Entry(c, e.n) /\ e.n \in 1..log[c]
  BY <1>2, EntryFacts DEF OrderHolds
<1>4. \A m \in Coming(c) : m \in Nat \ {0} /\ m <= log[c]
  BY <1>1, ComingRange DEF ViewInv
<1>5. \A m \in Coming(c) :
        /\ Entry(c, m) \in ToSet(shown) \/ \A e \in ToSet(shown) : e.n < m
        /\ \A e \in ToSet(pending) : e.n < m
  BY DEF OrderHolds, Had
<1>6. next # NoPage => \A n \in shown[1].n..(shown[1].n + PageSize - 1) :
        Entry(c, n) \in ToSet(shown)
  BY DEF OrderHolds, Had
<1>7. QED
  BY <1>1, <1>2, <1>3, <1>4, <1>5, <1>6

\* What has to be shown of a new view.
LEMMA NewView ==
  ASSUME NEW c \in Chat, key' \in KeyType, key'.chat = c,
         shown' \in Seq(EntryType), Follows(shown', Before),
         pending' \in Seq(EntryType), Follows(pending', Before),
           log'[c] \in Nat,
         \A e \in ToSet(shown') \cup ToSet(pending') :
           e.chat = c /\ e.n \in 1..log'[c],
         \A m \in Coming(c)' :
           /\ m \in Nat
           /\ Entry(c, m) \in ToSet(shown') \/ \A e \in ToSet(shown') : e.n < m
           /\ \A e \in ToSet(pending') : e.n < m,
         next' # NoPage =>
           /\ shown'[1].n \in Nat
           /\ \A n \in shown'[1].n..(shown'[1].n + PageSize - 1) :
                Entry(c, n) \in ToSet(shown')
  PROVE  OrderHolds'
<1>1. ToSet(shown)' = ToSet(shown') /\ ToSet(pending)' = ToSet(pending')
  BY DEF ToSet
<1>2. Follows(shown, Before)' /\ Follows(pending, Before)'
  BY DEF Follows, Before
<1>3. \A n : n \in Had(shown)' <=> n \in Nat /\ Entry(c, n) \in ToSet(shown')
  BY <1>1 DEF Had
<1>4. \A m \in Coming(key.chat)' : m \in Coming(c)'
  BY DEF Coming
<1>5. (\A m \in Coming(key.chat) :
         /\ m \in Had(shown) \/ \A e \in ToSet(shown) : e.n < m
         /\ \A e \in ToSet(pending) : e.n < m)'
  BY <1>1, <1>3, <1>4
<1>6. next' # NoPage =>
        (shown[1].n..(shown[1].n + PageSize - 1) \subseteq Had(shown))'
  BY <1>1, <1>3, ViewConstants
<1>7. QED
  BY <1>1, <1>2, <1>5, <1>6 DEF OrderHolds

\* Steps that change neither the view nor what is pending.
LEMMA OrderStays ==
  ASSUME ViewInv, OrderHolds, UNCHANGED <<key, shown, next, pending>>,
         log' \in [Chat -> Nat], \A c \in Chat : log[c] <= log'[c],
         \A c \in Chat : \A m \in Coming(c)' :
           m \in Coming(c) \/ (m \in Nat /\ log[c] < m)
  PROVE  OrderHolds'
<1>1. CASE key = NoKey
  <2>1. ToSet(shown)' = {} /\ ToSet(pending)' = {} /\ next' = NoPage
    <3>1. shown = <<>> /\ pending = <<>> /\ next = NoPage
      BY <1>1 DEF ViewInv, CallsHold, FlagsHold
    <3>2. ToSet(shown) = {} /\ ToSet(pending) = {}
      BY <3>1, SetOfSeq DEF ViewInv, ViewTypes
    <3>3. QED
      BY <3>1, <3>2 DEF ToSet
  <2>2. QED
    BY <1>1, <2>1 DEF OrderHolds, Follows, Before
<1>2. CASE key # NoKey
  <2>1. key \in KeyType /\ key.chat \in Chat
    BY <1>2, KeyFacts DEF ViewInv, ViewTypes
  <2>2. PICK c \in Chat : c = key.chat
    BY <2>1
  <2>3. /\ shown \in Seq(EntryType) /\ pending \in Seq(EntryType)
        /\ log[c] \in Nat
        /\ \A e \in ToSet(shown) \cup ToSet(pending) :
             e \in EntryType /\ e = Entry(c, e.n) /\ e.n \in 1..log[c]
        /\ \A m \in Coming(c) :
             /\ m \in Nat \ {0} /\ m <= log[c]
             /\ Entry(c, m) \in ToSet(shown) \/ \A e \in ToSet(shown) : e.n < m
             /\ \A e \in ToSet(pending) : e.n < m
        /\ next # NoPage => \A n \in shown[1].n..(shown[1].n + PageSize - 1) :
             Entry(c, n) \in ToSet(shown)
    BY <1>2, <2>2, OpenChat
  <2>4. ToSet(shown') = ToSet(shown) /\ ToSet(pending') = ToSet(pending)
          /\ shown' = shown /\ pending' = pending /\ next' = next
    OBVIOUS
  <2>5. log'[c] \in Nat /\ log[c] <= log'[c]
    OBVIOUS
  <2>6. \A e \in ToSet(shown') \cup ToSet(pending') :
          e.chat = c /\ e.n \in 1..log'[c]
    BY <2>3, <2>4, <2>5, EntryFacts
  <2>7. ASSUME NEW m \in Coming(c)'
        PROVE  /\ m \in Nat
               /\ \/ Entry(c, m) \in ToSet(shown')
                  \/ \A e \in ToSet(shown') : e.n < m
               /\ \A e \in ToSet(pending') : e.n < m
    <3>1. CASE m \in Coming(c)
      BY <2>3, <2>4, <3>1
    <3>2. CASE m \in Nat /\ log[c] < m
      <4>1. \A e \in ToSet(shown) \cup ToSet(pending) : e.n < m
        BY <2>3, <3>2
      <4>2. QED
        BY <2>4, <3>2, <4>1
    <3>3. QED
      BY <3>1, <3>2
  <2>8. next' # NoPage =>
          /\ shown'[1].n \in Nat
          /\ \A n \in shown'[1].n..(shown'[1].n + PageSize - 1) :
               Entry(c, n) \in ToSet(shown')
    <3>1. next # NoPage => shown # <<>>
      BY DEF ViewInv, CallsHold, FlagsHold
    <3>2. shown # <<>> => shown[1] \in EntryType
      BY <2>3, SetOfSeq, EndsOfList DEF OrderHolds
    <3>3. QED
      BY <2>3, <2>4, <3>1, <3>2, EntryFacts
  <2>9. Follows(shown', Before) /\ Follows(pending', Before)
    BY DEF OrderHolds
  <2>10. key' \in KeyType /\ key'.chat = c
    BY <2>1, <2>2
  <2>11. QED
    BY <2>3, <2>4, <2>5, <2>6, <2>7, <2>8, <2>9, <2>10, NewView
<1>3. QED
  BY <1>1, <1>2

\* A chat is opened or reloaded.
LEMMA OrderOpens ==
  ASSUME shown' = <<>>, pending' = <<>>, next' = NoPage
  PROVE  OrderHolds'
<1>1. ToSet(<<>>) = {} /\ DOMAIN <<>> = {}
  <2>1. DOMAIN <<>> = {}
    BY EmptySeq
  <2>2. QED
    BY <2>1 DEF ToSet
<1>2. ToSet(shown)' = {} /\ ToSet(pending)' = {}
  BY <1>1 DEF ToSet
<1>3. Follows(shown, Before)' /\ Follows(pending, Before)'
  BY <1>1 DEF Follows, Before
<1>4. QED
  BY <1>2, <1>3 DEF OrderHolds

\* A call that is not swamped is calm.
LEMMA CalmFacts ==
  ASSUME ViewInv, OrderHolds, Sound, NEW q \in calls, q.cut >= 0, Current(q),
         ~Swamps(q)
  PROVE  Calm(q) /\ q.list = <<>> /\ q.cut <= log[q.chat]
<1>1. q \in CallType /\ q.cut \in Nat
  BY DEF ViewInv, ViewTypes, CallType
<1>2. key # NoKey /\ q.chat = key.chat /\ q.list = <<>> /\ q.cut <= log[q.chat]
  BY DEF ViewInv, CallsHold, CallHolds, Sound
<1>3. PICK c \in Chat : c = key.chat
  BY <1>2, KeyFacts DEF ViewInv, ViewTypes
<1>4. /\ shown \in Seq(EntryType)
      /\ \A e \in ToSet(shown) \cup ToSet(pending) :
           e \in EntryType /\ e = Entry(c, e.n) /\ e.n \in 1..log[c]
      /\ log[c] \in Nat
  BY <1>2, <1>3, OpenChat
<1>5. PICK first : first = PageOf(q).first
  OBVIOUS
<1>6. /\ first \in Nat \ {0} /\ q.cut - q.before \in Int
      /\ q.cut - q.before - first < PageSize
  BY <1>1, <1>2, <1>5, PageFacts
<1>7. \A n \in 1..(first - 1) : Entry(c, n) \in Listed(q, 1, first - 1)
  BY <1>2, <1>3 DEF Listed, Item
<1>8. \A e \in ToSet(shown) \cup ToSet(pending) :
        e \in Listed(q, 1, first - 1) \/ e.n >= first
  <2> SUFFICES ASSUME NEW e \in ToSet(shown) \cup ToSet(pending),
                      ~(e.n >= first)
               PROVE  e \in Listed(q, 1, first - 1)
    OBVIOUS
  <2>1. e.n \in 1..(first - 1) /\ e = Entry(c, e.n)
    BY <1>4, <1>6
  <2>2. QED
    BY <1>7, <2>1
<1>9. q.what = "open" => \A e \in ToSet(pending) : e.n >= PageOf(q).first
  BY <1>5, <1>8 DEF Swamps
<1>10. ASSUME q.what = "older"
       PROVE  q.cut - q.before < shown[1].n + PageSize
  <2>1. shown # <<>>
    BY <1>10 DEF ViewInv, CallsHold, CallHolds, FlagsHold
  <2>2. shown[1] \in ToSet(shown) /\ shown[1].n \in Nat
    BY <1>4, <2>1, EndsOfList DEF OrderHolds
  <2>3. shown[1].n >= first
    BY <1>5, <1>8, <1>10, <2>2 DEF Swamps
  <2>4. QED
    BY <1>6, <2>2, <2>3, ViewConstants
<1>11. QED
  BY <1>2, <1>9, <1>10 DEF Calm

\* The first page comes: what pends and is not in it came after it was read.
LEMMA OrderFirstPage ==
  ASSUME ViewInv, OrderHolds, Sound, NearHolds, NEW q \in calls, Calm(q),
         q.cut >= 0, FirstPage(q),
         calls' = calls \ {q}, UNCHANGED <<goVars, events, rows>>
  PROVE  OrderHolds'
<1>1. PICK p : p = PageOf(q)
  OBVIOUS
<1>2. PICK later : later = Unseen(p.messages)
  OBVIOUS
<1>3. /\ q.what = "open" /\ Current(q) /\ shown' = p.messages \o later
      /\ next' = Shifted(p.next, Len(later)) /\ pending' = <<>>
      /\ UNCHANGED <<key, log, moved, adding, events, rows>>
  BY <1>1, <1>2 DEF FirstPage, Current, goVars
<1>4. q \in CallType /\ q.cut \in Nat /\ q.before \in Nat
  BY DEF ViewInv, ViewTypes, CallType
<1>5. /\ key # NoKey /\ q.chat = key.chat /\ q.cut <= log[q.chat]
      /\ q.before = 0 /\ q.list = <<>> /\ ~spoilt
  BY <1>3 DEF ViewInv, CallsHold, CallHolds, Sound
<1>6. key \in KeyType
  BY <1>5 DEF ViewInv, ViewTypes
<1>7. PICK c \in Chat : c = key.chat
  BY <1>6, KeyFacts
<1>8. /\ pending \in Seq(EntryType) /\ log[c] \in Nat
      /\ \A e \in ToSet(pending) :
           e \in EntryType /\ e = Entry(c, e.n) /\ e.n \in 1..log[c]
      /\ \A m \in Coming(c) :
           m \in Nat \ {0} /\ m <= log[c] /\ \A e \in ToSet(pending) : e.n < m
  BY <1>5, <1>7, OpenChat
<1>9. /\ p.messages \in Seq(EntryType) /\ Follows(p.messages, Before)
      /\ p.first \in Nat \ {0}
      /\ \A e : e \in ToSet(p.messages) <=>
                  \E n \in p.first..(q.cut - q.before) : e = Entry(q.chat, n)
      /\ p.messages # <<>> => p.messages[1].n = p.first
      /\ p.next # NoPage =>
           p.messages # <<>> /\ p.first + PageSize = (q.cut - q.before) + 1
      /\ p.next \in (Nat \ {0}) \cup {NoPage}
  BY <1>1, <1>4, <1>5, PageFacts
<1>10. /\ q.cut - q.before = q.cut /\ q.cut <= log[c] /\ q.chat = c
  BY <1>4, <1>5, <1>7
<1>11. \A e : e \in ToSet(p.messages) <=>
         \E n \in p.first..q.cut : e = Entry(c, n)
  BY <1>9, <1>10
<1>12. \A n \in p.first..q.cut : n \in Nat /\ n \in 1..log[c] /\ n <= q.cut
  BY <1>4, <1>8, <1>9, <1>10
<1>13. /\ later \in Seq(EntryType) /\ Follows(later, Before)
       /\ ToSet(later) = ToSet(pending) \ ToSet(p.messages)
  <2>1. PICK S : S = ToSet(pending) \ ToSet(p.messages)
    OBVIOUS
  <2>2. later = Chosen(pending, S)
    BY <1>2, <2>1 DEF Unseen
  <2>3. Follows(pending, Before)
    BY DEF OrderHolds
  <2>4. later \in Seq(EntryType) /\ Follows(later, Before)
          /\ ToSet(later) = ToSet(pending) \cap S
    BY <1>8, <2>2, <2>3, ChosenFacts
  <2>5. QED
    BY <2>1, <2>4
<1>14. \A e \in ToSet(later) :
         e = Entry(c, e.n) /\ e.n \in 1..log[c] /\ q.cut < e.n
           /\ e \in EntryType
  <2> SUFFICES ASSUME NEW e \in ToSet(later) PROVE q.cut < e.n
    BY <1>8, <1>13
  <2>1. e \in ToSet(pending) /\ e \notin ToSet(p.messages)
          /\ e = Entry(c, e.n) /\ e.n \in Nat
    BY <1>8, <1>13
  <2>2. p.first <= e.n
    BY <1>1, <1>3, <2>1 DEF Calm
  <2>3. e.n \notin p.first..q.cut
    BY <1>11, <2>1
  <2>4. QED
    BY <1>4, <1>9, <2>1, <2>2, <2>3
<1>15. \A e \in ToSet(p.messages) :
         e.chat = c /\ e.n \in 1..log[c] /\ e.n <= q.cut /\ e \in EntryType
  BY <1>7, <1>11, <1>12, EntryFacts
<1>16. /\ shown' \in Seq(EntryType) /\ Follows(shown', Before)
       /\ ToSet(shown') = ToSet(p.messages) \cup ToSet(later)
  <2>1. ASSUME NEW d \in ToSet(p.messages), NEW e \in ToSet(later)
        PROVE  <<d, e>> \in Before
    <3>1. d.n <= q.cut /\ q.cut < e.n /\ d.n \in Nat /\ e.n \in Nat
      BY <1>14, <1>15, EntryFacts
    <3>2. d.n < e.n
      BY <1>4, <3>1
    <3>3. QED
      BY <1>14, <1>15, <3>2, BeforeFacts
  <2>2. QED
    BY <1>3, <1>9, <1>13, <2>1, ConcatFacts
<1>17. \A e \in ToSet(shown') \cup ToSet(pending') :
         e.chat = c /\ e.n \in 1..log'[c]
  <2>1. ToSet(<<>>) = {}
    BY EmptySeq DEF ToSet
  <2>2. \A e \in ToSet(later) : e.chat = c
    BY <1>14, EntryFacts
  <2>3. QED
    BY <1>3, <1>14, <1>15, <1>16, <2>1, <2>2
<1>18. ASSUME NEW m \in Coming(c)'
       PROVE  /\ m \in Nat
              /\ Entry(c, m) \in ToSet(shown')
                   \/ \A e \in ToSet(shown') : e.n < m
              /\ \A e \in ToSet(pending') : e.n < m
  <2>0. ToSet(pending') = {}
    BY <1>3, EmptySeq DEF ToSet
  <2>1. m \in Coming(c) /\ m \in Nat
    <3>1. m \in Coming(c)
      BY <1>3, FlightStays DEF ViewInv
    <3>2. QED
      BY <1>8, <3>1
  <2>2. CASE m <= q.cut
    <3>1. Entry(c, m) \in ToSet(p.messages)
      BY <1>1, <1>4, <1>5, <1>10, <2>1, <2>2, PageHasComing DEF ViewInv
    <3>2. QED
      BY <1>16, <2>0, <2>1, <3>1
  <2>3. CASE q.cut < m
    <3>1. \A e \in ToSet(p.messages) : e.n < m
      <4>1. \A e \in ToSet(p.messages) : e.n \in Nat /\ e.n <= q.cut
        BY <1>15, EntryFacts
      <4>2. QED
        BY <1>4, <2>1, <2>3, <4>1
    <3>2. \A e \in ToSet(later) : e.n < m
      BY <1>8, <1>13, <2>1
    <3>3. \A e \in ToSet(shown') : e.n < m
      BY <1>16, <3>1, <3>2
    <3>4. QED
      BY <2>0, <2>1, <3>3
  <2>4. QED
    BY <1>4, <2>1, <2>2, <2>3
<1>19. next' # NoPage =>
         /\ shown'[1].n \in Nat
         /\ \A n \in shown'[1].n..(shown'[1].n + PageSize - 1) :
              Entry(c, n) \in ToSet(shown')
  <2> SUFFICES ASSUME next' # NoPage
               PROVE  /\ shown'[1].n \in Nat
                      /\ \A n \in shown'[1].n..(shown'[1].n + PageSize - 1) :
                           Entry(c, n) \in ToSet(shown')
    OBVIOUS
  <2>1. p.next # NoPage
    <3>1. Len(later) \in Nat
      BY <1>13, SetOfSeq
    <3>2. QED
      BY <1>3, <1>9, <3>1, ShiftedFacts
  <2>2. shown'[1].n = p.first
    <3>1. p.messages # <<>> /\ p.messages[1].n = p.first
      BY <1>9, <2>1
    <3>2. shown'[1] = p.messages[1]
      BY <1>3, <1>9, <1>13, <3>1, FirstOfConcat
    <3>3. QED
      BY <3>1, <3>2
  <2>3. p.first + PageSize - 1 = q.cut
    <3>1. p.first + PageSize = q.cut + 1
      BY <1>9, <1>10, <2>1
    <3>2. p.first \in Nat /\ PageSize \in Nat
      BY <1>9, ViewConstants
    <3>3. QED
      BY <1>4, <3>1, <3>2
  <2>4. \A n \in p.first..q.cut : Entry(c, n) \in ToSet(shown')
    BY <1>11, <1>16
  <2>5. QED
    BY <1>9, <2>2, <2>3, <2>4
<1>20. QED
  <2>1. key' \in KeyType /\ key'.chat = c /\ log'[c] \in Nat
    BY <1>3, <1>6, <1>7, <1>8
  <2>2. pending' \in Seq(EntryType) /\ Follows(pending', Before)
    BY <1>3, EmptySeq DEF Follows
  <2>3. QED
    BY <1>16, <1>17, <1>18, <1>19, <2>1, <2>2, NewView

\* An older page comes: the view has all of its own first page, so what it does
\* not have of the new one is older.
LEMMA OrderOlderPage ==
  ASSUME ViewInv, OrderHolds, Sound, NEW q \in calls, Calm(q), q.cut >= 0,
         OlderPage(q),
         calls' = calls \ {q}, UNCHANGED <<goVars, events, rows>>
  PROVE  OrderHolds'
<1>1. PICK p : p = PageOf(q)
  OBVIOUS
<1>2. PICK new : new = NotHad(p.messages)
  OBVIOUS
<1>3. /\ q.what = "older" /\ Current(q) /\ shown' = new \o shown
      /\ next' = p.next
      /\ UNCHANGED <<key, pending, log, moved, adding, events, rows>>
  BY <1>1, <1>2 DEF OlderPage, Current, goVars
<1>4. q \in CallType /\ q.cut \in Nat /\ q.before \in Nat
  BY DEF ViewInv, ViewTypes, CallType
<1>5. /\ shown # <<>> /\ key \in KeyType /\ key # NoKey /\ q.chat = key.chat
      /\ q.cut <= log[q.chat] /\ next # NoPage /\ q.list = <<>>
  <2>1. next # NoPage
    BY <1>3 DEF ViewInv, CallsHold, CallHolds
  <2>2. /\ shown # <<>> /\ key \in KeyType /\ q.chat = key.chat
        /\ ~Mixed(q.chat) => q.list = <<>> /\ q.cut <= log[q.chat]
    BY OlderPageTyped DEF ViewInv
  <2>3. QED
    BY <2>1, <2>2, KeyFacts DEF Sound
<1>6. PICK c \in Chat : c = key.chat
  BY <1>5, KeyFacts
<1>7. /\ shown \in Seq(EntryType) /\ pending \in Seq(EntryType)
      /\ log[c] \in Nat
      /\ \A e \in ToSet(shown) \cup ToSet(pending) :
           e \in EntryType /\ e = Entry(c, e.n) /\ e.n \in 1..log[c]
      /\ \A m \in Coming(c) :
           /\ m \in Nat \ {0} /\ m <= log[c]
           /\ Entry(c, m) \in ToSet(shown) \/ \A e \in ToSet(shown) : e.n < m
           /\ \A e \in ToSet(pending) : e.n < m
      /\ next # NoPage => \A n \in shown[1].n..(shown[1].n + PageSize - 1) :
           Entry(c, n) \in ToSet(shown)
  BY <1>5, <1>6, OpenChat
<1>8. PICK end : end = q.cut - q.before
  OBVIOUS
<1>9. PICK s : s = shown[1].n
  OBVIOUS
<1>10. /\ s \in Nat /\ shown[1] \in ToSet(shown)
       /\ \A e \in ToSet(shown) : s <= e.n
       /\ \A n \in s..(s + PageSize - 1) : Entry(c, n) \in ToSet(shown)
  <2>1. shown[1] \in ToSet(shown) /\ \A e \in ToSet(shown) : shown[1].n <= e.n
    BY <1>5, <1>7, EndsOfList DEF OrderHolds
  <2>2. QED
    BY <1>5, <1>7, <1>9, <2>1, EntryFacts
<1>11. /\ end \in Int /\ end <= log[c] /\ end < s + PageSize
  BY <1>1, <1>3, <1>4, <1>5, <1>6, <1>7, <1>8, <1>9 DEF Calm
<1>12. /\ p.messages \in Seq(EntryType) /\ Follows(p.messages, Before)
       /\ p.first \in Nat \ {0}
       /\ \A e : e \in ToSet(p.messages) <=>
            \E n \in p.first..end : e = Entry(c, n)
       /\ p.next # NoPage => p.messages # <<>> /\ p.first + PageSize = end + 1
  <2>1. /\ p.messages \in Seq(EntryType) /\ Follows(p.messages, Before)
        /\ p.first \in Nat \ {0}
        /\ \A e : e \in ToSet(p.messages) <=>
                    \E n \in p.first..(q.cut - q.before) : e = Entry(q.chat, n)
        /\ p.next # NoPage =>
             p.messages # <<>> /\ p.first + PageSize = (q.cut - q.before) + 1
    BY <1>1, <1>4, <1>5, PageFacts
  <2>2. q.cut - q.before = end /\ q.chat = c
    BY <1>5, <1>6, <1>8
  <2>3. QED
    BY <2>1, <2>2
<1>13. /\ new \in Seq(EntryType) /\ Follows(new, Before)
       /\ ToSet(new) = ToSet(p.messages) \ ToSet(shown)
  <2>1. PICK S : S = ToSet(p.messages) \ ToSet(shown)
    OBVIOUS
  <2>2. new = Chosen(p.messages, S)
    BY <1>2, <2>1 DEF NotHad
  <2>3. new \in Seq(EntryType) /\ Follows(new, Before)
          /\ ToSet(new) = ToSet(p.messages) \cap S
    BY <1>12, <2>2, ChosenFacts
  <2>4. QED
    BY <2>1, <2>3
<1>14. ASSUME NEW e \in ToSet(new)
       PROVE  /\ e = Entry(c, e.n) /\ e.n \in p.first..end /\ e.n \in 1..log[c]
              /\ e.n < s /\ e \in EntryType
  <2>1. PICK n \in p.first..end : e = Entry(c, n)
    BY <1>12, <1>13
  <2>2. e.n = n /\ n \in Nat /\ e \in EntryType
    BY <1>6, <1>11, <1>12, <2>1, EntryFacts
  <2>3. n \notin s..(s + PageSize - 1)
    BY <1>10, <1>13, <2>1
  <2>4. n < s
    BY <1>10, <1>11, <2>2, <2>3, ViewConstants
  <2>5. n \in 1..log[c]
    BY <1>7, <1>11, <1>12, <2>2
  <2>6. QED
    BY <2>1, <2>2, <2>4, <2>5
<1>15. /\ shown' \in Seq(EntryType) /\ Follows(shown', Before)
       /\ ToSet(shown') = ToSet(new) \cup ToSet(shown)
  <2>1. ASSUME NEW d \in ToSet(new), NEW e \in ToSet(shown)
        PROVE  <<d, e>> \in Before
    <3>1. d.n < s /\ s <= e.n /\ d.n \in Nat /\ e.n \in Nat
      BY <1>7, <1>10, <1>14, EntryFacts
    <3>2. d.n < e.n
      BY <1>10, <3>1
    <3>3. QED
      BY <1>7, <1>14, <3>2, BeforeFacts
  <2>2. Follows(shown, Before)
    BY DEF OrderHolds
  <2>3. QED
    BY <1>3, <1>7, <1>13, <2>1, <2>2, ConcatFacts
<1>16. \A e \in ToSet(shown') \cup ToSet(pending') :
         e.chat = c /\ e.n \in 1..log'[c]
  <2>1. ToSet(pending') = ToSet(pending) /\ log' = log
    BY <1>3
  <2>2. \A e \in ToSet(new) \cup ToSet(shown) \cup ToSet(pending) :
          e.chat = c /\ e.n \in 1..log[c]
    BY <1>7, <1>14, EntryFacts
  <2>3. QED
    BY <1>15, <2>1, <2>2
<1>17. ASSUME NEW m \in Coming(c)'
       PROVE  /\ m \in Nat
              /\ Entry(c, m) \in ToSet(shown')
                   \/ \A e \in ToSet(shown') : e.n < m
              /\ \A e \in ToSet(pending') : e.n < m
  <2>1. m \in Coming(c)
    BY <1>3, FlightStays DEF ViewInv
  <2>2. m \in Nat /\ \A e \in ToSet(pending') : e.n < m
    BY <1>3, <1>7, <2>1
  <2>3. CASE Entry(c, m) \in ToSet(shown)
    BY <1>15, <2>2, <2>3
  <2>4. CASE \A e \in ToSet(shown) : e.n < m
    <3>1. s < m
      BY <1>9, <1>10, <2>4
    <3>2. \A e \in ToSet(new) : e.n < m
      <4> SUFFICES ASSUME NEW e \in ToSet(new) PROVE e.n < m
        OBVIOUS
      <4>1. e.n < s /\ e.n \in Nat
        BY <1>14, EntryFacts
      <4>2. QED
        BY <1>10, <2>2, <3>1, <4>1
    <3>3. QED
      BY <1>15, <2>2, <2>4, <3>2
  <2>5. QED
    BY <1>7, <2>1, <2>3, <2>4
<1>18. next' # NoPage =>
         /\ shown'[1].n \in Nat
         /\ \A n \in shown'[1].n..(shown'[1].n + PageSize - 1) :
              Entry(c, n) \in ToSet(shown')
  <2> SUFFICES ASSUME next' # NoPage
               PROVE  /\ shown'[1].n \in Nat
                      /\ \A n \in shown'[1].n..(shown'[1].n + PageSize - 1) :
                           Entry(c, n) \in ToSet(shown')
    OBVIOUS
  <2>1. CASE new = <<>>
    <3>1. shown' = shown
      BY <1>3, <1>7, <1>13, <2>1, FirstOfConcat
    <3>2. QED
      BY <1>9, <1>10, <3>1
  <2>2. CASE new # <<>>
    <3>1. shown'[1] = new[1]
      BY <1>3, <1>7, <1>13, <2>2, FirstOfConcat
    <3>2. new[1] \in ToSet(new) /\ \A e \in ToSet(new) : new[1].n <= e.n
      BY <1>13, <2>2, EndsOfList
    <3>3. new[1].n \in p.first..end /\ new[1].n < s
      BY <1>14, <3>2
    <3>4. p.first < s /\ p.first \in p.first..end
      BY <1>10, <1>11, <1>12, <3>3
    <3>5. Entry(c, p.first) \in ToSet(p.messages)
      BY <1>12, <3>4
    <3>6. Entry(c, p.first) \notin ToSet(shown)
      <4>1. Entry(c, p.first).n = p.first
        BY EntryFacts
      <4>2. ~(s <= p.first)
        BY <1>10, <1>12, <3>4
      <4>3. QED
        BY <1>10, <4>1, <4>2
    <3>7. new[1].n <= p.first
      BY <1>13, <3>2, <3>5, <3>6, EntryFacts
    <3>8. new[1].n = p.first
      BY <1>11, <1>12, <3>3, <3>7
    <3>9. p.first + PageSize - 1 = end
      <4>1. p.first + PageSize = end + 1
        BY <1>3, <1>12
      <4>2. p.first \in Nat /\ PageSize \in Nat
        BY <1>12, ViewConstants
      <4>3. QED
        BY <1>11, <4>1, <4>2
    <3>10. \A n \in p.first..end : Entry(c, n) \in ToSet(shown')
      BY <1>12, <1>13, <1>15
    <3>11. QED
      BY <1>12, <3>1, <3>8, <3>9, <3>10
  <2>3. QED
    BY <2>1, <2>2
<1>19. QED
  <2>1. key' \in KeyType /\ key'.chat = c /\ log'[c] \in Nat
    BY <1>3, <1>5, <1>6, <1>7
  <2>2. pending' \in Seq(EntryType) /\ Follows(pending', Before)
    BY <1>3, <1>7 DEF OrderHolds
  <2>3. QED
    BY <1>15, <1>16, <1>17, <1>18, <2>1, <2>2, NewView

\* A refresh comes: what the view gets is newer than what it has.
LEMMA OrderRefresh ==
  ASSUME ViewInv, OrderHolds, Sound, NearHolds, NEW q \in calls, q.cut >= 0,
         SyncPage(q), ~Reloads(q), UNCHANGED <<goVars, events, rows>>
  PROVE  OrderHolds'
<1>1. PICK p : p = PageOf(q)
  OBVIOUS
<1>2. PICK fresh : fresh = IF shown = <<>> THEN p.messages
                           ELSE After(p.messages, Last(shown))
  OBVIOUS
<1>3. /\ q.what = "sync" /\ Current(q) /\ shown' = shown \o fresh
      /\ next' = Shifted(next, Len(fresh))
      /\ UNCHANGED <<key, pending, loading, log, moved, adding, events, rows>>
  BY <1>1, <1>2, SyncPageCases DEF goVars
<1>4. q \in CallType /\ q.cut \in Nat /\ q.before \in Nat
  BY DEF ViewInv, ViewTypes, CallType
<1>5. /\ key # NoKey /\ q.chat = key.chat /\ q.cut <= log[q.chat]
      /\ q.before = 0 /\ q.list = <<>> /\ ~spoilt
      /\ pending = <<>>
  BY <1>3 DEF ViewInv, CallsHold, CallHolds, FlagsHold, Sound
<1>6. key \in KeyType
  BY <1>5 DEF ViewInv, ViewTypes
<1>7. PICK c \in Chat : c = key.chat
  BY <1>6, KeyFacts
<1>8. /\ shown \in Seq(EntryType) /\ log[c] \in Nat
      /\ \A e \in ToSet(shown) :
           e \in EntryType /\ e = Entry(c, e.n) /\ e.n \in 1..log[c]
      /\ \A m \in Coming(c) :
           /\ m \in Nat \ {0} /\ m <= log[c]
           /\ Entry(c, m) \in ToSet(shown) \/ \A e \in ToSet(shown) : e.n < m
      /\ next # NoPage => \A n \in shown[1].n..(shown[1].n + PageSize - 1) :
           Entry(c, n) \in ToSet(shown)
  BY <1>5, <1>7, OpenChat
<1>9. /\ p.messages \in Seq(EntryType) /\ Follows(p.messages, Before)
      /\ \A e : e \in ToSet(p.messages) <=>
           \E n \in p.first..q.cut : e = Entry(c, n)
      /\ p.first \in Nat \ {0} /\ q.cut <= log[c] /\ q.chat = c
  <2>1. /\ p.messages \in Seq(EntryType) /\ Follows(p.messages, Before)
        /\ p.first \in Nat \ {0}
        /\ \A e : e \in ToSet(p.messages) <=>
                    \E n \in p.first..(q.cut - q.before) : e = Entry(q.chat, n)
    BY <1>1, <1>4, <1>5, PageFacts
  <2>2. q.cut - q.before = q.cut /\ q.chat = c /\ q.cut <= log[c]
    BY <1>4, <1>5, <1>7
  <2>3. QED
    BY <2>1, <2>2
<1>10. \A e \in ToSet(p.messages) :
         /\ e \in EntryType /\ e.chat = c /\ e = Entry(c, e.n)
         /\ e.n \in 1..log[c]
         /\ e.n <= q.cut
  <2> SUFFICES ASSUME NEW e \in ToSet(p.messages)
               PROVE  /\ e \in EntryType /\ e.chat = c /\ e = Entry(c, e.n)
                      /\ e.n \in 1..log[c] /\ e.n <= q.cut
    OBVIOUS
  <2>1. PICK n \in p.first..q.cut : e = Entry(c, n)
    BY <1>9
  <2>2. n \in Nat /\ n \in 1..log[c] /\ n <= q.cut
    BY <1>4, <1>8, <1>9
  <2>3. QED
    BY <2>1, <2>2, EntryFacts
<1>11. /\ fresh \in Seq(EntryType) /\ Follows(fresh, Before)
       /\ ToSet(fresh) \subseteq ToSet(p.messages)
       /\ \A d \in ToSet(shown), e \in ToSet(fresh) : d.n < e.n
       /\ \A e \in ToSet(p.messages) :
            (\A d \in ToSet(shown) : d.n < e.n) => e \in ToSet(fresh)
  <2>1. CASE shown = <<>>
    <3>1. ToSet(shown) = {} /\ fresh = p.messages
      BY <1>2, <1>8, <2>1, SetOfSeq
    <3>2. QED
      BY <1>9, <3>1
  <2>2. CASE shown # <<>>
    <3>1. PICK last : last = Last(shown)
      OBVIOUS
    <3>2. last \in ToSet(p.messages) /\ fresh = After(p.messages, last)
      BY <1>1, <1>2, <2>2, <3>1 DEF Reloads
    <3>3. last \in ToSet(shown) /\ \A d \in ToSet(shown) : d.n <= last.n
      BY <1>8, <2>2, <3>1, EndsOfList DEF OrderHolds
    <3>4. /\ fresh \in Seq(EntryType) /\ Follows(fresh, Before)
          /\ ToSet(fresh) = {e \in ToSet(p.messages) : last.n < e.n}
      BY <1>9, <3>2, AfterFacts
    <3>5. \A d \in ToSet(shown), e \in ToSet(fresh) : d.n < e.n
      <4> SUFFICES ASSUME NEW d \in ToSet(shown), NEW e \in ToSet(fresh)
                   PROVE  d.n < e.n
        OBVIOUS
      <4>1. d.n \in Nat /\ e.n \in Nat /\ last.n \in Nat
        BY <1>8, <1>10, <3>3, <3>4, EntryFacts
      <4>2. d.n <= last.n /\ last.n < e.n
        BY <3>3, <3>4
      <4>3. QED
        BY <4>1, <4>2
    <3>6. QED
      BY <3>3, <3>4, <3>5
  <2>3. QED
    BY <2>1, <2>2
<1>12. /\ shown' \in Seq(EntryType) /\ Follows(shown', Before)
       /\ ToSet(shown') = ToSet(shown) \cup ToSet(fresh)
  <2>1. ASSUME NEW d \in ToSet(shown), NEW e \in ToSet(fresh)
        PROVE  <<d, e>> \in Before
    <3>1. d.n < e.n
      BY <1>11
    <3>2. d \in EntryType /\ e \in EntryType
      BY <1>8, <1>10, <1>11
    <3>3. QED
      BY <3>1, <3>2, BeforeFacts
  <2>2. Follows(shown, Before)
    BY DEF OrderHolds
  <2>3. QED
    BY <1>3, <1>8, <1>11, <2>1, <2>2, ConcatFacts
<1>13. ToSet(pending') = {} /\ pending' \in Seq(EntryType)
         /\ Follows(pending', Before)
  BY <1>3, <1>5, EmptySeq DEF ToSet, Follows
<1>14. \A e \in ToSet(shown') \cup ToSet(pending') :
         e.chat = c /\ e.n \in 1..log'[c]
  <2>1. \A e \in ToSet(shown) \cup ToSet(fresh) : e.chat = c
          /\ e.n \in 1..log[c]
    BY <1>8, <1>10, <1>11, EntryFacts
  <2>2. QED
    BY <1>3, <1>12, <1>13, <2>1
<1>15. ASSUME NEW m \in Coming(c)'
       PROVE  /\ m \in Nat
              /\ Entry(c, m) \in ToSet(shown')
                   \/ \A e \in ToSet(shown') : e.n < m
              /\ \A e \in ToSet(pending') : e.n < m
  <2>1. m \in Coming(c) /\ m \in Nat
    <3>1. m \in Coming(c)
      BY <1>3, FlightStays DEF ViewInv
    <3>2. QED
      BY <1>8, <3>1
  <2>2. CASE Entry(c, m) \in ToSet(shown)
    BY <1>12, <1>13, <2>1, <2>2
  <2>3. CASE (\A e \in ToSet(shown) : e.n < m) /\ m <= q.cut
    <3>1. Entry(c, m) \in ToSet(p.messages)
      BY <1>1, <1>4, <1>5, <1>9, <2>1, <2>3, PageHasComing DEF ViewInv
    <3>2. Entry(c, m).n = m
      BY EntryFacts
    <3>3. Entry(c, m) \in ToSet(fresh)
      BY <1>11, <2>3, <3>1, <3>2
    <3>4. QED
      BY <1>12, <1>13, <2>1, <3>3
  <2>4. CASE (\A e \in ToSet(shown) : e.n < m) /\ q.cut < m
    <3>1. \A e \in ToSet(fresh) : e.n < m
      <4> SUFFICES ASSUME NEW e \in ToSet(fresh) PROVE e.n < m
        OBVIOUS
      <4>1. e.n \in Nat /\ e.n <= q.cut
        BY <1>10, <1>11, EntryFacts
      <4>2. QED
        BY <1>4, <2>1, <2>4, <4>1
    <3>2. QED
      BY <1>12, <1>13, <2>1, <2>4, <3>1
  <2>5. m <= q.cut \/ q.cut < m
    BY <1>4, <2>1
  <2>6. QED
    BY <1>8, <2>1, <2>2, <2>3, <2>4, <2>5
<1>16. next' # NoPage =>
         /\ shown'[1].n \in Nat
         /\ \A n \in shown'[1].n..(shown'[1].n + PageSize - 1) :
              Entry(c, n) \in ToSet(shown')
  <2> SUFFICES ASSUME next' # NoPage
               PROVE  /\ shown'[1].n \in Nat
                      /\ \A n \in shown'[1].n..(shown'[1].n + PageSize - 1) :
                           Entry(c, n) \in ToSet(shown')
    OBVIOUS
  <2>1. next # NoPage
    <3>1. Len(fresh) \in Nat /\ next \in (Nat \ {0}) \cup {NoPage}
      BY <1>11, SetOfSeq DEF ViewInv, ViewTypes
    <3>2. QED
      BY <1>3, <3>1, ShiftedFacts
  <2>2. shown # <<>>
    BY <2>1 DEF ViewInv, CallsHold, FlagsHold
  <2>3. shown'[1] = shown[1]
    BY <1>3, <1>8, <1>11, <2>2, FirstOfConcat
  <2>4. shown[1] \in ToSet(shown)
    BY <1>8, <2>2, EndsOfList DEF OrderHolds
  <2>5. shown[1].n \in Nat
    BY <1>8, <2>4, EntryFacts
  <2>6. QED
    BY <1>8, <1>12, <2>1, <2>3, <2>5
<1>17. QED
  <2>1. key' \in KeyType /\ key'.chat = c /\ log'[c] \in Nat
    BY <1>3, <1>6, <1>7, <1>8
  <2>2. QED
    BY <1>12, <1>13, <1>14, <1>15, <1>16, <2>1, NewView

\* An entry that is coming and that the view has is one of its last: no more
\* came after it than the view looks back over.
LEMMA ComingRepeats ==
  ASSUME ViewInv, OrderHolds, NearHolds, ~spoilt, NEW c \in Chat, key # NoKey,
         key.chat = c,
         NEW k \in Coming(c), Entry(c, k) \in ToSet(shown)
  PROVE  Repeat(Entry(c, k))
<1>1. /\ shown \in Seq(EntryType) /\ log[c] \in Nat /\ Follows(shown, Before)
      /\ \A e \in ToSet(shown) : e.n \in 1..log[c]
  BY OpenChat DEF OrderHolds
<1>2. PICK i \in DOMAIN shown : shown[i] = Entry(c, k)
  BY DEF ToSet
<1>3. shown[i].n = k
  BY <1>2, EntryFacts
<1>4. \A e \in ToSet(shown) : e.n <= log[c]
  BY <1>1
<1>5. i \in Nat /\ Len(shown) \in Nat /\ Len(shown) - i <= log[c] - shown[i].n
  BY <1>1, <1>2, <1>4, NearEnd
<1>6. log[c] - k < Window /\ k \in Nat
  BY ComingRange DEF ViewInv, NearHolds
<1>7. Len(shown) - i <= log[c] - k
  BY <1>3, <1>5
<1>8. i > Len(shown) - Window
  BY <1>1, <1>5, <1>6, <1>7, ViewConstants
<1>9. QED
  BY <1>2, <1>8 DEF Repeat

\* An entry of the open chat is taken.
LEMMA OrderOwn ==
  ASSUME ViewInv, OrderHolds, NearHolds, ~spoilt,
         NEW c \in Chat, key # NoKey, key.chat = c,
         NEW k \in Coming(c), TakeOwn(Entry(c, k)), UNCHANGED goVars,
         \A m \in Coming(c)' : m \in Coming(c) /\ k < m
  PROVE  OrderHolds'
<1>1. PICK e : e = Entry(c, k)
  OBVIOUS
<1>2. /\ shown \in Seq(EntryType) /\ pending \in Seq(EntryType)
      /\ log[c] \in Nat
      /\ \A d \in ToSet(shown) \cup ToSet(pending) :
           d \in EntryType /\ d = Entry(c, d.n) /\ d.n \in 1..log[c]
      /\ \A m \in Coming(c) :
           /\ m \in Nat \ {0} /\ m <= log[c]
           /\ Entry(c, m) \in ToSet(shown) \/ \A d \in ToSet(shown) : d.n < m
           /\ \A d \in ToSet(pending) : d.n < m
      /\ next # NoPage => \A n \in shown[1].n..(shown[1].n + PageSize - 1) :
           Entry(c, n) \in ToSet(shown)
  BY OpenChat
<1>3. /\ k \in Nat \ {0} /\ k \in 1..log[c] /\ e \in EntryType /\ e.chat = c
      /\ e.n = k
  BY <1>1, <1>2, EntryFacts
<1>4. UNCHANGED <<key, log>> /\ key \in KeyType
  BY DEF TakeOwn, goVars, ViewInv, ViewTypes
<1>5. Follows(shown, Before) /\ Follows(pending, Before)
  BY DEF OrderHolds
<1>6. /\ shown' \in Seq(EntryType) /\ Follows(shown', Before)
      /\ \/ shown' = shown /\ next' = next
         \/ /\ shown' = Append(shown, e)
                 /\ ToSet(shown') = ToSet(shown) \cup {e}
            /\ next' = Shifted(next, 1)
  <2>1. CASE loading \/ Repeat(e)
    BY <1>1, <1>2, <1>5, <2>1 DEF TakeOwn
  <2>2. CASE ~loading /\ ~Repeat(e)
    <3>1. shown' = Append(shown, e) /\ next' = Shifted(next, 1)
      BY <1>1, <2>2 DEF TakeOwn
    <3>2. \A d \in ToSet(shown) : <<d, e>> \in Before
      <4>1. e \notin ToSet(shown)
        BY <1>1, <2>2, ComingRepeats
      <4>2. \A d \in ToSet(shown) : d.n < k
        BY <1>1, <1>2, <4>1
      <4>3. QED
        BY <1>2, <1>3, <4>2, BeforeFacts
    <3>3. /\ Append(shown, e) \in Seq(EntryType)
          /\ ToSet(Append(shown, e)) = ToSet(shown) \cup {e}
          /\ Follows(Append(shown, e), Before)
      BY <1>2, <1>3, <1>5, <3>2, AppendFacts
    <3>4. QED
      BY <3>1, <3>3
  <2>3. QED
    BY <2>1, <2>2
<1>7. /\ pending' \in Seq(EntryType) /\ Follows(pending', Before)
      /\ ToSet(pending') \subseteq ToSet(pending) \cup {e}
  <2>1. CASE ~loading
    BY <1>2, <1>5, <2>1 DEF TakeOwn
  <2>2. CASE loading
    <3>1. pending' = Append(pending, e)
      BY <1>1, <2>2 DEF TakeOwn
    <3>2. \A d \in ToSet(pending) : <<d, e>> \in Before
      BY <1>2, <1>3, BeforeFacts
    <3>3. /\ Append(pending, e) \in Seq(EntryType)
          /\ ToSet(Append(pending, e)) = ToSet(pending) \cup {e}
          /\ Follows(Append(pending, e), Before)
      BY <1>2, <1>3, <1>5, <3>2, AppendFacts
    <3>4. QED
      BY <3>1, <3>3
  <2>3. QED
    BY <2>1, <2>2
<1>8. ToSet(shown) \subseteq ToSet(shown')
        /\ ToSet(shown') \subseteq ToSet(shown) \cup {e}
  BY <1>6
<1>9. \A d \in ToSet(shown') \cup ToSet(pending') :
        d.chat = c /\ d.n \in 1..log'[c]
  <2>1. \A d \in ToSet(shown) \cup ToSet(pending) \cup {e} :
          d.chat = c /\ d.n \in 1..log[c]
    BY <1>2, <1>3, EntryFacts
  <2>2. QED
    BY <1>4, <1>7, <1>8, <2>1
<1>10. ASSUME NEW m \in Coming(c)'
       PROVE  /\ m \in Nat
              /\ Entry(c, m) \in ToSet(shown')
                   \/ \A d \in ToSet(shown') : d.n < m
              /\ \A d \in ToSet(pending') : d.n < m
  <2>1. m \in Coming(c) /\ k < m
    OBVIOUS
  <2>2. m \in Nat /\ \A d \in ToSet(pending') : d.n < m
    BY <1>2, <1>3, <1>7, <2>1
  <2>3. CASE Entry(c, m) \in ToSet(shown)
    BY <1>8, <2>2, <2>3
  <2>4. CASE \A d \in ToSet(shown) : d.n < m
    BY <1>3, <1>8, <2>1, <2>2, <2>4
  <2>5. QED
    BY <1>2, <2>1, <2>3, <2>4
<1>11. next' # NoPage =>
         /\ shown'[1].n \in Nat
         /\ \A n \in shown'[1].n..(shown'[1].n + PageSize - 1) :
              Entry(c, n) \in ToSet(shown')
  <2> SUFFICES ASSUME next' # NoPage
               PROVE  /\ shown'[1].n \in Nat
                      /\ \A n \in shown'[1].n..(shown'[1].n + PageSize - 1) :
                           Entry(c, n) \in ToSet(shown')
    OBVIOUS
  <2>1. next # NoPage
    <3>1. 1 \in Nat /\ next \in (Nat \ {0}) \cup {NoPage}
      BY DEF ViewInv, ViewTypes
    <3>2. QED
      BY <1>6, <3>1, ShiftedFacts
  <2>2. shown # <<>>
    BY <2>1 DEF ViewInv, CallsHold, FlagsHold
  <2>3. shown'[1] = shown[1]
    BY <1>2, <1>3, <1>6, <2>2, FirstOfConcat
  <2>4. shown[1] \in ToSet(shown)
    BY <1>2, <1>5, <2>2, EndsOfList
  <2>5. shown[1].n \in Nat
    BY <1>2, <2>4, EntryFacts
  <2>6. QED
    BY <1>2, <1>8, <2>1, <2>3, <2>5
<1>12. QED
  <2>1. key' \in KeyType /\ key'.chat = c /\ log'[c] \in Nat
    BY <1>2, <1>4
  <2>2. QED
    BY <1>6, <1>7, <1>9, <1>10, <1>11, <2>1, NewView

\* A message is taken.
LEMMA OrderTakes ==
  ASSUME ViewInv, OrderHolds, NearHolds, ~spoilt, TakeMessage
  PROVE  OrderHolds'
<1>1. /\ events # <<>> /\ Head(events).kind = "message"
      /\ events' = Tail(events)
      /\ UNCHANGED <<log, moved, adding, rows>> /\ UNCHANGED goVars
  BY DEF TakeMessage, goVars
<1>2. /\ Head(events) \in MessageType /\ Head(events).key.chat \in Chat
      /\ Head(events).n \in Nat
  BY <1>1, TakenEvent, EventFacts DEF ViewInv
<1>3. PICK c \in Chat : c = Head(events).key.chat
  BY <1>2
<1>4. PICK k \in Nat : k = Head(events).n
  BY <1>2
<1>5. /\ k \in Coming(c) /\ Coming(c)' = Coming(c) \ {k}
      /\ \A m \in Coming(c)' : k < m
      /\ \A d \in Chat : d # c => Coming(d)' = Coming(d)
  BY <1>1, <1>3, <1>4, MessageFlies DEF ViewInv
<1>6. CASE key # NoKey /\ Head(events).key = key
  <2>1. TakeOwn(Entry(c, k)) /\ key.chat = c
    BY <1>3, <1>4, <1>6 DEF TakeMessage
  <2>2. UNCHANGED goVars
    BY <1>1
  <2>3. QED
    BY <1>5, <1>6, <2>1, <2>2, OrderOwn
<1>7. CASE ~(key # NoKey /\ Head(events).key = key)
  <2>1. UNCHANGED <<key, shown, next, pending>>
    BY <1>7 DEF TakeMessage, TakeOther, viewVars
  <2>2. \A d \in Chat : \A m \in Coming(d)' : m \in Coming(d)
    BY <1>5
  <2>3. log' \in [Chat -> Nat] /\ \A d \in Chat : log[d] <= log'[d]
    BY <1>1 DEF ViewInv, ViewTypes
  <2>4. QED
    BY <2>1, <2>2, <2>3, OrderStays
<1>8. QED
  BY <1>6, <1>7

\* A call is answered or fails.
LEMMA OrderEnds ==
  ASSUME ViewInv, OrderHolds, Sound, NearHolds, NEW q \in calls,
         Answer(q) \/ Fail(q), ~spoilt'
  PROVE  OrderHolds'
<1>1. UNCHANGED <<goVars, events, rows>>
  BY DEF Answer, Fail
<1>2. /\ \A c \in Chat : Coming(c)' = Coming(c)
      /\ log' \in [Chat -> Nat] /\ \A c \in Chat : log[c] <= log'[c]
  BY <1>1, FlightStays DEF ViewInv, ViewTypes, goVars
<1>3. ASSUME UNCHANGED <<key, shown, next, pending>> PROVE OrderHolds'
  BY <1>2, <1>3, OrderStays
<1>4. CASE Answer(q)
  <2>1. /\ q.cut >= 0
        /\ \/ StaleAnswer(q)
           \/ FirstPage(q) /\ calls' = calls \ {q}
           \/ OlderPage(q) /\ calls' = calls \ {q}
           \/ SyncPage(q)
    BY <1>4 DEF Answer
  <2>2. CASE StaleAnswer(q)
    BY <1>3, <2>2 DEF StaleAnswer, viewVars
  <2>3. CASE SyncPage(q) /\ Reloads(q)
    <3>1. OpenKey(key)
      BY <1>1, <2>3, ReloadTyped DEF ViewInv
    <3>2. QED
      BY <3>1, OrderOpens DEF OpenKey
  <2>4. CASE SyncPage(q) /\ ~Reloads(q)
    BY <1>1, <2>1, <2>4, OrderRefresh
  <2>5. CASE FirstPage(q) \/ OlderPage(q)
    <3>1. Current(q) /\ ~Swamps(q)
      BY <2>5 DEF FirstPage, OlderPage, Current
    <3>2. Calm(q)
      BY <2>1, <3>1, CalmFacts
    <3>3. calls' = calls \ {q}
      BY <2>1, <2>5 DEF FirstPage, OlderPage, StaleAnswer, Stale, SyncPage
    <3>4. QED
      BY <1>1, <2>1, <2>5, <3>2, <3>3, OrderFirstPage, OrderOlderPage
  <2>6. QED
    BY <2>1, <2>2, <2>3, <2>4, <2>5
<1>5. CASE Fail(q)
  <2>1. FirstPageFails(q) \/ OlderPageFails(q) \/ SyncFails(q)
    BY <1>5 DEF Fail
  <2>2. CASE FirstPageFails(q)
    <3>1. /\ q.what = "open" /\ Current(q) /\ pending' = <<>>
          /\ shown' = shown /\ next' = next
      BY <2>2 DEF FirstPageFails, Current
    <3>2. shown = <<>> /\ next = NoPage
      BY <3>1 DEF ViewInv, CallsHold, CallHolds, FlagsHold
    <3>3. QED
      BY <3>1, <3>2, OrderOpens
  <2>3. CASE OlderPageFails(q)
    BY <1>3, <2>3 DEF OlderPageFails
  <2>4. CASE SyncFails(q)
    BY <1>3, <2>4 DEF SyncFails, viewVars
  <2>5. QED
    BY <2>1, <2>2, <2>3, <2>4
<1>6. QED
  BY <1>4, <1>5

\* A step opens a chat, or it leaves the open one, and what was mixed stays so.
LEMMA ViewMoves ==
  ASSUME ViewInv, [Next]_vars
  PROVE  \/ /\ \E k : OpenKey(k)
            /\ UNCHANGED <<log, mix, into, moved, adding, events, rows>>
         \/ /\ key' = key /\ (~spoilt' => ~spoilt)
            /\ \A c \in Chat : Mixed(c) => Mixed(c)'
<1>1. ASSUME UNCHANGED <<mix, into>>, key' = key, ~spoilt' => ~spoilt
      PROVE  /\ key' = key /\ (~spoilt' => ~spoilt)
             /\ \A c \in Chat : Mixed(c) => Mixed(c)'
  BY <1>1 DEF Mixed
<1>2. CASE \/ UNCHANGED vars \/ (\E q \in calls : Read(q)) \/ Scroll
           \/ (\E c \in Chat : Regroup(c)) \/ EmitMessage \/ EmitChats
           \/ TakeChats
  <2>1. CASE UNCHANGED vars
    BY <1>1, <2>1 DEF vars, goVars, viewVars, history
  <2>2. CASE \E q \in calls : Read(q)
    BY <1>1, <2>2 DEF Read, goVars, viewVars, history
  <2>3. CASE Scroll
    BY <1>1, <2>3 DEF Scroll, goVars, history
  <2>4. CASE \E c \in Chat : Regroup(c)
    BY <1>1, <2>4 DEF Regroup, viewVars, history
  <2>5. CASE EmitMessage \/ EmitChats \/ TakeChats
    BY <1>1, <2>5 DEF EmitMessage, EmitChats, TakeChats, goVars, viewVars,
                      history
  <2>6. QED
    BY <1>2, <2>1, <2>2, <2>3, <2>4, <2>5
<1>3. CASE \E c \in Chat : Add(c)
  <2>1. PICK c \in Chat : Add(c)
    BY <1>3
  <2>2. key' = key /\ (~spoilt' => ~spoilt)
    BY <2>1 DEF Add, viewVars
  <2>3. MixStays
    BY <2>1, AddMixes DEF ViewInv
  <2>4. QED
    BY <2>2, <2>3 DEF MixStays
<1>4. CASE \E c, d \in Chat : Join(d, c)
  <2>1. PICK c \in Chat, d \in Chat : Join(d, c)
    BY <1>4
  <2>2. key' = key /\ (~spoilt' => ~spoilt)
    BY <2>1 DEF Join, viewVars
  <2>3. MixStays
    BY <2>1, JoinMixes DEF ViewInv
  <2>4. QED
    BY <2>2, <2>3 DEF MixStays
<1>5. CASE \E c \in Chat : Open(c)
  BY <1>5 DEF Open, goVars
<1>6. CASE TakeMessage
  <2>1. UNCHANGED <<mix, into, spoilt>>
    BY <1>6 DEF TakeMessage, goVars
  <2>2. key' = key
    BY <1>6 DEF TakeMessage, TakeOwn, TakeOther, viewVars
  <2>3. QED
    BY <1>1, <2>1, <2>2
<1>7. CASE \E q \in calls : Answer(q) \/ Fail(q)
  <2>1. PICK q \in calls : Answer(q) \/ Fail(q)
    BY <1>7
  <2>2. UNCHANGED <<log, mix, into, moved, adding, events, rows>>
    BY <2>1 DEF Answer, Fail, goVars
  <2>3. \/ \E k : OpenKey(k)
        \/ key' = key /\ (~spoilt' => ~spoilt)
    <3>1. CASE SyncPage(q)
      BY <3>1 DEF SyncPage
    <3>2. CASE StaleAnswer(q)
      BY <3>2 DEF StaleAnswer, viewVars, history
    <3>3. CASE FirstPage(q) \/ OlderPage(q)
      BY <3>3 DEF FirstPage, OlderPage
    <3>4. CASE FirstPageFails(q) \/ OlderPageFails(q) \/ SyncFails(q)
      BY <3>4 DEF FirstPageFails, OlderPageFails, SyncFails, viewVars
    <3>5. QED
      BY <2>1, <3>1, <3>2, <3>3, <3>4 DEF Answer, Fail
  <2>4. QED
    BY <1>1, <2>2, <2>3
<1>8. QED
  BY <1>2, <1>3, <1>4, <1>5, <1>6, <1>7 DEF Next, GoStep, PageStep

\* How a step changes what there is and what is coming.
LEMMA ComingMoves ==
  ASSUME ViewInv, [Next]_vars
  PROVE  \/ \E c \in Chat : Add(c)
         \/ /\ log' = log
            /\ \A d \in Chat : Coming(d)' \subseteq Coming(d)
<1>1. ASSUME UNCHANGED <<log, moved, adding, events, rows>>
      PROVE  /\ log' = log
             /\ \A d \in Chat : Coming(d)' \subseteq Coming(d)
  BY <1>1, FlightStays DEF ViewInv
<1>2. CASE \/ UNCHANGED vars \/ (\E q \in calls : Read(q)) \/ Scroll
           \/ \E c \in Chat : Open(c)
           \/ \E q \in calls : Answer(q) \/ Fail(q)
  <2>1. CASE UNCHANGED vars
    BY <1>1, <2>1 DEF vars, goVars
  <2>2. CASE \E q \in calls : Read(q)
    <3>1. UNCHANGED <<goVars, events, rows>>
      BY <2>2 DEF Read
    <3>2. QED
      BY <1>1, <3>1 DEF goVars
  <2>3. CASE Scroll
    BY <1>1, <2>3 DEF Scroll, goVars
  <2>4. CASE \E c \in Chat : Open(c)
    BY <1>1, <2>4 DEF Open, goVars
  <2>5. CASE \E q \in calls : Answer(q) \/ Fail(q)
    BY <1>1, <2>5 DEF Answer, Fail, goVars
  <2>6. QED
    BY <1>2, <2>1, <2>2, <2>3, <2>4, <2>5
<1>3. CASE (\E c \in Chat : Regroup(c)) \/ \E c, d \in Chat : Join(d, c)
  <2>1. UNCHANGED <<log, adding, events, rows>>
    BY <1>3 DEF Regroup, Join
  <2>2. moved \subseteq moved'
    BY <1>3, JoinMixes DEF Regroup, ViewInv
  <2>3. QED
    BY <2>1, <2>2, RegroupFlies DEF ViewInv
<1>4. CASE EmitMessage \/ EmitChats \/ TakeChats
  <2>1. log' = log
    BY <1>4 DEF EmitMessage, EmitChats, TakeChats, goVars
  <2>2. \A d \in Chat : Coming(d)' = Coming(d)
    BY <1>4, EmitFlies, ChatsFly, RowsFly DEF ViewInv
  <2>3. QED
    BY <2>1, <2>2
<1>5. CASE TakeMessage
  <2>1. /\ events # <<>> /\ Head(events).kind = "message"
        /\ events' = Tail(events) /\ UNCHANGED <<log, moved, adding, rows>>
    BY <1>5 DEF TakeMessage, goVars
  <2>2. /\ Head(events) \in MessageType /\ Head(events).key.chat \in Chat
        /\ Head(events).n \in Nat
    BY <2>1, TakenEvent, EventFacts DEF ViewInv
  <2>3. PICK c \in Chat : c = Head(events).key.chat
    BY <2>2
  <2>4. PICK k \in Nat : k = Head(events).n
    BY <2>2
  <2>5. /\ Coming(c)' = Coming(c) \ {k}
        /\ \A d \in Chat : d # c => Coming(d)' = Coming(d)
    BY <2>1, <2>3, <2>4, MessageFlies DEF ViewInv
  <2>6. QED
    BY <2>1, <2>5
<1>6. QED
  BY <1>2, <1>3, <1>4, <1>5 DEF Next, GoStep, PageStep

\* What is on its way to a view that is not spoilt stays in reach.
LEMMA NearStep == ViewInv /\ NearHolds /\ [Next]_vars => NearHolds'
<1> SUFFICES ASSUME ViewInv, NearHolds, [Next]_vars, ~spoilt',
                    NEW d \in Chat, NEW n \in Coming(d)'
             PROVE  log'[d] - n < Window
  BY DEF NearHolds
<1>1. log[d] \in Nat /\ Window \in Nat \ {0}
  BY ViewConstants DEF ViewInv, ViewTypes
<1>2. CASE \E c \in Chat : Add(c)
  <2>1. PICK c \in Chat : Add(c)
    BY <1>2
  <2>2. ~spoilt /\ Flying + 1 <= Window
    <3>1. ~spoilt /\ ~(Flying + 1 > Window)
      BY <2>1 DEF Add
    <3>2. Flying \in Nat
      BY FlyingNat DEF ViewInv
    <3>3. QED
      BY <1>1, <3>1, <3>2
  <2>3. /\ Coming(c)' = Coming(c) \cup {log[c] + 1}
        /\ \A x \in Chat : x # c => Coming(x)' = Coming(x)
        /\ log'[c] = log[c] + 1 /\ \A x \in Chat : x # c => log'[x] = log[x]
    BY <2>1, AddFlies DEF ViewInv
  <2>4. CASE d # c
    BY <2>2, <2>3, <2>4 DEF NearHolds
  <2>5. CASE d = c /\ n = log[c] + 1
    BY <1>1, <2>3, <2>5
  <2>6. CASE d = c /\ n \in Coming(d)
    <3>1. log[d] - n + 1 <= Flying /\ Flying \in Nat /\ n \in Nat
      BY <2>6, FlightCount, ComingRange DEF ViewInv
    <3>2. QED
      BY <1>1, <2>2, <2>3, <2>6, <3>1
  <2>7. QED
    BY <2>3, <2>4, <2>5, <2>6
<1>3. CASE ~\E c \in Chat : Add(c)
  <2>1. log' = log /\ n \in Coming(d)
    BY <1>3, ComingMoves
  <2>2. CASE \E k : OpenKey(k)
    <3>1. log[d] - n + 1 <= Flying /\ Flying \in Nat /\ n \in Nat
      BY <2>1, FlightCount, ComingRange DEF ViewInv
    <3>2. ~(Flying > 0) \/ ~(Flying > Window)
      BY <2>2 DEF OpenKey
    <3>3. QED
      BY <1>1, <2>1, <3>1, <3>2
  <2>3. CASE ~spoilt
    BY <2>1, <2>3 DEF NearHolds
  <2>4. QED
    BY <2>2, <2>3, ViewMoves
<1>4. QED
  BY <1>2, <1>3

\* A step in the open chat finds it as it leaves it.
LEMMA SoundStays ==
  ASSUME ViewInv, [Next]_vars, Sound', token' = token PROVE Sound
<1>1. ~\E k : OpenKey(k)
  <2>1. token \in Nat
    BY DEF ViewInv, ViewTypes
  <2>2. token' # token + 1
    BY <2>1
  <2>3. QED
    BY <2>2 DEF OpenKey
<1>2. key' = key /\ ~spoilt /\ \A c \in Chat : Mixed(c) => Mixed(c)'
  BY <1>1, ViewMoves DEF Sound
<1>3. key # NoKey => key.chat \in Chat
  BY KeyFacts DEF ViewInv, ViewTypes
<1>4. key' # NoKey => ~Mixed(key.chat)'
  BY DEF Sound
<1>5. key # NoKey => ~Mixed(key.chat)'
  BY <1>2, <1>4
<1>6. key # NoKey => ~Mixed(key.chat)
  BY <1>2, <1>3, <1>5
<1>7. QED
  BY <1>2, <1>6 DEF Sound

\* Every step keeps the order, as long as no merge and no burst meets the open
\* chat.
LEMMA OrderStep ==
  ViewInv /\ NearHolds /\ (Sound => OrderHolds) /\ [Next]_vars
    => (Sound' => OrderHolds')
<1> SUFFICES ASSUME ViewInv, NearHolds, Sound =>
                      OrderHolds, [Next]_vars, Sound'
             PROVE  OrderHolds'
  OBVIOUS
<1>0. log \in [Chat -> Nat] /\ \A c \in Chat : log[c] <= log[c]
        /\ log[c] \in Nat
  BY DEF ViewInv, ViewTypes
<1>1. CASE \E k : OpenKey(k)
  BY <1>1, OrderOpens DEF OpenKey
<1>2. CASE ~\E k : OpenKey(k)
  <2>1. Sound /\ OrderHolds
    <3>1. key' = key /\ ~spoilt /\ \A c \in Chat : Mixed(c) => Mixed(c)'
      BY <1>2, ViewMoves DEF Sound
    <3>2. key # NoKey => key.chat \in Chat
      BY KeyFacts DEF ViewInv, ViewTypes
    <3>3. key' # NoKey => ~Mixed(key.chat)'
      BY DEF Sound
    <3>4. key # NoKey => ~Mixed(key.chat)
      <4>1. key # NoKey => ~Mixed(key.chat)'
        BY <3>1, <3>3
      <4>2. QED
        BY <3>1, <3>2, <4>1
    <3>5. QED
      BY <3>1, <3>4 DEF Sound
  <2>2. ~spoilt /\ ~spoilt'
    BY <2>1 DEF Sound
  <2>3. CASE TakeMessage
    BY <2>1, <2>2, <2>3, OrderTakes
  <2>4. CASE \E q \in calls : Answer(q) \/ Fail(q)
    BY <2>1, <2>2, <2>4, OrderEnds
  <2>5. CASE \E c \in Chat : Add(c)
    <3>1. PICK c \in Chat : Add(c)
      BY <2>5
    <3>2. /\ Coming(c)' = Coming(c) \cup {log[c] + 1}
          /\ \A d \in Chat : d # c => Coming(d)' = Coming(d)
          /\ log'[c] = log[c] + 1 /\ \A d \in Chat : d # c => log'[d] = log[d]
          /\ log' \in [Chat -> Nat]
      BY <3>1, AddFlies DEF ViewInv
    <3>3. UNCHANGED <<key, shown, next, pending>>
      BY <3>1 DEF Add, viewVars
    <3>4. \A d \in Chat : log[d] <= log'[d]
      BY <1>0, <3>2
    <3>5. \A d \in Chat : \A m \in Coming(d)' :
            m \in Coming(d) \/ (m \in Nat /\ log[d] < m)
      BY <1>0, <3>2
    <3>6. QED
      BY <2>1, <3>2, <3>3, <3>4, <3>5, OrderStays
  <2>6. CASE \/ UNCHANGED vars \/ (\E q \in calls : Read(q)) \/ Scroll
             \/ (\E c \in Chat : Regroup(c)) \/ \E c, d \in Chat : Join(d, c)
             \/ EmitMessage \/ EmitChats \/ TakeChats
    <3>1. UNCHANGED <<key, shown, next, pending, log>>
      <4>1. CASE UNCHANGED vars
        BY <4>1 DEF vars, goVars, viewVars
      <4>2. CASE \E q \in calls : Read(q)
        <5>1. UNCHANGED <<goVars, viewVars>>
          BY <4>2 DEF Read
        <5>2. QED
          BY <5>1 DEF goVars, viewVars
      <4>3. CASE \E c \in Chat : Regroup(c)
        BY <4>3 DEF Regroup, viewVars
      <4>4. CASE \E c, d \in Chat : Join(d, c)
        BY <4>4 DEF Join, viewVars
      <4>5. CASE EmitMessage \/ EmitChats \/ TakeChats
        BY <4>5 DEF EmitMessage, EmitChats, TakeChats, goVars, viewVars
      <4>6. CASE Scroll
        BY <4>6 DEF Scroll, goVars
      <4>7. QED
        BY <2>6, <4>1, <4>2, <4>3, <4>4, <4>5, <4>6
    <3>2. CASE \E c \in Chat : Add(c)
      BY <2>5, <3>2
    <3>3. CASE ~\E c \in Chat : Add(c)
      <4>1. \A d \in Chat : Coming(d)' \subseteq Coming(d)
        BY <3>3, ComingMoves
      <4>2. QED
        BY <1>0, <2>1, <3>1, <4>1, OrderStays
    <3>4. QED
      BY <3>2, <3>3
  <2>7. CASE \E c \in Chat : Open(c)
    BY <1>2, <2>7 DEF Open
  <2>8. QED
    BY <2>3, <2>4, <2>5, <2>6, <2>7 DEF Next, GoStep, PageStep
<1>3. QED
  BY <1>1, <1>2

\* The order says of the view what is promised.
LEMMA OrderShown ==
  ASSUME ViewInv, Sound, OrderHolds PROVE InOrderOnce
<1>1. CASE key = NoKey
  <2>1. shown = <<>>
    BY <1>1 DEF ViewInv, CallsHold, FlagsHold
  <2>2. QED
    BY <2>1, EmptySeq DEF InOrderOnce
<1>2. CASE key # NoKey
  <2>1. PICK c \in Chat : c = key.chat
    BY <1>2, KeyFacts DEF ViewInv, ViewTypes
  <2>2. /\ shown \in Seq(EntryType) /\ log[c] \in Nat
        /\ \A e \in ToSet(shown) :
             e \in EntryType /\ e = Entry(c, e.n) /\ e.n \in 1..log[c]
    BY <1>2, <2>1, OpenChat
  <2>3. Now = [n \in 1..log[c] |-> Entry(c, n)]
    BY <1>2, <2>1, ViewConstants DEF Sound, Mixed, Now, Holder, List
  <2>4. \A i, j \in DOMAIN shown : i < j => shown[i].n < shown[j].n
    BY DEF OrderHolds, Follows, Before
  <2>5. DOMAIN shown = 1..Len(shown) /\ Len(shown) \in Nat
    BY <2>2, SetOfSeq
  <2>6. \A i \in DOMAIN shown :
          shown[i] = Entry(c, shown[i].n) /\ shown[i].n \in 1..log[c]
    BY <2>2 DEF ToSet
  <2>7. ASSUME NEW j \in DOMAIN shown
        PROVE  \E n \in DOMAIN Now :
                 /\ shown[j] = Now[n]
                 /\ \A i \in 1..(j - 1) :
                      \E m \in 1..(n - 1) : shown[i] = Now[m]
    <3> DEFINE k == shown[j].n
    <3>1. k \in 1..log[c] /\ k \in DOMAIN Now /\ shown[j] = Now[k]
      BY <2>3, <2>6
    <3>2. ASSUME NEW i \in 1..(j - 1)
          PROVE  \E m \in 1..(k - 1) : shown[i] = Now[m]
      <4>1. i \in DOMAIN shown /\ i < j
        BY <2>5
      <4>2. shown[i].n < k /\ shown[i].n \in 1..log[c]
        BY <2>4, <2>6, <4>1
      <4>3. shown[i].n \in 1..(k - 1) /\ shown[i] = Now[shown[i].n]
        BY <2>2, <2>3, <2>6, <3>1, <4>1, <4>2
      <4>4. QED
        BY <4>3
    <3> HIDE DEF k
    <3>3. QED
      BY <3>1, <3>2
  <2>8. QED
    BY <2>7 DEF InOrderOnce
<1>3. QED
  BY <1>1, <1>2

\* No entries were merged into or out of the open chat.
Unmixed == key # NoKey => ~Mixed(key.chat)

\* The page starts without a view.
LEMMA OrderStarts ==
  ASSUME Init PROVE NearHolds /\ OrderHolds
<1>1. /\ shown = <<>> /\ pending = <<>> /\ next = NoPage /\ key = NoKey
      /\ adding = None /\ events = <<>>
  BY DEF Init
<1>2. ToSet(<<>>) = {} /\ DOMAIN <<>> = {}
  BY EmptySeq DEF ToSet
<1>3. OrderHolds
  BY <1>1, <1>2 DEF OrderHolds, Follows
<1>4. \A c \in Chat : Coming(c) = {}
  BY <1>1, <1>2, ViewConstants DEF Coming
<1>5. QED
  BY <1>3, <1>4 DEF NearHolds

\* The view of a chat that was not merged shows only its entries, in Go's order
\* and none twice, whatever calls and events overtake each other, unless more
\* were on their way at once than appendNew looks back or a call was overtaken
\* by more than a page.
THEOREM OrderRight == PageSpec => [](Unmixed => InOrderOnce)
<1>1. PageInit => NearHolds /\ (Sound => OrderHolds)
  BY OrderStarts DEF PageInit
<1>2. ViewInv /\ NearHolds /\ (Sound => OrderHolds) /\ [PageNext]_pageVars
        => NearHolds' /\ (Sound => OrderHolds)'
  BY ViewNext, NearStep, OrderStep
<1>3. ViewInv /\ (Sound => OrderHolds) => (Unmixed => InOrderOnce)
  <2> SUFFICES ASSUME ViewInv, Sound => OrderHolds, Unmixed
               PROVE  InOrderOnce
    OBVIOUS
  <2>1. CASE spoilt
    BY <2>1 DEF InOrderOnce
  <2>2. CASE ~spoilt
    BY <2>2, OrderShown DEF Sound, Unmixed
  <2>3. QED
    BY <2>1, <2>2
<1>4. QED
  BY <1>1, <1>2, <1>3, ViewHoldsAlways, PTL DEF PageSpec

----------------------------------------------------------------------------
(* The refreshes of the view.                                               *)

\* The chat that is open has a new key in the list, and the view the old one.
Outdated == ~key.new /\ key.chat \in rows

\* A refresh of the open chat is for an outdated key; while the first page
\* loads, its call is there.
SyncHolds ==
  /\ \A q \in calls : q.what = "sync" /\ Current(q) => Outdated
  /\ key.new => key.chat \in rows
  /\ loading => \E q \in calls : Current(q) /\ q.what = "open"

\* The same call, read or not.
Kin(q, r) == q.what = r.what /\ q.chat = r.chat /\ q.token = r.token

\* A view that may ask for a refresh is outdated.
LEMMA MaySyncFacts ==
  ASSUME ViewInv, SyncHolds, MaySync, key # NoKey
  PROVE  Outdated /\ ~loading
<1>1. key.new \in BOOLEAN
  BY KeyFacts DEF ViewInv, ViewTypes
<1>2. key.new # (key.chat \in rows) /\ ~loading
  BY DEF MaySync, SelectedInList
<1>3. key.new => key.chat \in rows
  BY DEF SyncHolds
<1>4. CASE key.new = TRUE
  <2>1. (key.chat \in rows) = TRUE
    BY <1>3, <1>4
  <2>2. QED
    BY <1>2, <1>4, <2>1
<1>5. CASE key.new = FALSE
  <2>1. key.chat \in rows
    <3> SUFFICES ASSUME key.chat \notin rows PROVE FALSE
      OBVIOUS
    <3>1. (key.chat \in rows) = FALSE
      OBVIOUS
    <3>2. key.new = (key.chat \in rows)
      BY <1>5, <3>1
    <3>3. QED
      BY <1>2, <3>2
  <2>2. QED
    BY <1>2, <1>5, <2>1 DEF Outdated
<1>6. QED
  BY <1>1, <1>4, <1>5

\* What the steps in one chat have to keep.
LEMMA SyncStays ==
  ASSUME ViewInv, SyncHolds, UNCHANGED <<key, token>>, rows \subseteq rows',
         \A q \in calls' : q.what = "sync" =>
           \/ \E r \in calls : Kin(q, r)
           \/ Fresh(q) /\ Outdated,
         loading' => loading /\ \A q \in calls :
           Current(q) /\ q.what = "open" => \E r \in calls' : Kin(q, r)
  PROVE  SyncHolds'
<1>1. ASSUME NEW q \in calls', q.what = "sync", q.token = token'
      PROVE  ~key'.new /\ key'.chat \in rows'
  <2>1. CASE \E r \in calls : Kin(q, r)
    <3>1. PICK r \in calls : Kin(q, r)
      BY <2>1
    <3>2. r.what = "sync" /\ r.token = token
      BY <1>1, <3>1 DEF Kin
    <3>3. ~key.new /\ key.chat \in rows
      BY <3>2 DEF SyncHolds, Current, Outdated
    <3>4. QED
      BY <3>3
  <2>2. CASE Fresh(q) /\ Outdated
    BY <2>2 DEF Fresh, Outdated
  <2>3. QED
    BY <1>1, <2>1, <2>2
<1>2. key'.new => key'.chat \in rows'
  BY DEF SyncHolds
<1>3. ASSUME loading'
      PROVE  \E r \in calls' : r.token = token' /\ r.what = "open"
  <2>1. PICK q \in calls : Current(q) /\ q.what = "open"
    BY <1>3 DEF SyncHolds
  <2>2. PICK r \in calls' : Kin(q, r)
    BY <1>3, <2>1
  <2>3. QED
    BY <2>1, <2>2 DEF Kin, Current
<1>4. QED
  BY <1>1, <1>2, <1>3 DEF SyncHolds, Current, Outdated

\* A chat is opened.
LEMMA SyncOpens ==
  ASSUME ViewInv, SyncHolds, NEW k \in KeyType, OpenKey(k),
         rows' = rows, k.new => k.chat \in rows,
         \E q \in calls' : q.what = "open" /\ q.token = token + 1,
         \A q \in calls' : q.what = "sync" => q \in calls
  PROVE  SyncHolds'
<1>1. key' = k /\ token' = token + 1
  BY DEF OpenKey
<1>2. ASSUME NEW q \in calls', q.what = "sync" PROVE q.token # token + 1
  <2>1. q.token <= token /\ q.token \in Nat /\ token \in Nat
    BY <1>2 DEF ViewInv, ViewTypes, CallsHold, CallHolds, CallType
  <2>2. QED
    BY <2>1
<1>3. QED
  BY <1>1, <1>2 DEF SyncHolds, Current, Outdated

\* A call is answered or fails.
LEMMA SyncAnswered ==
  ASSUME ViewInv, SyncHolds, NEW q \in calls, Answer(q) \/ Fail(q)
  PROVE  SyncHolds'
<1>1. UNCHANGED <<goVars, events, rows>> /\ rows' = rows
  BY DEF Answer, Fail
<1>2. ASSUME UNCHANGED <<key, token>>,
             loading' => loading,
             Current(q) /\ q.what = "open" => ~loading',
             calls' = calls \ {q}
      PROVE  SyncHolds'
  <2>1. \A r \in calls' : r.what = "sync" => \E s \in calls : Kin(r, s)
    BY <1>2 DEF Kin
  <2>2. loading' => \A r \in calls :
          Current(r) /\ r.what = "open" => \E s \in calls' : Kin(r, s)
    BY <1>2 DEF Kin
  <2>3. QED
    BY <1>1, <1>2, <2>1, <2>2, SyncStays
<1>3. ASSUME UNCHANGED <<key, token>>, loading' => loading, q.what = "sync",
             SyncAgain(q, token, calls \ {q})
      PROVE  SyncHolds'
  <2>1. \A r \in calls' : r \in calls \/ (Fresh(r) /\ Current(q))
    <3>1. \A r \in calls' : r \in calls \ {q} \/ Fresh(r)
      BY <1>3, SyncAgainTyped DEF ViewInv
    <3>2. Current(q) \/ calls' = calls \ {q}
      BY <1>3 DEF SyncAgain, Current
    <3>3. QED
      BY <3>1, <3>2
  <2>2. Current(q) => Outdated
    BY <1>3 DEF SyncHolds
  <2>3. \A r \in calls' : r.what = "sync" =>
          (\E s \in calls : Kin(r, s)) \/ (Fresh(r) /\ Outdated)
    BY <2>1, <2>2 DEF Kin
  <2>4. \A r \in calls :
          Current(r) /\ r.what = "open" => \E s \in calls' : Kin(r, s)
    <3>1. calls \ {q} \subseteq calls'
      BY <1>3 DEF SyncAgain
    <3>2. QED
      BY <1>3, <3>1 DEF Kin
  <2>5. QED
    BY <1>1, <1>3, <2>3, <2>4, SyncStays
<1>4. CASE Answer(q)
  <2>1. /\ q.cut >= 0
        /\ \/ StaleAnswer(q)
           \/ FirstPage(q) /\ calls' = calls \ {q}
           \/ OlderPage(q) /\ calls' = calls \ {q}
           \/ SyncPage(q)
    BY <1>4 DEF Answer
  <2>2. CASE StaleAnswer(q)
    <3>1. UNCHANGED <<key, token, loading>> /\ ~Current(q)
      BY <2>2 DEF StaleAnswer, viewVars, Stale, Current
    <3>2. CASE q.what = "sync"
      BY <1>3, <2>2, <3>1, <3>2 DEF StaleAnswer
    <3>3. CASE q.what # "sync"
      BY <1>2, <2>2, <3>1, <3>3 DEF StaleAnswer
    <3>4. QED
      BY <3>2, <3>3
  <2>3. CASE FirstPage(q) /\ calls' = calls \ {q}
    BY <1>2, <2>3 DEF FirstPage
  <2>4. CASE OlderPage(q) /\ calls' = calls \ {q}
    BY <1>2, <2>4 DEF OlderPage
  <2>5. CASE SyncPage(q) /\ Reloads(q)
    <3>1. /\ OpenKey(key) /\ key \in KeyType
          /\ calls' = (calls \ {q}) \cup {Call("open", key.chat, token + 1, 0)}
      BY <1>1, <2>5, ReloadTyped DEF ViewInv
    <3>2. q.what = "sync" /\ Current(q) /\ UNCHANGED <<key, rows>>
      BY <1>1, <2>5, <3>1, SyncPageCases DEF OpenKey
    <3>3. \A r \in calls' : r.what # "sync"
      BY <3>1, <3>2 DEF ViewInv, CallsHold, Same, Call
    <3>4. \E r \in calls' : r.what = "open" /\ r.token = token'
      <4>1. PICK n : n = Call("open", key.chat, token + 1, 0)
        OBVIOUS
      <4>2. n \in calls' /\ n.what = "open" /\ n.token = token + 1
        BY <3>1, <4>1 DEF Call
      <4>3. token' = token + 1
        BY <3>1 DEF OpenKey
      <4>4. QED
        BY <4>2, <4>3
    <3>5. key'.new => key'.chat \in rows'
      BY <3>2 DEF SyncHolds
    <3>6. QED
      BY <3>3, <3>4, <3>5 DEF SyncHolds, Current
  <2>6. CASE SyncPage(q) /\ ~Reloads(q)
    BY <1>3, <2>6, SyncPageCases
  <2>7. QED
    BY <2>1, <2>2, <2>3, <2>4, <2>5, <2>6
<1>5. CASE Fail(q)
  <2>1. \/ FirstPageFails(q) /\ calls' = calls \ {q}
        \/ OlderPageFails(q) /\ calls' = calls \ {q}
        \/ SyncFails(q)
    BY <1>5 DEF Fail
  <2>2. CASE FirstPageFails(q) /\ calls' = calls \ {q}
    BY <1>2, <2>2 DEF FirstPageFails
  <2>3. CASE OlderPageFails(q) /\ calls' = calls \ {q}
    BY <1>2, <2>3 DEF OlderPageFails
  <2>4. CASE SyncFails(q)
    BY <1>3, <2>4 DEF SyncFails, viewVars
  <2>5. QED
    BY <2>1, <2>2, <2>3, <2>4
<1>6. QED
  BY <1>4, <1>5

\* Every step keeps what holds of the refreshes.
LEMMA SyncStep ==
  ASSUME ViewInv, SyncHolds, [Next]_vars
  PROVE  SyncHolds'
<1>1. ASSUME UNCHANGED <<key, token, loading>>, rows \subseteq rows',
             calls \subseteq calls',
             \A q \in calls' : q.what = "sync" =>
               q \in calls \/ (Fresh(q) /\ Outdated)
      PROVE  SyncHolds'
  <2>1. \A q \in calls' : q.what = "sync" =>
          (\E r \in calls : Kin(q, r)) \/ (Fresh(q) /\ Outdated)
    BY <1>1 DEF Kin
  <2>2. \A q \in calls :
          Current(q) /\ q.what = "open" => \E r \in calls' : Kin(q, r)
    BY <1>1 DEF Kin
  <2>3. QED
    BY <1>1, <2>1, <2>2, SyncStays
<1>2. CASE \/ UNCHANGED vars \/ (\E c \in Chat : Add(c) \/ Regroup(c))
           \/ (\E c, d \in Chat : Join(d, c)) \/ EmitMessage \/ EmitChats
  <2>1. UNCHANGED <<key, token, loading, rows, calls>>
    <3>1. CASE UNCHANGED vars
      BY <3>1 DEF vars, viewVars
    <3>2. CASE \E c \in Chat : Add(c) \/ Regroup(c)
      BY <3>2 DEF Add, Regroup, viewVars
    <3>3. CASE \E c, d \in Chat : Join(d, c)
      BY <3>3 DEF Join, viewVars
    <3>4. CASE EmitMessage \/ EmitChats
      BY <3>4 DEF EmitMessage, EmitChats, viewVars
    <3>5. QED
      BY <1>2, <3>1, <3>2, <3>3, <3>4
  <2>2. QED
    BY <1>1, <2>1
<1>3. CASE TakeChats
  <2>1. UNCHANGED <<key, token, loading, calls>>
    BY <1>3 DEF TakeChats, viewVars
  <2>2. rows \subseteq rows'
    BY <1>3, RowsFly DEF ViewInv
  <2>3. QED
    BY <1>1, <2>1, <2>2
<1>4. CASE \E c \in Chat : Open(c)
  <2>1. PICK c \in Chat : Open(c)
    BY <1>4
  <2>2. PICK k : k = Key(c, c \in rows)
    OBVIOUS
  <2>3. k \in KeyType /\ (k.new => k.chat \in rows)
    <3> DEFINE b == c \in rows
    <3>1. b \in BOOLEAN /\ k = Key(c, b)
      BY <2>2
    <3> HIDE DEF b
    <3>2. k \in KeyType /\ k.chat = c /\ k.new = b
      BY <3>1, KeyFacts
    <3>3. QED
      BY <3>2 DEF b
  <2>4. /\ OpenKey(k) /\ rows' = rows
        /\ calls' = calls \cup {Call("open", c, token + 1, 0)}
    BY <2>1, <2>2 DEF Open
  <2>5. PICK n : n = Call("open", c, token + 1, 0)
    OBVIOUS
  <2>6. n.what = "open" /\ n.token = token + 1 /\ n \in calls'
    BY <2>4, <2>5 DEF Call
  <2>7. /\ \E q \in calls' : q.what = "open" /\ q.token = token + 1
        /\ \A q \in calls' : q.what = "sync" => q \in calls
    BY <2>4, <2>5, <2>6
  <2>8. QED
    BY <2>3, <2>4, <2>7, SyncOpens
<1>5. CASE Scroll
  <2>1. /\ UNCHANGED <<key, token, loading, rows>>
        /\ calls' = calls \cup {Call("older", key.chat, token, next)}
    BY <1>5 DEF Scroll
  <2>2. QED
    BY <1>1, <2>1 DEF Call
<1>6. CASE \E q \in calls : Read(q)
  <2>1. PICK q \in calls : Read(q)
    BY <1>6
  <2>2. PICK h : h = Holder(q.chat)
    OBVIOUS
  <2>3. PICK r : r = [q EXCEPT !.cut = Len(List(h)), !.list = mix[h]]
    OBVIOUS
  <2>4. /\ UNCHANGED <<key, token, loading, rows>>
        /\ calls' = (calls \ {q}) \cup {r}
    BY <2>1, <2>2, <2>3 DEF Read, viewVars
  <2>5. q \in CallType
    BY DEF ViewInv, ViewTypes
  <2>6. Kin(q, r) /\ Kin(r, q) /\ \A s \in calls : Kin(s, s)
    BY <2>3, <2>5 DEF CallType, Kin
  <2>7. /\ \A s \in calls' : \E t \in calls : Kin(s, t)
        /\ \A s \in calls : \E t \in calls' : Kin(s, t)
    BY <2>4, <2>6
  <2>8. QED
    BY <2>4, <2>7, SyncStays
<1>7. CASE TakeMessage
  <2>1. UNCHANGED <<key, token, loading, rows>>
    BY <1>7 DEF TakeMessage, TakeOwn, TakeOther, viewVars
  <2>2. CASE calls' = calls
    BY <1>1, <2>1, <2>2
  <2>3. CASE key # NoKey /\ MaySync /\ Sync
    <3>1. Outdated
      BY <2>3, MaySyncFacts
    <3>2. PICK r : r = Call("sync", key.chat, token, 0)
      OBVIOUS
    <3>3. Fresh(r)
      BY <2>3, <3>2, FreshFacts DEF ViewInv, ViewTypes
    <3>4. calls' = calls \/ calls' = calls \cup {r}
      BY <2>3, <3>2 DEF Sync
    <3>5. QED
      BY <1>1, <2>1, <3>1, <3>3, <3>4
  <2>4. QED
    BY <1>7, <2>2, <2>3 DEF TakeMessage, TakeOwn, TakeOther
<1>8. QED
  BY <1>2, <1>3, <1>4, <1>5, <1>6, <1>7, SyncAnswered
  DEF Next, GoStep, PageStep

----------------------------------------------------------------------------
(* The view: what it gets.                                                  *)

\* What q has read or will read.
Reaches(q, n) == q.cut < 0 \/ n <= q.cut

\* A first page or a refresh that is on its way brings the entry, or the
\* refresh that follows it.
Covers(q, n) ==
  \/ q.what = "open" /\ Reaches(q, n)
  \/ q.what = "sync" /\ (Reaches(q, n) \/ syncAgain)

\* The entry is in the view, or it is excused or pending or on its way.
Due(c, n) ==
  \/ Entry(c, n) \in ToSet(shown) \cup ToSet(pending) \cup excused
  \/ n \in Coming(c)
  \/ \E q \in calls : Current(q) /\ Covers(q, n)

\* Every entry from the first page on is due, and those before the last one of
\* the view are in it or excused.
ThereHolds ==
  /\ loading => floor = 1
  /\ \A c \in Chat : key # NoKey /\ key.chat = c =>
       /\ \A n \in floor..log[c] : Due(c, n)
       /\ \A n \in floor..log[c] : \A e \in ToSet(shown) : n <= e.n =>
            Entry(c, n) \in ToSet(shown) \cup excused

\* The open chat stays, and what is due and what is shown are shown to hold.
LEMMA NewThere ==
  ASSUME NEW c \in Chat, key' # NoKey => key'.chat = c,
         loading' => floor' = 1,
         \A n \in floor'..log'[c] : Due(c, n)',
         \A n \in floor'..log'[c] : \A e \in ToSet(shown') : n <= e.n =>
           Entry(c, n) \in ToSet(shown') \cup excused'
  PROVE  ThereHolds'
BY DEF ThereHolds

\* The list of a chat that was not merged.
LEMMA UnmixedList ==
  ASSUME ViewInv, NEW c \in Chat, ~Mixed(c)
  PROVE  /\ Holder(c) = c /\ List(c) = [n \in 1..log[c] |-> Entry(c, n)]
         /\ Len(List(c)) = log[c] /\ log[c] \in Nat
         /\ \A n \in 1..log[c] : Entry(c, n) \in ToSet(List(c))
<1>1. Holder(c) = c /\ List(c) = [n \in 1..log[c] |-> Entry(c, n)]
        /\ mix[c] = <<>>
  BY DEF Mixed, Holder, List
<1>2. Len(List(c)) = log[c] /\ log[c] \in Nat
  BY <1>1, ListTyped DEF ViewInv, ViewTypes
<1>3. \A n \in 1..log[c] : Entry(c, n) \in ToSet(List(c))
  <2>1. DOMAIN List(c) = 1..log[c]
          /\ \A n \in 1..log[c] : List(c)[n] = Entry(c, n)
    BY <1>1
  <2>2. QED
    BY <2>1 DEF ToSet
<1>4. QED
  BY <1>1, <1>2, <1>3

\* A call for the open chat, when no merge met it.
LEMMA SoundCall ==
  ASSUME ViewInv, Sound, NEW q \in calls, Current(q)
  PROVE  /\ q \in CallType /\ q.before \in Nat
         /\ q.cut >= 0 => q.cut \in Nat
         /\ key # NoKey /\ q.chat = key.chat /\ q.chat \in Chat
         /\ ~Mixed(q.chat) /\ q.list = <<>> /\ q.cut <= log[q.chat]
<1>1. q \in CallType /\ q.before \in Nat /\ q.chat \in Chat
        /\ q.cut \in Nat \cup {-1}
  BY DEF ViewInv, ViewTypes, CallType
<1>2. key # NoKey /\ q.chat = key.chat
  BY DEF ViewInv, CallsHold, CallHolds
<1>3. ~Mixed(q.chat)
  BY <1>2 DEF Sound
<1>4. q.list = <<>> /\ q.cut <= log[q.chat]
  BY <1>3 DEF ViewInv, CallsHold, CallHolds
<1>5. QED
  BY <1>1, <1>2, <1>3, <1>4

\* Everything that is in the store and not on its way is delivered.
LEMMA DeliveredFacts ==
  ASSUME ViewInv, NEW c \in Chat, ~Mixed(c), NEW n \in 1..log[c],
         n \notin Coming(c)
  PROVE  Entry(c, n) \in Delivered(c)
<1>1. ASSUME NEW i \in InFlight,
             Entry(c, n) = Entry(events[i].key.chat, events[i].n)
      PROVE  FALSE
  <2>1. events[i].key.chat = c /\ events[i].n = n
    BY <1>1, EntryFacts
  <2>2. i \in DOMAIN events /\ events[i].kind = "message"
    BY DEF InFlight
  <2>3. events[i] \in ToSet(events) /\ events[i] \in EventType
    BY <2>2, SetOfSeq DEF ViewInv, ViewTypes, ToSet
  <2>4. events[i] \in MessageType
    BY <2>2, <2>3, EventFacts
  <2>5. QED
    BY <2>1, <2>3, <2>4, ComingFacts
<1>2. Entry(c, n) # Entry(adding, log[adding])
  <2>1. ~(adding = c /\ n = log[c])
    BY ComingFacts
  <2>2. QED
    BY <2>1, EntryFacts
<1>3. Holder(c) = c /\ Entry(c, n) \in ToSet(List(c))
  BY UnmixedList
<1>4. QED
  BY <1>1, <1>2, <1>3 DEF Delivered

\* What the view has after its first page.
LEMMA FirstPageSet ==
  ASSUME ViewInv, Sound, NEW q \in calls, q.cut >= 0, FirstPage(q)
  PROVE  /\ ToSet(shown') = ToSet(PageOf(q).messages) \cup ToSet(pending)
         /\ shown' \in Seq(EntryType)
         /\ \A n \in PageOf(q).first..q.cut :
              Entry(q.chat, n) \in ToSet(shown')
         /\ PageOf(q).first \in Nat \ {0}
         /\ q.what = "open" /\ Current(q) /\ loading /\ shown = <<>>
         /\ key # NoKey /\ q.chat = key.chat
<1>1. PICK p : p = PageOf(q)
  OBVIOUS
<1>2. PICK later : later = Unseen(p.messages)
  OBVIOUS
<1>3. q.what = "open" /\ Current(q) /\ shown' = p.messages \o later
  BY <1>1, <1>2 DEF FirstPage, Current
<1>4. q \in CallType /\ q.cut \in Nat /\ q.before \in Nat /\ q.list = <<>>
  BY <1>3, SoundCall
<1>5. key # NoKey /\ q.chat = key.chat /\ loading /\ shown = <<>>
        /\ q.before = 0
  BY <1>3 DEF ViewInv, CallsHold, CallHolds, FlagsHold
<1>6. /\ p.messages \in Seq(EntryType) /\ p.first \in Nat \ {0}
      /\ \A e : e \in ToSet(p.messages) <=>
                  \E n \in p.first..(q.cut - q.before) : e = Entry(q.chat, n)
  BY <1>1, <1>4, PageFacts
<1>7. \A n \in p.first..q.cut : Entry(q.chat, n) \in ToSet(p.messages)
  <2>1. q.cut - q.before = q.cut
    BY <1>4, <1>5
  <2>2. QED
    BY <1>6, <2>1
<1>8. later \in Seq(EntryType)
        /\ ToSet(later) = ToSet(pending) \ ToSet(p.messages)
  <2>1. PICK S : S = ToSet(pending) \ ToSet(p.messages)
    OBVIOUS
  <2>2. later = Chosen(pending, S) /\ pending \in Seq(EntryType)
    BY <1>2, <2>1 DEF Unseen, ViewInv, ViewTypes
  <2>3. later \in Seq(EntryType) /\ ToSet(later) = ToSet(pending) \cap S
    BY <2>2, ChosenFacts
  <2>4. QED
    BY <2>1, <2>3
<1>9. ToSet(shown') = ToSet(p.messages) \cup ToSet(later)
        /\ shown' \in Seq(EntryType)
  BY <1>3, <1>6, <1>8, ConcatSet
<1>10. QED
  BY <1>1, <1>3, <1>5, <1>6, <1>7, <1>8, <1>9

\* What the view has after an older page.
LEMMA OlderPageSet ==
  ASSUME ViewInv, Sound, NEW q \in calls, q.cut >= 0, OlderPage(q)
  PROVE  /\ ToSet(shown') = ToSet(PageOf(q).messages) \cup ToSet(shown)
         /\ shown # <<>> /\ shown' \in Seq(EntryType)
         /\ NotHad(PageOf(q).messages) \in Seq(EntryType)
<1>1. PICK p : p = PageOf(q)
  OBVIOUS
<1>2. PICK new : new = NotHad(p.messages)
  OBVIOUS
<1>3. q.what = "older" /\ Current(q) /\ shown' = new \o shown
  BY <1>1, <1>2 DEF OlderPage, Current
<1>4. q \in CallType /\ q.cut \in Nat /\ q.list = <<>>
  BY <1>3, SoundCall
<1>5. shown # <<>> /\ shown \in Seq(EntryType)
  BY <1>3 DEF ViewInv, ViewTypes, CallsHold, CallHolds, FlagsHold
<1>6. p.messages \in Seq(EntryType)
  BY <1>1, <1>4, PageFacts
<1>7. new \in Seq(EntryType) /\ ToSet(new) = ToSet(p.messages) \ ToSet(shown)
  <2>1. PICK S : S = ToSet(p.messages) \ ToSet(shown)
    OBVIOUS
  <2>2. new = Chosen(p.messages, S)
    BY <1>2, <2>1 DEF NotHad
  <2>3. new \in Seq(EntryType) /\ ToSet(new) = ToSet(p.messages) \cap S
    BY <1>6, <2>2, ChosenFacts
  <2>4. QED
    BY <2>1, <2>3
<1>8. ToSet(shown') = ToSet(new) \cup ToSet(shown) /\ shown' \in Seq(EntryType)
  BY <1>3, <1>5, <1>7, ConcatSet
<1>9. QED
  BY <1>1, <1>2, <1>5, <1>7, <1>8

\* What the view has after a refresh: everything of the page that is later
\* than what it had.
LEMMA RefreshSet ==
  ASSUME ViewInv, OrderHolds, Sound, NEW q \in calls, q.cut >= 0,
         SyncPage(q), ~Reloads(q)
  PROVE  /\ ToSet(shown) \subseteq ToSet(shown')
         /\ ToSet(shown') \subseteq ToSet(PageOf(q).messages) \cup ToSet(shown)
         /\ \A n \in PageOf(q).first..q.cut :
              \/ Entry(q.chat, n) \in ToSet(shown')
              \/ \E e \in ToSet(shown) : n <= e.n
         /\ shown # <<>> => \E e \in ToSet(shown) : PageOf(q).first <= e.n
         /\ shown' \in Seq(EntryType)
         /\ PageOf(q).first \in Nat \ {0}
<1>1. PICK p : p = PageOf(q)
  OBVIOUS
<1>2. PICK fresh : fresh = IF shown = <<>> THEN p.messages
                           ELSE After(p.messages, Last(shown))
  OBVIOUS
<1>3. q.what = "sync" /\ Current(q) /\ shown' = shown \o fresh
  BY <1>1, <1>2, SyncPageCases
<1>4. /\ q \in CallType /\ q.cut \in Nat /\ q.before \in Nat
      /\ q.chat \in Chat /\ shown \in Seq(EntryType) /\ q.list = <<>>
  BY <1>3, SoundCall DEF ViewInv, ViewTypes
<1>5. q.before = 0
  BY <1>3 DEF ViewInv, CallsHold, CallHolds
<1>6. /\ p.messages \in Seq(EntryType) /\ p.first \in Nat \ {0}
      /\ Follows(p.messages, Before)
      /\ \A e : e \in ToSet(p.messages) <=>
                  \E n \in p.first..(q.cut - q.before) : e = Entry(q.chat, n)
  BY <1>1, <1>4, PageFacts
<1>7. \A e : e \in ToSet(p.messages) <=>
        \E n \in p.first..q.cut : e = Entry(q.chat, n)
  <2>1. q.cut - q.before = q.cut
    BY <1>4, <1>5
  <2>2. QED
    BY <1>6, <2>1
<1>8. CASE shown = <<>>
  <2>1. ToSet(shown) = {} /\ fresh = p.messages
    BY <1>2, <1>4, <1>8, SetOfSeq
  <2>2. ToSet(shown') = ToSet(p.messages) /\ shown' \in Seq(EntryType)
    <3>1. shown' = shown \o p.messages
      BY <1>3, <2>1
    <3>2. /\ shown \o p.messages \in Seq(EntryType)
          /\ ToSet(shown \o p.messages) = ToSet(shown) \cup ToSet(p.messages)
      BY <1>4, <1>6, ConcatSet
    <3>3. QED
      BY <2>1, <3>1, <3>2
  <2>3. QED
    BY <1>1, <1>6, <1>7, <1>8, <2>1, <2>2
<1>9. CASE shown # <<>>
  <2>1. PICK last : last = Last(shown)
    OBVIOUS
  <2>2. last \in ToSet(p.messages) /\ fresh = After(p.messages, last)
    BY <1>1, <1>2, <1>9, <2>1 DEF Reloads
  <2>3. last \in ToSet(shown)
    BY <1>4, <1>9, <2>1, EndsOfList DEF OrderHolds
  <2>4. /\ fresh \in Seq(EntryType)
        /\ ToSet(fresh) = {e \in ToSet(p.messages) : last.n < e.n}
    BY <1>6, <2>2, AfterFacts
  <2>5. ToSet(shown') = ToSet(shown) \cup ToSet(fresh)
          /\ shown' \in Seq(EntryType)
    BY <1>3, <1>4, <2>4, ConcatSet
  <2>6. last.n \in Nat
    BY <1>4, <2>3, SetOfSeq, EntryFacts
  <2>7. ASSUME NEW n \in p.first..q.cut
        PROVE  Entry(q.chat, n) \in ToSet(shown') \/ n <= last.n
    <3>1. Entry(q.chat, n) \in ToSet(p.messages) /\ Entry(q.chat, n).n = n
      BY <1>7, EntryFacts
    <3>2. n \in Nat
      BY <1>4, <1>6
    <3>3. last.n < n => Entry(q.chat, n) \in ToSet(fresh)
      BY <2>4, <3>1
    <3>4. QED
      BY <2>5, <2>6, <3>2, <3>3
  <2>8. p.first <= last.n
    <3>1. PICK n \in p.first..q.cut : last = Entry(q.chat, n)
      BY <1>7, <2>2
    <3>2. last.n = n /\ n \in Nat
      BY <1>4, <1>6, <3>1, EntryFacts
    <3>3. QED
      BY <1>6, <3>2
  <2>9. QED
    BY <1>1, <1>6, <2>3, <2>4, <2>5, <2>7, <2>8
<1>10. QED
  BY <1>8, <1>9

\* What a step that leaves the view and its current calls alone has to keep.
LEMMA ThereStays ==
  ASSUME ViewInv, OrderHolds, ThereHolds,
         UNCHANGED <<key, token, shown, pending, excused, floor, syncAgain>>,
         loading' => loading,
         \A c \in Chat : /\ log[c] \in Nat /\ log'[c] \in Nat
                         /\ \A n \in 1..log'[c] :
                              n \in Coming(c)'
                                \/ (n <= log[c] /\ n \notin Coming(c)),
         \A q \in calls : Current(q) /\ q.what # "older" =>
           \E r \in calls' : Kin(q, r) /\ (r = q \/ r.cut = log'[q.chat])
  PROVE  ThereHolds'
<1>1. CASE key = NoKey
  BY <1>1 DEF ThereHolds
<1>2. CASE key # NoKey
  <2>1. PICK c \in Chat : c = key.chat
    BY <1>2, KeyFacts DEF ViewInv, ViewTypes
  <2>2. floor \in Nat \ {0} /\ log[c] \in Nat /\ log'[c] \in Nat
    BY DEF ViewInv, ViewTypes
  <2>3. \A n \in floor..log'[c] :
          n \in Nat /\
            (n \in Coming(c)' \/ (n \in floor..log[c] /\ n \notin Coming(c)))
    BY <2>2
  <2>4. ASSUME NEW n \in floor..log'[c] PROVE Due(c, n)'
    <3>1. CASE n \in Coming(c)'
      BY <3>1 DEF Due
    <3>2. CASE n \in floor..log[c] /\ n \notin Coming(c)
      <4>1. Due(c, n)
        BY <1>2, <2>1, <3>2 DEF ThereHolds
      <4>2. CASE Entry(c, n) \in ToSet(shown) \cup ToSet(pending) \cup excused
        <5>1. ToSet(shown)' = ToSet(shown) /\ ToSet(pending)' = ToSet(pending)
          BY DEF ToSet
        <5>2. QED
          BY <4>2, <5>1 DEF Due
      <4>3. CASE \E q \in calls : Current(q) /\ Covers(q, n)
        <5>1. PICK q \in calls : Current(q) /\ Covers(q, n)
          BY <4>3
        <5>2. q.what # "older" /\ q.chat = c
          BY <2>1, <5>1 DEF Covers, ViewInv, CallsHold, CallHolds
        <5>3. PICK r \in calls' : Kin(q, r) /\ (r = q \/ r.cut = log'[c])
          BY <5>1, <5>2
        <5>4. r.token = token' /\ r.what = q.what
          BY <5>1, <5>3 DEF Kin, Current
        <5>5. Reaches(r, n) \/ (r = q /\ syncAgain' = syncAgain)
          BY <2>3, <5>3 DEF Reaches
        <5>6. Covers(r, n)'
          BY <5>1, <5>3, <5>4, <5>5 DEF Covers, Reaches
        <5>7. QED
          BY <5>4, <5>6 DEF Due, Current
      <4>4. QED
        BY <3>2, <4>1, <4>2, <4>3 DEF Due
    <3>3. QED
      BY <2>3, <3>1, <3>2
  <2>5. ASSUME NEW n \in floor..log'[c], NEW e \in ToSet(shown), n <= e.n
        PROVE  Entry(c, n) \in ToSet(shown) \cup excused
    <3>1. e.n \in 1..log[c]
      BY <1>2, <2>1, OpenChat
    <3>2. n \in floor..log[c]
      BY <2>2, <2>5, <3>1
    <3>3. QED
      BY <1>2, <2>1, <2>5, <3>2 DEF ThereHolds
  <2>6. loading' => floor' = 1
    BY DEF ThereHolds
  <2>7. QED
    BY <2>1, <2>4, <2>5, <2>6, NewThere
<1>3. QED
  BY <1>1, <1>2

----------------------------------------------------------------------------
(* The view: what it gets, step by step.                                    *)

\* The last member of a list is that of its last part.
LEMMA LastOfConcat ==
  ASSUME NEW T, NEW s \in Seq(T), NEW t \in Seq(T), t # <<>>
  PROVE  Last(s \o t) = Last(t)
<1>1. Len(s) \in Nat /\ Len(t) \in Nat \ {0}
  BY SetOfSeq, EmptySeq
<1>2. /\ Len(s \o t) = Len(s) + Len(t)
      /\ \A i \in 1..Len(t) : (s \o t)[Len(s) + i] = t[i]
  BY <1>1, ConcatProperties
<1>3. QED
  BY <1>1, <1>2 DEF Last

\* A chat is opened: its first page will bring everything.
LEMMA ThereOpens ==
  ASSUME NEW k \in KeyType, OpenKey(k), log' = log,
         Call("open", k.chat, token + 1, 0) \in calls'
  PROVE  ThereHolds'
<1>1. PICK r : r = Call("open", k.chat, token + 1, 0)
  OBVIOUS
<1>2. r \in calls' /\ r.token = token' /\ r.what = "open" /\ r.cut = -1
  BY <1>1 DEF Call, OpenKey
<1>3. key' = k /\ shown' = <<>> /\ floor' = 1
  BY DEF OpenKey
<1>4. \A n : Covers(r, n)'
  BY <1>2 DEF Covers, Reaches
<1>5. \A c, n : Due(c, n)'
  BY <1>2, <1>4 DEF Due, Current
<1>6. ToSet(shown') = {}
  BY <1>3, EmptySeq DEF ToSet
<1>7. QED
  BY <1>3, <1>5, <1>6 DEF ThereHolds

\* The call that is answered was the only one of its kind for the open chat:
\* what it does not reach is due without it.
LEMMA DueWithout ==
  ASSUME ViewInv, NEW q \in calls, Current(q), NEW c, NEW n,
         Due(c, n), ~Covers(q, n), q.what = "open" \/ ~loading
  PROVE  \/ Entry(c, n) \in ToSet(shown) \cup ToSet(pending) \cup excused
         \/ n \in Coming(c)
         \/ \E r \in calls \ {q} :
              Current(r) /\ Covers(r, n) /\ r.what = "sync" /\ q.what # "sync"
              /\ ~loading
<1>1. CASE \E r \in calls : Current(r) /\ Covers(r, n)
  <2>1. PICK r \in calls : Current(r) /\ Covers(r, n)
    BY <1>1
  <2>2. r # q
    BY <2>1
  <2>3. r.what = "open" <=> loading
    BY <2>1 DEF ViewInv, CallsHold, CallHolds
  <2>4. q.what = "open" <=> loading
    BY DEF ViewInv, CallsHold, CallHolds
  <2>5. r.what \in {"open", "sync"}
    BY <2>1 DEF Covers
  <2>6. r.what # q.what
    BY <2>1, <2>2 DEF ViewInv, CallsHold, Same
  <2>7. QED
    BY <2>1, <2>2, <2>3, <2>4, <2>5, <2>6
<1>2. QED
  BY <1>1 DEF Due

\* The first page comes.
LEMMA ThereFirstPage ==
  ASSUME ViewInv, OrderHolds, Sound, ThereHolds, NEW q \in calls,
         q.cut >= 0, FirstPage(q), calls' = calls \ {q},
         UNCHANGED <<goVars, events, rows>>
  PROVE  ThereHolds'
<1>1. PICK p : p = PageOf(q)
  OBVIOUS
<1>2. /\ q.what = "open" /\ Current(q) /\ loading /\ shown = <<>>
      /\ ToSet(shown') = ToSet(p.messages) \cup ToSet(pending)
      /\ \A n \in p.first..q.cut : Entry(q.chat, n) \in ToSet(shown')
      /\ p.first \in Nat \ {0} /\ key # NoKey /\ q.chat = key.chat
  BY <1>1, FirstPageSet
<1>3. /\ floor' = p.first /\ loading' = FALSE /\ pending' = <<>>
      /\ UNCHANGED <<key, token, excused, syncAgain, log, moved, adding,
           events,
                     rows>>
  BY <1>1 DEF FirstPage, goVars, syncVars
<1>4. PICK c \in Chat : c = key.chat
  BY <1>2, KeyFacts DEF ViewInv, ViewTypes
<1>5. /\ q.cut \in Nat /\ log[c] \in Nat /\ floor = 1
      /\ \A m \in Coming(c) : m \in Nat /\ \A e \in ToSet(pending) : e.n < m
      /\ q \in CallType /\ q.before \in Nat /\ q.list = <<>>
  BY <1>2, <1>4, SoundCall, OpenChat DEF ThereHolds
<1>6. Coming(c)' = Coming(c)
  BY <1>3, FlightStays DEF ViewInv
<1>7. ASSUME NEW n \in floor'..log'[c], n > q.cut
      PROVE  Entry(c, n) \in ToSet(pending) \cup excused \/ n \in Coming(c)
  <2>1. n \in floor..log[c] /\ n \in Nat
    BY <1>2, <1>3, <1>5
  <2>2. Due(c, n)
    BY <1>2, <1>4, <2>1 DEF ThereHolds
  <2>3. ~Covers(q, n)
    BY <1>2, <1>5, <1>7, <2>1 DEF Covers, Reaches
  <2>4. ToSet(shown) = {}
    BY <1>2, EmptySeq DEF ToSet
  <2>5. QED
    BY <1>2, <2>2, <2>3, <2>4, DueWithout
<1>8. ASSUME NEW n \in floor'..log'[c]
      PROVE  n \in p.first..q.cut \/ (n > q.cut /\ n \in Nat)
  BY <1>2, <1>3, <1>5
<1>9. ASSUME NEW n \in floor'..log'[c] PROVE Due(c, n)'
  <2>1. CASE n \in p.first..q.cut
    BY <1>2, <1>4, <2>1 DEF Due
  <2>2. CASE n > q.cut
    BY <1>2, <1>3, <1>6, <1>7, <2>2 DEF Due
  <2>3. QED
    BY <1>8, <2>1, <2>2
<1>10. ASSUME NEW n \in floor'..log'[c], NEW e \in ToSet(shown'), n <= e.n
       PROVE  Entry(c, n) \in ToSet(shown') \cup excused'
  <2>1. CASE n \in p.first..q.cut
    BY <1>2, <1>4, <2>1
  <2>2. CASE n > q.cut /\ n \in Nat
    <3>1. e \in ToSet(pending)
      <4>1. ASSUME e \in ToSet(p.messages) PROVE FALSE
        <5>1. PICK m \in p.first..(q.cut - q.before) : e = Entry(q.chat, m)
          BY <1>1, <1>5, <4>1, PageFacts
        <5>2. e.n = m /\ q.before \in Nat
          BY <1>5, <5>1, EntryFacts
        <5>3. QED
          BY <1>2, <1>5, <1>10, <2>2, <5>1, <5>2
      <4>2. QED
        BY <1>2, <4>1
    <3>2. n \notin Coming(c)
      <4>1. e.n \in Nat
        BY <3>1, SetOfSeq, EntryFacts DEF ViewInv, ViewTypes
      <4>2. n \in Coming(c) => e.n < n
        BY <1>5, <3>1
      <4>3. QED
        BY <1>10, <2>2, <4>1, <4>2
    <3>3. QED
      BY <1>2, <1>3, <1>7, <2>2, <3>2
  <2>3. QED
    BY <1>8, <2>1, <2>2
<1>11. QED
  BY <1>2, <1>3, <1>4, <1>9, <1>10, NewThere

\* The first page fails: the view knows that it has nothing.
LEMMA ThereFirstFails ==
  ASSUME ViewInv, Sound, NEW q \in calls, FirstPageFails(q),
         UNCHANGED <<goVars, events, rows>>
  PROVE  ThereHolds'
<1>1. /\ q.what = "open" /\ Current(q) /\ loading' = FALSE
      /\ excused' = Delivered(q.chat)
      /\ UNCHANGED <<key, shown, token, floor, log, moved, adding, events,
           rows>>
  BY DEF FirstPageFails, Current, goVars
<1>2. key # NoKey /\ q.chat = key.chat /\ shown = <<>>
  BY <1>1 DEF ViewInv, CallsHold, CallHolds, FlagsHold
<1>3. PICK c \in Chat : c = key.chat
  BY <1>2, KeyFacts DEF ViewInv, ViewTypes
<1>4. Coming(c)' = Coming(c) /\ floor \in Nat \ {0} /\ log[c] \in Nat
  BY <1>1, FlightStays DEF ViewInv, ViewTypes
<1>5. ASSUME NEW n \in floor'..log'[c] PROVE Due(c, n)'
  <2>1. n \in 1..log[c]
    BY <1>1, <1>4
  <2>2. n \in Coming(c) \/ Entry(c, n) \in excused'
    BY <1>1, <1>2, <1>3, <2>1, DeliveredFacts DEF Sound
  <2>3. QED
    BY <1>4, <2>2 DEF Due
<1>6. ToSet(shown') = {}
  BY <1>1, <1>2, EmptySeq DEF ToSet
<1>7. QED
  BY <1>1, <1>3, <1>5, <1>6, NewThere

\* An older page comes: it is before everything that is due.
LEMMA ThereOlderPage ==
  ASSUME ViewInv, OrderHolds, OrderHolds', Sound, ThereHolds,
         NEW q \in calls, q.cut >= 0, OlderPage(q), calls' = calls \ {q},
         UNCHANGED <<goVars, events, rows>>
  PROVE  ThereHolds'
<1>1. /\ ToSet(shown) \subseteq ToSet(shown')
      /\ ToSet(shown') = ToSet(PageOf(q).messages) \cup ToSet(shown)
      /\ shown # <<>> /\ shown' \in Seq(EntryType)
  BY OlderPageSet
<1>2. PICK new : new = NotHad(PageOf(q).messages)
  OBVIOUS
<1>3. /\ q.what = "older" /\ Current(q) /\ shown' = new \o shown
      /\ UNCHANGED <<key, token, pending, loading, excused, floor, syncAgain,
           log,
                     moved, adding, events, rows>>
  BY <1>2 DEF OlderPage, Current, goVars, syncVars
<1>4. key # NoKey
  BY <1>3 DEF ViewInv, CallsHold, CallHolds
<1>5. PICK c \in Chat : c = key.chat
  BY <1>4, KeyFacts DEF ViewInv, ViewTypes
<1>6. /\ Coming(c)' = Coming(c) /\ ToSet(pending)' = ToSet(pending)
      /\ log[c] \in Nat /\ floor \in Nat \ {0}
  BY <1>3, FlightStays DEF ViewInv, ViewTypes, ToSet
<1>7. ASSUME NEW n \in floor'..log'[c] PROVE Due(c, n)'
  <2>1. Due(c, n)
    BY <1>3, <1>4, <1>5 DEF ThereHolds
  <2>2. CASE \E r \in calls : Current(r) /\ Covers(r, n)
    <3>1. PICK r \in calls : Current(r) /\ Covers(r, n)
      BY <2>2
    <3>2. r \in calls'
      BY <1>3, <3>1 DEF Covers
    <3>3. Current(r)' /\ Covers(r, n)'
      BY <1>3, <3>1 DEF Current, Covers, Reaches
    <3>4. QED
      BY <3>2, <3>3 DEF Due
  <2>3. QED
    BY <1>1, <1>3, <1>6, <2>1, <2>2 DEF Due
<1>8. ASSUME NEW n \in floor'..log'[c], NEW e \in ToSet(shown'), n <= e.n
      PROVE  Entry(c, n) \in ToSet(shown') \cup excused'
  <2>1. n \in floor..log[c] /\ n \in Nat
    BY <1>3, <1>6
  <2>2. CASE e \in ToSet(shown)
    BY <1>1, <1>3, <1>4, <1>5, <1>8, <2>1, <2>2 DEF ThereHolds
  <2>3. CASE e \notin ToSet(shown)
    <3>1. PICK last : last = Last(shown)
      OBVIOUS
    <3>2. last \in ToSet(shown) /\ last \in ToSet(shown')
      BY <1>1, <3>1, EndsOfList DEF OrderHolds, ViewInv, ViewTypes
    <3>3. e.n <= last.n
      <4>1. shown' # <<>> /\ \A d \in ToSet(shown') : d.n <= Last(shown').n
        BY <1>1, <3>2, EndsOfList, SetOfSeq DEF OrderHolds
      <4>2. Last(shown') = last
        BY <1>1, <1>2, <1>3, <3>1, LastOfConcat DEF ViewInv, ViewTypes
      <4>3. QED
        BY <4>1, <4>2
    <3>4. e.n \in Nat /\ last.n \in Nat
      BY <1>1, <3>2, SetOfSeq, EntryFacts
    <3>5. n <= last.n
      BY <1>8, <2>1, <3>3, <3>4
    <3>6. QED
      BY <1>1, <1>3, <1>4, <1>5, <2>1, <3>2, <3>5 DEF ThereHolds
  <2>4. QED
    BY <2>2, <2>3
<1>9. loading' => floor' = 1
  BY <1>3 DEF ThereHolds
<1>10. QED
  BY <1>3, <1>5, <1>7, <1>8, <1>9, NewThere

\* A refresh comes and the view stays: it has everything up to where the page
\* was read, and a refresh that was asked for meanwhile brings the rest.
LEMMA ThereRefresh ==
  ASSUME ViewInv, OrderHolds, Sound, ThereHolds, NEW q \in calls,
         q.cut >= 0, SyncPage(q), ~Reloads(q), ~spoilt',
         UNCHANGED <<goVars, events, rows>>
  PROVE  ThereHolds'
<1>1. PICK p : p = PageOf(q)
  OBVIOUS
<1>2. /\ q.what = "sync" /\ Current(q) /\ SyncAgain(q, token, calls \ {q})
      /\ UNCHANGED <<key, pending, loading, token, floor, excused, log, moved,
                     adding, events, rows>>
  BY SyncPageCases DEF goVars
<1>3. /\ q \in CallType /\ q.cut \in Nat /\ q.chat \in Chat
      /\ key # NoKey /\ q.chat = key.chat /\ ~loading /\ pending = <<>>
      /\ q.cut <= log[q.chat] /\ q.before = 0 /\ q.list = <<>>
  BY <1>2, SoundCall DEF ViewInv, CallsHold, CallHolds, FlagsHold
<1>4. PICK c \in Chat : c = key.chat /\ c = q.chat
  BY <1>3
<1>5. /\ ToSet(shown) \subseteq ToSet(shown')
      /\ ToSet(shown') \subseteq ToSet(p.messages) \cup ToSet(shown)
      /\ \A n \in p.first..q.cut :
           Entry(c, n) \in ToSet(shown') \/ \E e \in ToSet(shown) : n <= e.n
      /\ shown # <<>> => \E e \in ToSet(shown) : p.first <= e.n
      /\ p.first \in Nat \ {0} /\ shown' \in Seq(EntryType)
  BY <1>1, <1>4, RefreshSet
<1>6. /\ floor \in Nat \ {0} /\ log[c] \in Nat /\ Coming(c)' = Coming(c)
      /\ shown \in Seq(EntryType)
  BY <1>2, FlightStays DEF ViewInv, ViewTypes
<1>7. \A n \in floor..log[c] : \A e \in ToSet(shown) : n <= e.n =>
        Entry(c, n) \in ToSet(shown') \cup excused
  BY <1>3, <1>4, <1>5 DEF ThereHolds
<1>8. ASSUME NEW n \in floor..log[c], n <= q.cut
      PROVE  Entry(c, n) \in ToSet(shown') \cup excused
  <2>1. n \in Nat
    BY <1>6
  <2>2. CASE p.first <= n
    <3>1. n \in p.first..q.cut
      BY <1>3, <1>5, <1>8, <2>1, <2>2
    <3>2. QED
      BY <1>5, <1>7, <3>1
  <2>3. CASE n < p.first /\ shown # <<>>
    <3>1. PICK e \in ToSet(shown) : p.first <= e.n
      BY <1>5, <2>3
    <3>2. e.n \in Nat
      BY <1>6, <3>1, SetOfSeq, EntryFacts
    <3>3. n <= e.n
      BY <1>5, <2>1, <2>3, <3>1, <3>2
    <3>4. QED
      BY <1>7, <3>3
  <2>4. CASE n < p.first /\ shown = <<>>
    <3>1. Listed(q, floor, p.first - 1) \subseteq excused
      <4>1. ~Swamps(q)
        BY SyncPageCases
      <4>2. QED
        BY <1>1, <1>2, <2>4, <4>1 DEF Swamps
    <3>2. n \in floor..(p.first - 1)
      BY <1>5, <1>6, <2>1, <2>4
    <3>3. Item(q, n) = Entry(c, n)
      BY <1>3, <1>4 DEF Item
    <3>4. QED
      BY <3>1, <3>2, <3>3 DEF Listed
  <2>5. QED
    BY <1>5, <2>1, <2>2, <2>3, <2>4
<1>9. ASSUME NEW n \in floor'..log'[c] PROVE Due(c, n)'
  <2>1. n \in floor..log[c] /\ Due(c, n) /\ n \in Nat
    BY <1>2, <1>3, <1>4, <1>6 DEF ThereHolds
  <2>2. CASE syncAgain
    <3>1. PICK r : r = Call("sync", key.chat, token, 0)
      OBVIOUS
    <3>2. r \in calls' /\ r.what = "sync" /\ r.token = token' /\ r.cut = -1
      BY <1>2, <2>2, <3>1 DEF SyncAgain, Call, Current
    <3>3. Covers(r, n)'
      BY <3>2 DEF Covers, Reaches
    <3>4. QED
      BY <3>2, <3>3 DEF Due, Current
  <2>3. CASE n <= q.cut
    BY <1>2, <1>8, <2>1, <2>3 DEF Due
  <2>4. CASE ~syncAgain /\ n > q.cut
    <3>1. ~Covers(q, n)
      BY <1>2, <1>3, <2>1, <2>4 DEF Covers, Reaches
    <3>2. Entry(c, n) \in ToSet(shown) \cup ToSet(pending) \cup excused
            \/ n \in Coming(c)
      BY <1>2, <1>3, <2>1, <3>1, DueWithout
    <3>3. ToSet(pending)' = ToSet(pending)
      BY <1>2 DEF ToSet
    <3>4. QED
      BY <1>2, <1>5, <1>6, <3>2, <3>3 DEF Due
  <2>5. QED
    BY <1>3, <2>1, <2>2, <2>3, <2>4
<1>10. ASSUME NEW n \in floor'..log'[c], NEW e \in ToSet(shown'), n <= e.n
       PROVE  Entry(c, n) \in ToSet(shown') \cup excused'
  <2>1. n \in floor..log[c] /\ n \in Nat
    BY <1>2, <1>6
  <2>2. CASE e \in ToSet(shown)
    BY <1>2, <1>7, <1>10, <2>1, <2>2
  <2>3. CASE e \in ToSet(p.messages)
    <3>1. PICK m \in p.first..(q.cut - q.before) : e = Entry(q.chat, m)
      BY <1>1, <1>3, <2>3, PageFacts
    <3>2. e.n = m /\ m \in Nat /\ m <= q.cut
      BY <1>3, <1>5, <3>1, EntryFacts
    <3>3. n <= q.cut
      BY <1>3, <1>10, <2>1, <3>2
    <3>4. QED
      BY <1>2, <1>8, <2>1, <3>3
  <2>4. QED
    BY <1>5, <2>2, <2>3
<1>11. loading' => floor' = 1
  BY <1>2, <1>3
<1>12. QED
  BY <1>2, <1>4, <1>9, <1>10, <1>11, NewThere

\* A refresh fails: the view knows what it does not have.
LEMMA ThereSyncFails ==
  ASSUME ViewInv, OrderHolds, Sound, ThereHolds, NEW q \in calls,
         SyncFails(q), UNCHANGED <<goVars, events, rows>>
  PROVE  ThereHolds'
<1>1. /\ q.what = "sync" /\ Current(q)
      /\ excused' = excused \cup (Delivered(q.chat) \ ToSet(shown))
      /\ UNCHANGED <<key, shown, pending, loading, token, floor, log, moved,
                     adding, events, rows>>
  BY DEF SyncFails, Current, viewVars, goVars
<1>2. key # NoKey /\ q.chat = key.chat
  BY <1>1 DEF ViewInv, CallsHold, CallHolds
<1>3. PICK c \in Chat : c = key.chat
  BY <1>2, KeyFacts DEF ViewInv, ViewTypes
<1>4. /\ Coming(c)' = Coming(c) /\ floor \in Nat \ {0} /\ log[c] \in Nat
      /\ ToSet(shown)' = ToSet(shown)
  BY <1>1, FlightStays DEF ViewInv, ViewTypes, ToSet
<1>5. ASSUME NEW n \in floor'..log'[c] PROVE Due(c, n)'
  <2>1. n \in 1..log[c]
    BY <1>1, <1>4
  <2>2. n \in Coming(c) \/ Entry(c, n) \in ToSet(shown) \cup excused'
    BY <1>1, <1>2, <1>3, <2>1, DeliveredFacts DEF Sound
  <2>3. QED
    BY <1>4, <2>2 DEF Due
<1>6. \A n \in floor'..log'[c] : \A e \in ToSet(shown') : n <= e.n =>
        Entry(c, n) \in ToSet(shown') \cup excused'
  BY <1>1, <1>2, <1>3, <1>4 DEF ThereHolds
<1>7. loading' => floor' = 1
  BY <1>1 DEF ThereHolds
<1>8. QED
  BY <1>1, <1>3, <1>5, <1>6, <1>7, NewThere

\* An entry of the open chat is taken: everything before it is in the view,
\* for no refresh is under way when the chat has the key that the entry has.
LEMMA ThereOwn ==
  ASSUME ViewInv, OrderHolds, SyncHolds, ThereHolds, NEW c \in Chat,
         key # NoKey, key.chat = c, NEW k \in Coming(c), TakeOwn(Entry(c, k)),
         UNCHANGED goVars, floor' = floor, NEW v \in ToSet(events),
         v \in MessageType, v.key = key,
         Coming(c)' = Coming(c) \ {k}, \A m \in Coming(c)' : k < m
  PROVE  ThereHolds'
<1>1. PICK e : e = Entry(c, k)
  OBVIOUS
<1>2. /\ UNCHANGED <<key, loading, token, calls, excused, log>>
      /\ syncAgain' = syncAgain
  BY DEF TakeOwn, goVars, syncVars
<1>3. /\ shown \in Seq(EntryType) /\ pending \in Seq(EntryType)
      /\ k \in Nat /\ log[c] \in Nat /\ floor \in Nat \ {0}
  BY OpenChat DEF ViewInv, ViewTypes
<1>4. e \in EntryType /\ e.n = k
  BY <1>1, <1>3, EntryFacts
<1>5. /\ ToSet(pending) \subseteq ToSet(pending')
      /\ ToSet(shown) \subseteq ToSet(shown')
      /\ ToSet(shown') = ToSet(shown)
           \/ (ToSet(shown') = ToSet(shown) \cup {e} /\ ~loading)
      /\ e \in ToSet(shown') \cup ToSet(pending')
  <2>1. CASE loading
    <3>1. pending' = Append(pending, e) /\ shown' = shown
      BY <1>1, <2>1 DEF TakeOwn
    <3>2. ToSet(Append(pending, e)) = ToSet(pending) \cup {e}
      BY <1>3, <1>4, AppendSet
    <3>3. QED
      BY <3>1, <3>2
  <2>2. CASE ~loading /\ Repeat(e)
    <3>1. pending' = pending /\ shown' = shown
      BY <1>1, <2>2 DEF TakeOwn
    <3>2. e \in ToSet(shown)
      BY <2>2 DEF Repeat, ToSet
    <3>3. QED
      BY <3>1, <3>2
  <2>3. CASE ~loading /\ ~Repeat(e)
    <3>1. pending' = pending /\ shown' = Append(shown, e)
      BY <1>1, <2>3 DEF TakeOwn
    <3>2. ToSet(Append(shown, e)) = ToSet(shown) \cup {e}
      BY <1>3, <1>4, AppendSet
    <3>3. QED
      BY <2>3, <3>1, <3>2
  <2>4. QED
    BY <2>1, <2>2, <2>3
<1>6. floor' = floor
  OBVIOUS
<1>7. ASSUME NEW n \in floor'..log'[c] PROVE Due(c, n)'
  <2>1. Due(c, n)
    BY <1>2, <1>6 DEF ThereHolds
  <2>2. CASE \E r \in calls : Current(r) /\ Covers(r, n)
    <3>1. PICK r \in calls : Current(r) /\ Covers(r, n)
      BY <2>2
    <3>2. r \in calls' /\ Current(r)' /\ Covers(r, n)'
      BY <1>2, <3>1 DEF Current, Covers, Reaches
    <3>3. QED
      BY <3>2 DEF Due
  <2>3. CASE n \in Coming(c)
    <3>1. n \in Coming(c)' \/ Entry(c, n) = e
      BY <1>1, <2>3
    <3>2. QED
      BY <1>5, <3>1 DEF Due
  <2>4. QED
    BY <1>2, <1>5, <2>1, <2>2, <2>3 DEF Due
<1>8. ASSUME NEW n \in floor'..log'[c], NEW d \in ToSet(shown'), n <= d.n
      PROVE  Entry(c, n) \in ToSet(shown') \cup excused'
  <2>1. n \in floor..log[c] /\ n \in Nat
    BY <1>2, <1>3, <1>6
  <2>2. CASE d \in ToSet(shown)
    BY <1>2, <1>5, <1>8, <2>1, <2>2 DEF ThereHolds
  <2>3. CASE d = e /\ ~loading /\ ToSet(shown') = ToSet(shown) \cup {e}
    <3>1. ToSet(pending) = {}
      <4>1. pending = <<>>
        BY <2>3 DEF ViewInv, CallsHold, FlagsHold
      <4>2. QED
        BY <4>1, EmptySeq DEF ToSet
    <3>2. ~\E r \in calls : Current(r) /\ Covers(r, n)
      <4> SUFFICES ASSUME NEW r \in calls, Current(r), Covers(r, n) PROVE FALSE
        OBVIOUS
      <4>1. r.what = "sync"
        BY <2>3 DEF Covers, ViewInv, CallsHold, CallHolds
      <4>2. ~key.new /\ c \in rows
        BY <4>1 DEF SyncHolds, Outdated
      <4>3. v.key.new
        BY <4>2 DEF ViewInv, FlightHolds
      <4>4. QED
        BY <4>2, <4>3
    <3>3. n \in Coming(c) => Entry(c, n) = e
      <4>1. n \in Coming(c)' => k < n
        OBVIOUS
      <4>2. n <= k
        BY <1>4, <1>8, <2>3
      <4>3. ~(k < n)
        BY <1>3, <2>1, <4>2
      <4>4. QED
        BY <1>1, <4>1, <4>3
    <3>4. Due(c, n)
      BY <2>1 DEF ThereHolds
    <3>5. QED
      BY <1>2, <2>3, <3>1, <3>2, <3>3, <3>4 DEF Due
  <2>4. QED
    BY <1>5, <2>2, <2>3
<1>9. loading' => floor' = 1
  BY <1>2, <1>6 DEF ThereHolds
<1>10. QED
  BY <1>2, <1>7, <1>8, <1>9, NewThere

\* An entry of another key is taken: a view that may be outdated is refreshed,
\* and one that is not, or whose refresh is lost, does not get it.
LEMMA ThereOther ==
  ASSUME ViewInv, OrderHolds, Sound, SyncHolds, ThereHolds, key # NoKey,
         NEW d \in Chat, NEW k \in Coming(d), TakeOther(Entry(d, k)),
         UNCHANGED <<log, rows, floor>>,
         \A c \in Chat : \A n \in Coming(c) : n \in Coming(c)'
           \/ (c = d /\ n = k)
  PROVE  ThereHolds'
<1>1. PICK c \in Chat : c = key.chat
  BY KeyFacts DEF ViewInv, ViewTypes
<1>2. /\ UNCHANGED <<key, shown, pending, loading, token>>
      /\ ToSet(shown)' = ToSet(shown) /\ ToSet(pending)' = ToSet(pending)
  BY DEF TakeOther, viewVars, ToSet
<1>3. excused \subseteq excused'
  BY DEF TakeOther
<1>4. ASSUME ~MaySync \/ Lost, d = c PROVE Entry(d, k) \in excused'
  <2>1. k \in 1..log[c]
    BY <1>4, ComingRange DEF ViewInv
  <2>2. Holder(c) = c /\ Entry(c, k) \in ToSet(List(c))
    BY <1>1, <2>1, UnmixedList DEF Sound
  <2>3. QED
    BY <1>1, <1>4, <2>2 DEF TakeOther
<1>5. ASSUME NEW n \in floor'..log'[c],
             \A r \in calls : Current(r) /\ Covers(r, n) =>
               r \in calls'
                 /\ (r.what = "sync" => Reaches(r, n) \/ syncAgain'),
             d = c => Entry(d, k) \in excused'
      PROVE  Due(c, n)'
  <2>1. Due(c, n)
    BY <1>1, <1>2 DEF ThereHolds
  <2>2. CASE \E r \in calls : Current(r) /\ Covers(r, n)
    <3>1. PICK r \in calls : Current(r) /\ Covers(r, n)
      BY <2>2
    <3>2. r \in calls' /\ Current(r)' /\ Covers(r, n)'
      BY <1>2, <1>5, <3>1 DEF Current, Covers, Reaches
    <3>3. QED
      BY <3>2 DEF Due
  <2>3. CASE n \in Coming(c)
    <3>1. n \in Coming(c)' \/ (c = d /\ n = k)
      BY <2>3
    <3>2. QED
      BY <1>5, <3>1 DEF Due
  <2>4. QED
    BY <1>2, <1>3, <2>1, <2>2, <2>3 DEF Due
<1>6. ASSUME NEW n \in floor'..log'[c] PROVE Due(c, n)'
  <2>1. CASE MaySync /\ ~syncing
    <3>1. Sync
      BY <2>1 DEF TakeOther
    <3>2. PICK r : r = Call("sync", key.chat, token, 0)
      OBVIOUS
    <3>3. r \in calls' /\ r.what = "sync" /\ r.token = token' /\ r.cut = -1
      BY <1>2, <2>1, <3>1, <3>2 DEF Sync, Call
    <3>4. Covers(r, n)'
      BY <3>3 DEF Covers, Reaches
    <3>5. QED
      BY <3>3, <3>4 DEF Due, Current
  <2>2. CASE MaySync /\ syncing
    <3>1. syncAgain' /\ calls' = calls
      BY <2>2 DEF TakeOther, Sync
    <3>2. CASE Lost
      BY <1>4, <1>5, <3>1, <3>2
    <3>3. CASE ~Lost
      <4>1. PICK r \in calls : r.what = "sync"
        BY <2>2 DEF ViewInv, CallsHold
      <4>2. Current(r)
        BY <3>3, <4>1 DEF Lost, Stale, Current
      <4>3. r \in calls' /\ Current(r)' /\ Covers(r, n)'
        BY <1>2, <3>1, <4>1, <4>2 DEF Current, Covers
      <4>4. QED
        BY <4>3 DEF Due
    <3>4. QED
      BY <3>2, <3>3
  <2>3. CASE ~MaySync
    <3>1. UNCHANGED syncVars /\ calls' = calls
      BY <2>3 DEF TakeOther
    <3>2. \A r \in calls : Current(r) /\ Covers(r, n) =>
            r \in calls' /\ (r.what = "sync" => Reaches(r, n) \/ syncAgain')
      BY <3>1 DEF syncVars, Covers
    <3>3. QED
      BY <1>4, <1>5, <2>3, <3>2
  <2>4. QED
    BY <2>1, <2>2, <2>3
<1>7. \A n \in floor'..log'[c] : \A e \in ToSet(shown') : n <= e.n =>
        Entry(c, n) \in ToSet(shown') \cup excused'
  BY <1>1, <1>2, <1>3 DEF ThereHolds
<1>8. loading' => floor' = 1
  BY <1>2 DEF ThereHolds
<1>9. QED
  BY <1>1, <1>2, <1>6, <1>7, <1>8, NewThere

\* A message is taken.
LEMMA ThereTakes ==
  ASSUME ViewInv, OrderHolds, Sound, SyncHolds, ThereHolds, TakeMessage
  PROVE  ThereHolds'
<1>1. /\ events # <<>> /\ Head(events).kind = "message"
      /\ events' = Tail(events)
      /\ UNCHANGED <<log, moved, adding, rows, floor>> /\ UNCHANGED goVars
  BY DEF TakeMessage, goVars
<1>2. PICK v : v = Head(events)
  OBVIOUS
<1>3. v \in MessageType /\ v.key.chat \in Chat /\ v.n \in Nat
  BY <1>1, <1>2, TakenEvent, EventFacts DEF ViewInv
<1>4. PICK d \in Chat : d = v.key.chat
  BY <1>3
<1>5. PICK k \in Nat : k = v.n
  BY <1>3
<1>6. /\ k \in Coming(d) /\ Coming(d)' = Coming(d) \ {k} /\ v \in ToSet(events)
      /\ \A m \in Coming(d)' : k < m
      /\ \A c \in Chat : c # d => Coming(c)' = Coming(c)
  BY <1>1, <1>2, <1>4, <1>5, MessageFlies DEF ViewInv
<1>7. CASE key # NoKey /\ v.key = key
  <2>1. TakeOwn(Entry(d, k)) /\ key.chat = d
    BY <1>2, <1>4, <1>5, <1>7 DEF TakeMessage
  <2>2. UNCHANGED goVars /\ floor' = floor
    BY <1>1
  <2>3. QED
    BY <1>3, <1>6, <1>7, <2>1, <2>2, ThereOwn
<1>8. CASE key # NoKey /\ v.key # key
  <2>1. TakeOther(Entry(d, k))
    BY <1>2, <1>4, <1>5, <1>8 DEF TakeMessage
  <2>2. \A c \in Chat : \A n \in Coming(c) : n \in Coming(c)'
          \/ (c = d /\ n = k)
    BY <1>6
  <2>3. QED
    BY <1>1, <1>6, <1>8, <2>1, <2>2, ThereOther
<1>9. CASE key = NoKey
  <2>1. UNCHANGED <<key, loading>>
    BY <1>9 DEF TakeMessage, viewVars
  <2>2. ~loading
    BY <1>9 DEF ViewInv, CallsHold, FlagsHold
  <2>3. QED
    BY <1>9, <2>1, <2>2 DEF ThereHolds
<1>10. QED
  BY <1>7, <1>8, <1>9

\* A call is answered or fails.
LEMMA ThereEnds ==
  ASSUME ViewInv, OrderHolds, OrderHolds', Sound, ThereHolds,
         NEW q \in calls, Answer(q) \/ Fail(q), ~Reloads(q) \/ ~SyncPage(q),
         ~spoilt'
  PROVE  ThereHolds'
<1>1. UNCHANGED <<goVars, events, rows>> /\ log' = log
  BY DEF Answer, Fail, goVars
<1>2. ASSUME UNCHANGED <<key, token, shown, pending, excused, floor,
             syncAgain>>,
             loading' => loading, calls \ {q} \subseteq calls',
             Current(q) => q.what = "older"
      PROVE  ThereHolds'
  <2>1. \A c \in Chat :
          /\ log[c] \in Nat /\ log'[c] \in Nat
          /\ \A n \in 1..log'[c] :
               n \in Coming(c)' \/ (n <= log[c] /\ n \notin Coming(c))
    <3>1. \A c \in Chat : Coming(c)' = Coming(c) /\ log[c] \in Nat
      BY <1>1, FlightStays DEF ViewInv, ViewTypes, goVars
    <3>2. QED
      BY <1>1, <3>1
  <2>2. \A r \in calls : Current(r) /\ r.what # "older" =>
          \E s \in calls' : Kin(r, s) /\ (s = r \/ s.cut = log'[r.chat])
    BY <1>2 DEF Kin
  <2>3. QED
    BY <1>2, <2>1, <2>2, ThereStays
<1>3. CASE Answer(q)
  <2>1. /\ q.cut >= 0
        /\ \/ StaleAnswer(q)
           \/ FirstPage(q) /\ calls' = calls \ {q}
           \/ OlderPage(q) /\ calls' = calls \ {q}
           \/ SyncPage(q)
    BY <1>3 DEF Answer
  <2>2. CASE StaleAnswer(q)
    <3>1. UNCHANGED <<key, token, shown, pending, loading, excused, floor>>
            /\ ~Current(q)
      BY <2>2 DEF StaleAnswer, viewVars, history, Stale, Current
    <3>2. calls \ {q} \subseteq calls' /\ syncAgain' = syncAgain
      <4>1. CASE q.what = "sync"
        BY <2>2, <3>1, <4>1 DEF StaleAnswer, SyncAgain, Current
      <4>2. CASE q.what # "sync"
        BY <2>2, <4>2 DEF StaleAnswer, syncVars
      <4>3. QED
        BY <4>1, <4>2
    <3>3. QED
      BY <1>2, <3>1, <3>2
  <2>4. CASE SyncPage(q) /\ ~Reloads(q)
    BY <1>1, <2>1, <2>4, ThereRefresh
  <2>5. QED
    BY <1>1, <2>1, <2>2, <2>4, ThereFirstPage, ThereOlderPage
<1>4. CASE Fail(q)
  <2>1. \/ FirstPageFails(q) /\ calls' = calls \ {q}
        \/ OlderPageFails(q) /\ calls' = calls \ {q}
        \/ SyncFails(q)
    BY <1>4 DEF Fail
  <2>2. CASE OlderPageFails(q) /\ calls' = calls \ {q}
    <3>1. /\ UNCHANGED <<key, token, shown, pending, loading, excused, floor>>
          /\ syncAgain' = syncAgain /\ q.what = "older"
      BY <2>2 DEF OlderPageFails, syncVars
    <3>2. QED
      BY <1>2, <2>2, <3>1
  <2>3. QED
    BY <1>1, <2>1, <2>2, ThereFirstFails, ThereSyncFails
<1>5. QED
  BY <1>3, <1>4

\* Every step keeps what is due, as long as no merge and no burst meets the
\* open chat.
LEMMA ThereStep ==
  ASSUME ViewInv, Sound => OrderHolds, Sound' => OrderHolds', SyncHolds,
         Sound => ThereHolds, [Next]_vars, Sound'
  PROVE  ThereHolds'
<1>0. /\ OrderHolds'
      /\ token' = token => Sound /\ OrderHolds /\ ThereHolds
  BY SoundStays
<1>1. \A c \in Chat : log[c] \in Nat
  BY DEF ViewInv, ViewTypes
<1>2. ASSUME UNCHANGED <<key, token, shown, pending, loading, excused, floor,
                         syncAgain>>,
             \A c \in Chat : log'[c] \in Nat /\ \A n \in 1..log'[c] :
               n \in Coming(c)' \/ (n <= log[c] /\ n \notin Coming(c)),
             calls \subseteq calls'
      PROVE  ThereHolds'
  <2>1. \A r \in calls : Current(r) /\ r.what # "older" =>
          \E s \in calls' : Kin(r, s) /\ (s = r \/ s.cut = log'[r.chat])
    BY <1>2 DEF Kin
  <2>2. QED
    BY <1>0, <1>1, <1>2, <2>1, ThereStays
<1>3. ASSUME \A c \in Chat : Coming(c)' = Coming(c), log' = log
      PROVE  \A c \in Chat : log'[c] \in Nat /\ \A n \in 1..log'[c] :
               n \in Coming(c)' \/ (n <= log[c] /\ n \notin Coming(c))
  BY <1>1, <1>3
<1>4. CASE \E c \in Chat : Add(c)
  <2>1. PICK c \in Chat : Add(c)
    BY <1>4
  <2>2. /\ Coming(c)' = Coming(c) \cup {log[c] + 1}
        /\ \A d \in Chat : d # c => Coming(d)' = Coming(d)
        /\ log'[c] = log[c] + 1 /\ \A d \in Chat : d # c => log'[d] = log[d]
    BY <2>1, AddFlies DEF ViewInv
  <2>3. UNCHANGED <<key, token, shown, pending, loading, excused, floor,
                    syncAgain, calls>>
    BY <2>1 DEF Add, viewVars, syncVars
  <2>4. \A d \in Chat : log'[d] \in Nat /\ \A n \in 1..log'[d] :
          n \in Coming(d)' \/ (n <= log[d] /\ n \notin Coming(d))
    BY <1>1, <2>2
  <2>5. QED
    BY <1>2, <2>3, <2>4
<1>5. CASE \/ UNCHANGED vars \/ (\E c \in Chat : Regroup(c))
           \/ (\E c, d \in Chat : Join(d, c))
           \/ EmitMessage \/ EmitChats \/ TakeChats
  <2>1. UNCHANGED <<log, key, token, shown, pending, loading, excused, floor,
                    syncAgain, calls>>
    <3>1. CASE UNCHANGED vars
      BY <3>1 DEF vars, goVars, viewVars, syncVars, history
    <3>2. CASE \E c \in Chat : Regroup(c)
      BY <3>2 DEF Regroup, viewVars, syncVars, history
    <3>3. CASE \E c, d \in Chat : Join(d, c)
      BY <3>3 DEF Join, viewVars, syncVars
    <3>4. CASE EmitMessage \/ EmitChats \/ TakeChats
      BY <3>4 DEF EmitMessage, EmitChats, TakeChats, goVars, viewVars,
                  syncVars, history
    <3>5. QED
      BY <1>5, <3>1, <3>2, <3>3, <3>4
  <2>2. \A c \in Chat : Coming(c)' = Coming(c)
    <3>1. CASE UNCHANGED vars
      BY <3>1, FlightStays DEF ViewInv, vars, goVars
    <3>2. CASE \/ \E c \in Chat : Regroup(c)
               \/ \E c, d \in Chat : Join(d, c)
      <4>1. UNCHANGED <<log, adding, events, rows>>
        BY <3>2 DEF Regroup, Join
      <4>2. moved \subseteq moved'
        BY <3>2, JoinMixes DEF Regroup, ViewInv
      <4>3. QED
        BY <4>1, <4>2, RegroupFlies DEF ViewInv
    <3>3. QED
      BY <1>5, <3>1, <3>2, EmitFlies, ChatsFly, RowsFly DEF ViewInv
  <2>3. QED
    BY <1>2, <1>3, <2>1, <2>2
<1>6. CASE Scroll
  <2>1. /\ UNCHANGED <<key, token, shown, pending, loading, excused, floor,
                       syncAgain, log, moved, adding, events, rows>>
        /\ calls \subseteq calls'
    BY <1>6 DEF Scroll, goVars, syncVars, history
  <2>2. \A c \in Chat : Coming(c)' = Coming(c)
    BY <2>1, FlightStays DEF ViewInv
  <2>3. QED
    BY <1>2, <1>3, <2>1, <2>2
<1>7. CASE \E q \in calls : Read(q)
  <2>1. PICK q \in calls : Read(q)
    BY <1>7
  <2>2. PICK h : h = Holder(q.chat)
    OBVIOUS
  <2>3. PICK r : r = [q EXCEPT !.cut = Len(List(h)), !.list = mix[h]]
    OBVIOUS
  <2>4. /\ UNCHANGED <<key, token, shown, pending, loading, excused, floor,
                       syncAgain, log, moved, adding, events, rows>>
        /\ calls' = (calls \ {q}) \cup {r}
    <3>1. /\ UNCHANGED <<goVars, events, viewVars, syncVars, rows, history>>
          /\ calls' = (calls \ {q}) \cup {r}
      BY <2>1, <2>2, <2>3 DEF Read
    <3>2. QED
      BY <3>1 DEF goVars, viewVars, syncVars, history
  <2>5. Kin(q, r) /\ r.cut = Len(List(h))
    <3>1. q \in CallType
      BY DEF ViewInv, ViewTypes
    <3>2. QED
      BY <2>3, <3>1 DEF CallType, Kin
  <2>6. Current(q) => Len(List(h)) = log'[q.chat]
    BY <1>0, <2>2, <2>4, SoundCall, UnmixedList
  <2>7. \A s \in calls : Current(s) /\ s.what # "older" =>
          \E t \in calls' : Kin(s, t) /\ (t = s \/ t.cut = log'[s.chat])
    BY <2>4, <2>5, <2>6 DEF Kin
  <2>8. \A c \in Chat : Coming(c)' = Coming(c)
    BY <2>4, FlightStays DEF ViewInv
  <2>9. QED
    BY <1>0, <1>1, <1>3, <2>4, <2>7, <2>8, ThereStays
<1>8. CASE \E c \in Chat : Open(c)
  <2>1. PICK c \in Chat : Open(c)
    BY <1>8
  <2> DEFINE b == c \in rows
  <2>2. PICK k : k = Key(c, b)
    OBVIOUS
  <2>3. /\ OpenKey(k) /\ log' = log
        /\ calls' = calls \cup {Call("open", c, token + 1, 0)}
    BY <2>1, <2>2 DEF Open, goVars
  <2>4. b \in BOOLEAN
    OBVIOUS
  <2> HIDE DEF b
  <2>5. k \in KeyType /\ k.chat = c
    BY <2>2, <2>4, KeyFacts
  <2>6. QED
    BY <2>3, <2>5, ThereOpens
<1>9. CASE TakeMessage
  <2>1. token' = token
    BY <1>9 DEF TakeMessage, TakeOwn, TakeOther, viewVars
  <2>2. QED
    BY <1>0, <1>9, <2>1, ThereTakes
<1>10. ASSUME NEW q \in calls, Answer(q) \/ Fail(q) PROVE ThereHolds'
  <2>1. UNCHANGED <<goVars, events, rows>> /\ log' = log
    BY <1>10 DEF Answer, Fail, goVars
  <2>2. CASE SyncPage(q) /\ Reloads(q)
    <3>1. /\ OpenKey(key) /\ key \in KeyType
          /\ calls' = (calls \ {q}) \cup {Call("open", key.chat, token + 1, 0)}
      BY <2>1, <2>2, ReloadTyped DEF ViewInv
    <3>2. QED
      BY <2>1, <3>1, ThereOpens
  <2>3. CASE ~(SyncPage(q) /\ Reloads(q))
    <3>1. token' = token
      <4>1. CASE SyncPage(q)
        BY <2>3, <4>1, SyncPageCases
      <4>2. CASE StaleAnswer(q) \/ FirstPage(q) \/ OlderPage(q)
        BY <4>2 DEF StaleAnswer, FirstPage, OlderPage, viewVars
      <4>3. CASE FirstPageFails(q) \/ OlderPageFails(q) \/ SyncFails(q)
        BY <4>3 DEF FirstPageFails, OlderPageFails, SyncFails, viewVars
      <4>4. QED
        BY <1>10, <4>1, <4>2, <4>3 DEF Answer, Fail
    <3>2. ~spoilt'
      BY DEF Sound
    <3>3. QED
      BY <1>0, <1>10, <2>3, <3>1, <3>2, ThereEnds
  <2>4. QED
    BY <2>2, <2>3
<1>11. QED
  BY <1>4, <1>5, <1>6, <1>7, <1>8, <1>9, <1>10 DEF Next, GoStep, PageStep

\* At rest nothing is on its way that is due.
LEMMA RestShows ==
  ASSUME ViewInv, Sound, SyncHolds, ThereHolds PROVE ArrivalsShown
<1> SUFFICES ASSUME AtRest, key # NoKey, NEW n \in floor..Len(Now)
             PROVE  Now[n] \in ToSet(shown) \cup excused
  BY DEF ArrivalsShown
<1>1. PICK c \in Chat : c = key.chat
  BY KeyFacts DEF ViewInv, ViewTypes
<1>2. calls = {} /\ events = <<>> /\ adding = None
  BY DEF AtRest
<1>3. ToSet(events) = {} /\ adding # c
  BY <1>2, EmptySeq, ViewConstants DEF ToSet
<1>4. n \notin Coming(c)
  BY <1>3, ComingFacts
<1>5. ToSet(pending) = {}
  <2>1. ~loading
    BY <1>2 DEF SyncHolds
  <2>2. pending = <<>>
    BY <2>1 DEF ViewInv, CallsHold, FlagsHold
  <2>3. QED
    BY <2>2, EmptySeq DEF ToSet
<1>6. /\ Now = [m \in 1..log[c] |-> Entry(c, m)] /\ Len(Now) = log[c]
      /\ log[c] \in Nat /\ floor \in Nat \ {0}
  BY <1>1, UnmixedList DEF Sound, Now, ViewInv, ViewTypes
<1>7. n \in floor..log[c] /\ Now[n] = Entry(c, n)
  BY <1>6
<1>8. Due(c, n)
  BY <1>1, <1>7 DEF ThereHolds
<1>9. QED
  BY <1>2, <1>4, <1>5, <1>7, <1>8 DEF Due

\* What holds of the view when no merge and no burst met it.
ArrivalsHold ==
  /\ NearHolds /\ SyncHolds
  /\ Sound => OrderHolds
  /\ Sound => ThereHolds

\* Entries that arrive while a chat that was not merged is open are shown, or
\* the view knows that it does not have them, whatever chats are regrouped,
\* opened and refreshed.
THEOREM ArrivalsRight == PageSpec => [](Unmixed => ArrivalsShown)
<1>1. PageInit => ArrivalsHold
  <2> SUFFICES ASSUME Init PROVE ArrivalsHold
    BY DEF PageInit
  <2>1. /\ shown = <<>> /\ pending = <<>> /\ next = NoPage /\ key = NoKey
        /\ calls = {} /\ loading = FALSE
    BY DEF Init
  <2>2. ~key.new
    BY <2>1, KeyFacts
  <2>3. SyncHolds /\ ThereHolds
    BY <2>1, <2>2 DEF SyncHolds, ThereHolds
  <2>4. QED
    BY <2>3, OrderStarts DEF ArrivalsHold
<1>2. ViewInv /\ ArrivalsHold /\ [PageNext]_pageVars => ArrivalsHold'
  <2> SUFFICES ASSUME ViewInv, ArrivalsHold, [Next]_vars
               PROVE  ArrivalsHold'
    BY ViewNext
  <2>1. NearHolds /\ SyncHolds /\ (Sound => OrderHolds)
          /\ (Sound => ThereHolds)
    BY DEF ArrivalsHold
  <2>2. NearHolds' /\ (Sound' => OrderHolds')
    BY <2>1, NearStep, OrderStep
  <2>3. SyncHolds' /\ (Sound' => ThereHolds')
    BY <2>1, <2>2, SyncStep, ThereStep
  <2>4. QED
    BY <2>2, <2>3 DEF ArrivalsHold
<1>3. ViewInv /\ ArrivalsHold => (Unmixed => ArrivalsShown)
  <2> SUFFICES ASSUME ViewInv, ArrivalsHold, Unmixed PROVE ArrivalsShown
    OBVIOUS
  <2>1. CASE spoilt
    BY <2>1 DEF ArrivalsShown
  <2>2. CASE ~spoilt
    BY <2>2, RestShows DEF Sound, Unmixed, ArrivalsHold
  <2>3. QED
    BY <2>1, <2>2
<1>4. QED
  BY <1>1, <1>2, <1>3, ViewHoldsAlways, PTL DEF PageSpec

=============================================================================
