------------------------------- MODULE GuiProofs ------------------------------
(***************************************************************************)
(* Proofs about the Go side of the desktop program: the chat store, for    *)
(* any entries that come in the order of their times and any peer lists,   *)
(* the throttle of the "chats" event, for any number of callers, timers    *)
(* and changes and any interval, and the toasts, for any duration and any  *)
(* number of arrivals, page loads and clicks.                              *)
(***************************************************************************)
EXTENDS MCGui, SequenceTheorems, Induction, TLAPS

----------------------------------------------------------------------------
(* The chat store: sequences of items.                                      *)

\* The items a chat may hold, their sequences, and the entries of one.
ItemSet == [e : Entry, unread : BOOLEAN]
Items == Seq(ItemSet)
EntriesOf(s) == {s[i].e : i \in DOMAIN s}

\* No entry is in the sequence twice.
Distinct(s) == \A i, j \in DOMAIN s : s[i].e = s[j].e => i = j

\* The entries are in the order of their times.
Ordered(s) == \A i, j \in DOMAIN s : i < j => s[i].e.time <= s[j].e.time

\* The first n items, and how many of them are unread.
Part(s, n) == {s[i] : i \in 1..n}
CountTo(s, n) == Cardinality({i \in 1..n : s[i].unread})

\* Times are numbers.
LEMMA Times == \A x \in ItemSet : x.e \in Entry /\ x.e.time \in Nat
BY FieldsAreNumbers DEF ItemSet

\* Counting one item more.
LEMMA CountStep ==
  ASSUME NEW s, NEW n \in Nat
  PROVE  /\ CountTo(s, n) \in Nat /\ CountTo(s, 0) = 0
         /\ s[n + 1].unread => CountTo(s, n + 1) = CountTo(s, n) + 1
         /\ ~s[n + 1].unread => CountTo(s, n + 1) = CountTo(s, n)
<1> DEFINE U(k) == {i \in 1..k : s[i].unread}
<1>1. IsFiniteSet(U(n)) /\ Cardinality(U(n)) \in Nat
  <2>1. IsFiniteSet(1..n) /\ U(n) \in SUBSET (1..n)
    BY FS_Interval
  <2>2. QED
    BY <2>1, FS_Subset, FS_CardinalityType
<1>2. U(0) = {}
  OBVIOUS
<1>3. s[n + 1].unread => U(n + 1) = U(n) \cup {n + 1}
  OBVIOUS
<1>4. ~s[n + 1].unread => U(n + 1) = U(n)
  OBVIOUS
<1>5. n + 1 \notin U(n)
  OBVIOUS
<1>6. Cardinality(U(0)) = 0
  BY <1>2, FS_EmptySet
<1>7. s[n + 1].unread => Cardinality(U(n + 1)) = Cardinality(U(n)) + 1
  <2> HIDE DEF U
  <2>1. QED
    BY <1>1, <1>3, <1>5, FS_AddElement
<1>8. QED
  BY <1>1, <1>4, <1>6, <1>7 DEF CountTo

\* Two sequences count the same as far as they agree.
LEMMA SameCount ==
  ASSUME NEW s, NEW t, NEW n \in Nat, \A i \in 1..n : s[i].unread = t[i].unread
  PROVE  CountTo(s, n) = CountTo(t, n)
<1>1. {i \in 1..n : s[i].unread} = {i \in 1..n : t[i].unread}
  OBVIOUS
<1>2. QED
  BY <1>1 DEF CountTo

\* All the unread items of a chat are counted.
LEMMA CountAll ==
  ASSUME NEW s \in Items
  PROVE  CountUnread(s) = CountTo(s, Len(s)) /\ CountUnread(s) \in Nat
<1>1. Len(s) \in Nat /\ DOMAIN s = 1..Len(s)
  BY DEF Items
<1>2. CountUnread(s) = CountTo(s, Len(s))
  BY <1>1 DEF CountUnread, CountTo
<1>3. QED
  BY <1>1, <1>2, CountStep

\* The count is zero if nothing is unread, and only then.
LEMMA NoneUnread ==
  ASSUME NEW s \in Items
  PROVE  CountUnread(s) = 0 <=> \A i \in DOMAIN s : ~s[i].unread
<1> DEFINE U == {i \in 1..Len(s) : s[i].unread}
<1>1. IsFiniteSet(U) /\ DOMAIN s = 1..Len(s)
  <2>1. Len(s) \in Nat /\ DOMAIN s = 1..Len(s)
    BY DEF Items
  <2>2. IsFiniteSet(1..Len(s)) /\ U \in SUBSET (1..Len(s))
    BY <2>1, FS_Interval
  <2>3. QED
    BY <2>1, <2>2, FS_Subset
<1>2. Cardinality(U) = 0 <=> U = {}
  BY <1>1, FS_EmptySet
<1>3. QED
  BY <1>1, <1>2 DEF CountUnread

\* One item more at the end of a sequence.
LEMMA AppendFacts ==
  ASSUME NEW s \in Items, NEW x \in ItemSet
  PROVE  LET t == Append(s, x) IN
         /\ t \in Items
         /\ Range(t) = Range(s) \cup {x}
         /\ EntriesOf(t) = EntriesOf(s) \cup {x.e}
         /\ Distinct(s) /\ x.e \notin EntriesOf(s) => Distinct(t)
         /\ Ordered(s) /\ (\A d \in EntriesOf(s) : d.time <= x.e.time) =>
              Ordered(t)
         /\ x.unread => CountUnread(t) = CountUnread(s) + 1
         /\ ~x.unread => CountUnread(t) = CountUnread(s)
<1> DEFINE t == Append(s, x)
<1>1. /\ t \in Items /\ Len(t) = Len(s) + 1 /\ Len(s) \in Nat
      /\ DOMAIN s = 1..Len(s) /\ DOMAIN t = 1..(Len(s) + 1)
      /\ \A i \in 1..Len(s) : t[i] = s[i]
      /\ t[Len(s) + 1] = x
  BY AppendProperties DEF Items
<1> HIDE DEF t
<1>2. Range(t) = Range(s) \cup {x} /\ EntriesOf(t) = EntriesOf(s) \cup {x.e}
  BY <1>1 DEF Range, EntriesOf
<1>3. Distinct(s) /\ x.e \notin EntriesOf(s) => Distinct(t)
  BY <1>1 DEF Distinct, EntriesOf
<1>4. Ordered(s) /\ (\A d \in EntriesOf(s) : d.time <= x.e.time) => Ordered(t)
  BY <1>1 DEF Ordered, EntriesOf
<1>5. /\ CountUnread(t) = CountTo(t, Len(s) + 1)
      /\ CountUnread(s) = CountTo(s, Len(s))
      /\ CountTo(s, Len(s)) = CountTo(t, Len(s))
  BY <1>1, CountAll, SameCount
<1>6. /\ x.unread => CountUnread(t) = CountUnread(s) + 1
      /\ ~x.unread => CountUnread(t) = CountUnread(s)
  BY <1>1, <1>5, CountStep
<1>7. QED
  BY <1>1, <1>2, <1>3, <1>4, <1>6 DEF t

\* The empty sequence.
LEMMA EmptyFacts ==
  /\ <<>> \in Items /\ Range(<<>>) = {} /\ EntriesOf(<<>>) = {}
  /\ Distinct(<<>>) /\ Ordered(<<>>) /\ CountUnread(<<>>) = 0
<1>1. <<>> \in Items /\ DOMAIN <<>> = {}
  BY EmptySeq DEF Items
<1>2. CountUnread(<<>>) = 0
  BY <1>1, NoneUnread
<1>3. QED
  BY <1>1, <1>2 DEF Range, EntriesOf, Distinct, Ordered

\* What is in a sequence, by its entries.
LEMMA EntriesFacts ==
  ASSUME NEW s \in Items
  PROVE  /\ EntriesOf(s) = {x.e : x \in Range(s)}
         /\ Range(s) \subseteq ItemSet /\ EntriesOf(s) \subseteq Entry
         /\ s = <<>> <=> Range(s) = {}
         /\ s = <<>> <=> EntriesOf(s) = {}
<1>1. /\ Len(s) \in Nat /\ DOMAIN s = 1..Len(s)
      /\ \A i \in DOMAIN s : s[i] \in ItemSet /\ s[i].e \in Entry
  <2>1. /\ Len(s) \in Nat /\ DOMAIN s = 1..Len(s)
        /\ \A i \in DOMAIN s : s[i] \in ItemSet
    BY LenProperties, ElementOfSeq DEF Items
  <2>2. QED
    BY <2>1, Times
<1>2. s = <<>> <=> Len(s) = 0
  BY EmptySeq DEF Items
<1>3. s = <<>> <=> DOMAIN s = {}
  BY <1>1, <1>2
<1>4. /\ Range(s) \subseteq ItemSet /\ EntriesOf(s) \subseteq Entry
      /\ EntriesOf(s) = {x.e : x \in Range(s)}
  BY <1>1 DEF EntriesOf, Range
<1>5. Range(s) = {} <=> DOMAIN s = {}
  BY DEF Range
<1>6. EntriesOf(s) = {} <=> DOMAIN s = {}
  BY DEF EntriesOf
<1>7. QED
  BY <1>3, <1>4, <1>5, <1>6

\* Those is a loop over the items that appends those it keeps.
LEMMA ThoseLoop ==
  ASSUME NEW s \in Items, NEW E
  PROVE  \E f : /\ f = [n \in 0..Len(s) |->
                         IF n = 0 THEN <<>>
                         ELSE IF s[n].e \in E THEN Append(f[n - 1], s[n])
                         ELSE f[n - 1]]
                /\ Those(s, E) = f[Len(s)]
<1> DEFINE F(f) == f = [n \in 0..Len(s) |->
                         IF n = 0 THEN <<>>
                         ELSE IF s[n].e \in E THEN Append(f[n - 1], s[n])
                         ELSE f[n - 1]]
           G == [n \in 1..Len(s) |-> [q \in Items |->
                   IF s[n].e \in E THEN Append(q, s[n]) ELSE q]]
<1>1. Len(s) \in Nat /\ <<>> \in Items /\ G \in [1..Len(s) -> [Items -> Items]]
  <2>1. Len(s) \in Nat /\ <<>> \in Items
          /\ \A n \in 1..Len(s) : s[n] \in ItemSet
    BY EmptyFacts, ElementOfSeq, LenProperties DEF Items
  <2>2. \A n \in 1..Len(s), q \in Items : Append(q, s[n]) \in Items
    BY <2>1, AppendFacts
  <2>3. QED
    BY <2>1, <2>2
<1>2. PICK f \in [0..Len(s) -> Items] : Runs(f, Len(s), <<>>, G)
  <2>1. G \in Steps(1..Len(s), Items)
    BY <1>1 DEF Steps
  <2> HIDE DEF G, F
  <2>2. QED
    BY <1>1, <2>1, Recursion
<1>3. F(f)
  <2>1. ASSUME NEW n \in 1..Len(s)
        PROVE  f[n] = IF s[n].e \in E THEN Append(f[n - 1], s[n])
                      ELSE f[n - 1]
    <3>1. f[n - 1] \in Items /\ f[n] = G[n][f[n - 1]]
      <4> HIDE DEF G, F
      <4>1. n - 1 \in 0..Len(s)
        BY <1>1
      <4>2. QED
        BY <1>2, <4>1 DEF Runs
    <3>2. G[n] = [q \in Items |-> IF s[n].e \in E THEN Append(q, s[n]) ELSE q]
      OBVIOUS
    <3> HIDE DEF G, F
    <3>3. QED
      BY <3>1, <3>2
  <2>2. ASSUME NEW n \in 0..Len(s)
        PROVE  f[n] = IF n = 0 THEN <<>>
                      ELSE IF s[n].e \in E THEN Append(f[n - 1], s[n])
                      ELSE f[n - 1]
    <3> HIDE DEF G, F
    <3>1. f[0] = <<>>
      BY <1>2 DEF Runs
    <3>2. n = 0 \/ n \in 1..Len(s)
      BY <1>1
    <3>3. QED
      BY <2>1, <3>1, <3>2
  <2>3. f = [n \in 0..Len(s) |-> f[n]]
    OBVIOUS
  <2> HIDE DEF G
  <2>4. QED
    BY <2>2, <2>3
<1>4. F(CHOOSE h : F(h))
  <2> HIDE DEF F
  <2>1. QED
    BY <1>3
<1>5. Those(s, E) = (CHOOSE h : F(h))[Len(s)]
  BY DEF Those
<1>6. QED
  BY <1>4, <1>5

\* What Those keeps, in the order it had.
LEMMA ThoseFacts ==
  ASSUME NEW s \in Items, NEW E
  PROVE  /\ Those(s, E) \in Items
         /\ Range(Those(s, E)) = {x \in Range(s) : x.e \in E}
         /\ Distinct(s) => Distinct(Those(s, E))
         /\ Ordered(s) => Ordered(Those(s, E))
<1>1. PICK f : /\ f = [n \in 0..Len(s) |->
                         IF n = 0 THEN <<>>
                         ELSE IF s[n].e \in E THEN Append(f[n - 1], s[n])
                         ELSE f[n - 1]]
               /\ Those(s, E) = f[Len(s)]
  BY ThoseLoop
<1> DEFINE Good(n) == /\ f[n] \in Items
                      /\ Range(f[n]) = {x \in Part(s, n) : x.e \in E}
                      /\ Distinct(s) => Distinct(f[n])
                      /\ Ordered(s) => Ordered(f[n])
           S == {n \in 0..Len(s) : Good(n)}
<1>2. /\ Len(s) \in Nat /\ DOMAIN s = 1..Len(s)
      /\ \A n \in 1..Len(s) : s[n] \in ItemSet
  BY ElementOfSeq, LenProperties DEF Items
<1>3. f[0] = <<>> /\ \A n \in 0..(Len(s) - 1) :
        f[n + 1] = IF s[n + 1].e \in E THEN Append(f[n], s[n + 1]) ELSE f[n]
  <2>1. f[0] = <<>>
    BY <1>1, <1>2
  <2>2. ASSUME NEW n \in 0..(Len(s) - 1)
        PROVE  f[n + 1] = IF s[n + 1].e \in E THEN Append(f[n], s[n + 1])
                          ELSE f[n]
    <3>1. n + 1 \in 0..Len(s) /\ n + 1 # 0 /\ (n + 1) - 1 = n
      BY <1>2
    <3>2. QED
      BY <1>1, <3>1
  <2>3. QED
    BY <2>1, <2>2
<1>4. Good(0)
  <2>1. Part(s, 0) = {}
    BY DEF Part
  <2>2. QED
    BY <1>3, <2>1, EmptyFacts
<1>5. ASSUME NEW n \in 0..(Len(s) - 1), Good(n) PROVE Good(n + 1)
  <2> DEFINE x == s[n + 1]
  <2>1. /\ x \in ItemSet /\ n \in Nat /\ n + 1 \in DOMAIN s
        /\ Part(s, n + 1) = Part(s, n) \cup {x}
        /\ \A i \in 1..n : i \in DOMAIN s /\ i < n + 1
    BY <1>2 DEF Part
  <2>2. \A d \in EntriesOf(f[n]) : \E i \in 1..n : d = s[i].e
    <3>1. EntriesOf(f[n]) = {y.e : y \in Range(f[n])}
      BY <1>5, EntriesFacts
    <3>2. QED
      BY <1>5, <3>1 DEF Part
  <2>3. Distinct(s) => x.e \notin EntriesOf(f[n])
    BY <2>1, <2>2 DEF Distinct
  <2>4. Ordered(s) => \A d \in EntriesOf(f[n]) : d.time <= x.e.time
    BY <2>1, <2>2 DEF Ordered
  <2>5. CASE x.e \in E
    <3>1. f[n + 1] = Append(f[n], x)
      BY <1>3, <2>5
    <3>2. /\ f[n + 1] \in Items /\ Range(f[n + 1]) = Range(f[n]) \cup {x}
          /\ Distinct(s) => Distinct(f[n + 1])
          /\ Ordered(s) => Ordered(f[n + 1])
      <4> HIDE DEF x
      <4>1. QED
        BY <1>5, <2>1, <2>3, <2>4, <3>1, AppendFacts
    <3>3. Range(f[n + 1]) = {y \in Part(s, n + 1) : y.e \in E}
      BY <1>5, <2>1, <2>5, <3>2
    <3>4. QED
      BY <3>2, <3>3
  <2>6. CASE x.e \notin E
    <3>1. f[n + 1] = f[n]
      BY <1>3, <2>6
    <3>2. Range(f[n + 1]) = {y \in Part(s, n + 1) : y.e \in E}
      BY <1>5, <2>1, <2>6, <3>1
    <3>3. QED
      BY <1>5, <3>1, <3>2
  <2>7. QED
    BY <2>5, <2>6
<1>6. Good(Len(s))
  <2>1. 0 \in S /\ \A n \in 0..(Len(s) - 1) : n \in S => n + 1 \in S
    <3>1. \A n \in 0..(Len(s) - 1) : n + 1 \in 0..Len(s)
      BY <1>2
    <3> HIDE DEF Good
    <3>2. QED
      BY <1>2, <1>4, <1>5, <3>1
  <2> HIDE DEF S, Good
  <2>2. 0..Len(s) \subseteq S
    BY <1>2, <2>1, UpTo
  <2>3. QED
    BY <1>2, <2>2 DEF S
<1>7. Part(s, Len(s)) = Range(s)
  BY <1>2 DEF Part, Range
<1>8. QED
  BY <1>1, <1>6, <1>7

\* The entries that Those keeps.
LEMMA ThoseEntries ==
  ASSUME NEW s \in Items, NEW E
  PROVE  /\ EntriesOf(Those(s, E)) = EntriesOf(s) \cap E
         /\ Those(s, E) = <<>> <=> EntriesOf(s) \cap E = {}
<1>1. EntriesOf(Those(s, E)) = EntriesOf(s) \cap E
  BY ThoseFacts, EntriesFacts
<1>2. QED
  BY <1>1, ThoseFacts, EntriesFacts

\* What a round of mergeByTime takes, and when there is no round at all.
TakesDst(d, a, i, j) ==
  \/ j = Len(a)
  \/ i < Len(d) /\ a[j + 1].e.time >= d[i + 1].e.time

Round(d, a, i, j, out) ==
  IF TakesDst(d, a, i, j) THEN [i |-> i + 1, out |-> Append(out, d[i + 1])]
                          ELSE [i |-> i, out |-> Append(out, a[j + 1])]

Appends(d, a) ==
  d = <<>> \/ a = <<>> \/ a[1].e.time >= d[Len(d)].e.time

\* The rounds of the loop of mergeByTime.
LEMMA MergeLoop ==
  ASSUME NEW d \in Items, NEW a \in Items
  PROVE  \E f : /\ f[0] = [i |-> 0, out |-> <<>>]
                /\ \A n \in 0..(Len(d) + Len(a) - 1) :
                     f[n + 1] = Round(d, a, f[n].i, n - f[n].i, f[n].out)
                /\ MergeByTime(d, a) =
                     IF Appends(d, a) THEN d \o a
                     ELSE f[Len(d) + Len(a)].out
<1> DEFINE total == Len(d) + Len(a)
           X == {d[k] : k \in Int} \cup {a[k] : k \in Int}
           V == [i : Nat, out : Seq(X)]
           z == [i |-> 0, out |-> <<>>]
           F(f) == f = [n \in 0..total |->
                          IF n = 0 THEN z
                          ELSE Round(d, a, f[n - 1].i, n - 1 - f[n - 1].i,
                                     f[n - 1].out)]
           G == [n \in 1..total |-> [v \in V |->
                   Round(d, a, v.i, n - 1 - v.i, v.out)]]
<1>1. Len(d) \in Nat /\ Len(a) \in Nat /\ total \in Nat
  BY LenProperties DEF Items
<1>2. z \in V
  BY EmptySeq
<1>3. ASSUME NEW n \in Int, NEW v \in V
      PROVE  Round(d, a, v.i, n - 1 - v.i, v.out) \in V
  <2>1. /\ v.i \in Nat /\ v.i + 1 \in Nat /\ v.out \in Seq(X)
        /\ d[v.i + 1] \in X /\ a[(n - 1 - v.i) + 1] \in X
    <3>1. v.i \in Nat /\ v.out \in Seq(X)
      OBVIOUS
    <3>2. v.i + 1 \in Int /\ (n - 1 - v.i) + 1 \in Int /\ v.i + 1 \in Nat
      BY <3>1
    <3>3. QED
      BY <3>1, <3>2
  <2>2. /\ Append(v.out, d[v.i + 1]) \in Seq(X)
        /\ Append(v.out, a[(n - 1 - v.i) + 1]) \in Seq(X)
    <3> HIDE DEF X
    <3>1. QED
      BY <2>1, AppendProperties
  <2> HIDE DEF X
  <2>3. /\ [i |-> v.i + 1, out |-> Append(v.out, d[v.i + 1])] \in V
        /\ [i |-> v.i, out |-> Append(v.out, a[(n - 1 - v.i) + 1])] \in V
    BY <2>1, <2>2
  <2> HIDE DEF V
  <2>4. QED
    BY <2>3 DEF Round
<1>4. G \in Steps(1..total, V)
  <2> HIDE DEF V
  <2>1. \A n \in 1..total : G[n] \in [V -> V]
    BY <1>3
  <2>2. QED
    BY <2>1 DEF Steps
<1>5. PICK f \in [0..total -> V] : Runs(f, total, z, G)
  <2> HIDE DEF G, F, V, z, total
  <2>1. QED
    BY <1>1, <1>2, <1>4, Recursion
<1>6. F(f)
  <2>1. ASSUME NEW n \in 1..total
        PROVE  f[n] = Round(d, a, f[n - 1].i, n - 1 - f[n - 1].i, f[n - 1].out)
    <3>1. f[n - 1] \in V /\ f[n] = G[n][f[n - 1]]
      <4> HIDE DEF G, F, V, z
      <4>1. n - 1 \in 0..total
        BY <1>1
      <4>2. QED
        BY <1>5, <4>1 DEF Runs
    <3> HIDE DEF V, F
    <3>2. G[n] = [v \in V |-> Round(d, a, v.i, n - 1 - v.i, v.out)]
      OBVIOUS
    <3> HIDE DEF G
    <3>3. QED
      BY <3>1, <3>2
  <2>2. ASSUME NEW n \in 0..total
        PROVE  f[n] = IF n = 0 THEN z
                      ELSE Round(d, a, f[n - 1].i, n - 1 - f[n - 1].i,
                                 f[n - 1].out)
    <3> HIDE DEF G, F, z, V
    <3>1. f[0] = z
      BY <1>5 DEF Runs
    <3>2. n = 0 \/ n \in 1..total
      BY <1>1
    <3>3. QED
      BY <2>1, <3>1, <3>2
  <2>3. f = [n \in 0..total |-> f[n]]
    OBVIOUS
  <2> HIDE DEF G, z, V, total
  <2>4. QED
    BY <2>2, <2>3
<1> DEFINE h == CHOOSE x : F(x)
<1>7. F(h)
  <2> HIDE DEF F
  <2>1. QED
    BY <1>6
<1>8. MergeByTime(d, a) =
        IF Appends(d, a) THEN d \o a ELSE h[total].out
  BY DEF MergeByTime, Appends, Round, TakesDst
<1>9. h[0] = z /\ \A n \in 0..(total - 1) :
        h[n + 1] = Round(d, a, h[n].i, n - h[n].i, h[n].out)
  <2> HIDE DEF h, z
  <2>1. h[0] = z
    BY <1>1, <1>7
  <2>2. ASSUME NEW n \in 0..(total - 1)
        PROVE  h[n + 1] = Round(d, a, h[n].i, n - h[n].i, h[n].out)
    <3>1. n + 1 \in 0..total /\ n + 1 # 0 /\ (n + 1) - 1 = n
      BY <1>1
    <3>2. QED
      BY <1>7, <3>1
  <2>3. QED
    BY <2>1, <2>2
<1>10. QED
  <2> HIDE DEF h
  <2>1. QED
    BY <1>8, <1>9

\* The lists have no entry in common.
Apart2(d, a) == EntriesOf(d) \cap EntriesOf(a) = {}

\* Of an entry that is not after the items of a sequence from n on.
Before(s, n, E) ==
  n < Len(s) => \A y \in E : y.time <= s[n + 1].e.time

\* One more part of a sequence.
LEMMA PartStep ==
  ASSUME NEW s \in Items, NEW n \in Nat, n < Len(s)
  PROVE  /\ Len(s) \in Nat /\ n + 1 \in DOMAIN s /\ s[n + 1] \in ItemSet
         /\ Part(s, n + 1) = Part(s, n) \cup {s[n + 1]}
         /\ \A x \in Part(s, n) : \E k \in 1..n : x = s[k] /\ k \in DOMAIN s
         /\ Part(s, n) \subseteq Range(s) /\ s[n + 1] \in Range(s)
<1>1. Len(s) \in Nat /\ DOMAIN s = 1..Len(s)
  BY LenProperties DEF Items
<1>2. n + 1 \in DOMAIN s /\ \A k \in 1..n : k \in DOMAIN s
  BY <1>1
<1>3. s[n + 1] \in ItemSet
  BY <1>1, <1>2, ElementOfSeq DEF Items
<1>4. Part(s, n + 1) = Part(s, n) \cup {s[n + 1]}
  BY DEF Part
<1>5. \A x \in Part(s, n) : \E k \in 1..n : x = s[k] /\ k \in DOMAIN s
  BY <1>2 DEF Part
<1>6. Part(s, n) \subseteq Range(s) /\ s[n + 1] \in Range(s)
  BY <1>2, <1>5 DEF Range
<1>7. QED
  BY <1>1, <1>2, <1>3, <1>4, <1>5, <1>6

\* What has been merged, of i items of one list and j of the other.
Merged2(d, a, i, j, out) ==
  /\ i \in Nat /\ j \in Nat /\ i <= Len(d) /\ j <= Len(a)
  /\ out \in Items
  /\ Range(out) = Part(d, i) \cup Part(a, j)
  /\ CountUnread(out) = CountTo(d, i) + CountTo(a, j)
  /\ Distinct(d) /\ Distinct(a) /\ Apart2(d, a) => Distinct(out)
  /\ Ordered(d) /\ Ordered(a) =>
       /\ Ordered(out)
       /\ Before(d, i, EntriesOf(out)) /\ Before(a, j, EntriesOf(out))

\* The next item is the next one of the first list.
LEMMA MergeNext ==
  ASSUME NEW d \in Items, NEW a \in Items, NEW i, NEW j, NEW out,
         Merged2(d, a, i, j, out), i < Len(d),
         Ordered(d) /\ Ordered(a) /\ j < Len(a) =>
           d[i + 1].e.time <= a[j + 1].e.time
  PROVE  Merged2(d, a, i + 1, j, Append(out, d[i + 1]))
<1> DEFINE x == d[i + 1]
           t == Append(out, x)
<1>1. /\ i \in Nat /\ j \in Nat /\ j <= Len(a) /\ out \in Items
      /\ Range(out) = Part(d, i) \cup Part(a, j)
      /\ Len(d) \in Nat /\ Len(a) \in Nat /\ i + 1 <= Len(d)
      /\ i + 1 \in Nat
  BY LenProperties DEF Merged2, Items
<1>2. /\ x \in ItemSet /\ i + 1 \in DOMAIN d
      /\ Part(d, i + 1) = Part(d, i) \cup {x}
      /\ \A y \in Part(d, i) : \E k \in 1..i : y = d[k] /\ k \in DOMAIN d
      /\ x \in Range(d)
  BY <1>1, PartStep
<1>3. Part(a, j) \subseteq Range(a)
  <2>1. DOMAIN a = 1..Len(a) /\ \A k \in 1..j : k \in 1..Len(a)
    BY <1>1, LenProperties DEF Items
  <2>2. QED
    BY <2>1 DEF Part, Range
<1>4. /\ t \in Items /\ Range(t) = Range(out) \cup {x}
      /\ EntriesOf(t) = EntriesOf(out) \cup {x.e}
      /\ Distinct(out) /\ x.e \notin EntriesOf(out) => Distinct(t)
      /\ Ordered(out) /\ (\A y \in EntriesOf(out) : y.time <= x.e.time) =>
           Ordered(t)
      /\ x.unread => CountUnread(t) = CountUnread(out) + 1
      /\ ~x.unread => CountUnread(t) = CountUnread(out)
  <2> HIDE DEF x
  <2>1. QED
    BY <1>1, <1>2, AppendFacts
<1>5. CountUnread(t) = CountTo(d, i + 1) + CountTo(a, j)
  <2>1. /\ CountUnread(out) = CountTo(d, i) + CountTo(a, j)
        /\ CountTo(d, i) \in Nat /\ CountTo(a, j) \in Nat
        /\ x.unread => CountTo(d, i + 1) = CountTo(d, i) + 1
        /\ ~x.unread => CountTo(d, i + 1) = CountTo(d, i)
    BY <1>1, CountStep DEF Merged2
  <2> HIDE DEF x, t
  <2>2. QED
    BY <1>4, <2>1
<1>6. ASSUME Distinct(d), Distinct(a), Apart2(d, a) PROVE Distinct(t)
  <2>1. Distinct(out)
    BY <1>6 DEF Merged2
  <2>2. \A y \in Part(d, i) : y.e # x.e
    <3>1. \A k \in 1..i : k # i + 1
      BY <1>1
    <3>2. QED
      BY <1>2, <1>6, <3>1 DEF Distinct
  <2>3. \A y \in Part(a, j) : y.e # x.e
    <3>1. \A y \in Part(a, j) : y.e \in EntriesOf(a)
      BY <1>3, EntriesFacts
    <3>2. x.e \in EntriesOf(d)
      BY <1>2, EntriesFacts
    <3>3. QED
      BY <1>6, <3>1, <3>2 DEF Apart2
  <2>4. x.e \notin EntriesOf(out)
    <3>1. \A e \in EntriesOf(out) : \E y \in Range(out) : e = y.e
      BY <1>1, EntriesFacts
    <3> HIDE DEF x
    <3>2. QED
      BY <1>1, <2>2, <2>3, <3>1
  <2>5. QED
    BY <1>4, <2>1, <2>4
<1>7. ASSUME Ordered(d), Ordered(a)
      PROVE  /\ Ordered(t)
             /\ Before(d, i + 1, EntriesOf(t)) /\ Before(a, j, EntriesOf(t))
  <2>1. /\ Ordered(out) /\ Before(d, i, EntriesOf(out))
        /\ Before(a, j, EntriesOf(out))
    BY <1>7 DEF Merged2
  <2>2. \A y \in EntriesOf(out) : y.time <= x.e.time
    BY <2>1 DEF Before
  <2>3. Ordered(t)
    BY <1>4, <2>1, <2>2
  <2>4. Before(a, j, EntriesOf(t))
    BY <1>4, <1>7, <2>1 DEF Before
  <2>5. ASSUME i + 1 < Len(d), NEW y \in EntriesOf(t)
        PROVE  y.time <= d[(i + 1) + 1].e.time
    <3> DEFINE w == d[(i + 1) + 1]
    <3>1. (i + 1) + 1 \in DOMAIN d /\ w \in ItemSet
      BY <1>1, <2>5, PartStep
    <3>2. x.e.time <= w.e.time
      BY <1>1, <1>2, <1>7, <3>1 DEF Ordered
    <3>3. y.time <= x.e.time
      <4>1. x.e.time \in Nat
        BY <1>2, Times
      <4>2. QED
        BY <1>4, <2>2, <2>5, <4>1
    <3>4. y.time \in Nat /\ x.e.time \in Nat /\ w.e.time \in Nat
      <4>1. y \in Entry
        BY <1>4, <2>5, EntriesFacts
      <4>2. y.time \in Nat
        BY <4>1, FieldsAreNumbers
      <4>3. QED
        BY <1>2, <3>1, <4>2, Times
    <3> HIDE DEF w, x
    <3>5. QED
      BY <3>2, <3>3, <3>4 DEF w
  <2>6. Before(d, i + 1, EntriesOf(t))
    BY <2>5 DEF Before
  <2>7. QED
    BY <2>3, <2>4, <2>6
<1>8. Range(t) = Part(d, i + 1) \cup Part(a, j)
  BY <1>1, <1>2, <1>4
<1>9. QED
  <2> HIDE DEF x, t
  <2>1. Merged2(d, a, i + 1, j, t)
    BY <1>1, <1>4, <1>5, <1>6, <1>7, <1>8, Zenon DEF Merged2
  <2>2. QED
    BY <2>1 DEF t, x

\* The two lists have the same part in it.
LEMMA MergeSwap ==
  ASSUME NEW d, NEW a, NEW i, NEW j, NEW out, Merged2(d, a, i, j, out)
  PROVE  Merged2(a, d, j, i, out)
<1>1. i \in Nat /\ j \in Nat /\ CountTo(d, i) \in Nat /\ CountTo(a, j) \in Nat
  BY CountStep DEF Merged2
<1>2. CountUnread(out) = CountTo(a, j) + CountTo(d, i)
  <2>1. CountUnread(out) = CountTo(d, i) + CountTo(a, j)
    BY Zenon DEF Merged2
  <2>2. QED
    BY <1>1, <2>1
<1>3. Apart2(a, d) => Apart2(d, a)
  BY DEF Apart2
<1>4. Range(out) = Part(a, j) \cup Part(d, i)
  BY DEF Merged2
<1>5. QED
  BY <1>2, <1>3, <1>4, Zenon DEF Merged2

\* Before the first round.
LEMMA MergeStart ==
  ASSUME NEW d \in Items, NEW a \in Items
  PROVE  Merged2(d, a, 0, 0, <<>>)
<1>1. Len(d) \in Nat /\ Len(a) \in Nat
  BY LenProperties DEF Items
<1>2. Part(d, 0) = {} /\ Part(a, 0) = {}
  BY DEF Part
<1>3. CountTo(d, 0) = 0 /\ CountTo(a, 0) = 0
  BY CountStep
<1>4. Before(d, 0, {}) /\ Before(a, 0, {})
  BY DEF Before
<1>5. QED
  <2>1. /\ 0 \in Nat /\ 0 <= Len(d) /\ 0 <= Len(a) /\ 0 = 0 + 0
        /\ {} = {} \cup {}
    BY <1>1
  <2>2. QED
    BY <1>2, <1>3, <1>4, <2>1, EmptyFacts, Zenon DEF Merged2

\* After the last one.
LEMMA MergeEnd ==
  ASSUME NEW d \in Items, NEW a \in Items, NEW i, NEW j, NEW out,
         Merged2(d, a, i, j, out), i + j = Len(d) + Len(a)
  PROVE  /\ out \in Items /\ Range(out) = Range(d) \cup Range(a)
         /\ CountUnread(out) = CountUnread(d) + CountUnread(a)
         /\ Distinct(d) /\ Distinct(a) /\ Apart2(d, a) => Distinct(out)
         /\ Ordered(d) /\ Ordered(a) => Ordered(out)
<1>1. /\ Len(d) \in Nat /\ Len(a) \in Nat
      /\ DOMAIN d = 1..Len(d) /\ DOMAIN a = 1..Len(a)
  BY LenProperties DEF Items
<1>2. i = Len(d) /\ j = Len(a)
  <2>1. i \in Nat /\ j \in Nat /\ i <= Len(d) /\ j <= Len(a)
    BY Zenon DEF Merged2
  <2>2. Len(d) \in Nat /\ Len(a) \in Nat
    BY <1>1
  <2>3. QED
    BY <2>1, <2>2
<1>3. Part(d, Len(d)) = Range(d) /\ Part(a, Len(a)) = Range(a)
  BY <1>1 DEF Part, Range
<1>4. /\ CountUnread(d) = CountTo(d, Len(d))
      /\ CountUnread(a) = CountTo(a, Len(a))
  BY CountAll
<1>5. QED
  BY <1>2, <1>3, <1>4 DEF Merged2

\* The loop of mergeByTime.
LEMMA MergeRounds ==
  ASSUME NEW d \in Items, NEW a \in Items, NEW f,
         f[0] = [i |-> 0, out |-> <<>>],
         \A n \in 0..(Len(d) + Len(a) - 1) :
           f[n + 1] = Round(d, a, f[n].i, n - f[n].i, f[n].out)
  PROVE  LET n == Len(d) + Len(a)
         IN  Merged2(d, a, f[n].i, n - f[n].i, f[n].out)
<1> DEFINE Good(n) == Merged2(d, a, f[n].i, n - f[n].i, f[n].out)
           S == {n \in 0..(Len(d) + Len(a)) : Good(n)}
<1>1. Len(d) \in Nat /\ Len(a) \in Nat
  BY LenProperties DEF Items
<1>2. Good(0)
  <2>1. f[0].i = 0 /\ 0 - f[0].i = 0 /\ f[0].out = <<>>
    OBVIOUS
  <2>2. QED
    BY <2>1, MergeStart
<1>3. ASSUME NEW n \in 0..(Len(d) + Len(a) - 1), Good(n) PROVE Good(n + 1)
  <2> DEFINE i == f[n].i
             j == n - f[n].i
             out == f[n].out
  <2>1. Merged2(d, a, i, j, out)
    BY <1>3
  <2>2. i \in Nat /\ j \in Nat /\ i <= Len(d) /\ j <= Len(a) /\ n = i + j
        /\ n \in Nat
    BY <1>1, <2>1 DEF Merged2
  <2>3. f[n + 1] = Round(d, a, i, j, out)
    OBVIOUS
  <2> HIDE DEF i, j, out, Good
  <2>4. CASE TakesDst(d, a, i, j)
    <3>1. i < Len(d) /\ (j < Len(a) => a[j + 1].e.time >= d[i + 1].e.time)
      BY <1>1, <2>2, <2>4 DEF TakesDst
    <3>2. j < Len(a) => d[i + 1].e.time <= a[j + 1].e.time
      <4> SUFFICES ASSUME j < Len(a)
                   PROVE  d[i + 1].e.time <= a[j + 1].e.time
        OBVIOUS
      <4>1. d[i + 1] \in ItemSet /\ a[j + 1] \in ItemSet
        BY <2>2, <3>1, PartStep
      <4>2. d[i + 1].e.time \in Nat /\ a[j + 1].e.time \in Nat
        BY <4>1, Times
      <4>3. QED
        BY <3>1, <4>2
    <3>3. Merged2(d, a, i + 1, j, Append(out, d[i + 1]))
      BY <2>1, <3>1, <3>2, MergeNext
    <3>4. f[n + 1] = [i |-> i + 1, out |-> Append(out, d[i + 1])]
      BY <2>3, <2>4 DEF Round
    <3>5. (n + 1) - (i + 1) = j
      BY <2>2
    <3>6. QED
      BY <3>3, <3>4, <3>5 DEF Good
  <2>5. CASE ~TakesDst(d, a, i, j)
    <3>1. j < Len(a) /\ (i < Len(d) => ~(a[j + 1].e.time >= d[i + 1].e.time))
      BY <1>1, <2>2, <2>5 DEF TakesDst
    <3>2. i < Len(d) => a[j + 1].e.time <= d[i + 1].e.time
      <4> SUFFICES ASSUME i < Len(d)
                   PROVE  a[j + 1].e.time <= d[i + 1].e.time
        OBVIOUS
      <4>1. d[i + 1] \in ItemSet /\ a[j + 1] \in ItemSet
        BY <2>2, <3>1, PartStep
      <4>2. d[i + 1].e.time \in Nat /\ a[j + 1].e.time \in Nat
        BY <4>1, Times
      <4>3. QED
        BY <3>1, <4>2
    <3>3. Merged2(a, d, j, i, out)
      BY <2>1, MergeSwap
    <3>4. Merged2(a, d, j + 1, i, Append(out, a[j + 1]))
      BY <3>1, <3>2, <3>3, MergeNext
    <3>5. Merged2(d, a, i, j + 1, Append(out, a[j + 1]))
      BY <3>4, MergeSwap
    <3>6. f[n + 1] = [i |-> i, out |-> Append(out, a[j + 1])]
      BY <2>3, <2>5 DEF Round
    <3>7. (n + 1) - i = j + 1
      BY <2>2
    <3>8. QED
      BY <3>5, <3>6, <3>7 DEF Good
  <2>6. QED
    BY <2>4, <2>5
<1>4. 0 \in S /\ \A n \in 0..(Len(d) + Len(a) - 1) : n \in S => n + 1 \in S
  <2>1. \A n \in 0..(Len(d) + Len(a) - 1) : n + 1 \in 0..(Len(d) + Len(a))
    BY <1>1
  <2> HIDE DEF Good
  <2>2. QED
    BY <1>1, <1>2, <1>3, <2>1
<1>5. QED
  <2> DEFINE total == Len(d) + Len(a)
  <2>1. total \in Nat
    BY <1>1
  <2> HIDE DEF S, Good
  <2>2. \A n \in 0..(total - 1) : n \in S => n + 1 \in S
    BY <1>4
  <2>3. 0..total \subseteq S
    <3> HIDE DEF total
    <3>1. QED
      BY <1>4, <2>1, <2>2, UpTo
  <2>4. Good(total)
    BY <2>1, <2>3 DEF S
  <2>5. QED
    BY <2>4 DEF Good

\* Putting one list after the other.
LEMMA ConcatRounds ==
  ASSUME NEW d \in Items, NEW a \in Items, Appends(d, a)
  PROVE  Merged2(d, a, Len(d), Len(a), d \o a)
<1> DEFINE c == d \o a
           total == Len(d) + Len(a)
           I(n) == IF n < Len(d) THEN n ELSE Len(d)
           Good(n) == Merged2(d, a, I(n), n - I(n), SubSeq(c, 1, n))
           S == {n \in 0..total : Good(n)}
<1>1. /\ Len(d) \in Nat /\ Len(a) \in Nat /\ total \in Nat
      /\ c \in Items /\ Len(c) = total
      /\ \A k \in 1..total : c[k] = IF k <= Len(d) THEN d[k] ELSE a[k - Len(d)]
  BY LenProperties, ConcatProperties DEF Items
<1>2. Good(0)
  <2>1. I(0) = 0 /\ 0 - I(0) = 0 /\ SubSeq(c, 1, 0) = <<>>
    <3>1. I(0) = 0 /\ 0 - I(0) = 0
      <4>1. Len(d) \in Nat
        BY <1>1
      <4>2. I(0) = 0
        BY <4>1
      <4> HIDE DEF I
      <4>3. QED
        BY <4>2
    <3>2. SubSeq(c, 1, 0) = <<>>
      <4> HIDE DEF c
      <4>1. QED
        BY SubSeqEmpty
    <3>3. QED
      BY <3>1, <3>2
  <2> HIDE DEF I, c
  <2>2. QED
    BY <2>1, MergeStart
<1>3. ASSUME NEW n \in 0..(total - 1), Good(n) PROVE Good(n + 1)
  <2> DEFINE q == SubSeq(c, 1, n)
  <2>1. SubSeq(c, 1, n + 1) = Append(q, c[n + 1])
    <3> HIDE DEF c, total
    <3>1. n + 1 \in 1..Len(c) /\ c \in Seq(ItemSet)
      BY <1>1 DEF Items
    <3>2. (n + 1) - 1 = n
      OBVIOUS
    <3>3. 1 \in 1..Len(c) /\ n + 1 \in 1..Len(c)
      BY <1>1, <3>1
    <3>4. SubSeq(c, 1, n + 1) = SubSeq(c, 1, (n + 1) - 1) \o <<c[n + 1]>>
      BY <3>1, <3>3, SubSeqRecursiveSecond
    <3>5. q \in Seq(ItemSet) /\ c[n + 1] \in ItemSet
      BY <1>3, <3>1, ElementOfSeq DEF Merged2, Items
    <3>6. Append(q, c[n + 1]) = q \o <<c[n + 1]>>
      <4> HIDE DEF q
      <4>1. QED
        BY <3>5, AppendIsConcat
    <3>7. QED
      BY <3>2, <3>4, <3>6
  <2>2. CASE n < Len(d)
    <3>1. /\ I(n) = n /\ n - I(n) = 0 /\ I(n + 1) = n + 1
          /\ (n + 1) - I(n + 1) = 0 /\ c[n + 1] = d[n + 1] /\ n + 1 \in Nat
      BY <1>1, <2>2
    <3>2. Merged2(d, a, n, 0, q)
      BY <1>3, <3>1
    <3>3. Ordered(d) /\ 0 < Len(a) => d[n + 1].e.time <= a[0 + 1].e.time
      <4> SUFFICES ASSUME Ordered(d), 0 < Len(a)
                   PROVE  d[n + 1].e.time <= a[1].e.time
        OBVIOUS
      <4>1. Len(d) # 0 /\ d # <<>> /\ a # <<>>
        BY <1>1, <2>2, EmptySeq
      <4>2. a[1].e.time >= d[Len(d)].e.time
        BY <4>1 DEF Appends
      <4>3. /\ n + 1 \in DOMAIN d /\ Len(d) \in DOMAIN d
            /\ d[n + 1] \in ItemSet /\ d[Len(d)] \in ItemSet
            /\ a[1] \in ItemSet
        <5>1. DOMAIN d = 1..Len(d) /\ DOMAIN a = 1..Len(a)
          BY LenProperties DEF Items
        <5>2. n + 1 \in 1..Len(d) /\ Len(d) \in 1..Len(d) /\ 1 \in 1..Len(a)
          BY <1>1, <2>2
        <5>3. QED
          BY <5>1, <5>2, ElementOfSeq DEF Items
      <4>4. d[n + 1].e.time <= d[Len(d)].e.time
        <5>1. n + 1 = Len(d) \/ n + 1 < Len(d)
          BY <1>1, <2>2
        <5>2. d[Len(d)].e.time \in Nat
          BY <4>3, Times
        <5>3. QED
          BY <4>3, <5>1, <5>2 DEF Ordered
      <4>5. d[n + 1].e.time \in Nat /\ a[1].e.time \in Nat
            /\ d[Len(d)].e.time \in Nat
        BY <4>3, Times
      <4>6. QED
        BY <4>2, <4>4, <4>5
    <3> HIDE DEF I, c, q
    <3>4. Merged2(d, a, n + 1, 0, Append(q, d[n + 1]))
      BY <2>2, <3>2, <3>3, MergeNext
    <3>5. QED
      BY <2>1, <3>1, <3>4
  <2>3. CASE ~(n < Len(d))
    <3> DEFINE j == n - Len(d)
    <3>1. /\ I(n) = Len(d) /\ I(n + 1) = Len(d) /\ j \in Nat /\ j < Len(a)
          /\ (n + 1) - I(n + 1) = j + 1 /\ c[n + 1] = a[j + 1]
      <4>1. /\ I(n) = Len(d) /\ I(n + 1) = Len(d) /\ j \in Nat
            /\ j < Len(a) /\ (n + 1) - I(n + 1) = j + 1
        <5>1. n \in Nat /\ n < Len(d) + Len(a) /\ Len(d) <= n
          BY <1>1, <2>3
        <5> HIDE DEF c, Good, S, total
        <5>2. j \in Nat /\ j < Len(a)
          BY <1>1, <5>1
        <5>3. I(n) = Len(d) /\ I(n + 1) = Len(d)
          BY <1>1, <5>1
        <5> HIDE DEF I
        <5>4. QED
          BY <1>1, <5>1, <5>2, <5>3
      <4>2. n + 1 \in 1..total /\ ~(n + 1 <= Len(d))
              /\ (n + 1) - Len(d) = j + 1
        BY <1>1, <2>3
      <4>3. c[n + 1] = a[(n + 1) - Len(d)]
        <5> HIDE DEF c, total
        <5>1. QED
          BY <1>1, <4>2
      <4>4. QED
        BY <4>1, <4>2, <4>3
    <3>2. Merged2(d, a, Len(d), j, q)
      BY <1>3, <3>1
    <3> HIDE DEF I, c, q, j
    <3>3. Merged2(a, d, j, Len(d), q)
      BY <3>2, MergeSwap
    <3>4. ~(Len(d) < Len(d))
      BY <1>1
    <3>5. Merged2(a, d, j + 1, Len(d), Append(q, a[j + 1]))
      BY <3>1, <3>3, <3>4, MergeNext
    <3>6. Merged2(d, a, Len(d), j + 1, Append(q, a[j + 1]))
      BY <3>5, MergeSwap
    <3>7. QED
      BY <2>1, <3>1, <3>6
  <2>4. QED
    BY <2>2, <2>3
<1>4. 0 \in S /\ \A n \in 0..(total - 1) : n \in S => n + 1 \in S
  <2>1. \A n \in 0..(total - 1) : n + 1 \in 0..total
    BY <1>1
  <2> HIDE DEF Good
  <2>2. QED
    BY <1>1, <1>2, <1>3, <2>1
<1>5. Good(total)
  <2> HIDE DEF S, Good, total
  <2>1. 0..total \subseteq S
    BY <1>1, <1>4, UpTo
  <2>2. QED
    BY <1>1, <2>1 DEF S
<1>6. I(total) = Len(d) /\ total - I(total) = Len(a)
  BY <1>1
<1>7. SubSeq(c, 1, total) = c
  BY <1>1, SubSeqFull DEF Items
<1>8. QED
  <2> HIDE DEF I, c, total
  <2>1. Merged2(d, a, Len(d), Len(a), c)
    BY <1>5, <1>6, <1>7
  <2>2. QED
    BY <2>1 DEF c

\* Merging two chats loses nothing, doubles nothing, and keeps the order.
LEMMA MergeFacts ==
  ASSUME NEW d \in Items, NEW a \in Items
  PROVE  /\ MergeByTime(d, a) \in Items
         /\ Range(MergeByTime(d, a)) = Range(d) \cup Range(a)
         /\ CountUnread(MergeByTime(d, a)) = CountUnread(d) + CountUnread(a)
         /\ Distinct(d) /\ Distinct(a) /\ Apart2(d, a) =>
              Distinct(MergeByTime(d, a))
         /\ Ordered(d) /\ Ordered(a) => Ordered(MergeByTime(d, a))
<1>1. Len(d) \in Nat /\ Len(a) \in Nat
  BY LenProperties DEF Items
<1>2. PICK f : /\ f[0] = [i |-> 0, out |-> <<>>]
               /\ \A n \in 0..(Len(d) + Len(a) - 1) :
                    f[n + 1] = Round(d, a, f[n].i, n - f[n].i, f[n].out)
               /\ MergeByTime(d, a) =
                    IF Appends(d, a) THEN d \o a
                    ELSE f[Len(d) + Len(a)].out
  BY MergeLoop
<1>3. CASE Appends(d, a)
  <2>1. Merged2(d, a, Len(d), Len(a), MergeByTime(d, a))
    BY <1>2, <1>3, ConcatRounds
  <2>2. QED
    BY <2>1, MergeEnd
<1>4. CASE ~Appends(d, a)
  <2> DEFINE n == Len(d) + Len(a)
             i == f[n].i
  <2>1. Merged2(d, a, i, n - i, MergeByTime(d, a))
    BY <1>2, <1>4, MergeRounds
  <2>2. i + (n - i) = Len(d) + Len(a)
    BY <1>1, <2>1 DEF Merged2
  <2> HIDE DEF n, i
  <2>3. QED
    BY <2>1, <2>2, MergeEnd
<1>5. QED
  BY <1>3, <1>4

----------------------------------------------------------------------------
(* The chat store: keys, aliases and where an entry is filed.               *)

\* Opening a chat leaves its entries as they are, and none of them unread.
LEMMA ReadFacts ==
  ASSUME NEW s \in Items
  PROVE  /\ Read(s) \in Items /\ EntriesOf(Read(s)) = EntriesOf(s)
         /\ Distinct(s) => Distinct(Read(s))
         /\ Ordered(s) => Ordered(Read(s))
         /\ CountUnread(Read(s)) = 0
<1> DEFINE t == [i \in DOMAIN s |-> Item(s[i].e, FALSE)]
<1>1. /\ Len(s) \in Nat /\ DOMAIN s = 1..Len(s)
      /\ \A i \in DOMAIN s : s[i] \in ItemSet /\ s[i].e \in Entry
  <2>1. Len(s) \in Nat /\ DOMAIN s = 1..Len(s)
    BY LenProperties DEF Items
  <2>2. \A i \in DOMAIN s : s[i] \in ItemSet
    BY <2>1, ElementOfSeq DEF Items
  <2>3. QED
    BY <2>1, <2>2, Times
<1>2. \A i \in DOMAIN s : Item(s[i].e, FALSE) \in ItemSet
  BY <1>1 DEF Item, ItemSet
<1>3. t \in Items
  <2>1. t \in [1..Len(s) -> ItemSet]
    BY <1>1, <1>2
  <2> HIDE DEF t
  <2>2. QED
    BY <1>1, <2>1, SeqDef DEF Items
<1>4. DOMAIN t = DOMAIN s /\ \A i \in DOMAIN s : t[i].e = s[i].e
        /\ ~t[i].unread
  BY DEF Item
<1>5. Read(s) = t
  BY DEF Read
<1> HIDE DEF t
<1>6. EntriesOf(t) = EntriesOf(s)
  BY <1>4 DEF EntriesOf
<1>7. Distinct(s) => Distinct(t)
  BY <1>4 DEF Distinct
<1>8. Ordered(s) => Ordered(t)
  BY <1>4 DEF Ordered
<1>9. CountUnread(t) = 0
  BY <1>3, <1>4, NoneUnread
<1>10. QED
  BY <1>3, <1>5, <1>6, <1>7, <1>8, <1>9

----------------------------------------------------------------------------
(* The keys.                                                                *)

\* A key is one of three kinds and a number.
LEMMA KeyShape ==
  /\ \A k \in Key : /\ k = <<k[1], k[2]>> /\ k[2] \in Nat
                    /\ k[1] \in {"id", "name", "addr"}
  /\ NoKey \notin Key
<1>1. /\ \A p \in People : p.id \in Nat /\ p.name \in Nat
      /\ \A e \in Entry : e.id \in Nat /\ e.name \in Nat /\ e.addr \in Nat
  BY FieldsAreNumbers
<1>2. ASSUME NEW k \in Key
      PROVE  \E n \in Nat : k \in {<<"id", n>>, <<"name", n>>, <<"addr", n>>}
  <2>1. ASSUME NEW p \in People, k = PeerKey(p)
        PROVE  \E n \in Nat : k \in {<<"id", n>>, <<"name", n>>, <<"addr", n>>}
    BY <1>1, <2>1 DEF PeerKey, IdKey, NameKey
  <2>2. \/ \E p \in People : k = PeerKey(p)
        \/ \E e \in Entry : \/ k = IdKey(e.id) \/ k = NameKey(e.name)
                            \/ k = AddrKey(e.addr)
    BY DEF Key
  <2>3. QED
    BY <1>1, <2>1, <2>2 DEF IdKey, NameKey, AddrKey
<1>3. QED
  BY <1>2 DEF NoKey

\* Their order is total.
LEMMA KeysOrdered ==
  /\ \A x, y \in Key : x # y => KeyLess(x, y) \/ KeyLess(y, x)
  /\ \A x, y, z \in Key : KeyLess(x, y) /\ KeyLess(y, z) => KeyLess(x, z)
  /\ \A x \in Key : ~KeyLess(x, x)
<1>1. \A k \in Key :
        /\ Rank(k) \in 0..2 /\ k[2] \in Nat
        /\ Rank(k) = 0 => k[1] = "addr"
        /\ Rank(k) = 1 => k[1] = "id"
        /\ Rank(k) = 2 => k[1] = "name"
        /\ k = <<k[1], k[2]>>
  BY KeyShape DEF Rank
<1>2. \A x, y \in Key : Rank(x) = Rank(y) /\ x[2] = y[2] => x = y
  BY <1>1
<1>3. QED
  BY <1>1, <1>2 DEF KeyLess

\* There are finitely many.
LEMMA KeysFinite == IsFiniteSet(Key)
<1>1. IsFiniteSet(Entry)
  <2>1. ASSUME NEW s \in Seq(Entry) PROVE IsFiniteSet(Range(s))
    <3>1. Len(s) \in Nat /\ DOMAIN s = 1..Len(s)
      BY LenProperties
    <3>2. IsFiniteSet(DOMAIN s)
      BY <3>1, FS_Interval
    <3>3. [i \in DOMAIN s |-> s[i]] \in Surjection(DOMAIN s, Range(s))
      BY DEF Surjection, Range
    <3>4. QED
      BY <3>2, <3>3, FS_Surjection DEF ExistsSurjection
  <2>2. Loadable \in Seq(Entry) /\ Arrivals \in Seq(Entry)
    BY EntriesInOrder
  <2>3. QED
    BY <2>1, <2>2, FS_Union DEF Entry
<1>2. ASSUME NEW f PROVE IsFiniteSet({f[e] : e \in Entry})
  <2>1. [e \in Entry |-> f[e]] \in Surjection(Entry, {f[e] : e \in Entry})
    BY DEF Surjection
  <2>2. QED
    BY <1>1, <2>1, FS_Surjection DEF ExistsSurjection
<1>3. IsFiniteSet({PeerKey(p) : p \in People})
  <2>1. [p \in People |-> PeerKey(p)]
          \in Surjection(People, {PeerKey(p) : p \in People})
    BY DEF Surjection
  <2>2. IsFiniteSet(People)
    BY ListsAreFinite
  <2>3. QED
    BY <2>1, <2>2, FS_Surjection DEF ExistsSurjection
<1>4. /\ IsFiniteSet({IdKey(e.id) : e \in Entry})
      /\ IsFiniteSet({NameKey(e.name) : e \in Entry})
      /\ IsFiniteSet({AddrKey(e.addr) : e \in Entry})
  <2> DEFINE f == [e \in Entry |-> IdKey(e.id)]
             g == [e \in Entry |-> NameKey(e.name)]
             h == [e \in Entry |-> AddrKey(e.addr)]
  <2>1. /\ {IdKey(e.id) : e \in Entry} = {f[e] : e \in Entry}
        /\ {NameKey(e.name) : e \in Entry} = {g[e] : e \in Entry}
        /\ {AddrKey(e.addr) : e \in Entry} = {h[e] : e \in Entry}
    OBVIOUS
  <2> HIDE DEF f, g, h
  <2>2. QED
    BY <1>2, <2>1
<1> DEFINE All == {PeerKey(p) : p \in People} \cup
                    ({IdKey(e.id) : e \in Entry} \cup
                      ({NameKey(e.name) : e \in Entry} \cup
                        {AddrKey(e.addr) : e \in Entry}))
<1>5. IsFiniteSet(All)
  BY <1>3, <1>4, FS_Union
<1>6. Key \subseteq All
  BY DEF Key
<1>7. QED
  BY <1>5, <1>6, FS_Subset

\* LastKey names a key of the set.
LEMMA LastKeyIn ==
  ASSUME NEW K \in SUBSET Key, K # {} PROVE LastKey(K) \in K
<1> DEFINE R == {r \in Key \X Key : KeyLess(r[1], r[2])}
<1>1. \A x, y \in K : <<x, y>> \in R <=> KeyLess(x, y)
  OBVIOUS
<1>2. IsFiniteSet(K)
  BY KeysFinite, FS_Subset
<1>3. /\ \A x, y \in K : x # y => <<x, y>> \in R \/ <<y, x>> \in R
      /\ \A x, y, z \in K : <<x, y>> \in R /\ <<y, z>> \in R => <<x, z>> \in R
  <2> HIDE DEF R
  <2>1. QED
    BY <1>1, KeysOrdered
<1>4. \E x \in K : \A y \in K \ {x} : <<y, x>> \in R
  <2> HIDE DEF R
  <2>1. QED
    BY <1>2, <1>3, LastMember
<1>5. \E x \in K : \A y \in K \ {x} : KeyLess(y, x)
  <2> HIDE DEF R
  <2>1. QED
    BY <1>1, <1>4
<1>6. QED
  BY <1>5 DEF LastKey

\* Best names a peer of the set.
LEMMA BestIn ==
  ASSUME NEW list \in PeerLists, NEW B \in SUBSET list, B # {}
  PROVE  Best(B) \in B
<1> DEFINE R == {r \in list \X list : Better(r[2], r[1])}
<1>1. \A x, y \in B : <<x, y>> \in R <=> Better(y, x)
  OBVIOUS
<1>2. list \subseteq People
  BY DEF People
<1>3. IsFiniteSet(B)
  BY <1>2, ListsAreFinite, FS_Subset
<1>4. \A p \in list : /\ PeerKey(p) \in Key /\ p.online \in BOOLEAN
                      /\ p.seen \in Nat
  BY <1>2, FieldsAreNumbers DEF Key
<1>5. \A x, y \in B : x # y => Better(x, y) \/ Better(y, x)
  <2>1. ASSUME NEW x \in B, NEW y \in B, x # y
        PROVE  Better(x, y) \/ Better(y, x)
    <3>1. PeerKey(x) # PeerKey(y)
      BY <2>1, ListsAreFinite
    <3>2. KeyLess(PeerKey(x), PeerKey(y)) \/ KeyLess(PeerKey(y), PeerKey(x))
      BY <1>4, <3>1, KeysOrdered
    <3>3. QED
      BY <1>4, <3>2 DEF Better
  <2>2. QED
    BY <2>1
<1>6. \A x, y, z \in B : Better(x, y) /\ Better(y, z) => Better(x, z)
  <2>1. \A x, y, z \in B : KeyLess(PeerKey(x), PeerKey(y))
                             /\ KeyLess(PeerKey(y), PeerKey(z))
                             => KeyLess(PeerKey(x), PeerKey(z))
    BY <1>4, KeysOrdered
  <2>2. QED
    BY <1>4, <2>1 DEF Better
<1>7. /\ \A x, y \in B : x # y => <<x, y>> \in R \/ <<y, x>> \in R
      /\ \A x, y, z \in B : <<x, y>> \in R /\ <<y, z>> \in R => <<x, z>> \in R
  <2> HIDE DEF R
  <2>1. QED
    BY <1>1, <1>5, <1>6
<1>8. \E x \in B : \A y \in B \ {x} : <<y, x>> \in R
  <2> HIDE DEF R
  <2>1. QED
    BY <1>3, <1>7, LastMember
<1>9. \E x \in B : \A y \in B \ {x} : Better(x, y)
  <2> HIDE DEF R
  <2>1. QED
    BY <1>1, <1>8
<1>10. QED
  BY <1>9 DEF Best

\* classify names a key.
LEMMA ClassifyIn ==
  ASSUME NEW list \in PeerLists \cup {{}}, NEW e \in Entry
  PROVE  Classify(e, list) \in Key
<1>1. ASSUME NEW B \in SUBSET list, B # {} PROVE PeerKey(Best(B)) \in Key
  <2>1. list \in PeerLists
    BY <1>1
  <2>2. Best(B) \in list /\ list \subseteq People
    BY <1>1, <2>1, BestIn DEF People
  <2>3. QED
    BY <2>2 DEF Key
<1>2. e.id # 0 => IdKey(e.id) \in Key
  BY DEF Key
<1>3. e.name # 0 => NameKey(e.name) \in Key
  BY DEF Key
<1>4. AddrKey(e.addr) \in Key
  BY DEF Key
<1>5. QED
  BY <1>1, <1>2, <1>3, <1>4 DEF Classify

\* The keys without a chat that have an alias.
Gone(c, a) == {k \in Key : c[k] = <<>> /\ a[k] # NoKey}

\* An alias leads to a chat or to another alias, and never in a circle.
LeadsOn(c, a) ==
  /\ \A k \in Gone(c, a) : c[a[k]] # <<>> \/ a[k] \in Gone(c, a)
  /\ \A T \in SUBSET Gone(c, a) : T # {} => \E k \in T : a[k] \notin T

\* A hop of resolve.
Hop(c, a, k) ==
  IF k = NoKey \/ c[k] # <<>> \/ a[k] = NoKey THEN k ELSE a[k]

\* The keys with an alias, one hop for each.
Aliases(a) == {k \in Key : a[k] # NoKey}

\* f is the way from a key to where resolve ends, after m hops and one more.
IsWay(f, c, a, key, m) ==
  /\ f[0] = key
  /\ \A n \in 0..m : f[n + 1] = Hop(c, a, f[n])
  /\ Resolved(c, a, key) = f[m + 1]

\* resolve is a loop of hops.
LEMMA HopLoop ==
  ASSUME NEW c, NEW a \in [Key -> Key \cup {NoKey}],
         NEW key \in Key \cup {NoKey}
  PROVE  /\ IsFiniteSet(Aliases(a)) /\ Cardinality(Aliases(a)) \in Nat
         /\ \E f \in [0..(Cardinality(Aliases(a)) + 1) -> Key \cup {NoKey}] :
              IsWay(f, c, a, key, Cardinality(Aliases(a)))
<1> DEFINE hops == Cardinality(Aliases(a)) + 1
           V == Key \cup {NoKey}
           F(f) == f = [n \in 0..hops |->
                          IF n = 0 THEN key ELSE Hop(c, a, f[n - 1])]
           G == [n \in 1..hops |-> [k \in V |-> Hop(c, a, k)]]
<1>1. IsFiniteSet(Aliases(a)) /\ Cardinality(Aliases(a)) \in Nat
  <2>1. Aliases(a) \in SUBSET Key
    BY DEF Aliases
  <2>2. QED
    BY <2>1, KeysFinite, FS_Subset, FS_CardinalityType
<1>2. hops \in Nat
  BY <1>1
<1>3. \A k \in V : Hop(c, a, k) \in V
  BY DEF Hop
<1>4. G \in Steps(1..hops, V)
  <2> HIDE DEF V, hops
  <2>1. \A n \in 1..hops : G[n] \in [V -> V]
    BY <1>3
  <2>2. QED
    BY <2>1 DEF Steps
<1>5. PICK f \in [0..hops -> V] : Runs(f, hops, key, G)
  <2>1. key \in V
    OBVIOUS
  <2> HIDE DEF G, F, V, hops
  <2>2. QED
    BY <1>2, <1>4, <2>1, Recursion
<1>6. ASSUME NEW n \in 1..hops PROVE f[n] = Hop(c, a, f[n - 1])
  <2>1. f[n - 1] \in V /\ f[n] = G[n][f[n - 1]]
    <3> HIDE DEF G, F, V
    <3>1. n - 1 \in 0..hops
      BY <1>2
    <3>2. QED
      BY <1>5, <3>1 DEF Runs
  <2> HIDE DEF V, F
  <2>2. G[n] = [k \in V |-> Hop(c, a, k)]
    OBVIOUS
  <2> HIDE DEF G
  <2>3. QED
    BY <2>1, <2>2
<1>7. f[0] = key
  <2> HIDE DEF G, F, V
  <2>1. QED
    BY <1>5 DEF Runs
<1>8. F(f)
  <2>1. ASSUME NEW n \in 0..hops
        PROVE  f[n] = IF n = 0 THEN key ELSE Hop(c, a, f[n - 1])
    <3> HIDE DEF G, F, V
    <3>1. n = 0 \/ n \in 1..hops
      BY <1>2
    <3>2. QED
      BY <1>6, <1>7, <3>1
  <2>2. f = [n \in 0..hops |-> f[n]]
    OBVIOUS
  <2> HIDE DEF G, V, hops
  <2>3. QED
    BY <2>1, <2>2
<1> DEFINE h == CHOOSE x : F(x)
<1>9. F(h)
  <2> HIDE DEF F
  <2>1. QED
    BY <1>8
<1>10. Resolved(c, a, key) = h[hops]
  BY DEF Resolved, Hop, Aliases
<1> HIDE DEF h
<1>11. h[0] = key
  BY <1>2, <1>9
<1>12. ASSUME NEW n \in 0..(hops - 1) PROVE h[n + 1] = Hop(c, a, h[n])
  <2>1. n + 1 \in 0..hops /\ n + 1 # 0 /\ (n + 1) - 1 = n
    BY <1>2
  <2>2. QED
    BY <1>9, <2>1
<1>13. \A n \in 0..hops : h[n] \in V
  <2> DEFINE S == {n \in 0..hops : h[n] \in V}
  <2>1. 0 \in S
    BY <1>2, <1>11
  <2>2. ASSUME NEW n \in 0..(hops - 1), n \in S PROVE n + 1 \in S
    <3>1. n + 1 \in 0..hops
      BY <1>2
    <3> HIDE DEF V, F, G
    <3>2. QED
      BY <1>3, <1>12, <2>2, <3>1
  <2>3. 0..hops \subseteq S
    <3> HIDE DEF S, hops
    <3>1. QED
      BY <1>2, <2>1, <2>2, UpTo
  <2>4. QED
    BY <2>3
<1>14. h \in [0..hops -> V]
  <2>1. h = [n \in 0..hops |-> IF n = 0 THEN key ELSE Hop(c, a, h[n - 1])]
    BY <1>9
  <2>2. h = [n \in 0..hops |-> h[n]]
    <3>1. DOMAIN h = 0..hops
      BY <2>1
    <3> HIDE DEF F, G, V
    <3>2. QED
      BY <2>1, <3>1
  <2> HIDE DEF V, F, G
  <2>3. QED
    BY <1>13, <2>2
<1>15. \A n \in 0..Cardinality(Aliases(a)) : h[n + 1] = Hop(c, a, h[n])
  <2>1. hops - 1 = Cardinality(Aliases(a))
    BY <1>1
  <2>2. QED
    BY <1>12, <2>1
<1>16. IsWay(h, c, a, key, Cardinality(Aliases(a)))
  BY <1>10, <1>11, <1>15, Zenon DEF IsWay
<1>17. QED
  <2> HIDE DEF F, G
  <2>1. QED
    BY <1>1, <1>14, <1>16

\* resolve: it ends at a chat or at a key that is not an alias, and a key that
\* is no alias of an emptied chat stays as it is.
LEMMA ResolvedFacts ==
  ASSUME NEW c, NEW a \in [Key -> Key \cup {NoKey}],
         NEW key \in Key \cup {NoKey},
         LeadsOn(c, a)
  PROVE  /\ Resolved(c, a, key) \in Key \cup {NoKey}
         /\ Resolved(c, a, key) \notin Gone(c, a)
         /\ key \notin Gone(c, a) => Resolved(c, a, key) = key
         /\ key \in Gone(c, a) =>
              Resolved(c, a, key) \in Key /\ c[Resolved(c, a, key)] # <<>>
<1> DEFINE m == Cardinality(Aliases(a))
           V == Key \cup {NoKey}
<1>1. IsFiniteSet(Aliases(a)) /\ m \in Nat
  BY HopLoop
<1>0. PICK f \in [0..(m + 1) -> V] : IsWay(f, c, a, key, m)
  BY HopLoop
<1>2. /\ f[0] = key
      /\ \A n \in 0..m : f[n + 1] = Hop(c, a, f[n])
      /\ Resolved(c, a, key) = f[m + 1]
  BY <1>0, Zenon DEF IsWay
<1> HIDE DEF m
<1>3. \A k \in V : k \notin Gone(c, a) => Hop(c, a, k) = k
  BY DEF Hop, Gone
<1>4. \A k \in Gone(c, a) :
        k \in Key /\ k \in Aliases(a) /\ Hop(c, a, k) = a[k] /\ a[k] \in Key
  <2> SUFFICES ASSUME NEW k \in Gone(c, a)
               PROVE  /\ k \in Key /\ k \in Aliases(a) /\ Hop(c, a, k) = a[k]
                      /\ a[k] \in Key
    OBVIOUS
  <2>1. k \in Key /\ c[k] = <<>> /\ a[k] # NoKey
    BY DEF Gone
  <2>2. k # NoKey
    BY <2>1, KeyShape
  <2>3. a[k] \in Key \cup {NoKey}
    BY <2>1
  <2>4. Hop(c, a, k) = a[k]
    BY <2>1, <2>2, Zenon DEF Hop
  <2>5. QED
    BY <2>1, <2>3, <2>4 DEF Aliases
<1>5. \A n \in 0..m : n \in 0..(m + 1) /\ n + 1 \in 0..(m + 1) /\ f[n] \in V
  BY <1>1, <1>2
<1>6. f[m + 1] \in V /\ m + 1 \in Nat /\ m + 1 \in 0..(m + 1)
  BY <1>1, <1>2
\* It cannot be on an alias after all hops: it would have been on more than
\* there are, and so twice on the same.
<1>7. f[m + 1] \notin Gone(c, a)
  <2> SUFFICES ASSUME f[m + 1] \in Gone(c, a) PROVE FALSE
    OBVIOUS
  <2>1. \A n \in 0..(m + 1) : f[n] \in Gone(c, a)
    <3> SUFFICES ASSUME NEW n \in 0..(m + 1), f[n] \notin Gone(c, a)
                 PROVE  FALSE
      OBVIOUS
    <3> DEFINE S == {k \in 0..(m + 1) : k >= n => f[k] = f[n]}
    <3>1. 0 \in S
      BY <1>1
    <3>2. ASSUME NEW k \in 0..m, k \in S PROVE k + 1 \in S
      <4>1. CASE k >= n
        <5>1. f[k + 1] = Hop(c, a, f[n]) /\ f[n] \in V
          BY <1>2, <3>2, <4>1
        <5>2. QED
          BY <1>3, <1>5, <5>1
      <4>2. CASE ~(k >= n)
        <5>1. k + 1 >= n => k + 1 = n
          BY <4>2
        <5>2. QED
          BY <1>5, <5>1
      <4>3. QED
        BY <4>1, <4>2
    <3>3. 0..(m + 1) \subseteq S
      <4> DEFINE q == m + 1
      <4>1. q \in Nat /\ q - 1 = m
        BY <1>1
      <4> HIDE DEF S, q
      <4>2. 0..q \subseteq S
        BY <3>1, <3>2, <4>1, UpTo
      <4>3. QED
        BY <4>2 DEF q
    <3>4. f[m + 1] = f[n]
      BY <1>6, <3>3
    <3>5. QED
      BY <3>4
  <2>2. PICK i \in 0..(m + 1), j \in 0..(m + 1) : i # j /\ f[i] = f[j]
    <3>1. /\ IsFiniteSet(0..(m + 1)) /\ Cardinality(0..(m + 1)) = m + 2
      BY <1>1, FS_Interval
    <3>2. f \in [0..(m + 1) -> Aliases(a)]
      BY <1>2, <1>4, <2>1
    <3>3. Cardinality(Aliases(a)) < Cardinality(0..(m + 1))
      BY <1>1, <3>1 DEF m
    <3>4. QED
      BY <1>1, <3>1, <3>2, <3>3, FS_PigeonHole
  <2>3. PICK x \in 0..(m + 1), y \in 0..(m + 1) : x < y /\ f[x] = f[y]
    BY <1>1, <2>2
  <2> DEFINE T == {f[n] : n \in x..(y - 1)}
  <2>4. f[x] \in T /\ T \subseteq Gone(c, a)
    <3>1. x \in x..(y - 1) /\ \A n \in x..(y - 1) : n \in 0..(m + 1)
      BY <1>1, <2>3
    <3>2. QED
      BY <2>1, <3>1
  <2>5. ASSUME NEW k \in T PROVE a[k] \in T
    <3>1. PICK n \in x..(y - 1) : k = f[n]
      OBVIOUS
    <3>2. n \in 0..m /\ (n + 1 \in x..(y - 1) \/ n + 1 = y)
      BY <1>1, <2>3
    <3>3. f[n + 1] = a[k]
      BY <1>2, <1>4, <2>4, <3>1, <3>2
    <3>4. QED
      BY <2>3, <2>4, <3>2, <3>3
  <2>6. QED
    <3> HIDE DEF T
    <3>1. QED
      BY <2>4, <2>5 DEF LeadsOn
<1>8. ASSUME key \notin Gone(c, a) PROVE f[m + 1] = key
  <2> DEFINE S == {n \in 0..(m + 1) : f[n] = key}
  <2>1. 0 \in S
    BY <1>1, <1>2
  <2>2. ASSUME NEW n \in 0..m, n \in S PROVE n + 1 \in S
    <3>1. f[n + 1] = Hop(c, a, key)
      BY <1>2, <2>2
    <3>2. QED
      BY <1>3, <1>5, <1>8, <3>1
  <2>3. 0..(m + 1) \subseteq S
    <3> DEFINE q == m + 1
    <3>1. q \in Nat /\ q - 1 = m
      BY <1>1
    <3> HIDE DEF S, q
    <3>2. 0..q \subseteq S
      BY <2>1, <2>2, <3>1, UpTo
    <3>3. QED
      BY <3>2 DEF q
  <2>4. QED
    BY <1>6, <2>3
<1>9. ASSUME key \in Gone(c, a) PROVE f[m + 1] \in Key /\ c[f[m + 1]] # <<>>
  <2> DEFINE On(k) == k \in Key /\ (c[k] # <<>> \/ k \in Gone(c, a))
             S == {n \in 0..(m + 1) : On(f[n])}
  <2>1. 0 \in S
    BY <1>1, <1>2, <1>4, <1>9
  <2>2. ASSUME NEW n \in 0..m, n \in S PROVE n + 1 \in S
    <3>1. f[n + 1] = Hop(c, a, f[n])
      BY <1>2
    <3>2. CASE f[n] \in Gone(c, a)
      <4>1. On(a[f[n]])
        BY <1>4, <3>2 DEF LeadsOn
      <4>2. QED
        BY <1>4, <1>5, <3>1, <3>2, <4>1
    <3>3. CASE f[n] \notin Gone(c, a)
      BY <1>3, <1>5, <2>2, <3>1, <3>3
    <3>4. QED
      BY <3>2, <3>3
  <2>3. 0..(m + 1) \subseteq S
    <3> DEFINE q == m + 1
    <3>1. q \in Nat /\ q - 1 = m
      BY <1>1
    <3> HIDE DEF S, q
    <3>2. 0..q \subseteq S
      BY <2>1, <2>2, <3>1, UpTo
    <3>3. QED
      BY <3>2 DEF q
  <2>4. On(f[m + 1])
    BY <1>6, <2>3
  <2>5. QED
    BY <1>7, <2>4
<1>10. QED
  BY <1>2, <1>6, <1>7, <1>8, <1>9

----------------------------------------------------------------------------
(* The chat store: SetPeers.                                                *)

\* Every chat holds its entries once and in order, its count is right, and no
\* entry is in two chats.
ChatsHold(c, u) ==
  /\ c \in [Key -> Items] /\ u \in [Key -> Nat]
  /\ \A k \in Key : Distinct(c[k]) /\ Ordered(c[k]) /\ u[k] = CountUnread(c[k])
  /\ \A k, q \in Key : k # q => EntriesOf(c[k]) \cap EntriesOf(c[q]) = {}

\* Entries filed under a name or an address belong there under the list.
GroupsHold(c, list) ==
  \A k \in Key : IsLegacy(k) =>
    \A e \in EntriesOf(c[k]) : Classify(e, list) = k

\* Aliases lead from names and addresses to chats.
AliasesHold(c, a) ==
  /\ a \in [Key -> Key \cup {NoKey}]
  /\ \A k \in Key : a[k] # NoKey => IsLegacy(k) /\ a[k] # k
  /\ LeadsOn(c, a)

\* The open chat is no emptied one, and has nothing unread.
OpenHolds(c, u, a, o) ==
  /\ o \in Key \cup {NoKey} /\ o \notin Gone(c, a)
  /\ o # NoKey => u[o] = 0

\* The entries of all chats.
Filed(c) == UNION {EntriesOf(c[k]) : k \in Key}

\* The states SetPeers goes through.
State == [chats : [Key -> Items], unread : [Key -> Nat],
          alias : [Key -> Key \cup {NoKey}], open : Key \cup {NoKey}]

\* The chats that receive entries.
AllTargets(list) == UNION {Targets(k, list) : k \in Sources(list)}

\* What a source keeps and what it sends.
LEMMA SourceFacts ==
  ASSUME ChatsHold(chats, unread), NEW list \in PeerLists, NEW k \in Key
  PROVE  /\ Kept(k, list) \in Items /\ Distinct(Kept(k, list))
         /\ Ordered(Kept(k, list))
         /\ Range(Kept(k, list)) \subseteq Range(chats[k])
         /\ EntriesOf(Kept(k, list)) =
              {e \in EntriesOf(chats[k]) : Classify(e, list) = k}
         /\ \A c \in Key :
              /\ Batch(k, c, list) \in Items /\ Distinct(Batch(k, c, list))
              /\ Ordered(Batch(k, c, list))
              /\ EntriesOf(Batch(k, c, list)) =
                   {e \in EntriesOf(chats[k]) : Classify(e, list) = c}
         /\ Targets(k, list) =
              {Classify(e, list) :
                 e \in {x \in EntriesOf(chats[k]) : Classify(x, list) # k}}
         /\ Moving(k, list) = <<>> <=>
              \A e \in EntriesOf(chats[k]) : Classify(e, list) = k
         /\ Moving(k, list) # <<>> => LastTo(k, list) \in Targets(k, list)
<1>1. /\ chats[k] \in Items /\ Distinct(chats[k]) /\ Ordered(chats[k])
      /\ EntriesOf(chats[k]) \subseteq Entry
  BY EntriesFacts DEF ChatsHold
<1>2. /\ Kept(k, list) \in Items /\ Distinct(Kept(k, list))
      /\ Ordered(Kept(k, list))
      /\ Range(Kept(k, list)) \subseteq Range(chats[k])
  BY <1>1, ThoseFacts DEF Kept
<1>3. EntriesOf(Kept(k, list)) =
        {e \in EntriesOf(chats[k]) : Classify(e, list) = k}
  BY <1>1, ThoseEntries DEF Kept, FiledUnder
<1>4. ASSUME NEW c \in Key
      PROVE  /\ Batch(k, c, list) \in Items /\ Distinct(Batch(k, c, list))
             /\ Ordered(Batch(k, c, list))
             /\ EntriesOf(Batch(k, c, list)) =
                  {e \in EntriesOf(chats[k]) : Classify(e, list) = c}
  BY <1>1, ThoseFacts, ThoseEntries DEF Batch, FiledUnder
<1> DEFINE mv == Moving(k, list)
<1>5. /\ mv \in Items
      /\ EntriesOf(mv) = {x \in EntriesOf(chats[k]) : Classify(x, list) # k}
  BY <1>1, ThoseFacts, ThoseEntries DEF Moving, FiledUnder
<1>6. mv = <<>> <=> EntriesOf(mv) = {}
  BY <1>5, EntriesFacts
<1>7. {Classify(x.e, list) : x \in Range(mv)} =
        {Classify(e, list) : e \in EntriesOf(mv)}
  <2>1. EntriesOf(mv) = {x.e : x \in Range(mv)}
    BY <1>5, EntriesFacts
  <2> HIDE DEF mv
  <2>2. QED
    BY <2>1
<1>8. ASSUME mv # <<>>
      PROVE  Classify(mv[Len(mv)].e, list) \in
               {Classify(x.e, list) : x \in Range(mv)}
  <2> HIDE DEF mv
  <2>1. Len(mv) \in DOMAIN mv
    BY <1>5, <1>8, LenProperties, EmptySeq DEF Items
  <2>2. mv[Len(mv)] \in Range(mv)
    BY <2>1 DEF Range
  <2>3. QED
    BY <2>2
<1>9. Targets(k, list) = {Classify(x.e, list) : x \in Range(mv)}
  BY DEF Targets
<1>10. LastTo(k, list) = Classify(mv[Len(mv)].e, list)
  BY DEF LastTo
<1> DEFINE out == {x \in EntriesOf(chats[k]) : Classify(x, list) # k}
<1>11. Targets(k, list) = {Classify(e, list) : e \in out}
  BY <1>5, <1>7, <1>9
<1>12. mv = <<>> <=> \A e \in EntriesOf(chats[k]) : Classify(e, list) = k
  BY <1>5, <1>6
<1>13. mv # <<>> => LastTo(k, list) \in Targets(k, list)
  BY <1>8, <1>9, <1>10
<1>14. QED
  <2> HIDE DEF mv
  <2>1. Moving(k, list) = mv
    BY DEF mv
  <2>2. QED
    BY <1>2, <1>3, <1>4, <1>11, <1>12, <1>13, <2>1

\* A source is filed under a name or an address, and sends to other chats.
LEMMA TargetFacts ==
  ASSUME ChatsHold(chats, unread), NEW list \in PeerLists,
         NEW k \in Sources(list)
  PROVE  /\ k \in Key /\ IsLegacy(k)
         /\ Targets(k, list) \subseteq Key \ {k}
         /\ LastTo(k, list) \in Targets(k, list)
         /\ \A c \in Targets(k, list) : EntriesOf(Batch(k, c, list)) # {}
<1>1. k \in Key /\ IsLegacy(k) /\ Moving(k, list) # <<>>
  BY DEF Sources
<1>2. EntriesOf(chats[k]) \subseteq Entry
  BY <1>1, EntriesFacts DEF ChatsHold
<1>3. Targets(k, list) =
        {Classify(e, list) :
           e \in {x \in EntriesOf(chats[k]) : Classify(x, list) # k}}
  BY <1>1, SourceFacts
<1>4. \A e \in Entry : Classify(e, list) \in Key
  BY ClassifyIn
<1>5. Targets(k, list) \subseteq Key \ {k}
  BY <1>2, <1>3, <1>4
<1>6. ASSUME NEW c \in Targets(k, list)
      PROVE  EntriesOf(Batch(k, c, list)) # {}
  <2>1. PICK e \in EntriesOf(chats[k]) : Classify(e, list) = c
    BY <1>3
  <2>2. EntriesOf(Batch(k, c, list)) =
          {x \in EntriesOf(chats[k]) : Classify(x, list) = c}
    BY <1>1, <1>5, SourceFacts
  <2>3. QED
    BY <2>1, <2>2
<1>7. LastTo(k, list) \in Targets(k, list)
  BY <1>1, SourceFacts
<1>8. QED
  BY <1>1, <1>5, <1>6, <1>7

\* The steps of the two phases lead from states to states.
LEMMA PhaseSteps ==
  ASSUME ChatsHold(chats, unread), NEW list \in PeerLists,
         NEW k \in Sources(list), NEW s \in State
  PROVE  Shrink(s, k, list) \in State /\ Merge(s, k, list) \in State
<1>1. /\ k \in Key /\ LastTo(k, list) \in Key
      /\ Targets(k, list) \subseteq Key
  BY TargetFacts
<1>2. /\ s.chats \in [Key -> Items] /\ s.unread \in [Key -> Nat]
      /\ s.alias \in [Key -> Key \cup {NoKey}] /\ s.open \in Key \cup {NoKey}
  BY DEF State
<1>3. Kept(k, list) \in Items /\ CountUnread(Kept(k, list)) \in Nat
  BY <1>1, SourceFacts, CountAll
<1>4. Shrink(s, k, list) \in State
  <2> DEFINE t == Shrink(s, k, list)
  <2>1. /\ t = [chats |-> t.chats, unread |-> t.unread, alias |-> t.alias,
                open |-> t.open]
        /\ t.chats = [s.chats EXCEPT ![k] = Kept(k, list)]
        /\ t.unread = [s.unread EXCEPT ![k] = CountUnread(Kept(k, list))]
        /\ t.alias \in {s.alias, [s.alias EXCEPT ![k] = LastTo(k, list)]}
        /\ t.open \in {s.open, LastTo(k, list)}
    BY DEF Shrink
  <2> HIDE DEF t
  <2>2. /\ t.chats \in [Key -> Items] /\ t.unread \in [Key -> Nat]
        /\ t.alias \in [Key -> Key \cup {NoKey}] /\ t.open \in Key \cup {NoKey}
    BY <1>1, <1>2, <1>3, <2>1
  <2>3. t \in State
    BY <2>1, <2>2 DEF State
  <2>4. QED
    BY <2>3 DEF t
<1>5. Merge(s, k, list) \in State
  <2> DEFINE M(c) == MergeByTime(s.chats[c], Batch(k, c, list))
             ch == [c \in Key |-> IF c \notin Targets(k, list) THEN s.chats[c]
                                  ELSE IF c = s.open THEN Read(M(c))
                                  ELSE M(c)]
             un == [c \in Key |-> IF c \notin Targets(k, list) THEN s.unread[c]
                                  ELSE UnreadAfter(s, c, Batch(k, c, list))]
             al == [c \in Key |-> IF c \notin Targets(k, list) THEN s.alias[c]
                                  ELSE NoKey]
  <2>1. ASSUME NEW c \in Key
        PROVE  M(c) \in Items /\ Read(M(c)) \in Items
    <3>1. s.chats[c] \in Items /\ Batch(k, c, list) \in Items
      BY <1>1, <1>2, SourceFacts
    <3>2. M(c) \in Items
      BY <3>1, MergeFacts
    <3> HIDE DEF M
    <3>3. QED
      BY <3>2, ReadFacts
  <2>2. ASSUME NEW c \in Key
        PROVE  UnreadAfter(s, c, Batch(k, c, list)) \in Nat
    <3>1. CountUnread(Batch(k, c, list)) \in Nat /\ s.unread[c] \in Nat
      BY <1>1, <1>2, SourceFacts, CountAll
    <3>2. QED
      BY <3>1 DEF UnreadAfter
  <2>3. ch \in [Key -> Items]
    <3> HIDE DEF M
    <3>1. QED
      BY <1>2, <2>1
  <2>4. un \in [Key -> Nat]
    BY <1>2, <2>2
  <2>5. al \in [Key -> Key \cup {NoKey}]
    BY <1>2
  <2>6. Merge(s, k, list) =
          [chats |-> ch, unread |-> un, alias |-> al, open |-> s.open]
    BY DEF Merge
  <2> HIDE DEF ch, un, al
  <2>7. QED
    BY <1>2, <2>3, <2>4, <2>5, <2>6 DEF State
<1>6. QED
  BY <1>4, <1>5

\* f is a fold over the sources that begins with a.
Phase1(f, list) ==
  /\ f[{}] = Whole
  /\ \A K \in SUBSET Sources(list) :
       K # {} => f[K] = Shrink(f[K \ {LastKey(K)}], LastKey(K), list)

\* The same of the second phase.
Phase2(f, list, a) ==
  /\ f[{}] = a
  /\ \A K \in SUBSET Sources(list) :
       K # {} => f[K] = Merge(f[K \ {LastKey(K)}], LastKey(K), list)

\* The sources are finitely many, and each set of them has a last one.
LEMMA SourcesFinite ==
  ASSUME NEW list
  PROVE  /\ IsFiniteSet(Sources(list))
         /\ \A K \in SUBSET Sources(list) : K # {} => LastKey(K) \in K
<1>1. Sources(list) \in SUBSET Key
  BY DEF Sources
<1>2. QED
  BY <1>1, KeysFinite, LastKeyIn, FS_Subset

\* The first phase of SetPeers.
LEMMA ShrunkLoop ==
  ASSUME ChatsHold(chats, unread), Whole \in State, NEW list \in PeerLists
  PROVE  \E f \in [SUBSET Sources(list) -> State] :
           Phase1(f, list) /\ Shrunk(list) = f[Sources(list)]
<1> DEFINE B == Sources(list)
           F(f) == f = [K \in SUBSET B |->
                          IF K = {} THEN Whole
                          ELSE Shrink(f[K \ {LastKey(K)}], LastKey(K), list)]
           G == [k \in B |-> [s \in State |-> Shrink(s, k, list)]]
           g == [K \in SUBSET B |-> LastKey(K)]
<1>1. IsFiniteSet(B) /\ \A K \in SUBSET B : K # {} => g[K] \in K
  BY SourcesFinite
<1>2. G \in Steps(B, State)
  <2> HIDE DEF B
  <2>1. \A k \in B : G[k] \in [State -> State]
    BY PhaseSteps DEF B
  <2>2. QED
    BY <2>1 DEF Steps
<1>3. PICK f \in [SUBSET B -> State] : Gathers(f, B, Whole, G, g)
  <2> HIDE DEF B, F, G, g
  <2>1. QED
    BY <1>1, <1>2, SetRecursion
<1>4. f[{}] = Whole
  <2> HIDE DEF B, F, G, g
  <2>1. QED
    BY <1>3 DEF Gathers
<1>5. ASSUME NEW K \in SUBSET B, K # {}
      PROVE  f[K] = Shrink(f[K \ {LastKey(K)}], LastKey(K), list)
  <2>1. f[K] = G[g[K]][f[K \ {g[K]}]]
    <3> HIDE DEF B, F, G, g
    <3>1. QED
      BY <1>3, <1>5 DEF Gathers
  <2>2. g[K] = LastKey(K) /\ g[K] \in K
    BY <1>1, <1>5
  <2> HIDE DEF F, B, g
  <2>3. LastKey(K) \in B /\ f[K \ {LastKey(K)}] \in State
    BY <2>2
  <2>4. G[LastKey(K)] = [s \in State |-> Shrink(s, LastKey(K), list)]
    BY <2>3
  <2> HIDE DEF G
  <2>5. QED
    BY <2>1, <2>2, <2>3, <2>4
<1>6. F(f)
  <2> HIDE DEF B, G, g
  <2>1. \A K \in SUBSET B : f[K] =
          IF K = {} THEN Whole
          ELSE Shrink(f[K \ {LastKey(K)}], LastKey(K), list)
    BY <1>4, <1>5
  <2>2. f = [K \in SUBSET B |-> f[K]]
    OBVIOUS
  <2>3. QED
    BY <2>1, <2>2
<1> DEFINE h == CHOOSE x : F(x)
<1>7. F(h)
  <2> HIDE DEF F
  <2>1. QED
    BY <1>6
<1>8. Shrunk(list) = h[B]
  BY DEF Shrunk
<1> HIDE DEF h, G, g
<1>9. Phase1(h, list)
  BY <1>7 DEF Phase1
<1>10. h \in [SUBSET B -> State]
  <2> DEFINE C == {K \in SUBSET B : h[K] \in State}
  <2>1. h[{}] = Whole
    BY <1>9 DEF Phase1
  <2>2. {} \in C
    BY <2>1
  <2>3. ASSUME NEW K \in SUBSET B, K # {}, \A x \in K : K \ {x} \in C
        PROVE  K \in C
    <3>1. LastKey(K) \in K
      BY <2>3, SourcesFinite
    <3>2. h[K \ {LastKey(K)}] \in State
      BY <2>3, <3>1
    <3>3. h[K] = Shrink(h[K \ {LastKey(K)}], LastKey(K), list)
      BY <1>9, <2>3 DEF Phase1
    <3>4. LastKey(K) \in Sources(list)
      BY <3>1
    <3>5. h[K] \in State
      BY <3>2, <3>3, <3>4, PhaseSteps
    <3>6. QED
      BY <3>5
  <2>4. \A K \in SUBSET B : K \in C
    <3> HIDE DEF C, B, F
    <3>1. QED
      BY <1>1, <2>2, <2>3, SetInduction
  <2>5. h = [K \in SUBSET B |-> h[K]]
    <3>1. DOMAIN h = SUBSET B
      BY <1>7
    <3>2. h = [K \in DOMAIN h |-> h[K]]
      BY <1>7
    <3> HIDE DEF F, B
    <3>3. QED
      BY <3>1, <3>2
  <2> HIDE DEF B, F
  <2>6. QED
    BY <2>4, <2>5
<1>11. QED
  BY <1>8, <1>9, <1>10

\* The second phase.
LEMMA RegroupedLoop ==
  ASSUME ChatsHold(chats, unread), NEW list \in PeerLists,
         Shrunk(list) \in State
  PROVE  \E f \in [SUBSET Sources(list) -> State] :
           Phase2(f, list, Shrunk(list)) /\ Regrouped(list) = f[Sources(list)]
<1> DEFINE B == Sources(list)
           F(f) == f = [K \in SUBSET B |->
                          IF K = {} THEN Shrunk(list)
                          ELSE Merge(f[K \ {LastKey(K)}], LastKey(K), list)]
           G == [k \in B |-> [s \in State |-> Merge(s, k, list)]]
           g == [K \in SUBSET B |-> LastKey(K)]
<1>1. IsFiniteSet(B) /\ \A K \in SUBSET B : K # {} => g[K] \in K
  BY SourcesFinite
<1>2. G \in Steps(B, State)
  <2> HIDE DEF B
  <2>1. \A k \in B : G[k] \in [State -> State]
    BY PhaseSteps DEF B
  <2>2. QED
    BY <2>1 DEF Steps
<1>3. PICK f \in [SUBSET B -> State] : Gathers(f, B, Shrunk(list), G, g)
  <2> HIDE DEF B, F, G, g
  <2>1. QED
    BY <1>1, <1>2, SetRecursion
<1>4. f[{}] = Shrunk(list)
  <2> HIDE DEF B, F, G, g
  <2>1. QED
    BY <1>3 DEF Gathers
<1>5. ASSUME NEW K \in SUBSET B, K # {}
      PROVE  f[K] = Merge(f[K \ {LastKey(K)}], LastKey(K), list)
  <2>1. f[K] = G[g[K]][f[K \ {g[K]}]]
    <3> HIDE DEF B, F, G, g
    <3>1. QED
      BY <1>3, <1>5 DEF Gathers
  <2>2. g[K] = LastKey(K) /\ g[K] \in K
    BY <1>1, <1>5
  <2> HIDE DEF F, B, g
  <2>3. LastKey(K) \in B /\ f[K \ {LastKey(K)}] \in State
    BY <2>2
  <2>4. G[LastKey(K)] = [s \in State |-> Merge(s, LastKey(K), list)]
    BY <2>3
  <2> HIDE DEF G
  <2>5. QED
    BY <2>1, <2>2, <2>3, <2>4
<1>6. F(f)
  <2> HIDE DEF B, G, g
  <2>1. \A K \in SUBSET B : f[K] =
          IF K = {} THEN Shrunk(list)
          ELSE Merge(f[K \ {LastKey(K)}], LastKey(K), list)
    BY <1>4, <1>5
  <2>2. f = [K \in SUBSET B |-> f[K]]
    OBVIOUS
  <2>3. QED
    BY <2>1, <2>2
<1> DEFINE h == CHOOSE x : F(x)
<1>7. F(h)
  <2> HIDE DEF F
  <2>1. QED
    BY <1>6
<1>8. Regrouped(list) = h[B]
  BY DEF Regrouped
<1> HIDE DEF h, G, g
<1>9. Phase2(h, list, Shrunk(list))
  BY <1>7 DEF Phase2
<1>10. h \in [SUBSET B -> State]
  <2> DEFINE C == {K \in SUBSET B : h[K] \in State}
  <2>1. h[{}] = Shrunk(list)
    BY <1>9 DEF Phase2
  <2>2. {} \in C
    BY <2>1
  <2>3. ASSUME NEW K \in SUBSET B, K # {}, \A x \in K : K \ {x} \in C
        PROVE  K \in C
    <3>1. LastKey(K) \in K
      BY <2>3, SourcesFinite
    <3>2. h[K \ {LastKey(K)}] \in State
      BY <2>3, <3>1
    <3>3. h[K] = Merge(h[K \ {LastKey(K)}], LastKey(K), list)
      BY <1>9, <2>3 DEF Phase2
    <3>4. LastKey(K) \in Sources(list)
      BY <3>1
    <3>5. h[K] \in State
      BY <3>2, <3>3, <3>4, PhaseSteps
    <3>6. QED
      BY <3>5
  <2>4. \A K \in SUBSET B : K \in C
    <3> HIDE DEF C, B, F
    <3>1. QED
      BY <1>1, <2>2, <2>3, SetInduction
  <2>5. h = [K \in SUBSET B |-> h[K]]
    <3>1. DOMAIN h = SUBSET B
      BY <1>7
    <3>2. h = [K \in DOMAIN h |-> h[K]]
      BY <1>7
    <3> HIDE DEF F, B
    <3>3. QED
      BY <3>1, <3>2
  <2> HIDE DEF B, F
  <2>6. QED
    BY <2>4, <2>5
<1>11. QED
  BY <1>8, <1>9, <1>10

\* After the sources in K have shrunk.
ShrunkTo(s, K, list) ==
  /\ \A k \in Key :
       /\ s.chats[k] = IF k \in K THEN Kept(k, list) ELSE chats[k]
       /\ s.unread[k] =
            IF k \in K THEN CountUnread(Kept(k, list)) ELSE unread[k]
       /\ s.alias[k] = IF k \in K /\ Kept(k, list) = <<>> THEN LastTo(k, list)
                       ELSE alias[k]
  /\ \/ s.open = open /\ (open \in K => Kept(open, list) # <<>>)
     \/ s.open \in AllTargets(list)

\* What the sources in K have sent to a chat.
Sent(K, c, list) ==
  {e \in UNION {EntriesOf(chats[k]) : k \in K \ {c}} : Classify(e, list) = c}

\* After the batches of the sources in K have been merged.
MergedTo(s, K, list, s1) ==
  /\ s.open = s1.open
  /\ \A c \in Key :
       /\ EntriesOf(s.chats[c]) = EntriesOf(s1.chats[c]) \cup Sent(K, c, list)
       /\ Distinct(s.chats[c]) /\ Ordered(s.chats[c])
       /\ s.unread[c] = CountUnread(s.chats[c])
       /\ s.alias[c] = IF \E k \in K : c \in Targets(k, list) THEN NoKey
                       ELSE s1.alias[c]
  /\ s.open # NoKey /\ s.unread[s.open] # 0 =>
       s.open \in AllTargets(list)
         /\ \A k \in K : s.open \notin Targets(k, list)

\* A source more has shrunk.
LEMMA ShrinkStep ==
  ASSUME ChatsHold(chats, unread), NEW list \in PeerLists, NEW s \in State,
         NEW K \in SUBSET Sources(list), NEW k \in Sources(list), k \notin K,
         ShrunkTo(s, K, list)
  PROVE  ShrunkTo(Shrink(s, k, list), K \cup {k}, list)
<1> DEFINE t == Shrink(s, k, list)
           gone == Kept(k, list) = <<>>
<1>1. k \in Key /\ LastTo(k, list) \in Targets(k, list)
  BY TargetFacts
<1>2. /\ s.chats \in [Key -> Items] /\ s.unread \in [Key -> Nat]
      /\ s.alias \in [Key -> Key \cup {NoKey}]
  BY DEF State
<1>3. /\ t.chats = [s.chats EXCEPT ![k] = Kept(k, list)]
      /\ t.unread = [s.unread EXCEPT ![k] = CountUnread(Kept(k, list))]
      /\ t.alias = IF gone THEN [s.alias EXCEPT ![k] = LastTo(k, list)]
                   ELSE s.alias
      /\ t.open = IF gone /\ s.open = k THEN LastTo(k, list) ELSE s.open
  BY DEF Shrink
<1> HIDE DEF t
<1>4. ASSUME NEW c \in Key
      PROVE  /\ t.chats[c] =
                  IF c \in K \cup {k} THEN Kept(c, list) ELSE chats[c]
             /\ t.unread[c] = IF c \in K \cup {k}
                              THEN CountUnread(Kept(c, list))
                              ELSE unread[c]
             /\ t.alias[c] = IF c \in K \cup {k} /\ Kept(c, list) = <<>>
                             THEN LastTo(c, list) ELSE alias[c]
  <2>1. CASE c = k
    BY <1>1, <1>2, <1>3, <2>1 DEF ShrunkTo
  <2>2. CASE c # k
    <3>1. t.chats[c] = s.chats[c] /\ t.unread[c] = s.unread[c]
          /\ t.alias[c] = s.alias[c]
      BY <1>2, <1>3, <2>2
    <3>2. c \in K \cup {k} <=> c \in K
      BY <2>2
    <3>3. QED
      BY <3>1, <3>2 DEF ShrunkTo
  <2>3. QED
    BY <2>1, <2>2
<1>5. \/ t.open = open /\ (open \in K \cup {k} => Kept(open, list) # <<>>)
      \/ t.open \in AllTargets(list)
  <2>1. LastTo(k, list) \in AllTargets(list)
    BY <1>1 DEF AllTargets
  <2>2. \/ s.open = open /\ (open \in K => Kept(open, list) # <<>>)
        \/ s.open \in AllTargets(list)
    BY DEF ShrunkTo
  <2>3. QED
    BY <1>3, <2>1, <2>2
<1>6. ShrunkTo(t, K \cup {k}, list)
  BY <1>4, <1>5 DEF ShrunkTo
<1>7. QED
  BY <1>6 DEF t

\* All have shrunk.
LEMMA ShrunkAll ==
  ASSUME ChatsHold(chats, unread), Whole \in State, NEW list \in PeerLists
  PROVE  Shrunk(list) \in State /\ ShrunkTo(Shrunk(list), Sources(list), list)
<1> DEFINE B == Sources(list)
<1>1. PICK f \in [SUBSET B -> State] :
        Phase1(f, list) /\ Shrunk(list) = f[B]
  BY ShrunkLoop
<1> DEFINE C == {K \in SUBSET B : ShrunkTo(f[K], K, list)}
<1>2. {} \in C
  <2>1. f[{}] = Whole
    BY <1>1 DEF Phase1
  <2>2. ShrunkTo(Whole, {}, list)
    BY DEF ShrunkTo, Whole
  <2>3. QED
    BY <2>1, <2>2
<1>3. ASSUME NEW K \in SUBSET B, K # {}, \A x \in K : K \ {x} \in C
      PROVE  K \in C
  <2> DEFINE k == LastKey(K)
             L == K \ {k}
  <2>1. k \in K /\ k \in Sources(list) /\ L \in SUBSET B /\ k \notin L
        /\ K = L \cup {k}
    BY <1>3, SourcesFinite
  <2>2. ShrunkTo(f[L], L, list) /\ f[L] \in State
    BY <1>1, <1>3, <2>1
  <2>3. f[K] = Shrink(f[L], k, list)
    BY <1>1, <1>3 DEF Phase1
  <2> HIDE DEF k, L
  <2>4. ShrunkTo(Shrink(f[L], k, list), L \cup {k}, list)
    BY <2>1, <2>2, ShrinkStep
  <2>5. QED
    BY <1>3, <2>1, <2>3, <2>4
<1>4. IsFiniteSet(B)
  BY SourcesFinite
<1>5. B \in C
  <2> HIDE DEF C
  <2>1. \A K \in SUBSET B : K \in C
    <3> HIDE DEF B
    <3>1. QED
      BY <1>2, <1>3, <1>4, SetInduction
  <2>2. QED
    BY <2>1
<1>6. QED
  BY <1>1, <1>5

\* The batches of a source more have been merged.
LEMMA MergeStep ==
  ASSUME ChatsHold(chats, unread), NEW list \in PeerLists, NEW s \in State,
         NEW K \in SUBSET Sources(list), NEW k \in Sources(list), k \notin K,
         NEW s1, ShrunkTo(s1, Sources(list), list),
         MergedTo(s, K, list, s1)
  PROVE  MergedTo(Merge(s, k, list), K \cup {k}, list, s1)
<1> DEFINE t == Merge(s, k, list)
           M(c) == MergeByTime(s.chats[c], Batch(k, c, list))
           To == Targets(k, list)
<1>1. k \in Key /\ To \subseteq Key \ {k}
  BY TargetFacts
<1>2. /\ s.chats \in [Key -> Items] /\ s.unread \in [Key -> Nat]
      /\ s.alias \in [Key -> Key \cup {NoKey}] /\ s.open \in Key \cup {NoKey}
  BY DEF State
<1>3. /\ t.open = s.open
      /\ \A c \in Key :
           /\ c \notin To => t.chats[c] = s.chats[c]
           /\ c \in To /\ c = s.open => t.chats[c] = Read(M(c))
           /\ c \in To /\ c # s.open => t.chats[c] = M(c)
           /\ c \notin To => t.unread[c] = s.unread[c]
           /\ c \in To => t.unread[c] = UnreadAfter(s, c, Batch(k, c, list))
           /\ t.alias[c] = IF c \notin To THEN s.alias[c] ELSE NoKey
  BY DEF Merge
<1> HIDE DEF t
<1>4. ASSUME NEW c \in Key
      PROVE  Sent(K \cup {k}, c, list) =
               IF c \in To THEN Sent(K, c, list)
                 \cup EntriesOf(Batch(k, c, list))
               ELSE Sent(K, c, list)
  <2>1. EntriesOf(Batch(k, c, list)) =
          {e \in EntriesOf(chats[k]) : Classify(e, list) = c}
    BY <1>1, SourceFacts
  <2>2. To = {Classify(e, list) :
                e \in {x \in EntriesOf(chats[k]) : Classify(x, list) # k}}
    BY <1>1, SourceFacts
  <2>3. CASE c \in To
    <3>1. c # k
      BY <1>1, <2>3
    <3>2. (K \cup {k}) \ {c} = (K \ {c}) \cup {k}
      BY <3>1
    <3> HIDE DEF To
    <3>3. QED
      BY <2>1, <2>3, <3>2 DEF Sent
  <2>4. CASE c \notin To
    <3>1. c = k \/ \A e \in EntriesOf(chats[k]) : Classify(e, list) # c
      BY <2>2, <2>4
    <3> HIDE DEF To
    <3>2. CASE c = k
      <4>1. (K \cup {k}) \ {c} = K \ {c}
        BY <3>2
      <4>2. QED
        BY <2>4, <4>1 DEF Sent
    <3>3. CASE c # k /\ \A e \in EntriesOf(chats[k]) : Classify(e, list) # c
      <4>1. (K \cup {k}) \ {c} = (K \ {c}) \cup {k}
        BY <3>3
      <4>2. QED
        BY <2>4, <3>3, <4>1 DEF Sent
    <3>4. QED
      BY <3>1, <3>2, <3>3
  <2>5. QED
    BY <2>3, <2>4
<1>5. ASSUME NEW c \in To
      PROVE  /\ M(c) \in Items
             /\ EntriesOf(M(c)) =
                  EntriesOf(s.chats[c]) \cup EntriesOf(Batch(k, c, list))
             /\ Distinct(M(c)) /\ Ordered(M(c))
             /\ CountUnread(M(c)) =
                  s.unread[c] + CountUnread(Batch(k, c, list))
  <2>1. c \in Key /\ c # k
    BY <1>1
  <2> DEFINE d == s.chats[c]
             a == Batch(k, c, list)
  <2>2. /\ d \in Items /\ Distinct(d) /\ Ordered(d)
        /\ s.unread[c] = CountUnread(d)
        /\ EntriesOf(d) = EntriesOf(s1.chats[c]) \cup Sent(K, c, list)
    BY <1>2, <2>1 DEF MergedTo
  <2>3. /\ a \in Items /\ Distinct(a) /\ Ordered(a)
        /\ EntriesOf(a) = {e \in EntriesOf(chats[k]) : Classify(e, list) = c}
    BY <1>1, <2>1, SourceFacts
  <2>4. Apart2(d, a)
    <3>1. \A q \in Key : q # k =>
            EntriesOf(chats[q]) \cap EntriesOf(chats[k]) = {}
      BY <1>1 DEF ChatsHold
    <3>2. EntriesOf(s1.chats[c]) \subseteq EntriesOf(chats[c])
      <4>1. EntriesOf(Kept(c, list)) \subseteq EntriesOf(chats[c])
        BY <2>1, SourceFacts
      <4>2. s1.chats[c] \in {Kept(c, list), chats[c]}
        BY <2>1 DEF ShrunkTo
      <4>3. QED
        BY <4>1, <4>2
    <3>3. \A q \in K : q \in Key /\ q # k
      BY DEF Sources
    <3>4. EntriesOf(s1.chats[c]) \cap EntriesOf(chats[k]) = {}
      BY <2>1, <3>1, <3>2
    <3>5. Sent(K, c, list) \cap EntriesOf(chats[k]) = {}
      BY <3>1, <3>3 DEF Sent
    <3> HIDE DEF d, a
    <3>6. QED
      BY <2>2, <2>3, <3>4, <3>5 DEF Apart2
  <2> HIDE DEF d, a
  <2> DEFINE m == MergeByTime(d, a)
  <2>5. /\ m \in Items /\ Range(m) = Range(d) \cup Range(a)
        /\ CountUnread(m) = CountUnread(d) + CountUnread(a)
        /\ Distinct(m) /\ Ordered(m)
    BY <2>2, <2>3, <2>4, MergeFacts
  <2>6. EntriesOf(m) = EntriesOf(d) \cup EntriesOf(a)
    <3> HIDE DEF m
    <3>1. /\ EntriesOf(m) = {x.e : x \in Range(m)}
          /\ EntriesOf(d) = {x.e : x \in Range(d)}
          /\ EntriesOf(a) = {x.e : x \in Range(a)}
      BY <2>2, <2>3, <2>5, EntriesFacts
    <3>2. QED
      BY <2>5, <3>1
  <2>7. QED
    BY <2>2, <2>5, <2>6 DEF d, a
<1> HIDE DEF M
<1>6. ASSUME NEW c \in Key
      PROVE  /\ EntriesOf(t.chats[c]) =
                  EntriesOf(s1.chats[c]) \cup Sent(K \cup {k}, c, list)
             /\ Distinct(t.chats[c]) /\ Ordered(t.chats[c])
             /\ t.unread[c] = CountUnread(t.chats[c])
             /\ t.alias[c] = IF \E q \in K \cup {k} : c \in Targets(q, list)
                             THEN NoKey ELSE s1.alias[c]
             /\ c \in To /\ c = s.open => t.unread[c] = 0
  <2>1. /\ EntriesOf(s.chats[c]) = EntriesOf(s1.chats[c]) \cup Sent(K, c, list)
        /\ Distinct(s.chats[c]) /\ Ordered(s.chats[c])
        /\ s.unread[c] = CountUnread(s.chats[c])
        /\ s.alias[c] = IF \E q \in K : c \in Targets(q, list) THEN NoKey
                        ELSE s1.alias[c]
    BY DEF MergedTo
  <2>2. t.alias[c] = IF \E q \in K \cup {k} : c \in Targets(q, list)
                     THEN NoKey ELSE s1.alias[c]
    BY <1>3, <2>1
  <2>3. CASE c \notin To
    <3>1. t.chats[c] = s.chats[c] /\ t.unread[c] = s.unread[c]
      BY <1>3, <2>3
    <3>2. QED
      BY <1>4, <2>1, <2>2, <2>3, <3>1
  <2>4. CASE c \in To /\ c = s.open
    <3>1. t.chats[c] = Read(M(c)) /\ t.unread[c] = 0
      BY <1>3, <2>4 DEF UnreadAfter
    <3>2. /\ EntriesOf(t.chats[c]) = EntriesOf(M(c))
          /\ Distinct(t.chats[c]) /\ Ordered(t.chats[c])
          /\ CountUnread(t.chats[c]) = 0
      BY <1>5, <2>4, <3>1, ReadFacts
    <3>3. EntriesOf(t.chats[c]) =
            EntriesOf(s1.chats[c]) \cup Sent(K \cup {k}, c, list)
      BY <1>4, <1>5, <2>1, <2>4, <3>2
    <3>4. QED
      BY <2>2, <3>1, <3>2, <3>3
  <2>5. CASE c \in To /\ c # s.open
    <3>1. /\ t.chats[c] = M(c)
          /\ t.unread[c] = s.unread[c] + CountUnread(Batch(k, c, list))
      BY <1>3, <2>5 DEF UnreadAfter
    <3>2. EntriesOf(t.chats[c]) =
            EntriesOf(s1.chats[c]) \cup Sent(K \cup {k}, c, list)
      BY <1>4, <1>5, <2>1, <2>5, <3>1
    <3>3. /\ Distinct(t.chats[c]) /\ Ordered(t.chats[c])
          /\ t.unread[c] = CountUnread(t.chats[c])
      BY <1>5, <2>5, <3>1
    <3>4. QED
      BY <2>2, <2>5, <3>2, <3>3
  <2>6. QED
    BY <2>3, <2>4, <2>5
<1>7. t.open # NoKey /\ t.unread[t.open] # 0 =>
        /\ t.open \in AllTargets(list)
        /\ \A q \in K \cup {k} : t.open \notin Targets(q, list)
  <2> SUFFICES ASSUME t.open # NoKey, t.unread[t.open] # 0
               PROVE  /\ t.open \in AllTargets(list)
                      /\ \A q \in K \cup {k} : t.open \notin Targets(q, list)
    OBVIOUS
  <2>1. t.open = s.open /\ s.open \in Key /\ s.open # NoKey
    BY <1>2, <1>3
  <2>2. s.open \notin To
    BY <1>6, <2>1
  <2>3. t.unread[s.open] = s.unread[s.open]
    BY <1>3, <2>1, <2>2
  <2>4. s.open \in AllTargets(list)
          /\ \A q \in K : s.open \notin Targets(q, list)
    BY <2>1, <2>3 DEF MergedTo
  <2>5. QED
    BY <2>1, <2>2, <2>4
<1>8. t.open = s1.open
  BY <1>3 DEF MergedTo
<1> HIDE DEF To
<1>9. MergedTo(t, K \cup {k}, list, s1)
  BY <1>6, <1>7, <1>8 DEF MergedTo
<1>10. QED
  BY <1>9 DEF t

\* Nothing unread is kept of a chat that has nothing unread.
LEMMA KeptRead ==
  ASSUME ChatsHold(chats, unread), NEW list \in PeerLists, NEW k \in Key,
         unread[k] = 0
  PROVE  CountUnread(Kept(k, list)) = 0
<1>1. chats[k] \in Items /\ CountUnread(chats[k]) = 0
  BY DEF ChatsHold
<1>2. \A i \in DOMAIN chats[k] : ~chats[k][i].unread
  BY <1>1, NoneUnread
<1>3. \A x \in Range(chats[k]) : ~x.unread
  BY <1>2 DEF Range
<1>4. Kept(k, list) \in Items /\ Range(Kept(k, list)) \subseteq Range(chats[k])
  BY SourceFacts
<1>5. \A i \in DOMAIN Kept(k, list) : Kept(k, list)[i] \in Range(Kept(k, list))
  BY DEF Range
<1>6. \A i \in DOMAIN Kept(k, list) : ~Kept(k, list)[i].unread
  BY <1>3, <1>4, <1>5
<1>7. QED
  BY <1>4, <1>6, NoneUnread

\* The second phase begins with what the first one leaves.
LEMMA MergeFirst ==
  ASSUME ChatsHold(chats, unread), OpenHolds(chats, unread, alias, open),
         NEW list \in PeerLists, NEW s \in State,
         ShrunkTo(s, Sources(list), list)
  PROVE  MergedTo(s, {}, list, s)
<1>1. ASSUME NEW c \in Key
      PROVE  /\ EntriesOf(s.chats[c]) = EntriesOf(s.chats[c])
                  \cup Sent({}, c, list)
             /\ Distinct(s.chats[c]) /\ Ordered(s.chats[c])
             /\ s.unread[c] = CountUnread(s.chats[c])
  <2>1. Sent({}, c, list) = {}
    BY DEF Sent
  <2>2. CASE c \in Sources(list)
    <3>1. s.chats[c] = Kept(c, list)
            /\ s.unread[c] = CountUnread(Kept(c, list))
      BY <2>2 DEF ShrunkTo
    <3>2. Distinct(Kept(c, list)) /\ Ordered(Kept(c, list))
      BY SourceFacts
    <3>3. QED
      BY <2>1, <3>1, <3>2
  <2>3. CASE c \notin Sources(list)
    <3>1. s.chats[c] = chats[c] /\ s.unread[c] = unread[c]
      BY <2>3 DEF ShrunkTo
    <3>2. /\ Distinct(chats[c]) /\ Ordered(chats[c])
          /\ unread[c] = CountUnread(chats[c])
      BY DEF ChatsHold
    <3>3. QED
      BY <2>1, <3>1, <3>2
  <2>4. QED
    BY <2>2, <2>3
<1>2. s.open # NoKey /\ s.unread[s.open] # 0 => s.open \in AllTargets(list)
  <2> SUFFICES ASSUME s.open = open, s.open # NoKey
               PROVE  s.unread[s.open] = 0
    BY DEF ShrunkTo
  <2>1. open \in Key /\ unread[open] = 0
    BY DEF OpenHolds
  <2>2. CASE open \in Sources(list)
    <3>1. s.unread[open] = CountUnread(Kept(open, list))
      BY <2>1, <2>2 DEF ShrunkTo
    <3>2. QED
      BY <2>1, <3>1, KeptRead
  <2>3. CASE open \notin Sources(list)
    BY <2>1, <2>3 DEF ShrunkTo
  <2>4. QED
    BY <2>2, <2>3
<1>3. QED
  BY <1>1, <1>2 DEF MergedTo

\* SetPeers, before it resolves the open chat.
LEMMA RegroupedAll ==
  ASSUME ChatsHold(chats, unread), OpenHolds(chats, unread, alias, open),
         Whole \in State, NEW list \in PeerLists
  PROVE  /\ Regrouped(list) \in State
         /\ Shrunk(list) \in State
         /\ ShrunkTo(Shrunk(list), Sources(list), list)
         /\ MergedTo(Regrouped(list), Sources(list), list, Shrunk(list))
<1> DEFINE B == Sources(list)
           s1 == Shrunk(list)
<1>1. s1 \in State /\ ShrunkTo(s1, B, list)
  BY ShrunkAll
<1>2. PICK f \in [SUBSET B -> State] :
        Phase2(f, list, s1) /\ Regrouped(list) = f[B]
  BY <1>1, RegroupedLoop
<1> DEFINE C == {K \in SUBSET B : MergedTo(f[K], K, list, s1)}
<1>3. {} \in C
  <2>1. f[{}] = s1
    BY <1>2 DEF Phase2
  <2>2. MergedTo(s1, {}, list, s1)
    <3> HIDE DEF s1
    <3>1. QED
      BY <1>1, MergeFirst
  <2> HIDE DEF s1, B
  <2>3. QED
    BY <2>1, <2>2
<1>4. ASSUME NEW K \in SUBSET B, K # {}, \A x \in K : K \ {x} \in C
      PROVE  K \in C
  <2> DEFINE k == LastKey(K)
             L == K \ {k}
  <2>1. k \in K /\ k \in Sources(list) /\ L \in SUBSET B /\ k \notin L
        /\ K = L \cup {k}
    BY <1>4, SourcesFinite
  <2>2. MergedTo(f[L], L, list, s1) /\ f[L] \in State
    BY <1>2, <1>4, <2>1
  <2>3. f[K] = Merge(f[L], k, list)
    BY <1>2, <1>4 DEF Phase2
  <2> HIDE DEF k, L, s1
  <2>4. MergedTo(Merge(f[L], k, list), L \cup {k}, list, s1)
    BY <1>1, <2>1, <2>2, MergeStep
  <2>5. QED
    BY <1>4, <2>1, <2>3, <2>4
<1>5. IsFiniteSet(B)
  BY SourcesFinite
<1>6. B \in C
  <2> HIDE DEF C
  <2>1. \A K \in SUBSET B : K \in C
    <3> HIDE DEF B, s1
    <3>1. QED
      BY <1>3, <1>4, <1>5, SetInduction
  <2>2. QED
    BY <2>1
<1>7. QED
  BY <1>1, <1>2, <1>6

\* Where SetPeers leaves an entry of a chat.
GoesTo(k, e, list) == IF IsLegacy(k) THEN Classify(e, list) ELSE k

\* The chats after SetPeers hold the entries of the chats before it, each
\* where it goes.
LEMMA PeersEntries ==
  ASSUME ChatsHold(chats, unread), NEW list \in PeerLists, NEW s, NEW s1,
         ShrunkTo(s1, Sources(list), list),
         MergedTo(s, Sources(list), list, s1), NEW c \in Key, NEW e
  PROVE  e \in EntriesOf(s.chats[c]) <=>
           \E k \in Key : e \in EntriesOf(chats[k]) /\ GoesTo(k, e, list) = c
<1>1. EntriesOf(s.chats[c]) = EntriesOf(s1.chats[c])
        \cup Sent(Sources(list), c, list)
  BY DEF MergedTo
<1>2. \A k \in Key : IsLegacy(k) /\ k \notin Sources(list) =>
                       \A x \in EntriesOf(chats[k]) : Classify(x, list) = k
  BY SourceFacts DEF Sources
<1>3. e \in EntriesOf(s1.chats[c]) <=>
        e \in EntriesOf(chats[c]) /\ GoesTo(c, e, list) = c
  <2>1. CASE c \in Sources(list)
    <3>1. s1.chats[c] = Kept(c, list) /\ IsLegacy(c)
      BY <2>1 DEF ShrunkTo, Sources
    <3>2. EntriesOf(Kept(c, list)) =
            {x \in EntriesOf(chats[c]) : Classify(x, list) = c}
      BY SourceFacts
    <3>3. QED
      BY <3>1, <3>2 DEF GoesTo
  <2>2. CASE c \notin Sources(list)
    <3>1. s1.chats[c] = chats[c]
      BY <2>2 DEF ShrunkTo
    <3>2. QED
      BY <1>2, <2>2, <3>1 DEF GoesTo
  <2>3. QED
    BY <2>1, <2>2
<1>4. e \in Sent(Sources(list), c, list) <=>
        \E k \in Key \ {c} : e \in EntriesOf(chats[k])
          /\ GoesTo(k, e, list) = c
  <2>1. e \in Sent(Sources(list), c, list) <=>
          \E k \in Sources(list) \ {c} :
            e \in EntriesOf(chats[k]) /\ Classify(e, list) = c
    BY DEF Sent
  <2>2. \A k \in Sources(list) : k \in Key /\ IsLegacy(k)
    BY DEF Sources
  <2>3. ASSUME NEW k \in Key \ {c}, e \in EntriesOf(chats[k]),
               GoesTo(k, e, list) = c
        PROVE  k \in Sources(list) /\ Classify(e, list) = c
    <3>1. IsLegacy(k) /\ Classify(e, list) = c
      BY <2>3 DEF GoesTo
    <3>2. QED
      BY <1>2, <2>3, <3>1
  <2>4. ASSUME NEW k \in Sources(list) \ {c}, e \in EntriesOf(chats[k]),
               Classify(e, list) = c
        PROVE  k \in Key \ {c} /\ GoesTo(k, e, list) = c
    BY <2>2, <2>4 DEF GoesTo
  <2>5. QED
    BY <2>1, <2>3, <2>4
<1>5. QED
  BY <1>1, <1>3, <1>4

\* So no entry is lost or doubled, and the entries of a chat that is filed
\* under a name or an address belong there under the new list.
LEMMA PeersChats ==
  ASSUME ChatsHold(chats, unread), NEW list \in PeerLists, NEW s \in State,
         NEW s1, ShrunkTo(s1, Sources(list), list),
         MergedTo(s, Sources(list), list, s1)
  PROVE  /\ ChatsHold(s.chats, s.unread) /\ GroupsHold(s.chats, list)
         /\ Filed(s.chats) = Filed(chats)
<1>1. \A c \in Key : \A e : e \in EntriesOf(s.chats[c]) <=>
        \E k \in Key : e \in EntriesOf(chats[k]) /\ GoesTo(k, e, list) = c
  BY PeersEntries
<1>2. \A c \in Key : /\ Distinct(s.chats[c]) /\ Ordered(s.chats[c])
                     /\ s.unread[c] = CountUnread(s.chats[c])
  BY DEF MergedTo
<1>3. s.chats \in [Key -> Items] /\ s.unread \in [Key -> Nat]
  BY DEF State
<1>4. \A k, q \in Key : k # q =>
        EntriesOf(chats[k]) \cap EntriesOf(chats[q]) = {}
  BY DEF ChatsHold
<1>5. ASSUME NEW c \in Key, NEW d \in Key, c # d
      PROVE  EntriesOf(s.chats[c]) \cap EntriesOf(s.chats[d]) = {}
  <2> SUFFICES ASSUME NEW e, e \in EntriesOf(s.chats[c]),
                      e \in EntriesOf(s.chats[d])
               PROVE  FALSE
    OBVIOUS
  <2>1. PICK k \in Key : e \in EntriesOf(chats[k]) /\ GoesTo(k, e, list) = c
    BY <1>1
  <2>2. PICK q \in Key : e \in EntriesOf(chats[q]) /\ GoesTo(q, e, list) = d
    BY <1>1
  <2>3. k = q
    BY <1>4, <2>1, <2>2
  <2>4. QED
    BY <1>5, <2>1, <2>2, <2>3
<1>6. ChatsHold(s.chats, s.unread)
  BY <1>2, <1>3, <1>5 DEF ChatsHold
<1>7. GroupsHold(s.chats, list)
  <2> SUFFICES ASSUME NEW c \in Key, IsLegacy(c),
                      NEW e \in EntriesOf(s.chats[c])
               PROVE  Classify(e, list) = c
    BY DEF GroupsHold
  <2>1. PICK k \in Key : e \in EntriesOf(chats[k]) /\ GoesTo(k, e, list) = c
    BY <1>1
  <2>2. QED
    BY <2>1 DEF GoesTo
<1>8. ASSUME NEW e, NEW k \in Key, e \in EntriesOf(chats[k])
      PROVE  GoesTo(k, e, list) \in Key
  <2>1. e \in Entry
    BY <1>8, EntriesFacts DEF ChatsHold
  <2>2. QED
    BY <2>1, ClassifyIn DEF GoesTo
<1>9. Filed(s.chats) = Filed(chats)
  <2>1. \A e : e \in Filed(s.chats) <=>
          \E c \in Key : e \in EntriesOf(s.chats[c])
    BY DEF Filed
  <2>2. \A e : e \in Filed(chats) <=> \E c \in Key : e \in EntriesOf(chats[c])
    BY DEF Filed
  <2>3. \A e : e \in Filed(s.chats) <=> e \in Filed(chats)
    BY <1>1, <1>8, <2>1, <2>2
  <2>4. QED
    BY <2>3
<1>10. QED
  BY <1>6, <1>7, <1>9

\* What SetPeers does to a chat and its alias.
LEMMA PeersAliasOf ==
  ASSUME ChatsHold(chats, unread), NEW list \in PeerLists, NEW s \in State,
         NEW s1 \in State, ShrunkTo(s1, Sources(list), list),
         MergedTo(s, Sources(list), list, s1), NEW c \in Key
  PROVE  /\ c \in AllTargets(list) => s.chats[c] # <<>> /\ s.alias[c] = NoKey
         /\ c \in Sources(list) /\ s.chats[c] = <<>> =>
              /\ s.alias[c] = LastTo(c, list) /\ LastTo(c, list) # c
              /\ LastTo(c, list) \in AllTargets(list) /\ IsLegacy(c)
         /\ c \in Sources(list) =>
              /\ s.alias[c] \in {NoKey, alias[c]}
                   \/ s.alias[c] = LastTo(c, list)
              /\ LastTo(c, list) # c /\ IsLegacy(c)
              /\ Kept(c, list) # <<>> => s.chats[c] # <<>>
         /\ c \notin Sources(list) /\ c \notin AllTargets(list) =>
              s.alias[c] = alias[c] /\ (s.chats[c] = <<>> <=> chats[c] = <<>>)
<1>1. /\ EntriesOf(s.chats[c]) =
           EntriesOf(s1.chats[c]) \cup Sent(Sources(list), c, list)
      /\ s.alias[c] = IF \E k \in Sources(list) : c \in Targets(k, list)
                      THEN NoKey ELSE s1.alias[c]
  BY DEF MergedTo
<1>2. /\ s1.chats[c] = IF c \in Sources(list) THEN Kept(c, list) ELSE chats[c]
      /\ s1.alias[c] = IF c \in Sources(list) /\ Kept(c, list) = <<>>
                       THEN LastTo(c, list) ELSE alias[c]
  BY DEF ShrunkTo
<1>3. s.chats[c] \in Items /\ s1.chats[c] \in Items
  BY DEF State
<1>4. /\ s.chats[c] = <<>> <=> EntriesOf(s.chats[c]) = {}
      /\ s1.chats[c] = <<>> <=> EntriesOf(s1.chats[c]) = {}
  BY <1>3, EntriesFacts
<1>5. c \in AllTargets(list) <=>
        \E k \in Sources(list) : c \in Targets(k, list)
  BY DEF AllTargets
<1>6. ASSUME c \in AllTargets(list) PROVE Sent(Sources(list), c, list) # {}
  <2>1. PICK k \in Sources(list) : c \in Targets(k, list)
    BY <1>5, <1>6
  <2>2. k \in Key /\ k # c /\ EntriesOf(Batch(k, c, list)) # {}
    BY <2>1, TargetFacts
  <2>3. EntriesOf(Batch(k, c, list)) =
          {e \in EntriesOf(chats[k]) : Classify(e, list) = c}
    BY <2>2, SourceFacts
  <2>4. PICK e \in EntriesOf(chats[k]) : Classify(e, list) = c
    BY <2>2, <2>3
  <2>5. e \in Sent(Sources(list), c, list)
    BY <2>2, <2>4 DEF Sent
  <2>6. QED
    BY <2>5
<1>7. ASSUME c \notin AllTargets(list) PROVE Sent(Sources(list), c, list) = {}
  <2> SUFFICES ASSUME NEW k \in Sources(list), k # c,
                      NEW e \in EntriesOf(chats[k]), Classify(e, list) = c
               PROVE  FALSE
    BY DEF Sent
  <2>1. k \in Key
    BY DEF Sources
  <2>2. Targets(k, list) =
          {Classify(x, list) :
             x \in {y \in EntriesOf(chats[k]) : Classify(y, list) # k}}
    BY <2>1, SourceFacts
  <2>3. c \in Targets(k, list)
    BY <2>2
  <2>4. QED
    BY <1>5, <1>7, <2>3
<1>8. c \in Sources(list) =>
        /\ IsLegacy(c) /\ LastTo(c, list) \in Targets(c, list)
        /\ LastTo(c, list) # c /\ LastTo(c, list) \in AllTargets(list)
  BY TargetFacts DEF AllTargets
<1>9. c \in AllTargets(list) => s.chats[c] # <<>> /\ s.alias[c] = NoKey
  BY <1>1, <1>4, <1>5, <1>6
<1>10. c \notin AllTargets(list) =>
         s.alias[c] = s1.alias[c] /\ (s.chats[c] = <<>> <=> s1.chats[c] = <<>>)
  BY <1>1, <1>4, <1>5, <1>7
<1>11. s.chats[c] = <<>> => s1.chats[c] = <<>>
  BY <1>1, <1>4
<1>12. QED
  BY <1>2, <1>8, <1>9, <1>10, <1>11

\* The aliases after SetPeers lead on.
LEMMA PeersAliases ==
  ASSUME ChatsHold(chats, unread), AliasesHold(chats, alias),
         NEW list \in PeerLists, NEW s \in State,
         NEW s1 \in State, ShrunkTo(s1, Sources(list), list),
         MergedTo(s, Sources(list), list, s1)
  PROVE  AliasesHold(s.chats, s.alias)
<1> DEFINE B == Sources(list)
           To == AllTargets(list)
<1>1. \A c \in Key :
        /\ c \in To => s.chats[c] # <<>> /\ s.alias[c] = NoKey
        /\ c \in B /\ s.chats[c] = <<>> =>
             /\ s.alias[c] = LastTo(c, list) /\ LastTo(c, list) # c
             /\ LastTo(c, list) \in To /\ IsLegacy(c)
        /\ c \in B =>
             /\ s.alias[c] \in {NoKey, alias[c]}
                  \/ s.alias[c] = LastTo(c, list)
             /\ LastTo(c, list) # c /\ IsLegacy(c)
        /\ c \notin B /\ c \notin To =>
             s.alias[c] = alias[c] /\ (s.chats[c] = <<>> <=> chats[c] = <<>>)
  BY PeersAliasOf
<1>2. /\ alias \in [Key -> Key \cup {NoKey}]
      /\ \A k \in Key : alias[k] # NoKey => IsLegacy(k) /\ alias[k] # k
      /\ \A k \in Gone(chats, alias) :
           chats[alias[k]] # <<>> \/ alias[k] \in Gone(chats, alias)
      /\ \A T \in SUBSET Gone(chats, alias) : T # {} =>
           \E k \in T : alias[k] \notin T
  BY DEF AliasesHold, LeadsOn
<1>3. s.alias \in [Key -> Key \cup {NoKey}]
  BY DEF State
<1>4. To \subseteq Key
  <2>1. \A k \in Sources(list) : Targets(k, list) \subseteq Key
    BY TargetFacts
  <2>2. QED
    BY <2>1 DEF AllTargets
<1> HIDE DEF B, To
<1>5. ASSUME NEW k \in Key, s.alias[k] # NoKey
      PROVE  IsLegacy(k) /\ s.alias[k] # k
  BY <1>1, <1>2, <1>5
<1>6. \A k \in Gone(s.chats, s.alias) \ B :
        k \in Gone(chats, alias) /\ s.alias[k] = alias[k]
  BY <1>1 DEF Gone
<1>7. \A k \in Gone(s.chats, s.alias) \cap B :
        s.alias[k] \in Key /\ s.chats[s.alias[k]] # <<>>
  BY <1>1, <1>4 DEF Gone
<1>8. ASSUME NEW k \in Gone(s.chats, s.alias)
      PROVE  s.chats[s.alias[k]] # <<>>
               \/ s.alias[k] \in Gone(s.chats, s.alias)
  <2>1. CASE k \in B
    BY <1>7, <2>1
  <2>2. CASE k \notin B
    <3> DEFINE m == alias[k]
    <3>1. k \in Gone(chats, alias) /\ s.alias[k] = m
      BY <1>6, <2>2
    <3>2. m \in Key /\ m # NoKey
      BY <1>2, <3>1, KeyShape DEF Gone
    <3>3. chats[m] # <<>> \/ (chats[m] = <<>> /\ alias[m] # NoKey)
      BY <1>2, <3>1 DEF Gone
    <3> HIDE DEF m
    <3>4. ASSUME s.chats[m] = <<>> PROVE s.alias[m] # NoKey
      <4>1. CASE m \in B
        <5>1. s.alias[m] \in Key
          BY <1>1, <1>4, <3>2, <3>4, <4>1
        <5>2. QED
          BY <5>1, KeyShape
      <4>2. CASE m \notin B
        BY <1>1, <3>2, <3>3, <3>4, <4>2
      <4>3. QED
        BY <4>1, <4>2
    <3>5. QED
      BY <3>1, <3>2, <3>4 DEF Gone
  <2>3. QED
    BY <2>1, <2>2
<1>9. ASSUME NEW T \in SUBSET Gone(s.chats, s.alias), T # {}
      PROVE  \E k \in T : s.alias[k] \notin T
  <2>1. CASE \E k \in T : k \in B
    <3>1. PICK k \in T : k \in B
      BY <2>1
    <3>2. s.chats[s.alias[k]] # <<>>
      BY <1>7, <3>1
    <3>3. QED
      BY <3>2 DEF Gone
  <2>2. CASE \A k \in T : k \notin B
    <3>1. T \in SUBSET Gone(chats, alias) /\ \A k \in T : s.alias[k] = alias[k]
      BY <1>6, <2>2
    <3>2. QED
      BY <1>2, <1>9, <3>1
  <2>3. QED
    BY <2>1, <2>2
<1>10. QED
  BY <1>3, <1>5, <1>8, <1>9 DEF AliasesHold, LeadsOn

\* The open chat is a chat, or was never one, and has nothing unread.
LEMMA PeersOpen ==
  ASSUME ChatsHold(chats, unread), OpenHolds(chats, unread, alias, open),
         NEW list \in PeerLists, NEW s \in State,
         NEW s1 \in State, ShrunkTo(s1, Sources(list), list),
         MergedTo(s, Sources(list), list, s1)
  PROVE  OpenHolds(s.chats, s.unread, s.alias, s.open)
<1>1. s.open = s1.open /\ s.open \in Key \cup {NoKey}
  BY DEF MergedTo, State
<1>2. s.open # NoKey => s.unread[s.open] = 0
  <2>1. s.open # NoKey /\ s.unread[s.open] # 0 =>
          /\ s.open \in AllTargets(list)
          /\ \A k \in Sources(list) : s.open \notin Targets(k, list)
    BY DEF MergedTo
  <2>2. QED
    BY <2>1 DEF AllTargets
<1>3. s.open \notin Gone(s.chats, s.alias)
  <2> SUFFICES ASSUME s.open \in Key, s.chats[s.open] = <<>>,
                      s.alias[s.open] # NoKey
               PROVE  FALSE
    BY DEF Gone
  <2>1. s.open \notin AllTargets(list)
    BY PeersAliasOf
  <2>2. open = s.open /\ (open \in Sources(list) => Kept(open, list) # <<>>)
    BY <1>1, <2>1 DEF ShrunkTo
  <2>3. open \notin Sources(list)
    BY <2>2, PeersAliasOf
  <2>4. chats[open] = <<>> /\ alias[open] # NoKey
    BY <2>1, <2>2, <2>3, PeersAliasOf
  <2>5. QED
    BY <2>2, <2>4 DEF OpenHolds, Gone
<1>4. QED
  BY <1>1, <1>2, <1>3 DEF OpenHolds

----------------------------------------------------------------------------
(* The chat store: its invariant.                                           *)

\* The first n entries to arrive.
First(n) == {Arrivals[i] : i \in 1..n}

\* The n entries that arrived are filed, and no others but the loaded ones.
ArrivedTo(n) ==
  /\ coming \in Seq(Entry) /\ Len(coming) = Len(Arrivals) - n
  /\ \A i \in 1..Len(coming) : coming[i] = Arrivals[n + i]
  /\ First(n) \subseteq Filed(chats)
  /\ Filed(chats) \subseteq First(n) \cup Range(Loadable)

\* The inductive invariant of the chat store.
StoreInv ==
  /\ peers \in PeerLists \cup {{}} /\ loaded \in BOOLEAN
  /\ ChatsHold(chats, unread) /\ GroupsHold(chats, peers)
  /\ AliasesHold(chats, alias) /\ OpenHolds(chats, unread, alias, open)
  /\ \E n \in 0..Len(Arrivals) : ArrivedTo(n)
  /\ ~loaded => /\ chats = [k \in Key |-> <<>>] /\ coming = Arrivals
                /\ alias = [k \in Key |-> NoKey]

\* Entries differ, and arrive after those of the file and in their order.
LEMMA ArrivalOrder ==
  /\ Loadable \in Seq(Entry) /\ Arrivals \in Seq(Entry)
  /\ \A i, j \in 1..Len(Loadable) :
       i < j =>
         Loadable[i] # Loadable[j] /\ Loadable[i].time <= Loadable[j].time
  /\ \A i \in 1..Len(Loadable), j \in 1..Len(Arrivals) :
       Loadable[i] # Arrivals[j] /\ Loadable[i].time <= Arrivals[j].time
  /\ \A i, j \in 1..Len(Arrivals) :
       i < j =>
         Arrivals[i] # Arrivals[j] /\ Arrivals[i].time <= Arrivals[j].time
<1> DEFINE all == Loadable \o Arrivals
           m == Len(Loadable)
           n == Len(Arrivals)
<1>1. /\ Loadable \in Seq(Entry) /\ Arrivals \in Seq(Entry)
      /\ \A i, j \in 1..Len(all) :
           i < j => all[i] # all[j] /\ all[i].time <= all[j].time
  BY EntriesInOrder
<1>2. /\ m \in Nat /\ n \in Nat /\ Len(all) = m + n
      /\ \A i \in 1..m : all[i] = Loadable[i]
      /\ \A j \in 1..n : all[m + j] = Arrivals[j]
  <2>1. /\ Len(all) = m + n /\ m \in Nat /\ n \in Nat
        /\ \A i \in 1..(m + n) :
             all[i] = IF i <= m THEN Loadable[i] ELSE Arrivals[i - m]
    BY <1>1, ConcatProperties, LenProperties
  <2> HIDE DEF all, m, n
  <2>2. \A i \in 1..m : all[i] = Loadable[i]
    BY <2>1
  <2>3. ASSUME NEW j \in 1..n PROVE all[m + j] = Arrivals[j]
    <3>1. m + j \in 1..(m + n) /\ ~(m + j <= m) /\ (m + j) - m = j
      BY <2>1
    <3>2. QED
      BY <2>1, <3>1
  <2>4. QED
    BY <2>1, <2>2, <2>3
<1> HIDE DEF all, m, n
<1>3. ASSUME NEW i \in 1..m, NEW j \in 1..m, i < j
      PROVE  Loadable[i] # Loadable[j] /\ Loadable[i].time <= Loadable[j].time
  <2>1. i \in 1..Len(all) /\ j \in 1..Len(all)
    BY <1>2
  <2>2. QED
    BY <1>1, <1>2, <1>3, <2>1
<1>4. ASSUME NEW i \in 1..m, NEW j \in 1..n
      PROVE  Loadable[i] # Arrivals[j] /\ Loadable[i].time <= Arrivals[j].time
  <2>1. i \in 1..Len(all) /\ m + j \in 1..Len(all) /\ i < m + j
    BY <1>2
  <2>2. QED
    BY <1>1, <1>2, <2>1
<1>5. ASSUME NEW i \in 1..n, NEW j \in 1..n, i < j
      PROVE  Arrivals[i] # Arrivals[j] /\ Arrivals[i].time <= Arrivals[j].time
  <2>1. m + i \in 1..Len(all) /\ m + j \in 1..Len(all) /\ m + i < m + j
    BY <1>2, <1>5
  <2>2. QED
    BY <1>1, <1>2, <2>1
<1>6. QED
  BY <1>1, <1>3, <1>4, <1>5 DEF m, n

\* The store begins empty.
LEMMA StoreStart == Init => StoreInv
<1> SUFFICES ASSUME Init PROVE StoreInv
  OBVIOUS
<1>1. /\ loaded = FALSE /\ coming = Arrivals /\ peers = {} /\ open = NoKey
      /\ chats = [k \in Key |-> <<>>] /\ unread = [k \in Key |-> 0]
      /\ alias = [k \in Key |-> NoKey]
  BY DEF Init
<1>2. \A k \in Key : chats[k] = <<>> /\ EntriesOf(chats[k]) = {}
  BY <1>1, EmptyFacts
<1>3. ChatsHold(chats, unread)
  BY <1>1, <1>2, EmptyFacts DEF ChatsHold
<1>4. GroupsHold(chats, peers)
  BY <1>2 DEF GroupsHold
<1>5. Gone(chats, alias) = {}
  BY <1>1 DEF Gone
<1>6. AliasesHold(chats, alias) /\ OpenHolds(chats, unread, alias, open)
  BY <1>1, <1>5, KeyShape DEF AliasesHold, LeadsOn, OpenHolds
<1>7. ArrivedTo(0)
  <2>1. Filed(chats) = {} /\ First(0) = {}
    BY <1>2 DEF Filed, First
  <2>2. Arrivals \in Seq(Entry) /\ Len(Arrivals) \in Nat
    BY ArrivalOrder, LenProperties
  <2>3. QED
    BY <1>1, <2>1, <2>2 DEF ArrivedTo
<1>8. 0 \in 0..Len(Arrivals)
  BY ArrivalOrder, LenProperties
<1>9. QED
  BY <1>1, <1>3, <1>4, <1>6, <1>7, <1>8 DEF StoreInv

\* Load files the entries of the file.
LEMMA LoadStep == StoreInv /\ Load => StoreInv'
<1> SUFFICES ASSUME StoreInv, Load PROVE StoreInv'
  OBVIOUS
<1>1. /\ ~loaded /\ loaded' = TRUE
      /\ coming' = coming /\ peers' = peers /\ unread' = unread
      /\ alias' = alias /\ open' = open
  BY DEF Load
<1>2. /\ chats = [k \in Key |-> <<>>] /\ coming = Arrivals
      /\ alias = [k \in Key |-> NoKey]
      /\ peers \in PeerLists \cup {{}} /\ ChatsHold(chats, unread)
      /\ OpenHolds(chats, unread, alias, open)
      /\ \E n \in 0..Len(Arrivals) : ArrivedTo(n)
  BY <1>1 DEF StoreInv
<1>3. PICK n \in 0..Len(Loadable) :
        chats' = [k \in Key |->
                    Those([i \in 1..n |-> Item(Loadable[i], FALSE)],
                          FiledUnder(k, peers))]
  BY DEF Load
<1> DEFINE items == [i \in 1..n |-> Item(Loadable[i], FALSE)]
<1>4. /\ items \in Items /\ Distinct(items) /\ Ordered(items)
      /\ EntriesOf(items) \subseteq Range(Loadable)
      /\ \A x \in Range(items) : ~x.unread
  <2>1. Len(Loadable) \in Nat /\ DOMAIN Loadable = 1..Len(Loadable)
        /\ \A i \in 1..Len(Loadable) : Loadable[i] \in Entry
    BY ArrivalOrder, LenProperties, ElementOfSeq
  <2>2. n \in Nat /\ \A i \in 1..n : i \in 1..Len(Loadable)
    BY <2>1
  <2>3. \A i \in 1..n : items[i] \in ItemSet
    BY <2>1, <2>2 DEF Item, ItemSet
  <2>4. items \in [1..n -> ItemSet]
    BY <2>3
  <2>5. items \in Items
    BY <2>2, <2>4, SeqDef DEF Items
  <2>6. DOMAIN items = 1..n /\ \A i \in 1..n : items[i].e = Loadable[i]
                                             /\ ~items[i].unread
    BY DEF Item
  <2> HIDE DEF items
  <2>7. EntriesOf(items) \subseteq Range(Loadable)
    BY <2>1, <2>2, <2>6 DEF EntriesOf, Range
  <2>8. \A x \in Range(items) : ~x.unread
    BY <2>6 DEF Range
  <2>9. Distinct(items)
    <3> SUFFICES ASSUME NEW i \in 1..n, NEW j \in 1..n,
                        Loadable[i] = Loadable[j]
                 PROVE  i = j
      BY <2>6 DEF Distinct
    <3>1. ~(i < j) /\ ~(j < i)
      BY <2>2, ArrivalOrder
    <3>2. QED
      BY <3>1
  <2>10. Ordered(items)
    <3> SUFFICES ASSUME NEW i \in 1..n, NEW j \in 1..n, i < j
                 PROVE  Loadable[i].time <= Loadable[j].time
      BY <2>6 DEF Ordered
    <3>1. QED
      BY <2>2, ArrivalOrder
  <2>11. QED
    BY <2>5, <2>7, <2>8, <2>9, <2>10
<1>5. \A k \in Key : chats'[k] = Those(items, FiledUnder(k, peers))
  BY <1>3
<1> HIDE DEF items
<1>6. ASSUME NEW k \in Key
      PROVE  /\ chats'[k] \in Items /\ Distinct(chats'[k])
             /\ Ordered(chats'[k])
             /\ EntriesOf(chats'[k]) =
                  EntriesOf(items) \cap FiledUnder(k, peers)
             /\ CountUnread(chats'[k]) = 0
  <2> DEFINE t == Those(items, FiledUnder(k, peers))
  <2>1. /\ t \in Items /\ Distinct(t) /\ Ordered(t)
        /\ Range(t) = {x \in Range(items) : x.e \in FiledUnder(k, peers)}
        /\ EntriesOf(t) = EntriesOf(items) \cap FiledUnder(k, peers)
    BY <1>4, ThoseFacts, ThoseEntries
  <2> HIDE DEF t
  <2>2. \A i \in DOMAIN t : ~t[i].unread
    <3>1. \A i \in DOMAIN t : t[i] \in Range(t)
      BY DEF Range
    <3>2. QED
      BY <1>4, <2>1, <3>1
  <2>3. CountUnread(t) = 0
    BY <2>1, <2>2, NoneUnread
  <2>4. QED
    BY <1>5, <2>1, <2>3 DEF t
<1>7. \A k \in Key : unread'[k] = 0
  <2>1. \A k \in Key : unread[k] = CountUnread(<<>>)
    BY <1>2 DEF ChatsHold
  <2>2. QED
    BY <1>1, <2>1, EmptyFacts
<1>8. ChatsHold(chats', unread')
  <2>1. chats' \in [Key -> Items]
    BY <1>3, <1>5, <1>6
  <2>2. unread' \in [Key -> Nat]
    BY <1>1, <1>2 DEF ChatsHold
  <2>3. \A k, q \in Key : k # q =>
          EntriesOf(chats'[k]) \cap EntriesOf(chats'[q]) = {}
    BY <1>6 DEF FiledUnder
  <2>4. QED
    BY <1>6, <1>7, <2>1, <2>2, <2>3 DEF ChatsHold
<1>9. GroupsHold(chats', peers')
  BY <1>1, <1>6 DEF GroupsHold, FiledUnder
<1>10. Gone(chats', alias') = {}
  BY <1>1, <1>2 DEF Gone
<1>11. AliasesHold(chats', alias') /\ OpenHolds(chats', unread', alias', open')
  BY <1>1, <1>2, <1>7, <1>10, KeyShape DEF AliasesHold, LeadsOn, OpenHolds
<1>12. 0 \in 0..Len(Arrivals) /\ ArrivedTo(0)'
  <2>1. First(0) = {} /\ Filed(chats') \subseteq Range(Loadable)
    BY <1>4, <1>6 DEF First, Filed
  <2>2. Arrivals \in Seq(Entry) /\ Len(Arrivals) \in Nat
    BY ArrivalOrder, LenProperties
  <2>3. QED
    BY <1>1, <1>2, <2>1, <2>2 DEF ArrivedTo, First
<1>13. QED
  BY <1>1, <1>2, <1>8, <1>9, <1>11, <1>12 DEF StoreInv

\* The next entry to come is in no chat, and no entry of a chat is later.
LEMMA NextIsNew ==
  ASSUME StoreInv, coming # <<>>
  PROVE  /\ Head(coming) \in Entry /\ Head(coming) \notin Filed(chats)
         /\ \A d \in Filed(chats) : d.time <= Head(coming).time
         /\ Tail(coming) \in Seq(Entry) /\ Len(Tail(coming)) = Len(coming) - 1
         /\ \A i \in 1..Len(Tail(coming)) : Tail(coming)[i] = coming[i + 1]
         /\ Head(coming) = coming[1] /\ Len(coming) \in Nat /\ Len(coming) > 0
<1>1. PICK n \in 0..Len(Arrivals) : ArrivedTo(n)
  BY DEF StoreInv
<1>2. coming \in Seq(Entry) /\ Len(coming) = Len(Arrivals) - n
      /\ \A i \in 1..Len(coming) : coming[i] = Arrivals[n + i]
      /\ Filed(chats) \subseteq First(n) \cup Range(Loadable)
  BY <1>1 DEF ArrivedTo
<1>3. Len(coming) \in Nat /\ Len(coming) > 0
  BY <1>2, EmptySeq, LenProperties
<1>4. /\ Head(coming) = coming[1] /\ Head(coming) \in Entry
      /\ Tail(coming) \in Seq(Entry) /\ Len(Tail(coming)) = Len(coming) - 1
      /\ \A i \in 1..Len(Tail(coming)) : Tail(coming)[i] = coming[i + 1]
  BY <1>2, HeadTailProperties
<1>5. Len(Arrivals) \in Nat /\ n + 1 \in 1..Len(Arrivals)
  BY <1>2, <1>3, ArrivalOrder, LenProperties
<1>6. Head(coming) = Arrivals[n + 1]
  BY <1>2, <1>3, <1>4
<1>7. ASSUME NEW d \in Filed(chats)
      PROVE  d # Head(coming) /\ d.time <= Head(coming).time
  <2>1. CASE d \in First(n)
    <3>1. PICK i \in 1..n : d = Arrivals[i]
      BY <2>1 DEF First
    <3>2. i \in 1..Len(Arrivals) /\ i < n + 1
      BY <1>5
    <3>3. QED
      BY <1>5, <1>6, <3>1, <3>2, ArrivalOrder
  <2>2. CASE d \in Range(Loadable)
    <3>1. PICK i \in DOMAIN Loadable : d = Loadable[i]
      BY <2>2 DEF Range
    <3>2. i \in 1..Len(Loadable)
      BY <3>1, ArrivalOrder, LenProperties
    <3>3. QED
      BY <1>5, <1>6, <3>1, <3>2, ArrivalOrder
  <2>3. QED
    BY <1>2, <2>1, <2>2
<1>8. QED
  BY <1>3, <1>4, <1>7

\* Fewer keys without a chat, and the same aliases.
LEMMA FewerGone ==
  ASSUME NEW c, NEW d, NEW a, AliasesHold(c, a),
         \A k \in Key : c[k] # <<>> => d[k] # <<>>
  PROVE  AliasesHold(d, a) /\ Gone(d, a) \subseteq Gone(c, a)
<1>1. Gone(d, a) \subseteq Gone(c, a)
  BY DEF Gone
<1>2. ASSUME NEW k \in Gone(d, a) PROVE d[a[k]] # <<>> \/ a[k] \in Gone(d, a)
  <2>1. k \in Key /\ a[k] \in Key
    BY KeyShape DEF AliasesHold, Gone
  <2>2. c[a[k]] # <<>> \/ a[k] \in Gone(c, a)
    BY <1>1 DEF AliasesHold, LeadsOn
  <2>3. QED
    BY <2>1, <2>2 DEF Gone
<1>3. \A T \in SUBSET Gone(d, a) : T # {} => \E k \in T : a[k] \notin T
  BY <1>1 DEF AliasesHold, LeadsOn
<1>4. QED
  BY <1>1, <1>2, <1>3 DEF AliasesHold, LeadsOn

\* Add puts the entry at the end of its chat.
LEMMA AddStep == StoreInv /\ Add => StoreInv'
<1> SUFFICES ASSUME StoreInv, Add PROVE StoreInv'
  OBVIOUS
<1> DEFINE e == Head(coming)
           k == Classify(e, peers)
           it == Item(e, e.in /\ k # open)
<1>1. /\ loaded /\ coming # <<>> /\ coming' = Tail(coming)
      /\ loaded' = loaded /\ peers' = peers /\ alias' = alias /\ open' = open
      /\ chats' = [chats EXCEPT ![k] = Append(@, it)]
      /\ unread' = [unread EXCEPT ![k] = @ + (IF it.unread THEN 1 ELSE 0)]
  BY DEF Add, Append1, Contents
<1>2. /\ e \in Entry /\ e \notin Filed(chats)
      /\ \A d \in Filed(chats) : d.time <= e.time
      /\ Tail(coming) \in Seq(Entry) /\ Len(Tail(coming)) = Len(coming) - 1
      /\ \A i \in 1..Len(Tail(coming)) : Tail(coming)[i] = coming[i + 1]
      /\ e = coming[1] /\ Len(coming) \in Nat /\ Len(coming) > 0
  BY <1>1, NextIsNew
<1>3. /\ peers \in PeerLists \cup {{}} /\ loaded \in BOOLEAN
      /\ ChatsHold(chats, unread) /\ GroupsHold(chats, peers)
      /\ AliasesHold(chats, alias) /\ OpenHolds(chats, unread, alias, open)
      /\ \E n \in 0..Len(Arrivals) : ArrivedTo(n)
  BY DEF StoreInv
<1>4. k \in Key
  BY <1>2, <1>3, ClassifyIn
<1>5. it \in ItemSet /\ it.e = e /\ (it.unread => k # open)
  <2>1. e.in \in BOOLEAN
    BY <1>2, FieldsAreNumbers
  <2>2. (e.in /\ k # open) \in BOOLEAN
    OBVIOUS
  <2> HIDE DEF e, k
  <2>3. QED
    BY <1>2, <2>2 DEF Item, ItemSet
<1>6. k = Classify(e, peers)
  OBVIOUS
<1> HIDE DEF e, k, it
<1>7. chats \in [Key -> Items] /\ unread \in [Key -> Nat]
  BY <1>3 DEF ChatsHold
<1> DEFINE t == Append(chats[k], it)
<1>8. /\ t \in Items /\ EntriesOf(t) = EntriesOf(chats[k]) \cup {e}
      /\ Distinct(t) /\ Ordered(t)
      /\ it.unread => CountUnread(t) = CountUnread(chats[k]) + 1
      /\ ~it.unread => CountUnread(t) = CountUnread(chats[k])
  <2>1. EntriesOf(chats[k]) \subseteq Filed(chats)
    BY <1>4 DEF Filed
  <2>2. chats[k] \in Items /\ Distinct(chats[k]) /\ Ordered(chats[k])
    BY <1>3, <1>4 DEF ChatsHold
  <2>3. QED
    BY <1>2, <1>5, <2>1, <2>2, AppendFacts
<1>9. /\ chats'[k] = t /\ \A c \in Key : c # k => chats'[c] = chats[c]
      /\ \A c \in Key : c # k => unread'[c] = unread[c]
      /\ unread'[k] = unread[k] + (IF it.unread THEN 1 ELSE 0)
  BY <1>1, <1>4, <1>7
<1>10. t # <<>>
  <2>1. e \in EntriesOf(t)
    BY <1>8
  <2> HIDE DEF t
  <2>2. QED
    BY <1>8, <2>1, EntriesFacts
<1> HIDE DEF t
<1>11. chats' \in [Key -> Items] /\ unread' \in [Key -> Nat]
  <2>1. chats' = [chats EXCEPT ![k] = t]
    BY <1>1 DEF t
  <2>2. unread[k] + (IF it.unread THEN 1 ELSE 0) \in Nat
    BY <1>4, <1>7
  <2>3. QED
    BY <1>1, <1>7, <1>8, <2>1, <2>2
<1>12. \A c \in Key : EntriesOf(chats'[c]) =
         IF c = k THEN EntriesOf(chats[c]) \cup {e} ELSE EntriesOf(chats[c])
  BY <1>8, <1>9
<1>13. \A c \in Key : e \notin EntriesOf(chats[c])
  BY <1>2 DEF Filed
<1>14. ChatsHold(chats', unread')
  <2>1. \A c, q \in Key : c # q =>
          EntriesOf(chats'[c]) \cap EntriesOf(chats'[q]) = {}
    BY <1>3, <1>12, <1>13 DEF ChatsHold
  <2>2. ASSUME NEW c \in Key
        PROVE  /\ Distinct(chats'[c]) /\ Ordered(chats'[c])
               /\ unread'[c] = CountUnread(chats'[c])
    <3>1. /\ Distinct(chats[c]) /\ Ordered(chats[c])
          /\ unread[c] = CountUnread(chats[c])
      BY <1>3 DEF ChatsHold
    <3>2. CASE c = k
      <4>1. unread[k] \in Nat
        BY <1>4, <1>7
      <4>2. QED
        BY <1>8, <1>9, <3>1, <3>2, <4>1
    <3>3. CASE c # k
      BY <1>9, <3>1, <3>3
    <3>4. QED
      BY <3>2, <3>3
  <2>3. QED
    BY <1>11, <2>1, <2>2 DEF ChatsHold
<1>15. GroupsHold(chats', peers')
  <2> SUFFICES ASSUME NEW c \in Key, IsLegacy(c),
                      NEW d \in EntriesOf(chats'[c])
               PROVE  Classify(d, peers) = c
    BY <1>1 DEF GroupsHold
  <2>1. d \in EntriesOf(chats[c]) \/ (c = k /\ d = e)
    BY <1>12
  <2>2. QED
    BY <1>3, <1>6, <2>1 DEF GroupsHold
<1>16. AliasesHold(chats', alias')
         /\ Gone(chats', alias') \subseteq Gone(chats, alias)
  <2>1. \A c \in Key : chats[c] # <<>> => chats'[c] # <<>>
    BY <1>9, <1>10
  <2>2. QED
    BY <1>1, <1>3, <2>1, FewerGone
<1>17. OpenHolds(chats', unread', alias', open')
  <2>1. /\ open \in Key \cup {NoKey} /\ open \notin Gone(chats, alias)
        /\ open # NoKey => unread[open] = 0
    BY <1>3 DEF OpenHolds
  <2>2. open # NoKey => unread'[open] = 0
    <3>1. CASE open = k
      BY <1>5, <1>9, <2>1, <3>1
    <3>2. CASE open # k
      BY <1>9, <2>1, <3>2
    <3>3. QED
      BY <3>1, <3>2
  <2>3. QED
    BY <1>1, <1>16, <2>1, <2>2 DEF OpenHolds
<1>18. \E n \in 0..Len(Arrivals) : ArrivedTo(n)'
  <2>1. PICK n \in 0..Len(Arrivals) : ArrivedTo(n)
    BY <1>3
  <2>2. /\ Len(coming) = Len(Arrivals) - n
        /\ \A i \in 1..Len(coming) : coming[i] = Arrivals[n + i]
        /\ First(n) \subseteq Filed(chats)
        /\ Filed(chats) \subseteq First(n) \cup Range(Loadable)
    BY <2>1 DEF ArrivedTo
  <2>3. Len(Arrivals) \in Nat
    BY ArrivalOrder, LenProperties
  <2>4. n + 1 \in 0..Len(Arrivals) /\ Len(coming') = Len(Arrivals) - (n + 1)
    BY <1>1, <1>2, <2>2, <2>3
  <2>5. \A i \in 1..Len(coming') : coming'[i] = Arrivals[(n + 1) + i]
    <3> SUFFICES ASSUME NEW i \in 1..Len(coming')
                 PROVE  coming'[i] = Arrivals[(n + 1) + i]
      OBVIOUS
    <3>1. i + 1 \in 1..Len(coming) /\ n + (i + 1) = (n + 1) + i
      BY <1>1, <1>2
    <3>2. coming'[i] = coming[i + 1]
      BY <1>1, <1>2
    <3>3. QED
      BY <2>2, <3>1, <3>2
  <2>6. First(n + 1) = First(n) \cup {e}
    <3>1. e = Arrivals[n + 1]
      BY <1>2, <2>2
    <3>2. 1..(n + 1) = (1..n) \cup {n + 1}
      OBVIOUS
    <3>3. QED
      BY <3>1, <3>2 DEF First
  <2>7. Filed(chats') = Filed(chats) \cup {e}
    BY <1>4, <1>12 DEF Filed
  <2>8. coming' \in Seq(Entry)
    BY <1>1, <1>2
  <2>9. First(n + 1) \subseteq Filed(chats')
        /\ Filed(chats') \subseteq First(n + 1) \cup Range(Loadable)
    BY <2>2, <2>6, <2>7
  <2>10. ArrivedTo(n + 1)'
    BY <2>4, <2>5, <2>8, <2>9 DEF ArrivedTo, First
  <2>11. QED
    BY <2>4, <2>10
<1>19. QED
  BY <1>1, <1>3, <1>14, <1>15, <1>16, <1>17, <1>18 DEF StoreInv

\* Open resolves a key to a chat and reads that chat.
LEMMA OpenStep ==
  ASSUME NEW asked \in Key \cup {NoKey}, StoreInv, Open(asked) PROVE StoreInv'
<1> DEFINE k == Resolve(asked)
<1>1. /\ open' = k
      /\ chats' = [c \in Key |-> IF c = k THEN Read(chats[c]) ELSE chats[c]]
      /\ unread' = [c \in Key |-> IF c = k THEN 0 ELSE unread[c]]
      /\ loaded' = loaded /\ coming' = coming /\ peers' = peers
      /\ alias' = alias
  BY DEF Open
<1>2. /\ peers \in PeerLists \cup {{}} /\ loaded \in BOOLEAN
      /\ ChatsHold(chats, unread) /\ GroupsHold(chats, peers)
      /\ AliasesHold(chats, alias) /\ OpenHolds(chats, unread, alias, open)
      /\ \E n \in 0..Len(Arrivals) : ArrivedTo(n)
      /\ ~loaded => /\ chats = [c \in Key |-> <<>>] /\ coming = Arrivals
                    /\ alias = [c \in Key |-> NoKey]
  BY DEF StoreInv
<1>3. k \in Key \cup {NoKey} /\ k \notin Gone(chats, alias)
  BY <1>2, ResolvedFacts DEF Resolve, AliasesHold
<1> HIDE DEF k
<1>4. ASSUME NEW c \in Key
      PROVE  /\ chats'[c] \in Items
             /\ EntriesOf(chats'[c]) = EntriesOf(chats[c])
             /\ Distinct(chats'[c]) /\ Ordered(chats'[c])
             /\ unread'[c] = CountUnread(chats'[c]) /\ unread'[c] \in Nat
             /\ chats'[c] = <<>> <=> chats[c] = <<>>
  <2>1. /\ chats[c] \in Items /\ Distinct(chats[c]) /\ Ordered(chats[c])
        /\ unread[c] = CountUnread(chats[c]) /\ unread[c] \in Nat
    BY <1>2 DEF ChatsHold
  <2>2. /\ Read(chats[c]) \in Items
        /\ EntriesOf(Read(chats[c])) = EntriesOf(chats[c])
        /\ Distinct(Read(chats[c])) /\ Ordered(Read(chats[c]))
        /\ CountUnread(Read(chats[c])) = 0
    BY <2>1, ReadFacts
  <2>3. Read(chats[c]) = <<>> <=> chats[c] = <<>>
    BY <2>1, <2>2, EntriesFacts
  <2>4. CASE c = k
    <3>1. chats'[c] = Read(chats[c]) /\ unread'[c] = 0
      BY <1>1, <2>4
    <3>2. QED
      BY <2>2, <2>3, <3>1
  <2>5. CASE c # k
    <3>1. chats'[c] = chats[c] /\ unread'[c] = unread[c]
      BY <1>1, <2>5
    <3>2. QED
      BY <2>1, <3>1
  <2>6. QED
    BY <2>4, <2>5
<1>5. ChatsHold(chats', unread')
  <2>1. chats' \in [Key -> Items] /\ unread' \in [Key -> Nat]
    BY <1>1, <1>4
  <2>2. \A c, q \in Key : c # q =>
          EntriesOf(chats'[c]) \cap EntriesOf(chats'[q]) = {}
    BY <1>2, <1>4 DEF ChatsHold
  <2>3. QED
    BY <1>4, <2>1, <2>2 DEF ChatsHold
<1>6. GroupsHold(chats', peers')
  BY <1>1, <1>2, <1>4 DEF GroupsHold
<1>7. AliasesHold(chats', alias')
        /\ Gone(chats', alias') \subseteq Gone(chats, alias)
  BY <1>1, <1>2, <1>4, FewerGone
<1>8. OpenHolds(chats', unread', alias', open')
  <2>1. open' # NoKey => unread'[open'] = 0
    BY <1>1, <1>3
  <2>2. QED
    BY <1>1, <1>3, <1>7, <2>1 DEF OpenHolds
<1>9. Filed(chats') = Filed(chats)
  BY <1>4 DEF Filed
<1>10. \E n \in 0..Len(Arrivals) : ArrivedTo(n)'
  BY <1>1, <1>2, <1>9 DEF ArrivedTo, First
<1>11. ~loaded' => /\ chats' = [c \in Key |-> <<>>] /\ coming' = Arrivals
                   /\ alias' = [c \in Key |-> NoKey]
  <2> SUFFICES ASSUME ~loaded' PROVE chats' = [c \in Key |-> <<>>]
    BY <1>1, <1>2
  <2>1. \A c \in Key : chats'[c] = <<>>
    BY <1>1, <1>2, <1>4
  <2>2. chats' = [c \in Key |-> chats'[c]]
    BY <1>1
  <2>3. QED
    BY <2>1, <2>2
<1>12. QED
  BY <1>1, <1>2, <1>5, <1>6, <1>7, <1>8, <1>10, <1>11 DEF StoreInv

\* SetPeers regroups the chats under a new list.
LEMMA SetPeersStep ==
  ASSUME NEW list \in PeerLists, StoreInv, SetPeers(list) PROVE StoreInv'
<1> DEFINE s == Regrouped(list)
           s1 == Shrunk(list)
<1>1. /\ loaded /\ peers' = list /\ loaded' = loaded /\ coming' = coming
      /\ chats' = s.chats /\ unread' = s.unread /\ alias' = s.alias
      /\ open' = Resolved(s.chats, s.alias, s.open)
  BY DEF SetPeers
<1>2. /\ ChatsHold(chats, unread) /\ AliasesHold(chats, alias)
      /\ OpenHolds(chats, unread, alias, open)
      /\ \E n \in 0..Len(Arrivals) : ArrivedTo(n)
      /\ loaded \in BOOLEAN
  BY DEF StoreInv
<1>3. Whole \in State
  <2>1. /\ chats \in [Key -> Items] /\ unread \in [Key -> Nat]
        /\ alias \in [Key -> Key \cup {NoKey}] /\ open \in Key \cup {NoKey}
    BY <1>2 DEF ChatsHold, AliasesHold, OpenHolds
  <2>2. QED
    BY <2>1 DEF Whole, State
<1>4. /\ s \in State /\ s1 \in State /\ ShrunkTo(s1, Sources(list), list)
      /\ MergedTo(s, Sources(list), list, s1)
  BY <1>2, <1>3, RegroupedAll
<1> HIDE DEF s, s1
<1>5. /\ ChatsHold(s.chats, s.unread) /\ GroupsHold(s.chats, list)
      /\ Filed(s.chats) = Filed(chats)
  BY <1>2, <1>4, PeersChats
<1>6. AliasesHold(s.chats, s.alias)
  BY <1>2, <1>4, PeersAliases
<1>7. OpenHolds(s.chats, s.unread, s.alias, s.open)
  BY <1>2, <1>4, PeersOpen
<1>8. open' = s.open
  <2>1. /\ s.alias \in [Key -> Key \cup {NoKey}] /\ LeadsOn(s.chats, s.alias)
        /\ s.open \in Key \cup {NoKey} /\ s.open \notin Gone(s.chats, s.alias)
    BY <1>6, <1>7 DEF AliasesHold, OpenHolds
  <2>2. Resolved(s.chats, s.alias, s.open) = s.open
    BY <2>1, ResolvedFacts
  <2>3. QED
    BY <1>1, <2>2
<1>9. \E n \in 0..Len(Arrivals) : ArrivedTo(n)'
  BY <1>1, <1>2, <1>5 DEF ArrivedTo, First
<1>10. QED
  BY <1>1, <1>2, <1>5, <1>6, <1>7, <1>8, <1>9 DEF StoreInv

\* The invariant holds from the start, and every step keeps it.
LEMMA StoreStep == StoreInv /\ [Next]_vars => StoreInv'
<1>1. ASSUME StoreInv, UNCHANGED vars PROVE StoreInv'
  <2>1. /\ loaded' = loaded /\ coming' = coming /\ peers' = peers
        /\ chats' = chats /\ unread' = unread /\ alias' = alias /\ open' = open
    BY <1>1 DEF vars
  <2>2. ASSUME NEW n, ArrivedTo(n) PROVE ArrivedTo(n)'
    BY <2>1, <2>2 DEF ArrivedTo, First
  <2>3. \E n \in 0..Len(Arrivals) : ArrivedTo(n)'
    BY <1>1, <2>2 DEF StoreInv
  <2>4. QED
    BY <1>1, <2>1, <2>3 DEF StoreInv
<1>2. ASSUME StoreInv, Next PROVE StoreInv'
  <2>1. CASE Load
    BY <1>2, <2>1, LoadStep
  <2>2. CASE Add
    BY <1>2, <2>2, AddStep
  <2>3. CASE \E k \in Key \cup {NoKey} : Open(k)
    BY <1>2, <2>3, OpenStep
  <2>4. CASE \E list \in PeerLists : SetPeers(list)
    BY <1>2, <2>4, SetPeersStep
  <2>5. QED
    BY <1>2, <2>1, <2>2, <2>3, <2>4 DEF Next
<1>3. QED
  BY <1>1, <1>2

\* The places of the chats.
LEMMA PlacesAre ==
  ASSUME ChatsHold(chats, unread)
  PROVE  /\ \A p \in Places : /\ p[1] \in Key /\ p[2] \in DOMAIN chats[p[1]]
                              /\ p = <<p[1], p[2]>>
                              /\ At(p).e \in EntriesOf(chats[p[1]])
                              /\ At(p) \in ItemSet
         /\ \A k \in Key : \A e \in EntriesOf(chats[k]) :
              \E p \in Places : At(p).e = e
<1>1. ASSUME NEW p \in Places
      PROVE  /\ p[1] \in Key /\ p[2] \in DOMAIN chats[p[1]]
             /\ p = <<p[1], p[2]>>
             /\ At(p).e \in EntriesOf(chats[p[1]]) /\ At(p) \in ItemSet
  <2>1. PICK k \in Key : p \in {<<k, i>> : i \in DOMAIN chats[k]}
    BY DEF Places
  <2>2. PICK i \in DOMAIN chats[k] : p = <<k, i>>
    BY <2>1
  <2>3. At(p) = chats[k][i]
    BY <2>2 DEF At
  <2>4. chats[k] \in Items /\ chats[k][i] \in Range(chats[k])
    BY <2>2 DEF ChatsHold, Range
  <2>5. chats[k][i] \in ItemSet
    BY <2>4, EntriesFacts
  <2>6. QED
    BY <2>2, <2>3, <2>5 DEF EntriesOf
<1>2. ASSUME NEW k \in Key, NEW e \in EntriesOf(chats[k])
      PROVE  \E p \in Places : At(p).e = e
  <2>1. PICK i \in DOMAIN chats[k] : chats[k][i].e = e
    BY DEF EntriesOf
  <2>2. <<k, i>> \in Places /\ At(<<k, i>>) = chats[k][i]
    BY <2>1 DEF Places, At
  <2>3. QED
    BY <2>1, <2>2
<1>3. QED
  BY <1>1, <1>2

\* What the invariant says of the properties.
LEMMA StoreShows ==
  ASSUME StoreInv
  PROVE  /\ NothingLost /\ InTimeOrder /\ UnreadAgrees /\ OpenIsRead
         /\ Grouped /\ AliasEndsAtAChat /\ TypeOK
<1>1. /\ peers \in PeerLists \cup {{}} /\ loaded \in BOOLEAN
      /\ ChatsHold(chats, unread) /\ GroupsHold(chats, peers)
      /\ AliasesHold(chats, alias) /\ OpenHolds(chats, unread, alias, open)
      /\ \E n \in 0..Len(Arrivals) : ArrivedTo(n)
  BY DEF StoreInv
<1>2. /\ \A p \in Places : /\ p[1] \in Key /\ p[2] \in DOMAIN chats[p[1]]
                           /\ p = <<p[1], p[2]>>
                           /\ At(p).e \in EntriesOf(chats[p[1]])
                           /\ At(p) \in ItemSet
      /\ \A k \in Key : \A e \in EntriesOf(chats[k]) :
           \E p \in Places : At(p).e = e
  BY <1>1, PlacesAre
<1>3. ASSUME NEW e \in Arrived PROVE \E p \in Places : At(p).e = e
  <2>1. PICK n \in 0..Len(Arrivals) : ArrivedTo(n)
    BY <1>1
  <2>2. /\ coming \in Seq(Entry) /\ Len(coming) = Len(Arrivals) - n
        /\ \A i \in 1..Len(coming) : coming[i] = Arrivals[n + i]
        /\ First(n) \subseteq Filed(chats)
    BY <2>1 DEF ArrivedTo
  <2>3. /\ Len(Arrivals) \in Nat /\ DOMAIN Arrivals = 1..Len(Arrivals)
        /\ Len(coming) \in Nat /\ DOMAIN coming = 1..Len(coming)
    BY <2>2, ArrivalOrder, LenProperties
  <2>4. PICK i \in 1..Len(Arrivals) : e = Arrivals[i]
    BY <2>3 DEF Arrived, Range
  <2>5. ASSUME i > n PROVE FALSE
    <3>1. i - n \in 1..Len(coming) /\ n + (i - n) = i
      BY <2>2, <2>3, <2>5
    <3>2. coming[i - n] = e
      BY <2>2, <2>4, <3>1
    <3>3. e \in Range(coming)
      BY <2>3, <3>1, <3>2 DEF Range
    <3>4. QED
      BY <3>3 DEF Arrived
  <2>6. i \in 1..n
    BY <2>3, <2>5
  <2>7. e \in First(n)
    BY <2>4, <2>6 DEF First
  <2>8. e \in Filed(chats)
    BY <2>2, <2>7
  <2>9. QED
    BY <1>2, <2>8 DEF Filed
<1>4. ASSUME NEW p \in Places, NEW q \in Places, At(p).e = At(q).e
      PROVE  p = q
  <2>1. p[1] = q[1]
    BY <1>1, <1>2, <1>4 DEF ChatsHold
  <2>2. chats[p[1]][p[2]].e = chats[p[1]][q[2]].e
    BY <1>4, <2>1 DEF At
  <2>3. p[2] = q[2]
    BY <1>1, <1>2, <2>1, <2>2 DEF ChatsHold, Distinct
  <2>4. QED
    BY <1>2, <2>1, <2>3
<1>5. NothingLost
  BY <1>3, <1>4 DEF NothingLost
<1>6. InTimeOrder
  <2> SUFFICES ASSUME NEW p \in Places, NEW q \in Places, p[1] = q[1],
                      p[2] < q[2]
               PROVE  At(p).e.time <= At(q).e.time
    BY DEF InTimeOrder
  <2>1. Ordered(chats[p[1]])
    BY <1>1, <1>2 DEF ChatsHold
  <2>2. p[2] \in DOMAIN chats[p[1]] /\ q[2] \in DOMAIN chats[p[1]]
    BY <1>2
  <2>3. QED
    BY <2>1, <2>2 DEF Ordered, At
<1>7. UnreadAgrees
  BY <1>1 DEF UnreadAgrees, ChatsHold
<1>8. OpenIsRead
  BY <1>1 DEF OpenIsRead, OpenHolds
<1>9. Grouped
  BY <1>1, <1>2 DEF Grouped, GroupsHold
<1>10. AliasEndsAtAChat
  <2> SUFFICES ASSUME NEW k \in Key, chats[k] = <<>>, alias[k] # NoKey
               PROVE  chats[Resolve(k)] # <<>>
    BY DEF AliasEndsAtAChat
  <2>1. k \in Gone(chats, alias)
    BY DEF Gone
  <2>2. alias \in [Key -> Key \cup {NoKey}] /\ LeadsOn(chats, alias)
    BY <1>1 DEF AliasesHold
  <2>3. QED
    BY <2>1, <2>2, ResolvedFacts DEF Resolve
<1>11. TypeOK
  <2>1. \A p \in Places : At(p).e \in Entry /\ At(p).unread \in BOOLEAN
    <3>1. \A x \in ItemSet : x.e \in Entry /\ x.unread \in BOOLEAN
      BY DEF ItemSet
    <3>2. QED
      BY <1>2, <3>1
  <2>2. unread \in [Key -> Nat] /\ open \in Key \cup {NoKey}
    BY <1>1 DEF ChatsHold, OpenHolds
  <2>3. /\ alias \in [Key -> Key \cup {NoKey}]
        /\ \A k \in Key : alias[k] # NoKey => IsLegacy(k) /\ alias[k] # k
    BY <1>1 DEF AliasesHold
  <2>4. QED
    BY <1>1, <2>1, <2>2, <2>3 DEF TypeOK
<1>12. QED
  BY <1>5, <1>6, <1>7, <1>8, <1>9, <1>10, <1>11

----------------------------------------------------------------------------
(* The throttle.                                                            *)

\* The thread in emitChats holds fireMu, and what it has read is neither older
\* than the last event nor newer than the chats.
OneFires ==
  /\ told <= version
  /\ \A t \in Limit!Thread :
       at[t] = "firing" => fireMu = t /\ told <= read[t] /\ read[t] <= version

\* The trailing call comes when the interval is over.
TrailsByInterval ==
  /\ pending # None => since + left = Interval
  /\ \A t \in Limit!Thread :
       at[t] = "flushing" => stopped \/ (pending = t /\ left = 0)

\* Who will tell the last change.
Underway(t) ==
  \/ at[t] \in {"changed", "through"}
  \/ at[t] = "firing" /\ read[t] = version

\* A change that was not told has a call or a timer behind it.
ChangeIsUnderway ==
  told = version \/ stopped \/ pending # None
    \/ \E t \in Limit!Thread : Underway(t)

\* A stopped throttle keeps no timer.
StoppedForgets == stopped => pending = None

\* What holds of the throttle in every state.
LimitInv ==
  /\ Limit!TypeOK /\ ~hurried
  /\ OneFires /\ TrailsByInterval /\ StoppedForgets /\ ChangeIsUnderway

\* Timers are no callers, and None is no thread.
LEMMA Apart ==
  ASSUME Limit!ConstantsOK
  PROVE  /\ None \notin Limit!Thread /\ Timer \subseteq Limit!Thread
         /\ Interval \in Nat /\ Interval > 0 /\ MaxChanges \in Nat
         /\ \A c \in Caller : c \notin Timer /\ c \in Limit!Thread
BY DEF Limit!ConstantsOK, Limit!Thread

\* It holds when the program starts.
LEMMA LimitStart == ASSUME Limit!ConstantsOK PROVE Limit!Init => LimitInv
<1> SUFFICES ASSUME Limit!Init PROVE LimitInv
    OBVIOUS
<1>1. Limit!TypeOK
  <2>1. stopped \in BOOLEAN /\ hurried \in BOOLEAN
        BY Zenon DEF Limit!Init
  <2>2. /\ version \in 0..MaxChanges /\ told \in 0..MaxChanges
        /\ since \in 0..Interval /\ left \in 0..Interval
        BY Apart DEF Limit!Init
  <2>3. /\ pending \in Timer \cup {None} /\ fireMu \in Limit!Thread \cup {None}
        /\ at \in [Limit!Thread -> {"idle", "changed", "flushing", "through",
                              "firing"}]
        BY DEF Limit!Init
  <2>4. read \in [Limit!Thread -> 0..MaxChanges]
        BY Apart DEF Limit!Init
  <2> QED BY <2>1, <2>2, <2>3, <2>4 DEF Limit!TypeOK
<1>2. ~hurried
      BY DEF Limit!Init
<1>3. OneFires /\ TrailsByInterval
      BY DEF Limit!Init, OneFires, TrailsByInterval
<1>4. StoppedForgets /\ ChangeIsUnderway
      BY DEF Limit!Init, StoppedForgets, ChangeIsUnderway
<1> QED BY <1>1, <1>2, <1>3, <1>4 DEF LimitInv

\* The types of the throttle.
LEMMA LimitTypeStep ==
  ASSUME Limit!ConstantsOK
  PROVE  Limit!TypeOK /\ [Limit!Next]_(Limit!vars) => Limit!TypeOK'
<1> SUFFICES ASSUME Limit!TypeOK, [Limit!Next]_(Limit!vars) PROVE Limit!TypeOK'
    OBVIOUS
<1> USE Apart DEF Limit!TypeOK
<1>1. CASE Limit!Tick
      BY <1>1 DEF Limit!Tick
<1>2. CASE Limit!Stop
      BY <1>2 DEF Limit!Stop
<1>3. ASSUME NEW t \in Limit!Thread, Limit!Change(t) PROVE Limit!TypeOK'
      BY <1>3 DEF Limit!Change, Limit!Go
<1>4. ASSUME NEW t \in Limit!Thread, Limit!Trigger(t) PROVE Limit!TypeOK'
      BY <1>4 DEF Limit!Trigger, Limit!LetThrough, Limit!Go
<1>5. ASSUME NEW t \in Limit!Thread, Limit!TimerFires(t) PROVE Limit!TypeOK'
      BY <1>5 DEF Limit!TimerFires, Limit!Go
<1>6. ASSUME NEW t \in Limit!Thread, Limit!Flush(t) PROVE Limit!TypeOK'
  <2>1. at' \in [Limit!Thread ->
          {"idle", "changed", "flushing", "through", "firing"}]
        BY <1>6 DEF Limit!Flush, Limit!LetThrough, Limit!Go
  <2>2. since' \in 0..Interval /\ pending' = None
        BY <1>6 DEF Limit!Flush, Limit!LetThrough
  <2>3. hurried' \in BOOLEAN
        BY <1>6, Zenon DEF Limit!Flush, Limit!LetThrough
  <2> QED BY <1>6, <2>1, <2>2, <2>3 DEF Limit!Flush
<1>7. ASSUME NEW t \in Limit!Thread, Limit!Fire(t) PROVE Limit!TypeOK'
      BY <1>7 DEF Limit!Fire, Limit!Go
<1>8. ASSUME NEW t \in Limit!Thread, Limit!Emit(t) PROVE Limit!TypeOK'
      BY <1>8 DEF Limit!Emit, Limit!Go
<1>9. CASE UNCHANGED Limit!vars
      BY <1>9 DEF Limit!vars
<1> QED BY <1>1, <1>2, <1>3, <1>4, <1>5, <1>6, <1>7, <1>8, <1>9
           DEF Limit!Next, Limit!Step

\* One thread fires at a time (run).
LEMMA FiresStep ==
  ASSUME Limit!ConstantsOK, Limit!TypeOK, OneFires, [Limit!Next]_(Limit!vars)
  PROVE  OneFires'
<1> USE Apart DEF Limit!TypeOK, OneFires
<1>1. CASE Limit!Tick
      BY <1>1 DEF Limit!Tick
<1>2. CASE Limit!Stop
      BY <1>2 DEF Limit!Stop
<1>3. ASSUME NEW t \in Limit!Thread, Limit!Change(t) PROVE OneFires'
      BY <1>3 DEF Limit!Change, Limit!Go
<1>4. ASSUME NEW t \in Limit!Thread, Limit!Trigger(t) PROVE OneFires'
      BY <1>4 DEF Limit!Trigger, Limit!LetThrough, Limit!Go
<1>5. ASSUME NEW t \in Limit!Thread, Limit!TimerFires(t) PROVE OneFires'
      BY <1>5 DEF Limit!TimerFires, Limit!Go
<1>6. ASSUME NEW t \in Limit!Thread, Limit!Flush(t) PROVE OneFires'
      BY <1>6 DEF Limit!Flush, Limit!LetThrough, Limit!Go
<1>7. ASSUME NEW t \in Limit!Thread, Limit!Fire(t) PROVE OneFires'
      BY <1>7 DEF Limit!Fire, Limit!MayFire, Limit!Go
<1>8. ASSUME NEW t \in Limit!Thread, Limit!Emit(t) PROVE OneFires'
      BY <1>8 DEF Limit!Emit, Limit!Go
<1>9. CASE UNCHANGED Limit!vars
      BY <1>9 DEF Limit!vars
<1> QED BY <1>1, <1>2, <1>3, <1>4, <1>5, <1>6, <1>7, <1>8, <1>9
           DEF Limit!Next, Limit!Step

\* No call is let through within an interval of the one before.
LEMMA IntervalStep ==
  ASSUME Limit!ConstantsOK, LimitInv, [Limit!Next]_(Limit!vars)
  PROVE  ~hurried' /\ TrailsByInterval' /\ StoppedForgets'
<1> USE Apart DEF LimitInv, Limit!TypeOK, TrailsByInterval, StoppedForgets
<1>1. CASE Limit!Tick
      BY <1>1 DEF Limit!Tick
<1>2. CASE Limit!Stop
      BY <1>2 DEF Limit!Stop
<1>3. ASSUME NEW t \in Limit!Thread, Limit!Change(t)
      PROVE  ~hurried' /\ TrailsByInterval' /\ StoppedForgets'
      BY <1>3 DEF Limit!Change, Limit!Go
<1>4. ASSUME NEW t \in Limit!Thread, Limit!Trigger(t)
      PROVE  ~hurried' /\ TrailsByInterval' /\ StoppedForgets'
      BY <1>4 DEF Limit!Trigger, Limit!Covered, Limit!LetThrough, Limit!Go
<1>5. ASSUME NEW t \in Limit!Thread, Limit!TimerFires(t)
      PROVE  ~hurried' /\ TrailsByInterval' /\ StoppedForgets'
      BY <1>5 DEF Limit!TimerFires, Limit!Go
<1>6. ASSUME NEW t \in Limit!Thread, Limit!Flush(t)
      PROVE  ~hurried' /\ TrailsByInterval' /\ StoppedForgets'
      BY <1>6 DEF Limit!Flush, Limit!LetThrough, Limit!Go
<1>7. ASSUME NEW t \in Limit!Thread, Limit!Fire(t)
      PROVE  ~hurried' /\ TrailsByInterval' /\ StoppedForgets'
      BY <1>7 DEF Limit!Fire, Limit!Go
<1>8. ASSUME NEW t \in Limit!Thread, Limit!Emit(t)
      PROVE  ~hurried' /\ TrailsByInterval' /\ StoppedForgets'
      BY <1>8 DEF Limit!Emit, Limit!Go
<1>9. CASE UNCHANGED Limit!vars
      BY <1>9 DEF Limit!vars
<1> QED BY <1>1, <1>2, <1>3, <1>4, <1>5, <1>6, <1>7, <1>8, <1>9
           DEF Limit!Next, Limit!Step

\* Whoever drops a change hands it to somebody who has not read the chats yet.
LEMMA UnderwayStep ==
  ASSUME Limit!ConstantsOK, LimitInv, [Limit!Next]_(Limit!vars)
  PROVE  ChangeIsUnderway'
<1> USE Apart DEF LimitInv, Limit!TypeOK, ChangeIsUnderway, Underway
<1>1. CASE Limit!Tick
      BY <1>1 DEF Limit!Tick
<1>2. CASE Limit!Stop
      BY <1>2 DEF Limit!Stop
<1>3. ASSUME NEW t \in Limit!Thread, Limit!Change(t) PROVE ChangeIsUnderway'
      BY <1>3 DEF Limit!Change, Limit!Go
<1>4. ASSUME NEW t \in Limit!Thread, Limit!Trigger(t) PROVE ChangeIsUnderway'
      BY <1>4 DEF Limit!Trigger, Limit!Covered, Limit!LetThrough, Limit!Go
<1>5. ASSUME NEW t \in Limit!Thread, Limit!TimerFires(t)
      PROVE  ChangeIsUnderway'
      BY <1>5 DEF Limit!TimerFires, Limit!Go
<1>6. ASSUME NEW t \in Limit!Thread, Limit!Flush(t) PROVE ChangeIsUnderway'
      BY <1>6 DEF Limit!Flush, Limit!LetThrough, Limit!Go
<1>7. ASSUME NEW t \in Limit!Thread, Limit!Fire(t) PROVE ChangeIsUnderway'
      BY <1>7 DEF Limit!Fire, Limit!Go
<1>8. ASSUME NEW t \in Limit!Thread, Limit!Emit(t) PROVE ChangeIsUnderway'
      BY <1>8 DEF Limit!Emit, Limit!Go, OneFires
<1>9. CASE UNCHANGED Limit!vars
      BY <1>9 DEF Limit!vars
<1> QED BY <1>1, <1>2, <1>3, <1>4, <1>5, <1>6, <1>7, <1>8, <1>9
           DEF Limit!Next, Limit!Step

----------------------------------------------------------------------------
(* The toasts.                                                              *)

\* The worker's copy is as new as the last wake-up, and nothing is newer
\* without a signal in the channel.
CopyFollows ==
  /\ want => gen > 0
  /\ last.gen <= hand.gen /\ hand.gen <= gen
  /\ want /\ ~hand.want => hand.gen < gen
  /\ hand.ready => ready
  /\ ~wake /\ ~closed =>
       /\ hand.gen = gen /\ hand.pages = pages
       /\ hand.want <=> want
       /\ hand.ready <=> ready

\* What the worker does follows from its copy, and the window from what it did.
WindowFollows ==
  /\ screen = [on |-> shown, gen |-> last.gen, pages |-> last.pages]
  /\ shown => ready
  /\ worker \in {"expire", "present", "arm"} => hand.want /\ hand.ready
  /\ worker = "arm" =>
       shown /\ last.gen = hand.gen /\ last.pages = hand.pages
  /\ worker = "dismiss" => ~hand.want
  /\ worker = "idle" /\ ~hand.want => ~shown
  /\ worker = "idle" /\ hand.want /\ hand.ready /\ ~wake /\ ~closed =>
       last.gen = hand.gen /\ last.pages = hand.pages
  /\ ~shown /\ hand.want => last.gen < hand.gen

\* A timer of the newest arrival leaves it its time, and as long as the arrival
\* is wanted and shown one is armed or its callback runs.
TimersFollow ==
  /\ timer.gen <= gen /\ \A g \in fired : g <= gen
  /\ timer # Toasts!NoTimer /\ timer.gen = gen => age + timer.left >= Duration
  /\ gen \in fired => age = Duration
  /\ worker = "copied" /\ hand.gen = gen => hand.age = age
  /\ worker = "expire" /\ hand.gen = gen => age = Duration
  /\ ~closed /\ want /\ shown /\ last.gen = gen /\ worker # "arm" =>
       timer.gen = gen \/ gen \in fired

\* A click is made on a toast that had arrived; what it hid is older than a toast
\* that is wanted; and the chat of an arrival is opened once.
ClicksFollow ==
  /\ \A r \in reports : r.click <= clicks
  /\ \A k \in Toasts!ClickNo : aim[k] <= gen
  /\ \A k \in acted : k <= clicks /\ (want => aim[k] < gen)
  /\ \A g \in Toasts!Gen : opened[g] <= 1 /\ (g > gen => opened[g] = 0)
  /\ want => opened[gen] = 0

\* What holds of the toaster in every state.
ToastInv ==
  Toasts!TypeOK /\ CopyFollows /\ WindowFollows /\ TimersFollow /\ ClicksFollow

\* It holds when the program starts.
LEMMA ToastStart == ASSUME Toasts!ConstantsOK PROVE Toasts!Init => ToastInv
<1> SUFFICES ASSUME Toasts!Init PROVE ToastInv
  OBVIOUS
<1> USE DEF Toasts!ConstantsOK, Toasts!Init, Toasts!NoTimer, Toasts!NoCopy
<1>1. Toasts!TypeOK
  <2>1. /\ closed \in BOOLEAN /\ ready \in BOOLEAN /\ want \in BOOLEAN
        /\ wake \in BOOLEAN /\ shown \in BOOLEAN
    BY Zenon
  <2>2. /\ gen \in Toasts!Gen /\ pages \in Toasts!Page /\ age \in 0..Duration
        /\ clicks \in 0..MaxClicks /\ reports \subseteq Toasts!Report
        /\ aim \in [Toasts!ClickNo -> Toasts!Gen]
        /\ acted \subseteq Toasts!ClickNo
    BY DEF Toasts!Gen, Toasts!Page
  <2>3. /\ timer \in [gen : Toasts!Gen, left : 0..Duration]
        /\ fired \subseteq Toasts!Gen
        /\ last \in [gen : Toasts!Gen, pages : Toasts!Page]
        /\ opened \in [Toasts!Gen -> Nat]
        /\ screen \in [on : BOOLEAN, gen : Toasts!Gen, pages : Toasts!Page]
    BY DEF Toasts!Gen, Toasts!Page
  <2>4. hand \in [gen : Toasts!Gen, pages : Toasts!Page,
                 want : BOOLEAN, ready : BOOLEAN,
                  age : 0..Duration]
    BY DEF Toasts!Gen, Toasts!Page
  <2>5. QED
    BY <2>1, <2>2, <2>3, <2>4 DEF Toasts!TypeOK
<1>2. CopyFollows
  BY DEF CopyFollows
<1>3. WindowFollows
  BY DEF WindowFollows
<1>4. TimersFollow
  BY DEF TimersFollow
<1>5. ClicksFollow
  BY DEF ClicksFollow
<1>6. QED
  BY <1>1, <1>2, <1>3, <1>4, <1>5 DEF ToastInv

\* The types of the toaster, but for those of the clicks.
ToastTypes ==
  /\ closed \in BOOLEAN /\ ready \in BOOLEAN /\ want \in BOOLEAN
  /\ gen \in Toasts!Gen /\ pages \in Toasts!Page /\ age \in 0..Duration
  /\ timer \in [gen : Toasts!Gen, left : 0..Duration]
  /\ fired \subseteq Toasts!Gen
  /\ wake \in BOOLEAN
  /\ worker \in
       {"idle", "copied", "expire", "present", "arm", "dismiss", "over"}
  /\ hand \in [gen : Toasts!Gen, pages : Toasts!Page, want : BOOLEAN,
               ready : BOOLEAN, age : 0..Duration]
  /\ last \in [gen : Toasts!Gen, pages : Toasts!Page]
  /\ shown \in BOOLEAN
  /\ screen \in [on : BOOLEAN, gen : Toasts!Gen, pages : Toasts!Page]

\* The types of the clicks and their reports.
ClickTypes ==
  /\ clicks \in 0..MaxClicks /\ reports \subseteq Toasts!Report
  /\ aim \in [Toasts!ClickNo -> Toasts!Gen] /\ acted \subseteq Toasts!ClickNo
  /\ opened \in [Toasts!Gen -> Nat]

LEMMA TypesSplit == Toasts!TypeOK <=> ToastTypes /\ ClickTypes
BY DEF Toasts!TypeOK, ToastTypes, ClickTypes

LEMMA ClickTypesStep ==
  ASSUME Toasts!ConstantsOK, ToastTypes, ClickTypes,
         [Toasts!Next]_(Toasts!vars)
  PROVE  ClickTypes'
<1>1. CASE Toasts!Click
  <2>1. clicks + 1 \in Toasts!ClickNo /\ screen.gen \in Toasts!Gen
    BY <1>1 DEF Toasts!Click, Toasts!ClickNo, Toasts!ConstantsOK, ClickTypes,
                ToastTypes
  <2>2. clicks' \in 0..MaxClicks
    BY <1>1, <2>1 DEF Toasts!Click, Toasts!ClickNo
  <2>3. reports' \subseteq Toasts!Report
    BY <1>1, <2>1 DEF Toasts!Click, Toasts!Report, ClickTypes
  <2>4. aim' \in [Toasts!ClickNo -> Toasts!Gen]
    BY <1>1, <2>1 DEF Toasts!Click, ClickTypes
  <2>5. QED
    BY <1>1, <2>2, <2>3, <2>4 DEF Toasts!Click, ClickTypes
<1>2. ASSUME NEW r \in reports, Toasts!Clicked(r) PROVE ClickTypes'
  <2>1. reports' \subseteq Toasts!Report /\ r.click \in Toasts!ClickNo
    BY <1>2 DEF Toasts!Clicked, Toasts!Report, ClickTypes
  <2>2. acted' \subseteq acted \cup {r.click} /\ UNCHANGED <<clicks, aim>>
    BY <1>2 DEF Toasts!Clicked
  <2>3. opened' = opened \/ opened' = [opened EXCEPT ![gen] = @ + 1]
    BY <1>2 DEF Toasts!Clicked
  <2>4. opened' \in [Toasts!Gen -> Nat]
    BY <2>3 DEF ClickTypes, ToastTypes
  <2>5. QED
    BY <2>1, <2>2, <2>4 DEF ClickTypes
<1>3. CASE UNCHANGED Toasts!clickVars
  BY <1>3 DEF Toasts!clickVars, ClickTypes
<1>4. CASE \/ Toasts!Tick \/ Toasts!Judge \/ Toasts!WorkerEnds \/ Toasts!Drop
           \/ Toasts!TimerFires \/ Toasts!Wake \/ Toasts!Present
           \/ Toasts!Arm \/ Toasts!Dismiss \/ Toasts!Show
           \/ Toasts!PageReady \/ Toasts!Close
           \/ \E g \in Toasts!Gen : Toasts!Expire(g)
  <2>1. UNCHANGED Toasts!clickVars
    BY <1>4 DEF Toasts!Tick, Toasts!Judge, Toasts!WorkerEnds, Toasts!Drop,
                Toasts!TimerFires, Toasts!Wake, Toasts!Present, Toasts!Arm,
                Toasts!Dismiss, Toasts!Show, Toasts!PageReady, Toasts!Close,
                Toasts!Expire
  <2>2. QED
    BY <1>3, <2>1
<1>5. CASE UNCHANGED Toasts!vars
  BY <1>3, <1>5 DEF Toasts!vars
<1>6. QED
  BY <1>1, <1>2, <1>4, <1>5 DEF Toasts!Next, Toasts!WorkerStep

LEMMA ToastTypesStep ==
  ASSUME Toasts!ConstantsOK, ToastTypes, ClickTypes,
         [Toasts!Next]_(Toasts!vars)
  PROVE  ToastTypes'
<1> USE DEF Toasts!ConstantsOK, ToastTypes,
        Toasts!fields, Toasts!timers, Toasts!workerVars,
        Toasts!NoTimer, Toasts!Gen, Toasts!Page
<1>1. CASE Toasts!Show
  BY <1>1 DEF Toasts!Show
<1>2. CASE Toasts!PageReady
  BY <1>2 DEF Toasts!PageReady
<1>3. CASE Toasts!Click
  BY <1>3 DEF Toasts!Click
<1>4. ASSUME NEW r \in reports, Toasts!Clicked(r) PROVE ToastTypes'
  <2>1. \/ UNCHANGED <<want, timer, wake>>
        \/ want' = FALSE /\ timer' = Toasts!NoTimer /\ wake' = TRUE
    BY <1>4, Zenon DEF Toasts!Clicked, Toasts!Disarmed
  <2>2. timer' \in [gen : Toasts!Gen, left : 0..Duration]
    BY <2>1
  <2>3. want' \in BOOLEAN /\ wake' \in BOOLEAN
    BY <2>1
  <2>4. /\ UNCHANGED <<closed, ready, gen, pages, age, fired>>
        /\ UNCHANGED <<worker, hand, shown, last, screen>>
    BY <1>4 DEF Toasts!Clicked
  <2>5. QED
    BY <2>2, <2>3, <2>4
<1>5. CASE Toasts!Close
  BY <1>5 DEF Toasts!Close, Toasts!Disarmed
<1>6. CASE Toasts!Tick
  BY <1>6 DEF Toasts!Tick, Toasts!Older
<1>7. CASE Toasts!TimerFires
  <2>1. timer' \in [gen : Toasts!Gen, left : 0..Duration]
    BY <1>7 DEF Toasts!TimerFires, Toasts!Disarmed
  <2>2. timer.gen \in Toasts!Gen /\ fired' = fired \cup {timer.gen}
    BY <1>7 DEF Toasts!TimerFires
  <2>3. fired' \subseteq Toasts!Gen
    BY <2>2
  <2>4. QED
    BY <1>7, <2>1, <2>3 DEF Toasts!TimerFires
<1>8. ASSUME NEW g \in Toasts!Gen, Toasts!Expire(g) PROVE ToastTypes'
  BY <1>8 DEF Toasts!Expire, Toasts!Expired, Toasts!IsCurrent
<1>9. CASE Toasts!Wake
  BY <1>9 DEF Toasts!Wake
<1>10. CASE Toasts!Judge
  BY <1>10 DEF Toasts!Judge, Toasts!IsNews
<1>11. CASE Toasts!WorkerEnds
  BY <1>11 DEF Toasts!WorkerEnds
<1>12. CASE Toasts!Drop
  BY <1>12 DEF Toasts!Drop, Toasts!Expired, Toasts!IsCurrent
<1>13. CASE Toasts!Present
  BY <1>13 DEF Toasts!Present
<1>14. CASE Toasts!Arm
  BY <1>14 DEF Toasts!Arm, Toasts!IsCurrent
<1>15. CASE Toasts!Dismiss
  BY <1>15 DEF Toasts!Dismiss
<1>16. CASE UNCHANGED Toasts!vars
  BY <1>16 DEF Toasts!vars
<1>17. QED
  BY <1>1, <1>2, <1>3, <1>4, <1>5, <1>6, <1>7, <1>8, <1>9, <1>10, <1>11,
       <1>12, <1>13, <1>14, <1>15, <1>16 DEF Toasts!Next, Toasts!WorkerStep

LEMMA TypeToast ==
  ASSUME Toasts!ConstantsOK, ToastInv, [Toasts!Next]_(Toasts!vars)
  PROVE  Toasts!TypeOK'
<1>1. ToastTypes /\ ClickTypes
  BY TypesSplit DEF ToastInv
<1>2. ToastTypes' /\ ClickTypes'
  BY <1>1, ToastTypesStep, ClickTypesStep
<1>3. QED
  BY <1>2 DEF Toasts!TypeOK, ToastTypes, ClickTypes

\* The worker's copy stays as new as its last wake-up (run).
LEMMA CopyStep ==
  ASSUME Toasts!ConstantsOK, ToastInv, [Toasts!Next]_(Toasts!vars)
  PROVE  CopyFollows'
<1> USE DEF Toasts!ConstantsOK, ToastInv, Toasts!TypeOK, CopyFollows,
        Toasts!fields, Toasts!timers, Toasts!workerVars, Toasts!clickVars,
        Toasts!NoTimer, Toasts!Gen, Toasts!Page
<1>1. CASE Toasts!Show
  <2>1. /\ gen' = gen + 1 /\ want' = TRUE /\ wake' = TRUE
        /\ UNCHANGED <<ready, hand, last>>
    BY <1>1 DEF Toasts!Show
  <2>2. gen \in Nat /\ hand.gen <= gen /\ last.gen <= hand.gen
    OBVIOUS
  <2>3. hand.gen \in Nat /\ last.gen \in Nat
    OBVIOUS
  <2>4. hand.ready => ready
    OBVIOUS
  <2>5. QED
    BY <2>1, <2>2, <2>3, <2>4
<1>2. CASE Toasts!PageReady
  BY <1>2 DEF Toasts!PageReady
<1>3. CASE Toasts!Click
  BY <1>3 DEF Toasts!Click
<1>4. ASSUME NEW r \in reports, Toasts!Clicked(r) PROVE CopyFollows'
  BY <1>4 DEF Toasts!Clicked, Toasts!ClickCounts, Toasts!Disarmed
<1>5. CASE Toasts!Close
  BY <1>5 DEF Toasts!Close, Toasts!Disarmed
<1>6. CASE Toasts!Tick
  BY <1>6 DEF Toasts!Tick, Toasts!Older
<1>7. CASE Toasts!TimerFires
  BY <1>7 DEF Toasts!TimerFires, Toasts!Disarmed
<1>8. ASSUME NEW g \in Toasts!Gen, Toasts!Expire(g) PROVE CopyFollows'
  BY <1>8 DEF Toasts!Expire, Toasts!Expired, Toasts!IsCurrent
<1>9. CASE Toasts!Wake
  BY <1>9 DEF Toasts!Wake
<1>10. CASE Toasts!Judge
  BY <1>10 DEF Toasts!Judge, Toasts!IsNews
<1>11. CASE Toasts!WorkerEnds
  BY <1>11 DEF Toasts!WorkerEnds
<1>12. CASE Toasts!Drop
  BY <1>12 DEF Toasts!Drop, Toasts!Expired, Toasts!IsCurrent
<1>13. CASE Toasts!Present
  BY <1>13 DEF Toasts!Present
<1>14. CASE Toasts!Arm
  BY <1>14 DEF Toasts!Arm, Toasts!IsCurrent
<1>15. CASE Toasts!Dismiss
  BY <1>15 DEF Toasts!Dismiss
<1>16. CASE UNCHANGED Toasts!vars
  BY <1>16 DEF Toasts!vars
<1>17. QED
  BY <1>1, <1>2, <1>3, <1>4, <1>5, <1>6, <1>7, <1>8, <1>9, <1>10, <1>11,
       <1>12, <1>13, <1>14, <1>15, <1>16 DEF Toasts!Next, Toasts!WorkerStep

\* The window stays what the worker last made it (run, present, dismiss).
LEMMA WindowStep ==
  ASSUME Toasts!ConstantsOK, ToastInv, [Toasts!Next]_(Toasts!vars)
  PROVE  WindowFollows'
<1> USE DEF Toasts!ConstantsOK, ToastInv, Toasts!TypeOK, CopyFollows,
        WindowFollows, Toasts!fields, Toasts!timers, Toasts!workerVars,
        Toasts!clickVars, Toasts!NoTimer, Toasts!Gen, Toasts!Page
<1>1. CASE Toasts!Show
  BY <1>1 DEF Toasts!Show
<1>2. CASE Toasts!PageReady
  BY <1>2 DEF Toasts!PageReady
<1>3. CASE Toasts!Click
  BY <1>3 DEF Toasts!Click
<1>4. ASSUME NEW r \in reports, Toasts!Clicked(r) PROVE WindowFollows'
  BY <1>4 DEF Toasts!Clicked, Toasts!ClickCounts, Toasts!Disarmed
<1>5. CASE Toasts!Close
  BY <1>5 DEF Toasts!Close, Toasts!Disarmed
<1>6. CASE Toasts!Tick
  BY <1>6 DEF Toasts!Tick, Toasts!Older
<1>7. CASE Toasts!TimerFires
  BY <1>7 DEF Toasts!TimerFires, Toasts!Disarmed
<1>8. ASSUME NEW g \in Toasts!Gen, Toasts!Expire(g) PROVE WindowFollows'
  BY <1>8 DEF Toasts!Expire, Toasts!Expired, Toasts!IsCurrent
<1>9. CASE Toasts!Wake
  BY <1>9 DEF Toasts!Wake
<1>10. CASE Toasts!Judge
  BY <1>10 DEF Toasts!Judge, Toasts!IsNews
<1>11. CASE Toasts!WorkerEnds
  BY <1>11 DEF Toasts!WorkerEnds
<1>12. CASE Toasts!Drop
  BY <1>12 DEF Toasts!Drop, Toasts!Expired, Toasts!IsCurrent
<1>13. CASE Toasts!Present
  BY <1>13 DEF Toasts!Present
<1>14. CASE Toasts!Arm
  BY <1>14 DEF Toasts!Arm, Toasts!IsCurrent
<1>15. CASE Toasts!Dismiss
  BY <1>15 DEF Toasts!Dismiss
<1>16. CASE UNCHANGED Toasts!vars
  BY <1>16 DEF Toasts!vars
<1>17. QED
  BY <1>1, <1>2, <1>3, <1>4, <1>5, <1>6, <1>7, <1>8, <1>9, <1>10, <1>11,
       <1>12, <1>13, <1>14, <1>15, <1>16 DEF Toasts!Next, Toasts!WorkerStep

\* The newest arrival keeps a timer, and keeps its time (arm, expire).
LEMMA TimersStep ==
  ASSUME Toasts!ConstantsOK, ToastInv, [Toasts!Next]_(Toasts!vars)
  PROVE  TimersFollow'
<1>0. ToastTypes
  BY TypesSplit DEF ToastInv
<1> USE <1>0 DEF Toasts!ConstantsOK, ToastInv, ToastTypes, CopyFollows,
        WindowFollows, TimersFollow, Toasts!fields, Toasts!timers,
        Toasts!workerVars, Toasts!clickVars, Toasts!NoTimer, Toasts!Gen,
        Toasts!Page
<1>1. CASE Toasts!Show
  BY <1>1 DEF Toasts!Show
<1>2. CASE Toasts!PageReady
  BY <1>2 DEF Toasts!PageReady
<1>3. CASE Toasts!Click
  BY <1>3 DEF Toasts!Click
<1>4. ASSUME NEW r \in reports, Toasts!Clicked(r) PROVE TimersFollow'
  BY <1>4 DEF Toasts!Clicked, Toasts!ClickCounts, Toasts!Disarmed
<1>5. CASE Toasts!Close
  BY <1>5 DEF Toasts!Close, Toasts!Disarmed
<1>6. CASE Toasts!Tick
  BY <1>6 DEF Toasts!Tick, Toasts!Older
<1>7. CASE Toasts!TimerFires
  BY <1>7 DEF Toasts!TimerFires, Toasts!Disarmed
<1>8. ASSUME NEW g \in Toasts!Gen, Toasts!Expire(g) PROVE TimersFollow'
  BY <1>8 DEF Toasts!Expire, Toasts!Expired, Toasts!IsCurrent
<1>9. CASE Toasts!Wake
  BY <1>9 DEF Toasts!Wake
<1>10. CASE Toasts!Judge
  BY <1>10 DEF Toasts!Judge, Toasts!IsNews
<1>11. CASE Toasts!WorkerEnds
  BY <1>11 DEF Toasts!WorkerEnds
<1>12. CASE Toasts!Drop
  BY <1>12 DEF Toasts!Drop, Toasts!Expired, Toasts!IsCurrent
<1>13. CASE Toasts!Present
  BY <1>13 DEF Toasts!Present
<1>14. CASE Toasts!Arm
  BY <1>14 DEF Toasts!Arm, Toasts!IsCurrent
<1>15. CASE Toasts!Dismiss
  BY <1>15 DEF Toasts!Dismiss
<1>16. CASE UNCHANGED Toasts!vars
  BY <1>16 DEF Toasts!vars
<1>17. QED
  BY <1>1, <1>2, <1>3, <1>4, <1>5, <1>6, <1>7, <1>8, <1>9, <1>10, <1>11,
       <1>12, <1>13, <1>14, <1>15, <1>16 DEF Toasts!Next, Toasts!WorkerStep

\* A click is reported twice at most and opens its chat once (clicked).
LEMMA ClicksStep ==
  ASSUME Toasts!ConstantsOK, ToastInv, [Toasts!Next]_(Toasts!vars)
  PROVE  ClicksFollow'
<1>0. /\ gen \in 0..MaxShows /\ clicks \in 0..MaxClicks
      /\ aim \in [Toasts!ClickNo -> 0..MaxShows]
      /\ opened \in [Toasts!Gen -> Nat] /\ acted \subseteq Toasts!ClickNo
      /\ want \in BOOLEAN /\ MaxShows \in Nat /\ MaxClicks \in Nat
  BY DEF Toasts!ConstantsOK, ToastInv, Toasts!TypeOK, Toasts!Gen
<1>00. ClicksFollow
  BY DEF ToastInv
<1>1. CASE Toasts!Show
  <2>1. /\ gen' = gen + 1 /\ gen' \in Toasts!Gen /\ want' = TRUE
        /\ UNCHANGED <<clicks, reports, aim, acted, opened>>
    BY <1>0, <1>1 DEF Toasts!Show, Toasts!clickVars, Toasts!Gen
  <2>2. \A k \in Toasts!ClickNo : aim[k] <= gen /\ aim[k] \in Nat
    BY <1>0, <1>00 DEF ClicksFollow
  <2>3. \A g \in Toasts!Gen : g > gen => opened[g] = 0
    BY <1>00 DEF ClicksFollow
  <2>4. \A k \in Toasts!ClickNo : aim[k] < gen' /\ aim[k] <= gen'
    BY <1>0, <2>1, <2>2
  <2>5. \A g \in Toasts!Gen : g > gen' => opened[g] = 0
    BY <1>0, <2>1, <2>3 DEF Toasts!Gen
  <2>6. opened[gen'] = 0
    BY <1>0, <2>1, <2>3
  <2>7. QED
    BY <1>0, <1>00, <2>1, <2>4, <2>5, <2>6 DEF ClicksFollow
<1>2. CASE Toasts!Click
  <2>1. /\ clicks' = clicks + 1 /\ clicks' \in Toasts!ClickNo
        /\ aim' = [aim EXCEPT ![clicks'] = screen.gen]
        /\ \A r \in reports' \ reports : r.click = clicks'
        /\ UNCHANGED <<gen, want, acted, opened>>
    BY <1>0, <1>2 DEF Toasts!Click, Toasts!fields, Toasts!ClickNo
  <2>2. screen.gen <= gen
    BY DEF ToastInv, CopyFollows, WindowFollows, Toasts!TypeOK, Toasts!Gen
  <2>3. \A k \in Toasts!ClickNo : aim'[k] <= gen
    BY <1>0, <1>00, <2>1, <2>2 DEF ClicksFollow
  <2>4. \A r \in reports' : r.click <= clicks'
    <3>1. \A r \in reports : r.click \in Toasts!ClickNo /\ r.click <= clicks
      BY <1>00 DEF ClicksFollow, ToastInv, Toasts!TypeOK, Toasts!Report
    <3>2. QED
      BY <1>0, <2>1, <3>1 DEF Toasts!ClickNo
  <2>5. \A k \in acted : k <= clicks' /\ aim'[k] = aim[k]
    BY <1>0, <1>00, <2>1 DEF ClicksFollow, Toasts!ClickNo
  <2>6. QED
    BY <1>00, <2>1, <2>3, <2>4, <2>5 DEF ClicksFollow
<1>3. ASSUME NEW r \in reports, Toasts!Clicked(r) PROVE ClicksFollow'
  <2>1. /\ reports' \subseteq reports
        /\ UNCHANGED <<gen, clicks, aim>>
    BY <1>3 DEF Toasts!Clicked
  <2>2. CASE UNCHANGED <<want, acted, opened>>
    BY <1>00, <2>1, <2>2 DEF ClicksFollow
  <2>3. CASE /\ want /\ want' = FALSE /\ acted' = acted \cup {r.click}
             /\ opened' = [opened EXCEPT ![gen] = @ + 1]
    <3>1. \A g \in Toasts!Gen :
            opened'[g] <= 1 /\ (g > gen => opened'[g] = 0)
      BY <1>0, <1>00, <2>3 DEF ClicksFollow
    <3>2. \A k \in acted' : k <= clicks
      BY <1>00, <2>3 DEF ClicksFollow
    <3>3. QED
      BY <1>00, <2>1, <2>3, <3>1, <3>2 DEF ClicksFollow
  <2>4. QED
    BY <1>3, <2>2, <2>3 DEF Toasts!Clicked, Toasts!ClickCounts
<1>4. CASE /\ UNCHANGED <<gen, clicks, reports, aim, acted, opened>>
           /\ want' => want
  BY <1>00, <1>4 DEF ClicksFollow
<1>5. CASE \/ Toasts!Tick \/ Toasts!Judge \/ Toasts!WorkerEnds \/ Toasts!Drop
           \/ Toasts!TimerFires \/ Toasts!Wake \/ Toasts!Present
           \/ Toasts!Arm \/ Toasts!Dismiss \/ Toasts!PageReady
           \/ Toasts!Close \/ \E g \in Toasts!Gen : Toasts!Expire(g)
  <2>1. UNCHANGED <<gen, clicks, reports, aim, acted, opened>>
    BY <1>5
       DEF Toasts!Tick, Toasts!Judge, Toasts!WorkerEnds, Toasts!Drop,
           Toasts!TimerFires, Toasts!Wake, Toasts!Present, Toasts!Arm,
           Toasts!Dismiss, Toasts!PageReady, Toasts!Close, Toasts!Expire,
           Toasts!fields, Toasts!clickVars
  <2>2. want' => want
    BY <1>5
       DEF Toasts!Tick, Toasts!Judge, Toasts!WorkerEnds, Toasts!Drop,
           Toasts!TimerFires, Toasts!Wake, Toasts!Present, Toasts!Arm,
           Toasts!Dismiss, Toasts!PageReady, Toasts!Close, Toasts!Expire,
           Toasts!Expired, Toasts!fields
  <2>3. QED
    BY <1>4, <2>1, <2>2
<1>6. CASE UNCHANGED Toasts!vars
  BY <1>4, <1>6 DEF Toasts!vars, Toasts!fields, Toasts!clickVars
<1>7. QED
  BY <1>1, <1>2, <1>3, <1>5, <1>6 DEF Toasts!Next, Toasts!WorkerStep

\* Every step of the callers, the timers or the worker keeps the invariant.
LEMMA ToastStep ==
  ASSUME Toasts!ConstantsOK, ToastInv, [Toasts!Next]_(Toasts!vars)
  PROVE  ToastInv'
BY TypeToast, CopyStep, WindowStep, TimersStep, ClicksStep DEF ToastInv

\* At rest, the invariant is what the user should see.
THEOREM Agrees == ASSUME Toasts!ConstantsOK, ToastInv PROVE Toasts!ScreenAgrees
<1> SUFFICES ASSUME ~closed, Toasts!Resting
             PROVE  IF want /\ ready
                    THEN /\ screen =
                            [on |-> TRUE, gen |-> gen, pages |-> pages]
                         /\ timer # Toasts!NoTimer /\ timer.gen = gen
                    ELSE ~screen.on
  BY DEF Toasts!ScreenAgrees
<1> USE DEF ToastInv, Toasts!TypeOK, Toasts!Gen, Toasts!Page, Toasts!Resting,
        CopyFollows, WindowFollows
<1>1. CASE want /\ ready
  <2>1. shown /\ last.gen = gen /\ last.pages = pages
    BY <1>1
  <2>2. screen = [on |-> TRUE, gen |-> gen, pages |-> pages]
    BY <2>1
  <2>3. timer.gen = gen
    BY <1>1, <2>1 DEF TimersFollow
  <2>4. timer # Toasts!NoTimer
    BY <1>1, <2>3 DEF Toasts!NoTimer
  <2>5. QED
    BY <1>1, <2>2, <2>3, <2>4
<1>2. CASE ~(want /\ ready)
  <2>1. ~shown
    BY <1>2
  <2>2. QED
    BY <1>2, <2>1
<1>3. QED
  BY <1>1, <1>2

\* Only time or a click makes a wanted toast unwanted.
LEMMA HidesInTime ==
  ASSUME Toasts!ConstantsOK, ToastInv, Toasts!Next
  PROVE  want /\ ~want' =>
           \/ age = Duration
           \/ \E r \in reports \ reports' : r.click \in acted => aim[r.click] < gen
<1> SUFFICES ASSUME want, ~want', age # Duration
             PROVE  \E r \in reports \ reports' :
                      r.click \in acted => aim[r.click] < gen
  OBVIOUS
<1>1. ASSUME NEW r \in reports, Toasts!Clicked(r)
      PROVE  \E q \in reports \ reports' :
               q.click \in acted => aim[q.click] < gen
  <2>1. r \in reports \ reports'
    BY <1>1 DEF Toasts!Clicked
  <2>2. \A k \in acted : aim[k] < gen
    BY DEF ToastInv, ClicksFollow
  <2>3. QED
    BY <2>1, <2>2
<1>2. ASSUME NEW g \in Toasts!Gen, Toasts!Expire(g) PROVE age = Duration
  BY <1>2 DEF Toasts!Expire, Toasts!Expired, Toasts!IsCurrent, ToastInv,
       TimersFollow
<1>3. CASE Toasts!Drop
  BY <1>3 DEF Toasts!Drop, Toasts!Expired, Toasts!IsCurrent, ToastInv,
       TimersFollow
<1>4. QED
  BY <1>1, <1>2, <1>3 DEF Toasts!Next, Toasts!WorkerStep, Toasts!Show,
       Toasts!PageReady, Toasts!Click, Toasts!Close, Toasts!Tick,
       Toasts!TimerFires, Toasts!Wake, Toasts!Judge, Toasts!WorkerEnds,
       Toasts!Present, Toasts!Arm, Toasts!Dismiss, Toasts!fields

----------------------------------------------------------------------------
(* The program.                                                             *)

\* A step of the program is a step of each part, or leaves the part alone.
LEMMA StepOfParts ==
  ASSUME [GuiNext]_guiVars
  PROVE  /\ [Next]_vars
         /\ [Limit!Next]_(Limit!vars) /\ [Toasts!Next]_(Toasts!vars)
<1>1. ASSUME UNCHANGED throttleVars PROVE UNCHANGED Limit!vars
  BY <1>1 DEF throttleVars, Limit!vars
<1>2. ASSUME UNCHANGED toastVars PROVE UNCHANGED Toasts!vars
  BY <1>2 DEF toastVars, Toasts!vars, Toasts!fields, Toasts!timers,
              Toasts!workerVars, Toasts!clickVars
<1>3. CASE UNCHANGED guiVars
  <2>1. UNCHANGED vars /\ UNCHANGED throttleVars /\ UNCHANGED toastVars
    BY <1>3 DEF guiVars
  <2>2. QED
    BY <1>1, <1>2, <2>1
<1>4. CASE Store /\ Next
  <2>1. UNCHANGED throttleVars /\ UNCHANGED toastVars
    BY <1>4 DEF Store, Picks
  <2>2. QED
    BY <1>1, <1>2, <1>4, <2>1
<1>5. CASE Trigger /\ Limit!Next
  <2>1. UNCHANGED vars /\ UNCHANGED toastVars
    BY <1>5 DEF Trigger, Picks
  <2>2. QED
    BY <1>2, <1>5, <2>1
<1>6. CASE Toast /\ Toasts!Next
  <2>1. UNCHANGED vars /\ UNCHANGED throttleVars
    BY <1>6 DEF Toast, Picks
  <2>2. QED
    BY <1>1, <1>6, <2>1
<1>7. QED
  BY <1>3, <1>4, <1>5, <1>6 DEF GuiNext

\* The invariant of each part holds in every state.
THEOREM PartsHold == GuiSpec => [](StoreInv /\ LimitInv /\ ToastInv)
<1>1. GuiInit => StoreInv /\ LimitInv /\ ToastInv
  BY PartsConstants, StoreStart, LimitStart, ToastStart DEF GuiInit
<1>2. StoreInv /\ LimitInv /\ ToastInv /\ [GuiNext]_guiVars
        => StoreInv' /\ LimitInv' /\ ToastInv'
  <2> SUFFICES ASSUME StoreInv, LimitInv, ToastInv, [GuiNext]_guiVars
               PROVE  StoreInv' /\ LimitInv' /\ ToastInv'
    OBVIOUS
  <2>1. /\ [Next]_vars
        /\ [Limit!Next]_(Limit!vars) /\ [Toasts!Next]_(Toasts!vars)
    BY StepOfParts
  <2>2. StoreInv' /\ ToastInv'
    BY PartsConstants, StoreStep, ToastStep, <2>1
  <2>3. LimitInv'
    <3>1. Limit!TypeOK /\ OneFires
      BY DEF LimitInv
    <3>2. Limit!TypeOK' /\ OneFires'
      BY <3>1, <2>1, PartsConstants, LimitTypeStep, FiresStep
    <3>3. ~hurried' /\ TrailsByInterval' /\ StoppedForgets'
      BY <2>1, PartsConstants, IntervalStep
    <3>4. ChangeIsUnderway'
      BY <2>1, PartsConstants, UnderwayStep
    <3>5. QED
      BY <3>2, <3>3, <3>4 DEF LimitInv
  <2>4. QED
    BY <2>2, <2>3
<1>3. QED
  BY <1>1, <1>2, PTL DEF GuiSpec

\* The variables of the three parts keep their types.
THEOREM PartsTyped == GuiSpec => []TypesOK
<1>1. StoreInv /\ LimitInv /\ ToastInv => TypesOK
  BY StoreShows DEF TypesOK, LimitInv, ToastInv
<1>2. QED
  BY <1>1, PartsHold, PTL

\* No entry is lost or doubled, however often the peer list changes, and every
\* chat stays in the order of the times (SetPeers, mergeByTime).
THEOREM NoEntryLost == GuiSpec => []EntriesKept
<1>1. StoreInv => EntriesKept
  BY StoreShows DEF EntriesKept
<1>2. QED
  BY <1>1, PartsHold, PTL

\* Badges are what opening a chat clears, and the open chat has none (Add,
\* SetPeers, clearUnread).
THEOREM BadgesRight == GuiSpec => []BadgesAgree
<1>1. StoreInv => BadgesAgree
  BY StoreShows DEF BadgesAgree
<1>2. QED
  BY <1>1, PartsHold, PTL

\* Entries stay grouped as the current list says, and the alias of an emptied
\* chat ends at a chat, never in a circle (classify, resolve).
THEOREM GroupsRight == GuiSpec => []GroupsAgree
<1>1. StoreInv => GroupsAgree
  BY StoreShows DEF GroupsAgree
<1>2. QED
  BY <1>1, PartsHold, PTL

\* No trigger is lost, however many callers and changes there are (trigger,
\* flush).
THEOREM NoTriggerLost == GuiSpec => []LastTriggerTold
<1>1. LimitInv => LastTriggerTold
  BY DEF LimitInv, ChangeIsUnderway, Underway, LastTriggerTold,
         Limit!LastTriggerTold
<1>2. QED
  BY <1>1, PartsHold, PTL

\* A toaster at rest shows what is wanted, with a timer that will hide it
\* (run, arm, poke).
THEOREM RestingAgrees == GuiSpec => []ScreenAgrees
<1>1. ToastInv => ScreenAgrees
  BY PartsConstants, Agrees DEF ScreenAgrees
<1>2. QED
  BY <1>1, PartsHold, PTL

\* A timer that comes late, or twice, neither calls too early or out of order
\* nor hides what it was not armed for (flush, run, expire, arm).
THEOREM LateIsHarmless == GuiSpec => LateTimersHarmless
<1>1. LimitInv /\ LimitInv' /\ [GuiNext]_guiVars
        => [told' >= told /\ ~hurried']_(Limit!vars)
  <2> SUFFICES ASSUME LimitInv, LimitInv', Limit!Next
               PROVE  told' >= told /\ ~hurried'
    BY StepOfParts
  <2> USE DEF LimitInv, Limit!TypeOK
  <2>1. ASSUME NEW t \in Limit!Thread, Limit!Emit(t) PROVE told' >= told
    BY <2>1 DEF Limit!Emit, OneFires
  <2>2. told' >= told
    BY <2>1 DEF Limit!Next, Limit!Step, Limit!Tick, Limit!Stop, Limit!Change,
                Limit!Trigger, Limit!TimerFires, Limit!Flush, Limit!Fire
  <2>3. QED
    BY <2>2
<1>2. ToastInv /\ [GuiNext]_guiVars
        => [want /\ ~want' =>
              \/ age = Duration
              \/ \E r \in reports \ reports' :
                   r.click \in acted => aim[r.click] < gen]_(Toasts!vars)
  BY PartsConstants, StepOfParts, HidesInTime
<1>3. ToastInv' => [\A g \in Toasts!Gen : opened'[g] <= 1]_(Toasts!vars)
  BY DEF ToastInv, ClicksFollow
<1>4. QED
  BY <1>1, <1>2, <1>3, PartsHold, PTL
     DEF GuiSpec, LateTimersHarmless, Limit!CallsInOrder,
         Toasts!OnlyTimeOrAClickHides, Toasts!OnlyTimeOrAClick,
         Toasts!OpenedOnce
=============================================================================
