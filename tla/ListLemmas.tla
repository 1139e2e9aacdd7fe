----------------------------- MODULE ListLemmas -----------------------------
(* What the operators of Lists return. *)
EXTENDS Lists, FiniteSetTheorems, SequenceTheorems, TLAPS

LEMMA PartsOfIntervals ==
  ASSUME NEW a \in Int, NEW b \in Int, NEW T \in SUBSET (a .. b)
  PROVE  T \in SUBSET Int /\ IsFiniteSet(T)
<1>1. IsFiniteSet(a .. b)
  BY FS_Interval
<1>2. IsFiniteSet(T)
  BY <1>1, FS_Subset
<1>3. T \in SUBSET Int
  OBVIOUS
<1> QED BY <1>2, <1>3

\* Different elements of a finite set of numbers have different ranks, so every
\* number up to its size is a rank.
LEMMA RankBijective ==
  ASSUME NEW S \in SUBSET Int, IsFiniteSet(S)
  PROVE  /\ Cardinality(S) \in Nat
         /\ \A s \in S : Rank(S, s) \in 1 .. Cardinality(S)
         /\ \A s, t \in S : Rank(S, s) = Rank(S, t) => s = t
         /\ \A n \in 1 .. Cardinality(S) : \E s \in S : Rank(S, s) = n
<1> DEFINE c == Cardinality(S)
           below(s) == {t \in S : t <= s}
           rank == [s \in S |-> Rank(S, s)]
<1>1. c \in Nat
  BY FS_CardinalityType
<1>2. ASSUME NEW s \in S
      PROVE  IsFiniteSet(below(s)) /\ Rank(S, s) \in 1 .. c
  <2>1. below(s) \in SUBSET S
    OBVIOUS
  <2>2. IsFiniteSet(below(s)) /\ Cardinality(below(s)) <= c
    BY <2>1, FS_Subset
  <2>3. Cardinality(below(s)) \in Nat
    BY <2>2, FS_CardinalityType
  <2>4. s \in below(s)
    OBVIOUS
  <2>5. Cardinality(below(s)) # 0
    BY <2>2, <2>4, FS_EmptySet
  <2> QED BY <1>1, <2>2, <2>3, <2>5 DEF Rank
<1>3. ASSUME NEW s \in S, NEW t \in S, s < t
      PROVE  Rank(S, s) # Rank(S, t)
  <2>1. s \in Int /\ t \in Int /\ \A x \in S : x \in Int
    OBVIOUS
  <2>2. \A x \in S : x <= s => x <= t
    BY <2>1, <1>3
  <2>3. t <= t /\ ~(t <= s)
    BY <2>1, <1>3
  <2>4. below(s) \in SUBSET below(t) /\ t \in below(t) /\ t \notin below(s)
    BY <2>2, <2>3
  <2>5. IsFiniteSet(below(t))
    BY <1>2
  <2>6. Cardinality(below(t)) # Cardinality(below(s))
    BY <2>4, <2>5, FS_Subset
  <2> QED BY <2>6 DEF Rank
<1>4. ASSUME NEW s \in S, NEW t \in S, Rank(S, s) = Rank(S, t)
      PROVE  s = t
  <2>1. s \in Int /\ t \in Int /\ ~(s < t) /\ ~(t < s)
    BY <1>3, <1>4
  <2> QED BY <2>1
<1>5. rank \in [S -> 1 .. c] /\ \A s, t \in S : rank[s] = rank[t] => s = t
  BY <1>2, <1>4
<1>6. rank \in Injection(S, 1 .. c)
  BY <1>5 DEF Injection, IsInjective
<1>7. IsFiniteSet(1 .. c) /\ Cardinality(1 .. c) = c
  BY <1>1, FS_Interval
<1>8. rank \in Surjection(S, 1 .. c)
  BY <1>6, <1>7, FS_Injection
<1>9. \A n \in 1 .. c : \E s \in S : rank[s] = n
  BY <1>8 DEF Surjection
<1> QED BY <1>1, <1>2, <1>4, <1>9

\* Ascending lists the elements of a set, each once.
LEMMA AscendingLists ==
  ASSUME NEW S \in SUBSET Int, IsFiniteSet(S)
  PROVE  /\ Ascending(S) \in Seq(S)
         /\ Len(Ascending(S)) = Cardinality(S)
         /\ Elements(Ascending(S)) = S
         /\ \A i, j \in 1 .. Cardinality(S) : Ascending(S)[i] = Ascending(S)[j] => i = j
<1> DEFINE c == Cardinality(S)
<1>1. c \in Nat
  BY RankBijective
<1>2. ASSUME NEW n \in 1 .. c
      PROVE  Ascending(S)[n] \in S /\ Rank(S, Ascending(S)[n]) = n
  <2>1. \E s \in S : Rank(S, s) = n
    BY RankBijective
  <2>2. Ascending(S)[n] = CHOOSE s \in S : Rank(S, s) = n
    BY DEF Ascending
  <2> QED BY <2>1, <2>2
<1>3. Ascending(S) \in [1 .. c -> S]
  BY <1>2 DEF Ascending
<1>4. Ascending(S) \in Seq(S) /\ Len(Ascending(S)) = c
  BY <1>1, <1>3
<1>5. ASSUME NEW s \in S
      PROVE  s \in Elements(Ascending(S))
  <2>1. Rank(S, s) \in 1 .. c
    BY RankBijective
  <2>2. PICK x \in S : x = Ascending(S)[Rank(S, s)] /\ Rank(S, x) = Rank(S, s)
    BY <1>2, <2>1
  <2>3. x = s
    BY <2>2, RankBijective
  <2> QED BY <1>4, <2>1, <2>2, <2>3 DEF Elements
<1>6. Elements(Ascending(S)) = S
  BY <1>2, <1>4, <1>5 DEF Elements
<1>7. \A i, j \in 1 .. c : Ascending(S)[i] = Ascending(S)[j] => i = j
  BY <1>2
<1> QED BY <1>4, <1>6, <1>7

\* A list has as many elements as entries exactly when none is repeated.
LEMMA NoRepetition ==
  ASSUME NEW S, NEW f \in Seq(S)
  PROVE  /\ IsFiniteSet(Elements(f))
         /\ Len(f) = Cardinality(Elements(f))
              <=> \A i, j \in 1 .. Len(f) : f[i] = f[j] => i = j
<1> DEFINE T == Elements(f)
           n == Len(f)
<1>1. n \in Nat /\ f \in [1 .. n -> T] /\ \A t \in T : \E i \in 1 .. n : f[i] = t
  BY DEF Elements
<1>2. f \in Surjection(1 .. n, T)
  BY <1>1 DEF Surjection
<1>3. IsFiniteSet(1 .. n) /\ Cardinality(1 .. n) = n
  <2> SUFFICES ASSUME NEW k \in Nat PROVE IsFiniteSet(1 .. k) /\ Cardinality(1 .. k) = k
    BY <1>1
  <2> QED BY FS_Interval
<1>4. IsFiniteSet(T) /\ (Cardinality(T) = n <=> f \in Injection(1 .. n, T))
  BY <1>2, <1>3, FS_Surjection
<1>5. f \in Injection(1 .. n, T) <=> \A i, j \in 1 .. n : f[i] = f[j] => i = j
  BY <1>1 DEF Injection, IsInjective
<1> QED BY <1>4, <1>5

\* Two lists without a repetition and without a common element, one after the other.
LEMMA ConcatLists ==
  ASSUME NEW S, NEW f \in Seq(S), NEW g \in Seq(S),
         \A i, j \in 1 .. Len(f) : f[i] = f[j] => i = j,
         \A i, j \in 1 .. Len(g) : g[i] = g[j] => i = j,
         Elements(f) \cap Elements(g) = {}
  PROVE  /\ Elements(f \o g) = Elements(f) \cup Elements(g)
         /\ \A i, j \in 1 .. Len(f \o g) : (f \o g)[i] = (f \o g)[j] => i = j
<1> DEFINE m == Len(f)
           n == Len(g)
           h == f \o g
<1>1. /\ m \in Nat /\ n \in Nat /\ Len(h) = m + n
      /\ \A i \in 1 .. m : h[i] = f[i]
      /\ \A i \in m + 1 .. m + n : h[i] = g[i - m]
  OBVIOUS
<1> HIDE DEF m, n, h
<1>2. /\ \A i \in 1 .. m : f[i] \in Elements(f)
      /\ \A i \in 1 .. n : g[i] \in Elements(g)
  BY DEF m, n, Elements
<1>3. ASSUME NEW e \in Elements(h) PROVE e \in Elements(f) \cup Elements(g)
  <2>1. PICK i \in 1 .. m + n : h[i] = e
    BY <1>1 DEF Elements
  <2>2. i \in 1 .. m \/ (i \in m + 1 .. m + n /\ i - m \in 1 .. n)
    BY <1>1
  <2> QED BY <1>1, <1>2, <2>1, <2>2
<1>4. ASSUME NEW e \in Elements(f) PROVE e \in Elements(h)
  <2>1. PICK i \in 1 .. m : f[i] = e
    BY DEF Elements, m
  <2>2. i \in 1 .. m + n /\ h[i] = e
    BY <1>1, <2>1
  <2> QED BY <1>1, <2>2 DEF Elements
<1>5. ASSUME NEW e \in Elements(g) PROVE e \in Elements(h)
  <2>1. PICK i \in 1 .. n : g[i] = e
    BY DEF Elements, n
  <2>2. m + i \in m + 1 .. m + n /\ m + i \in 1 .. m + n /\ (m + i) - m = i
    BY <1>1
  <2> QED BY <1>1, <2>1, <2>2, ZenonT(40) DEF Elements
<1>6. ASSUME NEW i \in 1 .. m + n, NEW j \in 1 .. m + n, h[i] = h[j]
      PROVE  i = j
  <2>1. CASE i \in 1 .. m /\ j \in 1 .. m
    BY <1>1, <1>6, <2>1 DEF m
  <2>2. CASE i \in m + 1 .. m + n /\ j \in m + 1 .. m + n
    <3>1. i - m \in 1 .. n /\ j - m \in 1 .. n /\ g[i - m] = g[j - m]
      BY <1>1, <1>6, <2>2
    <3>2. i - m = j - m
      BY <3>1 DEF n
    <3> QED BY <1>1, <3>2
  <2>3. CASE i \in 1 .. m /\ j \in m + 1 .. m + n
    <3>1. h[i] \in Elements(f) /\ j - m \in 1 .. n /\ h[j] \in Elements(g)
      BY <1>1, <1>2, <2>3
    <3> QED BY <1>6, <3>1
  <2>4. CASE i \in m + 1 .. m + n /\ j \in 1 .. m
    <3>1. h[j] \in Elements(f) /\ i - m \in 1 .. n /\ h[i] \in Elements(g)
      BY <1>1, <1>2, <2>4
    <3> QED BY <1>6, <3>1
  <2> QED BY <1>1, <2>1, <2>2, <2>3, <2>4
<1> QED BY <1>1, <1>3, <1>4, <1>5, <1>6 DEF h

LEMMA LeastIs ==
  ASSUME NEW S \in SUBSET Int, IsFiniteSet(S), S # {}
  PROVE  \E s \in S : \A t \in S : s <= t
<1>1. Cardinality(S) \in Nat \ {0}
  BY FS_EmptySet, FS_CardinalityType
<1>2. PICK s \in S : Rank(S, s) = 1
  BY <1>1, RankBijective
<1> DEFINE below == {t \in S : t <= s}
<1>3. below \in SUBSET S /\ s \in below
  OBVIOUS
<1>4. IsFiniteSet(below) /\ Cardinality(below) = 1
  BY <1>2, <1>3, FS_Subset DEF Rank
<1>5. PICK x : below = {x}
  <2> HIDE DEF below
  <2> QED BY <1>4, FS_Singleton
<1>6. \A t \in S : t <= s => t = s
  BY <1>3, <1>5
<1>7. \A t \in S : t \in Int /\ s \in Int
  OBVIOUS
<1> QED BY <1>6, <1>7

LEMMA SublistEntries ==
  ASSUME NEW S, NEW s \in Seq(S), NEW I \in SUBSET (1 .. Len(s))
  PROVE  /\ Sublist(s, I) \in Seq(S)
         /\ Elements(Sublist(s, I)) = {s[i] : i \in I}
<1> DEFINE c == Cardinality(I)
           order == Ascending(I)
           list == Sublist(s, I)
<1>1. Len(s) \in Int /\ \A i \in 1 .. Len(s) : s[i] \in S
  OBVIOUS
<1>2. I \in SUBSET Int /\ IsFiniteSet(I)
  <2>1. 1 \in Int
    OBVIOUS
  <2> QED BY <1>1, <2>1, PartsOfIntervals
<1>3. c \in Nat
  BY <1>2, FS_CardinalityType
<1>4. order \in Seq(I) /\ Len(order) = c /\ Elements(order) = I
  BY <1>2, AscendingLists
<1>5. \A n \in 1 .. c : order[n] \in I
  BY <1>4
<1>6. list = [n \in 1 .. c |-> s[order[n]]]
  BY DEF Sublist
<1> HIDE DEF c, order, list
<1>7. list \in [1 .. c -> S]
  BY <1>1, <1>5, <1>6
<1>8. list \in Seq(S) /\ Len(list) = c
  BY <1>3, <1>7
<1>9. \A i \in I : \E n \in 1 .. c : order[n] = i
  BY <1>4 DEF Elements
<1>10. Elements(list) = {s[i] : i \in I}
  BY <1>5, <1>6, <1>8, <1>9 DEF Elements
<1> QED BY <1>8, <1>10 DEF list

\* Filtered and Firsts have the entries they are made of.
LEMMA FilteredEntries ==
  ASSUME NEW S, NEW s \in Seq(S), NEW T
  PROVE  /\ Filtered(s, T) \in Seq(S)
         /\ Elements(Filtered(s, T)) = Elements(s) \cap T
<1> DEFINE I == {i \in 1 .. Len(s) : s[i] \in T}
<1>1. Filtered(s, T) \in Seq(S) /\ Elements(Filtered(s, T)) = {s[i] : i \in I}
  BY SublistEntries DEF Filtered
<1>2. {s[i] : i \in I} = Elements(s) \cap T
  BY DEF Elements
<1> QED BY <1>1, <1>2

LEMMA FirstsEntries ==
  ASSUME NEW S, NEW s \in Seq(S), NEW T
  PROVE  /\ Firsts(s, T) \in Seq(S)
         /\ Elements(Firsts(s, T)) = Elements(s) \cap T
<1> DEFINE I == {i \in 1 .. Len(s) : s[i] \in T /\ \A j \in 1 .. i - 1 : s[j] # s[i]}
<1>1. Firsts(s, T) \in Seq(S) /\ Elements(Firsts(s, T)) = {s[i] : i \in I}
  BY SublistEntries DEF Firsts
<1>2. ASSUME NEW e \in Elements(s) \cap T
      PROVE  \E i \in I : s[i] = e
  <2> DEFINE J == {i \in 1 .. Len(s) : s[i] = e}
  <2>1. J # {}
    BY DEF Elements
  <2>2. Len(s) \in Int /\ J \in SUBSET (1 .. Len(s))
    OBVIOUS
  <2>3. J \in SUBSET Int /\ IsFiniteSet(J)
    <3> HIDE DEF J
    <3>1. 1 \in Int
      OBVIOUS
    <3> QED BY <2>2, <3>1, PartsOfIntervals
  <2>4. PICK m \in J : \A j \in J : m <= j
    <3> HIDE DEF J
    <3> QED BY <2>1, <2>3, LeastIs
  <2>5. m \in 1 .. Len(s) /\ s[m] = e
    BY <2>4
  <2>6. \A j \in 1 .. m - 1 : j \in 1 .. Len(s) /\ ~(m <= j)
    BY <2>2, <2>5
  <2>7. \A j \in 1 .. m - 1 : s[j] # e
    BY <2>4, <2>6
  <2> QED BY <2>5, <2>7
<1>3. {s[i] : i \in I} = Elements(s) \cap T
  BY <1>2 DEF Elements
<1> QED BY <1>1, <1>3

\* A list with another entry at its end.
LEMMA AppendedEntry ==
  ASSUME NEW S, NEW s \in Seq(S), NEW e \in S
  PROVE  /\ Append(s, e) \in Seq(S) /\ Len(Append(s, e)) = Len(s) + 1 /\ Len(s) \in Nat
         /\ \A i \in 1 .. Len(s) : Append(s, e)[i] = s[i]
         /\ Append(s, e)[Len(s) + 1] = e
         /\ Elements(Append(s, e)) = Elements(s) \cup {e}
<1> DEFINE n == Len(s)
           t == Append(s, e)
<1>1. /\ t \in Seq(S) /\ Len(t) = n + 1 /\ n \in Nat
      /\ \A i \in 1 .. n : t[i] = s[i]
      /\ t[n + 1] = e
  OBVIOUS
<1> HIDE DEF n, t
<1>2. \A i \in 1 .. n + 1 : i \in 1 .. n \/ i = n + 1
  BY <1>1
<1>3. n + 1 \in 1 .. n + 1 /\ \A i \in 1 .. n : i \in 1 .. n + 1
  BY <1>1
<1>4. Elements(t) = Elements(s) \cup {e}
  BY <1>1, <1>2, <1>3 DEF Elements, n
<1> QED BY <1>1, <1>4 DEF n, t

LEMMA PoppedEntry ==
  ASSUME NEW S, NEW s \in Seq(S), s # <<>>
  PROVE  /\ Len(s) \in Nat \ {0} /\ s[Len(s)] \in S
         /\ SubSeq(s, 1, Len(s) - 1) \in Seq(S)
         /\ Len(SubSeq(s, 1, Len(s) - 1)) = Len(s) - 1
         /\ \A i \in 1 .. Len(s) - 1 : SubSeq(s, 1, Len(s) - 1)[i] = s[i]
<1> DEFINE n == Len(s)
<1>1. n \in Nat \ {0} /\ \A i \in 1 .. n : s[i] \in S
  OBVIOUS
<1>2. n \in 1 .. n /\ 1 \in Int /\ n - 1 \in Int /\ \A i \in 1 .. n - 1 : s[i] \in S
  BY <1>1
<1>3. /\ SubSeq(s, 1, n - 1) \in Seq(S)
      /\ Len(SubSeq(s, 1, n - 1)) = IF 1 <= n - 1 THEN (n - 1) - 1 + 1 ELSE 0
      /\ \A i \in 1 .. (n - 1) - 1 + 1 : SubSeq(s, 1, n - 1)[i] = s[1 + i - 1]
  BY <1>2, SubSeqProperties
<1> HIDE DEF n
<1>4. Len(SubSeq(s, 1, n - 1)) = n - 1 /\ (n - 1) - 1 + 1 = n - 1
      /\ \A i \in 1 .. n - 1 : 1 + i - 1 = i
  BY <1>1, <1>3
<1>5. \A i \in 1 .. n - 1 : SubSeq(s, 1, n - 1)[i] = s[i]
  BY <1>3, <1>4
<1> QED BY <1>1, <1>2, <1>3, <1>4, <1>5 DEF n

\* A list made from a set of numbers ascends.
LEMMA AscendingIncreases ==
  ASSUME NEW S \in SUBSET Int, IsFiniteSet(S),
         NEW i \in 1 .. Cardinality(S), NEW j \in 1 .. Cardinality(S), i < j
  PROVE  /\ Ascending(S)[i] \in S /\ Ascending(S)[j] \in S
         /\ Ascending(S)[i] < Ascending(S)[j]
<1>1. ASSUME NEW n \in 1 .. Cardinality(S)
      PROVE  Ascending(S)[n] \in S /\ Rank(S, Ascending(S)[n]) = n
  <2>1. \E s \in S : Rank(S, s) = n
    BY RankBijective
  <2>2. Ascending(S)[n] = CHOOSE s \in S : Rank(S, s) = n
    BY DEF Ascending
  <2> QED BY <2>1, <2>2
<1> DEFINE a == Ascending(S)[i]
           b == Ascending(S)[j]
           below(s) == {t \in S : t <= s}
<1>2. a \in S /\ b \in S /\ Rank(S, a) = i /\ Rank(S, b) = j
  BY <1>1
<1> HIDE DEF a, b
<1>3. a \in Int /\ b \in Int /\ \A t \in S : t \in Int
  BY <1>2
<1>4. ASSUME b <= a PROVE FALSE
  <2>1. below(b) \in SUBSET below(a)
    <3> SUFFICES ASSUME NEW t \in S, t <= b PROVE t <= a
      OBVIOUS
    <3>1. t \in Int
      BY <1>3
    <3> QED BY <1>3, <1>4, <3>1
  <2>2. IsFiniteSet(below(a))
    BY FS_Subset
  <2>3. Cardinality(below(b)) <= Cardinality(below(a))
    BY <2>1, <2>2, FS_Subset
  <2>4. j <= i
    BY <1>2, <2>3 DEF Rank
  <2> QED BY <2>4
<1> QED BY <1>2, <1>3, <1>4 DEF a, b

\* What is left of an ascending list ascends.
LEMMA FilteredIncreases ==
  ASSUME NEW S \in SUBSET Int, NEW s \in Seq(S), NEW T,
         \A i, j \in 1 .. Len(s) : i < j => s[i] < s[j]
  PROVE  \A i, j \in 1 .. Len(Filtered(s, T)) :
            i < j => Filtered(s, T)[i] < Filtered(s, T)[j]
<1> DEFINE I == {i \in 1 .. Len(s) : s[i] \in T}
           c == Cardinality(I)
<1>1. I \in SUBSET Int /\ IsFiniteSet(I) /\ I \in SUBSET (1 .. Len(s))
  <2>1. Len(s) \in Int /\ 1 \in Int
    OBVIOUS
  <2>2. I \in SUBSET (1 .. Len(s))
    OBVIOUS
  <2> HIDE DEF I
  <2> QED BY <2>1, <2>2, PartsOfIntervals
<1>2. c \in Nat
  BY <1>1, FS_CardinalityType
<1>3. Filtered(s, T) = [n \in 1 .. c |-> s[Ascending(I)[n]]]
  BY DEF Filtered, Sublist
<1> HIDE DEF I, c
<1>4. Len(Filtered(s, T)) = c
  BY <1>2, <1>3
<1>5. ASSUME NEW i \in 1 .. c, NEW j \in 1 .. c, i < j
      PROVE  Filtered(s, T)[i] < Filtered(s, T)[j]
  <2>1. /\ Ascending(I)[i] \in I /\ Ascending(I)[j] \in I
        /\ Ascending(I)[i] < Ascending(I)[j]
    BY <1>1, <1>5, AscendingIncreases DEF c
  <2>2. s[Ascending(I)[i]] < s[Ascending(I)[j]]
    BY <1>1, <2>1
  <2> QED BY <1>3, <2>2
<1> QED BY <1>4, <1>5

\* Numbers that grow from one place to the next grow from any place to a later one.
LEMMA ClimbingNumbers ==
  ASSUME NEW n \in Nat, NEW f \in [0 .. n -> Int], \A k \in 1 .. n : f[k - 1] < f[k],
         NEW i \in 0 .. n, NEW j \in 0 .. n, i < j
  PROVE  f[i] < f[j]
<1> DEFINE S == {k \in i + 1 .. n : ~(f[i] < f[k])}
<1> SUFFICES ASSUME ~(f[i] < f[j]) PROVE FALSE
  OBVIOUS
<1>1. j \in S
  OBVIOUS
<1>2. S \in SUBSET Int /\ IsFiniteSet(S)
  <2>1. S \in SUBSET (i + 1 .. n) /\ i + 1 \in Int /\ n \in Int
    OBVIOUS
  <2> HIDE DEF S
  <2> QED BY <2>1, PartsOfIntervals
<1>3. PICK k \in S : \A m \in S : k <= m
  <2> HIDE DEF S
  <2> QED BY <1>1, <1>2, LeastIs
<1>4. k \in 1 .. n /\ k \in i + 1 .. n /\ ~(f[i] < f[k]) /\ k - 1 \in 0 .. n
  BY <1>3
<1>5. f[k - 1] < f[k] /\ f[k - 1] \in Int /\ f[k] \in Int /\ f[i] \in Int
  BY <1>4
<1>6. k # i + 1
  <2> SUFFICES ASSUME k = i + 1 PROVE FALSE
    OBVIOUS
  <2>1. k - 1 = i
    OBVIOUS
  <2> QED BY <1>4, <1>5, <2>1
<1>7. k - 1 \in i + 1 .. n /\ ~(k <= k - 1)
  BY <1>4, <1>6
<1>8. f[i] < f[k - 1]
  BY <1>3, <1>7
<1> QED BY <1>4, <1>5, <1>8

\* So do numbers that do not fall.
LEMMA RisingNumbers ==
  ASSUME NEW n \in Nat, NEW f \in [0 .. n -> Int], \A k \in 1 .. n : f[k - 1] <= f[k],
         NEW i \in 0 .. n, NEW j \in 0 .. n, i < j
  PROVE  f[i] <= f[j]
<1> DEFINE S == {k \in i + 1 .. n : ~(f[i] <= f[k])}
<1> SUFFICES ASSUME ~(f[i] <= f[j]) PROVE FALSE
  OBVIOUS
<1>1. j \in S
  OBVIOUS
<1>2. S \in SUBSET Int /\ IsFiniteSet(S)
  <2>1. S \in SUBSET (i + 1 .. n) /\ i + 1 \in Int /\ n \in Int
    OBVIOUS
  <2> HIDE DEF S
  <2> QED BY <2>1, PartsOfIntervals
<1>3. PICK k \in S : \A m \in S : k <= m
  <2> HIDE DEF S
  <2> QED BY <1>1, <1>2, LeastIs
<1>4. k \in 1 .. n /\ k \in i + 1 .. n /\ ~(f[i] <= f[k]) /\ k - 1 \in 0 .. n
  BY <1>3
<1>5. f[k - 1] <= f[k] /\ f[k - 1] \in Int /\ f[k] \in Int /\ f[i] \in Int
  BY <1>4
<1>6. k # i + 1
  <2> SUFFICES ASSUME k = i + 1 PROVE FALSE
    OBVIOUS
  <2>1. k - 1 = i
    OBVIOUS
  <2> QED BY <1>4, <1>5, <2>1
<1>7. k - 1 \in i + 1 .. n /\ ~(k <= k - 1)
  BY <1>4, <1>6
<1>8. f[i] <= f[k - 1]
  BY <1>3, <1>7
<1> QED BY <1>4, <1>5, <1>8

\* In a finite set every place of a strict order is taken.
LEMMA OrderRanks ==
  ASSUME NEW S, IsFiniteSet(S), NEW R,
         \A a \in S : <<a, a>> \notin R,
         \A a, b \in S : a # b => <<a, b>> \in R \/ <<b, a>> \in R,
         \A a, b, c \in S : <<a, b>> \in R /\ <<b, c>> \in R => <<a, c>> \in R
  PROVE  /\ \A a, b \in S :
              <<a, b>> \in R <=> Cardinality({x \in S : <<x, a>> \in R})
                                   < Cardinality({x \in S : <<x, b>> \in R})
         /\ \A n \in 1 .. Cardinality(S) :
              \E a \in S : Cardinality({x \in S : <<x, a>> \in R}) = n - 1
<1> DEFINE before(a) == {x \in S : <<x, a>> \in R}
           c == Cardinality(S)
           rank == [a \in S |-> Cardinality(before(a))]
<1>1. c \in Nat
  BY FS_CardinalityType
<1>2. ASSUME NEW a \in S
      PROVE  IsFiniteSet(before(a)) /\ Cardinality(before(a)) \in 0 .. c - 1
  <2>1. before(a) \in SUBSET S /\ before(a) # S
    OBVIOUS
  <2> HIDE DEF before
  <2>2. IsFiniteSet(before(a)) /\ Cardinality(before(a)) <= c /\ Cardinality(before(a)) # c
    BY <2>1, FS_Subset
  <2>3. Cardinality(before(a)) \in Nat
    BY <2>2, FS_CardinalityType
  <2> QED BY <1>1, <2>2, <2>3
<1>3. ASSUME NEW a \in S, NEW b \in S, <<a, b>> \in R
      PROVE  Cardinality(before(a)) < Cardinality(before(b))
  <2>1. before(a) \in SUBSET before(b) /\ a \in before(b) /\ a \notin before(a)
    BY <1>3
  <2>2. IsFiniteSet(before(b)) /\ Cardinality(before(a)) \in Int /\ Cardinality(before(b)) \in Int
    BY <1>2
  <2> HIDE DEF before
  <2>3. Cardinality(before(a)) <= Cardinality(before(b))
        /\ Cardinality(before(a)) # Cardinality(before(b))
    BY <2>1, <2>2, FS_Subset
  <2> QED BY <2>2, <2>3
<1>4. ASSUME NEW a \in S, NEW b \in S, Cardinality(before(a)) < Cardinality(before(b))
      PROVE  <<a, b>> \in R
  <2>1. Cardinality(before(a)) \in Int /\ Cardinality(before(b)) \in Int
    BY <1>2
  <2>2. a # b
    <3> HIDE DEF before
    <3> QED BY <1>4, <2>1
  <2>3. ASSUME <<b, a>> \in R PROVE FALSE
    <3>1. Cardinality(before(b)) < Cardinality(before(a))
      BY <1>3, <2>3
    <3> HIDE DEF before
    <3> QED BY <1>4, <2>1, <3>1
  <2> QED BY <2>2, <2>3
<1>5. ASSUME NEW n \in 1 .. c
      PROVE  \E a \in S : Cardinality(before(a)) = n - 1
  <2>1. rank \in [S -> 0 .. c - 1]
    <3> HIDE DEF before, c
    <3> QED BY <1>2
  <2>2. \A a, b \in S : rank[a] = rank[b] => a = b
    <3> SUFFICES ASSUME NEW a \in S, NEW b \in S, rank[a] = rank[b], a # b PROVE FALSE
      OBVIOUS
    <3>1. Cardinality(before(a)) = Cardinality(before(b)) /\ Cardinality(before(a)) \in Int
      BY <1>2
    <3>2. <<a, b>> \notin R /\ <<b, a>> \notin R
      BY <1>3, <3>1
    <3> QED BY <3>2
  <2>3. rank \in Injection(S, 0 .. c - 1)
    <3> HIDE DEF rank
    <3> QED BY <2>1, <2>2 DEF Injection, IsInjective
  <2>4. IsFiniteSet(0 .. c - 1) /\ Cardinality(0 .. c - 1) = c
    <3>1. 0 \in Int /\ c - 1 \in Int
      BY <1>1
    <3>2. IsFiniteSet(0 .. c - 1) /\ Cardinality(0 .. c - 1) = IF 0 > c - 1 THEN 0 ELSE c - 1 - 0 + 1
      BY <3>1, FS_Interval
    <3> HIDE DEF c
    <3> QED BY <1>1, <3>2
  <2>5. rank \in Surjection(S, 0 .. c - 1)
    <3> HIDE DEF rank
    <3> QED BY <2>3, <2>4, FS_Injection
  <2>6. n - 1 \in 0 .. c - 1
    BY <1>1
  <2>7. PICK a \in S : rank[a] = n - 1
    <3> HIDE DEF rank, c
    <3> QED BY <2>5, <2>6 DEF Surjection
  <2> QED BY <2>7
<1> QED BY <1>3, <1>4, <1>5

=============================================================================
