------------------------------- MODULE Sorting ------------------------------
(***************************************************************************)
(* Sequences in the order of a relation: that a finite set has one such    *)
(* sequence, and that the first elements of a set are also the first of    *)
(* any part of it that has them.  And sums over sets.                      *)
(***************************************************************************)
EXTENDS Integers, SequencesExt, Induction, FiniteSetTheorems

\* R orders the elements of S one after the other.
Orders(R, S) ==
    /\ \A x \in S : <<x, x>> \notin R
    /\ \A x, y \in S : x = y \/ <<x, y>> \in R \/ <<y, x>> \in R
    /\ \A x, y, z \in S : <<x, y>> \in R /\ <<y, z>> \in R => <<x, z>> \in R

Ahead(S, R, d) == {e \in S : <<e, d>> \in R}

Place(S, R, d) == Cardinality(Ahead(S, R, d))

\* Every element comes before those that follow it.
Ascends(t, R) == \A i, j \in 1 .. Len(t) : i < j => <<t[i], t[j]>> \in R

Sorted(S, R) ==
    [k \in 1 .. Cardinality(S) |-> CHOOSE d \in S : Place(S, R, d) = k - 1]

\* What is ahead of an element is finite and does not have the element.
LEMMA PlaceType ==
    ASSUME NEW S, IsFiniteSet(S), NEW R, Orders(R, S), NEW d \in S
    PROVE  /\ IsFiniteSet(Ahead(S, R, d)) /\ Ahead(S, R, d) \subseteq S
           /\ Place(S, R, d) \in 0 .. Cardinality(S) - 1
<1>1. Ahead(S, R, d) \subseteq S /\ d \notin Ahead(S, R, d)
  BY DEF Ahead, Orders
<1>2. /\ IsFiniteSet(Ahead(S, R, d))
      /\ Cardinality(Ahead(S, R, d)) <= Cardinality(S)
      /\ Cardinality(Ahead(S, R, d)) = Cardinality(S) => Ahead(S, R, d) = S
  BY <1>1, FS_Subset
<1>3. Cardinality(Ahead(S, R, d)) \in Nat /\ Cardinality(S) \in Nat
  BY <1>2, FS_CardinalityType
<1> QED
  BY <1>1, <1>2, <1>3 DEF Place

LEMMA PlaceGrows ==
    ASSUME NEW S, IsFiniteSet(S), NEW R, Orders(R, S), NEW d \in S, NEW e \in S, <<d, e>> \in R
    PROVE  Place(S, R, d) < Place(S, R, e)
<1>1. Ahead(S, R, d) \subseteq Ahead(S, R, e)
  BY DEF Ahead, Orders
<1>2. d \in Ahead(S, R, e) /\ d \notin Ahead(S, R, d)
  BY DEF Ahead, Orders
<1>3. /\ Cardinality(Ahead(S, R, d)) <= Cardinality(Ahead(S, R, e))
      /\ Cardinality(Ahead(S, R, e)) = Cardinality(Ahead(S, R, d))
             => Ahead(S, R, e) = Ahead(S, R, d)
  BY <1>1, PlaceType, FS_Subset
<1>4. Place(S, R, d) \in Nat /\ Place(S, R, e) \in Nat
  BY PlaceType
<1> QED
  BY <1>2, <1>3, <1>4 DEF Place

LEMMA OnePlace ==
    ASSUME NEW S, IsFiniteSet(S), NEW R, Orders(R, S), NEW d \in S, NEW e \in S, d # e
    PROVE  Place(S, R, d) # Place(S, R, e)
<1>1. Place(S, R, d) \in Int /\ Place(S, R, e) \in Int
  BY PlaceType
<1>2. <<d, e>> \in R \/ <<e, d>> \in R
  BY DEF Orders
<1> QED
  BY <1>1, <1>2, PlaceGrows

\* Every place is taken.
LEMMA PlaceTaken ==
    ASSUME NEW S, IsFiniteSet(S), NEW R, Orders(R, S), NEW k \in 0 .. Cardinality(S) - 1
    PROVE  \E d \in S : Place(S, R, d) = k
<1> DEFINE n == Cardinality(S)
           T == 0 .. n - 1
           f == [d \in S |-> Place(S, R, d)]
<1>1. n \in Nat
  BY FS_CardinalityType
<1>2. f \in Injection(S, T)
  <2>1. f \in [S -> T]
    BY PlaceType
  <2>2. \A d, e \in S : f[d] = f[e] => d = e
    <3>1. \A d \in S : f[d] = Place(S, R, d)
      OBVIOUS
    <3> HIDE DEF f
    <3>2. ASSUME NEW d \in S, NEW e \in S, f[d] = f[e]
          PROVE  d = e
      <4>1. Place(S, R, d) = Place(S, R, e)
        BY <3>1, <3>2
      <4> QED
        BY <4>1, OnePlace
    <3> QED
      BY <3>2
  <2> HIDE DEF f, T
  <2> QED
    BY <2>1, <2>2 DEF Injection, IsInjective
<1>3. IsFiniteSet(T) /\ Cardinality(T) = n
  <2>1. IsFiniteSet(0 .. n - 1) /\ Cardinality(0 .. n - 1) = IF 0 > n - 1 THEN 0 ELSE n - 1 - 0 + 1
    <3>1. 0 \in Int /\ n - 1 \in Int
      BY <1>1
    <3> HIDE DEF n
    <3> QED
      BY <3>1, FS_Interval
  <2> QED
    BY <1>1, <2>1
<1>4. f \in Surjection(S, T)
  <2> HIDE DEF f, T
  <2> QED
    BY <1>2, <1>3, FS_Injection DEF n
<1> QED
  BY <1>4 DEF Surjection

LEMMA SortedFacts ==
    ASSUME NEW S, IsFiniteSet(S), NEW R, Orders(R, S)
    PROVE  /\ Sorted(S, R) \in Seq(S) /\ Len(Sorted(S, R)) = Cardinality(S)
           /\ \A k \in 1 .. Cardinality(S) : /\ Sorted(S, R)[k] \in S
                                             /\ Place(S, R, Sorted(S, R)[k]) = k - 1
           /\ \A d \in S : /\ Place(S, R, d) + 1 \in 1 .. Cardinality(S)
                           /\ Sorted(S, R)[Place(S, R, d) + 1] = d
<1>1. Cardinality(S) \in Nat
  BY FS_CardinalityType
<1>2. ASSUME NEW k \in 1 .. Cardinality(S)
      PROVE  Sorted(S, R)[k] \in S /\ Place(S, R, Sorted(S, R)[k]) = k - 1
  <2>1. \E d \in S : Place(S, R, d) = k - 1
    BY <1>1, PlaceTaken
  <2> QED
    BY <2>1 DEF Sorted
<1>3. Sorted(S, R) \in Seq(S) /\ Len(Sorted(S, R)) = Cardinality(S)
  <2>1. Sorted(S, R) \in [1 .. Cardinality(S) -> S]
    BY <1>2 DEF Sorted
  <2> QED
    BY <1>1, <2>1
<1>4. ASSUME NEW d \in S
      PROVE  /\ Place(S, R, d) + 1 \in 1 .. Cardinality(S)
             /\ Sorted(S, R)[Place(S, R, d) + 1] = d
  <2> DEFINE p == Place(S, R, d) + 1
             e == Sorted(S, R)[p]
  <2>1. Place(S, R, d) \in 0 .. Cardinality(S) - 1
    BY PlaceType
  <2>2. p \in 1 .. Cardinality(S) /\ p - 1 = Place(S, R, d)
    BY <1>1, <2>1
  <2> HIDE DEF p
  <2>3. e \in S /\ Place(S, R, e) = p - 1
    BY <1>2, <2>2
  <2> HIDE DEF e
  <2>4. ASSUME NEW x \in S, Place(S, R, x) = p - 1
        PROVE  x = d
    BY <2>2, <2>4, OnePlace
  <2> QED
    BY <2>2, <2>3, <2>4 DEF e, p
<1> QED
  BY <1>2, <1>3, <1>4

LEMMA SortedAscends ==
    ASSUME NEW S, IsFiniteSet(S), NEW R, Orders(R, S)
    PROVE  /\ Ascends(Sorted(S, R), R)
           /\ ToSet(Sorted(S, R)) = S
<1> DEFINE t == Sorted(S, R)
           n == Cardinality(S)
<1>1. /\ t \in Seq(S) /\ Len(t) = n
      /\ \A k \in 1 .. n : t[k] \in S /\ Place(S, R, t[k]) = k - 1
      /\ \A d \in S : Place(S, R, d) + 1 \in 1 .. n /\ t[Place(S, R, d) + 1] = d
  BY SortedFacts
<1>2. n \in Nat
  BY FS_CardinalityType
<1> HIDE DEF t, n
<1>3. ASSUME NEW i \in 1 .. n, NEW j \in 1 .. n, i < j
      PROVE  <<t[i], t[j]>> \in R
  <2>1. t[i] \in S /\ t[j] \in S /\ Place(S, R, t[i]) = i - 1 /\ Place(S, R, t[j]) = j - 1
    BY <1>1
  <2>2. i \in Int /\ j \in Int
    BY <1>2
  <2>3. ~(<<t[j], t[i]>> \in R)
    <3> SUFFICES ASSUME <<t[j], t[i]>> \in R PROVE FALSE
      OBVIOUS
    <3>1. Place(S, R, t[j]) < Place(S, R, t[i])
      BY <2>1, PlaceGrows
    <3> QED
      BY <1>3, <2>1, <2>2, <3>1
  <2>4. t[i] # t[j]
    <3>1. i - 1 # j - 1
      BY <1>3, <2>2
    <3> QED
      BY <2>1, <3>1
  <2> QED
    BY <2>1, <2>3, <2>4 DEF Orders
<1>4. Ascends(t, R)
  BY <1>1, <1>3 DEF Ascends
<1>5. ToSet(t) = S
  <2>1. DOMAIN t = 1 .. n
    BY <1>1
  <2> QED
    BY <1>1, <2>1 DEF ToSet
<1> QED
  BY <1>4, <1>5 DEF t

\* There is one sequence of the elements of S in the order of R.
LEMMA SortedUnique ==
    ASSUME NEW S, IsFiniteSet(S), NEW R, Orders(R, S), NEW t \in Seq(S),
           \A d \in S : \E i \in 1 .. Len(t) : t[i] = d,
           Ascends(t, R)
    PROVE  t = Sorted(S, R)
<1> DEFINE n == Len(t)
<1>1. n \in Nat /\ t \in [1 .. n -> S]
  OBVIOUS
<1> HIDE DEF n
<1>2. ASSUME NEW i \in 1 .. n, NEW j \in 1 .. n
      PROVE  /\ <<t[i], t[j]>> \in R <=> i < j
             /\ t[i] = t[j] <=> i = j
  <2>1. t[i] \in S /\ t[j] \in S
    BY <1>1
  <2>2. i < j \/ i = j \/ j < i
    BY <1>1
  <2>3. <<t[i], t[i]>> \notin R /\ ~(<<t[i], t[j]>> \in R /\ <<t[j], t[i]>> \in R)
    BY <2>1 DEF Orders
  <2>4. /\ i < j => <<t[i], t[j]>> \in R
        /\ j < i => <<t[j], t[i]>> \in R
    BY DEF n, Ascends
  <2>5. i = j => ~(i < j)
    BY <1>1
  <2> QED
    BY <2>2, <2>3, <2>4, <2>5
<1>3. ASSUME NEW k \in 1 .. n
      PROVE  Place(S, R, t[k]) = k - 1
  <2> DEFINE A == Ahead(S, R, t[k])
             f == [i \in 1 .. k - 1 |-> t[i]]
  <2>1. ASSUME NEW i \in 1 .. k - 1
        PROVE  i \in 1 .. n /\ i < k
    BY <1>1
  <2>2. \A i \in 1 .. k - 1 : t[i] \in A
    BY <1>1, <1>2, <2>1 DEF Ahead
  <2>3. ASSUME NEW d \in A
        PROVE  \E i \in 1 .. k - 1 : t[i] = d
    <3>1. d \in S /\ <<d, t[k]>> \in R
      BY DEF Ahead
    <3>2. PICK i \in 1 .. n : t[i] = d
      BY <3>1 DEF n
    <3>3. i < k
      BY <1>2, <3>1, <3>2
    <3>4. i \in 1 .. k - 1
      BY <1>1, <3>3
    <3> QED
      BY <3>2, <3>4
  <2> HIDE DEF A
  <2>4. f \in [1 .. k - 1 -> A] /\ \A i, j \in 1 .. k - 1 : f[i] = f[j] => i = j
    BY <1>2, <2>1, <2>2
  <2>5. \A d \in A : \E i \in 1 .. k - 1 : f[i] = d
    BY <2>3
  <2>6. f \in Bijection(1 .. k - 1, A)
    <3> HIDE DEF f
    <3> QED
      BY <2>4, <2>5 DEF Bijection, Injection, Surjection, IsInjective
  <2>7. IsFiniteSet(1 .. k - 1) /\ Cardinality(1 .. k - 1) = k - 1
    <3>1. 1 \in Int /\ k - 1 \in Int /\ (1 > k - 1 => k - 1 = 0) /\ k - 1 - 1 + 1 = k - 1
      BY <1>1
    <3> QED
      BY <3>1, FS_Interval
  <2> HIDE DEF f
  <2>8. Cardinality(A) = k - 1
    BY <2>6, <2>7, FS_Bijection DEF ExistsBijection
  <2> QED
    BY <2>8 DEF A, Place
<1>4. n = Cardinality(S)
  <2>1. t \in Bijection(1 .. n, S)
    <3>1. \A i, j \in 1 .. n : t[i] = t[j] => i = j
      BY <1>2
    <3>2. \A d \in S : \E i \in 1 .. n : t[i] = d
      BY DEF n
    <3> QED
      BY <1>1, <3>1, <3>2 DEF Bijection, Injection, Surjection, IsInjective
  <2>2. IsFiniteSet(1 .. n) /\ Cardinality(1 .. n) = n
    <3>1. 1 \in Int /\ n \in Int /\ (1 > n => n = 0) /\ n - 1 + 1 = n
      BY <1>1
    <3> QED
      BY <3>1, FS_Interval
  <2> QED
    BY <2>1, <2>2, FS_Bijection DEF ExistsBijection
<1>5. ASSUME NEW k \in 1 .. n
      PROVE  t[k] = Sorted(S, R)[k]
  <2>1. t[k] \in S
    BY <1>1
  <2>2. Sorted(S, R)[Place(S, R, t[k]) + 1] = t[k]
    BY <2>1, SortedFacts
  <2>3. Place(S, R, t[k]) + 1 = k
    BY <1>1, <1>3
  <2> QED
    BY <2>2, <2>3
<1>6. Sorted(S, R) \in [1 .. n -> S]
  <2>1. Sorted(S, R) \in Seq(S) /\ Len(Sorted(S, R)) = n
    BY <1>4, SortedFacts
  <2> QED
    BY <2>1
<1> QED
  BY <1>1, <1>5, <1>6

\* A part of S that has the first L elements of S has them as its own first ones.
LEMMA TopKept ==
    ASSUME NEW S, IsFiniteSet(S), NEW R, Orders(R, S), NEW U \in SUBSET S, NEW L \in Nat,
           \A d \in S : Place(S, R, d) < L => d \in U
    PROVE  \A k \in 1 .. L :
               /\ k <= Cardinality(U) <=> k <= Cardinality(S)
               /\ k <= Cardinality(S) => Sorted(U, R)[k] = Sorted(S, R)[k]
<1>1. /\ IsFiniteSet(U) /\ Cardinality(U) <= Cardinality(S)
      /\ Cardinality(U) \in Nat /\ Cardinality(S) \in Nat
  BY FS_Subset, FS_CardinalityType
<1>2. Orders(R, U)
  BY DEF Orders
<1>3. ASSUME NEW k \in 1 .. L, k <= Cardinality(S)
      PROVE  k <= Cardinality(U) /\ Sorted(U, R)[k] = Sorted(S, R)[k]
  <2> DEFINE d == Sorted(S, R)[k]
  <2>1. k \in 1 .. Cardinality(S)
    BY <1>1, <1>3
  <2>2. d \in S /\ Place(S, R, d) = k - 1
    BY <2>1, SortedFacts
  <2> HIDE DEF d
  <2>3. d \in U
    BY <2>2
  <2>4. ASSUME NEW e \in Ahead(S, R, d)
        PROVE  e \in Ahead(U, R, d)
    <3>1. e \in S /\ <<e, d>> \in R
      BY DEF Ahead
    <3>2. Place(S, R, e) < Place(S, R, d) /\ Place(S, R, e) \in Int
      BY <2>2, <3>1, PlaceGrows, PlaceType
    <3>3. Place(S, R, e) < L
      BY <2>2, <3>2
    <3> QED
      BY <3>1, <3>3 DEF Ahead
  <2>5. Ahead(U, R, d) = Ahead(S, R, d)
    BY <2>4 DEF Ahead
  <2>6. Place(U, R, d) = k - 1
    BY <2>2, <2>5 DEF Place
  <2>7. /\ Place(U, R, d) + 1 \in 1 .. Cardinality(U)
        /\ Sorted(U, R)[Place(U, R, d) + 1] = d
    BY <1>1, <1>2, <2>3, SortedFacts
  <2>8. Place(U, R, d) + 1 = k
    BY <2>6
  <2> QED
    BY <2>7, <2>8 DEF d
<1> QED
  BY <1>1, <1>3

-----------------------------------------------------------------------------
(* Sequences after one another *)

LEMMA JoinAscends ==
    ASSUME NEW D, NEW f \in Seq(D), NEW g \in Seq(D), NEW R, Ascends(f, R), Ascends(g, R),
           \A x \in ToSet(f), y \in ToSet(g) : <<x, y>> \in R
    PROVE  /\ f \o g \in Seq(D)
           /\ ToSet(f \o g) = ToSet(f) \union ToSet(g)
           /\ Ascends(f \o g, R)
<1> DEFINE m == Len(f)
           l == Len(g)
           h == f \o g
<1>1. /\ m \in Nat /\ l \in Nat /\ h \in Seq(D) /\ Len(h) = m + l
      /\ DOMAIN f = 1 .. m /\ DOMAIN g = 1 .. l /\ DOMAIN h = 1 .. m + l
      /\ \A i \in 1 .. m : h[i] = f[i]
      /\ \A i \in 1 .. l : h[m + i] = g[i]
  OBVIOUS
<1>2. \A i \in 1 .. m + l : i \in 1 .. m \/ (i - m \in 1 .. l /\ i = m + (i - m))
  BY <1>1
<1>3. \A i \in 1 .. m + l : i \notin 1 .. m => h[i] = g[i - m]
  BY <1>1, <1>2
<1> HIDE DEF h, m, l
<1>4. ToSet(h) = ToSet(f) \union ToSet(g)
  <2>1. ASSUME NEW i \in 1 .. l
        PROVE  m + i \in 1 .. m + l
    BY <1>1
  <2>2. \A i \in 1 .. m : i \in 1 .. m + l
    BY <1>1
  <2>3. ToSet(h) \subseteq ToSet(f) \union ToSet(g)
    BY <1>1, <1>2, <1>3 DEF ToSet
  <2>4. ToSet(f) \subseteq ToSet(h)
    BY <1>1, <2>2 DEF ToSet
  <2>5. ToSet(g) \subseteq ToSet(h)
    BY <1>1, <2>1 DEF ToSet
  <2> QED
    BY <2>3, <2>4, <2>5
<1>5. ASSUME NEW i \in 1 .. m + l, NEW j \in 1 .. m + l, i < j
      PROVE  <<h[i], h[j]>> \in R
  <2>1. CASE j \in 1 .. m
    <3>1. i \in 1 .. m
      BY <1>1, <1>5, <2>1
    <3> QED
      BY <1>1, <1>5, <2>1, <3>1 DEF Ascends, m
  <2>2. CASE i \in 1 .. m /\ j \notin 1 .. m
    <3>1. h[i] \in ToSet(f) /\ h[j] \in ToSet(g)
      BY <1>1, <1>2, <1>3, <2>2 DEF ToSet
    <3> QED
      BY <3>1
  <2>3. CASE i \notin 1 .. m
    <3>1. j \notin 1 .. m /\ i - m < j - m
      BY <1>1, <1>5, <2>3
    <3>2. i - m \in 1 .. l /\ j - m \in 1 .. l
      BY <1>2, <2>3, <3>1
    <3>3. <<g[i - m], g[j - m]>> \in R
      BY <3>1, <3>2 DEF Ascends, l
    <3> QED
      BY <1>3, <2>3, <3>1, <3>3
  <2> QED
    BY <2>1, <2>2, <2>3
<1> QED
  BY <1>1, <1>4, <1>5 DEF Ascends, h

\* Ascending sequences, each after the ones before it, make one.
LEMMA FlattenAscends ==
    ASSUME NEW n \in Nat \ {0}, NEW D, NEW seqs \in [1 .. n -> Seq(D)], NEW R,
           \A i \in 1 .. n : Ascends(seqs[i], R),
           \A i, j \in 1 .. n : i < j =>
               \A x \in ToSet(seqs[i]), y \in ToSet(seqs[j]) : <<x, y>> \in R
    PROVE  /\ FlattenSeq(seqs) \in Seq(D)
           /\ ToSet(FlattenSeq(seqs)) = UNION {ToSet(seqs[i]) : i \in 1 .. n}
           /\ Ascends(FlattenSeq(seqs), R)
<1> DEFINE V == Seq(D)
           F == [p \in V \X V |-> p[1] \o p[2]]
           Step(g) == [i \in 1 .. n |-> IF i = 1 THEN seqs[i] ELSE g[i - 1] \o seqs[i]]
           flatten == CHOOSE g : g = Step(g)
<1>1. seqs \in Seq(V) /\ Len(seqs) = n /\ n # 0
  OBVIOUS
<1>2. F \in [V \X V -> V] /\ << >> \in V
  OBVIOUS
<1>3. PICK it \in [SUBSET (1 .. n) -> V] : Iterates(it, n, << >>, seqs, F)
  <2> HIDE DEF V, F
  <2>1. n \in Nat /\ seqs \in [1 .. n -> V]
    BY DEF V
  <2> QED
    BY <1>2, <2>1, IteratesExist
<1>4. it[{}] = << >>
  <2>1. {} \in SUBSET (1 .. n)
    OBVIOUS
  <2> HIDE DEF V, F
  <2> QED
    BY <1>3, <2>1 DEF Iterates
<1>5. ASSUME NEW k \in 1 .. n
      PROVE  it[1 .. k] = it[1 .. k - 1] \o seqs[k]
  <2>1. /\ 1 .. k # {} /\ 1 .. k \in SUBSET (1 .. n)
        /\ Max(1 .. k) = k /\ (1 .. k) \ {k} = 1 .. k - 1
    BY MaxUpTo
  <2>2. 1 .. k - 1 \in SUBSET (1 .. n) /\ seqs[k] \in V
    OBVIOUS
  <2>3. it[1 .. k] = F[<<it[1 .. k - 1], seqs[k]>>]
    <3> HIDE DEF V, F
    <3>1. it[1 .. k] = F[<<it[(1 .. k) \ {Max(1 .. k)}], seqs[Max(1 .. k)]>>]
      BY <1>3, <2>1 DEF Iterates
    <3> QED
      BY <2>1, <3>1, Zenon
  <2>4. it[1 .. k - 1] \in V
    BY <2>2
  <2> QED
    BY <2>2, <2>3, <2>4
<1> DEFINE joined == [i \in 1 .. n |-> it[1 .. i]]
<1>6. joined = Step(joined)
  <2>1. ASSUME NEW i \in 1 .. n
        PROVE  joined[i] = IF i = 1 THEN seqs[i] ELSE joined[i - 1] \o seqs[i]
    <3>1. CASE i = 1
      <4>1. it[1 .. 1] = it[{}] \o seqs[1]
        <5>1. 1 .. 1 - 1 = {} /\ 1 \in 1 .. n
          OBVIOUS
        <5> QED
          BY <1>5, <5>1
      <4>2. << >> \o seqs[1] = seqs[1]
        <5>1. seqs[1] \in Seq(D)
          OBVIOUS
        <5> QED
          BY <5>1
      <4> QED
        BY <1>4, <3>1, <4>1, <4>2
    <3>2. CASE i # 1
      <4>1. i - 1 \in 1 .. n
        BY <3>2
      <4> QED
        BY <1>5, <3>2, <4>1
    <3> QED
      BY <3>1, <3>2
  <2>2. joined = [i \in 1 .. n |-> joined[i]]
    OBVIOUS
  <2> HIDE DEF joined
  <2> QED
    BY <2>1, <2>2
<1>7. flatten = Step(flatten)
  <2> HIDE DEF joined
  <2> QED
    BY <1>6
<1>8. \A i \in 1 .. n :
          flatten[i] = IF i = 1 THEN seqs[i] ELSE flatten[i - 1] \o seqs[i]
  <2> HIDE DEF flatten
  <2> QED
    BY <1>7
<1>9. FlattenSeq(seqs) = flatten[n]
  BY <1>1 DEF FlattenSeq
<1> HIDE DEF flatten
<1> DEFINE Good(k) == /\ flatten[k] \in V
                      /\ ToSet(flatten[k]) = UNION {ToSet(seqs[i]) : i \in 1 .. k}
                      /\ Ascends(flatten[k], R)
           S == {k \in 0 .. n : k = 0 \/ Good(k)}
<1>10. ASSUME NEW k \in 1 .. n, k - 1 \in S
       PROVE  k \in S
  <2>1. CASE k = 1
    <3>1. flatten[1] = seqs[1] /\ seqs[1] \in V /\ Ascends(seqs[1], R)
      BY <1>8, <2>1
    <3>2. 1 .. 1 = {1}
      OBVIOUS
    <3> QED
      BY <2>1, <3>1, <3>2
  <2>2. CASE k # 1
    <3> DEFINE f == flatten[k - 1]
               g == seqs[k]
    <3>1. Good(k - 1) /\ k - 1 \in 1 .. n
      BY <1>10, <2>2
    <3>2. flatten[k] = f \o g /\ f \in Seq(D) /\ g \in Seq(D) /\ Ascends(f, R) /\ Ascends(g, R)
      BY <1>8, <2>2, <3>1
    <3>3. ToSet(f) = UNION {ToSet(seqs[i]) : i \in 1 .. k - 1}
      BY <3>1
    <3>4. \A x \in ToSet(f), y \in ToSet(g) : <<x, y>> \in R
      <4>1. \A i \in 1 .. k - 1 : i \in 1 .. n /\ i < k
        OBVIOUS
      <4> QED
        BY <3>3, <4>1
    <3> HIDE DEF f, g
    <3>5. f \o g \in Seq(D) /\ ToSet(f \o g) = ToSet(f) \union ToSet(g) /\ Ascends(f \o g, R)
      BY <3>2, <3>4, JoinAscends
    <3>6. ToSet(f) \union ToSet(g) = UNION {ToSet(seqs[i]) : i \in 1 .. k}
      <4>1. 1 .. k = (1 .. k - 1) \union {k}
        OBVIOUS
      <4> QED
        BY <3>3, <4>1 DEF g
    <3>7. Good(k)
      BY <3>2, <3>5, <3>6, Zenon
    <3> HIDE DEF Good
    <3> QED
      BY <3>7
  <2> QED
    BY <2>1, <2>2
<1>11. 0 .. n \subseteq S
  <2>1. 0 \in S
    OBVIOUS
  <2> HIDE DEF S
  <2> QED
    BY <1>10, <2>1, UpTo
<1>12. Good(n)
  <2> HIDE DEF Good
  <2>1. n \in 0 .. n
    OBVIOUS
  <2> QED
    BY <1>1, <1>11, <2>1
<1> QED
  BY <1>9, <1>12, Zenon

-----------------------------------------------------------------------------
(* Sums *)

\* The partial sums of f over the subsets of T.
Sums(it, T, f) ==
    it = [s \in SUBSET T |->
             IF s = {} THEN 0
             ELSE f[CHOOSE x \in s : TRUE] + it[s \ {CHOOSE x \in s : TRUE}]]

\* The sizes of disjoint sets add up to the size of their union.
LEMMA SumOfSizes ==
    ASSUME NEW T, IsFiniteSet(T), NEW A, NEW f,
           \A n \in T : IsFiniteSet(A[n]) /\ f[n] = Cardinality(A[n]),
           \A m, n \in T : m # n => A[m] \intersect A[n] = {}
    PROVE  /\ \E it : Sums(it, T, f)
           /\ \A it : Sums(it, T, f) =>
                  /\ it[T] = Cardinality(UNION {A[n] : n \in T})
                  /\ it[T] \in Nat
<1> DEFINE U(s) == UNION {A[n] : n \in s}
           N == Cardinality(T)
<1>1. N \in Nat
  BY FS_CardinalityType
<1>2. ASSUME NEW s \in SUBSET T, NEW x \in s, IsFiniteSet(U(s \ {x}))
      PROVE  IsFiniteSet(U(s)) /\ Cardinality(U(s)) = f[x] + Cardinality(U(s \ {x}))
  <2>1. U(s) = A[x] \union U(s \ {x}) /\ A[x] \intersect U(s \ {x}) = {}
    OBVIOUS
  <2>2. IsFiniteSet(A[x]) /\ f[x] = Cardinality(A[x])
    OBVIOUS
  <2>3. Cardinality(A[x]) \in Nat /\ Cardinality(U(s \ {x})) \in Nat
    BY <1>2, <2>2, FS_CardinalityType
  <2> HIDE DEF U
  <2>4. /\ IsFiniteSet(A[x] \union U(s \ {x}))
        /\ Cardinality(A[x] \union U(s \ {x}))
               = Cardinality(A[x]) + Cardinality(U(s \ {x}))
                     - Cardinality(A[x] \intersect U(s \ {x}))
    BY <1>2, <2>2, FS_Union
  <2>5. Cardinality(A[x] \intersect U(s \ {x})) = 0
    BY <2>1, FS_EmptySet
  <2> QED
    BY <2>1, <2>2, <2>3, <2>4, <2>5
<1>3. ASSUME NEW s \in SUBSET T, NEW x \in s
      PROVE  /\ s \ {x} \in SUBSET T /\ IsFiniteSet(s)
             /\ Cardinality(s) \in 1 .. N
             /\ Cardinality(s \ {x}) = Cardinality(s) - 1
  <2>1. IsFiniteSet(s) /\ Cardinality(s) <= N
    BY FS_Subset
  <2>2. Cardinality(s) \in Nat /\ Cardinality(s) # 0
    BY <2>1, FS_CardinalityType, FS_EmptySet
  <2>3. Cardinality(s \ {x}) = Cardinality(s) - 1
    BY <2>1, FS_RemoveElement
  <2> QED
    BY <1>1, <2>1, <2>2, <2>3
<1>4. \A s \in SUBSET T : Cardinality(s) \in 0 .. N /\ (Cardinality(s) = 0 => s = {})
  <2>1. ASSUME NEW s \in SUBSET T
        PROVE  Cardinality(s) \in 0 .. N /\ (Cardinality(s) = 0 => s = {})
    <3>1. IsFiniteSet(s) /\ Cardinality(s) <= N
      BY FS_Subset
    <3>2. Cardinality(s) \in Nat /\ (Cardinality(s) = 0 => s = {})
      BY <3>1, FS_CardinalityType, FS_EmptySet
    <3> QED
      BY <1>1, <3>1, <3>2
  <2> QED
    BY <2>1
<1>5. U({}) = {} /\ IsFiniteSet({}) /\ Cardinality({}) = 0
  BY FS_EmptySet
<1> HIDE DEF U, N
<1>6. \A s \in SUBSET T : IsFiniteSet(U(s))
  <2> DEFINE S == {k \in 0 .. N : \A s \in SUBSET T : Cardinality(s) = k => IsFiniteSet(U(s))}
  <2>1. 0 \in S
    BY <1>1, <1>4, <1>5
  <2>2. ASSUME NEW k \in 1 .. N, k - 1 \in S
        PROVE  k \in S
    <3>1. ASSUME NEW s \in SUBSET T, Cardinality(s) = k
          PROVE  IsFiniteSet(U(s))
      <4>1. s # {}
        BY <1>5, <3>1
      <4>2. PICK x \in s : TRUE
        BY <4>1
      <4>3. s \ {x} \in SUBSET T /\ Cardinality(s \ {x}) = k - 1
        BY <1>3, <3>1
      <4>4. IsFiniteSet(U(s \ {x}))
        BY <2>2, <4>3
      <4> QED
        BY <1>2, <4>4
    <3> QED
      BY <3>1
  <2>3. 0 .. N \subseteq S
    <3> HIDE DEF S
    <3> QED
      BY <1>1, <2>1, <2>2, UpTo
  <2> QED
    BY <1>4, <2>3
<1>7. ASSUME NEW s \in SUBSET T, NEW x \in s
      PROVE  Cardinality(U(s)) = f[x] + Cardinality(U(s \ {x}))
  <2>1. s \ {x} \in SUBSET T
    OBVIOUS
  <2> QED
    BY <1>2, <1>6, <2>1
<1>8. \E it : Sums(it, T, f)
  <2> DEFINE it == [s \in SUBSET T |-> Cardinality(U(s))]
  <2>1. ASSUME NEW s \in SUBSET T
        PROVE  it[s] = IF s = {} THEN 0
                       ELSE f[CHOOSE x \in s : TRUE] + it[s \ {CHOOSE x \in s : TRUE}]
    <3>1. CASE s = {}
      BY <1>5, <3>1
    <3>2. CASE s # {}
      <4> DEFINE x == CHOOSE x \in s : TRUE
      <4>1. x \in s
        BY <3>2
      <4> HIDE DEF x
      <4>2. it[s] = f[x] + it[s \ {x}]
        BY <1>7, <4>1
      <4> HIDE DEF it
      <4> QED
        BY <3>2, <4>2 DEF x
    <3> QED
      BY <3>1, <3>2
  <2>2. Sums(it, T, f)
    <3>1. it = [s \in SUBSET T |-> it[s]]
      OBVIOUS
    <3> HIDE DEF it
    <3> QED
      BY <2>1, <3>1 DEF Sums
  <2> HIDE DEF it
  <2> QED
    BY <2>2
<1>9. ASSUME NEW it, Sums(it, T, f)
      PROVE  it[T] = Cardinality(U(T))
  <2> DEFINE S == {k \in 0 .. N : \A s \in SUBSET T :
                       Cardinality(s) = k => it[s] = Cardinality(U(s))}
  <2>1. 0 \in S
    <3>1. it[{}] = 0
      BY <1>9 DEF Sums
    <3> QED
      BY <1>1, <1>4, <1>5, <3>1
  <2>2. ASSUME NEW k \in 1 .. N, k - 1 \in S
        PROVE  k \in S
    <3>1. ASSUME NEW s \in SUBSET T, Cardinality(s) = k
          PROVE  it[s] = Cardinality(U(s))
      <4> DEFINE x == CHOOSE x \in s : TRUE
      <4>1. s # {}
        BY <1>5, <3>1
      <4>2. x \in s
        BY <4>1
      <4>3. it[s] = f[x] + it[s \ {x}]
        BY <1>9, <4>1 DEF Sums
      <4> HIDE DEF x
      <4>4. s \ {x} \in SUBSET T /\ Cardinality(s \ {x}) = k - 1
        BY <1>3, <3>1, <4>2
      <4>5. it[s \ {x}] = Cardinality(U(s \ {x}))
        BY <2>2, <4>4
      <4> QED
        BY <1>7, <4>2, <4>3, <4>5
    <3> QED
      BY <3>1
  <2>3. 0 .. N \subseteq S
    <3> HIDE DEF S
    <3> QED
      BY <1>1, <2>1, <2>2, UpTo
  <2> QED
    BY <1>4, <2>3
<1>10. Cardinality(U(T)) \in Nat
  BY <1>6, FS_CardinalityType
<1> QED
  BY <1>8, <1>9, <1>10 DEF U
=============================================================================
