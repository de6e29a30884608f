----------------------------- MODULE Induction ------------------------------
(***************************************************************************)
(* Induction over the numbers up to n, and what follows for folds over     *)
(* sequences.  The principles are stated of sets and functions, so that    *)
(* they can be used without instantiating a predicate or an operator.      *)
(***************************************************************************)
EXTENDS Integers, FiniteSetsExt, WellFoundedInduction, TLAPS

\* A nonempty set of numbers has a least element.
LEMMA Least ==
    ASSUME NEW S, S \subseteq Nat, S # {}
    PROVE  \E m \in S : \A k \in S : m <= k
<1> DEFINE R == OpToRel(<, Nat)
<1>1. IsWellFoundedOn(R, Nat)
  BY NatLessThanWellFounded
<1>2. \E m \in S : \A k \in S : ~(<<k, m>> \in R)
  <2> HIDE DEF R
  <2> QED
    BY <1>1, WFMin
<1>3. PICK m \in S : \A k \in S : ~(<<k, m>> \in R)
  BY <1>2
<1>4. \A k \in S : ~(k < m)
  <2>1. \A k \in S : k \in Nat /\ m \in Nat
    OBVIOUS
  <2> QED
    BY <1>3, <2>1, Zenon DEF OpToRel
<1>5. \A k \in S : m <= k
  BY <1>4
<1> QED
  BY <1>5

LEMMA UpTo ==
    ASSUME NEW n \in Nat, NEW S,
           0 \in S, \A k \in 1 .. n : k - 1 \in S => k \in S
    PROVE  0 .. n \subseteq S
<1> DEFINE T == {k \in 0 .. n : k \notin S}
<1> SUFFICES ASSUME T # {} PROVE FALSE
  OBVIOUS
<1>1. PICK m \in T : \A k \in T : m <= k
  <2>1. T \subseteq Nat
    OBVIOUS
  <2> QED
    BY <2>1, Least
<1>2. m \in 1 .. n /\ m - 1 \notin T
  BY <1>1
<1> QED
  BY <1>1, <1>2

LEMMA MaxOfRange ==
    ASSUME NEW n \in Nat, NEW s \in SUBSET (1 .. n), s # {}
    PROVE  Max(s) \in s /\ \A x \in s : Max(s) >= x
<1> DEFINE T == {m \in 0 .. n : \A x \in s : m >= x}
<1>1. T \subseteq Nat /\ n \in T
  OBVIOUS
<1>2. PICK m \in T : \A k \in T : m <= k
  <2> HIDE DEF T
  <2> QED
    BY <1>1, Least
<1>3. m \in s
  <2> SUFFICES ASSUME m \notin s PROVE FALSE
    OBVIOUS
  <2>1. m \in 0 .. n /\ \A x \in s : x \in 1 .. n /\ m >= x /\ m # x
    OBVIOUS
  <2>2. PICK x \in s : TRUE
    OBVIOUS
  <2>3. m \in 1 .. n
    BY <2>1, <2>2
  <2>4. m - 1 \in T
    BY <2>1, <2>3
  <2> QED
    BY <1>2, <2>3, <2>4
<1>4. \E x \in s : \A y \in s : x >= y
  BY <1>2, <1>3
<1> QED
  BY <1>4 DEF Max

LEMMA MaxUpTo ==
    ASSUME NEW n \in Nat, NEW k \in 1 .. n
    PROVE  /\ 1 .. k # {} /\ 1 .. k \in SUBSET (1 .. n)
           /\ Max(1 .. k) = k /\ (1 .. k) \ {k} = 1 .. k - 1
<1>1. k \in 1 .. k /\ k \in Nat /\ 1 .. k # {}
  OBVIOUS
<1>2. Max(1 .. k) \in 1 .. k /\ Max(1 .. k) >= k
  BY <1>1, MaxOfRange
<1>3. 1 .. k \subseteq 1 .. n
  OBVIOUS
<1> QED
  BY <1>1, <1>2, <1>3

\* The iterates of F a fold over the sequence is made of, one for each set of
\* positions.
Iterates(it, n, base, seq, F) ==
    \A s \in SUBSET (1 .. n) :
        it[s] = IF s = {} THEN base ELSE F[<<it[s \ {Max(s)}], seq[Max(s)]>>]

LEMMA IteratesExist ==
    ASSUME NEW n \in Nat, NEW V, NEW A, NEW base \in A,
           NEW seq \in [1 .. n -> V], NEW F \in [A \X V -> A]
    PROVE  \E it \in [SUBSET (1 .. n) -> A] : Iterates(it, n, base, seq, F)
<1> DEFINE Eq(it, k) == Iterates(it, k, base, seq, F)
           S == {k \in 0 .. n : \E it \in [SUBSET (1 .. k) -> A] : Eq(it, k)}
<1> USE DEF Iterates
<1>1. 0 \in S
  <2> DEFINE it == [s \in SUBSET (1 .. 0) |-> base]
  <2>1. \A s \in SUBSET (1 .. 0) : s = {}
    OBVIOUS
  <2>2. it \in [SUBSET (1 .. 0) -> A] /\ Eq(it, 0)
    BY <2>1
  <2> HIDE DEF it, Eq
  <2>3. 0 \in 0 .. n
    OBVIOUS
  <2> QED
    BY <2>2, <2>3, Zenon
<1>2. ASSUME NEW k \in 1 .. n, k - 1 \in S
      PROVE  k \in S
  <2>1. PICK it \in [SUBSET (1 .. k - 1) -> A] : Eq(it, k - 1)
    BY <1>2
  <2> DEFINE new == [s \in SUBSET (1 .. k) |->
                        IF k \in s THEN F[<<it[s \ {k}], seq[k]>>] ELSE it[s]]
  <2>2. ASSUME NEW s \in SUBSET (1 .. k)
        PROVE  /\ s \ {k} \in SUBSET (1 .. k - 1)
               /\ k \notin s => s \in SUBSET (1 .. k - 1)
    OBVIOUS
  <2>3. new \in [SUBSET (1 .. k) -> A]
    BY <2>2
  <2>4. ASSUME NEW s \in SUBSET (1 .. k)
        PROVE  new[s] = IF s = {} THEN base ELSE F[<<new[s \ {Max(s)}], seq[Max(s)]>>]
    <3>1. CASE s = {}
      <4>1. new[s] = it[s]
        BY <3>1
      <4> QED
        BY <2>1, <3>1, <4>1
    <3>2. CASE k \in s
      <4>1. Max(s) \in s /\ \A x \in s : Max(s) >= x
        <5>1. k \in Nat /\ s # {}
          BY <3>2
        <5> QED
          BY <5>1, MaxOfRange
      <4>2. Max(s) = k
        <5>1. Max(s) \in 1 .. k /\ Max(s) >= k
          BY <3>2, <4>1
        <5> QED
          BY <5>1
      <4>3. new[s \ {k}] = it[s \ {k}]
        BY <2>2
      <4>4. new[s] = F[<<it[s \ {k}], seq[k]>>]
        BY <3>2
      <4> HIDE DEF new
      <4> QED
        BY <3>2, <4>2, <4>3, <4>4
    <3>3. CASE s # {} /\ k \notin s
      <4>1. s \in SUBSET (1 .. k - 1) /\ s \ {Max(s)} \in SUBSET (1 .. k)
        BY <2>2, <3>3
      <4>2. new[s] = it[s] /\ new[s \ {Max(s)}] = it[s \ {Max(s)}]
        BY <3>3, <4>1
      <4> HIDE DEF new
      <4> QED
        BY <2>1, <3>3, <4>1, <4>2
    <3> QED
      BY <3>1, <3>2, <3>3
  <2>5. Eq(new, k)
    BY <2>4
  <2> HIDE DEF new, Eq
  <2> QED
    BY <2>3, <2>5
<1> HIDE DEF Iterates
<1>3. n \in S
  <2> HIDE DEF S
  <2>1. 0 .. n \subseteq S
    BY <1>1, <1>2, UpTo
  <2> QED
    BY <2>1
<1> QED
  BY <1>3
=============================================================================
