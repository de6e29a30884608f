---------------------------- MODULE GatewayProofs ---------------------------
(***************************************************************************)
(* Theorems about searches, for every number of nodes, every set of        *)
(* documents, every scoring and every request.  That of the invariant is   *)
(* at the end; before it come what a query means, one node's hits and the  *)
(* merging of the nodes' hits.                                             *)
(***************************************************************************)
EXTENDS Gateway, Sorting

-----------------------------------------------------------------------------
(* What a query means *)

\* The expansion over fields and the rewriting of a prefix or fuzzy clause find
\* the documents that the query means.
LEMMA MatchesMeant ==
    ASSUME NEW text \in Text, NEW req \in Request, Straight(req)
    PROVE  Matches(text, req) <=> Meant(text, req)
<1> DEFINE q == req.query
<1>1. q \in Seq(Token) /\ req.quoted \in BOOLEAN
  BY DEF Request
<1>2. Len(q) \in Nat /\ DOMAIN q = 1 .. Len(q) /\ \A k \in DOMAIN q : q[k] \in Token
  BY <1>1
<1> HIDE DEF q
<1>3. \A k \in DOMAIN q : \/ q[k].form = "term"
                          \/ q[k].form \in {"prefix", "fuzzy"} /\ IsSpecial(req)
  BY DEF Straight, q
<1>4. CASE Expanded(req)
  <2>1. ~IsSpecial(req)
    BY <1>4 DEF IsSpecial
  <2>2. ASSUME NEW k \in DOMAIN q
        PROVE  (\E token \in Clause(req, q[k]) : Parsed(text, token))
                   = MeantIn(text, SearchFields(req), q[k])
    <3>1. q[k] \in Token /\ q[k].form = "term"
      BY <1>2, <1>3, <2>1
    <3>2. Denoted(q[k]) = {q[k].word}
      BY <3>1 DEF Denoted
    <3>3. ASSUME NEW f
          PROVE  /\ [q[k] EXCEPT !.field = f].form = "term"
                 /\ [q[k] EXCEPT !.field = f].word = q[k].word
                 /\ [q[k] EXCEPT !.field = f].field = f
      BY <3>1 DEF Token
    <3>4. MeantIn(text, SearchFields(req), q[k])
              <=> \E f \in SearchFields(req) : q[k].word \in text[f]
      BY <3>2 DEF MeantIn
    <3>5. (\E token \in Clause(req, q[k]) : Parsed(text, token))
              <=> \E f \in SearchFields(req) : q[k].word \in text[f]
      BY <3>3 DEF Clause, Parsed
    <3> QED
      BY <3>4, <3>5 DEF MeantIn
  <2>3. Matches(text, req)
            = \A k \in DOMAIN q : \E token \in Clause(req, q[k]) : Parsed(text, token)
    BY <1>4 DEF Matches, q
  <2>4. Meant(text, req) = \A k \in DOMAIN q : MeantIn(text, SearchFields(req), q[k])
    BY <1>4 DEF Meant, q
  <2> QED
    BY <2>2, <2>3, <2>4
<1>5. CASE ~Expanded(req) /\ Len(q) = 1
  <2> DEFINE t == q[1]
  <2>1. Head(q) = t /\ t \in Token /\ DOMAIN q = {1}
    BY <1>1, <1>2, <1>5
  <2>2. Meant(text, req) <=> text[t.field] \intersect Denoted(t) # {}
    BY <1>5, <2>1 DEF Meant, MeantIn, q
  <2>3. CASE IsSpecial(req)
    <3>1. t.form \in {"prefix", "fuzzy"}
      BY <2>1, <2>3 DEF IsSpecial, q
    <3>2. Denoted(t) = IF t.form = "prefix" THEN Starting[t.word] ELSE Near[t.word]
      BY <3>1 DEF Denoted
    <3>3. Matches(text, req) = Special(text, t)
      BY <1>5, <2>1, <2>3 DEF Matches, q
    <3> HIDE DEF t
    <3> QED
      BY <2>2, <3>2, <3>3 DEF Special, Meant, MeantIn
  <2>4. CASE ~IsSpecial(req)
    <3>1. t.form = "term"
      BY <1>3, <2>1, <2>4
    <3>2. Denoted(t) = {t.word}
      BY <3>1 DEF Denoted
    <3>3. Matches(text, req) <=> Parsed(text, t)
      BY <1>5, <2>1, <2>4 DEF Matches, q
    <3> HIDE DEF t
    <3>4. Parsed(text, t) <=> t.word \in text[t.field]
      BY <3>1 DEF Parsed
    <3> QED
      BY <2>2, <3>2, <3>3, <3>4
  <2> QED
    BY <2>3, <2>4
<1>6. CASE ~Expanded(req) /\ Len(q) # 1
  BY <1>6 DEF Meant, q
<1> QED
  BY <1>4, <1>5, <1>6

-----------------------------------------------------------------------------
(* The orders of documents *)

\* The order on a node, with the scores s.
NodeOrder(s) ==
    {p \in Docs \X Docs : s[p[1]] > s[p[2]] \/ (s[p[1]] = s[p[2]] /\ p[1] < p[2])}

\* The order of all documents.
GlobalOrder(s) ==
    {p \in Docs \X Docs :
        \/ s[p[1]] > s[p[2]]
        \/ s[p[1]] = s[p[2]] /\ (\/ Home(p[1]) < Home(p[2])
                                 \/ Home(p[1]) = Home(p[2]) /\ p[1] < p[2])}

LEMMA DocTypes ==
    ASSUME NEW s \in [Docs -> Scores], NEW d \in Docs
    PROVE  /\ d \in Int /\ s[d] \in Int /\ Home(d) \in Int /\ Home(d) \in Nodes
           /\ PartitionOf[d] \in Partitions /\ TextOf[d] \in Text
<1>1. d \in Nat /\ s[d] \in Nat /\ PartitionOf[d] \in Partitions /\ TextOf[d] \in Text
  BY GatewayAssumption
<1>2. Home(d) \in Nodes
  BY <1>1, GatewayAssumption DEF Home
<1>3. Nodes \subseteq Int
  BY GatewayAssumption DEF Nodes
<1>4. Home(d) \in Int
  BY <1>2, <1>3
<1>5. d \in Int /\ s[d] \in Int
  BY <1>1
<1> QED
  BY <1>1, <1>2, <1>4, <1>5, Zenon

LEMMA NodeOrders ==
    ASSUME NEW s \in [Docs -> Scores], NEW S \in SUBSET Docs
    PROVE  Orders(NodeOrder(s), S) /\ IsFiniteSet(S) /\ Cardinality(S) \in Nat
<1>1. IsFiniteSet(S) /\ Cardinality(S) \in Nat
  BY GatewayAssumption, FS_Subset, FS_CardinalityType
<1>2. \A d \in S : d \in Docs /\ d \in Int /\ s[d] \in Int
  BY DocTypes
<1>3. \A d, e \in S : <<d, e>> \in NodeOrder(s) <=> s[d] > s[e] \/ (s[d] = s[e] /\ d < e)
  BY <1>2 DEF NodeOrder
<1>4. \A x \in S : <<x, x>> \notin NodeOrder(s)
  BY <1>2, <1>3
<1>5. ASSUME NEW x \in S, NEW y \in S
      PROVE  x = y \/ <<x, y>> \in NodeOrder(s) \/ <<y, x>> \in NodeOrder(s)
  <2>1. /\ s[x] > s[y] \/ s[x] = s[y] \/ s[y] > s[x]
        /\ x < y \/ x = y \/ y < x
    BY <1>2
  <2> QED
    BY <1>3, <2>1
<1>6. ASSUME NEW x \in S, NEW y \in S, NEW z \in S,
             <<x, y>> \in NodeOrder(s), <<y, z>> \in NodeOrder(s)
      PROVE  <<x, z>> \in NodeOrder(s)
  <2>1. /\ s[x] > s[y] \/ (s[x] = s[y] /\ x < y)
        /\ s[y] > s[z] \/ (s[y] = s[z] /\ y < z)
    BY <1>3, <1>6
  <2>2. s[x] > s[z] \/ (s[x] = s[z] /\ x < z)
    BY <1>2, <2>1
  <2> QED
    BY <1>3, <2>2
<1> QED
  BY <1>1, <1>4, <1>5, <1>6 DEF Orders

LEMMA GlobalOrders ==
    ASSUME NEW s \in [Docs -> Scores], NEW S \in SUBSET Docs
    PROVE  Orders(GlobalOrder(s), S) /\ IsFiniteSet(S) /\ Cardinality(S) \in Nat
<1>1. IsFiniteSet(S) /\ Cardinality(S) \in Nat
  BY GatewayAssumption, FS_Subset, FS_CardinalityType
<1>2. \A d \in S : d \in Docs /\ d \in Int /\ s[d] \in Int /\ Home(d) \in Int
  BY DocTypes
<1>3. \A d, e \in S : <<d, e>> \in GlobalOrder(s) <=>
          \/ s[d] > s[e]
          \/ s[d] = s[e] /\ (Home(d) < Home(e) \/ (Home(d) = Home(e) /\ d < e))
  BY <1>2 DEF GlobalOrder
<1>4. \A x \in S : <<x, x>> \notin GlobalOrder(s)
  BY <1>2, <1>3
<1>5. ASSUME NEW x \in S, NEW y \in S
      PROVE  x = y \/ <<x, y>> \in GlobalOrder(s) \/ <<y, x>> \in GlobalOrder(s)
  <2>1. /\ s[x] > s[y] \/ s[x] = s[y] \/ s[y] > s[x]
        /\ x < y \/ x = y \/ y < x
        /\ (Home(x) < Home(y) \/ Home(x) = Home(y) \/ Home(y) < Home(x))
    BY <1>2
  <2> QED
    BY <1>3, <2>1
<1>6. ASSUME NEW x \in S, NEW y \in S, NEW z \in S,
             <<x, y>> \in GlobalOrder(s), <<y, z>> \in GlobalOrder(s)
      PROVE  <<x, z>> \in GlobalOrder(s)
  <2>1. /\ \/ s[x] > s[y]
           \/ s[x] = s[y] /\ (Home(x) < Home(y) \/ (Home(x) = Home(y) /\ x < y))
        /\ \/ s[y] > s[z]
           \/ s[y] = s[z] /\ (Home(y) < Home(z) \/ (Home(y) = Home(z) /\ y < z))
    BY <1>3, <1>6
  <2>2. \/ s[x] > s[z]
        \/ s[x] = s[z] /\ (Home(x) < Home(z) \/ (Home(x) = Home(z) /\ x < z))
    BY <1>2, <2>1
  <2> QED
    BY <1>3, <2>2
<1> QED
  BY <1>1, <1>4, <1>5, <1>6 DEF Orders

\* Both orders are one on the documents of a node.
LEMMA SameOrder ==
    ASSUME NEW s \in [Docs -> Scores], NEW d \in Docs, NEW e \in Docs, Home(d) = Home(e)
    PROVE  <<d, e>> \in NodeOrder(s) <=> <<d, e>> \in GlobalOrder(s)
<1>1. Home(d) \in Int /\ Home(e) \in Int
  BY DocTypes
<1> QED
  BY <1>1 DEF NodeOrder, GlobalOrder

LEMMA RankedIs ==
    ASSUME NEW docs \in SUBSET Docs
    PROVE  Ranked(docs) = Sorted(docs, NodeOrder(score))
<1>1. \A d \in docs : {e \in docs : Before(e, d)} = Ahead(docs, NodeOrder(score), d)
  BY DEF Ahead, NodeOrder, Before
<1>2. ASSUME NEW k
      PROVE  (CHOOSE d \in docs : Cardinality({e \in docs : Before(e, d)}) = k - 1)
                 = CHOOSE d \in docs : Place(docs, NodeOrder(score), d) = k - 1
  <2>1. \A d \in docs : Cardinality({e \in docs : Before(e, d)})
                            = Place(docs, NodeOrder(score), d)
    BY <1>1 DEF Place
  <2> QED
    BY <2>1
<1>3. Ranked(docs) = [k \in 1 .. Cardinality(docs) |->
          CHOOSE d \in docs : Cardinality({e \in docs : Before(e, d)}) = k - 1]
  BY Zenon DEF Ranked, InOrder
<1> QED
  BY <1>2, <1>3, Zenon DEF Sorted

LEMMA OutranksOrder ==
    ASSUME NEW docs \in SUBSET Docs
    PROVE  InOrder(docs, Outranks) = Sorted(docs, GlobalOrder(score))
<1>1. \A d \in docs : {e \in docs : Outranks(e, d)} = Ahead(docs, GlobalOrder(score), d)
  BY DEF Ahead, GlobalOrder, Outranks
<1>2. ASSUME NEW k
      PROVE  (CHOOSE d \in docs : Cardinality({e \in docs : Outranks(e, d)}) = k - 1)
                 = CHOOSE d \in docs : Place(docs, GlobalOrder(score), d) = k - 1
  <2>1. \A d \in docs : Cardinality({e \in docs : Outranks(e, d)})
                            = Place(docs, GlobalOrder(score), d)
    BY <1>1 DEF Place
  <2> QED
    BY <2>1
<1>3. InOrder(docs, Outranks) = [k \in 1 .. Cardinality(docs) |->
          CHOOSE d \in docs : Cardinality({e \in docs : Outranks(e, d)}) = k - 1]
  BY Zenon DEF InOrder
<1> QED
  BY <1>2, <1>3, Zenon DEF Sorted

-----------------------------------------------------------------------------
(* Pages *)

LEMMA SubSeqFacts ==
    ASSUME NEW D, NEW t \in Seq(D), NEW a \in Nat \ {0}, NEW b \in Nat, b <= Len(t)
    PROVE  /\ SubSeq(t, a, b) \in Seq(D)
           /\ Len(SubSeq(t, a, b)) = IF a <= b THEN b - a + 1 ELSE 0
           /\ \A i \in 1 .. Len(SubSeq(t, a, b)) : SubSeq(t, a, b)[i] = t[a + i - 1]
<1>1. CASE a <= b
  BY <1>1
<1>2. CASE ~(a <= b)
  BY <1>2
<1> QED
  BY <1>1, <1>2

\* A page has the elements after the offset, up to the limit.
LEMMA PageIs ==
    ASSUME NEW D, NEW t \in Seq(D), NEW offset \in Nat, NEW limit \in Nat
    PROVE  /\ Page(t, offset, limit) \in Seq(D)
           /\ \A i \in Nat \ {0} :
                  i \in 1 .. Len(Page(t, offset, limit)) <=> i <= limit /\ offset + i <= Len(t)
           /\ \A i \in 1 .. Len(Page(t, offset, limit)) :
                  Page(t, offset, limit)[i] = t[offset + i]
<1> DEFINE b == IF offset + limit < Len(t) THEN offset + limit ELSE Len(t)
           p == Page(t, offset, limit)
<1>1. Len(t) \in Nat /\ b \in Nat /\ b <= Len(t) /\ b <= offset + limit
  OBVIOUS
<1>2. CASE offset >= Len(t)
  <2>1. p = << >>
    BY <1>2 DEF Page
  <2> QED
    BY <1>1, <1>2, <2>1
<1>3. CASE offset < Len(t)
  <2>1. p = SubSeq(t, offset + 1, b)
    BY <1>1, <1>3 DEF Page
  <2>2. offset + 1 \in Nat \ {0}
    OBVIOUS
  <2> HIDE DEF p
  <2>3. /\ p \in Seq(D)
        /\ Len(p) = IF offset + 1 <= b THEN b - (offset + 1) + 1 ELSE 0
        /\ \A i \in 1 .. Len(p) : p[i] = t[offset + 1 + i - 1]
    <3> HIDE DEF b
    <3> QED
      BY <1>1, <2>1, <2>2, SubSeqFacts
  <2>4. \A i \in 1 .. Len(p) : p[i] = t[offset + i]
    BY <2>3
  <2>5. Len(p) = b - offset
    BY <1>1, <1>3, <2>3
  <2>6. ASSUME NEW i \in Nat \ {0}
        PROVE  i \in 1 .. Len(p) <=> i <= limit /\ offset + i <= Len(t)
    BY <1>1, <2>5
  <2> QED
    BY <2>3, <2>4, <2>6 DEF p
<1> QED
  BY <1>1, <1>2, <1>3

LEMMA PageFacts ==
    ASSUME NEW D, NEW t \in Seq(D), NEW offset \in Nat, NEW limit \in Nat, NEW R
    PROVE  /\ Page(t, offset, limit) \in Seq(D)
           /\ ToSet(Page(t, offset, limit)) \subseteq ToSet(t)
           /\ Ascends(t, R) => Ascends(Page(t, offset, limit), R)
<1> DEFINE p == Page(t, offset, limit)
<1>1. /\ p \in Seq(D) /\ Len(p) \in Nat /\ Len(t) \in Nat
      /\ DOMAIN p = 1 .. Len(p) /\ DOMAIN t = 1 .. Len(t)
      /\ \A i \in 1 .. Len(p) : p[i] = t[offset + i] /\ offset + i <= Len(t)
  BY PageIs
<1> HIDE DEF p
<1>2. \A i \in 1 .. Len(p) : offset + i \in 1 .. Len(t)
  BY <1>1
<1>3. ToSet(p) \subseteq ToSet(t)
  BY <1>1, <1>2 DEF ToSet
<1>4. ASSUME Ascends(t, R), NEW i \in 1 .. Len(p), NEW j \in 1 .. Len(p), i < j
      PROVE  <<p[i], p[j]>> \in R
  <2>1. offset + i < offset + j
    BY <1>1, <1>4
  <2>2. <<t[offset + i], t[offset + j]>> \in R
    BY <1>2, <1>4, <2>1 DEF Ascends
  <2> QED
    BY <1>1, <2>2
<1> QED
  BY <1>1, <1>3, <1>4 DEF p, Ascends

\* Sequences that agree up to the end of the page have the same page.
LEMMA PageSame ==
    ASSUME NEW D, NEW s \in Seq(D), NEW t \in Seq(D), NEW offset \in Nat, NEW limit \in Nat,
           \A k \in 1 .. limit + offset : /\ k <= Len(s) <=> k <= Len(t)
                                          /\ k <= Len(t) => s[k] = t[k]
    PROVE  Page(s, offset, limit) = Page(t, offset, limit)
<1> DEFINE p == Page(s, offset, limit)
           q == Page(t, offset, limit)
<1>1. /\ p \in Seq(D) /\ q \in Seq(D) /\ Len(p) \in Nat /\ Len(q) \in Nat
      /\ \A i \in Nat \ {0} : i \in 1 .. Len(p) <=> i <= limit /\ offset + i <= Len(s)
      /\ \A i \in Nat \ {0} : i \in 1 .. Len(q) <=> i <= limit /\ offset + i <= Len(t)
      /\ \A i \in 1 .. Len(p) : p[i] = s[offset + i]
      /\ \A i \in 1 .. Len(q) : q[i] = t[offset + i]
  BY PageIs
<1>2. Len(s) \in Nat /\ Len(t) \in Nat
  OBVIOUS
<1> HIDE DEF p, q
<1>3. \A i \in Nat \ {0} : i <= limit => offset + i \in 1 .. limit + offset
  OBVIOUS
<1>4. \A i \in Nat \ {0} : i \in 1 .. Len(p) <=> i \in 1 .. Len(q)
  BY <1>1, <1>3
<1>5. Len(p) = Len(q)
  <2>1. Len(p) # 0 => Len(p) <= Len(q)
    BY <1>1, <1>4
  <2>2. Len(q) # 0 => Len(q) <= Len(p)
    BY <1>1, <1>4
  <2> QED
    BY <1>1, <2>1, <2>2
<1>6. ASSUME NEW i \in 1 .. Len(p)
      PROVE  p[i] = q[i]
  <2>1. i \in Nat \ {0} /\ i \in 1 .. Len(q)
    BY <1>1, <1>4
  <2>2. offset + i \in 1 .. limit + offset /\ offset + i <= Len(t)
    BY <1>1, <1>3, <2>1
  <2> QED
    BY <1>1, <2>1, <2>2
<1>7. p = q
  BY <1>1, <1>5, <1>6
<1> QED
  BY <1>7 DEF p, q

LEMMA FirstNIs ==
    ASSUME NEW D, NEW t \in Seq(D), NEW n \in Nat, NEW R, Ascends(t, R)
    PROVE  /\ FirstN(t, n) \in Seq(D) /\ Ascends(FirstN(t, n), R)
           /\ \A i \in Nat \ {0} : i \in 1 .. Len(FirstN(t, n)) <=> i <= n /\ i <= Len(t)
           /\ \A i \in 1 .. Len(FirstN(t, n)) : FirstN(t, n)[i] = t[i]
           /\ Len(t) <= n => FirstN(t, n) = t
<1> DEFINE b == IF n < Len(t) THEN n ELSE Len(t)
           p == FirstN(t, n)
<1>1. Len(t) \in Nat /\ b \in Nat /\ b <= Len(t) /\ b <= n
  OBVIOUS
<1>2. /\ p \in Seq(D)
      /\ Len(p) = IF 1 <= b THEN b - 1 + 1 ELSE 0
      /\ \A i \in 1 .. Len(p) : p[i] = t[1 + i - 1]
  <2>1. p = SubSeq(t, 1, b) /\ 1 \in Nat \ {0}
    BY DEF FirstN
  <2> HIDE DEF b, p
  <2> QED
    BY <1>1, <2>1, SubSeqFacts
<1> HIDE DEF p
<1>3. Len(p) = b /\ \A i \in 1 .. Len(p) : p[i] = t[i]
  BY <1>1, <1>2
<1>4. \A i \in Nat \ {0} : i \in 1 .. Len(p) <=> i <= n /\ i <= Len(t)
  BY <1>1, <1>3
<1>5. Ascends(p, R)
  <2>1. \A i \in 1 .. Len(p) : i \in 1 .. Len(t) /\ p[i] = t[i]
    BY <1>1, <1>3
  <2> QED
    BY <2>1 DEF Ascends
<1>6. Len(t) <= n => p = t
  <2> SUFFICES ASSUME Len(t) <= n PROVE p = t
    OBVIOUS
  <2>1. Len(p) = Len(t)
    BY <1>1, <1>3
  <2> QED
    BY <1>2, <1>3, <2>1
<1> QED
  BY <1>2, <1>3, <1>4, <1>5, <1>6 DEF p

-----------------------------------------------------------------------------
(* Grouping *)

Firsts(t) == FoldLeft(KeepUnseen, << >>, t)

\* The document at i is the first of its partition.
IsFirst(t, i) == \A j \in 1 .. Len(t) : j < i => PartitionOf[t[j]] # PartitionOf[t[i]]

LEMMA KeepUnseenFacts ==
    ASSUME NEW g \in Seq(Docs), NEW d \in Docs, NEW R, Ascends(g, R),
           \A e \in ToSet(g) : <<e, d>> \in R
    PROVE  /\ KeepUnseen(g, d) \in Seq(Docs) /\ Ascends(KeepUnseen(g, d), R)
           /\ ToSet(KeepUnseen(g, d)) =
                  ToSet(g) \union {x \in {d} : \A e \in ToSet(g) : PartitionOf[e] # PartitionOf[d]}
<1>1. CASE \E e \in ToSet(g) : PartitionOf[e] = PartitionOf[d]
  <2>1. KeepUnseen(g, d) = g
    BY <1>1 DEF KeepUnseen
  <2> QED
    BY <1>1, <2>1
<1>2. CASE \A e \in ToSet(g) : PartitionOf[e] # PartitionOf[d]
  <2> DEFINE one == <<d>>
  <2>1. KeepUnseen(g, d) = g \o one
    <3>1. KeepUnseen(g, d) = Append(g, d)
      BY <1>2 DEF KeepUnseen
    <3>2. Append(g, d) = g \o <<d>>
      OBVIOUS
    <3> QED
      BY <3>1, <3>2
  <2>2. one \in Seq(Docs) /\ ToSet(one) = {d} /\ Ascends(one, R)
    <3>1. one \in Seq(Docs) /\ Len(one) = 1 /\ DOMAIN one = {1} /\ one[1] = d
      OBVIOUS
    <3> HIDE DEF one
    <3>2. ToSet(one) = {d}
      BY <3>1 DEF ToSet
    <3>3. Ascends(one, R)
      BY <3>1 DEF Ascends
    <3> QED
      BY <3>1, <3>2, <3>3
  <2> HIDE DEF one
  <2>3. /\ g \o one \in Seq(Docs) /\ Ascends(g \o one, R)
        /\ ToSet(g \o one) = ToSet(g) \union ToSet(one)
    BY <2>2, JoinAscends
  <2> QED
    BY <1>2, <2>1, <2>2, <2>3
<1> QED
  BY <1>1, <1>2

\* The loop keeps the first document of every partition, in their order.
LEMMA FirstsFacts ==
    ASSUME NEW t \in Seq(Docs), NEW R, Ascends(t, R)
    PROVE  /\ Firsts(t) \in Seq(Docs) /\ Ascends(Firsts(t), R)
           /\ ToSet(Firsts(t)) = {d \in Docs : \E i \in 1 .. Len(t) : IsFirst(t, i) /\ t[i] = d}
<1> DEFINE n == Len(t)
           A == Seq(Docs)
           F == [p \in A \X Docs |-> KeepUnseen(p[1], p[2])]
           Equations(it) == [s \in SUBSET (1 .. n) |->
                               IF s = {} THEN << >>
                               ELSE KeepUnseen(it[s \ {Max(s)}], t[Max(s)])]
           iter == CHOOSE it : it = Equations(it)
<1>1. n \in Nat /\ t \in [1 .. n -> Docs] /\ DOMAIN t = 1 .. n
  OBVIOUS
<1>2. F \in [A \X Docs -> A] /\ << >> \in A
  <2>1. ASSUME NEW g \in A, NEW d \in Docs
        PROVE  KeepUnseen(g, d) \in A
    BY DEF KeepUnseen
  <2> QED
    BY <2>1
<1>3. PICK it \in [SUBSET (1 .. n) -> A] : Iterates(it, n, << >>, t, F)
  <2> HIDE DEF F, n, A
  <2> QED
    BY <1>1, <1>2, IteratesExist
<1>4. ASSUME NEW s \in SUBSET (1 .. n), s # {}
      PROVE  F[<<it[s \ {Max(s)}], t[Max(s)]>>] = KeepUnseen(it[s \ {Max(s)}], t[Max(s)])
  <2>1. Max(s) \in 1 .. n
    BY <1>1, <1>4, MaxOfRange
  <2>2. t[Max(s)] \in Docs /\ it[s \ {Max(s)}] \in A
    BY <1>1, <1>3, <2>1
  <2> HIDE DEF A
  <2> QED
    BY <2>2
<1>5. it = Equations(it)
  <2> HIDE DEF F, A, n
  <2> QED
    BY <1>3, <1>4 DEF Iterates
<1>6. iter = Equations(iter)
  BY <1>5
<1>7. Firsts(t) = iter[1 .. n]
  BY <1>1 DEF Firsts, FoldLeft, MapThenFoldSet
<1> HIDE DEF iter
<1>8. iter[{}] = << >>
  BY <1>6
<1>9. ASSUME NEW k \in 1 .. n
      PROVE  iter[1 .. k] = KeepUnseen(iter[1 .. k - 1], t[k])
  <2>1. /\ 1 .. k # {} /\ 1 .. k \in SUBSET (1 .. n)
        /\ Max(1 .. k) = k /\ (1 .. k) \ {k} = 1 .. k - 1
    BY <1>1, MaxUpTo
  <2>2. iter[1 .. k] = KeepUnseen(iter[(1 .. k) \ {Max(1 .. k)}], t[Max(1 .. k)])
    BY <1>6, <2>1
  <2> QED
    BY <2>1, <2>2, Zenon
<1> DEFINE Kept(k) == {d \in Docs : \E i \in 1 .. k : IsFirst(t, i) /\ t[i] = d}
           Seen(k) == \A j \in 1 .. k : \E e \in Kept(k) : PartitionOf[e] = PartitionOf[t[j]]
           Good(k) == /\ iter[1 .. k] \in A /\ Ascends(iter[1 .. k], R)
                      /\ ToSet(iter[1 .. k]) = Kept(k)
                      /\ Seen(k)
           S == {k \in 0 .. n : Good(k)}
<1>10. 0 \in S
  <2>1. 1 .. 0 = {} /\ 0 \in 0 .. n
    BY <1>1
  <2>2. Kept(0) = {} /\ Seen(0)
    BY <2>1
  <2>3. << >> \in Seq(Docs) /\ ToSet(<< >>) = {} /\ Ascends(<< >>, R)
    BY DEF ToSet, Ascends
  <2> HIDE DEF Kept, Seen
  <2>4. iter[1 .. 0] = << >>
    BY <1>8, <2>1
  <2>5. Good(0)
    BY <2>2, <2>3, <2>4
  <2> HIDE DEF Good
  <2> QED
    BY <2>1, <2>5
<1>11. ASSUME NEW k \in 1 .. n, k - 1 \in S
       PROVE  k \in S
  <2> DEFINE g == iter[1 .. k - 1]
             d == t[k]
  <2>1. Good(k - 1)
    BY <1>11
  <2>2. d \in Docs /\ g \in Seq(Docs) /\ Ascends(g, R) /\ ToSet(g) = Kept(k - 1) /\ Seen(k - 1)
    BY <1>1, <2>1
  <2>3. \A i \in 1 .. k - 1 : i \in 1 .. n /\ i < k
    BY <1>1
  <2>4. \A e \in ToSet(g) : <<e, d>> \in R
    <3>1. \A i \in 1 .. k - 1 : <<t[i], d>> \in R
      BY <2>3 DEF Ascends
    <3> QED
      BY <2>2, <3>1
  <2>5. (\A e \in ToSet(g) : PartitionOf[e] # PartitionOf[d]) <=> IsFirst(t, k)
    <3>1. ASSUME NEW j \in 1 .. n, j < k, PartitionOf[t[j]] = PartitionOf[d]
          PROVE  \E e \in ToSet(g) : PartitionOf[e] = PartitionOf[d]
      <4>1. j \in 1 .. k - 1
        BY <1>1, <3>1
      <4> HIDE DEF Kept
      <4> QED
        BY <2>2, <3>1, <4>1
    <3>2. ASSUME NEW e \in ToSet(g), PartitionOf[e] = PartitionOf[d]
          PROVE  \E j \in 1 .. n : j < k /\ PartitionOf[t[j]] = PartitionOf[d]
      BY <2>2, <2>3, <3>2
    <3> HIDE DEF g, d
    <3> QED
      BY <3>1, <3>2 DEF IsFirst, d, n
  <2> DEFINE h == KeepUnseen(g, d)
  <2>6. /\ h \in Seq(Docs) /\ Ascends(h, R)
        /\ ToSet(h) =
               ToSet(g) \union {x \in {d} : \A e \in ToSet(g) : PartitionOf[e] # PartitionOf[d]}
    <3> HIDE DEF g, d
    <3> QED
      BY <2>2, <2>4, KeepUnseenFacts
  <2>7. 1 .. k = (1 .. k - 1) \union {k}
    BY <1>1
  <2>8. ToSet(h) = Kept(k)
    <3>1. {x \in {d} : \A e \in ToSet(g) : PartitionOf[e] # PartitionOf[d]}
              = {x \in {d} : IsFirst(t, k)}
      BY <2>5
    <3>2. Kept(k) = Kept(k - 1) \union {x \in {d} : IsFirst(t, k)}
      BY <2>2, <2>7
    <3> HIDE DEF Kept, h, g, d
    <3> QED
      BY <2>2, <2>6, <3>1, <3>2
  <2>9. Seen(k)
    <3>1. Kept(k - 1) \subseteq Kept(k)
      BY <2>7
    <3>2. \E e \in Kept(k) : PartitionOf[e] = PartitionOf[d]
      <4>1. CASE IsFirst(t, k)
        <5>1. d \in Kept(k)
          BY <2>2, <2>7, <4>1
        <5> HIDE DEF Kept, d
        <5> QED
          BY <5>1
      <4>2. CASE ~IsFirst(t, k)
        <5> HIDE DEF Kept, g
        <5> QED
          BY <2>2, <2>5, <3>1, <4>2
      <4> QED
        BY <4>1, <4>2
    <3> HIDE DEF Kept
    <3> QED
      BY <2>2, <2>7, <3>1, <3>2
  <2>10. iter[1 .. k] = h
    BY <1>9
  <2>11. Good(k)
    <3> HIDE DEF Kept, Seen, h
    <3> QED
      BY <2>6, <2>8, <2>9, <2>10
  <2>12. k \in 0 .. n
    BY <1>1
  <2> HIDE DEF Good
  <2> QED
    BY <2>11, <2>12
<1>12. Good(n)
  <2>1. n \in 0 .. n
    BY <1>1
  <2>2. 0 .. n \subseteq S
    <3> HIDE DEF S
    <3> QED
      BY <1>1, <1>10, <1>11, UpTo
  <2> HIDE DEF Good
  <2> QED
    BY <2>1, <2>2
<1> QED
  BY <1>7, <1>12

-----------------------------------------------------------------------------
(* The hits of a node *)

\* The documents none of whose partition outranks them.
BestOf(s, S) ==
    {d \in S : \A e \in S : PartitionOf[e] = PartitionOf[d] => <<e, d>> \notin GlobalOrder(s)}

\* Hits, of the scores s.
NodeHits(s, docs, req) ==
    Page(IF req.group_by_partition
         THEN Firsts(FirstN(Sorted(docs, NodeOrder(s)), GroupCap))
         ELSE Sorted(docs, NodeOrder(s)), req.offset, req.limit)

LEMMA HitsAre ==
    ASSUME NEW docs \in SUBSET Docs, NEW req
    PROVE  Hits(docs, req) = NodeHits(score, docs, req)
<1>1. Ranked(docs) = Sorted(docs, NodeOrder(score))
  BY RankedIs
<1>2. CASE req.group_by_partition
  BY <1>1, <1>2 DEF Hits, NodeHits, GroupedHits, Firsts
<1>3. CASE ~req.group_by_partition
  BY <1>1, <1>3 DEF Hits, NodeHits, TopHits
<1> QED
  BY <1>2, <1>3

\* Where the cap cuts it short too, a grouped search keeps the best of partitions,
\* and all of them otherwise.
LEMMA GroupedFacts ==
    ASSUME NEW s \in [Docs -> Scores], NEW n, NEW docs \in SUBSET Docs,
           \A d \in docs : Home(d) = n
    PROVE  LET t == Firsts(FirstN(Sorted(docs, NodeOrder(s)), GroupCap))
           IN  /\ t \in Seq(Docs) /\ Ascends(t, NodeOrder(s))
               /\ ToSet(t) \subseteq BestOf(s, docs)
               /\ Cardinality(docs) <= GroupCap => BestOf(s, docs) \subseteq ToSet(t)
<1> DEFINE R == NodeOrder(s)
           all == Sorted(docs, R)
           x == FirstN(all, GroupCap)
           t == Firsts(x)
           N == Cardinality(docs)
<1>1. Orders(R, docs) /\ IsFiniteSet(docs) /\ N \in Nat
  BY NodeOrders
<1>2. ASSUME NEW d \in docs, NEW e \in docs
      PROVE  <<e, d>> \in R <=> <<e, d>> \in GlobalOrder(s)
  BY SameOrder
<1> HIDE DEF R
<1>3. /\ all \in Seq(docs) /\ Len(all) = N /\ Ascends(all, R)
      /\ \A k \in 1 .. N : all[k] \in docs /\ Place(docs, R, all[k]) = k - 1
      /\ \A d \in docs : Place(docs, R, d) + 1 \in 1 .. N /\ all[Place(docs, R, d) + 1] = d
  BY <1>1, SortedFacts, SortedAscends
<1> HIDE DEF all, N
<1>4. all \in Seq(Docs) /\ GroupCap \in Nat
  <2>1. all \in Seq(Docs)
    BY <1>3
  <2>2. GroupCap \in Nat
    BY GatewayAssumption
  <2> QED
    BY <2>1, <2>2
<1>5. /\ x \in Seq(Docs) /\ Ascends(x, R) /\ Len(x) \in Nat
      /\ \A i \in Nat \ {0} : i \in 1 .. Len(x) <=> i <= GroupCap /\ i <= N
      /\ \A i \in 1 .. Len(x) : x[i] = all[i]
      /\ N <= GroupCap => x = all
  BY <1>3, <1>4, FirstNIs
<1> HIDE DEF x
<1>6. /\ t \in Seq(Docs) /\ Ascends(t, R)
      /\ ToSet(t) = {d \in Docs : \E i \in 1 .. Len(x) : IsFirst(x, i) /\ x[i] = d}
  BY <1>5, FirstsFacts
<1> HIDE DEF t
<1>7. ASSUME NEW d \in ToSet(t)
      PROVE  d \in BestOf(s, docs)
  <2>1. PICK i \in 1 .. Len(x) : IsFirst(x, i) /\ x[i] = d
    BY <1>6
  <2>2. i \in 1 .. N /\ i <= GroupCap /\ d = all[i]
    BY <1>1, <1>5, <2>1
  <2>3. d \in docs /\ Place(docs, R, d) = i - 1
    BY <1>3, <2>2
  <2>4. ASSUME NEW e \in docs, <<e, d>> \in R
        PROVE  PartitionOf[e] # PartitionOf[d]
    <3> DEFINE j == Place(docs, R, e) + 1
    <3>1. Place(docs, R, e) < Place(docs, R, d)
      BY <1>1, <2>3, <2>4, PlaceGrows
    <3>2. j \in 1 .. N /\ all[j] = e
      BY <1>3
    <3>3. Place(docs, R, e) \in Int
      BY <1>1, PlaceType
    <3>4. j < i
      BY <2>2, <2>3, <3>1, <3>3
    <3> HIDE DEF j
    <3>5. j \in 1 .. Len(x)
      BY <1>1, <1>4, <1>5, <2>2, <3>2, <3>4
    <3>6. x[j] = e
      BY <1>5, <3>2, <3>5
    <3> QED
      BY <2>1, <3>4, <3>5, <3>6 DEF IsFirst
  <2> QED
    BY <1>2, <2>3, <2>4 DEF BestOf
<1>8. ASSUME N <= GroupCap, NEW d \in BestOf(s, docs)
      PROVE  d \in ToSet(t)
  <2>1. d \in docs /\ x = all
    BY <1>5, <1>8 DEF BestOf
  <2>2. PICK i \in 1 .. N : all[i] = d
    BY <1>3, <2>1
  <2>3. ASSUME NEW j \in 1 .. N, j < i
        PROVE  PartitionOf[all[j]] # PartitionOf[all[i]]
    <3>1. <<all[j], d>> \in R
      BY <1>3, <2>2, <2>3 DEF Ascends
    <3>2. all[j] \in docs
      BY <1>3
    <3>3. <<all[j], d>> \in GlobalOrder(s)
      BY <1>2, <2>1, <3>1, <3>2
    <3> QED
      BY <1>8, <2>2, <3>2, <3>3 DEF BestOf
  <2>4. IsFirst(x, i)
    BY <1>3, <2>1, <2>3 DEF IsFirst
  <2>5. i \in 1 .. Len(x) /\ x[i] = d /\ d \in Docs
    BY <1>3, <2>1, <2>2
  <2> QED
    BY <1>6, <2>4, <2>5
<1>9. ToSet(t) \subseteq BestOf(s, docs)
  BY <1>7
<1>10. N <= GroupCap => BestOf(s, docs) \subseteq ToSet(t)
  BY <1>8
<1> QED
  BY <1>6, <1>9, <1>10, Zenon DEF t, x, all, R, N

LEMMA NodeHitsFacts ==
    ASSUME NEW s \in [Docs -> Scores], NEW n, NEW docs \in SUBSET Docs,
           \A d \in docs : Home(d) = n,
           NEW req, req.offset \in Nat, req.limit \in Nat
    PROVE  /\ NodeHits(s, docs, req) \in Seq(Docs)
           /\ Ascends(NodeHits(s, docs, req), NodeOrder(s))
           /\ ToSet(NodeHits(s, docs, req)) \subseteq docs
           /\ req.group_by_partition
                  => ToSet(NodeHits(s, docs, req)) \subseteq BestOf(s, docs)
<1> DEFINE R == NodeOrder(s)
           t == IF req.group_by_partition THEN Firsts(FirstN(Sorted(docs, R), GroupCap))
                                          ELSE Sorted(docs, R)
<1>1. BestOf(s, docs) \subseteq docs
  BY DEF BestOf
<1>2. /\ t \in Seq(Docs) /\ Ascends(t, R) /\ ToSet(t) \subseteq docs
      /\ req.group_by_partition => ToSet(t) \subseteq BestOf(s, docs)
  <2>1. CASE req.group_by_partition
    <3>1. t = Firsts(FirstN(Sorted(docs, NodeOrder(s)), GroupCap))
      BY <2>1
    <3> HIDE DEF t
    <3>2. t \in Seq(Docs) /\ Ascends(t, NodeOrder(s)) /\ ToSet(t) \subseteq BestOf(s, docs)
      BY <3>1, GroupedFacts
    <3> QED
      BY <1>1, <3>2
  <2>2. CASE ~req.group_by_partition
    <3>1. t = Sorted(docs, R)
      BY <2>2
    <3>2. Orders(R, docs) /\ IsFiniteSet(docs)
      BY NodeOrders
    <3> HIDE DEF t, R
    <3>3. t \in Seq(docs) /\ Ascends(t, R) /\ ToSet(t) = docs
      BY <3>1, <3>2, SortedFacts, SortedAscends
    <3> QED
      BY <2>2, <3>3
  <2> QED
    BY <2>1, <2>2
<1>3. NodeHits(s, docs, req) = Page(t, req.offset, req.limit)
  BY DEF NodeHits
<1> HIDE DEF t
<1>4. /\ Page(t, req.offset, req.limit) \in Seq(Docs)
      /\ ToSet(Page(t, req.offset, req.limit)) \subseteq ToSet(t)
      /\ Ascends(Page(t, req.offset, req.limit), R)
  BY <1>2, PageFacts
<1> QED
  BY <1>2, <1>3, <1>4

\* The documents that a search may return.
Candidates(s, docs, req) == IF req.group_by_partition THEN BestOf(s, docs) ELSE docs

LEMMA NodeHitsExact ==
    ASSUME NEW s \in [Docs -> Scores], NEW n, NEW docs \in SUBSET Docs,
           \A d \in docs : Home(d) = n,
           NEW req, req.group_by_partition => Cardinality(docs) <= GroupCap
    PROVE  NodeHits(s, docs, req) =
               Page(Sorted(Candidates(s, docs, req), NodeOrder(s)), req.offset, req.limit)
<1>1. CASE req.group_by_partition
  <2> DEFINE t == Firsts(FirstN(Sorted(docs, NodeOrder(s)), GroupCap))
             B == BestOf(s, docs)
  <2>1. /\ t \in Seq(Docs) /\ Ascends(t, NodeOrder(s))
        /\ ToSet(t) \subseteq B /\ B \subseteq ToSet(t)
    BY <1>1, GroupedFacts
  <2>2. B \in SUBSET Docs
    BY DEF BestOf
  <2>3. NodeHits(s, docs, req) = Page(t, req.offset, req.limit)
    BY <1>1 DEF NodeHits
  <2>4. Candidates(s, docs, req) = B
    BY <1>1 DEF Candidates
  <2> HIDE DEF t, B
  <2>5. Orders(NodeOrder(s), B) /\ IsFiniteSet(B)
    BY <2>2, NodeOrders
  <2>6. DOMAIN t = 1 .. Len(t)
    BY <2>1
  <2>7. \A d \in B : \E i \in 1 .. Len(t) : t[i] = d
    BY <2>1, <2>6 DEF ToSet
  <2>8. t \in Seq(B)
    <3>1. \A i \in 1 .. Len(t) : t[i] \in B
      BY <2>1, <2>6 DEF ToSet
    <3> QED
      BY <2>1, <3>1
  <2>9. t = Sorted(B, NodeOrder(s))
    BY <2>1, <2>5, <2>7, <2>8, SortedUnique
  <2> QED
    BY <2>3, <2>4, <2>9
<1>2. CASE ~req.group_by_partition
  BY <1>2 DEF NodeHits, Candidates
<1> QED
  BY <1>1, <1>2

-----------------------------------------------------------------------------
(* The merging of hits *)

\* The nodes' first L hits are enough for a page that ends at the L-th.
LEMMA MergedPage ==
    ASSUME NEW s \in [Docs -> Scores], NEW T, NEW A \in [T -> SUBSET Docs],
           \A n \in T : \A d \in A[n] : Home(d) = n,
           NEW offset \in Nat, NEW limit \in Nat, NEW h,
           \A n \in T : h[n] = ToSet(Page(Sorted(A[n], NodeOrder(s)), 0, limit + offset))
    PROVE  Page(Sorted(UNION {h[n] : n \in T}, GlobalOrder(s)), offset, limit)
             = Page(Sorted(UNION {A[n] : n \in T}, GlobalOrder(s)), offset, limit)
<1> DEFINE L == limit + offset
           W == UNION {A[n] : n \in T}
           U == UNION {h[n] : n \in T}
           R == NodeOrder(s)
           G == GlobalOrder(s)
<1>1. W \in SUBSET Docs /\ L \in Nat
  OBVIOUS
<1>2. ASSUME NEW n \in T
      PROVE  h[n] = {d \in A[n] : Place(A[n], R, d) < L}
  <2> DEFINE B == A[n]
             t == Sorted(B, R)
             p == Page(t, 0, L)
             N == Cardinality(B)
  <2>1. B \in SUBSET Docs /\ h[n] = ToSet(p)
    OBVIOUS
  <2> HIDE DEF B, R, L
  <2>2. Orders(R, B) /\ IsFiniteSet(B) /\ N \in Nat
    BY <2>1, NodeOrders DEF R
  <2>3. /\ t \in Seq(B) /\ Len(t) = N
        /\ \A k \in 1 .. N : t[k] \in B /\ Place(B, R, t[k]) = k - 1
        /\ \A d \in B : Place(B, R, d) + 1 \in 1 .. N /\ t[Place(B, R, d) + 1] = d
    BY <2>2, SortedFacts
  <2> HIDE DEF t, N
  <2>4. /\ p \in Seq(B) /\ DOMAIN p = 1 .. Len(p) /\ Len(p) \in Nat
        /\ \A i \in Nat \ {0} : i \in 1 .. Len(p) <=> i <= L /\ 0 + i <= Len(t)
        /\ \A i \in 1 .. Len(p) : p[i] = t[0 + i]
    <3>1. t \in Seq(B) /\ L \in Nat
      BY <1>1, <2>3
    <3>2. ASSUME NEW o \in Nat
          PROVE  /\ Page(t, o, L) \in Seq(B)
                 /\ \A i \in Nat \ {0} :
                        i \in 1 .. Len(Page(t, o, L)) <=> i <= L /\ o + i <= Len(t)
                 /\ \A i \in 1 .. Len(Page(t, o, L)) : Page(t, o, L)[i] = t[o + i]
      BY <3>1, PageIs
    <3>3. /\ p \in Seq(B)
          /\ \A i \in Nat \ {0} : i \in 1 .. Len(p) <=> i <= L /\ 0 + i <= Len(t)
          /\ \A i \in 1 .. Len(p) : p[i] = t[0 + i]
      BY <3>2
    <3> HIDE DEF p
    <3> QED
      BY <3>3
  <2> HIDE DEF p
  <2>5. ASSUME NEW i \in 1 .. Len(p)
        PROVE  p[i] \in B /\ Place(B, R, p[i]) < L
    <3>1. i \in Nat \ {0} /\ i <= L /\ i \in 1 .. N /\ p[i] = t[i]
      BY <2>2, <2>3, <2>4
    <3> QED
      BY <1>1, <2>3, <3>1
  <2>6. ASSUME NEW d \in B, Place(B, R, d) < L
        PROVE  d \in ToSet(p)
    <3> DEFINE i == Place(B, R, d) + 1
    <3>1. i \in 1 .. N /\ t[i] = d
      BY <2>3
    <3>2. Place(B, R, d) \in Int
      BY <2>2, PlaceType
    <3>3. i \in Nat \ {0} /\ i <= L
      BY <1>1, <2>2, <2>6, <3>1, <3>2
    <3> HIDE DEF i
    <3>4. i \in 1 .. Len(p) /\ p[i] = d
      BY <2>2, <2>3, <2>4, <3>1, <3>3
    <3> QED
      BY <2>4, <3>4 DEF ToSet
  <2>7. ToSet(p) = {d \in B : Place(B, R, d) < L}
    BY <2>4, <2>5, <2>6 DEF ToSet
  <2> QED
    BY <2>1, <2>7 DEF B
<1>3. U \in SUBSET W
  BY <1>2
<1> HIDE DEF U, L
<1>4. Orders(G, W) /\ IsFiniteSet(W) /\ Orders(G, U) /\ IsFiniteSet(U)
  <2>1. U \in SUBSET Docs
    BY <1>1, <1>3
  <2> HIDE DEF W
  <2> QED
    BY <1>1, <2>1, GlobalOrders
<1>5. ASSUME NEW d \in W, Place(W, G, d) < L
      PROVE  d \in U
  <2>1. PICK n \in T : d \in A[n]
    OBVIOUS
  <2>2. Orders(R, A[n]) /\ IsFiniteSet(A[n])
    BY NodeOrders
  <2>3. Ahead(A[n], R, d) \subseteq Ahead(W, G, d)
    <3>1. ASSUME NEW e \in A[n], <<e, d>> \in R
          PROVE  e \in W /\ <<e, d>> \in G
      BY <2>1, <3>1, SameOrder
    <3> HIDE DEF W, R, G
    <3> QED
      BY <3>1 DEF Ahead
  <2> HIDE DEF W, R, G
  <2>4. IsFiniteSet(Ahead(W, G, d)) /\ Place(W, G, d) \in Int
    BY <1>4, <1>5, PlaceType
  <2>5. Place(A[n], R, d) <= Place(W, G, d)
    BY <2>3, <2>4, FS_Subset DEF Place
  <2>6. Place(A[n], R, d) \in Int
    BY <2>1, <2>2, PlaceType
  <2>7. Place(A[n], R, d) < L
    BY <1>1, <1>5, <2>4, <2>5, <2>6
  <2>8. d \in h[n]
    BY <1>2, <2>1, <2>7
  <2> QED
    BY <2>8 DEF U
<1> DEFINE u == Sorted(U, G)
           w == Sorted(W, G)
<1> HIDE DEF W, R, G
<1>6. /\ u \in Seq(U) /\ Len(u) = Cardinality(U)
      /\ w \in Seq(W) /\ Len(w) = Cardinality(W)
  BY <1>4, SortedFacts
<1>7. \A k \in 1 .. L : /\ k <= Cardinality(U) <=> k <= Cardinality(W)
                        /\ k <= Cardinality(W) => u[k] = w[k]
  BY <1>1, <1>3, <1>4, <1>5, TopKept
<1> HIDE DEF u, w
<1>8. u \in Seq(W)
  BY <1>3, <1>6
<1>9. Page(u, offset, limit) = Page(w, offset, limit)
  <2>1. \A k \in 1 .. limit + offset : /\ k <= Len(u) <=> k <= Len(w)
                                       /\ k <= Len(w) => u[k] = w[k]
    BY <1>6, <1>7 DEF L
  <2> QED
    BY <1>6, <1>8, <2>1, PageSame
<1> QED
  BY <1>9 DEF u, w, U, W, G

\* The order in which the gateway collects hits: node by node.
ListOrder(s) ==
    {p \in Docs \X Docs : \/ Home(p[1]) < Home(p[2])
                          \/ Home(p[1]) = Home(p[2]) /\ p \in NodeOrder(s)}

\* A stable sort by score of hits that are listed node by node ranks them.
LEMMA StableSort ==
    ASSUME score \in [Docs -> Scores], NEW hits \in Seq(Docs), Ascends(hits, ListOrder(score))
    PROVE  SortedByScore(hits) = Sorted(ToSet(hits), GlobalOrder(score))
<1> DEFINE N == Len(hits)
           P == 1 .. N
           before(i, j) == \/ score[hits[i]] > score[hits[j]]
                           \/ score[hits[i]] = score[hits[j]] /\ i < j
           B == {p \in P \X P : before(p[1], p[2])}
           order == Sorted(P, B)
           t == [i \in P |-> hits[order[i]]]
           S == ToSet(hits)
           G == GlobalOrder(score)
<1>1. /\ N \in Nat /\ DOMAIN hits = P /\ P \subseteq Int
      /\ \A i \in P : hits[i] \in Docs
  OBVIOUS
<1>2. \A i \in P : hits[i] \in Docs /\ score[hits[i]] \in Int /\ Home(hits[i]) \in Int
  BY <1>1, DocTypes
<1>3. \A i, j \in P : <<i, j>> \in B <=> before(i, j)
  BY Zenon
<1>4. SortedByScore(hits) = t
  <2>1. \A d \in P : Cardinality({e \in P : before(e, d)}) = Place(P, B, d)
    BY DEF Place, Ahead
  <2>2. ASSUME NEW k
        PROVE  (CHOOSE d \in P : Cardinality({e \in P : before(e, d)}) = k - 1)
                   = CHOOSE d \in P : Place(P, B, d) = k - 1
    BY <2>1
  <2>3. InOrder(P, before) = [k \in 1 .. Cardinality(P) |->
            CHOOSE d \in P : Cardinality({e \in P : before(e, d)}) = k - 1]
    BY Zenon DEF InOrder
  <2>4. InOrder(P, before) = order
    BY <2>2, <2>3, Zenon DEF Sorted
  <2>5. SortedByScore(hits) = [i \in P |-> hits[InOrder(P, before)[i]]]
    BY Zenon DEF SortedByScore
  <2> QED
    BY <2>4, <2>5, Zenon
<1>5. IsFiniteSet(P) /\ Cardinality(P) = N
  <2>1. 1 \in Int /\ N \in Int /\ (1 > N => N = 0) /\ N - 1 + 1 = N
    BY <1>1
  <2> QED
    BY <2>1, FS_Interval
<1>6. Orders(B, P)
  <2> DEFINE v == [i \in P |-> score[hits[i]]]
  <2>1. \A i, j \in P : <<i, j>> \in B <=> v[i] > v[j] \/ (v[i] = v[j] /\ i < j)
    BY <1>3
  <2>2. \A i \in P : v[i] \in Int /\ i \in Int
    BY <1>1, <1>2
  <2> HIDE DEF v, B, P
  <2>3. \A x \in P : <<x, x>> \notin B
    BY <2>1, <2>2
  <2>4. ASSUME NEW x \in P, NEW y \in P
        PROVE  x = y \/ <<x, y>> \in B \/ <<y, x>> \in B
    <3>1. (v[x] > v[y] \/ v[x] = v[y] \/ v[y] > v[x]) /\ (x < y \/ x = y \/ y < x)
      BY <2>2
    <3> QED
      BY <2>1, <3>1
  <2>5. ASSUME NEW x \in P, NEW y \in P, NEW z \in P, <<x, y>> \in B, <<y, z>> \in B
        PROVE  <<x, z>> \in B
    <3>1. /\ v[x] > v[y] \/ (v[x] = v[y] /\ x < y)
          /\ v[y] > v[z] \/ (v[y] = v[z] /\ y < z)
      BY <2>1, <2>5
    <3>2. v[x] > v[z] \/ (v[x] = v[z] /\ x < z)
      BY <2>2, <3>1
    <3> QED
      BY <2>1, <3>2
  <2> QED
    BY <2>3, <2>4, <2>5 DEF Orders
<1> HIDE DEF B
<1>7. /\ Ascends(order, B) /\ order \in Seq(P) /\ Len(order) = N
      /\ \A d \in P : \E i \in P : order[i] = d
  <2> HIDE DEF P
  <2>1. /\ Ascends(order, B) /\ order \in Seq(P) /\ Len(order) = Cardinality(P)
        /\ \A d \in P : /\ Place(P, B, d) + 1 \in 1 .. Cardinality(P)
                        /\ order[Place(P, B, d) + 1] = d
    BY <1>5, <1>6, SortedFacts, SortedAscends
  <2> HIDE DEF order
  <2>2. \A d \in P : \E i \in 1 .. N : order[i] = d
    BY <1>5, <2>1
  <2> QED
    BY <1>5, <2>1, <2>2 DEF P
<1> HIDE DEF order
<1>8. \A i \in P : order[i] \in P /\ t[i] = hits[order[i]]
  <2>1. \A i \in 1 .. Len(order) : order[i] \in P
    <3> HIDE DEF P
    <3> QED
      BY <1>7
  <2>2. \A i \in P : order[i] \in P
    BY <1>7, <2>1
  <2>3. \A i \in P : t[i] = hits[order[i]]
    BY Zenon
  <2> QED
    BY <2>2, <2>3
<1>9. S \in SUBSET Docs /\ \A i \in P : hits[i] \in S
  BY <1>1 DEF ToSet
<1>10. t \in Seq(S) /\ Len(t) = N
  <2>1. t \in [1 .. N -> S]
    BY <1>8, <1>9
  <2> HIDE DEF t, S
  <2> QED
    BY <1>1, <2>1
<1> HIDE DEF t
<1>11. \A d \in S : \E i \in 1 .. Len(t) : t[i] = d
  <2>1. ASSUME NEW d \in S
        PROVE  \E i \in P : t[i] = d
    <3>1. PICK k \in P : hits[k] = d
      BY <1>1 DEF ToSet
    <3>2. PICK i \in P : order[i] = k
      BY <1>7
    <3> QED
      BY <1>8, <3>1, <3>2
  <2> QED
    BY <1>10, <2>1
<1>12. Ascends(t, G)
  <2>1. ASSUME NEW i \in P, NEW j \in P, i < j
        PROVE  <<t[i], t[j]>> \in G
    <3> DEFINE a == order[i]
               b == order[j]
    <3>1. <<a, b>> \in B /\ a \in P /\ b \in P
      BY <1>7, <1>8, <2>1 DEF Ascends
    <3>2. before(a, b)
      BY <1>3, <3>1
    <3> HIDE DEF a, b
    <3>3. hits[a] \in Docs /\ hits[b] \in Docs
      BY <1>2, <3>1
    <3>4. a < b => <<hits[a], hits[b]>> \in ListOrder(score)
      BY <3>1 DEF Ascends
    <3>5. a < b => \/ Home(hits[a]) < Home(hits[b])
                   \/ /\ Home(hits[a]) = Home(hits[b])
                      /\ \/ score[hits[a]] > score[hits[b]]
                         \/ score[hits[a]] = score[hits[b]] /\ hits[a] < hits[b]
      BY <3>4 DEF ListOrder, NodeOrder
    <3>6. <<hits[a], hits[b]>> \in G <=>
              \/ score[hits[a]] > score[hits[b]]
              \/ /\ score[hits[a]] = score[hits[b]]
                 /\ \/ Home(hits[a]) < Home(hits[b])
                    \/ Home(hits[a]) = Home(hits[b]) /\ hits[a] < hits[b]
      BY <3>3 DEF GlobalOrder
    <3>7. score[hits[a]] = score[hits[b]] => ~(score[hits[a]] > score[hits[b]])
      BY <1>2, <3>1
    <3>8. <<hits[a], hits[b]>> \in G
      <4> HIDE DEF G
      <4> QED
        BY <3>2, <3>5, <3>6, <3>7
    <3> QED
      BY <1>8, <3>8 DEF a, b
  <2> QED
    BY <1>10, <2>1 DEF Ascends
<1>13. Orders(G, S) /\ IsFiniteSet(S)
  BY <1>9, GlobalOrders
<1> HIDE DEF S, G
<1>14. t = Sorted(S, G)
  BY <1>10, <1>11, <1>12, <1>13, SortedUnique
<1> QED
  BY <1>4, <1>14 DEF S, G

\* What the gateway collects, if every node lists documents of its own.
LEMMA AllHitsFacts ==
    ASSUME score \in [Docs -> Scores],
           \A n \in Succeeded : /\ replies[n].hits \in Seq(Docs)
                                /\ Ascends(replies[n].hits, NodeOrder(score))
                                /\ \A d \in ToSet(replies[n].hits) : Home(d) = n
    PROVE  /\ AllHits \in Seq(Docs)
           /\ ToSet(AllHits) = UNION {ToSet(replies[n].hits) : n \in Succeeded}
           /\ Ascends(AllHits, ListOrder(score))
<1> DEFINE seqs == [n \in Nodes |-> IF n \in Succeeded THEN replies[n].hits ELSE << >>]
           L == ListOrder(score)
<1>1. NodeCount \in Nat \ {0} /\ Nodes = 1 .. NodeCount /\ Succeeded \subseteq Nodes
  BY GatewayAssumption DEF Nodes, Succeeded
<1>2. << >> \in Seq(Docs) /\ ToSet(<< >>) = {} /\ Ascends(<< >>, L)
  BY DEF ToSet, Ascends
<1>3. ASSUME NEW n \in Nodes
      PROVE  /\ seqs[n] \in Seq(Docs)
             /\ \A d \in ToSet(seqs[n]) : Home(d) = n
             /\ Ascends(seqs[n], L)
  <2>1. CASE n \in Succeeded
    <3> DEFINE h == replies[n].hits
    <3>1. seqs[n] = h
      BY <2>1
    <3>2. h \in Seq(Docs) /\ Ascends(h, NodeOrder(score)) /\ \A d \in ToSet(h) : Home(d) = n
      BY <2>1
    <3> HIDE DEF h
    <3>3. \A i \in 1 .. Len(h) : h[i] \in Docs /\ Home(h[i]) = n
      BY <3>2 DEF ToSet
    <3>4. Ascends(h, L)
      BY <3>2, <3>3 DEF Ascends, ListOrder
    <3> HIDE DEF seqs
    <3> QED
      BY <3>1, <3>2, <3>4
  <2>2. CASE n \notin Succeeded
    <3>1. seqs[n] = << >>
      BY <2>2
    <3> HIDE DEF seqs
    <3> QED
      BY <1>2, <3>1
  <2> QED
    BY <2>1, <2>2
<1>4. UNION {ToSet(seqs[n]) : n \in Nodes} = UNION {ToSet(replies[n].hits) : n \in Succeeded}
  <2>1. \A n \in Succeeded : seqs[n] = replies[n].hits
    BY <1>1
  <2>2. \A n \in Nodes \ Succeeded : ToSet(seqs[n]) = {}
    BY <1>2
  <2> HIDE DEF seqs
  <2> QED
    BY <1>1, <2>1, <2>2
<1>5. seqs \in [1 .. NodeCount -> Seq(Docs)]
  BY <1>1, <1>3
<1>6. AllHits = FlattenSeq(seqs)
  BY DEF AllHits
<1> HIDE DEF seqs
<1>7. ASSUME NEW i \in 1 .. NodeCount, NEW j \in 1 .. NodeCount, i < j,
             NEW x \in ToSet(seqs[i]), NEW y \in ToSet(seqs[j])
      PROVE  <<x, y>> \in L
  <2>1. Home(x) = i /\ Home(y) = j
    BY <1>1, <1>3
  <2>2. seqs[i] \in Seq(Docs) /\ seqs[j] \in Seq(Docs)
    BY <1>5
  <2>3. x \in Docs /\ y \in Docs
    BY <2>2 DEF ToSet
  <2> QED
    BY <1>7, <2>1, <2>3 DEF ListOrder
<1> HIDE DEF L
<1>8. /\ FlattenSeq(seqs) \in Seq(Docs)
      /\ ToSet(FlattenSeq(seqs)) = UNION {ToSet(seqs[i]) : i \in 1 .. NodeCount}
      /\ Ascends(FlattenSeq(seqs), L)
  <2>1. \A i \in 1 .. NodeCount : Ascends(seqs[i], L)
    BY <1>1, <1>3
  <2>2. \A i, j \in 1 .. NodeCount : i < j =>
            \A x \in ToSet(seqs[i]), y \in ToSet(seqs[j]) : <<x, y>> \in L
    BY <1>7
  <2> QED
    BY <1>1, <1>5, <2>1, <2>2, FlattenAscends
<1> QED
  BY <1>1, <1>4, <1>6, <1>8 DEF L

-----------------------------------------------------------------------------
(* The invariant.  It speaks of the variables through operators of them, so that
   a step that leaves them alone keeps it. *)

Answering(rep) == {n \in Nodes : rep[n] \notin {Nothing, Failed}}

\* What the node had that the query matches.
Held(snap, req, n) == {d \in snap[n] : Matches(TextOf[d], req)}

HeldByAll(rep, snap, req) == UNION {Held(snap, req, n) : n \in Answering(rep)}

\* The reply of a node that had the documents.
IsReply(reply, s, req, docs) ==
    /\ reply.hits = NodeHits(s, docs, NodeRequest(req))
    /\ reply.total_hits = Cardinality(docs)
    /\ reply.facets = [v \in Buckets |-> Cardinality(Increments(docs, req, v))]

\* The answer that follows from the replies.
IsAnswer(res, s, req, rep, snap) ==
    /\ req.consistency = "All" => Answering(rep) = Nodes
    /\ res.hits = Page(Sorted(UNION {ToSet(rep[n].hits) : n \in Answering(rep)}, GlobalOrder(s)),
                       req.offset, req.limit)
    /\ res.total_hits = Cardinality(HeldByAll(rep, snap, req))
    /\ res.facets = [v \in Buckets |->
                        Cardinality(Increments(HeldByAll(rep, snap, req), req, v))]

SnapshotsHome == \A n \in Nodes : \A d \in snapshot[n] : Home(d) = n

RepliesRight == \A n \in Answering(replies) :
                    IsReply(replies[n], score, request, Held(snapshot, request, n))

AnswerRight == result \notin {Nothing, Failed, Panicked}
                   => IsAnswer(result, score, request, replies, snapshot)

IndInv == TypeOK /\ SnapshotsHome /\ RepliesRight /\ AnswerRight

LEMMA RequestTypes ==
    ASSUME NEW req \in Request
    PROVE  /\ req.offset \in Nat /\ req.limit \in Nat
           /\ req.group_by_partition \in BOOLEAN
           /\ req.consistency \in {"Any", "All"}
           /\ NodeRequest(req).offset = 0 /\ NodeRequest(req).limit \in Nat
           /\ NodeRequest(req).group_by_partition = req.group_by_partition
           /\ NodeRequest(req).facet_fields = req.facet_fields
           /\ req.limit + req.offset < U32 => NodeRequest(req).limit = req.limit + req.offset
<1>1. /\ req.offset \in Nat /\ req.limit \in Nat /\ req.group_by_partition \in BOOLEAN
      /\ req.consistency \in {"Any", "All"} /\ U32 \in Nat \ {0}
  BY GatewayAssumption DEF Request
<1> DEFINE sum == req.limit + req.offset
<1>2. sum \in Nat /\ sum % U32 \in Nat /\ (sum < U32 => sum % U32 = sum)
  <2>1. sum \in Nat
    BY <1>1
  <2> HIDE DEF sum
  <2> QED
    BY <1>1, <2>1
<1>3. /\ NodeRequest(req).offset = 0 /\ NodeRequest(req).limit = sum % U32
      /\ NodeRequest(req).group_by_partition = req.group_by_partition
      /\ NodeRequest(req).facet_fields = req.facet_fields
  BY DEF NodeRequest, Request
<1> QED
  BY <1>1, <1>2, <1>3

LEMMA DocsFinite ==
    ASSUME NEW S \in SUBSET Docs
    PROVE  IsFiniteSet(S) /\ Cardinality(S) \in Nat
BY GatewayAssumption, FS_Subset, FS_CardinalityType

\* What one document adds to a bucket.
Part(d, req, bucket) ==
    {d} \X (Places(req.facet_fields, bucket[1]) \X Places(FacetOf[d][bucket[1]], bucket[2]))

LEMMA IncrementsAre ==
    ASSUME NEW docs, NEW req, NEW bucket
    PROVE  /\ Increments(docs, req, bucket) = UNION {Part(d, req, bucket) : d \in docs}
           /\ \A t : t \in Increments(docs, req, bucket)
                         <=> \E d \in docs : t \in Part(d, req, bucket)
           /\ \A t \in Increments(docs, req, bucket) :
                  t[1] \in docs /\ t \in Part(t[1], req, bucket)
<1>1. Increments(docs, req, bucket) = UNION {Part(d, req, bucket) : d \in docs}
  BY Zenon DEF Increments, Part
<1>2. \A t : t \in Increments(docs, req, bucket)
                 <=> \E d \in docs : t \in Part(d, req, bucket)
  BY <1>1, Zenon
<1>3. \A d : \A t \in Part(d, req, bucket) : t[1] = d
  BY DEF Part
<1>4. ASSUME NEW t \in Increments(docs, req, bucket)
      PROVE  t[1] \in docs /\ t \in Part(t[1], req, bucket)
  <2>1. PICK d \in docs : t \in Part(d, req, bucket)
    BY <1>2
  <2>2. t[1] = d
    BY <1>3, <2>1
  <2> QED
    BY <2>1, <2>2
<1> QED
  BY <1>1, <1>2, <1>4

LEMMA PlacesFinite ==
    ASSUME NEW S, NEW seq \in Seq(S), NEW x
    PROVE  IsFiniteSet(Places(seq, x))
<1>1. Len(seq) \in Nat /\ DOMAIN seq = 1 .. Len(seq)
  OBVIOUS
<1>2. IsFiniteSet(1 .. Len(seq))
  BY <1>1, FS_Interval
<1> QED
  BY <1>1, <1>2, FS_Subset DEF Places

LEMMA IncrementsFinite ==
    ASSUME NEW docs \in SUBSET Docs, NEW req \in Request, NEW bucket \in Buckets
    PROVE  /\ IsFiniteSet(Increments(docs, req, bucket))
           /\ Cardinality(Increments(docs, req, bucket)) \in Nat
<1> DEFINE f == [d \in docs |-> Part(d, req, bucket)]
           T == {Part(d, req, bucket) : d \in docs}
<1>1. bucket[1] \in Fields /\ req.facet_fields \in Seq(Fields)
  BY DEF Buckets, Request
<1>2. ASSUME NEW d \in docs
      PROVE  IsFiniteSet(Part(d, req, bucket))
  <2>1. FacetOf[d][bucket[1]] \in Seq(FacetValues)
    BY <1>1, GatewayAssumption
  <2>2. IsFiniteSet(Places(req.facet_fields, bucket[1]))
    BY <1>1, PlacesFinite
  <2>3. IsFiniteSet(Places(FacetOf[d][bucket[1]], bucket[2]))
    BY <2>1, PlacesFinite
  <2>4. IsFiniteSet({d})
    BY FS_Singleton
  <2>5. IsFiniteSet(Places(req.facet_fields, bucket[1])
                        \X Places(FacetOf[d][bucket[1]], bucket[2]))
    BY <2>2, <2>3, FS_Product
  <2> QED
    BY <2>4, <2>5, FS_Product DEF Part
<1>3. IsFiniteSet(T)
  <2>1. f \in Surjection(docs, T)
    BY DEF Surjection
  <2> HIDE DEF f, T
  <2> QED
    BY <2>1, DocsFinite, FS_Surjection
<1>4. \A P \in T : IsFiniteSet(P)
  BY <1>2
<1> HIDE DEF T
<1>5. IsFiniteSet(UNION T)
  BY <1>3, <1>4, FS_UNION
<1> QED
  BY <1>5, IncrementsAre, FS_CardinalityType DEF T

\* A bucket has at least as many increments as there are documents with its value,
\* and as many if nothing is repeated.
LEMMA IncrementsCount ==
    ASSUME NEW docs \in SUBSET Docs, NEW req \in Request, NEW bucket \in Buckets
    PROVE  LET having == {d \in docs : /\ bucket[1] \in ToSet(req.facet_fields)
                                       /\ bucket[2] \in ToSet(FacetOf[d][bucket[1]])}
               incs   == Increments(docs, req, bucket)
           IN  /\ Cardinality(incs) >= Cardinality(having)
               /\ /\ IsInjective(req.facet_fields)
                  /\ \A d \in docs : IsInjective(FacetOf[d][bucket[1]])
                  => Cardinality(incs) = Cardinality(having)
<1> DEFINE having == {d \in docs : /\ bucket[1] \in ToSet(req.facet_fields)
                                   /\ bucket[2] \in ToSet(FacetOf[d][bucket[1]])}
           incs == Increments(docs, req, bucket)
           f == [t \in incs |-> t[1]]
<1>1. /\ IsFiniteSet(incs) /\ Cardinality(incs) \in Nat
  BY IncrementsFinite
<1>2. \A d \in docs : d \in having <=> Part(d, req, bucket) # {}
  <2>1. ASSUME NEW d \in docs
        PROVE  /\ bucket[1] \in ToSet(req.facet_fields)
                      <=> Places(req.facet_fields, bucket[1]) # {}
               /\ bucket[2] \in ToSet(FacetOf[d][bucket[1]])
                      <=> Places(FacetOf[d][bucket[1]], bucket[2]) # {}
    BY DEF ToSet, Places
  <2>2. \A d \in docs : Part(d, req, bucket) # {}
            <=> /\ Places(req.facet_fields, bucket[1]) # {}
                /\ Places(FacetOf[d][bucket[1]], bucket[2]) # {}
    <3> TAKE d \in docs
    <3> DEFINE A == Places(req.facet_fields, bucket[1])
               B == Places(FacetOf[d][bucket[1]], bucket[2])
    <3>1. Part(d, req, bucket) = {d} \X (A \X B)
      BY DEF Part
    <3> HIDE DEF A, B
    <3>2. ASSUME NEW a \in A, NEW b \in B
          PROVE  <<d, <<a, b>>>> \in {d} \X (A \X B)
      OBVIOUS
    <3>3. ASSUME NEW t \in {d} \X (A \X B)
          PROVE  t[2][1] \in A /\ t[2][2] \in B
      OBVIOUS
    <3>4. Part(d, req, bucket) # {} <=> A # {} /\ B # {}
      BY <3>1, <3>2, <3>3
    <3> QED
      BY <3>4 DEF A, B
  <2> QED
    BY <2>1, <2>2
<1>3. \A t \in incs : t[1] \in docs /\ t \in Part(t[1], req, bucket)
  BY IncrementsAre
<1>4. f \in [incs -> having]
  BY <1>2, <1>3
<1>5. ASSUME NEW d \in having
      PROVE  \E t \in incs : f[t] = d
  <2>1. d \in docs /\ Part(d, req, bucket) # {}
    BY <1>2
  <2>2. PICK t \in Part(d, req, bucket) : TRUE
    BY <2>1
  <2>3. t \in incs
    BY <2>1, <2>2, IncrementsAre
  <2>4. t[1] = d
    BY DEF Part
  <2> QED
    BY <2>3, <2>4
<1>6. f \in Surjection(incs, having)
  <2> HIDE DEF f, incs, having
  <2> QED
    BY <1>4, <1>5 DEF Surjection
<1>7. /\ Cardinality(having) <= Cardinality(incs)
      /\ Cardinality(having) = Cardinality(incs) <=> f \in Injection(incs, having)
      /\ IsFiniteSet(having) /\ Cardinality(having) \in Nat
  <2> HIDE DEF f, incs, having
  <2> QED
    BY <1>1, <1>6, FS_Surjection, FS_CardinalityType
<1>8. ASSUME IsInjective(req.facet_fields), \A d \in docs : IsInjective(FacetOf[d][bucket[1]])
      PROVE  f \in Injection(incs, having)
  <2>1. ASSUME NEW t \in incs, NEW u \in incs, t[1] = u[1]
        PROVE  t = u
    <3> DEFINE d == t[1]
               A == Places(req.facet_fields, bucket[1])
               B == Places(FacetOf[d][bucket[1]], bucket[2])
    <3>1. d \in docs /\ t \in {d} \X (A \X B) /\ u \in {d} \X (A \X B)
      BY <1>3, <2>1 DEF Part
    <3>2. \A i, j \in A : i = j
      BY <1>8 DEF Places, IsInjective
    <3>3. IsInjective(FacetOf[d][bucket[1]])
      BY <1>8, <3>1
    <3>4. \A i, j \in B : i = j
      BY <3>3 DEF Places, IsInjective
    <3> HIDE DEF A, B
    <3>5. t[2] \in A \X B /\ u[2] \in A \X B /\ t = <<t[1], t[2]>> /\ u = <<u[1], u[2]>>
      BY <3>1
    <3>6. t[2] = u[2]
      BY <3>2, <3>4, <3>5
    <3> QED
      BY <2>1, <3>5, <3>6
  <2>2. \A t, u \in incs : f[t] = f[u] => t = u
    BY <2>1
  <2> HIDE DEF f, incs, having
  <2> QED
    BY <1>4, <2>2 DEF Injection, IsInjective
<1> QED
  BY <1>1, <1>7, <1>8

\* Engine::search returns what the invariant says, whatever the node has.
LEMMA SearchReplies ==
    ASSUME score \in [Docs -> Scores], NEW n, NEW docs \in SUBSET Docs,
           \A d \in docs : Home(d) = n, NEW req \in Request
    PROVE  LET reply == Search(docs, NodeRequest(req))
           IN  reply \in Response /\ IsReply(reply, score, req, docs)
<1> DEFINE r == NodeRequest(req)
           reply == Search(docs, r)
<1>1. r.offset \in Nat /\ r.limit \in Nat
  BY RequestTypes
<1>2. /\ reply.hits = Hits(docs, r) /\ reply.total_hits = Cardinality(docs)
      /\ reply.facets = Facets(docs, r)
      /\ reply = [hits |-> reply.hits, total_hits |-> reply.total_hits,
                  facets |-> reply.facets]
  BY DEF Search
<1> HIDE DEF r, reply
<1>3. reply.hits = NodeHits(score, docs, r) /\ NodeHits(score, docs, r) \in Seq(Docs)
  BY <1>1, <1>2, HitsAre, NodeHitsFacts
<1>4. reply.facets = [v \in Buckets |-> Cardinality(Increments(docs, req, v))]
  <2>1. r.facet_fields = req.facet_fields
    BY RequestTypes DEF r
  <2>2. \A v : Increments(docs, r, v) = Increments(docs, req, v)
    BY <2>1, Zenon DEF Increments
  <2> QED
    BY <1>2, <2>2, Zenon DEF Facets
<1>5. reply.total_hits \in Nat
  BY <1>2, DocsFinite
<1>6. reply.facets \in [Buckets -> Nat]
  <2>1. \A v \in Buckets : Cardinality(Increments(docs, req, v)) \in Nat
    BY IncrementsFinite
  <2> QED
    BY <1>4, <2>1
<1>7. reply \in Response
  BY <1>2, <1>3, <1>5, <1>6 DEF Response
<1> QED
  BY <1>2, <1>3, <1>4, <1>7, Zenon DEF IsReply, r, reply

-----------------------------------------------------------------------------
(* The gateway's sums *)

LEMMA SucceededFinite == IsFiniteSet(Succeeded) /\ Succeeded = Answering(replies)
<1>1. IsFiniteSet(Nodes)
  <2>1. 1 \in Int /\ NodeCount \in Int
    BY GatewayAssumption
  <2> QED
    BY <2>1, FS_Interval DEF Nodes
<1>2. Succeeded \subseteq Nodes
  BY DEF Succeeded
<1> QED
  BY <1>1, <1>2, FS_Subset DEF Succeeded, Answering

LEMMA TotalSum ==
    ASSUME NEW A, \A n \in Succeeded : /\ IsFiniteSet(A[n])
                                        /\ replies[n].total_hits = Cardinality(A[n]),
           \A m, n \in Succeeded : m # n => A[m] \intersect A[n] = {}
    PROVE  /\ MapThenSumSet(LAMBDA n : replies[n].total_hits, Succeeded)
                  = Cardinality(UNION {A[n] : n \in Succeeded})
           /\ Cardinality(UNION {A[n] : n \in Succeeded}) \in Nat
<1> DEFINE T == Succeeded
           f == [n \in T |-> replies[n].total_hits]
           Equations(it) == [s \in SUBSET T |->
                               IF s = {} THEN 0
                               ELSE replies[CHOOSE x \in s : TRUE].total_hits
                                        + it[s \ {CHOOSE x \in s : TRUE}]]
           iter == CHOOSE it : it = Equations(it)
<1>1. IsFiniteSet(T)
  BY SucceededFinite
<1>2. MapThenSumSet(LAMBDA n : replies[n].total_hits, Succeeded) = iter[T]
  BY Zenon DEF MapThenSumSet, MapThenFoldSet
<1> HIDE DEF T
<1>3. ASSUME NEW it
      PROVE  Equations(it) = [s \in SUBSET T |->
                 IF s = {} THEN 0
                 ELSE f[CHOOSE x \in s : TRUE] + it[s \ {CHOOSE x \in s : TRUE}]]
  <2>1. ASSUME NEW s \in SUBSET T, s # {}
        PROVE  replies[CHOOSE x \in s : TRUE].total_hits = f[CHOOSE x \in s : TRUE]
    <3>1. (CHOOSE x \in s : TRUE) \in T
      BY <2>1
    <3> QED
      BY <3>1
  <2> HIDE DEF f
  <2> QED
    BY <2>1
<1>4. ASSUME NEW it
      PROVE  it = Equations(it) <=> Sums(it, T, f)
  BY <1>3, Zenon DEF Sums
<1>5. \A n \in T : IsFiniteSet(A[n]) /\ f[n] = Cardinality(A[n])
  BY DEF T
<1>6. \A m, n \in T : m # n => A[m] \intersect A[n] = {}
  BY DEF T
<1> HIDE DEF f, Equations
<1>7. /\ \E it : Sums(it, T, f)
      /\ \A it : Sums(it, T, f) => /\ it[T] = Cardinality(UNION {A[n] : n \in T})
                                   /\ it[T] \in Nat
  BY <1>1, <1>5, <1>6, SumOfSizes
<1>8. iter = Equations(iter)
  <2>1. \E it : it = Equations(it)
    BY <1>4, <1>7
  <2> QED
    BY <2>1
<1>9. Sums(iter, T, f)
  BY <1>4, <1>8
<1> HIDE DEF iter
<1> QED
  BY <1>2, <1>7, <1>9 DEF T

LEMMA FacetSum ==
    ASSUME NEW v \in Buckets, NEW A,
           \A n \in Succeeded : /\ IsFiniteSet(A[n])
                                /\ replies[n].facets[v] = Cardinality(A[n]),
           \A m, n \in Succeeded : m # n => A[m] \intersect A[n] = {}
    PROVE  /\ MergedFacets[v] = Cardinality(UNION {A[n] : n \in Succeeded})
           /\ Cardinality(UNION {A[n] : n \in Succeeded}) \in Nat
<1> DEFINE T == Succeeded
           f == [n \in T |-> replies[n].facets[v]]
           Equations(it) == [s \in SUBSET T |->
                               IF s = {} THEN 0
                               ELSE replies[CHOOSE x \in s : TRUE].facets[v]
                                        + it[s \ {CHOOSE x \in s : TRUE}]]
           iter == CHOOSE it : it = Equations(it)
<1>1. IsFiniteSet(T)
  BY SucceededFinite
<1>2. MergedFacets[v] = iter[T]
  <2>1. MergedFacets[v] = MapThenSumSet(LAMBDA n : replies[n].facets[v], Succeeded)
    BY Zenon DEF MergedFacets
  <2>2. MapThenSumSet(LAMBDA n : replies[n].facets[v], Succeeded) = iter[T]
    BY Zenon DEF MapThenSumSet, MapThenFoldSet
  <2> QED
    BY <2>1, <2>2, Zenon
<1> HIDE DEF T
<1>3. ASSUME NEW it
      PROVE  Equations(it) = [s \in SUBSET T |->
                 IF s = {} THEN 0
                 ELSE f[CHOOSE x \in s : TRUE] + it[s \ {CHOOSE x \in s : TRUE}]]
  <2>1. ASSUME NEW s \in SUBSET T, s # {}
        PROVE  replies[CHOOSE x \in s : TRUE].facets[v] = f[CHOOSE x \in s : TRUE]
    <3>1. (CHOOSE x \in s : TRUE) \in T
      BY <2>1
    <3> QED
      BY <3>1
  <2> HIDE DEF f
  <2> QED
    BY <2>1
<1>4. ASSUME NEW it
      PROVE  it = Equations(it) <=> Sums(it, T, f)
  BY <1>3, Zenon DEF Sums
<1>5. \A n \in T : IsFiniteSet(A[n]) /\ f[n] = Cardinality(A[n])
  BY DEF T
<1>6. \A m, n \in T : m # n => A[m] \intersect A[n] = {}
  BY DEF T
<1> HIDE DEF f, Equations
<1>7. /\ \E it : Sums(it, T, f)
      /\ \A it : Sums(it, T, f) => /\ it[T] = Cardinality(UNION {A[n] : n \in T})
                                   /\ it[T] \in Nat
  BY <1>1, <1>5, <1>6, SumOfSizes
<1>8. iter = Equations(iter)
  <2>1. \E it : it = Equations(it)
    BY <1>4, <1>7
  <2> QED
    BY <2>1
<1>9. Sums(iter, T, f)
  BY <1>4, <1>8
<1> HIDE DEF iter
<1> QED
  BY <1>2, <1>7, <1>9 DEF T

-----------------------------------------------------------------------------
(* Every step keeps the invariant *)

LEMMA HeldFacts ==
    ASSUME IndInv, request \in Request, NEW n \in Nodes
    PROVE  /\ Held(snapshot, request, n) \in SUBSET Docs
           /\ \A d \in Held(snapshot, request, n) : Home(d) = n
BY DEF IndInv, TypeOK, SnapshotsHome, Held

\* What a node replied, hit by hit.
LEMMA ReplyFacts ==
    ASSUME IndInv, request \in Request, NEW n \in Answering(replies)
    PROVE  /\ replies[n].hits \in Seq(Docs)
           /\ Ascends(replies[n].hits, NodeOrder(score))
           /\ ToSet(replies[n].hits) \subseteq Held(snapshot, request, n)
           /\ \A d \in ToSet(replies[n].hits) : Home(d) = n
           /\ request.group_by_partition =>
                  ToSet(replies[n].hits) \subseteq BestOf(score, Held(snapshot, request, n))
<1> DEFINE docs == Held(snapshot, request, n)
           r == NodeRequest(request)
<1>1. n \in Nodes /\ score \in [Docs -> Scores]
  BY DEF IndInv, TypeOK, Answering
<1>2. replies[n].hits = NodeHits(score, docs, r)
  BY DEF IndInv, RepliesRight, IsReply
<1>3. docs \in SUBSET Docs /\ \A d \in docs : Home(d) = n
  BY <1>1, HeldFacts
<1>4. /\ r.offset \in Nat /\ r.limit \in Nat
      /\ r.group_by_partition = request.group_by_partition
  BY RequestTypes
<1> HIDE DEF docs, r
<1> DEFINE hits == NodeHits(score, docs, r)
<1>5. /\ hits \in Seq(Docs) /\ Ascends(hits, NodeOrder(score)) /\ ToSet(hits) \subseteq docs
      /\ r.group_by_partition => ToSet(hits) \subseteq BestOf(score, docs)
  BY <1>1, <1>3, <1>4, NodeHitsFacts
<1> HIDE DEF hits
<1> QED
  BY <1>2, <1>3, <1>4, <1>5 DEF docs, hits

\* Home tells the nodes' documents apart.
LEMMA HeldApart ==
    ASSUME IndInv, request \in Request, NEW m \in Nodes, NEW n \in Nodes, m # n
    PROVE  Held(snapshot, request, m) \intersect Held(snapshot, request, n) = {}
BY HeldFacts

\* scatter_gather makes of the replies what the invariant says.
LEMMA GatheredRight ==
    ASSUME IndInv, request \in Request, Consistent(request.consistency)
    PROVE  Gathered \in Response /\ IsAnswer(Gathered, score, request, replies, snapshot)
<1> DEFINE ok == Answering(replies)
           docs == [n \in Nodes |-> Held(snapshot, request, n)]
           all == HeldByAll(replies, snapshot, request)
           G == GlobalOrder(score)
           U == UNION {ToSet(replies[n].hits) : n \in ok}
<1>1. score \in [Docs -> Scores] /\ Succeeded = ok /\ ok \subseteq Nodes
  BY SucceededFinite DEF IndInv, TypeOK, Answering
<1>2. \A n \in ok : /\ n \in Nodes
                    /\ docs[n] = Held(snapshot, request, n)
                    /\ docs[n] \in SUBSET Docs
  BY <1>1, HeldFacts
<1>3. all = UNION {docs[n] : n \in ok} /\ all \in SUBSET Docs
  BY <1>2 DEF HeldByAll
<1>4. \A n \in ok : IsReply(replies[n], score, request, Held(snapshot, request, n))
  BY DEF IndInv, RepliesRight
<1>5. \A m, n \in ok : m # n => docs[m] \intersect docs[n] = {}
  BY <1>2, HeldApart
<1> HIDE DEF ok, docs, all
<1>6. MapThenSumSet(LAMBDA n : replies[n].total_hits, Succeeded) = Cardinality(all)
  <2>1. \A n \in ok : IsFiniteSet(docs[n]) /\ replies[n].total_hits = Cardinality(docs[n])
    BY <1>2, <1>4, DocsFinite DEF IsReply
  <2>2. /\ \A n \in Succeeded : /\ IsFiniteSet(docs[n])
                                /\ replies[n].total_hits = Cardinality(docs[n])
        /\ \A m, n \in Succeeded : m # n => docs[m] \intersect docs[n] = {}
    BY <1>1, <1>5, <2>1
  <2>3. MapThenSumSet(LAMBDA n : replies[n].total_hits, Succeeded)
            = Cardinality(UNION {docs[n] : n \in Succeeded})
    BY <2>2, TotalSum
  <2> QED
    BY <1>1, <1>3, <2>3, Zenon
<1>7. MergedFacets = [v \in Buckets |-> Cardinality(Increments(all, request, v))]
  <2>1. ASSUME NEW v \in Buckets
        PROVE  MergedFacets[v] = Cardinality(Increments(all, request, v))
    <3> DEFINE A == [n \in ok |-> Increments(docs[n], request, v)]
    <3>1. ASSUME NEW n \in ok
          PROVE  IsFiniteSet(A[n]) /\ replies[n].facets[v] = Cardinality(A[n])
      <4>1. A[n] = Increments(Held(snapshot, request, n), request, v)
        BY <1>2
      <4>2. replies[n].facets[v]
                = Cardinality(Increments(Held(snapshot, request, n), request, v))
        BY <1>4 DEF IsReply
      <4>3. IsFiniteSet(A[n])
        BY <1>2, IncrementsFinite
      <4> HIDE DEF A
      <4> QED
        BY <4>1, <4>2, <4>3
    <3>2. \A n \in Succeeded : IsFiniteSet(A[n]) /\ replies[n].facets[v] = Cardinality(A[n])
      <4> HIDE DEF A
      <4> QED
        BY <1>1, <3>1
    <3>3. ASSUME NEW m \in Succeeded, NEW n \in Succeeded, m # n
          PROVE  A[m] \intersect A[n] = {}
      <4>1. /\ \A t \in A[m] : t[1] \in docs[m]
            /\ \A t \in A[n] : t[1] \in docs[n]
        BY <1>1, IncrementsAre
      <4> HIDE DEF A
      <4> QED
        BY <1>1, <1>5, <3>3, <4>1
    <3>4. UNION {A[n] : n \in ok} = Increments(all, request, v)
      <4>1. \A t : t \in Increments(all, request, v)
                       <=> \E d \in all : t \in Part(d, request, v)
        BY IncrementsAre
      <4>2. \A n \in ok : \A t : t \in A[n] <=> \E d \in docs[n] : t \in Part(d, request, v)
        BY IncrementsAre
      <4> HIDE DEF A
      <4>3. \A d : d \in all <=> \E n \in ok : d \in docs[n]
        BY <1>3
      <4> QED
        BY <4>1, <4>2, <4>3
    <3> HIDE DEF A
    <3>5. MergedFacets[v] = Cardinality(UNION {A[n] : n \in Succeeded})
      BY <3>2, <3>3, FacetSum
    <3> QED
      BY <1>1, <3>4, <3>5, Zenon
  <2>2. MergedFacets = [v \in Buckets |-> MergedFacets[v]]
    BY DEF MergedFacets
  <2> QED
    BY <2>1, <2>2, Zenon
<1>8. SortedByScore(AllHits) = Sorted(U, G) /\ U \in SUBSET Docs
  <2>1. \A n \in Succeeded : /\ replies[n].hits \in Seq(Docs)
                             /\ Ascends(replies[n].hits, NodeOrder(score))
                             /\ \A d \in ToSet(replies[n].hits) : Home(d) = n
    BY <1>1, ReplyFacts DEF ok
  <2>2. /\ AllHits \in Seq(Docs) /\ ToSet(AllHits) = U
        /\ Ascends(AllHits, ListOrder(score))
    BY <1>1, <2>1, AllHitsFacts
  <2> HIDE DEF U
  <2>3. U \in SUBSET Docs
    BY <2>2 DEF ToSet
  <2> QED
    BY <1>1, <2>2, <2>3, StableSort
<1> HIDE DEF U
<1>9. /\ Gathered.hits = Page(Sorted(U, G), request.offset, request.limit)
      /\ Gathered.total_hits = Cardinality(all)
      /\ Gathered.facets = MergedFacets
      /\ Gathered = [hits |-> Gathered.hits, total_hits |-> Gathered.total_hits,
                     facets |-> Gathered.facets]
  <2> HIDE DEF G
  <2>1. Gathered = [hits |-> Page(Sorted(U, G), request.offset, request.limit),
                    total_hits |-> Cardinality(all), facets |-> MergedFacets]
    BY <1>6, <1>8, Zenon DEF Gathered
  <2> QED
    BY <2>1
<1>10. Gathered.hits \in Seq(Docs)
  <2>1. request.offset \in Nat /\ request.limit \in Nat
    BY RequestTypes
  <2>2. Orders(G, U) /\ IsFiniteSet(U)
    BY <1>1, <1>8, GlobalOrders
  <2>3. Sorted(U, G) \in Seq(U)
    BY <2>2, SortedFacts
  <2> HIDE DEF G
  <2>4. Page(Sorted(U, G), request.offset, request.limit) \in Seq(U)
    BY <2>1, <2>3, PageIs
  <2> QED
    BY <1>8, <1>9, <2>4
<1>11. Gathered.total_hits \in Nat
  BY <1>3, <1>9, DocsFinite
<1>12. Gathered.facets \in [Buckets -> Nat]
  <2>1. \A v \in Buckets : Cardinality(Increments(all, request, v)) \in Nat
    BY <1>3, IncrementsFinite
  <2> QED
    BY <1>7, <1>9, <2>1
<1>13. Gathered \in Response
  BY <1>9, <1>10, <1>11, <1>12 DEF Response
<1>14. request.consistency = "All" => ok = Nodes
  BY <1>1 DEF Consistent
<1>15. IsAnswer(Gathered, score, request, replies, snapshot)
  BY <1>7, <1>9, <1>14, Zenon DEF IsAnswer, ok, all, U, G
<1> QED
  BY <1>13, <1>15

LEMMA Initially == Init => IndInv
<1> SUFFICES ASSUME Init PROVE IndInv
  OBVIOUS
<1>1. TypeOK
  BY DEF Init, TypeOK
<1>2. Answering(replies) = {} /\ result = Nothing
  BY DEF Init, Answering
<1>3. SnapshotsHome
  BY DEF Init, SnapshotsHome
<1> QED
  BY <1>1, <1>2, <1>3 DEF IndInv, RepliesRight, AnswerRight

LEMMA Step ==
    ASSUME IndInv, [Next]_vars
    PROVE  IndInv'
<1>1. TypeOK /\ SnapshotsHome /\ RepliesRight /\ AnswerRight
  BY DEF IndInv
<1>2. request # Nothing => request \in Request
  BY <1>1 DEF TypeOK
<1>3. Nothing \notin Request \union Response /\ Failed \notin Response
  BY GatewayAssumption
<1>4. ASSUME replies' = [n \in Nodes |-> Nothing], result' = Nothing
      PROVE  RepliesRight' /\ AnswerRight'
  <2>1. Answering(replies') = {}
    BY <1>4 DEF Answering
  <2> QED
    BY <1>4, <2>1 DEF RepliesRight, AnswerRight
<1>5. ASSUME UNCHANGED <<score, request, replies, snapshot>>
      PROVE  SnapshotsHome' /\ RepliesRight'
  <2>1. Answering(replies') = Answering(replies)
    BY <1>5 DEF Answering
  <2>2. SnapshotsHome'
    BY <1>1, <1>5 DEF SnapshotsHome
  <2>3. RepliesRight'
    BY <1>1, <1>5, <2>1 DEF RepliesRight
  <2> QED
    BY <2>2, <2>3
<1>6. CASE Receive
  <2>1. TypeOK'
    BY <1>1, <1>6, GatewayAssumption DEF Receive, TypeOK
  <2>2. SnapshotsHome'
    BY <1>1, <1>6 DEF Receive, SnapshotsHome
  <2>3. RepliesRight' /\ AnswerRight'
    BY <1>1, <1>4, <1>6 DEF Receive, TypeOK
  <2> QED
    BY <2>1, <2>2, <2>3 DEF IndInv
<1>7. CASE AdditionPanics
  <2>1. TypeOK'
    BY <1>1, <1>7 DEF AdditionPanics, TypeOK
  <2>2. AnswerRight'
    BY <1>7 DEF AdditionPanics, AnswerRight
  <2> QED
    BY <1>5, <1>7, <2>1, <2>2 DEF AdditionPanics, IndInv
<1>8. ASSUME NEW n \in Nodes, NodeAnswers(n)
      PROVE  IndInv'
  <2> DEFINE held == {d \in live : Home(d) = n}
             docs == {d \in held : Matches(TextOf[d], request)}
             req == NodeRequest(request)
             reply == IF SearchFails(docs, req) THEN Failed ELSE Search(docs, req)
  <2>1. /\ request # Nothing /\ result = Nothing /\ replies[n] = Nothing
        /\ replies' = [replies EXCEPT ![n] = reply]
        /\ snapshot' = [snapshot EXCEPT ![n] = held]
        /\ UNCHANGED <<score, live, request, result>>
    BY <1>8 DEF NodeAnswers, Waiting
  <2>2. held \in SUBSET Docs /\ docs \in SUBSET Docs /\ \A d \in docs : Home(d) = n
    BY <1>1 DEF TypeOK
  <2>3. request \in Request /\ score \in [Docs -> Scores]
    BY <1>1, <1>2, <2>1 DEF TypeOK
  <2>4. Search(docs, req) \in Response /\ IsReply(Search(docs, req), score, request, docs)
    <3> HIDE DEF docs
    <3> QED
      BY <2>2, <2>3, SearchReplies
  <2>5. \/ reply = Failed
        \/ reply \in Response /\ IsReply(reply, score, request, docs)
    BY <2>4, Zenon
  <2> HIDE DEF reply
  <2>6. TypeOK'
    BY <1>1, <2>1, <2>2, <2>3, <2>5 DEF TypeOK
  <2>7. SnapshotsHome'
    <3>1. ASSUME NEW m \in Nodes, NEW d \in snapshot'[m]
          PROVE  Home(d) = m
      BY <1>1, <2>1, <3>1 DEF SnapshotsHome, TypeOK
    <3> QED
      BY <3>1 DEF SnapshotsHome
  <2>8. RepliesRight'
    <3>1. ASSUME NEW m \in Answering(replies')
          PROVE  IsReply(replies'[m], score', request', Held(snapshot', request', m))
      <4>1. m \in Nodes /\ replies'[m] \notin {Nothing, Failed}
        BY DEF Answering
      <4>2. CASE m = n
        <5>1. replies'[m] = reply /\ snapshot'[m] = held
          BY <1>1, <2>1, <4>2 DEF TypeOK
        <5>2. Held(snapshot', request', m) = docs
          BY <2>1, <5>1 DEF Held
        <5>3. IsReply(reply, score, request, docs)
          BY <2>5, <4>1, <5>1
        <5> HIDE DEF docs
        <5> QED
          BY <2>1, <5>1, <5>2, <5>3
      <4>3. CASE m # n
        <5>1. replies'[m] = replies[m] /\ snapshot'[m] = snapshot[m]
          BY <1>1, <2>1, <4>1, <4>3 DEF TypeOK
        <5>2. m \in Answering(replies)
          BY <4>1, <5>1 DEF Answering
        <5>3. Held(snapshot', request', m) = Held(snapshot, request, m)
          BY <2>1, <5>1 DEF Held
        <5> QED
          BY <1>1, <2>1, <5>1, <5>2, <5>3 DEF RepliesRight
      <4> QED
        BY <4>2, <4>3
    <3> QED
      BY <3>1 DEF RepliesRight
  <2>9. AnswerRight'
    BY <2>1 DEF AnswerRight
  <2> QED
    BY <2>6, <2>7, <2>8, <2>9 DEF IndInv
<1>9. ASSUME NEW n \in Nodes, NodeFails(n)
      PROVE  IndInv'
  <2>1. /\ request # Nothing /\ result = Nothing
        /\ replies' = [replies EXCEPT ![n] = Failed]
        /\ UNCHANGED <<score, live, request, result, snapshot>>
    BY <1>9 DEF NodeFails, Waiting
  <2>2. TypeOK'
    BY <1>1, <2>1 DEF TypeOK
  <2>3. SnapshotsHome'
    BY <1>1, <2>1 DEF SnapshotsHome
  <2>4. ASSUME NEW m \in Answering(replies')
        PROVE  m \in Answering(replies) /\ replies'[m] = replies[m]
    BY <1>1, <2>1 DEF Answering, TypeOK
  <2>5. RepliesRight'
    BY <1>1, <2>1, <2>4 DEF RepliesRight
  <2>6. AnswerRight'
    BY <2>1 DEF AnswerRight
  <2> QED
    BY <2>2, <2>3, <2>5, <2>6 DEF IndInv
<1>10. CASE Gather
  <2>1. /\ request # Nothing
        /\ result' = IF Consistent(request.consistency) THEN Gathered ELSE Failed
        /\ UNCHANGED <<score, live, request, replies, snapshot>>
    BY <1>10 DEF Gather
  <2>2. \/ result' = Failed
        \/ result' \in Response /\ IsAnswer(result', score, request, replies, snapshot)
    BY <1>2, <2>1, GatheredRight
  <2>3. TypeOK'
    BY <1>1, <2>1, <2>2 DEF TypeOK
  <2>4. AnswerRight'
    BY <2>1, <2>2 DEF AnswerRight
  <2> QED
    BY <1>5, <2>1, <2>3, <2>4 DEF IndInv
<1>11. CASE Reply
  <2>1. TypeOK'
    BY <1>1, <1>11 DEF Reply, TypeOK
  <2>2. SnapshotsHome'
    BY <1>11 DEF Reply, SnapshotsHome
  <2> QED
    BY <1>4, <1>11, <2>1, <2>2 DEF Reply, IndInv
<1>12. CASE DocumentsChange
  <2>1. TypeOK'
    BY <1>1, <1>12 DEF DocumentsChange, TypeOK
  <2>2. AnswerRight'
    BY <1>12 DEF DocumentsChange, AnswerRight
  <2> QED
    BY <1>5, <1>12, <2>1, <2>2 DEF DocumentsChange, IndInv
<1>13. CASE UNCHANGED vars
  <2>1. TypeOK'
    BY <1>1, <1>13 DEF vars, TypeOK
  <2>2. AnswerRight'
    BY <1>1, <1>13 DEF vars, AnswerRight
  <2> QED
    BY <1>5, <1>13, <2>1, <2>2 DEF vars, IndInv
<1> QED
  BY <1>6, <1>7, <1>8, <1>9, <1>10, <1>11, <1>12, <1>13 DEF Next

-----------------------------------------------------------------------------
(* What an answer is made of *)

LEMMA AnswerFacts ==
    ASSUME IndInv, Answered
    PROVE  /\ request \in Request /\ score \in [Docs -> Scores]
           /\ IsAnswer(result, score, request, replies, snapshot)
           /\ \A n \in Nodes : Found(n) = Held(snapshot, request, n)
           /\ Whole = HeldByAll(replies, snapshot, request)
           /\ Whole \in SUBSET Docs
<1>1. /\ request \in Request /\ score \in [Docs -> Scores] /\ Straight(request)
      /\ IsAnswer(result, score, request, replies, snapshot)
  BY DEF IndInv, TypeOK, AnswerRight, Answered
<1>2. ASSUME NEW n \in Nodes
      PROVE  Found(n) = Held(snapshot, request, n)
  <2>1. \A d \in snapshot[n] : TextOf[d] \in Text
    BY GatewayAssumption DEF IndInv, TypeOK
  <2>2. \A d \in snapshot[n] : Matches(TextOf[d], request) <=> Meant(TextOf[d], request)
    BY <1>1, <2>1, MatchesMeant
  <2> QED
    BY <2>2 DEF Found, Held
<1>3. Whole = UNION {Found(n) : n \in Answering(replies)}
  <2>1. Succeeded = Answering(replies)
    BY SucceededFinite
  <2>2. request.consistency = "All" => Answering(replies) = Nodes
    BY <1>1 DEF IsAnswer
  <2> QED
    BY <2>1, <2>2 DEF Whole
<1>4. Answering(replies) \subseteq Nodes
  BY DEF Answering
<1>5. Whole = HeldByAll(replies, snapshot, request)
  BY <1>2, <1>3, <1>4 DEF HeldByAll
<1>6. Whole \in SUBSET Docs
  BY <1>1, <1>4, <1>5, HeldFacts DEF HeldByAll
<1> QED
  BY <1>1, <1>2, <1>5, <1>6

\* A partition is on one node, so the best of a node's documents are the best of
\* all.
LEMMA WinnersOfNodes ==
    ASSUME IndInv, Answered
    PROVE  Winners = UNION {BestOf(score, Held(snapshot, request, n)) : n \in Answering(replies)}
<1> DEFINE ok == Answering(replies)
           H(n) == Held(snapshot, request, n)
<1>1. /\ request \in Request /\ ok \subseteq Nodes
      /\ Whole = UNION {H(n) : n \in ok} /\ Whole \in SUBSET Docs
  BY AnswerFacts DEF HeldByAll, Answering
<1>2. \A n \in ok : \A d \in H(n) : Home(d) = n /\ d \in Docs
  BY <1>1, HeldFacts
<1>3. \A d, e \in Docs : PartitionOf[d] = PartitionOf[e] => Home(d) = Home(e)
  BY DEF Home
<1>4. \A d, e \in Docs : Outranks(e, d) <=> <<e, d>> \in GlobalOrder(score)
  BY DEF Outranks, GlobalOrder
<1> HIDE DEF H, ok
<1>5. ASSUME NEW n \in ok, NEW d \in H(n), NEW e \in Whole, PartitionOf[e] = PartitionOf[d]
      PROVE  e \in H(n)
  <2>1. PICK m \in ok : e \in H(m)
    BY <1>1
  <2>2. d \in Docs /\ e \in Docs /\ Home(d) = n /\ Home(e) = m
    BY <1>2, <2>1
  <2>3. Home(e) = Home(d)
    BY <1>3, <1>5, <2>2
  <2> QED
    BY <2>1, <2>2, <2>3
<1>6. ASSUME NEW n \in ok, NEW d \in H(n)
      PROVE  d \in Winners <=> d \in BestOf(score, H(n))
  <2>1. d \in Whole /\ H(n) \subseteq Whole
    BY <1>1
  <2>2. d \in Winners <=>
            \A e \in Whole : PartitionOf[e] = PartitionOf[d] => <<e, d>> \notin GlobalOrder(score)
    BY <1>1, <1>4, <2>1 DEF Winners
  <2>3. d \in BestOf(score, H(n)) <=>
            \A e \in H(n) : PartitionOf[e] = PartitionOf[d] => <<e, d>> \notin GlobalOrder(score)
    BY DEF BestOf
  <2> QED
    BY <1>5, <2>1, <2>2, <2>3
<1>7. Winners \subseteq Whole /\ \A n \in ok : BestOf(score, H(n)) \subseteq H(n)
  BY DEF Winners, BestOf
<1>8. Winners = UNION {BestOf(score, H(n)) : n \in ok}
  BY <1>1, <1>6, <1>7
<1> QED
  BY <1>8 DEF H, ok

LEMMA PageIsExact == IndInv => PageExact
<1> SUFFICES ASSUME IndInv, Answered,
                    request.limit + request.offset < U32,
                    request.group_by_partition
                        => \A n \in Nodes : Cardinality(Found(n)) <= GroupCap
             PROVE  result.hits = Page(InOrder(Eligible, Outranks),
                                       request.offset, request.limit)
  BY DEF PageExact
<1> DEFINE ok == Answering(replies)
           r == NodeRequest(request)
           A == [n \in ok |-> Candidates(score, Held(snapshot, request, n), r)]
           h == [n \in ok |-> ToSet(replies[n].hits)]
           G == GlobalOrder(score)
<1>1. /\ request \in Request /\ score \in [Docs -> Scores] /\ ok \subseteq Nodes
      /\ IsAnswer(result, score, request, replies, snapshot)
      /\ \A n \in Nodes : Found(n) = Held(snapshot, request, n)
      /\ Whole = HeldByAll(replies, snapshot, request) /\ Whole \in SUBSET Docs
  BY AnswerFacts DEF Answering
<1>2. /\ request.offset \in Nat /\ request.limit \in Nat
      /\ r.offset = 0 /\ r.limit = request.limit + request.offset
      /\ r.group_by_partition = request.group_by_partition
      /\ request.group_by_partition \in BOOLEAN
  BY <1>1, RequestTypes
<1> HIDE DEF r
<1>3. ASSUME NEW n \in ok
      PROVE  /\ A[n] \in SUBSET Docs /\ \A d \in A[n] : Home(d) = n
             /\ h[n] = ToSet(Page(Sorted(A[n], NodeOrder(score)), 0,
                                  request.limit + request.offset))
  <2> DEFINE docs == Held(snapshot, request, n)
  <2>1. n \in Nodes /\ docs \in SUBSET Docs /\ \A d \in docs : Home(d) = n
    BY <1>1, HeldFacts
  <2>2. r.group_by_partition => Cardinality(docs) <= GroupCap
    BY <1>1, <1>2, <2>1
  <2>3. replies[n].hits = NodeHits(score, docs, r)
    BY DEF IndInv, RepliesRight, IsReply, r
  <2>4. A[n] = Candidates(score, docs, r) /\ h[n] = ToSet(replies[n].hits)
    OBVIOUS
  <2> HIDE DEF docs, A, h
  <2>5. NodeHits(score, docs, r)
            = Page(Sorted(Candidates(score, docs, r), NodeOrder(score)), r.offset, r.limit)
    BY <1>1, <2>1, <2>2, NodeHitsExact
  <2>6. Candidates(score, docs, r) \subseteq docs
    BY DEF Candidates, BestOf
  <2>7. A[n] \in SUBSET Docs /\ \A d \in A[n] : Home(d) = n
    BY <2>1, <2>4, <2>6
  <2> QED
    BY <1>2, <2>3, <2>4, <2>5, <2>7
<1>4. UNION {A[n] : n \in ok} = Eligible
  <2>1. CASE request.group_by_partition
    <3>1. \A n \in ok : A[n] = BestOf(score, Held(snapshot, request, n))
      BY <1>2, <2>1 DEF Candidates
    <3>2. Winners = UNION {BestOf(score, Held(snapshot, request, n)) : n \in ok}
      BY WinnersOfNodes
    <3> HIDE DEF A, ok
    <3> QED
      BY <2>1, <3>1, <3>2 DEF Eligible
  <2>2. CASE ~request.group_by_partition
    <3>1. \A n \in ok : A[n] = Held(snapshot, request, n)
      BY <1>2, <2>2 DEF Candidates
    <3>2. Whole = UNION {Held(snapshot, request, n) : n \in ok}
      BY <1>1 DEF HeldByAll
    <3> HIDE DEF A, ok
    <3> QED
      BY <2>2, <3>1, <3>2 DEF Eligible
  <2> QED
    BY <2>1, <2>2
<1>5. A \in [ok -> SUBSET Docs]
  BY <1>3
<1>6. result.hits = Page(Sorted(UNION {h[n] : n \in ok}, G), request.offset, request.limit)
  <2>1. UNION {h[n] : n \in ok} = UNION {ToSet(replies[n].hits) : n \in Answering(replies)}
    OBVIOUS
  <2>2. result.hits = Page(Sorted(UNION {ToSet(replies[n].hits) : n \in Answering(replies)}, G),
                           request.offset, request.limit)
    BY <1>1, Zenon DEF IsAnswer
  <2> QED
    BY <2>1, <2>2, Zenon
<1> HIDE DEF A, h, ok
<1>7. Page(Sorted(UNION {h[n] : n \in ok}, G), request.offset, request.limit)
          = Page(Sorted(UNION {A[n] : n \in ok}, G), request.offset, request.limit)
  BY <1>1, <1>2, <1>3, <1>5, MergedPage
<1>8. InOrder(Eligible, Outranks) = Sorted(Eligible, G)
  <2>1. Eligible \in SUBSET Docs
    BY <1>3, <1>4
  <2> QED
    BY <2>1, OutranksOrder
<1> QED
  BY <1>4, <1>6, <1>7, <1>8, Zenon

LEMMA HitsWin == IndInv => GroupedHitsWin
<1> SUFFICES ASSUME IndInv, Answered, request.group_by_partition
             PROVE  ToSet(result.hits) \subseteq Winners /\ IsInjective(result.hits)
  BY DEF GroupedHitsWin
<1> DEFINE ok == Answering(replies)
           U == UNION {ToSet(replies[n].hits) : n \in ok}
           G == GlobalOrder(score)
           t == Sorted(U, G)
           hits == Page(t, request.offset, request.limit)
<1>1. /\ request \in Request /\ score \in [Docs -> Scores]
      /\ IsAnswer(result, score, request, replies, snapshot)
  BY AnswerFacts
<1>2. request.offset \in Nat /\ request.limit \in Nat
  BY <1>1, RequestTypes
<1>3. result.hits = hits
  BY <1>1, Zenon DEF IsAnswer
<1>4. U \subseteq Winners
  <2>1. \A n \in ok : ToSet(replies[n].hits) \subseteq BestOf(score, Held(snapshot, request, n))
    BY <1>1, ReplyFacts
  <2> QED
    BY <2>1, WinnersOfNodes
<1>5. Winners \subseteq Docs
  BY AnswerFacts DEF Winners
<1> HIDE DEF U
<1>6. Orders(G, U) /\ IsFiniteSet(U)
  BY <1>1, <1>4, <1>5, GlobalOrders
<1> HIDE DEF G
<1>7. t \in Seq(U) /\ Ascends(t, G) /\ ToSet(t) = U
  BY <1>6, SortedFacts, SortedAscends
<1> HIDE DEF t
<1>8. hits \in Seq(U) /\ ToSet(hits) \subseteq U /\ Ascends(hits, G)
  BY <1>2, <1>7, PageFacts
<1> HIDE DEF hits
<1>9. IsInjective(hits)
  <2>1. ASSUME NEW i \in DOMAIN hits, NEW j \in DOMAIN hits, hits[i] = hits[j]
        PROVE  i = j
    <3>1. i \in 1 .. Len(hits) /\ j \in 1 .. Len(hits) /\ i \in Int /\ j \in Int
      BY <1>8
    <3>2. hits[i] \in U /\ <<hits[i], hits[i]>> \notin G
      BY <1>6, <1>8 DEF Orders
    <3>3. ~(i < j) /\ ~(j < i)
      BY <1>8, <2>1, <3>1, <3>2 DEF Ascends
    <3> QED
      BY <3>1, <3>3
  <2> QED
    BY <2>1 DEF IsInjective
<1> QED
  BY <1>3, <1>4, <1>8, <1>9

-----------------------------------------------------------------------------
(* Theorems *)

\* The invariant, which has the types in it: replies are those of the request, on
\* documents of the node's own, and an answer is that of the replies.
THEOREM Inductive == Spec => []IndInv
BY Initially, Step, PTL DEF Spec

\* The types of the variables; no reply outlives its request.
THEOREM TypeCorrect == Spec => []TypeOK
<1>1. IndInv => TypeOK
  BY DEF IndInv
<1> QED
  BY <1>1, Inductive, PTL

\* For every number of nodes and every routing of partitions to them, a page of
\* scatter_gather is that page of the ranking of all documents, grouped or not,
\* short of overflow and of the cap of grouped searches.
THEOREM PagesExact == Spec => []PageExact
BY Inductive, PageIsExact, PTL

\* A grouped hit is the best of its partition and its only one, whatever the cap,
\* the overflow of limit + offset and the failures of nodes.
THEOREM GroupsWin == Spec => []GroupedHitsWin
BY Inductive, HitsWin, PTL

\* total_hits is the number of documents that the query means on the nodes that
\* answered, although it is added up from replies of different moments.
THEOREM TotalsExact == Spec => []TotalExact
<1>1. IndInv => TotalExact
  BY AnswerFacts DEF TotalExact, IsAnswer
<1> QED
  BY <1>1, Inductive, PTL

\* A bucket of a facet is never below the number of documents that the query means
\* and that have the bucket's value, and is that number unless a facet field or a
\* value within a document is repeated, although the counts are added up per node,
\* per field and per array element.
THEOREM FacetsExact == Spec => []FacetsWhole
<1>1. IndInv => FacetsWhole
  <2> SUFFICES ASSUME IndInv, Answered, NEW bucket \in Buckets
               PROVE  /\ result.facets[bucket] >= Cardinality(Containing(bucket))
                      /\ ~Repeated(bucket) =>
                             result.facets[bucket] = Cardinality(Containing(bucket))
    BY DEF FacetsWhole
  <2>1. /\ request \in Request /\ Whole \in SUBSET Docs
        /\ Whole = HeldByAll(replies, snapshot, request)
        /\ IsAnswer(result, score, request, replies, snapshot)
    BY AnswerFacts
  <2>2. result.facets[bucket] = Cardinality(Increments(Whole, request, bucket))
    BY <2>1 DEF IsAnswer
  <2>3. LET having == {d \in Whole : /\ bucket[1] \in ToSet(request.facet_fields)
                                     /\ bucket[2] \in ToSet(FacetOf[d][bucket[1]])}
            incs   == Increments(Whole, request, bucket)
        IN  /\ Cardinality(incs) >= Cardinality(having)
            /\ /\ IsInjective(request.facet_fields)
               /\ \A d \in Whole : IsInjective(FacetOf[d][bucket[1]])
               => Cardinality(incs) = Cardinality(having)
    BY <2>1, IncrementsCount
  <2>4. /\ Cardinality(Increments(Whole, request, bucket)) >= Cardinality(Containing(bucket))
        /\ ~Repeated(bucket) => Cardinality(Increments(Whole, request, bucket))
                                    = Cardinality(Containing(bucket))
    BY <2>3, Zenon DEF Containing, Repeated
  <2> QED
    BY <2>2, <2>4, Zenon
<1> QED
  BY <1>1, Inductive, PTL
=============================================================================
