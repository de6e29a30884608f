-------------------------- MODULE DocumentsProofs ---------------------------
(***************************************************************************)
(* Theorems about Documents.                                               *)
(***************************************************************************)
EXTENDS Documents, Induction, FiniteSetTheorems, TLAPS

IsDelta(l, n) == l[n].operation # "PostImage"

\* The rows ScyllaDB can have.
Rows == {r \in [Columns -> UNION {Cql(c) \union {Null} : c \in Columns}] :
            \A c \in Columns : /\ r[c] \in Cql(c) \union {Null}
                               /\ c \in Collections => r[c] # Null}

Docs == [Columns -> Json \union {Missing}]

\* The cdc$times of the log ascend, and a PostImage follows the change it is of.
LogOK(l, now) ==
    /\ l \in Seq(LogRow)
    /\ now \in Nat
    /\ \A n \in 1 .. Len(l) : l[n].time <= now
    /\ \A m, n \in 1 .. Len(l) : m <= n => l[m].time <= l[n].time
    /\ \A n \in 1 .. Len(l) : ~IsDelta(l, n) =>
          /\ n - 1 \in 1 .. Len(l) /\ IsDelta(l, n - 1)
          /\ l[n - 1].operation # "RowDelete"
          /\ l[n - 1].time = l[n].time

\* The row after each entry of the log.
History(rows, l, r) ==
    /\ rows \in [0 .. Len(l) -> Rows]
    /\ rows[0] = NoRow
    /\ rows[Len(l)] = r
    /\ \A n \in 1 .. Len(l) :
          IF IsDelta(l, n) THEN rows[n] = Changed(rows[n - 1], l[n])
          ELSE /\ rows[n] = rows[n - 1]
               /\ l[n].changes = PostImage(rows[n], l[n].time).changes

\* No change up to m takes an unrepresentable element from column c.
Clean(l, m, c) ==
    \A n \in 1 .. m : IsDelta(l, n) =>
        l[n].changes[c].deleted_elements \intersect Unrepresentable = {}

\* The document has the row r, as far as deltas tell.
Follows(doc, c, r, clean) ==
    /\ r[c] # Null /\ clean => Shows(doc[c], c, r[c])
    /\ c \in Sets => doc[c] = Missing \/ (IsArray(doc[c]) /\ IsInjective(doc[c].array))

\* What a document is after log entry m, the last that was applied to it: if all
\* changes up to there were, it follows the row.
TracksTo(rows, l, stored, m) ==
    /\ m \in stored.from /\ \A n \in stored.from : n <= m
    /\ l[m].operation # "RowDelete"
    /\ stored.writetime = Writetime(l[m])
    /\ (\A n \in 1 .. m : IsDelta(l, n) => n \in stored.from) =>
           \A c \in Columns : Follows(stored.doc, c, rows[m], Clean(l, m, c))
    /\ ~IsDelta(l, m) =>
           \A c \in Columns : ~IsNull(c, rows[m][c]) => Shows(stored.doc[c], c, rows[m][c])

Tracks(rows, l, stored) ==
    /\ stored = Stored(stored.doc, stored.writetime, stored.from)
    /\ stored.doc \in Docs \union {NoDoc}
    /\ stored.writetime \in Nat
    /\ stored.from \subseteq 1 .. Len(l)
    /\ stored.doc = NoDoc =>
           \/ stored.from = {}
           \/ \E n \in 1 .. Len(l) : l[n].operation = "RowDelete" /\ stored.from = 1 .. n
    /\ stored.doc # NoDoc => \E m \in 1 .. Len(l) : TracksTo(rows, l, stored, m)

\* The log, the row and the two documents go together.
Consistent(l, now, r, stored, saved_doc) ==
    /\ LogOK(l, now)
    /\ r \in Rows
    /\ \E rows : /\ History(rows, l, r)
                 /\ Tracks(rows, l, stored)
                 /\ Tracks(rows, l, saved_doc)

IndInv ==
    /\ next \in 1 .. Len(log) + 1
    /\ saved \in 0 .. Len(log) + 1
    /\ Consistent(log, time, row, index, committed)

-----------------------------------------------------------------------------
(* Arrays *)

LEMMA AppendFacts ==
    ASSUME NEW V, NEW g \in Seq(V), NEW e \in V
    PROVE  /\ Append(g, e) \in Seq(V)
           /\ ToSet(Append(g, e)) = ToSet(g) \union {e}
           /\ IsInjective(g) /\ e \notin ToSet(g) => IsInjective(Append(g, e))
<1> DEFINE h == Append(g, e)
           n == Len(g)
<1>1. /\ h \in Seq(V) /\ n \in Nat /\ DOMAIN g = 1 .. n /\ DOMAIN h = 1 .. n + 1
      /\ \A i \in 1 .. n : h[i] = g[i]
      /\ h[n + 1] = e
      /\ \A i \in 1 .. n + 1 : i \in 1 .. n \/ i = n + 1
      /\ \A i \in 1 .. n : i \in 1 .. n + 1
      /\ n + 1 \in 1 .. n + 1
  OBVIOUS
<1> HIDE DEF h, n
<1>2. ToSet(h) = ToSet(g) \union {e}
  BY <1>1 DEF ToSet
<1>3. ASSUME IsInjective(g), e \notin ToSet(g)
      PROVE  IsInjective(h)
  <2>1. \A i \in 1 .. n : g[i] # e
    BY <1>1, <1>3 DEF ToSet
  <2> QED
    BY <1>1, <1>3, <2>1 DEF IsInjective
<1> QED
  BY <1>1, <1>2, <1>3 DEF h

LEMMA RetainFacts ==
    ASSUME NEW V, NEW t \in Seq(V), NEW removed
    PROVE  /\ Retain(t, removed) \in Seq(V)
           /\ ToSet(Retain(t, removed)) = ToSet(t) \ removed
           /\ IsInjective(t) => IsInjective(Retain(t, removed))
<1> DEFINE n == Len(t)
           A == Seq(V)
           Op(g, e) == IF e \in removed THEN g ELSE Append(g, e)
           F == [p \in A \X V |-> Op(p[1], p[2])]
           Equations(it) == [s \in SUBSET (1 .. n) |->
                               IF s = {} THEN << >>
                               ELSE Op(it[s \ {Max(s)}], t[Max(s)])]
           iter == CHOOSE it : it = Equations(it)
<1>1. n \in Nat /\ t \in [1 .. n -> V] /\ DOMAIN t = 1 .. n
  OBVIOUS
<1>2. F \in [A \X V -> A] /\ << >> \in A
  OBVIOUS
<1>3. PICK it \in [SUBSET (1 .. n) -> A] : Iterates(it, n, << >>, t, F)
  <2> HIDE DEF F, n, A
  <2> QED
    BY <1>1, <1>2, IteratesExist
<1>4. ASSUME NEW s \in SUBSET (1 .. n), s # {}
      PROVE  F[<<it[s \ {Max(s)}], t[Max(s)]>>] = Op(it[s \ {Max(s)}], t[Max(s)])
  <2>1. Max(s) \in 1 .. n
    BY <1>1, <1>4, MaxOfRange
  <2>2. t[Max(s)] \in V /\ it[s \ {Max(s)}] \in A
    BY <1>1, <1>3, <2>1
  <2> HIDE DEF A, Op
  <2> QED
    BY <2>2
<1>5. it = Equations(it)
  <2> HIDE DEF F, A, n, Op
  <2> QED
    BY <1>3, <1>4 DEF Iterates
<1>6. iter = Equations(iter)
  BY <1>5
<1>7. Retain(t, removed) = iter[1 .. n]
  BY <1>1 DEF Retain, FoldLeft, MapThenFoldSet
<1> HIDE DEF iter
<1>8. iter[{}] = << >>
  BY <1>6
<1>9. ASSUME NEW k \in 1 .. n
      PROVE  iter[1 .. k] = Op(iter[1 .. k - 1], t[k])
  <2>1. /\ 1 .. k # {} /\ 1 .. k \in SUBSET (1 .. n)
        /\ Max(1 .. k) = k /\ (1 .. k) \ {k} = 1 .. k - 1
    BY <1>1, MaxUpTo
  <2>2. iter[1 .. k] = Op(iter[(1 .. k) \ {Max(1 .. k)}], t[Max(1 .. k)])
    BY <1>6, <2>1
  <2> HIDE DEF Op
  <2> QED
    BY <2>1, <2>2, Zenon
<1> DEFINE Kept(k) == {t[i] : i \in 1 .. k} \ removed
           Good(k) == /\ iter[1 .. k] \in A
                      /\ ToSet(iter[1 .. k]) = Kept(k)
                      /\ IsInjective(t) => IsInjective(iter[1 .. k])
           S == {k \in 0 .. n : Good(k)}
<1>10. 0 \in S
  <2>1. 1 .. 0 = {} /\ 0 \in 0 .. n
    BY <1>1
  <2>2. Kept(0) = {}
    BY <2>1
  <2>3. << >> \in Seq(V) /\ ToSet(<< >>) = {} /\ IsInjective(<< >>)
    BY DEF ToSet, IsInjective
  <2> HIDE DEF Kept
  <2>4. iter[1 .. 0] = << >>
    BY <1>8, <2>1
  <2>5. Good(0)
    BY <2>2, <2>3, <2>4
  <2> HIDE DEF Good
  <2> QED
    BY <2>1, <2>5
<1>11. ASSUME NEW k \in 1 .. n, k - 1 \in S
       PROVE  k \in S
  <2> DEFINE g == iter[1 .. k - 1]
             e == t[k]
  <2>1. Good(k - 1)
    BY <1>11
  <2>2. /\ e \in V /\ g \in Seq(V) /\ ToSet(g) = Kept(k - 1)
        /\ IsInjective(t) => IsInjective(g)
    BY <1>1, <2>1
  <2>3. 1 .. k = (1 .. k - 1) \union {k}
    BY <1>1
  <2>4. Kept(k) = Kept(k - 1) \union ({e} \ removed)
    BY <2>3
  <2>5. ASSUME IsInjective(t)
        PROVE  e \notin Kept(k - 1)
    <3>1. \A i \in 1 .. k - 1 : i \in 1 .. n /\ i # k
      BY <1>1
    <3>2. \A i \in 1 .. k - 1 : t[i] # t[k]
      BY <1>1, <2>5, <3>1 DEF IsInjective
    <3> QED
      BY <3>2
  <2>6. iter[1 .. k] = Op(g, e)
    BY <1>9
  <2>7. /\ Append(g, e) \in Seq(V)
        /\ ToSet(Append(g, e)) = ToSet(g) \union {e}
        /\ IsInjective(g) /\ e \notin ToSet(g) => IsInjective(Append(g, e))
    <3> HIDE DEF g, e
    <3> QED
      BY <2>2, AppendFacts
  <2>8. Good(k)
    <3> HIDE DEF Kept, g, e
    <3>1. CASE e \in removed
      BY <2>2, <2>4, <2>6, <3>1
    <3>2. CASE e \notin removed
      BY <2>2, <2>4, <2>5, <2>6, <2>7, <3>2
    <3> QED
      BY <3>1, <3>2
  <2>9. k \in 0 .. n
    BY <1>1
  <2> HIDE DEF Good
  <2> QED
    BY <2>8, <2>9
<1>12. Good(n)
  <2>1. n \in 0 .. n
    BY <1>1
  <2>2. 0 .. n \subseteq S
    <3> HIDE DEF S
    <3> QED
      BY <1>1, <1>10, <1>11, UpTo
  <2> HIDE DEF Good
  <2> QED
    BY <2>1, <2>2
<1>13. Kept(n) = ToSet(t) \ removed
  BY <1>1 DEF ToSet
<1> HIDE DEF Kept
<1> QED
  BY <1>7, <1>12, <1>13

LEMMA PushNewFacts ==
    ASSUME NEW V, NEW old \in Seq(V), NEW t \in Seq(V)
    PROVE  /\ PushNew(old, t) \in Seq(V)
           /\ ToSet(PushNew(old, t)) = ToSet(old) \union ToSet(t)
           /\ IsInjective(old) => IsInjective(PushNew(old, t))
<1> DEFINE n == Len(t)
           A == Seq(V)
           F == [p \in A \X V |-> PushIfNew(p[1], p[2])]
           Equations(it) == [s \in SUBSET (1 .. n) |->
                               IF s = {} THEN old
                               ELSE PushIfNew(it[s \ {Max(s)}], t[Max(s)])]
           iter == CHOOSE it : it = Equations(it)
<1>1. n \in Nat /\ t \in [1 .. n -> V] /\ DOMAIN t = 1 .. n
  OBVIOUS
<1>2. F \in [A \X V -> A] /\ old \in A
  BY DEF PushIfNew
<1>3. PICK it \in [SUBSET (1 .. n) -> A] : Iterates(it, n, old, t, F)
  <2> HIDE DEF F, n, A
  <2> QED
    BY <1>1, <1>2, IteratesExist
<1>4. ASSUME NEW s \in SUBSET (1 .. n), s # {}
      PROVE  F[<<it[s \ {Max(s)}], t[Max(s)]>>] = PushIfNew(it[s \ {Max(s)}], t[Max(s)])
  <2>1. Max(s) \in 1 .. n
    BY <1>1, <1>4, MaxOfRange
  <2>2. t[Max(s)] \in V /\ it[s \ {Max(s)}] \in A
    BY <1>1, <1>3, <2>1
  <2> HIDE DEF A
  <2> QED
    BY <2>2
<1>5. it = Equations(it)
  <2> HIDE DEF F, A, n
  <2> QED
    BY <1>3, <1>4 DEF Iterates
<1>6. iter = Equations(iter)
  BY <1>5
<1>7. PushNew(old, t) = iter[1 .. n]
  BY <1>1 DEF PushNew, FoldLeft, MapThenFoldSet
<1> HIDE DEF iter
<1>8. iter[{}] = old
  BY <1>6
<1>9. ASSUME NEW k \in 1 .. n
      PROVE  iter[1 .. k] = PushIfNew(iter[1 .. k - 1], t[k])
  <2>1. /\ 1 .. k # {} /\ 1 .. k \in SUBSET (1 .. n)
        /\ Max(1 .. k) = k /\ (1 .. k) \ {k} = 1 .. k - 1
    BY <1>1, MaxUpTo
  <2>2. iter[1 .. k] = PushIfNew(iter[(1 .. k) \ {Max(1 .. k)}], t[Max(1 .. k)])
    BY <1>6, <2>1
  <2> QED
    BY <2>1, <2>2, Zenon
<1> DEFINE Kept(k) == ToSet(old) \union {t[i] : i \in 1 .. k}
           Good(k) == /\ iter[1 .. k] \in A
                      /\ ToSet(iter[1 .. k]) = Kept(k)
                      /\ IsInjective(old) => IsInjective(iter[1 .. k])
           S == {k \in 0 .. n : Good(k)}
<1>10. 0 \in S
  <2>1. 1 .. 0 = {} /\ 0 \in 0 .. n
    BY <1>1
  <2>2. Kept(0) = ToSet(old)
    BY <2>1
  <2> HIDE DEF Kept
  <2>3. iter[1 .. 0] = old
    BY <1>8, <2>1
  <2>4. Good(0)
    BY <2>2, <2>3
  <2> HIDE DEF Good
  <2> QED
    BY <2>1, <2>4
<1>11. ASSUME NEW k \in 1 .. n, k - 1 \in S
       PROVE  k \in S
  <2> DEFINE g == iter[1 .. k - 1]
             e == t[k]
  <2>1. Good(k - 1)
    BY <1>11
  <2>2. /\ e \in V /\ g \in Seq(V) /\ ToSet(g) = Kept(k - 1)
        /\ IsInjective(old) => IsInjective(g)
    BY <1>1, <2>1
  <2>3. 1 .. k = (1 .. k - 1) \union {k}
    BY <1>1
  <2>4. Kept(k) = Kept(k - 1) \union {e}
    BY <2>3
  <2>5. Contains(g, e) <=> e \in ToSet(g)
    <3> HIDE DEF g, e
    <3>1. DOMAIN g = 1 .. Len(g)
      BY <2>2
    <3> QED
      BY <3>1 DEF Contains, ToSet
  <2>6. iter[1 .. k] = PushIfNew(g, e)
    BY <1>9
  <2>7. /\ Append(g, e) \in Seq(V)
        /\ ToSet(Append(g, e)) = ToSet(g) \union {e}
        /\ IsInjective(g) /\ e \notin ToSet(g) => IsInjective(Append(g, e))
    <3> HIDE DEF g, e
    <3> QED
      BY <2>2, AppendFacts
  <2>8. Good(k)
    <3> HIDE DEF Kept, g, e
    <3>1. CASE e \in ToSet(g)
      BY <2>2, <2>4, <2>5, <2>6, <3>1 DEF PushIfNew
    <3>2. CASE e \notin ToSet(g)
      BY <2>2, <2>4, <2>5, <2>6, <2>7, <3>2 DEF PushIfNew
    <3> QED
      BY <3>1, <3>2
  <2>9. k \in 0 .. n
    BY <1>1
  <2> HIDE DEF Good
  <2> QED
    BY <2>8, <2>9
<1>12. Good(n)
  <2>1. n \in 0 .. n
    BY <1>1
  <2>2. 0 .. n \subseteq S
    <3> HIDE DEF S
    <3> QED
      BY <1>1, <1>10, <1>11, UpTo
  <2> HIDE DEF Good
  <2> QED
    BY <2>1, <2>2
<1>13. Kept(n) = ToSet(old) \union ToSet(t)
  BY <1>1 DEF ToSet
<1> HIDE DEF Kept
<1> QED
  BY <1>7, <1>12, <1>13

LEMMA SetToSeqFacts ==
    ASSUME NEW S, IsFiniteSet(S)
    PROVE  SetToSeq(S) \in Seq(S) /\ ToSet(SetToSeq(S)) = S
<1> DEFINE n == Cardinality(S)
           f == SetToSeq(S)
<1>1. n \in Nat
  BY FS_CardinalityType
<1>2. \E g \in [1 .. n -> S] : IsInjective(g)
  <2>1. PICK g : g \in Bijection(1 .. n, S)
    BY FS_CardinalityType DEF ExistsBijection
  <2> QED
    BY <2>1 DEF Bijection, Injection, IsInjective
<1>3. f \in [1 .. n -> S] /\ IsInjective(f)
  BY <1>2 DEF SetToSeq
<1> HIDE DEF f, n
<1>4. IsFiniteSet(1 .. n) /\ Cardinality(1 .. n) = n
  BY <1>1, FS_Interval
<1>5. f \in Injection(1 .. n, S)
  BY <1>3 DEF Injection
<1>6. f \in Surjection(1 .. n, S)
  BY <1>4, <1>5, FS_Injection DEF n
<1>7. \A e \in S : \E i \in 1 .. n : f[i] = e
  BY <1>6 DEF Surjection
<1>8. f \in Seq(S)
  BY <1>1, <1>3
<1>9. ToSet(f) = S
  BY <1>3, <1>7 DEF ToSet
<1> QED
  BY <1>8, <1>9 DEF f

-----------------------------------------------------------------------------
(* JSON values *)

JsonAtoms == Atoms \union {JsonNull}

Image(value) == {AtomToJson(a) : a \in value}

LEMMA Kinds ==
    /\ \A json \in Arrays : json \notin Objects
    /\ Missing \notin Json /\ Missing \notin Arrays /\ Missing \notin Objects
    /\ Null \notin Arrays /\ Null \notin Atoms /\ Null \notin Json
    /\ \A a \in Atoms : AtomToJson(a) \in JsonAtoms
    /\ \A json \in JsonAtoms : json \notin Arrays /\ json \notin Objects /\ json \in Json
<1>1. \A json \in Arrays : json \notin Objects
  BY DEF Arrays, Objects
<1>2. Missing \notin Json /\ Null \notin Json
  BY AbsenceAssumption
<1>3. Arrays \subseteq Json /\ Objects \subseteq Json /\ Atoms \subseteq Json
  BY Zenon DEF Json
<1>4. \A json \in JsonAtoms : json \notin Arrays /\ json \notin Objects /\ json \in Json
  <2>1. JsonAtoms \subseteq Json
    BY Zenon DEF Json, JsonAtoms
  <2> QED
    BY <2>1, AbsenceAssumption DEF JsonAtoms
<1>5. \A a \in Atoms : AtomToJson(a) \in JsonAtoms
  BY DEF AtomToJson, JsonAtoms
<1> QED
  BY <1>1, <1>2, <1>3, <1>4, <1>5

\* A field that was Missing or an array has these elements.
LEMMA ArrayFacts ==
    ASSUME NEW elements \in Seq(JsonAtoms)
    PROVE  /\ [array |-> elements] \in Arrays
           /\ [array |-> elements].array = elements
           /\ Elements([array |-> elements]) = ToSet(elements)
<1>1. [array |-> elements] \in Arrays /\ [array |-> elements].array = elements
  BY DEF Arrays, JsonAtoms
<1> QED
  BY <1>1 DEF Elements, IsArray

LEMMA ObjectFacts ==
    ASSUME NEW keys \in SUBSET Atoms
    PROVE  /\ [object |-> keys] \in Objects
           /\ [object |-> keys].object = keys
           /\ Elements([object |-> keys]) = keys
<1>1. [object |-> keys] \in Objects /\ [object |-> keys].object = keys
  BY DEF Objects
<1>2. [object |-> keys] \notin Arrays
  BY <1>1, Kinds
<1> QED
  BY <1>1, <1>2 DEF Elements, IsArray, IsObject

\* cql_to_json keeps the elements of a value.
LEMMA Converted ==
    ASSUME NEW c \in Columns, NEW value \in Cql(c)
    PROVE  /\ CqlToJson(c, value) \in Json
           /\ Shows(CqlToJson(c, value), c, value)
           /\ c \in Scalars => CqlToJson(c, value) \in JsonAtoms
           /\ c \in Sets => CqlToJson(c, value) \in Arrays
           /\ c \in FrozenMaps => CqlToJson(c, value) \in Objects
<1> DEFINE json == CqlToJson(c, value)
<1>1. CASE c \in Scalars
  <2>1. value \in Atoms /\ c \notin Sets /\ c \notin FrozenMaps
    BY <1>1, DocumentsAssumption DEF Cql, Collections
  <2>2. json = AtomToJson(value)
    BY <1>1 DEF CqlToJson
  <2>3. json \in JsonAtoms /\ json \in Json
    BY <2>1, <2>2, Kinds
  <2> QED
    BY <2>1, <2>2, <2>3 DEF Shows
<1>2. CASE c \in Sets
  <2> DEFINE elements == SetToSeq(value)
             array == [i \in DOMAIN elements |-> AtomToJson(elements[i])]
  <2>1. c \notin Scalars /\ c \notin FrozenMaps /\ value \in SUBSET Atoms /\ IsFiniteSet(value)
    BY <1>2, DocumentsAssumption DEF Cql, Collections
  <2>2. elements \in Seq(value) /\ ToSet(elements) = value
    BY <2>1, SetToSeqFacts
  <2>3. json = [array |-> array]
    BY <1>2, <2>1 DEF CqlToJson
  <2> HIDE DEF elements
  <2>4. array \in Seq(JsonAtoms)
    <3>1. \A i \in DOMAIN elements : elements[i] \in Atoms
      BY <2>1, <2>2
    <3>2. \A i \in DOMAIN elements : AtomToJson(elements[i]) \in JsonAtoms
      BY <3>1, Kinds
    <3> QED
      BY <2>2, <3>2
  <2>5. ToSet(array) = Image(value)
    BY <2>2 DEF ToSet, Image
  <2> HIDE DEF array
  <2>6. json \in Arrays /\ Elements(json) = Image(value)
    BY <2>3, <2>4, <2>5, ArrayFacts
  <2>7. json \in Json
    BY <2>6, Zenon DEF Json
  <2> QED
    BY <2>1, <2>6, <2>7 DEF Shows, Image
<1>3. CASE c \in FrozenMaps \union Maps
  <2>1. c \notin Scalars /\ c \notin Sets /\ value \in SUBSET Atoms
    BY <1>3, DocumentsAssumption DEF Cql, Collections
  <2>2. json = [object |-> value]
    BY <2>1 DEF CqlToJson
  <2>3. json \in Objects /\ Elements(json) = value
    BY <2>1, <2>2, ObjectFacts
  <2>4. json \in Json
    BY <2>3, Zenon DEF Json
  <2> QED
    BY <2>1, <2>3, <2>4 DEF Shows
<1> QED
  BY <1>1, <1>2, <1>3 DEF Columns, Collections

LEMMA Merged ==
    ASSUME NEW old \in Json \union {Missing}, NEW patch \in Json \union {Missing}
    PROVE  /\ MergeField(old, patch) \in Json \union {Missing}
           /\ patch = Missing => MergeField(old, patch) = old
           /\ patch # Missing /\ patch \notin Objects => MergeField(old, patch) = patch
           /\ patch \in Objects => Elements(patch) \subseteq Elements(MergeField(old, patch))
<1> DEFINE new == MergeField(old, patch)
<1>1. CASE patch = Missing
  BY <1>1, Kinds DEF MergeField
<1>2. CASE patch # Missing /\ ~(old \in Objects /\ patch \in Objects)
  <2>1. new = patch
    BY <1>2 DEF MergeField, IsObject
  <2> QED
    BY <1>2, <2>1
<1>3. CASE patch # Missing /\ old \in Objects /\ patch \in Objects
  <2>1. new = [object |-> old.object \union patch.object]
    BY <1>3 DEF MergeField, IsObject
  <2>2. old.object \in SUBSET Atoms /\ patch.object \in SUBSET Atoms
    BY <1>3 DEF Objects
  <2> DEFINE keys == old.object \union patch.object
  <2>3. keys \in SUBSET Atoms /\ patch.object \subseteq keys
    BY <2>2
  <2> HIDE DEF keys
  <2>4. new \in Objects /\ Elements(new) = keys
    BY <2>1, <2>3, ObjectFacts DEF keys
  <2>5. Elements(patch) = patch.object
    BY <1>3, Kinds DEF Elements, IsArray, IsObject
  <2>6. new \in Json
    BY <2>4, Zenon DEF Json
  <2> QED
    BY <1>3, <2>3, <2>4, <2>5, <2>6
<1> QED
  BY <1>1, <1>2, <1>3

-----------------------------------------------------------------------------
(* Deltas *)

\* The delta of a change to a collection.
DeltaOf(c, change) ==
    [tombstoned |-> change.deleted,
     added      |-> IF change.value = Null THEN Null ELSE CqlToJson(c, change.value),
     removed    |-> Image(change.deleted_elements)]

\* ApplyDelta leaves an array without duplicates, whose elements are the old ones
\* that were neither cleared nor removed, and the added ones.
LEMMA DeltaApplied ==
    ASSUME NEW old \in Json \union {Missing},
           NEW tombstoned \in BOOLEAN, NEW added \in Json \union {Null}, NEW removed
    PROVE  LET delta  == [tombstoned |-> tombstoned, added |-> added, removed |-> removed]
               new    == ApplyDelta(old, delta)
               before == IF old \in Arrays /\ ~tombstoned THEN Elements(old) ELSE {}
               more   == IF added \in Arrays THEN Elements(added) ELSE {}
           IN  /\ new \in Json \union {Missing}
               /\ delta # NoDelta =>
                      /\ new \in Arrays
                      /\ Elements(new) = (before \ removed) \union more
                      /\ (old \in Arrays => IsInjective(old.array)) => IsInjective(new.array)
               /\ delta = NoDelta => new = old
<1> DEFINE delta    == [tombstoned |-> tombstoned, added |-> added, removed |-> removed]
           new      == ApplyDelta(old, delta)
           before   == IF old \in Arrays /\ ~tombstoned THEN Elements(old) ELSE {}
           more     == IF added \in Arrays THEN Elements(added) ELSE {}
           elements == IF old \in Arrays /\ ~tombstoned THEN old.array ELSE << >>
           kept     == Retain(elements, removed)
           all      == IF added \in Arrays THEN PushNew(kept, added.array) ELSE kept
<1>1. CASE delta = NoDelta
  BY <1>1 DEF ApplyDelta
<1>2. CASE delta # NoDelta
  <2>1. new = [array |-> all]
    BY <1>2 DEF ApplyDelta, IsArray
  <2>2. \A json \in Arrays : json.array \in Seq(JsonAtoms) /\ Elements(json) = ToSet(json.array)
    BY DEF Arrays, JsonAtoms, Elements, IsArray
  <2>3. /\ elements \in Seq(JsonAtoms) /\ ToSet(elements) = before
        /\ (old \in Arrays => IsInjective(old.array)) => IsInjective(elements)
    <3>1. << >> \in Seq(JsonAtoms) /\ ToSet(<< >>) = {} /\ IsInjective(<< >>)
      BY DEF ToSet, IsInjective
    <3> QED
      BY <2>2, <3>1
  <2> HIDE DEF elements, before
  <2>4. /\ kept \in Seq(JsonAtoms) /\ ToSet(kept) = before \ removed
        /\ IsInjective(elements) => IsInjective(kept)
    BY <2>3, RetainFacts
  <2> HIDE DEF kept
  <2>5. /\ all \in Seq(JsonAtoms) /\ ToSet(all) = (before \ removed) \union more
        /\ IsInjective(kept) => IsInjective(all)
    <3>1. CASE added \in Arrays
      <4>1. /\ PushNew(kept, added.array) \in Seq(JsonAtoms)
            /\ ToSet(PushNew(kept, added.array)) = ToSet(kept) \union ToSet(added.array)
            /\ IsInjective(kept) => IsInjective(PushNew(kept, added.array))
        BY <2>2, <2>4, <3>1, PushNewFacts
      <4> QED
        BY <2>2, <2>4, <3>1, <4>1
    <3>2. CASE added \notin Arrays
      BY <2>4, <3>2
    <3> QED
      BY <3>1, <3>2
  <2> HIDE DEF all, more
  <2>6. new \in Arrays /\ new.array = all /\ Elements(new) = ToSet(all)
    BY <2>1, <2>5, ArrayFacts
  <2> HIDE DEF new
  <2>7. new \in Json
    BY <2>6, Zenon DEF Json
  <2> HIDE DEF delta
  <2>8. (old \in Arrays => IsInjective(old.array)) => IsInjective(new.array)
    BY <2>3, <2>4, <2>5, <2>6
  <2>9. Elements(new) = (before \ removed) \union more
    BY <2>5, <2>6
  <2> QED
    BY <1>2, <2>6, <2>7, <2>8, <2>9 DEF new, delta, before, more
<1> QED
  BY <1>1, <1>2

\* With no unrepresentable element among the removed, what removal does to the
\* elements it does to their images.
LEMMA ImageWithout ==
    ASSUME NEW value \in SUBSET Atoms, NEW removed \in SUBSET Atoms,
           removed \intersect Unrepresentable = {}
    PROVE  Image(value \ removed) = Image(value) \ Image(removed)
<1>1. ASSUME NEW a \in value \ removed, NEW b \in removed
      PROVE  AtomToJson(a) # AtomToJson(b)
  <2>1. AtomToJson(b) = b /\ b \in Atoms
    BY DEF AtomToJson
  <2>2. AtomToJson(a) = JsonNull \/ AtomToJson(a) = a
    BY DEF AtomToJson
  <2> QED
    BY <2>1, <2>2, AbsenceAssumption
<1> QED
  BY <1>1 DEF Image

\* The document's set follows the row's.
LEMMA SetFollows ==
    ASSUME NEW c \in Sets, NEW old \in Json \union {Missing}, NEW change \in Change(c),
           old = Missing \/ (old \in Arrays /\ IsInjective(old.array))
    PROVE  LET new == ApplyDelta(old, DeltaOf(c, change))
           IN  /\ new = Missing \/ (new \in Arrays /\ IsInjective(new.array))
               /\ \A value \in Cql(c) :
                      /\ Elements(old) = Image(value)
                      /\ change.deleted_elements \intersect Unrepresentable = {}
                      => Elements(new) = Image(ChangedColumn(c, value, change))
<1> DEFINE added   == IF change.value = Null THEN Null ELSE CqlToJson(c, change.value)
           removed == Image(change.deleted_elements)
           delta   == [tombstoned |-> change.deleted, added |-> added, removed |-> removed]
           new     == ApplyDelta(old, delta)
           before  == IF old \in Arrays /\ ~change.deleted THEN Elements(old) ELSE {}
           more    == IF added \in Arrays THEN Elements(added) ELSE {}
<1>1. DeltaOf(c, change) = delta
  BY DEF DeltaOf
<1>2. /\ change.deleted \in BOOLEAN /\ change.value \in Cql(c) \union {Null}
      /\ change.deleted_elements \in SUBSET Atoms
  BY DEF Change
<1>3. c \in Columns /\ c \in Collections /\ c \notin Scalars
  BY DocumentsAssumption DEF Columns, Collections
<1>4. /\ added \in Json \union {Null}
      /\ more = Image(IF change.value = Null THEN {} ELSE change.value)
  <2>1. CASE change.value = Null
    BY <2>1, Kinds DEF Image
  <2>2. CASE change.value # Null
    <3>1. added = CqlToJson(c, change.value)
      BY <2>2
    <3>2. added \in Json /\ added \in Arrays /\ Shows(added, c, change.value)
      BY <1>2, <1>3, <2>2, <3>1, Converted
    <3> HIDE DEF added
    <3> QED
      BY <2>2, <3>2 DEF Shows, Image
  <2> QED
    BY <2>1, <2>2
<1> HIDE DEF added, removed
<1>5. /\ new \in Json \union {Missing}
      /\ delta # NoDelta =>
             /\ new \in Arrays
             /\ Elements(new) = (before \ removed) \union more
             /\ (old \in Arrays => IsInjective(old.array)) => IsInjective(new.array)
      /\ delta = NoDelta => new = old
  BY <1>2, <1>4, DeltaApplied
<1>6. new = Missing \/ (new \in Arrays /\ IsInjective(new.array))
  <2> HIDE DEF new, delta
  <2> QED
    BY <1>5, Kinds
<1>7. ASSUME NEW value \in Cql(c), Elements(old) = Image(value),
             change.deleted_elements \intersect Unrepresentable = {}
      PROVE  Elements(new) = Image(ChangedColumn(c, value, change))
  <2> DEFINE left == IF change.deleted THEN {} ELSE value
             plus == IF change.value = Null THEN {} ELSE change.value
  <2>1. left \in SUBSET Atoms /\ plus \in SUBSET Atoms
    BY <1>2, <1>3 DEF Cql
  <2>2. ChangedColumn(c, value, change) = (left \ change.deleted_elements) \union plus
    BY <1>3 DEF ChangedColumn
  <2>3. before = Image(left)
    <3>1. old \notin Arrays => Elements(old) = {}
      BY Kinds DEF Elements, IsArray, IsObject
    <3>2. Image({}) = {}
      BY DEF Image
    <3> QED
      BY <1>7, <3>1, <3>2
  <2>4. CASE delta = NoDelta
    <3>1. ~change.deleted /\ added = Null /\ removed = {}
      BY <1>2, <2>4 DEF NoDelta
    <3>2. change.deleted_elements = {}
      BY <3>1 DEF removed, Image
    <3>3. change.value = Null
      <4> SUFFICES ASSUME change.value # Null PROVE FALSE
        OBVIOUS
      <4>1. CqlToJson(c, change.value) \in Json
        BY <1>2, <1>3, Converted
      <4> QED
        BY <3>1, <4>1, Kinds DEF added
    <3>4. ChangedColumn(c, value, change) = value
      BY <2>2, <3>1, <3>2, <3>3
    <3> HIDE DEF new, delta
    <3> QED
      BY <1>5, <1>7, <2>4, <3>4
  <2>5. CASE delta # NoDelta
    <3>1. Elements(new) = (before \ removed) \union more
      <4> HIDE DEF new, delta, before, more
      <4> QED
        BY <1>5, <2>5
    <3>2. more = Image(plus)
      BY <1>4
    <3>3. Image(left) \ removed = Image(left \ change.deleted_elements)
      <4> HIDE DEF left
      <4> QED
        BY <1>2, <1>7, <2>1, ImageWithout DEF removed
    <3>4. \A v, w \in SUBSET Atoms : Image(v \union w) = Image(v) \union Image(w)
      BY DEF Image
    <3> HIDE DEF new, delta, before, more, left, plus
    <3>5. left \ change.deleted_elements \in SUBSET Atoms
      BY <2>1
    <3> QED
      BY <2>1, <2>2, <2>3, <3>1, <3>2, <3>3, <3>4, <3>5
  <2> QED
    BY <2>4, <2>5
<1> QED
  BY <1>1, <1>6, <1>7

-----------------------------------------------------------------------------
(* Rows and documents *)

LEMMA NoRowIsRow == NoRow \in Rows
<1>1. ASSUME NEW c \in Columns
      PROVE  NoRow[c] \in Cql(c) \union {Null} /\ (c \in Collections => NoRow[c] # Null)
  <2>1. {} \in SUBSET Atoms /\ IsFiniteSet({}) /\ {} # Null
    BY FS_EmptySet, AbsenceAssumption
  <2>2. c \in Collections => c \notin Scalars
    BY DocumentsAssumption
  <2> QED
    BY <2>1, <2>2 DEF NoRow, Cql
<1> QED
  BY <1>1 DEF Rows, NoRow

LEMMA ChangedIsRow ==
    ASSUME NEW r \in Rows, NEW s, s.changes \in Changes
    PROVE  Changed(r, s) \in Rows
<1>1. CASE s.operation = "RowDelete"
  BY <1>1, NoRowIsRow DEF Changed
<1>2. CASE s.operation # "RowDelete"
  <2>1. ASSUME NEW c \in Columns
        PROVE  /\ ChangedColumn(c, r[c], s.changes[c]) \in Cql(c) \union {Null}
               /\ c \in Collections => ChangedColumn(c, r[c], s.changes[c]) # Null
    <3> DEFINE change == s.changes[c]
    <3>1. /\ change.deleted \in BOOLEAN /\ change.value \in Cql(c) \union {Null}
          /\ change.deleted_elements \in SUBSET Atoms
      BY DEF Changes, Change
    <3>2. r[c] \in Cql(c) \union {Null} /\ (c \in Collections => r[c] # Null)
      BY DEF Rows
    <3> HIDE DEF change
    <3>3. CASE c \in Collections
      <4> DEFINE left == IF change.deleted THEN {} ELSE r[c]
                 plus == IF change.value = Null THEN {} ELSE change.value
                 kept == left \ change.deleted_elements
      <4>1. c \notin Scalars
        BY <3>3, DocumentsAssumption
      <4>2. left \in SUBSET Atoms /\ IsFiniteSet(left) /\ plus \in SUBSET Atoms /\ IsFiniteSet(plus)
        BY <3>1, <3>2, <3>3, <4>1, FS_EmptySet DEF Cql
      <4>3. ChangedColumn(c, r[c], change) = kept \union plus
        BY <3>3 DEF ChangedColumn
      <4> HIDE DEF left, plus
      <4>4. kept \in SUBSET Atoms /\ IsFiniteSet(kept)
        BY <4>2, FS_Subset
      <4> HIDE DEF kept
      <4>5. kept \union plus \in SUBSET Atoms /\ IsFiniteSet(kept \union plus)
        BY <4>2, <4>4, FS_Union
      <4> QED
        BY <4>1, <4>3, <4>5, AbsenceAssumption DEF Cql, change
    <3>4. CASE c \notin Collections
      BY <3>1, <3>2, <3>4 DEF ChangedColumn, change
    <3> QED
      BY <3>3, <3>4
  <2> QED
    BY <1>2, <2>1 DEF Changed, Rows
<1> QED
  BY <1>1, <1>2

LEMMA NothingFollowsNoRow ==
    EmptyObject \in Docs /\ \A c \in Columns : Follows(EmptyObject, c, NoRow, TRUE)
<1>1. EmptyObject \in Docs
  BY DEF EmptyObject, Docs
<1>2. ASSUME NEW c \in Columns
      PROVE  Follows(EmptyObject, c, NoRow, TRUE)
  <2>1. Elements(Missing) = {}
    BY Kinds DEF Elements, IsArray, IsObject
  <2>2. NoRow[c] # Null => c \notin Scalars /\ c \notin FrozenMaps /\ NoRow[c] = {}
    BY DocumentsAssumption DEF NoRow, Columns
  <2> QED
    BY <2>1, <2>2 DEF Follows, Shows, EmptyObject
<1> QED
  BY <1>1, <1>2

\* The document of an entry of the log, column by column.
Patched(b, op) == ApplyCollectionDeltas(MergeJson(b, op.payload), op.deltas)

LEMMA DeltaColumns ==
    ASSUME NEW b \in Docs, NEW r \in LogRow, r.operation # "PostImage", NEW c \in Columns
    PROVE  /\ c \in Collections =>
                  Patched(b, Serialized(r))[c] = ApplyDelta(b[c], DeltaOf(c, r.changes[c]))
           /\ c \notin Collections =>
                  Patched(b, Serialized(r))[c] =
                      MergeField(b[c], IF r.changes[c].value = Null THEN Missing
                                       ELSE CqlToJson(c, r.changes[c].value))
<1> DEFINE op == Serialized(r)
<1>1. op = SerializeCdcRow(r)
  BY DEF Serialized
<1>2. op.payload[c] = IF c \notin Collections /\ r.changes[c].value # Null
                      THEN CqlToJson(c, r.changes[c].value) ELSE Missing
  BY <1>1 DEF SerializeCdcRow, Payload
<1>3. c \in Collections => op.deltas[c] = DeltaOf(c, r.changes[c])
  BY <1>1 DEF SerializeCdcRow, DeltaOf, Image
<1> HIDE DEF op
<1>4. Patched(b, op)[c] = IF c \in Collections
                          THEN ApplyDelta(MergeField(b[c], op.payload[c]), op.deltas[c])
                          ELSE MergeField(b[c], op.payload[c])
  BY DEF Patched, ApplyCollectionDeltas, MergeJson
<1>5. MergeField(b[c], Missing) = b[c]
  BY DEF MergeField
<1> QED
  BY <1>2, <1>3, <1>4, <1>5 DEF op

LEMMA PostImageColumns ==
    ASSUME NEW b \in Docs, NEW r \in LogRow, r.operation = "PostImage", NEW c \in Columns
    PROVE  Patched(b, Serialized(r))[c] =
               MergeField(b[c], IF r.changes[c].value = Null THEN Missing
                                ELSE CqlToJson(c, r.changes[c].value))
<1> DEFINE op == Serialized(r)
<1>1. op = SerializePostimageToJson(r)
  BY DEF Serialized
<1>2. op.payload[c] = IF r.changes[c].value # Null
                      THEN CqlToJson(c, r.changes[c].value) ELSE Missing
  BY <1>1 DEF SerializePostimageToJson, Payload
<1>3. c \in Collections => op.deltas[c] = NoDelta
  BY <1>1 DEF SerializePostimageToJson
<1> HIDE DEF op
<1>4. Patched(b, op)[c] = IF c \in Collections
                          THEN ApplyDelta(MergeField(b[c], op.payload[c]), op.deltas[c])
                          ELSE MergeField(b[c], op.payload[c])
  BY DEF Patched, ApplyCollectionDeltas, MergeJson
<1>5. \A json : ApplyDelta(json, NoDelta) = json
  BY DEF ApplyDelta
<1> QED
  BY <1>2, <1>3, <1>4, <1>5 DEF op

\* A change carries a document that follows the row along with it.
LEMMA ChangeFollows ==
    ASSUME NEW b \in Docs, NEW r \in LogRow, r.operation \notin {"PostImage", "RowDelete"},
           NEW old \in Rows
    PROVE  /\ Patched(b, Serialized(r)) \in Docs
           /\ \A c \in Columns : \A clean \in BOOLEAN :
                  Follows(b, c, old, clean) =>
                      Follows(Patched(b, Serialized(r)), c, Changed(old, r),
                          clean /\ r.changes[c].deleted_elements \intersect Unrepresentable = {})
<1> DEFINE new == Patched(b, Serialized(r))
<1>1. DOMAIN new = Columns /\ new = [c \in Columns |-> new[c]]
  BY DEF Patched, ApplyCollectionDeltas
<1>2. ASSUME NEW c \in Columns
      PROVE  /\ new[c] \in Json \union {Missing}
             /\ \A clean \in BOOLEAN :
                    Follows(b, c, old, clean) =>
                      Follows(new, c, Changed(old, r),
                          clean /\ r.changes[c].deleted_elements \intersect Unrepresentable = {})
  <2> DEFINE change == r.changes[c]
  <2>1. /\ change \in Change(c) /\ change.deleted \in BOOLEAN
        /\ change.value \in Cql(c) \union {Null}
        /\ change.deleted_elements \in SUBSET Atoms
    BY DEF LogRow, Changes, Change
  <2>2. b[c] \in Json \union {Missing}
    BY DEF Docs
  <2>3. /\ c \in Collections => new[c] = ApplyDelta(b[c], DeltaOf(c, change))
        /\ c \notin Collections =>
               new[c] = MergeField(b[c], IF change.value = Null THEN Missing
                                         ELSE CqlToJson(c, change.value))
    BY DeltaColumns
  <2>4. Changed(old, r)[c] = ChangedColumn(c, old[c], change)
    BY DEF Changed
  <2>5. old[c] \in Cql(c) \union {Null} /\ (c \in Collections => old[c] # Null)
    BY DEF Rows
  <2>6. change.value # Null => /\ CqlToJson(c, change.value) \in Json
                               /\ Shows(CqlToJson(c, change.value), c, change.value)
                               /\ c \in Scalars => CqlToJson(c, change.value) \in JsonAtoms
                               /\ c \in FrozenMaps => CqlToJson(c, change.value) \in Objects
    BY <2>1, Converted
  <2> HIDE DEF new, change
  <2>7. CASE c \in Collections
    <3>1. new[c] \in Json \union {Missing}
      <4> DEFINE added == IF change.value = Null THEN Null ELSE CqlToJson(c, change.value)
                 removed == Image(change.deleted_elements)
      <4>1. added \in Json \union {Null}
        BY <2>6
      <4>2. new[c] = ApplyDelta(b[c], [tombstoned |-> change.deleted, added |-> added,
                                       removed |-> removed])
        BY <2>3, <2>7 DEF DeltaOf
      <4> HIDE DEF added, removed
      <4> QED
        BY <2>1, <2>2, <4>1, <4>2, DeltaApplied
    <3>2. ASSUME NEW clean \in BOOLEAN, Follows(b, c, old, clean)
          PROVE  Follows(new, c, Changed(old, r),
                         clean /\ change.deleted_elements \intersect Unrepresentable = {})
      <4>1. CASE c \in Sets
        <5>1. b[c] = Missing \/ (b[c] \in Arrays /\ IsInjective(b[c].array))
          BY <3>2, <4>1 DEF Follows, IsArray
        <5>2. c \notin Scalars /\ c \notin FrozenMaps
          BY <2>7, DocumentsAssumption
        <5>3. /\ new[c] = Missing \/ (new[c] \in Arrays /\ IsInjective(new[c].array))
              /\ \A value \in Cql(c) :
                     /\ Elements(b[c]) = Image(value)
                     /\ change.deleted_elements \intersect Unrepresentable = {}
                     => Elements(new[c]) = Image(ChangedColumn(c, value, change))
          BY <2>1, <2>2, <2>3, <2>7, <4>1, <5>1, SetFollows
        <5>4. old[c] \in Cql(c) /\ old[c] # Null
          BY <2>5, <2>7
        <5>5. clean => Elements(b[c]) = Image(old[c])
          BY <3>2, <4>1, <5>4 DEF Follows, Shows, Image
        <5>6. clean /\ change.deleted_elements \intersect Unrepresentable = {} =>
                  Elements(new[c]) = Image(Changed(old, r)[c])
          BY <2>4, <5>3, <5>4, <5>5
        <5> QED
          BY <5>2, <5>3, <5>6 DEF Follows, Shows, Image, IsArray
      <4>2. CASE c \notin Sets
        <5>1. c \notin Scalars /\ c \notin FrozenMaps
          BY <2>7, DocumentsAssumption
        <5> QED
          BY <4>2, <5>1 DEF Follows, Shows
      <4> QED
        BY <4>1, <4>2
    <3> QED
      BY <3>1, <3>2 DEF change
  <2>8. CASE c \notin Collections
    <3>1. c \notin Sets /\ c \in Scalars \union FrozenMaps
      BY <2>8 DEF Columns, Collections
    <3>2. Changed(old, r)[c] = IF change.deleted \/ change.value # Null
                               THEN change.value ELSE old[c]
      BY <2>4, <2>8 DEF ChangedColumn
    <3>3. CASE change.value = Null
      <4>1. new[c] = b[c]
        BY <2>3, <2>8, <3>3 DEF MergeField
      <4>2. Changed(old, r)[c] # Null => Changed(old, r)[c] = old[c]
        BY <3>2, <3>3
      <4> QED
        BY <2>2, <3>1, <4>1, <4>2 DEF Follows, change
    <3>4. CASE change.value # Null
      <4> DEFINE patch == CqlToJson(c, change.value)
      <4>1. new[c] = MergeField(b[c], patch) /\ Changed(old, r)[c] = change.value
        BY <2>3, <2>8, <3>2, <3>4
      <4>2. patch \in Json /\ Shows(patch, c, change.value)
        BY <2>6, <3>4
      <4>3. (c \in Scalars => patch \in JsonAtoms) /\ (c \in FrozenMaps => patch \in Objects)
        BY <2>6, <3>4
      <4>4. patch # Missing
        BY <4>2, Kinds
      <4> HIDE DEF patch
      <4>5. /\ new[c] \in Json \union {Missing}
            /\ patch \notin Objects => new[c] = patch
            /\ patch \in Objects => Elements(patch) \subseteq Elements(new[c])
        BY <2>2, <4>1, <4>2, <4>4, Merged
      <4>6. Shows(new[c], c, change.value)
        <5>1. CASE c \in Scalars
          <6>1. c \notin FrozenMaps /\ patch \notin Objects
            BY <4>3, <5>1, Kinds, DocumentsAssumption
          <6> QED
            BY <4>2, <4>5, <6>1
        <5>2. CASE c \in FrozenMaps
          <6>1. c \notin Scalars
            BY <5>2, DocumentsAssumption
          <6> QED
            BY <3>1, <4>2, <4>3, <4>5, <5>2, <6>1 DEF Shows
        <5> QED
          BY <3>1, <5>1, <5>2
      <4> QED
        BY <3>1, <4>1, <4>5, <4>6 DEF Follows
    <3> QED
      BY <3>3, <3>4
  <2> QED
    BY <2>7, <2>8
<1> HIDE DEF new
<1>3. new \in Docs
  BY <1>1, <1>2 DEF Docs
<1> QED
  BY <1>2, <1>3 DEF new

\* A PostImage of a row shows it, whatever the document was.
LEMMA PostImageShows ==
    ASSUME NEW b \in Docs, NEW r \in LogRow, r.operation = "PostImage",
           NEW old \in Rows, r.changes = PostImage(old, r.time).changes
    PROVE  /\ Patched(b, Serialized(r)) \in Docs
           /\ \A c \in Columns : ~IsNull(c, old[c]) =>
                  Shows(Patched(b, Serialized(r))[c], c, old[c])
<1> DEFINE new == Patched(b, Serialized(r))
<1>1. DOMAIN new = Columns /\ new = [c \in Columns |-> new[c]]
  BY DEF Patched, ApplyCollectionDeltas
<1>2. ASSUME NEW c \in Columns
      PROVE  /\ new[c] \in Json \union {Missing}
             /\ ~IsNull(c, old[c]) => Shows(new[c], c, old[c])
  <2> DEFINE value == r.changes[c].value
             patch == IF value = Null THEN Missing ELSE CqlToJson(c, value)
  <2>1. value = IF IsNull(c, old[c]) THEN Null ELSE old[c]
    BY DEF PostImage, Unchanged
  <2>2. old[c] \in Cql(c) \union {Null}
    BY DEF Rows
  <2>3. new[c] = MergeField(b[c], patch)
    BY PostImageColumns
  <2>4. b[c] \in Json \union {Missing}
    BY DEF Docs
  <2> HIDE DEF new, value
  <2>5. value # Null => /\ patch \in Json /\ Shows(patch, c, value)
                        /\ c \in Scalars => patch \in JsonAtoms
                        /\ c \in Sets => patch \in Arrays
                        /\ c \in FrozenMaps => patch \in Objects
    BY <2>1, <2>2, Converted
  <2>6. patch \in Json \union {Missing} /\ (value # Null => patch # Missing)
    BY <2>5, Kinds
  <2> HIDE DEF patch
  <2>7. /\ new[c] \in Json \union {Missing}
        /\ patch # Missing /\ patch \notin Objects => new[c] = patch
        /\ patch \in Objects => Elements(patch) \subseteq Elements(new[c])
    BY <2>3, <2>4, <2>6, Merged
  <2>8. ASSUME ~IsNull(c, old[c])
        PROVE  Shows(new[c], c, old[c])
    <3>1. value = old[c] /\ value # Null
      BY <2>1, <2>8 DEF IsNull
    <3>2. CASE c \in Scalars \/ c \in Sets
      <4>1. patch \notin Objects
        BY <2>5, <3>1, <3>2, Kinds
      <4> QED
        BY <2>5, <2>6, <2>7, <3>1, <4>1
    <3>3. CASE c \notin Scalars /\ c \notin Sets
      BY <2>5, <2>7, <3>1, <3>3 DEF Shows
    <3> QED
      BY <3>2, <3>3
  <2> QED
    BY <2>7, <2>8
<1> HIDE DEF new
<1>3. new \in Docs
  BY <1>1, <1>2 DEF Docs
<1> QED
  BY <1>2, <1>3 DEF new

-----------------------------------------------------------------------------
(* Applying an entry of the log *)

LEMMA WritetimesAscend ==
    ASSUME NEW x \in Nat, NEW y \in Nat, x <= y
    PROVE  /\ x \div TicksPerMicro \in Nat /\ y \div TicksPerMicro \in Nat
           /\ x \div TicksPerMicro <= y \div TicksPerMicro
<1> DEFINE T == TicksPerMicro
           p == x \div T
           q == y \div T
<1>1. T \in Nat /\ T > 0
  BY DocumentsAssumption
<1>2. p \in Int /\ q \in Int
  BY <1>1
<1>3. T * p <= x /\ y < T * q + T
  BY <1>1
<1>4. x < T * p + T
  BY <1>1
<1>5. p \in Nat /\ q \in Nat
  BY <1>1, SMTT(30)
<1>6. p <= q
  <2> SUFFICES ASSUME q + 1 <= p PROVE FALSE
    BY <1>2
  <2> HIDE DEF p, q, T
  <2>1. T * (q + 1) <= T * p
    BY <1>1, <1>2
  <2>2. T * (q + 1) = T * q + T
    BY <1>1, <1>2
  <2>3. T * q \in Int /\ T * p \in Int
    BY <1>1, <1>2
  <2> QED
    BY <1>1, <1>3, <2>1, <2>2, <2>3
<1> QED
  BY <1>5, <1>6

LEMMA LogFacts ==
    ASSUME NEW l, NEW now, LogOK(l, now), NEW n \in 1 .. Len(l)
    PROVE  /\ Len(l) \in Nat /\ l[n] \in LogRow
           /\ l[n].time \in Nat /\ l[n].changes \in Changes
           /\ l[n].operation \in Operation \union {"PostImage"}
           /\ Writetime(l[n]) \in Nat
           /\ \A m \in 1 .. n : Writetime(l[m]) <= Writetime(l[n])
<1>1. /\ Len(l) \in Nat /\ l[n] \in LogRow
      /\ \A m \in 1 .. n : m \in 1 .. Len(l) /\ l[m] \in LogRow /\ l[m].time <= l[n].time
  BY DEF LogOK
<1>2. \A m \in 1 .. Len(l) : l[m].time \in Nat
  <2>1. \A m \in 1 .. Len(l) : l[m] \in LogRow
    BY DEF LogOK
  <2> QED
    BY <2>1 DEF LogRow
<1>3. Writetime(l[n]) \in Nat
  BY <1>2, WritetimesAscend DEF Writetime
<1>4. ASSUME NEW m \in 1 .. n
      PROVE  Writetime(l[m]) <= Writetime(l[n])
  BY <1>1, <1>2, WritetimesAscend DEF Writetime
<1> QED
  BY <1>1, <1>2, <1>3, <1>4 DEF LogRow

\* A PostImage is applied only where its change was not: the two have one
\* writetime.
LEMMA PostImageSkipped ==
    ASSUME NEW now, LogOK(log, now), NEW rows, NEW stored, Tracks(rows, log, stored),
           NEW n \in 1 .. Len(log), ~IsDelta(log, n),
           n - 1 \in stored.from, \A k \in stored.from : k < n
    PROVE  Skipped(stored, Writetime(log[n]))
<1>1. /\ n - 1 \in 1 .. Len(log) /\ log[n - 1].operation # "RowDelete"
      /\ Writetime(log[n - 1]) = Writetime(log[n])
  BY DEF LogOK, Writetime
<1>2. stored.doc # NoDoc
  <2> SUFFICES ASSUME stored.doc = NoDoc PROVE FALSE
    OBVIOUS
  <2>1. PICK d \in 1 .. Len(log) : log[d].operation = "RowDelete" /\ stored.from = 1 .. d
    BY DEF Tracks
  <2>2. d \in stored.from
    BY <2>1
  <2>3. n \in Nat /\ d \in Nat /\ d < n /\ n - 1 <= d
    <3>1. Len(log) \in Nat
      BY DEF LogOK
    <3> QED
      BY <2>1, <2>2, <3>1
  <2> QED
    BY <1>1, <2>1, <2>3
<1>3. PICK m \in 1 .. Len(log) : TracksTo(rows, log, stored, m)
  BY <1>2 DEF Tracks
<1>4. m = n - 1 /\ stored.writetime = Writetime(log[m])
  BY <1>3 DEF TracksTo
<1>5. Writetime(log[n]) \in Nat
  BY LogFacts
<1> QED
  BY <1>1, <1>2, <1>4, <1>5 DEF Skipped

Base(stored) == IF stored.doc = NoDoc THEN EmptyObject ELSE stored.doc

\* Between an entry of the log and the next change there is at most a PostImage.
LEMMA SameRow ==
    ASSUME NEW now, LogOK(log, now), NEW rows, History(rows, log, row),
           NEW n \in 1 .. Len(log), NEW m \in 1 .. n - 1,
           \A k \in 1 .. n - 1 : IsDelta(log, k) => k <= m
    PROVE  rows[m] = rows[n - 1]
<1>1. CASE m = n - 1
  BY <1>1
<1>2. CASE m < n - 1
  <2>1. m + 1 \in 1 .. n - 1 /\ m + 1 \in 1 .. Len(log) /\ ~IsDelta(log, m + 1)
    BY <1>2
  <2>2. rows[m + 1] = rows[m]
    <3>1. rows[m + 1] = rows[m + 1 - 1]
      BY <2>1 DEF History
    <3> QED
      BY <3>1
  <2>3. m + 1 = n - 1
    <3> SUFFICES ASSUME m + 1 # n - 1 PROVE FALSE
      OBVIOUS
    <3>1. m + 2 \in 1 .. n - 1 /\ m + 2 \in 1 .. Len(log) /\ ~IsDelta(log, m + 2)
      BY <2>1
    <3>2. IsDelta(log, m + 2 - 1)
      BY <3>1 DEF LogOK
    <3> QED
      BY <2>1, <3>2
  <2> QED
    BY <2>2, <2>3
<1> QED
  BY <1>1, <1>2

\* The document that log entry n is applied to follows the row before it, if it is
\* made of all changes up to there.
LEMMA BaseFollows ==
    ASSUME NEW now, LogOK(log, now), NEW rows, History(rows, log, row),
           NEW stored, Tracks(rows, log, stored),
           NEW n \in 1 .. Len(log), ~Skipped(stored, Writetime(log[n])), IsDelta(log, n),
           \A k \in 1 .. n : IsDelta(log, k) => k \in FromWith(stored.from, n),
           log[n].operation # "RowDelete"
    PROVE  \A c \in Columns : Follows(Base(stored), c, rows[n - 1], Clean(log, n - 1, c))
<1> DEFINE from == stored.from
<1>1. /\ Len(log) \in Nat /\ n \in Nat /\ n >= 1
      /\ \A k \in 1 .. n : k \in 1 .. Len(log)
      /\ \A k \in 1 .. n - 1 : k \in 1 .. n /\ k # n
  BY DEF LogOK
<1>2. FromWith(from, n) = {n} \union (IF \A k \in from : k < n THEN from ELSE {})
  BY DEF FromWith
<1>3. IsDelta(log, 1)
  <2>1. 1 \in 1 .. Len(log) /\ 1 - 1 \notin 1 .. Len(log)
    BY <1>1
  <2> QED
    BY <2>1 DEF LogOK
<1>4. ASSUME Base(stored) = EmptyObject, rows[n - 1] = NoRow
      PROVE  \A c \in Columns : Follows(Base(stored), c, rows[n - 1], Clean(log, n - 1, c))
  BY <1>4, NothingFollowsNoRow DEF Follows
<1>5. CASE stored.doc = NoDoc
  <2>1. Base(stored) = EmptyObject
    BY <1>5 DEF Base
  <2>2. CASE n = 1
    <3>1. rows[n - 1] = NoRow
      BY <2>2 DEF History
    <3> QED
      BY <1>4, <2>1, <3>1
  <2>3. CASE n # 1
    <3>1. 1 \in 1 .. n - 1
      BY <1>1, <2>3
    <3>2. 1 \in FromWith(from, n)
      BY <1>1, <1>3, <3>1
    <3>3. 1 \in from /\ \A k \in from : k < n
      BY <1>2, <2>3, <3>2
    <3>4. PICK d \in 1 .. Len(log) : log[d].operation = "RowDelete" /\ from = 1 .. d
      BY <1>5, <3>3 DEF Tracks
    <3>5. d \in 1 .. n - 1
      BY <1>1, <3>3, <3>4
    <3>6. \A k \in 1 .. n - 1 : IsDelta(log, k) => k <= d
      BY <1>1, <1>2, <3>3, <3>4
    <3>7. rows[d] = rows[n - 1]
      BY <3>5, <3>6, SameRow
    <3>8. rows[d] = NoRow
      BY <3>4 DEF History, IsDelta, Changed
    <3> QED
      BY <1>4, <2>1, <3>7, <3>8
  <2> QED
    BY <2>2, <2>3
<1>6. CASE stored.doc # NoDoc
  <2>1. PICK m \in 1 .. Len(log) : TracksTo(rows, log, stored, m)
    BY <1>6 DEF Tracks
  <2>2. m \in from /\ \A k \in from : k <= m /\ k \in 1 .. Len(log)
    BY <2>1 DEF TracksTo, Tracks
  <2>3. m < n
    <3> SUFFICES ASSUME n <= m PROVE FALSE
      BY <1>1
    <3>1. n \in 1 .. m
      BY <1>1
    <3>2. Writetime(log[n]) <= Writetime(log[m])
      BY <3>1, LogFacts
    <3> QED
      BY <1>6, <2>1, <3>2 DEF Skipped, TracksTo
  <2>4. \A k \in from : k < n
    BY <1>1, <2>2, <2>3
  <2>5. m \in 1 .. n - 1
    BY <1>1, <2>3
  <2>6. \A k \in 1 .. n - 1 : IsDelta(log, k) => k \in from
    BY <1>1, <1>2, <2>4
  <2>7. rows[m] = rows[n - 1]
    BY <2>2, <2>5, <2>6, SameRow
  <2>8. \A k \in 1 .. m : k \in 1 .. n - 1
    BY <1>1, <2>5
  <2>9. \A c \in Columns : Follows(stored.doc, c, rows[m], Clean(log, m, c))
    BY <2>1, <2>6, <2>8 DEF TracksTo
  <2>10. \A c \in Columns : Clean(log, n - 1, c) => Clean(log, m, c)
    BY <2>8 DEF Clean
  <2>11. Base(stored) = stored.doc
    BY <1>6 DEF Base
  <2> QED
    BY <2>7, <2>9, <2>10, <2>11 DEF Follows
<1> QED
  BY <1>5, <1>6

LEMMA ApplyTracks ==
    ASSUME NEW now, LogOK(log, now), NEW rows, History(rows, log, row),
           NEW stored, Tracks(rows, log, stored), NEW n \in 1 .. Len(log)
    PROVE  Tracks(rows, log, Applied(stored, n))
<1> DEFINE r == log[n]
           from == FromWith(stored.from, n)
<1>1. /\ Len(log) \in Nat /\ r \in LogRow /\ Writetime(r) \in Nat
      /\ r.operation \in Operation \union {"PostImage"}
  BY LogFacts
<1>2. CASE Skipped(stored, Writetime(r))
  BY <1>2 DEF Applied
<1>3. CASE ~Skipped(stored, Writetime(r)) /\ r.operation = "RowDelete"
  <2> DEFINE new == Stored(NoDoc, 0, 1 .. n)
  <2>1. Applied(stored, n) = new
    BY <1>3 DEF Applied, FromWith, Upto
  <2>2. new.doc = NoDoc /\ new.writetime = 0 /\ new.from = 1 .. n
    BY DEF Stored
  <2>3. 1 .. n \subseteq 1 .. Len(log)
    BY <1>1
  <2>4. new = Stored(new.doc, new.writetime, new.from)
    BY DEF Stored
  <2> HIDE DEF new
  <2>5. Tracks(rows, log, new)
    BY <1>3, <2>2, <2>3, <2>4 DEF Tracks
  <2> QED
    BY <2>1, <2>5
<1>4. CASE ~Skipped(stored, Writetime(r)) /\ r.operation # "RowDelete"
  <2> DEFINE doc == Patched(Base(stored), Serialized(r))
             new == Stored(doc, Writetime(r), from)
  <2>1. Applied(stored, n) = new
    BY <1>4 DEF Applied, Upserted, Patched, Base
  <2>2. Base(stored) \in Docs
    BY NothingFollowsNoRow DEF Base, Tracks
  <2>3. from = {n} \union (IF \A k \in stored.from : k < n THEN stored.from ELSE {})
    BY <1>4 DEF FromWith
  <2>4. rows[n - 1] \in Rows /\ rows[n] \in Rows
    <3>1. n - 1 \in 0 .. Len(log) /\ n \in 0 .. Len(log)
      BY <1>1
    <3> QED
      BY <3>1 DEF History
  <2>5. new.doc = doc /\ new.writetime = Writetime(r) /\ new.from = from
    BY DEF Stored
  <2>6. new = Stored(new.doc, new.writetime, new.from)
    BY DEF Stored
  <2> HIDE DEF new
  <2>7. doc \in Docs
    <3>1. CASE IsDelta(log, n)
      <4>1. r.operation \notin {"PostImage", "RowDelete"}
        BY <1>4, <3>1 DEF IsDelta
      <4> HIDE DEF r
      <4> QED
        BY <1>1, <2>2, <2>4, <4>1, ChangeFollows
    <3>2. CASE ~IsDelta(log, n)
      <4>1. r.operation = "PostImage" /\ r.changes = PostImage(rows[n], r.time).changes
        BY <3>2 DEF IsDelta, History
      <4> HIDE DEF r
      <4> QED
        BY <1>1, <2>2, <2>4, <4>1, PostImageShows
    <3> QED
      BY <3>1, <3>2
  <2>8. from \subseteq 1 .. Len(log) /\ n \in from /\ \A k \in from : k <= n
    <3>1. stored.from \subseteq 1 .. Len(log)
      BY DEF Tracks
    <3> HIDE DEF from
    <3> QED
      BY <1>1, <2>3, <3>1
  <2>9. ASSUME \A k \in 1 .. n : IsDelta(log, k) => k \in from
        PROVE  \A c \in Columns : Follows(doc, c, rows[n], Clean(log, n, c))
    <3>1. IsDelta(log, n)
      <4> SUFFICES ASSUME ~IsDelta(log, n) PROVE FALSE
        OBVIOUS
      <4>1. n - 1 \in 1 .. n /\ n - 1 # n /\ IsDelta(log, n - 1)
        BY <1>1 DEF LogOK
      <4>2. n - 1 \in stored.from /\ \A k \in stored.from : k < n
        BY <2>3, <2>9, <4>1
      <4> QED
        BY <1>4, <4>2, PostImageSkipped
    <3>2. \A c \in Columns : Follows(Base(stored), c, rows[n - 1], Clean(log, n - 1, c))
      BY <1>4, <2>9, <3>1, BaseFollows
    <3>3. rows[n] = Changed(rows[n - 1], r)
      BY <3>1 DEF History
    <3>4. r.operation \notin {"PostImage", "RowDelete"}
      BY <1>4, <3>1 DEF IsDelta
    <3>5. ASSUME NEW c \in Columns
          PROVE  Follows(doc, c, rows[n], Clean(log, n, c))
      <4> DEFINE before == Clean(log, n - 1, c)
                 kept == r.changes[c].deleted_elements \intersect Unrepresentable = {}
      <4>1. Clean(log, n, c) => before /\ kept
        <5>1. n \in 1 .. n /\ \A k \in 1 .. n - 1 : k \in 1 .. n
          BY <1>1
        <5> QED
          BY <3>1, <5>1 DEF Clean
      <4>2. before \in BOOLEAN
        BY DEF Clean
      <4>3. Follows(Base(stored), c, rows[n - 1], before)
        BY <3>2
      <4>4. Follows(doc, c, rows[n], before /\ kept)
        <5> HIDE DEF r, before
        <5> QED
          BY <1>1, <2>2, <2>4, <3>3, <3>4, <4>2, <4>3, ChangeFollows
      <4> HIDE DEF doc, before, kept
      <4> QED
        BY <4>1, <4>4 DEF Follows
    <3> QED
      BY <3>5
  <2>10. ASSUME ~IsDelta(log, n)
         PROVE  \A c \in Columns : ~IsNull(c, rows[n][c]) => Shows(doc[c], c, rows[n][c])
    <3>1. r.operation = "PostImage" /\ r.changes = PostImage(rows[n], r.time).changes
      BY <2>10 DEF IsDelta, History
    <3> HIDE DEF r
    <3> QED
      BY <1>1, <2>2, <2>4, <3>1, PostImageShows
  <2> HIDE DEF doc, from
  <2>11. TracksTo(rows, log, new, n)
    BY <1>4, <2>5, <2>8, <2>9, <2>10 DEF TracksTo
  <2>12. doc # NoDoc
    BY <2>7, AbsenceAssumption DEF Docs
  <2>13. Tracks(rows, log, new)
    BY <1>1, <2>5, <2>6, <2>7, <2>8, <2>11, <2>12 DEF Tracks
  <2> QED
    BY <2>1, <2>13
<1> QED
  BY <1>2, <1>3, <1>4

-----------------------------------------------------------------------------
(* Writing an entry of the log *)

Prefix(l, l2) == Len(l) <= Len(l2) /\ \A n \in 1 .. Len(l) : l2[n] = l[n]

\* What a document is does not depend on the entries after it.
LEMMA TracksKept ==
    ASSUME NEW l, Len(l) \in Nat, NEW l2, Len(l2) \in Nat, Prefix(l, l2),
           NEW rows, NEW rows2, \A n \in 0 .. Len(l) : rows2[n] = rows[n],
           NEW stored, Tracks(rows, l, stored)
    PROVE  Tracks(rows2, l2, stored)
<1>1. \A n \in 1 .. Len(l) : n \in 1 .. Len(l2) /\ n \in 0 .. Len(l) /\ l2[n] = l[n]
  BY DEF Prefix
<1>2. \A n \in 1 .. Len(l) : IsDelta(l2, n) <=> IsDelta(l, n)
  BY <1>1 DEF IsDelta
<1>3. stored.from \subseteq 1 .. Len(l2)
  BY <1>1 DEF Tracks
<1>4. ASSUME NEW m \in 1 .. Len(l), TracksTo(rows, l, stored, m)
      PROVE  TracksTo(rows2, l2, stored, m)
  <2>1. \A n \in 1 .. m : n \in 1 .. Len(l)
    OBVIOUS
  <2>2. \A c : Clean(l2, m, c) <=> Clean(l, m, c)
    BY <1>1, <1>2, <2>1 DEF Clean
  <2>3. rows2[m] = rows[m] /\ l2[m] = l[m] /\ (IsDelta(l2, m) <=> IsDelta(l, m))
    BY <1>1, <1>2
  <2>4. (\A n \in 1 .. m : IsDelta(l2, n) => n \in stored.from) =>
            \A c \in Columns : Follows(stored.doc, c, rows2[m], Clean(l2, m, c))
    <3> SUFFICES ASSUME \A n \in 1 .. m : IsDelta(l2, n) => n \in stored.from,
                        NEW c \in Columns
                 PROVE  Follows(stored.doc, c, rows2[m], Clean(l2, m, c))
      OBVIOUS
    <3>1. \A n \in 1 .. m : IsDelta(l, n) => n \in stored.from
      BY <1>2, <2>1
    <3>2. Follows(stored.doc, c, rows[m], Clean(l, m, c))
      BY <1>4, <3>1 DEF TracksTo
    <3> QED
      BY <2>2, <2>3, <3>2 DEF Follows
  <2> QED
    BY <1>4, <2>3, <2>4 DEF TracksTo
<1>5. stored.doc = NoDoc =>
          \/ stored.from = {}
          \/ \E n \in 1 .. Len(l2) : l2[n].operation = "RowDelete" /\ stored.from = 1 .. n
  BY <1>1 DEF Tracks
<1>6. stored.doc # NoDoc => \E m \in 1 .. Len(l2) : TracksTo(rows2, l2, stored, m)
  BY <1>1, <1>4 DEF Tracks
<1> QED
  BY <1>3, <1>5, <1>6 DEF Tracks

\* An entry of the log, with a later cdc$time.
LEMMA LogGrows ==
    ASSUME NEW l, NEW now \in Nat, LogOK(l, now), NEW e \in LogRow, now <= e.time,
           e.operation = "PostImage" =>
               /\ l # << >> /\ e.time = l[Len(l)].time
               /\ l[Len(l)].operation \notin {"PostImage", "RowDelete"}
    PROVE  /\ LogOK(Append(l, e), e.time)
           /\ Prefix(l, Append(l, e)) /\ Len(Append(l, e)) = Len(l) + 1
           /\ Append(l, e)[Len(l) + 1] = e
<1> DEFINE l2 == Append(l, e)
           L == Len(l)
<1>1. l \in Seq(LogRow) /\ L \in Nat
  BY DEF LogOK
<1>2. /\ l2 \in Seq(LogRow) /\ Len(l2) = L + 1 /\ l2[L + 1] = e
      /\ \A n \in 1 .. L : l2[n] = l[n]
  BY <1>1
<1> HIDE DEF l2, L
<1>3. Prefix(l, l2)
  BY <1>1, <1>2 DEF Prefix, L
<1>4. e.time \in Nat
  BY DEF LogRow
<1>5. \A n \in 1 .. L + 1 : n \in 1 .. L \/ n = L + 1
  BY <1>1
<1>6. \A n \in 1 .. L : l[n].time <= now /\ l[n].time \in Nat
  <2>1. \A n \in 1 .. L : l[n] \in LogRow
    BY <1>1 DEF L
  <2> QED
    BY <2>1 DEF LogRow, LogOK, L
<1>7. \A n \in 1 .. L + 1 : l2[n].time <= e.time
  BY <1>2, <1>4, <1>5, <1>6
<1>8. ASSUME NEW m \in 1 .. L + 1, NEW n \in 1 .. L + 1, m <= n
      PROVE  l2[m].time <= l2[n].time
  <2>1. CASE n = L + 1
    BY <1>2, <1>7, <2>1
  <2>2. CASE n \in 1 .. L
    <3>1. m \in 1 .. L
      BY <1>1, <1>8, <2>2
    <3> QED
      BY <1>2, <1>8, <2>2, <3>1 DEF LogOK, L
  <2> QED
    BY <1>5, <2>1, <2>2
<1>9. ASSUME NEW n \in 1 .. L + 1, ~IsDelta(l2, n)
      PROVE  /\ n - 1 \in 1 .. L + 1 /\ IsDelta(l2, n - 1)
             /\ l2[n - 1].operation # "RowDelete"
             /\ l2[n - 1].time = l2[n].time
  <2>1. CASE n \in 1 .. L
    <3>1. /\ n - 1 \in 1 .. L /\ IsDelta(l, n - 1)
          /\ l[n - 1].operation # "RowDelete"
          /\ l[n - 1].time = l[n].time
      BY <1>2, <1>9, <2>1 DEF LogOK, IsDelta, L
    <3>2. n - 1 \in 1 .. L + 1
      BY <1>1, <3>1
    <3> QED
      BY <1>2, <2>1, <3>1, <3>2 DEF IsDelta
  <2>2. CASE n = L + 1
    <3>1. e.operation = "PostImage"
      BY <1>2, <1>9, <2>2 DEF IsDelta
    <3>2. l # << >> /\ e.time = l[L].time /\ l[L].operation \notin {"PostImage", "RowDelete"}
      BY <3>1 DEF L
    <3>3. L \in 1 .. L /\ L \in 1 .. L + 1 /\ n - 1 = L
      <4>1. L # 0
        BY <1>1, <3>2 DEF L
      <4> QED
        BY <1>1, <2>2, <4>1
    <3> QED
      BY <1>2, <2>2, <3>2, <3>3 DEF IsDelta
  <2> QED
    BY <1>5, <2>1, <2>2
<1>10. LogOK(l2, e.time)
  BY <1>2, <1>4, <1>7, <1>8, <1>9 DEF LogOK
<1> QED
  BY <1>2, <1>3, <1>10 DEF l2, L

LEMMA HistoryGrows ==
    ASSUME NEW l, Len(l) \in Nat, NEW rows, NEW r, History(rows, l, r),
           NEW l2, Prefix(l, l2), Len(l2) = Len(l) + 1, NEW r2 \in Rows,
           IF l2[Len(l) + 1].operation # "PostImage" THEN r2 = Changed(r, l2[Len(l) + 1])
           ELSE r2 = r /\ l2[Len(l) + 1].changes = PostImage(r, l2[Len(l) + 1].time).changes
    PROVE  \E rows2 : /\ History(rows2, l2, r2)
                      /\ \A n \in 0 .. Len(l) : rows2[n] = rows[n]
<1> DEFINE L == Len(l)
           rows2 == [n \in 0 .. L + 1 |-> IF n = L + 1 THEN r2 ELSE rows[n]]
<1>1. \A n \in 0 .. L : n \in 0 .. L + 1 /\ n # L + 1
  OBVIOUS
<1>2. \A n \in 0 .. L : rows2[n] = rows[n]
  BY <1>1
<1>3. rows2[L + 1] = r2
  OBVIOUS
<1>4. rows2 \in [0 .. L + 1 -> Rows]
  <2>1. \A n \in 0 .. L + 1 : n = L + 1 \/ n \in 0 .. L
    OBVIOUS
  <2>2. \A n \in 0 .. L : rows[n] \in Rows
    BY DEF History
  <2> QED
    BY <2>1, <2>2
<1> HIDE DEF rows2
<1>5. rows2[0] = NoRow /\ rows[L] = r /\ rows2[L] = r
  BY <1>2 DEF History
<1>6. ASSUME NEW n \in 1 .. L + 1
      PROVE  IF IsDelta(l2, n) THEN rows2[n] = Changed(rows2[n - 1], l2[n])
             ELSE /\ rows2[n] = rows2[n - 1]
                  /\ l2[n].changes = PostImage(rows2[n], l2[n].time).changes
  <2>1. CASE n = L + 1
    <3>1. rows2[n] = r2 /\ rows2[n - 1] = r
      BY <1>3, <1>5, <2>1
    <3> HIDE DEF L
    <3> QED
      BY <2>1, <3>1 DEF IsDelta, L
  <2>2. CASE n \in 1 .. L
    <3>1. n \in 0 .. L /\ n - 1 \in 0 .. L
      BY <2>2
    <3>2. rows2[n] = rows[n] /\ rows2[n - 1] = rows[n - 1] /\ l2[n] = l[n]
      BY <1>2, <2>2, <3>1 DEF Prefix
    <3>3. IF IsDelta(l, n) THEN rows[n] = Changed(rows[n - 1], l[n])
          ELSE /\ rows[n] = rows[n - 1]
               /\ l[n].changes = PostImage(rows[n], l[n].time).changes
      BY <2>2 DEF History
    <3> QED
      BY <3>2, <3>3 DEF IsDelta
  <2> QED
    BY <2>1, <2>2
<1>7. History(rows2, l2, r2)
  BY <1>3, <1>4, <1>5, <1>6 DEF History
<1> QED
  BY <1>2, <1>7

LEMMA ConsistentGrows ==
    ASSUME NEW l, NEW now, NEW r, NEW i, NEW j, Consistent(l, now, r, i, j),
           NEW e \in LogRow, now <= e.time, NEW r2 \in Rows,
           e.operation # "PostImage" => r2 = Changed(r, e),
           e.operation = "PostImage" =>
               /\ l # << >> /\ e.time = l[Len(l)].time
               /\ l[Len(l)].operation \notin {"PostImage", "RowDelete"}
               /\ r2 = r /\ e.changes = PostImage(r, e.time).changes
    PROVE  /\ Consistent(Append(l, e), e.time, r2, i, j)
           /\ Len(Append(l, e)) = Len(l) + 1 /\ Append(l, e)[Len(l) + 1] = e
<1> DEFINE l2 == Append(l, e)
<1>1. LogOK(l, now) /\ now \in Nat /\ Len(l) \in Nat
  BY DEF Consistent, LogOK
<1>2. LogOK(l2, e.time) /\ Prefix(l, l2) /\ Len(l2) = Len(l) + 1 /\ l2[Len(l) + 1] = e
  BY <1>1, LogGrows
<1>3. PICK rows : History(rows, l, r) /\ Tracks(rows, l, i) /\ Tracks(rows, l, j)
  BY DEF Consistent
<1> HIDE DEF l2
<1>4. PICK rows2 : History(rows2, l2, r2) /\ \A n \in 0 .. Len(l) : rows2[n] = rows[n]
  BY <1>1, <1>2, <1>3, HistoryGrows
<1>5. Len(l2) \in Nat
  BY <1>1, <1>2
<1>6. Tracks(rows2, l2, i) /\ Tracks(rows2, l2, j)
  BY <1>1, <1>2, <1>3, <1>4, <1>5, TracksKept
<1> QED
  BY <1>2, <1>4, <1>6 DEF Consistent, l2

LEMMA PostImageIsLogRow ==
    ASSUME NEW r \in Rows, NEW t \in Nat
    PROVE  PostImage(r, t) \in LogRow
<1>1. ASSUME NEW c \in Columns
      PROVE  PostImage(r, t).changes[c] \in Change(c)
  <2>1. r[c] \in Cql(c) \union {Null}
    BY DEF Rows
  <2>2. PostImage(r, t).changes[c] =
            [deleted |-> FALSE, value |-> IF IsNull(c, r[c]) THEN Null ELSE r[c],
             deleted_elements |-> {}]
    BY DEF PostImage, Unchanged
  <2> QED
    BY <2>1, <2>2 DEF Change
<1>2. PostImage(r, t).changes \in Changes
  <2>1. PostImage(r, t).changes = [c \in Columns |-> PostImage(r, t).changes[c]]
    BY DEF PostImage
  <2> QED
    BY <1>1, <2>1 DEF Changes
<1> QED
  BY <1>2 DEF PostImage, LogRow

-----------------------------------------------------------------------------
(* The inductive invariant *)

LEMMA Initially == Init => IndInv
<1> SUFFICES ASSUME Init PROVE IndInv
  OBVIOUS
<1>1. Len(log) = 0 /\ next \in 1 .. Len(log) + 1 /\ saved \in 0 .. Len(log) + 1
  BY DEF Init
<1>2. LogOK(log, time)
  <2>1. log \in Seq(LogRow) /\ time \in Nat
    BY DocumentsAssumption DEF Init
  <2> QED
    BY <1>1, <2>1 DEF LogOK
<1>3. row \in Rows
  BY NoRowIsRow DEF Init
<1> DEFINE rows == [n \in 0 .. 0 |-> NoRow]
<1>4. History(rows, log, row)
  <2>1. rows \in [0 .. 0 -> Rows] /\ rows[0] = NoRow
    BY NoRowIsRow
  <2> HIDE DEF rows
  <2> QED
    BY <1>1, <2>1 DEF History, Init
<1>5. Tracks(rows, log, index) /\ committed = index
  BY DEF Init, Stored, Tracks
<1> HIDE DEF rows
<1> QED
  BY <1>1, <1>2, <1>3, <1>4, <1>5 DEF IndInv, Consistent

LEMMA WriteStep == IndInv /\ Write => IndInv'
<1> SUFFICES ASSUME IndInv, Write PROVE IndInv'
  OBVIOUS
<1>1. PICK s \in Statements, dt \in 1 .. TicksPerMicro :
        LET delta == [operation |-> s.operation, time |-> time + dt, changes |-> s.changes]
        IN  /\ row' = Changed(row, s)
            /\ time' = time + dt
            /\ log' = log \o (IF PostImages /\ s.operation # "RowDelete"
                              THEN <<delta, PostImage(row', time')>> ELSE <<delta>>)
            /\ UNCHANGED <<next, saved, index, committed>>
  BY DEF Write
<1> DEFINE delta == [operation |-> s.operation, time |-> time + dt, changes |-> s.changes]
           one == Append(log, delta)
<1>2. /\ Consistent(log, time, row, index, committed)
      /\ time \in Nat /\ log \in Seq(LogRow) /\ Len(log) \in Nat /\ row \in Rows
  BY DEF IndInv, Consistent, LogOK
<1>3. time + dt \in Nat /\ time <= time + dt
  BY <1>2, DocumentsAssumption
<1>4. s.operation \in Operation /\ s.changes \in Changes /\ s.operation # "PostImage"
  BY DocumentsAssumption DEF Operation
<1>5. delta \in LogRow /\ delta.time = time + dt /\ delta.operation = s.operation
  BY <1>3, <1>4 DEF LogRow
<1>6. Changed(row, delta) = Changed(row, s) /\ Changed(row, s) \in Rows
  <2>1. Changed(row, delta) = Changed(row, s)
    BY DEF Changed
  <2>2. Changed(row, s) \in Rows
    BY <1>2, <1>4, ChangedIsRow
  <2> QED
    BY <2>1, <2>2
<1>7. row' = Changed(row, s) /\ time' = time + dt
  BY <1>1
<1> HIDE DEF delta
<1>8. /\ Consistent(one, time', row', index, committed)
      /\ Len(one) = Len(log) + 1 /\ one[Len(log) + 1] = delta
  <2>1. /\ Consistent(one, delta.time, row', index, committed)
        /\ Len(one) = Len(log) + 1 /\ one[Len(log) + 1] = delta
    BY <1>2, <1>3, <1>4, <1>5, <1>6, <1>7, ConsistentGrows
  <2> QED
    BY <1>5, <1>7, <2>1
<1>9. /\ next' = next /\ saved' = saved /\ index' = index /\ committed' = committed
  BY <1>1
<1>10. CASE ~(PostImages /\ s.operation # "RowDelete")
  <2>1. log' = one
    <3>1. log' = log \o <<delta>>
      BY <1>1, <1>10 DEF delta
    <3> QED
      BY <1>2, <1>5, <3>1
  <2> HIDE DEF one
  <2>2. next' \in 1 .. Len(log') + 1 /\ saved' \in 0 .. Len(log') + 1
    BY <1>2, <1>8, <1>9, <2>1 DEF IndInv
  <2> QED
    BY <1>8, <1>9, <2>1, <2>2 DEF IndInv
<1>11. CASE PostImages /\ s.operation # "RowDelete"
  <2> DEFINE image == PostImage(row', time')
             two == Append(one, image)
  <2>1. image \in LogRow /\ image.time = time' /\ image.operation = "PostImage"
    <3>1. image \in LogRow
      BY <1>3, <1>6, <1>7, PostImageIsLogRow
    <3> QED
      BY <3>1 DEF PostImage
  <2>2. one \in Seq(LogRow)
    BY <1>2, <1>5
  <2>3. log' = two
    <3>1. log' = log \o <<delta, image>>
      BY <1>1, <1>11 DEF delta
    <3> HIDE DEF image
    <3> QED
      BY <1>2, <1>5, <2>1, <3>1
  <2>4. image.changes = PostImage(row', image.time).changes
    BY <2>1
  <2> HIDE DEF image, one
  <2>5. /\ one # << >> /\ image.time = one[Len(one)].time
        /\ one[Len(one)].operation \notin {"PostImage", "RowDelete"}
    <3>1. one[Len(one)] = delta /\ Len(one) # 0
      BY <1>2, <1>8
    <3> QED
      BY <1>4, <1>5, <1>7, <1>11, <2>1, <3>1
  <2>6. time' \in Nat /\ time' <= image.time
    BY <1>3, <1>7, <2>1
  <2>7. row' \in Rows
    BY <1>6, <1>7
  <2>8. /\ Consistent(two, image.time, row', index, committed)
        /\ Len(two) = Len(one) + 1
    BY <1>8, <2>1, <2>4, <2>5, <2>6, <2>7, ConsistentGrows
  <2> HIDE DEF two
  <2>9. next' \in 1 .. Len(log') + 1 /\ saved' \in 0 .. Len(log') + 1
    BY <1>2, <1>8, <1>9, <2>3, <2>8 DEF IndInv
  <2> QED
    BY <1>9, <2>1, <2>3, <2>8, <2>9 DEF IndInv
<1> QED
  BY <1>10, <1>11

LEMMA Step == IndInv /\ [Next]_vars => IndInv'
<1> SUFFICES ASSUME IndInv, [Next]_vars PROVE IndInv'
  OBVIOUS
<1>1. Len(log) \in Nat /\ LogOK(log, time) /\ row \in Rows
  BY DEF IndInv, Consistent, LogOK
<1>2. PICK rows : /\ History(rows, log, row)
                  /\ Tracks(rows, log, index) /\ Tracks(rows, log, committed)
  BY DEF IndInv, Consistent
<1>3. ASSUME UNCHANGED <<row, time, log>>,
             next' \in 1 .. Len(log) + 1, saved' \in 0 .. Len(log) + 1,
             Tracks(rows, log, index'), Tracks(rows, log, committed')
      PROVE  IndInv'
  <2>1. Consistent(log, time, row, index', committed')
    BY <1>1, <1>2, <1>3 DEF Consistent
  <2> QED
    BY <1>3, <2>1 DEF IndInv
<1>4. CASE Write
  BY <1>4, WriteStep
<1>5. CASE Deliver
  <2>1. next \in 1 .. Len(log) /\ next' \in 1 .. Len(log) + 1
    BY <1>1, <1>5 DEF Deliver, IndInv
  <2>2. Tracks(rows, log, Applied(index, next))
    BY <1>1, <1>2, <2>1, ApplyTracks
  <2> QED
    BY <1>2, <1>3, <1>5, <2>1, <2>2 DEF Deliver, IndInv
<1>6. CASE Discard
  <2>1. next' \in 1 .. Len(log) + 1
    BY <1>1, <1>6 DEF Discard, IndInv
  <2> QED
    BY <1>2, <1>3, <1>6, <2>1 DEF Discard, IndInv
<1>7. CASE SaveProgress
  <2>1. saved' \in 0 .. Len(log) + 1
    BY <1>1, <1>7 DEF SaveProgress, IndInv
  <2> QED
    BY <1>2, <1>3, <1>7, <2>1 DEF SaveProgress, IndInv
<1>8. CASE IngestorRestart
  <2>1. next' \in 1 .. Len(log) + 1
    BY <1>1, <1>8 DEF IngestorRestart, IndInv
  <2> QED
    BY <1>2, <1>3, <1>8, <2>1 DEF IngestorRestart, IndInv
<1>9. CASE Commit
  BY <1>2, <1>3, <1>9 DEF Commit, IndInv
<1>10. CASE NodeRestart
  BY <1>2, <1>3, <1>10 DEF NodeRestart, IndInv
<1>11. CASE UNCHANGED vars
  BY <1>2, <1>3, <1>11 DEF vars, IndInv
<1> QED
  BY <1>4, <1>5, <1>6, <1>7, <1>8, <1>9, <1>10, <1>11 DEF Next

\* The positions stay inside the log, its times ascend, and both documents are what
\* the entries applied to them make of them.
THEOREM Inductive == Spec => []IndInv
  BY Initially, Step, PTL DEF Spec

LEMMA Types == IndInv => TypeOK
<1> SUFFICES ASSUME IndInv PROVE TypeOK
  OBVIOUS
<1>1. PICK rows : Tracks(rows, log, index) /\ Tracks(rows, log, committed)
  BY DEF IndInv, Consistent
<1>2. /\ time \in Nat /\ log \in Seq(LogRow) /\ row \in Rows
      /\ next \in 1 .. Len(log) + 1 /\ saved \in 0 .. Len(log) + 1
  BY DEF IndInv, Consistent, LogOK
<1>3. DOMAIN row = Columns /\ \A c \in Columns : row[c] \in Cql(c) \union {Null}
  BY <1>2 DEF Rows
<1>4. DOMAIN log = 1 .. Len(log)
  BY <1>2
<1>5. StoredOK(index) /\ StoredOK(committed)
  BY <1>1, <1>4 DEF StoredOK, Tracks, Docs
<1> QED
  BY <1>2, <1>3, <1>5 DEF TypeOK

LEMMA FollowsRow == IndInv => DocumentFollowsRow
<1> SUFFICES ASSUME IndInv, Complete
             PROVE  /\ RowDeleted <=> index.doc = NoDoc
                    /\ ~RowDeleted => \A c \in Columns :
                          /\ row[c] # Null /\ ~RemovesUnrepresentable(c) =>
                                 Shows(index.doc[c], c, row[c])
                          /\ c \in Sets /\ IsArray(index.doc[c]) =>
                                 IsInjective(index.doc[c].array)
  BY DEF DocumentFollowsRow
<1> DEFINE L == Len(log)
<1>1. PICK rows : History(rows, log, row) /\ Tracks(rows, log, index)
  BY DEF IndInv, Consistent
<1>2. LogOK(log, time) /\ log \in Seq(LogRow) /\ L \in Nat /\ DOMAIN log = 1 .. L
  BY DEF IndInv, Consistent, LogOK
<1>3. \A n \in 1 .. L : IsDelta(log, n) => n \in index.from
  BY <1>2 DEF Complete, Deltas, IsDelta
<1>4. \A n \in 1 .. L : ~IsDelta(log, n) =>
          n - 1 \in 1 .. L /\ IsDelta(log, n - 1) /\ log[n - 1].operation # "RowDelete"
  BY <1>2 DEF LogOK
<1>5. RowDeleted <=> L = 0 \/ log[L].operation = "RowDelete"
  BY <1>2 DEF RowDeleted, Last
<1> HIDE DEF L
<1>6. CASE index.doc = NoDoc
  <2>1. CASE index.from = {}
    <3>1. L = 0
      <4> SUFFICES ASSUME L # 0 PROVE FALSE
        OBVIOUS
      <4>1. 1 \in 1 .. L /\ 1 - 1 \notin 1 .. L
        BY <1>2
      <4> QED
        BY <1>3, <1>4, <2>1, <4>1
    <3> QED
      BY <1>5, <1>6, <3>1
  <2>2. CASE index.from # {}
    <3>1. PICK d \in 1 .. L : log[d].operation = "RowDelete" /\ index.from = 1 .. d
      BY <1>1, <1>6, <2>2 DEF Tracks, L
    <3>2. L = d
      <4> SUFFICES ASSUME d < L PROVE FALSE
        BY <1>2
      <4>1. d + 1 \in 1 .. L /\ d + 1 \notin index.from
        BY <1>2, <3>1
      <4>2. log[d + 1 - 1].operation # "RowDelete"
        BY <1>3, <1>4, <4>1
      <4> QED
        BY <3>1, <4>2
    <3> QED
      BY <1>5, <1>6, <3>1, <3>2
  <2> QED
    BY <2>1, <2>2
<1>7. CASE index.doc # NoDoc
  <2>1. PICK m \in 1 .. L : TracksTo(rows, log, index, m)
    BY <1>1, <1>7 DEF Tracks, L
  <2>2. /\ m \in index.from /\ \A n \in index.from : n <= m
        /\ log[m].operation # "RowDelete"
    BY <2>1 DEF TracksTo
  <2>3. ~RowDeleted
    <3> SUFFICES ASSUME log[L].operation = "RowDelete" PROVE FALSE
      BY <1>2, <1>5
    <3>1. L \in 1 .. L /\ IsDelta(log, L)
      BY <1>2 DEF IsDelta
    <3>2. L <= m
      BY <1>3, <2>2, <3>1
    <3>3. L = m
      BY <1>2, <3>2
    <3> QED
      BY <2>2, <3>3
  <2>4. rows[m] = row
    <3>1. CASE m = L
      BY <1>1, <3>1 DEF History, L
    <3>2. CASE m < L
      <4>1. m + 1 \in 1 .. L /\ m + 1 \notin index.from
        BY <1>2, <2>2, <3>2
      <4>2. ~IsDelta(log, m + 1)
        BY <1>3, <4>1
      <4>3. m + 1 = L
        <5> SUFFICES ASSUME m + 1 # L PROVE FALSE
          OBVIOUS
        <5>1. m + 2 \in 1 .. L /\ m + 2 \notin index.from /\ m + 2 - 1 = m + 1
          BY <1>2, <2>2, <4>1
        <5> QED
          BY <1>3, <1>4, <4>2, <5>1
      <4>4. rows[m + 1] = rows[m + 1 - 1]
        BY <1>1, <4>1, <4>2 DEF History, L
      <4> QED
        BY <1>1, <4>3, <4>4 DEF History, L
    <3> QED
      BY <1>2, <3>1, <3>2
  <2>5. \A n \in 1 .. m : n \in 1 .. L
    BY <1>2
  <2>6. \A c \in Columns : Follows(index.doc, c, row, Clean(log, m, c))
    BY <1>3, <2>1, <2>4, <2>5 DEF TracksTo
  <2>7. ASSUME NEW c \in Columns
        PROVE  ~RemovesUnrepresentable(c) => Clean(log, m, c)
    BY <1>2, <2>5 DEF RemovesUnrepresentable, Clean, Deltas, IsDelta
  <2>8. ~IsArray(Missing)
    BY Kinds DEF IsArray
  <2>9. ASSUME NEW c \in Columns
        PROVE  /\ row[c] # Null /\ ~RemovesUnrepresentable(c) => Shows(index.doc[c], c, row[c])
               /\ c \in Sets /\ IsArray(index.doc[c]) => IsInjective(index.doc[c].array)
    BY <2>6, <2>7, <2>8 DEF Follows
  <2> QED
    BY <1>7, <2>3, <2>9
<1> QED
  BY <1>6, <1>7

LEMMA RestoresRow == IndInv => PostImageRestores
<1> SUFFICES ASSUME IndInv, log # << >>, Last(log).operation = "PostImage",
                    Len(log) \in index.from
             PROVE  \A c \in Columns : ~IsNull(c, row[c]) => Shows(index.doc[c], c, row[c])
  BY DEF PostImageRestores
<1> DEFINE L == Len(log)
<1>1. PICK rows : History(rows, log, row) /\ Tracks(rows, log, index)
  BY DEF IndInv, Consistent
<1>2. L \in Nat /\ log[L].operation = "PostImage"
  BY DEF IndInv, Consistent, LogOK, Last
<1>3. index.doc # NoDoc
  <2> SUFFICES ASSUME index.doc = NoDoc PROVE FALSE
    OBVIOUS
  <2>1. PICK d \in 1 .. L : log[d].operation = "RowDelete" /\ index.from = 1 .. d
    BY <1>1 DEF Tracks
  <2>2. d = L
    BY <1>2, <2>1
  <2> QED
    BY <1>2, <2>1, <2>2
<1>4. PICK m \in 1 .. L : TracksTo(rows, log, index, m)
  BY <1>1, <1>3 DEF Tracks
<1>5. m = L
  BY <1>2, <1>4 DEF TracksTo
<1>6. rows[m] = row /\ ~IsDelta(log, m)
  BY <1>1, <1>2, <1>5 DEF History, IsDelta
<1> QED
  BY <1>4, <1>6 DEF TracksTo

\* Every field of a document is JSON that serialisation and merge can make, and the
\* reader's positions stay inside the log.
THEOREM TypeCorrect == Spec => []TypeOK
  BY Inductive, Types, PTL

\* Whatever is sent again, discarded, replayed or lost in a crash, a document that
\* is made of all changes shows the row, its sets without duplicates, and there is
\* none once the row is deleted.
THEOREM DocumentsFollow == Spec => []DocumentFollowsRow
  BY Inductive, FollowsRow, PTL

\* A PostImage that is applied restores every column with a value, whatever was
\* missed before it.
THEOREM PostImagesRestore == Spec => []PostImageRestores
  BY Inductive, RestoresRow, PTL
=============================================================================
