------------------------- MODULE RangeDeleteProofs --------------------------
(***************************************************************************)
(* filter_doc_ids_by_ck_range against ScyllaDB's ranges, for any number of *)
(* clustering columns of orderly types and any values.  While the bounds   *)
(* give direction to ascending columns only, it never goes beyond the      *)
(* range, and it finds all of it for the bounds most statements have.  On  *)
(* a descending first column it takes the wrong side.                      *)
(***************************************************************************)
EXTENDS RangeDelete, Induction

TypesOK == types \in [CkColumns -> Types]

\* A bound is a prefix of typed values, and an open bound is not empty.
LEMMA BoundShape ==
    ASSUME TypesOK, NEW bound \in Bounds
    PROVE  /\ bound.inclusive \in BOOLEAN
           /\ Len(bound.ck_values) \in 0 .. CkColumnCount
           /\ \A i \in 1 .. Len(bound.ck_values) :
                  bound.ck_values[i] \in ValuesOf[types[i]]
           /\ ~bound.inclusive => 1 \in 1 .. Len(bound.ck_values)
<1>1. CASE bound = [ck_values |-> << >>, inclusive |-> TRUE]
  BY <1>1, RangeDeleteAssumption
<1>2. CASE \E row \in Rows, n \in CkColumns, inclusive \in BOOLEAN :
               bound = [ck_values |-> SubSeq(row, 1, n), inclusive |-> inclusive]
  <2>1. PICK row \in Rows, n \in CkColumns, inclusive \in BOOLEAN :
            bound = [ck_values |-> SubSeq(row, 1, n), inclusive |-> inclusive]
    BY <1>2
  <2>2. /\ row \in [1 .. CkColumnCount -> Values]
        /\ n \in 1 .. CkColumnCount
        /\ \A i \in 1 .. CkColumnCount : row[i] \in ValuesOf[types[i]]
    BY DEF Rows, CkColumns
  <2>3. row \in Seq(Values) /\ Len(row) = CkColumnCount
    BY <2>2, RangeDeleteAssumption
  <2>4. Len(SubSeq(row, 1, n)) = n
    BY <2>2, <2>3, RangeDeleteAssumption
  <2>5. \A i \in 1 .. n : SubSeq(row, 1, n)[i] = row[i]
    BY <2>2, <2>3, RangeDeleteAssumption
  <2> QED
    BY <2>1, <2>2, <2>4, <2>5, RangeDeleteAssumption
<1> QED
  BY <1>1, <1>2 DEF Bounds

LEMMA CompareType ==
    ASSUME NEW a \in Strings, NEW b \in Strings, NEW t
    PROVE  Compare(a, b, t) \in Int
<1>1. /\ Lex[a] \in Int /\ Lex[b] \in Int
      /\ Parsed[a] \in Int \union {NoParse} /\ Parsed[b] \in Int \union {NoParse}
  BY RangeDeleteAssumption
<1> QED
  BY <1>1 DEF Compare

\* In an orderly table the comparison of two key strings is the comparison of
\* the values in ScyllaDB's order.
LEMMA CompareIsRank ==
    ASSUME NEW t \in Types, Orderly(t),
           NEW v \in ValuesOf[t], NEW w \in ValuesOf[t]
    PROVE  /\ Compare(KeyString[v], KeyString[w], t) < 0 <=> Rank[v] < Rank[w]
           /\ Compare(KeyString[v], KeyString[w], t) > 0 <=> Rank[v] > Rank[w]
<1>1. v \in Values /\ w \in Values
  BY RangeDeleteAssumption
<1>2. CASE t \in NumberTypes
  <2>1. Parsed[KeyString[v]] \in Int /\ Parsed[KeyString[w]] \in Int
    BY <1>2 DEF Orderly
  <2>2. Compare(KeyString[v], KeyString[w], t) = Parsed[KeyString[v]] - Parsed[KeyString[w]]
    BY <1>2, <2>1, RangeDeleteAssumption DEF Compare
  <2>3. /\ Rank[v] < Rank[w] <=> Parsed[KeyString[v]] < Parsed[KeyString[w]]
        /\ Rank[w] < Rank[v] <=> Parsed[KeyString[w]] < Parsed[KeyString[v]]
    BY <1>2 DEF Orderly
  <2> QED
    BY <1>1, <2>1, <2>2, <2>3, RangeDeleteAssumption
<1>3. CASE t \notin NumberTypes
  <2>1. Lex[KeyString[v]] \in Int /\ Lex[KeyString[w]] \in Int
    BY <1>1, RangeDeleteAssumption
  <2>2. Compare(KeyString[v], KeyString[w], t) = Lex[KeyString[v]] - Lex[KeyString[w]]
    BY <1>3 DEF Compare
  <2>3. /\ Rank[v] < Rank[w] <=> Lex[KeyString[v]] < Lex[KeyString[w]]
        /\ Rank[w] < Rank[v] <=> Lex[KeyString[w]] < Lex[KeyString[v]]
    BY <1>3 DEF Orderly
  <2> QED
    BY <1>1, <2>1, <2>2, <2>3, RangeDeleteAssumption
<1> QED
  BY <1>2, <1>3

\* The test of one column against its bounds, in ScyllaDB's order of the type.
RankTest(i, row, start, end) ==
    /\ i <= Len(start.ck_values) =>
           IF start.inclusive THEN ~(Rank[row[i]] < Rank[start.ck_values[i]])
                              ELSE Rank[row[i]] > Rank[start.ck_values[i]]
    /\ i <= Len(end.ck_values) =>
           IF end.inclusive THEN ~(Rank[row[i]] > Rank[end.ck_values[i]])
                            ELSE Rank[row[i]] < Rank[end.ck_values[i]]

\* The same in the order of the column.
PositionTest(i, row, start, end) ==
    /\ i <= Len(start.ck_values) =>
           IF start.inclusive THEN ~(Position(i, row[i]) < Position(i, start.ck_values[i]))
                              ELSE Position(i, row[i]) > Position(i, start.ck_values[i])
    /\ i <= Len(end.ck_values) =>
           IF end.inclusive THEN ~(Position(i, row[i]) > Position(i, end.ck_values[i]))
                            ELSE Position(i, row[i]) < Position(i, end.ck_values[i])

\* The values of a row and of the bounds at a column.
LEMMA ColumnTypes ==
    ASSUME TypesOK, NEW row \in Rows, NEW start \in Bounds, NEW end \in Bounds,
           NEW i \in CkColumns
    PROVE  /\ types[i] \in Types
           /\ row[i] \in ValuesOf[types[i]] /\ row[i] \in Values /\ Rank[row[i]] \in Int
           /\ i <= Len(start.ck_values) =>
                  /\ start.ck_values[i] \in ValuesOf[types[i]]
                  /\ start.ck_values[i] \in Values /\ Rank[start.ck_values[i]] \in Int
           /\ i <= Len(end.ck_values) =>
                  /\ end.ck_values[i] \in ValuesOf[types[i]]
                  /\ end.ck_values[i] \in Values /\ Rank[end.ck_values[i]] \in Int
<1>1. /\ types[i] \in Types
      /\ row[i] \in ValuesOf[types[i]] /\ row[i] \in Values
      /\ ValuesOf[types[i]] \subseteq Values
  BY RangeDeleteAssumption DEF TypesOK, Rows
<1>2. /\ Len(start.ck_values) \in Nat /\ Len(end.ck_values) \in Nat
      /\ \A k \in 1 .. Len(start.ck_values) : start.ck_values[k] \in ValuesOf[types[k]]
      /\ \A k \in 1 .. Len(end.ck_values) : end.ck_values[k] \in ValuesOf[types[k]]
  BY BoundShape, RangeDeleteAssumption
<1>3. /\ i <= Len(start.ck_values) => i \in 1 .. Len(start.ck_values)
      /\ i <= Len(end.ck_values) => i \in 1 .. Len(end.ck_values)
  BY <1>2, RangeDeleteAssumption DEF CkColumns
<1>4. \A v \in Values : Rank[v] \in Int
  BY RangeDeleteAssumption
<1> QED
  BY <1>1, <1>2, <1>3, <1>4

\* A column whose direction does not matter, because it is ascending, has no bound
\* or is pinned, passes one test if it passes the other.
LEMMA SameTest ==
    ASSUME TypesOK, NEW row \in Rows, NEW start \in Bounds, NEW end \in Bounds,
           NEW i \in CkColumns, Upward(start, end)
    PROVE  RankTest(i, row, start, end) <=> PositionTest(i, row, start, end)
<1>1. CASE i \notin descending
  BY <1>1 DEF RankTest, PositionTest, Position
<1>2. CASE i \in descending /\ ~Bounded(i, start, end)
  BY <1>2 DEF RankTest, PositionTest, Bounded
<1>3. CASE i \in descending /\ Pinned(i, start, end)
  <2>1. /\ start.inclusive /\ end.inclusive
        /\ i <= Len(start.ck_values) /\ i <= Len(end.ck_values)
        /\ start.ck_values[i] = end.ck_values[i]
    BY <1>3 DEF Pinned
  <2>2. Rank[row[i]] \in Int /\ Rank[start.ck_values[i]] \in Int
    BY <2>1, ColumnTypes
  <2> QED
    BY <1>3, <2>1, <2>2 DEF RankTest, PositionTest, Position
<1> QED
  BY <1>1, <1>2, <1>3 DEF Upward

\* The loop of the filter is the test of every column in the order of its type.
LEMMA WithinIsRank ==
    ASSUME TypesOK, OrderlyTable, NEW row \in Rows, NEW start \in Bounds, NEW end \in Bounds
    PROVE  Within([i \in CkColumns |-> KeyString[row[i]]], start, end)
               <=> \A i \in CkColumns : RankTest(i, row, start, end)
<1> DEFINE keys == [i \in CkColumns |-> KeyString[row[i]]]
           from == start.ck_values
           to   == end.ck_values
<1>1. start.inclusive \in BOOLEAN /\ end.inclusive \in BOOLEAN
  BY BoundShape
<1>2. ASSUME NEW i \in CkColumns
      PROVE  /\ i <= Len(from) =>
                    ((LET cmp == Compare(keys[i], KeyString[from[i]], types[i])
                      IN  IF start.inclusive THEN cmp >= 0 ELSE cmp > 0)
                     <=> IF start.inclusive THEN ~(Rank[row[i]] < Rank[from[i]])
                                            ELSE Rank[row[i]] > Rank[from[i]])
             /\ i <= Len(to) =>
                    ((LET cmp == Compare(keys[i], KeyString[to[i]], types[i])
                      IN  IF end.inclusive THEN cmp <= 0 ELSE cmp < 0)
                     <=> IF end.inclusive THEN ~(Rank[row[i]] > Rank[to[i]])
                                          ELSE Rank[row[i]] < Rank[to[i]])
  <2>1. /\ types[i] \in Types /\ Orderly(types[i])
        /\ row[i] \in ValuesOf[types[i]] /\ keys[i] = KeyString[row[i]]
        /\ KeyString[row[i]] \in Strings
    BY ColumnTypes, RangeDeleteAssumption DEF OrderlyTable
  <2>2. ASSUME NEW w \in ValuesOf[types[i]], w \in Values
        PROVE  /\ Compare(keys[i], KeyString[w], types[i]) \in Int
               /\ Compare(keys[i], KeyString[w], types[i]) < 0 <=> Rank[row[i]] < Rank[w]
               /\ Compare(keys[i], KeyString[w], types[i]) > 0 <=> Rank[row[i]] > Rank[w]
    <3>1. KeyString[w] \in Strings
      BY <2>2, RangeDeleteAssumption
    <3> HIDE DEF keys
    <3> QED
      BY <2>1, <2>2, <3>1, CompareIsRank, CompareType
  <2> HIDE DEF keys
  <2>3. ASSUME i <= Len(from)
        PROVE  (LET cmp == Compare(keys[i], KeyString[from[i]], types[i])
                IN  IF start.inclusive THEN cmp >= 0 ELSE cmp > 0)
                     <=> IF start.inclusive THEN ~(Rank[row[i]] < Rank[from[i]])
                                            ELSE Rank[row[i]] > Rank[from[i]]
    <3>1. from[i] \in ValuesOf[types[i]] /\ from[i] \in Values
      BY <2>3, ColumnTypes
    <3> QED
      BY <1>1, <2>2, <3>1
  <2>4. ASSUME i <= Len(to)
        PROVE  (LET cmp == Compare(keys[i], KeyString[to[i]], types[i])
                IN  IF end.inclusive THEN cmp <= 0 ELSE cmp < 0)
                     <=> IF end.inclusive THEN ~(Rank[row[i]] > Rank[to[i]])
                                          ELSE Rank[row[i]] < Rank[to[i]]
    <3>1. to[i] \in ValuesOf[types[i]] /\ to[i] \in Values
      BY <2>4, ColumnTypes
    <3> QED
      BY <1>1, <2>2, <3>1
  <2> QED
    BY <2>3, <2>4
<1> HIDE DEF keys
<1>3. Within(keys, start, end) <=> \A i \in CkColumns : RankTest(i, row, start, end)
  BY <1>2 DEF Within, RankTest
<1> QED
  BY <1>3 DEF keys

\* What the filter selects lies in the range, if the bounds give direction to
\* ascending columns only: comparing column by column is stricter than comparing
\* rows, for open and closed bounds of any length.
THEOREM FilterSound ==
    ASSUME TypesOK, OrderlyTable,
           NEW row \in Rows, NEW start \in Bounds, NEW end \in Bounds, Upward(start, end),
           Within([i \in CkColumns |-> KeyString[row[i]]], start, end)
    PROVE  InRange(row, start, end)
<1> DEFINE from == start.ck_values
           to   == end.ck_values
<1>1. /\ start.inclusive \in BOOLEAN /\ end.inclusive \in BOOLEAN
      /\ Len(from) \in 0 .. CkColumnCount /\ Len(to) \in 0 .. CkColumnCount
      /\ ~start.inclusive => 1 \in 1 .. Len(from)
      /\ ~end.inclusive => 1 \in 1 .. Len(to)
  BY BoundShape
<1>2. \A i \in CkColumns : PositionTest(i, row, start, end)
  BY WithinIsRank, SameTest
<1>3. /\ \A i \in 1 .. Len(from) : i \in CkColumns /\ i <= Len(from)
      /\ \A i \in 1 .. Len(to) : i \in CkColumns /\ i <= Len(to)
  BY <1>1, RangeDeleteAssumption DEF CkColumns
<1>4. \A i \in 1 .. Len(from) :
          IF start.inclusive THEN ~(Position(i, row[i]) < Position(i, from[i]))
                             ELSE Position(i, row[i]) > Position(i, from[i])
  BY <1>2, <1>3 DEF PositionTest
<1>5. \A i \in 1 .. Len(to) :
          IF end.inclusive THEN ~(Position(i, row[i]) > Position(i, to[i]))
                           ELSE Position(i, row[i]) < Position(i, to[i])
  BY <1>2, <1>3 DEF PositionTest
<1>6. IF start.inclusive THEN ~Below(row, from) ELSE Above(row, from)
  BY <1>1, <1>4 DEF Below, Above
<1>7. IF end.inclusive THEN ~Above(row, to) ELSE Below(row, to)
  BY <1>1, <1>5 DEF Below, Above
<1> QED
  BY <1>6, <1>7 DEF InRange

-----------------------------------------------------------------------------
(* Document ids *)

Keys(row) == [i \in CkColumns |-> KeyString[row[i]]]

\* Joining one-piece strings and splitting the result gives the strings back.
LEMMA FlattenPieces ==
    ASSUME NEW n \in Nat \ {0}, NEW keys \in [1 .. n -> Strings]
    PROVE  FlattenSeq([i \in 1 .. n |-> <<keys[i]>>]) = keys
<1> DEFINE seqs == [i \in 1 .. n |-> <<keys[i]>>]
           Step(g) == [i \in 1 .. n |-> IF i = 1 THEN seqs[i] ELSE g[i - 1] \o seqs[i]]
           flatten == CHOOSE g : g = Step(g)
           prefixes == [i \in 1 .. n |-> [j \in 1 .. i |-> keys[j]]]
<1>1. seqs \in Seq(Seq(Strings)) /\ Len(seqs) = n
  OBVIOUS
<1>2. ASSUME NEW i \in 2 .. n
      PROVE  prefixes[i - 1] \o seqs[i] = prefixes[i]
  <2>1. i - 1 \in 1 .. n /\ i \in 1 .. n /\ i \in Nat
    OBVIOUS
  <2>2. /\ prefixes[i - 1] = [j \in 1 .. i - 1 |-> keys[j]]
        /\ prefixes[i] = [j \in 1 .. i |-> keys[j]]
        /\ seqs[i] = <<keys[i]>>
    BY <2>1
  <2>3. prefixes[i - 1] \in Seq(Strings) /\ Len(prefixes[i - 1]) = i - 1
    BY <2>1, <2>2
  <2>4. prefixes[i] \in Seq(Strings) /\ Len(prefixes[i]) = i
    BY <2>1, <2>2
  <2> HIDE DEF prefixes, seqs
  <2> QED
    BY <2>1, <2>2, <2>3, <2>4
<1>3. prefixes[1] = seqs[1]
  BY SMT
<1>4. prefixes = Step(prefixes)
  <2>1. prefixes = [i \in 1 .. n |-> prefixes[i]]
    OBVIOUS
  <2> HIDE DEF prefixes, seqs
  <2>2. \A i \in 1 .. n :
            prefixes[i] = IF i = 1 THEN seqs[i] ELSE prefixes[i - 1] \o seqs[i]
    <3>1. \A i \in 1 .. n : i = 1 \/ i \in 2 .. n
      OBVIOUS
    <3> QED
      BY <1>2, <1>3, <3>1, Zenon
  <2> QED
    BY <2>1, <2>2
<1>5. flatten = Step(flatten)
  BY <1>4
<1>6. \A i \in 1 .. n :
          flatten[i] = IF i = 1 THEN seqs[i] ELSE flatten[i - 1] \o seqs[i]
  <2> HIDE DEF flatten, seqs
  <2> QED
    BY <1>5
<1>7. flatten[n] = prefixes[n]
  <2> HIDE DEF flatten, prefixes, seqs
  <2> DEFINE S == {k \in 0 .. n : k = 0 \/ flatten[k] = prefixes[k]}
  <2>1. ASSUME NEW k \in 1 .. n, k - 1 \in S
        PROVE  k \in S
    <3>1. CASE k = 1
      BY <1>3, <1>6, <3>1
    <3>2. CASE k # 1
      <4>1. k \in 2 .. n /\ flatten[k - 1] = prefixes[k - 1]
        BY <2>1, <3>2
      <4>2. prefixes[k - 1] \o seqs[k] = prefixes[k]
        BY <1>2, <4>1
      <4>3. flatten[k] = flatten[k - 1] \o seqs[k]
        BY <1>6, <3>2
      <4>4. flatten[k] = prefixes[k]
        BY <4>1, <4>2, <4>3
      <4> QED
        BY <4>4
    <3> QED
      BY <3>1, <3>2
  <2>2. 0 \in S
    OBVIOUS
  <2>3. 0 .. n \subseteq S
    <3> HIDE DEF S
    <3> QED
      BY <2>1, <2>2, UpTo
  <2> QED
    BY <2>3
<1>8. FlattenSeq(seqs) = flatten[n]
  BY <1>1 DEF FlattenSeq
<1>9. prefixes[n] = keys
  OBVIOUS
<1> QED
  BY <1>7, <1>8, <1>9

\* The keys of a row of an orderly table are one string per column, from which
\* the row can be told.
LEMMA KeysType ==
    ASSUME TypesOK, NEW row \in Rows
    PROVE  /\ Keys(row) \in Seq(Strings) /\ Len(Keys(row)) = CkColumnCount
           /\ \A i \in 1 .. CkColumnCount : Keys(row)[i] = KeyString[row[i]]
<1>1. \A i \in 1 .. CkColumnCount : KeyString[row[i]] \in Strings
  BY RangeDeleteAssumption DEF Rows, CkColumns
<1> QED
  BY <1>1, RangeDeleteAssumption DEF Keys, CkColumns

LEMMA KeysInjective ==
    ASSUME TypesOK, OrderlyTable, NEW row \in Rows, NEW other \in Rows,
           Keys(row) = Keys(other)
    PROVE  row = other
<1>1. row \in [CkColumns -> Values] /\ other \in [CkColumns -> Values]
  BY DEF Rows
<1>2. ASSUME NEW i \in CkColumns
      PROVE  row[i] = other[i]
  <2>1. KeyString[row[i]] = KeyString[other[i]]
    BY DEF Keys
  <2>2. Orderly(types[i]) /\ row[i] \in ValuesOf[types[i]] /\ other[i] \in ValuesOf[types[i]]
    BY DEF OrderlyTable, Rows
  <2> QED
    BY <2>1, <2>2 DEF Orderly
<1> QED
  BY <1>1, <1>2

\* A document id splits into the partition's pieces and one piece per column.
LEMMA DocIdShape ==
    ASSUME TypesOK, OrderlyTable, NEW row \in Rows
    PROVE  DocId(row) = partition_key \o Keys(row)
<1>1. Keys(row) \in [1 .. CkColumnCount -> Strings]
  BY RangeDeleteAssumption DEF Rows, CkColumns, Keys
<1>2. [i \in CkColumns |-> Pieces[KeyString[row[i]]]]
          = [i \in 1 .. CkColumnCount |-> <<Keys(row)[i]>>]
  <2>1. \A i \in CkColumns : Pieces[KeyString[row[i]]] = <<Keys(row)[i]>>
    BY DEF OrderlyTable, Orderly, Rows, Keys
  <2> QED
    BY <2>1, Zenon DEF CkColumns
<1>3. FlattenSeq([i \in 1 .. CkColumnCount |-> <<Keys(row)[i]>>]) = Keys(row)
  BY <1>1, FlattenPieces, RangeDeleteAssumption
<1> QED
  BY <1>2, <1>3, Zenon DEF DocId

LEMMA DocIdParts ==
    ASSUME TypesOK, OrderlyTable, partition_key \in Seq(Strings), NEW row \in Rows
    PROVE  /\ DocId(row) \in Seq(Strings)
           /\ Len(DocId(row)) = Len(partition_key) + CkColumnCount
           /\ SubSeq(DocId(row), Len(partition_key) + 1, Len(DocId(row))) = Keys(row)
<1> DEFINE n == Len(partition_key)
           id == partition_key \o Keys(row)
<1>1. /\ Keys(row) \in Seq(Strings) /\ Len(Keys(row)) = CkColumnCount
      /\ n \in Nat /\ CkColumnCount \in Nat
  BY KeysType, RangeDeleteAssumption
<1>2. /\ id \in Seq(Strings) /\ Len(id) = n + CkColumnCount
      /\ \A i \in 1 .. CkColumnCount : id[n + i] = Keys(row)[i]
  BY <1>1
<1>3. DocId(row) = id
  BY DocIdShape
<1> HIDE DEF id
<1>4. SubSeq(id, n + 1, n + CkColumnCount) = Keys(row)
  <2>1. /\ SubSeq(id, n + 1, n + CkColumnCount) \in Seq(Strings)
        /\ Len(SubSeq(id, n + 1, n + CkColumnCount)) = CkColumnCount
    BY <1>1, <1>2
  <2>2. ASSUME NEW i \in 1 .. CkColumnCount
        PROVE  SubSeq(id, n + 1, n + CkColumnCount)[i] = id[n + i]
    BY <1>1, <1>2
  <2> QED
    BY <1>1, <1>2, <2>1, <2>2
<1> QED
  BY <1>2, <1>3, <1>4

\* Two rows of an orderly table have different ids.
LEMMA DocIdInjective ==
    ASSUME TypesOK, OrderlyTable, partition_key \in Seq(Strings),
           NEW row \in Rows, NEW other \in Rows, DocId(row) = DocId(other)
    PROVE  row = other
BY DocIdParts, KeysInjective

-----------------------------------------------------------------------------
(* The filter and the range *)

\* For simple ranges the filter selects all of the range: a row that failed the
\* test of some column first would be outside of the range at that column.
LEMMA FilterComplete ==
    ASSUME TypesOK, OrderlyTable,
           NEW row \in Rows, NEW start \in Bounds, NEW end \in Bounds,
           SimpleRange(start, end), InRange(row, start, end)
    PROVE  Within(Keys(row), start, end)
<1> DEFINE from == start.ck_values
           to   == end.ck_values
<1>1. /\ Len(from) \in 0 .. CkColumnCount /\ Len(to) \in 0 .. CkColumnCount
      /\ start.inclusive \in BOOLEAN /\ end.inclusive \in BOOLEAN
      /\ CkColumnCount \in Nat \ {0}
  BY BoundShape, RangeDeleteAssumption
<1>2. /\ IF start.inclusive THEN ~Below(row, from) ELSE Above(row, from)
      /\ IF end.inclusive THEN ~Above(row, to) ELSE Below(row, to)
  BY DEF InRange
<1>3. /\ Upward(start, end)
      /\ \A i \in CkColumns : i < Len(from) \/ i < Len(to) => Pinned(i, start, end)
  BY DEF SimpleRange
<1>4. SUFFICES \A i \in CkColumns : PositionTest(i, row, start, end)
  BY <1>3, SameTest, WithinIsRank DEF Keys
<1>5. CASE Len(from) <= 1 /\ Len(to) <= 1
  <2>1. ASSUME NEW i \in CkColumns, i <= Len(from)
        PROVE  IF start.inclusive THEN ~(Position(i, row[i]) < Position(i, from[i]))
                                  ELSE Position(i, row[i]) > Position(i, from[i])
    <3>1. i = 1 /\ Len(from) = 1
      <4> DEFINE n == Len(from)
      <4>1. i \in Nat /\ i >= 1 /\ n \in Nat /\ i <= n /\ n <= 1
        BY <1>1, <1>5, <2>1 DEF CkColumns
      <4> HIDE DEF n
      <4>2. i = 1 /\ n = 1
        BY <4>1
      <4> QED
        BY <4>2 DEF n
    <3> QED
      BY <1>2, <3>1 DEF Below, Above
  <2>2. ASSUME NEW i \in CkColumns, i <= Len(to)
        PROVE  IF end.inclusive THEN ~(Position(i, row[i]) > Position(i, to[i]))
                                ELSE Position(i, row[i]) < Position(i, to[i])
    <3>1. i = 1 /\ Len(to) = 1
      <4> DEFINE n == Len(to)
      <4>1. i \in Nat /\ i >= 1 /\ n \in Nat /\ i <= n /\ n <= 1
        BY <1>1, <1>5, <2>2 DEF CkColumns
      <4> HIDE DEF n
      <4>2. i = 1 /\ n = 1
        BY <4>1
      <4> QED
        BY <4>2 DEF n
    <3> QED
      BY <1>2, <3>1 DEF Below, Above
  <2> QED
    BY <2>1, <2>2 DEF PositionTest
<1>6. CASE ~(Len(from) <= 1 /\ Len(to) <= 1)
  <2>1. start.inclusive /\ end.inclusive
    <3>1. 1 \in CkColumns /\ (1 < Len(from) \/ 1 < Len(to))
      BY <1>1, <1>6 DEF CkColumns
    <3> QED
      BY <1>3, <3>1 DEF Pinned
  <2> DEFINE bad == {j \in 1 .. CkColumnCount :
                        \/ j <= Len(from) /\ Position(j, row[j]) < Position(j, from[j])
                        \/ j <= Len(to) /\ Position(j, row[j]) > Position(j, to[j])}
  <2>2. bad = {}
    <3> SUFFICES ASSUME bad # {} PROVE FALSE
      OBVIOUS
    <3>1. PICK j \in bad : \A i \in bad : j <= i
      <4>1. bad \subseteq Nat
        BY <1>1
      <4> HIDE DEF bad
      <4> QED
        BY <4>1, Least
    <3>2. ASSUME NEW i \in 1 .. j - 1
          PROVE  row[i] = from[i] /\ row[i] = to[i]
      <4>1. i \in CkColumns /\ i \in 1 .. CkColumnCount /\ i \notin bad
        BY <1>1, <3>1 DEF CkColumns
      <4>2. i < Len(from) \/ i < Len(to)
        BY <1>1, <3>1
      <4>3. i <= Len(from) /\ i <= Len(to) /\ from[i] = to[i]
        BY <1>3, <4>1, <4>2 DEF Pinned
      <4>4. /\ ~(Position(i, row[i]) < Position(i, from[i]))
            /\ ~(Position(i, from[i]) < Position(i, row[i]))
        BY <4>1, <4>3
      <4>5. /\ Orderly(types[i])
            /\ row[i] \in ValuesOf[types[i]] /\ from[i] \in ValuesOf[types[i]]
            /\ Rank[row[i]] \in Int /\ Rank[from[i]] \in Int
        BY <4>1, <4>3, ColumnTypes DEF OrderlyTable
      <4>6. ~(Rank[row[i]] < Rank[from[i]]) /\ ~(Rank[from[i]] < Rank[row[i]])
        BY <4>4, <4>5 DEF Position
      <4>7. row[i] = from[i]
        BY <4>5, <4>6 DEF Orderly
      <4> QED
        BY <4>3, <4>7
    <3>3. \/ j \in 1 .. Len(from) /\ Position(j, row[j]) < Position(j, from[j])
          \/ j \in 1 .. Len(to) /\ Position(j, row[j]) > Position(j, to[j])
      BY <1>1, <3>1
    <3>4. Below(row, from) \/ Above(row, to)
      <4> HIDE DEF from, to, bad
      <4> QED
        BY <3>2, <3>3 DEF Below, Above
    <3> QED
      BY <1>2, <2>1, <3>4
  <2>3. \A i \in CkColumns : i \notin bad
    BY <2>2
  <2> QED
    BY <2>1, <2>3 DEF PositionTest, CkColumns
<1> QED
  BY <1>5, <1>6

\* An id is selected if the keys of its row are within the bounds.
LEMMA FilterIsWithin ==
    ASSUME TypesOK, OrderlyTable, table \subseteq Rows, partition_key \in Seq(Strings),
           Len(partition_key) = PkColumnCount,
           NEW start \in Bounds, NEW end \in Bounds, NEW row \in table
    PROVE  DocId(row) \in FilterDocIds(DocIds(table), start, end)
               <=> Within(Keys(row), start, end)
<1>1. row \in Rows
  OBVIOUS
<1>2. /\ Len(DocId(row)) = PkColumnCount + CkColumnCount
      /\ SubSeq(DocId(row), PkColumnCount + 1, Len(DocId(row))) = Keys(row)
  BY <1>1, DocIdParts
<1>3. DocId(row) \in DocIds(table)
  BY DEF DocIds
<1> QED
  BY <1>2, <1>3 DEF FilterDocIds

\* The other side of FilterSound: for a range with one open bound on a descending
\* first column, ck < X or ck > X, filter_doc_ids_by_ck_range selects none of the
\* documents of the range and, but for the rows at the bound, all the others of
\* the partition.
THEOREM DescendingReversed ==
    ASSUME TypesOK, OrderlyTable, table \subseteq Rows, partition_key \in Seq(Strings),
           Len(partition_key) = PkColumnCount, 1 \in descending,
           NEW start \in Bounds, NEW end \in Bounds, NEW bound,
           \/ start.ck_values = << >> /\ end = [ck_values |-> <<bound>>, inclusive |-> FALSE]
           \/ end.ck_values = << >> /\ start = [ck_values |-> <<bound>>, inclusive |-> FALSE]
    PROVE  \A row \in table :
               DocId(row) \in FilterDocIds(DocIds(table), start, end)
                   <=> ~InRange(row, start, end) /\ row[1] # bound
<1> SUFFICES ASSUME NEW row \in table
             PROVE  DocId(row) \in FilterDocIds(DocIds(table), start, end)
                        <=> ~InRange(row, start, end) /\ row[1] # bound
  OBVIOUS
<1>1. row \in Rows /\ 1 \in CkColumns /\ CkColumnCount \in Nat
  BY RangeDeleteAssumption DEF CkColumns
<1>2. DocId(row) \in FilterDocIds(DocIds(table), start, end)
          <=> \A i \in CkColumns : RankTest(i, row, start, end)
  BY <1>1, FilterIsWithin, WithinIsRank DEF Keys
<1>3. \A i \in CkColumns : i <= 1 => i = 1
  BY <1>1 DEF CkColumns
<1>4. ASSUME NEW v \in ValuesOf[types[1]], Rank[v] \in Int
      PROVE  /\ row[1] = v <=> Rank[row[1]] = Rank[v]
             /\ Rank[row[1]] \in Int
  <2>1. Orderly(types[1]) /\ row[1] \in ValuesOf[types[1]] /\ Rank[row[1]] \in Int
    BY <1>1, ColumnTypes DEF OrderlyTable
  <2>2. /\ Rank[row[1]] < Rank[v] \/ Rank[v] < Rank[row[1]] => row[1] # v
        /\ ~(Rank[row[1]] < Rank[v]) /\ ~(Rank[v] < Rank[row[1]]) => row[1] = v
    BY <1>4, <2>1 DEF Orderly
  <2> QED
    BY <1>4, <2>1, <2>2
<1>5. CASE start.ck_values = << >> /\ end = [ck_values |-> <<bound>>, inclusive |-> FALSE]
  <2>1. /\ Len(start.ck_values) = 0 /\ Len(end.ck_values) = 1
        /\ end.ck_values[1] = bound /\ ~end.inclusive
    BY <1>5
  <2>2. start.inclusive
    BY <2>1, BoundShape
  <2>3. bound \in ValuesOf[types[1]] /\ Rank[bound] \in Int
    BY <1>1, <2>1, ColumnTypes
  <2>4. (\A i \in CkColumns : RankTest(i, row, start, end)) <=> Rank[row[1]] < Rank[bound]
    BY <1>1, <1>3, <2>1, <2>2 DEF RankTest, CkColumns
  <2>5. InRange(row, start, end) <=> Position(1, row[1]) < Position(1, bound)
    BY <2>1, <2>2 DEF InRange, Below, Above
  <2>6. Position(1, row[1]) < Position(1, bound) <=> Rank[bound] < Rank[row[1]]
    BY <1>4, <2>3 DEF Position
  <2> QED
    BY <1>2, <1>4, <2>3, <2>4, <2>5, <2>6
<1>6. CASE end.ck_values = << >> /\ start = [ck_values |-> <<bound>>, inclusive |-> FALSE]
  <2>1. /\ Len(end.ck_values) = 0 /\ Len(start.ck_values) = 1
        /\ start.ck_values[1] = bound /\ ~start.inclusive
    BY <1>6
  <2>2. end.inclusive
    BY <2>1, BoundShape
  <2>3. bound \in ValuesOf[types[1]] /\ Rank[bound] \in Int
    BY <1>1, <2>1, ColumnTypes
  <2>4. (\A i \in CkColumns : RankTest(i, row, start, end)) <=> Rank[row[1]] > Rank[bound]
    BY <1>1, <1>3, <2>1, <2>2 DEF RankTest, CkColumns
  <2>5. InRange(row, start, end) <=> Position(1, row[1]) > Position(1, bound)
    BY <2>1, <2>2 DEF InRange, Below, Above
  <2>6. Position(1, row[1]) > Position(1, bound) <=> Rank[row[1]] < Rank[bound]
    BY <1>4, <2>3 DEF Position
  <2> QED
    BY <1>2, <1>4, <2>3, <2>4, <2>5, <2>6
<1> QED
  BY <1>5, <1>6

-----------------------------------------------------------------------------
(* The partition and its documents *)

\* What RowsStayIndexed needs of the states before: the rows are rows of the
\* table's types and the partition key is one of the partition keys.
Inv ==
    /\ TypesOK
    /\ partition_key \in PartitionKeys
    /\ table \subseteq Rows
    /\ RowsStayIndexed

LEMMA RangeKeepsRows ==
    ASSUME Inv, OrderlyTable, descending = {}, NEW start \in Bounds, NEW end \in Bounds,
           NEW row \in table, DocId(row) \in FilterDocIds(index, start, end)
    PROVE  InRange(row, start, end)
<1>1. TypesOK /\ row \in Rows /\ partition_key \in Seq(Strings)
  BY RangeDeleteAssumption DEF Inv
<1>2. /\ Len(DocId(row)) = PkColumnCount + CkColumnCount
      /\ Within(SubSeq(DocId(row), PkColumnCount + 1, Len(DocId(row))), start, end)
  BY DEF FilterDocIds
<1>3. Len(partition_key) = PkColumnCount
  BY <1>1, <1>2, DocIdParts, RangeDeleteAssumption
<1>4. Within(Keys(row), start, end)
  BY <1>1, <1>2, <1>3, DocIdParts
<1> QED
  BY <1>1, <1>4, FilterSound DEF Keys, Upward

LEMMA InvStep ==
    ASSUME Inv, [Next]_vars
    PROVE  Inv'
<1>1. TypesOK /\ table \subseteq Rows /\ partition_key \in Seq(Strings)
  BY RangeDeleteAssumption DEF Inv
<1>2. ASSUME UNCHANGED <<types, descending, partition_key>>
      PROVE  /\ TypesOK' /\ (partition_key \in PartitionKeys)' /\ Rows' = Rows
             /\ OrderlyTable' <=> OrderlyTable
             /\ (descending = {})' <=> descending = {}
             /\ \A row : DocId(row)' = DocId(row)
  BY <1>2 DEF Inv, TypesOK, Rows, OrderlyTable, Orderly, DocId
<1>3. ASSUME UNCHANGED <<types, descending, partition_key>>, table' \subseteq Rows,
             OrderlyTable /\ descending = {} => \A row \in table' : DocId(row) \in index'
      PROVE  Inv'
  BY <1>2, <1>3 DEF Inv, RowsStayIndexed, DocIds
<1>4. OrderlyTable /\ descending = {} => \A row \in table : DocId(row) \in index
  BY DEF Inv, RowsStayIndexed, DocIds
<1>5. CASE UNCHANGED vars
  BY <1>1, <1>3, <1>4, <1>5 DEF vars
<1>6. ASSUME NEW row \in Rows, InsertRow(row)
      PROVE  Inv'
  BY <1>1, <1>3, <1>4, <1>6 DEF InsertRow
<1>7. ASSUME NEW row \in Rows, DeleteRow(row)
      PROVE  Inv'
  <2>1. OrderlyTable /\ descending = {} => \A other \in table' : DocId(other) \in index'
    BY <1>1, <1>4, <1>7, DocIdInjective DEF DeleteRow
  <2> QED
    BY <1>1, <1>3, <1>7, <2>1 DEF DeleteRow
<1>8. ASSUME NEW start \in Bounds, NEW end \in Bounds, DeleteRange(start, end)
      PROVE  Inv'
  <2>1. OrderlyTable /\ descending = {} => \A row \in table' : DocId(row) \in index'
    BY <1>4, <1>8, RangeKeepsRows DEF DeleteRange
  <2> QED
    BY <1>1, <1>3, <1>8, <2>1 DEF DeleteRange
<1> QED
  BY <1>5, <1>6, <1>7, <1>8 DEF Next

\* Documents of rows that ScyllaDB has kept stay in the index, after any
\* sequence of inserts, deletes and range deletes of a table of orderly types that
\* is ascending in all columns.
THEOREM RowsIndexed == Spec => []RowsStayIndexed
<1>1. Init => Inv
  BY DEF Init, Inv, TypesOK, RowsStayIndexed, DocIds
<1>2. Inv /\ [Next]_vars => Inv'
  BY InvStep
<1>3. Inv => RowsStayIndexed
  BY DEF Inv
<1> QED
  BY <1>1, <1>2, <1>3, PTL DEF Spec

\* filter_doc_ids_by_ck_range is exact for simple ranges of a table of orderly types,
\* ascending or descending.
THEOREM RangesExact == Spec => []SimpleRangesExact
<1>1. Init => Inv
  BY DEF Init, Inv, TypesOK, RowsStayIndexed, DocIds
<1>2. Inv /\ [Next]_vars => Inv'
  BY InvStep
<1>3. Inv => SimpleRangesExact
  <2> SUFFICES ASSUME Inv, OrderlyTable, Len(partition_key) = PkColumnCount,
                      NEW start \in Bounds, NEW end \in Bounds, SimpleRange(start, end)
               PROVE  FilterDocIds(DocIds(table), start, end)
                          = DocIds({row \in table : InRange(row, start, end)})
    BY DEF SimpleRangesExact
  <2>1. TypesOK /\ table \subseteq Rows /\ partition_key \in Seq(Strings)
    BY RangeDeleteAssumption DEF Inv
  <2>2. ASSUME NEW row \in table
        PROVE  DocId(row) \in FilterDocIds(DocIds(table), start, end)
                   <=> InRange(row, start, end)
    <3>1. row \in Rows
      BY <2>1
    <3>2. DocId(row) \in FilterDocIds(DocIds(table), start, end)
              <=> Within(Keys(row), start, end)
      BY <2>1, FilterIsWithin
    <3>3. Within(Keys(row), start, end) => InRange(row, start, end)
      BY <2>1, <3>1, FilterSound DEF Keys, SimpleRange
    <3>4. InRange(row, start, end) => Within(Keys(row), start, end)
      BY <2>1, <3>1, FilterComplete
    <3> QED
      BY <3>2, <3>3, <3>4
  <2>3. FilterDocIds(DocIds(table), start, end) \subseteq DocIds(table)
    BY DEF FilterDocIds
  <2> QED
    BY <2>2, <2>3, Zenon DEF DocIds
<1> QED
  BY <1>1, <1>2, <1>3, PTL DEF Spec
=============================================================================
