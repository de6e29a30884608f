---------------------------- MODULE RangeDelete -----------------------------
(***************************************************************************)
(* How a range delete of ScyllaDB is carried over to the index: document   *)
(* ids are key values joined with ':', and commit_range_delete splits the  *)
(* ids of a partition again to find the rows in the range                  *)
(* (ingestor/src/router/core.rs, utils.rs).                                *)
(*                                                                         *)
(* The model follows one partition of a table in ScyllaDB (external) and   *)
(* its documents on the node, one change at a time: what concurrent        *)
(* flushes add to it is Ingestor's subject.                                *)
(*                                                                         *)
(* A string is an atom.  Atoms have a place in the order of strings, the   *)
(* pieces they fall into at ':', and the number they parse to, if any.     *)
(*                                                                         *)
(* Clustering columns may be DESC (testing/cql-queries/init.cql).          *)
(* ScyllaDB's bounds then come in that order; get_table_key_info does not  *)
(* read it, and nothing in the router knows of it.                         *)
(***************************************************************************)
EXTENDS Integers, FiniteSets, SequencesExt

CONSTANTS
    Types,           \* CQL types
    NumberTypes,     \* those compare_cql_values parses
    Values,          \* CQL values
    ValuesOf,        \* the values of a type
    Rank,            \* ScyllaDB's order of the values of a type
    Strings,         \* atoms
    KeyString,       \* cql_value_to_key_string
    Lex,             \* the order of strings
    Pieces,          \* split(':')
    Parsed,          \* parse, or NoParse
    NoParse,
    PartitionKeys,   \* partition keys, as the pieces of their string
    PkColumnCount,   \* partition_key_columns.len()
    CkColumnCount    \* clustering_key_columns.len()

CkColumns == 1 .. CkColumnCount

ASSUME RangeDeleteAssumption ==
    /\ NumberTypes \subseteq Types
    /\ ValuesOf \in [Types -> SUBSET Values]
    /\ Rank \in [Values -> Int]
    /\ KeyString \in [Values -> Strings]
    /\ Lex \in [Strings -> Int]
    /\ Pieces \in [Strings -> Seq(Strings)]
    /\ Parsed \in [Strings -> Int \union {NoParse}]
    /\ NoParse \notin Int
    /\ PartitionKeys \subseteq Seq(Strings)
    /\ PkColumnCount \in Nat \ {0}
    /\ CkColumnCount \in Nat \ {0}

VARIABLES
    types,          \* the types of the clustering columns
    descending,     \* those with CLUSTERING ORDER BY DESC
    partition_key,  \* the partition
    table,          \* its rows in ScyllaDB
    index           \* its document ids on the node

vars == <<types, descending, partition_key, table, index>>

Rows == {row \in [CkColumns -> Values] : \A i \in CkColumns : row[i] \in ValuesOf[types[i]]}

\* A bound names a value for each of the first columns, or for none.
Bounds ==
    {[ck_values |-> SubSeq(row, 1, n), inclusive |-> inclusive] :
         row \in Rows, n \in CkColumns, inclusive \in BOOLEAN}
        \union {[ck_values |-> << >>, inclusive |-> TRUE]}

-----------------------------------------------------------------------------
(* ScyllaDB: rows are ordered lexicographically, every column in its own
   direction, and a bound is a prefix. *)

Position(i, v) == IF i \in descending THEN -Rank[v] ELSE Rank[v]

Below(row, prefix) ==
    \E j \in 1 .. Len(prefix) : /\ Position(j, row[j]) < Position(j, prefix[j])
                                /\ \A i \in 1 .. j - 1 : row[i] = prefix[i]

Above(row, prefix) ==
    \E j \in 1 .. Len(prefix) : /\ Position(j, row[j]) > Position(j, prefix[j])
                                /\ \A i \in 1 .. j - 1 : row[i] = prefix[i]

InRange(row, start, end) ==
    /\ IF start.inclusive THEN ~Below(row, start.ck_values)
                          ELSE Above(row, start.ck_values)
    /\ IF end.inclusive THEN ~Above(row, end.ck_values)
                        ELSE Below(row, end.ck_values)

-----------------------------------------------------------------------------
(* The router *)

\* The id of a row, as the pieces that split(':') finds in it.
DocId(row) ==
    partition_key \o FlattenSeq([i \in CkColumns |-> Pieces[KeyString[row[i]]]])

\* Mutant: numbers are compared as strings.
CompareStrings(a, b, cql_type) == Lex[a] - Lex[b]

\* compare_cql_values: negative for Less, 0 for Equal, positive for Greater.
Compare(a, b, cql_type) ==
    IF cql_type \in NumberTypes /\ NoParse \notin {Parsed[a], Parsed[b]}
    THEN Parsed[a] - Parsed[b]
    ELSE Lex[a] - Lex[b]

\* Mutant: bounds are inclusive whatever the operation says.
WithinInclusive(ck_parts, start, end) ==
    \A i \in CkColumns :
        /\ i <= Len(start.ck_values) =>
               Compare(ck_parts[i], KeyString[start.ck_values[i]], types[i]) >= 0
        /\ i <= Len(end.ck_values) =>
               Compare(ck_parts[i], KeyString[end.ck_values[i]], types[i]) <= 0

\* The loop of filter_doc_ids_by_ck_range over the clustering columns.
Within(ck_parts, start, end) ==
    \A i \in CkColumns :
        /\ i <= Len(start.ck_values) =>
               LET cmp == Compare(ck_parts[i], KeyString[start.ck_values[i]], types[i])
               IN  IF start.inclusive THEN cmp >= 0 ELSE cmp > 0
        /\ i <= Len(end.ck_values) =>
               LET cmp == Compare(ck_parts[i], KeyString[end.ck_values[i]], types[i])
               IN  IF end.inclusive THEN cmp <= 0 ELSE cmp < 0

\* An id that does not split into one part per column is passed over.
FilterDocIds(doc_ids, start, end) ==
    {parts \in doc_ids :
        /\ Len(parts) = PkColumnCount + CkColumnCount
        /\ Within(SubSeq(parts, PkColumnCount + 1, Len(parts)), start, end)}

-----------------------------------------------------------------------------
Init ==
    /\ types \in [CkColumns -> Types]
    /\ descending \in SUBSET CkColumns
    /\ partition_key \in PartitionKeys
    /\ table = {}
    /\ index = {}

InsertRow(row) ==
    /\ table' = table \union {row}
    /\ index' = index \union {DocId(row)}
    /\ UNCHANGED <<types, descending, partition_key>>

DeleteRow(row) ==
    /\ table' = table \ {row}
    /\ index' = index \ {DocId(row)}
    /\ UNCHANGED <<types, descending, partition_key>>

DeleteRange(start, end) ==
    /\ table' = {row \in table : ~InRange(row, start, end)}
    /\ index' = index \ FilterDocIds(index, start, end)
    /\ UNCHANGED <<types, descending, partition_key>>

Next ==
    \/ \E row \in Rows : InsertRow(row)
    \/ \E row \in Rows : DeleteRow(row)
    \/ \E start, end \in Bounds : DeleteRange(start, end)

Spec == Init /\ [][Next]_vars

-----------------------------------------------------------------------------
(* Properties *)

DocIds(rows) == {DocId(row) : row \in rows}

\* A type whose key strings are free of ':' and come back in ScyllaDB's ascending
\* order, parsed if the type is parsed.  Int, bigint, float, double, text without
\* ':', boolean and random UUIDs are such types; timeuuid, blob (as base64), inet
\* and the types that become debug output are not, whatever compare_cql_values
\* says of them.
Orderly(t) ==
    LET place(v) == IF t \in NumberTypes THEN Parsed[KeyString[v]] ELSE Lex[KeyString[v]]
    IN  /\ \A v \in ValuesOf[t] : /\ Pieces[KeyString[v]] = <<KeyString[v]>>
                                  /\ place(v) \in Int
        /\ \A v, w \in ValuesOf[t] : /\ Rank[v] < Rank[w] <=> place(v) < place(w)
                                     /\ v = w <=> place(v) = place(w)

OrderlyTable == \A i \in CkColumns : Orderly(types[i])

\* In a table whose columns are all ascending and of orderly types, a range delete
\* never takes a document whose row ScyllaDB has kept, whatever the bounds, open,
\* closed or of several columns: filter_doc_ids_by_ck_range may leave documents
\* behind but does not go too far.  With a descending column it does.
RowsStayIndexed ==
    OrderlyTable /\ descending = {} => DocIds(table) \subseteq index

\* The bounds ask for one value of a column: c1 = 5.
Pinned(i, start, end) ==
    /\ start.inclusive /\ end.inclusive
    /\ i <= Len(start.ck_values) /\ i <= Len(end.ck_values)
    /\ start.ck_values[i] = end.ck_values[i]

Bounded(i, start, end) == i <= Len(start.ck_values) \/ i <= Len(end.ck_values)

\* Bounds that give direction to ascending columns only.
Upward(start, end) ==
    \A i \in descending : Bounded(i, start, end) => Pinned(i, start, end)

\* Of the columns with a bound all but the last are pinned, and the last one too
\* if it is descending: c1 = 5 AND c2 >= 3 AND c2 <= 7.
SimpleRange(start, end) ==
    /\ \A i \in CkColumns :
           i < Len(start.ck_values) \/ i < Len(end.ck_values) => Pinned(i, start, end)
    /\ Upward(start, end)

\* For these ranges filter_doc_ids_by_ck_range finds exactly the documents of the
\* rows that ScyllaDB deletes, whatever the partition holds, in a table of orderly
\* types, ascending or descending.
SimpleRangesExact ==
    OrderlyTable /\ Len(partition_key) = PkColumnCount =>
        \A start, end \in Bounds : SimpleRange(start, end) =>
            FilterDocIds(DocIds(table), start, end)
                = DocIds({row \in table : InRange(row, start, end)})

\* "Filters a list of document IDs to those whose clustering key falls within the
\* given range bounds": no document outlives the row it was made of, even with all
\* columns ascending.
NoGhosts ==
    OrderlyTable /\ descending = {} /\ Len(partition_key) = PkColumnCount
        => index \subseteq DocIds(table)
=============================================================================
