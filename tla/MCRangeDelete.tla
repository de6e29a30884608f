--------------------------- MODULE MCRangeDelete ----------------------------
(***************************************************************************)
(* Instances of RangeDelete for TLC.  A value is a type and its rank.      *)
(***************************************************************************)
EXTENDS RangeDelete, TLC

CONSTANTS u, w

\* int: "2" and "10", which sort the other way round as strings; text: "a" and
\* "b"; smallint: the debug output "SmallInt(2)" and "SmallInt(10)", which does
\* not parse; keyed: the texts "a" and "a:b".
MCTypes == {"int", "text", "smallint", "keyed"}

MCValues == MCTypes \X {1, 2}

MCValuesOf == [t \in MCTypes |-> {v \in MCValues : v[1] = t}]

MCRank == [v \in MCValues |-> v[2]]

\* Key strings; the two string types share "a".
MCKeyString == [v \in MCValues |-> IF v = <<"keyed", 1>> THEN <<"text", 1>> ELSE v]

MCStrings == MCValues \union {u, w}

MCLex ==
    [s \in MCStrings |->
        IF s \in MCValues THEN IF s[1] \in {"int", "smallint"} THEN -s[2] ELSE s[2]
                          ELSE 0]

MCPieces ==
    [s \in MCStrings |-> IF s = <<"keyed", 2>> THEN <<<<"text", 1>>, <<"text", 2>>>>
                                               ELSE <<s>>]

MCParsed == [s \in MCStrings |-> IF s \in MCValuesOf["int"] THEN s[2] ELSE NoParse]

\* A partition key of one column, without and with a ':'.
MCPartitionKeys == {<<u>>, <<u, w>>}
=============================================================================
