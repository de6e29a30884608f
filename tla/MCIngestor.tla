----------------------------- MODULE MCIngestor -----------------------------
(***************************************************************************)
(* Instances of Ingestor for TLC.                                          *)
(***************************************************************************)
EXTENDS Ingestor, TLC

CONSTANTS k1, k2, n1, n2, p1, p2, a, b

CdcRow(operation, id, writetime) ==
    [operation |-> operation, id |-> id, writetime |-> writetime]

\* One partition, one node.
OnePartition == [i \in Ids |-> p1]
OneNode == [p \in Partitions |-> n1]

\* Document a in partition p1 on node n1, document b in p2 on n2.
TwoPartitions == (a :> p1) @@ (b :> p2)
TwoNodes == (p1 :> n1) @@ (p2 :> n2)

\* Two consumers fill one buffer, each for a node of its own.
TwoStreams ==
    (k1 :> <<CdcRow("RowInsert", a, 1), CdcRow("RowInsert", a, 2)>>)
        @@ (k2 :> <<CdcRow("PreImage", b, 3), CdcRow("RowDelete", b, 3)>>)

\* One consumer deletes a partition, writes a row of it and deletes a range.
OneStream ==
    (k1 :> <<CdcRow("PartitionDelete", a, 1), CdcRow("RowInsert", b, 2),
             CdcRow("RangeStart", a, 3), CdcRow("RangeEnd", a, 3)>>)
=============================================================================
