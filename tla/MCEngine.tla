------------------------------ MODULE MCEngine ------------------------------
(***************************************************************************)
(* An instance of Engine for TLC.                                          *)
(***************************************************************************)
EXTENDS Engine

CONSTANTS i1, p1, c1, c2

Op(type, writetime) ==
    [op_type |-> type, id |-> i1, partition_key |-> None, writetime |-> writetime,
     cdc_ttl |-> None, payload |-> {}, removed |-> {}, added |-> {}]

\* One document, two cells, in a partition of its own or in p1: upserts that set
\* a cell or remove it again, with no, a negative, a short and a saturating time
\* to live; documents that do not parse; deletes of the document and of either
\* partition; an operation of no known type.
DocOps ==
    {[Op("Upsert", 1) EXCEPT !.partition_key = p1, !.payload = {c1}],
     [Op("Upsert", 1) EXCEPT !.partition_key = p1, !.added = {c2}, !.cdc_ttl = 1],
     [Op("Upsert", 3) EXCEPT !.partition_key = p1, !.added = {c2}, !.cdc_ttl = 9],
     [Op("Upsert", 2) EXCEPT !.removed = {c1}, !.cdc_ttl = -1],
     [Op("Upsert", 2) EXCEPT !.payload = Scalar],
     Op("Upsert", 9),
     Op("Delete", 2),
     [Op("PartitionDelete", 1) EXCEPT !.partition_key = p1],
     Op("PartitionDelete", 2),
     Op("Unspecified", 1)}
=============================================================================
