----------------------------- MODULE Documents ------------------------------
(***************************************************************************)
(* The way of one row's changes into its document: the CDC log, the        *)
(* ingestor's serialisation of its rows (ingestor/src/router/utils.rs,     *)
(* route_forward in router/core.rs), delivery with lost replies, discarded *)
(* batches and replays, and process_batch's merge on the node              *)
(* (node/src/engine/core.rs) with its commits and crashes.                 *)
(*                                                                         *)
(* The concurrency inside the ingestor and inside the engine is the        *)
(* subject of Ingestor and Engine.  Here rows arrive in the order of the   *)
(* log, and the node reads its latest document, as Engine shows it does    *)
(* once its reader has caught up.                                          *)
(*                                                                         *)
(* External: ScyllaDB, which applies a change to a row and logs what it    *)
(* did, with a PostImage where the table asks for one.                     *)
(***************************************************************************)
EXTENDS Integers, SequencesExt

CONSTANTS
    Scalars, FrozenMaps, Sets, Maps, \* the columns, by the kind of their type
    Atoms,           \* values of scalars, elements of sets, keys of maps
    Unrepresentable, \* the floats without a JSON number: NaN, the infinities
    Statements,      \* the changes clients make to the row
    MaxStatements,   \* bound: changes in one behaviour
    PostImages,      \* whether the table's CDC options ask for PostImages
    TicksPerMicro,   \* the ticks of a timeuuid in a microsecond
    Null,            \* no value in a CDC column
    JsonNull,        \* JSON's null
    Missing,         \* no such field in a JSON object
    NoDoc            \* no document

Collections == Sets \union Maps  \* the columns CDC describes by deltas

Columns == Scalars \union FrozenMaps \union Collections

\* The values of a column in CQL; maps are told apart by their keys alone.
Cql(c) == IF c \in Scalars THEN Atoms ELSE {v \in SUBSET Atoms : IsFiniteSet(v)}

\* What a CDC row says of a column: cdc$deleted_<c>, the column itself and
\* cdc$deleted_elements_<c>.
Change(c) == [deleted          : BOOLEAN,
              value            : Cql(c) \union {Null},
              deleted_elements : SUBSET Atoms]

Changes == {changes \in [Columns -> UNION {Change(c) : c \in Columns}] :
               \A c \in Columns : changes[c] \in Change(c)}

Unchanged == [deleted |-> FALSE, value |-> Null, deleted_elements |-> {}]

Operation == {"RowInsert", "RowUpdate", "RowDelete"}

\* A row of the CDC log.
LogRow == [operation : Operation \union {"PostImage"}, time : Nat, changes : Changes]

\* JSON, as far as documents have it.
Arrays == [array : Seq(Atoms \union {JsonNull})]
Objects == [object : SUBSET Atoms]
Json == Atoms \union {JsonNull} \union Arrays \union Objects

ASSUME DocumentsAssumption ==
    /\ Scalars \intersect FrozenMaps = {} /\ Scalars \intersect Collections = {}
    /\ FrozenMaps \intersect Collections = {} /\ Sets \intersect Maps = {}
    /\ Unrepresentable \subseteq Atoms
    /\ Statements \subseteq [operation : Operation, changes : Changes]
    /\ MaxStatements \in Nat
    /\ PostImages \in BOOLEAN
    /\ TicksPerMicro \in Nat \ {0}

\* The values that stand for the absence of one are not among the others.
ASSUME AbsenceAssumption ==
    /\ Null \notin Json /\ \A v \in SUBSET Atoms : v # Null
    /\ JsonNull \notin Atoms
    /\ Missing \notin Json
    /\ \A v \in Atoms \union {JsonNull} : v \notin Arrays \union Objects
    /\ NoDoc \notin [Columns -> Json \union {Missing}]

VARIABLES
    row,       \* the row in ScyllaDB
    time,      \* the cdc$time of the latest change, in ticks
    log,       \* the CDC log
    next,      \* the log row the ingestor delivers next
    saved,     \* the saved progress of the CDC reader, 0 if there is none
    index,     \* the node's document
    committed  \* the document of the last commit

vars == <<row, time, log, next, saved, index, committed>>

Upto(n) == 1 .. n

\* A document, and the log rows it is made of (`from`, for the properties).
Stored(doc, writetime, from) == [doc |-> doc, writetime |-> writetime, from |-> from]

-----------------------------------------------------------------------------
(* ScyllaDB *)

NoRow == [c \in Columns |-> IF c \in Collections THEN {} ELSE Null]

\* A deleted column loses its elements before those of the change are added.
ChangedColumn(c, old, change) ==
    IF c \in Collections
    THEN ((IF change.deleted THEN {} ELSE old) \ change.deleted_elements)
             \union (IF change.value = Null THEN {} ELSE change.value)
    ELSE IF change.deleted \/ change.value # Null THEN change.value ELSE old

Changed(r, s) ==
    IF s.operation = "RowDelete" THEN NoRow
    ELSE [c \in Columns |-> ChangedColumn(c, r[c], s.changes[c])]

\* A column is null without a value; a collection also without elements.
IsNull(c, value) == value = Null \/ (c \in Collections /\ value = {})

\* A PostImage has the columns that are not null.
PostImage(r, t) ==
    [operation |-> "PostImage", time |-> t,
     changes   |-> [c \in Columns |->
                       [Unchanged EXCEPT !.value = IF IsNull(c, r[c]) THEN Null ELSE r[c]]]]

\* Changes may fall into the same microsecond; a PostImage has the cdc$time of
\* the change before it.
Write ==
    \E s \in Statements, dt \in 1 .. TicksPerMicro :
        LET delta == [operation |-> s.operation, time |-> time + dt, changes |-> s.changes]
        IN  /\ Cardinality({n \in DOMAIN log : log[n].operation # "PostImage"}) < MaxStatements
            /\ row' = Changed(row, s)
            /\ time' = time + dt
            /\ log' = log \o (IF PostImages /\ s.operation # "RowDelete"
                              THEN <<delta, PostImage(row', time')>> ELSE <<delta>>)
            /\ UNCHANGED <<next, saved, index, committed>>

-----------------------------------------------------------------------------
(* Serialisation *)

AtomToJson(a) == IF a \in Unrepresentable THEN JsonNull ELSE a

\* cql_to_json: sets become arrays, maps objects.
CqlToJson(c, value) ==
    IF c \in Scalars THEN AtomToJson(value)
    ELSE IF c \in Sets THEN LET elements == SetToSeq(value)
                            IN  [array |-> [i \in DOMAIN elements |-> AtomToJson(elements[i])]]
    ELSE [object |-> value]

NoDelta == [tombstoned |-> FALSE, added |-> Null, removed |-> {}]

\* The fields of the payload; a column without a value is left out.
Payload(r, columns) ==
    [c \in Columns |-> IF c \in columns /\ r.changes[c].value # Null
                       THEN CqlToJson(c, r.changes[c].value) ELSE Missing]

\* serialize_cdc_row: non-frozen collections as deltas, the rest as payload.
\* The cdc$deleted_ flag of other columns is not looked at.
SerializeCdcRow(r) ==
    [payload |-> Payload(r, Columns \ Collections),
     deltas  |-> [c \in Collections |->
                     [tombstoned |-> r.changes[c].deleted,
                      added      |-> IF r.changes[c].value = Null THEN Null
                                     ELSE CqlToJson(c, r.changes[c].value),
                      removed    |-> {AtomToJson(a) : a \in r.changes[c].deleted_elements}]]]

\* Mutant: collections are left out of a PostImage's payload.
SerializePostimageScalars(r) ==
    [payload |-> Payload(r, Columns \ Collections),
     deltas  |-> [c \in Collections |-> NoDelta]]

\* serialize_postimage_to_json: every column with a value, no deltas.
SerializePostimageToJson(r) ==
    [payload |-> Payload(r, Columns), deltas |-> [c \in Collections |-> NoDelta]]

\* route_forward's choice between the two.
Serialized(r) == IF r.operation = "PostImage" THEN SerializePostimageToJson(r)
                                               ELSE SerializeCdcRow(r)

\* extract_writetime_from_timeuuid: whole microseconds.
Writetime(r) == r.time \div TicksPerMicro

-----------------------------------------------------------------------------
(* process_batch *)

IsArray(json) == json \in Arrays
IsObject(json) == json \in Objects

\* merge_json on a field: object into object key by key, else the patch wins.
MergeField(old, patch) ==
    IF patch = Missing THEN old
    ELSE IF IsObject(old) /\ IsObject(patch)
         THEN [object |-> old.object \union patch.object]
    ELSE patch

MergeJson(doc, patch) == [c \in Columns |-> MergeField(doc[c], patch[c])]

Retain(elements, removed) ==
    FoldLeft(LAMBDA acc, e : IF e \in removed THEN acc ELSE Append(acc, e),
             << >>, elements)

PushIfNew(elements, e) == IF Contains(elements, e) THEN elements ELSE Append(elements, e)

\* Mutant: the added elements are pushed as one.
PushWhole(elements, added) == Append(elements, [array |-> added])

PushNew(elements, added) == FoldLeft(PushIfNew, elements, added)

\* Mutant: the tombstone takes the added elements, too.
ClearedLast(old, delta) ==
    IF delta = NoDelta THEN old
    ELSE IF delta.tombstoned \/ ~IsArray(old) THEN [array |-> << >>]
    ELSE LET kept == Retain(old.array, delta.removed)
         IN  [array |-> IF IsArray(delta.added) THEN PushNew(kept, delta.added.array)
                                                ELSE kept]

\* apply_collection_deltas on a column: clear, remove, add.  Added elements that
\* do not parse as an array are passed over.
ApplyDelta(old, delta) ==
    IF delta = NoDelta THEN old
    ELSE LET elements == IF IsArray(old) /\ ~delta.tombstoned THEN old.array ELSE << >>
             kept     == Retain(elements, delta.removed)
         IN  [array |-> IF IsArray(delta.added) THEN PushNew(kept, delta.added.array)
                                                ELSE kept]

ApplyCollectionDeltas(doc, deltas) ==
    [c \in Columns |-> IF c \in Collections THEN ApplyDelta(doc[c], deltas[c]) ELSE doc[c]]

EmptyObject == [c \in Columns |-> Missing]

Upserted(stored, op) ==
    ApplyCollectionDeltas(
        MergeJson(IF stored.doc = NoDoc THEN EmptyObject ELSE stored.doc, op.payload),
        op.deltas)

Skipped(stored, writetime) == stored.doc # NoDoc /\ stored.writetime >= writetime

\* The log rows a document stands for once row n has been applied to it.  A row
\* from before a delete that the node has forgotten starts anew.
FromWith(from, n) ==
    IF log[n].operation = "RowDelete" THEN Upto(n)
    ELSE {n} \union (IF \A k \in from : k < n THEN from ELSE {})

\* process_batch for log row n.
Applied(stored, n) ==
    LET r == log[n]
    IN  IF Skipped(stored, Writetime(r)) THEN stored
        ELSE IF r.operation = "RowDelete" THEN Stored(NoDoc, 0, FromWith(stored.from, n))
        ELSE Stored(Upserted(stored, Serialized(r)), Writetime(r), FromWith(stored.from, n))

-----------------------------------------------------------------------------
Init ==
    /\ row = NoRow
    /\ time = TicksPerMicro
    /\ log = << >>
    /\ next = 1
    /\ saved = 0
    /\ index = Stored(NoDoc, 0, {})
    /\ committed = index

\* The node applies the row.  When its reply is lost, the row is sent again.
Deliver ==
    /\ next <= Len(log)
    /\ index' = Applied(index, next)
    /\ next' \in {next, next + 1}
    /\ UNCHANGED <<row, time, log, saved, committed>>

\* The ingestor gives the row up after its last attempt, or dies with the row in
\* its buffer; either way the reader counts the row as done.
Discard ==
    /\ next <= Len(log)
    /\ next' = next + 1
    /\ UNCHANGED <<row, time, log, saved, index, committed>>

\* The CDC reader saves its progress at intervals.
SaveProgress ==
    /\ saved' = next
    /\ UNCHANGED <<row, time, log, next, index, committed>>

\* It resumes there or, without saved progress, at the present.
IngestorRestart ==
    /\ next' = IF saved = 0 THEN Len(log) + 1 ELSE saved
    /\ UNCHANGED <<row, time, log, saved, index, committed>>

Commit ==
    /\ committed' = index
    /\ UNCHANGED <<row, time, log, next, saved, index>>

\* Operations that were acknowledged and not committed are gone.
NodeRestart ==
    /\ index' = committed
    /\ UNCHANGED <<row, time, log, next, saved, committed>>

Next ==
    \/ Write
    \/ Deliver
    \/ Discard
    \/ SaveProgress
    \/ IngestorRestart
    \/ Commit
    \/ NodeRestart

Spec == Init /\ [][Next]_vars

-----------------------------------------------------------------------------
(* Properties *)

StoredOK(stored) ==
    /\ stored.doc \in [Columns -> Json \union {Missing}] \union {NoDoc}
    /\ stored.writetime \in Nat
    /\ stored.from \subseteq DOMAIN log

\* The types of the variables: positions stay inside the log, and every field of
\* a document is JSON of a kind that serialisation and merge can make.
TypeOK ==
    /\ DOMAIN row = Columns
    /\ \A c \in Columns : row[c] \in Cql(c) \union {Null}
    /\ time \in Nat
    /\ log \in Seq(LogRow)
    /\ next \in 1 .. Len(log) + 1
    /\ saved \in 0 .. Len(log) + 1
    /\ StoredOK(index)
    /\ StoredOK(committed)

Deltas == {n \in DOMAIN log : log[n].operation # "PostImage"}

\* The node has applied every change, in whatever number of attempts.
Complete == Deltas \subseteq index.from

RowDeleted == log = << >> \/ Last(log).operation = "RowDelete"

Elements(json) ==
    IF IsArray(json) THEN ToSet(json.array) ELSE IF IsObject(json) THEN json.object ELSE {}

\* A field shows a value of ScyllaDB.
Shows(json, c, value) ==
    /\ c \in Scalars => json = AtomToJson(value)
    /\ c \in Sets => Elements(json) = {AtomToJson(a) : a \in value}
    /\ c \in FrozenMaps => value \subseteq Elements(json)

\* cql_to_json makes all floats without a JSON number the same null, so the
\* removal of one takes the others along.
RemovesUnrepresentable(c) ==
    \E n \in Deltas : log[n].changes[c].deleted_elements \intersect Unrepresentable # {}

\* serialize_cdc_row, the deltas and process_batch's merge keep the document in
\* step with the row: after every sequence of inserts, updates, element
\* additions, removals, overwrites and deletes, sent once or several times,
\* with crashes and replays in between, a document made of all changes has the
\* row's scalars and frozen maps that are not null and its sets, with no element
\* twice, and there is none for a deleted row.  The exception is a set some
\* removal took a NaN or an infinity from.
DocumentFollowsRow ==
    Complete =>
        /\ RowDeleted <=> index.doc = NoDoc
        /\ ~RowDeleted => \A c \in Columns :
               /\ row[c] # Null /\ ~RemovesUnrepresentable(c) => Shows(index.doc[c], c, row[c])
               /\ c \in Sets /\ IsArray(index.doc[c]) => IsInjective(index.doc[c].array)

\* A PostImage makes up for whatever was discarded or lost in a crash before it,
\* as far as columns with a value go: when the log's last row is a PostImage and
\* the node has applied it, because its own delta never got there, the
\* document shows the row.  serialize_postimage_to_json carries the full state,
\* and merging it replaces what the document had.
PostImageRestores ==
    log # << >> /\ Last(log).operation = "PostImage" /\ Len(log) \in index.from =>
        \A c \in Columns : ~IsNull(c, row[c]) => Shows(index.doc[c], c, row[c])

\* "Delta operations for non-frozen collection columns (sets, lists, maps)"
\* (service.proto): map columns follow the row, too.
MapsFollowRow ==
    Complete /\ ~RowDeleted => \A c \in Maps : Elements(index.doc[c]) = row[c]
=============================================================================
