------------------------------- MODULE Engine -------------------------------
(***************************************************************************)
(* The index engine of one node (rust/node/src/engine/core.rs).            *)
(*                                                                         *)
(* A node keeps every document three times over: in the Tantivy writer     *)
(* (committed segments plus pending operations), in the snapshot the       *)
(* reader last loaded, and, while its commit is outstanding, in the        *)
(* uncommitted_docs cache.  Batches, the committer and the pruner exclude  *)
(* each other through the writer lock; reloads of the reader, listings and *)
(* a crash of the process can happen at any time.                          *)
(*                                                                         *)
(* Tantivy is external.  It is modelled by what the engine relies on: a    *)
(* commit atomically publishes all pending operations, a failed commit     *)
(* keeps them pending, and the reader follows a commit with a delay        *)
(* (ReloadPolicy::OnCommitWithDelay).                                      *)
(***************************************************************************)
EXTENDS Integers, Sequences

CONSTANTS
    Ids,            \* document ids (primary keys)
    PartitionKeys,  \* partition keys; an id may stand in for a missing one
    Cells,          \* the columns and collection elements of a document
    Operations,     \* the operations the ingestor may send
    MaxBatch,       \* bound: operations in one IndexBatch request
    ListPartitions, \* the partition keys that ListDocumentIds is asked for
    MaxNow,         \* bound: the clock stops here
    I64Max,         \* i64::MAX
    MicrosPerSec,   \* 1_000_000
    GenerationMod,  \* 2^64, the range of the generation counter
    Scalar,         \* a JSON value that is not an object
    None,           \* an absent optional field
    NoDoc,          \* no document stored
    NoListing       \* no listing in progress

\* Operations arrive over gRPC (IndexOperation in service.proto).
Operation == [op_type       : {"Unspecified", "Upsert", "Delete", "PartitionDelete"},
              id            : Ids,
              partition_key : PartitionKeys \union {None},
              writetime     : Nat,
              cdc_ttl       : Int \union {None},
              payload       : {Scalar} \union SUBSET Cells,
              removed       : SUBSET Cells,
              added         : SUBSET Cells]

\* A JSON object: each cell holds the writetime that set it, 0 if absent.
Object == [Cells -> Nat]

Doc == [partition_key : PartitionKeys,
        body          : Object \union {Scalar},
        expires_at    : Int,
        writetime     : Nat]

Generation == 0 .. GenerationMod - 1

CachedDoc == [stored : Doc, generation : Generation]

Listing == [partition_key : PartitionKeys, seen : SUBSET Ids, due : SUBSET Ids]

ASSUME EngineAssumption ==
    /\ Ids \subseteq PartitionKeys
    /\ Operations \subseteq Operation
    /\ ListPartitions \subseteq PartitionKeys
    /\ MaxBatch \in Nat \ {0}
    /\ MaxNow \in Nat
    /\ I64Max \in Nat
    /\ MicrosPerSec \in Nat \ {0}
    /\ GenerationMod \in Nat \ {0}
    /\ MaxNow < I64Max
    /\ None \notin PartitionKeys \union Int
    /\ Scalar \notin Object
    /\ \A payload \in SUBSET Cells : payload # Scalar
    /\ NoDoc \notin Doc \union CachedDoc
    /\ NoListing \notin Listing

VARIABLES
    index,              \* what the writer holds, pending operations included
    committed,          \* what is on disk: the last successful commit
    searcher,           \* the commit the reader has loaded
    uncommitted_docs,   \* the cache of documents written since their commit
    current_generation, \* the commit counter
    writer,             \* the writer lock: "free", "batch", "evict"
    batch,              \* operations process_batch has still to apply
    processed, skipped, \* the counts of the reply of the running batch
    now,                \* the wall clock
    listing             \* a ListDocumentIds call between its two reads

vars == <<index, committed, searcher, uncommitted_docs, current_generation,
          writer, batch, processed, skipped, now, listing>>

NoDocs == [i \in Ids |-> NoDoc]

-----------------------------------------------------------------------------
(* Documents *)

\* Mutant: the patch replaces the document.
MergeReplaces(a, b, writetime) ==
    IF b = Scalar THEN Scalar
    ELSE [c \in Cells |-> IF c \in b THEN writetime ELSE 0]

\* merge_json: object into object cell by cell, anything else replaces.
MergeJson(a, b, writetime) ==
    IF b = Scalar THEN Scalar
    ELSE [c \in Cells |-> IF c \in b THEN writetime
                          ELSE IF a = Scalar THEN 0 ELSE a[c]]

\* apply_collection_deltas: remove, then add; documents that are no objects
\* are left alone.  A tombstone removes every element of its column.
ApplyCollectionDeltas(doc, op) ==
    IF doc = Scalar THEN Scalar
    ELSE [c \in Cells |-> IF c \in op.added THEN op.writetime
                          ELSE IF c \in op.removed THEN 0 ELSE doc[c]]

ExpiresAt(op) ==
    IF op.cdc_ttl = None THEN I64Max
    ELSE LET ttl_micros == IF op.cdc_ttl > 0 THEN op.cdc_ttl * MicrosPerSec ELSE 0
             expires_at == op.writetime + ttl_micros
         IN  IF expires_at <= I64Max THEN expires_at ELSE I64Max

PartitionKey(op) == IF op.partition_key = None THEN op.id ELSE op.partition_key

\* Mutant: the cache is not consulted.
FindIndexed(id) == searcher[id]

\* find_cached_or_indexed: the cache first, then the reader's snapshot.  Reads of
\* the snapshot succeed here; the code takes one that fails for "no document".
FindCachedOrIndexed(id) ==
    IF uncommitted_docs[id] # NoDoc THEN uncommitted_docs[id].stored
                                    ELSE searcher[id]

SkippedByWritetime(existing, op) ==
    existing # NoDoc /\ existing.writetime >= op.writetime

Upserted(existing, op) ==
    LET base == IF existing = NoDoc THEN [c \in Cells |-> 0] ELSE existing.body
    IN  [partition_key |-> PartitionKey(op),
         body          |-> ApplyCollectionDeltas(
                               MergeJson(base, op.payload, op.writetime), op),
         expires_at    |-> ExpiresAt(op),
         writetime     |-> op.writetime]

\* TantivyDocument::parse_json: a JSON field takes only an object, and an i64
\* field only what fits in it.
Parses(doc) == doc.body # Scalar /\ doc.writetime <= I64Max

\* The documents of a partition.
InPartition(docs, pk) ==
    {i \in Ids : docs[i] # NoDoc /\ docs[i].partition_key = pk}

\* Mutant: the pruner's range begins where it should end.
ExpiresLater(doc) == doc.expires_at > now

\* The pruner's query: expires_at up to and including the present.
Expired(doc) == doc.expires_at <= now

Unexpired(docs) ==
    [i \in Ids |-> IF docs[i] # NoDoc /\ Expired(docs[i]) THEN NoDoc ELSE docs[i]]

\* The running listing after the writer's documents become docs: it still owes
\* the caller the ids that have been stored ever since the call began.
ListingUnder(docs) ==
    IF listing = NoListing THEN NoListing
    ELSE [listing EXCEPT !.due = @ \intersect InPartition(docs, listing.partition_key)]

SetIndex(docs) == index' = docs /\ listing' = ListingUnder(docs)

-----------------------------------------------------------------------------
Init ==
    /\ index = NoDocs
    /\ committed = NoDocs
    /\ searcher = NoDocs
    /\ uncommitted_docs = NoDocs
    /\ current_generation = 0
    /\ writer = "free"
    /\ batch = << >>
    /\ processed = 0
    /\ skipped = 0
    /\ now = 0
    /\ listing = NoListing

(***************************************************************************)
(* process_batch.  The lock is held from the first to the last operation.  *)
(***************************************************************************)

\* Mutant: the operations are processed without the lock.
BatchStartUnlocked ==
    /\ writer = "free"
    /\ \E n \in 1 .. MaxBatch : batch' \in [1 .. n -> Operations]
    /\ UNCHANGED <<index, committed, searcher, uncommitted_docs, writer,
                   current_generation, processed, skipped, now, listing>>

BatchStart ==
    /\ writer = "free"
    /\ writer' = "batch"
    /\ \E n \in 1 .. MaxBatch : batch' \in [1 .. n -> Operations]
    /\ UNCHANGED <<index, committed, searcher, uncommitted_docs,
                   current_generation, processed, skipped, now, listing>>

NextOp == /\ writer = "batch"
          /\ batch # << >>

Counted(done) ==
    /\ batch' = Tail(batch)
    /\ processed' = processed + (IF done THEN 1 ELSE 0)
    /\ skipped' = skipped + (IF done THEN 0 ELSE 1)
    /\ UNCHANGED <<committed, searcher, current_generation, writer, now>>

SkipOp ==
    LET op == Head(batch)
    IN  /\ NextOp
        /\ \/ op.op_type = "Unspecified"
           \/ /\ op.op_type \in {"Upsert", "Delete"}
              /\ SkippedByWritetime(FindCachedOrIndexed(op.id), op)
        /\ Counted(FALSE)
        /\ UNCHANGED <<index, uncommitted_docs, listing>>

\* The cache is filled before the document is parsed, so a document that does
\* not parse is deleted from the index and stays in the cache.
Upsert ==
    LET op       == Head(batch)
        existing == FindCachedOrIndexed(op.id)
        doc      == Upserted(existing, op)
    IN  /\ NextOp
        /\ op.op_type = "Upsert"
        /\ ~SkippedByWritetime(existing, op)
        /\ uncommitted_docs' = [uncommitted_docs EXCEPT ![op.id] =
                [stored |-> doc, generation |-> current_generation]]
        /\ SetIndex([index EXCEPT ![op.id] = IF Parses(doc) THEN doc ELSE NoDoc])
        /\ Counted(Parses(doc))

\* Mutant: the old document is deleted only after the new one has been added.
AddDocumentFailsFirst ==
    LET op       == Head(batch)
        existing == FindCachedOrIndexed(op.id)
        doc      == Upserted(existing, op)
    IN  /\ NextOp
        /\ op.op_type = "Upsert"
        /\ ~SkippedByWritetime(existing, op)
        /\ Parses(doc)
        /\ uncommitted_docs' = [uncommitted_docs EXCEPT ![op.id] =
                [stored |-> doc, generation |-> current_generation]]
        /\ writer' = "free"
        /\ batch' = << >>
        /\ processed' = 0
        /\ skipped' = 0
        /\ UNCHANGED <<index, committed, searcher, current_generation, now, listing>>

\* add_document returns an error: the `?` leaves the loop, and the caller gets
\* an error instead of a reply.
AddDocumentFails ==
    LET op       == Head(batch)
        existing == FindCachedOrIndexed(op.id)
        doc      == Upserted(existing, op)
    IN  /\ NextOp
        /\ op.op_type = "Upsert"
        /\ ~SkippedByWritetime(existing, op)
        /\ Parses(doc)
        /\ uncommitted_docs' = [uncommitted_docs EXCEPT ![op.id] =
                [stored |-> doc, generation |-> current_generation]]
        /\ SetIndex([index EXCEPT ![op.id] = NoDoc])
        /\ writer' = "free"
        /\ batch' = << >>
        /\ processed' = 0
        /\ skipped' = 0
        /\ UNCHANGED <<committed, searcher, current_generation, now>>

Delete ==
    LET op == Head(batch)
    IN  /\ NextOp
        /\ op.op_type = "Delete"
        /\ ~SkippedByWritetime(FindCachedOrIndexed(op.id), op)
        /\ SetIndex([index EXCEPT ![op.id] = NoDoc])
        /\ uncommitted_docs' = [uncommitted_docs EXCEPT ![op.id] = NoDoc]
        /\ Counted(TRUE)

\* Mutant: the writer is given the id instead of the partition key.
PartitionDeleteOfId ==
    LET op == Head(batch)
    IN  /\ NextOp
        /\ op.op_type = "PartitionDelete"
        /\ SetIndex([index EXCEPT ![op.id] = NoDoc])
        /\ uncommitted_docs' = [uncommitted_docs EXCEPT ![op.id] = NoDoc]
        /\ Counted(TRUE)

PartitionDelete ==
    LET op == Head(batch)
        pk == PartitionKey(op)
    IN  /\ NextOp
        /\ op.op_type = "PartitionDelete"
        /\ SetIndex([i \in Ids |-> IF i \in InPartition(index, pk) THEN NoDoc
                                                                   ELSE index[i]])
        /\ uncommitted_docs' =
               [i \in Ids |->
                   IF /\ uncommitted_docs[i] # NoDoc
                      /\ uncommitted_docs[i].stored.partition_key = pk
                   THEN NoDoc ELSE uncommitted_docs[i]]
        /\ Counted(TRUE)

BatchEnd ==
    /\ writer = "batch"
    /\ batch = << >>
    /\ writer' = "free"
    /\ processed' = 0
    /\ skipped' = 0
    /\ UNCHANGED <<index, committed, searcher, uncommitted_docs,
                   current_generation, batch, now, listing>>

-----------------------------------------------------------------------------
\* Mutant: nothing cached, nothing to commit; pending deletes are forgotten.
CommitOkIfCached ==
    /\ writer = "free"
    /\ uncommitted_docs # NoDocs
    /\ writer' = "evict"
    /\ committed' = index
    /\ current_generation' = (current_generation + 1) % GenerationMod
    /\ UNCHANGED <<index, searcher, uncommitted_docs, batch, processed,
                   skipped, now, listing>>

(***************************************************************************)
(* The committer.  Each round tries the lock without waiting; the commit,  *)
(* the counter and the eviction happen under it, but a listing, which      *)
(* takes no lock, can read between the commit and the eviction.            *)
(***************************************************************************)
CommitOk ==
    /\ writer = "free"
    /\ writer' = "evict"
    /\ committed' = index
    /\ current_generation' = (current_generation + 1) % GenerationMod
    /\ UNCHANGED <<index, searcher, uncommitted_docs, batch, processed,
                   skipped, now, listing>>

\* The value fetch_add returned.
CommittedGen == (current_generation + GenerationMod - 1) % GenerationMod

EvictCommitted ==
    /\ writer = "evict"
    /\ writer' = "free"
    /\ uncommitted_docs' =
           [i \in Ids |->
               IF /\ uncommitted_docs[i] # NoDoc
                  /\ uncommitted_docs[i].generation <= CommittedGen
               THEN NoDoc ELSE uncommitted_docs[i]]
    /\ UNCHANGED <<index, committed, searcher, current_generation, batch,
                   processed, skipped, now, listing>>

\* Mutant: the cache is evicted after a failed commit, too.
CommitFailsEvicts ==
    /\ writer = "free"
    /\ writer' = "evict"
    /\ current_generation' = (current_generation + 1) % GenerationMod
    /\ UNCHANGED <<index, committed, searcher, uncommitted_docs, batch,
                   processed, skipped, now, listing>>

\* fetch_sub wraps around at zero.
CommitFails ==
    /\ writer = "free"
    /\ current_generation' = (current_generation + GenerationMod - 1) % GenerationMod
    /\ UNCHANGED <<index, committed, searcher, uncommitted_docs, writer, batch,
                   processed, skipped, now, listing>>

(***************************************************************************)
(* The pruner deletes what has expired and commits; its commit may fail.   *)
(* It touches neither the cache nor the generation counter.                *)
(***************************************************************************)
Prune ==
    /\ writer = "free"
    /\ SetIndex(Unexpired(index))
    /\ committed' \in {Unexpired(index), committed}
    /\ UNCHANGED <<searcher, uncommitted_docs, current_generation, writer,
                   batch, processed, skipped, now>>

\* The reader follows the last commit, some time after it.
Reload ==
    /\ searcher # committed
    /\ searcher' = committed
    /\ UNCHANGED <<index, committed, uncommitted_docs, current_generation,
                   writer, batch, processed, skipped, now, listing>>

Tick ==
    /\ now < MaxNow
    /\ now' = now + 1
    /\ UNCHANGED <<index, committed, searcher, uncommitted_docs,
                   current_generation, writer, batch, processed, skipped, listing>>

-----------------------------------------------------------------------------
\* Mutant: entries of earlier generations are taken to be committed.
CachedIdsOfGeneration(pk) ==
    {i \in Ids : /\ uncommitted_docs[i] # NoDoc
                 /\ uncommitted_docs[i].stored.partition_key = pk
                 /\ uncommitted_docs[i].generation = current_generation}

(***************************************************************************)
(* list_document_ids_by_partition_key reads the cache, then the reader's   *)
(* snapshot.  `due` is no program state: it is what a listing must hold.   *)
(***************************************************************************)
CachedIds(pk) == {i \in Ids : /\ uncommitted_docs[i] # NoDoc
                              /\ uncommitted_docs[i].stored.partition_key = pk}

ListBegin ==
    /\ listing = NoListing
    /\ \E pk \in ListPartitions :
           listing' = [partition_key |-> pk,
                       seen          |-> CachedIds(pk),
                       due           |-> InPartition(index, pk)]
    /\ UNCHANGED <<index, committed, searcher, uncommitted_docs,
                   current_generation, writer, batch, processed, skipped, now>>

\* The ids a listing that reads the snapshot now returns.  The search succeeds
\* here; the code takes one that fails for an empty snapshot.
ListedIds == listing.seen \union InPartition(searcher, listing.partition_key)

ListEnd ==
    /\ listing # NoListing
    /\ listing' = NoListing
    /\ UNCHANGED <<index, committed, searcher, uncommitted_docs,
                   current_generation, writer, batch, processed, skipped, now>>

(***************************************************************************)
(* A crash, or ctrl-c, at any point, and Engine::new on the same directory *)
(* afterwards: what was not committed is gone.                             *)
(***************************************************************************)
Restart ==
    /\ index' = committed
    /\ searcher' = committed
    /\ uncommitted_docs' = NoDocs
    /\ current_generation' = 0
    /\ writer' = "free"
    /\ batch' = << >>
    /\ processed' = 0
    /\ skipped' = 0
    /\ listing' = NoListing
    /\ UNCHANGED <<committed, now>>

ProcessOp == SkipOp \/ Upsert \/ Delete \/ PartitionDelete

Next ==
    \/ BatchStart
    \/ SkipOp
    \/ Upsert
    \/ AddDocumentFails
    \/ Delete
    \/ PartitionDelete
    \/ BatchEnd
    \/ CommitOk
    \/ EvictCommitted
    \/ CommitFails
    \/ Prune
    \/ Reload
    \/ Tick
    \/ ListBegin
    \/ ListEnd
    \/ Restart

Spec == Init /\ [][Next]_vars

\* What the runtime guarantees: a batch that holds the lock runs on, tokio's
\* intervals keep ticking, and Tantivy's watcher notices a commit.  A tick that
\* finds the lock taken does nothing, so the committer is only weakly fair, and
\* nothing at all is said of the pruner, whose ticks coincide with the
\* committer's.
FairSpec ==
    /\ Spec
    /\ WF_vars(ProcessOp) /\ WF_vars(BatchEnd)
    /\ WF_vars(CommitOk) /\ WF_vars(EvictCommitted)
    /\ WF_vars(Reload) /\ WF_vars(Tick)

-----------------------------------------------------------------------------
(* Invariants *)

StoredDocs == [Ids -> Doc \union {NoDoc}]

\* The types of the variables; operations are pending only under the lock.
TypeOK ==
    /\ index \in StoredDocs
    /\ committed \in StoredDocs
    /\ searcher \in StoredDocs
    /\ uncommitted_docs \in [Ids -> CachedDoc \union {NoDoc}]
    /\ current_generation \in Generation
    /\ writer \in {"free", "batch", "evict"}
    /\ batch \in Seq(Operations)
    /\ writer # "batch" => batch = << >>
    /\ processed \in Nat
    /\ skipped \in Nat
    /\ now \in 0 .. MaxNow
    /\ listing \in Listing \union {NoListing}

\* A document leaves the cache only when a commit holds it: whatever the writer
\* holds and the cache does not is on disk as it stands.  This is what the
\* generations and the order "commit, then evict" of spawn_committer are for,
\* through failed commits, a wrapped counter and prunes between the two.
CacheCoversUncommitted ==
    \A i \in Ids : uncommitted_docs[i] = NoDoc /\ index[i] # NoDoc
                       => committed[i] = index[i]

\* The cache never contradicts the writer: when process_batch, the pruner and
\* the committer have left both with a document for an id, it is the same one.
CacheMirrorsIndex ==
    \A i \in Ids : uncommitted_docs[i] # NoDoc /\ index[i] # NoDoc
                       => uncommitted_docs[i].stored = index[i]

\* The reader has loaded the last commit.
ReaderCaughtUp == searcher = committed

\* list_document_ids_by_partition_key, for a reader that has caught up: a
\* listing that reads the snapshot now returns every document that has been in
\* the partition ever since the listing read the cache, whatever was committed
\* and evicted in between.
ListingComplete ==
    listing # NoListing /\ ReaderCaughtUp => listing.due \subseteq ListedIds

-----------------------------------------------------------------------------
(* Action properties.  A step that advances the reply's counts is process_batch
   done with Head(batch). *)

OpDone == processed' + skipped' = processed + skipped + 1

TargetsDoc(op) == op.op_type \in {"Upsert", "Delete"} /\ index[op.id] # NoDoc

Touched(op) == op.added \union op.removed
                   \union (IF op.payload = Scalar THEN Cells ELSE op.payload)

OlderIgnored(op) ==
    TargetsDoc(op) /\ op.writetime < index[op.id].writetime
        => index'[op.id] = index[op.id]

\* "If incoming_writetime < stored_writetime, the operation is ignored"
\* (service.proto) holds of upserts and deletes that meet a reader that has
\* caught up, whether the stored document is cached, evicted or only on disk.
OlderIgnoredWhenCaughtUp ==
    [][OpDone /\ ReaderCaughtUp => OlderIgnored(Head(batch))]_vars

\* The same without the premise, as service.proto states it.
OlderAlwaysIgnored == [][OpDone => OlderIgnored(Head(batch))]_vars

\* An upsert merges onto the latest document: with the reader caught up, the
\* cells it does not mention keep the values the writer's document had.
UpsertKeepsOtherCells ==
    [][OpDone /\ ReaderCaughtUp
         => \A i \in Ids : index[i] # NoDoc /\ index'[i] # NoDoc
                => \A c \in Cells \ Touched(Head(batch)) :
                       index'[i].body[c] = index[i].body[c]]_vars

\* A "hard delete (Tombstone)" is final: a document that the writer and the
\* cache have both dropped comes back only with the cells of the upsert that
\* brings it back.
DeletedCellsStayDeleted ==
    [][OpDone => \A i \in Ids :
           index[i] = NoDoc /\ uncommitted_docs[i] = NoDoc /\ index'[i] # NoDoc
           => \A c \in Cells : index'[i].body[c] \in {0, Head(batch).writetime}]_vars

-----------------------------------------------------------------------------
(* Refinement *)

Store == INSTANCE DocumentStore
             WITH inbox <- batch, store <- index, durable <- committed, visible <- searcher

\* The engine keeps the promises of DocumentStore: process_batch under its lock,
\* the cache, the committer's generations, the pruner and a restart at any point
\* add up to a store of the latest versions, of which commits make one state
\* after the other durable.
ImplementsStore == Store!Spec

-----------------------------------------------------------------------------
(* Liveness *)

Quiet == writer # "batch"

\* Once batches stop, the reader comes to show exactly what the writer holds:
\* the committer's rounds commit deletes as well as documents, through failed
\* commits, prunes and restarts.
VisibleOnceQuiet == <>[]Quiet => []<>(searcher = index)

\* Once batches stop, no expired document outlives the pruner.  The pruner's
\* 50 s are a multiple of the committer's 5 s: both try the lock at the same
\* instants, and the pruner gets to run only if it does not lose that race for
\* ever, which the premise says.
PrunedOnceQuiet ==
    <>[]Quiet /\ SF_vars(Prune)
        => []<>(\A i \in Ids : index[i] # NoDoc => index[i].expires_at > now)
=============================================================================
