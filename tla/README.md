# tantylla, specified

Tantylla keeps a full-text index of ScyllaDB tables.  Changes flow one way and
queries the other:

    ScyllaDB --CDC log--> ingestor --IndexBatch, ListDocumentIds--> node(s)
    client --HTTP--> gateway --Search--> node(s)

This directory holds TLA+ models of the parts of the system whose behaviour
depends on order, time and failure, the TLC runs that check them, and proofs,
checked by TLAPS, of the properties that matter most.

    tlc -workers 2 -config MCEngine.cfg MCEngine          # one run
    tlapm GatewayProofs.tla                               # the proofs of a module

`PROJECT.json` lists the runs, the source lines behind every definition, the
mutants that show each property can fail, the hazards and the findings.

## 1. Inventory

| part | state | operations | what makes it correct |
|---|---|---|---|
| Index engine, `node/src/engine/core.rs` | the Tantivy writer behind a lock, the reader's snapshot, the cache `uncommitted_docs`, the commit counter `current_generation` | `process_batch`, the committer (5 s), the pruner (50 s), the reader's reload, `list_document_ids_by_partition_key`, `search`, `Engine::new` | the newest writetime wins per document, merges lose no column, deletes are final, what was written becomes visible, what has expired goes away, listings are complete |
| Node service, `node/src/service/core.rs`, `main.rs` | none | `index_batch`, `search`, `list_document_ids` | thin wrappers of the engine |
| Batch service, `ingestor/src/batch/service.rs` | one buffer shared by all consumers, the backpressure flag | `add`, `flush`, `send_batch_with_retry`, the ticker (500 ms) | nothing accepted is dropped silently, nothing is sent by two flushes, the buffer is bounded, what is buffered gets sent |
| Consumers and router, `ingestor/src/cdc`, `router/core.rs`, `router/common.rs` | `pending_range_start` per consumer | `consume_cdc`, `route_forward`, `commit_range_delete` | order per document, both bounds of a range delete meet, a range delete sees what was written before it |
| Ingestor process, `ingestor/src/main.rs` | the CDC reader's saved progress | start, ctrl-c, end of the reader | a row the saved progress covers has reached its node |
| Row serialisation, `router/utils.rs` | none | `serialize_cdc_row`, id and partition-key strings, `compare_cql_values`, `get_target_node_id` | a document follows its row through collection updates; ids are unique; a clustering range selects what ScyllaDB would delete |
| Search on a node, `node/src/engine/core.rs` | none | the expansion of bare queries, the rewriting of prefix and fuzzy clauses, `search`, grouping, facets | a document is found if and only if it is what the query means |
| Gateway, `gateway/src` | none | `scatter_gather`, paging, facets | a page of the merged result is the page one big node would return |
| Test harness, benchmarks, logging, generated code | | | not part of the system's own logic |

How they interact.  A consumer task calls `route_forward`, which puts a
serialised `BatchItem` into the shared buffer; whoever fills the buffer, the
ticker, a range delete or the shutdown flushes it with `IndexBatch` calls, one
per node.  `commit_range_delete` also asks the node for the ids of a partition.
On the node, batches, committer and pruner share the writer lock; the committer
and the pruner only try it.  The reader's snapshot and the cache are read
without the lock.

What is hard here:

- the three copies of a document on a node (writer, snapshot, cache) move
  separately: commit, eviction and reload are three moments;
- several flushes run at once, each with items of its own, and retries let a
  later flush overtake an earlier one;
- replies get lost after the node has applied a batch; a batch may be applied
  in part;
- both processes may stop at any point, and the CDC log is replayed from a saved
  position that knows nothing of the buffer;
- the committer and the pruner give up when the lock is taken;
- a document is the sum of deltas: one that is lost, repeated, cut to the wrong
  microsecond or applied in the wrong order shows for ever;
- nodes answer a search at different moments, and some do not.

## 2. Modules

| module | models | state and actions against the code |
|---|---|---|
| `Engine` | the index engine of one node | `index` is the writer, pending operations included; `committed` the last commit; `searcher` the reader's snapshot; `uncommitted_docs`, `current_generation` the fields of that name; `writer` the lock; `batch`, `processed`, `skipped` the locals of `process_batch`; `listing` a listing between its read of the cache and its search.  `BatchStart`, `SkipOp`, `Upsert`, `AddDocumentFails`, `Delete`, `PartitionDelete`, `BatchEnd` are `process_batch`; `CommitOk`, `EvictCommitted`, `CommitFails` the committer; `Prune` the pruner; `Reload` Tantivy's watcher; `ListBegin`, `ListEnd` the listing; `Restart` a crash or ctrl-c and `Engine::new` |
| `DocumentStore` | what a node promises about its documents | the abstract specification of `Engine`: `inbox`, `store`, `durable`, `visible`, `now`, and no lock, cache, generation or committer.  The correspondence is `index` for `store`, `committed` for `durable`, `searcher` for `visible`, `batch` for `inbox` |
| `EngineProofs` | theorems about `Engine` | section 5 |
| `MCEngine` | an instance of `Engine` | the operations |
| `Ingestor` | consumers, router, batch service and process | a task (consumer, ticker, main) has a `pc`; a flush keeps `unsent`, `target`, `attempt`, `failed` of its own and remembers its `caller`.  Consumer actions: `SkipPreImage`, `RangeDeleteStart`, `RangeDeleteEnd`, `RouteForward`, `Add`, `ListIds`; flush: `TakeBuffer`, `SendOk`, `SendPartial`, `SendError`, and one return action per caller, because each treats an error in its own way; process: `Tick`, `TickReturns`, `CtrlC`, `ShutdownReturns`, `Crash`, `Restart`, `SaveProgress` |
| `IngestorProofs` | theorems about `Ingestor` | section 5 |
| `MCIngestor` | instances of `Ingestor` | streams of CDC rows |
| `Documents` | a row's way into its document | `row` and `log` are ScyllaDB's, `next` and `saved` the CDC reader's position and its saved progress, `index` and `committed` the node's document.  `SerializeCdcRow`, `SerializePostimageToJson`, `CqlToJson`, `Writetime` are `utils.rs`; `MergeJson`, `ApplyDelta`, `Applied` are `process_batch`.  `Write` is a client; `Deliver`, `Discard`, `SaveProgress`, `IngestorRestart` the ingestor; `Commit`, `NodeRestart` the node |
| `DocumentsProofs` | theorems about `Documents` | section 5 |
| `MCDocuments` | instances of `Documents` | columns and statements |
| `RangeDelete` | document ids and the resolution of range deletes | `table` is a partition in ScyllaDB, `index` its document ids on the node, `types` those of the clustering columns and `descending` those with `CLUSTERING ORDER BY ... DESC`.  `DocId` joins and splits key strings, `Compare` is `compare_cql_values`, `Within` the loop of `filter_doc_ids_by_ck_range`; `InRange` is ScyllaDB's own meaning of the bounds: lexicographic, each column in its direction (`Position`), of which the router knows nothing |
| `RangeDeleteProofs` | theorems about `RangeDelete` | section 5 |
| `MCRangeDelete` | instances of `RangeDelete` | types and their key strings |
| `Query` | what a query matches | `Expanded` and `Clause` are the expansion in `Engine::search`, `IsSpecial` and `Special` are `try_build_json_special_query`, `Parsed` Tantivy's parser on a JSON field (external).  `Meant` is what `SearchRequest` promises, `Straight` names the queries the rewriting is made for |
| `Gateway` | one search, gateway and nodes | `request`, `replies`, `result` are the locals of `scatter_gather`; `live` is the set of documents in the nodes' snapshots that have not expired; `Increments` are the turns of the loop that counts facets, by document, place of the field in `facet_fields` and place of the value in the document's array.  `Receive`, `NodeAnswers`, `NodeFails`, `Gather`, `Reply`, and `AdditionPanics` for builds with overflow checks; `DocumentsChange` while nodes answer |
| `GatewayProofs` | theorems about `Gateway` and `Query` | section 5 |
| `Induction`, `Sorting` | lemmas about folds, orders and sums | section 5 |
| `MCGateway` | an instance of `Gateway` | documents, their words, placement, requests |

How they compose.  `Engine` implements `DocumentStore` (`ImplementsStore`), and
the other modules rely on a node only through what `DocumentStore` says: the
node inside `Ingestor` keeps the newest writetime per document, and the one
inside `Documents` merges onto its latest document, which is `DocumentStore`
while the reader has caught up.  `Ingestor` is the concurrency of delivery,
without contents; `Documents` is contents through the whole pipeline, ScyllaDB,
ingestor and node, with what `Ingestor` allows delivery to do to a row: send it
again, give it up, replay it.  The range deletes of `Ingestor` take a whole
partition, and `RangeDelete` is about which of its documents they should take.
`Gateway` extends `Query` and starts from what `Engine`'s snapshot shows.

What the models abstract:

- A document body is a function from cells to the writetime that last set them
  (0: absent).  A cell is a column or an element of a collection, so
  `merge_json` and `apply_collection_deltas` act cell by cell; a payload that is
  no JSON object (`Scalar`) is kept apart because it replaces instead of merging
  and makes the document unparsable.
- `commit` is atomic on disk.  Between the commit and the eviction the lock is
  still held, but a listing takes none, hence the two actions.
- Inside `process_batch` one operation is one action.  Everything one operation
  does happens under the lock and the only reader without the lock, a listing,
  looks at the cache entry of an id at one moment.
- The generation counter wraps at `GenerationMod`; `fetch_sub` after a failed
  first commit really takes it below zero.
- In `Ingestor`, a node is what `Engine` promises: the newest writetime per
  document.  A range delete covers the whole partition.  `delivered` and `lost`
  are no program state; they record what became of an item for the properties.
- A batch item is the process's own `serde_json` output and decodes: the arm of
  `flush` that logs and drops one that does not (`service.rs:188-191`) is left
  out, and so are errors of Tantivy's reads, which `find_cached_or_indexed` and
  the listing take for empty answers (`core.rs:703-708`, `780-783`).
- In `Documents` a scalar is an atom, a set a set of atoms, and a map is told
  by its keys.  In the document a set is a sequence, converted element by element,
  so that duplicates and order of `added_elements` are visible.  `from` records which log rows a
  document is made of and is no program state.  Tables without PostImages are
  covered too: the ingestor may discard any row.  Lists, which CDC logs as maps
  from timeuuids, take the path of maps; user-defined types and tuples that of
  frozen maps.  Rows arrive in the order of the log; what concurrent flushes do
  to that order is in `Ingestor`.
- In `Query` a query is a sequence of tokens, and what words share in letters is
  given by `Starting` and `Near`.  Case and escapes are left out.
- The CDC reader (`scylla_cdc`) is external: it hands over one row of a stream at
  a time, saves progress for rows whose consumer returned `Ok`, and ends when a
  consumer returns an error, which ends the process.  Without saved progress it
  starts at the present (`start_timestamp`): `Documents` has that case,
  `Ingestor` starts with the progress an earlier process left.  It saves
  whole windows of time, hence never between the two rows of a range delete, which
  share their `cdc$time` (`BetweenBounds`).
- `DocumentStore` leaves open when a document expires.
- A partition of `Gateway` is its `partition_key` string.  Keys of several columns
  whose values contain ':' can join to the same string (`router/core.rs:93`);
  such partitions, which a grouped search takes for one when they are on one node,
  are left out.

## 3. Runs

| run | instance | shows |
|---|---|---|
| `engine` | one id that is in a partition of its own or in p1, two cells, ten operations with writetimes 1-3 (and 9, beyond `I64Max`), TTLs negative, short, saturating and absent, both kinds of partition delete, one listing; clock to 2; generations mod 2; fair | `TypeOK`; `CacheCoversUncommitted`: what has left the cache is on disk; `CacheMirrorsIndex`: cache and writer never hold different documents; `ListingComplete`: a listing whose snapshot is current misses no document that was there throughout, whatever is committed and evicted between its two reads; `OlderIgnoredWhenCaughtUp`, `UpsertKeepsOtherCells`: last-writer-wins and lossless merges whenever the reader has caught up; `ImplementsStore`: every step is one of `DocumentStore`'s; `VisibleOnceQuiet`, `PrunedOnceQuiet` |
| `engine_reload_gap` | as `engine`, clock stopped | expected violation, finding 1 |
| `engine_resurrect` | as `engine`, clock stopped | expected violation, finding 2 |
| `ingestor_buffer` | two consumers, two nodes, two rows each (inserts; a pre-image and a delete), batch limit 2, one attempt | `TypeOK`; `BufferBound`: overshoot of at most one item per consumer; `InOnePlace`: no item in two places; `Accounted`: an accepted row is in memory, delivered, or was discarded by a failed flush or the end of a process |
| `ingestor_stream` | one consumer, four rows of one partition (partition delete, insert, both bounds of a range), two attempts, partial replies, fair | `BufferNotOvertaken`: while a row waits in the buffer for the first time no later row of its consumer reaches a node; `RangeListAfterFlush`: a range delete lists only after its consumer's earlier rows have left the buffer; `BufferedGetsSent` |
| `ingestor_range_race` | one stream | expected violation, finding 3 |
| `ingestor_checkpoint` | one stream | expected violation, finding 4 |
| `documents` | a scalar, a set and a frozen map, six statements, behaviours of three changes, PostImages, two ticks to the microsecond | `TypeOK`; `DocumentFollowsRow`: a document made of all changes shows the row, however often each was sent, replayed, or lost in a crash of the node and replayed; `PostImageRestores`: an applied PostImage makes up for what was lost before it |
| `documents_maps` | one map column that is not frozen | expected violation, finding 6 |
| `range_delete` | two clustering columns of any of four kinds of type (numbers that parse, orderly strings, debug output that does not parse, text with a ':'), each ascending or descending, two values each, all rows and all bounds | `RowsStayIndexed`: in a table of orderly types, all ascending, no row that ScyllaDB keeps loses its document; `SimpleRangesExact`: ranges that pin all the columns they name, or all but an ascending last one, are resolved exactly |
| `range_ghosts` | the same | expected violation, finding 5 |
| `gateway` | two nodes, four documents in three partitions, every assignment of two scores, 26 requests: limits 0-7 and offsets 0-3, grouped or not, ANY and ALL, and queries with several words, quoted, blank, over default and weighted fields, with prefix and fuzzy tokens, and facets of no field, one, two, and one field twice; `U32` = 8, a grouping cap of 2; fair | `TypeOK`; `PageExact`: each page is that page of one global ranking of what the query means, so pages tile; `GroupedHitsWin`: grouped hits are the best of their partitions even beyond the cap; `TotalExact`: totals speak of all matches of the nodes that answered; `FacetsWhole`: so do facets, which leave out no document and are exact where nothing is repeated; `AnsweredIfNodesEnd`: a search ends in hits or an error once its nodes have ended, and in a panic only where limit + offset overflows |

Why the bounds are enough to be interesting.  The engine treats ids
independently except in partition deletes and listings; there one id that can
be in either of two partitions shows being in or out, and the proofs hold for any
number.  Three writetimes give older, equal and newer.  A batch of one operation
loses nothing but the absence of other actions between two operations, since
batches may follow each other at once; `MaxBatch` is a bound on `BatchStart`
alone.  (What it does lose: in `DocumentStore` the failure of an upsert ends its
request, and with one operation per request the run cannot tell that from the
end of the batch; `Implements` is proved for batches of any length.)
Generations mod 2 make the counter wrap in both directions within a few
commits.  In the ingestor, two consumers, the ticker and the shutdown already
give four concurrent flushes, a limit of 2 lets a buffer be below, at and above
its limit, and one or two attempts distinguish the last attempt from the others.
Crashes and restarts are not bounded anywhere: streams are finite, and a restart
replays from the checkpoint.  For a document three changes give a state to
change, the change, and one after it; `TicksPerMicro` = 2 lets two changes share
a microsecond and not share it; NaN and one infinity stand for the values JSON
has no number for.  For a range delete two values per column give less, equal and greater for
each bound, and two columns a first and a last one.  For a page two scores give
ties and strict order, three documents on a node exceed a cap of 2, and 8 in
place of 2^32 brings a sum of limit and offset to and past the end.

Every run also checks for deadlock: nothing here may stop for good.

### Fairness

`Engine!FairSpec`: a running batch proceeds; committer, reader and clock are
*weakly* fair.  A tokio interval keeps ticking, but a tick that finds the lock
taken does nothing (`try_write`), so nothing stronger can be claimed of the
committer.  Both liveness properties therefore speak of the time when batches
have stopped.  Nothing is assumed of the pruner: its 50 s are a multiple of the
committer's 5 s, both first tick at start-up, and nothing in the code breaks the
tie.  `VisibleOnceQuiet` does without it, and `PrunedOnceQuiet` has as a premise
that the committer does not for ever beat it to the lock (`SF_vars(Prune)`).  A
commit may fail any number of times; a fair committer also succeeds.

`Ingestor!FairSpec`: the ticker and every flush proceed, and a send ends in some
way.  The last is an assumption: `index_batch` is awaited without a timeout, so
a node that neither answers nor drops the connection would stop the ticker.
Nothing is assumed of the consumers: `BufferedGetsSent` does not depend on new
rows.

`Gateway!FairSpec`: only the gateway's own step after `join_all` is fair.  That
nodes answer or fail is no assumption of the specification but the premise of
`AnsweredIfNodesEnd`, because neither the channel nor the call has a timeout.

## 4. Where code and documentation disagree

Checked by a run:

1. *Older operations are ignored* (`service.proto:56-59`) fails between the
   eviction of a committed document (`core.rs:648`) and the reader's reload: the
   cache has forgotten it, the snapshot does not have it yet, and an older
   upsert replaces it.  With the reader caught up it holds, and is proved.
2. *Hard delete* (`service.proto:40`): after a delete `find_cached_or_indexed`
   falls through to the snapshot, which still shows the document; the next
   upsert merges onto it and deleted columns come back.
3. *Flushes the batch service before querying the target node*
   (`router/core.rs:202-204`): the flush returns at once when another task's
   flush has taken the buffer and not delivered it, so the listing misses the
   consumer's own earlier rows and the range delete does not remove them.
4. *The checkpoint is committed only after every node batch has been delivered*
   (`batch/service.rs:141-142`): no checkpoint is committed in `flush`; the CDC
   reader saves progress for rows that are only buffered, and a crash, or a
   failed flush, loses them.
5. *Filters ... to those whose clustering key falls within the given range
   bounds* (`router/core.rs:297-298`): every column is compared with its own
   bound, where ScyllaDB compares rows lexicographically.  `c1 = 5 AND c2 > 3` has the
   open start bound (5, 3), the filter then wants c1 > 5 as well, and nothing is
   deleted.  With ascending columns of orderly types the error is one-sided:
   nothing outside the range is deleted (`RowsStayIndexed`, proved).  With a
   descending column this is not so, see below.
6. *Delta operations for non-frozen collection columns (sets, lists, maps)*
   (`service.proto:75-79`, and line 118 *For maps: a JSON object*): elements
   added to a map arrive as an object, `apply_collection_deltas` parses an
   array only (`core.rs:940`), and the column becomes an empty array.

Proved, not the subject of a run:

- *Returns `Ordering` consistent with ScyllaDB's clustering key ordering*
  (`utils.rs:325`) is not so for a descending column, such as the one of the
  repository's own schema, `CLUSTERING ORDER BY (order_id DESC)`
  (`testing/cql-queries/init.cql:46`).  `get_table_key_info` (`utils.rs:241-298`)
  does not ask for `clustering_order`, and ScyllaDB gives the bounds in
  clustering order: `ck > X` comes as an open start and the exclusive end X, and
  the filter takes `ck < X`.  `DescendingReversed` proves it for every table with
  a descending first column: the documents of the range stay and, except those at
  the bound, all others of the partition are deleted although their rows are kept.

Seen while modelling, not the subject of a run:

- *text, ascii, varchar, uuid, timeuuid, blob, inet, etc. All compare correctly via
  lexicographic ordering of their string representations* (`utils.rs:372-374`) does
  not hold of timeuuid, which ScyllaDB orders by time while its string begins with
  the low bits of the time; of blob, whose base64 is not in the order of its
  bytes; and of inet, whose decimal octets have no fixed width.  Such types are
  not `Orderly`;
- *Number of matching documents that contain this value* (`service.proto:228`):
  `Engine::search` counts once per entry of `facet_fields` (`core.rs:574`) and per
  element of an array (`core.rs:591-597`), so a field that is requested twice, or an
  array with the value twice, counts a document twice.  `FacetsWhole` states what
  remains: never too few, and exact without repetition;
- the pruner deletes an expired document and leaves its cache entry (`core.rs:675`);
  until the next eviction an upsert merges onto it and brings expired columns
  back.  `CacheMirrorsIndex` speaks of documents the index still holds;
- a failed read in `find_cached_or_indexed` (`core.rs:703-708`) counts as "no
  document", so that the next merge starts empty; a failed search shortens a listing
  (`core.rs:780-783`);
- a flush in its retry backoff can be overtaken by the next one: its operations then
  arrive last and are skipped, cells and all.  `BufferNotOvertaken` stops at the
  buffer;
- `process_batch` also skips *equal* writetimes (`core.rs:180`), the proto
  comment names only smaller ones;
- a partition delete does not look at writetimes (`core.rs:259`), so one that
  comes late removes newer documents;
- a listing between eviction and reload misses committed documents, although the
  comment at `core.rs:758-760` says recent documents are included;
- the committer can find the lock taken at every tick ("Contended, skip commit",
  `core.rs:657`), so under a steady load nothing need become visible;
- the flush loop of `commit_range_delete` (`router/core.rs:227-237`) only logs a
  failed flush; the failed batch is gone, the next round finds the buffer empty
  and succeeds, and neither an error nor backpressure results;
- `limit + offset` wraps in 32 bits (`querier/core.rs:58`; a debug build panics):
  with the largest limit and offset 1 nodes are asked for 0 documents and refuse;
- a grouped search on a node without matches passes 0 to `TopDocs::with_limit`,
  which panics, so the node fails, and with ALL the whole search
  (`engine/core.rs:424`);
- with ANY, `join_all` still waits for every node, and there is no timeout;
- smallint, tinyint, varint and timestamp keys are debug output that does not parse back and
  are compared as strings; ids with a ':' in a value are passed over;
- a scalar set to null stays in the document: `cdc$deleted_` is read for
  collections only (`utils.rs:78`), and a PostImage leaves null columns out, so
  `DocumentFollowsRow` speaks of scalars that are not null;
- a frozen map is merged key by key, so an overwritten one keeps keys it no
  longer has; `DocumentFollowsRow` says only that no key is missing;
- NaN and the infinities all become null (`utils.rs:174`, "TODO: Handle
  NaN/Infinite"): removing one of them from a set removes the others from the
  document, so `DocumentFollowsRow` excepts sets with such a removal; a PostImage
  of a set with two of them has null twice, so `PostImageRestores` speaks of
  elements only;
- a PostImage has the writetime of the delta before it and is skipped unless
  that delta never arrived; one that is applied does not empty a set that has
  become empty;
- of two changes to a row within one microsecond the second is skipped;
- a node that crashes loses operations it has acknowledged and not committed
  (`core.rs:274`); only a replay brings them back, and a replayed row that is
  older than what the node holds by then is skipped;
- an ingestor that restarts before any progress was saved begins at the present
  and skips what came before;
- in an expanded query prefix and fuzzy tokens miss the rewriting and AND, OR and
  NOT become words (`core.rs:372`); `Straight` keeps such queries out of
  `PageExact` and `TotalExact`.

## 5. Proofs

The theorems hold for every value of the constants that satisfies the modules'
ASSUMEs, which TLC evaluates in every run.  These type the constants and keep
the model values for "nothing" apart from the rest; `EngineAssumption` also keeps
the clock below `i64::MAX`, and `IngestorAssumption` and `GatewayAssumption` make
sets of tasks and documents finite.

| module | theorem | statement |
|---|---|---|
| `EngineProofs` | `TypeCorrect` | `Spec => []TypeOK` |
| | `CacheCovers` | `Spec => []CacheCoversUncommitted` |
| | `CacheMirrors` | `Spec => []CacheMirrorsIndex` |
| | `Listings` | `Spec => []ListingComplete` |
| | `LastWriterWins` | `Spec => OlderIgnoredWhenCaughtUp` |
| | `NoLostCells` | `Spec => UpsertKeepsOtherCells` |
| | `Implements` | `Spec => ImplementsStore` |
| `IngestorProofs` | `TypeCorrect` | `Spec => []TypeOK` |
| | `BufferBounded` | `Spec => []BufferBound` |
| | `NoDuplicates` | `Spec => []InOnePlace` |
| | `NothingDropped` | `Spec => []Accounted` |
| | `NotOvertaken` | `Spec => []BufferNotOvertaken` |
| | `ListsAfterFlush` | `Spec => []RangeListAfterFlush` |
| `RangeDeleteProofs` | `FilterSound` | an id that the filter selects is that of a row in the range, if the bounds pin the descending columns they name |
| | `DescendingReversed` | with one open bound on a descending first column it selects the rows outside the range instead |
| | `RowsIndexed` | `Spec => []RowsStayIndexed` |
| | `RangesExact` | `Spec => []SimpleRangesExact` |
| `GatewayProofs` | `TypeCorrect` | `Spec => []TypeOK` |
| | `PagesExact` | `Spec => []PageExact` |
| | `GroupsWin` | `Spec => []GroupedHitsWin` |
| | `TotalsExact` | `Spec => []TotalExact` |
| | `FacetsExact` | `Spec => []FacetsWhole` |
| `DocumentsProofs` | `TypeCorrect` | `Spec => []TypeOK` |
| | `DocumentsFollow` | `Spec => []DocumentFollowsRow` |
| | `PostImagesRestore` | `Spec => []PostImageRestores` |

### The engine

Neither cache invariant is inductive.  `CacheInv` adds two facts:
`EvictAfterCommit`, while the committer is between its commit and the eviction
the commit still equals the writer, so dropping any entry is safe, whatever its
generation; and `StoredParse`, the documents on disk and in the writer are JSON
objects, so that a merge base has cells at all.  With it, the reader caught up,
and a document in the writer, `find_cached_or_indexed` returns exactly that
document: the cache entry if there is one (`CacheMirrorsIndex`), else the
snapshot, which equals the commit, which equals the writer
(`CacheCoversUncommitted`).  Both action properties follow.  That
the generation numbers do not occur in the argument is itself a result: evicting
everything under the lock after a successful commit would be as safe.

`Listings` needs `ListingOwes`: whatever the running listing owes is still in
the writer and was either seen in the cache or is committed.  A document
leaves the writer only through steps that also release the listing from owing
it, and a commit never forgets one that stays.

`ImplementsStore` says that a node seen from outside is a store with a durable
and a visible copy.  An operation is one step of the store; `CommitOk` is
`Persist`, `Prune` is `Expire`, `Reload` is `Publish`, `Restart` is `Crash`;
evictions, failed commits, listings and the end of a batch are stutters.  The
store is weak in one place, deliberately: only while `visible = durable` and the
document exists (`Answerable`) does it say which version a write meets.  Findings 1
and 2 show that the code promises no more, and `AnswerableIsFound`, which is
`CacheInv` at work, that it promises this much.

### The ingestor

The invariant is `TypeOK`, `Control` and `Memory`.  `Control` ties every consumer's
program counter to the row it is at and to the items it has still to enqueue, and
says that only a task that sends holds items.  `Memory` has the four safety
properties and what they need to be inductive:

- `MemoryPlaced`: an item in memory comes from a row its consumer has been
  through, or from the one it is at and has been enqueued.  So an item that is
  about to be enqueued is in memory nowhere else (`InOnePlace`), and rows are
  enqueued in their order.
- `LimitKnown`: the item with which a flush at the limit was called is accounted
  for, since `add` has enqueued it before.
- `PrefixKnown`: rows before that of a known item are known; with it a restart at
  the checkpoint loses sight of nothing (`Accounted`).
- `NothingAhead`: behind an item that waits in the buffer for the first time,
  nothing of its consumer has been taken by a flush, let alone delivered, because
  a flush takes the whole buffer.  `BufferNotOvertaken` is the part of it that can
  be seen from outside, and is not inductive without the other.
- `RangeTaken`: from the flush of `commit_range_delete` to its listing, no row
  accepted before is in the buffer.

`BufferBound` rests on `todo` and `pc`: a consumer beyond the limit is in the flush
it called.  Retries, partial replies, crashes and the ticker only move items
between the places that `Memory` speaks of (`SendKeeps`, `TakeKeeps`, `ExitKeeps`,
and `QuietKeeps` for steps that move none).

### Range deletes

Column-wise comparison is stricter than lexicographic comparison in ascending order:
with closed bounds no column is on the wrong side, hence no first differing column is;
with open bounds already the first column decides.  A descending column does no harm
where both bounds ask for the same value of it (`Upward`).  That is `FilterSound`.
`RowsIndexed`, for tables without descending columns, adds that the ids of a table
without ':' in its values fall into one piece per column and tell rows apart
(`FlattenPieces`, an induction over the join).  `RangesExact` adds the converse for
ranges that pin all the columns they name but the last, and the last one too if it is
descending (`FilterComplete`).  `DescendingReversed` is the computation for one open
bound: the filter's test and ScyllaDB's are then opposite.

### Searches

The invariant says that snapshots hold documents of their own node, that a reply
is what `Engine::search` makes of them, and that an answer is what `scatter_gather`
makes of the replies.  The rest is about data:

- `MatchesMeant`: the expansion and the rewriting find exactly the documents that a
  `Straight` query means.
- A ranking is the one sequence of a set in the order of a relation
  (`SortedUnique` in `Sorting`).  The hits of a node ascend in its order, grouped
  or not (`FirstsFacts`: the loop over `seen` keeps the first of each partition in
  order; `GroupedFacts`: a document that is first among the capped ones is first
  among all, because what is ahead of it is within the cap).
- Concatenated node by node, hits ascend by node, then rank (`FlattenAscends`), and a
  stable sort by score turns that into the global order (`StableSort`).
- Of the global ranking, the first limit + offset are among the nodes' first
  limit + offset (`TopKept`), so both rankings have the same page (`MergedPage`).
- A partition lives on one node, so the winners of all are those of each
  (`WinnersOfNodes`): no deduplication across nodes is needed.
- Totals and facets are sums of sizes of sets that `Home` keeps apart
  (`SumOfSizes`).  For facets these are sets of increments; `IncrementsCount` says
  that each document that contains the value has at least one, and exactly one where
  neither the field nor the value is repeated.

### Documents

`DocumentFollowsRow` compares the document with the row of today, while the document
is made of log rows of some time ago.  The invariant therefore has the row's history:
a sequence of rows, one after each entry of the log, each made from the one before by
that entry (`History`).  `Tracks` says of a stored document, the node's and the
committed one alike, which entry m was applied to it last, that its writetime is m's,
and that, if every change up to m is among those it is made of, it follows the row
after m (`Follows`).  A document that is made of less need not follow anything, and
may still come to by a delete or a replay from the start.

- Writetimes ascend along the log, so what is not skipped is later than m
  (`BaseFollows`); between m and the next change there is at most a PostImage, which
  leaves the row as it is (`SameRow`).
- A PostImage has its change's writetime, so it is skipped by a document that has
  the change (`PostImageSkipped`): a document made of all changes is made of
  deltas alone since the last delete, and its sets have no duplicates.
- `DeltaApplied`: clear, retain and push leave the elements that set algebra
  says, without duplicates; `ImageWithout`: conversion to JSON commutes with a
  removal that takes no unrepresentable element; `SetFollows` and `ChangeFollows`
  put them together, column by column.
- `Write` appends to the log and the history, and what was said of the documents
  stays true (`TracksKept`).  Crashes and replays need no argument of their own:
  `Tracks` holds of the committed document and does not mention `next`.

`AbsenceAssumption` keeps the model values for Null, JSON's null, a missing field and
a missing document apart from all others, and atoms apart from arrays and objects.

### Induction over data

Folds, joins and sums are recursive functions over finite sets, and the library's
induction theorems take a predicate as a parameter.  `Induction` states the principle
for sets of numbers instead: a set that has 0 and the successor of each of its
elements up to n has all numbers up to n (`UpTo`).  From it follow that the recursion
of `FoldLeft` has a solution (`IteratesExist`), and then, once per use, what the
solution is.  `Sorting` builds orders, pages and sums on it.

### Only model-checked

Liveness: `VisibleOnceQuiet`, `PrunedOnceQuiet`, `BufferedGetsSent` and
`AnsweredIfNodesEnd`.  Fairness and ENABLED are beyond the prover.  All safety
properties of the passing runs are proved.

## 6. Not modelled, and the plan

Left out for good: Tantivy's parser and BM25 scoring (external: a query's tokens
match or do not, a document has a score); letters, case and escapes inside a
query; argument parsing, session and server set-up and `HealthCheck`, which keep
no state; the `_cdc_` metadata fields of a payload; logging, test-event tracing and
generated protobuf code in the common crate; the test harness and the benchmarks.

Ingestor and engine are not composed at full detail: the product of their states
is out of TLC's reach, and `Documents` covers what the composition is about,
contents across crashes of either process.

Next: that the three components fit together, as theorems.  `Ingestor` relies on a
node that keeps the newest writetime per document, and `Documents` on one that merges
onto its latest document; both should follow from `DocumentStore` while `visible =
durable`.
