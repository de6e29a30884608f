------------------------------ MODULE Ingestor ------------------------------
(***************************************************************************)
(* The ingestor process: the consumers of the CDC log                      *)
(* (ingestor/src/cdc/consumer.rs), the router (router/core.rs), the batch  *)
(* service they share (batch/service.rs) and the process around them       *)
(* (main.rs).                                                              *)
(*                                                                         *)
(* Every consumer task reads its own stream; the ticker and, after ctrl-c, *)
(* main flush the same buffer.  A flush takes the whole buffer under the   *)
(* lock and sends it, node by node, without the lock, so several flushes   *)
(* can be under way at once.                                               *)
(*                                                                         *)
(* External: the CDC log and its reader, which hands a row to a consumer   *)
(* when the previous one has been accepted, saves the progress of a stream *)
(* from time to time, and ends the process when a consumer returns an      *)
(* error.  A node is what Engine promises: per document, the newest        *)
(* writetime wins.                                                         *)
(***************************************************************************)
EXTENDS Integers, FiniteSets, SequencesExt

CONSTANTS
    Consumers,      \* one consumer per vnode group
    Ticker, Main,   \* the other two tasks that flush
    Nodes,          \* search nodes
    Partitions,     \* partition keys
    Ids,            \* document ids
    PartitionOf,    \* the partition of a document
    NodeOf,         \* get_target_node_id: the node of a partition
    Streams,        \* the CDC rows of each consumer's stream
    BatchLimit,     \* batch_limit
    MaxAttempts,    \* max_retry_attempts
    FlushRetries,   \* FLUSH_RETRIES of commit_range_delete
    PartialReplies, \* whether a node may report fewer operations than it got
    NoStart,        \* no pending start bound
    NoNode          \* no send under way

Tasks == Consumers \union {Ticker, Main}

Operations == {"PreImage", "RowInsert", "RowDelete", "PartitionDelete",
               "RangeStart", "RangeEnd"}

\* A CDC row; RowInsert stands for RowUpdate and PostImage, too.
Row == [operation : Operations, id : Ids, writetime : Nat \ {0}]

ASSUME IngestorAssumption ==
    /\ IsFiniteSet(Consumers) /\ IsFiniteSet(Ids)
    /\ Ticker # Main /\ Ticker \notin Consumers /\ Main \notin Consumers
    /\ PartitionOf \in [Ids -> Partitions]
    /\ NodeOf \in [Partitions -> Nodes]
    /\ Streams \in [Consumers -> Seq(Row)]
    /\ BatchLimit \in Nat \ {0}
    /\ MaxAttempts \in Nat \ {0}
    /\ FlushRetries \in Nat \ {0}
    /\ PartialReplies \in BOOLEAN
    /\ NoStart \notin Row
    /\ NoNode \notin Nodes

\* A BatchItem.  `from` names the row it was made of, for the properties.
Item == [op_type : {"Upsert", "Delete", "PartitionDelete"}, id : Ids,
         writetime : Nat \ {0}, from : Consumers \X (Nat \ {0})]

VARIABLES
    up,                \* whether the process runs
    next,              \* the row of its stream a consumer is at
    checkpoint,        \* the first row of a stream after the saved progress,
                       \* which earlier processes have left behind
    pc,                \* where a task is
    caller,            \* who called the flush a task is in
    pending_start,     \* pending_range_start of a consumer
    tries,             \* rounds left in commit_range_delete's flush loop
    todo,              \* items a consumer has still to enqueue
    buffer,            \* the shared buffer
    last_flush_failed, \* the backpressure flag
    unsent,            \* the node batches a flush has still to deliver
    target, attempt,   \* the node it is sending to, and the failed attempts
    failed,            \* whether a node of the flush has failed
    docs,              \* per document, the writetime stored on its node, or 0
    delivered,         \* the items some node has applied
    lost               \* the items a failed flush or an exit has discarded

vars == <<up, next, checkpoint, pc, caller, pending_start, tries, todo, buffer,
          last_flush_failed, unsent, target, attempt, failed, docs, delivered, lost>>

-----------------------------------------------------------------------------
CurrentRow(c) == Streams[c][next[c]]

ItemOf(c, op_type, id) ==
    [op_type |-> op_type, id |-> id, writetime |-> CurrentRow(c).writetime,
     from |-> <<c, next[c]>>]

\* RoutingAction::determine for the rows that are forwarded.
OpType == [RowInsert |-> "Upsert", RowDelete |-> "Delete",
           PartitionDelete |-> "PartitionDelete"]

TargetNode(item) == NodeOf[PartitionOf[item.id]]

\* process_batch on the node, one operation.
Applied(stored, item) ==
    CASE item.op_type = "Upsert" ->
             IF stored[item.id] >= item.writetime THEN stored
             ELSE [stored EXCEPT ![item.id] = item.writetime]
      [] item.op_type = "Delete" ->
             IF stored[item.id] >= item.writetime THEN stored
             ELSE [stored EXCEPT ![item.id] = 0]
      [] item.op_type = "PartitionDelete" ->
             [i \in Ids |-> IF PartitionOf[i] = PartitionOf[item.id] THEN 0
                                                                     ELSE stored[i]]

NodeApplies(items) ==
    /\ docs' = FoldLeft(Applied, docs, items)
    /\ delivered' = delivered \union ToSet(items)

\* The items a task's flush still holds.
Held(t) == UNION {ToSet(unsent[t][n]) : n \in Nodes}

InMemory == ToSet(buffer) \union UNION {Held(t) : t \in Tasks}

-----------------------------------------------------------------------------
NoBatches == [n \in Nodes |-> << >>]

\* A process that has just started, from the saved progress.
Started(progress) ==
    [next          |-> progress,
     pc            |-> [t \in Tasks |-> "idle"],
     caller        |-> [t \in Tasks |-> "none"],
     pending_start |-> [c \in Consumers |-> NoStart],
     tries         |-> [c \in Consumers |-> 0],
     todo          |-> [c \in Consumers |-> << >>],
     unsent        |-> [t \in Tasks |-> NoBatches],
     target        |-> [t \in Tasks |-> NoNode],
     attempt       |-> [t \in Tasks |-> 0],
     failed        |-> [t \in Tasks |-> FALSE]]

Init ==
    /\ up = TRUE
    /\ checkpoint = [c \in Consumers |-> 1]
    /\ LET fresh == Started(checkpoint)
       IN  /\ next = fresh.next
           /\ pc = fresh.pc
           /\ caller = fresh.caller
           /\ pending_start = fresh.pending_start
           /\ tries = fresh.tries
           /\ todo = fresh.todo
           /\ unsent = fresh.unsent
           /\ target = fresh.target
           /\ attempt = fresh.attempt
           /\ failed = fresh.failed
    /\ buffer = << >>
    /\ last_flush_failed = FALSE
    /\ docs = [i \in Ids |-> 0]
    /\ delivered = {}
    /\ lost = {}

\* The process ends and what it had in memory is gone.  The variables take the
\* values the next process starts with.
Exit ==
    /\ up' = FALSE
    /\ LET fresh == Started(checkpoint)
       IN  /\ next' = fresh.next
           /\ pc' = fresh.pc
           /\ caller' = fresh.caller
           /\ pending_start' = fresh.pending_start
           /\ tries' = fresh.tries
           /\ todo' = fresh.todo
           /\ unsent' = fresh.unsent
           /\ target' = fresh.target
           /\ attempt' = fresh.attempt
           /\ failed' = fresh.failed
    /\ buffer' = << >>
    /\ last_flush_failed' = FALSE
    /\ lost' = lost \union (InMemory \ delivered)
    /\ UNCHANGED <<checkpoint, docs, delivered>>

-----------------------------------------------------------------------------
(* Consumers: consume_cdc, route_forward, commit_range_delete, add *)

\* consume_cdc returns Ok and the reader moves on to the next row.
Accept(c) ==
    /\ pc' = [pc EXCEPT ![c] = "idle"]
    /\ next' = [next EXCEPT ![c] = @ + 1]

StartFlush(t, who) ==
    /\ pc' = [pc EXCEPT ![t] = "take"]
    /\ caller' = [caller EXCEPT ![t] = who]

RowReady(c, operations) ==
    /\ up
    /\ pc[c] = "idle"
    /\ next[c] <= Len(Streams[c])
    /\ CurrentRow(c).operation \in operations

SkipPreImage(c) ==
    /\ RowReady(c, {"PreImage"})
    /\ Accept(c)
    /\ UNCHANGED <<up, checkpoint, caller, pending_start, tries, todo, buffer,
                   last_flush_failed, unsent, target, attempt, failed, docs,
                   delivered, lost>>

\* An unconsumed start bound is overwritten.
RangeDeleteStart(c) ==
    /\ RowReady(c, {"RangeStart"})
    /\ pending_start' = [pending_start EXCEPT ![c] = CurrentRow(c)]
    /\ Accept(c)
    /\ UNCHANGED <<up, checkpoint, caller, tries, todo, buffer, last_flush_failed,
                   unsent, target, attempt, failed, docs, delivered, lost>>

\* Mutant: the partition is listed without a flush.
RangeDeleteEndUnflushed(c) ==
    /\ RowReady(c, {"RangeEnd"})
    /\ IF pending_start[c] = NoStart
       THEN Exit
       ELSE /\ pc' = [pc EXCEPT ![c] = "list"]
            /\ UNCHANGED <<up, next, checkpoint, caller, pending_start, tries, todo,
                           buffer, last_flush_failed, unsent, target, attempt,
                           failed, docs, delivered, lost>>

\* commit_range_delete flushes first; an end bound without a start is an error.
RangeDeleteEnd(c) ==
    /\ RowReady(c, {"RangeEnd"})
    /\ IF pending_start[c] = NoStart
       THEN Exit
       ELSE /\ tries' = [tries EXCEPT ![c] = FlushRetries]
            /\ StartFlush(c, "range")
            /\ UNCHANGED <<up, next, checkpoint, pending_start, todo, buffer,
                           last_flush_failed, unsent, target, attempt, failed,
                           docs, delivered, lost>>

\* route_forward: under backpressure, flush before the row is enqueued.
RouteForward(c) ==
    /\ RowReady(c, DOMAIN OpType)
    /\ todo' = [todo EXCEPT ![c] =
           <<ItemOf(c, OpType[CurrentRow(c).operation], CurrentRow(c).id)>>]
    /\ IF last_flush_failed
       THEN StartFlush(c, "precheck")
       ELSE /\ pc' = [pc EXCEPT ![c] = "add"]
            /\ UNCHANGED caller
    /\ UNCHANGED <<up, next, checkpoint, pending_start, tries, buffer,
                   last_flush_failed, unsent, target, attempt, failed, docs,
                   delivered, lost>>

\* With the next item enqueued, a consumer goes on to the one after it or is
\* done with its row.
Enqueued(c) ==
    /\ todo' = [todo EXCEPT ![c] = Tail(@)]
    /\ IF Len(todo[c]) = 1
       THEN Accept(c)
       ELSE pc' = [pc EXCEPT ![c] = "add"] /\ UNCHANGED next

\* Mutant: the buffer is flushed one item too late.
AddPastLimit(c) ==
    /\ up
    /\ pc[c] = "add"
    /\ IF last_flush_failed
       THEN Exit
       ELSE /\ buffer' = Append(buffer, Head(todo[c]))
            /\ IF Len(buffer') > BatchLimit
               THEN StartFlush(c, "limit") /\ UNCHANGED <<next, todo>>
               ELSE Enqueued(c) /\ UNCHANGED caller
            /\ UNCHANGED <<up, checkpoint, pending_start, tries, last_flush_failed,
                           unsent, target, attempt, failed, docs, delivered, lost>>

\* Service::add: an error under backpressure, else push, and flush at the limit.
Add(c) ==
    /\ up
    /\ pc[c] = "add"
    /\ IF last_flush_failed
       THEN Exit
       ELSE /\ buffer' = Append(buffer, Head(todo[c]))
            /\ IF Len(buffer') >= BatchLimit
               THEN StartFlush(c, "limit") /\ UNCHANGED <<next, todo>>
               ELSE Enqueued(c) /\ UNCHANGED caller
            /\ UNCHANGED <<up, checkpoint, pending_start, tries, last_flush_failed,
                           unsent, target, attempt, failed, docs, delivered, lost>>

\* fetch_doc_ids_for_partition and the deletes it leads to, with the start
\* bound's writetime, in any order; the range is the whole partition.  The start
\* bound, which the code takes out of the consumer before the flush and passes
\* on, is cleared here, where it is last used.
ListIds(c) ==
    /\ up
    /\ pc[c] = "list"
    /\ LET partition == PartitionOf[pending_start[c].id]
           ids       == {i \in Ids : PartitionOf[i] = partition /\ docs[i] # 0}
           delete(i) == [ItemOf(c, "Delete", i) EXCEPT
                             !.writetime = pending_start[c].writetime]
       IN  /\ \E deletes \in SetToSeqs({delete(i) : i \in ids}) :
                  todo' = [todo EXCEPT ![c] = deletes]
           /\ IF ids = {}
              THEN Accept(c)
              ELSE pc' = [pc EXCEPT ![c] = "add"] /\ UNCHANGED next
    /\ pending_start' = [pending_start EXCEPT ![c] = NoStart]
    /\ UNCHANGED <<up, checkpoint, caller, tries, buffer, last_flush_failed,
                   unsent, target, attempt, failed, docs, delivered, lost>>

ListIdsFails(c) == up /\ pc[c] = "list" /\ Exit

-----------------------------------------------------------------------------
(* Service::flush, in any task *)

\* Mutant: an operation replaces its node's batch instead of joining it.
BatchReplaced(batches, item) ==
    [batches EXCEPT ![TargetNode(item)] = <<item>>]

\* One operation more in the batch of its node.
Batched(batches, item) ==
    [batches EXCEPT ![TargetNode(item)] = Append(@, item)]

\* The bytes of an item are the process's own serde_json output and decode: the
\* arm that logs and skips an item that does not is left out.
GroupByNode(items) == FoldLeft(Batched, NoBatches, items)

\* Mutant: the buffer is copied instead of taken.
TakeCopy(t) ==
    /\ up
    /\ pc[t] = "take"
    /\ unsent' = [unsent EXCEPT ![t] = GroupByNode(buffer)]
    /\ pc' = [pc EXCEPT ![t] = "send"]
    /\ UNCHANGED <<up, next, checkpoint, caller, pending_start, tries, todo, buffer,
                   last_flush_failed, target, attempt, failed, docs, delivered, lost>>

\* The whole buffer is taken under the lock and grouped by node.
TakeBuffer(t) ==
    /\ up
    /\ pc[t] = "take"
    /\ unsent' = [unsent EXCEPT ![t] = GroupByNode(buffer)]
    /\ buffer' = << >>
    /\ pc' = [pc EXCEPT ![t] = "send"]
    /\ UNCHANGED <<up, next, checkpoint, caller, pending_start, tries, todo,
                   last_flush_failed, target, attempt, failed, docs, delivered, lost>>

\* send_batch_with_retry stays with a node until it has an outcome; the order
\* of the nodes is that of a hash map.
SendsTo(t, n) ==
    /\ up
    /\ pc[t] = "send"
    /\ unsent[t][n] # << >>
    /\ target[t] \in {NoNode, n}

NodeDone(t, n, ok) ==
    /\ unsent' = [unsent EXCEPT ![t][n] = << >>]
    /\ target' = [target EXCEPT ![t] = NoNode]
    /\ attempt' = [attempt EXCEPT ![t] = 0]
    /\ failed' = [failed EXCEPT ![t] = @ \/ ~ok]
    /\ lost' = IF ok THEN lost ELSE lost \union (ToSet(unsent[t][n]) \ delivered')

SendOk(t, n) ==
    /\ SendsTo(t, n)
    /\ NodeApplies(unsent[t][n])
    /\ NodeDone(t, n, TRUE)
    /\ UNCHANGED <<up, next, checkpoint, pc, caller, pending_start, tries, todo,
                   buffer, last_flush_failed>>

\* A reply that counts fewer operations than were sent is not retried.
SendPartial(t, n) ==
    /\ PartialReplies
    /\ SendsTo(t, n)
    /\ \E k \in 0 .. Len(unsent[t][n]) - 1 : NodeApplies(SubSeq(unsent[t][n], 1, k))
    /\ NodeDone(t, n, FALSE)
    /\ UNCHANGED <<up, next, checkpoint, pc, caller, pending_start, tries, todo,
                   buffer, last_flush_failed>>

\* Mutant: one attempt too many.
SendErrorOnceMore(t, n) ==
    /\ SendsTo(t, n)
    /\ \E k \in 0 .. Len(unsent[t][n]) : NodeApplies(SubSeq(unsent[t][n], 1, k))
    /\ IF attempt[t] + 1 <= MaxAttempts
       THEN /\ target' = [target EXCEPT ![t] = n]
            /\ attempt' = [attempt EXCEPT ![t] = @ + 1]
            /\ UNCHANGED <<unsent, failed, lost>>
       ELSE NodeDone(t, n, FALSE)
    /\ UNCHANGED <<up, next, checkpoint, pc, caller, pending_start, tries, todo,
                   buffer, last_flush_failed>>

\* Mutant: the batch of a node that failed goes back to the end of the buffer.
SendErrorRequeues(t, n) ==
    /\ SendsTo(t, n)
    /\ \E k \in 0 .. Len(unsent[t][n]) : NodeApplies(SubSeq(unsent[t][n], 1, k))
    /\ IF attempt[t] + 1 < MaxAttempts
       THEN /\ target' = [target EXCEPT ![t] = n]
            /\ attempt' = [attempt EXCEPT ![t] = @ + 1]
            /\ UNCHANGED <<unsent, failed, lost, buffer>>
       ELSE /\ NodeDone(t, n, TRUE)
            /\ buffer' = buffer \o unsent[t][n]
    /\ UNCHANGED <<up, next, checkpoint, pc, caller, pending_start, tries, todo,
                   last_flush_failed>>

\* No connection, an error half way, or a reply that got lost: the node has
\* applied none, some or all of the batch.  Retry, or give the node up.
SendError(t, n) ==
    /\ SendsTo(t, n)
    /\ \E k \in 0 .. Len(unsent[t][n]) : NodeApplies(SubSeq(unsent[t][n], 1, k))
    /\ IF attempt[t] + 1 < MaxAttempts
       THEN /\ target' = [target EXCEPT ![t] = n]
            /\ attempt' = [attempt EXCEPT ![t] = @ + 1]
            /\ UNCHANGED <<unsent, failed, lost>>
       ELSE NodeDone(t, n, FALSE)
    /\ UNCHANGED <<up, next, checkpoint, pc, caller, pending_start, tries, todo,
                   buffer, last_flush_failed>>

\* flush returns: every node has had its outcome, or the buffer was empty.
Returns(t, who) ==
    /\ up
    /\ pc[t] = "send"
    /\ unsent[t] = NoBatches
    /\ caller[t] = who

Returned(t) ==
    /\ caller' = [caller EXCEPT ![t] = "none"]
    /\ failed' = [failed EXCEPT ![t] = FALSE]

PrecheckReturns(c) ==
    /\ Returns(c, "precheck")
    /\ IF failed[c]
       THEN Exit
       ELSE /\ Returned(c)
            /\ pc' = [pc EXCEPT ![c] = "add"]
            /\ UNCHANGED <<up, next, checkpoint, pending_start, tries, todo, buffer,
                           last_flush_failed, unsent, target, attempt, docs,
                           delivered, lost>>

LimitReturns(c) ==
    /\ Returns(c, "limit")
    /\ IF failed[c]
       THEN Exit
       ELSE /\ Returned(c)
            /\ Enqueued(c)
            /\ UNCHANGED <<up, checkpoint, pending_start, tries, buffer,
                           last_flush_failed, unsent, target, attempt, docs,
                           delivered, lost>>

\* The loop of commit_range_delete: flush again after a failure, then go on.
RangeReturns(c) ==
    /\ Returns(c, "range")
    /\ tries' = [tries EXCEPT ![c] = @ - 1]
    /\ failed' = [failed EXCEPT ![c] = FALSE]
    /\ IF failed[c] /\ tries[c] > 1
       THEN StartFlush(c, "range")
       ELSE /\ pc' = [pc EXCEPT ![c] = "list"]
            /\ caller' = [caller EXCEPT ![c] = "none"]
    /\ UNCHANGED <<up, next, checkpoint, pending_start, todo, buffer,
                   last_flush_failed, unsent, target, attempt, docs, delivered, lost>>

-----------------------------------------------------------------------------
(* The ticker, main and the CDC reader *)

\* Mutant: the ticker rests under backpressure.
TickUnlessFailed ==
    /\ up
    /\ ~last_flush_failed
    /\ pc[Ticker] = "idle"
    /\ StartFlush(Ticker, "tick")
    /\ UNCHANGED <<up, next, checkpoint, pending_start, tries, todo, buffer,
                   last_flush_failed, unsent, target, attempt, failed, docs,
                   delivered, lost>>

Tick ==
    /\ up
    /\ pc[Ticker] = "idle"
    /\ StartFlush(Ticker, "tick")
    /\ UNCHANGED <<up, next, checkpoint, pending_start, tries, todo, buffer,
                   last_flush_failed, unsent, target, attempt, failed, docs,
                   delivered, lost>>

\* Only the ticker sets and clears backpressure.
TickReturns ==
    /\ Returns(Ticker, "tick")
    /\ last_flush_failed' = failed[Ticker]
    /\ Returned(Ticker)
    /\ pc' = [pc EXCEPT ![Ticker] = "idle"]
    /\ UNCHANGED <<up, next, checkpoint, pending_start, tries, todo, buffer, unsent,
                   target, attempt, docs, delivered, lost>>

\* ctrl-c: flush once, whatever comes of it, and leave.
CtrlC ==
    /\ up
    /\ pc[Main] = "idle"
    /\ StartFlush(Main, "shutdown")
    /\ UNCHANGED <<up, next, checkpoint, pending_start, tries, todo, buffer,
                   last_flush_failed, unsent, target, attempt, failed, docs,
                   delivered, lost>>

ShutdownReturns == Returns(Main, "shutdown") /\ Exit

Crash == up /\ Exit

Restart ==
    /\ ~up
    /\ up' = TRUE
    /\ UNCHANGED <<next, checkpoint, pc, caller, pending_start, tries, todo, buffer,
                   last_flush_failed, unsent, target, attempt, failed, docs,
                   delivered, lost>>

\* The consumer has accepted the start bound of a range delete and not yet the
\* end bound, which is the next row.
BetweenBounds(c) ==
    /\ next[c] \in 2 .. Len(Streams[c])
    /\ CurrentRow(c).operation = "RangeEnd"
    /\ Streams[c][next[c] - 1].operation = "RangeStart"

\* The reader saves the rows the consumer has accepted as done, whatever the
\* consumer and the buffer hold.  It saves whole windows of time, and the two
\* rows of a range delete share their cdc$time, so it never saves between them.
SaveProgress(c) ==
    /\ up
    /\ ~BetweenBounds(c)
    /\ checkpoint[c] < next[c]
    /\ checkpoint' = [checkpoint EXCEPT ![c] = next[c]]
    /\ UNCHANGED <<up, next, pc, caller, pending_start, tries, todo, buffer,
                   last_flush_failed, unsent, target, attempt, failed, docs,
                   delivered, lost>>

Consume(c) ==
    \/ SkipPreImage(c)
    \/ RangeDeleteStart(c)
    \/ RangeDeleteEnd(c)
    \/ RouteForward(c)
    \/ Add(c)
    \/ ListIds(c)
    \/ ListIdsFails(c)
    \/ PrecheckReturns(c)
    \/ LimitReturns(c)
    \/ RangeReturns(c)
    \/ SaveProgress(c)

Flush(t) ==
    \/ TakeBuffer(t)
    \/ \E n \in Nodes : SendOk(t, n) \/ SendPartial(t, n) \/ SendError(t, n)

Next ==
    \/ \E c \in Consumers : Consume(c)
    \/ \E t \in Tasks : Flush(t)
    \/ Tick
    \/ TickReturns
    \/ CtrlC
    \/ ShutdownReturns
    \/ Crash
    \/ Restart

Spec == Init /\ [][Next]_vars

\* Tokio runs the tasks that can run, and a node that was sent a batch answers
\* or the connection breaks: the code sets no timeout of its own.
FairSpec ==
    /\ Spec
    /\ WF_vars(Tick) /\ WF_vars(TickReturns)
    /\ \A t \in Tasks : WF_vars(Flush(t))

-----------------------------------------------------------------------------
(* Properties *)

ForwardRows(c) ==
    {k \in 1 .. next[c] - 1 : Streams[c][k].operation \in DOMAIN OpType}

\* The item of a row that has been forwarded.
ForwardItem(c, k) ==
    [op_type |-> OpType[Streams[c][k].operation], id |-> Streams[c][k].id,
     writetime |-> Streams[c][k].writetime, from |-> <<c, k>>]

ItemQueue == Seq(Item)

\* The types of the variables.
TypeOK ==
    /\ up \in BOOLEAN
    /\ next \in [Consumers -> Nat \ {0}]
    /\ checkpoint \in [Consumers -> Nat \ {0}]
    /\ pc \in [Tasks -> {"idle", "add", "take", "send", "list"}]
    /\ caller \in [Tasks -> {"none", "precheck", "limit", "range", "tick", "shutdown"}]
    /\ pending_start \in [Consumers -> Row \union {NoStart}]
    /\ tries \in [Consumers -> 0 .. FlushRetries]
    /\ todo \in [Consumers -> ItemQueue]
    /\ buffer \in ItemQueue
    /\ last_flush_failed \in BOOLEAN
    /\ unsent \in [Tasks -> [Nodes -> ItemQueue]]
    /\ target \in [Tasks -> Nodes \union {NoNode}]
    /\ attempt \in [Tasks -> 0 .. MaxAttempts - 1]
    /\ failed \in [Tasks -> BOOLEAN]
    /\ docs \in [Ids -> Nat]
    /\ delivered \subseteq Item
    /\ lost \subseteq Item

\* The consumers that have filled the buffer and are about to take it.
AtLimit == {c \in Consumers : pc[c] = "take" /\ caller[c] = "limit"}

\* The limit check and the flush of Service::add are two critical sections, so
\* the buffer can grow past batch_limit, but only by one item for each consumer
\* that is between the two.
BufferBound == Len(buffer) < BatchLimit + Cardinality(AtLimit)

\* No item is in memory twice: a flush that takes the buffer leaves none of it
\* for the flushes that run beside it, whichever tasks they belong to.
InOnePlace ==
    /\ IsInjective(buffer)
    /\ \A t \in Tasks : /\ Held(t) \intersect ToSet(buffer) = {}
                        /\ \A n \in Nodes : IsInjective(unsent[t][n])
    /\ \A t, u \in Tasks : t # u => Held(t) \intersect Held(u) = {}

\* An accepted row is buffered, held by a flush, delivered, or was discarded by
\* a failed flush or by the end of a process: nothing is dropped in between.
Accounted ==
    \A c \in Consumers : \A k \in ForwardRows(c) :
        ForwardItem(c, k) \in InMemory \union delivered \union lost

\* A later row of a consumer never reaches a node while an earlier one waits in
\* the buffer, unless it waits there for the second time, after a restart: only
\* rows a flush holds can be overtaken, by the flushes that run beside it.  For a
\* partition delete, which looks at no writetime, the order of arrival is all that
\* keeps it from deleting the rows written after it.
BufferNotOvertaken ==
    \A c \in Consumers : \A j, k \in 1 .. Len(Streams[c]) :
        /\ j < k
        /\ {Streams[c][j].operation, Streams[c][k].operation} \subseteq DOMAIN OpType
        /\ ForwardItem(c, j) \in ToSet(buffer)
        /\ ForwardItem(c, k) \in delivered
        => ForwardItem(c, j) \in delivered \union lost

\* commit_range_delete lists a partition only when the rows its consumer has
\* accepted before have left the buffer.
RangeListAfterFlush ==
    \A c \in Consumers : pc[c] = "list" =>
        \A k \in ForwardRows(c) :
            ForwardItem(c, k) \in delivered \union lost
                                      \union UNION {Held(t) : t \in Tasks \ {c}}

\* "Flushes the batch service before querying the target node for document IDs":
\* the rows accepted before have been sent when the ids are listed.
RangeListSeesEarlierRows ==
    \A c \in Consumers : pc[c] = "list" =>
        \A k \in ForwardRows(c) : ForwardItem(c, k) \in delivered \union lost

\* "The checkpoint is committed only after every node batch in this flush cycle
\* has been delivered successfully": a row before the checkpoint, which no later
\* process reads again, has been delivered or is about to be.
CheckpointedNotLost ==
    \A c \in Consumers : \A k \in ForwardRows(c) :
        k < checkpoint[c] => ForwardItem(c, k) \in delivered \union InMemory

\* What is buffered is sent: the ticker empties the buffer even if the batch
\* limit is never reached and nodes fail.
BufferedGetsSent ==
    \A c \in Consumers : \A k \in 1 .. Len(Streams[c]) :
        Streams[c][k].operation \in DOMAIN OpType =>
            (ForwardItem(c, k) \in ToSet(buffer)
                ~> ForwardItem(c, k) \in delivered \union lost)
=============================================================================
