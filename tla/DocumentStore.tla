--------------------------- MODULE DocumentStore ----------------------------
(***************************************************************************)
(* What a node promises about its documents: the interface that            *)
(* service.proto describes and on which the ingestor and the gateway rely. *)
(* There is no lock here, no cache, no generation and no committer.        *)
(* Engine implements this specification.                                   *)
(*                                                                         *)
(* The store answers for the latest version of a document only while its   *)
(* reader has caught up (Settled): what a write meets before that, or      *)
(* after a delete, may be an earlier version, and the store does not say   *)
(* which.                                                                  *)
(***************************************************************************)
EXTENDS Integers, Sequences

CONSTANTS
    Ids,         \* document ids
    Cells,       \* the columns and collection elements of a document
    Operations,  \* the operations of IndexBatch requests
    I64Max,      \* the largest writetime that can be stored
    Scalar,      \* a payload that is not a JSON object
    None,        \* an absent partition key
    NoDoc        \* no document

VARIABLES
    inbox,    \* the operations of the current request that are still to do
    store,    \* the latest version of every document
    durable,  \* what survives the process
    visible,  \* what searches see
    now       \* the clock that documents expire by

storeVars == <<inbox, store, durable, visible, now>>

-----------------------------------------------------------------------------
Settled == visible = durable

\* The partition an operation belongs to.
Partition(op) == IF op.partition_key = None THEN op.id ELSE op.partition_key

\* The cells an upsert speaks of.
Named(op) == op.added \union op.removed
                 \union (IF op.payload = Scalar THEN Cells ELSE op.payload)

\* The cells it sets; a cell that is both removed and added is set.
Given(op) == op.added \union ((IF op.payload = Scalar THEN {} ELSE op.payload) \ op.removed)

Answerable(op) == Settled /\ store[op.id] # NoDoc

NotNewer(op) == op.writetime <= store[op.id].writetime

\* An operation is a request's next one and takes effect, at most, on what it
\* is entitled to: an answerable one only if it is newer.
Applies(op_type) ==
    /\ inbox # << >>
    /\ Head(inbox).op_type = op_type
    /\ Answerable(Head(inbox)) => ~NotNewer(Head(inbox))

-----------------------------------------------------------------------------
Init ==
    /\ inbox = << >>
    /\ store = [i \in Ids |-> NoDoc]
    /\ durable = store
    /\ visible = store
    /\ now = 0

Request ==
    /\ inbox = << >>
    /\ inbox' \in Seq(Operations)
    /\ UNCHANGED <<store, durable, visible, now>>

\* "If incoming_writetime < stored_writetime, the operation is ignored", and
\* while the store answers for the document, only then.
Ignore ==
    /\ inbox # << >>
    /\ LET op == Head(inbox)
       IN  /\ op.op_type # "PartitionDelete"
           /\ op.op_type # "Unspecified" /\ Answerable(op) => NotNewer(op)
    /\ inbox' = Tail(inbox)
    /\ UNCHANGED <<store, durable, visible, now>>

\* The new version has the operation's writetime, partition and cells, and the
\* cells it does not name are those of the version before.  An upsert leaves no
\* document at all if there is nothing to be stored or if the writer fails,
\* which also ends the request.  When the document expires is left open.
Put ==
    LET op  == Head(inbox)
        doc == store'[op.id]
    IN  /\ Applies("Upsert")
        /\ inbox' \in {Tail(inbox), << >>}
        /\ store' = [store EXCEPT ![op.id] = doc]
        /\ IF doc = NoDoc
           THEN op.payload = Scalar \/ op.writetime > I64Max \/ inbox' = << >>
           ELSE /\ inbox' = Tail(inbox)
                /\ doc.writetime = op.writetime
                /\ doc.partition_key = Partition(op)
                /\ \A c \in Given(op) : doc.body[c] = op.writetime
                /\ \A c \in op.removed \ op.added : doc.body[c] = 0
                /\ Answerable(op) => \A c \in Cells \ Named(op) :
                                         doc.body[c] = store[op.id].body[c]
        /\ UNCHANGED <<durable, visible, now>>

Remove ==
    /\ Applies("Delete")
    /\ inbox' = Tail(inbox)
    /\ store' = [store EXCEPT ![Head(inbox).id] = NoDoc]
    /\ UNCHANGED <<durable, visible, now>>

\* "Removes ALL documents sharing a partition key", whatever their writetime.
RemovePartition ==
    /\ inbox # << >>
    /\ Head(inbox).op_type = "PartitionDelete"
    /\ inbox' = Tail(inbox)
    /\ store' = [i \in Ids |->
           IF store[i] # NoDoc /\ store[i].partition_key = Partition(Head(inbox))
           THEN NoDoc ELSE store[i]]
    /\ UNCHANGED <<durable, visible, now>>

-----------------------------------------------------------------------------
Persist ==
    /\ durable' = store
    /\ UNCHANGED <<inbox, store, visible, now>>

\* Documents go when their time is over, and only then.
Expire ==
    /\ store' = [i \in Ids |->
           IF store[i] # NoDoc /\ store[i].expires_at <= now THEN NoDoc ELSE store[i]]
    /\ durable' \in {store', durable}
    /\ UNCHANGED <<inbox, visible, now>>

Publish ==
    /\ visible' = durable
    /\ UNCHANGED <<inbox, store, durable, now>>

Tick ==
    /\ now' = now + 1
    /\ UNCHANGED <<inbox, store, durable, visible>>

\* A crash takes what was not persisted, and nothing else.
Crash ==
    /\ inbox' = << >>
    /\ store' = durable
    /\ visible' = durable
    /\ UNCHANGED <<durable, now>>

Next ==
    \/ Request
    \/ Ignore
    \/ Put
    \/ Remove
    \/ RemovePartition
    \/ Persist
    \/ Expire
    \/ Publish
    \/ Tick
    \/ Crash

Spec == Init /\ [][Next]_storeVars
=============================================================================
