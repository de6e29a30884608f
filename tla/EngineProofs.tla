---------------------------- MODULE EngineProofs ----------------------------
(***************************************************************************)
(* Proofs about Engine, for every set of ids, operations and cells and     *)
(* every bound.                                                            *)
(***************************************************************************)
EXTENDS Engine, TLAPS

-----------------------------------------------------------------------------
(* The document operators *)

\* merge_json and apply_collection_deltas of a document give a document.
LEMMA MergeTypes ==
    ASSUME NEW base \in Object \union {Scalar}, NEW op \in Operations
    PROVE  ApplyCollectionDeltas(MergeJson(base, op.payload, op.writetime), op)
               \in Object \union {Scalar}
<1> DEFINE merged == MergeJson(base, op.payload, op.writetime)
<1>1. op.writetime \in Nat
  BY EngineAssumption DEF Operation
<1>2. merged \in Object \union {Scalar}
  BY <1>1 DEF MergeJson, Object
<1> HIDE DEF merged
<1>3. ApplyCollectionDeltas(merged, op) \in Object \union {Scalar}
  BY <1>1, <1>2 DEF ApplyCollectionDeltas, Object
<1> QED
  BY <1>3 DEF merged

\* The expiry of an upsert is an integer, saturated at i64::MAX.
LEMMA ExpiresAtType ==
    ASSUME NEW op \in Operations
    PROVE  ExpiresAt(op) \in Int /\ ExpiresAt(op) <= I64Max
<1>1. op.writetime \in Nat /\ op.cdc_ttl \in Int \union {None}
  BY EngineAssumption DEF Operation
<1>2. CASE op.cdc_ttl = None
  BY <1>2, EngineAssumption DEF ExpiresAt
<1>3. CASE op.cdc_ttl # None
  <2>1. op.cdc_ttl \in Int
    BY <1>1, <1>3
  <2> DEFINE micros == IF op.cdc_ttl > 0 THEN op.cdc_ttl * MicrosPerSec ELSE 0
  <2>2. micros \in Int
    BY <2>1, EngineAssumption
  <2> HIDE DEF micros
  <2>3. ExpiresAt(op) = IF op.writetime + micros <= I64Max
                        THEN op.writetime + micros ELSE I64Max
    BY <1>3 DEF ExpiresAt, micros
  <2> QED
    BY <1>1, <2>2, <2>3, EngineAssumption
<1> QED
  BY <1>2, <1>3

\* An upsert onto a stored document, or onto none, gives a document.
LEMMA UpsertedType ==
    ASSUME NEW existing \in Doc \union {NoDoc}, NEW op \in Operations
    PROVE  Upserted(existing, op) \in Doc
<1> DEFINE base == IF existing = NoDoc THEN [c \in Cells |-> 0] ELSE existing.body
<1>1. base \in Object \union {Scalar}
  BY DEF Doc, Object
<1> HIDE DEF base
<1>2. ApplyCollectionDeltas(MergeJson(base, op.payload, op.writetime), op)
          \in Object \union {Scalar}
  BY <1>1, MergeTypes
<1>3. ExpiresAt(op) \in Int
  BY ExpiresAtType
<1>4. op.writetime \in Nat
  BY EngineAssumption DEF Operation
<1>5. PartitionKey(op) \in PartitionKeys
  BY EngineAssumption DEF Operation, PartitionKey
<1> QED
  BY <1>2, <1>3, <1>4, <1>5 DEF Upserted, Doc, base

\* The cache and the snapshot hold documents, so the lookup finds one or none.
LEMMA FindType ==
    ASSUME TypeOK, NEW id \in Ids
    PROVE  FindCachedOrIndexed(id) \in Doc \union {NoDoc}
BY DEF TypeOK, FindCachedOrIndexed, StoredDocs, CachedDoc

\* A running listing owes only ids of its own, whatever the writer comes to hold.
LEMMA ListingType ==
    ASSUME TypeOK, NEW docs
    PROVE  ListingUnder(docs) \in Listing \union {NoListing}
<1>1. CASE listing = NoListing
  BY <1>1 DEF ListingUnder
<1>2. CASE listing # NoListing
  <2>1. listing \in Listing
    BY <1>2 DEF TypeOK
  <2>2. ListingUnder(docs) =
          [listing EXCEPT !.due = listing.due \intersect InPartition(docs, listing.partition_key)]
    BY <1>2 DEF ListingUnder
  <2>3. listing.due \intersect InPartition(docs, listing.partition_key) \in SUBSET Ids
    BY DEF InPartition
  <2> QED
    BY <2>1, <2>2, <2>3 DEF Listing
<1> QED
  BY <1>1, <1>2

\* The next operation of a running batch is one of Operations.
LEMMA HeadType ==
    ASSUME TypeOK, NextOp
    PROVE  /\ Head(batch) \in Operations
           /\ Head(batch) \in Operation
           /\ Head(batch).id \in Ids
           /\ Tail(batch) \in Seq(Operations)
BY EngineAssumption DEF TypeOK, NextOp, Operation

-----------------------------------------------------------------------------
(* Type correctness *)

LEMMA TypeInit == Init => TypeOK
BY EngineAssumption DEF Init, TypeOK, NoDocs, StoredDocs, Generation

LEMMA TypeNext ==
    ASSUME TypeOK, [Next]_vars
    PROVE  TypeOK'
<1> USE DEF TypeOK
<1>1. CASE BatchStart
  <2>1. batch' \in Seq(Operations)
    BY <1>1, EngineAssumption DEF BatchStart
  <2> QED
    BY <1>1, <2>1 DEF BatchStart
<1>2. CASE SkipOp
  BY <1>2, HeadType DEF SkipOp, NextOp, Counted
<1>3. CASE Upsert
  <2> DEFINE op  == Head(batch)
             doc == Upserted(FindCachedOrIndexed(op.id), op)
  <2>1. NextOp
    BY <1>3 DEF Upsert
  <2>2. op \in Operations /\ op.id \in Ids /\ Tail(batch) \in Seq(Operations)
    BY <2>1, HeadType
  <2>3. doc \in Doc
    BY <2>2, FindType, UpsertedType
  <2>4. /\ uncommitted_docs' = [uncommitted_docs EXCEPT ![op.id] =
                [stored |-> doc, generation |-> current_generation]]
        /\ index' = [index EXCEPT ![op.id] = IF Parses(doc) THEN doc ELSE NoDoc]
        /\ \E docs : listing' = ListingUnder(docs)
        /\ Counted(Parses(doc))
    BY <1>3 DEF Upsert, SetIndex
  <2> HIDE DEF doc, op
  <2>5. index' \in StoredDocs
    BY <2>2, <2>3, <2>4 DEF StoredDocs
  <2>6. uncommitted_docs' \in [Ids -> CachedDoc \union {NoDoc}]
    <3>1. [stored |-> doc, generation |-> current_generation] \in CachedDoc
      BY <2>3 DEF CachedDoc
    <3> QED
      BY <2>2, <2>4, <3>1
  <2>7. listing' \in Listing \union {NoListing}
    BY <2>4, ListingType
  <2> QED
    BY <2>1, <2>2, <2>4, <2>5, <2>6, <2>7 DEF Counted, NextOp, StoredDocs
<1>4. CASE AddDocumentFails
  <2> DEFINE op  == Head(batch)
             doc == Upserted(FindCachedOrIndexed(op.id), op)
  <2>1. NextOp
    BY <1>4 DEF AddDocumentFails
  <2>2. op \in Operations /\ op.id \in Ids
    BY <2>1, HeadType
  <2>3. doc \in Doc
    BY <2>2, FindType, UpsertedType
  <2>4. /\ uncommitted_docs' = [uncommitted_docs EXCEPT ![op.id] =
                [stored |-> doc, generation |-> current_generation]]
        /\ index' = [index EXCEPT ![op.id] = NoDoc]
        /\ \E docs : listing' = ListingUnder(docs)
    BY <1>4 DEF AddDocumentFails, SetIndex
  <2> HIDE DEF doc, op
  <2>5. index' \in StoredDocs
    BY <2>2, <2>4 DEF StoredDocs
  <2>6. uncommitted_docs' \in [Ids -> CachedDoc \union {NoDoc}]
    <3>1. [stored |-> doc, generation |-> current_generation] \in CachedDoc
      BY <2>3 DEF CachedDoc
    <3> QED
      BY <2>2, <2>4, <3>1
  <2>7. listing' \in Listing \union {NoListing}
    BY <2>4, ListingType
  <2> QED
    BY <1>4, <2>5, <2>6, <2>7 DEF AddDocumentFails, StoredDocs
<1>5. CASE Delete
  <2>1. NextOp
    BY <1>5 DEF Delete
  <2>2. Head(batch).id \in Ids /\ Tail(batch) \in Seq(Operations)
    BY <2>1, HeadType
  <2>3. listing' \in Listing \union {NoListing}
    BY <1>5, ListingType DEF Delete, SetIndex
  <2> QED
    BY <1>5, <2>1, <2>2, <2>3 DEF Delete, SetIndex, Counted, NextOp, StoredDocs
<1>6. CASE PartitionDelete
  <2>1. NextOp
    BY <1>6 DEF PartitionDelete
  <2>2. Tail(batch) \in Seq(Operations)
    BY <2>1, HeadType
  <2>3. listing' \in Listing \union {NoListing}
    BY <1>6, ListingType DEF PartitionDelete, SetIndex
  <2>4. index' \in StoredDocs
    BY <1>6 DEF PartitionDelete, SetIndex, StoredDocs
  <2>5. uncommitted_docs' \in [Ids -> CachedDoc \union {NoDoc}]
    BY <1>6 DEF PartitionDelete
  <2> QED
    BY <1>6, <2>1, <2>2, <2>3, <2>4, <2>5 DEF PartitionDelete, Counted, NextOp
<1>7. CASE BatchEnd
  BY <1>7 DEF BatchEnd
<1>8. CASE CommitOk
  BY <1>8, EngineAssumption DEF CommitOk, Generation
<1>9. CASE EvictCommitted
  <2>1. uncommitted_docs' \in [Ids -> CachedDoc \union {NoDoc}]
    BY <1>9 DEF EvictCommitted
  <2> QED
    BY <1>9, <2>1 DEF EvictCommitted
<1>10. CASE CommitFails
  BY <1>10, EngineAssumption DEF CommitFails, Generation
<1>11. CASE Prune
  <2>1. Unexpired(index) \in StoredDocs
    BY DEF Unexpired, StoredDocs
  <2>2. listing' \in Listing \union {NoListing}
    BY <1>11, ListingType DEF Prune, SetIndex
  <2> QED
    BY <1>11, <2>1, <2>2 DEF Prune, SetIndex
<1>12. CASE Reload
  BY <1>12 DEF Reload
<1>13. CASE Tick
  BY <1>13, EngineAssumption DEF Tick
<1>14. CASE ListBegin
  BY <1>14, EngineAssumption DEF ListBegin, Listing, CachedIds, InPartition
<1>15. CASE ListEnd
  BY <1>15 DEF ListEnd
<1>16. CASE Restart
  BY <1>16, EngineAssumption DEF Restart, NoDocs, Generation, StoredDocs
<1>17. CASE UNCHANGED vars
  BY <1>17 DEF vars
<1> QED
  BY <1>1, <1>2, <1>3, <1>4, <1>5, <1>6, <1>7, <1>8, <1>9, <1>10, <1>11,
     <1>12, <1>13, <1>14, <1>15, <1>16, <1>17 DEF Next

\* The engine's variables keep their types: the generation counter wraps
\* instead of leaving its range, and no operation is pending without the lock.
THEOREM TypeCorrect == Spec => []TypeOK
<1>1. TypeOK /\ [Next]_vars => TypeOK'
  BY TypeNext
<1> QED
  BY TypeInit, <1>1, PTL DEF Spec

-----------------------------------------------------------------------------
(***************************************************************************)
(* The inductive invariant.  CacheCoversUncommitted is not inductive by    *)
(* itself: an eviction preserves it only because nothing changes between   *)
(* the commit and the eviction (EvictAfterCommit), and a partition delete  *)
(* only because the cache names the partition the writer's document is in  *)
(* (CacheMirrorsIndex).                                                    *)
(***************************************************************************)

EvictAfterCommit == writer = "evict" => committed = index

\* Tantivy holds only what parse_json accepted.
StoredParse == \A i \in Ids : /\ index[i] # NoDoc => Parses(index[i])
                              /\ committed[i] # NoDoc => Parses(committed[i])

\* An id that a listing owes is in the partition, and either the listing has
\* it from the cache or it is on disk under the same partition key.
ListingOwes ==
    listing # NoListing =>
        \A i \in listing.due :
            /\ i \in InPartition(index, listing.partition_key)
            /\ \/ i \in listing.seen
               \/ i \in InPartition(committed, listing.partition_key)

CacheInv == /\ TypeOK
            /\ CacheCoversUncommitted
            /\ CacheMirrorsIndex
            /\ EvictAfterCommit
            /\ StoredParse

LEMMA CacheInit == Init => CacheInv
BY TypeInit DEF Init, CacheInv, CacheCoversUncommitted, CacheMirrorsIndex,
   EvictAfterCommit, StoredParse, NoDocs

\* An upsert that is applied puts the same document into the cache and, if it
\* parses and is added, into the writer; nothing else changes there.
LEMMA CacheUpsert ==
    ASSUME CacheInv, NEW id \in Ids, NEW doc \in Doc,
           uncommitted_docs' = [uncommitted_docs EXCEPT ![id] =
                [stored |-> doc, generation |-> current_generation]],
           \/ index' = [index EXCEPT ![id] = NoDoc]
           \/ Parses(doc) /\ index' = [index EXCEPT ![id] = doc],
           committed' = committed,
           writer' \in {"free", "batch"},
           TypeOK'
    PROVE  CacheInv'
<1> USE DEF CacheInv
<1> DEFINE entry == [stored |-> doc, generation |-> current_generation]
<1>1. entry.stored = doc /\ entry # NoDoc
  BY EngineAssumption DEF CachedDoc, TypeOK
<1> HIDE DEF entry
<1>2. /\ uncommitted_docs'[id] = entry
      /\ index'[id] \in {NoDoc, doc}
      /\ \A i \in Ids \ {id} : /\ uncommitted_docs'[i] = uncommitted_docs[i]
                               /\ index'[i] = index[i]
  BY DEF TypeOK, StoredDocs, entry
<1>3. CacheCoversUncommitted'
  BY <1>1, <1>2 DEF CacheCoversUncommitted
<1>4. CacheMirrorsIndex'
  BY <1>1, <1>2 DEF CacheMirrorsIndex
<1>5. StoredParse'
  <2> SUFFICES ASSUME NEW i \in Ids, index'[i] # NoDoc
               PROVE  Parses(index'[i])
    BY DEF StoredParse, Parses
  <2>1. CASE i = id
    BY <1>2, <2>1 DEF TypeOK, StoredDocs
  <2>2. CASE i # id
    BY <1>2, <2>2 DEF StoredParse
  <2> QED
    BY <2>1, <2>2
<1> QED
  BY <1>3, <1>4, <1>5 DEF EvictAfterCommit

LEMMA CacheNext ==
    ASSUME CacheInv, [Next]_vars
    PROVE  CacheInv'
<1>1. TypeOK /\ TypeOK'
  BY TypeNext DEF CacheInv
<1> USE DEF CacheInv, CacheCoversUncommitted, CacheMirrorsIndex,
            EvictAfterCommit, StoredParse, Parses
<1>2. CASE BatchStart
  BY <1>1, <1>2 DEF BatchStart
<1>3. CASE SkipOp
  BY <1>1, <1>3 DEF SkipOp, NextOp, Counted
<1>4. CASE Upsert
  <2> DEFINE op  == Head(batch)
             doc == Upserted(FindCachedOrIndexed(op.id), op)
  <2>1. op \in Operations /\ op.id \in Ids /\ writer = "batch"
    BY <1>1, <1>4, HeadType DEF Upsert, NextOp
  <2>2. doc \in Doc
    BY <1>1, <2>1, FindType, UpsertedType
  <2>3. /\ uncommitted_docs' = [uncommitted_docs EXCEPT ![op.id] =
                [stored |-> doc, generation |-> current_generation]]
        /\ \/ index' = [index EXCEPT ![op.id] = NoDoc]
           \/ Parses(doc) /\ index' = [index EXCEPT ![op.id] = doc]
        /\ committed' = committed
        /\ writer' = writer
    BY <1>4 DEF Upsert, SetIndex, Counted
  <2> HIDE DEF op, doc
  <2> QED
    BY <1>1, <2>1, <2>2, <2>3, CacheUpsert
<1>5. CASE AddDocumentFails
  <2> DEFINE op  == Head(batch)
             doc == Upserted(FindCachedOrIndexed(op.id), op)
  <2>1. op \in Operations /\ op.id \in Ids
    BY <1>1, <1>5, HeadType DEF AddDocumentFails
  <2>2. doc \in Doc
    BY <1>1, <2>1, FindType, UpsertedType
  <2>3. /\ uncommitted_docs' = [uncommitted_docs EXCEPT ![op.id] =
                [stored |-> doc, generation |-> current_generation]]
        /\ index' = [index EXCEPT ![op.id] = NoDoc]
        /\ committed' = committed
        /\ writer' = "free"
    BY <1>5 DEF AddDocumentFails, SetIndex
  <2> HIDE DEF op, doc
  <2> QED
    BY <1>1, <2>1, <2>2, <2>3, CacheUpsert
<1>6. CASE Delete
  <2>1. Head(batch).id \in Ids /\ writer = "batch"
    BY <1>1, <1>6, HeadType DEF Delete, NextOp
  <2> QED
    BY <1>1, <1>6, <2>1 DEF Delete, SetIndex, Counted, TypeOK, StoredDocs
<1>7. CASE PartitionDelete
  <2> DEFINE pk == PartitionKey(Head(batch))
  <2>1. /\ \A i \in Ids : index'[i] = IF index[i] # NoDoc /\ index[i].partition_key = pk
                                     THEN NoDoc ELSE index[i]
        /\ \A i \in Ids : uncommitted_docs'[i] =
               IF uncommitted_docs[i] # NoDoc /\ uncommitted_docs[i].stored.partition_key = pk
               THEN NoDoc ELSE uncommitted_docs[i]
        /\ committed' = committed
        /\ writer = "batch" /\ writer' = writer
    BY <1>7 DEF PartitionDelete, SetIndex, Counted, InPartition, NextOp
  <2> HIDE DEF pk
  <2> QED
    BY <1>1, <2>1
<1>8. CASE BatchEnd
  BY <1>1, <1>8 DEF BatchEnd
<1>9. CASE CommitOk
  BY <1>1, <1>9 DEF CommitOk
<1>10. CASE EvictCommitted
  <2>1. \A i \in Ids : uncommitted_docs'[i] \in {NoDoc, uncommitted_docs[i]}
    BY <1>10 DEF EvictCommitted
  <2>2. committed = index /\ UNCHANGED <<index, committed>> /\ writer' = "free"
    BY <1>10 DEF EvictCommitted
  <2> QED
    BY <1>1, <2>1, <2>2
<1>11. CASE CommitFails
  BY <1>1, <1>11 DEF CommitFails
<1>12. CASE Prune
  <2>1. \A i \in Ids : Unexpired(index)[i] \in {NoDoc, index[i]}
    BY DEF Unexpired
  <2>2. /\ index' = Unexpired(index)
        /\ committed' \in {Unexpired(index), committed}
        /\ UNCHANGED <<uncommitted_docs, writer>>
        /\ writer = "free"
    BY <1>12 DEF Prune, SetIndex
  <2> QED
    BY <1>1, <2>1, <2>2
<1>13. CASE Reload
  BY <1>1, <1>13 DEF Reload
<1>14. CASE Tick
  BY <1>1, <1>14 DEF Tick
<1>15. CASE ListBegin
  BY <1>1, <1>15 DEF ListBegin
<1>16. CASE ListEnd
  BY <1>1, <1>16 DEF ListEnd
<1>17. CASE Restart
  BY <1>1, <1>17 DEF Restart, NoDocs
<1>18. CASE UNCHANGED vars
  BY <1>1, <1>18 DEF vars
<1> QED
  BY <1>2, <1>3, <1>4, <1>5, <1>6, <1>7, <1>8, <1>9, <1>10, <1>11, <1>12,
     <1>13, <1>14, <1>15, <1>16, <1>17, <1>18 DEF Next

LEMMA CacheInvariant == Spec => []CacheInv
<1>1. CacheInv /\ [Next]_vars => CacheInv'
  BY CacheNext
<1> QED
  BY CacheInit, <1>1, PTL DEF Spec

\* No document is evicted before a commit holds it.
THEOREM CacheCovers == Spec => []CacheCoversUncommitted
<1>1. CacheInv => CacheCoversUncommitted
  BY DEF CacheInv
<1> QED
  BY CacheInvariant, <1>1, PTL

\* The cache never contradicts the writer.
THEOREM CacheMirrors == Spec => []CacheMirrorsIndex
<1>1. CacheInv => CacheMirrorsIndex
  BY DEF CacheInv
<1> QED
  BY CacheInvariant, <1>1, PTL

-----------------------------------------------------------------------------
(* Listings *)

\* When the writer's documents change and the disk does not, a listing goes on
\* owing only what it owed and what is still there.
LEMMA ListingKept ==
    ASSUME TypeOK, ListingOwes, NEW docs, SetIndex(docs), committed' = committed
    PROVE  ListingOwes'
<1>1. CASE listing = NoListing
  BY <1>1 DEF SetIndex, ListingUnder, ListingOwes
<1>2. CASE listing # NoListing
  <2>1. listing \in Listing
    BY <1>2 DEF TypeOK
  <2>2. /\ listing'.due \subseteq listing.due \intersect InPartition(docs, listing.partition_key)
        /\ listing'.seen = listing.seen
        /\ listing'.partition_key = listing.partition_key
    BY <1>2, <2>1 DEF SetIndex, ListingUnder, Listing
  <2> QED
    BY <1>2, <2>2 DEF ListingOwes, SetIndex, InPartition
<1> QED
  BY <1>1, <1>2

LEMMA ListingInit == Init => ListingOwes
BY DEF Init, ListingOwes

LEMMA ListingNext ==
    ASSUME CacheInv, ListingOwes, [Next]_vars
    PROVE  ListingOwes'
<1>1. TypeOK
  BY DEF CacheInv
<1>2. CASE BatchStart \/ SkipOp \/ BatchEnd \/ EvictCommitted \/ CommitFails \/ Reload
           \/ Tick \/ UNCHANGED vars
  <2>1. UNCHANGED <<index, committed, listing>>
    BY <1>2 DEF BatchStart, SkipOp, Counted, BatchEnd, EvictCommitted, CommitFails,
                Reload, Tick, vars
  <2> QED
    BY <2>1 DEF ListingOwes, InPartition
<1>3. CASE Upsert \/ AddDocumentFails \/ Delete \/ PartitionDelete
  <2>1. committed' = committed /\ \E docs : SetIndex(docs)
    BY <1>3 DEF Upsert, AddDocumentFails, Delete, PartitionDelete, Counted
  <2> QED
    BY <1>1, <2>1, ListingKept
<1>4. CASE CommitOk
  BY <1>4 DEF CommitOk, ListingOwes, InPartition
<1>5. CASE Prune
  <2>1. CASE committed' = committed
    BY <1>1, <1>5, <2>1, ListingKept DEF Prune
  <2>2. CASE committed' = Unexpired(index)
    <3>1. index' = committed' /\ listing' = ListingUnder(index')
      BY <1>5, <2>2 DEF Prune, SetIndex
    <3>2. CASE listing = NoListing
      BY <3>1, <3>2 DEF ListingUnder, ListingOwes
    <3>3. CASE listing # NoListing
      <4>1. listing \in Listing
        BY <1>1, <3>3 DEF TypeOK
      <4>2. /\ listing'.due \subseteq InPartition(index', listing.partition_key)
            /\ listing'.partition_key = listing.partition_key
        BY <3>1, <3>3, <4>1 DEF ListingUnder, Listing
      <4> QED
        BY <3>1, <4>2 DEF ListingOwes, InPartition
    <3> QED
      BY <3>2, <3>3
  <2> QED
    BY <1>5, <2>1, <2>2 DEF Prune
<1>6. CASE ListBegin
  <2> SUFFICES ASSUME NEW pk \in ListPartitions,
                      listing' = [partition_key |-> pk,
                                  seen          |-> CachedIds(pk),
                                  due           |-> InPartition(index, pk)],
                      NEW i \in InPartition(index, pk)
               PROVE  i \in CachedIds(pk) \/ i \in InPartition(committed, pk)
    BY <1>6 DEF ListBegin, ListingOwes, InPartition
  <2>1. i \in Ids /\ index[i] # NoDoc /\ index[i].partition_key = pk
    BY DEF InPartition
  <2>2. CASE uncommitted_docs[i] = NoDoc
    BY <2>1, <2>2 DEF CacheInv, CacheCoversUncommitted, InPartition
  <2>3. CASE uncommitted_docs[i] # NoDoc
    BY <2>1, <2>3 DEF CacheInv, CacheMirrorsIndex, CachedIds
  <2> QED
    BY <2>2, <2>3
<1>7. CASE ListEnd
  BY <1>7 DEF ListEnd, ListingOwes
<1>8. CASE Restart
  BY <1>8 DEF Restart, ListingOwes
<1> QED
  BY <1>2, <1>3, <1>4, <1>5, <1>6, <1>7, <1>8 DEF Next

\* A listing whose snapshot is current returns every document that has been in
\* the partition since the listing began.
THEOREM Listings == Spec => []ListingComplete
<1>1. CacheInv /\ ListingOwes /\ [Next]_vars => ListingOwes'
  BY ListingNext
<1>2. ListingOwes => ListingComplete
  BY DEF ListingOwes, ListingComplete, ReaderCaughtUp, ListedIds
<1> QED
  BY ListingInit, CacheInvariant, <1>1, <1>2, PTL DEF Spec

-----------------------------------------------------------------------------
(* Last writer wins *)

\* With the reader caught up, find_cached_or_indexed finds the writer's own
\* document wherever the writer has one.
LEMMA FindIsLatest ==
    ASSUME CacheInv, ReaderCaughtUp, NEW i \in Ids, index[i] # NoDoc
    PROVE  FindCachedOrIndexed(i) = index[i]
BY DEF CacheInv, CacheCoversUncommitted, CacheMirrorsIndex, ReaderCaughtUp,
       FindCachedOrIndexed

\* Only the four arms of process_batch's match advance the reply's counts.
LEMMA OpDoneCases ==
    ASSUME TypeOK, [Next]_vars, OpDone
    PROVE  SkipOp \/ Upsert \/ Delete \/ PartitionDelete
<1>1. processed \in Nat /\ skipped \in Nat
  BY DEF TypeOK
<1>2. ~AddDocumentFails /\ ~BatchEnd /\ ~Restart
  BY <1>1 DEF OpDone, AddDocumentFails, BatchEnd, Restart
<1>3. ~BatchStart /\ ~CommitOk /\ ~EvictCommitted /\ ~CommitFails
  BY <1>1 DEF OpDone, BatchStart, CommitOk, EvictCommitted, CommitFails
<1>4. ~Prune /\ ~Reload /\ ~Tick /\ ~ListBegin /\ ~ListEnd /\ ~UNCHANGED vars
  BY <1>1 DEF OpDone, Prune, Reload, Tick, ListBegin, ListEnd, vars
<1> QED
  BY <1>2, <1>3, <1>4 DEF Next

LEMMA OlderIgnoredStep ==
    ASSUME CacheInv, [Next]_vars, OpDone, ReaderCaughtUp
    PROVE  OlderIgnored(Head(batch))
<1> DEFINE op == Head(batch)
<1>1. TypeOK
  BY DEF CacheInv
<1>2. SkipOp \/ Upsert \/ Delete \/ PartitionDelete
  BY <1>1, OpDoneCases
<1>3. op.id \in Ids /\ op \in Operation
  BY <1>1, <1>2, HeadType DEF SkipOp, Upsert, Delete, PartitionDelete
<1> HIDE DEF op
<1> SUFFICES ASSUME TargetsDoc(op), op.writetime < index[op.id].writetime
             PROVE  index'[op.id] = index[op.id]
  BY DEF OlderIgnored, op
<1>4. index[op.id] # NoDoc /\ FindCachedOrIndexed(op.id) = index[op.id]
  BY <1>3, FindIsLatest DEF TargetsDoc
<1>5. op.writetime \in Nat /\ index[op.id].writetime \in Nat
  BY <1>1, <1>3, <1>4 DEF TypeOK, StoredDocs, Doc, Operation
<1>6. SkippedByWritetime(FindCachedOrIndexed(op.id), op)
  BY <1>4, <1>5 DEF SkippedByWritetime
<1>7. SkipOp
  BY <1>2, <1>6 DEF Upsert, Delete, PartitionDelete, TargetsDoc, op
<1> QED
  BY <1>7 DEF SkipOp

\* service.proto's last-writer-wins rule holds of upserts and deletes whenever
\* the reader has loaded the last commit.
THEOREM LastWriterWins == Spec => OlderIgnoredWhenCaughtUp
<1>1. CacheInv /\ [Next]_vars
        => [OpDone /\ ReaderCaughtUp => OlderIgnored(Head(batch))]_vars
  BY OlderIgnoredStep
<1> QED
  BY CacheInvariant, <1>1, PTL DEF Spec, OlderIgnoredWhenCaughtUp

\* Merging a patch onto an object leaves the cells it does not touch alone.
LEMMA UpsertedKeeps ==
    ASSUME NEW existing \in Doc, existing.body # Scalar, NEW op \in Operations,
           NEW c \in Cells \ Touched(op)
    PROVE  Upserted(existing, op).body[c] = existing.body[c]
<1> DEFINE merged == MergeJson(existing.body, op.payload, op.writetime)
<1>1. c \notin op.added /\ c \notin op.removed /\ op.payload # Scalar /\ c \notin op.payload
  BY DEF Touched
<1>2. existing \notin {NoDoc} /\ op.writetime \in Nat /\ existing.body \in Object
  BY EngineAssumption DEF Operation, Doc
<1>3. merged = [d \in Cells |-> IF d \in op.payload THEN op.writetime ELSE existing.body[d]]
  BY <1>1 DEF MergeJson
<1>4. merged \in Object /\ merged # Scalar
  BY <1>2, <1>3, EngineAssumption DEF Object
<1>5. merged[c] = existing.body[c]
  BY <1>1, <1>3
<1> HIDE DEF merged
<1>6. ApplyCollectionDeltas(merged, op)[c] = merged[c]
  BY <1>1, <1>4 DEF ApplyCollectionDeltas
<1>7. Upserted(existing, op).body = ApplyCollectionDeltas(merged, op)
  BY <1>2 DEF Upserted, merged
<1> QED
  BY <1>5, <1>6, <1>7

LEMMA UpsertKeepsStep ==
    ASSUME CacheInv, [Next]_vars, OpDone, ReaderCaughtUp,
           NEW i \in Ids, index[i] # NoDoc, index'[i] # NoDoc,
           NEW c \in Cells \ Touched(Head(batch))
    PROVE  index'[i].body[c] = index[i].body[c]
<1>1. TypeOK
  BY DEF CacheInv
<1>2. SkipOp \/ Upsert \/ Delete \/ PartitionDelete
  BY <1>1, OpDoneCases
<1>3. Head(batch).id \in Ids /\ Head(batch) \in Operations
  BY <1>1, <1>2, HeadType DEF SkipOp, Upsert, Delete, PartitionDelete
<1>4. CASE SkipOp
  BY <1>4 DEF SkipOp
<1>5. CASE Upsert
  <2> DEFINE op  == Head(batch)
             doc == Upserted(FindCachedOrIndexed(op.id), op)
  <2>1. index' = [index EXCEPT ![op.id] = IF Parses(doc) THEN doc ELSE NoDoc]
    BY <1>5 DEF Upsert, SetIndex
  <2>2. CASE i = op.id
    <3>1. index'[i] = doc
      BY <1>1, <2>1, <2>2 DEF TypeOK, StoredDocs
    <3>2. FindCachedOrIndexed(op.id) = index[i]
      BY <2>2, FindIsLatest
    <3>3. index[i] \in Doc /\ index[i].body # Scalar
      BY <1>1 DEF TypeOK, StoredDocs, CacheInv, StoredParse, Parses
    <3> QED
      BY <1>3, <3>1, <3>2, <3>3, UpsertedKeeps
  <2>3. CASE i # op.id
    BY <1>1, <2>1, <2>3 DEF TypeOK, StoredDocs
  <2> QED
    BY <2>2, <2>3
<1>6. CASE Delete
  BY <1>1, <1>3, <1>6 DEF Delete, SetIndex, TypeOK, StoredDocs
<1>7. CASE PartitionDelete
  BY <1>7 DEF PartitionDelete, SetIndex
<1> QED
  BY <1>2, <1>4, <1>5, <1>6, <1>7

\* No update is lost in a merge whenever the reader has loaded the last commit:
\* an upsert keeps every cell of the writer's document that it does not name.
THEOREM NoLostCells == Spec => UpsertKeepsOtherCells
<1>1. CacheInv /\ [Next]_vars
        => [OpDone /\ ReaderCaughtUp
              => \A i \in Ids : index[i] # NoDoc /\ index'[i] # NoDoc
                   => \A c \in Cells \ Touched(Head(batch)) :
                          index'[i].body[c] = index[i].body[c]]_vars
  BY UpsertKeepsStep
<1> QED
  BY CacheInvariant, <1>1, PTL DEF Spec, UpsertKeepsOtherCells

-----------------------------------------------------------------------------
(* Refinement *)

\* What an upsert stores, cell by cell: the cells it gives have its writetime,
\* those it only removes are gone, the others are those of the document it is
\* merged onto.
LEMMA UpsertedCells ==
    ASSUME NEW existing \in Doc \union {NoDoc}, NEW op \in Operations, op.payload # Scalar
    PROVE  /\ Upserted(existing, op).body # Scalar
           /\ \A c \in Store!Given(op) : Upserted(existing, op).body[c] = op.writetime
           /\ \A c \in op.removed \ op.added : Upserted(existing, op).body[c] = 0
<1> DEFINE base   == IF existing = NoDoc THEN [c \in Cells |-> 0] ELSE existing.body
           merged == MergeJson(base, op.payload, op.writetime)
           body   == ApplyCollectionDeltas(merged, op)
<1>1. /\ op.writetime \in Nat
      /\ op.payload \in SUBSET Cells
      /\ op.added \in SUBSET Cells /\ op.removed \in SUBSET Cells
  BY EngineAssumption DEF Operation
<1>2. base \in Object \union {Scalar}
  BY DEF Doc, Object
<1> HIDE DEF base
<1>3. merged = [c \in Cells |-> IF c \in op.payload THEN op.writetime
                                ELSE IF base = Scalar THEN 0 ELSE base[c]]
  BY DEF MergeJson
<1>4. merged \in Object
  BY <1>1, <1>2, <1>3 DEF Object
<1> HIDE DEF merged
<1>5. body = [c \in Cells |-> IF c \in op.added THEN op.writetime
                              ELSE IF c \in op.removed THEN 0 ELSE merged[c]]
  BY <1>4, EngineAssumption DEF ApplyCollectionDeltas
<1>6. body \in Object
  BY <1>1, <1>4, <1>5 DEF Object
<1>7. Upserted(existing, op).body = body
  BY DEF Upserted, body, merged, base
<1> HIDE DEF body
<1>8. body # Scalar
  BY <1>6, EngineAssumption
<1>9. \A c \in Store!Given(op) : body[c] = op.writetime
  BY <1>1, <1>3, <1>5 DEF Store!Given
<1>10. \A c \in op.removed \ op.added : body[c] = 0
  BY <1>1, <1>5
<1> QED
  BY <1>7, <1>8, <1>9, <1>10

\* Where the store answers for a document, process_batch looks at that version.
LEMMA AnswerableIsFound ==
    ASSUME CacheInv, NEW op \in Operations, Store!Answerable(op)
    PROVE  /\ FindCachedOrIndexed(op.id) = index[op.id]
           /\ index[op.id] \in Doc /\ index[op.id].body # Scalar
           /\ SkippedByWritetime(index[op.id], op) <=> Store!NotNewer(op)
<1>1. op.id \in Ids /\ op.writetime \in Nat
  BY EngineAssumption DEF Operation
<1>2. ReaderCaughtUp /\ index[op.id] # NoDoc
  BY DEF Store!Answerable, Store!Settled, ReaderCaughtUp
<1>3. FindCachedOrIndexed(op.id) = index[op.id]
  BY <1>1, <1>2, FindIsLatest
<1>4. index[op.id] \in Doc /\ index[op.id].body # Scalar
  BY <1>1, <1>2 DEF CacheInv, TypeOK, StoredDocs, StoredParse, Parses
<1>5. index[op.id].writetime \in Nat
  BY <1>4 DEF Doc
<1> QED
  BY <1>1, <1>2, <1>3, <1>4, <1>5 DEF SkippedByWritetime, Store!NotNewer

LEMMA UpsertIsPut ==
    ASSUME CacheInv, Upsert
    PROVE  Store!Put
<1> DEFINE op       == Head(batch)
           existing == FindCachedOrIndexed(op.id)
           doc      == Upserted(existing, op)
<1>1. TypeOK /\ NextOp
  BY DEF CacheInv, Upsert
<1>2. op \in Operations /\ op \in Operation /\ op.id \in Ids
  BY <1>1, HeadType
<1>3. /\ op.op_type = "Upsert"
      /\ ~SkippedByWritetime(existing, op)
      /\ index' = [index EXCEPT ![op.id] = IF Parses(doc) THEN doc ELSE NoDoc]
      /\ batch' = Tail(batch)
      /\ UNCHANGED <<committed, searcher, now>>
  BY DEF Upsert, SetIndex, Counted
<1>4. existing \in Doc \union {NoDoc} /\ doc \in Doc
  BY <1>1, <1>2, FindType, UpsertedType
<1>5. doc.writetime = op.writetime /\ doc.partition_key = Store!Partition(op)
  BY DEF Upserted, PartitionKey, Store!Partition
<1>6. batch # << >>
  BY <1>1 DEF NextOp
<1>7. Store!Applies("Upsert")
  BY <1>2, <1>3, <1>6, AnswerableIsFound DEF Store!Applies
<1>8. ASSUME Parses(doc)
      PROVE  /\ op.payload # Scalar
             /\ \A c \in Store!Given(op) : doc.body[c] = op.writetime
             /\ \A c \in op.removed \ op.added : doc.body[c] = 0
             /\ Store!Answerable(op) => \A c \in Cells \ Store!Named(op) :
                                            doc.body[c] = index[op.id].body[c]
  <2>1. op.payload # Scalar
    BY <1>8 DEF Parses, Upserted, MergeJson, ApplyCollectionDeltas
  <2>2. Store!Answerable(op) => \A c \in Cells \ Store!Named(op) :
                                   doc.body[c] = index[op.id].body[c]
    <3> SUFFICES ASSUME Store!Answerable(op), NEW c \in Cells \ Store!Named(op)
                 PROVE  doc.body[c] = index[op.id].body[c]
      OBVIOUS
    <3>1. existing = index[op.id] /\ existing \in Doc /\ existing.body # Scalar
      BY <1>2, AnswerableIsFound
    <3>2. c \in Cells \ Touched(op)
      BY DEF Touched, Store!Named
    <3> QED
      BY <1>2, <3>1, <3>2, UpsertedKeeps
  <2> QED
    BY <1>2, <1>4, <2>1, <2>2, UpsertedCells
<1>9. ASSUME ~Parses(doc)
      PROVE  op.payload = Scalar \/ op.writetime > I64Max
  <2>1. CASE doc.body = Scalar
    BY <1>2, <1>4, <2>1, UpsertedCells
  <2>2. CASE ~(doc.writetime <= I64Max)
    BY <1>2, <1>5, <2>2, EngineAssumption DEF Operation
  <2> QED
    BY <1>9, <2>1, <2>2 DEF Parses
<1> HIDE DEF doc, existing
<1>10. index'[op.id] = IF Parses(doc) THEN doc ELSE NoDoc
  BY <1>1, <1>2, <1>3 DEF TypeOK, StoredDocs
<1>11. index' = [index EXCEPT ![op.id] = index'[op.id]]
  BY <1>3, <1>10
<1>12. doc # NoDoc
  BY <1>4, EngineAssumption
<1>13. CASE Parses(doc)
  <2>1. index'[op.id] = doc
    BY <1>10, <1>13
  <2> QED
    BY <1>3, <1>5, <1>7, <1>8, <1>11, <1>12, <1>13, <2>1 DEF Store!Put
<1>14. CASE ~Parses(doc)
  <2>1. index'[op.id] = NoDoc
    BY <1>10, <1>14
  <2> QED
    BY <1>3, <1>7, <1>9, <1>11, <1>14, <2>1 DEF Store!Put
<1> QED
  BY <1>13, <1>14

LEMMA AddDocumentFailsIsPut ==
    ASSUME CacheInv, AddDocumentFails
    PROVE  Store!Put
<1> DEFINE op == Head(batch)
<1>1. TypeOK /\ NextOp
  BY DEF CacheInv, AddDocumentFails
<1>2. op \in Operations /\ op.id \in Ids
  BY <1>1, HeadType
<1>3. /\ op.op_type = "Upsert"
      /\ ~SkippedByWritetime(FindCachedOrIndexed(op.id), op)
      /\ index' = [index EXCEPT ![op.id] = NoDoc]
      /\ batch' = << >>
      /\ UNCHANGED <<committed, searcher, now>>
  BY DEF AddDocumentFails, SetIndex
<1>4. batch # << >>
  BY <1>1 DEF NextOp
<1>5. Store!Applies("Upsert")
  BY <1>2, <1>3, <1>4, AnswerableIsFound DEF Store!Applies
<1>6. index'[op.id] = NoDoc
  BY <1>1, <1>2, <1>3 DEF TypeOK, StoredDocs
<1> QED
  BY <1>3, <1>5, <1>6 DEF Store!Put

LEMMA StoreStep ==
    ASSUME CacheInv, [Next]_vars
    PROVE  [Store!Next]_Store!storeVars
<1>1. TypeOK
  BY DEF CacheInv
<1> USE DEF Store!Next, Store!storeVars
<1>2. CASE BatchStart
  <2>1. batch = << >>
    BY <1>1, <1>2 DEF BatchStart, TypeOK
  <2>2. batch' \in Seq(Operations)
    BY <1>2, EngineAssumption DEF BatchStart
  <2> QED
    BY <1>2, <2>1, <2>2 DEF BatchStart, Store!Request
<1>3. CASE SkipOp
  <2>1. NextOp /\ batch # << >>
    BY <1>3 DEF SkipOp, NextOp
  <2>2. Head(batch) \in Operations
    BY <1>1, <2>1, HeadType
  <2>3. Head(batch).op_type # "PartitionDelete"
    BY <1>3 DEF SkipOp
  <2>4. Head(batch).op_type # "Unspecified" /\ Store!Answerable(Head(batch))
            => Store!NotNewer(Head(batch))
    BY <1>3, <2>2, AnswerableIsFound DEF SkipOp
  <2> QED
    BY <1>3, <2>1, <2>3, <2>4 DEF SkipOp, Counted, Store!Ignore
<1>4. CASE Upsert
  BY <1>4, UpsertIsPut
<1>5. CASE AddDocumentFails
  BY <1>5, AddDocumentFailsIsPut
<1>6. CASE Delete
  <2>1. NextOp /\ batch # << >>
    BY <1>6 DEF Delete, NextOp
  <2>2. Head(batch) \in Operations
    BY <1>1, <2>1, HeadType
  <2>3. Store!Applies("Delete")
    BY <1>6, <2>1, <2>2, AnswerableIsFound DEF Delete, Store!Applies
  <2> QED
    BY <1>6, <2>3 DEF Delete, SetIndex, Counted, Store!Remove
<1>7. CASE PartitionDelete
  <2>1. batch # << >>
    BY <1>7 DEF PartitionDelete, NextOp
  <2>2. index' = [i \in Ids |->
            IF index[i] # NoDoc /\ index[i].partition_key = Store!Partition(Head(batch))
            THEN NoDoc ELSE index[i]]
    BY <1>7 DEF PartitionDelete, SetIndex, InPartition, PartitionKey, Store!Partition
  <2> QED
    BY <1>7, <2>1, <2>2 DEF PartitionDelete, Counted, Store!RemovePartition
<1>8. CASE CommitOk
  BY <1>8 DEF CommitOk, Store!Persist
<1>9. CASE Prune
  BY <1>9 DEF Prune, SetIndex, Unexpired, Expired, Store!Expire
<1>10. CASE Reload
  BY <1>10 DEF Reload, Store!Publish
<1>11. CASE Tick
  BY <1>11 DEF Tick, Store!Tick
<1>12. CASE Restart
  BY <1>12 DEF Restart, Store!Crash
<1>13. CASE BatchEnd \/ EvictCommitted \/ CommitFails \/ ListBegin \/ ListEnd
                    \/ UNCHANGED vars
  BY <1>13 DEF BatchEnd, EvictCommitted, CommitFails, ListBegin, ListEnd, vars
<1> QED
  BY <1>2, <1>3, <1>4, <1>5, <1>6, <1>7, <1>8, <1>9, <1>10, <1>11, <1>12, <1>13 DEF Next

\* The engine implements DocumentStore: what a node does with its lock, cache,
\* generations, committer, pruner and reader is, seen from outside, a store of
\* the latest versions.
THEOREM Implements == Spec => ImplementsStore
<1>1. Init => Store!Init
  BY DEF Init, NoDocs, Store!Init
<1>2. CacheInv /\ [Next]_vars => [Store!Next]_Store!storeVars
  BY StoreStep
<1> QED
  BY CacheInvariant, <1>1, <1>2, PTL DEF Spec, ImplementsStore, Store!Spec
=============================================================================
