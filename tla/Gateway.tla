------------------------------ MODULE Gateway -------------------------------
(***************************************************************************)
(* A search: the gateway's scatter_gather (gateway/src/querier/core.rs)    *)
(* and, on every node, the Search handler (node/src/service/core.rs) and   *)
(* Engine::search (node/src/engine/core.rs); what a query matches is in    *)
(* Query.                                                                  *)
(*                                                                         *)
(* Searches share no state, so one at a time is enough.  What can happen   *)
(* while it runs: nodes answer in any order or fail, and documents come    *)
(* and go, so that two nodes answer from different moments.                *)
(*                                                                         *)
(* External: Tantivy's BM25 scores, with the boosts in them.  A document   *)
(* has a score, and a document's number is its address, by which Tantivy   *)
(* breaks ties.                                                            *)
(***************************************************************************)
EXTENDS Query, Integers, FiniteSets, SequencesExt

CONSTANTS
    NodeCount,      \* the clients of the gateway, in the order of its list
    Docs,           \* document addresses
    TextOf,         \* the words of a document
    Scores,         \* relevance scores
    Partitions,     \* partition_key strings, taken to be one per partition: keys
                    \* with ':' in their values can join to the same string
    PartitionOf,    \* the partition of a document
    NodeOf,         \* the node the ingestor routes a partition to
    FacetValues,    \* values of faceted fields
    FacetOf,        \* what a document has in a field: a scalar, the strings of
                    \* an array, or nothing for null, objects and no such field
    Requests,       \* the SearchRequests of clients
    GroupCap,       \* 10_000: documents a grouped search looks at
    U32,            \* 2^32
    Nothing,        \* no request, no reply yet
    Failed,         \* an error
    Panicked        \* no answer at all: the handler has panicked

Nodes == 1 .. NodeCount

Request == [query : Seq(Token), quoted : BOOLEAN,
            default_fields : SUBSET Fields, boost_fields : SUBSET Fields,
            limit : 0 .. U32 - 1, offset : 0 .. U32 - 1,
            consistency : {"Any", "All"}, group_by_partition : BOOLEAN,
            facet_fields : Seq(Fields)]

\* The buckets of all FacetResults, by field and value.
Buckets == Fields \X FacetValues

Response == [hits : Seq(Docs), total_hits : Nat, facets : [Buckets -> Nat]]

ASSUME GatewayAssumption ==
    /\ NodeCount \in Nat \ {0}
    /\ Docs \subseteq Nat /\ IsFiniteSet(Docs)
    /\ TextOf \in [Docs -> Text]
    /\ Scores \subseteq Nat
    /\ PartitionOf \in [Docs -> Partitions]
    /\ NodeOf \in [Partitions -> Nodes]
    /\ FacetOf \in [Docs -> [Fields -> Seq(FacetValues)]]
    /\ U32 \in Nat \ {0}
    /\ GroupCap \in Nat \ {0}
    /\ Requests \subseteq Request
    /\ {Nothing, Failed, Panicked} \intersect (Request \union Response) = {}

Home(d) == NodeOf[PartitionOf[d]]

VARIABLES
    score,     \* the score of a document for the query
    live,      \* the documents in the nodes' snapshots that have not expired
    request,   \* the request that is being served
    replies,   \* per node, its response, Failed or Nothing
    result,    \* the gateway's answer: a response, Failed, Panicked or Nothing
    snapshot   \* what a node had when it answered, for the properties

vars == <<score, live, request, replies, result, snapshot>>

-----------------------------------------------------------------------------
(* Engine::search on one node *)

Before(d, e) == \/ score[d] > score[e]
                \/ score[d] = score[e] /\ d < e

\* The elements of S from first to last: the k-th has k - 1 others before it.
InOrder(S, before(_, _)) ==
    [k \in 1 .. Cardinality(S) |->
        CHOOSE d \in S : Cardinality({e \in S : before(e, d)}) = k - 1]

Ranked(docs) == InOrder(docs, Before)

FirstN(seq, n) == SubSeq(seq, 1, IF n < Len(seq) THEN n ELSE Len(seq))

\* skip(offset).take(limit)
Page(seq, offset, limit) ==
    IF offset >= Len(seq) THEN << >>
    ELSE SubSeq(seq, offset + 1, IF offset + limit < Len(seq) THEN offset + limit
                                                              ELSE Len(seq))

\* TopDocs::with_limit(limit).and_offset(offset)
TopHits(docs, offset, limit) == Page(Ranked(docs), offset, limit)

\* A document is kept if its partition has not been seen.
KeepUnseen(grouped, d) ==
    IF \E e \in ToSet(grouped) : PartitionOf[e] = PartitionOf[d]
    THEN grouped ELSE Append(grouped, d)

\* Mutant: the cap is applied in index order.
GroupedHitsOfFirst(docs, offset, limit) ==
    LET first == FirstN(InOrder(docs, <), GroupCap)
    IN  Page(FoldLeft(KeepUnseen, << >>, Ranked(ToSet(first))), offset, limit)

\* Of the first GroupCap documents, the first of each partition.
GroupedHits(docs, offset, limit) ==
    LET all_scored == FirstN(Ranked(docs), GroupCap)
    IN  Page(FoldLeft(KeepUnseen, << >>, all_scored), offset, limit)

Hits(docs, req) ==
    IF req.group_by_partition THEN GroupedHits(docs, req.offset, req.limit)
                              ELSE TopHits(docs, req.offset, req.limit)

Places(seq, x) == {i \in DOMAIN seq : seq[i] = x}

\* The times a bucket is incremented: once for each document, each place of the
\* field in facet_fields and each place of the value in the document's array.
Increments(docs, req, bucket) ==
    LET field == bucket[1]
        value == bucket[2]
    IN  UNION {{d} \X (Places(req.facet_fields, field) \X Places(FacetOf[d][field], value)) :
                   d \in docs}

\* Mutant: only the hits of the page are counted.
FacetsOfHits(docs, req) ==
    [bucket \in Buckets |-> Cardinality(Increments(ToSet(Hits(docs, req)), req, bucket))]

\* All live documents that match, whatever limit and grouping say; no buckets
\* without facet_fields.
Facets(docs, req) ==
    [bucket \in Buckets |-> Cardinality(Increments(docs, req, bucket))]

\* TopDocs::with_limit panics at 0, which the handler rules out for `limit` but
\* not for the number of matches that a grouped search passes.
SearchFails(docs, req) == \/ req.limit = 0
                          \/ req.group_by_partition /\ docs = {}

Search(docs, req) ==
    [hits       |-> Hits(docs, req),
     total_hits |-> Cardinality(docs),
     facets     |-> Facets(docs, req)]

-----------------------------------------------------------------------------
(* scatter_gather *)

\* Mutant: every node is asked for a page of its own.
NodeRequestPage(req) == [req EXCEPT !.offset = 0]

\* limit + offset, in 32 bits.
NodeRequest(req) == [req EXCEPT !.limit = (req.limit + req.offset) % U32,
                                !.offset = 0]

Succeeded == {n \in Nodes : replies[n] \notin {Nothing, Failed}}

AllHits ==
    FlattenSeq([n \in Nodes |-> IF n \in Succeeded THEN replies[n].hits ELSE << >>])

\* sort_by is stable: equal scores stay in the order of the nodes.
SortedByScore(hits) ==
    LET before(i, j) == \/ score[hits[i]] > score[hits[j]]
                        \/ score[hits[i]] = score[hits[j]] /\ i < j
        places       == 1 .. Len(hits)
        order        == InOrder(places, before)
    IN  [i \in places |-> hits[order[i]]]

MergedFacets ==
    [v \in Buckets |-> MapThenSumSet(LAMBDA n : replies[n].facets[v], Succeeded)]

Gathered ==
    [hits       |-> Page(SortedByScore(AllHits), request.offset, request.limit),
     total_hits |-> MapThenSumSet(LAMBDA n : replies[n].total_hits, Succeeded),
     facets     |-> MergedFacets]

Consistent(consistency) ==
    IF consistency = "All" THEN Succeeded = Nodes ELSE Succeeded # {}

-----------------------------------------------------------------------------
Init ==
    /\ score \in [Docs -> Scores]
    /\ live \in SUBSET Docs
    /\ request = Nothing
    /\ replies = [n \in Nodes |-> Nothing]
    /\ result = Nothing
    /\ snapshot = [n \in Nodes |-> {}]

Receive ==
    /\ request = Nothing
    /\ request' \in Requests
    /\ UNCHANGED <<score, live, replies, result, snapshot>>

Waiting(n) == request # Nothing /\ result = Nothing /\ replies[n] = Nothing

\* With overflow checks, as in a debug build, the addition panics instead.
AdditionPanics ==
    /\ request # Nothing /\ result = Nothing
    /\ replies = [n \in Nodes |-> Nothing]
    /\ request.limit + request.offset >= U32
    /\ result' = Panicked
    /\ UNCHANGED <<score, live, request, replies, snapshot>>

NodeAnswers(n) ==
    LET held == {d \in live : Home(d) = n}
        docs == {d \in held : Matches(TextOf[d], request)}
        req  == NodeRequest(request)
    IN  /\ Waiting(n)
        /\ replies' = [replies EXCEPT ![n] =
               IF SearchFails(docs, req) THEN Failed ELSE Search(docs, req)]
        /\ snapshot' = [snapshot EXCEPT ![n] = held]
        /\ UNCHANGED <<score, live, request, result>>

\* No connection, or an error of Tantivy's.
NodeFails(n) ==
    /\ Waiting(n)
    /\ replies' = [replies EXCEPT ![n] = Failed]
    /\ UNCHANGED <<score, live, request, result, snapshot>>

\* Mutant: nodes that have failed are waited for.
GatherSucceeded ==
    /\ request # Nothing /\ result = Nothing
    /\ Succeeded = Nodes
    /\ result' = Gathered
    /\ UNCHANGED <<score, live, request, replies, snapshot>>

\* join_all: when every node has answered.
Gather ==
    /\ request # Nothing /\ result = Nothing
    /\ \A n \in Nodes : replies[n] # Nothing
    /\ result' = IF Consistent(request.consistency) THEN Gathered ELSE Failed
    /\ UNCHANGED <<score, live, request, replies, snapshot>>

\* Mutant: the nodes' replies are kept for the next request.
ReplyKeepsReplies ==
    /\ result # Nothing
    /\ request' = Nothing
    /\ result' = Nothing
    /\ UNCHANGED <<score, live, replies, snapshot>>

\* search_handler replies.
Reply ==
    /\ result # Nothing
    /\ request' = Nothing
    /\ replies' = [n \in Nodes |-> Nothing]
    /\ result' = Nothing
    /\ snapshot' = [n \in Nodes |-> {}]
    /\ UNCHANGED <<score, live>>

\* A reload or the clock: a document appears or goes.
DocumentsChange ==
    /\ request # Nothing /\ result = Nothing
    /\ \E d \in Docs : live' = IF d \in live THEN live \ {d}
                                                     ELSE live \union {d}
    /\ UNCHANGED <<score, request, replies, result, snapshot>>

Next ==
    \/ Receive
    \/ AdditionPanics
    \/ \E n \in Nodes : NodeAnswers(n) \/ NodeFails(n)
    \/ Gather
    \/ Reply
    \/ DocumentsChange

Spec == Init /\ [][Next]_vars

\* The runtime polls join_all when its last future is done.  Nothing is said of
\* the nodes: there is no timeout on a channel or a call.
FairSpec == Spec /\ WF_vars(Gather)

-----------------------------------------------------------------------------
(* Properties: an answer against one big index that holds what each node had
   when it answered. *)

Answered == result \notin {Nothing, Failed, Panicked} /\ Straight(request)

Found(n) == {d \in snapshot[n] : Meant(TextOf[d], request)}

Whole == UNION {Found(n) : n \in IF request.consistency = "All" THEN Nodes ELSE Succeeded}

Outranks(d, e) ==
    \/ score[d] > score[e]
    \/ score[d] = score[e] /\ (Home(d) < Home(e) \/ (Home(d) = Home(e) /\ d < e))

\* The best of their partition, wherever its documents are.
Winners == {d \in Whole : \A e \in Whole :
                PartitionOf[e] = PartitionOf[d] => ~Outranks(e, d)}

Eligible == IF request.group_by_partition THEN Winners ELSE Whole

\* The types of the variables; a request starts with no node's reply.
TypeOK ==
    /\ score \in [Docs -> Scores]
    /\ live \subseteq Docs
    /\ request \in Request \union {Nothing}
    /\ replies \in [Nodes -> Response \union {Failed, Nothing}]
    /\ result \in Response \union {Failed, Panicked, Nothing}
    /\ snapshot \in [Nodes -> SUBSET Docs]
    /\ request = Nothing => /\ replies = [n \in Nodes |-> Nothing]
                            /\ result = Nothing

\* "We request limit + offset from every node to ensure global sorting accuracy":
\* a page is exactly that page of the ranking of all live documents, so the
\* pages of one index tile it whatever node a document is on.  Short of overflow
\* and, for grouped searches, of the cap.
PageExact ==
    /\ Answered
    /\ request.limit + request.offset < U32
    /\ request.group_by_partition => \A n \in Nodes : Cardinality(Found(n)) <= GroupCap
    => result.hits = Page(InOrder(Eligible, Outranks), request.offset, request.limit)

\* Grouped hits are one per partition and the best of it, without any
\* deduplication across nodes, and even where the cap cuts the search short.
GroupedHitsWin ==
    Answered /\ request.group_by_partition
        => ToSet(result.hits) \subseteq Winners /\ IsInjective(result.hits)

\* total_hits counts every live document the query means, once, beyond the page
\* and before grouping, with ALL those of every node: the expansion over fields,
\* weighted or not, and the rewriting of prefix and fuzzy clauses lose none and
\* add none, on any node.
TotalExact == Answered => result.total_hits = Cardinality(Whole)

\* The documents that a bucket is about.
Containing(bucket) ==
    {d \in Whole : /\ bucket[1] \in ToSet(request.facet_fields)
                   /\ bucket[2] \in ToSet(FacetOf[d][bucket[1]])}

\* A field that is asked for twice, or a document with the value twice in its array.
Repeated(bucket) ==
    \/ ~IsInjective(request.facet_fields)
    \/ \E d \in Whole : ~IsInjective(FacetOf[d][bucket[1]])

\* "Number of matching documents that contain this value": a facet's bucket counts
\* the documents that total_hits counts, of all answering nodes, beyond the page and
\* before grouping, and none for fields that were not asked for.  The loop of
\* Engine::search counts occurrences, so this is exact only where nothing is
\* repeated; otherwise a bucket may count a document several times, never too few.
FacetsWhole ==
    Answered => \A bucket \in Buckets :
        /\ result.facets[bucket] >= Cardinality(Containing(bucket))
        /\ ~Repeated(bucket) => result.facets[bucket] = Cardinality(Containing(bucket))

\* Every search is answered, with hits or with an error, if only every node that
\* is asked answers or fails at some time: join_all outlasts failures, panics of
\* nodes and wrapped sums, in any order.  Only where limit + offset overflows may
\* there be no answer, since a debug build of the gateway panics there.  The premise
\* is needed for ANY as well, where one silent node holds up the answers of all
\* others.
AnsweredIfNodesEnd ==
    (\A n \in Nodes : []<>~Waiting(n)) =>
        (request # Nothing
            ~> \/ result \notin {Nothing, Panicked}
               \/ result = Panicked /\ request.limit + request.offset >= U32)
=============================================================================
