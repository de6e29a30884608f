--------------------------- MODULE IngestorProofs ---------------------------
(***************************************************************************)
(* Where the rows of the CDC log are, for any number of consumers, nodes,  *)
(* documents and rows: what the shared buffer and the flushes beside each  *)
(* other keep, lose and reorder.                                           *)
(***************************************************************************)
EXTENDS Ingestor, Induction, FiniteSetTheorems, SequenceTheorems

\* Where a consumer is in its row, and what it has there.
ConsumerAt(c) ==
    \/ /\ pc[c] = "idle"
       /\ caller[c] = "none" /\ todo[c] = << >>
    \/ /\ pc[c] = "add"
       /\ caller[c] = "none" /\ todo[c] # << >>
    \/ /\ pc[c] \in {"take", "send"}
       /\ caller[c] \in {"precheck", "limit"} /\ todo[c] # << >>
    \/ /\ pc[c] \in {"take", "send"}
       /\ caller[c] = "range" /\ todo[c] = << >>
       /\ tries[c] > 0 /\ pending_start[c] # NoStart
       /\ CurrentRow(c).operation = "RangeEnd"
    \/ /\ pc[c] = "list"
       /\ caller[c] = "none" /\ todo[c] = << >>
       /\ pending_start[c] # NoStart
       /\ CurrentRow(c).operation = "RangeEnd"

\* The items a consumer has made of its row.
TodoOK(c) ==
    /\ IsInjective(todo[c])
    /\ \A item \in ToSet(todo[c]) : item.from = <<c, next[c]>>
    /\ todo[c] # << >> /\ CurrentRow(c).operation \in DOMAIN OpType
           => todo[c] = <<ForwardItem(c, next[c])>>

ConsumerOK(c) == checkpoint[c] <= next[c] /\ ConsumerAt(c) /\ TodoOK(c)

Control ==
    /\ \A c \in Consumers : ConsumerOK(c)
    /\ \A t \in Tasks : pc[t] # "send" => unsent[t] = NoBatches

\* The items a consumer has still to enqueue: in a flush at the limit the first
\* of them has been.
Pending(c) == IF caller[c] = "limit" THEN ToSet(Tail(todo[c])) ELSE ToSet(todo[c])

\* The items the flushes hold.
InFlight == UNION {Held(t) : t \in Tasks}

Known == InMemory \union delivered \union lost

\* What is in memory comes from rows a consumer has been through, or from the
\* row it is at and then is not among the items still to be enqueued.
Placed(item, c) ==
    \/ item.from[2] < next[c]
    \/ item.from[2] = next[c] /\ todo[c] # << >> /\ item \notin Pending(c)

MemoryPlaced == \A item \in InMemory : Placed(item, item.from[1])

\* The item a flush at the limit was called with.
LimitKnown == \A c \in Consumers : caller[c] = "limit" => Head(todo[c]) \in Known

\* The rows before that of a known item are known.
PrefixKnown ==
    \A item \in Known : \A c \in Consumers : \A j \in Nat \ {0} :
        /\ c = item.from[1] /\ j < item.from[2]
        /\ Streams[c][j].operation \in DOMAIN OpType
        => ForwardItem(c, j) \in Known

\* Behind an item that waits in the buffer for the first time, nothing of its
\* consumer has left the buffer.
NothingAhead ==
    \A c \in Consumers : \A j, k \in Nat \ {0} :
        /\ j < k
        /\ Streams[c][j].operation \in DOMAIN OpType
        /\ ForwardItem(c, j) \in ToSet(buffer)
        /\ ForwardItem(c, k) \in delivered \union InFlight
        => ForwardItem(c, j) \in delivered \union lost

\* Once the flush of commit_range_delete has taken the buffer, none of the rows
\* accepted before is there.
RangeAt(c) == pc[c] = "list" \/ (pc[c] = "send" /\ caller[c] = "range")

RangeTaken ==
    \A c \in Consumers : RangeAt(c) =>
        \A k \in ForwardRows(c) : ForwardItem(c, k) \in delivered \union lost \union InFlight

Memory ==
    /\ BufferBound
    /\ InOnePlace
    /\ MemoryPlaced
    /\ LimitKnown
    /\ Accounted
    /\ PrefixKnown
    /\ NothingAhead
    /\ RangeTaken

IndInv == TypeOK /\ Control /\ Memory

-----------------------------------------------------------------------------
(* Sequences and folds *)

LEMMA AppendFacts ==
    ASSUME NEW S, NEW s \in Seq(S), NEW e \in S
    PROVE  /\ Append(s, e) \in Seq(S)
           /\ Len(Append(s, e)) = Len(s) + 1
           /\ ToSet(Append(s, e)) = ToSet(s) \union {e}
           /\ IsInjective(s) /\ e \notin ToSet(s) => IsInjective(Append(s, e))
<1>1. /\ Append(s, e) \in Seq(S)
      /\ Len(Append(s, e)) = Len(s) + 1
      /\ DOMAIN s = 1 .. Len(s) /\ Len(s) \in Nat
      /\ DOMAIN Append(s, e) = 1 .. Len(s) + 1
      /\ \A i \in 1 .. Len(s) : Append(s, e)[i] = s[i]
      /\ Append(s, e)[Len(s) + 1] = e
  OBVIOUS
<1> DEFINE a == Append(s, e)
<1> HIDE DEF a
<1>2. \A i \in 1 .. Len(s) + 1 : i \in 1 .. Len(s) \/ i = Len(s) + 1
  BY <1>1
<1>3. ToSet(a) = ToSet(s) \union {e}
  <2>1. \A x \in ToSet(a) : x \in ToSet(s) \union {e}
    BY <1>1, <1>2 DEF ToSet, a
  <2>2. \A i \in 1 .. Len(s) : i \in 1 .. Len(s) + 1
    BY <1>1
  <2>3. \A x \in ToSet(s) \union {e} : x \in ToSet(a)
    BY <1>1, <2>2 DEF ToSet, a
  <2> QED
    BY <2>1, <2>3
<1>4. ASSUME IsInjective(s), e \notin ToSet(s)
      PROVE  IsInjective(a)
  <2>1. \A i \in 1 .. Len(s) : s[i] # e
    BY <1>1, <1>4 DEF ToSet
  <2> QED
    BY <1>1, <1>2, <1>4, <2>1 DEF IsInjective, a
<1> QED
  BY <1>1, <1>3, <1>4 DEF a

LEMMA ToSetType ==
    ASSUME NEW S, NEW s \in Seq(S)
    PROVE  ToSet(s) \subseteq S
BY DEF ToSet

LEMMA TargetNodeType ==
    ASSUME NEW item \in Item
    PROVE  TargetNode(item) \in Nodes
BY IngestorAssumption DEF TargetNode, Item

LEMMA AppliedType ==
    ASSUME NEW stored \in [Ids -> Nat], NEW item \in Item
    PROVE  Applied(stored, item) \in [Ids -> Nat]
<1>1. item.op_type \in {"Upsert", "Delete", "PartitionDelete"} /\ item.writetime \in Nat
  BY DEF Item
<1> QED
  BY <1>1 DEF Applied

\* A fold from the left is the last of its iterates.
LEMMA FoldApplied ==
    ASSUME NEW stored \in [Ids -> Nat], NEW items \in Seq(Item)
    PROVE  FoldLeft(Applied, stored, items) \in [Ids -> Nat]
<1> DEFINE n == Len(items)
           A == [Ids -> Nat]
           F == [p \in A \X Item |-> Applied(p[1], p[2])]
           Equations(it) == [s \in SUBSET (1 .. n) |->
                               IF s = {} THEN stored
                               ELSE Applied(it[s \ {Max(s)}], items[Max(s)])]
           iter == CHOOSE it : it = Equations(it)
<1>1. n \in Nat /\ items \in [1 .. n -> Item] /\ DOMAIN items = 1 .. n
  OBVIOUS
<1>2. F \in [A \X Item -> A]
  BY AppliedType
<1>3. PICK it \in [SUBSET (1 .. n) -> A] : Iterates(it, n, stored, items, F)
  <2> HIDE DEF F, n, A
  <2>1. stored \in A
    BY DEF A
  <2> QED
    BY <1>1, <1>2, <2>1, IteratesExist
<1>4. ASSUME NEW s \in SUBSET (1 .. n), s # {}
      PROVE  F[<<it[s \ {Max(s)}], items[Max(s)]>>] = Applied(it[s \ {Max(s)}], items[Max(s)])
  <2>1. Max(s) \in 1 .. n
    BY <1>1, <1>4, MaxOfRange
  <2>2. items[Max(s)] \in Item /\ it[s \ {Max(s)}] \in A
    BY <1>1, <1>3, <2>1
  <2> HIDE DEF A
  <2> QED
    BY <2>2
<1>5. it = Equations(it)
  <2> HIDE DEF F, A, n
  <2> QED
    BY <1>3, <1>4 DEF Iterates
<1>6. iter = Equations(iter)
  BY <1>5
<1>7. FoldLeft(Applied, stored, items) = iter[1 .. n]
  BY <1>1 DEF FoldLeft, MapThenFoldSet
<1> HIDE DEF iter
<1>8. iter[{}] = stored
  BY <1>6
<1>9. ASSUME NEW k \in 1 .. n
      PROVE  iter[1 .. k] = Applied(iter[1 .. k - 1], items[k])
  <2>1. /\ 1 .. k # {} /\ 1 .. k \in SUBSET (1 .. n)
        /\ Max(1 .. k) = k /\ (1 .. k) \ {k} = 1 .. k - 1
    BY <1>1, MaxUpTo
  <2>2. iter[1 .. k] = Applied(iter[(1 .. k) \ {Max(1 .. k)}], items[Max(1 .. k)])
    BY <1>6, <2>1
  <2> QED
    BY <2>1, <2>2, Zenon
<1> DEFINE S == {k \in 0 .. n : iter[1 .. k] \in A}
<1>10. 0 \in S
  <2>1. 1 .. 0 = {}
    OBVIOUS
  <2> QED
    BY <1>1, <1>8, <2>1
<1>11. ASSUME NEW k \in 1 .. n, k - 1 \in S
       PROVE  k \in S
  <2>1. items[k] \in Item /\ iter[1 .. k - 1] \in A
    BY <1>1, <1>11
  <2>2. iter[1 .. k] \in A
    BY <1>9, <2>1, AppliedType
  <2> QED
    BY <2>2
<1>12. n \in S
  <2> HIDE DEF S
  <2>1. 0 .. n \subseteq S
    BY <1>1, <1>10, <1>11, UpTo
  <2> QED
    BY <1>1, <2>1
<1> QED
  BY <1>7, <1>12

LEMMA BatchedType ==
    ASSUME NEW batches \in [Nodes -> Seq(Item)], NEW item \in Item
    PROVE  Batched(batches, item) \in [Nodes -> Seq(Item)]
BY TargetNodeType DEF Batched

\* The batches of the nodes hold the items of the buffer, each in one place.
LEMMA Grouped ==
    ASSUME NEW items \in Seq(Item)
    PROVE  /\ GroupByNode(items) \in [Nodes -> Seq(Item)]
           /\ UNION {ToSet(GroupByNode(items)[m]) : m \in Nodes} = ToSet(items)
           /\ IsInjective(items) => \A m \in Nodes : IsInjective(GroupByNode(items)[m])
<1> DEFINE n == Len(items)
           A == [Nodes -> Seq(Item)]
           F == [p \in A \X Item |-> Batched(p[1], p[2])]
           Equations(it) == [s \in SUBSET (1 .. n) |->
                               IF s = {} THEN NoBatches
                               ELSE Batched(it[s \ {Max(s)}], items[Max(s)])]
           iter == CHOOSE it : it = Equations(it)
<1>1. n \in Nat /\ items \in [1 .. n -> Item] /\ DOMAIN items = 1 .. n
  OBVIOUS
<1>2. F \in [A \X Item -> A]
  BY BatchedType
<1>3. PICK it \in [SUBSET (1 .. n) -> A] : Iterates(it, n, NoBatches, items, F)
  <2> HIDE DEF F, n, A
  <2>1. NoBatches \in A
    BY DEF A, NoBatches
  <2> QED
    BY <1>1, <1>2, <2>1, IteratesExist
<1>4. ASSUME NEW s \in SUBSET (1 .. n), s # {}
      PROVE  F[<<it[s \ {Max(s)}], items[Max(s)]>>] = Batched(it[s \ {Max(s)}], items[Max(s)])
  <2>1. Max(s) \in 1 .. n
    BY <1>1, <1>4, MaxOfRange
  <2>2. items[Max(s)] \in Item /\ it[s \ {Max(s)}] \in A
    BY <1>1, <1>3, <2>1
  <2> HIDE DEF A
  <2> QED
    BY <2>2
<1>5. it = Equations(it)
  <2> HIDE DEF F, A, n
  <2> QED
    BY <1>3, <1>4 DEF Iterates
<1>6. iter = Equations(iter)
  BY <1>5
<1>7. GroupByNode(items) = iter[1 .. n]
  BY <1>1 DEF GroupByNode, FoldLeft, MapThenFoldSet
<1> HIDE DEF iter
<1>8. iter[{}] = NoBatches
  BY <1>6
<1>9. ASSUME NEW k \in 1 .. n
      PROVE  iter[1 .. k] = Batched(iter[1 .. k - 1], items[k])
  <2>1. /\ 1 .. k # {} /\ 1 .. k \in SUBSET (1 .. n)
        /\ Max(1 .. k) = k /\ (1 .. k) \ {k} = 1 .. k - 1
    BY <1>1, MaxUpTo
  <2>2. iter[1 .. k] = Batched(iter[(1 .. k) \ {Max(1 .. k)}], items[Max(1 .. k)])
    BY <1>6, <2>1
  <2> QED
    BY <2>1, <2>2, Zenon
<1> DEFINE Holds(b, k) == UNION {ToSet(b[m]) : m \in Nodes} = {items[i] : i \in 1 .. k}
           Apart(b) == IsInjective(items) => \A m \in Nodes : IsInjective(b[m])
           S == {k \in 0 .. n : /\ iter[1 .. k] \in A
                                /\ Holds(iter[1 .. k], k)
                                /\ Apart(iter[1 .. k])}
<1>10. 0 \in S
  <2>1. 1 .. 0 = {}
    OBVIOUS
  <2>2. NoBatches \in A /\ \A m \in Nodes : NoBatches[m] = << >>
    BY DEF NoBatches
  <2>3. ToSet(<< >>) = {} /\ IsInjective(<< >>)
    BY DEF ToSet, IsInjective
  <2>4. Holds(NoBatches, 0) /\ Apart(NoBatches)
    BY <2>1, <2>2, <2>3
  <2> HIDE DEF Holds, Apart, A
  <2> QED
    BY <1>1, <1>8, <2>1, <2>2, <2>4
<1>11. ASSUME NEW k \in 1 .. n, k - 1 \in S
       PROVE  k \in S
  <2> DEFINE old == iter[1 .. k - 1]
             new == iter[1 .. k]
             node == TargetNode(items[k])
  <2>1. items[k] \in Item /\ old \in A /\ Holds(old, k - 1) /\ Apart(old)
    BY <1>1, <1>11
  <2>2. node \in Nodes
    BY <2>1, TargetNodeType
  <2>3. new = [old EXCEPT ![node] = Append(old[node], items[k])]
    BY <1>9 DEF Batched
  <2> HIDE DEF old, new, node
  <2>4. new \in A
    BY <2>1, <2>2, <2>3
  <2>5. /\ new[node] = Append(old[node], items[k])
        /\ \A m \in Nodes \ {node} : new[m] = old[m]
    BY <2>1, <2>2, <2>3
  <2>6. /\ ToSet(new[node]) = ToSet(old[node]) \union {items[k]}
        /\ IsInjective(old[node]) /\ items[k] \notin ToSet(old[node]) => IsInjective(new[node])
    BY <2>1, <2>2, <2>5, AppendFacts
  <2>7. Holds(new, k)
    <3>1. {items[i] : i \in 1 .. k} = {items[i] : i \in 1 .. k - 1} \union {items[k]}
      BY <1>1
    <3>2. UNION {ToSet(new[m]) : m \in Nodes}
              = (UNION {ToSet(old[m]) : m \in Nodes}) \union {items[k]}
      BY <2>2, <2>5, <2>6
    <3> QED
      BY <2>1, <3>1, <3>2
  <2>8. Apart(new)
    <3> SUFFICES ASSUME IsInjective(items) PROVE \A m \in Nodes : IsInjective(new[m])
      OBVIOUS
    <3>1. items[k] \notin {items[i] : i \in 1 .. k - 1}
      BY <1>1 DEF IsInjective
    <3>2. items[k] \notin ToSet(old[node])
      BY <2>1, <2>2, <3>1
    <3>3. \A m \in Nodes : IsInjective(old[m])
      BY <2>1
    <3> QED
      BY <2>2, <2>5, <2>6, <3>2, <3>3
  <2> HIDE DEF Holds, Apart, A
  <2> QED
    BY <2>4, <2>7, <2>8 DEF new
<1>12. n \in S
  <2> HIDE DEF S
  <2>1. 0 .. n \subseteq S
    BY <1>1, <1>10, <1>11, UpTo
  <2> QED
    BY <1>1, <2>1
<1>13. ToSet(items) = {items[i] : i \in 1 .. n}
  BY <1>1 DEF ToSet
<1> QED
  BY <1>7, <1>12, <1>13

-----------------------------------------------------------------------------
(* Types and control *)

LEMMA ExitStep ==
    ASSUME Exit
    PROVE  /\ up' = FALSE
           /\ next' = checkpoint
           /\ pc' = [t \in Tasks |-> "idle"]
           /\ caller' = [t \in Tasks |-> "none"]
           /\ pending_start' = [c \in Consumers |-> NoStart]
           /\ tries' = [c \in Consumers |-> 0]
           /\ todo' = [c \in Consumers |-> << >>]
           /\ unsent' = [t \in Tasks |-> NoBatches]
           /\ target' = [t \in Tasks |-> NoNode]
           /\ attempt' = [t \in Tasks |-> 0]
           /\ failed' = [t \in Tasks |-> FALSE]
           /\ buffer' = << >>
           /\ last_flush_failed' = FALSE
           /\ lost' = lost \union (InMemory \ delivered)
           /\ UNCHANGED <<checkpoint, docs, delivered>>
BY DEF Exit, Started

LEMMA MemoryTypes ==
    ASSUME TypeOK
    PROVE  /\ ToSet(buffer) \subseteq Item
           /\ \A t \in Tasks : Held(t) \subseteq Item
           /\ \A t \in Tasks : \A n \in Nodes : ToSet(unsent[t][n]) \subseteq Item
           /\ InMemory \subseteq Item
<1>1. ToSet(buffer) \subseteq Item
  BY ToSetType DEF TypeOK, ItemQueue
<1>2. ASSUME NEW t \in Tasks, NEW n \in Nodes
      PROVE  ToSet(unsent[t][n]) \subseteq Item
  <2>1. unsent[t][n] \in Seq(Item)
    BY DEF TypeOK, ItemQueue
  <2> QED
    BY <2>1, ToSetType
<1>3. \A t \in Tasks : Held(t) \subseteq Item
  BY <1>2 DEF Held
<1> QED
  BY <1>1, <1>2, <1>3 DEF InMemory

LEMMA RowTypes ==
    ASSUME TypeOK, NEW c \in Consumers, next[c] <= Len(Streams[c])
    PROVE  /\ CurrentRow(c) \in Row
           /\ CurrentRow(c).id \in Ids /\ CurrentRow(c).writetime \in Nat \ {0}
<1>1. Streams[c] \in Seq(Row) /\ next[c] \in 1 .. Len(Streams[c])
  BY IngestorAssumption DEF TypeOK
<1>2. CurrentRow(c) \in Row
  BY <1>1 DEF CurrentRow
<1> QED
  BY <1>2 DEF Row

LEMMA ItemType ==
    ASSUME TypeOK, NEW c \in Consumers, RowReady(c, DOMAIN OpType)
    PROVE  ItemOf(c, OpType[CurrentRow(c).operation], CurrentRow(c).id) \in Item
<1>1. /\ CurrentRow(c).id \in Ids /\ CurrentRow(c).writetime \in Nat \ {0}
      /\ CurrentRow(c).operation \in {"RowInsert", "RowDelete", "PartitionDelete"}
  BY RowTypes DEF RowReady, OpType
<1>2. OpType[CurrentRow(c).operation] \in {"Upsert", "Delete", "PartitionDelete"}
  BY <1>1 DEF OpType
<1>3. next[c] \in Nat \ {0}
  BY DEF TypeOK
<1> QED
  BY <1>1, <1>2, <1>3 DEF ItemOf, Item

\* The deletes of a range: one for each listed document, none twice.
Deletes(c, ids, w) == {[ItemOf(c, "Delete", i) EXCEPT !.writetime = w] : i \in ids}

DeletesOf(c, ids, deletes) ==
    /\ deletes \in Seq(Item) /\ IsInjective(deletes)
    /\ deletes = << >> <=> ids = {}
    /\ \A item \in ToSet(deletes) : item.from = <<c, next[c]>>

LEMMA DeletesFacts ==
    ASSUME TypeOK, NEW c \in Consumers, NEW ids \in SUBSET Ids,
           NEW w \in Nat \ {0}, NEW deletes \in SetToSeqs(Deletes(c, ids, w))
    PROVE  DeletesOf(c, ids, deletes)
<1> DEFINE D == {[ItemOf(c, "Delete", i) EXCEPT !.writetime = w] : i \in ids}
           f == [i \in ids |-> [ItemOf(c, "Delete", i) EXCEPT !.writetime = w]]
<1>1. next[c] \in Nat \ {0}
  BY DEF TypeOK
<1>2. ASSUME NEW i \in ids
      PROVE  [ItemOf(c, "Delete", i) EXCEPT !.writetime = w]
                 = [op_type |-> "Delete", id |-> i, writetime |-> w, from |-> <<c, next[c]>>]
  BY DEF ItemOf
<1>3. D \subseteq Item /\ \A item \in D : item.from = <<c, next[c]>>
  <2> DEFINE delete(i) ==
          [op_type |-> "Delete", id |-> i, writetime |-> w, from |-> <<c, next[c]>>]
  <2>1. ASSUME NEW i \in ids
        PROVE  delete(i) \in Item /\ delete(i).from = <<c, next[c]>>
    BY <1>1 DEF Item
  <2>2. ASSUME NEW item \in D
        PROVE  \E i \in ids : item = delete(i)
    BY <1>2
  <2> HIDE DEF D, delete
  <2> QED
    BY <2>1, <2>2
<1>4. IsFiniteSet(ids)
  BY FS_Subset, IngestorAssumption
<1>5. IsFiniteSet(D)
  <2>1. f \in Surjection(ids, D)
    BY DEF Surjection
  <2> QED
    BY <1>4, <2>1, FS_Surjection
<1>6. Cardinality(D) \in Nat /\ (Cardinality(D) = 0 <=> D = {})
  BY <1>5, FS_CardinalityType, FS_EmptySet
<1>7. D = {} <=> ids = {}
  OBVIOUS
<1> HIDE DEF D
<1>8. /\ deletes \in [1 .. Cardinality(D) -> D]
      /\ \A i, j \in 1 .. Cardinality(D) : i # j => deletes[i] # deletes[j]
  BY DEF SetToSeqs, D, Deletes
<1>9. deletes \in Seq(D) /\ Len(deletes) = Cardinality(D)
  BY <1>6, <1>8
<1>10. deletes = << >> <=> ids = {}
  BY <1>6, <1>7, <1>9
<1>11. IsInjective(deletes)
  BY <1>8 DEF IsInjective
<1>12. ToSet(deletes) \subseteq D
  BY <1>9, ToSetType
<1> QED
  BY <1>3, <1>9, <1>10, <1>11, <1>12 DEF DeletesOf

LEMMA TaskFacts == Consumers \subseteq Tasks /\ Ticker \in Tasks /\ Main \in Tasks
BY DEF Tasks

LEMMA NoBatchesType == NoBatches \in [Nodes -> ItemQueue]
BY DEF NoBatches, ItemQueue

LEMMA ExitType ==
    ASSUME TypeOK, Exit
    PROVE  TypeOK'
<1>1. lost' \subseteq Item
  BY ExitStep, MemoryTypes DEF TypeOK
<1>2. 0 \in 0 .. FlushRetries /\ 0 \in 0 .. MaxAttempts - 1
  BY IngestorAssumption
<1>3. << >> \in ItemQueue
  BY DEF ItemQueue
<1>4. up' \in BOOLEAN /\ last_flush_failed' \in BOOLEAN /\ failed' \in [Tasks -> BOOLEAN]
  BY ExitStep
<1>5. unsent' \in [Tasks -> [Nodes -> ItemQueue]] /\ todo' \in [Consumers -> ItemQueue]
  BY <1>3, ExitStep, NoBatchesType
<1>6. /\ pc' \in [Tasks -> {"idle", "add", "take", "send", "list"}]
      /\ caller' \in [Tasks -> {"none", "precheck", "limit", "range", "tick", "shutdown"}]
      /\ target' \in [Tasks -> Nodes \union {NoNode}]
      /\ attempt' \in [Tasks -> 0 .. MaxAttempts - 1]
      /\ tries' \in [Consumers -> 0 .. FlushRetries]
      /\ pending_start' \in [Consumers -> Row \union {NoStart}]
  BY <1>2, ExitStep
<1>7. buffer' \in ItemQueue
  BY <1>3, ExitStep
<1> QED
  BY <1>1, <1>4, <1>5, <1>6, <1>7, ExitStep DEF TypeOK

\* What a node applies of a batch, and what comes of the batch.
LEMMA AppliesType ==
    ASSUME TypeOK, NEW items \in Seq(Item), NodeApplies(items)
    PROVE  docs' \in [Ids -> Nat] /\ delivered' \subseteq Item
BY FoldApplied, ToSetType DEF TypeOK, NodeApplies

LEMMA DoneType ==
    ASSUME TypeOK, NEW t \in Tasks, NEW n \in Nodes, NEW ok \in BOOLEAN, NodeDone(t, n, ok)
    PROVE  /\ unsent' \in [Tasks -> [Nodes -> ItemQueue]]
           /\ target' \in [Tasks -> Nodes \union {NoNode}]
           /\ attempt' \in [Tasks -> 0 .. MaxAttempts - 1]
           /\ failed' \in [Tasks -> BOOLEAN]
           /\ lost' \subseteq Item
<1>1. << >> \in ItemQueue
  BY DEF ItemQueue
<1>2. 0 \in 0 .. MaxAttempts - 1
  BY IngestorAssumption
<1>3. lost' \subseteq Item
  BY MemoryTypes DEF TypeOK, NodeDone
<1>4. failed' \in [Tasks -> BOOLEAN]
  BY DEF TypeOK, NodeDone
<1> QED
  BY <1>1, <1>2, <1>3, <1>4 DEF TypeOK, NodeDone

LEMMA PrefixType ==
    ASSUME TypeOK, NEW t \in Tasks, NEW n \in Nodes, NEW k \in 0 .. Len(unsent[t][n])
    PROVE  /\ SubSeq(unsent[t][n], 1, k) \in Seq(Item)
           /\ ToSet(SubSeq(unsent[t][n], 1, k)) \subseteq ToSet(unsent[t][n])
<1>1. unsent[t][n] \in Seq(Item)
  BY DEF TypeOK, ItemQueue
<1>2. /\ SubSeq(unsent[t][n], 1, k) \in Seq(Item)
      /\ Len(SubSeq(unsent[t][n], 1, k)) = k
      /\ \A i \in 1 .. k : SubSeq(unsent[t][n], 1, k)[i] = unsent[t][n][i]
  BY <1>1
<1>3. \A i \in 1 .. k : i \in 1 .. Len(unsent[t][n])
  BY <1>1
<1> QED
  BY <1>1, <1>2, <1>3 DEF ToSet

LEMMA HeadTodo ==
    ASSUME TypeOK, NEW c \in Consumers, todo[c] # << >>
    PROVE  Head(todo[c]) \in Item
<1>1. todo[c] \in Seq(Item)
  BY DEF TypeOK, ItemQueue
<1> QED
  BY <1>1

LEMMA EnqueuedType ==
    ASSUME TypeOK, NEW c \in Consumers, todo[c] # << >>, Enqueued(c)
    PROVE  /\ todo' \in [Consumers -> ItemQueue]
           /\ next' \in [Consumers -> Nat \ {0}]
           /\ pc' \in [Tasks -> {"idle", "add", "take", "send", "list"}]
<1>1. todo[c] \in Seq(Item)
  BY DEF TypeOK, ItemQueue
<1>2. Tail(todo[c]) \in ItemQueue
  BY <1>1 DEF ItemQueue
<1>3. todo' \in [Consumers -> ItemQueue]
  BY <1>2 DEF TypeOK, Enqueued
<1>4. CASE Len(todo[c]) = 1
  <2>1. next' = [next EXCEPT ![c] = next[c] + 1] /\ pc' = [pc EXCEPT ![c] = "idle"]
    BY <1>4 DEF Enqueued, Accept
  <2> QED
    BY <1>3, <2>1, TaskFacts DEF TypeOK
<1>5. CASE Len(todo[c]) # 1
  <2>1. next' = next /\ pc' = [pc EXCEPT ![c] = "add"]
    BY <1>5 DEF Enqueued
  <2> QED
    BY <1>3, <2>1, TaskFacts DEF TypeOK
<1> QED
  BY <1>4, <1>5

LEMMA TypeStep ==
    ASSUME TypeOK, Control, [Next]_vars
    PROVE  TypeOK'
<1> USE TaskFacts
<1>1. CASE UNCHANGED vars
  BY <1>1 DEF vars, TypeOK
<1>2. ASSUME NEW c \in Consumers, SkipPreImage(c)
      PROVE  TypeOK'
  BY <1>2 DEF TypeOK, SkipPreImage, Accept
<1>3. ASSUME NEW c \in Consumers, RangeDeleteStart(c)
      PROVE  TypeOK'
  <2>1. CurrentRow(c) \in Row
    BY <1>3, RowTypes DEF RangeDeleteStart, RowReady
  <2> QED
    BY <1>3, <2>1 DEF TypeOK, RangeDeleteStart, Accept
<1>4. ASSUME NEW c \in Consumers, RangeDeleteEnd(c)
      PROVE  TypeOK'
  <2>1. CASE pending_start[c] = NoStart
    BY <1>4, <2>1, ExitType DEF RangeDeleteEnd
  <2>2. CASE pending_start[c] # NoStart
    <3>1. FlushRetries \in 0 .. FlushRetries
      BY IngestorAssumption
    <3>2. tries' \in [Consumers -> 0 .. FlushRetries]
      BY <1>4, <2>2, <3>1 DEF TypeOK, RangeDeleteEnd
    <3> QED
      BY <1>4, <2>2, <3>2 DEF TypeOK, RangeDeleteEnd, StartFlush
  <2> QED
    BY <2>1, <2>2
<1>5. ASSUME NEW c \in Consumers, RouteForward(c)
      PROVE  TypeOK'
  <2>1. <<ItemOf(c, OpType[CurrentRow(c).operation], CurrentRow(c).id)>> \in ItemQueue
    BY <1>5, ItemType DEF RouteForward, ItemQueue
  <2> QED
    BY <1>5, <2>1 DEF TypeOK, RouteForward, StartFlush
<1>6. ASSUME NEW c \in Consumers, Add(c)
      PROVE  TypeOK'
  <2>1. CASE last_flush_failed
    BY <1>6, <2>1, ExitType DEF Add
  <2>2. CASE ~last_flush_failed
    <3>1. todo[c] # << >>
      BY <1>6 DEF Add, Control, ConsumerOK, ConsumerAt
    <3>2. Head(todo[c]) \in Item
      BY <3>1, HeadTodo
    <3>3. buffer' \in ItemQueue
      <4>1. buffer \in Seq(Item) /\ buffer' = Append(buffer, Head(todo[c]))
        BY <1>6, <2>2 DEF Add, TypeOK, ItemQueue
      <4> QED
        BY <3>2, <4>1 DEF ItemQueue
    <3>4. CASE Len(buffer') >= BatchLimit
      BY <1>6, <2>2, <3>3, <3>4 DEF TypeOK, Add, StartFlush
    <3>5. CASE ~(Len(buffer') >= BatchLimit)
      <4>1. Enqueued(c) /\ UNCHANGED caller
        BY <1>6, <2>2, <3>5 DEF Add
      <4> QED
        BY <1>6, <2>2, <3>1, <3>3, <4>1, EnqueuedType DEF TypeOK, Add
    <3> QED
      BY <3>4, <3>5
  <2> QED
    BY <2>1, <2>2
<1>7. ASSUME NEW c \in Consumers, ListIds(c)
      PROVE  TypeOK'
  <2> DEFINE ids == {i \in Ids : PartitionOf[i] = PartitionOf[pending_start[c].id]
                                     /\ docs[i] # 0}
  <2>1. pending_start[c] \in Row
    BY <1>7 DEF ListIds, Control, ConsumerOK, ConsumerAt, TypeOK
  <2>2. pending_start[c].writetime \in Nat \ {0}
    BY <2>1 DEF Row
  <2>3. PICK deletes \in SetToSeqs(Deletes(c, ids, pending_start[c].writetime)) :
            todo' = [todo EXCEPT ![c] = deletes]
    BY <1>7 DEF ListIds, Deletes
  <2>4. deletes \in ItemQueue
    <3>1. ids \in SUBSET Ids
      OBVIOUS
    <3> HIDE DEF ids
    <3> QED
      BY <2>2, <2>3, <3>1, DeletesFacts DEF ItemQueue, DeletesOf
  <2>5. todo' \in [Consumers -> ItemQueue]
    BY <2>3, <2>4 DEF TypeOK
  <2>6. \/ pc' = [pc EXCEPT ![c] = "idle"] /\ next' = [next EXCEPT ![c] = next[c] + 1]
        \/ pc' = [pc EXCEPT ![c] = "add"] /\ next' = next
    BY <1>7 DEF ListIds, Accept
  <2>7. /\ pending_start' = [pending_start EXCEPT ![c] = NoStart]
        /\ UNCHANGED <<up, checkpoint, caller, tries, buffer, last_flush_failed,
                       unsent, target, attempt, failed, docs, delivered, lost>>
    BY <1>7 DEF ListIds
  <2>8. /\ pc' \in [Tasks -> {"idle", "add", "take", "send", "list"}]
        /\ next' \in [Consumers -> Nat \ {0}]
    <3>1. pc' \in [Tasks -> {"idle", "add", "take", "send", "list"}]
      BY <2>6 DEF TypeOK
    <3>2. next[c] + 1 \in Nat \ {0}
      BY DEF TypeOK
    <3>3. next' \in [Consumers -> Nat \ {0}]
      BY <2>6, <3>2 DEF TypeOK
    <3> QED
      BY <3>1, <3>3
  <2> QED
    BY <2>5, <2>7, <2>8 DEF TypeOK
<1>8. ASSUME NEW c \in Consumers, ListIdsFails(c)
      PROVE  TypeOK'
  BY <1>8, ExitType DEF ListIdsFails
<1>9. ASSUME NEW c \in Consumers, PrecheckReturns(c)
      PROVE  TypeOK'
  <2>1. CASE failed[c]
    BY <1>9, <2>1, ExitType DEF PrecheckReturns
  <2>2. CASE ~failed[c]
    BY <1>9, <2>2 DEF TypeOK, PrecheckReturns, Returned
  <2> QED
    BY <2>1, <2>2
<1>10. ASSUME NEW c \in Consumers, LimitReturns(c)
       PROVE  TypeOK'
  <2>1. CASE failed[c]
    BY <1>10, <2>1, ExitType DEF LimitReturns
  <2>2. CASE ~failed[c]
    <3>1. todo[c] # << >>
      BY <1>10 DEF LimitReturns, Returns, Control, ConsumerOK, ConsumerAt
    <3> QED
      BY <1>10, <2>2, <3>1, EnqueuedType DEF TypeOK, LimitReturns, Returned
  <2> QED
    BY <2>1, <2>2
<1>11. ASSUME NEW c \in Consumers, RangeReturns(c)
       PROVE  TypeOK'
  <2>1. tries[c] > 0 /\ tries[c] \in 0 .. FlushRetries
    BY <1>11 DEF RangeReturns, Returns, Control, ConsumerOK, ConsumerAt, TypeOK
  <2>2. tries[c] - 1 \in 0 .. FlushRetries
    BY <2>1, IngestorAssumption
  <2> QED
    BY <1>11, <2>2 DEF TypeOK, RangeReturns, StartFlush
<1>12. ASSUME NEW c \in Consumers, SaveProgress(c)
       PROVE  TypeOK'
  BY <1>12 DEF TypeOK, SaveProgress
<1>13. ASSUME NEW t \in Tasks, TakeBuffer(t)
       PROVE  TypeOK'
  <2>1. GroupByNode(buffer) \in [Nodes -> ItemQueue]
    BY Grouped DEF TypeOK, ItemQueue
  <2>2. << >> \in ItemQueue
    BY DEF ItemQueue
  <2> QED
    BY <1>13, <2>1, <2>2 DEF TypeOK, TakeBuffer
<1>14. ASSUME NEW t \in Tasks, NEW n \in Nodes, SendOk(t, n)
       PROVE  TypeOK'
  <2>1. unsent[t][n] \in Seq(Item)
    BY DEF TypeOK, ItemQueue
  <2>2. docs' \in [Ids -> Nat] /\ delivered' \subseteq Item
    BY <1>14, <2>1, AppliesType DEF SendOk
  <2> QED
    BY <1>14, <2>2, DoneType DEF TypeOK, SendOk
<1>15. ASSUME NEW t \in Tasks, NEW n \in Nodes, SendPartial(t, n)
       PROVE  TypeOK'
  <2>1. PICK k \in 0 .. Len(unsent[t][n]) - 1 : NodeApplies(SubSeq(unsent[t][n], 1, k))
    BY <1>15 DEF SendPartial
  <2>2. k \in 0 .. Len(unsent[t][n])
    BY DEF TypeOK, ItemQueue
  <2>3. docs' \in [Ids -> Nat] /\ delivered' \subseteq Item
    BY <2>1, <2>2, AppliesType, PrefixType
  <2> QED
    BY <1>15, <2>3, DoneType DEF TypeOK, SendPartial
<1>16. ASSUME NEW t \in Tasks, NEW n \in Nodes, SendError(t, n)
       PROVE  TypeOK'
  <2>1. PICK k \in 0 .. Len(unsent[t][n]) : NodeApplies(SubSeq(unsent[t][n], 1, k))
    BY <1>16 DEF SendError
  <2>2. docs' \in [Ids -> Nat] /\ delivered' \subseteq Item
    BY <2>1, AppliesType, PrefixType
  <2>3. CASE attempt[t] + 1 < MaxAttempts
    <3>1. attempt[t] + 1 \in 0 .. MaxAttempts - 1
      BY <2>3, IngestorAssumption DEF TypeOK
    <3> QED
      BY <1>16, <2>2, <2>3, <3>1 DEF TypeOK, SendError
  <2>4. CASE ~(attempt[t] + 1 < MaxAttempts)
    BY <1>16, <2>2, <2>4, DoneType DEF TypeOK, SendError
  <2> QED
    BY <2>3, <2>4
<1>17. CASE Tick
  BY <1>17 DEF TypeOK, Tick, StartFlush
<1>18. CASE TickReturns
  BY <1>18 DEF TypeOK, TickReturns, Returned
<1>19. CASE CtrlC
  BY <1>19 DEF TypeOK, CtrlC, StartFlush
<1>20. CASE ShutdownReturns \/ Crash
  BY <1>20, ExitType DEF ShutdownReturns, Crash
<1>21. CASE Restart
  BY <1>21 DEF TypeOK, Restart
<1> QED
  BY <1>1, <1>2, <1>3, <1>4, <1>5, <1>6, <1>7, <1>8, <1>9, <1>10, <1>11, <1>12, <1>13,
     <1>14, <1>15, <1>16, <1>17, <1>18, <1>19, <1>20, <1>21 DEF Next, Consume, Flush

\* A consumer that a step leaves where it is.
SameConsumer(d) ==
    /\ pc'[d] = pc[d] /\ caller'[d] = caller[d] /\ todo'[d] = todo[d]
    /\ tries'[d] = tries[d] /\ pending_start'[d] = pending_start[d]
    /\ next'[d] = next[d] /\ checkpoint'[d] = checkpoint[d]

LEMMA SameConsumerKept ==
    ASSUME NEW d \in Consumers, ConsumerOK(d), SameConsumer(d)
    PROVE  ConsumerOK(d)'
BY DEF ConsumerOK, ConsumerAt, TodoOK, CurrentRow, ForwardItem, SameConsumer

\* A step of one consumer that leaves the flushes alone.
LEMMA LocalControl ==
    ASSUME Control, NEW c \in Consumers, ConsumerOK(c)', UNCHANGED unsent,
           \A d \in Consumers \ {c} : SameConsumer(d),
           \A t \in Tasks \ {c} : pc'[t] = pc[t],
           unsent[c] = NoBatches
    PROVE  Control'
BY SameConsumerKept DEF Control

LEMMA TailFacts ==
    ASSUME NEW S, NEW s \in Seq(S), s # << >>
    PROVE  /\ Tail(s) \in Seq(S)
           /\ Tail(s) = << >> <=> Len(s) = 1
           /\ ToSet(s) = ToSet(Tail(s)) \union {Head(s)}
           /\ IsInjective(s) => IsInjective(Tail(s)) /\ Head(s) \notin ToSet(Tail(s))
<1>1. /\ Tail(s) \in Seq(S) /\ Len(Tail(s)) = Len(s) - 1 /\ Len(s) \in Nat \ {0}
      /\ \A i \in 1 .. Len(s) - 1 : Tail(s)[i] = s[i + 1]
      /\ Head(s) = s[1]
      /\ DOMAIN s = 1 .. Len(s) /\ DOMAIN Tail(s) = 1 .. Len(s) - 1
  OBVIOUS
<1>2. Tail(s) = << >> <=> Len(s) = 1
  BY <1>1
<1> DEFINE u == Tail(s)
<1> HIDE DEF u
<1>3. ToSet(s) = ToSet(u) \union {s[1]}
  <2>1. \A i \in 1 .. Len(s) : i = 1 \/ (i - 1 \in 1 .. Len(s) - 1 /\ (i - 1) + 1 = i)
    BY <1>1
  <2>2. ASSUME NEW x \in ToSet(s)
        PROVE  x \in ToSet(u) \union {s[1]}
    <3>1. PICK i \in 1 .. Len(s) : x = s[i]
      BY <1>1 DEF ToSet
    <3>2. CASE i - 1 \in 1 .. Len(s) - 1 /\ (i - 1) + 1 = i
      <4>1. u[i - 1] = s[i] /\ i - 1 \in DOMAIN u
        BY <1>1, <3>2 DEF u
      <4>2. u[i - 1] \in ToSet(u)
        BY <4>1 DEF ToSet
      <4> QED
        BY <3>1, <4>1, <4>2
    <3> QED
      BY <2>1, <3>1, <3>2
  <2>3. 1 \in 1 .. Len(s) /\ \A i \in 1 .. Len(s) - 1 : i + 1 \in 1 .. Len(s)
    BY <1>1
  <2>4. \A x \in ToSet(u) \union {s[1]} : x \in ToSet(s)
    BY <1>1, <2>3 DEF ToSet, u
  <2> QED
    BY <2>2, <2>4
<1>4. ASSUME IsInjective(s)
      PROVE  IsInjective(u) /\ s[1] \notin ToSet(u)
  <2>1. \A i, j \in 1 .. Len(s) - 1 : u[i] = u[j] => i = j
    BY <1>1, <1>4 DEF IsInjective, u
  <2>2. \A i \in 1 .. Len(s) - 1 : u[i] # s[1]
    BY <1>1, <1>4 DEF IsInjective, u
  <2> QED
    BY <1>1, <2>1, <2>2 DEF IsInjective, ToSet, u
<1> QED
  BY <1>1, <1>2, <1>3, <1>4 DEF u

\* A row that is done with, and the start of the next one.
LEMMA AcceptControl ==
    ASSUME TypeOK, NEW c \in Consumers, ConsumerOK(c), UNCHANGED checkpoint,
           next'[c] = next[c] + 1, pc'[c] = "idle", caller'[c] = "none", todo'[c] = << >>
    PROVE  ConsumerOK(c)'
<1>1. checkpoint'[c] <= next'[c]
  BY DEF ConsumerOK, TypeOK
<1>2. IsInjective(<< >>) /\ ToSet(<< >>) = {}
  BY DEF IsInjective, ToSet
<1> QED
  BY <1>1, <1>2 DEF ConsumerOK, ConsumerAt, TodoOK

LEMMA EnqueuedControl ==
    ASSUME TypeOK, NEW c \in Consumers, ConsumerOK(c), todo[c] # << >>, Enqueued(c),
           caller'[c] = "none", UNCHANGED checkpoint
    PROVE  ConsumerOK(c)'
<1>1. todo[c] \in Seq(Item) /\ c \in Tasks
  BY TaskFacts DEF TypeOK, ItemQueue
<1>2. todo'[c] = Tail(todo[c])
  BY DEF Enqueued, TypeOK
<1>3. CASE Len(todo[c]) = 1
  <2>1. next'[c] = next[c] + 1 /\ pc'[c] = "idle"
    BY <1>1, <1>3 DEF Enqueued, Accept, TypeOK
  <2>2. todo'[c] = << >>
    BY <1>1, <1>2, <1>3, TailFacts
  <2> QED
    BY <2>1, <2>2, AcceptControl
<1>4. CASE Len(todo[c]) # 1
  <2>1. next'[c] = next[c] /\ pc'[c] = "add"
    BY <1>1, <1>4 DEF Enqueued, TypeOK
  <2>2. todo'[c] # << >> /\ ToSet(todo'[c]) \subseteq ToSet(todo[c])
    BY <1>1, <1>2, <1>4, TailFacts
  <2>3. IsInjective(todo'[c])
    BY <1>1, <1>2, TailFacts DEF ConsumerOK, TodoOK
  <2>4. CurrentRow(c).operation \notin DOMAIN OpType
    <3>1. Len(<<ForwardItem(c, next[c])>>) = 1
      OBVIOUS
    <3> QED
      BY <1>4, <3>1 DEF ConsumerOK, TodoOK
  <2>5. CurrentRow(c)' = CurrentRow(c)
    BY <2>1 DEF CurrentRow
  <2>6. TodoOK(c)'
    BY <2>1, <2>2, <2>3, <2>4, <2>5 DEF ConsumerOK, TodoOK
  <2> QED
    BY <2>1, <2>2, <2>6 DEF ConsumerOK, ConsumerAt
<1> QED
  BY <1>3, <1>4

LEMMA ExitControl ==
    ASSUME TypeOK, Exit
    PROVE  Control'
<1>1. IsInjective(<< >>) /\ ToSet(<< >>) = {}
  BY DEF IsInjective, ToSet
<1>2. ASSUME NEW c \in Consumers
      PROVE  ConsumerOK(c)'
  <2>1. /\ checkpoint'[c] = next'[c] /\ next'[c] \in Nat
        /\ pc'[c] = "idle" /\ caller'[c] = "none" /\ todo'[c] = << >>
    BY ExitStep, TaskFacts DEF TypeOK
  <2> QED
    BY <1>1, <2>1 DEF ConsumerOK, ConsumerAt, TodoOK
<1>3. \A t \in Tasks : unsent'[t] = NoBatches
  BY ExitStep
<1> QED
  BY <1>2, <1>3 DEF Control

LEMMA ControlStep ==
    ASSUME TypeOK, Control, [Next]_vars
    PROVE  Control'
<1> USE TaskFacts
<1>1. ASSUME NEW c \in Consumers
      PROVE  ConsumerOK(c) /\ (pc[c] # "send" => unsent[c] = NoBatches)
  BY DEF Control
<1>2. ASSUME NEW c \in Consumers
      PROVE  pc[c] = "idle" => caller[c] = "none" /\ todo[c] = << >>
  BY <1>1 DEF ConsumerOK, ConsumerAt
<1>3. CASE UNCHANGED vars
  BY <1>3, SameConsumerKept DEF vars, Control, SameConsumer
<1>4. ASSUME NEW c \in Consumers, SkipPreImage(c)
      PROVE  Control'
  <2>1. /\ next'[c] = next[c] + 1 /\ pc'[c] = "idle"
        /\ caller'[c] = "none" /\ todo'[c] = << >>
    BY <1>2, <1>4 DEF SkipPreImage, RowReady, Accept, TypeOK
  <2>2. ConsumerOK(c)'
    BY <1>1, <1>4, <2>1, AcceptControl DEF SkipPreImage
  <2> QED
    BY <1>1, <1>4, <2>2, LocalControl DEF SkipPreImage, RowReady, Accept, SameConsumer, TypeOK
<1>5. ASSUME NEW c \in Consumers, RangeDeleteStart(c)
      PROVE  Control'
  <2>1. /\ next'[c] = next[c] + 1 /\ pc'[c] = "idle"
        /\ caller'[c] = "none" /\ todo'[c] = << >>
    BY <1>2, <1>5 DEF RangeDeleteStart, RowReady, Accept, TypeOK
  <2>2. ConsumerOK(c)'
    BY <1>1, <1>5, <2>1, AcceptControl DEF RangeDeleteStart
  <2> QED
    BY <1>1, <1>5, <2>2, LocalControl
       DEF RangeDeleteStart, RowReady, Accept, SameConsumer, TypeOK
<1>6. ASSUME NEW c \in Consumers, RangeDeleteEnd(c)
      PROVE  Control'
  <2>1. CASE pending_start[c] = NoStart
    BY <1>6, <2>1, ExitControl DEF RangeDeleteEnd
  <2>2. CASE pending_start[c] # NoStart
    <3>1. /\ pc[c] = "idle" /\ CurrentRow(c).operation = "RangeEnd"
          /\ pc' = [pc EXCEPT ![c] = "take"] /\ caller' = [caller EXCEPT ![c] = "range"]
          /\ tries' = [tries EXCEPT ![c] = FlushRetries]
          /\ UNCHANGED <<next, checkpoint, pending_start, todo, unsent>>
      BY <1>6, <2>2 DEF RangeDeleteEnd, RowReady, StartFlush
    <3>2. /\ pc'[c] = "take" /\ caller'[c] = "range" /\ tries'[c] > 0
          /\ todo'[c] = << >> /\ next'[c] = next[c]
      BY <1>2, <3>1, IngestorAssumption DEF TypeOK
    <3>3. CurrentRow(c)' = CurrentRow(c) /\ TodoOK(c)'
      BY <1>1, <3>1 DEF CurrentRow, ConsumerOK, TodoOK, ForwardItem
    <3>4. ConsumerOK(c)'
      BY <1>1, <2>2, <3>1, <3>2, <3>3 DEF ConsumerOK, ConsumerAt
    <3> QED
      BY <1>1, <3>1, <3>4, LocalControl DEF SameConsumer, TypeOK
  <2> QED
    BY <2>1, <2>2
<1>7. ASSUME NEW c \in Consumers, RouteForward(c)
      PROVE  Control'
  <2> DEFINE item == ItemOf(c, OpType[CurrentRow(c).operation], CurrentRow(c).id)
  <2>1. /\ pc[c] = "idle"
        /\ todo' = [todo EXCEPT ![c] = <<item>>]
        /\ \/ pc' = [pc EXCEPT ![c] = "take"] /\ caller' = [caller EXCEPT ![c] = "precheck"]
           \/ pc' = [pc EXCEPT ![c] = "add"] /\ caller' = caller
        /\ UNCHANGED <<next, checkpoint, pending_start, tries, unsent>>
    BY <1>7 DEF RouteForward, RowReady, StartFlush
  <2>2. todo'[c] = <<item>> /\ caller[c] = "none"
    BY <1>2, <2>1 DEF TypeOK
  <2>3. item = ForwardItem(c, next[c]) /\ item.from = <<c, next[c]>>
    BY DEF ItemOf, ForwardItem, CurrentRow
  <2>4. CurrentRow(c)' = CurrentRow(c) /\ ForwardItem(c, next[c])' = ForwardItem(c, next[c])
    BY <2>1 DEF CurrentRow, ForwardItem
  <2>5. TodoOK(c)'
    <3> HIDE DEF item
    <3>1. IsInjective(<<item>>) /\ ToSet(<<item>>) = {item} /\ <<item>> # << >>
      BY DEF IsInjective, ToSet
    <3> QED
      BY <2>1, <2>2, <2>3, <2>4, <3>1 DEF TodoOK
  <2>6. /\ \/ pc'[c] = "take" /\ caller'[c] = "precheck"
           \/ pc'[c] = "add" /\ caller'[c] = "none"
        /\ todo'[c] # << >>
    BY <2>1, <2>2 DEF TypeOK
  <2>7. ConsumerOK(c)'
    BY <1>1, <2>1, <2>5, <2>6 DEF ConsumerOK, ConsumerAt
  <2> HIDE DEF item
  <2> QED
    BY <1>1, <2>1, <2>7, LocalControl DEF SameConsumer, TypeOK
<1>8. ASSUME NEW c \in Consumers, Add(c)
      PROVE  Control'
  <2>1. CASE last_flush_failed
    BY <1>8, <2>1, ExitControl DEF Add
  <2>2. CASE ~last_flush_failed
    <3>1. pc[c] = "add" /\ todo[c] # << >> /\ caller[c] = "none"
      BY <1>1, <1>8 DEF Add, ConsumerOK, ConsumerAt
    <3>2. UNCHANGED <<checkpoint, pending_start, tries, unsent>>
      BY <1>8, <2>2 DEF Add
    <3>3. CASE Len(buffer') >= BatchLimit
      <4>1. /\ pc' = [pc EXCEPT ![c] = "take"] /\ caller' = [caller EXCEPT ![c] = "limit"]
            /\ UNCHANGED <<next, todo>>
        BY <1>8, <2>2, <3>3 DEF Add, StartFlush
      <4>2. pc'[c] = "take" /\ caller'[c] = "limit"
        BY <4>1 DEF TypeOK
      <4>3. CurrentRow(c)' = CurrentRow(c) /\ TodoOK(c)'
        BY <1>1, <4>1 DEF CurrentRow, ConsumerOK, TodoOK, ForwardItem
      <4>4. ConsumerOK(c)'
        BY <1>1, <3>1, <3>2, <4>1, <4>2, <4>3 DEF ConsumerOK, ConsumerAt
      <4> QED
        BY <1>1, <3>1, <3>2, <4>1, <4>4, LocalControl DEF SameConsumer, TypeOK
    <3>4. CASE ~(Len(buffer') >= BatchLimit)
      <4>1. Enqueued(c) /\ UNCHANGED caller
        BY <1>8, <2>2, <3>4 DEF Add
      <4>2. ConsumerOK(c)'
        BY <1>1, <3>1, <3>2, <4>1, EnqueuedControl
      <4> QED
        BY <1>1, <3>1, <3>2, <4>1, <4>2, LocalControl
           DEF SameConsumer, TypeOK, Enqueued, Accept
    <3> QED
      BY <3>3, <3>4
  <2> QED
    BY <2>1, <2>2
<1>9. ASSUME NEW c \in Consumers, ListIds(c)
      PROVE  Control'
  <2> DEFINE ids == {i \in Ids : PartitionOf[i] = PartitionOf[pending_start[c].id]
                                     /\ docs[i] # 0}
  <2>1. /\ pc[c] = "list" /\ caller[c] = "none" /\ pending_start[c] \in Row
        /\ CurrentRow(c).operation = "RangeEnd"
    BY <1>1, <1>9 DEF ListIds, ConsumerOK, ConsumerAt, TypeOK
  <2>2. pending_start[c].writetime \in Nat \ {0}
    BY <2>1 DEF Row
  <2>3. PICK deletes \in SetToSeqs(Deletes(c, ids, pending_start[c].writetime)) :
            todo' = [todo EXCEPT ![c] = deletes]
    BY <1>9 DEF ListIds, Deletes
  <2>4. /\ IF ids = {}
           THEN pc' = [pc EXCEPT ![c] = "idle"] /\ next' = [next EXCEPT ![c] = next[c] + 1]
           ELSE pc' = [pc EXCEPT ![c] = "add"] /\ next' = next
        /\ pending_start' = [pending_start EXCEPT ![c] = NoStart]
        /\ UNCHANGED <<checkpoint, caller, tries, unsent>>
    BY <1>9 DEF ListIds, Accept
  <2>5. ids \in SUBSET Ids
    OBVIOUS
  <2> HIDE DEF ids
  <2>6. /\ IsInjective(deletes)
        /\ deletes = << >> <=> ids = {}
        /\ \A item \in ToSet(deletes) : item.from = <<c, next[c]>>
    <3>1. DeletesOf(c, ids, deletes)
      BY <2>2, <2>3, <2>5, DeletesFacts
    <3> QED
      BY <3>1 DEF DeletesOf
  <2>7. todo'[c] = deletes
    BY <2>3 DEF TypeOK
  <2>8. ConsumerOK(c)'
    <3>1. CASE ids = {}
      <4>1. next'[c] = next[c] + 1 /\ pc'[c] = "idle" /\ caller'[c] = "none"
        BY <2>1, <2>4, <3>1 DEF TypeOK
      <4> QED
        BY <1>1, <2>4, <2>6, <2>7, <3>1, <4>1, AcceptControl
    <3>2. CASE ids # {}
      <4>1. next'[c] = next[c] /\ pc'[c] = "add" /\ caller'[c] = "none"
        BY <2>1, <2>4, <3>2 DEF TypeOK
      <4>2. CurrentRow(c)' = CurrentRow(c)
        BY <4>1 DEF CurrentRow
      <4>3. TodoOK(c)'
        <5>1. "RangeEnd" \notin DOMAIN OpType
          BY DEF OpType
        <5> QED
          BY <2>1, <2>6, <2>7, <4>1, <4>2, <5>1 DEF TodoOK
      <4> QED
        BY <1>1, <2>4, <2>6, <2>7, <3>2, <4>1, <4>3 DEF ConsumerOK, ConsumerAt
    <3> QED
      BY <3>1, <3>2
  <2>9. ASSUME NEW d \in Consumers \ {c}
        PROVE  SameConsumer(d)
    BY <2>3, <2>4 DEF SameConsumer, TypeOK
  <2>10. \A t \in Tasks \ {c} : pc'[t] = pc[t]
    BY <2>4 DEF TypeOK
  <2> QED
    BY <1>1, <2>1, <2>4, <2>8, <2>9, <2>10, LocalControl
<1>10. ASSUME NEW c \in Consumers, PrecheckReturns(c)
       PROVE  Control'
  <2>1. CASE failed[c]
    BY <1>10, <2>1, ExitControl DEF PrecheckReturns
  <2>2. CASE ~failed[c]
    <3>1. /\ pc[c] = "send" /\ unsent[c] = NoBatches /\ caller[c] = "precheck"
          /\ caller' = [caller EXCEPT ![c] = "none"] /\ pc' = [pc EXCEPT ![c] = "add"]
          /\ UNCHANGED <<next, checkpoint, pending_start, tries, todo, unsent>>
      BY <1>10, <2>2 DEF PrecheckReturns, Returns, Returned
    <3>2. todo[c] # << >> /\ pc'[c] = "add" /\ caller'[c] = "none"
      BY <1>1, <3>1 DEF ConsumerOK, ConsumerAt, TypeOK
    <3>3. TodoOK(c)'
      BY <1>1, <3>1 DEF CurrentRow, ConsumerOK, TodoOK, ForwardItem
    <3>4. ConsumerOK(c)'
      BY <1>1, <3>1, <3>2, <3>3 DEF ConsumerOK, ConsumerAt
    <3> QED
      BY <3>1, <3>4, LocalControl DEF SameConsumer, TypeOK
  <2> QED
    BY <2>1, <2>2
<1>11. ASSUME NEW c \in Consumers, LimitReturns(c)
       PROVE  Control'
  <2>1. CASE failed[c]
    BY <1>11, <2>1, ExitControl DEF LimitReturns
  <2>2. CASE ~failed[c]
    <3>1. /\ pc[c] = "send" /\ unsent[c] = NoBatches /\ caller[c] = "limit"
          /\ caller' = [caller EXCEPT ![c] = "none"] /\ Enqueued(c)
          /\ UNCHANGED <<checkpoint, pending_start, tries, unsent>>
      BY <1>11, <2>2 DEF LimitReturns, Returns, Returned
    <3>2. todo[c] # << >> /\ caller'[c] = "none"
      BY <1>1, <3>1 DEF ConsumerOK, ConsumerAt, TypeOK
    <3>3. ConsumerOK(c)'
      BY <1>1, <3>1, <3>2, EnqueuedControl
    <3> QED
      BY <3>1, <3>3, LocalControl DEF SameConsumer, TypeOK, Enqueued, Accept
  <2> QED
    BY <2>1, <2>2
<1>12. ASSUME NEW c \in Consumers, RangeReturns(c)
       PROVE  Control'
  <2>1. /\ pc[c] = "send" /\ unsent[c] = NoBatches /\ caller[c] = "range"
        /\ tries' = [tries EXCEPT ![c] = tries[c] - 1]
        /\ \/ /\ tries[c] > 1
              /\ pc' = [pc EXCEPT ![c] = "take"] /\ caller' = [caller EXCEPT ![c] = "range"]
           \/ pc' = [pc EXCEPT ![c] = "list"] /\ caller' = [caller EXCEPT ![c] = "none"]
        /\ UNCHANGED <<next, checkpoint, pending_start, todo, unsent>>
    BY <1>12 DEF RangeReturns, Returns, StartFlush
  <2>2. /\ todo[c] = << >> /\ pending_start[c] # NoStart
        /\ CurrentRow(c).operation = "RangeEnd" /\ tries[c] \in 0 .. FlushRetries
    BY <1>1, <2>1 DEF ConsumerOK, ConsumerAt, TypeOK
  <2>3. \/ pc'[c] = "take" /\ caller'[c] = "range" /\ tries'[c] > 0
        \/ pc'[c] = "list" /\ caller'[c] = "none"
    BY <2>1, <2>2 DEF TypeOK
  <2>4. CurrentRow(c)' = CurrentRow(c) /\ TodoOK(c)'
    BY <1>1, <2>1 DEF CurrentRow, ConsumerOK, TodoOK, ForwardItem
  <2>5. ConsumerOK(c)'
    BY <1>1, <2>1, <2>2, <2>3, <2>4 DEF ConsumerOK, ConsumerAt
  <2> QED
    BY <2>1, <2>5, LocalControl DEF SameConsumer, TypeOK
<1>13. ASSUME NEW c \in Consumers, SaveProgress(c)
       PROVE  Control'
  <2>1. ASSUME NEW d \in Consumers
        PROVE  ConsumerOK(d)'
    <3>1. checkpoint'[d] <= next'[d]
      BY <1>1, <1>13 DEF SaveProgress, TypeOK, ConsumerOK
    <3> QED
      BY <1>1, <1>13, <3>1
         DEF SaveProgress, ConsumerOK, ConsumerAt, TodoOK, CurrentRow, ForwardItem
  <2> QED
    BY <1>13, <2>1 DEF SaveProgress, Control
<1>14. ASSUME NEW t \in Tasks, TakeBuffer(t)
       PROVE  Control'
  <2>1. /\ pc[t] = "take" /\ pc' = [pc EXCEPT ![t] = "send"]
        /\ unsent' = [unsent EXCEPT ![t] = GroupByNode(buffer)]
        /\ UNCHANGED <<next, checkpoint, caller, pending_start, tries, todo>>
    BY <1>14 DEF TakeBuffer
  <2>2. pc'[t] = "send" /\ \A u \in Tasks \ {t} : pc'[u] = pc[u] /\ unsent'[u] = unsent[u]
    BY <2>1 DEF TypeOK
  <2>3. ASSUME NEW d \in Consumers
        PROVE  ConsumerOK(d)'
    BY <1>1, <2>1, <2>2 DEF ConsumerOK, ConsumerAt, TodoOK, CurrentRow, ForwardItem
  <2> QED
    BY <2>2, <2>3 DEF Control
<1>15. ASSUME NEW t \in Tasks, NEW n \in Nodes,
              SendOk(t, n) \/ SendPartial(t, n) \/ SendError(t, n)
       PROVE  Control'
  <2>1. /\ pc[t] = "send"
        /\ UNCHANGED <<pc, next, checkpoint, caller, pending_start, tries, todo>>
    BY <1>15 DEF SendOk, SendPartial, SendError, SendsTo
  <2>2. \A u \in Tasks \ {t} : unsent'[u] = unsent[u]
    BY <1>15 DEF SendOk, SendPartial, SendError, NodeDone, TypeOK
  <2>3. ASSUME NEW d \in Consumers
        PROVE  ConsumerOK(d)'
    BY <1>1, <2>1, SameConsumerKept DEF SameConsumer
  <2> QED
    BY <2>1, <2>2, <2>3 DEF Control
<1>16. CASE Tick \/ TickReturns \/ CtrlC
  <2>1. PICK t \in {Ticker, Main} :
            /\ pc[t] = "idle" \/ unsent[t] = NoBatches
            /\ \A u \in Tasks \ {t} : pc'[u] = pc[u] /\ caller'[u] = caller[u]
            /\ UNCHANGED <<next, checkpoint, pending_start, tries, todo, unsent>>
    BY <1>16 DEF Tick, TickReturns, CtrlC, StartFlush, Returns, Returned, TypeOK
  <2>2. unsent[t] = NoBatches /\ t \notin Consumers
    BY <2>1, IngestorAssumption DEF Control
  <2>3. ASSUME NEW d \in Consumers
        PROVE  ConsumerOK(d)'
    BY <1>1, <2>1, <2>2, SameConsumerKept DEF SameConsumer
  <2> QED
    BY <2>1, <2>2, <2>3 DEF Control
<1>17. CASE Restart
  BY <1>1, <1>17, SameConsumerKept DEF Restart, Control, SameConsumer
<1>18. CASE ShutdownReturns \/ Crash \/ \E c \in Consumers : ListIdsFails(c)
  BY <1>18, ExitControl DEF ShutdownReturns, Crash, ListIdsFails
<1> QED
  BY <1>3, <1>4, <1>5, <1>6, <1>7, <1>8, <1>9, <1>10, <1>11, <1>12, <1>13,
     <1>14, <1>15, <1>16, <1>17, <1>18 DEF Next, Consume, Flush

-----------------------------------------------------------------------------
(* What a step does to the items in memory *)

\* What a consumer can do while the buffer and the flushes stay as they are: stay
\* where it is or flush, make the items of a row, pass over a row that has none,
\* and return from the flush at the limit.
QuietConsumer(c) ==
    /\ \/ /\ next'[c] = next[c] /\ todo'[c] = todo[c]
          /\ caller'[c] = "limit" <=> caller[c] = "limit"
       \/ /\ next'[c] = next[c] /\ todo[c] = << >> /\ caller'[c] # "limit"
       \/ /\ next'[c] = next[c] + 1 /\ todo[c] = << >> /\ caller'[c] # "limit"
          /\ CurrentRow(c).operation \notin DOMAIN OpType
       \/ /\ caller[c] = "limit" /\ caller'[c] # "limit"
          /\ todo[c] # << >> /\ todo'[c] = Tail(todo[c])
          /\ \/ next'[c] = next[c] /\ todo'[c] # << >>
             \/ next'[c] = next[c] + 1
    /\ RangeAt(c)' => RangeAt(c) /\ next'[c] = next[c]
    /\ (pc[c] = "take" /\ caller[c] = "limit")' <=> pc[c] = "take" /\ caller[c] = "limit"

QuietStep ==
    /\ UNCHANGED <<buffer, unsent, delivered, lost>>
    /\ \A c \in Consumers : QuietConsumer(c)

AddStep(c) ==
    /\ pc[c] = "add" /\ caller[c] = "none" /\ todo[c] # << >>
    /\ buffer' = Append(buffer, Head(todo[c]))
    /\ UNCHANGED <<unsent, delivered, lost>>
    /\ \/ /\ pc'[c] = "take" /\ caller'[c] = "limit"
          /\ next'[c] = next[c] /\ todo'[c] = todo[c]
       \/ /\ Len(buffer') < BatchLimit
          /\ caller'[c] = "none" /\ todo'[c] = Tail(todo[c])
          /\ \/ pc'[c] = "add" /\ next'[c] = next[c] /\ todo'[c] # << >>
             \/ pc'[c] = "idle" /\ next'[c] = next[c] + 1
    /\ \A d \in Consumers \ {c} : SameConsumer(d)

TakeStep(t) ==
    /\ unsent[t] = NoBatches
    /\ unsent' = [unsent EXCEPT ![t] = GroupByNode(buffer)]
    /\ buffer' = << >>
    /\ \A u \in Tasks \ {t} : pc'[u] = pc[u]
    /\ UNCHANGED <<next, caller, todo, delivered, lost>>

SendStep(t, n) ==
    /\ delivered \subseteq delivered' /\ lost \subseteq lost'
    /\ delivered' \subseteq delivered \union ToSet(unsent[t][n])
    /\ lost' \subseteq lost \union ToSet(unsent[t][n])
    /\ \/ unsent' = unsent
       \/ /\ unsent' = [unsent EXCEPT ![t][n] = << >>]
          /\ ToSet(unsent[t][n]) \subseteq delivered' \union lost'
    /\ UNCHANGED <<buffer, pc, next, caller, todo>>

LEMMA SameMemory ==
    ASSUME UNCHANGED <<buffer, unsent>>
    PROVE  /\ ToSet(buffer)' = ToSet(buffer)
           /\ \A t \in Tasks : Held(t)' = Held(t)
           /\ InFlight' = InFlight
           /\ InMemory' = InMemory
<1>1. \A t \in Tasks : Held(t)' = Held(t)
  BY DEF Held
<1> QED
  BY <1>1 DEF InFlight, InMemory

LEMMA MemoryIs == InMemory = ToSet(buffer) \union InFlight
BY DEF InMemory, InFlight

LEMMA QuietKeeps ==
    ASSUME IndInv, QuietStep
    PROVE  Memory'
<1>1. TypeOK /\ Control /\ Memory
  BY DEF IndInv
<1>2. /\ ToSet(buffer)' = ToSet(buffer)
      /\ \A t \in Tasks : Held(t)' = Held(t)
      /\ InFlight' = InFlight /\ InMemory' = InMemory /\ Known' = Known
      /\ delivered' = delivered /\ lost' = lost /\ buffer' = buffer /\ unsent' = unsent
  BY SameMemory DEF QuietStep, Known
<1>3. ASSUME NEW c \in Consumers
      PROVE  QuietConsumer(c) /\ next[c] \in Nat \ {0}
  BY <1>1 DEF QuietStep, TypeOK
<1>4. BufferBound'
  <2>1. AtLimit' = AtLimit
    BY <1>3 DEF AtLimit, QuietConsumer
  <2> QED
    BY <1>1, <1>2, <2>1 DEF Memory, BufferBound
<1>5. InOnePlace'
  BY <1>1, <1>2 DEF Memory, InOnePlace
<1>6. MemoryPlaced'
  <2> SUFFICES ASSUME NEW item \in InMemory
               PROVE  Placed(item, item.from[1])'
    BY <1>2 DEF MemoryPlaced
  <2> DEFINE c == item.from[1]
  <2>1. item \in Item
    BY <1>1, MemoryTypes
  <2>2. c \in Consumers /\ item.from[2] \in Nat
    BY <2>1 DEF Item
  <2>3. Placed(item, c)
    BY <1>1 DEF Memory, MemoryPlaced
  <2> HIDE DEF c
  <2>4. next[c] \in Nat /\ QuietConsumer(c)
    BY <1>3, <2>2
  <2>5. Placed(item, c)'
    BY <2>2, <2>3, <2>4 DEF Placed, Pending, QuietConsumer
  <2> QED
    BY <2>5 DEF c
<1>7. LimitKnown'
  BY <1>1, <1>2, <1>3 DEF Memory, LimitKnown, QuietConsumer
<1>8. ASSUME NEW c \in Consumers, NEW k \in ForwardRows(c)'
      PROVE  ForwardItem(c, k) \in Known
  <2>1. k \in 1 .. next'[c] - 1 /\ Streams[c][k].operation \in DOMAIN OpType
    BY DEF ForwardRows
  <2>2. CASE k \in ForwardRows(c)
    BY <1>1, <2>2 DEF Memory, Accounted, Known
  <2>3. CASE k \notin ForwardRows(c)
    <3>1. next'[c] = next[c] + 1 /\ k = next[c]
      BY <1>3, <2>1, <2>3 DEF ForwardRows, QuietConsumer
    <3>2. CurrentRow(c).operation \in DOMAIN OpType
      BY <2>1, <3>1 DEF CurrentRow
    <3>3. caller[c] = "limit" /\ todo[c] # << >>
      BY <1>3, <3>1, <3>2 DEF QuietConsumer
    <3>4. todo[c] = <<ForwardItem(c, k)>>
      BY <1>1, <3>1, <3>2, <3>3 DEF Control, ConsumerOK, TodoOK
    <3>5. Head(todo[c]) = ForwardItem(c, k)
      BY <3>4
    <3> QED
      BY <1>1, <3>3, <3>5 DEF Memory, LimitKnown
  <2> QED
    BY <2>2, <2>3
<1>9. Accounted'
  BY <1>2, <1>8 DEF Accounted, Known, ForwardItem
<1>10. PrefixKnown'
  BY <1>1, <1>2 DEF Memory, PrefixKnown, ForwardItem
<1>11. NothingAhead'
  BY <1>1, <1>2 DEF Memory, NothingAhead, ForwardItem
<1>12. RangeTaken'
  BY <1>1, <1>2, <1>3 DEF Memory, RangeTaken, QuietConsumer, ForwardRows, ForwardItem
<1> QED
  BY <1>4, <1>5, <1>6, <1>7, <1>9, <1>10, <1>11, <1>12 DEF Memory

LEMMA AddKeeps ==
    ASSUME IndInv, NEW c \in Consumers, AddStep(c)
    PROVE  Memory'
<1> DEFINE new == Head(todo[c])
<1>1. /\ TypeOK /\ Control /\ Memory /\ ConsumerOK(c)
      /\ todo[c] \in Seq(Item) /\ todo[c] # << >> /\ buffer \in Seq(Item)
      /\ next[c] \in Nat \ {0}
  BY DEF IndInv, TypeOK, ItemQueue, Control, AddStep
<1>2. /\ ToSet(todo[c]) = ToSet(Tail(todo[c])) \union {new}
      /\ new \notin ToSet(Tail(todo[c]))
  BY <1>1, TailFacts DEF ConsumerOK, TodoOK
<1>3. new \in Item /\ new.from = <<c, next[c]>>
  BY <1>1, <1>2, ToSetType DEF ConsumerOK, TodoOK
<1> HIDE DEF new
<1>4. new \notin InMemory
  <2>1. new \in Pending(c)
    BY <1>2 DEF Pending, AddStep
  <2>2. ~Placed(new, c)
    BY <1>1, <1>3, <2>1 DEF Placed
  <2> QED
    BY <1>1, <1>3, <2>2 DEF Memory, MemoryPlaced
<1>5. /\ buffer' = Append(buffer, new) /\ unsent' = unsent
      /\ delivered' = delivered /\ lost' = lost
  BY DEF AddStep, new
<1>6. /\ Len(buffer') = Len(buffer) + 1 /\ Len(buffer) \in Nat
      /\ ToSet(buffer)' = ToSet(buffer) \union {new}
      /\ IsInjective(buffer) /\ new \notin ToSet(buffer) => IsInjective(buffer)'
  BY <1>1, <1>3, <1>5, AppendFacts
<1>7. /\ \A t \in Tasks : Held(t)' = Held(t)
      /\ InFlight' = InFlight
      /\ InMemory' = InMemory \union {new}
      /\ Known' = Known \union {new}
  <2>1. \A t \in Tasks : Held(t)' = Held(t)
    BY <1>5 DEF Held
  <2>2. InFlight' = InFlight
    BY <2>1 DEF InFlight
  <2>3. InMemory' = ToSet(buffer)' \union InFlight'
    BY DEF InMemory, InFlight
  <2> QED
    BY <1>5, <1>6, <2>1, <2>2, <2>3, MemoryIs DEF Known
<1>8. \/ /\ pc'[c] = "take" /\ caller'[c] = "limit"
         /\ next'[c] = next[c] /\ todo'[c] = todo[c]
      \/ /\ Len(buffer') < BatchLimit
         /\ caller'[c] = "none" /\ todo'[c] = Tail(todo[c])
         /\ \/ pc'[c] = "add" /\ next'[c] = next[c] /\ todo'[c] # << >>
            \/ pc'[c] = "idle" /\ next'[c] = next[c] + 1
  BY DEF AddStep
<1>9. ASSUME NEW d \in Consumers \ {c}
      PROVE  SameConsumer(d)
  BY DEF AddStep
<1>10. BufferBound'
  <2>1. IsFiniteSet(AtLimit) /\ IsFiniteSet(AtLimit')
    BY FS_Subset, IngestorAssumption DEF AtLimit
  <2>2. Cardinality(AtLimit) \in Nat /\ Cardinality(AtLimit') \in Nat
    BY <2>1, FS_CardinalityType
  <2>3. CASE caller'[c] = "limit"
    <3>1. AtLimit' = AtLimit \union {c} /\ c \notin AtLimit
      BY <1>8, <1>9, <2>3 DEF AtLimit, AddStep, SameConsumer
    <3>2. Cardinality(AtLimit') = Cardinality(AtLimit) + 1
      BY <2>1, <3>1, FS_AddElement
    <3> QED
      BY <1>1, <1>6, <2>2, <3>2, IngestorAssumption DEF Memory, BufferBound
  <2>4. CASE caller'[c] # "limit"
    BY <1>6, <1>8, <2>2, <2>4, IngestorAssumption DEF BufferBound
  <2> QED
    BY <2>3, <2>4
<1>11. InOnePlace'
  <2>1. new \notin ToSet(buffer) /\ \A t \in Tasks : new \notin Held(t)
    BY <1>4 DEF InMemory
  <2> QED
    BY <1>1, <1>5, <1>6, <1>7, <2>1 DEF Memory, InOnePlace
<1>12. ASSUME NEW item \in InMemory'
       PROVE  Placed(item, item.from[1])'
  <2>1. CASE item = new
    <3>1. /\ item.from[1] = c /\ item.from[2] = next[c]
          /\ item \notin ToSet(Tail(todo[c]))
      BY <1>2, <1>3, <2>1
    <3>2. Placed(item, c)'
      BY <1>1, <1>8, <3>1 DEF Placed, Pending
    <3> QED
      BY <3>1, <3>2
  <2>2. CASE item \in InMemory
    <3> DEFINE d == item.from[1]
    <3>1. item \in Item
      BY <1>1, <2>2, MemoryTypes
    <3>2. d \in Consumers /\ item.from[2] \in Nat
      BY <3>1 DEF Item
    <3>3. Placed(item, d)
      BY <1>1, <2>2 DEF Memory, MemoryPlaced
    <3> HIDE DEF d
    <3>4. CASE d = c
      <4>1. item.from[2] < next[c] \/ (item.from[2] = next[c] /\ item \notin ToSet(todo[c]))
        BY <3>3, <3>4 DEF Placed, Pending, AddStep
      <4>2. Placed(item, c)'
        BY <1>1, <1>2, <1>8, <3>2, <4>1 DEF Placed, Pending
      <4> QED
        BY <3>4, <4>2 DEF d
    <3>5. CASE d # c
      <4>1. Placed(item, d)'
        BY <1>9, <3>2, <3>3, <3>5 DEF Placed, Pending, SameConsumer
      <4> QED
        BY <4>1 DEF d
    <3> QED
      BY <3>4, <3>5
  <2> QED
    BY <1>7, <2>1, <2>2
<1>13. LimitKnown'
  <2>1. ASSUME NEW d \in Consumers, caller'[d] = "limit"
        PROVE  Head(todo'[d]) \in Known'
    <3>1. CASE d = c
      BY <1>7, <1>8, <2>1, <3>1 DEF new
    <3>2. CASE d # c
      BY <1>1, <1>7, <1>9, <2>1, <3>2 DEF Memory, LimitKnown, SameConsumer
    <3> QED
      BY <3>1, <3>2
  <2> QED
    BY <2>1 DEF LimitKnown
<1>14. ASSUME NEW d \in Consumers, NEW k \in ForwardRows(d)'
       PROVE  ForwardItem(d, k) \in Known'
  <2>1. k \in 1 .. next'[d] - 1 /\ Streams[d][k].operation \in DOMAIN OpType
    BY DEF ForwardRows
  <2>2. CASE k \in ForwardRows(d)
    BY <1>1, <1>7, <2>2 DEF Memory, Accounted, Known
  <2>3. CASE k \notin ForwardRows(d)
    <3>1. d = c
      BY <1>9, <2>1, <2>3 DEF ForwardRows, SameConsumer
    <3>2. k = next[c]
      BY <1>1, <1>8, <2>1, <2>3, <3>1 DEF ForwardRows
    <3>3. todo[c] = <<ForwardItem(c, k)>>
      BY <1>1, <2>1, <3>1, <3>2 DEF ConsumerOK, TodoOK, CurrentRow
    <3>4. new = ForwardItem(c, k)
      BY <3>3 DEF new
    <3> QED
      BY <1>7, <3>1, <3>4
  <2> QED
    BY <2>2, <2>3
<1>15. Accounted'
  BY <1>14 DEF Accounted, Known, ForwardItem
<1>16. PrefixKnown'
  <2>1. ASSUME NEW item \in Known', NEW d \in Consumers, NEW j \in Nat \ {0},
               d = item.from[1], j < item.from[2],
               Streams[d][j].operation \in DOMAIN OpType
        PROVE  ForwardItem(d, j) \in Known'
    <3>1. CASE item \in Known
      BY <1>1, <1>7, <2>1, <3>1 DEF Memory, PrefixKnown
    <3>2. CASE item = new
      <4>1. d = c /\ j \in 1 .. next[c] - 1
        BY <1>1, <1>3, <2>1, <3>2
      <4>2. j \in ForwardRows(c)
        BY <2>1, <4>1 DEF ForwardRows
      <4> QED
        BY <1>1, <1>7, <4>1, <4>2 DEF Memory, Accounted, Known
    <3> QED
      BY <1>7, <3>1, <3>2
  <2> QED
    BY <2>1 DEF PrefixKnown, ForwardItem
<1>17. NothingAhead'
  <2>1. ASSUME NEW d \in Consumers, NEW j \in Nat \ {0}, NEW k \in Nat \ {0}, j < k,
               Streams[d][j].operation \in DOMAIN OpType,
               ForwardItem(d, j) \in ToSet(buffer)',
               ForwardItem(d, k) \in delivered \union InFlight
        PROVE  ForwardItem(d, j) \in delivered \union lost
    <3>1. CASE ForwardItem(d, j) \in ToSet(buffer)
      BY <1>1, <2>1, <3>1 DEF Memory, NothingAhead
    <3>2. CASE ForwardItem(d, j) = new
      <4>1. ForwardItem(d, k) \in Known
        BY <2>1, MemoryIs DEF Known
      <4>2. ForwardItem(d, k).from[1] = d /\ ForwardItem(d, k).from[2] = k
        BY DEF ForwardItem
      <4>3. ForwardItem(d, j) \in Known
        BY <1>1, <2>1, <4>1, <4>2 DEF Memory, PrefixKnown
      <4> QED
        BY <1>4, <3>2, <4>3 DEF Known
    <3> QED
      BY <1>6, <2>1, <3>1, <3>2
  <2> QED
    BY <1>5, <1>7, <2>1 DEF NothingAhead, ForwardItem
<1>18. RangeTaken'
  <2>1. ASSUME NEW d \in Consumers, RangeAt(d)'
        PROVE  d # c /\ RangeAt(d) /\ ForwardRows(d)' = ForwardRows(d)
    BY <1>8, <1>9, <2>1 DEF RangeAt, SameConsumer, ForwardRows
  <2> QED
    BY <1>1, <1>5, <1>7, <2>1 DEF Memory, RangeTaken, ForwardItem
<1> QED
  BY <1>10, <1>11, <1>12, <1>13, <1>15, <1>16, <1>17, <1>18 DEF Memory, MemoryPlaced

LEMMA EmptyFacts == ToSet(<< >>) = {} /\ IsInjective(<< >>) /\ Len(<< >>) = 0
BY DEF ToSet, IsInjective

LEMMA BoundOfEmpty ==
    ASSUME NEW S \in SUBSET Consumers
    PROVE  0 < BatchLimit + Cardinality(S)
<1>1. Cardinality(S) \in Nat
  BY FS_Subset, FS_CardinalityType, IngestorAssumption
<1> QED
  BY <1>1, IngestorAssumption

LEMMA TakeKeeps ==
    ASSUME IndInv, NEW t \in Tasks, TakeStep(t)
    PROVE  Memory'
<1> DEFINE batches == GroupByNode(buffer)
<1>1. /\ TypeOK /\ Control /\ Memory
      /\ buffer \in Seq(Item) /\ IsInjective(buffer)
  BY DEF IndInv, TypeOK, ItemQueue, Memory, InOnePlace
<1>2. /\ UNION {ToSet(batches[n]) : n \in Nodes} = ToSet(buffer)
      /\ \A n \in Nodes : IsInjective(batches[n])
  BY <1>1, Grouped
<1>3. /\ unsent' = [unsent EXCEPT ![t] = batches] /\ buffer' = << >>
      /\ UNCHANGED <<next, caller, todo, delivered, lost>>
  BY DEF TakeStep
<1>4. unsent'[t] = batches /\ \A u \in Tasks \ {t} : unsent'[u] = unsent[u]
  BY <1>1, <1>3 DEF TypeOK
<1> HIDE DEF batches
<1>5. /\ Held(t)' = ToSet(buffer) /\ ToSet(buffer)' = {}
      /\ \A u \in Tasks \ {t} : Held(u)' = Held(u)
  BY <1>2, <1>3, <1>4, EmptyFacts DEF Held
<1>6. Held(t) = {}
  BY EmptyFacts DEF Held, TakeStep, NoBatches
<1>7. InFlight' = InFlight \union ToSet(buffer)
  BY <1>5, <1>6 DEF InFlight
<1>8. InMemory' = InMemory
  <2>1. InMemory' = ToSet(buffer)' \union InFlight'
    BY DEF InMemory, InFlight
  <2> QED
    BY <1>5, <1>7, <2>1, MemoryIs
<1>9. Known' = Known
  BY <1>3, <1>8 DEF Known
<1>10. BufferBound'
  <2>1. AtLimit' \in SUBSET Consumers
    BY DEF AtLimit
  <2> QED
    BY <1>3, <2>1, BoundOfEmpty, EmptyFacts DEF BufferBound
<1>11. InOnePlace'
  <2>1. IsInjective(buffer)'
    BY <1>3, EmptyFacts
  <2>2. ASSUME NEW u \in Tasks, NEW n \in Nodes
        PROVE  IsInjective(unsent'[u][n])
    BY <1>1, <1>2, <1>4 DEF Memory, InOnePlace
  <2>3. ASSUME NEW u \in Tasks, NEW v \in Tasks, u # v
        PROVE  Held(u)' \intersect Held(v)' = {}
    BY <1>1, <1>5, <2>3 DEF Memory, InOnePlace
  <2> QED
    BY <1>5, <2>1, <2>2, <2>3 DEF InOnePlace
<1>12. MemoryPlaced'
  BY <1>1, <1>3, <1>8 DEF Memory, MemoryPlaced, Placed, Pending
<1>13. LimitKnown'
  BY <1>1, <1>3, <1>9 DEF Memory, LimitKnown
<1>14. \A c \in Consumers : ForwardRows(c)' = ForwardRows(c)
  BY <1>3 DEF ForwardRows
<1>15. Accounted'
  BY <1>1, <1>3, <1>8, <1>14 DEF Memory, Accounted, ForwardItem
<1>16. PrefixKnown'
  BY <1>1, <1>9 DEF Memory, PrefixKnown, ForwardItem
<1>17. NothingAhead'
  BY <1>5 DEF NothingAhead
<1>18. RangeTaken'
  BY <1>1, <1>3, <1>7, <1>14, MemoryIs DEF Memory, Accounted, RangeTaken, ForwardItem
<1> QED
  BY <1>10, <1>11, <1>12, <1>13, <1>15, <1>16, <1>17, <1>18 DEF Memory

LEMMA SendKeeps ==
    ASSUME IndInv, NEW t \in Tasks, NEW n \in Nodes, SendStep(t, n)
    PROVE  Memory'
<1> DEFINE sent == ToSet(unsent[t][n])
<1>1. TypeOK /\ Control /\ Memory
  BY DEF IndInv
<1>2. /\ delivered \subseteq delivered' /\ lost \subseteq lost'
      /\ delivered' \subseteq delivered \union sent /\ lost' \subseteq lost \union sent
      /\ UNCHANGED <<buffer, pc, next, caller, todo>>
  BY DEF SendStep
<1>3. ASSUME NEW u \in Tasks, NEW m \in Nodes
      PROVE  \/ unsent'[u][m] = unsent[u][m]
             \/ /\ u = t /\ m = n /\ unsent'[u][m] = << >>
                /\ sent \subseteq delivered' \union lost'
  BY <1>1 DEF SendStep, TypeOK
<1>4. sent \subseteq Held(t)
  BY DEF Held
<1>5. ASSUME NEW u \in Tasks
      PROVE  /\ Held(u)' \subseteq Held(u)
             /\ Held(u) \subseteq Held(u)' \union delivered' \union lost'
  BY <1>3, EmptyFacts DEF Held
<1> HIDE DEF sent
<1>6. /\ InFlight' \subseteq InFlight
      /\ InFlight \subseteq InFlight' \union delivered' \union lost'
      /\ sent \subseteq InFlight
  BY <1>4, <1>5 DEF InFlight
<1>7. InMemory' = ToSet(buffer) \union InFlight'
  BY <1>2 DEF InMemory, InFlight
<1>8. InMemory' \subseteq InMemory /\ Known' = Known
  BY <1>2, <1>6, <1>7, MemoryIs DEF Known
<1>9. BufferBound'
  BY <1>1, <1>2 DEF Memory, BufferBound, AtLimit
<1>10. InOnePlace'
  <2>1. ASSUME NEW u \in Tasks, NEW m \in Nodes
        PROVE  IsInjective(unsent'[u][m])
    BY <1>1, <1>3, EmptyFacts DEF Memory, InOnePlace
  <2>2. ASSUME NEW u \in Tasks, NEW v \in Tasks, u # v
        PROVE  Held(u)' \intersect Held(v)' = {}
    BY <1>1, <1>5, <2>2 DEF Memory, InOnePlace
  <2>3. ASSUME NEW u \in Tasks
        PROVE  Held(u)' \intersect ToSet(buffer)' = {}
    BY <1>1, <1>2, <1>5 DEF Memory, InOnePlace
  <2> QED
    BY <1>1, <1>2, <2>1, <2>2, <2>3 DEF Memory, InOnePlace
<1>11. MemoryPlaced'
  BY <1>1, <1>2, <1>8 DEF Memory, MemoryPlaced, Placed, Pending
<1>12. LimitKnown'
  BY <1>1, <1>2, <1>8 DEF Memory, LimitKnown
<1>13. \A c \in Consumers : ForwardRows(c)' = ForwardRows(c)
  BY <1>2 DEF ForwardRows
<1>14. Accounted'
  BY <1>1, <1>8, <1>13 DEF Memory, Accounted, Known, ForwardItem
<1>15. PrefixKnown'
  BY <1>1, <1>8 DEF Memory, PrefixKnown, ForwardItem
<1>16. NothingAhead'
  <2>1. delivered' \union InFlight' \subseteq delivered \union InFlight
    BY <1>2, <1>6
  <2> QED
    BY <1>1, <1>2, <2>1 DEF Memory, NothingAhead, ForwardItem
<1>17. RangeTaken'
  <2>1. delivered \union lost \union InFlight \subseteq delivered' \union lost' \union InFlight'
    BY <1>2, <1>6
  <2> QED
    BY <1>1, <1>2, <1>13, <2>1 DEF Memory, RangeTaken, RangeAt, ForwardItem
<1> QED
  BY <1>9, <1>10, <1>11, <1>12, <1>14, <1>15, <1>16, <1>17 DEF Memory

LEMMA ExitKeeps ==
    ASSUME IndInv, Exit
    PROVE  Memory'
<1>1. TypeOK /\ Control /\ Memory
  BY DEF IndInv
<1>2. /\ next' = checkpoint /\ buffer' = << >> /\ delivered' = delivered
      /\ lost' = lost \union (InMemory \ delivered)
      /\ \A t \in Tasks : unsent'[t] = NoBatches /\ pc'[t] = "idle" /\ caller'[t] = "none"
  BY ExitStep
<1>3. \A t \in Tasks : Held(t)' = {}
  BY <1>2, EmptyFacts DEF Held, NoBatches
<1>4. ToSet(buffer)' = {} /\ InFlight' = {}
  BY <1>2, <1>3, EmptyFacts DEF InFlight
<1>5. InMemory' = {} /\ Known' = Known
  <2>1. InMemory' = ToSet(buffer)' \union InFlight'
    BY DEF InMemory, InFlight
  <2> QED
    BY <1>2, <1>4, <2>1 DEF Known
<1>6. BufferBound'
  <2>1. AtLimit' \in SUBSET Consumers
    BY DEF AtLimit
  <2> QED
    BY <1>2, <2>1, BoundOfEmpty, EmptyFacts DEF BufferBound
<1>7. InOnePlace'
  <2>1. \A t \in Tasks : \A n \in Nodes : IsInjective(unsent'[t][n])
    BY <1>2, EmptyFacts DEF NoBatches
  <2> QED
    BY <1>2, <1>3, <2>1, EmptyFacts DEF InOnePlace
<1>8. MemoryPlaced'
  BY <1>5 DEF MemoryPlaced
<1>9. LimitKnown'
  BY <1>2, TaskFacts DEF LimitKnown
<1>10. ASSUME NEW c \in Consumers
       PROVE  ForwardRows(c)' \subseteq ForwardRows(c)
  <2>1. checkpoint[c] <= next[c] /\ checkpoint[c] \in Nat /\ next[c] \in Nat
    BY <1>1 DEF Control, ConsumerOK, TypeOK
  <2> QED
    BY <1>2, <2>1 DEF ForwardRows
<1>11. Accounted'
  BY <1>1, <1>5, <1>10 DEF Memory, Accounted, Known, ForwardItem
<1>12. PrefixKnown'
  BY <1>1, <1>5 DEF Memory, PrefixKnown, ForwardItem
<1>13. NothingAhead'
  BY <1>4 DEF NothingAhead
<1>14. RangeTaken'
  BY <1>2, TaskFacts DEF RangeTaken, RangeAt
<1> QED
  BY <1>6, <1>7, <1>8, <1>9, <1>11, <1>12, <1>13, <1>14 DEF Memory

\* A consumer that stays where it is.
LEMMA SameIsQuiet ==
    ASSUME NEW d \in Consumers, SameConsumer(d)
    PROVE  QuietConsumer(d)
BY DEF SameConsumer, QuietConsumer, RangeAt

LEMMA QuietOther ==
    ASSUME IndInv, NEW c \in Consumers, QuietConsumer(c),
           \A d \in Consumers \ {c} : SameConsumer(d),
           UNCHANGED <<buffer, unsent, delivered, lost>>
    PROVE  Memory'
<1>1. QuietStep
  BY SameIsQuiet DEF QuietStep
<1> QED
  BY <1>1, QuietKeeps

\* The steps of a flush, as steps of the items.
LEMMA SendIsSend ==
    ASSUME TypeOK, NEW t \in Tasks, NEW n \in Nodes,
           SendOk(t, n) \/ SendPartial(t, n) \/ SendError(t, n)
    PROVE  SendStep(t, n)
<1>1. unsent[t][n] \in Seq(Item) /\ Len(unsent[t][n]) \in Nat
  BY DEF TypeOK, ItemQueue
<1>2. UNCHANGED <<buffer, pc, next, caller, todo>>
  BY DEF SendOk, SendPartial, SendError
<1>3. CASE SendOk(t, n)
  BY <1>2, <1>3 DEF SendOk, NodeApplies, NodeDone, SendStep
<1>4. ASSUME NEW k \in 0 .. Len(unsent[t][n]), NodeApplies(SubSeq(unsent[t][n], 1, k))
      PROVE  /\ delivered \subseteq delivered'
             /\ delivered' \subseteq delivered \union ToSet(unsent[t][n])
  <2>1. ToSet(SubSeq(unsent[t][n], 1, k)) \subseteq ToSet(unsent[t][n])
    BY PrefixType
  <2> QED
    BY <1>4, <2>1 DEF NodeApplies
<1>5. ASSUME NodeDone(t, n, FALSE)
      PROVE  /\ lost' = lost \union (ToSet(unsent[t][n]) \ delivered')
             /\ unsent' = [unsent EXCEPT ![t][n] = << >>]
  BY <1>5 DEF NodeDone
<1>6. CASE SendPartial(t, n)
  <2>1. PICK k \in 0 .. Len(unsent[t][n]) - 1 : NodeApplies(SubSeq(unsent[t][n], 1, k))
    BY <1>6 DEF SendPartial
  <2>2. k \in 0 .. Len(unsent[t][n])
    BY <1>1
  <2>3. NodeDone(t, n, FALSE)
    BY <1>6 DEF SendPartial
  <2> QED
    BY <1>2, <1>4, <1>5, <2>1, <2>2, <2>3 DEF SendStep
<1>7. CASE SendError(t, n)
  <2>1. PICK k \in 0 .. Len(unsent[t][n]) : NodeApplies(SubSeq(unsent[t][n], 1, k))
    BY <1>7 DEF SendError
  <2>2. NodeDone(t, n, FALSE) \/ UNCHANGED <<unsent, lost>>
    BY <1>7 DEF SendError
  <2> QED
    BY <1>2, <1>4, <1>5, <2>1, <2>2 DEF SendStep
<1> QED
  BY <1>3, <1>6, <1>7

LEMMA MemoryStep ==
    ASSUME IndInv, [Next]_vars
    PROVE  Memory'
<1> USE TaskFacts
<1>1. TypeOK /\ Control /\ Memory
  BY DEF IndInv
<1>2. ASSUME NEW c \in Consumers
      PROVE  ConsumerAt(c)
  BY <1>1 DEF Control, ConsumerOK
<1>3. CASE UNCHANGED vars \/ Restart
  <2>1. \A d \in Consumers : SameConsumer(d)
    BY <1>3 DEF vars, Restart, SameConsumer
  <2>2. UNCHANGED <<buffer, unsent, delivered, lost>>
    BY <1>3 DEF vars, Restart
  <2>3. QuietStep
    BY <2>1, <2>2, SameIsQuiet DEF QuietStep
  <2> QED
    BY <2>3, QuietKeeps
<1>4. ASSUME NEW c \in Consumers, SkipPreImage(c)
      PROVE  Memory'
  <2>1. /\ pc[c] = "idle" /\ CurrentRow(c).operation = "PreImage"
        /\ pc' = [pc EXCEPT ![c] = "idle"] /\ next' = [next EXCEPT ![c] = next[c] + 1]
        /\ UNCHANGED <<checkpoint, caller, pending_start, tries,
                       todo, buffer, unsent, delivered, lost>>
    BY <1>4 DEF SkipPreImage, RowReady, Accept
  <2>2. QuietConsumer(c)
    BY <1>1, <1>2, <2>1 DEF ConsumerAt, QuietConsumer, RangeAt, OpType, TypeOK
  <2> QED
    BY <1>1, <2>1, <2>2, QuietOther DEF SameConsumer, TypeOK
<1>5. ASSUME NEW c \in Consumers, RangeDeleteStart(c)
      PROVE  Memory'
  <2>1. /\ pc[c] = "idle" /\ CurrentRow(c).operation = "RangeStart"
        /\ pc' = [pc EXCEPT ![c] = "idle"] /\ next' = [next EXCEPT ![c] = next[c] + 1]
        /\ pending_start' = [pending_start EXCEPT ![c] = CurrentRow(c)]
        /\ UNCHANGED <<checkpoint, caller, tries, todo, buffer, unsent, delivered, lost>>
    BY <1>5 DEF RangeDeleteStart, RowReady, Accept
  <2>2. QuietConsumer(c)
    BY <1>1, <1>2, <2>1 DEF ConsumerAt, QuietConsumer, RangeAt, OpType, TypeOK
  <2> QED
    BY <1>1, <2>1, <2>2, QuietOther DEF SameConsumer, TypeOK
<1>6. ASSUME NEW c \in Consumers, RangeDeleteEnd(c)
      PROVE  Memory'
  <2>1. CASE pending_start[c] = NoStart
    BY <1>6, <2>1, ExitKeeps DEF RangeDeleteEnd
  <2>2. CASE pending_start[c] # NoStart
    <3>1. /\ pc[c] = "idle"
          /\ pc' = [pc EXCEPT ![c] = "take"] /\ caller' = [caller EXCEPT ![c] = "range"]
          /\ tries' = [tries EXCEPT ![c] = FlushRetries]
          /\ UNCHANGED <<next, checkpoint, pending_start, todo, buffer, unsent, delivered, lost>>
      BY <1>6, <2>2 DEF RangeDeleteEnd, RowReady, StartFlush
    <3>2. QuietConsumer(c)
      BY <1>1, <1>2, <3>1 DEF ConsumerAt, QuietConsumer, RangeAt, TypeOK
    <3> QED
      BY <1>1, <3>1, <3>2, QuietOther DEF SameConsumer, TypeOK
  <2> QED
    BY <2>1, <2>2
<1>7. ASSUME NEW c \in Consumers, RouteForward(c)
      PROVE  Memory'
  <2>1. /\ pc[c] = "idle"
        /\ \/ pc' = [pc EXCEPT ![c] = "take"] /\ caller' = [caller EXCEPT ![c] = "precheck"]
           \/ pc' = [pc EXCEPT ![c] = "add"] /\ caller' = caller
        /\ UNCHANGED <<next, checkpoint, pending_start, tries, buffer, unsent, delivered, lost>>
        /\ \A d \in Consumers \ {c} : todo'[d] = todo[d]
    BY <1>1, <1>7 DEF RouteForward, RowReady, StartFlush, TypeOK
  <2>2. QuietConsumer(c)
    BY <1>1, <1>2, <2>1 DEF ConsumerAt, QuietConsumer, RangeAt, TypeOK
  <2> QED
    BY <1>1, <2>1, <2>2, QuietOther DEF SameConsumer, TypeOK
<1>8. ASSUME NEW c \in Consumers, Add(c)
      PROVE  Memory'
  <2>1. CASE last_flush_failed
    BY <1>8, <2>1, ExitKeeps DEF Add
  <2>2. CASE ~last_flush_failed
    <3>1. pc[c] = "add" /\ caller[c] = "none" /\ todo[c] # << >>
      BY <1>2, <1>8 DEF Add, ConsumerAt
    <3>2. /\ buffer' = Append(buffer, Head(todo[c]))
          /\ UNCHANGED <<checkpoint, pending_start, tries, unsent, delivered, lost>>
      BY <1>8, <2>2 DEF Add
    <3>3. todo[c] \in Seq(Item) /\ buffer \in Seq(Item)
      BY <1>1 DEF TypeOK, ItemQueue
    <3>4. CASE Len(buffer') >= BatchLimit
      <4>1. /\ pc' = [pc EXCEPT ![c] = "take"] /\ caller' = [caller EXCEPT ![c] = "limit"]
            /\ UNCHANGED <<next, todo>>
        BY <1>8, <2>2, <3>4 DEF Add, StartFlush
      <4>2. AddStep(c)
        BY <1>1, <3>1, <3>2, <4>1 DEF AddStep, SameConsumer, TypeOK
      <4> QED
        BY <4>2, AddKeeps
    <3>5. CASE ~(Len(buffer') >= BatchLimit)
      <4>1. /\ todo' = [todo EXCEPT ![c] = Tail(todo[c])] /\ caller' = caller
            /\ IF Len(todo[c]) = 1
               THEN pc' = [pc EXCEPT ![c] = "idle"] /\ next' = [next EXCEPT ![c] = next[c] + 1]
               ELSE pc' = [pc EXCEPT ![c] = "add"] /\ next' = next
        BY <1>8, <2>2, <3>5 DEF Add, Enqueued, Accept
      <4>2. Len(buffer') < BatchLimit
        <5>1. Len(buffer') \in Nat
          BY <1>1, <3>1, <3>2, <3>3, HeadTodo, AppendFacts
        <5> QED
          BY <3>5, <5>1, IngestorAssumption
      <4>3. Tail(todo[c]) = << >> <=> Len(todo[c]) = 1
        BY <3>1, <3>3, TailFacts
      <4>4. \A d \in Consumers \ {c} : SameConsumer(d)
        BY <1>1, <3>2, <4>1 DEF SameConsumer, TypeOK
      <4>5. AddStep(c)
        BY <1>1, <3>1, <3>2, <4>1, <4>2, <4>3, <4>4 DEF AddStep, TypeOK
      <4> QED
        BY <4>5, AddKeeps
    <3> QED
      BY <3>4, <3>5
  <2> QED
    BY <2>1, <2>2
<1>9. ASSUME NEW c \in Consumers, ListIds(c)
      PROVE  Memory'
  <2>1. /\ pc[c] = "list"
        /\ \/ pc' = [pc EXCEPT ![c] = "idle"] /\ next' = [next EXCEPT ![c] = next[c] + 1]
           \/ pc' = [pc EXCEPT ![c] = "add"] /\ next' = next
        /\ pending_start' = [pending_start EXCEPT ![c] = NoStart]
        /\ UNCHANGED <<checkpoint, caller, tries, buffer, unsent, delivered, lost>>
    BY <1>9 DEF ListIds, Accept
  <2>2. \A d \in Consumers \ {c} : todo'[d] = todo[d]
    <3>1. \E deletes : todo' = [todo EXCEPT ![c] = deletes]
      BY <1>9 DEF ListIds
    <3> QED
      BY <1>1, <3>1 DEF TypeOK
  <2>3. "RangeEnd" \notin DOMAIN OpType
    BY DEF OpType
  <2>4. /\ pc[c] = "list" /\ caller[c] = "none" /\ todo[c] = << >>
        /\ CurrentRow(c).operation \notin DOMAIN OpType
    BY <1>2, <2>1, <2>3 DEF ConsumerAt
  <2>5. pc'[c] \in {"idle", "add"} /\ (next'[c] = next[c] + 1 \/ next'[c] = next[c])
    BY <1>1, <2>1 DEF TypeOK
  <2>6. QuietConsumer(c)
    BY <2>1, <2>4, <2>5 DEF QuietConsumer, RangeAt
  <2> QED
    BY <1>1, <2>1, <2>2, <2>6, QuietOther DEF SameConsumer, TypeOK
<1>10. ASSUME NEW c \in Consumers, PrecheckReturns(c)
       PROVE  Memory'
  <2>1. CASE failed[c]
    BY <1>10, <2>1, ExitKeeps DEF PrecheckReturns
  <2>2. CASE ~failed[c]
    <3>1. /\ caller[c] = "precheck"
          /\ caller' = [caller EXCEPT ![c] = "none"] /\ pc' = [pc EXCEPT ![c] = "add"]
          /\ UNCHANGED <<next, checkpoint, pending_start, tries,
                         todo, buffer, unsent, delivered, lost>>
      BY <1>10, <2>2 DEF PrecheckReturns, Returns, Returned
    <3>2. QuietConsumer(c)
      BY <1>1, <3>1 DEF QuietConsumer, RangeAt, TypeOK
    <3> QED
      BY <1>1, <3>1, <3>2, QuietOther DEF SameConsumer, TypeOK
  <2> QED
    BY <2>1, <2>2
<1>11. ASSUME NEW c \in Consumers, LimitReturns(c)
       PROVE  Memory'
  <2>1. CASE failed[c]
    BY <1>11, <2>1, ExitKeeps DEF LimitReturns
  <2>2. CASE ~failed[c]
    <3>1. /\ pc[c] = "send" /\ caller[c] = "limit"
          /\ caller' = [caller EXCEPT ![c] = "none"]
          /\ todo' = [todo EXCEPT ![c] = Tail(todo[c])]
          /\ IF Len(todo[c]) = 1
             THEN pc' = [pc EXCEPT ![c] = "idle"] /\ next' = [next EXCEPT ![c] = next[c] + 1]
             ELSE pc' = [pc EXCEPT ![c] = "add"] /\ next' = next
          /\ UNCHANGED <<checkpoint, pending_start, tries, buffer, unsent, delivered, lost>>
      BY <1>11, <2>2 DEF LimitReturns, Returns, Returned, Enqueued, Accept
    <3>2. todo[c] # << >> /\ todo[c] \in Seq(Item)
      BY <1>1, <1>2, <3>1 DEF ConsumerAt, TypeOK, ItemQueue
    <3>3. Tail(todo[c]) = << >> <=> Len(todo[c]) = 1
      BY <3>2, TailFacts
    <3>4. /\ caller'[c] = "none" /\ todo'[c] = Tail(todo[c]) /\ pc'[c] \in {"idle", "add"}
          /\ \/ next'[c] = next[c] /\ todo'[c] # << >>
             \/ next'[c] = next[c] + 1
      BY <1>1, <3>1, <3>3 DEF TypeOK
    <3>5. QuietConsumer(c)
      BY <3>1, <3>2, <3>4 DEF QuietConsumer, RangeAt
    <3> QED
      BY <1>1, <3>1, <3>5, QuietOther DEF SameConsumer, TypeOK
  <2> QED
    BY <2>1, <2>2
<1>12. ASSUME NEW c \in Consumers, RangeReturns(c)
       PROVE  Memory'
  <2>1. /\ pc[c] = "send" /\ caller[c] = "range"
        /\ tries' = [tries EXCEPT ![c] = tries[c] - 1]
        /\ \/ pc' = [pc EXCEPT ![c] = "take"] /\ caller' = [caller EXCEPT ![c] = "range"]
           \/ pc' = [pc EXCEPT ![c] = "list"] /\ caller' = [caller EXCEPT ![c] = "none"]
        /\ UNCHANGED <<next, checkpoint, pending_start, todo, buffer, unsent, delivered, lost>>
    BY <1>12 DEF RangeReturns, Returns, StartFlush
  <2>2. QuietConsumer(c)
    BY <1>1, <2>1 DEF QuietConsumer, RangeAt, TypeOK
  <2> QED
    BY <1>1, <2>1, <2>2, QuietOther DEF SameConsumer, TypeOK
<1>13. ASSUME NEW c \in Consumers, SaveProgress(c)
       PROVE  Memory'
  <2>1. UNCHANGED <<pc, caller, next, todo, buffer, unsent, delivered, lost>>
    BY <1>13 DEF SaveProgress
  <2>2. QuietStep
    BY <2>1 DEF QuietStep, QuietConsumer, RangeAt
  <2> QED
    BY <2>2, QuietKeeps
<1>14. ASSUME NEW t \in Tasks, TakeBuffer(t)
       PROVE  Memory'
  <2>1. TakeStep(t)
    BY <1>1, <1>14 DEF TakeBuffer, TakeStep, TypeOK, Control
  <2> QED
    BY <2>1, TakeKeeps
<1>15. ASSUME NEW t \in Tasks, NEW n \in Nodes,
              SendOk(t, n) \/ SendPartial(t, n) \/ SendError(t, n)
       PROVE  Memory'
  BY <1>1, <1>15, SendIsSend, SendKeeps
<1>16. CASE Tick \/ TickReturns \/ CtrlC
  <2>1. PICK t \in {Ticker, Main} :
            /\ \A u \in Tasks \ {t} : pc'[u] = pc[u] /\ caller'[u] = caller[u]
            /\ UNCHANGED <<next, checkpoint, pending_start, tries,
                           todo, buffer, unsent, delivered, lost>>
    BY <1>1, <1>16 DEF Tick, TickReturns, CtrlC, StartFlush, Returned, TypeOK
  <2>2. \A d \in Consumers : SameConsumer(d)
    BY <2>1, IngestorAssumption DEF SameConsumer
  <2>3. QuietStep
    BY <2>1, <2>2, SameIsQuiet DEF QuietStep
  <2> QED
    BY <2>3, QuietKeeps
<1>17. CASE ShutdownReturns \/ Crash \/ \E c \in Consumers : ListIdsFails(c)
  BY <1>17, ExitKeeps DEF ShutdownReturns, Crash, ListIdsFails
<1> QED
  BY <1>3, <1>4, <1>5, <1>6, <1>7, <1>8, <1>9, <1>10, <1>11, <1>12, <1>13,
     <1>14, <1>15, <1>16, <1>17 DEF Next, Consume, Flush

-----------------------------------------------------------------------------
(* The theorems *)

LEMMA Initially ==
    ASSUME Init
    PROVE  IndInv
<1> USE TaskFacts
<1>1. /\ up = TRUE /\ checkpoint = [c \in Consumers |-> 1] /\ next = checkpoint
      /\ pc = [t \in Tasks |-> "idle"] /\ caller = [t \in Tasks |-> "none"]
      /\ pending_start = [c \in Consumers |-> NoStart]
      /\ tries = [c \in Consumers |-> 0] /\ todo = [c \in Consumers |-> << >>]
      /\ unsent = [t \in Tasks |-> NoBatches] /\ target = [t \in Tasks |-> NoNode]
      /\ attempt = [t \in Tasks |-> 0] /\ failed = [t \in Tasks |-> FALSE]
      /\ buffer = << >> /\ last_flush_failed = FALSE
      /\ docs = [i \in Ids |-> 0] /\ delivered = {} /\ lost = {}
  BY DEF Init, Started
<1>2. TypeOK
  <2>1. 0 \in 0 .. FlushRetries /\ 0 \in 0 .. MaxAttempts - 1
    BY IngestorAssumption
  <2>2. << >> \in ItemQueue
    BY DEF ItemQueue
  <2>3. up \in BOOLEAN /\ last_flush_failed \in BOOLEAN /\ failed \in [Tasks -> BOOLEAN]
    BY <1>1
  <2>4. unsent \in [Tasks -> [Nodes -> ItemQueue]] /\ todo \in [Consumers -> ItemQueue]
    BY <1>1, <2>2, NoBatchesType
  <2> QED
    BY <1>1, <2>1, <2>2, <2>3, <2>4 DEF TypeOK
<1>3. Control
  BY <1>1, EmptyFacts DEF Control, ConsumerOK, ConsumerAt, TodoOK
<1>4. \A t \in Tasks : Held(t) = {}
  BY <1>1, EmptyFacts DEF Held, NoBatches
<1>5. ToSet(buffer) = {} /\ InFlight = {} /\ InMemory = {} /\ Known = {}
  BY <1>1, <1>4, EmptyFacts DEF InFlight, InMemory, Known
<1>6. \A c \in Consumers : ForwardRows(c) = {}
  BY <1>1 DEF ForwardRows
<1>7. BufferBound
  <2>1. AtLimit \in SUBSET Consumers
    BY DEF AtLimit
  <2> QED
    BY <1>1, <2>1, BoundOfEmpty, EmptyFacts DEF BufferBound
<1>8. InOnePlace
  <2>1. \A t \in Tasks : \A n \in Nodes : IsInjective(unsent[t][n])
    BY <1>1, EmptyFacts DEF NoBatches
  <2> QED
    BY <1>1, <1>4, <2>1, EmptyFacts DEF InOnePlace
<1>9. MemoryPlaced /\ PrefixKnown /\ NothingAhead
  BY <1>5 DEF MemoryPlaced, PrefixKnown, NothingAhead
<1>10. LimitKnown /\ Accounted /\ RangeTaken
  BY <1>1, <1>6 DEF LimitKnown, Accounted, RangeTaken
<1> QED
  BY <1>2, <1>3, <1>7, <1>8, <1>9, <1>10 DEF IndInv, Memory

\* The inductive invariant.
THEOREM Inductive == Spec => []IndInv
<1>1. IndInv /\ [Next]_vars => IndInv'
  <2> SUFFICES ASSUME IndInv, [Next]_vars PROVE IndInv'
    OBVIOUS
  <2>1. TypeOK /\ Control
    BY DEF IndInv
  <2> QED
    BY <2>1, TypeStep, ControlStep, MemoryStep DEF IndInv
<1> QED
  BY <1>1, Initially, PTL DEF Spec

\* Every variable keeps its type, whatever the nodes answer and whenever the
\* process ends.
THEOREM TypeCorrect == Spec => []TypeOK
<1>1. IndInv => TypeOK
  BY DEF IndInv
<1> QED
  BY <1>1, Inductive, PTL

\* The buffer grows past batch_limit by at most one item for each consumer that
\* is between the limit check and the flush of Service::add.
THEOREM BufferBounded == Spec => []BufferBound
<1>1. IndInv => BufferBound
  BY DEF IndInv, Memory
<1> QED
  BY <1>1, Inductive, PTL

\* No item is in memory twice, however many flushes run beside each other.
THEOREM NoDuplicates == Spec => []InOnePlace
<1>1. IndInv => InOnePlace
  BY DEF IndInv, Memory
<1> QED
  BY <1>1, Inductive, PTL

\* An accepted row is in memory, was delivered, or was discarded by a failed
\* flush or by the end of a process.
THEOREM NothingDropped == Spec => []Accounted
<1>1. IndInv => Accounted
  BY DEF IndInv, Memory
<1> QED
  BY <1>1, Inductive, PTL

\* A row that waits in the buffer for the first time is not overtaken by a later
\* row of its consumer.
THEOREM NotOvertaken == Spec => []BufferNotOvertaken
<1>1. IndInv => BufferNotOvertaken
  <2> SUFFICES ASSUME IndInv, NEW c \in Consumers,
                      NEW j \in 1 .. Len(Streams[c]), NEW k \in 1 .. Len(Streams[c]),
                      j < k, Streams[c][j].operation \in DOMAIN OpType,
                      ForwardItem(c, j) \in ToSet(buffer), ForwardItem(c, k) \in delivered
               PROVE  ForwardItem(c, j) \in delivered \union lost
    BY DEF BufferNotOvertaken
  <2>1. NothingAhead
    BY DEF IndInv, Memory
  <2>2. j \in Nat \ {0} /\ k \in Nat \ {0}
    BY IngestorAssumption
  <2> QED
    BY <2>1, <2>2 DEF NothingAhead
<1> QED
  BY <1>1, Inductive, PTL

\* When commit_range_delete lists a partition, the rows its consumer has accepted
\* before have left the buffer.
THEOREM ListsAfterFlush == Spec => []RangeListAfterFlush
<1>1. IndInv => RangeListAfterFlush
  <2> SUFFICES ASSUME IndInv, NEW c \in Consumers, pc[c] = "list", NEW k \in ForwardRows(c)
               PROVE  ForwardItem(c, k) \in delivered \union lost
                                                \union UNION {Held(t) : t \in Tasks \ {c}}
    BY DEF RangeListAfterFlush
  <2>1. ForwardItem(c, k) \in delivered \union lost \union InFlight
    BY DEF IndInv, Memory, RangeTaken, RangeAt
  <2>2. unsent[c] = NoBatches
    BY TaskFacts DEF IndInv, Control
  <2>3. Held(c) = {}
    BY <2>2, EmptyFacts DEF Held, NoBatches
  <2> QED
    BY <2>1, <2>3 DEF InFlight
<1> QED
  BY <1>1, Inductive, PTL
=============================================================================
