------------------------- MODULE NormalizationProofs -------------------------
(****************************************************************************)
(* Proofs about Normalization, for every set of workers, raw rows, keys and *)
(* contents, every batch limit and every number of collections, crashes and *)
(* database errors.                                                         *)
(****************************************************************************)
EXTENDS Normalization, SequenceTheorems, TLAPS

(* What a worker inside a transaction relies on: its normalizer accepted    *)
(* the remembered content, a row is only kept while merging, and the row    *)
(* that was read is still there (rows are never deleted).                   *)
InTransaction ==
    \A w \in Workers :
        /\ pc[w] \in {"claimed", "merging"} => Incoming(w) # Rejected
        /\ copy[w] # NoRow => pc[w] = "merging" /\ rows[Incoming(w).key] # NoRow

TypeInv == TypeOK /\ InTransaction

(* The core row a worker read is an ancestor of the one in the table: same  *)
(* origin, and it already kept what OriginIsKept asks for.                  *)
CopyIsAncestor ==
    \A w \in Workers : copy[w] # NoRow =>
        LET k == Incoming(w).key IN
            /\ rows[k] # NoRow
            /\ rows[k].origin = copy[w].origin
            /\ KeepsOrigin(k, copy[w])

(* The inductive invariant. *)
IInv == /\ TypeInv
        /\ OneTransactionPerRaw
        /\ NormalizedIsAttributed
        /\ RowsAreCited
        /\ OriginIsKept
        /\ CopyIsAncestor

-----------------------------------------------------------------------------
(* The head of a batch that is not empty is an item, the rest is a batch,   *)
(* and it is empty exactly after the last item.                             *)
LEMMA BatchFacts ==
    ASSUME NEW S, NEW b \in Seq(S), b # << >>
    PROVE  /\ b[1] \in S
           /\ Tail(b) \in Seq(S)
           /\ Len(b) = 1 <=> Tail(b) = << >>
<1>1. Len(b) \in Nat /\ Len(b) >= 1
  OBVIOUS
<1>2. b[1] \in S
  BY <1>1
<1>3. Tail(b) \in Seq(S) /\ Len(Tail(b)) = Len(b) - 1
  BY <1>1
<1>4. Tail(b) = << >> <=> Len(Tail(b)) = 0
  BY <1>3, EmptySeq
<1>5. QED
  BY <1>1, <1>2, <1>3, <1>4

(* An open transaction of w has an accepted record for one of the raw rows. *)
LEMMA IncomingFacts ==
    ASSUME TypeInv, NEW w \in Workers, pc[w] # "idle"
    PROVE  /\ batch[w] # << >>
           /\ batch[w][1] \in Item
           /\ batch[w][1].raw \in Raws
           /\ Incoming(w) \in Record \cup {Rejected}
           /\ pc[w] \in {"claimed", "merging"} =>
                 /\ Incoming(w) \in Record
                 /\ Incoming(w).raw = batch[w][1].raw
                 /\ Incoming(w).name = SourceOf[batch[w][1].raw]
                 /\ \E c \in Contents : Incoming(w) = Normalized[<<Incoming(w).raw, c>>]
<1>1. batch[w] \in Seq(Item) /\ batch[w] # << >>
  BY DEF TypeInv, TypeOK
<1>2. batch[w][1] \in Item
  BY <1>1, BatchFacts
<1>3. batch[w][1].raw \in Raws /\ batch[w][1].content \in Contents
  BY <1>2 DEF Item
<1>4. Incoming(w) \in Record \cup {Rejected}
  BY <1>3, NormalizedAssumption DEF Incoming
<1>5. ASSUME pc[w] \in {"claimed", "merging"}
      PROVE  /\ Incoming(w) \in Record
             /\ Incoming(w).raw = batch[w][1].raw
             /\ Incoming(w).name = SourceOf[batch[w][1].raw]
             /\ \E c \in Contents : Incoming(w) = Normalized[<<Incoming(w).raw, c>>]
  <2>1. Incoming(w) # Rejected
    BY <1>5 DEF TypeInv, InTransaction
  <2>2. Incoming(w).raw = batch[w][1].raw /\ Incoming(w).name = SourceOf[batch[w][1].raw]
    BY <2>1, <1>3, NormalizedAssumption DEF Incoming
  <2>3. QED
    BY <2>1, <2>2, <1>3, <1>4 DEF Incoming
<1>6. QED
  BY <1>1, <1>2, <1>3, <1>4, <1>5

-----------------------------------------------------------------------------
(* Going on to the next item, and rolling back, keep the types and leave    *)
(* the other workers alone.                                                 *)
LEMMA AdvanceFacts ==
    ASSUME TypeInv, NEW w \in Workers, pc[w] # "idle", Advance(w)
    PROVE  /\ batch' \in [Workers -> Seq(Item)]
           /\ pc' \in [Workers -> {"idle", "batch", "claimed", "merging", "failing"}]
           /\ copy' \in [Workers -> Row \cup {NoRow}]
           /\ \A v \in Workers : pc'[v] = "idle" <=> batch'[v] = << >>
           /\ pc'[w] \in {"idle", "batch"} /\ copy'[w] = NoRow
           /\ \A v \in Workers \ {w} :
                 pc'[v] = pc[v] /\ batch'[v] = batch[v] /\ copy'[v] = copy[v]
<1>1. batch[w] \in Seq(Item) /\ batch[w] # << >>
  BY DEF TypeInv, TypeOK
<1>2. Tail(batch[w]) \in Seq(Item) /\ (Len(batch[w]) = 1 <=> Tail(batch[w]) = << >>)
  BY <1>1, BatchFacts
<1>3. QED
  BY <1>2 DEF TypeInv, TypeOK, Advance

LEMMA RollBackFacts ==
    ASSUME TypeInv, NEW w \in Workers, pc[w] # "idle", RollBack(w), UNCHANGED batch
    PROVE  /\ batch' \in [Workers -> Seq(Item)]
           /\ pc' \in [Workers -> {"idle", "batch", "claimed", "merging", "failing"}]
           /\ copy' \in [Workers -> Row \cup {NoRow}]
           /\ \A v \in Workers : pc'[v] = "idle" <=> batch'[v] = << >>
           /\ pc'[w] = "failing" /\ copy'[w] = NoRow
           /\ \A v \in Workers \ {w} :
                 pc'[v] = pc[v] /\ batch'[v] = batch[v] /\ copy'[v] = copy[v]
BY DEF TypeInv, TypeOK, RollBack

(* A batch is a non-empty sequence of items. *)
LEMMA SnapshotFacts ==
    ASSUME TypeInv, NEW q \in Batches
    PROVE  LET b == [i \in 1 .. Len(q) |-> [raw |-> q[i], content |-> raw[q[i]].content]]
           IN  b \in Seq(Item) /\ b # << >>
<1>1. PICK n \in 1 .. BatchLimit : q \in [1 .. n -> Pending]
  BY DEF Batches
<1>2. n \in Nat /\ n >= 1
  BY BoundAssumption
<1>3. Len(q) = n /\ \A i \in 1 .. n : q[i] \in Raws
  BY <1>1, <1>2 DEF Pending
<1> DEFINE b == [i \in 1 .. Len(q) |-> [raw |-> q[i], content |-> raw[q[i]].content]]
<1>4. \A i \in 1 .. n : [raw |-> q[i], content |-> raw[q[i]].content] \in Item
  BY <1>3 DEF TypeInv, TypeOK, Item
<1>5. b \in [1 .. n -> Item]
  BY <1>3, <1>4
<1>6. b \in Seq(Item) /\ Len(b) = n
  BY <1>2, <1>5, IsASeq, LenProperties
<1> HIDE DEF b
<1>7. b # << >>
  <2>1. CASE b = << >>
    <3>1. Len(b) = 0
      BY <2>1, EmptySeq
    <3>2. QED
      BY <3>1, <1>2, <1>6
  <2>2. QED
    BY <2>1
<1>8. QED
  BY <1>6, <1>7 DEF b

(* A collection leaves a raw row alone or sends it back to the queue. *)
LEMMA CollectFacts ==
    ASSUME TypeInv, NEW w \in Workers, Collect(w)
    PROVE  /\ raw' \in [Raws -> [status : Status, content : Contents, created : Nat]]
           /\ \A r \in Raws : raw'[r] = raw[r] \/ raw'[r].status = "collected"
<1>1. PICK items \in SUBSET Raws :
        \E said \in [items -> Contents] :
          raw' = [r \in Raws |->
                    IF r \notin items THEN raw[r]
                    ELSE [status |-> "collected", content |-> said[r],
                          created |-> IF raw[r].status = "absent"
                                      THEN collections' ELSE raw[r].created]]
  BY DEF Collect
<1>2. PICK said \in [items -> Contents] :
          raw' = [r \in Raws |->
                    IF r \notin items THEN raw[r]
                    ELSE [status |-> "collected", content |-> said[r],
                          created |-> IF raw[r].status = "absent"
                                      THEN collections' ELSE raw[r].created]]
  BY <1>1
<1>3. collections' \in Nat
  BY DEF Collect, TypeInv, TypeOK
<1>4. QED
  BY <1>2, <1>3 DEF TypeInv, TypeOK, Status

(* What a merge writes is a row. *)
LEMMA MergedIsRow ==
    ASSUME NEW current \in Row, NEW read \in Row, NEW n \in Record
    PROVE  Merged(current, read, n) \in Row
BY DEF Merged, Row, Record, Severity

LEMMA NewRowIsRow == ASSUME NEW n \in Record PROVE NewRow(n) \in Row
BY DEF NewRow, Row, Record

(* A worker whose batch did not change is at the same record. *)
LEMMA OtherIncoming ==
    ASSUME NEW w \in Workers, batch'[w] = batch[w] PROVE Incoming(w)' = Incoming(w)
BY DEF Incoming

-----------------------------------------------------------------------------
(* What the normalizer accepts is a record of the raw row. *)
LEMMA ReportFacts ==
    ASSUME NEW r \in Raws, NEW c \in Contents, Normalized[<<r, c>>] # Rejected
    PROVE  /\ Normalized[<<r, c>>] \in Record
           /\ Normalized[<<r, c>>].key \in Keys /\ Normalized[<<r, c>>].url \in Urls
           /\ Normalized[<<r, c>>].severity \in 0 .. 4
<1>1. Normalized[<<r, c>>] \in Record
  BY NormalizedAssumption
<1> DEFINE n == Normalized[<<r, c>>]
<1>2. n \in Record
  BY <1>1
<1> HIDE DEF n
<1>3. n.key \in Keys /\ n.url \in Urls /\ n.severity \in 0 .. 4
  BY <1>2 DEF Record, Severity
<1>4. QED
  BY <1>1, <1>3 DEF n

(* A step of w that ends its transaction leaves the open ones as they were, *)
(* provided that no core row disappears.                                    *)
LEMMA OthersInTransaction ==
    ASSUME TypeInv, NEW w \in Workers,
           pc'[w] \notin {"claimed", "merging"}, copy'[w] = NoRow,
           \A v \in Workers \ {w} :
              pc'[v] = pc[v] /\ batch'[v] = batch[v] /\ copy'[v] = copy[v],
           \A k \in Keys : rows[k] # NoRow => rows'[k] # NoRow
    PROVE  InTransaction'
<1> SUFFICES ASSUME NEW v \in Workers
             PROVE  /\ pc'[v] \in {"claimed", "merging"} => Incoming(v)' # Rejected
                    /\ copy'[v] # NoRow => pc'[v] = "merging" /\ rows'[Incoming(v)'.key] # NoRow
  BY DEF InTransaction
<1>1. CASE v = w
  BY <1>1
<1>2. CASE v # w
  <2>1. pc'[v] = pc[v] /\ copy'[v] = copy[v] /\ batch'[v] = batch[v]
    BY <1>2
  <2>2. Incoming(v)' = Incoming(v)
    BY <2>1, OtherIncoming
  <2>3. copy[v] # NoRow => Incoming(v).key \in Keys
    BY IncomingFacts DEF TypeInv, InTransaction, Record
  <2>4. QED
    BY <2>1, <2>2, <2>3 DEF TypeInv, InTransaction
<1>3. QED
  BY <1>1, <1>2

(* Setting the status of a raw row keeps the type of the table. *)
LEMMA StatusFacts ==
    ASSUME TypeInv, NEW r \in Raws, NEW s \in Status,
           raw' = [raw EXCEPT ![r].status = s]
    PROVE  raw' \in [Raws -> [status : Status, content : Contents, created : Nat]]
<1>1. raw \in [Raws -> [status : Status, content : Contents, created : Nat]]
  BY DEF TypeInv, TypeOK
<1>2. [raw[r] EXCEPT !.status = s] \in [status : Status, content : Contents, created : Nat]
  BY <1>1
<1>3. QED
  BY <1>1, <1>2

(* Types and the open transactions' records are preserved by every step.    *)
LEMMA TypeInit == Init => TypeInv
<1> SUFFICES ASSUME Init PROVE TypeInv
  OBVIOUS
<1>1. NotCollected \in [status : Status, content : Contents, created : Nat]
  BY NormalizedAssumption DEF NotCollected, Status
<1>2. << >> \in Seq(Item)
  BY EmptySeq
<1>3. TypeOK
  BY <1>1, <1>2 DEF Init, TypeOK
<1>4. InTransaction
  BY DEF Init, InTransaction
<1>5. QED
  BY <1>3, <1>4 DEF TypeInv

LEMMA TypeStep == TypeInv /\ [Next]_vars => TypeInv'
<1> SUFFICES ASSUME TypeInv, [Next]_vars PROVE TypeInv'
  OBVIOUS
<1> USE DEF TypeInv
<1>1. CASE UNCHANGED vars
  BY <1>1 DEF vars, TypeOK, InTransaction, Incoming
<1>2. ASSUME NEW w \in Workers, Collect(w) PROVE TypeInv'
  <2>2. collections' \in Nat
    BY <1>2 DEF Collect, TypeOK
  <2>3. raw' \in [Raws -> [status : Status, content : Contents, created : Nat]]
    BY <1>2, CollectFacts, Zenon
  <2>4. QED
    BY <1>2, <2>2, <2>3 DEF Collect, TypeOK, InTransaction, Incoming
<1>3. ASSUME NEW w \in Workers, Snapshot(w) PROVE TypeInv'
  <2>1. PICK q \in Batches :
          batch' = [batch EXCEPT ![w] =
                     [i \in 1 .. Len(q) |-> [raw |-> q[i], content |-> raw[q[i]].content]]]
    BY <1>3 DEF Snapshot
  <2>2. batch'[w] \in Seq(Item) /\ batch'[w] # << >>
    BY <2>1, SnapshotFacts DEF TypeOK
  <2>3. QED
    BY <1>3, <2>1, <2>2, Zenon DEF Snapshot, TypeOK, InTransaction, Incoming
<1>4. ASSUME NEW w \in Workers, EmptyBatch(w) PROVE TypeInv'
  BY <1>1, <1>4 DEF EmptyBatch
<1>5. ASSUME NEW w \in Workers, Claim(w) PROVE TypeInv'
  BY <1>5 DEF Claim, TypeOK, InTransaction, Incoming
<1>6. ASSUME NEW w \in Workers, ReadRow(w) PROVE TypeInv'
  <2>1. Incoming(w).key \in Keys
    BY <1>6, IncomingFacts DEF ReadRow, Record
  <2>2. rows[Incoming(w).key] \in Row \cup {NoRow}
    BY <2>1 DEF TypeOK
  <2>3. QED
    BY <1>6, <2>2 DEF ReadRow, TypeOK, InTransaction, Incoming
<1>7. ASSUME NEW w \in Workers, Insert(w) PROVE TypeInv'
  <2>1. Incoming(w) \in Record
    BY <1>7, IncomingFacts DEF Insert
  <2>2. rows' \in [Keys -> Row \cup {NoRow}] /\ \A k \in Keys : rows[k] # NoRow => rows'[k] # NoRow
    BY <1>7, <2>1, NewRowIsRow, SentinelAssumption DEF Insert, TypeOK, Record
  <2>3. links' \in [Keys -> [Urls -> Raws \cup {NoRaw}]]
    BY <1>7, <2>1 DEF Insert, Attribute, TypeOK, Record
  <2>4. raw' \in [Raws -> [status : Status, content : Contents, created : Nat]]
    BY <1>7, <2>1, StatusFacts DEF Insert, Attribute, Status, Record
  <2>5. pc[w] # "idle" /\ Advance(w) /\ UNCHANGED budget
    BY <1>7 DEF Insert, Attribute
  <2>6. TypeOK'
    BY <2>2, <2>3, <2>4, <2>5, AdvanceFacts DEF budget, TypeOK
  <2>7. InTransaction'
    BY <2>2, <2>5, AdvanceFacts, OthersInTransaction
  <2>8. QED
    BY <2>6, <2>7
<1>8. ASSUME NEW w \in Workers, InsertConflict(w) PROVE TypeInv'
  <2>1. pc[w] # "idle" /\ RollBack(w) /\ UNCHANGED <<raw, rows, links, batch, collections, crashes, dbErrors>>
    BY <1>8 DEF InsertConflict
  <2>2. TypeOK'
    BY <2>1, RollBackFacts DEF TypeOK
  <2>3. InTransaction'
    BY <2>1, RollBackFacts, OthersInTransaction
  <2>4. QED
    BY <2>2, <2>3
<1>9. ASSUME NEW w \in Workers, Update(w) PROVE TypeInv'
  <2>1. Incoming(w) \in Record
    BY <1>9, IncomingFacts DEF Update
  <2>2. rows[Incoming(w).key] \in Row /\ copy[w] \in Row
    BY <1>9, <2>1 DEF Update, TypeOK, InTransaction, Record
  <2>3. Merged(rows[Incoming(w).key], copy[w], Incoming(w)) \in Row
    BY <2>1, <2>2, MergedIsRow
  <2>4. rows' \in [Keys -> Row \cup {NoRow}] /\ \A k \in Keys : rows[k] # NoRow => rows'[k] # NoRow
    BY <1>9, <2>1, <2>3, SentinelAssumption DEF Update, TypeOK, Record
  <2>5. links' \in [Keys -> [Urls -> Raws \cup {NoRaw}]]
    BY <1>9, <2>1 DEF Update, Attribute, TypeOK, Record
  <2>6. raw' \in [Raws -> [status : Status, content : Contents, created : Nat]]
    BY <1>9, <2>1, StatusFacts DEF Update, Attribute, Status, Record
  <2>7. pc[w] # "idle" /\ Advance(w) /\ UNCHANGED budget
    BY <1>9 DEF Update, Attribute
  <2>8. TypeOK'
    BY <2>4, <2>5, <2>6, <2>7, AdvanceFacts DEF budget, TypeOK
  <2>9. InTransaction'
    BY <2>4, <2>7, AdvanceFacts, OthersInTransaction
  <2>10. QED
    BY <2>8, <2>9
<1>10. ASSUME NEW w \in Workers, MarkFailed(w) PROVE TypeInv'
  <2>1. batch[w][1].raw \in Raws
    BY <1>10, IncomingFacts DEF MarkFailed
  <2>2. raw' \in [Raws -> [status : Status, content : Contents, created : Nat]]
    BY <1>10, <2>1, StatusFacts DEF MarkFailed, Status
  <2>3. pc[w] # "idle" /\ Advance(w) /\ UNCHANGED <<rows, links, collections, crashes, dbErrors>>
    BY <1>10 DEF MarkFailed
  <2>4. TypeOK'
    BY <2>2, <2>3, AdvanceFacts DEF TypeOK
  <2>5. InTransaction'
    BY <2>3, AdvanceFacts, OthersInTransaction
  <2>6. QED
    BY <2>4, <2>5
<1>11. ASSUME NEW w \in Workers, DbError(w) PROVE TypeInv'
  <2>1. pc[w] # "idle" /\ dbErrors' \in Nat
    BY <1>11 DEF DbError, TypeOK
  <2>2. UNCHANGED <<raw, rows, links, collections, crashes>>
    BY <1>11 DEF DbError
  <2>3. CASE RollBack(w) /\ UNCHANGED batch
    <3>1. TypeOK'
      BY <2>1, <2>2, <2>3, RollBackFacts DEF TypeOK
    <3>2. InTransaction'
      BY <2>1, <2>2, <2>3, RollBackFacts, OthersInTransaction
    <3>3. QED
      BY <3>1, <3>2
  <2>4. CASE Advance(w)
    <3>1. TypeOK'
      BY <2>1, <2>2, <2>4, AdvanceFacts DEF TypeOK
    <3>2. InTransaction'
      BY <2>1, <2>2, <2>4, AdvanceFacts, OthersInTransaction
    <3>3. QED
      BY <3>1, <3>2
  <2>5. QED
    BY <1>11, <2>3, <2>4 DEF DbError
<1>12. ASSUME NEW w \in Workers, Crash(w) PROVE TypeInv'
  <2>1. << >> \in Seq(Item)
    BY EmptySeq
  <2>2. TypeOK'
    BY <1>12, <2>1 DEF Crash, TypeOK
  <2>3. InTransaction'
    BY <1>12, OthersInTransaction DEF Crash, TypeOK
  <2>4. QED
    BY <2>2, <2>3
<1>13. QED
  BY <1>1, <1>2, <1>3, <1>4, <1>5, <1>6, <1>7, <1>8, <1>9, <1>10, <1>11, <1>12
     DEF Next, Transaction

-----------------------------------------------------------------------------
(* No step takes a core row, its origin, a filled field or a link away.     *)
TablesGrowStep ==
    \A k \in Keys :
        /\ rows[k] # NoRow =>
              /\ rows'[k] # NoRow
              /\ rows'[k].origin = rows[k].origin
              /\ rows[k].detail # Unset => rows'[k].detail # Unset
        /\ \A u \in Urls : links[k][u] # NoRaw => links'[k][u] # NoRaw

LEMMA TablesGrow == TypeInv /\ [Next]_vars => TablesGrowStep
<1> SUFFICES ASSUME TypeInv, [Next]_vars PROVE TablesGrowStep
  OBVIOUS
<1>1. CASE UNCHANGED <<rows, links>>
  BY <1>1 DEF TablesGrowStep
<1>2. ASSUME NEW w \in Workers, Insert(w) PROVE TablesGrowStep
  <2>1. Incoming(w) \in Record
    BY <1>2, IncomingFacts DEF Insert
  <2>2. \A k \in Keys : rows[k] # NoRow => rows'[k] = rows[k]
    BY <1>2, <2>1 DEF Insert, TypeInv, TypeOK
  <2>3. \A k \in Keys, u \in Urls : links[k][u] # NoRaw => links'[k][u] # NoRaw
    BY <1>2, <2>1, SentinelAssumption DEF Insert, Attribute, TypeInv, TypeOK, Record
  <2>4. QED
    BY <2>2, <2>3 DEF TablesGrowStep
<1>3. ASSUME NEW w \in Workers, Update(w) PROVE TablesGrowStep
  <2>1. Incoming(w) \in Record
    BY <1>3, IncomingFacts DEF Update
  <2> DEFINE key == Incoming(w).key
             merged == Merged(rows[key], copy[w], Incoming(w))
  <2>2. key \in Keys /\ rows[key] \in Row /\ copy[w] \in Row
    BY <1>3, <2>1 DEF Update, TypeInv, TypeOK, InTransaction, Record
  <2>3. merged \in Row
    BY <2>1, <2>2, MergedIsRow
  <2>4. merged # NoRow
    BY <2>3, SentinelAssumption
  <2>5. merged.origin = rows[key].origin
    BY <2>2 DEF Merged, Row
  <2>6. rows[key].detail # Unset => merged.detail # Unset
    BY <2>2 DEF Merged, Row
  <2>7. rows' = [rows EXCEPT ![key] = merged]
    BY <1>3 DEF Update
  <2>8. \A k \in Keys : rows[k] # NoRow =>
              /\ rows'[k] # NoRow
              /\ rows'[k].origin = rows[k].origin
              /\ rows[k].detail # Unset => rows'[k].detail # Unset
    <3> HIDE DEF merged, key
    <3> QED
      BY <2>2, <2>4, <2>5, <2>6, <2>7 DEF TypeInv, TypeOK
  <2>9. \A k \in Keys, u \in Urls : links[k][u] # NoRaw => links'[k][u] # NoRaw
    BY <1>3, <2>1, SentinelAssumption DEF Update, Attribute, TypeInv, TypeOK, Record
  <2>10. QED
    BY <2>8, <2>9 DEF TablesGrowStep
<1>4. QED
  BY <1>1, <1>2, <1>3
     DEF Next, Transaction, vars, Collect, Snapshot, EmptyBatch, Claim, ReadRow,
         InsertConflict, MarkFailed, DbError, Crash

(* Locks are exclusive: a worker opens a transaction only on a raw row that *)
(* no open transaction holds.                                               *)
LEMMA ExclusionStep ==
    TypeInv /\ OneTransactionPerRaw /\ [Next]_vars => OneTransactionPerRaw'
<1> SUFFICES ASSUME TypeInv, OneTransactionPerRaw, [Next]_vars,
                    NEW v \in Workers, NEW x \in Workers,
                    {pc'[v], pc'[x]} \subseteq {"claimed", "merging"},
                    batch'[v][1].raw = batch'[x][1].raw, v # x
             PROVE  FALSE
  BY DEF OneTransactionPerRaw
<1>1. CASE UNCHANGED vars
  BY <1>1 DEF vars, OneTransactionPerRaw
<1>2. ASSUME NEW w \in Workers, Claim(w) PROVE FALSE
  <2>1. /\ batch' = batch
        /\ \A y \in Workers \ {w} : pc'[y] = pc[y]
        /\ \A y \in Workers : pc[y] \in {"claimed", "merging"} =>
              batch[y][1].raw # batch[w][1].raw
    BY <1>2 DEF Claim, Locked, TypeInv, TypeOK
  <2>2. QED
    BY <2>1 DEF OneTransactionPerRaw
<1>3. ASSUME NEW w \in Workers, \/ Insert(w) \/ Update(w) \/ MarkFailed(w)
      PROVE  FALSE
  <2>1. pc[w] # "idle" /\ Advance(w)
    BY <1>3 DEF Insert, Update, MarkFailed, Attribute
  <2>2. pc'[w] \in {"idle", "batch"}
        /\ \A y \in Workers \ {w} : pc'[y] = pc[y] /\ batch'[y] = batch[y]
    BY <2>1, AdvanceFacts
  <2>3. QED
    BY <2>2 DEF OneTransactionPerRaw
<1>4. ASSUME NEW w \in Workers, DbError(w) PROVE FALSE
  <2>1. pc[w] # "idle" /\ (Advance(w) \/ (RollBack(w) /\ UNCHANGED batch))
    BY <1>4 DEF DbError
  <2>2. pc'[w] \notin {"claimed", "merging"}
        /\ \A y \in Workers \ {w} : pc'[y] = pc[y] /\ batch'[y] = batch[y]
    BY <2>1, AdvanceFacts, RollBackFacts
  <2>3. QED
    BY <2>2 DEF OneTransactionPerRaw
<1>5. ASSUME NEW w \in Workers,
             Collect(w) \/ Snapshot(w) \/ EmptyBatch(w) \/ ReadRow(w)
             \/ InsertConflict(w) \/ Crash(w)
      PROVE  FALSE
  <2>1. /\ pc'[w] \in {"claimed", "merging"} =>
              pc[w] \in {"claimed", "merging"} /\ batch'[w] = batch[w]
        /\ \A y \in Workers \ {w} : pc'[y] = pc[y] /\ batch'[y] = batch[y]
    <3>1. CASE Collect(w) \/ EmptyBatch(w) \/ ReadRow(w)
      BY <3>1 DEF Collect, EmptyBatch, ReadRow, TypeInv, TypeOK, vars
    <3>2. CASE Snapshot(w)
      BY <3>2 DEF Snapshot, TypeInv, TypeOK
    <3>3. CASE InsertConflict(w) \/ Crash(w)
      BY <3>3 DEF InsertConflict, RollBack, Crash, TypeInv, TypeOK
    <3>4. QED
      BY <1>5, <3>1, <3>2, <3>3
  <2>2. QED
    BY <2>1 DEF OneTransactionPerRaw
<1>6. QED
  BY <1>1, <1>2, <1>3, <1>4, <1>5 DEF Next, Transaction

-----------------------------------------------------------------------------
(* A write leaves a row and a link behind. *)
LEMMA CitedByStep ==
    ASSUME TypeInv, NEW w \in Workers, Insert(w) \/ Update(w)
    PROVE  /\ rows'[Incoming(w).key] # NoRow
           /\ links'[Incoming(w).key][Incoming(w).url] # NoRaw
<1>1. Incoming(w) \in Record
  BY IncomingFacts DEF Insert, Update
<1>2. links'[Incoming(w).key][Incoming(w).url] = Incoming(w).raw
  BY <1>1 DEF Insert, Update, Attribute, TypeInv, TypeOK, Record
<1>3. links'[Incoming(w).key][Incoming(w).url] # NoRaw
  BY <1>1, <1>2, SentinelAssumption DEF Record
<1>4. CASE Insert(w)
  <2>1. rows'[Incoming(w).key] = NewRow(Incoming(w))
    BY <1>1, <1>4 DEF Insert, TypeInv, TypeOK, Record
  <2>2. NewRow(Incoming(w)) # NoRow
    BY <1>1, NewRowIsRow, SentinelAssumption
  <2>3. QED
    BY <2>1, <2>2, <1>3
<1>5. CASE Update(w)
  <2>1. rows[Incoming(w).key] # NoRow
    BY <1>5 DEF Update, TypeInv, InTransaction
  <2>2. w \in Workers /\ [Next]_vars
    BY <1>5 DEF Next, Transaction
  <2>3. QED
    <3>1. Incoming(w).key \in Keys
      BY <1>1 DEF Record
    <3>2. QED
      BY <3>1, <2>1, <2>2, <1>3, TablesGrow DEF TablesGrowStep
<1>6. QED
  BY <1>4, <1>5

(* A raw row that turns normalized in this step is attributed by it; one    *)
(* that was, keeps its witness, because the tables only grow.               *)
LEMMA AttributionStep ==
    TypeInv /\ NormalizedIsAttributed /\ [Next]_vars => NormalizedIsAttributed'
<1> SUFFICES ASSUME TypeInv, NormalizedIsAttributed, [Next]_vars,
                    NEW r \in Raws, raw'[r].status = "normalized"
             PROVE  \E c \in Contents :
                       /\ Normalized[<<r, c>>] # Rejected
                       /\ rows'[Normalized[<<r, c>>].key] # NoRow
                       /\ links'[Normalized[<<r, c>>].key][Normalized[<<r, c>>].url] # NoRaw
  BY DEF NormalizedIsAttributed
<1>1. CASE raw[r].status = "normalized"
  <2>1. PICK c \in Contents :
           /\ Normalized[<<r, c>>] # Rejected
           /\ rows[Normalized[<<r, c>>].key] # NoRow
           /\ links[Normalized[<<r, c>>].key][Normalized[<<r, c>>].url] # NoRaw
    BY <1>1 DEF NormalizedIsAttributed
  <2>2. Normalized[<<r, c>>].key \in Keys /\ Normalized[<<r, c>>].url \in Urls
    BY <2>1, ReportFacts
  <2>3. QED
    BY <2>1, <2>2, TablesGrow DEF TablesGrowStep
<1>2. CASE raw[r].status # "normalized"
  <2>1. PICK w \in Workers : (Insert(w) \/ Update(w)) /\ Incoming(w).raw = r
    <3>1. ASSUME NEW w \in Workers, Insert(w) \/ Update(w) PROVE Incoming(w).raw = r
      <4>1. raw' = [raw EXCEPT ![Incoming(w).raw].status = "normalized"]
        BY <3>1 DEF Insert, Update, Attribute
      <4>2. QED
        BY <4>1, <1>2 DEF TypeInv, TypeOK
    <3>2. ASSUME NEW w \in Workers, Collect(w) PROVE FALSE
      BY <3>2, <1>2, CollectFacts
    <3>3. ASSUME NEW w \in Workers, MarkFailed(w) PROVE FALSE
      <4>1. raw' = [raw EXCEPT ![batch[w][1].raw].status = "failed"]
        BY <3>3 DEF MarkFailed
      <4>2. QED
        BY <4>1, <1>2 DEF TypeInv, TypeOK
    <3>4. CASE UNCHANGED raw
      BY <3>4, <1>2
    <3>5. QED
      BY <3>1, <3>2, <3>3, <3>4
         DEF Next, Transaction, vars, Snapshot, EmptyBatch, Claim, ReadRow,
             InsertConflict, DbError, Crash
  <2>2. Incoming(w) \in Record /\ \E c \in Contents : Incoming(w) = Normalized[<<r, c>>]
    BY <2>1, IncomingFacts DEF Insert, Update
  <2>3. rows'[Incoming(w).key] # NoRow
    BY <2>1, <2>2, CitedByStep
  <2>4. links'[Incoming(w).key][Incoming(w).url] # NoRaw
    BY <2>1, <2>2, CitedByStep
  <2>5. Incoming(w) # Rejected
    BY <2>2, NormalizedAssumption
  <2>6. QED
    BY <2>2, <2>3, <2>4, <2>5
<1>3. QED
  BY <1>1, <1>2

(* Only the key of a write changes, and it has a link afterwards. *)
LEMMA CitationStep ==
    TypeInv /\ RowsAreCited /\ [Next]_vars => RowsAreCited'
<1> SUFFICES ASSUME TypeInv, RowsAreCited, [Next]_vars, NEW k \in Keys
             PROVE  rows'[k] # NoRow <=> \E u \in Urls : links'[k][u] # NoRaw
  BY DEF RowsAreCited
<1>1. CASE UNCHANGED <<rows, links>>
  BY <1>1 DEF RowsAreCited
<1>2. ASSUME NEW w \in Workers, Insert(w) \/ Update(w)
      PROVE  rows'[k] # NoRow <=> \E u \in Urls : links'[k][u] # NoRaw
  <2>1. Incoming(w) \in Record
    BY <1>2, IncomingFacts DEF Insert, Update
  <2>2. CASE k = Incoming(w).key
    BY <1>2, <2>1, <2>2, CitedByStep DEF Record
  <2>3. CASE k # Incoming(w).key
    <3>1. rows'[k] = rows[k] /\ links'[k] = links[k]
      BY <1>2, <2>3 DEF Insert, Update, Attribute, TypeInv, TypeOK
    <3>2. QED
      BY <3>1 DEF RowsAreCited
  <2>4. QED
    BY <2>2, <2>3
<1>3. QED
  BY <1>1, <1>2
     DEF Next, Transaction, vars, Collect, Snapshot, EmptyBatch, Claim, ReadRow,
         InsertConflict, MarkFailed, DbError, Crash

-----------------------------------------------------------------------------
(* A merge of a row and of a copy of one of its ancestors keeps the origin. *)
LEMMA MergeKeepsOrigin ==
    ASSUME NEW k \in Keys, NEW current \in Row, NEW read \in Row, NEW n \in Record,
           current.origin = read.origin,
           KeepsOrigin(k, current), KeepsOrigin(k, read)
    PROVE  KeepsOrigin(k, Merged(current, read, n))
<1> DEFINE merged == Merged(current, read, n)
<1>1. /\ merged.origin = current.origin
      /\ merged.names = read.names \cup {n.name}
      /\ merged.severity = IF n.severity > read.severity THEN n.severity ELSE current.severity
  BY DEF Merged, Row
<1>2. SourceOf[merged.origin] \in merged.names
  BY <1>1 DEF KeepsOrigin
<1>3. CASE n.severity > read.severity
  <2>1. PICK c \in Contents :
          /\ Normalized[<<read.origin, c>>] # Rejected
          /\ Normalized[<<read.origin, c>>].key = k
          /\ read.severity >= Normalized[<<read.origin, c>>].severity
    BY DEF KeepsOrigin
  <2>2. Normalized[<<read.origin, c>>].severity \in 0 .. 4
    <3>1. read.origin \in Raws
      BY DEF Row
    <3>2. QED
      BY <2>1, <3>1, ReportFacts
  <2>3. n.severity \in 0 .. 4 /\ read.severity \in 0 .. 4
    BY DEF Row, Record, Severity
  <2>4. n.severity >= Normalized[<<read.origin, c>>].severity
    <3> DEFINE floor == Normalized[<<read.origin, c>>].severity
    <3>1. floor \in 0 .. 4 /\ read.severity >= floor
      BY <2>1, <2>2
    <3> HIDE DEF floor
    <3>2. n.severity >= floor
      BY <3>1, <2>3, <1>3
    <3>3. QED
      BY <3>2 DEF floor
  <2>5. QED
    BY <1>1, <1>2, <1>3, <2>1, <2>4 DEF KeepsOrigin
<1>4. CASE ~ (n.severity > read.severity)
  BY <1>1, <1>2, <1>4 DEF KeepsOrigin
<1>5. QED
  BY <1>3, <1>4

LEMMA OriginStep ==
    TypeInv /\ OriginIsKept /\ CopyIsAncestor /\ [Next]_vars => OriginIsKept'
<1> SUFFICES ASSUME TypeInv, OriginIsKept, CopyIsAncestor, [Next]_vars,
                    NEW k \in Keys, rows'[k] # NoRow
             PROVE  KeepsOrigin(k, rows'[k])
  BY DEF OriginIsKept, KeepsOrigin
<1>1. CASE rows'[k] = rows[k]
  BY <1>1 DEF OriginIsKept
<1>2. ASSUME NEW w \in Workers, Insert(w), rows'[k] # rows[k]
      PROVE  KeepsOrigin(k, rows'[k])
  <2>1. Incoming(w) \in Record /\ Incoming(w).name = SourceOf[Incoming(w).raw]
    BY <1>2, IncomingFacts DEF Insert
  <2>2. \E c \in Contents : Incoming(w) = Normalized[<<Incoming(w).raw, c>>]
    BY <1>2, IncomingFacts DEF Insert
  <2>3. k = Incoming(w).key /\ rows'[k] = NewRow(Incoming(w))
    BY <1>2, <2>1 DEF Insert, TypeInv, TypeOK
  <2>4. Incoming(w) # Rejected
    BY <2>1, NormalizedAssumption
  <2>5. Incoming(w).severity >= Incoming(w).severity
    BY <2>1 DEF Record, Severity
  <2>6. /\ rows'[k].origin = Incoming(w).raw
        /\ rows'[k].names = {Incoming(w).name}
        /\ rows'[k].severity = Incoming(w).severity
    BY <2>3 DEF NewRow
  <2>7. SourceOf[rows'[k].origin] \in rows'[k].names
    BY <2>1, <2>6
  <2>8. PICK c \in Contents : Incoming(w) = Normalized[<<Incoming(w).raw, c>>]
    BY <2>2
  <2>9. /\ Normalized[<<rows'[k].origin, c>>] # Rejected
        /\ Normalized[<<rows'[k].origin, c>>].key = k
        /\ rows'[k].severity >= Normalized[<<rows'[k].origin, c>>].severity
    BY <2>3, <2>4, <2>5, <2>6, <2>8
  <2>10. QED
    BY <2>7, <2>9 DEF KeepsOrigin
<1>3. ASSUME NEW w \in Workers, Update(w), rows'[k] # rows[k]
      PROVE  KeepsOrigin(k, rows'[k])
  <2>1. Incoming(w) \in Record
    BY <1>3, IncomingFacts DEF Update
  <2>2. k = Incoming(w).key /\ rows'[k] = Merged(rows[k], copy[w], Incoming(w))
    BY <1>3, <2>1 DEF Update, TypeInv, TypeOK
  <2>3. rows[k] \in Row /\ copy[w] \in Row /\ rows[k].origin = copy[w].origin
    BY <1>3, <2>2 DEF Update, TypeInv, TypeOK, CopyIsAncestor
  <2>4. KeepsOrigin(k, rows[k]) /\ KeepsOrigin(k, copy[w])
    BY <1>3, <2>2 DEF Update, CopyIsAncestor, OriginIsKept
  <2>5. QED
    BY <2>1, <2>2, <2>3, <2>4, MergeKeepsOrigin
<1>4. QED
  BY <1>1, <1>2, <1>3
     DEF Next, Transaction, vars, Collect, Snapshot, EmptyBatch, Claim, ReadRow,
         InsertConflict, MarkFailed, DbError, Crash

(* A copy stays the same until it is dropped, and a fresh one is the row.   *)
LEMMA AncestorStep ==
    TypeInv /\ OriginIsKept /\ CopyIsAncestor /\ [Next]_vars => CopyIsAncestor'
<1> SUFFICES ASSUME TypeInv, OriginIsKept, CopyIsAncestor, [Next]_vars,
                    NEW v \in Workers, copy'[v] # NoRow
             PROVE  LET k == Incoming(v)'.key IN
                      /\ rows'[k] # NoRow
                      /\ rows'[k].origin = copy'[v].origin
                      /\ KeepsOrigin(k, copy'[v])
  BY DEF CopyIsAncestor, KeepsOrigin
<1>1. CASE copy'[v] = copy[v] /\ batch'[v] = batch[v]
  <2>1. Incoming(v)' = Incoming(v)
    BY <1>1, OtherIncoming
  <2>2. Incoming(v).key \in Keys
    BY <1>1, IncomingFacts DEF TypeInv, InTransaction, Record
  <2>3. QED
    BY <1>1, <2>1, <2>2, TablesGrow DEF CopyIsAncestor, TablesGrowStep
<1>2. CASE ReadRow(v)
  <2>1. batch' = batch /\ rows' = rows /\ copy'[v] = rows[Incoming(v).key]
    BY <1>2 DEF ReadRow, TypeInv, TypeOK
  <2>2. Incoming(v)' = Incoming(v)
    BY <2>1, OtherIncoming
  <2>3. Incoming(v).key \in Keys
    BY <1>2, IncomingFacts DEF ReadRow, Record
  <2>4. QED
    BY <2>1, <2>2, <2>3 DEF OriginIsKept
<1>3. (copy'[v] = copy[v] /\ batch'[v] = batch[v]) \/ ReadRow(v)
  <2>1. ASSUME NEW w \in Workers, Insert(w) \/ Update(w) \/ MarkFailed(w) \/ DbError(w)
        PROVE  copy'[v] = copy[v] /\ batch'[v] = batch[v]
    <3>1. pc[w] # "idle" /\ (Advance(w) \/ (RollBack(w) /\ UNCHANGED batch))
      BY <2>1 DEF Insert, Update, MarkFailed, DbError, Attribute
    <3>2. QED
      BY <3>1, AdvanceFacts, RollBackFacts
  <2>2. ASSUME NEW w \in Workers, Snapshot(w)
        PROVE  copy'[v] = copy[v] /\ batch'[v] = batch[v]
    <3>1. copy' = copy /\ copy[w] = NoRow /\ \A y \in Workers \ {w} : batch'[y] = batch[y]
      BY <2>2 DEF Snapshot, TypeInv, TypeOK, InTransaction
    <3>2. QED
      BY <3>1
  <2>3. ASSUME NEW w \in Workers, ReadRow(w), w # v
        PROVE  copy'[v] = copy[v] /\ batch'[v] = batch[v]
    BY <2>3 DEF ReadRow, TypeInv, TypeOK
  <2>4. ASSUME NEW w \in Workers, InsertConflict(w) \/ Crash(w)
        PROVE  copy'[v] = copy[v] /\ batch'[v] = batch[v]
    BY <2>4 DEF InsertConflict, RollBack, Crash, TypeInv, TypeOK
  <2>5. QED
    BY <2>1, <2>2, <2>3, <2>4 DEF Next, Transaction, vars, Collect, EmptyBatch, Claim
<1>4. QED
  BY <1>1, <1>2, <1>3

-----------------------------------------------------------------------------
LEMMA IInvInit == Init => IInv
<1> SUFFICES ASSUME Init PROVE IInv
  OBVIOUS
<1>1. TypeInv
  BY TypeInit
<1>2. OneTransactionPerRaw
  BY DEF Init, OneTransactionPerRaw
<1>3. NormalizedIsAttributed
  BY DEF Init, NormalizedIsAttributed, NotCollected
<1>4. RowsAreCited /\ OriginIsKept
  BY DEF Init, RowsAreCited, OriginIsKept
<1>5. CopyIsAncestor
  BY DEF Init, CopyIsAncestor
<1>6. QED
  BY <1>1, <1>2, <1>3, <1>4, <1>5 DEF IInv

LEMMA IInvStep == IInv /\ [Next]_vars => IInv'
BY TypeStep, ExclusionStep, AttributionStep, CitationStep, OriginStep, AncestorStep
   DEF IInv

THEOREM Invariance == Spec => []IInv
BY IInvInit, IInvStep, PTL DEF Spec

(* Every reachable state is well-typed, the remembered batches and the open *)
(* transactions' copies included.                                           *)
THEOREM TypeCorrectness == Spec => []TypeOK
<1>1. IInv => TypeOK
  BY DEF IInv, TypeInv
<1>2. QED
  BY <1>1, Invariance, PTL

(* No interleaving, error or crash leaves a raw row marked normalized       *)
(* without a core row that cites it (normalize_raw_row, one transaction).   *)
THEOREM Attribution == Spec => []NormalizedIsAttributed
<1>1. IInv => NormalizedIsAttributed
  BY DEF IInv
<1>2. QED
  BY <1>1, Invariance, PTL

(* Core rows and source links exist together.                               *)
THEOREM Citation == Spec => []RowsAreCited
<1>1. IInv => RowsAreCited
  BY DEF IInv
<1>2. QED
  BY <1>1, Invariance, PTL

(* The row lock taken first excludes two transactions on one raw row.       *)
THEOREM Exclusion == Spec => []OneTransactionPerRaw
<1>1. IInv => OneTransactionPerRaw
  BY DEF IInv
<1>2. QED
  BY <1>1, Invariance, PTL

(* Racing merges may lose each other's sources, but never the first one,    *)
(* and never make the row milder than its first report.                     *)
THEOREM OriginKept == Spec => []OriginIsKept
<1>1. IInv => OriginIsKept
  BY DEF IInv
<1>2. QED
  BY <1>1, Invariance, PTL

(* No step removes a core row, moves its origin or empties a filled field.  *)
THEOREM NothingEmptied == Spec => NothingIsEmptied
<1> DEFINE A == \A k \in Keys : rows[k] # NoRow =>
                   /\ rows'[k] # NoRow
                   /\ rows'[k].origin = rows[k].origin
                   /\ rows[k].detail # Unset => rows'[k].detail # Unset
<1>1. IInv /\ [Next]_vars => [A]_vars
  BY TablesGrow DEF IInv, TablesGrowStep
<1>2. QED
  BY <1>1, Invariance, PTL DEF Spec, NothingIsEmptied
=============================================================================
