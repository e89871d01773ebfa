---------------------- MODULE NormalizationSerialProofs ----------------------
(****************************************************************************)
(* With one worker process the normalization stage implements the abstract  *)
(* store: the row a merge was computed from is still the row it is written  *)
(* over, and what is remembered of a raw row is still what it says.  Hence  *)
(* rows name all their sources, show the present content, and are one per   *)
(* subject.  With two workers that is not so, and the run that expects a    *)
(* violation shows what is lost.                                            *)
(****************************************************************************)
EXTENDS NormalizationProofs, MCNormalization, FiniteSetTheorems

OneWorker == \A v, w \in Workers : v = w

(* A step of one worker. *)
StepOf(w) ==
    Collect(w) \/ Snapshot(w) \/ EmptyBatch(w) \/ Transaction(w) \/ DbError(w) \/ Crash(w)

OthersIdle(a) == \A w \in Workers \ {a} : pc[w] = "idle"

(* What a second worker breaks: whoever is merging holds the core row as it *)
(* is, what is remembered of a raw row is what it says, once and not yet    *)
(* dealt with, and only a rejection or an error leads to mark_failed.       *)
CopyIsCurrent ==
    \A w \in Workers : pc[w] = "merging" => copy[w] = rows[Incoming(w).key]

StillQueued(item) ==
    raw[item.raw].status = "collected" /\ raw[item.raw].content = item.content

BatchIsCurrent ==
    \A w \in Workers : \A i \in DOMAIN batch[w] :
        /\ StillQueued(batch[w][i])
        /\ \A j \in DOMAIN batch[w] : batch[w][j].raw = batch[w][i].raw => j = i

FailsForAReason ==
    \A w \in Workers : pc[w] = "failing" /\ dbErrors = 0 => Incoming(w) = Rejected

MemoryInv == CopyIsCurrent /\ BatchIsCurrent /\ FailsForAReason

(* What a raw row says now, if it is marked normalized, has its link.       *)
NormalizedIsLinked ==
    \A r \in Raws : raw[r].status = "normalized" =>
        LET n == Normalized[<<r, raw[r].content>>] IN links[n.key][n.url] # NoRaw

SerialInv ==
    /\ TypeInv /\ MemoryInv
    /\ SourcesAreComplete /\ NormalizedIsCurrent /\ NormalizedIsLinked /\ OnlyRejectedFail

LEMMA StepIsNext ==
    ASSUME NEW a \in Workers, [StepOf(a)]_vars PROVE [Next]_vars
BY DEF StepOf, Next

-----------------------------------------------------------------------------
(* What remains of a batch, and the items that are not in it any more.      *)
LEMMA TailFacts ==
    ASSUME NEW S, NEW b \in Seq(S), b # << >>
    PROVE  /\ 1 \in DOMAIN b /\ b[1] \in S
           /\ \A i \in DOMAIN Tail(b) : i + 1 \in DOMAIN b /\ Tail(b)[i] = b[i + 1] /\ i + 1 # 1
           /\ \A i \in DOMAIN b : b[i] \in S
<1>1. DOMAIN b = 1 .. Len(b) /\ Len(b) \in Nat /\ Len(b) >= 1
  BY LenProperties, EmptySeq
<1>2. Tail(b) \in Seq(S) /\ Len(Tail(b)) = Len(b) - 1
      /\ \A i \in 1 .. Len(Tail(b)) : Tail(b)[i] = b[i + 1]
  BY <1>1
<1>3. DOMAIN Tail(b) = 1 .. Len(Tail(b))
  BY <1>2, LenProperties
<1>4. QED
  BY <1>1, <1>2, <1>3

(* Going on to the next item drops the head of the batch and nothing else;  *)
(* the head may change its status, for the other items are other raw rows.  *)
LEMMA AdvanceKeepsMemory ==
    ASSUME TypeInv, MemoryInv, NEW w \in Workers, OthersIdle(w), pc[w] # "idle", Advance(w),
           \A r \in Raws : r # batch[w][1].raw => raw'[r] = raw[r]
    PROVE  MemoryInv'
<1>1. /\ batch[w] \in Seq(Item) /\ batch[w] # << >> /\ batch'[w] = Tail(batch[w])
      /\ \A v \in Workers \ {w} : pc'[v] = "idle" /\ batch'[v] = << >>
      /\ pc'[w] \in {"idle", "batch"}
  BY AdvanceFacts DEF TypeInv, TypeOK, OthersIdle, Advance
<1>2. ASSUME NEW i \in DOMAIN Tail(batch[w])
      PROVE  /\ raw'[Tail(batch[w])[i].raw].status = "collected"
             /\ raw'[Tail(batch[w])[i].raw].content = Tail(batch[w])[i].content
             /\ \A j \in DOMAIN Tail(batch[w]) :
                   Tail(batch[w])[j].raw = Tail(batch[w])[i].raw => j = i
  <2> DEFINE b == batch[w]
  <2>1. b \in Seq(Item) /\ b # << >>
    BY <1>1
  <2>2. /\ 1 \in DOMAIN b
        /\ \A j \in DOMAIN Tail(b) : j + 1 \in DOMAIN b /\ Tail(b)[j] = b[j + 1] /\ j + 1 # 1
        /\ \A j \in DOMAIN b : b[j] \in Item
    BY <2>1, TailFacts
  <2>3. \A j, k \in DOMAIN b : b[j].raw = b[k].raw => j = k
    BY DEF MemoryInv, BatchIsCurrent
  <2>4. i \in Nat /\ \A j \in DOMAIN Tail(b) : j \in Nat
    BY <2>1, LenProperties
  <2>5. StillQueued(b[i + 1]) /\ b[i + 1].raw # b[1].raw /\ b[i + 1].raw \in Raws
    BY <2>2, <2>3 DEF MemoryInv, BatchIsCurrent, Item
  <2>6. raw'[b[i + 1].raw] = raw[b[i + 1].raw]
    BY <2>5
  <2> HIDE DEF b
  <2>7. raw'[b[i + 1].raw].status = "collected" /\ raw'[b[i + 1].raw].content = b[i + 1].content
    BY <2>5, <2>6 DEF StillQueued
  <2>8. QED
    BY <2>2, <2>3, <2>4, <2>7 DEF b
<1>3. ASSUME NEW v \in Workers, NEW i \in DOMAIN batch'[v]
      PROVE  /\ raw'[batch'[v][i].raw].status = "collected"
             /\ raw'[batch'[v][i].raw].content = batch'[v][i].content
             /\ \A j \in DOMAIN batch'[v] : batch'[v][j].raw = batch'[v][i].raw => j = i
  <2>1. CASE v = w
    BY <1>1, <1>2, <2>1
  <2>2. CASE v # w
    BY <1>1, <2>2, EmptySeq
  <2>3. QED
    BY <2>1, <2>2
<1>4. BatchIsCurrent'
  BY <1>3 DEF BatchIsCurrent, StillQueued
<1>5. CopyIsCurrent' /\ FailsForAReason'
  BY <1>1 DEF CopyIsCurrent, FailsForAReason
<1>6. QED
  BY <1>4, <1>5 DEF MemoryInv

(* A batch is read: every row in it is in the queue, and once in it.        *)
LEMMA SnapshotKeepsMemory ==
    ASSUME TypeInv, TypeInv', MemoryInv, NEW w \in Workers, OthersIdle(w), Snapshot(w)
    PROVE  MemoryInv'
<1>1. PICK q \in Batches :
        batch' = [batch EXCEPT ![w] =
                    [i \in 1 .. Len(q) |-> [raw |-> q[i], content |-> raw[q[i]].content]]]
  BY DEF Snapshot
<1>2. /\ Len(q) \in Nat /\ \A i \in 1 .. Len(q) : q[i] \in Pending
      /\ \A i, j \in 1 .. Len(q) : i < j => q[i] # q[j]
  <2>1. PICK n \in 1 .. BatchLimit : q \in [1 .. n -> Pending]
    BY DEF Batches
  <2>2. n \in Nat
    BY BoundAssumption
  <2>3. Len(q) = n
    BY <2>1, <2>2
  <2>4. \A i, j \in 1 .. Len(q) : i < j => q[i] # q[j]
    BY DEF Batches, IsBatch
  <2>5. QED
    BY <2>1, <2>2, <2>3, <2>4
<1>3. \A i, j \in 1 .. Len(q) : q[i] = q[j] => j = i
  BY <1>2
<1>4. ASSUME NEW v \in Workers, NEW i \in DOMAIN batch'[v]
      PROVE  /\ raw'[batch'[v][i].raw].status = "collected"
             /\ raw'[batch'[v][i].raw].content = batch'[v][i].content
             /\ \A j \in DOMAIN batch'[v] : batch'[v][j].raw = batch'[v][i].raw => j = i
  <2>1. CASE v = w
    <3>1. batch'[w] = [j \in 1 .. Len(q) |-> [raw |-> q[j], content |-> raw[q[j]].content]]
      BY <1>1 DEF TypeInv, TypeOK
    <3>2. i \in 1 .. Len(q) /\ q[i] \in Pending /\ raw' = raw
      BY <1>2, <1>4, <2>1, <3>1 DEF Snapshot
    <3>3. QED
      BY <1>3, <2>1, <3>1, <3>2 DEF Pending
  <2>2. CASE v # w
    <3>1. batch'[v] = << >>
      BY <1>1, <2>2 DEF TypeInv, TypeOK, OthersIdle
    <3>2. QED
      BY <1>4, <3>1, EmptySeq
  <2>3. QED
    BY <2>1, <2>2
<1>5. BatchIsCurrent'
  BY <1>4 DEF BatchIsCurrent, StillQueued
<1>6. \A v \in Workers : pc'[v] \in {"idle", "batch"}
  BY DEF Snapshot, TypeInv, TypeOK, OthersIdle
<1>7. CopyIsCurrent' /\ FailsForAReason'
  BY <1>6 DEF CopyIsCurrent, FailsForAReason
<1>8. QED
  BY <1>5, <1>7 DEF MemoryInv

(* A worker that is not idle stays at its batch and touches no raw row.     *)
LEMMA SameBatchKeepsIt ==
    ASSUME MemoryInv, UNCHANGED <<batch, raw>>
    PROVE  BatchIsCurrent'
BY DEF MemoryInv, BatchIsCurrent, StillQueued

LEMMA MemoryStep ==
    ASSUME TypeInv, TypeInv', MemoryInv, NEW a \in Workers, OthersIdle(a), [StepOf(a)]_vars
    PROVE  MemoryInv'
<1>1. CASE UNCHANGED <<pc, batch, raw, rows, copy, dbErrors>>
  <2>1. \A v \in Workers : Incoming(v)' = Incoming(v)
    BY <1>1, OtherIncoming
  <2>2. QED
    BY <1>1, <2>1, SameBatchKeepsIt DEF MemoryInv, CopyIsCurrent, FailsForAReason
<1>2. CASE Collect(a)
  <2>1. \A v \in Workers : pc[v] = "idle" /\ batch[v] = << >>
    BY <1>2 DEF Collect, OthersIdle, TypeInv, TypeOK
  <2>2. UNCHANGED <<pc, batch>>
    BY <1>2 DEF Collect
  <2>3. QED
    BY <2>1, <2>2, EmptySeq DEF MemoryInv, CopyIsCurrent, BatchIsCurrent, FailsForAReason
<1>3. CASE Claim(a)
  <2>1. \A v \in Workers : Incoming(v)' = Incoming(v)
    BY <1>3, OtherIncoming DEF Claim
  <2>2. /\ pc'[a] \in {"failing", "claimed"} /\ (pc'[a] = "failing" => Incoming(a) = Rejected)
        /\ \A v \in Workers \ {a} : pc'[v] = "idle"
    BY <1>3 DEF Claim, TypeInv, TypeOK, OthersIdle
  <2>3. BatchIsCurrent'
    BY <1>3, SameBatchKeepsIt DEF Claim
  <2>4. QED
    BY <2>1, <2>2, <2>3 DEF MemoryInv, CopyIsCurrent, FailsForAReason
<1>4. CASE ReadRow(a)
  <2>1. \A v \in Workers : Incoming(v)' = Incoming(v)
    BY <1>4, OtherIncoming DEF ReadRow
  <2>2. /\ pc'[a] = "merging" /\ copy'[a] = rows'[Incoming(a).key]
        /\ \A v \in Workers \ {a} : pc'[v] = "idle"
    BY <1>4 DEF ReadRow, TypeInv, TypeOK, OthersIdle
  <2>3. BatchIsCurrent'
    BY <1>4, SameBatchKeepsIt DEF ReadRow
  <2>4. QED
    BY <2>1, <2>2, <2>3 DEF MemoryInv, CopyIsCurrent, FailsForAReason
<1>5. CASE Insert(a) \/ Update(a)
  <2>1. pc[a] # "idle" /\ Advance(a) /\ raw' = [raw EXCEPT ![Incoming(a).raw].status = "normalized"]
    BY <1>5 DEF Insert, Update, Attribute
  <2>2. Incoming(a).raw = batch[a][1].raw
    BY <1>5, IncomingFacts DEF Insert, Update
  <2>3. \A r \in Raws : r # batch[a][1].raw => raw'[r] = raw[r]
    BY <2>1, <2>2 DEF TypeInv, TypeOK
  <2>4. QED
    BY <2>1, <2>3, AdvanceKeepsMemory
<1>6. CASE MarkFailed(a)
  <2>1. pc[a] # "idle" /\ Advance(a) /\ raw' = [raw EXCEPT ![batch[a][1].raw].status = "failed"]
    BY <1>6 DEF MarkFailed
  <2>2. \A r \in Raws : r # batch[a][1].raw => raw'[r] = raw[r]
    BY <2>1 DEF TypeInv, TypeOK
  <2>3. QED
    BY <2>1, <2>2, AdvanceKeepsMemory
<1>7. CASE DbError(a)
  <2>1. CASE pc[a] # "idle" /\ Advance(a)
    BY <1>7, <2>1, AdvanceKeepsMemory DEF DbError
  <2>2. CASE RollBack(a) /\ UNCHANGED batch
    <3>1. dbErrors' # 0
      BY <1>7 DEF DbError, TypeInv, TypeOK
    <3>2. \A v \in Workers : pc'[v] # "merging"
      BY <2>2 DEF RollBack, TypeInv, TypeOK, OthersIdle
    <3>3. BatchIsCurrent'
      BY <1>7, <2>2, SameBatchKeepsIt DEF DbError
    <3>4. QED
      BY <3>1, <3>2, <3>3 DEF MemoryInv, CopyIsCurrent, FailsForAReason
  <2>3. QED
    BY <1>7, <2>1, <2>2 DEF DbError
<1>8. CASE Crash(a)
  <2>1. \A v \in Workers : pc'[v] = "idle" /\ batch'[v] = << >>
    BY <1>8 DEF Crash, TypeInv, TypeOK, OthersIdle
  <2>2. QED
    BY <2>1, EmptySeq DEF MemoryInv, CopyIsCurrent, BatchIsCurrent, FailsForAReason
<1>9. ~ InsertConflict(a)
  BY DEF InsertConflict, MemoryInv, CopyIsCurrent
<1>10. QED
  BY <1>1, <1>2, <1>3, <1>4, <1>5, <1>6, <1>7, <1>8, <1>9, SnapshotKeepsMemory
     DEF StepOf, Transaction, EmptyBatch, vars

-----------------------------------------------------------------------------
(* What the normalizer makes of an item, by name. *)
NormalOf(r, c) == Normalized[<<r, c>>]

(* What a write does to the tables when the merge was computed from the row *)
(* that it is written over.                                                 *)
LEMMA WriteFacts ==
    ASSUME TypeInv, MemoryInv, NEW w \in Workers, Insert(w) \/ Update(w),
           NEW n, n = Incoming(w)
    PROVE  /\ n \in Record /\ n # Rejected /\ n.raw \in Raws /\ n.key \in Keys
           /\ n.name = SourceOf[n.raw]
           /\ n = NormalOf(n.raw, raw[n.raw].content)
           /\ raw' = [raw EXCEPT ![n.raw].status = "normalized"]
           /\ links' = [links EXCEPT ![n.key][n.url] = n.raw]
           /\ rows'[n.key] # NoRow
           /\ n.name \in rows'[n.key].names
           /\ rows'[n.key].severity >= n.severity
           /\ \A k \in Keys : k # n.key => rows'[k] = rows[k]
           /\ rows[n.key] # NoRow =>
                 /\ rows[n.key].names \subseteq rows'[n.key].names
                 /\ rows'[n.key].severity >= rows[n.key].severity
<1>1. /\ n \in Record /\ n.raw = batch[w][1].raw /\ n.name = SourceOf[n.raw]
      /\ batch[w] \in Seq(Item) /\ batch[w] # << >>
  BY IncomingFacts DEF Insert, Update, TypeInv, TypeOK
<1>2. n # Rejected /\ n.raw \in Raws /\ n.key \in Keys /\ n.severity \in 0 .. 4
  BY <1>1, NormalizedAssumption DEF Record, Severity
<1>3. n = NormalOf(n.raw, raw[n.raw].content)
  <2>1. 1 \in DOMAIN batch[w]
    <3> DEFINE b == batch[w]
    <3>1. b \in Seq(Item) /\ b # << >>
      BY <1>1
    <3> HIDE DEF b
    <3>2. 1 \in DOMAIN b
      BY <3>1, TailFacts
    <3>3. QED
      BY <3>2 DEF b
  <2>2. StillQueued(batch[w][1])
    BY <2>1 DEF MemoryInv, BatchIsCurrent
  <2>3. QED
    BY <1>1, <2>2 DEF Incoming, StillQueued, NormalOf
<1>4. /\ raw' = [raw EXCEPT ![n.raw].status = "normalized"]
      /\ links' = [links EXCEPT ![n.key][n.url] = n.raw]
  BY Zenon DEF Insert, Update, Attribute
<1>5. CASE Insert(w)
  <2>1. rows' = [rows EXCEPT ![n.key] = NewRow(n)] /\ rows[n.key] = NoRow
    BY <1>5 DEF Insert
  <2>2. rows'[n.key] = NewRow(n) /\ NewRow(n) # NoRow
    BY <1>1, <1>2, <2>1, NewRowIsRow, SentinelAssumption DEF TypeInv, TypeOK
  <2>3. n.name \in NewRow(n).names /\ NewRow(n).severity >= n.severity
    BY <1>2 DEF NewRow
  <2>4. \A k \in Keys : k # n.key => rows'[k] = rows[k]
    BY <2>1, Zenon DEF TypeInv, TypeOK
  <2>5. QED
    BY <1>1, <1>2, <1>3, <1>4, <2>1, <2>2, <2>3, <2>4, Zenon
<1>6. CASE Update(w)
  <2>1. /\ copy[w] = rows[n.key] /\ copy[w] # NoRow
        /\ rows' = [rows EXCEPT ![n.key] = Merged(rows[n.key], copy[w], n)]
    BY <1>6 DEF Update, MemoryInv, CopyIsCurrent
  <2>2. rows[n.key] \in Row
    BY <1>2, <2>1 DEF TypeInv, TypeOK
  <2> DEFINE old == rows[n.key]
             new == Merged(old, old, n)
  <2>3. new \in Row /\ new # NoRow
    BY <1>1, <2>2, MergedIsRow, SentinelAssumption
  <2>4. /\ n.name \in new.names /\ old.names \subseteq new.names
        /\ new.severity >= n.severity /\ new.severity >= old.severity
    BY <1>2, <2>2 DEF Merged, Row, Severity
  <2>5. rows'[n.key] = new /\ \A k \in Keys : k # n.key => rows'[k] = rows[k]
    BY <1>2, <2>1 DEF TypeInv, TypeOK
  <2>6. QED
    BY <1>1, <1>2, <1>3, <1>4, <2>3, <2>4, <2>5, Zenon
<1>7. QED
  BY <1>5, <1>6

LEMMA SeverityFacts ==
    ASSUME NEW row \in Row PROVE row.severity \in Int /\ row.severity >= row.severity
BY DEF Row, Severity

(* The rows only grow. *)
RowsGrow ==
    \A k \in Keys : rows[k] # NoRow =>
        /\ rows'[k] # NoRow
        /\ rows[k].names \subseteq rows'[k].names
        /\ rows'[k].severity >= rows[k].severity

LEMMA GrowthStep ==
    ASSUME TypeInv, MemoryInv, NEW a \in Workers, [StepOf(a)]_vars
    PROVE  RowsGrow
<1>0. \A k \in Keys : rows[k] # NoRow => rows[k].severity >= rows[k].severity
  BY SeverityFacts DEF TypeInv, TypeOK
<1>1. CASE UNCHANGED rows
  BY <1>0, <1>1 DEF RowsGrow
<1>2. CASE Insert(a) \/ Update(a)
  <2>1. PICK n : n = Incoming(a)
    OBVIOUS
  <2>2. \A k \in Keys : k # n.key => rows'[k] = rows[k]
    BY <1>2, <2>1, WriteFacts
  <2>3. rows'[n.key] # NoRow
    BY <1>2, <2>1, WriteFacts
  <2>4. rows[n.key] # NoRow =>
          /\ rows[n.key].names \subseteq rows'[n.key].names
          /\ rows'[n.key].severity >= rows[n.key].severity
    BY <1>2, <2>1, WriteFacts
  <2>5. QED
    BY <1>0, <2>2, <2>3, <2>4 DEF RowsGrow
<1>3. QED
  BY <1>1, <1>2
     DEF StepOf, Transaction, vars, Collect, Snapshot, EmptyBatch, Claim, ReadRow,
         InsertConflict, MarkFailed, DbError, Crash

(* What a step does to a raw row. *)
LEMMA RawStep ==
    ASSUME TypeInv, MemoryInv, NEW a \in Workers, [StepOf(a)]_vars, NEW r \in Raws
    PROVE  \/ raw'[r] = raw[r] /\ (dbErrors' = 0 => dbErrors = 0)
           \/ raw'[r].status = "collected"
           \/ (Insert(a) \/ Update(a)) /\ r = Incoming(a).raw
              /\ raw'[r].status = "normalized" /\ raw'[r].content = raw[r].content
           \/ MarkFailed(a) /\ r = batch[a][1].raw
              /\ raw'[r].status = "failed" /\ raw'[r].content = raw[r].content
<1>1. CASE UNCHANGED <<raw, dbErrors>>
  BY <1>1
<1>2. CASE Collect(a)
  BY <1>2, CollectFacts DEF Collect
<1>3. CASE Insert(a) \/ Update(a)
  <2>1. raw' = [raw EXCEPT ![Incoming(a).raw].status = "normalized"] /\ UNCHANGED dbErrors
    BY <1>3 DEF Insert, Update, Attribute, budget
  <2>2. QED
    BY <1>3, <2>1 DEF TypeInv, TypeOK
<1>4. CASE MarkFailed(a)
  BY <1>4 DEF MarkFailed, TypeInv, TypeOK
<1>5. CASE DbError(a)
  BY <1>5 DEF DbError, TypeInv, TypeOK
<1>6. QED
  BY <1>1, <1>2, <1>3, <1>4, <1>5
     DEF StepOf, Transaction, vars, Snapshot, EmptyBatch, Claim, ReadRow,
         InsertConflict, Crash

-----------------------------------------------------------------------------
LEMMA SourcesStep ==
    ASSUME TypeInv, MemoryInv, SourcesAreComplete, NormalizedIsAttributed, RowsAreCited,
           NEW a \in Workers, [StepOf(a)]_vars
    PROVE  SourcesAreComplete'
<1> SUFFICES ASSUME NEW k \in Keys, NEW u \in Urls, links'[k][u] # NoRaw
             PROVE  SourceOf[links'[k][u]] \in rows'[k].names
  BY DEF SourcesAreComplete
<1>1. ASSUME links'[k][u] = links[k][u] PROVE SourceOf[links'[k][u]] \in rows'[k].names
  <2>1. rows[k] # NoRow /\ SourceOf[links[k][u]] \in rows[k].names
    BY <1>1 DEF SourcesAreComplete, RowsAreCited
  <2>2. QED
    BY <1>1, <2>1, GrowthStep DEF RowsGrow
<1>2. CASE UNCHANGED links
  BY <1>1, <1>2
<1>3. CASE Insert(a) \/ Update(a)
  <2>1. PICK n : n = Incoming(a)
    OBVIOUS
  <2>2. /\ links' = [links EXCEPT ![n.key][n.url] = n.raw]
        /\ n.name = SourceOf[n.raw] /\ n.name \in rows'[n.key].names
    BY <1>3, <2>1, WriteFacts
  <2>3. links'[k][u] = IF k = n.key /\ u = n.url THEN n.raw ELSE links[k][u]
    BY <2>2 DEF TypeInv, TypeOK
  <2>4. QED
    BY <1>1, <2>2, <2>3
<1>4. QED
  BY <1>2, <1>3
     DEF StepOf, Transaction, vars, Collect, Snapshot, EmptyBatch, Claim, ReadRow,
         InsertConflict, MarkFailed, DbError, Crash

LEMMA CurrencyStep ==
    ASSUME TypeInv, MemoryInv, NormalizedIsCurrent, NEW a \in Workers, [StepOf(a)]_vars
    PROVE  NormalizedIsCurrent'
<1> SUFFICES ASSUME NEW r \in Raws, raw'[r].status = "normalized",
                    NEW n, n = NormalOf(r, raw'[r].content)
             PROVE  /\ n # Rejected
                    /\ rows'[n.key] # NoRow
                    /\ n.name \in rows'[n.key].names
                    /\ rows'[n.key].severity >= n.severity
  BY DEF NormalizedIsCurrent, NormalOf
<1>1. CASE raw'[r] = raw[r]
  <2>1. /\ n # Rejected /\ rows[n.key] # NoRow
        /\ n.name \in rows[n.key].names /\ rows[n.key].severity >= n.severity
    BY <1>1 DEF NormalizedIsCurrent, NormalOf
  <2>2. raw[r].content \in Contents
    BY DEF TypeInv, TypeOK
  <2>3. n.key \in Keys /\ n.severity \in 0 .. 4
    BY <1>1, <2>1, <2>2, ReportFacts DEF NormalOf
  <2>4. rows[n.key] \in Row /\ rows'[n.key] # NoRow /\ rows'[n.key].severity >= rows[n.key].severity
        /\ rows[n.key].names \subseteq rows'[n.key].names
    BY <2>1, <2>3, GrowthStep DEF RowsGrow, TypeInv, TypeOK
  <2>5. rows'[n.key] \in Row
    <3>1. TypeInv'
      BY TypeStep, StepIsNext
    <3>2. QED
      BY <2>3, <2>4, <3>1 DEF TypeInv, TypeOK
  <2>6. rows[n.key].severity \in Int /\ rows'[n.key].severity \in Int
    BY <2>4, <2>5, SeverityFacts
  <2>7. rows'[n.key].severity >= n.severity
    <3> DEFINE before == rows[n.key].severity  after == rows'[n.key].severity  said == n.severity
    <3>1. /\ before \in Int /\ after \in Int /\ said \in Int
          /\ before >= said /\ after >= before
      BY <2>1, <2>3, <2>4, <2>6
    <3> HIDE DEF before, after, said
    <3>2. after >= said
      BY <3>1
    <3>3. QED
      BY <3>2 DEF after, said
  <2>8. QED
    BY <2>1, <2>4, <2>7
<1>2. CASE (Insert(a) \/ Update(a)) /\ r = Incoming(a).raw /\ raw'[r].content = raw[r].content
  <2>1. PICK m : m = Incoming(a)
    OBVIOUS
  <2>2. /\ m = NormalOf(m.raw, raw[m.raw].content) /\ m # Rejected
        /\ rows'[m.key] # NoRow /\ m.name \in rows'[m.key].names
        /\ rows'[m.key].severity >= m.severity
    BY <1>2, <2>1, WriteFacts
  <2>3. m = n
    BY <1>2, <2>1, <2>2
  <2>4. QED
    BY <2>2, <2>3
<1>3. QED
  BY <1>1, <1>2, RawStep

(* Links are overwritten, and never removed. *)
LEMMA LinksStay ==
    ASSUME TypeInv, MemoryInv, NEW a \in Workers, [StepOf(a)]_vars,
           NEW k \in Keys, NEW u \in Urls, links[k][u] # NoRaw
    PROVE  links'[k][u] # NoRaw
<1>1. CASE UNCHANGED links
  BY <1>1
<1>2. CASE Insert(a) \/ Update(a)
  <2>1. PICK n : n = Incoming(a)
    OBVIOUS
  <2>2. n.raw \in Raws /\ links' = [links EXCEPT ![n.key][n.url] = n.raw]
    BY <1>2, <2>1, WriteFacts
  <2>3. QED
    BY <2>2, SentinelAssumption DEF TypeInv, TypeOK
<1>3. QED
  BY <1>1, <1>2
     DEF StepOf, Transaction, vars, Collect, Snapshot, EmptyBatch, Claim, ReadRow,
         InsertConflict, MarkFailed, DbError, Crash

LEMMA LinkStep ==
    ASSUME TypeInv, MemoryInv, NormalizedIsCurrent, NormalizedIsLinked,
           NEW a \in Workers, [StepOf(a)]_vars
    PROVE  NormalizedIsLinked'
<1> SUFFICES ASSUME NEW r \in Raws, raw'[r].status = "normalized",
                    NEW n, n = NormalOf(r, raw'[r].content)
             PROVE  links'[n.key][n.url] # NoRaw
  BY DEF NormalizedIsLinked, NormalOf
<1>1. CASE raw'[r] = raw[r]
  <2>1. n # Rejected /\ links[n.key][n.url] # NoRaw
    BY <1>1 DEF NormalizedIsCurrent, NormalizedIsLinked, NormalOf
  <2>2. raw[r].content \in Contents
    BY DEF TypeInv, TypeOK
  <2>3. n.key \in Keys /\ n.url \in Urls
    BY <1>1, <2>1, <2>2, ReportFacts DEF NormalOf
  <2>4. QED
    BY <2>1, <2>3, LinksStay
<1>2. CASE (Insert(a) \/ Update(a)) /\ r = Incoming(a).raw /\ raw'[r].content = raw[r].content
  <2>1. PICK m : m = Incoming(a)
    OBVIOUS
  <2>2. /\ m \in Record /\ m = NormalOf(m.raw, raw[m.raw].content)
        /\ m.raw \in Raws /\ m.key \in Keys
        /\ links' = [links EXCEPT ![m.key][m.url] = m.raw]
    BY <1>2, <2>1, WriteFacts
  <2>3. m = n /\ m.url \in Urls
    BY <1>2, <2>1, <2>2 DEF Record
  <2>4. QED
    BY <2>2, <2>3, SentinelAssumption DEF TypeInv, TypeOK
<1>3. QED
  BY <1>1, <1>2, RawStep

LEMMA FailureStep ==
    ASSUME TypeInv, MemoryInv, OnlyRejectedFail, NEW a \in Workers, [StepOf(a)]_vars
    PROVE  OnlyRejectedFail'
<1> SUFFICES ASSUME NEW r \in Raws, raw'[r].status = "failed", dbErrors' = 0
             PROVE  Normalized[<<r, raw'[r].content>>] = Rejected
  BY DEF OnlyRejectedFail
<1>1. CASE raw'[r] = raw[r] /\ dbErrors = 0
  BY <1>1 DEF OnlyRejectedFail
<1>2. CASE MarkFailed(a) /\ r = batch[a][1].raw /\ raw'[r].content = raw[r].content
  <2>1. pc[a] = "failing" /\ dbErrors = 0
    BY <1>2 DEF MarkFailed
  <2>2. Incoming(a) = Rejected /\ batch[a] # << >> /\ batch[a] \in Seq(Item)
    BY <2>1, IncomingFacts DEF MemoryInv, FailsForAReason, TypeInv, TypeOK
  <2>3. 1 \in DOMAIN batch[a]
    <3> DEFINE b == batch[a]
    <3>1. b \in Seq(Item) /\ b # << >>
      BY <2>2
    <3> HIDE DEF b
    <3>2. 1 \in DOMAIN b
      BY <3>1, TailFacts
    <3>3. QED
      BY <3>2 DEF b
  <2>4. raw[r].content = batch[a][1].content
    BY <1>2, <2>3 DEF MemoryInv, BatchIsCurrent, StillQueued
  <2>5. QED
    BY <1>2, <2>2, <2>4 DEF Incoming
<1>3. QED
  BY <1>1, <1>2, RawStep

(* The invariant of a worker alone.                                         *)
LEMMA SerialInit == Init => SerialInv
<1> SUFFICES ASSUME Init PROVE SerialInv
  OBVIOUS
<1>1. MemoryInv
  BY EmptySeq DEF Init, MemoryInv, CopyIsCurrent, BatchIsCurrent, FailsForAReason
<1>2. SourcesAreComplete /\ NormalizedIsCurrent /\ NormalizedIsLinked /\ OnlyRejectedFail
  BY DEF Init, NotCollected, SourcesAreComplete, NormalizedIsCurrent, NormalizedIsLinked,
         OnlyRejectedFail
<1>3. QED
  BY <1>1, <1>2, TypeInit DEF SerialInv

LEMMA SerialStep ==
    ASSUME IInv, SerialInv, NEW a \in Workers, OthersIdle(a), [StepOf(a)]_vars
    PROVE  SerialInv'
<1>1. TypeInv /\ MemoryInv /\ TypeInv'
  BY TypeStep, StepIsNext DEF SerialInv
<1>2. MemoryInv'
  BY <1>1, MemoryStep
<1>3. SourcesAreComplete'
  BY <1>1, SourcesStep DEF IInv, SerialInv
<1>4. NormalizedIsCurrent'
  BY <1>1, CurrencyStep DEF SerialInv
<1>5. OnlyRejectedFail'
  BY <1>1, FailureStep DEF SerialInv
<1>6. NormalizedIsLinked'
  BY <1>1, LinkStep DEF SerialInv
<1>7. QED
  BY <1>1, <1>2, <1>3, <1>4, <1>5, <1>6 DEF SerialInv

LEMMA OneWorkerStep == OneWorker /\ IInv /\ SerialInv /\ [Next]_vars => SerialInv'
<1> SUFFICES ASSUME OneWorker, IInv, SerialInv, [Next]_vars PROVE SerialInv'
  OBVIOUS
<1>1. CASE Workers = {}
  <2>1. UNCHANGED vars
    BY <1>1 DEF Next
  <2>2. TypeInv'
    BY TypeStep DEF SerialInv
  <2>3. QED
    BY <1>1, <2>1, <2>2
       DEF vars, SerialInv, MemoryInv, CopyIsCurrent, BatchIsCurrent, FailsForAReason,
           SourcesAreComplete, NormalizedIsCurrent, NormalizedIsLinked, OnlyRejectedFail
<1>2. ASSUME NEW a \in Workers PROVE SerialInv'
  <2>1. OthersIdle(a) /\ [StepOf(a)]_vars
    BY DEF OneWorker, OthersIdle, Next, StepOf
  <2>2. QED
    BY <2>1, SerialStep
<1>3. QED
  BY <1>1, <1>2

LEMMA OneWorkerInvariance ==
    ASSUME OneWorker PROVE Spec => []SerialInv
<1>1. IInv /\ SerialInv /\ [Next]_vars => SerialInv'
  BY OneWorkerStep
<1>2. QED
  BY <1>1, SerialInit, Invariance, PTL DEF Spec

-----------------------------------------------------------------------------
(* Over the row it was computed from, a merge is what the store expects.    *)
LEMMA MergeIsAbsorb ==
    ASSUME NEW row \in Row, NEW n \in Record
    PROVE  Merged(row, row, n) = Store!Absorb(row, n)
BY DEF Merged, Store!Absorb, Store!Stronger, Row, Record, Severity

LEMMA RefinementStep == SerialInv /\ [Next]_vars => [Store!Next]_rows
<1> SUFFICES ASSUME SerialInv, [Next]_vars PROVE [Store!Next]_rows
  OBVIOUS
<1> DEFINE Reports == {Normalized[x] : x \in Raws \X Contents} \ {Rejected}
<1>1. ASSUME NEW w \in Workers, pc[w] = "merging" PROVE Incoming(w) \in Reports
  <2>1. batch[w][1] \in Item /\ Incoming(w) # Rejected
    BY <1>1, IncomingFacts DEF SerialInv, TypeInv, InTransaction
  <2>2. <<batch[w][1].raw, batch[w][1].content>> \in Raws \X Contents
    BY <2>1 DEF Item
  <2>3. QED
    BY <2>1, <2>2 DEF Incoming
<1>2. CASE UNCHANGED rows
  BY <1>2
<1>3. ASSUME NEW w \in Workers, Insert(w) PROVE Store!Next
  <2>1. rows' = [rows EXCEPT ![Incoming(w).key] =
                   IF @ = NoRow THEN Store!Fresh(Incoming(w)) ELSE Store!Absorb(@, Incoming(w))]
    BY <1>3 DEF Insert, NewRow, Store!Fresh
  <2>2. QED
    BY <1>1, <1>3, <2>1 DEF Insert, Store!Next, Store!Report
<1>4. ASSUME NEW w \in Workers, Update(w) PROVE Store!Next
  <2>1. Incoming(w) \in Record /\ copy[w] = rows[Incoming(w).key]
    BY <1>4, IncomingFacts DEF Update, SerialInv, MemoryInv, CopyIsCurrent
  <2>2. copy[w] \in Row
    BY <1>4 DEF Update, SerialInv, TypeInv, TypeOK
  <2>3. Merged(rows[Incoming(w).key], copy[w], Incoming(w))
          = Store!Absorb(rows[Incoming(w).key], Incoming(w))
    BY <2>1, <2>2, MergeIsAbsorb
  <2>4. rows' = [rows EXCEPT ![Incoming(w).key] =
                   IF @ = NoRow THEN Store!Fresh(Incoming(w)) ELSE Store!Absorb(@, Incoming(w))]
    BY <1>4, <2>1, <2>3 DEF Update
  <2>5. QED
    BY <1>1, <1>4, <2>4 DEF Update, Store!Next, Store!Report
<1>5. QED
  BY <1>2, <1>3, <1>4
     DEF Next, Transaction, vars, Collect, Snapshot, EmptyBatch, Claim, ReadRow,
         InsertConflict, MarkFailed, DbError, Crash

(* One worker at a time implements the store its readers expect: names are  *)
(* only added, severities only rise and filled fields stay.                 *)
THEOREM SerialRefinement ==
    ASSUME OneWorker PROVE Spec => RefinesStore
<1>1. Init => Store!Init
  BY DEF Init, Store!Init
<1>2. QED
  BY <1>1, OneWorkerInvariance, RefinementStep, PTL DEF Spec, RefinesStore, Store!Spec

(* With one worker process names are never missing, what is normalized is   *)
(* current and only rejections fail, for every set of raw rows and keys:    *)
(* the guarantees that normalization_lost_source shows two workers to break *)
(* (merge_normalized).                                                      *)
THEOREM SerialGuarantees ==
    ASSUME OneWorker
    PROVE  Spec => [](SourcesAreComplete /\ NormalizedIsCurrent /\ OnlyRejectedFail)
<1>1. SerialInv => SourcesAreComplete /\ NormalizedIsCurrent /\ OnlyRejectedFail
  BY DEF SerialInv
<1>2. QED
  BY <1>1, OneWorkerInvariance, PTL

-----------------------------------------------------------------------------
(* The specification that the runs check: of the workers there are, those   *)
(* in the scope are running, and a scope may bound what happens.            *)
AloneInv ==
    Alone => /\ SerialInv
             /\ \A w \in Workers \ scope.active : pc[w] = "idle"

LEMMA SoleWorker ==
    ASSUME scope \in Scopes, Alone
    PROVE  \E a \in Workers : scope.active = {a}
<1>1. scope.active \subseteq Workers /\ IsFiniteSet(scope.active)
  BY ScopesAssumption
<1>2. \E a : scope.active = {a}
  BY <1>1, FS_Singleton DEF Alone
<1>3. QED
  BY <1>1, <1>2

LEMMA IdleStaysIdle ==
    ASSUME TypeInv, NEW a \in Workers, OthersIdle(a), [StepOf(a)]_vars
    PROVE  OthersIdle(a)'
<1>1. CASE UNCHANGED pc
  BY <1>1 DEF OthersIdle
<1>2. CASE \E x \in {"idle", "batch", "claimed", "merging", "failing"} : pc' = [pc EXCEPT ![a] = x]
  BY <1>2 DEF OthersIdle, TypeInv, TypeOK
<1>3. ASSUME Advance(a) \/ RollBack(a)
      PROVE  \E x \in {"idle", "batch", "claimed", "merging", "failing"} : pc' = [pc EXCEPT ![a] = x]
  BY <1>3 DEF Advance, RollBack
<1>4. ASSUME Snapshot(a) \/ Claim(a) \/ ReadRow(a) \/ Crash(a)
      PROVE  \E x \in {"idle", "batch", "claimed", "merging", "failing"} : pc' = [pc EXCEPT ![a] = x]
  BY <1>4 DEF Snapshot, Claim, ReadRow, Crash
<1>5. QED
  BY <1>1, <1>2, <1>3, <1>4
     DEF StepOf, Transaction, vars, Collect, EmptyBatch, Insert, Update, Attribute,
         InsertConflict, MarkFailed, DbError

LEMMA AloneStep ==
    ASSUME IInv, scope \in Scopes, AloneInv, [MCNext]_mcvars PROVE AloneInv'
<1> SUFFICES ASSUME Alone'
             PROVE  SerialInv' /\ \A w \in Workers \ scope'.active : pc'[w] = "idle"
  BY DEF AloneInv
<1>1. scope' = scope
  BY DEF MCNext, Active, mcvars
<1>2. Alone
  BY <1>1 DEF Alone
<1>3. PICK a \in Workers : scope.active = {a}
  BY <1>2, SoleWorker
<1>4. SerialInv /\ OthersIdle(a)
  BY <1>2, <1>3 DEF AloneInv, OthersIdle
<1>5. [StepOf(a)]_vars
  BY <1>3 DEF MCNext, Active, mcvars, vars, StepOf, Transaction
<1>6. SerialInv'
  BY <1>4, <1>5, SerialStep
<1>7. OthersIdle(a)'
  BY <1>4, <1>5, IdleStaysIdle DEF SerialInv
<1>8. QED
  BY <1>1, <1>3, <1>6, <1>7 DEF OthersIdle

LEMMA AloneInvariance == MCSpec => []AloneInv
<1>1. Init => AloneInv /\ IInv
  <2> SUFFICES ASSUME Init PROVE AloneInv /\ IInv
    OBVIOUS
  <2>1. \A w \in Workers : pc[w] = "idle"
    BY DEF Init
  <2>2. QED
    BY <2>1, SerialInit, IInvInit DEF AloneInv
<1>2. [MCNext]_mcvars => [Next]_vars
  BY DEF MCNext, mcvars, Next, Transaction
<1>3. scope \in Scopes /\ [MCNext]_mcvars => (scope \in Scopes)'
  BY DEF MCNext, Active, mcvars
<1>4. IInv /\ [Next]_vars => IInv'
  BY IInvStep
<1>5. IInv /\ scope \in Scopes /\ AloneInv /\ [MCNext]_mcvars => AloneInv'
  BY AloneStep
<1>6. QED
  BY <1>1, <1>2, <1>3, <1>4, <1>5, PTL DEF MCSpec, MCInit

(* With one worker at a time source_names is complete: every source that a  *)
(* link credits is named (merge_normalized, upsert_source_attribution).     *)
THEOREM CompleteSources == MCSpec => []AloneSourcesAreComplete
<1>1. AloneInv => AloneSourcesAreComplete
  BY DEF AloneInv, AloneSourcesAreComplete, SerialInv
<1>2. QED
  BY <1>1, AloneInvariance, PTL

(* With one worker at a time what is marked normalized is what the raw row  *)
(* says now: the batch that is remembered is not overtaken by a collection, *)
(* because the worker does not collect before it is through with it         *)
(* (normalize_pending).                                                     *)
THEOREM CurrentRows == MCSpec => []AloneNormalizedIsCurrent
<1>1. AloneInv => AloneNormalizedIsCurrent
  BY DEF AloneInv, AloneNormalizedIsCurrent, SerialInv
<1>2. QED
  BY <1>1, AloneInvariance, PTL

(* With one worker at a time and no database error only what the normalizer *)
(* rejects is marked failed: the unique key never refuses an insert.        *)
THEOREM OnlyRejections == MCSpec => []AloneOnlyRejectedFail
<1>1. AloneInv => AloneOnlyRejectedFail
  BY DEF AloneInv, AloneOnlyRejectedFail, SerialInv
<1>2. QED
  BY <1>1, AloneInvariance, PTL

(* With one worker at a time the stage implements the store of its readers, *)
(* in the form in which the runs check it.                                  *)
THEOREM AloneRefinement == MCSpec => AloneRefinesStore
<1> DEFINE shown == IF Alone THEN rows ELSE [k \in Keys |-> NoRow]
<1>1. MCInit => AloneStore!Init
  BY DEF MCInit, Init, AloneStore!Init
<1>2. AloneInv /\ [MCNext]_mcvars => [AloneStore!Next]_shown
  <2> SUFFICES ASSUME AloneInv, [MCNext]_mcvars PROVE [AloneStore!Next]_shown
    OBVIOUS
  <2>1. scope' = scope /\ [Next]_vars
    BY DEF MCNext, Active, mcvars, Next, Transaction
  <2>2. CASE ~ Alone
    BY <2>1, <2>2 DEF Alone
  <2>3. CASE Alone
    <3>1. [Store!Next]_rows
      BY <2>1, <2>3, RefinementStep DEF AloneInv
    <3>2. Store!Next => AloneStore!Next
      BY <2>1, <2>3, ReportedAssumption
         DEF Alone, Store!Next, AloneStore!Next, Store!Report, AloneStore!Report,
             Store!Fresh, AloneStore!Fresh, Store!Absorb, AloneStore!Absorb,
             Store!Stronger, AloneStore!Stronger
    <3>3. UNCHANGED rows => UNCHANGED shown
      BY <2>1 DEF Alone
    <3>4. QED
      BY <3>1, <3>2, <3>3
  <2>4. QED
    BY <2>2, <2>3
<1>3. QED
  BY <1>1, <1>2, AloneInvariance, PTL DEF MCSpec, AloneRefinesStore, AloneStore!Spec

-----------------------------------------------------------------------------
(* What the normalizers call a record: all but recalls have the key that    *)
(* dedup_key gives for the number and the page that the record has.         *)
KeyedBySubject(r) ==
    \E title, source, content, text : r.key = DedupKey(r.cve, r.url, title, source, content, text)

LEMMA RecordFacts ==
    ASSUME NEW item, NEW type, NEW said,
           NEW r, r = BaseRecord(item, type, said), r # NormalizationError
    PROVE  r.type = type /\ r.cve = said.cve /\ KeyedBySubject(r)
<1> DEFINE title == CleanTitle(item)
           url   == CanonicalUrl(item.url)
           text  == title \o item.summary \o Word(said.cve) \o Word(said.cwe)
           key   == DedupKey(said.cve, url, title, item.source, ContentHash(item), text)
<1> HIDE DEF title, url, text, key
<1>1. r.type = type /\ r.cve = said.cve /\ r.url = url /\ r.key = key
  BY DEF BaseRecord, title, url, text, key
<1>2. QED
  BY <1>1 DEF KeyedBySubject, key

LEMMA RecallFacts ==
    ASSUME NEW item, NEW r, r = RecallNormalizer(item), r # NormalizationError
    PROVE  r.type = "incident" /\ r.cve = None
<1> DEFINE said == [Defaults EXCEPT
                !.vendor = item.metadata.make, !.product = item.metadata.model,
                !.hints = item.metadata.component \o item.title \o item.summary,
                !.tags = {"recall", "nhtsa", "software_related",
                          item.metadata.make, item.metadata.model}]
<1>1. said.cve = None
  BY DEF Defaults
<1> HIDE DEF said
<1>2. PICK b : b = BaseRecord(item, "incident", said)
  OBVIOUS
<1>3. b # NormalizationError /\ r = [b EXCEPT !.key = <<"recall:campaign", item.metadata.campaign>>]
  BY <1>2 DEF RecallNormalizer, said
<1>4. b.type = "incident" /\ b.cve = None
  BY <1>1, <1>2, <1>3, RecordFacts
<1>5. QED
  BY <1>3, <1>4

LEMMA NormalizeFacts ==
    ASSUME NEW item, NEW r, r = Normalize(item), r # NormalizationError
    PROVE  KeyedBySubject(r) \/ (r.type = "incident" /\ r.cve = None)
<1>1. CASE r = NvdNormalizer(item)
  BY <1>1, RecordFacts DEF NvdNormalizer
<1>2. CASE r = CisaKevNormalizer(item)
  BY <1>2, RecordFacts DEF CisaKevNormalizer
<1>3. CASE \E text, said : r = FromText(item, text, said)
  BY <1>3, RecordFacts DEF FromText
<1>4. CASE r = RecallNormalizer(item)
  BY <1>4, RecallFacts
<1>5. ASSUME r = RssNormalizer(item) \/ r = FallbackNormalizer(item)
             \/ r = VendorAdvisoryNormalizer(item)
      PROVE  \E text, said : r = FromText(item, text, said)
  BY <1>5 DEF RssNormalizer, FallbackNormalizer, VendorAdvisoryNormalizer
<1> QED
  BY <1>1, <1>2, <1>3, <1>4, <1>5 DEF Normalize

(* Two reports with one CVE number, or with none and one page, get the same *)
(* key, whatever the items say, which normalizers take them and what the    *)
(* patterns find; only recalls without a number are known by their campaign *)
(* instead (dedup_key, base_record, the normalizers).                       *)
THEOREM OneKeyPerSubject ==
    ASSUME NEW item, NEW n, n = Normalize(item), n # NormalizationError,
           NEW other, NEW m, m = Normalize(other), m # NormalizationError,
           SameSubject(n, m),
           n.cve = None => /\ CanonicalUrl(n.url) # None
                           /\ n.type # "incident" /\ m.type # "incident"
    PROVE  n.key = m.key
<1>1. CASE n.cve # None \/ m.cve # None
  <2>1. n.cve = m.cve /\ n.cve # None
    BY <1>1 DEF SameSubject
  <2>2. n.key = <<"cve", n.cve>> /\ m.key = <<"cve", m.cve>>
    BY <2>1, NormalizeFacts DEF KeyedBySubject, DedupKey
  <2>3. QED
    BY <2>1, <2>2
<1>2. CASE n.cve = None /\ m.cve = None
  <2>1. n.url = m.url
    BY <1>2 DEF SameSubject
  <2>2. n.key = <<"url", CanonicalUrl(n.url)>> /\ m.key = <<"url", CanonicalUrl(m.url)>>
    BY <1>2, <2>1, NormalizeFacts DEF KeyedBySubject, DedupKey
  <2>3. QED
    BY <2>1, <2>2
<1>3. QED
  BY <1>1, <1>2

LEMMA SubjectsOfTheCatalogue ==
    ASSUME NEW p \in Accepted, NEW q \in Accepted, SameSubject(p[2], q[2])
    PROVE  p[2].key = q[2].key
<1>1. /\ \E item : p[2] = Normalize(item)
      /\ \E item : q[2] = Normalize(item)
      /\ p[2] # NormalizationError /\ q[2] # NormalizationError
  BY DEF Accepted, Catalogue
<1>2. CASE p[2].cve # None
  BY <1>1, <1>2, OneKeyPerSubject
<1>3. CASE p[2].cve = None
  <2>1. q[2].cve = None /\ p[2].url = q[2].url
    BY <1>3 DEF SameSubject
  <2>2. CASE p[2].type = "incident" \/ q[2].type = "incident"
    BY <1>3, <2>1, <2>2, PagesAssumption
  <2>3. CASE p[2].type # "incident" /\ q[2].type # "incident"
    <3>1. CanonicalUrl(p[2].url) # None
      BY <1>3, <2>1, PagesAssumption
    <3>2. QED
      BY <1>1, <1>3, <2>3, <3>1, OneKeyPerSubject
  <2>4. QED
    BY <2>2, <2>3
<1>4. QED
  BY <1>2, <1>3

(* With one worker at a time reports of one subject are one row, from the   *)
(* spelling of a number or a page to the links of the core table.           *)
THEOREM OneRowPerSubject == MCSpec => []AloneOneRowPerSubject
<1>1. AloneInv => AloneOneRowPerSubject
  <2> SUFFICES ASSUME AloneInv, Alone,
                      NEW n \in NormalizedNow, NEW m \in NormalizedNow, SameSubject(n, m)
               PROVE  \E k \in Keys : links[k][n.url] # NoRaw /\ links[k][m.url] # NoRaw
    BY DEF AloneOneRowPerSubject
  <2>1. ASSUME NEW r \in NormalizedNow
        PROVE  \E p \in Accepted :
                  r = p[2] /\ r.key \in Keys /\ links[r.key][r.url] # NoRaw
    <3>1. PICK p \in Accepted : /\ r = p[2] /\ raw[p[1][1]].status = "normalized"
                               /\ raw[p[1][1]].content = p[1][2]
      BY <2>1 DEF NormalizedNow
    <3>2. PICK i \in Raws, c \in Contents : p[1] = <<i, c>>
      BY CatalogueAssumption
    <3>3. PICK t : t = NormalOf(i, c)
      OBVIOUS
    <3>4. t.key = r.key /\ t.url = r.url
      BY <3>1, <3>2, <3>3, CatalogueAssumption DEF NormalOf
    <3>5. t # Rejected /\ links[t.key][t.url] # NoRaw
      <4>1. raw[i].status = "normalized" /\ raw[i].content = c
        BY <3>1, <3>2
      <4>2. NormalizedIsCurrent /\ NormalizedIsLinked
        BY DEF AloneInv, SerialInv
      <4>3. QED
        BY <3>3, <4>1, <4>2 DEF NormalizedIsCurrent, NormalizedIsLinked, NormalOf
    <3>6. t.key \in Keys
      BY <3>2, <3>3, <3>5, ReportFacts DEF NormalOf
    <3>7. QED
      BY <3>1, <3>4, <3>5, <3>6
  <2>2. n.key = m.key
    BY <2>1, SubjectsOfTheCatalogue
  <2>3. QED
    BY <2>1, <2>2
<1>2. QED
  BY <1>1, AloneInvariance, PTL
=============================================================================
