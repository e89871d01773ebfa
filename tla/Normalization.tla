---------------------------- MODULE Normalization ----------------------------
(****************************************************************************)
(* The normalization stage of the worker: NormalizationService in           *)
(* src/worker/sentineldrive_worker/normalization/service.py, run by several *)
(* worker processes over one PostgreSQL database (READ COMMITTED), next to  *)
(* the collection stage that feeds it.                                      *)
(*                                                                          *)
(* A worker reads a batch of raw rows in one session, closes it, and then   *)
(* normalizes the rows it REMEMBERS one by one, each in a transaction:      *)
(*   Claim      UPDATE raw SET processing_status='processing' (row lock)    *)
(*   ReadRow    SELECT the core row with the deduplication key              *)
(*   Insert / Update / InsertConflict                                       *)
(*              write the core row, upsert its source link, mark the raw    *)
(*              row normalized, COMMIT -- or be refused by the unique       *)
(*              constraint on dedup_key and roll back                       *)
(*   MarkFailed a second transaction after a rollback.                      *)
(* The writes of one transaction are one step: they become visible together *)
(* at COMMIT, and the lock of the core row serialises them with those of    *)
(* another worker on the same key.  'processing' is never committed.        *)
(****************************************************************************)
EXTENDS Naturals, Sequences, FiniteSets

CONSTANTS
    Workers,         \* worker processes (celery children, process-once)
    Raws,            \* raw_intelligence rows
    Contents,        \* what a collected item may say
    Keys,            \* deduplication keys
    Names,           \* source names
    SourceOf,        \* [Raws -> Names]: raw_intelligence.source_name
    Urls,            \* source URLs
    Details,         \* values of a conservatively merged field, e.g. cvss_score
    Normalized,      \* [Raws \X Contents -> normalized record or Rejected]
    Rejected,        \* the normalizer raises NormalizationError
    Unset,           \* an empty structured field (is_empty)
    NoRow, NoRaw,    \* no such row
    BatchLimit,      \* the limit of pending_raw_query
    MaxCollections,  \* bound on collection transactions
    MaxCrashes,      \* bound on worker crashes
    MaxDbErrors      \* bound on transient database errors

Severity == 0 .. 4   \* unknown, low, medium, high, critical

Record == [key : Keys, name : Names, url : Urls, raw : Raws,
           severity : Severity, detail : Details \cup {Unset}]

ASSUME NormalizedAssumption ==
    /\ Normalized \in [Raws \X Contents -> Record \cup {Rejected}]
    /\ Rejected \notin Record
    /\ SourceOf \in [Raws -> Names]
    /\ Contents # {}
    /\ \A r \in Raws, c \in Contents :
          Normalized[<<r, c>>] # Rejected =>
              Normalized[<<r, c>>].raw = r /\ Normalized[<<r, c>>].name = SourceOf[r]

Row == [origin : Raws, names : SUBSET Names,
        severity : Severity, detail : Details \cup {Unset}]

ASSUME SentinelAssumption == /\ NoRow \notin Row
                             /\ NoRaw \notin Raws
                             /\ Unset \notin Details

ASSUME BoundAssumption == /\ BatchLimit \in Nat \ {0}
                          /\ MaxCollections \in Nat
                          /\ MaxCrashes \in Nat
                          /\ MaxDbErrors \in Nat

VARIABLES
    raw,          \* [Raws -> [status, content, created]]
    rows,         \* threat_intelligence, by dedup_key
    links,        \* threat_intelligence_sources, by key and URL: the raw it cites
    pc,           \* where each worker is
    batch,        \* raw rows a worker remembers and has still to normalize
    copy,         \* the core row a worker has read in its open transaction
    collections,  \* collection transactions so far
    crashes, dbErrors

database == <<raw, rows, links>>
process  == <<pc, batch, copy>>
budget   == <<collections, crashes, dbErrors>>
vars     == <<raw, rows, links, pc, batch, copy, collections, crashes, dbErrors>>

Status == {"absent", "collected", "normalized", "failed"}
Item   == [raw : Raws, content : Contents]

TypeOK ==
    /\ raw \in [Raws -> [status : Status, content : Contents, created : Nat]]
    /\ rows \in [Keys -> Row \cup {NoRow}]
    /\ links \in [Keys -> [Urls -> Raws \cup {NoRaw}]]
    /\ pc \in [Workers -> {"idle", "batch", "claimed", "merging", "failing"}]
    /\ batch \in [Workers -> Seq(Item)]
    /\ copy \in [Workers -> Row \cup {NoRow}]
    /\ \A w \in Workers : pc[w] = "idle" <=> batch[w] = << >>
    /\ <<collections, crashes, dbErrors>> \in Nat \X Nat \X Nat

NotCollected == [status |-> "absent", content |-> CHOOSE c \in Contents : TRUE, created |-> 0]

Init ==
    /\ raw = [r \in Raws |-> NotCollected]
    /\ rows = [k \in Keys |-> NoRow]
    /\ links = [k \in Keys |-> [u \in Urls |-> NoRaw]]
    /\ pc = [w \in Workers |-> "idle"]
    /\ batch = [w \in Workers |-> << >>]
    /\ copy = [w \in Workers |-> NoRow]
    /\ collections = 0 /\ crashes = 0 /\ dbErrors = 0

-----------------------------------------------------------------------------
(* The raw rows whose lock is held by an open normalization transaction. *)
Locked == {batch[w][1].raw : w \in {v \in Workers : pc[v] \in {"claimed", "merging"}}}

(* The normalized record of the row a worker is at: it is computed from the *)
(* remembered content, not from what the raw row says now.                  *)
Incoming(w) == Normalized[<<batch[w][1].raw, batch[w][1].content>>]

Pending == {r \in Raws : raw[r].status = "collected"}

(* pending_raw_query: newest first, at most BatchLimit.  Rows of one        *)
(* collection share created_at; fetched_at, which orders them, is left open.*)
IsBatch(q) ==
    /\ Len(q) = IF Cardinality(Pending) < BatchLimit
                THEN Cardinality(Pending) ELSE BatchLimit
    /\ \A i, j \in 1 .. Len(q) :
          i < j => /\ q[i] # q[j]
                   /\ raw[q[i]].created >= raw[q[j]].created
    /\ \A r \in Pending : \A i \in 1 .. Len(q) :
          raw[r].created > raw[q[i]].created => \E j \in 1 .. Len(q) : q[j] = r

Batches == {q \in UNION {[1 .. n -> Pending] : n \in 1 .. BatchLimit} : IsBatch(q)}

NewRow(n) == [origin |-> n.raw, names |-> {n.name},
              severity |-> n.severity, detail |-> n.detail]

(* Mutants of Merged: the last name replaces the list; an empty structured  *)
(* field overwrites.                                                        *)
MergedLastName(current, read, n) ==
    [current EXCEPT !.names = {n.name}, !.detail = IF @ = Unset THEN n.detail ELSE @]
MergedLastDetail(current, read, n) ==
    [current EXCEPT !.names = read.names \cup {n.name},
                    !.severity = IF n.severity > read.severity THEN n.severity ELSE @,
                    !.detail = n.detail]

(* merge_normalized computes the columns to write from the row it has read; *)
(* the UPDATE then writes those columns, and only those, over the row as it *)
(* is by then.                                                              *)
Merged(current, read, n) ==
    [current EXCEPT
        !.names    = read.names \cup {n.name},
        !.severity = IF n.severity > read.severity THEN n.severity ELSE @,
        !.detail   = IF read.detail = Unset /\ n.detail # Unset THEN n.detail ELSE @]

(* Mutant of Advance: the worker never notices that its batch is used up. *)
AdvanceForever(w) ==
    /\ batch' = [batch EXCEPT ![w] = Tail(@)]
    /\ pc' = [pc EXCEPT ![w] = "batch"]
    /\ copy' = [copy EXCEPT ![w] = NoRow]

(* On to the next remembered row, in a new session. *)
Advance(w) ==
    /\ batch' = [batch EXCEPT ![w] = Tail(@)]
    /\ pc' = [pc EXCEPT ![w] = IF Len(batch[w]) = 1 THEN "idle" ELSE "batch"]
    /\ copy' = [copy EXCEPT ![w] = NoRow]

(* The transaction is rolled back: nothing it wrote is visible. *)
RollBack(w) ==
    /\ pc' = [pc EXCEPT ![w] = "failing"]
    /\ copy' = [copy EXCEPT ![w] = NoRow]

(* Mutant of Attribute: the raw row is done but no link is written. *)
AttributeNobody(w) ==
    /\ raw' = [raw EXCEPT ![Incoming(w).raw].status = "normalized"]
    /\ Advance(w)
    /\ UNCHANGED links

(* The rest of a successful transaction: the source link and the raw row. *)
Attribute(w) ==
    LET n == Incoming(w) IN
    /\ links' = [links EXCEPT ![n.key][n.url] = n.raw]
    /\ raw' = [raw EXCEPT ![n.raw].status = "normalized"]
    /\ Advance(w)

-----------------------------------------------------------------------------
(* Mutant of Collect: an item that is already stored keeps its status. *)
CollectKeepsStatus(w) ==
    /\ pc[w] = "idle"
    /\ collections < MaxCollections
    /\ collections' = collections + 1
    /\ \E r \in Raws \ Locked, c \in Contents :
          raw' = [raw EXCEPT ![r] =
                    [status |-> IF @.status = "absent" THEN "collected" ELSE @.status,
                     content |-> c,
                     created |-> IF @.status = "absent" THEN collections' ELSE @.created]]
    /\ UNCHANGED <<rows, links, pc, batch, copy, crashes, dbErrors>>

(* The collection stage persists the items of one source in a transaction.  *)
(* An item that is already stored is overwritten and goes back to           *)
(* 'collected' whatever it says.                                            *)
Collect(w) ==
    /\ pc[w] = "idle"
    /\ collections < MaxCollections
    /\ collections' = collections + 1
    /\ \E s \in Names :
       \E items \in SUBSET {r \in Raws \ Locked : SourceOf[r] = s} \ {{}} :
       \E said \in [items -> Contents] :
          raw' = [r \in Raws |->
                    IF r \notin items THEN raw[r]
                    ELSE [status |-> "collected", content |-> said[r],
                          created |-> IF raw[r].status = "absent"
                                      THEN collections' ELSE raw[r].created]]
    /\ UNCHANGED <<rows, links, pc, batch, copy, crashes, dbErrors>>

(* normalize_pending reads its batch and closes the session. *)
Snapshot(w) ==
    /\ pc[w] = "idle"
    /\ \E q \in Batches :
          batch' = [batch EXCEPT ![w] =
                      [i \in 1 .. Len(q) |-> [raw |-> q[i], content |-> raw[q[i]].content]]]
    /\ pc' = [pc EXCEPT ![w] = "batch"]
    /\ UNCHANGED <<raw, rows, links, copy, collections, crashes, dbErrors>>

(* There is nothing to normalize. *)
EmptyBatch(w) ==
    /\ pc[w] = "idle"
    /\ Pending = {}
    /\ UNCHANGED vars

(* Take the raw row's lock, waiting for another transaction that holds it,  *)
(* and run the normalizer.                                                  *)
Claim(w) ==
    /\ pc[w] = "batch"
    /\ batch[w][1].raw \notin Locked
    /\ pc' = [pc EXCEPT ![w] = IF Incoming(w) = Rejected THEN "failing" ELSE "claimed"]
    /\ UNCHANGED <<raw, rows, links, batch, copy, collections, crashes, dbErrors>>

(* Mutant of ReadRow: the lookup misses the row that is there. *)
ReadRowMisses(w) ==
    /\ pc[w] = "claimed"
    /\ copy' = [copy EXCEPT ![w] = NoRow]
    /\ pc' = [pc EXCEPT ![w] = "merging"]
    /\ UNCHANGED <<raw, rows, links, batch, collections, crashes, dbErrors>>

(* SELECT the core row with the deduplication key of the incoming record. *)
ReadRow(w) ==
    /\ pc[w] = "claimed"
    /\ copy' = [copy EXCEPT ![w] = rows[Incoming(w).key]]
    /\ pc' = [pc EXCEPT ![w] = "merging"]
    /\ UNCHANGED <<raw, rows, links, batch, collections, crashes, dbErrors>>

Insert(w) ==
    LET n == Incoming(w) IN
    /\ pc[w] = "merging"
    /\ copy[w] = NoRow
    /\ rows[n.key] = NoRow
    /\ rows' = [rows EXCEPT ![n.key] = NewRow(n)]
    /\ Attribute(w)
    /\ UNCHANGED budget

(* Another worker has inserted the key since: IntegrityError. *)
InsertConflict(w) ==
    /\ pc[w] = "merging"
    /\ copy[w] = NoRow
    /\ rows[Incoming(w).key] # NoRow
    /\ RollBack(w)
    /\ UNCHANGED <<raw, rows, links, batch, collections, crashes, dbErrors>>

Update(w) ==
    LET n == Incoming(w) IN
    /\ pc[w] = "merging"
    /\ copy[w] # NoRow
    /\ rows' = [rows EXCEPT ![n.key] = Merged(@, copy[w], n)]
    /\ Attribute(w)
    /\ UNCHANGED budget

(* Mutant of MarkFailed: the raw row stays in the queue. *)
MarkFailedForgets(w) ==
    /\ pc[w] = "failing"
    /\ batch[w][1].raw \notin Locked
    /\ Advance(w)
    /\ UNCHANGED <<raw, rows, links, collections, crashes, dbErrors>>

(* mark_failed: a transaction of its own, after the rollback. *)
MarkFailed(w) ==
    /\ pc[w] = "failing"
    /\ batch[w][1].raw \notin Locked
    /\ raw' = [raw EXCEPT ![batch[w][1].raw].status = "failed"]
    /\ Advance(w)
    /\ UNCHANGED <<rows, links, collections, crashes, dbErrors>>

(* A transient database error: the row's transaction rolls back; in         *)
(* mark_failed it is swallowed and the raw row keeps its status.            *)
DbError(w) ==
    /\ dbErrors < MaxDbErrors
    /\ dbErrors' = dbErrors + 1
    /\ \/ pc[w] \in {"claimed", "merging"} /\ RollBack(w) /\ UNCHANGED batch
       \/ pc[w] = "failing" /\ Advance(w)
    /\ UNCHANGED <<raw, rows, links, collections, crashes>>

(* The process dies; the database rolls its transaction back, and the       *)
(* container is restarted with nothing remembered.                          *)
Crash(w) ==
    /\ pc[w] # "idle"
    /\ crashes < MaxCrashes
    /\ crashes' = crashes + 1
    /\ pc' = [pc EXCEPT ![w] = "idle"]
    /\ batch' = [batch EXCEPT ![w] = << >>]
    /\ copy' = [copy EXCEPT ![w] = NoRow]
    /\ UNCHANGED <<raw, rows, links, collections, dbErrors>>

Transaction(w) ==
    \/ Claim(w) \/ ReadRow(w) \/ Insert(w) \/ InsertConflict(w) \/ Update(w)
    \/ MarkFailed(w)

Next == \E w \in Workers :
    Collect(w) \/ Snapshot(w) \/ EmptyBatch(w) \/ Transaction(w) \/ DbError(w) \/ Crash(w)

Spec == Init /\ [][Next]_vars

(* The beat scheduler keeps starting pipelines, and a worker with work to   *)
(* do goes on with it; nothing forces a collection, an error or a crash.    *)
Fairness == \A w \in Workers : WF_vars(Snapshot(w)) /\ WF_vars(Transaction(w))

FairSpec == Spec /\ Fairness
-----------------------------------------------------------------------------
(* What holds for any number of workers.                                    *)

(* A raw row is marked normalized only together with a core row that cites  *)
(* the URL of something it said: no interleaving, error or crash leaves a   *)
(* row done with nothing to show for it (normalize_raw_row).                *)
NormalizedIsAttributed ==
    \A r \in Raws : raw[r].status = "normalized" =>
        \E c \in Contents : LET n == Normalized[<<r, c>>] IN
            /\ n # Rejected
            /\ rows[n.key] # NoRow
            /\ links[n.key][n.url] # NoRaw

(* A core row and its source links are born together: there is never a row  *)
(* nobody is credited for, nor a link to a row that does not exist          *)
(* (upsert_normalized_record, upsert_source_attribution).                   *)
RowsAreCited ==
    \A k \in Keys : rows[k] # NoRow <=> \E u \in Urls : links[k][u] # NoRaw

(* Two transactions never work on the same raw row, though two batches may  *)
(* both hold it (the UPDATE that opens normalize_raw_row).                  *)
OneTransactionPerRaw ==
    \A v, w \in Workers :
        /\ {pc[v], pc[w]} \subseteq {"claimed", "merging"}
        /\ batch[v][1].raw = batch[w][1].raw
        => v = w

(* The row "row" of key k still names the source that created it, and is at *)
(* least as severe as a report which that raw row makes for k.              *)
KeepsOrigin(k, row) ==
    /\ SourceOf[row.origin] \in row.names
    /\ \E c \in Contents : LET n == Normalized[<<row.origin, c>>] IN
          n # Rejected /\ n.key = k /\ row.severity >= n.severity

(* However merges race, a core row never forgets the source that created it *)
(* and never becomes milder than that source's report (merge_normalized).   *)
OriginIsKept == \A k \in Keys : rows[k] # NoRow => KeepsOrigin(k, rows[k])

(* A step never removes a core row, changes the raw row it was created from *)
(* or empties a structured field: an empty fallback value does not          *)
(* overwrite structured data, even when it was computed from an old read.   *)
NothingIsEmptied ==
    [][\A k \in Keys : rows[k] # NoRow =>
          /\ rows'[k] # NoRow
          /\ rows'[k].origin = rows[k].origin
          /\ rows[k].detail # Unset => rows'[k].detail # Unset]_vars

(* When collections, errors and crashes have stopped, every raw row is      *)
(* eventually done with, whatever the batch limit: newest-first batches     *)
(* starve a row only for as long as newer ones keep coming.                 *)
EveryRawSettles == <>[](Pending = {} /\ \A w \in Workers : pc[w] = "idle")

-----------------------------------------------------------------------------
(* What holds when one worker process at a time is running.                 *)

(* Every source a core row is linked to is in its source_names: merging     *)
(* keeps all names (docs/connectors.md).                                    *)
SourcesAreComplete ==
    \A k \in Keys, u \in Urls :
        links[k][u] # NoRaw => SourceOf[links[k][u]] \in rows[k].names

(* A raw row marked normalized is reflected as it stands NOW: its present   *)
(* content, not an older one, has reached the core row of its key.          *)
NormalizedIsCurrent ==
    \A r \in Raws : raw[r].status = "normalized" =>
        LET n == Normalized[<<r, raw[r].content>>] IN
            /\ n # Rejected
            /\ rows[n.key] # NoRow
            /\ n.name \in rows[n.key].names
            /\ rows[n.key].severity >= n.severity

(* Without database errors, only what the normalizer rejects is failed.     *)
OnlyRejectedFail ==
    \A r \in Raws : raw[r].status = "failed" /\ dbErrors = 0 =>
        Normalized[<<r, raw[r].content>>] = Rejected

(* The table behaves as the store its readers expect.                       *)
Store == INSTANCE IntelligenceStore
           WITH Reports <- {Normalized[x] : x \in Raws \X Contents} \ {Rejected}

RefinesStore == Store!Spec
=============================================================================
