----------------------------- MODULE Collection -----------------------------
(****************************************************************************)
(* The collection stage: run_and_persist_enabled_sources in                 *)
(* src/worker/sentineldrive_worker/persistence/service.py, run by several   *)
(* worker processes, and the status route of the API that writes the same   *)
(* sources rows.                                                            *)
(*                                                                          *)
(* A run first fetches EVERY configured source and holds the records in     *)
(* memory, then persists them one by one, each in a transaction:            *)
(*   LookUp     SELECT the sources row by name                              *)
(*   Persist    write the source, its sync state, its raw rows and a job    *)
(*              log, COMMIT.  For a source that exists the first write      *)
(*              takes the lock of its row, so that two transactions on one  *)
(*              source exclude each other and everything that is read after *)
(*              it is current.                                              *)
(*   Conflict   the source did not exist at LookUp and does now: the unique *)
(*              constraint on its name refuses the INSERT and the           *)
(*              transaction rolls back.                                     *)
(* How one source is fetched (retries, timeouts) is abstracted to its       *)
(* record: success, failed, or skipped for one of two reasons.              *)
(****************************************************************************)
EXTENDS Naturals, Sequences, FiniteSets

CONSTANTS
    Workers,       \* worker processes
    Order,         \* the configured sources, in order
    Items,         \* items the sources publish
    ItemsOf,       \* [source -> its items]
    Enabled,       \* sources enabled in the environment
    Registered,    \* sources whose connector is registered
    NoSource,      \* no sources row with this name
    NoCursor,      \* the cursor is None
    MaxRuns, MaxPublishes, MaxErrors, MaxPatches   \* bounds

Sources == {Order[i] : i \in 1 .. Len(Order)}

ASSUME ConfigurationAssumption ==
    /\ Order \in Seq(Sources) /\ Order # << >>
    /\ \A i, j \in 1 .. Len(Order) : Order[i] = Order[j] => i = j
    /\ ItemsOf \in [Sources -> SUBSET Items]
    /\ \A s, t \in Sources : s # t => ItemsOf[s] \cap ItemsOf[t] = {}
    /\ Enabled \cup Registered \subseteq Sources

Kind    == {"success", "failed", "disabled", "unregistered"}
Status  == {"enabled", "disabled", "error"}
Cursors == Nat \cup {NoCursor}
Record  == [source : Sources, kind : Kind, items : [Items -> Nat], cursor : Cursors]
Log     == [kind : Kind, created : SUBSET Items, cursor : Cursors]
Source  == [status : Status, message : BOOLEAN,
            cursor : Cursors, failures : Nat, log : Seq(Log)]

ASSUME SentinelAssumption == NoCursor \notin Nat /\ NoSource \notin Source

ASSUME BoundAssumption == {MaxRuns, MaxPublishes, MaxErrors, MaxPatches} \subseteq Nat

VARIABLES
    world,     \* the present version of each item, 0 before it is published
    db,        \* sources, with sync_states and job_logs, by name
    raws,      \* raw_intelligence: the version stored of each item, 0 for none
    pc,        \* where each worker is
    records,   \* what a worker has fetched and has still to persist
    seen,      \* whether the open transaction has found the sources row
    stopped,   \* history: sources an operator has disabled and not enabled again
    overlap,   \* history: whether two runs have been under way at once
    runs, publishes, errors, patches

database == <<db, raws>>
process  == <<pc, records, seen>>
budget   == <<runs, publishes, errors, patches>>
vars == <<world, db, raws, pc, records, seen, stopped, overlap,
          runs, publishes, errors, patches>>

TypeOK ==
    /\ world \in [Items -> Nat]
    /\ db \in [Sources -> Source \cup {NoSource}]
    /\ raws \in [Items -> Nat]
    /\ pc \in [Workers -> {"idle", "fetching", "persisting", "writing"}]
    /\ records \in [Workers -> Seq(Record)]
    /\ seen \in [Workers -> BOOLEAN]
    /\ stopped \subseteq Sources
    /\ overlap \in BOOLEAN
    /\ <<runs, publishes, errors, patches>> \in Nat \X Nat \X Nat \X Nat
    /\ \A w \in Workers : pc[w] = "idle" => records[w] = << >>
    /\ \A w \in Workers : pc[w] = "fetching" => Len(records[w]) < Len(Order)
    /\ \A w \in Workers : pc[w] \in {"persisting", "writing"} => records[w] # << >>

Init ==
    /\ world = [i \in Items |-> 0]
    /\ db = [s \in Sources |-> NoSource]
    /\ raws = [i \in Items |-> 0]
    /\ pc = [w \in Workers |-> "idle"]
    /\ records = [w \in Workers |-> << >>]
    /\ seen = [w \in Workers |-> FALSE]
    /\ stopped = {}
    /\ overlap = FALSE
    /\ runs = 0 /\ publishes = 0 /\ errors = 0 /\ patches = 0

-----------------------------------------------------------------------------
NewSource == [status |-> "enabled", message |-> FALSE,
              cursor |-> NoCursor, failures |-> 0, log |-> << >>]

(* The items a record brings. *)
Brought(r) == {i \in ItemsOf[r.source] : r.kind = "success" /\ r.items[i] # 0}

(* ensure_source and update_source_status *)
StatusAfter(r) ==
    CASE r.kind = "failed" -> "error"
      [] r.kind = "disabled" -> "disabled"
      [] OTHER -> "enabled"

(* Mutant of FailuresAfter: a successful run does not end the streak. *)
FailuresAfterSticky(failures, r) == IF r.kind = "failed" THEN failures + 1 ELSE failures

(* Mutant of CursorAfter: a failed run clears the cursor. *)
CursorAfterAny(cursor, r) == IF r.kind = "unregistered" THEN cursor ELSE r.cursor

(* update_sync_state *)
FailuresAfter(failures, r) ==
    CASE r.kind = "success" -> 0
      [] r.kind = "failed" -> failures + 1
      [] OTHER -> failures

CursorAfter(cursor, r) ==
    IF r.kind = "success" /\ r.cursor # NoCursor THEN r.cursor ELSE cursor

(* Mutant of Created: an item whose content has changed counts as new. *)
CreatedOrChanged(r) == {i \in Brought(r) : raws[i] # r.items[i]}

(* The items that upsert_raw_record inserts; it updates the others. *)
Created(r) == {i \in Brought(r) : raws[i] = 0}

(* persist_source_run: everything it writes for a source. *)
After(source, r) ==
    [status   |-> StatusAfter(r),
     message  |-> CASE r.kind = "success" -> FALSE
                    [] r.kind = "failed" -> TRUE
                    [] OTHER -> source.message,
     cursor   |-> CursorAfter(source.cursor, r),
     failures |-> FailuresAfter(source.failures, r),
     log      |-> Append(source.log,
                    [kind |-> r.kind, created |-> Created(r), cursor |-> r.cursor])]

(* Mutant of NextRecord: the worker never gets to the end of its records.   *)
NextRecordForever(w) ==
    /\ records' = [records EXCEPT ![w] = Tail(@)]
    /\ pc' = [pc EXCEPT ![w] = "persisting"]
    /\ seen' = [seen EXCEPT ![w] = FALSE]

(* The worker is done with its first record and goes on to the next. *)
NextRecord(w) ==
    /\ records' = [records EXCEPT ![w] = Tail(@)]
    /\ pc' = [pc EXCEPT ![w] = IF Len(records[w]) = 1 THEN "idle" ELSE "persisting"]
    /\ seen' = [seen EXCEPT ![w] = FALSE]

-----------------------------------------------------------------------------
(* A source publishes an item or a new version of one. *)
Publish(i) ==
    /\ publishes < MaxPublishes
    /\ publishes' = publishes + 1
    /\ world' = [world EXCEPT ![i] = publishes']
    /\ UNCHANGED <<database, process, stopped, overlap, runs, errors, patches>>

StartRun(w) ==
    /\ pc[w] = "idle"
    /\ runs < MaxRuns
    /\ runs' = runs + 1
    /\ pc' = [pc EXCEPT ![w] = "fetching"]
    /\ overlap' = (overlap \/ \E v \in Workers : pc[v] # "idle")
    /\ UNCHANGED <<world, database, records, seen, stopped, publishes, errors, patches>>

(* What a run may record about a source: the environment alone decides      *)
(* whether it is skipped.  A connector fails, or succeeds with some of the  *)
(* items that are published: feeds it could not read and items it could not *)
(* parse are left out.  Its cursor is none, the present (a window of time   *)
(* that ends now) or the latest of the items it has brought.  It starts     *)
(* from the configured cursor, and nothing relates the new one to the one   *)
(* that is stored.                                                          *)
Outcomes(s) ==
    LET published == {i \in ItemsOf[s] : world[i] # 0}
        record(kind, brought, cursor) ==
            [source |-> s, kind |-> kind, cursor |-> cursor,
             items |-> [i \in Items |-> IF i \in brought THEN world[i] ELSE 0]]
        cursors(brought) ==
            {NoCursor, publishes} \cup
            {world[i] : i \in {j \in brought : \A k \in brought : world[k] <= world[j]}}
    IN  IF s \notin Enabled THEN {record("disabled", {}, NoCursor)}
        ELSE IF s \notin Registered THEN {record("unregistered", {}, NoCursor)}
        ELSE {record("failed", {}, NoCursor)} \cup
             UNION {{record("success", brought, cursor) : cursor \in cursors(brought)} :
                    brought \in SUBSET published}

(* run_enabled_sources: the next source in order. *)
Fetch(w) ==
    LET s == Order[Len(records[w]) + 1] IN
    /\ pc[w] = "fetching"
    /\ \E r \in Outcomes(s) : records' = [records EXCEPT ![w] = Append(@, r)]
    /\ pc' = [pc EXCEPT ![w] = IF Len(records'[w]) = Len(Order)
                               THEN "persisting" ELSE "fetching"]
    /\ UNCHANGED <<world, database, seen, stopped, overlap, budget>>

LookUp(w) ==
    /\ pc[w] = "persisting"
    /\ seen' = [seen EXCEPT ![w] = db[records[w][1].source] # NoSource]
    /\ pc' = [pc EXCEPT ![w] = "writing"]
    /\ UNCHANGED <<world, database, records, stopped, overlap, budget>>

(* Mutant of Persist: the worker goes on with the row as it saw it.         *)
PersistAnyway(w) ==
    LET r == records[w][1] IN
    /\ pc[w] = "writing"
    /\ db' = [db EXCEPT ![r.source] = After(IF seen[w] THEN @ ELSE NewSource, r)]
    /\ raws' = [i \in Items |-> IF i \in Brought(r) THEN r.items[i] ELSE raws[i]]
    /\ NextRecord(w)
    /\ UNCHANGED <<world, stopped, overlap, budget>>

(* Mutant of Persist: the raw rows of the source are replaced, not updated. *)
PersistReplaces(w) ==
    LET r == records[w][1] IN
    /\ pc[w] = "writing"
    /\ seen[w] <=> db[r.source] # NoSource
    /\ db' = [db EXCEPT ![r.source] = After(IF @ = NoSource THEN NewSource ELSE @, r)]
    /\ raws' = [i \in Items |-> IF i \in Brought(r) THEN r.items[i]
                                ELSE IF i \in ItemsOf[r.source] THEN 0 ELSE raws[i]]
    /\ NextRecord(w)
    /\ UNCHANGED <<world, stopped, overlap, budget>>

Persist(w) ==
    LET r == records[w][1] IN
    /\ pc[w] = "writing"
    /\ seen[w] <=> db[r.source] # NoSource
    /\ db' = [db EXCEPT ![r.source] = After(IF @ = NoSource THEN NewSource ELSE @, r)]
    /\ raws' = [i \in Items |-> IF i \in Brought(r) THEN r.items[i] ELSE raws[i]]
    /\ NextRecord(w)
    /\ UNCHANGED <<world, stopped, overlap, budget>>

(* Another worker has inserted the source: the record is lost, and only the *)
(* result of the task says so ("persistence_failed").                       *)
Conflict(w) ==
    /\ pc[w] = "writing"
    /\ ~ seen[w] /\ db[records[w][1].source] # NoSource
    /\ NextRecord(w)
    /\ UNCHANGED <<world, database, stopped, overlap, budget>>

(* A database error rolls the source's transaction back; the run goes on.   *)
DbError(w) ==
    /\ pc[w] = "writing"
    /\ errors < MaxErrors
    /\ errors' = errors + 1
    /\ NextRecord(w)
    /\ UNCHANGED <<world, database, stopped, overlap, runs, publishes, patches>>

(* The process dies with the records it holds. *)
Crash(w) ==
    /\ pc[w] # "idle"
    /\ errors < MaxErrors
    /\ errors' = errors + 1
    /\ pc' = [pc EXCEPT ![w] = "idle"]
    /\ records' = [records EXCEPT ![w] = << >>]
    /\ seen' = [seen EXCEPT ![w] = FALSE]
    /\ UNCHANGED <<world, database, stopped, overlap, runs, publishes, patches>>

(* PATCH /sources/{id}/status: an operator sets the status of a source. *)
PatchStatus(s) ==
    /\ db[s] # NoSource
    /\ patches < MaxPatches
    /\ patches' = patches + 1
    /\ \E status \in Status :
          /\ db' = [db EXCEPT ![s].status = status,
                              ![s].message = IF status = "error" THEN @ ELSE FALSE]
          /\ stopped' = IF status = "disabled" THEN stopped \cup {s} ELSE stopped \ {s}
    /\ UNCHANGED <<world, raws, process, overlap, runs, publishes, errors>>

Next ==
    \/ \E i \in Items : Publish(i)
    \/ \E s \in Sources : PatchStatus(s)
    \/ \E w \in Workers : \/ StartRun(w) \/ Fetch(w) \/ LookUp(w) \/ Persist(w)
                          \/ Conflict(w) \/ DbError(w) \/ Crash(w)

Spec == Init /\ [][Next]_vars
-----------------------------------------------------------------------------
(* What holds for any number of workers.                                    *)

(* The failed runs of a source since its last successful one.               *)
Streak(log) ==
    {i \in 1 .. Len(log) :
        log[i].kind = "failed" /\ \A j \in i .. Len(log) : log[j].kind # "success"}

(* The failure count of a source is the number of failed runs in its job    *)
(* log since the last successful one: concurrent runs, lost runs and        *)
(* crashes never lose or double an increment, and a skipped run does not    *)
(* end the streak (update_sync_state, insert_job_log).                      *)
FailuresMatchLog ==
    \A s \in Sources : db[s] # NoSource => db[s].failures = Cardinality(Streak(db[s].log))

(* The successful runs of a source that had a cursor.                       *)
Setters(log) ==
    {i \in 1 .. Len(log) : log[i].kind = "success" /\ log[i].cursor # NoCursor}

(* The cursor of a source is that of the last successful run in its log     *)
(* which had one: failed and skipped runs keep it (connectors.md).          *)
CursorMatchesLog ==
    \A s \in Sources : db[s] # NoSource =>
        LET log == db[s].log IN
        IF Setters(log) = {} THEN db[s].cursor = NoCursor
        ELSE \E i \in Setters(log) : /\ \A j \in Setters(log) : j <= i
                                     /\ db[s].cursor = log[i].cursor

(* The runs that count item i as created.                                   *)
Creators(log, i) == {n \in 1 .. Len(log) : i \in log[n].created}

(* Every raw row of a source is counted as created by exactly one run in    *)
(* its job log, and what a log counts is there: the raw rows, the log and   *)
(* the counts are committed together or not at all (persist_source_run).    *)
CreatedOnce ==
    \A s \in Sources : \A i \in ItemsOf[s] :
        IF db[s] = NoSource THEN raws[i] = 0
        ELSE /\ raws[i] # 0 <=> Creators(db[s].log, i) # {}
             /\ \A m, n \in Creators(db[s].log, i) : m = n

-----------------------------------------------------------------------------
(* As long as runs do not overlap, no raw row is overwritten with an older  *)
(* version of its item than the one it holds, whatever feeds a run leaves   *)
(* out, loses or dies with (upsert_raw_record compares nothing).  When runs *)
(* overlap, an older one that is persisted after a newer one does overwrite *)
(* it.                                                                      *)
RawNeverGoesBack == [][\A i \in Items : overlap \/ raws'[i] >= raws[i]]_vars

(* A source that an operator has disabled is not collected until it is      *)
(* enabled again (the confirmation text of the sources page).               *)
DisabledIsNotCollected ==
    [][\A w \in Workers : LET n == Len(records[w]) + 1 IN
          Fetch(w) /\ Order[n] \in stopped => records'[w][n].kind # "success"]_vars
=============================================================================
