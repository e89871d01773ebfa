-------------------------- MODULE CollectionProofs --------------------------
(****************************************************************************)
(* Proofs about Collection, for any workers, sources and items.  Persist is *)
(* the only action that writes a job log, a cursor, a failure count or a    *)
(* raw row; its new values are stated once, in PersistFacts, and each       *)
(* invariant of its log is then a matter of what Append does to it.  What   *)
(* holds only while runs do not overlap rests on the age of what a run      *)
(* holds in memory (AgeInv).                                                *)
(****************************************************************************)
EXTENDS Collection, TLAPS, SequenceTheorems, FiniteSetTheorems

(* Sequences of records: what Tail and Append keep of a log's entries.      *)
LEMMA AppendFacts ==
    ASSUME NEW S, NEW log \in Seq(S), NEW e \in S
    PROVE  /\ Append(log, e) \in Seq(S)
           /\ Len(Append(log, e)) = Len(log) + 1
           /\ Len(log) \in Nat
           /\ \A i \in 1 .. Len(log) : Append(log, e)[i] = log[i]
           /\ Append(log, e)[Len(log) + 1] = e
    OBVIOUS

LEMMA CursorAfterType ==
    ASSUME NEW r \in Record, NEW cursor \in Cursors
    PROVE  CursorAfter(cursor, r) \in Cursors
    BY DEF CursorAfter, Record

LEMMA FailuresAfterType ==
    ASSUME NEW r \in Record, NEW failures \in Nat
    PROVE  FailuresAfter(failures, r) \in Nat
    BY DEF FailuresAfter, Record, Kind

LEMMA StatusAfterType ==
    ASSUME NEW r \in Record
    PROVE  StatusAfter(r) \in Status
    BY DEF StatusAfter, Record, Kind, Status

(* What one run writes for a source is a well-formed source.                *)
LEMMA AfterType ==
    ASSUME NEW r \in Record, NEW source \in Source
    PROVE  /\ After(source, r) \in Source
           /\ After(source, r).failures = FailuresAfter(source.failures, r)
           /\ After(source, r).cursor = CursorAfter(source.cursor, r)
           /\ \E e \in Log : /\ e.kind = r.kind /\ e.created = Created(r)
                             /\ e.cursor = r.cursor
                             /\ After(source, r).log = Append(source.log, e)
<1> DEFINE e == [kind |-> r.kind, created |-> Created(r), cursor |-> r.cursor]
<1>1. e \in Log
    BY ConfigurationAssumption DEF Log, Created, Brought, Record
<1>2. Append(source.log, e) \in Seq(Log)
    BY <1>1, AppendFacts DEF Source
<1> DEFINE m == CASE r.kind = "success" -> FALSE
                  [] r.kind = "failed" -> TRUE
                  [] OTHER -> source.message
<1>3. m \in BOOLEAN
    BY DEF Record, Kind, Source
<1>4. /\ StatusAfter(r) \in Status
      /\ CursorAfter(source.cursor, r) \in Cursors
      /\ FailuresAfter(source.failures, r) \in Nat
    BY CursorAfterType, FailuresAfterType, StatusAfterType DEF Source
<1>5. After(source, r) =
        [status |-> StatusAfter(r), message |-> m,
         cursor |-> CursorAfter(source.cursor, r),
         failures |-> FailuresAfter(source.failures, r),
         log |-> Append(source.log, e)]
    BY DEF After
<1> HIDE DEF e, m
<1>6. After(source, r) \in Source
    BY <1>2, <1>3, <1>4, <1>5 DEF Source
<1>7. e.kind = r.kind /\ e.created = Created(r) /\ e.cursor = r.cursor
    BY DEF e
<1> QED BY <1>1, <1>5, <1>6, <1>7

LEMMA NewSourceType == NewSource \in Source
    BY DEF NewSource, Source, Status, Cursors

-----------------------------------------------------------------------------
LEMMA InitType == Init => TypeOK
<1>1. Init => overlap \in BOOLEAN /\ seen \in [Workers -> BOOLEAN]
    BY Zenon DEF Init
<1> QED BY <1>1 DEF Init, TypeOK, Source

(* Going on to the next record keeps a worker well-formed.                  *)
LEMMA NextRecordType ==
    ASSUME TypeOK, NEW w \in Workers, pc[w] = "writing", NextRecord(w)
    PROVE  /\ records' \in [Workers -> Seq(Record)]
           /\ pc' \in [Workers -> {"idle", "fetching", "persisting", "writing"}]
           /\ seen' \in [Workers -> BOOLEAN]
           /\ \A v \in Workers : pc'[v] = "idle" => records'[v] = << >>
           /\ \A v \in Workers : pc'[v] = "fetching" => Len(records'[v]) < Len(Order)
           /\ \A v \in Workers : pc'[v] \in {"persisting", "writing"} => records'[v] # << >>
<1> DEFINE rs == records[w]
<1>1. rs \in Seq(Record) /\ rs # << >>
    BY DEF TypeOK
<1>2. /\ Tail(rs) \in Seq(Record)
      /\ (Len(rs) = 1) <=> (Tail(rs) = << >>)
    <2>1. Tail(rs) \in Seq(Record) /\ Len(Tail(rs)) = Len(rs) - 1 /\ Len(rs) \in Nat
        BY <1>1, HeadTailProperties, LenProperties
    <2>2. Tail(rs) = << >> <=> Len(Tail(rs)) = 0
        BY <2>1, EmptySeq
    <2> HIDE DEF rs
    <2> QED BY <2>1, <2>2
<1>3. /\ records' = [records EXCEPT ![w] = Tail(rs)]
      /\ pc' = [pc EXCEPT ![w] = IF Len(rs) = 1 THEN "idle" ELSE "persisting"]
      /\ seen' = [seen EXCEPT ![w] = FALSE]
    BY DEF NextRecord
<1> HIDE DEF rs
<1>4. /\ records' \in [Workers -> Seq(Record)]
      /\ pc' \in [Workers -> {"idle", "fetching", "persisting", "writing"}]
      /\ seen' \in [Workers -> BOOLEAN]
    BY <1>2, <1>3 DEF TypeOK
<1>5. ASSUME NEW v \in Workers
      PROVE  /\ pc'[v] = "idle" => records'[v] = << >>
             /\ pc'[v] = "fetching" => Len(records'[v]) < Len(Order)
             /\ pc'[v] \in {"persisting", "writing"} => records'[v] # << >>
    <2>1. CASE v = w
        <3>1. records'[w] = Tail(rs) /\ pc'[w] = IF Len(rs) = 1 THEN "idle" ELSE "persisting"
            BY <1>3 DEF TypeOK
        <3> QED BY <2>1, <1>2, <3>1
    <2>2. CASE v # w
        <3>1. pc'[v] = pc[v] /\ records'[v] = records[v]
            BY <2>2, <1>3 DEF TypeOK
        <3> QED BY <3>1 DEF TypeOK
    <2> QED BY <2>1, <2>2
<1> QED BY <1>4, <1>5

(* The record that a worker persists, and what persisting it writes.        *)
LEMMA PersistFacts ==
    ASSUME TypeOK, NEW w \in Workers, Persist(w)
    PROVE  \E r \in Record, old \in Source, e \in Log :
             /\ r = records[w][1]
             /\ old = IF db[r.source] = NoSource THEN NewSource ELSE db[r.source]
             /\ db' = [db EXCEPT ![r.source] = After(old, r)]
             /\ After(old, r) \in Source
             /\ After(old, r).log = Append(old.log, e)
             /\ After(old, r).cursor = CursorAfter(old.cursor, r)
             /\ After(old, r).failures = FailuresAfter(old.failures, r)
             /\ e.kind = r.kind /\ e.created = Created(r) /\ e.cursor = r.cursor
             /\ raws' = [i \in Items |-> IF i \in Brought(r) THEN r.items[i] ELSE raws[i]]
             /\ NextRecord(w)
             /\ pc[w] = "writing"
<1> DEFINE r == records[w][1]
           old == IF db[r.source] = NoSource THEN NewSource ELSE db[r.source]
<1>1. r \in Record
    BY DEF Persist, TypeOK
<1>2. old \in Source
    BY <1>1, NewSourceType DEF TypeOK, Record
<1>3. /\ db' = [db EXCEPT ![r.source] = After(old, r)]
      /\ raws' = [i \in Items |-> IF i \in Brought(r) THEN r.items[i] ELSE raws[i]]
      /\ NextRecord(w) /\ pc[w] = "writing"
    BY <1>1 DEF Persist, TypeOK, Record
<1>4. /\ r = records[w][1]
      /\ old = IF db[r.source] = NoSource THEN NewSource ELSE db[r.source]
    OBVIOUS
<1> HIDE DEF r, old
<1>5. /\ After(old, r) \in Source
      /\ After(old, r).cursor = CursorAfter(old.cursor, r)
      /\ After(old, r).failures = FailuresAfter(old.failures, r)
      /\ \E e \in Log : /\ e.kind = r.kind /\ e.created = Created(r)
                        /\ e.cursor = r.cursor
                        /\ After(old, r).log = Append(old.log, e)
    BY <1>1, <1>2, AfterType, Zenon
<1>6. PICK e \in Log : /\ e.kind = r.kind /\ e.created = Created(r)
                       /\ e.cursor = r.cursor
                       /\ After(old, r).log = Append(old.log, e)
    BY <1>5, Zenon
<1> QED BY <1>1, <1>2, <1>3, <1>4, <1>5, <1>6, Zenon

(* Of each item a record has the present version or nothing.                *)
LEMMA OutcomeFacts ==
    ASSUME TypeOK, NEW s \in Sources, NEW r \in Outcomes(s)
    PROVE  /\ r \in Record
           /\ \A i \in Items : r.items[i] \in {0, world[i]}
<1> DEFINE record(kind, brought, cursor) ==
               [source |-> s, kind |-> kind, cursor |-> cursor,
                items |-> [i \in Items |-> IF i \in brought THEN world[i] ELSE 0]]
           published == {i \in ItemsOf[s] : world[i] # 0}
<1>1. ItemsOf[s] \subseteq Items
    BY ConfigurationAssumption
<1>2. PICK kind \in Kind, brought \in SUBSET published, cursor \in Cursors :
          r = record(kind, brought, cursor)
    <2>1. \A brought \in SUBSET published : \A i \in brought : world[i] \in Cursors
        BY <1>1 DEF TypeOK, Cursors
    <2>2. publishes \in Cursors /\ NoCursor \in Cursors
        BY DEF TypeOK, Cursors
    <2>3. \/ r = record("disabled", {}, NoCursor)
          \/ r = record("unregistered", {}, NoCursor)
          \/ r = record("failed", {}, NoCursor)
          \/ \E brought \in SUBSET published, cursor \in Cursors :
                r = record("success", brought, cursor)
        BY <2>1, <2>2 DEF Outcomes
    <2> HIDE DEF record, published
    <2> QED BY <2>2, <2>3 DEF Kind
<1>3. [i \in Items |-> IF i \in brought THEN world[i] ELSE 0] \in [Items -> Nat]
    BY DEF TypeOK
<1> QED BY <1>2, <1>3 DEF Record

(* Type correctness: one step per action.                                   *)
LEMMA StepType ==
    ASSUME TypeOK, [Next]_vars
    PROVE  TypeOK'
<1> USE DEF database, process, budget
<1>1. ASSUME NEW i \in Items, Publish(i) PROVE TypeOK'
    <2>1. publishes' \in Nat /\ world' \in [Items -> Nat]
        BY <1>1 DEF Publish, TypeOK
    <2> QED BY <1>1, <2>1 DEF Publish, TypeOK
<1>2. ASSUME NEW s \in Sources, PatchStatus(s) PROVE TypeOK'
    <2>1. PICK status \in Status :
            /\ db' = [db EXCEPT ![s].status = status,
                                ![s].message = IF status = "error" THEN @ ELSE FALSE]
            /\ stopped' = IF status = "disabled" THEN stopped \cup {s} ELSE stopped \ {s}
        BY <1>2 DEF PatchStatus
    <2>2. db[s] \in Source
        BY <1>2 DEF PatchStatus, TypeOK
    <2>3. db' \in [Sources -> Source \cup {NoSource}]
        BY <2>1, <2>2 DEF TypeOK, Source
    <2>4. stopped' \subseteq Sources /\ patches' \in Nat
        BY <1>2, <2>1 DEF PatchStatus, TypeOK
    <2> QED BY <1>2, <2>3, <2>4 DEF PatchStatus, TypeOK
<1>3. ASSUME NEW w \in Workers, StartRun(w) PROVE TypeOK'
    <2>1. Len(Order) \in Nat /\ Len(Order) > 0
        BY LenProperties, EmptySeq, ConfigurationAssumption
    <2>2. records[w] = << >> /\ runs' \in Nat
        BY <1>3 DEF StartRun, TypeOK
    <2> QED BY <1>3, <2>1, <2>2 DEF StartRun, TypeOK
<1>4. ASSUME NEW w \in Workers, Fetch(w) PROVE TypeOK'
    <2> DEFINE s == Order[Len(records[w]) + 1]
    <2>1. /\ Len(records[w]) \in Nat /\ Len(records[w]) < Len(Order) /\ Len(Order) \in Nat
          /\ records[w] \in Seq(Record)
        BY <1>4, LenProperties, ConfigurationAssumption DEF Fetch, TypeOK
    <2>2. s \in Sources
        BY <2>1 DEF Sources
    <2>3. PICK r \in Outcomes(s) : records' = [records EXCEPT ![w] = Append(@, r)]
        BY <1>4 DEF Fetch
    <2>4. r \in Record
        BY <2>2, OutcomeFacts
    <2>5. Append(records[w], r) \in Seq(Record) /\ Len(Append(records[w], r)) = Len(records[w]) + 1
        BY <2>1, <2>4, AppendFacts
    <2>6. records' \in [Workers -> Seq(Record)] /\ records'[w] = Append(records[w], r)
        BY <2>3, <2>5 DEF TypeOK
    <2>7. \A v \in Workers : v # w => records'[v] = records[v] /\ pc'[v] = pc[v]
        BY <1>4, <2>3 DEF Fetch, TypeOK
    <2>8. /\ pc' \in [Workers -> {"idle", "fetching", "persisting", "writing"}]
          /\ pc'[w] = IF Len(records'[w]) = Len(Order) THEN "persisting" ELSE "fetching"
        BY <1>4 DEF Fetch, TypeOK
    <2>9. records'[w] # << >>
        BY <2>1, <2>5, <2>6, EmptySeq
    <2>10. ASSUME NEW v \in Workers
           PROVE  /\ pc'[v] = "idle" => records'[v] = << >>
                  /\ pc'[v] = "fetching" => Len(records'[v]) < Len(Order)
                  /\ pc'[v] \in {"persisting", "writing"} => records'[v] # << >>
        <3>1. CASE v # w
            BY <3>1, <2>7 DEF TypeOK
        <3>2. CASE v = w
            <4>1. Len(records'[w]) = Len(records[w]) + 1
                BY <2>5, <2>6
            <4>2. pc'[w] \in {"persisting", "fetching"}
                BY <2>8
            <4>3. pc'[w] = "fetching" => Len(records'[w]) < Len(Order)
                BY <4>1, <2>1, <2>8
            <4> QED BY <3>2, <4>2, <4>3, <2>9
        <3> QED BY <3>1, <3>2
    <2> QED BY <1>4, <2>6, <2>8, <2>10 DEF Fetch, TypeOK
<1>5. ASSUME NEW w \in Workers, LookUp(w) PROVE TypeOK'
    BY <1>5 DEF LookUp, TypeOK
<1>6. ASSUME NEW w \in Workers, Persist(w) PROVE TypeOK'
    <2>1. PICK r \in Record, old \in Source, e \in Log :
             /\ db' = [db EXCEPT ![r.source] = After(old, r)]
             /\ After(old, r) \in Source
             /\ raws' = [i \in Items |-> IF i \in Brought(r) THEN r.items[i] ELSE raws[i]]
             /\ NextRecord(w)
             /\ pc[w] = "writing"
        BY <1>6, PersistFacts
    <2>2. db' \in [Sources -> Source \cup {NoSource}]
        BY <2>1 DEF TypeOK
    <2>3. raws' \in [Items -> Nat]
        BY <2>1 DEF TypeOK, Record
    <2> QED BY <1>6, <2>1, <2>2, <2>3, NextRecordType DEF Persist, TypeOK
<1>7. ASSUME NEW w \in Workers, Conflict(w) PROVE TypeOK'
    BY <1>7, NextRecordType DEF Conflict, TypeOK
<1>8. ASSUME NEW w \in Workers, DbError(w) PROVE TypeOK'
    <2>1. errors' \in Nat
        BY <1>8 DEF DbError, TypeOK
    <2> QED BY <1>8, <2>1, NextRecordType DEF DbError, TypeOK
<1>9. ASSUME NEW w \in Workers, Crash(w) PROVE TypeOK'
    <2>1. errors' \in Nat
        BY <1>9 DEF Crash, TypeOK
    <2> QED BY <1>9, <2>1 DEF Crash, TypeOK
<1>10. CASE UNCHANGED vars
    BY <1>10 DEF vars, TypeOK
<1> QED BY <1>1, <1>2, <1>3, <1>4, <1>5, <1>6, <1>7, <1>8, <1>9, <1>10 DEF Next

(* The state of the collection stage is well-formed, for any workers,       *)
(* sources, items and bounds.                                               *)
THEOREM TypeCorrectness == Spec => []TypeOK
<1>1. Init => TypeOK
    BY InitType
<1>2. TypeOK /\ [Next]_vars => TypeOK'
    BY StepType
<1> QED BY <1>1, <1>2, PTL DEF Spec

-----------------------------------------------------------------------------
(* What each run sees of the log when an entry is appended to it.           *)
LEMMA StreakFacts ==
    ASSUME NEW log \in Seq(Log), NEW e \in Log
    PROVE  /\ IsFiniteSet(Streak(log))
           /\ e.kind = "success" => Streak(Append(log, e)) = {}
           /\ e.kind = "failed" =>
                /\ Streak(Append(log, e)) = Streak(log) \cup {Len(log) + 1}
                /\ Len(log) + 1 \notin Streak(log)
           /\ e.kind \notin {"success", "failed"} => Streak(Append(log, e)) = Streak(log)
<1> DEFINE n == Len(log)
           new == Append(log, e)
<1>1. /\ n \in Nat /\ Len(new) = n + 1 /\ new[n + 1] = e
      /\ \A i \in 1 .. n : new[i] = log[i]
    BY AppendFacts
<1>2. Streak(log) = {i \in 1 .. n : log[i].kind = "failed" /\ \A j \in i .. n : log[j].kind # "success"}
    BY DEF Streak
<1>3. Streak(new) = {i \in 1 .. n + 1 :
                       new[i].kind = "failed" /\ \A j \in i .. n + 1 : new[j].kind # "success"}
    BY <1>1 DEF Streak
<1> HIDE DEF n, new
<1>4. IsFiniteSet(Streak(log))
    <2>1. IsFiniteSet(1 .. n)
        BY <1>1, FS_Interval
    <2> QED BY <1>2, <2>1, FS_Subset
<1>5. ASSUME e.kind = "success" PROVE Streak(new) = {}
    BY <1>1, <1>3, <1>5
<1>6. ASSUME e.kind # "success", NEW i \in 1 .. n
      PROVE  i \in Streak(new) <=> i \in Streak(log)
    <2>1. \A j \in i .. n + 1 : j \in i .. n \/ j = n + 1
        BY <1>1
    <2>2. \A j \in i .. n : j \in 1 .. n /\ j \in i .. n + 1
        BY <1>1
    <2>3. new[n + 1].kind # "success" /\ \A j \in i .. n : new[j].kind = log[j].kind
        BY <1>1, <1>6, <2>2
    <2>4. (\A j \in i .. n + 1 : new[j].kind # "success")
             <=> (\A j \in i .. n : log[j].kind # "success")
        BY <2>1, <2>2, <2>3
    <2>5. i \in 1 .. n + 1 /\ new[i].kind = log[i].kind
        BY <1>1, <1>6
    <2> QED BY <1>2, <1>3, <1>6, <2>4, <2>5
<1>7. ASSUME e.kind # "success" PROVE n + 1 \in Streak(new) <=> e.kind = "failed"
    BY <1>1, <1>3, <1>7
<1>8. n + 1 \notin Streak(log) /\ Streak(log) \subseteq 1 .. n /\ Streak(new) \subseteq 1 .. n + 1
    BY <1>1, <1>2, <1>3
<1>9. \A i \in 1 .. n + 1 : i \in 1 .. n \/ i = n + 1
    BY <1>1
<1>10. ASSUME e.kind = "failed" PROVE Streak(new) = Streak(log) \cup {n + 1}
    BY <1>1, <1>6, <1>7, <1>8, <1>9, <1>10
<1>11. ASSUME e.kind \notin {"success", "failed"} PROVE Streak(new) = Streak(log)
    BY <1>6, <1>7, <1>8, <1>9, <1>11
<1> QED BY <1>4, <1>5, <1>8, <1>10, <1>11 DEF n, new

LEMMA SettersFacts ==
    ASSUME NEW log \in Seq(Log), NEW e \in Log
    PROVE  /\ Setters(log) \subseteq 1 .. Len(log)
           /\ Setters(Append(log, e)) =
                IF e.kind = "success" /\ e.cursor # NoCursor
                THEN Setters(log) \cup {Len(log) + 1} ELSE Setters(log)
    BY AppendFacts DEF Setters

LEMMA CreatorsFacts ==
    ASSUME NEW log \in Seq(Log), NEW e \in Log, NEW i \in Items
    PROVE  /\ Creators(log, i) \subseteq 1 .. Len(log)
           /\ Creators(Append(log, e), i) =
                IF i \in e.created THEN Creators(log, i) \cup {Len(log) + 1}
                ELSE Creators(log, i)
    BY AppendFacts DEF Creators

-----------------------------------------------------------------------------
(* What agrees with the log of a source, stated for one source's record.    *)
Counted(source) == source.failures = Cardinality(Streak(source.log))

Positioned(source) ==
    IF Setters(source.log) = {} THEN source.cursor = NoCursor
    ELSE \E i \in Setters(source.log) : /\ \A j \in Setters(source.log) : j <= i
                                        /\ source.cursor = source.log[i].cursor

LEMMA NewSourceAgrees == Counted(NewSource) /\ Positioned(NewSource)
<1>1. Streak(NewSource.log) = {} /\ Setters(NewSource.log) = {}
    BY DEF Streak, Setters, NewSource
<1> QED BY <1>1, FS_EmptySet DEF Counted, Positioned, NewSource

(* One more run keeps the count.                                            *)
LEMMA AfterCounts ==
    ASSUME NEW r \in Record, NEW old \in Source, NEW e \in Log, Counted(old),
           e.kind = r.kind, After(old, r).log = Append(old.log, e),
           After(old, r).failures = FailuresAfter(old.failures, r)
    PROVE  Counted(After(old, r))
<1> DEFINE log == old.log
           new == Append(log, e)
           failures == FailuresAfter(old.failures, r)
<1>1. log \in Seq(Log) /\ old.failures = Cardinality(Streak(log))
    BY DEF Source, Counted
<1> HIDE DEF log
<1>2. CASE r.kind = "success"
    BY <1>1, <1>2, StreakFacts, FS_EmptySet DEF FailuresAfter, Counted, log
<1>3. CASE r.kind = "failed"
    <2>1. /\ Streak(new) = Streak(log) \cup {Len(log) + 1} /\ Len(log) + 1 \notin Streak(log)
          /\ IsFiniteSet(Streak(log))
        BY <1>1, <1>3, StreakFacts
    <2>2. Cardinality(Streak(new)) = Cardinality(Streak(log)) + 1
        BY <2>1, FS_AddElement
    <2> QED BY <1>1, <1>3, <2>2 DEF FailuresAfter, Counted, log
<1>4. CASE r.kind \notin {"success", "failed"}
    BY <1>1, <1>4, StreakFacts DEF FailuresAfter, Counted, log
<1> QED BY <1>2, <1>3, <1>4

(* One more run keeps the cursor that of the last run which had one.        *)
LEMMA AfterPositions ==
    ASSUME NEW r \in Record, NEW old \in Source, NEW e \in Log, Positioned(old),
           e.kind = r.kind, e.cursor = r.cursor, After(old, r).log = Append(old.log, e),
           After(old, r).cursor = CursorAfter(old.cursor, r)
    PROVE  Positioned(After(old, r))
<1> DEFINE log == old.log
           new == Append(log, e)
           n   == Len(log)
<1>1. /\ log \in Seq(Log) /\ n \in Nat
      /\ Setters(log) \subseteq 1 .. n
      /\ \A i \in 1 .. n : new[i] = log[i]
      /\ new[n + 1] = e
      /\ Setters(new) = IF e.kind = "success" /\ e.cursor # NoCursor
                        THEN Setters(log) \cup {n + 1} ELSE Setters(log)
    BY SettersFacts, AppendFacts DEF Source
<1>2. /\ Setters(log) = {} => old.cursor = NoCursor
      /\ Setters(log) # {} => \E i \in Setters(log) : /\ \A j \in Setters(log) : j <= i
                                                      /\ old.cursor = log[i].cursor
    BY DEF Positioned
<1>3. After(old, r).log = new /\ After(old, r).cursor = CursorAfter(old.cursor, r)
    OBVIOUS
<1> HIDE DEF log, new, n
<1>4. CASE e.kind = "success" /\ e.cursor # NoCursor
    <2>1. Setters(new) = Setters(log) \cup {n + 1} /\ CursorAfter(old.cursor, r) = new[n + 1].cursor
        BY <1>1, <1>4 DEF CursorAfter
    <2>2. \A j \in Setters(new) : j <= n + 1
        BY <1>1, <2>1
    <2> QED BY <1>3, <2>1, <2>2 DEF Positioned
<1>5. CASE ~ (e.kind = "success" /\ e.cursor # NoCursor)
    <2>1. Setters(new) = Setters(log) /\ CursorAfter(old.cursor, r) = old.cursor
        BY <1>1, <1>5 DEF CursorAfter
    <2>2. \A i \in Setters(log) : new[i] = log[i]
        BY <1>1
    <2> QED BY <1>2, <1>3, <2>1, <2>2 DEF Positioned
<1> QED BY <1>4, <1>5

(* The inductive invariant: what the log of each source agrees with.        *)
IInv == TypeOK /\ FailuresMatchLog /\ CursorMatchesLog /\ CreatedOnce

LEMMA InitIInv == Init => IInv
<1>1. ASSUME Init, NEW s \in Sources, NEW i \in ItemsOf[s]
      PROVE  db[s] = NoSource /\ raws[i] = 0
    BY <1>1, ConfigurationAssumption DEF Init
<1>2. Init => FailuresMatchLog /\ CursorMatchesLog
    BY DEF Init, FailuresMatchLog, CursorMatchesLog
<1> QED BY <1>1, <1>2, InitType DEF IInv, CreatedOnce

LEMMA PersistAgrees ==
    ASSUME IInv, NEW w \in Workers, Persist(w)
    PROVE  FailuresMatchLog' /\ CursorMatchesLog' /\ CreatedOnce'
<1>0. TypeOK
    BY DEF IInv
<1>1. PICK r \in Record, old \in Source, e \in Log :
             /\ old = IF db[r.source] = NoSource THEN NewSource ELSE db[r.source]
             /\ db' = [db EXCEPT ![r.source] = After(old, r)]
             /\ After(old, r) \in Source
             /\ After(old, r).log = Append(old.log, e)
             /\ After(old, r).cursor = CursorAfter(old.cursor, r)
             /\ After(old, r).failures = FailuresAfter(old.failures, r)
             /\ e.kind = r.kind /\ e.created = Created(r) /\ e.cursor = r.cursor
             /\ raws' = [i \in Items |-> IF i \in Brought(r) THEN r.items[i] ELSE raws[i]]
    BY <1>0, PersistFacts
<1> DEFINE new == After(old, r)
<1>2. /\ r.source \in Sources /\ r.items \in [Items -> Nat]
      /\ db'[r.source] = new /\ new # NoSource
      /\ \A s \in Sources \ {r.source} : db'[s] = db[s]
    BY <1>0, <1>1, SentinelAssumption DEF TypeOK, Record
<1>3. Counted(old) /\ Positioned(old)
    BY <1>1, <1>2, NewSourceAgrees
        DEF IInv, FailuresMatchLog, CursorMatchesLog, Counted, Positioned
<1>4. Counted(new) /\ Positioned(new)
    <2>1. /\ e.kind = r.kind /\ e.cursor = r.cursor /\ After(old, r).log = Append(old.log, e)
          /\ After(old, r).cursor = CursorAfter(old.cursor, r)
          /\ After(old, r).failures = FailuresAfter(old.failures, r)
        BY <1>1
    <2> HIDE DEF new
    <2>2. Counted(After(old, r))
        BY <1>3, <2>1, AfterCounts
    <2>3. Positioned(After(old, r))
        BY <1>3, <2>1, AfterPositions
    <2> QED BY <2>2, <2>3 DEF new
<1> HIDE DEF new
<1>5. FailuresMatchLog'
    BY <1>2, <1>4 DEF IInv, FailuresMatchLog, Counted
<1>6. CursorMatchesLog'
    <2>1. CursorMatchesLog
        BY DEF IInv
    <2>2. ASSUME NEW s \in Sources, db'[s] # NoSource PROVE Positioned(db'[s])
        <3>1. CASE s = r.source
            BY <1>2, <1>4, <3>1
        <3>2. CASE s # r.source
            <4>1. db'[s] = db[s] /\ db[s] # NoSource
                BY <1>2, <2>2, <3>2
            <4>2. Positioned(db[s])
                BY <2>1, <4>1 DEF CursorMatchesLog, Positioned
            <4> QED BY <4>1, <4>2
        <3> QED BY <3>1, <3>2
    <2> QED BY <2>2 DEF CursorMatchesLog, Positioned
<1>7. ASSUME NEW s \in Sources, NEW i \in ItemsOf[s], s # r.source
      PROVE  db'[s] = db[s] /\ raws'[i] = raws[i]
    <2>1. i \in Items /\ i \notin Brought(r)
        BY <1>2, <1>7, ConfigurationAssumption DEF Brought
    <2> QED BY <1>1, <1>2, <1>7, <2>1
<1>8. ASSUME NEW i \in ItemsOf[r.source]
      PROVE  /\ raws'[i] # 0 <=> Creators(new.log, i) # {}
             /\ \A m, n \in Creators(new.log, i) : m = n
    <2>1. i \in Items /\ raws[i] \in Nat /\ old.log \in Seq(Log) /\ Len(old.log) \in Nat
        BY <1>0, <1>2, ConfigurationAssumption, LenProperties DEF TypeOK, Source
    <2>2. /\ raws[i] # 0 <=> Creators(old.log, i) # {}
          /\ \A m, n \in Creators(old.log, i) : m = n
        <3>0. CreatedOnce /\ r.source \in Sources
            BY <1>2 DEF IInv
        <3>1. CASE db[r.source] = NoSource
            <4>1. old = NewSource /\ Creators(NewSource.log, i) = {}
                BY <1>1, <3>1 DEF Creators, NewSource
            <4>2. raws[i] = 0
                BY <3>0, <3>1 DEF CreatedOnce
            <4> QED BY <4>1, <4>2
        <3>2. CASE db[r.source] # NoSource
            <4>1. old = db[r.source]
                BY <1>1, <3>2
            <4> QED BY <3>0, <3>2, <4>1 DEF CreatedOnce
        <3> QED BY <3>1, <3>2
    <2>3. /\ raws'[i] = IF i \in Brought(r) THEN r.items[i] ELSE raws[i]
          /\ i \in Brought(r) => r.items[i] # 0
          /\ i \in e.created <=> i \in Brought(r) /\ raws[i] = 0
        BY <1>1, <2>1 DEF Brought, Created
    <2>4. /\ Creators(old.log, i) \subseteq 1 .. Len(old.log)
          /\ Creators(new.log, i) = IF i \in e.created
                                    THEN Creators(old.log, i) \cup {Len(old.log) + 1}
                                    ELSE Creators(old.log, i)
        <3>1. new.log = Append(old.log, e)
            BY <1>1 DEF new
        <3> DEFINE log == old.log
        <3>2. log \in Seq(Log)
            BY <2>1
        <3> HIDE DEF log
        <3>3. /\ Creators(log, i) \subseteq 1 .. Len(log)
              /\ Creators(Append(log, e), i) = IF i \in e.created
                                              THEN Creators(log, i) \cup {Len(log) + 1}
                                              ELSE Creators(log, i)
            BY <2>1, <3>2, CreatorsFacts
        <3> QED BY <3>1, <3>3 DEF log
    <2>5. CASE i \in e.created
        <3>1. raws'[i] # 0 /\ Creators(old.log, i) = {}
            BY <2>2, <2>3, <2>5
        <3>2. Creators(new.log, i) = {Len(old.log) + 1}
            BY <2>4, <2>5, <3>1
        <3> QED BY <3>1, <3>2
    <2>6. CASE i \notin e.created
        <3>1. Creators(new.log, i) = Creators(old.log, i)
            BY <2>4, <2>6
        <3>2. (raws'[i] # 0) <=> (raws[i] # 0)
            BY <2>3, <2>6
        <3> QED BY <2>2, <3>1, <3>2
    <2> QED BY <2>5, <2>6
<1>9. CreatedOnce'
    <2> SUFFICES ASSUME NEW s \in Sources, NEW i \in ItemsOf[s]
                 PROVE  (IF db[s] = NoSource THEN raws[i] = 0
                         ELSE /\ raws[i] # 0 <=> Creators(db[s].log, i) # {}
                              /\ \A m, n \in Creators(db[s].log, i) : m = n)'
        BY DEF CreatedOnce
    <2>1. CASE s = r.source
        BY <2>1, <1>2, <1>8
    <2>2. CASE s # r.source
        BY <2>2, <1>7 DEF IInv, CreatedOnce
    <2> QED BY <2>1, <2>2
<1> QED BY <1>5, <1>6, <1>9

LEMMA StepIInv == IInv /\ [Next]_vars => IInv'
<1> SUFFICES ASSUME IInv, [Next]_vars PROVE IInv'
    OBVIOUS
<1> USE DEF database, process, budget
<1>1. TypeOK'
    BY StepType DEF IInv
<1>2. ASSUME NEW w \in Workers, Persist(w)
      PROVE  FailuresMatchLog' /\ CursorMatchesLog' /\ CreatedOnce'
    BY <1>2, PersistAgrees
<1>3. ASSUME NEW s \in Sources, PatchStatus(s)
      PROVE  FailuresMatchLog' /\ CursorMatchesLog' /\ CreatedOnce'
    <2>1. PICK status \in Status :
            db' = [db EXCEPT ![s].status = status,
                             ![s].message = IF status = "error" THEN @ ELSE FALSE]
        BY <1>3 DEF PatchStatus
    <2>2. db[s] \in Source /\ db[s] # NoSource
        BY <1>3 DEF IInv, PatchStatus, TypeOK
    <2>3. /\ \A t \in Sources : db'[t] = NoSource <=> db[t] = NoSource
          /\ \A t \in Sources : db[t] # NoSource =>
               /\ db'[t].log = db[t].log /\ db'[t].failures = db[t].failures
               /\ db'[t].cursor = db[t].cursor
        <3>1. db'[s] \in Source
            BY <2>1, <2>2 DEF IInv, TypeOK, Source
        <3>2. /\ db'[s].log = db[s].log /\ db'[s].failures = db[s].failures
              /\ db'[s].cursor = db[s].cursor
            BY <2>1, <2>2 DEF IInv, TypeOK, Source
        <3>3. \A t \in Sources \ {s} : db'[t] = db[t]
            BY <2>1 DEF IInv, TypeOK
        <3> QED BY <3>1, <3>2, <3>3, <2>2, SentinelAssumption
    <2>4. raws' = raws
        BY <1>3 DEF PatchStatus
    <2>5. FailuresMatchLog'
        <3>1. FailuresMatchLog
            BY DEF IInv
        <3> QED BY <2>3, <3>1 DEF FailuresMatchLog
    <2>6. CursorMatchesLog'
        <3>1. CursorMatchesLog
            BY DEF IInv
        <3> QED BY <2>3, <3>1 DEF CursorMatchesLog
    <2>7. CreatedOnce'
        <3>1. CreatedOnce
            BY DEF IInv
        <3> QED BY <2>3, <2>4, <3>1 DEF CreatedOnce
    <2> QED BY <2>5, <2>6, <2>7
<1>4. ASSUME UNCHANGED database
      PROVE  FailuresMatchLog' /\ CursorMatchesLog' /\ CreatedOnce'
    BY <1>4 DEF IInv, FailuresMatchLog, CursorMatchesLog, CreatedOnce
<1>5. FailuresMatchLog' /\ CursorMatchesLog' /\ CreatedOnce'
    BY <1>2, <1>3, <1>4 DEF Next, vars, Publish, StartRun, Fetch, LookUp, Conflict, DbError, Crash
<1> QED BY <1>1, <1>5 DEF IInv

THEOREM Invariance == Spec => []IInv
    BY InitIInv, StepIInv, PTL DEF Spec

(* However the runs of any number of workers overlap, fail and crash, the   *)
(* failure count of a source is its number of failed runs since the last    *)
(* successful one (update_sync_state).                                      *)
THEOREM CountTheorem == Spec => []FailuresMatchLog
<1>1. IInv => FailuresMatchLog
    BY DEF IInv
<1> QED BY <1>1, Invariance, PTL

(* ... and its cursor is that of the last successful run that had one.      *)
THEOREM CursorTheorem == Spec => []CursorMatchesLog
<1>1. IInv => CursorMatchesLog
    BY DEF IInv
<1> QED BY <1>1, Invariance, PTL

(* Exactly one logged run counts each raw row as created (upsert_raw_record *)
(* and insert_job_log commit together).                                     *)
THEOREM CreationTheorem == Spec => []CreatedOnce
<1>1. IInv => CreatedOnce
    BY DEF IInv
<1> QED BY <1>1, Invariance, PTL

-----------------------------------------------------------------------------
(* Runs that do not overlap.  What a run holds and what is stored give a    *)
(* version to each item; 0 says nothing of an item.  Nothing is newer than  *)
(* what the sources publish.                                                *)
Published(items) == \A i \in Items : items[i] <= world[i]

NotNewer(old, new) == \A i \in Items : new[i] # 0 => old[i] <= new[i]

Held(w) == 1 .. Len(records[w])

(* A worker fetches one source after the other, so that its records are in  *)
(* the order of their age.                                                  *)
FetchedInOrder ==
    /\ \A i \in Items : world[i] <= publishes
    /\ Published(raws)
    /\ \A w \in Workers : \A n \in Held(w) :
          /\ Published(records[w][n].items)
          /\ \A m \in 1 .. n : NotNewer(records[w][m].items, records[w][n].items)

(* Until two runs overlap, there is one at a time, and what it holds of an  *)
(* item is as new as what is stored.                                        *)
OneRun ==
    ~ overlap =>
      /\ \A v, w \in Workers : pc[v] # "idle" /\ pc[w] # "idle" => v = w
      /\ \A w \in Workers : \A n \in Held(w) : NotNewer(raws, records[w][n].items)

AgeInv == FetchedInOrder /\ OneRun

LEMMA HeldFacts ==
    ASSUME TypeOK, NEW w \in Workers, NEW n \in Held(w)
    PROVE  records[w][n] \in Record /\ records[w][n].items \in [Items -> Nat]
<1>1. records[w][n] \in Record
    BY ElementOfSeq DEF TypeOK, Held
<1> QED BY <1>1 DEF Record

LEMMA InitAge == Init => AgeInv
<1> SUFFICES ASSUME Init PROVE AgeInv
    OBVIOUS
<1>1. \A w \in Workers : Held(w) = {}
    BY DEF Init, Held
<1>2. Published(raws) /\ \A i \in Items : world[i] <= publishes
    BY DEF Init, Published
<1> QED BY <1>1, <1>2 DEF Init, AgeInv, FetchedInOrder, OneRun

(* Steps that leave alone what is held and what is stored, and that make no *)
(* idle worker busy.                                                        *)
LEMMA AgeFrame ==
    ASSUME AgeInv, UNCHANGED <<world, publishes, records, overlap, raws>>,
           \A w \in Workers : pc'[w] # "idle" => pc[w] # "idle"
    PROVE  AgeInv'
<1>1. \A w \in Workers : Held(w)' = Held(w)
    BY DEF Held
<1>2. FetchedInOrder'
    BY <1>1 DEF AgeInv, FetchedInOrder, NotNewer, Published
<1>3. OneRun'
    BY <1>1 DEF AgeInv, OneRun, NotNewer
<1> QED BY <1>2, <1>3 DEF AgeInv

LEMMA PublishAge ==
    ASSUME TypeOK, AgeInv, NEW i \in Items, Publish(i)
    PROVE  AgeInv'
<1>1. /\ publishes' = publishes + 1 /\ world' = [world EXCEPT ![i] = publishes + 1]
      /\ UNCHANGED <<db, raws, pc, records, overlap>>
    BY DEF Publish, database, process
<1>2. \A j \in Items : world[j] <= world'[j] /\ world'[j] <= publishes'
    BY <1>1 DEF TypeOK, AgeInv, FetchedInOrder
<1>3. ASSUME NEW x \in [Items -> Nat], Published(x), NEW j \in Items
      PROVE  x[j] <= world'[j]
    <2>1. x[j] \in Nat /\ world[j] \in Nat /\ world'[j] \in Nat
        BY <1>1 DEF TypeOK
    <2>2. x[j] <= world[j]
        BY <1>3 DEF Published
    <2> QED BY <1>2, <2>1, <2>2
<1>4. \A j \in Items : raws[j] <= world'[j]
    BY <1>3 DEF TypeOK, AgeInv, FetchedInOrder
<1>5. ASSUME NEW w \in Workers, NEW n \in Held(w), NEW j \in Items
      PROVE  records[w][n].items[j] <= world'[j]
    BY <1>3, HeldFacts DEF AgeInv, FetchedInOrder
<1>6. FetchedInOrder'
    BY <1>1, <1>2, <1>4, <1>5 DEF AgeInv, FetchedInOrder, Held, NotNewer, Published
<1>7. OneRun'
    BY <1>1 DEF AgeInv, OneRun, Held, NotNewer
<1> QED BY <1>6, <1>7 DEF AgeInv

LEMMA StartAge ==
    ASSUME TypeOK, AgeInv, NEW w \in Workers, StartRun(w)
    PROVE  AgeInv'
<1>1. /\ pc' = [pc EXCEPT ![w] = "fetching"] /\ pc[w] = "idle"
      /\ overlap' = (overlap \/ \E v \in Workers : pc[v] # "idle")
      /\ UNCHANGED <<world, publishes, db, raws, records>>
    BY DEF StartRun, database
<1>2. \A v \in Workers : Held(v)' = Held(v)
    BY <1>1 DEF Held
<1>3. FetchedInOrder'
    BY <1>1, <1>2 DEF AgeInv, FetchedInOrder, NotNewer, Published
<1>4. ASSUME ~ overlap'
      PROVE  \A v \in Workers : /\ pc[v] = "idle" /\ Held(v)' = {}
                                /\ pc'[v] # "idle" => v = w
    <2>1. \A v \in Workers : pc[v] = "idle" /\ records[v] = << >>
        BY <1>1, <1>4 DEF TypeOK
    <2>2. \A v \in Workers : Held(v) = {}
        BY <2>1 DEF Held
    <2> QED BY <1>1, <1>2, <2>1, <2>2 DEF TypeOK
<1>5. OneRun'
    BY <1>4 DEF OneRun
<1> QED BY <1>3, <1>5 DEF AgeInv

LEMMA FetchAge ==
    ASSUME TypeOK, AgeInv, NEW w \in Workers, Fetch(w)
    PROVE  AgeInv'
<1> DEFINE s == Order[Len(records[w]) + 1]
<1>1. /\ pc[w] = "fetching"
      /\ \A v \in Workers : pc'[v] # "idle" => pc[v] # "idle"
      /\ UNCHANGED <<world, publishes, db, raws, overlap>>
    BY DEF Fetch, database, budget, TypeOK
<1>2. /\ Len(records[w]) \in Nat /\ Len(records[w]) < Len(Order) /\ Len(Order) \in Nat
      /\ records[w] \in Seq(Record)
    BY <1>1, LenProperties, ConfigurationAssumption DEF TypeOK
<1>3. s \in Sources
    BY <1>2 DEF Sources
<1>4. PICK r \in Outcomes(s) : records' = [records EXCEPT ![w] = Append(@, r)]
    BY DEF Fetch
<1> HIDE DEF s
<1>5. r \in Record /\ r.items \in [Items -> Nat] /\ \A i \in Items : r.items[i] \in {0, world[i]}
    BY <1>3, OutcomeFacts DEF Record
<1> DEFINE last == Len(records[w]) + 1
<1>6. /\ Held(w)' = Held(w) \cup {last} /\ last \notin Held(w) /\ records'[w][last] = r
      /\ \A n \in Held(w) : records'[w][n] = records[w][n] /\ n \in Nat /\ n < last
    <2>1. records'[w] = Append(records[w], r)
        BY <1>4 DEF TypeOK
    <2> QED BY <1>2, <1>5, <2>1, AppendFacts DEF Held
<1>7. \A v \in Workers \ {w} : records'[v] = records[v] /\ Held(v)' = Held(v)
    BY <1>4 DEF TypeOK, Held
<1>8. last \in Nat
    BY <1>2
<1> HIDE DEF last
<1>9. ASSUME NEW x, Published(x) PROVE NotNewer(x, r.items)
    BY <1>5, <1>9 DEF NotNewer, Published
<1>10. Published(r.items) /\ NotNewer(r.items, r.items)
    <2>1. \A i \in Items : world[i] \in Nat
        BY DEF TypeOK
    <2> QED BY <1>5, <2>1 DEF NotNewer, Published
<1>11. ASSUME NEW n \in Held(w)'
       PROVE  /\ Published(records'[w][n].items)
              /\ \A m \in 1 .. n : NotNewer(records'[w][m].items, records'[w][n].items)
    <2>1. CASE n \in Held(w)
        <3>1. \A m \in 1 .. n : m \in Held(w)
            BY <1>2, <2>1 DEF Held
        <3> QED BY <1>6, <2>1, <3>1 DEF AgeInv, FetchedInOrder
    <2>2. CASE n = last
        <3>1. \A m \in 1 .. last : m \in Held(w) \/ m = last
            BY <1>2 DEF Held, last
        <3>2. \A m \in Held(w) : NotNewer(records[w][m].items, r.items)
            BY <1>9 DEF AgeInv, FetchedInOrder
        <3> QED BY <1>6, <1>10, <2>2, <3>1, <3>2
    <2> QED BY <1>6, <2>1, <2>2
<1>12. FetchedInOrder'
    <2>1. \A v \in Workers : \A n \in Held(v)' :
             /\ Published(records'[v][n].items)
             /\ \A m \in 1 .. n : NotNewer(records'[v][m].items, records'[v][n].items)
        BY <1>7, <1>11 DEF AgeInv, FetchedInOrder
    <2> QED BY <1>1, <2>1 DEF AgeInv, FetchedInOrder, NotNewer, Published
<1>13. ASSUME ~ overlap, NEW v \in Workers, NEW n \in Held(v)'
       PROVE  NotNewer(raws, records'[v][n].items)
    <2>1. CASE v = w /\ n = last
        BY <1>6, <1>9, <2>1 DEF AgeInv, FetchedInOrder
    <2>2. CASE ~ (v = w /\ n = last)
        <3>1. n \in Held(v) /\ records'[v][n] = records[v][n]
            BY <1>6, <1>7, <2>2
        <3> QED BY <1>13, <3>1 DEF AgeInv, OneRun
    <2> QED BY <2>1, <2>2
<1>14. OneRun'
    BY <1>1, <1>13 DEF AgeInv, OneRun, NotNewer
<1> QED BY <1>12, <1>14 DEF AgeInv

(* What is stored after a run is persisted is, item by item, what was       *)
(* stored before or what the run has brought.                               *)
LEMMA PersistedFacts ==
    ASSUME TypeOK, NEW w \in Workers, Persist(w)
    PROVE  /\ 1 \in Held(w)
           /\ \A i \in Items : \/ raws'[i] = raws[i]
                               \/ /\ raws'[i] = records[w][1].items[i]
                                  /\ records[w][1].items[i] # 0
<1>1. PICK r \in Record :
             /\ r = records[w][1]
             /\ raws' = [i \in Items |-> IF i \in Brought(r) THEN r.items[i] ELSE raws[i]]
             /\ pc[w] = "writing"
    BY PersistFacts, Zenon
<1>2. 1 \in Held(w)
    <2>1. records[w] \in Seq(Record) /\ records[w] # << >>
        BY <1>1 DEF TypeOK
    <2> QED BY <2>1, LenProperties, EmptySeq DEF Held
<1>3. \A i \in Items : raws'[i] = raws[i] \/ (raws'[i] = r.items[i] /\ r.items[i] # 0)
    BY <1>1 DEF Brought
<1> QED BY <1>1, <1>2, <1>3

(* A worker goes on to its next record: what it has still to persist is as  *)
(* new as what is stored then.                                              *)
LEMMA NextRecordAge ==
    ASSUME TypeOK, AgeInv, NEW w \in Workers, pc[w] = "writing", NextRecord(w),
           UNCHANGED <<world, publishes, overlap>>,
           Published(raws'),
           ~ overlap => \A n \in Held(w) : n # 1 => NotNewer(raws', records[w][n].items)
    PROVE  AgeInv'
<1>1. records[w] \in Seq(Record) /\ records[w] # << >>
    BY DEF TypeOK
<1>2. /\ records' = [records EXCEPT ![w] = Tail(records[w])]
      /\ \A v \in Workers : pc'[v] # "idle" => pc[v] # "idle"
    BY DEF NextRecord, TypeOK
<1>3. /\ Len(Tail(records[w])) = Len(records[w]) - 1 /\ Len(records[w]) \in Nat
      /\ \A n \in 1 .. Len(Tail(records[w])) : Tail(records[w])[n] = records[w][n + 1]
    BY <1>1, HeadTailProperties, LenProperties
<1>4. records'[w] = Tail(records[w])
    BY <1>2 DEF TypeOK
<1>5. \A n \in Held(w)' : n + 1 \in Held(w) /\ n + 1 # 1 /\ records'[w][n] = records[w][n + 1]
    BY <1>3, <1>4 DEF Held
<1>6. \A v \in Workers \ {w} : records'[v] = records[v] /\ Held(v)' = Held(v)
    BY <1>2 DEF TypeOK, Held
<1>7. ASSUME NEW n \in Held(w)'
      PROVE  /\ Published(records'[w][n].items)
             /\ \A m \in 1 .. n : NotNewer(records'[w][m].items, records'[w][n].items)
    <2>1. \A m \in 1 .. n : m \in Held(w)' /\ m + 1 \in 1 .. n + 1
        BY <1>3, <1>4 DEF Held
    <2> QED BY <1>5, <2>1 DEF AgeInv, FetchedInOrder
<1>8. FetchedInOrder'
    <2>1. \A v \in Workers : \A n \in Held(v)' :
             /\ Published(records'[v][n].items)
             /\ \A m \in 1 .. n : NotNewer(records'[v][m].items, records'[v][n].items)
        BY <1>6, <1>7 DEF AgeInv, FetchedInOrder
    <2> QED BY <2>1 DEF AgeInv, FetchedInOrder, NotNewer, Published
<1>9. OneRun'
    <2> SUFFICES ASSUME ~ overlap
                 PROVE  /\ \A v, u \in Workers : pc'[v] # "idle" /\ pc'[u] # "idle" => v = u
                        /\ \A v \in Workers : \A n \in Held(v)' :
                              NotNewer(raws', records'[v][n].items)
        BY DEF OneRun, NotNewer
    <2>1. \A v, u \in Workers : pc'[v] # "idle" /\ pc'[u] # "idle" => v = u
        BY <1>2 DEF AgeInv, OneRun
    <2>2. ASSUME NEW v \in Workers \ {w} PROVE Held(v)' = {}
        <3>1. pc[v] = "idle"
            BY <2>2 DEF AgeInv, OneRun
        <3>2. records[v] = << >>
            BY <3>1 DEF TypeOK
        <3> QED BY <1>6, <3>2 DEF Held
    <2>3. ASSUME NEW n \in Held(w)'
          PROVE  NotNewer(raws', records'[w][n].items)
        BY <1>5
    <2> QED BY <2>1, <2>2, <2>3
<1> QED BY <1>8, <1>9 DEF AgeInv

LEMMA PersistAge ==
    ASSUME TypeOK, AgeInv, NEW w \in Workers, Persist(w)
    PROVE  AgeInv'
<1>1. pc[w] = "writing" /\ NextRecord(w) /\ UNCHANGED <<world, publishes, overlap>>
    BY DEF Persist, budget
<1>2. Published(raws')
    BY PersistedFacts DEF AgeInv, FetchedInOrder, Published
<1>3. ASSUME ~ overlap, NEW n \in Held(w), n # 1
      PROVE  NotNewer(raws', records[w][n].items)
    <2>1. 1 \in 1 .. n
        BY DEF Held
    <2>2. NotNewer(records[w][1].items, records[w][n].items)
        BY <2>1 DEF AgeInv, FetchedInOrder
    <2>3. NotNewer(raws, records[w][n].items)
        BY <1>3 DEF AgeInv, OneRun
    <2> QED BY <2>2, <2>3, PersistedFacts DEF NotNewer
<1> QED BY <1>1, <1>2, <1>3, NextRecordAge

LEMMA CrashAge ==
    ASSUME TypeOK, AgeInv, NEW w \in Workers, Crash(w)
    PROVE  AgeInv'
<1>1. /\ records' = [records EXCEPT ![w] = << >>]
      /\ \A v \in Workers : pc'[v] # "idle" => pc[v] # "idle"
      /\ UNCHANGED <<world, publishes, db, raws, overlap>>
    BY DEF Crash, database, TypeOK
<1>2. Held(w)' = {} /\ \A v \in Workers \ {w} : records'[v] = records[v] /\ Held(v)' = Held(v)
    BY <1>1 DEF TypeOK, Held
<1>3. FetchedInOrder'
    <2>1. \A v \in Workers : \A n \in Held(v)' :
             /\ Published(records'[v][n].items)
             /\ \A m \in 1 .. n : NotNewer(records'[v][m].items, records'[v][n].items)
        BY <1>2 DEF AgeInv, FetchedInOrder
    <2> QED BY <1>1, <2>1 DEF AgeInv, FetchedInOrder, NotNewer, Published
<1>4. ~ overlap => \A v \in Workers : \A n \in Held(v)' : NotNewer(raws, records'[v][n].items)
    BY <1>2 DEF AgeInv, OneRun
<1>5. OneRun'
    BY <1>1, <1>4 DEF AgeInv, OneRun, NotNewer
<1> QED BY <1>3, <1>5 DEF AgeInv

(* A record that is lost: the worker goes on, and nothing is stored.        *)
LEMMA LostRecordAge ==
    ASSUME TypeOK, AgeInv, NEW w \in Workers, pc[w] = "writing", NextRecord(w),
           UNCHANGED <<world, publishes, overlap, raws>>
    PROVE  AgeInv'
<1>1. Published(raws')
    BY DEF AgeInv, FetchedInOrder, Published
<1>2. ~ overlap => \A n \in Held(w) : n # 1 => NotNewer(raws', records[w][n].items)
    BY DEF AgeInv, OneRun, NotNewer
<1> QED BY <1>1, <1>2, NextRecordAge

LEMMA StepAge == TypeOK /\ AgeInv /\ [Next]_vars => AgeInv'
<1> SUFFICES ASSUME TypeOK, AgeInv, [Next]_vars PROVE AgeInv'
    OBVIOUS
<1>1. ASSUME NEW i \in Items, Publish(i) PROVE AgeInv'
    BY <1>1, PublishAge
<1>2. ASSUME NEW s \in Sources, PatchStatus(s) PROVE AgeInv'
    <2>1. UNCHANGED <<world, publishes, records, overlap, raws, pc>>
        BY <1>2 DEF PatchStatus, process
    <2> QED BY <2>1, AgeFrame
<1>3. ASSUME NEW w \in Workers, StartRun(w) PROVE AgeInv'
    BY <1>3, StartAge
<1>4. ASSUME NEW w \in Workers, Fetch(w) PROVE AgeInv'
    BY <1>4, FetchAge
<1>5. ASSUME NEW w \in Workers, LookUp(w) PROVE AgeInv'
    <2>1. /\ UNCHANGED <<world, publishes, records, overlap, raws>>
          /\ \A v \in Workers : pc'[v] # "idle" => pc[v] # "idle"
        BY <1>5 DEF LookUp, database, budget, TypeOK
    <2> QED BY <2>1, AgeFrame
<1>6. ASSUME NEW w \in Workers, Persist(w) PROVE AgeInv'
    BY <1>6, PersistAge
<1>7. ASSUME NEW w \in Workers, Conflict(w) \/ DbError(w) PROVE AgeInv'
    BY <1>7, LostRecordAge DEF Conflict, DbError, database, budget
<1>8. ASSUME NEW w \in Workers, Crash(w) PROVE AgeInv'
    BY <1>8, CrashAge
<1>9. CASE UNCHANGED vars
    <2>1. UNCHANGED <<world, publishes, records, overlap, raws, pc>>
        BY <1>9 DEF vars
    <2> QED BY <2>1, AgeFrame
<1> QED BY <1>1, <1>2, <1>3, <1>4, <1>5, <1>6, <1>7, <1>8, <1>9 DEF Next

LEMMA AgeInvariance == Spec => [](TypeOK /\ AgeInv)
    BY InitAge, StepAge, TypeCorrectness, PTL DEF Spec

(* As long as no two runs have been under way at once, no raw row is        *)
(* overwritten with an older version of its item, whatever runs leave out,  *)
(* fail, are lost or crash (upsert_raw_record).                             *)
THEOREM RawAdvances == Spec => RawNeverGoesBack
<1>1. ASSUME TypeOK, AgeInv, [Next]_vars, NEW i \in Items, ~ overlap
      PROVE  raws'[i] >= raws[i]
    <2>1. raws[i] \in Nat
        BY <1>1 DEF TypeOK
    <2>2. ASSUME NEW w \in Workers, Persist(w) PROVE raws'[i] >= raws[i]
        <3>1. 1 \in Held(w)
            BY <1>1, <2>2, PersistedFacts
        <3>2. NotNewer(raws, records[w][1].items)
            BY <1>1, <3>1 DEF AgeInv, OneRun
        <3>3. records[w][1].items[i] \in Nat
            BY <1>1, <3>1, HeldFacts
        <3> QED BY <1>1, <2>1, <2>2, <3>2, <3>3, PersistedFacts DEF NotNewer
    <2>3. CASE raws' = raws
        BY <2>1, <2>3
    <2> QED BY <1>1, <2>2, <2>3 DEF Next, vars, Publish, PatchStatus, StartRun, Fetch, LookUp,
            Conflict, DbError, Crash, database
<1>2. TypeOK /\ AgeInv /\ [Next]_vars => [\A i \in Items : overlap \/ raws'[i] >= raws[i]]_vars
    BY <1>1
<1> QED BY <1>2, AgeInvariance, PTL DEF Spec, RawNeverGoesBack
=============================================================================
