------------------------------- MODULE Scoring -------------------------------
(****************************************************************************)
(* The scoring stage of the worker: ScoringService in                       *)
(* src/worker/sentineldrive_worker/scoring/service.py, next to the merges   *)
(* that the normalization stage makes to the same core rows.  A process     *)
(* runs the two stages in turn; several processes may be running.           *)
(*                                                                          *)
(* The scorer reads a batch of candidates in one session, closes it, reads  *)
(* each row again in a session of its own (ReadEntry), computes the score   *)
(* in Python and writes risk_score, risk_level and the WHOLE metadata       *)
(* column (WriteScore).  A merge does the same thing the other way round:   *)
(* it reads the row and writes its list columns and its metadata column.    *)
(* Nothing locks the row between the two.                                   *)
(****************************************************************************)
EXTENDS ScoringRules, Sequences, FiniteSets

CONSTANTS
    Entries,       \* rows of threat_intelligence
    Keys,          \* keys of the metadata, but for scoring and sightings
    Reports,       \* what sources say of a row
    KeptSightings, \* how many sightings the metadata keeps (20)
    Presets,       \* scores a row may be created with, e.g. external_score
    Processes,     \* worker processes
    ForceFlags,    \* values of the parameter "force"
    BatchLimits,   \* limits of scoring_candidate_query: tasks differ
    Unscored,      \* risk_score IS NULL
    NoEntry,       \* the row does not exist
    Unexplained,   \* there is no metadata.scoring
    MaxMerges, MaxErrors, MaxCrashes   \* bounds

Scores == 0 .. 1000   \* in tenths of a point
Levels == {"info", "low", "medium", "high", "critical"}

(* What a text can say.  "listed": it is one of the dates and names that    *)
(* only a list of exploited vulnerabilities gives; "several": it is a       *)
(* vendor such as "multiple"; "blank": it is empty.                         *)
Marks == Senses \cup {"listed", "several", "blank"}
Words == {NoValue} \cup SUBSET Marks

(* The columns that merges write and rules read.  texts: columns that keep  *)
(* the first value that comes; a title that is only the CVE id is NoValue.  *)
(* words: what the columns say that collect every value that comes.         *)
Texts == {"title", "summary", "vendor", "product"}
Columns ==
    [cvss : {NoValue} \cup Int, vector : {NoValue} \cup Vectors,
     severity : DOMAIN SeverityFallback,
     exploit : {"exploited", "proof_of_concept", "none_known", "unknown"},
     confidence : DOMAIN ConfidenceWeight,
     component : {NoValue} \cup Components, surface : {NoValue} \cup Components,
     tags : SUBSET STRING, names : SUBSET STRING,
     texts : [Texts -> Words], words : SUBSET Senses]

(* The metadata without the explanation.  says: the value of each key, or   *)
(* NoValue where the key is not there.                                      *)
Metadata    == [says : [Keys -> Words], sightings : Seq(SUBSET Senses)]
Report      == [cols : Columns, says : [Keys -> Words], sighting : SUBSET Senses]
Signals     == [cols : Columns, meta : Metadata]
Explanation == [score : Scores, level : Levels, basis : Signals]
Merging     == [entry : Entries, report : Reports]
Row == [cols : Columns, meta : Metadata,
        score : {Unscored} \cup Scores, level : Levels,
        scoring : {Unexplained} \cup Explanation, updated : Nat]

ASSUME EntriesAssumption == IsFiniteSet(Entries)

ASSUME ReportsAssumption == Reports \subseteq Report

ASSUME ParametersAssumption == /\ Presets \subseteq Scores
                               /\ ForceFlags \subseteq BOOLEAN

ASSUME SentinelAssumption == /\ Unscored \notin Scores
                             /\ NoEntry \notin Row \cup Merging
                             /\ Unexplained \notin Explanation

ASSUME BoundAssumption == /\ BatchLimits \cup {KeptSightings} \subseteq Nat \ {0}
                          /\ {MaxMerges, MaxErrors, MaxCrashes} \subseteq Nat

VARIABLES
    table,      \* [Entries -> Row or NoEntry]
    pc,         \* where each process is
    batch,      \* rows a process remembers and has still to score
    copy,       \* the row a process has read in its open transaction
    merging,    \* [entry, report] of the merge a process is making
    clock,      \* number of writes so far: updated_at
    scored,     \* history: the rows a scorer has written
    merges, errors, crashes

process == <<pc, batch, copy, merging>>
vars == <<table, pc, batch, copy, merging, clock, scored, merges, errors, crashes>>

Rows == {e \in Entries : table[e] # NoEntry}

TypeOK ==
    /\ table \in [Entries -> {NoEntry} \cup Row]
    /\ pc \in [Processes -> {"idle", "merging", "batch", "scoring"}]
    /\ batch \in [Processes -> Seq(Entries)]
    /\ copy \in [Processes -> {NoEntry} \cup Row]
    /\ merging \in [Processes -> {NoEntry} \cup Merging]
    /\ scored \subseteq Rows
    /\ <<clock, merges, errors, crashes>> \in Nat \X Nat \X Nat \X Nat
    /\ \A p \in Processes :
          /\ pc[p] \in {"batch", "scoring"} <=> batch[p] # << >>
          /\ pc[p] = "merging" <=> merging[p] # NoEntry
          /\ pc[p] \in {"merging", "scoring"} <=> copy[p] # NoEntry

Init ==
    /\ table = [e \in Entries |-> NoEntry]
    /\ pc = [p \in Processes |-> "idle"]
    /\ batch = [p \in Processes |-> << >>]
    /\ copy = [p \in Processes |-> NoEntry]
    /\ merging = [p \in Processes |-> NoEntry]
    /\ scored = {}
    /\ clock = 0 /\ merges = 0 /\ errors = 0 /\ crashes = 0

-----------------------------------------------------------------------------
SignalsOf(row) == [cols |-> row.cols, meta |-> row.meta]

Said(words) == IF words = NoValue THEN {} ELSE words

(* searchable_text: the tables of terms that some text has a term of.  (No  *)
(* term is put together from two neighbouring texts.)                       *)
SensesOf(signals) ==
    {s \in Senses :
        \/ s \in signals.cols.words
        \/ \E t \in Texts : s \in Said(signals.cols.texts[t])
        \/ \E k \in Keys : s \in Said(signals.meta.says[k])
        \/ \E i \in DOMAIN signals.meta.sightings : s \in signals.meta.sightings[i]}

(* The record the rules are given: the row without its explanation.         *)
Evidence(signals) ==
    LET c == signals.cols IN
    [cvss |-> c.cvss, vector |-> c.vector, severity |-> c.severity,
     exploit |-> c.exploit, confidence |-> c.confidence,
     component |-> c.component, surface |-> c.surface,
     tags |-> c.tags, names |-> c.names,
     listed |-> \E k \in Keys : "listed" \in Said(signals.meta.says[k]),
     several |-> "several" \in Said(c.texts["vendor"]),
     senses |-> SensesOf(signals)]

(* score_threat_intelligence *)
Assess(row) ==
    LET result[r \in Assessable] ==
            [score |-> Score(r), level |-> Level(Score(r)), basis |-> SignalsOf(row)]
    IN  result[Evidence(SignalsOf(row))]

Candidate(e, force) ==
    /\ table[e] # NoEntry
    /\ force \/ table[e].score = Unscored \/ table[e].level = "info"

Priority(row) ==
    IF row.score = Unscored THEN 0 ELSE IF row.level = "info" THEN 1 ELSE 2

(* The ORDER BY: priority, then the least recently updated. *)
Precedes(d, e) ==
    \/ Priority(table[d]) < Priority(table[e])
    \/ /\ Priority(table[d]) = Priority(table[e])
       /\ table[d].updated < table[e].updated

Batches(force, limit) ==
    LET all == {e \in Entries : Candidate(e, force)}
        n   == IF Cardinality(all) < limit THEN Cardinality(all) ELSE limit
    IN  {q \in [1 .. n -> all] :
           /\ \A i, j \in 1 .. n : i < j => q[i] # q[j] /\ ~ Precedes(q[j], q[i])
           /\ \A e \in all : (\E i \in 1 .. n : Precedes(e, q[i])) =>
                                \E j \in 1 .. n : q[j] = e}

(* Mutant of IsCurrent: only the score is compared. *)
IsCurrentByScore(row, result) == row.score = result.score

(* scoring_is_current *)
IsCurrent(row, result) ==
    /\ row.score = result.score
    /\ row.level = result.level
    /\ row.scoring = result

(* Mutant of Rescored: the level is left as it was. *)
RescoredKeepsLevel(current, read, result) ==
    [current EXCEPT !.score = result.score, !.scoring = result,
                    !.level = IF @ = "info" THEN result.level ELSE @,
                    !.meta = read.meta, !.updated = clock + 1]

(* The UPDATE of score_row: the metadata column is the one that was read,   *)
(* with the new explanation in it.                                          *)
Rescored(current, read, result) ==
    [current EXCEPT !.score = result.score, !.level = result.level,
                    !.meta = read.meta, !.scoring = result, !.updated = clock + 1]

(* A column that is empty is filled, one that is not is left alone; a value *)
(* of a scale is replaced by a stronger one.  Both decide by what was read. *)
Fill(current, read, incoming) ==
    IF read = NoValue /\ incoming # NoValue THEN incoming ELSE current

Rank == [unknown |-> 0, low |-> 1, medium |-> 2, high |-> 3, critical |-> 4,
         none_known |-> 1, proof_of_concept |-> 2, exploited |-> 3]

(* Mutant of Stronger: a source that knows nothing overwrites what is known.*)
StrongerOrUnknown(current, read, incoming) ==
    IF Rank[incoming] > Rank[read] \/ incoming = "unknown" THEN incoming ELSE current

(* stronger_severity, stronger_exploit_status, stronger_confidence *)
Stronger(current, read, incoming) ==
    IF Rank[incoming] > Rank[read] THEN incoming ELSE current

MergedColumns(current, read, new) ==
    [cvss |-> Fill(current.cvss, read.cvss, new.cvss),
     vector |-> Fill(current.vector, read.vector, new.vector),
     severity |-> Stronger(current.severity, read.severity, new.severity),
     exploit |-> Stronger(current.exploit, read.exploit, new.exploit),
     confidence |-> Stronger(current.confidence, read.confidence, new.confidence),
     component |-> Fill(current.component, read.component, new.component),
     surface |-> Fill(current.surface, read.surface, new.surface),
     tags |-> read.tags \cup new.tags, names |-> read.names \cup new.names,
     texts |-> [t \in Texts |-> Fill(current.texts[t], read.texts[t], new.texts[t])],
     words |-> read.words \cup new.words]

Latest(s) ==
    IF Len(s) <= KeptSightings THEN s ELSE SubSeq(s, Len(s) - KeptSightings + 1, Len(s))

(* merge_metadata: a key that is there keeps its value, an empty one too;   *)
(* what the report says in passing is kept among the latest sightings.      *)
MergedMetadata(existing, report) ==
    [says |-> [k \in Keys |->
        IF existing.says[k] = NoValue /\ report.says[k] # {"blank"}
        THEN report.says[k] ELSE existing.says[k]],
     sightings |-> Latest(Append(existing.sightings, report.sighting))]

(* Mutant of WithMerge: the incoming default level wins. *)
WithMergeResets(current, read, report) ==
    [current EXCEPT !.cols = MergedColumns(@, read.cols, report.cols),
                    !.meta = MergedMetadata(read.meta, report),
                    !.level = "info",
                    !.scoring = read.scoring, !.updated = clock + 1]

(* The UPDATE of a merge, merge_normalized: the lists and the metadata, the *)
(* explanation included, are those that were read plus what came in.  (The  *)
(* score too is filled when it is empty, but the one normalizer that gives  *)
(* a score is for rows that no batch holds: Create.)                        *)
WithMerge(current, read, report) ==
    [current EXCEPT !.cols = MergedColumns(@, read.cols, report.cols),
                    !.meta = MergedMetadata(read.meta, report),
                    !.scoring = read.scoring, !.updated = clock + 1]

(* Mutant of Advance: the scorer never notices that its batch is used up. *)
AdvanceForever(p) ==
    /\ batch' = [batch EXCEPT ![p] = Tail(@)]
    /\ pc' = [pc EXCEPT ![p] = "batch"]
    /\ copy' = [copy EXCEPT ![p] = NoEntry]

(* On to the next remembered row, in a new session. *)
Advance(p) ==
    /\ batch' = [batch EXCEPT ![p] = Tail(@)]
    /\ pc' = [pc EXCEPT ![p] = IF Len(batch[p]) = 1 THEN "idle" ELSE "batch"]
    /\ copy' = [copy EXCEPT ![p] = NoEntry]

-----------------------------------------------------------------------------
LevelOfSeverity(severity) == IF severity = "unknown" THEN "info" ELSE severity

(* A row is created: by normalization without a score, by intake perhaps    *)
(* with one and with a level taken from its severity.                       *)
Create(e) ==
    /\ table[e] = NoEntry
    /\ \E r \in Reports, s \in {Unscored} \cup Presets :
       \E l \in {"info", LevelOfSeverity(r.cols.severity)} :
          table' = [table EXCEPT ![e] =
            [cols |-> r.cols, meta |-> [says |-> r.says, sightings |-> << >>],
             score |-> s, level |-> l, scoring |-> Unexplained, updated |-> clock + 1]]
    /\ clock' = clock + 1
    /\ UNCHANGED <<process, scored, merges, errors, crashes>>

(* upsert_normalized_record reads the row that it will merge into. *)
ReadForMerge(p) ==
    /\ pc[p] = "idle"
    /\ merges < MaxMerges
    /\ merges' = merges + 1
    /\ \E e \in Rows, r \in Reports :
          /\ merging' = [merging EXCEPT ![p] = [entry |-> e, report |-> r]]
          /\ copy' = [copy EXCEPT ![p] = table[e]]
    /\ pc' = [pc EXCEPT ![p] = "merging"]
    /\ UNCHANGED <<table, batch, clock, scored, errors, crashes>>

Merge(p) ==
    LET m == merging[p] IN
    /\ pc[p] = "merging"
    /\ table' = [table EXCEPT ![m.entry] = WithMerge(@, copy[p], m.report)]
    /\ clock' = clock + 1
    /\ pc' = [pc EXCEPT ![p] = "idle"]
    /\ copy' = [copy EXCEPT ![p] = NoEntry]
    /\ merging' = [merging EXCEPT ![p] = NoEntry]
    /\ UNCHANGED <<batch, scored, merges, errors, crashes>>

(* score_pending reads its candidates and closes the session. *)
LoadBatch(p) ==
    /\ pc[p] = "idle"
    /\ \E force \in ForceFlags, limit \in BatchLimits : \E q \in Batches(force, limit) \ {<< >>} :
          batch' = [batch EXCEPT ![p] = q]
    /\ pc' = [pc EXCEPT ![p] = "batch"]
    /\ UNCHANGED <<table, copy, merging, clock, scored, merges, errors, crashes>>

(* There is nothing to score. *)
EmptyBatch(p) ==
    /\ pc[p] = "idle"
    /\ \E force \in ForceFlags : \A e \in Entries : ~ Candidate(e, force)
    /\ UNCHANGED vars

(* The row is read again before it is scored; it is not asked again whether *)
(* it is still a candidate.                                                 *)
ReadEntry(p) ==
    /\ pc[p] = "batch"
    /\ copy' = [copy EXCEPT ![p] = table[batch[p][1]]]
    /\ pc' = [pc EXCEPT ![p] = "scoring"]
    /\ UNCHANGED <<table, batch, merging, clock, scored, merges, errors, crashes>>

(* Mutant of KeepScore: the time of update is written all the same. *)
KeepScoreTouches(p) ==
    /\ pc[p] = "scoring"
    /\ IsCurrent(copy[p], Assess(copy[p]))
    /\ table' = [table EXCEPT ![batch[p][1]].updated = clock + 1]
    /\ clock' = clock + 1
    /\ Advance(p)
    /\ UNCHANGED <<merging, scored, merges, errors, crashes>>

(* score_row finds the score it has just computed already there. *)
KeepScore(p) ==
    /\ pc[p] = "scoring"
    /\ IsCurrent(copy[p], Assess(copy[p]))
    /\ Advance(p)
    /\ UNCHANGED <<table, merging, clock, scored, merges, errors, crashes>>

WriteScore(p) ==
    LET e == batch[p][1]
        result == Assess(copy[p])
    IN
    /\ pc[p] = "scoring"
    /\ ~ IsCurrent(copy[p], result)
    /\ table' = [table EXCEPT ![e] = Rescored(@, copy[p], result)]
    /\ scored' = scored \cup {e}
    /\ clock' = clock + 1
    /\ Advance(p)
    /\ UNCHANGED <<merging, merges, errors, crashes>>

(* A database error: the row is reported as failed and left for a later run.*)
FailEntry(p) ==
    /\ pc[p] = "scoring"
    /\ errors < MaxErrors
    /\ errors' = errors + 1
    /\ Advance(p)
    /\ UNCHANGED <<table, merging, clock, scored, merges, crashes>>

(* The process dies and is restarted with nothing remembered. *)
Crash(p) ==
    /\ pc[p] # "idle"
    /\ crashes < MaxCrashes
    /\ crashes' = crashes + 1
    /\ pc' = [pc EXCEPT ![p] = "idle"]
    /\ batch' = [batch EXCEPT ![p] = << >>]
    /\ copy' = [copy EXCEPT ![p] = NoEntry]
    /\ merging' = [merging EXCEPT ![p] = NoEntry]
    /\ UNCHANGED <<table, clock, scored, merges, errors>>

Work(p) == Merge(p) \/ ReadEntry(p) \/ KeepScore(p) \/ WriteScore(p)

Next ==
    \/ \E e \in Entries : Create(e)
    \/ \E p \in Processes :
         ReadForMerge(p) \/ LoadBatch(p) \/ EmptyBatch(p) \/ Work(p)
           \/ FailEntry(p) \/ Crash(p)

Spec == Init /\ [][Next]_vars

(* The scheduler keeps starting runs, and a started run goes on. *)
FairSpec == Spec /\ \A p \in Processes : WF_vars(LoadBatch(p)) /\ WF_vars(Work(p))
-----------------------------------------------------------------------------
(* What holds for any number of processes.                                  *)

(* Once the scorer has scored a row, the row has a score, and the level is  *)
(* the one of that score: no merge or crash, and no other scorer, leaves    *)
(* the two columns telling different stories (score_row writes both).       *)
ScoreAndLevelAgree ==
    \A e \in scored : /\ table[e].score # Unscored
                      /\ table[e].level = Level(table[e].score)

(* Every row is scored in the end, whatever the batch limit, the errors and *)
(* the races: a failed row does not starve the others, nor is it forgotten. *)
EveryEntryIsScored == \A e \in Entries : Candidate(e, FALSE) ~> ~ Candidate(e, FALSE)

-----------------------------------------------------------------------------
(* What holds when one process at a time is running.                        *)

(* A row that has been scored carries the explanation of the score it has:  *)
(* metadata.scoring holds the score and the level shown (connectors.md).    *)
ScoresAreExplained ==
    \A e \in scored : /\ table[e].scoring # Unexplained
                      /\ table[e].scoring.score = table[e].score
                      /\ table[e].scoring.level = table[e].level

(* The ways in which what is new makes a record look safer: a CVSS score    *)
(* that weighs less than the severity it takes the place of; a vector that  *)
(* hides a text that says "remote", or that asks for high privileges; a     *)
(* component that weighs less than the surface it takes the place of; words *)
(* that say an attacker must be authenticated.                              *)
Reassures(q, r) ==
    \/ r.cvss = NoValue /\ q.cvss # NoValue /\ CvssOrSeverity(q) < CvssOrSeverity(r)
    \/ /\ r.vector = NoValue
       /\ (Access(q) = "A" /\ "remote" \in q.senses) \/ Privileges(q) = "H"
    \/ r.component = NoValue /\ VehicleComponent(q) < VehicleComponent(r)
    \/ "authenticated" \in q.senses \ r.senses

(* Something only said in a sighting that is no longer kept. *)
Forgotten(signals, row) ==
    \E i \in DOMAIN signals.meta.sightings :
        signals.meta.sightings[i] \ SensesOf(row) # {}

Countered(signals, row) ==
    Reassures(Evidence(row), Evidence(signals)) \/ Forgotten(signals, row)
=============================================================================
