---------------------------- MODULE ScoringProofs ----------------------------
(****************************************************************************)
(* Proofs about the scoring stage: what the rules guarantee for every       *)
(* record, what the stage guarantees for any rules, rows and processes, and *)
(* what it guarantees only while one process at a time is running.          *)
(****************************************************************************)
EXTENDS MCScoring, SequenceTheorems, FiniteSetTheorems, TLAPS

-----------------------------------------------------------------------------
(* The rules.                                                               *)

(* The amounts that the factors of a record can have. *)
LEMMA FactorsFacts ==
    ASSUME NEW r \in Assessable
    PROVE  /\ CvssOrSeverity(r) \in Int
           /\ Exploitation(r) \in {0, 120, 250}
           /\ PublicPoc(r) \in {0, 100}
           /\ Remote(r) \in {0, 70, 80, 100}
           /\ Authentication(r) \in {-40, 0, 30, 80}
           /\ VehicleComponent(r) \in Int
           /\ Shared(r) \in {0, 80}
           /\ ConfidenceWeight[r.confidence] \in {-80, 0, 50}
<1>1. CvssOrSeverity(r) \in Int
  <2>1. CASE r.cvss # NoValue
    <3>1. r.cvss \in Int
      BY <2>1 DEF Assessable
    <3> QED
      BY <2>1, <3>1 DEF CvssOrSeverity, Least, Most
  <2>2. CASE r.cvss = NoValue
    <3>1. r.severity \in {"critical", "high", "medium", "low", "unknown"}
      BY DEF Assessable, SeverityFallback
    <3> QED
      BY <2>2, <3>1 DEF CvssOrSeverity, SeverityFallback
  <2> QED
    BY <2>1, <2>2
<1>2. VehicleComponent(r) \in Int
  <2>1. ASSUME NEW c \in Components PROVE ComponentWeight[c] \in Int
    BY <2>1 DEF Components, ComponentWeight
  <2> QED
    BY <2>1 DEF VehicleComponent
<1>3. ConfidenceWeight[r.confidence] \in {-80, 0, 50}
  BY DEF Assessable, ConfidenceWeight
<1>4. /\ Exploitation(r) \in {0, 120, 250}
      /\ PublicPoc(r) \in {0, 100}
      /\ Shared(r) \in {0, 80}
  BY DEF Exploitation, PublicPoc, Shared
<1>5. /\ Remote(r) \in {0, 70, 80, 100}
      /\ Authentication(r) \in {-40, 0, 30, 80}
  BY DEF Remote, Authentication
<1> QED
  BY <1>1, <1>2, <1>3, <1>4, <1>5

(* A score is between 0 and 100 points, whatever the record says            *)
(* (bounded_score): a negative sum, or one above the top, is possible.      *)
THEOREM ScoreInRange ==
    ASSUME NEW r \in Assessable
    PROVE  Score(r) \in 0 .. 1000
<1> DEFINE sum == CvssOrSeverity(r) + Exploitation(r) + PublicPoc(r) + Remote(r)
                  + Authentication(r) + VehicleComponent(r) + Shared(r)
                  + ConfidenceWeight[r.confidence]
<1>1. sum \in Int
  BY FactorsFacts
<1>2. Score(r) = Bounded(sum)
  BY DEF Score
<1> HIDE DEF sum
<1> QED
  BY <1>1, <1>2 DEF Bounded, Least, Most

(* The level says where the score lies, and a higher score never has a      *)
(* lower level: the thresholds are in order (RISK_LEVELS).                  *)
THEOREM LevelFollowsScore ==
    ASSUME NEW s \in 0 .. 1000, NEW t \in 0 .. 1000, s <= t
    PROVE  /\ Level(t) = "low" => Level(s) = "low"
           /\ Level(t) = "medium" => Level(s) \in {"low", "medium"}
           /\ Level(s) = "critical" => Level(t) = "critical"
  BY DEF Level

(* The record q says all that r says, and perhaps more: what was empty may  *)
(* be filled, what has a scale has not gone down it, and nothing is missing *)
(* from the tags, the source names, the metadata and the texts.             *)
Filled(x, y) == y = x \/ x = NoValue

SaysMore(r, q) ==
    /\ Filled(r.cvss, q.cvss) /\ Filled(r.vector, q.vector)
    /\ Filled(r.component, q.component) /\ Filled(r.surface, q.surface)
    /\ Rank[r.severity] <= Rank[q.severity]
    /\ Rank[r.exploit] <= Rank[q.exploit]
    /\ Rank[r.confidence] <= Rank[q.confidence]
    /\ r.tags \subseteq q.tags /\ r.names \subseteq q.names
    /\ r.listed => q.listed
    /\ r.several => q.several
    /\ r.senses \subseteq q.senses

(* A stronger word of a scale weighs no less. *)
LEMMA ScalesFacts ==
    /\ \A x, y \in DOMAIN SeverityFallback :
          Rank[x] <= Rank[y] => SeverityFallback[x] <= SeverityFallback[y]
    /\ \A x, y \in DOMAIN ConfidenceWeight :
          Rank[x] <= Rank[y] => ConfidenceWeight[x] <= ConfidenceWeight[y]
    /\ \A x, y \in {"exploited", "proof_of_concept", "none_known", "unknown"} :
          Rank[x] <= Rank[y] => /\ x = "exploited" => y = "exploited"
                                /\ x = "proof_of_concept" => y \in {x, "exploited"}
<1>1. \A x, y \in {"critical", "high", "medium", "low", "unknown"} :
         Rank[x] <= Rank[y] => SeverityFallback[x] <= SeverityFallback[y]
  BY DEF Rank, SeverityFallback
<1>2. \A x, y \in {"high", "medium", "low"} :
         Rank[x] <= Rank[y] => ConfidenceWeight[x] <= ConfidenceWeight[y]
  BY DEF Rank, ConfidenceWeight
<1>3. \A x, y \in {"exploited", "proof_of_concept", "none_known", "unknown"} :
         Rank[x] <= Rank[y] => /\ x = "exploited" => y = "exploited"
                               /\ x = "proof_of_concept" => y \in {x, "exploited"}
  BY DEF Rank
<1>4. /\ DOMAIN SeverityFallback = {"critical", "high", "medium", "low", "unknown"}
      /\ DOMAIN ConfidenceWeight = {"high", "medium", "low"}
  BY DEF SeverityFallback, ConfidenceWeight
<1>5. QED
  BY <1>1, <1>2, <1>3, <1>4

LEMMA ExploitationRises ==
    ASSUME NEW r \in Assessable, NEW q \in Assessable, SaysMore(r, q)
    PROVE  Exploitation(r) <= Exploitation(q)
<1>1. /\ r.exploit = "exploited" => q.exploit = "exploited"
      /\ r.exploit = "proof_of_concept" => q.exploit \in {r.exploit, "exploited"}
  BY ScalesFacts DEF SaysMore, Assessable
<1>2. KnownExploited(r) => KnownExploited(q)
  BY <1>1 DEF KnownExploited, SaysMore
<1>3. r.exploit = "proof_of_concept" => q.exploit = "proof_of_concept" \/ KnownExploited(q)
  BY <1>1 DEF KnownExploited
<1>4. QED
  BY <1>2, <1>3 DEF Exploitation

LEMMA SeverityRises ==
    ASSUME NEW r \in Assessable, NEW q \in Assessable, SaysMore(r, q), ~ Reassures(q, r)
    PROVE  /\ CvssOrSeverity(r) <= CvssOrSeverity(q)
           /\ VehicleComponent(r) <= VehicleComponent(q)
           /\ ConfidenceWeight[r.confidence] <= ConfidenceWeight[q.confidence]
<1>1. /\ CvssOrSeverity(r) \in Int /\ CvssOrSeverity(q) \in Int
      /\ VehicleComponent(r) \in Int /\ VehicleComponent(q) \in Int
  BY FactorsFacts
<1>2. CvssOrSeverity(r) <= CvssOrSeverity(q)
  <2>1. CASE r.cvss # NoValue
    <3>1. q.cvss = r.cvss
      BY <2>1 DEF SaysMore, Filled
    <3>2. CvssOrSeverity(r) = CvssOrSeverity(q)
      BY <2>1, <3>1 DEF CvssOrSeverity
    <3>3. QED
      BY <1>1, <3>2
  <2>2. CASE r.cvss = NoValue /\ q.cvss # NoValue
    <3>1. ~ (CvssOrSeverity(q) < CvssOrSeverity(r))
      BY <2>2 DEF Reassures
    <3>2. QED
      BY <1>1, <3>1
  <2>3. CASE r.cvss = NoValue /\ q.cvss = NoValue
    <3>1. SeverityFallback[r.severity] <= SeverityFallback[q.severity]
      BY ScalesFacts DEF SaysMore, Assessable
    <3>2. QED
      BY <2>3, <3>1 DEF CvssOrSeverity
  <2>4. QED
    BY <2>1, <2>2, <2>3
<1>3. VehicleComponent(r) <= VehicleComponent(q)
  <2>1. CASE r.component = NoValue
    <3>1. ~ (VehicleComponent(q) < VehicleComponent(r))
      BY <2>1 DEF Reassures
    <3>2. QED
      BY <1>1, <3>1
  <2>2. CASE r.component # NoValue
    <3>1. q.component = r.component /\ r.component \in Components
      BY <2>2 DEF SaysMore, Filled, Assessable
    <3>2. VehicleComponent(q) = VehicleComponent(r)
      BY <3>1 DEF VehicleComponent
    <3>3. QED
      BY <1>1, <3>2
  <2>3. QED
    BY <2>1, <2>2
<1>4. ConfidenceWeight[r.confidence] <= ConfidenceWeight[q.confidence]
  BY ScalesFacts DEF SaysMore, Assessable
<1>5. QED
  BY <1>2, <1>3, <1>4

LEMMA TextRises ==
    ASSUME NEW r \in Assessable, NEW q \in Assessable, SaysMore(r, q), ~ Reassures(q, r)
    PROVE  /\ PublicPoc(r) <= PublicPoc(q)
           /\ Remote(r) <= Remote(q)
           /\ Authentication(r) <= Authentication(q)
           /\ Shared(r) <= Shared(q)
<1>1. PublicPoc(r) <= PublicPoc(q)
  BY DEF PublicPoc, SaysMore
<1>2. Shared(r) <= Shared(q)
  BY DEF Shared, SaysMore
<1>3. /\ "remote" \in r.senses => "remote" \in q.senses
      /\ "unauthenticated" \in r.senses => "unauthenticated" \in q.senses
      /\ "authenticated" \in q.senses <=> "authenticated" \in r.senses
  BY DEF SaysMore, Reassures
<1>4. {r.surface, r.component} \cap RemoteSurfaces # {}
        => {q.surface, q.component} \cap RemoteSurfaces # {}
  <2>1. NoValue \notin RemoteSurfaces
    BY NoValueAssumption DEF RemoteSurfaces
  <2>2. QED
    BY <2>1 DEF SaysMore, Filled
<1>5. CASE r.vector # NoValue
  <2>1. Access(q) = Access(r) /\ Privileges(q) = Privileges(r)
    BY <1>5 DEF SaysMore, Filled, Access, Privileges
  <2>2. Remote(r) <= Remote(q)
    BY <1>3, <1>4, <2>1 DEF Remote
  <2>3. Authentication(r) <= Authentication(q)
    BY <1>3, <2>1 DEF Authentication
  <2>4. QED
    BY <1>1, <1>2, <2>2, <2>3
<1>6. CASE r.vector = NoValue
  <2>1. Access(r) = NoValue /\ Privileges(r) = NoValue
    BY <1>6 DEF Access, Privileges
  <2>2. /\ ~ (Access(q) = "A" /\ "remote" \in q.senses)
        /\ Privileges(q) # "H"
    BY <1>6 DEF Reassures
  <2>3. NoValue \notin {"N", "A", "L", "H"}
    BY NoValueAssumption
  <2>4. Remote(r) <= Remote(q)
    BY <1>3, <1>4, <2>1, <2>2, <2>3 DEF Remote
  <2>5. Authentication(r) <= Authentication(q)
    BY <1>3, <2>1, <2>2, <2>3 DEF Authentication
  <2>6. QED
    BY <1>1, <1>2, <2>4, <2>5
<1>7. QED
  BY <1>5, <1>6

(* More evidence lowers a score only in the ways that Reassures names: tags,*)
(* source names, metadata, texts, severity, exploit status and confidence,  *)
(* which merges only extend or raise, and a vehicle surface never make a    *)
(* record look safer, however one factor hides another.                     *)
THEOREM EvidenceNeverLowers ==
    ASSUME NEW r \in Assessable, NEW q \in Assessable, SaysMore(r, q), ~ Reassures(q, r)
    PROVE  Score(r) <= Score(q)
<1> DEFINE x == CvssOrSeverity(r) + Exploitation(r) + PublicPoc(r) + Remote(r)
                + Authentication(r) + VehicleComponent(r) + Shared(r)
                + ConfidenceWeight[r.confidence]
           y == CvssOrSeverity(q) + Exploitation(q) + PublicPoc(q) + Remote(q)
                + Authentication(q) + VehicleComponent(q) + Shared(q)
                + ConfidenceWeight[q.confidence]
<1>1. x \in Int /\ y \in Int /\ x <= y
  <2>1. \A z \in {r, q} :
           /\ CvssOrSeverity(z) \in Int /\ VehicleComponent(z) \in Int
           /\ ConfidenceWeight[z.confidence] \in Int
           /\ Exploitation(z) \in Int /\ PublicPoc(z) \in Int /\ Remote(z) \in Int
           /\ Authentication(z) \in Int /\ Shared(z) \in Int
    BY FactorsFacts
  <2>2. /\ CvssOrSeverity(r) <= CvssOrSeverity(q)
        /\ VehicleComponent(r) <= VehicleComponent(q)
        /\ ConfidenceWeight[r.confidence] <= ConfidenceWeight[q.confidence]
        /\ Exploitation(r) <= Exploitation(q)
        /\ PublicPoc(r) <= PublicPoc(q) /\ Remote(r) <= Remote(q)
        /\ Authentication(r) <= Authentication(q) /\ Shared(r) <= Shared(q)
    BY ExploitationRises, SeverityRises, TextRises
  <2>3. QED
    BY <2>1, <2>2
<1>2. Score(r) = Bounded(x) /\ Score(q) = Bounded(y)
  BY DEF Score
<1> HIDE DEF x, y
<1>3. QED
  BY <1>1, <1>2 DEF Bounded, Least, Most

(* What is said goes on being said in what has grown from it. *)
Grown(a, b) ==
    /\ Filled(a.cols.cvss, b.cols.cvss) /\ Filled(a.cols.vector, b.cols.vector)
    /\ Filled(a.cols.component, b.cols.component) /\ Filled(a.cols.surface, b.cols.surface)
    /\ Rank[a.cols.severity] <= Rank[b.cols.severity]
    /\ Rank[a.cols.exploit] <= Rank[b.cols.exploit]
    /\ Rank[a.cols.confidence] <= Rank[b.cols.confidence]
    /\ a.cols.tags \subseteq b.cols.tags /\ a.cols.names \subseteq b.cols.names
    /\ a.cols.words \subseteq b.cols.words
    /\ \A t \in Texts : Filled(a.cols.texts[t], b.cols.texts[t])
    /\ \A k \in Keys : Filled(a.meta.says[k], b.meta.says[k])

LEMMA EvidenceFacts ==
    ASSUME NEW signals \in Signals
    PROVE  Evidence(signals) \in Assessable
<1>1. signals.cols \in Columns
  BY DEF Signals
<1>2. PICK listed \in BOOLEAN :
         listed = \E k \in Keys : "listed" \in Said(signals.meta.says[k])
  BY Zenon
<1>3. PICK several \in BOOLEAN : several = ("several" \in Said(signals.cols.texts["vendor"]))
  <2>1. ("several" \in Said(signals.cols.texts["vendor"])) \in BOOLEAN
    OBVIOUS
  <2>2. QED
    BY <2>1, Zenon
<1>4. PICK senses \in SUBSET Senses : senses = SensesOf(signals)
  BY DEF SensesOf
<1>5. QED
  BY <1>1, <1>2, <1>3, <1>4 DEF Evidence, Columns, Assessable

LEMMA GrownSaysMore ==
    ASSUME NEW a \in Signals, NEW b \in Signals, Grown(a, b), ~ Forgotten(a, b)
    PROVE  SaysMore(Evidence(a), Evidence(b))
<1>1. ASSUME NEW x, NEW y, Filled(x, y) PROVE Said(x) \subseteq Said(y)
  BY <1>1 DEF Filled, Said
<1>2. SensesOf(a) \subseteq SensesOf(b)
  <2> SUFFICES ASSUME NEW s \in SensesOf(a) PROVE s \in SensesOf(b)
    OBVIOUS
  <2>1. CASE s \in a.cols.words
    BY <2>1 DEF SensesOf, Grown
  <2>2. ASSUME NEW t \in Texts, s \in Said(a.cols.texts[t]) PROVE s \in SensesOf(b)
    <3>1. s \in Said(b.cols.texts[t])
      BY <1>1, <2>2 DEF Grown
    <3>2. QED
      BY <3>1 DEF SensesOf
  <2>3. ASSUME NEW k \in Keys, s \in Said(a.meta.says[k]) PROVE s \in SensesOf(b)
    <3>1. s \in Said(b.meta.says[k])
      BY <1>1, <2>3 DEF Grown
    <3>2. QED
      BY <3>1 DEF SensesOf
  <2>4. ASSUME NEW i \in DOMAIN a.meta.sightings, s \in a.meta.sightings[i]
        PROVE  s \in SensesOf(b)
    BY <2>4 DEF Forgotten
  <2>5. QED
    BY <2>1, <2>2, <2>3, <2>4 DEF SensesOf
<1>3. (\E k \in Keys : "listed" \in Said(a.meta.says[k]))
        => \E k \in Keys : "listed" \in Said(b.meta.says[k])
  BY <1>1 DEF Grown
<1>4. "several" \in Said(a.cols.texts["vendor"]) => "several" \in Said(b.cols.texts["vendor"])
  BY <1>1 DEF Grown, Texts
<1>5. QED
  BY <1>2, <1>3, <1>4 DEF SaysMore, Evidence, Grown

-----------------------------------------------------------------------------
(* The stage, with any number of processes.                                 *)

(* What a process remembers exists: rows are never deleted. *)
Remembered ==
    \A p \in Processes :
        /\ \A i \in 1 .. Len(batch[p]) : batch[p][i] \in Rows
        /\ merging[p] # NoEntry => merging[p].entry \in Rows

IInv == TypeOK /\ Remembered /\ ScoreAndLevelAgree

(* The assessment of a row is an explanation, with the level of its score. *)
LEMMA AssessFacts ==
    ASSUME NEW row \in Row
    PROVE  /\ Assess(row) \in Explanation
           /\ Assess(row).level = Level(Assess(row).score)
           /\ Assess(row).score \in Scores
           /\ Assess(row).level # "info"
           /\ Assess(row).basis = SignalsOf(row)
           /\ Assess(row).score = Score(Evidence(SignalsOf(row)))
<1> DEFINE r == Evidence(SignalsOf(row))  s == Score(r)
<1>1. SignalsOf(row) \in Signals
  BY DEF SignalsOf, Signals, Row
<1>2. r \in Assessable
  BY <1>1, EvidenceFacts
<1>3. s \in Scores
  BY <1>2, ScoreInRange DEF Scores
<1>4. Level(s) \in Levels \ {"info"}
  BY DEF Level, Levels
<1>5. Assess(row) = [score |-> s, level |-> Level(s), basis |-> SignalsOf(row)]
  BY <1>2 DEF Assess
<1> HIDE DEF s
<1>6. QED
  BY <1>1, <1>3, <1>4, <1>5 DEF Explanation, s

(* Scoring a row keeps it a row and gives it a score and the score's level. *)
LEMMA RescoredFacts ==
    ASSUME TypeOK, NEW current \in Row, NEW read \in Row
    PROVE  LET row == Rescored(current, read, Assess(read)) IN
           /\ row \in Row
           /\ row.score \in Scores
           /\ row.level = Level(row.score)
           /\ row.level # "info"
<1> DEFINE result == Assess(read)
<1>1. /\ result \in Explanation
      /\ result.score \in Scores
      /\ result.level \in Levels
      /\ result.level = Level(result.score)
      /\ result.level # "info"
  BY AssessFacts DEF Explanation
<1>2. clock + 1 \in Nat
  BY DEF TypeOK
<1> HIDE DEF result
<1>3. Rescored(current, read, result) \in Row
  BY <1>1, <1>2 DEF Rescored, Row
<1>4. /\ Rescored(current, read, result).score = result.score
      /\ Rescored(current, read, result).level = result.level
  BY DEF Rescored, Row
<1> QED
  BY <1>1, <1>3, <1>4 DEF result

(* What merges write are columns and metadata again. *)
LEMMA ColumnsFacts ==
    ASSUME NEW current \in Columns, NEW read \in Columns, NEW new \in Columns
    PROVE  MergedColumns(current, read, new) \in Columns
<1>1. /\ Fill(current.cvss, read.cvss, new.cvss) \in {NoValue} \cup Int
      /\ Fill(current.vector, read.vector, new.vector) \in {NoValue} \cup Vectors
      /\ Fill(current.component, read.component, new.component) \in {NoValue} \cup Components
      /\ Fill(current.surface, read.surface, new.surface) \in {NoValue} \cup Components
  BY DEF Fill, Columns
<1>2. /\ Stronger(current.severity, read.severity, new.severity) \in DOMAIN SeverityFallback
      /\ Stronger(current.exploit, read.exploit, new.exploit)
            \in {"exploited", "proof_of_concept", "none_known", "unknown"}
      /\ Stronger(current.confidence, read.confidence, new.confidence) \in DOMAIN ConfidenceWeight
  BY DEF Stronger, Columns
<1>3. /\ read.tags \cup new.tags \in SUBSET STRING
      /\ read.names \cup new.names \in SUBSET STRING
      /\ read.words \cup new.words \in SUBSET Senses
  BY DEF Columns
<1>4. [t \in Texts |-> Fill(current.texts[t], read.texts[t], new.texts[t])] \in [Texts -> Words]
  BY DEF Fill, Columns
<1>5. QED
  BY <1>1, <1>2, <1>3, <1>4 DEF MergedColumns, Columns

LEMMA MetadataFacts ==
    ASSUME NEW existing \in Metadata, NEW report \in Report
    PROVE  MergedMetadata(existing, report) \in Metadata
<1> DEFINE all == Append(existing.sightings, report.sighting)
           says == [k \in Keys |->
                      IF existing.says[k] = NoValue /\ report.says[k] # {"blank"}
                      THEN report.says[k] ELSE existing.says[k]]
<1>1. all \in Seq(SUBSET Senses)
  BY DEF Metadata, Report
<1>2. says \in [Keys -> Words]
  BY DEF Metadata, Report
<1>3. Latest(all) \in Seq(SUBSET Senses)
  <2> HIDE DEF all
  <2>1. KeptSightings \in Nat \ {0}
    BY BoundAssumption
  <2>2. Len(all) \in Nat
    BY <1>1, LenProperties
  <2>3. CASE Len(all) <= KeptSightings
    BY <1>1, <2>3 DEF Latest
  <2>4. CASE ~ (Len(all) <= KeptSightings)
    <3>1. SubSeq(all, Len(all) - KeptSightings + 1, Len(all)) \in Seq(SUBSET Senses)
      BY <1>1, <2>1, <2>2, <2>4, SubSeqProperties
    <3>2. QED
      BY <2>4, <3>1 DEF Latest
  <2>5. QED
    BY <2>3, <2>4
<1>4. MergedMetadata(existing, report) = [says |-> says, sightings |-> Latest(all)]
  BY DEF MergedMetadata
<1> HIDE DEF says, all
<1>5. QED
  BY <1>2, <1>3, <1>4 DEF Metadata

(* A merge keeps a row a row, and leaves its score and level alone. *)
LEMMA WithMergeFacts ==
    ASSUME TypeOK, NEW current \in Row, NEW read \in Row, NEW report \in Reports
    PROVE  LET row == WithMerge(current, read, report) IN
           /\ row \in Row
           /\ row.score = current.score
           /\ row.level = current.level
<1>1. clock + 1 \in Nat
  BY DEF TypeOK
<1>2. report \in Report
  BY ReportsAssumption
<1>3. PICK cols \in Columns : cols = MergedColumns(current.cols, read.cols, report.cols)
  BY <1>2, ColumnsFacts DEF Row, Report
<1>4. PICK meta \in Metadata : meta = MergedMetadata(read.meta, report)
  BY <1>2, MetadataFacts DEF Row
<1>5. WithMerge(current, read, report) =
         [current EXCEPT !.cols = cols, !.meta = meta,
                         !.scoring = read.scoring, !.updated = clock + 1]
  BY <1>3, <1>4 DEF WithMerge, Row
<1>6. QED
  BY <1>1, <1>5 DEF Row

(* Going on to the next remembered row keeps a process well-formed. *)
LEMMA AdvanceFacts ==
    ASSUME TypeOK, Remembered, NEW p \in Processes,
           pc[p] = "scoring", Advance(p)
    PROVE  /\ pc' \in [Processes -> {"idle", "merging", "batch", "scoring"}]
           /\ batch' \in [Processes -> Seq(Entries)]
           /\ copy' \in [Processes -> Row \cup {NoEntry}]
           /\ copy'[p] = NoEntry
           /\ pc'[p] \in {"idle", "batch"}
           /\ pc'[p] = "idle" <=> batch'[p] = << >>
           /\ \A i \in 1 .. Len(batch'[p]) : batch'[p][i] \in Rows
           /\ \A q \in Processes \ {p} :
                 pc'[q] = pc[q] /\ batch'[q] = batch[q] /\ copy'[q] = copy[q]
<1>1. /\ batch[p] \in Seq(Entries)
      /\ batch[p] # << >>
  BY DEF TypeOK
<1>2. /\ Tail(batch[p]) \in Seq(Entries)
      /\ Len(Tail(batch[p])) = Len(batch[p]) - 1
      /\ \A i \in 1 .. Len(Tail(batch[p])) : Tail(batch[p])[i] = batch[p][i + 1]
  BY <1>1, HeadTailProperties
<1>3. Len(batch[p]) \in Nat /\ Len(batch[p]) >= 1
  BY <1>1, EmptySeq, LenProperties
<1>4. Len(batch[p]) = 1 <=> Tail(batch[p]) = << >>
  <2>1. Tail(batch[p]) = << >> <=> Len(Tail(batch[p])) = 0
    BY <1>2, EmptySeq
  <2>2. Len(Tail(batch[p])) = 0 <=> Len(batch[p]) = 1
    BY <1>2, <1>3
  <2> QED
    BY <2>1, <2>2
<1>5. /\ batch' \in [Processes -> Seq(Entries)]
      /\ batch'[p] = Tail(batch[p])
      /\ pc' \in [Processes -> {"idle", "merging", "batch", "scoring"}]
      /\ pc'[p] = IF Len(batch[p]) = 1 THEN "idle" ELSE "batch"
      /\ copy' \in [Processes -> Row \cup {NoEntry}]
      /\ copy'[p] = NoEntry
      /\ \A q \in Processes \ {p} :
            pc'[q] = pc[q] /\ batch'[q] = batch[q] /\ copy'[q] = copy[q]
  BY <1>2 DEF TypeOK, Advance
<1>6. \A i \in 1 .. Len(batch'[p]) : batch'[p][i] \in Rows
  <2> TAKE i \in 1 .. Len(batch'[p])
  <2>1. i + 1 \in 1 .. Len(batch[p]) /\ batch'[p][i] = batch[p][i + 1]
    BY <1>2, <1>3, <1>5
  <2> QED
    BY <2>1 DEF Remembered
<1> QED
  BY <1>4, <1>5, <1>6

LEMMA InitIInv == Init => IInv
<1> SUFFICES ASSUME Init PROVE IInv
  OBVIOUS
<1>1. << >> \in Seq(Entries) /\ Len(<< >>) = 0
  OBVIOUS
<1>2. TypeOK
  BY <1>1 DEF Init, TypeOK
<1>3. Remembered
  BY <1>1 DEF Init, Remembered
<1>4. ScoreAndLevelAgree
  BY DEF Init, ScoreAndLevelAgree
<1> QED
  BY <1>2, <1>3, <1>4 DEF IInv

(* Writing one row leaves the others alone and removes none. *)
LEMMA WriteFacts ==
    ASSUME TypeOK, NEW e \in Entries, NEW row \in Row,
           table' = [table EXCEPT ![e] = row]
    PROVE  /\ table' \in [Entries -> Row \cup {NoEntry}]
           /\ table'[e] = row
           /\ \A d \in Entries \ {e} : table'[d] = table[d]
           /\ Rows \subseteq Rows'
           /\ e \in Rows'
<1>1. /\ table' \in [Entries -> Row \cup {NoEntry}]
      /\ table'[e] = row
      /\ \A d \in Entries \ {e} : table'[d] = table[d]
  BY DEF TypeOK
<1>2. row # NoEntry
  BY SentinelAssumption
<1> QED
  BY <1>1, <1>2 DEF Rows

(* Scores and levels go on agreeing when the scored rows keep theirs. *)
LEMMA AgreeFacts ==
    ASSUME ScoreAndLevelAgree,
           \A e \in scored' : \/ /\ e \in scored
                                 /\ table'[e].score = table[e].score
                                 /\ table'[e].level = table[e].level
                              \/ /\ table'[e].score \in Scores
                                 /\ table'[e].level = Level(table'[e].score)
    PROVE  ScoreAndLevelAgree'
BY SentinelAssumption DEF ScoreAndLevelAgree

LEMMA CreateIInv ==
    ASSUME IInv, NEW e \in Entries, Create(e)
    PROVE  IInv'
<1> USE DEF IInv
<1>1. PICK r \in Reports, s \in {Unscored} \cup Presets :
         \E l \in {"info", LevelOfSeverity(r.cols.severity)} :
            table' = [table EXCEPT ![e] =
              [cols |-> r.cols, meta |-> [says |-> r.says, sightings |-> << >>],
               score |-> s, level |-> l, scoring |-> Unexplained, updated |-> clock + 1]]
  BY DEF Create
<1>0. PICK l \in {"info", LevelOfSeverity(r.cols.severity)} :
         table' = [table EXCEPT ![e] =
            [cols |-> r.cols, meta |-> [says |-> r.says, sightings |-> << >>],
             score |-> s, level |-> l, scoring |-> Unexplained, updated |-> clock + 1]]
  BY <1>1
<1> DEFINE row == [cols |-> r.cols, meta |-> [says |-> r.says, sightings |-> << >>],
                   score |-> s, level |-> l, scoring |-> Unexplained, updated |-> clock + 1]
<1>2. row \in Row
  <2>1. r.cols \in Columns /\ r.says \in [Keys -> Words]
    BY ReportsAssumption DEF Report
  <2>2. [says |-> r.says, sightings |-> << >>] \in Metadata
    BY <2>1 DEF Metadata
  <2>3. l \in Levels
    <3>1. r.cols.severity \in {"critical", "high", "medium", "low", "unknown"}
      BY <2>1 DEF Columns, SeverityFallback
    <3>2. QED
      BY <3>1 DEF LevelOfSeverity, Levels
  <2>4. s \in {Unscored} \cup Scores /\ clock + 1 \in Nat
    BY ParametersAssumption DEF TypeOK
  <2>5. QED
    BY <2>1, <2>2, <2>3, <2>4 DEF Row
<1> HIDE DEF row
<1>3. table' = [table EXCEPT ![e] = row]
  BY <1>0 DEF row
<1>4. /\ table' \in [Entries -> Row \cup {NoEntry}]
      /\ \A d \in Entries \ {e} : table'[d] = table[d]
      /\ Rows \subseteq Rows'
  BY <1>2, <1>3, WriteFacts
<1>5. TypeOK'
  BY <1>4 DEF Create, process, TypeOK
<1>6. Remembered'
  BY <1>4 DEF Create, process, Remembered
<1>7. ScoreAndLevelAgree'
  <2>1. \A d \in scored : d # e /\ table'[d] = table[d]
    BY <1>4 DEF Create, TypeOK, Rows
  <2> QED
    BY <2>1, AgreeFacts DEF Create
<1> QED
  BY <1>5, <1>6, <1>7

LEMMA ReadForMergeIInv ==
    ASSUME IInv, NEW p \in Processes, ReadForMerge(p)
    PROVE  IInv'
<1> USE DEF IInv
<1>1. PICK e \in Rows, report \in Reports :
         /\ merging' = [merging EXCEPT ![p] = [entry |-> e, report |-> report]]
         /\ copy' = [copy EXCEPT ![p] = table[e]]
  BY DEF ReadForMerge
<1> DEFINE m == [entry |-> e, report |-> report]
<1>3. m \in Merging /\ m.entry \in Rows /\ m # NoEntry
  <2>1. m \in Merging
    BY DEF Merging, Rows
  <2>2. QED
    BY <2>1, SentinelAssumption
<1>4. table[e] \in Row /\ table[e] # NoEntry
  BY SentinelAssumption DEF TypeOK, Rows
<1> HIDE DEF m
<1>5. merging' = [merging EXCEPT ![p] = m]
  BY <1>1 DEF m
<1>6. UNCHANGED <<table, batch, clock, scored, errors, crashes>>
  BY DEF ReadForMerge
<1>7. /\ pc[p] = "idle"
      /\ pc' = [pc EXCEPT ![p] = "merging"]
      /\ merges' = merges + 1
  BY DEF ReadForMerge
<1>8. TypeOK'
  BY <1>1, <1>3, <1>4, <1>5, <1>6, <1>7 DEF TypeOK, Rows
<1>9. Remembered'
  BY <1>3, <1>5, <1>6 DEF TypeOK, Remembered, Rows
<1>10. ScoreAndLevelAgree'
  BY <1>6 DEF ScoreAndLevelAgree
<1> QED
  BY <1>8, <1>9, <1>10

LEMMA MergeIInv ==
    ASSUME IInv, NEW p \in Processes, Merge(p)
    PROVE  IInv'
<1> USE DEF IInv
<1> DEFINE e == merging[p].entry
           row == WithMerge(table[e], copy[p], merging[p].report)
<1>1. /\ e \in Rows /\ e \in Entries
      /\ merging[p].report \in Reports
      /\ copy[p] \in Row
      /\ table[e] \in Row
  BY DEF Merge, TypeOK, Remembered, Rows, Merging
<1>2. /\ row \in Row
      /\ row.score = table[e].score
      /\ row.level = table[e].level
  BY <1>1, WithMergeFacts
<1>3. table' = [table EXCEPT ![e] = row]
  BY DEF Merge
<1> HIDE DEF row
<1>4. /\ table' \in [Entries -> Row \cup {NoEntry}]
      /\ table'[e] = row
      /\ \A d \in Entries \ {e} : table'[d] = table[d]
      /\ Rows \subseteq Rows'
  BY <1>1, <1>2, <1>3, WriteFacts
<1>5. /\ pc' = [pc EXCEPT ![p] = "idle"]
      /\ copy' = [copy EXCEPT ![p] = NoEntry]
      /\ merging' = [merging EXCEPT ![p] = NoEntry]
      /\ clock' = clock + 1
      /\ UNCHANGED <<batch, scored, merges, errors, crashes>>
      /\ pc[p] = "merging"
  BY DEF Merge
<1>6. TypeOK'
  BY <1>4, <1>5 DEF TypeOK
<1>7. Remembered'
  BY <1>4, <1>5 DEF TypeOK, Remembered
<1>8. ScoreAndLevelAgree'
  <2>1. \A d \in scored : /\ table'[d].score = table[d].score
                          /\ table'[d].level = table[d].level
    BY <1>2, <1>4 DEF TypeOK, Rows
  <2> QED
    BY <1>5, <2>1, AgreeFacts
<1> QED
  BY <1>6, <1>7, <1>8

LEMMA BatchesFacts ==
    ASSUME TypeOK, NEW force \in ForceFlags, NEW limit \in BatchLimits,
           NEW q \in Batches(force, limit)
    PROVE  /\ q \in Seq(Entries)
           /\ \A i \in 1 .. Len(q) : q[i] \in Rows
<1> DEFINE all == {e \in Entries : Candidate(e, force)}
           n == IF Cardinality(all) < limit THEN Cardinality(all) ELSE limit
<1>1. Cardinality(all) \in Nat
  <2>1. IsFiniteSet(all)
    BY EntriesAssumption, FS_Subset
  <2> QED
    BY <2>1, FS_CardinalityType
<1>2. n \in Nat
  BY <1>1, BoundAssumption
<1>3. q \in [1 .. n -> all]
  BY DEF Batches
<1>4. all \subseteq Rows /\ all \subseteq Entries
  BY DEF Candidate, Rows
<1> HIDE DEF all, n
<1>5. q \in Seq(all) /\ Len(q) = n
  BY <1>2, <1>3, IsASeq
<1>6. \A i \in 1 .. Len(q) : q[i] \in all
  BY <1>3, <1>5
<1>7. q \in [1 .. n -> Entries]
  BY <1>3, <1>4
<1> QED
  BY <1>2, <1>4, <1>6, <1>7, IsASeq

LEMMA LoadBatchIInv ==
    ASSUME IInv, NEW p \in Processes, LoadBatch(p)
    PROVE  IInv'
<1> USE DEF IInv
<1>1. PICK force \in ForceFlags, limit \in BatchLimits :
         \E q \in Batches(force, limit) \ {<< >>} : batch' = [batch EXCEPT ![p] = q]
  BY DEF LoadBatch
<1>2. PICK q \in Batches(force, limit) \ {<< >>} : batch' = [batch EXCEPT ![p] = q]
  BY <1>1
<1>3. /\ q \in Seq(Entries)
      /\ q # << >>
      /\ \A i \in 1 .. Len(q) : q[i] \in Rows
  BY BatchesFacts
<1>4. /\ pc[p] = "idle"
      /\ pc' = [pc EXCEPT ![p] = "batch"]
      /\ UNCHANGED <<table, copy, merging, clock, scored, merges, errors, crashes>>
  BY DEF LoadBatch
<1>5. TypeOK'
  BY <1>2, <1>3, <1>4 DEF TypeOK, Rows
<1>6. Remembered'
  <2>1. /\ batch'[p] = q
        /\ \A r \in Processes \ {p} : batch'[r] = batch[r]
    BY <1>2 DEF TypeOK
  <2>2. Rows' = Rows /\ merging' = merging
    BY <1>4 DEF Rows
  <2> QED
    BY <1>3, <2>1, <2>2 DEF Remembered
<1>7. ScoreAndLevelAgree'
  BY <1>4 DEF ScoreAndLevelAgree
<1> QED
  BY <1>5, <1>6, <1>7

LEMMA ReadEntryIInv ==
    ASSUME IInv, NEW p \in Processes, ReadEntry(p)
    PROVE  IInv'
<1> USE DEF IInv
<1>1. /\ pc[p] = "batch"
      /\ pc' = [pc EXCEPT ![p] = "scoring"]
      /\ copy' = [copy EXCEPT ![p] = table[batch[p][1]]]
      /\ UNCHANGED <<table, batch, merging, clock, scored, merges, errors, crashes>>
  BY DEF ReadEntry
<1>2. batch[p] \in Seq(Entries) /\ batch[p] # << >>
  BY <1>1 DEF TypeOK
<1>3. 1 \in 1 .. Len(batch[p])
  BY <1>2, EmptySeq, LenProperties
<1>4. table[batch[p][1]] \in Row /\ table[batch[p][1]] # NoEntry
  BY <1>3, SentinelAssumption DEF Remembered, Rows, TypeOK
<1>5. TypeOK'
  BY <1>1, <1>4 DEF TypeOK, Rows
<1>6. Remembered'
  BY <1>1 DEF Remembered, Rows
<1>7. ScoreAndLevelAgree'
  BY <1>1 DEF ScoreAndLevelAgree
<1> QED
  BY <1>5, <1>6, <1>7

(* Going on, while the table changes by at most one row. *)
LEMMA AdvanceIInv ==
    ASSUME TypeOK, Remembered, NEW p \in Processes,
           pc[p] = "scoring", Advance(p),
           table' \in [Entries -> Row \cup {NoEntry}],
           Rows \subseteq Rows', scored' \subseteq Rows',
           UNCHANGED merging,
           <<clock, merges, errors, crashes>>' \in Nat \X Nat \X Nat \X Nat
    PROVE  TypeOK' /\ Remembered'
<1>1. /\ pc' \in [Processes -> {"idle", "merging", "batch", "scoring"}]
      /\ batch' \in [Processes -> Seq(Entries)]
      /\ copy' \in [Processes -> Row \cup {NoEntry}]
      /\ copy'[p] = NoEntry
      /\ pc'[p] \in {"idle", "batch"}
      /\ pc'[p] = "idle" <=> batch'[p] = << >>
      /\ \A i \in 1 .. Len(batch'[p]) : batch'[p][i] \in Rows
      /\ \A q \in Processes \ {p} :
            pc'[q] = pc[q] /\ batch'[q] = batch[q] /\ copy'[q] = copy[q]
  BY AdvanceFacts
<1>2. ASSUME NEW q \in Processes
      PROVE  /\ pc'[q] \in {"batch", "scoring"} <=> batch'[q] # << >>
             /\ pc'[q] = "merging" <=> merging'[q] # NoEntry
             /\ pc'[q] \in {"merging", "scoring"} <=> copy'[q] # NoEntry
  <2>1. CASE q = p
    BY <1>1, <2>1 DEF TypeOK
  <2>2. CASE q # p
    BY <1>1, <2>2 DEF TypeOK
  <2> QED
    BY <2>1, <2>2
<1>3. TypeOK'
  BY <1>1, <1>2 DEF TypeOK
<1>4. Remembered'
  <2> SUFFICES ASSUME NEW q \in Processes
               PROVE  /\ \A i \in 1 .. Len(batch'[q]) : batch'[q][i] \in Rows'
                      /\ merging'[q] # NoEntry => merging'[q].entry \in Rows'
    BY DEF Remembered
  <2>1. CASE q = p
    BY <1>1, <2>1 DEF Remembered
  <2>2. CASE q # p
    BY <1>1, <2>2 DEF Remembered
  <2> QED
    BY <2>1, <2>2
<1> QED
  BY <1>3, <1>4

LEMMA KeepScoreIInv ==
    ASSUME IInv, NEW p \in Processes, KeepScore(p)
    PROVE  IInv'
<1>1. /\ pc[p] = "scoring"
      /\ Advance(p)
      /\ UNCHANGED <<table, merging, clock, scored, merges, errors, crashes>>
  BY DEF KeepScore
<1>2. TypeOK' /\ Remembered'
  BY <1>1, AdvanceIInv DEF IInv, TypeOK, Rows
<1>3. ScoreAndLevelAgree'
  BY <1>1 DEF IInv, ScoreAndLevelAgree
<1> QED
  BY <1>2, <1>3 DEF IInv

LEMMA FailEntryIInv ==
    ASSUME IInv, NEW p \in Processes, FailEntry(p)
    PROVE  IInv'
<1>1. /\ pc[p] = "scoring"
      /\ Advance(p)
      /\ errors' = errors + 1
      /\ UNCHANGED <<table, merging, clock, scored, merges, crashes>>
  BY DEF FailEntry
<1>2. TypeOK' /\ Remembered'
  <2>1. <<clock, merges, errors, crashes>>' \in Nat \X Nat \X Nat \X Nat
    BY <1>1 DEF IInv, TypeOK
  <2>2. /\ table' \in [Entries -> Row \cup {NoEntry}]
        /\ Rows' = Rows
        /\ scored' \subseteq Rows'
        /\ merging' = merging
    BY <1>1 DEF IInv, TypeOK, Rows
  <2> QED
    BY <1>1, <2>1, <2>2, AdvanceIInv DEF IInv
<1>3. ScoreAndLevelAgree'
  BY <1>1 DEF IInv, ScoreAndLevelAgree
<1> QED
  BY <1>2, <1>3 DEF IInv

(* The row a WriteScore writes, and what it writes there. *)
LEMMA WriteScoreFacts ==
    ASSUME IInv, NEW p \in Processes, WriteScore(p)
    PROVE  LET e == batch[p][1] IN
           /\ e \in Rows
           /\ table' \in [Entries -> Row \cup {NoEntry}]
           /\ \A d \in Entries \ {e} : table'[d] = table[d]
           /\ table'[e].score \in Scores
           /\ table'[e].level = Level(table'[e].score)
           /\ table'[e].level # "info"
           /\ Rows \subseteq Rows'
<1> DEFINE e == batch[p][1]
           row == Rescored(table[e], copy[p], Assess(copy[p]))
<1>1. pc[p] = "scoring" /\ table' = [table EXCEPT ![e] = row]
  BY DEF WriteScore
<1>2. batch[p] \in Seq(Entries) /\ batch[p] # << >> /\ copy[p] \in Row
  BY <1>1 DEF IInv, TypeOK
<1>3. e \in Rows /\ e \in Entries /\ table[e] \in Row
  <2>1. 1 \in 1 .. Len(batch[p])
    BY <1>2, EmptySeq, LenProperties
  <2> QED
    BY <2>1 DEF IInv, TypeOK, Remembered, Rows
<1>4. /\ row \in Row
      /\ row.score \in Scores
      /\ row.level = Level(row.score)
      /\ row.level # "info"
  BY <1>2, <1>3, RescoredFacts DEF IInv
<1> HIDE DEF row
<1>5. /\ table' \in [Entries -> Row \cup {NoEntry}]
      /\ table'[e] = row
      /\ \A d \in Entries \ {e} : table'[d] = table[d]
      /\ Rows \subseteq Rows'
  BY <1>1, <1>3, <1>4, WriteFacts DEF IInv
<1> QED
  BY <1>3, <1>4, <1>5

LEMMA WriteScoreIInv ==
    ASSUME IInv, NEW p \in Processes, WriteScore(p)
    PROVE  IInv'
<1> DEFINE e == batch[p][1]
<1>1. /\ pc[p] = "scoring"
      /\ scored' = scored \cup {e}
      /\ clock' = clock + 1
      /\ Advance(p)
      /\ UNCHANGED <<merging, merges, errors, crashes>>
  BY DEF WriteScore
<1>2. /\ e \in Rows
      /\ table' \in [Entries -> Row \cup {NoEntry}]
      /\ \A d \in Entries \ {e} : table'[d] = table[d]
      /\ table'[e].score \in Scores
      /\ table'[e].level = Level(table'[e].score)
      /\ Rows \subseteq Rows'
  BY WriteScoreFacts
<1> HIDE DEF e
<1>3. TypeOK' /\ Remembered'
  <2>1. <<clock, merges, errors, crashes>>' \in Nat \X Nat \X Nat \X Nat
    BY <1>1 DEF IInv, TypeOK
  <2>2. scored' \subseteq Rows'
    BY <1>1, <1>2 DEF IInv, TypeOK
  <2> QED
    BY <1>1, <1>2, <2>1, <2>2, AdvanceIInv DEF IInv
<1>4. ScoreAndLevelAgree'
  <2>1. \A d \in scored : d \in Entries
    BY DEF IInv, TypeOK, Rows
  <2> QED
    BY <1>1, <1>2, <2>1, AgreeFacts DEF IInv
<1> QED
  BY <1>3, <1>4 DEF IInv

LEMMA CrashIInv ==
    ASSUME IInv, NEW p \in Processes, Crash(p)
    PROVE  IInv'
<1> USE DEF IInv
<1>1. << >> \in Seq(Entries) /\ Len(<< >>) = 0
  OBVIOUS
<1>2. TypeOK'
  BY <1>1 DEF Crash, TypeOK, Rows
<1>3. Remembered'
  <2> SUFFICES ASSUME NEW q \in Processes
               PROVE  /\ \A i \in 1 .. Len(batch'[q]) : batch'[q][i] \in Rows'
                      /\ merging'[q] # NoEntry => merging'[q].entry \in Rows'
    BY DEF Remembered
  <2>1. Rows' = Rows
    BY DEF Crash, Rows
  <2>2. CASE q = p
    BY <1>1, <2>2 DEF Crash, TypeOK
  <2>3. CASE q # p
    BY <2>1, <2>3 DEF Crash, TypeOK, Remembered
  <2> QED
    BY <2>2, <2>3
<1>4. ScoreAndLevelAgree'
  BY DEF Crash, ScoreAndLevelAgree
<1> QED
  BY <1>2, <1>3, <1>4

LEMMA NextIInv == IInv /\ [Next]_vars => IInv'
<1> SUFFICES ASSUME IInv, [Next]_vars PROVE IInv'
  OBVIOUS
<1>1. ASSUME NEW e \in Entries, Create(e) PROVE IInv'
  BY <1>1, CreateIInv
<1>2. ASSUME NEW p \in Processes, ReadForMerge(p) PROVE IInv'
  BY <1>2, ReadForMergeIInv
<1>3. ASSUME NEW p \in Processes, Merge(p) PROVE IInv'
  BY <1>3, MergeIInv
<1>4. ASSUME NEW p \in Processes, LoadBatch(p) PROVE IInv'
  BY <1>4, LoadBatchIInv
<1>5. ASSUME NEW p \in Processes, ReadEntry(p) PROVE IInv'
  BY <1>5, ReadEntryIInv
<1>6. ASSUME NEW p \in Processes, KeepScore(p) PROVE IInv'
  BY <1>6, KeepScoreIInv
<1>7. ASSUME NEW p \in Processes, WriteScore(p) PROVE IInv'
  BY <1>7, WriteScoreIInv
<1>8. ASSUME NEW p \in Processes, FailEntry(p) PROVE IInv'
  BY <1>8, FailEntryIInv
<1>9. ASSUME NEW p \in Processes, Crash(p) PROVE IInv'
  BY <1>9, CrashIInv
<1>10. CASE UNCHANGED vars
  <2>1. TypeOK'
    BY <1>10 DEF vars, IInv, TypeOK, Rows
  <2>2. Remembered'
    BY <1>10 DEF vars, IInv, Remembered, Rows
  <2>3. ScoreAndLevelAgree'
    BY <1>10 DEF vars, IInv, ScoreAndLevelAgree
  <2> QED
    BY <2>1, <2>2, <2>3 DEF IInv
<1>11. ASSUME NEW p \in Processes, EmptyBatch(p) PROVE IInv'
  BY <1>10, <1>11 DEF EmptyBatch
<1> QED
  BY <1>1, <1>2, <1>3, <1>4, <1>5, <1>6, <1>7, <1>8, <1>9, <1>10, <1>11 DEF Next, Work

THEOREM Invariance == Spec => []IInv
BY InitIInv, NextIInv, PTL DEF Spec

(* The state of the scoring stage is well-formed, whatever the rules, the   *)
(* rows, the processes and the bounds.                                      *)
THEOREM TypeCorrectness == Spec => []TypeOK
<1>1. IInv => TypeOK
  BY DEF IInv
<1> QED
  BY <1>1, Invariance, PTL

(* However many processes score and merge the same rows, a row that was     *)
(* scored has a score, and its level is the level of that score             *)
(* (ScoringService.score_row).                                              *)
THEOREM Agreement == Spec => []ScoreAndLevelAgree
<1>1. IInv => ScoreAndLevelAgree
  BY DEF IInv
<1> QED
  BY <1>1, Invariance, PTL

(* A row that has left the queue of unscored rows never comes back to it:   *)
(* the candidate condition, which is all that keeps the stage from scoring  *)
(* everything again and again, is stable under every write.                 *)
ScoredForever ==
    [][\A e \in Rows : Candidate(e, FALSE)' => Candidate(e, FALSE)]_vars

(* No step puts a row back into the queue of rows to be scored              *)
(* (scoring_candidate_query).                                               *)
THEOREM NoRowReturns == Spec => ScoredForever
<1> DEFINE Stable == \A e \in Rows : Candidate(e, FALSE)' => Candidate(e, FALSE)
<1>1. ASSUME IInv, [Next]_vars PROVE Stable
  <2> SUFFICES ASSUME NEW e \in Rows, Candidate(e, FALSE)'
               PROVE  Candidate(e, FALSE)
    OBVIOUS
  <2>1. CASE table'[e].score = table[e].score /\ table'[e].level = table[e].level
    BY <2>1 DEF Candidate, Rows
  <2>2. ASSUME NEW d \in Entries, Create(d)
        PROVE  table'[e] = table[e]
    BY <1>1, <2>2 DEF Create, IInv, TypeOK, Rows
  <2>3. ASSUME NEW p \in Processes, Merge(p)
        PROVE  table'[e].score = table[e].score /\ table'[e].level = table[e].level
    <3> DEFINE d == merging[p].entry
               row == WithMerge(table[d], copy[p], merging[p].report)
    <3>1. /\ d \in Rows /\ d \in Entries
          /\ merging[p].report \in Reports
          /\ copy[p] \in Row
          /\ table[d] \in Row
      BY <1>1, <2>3 DEF Merge, IInv, TypeOK, Remembered, Rows, Merging
    <3>2. row.score = table[d].score /\ row.level = table[d].level
      BY <1>1, <3>1, WithMergeFacts DEF IInv
    <3>3. table' = [table EXCEPT ![d] = row]
      BY <2>3 DEF Merge
    <3> HIDE DEF row
    <3> QED
      BY <1>1, <3>2, <3>3 DEF IInv, TypeOK, Rows
  <2>4. ASSUME NEW p \in Processes, WriteScore(p)
        PROVE  table'[e] = table[e]
    <3>1. /\ batch[p][1] \in Rows
          /\ \A d \in Entries \ {batch[p][1]} : table'[d] = table[d]
          /\ table'[batch[p][1]].score \in Scores
          /\ table'[batch[p][1]].level # "info"
      BY <1>1, <2>4, WriteScoreFacts
    <3>2. e # batch[p][1]
      BY <3>1, SentinelAssumption DEF Candidate
    <3> QED
      BY <3>1, <3>2 DEF Rows
  <2>5. CASE table' = table
    BY <2>1, <2>5
  <2>6. ASSUME NEW p \in Processes,
               \/ ReadForMerge(p) \/ LoadBatch(p) \/ ReadEntry(p) \/ KeepScore(p)
               \/ FailEntry(p) \/ Crash(p) \/ EmptyBatch(p)
        PROVE  table' = table
    BY <2>6 DEF ReadForMerge, LoadBatch, ReadEntry, KeepScore, FailEntry, Crash,
                EmptyBatch, vars
  <2>7. CASE UNCHANGED vars
    BY <2>5, <2>7 DEF vars
  <2> QED
    BY <1>1, <2>1, <2>2, <2>3, <2>4, <2>5, <2>6, <2>7 DEF Next, Work
<1>2. IInv /\ [Next]_vars => [Stable]_vars
  BY <1>1
<1> QED
  BY <1>2, Invariance, PTL DEF Spec, ScoredForever

-----------------------------------------------------------------------------
(* One process at a time.  What a second process breaks: the row that was   *)
(* read is still the row when it is written, so that the evidence of every  *)
(* score given is kept with it.                                             *)
CopyIsCurrent ==
    \A p \in Processes :
        /\ pc[p] = "scoring" => copy[p] = table[batch[p][1]]
        /\ pc[p] = "merging" => copy[p] = table[merging[p].entry]

(* The score of a row is that of what it was given for, and the row has     *)
(* grown from that since.                                                   *)
KeepsEvidence(row) ==
    LET x == row.scoring IN
    /\ x # Unexplained
    /\ x.score = row.score /\ x.level = row.level
    /\ Grown(x.basis, SignalsOf(row))
    /\ row.score = Score(Evidence(x.basis))

EvidenceIsKept == \A e \in scored : KeepsEvidence(table[e])

OthersIdle(a) == \A p \in Processes \ {a} : pc[p] = "idle"

SerialInv == CopyIsCurrent /\ EvidenceIsKept

StepOf(p) ==
    ReadForMerge(p) \/ LoadBatch(p) \/ EmptyBatch(p) \/ Work(p) \/ FailEntry(p) \/ Crash(p)

AloneInv ==
    Alone => SerialInv /\ \A p \in Processes \ scope.active : pc[p] = "idle"

(* The row that a process works on exists. *)
LEMMA WorkFacts ==
    ASSUME IInv, NEW p \in Processes
    PROVE  /\ pc[p] = "scoring" =>
                /\ batch[p][1] \in Rows /\ batch[p][1] \in Entries
                /\ table[batch[p][1]] \in Row /\ copy[p] \in Row
           /\ pc[p] = "merging" =>
                /\ merging[p].entry \in Rows /\ merging[p].entry \in Entries
                /\ table[merging[p].entry] \in Row /\ copy[p] \in Row
                /\ merging[p].report \in Reports
<1>1. ASSUME pc[p] = "scoring"
      PROVE  /\ batch[p][1] \in Rows /\ batch[p][1] \in Entries
             /\ table[batch[p][1]] \in Row /\ copy[p] \in Row
  <2>1. batch[p] \in Seq(Entries) /\ batch[p] # << >> /\ copy[p] \in Row
    BY <1>1 DEF IInv, TypeOK
  <2>2. 1 \in 1 .. Len(batch[p])
    BY <2>1, EmptySeq, LenProperties
  <2>3. QED
    BY <2>1, <2>2 DEF IInv, TypeOK, Remembered, Rows
<1>2. ASSUME pc[p] = "merging"
      PROVE  /\ merging[p].entry \in Rows /\ merging[p].entry \in Entries
             /\ table[merging[p].entry] \in Row /\ copy[p] \in Row
             /\ merging[p].report \in Reports
  BY <1>2 DEF IInv, TypeOK, Remembered, Rows, Merging
<1>3. QED
  BY <1>1, <1>2

(* The words of each scale have ranks. *)
LEMMA RanksFacts ==
    ASSUME NEW c \in Columns
    PROVE  Rank[c.severity] \in Nat /\ Rank[c.exploit] \in Nat /\ Rank[c.confidence] \in Nat
<1>1. /\ c.severity \in {"critical", "high", "medium", "low", "unknown"}
      /\ c.exploit \in {"exploited", "proof_of_concept", "none_known", "unknown"}
      /\ c.confidence \in {"high", "medium", "low"}
  BY DEF Columns, SeverityFallback, ConfidenceWeight
<1>2. QED
  BY <1>1 DEF Rank

LEMMA GrownReflexive ==
    ASSUME NEW a \in Signals
    PROVE  Grown(a, a)
<1>1. a.cols \in Columns
  BY DEF Signals
<1>2. QED
  BY <1>1, RanksFacts DEF Grown, Filled

(* What a merge writes over the row it has read has grown from what that    *)
(* row had grown from.                                                      *)
LEMMA GrownMerge ==
    ASSUME NEW a \in Signals, NEW c \in Columns, NEW m \in Metadata, NEW report \in Report,
           Grown(a, [cols |-> c, meta |-> m])
    PROVE  Grown(a, [cols |-> MergedColumns(c, c, report.cols),
                     meta |-> MergedMetadata(m, report)])
<1> DEFINE n == report.cols  d == MergedColumns(c, c, n)  k1 == MergedMetadata(m, report)
<1>1. n \in Columns /\ a.cols \in Columns
  BY DEF Report, Signals
<1>2. ASSUME NEW x, NEW y, NEW z, Filled(x, y) PROVE Filled(x, Fill(y, y, z))
  BY <1>2 DEF Filled, Fill
<1>3. /\ Filled(a.cols.cvss, d.cvss) /\ Filled(a.cols.vector, d.vector)
      /\ Filled(a.cols.component, d.component) /\ Filled(a.cols.surface, d.surface)
  BY <1>2 DEF Grown, MergedColumns
<1>4. /\ Rank[a.cols.severity] <= Rank[d.severity]
      /\ Rank[a.cols.exploit] <= Rank[d.exploit]
      /\ Rank[a.cols.confidence] <= Rank[d.confidence]
  <2>1. /\ Rank[a.cols.severity] \in Nat /\ Rank[c.severity] \in Nat /\ Rank[n.severity] \in Nat
        /\ Rank[a.cols.exploit] \in Nat /\ Rank[c.exploit] \in Nat /\ Rank[n.exploit] \in Nat
        /\ Rank[a.cols.confidence] \in Nat /\ Rank[c.confidence] \in Nat
        /\ Rank[n.confidence] \in Nat
    BY <1>1, RanksFacts
  <2>2. /\ Rank[a.cols.severity] <= Rank[c.severity]
        /\ Rank[a.cols.exploit] <= Rank[c.exploit]
        /\ Rank[a.cols.confidence] <= Rank[c.confidence]
    BY DEF Grown
  <2>3. /\ d.severity = Stronger(c.severity, c.severity, n.severity)
        /\ d.exploit = Stronger(c.exploit, c.exploit, n.exploit)
        /\ d.confidence = Stronger(c.confidence, c.confidence, n.confidence)
    BY DEF MergedColumns
  <2>4. QED
    BY <2>1, <2>2, <2>3 DEF Stronger
<1>5. /\ a.cols.tags \subseteq d.tags /\ a.cols.names \subseteq d.names
      /\ a.cols.words \subseteq d.words
  BY DEF Grown, MergedColumns
<1>6. ASSUME NEW t \in Texts PROVE Filled(a.cols.texts[t], d.texts[t])
  <2>1. d.texts[t] = Fill(c.texts[t], c.texts[t], n.texts[t])
    BY DEF MergedColumns
  <2>2. Filled(a.cols.texts[t], c.texts[t])
    BY DEF Grown
  <2>3. QED
    BY <1>2, <2>1, <2>2
<1>7. ASSUME NEW k \in Keys PROVE Filled(a.meta.says[k], k1.says[k])
  <2>1. k1.says[k] = m.says[k] \/ m.says[k] = NoValue
    BY DEF MergedMetadata
  <2>2. Filled(a.meta.says[k], m.says[k])
    BY DEF Grown
  <2>3. QED
    BY <2>1, <2>2 DEF Filled
<1> HIDE DEF d, k1
<1>8. Grown(a, [cols |-> d, meta |-> k1])
  BY <1>3, <1>4, <1>5, <1>6, <1>7 DEF Grown
<1>9. QED
  BY <1>8 DEF d, k1

(* A merge over the row it has read adds to the evidence and keeps the      *)
(* explanation.                                                             *)
LEMMA MergeKeepsEvidence ==
    ASSUME NEW row \in Row, NEW report \in Reports, KeepsEvidence(row)
    PROVE  KeepsEvidence(WithMerge(row, row, report))
<1> DEFINE new == WithMerge(row, row, report)
<1>1. report \in Report /\ row.cols \in Columns /\ row.meta \in Metadata
  BY ReportsAssumption DEF Row
<1>2. /\ new.scoring = row.scoring /\ new.score = row.score /\ new.level = row.level
      /\ new.cols = MergedColumns(row.cols, row.cols, report.cols)
      /\ new.meta = MergedMetadata(row.meta, report)
  BY DEF WithMerge, Row
<1>3. row.scoring.basis \in Signals
  BY DEF KeepsEvidence, Row, Explanation
<1> HIDE DEF new
<1>4. Grown(row.scoring.basis, SignalsOf(new))
  BY <1>1, <1>2, <1>3, GrownMerge DEF KeepsEvidence, SignalsOf
<1>5. KeepsEvidence(new)
  BY <1>2, <1>4 DEF KeepsEvidence
<1>6. QED
  BY <1>5 DEF new

(* A score is given with its explanation.                                   *)
LEMMA ScoreKeepsEvidence ==
    ASSUME NEW row \in Row
    PROVE  LET new == Rescored(row, row, Assess(row)) IN
           /\ KeepsEvidence(new)
           /\ SignalsOf(new) = SignalsOf(row)
           /\ new.score = Assess(row).score
<1>1. PICK x \in Explanation :
         /\ x = Assess(row) /\ x.basis = SignalsOf(row)
         /\ x.score = Score(Evidence(x.basis)) /\ x # Unexplained
  BY AssessFacts, SentinelAssumption
<1> DEFINE new == Rescored(row, row, x)
<1>2. /\ new.scoring = x /\ new.score = x.score /\ new.level = x.level
      /\ new.cols = row.cols /\ new.meta = row.meta
  BY DEF Rescored, Row
<1>3. SignalsOf(new) = SignalsOf(row) /\ SignalsOf(row) \in Signals
  BY <1>2 DEF SignalsOf, Signals, Row
<1> HIDE DEF new
<1>4. KeepsEvidence(new)
  BY <1>1, <1>2, <1>3, GrownReflexive DEF KeepsEvidence
<1>5. QED
  BY <1>1, <1>2, <1>3, <1>4 DEF new

(* And it is no lower than the score before, but for a reason.              *)
LEMMA ScoreRises ==
    ASSUME NEW row \in Row, KeepsEvidence(row),
           ~ Countered(row.scoring.basis, SignalsOf(row))
    PROVE  Assess(row).score >= row.score
<1> DEFINE a == row.scoring.basis  b == SignalsOf(row)
<1>1. a \in Signals /\ b \in Signals
  BY DEF KeepsEvidence, Row, Explanation, SignalsOf, Signals
<1>2. Evidence(a) \in Assessable /\ Evidence(b) \in Assessable
  BY <1>1, EvidenceFacts
<1>3. Grown(a, b) /\ ~ Forgotten(a, b) /\ ~ Reassures(Evidence(b), Evidence(a))
  BY DEF KeepsEvidence, Countered
<1> HIDE DEF a, b
<1>4. Score(Evidence(a)) <= Score(Evidence(b))
  BY <1>1, <1>2, <1>3, GrownSaysMore, EvidenceNeverLowers
<1>5. row.score = Score(Evidence(a)) /\ Assess(row).score = Score(Evidence(b))
  BY AssessFacts DEF KeepsEvidence, a, b
<1>6. Score(Evidence(a)) \in Int /\ Score(Evidence(b)) \in Int
  BY <1>2, ScoreInRange
<1>7. QED
  BY <1>4, <1>5, <1>6

(* A score that was given is a number.                                      *)
LEMMA ScoresAreIntegers ==
    ASSUME NEW s \in {Unscored} \cup Scores, s # Unscored
    PROVE  s \in Int
BY SMT DEF Scores

(* What a step does to the rows while what was read is still there: it      *)
(* leaves a row alone, merges into it as it is, or scores it as it is.      *)
LEMMA TableStep ==
    ASSUME IInv, CopyIsCurrent, NEW a \in Processes, [StepOf(a)]_vars, NEW e \in Rows
    PROVE  \/ table'[e] = table[e] /\ (e \in scored' => e \in scored)
           \/ /\ Merge(a) /\ scored' = scored
              /\ \E report \in Reports : table'[e] = WithMerge(table[e], table[e], report)
           \/ /\ ~ IsCurrent(table[e], Assess(table[e]))
              /\ table'[e] = Rescored(table[e], table[e], Assess(table[e]))
<1>1. CASE UNCHANGED <<table, scored>>
  BY <1>1
<1>2. CASE Merge(a)
  <2>1. /\ pc[a] = "merging" /\ scored' = scored
        /\ table' = [table EXCEPT ![merging[a].entry] =
                        WithMerge(@, copy[a], merging[a].report)]
    BY <1>2 DEF Merge
  <2>2. /\ merging[a].entry \in Entries /\ merging[a].report \in Reports
        /\ copy[a] = table[merging[a].entry]
    BY <2>1, WorkFacts DEF CopyIsCurrent
  <2>3. CASE e = merging[a].entry
    <3>1. table'[e] = WithMerge(table[e], table[e], merging[a].report)
      BY <2>1, <2>2, <2>3 DEF IInv, TypeOK
    <3>2. QED
      BY <1>2, <2>1, <2>2, <3>1
  <2>4. CASE e # merging[a].entry
    BY <2>1, <2>2, <2>4 DEF IInv, TypeOK, Rows
  <2>5. QED
    BY <2>3, <2>4
<1>3. CASE WriteScore(a)
  <2>1. /\ pc[a] = "scoring" /\ scored' = scored \cup {batch[a][1]}
        /\ ~ IsCurrent(copy[a], Assess(copy[a]))
        /\ table' = [table EXCEPT ![batch[a][1]] = Rescored(@, copy[a], Assess(copy[a]))]
    BY <1>3 DEF WriteScore
  <2>2. batch[a][1] \in Entries /\ copy[a] = table[batch[a][1]]
    BY <2>1, WorkFacts DEF CopyIsCurrent
  <2>3. CASE e = batch[a][1]
    <3>1. table'[e] = Rescored(table[e], table[e], Assess(table[e]))
      BY <2>1, <2>2, <2>3 DEF IInv, TypeOK
    <3>2. QED
      BY <2>1, <2>2, <2>3, <3>1
  <2>4. CASE e # batch[a][1]
    BY <2>1, <2>2, <2>4 DEF IInv, TypeOK, Rows
  <2>5. QED
    BY <2>3, <2>4
<1>4. QED
  BY <1>1, <1>2, <1>3
     DEF StepOf, Work, vars, ReadForMerge, LoadBatch, EmptyBatch, ReadEntry, KeepScore,
         FailEntry, Crash

(* A new row is not one of the rows there are. *)
LEMMA CreateFacts ==
    ASSUME IInv, NEW d \in Entries, Create(d), NEW e \in Rows
    PROVE  table'[e] = table[e] /\ scored' = scored
BY DEF Create, IInv, TypeOK, Rows

LEMMA IdleStaysIdle ==
    ASSUME IInv, NEW a \in Processes, OthersIdle(a), [StepOf(a)]_vars
    PROVE  OthersIdle(a)'
<1>1. CASE UNCHANGED pc
  BY <1>1 DEF OthersIdle
<1>2. CASE \E x \in {"idle", "merging", "batch", "scoring"} : pc' = [pc EXCEPT ![a] = x]
  BY <1>2 DEF OthersIdle, IInv, TypeOK
<1>3. ASSUME Advance(a)
      PROVE  \E x \in {"idle", "merging", "batch", "scoring"} : pc' = [pc EXCEPT ![a] = x]
  BY <1>3 DEF Advance
<1>4. ASSUME ReadForMerge(a) \/ LoadBatch(a) \/ ReadEntry(a) \/ Merge(a) \/ Crash(a)
      PROVE  \E x \in {"idle", "merging", "batch", "scoring"} : pc' = [pc EXCEPT ![a] = x]
  BY <1>4 DEF ReadForMerge, LoadBatch, ReadEntry, Merge, Crash
<1>5. QED
  BY <1>1, <1>2, <1>3, <1>4
     DEF StepOf, Work, vars, EmptyBatch, KeepScore, WriteScore, FailEntry

LEMMA CopyStep ==
    ASSUME IInv, IInv', CopyIsCurrent, NEW a \in Processes, OthersIdle(a), [StepOf(a)]_vars
    PROVE  CopyIsCurrent'
<1>1. \A p \in Processes \ {a} : pc'[p] = "idle"
  BY IdleStaysIdle DEF OthersIdle
<1>2. CASE pc'[a] \in {"idle", "batch"}
  BY <1>1, <1>2 DEF CopyIsCurrent
<1>3. CASE UNCHANGED <<table, pc, batch, copy, merging>>
  BY <1>3 DEF CopyIsCurrent
<1>4. CASE ReadForMerge(a)
  <2>1. PICK e \in Rows, report \in Reports :
           /\ merging' = [merging EXCEPT ![a] = [entry |-> e, report |-> report]]
           /\ copy' = [copy EXCEPT ![a] = table[e]]
    BY <1>4 DEF ReadForMerge
  <2>2. merging'[a].entry = e /\ copy'[a] = table[e] /\ pc'[a] = "merging" /\ table' = table
    BY <1>4, <2>1 DEF ReadForMerge, IInv, TypeOK
  <2>3. QED
    BY <1>1, <2>2 DEF CopyIsCurrent
<1>5. CASE ReadEntry(a)
  <2>1. copy'[a] = table[batch[a][1]] /\ pc'[a] = "scoring" /\ table' = table /\ batch' = batch
    BY <1>5 DEF ReadEntry, IInv, TypeOK
  <2>2. QED
    BY <1>1, <2>1 DEF CopyIsCurrent
<1>6. ASSUME LoadBatch(a) \/ Merge(a) \/ Crash(a) \/ Advance(a)
      PROVE  pc'[a] \in {"idle", "batch"}
  BY <1>6 DEF LoadBatch, Merge, Crash, Advance, IInv, TypeOK
<1>7. QED
  BY <1>2, <1>3, <1>4, <1>5, <1>6
     DEF StepOf, Work, vars, EmptyBatch, KeepScore, WriteScore, FailEntry

LEMMA EvidenceStep ==
    ASSUME IInv, SerialInv, NEW a \in Processes, [StepOf(a)]_vars, scored' \subseteq Rows
    PROVE  EvidenceIsKept'
<1> SUFFICES ASSUME NEW e \in scored' PROVE KeepsEvidence(table'[e])
  BY DEF EvidenceIsKept, KeepsEvidence
<1>1. e \in Rows /\ table[e] \in Row
  BY DEF IInv, TypeOK, Rows
<1>2. CASE table'[e] = table[e] /\ e \in scored
  BY <1>2 DEF SerialInv, EvidenceIsKept
<1>3. ASSUME e \in scored, NEW report \in Reports,
             table'[e] = WithMerge(table[e], table[e], report)
      PROVE  KeepsEvidence(table'[e])
  BY <1>1, <1>3, MergeKeepsEvidence DEF SerialInv, EvidenceIsKept
<1>4. CASE table'[e] = Rescored(table[e], table[e], Assess(table[e]))
  BY <1>1, <1>4, ScoreKeepsEvidence
<1>5. QED
  BY <1>1, <1>2, <1>3, <1>4, TableStep DEF SerialInv

(* Rows that are scored were there before. *)
LEMMA ScoredStep ==
    ASSUME IInv, NEW a \in Processes, [StepOf(a)]_vars
    PROVE  scored' \subseteq Rows
<1>1. CASE scored' = scored
  BY <1>1 DEF IInv, TypeOK
<1>2. CASE WriteScore(a)
  <2>1. scored' = scored \cup {batch[a][1]} /\ batch[a][1] \in Rows
    BY <1>2, WorkFacts DEF WriteScore
  <2>2. QED
    BY <2>1 DEF IInv, TypeOK
<1>3. QED
  BY <1>1, <1>2
     DEF StepOf, Work, vars, ReadForMerge, Merge, LoadBatch, EmptyBatch, ReadEntry,
         KeepScore, FailEntry, Crash

LEMMA CreateSerial ==
    ASSUME IInv, SerialInv, NEW d \in Entries, Create(d)
    PROVE  SerialInv'
<1>1. \A e \in Rows : table'[e] = table[e]
  BY CreateFacts
<1>2. UNCHANGED <<pc, batch, copy, merging, scored>>
  BY DEF Create, process
<1>3. CopyIsCurrent'
  BY <1>1, <1>2, WorkFacts DEF SerialInv, CopyIsCurrent
<1>4. EvidenceIsKept'
  BY <1>1, <1>2 DEF SerialInv, EvidenceIsKept, KeepsEvidence, IInv, TypeOK
<1>5. QED
  BY <1>3, <1>4 DEF SerialInv

LEMMA SoleProcess ==
    ASSUME scope \in Scopes, Alone
    PROVE  \E a \in Processes : scope.active = {a}
<1>1. scope.active \subseteq Processes /\ IsFiniteSet(scope.active)
  BY ScopesAssumption
<1>2. \E a : scope.active = {a}
  BY <1>1, FS_Singleton DEF Alone
<1>3. QED
  BY <1>1, <1>2

(* Of a step in a scope with one process. *)
LEMMA AloneCases ==
    ASSUME [MCNext]_mcvars, NEW a \in Processes, scope.active = {a}
    PROVE  scope' = scope /\ ((\E e \in Entries : Create(e)) \/ [StepOf(a)]_vars)
BY DEF MCNext, Active, InScope, mcvars, vars, StepOf, Work

LEMMA AloneStep ==
    ASSUME IInv, IInv', scope \in Scopes, AloneInv, [MCNext]_mcvars
    PROVE  AloneInv'
<1> SUFFICES ASSUME Alone'
             PROVE  SerialInv' /\ \A p \in Processes \ scope'.active : pc'[p] = "idle"
  BY DEF AloneInv
<1>1. scope' = scope
  BY DEF MCNext, Active, InScope, mcvars
<1>2. Alone
  BY <1>1 DEF Alone
<1>3. PICK a \in Processes : scope.active = {a}
  BY <1>2, SoleProcess
<1>4. SerialInv /\ OthersIdle(a)
  BY <1>2, <1>3 DEF AloneInv, OthersIdle
<1>5. ASSUME NEW e \in Entries, Create(e) PROVE SerialInv' /\ OthersIdle(a)'
  BY <1>4, <1>5, CreateSerial DEF Create, process, OthersIdle
<1>6. ASSUME [StepOf(a)]_vars PROVE SerialInv' /\ OthersIdle(a)'
  <2>1. CopyIsCurrent'
    BY <1>4, <1>6, CopyStep DEF SerialInv
  <2>2. EvidenceIsKept'
    BY <1>4, <1>6, ScoredStep, EvidenceStep
  <2>3. OthersIdle(a)'
    BY <1>4, <1>6, IdleStaysIdle
  <2>4. QED
    BY <2>1, <2>2, <2>3 DEF SerialInv
<1>7. SerialInv' /\ OthersIdle(a)'
  BY <1>3, <1>5, <1>6, AloneCases
<1>8. QED
  BY <1>1, <1>3, <1>7 DEF OthersIdle

LEMMA MCStepIsNext == [MCNext]_mcvars => [Next]_vars
BY DEF MCNext, mcvars, Next, Work

LEMMA AloneInvariance == MCSpec => [](IInv /\ scope \in Scopes /\ AloneInv)
<1>1. Init => AloneInv
  BY DEF Init, AloneInv, SerialInv, CopyIsCurrent, EvidenceIsKept
<1>2. scope \in Scopes /\ [MCNext]_mcvars => (scope \in Scopes)'
  BY DEF MCNext, Active, InScope, mcvars
<1>3. IInv /\ IInv' /\ scope \in Scopes /\ AloneInv /\ [MCNext]_mcvars => AloneInv'
  BY AloneStep
<1>4. QED
  BY <1>1, <1>2, <1>3, InitIInv, NextIInv, MCStepIsNext, PTL DEF MCSpec, MCInit

(* With one process at a time a row that has been scored carries the        *)
(* explanation of the score and the level it shows (score_row,              *)
(* merge_normalized): what scoring_unexplained shows two to break.          *)
THEOREM Explanations == MCSpec => []AloneExplained
<1>1. AloneInv => AloneExplained
  BY DEF AloneInv, AloneExplained, SerialInv, EvidenceIsKept, KeepsEvidence, ScoresAreExplained
<1>2. QED
  BY <1>1, AloneInvariance, PTL

(* With one process at a time a score that was given falls only because     *)
(* something has been filled in that makes the row look safer, or because a *)
(* sighting has been forgotten: everything else that merges do adds to the  *)
(* evidence it was computed from (merge_normalized, rules.py).              *)
THEOREM FallsForAReason == MCSpec => AloneFallsForAReason
<1> DEFINE Falls == Alone => \A e \in scored :
                       \/ table'[e].score >= table[e].score
                       \/ Countered(table[e].scoring.basis, SignalsOf(table'[e]))
<1>1. IInv /\ scope \in Scopes /\ AloneInv /\ [MCNext]_mcvars => Falls
  <2> SUFFICES ASSUME IInv, scope \in Scopes, AloneInv, [MCNext]_mcvars, Alone,
                      NEW e \in scored,
                      ~ Countered(table[e].scoring.basis, SignalsOf(table'[e]))
               PROVE  table'[e].score >= table[e].score
    OBVIOUS
  <2>1. PICK a \in Processes : scope.active = {a}
    BY SoleProcess
  <2>2. e \in Rows /\ table[e] \in Row /\ KeepsEvidence(table[e]) /\ SerialInv
    BY DEF IInv, TypeOK, Rows, AloneInv, SerialInv, EvidenceIsKept
  <2>3. table[e].score \in Int
    BY <2>2, ScoresAreIntegers DEF IInv, ScoreAndLevelAgree, Row
  <2>4. CASE table'[e] = table[e]
    BY <2>3, <2>4
  <2>5. ASSUME NEW report \in Reports, table'[e] = WithMerge(table[e], table[e], report)
        PROVE  table'[e].score >= table[e].score
    <3>1. table'[e].score = table[e].score
      BY <2>2, <2>5 DEF WithMerge, Row
    <3>2. QED
      BY <2>3, <3>1
  <2>6. CASE table'[e] = Rescored(table[e], table[e], Assess(table[e]))
    <3>1. /\ table'[e].score = Assess(table[e]).score
          /\ SignalsOf(table'[e]) = SignalsOf(table[e])
      BY <2>2, <2>6, ScoreKeepsEvidence
    <3>2. QED
      BY <2>2, <3>1, ScoreRises
  <2>7. QED
    BY <2>1, <2>2, <2>4, <2>5, <2>6, AloneCases, TableStep, CreateFacts DEF SerialInv
<1>2. QED
  BY <1>1, AloneInvariance, PTL DEF MCSpec, AloneFallsForAReason

(* With one process at a time a row whose score is up to date is written by *)
(* nothing but a merge: scoring is idempotent (scoring_is_current).         *)
THEOREM Idempotence == MCSpec => AloneIdempotent
<1> DEFINE Same == Alone => \A e \in Rows : \/ ~ IsCurrent(table[e], Assess(table[e]))
                                            \/ table'[e] = table[e]
                                            \/ \E p \in Processes : Merge(p)
<1>1. IInv /\ scope \in Scopes /\ AloneInv /\ [MCNext]_mcvars => Same
  <2> SUFFICES ASSUME IInv, scope \in Scopes, AloneInv, [MCNext]_mcvars, Alone,
                      NEW e \in Rows
               PROVE  \/ ~ IsCurrent(table[e], Assess(table[e]))
                      \/ table'[e] = table[e]
                      \/ \E p \in Processes : Merge(p)
    OBVIOUS
  <2>1. PICK a \in Processes : scope.active = {a}
    BY SoleProcess
  <2>2. CopyIsCurrent
    BY DEF AloneInv, SerialInv
  <2>3. QED
    BY <2>1, <2>2, AloneCases, TableStep, CreateFacts
<1>2. QED
  BY <1>1, AloneInvariance, PTL DEF MCSpec, AloneIdempotent
=============================================================================
