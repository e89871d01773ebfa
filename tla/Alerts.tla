------------------------------- MODULE Alerts -------------------------------
(****************************************************************************)
(* Alert evaluation: evaluate_and_create_alerts in                          *)
(* src/backend/app/services/alerts.py, run by the API (POST                 *)
(* /alerts/evaluate) and by the script of `make process-once`, which is     *)
(* another process; and the review of alerts (PATCH /alerts/{id}/status).   *)
(*                                                                          *)
(* An evaluation is one transaction:                                        *)
(*   LoadEntries   SELECT the records to evaluate                           *)
(*   LoadContext   SELECT the records to compare them with, and apply the   *)
(*                 rules; a record that is loaded already is not read again *)
(*   Check         for one rule that fires, SELECT an alert of this record  *)
(*                 and rule, and remember a new one if there is none        *)
(*   Commit        INSERT the remembered alerts                             *)
(* No constraint makes (record, rule) unique: only Check does.  What the    *)
(* worker and the other routes do to the records is the constant Versions.  *)
(****************************************************************************)
EXTENDS Naturals, FiniteSets, Sequences

CONSTANTS
    Entries,       \* ids of core records, which order records seen last at once
    Versions,      \* [entry -> the rows it goes through]
    Names, Urls,   \* of sources
    KevNames,      \* those of the catalogue of exploited vulnerabilities
    Values,        \* CVEs, vendors and components
    VehicleCritical,   \* the components in VEHICLE_CRITICAL_COMPONENTS
    None,          \* no CVE, vendor or component
    Evaluators,    \* processes that evaluate
    Limits,        \* limits asked for
    ContextLimit, Lookback, MinItems,   \* CONTEXT_LIMIT, BURST_LOOKBACK, BURST_MIN_ITEMS
    MaxCommits, MaxReviews   \* bounds

Levels == {"low", "high", "critical"}   \* of risk; "low": everything below high

(* severe: the severity is critical, whatever the risk; exploited: a tag,   *)
(* the exploit status, a signal or a field of the catalogue says so; names,  *)
(* urls: of its sources, the URLs of its links included; first, last: the   *)
(* days it was first and last seen.                                         *)
Row == [level : Levels, severe : BOOLEAN, exploited : BOOLEAN,
        names : SUBSET Names, urls : SUBSET Urls, cve : Values \cup {None}, vendor : Values \cup {None},
        component : Values \cup {None}, first : Nat, last : Nat]

ASSUME RecordsAssumption ==
    /\ Entries \subseteq Nat /\ IsFiniteSet(Entries)
    /\ Versions \in [Entries -> Seq(Row)]
    /\ None \notin Values /\ VehicleCritical \subseteq Values
    /\ KevNames \subseteq Names /\ IsFiniteSet(Names) /\ IsFiniteSet(Urls)

ASSUME LimitsAssumption ==
    /\ Limits \subseteq Nat \ {0}
    /\ {ContextLimit, Lookback, MaxCommits, MaxReviews} \subseteq Nat
    /\ MinItems \in Nat \ {0}

Kinds    == {"critical", "exploited", "component", "cve", "vendor burst", "component burst"}
Rule     == Kinds \X (Values \cup {None})
Due      == Entries \X Rule
Statuses == {"open", "acknowledged", "closed"}
Alert    == [entry : Entries, rule : Rule, status : Statuses,
             started : Nat, committed : Nat]   \* history: when its evaluation ran
Event    == [alert : Entries \X Rule \X Nat, action : {"closure", "status change"}]

VARIABLES
    version,   \* the row each record has reached in Versions, 0 before it exists
    alerts,    \* the alerts table
    audit,     \* audit_logs, of alerts
    pc,        \* where each evaluation is
    limit,     \* the limit it was asked for
    loaded,    \* [entry -> row]: the records an evaluation has read
    due,       \* what it has still to check
    pending,   \* what it has found missing
    started,   \* history: commits when the evaluation began
    stale,     \* history: the records that have changed since then
    commits,   \* evaluations committed so far
    evaluated, \* history: records evaluated since their own last change
    covered    \* history: records compared with all since the last change of any

evaluation == <<pc, limit, loaded, due, pending, started>>
history == <<stale, evaluated, covered>>
vars == <<version, alerts, audit, evaluation, commits, history>>

Present == {e \in Entries : version[e] > 0}
row == [e \in Present |-> Versions[e][version[e]]]

TypeOK ==
    /\ version \in [Entries -> Nat]
    /\ \A e \in Entries : version[e] <= Len(Versions[e])
    /\ alerts \subseteq Alert
    /\ audit \in Seq(Event)
    /\ pc \in [Evaluators -> {"idle", "loading", "checking"}]
    /\ limit \in [Evaluators -> Nat]
    /\ DOMAIN loaded = Evaluators
    /\ \A p \in Evaluators : \A e \in DOMAIN loaded[p] : e \in Present /\ loaded[p][e] \in Row
    /\ due \in [Evaluators -> SUBSET Due]
    /\ pending \in [Evaluators -> SUBSET Due]
    /\ started \in [Evaluators -> Nat]
    /\ stale \in [Evaluators -> SUBSET Entries]
    /\ commits \in Nat
    /\ evaluated \subseteq Present /\ covered \subseteq Present
    /\ \A p \in Evaluators : pc[p] = "idle" => due[p] = {} /\ pending[p] = {}

Nothing == [e \in {} |-> {}]

Init ==
    /\ version = [e \in Entries |-> 0]
    /\ alerts = {}
    /\ audit = << >>
    /\ pc = [p \in Evaluators |-> "idle"]
    /\ limit = [p \in Evaluators |-> 0]
    /\ loaded = [p \in Evaluators |-> Nothing]
    /\ due = [p \in Evaluators |-> {}]
    /\ pending = [p \in Evaluators |-> {}]
    /\ started = [p \in Evaluators |-> 0]
    /\ stale = [p \in Evaluators |-> {}]
    /\ commits = 0
    /\ evaluated = {} /\ covered = {}

-----------------------------------------------------------------------------
(* The rules, over the rows an evaluation has read.                         *)

HighRisk(r) == r.level \in {"high", "critical"}

(* _candidate_entries: ORDER BY last_seen_at DESC, id ASC LIMIT n *)
Before(f, e) == row[f].last > row[e].last \/ (row[f].last = row[e].last /\ f < e)
Newest(n) == {e \in Present : Cardinality({f \in Present : Before(f, e)}) < n}

(* Mutant of InWindow: the look-back excludes its first day. *)
InWindowExclusive(other, r) == other.first + Lookback > r.first /\ other.first <= r.first

InWindow(other, r) == other.first + Lookback >= r.first /\ other.first <= r.first

(* _burst_context: enough high-risk records of the same vendor or component *)
(* up to a week before this one; the vendor is tried first.                 *)
Bursts(scope, read, e) ==
    /\ read[e][scope] # None
    /\ Cardinality({o \in DOMAIN read : /\ HighRisk(read[o])
                                        /\ read[o][scope] = read[e][scope]
                                        /\ InWindow(read[o], read[e])}) >= MinItems

(* Mutant of CveSources: the URLs do not count. *)
CveSourcesNames(read, cve, column) ==
    UNION {read[o].names : o \in {o \in DOMAIN read : read[o].cve = cve}}

(* _cve_source_count: the names, or the URLs, of all records with the CVE;  *)
(* the record itself is one of them.  The larger number counts.             *)
CveSources(read, cve, column) ==
    UNION {read[o][column] : o \in {o \in DOMAIN read : read[o].cve = cve}}

(* _known_exploited: a row of the catalogue, or one that says so itself. *)
KnownExploited(r) == r.exploited \/ r.names \cap KevNames # {}

(* alert_candidates *)
Fires(read, e) ==
    LET r == read[e] IN
       {rule \in {<<"critical", None>>} : r.level = "critical" \/ r.severe}
  \cup {rule \in {<<"exploited", None>>} : KnownExploited(r)}
  \cup {rule \in {<<"component", r.component>>} : HighRisk(r) /\ r.component \in VehicleCritical}
  \cup {rule \in {<<"cve", r.cve>>} :
            /\ r.cve # None
            /\ \E column \in {"names", "urls"} :
                  Cardinality(CveSources(read, r.cve, column)) >= 2}
  \cup {rule \in {<<"vendor burst", r.vendor>>} : Bursts("vendor", read, e)}
  \cup {rule \in {<<"component burst", r.component>>} :
            Bursts("component", read, e) /\ ~ Bursts("vendor", read, e)}

-----------------------------------------------------------------------------
(* Other processes create a record or change it. *)
Change(e) ==
    /\ version[e] < Len(Versions[e])
    /\ version' = [version EXCEPT ![e] = @ + 1]
    /\ stale' = [p \in Evaluators |-> stale[p] \cup {e}]
    /\ evaluated' = evaluated \ {e}
    /\ covered' = {}
    /\ UNCHANGED <<alerts, audit, evaluation, commits>>

LoadEntries(p) ==
    /\ pc[p] = "idle"
    /\ commits < MaxCommits
    /\ \E n \in Limits : \E entries \in {Newest(n)} \cup {{e} : e \in Present} :
          /\ limit' = [limit EXCEPT ![p] = n]
          /\ loaded' = [loaded EXCEPT ![p] = [e \in entries |-> row[e]]]
    /\ pc' = [pc EXCEPT ![p] = "loading"]
    /\ started' = [started EXCEPT ![p] = commits]
    /\ stale' = [stale EXCEPT ![p] = {}]
    /\ UNCHANGED <<version, alerts, audit, due, pending, commits, evaluated, covered>>

(* The records that an evaluation compares with: at least ContextLimit.     *)
Context(p) ==
    DOMAIN loaded[p] \cup Newest(IF limit[p] > ContextLimit THEN limit[p] ELSE ContextLimit)

(* Mutant of LoadContext: the context does not grow with the limit.         *)
LoadContextFixed(p) ==
    LET entries == DOMAIN loaded[p]
        read    == [e \in entries \cup Newest(ContextLimit) |->
                      IF e \in entries THEN loaded[p][e] ELSE row[e]]
    IN
    /\ pc[p] = "loading"
    /\ due' = [due EXCEPT ![p] = UNION {{e} \X Fires(read, e) : e \in entries}]
    /\ pc' = [pc EXCEPT ![p] = "checking"]
    /\ UNCHANGED <<version, alerts, audit, limit, loaded, pending, started, commits, history>>

LoadContext(p) ==
    LET entries == DOMAIN loaded[p]
        read    == [e \in Context(p) |-> IF e \in entries THEN loaded[p][e] ELSE row[e]]
    IN
    /\ pc[p] = "loading"
    /\ due' = [due EXCEPT ![p] = UNION {{e} \X Fires(read, e) : e \in entries}]
    /\ pc' = [pc EXCEPT ![p] = "checking"]
    /\ UNCHANGED <<version, alerts, audit, limit, loaded, pending, started, commits, history>>

(* Mutant of Exists: a closed alert does not count.                        *)
ExistsOpen(d) ==
    \E a \in alerts : a.entry = d[1] /\ a.rule = d[2] /\ a.status # "closed"

(* _existing_alert: whatever its status. *)
Exists(d) == \E a \in alerts : a.entry = d[1] /\ a.rule = d[2]

RuleOrder == <<"critical", "exploited", "component", "cve", "vendor burst", "component burst">>
RankOf(rule) == CHOOSE i \in 1 .. Len(RuleOrder) : RuleOrder[i] = rule[1]

(* Records are gone through newest first, each with its rules in order. *)
Sooner(read, c, d) ==
    \/ read[c[1]].last > read[d[1]].last
    \/ read[c[1]].last = read[d[1]].last /\ c[1] < d[1]
    \/ c[1] = d[1] /\ RankOf(c[2]) < RankOf(d[2])

Check(p) ==
    /\ pc[p] = "checking"
    /\ \E d \in due[p] :
          /\ \A c \in due[p] \ {d} : Sooner(loaded[p], d, c)
          /\ due' = [due EXCEPT ![p] = @ \ {d}]
          /\ pending' = [pending EXCEPT ![p] = IF Exists(d) THEN @ ELSE @ \cup {d}]
    /\ UNCHANGED <<version, alerts, audit, pc, limit, loaded, started, commits, history>>

(* Mutant of Close: the new alerts of a session stay in memory.             *)
CloseKeepsPending(p) ==
    /\ pc' = [pc EXCEPT ![p] = "idle"]
    /\ limit' = [limit EXCEPT ![p] = 0]
    /\ loaded' = [loaded EXCEPT ![p] = Nothing]
    /\ due' = [due EXCEPT ![p] = {}]
    /\ UNCHANGED pending
    /\ started' = [started EXCEPT ![p] = 0]
    /\ stale' = [stale EXCEPT ![p] = {}]

(* The session is closed and what it has read forgotten. *)
Close(p) ==
    /\ pc' = [pc EXCEPT ![p] = "idle"]
    /\ limit' = [limit EXCEPT ![p] = 0]
    /\ loaded' = [loaded EXCEPT ![p] = Nothing]
    /\ due' = [due EXCEPT ![p] = {}]
    /\ pending' = [pending EXCEPT ![p] = {}]
    /\ started' = [started EXCEPT ![p] = 0]
    /\ stale' = [stale EXCEPT ![p] = {}]

Commit(p) ==
    /\ pc[p] = "checking"
    /\ due[p] = {}
    /\ commits' = commits + 1
    /\ alerts' = alerts \cup
         {[entry |-> d[1], rule |-> d[2], status |-> "open",
           started |-> started[p], committed |-> commits + 1] : d \in pending[p]}
    /\ evaluated' = evaluated \cup (DOMAIN loaded[p] \ stale[p])
    /\ covered' = IF stale[p] = {} /\ Context(p) = Present THEN covered \cup DOMAIN loaded[p]
                  ELSE covered
    /\ Close(p)
    /\ UNCHANGED <<version, audit>>

(* The process dies or the database refuses: nothing of it is visible. *)
Abort(p) ==
    /\ pc[p] # "idle"
    /\ Close(p)
    /\ UNCHANGED <<version, alerts, audit, commits, evaluated, covered>>

Id(a) == <<a.entry, a.rule, a.committed>>

(* update_alert_status: any status may follow any other. *)
Review(a, status) ==
    /\ Len(audit) < MaxReviews
    /\ alerts' = (alerts \ {a}) \cup {[a EXCEPT !.status = status]}
    /\ audit' = Append(audit, [alert |-> Id(a),
                 action |-> IF status = "closed" THEN "closure" ELSE "status change"])
    /\ UNCHANGED <<version, evaluation, commits, history>>

Next ==
    \/ \E e \in Entries : Change(e)
    \/ \E a \in alerts, status \in Statuses : Review(a, status)
    \/ \E p \in Evaluators :
          LoadEntries(p) \/ LoadContext(p) \/ Check(p) \/ Commit(p) \/ Abort(p)

Spec == Init /\ [][Next]_vars
-----------------------------------------------------------------------------
(* An evaluation that began after another had committed never creates an    *)
(* alert that exists, whatever was done with it since and however the       *)
(* record has changed: two alerts of one record and rule only ever come     *)
(* from evaluations that overlapped (_existing_alert).                      *)
DuplicatesOverlap ==
    \A a, b \in alerts :
        a.entry = b.entry /\ a.rule = b.rule => a.committed > b.started

(* Repeated alerts are avoided by the rule name of a record                 *)
(* (docs/development.md): false when evaluations overlap.                   *)
OneAlertPerRule ==
    \A a, b \in alerts :
        a.entry = b.entry /\ a.rule = b.rule => Id(a) = Id(b)

Alerted(e, kind) == \E a \in alerts : a.entry = e /\ a.rule[1] = kind

(* A record that was evaluated as it stands has an alert for everything in  *)
(* it that calls for one, even when other records changed during that       *)
(* evaluation and whatever the evaluations of other processes did; for two  *)
(* sources of its CVE, it must have been compared with all records as they  *)
(* stand (evaluate_and_create_alerts).                                      *)
DueIsAlerted ==
    /\ \A e \in evaluated :
          /\ row[e].level = "critical" \/ row[e].severe => Alerted(e, "critical")
          /\ KnownExploited(row[e]) => Alerted(e, "exploited")
          /\ row[e].component \in VehicleCritical /\ HighRisk(row[e]) => Alerted(e, "component")
    /\ \A e \in covered :
          /\ row[e].cve # None
          /\ \E f, g \in Present, column \in {"names", "urls"} :
                /\ row[f].cve = row[e].cve /\ row[g].cve = row[e].cve
                /\ \E m \in row[f][column], n \in row[g][column] : m # n
          => Alerted(e, "cve")

(* When MinItems high-risk records of one vendor, or of one component, all  *)
(* compared with all as they stand, were first seen within Lookback of one  *)
(* another, at least one of them has a burst alert, although each looks     *)
(* back only from its own date and reports one scope at most                *)
(* (_burst_context).                                                        *)
BurstsAreAlerted ==
    \A scope \in {"vendor", "component"} : \A burst \in SUBSET covered :
        /\ Cardinality(burst) = MinItems
        /\ \A e, f \in burst : /\ HighRisk(row[e])
                               /\ row[e][scope] # None /\ row[e][scope] = row[f][scope]
                               /\ row[e].first <= row[f].first + Lookback
        => \E e \in burst : Alerted(e, "vendor burst") \/ Alerted(e, "component burst")
=============================================================================
