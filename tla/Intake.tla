------------------------------- MODULE Intake -------------------------------
(****************************************************************************)
(* How core records come in: the manual entries of                          *)
(* src/backend/app/api/routes/manual_entries.py and the external ingest of  *)
(* src/backend/app/services/intelligence_ingest.py, next to the worker that *)
(* turns collected items into core records of the same table.  Each of the  *)
(* three computes the deduplication key in its own way.                     *)
(*                                                                          *)
(* The API is one process whose handlers run one after the other; the       *)
(* worker's transactions run beside them.                                   *)
(*   Create, Change            one step: the worker never uses the keys     *)
(*                             that they look for and write                 *)
(*   BeginIngest, then         the SELECTs, and the writes computed from    *)
(*   MergeIngest, CreateIngest what they found                              *)
(*   BeginReport, then         the same for the worker                      *)
(*   MergeReport, CreateReport                                              *)
(*   Abandon...                a constraint refuses the writes, or the      *)
(*                             process dies: nothing of them is visible     *)
(* A submission or a payload is what it is told apart by; severity, scores, *)
(* statuses and dates are left out.                                         *)
(****************************************************************************)
EXTENDS Naturals, Sequences, FiniteSets

CONSTANTS
    Cves, Titles, Names, Urls,
    Ids,           \* external ids and keys that collectors choose
    Hashes,        \* content hashes that collectors send
    Submissions,   \* manual entries that people submit
    Changes,       \* what they change about them later
    Payloads,      \* what external collectors send
    Reports,       \* what the worker's normalizers produce
    Spells,        \* [Ids -> the key of a row it spells, or None]
    None, Same,    \* no value; the field is not changed
    MaxRequests, MaxReports   \* bounds

Submission == [title : Titles, name : Names, url : Urls, cve : Cves \cup {None}]

Alteration == [title : Titles \cup {Same}, cve : Cves \cup {None, Same},
               name : Names \cup {Same}, url : Urls \cup {Same}]

(* manual: whether "manual" is among its tags. *)
Payload == [title : Titles, name : Names, url : Urls, cve : Cves \cup {None},
            id : Ids \cup {None}, dedup : Ids \cup {None}, hash : Hashes \cup {None},
            manual : BOOLEAN]

Report == [title : Titles, name : Names, url : Urls, cve : Cves \cup {None},
           id : Ids \cup {None}]

Texts      == Titles \X Names \X Urls
Collectors == Names \X Ids

Key == [kind : {"cve", "manual cve"}, of : Cves]
  \cup [kind : {"manual text"}, of : Texts]
  \cup [kind : {"dedup"}, of : Ids]
  \cup [kind : {"external"}, of : Collectors]
  \cup [kind : {"content"}, of : Hashes]
  \cup [kind : {"url"}, of : Urls]

ASSUME RequestsAssumption ==
    /\ Submissions \subseteq Submission /\ Changes \subseteq Alteration
    /\ Payloads \subseteq Payload /\ Reports \subseteq Report
    /\ Spells \in [Ids -> Key \cup {None}]

ASSUME SentinelAssumption ==
    /\ None \notin Cves \cup Ids \cup Hashes \cup Key
    /\ Same \notin Titles \cup Cves \cup Names \cup Urls \cup {None}

ASSUME BoundAssumption == {MaxRequests, MaxReports} \subseteq Nat

Link == [name : Names, id : Ids \cup Key \cup {None}]

(* names, urls: source_names and source_urls; manual: _is_manual_entry;     *)
(* raw: the raw row that the API stored with it, 0 when the worker made it. *)
Row == [key : Key, cve : Cves \cup {None}, title : Titles,
        names : Seq(Names), urls : Seq(Urls), manual : BOOLEAN,
        links : [Urls -> Link \cup {None}], raw : Nat]

(* What raw_hash is computed from: a submission; or a payload's name, URL   *)
(* and content.                                                             *)
Content == Hashes \cup Payload
RawHash == [kind : {"manual"}, of : Submission]
      \cup [kind : {"ingest"}, name : Names, url : Urls, content : Content]
Raw     == [hash : RawHash, title : Titles, name : Names, url : Urls]

Event == [action : {"created", "duplicate", "updated"}, row : Nat, key : Key]

(* An open transaction: what it deals with, the row it found, or 0, and     *)
(* that row as it was.                                                      *)
Ingesting == [payload : Payloads, row : Nat, copy : Row \cup {None}]
Reporting == [report : Reports, row : Nat, copy : Row \cup {None}]

ASSUME RowSentinelAssumption ==
    None \notin Row \cup Link \cup Ingesting \cup Reporting

VARIABLES
    rows,      \* threat_intelligence, in the order of creation
    raws,      \* raw_intelligence, the rows that the API stores
    audit,     \* audit_logs
    api,       \* the ingest request that is being handled, or None
    worker,    \* the report that is being upserted, or None
    requests, reports

database == <<rows, raws, audit>>
vars     == <<rows, raws, audit, api, worker, requests, reports>>

TypeOK ==
    /\ rows \in Seq(Row)
    /\ raws \in Seq(Raw)
    /\ audit \in Seq(Event)
    /\ api \in Ingesting \cup {None}
    /\ worker \in Reporting \cup {None}
    /\ <<requests, reports>> \in Nat \X Nat
    /\ \A i \in DOMAIN rows : rows[i].names # << >> /\ rows[i].urls # << >>

Init ==
    /\ rows = << >> /\ raws = << >> /\ audit = << >>
    /\ api = None /\ worker = None
    /\ requests = 0 /\ reports = 0

-----------------------------------------------------------------------------
(* Mutant of ManualKey: the CVE does not take precedence over the text. *)
ManualKeyByText(cve, title, name, url) ==
    [kind |-> "manual text", of |-> <<title, name, url>>]

(* _dedup_key of manual_entries.py; title stands for the category, too. *)
ManualKey(cve, title, name, url) ==
    IF cve # None THEN [kind |-> "manual cve", of |-> cve]
    ELSE [kind |-> "manual text", of |-> <<title, name, url>>]

(* Mutant of IngestKey: the collector's own key is looked at first. *)
IngestKeyOwnFirst(p) ==
    CASE p.dedup # None -> [kind |-> "dedup", of |-> p.dedup]
      [] p.cve # None   -> [kind |-> "cve", of |-> p.cve]
      [] p.id # None    -> [kind |-> "external", of |-> <<p.name, p.id>>]
      [] p.hash # None  -> [kind |-> "content", of |-> p.hash]
      [] OTHER          -> [kind |-> "url", of |-> p.url]

(* _dedup_key of intelligence_ingest.py: the first that there is. *)
IngestKey(p) ==
    IF p.cve # None THEN [kind |-> "cve", of |-> p.cve]
    ELSE IF p.dedup # None THEN [kind |-> "dedup", of |-> p.dedup]
    ELSE IF p.id # None THEN [kind |-> "external", of |-> <<p.name, p.id>>]
    ELSE IF p.hash # None THEN [kind |-> "content", of |-> p.hash]
    ELSE [kind |-> "url", of |-> p.url]

(* dedup_key of the worker's dedup.py, for a row that has a URL. *)
ReportKey(r) ==
    IF r.cve # None THEN [kind |-> "cve", of |-> r.cve] ELSE [kind |-> "url", of |-> r.url]

ManualHash(s) == [kind |-> "manual", of |-> s]

(* The collector's own key and tags are not part of the content. *)
IngestHash(p) ==
    [kind |-> "ingest", name |-> p.name, url |-> p.url,
     content |-> IF p.hash # None THEN p.hash
                 ELSE [p EXCEPT !.dedup = None, !.manual = FALSE]]

Holders(key) == {i \in DOMAIN rows : rows[i].key = key}
Stored(hash) == \E i \in DOMAIN raws : raws[i].hash = hash

(* _find_existing: the CVE first, then any other sign.  Which of several    *)
(* rows the database returns first is left open.                            *)
Found(p) ==
    LET sameCve == {i \in DOMAIN rows : p.cve # None /\ rows[i].cve = p.cve}
        other   == {i \in DOMAIN rows :
                      \/ rows[i].key = IngestKey(p)
                      \/ p.dedup # None /\ rows[i].key = Spells[p.dedup]
                      \/ /\ p.id # None
                         /\ rows[i].links[p.url] # None
                         /\ rows[i].links[p.url].id = p.id}
    IN  IF sameCve # {} THEN sameCve ELSE other

(* Mutant of LinkAfter: the content hash takes the place of a missing id. *)
LinkAfterHash(link, p) ==
    [name |-> p.name,
     id   |-> CASE p.id # None -> p.id [] p.dedup # None -> p.dedup [] OTHER -> p.hash]

(* _upsert_source_link: what the link to a URL says after the payload. *)
LinkAfter(link, p) ==
    [name |-> p.name,
     id   |-> IF p.id # None THEN p.id
              ELSE IF p.dedup # None THEN p.dedup
              ELSE IF link # None THEN link.id ELSE None]

NoLinks == [u \in Urls |-> None]

(* SQLAlchemy writes a list column only when the merge has changed it.      *)
Extended(current, read, x) ==
    IF \E i \in DOMAIN read : read[i] = x THEN current ELSE Append(read, x)

(* Mutants of Merged: the CVE is filled in; the new name is put first.      *)
MergedFillsCve(current, read, p) ==
    [current EXCEPT !.names  = Extended(@, read.names, p.name),
                    !.urls   = Extended(@, read.urls, p.url),
                    !.cve    = IF @ = None THEN p.cve ELSE @,
                    !.links[p.url] = LinkAfter(@, p)]
MergedNameFirst(current, read, p) ==
    [current EXCEPT !.names  = <<p.name>> \o read.names,
                    !.urls   = Extended(@, read.urls, p.url),
                    !.links[p.url] = LinkAfter(@, p)]

(* _merge_existing and _upsert_source_link; an ingested "manual" tag makes  *)
(* the row a manual entry.                                                  *)
Merged(current, read, p) ==
    [current EXCEPT !.names  = Extended(@, read.names, p.name),
                    !.urls   = Extended(@, read.urls, p.url),
                    !.manual = @ \/ p.manual,
                    !.links[p.url] = LinkAfter(@, p)]

(* merge_normalized and upsert_source_attribution: the worker writes its    *)
(* lists, the tags among them, whatever it has read.                        *)
Reported(current, read, r) ==
    [current EXCEPT !.names  = Extended(read.names, read.names, r.name),
                    !.urls   = Extended(read.urls, read.urls, r.url),
                    !.manual = read.manual,
                    !.cve    = IF read.cve = None /\ r.cve # None THEN r.cve ELSE @,
                    !.links[r.url] = [name |-> r.name, id |-> r.id]]

(* Mutant of Audited: the event names the key that the row had before. *)
AuditedBefore(action, i, key) ==
    Append(audit, [action |-> action, row |-> i,
                   key |-> IF i \in DOMAIN rows THEN rows[i].key ELSE key])

Audited(action, i, key) == Append(audit, [action |-> action, row |-> i, key |-> key])

-----------------------------------------------------------------------------
Request == api = None /\ requests < MaxRequests /\ requests' = requests + 1

(* create_manual_entry, with a key that no row has.  A submission whose     *)
(* content is stored already is refused by the unique raw_hash.             *)
Create(s) ==
    LET key == ManualKey(s.cve, s.title, s.name, s.url) IN
    /\ Request
    /\ Holders(key) = {}
    /\ ~ Stored(ManualHash(s))
    /\ raws' = Append(raws, [hash |-> ManualHash(s), title |-> s.title,
                             name |-> s.name, url |-> s.url])
    /\ rows' = Append(rows, [key |-> key, cve |-> s.cve, title |-> s.title,
                 names |-> <<s.name>>, urls |-> <<s.url>>, manual |-> TRUE,
                 links |-> [NoLinks EXCEPT ![s.url] = [name |-> s.name, id |-> key]],
                 raw |-> Len(raws')])
    /\ audit' = Audited("created", Len(rows'), key)
    /\ UNCHANGED <<api, worker, reports>>

(* create_manual_entry finds the entry: only last_seen_at and the audit log *)
(* change.  If what it finds is no manual entry it answers 409.             *)
CreateAgain(s) ==
    LET key == ManualKey(s.cve, s.title, s.name, s.url) IN
    /\ Request
    /\ \E i \in Holders(key) : rows[i].manual /\ audit' = Audited("duplicate", i, key)
    /\ UNCHANGED <<rows, raws, api, worker, reports>>

(* Mutant of Rekeyed: a changed source leaves the key as it was. *)
RekeyedByTitle(r, title, cve, name, url) ==
    IF title = r.title /\ cve = r.cve THEN r.key ELSE ManualKey(cve, title, name, url)

Rekeyed(r, title, cve, name, url) == ManualKey(cve, title, name, url)

Changed(r, c) ==
    LET title == IF c.title = Same THEN r.title ELSE c.title
        cve   == IF c.cve = Same THEN r.cve ELSE c.cve
        name  == IF c.name = Same THEN r.names[1] ELSE c.name
        url   == IF c.url = Same THEN r.urls[1] ELSE c.url
        moved == c.name # Same \/ c.url # Same
    IN  [r EXCEPT !.title = title, !.cve = cve,
                  !.names = IF moved THEN <<name>> ELSE @,
                  !.urls  = IF moved THEN <<url>> ELSE @,
                  !.key   = Rekeyed(r, title, cve, name, url)]

(* Mutant of RawAfter: the raw row keeps its source. *)
RawAfterKeepsSource(raw, r) == [raw EXCEPT !.title = r.title]

RawAfter(raw, r) ==
    [raw EXCEPT !.title = r.title, !.name = r.names[1], !.url = r.urls[1]]

(* source_links[0] is moved to the new source.  The relationship has no     *)
(* order, so this is any link; another link of the row with the new URL     *)
(* makes the unique constraint refuse the whole change.                     *)
LinksAfter(r) ==
    LET first == [name |-> r.names[1], id |-> r.key]
        links == {u \in Urls : r.links[u] # None}
    IN  IF links = {} THEN {r.links}
        ELSE {[r.links EXCEPT ![u] = None, ![r.urls[1]] = first] :
                 u \in {u \in links : links \cap {r.urls[1]} \subseteq {u}}}

(* update_manual_entry.  An entry with the new key elsewhere means 409.     *)
Change(i, c) ==
    LET new == Changed(rows[i], c) IN
    /\ Request
    /\ rows[i].manual
    /\ Holders(new.key) \subseteq {i}
    /\ \E links \in LinksAfter(new) : rows' = [rows EXCEPT ![i] = [new EXCEPT !.links = links]]
    /\ raws' = IF new.raw = 0 THEN raws ELSE [raws EXCEPT ![new.raw] = RawAfter(@, new)]
    /\ audit' = Audited("updated", i, new.key)
    /\ UNCHANGED <<api, worker, reports>>

-----------------------------------------------------------------------------
RowAt(i) == IF i = 0 THEN None ELSE rows[i]

(* Some hit, or 0 when there is none. *)
Picks(hits) == IF hits = {} THEN {0} ELSE hits

BeginIngest(p) ==
    /\ Request
    /\ \E i \in Picks(Found(p)) : api' = [payload |-> p, row |-> i, copy |-> RowAt(i)]
    /\ UNCHANGED <<rows, raws, audit, worker, reports>>

MergeIngest ==
    /\ api # None /\ api.row # 0
    /\ rows' = [rows EXCEPT ![api.row] = Merged(@, api.copy, api.payload)]
    /\ audit' = Audited("duplicate", api.row, api.copy.key)
    /\ api' = None
    /\ UNCHANGED <<raws, worker, requests, reports>>

CreateIngest ==
    LET p == api.payload
        key == IngestKey(p)
    IN
    /\ api # None /\ api.row = 0
    /\ Holders(key) = {} /\ ~ Stored(IngestHash(p))
    /\ raws' = Append(raws, [hash |-> IngestHash(p), title |-> p.title,
                             name |-> p.name, url |-> p.url])
    /\ rows' = Append(rows, [key |-> key, cve |-> p.cve, title |-> p.title,
                 names |-> <<p.name>>, urls |-> <<p.url>>, manual |-> p.manual,
                 links |-> [NoLinks EXCEPT ![p.url] = LinkAfter(None, p)],
                 raw |-> Len(raws')])
    /\ audit' = Audited("created", Len(rows'), key)
    /\ api' = None
    /\ UNCHANGED <<worker, requests, reports>>

(* Mutant of AbandonIngest: the raw row, flushed first, is kept. *)
AbandonIngestKeepsRaw ==
    LET p == api.payload IN
    /\ api # None
    /\ raws' = IF api.row # 0 \/ Stored(IngestHash(p)) THEN raws
               ELSE Append(raws, [hash |-> IngestHash(p), title |-> p.title,
                                  name |-> p.name, url |-> p.url])
    /\ api' = None
    /\ UNCHANGED <<rows, audit, worker, requests, reports>>

(* The key, the raw row or the link is there by now, or the process dies.   *)
AbandonIngest ==
    /\ api # None
    /\ api' = None
    /\ UNCHANGED <<database, worker, requests, reports>>

-----------------------------------------------------------------------------
(* upsert_normalized_record looks for the key only. *)
BeginReport(r) ==
    /\ worker = None
    /\ reports < MaxReports
    /\ reports' = reports + 1
    /\ \E i \in Picks(Holders(ReportKey(r))) :
          worker' = [report |-> r, row |-> i, copy |-> RowAt(i)]
    /\ UNCHANGED <<database, api, requests>>

MergeReport ==
    /\ worker # None /\ worker.row # 0
    /\ rows' = [rows EXCEPT ![worker.row] = Reported(@, worker.copy, worker.report)]
    /\ worker' = None
    /\ UNCHANGED <<raws, audit, api, requests, reports>>

CreateReport ==
    LET r == worker.report IN
    /\ worker # None /\ worker.row = 0
    /\ Holders(ReportKey(r)) = {}
    /\ rows' = Append(rows, [key |-> ReportKey(r), cve |-> r.cve, title |-> r.title,
                 names |-> <<r.name>>, urls |-> <<r.url>>, manual |-> FALSE,
                 links |-> [NoLinks EXCEPT ![r.url] = [name |-> r.name, id |-> r.id]],
                 raw |-> 0])
    /\ worker' = None
    /\ UNCHANGED <<raws, audit, api, requests, reports>>

(* The key is taken by now, or the process dies. *)
AbandonReport ==
    /\ worker # None
    /\ worker' = None
    /\ UNCHANGED <<database, api, requests, reports>>

Next ==
    \/ \E s \in Submissions : Create(s) \/ CreateAgain(s)
    \/ \E i \in DOMAIN rows, c \in Changes : Change(i, c)
    \/ \E p \in Payloads : BeginIngest(p)
    \/ MergeIngest \/ CreateIngest \/ AbandonIngest
    \/ \E r \in Reports : BeginReport(r)
    \/ MergeReport \/ CreateReport \/ AbandonReport

Spec == Init /\ [][Next]_vars
-----------------------------------------------------------------------------
(* The row was entered by hand: it goes back to a submission.               *)
Handmade(i) == rows[i].raw # 0 /\ raws[rows[i].raw].hash.kind = "manual"

(* The dedup key that an entry made by hand would get if it were submitted  *)
(* as it is now.                                                            *)
KeyNow(r) == ManualKey(r.cve, r.title, r.names[1], r.urls[1])

(* Whatever comes in between, merges of external payloads into it included, *)
(* an entry made by hand always has the key that its present content gives: *)
(* submitting what it says finds it, and changing another entry to say the  *)
(* same is refused (docs/development.md: repeated submissions create no     *)
(* second record).                                                          *)
HandmadeKeyIsCurrent ==
    \A i \in DOMAIN rows : Handmade(i) => rows[i].manual /\ rows[i].key = KeyNow(rows[i])

(* However the ingest API and the worker come to report a CVE, one after    *)
(* the other or at once, they end on one row: outside manual entries no two *)
(* rows have the same CVE (docs/external-ingest.md).                        *)
IntakesConverge ==
    \A i, j \in DOMAIN rows :
        /\ rows[i].cve # None /\ rows[i].cve = rows[j].cve
        /\ rows[i].key.kind # "manual cve" /\ rows[j].key.kind # "manual cve"
        => i = j

(* The raw rows and the core rows that the API stores belong together one   *)
(* to one, through refusals and crashes, and those of an entry made by hand *)
(* name the same title and source, whatever was changed or merged.          *)
RawsFollowEntries ==
    /\ \A n \in DOMAIN raws : \E i \in DOMAIN rows : rows[i].raw = n
    /\ \A i, j \in DOMAIN rows : rows[i].raw = rows[j].raw /\ rows[i].raw # 0 => i = j
    /\ \A i \in DOMAIN rows : Handmade(i) =>
          LET raw == raws[rows[i].raw] IN
          raw.title = rows[i].title /\ raw.name = rows[i].names[1] /\ raw.url = rows[i].urls[1]

(* The audit log follows a row through its changes of key: the last event   *)
(* of every row that has one names the key that the row has now, and every  *)
(* row that the API has stored has exactly one event of its creation.       *)
AuditTellsKey ==
    \A i \in DOMAIN rows :
        LET events == {n \in DOMAIN audit : audit[n].row = i}
            births == {n \in events : audit[n].action = "created"}
        IN  /\ \A n \in events : (\A m \in events : m <= n) => audit[n].key = rows[i].key
            /\ Cardinality(births) = IF rows[i].raw = 0 THEN 0 ELSE 1
-----------------------------------------------------------------------------
(* One row per CVE, manual entries included, as docs/connectors.md has it:  *)
(* false, for the worker does not look for a manual entry's key.            *)
OneRowPerCve ==
    \A i, j \in DOMAIN rows : rows[i].cve # None /\ rows[i].cve = rows[j].cve => i = j
=============================================================================
