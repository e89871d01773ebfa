# A verification project for SentinelDrive

SentinelDrive collects public vehicle-security intelligence, stores what it
collected, turns it into deduplicated core records, scores them and raises
alerts.  This directory holds TLA+ models of the worker (how it fetches, stores,
normalizes, deduplicates and scores, and the pipeline around these stages) and of
the API's handlers that write the same tables, TLC runs over small instances of
them, and TLAPS proofs.  Paths below are relative to the repository.

## 1. The system

| part | code | runs in | durable state |
|---|---|---|---|
| connector runtime | `worker/.../connectors/runtime.py` | worker | none: cursors and rate limits are in a `RuntimeState` in memory |
| connectors | `worker/.../connectors/` (NVD, KEV, RSS, vendors, recalls, sample) | worker | none |
| collection | `worker/.../persistence/service.py` | worker | `sources`, `sync_states`, `job_logs`, `raw_intelligence` |
| normalizers | `worker/.../normalization/normalizers.py`, `dedup.py`, `hints.py` | worker | none |
| normalization | `worker/.../normalization/service.py` | worker | `raw_intelligence.processing_status`, `threat_intelligence`, `threat_intelligence_sources` |
| scoring | `worker/.../scoring/` | worker | `risk_score`, `risk_level`, `metadata.scoring` |
| pipeline | `worker/.../pipeline.py`, `worker/app/` | worker, beat | the Celery queue in Redis |
| alerts | `backend/app/services/alerts.py`, `api/routes/alerts.py` | API, script | `alerts`, `audit_logs` |
| intake | `api/routes/manual_entries.py`, `services/intelligence_ingest.py` | API | core rows, raw rows, links |
| pipeline trigger and source status | `api/routes/sources.py`, `services/pipeline.py` | API | `job_logs`, `sources.status` |
| users | `api/routes/users.py`, `auth.py`, `scripts/admin_bootstrap.py` | API, script | `users` |
| readers | search, statistics, exports, the frontend | API, browser | none |

The processes are: the Celery worker (two children, `worker/scripts/start-worker.sh`),
the beat scheduler (one `process_pipeline` per sync interval), one-off
containers (`make process-once`, `make sync-once`), the API (one uvicorn
process, whose handlers have no `await` and so run one after the other), and
the alert script.  They talk through PostgreSQL (READ COMMITTED, no explicit
row locks) and the Celery queue, and nothing prevents two of them from doing
the same thing at the same time: a pipeline that takes longer than the interval
overlaps the next one, and the trigger API or `make process-once` starts one
beside it.

What is hard about it, then, is the read-then-write pattern that all of these
parts share: a row is read, new column values are computed in Python, and an
UPDATE writes them over whatever the row is by then.  Batches are remembered
outside any transaction, so a decision may be taken on a row that has changed
since.  Uniqueness is enforced by constraints in some places (deduplication
key, raw hash, source name) and only by a preceding SELECT in others (alerts).
Processes die and restart (`restart: unless-stopped`) with nothing remembered.
The connector runtime abandons threads that are late, but cannot stop them, and
the services it asks change between two pages of one answer.  The broker may
evict a task, and a worker that dies loses the one it has acknowledged.
`PROJECT.json` lists the hazards one by one, at the line where each bites.

What makes each part correct:

* connector runtime: a run ends whatever hangs; what a cursor passes over has
  been delivered, and only once while the cursor is kept;
* normalizers: reports of one subject get one key, whichever source they come
  from;
* collection: one row per item, counted as created once; a cursor that only
  successful runs move, in whichever direction; a failure count that is the
  length of the present run of failures;
* normalization: a raw row is done only when a core row shows it; merging never
  loses a source or weakens a record; every row is eventually dealt with;
* scoring: the score, the level and the explanation agree and describe the
  record as it was at one moment; a score falls only because something has been
  filled in that makes the record look safer, or a sighting has been forgotten;
* alerts: one alert per rule and record; what calls for an alert gets one;
* intake: one core row per CVE, whichever way a report comes in;
* pipeline: a stage that fails does not keep the next one from running, what is
  new is not starved by what is collected again, and the result of a triggered
  run says whether a stage raised.

## 2. The modules

| module | what it is | checked by | proved in |
|---|---|---|---|
| `ConnectorRuntime` | a worker's runs over its sources: attempts, timeouts, late threads, cursors, and what the connectors ask of services that change | `connectors` | `ConnectorRuntimeProofs` |
| `SourceRuns` | the abstract run: sources in order, each collected in one step | refined by `ConnectorRuntime` (`RunsAreAtomic`) | `ConnectorRuntimeProofs` |
| `Collection` | what a run of the collection stage makes of `sources`, `sync_states`, `job_logs` and `raw_intelligence`, and the status route | `collection`, `collection_disabled` | `CollectionProofs` |
| `DedupKeys`, `Payloads`, `Normalizers` | operators: from an upstream entry to a raw item, and from that to a record with its deduplication key | `normalization` | `NormalizationSerialProofs` (keys) |
| `Normalization` | batches, row locks, transactions and merges of the normalization stage, fed by collections | `normalization`, `normalization_lost_source` | `NormalizationProofs`, `NormalizationSerialProofs` |
| `IntelligenceStore` | the abstract store: one row per key that absorbs reports | refined by `Normalization` with one worker (`AloneRefinesStore`) | `NormalizationSerialProofs` |
| `ScoringRules` | operators: factors, score and level of a record | `scoring`, `scoring_unexplained` | `ScoringProofs` |
| `Scoring` | scoring batches next to merges that write the same columns | `scoring`, `scoring_unexplained` | `ScoringProofs` |
| `Pipeline` | the queue, the tasks, the stages of a run, beat and the trigger | `pipeline` | `PipelineProofs` |
| `Alerts` | evaluations of records against the rules by API and script, and reviews | `alerts_concurrent`, `alerts_duplicate` | `AlertsProofs` |
| `Intake` | manual entries, external ingest and the worker's upserts on one table | `intake`, `intake_two_rows` | `IntakeProofs` |

`MC...` modules give the constants of a run their values; `...Proofs` hold the
theorems.  Definitions whose comment begins with "Mutant of" are deliberately
wrong variants of another one, used to confirm that a property notices them;
no behaviour of a specification uses them.

How they fit together.  `Pipeline` has each stage as one step; what is inside
is `ConnectorRuntime` and `Collection` for the first, `Normalization` for the
second, `Scoring` for the third.  `MCNormalization` composes four modules: it
writes down what six connectors are answered, has `Payloads` turn that into raw
items and `Normalizers` turn those into records, and gives `Normalization` the
result as its constant `Normalized`; so the keys, names and URLs that meet in
the table are those the code computes.  `Scoring` extends `ScoringRules` and
computes the score of the row it has read.

A rule for the size of a step holds in every module with a database: what one
transaction writes is one step, because it becomes visible at COMMIT and the row
lock of the first UPDATE keeps other writers of the row out until then; what a
transaction or a batch READS before it writes is a step of its own, because
nothing locks it.  A crash loses everything that a process remembers and
nothing that it has committed.

### ConnectorRuntime (`worker/.../connectors/runtime.py`)

State: `now`, `changed` (when each upstream item last changed), the `RuntimeState`
(cursors and the time before which a source may not be asked), the `records` of
the run so far, the `attempt` and the cursor `given` to it, and `threads`: calls
of `collect`, the last of which may be the one that is waited for.  `StartRun`
and `Skip` are `run_enabled_sources`, `Begin`, `Succeed`, `AttemptFails`,
`TimeOut` and `Retry` are `run_connector` with `run_with_timeout`; `Request` and
`RequestFails` are one request of one thread, so that a thread that timed out
goes on asking beside the retry.  `TimeOut` may happen at any moment, because
how long a request takes is left open.  What a thread asks next, which items it
takes from the answer and which cursor follows is that of the connector
(`Page` for the NVD's windows and pages, `Fetched`/`Missed` for lists of
endpoints, `CursorAfter`).  A date is a number, and an item is shown by the
endpoints that list it.  `kept` says whether the caller keeps the
`RuntimeState`, which no task of the worker does.  `log`, `since` and `slipped`
are history: what was delivered, where a source's first window began, and
whether an entry has left a half-read window and made the rest move up.

### SourceRuns

The abstraction has the cursors, the records of the run and what was delivered,
and no threads, attempts, requests or time.  A source is skipped, fails (its
record, after the last attempt, is all there is of it) or succeeds: the cursor
AS IT IS continues, and what was read is delivered.  `ConnectorRuntime` is shown
to implement it, with its threads, late ones included, hidden.  It is
what `Collection` takes for granted when the outcome of a connector is one choice.

### Collection (`worker/.../persistence/service.py`)

State: `db` (status, message, cursor, failures and job log of every source),
`raws`, `world` (what the feeds show), per worker `pc`, the `records` of the
whole run and whether the open transaction has `seen` the source row.  Items
are those that a connector identifies by an external id.  `Fetch` takes the
outcome of a connector as a choice; retries and timeouts are inside it.  A
success brings any part of what is published, because feeds that cannot be read
and entries that cannot be parsed are left out, and a cursor that is none, the
present, or the date of the newest item brought: a run starts from the configured
cursor and nothing compares its cursor with the stored one, so the stored one may
go back.
`stopped` and `overlap` are history variables: which sources an operator has
disabled, and whether two runs have been under way at once.  What the retention
policy keeps of a payload is left out.

### DedupKeys, Payloads, Normalizers (`connectors/*.py`, `normalization/dedup.py`, `hints.py`, `normalizers.py`)

A text is a sequence of words; the constant `Lexicon` says which patterns and
term lists of the code find something in a word (a CVE or CWE number, a
component, "exploited"), so that the order of preference of the code is
modelled and its regular expressions are not.  A URL is a record of the parts
that `canonicalize_url` looks at, and a hash is the value that is hashed.
`Payloads` has one operator per connector (`NvdPayload`, `KevPayload`,
`RssPayload`, `VendorPayload` and `LinkPayload`, `RecallPayload`,
`SamplePayload`) with the choices each makes: which description, which metric,
which link of a feed item, which links of a page.  `Normalizers` has one per
normalizer and `Normalize`, the registry's resolution by source name and type.

### Normalization (`worker/.../normalization/service.py`)

State: `raw` (status, content, creation order), `rows` (the core row of every
key: origin, names, severity, one structured field), `links` (key and URL to
the raw row cited), and per worker `pc`, the remembered `batch` and the `copy`
of the core row it has read.  `Snapshot` is `pending_raw_query`, `Claim` the
UPDATE to `processing` with its lock, `ReadRow` the SELECT of the key,
`Insert`, `Update` and `InsertConflict` the rest of `normalize_raw_row`,
`MarkFailed` the second transaction, `Collect` what `upsert_raw_record` does to
a raw row.  `detail` stands for every field that `merge_normalized` fills in
only when it is empty; in the run it is the CVSS score.

### IntelligenceStore

The abstraction has one variable, `rows`, and one action: a report reaches the
table and is absorbed into the row AS IT IS.  The worker's merge uses the row
as it was read; the two agree exactly when no one writes in between.

### ScoringRules and Scoring (`worker/.../scoring/rules.py`, `service.py`)

`ScoringRules` has every factor as an operator over a record, in tenths of a
point, which makes the code's two decimals exact; of the searched text it keeps
which term tables have a word of it.  The state of `Scoring` is `table`, whose rows
have the columns that merges write and rules read, the metadata (what each key
says, and the latest sightings), score, level, explanation and time of update; and
per process the batch, the copy that was read and the merge under way.
`MergedColumns` and `MergedMetadata` are `merge_normalized`: CVSS score, vector,
component, surface and texts are filled when they were empty, severity, exploit
status and confidence are raised, tags and names are united, a metadata key that is
there stays.  The constant `Reports` is what sources say of a row, and disagrees
about all of these.  `Assess` gives the rules the row AS IT WAS READ, and
`Explanation.basis` is what the score was given for (the fingerprint of the code).
Three things are taken to be so.  No term of the tables is put together from the end
of one text and the beginning of the next.  No merge brings a score: the one
normalizer that gives one is for externally ingested rows, which are stored as
normalized and so are in no batch.  The changes that the API makes to core rows
are those of `Intake`, not of this module.

### Pipeline (`worker/.../pipeline.py`, `worker/app/tasks.py`, `celery_app.py`, `routes/sources.py`, `services/pipeline.py`)

State: `raw` (status and creation order), `core` and `scored`, the `queue`, what
each worker is `running` (the stages left and those that raised), and for each
triggered job the `result` its task has and whether its row is `logged`.  `Beat`,
`SendStage`, `Trigger` and `ProcessOnce` ask for work; `LogTrigger` is the commit
of the job log after the task was sent; `Collect`, `Normalize` and `Score` are
the stages over a batch of the run's limit; `StageRaises` is the `except` of
`run_stage`, `Finish` the summary.  `Evict` and `Crash` lose tasks: the broker is
configured to evict, and a task is acknowledged when it begins.  Collection
decides freely which items the sources show, so a row may be sent back to the
beginning in every run.  The worker injects no alert evaluator, so its fourth
stage is always skipped, and the trigger's limit for alerts is not modelled.

### Alerts (`backend/app/services/alerts.py`)

State: `version` (records go through given versions), `alerts`, `audit`, and
per evaluator the `limit` it was asked for, what it has `loaded`, what is `due`,
what is `pending` in its session.  `LoadEntries`, `LoadContext`, `Check` and
`Commit` are the SELECTs and the COMMIT of `evaluate_and_create_alerts`, in order.
A record is compared with the `Context`: the newest, as many as the limit or as
`ContextLimit`, whichever is more, and those that are evaluated.  `Fires` is
`alert_candidates` with the look-back of `_burst_context` counted in days; of the
sources of a CVE the names and the URLs are counted apart, and the larger number
decides.  `KevNames` are the names that `_known_exploited` recognises, and
`exploited` stands for all its other signs (the status, a tag, a signal of the
score, a field of the catalogue).  `stale`, `evaluated` and `covered` are history:
the records that have changed since an evaluation began, those that have not
changed since they were evaluated, and those that were, besides, compared with
every record as it stands.

### Intake (`manual_entries.py`, `intelligence_ingest.py`)

State: `rows` (key, CVE, title, names, URLs, links, whether it is a manual
entry, its raw row), `raws`, `audit`, the request `api` is handling and the
report the `worker` is upserting.  `Create`, `CreateAgain` and `Change` are one
step each: the API handles one request at a time, and the worker neither looks
for nor writes the manual keys that they look for and write.  An ingest and a
report are two steps, the search and the writes.  `Found` leaves open which of
several hits the database returns; `LinksAfter` which link is `source_links[0]`,
for the relationship has no order.  Severity, scores, statuses, dates and tags
other than `manual` are left out.

## 3. The runs

| run | instance | what it shows |
|---|---|---|
| `connectors` | one of four lists of sources: the NVD, recalls, [disabled, KEV, RSS], [unknown, vendors, sample]; 4 items; up to 2 runs, a change, an error, any number of timeouts, `RuntimeState` kept or not | windows read over several pages and runs miss nothing unless an entry slips; recalls are delivered once; every run ends; seen from outside, each source is collected in one step (`SourceRuns`) |
| `collection` | two workers, two sources, 3 runs, one of crash and error, one status change | counts, cursor and raw rows match the job log, though runs bring only part of what is published and their cursors go back; as long as runs do not overlap no raw row is overwritten with an older version |
| `collection_disabled` | one worker, one source, 2 runs | VIOLATED: a source that an operator has disabled is collected by the next run |
| `normalization` | a catalogue of 8 raw rows with two contents each from six connectors, 3 at a time; one worker with up to 3 collections and a crash, or two with 2 collections, a crash and an error | alone: sources are complete, rows show the present content, only what is malformed fails, one row per subject, and the stage implements `IntelligenceStore`; in any case: done rows are attributed, the origin is kept, nothing is emptied, every raw row settles |
| `normalization_lost_source` | two workers, the same catalogue | VIOLATED: a merge computed from an old read forgets the other worker's source |
| `scoring` | rows of five reports that disagree, scored by the rules; one process with one row, three merges and a crash, or with two rows, a merge, an error and a crash; two processes with two rows, batches of one, a merge and an error; forced and not | alone: explanations match, a score falls only for a reason, scoring again changes nothing; in any case: a scored row keeps a score and its level, and every row is scored in the end |
| `scoring_unexplained` | two processes, one row | VIOLATED: a merge with an old metadata column removes the explanation, and the row is not scored again |
| `pipeline` | 2 workers, 2 items (one that no normalizer accepts), a job, a queue of one, one manual task, one fault | the newest rows are scored in the end whatever raises; a logged job's result says whether a stage raised, unless the task is lost |
| `alerts_concurrent` | API and script; two records, a limit below `ContextLimit`, 3 commits and a review, or three records of one vendor, limits below and above `ContextLimit`, 2 commits | duplicates need overlap, also after an alert was closed; what is due is alerted although other records change; bursts are alerted |
| `alerts_duplicate` | the same | VIOLATED: two evaluations that overlap create the same alert twice |
| `intake` | 2 submissions, 3 changes, 5 payloads, 2 reports of one CVE and one URL, 5 requests | keys stay current, the ingest paths converge, raw rows and audit events follow |
| `intake_two_rows` | the same without payloads | VIOLATED: a CVE entered by hand gets a second row from the worker |

`normalization`, `scoring` and `alerts_concurrent` have a variable `scope`, chosen
once in the initial state, that says which processes, rows and limits there are and
what may happen; properties whose name begins with `Alone` speak of the scopes with
one process.

Bounds, and why they are enough.  Two processes suffice for every race here,
because every race is between one reader-then-writer and one writer of the same
row; symmetric workers add nothing.  Three raw rows with a batch limit of two
force a second batch, so that starvation and stale batches can happen.  The rows
of each scope of `normalization` are chosen to meet: one CVE number in NVD, KEV
and a catalogue entry that gets its number later; that entry, a feed post and an
advisory that agree first on a number and then on a page spelled differently; a
vendor page, a recall found for two vehicles and a sample that meet nobody.  Two
and three collections let an item change while it is in a batch and after it was
normalized.  One crash and one error each hit every step, since they are enabled
everywhere.  In `connectors` a page holds one entry and a run reads two, so that
a window of three needs a second run, and a change can hit it at either page
boundary; the window of nine is longer than the time that passes, so that the
length itself plays no part; one retry makes a late thread overlap the next
attempt.  In `pipeline` beat's limit of one and two items make the second item
wait for as long as the first is collected again, and the trigger and
`ProcessOnce` bring larger limits; a fault is an eviction, a crash or a raising
normalization or scoring, and collection may raise in every run.  The dates of
the three alert records span the look-back exactly (days 0, 3, 7), so that an
off-by-one is seen; the first joins the catalogue between two versions, so that
an evaluation can read it before; and one name at two URLs is a CVE with two
sources.  In `scoring` the reports are chosen to hide and replace each other's
factors: a medium CVSS score for a high severity, an adjacent vector that asks for
high privileges for a text that says "remote", a light component for a heavier
surface, known exploitation for a proof of concept, a text about authenticated
attackers.  Three merges of four reports, with one sighting kept, bring them in
every order and let a sighting be forgotten.  Five requests in `intake` are what create,
ingest, change, ingest, change needs; the payloads cover every kind of key, a
spelled key, and a `manual` tag.

Deadlock is not checked where the bounded systems really stop (connectors,
collection, alerts, intake); the normalization, scoring and pipeline runs check
it, as an idle worker can always find its batch empty and beat can always send.

### Fairness

`Normalization!FairSpec` has weak fairness of `Snapshot` and of `Transaction` for
each worker: the beat scheduler enqueues a pipeline at every interval
(`worker/app/celery_app.py`), its stages run whatever became of the previous
one, the containers restart (`restart: unless-stopped`), and PostgreSQL releases
a lock when its transaction ends.  `Scoring!FairSpec` has weak fairness of
`LoadBatch` and of `Work` for the same reasons.  `Pipeline!FairSpec` states these
reasons themselves: weak fairness of `Beat` and of each worker's `Work`.
`ConnectorRuntime!FairSpec` has weak fairness of the worker only: a thread that
waits for an upstream service may wait forever, and the worker, whose waiting is
bounded by its timeout, goes on.  Collections, changes, merges, errors and
crashes are never forced, and where they would undo the work they are bounded,
so that liveness says: once they stop, work ends.  In `pipeline` collections are
not bounded: `RecentIsScored` holds although every run may collect everything
again, and even if collecting raises every time.

## 4. Findings

* `normalization_lost_source`: `merge_normalized` writes the list columns it
  computed from its read; a concurrent merge is overwritten.
  `docs/connectors.md` promises that merging keeps every source.
* `scoring_unexplained`: the metadata column is written whole by the scorer and
  by merges, so either can undo the other.  The run shows the merge that removes
  the explanation.  The other way round, the scorer puts back the metadata it had
  read and what a merge has added in between is gone, although
  `docs/connectors.md:141` says that of the metadata the scoring task writes only
  `metadata.scoring` (`Rescored`; no run of its own).
* `collection_disabled`: the worker reads the environment only, and writes its
  own idea of the status over the operator's, whereas the frontend says that a
  disabled source is not collected any more.
* `alerts_duplicate`: one alert per rule and record rests on a SELECT; no
  constraint backs it.
* `intake_two_rows`: the worker looks for `cve:<id>`, manual entries are stored
  as `manual:cve:<id>`, though `docs/connectors.md` says that the same CVE is
  merged across manual and other sources.

Known without a run of their own, as the models show or leave room for them:

* With two scorers or mergers the properties named `Alone...` fail for the same
  reason as the first two findings.  With overlapping runs a raw row can be
  overwritten with an older version (hence the condition in `RawNeverGoesBack`).
* The stored cursor can go back without any overlap: a run starts from the
  configured cursor, its cursor is that of the newest item it has brought, which
  is older when the feed with the newest items fails, and `update_sync_state`
  compares nothing.  As no run reads the stored cursor, only its readers in the
  API are misled.
* A merge can lower a score, and rightly: a CVSS score that takes the place of a
  severity, an adjacent vector, a lighter component and a demand for authentication
  weigh less than what they replace (`Reassures`).
* Alerts: beyond max(limit, `CONTEXT_LIMIT`) records an evaluation does not see
  the other sources of a CVE or the rest of a burst (hence `covered`).
* NVD: an entry that changes while its window is being paged leaves the window,
  the rest moves up, and the one at the page boundary is never collected (the
  condition `slipped` in `NothingIsMissed`).  One malformed entry raises, and so
  fails the whole run and each of its attempts.  As tasks keep no `RuntimeState`,
  each run begins again at its initial window and reads the first pages of it;
  `docs/connectors.md` and `docs/source-configuration.md` describe cursors that
  carry over, also for recall campaigns (`CampaignsOnce` speaks of a kept
  state for this reason).
* A list of endpoints of which nothing new came and one failed is reported as if
  all had failed.  A late thread's answer is dropped, and its requests come on
  top of the retry's, unlimited by the rate limit.
* Every collection sends the rows it has seen back to `collected`, and a batch
  takes the rows created last: with more rows than the limit, the older ones
  starve for as long as the newer ones are collected again.  The comment at
  `normalization/service.py:116` chooses that; `RecentIsScored` states what is
  left.
* The `job_logs` row of a triggered run stays `queued`; the status that is shown
  comes from the task's result, and with the task lost there is none.
* The text of a vendor page includes the links found on it, so a list of
  advisories is filed under the first CVE it links to.  A KEV entry whose ransomware
  field says "Unknown" still counts as listed.  An NVD entry too large to keep
  loses the products that only its content names.
* Forced scoring batches order rows by time of update and skip writing what is
  current, so that with a small limit they keep returning to the same rows.
* An ingest whose link was overwritten by another external id of the same URL is
  not recognised when it is sent again; create, retitle, create again ends in
  the unique `raw_hash` and an answer of 500.

## 5. The proofs

The theorems hold for all values of the constants that satisfy the named
assumptions of the modules.  These say that the constants have their types and
that the "no value" markers are distinct from values; what goes beyond that is
named below.  TLC evaluates every assumption on the instances it checks.

* **Connector runtime** (`ConnectorRuntimeProofs`).  `IInv` is `TypeOK`,
  `AttemptsCount` (which attempt belongs to which state of the worker),
  `PresentIsCollected` (the source under way has a connector, the cursor it was
  given is still the one in the state, and the thread that is waited for has
  it), `ThreadsOK` (no thread, late ones included, has read a campaign that its
  own cursor names), `CursorsAreDelivered` (a kept cursor names exactly what was
  delivered) and `DeliveredOnce`.  The point is the late thread: it holds an old
  cursor, so what it reads may well have been delivered since; it does no harm
  because only the thread that was given the present cursor is ever listened to.
  From it follow `CampaignsOnce` and the bound on attempts.
  `NothingIsMissed` needs `WindowInv` besides: of the window a cursor is in the
  middle of, the first entries, as many as the cursor counts, are delivered
  (`CursorIsHonest`), and those of the thread that is waited for are delivered or
  in its hands (`CallIsHonest`), except for entries that have changed since.  An
  entry that changes leaves the window and the rest moves up; unless that has
  happened to a half-read window (`slipped`), the place of the others is as it
  was, which is a fact about cardinalities.  When the last page is read, the
  places below the cursor are all there are, and the next window begins where
  this one ends.
  `RunsAreCollectedAtomically` is the refinement of `SourceRuns`.  `Begin`, the
  requests, `TimeOut`, `Retry`, the passing of time and whatever a late thread
  does change none of its variables; `Succeed` is its `Succeed`, because the
  thread that is waited for was given the cursor that is still the present one
  (`PresentIsCollected`) and `CursorAfter` continues what it was given
  (`CursorContinues`: a date or a count never goes back, a campaign is not
  passed over twice); an attempt that fails or times out is its `Fail` when it
  was the last (`AttemptsCount`) and a stutter otherwise.  `PresentIsEnabled`
  says that the source under way was not one to skip.
* **Collection** (`CollectionProofs`).  `TypeOK`, `FailuresMatchLog`,
  `CursorMatchesLog` and `CreatedOnce` are inductive together: a transaction
  reads nothing before it holds the lock of the source except whether the
  source exists, and if that is out of date the unique name refuses it.  For
  `RawNeverGoesBack`, `AgeInv` says that what a worker holds is in the order of
  its fetching (`FetchedInOrder`), and that as long as runs have not overlapped
  one worker at most is under way and what it holds of an item is at least as new
  as what is stored (`OneRun`).  Nothing of the kind is true of the cursor.
* **Normalization, any number of workers** (`NormalizationProofs`).  The
  inductive invariant is `TypeInv`, `OneTransactionPerRaw`,
  `NormalizedIsAttributed`, `RowsAreCited`, `OriginIsKept`, and `CopyIsAncestor`: what a
  worker has read of a row has the same origin as the row has now, and keeps
  that origin's name and severity.  Without the last part an update computed
  from an old copy could undo `OriginIsKept`; with it, every list that is
  written still starts from the origin.  `NothingIsEmptied` follows step by
  step.  The theorems speak of any function `Normalized`, hence also of the one
  that `Normalizers` computes.
* **Normalization, one worker** (`NormalizationSerialProofs`).  `MemoryInv` says
  that what is remembered is still so: the copy is the row, the batch says what
  the raw rows say, each once, and nothing fails but for a reason.  With it
  `SourcesAreComplete`, `NormalizedIsCurrent`, `NormalizedIsLinked` and
  `OnlyRejectedFail` are inductive, every merge is an `Absorb`, and every step is
  a `Report` of `IntelligenceStore` or leaves its row alone (`SerialRefinement`,
  `SerialGuarantees`).  `AloneInv` carries this over to the scopes of
  `MCNormalization`: of any number of workers, those outside the scope are idle
  forever.  There `ScopesAssumption` says that a scope has finitely many workers,
  and `ReportedAssumption` that `Reported` lists what `Normalized` gives.
* **Keys** (also there).  `OneKeyPerSubject`: two reports of one CVE number, or
  without a number of one page, get one key, for all items, normalizers and
  lexicons.  Recalls without a number are excepted, for their key is the
  campaign.  `OneRowPerSubject` puts the two together: reports of one subject
  are linked from one row.  It rests on `CatalogueAssumption` (`Normalized` is
  what the normalizers make of the catalogue) and `PagesAssumption` (what has
  no number has a page, and no other report is about the page of a recall; the
  code would file such a report as a second row).
* **Scoring rules** (`ScoringProofs`).  For every record the score is
  between 0 and 100 points (`ScoreInRange`) and a higher score never has a lower
  level (`LevelFollowsScore`).  `EvidenceNeverLowers`: a record that `SaysMore` than
  another (columns filled, scales raised, tags, names, metadata and texts added)
  never scores less unless it `Reassures`, which names four ways and no other.
  Although known exploitation hides a proof of concept, it is worth more than what
  it hides; the clamp keeps the order.
* **Scoring** (also there).  For any number of processes `TypeOK`,
  `ScoreAndLevelAgree`, `ScoredForever` (no write makes a scored row a candidate
  again) and `Remembered`: what a batch remembers is a row, and rows are never
  deleted.  For one process, `CopyIsCurrent` (the copy that was read is the row,
  for scorer and merge alike) and `EvidenceIsKept` (a row that was scored has the
  explanation of its score, which is the one the rules give to its `basis`, and the
  row has `Grown` from that basis: merges fill, raise and unite, whatever the
  reports say) give `AloneExplained`, `AloneFallsForAReason` and `AloneIdempotent`.
  `AloneFallsForAReason` rests on `EvidenceNeverLowers`: a row that has grown says
  more, but for what only a forgotten sighting said.
* **Alerts** (`AlertsProofs`).  `TypeOK`, `BegunBefore` (an evaluation began
  before now), `PendingIsNew` (an alert that is pending although it exists was
  committed after the evaluation began) and `DuplicatesOverlap`; with one
  evaluator there is no overlap, hence no duplicate (`SerialUniqueness`).
  `DueInv`: what was loaded of a record that is not stale is what the table says
  (`LoadedIsCurrent`); what such a record calls for is still to be checked, pending
  or there (`DueIsKept`), by itself always and by comparison if nothing is stale and
  the context is everything; when it is committed, only the last is left
  (`EvaluatedIsDone`, `CoveredIsDone`).  From it follow `DueIsAlerted` and
  `BurstsAreAlerted`: the newest record of a burst sees all of it.  Assumed: names
  and URLs are finitely many, and a burst takes at least one record.
* **Intake** (`IntakeProofs`).  `TypeOK`; `RowsInv`: keys are unique, a key of a
  CVE goes with the CVE and, outside manual keys, the other way round, and
  `HandmadeKeyIsCurrent`; `ApiInv`: what an ingest has read of an entry made by
  hand is still so; `WorkerInv`: the worker is never at such an entry, since it
  looks for keys of other kinds.  Hence a merge into an entry made by hand
  extends its current lists, whose first elements, which the key is made of,
  stay.  `RawsFollowEntries` is inductive with it, and so is `LogInv`, that the
  last event of an entry names the key it has, from which `AuditTellsKey` follows.
* **Pipeline** (`PipelineProofs`).  `TypeOK`, and the safety half of
  `LoggedIsReported`: `JobInv` follows the task of a job from the queue to a
  worker to its summary.  It is in one place only (`JobIsOnce`), it is not
  forgotten unless an eviction or a crash loses it (`NoneIsForgotten`), and the
  summary says that a stage raised exactly when one did (`ReportsAreTrue`).
  `UnderWay` ties what a worker says so far to what has raised, and `Untouched`
  says that a job not yet begun has neither.

`PROJECT.json` lists the theorems by name.  `OneTransactionPerRaw`,
`RowsAreCited`, `ScoredForever` and the invariants of `JobInv` are proved and
are properties of no run.  Only model-checked:

* liveness, out of the prover's reach: `EveryRunEnds`, `EveryRawSettles`,
  `EveryEntryIsScored`, `RecentIsScored` and the other half of
  `LoggedIsReported`;
* what the operators of `Payloads`, `Normalizers` and `DedupKeys` compute beside
  the key, and that the catalogue of `MCNormalization` satisfies the assumptions
  named above.

## 6. What is not modelled

* The syntax that connectors parse: XML, HTML, CSV and dates; feed items
  without a date, which have no place in the order of a cursor; the wording of
  hints and regular expressions, which is the constant `Lexicon`.
* The manual and external-ingest normalizers: the backend stores their rows as
  normalized, so no batch has one.  `Intake` has how those rows come about.
* The dictionaries of `RuntimeState` that nothing reads (errors, attempts, last
  success), and the outer `except` of `run_enabled_sources`, which takes a
  connector that cannot be created or a thread that cannot be started.
* The parsing of the environment, which yields the constants of
  `ConnectorRuntime` and keeps no state.
* Of the pipeline: the alert stage, which the worker never runs, and the failure
  to create a database engine, after which nothing has happened.
* Users and authentication; redaction; the audit log by itself (it is an append
  in the transaction of its handler); read-only routes (search, statistics,
  exports, job lists); health probes; migrations and containers; the frontend.
  Except for users, they keep no state that two processes share, or they only
  move data.

## 7. Plan

1. `Users` (`routes/users.py`, `scripts/admin_bootstrap.py`): two bootstraps at
   once, the deactivation of the last administrator, tokens of deactivated users.
2. The two hazards of `Intake` without a property
   (`intelligence_ingest.py:177`, `manual_entries.py:82`), as a run of their own,
   and a run for the cursors that no task keeps.
3. `connectors` with endpoints of vendors, which are in `Payloads` but are not
   fetched by any list of the run.
4. `Collection` and `SourceRuns` in one composition, in which the records that
   `Collection` fetches are those that `SourceRuns` delivers, so far two models
   that agree on what a record is.
5. Proofs: the invariants that items 1 to 4 will need.
