-------------------------- MODULE ConnectorRuntime --------------------------
(****************************************************************************)
(* How a worker fetches its sources: run_enabled_sources and run_connector  *)
(* in src/worker/sentineldrive_worker/connectors/runtime.py, and what the   *)
(* connectors ask of the upstream services, which change meanwhile.         *)
(*                                                                          *)
(* The worker takes its sources one by one.  It collects a source in a      *)
(* thread of its own and waits for it no longer than a timeout; a thread    *)
(* that is late is not stopped, it goes on asking beside the next attempt,  *)
(* and nobody reads its answer.  How long a request takes is left open: it  *)
(* may be answered, fail, or never come back.                               *)
(*                                                                          *)
(* What a run has learnt (cursors, rate limits) is in a RuntimeState.  The  *)
(* worker's tasks pass none, so every run of theirs begins with an empty    *)
(* one; kept says whether the caller keeps it.                              *)
(****************************************************************************)
EXTENDS Naturals, Sequences, FiniteSets

CONSTANTS
    Sources,        \* names of configured sources
    ConnectorOf,    \* [Sources -> Connectors \cup {NoConnector}]
    NoConnector,    \* the key is not in the connector registry
    Enabled,        \* the sources that are enabled
    Orders,         \* the lists of sources a worker may be configured with
    Items,          \* what the upstream services publish, numbered
    Endpoints,      \* [Sources -> Seq(SUBSET Items)]: what each endpoint shows
    PageSize, MaxPages, Window,      \* NVD: per page, per run, first days
    Retries, Backoff, MaxBackoff,    \* RetryPolicy
    Interval,                        \* time between two runs on a source
    Published,      \* the items that are there in the beginning
    Bounds          \* [Orders -> bounds on runs, changes, ticks and errors]

Connectors == {"nvd", "cisa-kev", "rss", "vendor-advisories", "nhtsa-recalls", "sample"}

ASSUME ConfigurationAssumption ==
    /\ ConnectorOf \in [Sources -> Connectors \cup {NoConnector}]
    /\ NoConnector \notin Connectors
    /\ Enabled \subseteq Sources
    /\ Orders \subseteq Seq(Sources)
    /\ \A order \in Orders : order # << >>
    /\ Items \subseteq Nat /\ IsFiniteSet(Items) /\ Published \subseteq Items
    /\ Endpoints \in [Sources -> Seq(SUBSET Items)]
    /\ \A s \in Sources : ConnectorOf[s] \in {"nvd", "cisa-kev"} => Len(Endpoints[s]) = 1
    /\ \A s \in Sources : ConnectorOf[s] = "sample" => Endpoints[s] = << >>

ASSUME BoundAssumption ==
    /\ {PageSize, MaxPages, Interval} \subseteq Nat \ {0}
    /\ {Window, Retries, Backoff, MaxBackoff} \subseteq Nat
    /\ Bounds \in [Orders -> [runs : Nat, changes : Nat, ticks : Nat, errors : Nat]]

VARIABLES
    now,       \* the time
    changed,   \* [Items -> when it was published or last changed, 0 for never]
    order,     \* the configured sources, in order
    kept,      \* whether the RuntimeState is kept from one run to the next
    state,     \* RuntimeState: [cursors, allowed]
    pc,        \* where the worker is
    records,   \* SourceRunRecords of the present or the last run
    given,     \* the cursor that the present source is collected from
    attempt,   \* of the present source
    threads,   \* collections under way, the one that is waited for last
    log,       \* history: what each successful record of a source brought
    since,     \* history: where the first window of a source's cursor began
    slipped,   \* history: an item that was read has left a window half read
    runs, changes, ticks, errors

upstream == <<now, changed, changes, ticks>>
history  == <<log, since, slipped>>
vars == <<now, changed, order, kept, state, pc, records, given, attempt, threads,
          log, since, slipped, runs, changes, ticks, errors>>

-----------------------------------------------------------------------------
(* A cursor, whatever its connector writes into it: the NVD's window and    *)
(* how many of its results have been read; the latest date of a feed or of  *)
(* the catalogue; the campaigns or pages seen; the number of the sample.    *)
Cursor == [from : Nat, to : Nat, next : Nat, seen : SUBSET Items]

NoCursor == [from |-> 0, to |-> 0, next |-> 0, seen |-> {}]

FreshState == [cursors |-> [s \in Sources |-> NoCursor],
               allowed |-> [s \in Sources |-> 0]]

(* What was read of each item: the time of its last change, 0 for nothing. *)
Reading == [Items -> Nat]

Nothing == [i \in Items |-> 0]

Got(reading) == {i \in Items : reading[i] # 0}

(* A call of collect: the window it asks for, how far it has come in its    *)
(* results or endpoints, and what it has read.                              *)
Thread == [source : Sources, cursor : Cursor, from : Nat, to : Nat, next : Nat,
           pages : Nat, read : Reading, errors : BOOLEAN,
           status : {"running", "answered", "raised"}]

Record == [source : Sources, status : {"success", "failed", "skipped"}, attempts : Nat]

TypeOK ==
    /\ now \in Nat
    /\ changed \in [Items -> Nat]
    /\ order \in Orders
    /\ kept \in BOOLEAN
    /\ state \in [cursors : [Sources -> Cursor], allowed : [Sources -> Nat]]
    /\ pc \in {"idle", "source", "waiting", "backoff"}
    /\ records \in Seq(Record)
    /\ given \in Cursor
    /\ attempt \in 0 .. Retries + 1
    /\ threads \in Seq(Thread)
    /\ log \in [Sources -> Seq(Reading)]
    /\ since \in [Sources -> Nat]
    /\ slipped \in BOOLEAN
    /\ {runs, changes, ticks, errors} \subseteq Nat
    /\ pc # "idle" => Len(records) < Len(order)
    /\ pc = "waiting" => threads # << >>
    /\ \A n \in 1 .. Len(threads) :
          threads[n].status # "running" => pc = "waiting" /\ n = Len(threads)

Init ==
    /\ now = 1
    /\ changed = [i \in Items |-> IF i \in Published THEN 1 ELSE 0]
    /\ order \in Orders
    /\ kept \in BOOLEAN
    /\ state = FreshState
    /\ pc = "idle"
    /\ records = << >>
    /\ given = NoCursor
    /\ attempt = 0
    /\ threads = << >>
    /\ log = [s \in Sources |-> << >>]
    /\ since = [s \in Sources |-> 0]
    /\ slipped = FALSE
    /\ runs = 0 /\ changes = 0 /\ ticks = 0 /\ errors = 0

-----------------------------------------------------------------------------
(* What the upstream services answer.                                       *)

(* The vulnerabilities changed in a window, in the order of their numbers,  *)
(* which does not depend on when they were changed.                         *)
Hits(s, from, to) == {i \in Items : changed[i] \in (from .. to) \ {0} /\ i \in Endpoints[s][1]}

Place(i, hits) == Cardinality({j \in hits : j <= i})

Shown(s, n) == {i \in Items : changed[i] # 0 /\ i \in Endpoints[s][n]}

(* Mutant of WindowOf: a window that is read on ends now. *)
WindowOfNow(cursor, time) ==
    [from |-> IF cursor.next > 0 THEN cursor.from ELSE cursor.to, to |-> time]

(* The window of NvdConnector.collect: the one the cursor is in the middle  *)
(* of, or the one after it, or the last days.                               *)
WindowOf(cursor, time) ==
    IF cursor.next > 0 /\ cursor.to # 0 THEN [from |-> cursor.from, to |-> cursor.to]
    ELSE [from |-> IF cursor.to # 0 THEN cursor.to
                   ELSE IF time > Window THEN time - Window ELSE 0,
          to |-> time]

(* Mutant of NewThread: the connector remembers what an attempt that failed *)
(* has read.                                                                *)
Remembered(s) == UNION {Got(threads[n].read) : n \in {m \in 1 .. Len(threads) :
                                                        threads[m].source = s}}

NewThreadRemembers(s, cursor, time) ==
    [source |-> s, cursor |-> [cursor EXCEPT !.seen = @ \cup Remembered(s)],
     from |-> 0, to |-> 0, next |-> 0, pages |-> 0,
     read |-> Nothing, errors |-> FALSE, status |-> "running"]

(* The beginning of collect.  A list of endpoints is walked from its start. *)
NewThread(s, cursor, time) ==
    LET nvd == ConnectorOf[s] = "nvd" IN
    [source |-> s, cursor |-> cursor,
     from |-> IF nvd THEN WindowOf(cursor, time).from ELSE 0,
     to   |-> IF nvd THEN WindowOf(cursor, time).to ELSE 0,
     next |-> IF nvd THEN cursor.next ELSE 0,
     pages |-> 0, read |-> Nothing, errors |-> FALSE, status |-> "running"]

Read(t, items) == [t EXCEPT !.read = [i \in Items |-> IF i \in items THEN changed[i] ELSE @[i]]]

(* A page of the NVD: it ends the call when it is empty, or the last of the *)
(* window, or the last of this run.  Any error ends it too.                 *)
Page(t) ==
    LET hits == Hits(t.source, t.from, t.to)
        page == {i \in hits : Place(i, hits) \in t.next + 1 .. t.next + PageSize}
        next == t.next + Cardinality(page)
        last == page = {} \/ next >= Cardinality(hits) \/ t.pages + 1 >= MaxPages
    IN  [Read(t, page) EXCEPT !.pages = @ + 1,
           \* next = 0 says that the window has been read to its end
           !.next = IF next >= Cardinality(hits) THEN 0 ELSE next,
           !.status = IF last THEN "answered" ELSE "running"]

(* One endpoint of the other connectors.  Recalls that the cursor or an     *)
(* earlier answer names are passed over.                                    *)
Fresh(t, items) ==
    IF ConnectorOf[t.source] = "nhtsa-recalls" THEN items \ (t.cursor.seen \cup Got(t.read))
    ELSE items

Fetched(t) ==
    [Read(t, Fresh(t, Shown(t.source, t.next + 1))) EXCEPT !.next = @ + 1]

(* An endpoint that fails is noted and the others are still asked; what was *)
(* read of it before the failure is kept.                                   *)
Missed(t, part) ==
    [Read(t, Fresh(t, part)) EXCEPT !.next = @ + 1, !.errors = TRUE]

(* After the last endpoint: a call that brings nothing and met an error     *)
(* fails.                                                                   *)
Ended(t) ==
    IF t.next < Len(Endpoints[t.source]) THEN t
    ELSE [t EXCEPT !.status = IF Got(t.read) = {} /\ t.errors THEN "raised" ELSE "answered"]

Raised(t) == [t EXCEPT !.status = "raised"]

(* A source with neither a list nor a base URL has nothing to ask: its call *)
(* brings nothing and hands its cursor back.                                *)
HasEndpoints(t) == Endpoints[t.source] # << >>

(* The next request of a call, when it is answered. *)
Answered(t) ==
    CASE ConnectorOf[t.source] = "nvd" -> Page(t)
      [] ConnectorOf[t.source] = "cisa-kev" ->
            IF Shown(t.source, 1) = {} THEN Raised(t) ELSE Ended(Fetched(t))
      [] OTHER -> IF HasEndpoints(t) THEN Ended(Fetched(t)) ELSE Ended(t)

(* What comes of a call whose next request fails. *)
Failures(t) ==
    IF ConnectorOf[t.source] \in {"nvd", "cisa-kev"} THEN {Raised(t)}
    ELSE IF ~ HasEndpoints(t) THEN {}
    ELSE {Ended(Missed(t, part)) : part \in SUBSET Shown(t.source, t.next + 1)}

Latest(reading, date) ==
    CHOOSE d \in {reading[i] : i \in Items} \cup {date} :
        d >= date /\ \A i \in Items : d >= reading[i]

(* The next_cursor of a call that is answered. *)
CursorAfter(t) ==
    CASE ConnectorOf[t.source] = "sample" -> [NoCursor EXCEPT !.next = t.cursor.next + 1]
      [] ConnectorOf[t.source] = "nvd" ->
            IF t.next = 0 THEN [NoCursor EXCEPT !.to = t.to]
            ELSE [NoCursor EXCEPT !.from = t.from, !.to = t.to, !.next = t.next]
      [] ConnectorOf[t.source] = "cisa-kev" -> [NoCursor EXCEPT !.to = Latest(t.read, 0)]
      [] ConnectorOf[t.source] = "nhtsa-recalls" ->
            [NoCursor EXCEPT !.seen = t.cursor.seen \cup Got(t.read)]
      [] OTHER ->
            IF ~ HasEndpoints(t) THEN t.cursor
            ELSE IF ConnectorOf[t.source] = "rss"
            THEN [NoCursor EXCEPT !.to = Latest(t.read, t.cursor.to)]
            ELSE [NoCursor EXCEPT !.seen = Got(t.read)]

-----------------------------------------------------------------------------
(* The upstream services go on.                                             *)

(* The windows that have been read in part: by the attempt that is waited   *)
(* for, or up to the cursor that the next run goes on from.                 *)
HalfRead ==
    {[source |-> t.source, from |-> t.from, to |-> t.to, next |-> t.next] :
        t \in {threads[n] : n \in {m \in 1 .. Len(threads) : pc = "waiting" /\ m = Len(threads)}}}
    \cup {[source |-> s, from |-> state.cursors[s].from, to |-> state.cursors[s].to,
           next |-> state.cursors[s].next] : s \in Sources}

(* When an item that has been read leaves such a window, because it has     *)
(* been changed again, the items after it move up by a place, and the next  *)
(* page begins after one that nobody has read.                              *)
Slips(i) ==
    \E w \in HalfRead :
        /\ ConnectorOf[w.source] = "nvd"
        /\ i \in Hits(w.source, w.from, w.to)
        /\ Place(i, Hits(w.source, w.from, w.to)) <= w.next
        /\ now \notin w.from .. w.to

Change(i) ==
    /\ changes < Bounds[order].changes
    /\ changes' = changes + 1
    /\ changed' = [changed EXCEPT ![i] = now]
    /\ slipped' = (slipped \/ Slips(i))
    /\ UNCHANGED <<now, order, kept, state, pc, records, given, attempt, threads,
                   log, since, runs, ticks, errors>>

Tick ==
    /\ ticks < Bounds[order].ticks
    /\ ticks' = ticks + 1
    /\ now' = now + 1
    /\ UNCHANGED <<changed, order, kept, state, pc, records, given, attempt, threads,
                   log, since, slipped, runs, changes, errors>>

-----------------------------------------------------------------------------
(* The worker.                                                              *)

Present == order[Len(records) + 1]

(* One request of a thread, which asks on whether it is waited for or not.  *)
(* A thread that nobody waits for leaves with its answer.                   *)
Progress(n, t) ==
    threads' = IF t.status # "running" /\ ~ (pc = "waiting" /\ n = Len(threads))
               THEN [m \in 1 .. Len(threads) - 1 |-> threads[IF m < n THEN m ELSE m + 1]]
               ELSE [threads EXCEPT ![n] = t]

Request(n) ==
    /\ threads[n].status = "running"
    /\ Progress(n, Answered(threads[n]))
    /\ UNCHANGED <<upstream, order, kept, state, pc, records, given, attempt, history,
                   runs, errors>>

RequestFails(n) ==
    /\ threads[n].status = "running"
    /\ errors < Bounds[order].errors
    /\ errors' = errors + 1
    /\ \E t \in Failures(threads[n]) : Progress(n, t)
    /\ UNCHANGED <<upstream, order, kept, state, pc, records, given, attempt, history, runs>>

(* run_enabled_sources, with the RuntimeState it is given or a new one. *)
StartRun ==
    /\ pc = "idle"
    /\ runs < Bounds[order].runs
    /\ runs' = runs + 1
    /\ pc' = "source"
    /\ records' = << >>
    /\ state' = IF kept THEN state ELSE FreshState
    /\ UNCHANGED <<upstream, order, kept, given, attempt, threads, history, errors>>

(* Mutant of Report: the list of sources has no end. *)
ReportForever(status, attempts) ==
    /\ records' = Append(records, [source |-> Present, status |-> status, attempts |-> attempts])
    /\ pc' = "source"
    /\ given' = NoCursor
    /\ attempt' = 0

(* On to the next source. *)
Report(status, attempts) ==
    /\ records' = Append(records, [source |-> Present, status |-> status, attempts |-> attempts])
    /\ pc' = IF Len(records') = Len(order) THEN "idle" ELSE "source"
    /\ given' = NoCursor
    /\ attempt' = 0

(* A source that is disabled, or that no connector is registered for. *)
Skip ==
    /\ pc = "source"
    /\ Present \notin Enabled \/ ConnectorOf[Present] = NoConnector
    /\ Report("skipped", 0)
    /\ UNCHANGED <<upstream, order, kept, state, threads, history, runs, errors>>

(* run_with_timeout submits a call of collect. *)
Submit(cursor, time) ==
    LET t == NewThread(Present, cursor, time) IN
    /\ threads' = Append(threads, t)
    /\ since' = IF ConnectorOf[Present] = "nvd" /\ cursor.to = 0
                THEN [since EXCEPT ![Present] = t.from] ELSE since
    /\ attempt' = attempt + 1
    /\ pc' = "waiting"

(* wait_for_rate_limit, and the first attempt.  The cursor is read once. *)
Begin ==
    /\ pc = "source"
    /\ Present \in Enabled /\ ConnectorOf[Present] # NoConnector
    /\ now' = IF now < state.allowed[Present] THEN state.allowed[Present] ELSE now
    /\ given' = state.cursors[Present]
    /\ Submit(state.cursors[Present], now')
    /\ UNCHANGED <<changed, order, kept, state, records, log, slipped,
                   runs, changes, ticks, errors>>

(* The answer of the thread that is waited for. *)
Succeed ==
    /\ pc = "waiting"
    /\ threads[Len(threads)].status = "answered"
    /\ LET t == threads[Len(threads)] IN
       /\ state' = [cursors |-> [state.cursors EXCEPT ![Present] = CursorAfter(t)],
                    allowed |-> [state.allowed EXCEPT ![Present] = now + Interval]]
       /\ log' = [log EXCEPT ![Present] = Append(@, t.read)]
    /\ threads' = SubSeq(threads, 1, Len(threads) - 1)
    /\ Report("success", attempt)
    /\ UNCHANGED <<upstream, order, kept, since, slipped, runs, errors>>

(* Mutant of AfterFailure: a source that failed is collected from the start *)
(* again.                                                                   *)
AfterFailureForgets ==
    IF attempt <= Retries
    THEN /\ pc' = "backoff"
         /\ UNCHANGED <<state, records, given, attempt>>
    ELSE /\ state' = [cursors |-> [state.cursors EXCEPT ![Present] = NoCursor],
                      allowed |-> [state.allowed EXCEPT ![Present] = now + Interval]]
         /\ Report("failed", attempt)

(* After a failed attempt: another one, or the failed record. *)
AfterFailure ==
    IF attempt <= Retries
    THEN /\ pc' = "backoff"
         /\ UNCHANGED <<state, records, given, attempt>>
    ELSE /\ state' = [state EXCEPT !.allowed[Present] = now + Interval]
         /\ Report("failed", attempt)

(* collect has raised an exception. *)
AttemptFails ==
    /\ pc = "waiting"
    /\ threads[Len(threads)].status = "raised"
    /\ threads' = SubSeq(threads, 1, Len(threads) - 1)
    /\ AfterFailure
    /\ UNCHANGED <<upstream, order, kept, history, runs, errors>>

(* Mutant of TimeOut: shutting the executor down waits for its thread. *)
TimeOutWaits ==
    /\ pc = "waiting"
    /\ threads[Len(threads)].status # "running"
    /\ AfterFailure
    /\ UNCHANGED <<upstream, order, kept, threads, history, runs, errors>>

(* The timeout: the thread goes on, and its answer will not be read. *)
TimeOut ==
    /\ pc = "waiting"
    /\ threads[Len(threads)].status = "running"
    /\ AfterFailure
    /\ UNCHANGED <<upstream, order, kept, threads, history, runs, errors>>

(* The sleep doubles with each attempt, up to a bound. *)
Sleep == LET wanted == Backoff * 2 ^ (attempt - 1)
         IN  IF wanted \in 0 .. MaxBackoff THEN wanted ELSE MaxBackoff

(* After the sleep, the next attempt. *)
Retry ==
    /\ pc = "backoff"
    /\ now' = now + Sleep
    /\ Submit(given, now')
    /\ UNCHANGED <<changed, order, kept, state, records, given, log, slipped,
                   runs, changes, ticks, errors>>

Worker == Skip \/ Begin \/ Succeed \/ AttemptFails \/ TimeOut \/ Retry

Next ==
    \/ \E i \in Items : Change(i)
    \/ Tick
    \/ \E n \in 1 .. Len(threads) : Request(n) \/ RequestFails(n)
    \/ StartRun \/ Worker

Spec == Init /\ [][Next]_vars

(* The worker goes on; whatever a thread waits for may never come. *)
FairSpec == Spec /\ WF_vars(Worker)

-----------------------------------------------------------------------------
(* What a cursor promises: when the NVD's says that a window has been read, *)
(* every vulnerability last changed since the first window and before the   *)
(* end of this one has been delivered by a successful record as it now      *)
(* stands -- across pages, runs that go on in a window, failed attempts and *)
(* late threads -- unless one has slipped (NvdConnector.collect).           *)
NothingIsMissed ==
    \A s \in Sources : LET c == state.cursors[s] IN
        ConnectorOf[s] = "nvd" /\ c.to # 0 /\ c.next = 0 /\ ~ slipped =>
            \A i \in Endpoints[s][1] :
                changed[i] \in (since[s] .. c.to - 1) \ {0} =>
                    \E n \in 1 .. Len(log[s]) : log[s][n][i] = changed[i]

(* Every campaign that a cursor passes over has been delivered by a         *)
(* successful record, however many attempts failed or were late; and while  *)
(* the RuntimeState is kept, no campaign is delivered twice, whether it is  *)
(* shown for several vehicles or years or in several runs                   *)
(* (NhtsaRecallsConnector.collect).                                         *)
CampaignsOnce ==
    \A s \in Sources : ConnectorOf[s] = "nhtsa-recalls" =>
        /\ \A i \in state.cursors[s].seen :
              \E n \in 1 .. Len(log[s]) : i \in Got(log[s][n])
        /\ kept => \A n, m \in 1 .. Len(log[s]) :
              n # m => Got(log[s][n]) \cap Got(log[s][m]) = {}

(* A run comes to its end with a record for each source, whatever hangs:    *)
(* waiting is bounded by timeouts, attempts are bounded, and a thread that  *)
(* never ends holds nothing up (run_connector, run_with_timeout).           *)
EveryRunEnds == pc = "source" ~> pc = "idle"

(* Seen from outside, a source is collected in one step: retries, timeouts  *)
(* and the threads that they leave behind show in nothing but the record    *)
(* and, if it succeeds, in the cursor that continues the present one        *)
(* (run_connector, run_with_timeout; persist_source_run relies on it).      *)
Runs == INSTANCE SourceRuns
          WITH Collected <- {s \in Enabled : ConnectorOf[s] # NoConnector},
               Cursors <- Cursor,
               Passing <- {s \in Sources : ConnectorOf[s] = "nhtsa-recalls"},
               Dated <- {s \in Sources : ConnectorOf[s] = "rss"},
               Counting <- {s \in Sources : ConnectorOf[s] = "sample"},
               running <- pc # "idle",
               cursors <- state.cursors

RunsAreAtomic == Runs!Spec
=============================================================================
