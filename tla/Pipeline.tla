------------------------------ MODULE Pipeline ------------------------------
(****************************************************************************)
(* The processing pipeline as a whole: run_processing_pipeline in           *)
(* src/worker/sentineldrive_worker/pipeline.py, the Celery tasks that run   *)
(* it or one of its stages, the beat schedule and the trigger route that    *)
(* ask for it, and the queue in between.                                    *)
(*                                                                          *)
(* What the stages do to one row is the subject of Collection,              *)
(* Normalization and Scoring.  Here a stage is one step over a batch, and   *)
(* the question is what gets through: the queue may lose a task, a worker   *)
(* may die in one, a stage may raise, and every collection sends rows that  *)
(* were done back to the beginning.  The worker injects no alert evaluator, *)
(* so the fourth stage is skipped in every run of it.                       *)
(****************************************************************************)
EXTENDS Naturals, Sequences, FiniteSets

CONSTANTS
    Workers,       \* Celery children
    Items,         \* raw rows, and the core row that each becomes
    Rejected,      \* the items that no normalizer accepts
    Jobs,          \* triggers of the API: a task and a row of job_logs
    NoJob,         \* a task that beat or an operator has sent
    BeatLimit,     \* the tasks' default limits
    TriggerLimits, \* the limits a trigger may ask for
    OnceLimit,     \* the default limits of run_processing_pipeline
    MaxQueue, MaxManual, MaxFaults   \* bounds

Stages == {"collection", "normalization", "scoring"}

ASSUME PipelineAssumption ==
    /\ Rejected \subseteq Items /\ IsFiniteSet(Items)
    /\ NoJob \notin Jobs
    /\ {BeatLimit, OnceLimit, MaxQueue} \cup TriggerLimits \subseteq Nat \ {0}
    /\ {MaxManual, MaxFaults} \subseteq Nat

VARIABLES
    raw,       \* [Items -> [status, created]]: raw_intelligence
    core,      \* threat_intelligence: the items that have a row
    scored,    \* and those whose row has a score
    queue,     \* tasks in the broker
    running,   \* what each worker is doing
    result,    \* [Jobs -> what the result backend says of its task]
    logged,    \* the jobs that have a committed row in job_logs
    lost,      \* history: jobs whose task the broker or a crash has lost
    raised,    \* history: jobs in a run of which a stage has raised
    manual, faults

rows   == <<raw, core, scored>>
budget == <<manual, faults>>
vars   == <<raw, core, scored, queue, running, result, logged, lost, raised,
            manual, faults>>

(* A task is the list of the stages it runs; failed are those that raised.  *)
Task == [job : Jobs \cup {NoJob}, limit : Nat, left : Seq(Stages), failed : SUBSET Stages]

NoTask == [job |-> NoJob, limit |-> 0, left |-> << >>, failed |-> {}]

Results == {"unsent", "pending", "completed", "completed_with_errors"}

TypeOK ==
    /\ raw \in [Items -> [status : {"absent", "collected", "normalized", "failed"},
                          created : Nat]]
    /\ scored \subseteq core /\ core \subseteq Items
    /\ queue \in Seq(Task)
    /\ running \in [Workers -> Task]
    /\ result \in [Jobs -> Results]
    /\ logged \subseteq Jobs /\ lost \subseteq Jobs /\ raised \subseteq Jobs
    /\ manual \in Nat /\ faults \in Nat
    /\ \A i \in Items : raw[i].status = "absent" <=> raw[i].created = 0
    /\ \A i \in Items : raw[i].status = "normalized" => i \in core \ Rejected

(* Some items have been collected before. *)
Init ==
    /\ \E old \in SUBSET Items :
          raw = [i \in Items |-> IF i \in old THEN [status |-> "collected", created |-> 1]
                                 ELSE [status |-> "absent", created |-> 0]]
    /\ core = {} /\ scored = {}
    /\ queue = << >>
    /\ running = [w \in Workers |-> NoTask]
    /\ result = [j \in Jobs |-> "unsent"]
    /\ logged = {} /\ lost = {} /\ raised = {}
    /\ manual = 0 /\ faults = 0

-----------------------------------------------------------------------------
(* Who asks for it.                                                         *)

Pipeline == <<"collection", "normalization", "scoring">>

NewTask(job, limit, stages) == [job |-> job, limit |-> limit, left |-> stages, failed |-> {}]

Send(task) ==
    /\ Len(queue) < MaxQueue
    /\ queue' = Append(queue, task)

(* The beat scheduler, once per SOURCE_SYNC_INTERVAL_SECONDS. *)
Beat ==
    /\ Send(NewTask(NoJob, BeatLimit, Pipeline))
    /\ UNCHANGED <<rows, running, result, logged, lost, raised, budget>>

(* An operator calls one of the tasks for a single stage. *)
SendStage(stage) ==
    /\ manual < MaxManual
    /\ manual' = manual + 1
    /\ Send(NewTask(NoJob, BeatLimit, <<stage>>))
    /\ UNCHANGED <<rows, running, result, logged, lost, raised, faults>>

(* POST /sources/pipeline/trigger first sends the task. *)
Trigger(j) ==
    /\ result[j] = "unsent"
    /\ \E limit \in TriggerLimits : Send(NewTask(j, limit, Pipeline))
    /\ result' = [result EXCEPT ![j] = "pending"]
    /\ UNCHANGED <<rows, running, logged, lost, raised, budget>>

(* Mutant of LogTrigger: the job log is committed before the task is sent.  *)
LogTriggerFirst(j) ==
    /\ j \notin logged
    /\ logged' = logged \cup {j}
    /\ UNCHANGED <<rows, queue, running, result, lost, raised, budget>>

(* And then commits the job log, unless the commit fails: then the pipeline *)
(* runs, or has run, and no job says so.                                    *)
LogTrigger(j) ==
    /\ result[j] # "unsent" /\ j \notin logged
    /\ logged' = logged \cup {j}
    /\ UNCHANGED <<rows, queue, running, result, lost, raised, budget>>

(* The broker is a Redis that may evict its keys: it loses what is queued.  *)
Evict ==
    /\ queue # << >>
    /\ faults < MaxFaults
    /\ faults' = faults + 1
    /\ queue' = << >>
    /\ lost' = lost \cup ({queue[n].job : n \in 1 .. Len(queue)} \ {NoJob})
    /\ UNCHANGED <<rows, running, result, logged, raised, manual>>

-----------------------------------------------------------------------------
(* The workers.                                                             *)

Idle(w) == running[w] = NoTask

(* A task leaves the queue when a worker begins with it. *)
Take(w) ==
    /\ Idle(w) /\ queue # << >>
    /\ running' = [running EXCEPT ![w] = Head(queue)]
    /\ queue' = Tail(queue)
    /\ UNCHANGED <<rows, result, logged, lost, raised, budget>>

(* The process-once container runs a pipeline without the queue. *)
ProcessOnce(w) ==
    /\ Idle(w)
    /\ manual < MaxManual
    /\ manual' = manual + 1
    /\ running' = [running EXCEPT ![w] = NewTask(NoJob, OnceLimit, Pipeline)]
    /\ UNCHANGED <<rows, queue, result, logged, lost, raised, faults>>

At(w, stage) == running[w].left # << >> /\ Head(running[w].left) = stage

Passed(w) == running' = [running EXCEPT ![w].left = Tail(@)]

(* A time after the creation of every row there is. *)
Now == 1 + Cardinality({i \in Items : raw[i].created # 0})

(* Whatever the sources show is stored and waits to be normalized, again if *)
(* it is not new; which sources answer is left open.                        *)
Collect(w) ==
    /\ At(w, "collection")
    /\ \E items \in SUBSET Items :
          raw' = [i \in Items |->
                    IF i \notin items THEN raw[i]
                    ELSE [status |-> "collected",
                          created |-> IF raw[i].status = "absent" THEN Now
                                      ELSE raw[i].created]]
    /\ Passed(w)
    /\ UNCHANGED <<core, scored, queue, result, logged, lost, raised, budget>>

(* Mutant of Before: the oldest rows come first. *)
BeforeOldest(i, j) == raw[i].created < raw[j].created

(* pending_raw_query: the rows created last come first, however often they  *)
(* were collected.                                                          *)
Before(i, j) == raw[i].created > raw[j].created

(* The batches of at most limit elements of a set of candidates. *)
Batches(candidates, limit) ==
    {b \in SUBSET candidates :
        IF Cardinality(candidates) <= limit THEN b = candidates ELSE Cardinality(b) = limit}

(* Mutant of Outcome: a row that no normalizer accepts is done all the same. *)
OutcomeAlike(i) == "normalized"

(* What becomes of a row of the batch: a failed one waits for the next      *)
(* collection to bring it back.                                             *)
Outcome(i) == IF i \in Rejected THEN "failed" ELSE "normalized"

Normalize(w) ==
    /\ At(w, "normalization")
    /\ LET pending == {i \in Items : raw[i].status = "collected"} IN
       \E batch \in Batches(pending, running[w].limit) :
          /\ \A i \in batch, j \in pending \ batch : ~ Before(j, i)
          /\ raw' = [i \in Items |->
                       IF i \in batch THEN [raw[i] EXCEPT !.status = Outcome(i)] ELSE raw[i]]
          /\ core' = core \cup (batch \ Rejected)
    /\ Passed(w)
    /\ UNCHANGED <<scored, queue, result, logged, lost, raised, budget>>

(* score_pending: rows without a score come first; among them the order is  *)
(* by their last update and is left open.                                   *)
Score(w) ==
    /\ At(w, "scoring")
    /\ \E batch \in Batches(core \ scored, running[w].limit) : scored' = scored \cup batch
    /\ Passed(w)
    /\ UNCHANGED <<raw, core, queue, result, logged, lost, raised, budget>>

(* run_stage catches what a stage raises, and goes on with the next one. *)
AfterRaise(w) ==
    running' = [running EXCEPT ![w].left = Tail(@),
                               ![w].failed = @ \cup {Head(running[w].left)}]

Named(w) == {running[w].job} \ {NoJob}

(* A stage raises.  Collecting does in every run when the configuration of  *)
(* the sources is broken; the others only when the database is out of reach.*)
StageRaises(w) ==
    /\ running[w].left # << >>
    /\ \/ At(w, "collection") /\ UNCHANGED faults
       \/ ~ At(w, "collection") /\ faults < MaxFaults /\ faults' = faults + 1
    /\ AfterRaise(w)
    /\ raised' = raised \cup Named(w)
    /\ UNCHANGED <<rows, queue, result, logged, lost, manual>>

(* fatal_stage_errors: what the summary says of the run as a whole. *)
RunStatus(failed) == IF failed = {} THEN "completed" ELSE "completed_with_errors"

(* The summary is the result of the task. *)
Finish(w) ==
    /\ ~ Idle(w) /\ running[w].left = << >>
    /\ result' = [j \in Jobs |-> IF j \in Named(w) THEN RunStatus(running[w].failed)
                                 ELSE result[j]]
    /\ running' = [running EXCEPT ![w] = NoTask]
    /\ UNCHANGED <<rows, queue, logged, lost, raised, budget>>

(* A worker dies.  Its task was acknowledged when it began, and is lost.    *)
Crash(w) ==
    /\ ~ Idle(w)
    /\ faults < MaxFaults
    /\ faults' = faults + 1
    /\ running' = [running EXCEPT ![w] = NoTask]
    /\ lost' = lost \cup Named(w)
    /\ UNCHANGED <<rows, queue, result, logged, raised, manual>>

Work(w) == Take(w) \/ Collect(w) \/ Normalize(w) \/ Score(w) \/ StageRaises(w) \/ Finish(w)

Next ==
    \/ Beat \/ Evict
    \/ \E stage \in Stages : SendStage(stage)
    \/ \E j \in Jobs : Trigger(j) \/ LogTrigger(j)
    \/ \E w \in Workers : Work(w) \/ ProcessOnce(w) \/ Crash(w)

Spec == Init /\ [][Next]_vars

(* Beat keeps sending, and workers keep working. *)
FairSpec == Spec /\ WF_vars(Beat) /\ \A w \in Workers : WF_vars(Work(w))

-----------------------------------------------------------------------------
(* The items that were created with i or after it. *)
Younger(i) == {j \in Items : raw[j].created # 0 /\ raw[j].created >= raw[i].created}

IsRecent(i) == raw[i].status = "collected" /\ Cardinality(Younger(i)) <= BeatLimit

(* What is new does not starve behind what is collected over and over       *)
(* (pending_raw_query): a row among the BeatLimit youngest is normalized    *)
(* and scored in the end, or is no longer among them, whichever stages      *)
(* raise -- even if collecting always does --, whatever the queue loses and *)
(* however small the batches of single tasks are.  Older rows may starve.   *)
RecentIsScored ==
    \A i \in Items \ Rejected :
        IsRecent(i) ~> i \in scored \/ Cardinality(Younger(i)) > BeatLimit

(* The job log of a trigger never waits for a task that was not sent: the   *)
(* task is run and its summary says whether a stage raised, unless it was   *)
(* lost with the queue or with its worker (trigger_pipeline, run_stage).    *)
LoggedIsReported ==
    \A j \in Jobs : j \in logged ~>
        \/ j \in lost
        \/ result[j] = IF j \in raised THEN "completed_with_errors" ELSE "completed"
=============================================================================
