--------------------------- MODULE PipelineProofs ---------------------------
(****************************************************************************)
(* Proofs about the pipeline, for any workers, items, jobs and limits.      *)
(* That a triggered run ends is liveness and is left to the runs; what is   *)
(* proved is all that its result depends on: a job's task is in one place   *)
(* at a time, and nothing but its own run decides what is reported.         *)
(****************************************************************************)
EXTENDS MCPipeline, SequenceTheorems, FiniteSetTheorems, TLAPS

Slots == 1 .. Len(queue)

(* A job's task is in the queue or with a worker, and once.                 *)
JobIsOnce ==
    /\ \A n, m \in Slots : queue[n].job = queue[m].job /\ queue[n].job # NoJob => n = m
    /\ \A v, w \in Workers : running[v].job = running[w].job /\ running[v].job # NoJob => v = w
    /\ \A n \in Slots, w \in Workers : queue[n].job = running[w].job => queue[n].job = NoJob

(* What a task on its way remembers is what the history says of its job.    *)
UnderWay ==
    /\ \A n \in Slots :
          /\ queue[n].failed = {}
          /\ queue[n].job # NoJob => result[queue[n].job] = "pending" /\ queue[n].job \notin raised
    /\ \A w \in Workers : running[w].job # NoJob =>
          /\ result[running[w].job] = "pending"
          /\ running[w].job \in raised <=> running[w].failed # {}

(* Nothing is said of a job before its task is sent.                        *)
Untouched == \A j \in Jobs : result[j] = "unsent" => j \notin raised \cup logged \cup lost

(* A job that is waited for is lost, or its task is somewhere.              *)
NoneIsForgotten ==
    \A j \in Jobs : result[j] = "pending" =>
        \/ j \in lost
        \/ \E n \in Slots : queue[n].job = j
        \/ \E w \in Workers : running[w].job = j

(* The summary of a run says that a stage raised exactly when one did.      *)
ReportsAreTrue ==
    \A j \in Jobs : result[j] \in {"completed", "completed_with_errors"} =>
        result[j] = IF j \in raised THEN "completed_with_errors" ELSE "completed"

JobInv == JobIsOnce /\ UnderWay /\ Untouched /\ NoneIsForgotten /\ ReportsAreTrue

IInv == TypeOK /\ JobInv

-----------------------------------------------------------------------------
(* The rows.                                                                *)

LEMMA NowFacts == TypeOK => Now \in Nat \ {0}
<1>1. IsFiniteSet({i \in Items : raw[i].created # 0})
  BY PipelineAssumption, FS_Subset
<1>2. Cardinality({i \in Items : raw[i].created # 0}) \in Nat
  BY <1>1, FS_CardinalityType
<1>3. QED
  BY <1>2 DEF Now

RowsAreWell ==
    /\ raw \in [Items -> [status : {"absent", "collected", "normalized", "failed"},
                          created : Nat]]
    /\ scored \subseteq core /\ core \subseteq Items
    /\ \A i \in Items : raw[i].status = "absent" <=> raw[i].created = 0
    /\ \A i \in Items : raw[i].status = "normalized" => i \in core \ Rejected

LEMMA CollectRows ==
    ASSUME TypeOK, NEW w \in Workers, Collect(w) PROVE RowsAreWell'
<1>1. PICK items \in SUBSET Items :
         raw' = [i \in Items |->
                    IF i \notin items THEN raw[i]
                    ELSE [status |-> "collected",
                          created |-> IF raw[i].status = "absent" THEN Now ELSE raw[i].created]]
  BY DEF Collect
<1>2. core' = core /\ scored' = scored
  BY DEF Collect
<1>3. PICK now \in Nat \ {0} : now = Now
  BY NowFacts
<1>4. ASSUME NEW i \in Items
      PROVE  /\ raw'[i] \in [status : {"absent", "collected", "normalized", "failed"},
                             created : Nat]
             /\ raw'[i].status = "absent" <=> raw'[i].created = 0
             /\ raw'[i].status = "normalized" => i \in core \ Rejected
  BY <1>1, <1>3 DEF TypeOK
<1>5. raw' \in [Items -> [status : {"absent", "collected", "normalized", "failed"},
                          created : Nat]]
  BY <1>1, <1>4
<1>6. QED
  BY <1>2, <1>4, <1>5 DEF TypeOK, RowsAreWell

LEMMA NormalizeRows ==
    ASSUME TypeOK, NEW w \in Workers, Normalize(w) PROVE RowsAreWell'
<1> DEFINE pending == {i \in Items : raw[i].status = "collected"}
<1>1. PICK batch \in Batches(pending, running[w].limit) :
         /\ raw' = [i \in Items |->
                      IF i \in batch THEN [raw[i] EXCEPT !.status = Outcome(i)] ELSE raw[i]]
         /\ core' = core \cup (batch \ Rejected)
  BY DEF Normalize
<1>2. batch \subseteq pending /\ scored' = scored
  BY <1>1 DEF Batches, Normalize
<1> HIDE DEF pending
<1>3. ASSUME NEW i \in Items
      PROVE  /\ raw'[i] \in [status : {"absent", "collected", "normalized", "failed"},
                             created : Nat]
             /\ raw'[i].status = "absent" <=> raw'[i].created = 0
             /\ raw'[i].status = "normalized" => i \in core' \ Rejected
  <2>1. CASE i \in batch
    <3>1. raw[i].status = "collected"
      BY <1>2, <2>1 DEF pending
    <3>2. raw'[i] = [raw[i] EXCEPT !.status = Outcome(i)] /\ raw[i].created # 0
      BY <1>1, <2>1, <3>1 DEF TypeOK
    <3>3. QED
      BY <1>1, <2>1, <3>2 DEF TypeOK, Outcome
  <2>2. CASE i \notin batch
    BY <1>1, <2>2 DEF TypeOK
  <2>3. QED
    BY <2>1, <2>2
<1>4. raw' \in [Items -> [status : {"absent", "collected", "normalized", "failed"},
                          created : Nat]]
  BY <1>1, <1>3
<1>5. core' \subseteq Items /\ scored' \subseteq core'
  BY <1>1, <1>2 DEF TypeOK, pending
<1>6. QED
  BY <1>3, <1>4, <1>5 DEF RowsAreWell

LEMMA ScoreRows ==
    ASSUME TypeOK, NEW w \in Workers, Score(w) PROVE RowsAreWell'
<1>1. PICK batch \in Batches(core \ scored, running[w].limit) : scored' = scored \cup batch
  BY DEF Score
<1>2. batch \subseteq core /\ raw' = raw /\ core' = core
  BY <1>1 DEF Batches, Score
<1>3. QED
  BY <1>1, <1>2 DEF TypeOK, RowsAreWell

(* Every other step leaves the rows alone. *)
LEMMA RowsStep ==
    ASSUME TypeOK, [Next]_vars PROVE RowsAreWell'
<1>1. CASE UNCHANGED rows
  BY <1>1 DEF TypeOK, RowsAreWell, rows
<1>2. QED
  BY <1>1, CollectRows, NormalizeRows, ScoreRows
     DEF Next, Work, Beat, Evict, SendStage, Trigger, LogTrigger, Take, StageRaises, Finish,
         ProcessOnce, Crash, vars, rows

-----------------------------------------------------------------------------
(* The tasks.                                                               *)

TasksAreWell ==
    /\ queue \in Seq(Task)
    /\ running \in [Workers -> Task]
    /\ result \in [Jobs -> Results]
    /\ logged \subseteq Jobs /\ lost \subseteq Jobs /\ raised \subseteq Jobs
    /\ manual \in Nat /\ faults \in Nat

LEMMA NewTaskFacts ==
    ASSUME NEW job \in Jobs \cup {NoJob}, NEW limit \in Nat,
           NEW stages \in {Pipeline} \cup {<<stage>> : stage \in Stages}
    PROVE  /\ NewTask(job, limit, stages) \in Task
           /\ NewTask(job, limit, stages).job = job
           /\ NewTask(job, limit, stages).failed = {}
<1>1. stages \in Seq(Stages)
  <2>1. Pipeline \in Seq(Stages)
    BY DEF Pipeline, Stages
  <2>2. ASSUME NEW stage \in Stages PROVE <<stage>> \in Seq(Stages)
    OBVIOUS
  <2>3. QED
    BY <2>1, <2>2
<1>2. QED
  BY <1>1 DEF NewTask, Task

LEMMA NoTaskFacts == NoTask \in Task /\ NoTask.job = NoJob /\ NoTask.failed = {}
<1>1. << >> \in Seq(Stages)
  OBVIOUS
<1>2. QED
  BY <1>1 DEF NoTask, Task

LEMMA AppendFacts ==
    ASSUME queue \in Seq(Task), NEW t \in Task, queue' = Append(queue, t)
    PROVE  /\ queue' \in Seq(Task)
           /\ Slots' = Slots \cup {Len(queue) + 1}
           /\ Len(queue) + 1 \notin Slots
           /\ queue'[Len(queue) + 1] = t
           /\ \A n \in Slots : queue'[n] = queue[n] /\ queue[n] \in Task
<1>1. /\ queue' \in Seq(Task) /\ Len(queue') = Len(queue) + 1 /\ Len(queue) \in Nat
      /\ queue'[Len(queue) + 1] = t
      /\ \A n \in 1 .. Len(queue) : queue'[n] = queue[n]
  BY AppendProperties, LenProperties
<1>2. \A n \in 1 .. Len(queue) : queue[n] \in Task
  BY ElementOfSeq
<1>3. QED
  BY <1>1, <1>2 DEF Slots

LEMMA TailFacts ==
    ASSUME queue \in Seq(Task), queue # << >>, queue' = Tail(queue)
    PROVE  /\ queue' \in Seq(Task)
           /\ 1 \in Slots /\ Head(queue) = queue[1] /\ queue[1] \in Task
           /\ \A n \in Slots' : n + 1 \in Slots /\ n + 1 # 1 /\ n \in Nat /\ queue'[n] = queue[n + 1]
           /\ \A n \in Slots : n = 1 \/ (n \in Nat /\ n - 1 \in Slots' /\ queue'[n - 1] = queue[n])
<1>1. /\ queue' \in Seq(Task) /\ Len(queue') = Len(queue) - 1
      /\ \A n \in 1 .. Len(queue') : queue'[n] = queue[n + 1]
      /\ Head(queue) \in Task
  BY HeadTailProperties
<1>2. Len(queue) \in Nat /\ Len(queue) >= 1 /\ Head(queue) = queue[1]
  BY EmptySeq, LenProperties
<1>3. QED
  BY <1>1, <1>2 DEF Slots

(* The task in a slot. *)
LEMMA SlotFacts == queue \in Seq(Task) => \A n \in Slots : queue[n] \in Task
BY ElementOfSeq DEF Slots

(* Putting a task in the place of a worker's. *)
LEMMA RunningFacts ==
    ASSUME running \in [Workers -> Task], NEW w \in Workers, NEW t \in Task,
           running' = [running EXCEPT ![w] = t]
    PROVE  /\ running' \in [Workers -> Task]
           /\ running'[w] = t
           /\ \A v \in Workers \ {w} : running'[v] = running[v]
OBVIOUS

-----------------------------------------------------------------------------
(* The jobs, step by step.                                                  *)

(* A task that answers to no job is sent. *)
LEMMA SendJobs ==
    ASSUME IInv, NEW t \in Task, t.job = NoJob, t.failed = {},
           queue' = Append(queue, t), UNCHANGED <<running, result, logged, lost, raised>>
    PROVE  JobInv'
<1>0. JobIsOnce /\ UnderWay /\ NoneIsForgotten /\ Untouched /\ ReportsAreTrue
  BY DEF IInv, JobInv
<1>1. /\ Slots' = Slots \cup {Len(queue) + 1} /\ Len(queue) + 1 \notin Slots
      /\ queue'[Len(queue) + 1] = t
      /\ \A n \in Slots : queue'[n] = queue[n] /\ queue[n] \in Task
  BY AppendFacts DEF IInv, TypeOK
<1> DEFINE last == Len(queue) + 1
<1> HIDE DEF last
<1>2. /\ queue'[last] = t /\ last \in Slots'
      /\ \A n \in Slots' : n = last \/ (n \in Slots /\ queue'[n] = queue[n])
      /\ \A n \in Slots : n \in Slots' /\ queue'[n] = queue[n]
  BY <1>1 DEF last
<1>3. JobIsOnce'
  <2>1. ASSUME NEW n \in Slots', queue'[n].job # NoJob
        PROVE  n \in Slots /\ queue'[n] = queue[n]
    BY <1>2, <2>1
  <2>2. ASSUME NEW n \in Slots', NEW m \in Slots',
               queue'[n].job = queue'[m].job, queue'[n].job # NoJob
        PROVE  n = m
    <3>1. /\ n \in Slots /\ queue'[n] = queue[n]
          /\ m \in Slots /\ queue'[m] = queue[m]
      BY <2>1, <2>2
    <3>2. QED
      BY <1>0, <2>2, <3>1 DEF JobIsOnce
  <2>3. \A v, w \in Workers : running'[v].job = running'[w].job /\ running'[v].job # NoJob => v = w
    BY <1>0 DEF JobIsOnce
  <2>4. ASSUME NEW n \in Slots', NEW w \in Workers,
               queue'[n].job = running'[w].job, queue'[n].job # NoJob
        PROVE  FALSE
    <3>1. n \in Slots /\ queue'[n] = queue[n]
      BY <2>1, <2>4
    <3>2. queue[n].job = running[w].job => queue[n].job = NoJob
      BY <1>0, <3>1 DEF JobIsOnce
    <3>3. QED
      BY <2>4, <3>1, <3>2
  <2>5. QED
    BY <2>2, <2>3, <2>4 DEF JobIsOnce
<1>4. UnderWay'
  <2>1. ASSUME NEW n \in Slots'
        PROVE  /\ queue'[n].failed = {}
               /\ queue'[n].job # NoJob =>
                     result'[queue'[n].job] = "pending" /\ queue'[n].job \notin raised'
    <3>1. CASE n = last
      BY <1>2, <3>1
    <3>2. CASE n \in Slots /\ queue'[n] = queue[n]
      BY <1>0, <3>2 DEF UnderWay
    <3>3. QED
      BY <1>2, <3>1, <3>2
  <2>2. QED
    BY <1>0, <2>1 DEF UnderWay
<1>5. NoneIsForgotten'
  <2>1. ASSUME NEW j \in Jobs, result[j] = "pending", j \notin lost
        PROVE  \/ \E n \in Slots' : queue'[n].job = j
               \/ \E w \in Workers : running[w].job = j
    <3>1. \/ \E n \in Slots : queue[n].job = j
          \/ \E w \in Workers : running[w].job = j
      BY <1>0, <2>1 DEF NoneIsForgotten
    <3>2. QED
      BY <1>2, <3>1
  <2>2. QED
    BY <2>1 DEF NoneIsForgotten
<1>6. Untouched' /\ ReportsAreTrue'
  BY <1>0 DEF Untouched, ReportsAreTrue
<1>7. QED
  BY <1>3, <1>4, <1>5, <1>6 DEF JobInv

(* The task of a job is sent, for the first time. *)
LEMMA TriggerJobs ==
    ASSUME IInv, NEW j \in Jobs, NEW t \in Task, t.job = j, t.failed = {},
           result[j] = "unsent", result' = [result EXCEPT ![j] = "pending"],
           queue' = Append(queue, t), UNCHANGED <<running, logged, lost, raised>>
    PROVE  JobInv'
<1>0. JobIsOnce /\ UnderWay /\ NoneIsForgotten /\ Untouched /\ ReportsAreTrue
  BY DEF IInv, JobInv
<1> DEFINE last == Len(queue) + 1
<1>1. /\ Slots' = Slots \cup {last} /\ queue'[last] = t
      /\ \A n \in Slots : queue'[n] = queue[n] /\ queue[n] \in Task
  BY AppendFacts DEF IInv, TypeOK
<1> HIDE DEF last
<1>a. /\ last \in Slots'
      /\ \A n \in Slots' : n = last \/ (n \in Slots /\ queue'[n] = queue[n])
      /\ \A n \in Slots : n \in Slots' /\ queue'[n] = queue[n]
  BY <1>1
<1>2. result'[j] = "pending" /\ \A i \in Jobs \ {j} : result'[i] = result[i]
  BY DEF IInv, TypeOK
<1>3. j # NoJob
  BY PipelineAssumption
<1>4. \A n \in Slots : queue[n].job # j
  BY <1>0, <1>3 DEF UnderWay
<1>5. \A w \in Workers : running[w].job # j
  BY <1>0, <1>3 DEF UnderWay
<1>6. JobIsOnce'
  <2>1. ASSUME NEW n \in Slots', NEW m \in Slots',
               queue'[n].job = queue'[m].job, queue'[n].job # NoJob
        PROVE  n = m
    <3>1. CASE n \in Slots /\ m \in Slots
      <4>1. queue'[n] = queue[n] /\ queue'[m] = queue[m]
        BY <1>a, <3>1
      <4>2. queue[n].job = queue[m].job /\ queue[n].job # NoJob => n = m
        BY <1>0, <3>1 DEF JobIsOnce
      <4>3. QED
        BY <2>1, <4>1, <4>2
    <3>2. CASE n = last
      <4>1. queue'[m].job = j
        BY <1>1, <2>1, <3>2
      <4>2. m \notin Slots
        BY <1>1, <1>4, <4>1
      <4>3. QED
        BY <1>a, <3>2, <4>2
    <3>3. CASE m = last
      <4>1. queue'[n].job = j
        BY <1>1, <2>1, <3>3
      <4>2. n \notin Slots
        BY <1>1, <1>4, <4>1
      <4>3. QED
        BY <1>a, <3>3, <4>2
    <3>4. QED
      BY <1>a, <3>1, <3>2, <3>3
  <2>2. \A v, w \in Workers : running'[v].job = running'[w].job /\ running'[v].job # NoJob => v = w
    BY <1>0, <1>1, <1>3, <1>4, <1>5 DEF JobIsOnce
  <2>3. ASSUME NEW n \in Slots', NEW w \in Workers, queue'[n].job = running'[w].job
        PROVE  queue'[n].job = NoJob
    <3>1. n \in Slots
      BY <1>1, <1>5, <2>3
    <3>2. QED
      BY <1>0, <1>1, <2>3, <3>1 DEF JobIsOnce
  <2>4. QED
    BY <2>1, <2>2, <2>3 DEF JobIsOnce
<1>7. \A n \in Slots : queue[n].job \in Jobs \cup {NoJob}
  BY <1>1 DEF Task
<1>8. \A w \in Workers : running[w].job \in Jobs \cup {NoJob}
  BY DEF IInv, TypeOK, Task
<1>9. UnderWay'
  <2>1. j \notin raised
    BY <1>0 DEF Untouched
  <2>2. ASSUME NEW n \in Slots'
        PROVE  /\ queue'[n].failed = {}
               /\ queue'[n].job # NoJob =>
                     result'[queue'[n].job] = "pending" /\ queue'[n].job \notin raised
    <3>1. CASE n \in Slots
      <4>1. queue[n].job # j /\ queue[n].job \in Jobs \cup {NoJob} /\ queue'[n] = queue[n]
        BY <1>1, <1>4, <1>7, <3>1
      <4>2. /\ queue[n].failed = {}
            /\ queue[n].job # NoJob =>
                  result[queue[n].job] = "pending" /\ queue[n].job \notin raised
        BY <1>0, <3>1 DEF UnderWay
      <4>3. QED
        BY <1>2, <4>1, <4>2
    <3>2. CASE n = last
      BY <1>1, <1>2, <2>1, <3>2
    <3>3. QED
      BY <1>1, <3>1, <3>2
  <2>3. ASSUME NEW w \in Workers, running[w].job # NoJob
        PROVE  /\ result'[running[w].job] = "pending"
               /\ running[w].job \in raised <=> running[w].failed # {}
    BY <1>0, <1>2, <1>5, <1>8, <2>3 DEF UnderWay
  <2>4. QED
    BY <2>2, <2>3 DEF UnderWay
<1>10. NoneIsForgotten'
  <2> SUFFICES ASSUME NEW i \in Jobs, result'[i] = "pending", i \notin lost
               PROVE  \/ \E n \in Slots' : queue'[n].job = i
                      \/ \E w \in Workers : running[w].job = i
    BY DEF NoneIsForgotten
  <2>1. CASE i = j
    BY <1>1, <2>1
  <2>2. CASE i # j
    <3>1. result[i] = "pending"
      BY <1>2, <2>2
    <3>2. \/ \E n \in Slots : queue[n].job = i
          \/ \E w \in Workers : running[w].job = i
      BY <1>0, <3>1 DEF NoneIsForgotten
    <3>3. QED
      BY <1>a, <3>2
  <2>3. QED
    BY <2>1, <2>2
<1>11. Untouched'
  BY <1>0, <1>2 DEF Untouched
<1>12. ReportsAreTrue'
  BY <1>0, <1>2 DEF ReportsAreTrue
<1>13. QED
  BY <1>6, <1>9, <1>10, <1>11, <1>12 DEF JobInv

LEMMA LogJobs ==
    ASSUME IInv, NEW j \in Jobs, LogTrigger(j)
    PROVE  JobInv'
<1>1. UNCHANGED <<queue, running, result, lost, raised>> /\ logged' = logged \cup {j}
  BY DEF LogTrigger
<1>2. Untouched'
  BY <1>1 DEF IInv, JobInv, Untouched, LogTrigger
<1>3. Slots' = Slots
  BY <1>1 DEF Slots
<1>4. QED
  BY <1>1, <1>2, <1>3
     DEF IInv, JobInv, JobIsOnce, UnderWay, NoneIsForgotten, ReportsAreTrue

LEMMA EvictJobs ==
    ASSUME IInv, Evict
    PROVE  JobInv'
<1>1. /\ queue' = << >> /\ UNCHANGED <<running, result, logged, raised>>
      /\ lost' = lost \cup ({queue[n].job : n \in Slots} \ {NoJob})
  BY DEF Evict, Slots
<1>2. Slots' = {}
  BY <1>1 DEF Slots
<1>3. JobIsOnce' /\ UnderWay'
  BY <1>1, <1>2 DEF IInv, JobInv, JobIsOnce, UnderWay
<1>4. Untouched'
  BY <1>1 DEF IInv, JobInv, Untouched, UnderWay
<1>5. NoneIsForgotten'
  BY <1>1, PipelineAssumption DEF IInv, JobInv, NoneIsForgotten
<1>6. ReportsAreTrue'
  BY <1>1 DEF IInv, JobInv, ReportsAreTrue
<1>7. QED
  BY <1>3, <1>4, <1>5, <1>6 DEF JobInv

LEMMA TakeJobs ==
    ASSUME IInv, NEW w \in Workers, Take(w)
    PROVE  JobInv'
<1>1. /\ running[w] = NoTask /\ queue # << >> /\ queue' = Tail(queue)
      /\ running' = [running EXCEPT ![w] = Head(queue)]
      /\ UNCHANGED <<result, logged, lost, raised>>
  BY DEF Take, Idle
<1>2. /\ 1 \in Slots /\ Head(queue) = queue[1] /\ queue[1] \in Task
      /\ \A n \in Slots' : n + 1 \in Slots /\ n + 1 # 1 /\ n \in Nat /\ queue'[n] = queue[n + 1]
      /\ \A n \in Slots : n = 1 \/ (n \in Nat /\ n - 1 \in Slots' /\ queue'[n - 1] = queue[n])
  BY <1>1, TailFacts DEF IInv, TypeOK
<1>3. running'[w] = queue[1] /\ \A v \in Workers \ {w} : running'[v] = running[v]
  BY <1>1, <1>2, RunningFacts DEF IInv, TypeOK
<1>4. JobIsOnce'
  <2>1. \A n, m \in Slots' : queue'[n].job = queue'[m].job /\ queue'[n].job # NoJob => n = m
    <3> SUFFICES ASSUME NEW n \in Slots', NEW m \in Slots',
                        queue'[n].job = queue'[m].job, queue'[n].job # NoJob
                 PROVE  n = m
      OBVIOUS
    <3>1. n + 1 = m + 1
      BY <1>2 DEF IInv, JobInv, JobIsOnce
    <3>2. QED
      BY <1>2, <3>1
  <2>2. \A v, u \in Workers : running'[v].job = running'[u].job /\ running'[v].job # NoJob => v = u
    BY <1>2, <1>3 DEF IInv, JobInv, JobIsOnce
  <2>3. \A n \in Slots', v \in Workers : queue'[n].job = running'[v].job => queue'[n].job = NoJob
    BY <1>2, <1>3 DEF IInv, JobInv, JobIsOnce
  <2>4. QED
    BY <2>1, <2>2, <2>3 DEF JobIsOnce
<1>5. UnderWay'
  <2>1. ASSUME NEW n \in Slots'
        PROVE  /\ queue'[n].failed = {}
               /\ queue'[n].job # NoJob =>
                     result[queue'[n].job] = "pending" /\ queue'[n].job \notin raised
    BY <1>2, <2>1 DEF IInv, JobInv, UnderWay
  <2>2. ASSUME NEW v \in Workers, running'[v].job # NoJob
        PROVE  /\ result[running'[v].job] = "pending"
               /\ running'[v].job \in raised <=> running'[v].failed # {}
    <3>1. CASE v = w
      BY <1>2, <1>3, <2>2, <3>1 DEF IInv, JobInv, UnderWay
    <3>2. CASE v # w
      BY <1>3, <2>2, <3>2 DEF IInv, JobInv, UnderWay
    <3>3. QED
      BY <3>1, <3>2
  <2>3. QED
    BY <1>1, <2>1, <2>2 DEF UnderWay
<1>6. NoneIsForgotten'
  <2> SUFFICES ASSUME NEW j \in Jobs, result[j] = "pending", j \notin lost
               PROVE  \/ \E n \in Slots' : queue'[n].job = j
                      \/ \E v \in Workers : running'[v].job = j
    BY <1>1 DEF NoneIsForgotten
  <2>1. ASSUME NEW n \in Slots, queue[n].job = j
        PROVE  \/ \E m \in Slots' : queue'[m].job = j
               \/ \E v \in Workers : running'[v].job = j
    BY <1>2, <1>3, <2>1
  <2>2. ASSUME NEW v \in Workers, running[v].job = j
        PROVE  running'[v].job = j
    <3>1. v # w
      BY <1>1, <2>2, NoTaskFacts, PipelineAssumption
    <3>2. QED
      BY <1>3, <2>2, <3>1
  <2>3. QED
    BY <2>1, <2>2 DEF IInv, JobInv, NoneIsForgotten
<1>7. Untouched' /\ ReportsAreTrue'
  BY <1>1 DEF IInv, JobInv, Untouched, ReportsAreTrue
<1>8. QED
  BY <1>4, <1>5, <1>6, <1>7 DEF JobInv

(* A worker goes on with its task, or begins with one that answers to no    *)
(* job; only the stages that raised may be more.                            *)
LEMMA GoOnJobs ==
    ASSUME IInv, NEW w \in Workers, NEW t \in Task,
           running' = [running EXCEPT ![w] = t], t.job = running[w].job,
           \/ raised' = raised \cup {t.job} /\ t.failed # {} /\ t.job # NoJob
           \/ raised' = raised /\ (t.job # NoJob => t.failed = running[w].failed),
           UNCHANGED <<queue, result, logged, lost>>
    PROVE  JobInv'
<1>1. running'[w] = t /\ \A v \in Workers \ {w} : running'[v] = running[v]
  BY RunningFacts DEF IInv, TypeOK
<1>2. \A v \in Workers : running'[v].job = running[v].job
  BY <1>1
<1>3. Slots' = Slots
  BY DEF Slots
<1>4. JobIsOnce' /\ NoneIsForgotten'
  BY <1>2, <1>3 DEF IInv, JobInv, JobIsOnce, NoneIsForgotten
<1>5. CASE raised' = raised
  <2>1. UnderWay'
    BY <1>1, <1>3, <1>5 DEF IInv, JobInv, UnderWay
  <2>2. QED
    BY <1>4, <1>5, <2>1 DEF IInv, JobInv, Untouched, ReportsAreTrue
<1>6. CASE raised' = raised \cup {t.job} /\ t.failed # {} /\ t.job # NoJob
  <2>1. result[t.job] = "pending" /\ raised' = raised \cup {t.job}
    BY <1>6 DEF IInv, JobInv, UnderWay
  <2>2. /\ \A v \in Workers \ {w} : running[v].job # t.job
        /\ \A n \in Slots : queue[n].job # t.job
    BY <1>6 DEF IInv, JobInv, JobIsOnce
  <2>3. UnderWay'
    BY <1>1, <1>3, <1>6, <2>1, <2>2 DEF IInv, JobInv, UnderWay
  <2>4. Untouched' /\ ReportsAreTrue'
    BY <2>1 DEF IInv, JobInv, Untouched, ReportsAreTrue
  <2>5. QED
    BY <1>4, <2>3, <2>4 DEF JobInv
<1>7. QED
  BY <1>5, <1>6

(* A worker puts its task down: the job has its report, or it is lost.      *)
LEMMA PutDownJobs ==
    ASSUME IInv, NEW w \in Workers, running' = [running EXCEPT ![w] = NoTask],
           UNCHANGED <<queue, logged, raised>>,
           \/ /\ result' = result /\ lost' = lost \cup Named(w)
           \/ /\ lost' = lost
              /\ result' = [j \in Jobs |-> IF j \in Named(w) THEN RunStatus(running[w].failed)
                                           ELSE result[j]]
    PROVE  JobInv'
<1>1. running'[w] = NoTask /\ \A v \in Workers \ {w} : running'[v] = running[v]
  BY NoTaskFacts, RunningFacts DEF IInv, TypeOK
<1>2. Slots' = Slots
  BY DEF Slots
<1>3. running'[w].job = NoJob
  BY <1>1, NoTaskFacts
<1>4. \A v \in Workers : running[v].job \in Jobs \cup {NoJob}
  BY DEF IInv, TypeOK, Task
<1>5. \A n \in Slots : queue[n].job \in Jobs \cup {NoJob}
  BY SlotFacts DEF IInv, TypeOK, Task
<1>6. JobIsOnce'
  BY <1>1, <1>2, <1>3 DEF IInv, JobInv, JobIsOnce
<1>7. CASE result' = result /\ lost' = lost \cup Named(w)
  <2>1. UnderWay'
    BY <1>1, <1>2, <1>3, <1>7 DEF IInv, JobInv, UnderWay
  <2>2. NoneIsForgotten'
    BY <1>1, <1>2, <1>7, PipelineAssumption DEF IInv, JobInv, NoneIsForgotten, Named
  <2>3. Untouched'
    BY <1>4, <1>7 DEF IInv, JobInv, Untouched, UnderWay, Named
  <2>4. ReportsAreTrue'
    BY <1>7 DEF IInv, JobInv, ReportsAreTrue
  <2>5. QED
    BY <1>6, <2>1, <2>2, <2>3, <2>4 DEF JobInv
<1>8. CASE /\ lost' = lost
           /\ result' = [j \in Jobs |-> IF j \in Named(w) THEN RunStatus(running[w].failed)
                                        ELSE result[j]]
  <2>1. \A j \in Jobs : j # running[w].job => result'[j] = result[j]
    BY <1>8 DEF Named
  <2>2. running[w].job # NoJob =>
           /\ running[w].job \in Jobs
           /\ result'[running[w].job] = IF running[w].job \in raised
                                        THEN "completed_with_errors" ELSE "completed"
    BY <1>4, <1>8 DEF Named, RunStatus, IInv, JobInv, UnderWay
  <2>3. /\ \A v \in Workers \ {w} : running[v].job # NoJob => running[v].job # running[w].job
        /\ \A n \in Slots : queue[n].job # NoJob => queue[n].job # running[w].job
    BY DEF IInv, JobInv, JobIsOnce
  <2>4. UnderWay'
    BY <1>1, <1>2, <1>3, <1>4, <1>5, <2>1, <2>3 DEF IInv, JobInv, UnderWay
  <2>5. ASSUME NEW j \in Jobs, result'[j] \in {"pending", "unsent"}
        PROVE  result'[j] = result[j] /\ j # running[w].job
    BY <2>1, <2>2, <2>5, PipelineAssumption
  <2>6. NoneIsForgotten'
    BY <1>1, <1>2, <1>8, <2>5 DEF IInv, JobInv, NoneIsForgotten
  <2>7. Untouched'
    BY <1>8, <2>5 DEF IInv, JobInv, Untouched
  <2>8. ReportsAreTrue'
    <3> SUFFICES ASSUME NEW j \in Jobs, result'[j] \in {"completed", "completed_with_errors"}
                 PROVE  result'[j] = IF j \in raised THEN "completed_with_errors" ELSE "completed"
      BY DEF ReportsAreTrue
    <3>1. CASE j = running[w].job
      BY <2>2, <3>1, PipelineAssumption
    <3>2. CASE j # running[w].job
      BY <2>1, <3>2 DEF IInv, JobInv, ReportsAreTrue
    <3>3. QED
      BY <3>1, <3>2
  <2>9. QED
    BY <1>6, <2>4, <2>6, <2>7, <2>8 DEF JobInv
<1>9. QED
  BY <1>7, <1>8

-----------------------------------------------------------------------------
(* The tasks, step by step.                                                 *)

(* A stage is over, and the worker passes to the next. *)
LEMMA PassedStep ==
    ASSUME IInv, NEW w \in Workers, running[w].left # << >>, Passed(w),
           UNCHANGED <<queue, result, logged, lost, raised, manual, faults>>
    PROVE  TasksAreWell' /\ JobInv'
<1>1. running[w] \in Task
  BY DEF IInv, TypeOK
<1>2. Tail(running[w].left) \in Seq(Stages)
  BY <1>1, HeadTailProperties DEF Task
<1>3. PICK t : t = [running[w] EXCEPT !.left = Tail(@)]
  OBVIOUS
<1>4. /\ running' = [running EXCEPT ![w] = t]
      /\ t \in Task /\ t.job = running[w].job /\ t.failed = running[w].failed
  BY <1>1, <1>2, <1>3 DEF Task, Passed
<1>5. JobInv'
  BY <1>4, GoOnJobs
<1>6. TasksAreWell'
  BY <1>4, RunningFacts DEF IInv, TypeOK, TasksAreWell
<1>7. QED
  BY <1>5, <1>6

LEMMA StageRaisesStep ==
    ASSUME IInv, NEW w \in Workers, StageRaises(w)
    PROVE  TasksAreWell' /\ JobInv'
<1>1. /\ running[w].left # << >> /\ AfterRaise(w)
      /\ raised' = raised \cup Named(w)
      /\ UNCHANGED <<queue, result, logged, lost, manual>>
      /\ faults' = faults \/ faults' = faults + 1
  BY DEF StageRaises, rows
<1>2. running[w] \in Task
  BY DEF IInv, TypeOK
<1> DEFINE stage == Head(running[w].left)
<1>3. stage \in Stages
  BY <1>1, <1>2, HeadTailProperties DEF Task
<1> HIDE DEF stage
<1> DEFINE failed == running[w].failed \cup {stage}
<1>4. PICK t : t = [running[w] EXCEPT !.left = Tail(@), !.failed = failed]
  OBVIOUS
<1>5. t \in Task /\ t.job = running[w].job /\ t.failed = failed /\ t.failed # {}
  <2>1. failed \in SUBSET Stages /\ failed # {}
    BY <1>2, <1>3 DEF Task
  <2>2. Tail(running[w].left) \in Seq(Stages)
    BY <1>1, <1>2, HeadTailProperties DEF Task
  <2> HIDE DEF failed
  <2>3. QED
    BY <1>2, <1>4, <2>1, <2>2 DEF Task
<1>6. running' = [running EXCEPT ![w] = t]
  <2>1. [running[w] EXCEPT !.left = Tail(@), !.failed = @ \cup {stage}] = t
    BY <1>2, <1>4 DEF Task
  <2>2. QED
    BY <1>1, <2>1 DEF AfterRaise, stage
<1>7. t.job \in Jobs \cup {NoJob}
  BY <1>5 DEF Task
<1>8. JobInv'
  <2>1. CASE t.job = NoJob
    <3>1. raised' = raised
      BY <1>1, <1>5, <2>1 DEF Named
    <3>2. QED
      BY <1>1, <1>5, <1>6, <2>1, <3>1, GoOnJobs
  <2>2. CASE t.job # NoJob
    <3>1. raised' = raised \cup {t.job} /\ t.failed # {}
      BY <2>2, <1>1, <1>5 DEF Named
    <3>2. QED
      BY <1>1, <1>5, <1>6, <2>2, <3>1, GoOnJobs
  <2>3. QED
    BY <2>1, <2>2
<1>9. TasksAreWell'
  <2>1. raised' \subseteq Jobs
    BY <1>1, <1>5, <1>7 DEF Named, IInv, TypeOK
  <2>2. running' \in [Workers -> Task]
    BY <1>5, <1>6, RunningFacts DEF IInv, TypeOK
  <2>3. faults' \in Nat
    BY <1>1 DEF IInv, TypeOK
  <2>4. QED
    BY <1>1, <2>1, <2>2, <2>3 DEF IInv, TypeOK, TasksAreWell
<1>10. QED
  BY <1>8, <1>9

LEMMA FinishStep ==
    ASSUME IInv, NEW w \in Workers, Finish(w)
    PROVE  TasksAreWell' /\ JobInv'
<1>1. /\ running' = [running EXCEPT ![w] = NoTask]
      /\ result' = [j \in Jobs |-> IF j \in Named(w) THEN RunStatus(running[w].failed)
                                   ELSE result[j]]
      /\ UNCHANGED <<queue, logged, lost, raised, manual, faults>>
  BY DEF Finish, budget
<1>2. JobInv'
  BY <1>1, PutDownJobs
<1>3. result' \in [Jobs -> Results]
  BY <1>1 DEF RunStatus, Results, IInv, TypeOK
<1>4. TasksAreWell'
  BY <1>1, <1>3, NoTaskFacts, RunningFacts DEF IInv, TypeOK, TasksAreWell
<1>5. QED
  BY <1>2, <1>4

LEMMA CrashStep ==
    ASSUME IInv, NEW w \in Workers, Crash(w)
    PROVE  TasksAreWell' /\ JobInv'
<1>1. /\ running' = [running EXCEPT ![w] = NoTask] /\ lost' = lost \cup Named(w)
      /\ UNCHANGED <<queue, result, logged, raised, manual>> /\ faults' = faults + 1
  BY DEF Crash
<1>2. JobInv'
  BY <1>1, PutDownJobs
<1>3. lost' \subseteq Jobs /\ faults' \in Nat
  BY <1>1 DEF Named, IInv, TypeOK, Task
<1>4. TasksAreWell'
  BY <1>1, <1>3, NoTaskFacts, RunningFacts DEF IInv, TypeOK, TasksAreWell
<1>5. QED
  BY <1>2, <1>4

LEMMA TakeStep ==
    ASSUME IInv, NEW w \in Workers, Take(w)
    PROVE  TasksAreWell' /\ JobInv'
<1>1. /\ queue # << >> /\ queue' = Tail(queue)
      /\ running' = [running EXCEPT ![w] = Head(queue)]
      /\ UNCHANGED <<result, logged, lost, raised, manual, faults>>
  BY DEF Take, budget
<1>2. queue' \in Seq(Task) /\ Head(queue) \in Task
  BY <1>1, TailFacts DEF IInv, TypeOK
<1>3. TasksAreWell'
  BY <1>1, <1>2, RunningFacts DEF IInv, TypeOK, TasksAreWell
<1>4. QED
  BY <1>3, TakeJobs

LEMMA ProcessOnceStep ==
    ASSUME IInv, NEW w \in Workers, ProcessOnce(w)
    PROVE  TasksAreWell' /\ JobInv'
<1>1. PICK t : t = NewTask(NoJob, OnceLimit, Pipeline)
  OBVIOUS
<1>2. t \in Task /\ t.job = NoJob
  BY <1>1, NewTaskFacts, PipelineAssumption
<1>3. /\ running[w] = NoTask /\ running' = [running EXCEPT ![w] = t]
      /\ UNCHANGED <<queue, result, logged, lost, raised, faults>> /\ manual' = manual + 1
  BY <1>1 DEF ProcessOnce, Idle
<1>4. JobInv'
  BY <1>2, <1>3, NoTaskFacts, GoOnJobs
<1>5. TasksAreWell'
  BY <1>2, <1>3, RunningFacts DEF IInv, TypeOK, TasksAreWell
<1>6. QED
  BY <1>4, <1>5

LEMMA SendStep ==
    ASSUME IInv, Beat \/ \E stage \in Stages : SendStage(stage)
    PROVE  TasksAreWell' /\ JobInv'
<1>1. PICK stages \in {Pipeline} \cup {<<stage>> : stage \in Stages} :
         /\ queue' = Append(queue, NewTask(NoJob, BeatLimit, stages))
         /\ UNCHANGED <<running, result, logged, lost, raised, faults>>
         /\ manual' = manual \/ manual' = manual + 1
  BY DEF Beat, SendStage, Send, budget
<1>2. PICK t : t = NewTask(NoJob, BeatLimit, stages)
  OBVIOUS
<1>3. t \in Task /\ t.job = NoJob /\ t.failed = {}
  BY <1>2, NewTaskFacts, PipelineAssumption
<1>4. JobInv'
  BY <1>1, <1>2, <1>3, SendJobs
<1>5. manual' \in Nat
  BY <1>1 DEF IInv, TypeOK
<1>6. TasksAreWell'
  BY <1>1, <1>2, <1>3, <1>5, AppendFacts DEF IInv, TypeOK, TasksAreWell
<1>7. QED
  BY <1>4, <1>6

LEMMA TriggerStep ==
    ASSUME IInv, NEW j \in Jobs, Trigger(j)
    PROVE  TasksAreWell' /\ JobInv'
<1>1. PICK limit \in TriggerLimits : queue' = Append(queue, NewTask(j, limit, Pipeline))
  BY DEF Trigger, Send
<1>2. /\ result[j] = "unsent" /\ result' = [result EXCEPT ![j] = "pending"]
      /\ UNCHANGED <<running, logged, lost, raised, manual, faults>>
  BY DEF Trigger, budget
<1>3. PICK t : t = NewTask(j, limit, Pipeline)
  OBVIOUS
<1>4. t \in Task /\ t.job = j /\ t.failed = {}
  BY <1>3, NewTaskFacts, PipelineAssumption
<1>5. JobInv'
  BY <1>1, <1>2, <1>3, <1>4, TriggerJobs
<1>6. TasksAreWell'
  BY <1>1, <1>2, <1>3, <1>4, AppendFacts DEF IInv, TypeOK, TasksAreWell, Results
<1>7. QED
  BY <1>5, <1>6

LEMMA LogStep ==
    ASSUME IInv, NEW j \in Jobs, LogTrigger(j)
    PROVE  TasksAreWell' /\ JobInv'
<1>1. TasksAreWell'
  BY DEF LogTrigger, budget, IInv, TypeOK, TasksAreWell
<1>2. QED
  BY <1>1, LogJobs

LEMMA EvictStep ==
    ASSUME IInv, Evict
    PROVE  TasksAreWell' /\ JobInv'
<1>1. lost' \subseteq Jobs
  BY SlotFacts DEF Evict, IInv, TypeOK, Task, Slots
<1>2. << >> \in Seq(Task)
  OBVIOUS
<1>3. TasksAreWell'
  BY <1>1, <1>2 DEF Evict, IInv, TypeOK, TasksAreWell
<1>4. QED
  BY <1>3, EvictJobs

-----------------------------------------------------------------------------
LEMMA InitIInv == Init => IInv
<1> SUFFICES ASSUME Init PROVE IInv
  OBVIOUS
<1>1. << >> \in Seq(Task) /\ Slots = {}
  BY DEF Init, Slots
<1>2. TypeOK
  BY <1>1, NoTaskFacts DEF Init, TypeOK, Results
<1>3. JobInv
  BY <1>1, NoTaskFacts, PipelineAssumption
     DEF Init, JobInv, JobIsOnce, UnderWay, Untouched, NoneIsForgotten, ReportsAreTrue
<1>4. QED
  BY <1>2, <1>3 DEF IInv

LEMMA NextIInv == IInv /\ [Next]_vars => IInv'
<1> SUFFICES ASSUME IInv, [Next]_vars PROVE IInv'
  OBVIOUS
<1>1. RowsAreWell'
  BY RowsStep DEF IInv
<1>2. ASSUME NEW w \in Workers, Collect(w) \/ Normalize(w) \/ Score(w)
      PROVE  TasksAreWell' /\ JobInv'
  BY <1>2, PassedStep DEF Collect, Normalize, Score, At, budget
<1>3. ASSUME NEW w \in Workers, Work(w) \/ ProcessOnce(w) \/ Crash(w)
      PROVE  TasksAreWell' /\ JobInv'
  BY <1>2, <1>3, TakeStep, StageRaisesStep, FinishStep, ProcessOnceStep, CrashStep DEF Work
<1>4. ASSUME UNCHANGED vars PROVE TasksAreWell' /\ JobInv'
  BY <1>4
     DEF vars, IInv, TypeOK, TasksAreWell, Slots, JobInv, JobIsOnce, UnderWay, Untouched,
         NoneIsForgotten, ReportsAreTrue
<1>5. ASSUME Beat \/ Evict \/ \E stage \in Stages : SendStage(stage)
      PROVE  TasksAreWell' /\ JobInv'
  BY <1>5, SendStep, EvictStep
<1>6. ASSUME NEW j \in Jobs, Trigger(j) \/ LogTrigger(j) PROVE TasksAreWell' /\ JobInv'
  BY <1>6, TriggerStep, LogStep
<1>7. TasksAreWell' /\ JobInv'
  BY <1>3, <1>4, <1>5, <1>6 DEF Next
<1>8. TypeOK'
  BY <1>1, <1>7 DEF TypeOK, RowsAreWell, TasksAreWell
<1>9. QED
  BY <1>7, <1>8 DEF IInv

LEMMA Invariance == Spec => []IInv
BY InitIInv, NextIInv, PTL DEF Spec

(* The state of the pipeline is well-formed, whatever the workers, the      *)
(* items and the limits: a normalized row has its core row, and a score is  *)
(* the score of a row there is.                                             *)
THEOREM TypeCorrectness == Spec => []TypeOK
<1>1. IInv => TypeOK
  BY DEF IInv
<1>2. QED
  BY <1>1, Invariance, PTL

(* The safety half of LoggedIsReported: the task of a triggered job is in   *)
(* the queue or with a worker, never twice, until the job is lost or has    *)
(* its summary, and the summary says that a stage raised exactly when one   *)
(* did (trigger_pipeline, run_stage, fatal_stage_errors).                   *)
THEOREM Reporting == Spec => [](JobIsOnce /\ NoneIsForgotten /\ ReportsAreTrue)
<1>1. IInv => JobIsOnce /\ NoneIsForgotten /\ ReportsAreTrue
  BY DEF IInv, JobInv
<1>2. QED
  BY <1>1, Invariance, PTL
=============================================================================
