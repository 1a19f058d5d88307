--------------------------- MODULE SearchIngress ---------------------------
(***************************************************************************)
(* The search worker: a bounded queue, micro-batches, and in each of them  *)
(* one bucket per collection and settings.  A bucket reads the collection  *)
(* configuration, checks the settings and vectorizes its queries once, and *)
(* then searches for each job in turn.  The search itself is abstracted to *)
(* whether it succeeds.                                                    *)
(***************************************************************************)
EXTENDS Lines

CONSTANTS
  Job, Coll, Setting,
  Invalid,    \* settings whose filter, group field or join is not valid
  Capacity,   \* SEARCH_INGRESS_QUEUE_CAPACITY
  MaxTasks,   \* SEARCH_INGRESS_CONCURRENT_MICROBATCH_MAX
  DrainMax,   \* SEARCH_INGRESS_MICROBATCH_DRAIN_MAX
  MaxFaults   \* bound on failures of the database and of vectorization, and panics

\* The collection and the settings exist; the limits are at least one.
ASSUME SearchIngressAssumption ==
  /\ Coll # {} /\ Setting # {} /\ Invalid \subseteq Setting
  /\ Capacity \in Nat \ {0} /\ MaxTasks \in Nat \ {0} /\ DrainMax \in Nat \ {0}
  /\ MaxFaults \in Nat

VARIABLES
  job,     \* job[j]: the collection and settings of a job, and its answer
  queue,   \* the channel
  tasks,   \* the micro-batches in flight
  faults   \* faults so far

searchVars == <<job, queue, tasks, faults>>

Key == Coll \X Setting
Answers == {"results", "invalid", "failed", "full", "exited"}

\* query and with: the query and the settings that the results were computed
\* from.
JobState == [at : {"new", "queued", "taken"} \cup Answers, key : Key, query : Job, with : Key]
NewJob(j) == [at |-> "new", key |-> CHOOSE k \in Key : TRUE, query |-> j,
              with |-> CHOOSE k \in Key : TRUE]

\* todo: the buckets still to be run; bucket: the jobs of the one that runs;
\* settings: those its queries are vectorized with, settings0; vectors: the
\* query of each vector; cached: the configuration came from the cache.
Task == [jobs : Seq(Job), todo : SUBSET Key, bucket : Seq(Job), settings : Key,
         vectors : Seq(Job), cached : BOOLEAN,
         step : {"next", "config", "vectorize", "again", "search"}]

NewTask(batch, keys) ==
  [jobs |-> batch, todo |-> keys, bucket |-> <<>>, settings |-> CHOOSE k \in Key : TRUE,
   vectors |-> <<>>, cached |-> FALSE, step |-> "next"]

SearchTypeOK ==
  /\ job \in [Job -> JobState]
  /\ queue \in Seq(Job) /\ Len(queue) <= Capacity
  /\ tasks \subseteq Task /\ Cardinality(tasks) <= MaxTasks
  /\ faults \in 0..MaxFaults

SearchInit ==
  /\ job = [j \in Job |-> NewJob(j)] /\ queue = <<>> /\ tasks = {} /\ faults = 0

-----------------------------------------------------------------------------
\* SearchIngress::search: a full channel refuses the job.
SubmitSearch(j) ==
  /\ job[j].at = "new"
  /\ \E k \in Key :
       IF Len(queue) < Capacity
       THEN /\ queue' = Append(queue, j)
            /\ job' = [job EXCEPT ![j].at = "queued", ![j].key = k]
       ELSE job' = [job EXCEPT ![j].at = "full", ![j].key = k] /\ UNCHANGED queue
  /\ UNCHANGED <<tasks, faults>>

\* Faulty form: jobs are grouped by collection alone.
KeyOfCollection(j) == <<job[j].key[1], CHOOSE s \in Setting : TRUE>>

\* What process_search_microbatch groups by.
KeyOf(j) == job[j].key

\* recv, try_recv up to the limit, and a task for the batch.
TakeBatch ==
  LET n == IF Len(queue) < DrainMax THEN Len(queue) ELSE DrainMax
      batch == SubSeq(queue, 1, n) IN
  /\ queue # <<>> /\ Cardinality(tasks) < MaxTasks
  /\ queue' = SubSeq(queue, n + 1, Len(queue))
  /\ tasks' = tasks \cup {NewTask(batch, {KeyOf(j) : j \in Range(batch)})}
  /\ job' = [j \in Job |-> IF j \in Range(batch) THEN [job[j] EXCEPT !.at = "taken"] ELSE job[j]]
  /\ UNCHANGED faults

TaskBecomes(t, u) == tasks' = (tasks \ {t}) \cup {u}

\* After a bucket: the next one, or the end of the task.
Done(t) ==
  IF t.todo = {} THEN tasks' = tasks \ {t}
  ELSE TaskBecomes(t, NewTask(t.jobs, t.todo))

Answer(S, a) == job' = [j \in Job |-> IF j \in S THEN [job[j] EXCEPT !.at = a] ELSE job[j]]

NextBucket(t) ==
  /\ t.step = "next"
  /\ \E k \in t.todo :
       LET places == Ascending({n \in DOMAIN t.jobs : KeyOf(t.jobs[n]) = k})
           bucket == [i \in DOMAIN places |-> t.jobs[places[i]]] IN
       TaskBecomes(t, [t EXCEPT !.todo = @ \ {k}, !.step = "config", !.bucket = bucket,
                            !.settings = job[Head(bucket)].key])
  /\ UNCHANGED <<job, queue, faults>>

\* The configuration is read and the filter, the group field and the join are
\* checked against it.
ReadConfig(t) ==
  /\ t.step = "config"
  /\ IF t.settings[2] \in Invalid
     THEN Answer(Range(t.bucket), "invalid") /\ Done(t)
     ELSE /\ \E b \in BOOLEAN : TaskBecomes(t, [t EXCEPT !.step = "vectorize", !.cached = b])
          /\ UNCHANGED job
  /\ UNCHANGED <<queue, faults>>

Fault == faults < MaxFaults /\ faults' = faults + 1

\* No configuration, a pool that dropped the channel, or a second failure of
\* vectorization: every job of the bucket gets the error.
BucketFails(t) ==
  /\ t.step \in {"config", "vectorize", "again"} /\ Fault
  /\ Answer(Range(t.bucket), "failed") /\ Done(t)
  /\ UNCHANGED queue

\* Vectorization with a cached configuration fails: once more with a fresh one.
VectorizeAgain(t) ==
  /\ t.step = "vectorize" /\ t.cached /\ Fault
  /\ TaskBecomes(t, [t EXCEPT !.step = "again"])
  /\ UNCHANGED <<job, queue>>

Vectorized(t) ==
  /\ t.step \in {"vectorize", "again"}
  /\ TaskBecomes(t, [t EXCEPT !.step = "search", !.vectors = t.bucket])
  /\ UNCHANGED <<job, queue, faults>>

\* The jobs and the vectors are walked together: the search, its joins and the
\* answer of one job.
Search(t) ==
  LET j == Head(t.bucket)
      rest == [t EXCEPT !.bucket = Tail(@), !.vectors = Tail(@)] IN
  /\ t.step = "search"
  /\ \/ /\ job' = [job EXCEPT ![j].at = "results", ![j].query = Head(t.vectors),
                              ![j].with = t.settings]
        /\ UNCHANGED faults
     \/ Fault /\ Answer({j}, "failed")
  /\ IF rest.bucket = <<>> THEN Done(t) ELSE TaskBecomes(t, rest)
  /\ UNCHANGED queue

\* The jobs that have no answer yet are dropped with their reply channels.
Panic(t) ==
  /\ t.step # "next" /\ Fault
  /\ tasks' = tasks \ {t}
  /\ Answer({j \in Range(t.jobs) : job[j].at = "taken"}, "exited")
  /\ UNCHANGED queue

TaskStep ==
  \E t \in tasks : NextBucket(t) \/ ReadConfig(t) \/ Vectorized(t) \/ Search(t)
TaskFault == \E t \in tasks : BucketFails(t) \/ VectorizeAgain(t) \/ Panic(t)

SearchRest ==
  /\ queue = <<>> /\ tasks = {} /\ \A j \in Job : job[j].at # "new"
  /\ UNCHANGED searchVars

SearchNext == (\E j \in Job : SubmitSearch(j)) \/ TakeBatch \/ TaskStep \/ TaskFault \/ SearchRest

SearchSpec == SearchInit /\ [][SearchNext]_searchVars

-----------------------------------------------------------------------------
\* The results of a job are those of its own query under its own settings and
\* collection, whatever else is in its micro-batch.
OwnResults ==
  \A j \in Job : job[j].at = "results" => job[j].query = j /\ job[j].with = job[j].key

\* Only a job whose own settings are invalid is told so.
InvalidIsOwn == \A j \in Job : job[j].at = "invalid" => job[j].key[2] \in Invalid

\* The jobs that a task has still to answer: those of its bucket and those of
\* the buckets to come.
Unanswered(t) == Range(t.bucket) \cup {j \in Range(t.jobs) : KeyOf(j) \in t.todo}

\* A search is never lost, nor answered from two places: until it has its answer
\* it stands once in the queue, or exactly one task has it.
SearchesAccounted ==
  /\ IsInjective(queue) /\ \A j \in Job : job[j].at = "queued" <=> j \in Range(queue)
  /\ \A j \in Job : job[j].at = "taken" <=> \E t \in tasks : j \in Unanswered(t)
  /\ \A t, u \in tasks : t # u => Unanswered(t) \cap Unanswered(u) = {}

\* The answer to a search comes once and is its own, whatever shares its queue
\* and its micro-batch.
AnswersAreOwn == SearchTypeOK /\ OwnResults /\ InvalidIsOwn /\ SearchesAccounted

\* Every search that gets into the queue is answered.
EverySearchAnswered == \A j \in Job : (job[j].at = "queued") ~> (job[j].at \in Answers)
=============================================================================
