------------------------------ MODULE Ingress ------------------------------
(***************************************************************************)
(* The two upsert workers in front of the write path.  Single documents    *)
(* are drained from a bounded queue into micro-batches, grouped by         *)
(* collection and reduced to one winner per document id; bulk jobs are cut *)
(* into chunks that run side by side.  What the write path does with the   *)
(* documents of a group is abstracted to its outcome: Ingest has it in     *)
(* full.                                                                   *)
(***************************************************************************)
EXTENDS Lines

CONSTANTS
  Single,     \* single-document jobs
  Ticket,     \* those of the queue poller, which carry a row to re-verify
  Bulk,       \* bulk jobs
  Coll, DocId,
  MaxTs,      \* timestamps are 1..MaxTs
  Capacity,   \* SINGLE_UPSERT_QUEUE_CAPACITY
  MaxTasks,   \* SINGLE_UPSERT_CONCURRENT_MICROBATCH_MAX
  DrainMax,   \* SINGLE_UPSERT_MICROBATCH_DRAIN_MAX
  BulkLen,    \* documents of a bulk job
  ChunkSize,  \* BULK_UPSERT_CHUNK_SIZE
  MaxErrors,  \* bound on the calls of the write path that fail
  MaxPanics   \* bound on the tasks that panic

ASSUME IngressAssumption ==
  /\ Coll # {} /\ DocId # {}
  /\ MaxTs \in Nat \ {0} /\ Capacity \in Nat \ {0} /\ MaxTasks \in Nat \ {0}
  /\ DrainMax \in Nat \ {0} /\ ChunkSize \in Nat \ {0} /\ BulkLen \in Nat
  /\ Ticket \subseteq Single /\ MaxErrors \in Nat /\ MaxPanics \in Nat

VARIABLES
  job,      \* job[j]: a single-document job and its answer
  queue,    \* the singles channel
  tasks,    \* the micro-batches in flight
  bulk,     \* bulk[b]: a bulk job, the fate of its chunks and its answer
  store,    \* store[c][d]: the timestamp of the stored document, 0 if there is none
  errors,   \* failed calls so far
  panics    \* panics so far

ingressVars == <<job, queue, tasks, bulk, store, errors, panics>>

Ts == 1..MaxTs
Version == [coll : Coll, doc : DocId, ts : Ts]
Answers == {"ok", "stale", "gone", "err", "full", "exited"}

UpsertJob == [at : {"new", "queued", "taken"} \cup Answers, v : Version]
NoJob == [at |-> "new", v |-> CHOOSE v \in Version : TRUE]

\* todo: the collections still to be served; coll: the one being served, with
\* the outcome of its documents once the write path has returned.
Task == [jobs : Seq(Single), todo : SUBSET Coll, coll : Coll,
         step : {"pick", "apply", "reply"}, out : [DocId -> {"ok", "stale", "gone", "err"}]]

NumChunks == (BulkLen + ChunkSize - 1) \div ChunkSize
BulkJob == [at : {"new", "running", "ok", "err"}, vs : Seq(Version),
            chunk : [1..NumChunks -> {"run", "ok", "err", "panic"}]]
NoBulk == [at |-> "new", vs |-> <<>>, chunk |-> [i \in 1..NumChunks |-> "run"]]

IngressTypeOK ==
  /\ job \in [Single -> UpsertJob]
  /\ queue \in Seq(Single) /\ Len(queue) <= Capacity
  /\ tasks \subseteq Task /\ Cardinality(tasks) <= MaxTasks
  /\ bulk \in [Bulk -> BulkJob]
  /\ store \in [Coll -> [DocId -> 0..MaxTs]]
  /\ errors \in 0..MaxErrors /\ panics \in 0..MaxPanics

IngressInit ==
  /\ job = [j \in Single |-> NoJob] /\ queue = <<>> /\ tasks = {}
  /\ bulk = [b \in Bulk |-> NoBulk]
  /\ store = [c \in Coll |-> [d \in DocId |-> 0]]
  /\ errors = 0 /\ panics = 0

-----------------------------------------------------------------------------
(* Single documents. *)

\* document_upsert_sync refuses a job when the channel is full,
\* document_upsert_blocking waits for room.
Submit(j) ==
  /\ job[j].at = "new"
  /\ \E v \in Version :
       LET put == [at |-> "queued", v |-> v] IN
       \/ /\ Len(queue) < Capacity
          /\ queue' = Append(queue, j) /\ job' = [job EXCEPT ![j] = put]
       \/ /\ Len(queue) >= Capacity /\ j \notin Ticket
          /\ job' = [job EXCEPT ![j] = [put EXCEPT !.at = "full"]] /\ UNCHANGED queue
  /\ UNCHANGED <<tasks, bulk, store, errors, panics>>

\* One recv, then try_recv while there are jobs and room in the batch.
TakeBatch ==
  /\ queue # <<>> /\ Cardinality(tasks) < MaxTasks
  /\ LET n == IF Len(queue) < DrainMax THEN Len(queue) ELSE DrainMax
         batch == SubSeq(queue, 1, n) IN
     /\ queue' = SubSeq(queue, n + 1, Len(queue))
     /\ tasks' = tasks \cup {[jobs |-> batch, todo |-> {job[j].v.coll : j \in Range(batch)},
                              coll |-> CHOOSE c \in Coll : TRUE, step |-> "pick",
                              out |-> [d \in DocId |-> "ok"]]}
     /\ job' = [j \in Single |-> IF j \in Range(batch) THEN [job[j] EXCEPT !.at = "taken"] ELSE job[j]]
  /\ UNCHANGED <<bulk, store, errors, panics>>

\* The jobs of a task for one collection.
Slots(t, c) == {j \in Range(t.jobs) : job[j].v.coll = c}

\* Two jobs are about the same document.
Same(j, k) == job[j].v.coll = job[k].v.coll /\ job[j].v.doc = job[k].v.doc

\* Faulty form: the first job of a document wins.
WinsFirst(s, i) == \A k \in DOMAIN s : Same(s[k], s[i]) => k >= i

\* The job with the greatest timestamp of its document, the first of equals.
Wins(s, i) ==
  \A k \in DOMAIN s :
    Same(s[k], s[i]) =>
      \/ job[s[k]].v.ts < job[s[i]].v.ts
      \/ job[s[k]].v.ts = job[s[i]].v.ts /\ k >= i

Winners(t, c) ==
  {t.jobs[i] : i \in {k \in DOMAIN t.jobs : job[t.jobs[k]].v.coll = c /\ Wins(t.jobs, k)}}

\* The jobs answered a, the others as they were.
Answer(S, a) == job' = [j \in Single |-> IF j \in S THEN [job[j] EXCEPT !.at = a[j]] ELSE job[j]]

Becomes(t, u) == tasks' = (tasks \ {t}) \cup {u}

\* The next collection, in whatever order the map has them: the losers are
\* answered before anything is written.
PickCollection(t) ==
  /\ t.step = "pick"
  /\ \E c \in t.todo :
       /\ Becomes(t, [t EXCEPT !.coll = c, !.todo = @ \ {c}, !.step = "apply"])
       /\ Answer(Slots(t, c) \ Winners(t, c), [j \in Single |-> "stale"])
  /\ UNCHANGED <<queue, bulk, store, errors, panics>>

\* What the write path may report of the winner j: its row is gone, or it is
\* applied if it is newer than what is stored.
Outcomes(j) ==
  (IF j \in Ticket THEN {"gone"} ELSE {})
    \cup {IF job[j].v.ts > store[job[j].v.coll][job[j].v.doc] THEN "ok" ELSE "stale"}

\* document_upsert_bulk_internal returns for the winners of the collection.
Apply(t) ==
  LET W == Winners(t, t.coll)
      Of(d) == CHOOSE j \in W : job[j].v.doc = d
      D == {job[j].v.doc : j \in W} IN
  /\ t.step = "apply"
  /\ \E out \in [D -> {"ok", "stale", "gone"}] :
       /\ \A d \in D : out[d] \in Outcomes(Of(d))
       /\ Becomes(t, [t EXCEPT !.step = "reply", !.out = [d \in DocId |-> IF d \in D THEN out[d] ELSE "ok"]])
       /\ store' = [store EXCEPT ![t.coll] = [d \in DocId |->
                      IF d \in D /\ out[d] = "ok" THEN job[Of(d)].v.ts ELSE @[d]]]
  /\ UNCHANGED <<job, queue, bulk, errors, panics>>

\* It fails for the whole group, before anything is written.
ApplyFails(t) ==
  /\ t.step = "apply" /\ errors < MaxErrors /\ errors' = errors + 1
  /\ Becomes(t, [t EXCEPT !.step = "reply", !.out = [d \in DocId |-> "err"]])
  /\ UNCHANGED <<job, queue, bulk, store, panics>>

\* A task that has served its last collection ends.
Proceed(t) ==
  IF t.todo = {} THEN tasks' = tasks \ {t} ELSE Becomes(t, [t EXCEPT !.step = "pick"])

\* Faulty form: whatever came of it, the winners are told it is done.
ReplyOk(t) ==
  /\ t.step = "reply" /\ Proceed(t)
  /\ Answer(Winners(t, t.coll), [j \in Single |-> "ok"])
  /\ UNCHANGED <<queue, bulk, store, errors, panics>>

\* Each winner gets the outcome of its document; an error goes to all of them.
Reply(t) ==
  /\ t.step = "reply" /\ Proceed(t)
  /\ Answer(Winners(t, t.coll), [j \in Single |-> t.out[job[j].v.doc]])
  /\ UNCHANGED <<queue, bulk, store, errors, panics>>

\* Faulty form: the reply channels of the batch outlive its task.
PanicKeeping(t) ==
  /\ t.step = "apply" /\ panics < MaxPanics /\ panics' = panics + 1
  /\ tasks' = tasks \ {t}
  /\ UNCHANGED <<job, queue, bulk, store, errors>>

\* The write path panics: the unanswered jobs of the batch are dropped with
\* their reply channels, and the callers see that.
Panic(t) ==
  /\ t.step = "apply" /\ panics < MaxPanics /\ panics' = panics + 1
  /\ tasks' = tasks \ {t}
  /\ Answer({j \in Range(t.jobs) : job[j].at = "taken"}, [j \in Single |-> "exited"])
  /\ UNCHANGED <<queue, bulk, store, errors>>

TaskStep == \E t \in tasks : PickCollection(t) \/ Apply(t) \/ Reply(t)
TaskFault == \E t \in tasks : ApplyFails(t) \/ Panic(t)

-----------------------------------------------------------------------------
(* Bulk jobs. *)

StartBulk(b) ==
  /\ bulk[b].at = "new"
  /\ \E c \in Coll : \E f \in [1..BulkLen -> DocId \X Ts] :
       bulk' = [bulk EXCEPT ![b].at = "running",
                            ![b].vs = [i \in 1..BulkLen |-> [coll |-> c, doc |-> f[i][1], ts |-> f[i][2]]]]
  /\ UNCHANGED <<job, queue, tasks, store, errors, panics>>

\* The i-th chunk of the documents.
Chunk(vs, i) == SubSeq(vs, (i - 1) * ChunkSize + 1,
                       IF i * ChunkSize <= Len(vs) THEN i * ChunkSize ELSE Len(vs))

\* The chunk's task runs the write path, which takes the newest version of a
\* document and leaves what is newer in the store.
Newest(vs, c, d) ==
  LET T == {vs[i].ts : i \in {k \in DOMAIN vs : vs[k].coll = c /\ vs[k].doc = d}}
               \cup {store[c][d]} IN
  CHOOSE x \in T : \A y \in T : y <= x

ChunkEnds(b, i, s) ==
  /\ bulk[b].at = "running" /\ bulk[b].chunk[i] = "run"
  /\ bulk' = [bulk EXCEPT ![b].chunk[i] = s]
  /\ UNCHANGED <<job, queue, tasks>>

ApplyChunk(b, i) ==
  /\ ChunkEnds(b, i, "ok")
  /\ store' = [c \in Coll |-> [d \in DocId |-> Newest(Chunk(bulk[b].vs, i), c, d)]]
  /\ UNCHANGED <<errors, panics>>

ChunkFails(b, i) ==
  /\ ChunkEnds(b, i, "err") /\ errors < MaxErrors /\ errors' = errors + 1
  /\ UNCHANGED <<store, panics>>

ChunkPanics(b, i) ==
  /\ ChunkEnds(b, i, "panic") /\ panics < MaxPanics /\ panics' = panics + 1
  /\ UNCHANGED <<store, errors>>

\* Faulty form: the answer is that of the first chunk.
ReplyFirstChunk(b) ==
  /\ bulk[b].at = "running"
  /\ \A i \in 1..NumChunks : bulk[b].chunk[i] # "run"
  /\ bulk' = [bulk EXCEPT ![b].at = IF bulk[b].chunk[1] = "err" THEN "err" ELSE "ok"]
  /\ UNCHANGED <<job, queue, tasks, store, errors, panics>>

\* The chunks are joined; an error of one is the answer, a panic is only
\* logged.
ReplyBulk(b) ==
  /\ bulk[b].at = "running"
  /\ \A i \in 1..NumChunks : bulk[b].chunk[i] # "run"
  /\ bulk' = [bulk EXCEPT ![b].at =
                IF \E i \in 1..NumChunks : bulk[b].chunk[i] = "err" THEN "err" ELSE "ok"]
  /\ UNCHANGED <<job, queue, tasks, store, errors, panics>>

BulkStep(b) == ReplyBulk(b) \/ \E i \in 1..NumChunks : ApplyChunk(b, i)
BulkFault(b) == \E i \in 1..NumChunks : ChunkFails(b, i) \/ ChunkPanics(b, i)

\* Nothing is left to do until a client asks for something.
IngressRest ==
  /\ queue = <<>> /\ tasks = {} /\ \A b \in Bulk : bulk[b].at # "running"
  /\ UNCHANGED ingressVars

IngressNext ==
  \/ \E j \in Single : Submit(j)
  \/ TakeBatch \/ TaskStep \/ TaskFault
  \/ \E b \in Bulk : StartBulk(b) \/ BulkStep(b) \/ BulkFault(b)
  \/ IngressRest

IngressSpec == IngressInit /\ [][IngressNext]_ingressVars

\* The worker and its tasks run.
IngressFairSpec ==
  /\ IngressSpec /\ WF_ingressVars(TakeBatch) /\ WF_ingressVars(TaskStep)
  /\ \A b \in Bulk : WF_ingressVars(BulkStep(b))

-----------------------------------------------------------------------------
(* Properties. *)

\* A job answered with success is stored, or something newer is: the winner of
\* a micro-batch is answered only after the write path has taken it.
OkIsStored ==
  \A j \in Single : job[j].at = "ok" => store[job[j].v.coll][job[j].v.doc] >= job[j].v.ts

\* A job answered as stale is stale: its document is stored with a timestamp
\* at least as great, or a job of the same document that is at least as new
\* took its place and is about to be stored, or did not succeed itself (the
\* losers of a micro-batch are answered before the winner is written).
StaleIsStale ==
  \A j \in Single : job[j].at = "stale" =>
    \/ store[job[j].v.coll][job[j].v.doc] >= job[j].v.ts
    \/ \E k \in Single : /\ job[k].at \in {"taken", "gone", "err", "exited"}
                         /\ Same(j, k) /\ job[k].v.ts >= job[j].v.ts

\* A bulk job answered with success has all of its documents stored, those
\* beyond the last full chunk too, but for the chunks whose tasks panicked.
BulkOkIsComplete ==
  \A b \in Bulk : bulk[b].at = "ok" =>
    \A i \in DOMAIN bulk[b].vs :
      \/ bulk[b].chunk[(i - 1) \div ChunkSize + 1] = "panic"
      \/ store[bulk[b].vs[i].coll][bulk[b].vs[i].doc] >= bulk[b].vs[i].ts

\* What is said of answers above.
AnswersHonest == IngressTypeOK /\ OkIsStored /\ StaleIsStale /\ BulkOkIsComplete

\* Every job that gets into the queue is answered, also when the tasks of other
\* jobs panic: a task that panics gives back its place among those in flight.
EveryJobAnswered ==
  \A j \in Single : (job[j].at = "queued") ~> (job[j].at \in Answers)
=============================================================================
