------------------------------ MODULE Shutdown ------------------------------
(***************************************************************************)
(* How the server stops: the HTTP server, the queue poller, the three      *)
(* ingress workers, the statistics batcher and the order in which main     *)
(* awaits them.  A worker leaves its loop when its channel is empty and    *)
(* closed, and a channel closes when the last clone of its sender has been *)
(* dropped, so what matters is who holds a sender, and for how long.       *)
(***************************************************************************)
EXTENDS Integers, FiniteSets

CONSTANTS
  Cluster,     \* TRUE if AMGIX_AMQP_URL is set: no queue poller
  Reqs,        \* HTTP requests of a behaviour
  Batch,       \* the job that the poller sends to the bulk worker
  Capacity,    \* jobs an ingress channel buffers
  MaxTasks,    \* tasks an ingress worker runs at once
  DrainMax,    \* jobs of one micro-batch
  StatsCap,    \* STATS_BATCH_CHANNEL
  StatsMax,    \* STATS_BATCH_MAX_JOBS
  MaxPolls     \* bound on the batches the poller claims in a behaviour

ASSUME ShutdownAssumption ==
  /\ Cluster \in BOOLEAN
  /\ Batch \notin Reqs
  /\ Capacity \in Nat /\ MaxTasks \in Nat /\ DrainMax \in Nat
  /\ StatsCap \in Nat /\ StatsMax \in Nat /\ MaxPolls \in Nat

Ingress == {"bulk", "singles", "search"}
Upserts == {"bulk", "singles"}
Channels == Ingress \cup {"stats"}
Jobs == Reqs \cup {Batch}

VARIABLES
  main,       \* what main awaits
  signalled,  \* the shutdown signal has arrived
  stop,       \* the value of the poller's watch channel
  holders,    \* holders[c]: who holds a sender of channel c
  chan,       \* chan[c]: jobs buffered in an ingress channel
  tasks,      \* tasks[c]: the tasks an ingress worker has spawned
  worker,     \* worker[c]: "running" or "exited"
  req,        \* req[r]: what has become of a request
  poller,     \* where the poller is
  polls,      \* batches claimed so far
  buffered,   \* deltas buffered in the statistics channel
  collected   \* deltas in the hands of the statistics worker

vars == <<main, signalled, stop, holders, chan, tasks, worker, req, poller, polls,
          buffered, collected>>

\* A task works on a set of jobs; before it answers them it hands over at most
\* one statistics delta.
Task == [jobs : SUBSET Jobs, step : {"work", "reply"}]

\* The handlers whose future is still held by the HTTP server.
Handling == {r \in Reqs : req[r] \in {"arrived", "waiting", "deleting"}}

\* main moves its own senders into the poller, which exists only outside a
\* cluster; otherwise they stay in its frame until it returns.
Owner == IF Cluster THEN "main" ELSE "poller"

Init ==
  /\ main = "serve" /\ signalled = FALSE /\ stop = FALSE
  /\ holders = [c \in Channels |->
       IF c = "search" THEN {"router"}
       ELSE IF c = "stats" THEN {"router", Owner, "bulk", "singles", "keepalive"}
       ELSE {"router", Owner}]
  /\ chan = [c \in Ingress |-> {}]
  /\ tasks = [c \in Ingress |-> {}]
  /\ worker = [c \in Channels |-> "running"]
  /\ req = [r \in Reqs |-> "new"]
  /\ poller = (IF Cluster THEN "exited" ELSE "look")
  /\ polls = 0 /\ buffered = 0 /\ collected = 0

\* h drops every sender it holds.
Dropped(h) == [c \in Channels |-> holders[c] \ {h}]

-----------------------------------------------------------------------------
(* Requests. *)

\* The signal stops the server from accepting requests.
Arrive(r) ==
  /\ ~signalled /\ main = "serve"
  /\ req[r] = "new"
  /\ req' = [req EXCEPT ![r] = "arrived"]
  /\ UNCHANGED <<main, signalled, stop, holders, chan, tasks, worker, poller, polls,
                 buffered, collected>>

\* try_send: a full (or closed) channel refuses the job.
Submit(r, c) ==
  /\ req[r] = "arrived"
  /\ IF Cardinality(chan[c]) < Capacity /\ worker[c] = "running"
     THEN /\ chan' = [chan EXCEPT ![c] = @ \cup {r}]
          /\ req' = [req EXCEPT ![r] = "waiting"]
     ELSE /\ req' = [req EXCEPT ![r] = "refused"]
          /\ UNCHANGED chan
  /\ UNCHANGED <<main, signalled, stop, holders, tasks, worker, poller, polls,
                 buffered, collected>>

\* StatsUpdateBatcher::enqueue waits for room; it fails if the worker has gone.
Enqueue ==
  IF worker["stats"] = "running" THEN buffered < StatsCap /\ buffered' = buffered + 1
                                 ELSE UNCHANGED buffered

\* A synchronous delete runs in its handler and hands over a delta, if there is
\* one, itself.
DeleteSync(r) ==
  /\ req[r] \in {"arrived", "deleting"}
  /\ IF req[r] = "arrived"
     THEN req' = [req EXCEPT ![r] = "deleting"] /\ UNCHANGED buffered
     ELSE req' = [req EXCEPT ![r] = "answered"] /\ (Enqueue \/ UNCHANGED buffered)
  /\ UNCHANGED <<main, signalled, stop, holders, chan, tasks, worker, poller, polls,
                 collected>>

\* The client goes away and the server drops the handler; a job that has been
\* sent stays where it is.
Disconnect(r) ==
  /\ r \in Handling
  /\ req' = [req EXCEPT ![r] = "gone"]
  /\ UNCHANGED <<main, signalled, stop, holders, chan, tasks, worker, poller, polls,
                 buffered, collected>>

-----------------------------------------------------------------------------
(* The ingress workers. *)

\* recv, then try_recv up to the limit: spawn a task for the jobs.  The bulk
\* worker takes one job at a time.
Take(c) ==
  /\ worker[c] = "running"
  /\ Cardinality(tasks[c]) < MaxTasks
  /\ \E S \in SUBSET chan[c] :
       /\ S # {}
       /\ IF c = "bulk" THEN Cardinality(S) = 1
          ELSE Cardinality(S) <= DrainMax /\ (Cardinality(S) < DrainMax => S = chan[c])
       /\ chan' = [chan EXCEPT ![c] = @ \ S]
       /\ tasks' = [tasks EXCEPT ![c] = @ \cup {[jobs |-> S, step |-> "work"]}]
  /\ UNCHANGED <<main, signalled, stop, holders, worker, req, poller, polls,
                 buffered, collected>>

\* The task does its work; an upsert that wrote something hands over a delta.
Work(c, t) ==
  /\ t.step = "work"
  /\ tasks' = [tasks EXCEPT ![c] = (@ \ {t}) \cup {[t EXCEPT !.step = "reply"]}]
  /\ IF c \in Upserts THEN Enqueue \/ UNCHANGED buffered ELSE UNCHANGED buffered
  /\ UNCHANGED <<main, signalled, stop, holders, chan, worker, req, poller, polls, collected>>

\* The jobs S leave with an answer; whoever has gone does not hear it.
Answered(S) ==
  /\ req' = [r \in Reqs |-> IF r \in S /\ req[r] = "waiting" THEN "answered" ELSE req[r]]
  /\ poller' = IF Batch \in S THEN "deletes" ELSE poller

\* The task answers its jobs, or panics and drops their reply channels, which
\* the callers see as an error: either way they go on.
Finish(c, t) ==
  /\ t.step = "reply"
  /\ tasks' = [tasks EXCEPT ![c] = @ \ {t}]
  /\ Answered(t.jobs)
  /\ UNCHANGED <<main, signalled, stop, holders, chan, worker, polls, buffered, collected>>

Panic(c, t) ==
  /\ t.step = "work"
  /\ tasks' = [tasks EXCEPT ![c] = @ \ {t}]
  /\ Answered(t.jobs)
  /\ UNCHANGED <<main, signalled, stop, holders, chan, worker, polls, buffered, collected>>

\* Faulty form: the worker leaves its loop on an empty channel as soon as main
\* waits for it, without waiting for the senders to go or for its tasks.
WorkerExitsEagerly(c) ==
  /\ worker[c] = "running"
  /\ chan[c] = {}
  /\ holders[c] = {} \/ signalled
  /\ worker' = [worker EXCEPT ![c] = "exited"]
  /\ holders' = Dropped(c)
  /\ UNCHANGED <<main, signalled, stop, chan, tasks, req, poller, polls, buffered, collected>>

\* recv returns None, the remaining tasks are joined, and the senders of the
\* statistics channel that the worker held are dropped with it.
WorkerExits(c) ==
  /\ worker[c] = "running"
  /\ chan[c] = {} /\ holders[c] = {} /\ tasks[c] = {}
  /\ worker' = [worker EXCEPT ![c] = "exited"]
  /\ holders' = Dropped(c)
  /\ UNCHANGED <<main, signalled, stop, chan, tasks, req, poller, polls, buffered, collected>>

-----------------------------------------------------------------------------
(* The queue poller. *)

\* Look at the stop flag, then claim rows.  With no rows it sleeps until
\* something changes.
PollerLook ==
  /\ poller = "look" /\ ~stop
  /\ polls < MaxPolls
  /\ polls' = polls + 1
  /\ poller' \in {"send", "deletes"}
  /\ UNCHANGED <<main, signalled, stop, holders, chan, tasks, worker, req, buffered, collected>>

\* document_upsert_bulk_blocking: wait for room, then for the reply.
PollerSend ==
  /\ poller = "send"
  /\ IF worker["bulk"] = "exited"
     THEN poller' = "deletes" /\ UNCHANGED chan
     ELSE /\ Cardinality(chan["bulk"]) < Capacity
          /\ chan' = [chan EXCEPT !["bulk"] = @ \cup {Batch}]
          /\ poller' = "wait"
  /\ UNCHANGED <<main, signalled, stop, holders, tasks, worker, req, polls, buffered, collected>>

\* The deletes of the batch, then back to the flag.
PollerDeletes ==
  /\ poller = "deletes"
  /\ poller' = "look"
  /\ Enqueue \/ UNCHANGED buffered
  /\ UNCHANGED <<main, signalled, stop, holders, chan, tasks, worker, req, polls, collected>>

\* Faulty form: the task is told to stop and is gone at once, mid-batch or not.
PollerStopsAborted ==
  /\ poller # "exited" /\ stop
  /\ poller' = "exited"
  /\ holders' = Dropped("poller")
  /\ UNCHANGED <<main, signalled, stop, chan, tasks, worker, req, polls, buffered, collected>>

\* The flag is set: the poller ends and its senders go with it.
PollerStops ==
  /\ poller = "look" /\ stop
  /\ poller' = "exited"
  /\ holders' = Dropped("poller")
  /\ UNCHANGED <<main, signalled, stop, chan, tasks, worker, req, polls, buffered, collected>>

-----------------------------------------------------------------------------
(* The statistics worker. *)

\* collect_stats_batch: take deltas until the batch is full, the window has
\* passed or the channel is closed.
CollectStats ==
  /\ worker["stats"] = "running"
  /\ buffered > 0 /\ collected < StatsMax
  /\ buffered' = buffered - 1
  /\ collected' = collected + 1
  /\ UNCHANGED <<main, signalled, stop, holders, chan, tasks, worker, req, poller, polls>>

\* flush_stats_job_batch
FlushStats ==
  /\ worker["stats"] = "running"
  /\ collected > 0
  /\ collected' = 0
  /\ UNCHANGED <<main, signalled, stop, holders, chan, tasks, worker, req, poller, polls, buffered>>

StatsExits ==
  /\ worker["stats"] = "running"
  /\ buffered = 0 /\ collected = 0 /\ holders["stats"] = {}
  /\ worker' = [worker EXCEPT !["stats"] = "exited"]
  /\ UNCHANGED <<main, signalled, stop, holders, chan, tasks, req, poller, polls,
                 buffered, collected>>

-----------------------------------------------------------------------------
(* main. *)

Signal ==
  /\ ~signalled
  /\ signalled' = TRUE
  /\ UNCHANGED <<main, stop, holders, chan, tasks, worker, req, poller, polls,
                 buffered, collected>>

\* axum::serve returns once no handler is left, and the router goes with it;
\* main then tells the poller, if there is one, to stop.
ServeReturns ==
  /\ main = "serve" /\ signalled
  /\ Handling = {}
  /\ holders' = Dropped("router")
  /\ stop' = ~Cluster
  /\ main' = IF Cluster THEN "upsert" ELSE "poller"
  /\ UNCHANGED <<signalled, chan, tasks, worker, req, poller, polls, buffered, collected>>

\* main awaits one task after the other.
Joined(from, to, done) ==
  /\ main = from /\ done
  /\ main' = to
  /\ UNCHANGED <<signalled, stop, chan, tasks, worker, req, poller, polls, buffered, collected>>

PollerJoined == Joined("poller", "upsert", poller = "exited") /\ UNCHANGED holders

UpsertJoined ==
  /\ Joined("upsert", "search", worker["bulk"] = "exited" /\ worker["singles"] = "exited")
  /\ UNCHANGED holders

\* Faulty form: the keepalive sender is kept while the batcher is awaited.
SearchJoinedKeeping ==
  Joined("search", "stats", worker["search"] = "exited") /\ UNCHANGED holders

\* Awaiting the batcher starts with dropping its keepalive sender.
SearchJoined ==
  /\ Joined("search", "stats", worker["search"] = "exited")
  /\ holders' = Dropped("keepalive")

\* Faulty form: the statistics worker is not awaited.
StatsJoinedDetached == Joined("stats", "done", TRUE) /\ UNCHANGED holders

\* What is left of main (the metrics thread, the broker connection) ends, and
\* the process with it.
StatsJoined == Joined("stats", "done", worker["stats"] = "exited") /\ UNCHANGED holders

Terminated == main = "done" /\ UNCHANGED vars

-----------------------------------------------------------------------------

Requests == \E r \in Reqs : \/ \E c \in Ingress : Submit(r, c)
                            \/ DeleteSync(r)
Ingesting(c) == Take(c) \/ (\E t \in tasks[c] : Work(c, t) \/ Finish(c, t)) \/ WorkerExits(c)
Polling == PollerLook \/ PollerSend \/ PollerDeletes \/ PollerStops
Counting == CollectStats \/ FlushStats \/ StatsExits
Joining == PollerJoined \/ UpsertJoined \/ SearchJoined \/ StatsJoined

Next ==
  \/ \E r \in Reqs : Arrive(r) \/ Disconnect(r)
  \/ Requests
  \/ \E c \in Ingress : Ingesting(c) \/ \E t \in tasks[c] : Panic(c, t)
  \/ Polling
  \/ Counting
  \/ Signal \/ ServeReturns \/ Joining \/ Terminated

Spec == Init /\ [][Next]_vars

\* The runtime polls every task that can go on; clients may do as they like.
FairSpec ==
  /\ Spec
  /\ WF_vars(Requests)
  /\ \A c \in Ingress : WF_vars(Ingesting(c))
  /\ WF_vars(Polling) /\ WF_vars(Counting)
  /\ WF_vars(ServeReturns) /\ WF_vars(Joining)

-----------------------------------------------------------------------------
(* Properties. *)

\* The variables have their types.
TypeOK ==
  /\ main \in {"serve", "poller", "upsert", "search", "stats", "done"}
  /\ signalled \in BOOLEAN /\ stop \in BOOLEAN
  /\ holders \in [Channels -> SUBSET {"router", "main", "poller", "bulk", "singles", "keepalive"}]
  /\ chan \in [Ingress -> SUBSET Jobs]
  /\ tasks \in [Ingress -> SUBSET Task]
  /\ worker \in [Channels -> {"running", "exited"}]
  /\ req \in [Reqs -> {"new", "arrived", "waiting", "deleting", "refused", "answered", "gone"}]
  /\ poller \in {"look", "send", "wait", "deletes", "exited"}
  /\ polls \in 0..MaxPolls /\ buffered \in 0..StatsCap /\ collected \in 0..StatsMax

\* When the process ends nothing that was accepted is left behind: no job in a
\* channel or a task, and no statistics delta that was handed over and never
\* flushed (the order in which main awaits its workers).
DrainedAtExit ==
  main = "done" =>
    /\ \A c \in Ingress : chan[c] = {} /\ tasks[c] = {}
    /\ buffered = 0 /\ collected = 0

\* Nobody who may still hand over a job or a delta finds the receiver gone: a
\* batch of the poller completes through the bulk channel (queue_poller.rs
\* QueuePollerShutdown), and every delta reaches the statistics worker.
ReceiversOutliveSenders ==
  /\ poller \in {"send", "wait"} => worker["bulk"] = "running"
  /\ Handling # {} => \A c \in Channels : worker[c] = "running"
  /\ (\/ poller # "exited"
      \/ \E c \in Upserts : chan[c] # {} \/ tasks[c] # {}) => worker["stats"] = "running"

\* The poller is never cut off between claiming a batch and settling its rows:
\* when it has ended, none of its work is in a channel or a task.
BatchIsFinished ==
  poller = "exited" =>
    \A c \in Ingress : Batch \notin chan[c] /\ \A t \in tasks[c] : Batch \notin t.jobs

\* After the signal the process ends.
ShutdownCompletes == signalled ~> main = "done"

\* Once axum::serve has returned and main awaits the upsert workers, their
\* channels close, the workers drain what is left and exit (the documentation
\* of UpsertIngressShutdown).
UpsertWorkersExit ==
  main = "upsert" ~> worker["bulk"] = "exited" /\ worker["singles"] = "exited"

-----------------------------------------------------------------------------
(* What makes the safety properties inductive. *)

\* Who may still send holds a sender, and a receiver that is gone has seen all
\* its senders go and has nothing left.
HoldInv ==
  /\ main = "serve" => \A c \in Channels : "router" \in holders[c]
  /\ poller # "exited" => \A c \in Channels \ {"search"} : "poller" \in holders[c]
  /\ \A c \in Upserts : worker[c] = "running" => c \in holders["stats"]
  /\ \A c \in Channels : worker[c] = "exited" => holders[c] = {}
  /\ \A c \in Ingress : worker[c] = "exited" => chan[c] = {} /\ tasks[c] = {}
  /\ worker["stats"] = "exited" => buffered = 0 /\ collected = 0
  /\ Handling # {} => main = "serve"

\* What main has awaited has ended.
MainInv ==
  /\ main \in {"search", "stats", "done"} => \A c \in Upserts : worker[c] = "exited"
  /\ main \in {"stats", "done"} => worker["search"] = "exited"
  /\ main = "done" => worker["stats"] = "exited"

\* The poller's job is nowhere unless the poller waits for it, and then in one
\* place.
BatchInv ==
  /\ \A c \in Ingress : Batch \in chan[c] => poller = "wait" /\ c = "bulk"
  /\ \A c \in Ingress : \A t \in tasks[c] : Batch \in t.jobs =>
       /\ poller = "wait" /\ c = "bulk" /\ Batch \notin chan["bulk"]
       /\ \A u \in tasks["bulk"] : Batch \in u.jobs => u = t

=============================================================================
