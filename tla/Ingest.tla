------------------------------- MODULE Ingest -------------------------------
(***************************************************************************)
(* The write path of one collection: the durable queue, the queue poller,  *)
(* the synchronous upsert and delete requests, and the document locks that *)
(* order them.  A call of document_upsert_bulk_internal or                 *)
(* document_delete_sync is a process that moves through `pc' one await at  *)
(* a time; everything it touches in the database is shared.                *)
(*                                                                         *)
(* Documents are numbers because locks are taken in the order of the ids.  *)
(* A document is its timestamp: the write path compares nothing else.      *)
(***************************************************************************)
EXTENDS Integers, FiniteSets

CONSTANTS
  NDocs,        \* documents 1..NDocs
  MaxTs,        \* client timestamps 1..MaxTs
  NRows,        \* queue rows ever created, 1..NRows, oldest first
  Clients,      \* requests that may be in flight at once
  Poller,       \* the queue poller thread
  BatchLimit,   \* QUEUE_POLLER_BATCH_SIZE
  MaxDbTries,   \* MAX_DB_RETRIES
  MaxVecTries,  \* MAX_QUEUE_DELIVERY_ATTEMPTS
  MaxSync,      \* bound on the synchronous requests of a behaviour
  MaxFaults,    \* bound on the failed database and model calls of a behaviour
  MaxCrashes    \* bound on the restarts of a behaviour

ASSUME IngestAssumption ==
  /\ NDocs \in Nat \ {0} /\ MaxTs \in Nat \ {0} /\ NRows \in Nat
  /\ BatchLimit \in Nat /\ MaxDbTries \in Nat /\ MaxVecTries \in Nat
  /\ MaxSync \in Nat /\ MaxFaults \in Nat /\ MaxCrashes \in Nat
  /\ Poller \notin Clients
  /\ "free" \notin Clients \cup {Poller}   \* the mark of a lock that nobody holds

VARIABLES
  store,    \* store[d]: timestamp of the live document, or Absent
  queue,    \* queue[r]: a row of amgix_sys_queue
  lock,     \* lock[d]: the process that holds the lock of d, or Free
  pc,       \* pc[p]: the next await of process p
  job,      \* job[p]: the batch or the delete request p works on
  seen,     \* seen[p][d]: the version of d that p knows to be live
  todo,     \* rows the poller has still to remove or to mark
  dels,     \* delete rows of the poller's batch that it has not started
  err,      \* result of the poller's last call
  acked,    \* history: greatest timestamp whose upsert was answered Ok
  delAt,    \* history: greatest timestamp of a delete that removed d
  syncs, faults, crashes   \* what has been spent of the three bounds

vars == <<store, queue, lock, pc, job, seen, todo, dels, err, acked, delAt,
          syncs, faults, crashes>>

-----------------------------------------------------------------------------
(* Data. *)

Doc    == 1..NDocs
Ts     == 1..MaxTs
Absent == 0
Rows   == 1..NRows
NoRow  == 0
Proc   == Clients \cup {Poller}
Free   == "free"

InQueue == {"queued", "requeued", "failed"}
\* A row that has left the queue remembers, for the properties only, who
\* removed it; "unborn" is a row that has not been added yet.
Removed == {"acked", "superseded", "cancelled", "purged"}
Status  == InQueue \cup Removed \cup {"unborn"}

Row == [doc : Doc, op : {"upsert", "delete"}, ts : Ts, bad : BOOLEAN,
        status : Status, tries : Nat, waiting : BOOLEAN]

\* want[d] is the timestamp to write, or to delete with; Absent if d is not in
\* the job (any more).  src[d] is the queue row the work came from.
Job == [op : {"upsert", "delete"}, want : [Doc -> Ts \cup {Absent}],
        src : [Doc -> Rows \cup {NoRow}], bad : BOOLEAN]

Nothing == [d \in Doc |-> Absent]
NoJob   == [op |-> "upsert", want |-> Nothing, src |-> [d \in Doc |-> NoRow], bad |-> FALSE]
NewRow(d, op, t, bad, s) ==
  [doc |-> d, op |-> op, ts |-> t, bad |-> bad, status |-> s, tries |-> 0, waiting |-> FALSE]

Labels == {"idle", "supersede", "begin", "lock", "verify", "read", "patch", "write",
           "cancel", "erase", "ack", "mark", "deletes"}
Results == {"ok", "validation", "vectorization", "db"}

Present(r) == queue[r].status \in InQueue
Pending(r) == queue[r].status \in {"queued", "requeued"}
Docs(p)    == {d \in Doc : job[p].want[d] # Absent}
Work(p)    == {job[p].src[d] : d \in Doc} \ {NoRow}
Larger(a, b) == IF a < b THEN b ELSE a

Init ==
  /\ store = Nothing
  /\ queue = [r \in Rows |-> NewRow(1, "upsert", 1, FALSE, "unborn")]
  /\ lock = [d \in Doc |-> Free]
  /\ pc = [p \in Proc |-> "idle"]
  /\ job = [p \in Proc |-> NoJob]
  /\ seen = [p \in Proc |-> Nothing]
  /\ todo = {} /\ dels = {} /\ err = "ok"
  /\ acked = Nothing /\ delAt = Nothing
  /\ syncs = 0 /\ faults = 0 /\ crashes = 0

-----------------------------------------------------------------------------
(* Requests. *)

\* add_to_queue: a new row, never tried, younger than all others.
AddToQueue(d, op, t, bad) ==
  \E r \in Rows :
    /\ queue[r].status = "unborn"
    /\ \A s \in Rows : s < r => queue[s].status # "unborn"
    /\ queue' = [queue EXCEPT ![r] = NewRow(d, op, t, bad, "queued")]
    /\ UNCHANGED <<store, lock, pc, job, seen, todo, dels, err, acked, delAt,
                   syncs, faults, crashes>>

\* The asynchronous handlers.  A bulk upload is one row after the other.
\* `bad': the document has metadata of the wrong type, which is looked at only
\* when the row is processed.
UpsertDocument(d, t, bad) == AddToQueue(d, "upsert", t, bad)
DeleteDocument(d, t) == AddToQueue(d, "delete", t, FALSE)

\* The rows S leave the queue; rows that are gone already stay as they are.
Without(S, why) ==
  [r \in Rows |-> IF r \in S /\ Present(r) THEN [queue[r] EXCEPT !.status = why]
                                           ELSE queue[r]]

\* delete_collection_queue: the administrator empties the queue, under no lock.
PurgeQueue ==
  /\ \E r \in Rows : Present(r)
  /\ queue' = Without(Rows, "purged")
  /\ UNCHANGED <<store, lock, pc, job, seen, todo, dels, err, acked, delAt,
                 syncs, faults, crashes>>

\* A client process starts a synchronous request: a micro-batch of upserts
\* with one timestamp per document, or one delete.
StartSync(c, j, label) ==
  /\ pc[c] = "idle"
  /\ syncs < MaxSync
  /\ syncs' = syncs + 1
  /\ job' = [job EXCEPT ![c] = j]
  /\ pc' = [pc EXCEPT ![c] = label]
  /\ UNCHANGED <<store, queue, lock, seen, todo, dels, err, acked, delAt, faults, crashes>>

UpsertSync(c) ==
  \E w \in [Doc -> Ts \cup {Absent}], bad \in BOOLEAN :
    /\ w # Nothing
    /\ StartSync(c, [NoJob EXCEPT !.want = w, !.bad = bad], "begin")

\* A synchronous delete reads no configuration: it starts with the lock.
DeleteSync(c) ==
  \E d \in Doc, t \in Ts :
    StartSync(c, [NoJob EXCEPT !.op = "delete", !.want = [Nothing EXCEPT ![d] = t]], "lock")

-----------------------------------------------------------------------------
(* document_upsert_bulk_internal and document_delete_sync. *)

\* Faulty form: the guards are leaked.
ReleasedNone(p) == lock

\* The locks once p has dropped its guards.
Released(p) == [d \in Doc |-> IF lock[d] = p THEN Free ELSE lock[d]]

\* The call of p returns with result res, having handled the documents of want.
\* The guards are dropped; a request is answered, the poller goes on to settle
\* its rows.
Return(p, res, want) ==
  /\ lock' = Released(p)
  /\ seen' = [seen EXCEPT ![p] = Nothing]
  /\ acked' = IF res = "ok" /\ job[p].op = "upsert"
              THEN [d \in Doc |-> Larger(acked[d], want[d])] ELSE acked
  /\ IF p = Poller
     THEN /\ pc' = [pc EXCEPT ![p] = IF res = "ok" THEN "ack" ELSE "mark"]
          /\ job' = [job EXCEPT ![p].want = want]
          /\ err' = res
          /\ todo' = IF res = "ok" THEN {} ELSE Work(p)
     ELSE /\ pc' = [pc EXCEPT ![p] = "idle"]
          /\ job' = [job EXCEPT ![p] = NoJob]
          /\ UNCHANGED <<err, todo>>
  /\ UNCHANGED <<dels, syncs, crashes>>

Fault == faults < MaxFaults /\ faults' = faults + 1

\* Read the configuration and check the documents against it.  One bad
\* document fails the whole call.
Begin(p) ==
  /\ pc[p] = "begin"
  /\ IF job[p].bad
     THEN Return(p, "validation", job[p].want)
     ELSE /\ pc' = [pc EXCEPT ![p] = "lock"]
          /\ UNCHANGED <<lock, job, seen, todo, dels, err, acked, syncs, crashes>>
  /\ UNCHANGED <<store, queue, delAt, faults>>

\* Faulty form: a lock that is taken is taken again.
LockDocShared(p) ==
  /\ pc[p] = "lock"
  /\ lock' = [d \in Doc |-> IF d \in Docs(p) THEN p ELSE lock[d]]
  /\ pc' = [pc EXCEPT ![p] = IF p = Poller THEN "verify" ELSE "read"]
  /\ UNCHANGED <<store, queue, job, seen, todo, dels, err, acked, delAt, syncs, faults, crashes>>

\* Faulty form: only the lock of the first document is taken.
LockDocFirst(p) ==
  /\ pc[p] = "lock"
  /\ \E d \in Docs(p) :
       /\ lock[d] = Free
       /\ \A e \in Docs(p) : d <= e
       /\ lock' = [lock EXCEPT ![d] = p]
  /\ pc' = [pc EXCEPT ![p] = IF p = Poller THEN "verify" ELSE "read"]
  /\ UNCHANGED <<store, queue, job, seen, todo, dels, err, acked, delAt, syncs, faults, crashes>>

\* Faulty form: the locks are taken in any order.
LockDocUnordered(p) ==
  /\ pc[p] = "lock"
  /\ \E d \in Docs(p) :
       /\ lock[d] = Free
       /\ lock' = [lock EXCEPT ![d] = p]
       /\ pc' = IF \E e \in Docs(p) \ {d} : lock[e] # p THEN pc
                ELSE [pc EXCEPT ![p] = IF p = Poller THEN "verify" ELSE "read"]
  /\ UNCHANGED <<store, queue, job, seen, todo, dels, err, acked, delAt, syncs, faults, crashes>>

\* Take the locks one after the other, in the order of the ids.
LockDoc(p) ==
  /\ pc[p] = "lock"
  /\ \E d \in Docs(p) :
       /\ lock[d] = Free
       /\ \A e \in Docs(p) : (e < d) <=> (lock[e] = p)
       /\ lock' = [lock EXCEPT ![d] = p]
       /\ pc' = IF \E e \in Docs(p) : d < e THEN pc
                ELSE [pc EXCEPT ![p] = IF p = Poller THEN "verify" ELSE "read"]
  /\ UNCHANGED <<store, queue, job, seen, todo, dels, err, acked, delAt, syncs, faults, crashes>>

\* Faulty form: the rows are not looked up again.
VerifyRowsSkipped(p) ==
  /\ pc[p] = "verify"
  /\ pc' = [pc EXCEPT ![p] = "read"]
  /\ UNCHANGED <<store, queue, lock, job, seen, todo, dels, err, acked, delAt,
                 syncs, faults, crashes>>

\* Under the locks, drop the documents whose row is no longer in the queue.
VerifyRows(p) ==
  /\ pc[p] = "verify"
  /\ LET kept == [d \in Doc |-> IF job[p].want[d] # Absent /\ Present(job[p].src[d])
                                THEN job[p].want[d] ELSE Absent]
     IN IF kept = Nothing
        THEN Return(p, "ok", kept)
        ELSE /\ job' = [job EXCEPT ![p].want = kept]
             /\ pc' = [pc EXCEPT ![p] = "read"]
             /\ UNCHANGED <<lock, seen, todo, dels, err, acked, syncs, crashes>>
  /\ UNCHANGED <<store, queue, delAt, faults>>

\* Fetch the live versions.
ReadExisting(p) ==
  /\ pc[p] = "read"
  /\ seen' = [seen EXCEPT ![p] = [d \in Doc |-> IF d \in Docs(p) THEN store[d] ELSE Absent]]
  /\ pc' = [pc EXCEPT ![p] = IF job[p].op = "upsert" THEN "patch" ELSE "cancel"]
  /\ UNCHANGED <<store, queue, lock, job, todo, dels, err, acked, delAt, syncs, faults, crashes>>

\* A call that changes nothing fails: configuration, lock, row or document read.
CallFails(p) ==
  /\ pc[p] \in {"begin", "lock", "verify", "read"}
  /\ Fault
  /\ Return(p, "db", job[p].want)
  /\ UNCHANGED <<store, queue, delAt>>

\* Faulty form: timestamps are not compared.
NewerAll(p) == Docs(p)

\* The documents of p's batch that are newer than the version p has read; the
\* others are stale and are skipped.
Newer(p) == {d \in Docs(p) : seen[p][d] < job[p].want[d]}

\* The store after the versions of S have been written.
Written(p, S) == [d \in Doc |-> IF d \in S THEN job[p].want[d] ELSE store[d]]

\* Documents whose content has not changed get a new payload only: P is the
\* set for which needs_revectorization is false.
PatchDocuments(p) ==
  /\ pc[p] = "patch"
  /\ \E P \in SUBSET {d \in Newer(p) : seen[p][d] # Absent} :
       /\ store' = Written(p, P)
       /\ IF P = Newer(p)
          THEN Return(p, "ok", job[p].want)
          ELSE /\ seen' = [seen EXCEPT ![p] = [d \in Doc |-> IF d \in P THEN job[p].want[d]
                                                                       ELSE seen[p][d]]]
               /\ pc' = [pc EXCEPT ![p] = "write"]
               /\ UNCHANGED <<lock, job, todo, dels, err, acked, syncs, crashes>>
  /\ UNCHANGED <<queue, delAt, faults>>

\* The batch of payload updates fails after any part of it has been applied.
PatchFails(p) ==
  /\ pc[p] = "patch"
  /\ Fault
  /\ \E P \in SUBSET {d \in Newer(p) : seen[p][d] # Absent} :
       P # {} /\ (\E A \in SUBSET P : store' = Written(p, A))
  /\ Return(p, "db", job[p].want)
  /\ UNCHANGED <<queue, delAt>>

\* Vectorize the rest and write it with one add_documents.
AddDocuments(p) ==
  /\ pc[p] = "write"
  /\ store' = Written(p, Newer(p))
  /\ Return(p, "ok", job[p].want)
  /\ UNCHANGED <<queue, delAt, faults>>

\* The statistics read or the model fails, or the last attempt at the write
\* does, with or without having taken effect.
AddDocumentsFails(p) ==
  /\ pc[p] = "write"
  /\ Fault
  /\ \/ store' = store /\ Return(p, "vectorization", job[p].want)
     \/ store' \in {store, Written(p, Newer(p))} /\ Return(p, "db", job[p].want)
  /\ UNCHANGED <<queue, delAt>>

\* document_delete_sync: the queued upserts of d that the delete covers.
Covered(d, t) ==
  {r \in Rows : queue[r].op = "upsert" /\ queue[r].doc = d /\ queue[r].ts <= t}

\* Remove the covered upserts from the queue, whether or not d is live; go on
\* only if d is live and older than the request.
CancelUpserts(p) ==
  /\ pc[p] = "cancel"
  /\ \E d \in Docs(p) :
       /\ queue' = Without(Covered(d, job[p].want[d]), "cancelled")
       /\ IF seen[p][d] = Absent \/ job[p].want[d] <= seen[p][d]
          THEN Return(p, "ok", job[p].want)
          ELSE /\ pc' = [pc EXCEPT ![p] = "erase"]
               /\ UNCHANGED <<lock, job, seen, todo, dels, err, acked, syncs, crashes>>
  /\ UNCHANGED <<store, delAt, faults>>

CancelFails(p) ==
  /\ pc[p] = "cancel"
  /\ Fault
  /\ \E d \in Docs(p) : queue' \in {queue, Without(Covered(d, job[p].want[d]), "cancelled")}
  /\ Return(p, "db", job[p].want)
  /\ UNCHANGED <<store, delAt>>

\* delete_document: remove the point, if it is there.
Erased(d, t) ==
  /\ store' = [store EXCEPT ![d] = Absent]
  /\ delAt' = [delAt EXCEPT ![d] = IF store[d] = Absent THEN delAt[d] ELSE Larger(delAt[d], t)]

EraseDocument(p) ==
  /\ pc[p] = "erase"
  /\ \E d \in Docs(p) : Erased(d, job[p].want[d])
  /\ Return(p, "ok", job[p].want)
  /\ UNCHANGED <<queue, faults>>

EraseFails(p) ==
  /\ pc[p] = "erase"
  /\ Fault
  /\ \/ UNCHANGED <<store, delAt>>
     \/ \E d \in Docs(p) : Erased(d, job[p].want[d])
  /\ Return(p, "db", job[p].want)
  /\ UNCHANGED queue

Call(p) ==
  \/ Begin(p) \/ LockDoc(p) \/ VerifyRows(p) \/ ReadExisting(p) \/ CallFails(p)
  \/ PatchDocuments(p) \/ PatchFails(p) \/ AddDocuments(p) \/ AddDocumentsFails(p)
  \/ CancelUpserts(p) \/ CancelFails(p) \/ EraseDocument(p) \/ EraseFails(p)

-----------------------------------------------------------------------------
(* The queue poller. *)

\* Faulty form: a requeued row does not count as pending.
RetriesQueuedOnly == {r \in Rows : queue[r].status = "queued" /\ queue[r].tries > 0}

\* claim_pending_queue: rows that were never tried first, oldest first, then
\* the retries, up to the limit.
Fresh   == {r \in Rows : Pending(r) /\ queue[r].tries = 0}
Retries == {r \in Rows : Pending(r) /\ queue[r].tries > 0}
Claimed ==
  {r \in Fresh : Cardinality({s \in Fresh : s < r}) < BatchLimit}
  \cup {r \in Retries : Cardinality(Fresh) + Cardinality({s \in Retries : s < r}) < BatchLimit}

\* backoff_elapsed
Eligible == {r \in Claimed : ~queue[r].waiting}

\* r comes after s when the upserts of a document are sorted by timestamp; the
\* sort is stable, so equal timestamps keep the order of the claim.
ClaimedAfter(r, s) ==
  \/ queue[r].tries > 0 /\ queue[s].tries = 0
  \/ (queue[r].tries > 0 <=> queue[s].tries > 0) /\ s < r

\* Faulty form: sorted by descending timestamp, so that the oldest wins.
SortsAfterReversed(r, s) ==
  \/ queue[r].ts < queue[s].ts
  \/ queue[s].ts = queue[r].ts /\ ClaimedAfter(r, s)

SortsAfter(r, s) ==
  \/ queue[s].ts < queue[r].ts
  \/ queue[s].ts = queue[r].ts /\ ClaimedAfter(r, s)

UpsertsOf(d) == {r \in Eligible : queue[r].op = "upsert" /\ queue[r].doc = d}
Winner(r, d) == r \in UpsertsOf(d) /\ \A s \in UpsertsOf(d) \ {r} : SortsAfter(r, s)

\* process_batch: the newest upsert of every document makes the batch, the
\* others are superseded; the deletes follow one by one.
ClaimBatch ==
  /\ pc[Poller] = "idle"
  /\ Eligible # {}
  /\ \E src \in [Doc -> Rows \cup {NoRow}] :
     LET wins == {src[d] : d \in Doc} \ {NoRow}
         old  == {r \in Eligible : queue[r].op = "upsert"} \ wins
     IN /\ \A d \in Doc : IF UpsertsOf(d) = {} THEN src[d] = NoRow ELSE Winner(src[d], d)
        /\ job' = [job EXCEPT ![Poller] =
                     [op |-> "upsert", src |-> src,
                      want |-> [d \in Doc |-> IF src[d] = NoRow THEN Absent ELSE queue[src[d]].ts],
                      bad |-> \E r \in wins : queue[r].bad]]
        /\ todo' = old
        /\ dels' = {r \in Eligible : queue[r].op = "delete"}
        /\ pc' = [pc EXCEPT ![Poller] = IF wins = {} THEN "deletes"
                                        ELSE IF old = {} THEN "begin" ELSE "supersede"]
  /\ UNCHANGED <<store, queue, lock, seen, err, acked, delAt, syncs, faults, crashes>>

\* Nothing to do: the poller sleeps and looks again.
PollIdle ==
  /\ pc[Poller] = "idle"
  /\ Eligible = {}
  /\ UNCHANGED vars

\* delete_from_queue(S) on behalf of the poller.  A failure is only logged: the
\* rows may or may not be gone.
RemoveRows(S, why) ==
  \/ queue' = Without(S, why) /\ UNCHANGED faults
  \/ queue' = queue /\ Fault

\* Delete the superseded rows, one call each.
DropSuperseded ==
  /\ pc[Poller] = "supersede"
  /\ \E r \in todo :
       /\ RemoveRows({r}, "superseded")
       /\ todo' = todo \ {r}
       /\ pc' = IF todo = {r} THEN [pc EXCEPT ![Poller] = "begin"] ELSE pc
  /\ UNCHANGED <<store, lock, job, seen, dels, err, acked, delAt, syncs, crashes>>

\* The call succeeded: delete the rows it handled, but not the drained ones.
AckRows ==
  /\ pc[Poller] = "ack"
  /\ RemoveRows({job[Poller].src[d] : d \in Docs(Poller)}, "acked")
  /\ job' = [job EXCEPT ![Poller] = NoJob]
  /\ pc' = [pc EXCEPT ![Poller] = "deletes"]
  /\ UNCHANGED <<store, lock, seen, todo, dels, err, acked, delAt, syncs, crashes>>

\* mark_outcome: the status and the delay of a row whose call failed with e.
Marked(row, e) ==
  LET n     == row.tries + 1
      again == \/ e = "vectorization" /\ n < MaxVecTries
               \/ e = "db" /\ n < MaxDbTries
  IN [row EXCEPT !.status = IF again THEN "requeued" ELSE "failed",
                 !.tries = n, !.waiting = TRUE]

\* Faulty form: the row is written whole, so that a deleted one comes back.
MarkOutcomeRecreates ==
  /\ pc[Poller] = "mark"
  /\ \E r \in todo :
       /\ queue' = [queue EXCEPT ![r] = Marked(queue[r], err)]
       /\ todo' = todo \ {r}
       /\ pc' = IF todo = {r} THEN [pc EXCEPT ![Poller] = "deletes"] ELSE pc
  /\ UNCHANGED <<store, lock, job, seen, dels, err, acked, delAt, syncs, faults, crashes>>

\* The call failed: mark its rows, one update each.  An update of a row that
\* has been deleted in the meantime changes nothing, and a failed one is only
\* logged.
MarkOutcome ==
  /\ pc[Poller] = "mark"
  /\ \E r \in todo :
       /\ \/ /\ queue' = IF Present(r) THEN [queue EXCEPT ![r] = Marked(queue[r], err)] ELSE queue
             /\ UNCHANGED faults
          \/ queue' = queue /\ Fault
       /\ todo' = todo \ {r}
       /\ IF todo = {r}
          THEN pc' = [pc EXCEPT ![Poller] = "deletes"] /\ job' = [job EXCEPT ![Poller] = NoJob]
          ELSE UNCHANGED <<pc, job>>
  /\ UNCHANGED <<store, lock, seen, dels, err, acked, delAt, syncs, crashes>>

\* Start the next delete of the batch, or look for new work.
NextDelete ==
  /\ pc[Poller] = "deletes"
  /\ \/ /\ dels = {}
        /\ pc' = [pc EXCEPT ![Poller] = "idle"]
        /\ UNCHANGED <<job, dels>>
     \/ \E r \in dels :
          /\ job' = [job EXCEPT ![Poller] =
                       [NoJob EXCEPT !.op = "delete",
                                     !.want[queue[r].doc] = queue[r].ts,
                                     !.src[queue[r].doc] = r]]
          /\ dels' = dels \ {r}
          /\ pc' = [pc EXCEPT ![Poller] = "begin"]
  /\ UNCHANGED <<store, queue, lock, seen, todo, err, acked, delAt, syncs, faults, crashes>>

\* retry_delay_secs have passed since the row was marked.
BackoffElapses(r) ==
  /\ queue[r].waiting
  /\ queue' = [queue EXCEPT ![r].waiting = FALSE]
  /\ UNCHANGED <<store, lock, pc, job, seen, todo, dels, err, acked, delAt,
                 syncs, faults, crashes>>

Poll == ClaimBatch \/ DropSuperseded \/ AckRows \/ MarkOutcome \/ NextDelete

\* The process dies and is started again: collection and queue survive.
Crash ==
  /\ crashes < MaxCrashes
  /\ \E p \in Proc : pc[p] # "idle"
  /\ crashes' = crashes + 1
  /\ lock' = [d \in Doc |-> Free]
  /\ pc' = [p \in Proc |-> "idle"]
  /\ job' = [p \in Proc |-> NoJob]
  /\ seen' = [p \in Proc |-> Nothing]
  /\ todo' = {} /\ dels' = {} /\ err' = "ok"
  /\ UNCHANGED <<store, queue, acked, delAt, syncs, faults>>

Next ==
  \/ \E d \in Doc, t \in Ts, bad \in BOOLEAN : UpsertDocument(d, t, bad)
  \/ \E d \in Doc, t \in Ts : DeleteDocument(d, t)
  \/ PurgeQueue
  \/ \E c \in Clients : UpsertSync(c) \/ DeleteSync(c)
  \/ \E p \in Proc : Call(p)
  \/ Poll
  \/ PollIdle
  \/ \E r \in Rows : BackoffElapses(r)
  \/ Crash

Spec == Init /\ [][Next]_vars

\* The runtime polls every task that can go on, and time passes.
FairSpec ==
  /\ Spec
  /\ \A p \in Proc : WF_vars(Call(p))
  /\ WF_vars(Poll)
  /\ \A r \in Rows : WF_vars(BackoffElapses(r))

-----------------------------------------------------------------------------
(* Properties. *)

\* The variables have their types; nothing else is said here.
TypeOK ==
  /\ store \in [Doc -> Ts \cup {Absent}]
  /\ queue \in [Rows -> Row]
  /\ lock \in [Doc -> Proc \cup {Free}]
  /\ pc \in [Proc -> Labels]
  /\ job \in [Proc -> Job]
  /\ seen \in [Proc -> [Doc -> Ts \cup {Absent}]]
  /\ todo \subseteq Rows
  /\ dels \subseteq Rows
  /\ err \in Results
  /\ acked \in [Doc -> Ts \cup {Absent}]
  /\ delAt \in [Doc -> Ts \cup {Absent}]
  /\ syncs \in Nat /\ faults \in Nat /\ crashes \in Nat

\* An upsert that was answered Ok (applied, or skipped as stale) is reflected
\* in the collection until a newer delete removes the document: retries,
\* restarts and late writers never put an older version in its place.
AckedIsKept == \A d \in Doc : acked[d] <= store[d] \/ acked[d] < delAt[d]

LWW == INSTANCE LwwStore

\* The write path implements one last-writer-wins register per document: a
\* version is only replaced by a newer one and removed by a newer delete, and
\* no answer is given for a version the collection has not reached.
ImplementsLWW == LWW!Spec

\* Whoever waits for a lock whose holder waits too, waits for a smaller id than
\* the holder does: chains of waiting calls only go up, so they never close.
NextDoc(p, d) ==
  /\ pc[p] = "lock" /\ d \in Docs(p) /\ lock[d] # p
  /\ \A e \in Docs(p) : e < d => lock[e] = p
WaitsUpward ==
  \A p, q \in Proc, d, e \in Doc : NextDoc(p, d) /\ lock[d] = q /\ NextDoc(q, e) => d < e

\* What a call has read under its locks is still what is stored when it writes
\* or erases: nobody else touches a document between the two awaits.
SeenIsLive ==
  \A p \in Proc : pc[p] \in {"patch", "write", "cancel", "erase"} =>
    \A d \in Docs(p) : seen[p][d] = store[d]

\* An upsert that a delete has cancelled in the queue is never about to be
\* written by the poller that had claimed it before: the re-verification under
\* the lock keeps a drained row from bringing the document back.
NoResurrection ==
  pc[Poller] \in {"read", "patch", "write"} =>
    \A d \in Docs(Poller) : queue[job[Poller].src[d]].status # "cancelled"

\* No upsert leaves the queue without a trace: it was answered, a delete that
\* covers it or the administrator removed it, or it gave way to an upsert of
\* the same document that is as new and still accounted for.
Settled(r) ==
  \/ Present(r)
  \/ queue[r].status \in {"cancelled", "purged"}
  \/ queue[r].status = "acked" /\ queue[r].ts <= acked[queue[r].doc]
NoUpsertLost ==
  \A r \in Rows : queue[r].op = "upsert" /\ queue[r].status # "unborn" =>
    \E s \in Rows : /\ queue[s].op = "upsert" /\ queue[s].doc = queue[r].doc
                    /\ queue[r].ts <= queue[s].ts
                    /\ (queue[r].status # "superseded" => s = r)
                    /\ Settled(s)

\* A row that was given up (failed) or removed never becomes work again, and
\* its number of tries never goes down.
SettledStays ==
  [][\A r \in Rows :
       /\ queue[r].status \in Removed \cup {"failed"} =>
            queue'[r].status \in Removed \cup {"failed"}
       /\ queue[r].status # "unborn" => queue[r].tries <= queue'[r].tries]_vars

\* A delete that is answered Ok leaves the document absent or at least as new
\* as the request, however the answer was reached.
DeleteHonoured ==
  [][\A p \in Proc, d \in Doc :
       job[p].op = "delete" /\ job[p].want[d] # Absent
       /\ (EraseDocument(p) \/ (CancelUpserts(p) /\ pc'[p] # "erase")) =>
          store'[d] = Absent \/ job[p].want[d] <= store'[d]]_vars

\* Every queued row is settled in the end: the poller removes it or gives up.
EveryRowSettles == \A r \in Rows : Pending(r) ~> ~Pending(r)

\* Every synchronous request is answered: lock waits end.
EveryRequestAnswered == \A c \in Clients : pc[c] # "idle" ~> pc[c] = "idle"

-----------------------------------------------------------------------------
(* What makes the properties inductive. *)

Working == {"verify", "read", "patch", "write", "cancel", "erase"}

\* Whoever holds a lock is inside a call; from the re-verification on it holds
\* the locks of all its documents, before that those of the smallest ids.
LockInv ==
  /\ \A d \in Doc : lock[d] # Free => pc[lock[d]] \in Working \cup {"lock"}
  /\ \A p \in Proc : pc[p] \in Working => \A d \in Docs(p) : lock[d] = p
  /\ \A p \in Proc : pc[p] = "lock" =>
       \A d \in Doc : lock[d] = p =>
         d \in Docs(p) /\ \A e \in Docs(p) : e < d => lock[e] = p

\* A call is at a step of its own kind; a delete is of one document, and goes on
\* to erase only what is live and older than the request.
CallInv ==
  \A p \in Proc :
    /\ pc[p] \in {"patch", "write"} => job[p].op = "upsert"
    /\ pc[p] \in {"cancel", "erase"} => job[p].op = "delete"
    /\ job[p].op = "delete" => \A d, e \in Docs(p) : d = e
    /\ pc[p] = "erase" =>
         \A d \in Docs(p) : seen[p][d] # Absent /\ seen[p][d] < job[p].want[d]

\* The poller's job says what its rows say.
JobInv ==
  /\ \A d \in Docs(Poller) :
       /\ job[Poller].src[d] \in Rows
       /\ queue[job[Poller].src[d]].status # "unborn"
       /\ queue[job[Poller].src[d]].doc = d
       /\ queue[job[Poller].src[d]].op = job[Poller].op
       /\ queue[job[Poller].src[d]].ts = job[Poller].want[d]
  /\ pc[Poller] = "ack" /\ job[Poller].op = "upsert" =>
       \A d \in Docs(Poller) : job[Poller].want[d] <= acked[d]
  /\ \A r \in dels : queue[r].op = "delete" /\ queue[r].status # "unborn"

\* A row that is about to be dropped as superseded gives way to one that is
\* not, and that only a delete or the administrator can have removed since.
SupersedeInv ==
  pc[Poller] = "supersede" =>
    \A r \in todo :
      /\ queue[r].status # "unborn"
      /\ \E s \in Rows \ todo :
           /\ queue[s].op = "upsert" /\ queue[s].doc = queue[r].doc
           /\ queue[r].ts <= queue[s].ts
           /\ queue[s].status \in InQueue \cup {"cancelled", "purged"}

\* No row that the poller may still mark has been given up already.
WorkInv ==
  /\ \A r \in Work(Poller) : queue[r].status # "unborn"
  /\ dels \cap Work(Poller) = {}
  /\ \A r \in dels : queue[r].status # "failed"
  /\ IF pc[Poller] = "mark"
     THEN todo \subseteq Work(Poller) /\ \A r \in todo : queue[r].status # "failed"
     ELSE \A r \in Work(Poller) : queue[r].status # "failed"

IndInv == WorkInv /\ LockInv /\ CallInv /\ JobInv /\ SupersedeInv

=============================================================================
