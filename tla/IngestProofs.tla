---------------------------- MODULE IngestProofs ----------------------------
(***************************************************************************)
(* Proofs about the write path, for every number of documents, timestamps, *)
(* rows and concurrent requests, and however often calls fail and the      *)
(* process restarts: the types of Ingest and the shape of its steps, why   *)
(* document locks do not deadlock, that nobody interferes between a call's *)
(* read and its write, so that versions only move as in LwwStore, and then *)
(* the rows of the queue: how they change, what the poller knows of those  *)
(* it works on, that it writes none that a delete has cancelled, that none *)
(* is lost, and that none that was settled comes back.                     *)
(***************************************************************************)
EXTENDS Ingest, TLAPS

Versions == [Doc -> Ts \cup {Absent}]

-----------------------------------------------------------------------------
(* Types. *)

\* Updating one field keeps a job, or a row, well formed.
LEMMA JobWant ==
  ASSUME NEW j \in Job, NEW w \in Versions
  PROVE  [j EXCEPT !.want = w] \in Job
BY Zenon DEF Job, Versions

\* A queue row stays a row when its status changes (the row's one mutable field
\* besides tries and the delay).
LEMMA RowStatus ==
  ASSUME NEW r \in Row, NEW st \in Status
  PROVE  [r EXCEPT !.status = st] \in Row
BY SMTT(60), ZenonT(60) DEF Row

\* What mark_outcome makes of a row is a row.
LEMMA MarkedType ==
  ASSUME NEW row \in Row, NEW e
  PROVE  /\ Marked(row, e) \in Row
         /\ Marked(row, e).doc = row.doc /\ Marked(row, e).op = row.op
         /\ Marked(row, e).ts = row.ts /\ Marked(row, e).tries = row.tries + 1
         /\ Marked(row, e).status \in {"requeued", "failed"}
<1>1. ASSUME NEW st \in Status, NEW n \in Nat
      PROVE  [row EXCEPT !.status = st, !.tries = n, !.waiting = TRUE] \in Row
  BY Zenon DEF Row
<1>2. row.tries + 1 \in Nat
  BY DEF Row
<1>3. PICK st \in {"requeued", "failed"} :
        Marked(row, e) = [row EXCEPT !.status = st, !.tries = row.tries + 1, !.waiting = TRUE]
  BY Zenon DEF Marked
<1>4. st \in Status
  BY Zenon DEF Status, InQueue
<1> QED
  BY <1>1, <1>2, <1>3, <1>4, ZenonT(60) DEF Row

\* The empty job and the empty batch have their types.
LEMMA ConstantTypes ==
  /\ Nothing \in Versions
  /\ NoJob \in Job
  /\ NewRow(1, "upsert", 1, FALSE, "unborn") \in Row
<1>1. Nothing \in Versions
  BY Zenon DEF Nothing, Versions
<1>2. NoJob \in Job
  BY <1>1, Zenon DEF NoJob, Job, Versions
<1>3. 1 \in Doc /\ 1 \in Ts /\ 0 \in Nat
  BY IngestAssumption DEF Doc, Ts
<1>4. NewRow(1, "upsert", 1, FALSE, "unborn") \in Row
  BY <1>3, Zenon DEF NewRow, Row, Status
<1> QED
  BY <1>1, <1>2, <1>4, Zenon

\* The parts of the state that the end of a call sets keep their types.
LEMMA ReturnType ==
  ASSUME TypeOK, NEW p \in Proc, NEW res \in Results, NEW want \in Versions,
         Return(p, res, want)
  PROVE  /\ lock' \in [Doc -> Proc \cup {Free}]
         /\ pc' \in [Proc -> Labels]
         /\ job' \in [Proc -> Job]
         /\ seen' \in [Proc -> Versions]
         /\ todo' \subseteq Rows
         /\ dels' \subseteq Rows
         /\ err' \in Results
         /\ acked' \in Versions
         /\ syncs' \in Nat /\ crashes' \in Nat
<1>1. Nothing \in Versions /\ NoJob \in Job
  BY ConstantTypes, Zenon
<1>3. lock' \in [Doc -> Proc \cup {Free}]
  BY Zenon DEF Return, Released, TypeOK
<1>4. seen' \in [Proc -> Versions]
  BY <1>1, Zenon DEF Return, TypeOK, Versions
<1>5. acked' \in Versions
  BY Zenon DEF Return, TypeOK, Versions, Larger
<1>6. todo' \subseteq Rows
  BY DEF Return, TypeOK, Work, Job
<1>7. job' \in [Proc -> Job]
  <2>1. CASE p = Poller
    <3>1. job' = [job EXCEPT ![p] = [job[p] EXCEPT !.want = want]]
      BY <2>1, Zenon DEF Return
    <3> QED BY <3>1, JobWant, Zenon DEF TypeOK
  <2>2. CASE p # Poller
    BY <2>2, <1>1, Zenon DEF Return, TypeOK
  <2> QED BY <2>1, <2>2, Zenon
<1>8. pc' \in [Proc -> Labels]
  BY Zenon DEF Return, TypeOK, Labels
<1> QED
  BY <1>3, <1>4, <1>5, <1>6, <1>7, <1>8, Zenon DEF Return, TypeOK

\* Removing rows keeps the queue well formed.
LEMMA WithoutType ==
  ASSUME TypeOK, NEW S, NEW why \in Removed
  PROVE  Without(S, why) \in [Rows -> Row]
<1>1. ASSUME NEW r \in Rows PROVE [queue[r] EXCEPT !.status = why] \in Row
  BY RowStatus, Zenon DEF TypeOK, Status
<1> QED
  BY <1>1, Zenon DEF TypeOK, Without

\* Writing the versions of a job keeps the store well formed.
LEMMA WrittenType ==
  ASSUME TypeOK, NEW p \in Proc, NEW S
  PROVE  Written(p, S) \in Versions
BY DEF TypeOK, Written, Versions, Job

\* The initial state is well typed.
LEMMA TypeInit == Init => TypeOK
<1> SUFFICES ASSUME Init PROVE TypeOK
  BY Zenon
<1>1. queue \in [Rows -> Row] /\ job \in [Proc -> Job] /\ seen \in [Proc -> Versions]
  BY ConstantTypes, Zenon DEF Init
<1>2. store \in Versions /\ acked \in Versions /\ delAt \in Versions
  BY ConstantTypes, Zenon DEF Init
<1>3. lock \in [Doc -> Proc \cup {Free}] /\ pc \in [Proc -> Labels]
  BY Zenon DEF Init, Labels
<1> QED
  BY <1>1, <1>2, <1>3, Zenon DEF Init, TypeOK, Versions, Results

\* A step of a call (upsert or delete) keeps the types.
LEMMA CallType ==
  ASSUME TypeOK, NEW p \in Proc, Call(p)
  PROVE  TypeOK'
<1> USE DEF Results
<1>0. /\ job[p].want \in Versions
      /\ faults' \in Nat
  <2>1. faults' \in {faults, faults + 1}
    BY Zenon DEF Call, Begin, LockDoc, VerifyRows, ReadExisting, CallFails, PatchDocuments,
           PatchFails, AddDocuments, AddDocumentsFails, CancelUpserts, CancelFails,
           EraseDocument, EraseFails, Fault
  <2> QED BY <2>1, SMTT(60) DEF TypeOK, Job, Versions
<1>1. CASE Begin(p)
  <2>1. CASE job[p].bad
    BY <1>0, <1>1, <2>1, ReturnType, Zenon DEF Begin, TypeOK, Versions
  <2>2. CASE ~job[p].bad
    BY <1>1, <2>2, Zenon DEF Begin, TypeOK, Labels
  <2> QED BY <2>1, <2>2, Zenon
<1>2. CASE LockDoc(p)
  BY <1>2 DEF LockDoc, TypeOK, Labels, Docs
<1>3. CASE VerifyRows(p)
  <2> DEFINE kept == [d \in Doc |-> IF job[p].want[d] # Absent /\ Present(job[p].src[d])
                                    THEN job[p].want[d] ELSE Absent]
  <2>1. kept \in Versions
    BY <1>0, Zenon DEF Versions
  <2> HIDE DEF kept
  <2>2. CASE kept = Nothing
    <3>1. Return(p, "ok", kept)
      BY <1>3, <2>2, Zenon DEF VerifyRows, kept
    <3> QED
      BY <1>3, <3>1, <2>1, ReturnType, Zenon DEF VerifyRows, TypeOK, Versions
  <2>3. CASE kept # Nothing
    <3>1. job' = [job EXCEPT ![p] = [job[p] EXCEPT !.want = kept]]
      BY <1>3, <2>3, Zenon DEF VerifyRows, kept
    <3>2. job' \in [Proc -> Job]
      BY <3>1, <2>1, JobWant, Zenon DEF TypeOK
    <3>3. /\ pc' = [pc EXCEPT ![p] = "read"]
          /\ UNCHANGED <<store, queue, delAt, faults, lock, seen, todo, dels, err, acked, syncs, crashes>>
      BY <1>3, <2>3, Zenon DEF VerifyRows, kept
    <3> QED
      BY <3>2, <3>3, Zenon DEF TypeOK, Labels
  <2> QED BY <2>2, <2>3, Zenon
<1>4. CASE ReadExisting(p)
  BY <1>4, Zenon DEF ReadExisting, TypeOK, Labels
<1>5. CASE CallFails(p)
  BY <1>0, <1>5, ReturnType, Zenon DEF CallFails, TypeOK, Versions
<1>6. CASE PatchDocuments(p)
  <2> PICK P \in SUBSET {d \in Newer(p) : seen[p][d] # Absent} :
         /\ store' = Written(p, P)
         /\ IF P = Newer(p)
            THEN Return(p, "ok", job[p].want)
            ELSE /\ seen' = [seen EXCEPT ![p] = [d \in Doc |-> IF d \in P THEN job[p].want[d]
                                                                         ELSE seen[p][d]]]
                 /\ pc' = [pc EXCEPT ![p] = "write"]
                 /\ UNCHANGED <<lock, job, todo, dels, err, acked, syncs, crashes>>
    BY <1>6, Zenon DEF PatchDocuments
  <2>1. store' \in Versions
    BY WrittenType, Zenon
  <2>2. UNCHANGED <<queue, delAt, faults>>
    BY <1>6, Zenon DEF PatchDocuments
  <2>3. CASE P = Newer(p)
    BY <1>0, <2>1, <2>2, <2>3, ReturnType, Zenon DEF TypeOK, Versions
  <2>4. CASE P # Newer(p)
    <3>1. [d \in Doc |-> IF d \in P THEN job[p].want[d] ELSE seen[p][d]] \in Versions
      BY <1>0 DEF TypeOK, Versions
    <3>2. seen' \in [Proc -> Versions]
      BY <2>4, <3>1, Zenon DEF TypeOK, Versions
    <3> QED BY <2>1, <2>2, <2>4, <3>2, Zenon DEF TypeOK, Versions, Labels
  <2> QED BY <2>3, <2>4, Zenon
<1>7. CASE PatchFails(p)
  <2>1. store' \in Versions
    BY <1>7, WrittenType, Zenon DEF PatchFails
  <2> QED
    BY <1>0, <1>7, <2>1, ReturnType, Zenon DEF PatchFails, TypeOK, Versions
<1>8. CASE AddDocuments(p)
  BY <1>0, <1>8, WrittenType, ReturnType, Zenon DEF AddDocuments, TypeOK, Versions
<1>9. CASE AddDocumentsFails(p)
  <2>1. store' \in Versions
    BY <1>9, WrittenType DEF AddDocumentsFails, TypeOK, Versions
  <2>2. PICK res \in Results : Return(p, res, job[p].want)
    BY <1>9, Zenon DEF AddDocumentsFails
  <2> QED
    BY <1>0, <1>9, <2>1, <2>2, ReturnType, Zenon DEF AddDocumentsFails, TypeOK, Versions
<1>10. CASE CancelUpserts(p)
  <2>1. queue' \in [Rows -> Row]
    BY <1>10, WithoutType, Zenon DEF CancelUpserts, Removed
  <2>2. \/ Return(p, "ok", job[p].want)
        \/ /\ pc' = [pc EXCEPT ![p] = "erase"]
           /\ UNCHANGED <<lock, job, seen, todo, dels, err, acked, syncs, crashes>>
    BY <1>10, Zenon DEF CancelUpserts
  <2>3. UNCHANGED <<store, delAt, faults>>
    BY <1>10, Zenon DEF CancelUpserts
  <2>4. CASE Return(p, "ok", job[p].want)
    BY <1>0, <2>1, <2>3, <2>4, ReturnType, Zenon DEF TypeOK, Versions
  <2>5. CASE /\ pc' = [pc EXCEPT ![p] = "erase"]
             /\ UNCHANGED <<lock, job, seen, todo, dels, err, acked, syncs, crashes>>
    BY <2>1, <2>3, <2>5, Zenon DEF TypeOK, Labels
  <2> QED BY <2>2, <2>4, <2>5, Zenon
<1>11. CASE CancelFails(p)
  <2>1. queue' \in [Rows -> Row]
    BY <1>11, WithoutType, SMTT(60), ZenonT(60) DEF CancelFails, Removed, TypeOK
  <2> QED
    BY <1>0, <1>11, <2>1, ReturnType, Zenon DEF CancelFails, TypeOK, Versions
<1>12. CASE EraseDocument(p) \/ EraseFails(p)
  <2>1. ASSUME NEW d \in Docs(p), Erased(d, job[p].want[d])
        PROVE  store' \in Versions /\ delAt' \in Versions
    BY <1>0, <2>1, Zenon DEF Erased, Docs, TypeOK, Versions, Larger
  <2>2. store' \in Versions /\ delAt' \in Versions
    BY <1>12, <2>1, Zenon DEF EraseDocument, EraseFails, TypeOK, Versions
  <2>3. PICK res \in Results : Return(p, res, job[p].want)
    BY <1>12, Zenon DEF EraseDocument, EraseFails
  <2>4. UNCHANGED queue
    BY <1>12, Zenon DEF EraseDocument, EraseFails
  <2> QED
    BY <1>0, <2>2, <2>3, <2>4, ReturnType, Zenon DEF TypeOK, Versions
<1> QED
  BY <1>1, <1>2, <1>3, <1>4, <1>5, <1>6, <1>7, <1>8, <1>9, <1>10, <1>11, <1>12, Zenon DEF Call

\* A step of the poller keeps the types.
LEMMA PollType ==
  ASSUME TypeOK, Poll
  PROVE  TypeOK'
<1> USE DEF Proc
<1>0. ASSUME NEW S, NEW why \in Removed, RemoveRows(S, why)
      PROVE  queue' \in [Rows -> Row] /\ faults' \in Nat
  BY <1>0, WithoutType DEF RemoveRows, Fault, TypeOK
<1>1. CASE ClaimBatch
  <2>1. PICK src \in [Doc -> Rows \cup {NoRow}] :
          /\ job' = [job EXCEPT ![Poller] =
                       [op |-> "upsert", src |-> src,
                        want |-> [d \in Doc |-> IF src[d] = NoRow THEN Absent ELSE queue[src[d]].ts],
                        bad |-> \E r \in {src[d] : d \in Doc} \ {NoRow} : queue[r].bad]]
          /\ todo' \subseteq Eligible
          /\ dels' \subseteq Eligible
          /\ pc' \in {[pc EXCEPT ![Poller] = l] : l \in {"deletes", "begin", "supersede"}}
    BY <1>1, Zenon DEF ClaimBatch
  <2>2. [d \in Doc |-> IF src[d] = NoRow THEN Absent ELSE queue[src[d]].ts] \in Versions
    BY Zenon DEF TypeOK, Row, Versions
  <2>3. job' \in [Proc -> Job]
    <3> DEFINE bad  == \E r \in {src[d] : d \in Doc} \ {NoRow} : queue[r].bad
               want == [d \in Doc |-> IF src[d] = NoRow THEN Absent ELSE queue[src[d]].ts]
    <3>1. bad \in BOOLEAN
      BY Zenon
    <3>2. want \in Versions
      BY <2>2, Zenon
    <3>3. job' = [job EXCEPT ![Poller] = [op |-> "upsert", src |-> src, want |-> want, bad |-> bad]]
      BY <2>1, Zenon
    <3> HIDE DEF bad, want
    <3>4. [op |-> "upsert", src |-> src, want |-> want, bad |-> bad] \in Job
      BY <3>1, <3>2, Zenon DEF Job, Versions
    <3> QED
      BY <3>3, <3>4, Zenon DEF TypeOK
  <2>4. Eligible \subseteq Rows
    BY Zenon DEF Eligible, Claimed, Fresh, Retries
  <2> QED
    BY <1>1, <2>1, <2>3, <2>4, Zenon DEF ClaimBatch, TypeOK, Labels
<1>2. CASE DropSuperseded
  <2>1. PICK r \in todo : /\ RemoveRows({r}, "superseded")
                          /\ todo' = todo \ {r}
                          /\ pc' = IF todo = {r} THEN [pc EXCEPT ![Poller] = "begin"] ELSE pc
    BY <1>2, Zenon DEF DropSuperseded
  <2>2. queue' \in [Rows -> Row] /\ faults' \in Nat
    BY <2>1, <1>0, Zenon DEF Removed
  <2> QED
    BY <1>2, <2>1, <2>2, Zenon DEF DropSuperseded, TypeOK, Labels
<1>3. CASE AckRows
  <2>1. queue' \in [Rows -> Row] /\ faults' \in Nat
    BY <1>3, <1>0, Zenon DEF AckRows, Removed
  <2>2. job' \in [Proc -> Job]
    BY <1>3, ConstantTypes, Zenon DEF AckRows, TypeOK
  <2> QED
    BY <1>3, <2>1, <2>2, Zenon DEF AckRows, TypeOK, Labels
<1>4. CASE MarkOutcome
  <2>1. PICK r \in todo :
          /\ \/ queue' = [queue EXCEPT ![r] = Marked(queue[r], err)]
             \/ queue' = queue
          /\ todo' = todo \ {r}
          /\ pc' \in {pc, [pc EXCEPT ![Poller] = "deletes"]}
          /\ job' \in {job, [job EXCEPT ![Poller] = NoJob]}
    BY <1>4, Zenon DEF MarkOutcome
  <2>2. Marked(queue[r], err) \in Row
    BY MarkedType, Zenon DEF TypeOK
  <2>3. queue' \in [Rows -> Row]
    BY <2>1, <2>2, Zenon DEF TypeOK
  <2>4. job' \in [Proc -> Job]
    BY <2>1, ConstantTypes, Zenon DEF TypeOK
  <2>5. faults' \in Nat
    BY <1>4, SMTT(60) DEF MarkOutcome, Fault, TypeOK
  <2> QED
    BY <1>4, <2>1, <2>3, <2>4, <2>5, Zenon DEF MarkOutcome, TypeOK, Labels
<1>5. CASE NextDelete
  <2>1. dels' \subseteq Rows /\ pc' \in [Proc -> Labels]
    BY <1>5, ZenonT(60) DEF NextDelete, TypeOK, Labels
  <2>2. job' \in [Proc -> Job]
    <3>1. CASE job' = job
      BY <3>1, Zenon DEF TypeOK
    <3>2. CASE \E r \in dels :
                 job' = [job EXCEPT ![Poller] = [NoJob EXCEPT !.op = "delete",
                                                  !.want[queue[r].doc] = queue[r].ts,
                                                  !.src[queue[r].doc] = r]]
      <4> PICK r \in dels :
                 job' = [job EXCEPT ![Poller] = [NoJob EXCEPT !.op = "delete",
                                                  !.want[queue[r].doc] = queue[r].ts,
                                                  !.src[queue[r].doc] = r]]
        BY <3>2, Zenon
      <4>1. queue[r].doc \in Doc /\ queue[r].ts \in Ts /\ r \in Rows
        BY Zenon DEF TypeOK, Row
      <4>2. [NoJob EXCEPT !.op = "delete", !.want[queue[r].doc] = queue[r].ts,
                          !.src[queue[r].doc] = r] \in Job
        BY <4>1, ConstantTypes, Zenon DEF Job
      <4> QED
        BY <4>2, SMTT(60), ZenonT(60) DEF TypeOK
    <3> QED BY <1>5, <3>1, <3>2, Zenon DEF NextDelete
  <2> QED
    BY <1>5, <2>1, <2>2, ZenonT(60) DEF NextDelete, TypeOK
<1> QED
  BY <1>1, <1>2, <1>3, <1>4, <1>5, Zenon DEF Poll

\* The arrival of a request, a purge or an elapsed back-off keeps the types.
LEMMA RequestType ==
  ASSUME TypeOK,
         \/ \E d \in Doc, op \in {"upsert", "delete"}, t \in Ts, bad \in BOOLEAN :
              AddToQueue(d, op, t, bad)
         \/ \E c \in Clients : UpsertSync(c) \/ DeleteSync(c)
  PROVE  TypeOK'
<1>1. ASSUME NEW d \in Doc, NEW op \in {"upsert", "delete"}, NEW t \in Ts, NEW bad \in BOOLEAN,
             AddToQueue(d, op, t, bad)
      PROVE  TypeOK'
  <2>1. NewRow(d, op, t, bad, "queued") \in Row
    BY Zenon DEF NewRow, Row, Status, InQueue
  <2>2. queue' \in [Rows -> Row]
    BY <1>1, <2>1, Zenon DEF AddToQueue, TypeOK
  <2> QED
    BY <1>1, <2>2, Zenon DEF AddToQueue, TypeOK
<1>2. ASSUME NEW c \in Clients, NEW j \in Job, NEW l \in Labels, StartSync(c, j, l)
      PROVE  TypeOK'
  BY <1>2 DEF StartSync, TypeOK, Proc
<1>3. ASSUME NEW c \in Clients, UpsertSync(c)
      PROVE  TypeOK'
  <2>1. PICK w \in Versions, bad \in BOOLEAN :
          StartSync(c, [NoJob EXCEPT !.want = w, !.bad = bad], "begin")
    BY <1>3, Zenon DEF UpsertSync, Versions
  <2>2. [NoJob EXCEPT !.want = w, !.bad = bad] \in Job
    BY ConstantTypes, Zenon DEF Job, Versions
  <2> QED
    BY <1>2, <2>1, <2>2, Zenon DEF Labels
<1>4. ASSUME NEW c \in Clients, DeleteSync(c)
      PROVE  TypeOK'
  <2>1. PICK d \in Doc, t \in Ts :
          StartSync(c, [NoJob EXCEPT !.op = "delete", !.want = [Nothing EXCEPT ![d] = t]], "lock")
    BY <1>4, Zenon DEF DeleteSync
  <2>2. [Nothing EXCEPT ![d] = t] \in Versions
    BY ConstantTypes, Zenon DEF Versions
  <2>3. [NoJob EXCEPT !.op = "delete", !.want = [Nothing EXCEPT ![d] = t]] \in Job
    BY <2>2, ConstantTypes, Zenon DEF Job, Versions
  <2> QED
    BY <1>2, <2>1, <2>3, Zenon DEF Labels
<1> QED
  BY <1>1, <1>3, <1>4, Zenon

\* Every step keeps the types.
LEMMA TypeStep == TypeOK /\ [Next]_vars => TypeOK'
<1> SUFFICES ASSUME TypeOK, [Next]_vars PROVE TypeOK'
  BY Zenon
<1>1. CASE PurgeQueue
  <2>1. queue' \in [Rows -> Row]
    BY <1>1, WithoutType, Zenon DEF PurgeQueue, Removed
  <2> QED
    BY <1>1, <2>1, Zenon DEF PurgeQueue, TypeOK
<1>2. ASSUME NEW r \in Rows, BackoffElapses(r)
      PROVE  TypeOK'
  <2>1. [queue[r] EXCEPT !.waiting = FALSE] \in Row
    BY ZenonT(60) DEF TypeOK, Row
  <2>2. queue' = [queue EXCEPT ![r] = [queue[r] EXCEPT !.waiting = FALSE]]
    BY <1>2, Zenon DEF BackoffElapses
  <2>3. queue' \in [Rows -> Row]
    BY <2>1, <2>2, Zenon DEF TypeOK
  <2> QED
    BY <1>2, <2>3, Zenon DEF BackoffElapses, TypeOK
<1>3. CASE Crash
  <2>1. job' \in [Proc -> Job] /\ seen' \in [Proc -> Versions]
    BY <1>3, ConstantTypes, Zenon DEF Crash
  <2>2. lock' \in [Doc -> Proc \cup {Free}] /\ pc' \in [Proc -> Labels]
    BY <1>3, Zenon DEF Crash, Labels
  <2> QED
    BY <1>3, <2>1, <2>2 DEF Crash, TypeOK, Versions, Results
<1>4. CASE UNCHANGED vars
  BY <1>4, Zenon DEF vars, TypeOK
<1> QED
  BY <1>1, <1>2, <1>3, <1>4, CallType, PollType, RequestType, Zenon
     DEF Next, PollIdle, UpsertDocument, DeleteDocument

\* Every variable keeps its type in every behaviour, whatever fails.
THEOREM TypeCorrect == Spec => []TypeOK
<1> QED
  BY TypeInit, TypeStep, PTL DEF Spec

-----------------------------------------------------------------------------
(* The shape of a step. *)

\* What a call's step does to the control state: it ends the call, takes a
\* lock, or moves on with the same locks and no new documents.
Moves == {<<"begin", "lock">>, <<"verify", "read">>, <<"read", "patch">>, <<"read", "cancel">>,
          <<"patch", "write">>, <<"cancel", "erase">>}
Ends(p)   == \E res \in Results, w \in Versions :
               /\ Return(p, res, w)
               /\ \A d \in Doc : w[d] \in {job[p].want[d], Absent}
Moving(p) == /\ <<pc[p], pc'[p]>> \in Moves
             /\ pc' = [pc EXCEPT ![p] = pc'[p]]
             /\ job' = [job EXCEPT ![p] = job'[p]]
             /\ job'[p].op = job[p].op /\ job'[p].src = job[p].src
             /\ \A d \in Doc : job'[p].want[d] \in {job[p].want[d], Absent}
             /\ (pc[p] # "verify" => job' = job)
             /\ UNCHANGED <<lock, todo, dels, err, acked>>

\* What a step of a call can do to the locks, the labels and the jobs: it moves
\* only its own.
LEMMA CallShape ==
  ASSUME TypeOK, NEW p \in Proc, Call(p)
  PROVE  /\ pc[p] \in Working \cup {"begin", "lock"}
         /\ (pc[p] # "lock" /\ Ends(p)) \/ LockDoc(p) \/ Moving(p) \/ CallFails(p)
<1>0. job[p].want \in Versions
  BY Zenon DEF TypeOK, Job, Versions
<1>t. pc \in [Proc -> Labels] /\ job \in [Proc -> Job]
  BY Zenon DEF TypeOK
<1>1. pc[p] \in Working \cup {"begin", "lock"}
  BY Zenon DEF Call, Begin, LockDoc, VerifyRows, ReadExisting, CallFails, PatchDocuments,
         PatchFails, AddDocuments, AddDocumentsFails, CancelUpserts, CancelFails,
         EraseDocument, EraseFails, Working
<1>2. CASE Begin(p)
  BY <1>0, <1>2, Zenon DEF Begin, Ends, Moving, Moves, TypeOK, Results
<1>3. CASE VerifyRows(p)
  <2> DEFINE kept == [d \in Doc |-> IF job[p].want[d] # Absent /\ Present(job[p].src[d])
                                    THEN job[p].want[d] ELSE Absent]
  <2>1. kept \in Versions
    BY <1>0, Zenon DEF Versions
  <2>2. \A d \in Doc : kept[d] \in {job[p].want[d], Absent}
    BY Zenon
  <2>3. pc[p] = "verify"
    BY <1>3, Zenon DEF VerifyRows
  <2> HIDE DEF kept
  <2>4. CASE kept = Nothing
    <3>1. Return(p, "ok", kept)
      BY <1>3, <2>4, Zenon DEF VerifyRows, kept
    <3> QED BY <1>1, <2>1, <2>2, <2>3, <3>1, Zenon DEF Ends, Results
  <2>5. CASE kept # Nothing
    <3>1. /\ job' = [job EXCEPT ![p] = [job[p] EXCEPT !.want = kept]]
          /\ pc' = [pc EXCEPT ![p] = "read"]
          /\ UNCHANGED <<lock, todo, dels, err, acked>>
      BY <1>3, <2>5, Zenon DEF VerifyRows, kept
    <3>2. /\ job'[p].want = kept /\ job'[p].op = job[p].op /\ job'[p].src = job[p].src
          /\ job' = [job EXCEPT ![p] = job'[p]]
      BY <3>1, SMTT(60), ZenonT(60) DEF TypeOK, Job
    <3>3. pc' = [pc EXCEPT ![p] = pc'[p]] /\ pc'[p] = "read"
      BY <3>1, Zenon DEF TypeOK
    <3> QED BY <1>1, <2>2, <2>3, <3>1, <3>2, <3>3, Zenon DEF Moving, Moves
  <2> QED BY <2>4, <2>5, SMTT(60), ZenonT(60)
<1>4. CASE ReadExisting(p)
  BY <1>t, <1>1, <1>4, SMTT(60), ZenonT(60) DEF ReadExisting, Moving, Moves
<1>5. CASE PatchDocuments(p)
  BY <1>0, <1>t, <1>1, <1>5, SMTT(60), ZenonT(60)
     DEF PatchDocuments, Moving, Moves, Ends, Results
<1>6. CASE CancelUpserts(p)
  BY <1>0, <1>t, <1>1, <1>6, SMTT(60), ZenonT(60)
     DEF CancelUpserts, Moving, Moves, Ends, Results
<1>7. CASE \/ PatchFails(p) \/ AddDocuments(p) \/ AddDocumentsFails(p)
           \/ CancelFails(p) \/ EraseDocument(p) \/ EraseFails(p)
  BY <1>0, <1>1, <1>7, Zenon DEF PatchFails, AddDocuments, AddDocumentsFails, CancelFails,
                          EraseDocument, EraseFails, Ends, Results
<1> QED
  BY <1>1, <1>2, <1>3, <1>4, <1>5, <1>6, <1>7, Zenon DEF Call

\* The poller's own steps hold no lock, take none and touch only its own job.
LEMMA PollShape ==
  ASSUME TypeOK, Poll
  PROVE  /\ pc[Poller] \in {"idle", "supersede", "ack", "mark", "deletes"}
         /\ pc'[Poller] \in Labels \ (Working \cup {"lock"})
         /\ pc' = [pc EXCEPT ![Poller] = pc'[Poller]]
         /\ job' = [job EXCEPT ![Poller] = job'[Poller]]
         /\ UNCHANGED <<lock, seen, store, acked, delAt>>
<1>0. Poller \in Proc
  BY Zenon DEF Proc
<1>1. CASE ClaimBatch
  BY <1>0, <1>1 DEF ClaimBatch, TypeOK, Labels, Working
<1>2. CASE DropSuperseded
  BY <1>0, <1>2, Zenon DEF DropSuperseded, TypeOK, Labels, Working
<1>3. CASE AckRows
  BY <1>0, <1>3, Zenon DEF AckRows, TypeOK, Labels, Working
<1>4. CASE MarkOutcome
  BY <1>0, <1>4, Zenon DEF MarkOutcome, TypeOK, Labels, Working
<1>5. CASE NextDelete
  BY <1>0, <1>5, ZenonT(60) DEF NextDelete, TypeOK, Labels, Working
<1> QED
  BY <1>1, <1>2, <1>3, <1>4, <1>5, Zenon DEF Poll

-----------------------------------------------------------------------------
(* Locks. *)

\* A process that moves without touching the locks keeps LockInv, as long as it
\* owns locks only at labels where it may, and all of its own once it works.
LEMMA LockFrame ==
  ASSUME TypeOK, LockInv, UNCHANGED lock, NEW p \in Proc,
         \A q \in Proc \ {p} : pc'[q] = pc[q] /\ job'[q] = job[q],
         \A d \in Doc : lock[d] = p => pc'[p] \in Working,
         pc'[p] \in Working => \A d \in Docs(p)' : lock[d] = p
  PROVE  LockInv'
<1>1. \A q \in Proc \ {p} : Docs(q)' = Docs(q)
  BY Zenon DEF Docs
<1>2. \A d \in Doc : lock'[d] # Free => pc'[lock'[d]] \in Working \cup {"lock"}
  <2> TAKE d \in Doc
  <2> HAVE lock'[d] # Free
  <2>1. lock'[d] = lock[d] /\ lock[d] \in Proc
    BY Zenon DEF TypeOK
  <2>2. pc[lock[d]] \in Working \cup {"lock"}
    BY <2>1, Zenon DEF LockInv
  <2> QED BY <2>1, <2>2, Zenon
<1>3. \A q \in Proc : pc'[q] \in Working => \A d \in Docs(q)' : lock'[d] = q
  <2> TAKE q \in Proc
  <2>1. CASE q = p
    BY <2>1, Zenon
  <2>2. CASE q # p
    BY <1>1, <2>2 DEF LockInv
  <2> QED BY <2>1, <2>2, Zenon
<1>4. \A q \in Proc : pc'[q] = "lock" =>
        \A d \in Doc : lock'[d] = q =>
          d \in Docs(q)' /\ \A e \in Docs(q)' : e < d => lock'[e] = q
  <2> TAKE q \in Proc
  <2>1. CASE q = p
    BY <2>1, Zenon DEF Working
  <2>2. CASE q # p
    <3>1. Docs(q)' = Docs(q) /\ pc'[q] = pc[q] /\ lock' = lock
      BY <1>1, <2>2, Zenon
    <3>2. pc[q] = "lock" =>
            \A d \in Doc : lock[d] = q =>
              d \in Docs(q) /\ \A e \in Docs(q) : e < d => lock[e] = q
      BY Zenon DEF LockInv
    <3> QED BY <3>1, <3>2, Zenon
  <2> QED BY <2>1, <2>2, Zenon
<1> QED
  BY <1>2, <1>3, <1>4, Zenon DEF LockInv

\* Every step keeps the lock discipline.
LEMMA LockStep == TypeOK /\ LockInv /\ [Next]_vars => LockInv'
<1> SUFFICES ASSUME TypeOK, LockInv, [Next]_vars PROVE LockInv'
  BY Zenon
<1> USE IngestAssumption DEF Proc, Free
<1>t. TypeOK'
  BY TypeStep, Zenon
<1>1. ASSUME NEW p \in Proc, Call(p)
      PROVE  LockInv'
  <2>1. CASE Ends(p) \/ CallFails(p)
    <3>1. PICK res, w : Return(p, res, w)
      BY <2>1, Zenon DEF Ends, CallFails
    <3>2. /\ \A d \in Doc : lock'[d] = IF lock[d] = p THEN Free ELSE lock[d]
          /\ pc'[p] \notin Working \cup {"lock"}
          /\ \A q \in Proc \ {p} : pc'[q] = pc[q] /\ job'[q] = job[q]
      BY <3>1 DEF Return, Released, TypeOK, Working
    <3>3. \A d \in Doc : lock'[d] # Free => lock'[d] # p /\ lock'[d] = lock[d] /\ lock[d] \in Proc
      BY <3>2, Zenon DEF TypeOK
    <3>4. \A q \in Proc \ {p} : Docs(q)' = Docs(q) /\ \A d \in Doc : lock'[d] = q <=> lock[d] = q
      BY <3>2, SMTT(60), ZenonT(60) DEF Docs, TypeOK
    <3> QED
      BY <3>2, <3>3, <3>4 DEF LockInv, Docs
  <2>2. CASE LockDoc(p)
    <3>1. PICK d \in Docs(p) :
             /\ lock[d] = Free
             /\ \A e \in Docs(p) : (e < d) <=> (lock[e] = p)
             /\ lock' = [lock EXCEPT ![d] = p]
             /\ pc' = IF \E e \in Docs(p) : d < e THEN pc
                      ELSE [pc EXCEPT ![p] = IF p = Poller THEN "verify" ELSE "read"]
      BY <2>2, ZenonT(60) DEF LockDoc
    <3>2. pc[p] = "lock" /\ UNCHANGED job /\ d \in Doc /\ Docs(p) \subseteq Doc
      BY <2>2, Zenon DEF LockDoc, Docs
    <3>3. \A q \in Proc : Docs(q)' = Docs(q)
      BY <3>2, Zenon DEF Docs
    <3>4. \A q \in Proc \ {p} : pc'[q] = pc[q] /\ \A e \in Doc : lock'[e] = q <=> lock[e] = q
      BY <3>1, <3>2 DEF TypeOK
    <3>5. \A e \in Doc : lock'[e] = p <=> e = d \/ lock[e] = p
      BY <3>1, <3>2, Zenon DEF TypeOK
    <3>6. \A e \in Doc : lock'[e] # Free => pc'[lock'[e]] \in Working \cup {"lock"}
      <4> TAKE e \in Doc
      <4> HAVE lock'[e] # Free
      <4>1. lock'[e] \in Proc
        BY <1>t, Zenon DEF TypeOK
      <4>2. pc'[p] \in Working \cup {"lock"}
        BY <3>1, <3>2, Zenon DEF TypeOK, Working
      <4>3. CASE lock'[e] = p
        BY <4>2, <4>3, Zenon
      <4>4. CASE lock'[e] # p
        <5>1. lock[e] = lock'[e] /\ pc'[lock'[e]] = pc[lock'[e]]
          BY <3>4, <4>1, <4>4, Zenon
        <5>2. pc[lock[e]] \in Working \cup {"lock"}
          BY <4>1, <5>1, Zenon DEF LockInv
        <5> QED BY <5>1, <5>2, Zenon
      <4> QED BY <4>3, <4>4, Zenon
    <3>7. pc'[p] \in Working => \A e \in Docs(p) : lock'[e] = p
      <4> SUFFICES ASSUME pc'[p] \in Working, NEW e \in Docs(p) PROVE lock'[e] = p
        BY Zenon
      <4>1. ~ \E f \in Docs(p) : d < f
        BY <3>1, <3>2, Zenon DEF Working, TypeOK
      <4> QED
        BY <4>1, <3>1, <3>2, <3>5 DEF Doc
    <3>8. pc'[p] = "lock" =>
            \A e \in Doc : lock'[e] = p => e \in Docs(p) /\ \A f \in Docs(p) : f < e => lock'[f] = p
      <4> SUFFICES ASSUME NEW e \in Doc, lock'[e] = p
                   PROVE  e \in Docs(p) /\ \A f \in Docs(p) : f < e => lock'[f] = p
        BY Zenon
      <4>1. CASE e = d
        BY <4>1, <3>1, <3>2, <3>5, Zenon
      <4>2. CASE lock[e] = p
        BY <4>2, <3>2, <3>5, SMTT(60), ZenonT(60) DEF LockInv
      <4> QED BY <4>1, <4>2, <3>5, Zenon
    <3> QED
      BY <3>3, <3>4, <3>6, <3>7, <3>8 DEF LockInv, Docs
  <2>3. CASE Moving(p)
    <3>1. /\ \A q \in Proc \ {p} : pc'[q] = pc[q] /\ job'[q] = job[q]
          /\ UNCHANGED lock
      BY <2>3, Zenon DEF Moving, TypeOK
    <3>2. Docs(p)' \subseteq Docs(p) /\ Docs(p) \subseteq Doc
      BY <2>3, Zenon DEF Moving, Docs
    <3>3. \/ pc[p] = "begin" /\ pc'[p] = "lock"
          \/ pc[p] \in Working /\ pc'[p] \in Working
      BY <2>3, Zenon DEF Moving, Moves, Working
    <3>4. pc[p] = "begin" => \A d \in Doc : lock[d] # p
      BY DEF LockInv, Working
    <3>5. \A d \in Doc : lock[d] = p => pc'[p] \in Working
      BY <3>3, <3>4, Zenon
    <3>6. pc'[p] \in Working => \A d \in Docs(p)' : lock[d] = p
      BY <3>2, <3>3, Zenon DEF LockInv, Working
    <3> QED
      BY <3>1, <3>5, <3>6, LockFrame, Zenon
  <2> QED BY <1>1, <2>1, <2>2, <2>3, CallShape, SMTT(60), ZenonT(60)
<1>2. CASE Poll
  <2>1. /\ \A q \in Proc \ {Poller} : pc'[q] = pc[q] /\ job'[q] = job[q]
        /\ UNCHANGED lock
        /\ pc'[Poller] \notin Working \cup {"lock"}
        /\ pc[Poller] \notin Working \cup {"lock"}
    BY <1>2, PollShape, SMTT(60), ZenonT(60) DEF TypeOK, Working
  <2>2. \A d \in Doc : lock[d] # Poller
    BY <2>1, Zenon DEF LockInv
  <2> QED
    BY <2>1, <2>2, LockFrame, Zenon
<1>3. ASSUME NEW c \in Clients, NEW j, NEW l \in {"begin", "lock"}, StartSync(c, j, l)
      PROVE  LockInv'
  <2>1. /\ \A q \in Proc \ {c} : pc'[q] = pc[q] /\ job'[q] = job[q]
        /\ UNCHANGED lock
        /\ pc'[c] = l
        /\ pc[c] = "idle"
    BY <1>3, SMTT(60), ZenonT(60) DEF StartSync, TypeOK
  <2>2. \A d \in Doc : lock[d] # c
    BY <2>1, ZenonT(60) DEF LockInv, Working
  <2>3. l \notin Working
    BY Zenon DEF Working
  <2> QED
    BY <2>1, <2>2, <2>3, LockFrame, Zenon
<1>4. ASSUME UNCHANGED <<lock, pc, job>>
      PROVE  LockInv'
  BY <1>4 DEF LockInv, Docs
<1>5. CASE Crash
  BY <1>5, Zenon DEF Crash, LockInv, Working
<1> QED
  <2>1. ASSUME NEW c \in Clients, UpsertSync(c) \/ DeleteSync(c)
        PROVE  LockInv'
    BY <1>3, <2>1, Zenon DEF UpsertSync, DeleteSync
  <2> QED
    BY <1>1, <1>2, <1>4, <1>5, <2>1, Zenon
       DEF Next, vars, UpsertDocument, DeleteDocument, AddToQueue, PurgeQueue, PollIdle,
           BackoffElapses

\* A chain of calls that wait for each other's document locks never closes.
THEOREM LocksNeverDeadlock == Spec => []WaitsUpward
<1>1. Init => LockInv
  BY IngestAssumption, Zenon DEF Init, LockInv, Working
<1>2. TypeOK /\ LockInv => WaitsUpward
  <2> SUFFICES ASSUME TypeOK, LockInv, NEW p \in Proc, NEW q \in Proc, NEW d \in Doc, NEW e \in Doc,
                      NextDoc(p, d), lock[d] = q, NextDoc(q, e)
               PROVE  d < e
    BY Zenon DEF WaitsUpward
  <2>1. d \in Docs(q) /\ \A f \in Docs(q) : f < d => lock[f] = q
    BY Zenon DEF LockInv, NextDoc
  <2>2. e \in Docs(q) /\ lock[e] # q
    BY Zenon DEF NextDoc
  <2> QED
    BY <2>1, <2>2 DEF Doc
<1> QED
  BY <1>1, <1>2, LockStep, TypeCorrect, PTL DEF Spec

-----------------------------------------------------------------------------
(* What a call has read stays true until it writes. *)

\* A call only touches documents it has locked, and only its own state.
LEMMA CallIsLocal ==
  ASSUME TypeOK, LockInv, NEW p \in Proc, Call(p)
  PROVE  /\ \A d \in Doc : store'[d] # store[d] => d \in Docs(p) /\ lock[d] = p
         /\ \A q \in Proc \ {p} : pc'[q] = pc[q] /\ job'[q] = job[q] /\ seen'[q] = seen[q]
<1>1. \A d \in Doc : store'[d] # store[d] => d \in Docs(p) /\ pc[p] \in Working
  <2>1. CASE PatchDocuments(p) \/ PatchFails(p)
    BY <2>1, Zenon DEF PatchDocuments, PatchFails, Written, Newer, Working, TypeOK
  <2>2. CASE AddDocuments(p) \/ AddDocumentsFails(p)
    BY <2>2, Zenon DEF AddDocuments, AddDocumentsFails, Written, Newer, Working, TypeOK
  <2>3. CASE EraseDocument(p) \/ EraseFails(p)
    BY <2>3, Zenon DEF EraseDocument, EraseFails, Erased, Working, TypeOK
  <2> QED
    BY <2>1, <2>2, <2>3, Zenon DEF Call, Begin, LockDoc, VerifyRows, ReadExisting, CallFails,
                            CancelUpserts, CancelFails
<1>2. \A q \in Proc \ {p} : pc'[q] = pc[q] /\ job'[q] = job[q] /\ seen'[q] = seen[q]
  <2>1. ASSUME NEW res, NEW w, Return(p, res, w)
        PROVE  \A q \in Proc \ {p} : pc'[q] = pc[q] /\ job'[q] = job[q] /\ seen'[q] = seen[q]
    BY <2>1, Zenon DEF Return, TypeOK
  <2>2. CASE \/ CallFails(p) \/ PatchFails(p) \/ AddDocuments(p) \/ AddDocumentsFails(p)
             \/ CancelFails(p) \/ EraseDocument(p) \/ EraseFails(p)
    BY <2>1, <2>2, Zenon DEF CallFails, PatchFails, AddDocuments, AddDocumentsFails, CancelFails,
                      EraseDocument, EraseFails
  <2>3. CASE Begin(p) \/ LockDoc(p) \/ ReadExisting(p)
    BY <2>1, <2>3, Zenon DEF Begin, LockDoc, ReadExisting, TypeOK
  <2>4. CASE VerifyRows(p)
    BY <2>1, <2>4, Zenon DEF VerifyRows, TypeOK
  <2>5. CASE PatchDocuments(p)
    BY <2>1, <2>5, Zenon DEF PatchDocuments, TypeOK
  <2>6. CASE CancelUpserts(p)
    BY <2>1, <2>6, SMTT(60), ZenonT(60) DEF CancelUpserts, TypeOK
  <2> QED
    BY <2>2, <2>3, <2>4, <2>5, <2>6, Zenon DEF Call
<1> QED
  BY <1>1, <1>2, SMTT(60), ZenonT(60) DEF LockInv

\* Every step keeps what the calls have read true.
LEMMA SeenStep ==
  TypeOK /\ LockInv /\ SeenIsLive /\ CallInv /\ [Next]_vars => SeenIsLive' /\ CallInv'
<1> SUFFICES ASSUME TypeOK, LockInv, SeenIsLive, CallInv, [Next]_vars
             PROVE  SeenIsLive' /\ CallInv'
  BY Zenon
<1> DEFINE Late == {"patch", "write", "cancel", "erase"}
           Good(q) == /\ pc[q] \in Late => \A d \in Docs(q) : seen[q][d] = store[d]
                      /\ pc[q] \in {"patch", "write"} => job[q].op = "upsert"
                      /\ pc[q] \in {"cancel", "erase"} => job[q].op = "delete"
                      /\ job[q].op = "delete" => \A d, e \in Docs(q) : d = e
                      /\ pc[q] = "erase" =>
                           \A d \in Docs(q) : seen[q][d] # Absent /\ seen[q][d] < job[q].want[d]
<1>0. \A q \in Proc : Good(q)
  BY Zenon DEF SeenIsLive, CallInv
<1>s. SUFFICES \A q \in Proc : Good(q)'
  BY Zenon DEF SeenIsLive, CallInv
<1>1. ASSUME NEW p \in Proc, Call(p)
      PROVE  \A q \in Proc : Good(q)'
  <2>1. ASSUME NEW q \in Proc \ {p}
        PROVE  Good(q)'
    <3>1. pc'[q] = pc[q] /\ job'[q] = job[q] /\ seen'[q] = seen[q] /\ Docs(q)' = Docs(q)
      BY <1>1, CallIsLocal DEF Docs
    <3>2. pc[q] \in Late => \A d \in Docs(q) : store'[d] = store[d]
      BY <1>1, CallIsLocal DEF LockInv, Working, Docs
    <3> QED
      BY <1>0, <3>1, <3>2, SMTT(60), ZenonT(60) DEF Docs
  <2>2. Good(p)'
    <3>0. job'[p].op = "delete" => \A d, e \in Docs(p)' : d = e
      <4>1. CASE job'[p].op = job[p].op /\ Docs(p)' \subseteq Docs(p)
        BY <1>0, <4>1, Zenon
      <4>2. CASE job'[p] = NoJob
        BY <4>2 DEF NoJob
      <4>3. CASE Ends(p) \/ CallFails(p)
        <5>1. PICK res, w : Return(p, res, w) /\ \A d \in Doc : w[d] \in {job[p].want[d], Absent}
          BY <4>3, Zenon DEF Ends, CallFails
        <5>2. CASE p = Poller
          <6>1. job' = [job EXCEPT ![p] = [job[p] EXCEPT !.want = w]]
            BY <5>1, <5>2, Zenon DEF Return
          <6>2. job'[p].op = job[p].op /\ job'[p].want = w
            BY <6>1, Zenon DEF TypeOK, Job
          <6> QED BY <4>1, <5>1, <6>2, Zenon DEF Docs
        <5>3. CASE p # Poller
          BY <4>2, <5>1, <5>3, Zenon DEF Return, TypeOK
        <5> QED BY <5>2, <5>3, Zenon
      <4>4. CASE LockDoc(p)
        BY <4>1, <4>4, Zenon DEF LockDoc, Docs
      <4>5. CASE Moving(p)
        BY <4>1, <4>5, Zenon DEF Moving, Docs
      <4> QED BY <1>1, <4>3, <4>4, <4>5, CallShape, Zenon
    <3>1. CASE pc'[p] \notin Late
      BY <3>0, <3>1, Zenon
    <3>2. CASE pc'[p] \in Late
      <4>1. Moving(p) /\ ~(\E res, w : Return(p, res, w)) /\ ~LockDoc(p)
        <5>1. ~ \E res, w : Return(p, res, w)
          BY <3>2, SMTT(60), ZenonT(60) DEF Return, TypeOK
        <5>2. ~ LockDoc(p)
          BY <3>2 DEF LockDoc, TypeOK
        <5> QED BY <1>1, <5>1, <5>2, CallShape, Zenon DEF Ends, CallFails
      <4>2. pc[p] \in {"read", "patch", "cancel"}
        BY <3>2, <4>1, Zenon DEF Moving, Moves
      <4>3. CASE pc[p] = "read"
        <5>1. ReadExisting(p)
          BY <1>1, <4>1, <4>3, Zenon DEF Call, ReadExisting, Begin, LockDoc, VerifyRows, CallFails,
               PatchDocuments, PatchFails, AddDocuments, AddDocumentsFails, CancelUpserts,
               CancelFails, EraseDocument, EraseFails
        <5> QED
          BY <3>0, <5>1, SMTT(60), ZenonT(60) DEF ReadExisting, TypeOK, Docs, Job
      <4>4. CASE pc[p] = "patch"
        <5>1. PatchDocuments(p)
          BY <1>1, <4>1, <4>4, ZenonT(60) DEF Call, ReadExisting, Begin, LockDoc, VerifyRows, CallFails,
               PatchDocuments, PatchFails, AddDocuments, AddDocumentsFails, CancelUpserts,
               CancelFails, EraseDocument, EraseFails
        <5>2. PICK P \in SUBSET {d \in Newer(p) : seen[p][d] # Absent} :
                 /\ store' = Written(p, P)
                 /\ seen' = [seen EXCEPT ![p] = [d \in Doc |-> IF d \in P THEN job[p].want[d]
                                                                         ELSE seen[p][d]]]
                 /\ pc' = [pc EXCEPT ![p] = "write"]
                 /\ UNCHANGED job
          BY <4>1, <5>1, Zenon DEF PatchDocuments
        <5>3. \A d \in Docs(p) : seen'[p][d] = store'[d]
          BY <1>0, <4>4, <5>2, Zenon DEF Written, Docs, TypeOK
        <5> QED
          BY <1>0, <3>0, <4>4, <5>2, <5>3, SMTT(60), ZenonT(60) DEF Docs, TypeOK
      <4>5. CASE pc[p] = "cancel"
        <5>1. CancelUpserts(p)
          BY <1>1, <4>1, <4>5, Zenon DEF Call, ReadExisting, Begin, LockDoc, VerifyRows, CallFails,
               PatchDocuments, PatchFails, AddDocuments, AddDocumentsFails, CancelUpserts,
               CancelFails, EraseDocument, EraseFails
        <5>2. PICK d \in Docs(p) : ~(seen[p][d] = Absent \/ job[p].want[d] <= seen[p][d])
          BY <4>1, <5>1, Zenon DEF CancelUpserts
        <5>3. pc'[p] = "erase" /\ UNCHANGED <<job, seen, store>>
          BY <4>1, <5>1, Zenon DEF CancelUpserts, TypeOK
        <5> QED
          BY <1>0, <3>0, <4>5, <5>2, <5>3, SMTT(60) DEF Docs, TypeOK, Job, Ts
      <4> QED BY <4>2, <4>3, <4>4, <4>5, Zenon
    <3> QED BY <3>1, <3>2, Zenon
  <2> QED BY <2>1, <2>2, Zenon
<1>2. CASE Poll
  <2>1. /\ \A q \in Proc \ {Poller} : pc'[q] = pc[q] /\ job'[q] = job[q]
        /\ UNCHANGED <<seen, store>>
        /\ pc'[Poller] \notin Late
    BY <1>2, PollShape, Zenon DEF TypeOK, Working
  <2>2. job'[Poller].op = "delete" => \A d, e \in Docs(Poller)' : d = e
    <3>0. Poller \in Proc
      BY Zenon DEF Proc
    <3>1. CASE ClaimBatch
      BY <3>0, <3>1 DEF ClaimBatch, TypeOK
    <3>2. CASE NextDelete
      <4>1. CASE job' = job
        BY <1>0, <3>0, <4>1 DEF Docs
      <4>2. CASE job' # job
        <5>1. PICK r \in dels :
                 job' = [job EXCEPT ![Poller] = [NoJob EXCEPT !.op = "delete",
                                                  !.want[queue[r].doc] = queue[r].ts,
                                                  !.src[queue[r].doc] = r]]
          BY <3>2, <4>2, Zenon DEF NextDelete
        <5>2. \A d \in Doc : d # queue[r].doc => job'[Poller].want[d] = Absent
          BY <3>0, <5>1, Zenon DEF TypeOK, NoJob, Nothing
        <5> QED BY <5>2, SMTT(60), ZenonT(60) DEF Docs
      <4> QED BY <4>1, <4>2, Zenon
    <3>3. CASE DropSuperseded \/ AckRows \/ MarkOutcome
      <4>1. job'[Poller] \in {job[Poller], NoJob}
        BY <3>0, <3>3, Zenon DEF DropSuperseded, AckRows, MarkOutcome, TypeOK
      <4> QED BY <1>0, <3>0, <4>1 DEF Docs, NoJob
    <3> QED BY <1>2, <3>1, <3>2, <3>3, Zenon DEF Poll
  <2> QED
    BY <1>0, <2>1, <2>2 DEF Docs
<1>3. ASSUME NEW c \in Clients, UpsertSync(c) \/ DeleteSync(c)
      PROVE  \A q \in Proc : Good(q)'
  <2>1. /\ \A q \in Proc \ {c} : pc'[q] = pc[q] /\ job'[q] = job[q]
        /\ UNCHANGED <<seen, store>>
        /\ pc'[c] \notin Late
    BY <1>3, Zenon DEF UpsertSync, DeleteSync, StartSync, TypeOK, Proc
  <2>2. job'[c].op = "delete" => \A d, e \in Docs(c)' : d = e
    <3>1. CASE UpsertSync(c)
      BY <3>1 DEF UpsertSync, StartSync, NoJob, TypeOK, Proc
    <3>2. CASE DeleteSync(c)
      BY <3>2, SMTT(60), ZenonT(60) DEF DeleteSync, StartSync, NoJob, Nothing, Docs, TypeOK, Proc
    <3> QED BY <1>3, <3>1, <3>2, Zenon
  <2> QED
    BY <1>0, <2>1, <2>2, SMTT(60) DEF Docs
<1>4. CASE Crash
  BY <1>4, Zenon DEF Crash, NoJob
<1>5. ASSUME UNCHANGED <<pc, job, seen, store>>
      PROVE  \A q \in Proc : Good(q)'
  BY <1>0, <1>5 DEF Docs
<1> QED
  BY <1>1, <1>2, <1>3, <1>4, <1>5, Zenon
     DEF Next, vars, UpsertDocument, DeleteDocument, AddToQueue, PurgeQueue, PollIdle,
         BackoffElapses

-----------------------------------------------------------------------------
(* Last writer wins. *)

SafeInv == TypeOK /\ LockInv /\ SeenIsLive /\ CallInv

\* The conjunction is inductive.
LEMMA SafeInvStep == SafeInv /\ [Next]_vars => SafeInv'
BY TypeStep, LockStep, SeenStep, Zenon DEF SafeInv

\* The conjunction holds initially.
LEMMA SafeInvInit == Init => SafeInv
<1>1. Init => LockInv
  BY IngestAssumption, Zenon DEF Init, LockInv, Working
<1>2. Init => SeenIsLive /\ CallInv
  BY DEF Init, SeenIsLive, CallInv, NoJob
<1> QED
  BY <1>1, <1>2, TypeInit, Zenon DEF SafeInv

\* Writing newer documents of a batch, with or without the answer, is a step of
\* the register.  The answer needs all of them: what is not newer is stale.
LEMMA WriteRefines ==
  ASSUME TypeOK, SeenIsLive, NEW p \in Proc, pc[p] \in {"patch", "write"},
         NEW S \in SUBSET Newer(p), store' = Written(p, S),
         \/ acked' = acked
         \/ S = Newer(p) /\ acked' = [d \in Doc |-> Larger(acked[d], job[p].want[d])],
         delAt' = delAt
  PROVE  LWW!Upsert
<1>1. \A d \in Doc : /\ store[d] \in Nat /\ acked[d] \in Nat /\ seen[p][d] \in Nat
                     /\ job[p].want[d] \in Nat
                     /\ (job[p].want[d] # Absent => job[p].want[d] \in Ts)
  BY DEF TypeOK, Job, Ts, Absent
<1>2. \A d \in Docs(p) : seen[p][d] = store[d]
  BY Zenon DEF SeenIsLive
<1>3. \A d \in S : store[d] < job[p].want[d] /\ store'[d] = job[p].want[d] /\ store'[d] \in Ts
  BY <1>1, <1>2, ZenonT(60) DEF Newer, Docs, Written
<1>4. \A d \in Doc \ S : store'[d] = store[d]
  BY SMTT(60), ZenonT(60) DEF Written
<1>5. \A d \in Doc : acked'[d] # acked[d] => acked[d] < acked'[d] /\ acked'[d] <= store'[d]
  <2> SUFFICES ASSUME NEW d \in Doc, acked'[d] # acked[d], S = Newer(p),
                      acked' = [e \in Doc |-> Larger(acked[e], job[p].want[e])]
               PROVE  acked[d] < acked'[d] /\ acked'[d] <= store'[d]
    BY Zenon
  <2>1. acked'[d] = job[p].want[d] /\ acked[d] < job[p].want[d]
    BY <1>1, Zenon DEF Larger
  <2>2. d \in Docs(p)
    BY <1>1, <2>1 DEF Docs, Absent
  <2> QED
    BY <1>1, <1>2, <1>3, <1>4, <2>1, <2>2, SMTT(60), ZenonT(60) DEF Newer
<1>6. store' \in [Doc -> Ts \cup {Absent}]
  BY WrittenType, Zenon DEF Versions
<1>7. acked' \in [Doc -> Ts \cup {Absent}]
  BY DEF TypeOK, Larger, Job
<1> QED
  BY <1>3, <1>4, <1>5, <1>6, <1>7, Zenon DEF LWW!Upsert, LWW!Absent, Absent

\* Removing the document is a delete of the abstract register.
LEMMA EraseRefines ==
  ASSUME SafeInv, NEW p \in Proc, pc[p] = "erase", NEW d \in Docs(p),
         Erased(d, job[p].want[d]), acked' = acked
  PROVE  LWW!Delete(d, job[p].want[d]) /\ job[p].want[d] \in Ts /\ d \in Doc
<1>1. d \in Doc /\ job[p].want[d] \in Ts
  BY DEF Docs, SafeInv, TypeOK, Job
<1>2. store[d] # Absent /\ store[d] < job[p].want[d]
  BY Zenon DEF SafeInv, SeenIsLive, CallInv
<1> QED
  BY <1>1, <1>2, Zenon DEF Erased, Larger, LWW!Delete, LWW!Absent, Absent

\* Every step is a step of the abstract register, or leaves it alone.
LEMMA LWWStep ==
  SafeInv /\ [Next]_vars => [LWW!Next]_<<store, acked, delAt>>
<1> SUFFICES ASSUME SafeInv, [Next]_vars, ~UNCHANGED <<store, acked, delAt>>
             PROVE  LWW!Next
  BY SMTT(60), ZenonT(60)
<1> USE DEF SafeInv
<1>1. PICK p \in Proc : Call(p)
  BY PollShape, ZenonT(60)
     DEF Next, vars, UpsertDocument, DeleteDocument, AddToQueue, PurgeQueue, UpsertSync,
         DeleteSync, StartSync,
                   PollIdle, BackoffElapses, Crash
<1>2. CASE PatchDocuments(p)
  <2>1. PICK P \in SUBSET Newer(p) :
          /\ store' = Written(p, P)
          /\ (P = Newer(p) /\ Return(p, "ok", job[p].want)) \/ acked' = acked
    BY <1>2, Zenon DEF PatchDocuments
  <2>2. \/ acked' = acked
        \/ P = Newer(p) /\ acked' = [d \in Doc |-> Larger(acked[d], job[p].want[d])]
    BY <2>1, Zenon DEF Return
  <2> QED
    BY <1>2, <2>1, <2>2, WriteRefines, SMTT(60), ZenonT(60) DEF PatchDocuments, LWW!Next
<1>3. CASE PatchFails(p)
  <2>1. PICK S \in SUBSET Newer(p) : store' = Written(p, S)
    BY <1>3, Zenon DEF PatchFails
  <2>2. acked' = acked
    BY <1>3, Zenon DEF PatchFails, Return
  <2> QED
    BY <1>3, <2>1, <2>2, WriteRefines, Zenon DEF PatchFails, LWW!Next
<1>4. CASE AddDocuments(p)
  <2>1. acked' = acked \/ acked' = [d \in Doc |-> Larger(acked[d], job[p].want[d])]
    BY <1>4, Zenon DEF AddDocuments, Return
  <2> QED
    BY <1>4, <2>1, WriteRefines, Zenon DEF AddDocuments, LWW!Next
<1>5. CASE AddDocumentsFails(p)
  <2>1. acked' = acked /\ delAt' = delAt
    BY <1>5, Zenon DEF AddDocumentsFails, Return
  <2>2. store' = Written(p, Newer(p))
    BY <1>5, <2>1, Zenon DEF AddDocumentsFails
  <2> QED
    BY <1>5, <2>1, <2>2, WriteRefines, Zenon DEF AddDocumentsFails, LWW!Next
<1>6. CASE EraseDocument(p) \/ EraseFails(p)
  <2>1. acked' = acked /\ pc[p] = "erase"
    <3>1. pc[p] = "erase" /\ \E res : Return(p, res, job[p].want)
      BY <1>6, Zenon DEF EraseDocument, EraseFails
    <3>2. job[p].op = "delete"
      BY <3>1, Zenon DEF CallInv
    <3> QED BY <3>1, <3>2, Zenon DEF Return
  <2>2. PICK d \in Docs(p) : Erased(d, job[p].want[d])
    BY <1>6, <2>1, Zenon DEF EraseDocument, EraseFails
  <2> QED
    BY <2>1, <2>2, EraseRefines, Zenon DEF LWW!Next
<1>7. CASE Begin(p) \/ CallFails(p)
  BY <1>7, Zenon DEF Begin, CallFails, Return
<1>8. CASE VerifyRows(p)
  <2>1. acked' = acked \/ Return(p, "ok", Nothing)
    BY <1>8, Zenon DEF VerifyRows
  <2>2. acked' = acked
    <3>1. \A d \in Doc : Larger(acked[d], Nothing[d]) = acked[d]
      BY DEF Larger, Nothing, Absent, TypeOK, Ts
    <3> QED BY <2>1, <3>1 DEF Return, TypeOK
  <2> QED BY <1>8, <2>2, Zenon DEF VerifyRows
<1>9. CASE CancelUpserts(p) \/ CancelFails(p)
  <2>1. job[p].op = "delete"
    BY <1>9, Zenon DEF CancelUpserts, CancelFails, CallInv
  <2> QED BY <1>9, <2>1, Zenon DEF CancelUpserts, CancelFails, Return
<1>10. CASE LockDoc(p) \/ ReadExisting(p)
  BY <1>10, Zenon DEF LockDoc, ReadExisting
<1> QED
  BY <1>1, <1>2, <1>3, <1>4, <1>5, <1>6, <1>7, <1>8, <1>9, <1>10, Zenon DEF Call

\* The write path implements the last-writer-wins register.
THEOREM Refinement == Spec => ImplementsLWW
<1>1. Init => LWW!Init
  BY Zenon DEF Init, LWW!Init, Nothing, Absent, LWW!Absent
<1>2. SafeInv /\ [Next]_vars => [LWW!Next]_(LWW!lwwVars)
  BY LWWStep, Zenon DEF LWW!lwwVars
<1> QED
  BY <1>1, <1>2, SafeInvInit, SafeInvStep, PTL DEF Spec, ImplementsLWW, LWW!Spec

\* What a call has read under its locks is what is stored when it writes.
THEOREM ReadsStayTrue == Spec => []SeenIsLive
<1>1. SafeInv => SeenIsLive
  BY Zenon DEF SafeInv
<1> QED
  BY <1>1, SafeInvInit, SafeInvStep, PTL DEF Spec

\* No upsert that was answered Ok is undone except by a newer delete.
THEOREM AckedUpsertsAreKept == Spec => []AckedIsKept
<1>1. Init => AckedIsKept
  BY DEF Init, AckedIsKept, Nothing, Absent
<1>2. SafeInv /\ AckedIsKept /\ [Next]_vars => AckedIsKept'
  <2> SUFFICES ASSUME SafeInv, AckedIsKept, [Next]_vars PROVE AckedIsKept'
    BY Zenon
  <2>t. TypeOK /\ TypeOK'
    BY TypeStep, Zenon DEF SafeInv
  <2>n. \A d \in Doc : /\ store[d] \in Nat /\ acked[d] \in Nat /\ delAt[d] \in Nat
                       /\ store'[d] \in Nat /\ acked'[d] \in Nat /\ delAt'[d] \in Nat
    BY <2>t DEF TypeOK, Ts, Absent
  <2>1. [LWW!Next]_<<store, acked, delAt>>
    BY LWWStep, ZenonT(60)
  <2>2. CASE LWW!Upsert
    <3>1. \A d \in Doc : acked'[d] <= store'[d] \/ acked'[d] < delAt'[d]
      <4> SUFFICES ASSUME NEW d \in Doc PROVE acked'[d] <= store'[d] \/ acked'[d] < delAt'[d]
        BY Zenon
      <4>1. delAt'[d] = delAt[d] /\ store[d] <= store'[d]
        BY <2>2, <2>n DEF LWW!Upsert
      <4>2. acked'[d] = acked[d] \/ acked'[d] <= store'[d]
        BY <2>2, Zenon DEF LWW!Upsert
      <4> QED BY <4>1, <4>2, <2>n DEF AckedIsKept
    <3> QED BY <3>1, ZenonT(60) DEF AckedIsKept
  <2>3. CASE \E d \in Doc, t \in Ts : LWW!Delete(d, t)
    <3>1. PICK d \in Doc, t \in Ts : LWW!Delete(d, t)
      BY <2>3, Zenon
    <3>2. t \in Nat /\ store[d] < t /\ acked' = acked
      BY <3>1, SMTT(60), ZenonT(60) DEF LWW!Delete, Ts
    <3>3. delAt[d] <= delAt'[d] /\ t <= delAt'[d]
      BY <2>n, <2>t, <3>1, <3>2, SMTT(60), ZenonT(60) DEF LWW!Delete, TypeOK
    <3>4. \A e \in Doc \ {d} : store'[e] = store[e] /\ delAt'[e] = delAt[e]
      BY <2>t, <3>1, Zenon DEF LWW!Delete, TypeOK
    <3>5. acked'[d] < delAt'[d]
      BY <2>n, <3>2, <3>3 DEF AckedIsKept
    <3> QED BY <3>2, <3>4, <3>5, Zenon DEF AckedIsKept
  <2> QED
    BY <2>1, <2>2, <2>3, Zenon DEF LWW!Next, AckedIsKept
<1> QED
  BY <1>1, <1>2, SafeInvInit, SafeInvStep, PTL DEF Spec

\* A delete that is answered Ok has left the document absent, or as new.
THEOREM DeletesAreHonoured == Spec => DeleteHonoured
<1> DEFINE Honoured ==
      \A p \in Proc, d \in Doc :
         job[p].op = "delete" /\ job[p].want[d] # Absent
         /\ (EraseDocument(p) \/ (CancelUpserts(p) /\ pc'[p] # "erase")) =>
            store'[d] = Absent \/ job[p].want[d] <= store'[d]
<1>1. SafeInv => Honoured
  <2> SUFFICES ASSUME SafeInv, NEW p \in Proc, NEW d \in Doc, job[p].op = "delete",
                      job[p].want[d] # Absent,
                      EraseDocument(p) \/ (CancelUpserts(p) /\ pc'[p] # "erase")
               PROVE  store'[d] = Absent \/ job[p].want[d] <= store'[d]
    BY ZenonT(60)
  <2>1. d \in Docs(p) /\ \A e \in Docs(p) : e = d
    BY SMTT(60), ZenonT(60) DEF SafeInv, CallInv, Docs
  <2>2. CASE EraseDocument(p)
    BY <2>1, <2>2, SMTT(60), ZenonT(60) DEF EraseDocument, Erased, SafeInv, TypeOK
  <2>3. CASE CancelUpserts(p) /\ pc'[p] # "erase"
    <3>t. pc \in [Proc -> Labels]
      BY Zenon DEF SafeInv, TypeOK
    <3>0. PICK e \in Docs(p) :
            IF seen[p][e] = Absent \/ job[p].want[e] <= seen[p][e]
            THEN TRUE
            ELSE pc' = [pc EXCEPT ![p] = "erase"]
      BY <2>3, Zenon DEF CancelUpserts
    <3>1. seen[p][d] = Absent \/ job[p].want[d] <= seen[p][d]
      BY <2>1, <2>3, <3>t, <3>0, Zenon
    <3>2. seen[p][d] = store[d] /\ store' = store
      BY <2>1, <2>3, ZenonT(60) DEF CancelUpserts, SafeInv, SeenIsLive
    <3> QED BY <3>1, <3>2, SMTT(60), ZenonT(60)
  <2> QED BY <2>2, <2>3, Zenon
<1>2. SafeInv /\ [Next]_vars => [Honoured]_vars
  BY <1>1, Zenon
<1> QED
  BY <1>2, SafeInvInit, SafeInvStep, PTL DEF Spec, DeleteHonoured

-----------------------------------------------------------------------------
(* How a row changes. *)

\* r is what it was: nothing rewrites the work a row asks for, a removed row
\* stays removed for the same reason, and tries only go up.
RowStays(r) ==
  /\ queue'[r].doc = queue[r].doc /\ queue'[r].op = queue[r].op /\ queue'[r].ts = queue[r].ts
  /\ queue'[r].status # "unborn"
  /\ queue[r].status \in Removed => queue'[r].status = queue[r].status
  /\ queue[r].tries <= queue'[r].tries

\* Removing rows from the queue settles them and touches no other row.
LEMMA WithoutStays ==
  ASSUME TypeOK, NEW S, NEW why \in Removed, queue' = Without(S, why), NEW r \in Rows
  PROVE  /\ queue[r].status # "unborn" => RowStays(r)
         /\ queue'[r].op = queue[r].op /\ queue'[r].doc = queue[r].doc /\ queue'[r].ts = queue[r].ts
         /\ queue'[r].status = IF r \in S /\ Present(r) THEN why ELSE queue[r].status
<1>1. queue[r] \in Row
  BY Zenon DEF TypeOK
<1>2. CASE r \in S /\ Present(r)
  <2>1. queue'[r] = [queue[r] EXCEPT !.status = why]
    BY <1>2, ZenonT(60) DEF Without
  <2> QED
    BY <1>1, <1>2, <2>1 DEF RowStays, Row, Removed, InQueue, Present
<1>3. CASE ~(r \in S /\ Present(r))
  <2>1. queue'[r] = queue[r]
    BY <1>3, SMTT(60), ZenonT(60) DEF Without
  <2> QED
    BY <1>1, <1>3, <2>1 DEF RowStays, Row
<1> QED
  BY <1>2, <1>3, Zenon

\* What a step can do to the queue.
LEMMA QueueShape ==
  ASSUME TypeOK, [Next]_vars
  PROVE  \/ queue' = queue
         \/ \E S \in SUBSET Rows, why \in Removed : queue' = Without(S, why)
         \/ \E d \in Doc, op \in {"upsert", "delete"}, t \in Ts, bad \in BOOLEAN :
              AddToQueue(d, op, t, bad)
         \/ \E r \in todo : /\ MarkOutcome /\ Present(r)
                            /\ queue' = [queue EXCEPT ![r] = Marked(queue[r], err)]
         \/ \E r \in Rows : BackoffElapses(r)
<1>1. ASSUME NEW p \in Proc, Call(p)
      PROVE  \/ queue' = queue
             \/ \E S \in SUBSET Rows, why \in Removed : queue' = Without(S, why)
  <2>1. CASE CancelUpserts(p) \/ CancelFails(p)
    <3>1. \A d, t : Covered(d, t) \in SUBSET Rows
      BY SMTT(60), ZenonT(60) DEF Covered
    <3> QED
      BY <2>1, <3>1, Zenon DEF CancelUpserts, CancelFails, Removed
  <2>2. CASE ~(CancelUpserts(p) \/ CancelFails(p))
    BY <1>1, <2>2, Zenon DEF Call, Begin, LockDoc, VerifyRows, ReadExisting, CallFails, PatchDocuments,
         PatchFails, AddDocuments, AddDocumentsFails, EraseDocument, EraseFails
  <2> QED BY <2>1, <2>2, Zenon
<1>2. CASE PurgeQueue
  BY <1>2, Zenon DEF PurgeQueue, Removed
<1>3. CASE DropSuperseded
  <2>1. \A r \in todo : {r} \in SUBSET Rows
    BY Zenon DEF TypeOK
  <2> QED BY <1>3, <2>1, Zenon DEF DropSuperseded, RemoveRows, Removed
<1>4. CASE AckRows
  <2>1. queue' = queue \/ queue' = Without({job[Poller].src[d] : d \in Docs(Poller)} \cap Rows, "acked")
    <3>1. Without({job[Poller].src[d] : d \in Docs(Poller)}, "acked")
            = Without({job[Poller].src[d] : d \in Docs(Poller)} \cap Rows, "acked")
      BY Zenon DEF Without
    <3> QED BY <1>4, <3>1, Zenon DEF AckRows, RemoveRows
  <2> QED BY <2>1, Zenon DEF Removed
<1>5. CASE MarkOutcome
  BY <1>5, Zenon DEF MarkOutcome
<1> QED
  BY <1>1, <1>2, <1>3, <1>4, <1>5, ZenonT(60)
     DEF Next, vars, Poll, ClaimBatch, NextDelete, PollIdle, Crash,
       UpsertDocument, DeleteDocument, UpsertSync, DeleteSync, StartSync

\* A row that exists keeps its document, operation and timestamp in every step.
LEMMA RowsStay ==
  ASSUME TypeOK, [Next]_vars, NEW r \in Rows, queue[r].status # "unborn"
  PROVE  RowStays(r)
<1>0. queue[r] \in Row
  BY Zenon DEF TypeOK
<1>1. CASE queue' = queue
  BY <1>0, <1>1 DEF RowStays, Row
<1>2. CASE \E S \in SUBSET Rows, why \in Removed : queue' = Without(S, why)
  BY <1>2, WithoutStays, Zenon
<1>3. ASSUME NEW d \in Doc, NEW op \in {"upsert", "delete"}, NEW t \in Ts, NEW bad \in BOOLEAN,
             AddToQueue(d, op, t, bad)
      PROVE  RowStays(r)
  <2>1. queue'[r] = queue[r]
    BY <1>3, Zenon DEF AddToQueue, TypeOK
  <2> QED BY <1>0, <2>1 DEF RowStays, Row
<1>4. ASSUME NEW s \in todo, Present(s), queue' = [queue EXCEPT ![s] = Marked(queue[s], err)]
      PROVE  RowStays(r)
  <2>1. CASE r = s
    <3>1. queue'[r] = Marked(queue[r], err)
      BY <1>4, <2>1, Zenon DEF TypeOK
    <3>2. queue[r].tries \in Nat
      BY <1>0, Zenon DEF Row
    <3> QED BY <1>0, <1>4, <2>1, <3>1, <3>2, MarkedType DEF RowStays, Present, InQueue, Removed
  <2>2. CASE r # s
    BY <1>0, <1>4, <2>2 DEF RowStays, Row, TypeOK
  <2> QED BY <2>1, <2>2, Zenon
<1>5. ASSUME NEW s \in Rows, BackoffElapses(s)
      PROVE  RowStays(r)
  <2>1. \/ queue'[r] = queue[r]
        \/ queue'[r] = [queue[r] EXCEPT !.waiting = FALSE]
    BY <1>5, Zenon DEF BackoffElapses, TypeOK
  <2> QED BY <1>0, <2>1 DEF RowStays, Row
<1> QED
  BY <1>1, <1>2, <1>3, <1>4, <1>5, QueueShape, Zenon

-----------------------------------------------------------------------------
(* The poller's job and its rows. *)

\* How a step changes the poller's job.
LEMMA PollerJobShape ==
  ASSUME TypeOK, [Next]_vars
  PROVE  \/ job'[Poller] = NoJob
         \/ /\ job'[Poller].op = job[Poller].op /\ job'[Poller].src = job[Poller].src
            /\ \A d \in Doc : job'[Poller].want[d] \in {job[Poller].want[d], Absent}
         \/ ClaimBatch
         \/ NextDelete /\ dels # {}
<1>0. Poller \in Proc
  BY Zenon DEF Proc
<1>1. ASSUME NEW p \in Proc, Call(p), p = Poller
      PROVE  /\ job'[Poller].op = job[Poller].op /\ job'[Poller].src = job[Poller].src
             /\ \A d \in Doc : job'[Poller].want[d] \in {job[Poller].want[d], Absent}
  <2>1. CASE Ends(p) \/ CallFails(p)
    <3>1. PICK res, w : Return(p, res, w) /\ \A d \in Doc : w[d] \in {job[p].want[d], Absent}
      BY <2>1, Zenon DEF Ends, CallFails
    <3>2. job' = [job EXCEPT ![p] = [job[p] EXCEPT !.want = w]]
      BY <1>1, <3>1, Zenon DEF Return
    <3> QED BY <1>1, <3>1, <3>2 DEF TypeOK, Job
  <2>2. CASE LockDoc(p)
    BY <2>2, Zenon DEF LockDoc
  <2>3. CASE Moving(p)
    BY <1>1, <2>3, Zenon DEF Moving
  <2> QED BY <1>1, <2>1, <2>2, <2>3, CallShape, Zenon
<1>2. ASSUME NEW p \in Proc \ {Poller}, Call(p)
      PROVE  job'[Poller] = job[Poller]
  <2>1. CASE Ends(p) \/ CallFails(p)
    BY <1>0, <2>1, Zenon DEF Ends, CallFails, Return, TypeOK
  <2>2. CASE LockDoc(p)
    BY <2>2, Zenon DEF LockDoc
  <2>3. CASE Moving(p)
    <3>1. job' = [job EXCEPT ![p] = job'[p]]
      BY <2>3, SMTT(60), ZenonT(60) DEF Moving
    <3> QED BY <1>0, <3>1, Zenon DEF TypeOK
  <2> QED BY <1>2, <2>1, <2>2, <2>3, CallShape, Zenon
<1>3. CASE Poll
  BY <1>0, <1>3, ZenonT(60) DEF Poll, DropSuperseded, AckRows, MarkOutcome, NextDelete, TypeOK
<1>4. ASSUME NEW c \in Clients, UpsertSync(c) \/ DeleteSync(c)
      PROVE  job'[Poller] = job[Poller]
  BY <1>0, <1>4, IngestAssumption, ZenonT(60) DEF UpsertSync, DeleteSync, StartSync, TypeOK
<1>5. CASE Crash
  BY <1>0, <1>5, ZenonT(60) DEF Crash
<1> QED
  BY <1>1, <1>2, <1>3, <1>4, <1>5, Zenon
     DEF Next, vars, UpsertDocument, DeleteDocument, AddToQueue, PurgeQueue, PollIdle,
         BackoffElapses

\* A batch that was claimed consists of pending upserts, one per document.
LEMMA ClaimedJob ==
  ASSUME TypeOK, ClaimBatch
  PROVE  /\ job'[Poller].op = "upsert" /\ UNCHANGED queue
         /\ \A d \in Doc : job'[Poller].src[d] # NoRow =>
              LET r == job'[Poller].src[d]
              IN /\ r \in Rows /\ r \in Eligible /\ Pending(r)
                 /\ queue[r].op = "upsert" /\ queue[r].doc = d
                 /\ queue[r].ts = job'[Poller].want[d]
                 /\ \A s \in UpsertsOf(d) : queue[s].ts <= queue[r].ts
         /\ \A d \in Doc : job'[Poller].src[d] = NoRow => job'[Poller].want[d] = Absent
         /\ \A d \in Doc : job'[Poller].src[d] = NoRow => UpsertsOf(d) = {}
         /\ todo' = {r \in Eligible : queue[r].op = "upsert"} \ ({job'[Poller].src[d] : d \in Doc} \ {NoRow})
         /\ dels' = {r \in Eligible : queue[r].op = "delete"}
         /\ pc'[Poller] \in {"deletes", "begin", "supersede"}
<1>0. Poller \in Proc
  BY Zenon DEF Proc
<1>1. PICK src \in [Doc -> Rows \cup {NoRow}] :
        /\ \A d \in Doc : IF UpsertsOf(d) = {} THEN src[d] = NoRow ELSE Winner(src[d], d)
        /\ job' = [job EXCEPT ![Poller] =
                     [op |-> "upsert", src |-> src,
                      want |-> [d \in Doc |-> IF src[d] = NoRow THEN Absent ELSE queue[src[d]].ts],
                      bad |-> \E r \in {src[d] : d \in Doc} \ {NoRow} : queue[r].bad]]
        /\ todo' = {r \in Eligible : queue[r].op = "upsert"} \ ({src[d] : d \in Doc} \ {NoRow})
        /\ dels' = {r \in Eligible : queue[r].op = "delete"}
        /\ pc'[Poller] \in {"deletes", "begin", "supersede"}
  BY <1>0, ZenonT(60) DEF ClaimBatch, TypeOK
<1>2. /\ job'[Poller].op = "upsert" /\ job'[Poller].src = src
      /\ \A d \in Doc : job'[Poller].want[d] = IF src[d] = NoRow THEN Absent ELSE queue[src[d]].ts
  BY <1>0, <1>1, Zenon DEF TypeOK
<1>3. Eligible \subseteq Rows /\ \A r \in Eligible : Pending(r)
  BY Zenon DEF Eligible, Claimed, Fresh, Retries
<1>4. NoRow \notin Rows
  BY SMTT(60), ZenonT(60) DEF NoRow, Rows
<1>5. ASSUME NEW d \in Doc, src[d] # NoRow
      PROVE  /\ src[d] \in Eligible /\ queue[src[d]].op = "upsert" /\ queue[src[d]].doc = d
             /\ \A s \in UpsertsOf(d) : queue[s].ts <= queue[src[d]].ts
  <2>1. Winner(src[d], d)
    BY <1>1, <1>5, Zenon
  <2>2. \A s \in Rows : queue[s].ts \in Int
    BY DEF TypeOK, Row, Ts
  <2> QED
    BY <1>3, <2>1, <2>2 DEF Winner, UpsertsOf, SortsAfter
<1>6. \A d \in Doc : src[d] = NoRow => UpsertsOf(d) = {}
  BY <1>1, <1>3, <1>4, Zenon DEF Winner, UpsertsOf
<1> QED
  BY <1>1, <1>2, <1>3, <1>5, <1>6, SMTT(60), ZenonT(60) DEF ClaimBatch

\* A delete that was started is that of its row.
LEMMA DeleteJob ==
  ASSUME TypeOK, NextDelete, dels # {}
  PROVE  \E r \in dels :
           /\ job'[Poller].op = "delete" /\ UNCHANGED queue /\ dels' = dels \ {r}
           /\ job'[Poller].src[queue[r].doc] = r /\ job'[Poller].want[queue[r].doc] = queue[r].ts
           /\ \A d \in Doc \ {queue[r].doc} : job'[Poller].src[d] = NoRow /\ job'[Poller].want[d] = Absent
           /\ pc'[Poller] = "begin"
<1>0. Poller \in Proc
  BY Zenon DEF Proc
<1>1. PICK r \in dels :
          /\ job' = [job EXCEPT ![Poller] = [NoJob EXCEPT !.op = "delete",
                                               !.want[queue[r].doc] = queue[r].ts,
                                               !.src[queue[r].doc] = r]]
          /\ dels' = dels \ {r}
          /\ pc' = [pc EXCEPT ![Poller] = "begin"]
  BY Zenon DEF NextDelete
<1>2. queue[r].doc \in Doc
  BY SMTT(60), ZenonT(60) DEF TypeOK, Row
<1> QED
  BY <1>0, <1>1, <1>2, ZenonT(60) DEF NextDelete, NoJob, Nothing, TypeOK

\* Deletes are only added by a claim.
LEMMA DelsShape ==
  ASSUME TypeOK, [Next]_vars
  PROVE  dels' \subseteq dels \/ ClaimBatch
<1>1. ASSUME NEW p \in Proc, Call(p)
      PROVE  dels' = dels
  BY <1>1, CallShape, Zenon DEF Ends, CallFails, Return, LockDoc, Moving
<1>2. CASE Poll
  BY <1>2, Zenon DEF Poll, DropSuperseded, AckRows, MarkOutcome, NextDelete
<1> QED
  BY <1>1, <1>2, ZenonT(60)
     DEF Next, vars, UpsertDocument, DeleteDocument, AddToQueue, PurgeQueue, PollIdle,
         BackoffElapses, Crash,
       UpsertSync, DeleteSync, StartSync

\* Answers are never taken back.
LEMMA AckedGrows ==
  ASSUME SafeInv, [Next]_vars, NEW d \in Doc
  PROVE  acked[d] <= acked'[d]
<1>1. acked[d] \in Int /\ acked'[d] \in Int
  BY TypeStep, SMTT(60), ZenonT(60) DEF SafeInv, TypeOK, Ts, Absent
<1>2. [LWW!Next]_<<store, acked, delAt>>
  BY LWWStep, Zenon
<1> QED
  BY <1>1, <1>2 DEF LWW!Next, LWW!Upsert, LWW!Delete

\* The poller gets to "ack" only from a call that succeeded.
LEMMA PollerAcks ==
  ASSUME TypeOK, [Next]_vars, pc'[Poller] = "ack"
  PROVE  \/ pc[Poller] = "ack" /\ job'[Poller] = job[Poller]
         \/ \E w \in Versions : Return(Poller, "ok", w)
<1>0. Poller \in Proc
  BY Zenon DEF Proc
<1>1. ASSUME NEW p \in Proc, Call(p), p = Poller
      PROVE  \E w \in Versions : Return(Poller, "ok", w)
  <2>1. CASE Ends(p) \/ CallFails(p)
    <3>1. job[p].want \in Versions
      BY Zenon DEF TypeOK, Job, Versions
    <3>2. PICK w \in Versions, res \in Results : Return(p, res, w)
      BY <2>1, <3>1, Zenon DEF Ends, CallFails, Results
    <3>3. res = "ok"
      BY <1>1, <3>2, Zenon DEF Return, TypeOK
    <3> QED BY <1>1, <3>2, <3>3, Zenon
  <2>2. CASE LockDoc(p)
    BY <1>1, <2>2, Zenon DEF LockDoc, TypeOK
  <2>3. CASE Moving(p)
    BY <1>1, <2>3, Zenon DEF Moving, Moves
  <2> QED BY <1>1, <2>1, <2>2, <2>3, CallShape, Zenon
<1>2. ASSUME NEW p \in Proc \ {Poller}, Call(p)
      PROVE  pc'[Poller] = pc[Poller] /\ job'[Poller] = job[Poller]
  <2>1. CASE Ends(p) \/ CallFails(p)
    BY <1>0, <2>1, Zenon DEF Ends, CallFails, Return, TypeOK
  <2>2. CASE LockDoc(p)
    BY <1>0, <2>2, Zenon DEF LockDoc, TypeOK
  <2>3. CASE Moving(p)
    <3>1. job' = [job EXCEPT ![p] = job'[p]] /\ pc' = [pc EXCEPT ![p] = pc'[p]]
      BY <2>3, SMTT(60), ZenonT(60) DEF Moving
    <3> QED BY <1>0, <3>1, Zenon DEF TypeOK
  <2> QED BY <1>2, <2>1, <2>2, <2>3, CallShape, Zenon
<1>3. ~Poll
  BY <1>0, ZenonT(60)
     DEF Poll, ClaimBatch, DropSuperseded, AckRows, MarkOutcome, NextDelete, TypeOK
<1>4. ASSUME NEW c \in Clients, UpsertSync(c) \/ DeleteSync(c)
      PROVE  pc'[Poller] = pc[Poller] /\ job'[Poller] = job[Poller]
  BY <1>0, <1>4, IngestAssumption, ZenonT(60) DEF UpsertSync, DeleteSync, StartSync, TypeOK
<1>5. ~Crash
  BY <1>0, Zenon DEF Crash
<1> QED
  BY <1>1, <1>2, <1>3, <1>4, <1>5, Zenon
     DEF Next, vars, UpsertDocument, DeleteDocument, AddToQueue, PurgeQueue, PollIdle,
         BackoffElapses

\* The poller has no job at first.
LEMMA JobInit == Init => JobInv
<1> SUFFICES ASSUME Init PROVE JobInv
  BY Zenon
<1>1. job[Poller] = NoJob /\ pc[Poller] = "idle" /\ dels = {}
  BY Zenon DEF Init, Proc
<1>2. Docs(Poller) = {}
  BY <1>1, SMTT(60) DEF Docs, NoJob, Nothing
<1> QED
  BY <1>1, <1>2, Zenon DEF JobInv

\* What JobInv says of one document of the job, and of one pending delete.
LEMMA JobAt ==
  ASSUME JobInv, NEW d \in Docs(Poller)
  PROVE  /\ job[Poller].src[d] \in Rows
         /\ queue[job[Poller].src[d]].status # "unborn"
         /\ queue[job[Poller].src[d]].doc = d
         /\ queue[job[Poller].src[d]].op = job[Poller].op
         /\ queue[job[Poller].src[d]].ts = job[Poller].want[d]
BY Zenon DEF JobInv

\* A pending delete is a delete row that exists.
LEMMA DelAt ==
  ASSUME JobInv, TypeOK, NEW r \in dels
  PROVE  r \in Rows /\ queue[r].op = "delete" /\ queue[r].status # "unborn"
BY Zenon DEF JobInv, TypeOK

\* Every step keeps the poller's job in agreement with its rows.
LEMMA JobStep == SafeInv /\ JobInv /\ [Next]_vars => JobInv'
<1> SUFFICES ASSUME SafeInv, JobInv, [Next]_vars PROVE JobInv'
  BY Zenon
<1>t. TypeOK /\ TypeOK'
  BY TypeStep, SMTT(60), ZenonT(60) DEF SafeInv
<1>1. \A d \in Docs(Poller)' :
        /\ job'[Poller].src[d] \in Rows
        /\ queue'[job'[Poller].src[d]].status # "unborn"
        /\ queue'[job'[Poller].src[d]].doc = d
        /\ queue'[job'[Poller].src[d]].op = job'[Poller].op
        /\ queue'[job'[Poller].src[d]].ts = job'[Poller].want[d]
  <2>1. CASE job'[Poller] = NoJob
    BY <2>1, SMTT(60) DEF NoJob, Nothing, Docs
  <2>2. CASE /\ job'[Poller].op = job[Poller].op /\ job'[Poller].src = job[Poller].src
             /\ \A d \in Doc : job'[Poller].want[d] \in {job[Poller].want[d], Absent}
    <3> TAKE d \in Docs(Poller)'
    <3>1. d \in Docs(Poller) /\ job'[Poller].want[d] = job[Poller].want[d]
      BY <2>2, SMTT(60), ZenonT(60) DEF Docs
    <3> DEFINE r == job[Poller].src[d]
    <3>2. /\ r \in Rows /\ queue[r].status # "unborn" /\ queue[r].doc = d
          /\ queue[r].op = job[Poller].op /\ queue[r].ts = job[Poller].want[d]
      BY <3>1, JobAt, Zenon
    <3>3. RowStays(r)
      BY <1>t, <3>2, RowsStay, Zenon
    <3> HIDE DEF r
    <3>4. job'[Poller].src[d] = r
      BY <2>2, ZenonT(60) DEF r
    <3> QED
      BY <2>2, <3>1, <3>2, <3>3, <3>4, ZenonT(60) DEF RowStays
  <2>3. CASE ClaimBatch
    BY <1>t, <2>3, ClaimedJob, SMTT(60) DEF Docs, Pending
  <2>4. CASE NextDelete /\ dels # {}
    <3>1. PICK r \in dels :
           /\ job'[Poller].op = "delete" /\ UNCHANGED queue
           /\ job'[Poller].src[queue[r].doc] = r /\ job'[Poller].want[queue[r].doc] = queue[r].ts
           /\ \A d \in Doc \ {queue[r].doc} : job'[Poller].want[d] = Absent
      BY <1>t, <2>4, DeleteJob, SMTT(60), ZenonT(60)
    <3>2. r \in Rows /\ queue[r].op = "delete" /\ queue[r].status # "unborn"
      BY <1>t, DelAt, Zenon
    <3> QED BY <3>1, <3>2, ZenonT(60) DEF Docs
  <2>5. \/ job'[Poller] = NoJob
        \/ /\ job'[Poller].op = job[Poller].op /\ job'[Poller].src = job[Poller].src
           /\ \A d \in Doc : job'[Poller].want[d] \in {job[Poller].want[d], Absent}
        \/ ClaimBatch
        \/ NextDelete /\ dels # {}
    BY <1>t, PollerJobShape, ZenonT(60)
  <2> QED BY <2>1, <2>2, <2>3, <2>4, <2>5, Zenon
<1>2. ASSUME pc'[Poller] = "ack", job'[Poller].op = "upsert", NEW d \in Docs(Poller)'
      PROVE  job'[Poller].want[d] <= acked'[d]
  <2>0. d \in Doc
    BY Zenon DEF Docs
  <2>1. CASE pc[Poller] = "ack" /\ job'[Poller] = job[Poller]
    <3>1. job[Poller].want[d] <= acked[d]
      BY <1>2, <2>1, ZenonT(60) DEF JobInv, Docs
    <3>2. /\ job[Poller].want[d] \in Int /\ acked[d] \in Int /\ acked'[d] \in Int
      BY <1>t, <2>0 DEF TypeOK, Job, Ts, Absent, Proc
    <3> QED BY <2>0, <2>1, <3>1, <3>2, AckedGrows, SMTT(60)
  <2>2. ASSUME NEW w \in Versions, Return(Poller, "ok", w)
        PROVE  job'[Poller].want[d] <= acked'[d]
    <3>1. job' = [job EXCEPT ![Poller] = [job[Poller] EXCEPT !.want = w]]
      BY <2>2, Zenon DEF Return
    <3>2. job'[Poller].want = w /\ job'[Poller].op = job[Poller].op
      BY <1>t, <3>1 DEF TypeOK, Job, Proc
    <3>3. acked'[d] = Larger(acked[d], w[d])
      BY <1>2, <2>0, <2>2, <3>2, ZenonT(60) DEF Return
    <3>4. w[d] \in Int /\ acked[d] \in Int
      BY <1>t, <2>0, SMTT(60), ZenonT(60) DEF TypeOK, Versions, Ts, Absent
    <3> QED BY <3>2, <3>3, <3>4, SMTT(60), ZenonT(60) DEF Larger
  <2> QED BY <1>t, <1>2, <2>1, <2>2, PollerAcks, ZenonT(60)
<1>3. \A r \in dels' : queue'[r].op = "delete" /\ queue'[r].status # "unborn"
  <2>1. CASE dels' \subseteq dels
    <3> TAKE r \in dels'
    <3>1. r \in Rows /\ queue[r].op = "delete" /\ queue[r].status # "unborn"
      BY <1>t, <2>1, DelAt, Zenon
    <3>2. RowStays(r)
      BY <1>t, <3>1, RowsStay, Zenon
    <3> QED BY <3>1, <3>2, Zenon DEF RowStays
  <2>2. CASE ClaimBatch
    <3>1. \A r \in Eligible : Pending(r)
      BY Zenon DEF Eligible, Claimed, Fresh, Retries
    <3>2. dels' = {r \in Eligible : queue[r].op = "delete"} /\ queue' = queue
      BY <1>t, <2>2, ClaimedJob, ZenonT(60)
    <3> QED BY <3>1, <3>2, Zenon DEF Pending
  <2> QED BY <1>t, <2>1, <2>2, DelsShape, SMTT(60), ZenonT(60)
<1> QED
  BY <1>1, <1>2, <1>3, Zenon DEF JobInv

-----------------------------------------------------------------------------
(* Cancelled rows. *)

\* Why a row has left the queue tells which step removed it.
LEMMA RemovedBy ==
  ASSUME TypeOK, [Next]_vars, NEW r \in Rows, queue'[r].status # queue[r].status,
         queue'[r].status \in Removed
  PROVE  \/ /\ queue'[r].status = "cancelled"
            /\ \E p \in Proc : Call(p) /\ pc[p] = "cancel" /\ queue[r].doc \in Docs(p)
         \/ queue'[r].status = "purged"
         \/ queue'[r].status = "superseded" /\ DropSuperseded /\ r \in todo
         \/ queue'[r].status = "acked" /\ AckRows /\ \E d \in Docs(Poller) : r = job[Poller].src[d]
<1>0. ASSUME NEW S, NEW why \in Removed, queue' = Without(S, why)
      PROVE  queue'[r].status = why /\ r \in S
  BY <1>0, WithoutStays, ZenonT(60)
<1>1. ASSUME NEW p \in Proc, Call(p)
      PROVE  queue'[r].status = "cancelled" /\ pc[p] = "cancel" /\ queue[r].doc \in Docs(p)
  <2>1. CASE CancelUpserts(p) \/ CancelFails(p)
    <3>1. pc[p] = "cancel" /\ \E d \in Docs(p) :
                                 queue' \in {queue, Without(Covered(d, job[p].want[d]), "cancelled")}
      BY <2>1, ZenonT(60) DEF CancelUpserts, CancelFails
    <3>2. PICK d \in Docs(p) : queue' = Without(Covered(d, job[p].want[d]), "cancelled")
      BY <3>1, SMTT(60), ZenonT(60)
    <3>3. queue'[r].status = "cancelled" /\ r \in Covered(d, job[p].want[d])
      BY <3>2, <1>0, SMTT(60), ZenonT(60) DEF Removed
    <3> QED BY <3>1, <3>3, SMTT(60), ZenonT(60) DEF Covered
  <2>2. CASE ~(CancelUpserts(p) \/ CancelFails(p))
    BY <1>1, <2>2, Zenon DEF Call, Begin, LockDoc, VerifyRows, ReadExisting, CallFails, PatchDocuments,
         PatchFails, AddDocuments, AddDocumentsFails, EraseDocument, EraseFails
  <2> QED BY <2>1, <2>2, ZenonT(60)
<1>2. CASE PurgeQueue
  BY <1>0, <1>2, Zenon DEF PurgeQueue, Removed
<1>3. CASE DropSuperseded
  <2>1. PICK s \in todo : queue' \in {queue, Without({s}, "superseded")}
    BY <1>3, Zenon DEF DropSuperseded, RemoveRows
  <2> QED BY <1>0, <1>3, <2>1, Zenon DEF Removed
<1>4. CASE AckRows
  <2>1. queue' \in {queue, Without({job[Poller].src[d] : d \in Docs(Poller)}, "acked")}
    BY <1>4, Zenon DEF AckRows, RemoveRows
  <2> QED BY <1>0, <1>4, <2>1 DEF Removed
<1>5. ~MarkOutcome
  <2> SUFFICES ASSUME MarkOutcome PROVE FALSE
    BY Zenon
  <2>1. PICK s \in todo : queue' \in {queue, [queue EXCEPT ![s] = Marked(queue[s], err)]}
    BY ZenonT(60) DEF MarkOutcome
  <2>2. queue'[r] = queue[r] \/ queue'[r] = Marked(queue[r], err)
    BY <2>1, ZenonT(60) DEF TypeOK
  <2>3. queue[r] \in Row
    BY SMTT(60), ZenonT(60) DEF TypeOK
  <2> QED BY <2>2, <2>3, MarkedType, Zenon DEF Removed
<1>6. ASSUME NEW d \in Doc, NEW op \in {"upsert", "delete"}, NEW t \in Ts, NEW bad \in BOOLEAN,
             AddToQueue(d, op, t, bad)
      PROVE  FALSE
  <2>1. queue'[r] \in {queue[r], NewRow(d, op, t, bad, "queued")}
    BY <1>6, Zenon DEF AddToQueue, TypeOK
  <2> QED BY <2>1, SMTT(60), ZenonT(60) DEF NewRow, Removed
<1>7. ASSUME NEW s \in Rows, BackoffElapses(s)
      PROVE  FALSE
  <2>1. queue'[r] \in {queue[r], [queue[r] EXCEPT !.waiting = FALSE]}
    BY <1>7, ZenonT(60) DEF BackoffElapses, TypeOK
  <2> QED BY <2>1, Zenon DEF TypeOK, Row
<1> QED
  BY <1>1, <1>2, <1>3, <1>4, <1>5, <1>6, <1>7, ZenonT(60)
     DEF Next, vars, Poll, ClaimBatch, NextDelete,
       PollIdle, Crash, UpsertDocument, DeleteDocument, UpsertSync, DeleteSync, StartSync

\* The poller starts to read only after it has looked its rows up.
LEMMA PollerReads ==
  ASSUME TypeOK, [Next]_vars, pc'[Poller] \in {"read", "patch", "write"}
  PROVE  \/ pc[Poller] \in {"read", "patch", "write"} /\ job'[Poller] = job[Poller]
         \/ /\ VerifyRows(Poller) /\ Moving(Poller) /\ UNCHANGED queue
            /\ \A d \in Docs(Poller)' : Present(job'[Poller].src[d])
<1>0. Poller \in Proc
  BY Zenon DEF Proc
<1>1. ASSUME NEW p \in Proc \ {Poller}, Call(p)
      PROVE  pc'[Poller] = pc[Poller] /\ job'[Poller] = job[Poller]
  <2>1. CASE Ends(p) \/ CallFails(p)
    BY <1>0, <2>1, Zenon DEF Ends, CallFails, Return, TypeOK
  <2>2. CASE LockDoc(p)
    BY <1>0, <2>2, Zenon DEF LockDoc, TypeOK
  <2>3. CASE Moving(p)
    <3>1. job' = [job EXCEPT ![p] = job'[p]] /\ pc' = [pc EXCEPT ![p] = pc'[p]]
      BY <2>3, Zenon DEF Moving
    <3> QED BY <1>0, <3>1, Zenon DEF TypeOK
  <2> QED BY <1>1, <2>1, <2>2, <2>3, CallShape, ZenonT(60)
<1>2. CASE Call(Poller)
  <2>1. ~ \E res, w : Return(Poller, res, w)
    BY <1>0, SMTT(30), ZenonT(30) DEF Return, TypeOK
  <2>2. ~ LockDoc(Poller)
    BY <1>0, SMTT(60), ZenonT(60) DEF LockDoc, TypeOK
  <2>3. Moving(Poller)
    BY <1>0, <1>2, <2>1, <2>2, CallShape, ZenonT(60) DEF Ends, CallFails
  <2>4. CASE pc[Poller] = "verify"
    <3>1. VerifyRows(Poller)
      BY <1>2, <2>1, <2>4, SMTT(60), ZenonT(60) DEF Call, VerifyRows, Begin, LockDoc, ReadExisting, CallFails,
           PatchDocuments, PatchFails, AddDocuments, AddDocumentsFails, CancelUpserts,
           CancelFails, EraseDocument, EraseFails
    <3> DEFINE kept == [d \in Doc |-> IF job[Poller].want[d] # Absent /\ Present(job[Poller].src[d])
                                      THEN job[Poller].want[d] ELSE Absent]
    <3>2. job' = [job EXCEPT ![Poller] = [job[Poller] EXCEPT !.want = kept]] /\ UNCHANGED queue
      BY <2>1, <3>1, Zenon DEF VerifyRows
    <3>3. job'[Poller].want = kept /\ job'[Poller].src = job[Poller].src
      BY <1>0, <3>2 DEF TypeOK, Job
    <3>4. \A d \in Docs(Poller)' : Present(job'[Poller].src[d])
      BY <3>3, SMTT(60), ZenonT(60) DEF Docs
    <3> QED BY <2>3, <3>1, <3>2, <3>4, SMTT(60), ZenonT(60)
  <2>5. CASE pc[Poller] # "verify"
    BY <2>3, <2>5, Zenon DEF Moving, Moves
  <2> QED BY <2>4, <2>5, Zenon
<1>3. ~Poll
  <2>1. Poll => pc'[Poller] \notin Working
    BY PollShape, SMTT(60), ZenonT(60)
  <2> QED BY <2>1, Zenon DEF Working
<1>4. ASSUME NEW c \in Clients, UpsertSync(c) \/ DeleteSync(c)
      PROVE  pc'[Poller] = pc[Poller] /\ job'[Poller] = job[Poller]
  BY <1>0, <1>4, IngestAssumption, ZenonT(60) DEF UpsertSync, DeleteSync, StartSync, TypeOK
<1>5. ~Crash
  BY <1>0, Zenon DEF Crash
<1> QED
  BY <1>1, <1>2, <1>3, <1>4, <1>5, ZenonT(60)
     DEF Next, vars, UpsertDocument, DeleteDocument, AddToQueue, PurgeQueue, PollIdle,
         BackoffElapses

\* An upsert that a delete has cancelled is not written by the poller.
THEOREM CancelledIsNotWritten == Spec => []NoResurrection
<1> DEFINE I == SafeInv /\ JobInv /\ NoResurrection
<1>1. Init => I
  BY SafeInvInit, JobInit, SMTT(60), ZenonT(60) DEF Init, NoResurrection, Proc
<1>2. I /\ [Next]_vars => I'
  <2> SUFFICES ASSUME SafeInv, JobInv, NoResurrection, [Next]_vars PROVE NoResurrection'
    BY SafeInvStep, JobStep, SMTT(60), ZenonT(60)
  <2> SUFFICES ASSUME pc'[Poller] \in {"read", "patch", "write"}, NEW d \in Docs(Poller)'
               PROVE  queue'[job'[Poller].src[d]].status # "cancelled"
    BY Zenon DEF NoResurrection
  <2>t. TypeOK /\ LockInv
    BY SMTT(60), ZenonT(60) DEF SafeInv
  <2>1. CASE pc[Poller] \in {"read", "patch", "write"} /\ job'[Poller] = job[Poller]
    <3> DEFINE r == job[Poller].src[d]
    <3>1. d \in Docs(Poller) /\ r \in Rows /\ queue[r].doc = d /\ queue[r].status # "cancelled"
      <4>1. d \in Docs(Poller)
        BY <2>1, Zenon DEF Docs
      <4>2. queue[r].status # "cancelled"
        BY <2>1, <4>1, ZenonT(60) DEF NoResurrection
      <4> QED BY <4>1, <4>2, JobAt, Zenon
    <3>2. lock[d] = Poller
      BY <2>1, <2>t, <3>1, SMTT(60), ZenonT(60) DEF LockInv, Working, Proc
    <3>3. ~ \E p \in Proc : pc[p] = "cancel" /\ queue[r].doc \in Docs(p)
      BY <2>1, <2>t, <3>1, <3>2 DEF LockInv, Working
    <3> QED
      BY <2>1, <2>t, <3>1, <3>3, RemovedBy, SMTT(60), ZenonT(60) DEF Removed
  <2>2. CASE UNCHANGED queue /\ \A e \in Docs(Poller)' : Present(job'[Poller].src[e])
    BY <2>2, Zenon DEF Present, InQueue
  <2> QED BY <2>t, <2>1, <2>2, PollerReads, Zenon
<1>3. I => NoResurrection
  BY Zenon
<1> QED
  BY <1>1, <1>2, <1>3, PTL DEF Spec

-----------------------------------------------------------------------------
(* Superseded rows. *)

\* The poller drops superseded rows of a batch it has just claimed.
LEMMA PollerSupersedes ==
  ASSUME TypeOK, [Next]_vars, pc'[Poller] = "supersede"
  PROVE  ClaimBatch \/ (pc[Poller] = "supersede" /\ todo' \subseteq todo)
<1>0. Poller \in Proc
  BY Zenon DEF Proc
<1>1. ASSUME NEW p \in Proc, Call(p)
      PROVE  p # Poller /\ pc[Poller] = "supersede" /\ todo' = todo
  <2>1. CASE Ends(p) \/ CallFails(p)
    BY <1>0, <2>1 DEF Ends, CallFails, Return, TypeOK
  <2>2. CASE LockDoc(p)
    BY <1>0, <2>2, Zenon DEF LockDoc, TypeOK
  <2>3. CASE Moving(p)
    <3>1. pc' = [pc EXCEPT ![p] = pc'[p]] /\ pc'[p] # "supersede" /\ todo' = todo
      BY <2>3, Zenon DEF Moving, Moves
    <3> QED BY <1>0, <3>1, Zenon DEF TypeOK
  <2> QED BY <1>1, <2>1, <2>2, <2>3, CallShape, Zenon
<1>2. CASE Poll
  BY <1>0, <1>2, Zenon DEF Poll, DropSuperseded, AckRows, MarkOutcome, NextDelete, TypeOK
<1>3. ASSUME NEW c \in Clients, UpsertSync(c) \/ DeleteSync(c)
      PROVE  pc'[Poller] = pc[Poller] /\ todo' = todo
  BY <1>0, <1>3, IngestAssumption, Zenon DEF UpsertSync, DeleteSync, StartSync, TypeOK
<1>4. ~Crash
  BY <1>0, Zenon DEF Crash
<1> QED
  BY <1>1, <1>2, <1>3, <1>4, ZenonT(60)
     DEF Next, vars, UpsertDocument, DeleteDocument, AddToQueue, PurgeQueue, PollIdle,
         BackoffElapses

\* Every step keeps a newer row for each row about to be dropped as superseded.
LEMMA SupersedeStep == TypeOK /\ SupersedeInv /\ [Next]_vars => SupersedeInv'
<1> SUFFICES ASSUME TypeOK, SupersedeInv, [Next]_vars, pc'[Poller] = "supersede", NEW r \in todo'
             PROVE  /\ queue'[r].status # "unborn"
                    /\ \E s \in Rows \ todo' :
                         /\ queue'[s].op = "upsert" /\ queue'[s].doc = queue'[r].doc
                         /\ queue'[r].ts <= queue'[s].ts
                         /\ queue'[s].status \in InQueue \cup {"cancelled", "purged"}
  BY Zenon DEF SupersedeInv
<1>t. r \in Rows /\ TypeOK'
  BY TypeStep, SMTT(60), ZenonT(60) DEF TypeOK
<1>1. CASE ClaimBatch
  <2> DEFINE d == queue[r].doc
             s == job'[Poller].src[d]
  <2>1. r \in Eligible /\ queue[r].op = "upsert" /\ d \in Doc /\ UNCHANGED queue
    <3>1. queue[r] \in Row   BY <1>t, Zenon DEF TypeOK
    <3>2. d \in Doc   BY <3>1, Zenon DEF Row
    <3>3. r \in Eligible /\ queue[r].op = "upsert" /\ UNCHANGED queue   BY <1>1, ClaimedJob, ZenonT(60)
    <3> QED   BY <3>2, <3>3, Zenon
  <2>2. r \in UpsertsOf(d)
    BY <2>1, ZenonT(60) DEF UpsertsOf
  <2>3. s # NoRow
    BY <1>1, <2>1, <2>2, ClaimedJob, SMTT(60), ZenonT(60)
  <2>4. /\ s \in Rows /\ Pending(s) /\ queue[s].op = "upsert" /\ queue[s].doc = d
        /\ queue[r].ts <= queue[s].ts
    BY <1>1, <2>1, <2>2, <2>3, ClaimedJob, SMTT(60), ZenonT(60)
  <2>5. s \notin todo'
    BY <1>1, <2>1, <2>3, ClaimedJob
  <2>6. queue[r].status # "unborn"
    BY <2>1, Zenon DEF Eligible, Claimed, Fresh, Retries, Pending
  <2>7. queue[s].status \in InQueue
    BY <2>4, Zenon DEF Pending, InQueue
  <2> HIDE DEF s
  <2> QED
    BY <2>1, <2>4, <2>5, <2>6, <2>7, Zenon
<1>2. CASE pc[Poller] = "supersede" /\ todo' \subseteq todo
  <2>1. PICK s \in Rows \ todo : /\ queue[s].op = "upsert" /\ queue[s].doc = queue[r].doc
                                 /\ queue[r].ts <= queue[s].ts
                                 /\ queue[s].status \in InQueue \cup {"cancelled", "purged"}
    BY <1>2, Zenon DEF SupersedeInv
  <2>2. RowStays(r) /\ RowStays(s)
    BY <1>t, <1>2, <2>1, RowsStay, Zenon DEF InQueue, SupersedeInv
  <2>3. queue'[s].status \in InQueue \cup Removed
    BY <1>t, <2>2, Zenon DEF RowStays, TypeOK, Row, Status
  <2>4. ~AckRows
    BY <1>2, Zenon DEF AckRows
  <2>5. queue'[s].status \in InQueue \cup {"cancelled", "purged"}
    BY <2>1, <2>3, <2>4, RemovedBy, Zenon DEF Removed
  <2> QED
    BY <1>2, <2>1, <2>2, <2>5, Zenon DEF RowStays
<1> QED
  BY <1>1, <1>2, PollerSupersedes, Zenon

-----------------------------------------------------------------------------
(* No upsert is lost. *)

\* A row enters the queue as one that is present.
LEMMA UnbornIsBorn ==
  ASSUME TypeOK, [Next]_vars, NEW r \in Rows, queue[r].status = "unborn",
         queue'[r].status # "unborn"
  PROVE  queue'[r].status \in InQueue
<1>1. CASE \E S \in SUBSET Rows, why \in Removed : queue' = Without(S, why)
  BY <1>1, WithoutStays, Zenon DEF Present, InQueue
<1>2. ASSUME NEW d \in Doc, NEW op \in {"upsert", "delete"}, NEW t \in Ts, NEW bad \in BOOLEAN,
             AddToQueue(d, op, t, bad)
      PROVE  queue'[r].status \in InQueue
  <2>1. queue'[r] = queue[r] \/ queue'[r] = NewRow(d, op, t, bad, "queued")
    BY <1>2, Zenon DEF AddToQueue, TypeOK
  <2> QED BY <2>1 DEF NewRow, InQueue
<1>3. ASSUME NEW s \in todo, Present(s), queue' = [queue EXCEPT ![s] = Marked(queue[s], err)]
      PROVE  FALSE
  BY <1>3, Zenon DEF Present, InQueue, TypeOK
<1>4. ASSUME NEW s \in Rows, BackoffElapses(s)
      PROVE  FALSE
  <2>1. queue'[r] = queue[r] \/ queue'[r] = [queue[r] EXCEPT !.waiting = FALSE]
    BY <1>4, Zenon DEF BackoffElapses, TypeOK
  <2> QED BY <2>1, Zenon DEF TypeOK, Row
<1> QED
  BY <1>1, <1>2, <1>3, <1>4, QueueShape, Zenon

\* An upsert that is accounted for stays so, or gives way to one that is.
LEMMA SettledStep ==
  ASSUME SafeInv, JobInv, SupersedeInv, [Next]_vars, NEW s \in Rows,
         queue[s].op = "upsert", queue[s].status # "unborn", Settled(s)
  PROVE  \/ Settled(s)' /\ queue'[s].status # "superseded"
         \/ /\ queue'[s].status = "superseded"
            /\ \E u \in Rows : /\ queue'[u].op = "upsert" /\ queue'[u].doc = queue[s].doc
                               /\ queue[s].ts <= queue'[u].ts
                               /\ Settled(u)'
<1>t. TypeOK /\ TypeOK'
  BY TypeStep, Zenon DEF SafeInv
<1>1. RowStays(s)
  BY <1>t, RowsStay, Zenon
<1>2. queue'[s].status \in InQueue \cup Removed
  BY <1>t, <1>1, ZenonT(60) DEF RowStays, TypeOK, Row, Status
<1>3. CASE queue'[s].status = queue[s].status
  <2>1. CASE queue[s].status = "acked"
    <3>1. queue[s].doc \in Doc /\ queue[s].ts \in Int
      BY <1>t, SMTT(60), ZenonT(60) DEF TypeOK, Row, Ts
    <3>2. acked[queue[s].doc] \in Int /\ acked'[queue[s].doc] \in Int
      BY <1>t, <3>1, SMTT(60), ZenonT(60) DEF TypeOK, Ts, Absent
    <3>3. queue[s].ts <= acked[queue[s].doc]
      BY <2>1, Zenon DEF Settled, Present, InQueue
    <3>4. queue[s].ts <= acked'[queue[s].doc]
      BY <3>1, <3>2, <3>3, AckedGrows, SMTT(60), ZenonT(60)
    <3> QED BY <1>1, <1>3, <2>1, <3>4, Zenon DEF Settled, RowStays
  <2>2. CASE queue[s].status # "acked"
    BY <1>3, <2>2, ZenonT(60) DEF Settled, Present, InQueue
  <2> QED BY <2>1, <2>2, Zenon
<1>4. CASE queue'[s].status \in InQueue
  BY <1>4, ZenonT(60) DEF Settled, Present, InQueue
<1>5. CASE queue'[s].status # queue[s].status /\ queue'[s].status \in Removed
  <2>1. CASE queue'[s].status \in {"cancelled", "purged"}
    BY <2>1, SMTT(60), ZenonT(60) DEF Settled
  <2>2. CASE queue'[s].status = "acked" /\ AckRows /\ \E d \in Docs(Poller) : s = job[Poller].src[d]
    <3>1. PICK d \in Docs(Poller) : s = job[Poller].src[d]
      BY <2>2, SMTT(60), ZenonT(60)
    <3>2. queue[s].doc = d /\ queue[s].ts = job[Poller].want[d] /\ job[Poller].op = "upsert"
      BY <3>1, SMTT(60), ZenonT(60) DEF JobInv
    <3>3. queue[s].ts <= acked[d] /\ acked' = acked
      BY <2>2, <3>1, <3>2, Zenon DEF JobInv, AckRows
    <3> QED BY <1>1, <2>2, <3>2, <3>3, ZenonT(60) DEF Settled, RowStays
  <2>3. CASE queue'[s].status = "superseded" /\ DropSuperseded /\ s \in todo
    <3>1. pc[Poller] = "supersede"
      BY <2>3, Zenon DEF DropSuperseded
    <3>2. PICK u \in Rows \ todo :
             /\ queue[u].op = "upsert" /\ queue[u].doc = queue[s].doc
             /\ queue[s].ts <= queue[u].ts
             /\ queue[u].status \in InQueue \cup {"cancelled", "purged"}
      BY <2>3, <3>1, Zenon DEF SupersedeInv
    <3>3. queue'[u] = queue[u]
      BY <2>3, <3>2, Zenon DEF DropSuperseded, RemoveRows, Without, TypeOK
    <3> QED BY <2>3, <3>2, <3>3, SMTT(60), ZenonT(60) DEF Settled, Present
  <2> QED
    BY <1>t, <1>5, <2>1, <2>2, <2>3, RemovedBy, SMTT(60), ZenonT(60)
<1> QED
  BY <1>2, <1>3, <1>4, <1>5, Zenon

\* Every upsert that was ever queued is still there, was answered, cancelled or
\* purged, or gave way to one that is as new.
THEOREM NoUpsertIsLost == Spec => []NoUpsertLost
<1> DEFINE I == SafeInv /\ JobInv /\ SupersedeInv /\ NoUpsertLost
<1>1. Init => I
  <2>1. Init => SupersedeInv
    BY Zenon DEF Init, SupersedeInv
  <2>2. Init => NoUpsertLost
    BY DEF Init, NoUpsertLost, NewRow
  <2> QED BY <2>1, <2>2, SafeInvInit, JobInit, Zenon
<1>2. I /\ [Next]_vars => I'
  <2> SUFFICES ASSUME SafeInv, JobInv, SupersedeInv, NoUpsertLost, [Next]_vars
               PROVE  NoUpsertLost'
    BY SafeInvStep, JobStep, SupersedeStep, Zenon DEF SafeInv
  <2>t. TypeOK /\ TypeOK'
    BY TypeStep, ZenonT(60) DEF SafeInv
  <2> SUFFICES ASSUME NEW r \in Rows, queue'[r].op = "upsert", queue'[r].status # "unborn"
               PROVE  \E s \in Rows : /\ queue'[s].op = "upsert" /\ queue'[s].doc = queue'[r].doc
                                      /\ queue'[r].ts <= queue'[s].ts
                                      /\ (queue'[r].status # "superseded" => s = r)
                                      /\ Settled(s)'
    BY Zenon DEF NoUpsertLost
  <2>n. \A s \in Rows : queue[s].ts \in Int /\ queue'[s].ts \in Int
    BY <2>t DEF TypeOK, Row, Ts
  <2>1. CASE queue[r].status = "unborn"
    <3>1. queue'[r].status \in InQueue
      BY <2>t, <2>1, UnbornIsBorn, Zenon
    <3> QED BY <2>n, <3>1 DEF Settled, Present
  <2>2. CASE queue[r].status # "unborn"
    <3>1. RowStays(r)
      BY <2>t, <2>2, RowsStay, Zenon
    <3>2. PICK s \in Rows : /\ queue[s].op = "upsert" /\ queue[s].doc = queue[r].doc
                            /\ queue[r].ts <= queue[s].ts
                            /\ (queue[r].status # "superseded" => s = r)
                            /\ Settled(s)
      BY <2>2, <3>1, Zenon DEF NoUpsertLost, RowStays
    <3>3. queue[s].status # "unborn"
      BY <3>2, Zenon DEF Settled, Present, InQueue
    <3>4. RowStays(s)
      BY <2>t, <3>3, RowsStay, ZenonT(60)
    <3>5. CASE Settled(s)' /\ queue'[s].status # "superseded"
      <4>1. queue'[r].status # "superseded" => s = r
        BY <3>1, <3>2, Zenon DEF RowStays, Removed
      <4> QED BY <3>1, <3>2, <3>4, <3>5, <4>1, Zenon DEF RowStays
    <3>6. CASE ~(Settled(s)' /\ queue'[s].status # "superseded")
      <4>1. PICK u \in Rows : /\ queue'[u].op = "upsert" /\ queue'[u].doc = queue[s].doc
                              /\ queue[s].ts <= queue'[u].ts
                              /\ Settled(u)'
        BY <3>2, <3>3, <3>6, SettledStep, Zenon
      <4>2. queue'[r].status = "superseded"
        <5>1. queue'[s].status = "superseded"
          BY <3>2, <3>3, <3>6, SettledStep, Zenon
        <5> QED BY <3>1, <3>2, <5>1, Zenon DEF RowStays, Removed
      <4> QED BY <2>n, <3>1, <3>2, <4>1, <4>2, SMTT(60) DEF RowStays
    <3> QED BY <3>5, <3>6, Zenon
  <2> QED BY <2>1, <2>2, Zenon
<1>3. I => NoUpsertLost
  BY Zenon
<1> QED
  BY <1>1, <1>2, <1>3, PTL DEF Spec

-----------------------------------------------------------------------------
(* A row that was given up stays given up. *)

\* Only mark_outcome gives a row up.
LEMMA FailedByMark ==
  ASSUME TypeOK, [Next]_vars, NEW r \in Rows, queue[r].status # "failed", queue'[r].status = "failed"
  PROVE  MarkOutcome /\ r \in todo /\ todo' = todo \ {r} /\ UNCHANGED dels
<1>1. CASE \E S \in SUBSET Rows, why \in Removed : queue' = Without(S, why)
  BY <1>1, WithoutStays, ZenonT(40) DEF Removed
<1>2. ASSUME NEW d \in Doc, NEW op \in {"upsert", "delete"}, NEW t \in Ts, NEW bad \in BOOLEAN,
             AddToQueue(d, op, t, bad)
      PROVE  FALSE
  <2>1. queue'[r] = queue[r] \/ queue'[r] = NewRow(d, op, t, bad, "queued")
    BY <1>2, Zenon DEF AddToQueue, TypeOK
  <2> QED BY <2>1 DEF NewRow
<1>3. CASE MarkOutcome
  <2>1. PICK s \in todo : /\ queue' = [queue EXCEPT ![s] = Marked(queue[s], err)] \/ queue' = queue
                          /\ todo' = todo \ {s}
    BY <1>3, Zenon DEF MarkOutcome
  <2>2. r = s
    BY <2>1, Zenon DEF TypeOK
  <2> QED BY <1>3, <2>1, <2>2, Zenon DEF MarkOutcome
<1>4. ASSUME NEW s \in Rows, BackoffElapses(s)
      PROVE  FALSE
  <2>1. queue'[r] = queue[r] \/ queue'[r] = [queue[r] EXCEPT !.waiting = FALSE]
    BY <1>4, Zenon DEF BackoffElapses, TypeOK
  <2> QED BY <2>1, Zenon DEF TypeOK, Row
<1> QED
  BY <1>1, <1>2, <1>3, <1>4, QueueShape, SMTT(60), ZenonT(60)

\* The poller marks exactly the rows of the call that failed.
LEMMA PollerMarks ==
  ASSUME TypeOK, [Next]_vars, pc'[Poller] = "mark"
  PROVE  \/ /\ pc[Poller] # "mark" /\ todo' = Work(Poller) /\ ~MarkOutcome
            /\ job'[Poller].src = job[Poller].src
         \/ pc[Poller] = "mark" /\ job'[Poller] = job[Poller] /\ todo' \subseteq todo
<1>0. Poller \in Proc
  BY Zenon DEF Proc
<1>1. ASSUME NEW p \in Proc \ {Poller}, Call(p)
      PROVE  pc'[Poller] = pc[Poller] /\ job'[Poller] = job[Poller] /\ todo' = todo
  <2>1. CASE Ends(p) \/ CallFails(p)
    BY <1>0, <2>1, Zenon DEF Ends, CallFails, Return, TypeOK
  <2>2. CASE LockDoc(p)
    BY <1>0, <2>2, Zenon DEF LockDoc, TypeOK
  <2>3. CASE Moving(p)
    <3>1. job' = [job EXCEPT ![p] = job'[p]] /\ pc' = [pc EXCEPT ![p] = pc'[p]] /\ todo' = todo
      BY <2>3, Zenon DEF Moving
    <3> QED BY <1>0, <3>1, ZenonT(60) DEF TypeOK
  <2> QED BY <1>1, <2>1, <2>2, <2>3, CallShape, Zenon
<1>2. CASE Call(Poller)
  <2>0. pc[Poller] # "mark"
    BY <1>0, <1>2, CallShape, SMTT(60), ZenonT(60) DEF Working
  <2>1. PICK res, w : Return(Poller, res, w)
    BY <1>0, <1>2, CallShape, SMTT(60), ZenonT(60) DEF Ends, CallFails, LockDoc, Moving, Moves, TypeOK
  <2>2. todo' = Work(Poller)
    BY <1>0, <2>1, Zenon DEF Return, TypeOK
  <2>3. job' = [job EXCEPT ![Poller] = [job[Poller] EXCEPT !.want = w]]
    BY <2>1, Zenon DEF Return
  <2>4. job'[Poller].src = job[Poller].src
    BY <1>0, <2>3, SMTT(30), ZenonT(30) DEF TypeOK, Job
  <2> QED BY <2>0, <2>2, <2>4, Zenon DEF MarkOutcome
<1>3. CASE Poll
  BY <1>0, <1>3, ZenonT(60)
     DEF Poll, ClaimBatch, DropSuperseded, AckRows, MarkOutcome, NextDelete, TypeOK
<1>4. ASSUME NEW c \in Clients, UpsertSync(c) \/ DeleteSync(c)
      PROVE  pc'[Poller] = pc[Poller] /\ job'[Poller] = job[Poller] /\ todo' = todo
  BY <1>0, <1>4, IngestAssumption, ZenonT(60) DEF UpsertSync, DeleteSync, StartSync, TypeOK
<1>5. ~Crash
  BY <1>0, Zenon DEF Crash
<1> QED
  BY <1>1, <1>2, <1>3, <1>4, <1>5, Zenon
     DEF Next, vars, UpsertDocument, DeleteDocument, AddToQueue, PurgeQueue, PollIdle,
         BackoffElapses

\* Once all are marked, the poller is done with the job.
LEMMA PollerMarked ==
  ASSUME TypeOK, [Next]_vars, pc[Poller] = "mark", pc'[Poller] # "mark"
  PROVE  job'[Poller] = NoJob
<1>0. Poller \in Proc
  BY Zenon DEF Proc
<1>1. ASSUME NEW p \in Proc, Call(p)
      PROVE  FALSE
  <2>0. p # Poller
    BY <1>1, CallShape, Zenon DEF Working
  <2>1. CASE Ends(p) \/ CallFails(p)
    BY <1>0, <2>0, <2>1, ZenonT(60) DEF Ends, CallFails, Return, TypeOK
  <2>2. CASE LockDoc(p)
    BY <1>0, <2>0, <2>2, Zenon DEF LockDoc, TypeOK
  <2>3. CASE Moving(p)
    <3>1. pc' = [pc EXCEPT ![p] = pc'[p]]
      BY <2>3, ZenonT(60) DEF Moving
    <3> QED BY <1>0, <2>0, <3>1, Zenon DEF TypeOK
  <2> QED BY <1>1, <2>1, <2>2, <2>3, CallShape, Zenon
<1>2. CASE Poll
  BY <1>0, <1>2, SMTT(60), ZenonT(60)
     DEF Poll, ClaimBatch, DropSuperseded, AckRows, MarkOutcome, NextDelete, TypeOK
<1>3. ASSUME NEW c \in Clients, UpsertSync(c) \/ DeleteSync(c)
      PROVE  FALSE
  BY <1>0, <1>3, IngestAssumption, Zenon DEF UpsertSync, DeleteSync, StartSync, TypeOK
<1>4. CASE Crash
  BY <1>0, <1>4, Zenon DEF Crash
<1> QED
  BY <1>1, <1>2, <1>3, <1>4, ZenonT(60)
     DEF Next, vars, UpsertDocument, DeleteDocument, AddToQueue, PurgeQueue, PollIdle,
         BackoffElapses

\* Every step keeps the rows of the batch unfinished until they are marked.
LEMMA WorkStep == TypeOK /\ JobInv /\ WorkInv /\ [Next]_vars => WorkInv'
<1> SUFFICES ASSUME TypeOK, JobInv, WorkInv, [Next]_vars PROVE WorkInv'
  BY Zenon
<1>w. Work(Poller) \subseteq Rows /\ Poller \in Proc
  BY DEF Work, TypeOK, Job, Proc
<1>e. \A r \in Eligible : r \in Rows /\ queue[r].status \notin {"unborn", "failed"}
  BY Zenon DEF Eligible, Claimed, Fresh, Retries, Pending
<1>m. MarkOutcome => pc[Poller] = "mark"
  BY ZenonT(60) DEF MarkOutcome
<1>1. CASE ClaimBatch
  <2>1. \A r \in Work(Poller)' : r \in Eligible /\ queue[r].op = "upsert"
    BY <1>1, ClaimedJob, SMTT(60) DEF Work
  <2>2. \A r \in dels' : r \in Eligible /\ queue[r].op = "delete"
    BY <1>1, ClaimedJob, SMTT(60), ZenonT(60)
  <2>3. pc'[Poller] # "mark" /\ queue' = queue
    BY <1>1, ClaimedJob, SMTT(60), ZenonT(60)
  <2> QED
    BY <1>e, <2>1, <2>2, <2>3, SMTT(60), ZenonT(60) DEF WorkInv
<1>2. CASE NextDelete /\ dels # {}
  <2>1. PICK r \in dels :
           /\ UNCHANGED queue /\ dels' = dels \ {r}
           /\ job'[Poller].src[queue[r].doc] = r
           /\ \A d \in Doc \ {queue[r].doc} : job'[Poller].src[d] = NoRow
           /\ pc'[Poller] = "begin"
    BY <1>2, DeleteJob, Zenon
  <2>2. Work(Poller)' \subseteq {r}
    BY <2>1, Zenon DEF Work
  <2> QED
    BY <2>1, <2>2, SMTT(60), ZenonT(60) DEF WorkInv, JobInv
<1>3. CASE ~ClaimBatch /\ ~(NextDelete /\ dels # {})
  <2>1. Work(Poller)' \subseteq Work(Poller)
    <3>1. CASE job'[Poller] = NoJob
      <4>1. NoJob.src = [d \in Doc |-> NoRow]   BY DEF NoJob
      <4>2. \A d \in Doc : job'[Poller].src[d] = NoRow   BY <3>1, <4>1, Zenon
      <4> QED   BY <4>2, Zenon DEF Work
    <3>2. CASE job'[Poller].src = job[Poller].src
      BY <3>2, Zenon DEF Work
    <3> QED BY <1>3, <3>1, <3>2, PollerJobShape, Zenon
  <2>2. dels' \subseteq dels
    BY <1>3, DelsShape, ZenonT(60)
  <2>3. \A r \in Work(Poller)' : queue'[r].status # "unborn"
    BY <1>w, <2>1, RowsStay, SMTT(60), ZenonT(60) DEF WorkInv, RowStays
  <2>4. \A r \in dels' : queue'[r].status # "failed"
    BY <1>m, <2>2, FailedByMark, SMTT(60), ZenonT(60) DEF WorkInv, TypeOK
  <2>5. CASE pc'[Poller] = "mark"
    <3>1. CASE /\ pc[Poller] # "mark" /\ todo' = Work(Poller) /\ ~MarkOutcome
               /\ job'[Poller].src = job[Poller].src
      <4>1. Work(Poller)' = Work(Poller)
        BY <3>1, ZenonT(60) DEF Work
      <4>2. \A r \in todo' : queue'[r].status # "failed"
        BY <1>w, <3>1, FailedByMark, ZenonT(60) DEF WorkInv
      <4> QED BY <2>1, <2>2, <2>3, <2>4, <2>5, <3>1, <4>1, <4>2, Zenon DEF WorkInv
    <3>2. CASE pc[Poller] = "mark" /\ job'[Poller] = job[Poller] /\ todo' \subseteq todo
      <4>1. Work(Poller)' = Work(Poller)
        BY <3>2, SMTT(60), ZenonT(60) DEF Work
      <4>2. \A r \in todo' : queue'[r].status # "failed"
        BY <1>w, <3>2, FailedByMark DEF WorkInv, TypeOK
      <4> QED BY <2>1, <2>2, <2>3, <2>4, <2>5, <3>2, <4>1, <4>2, Zenon DEF WorkInv
    <3> QED BY <2>5, <3>1, <3>2, PollerMarks, SMTT(60), ZenonT(60)
  <2>6. CASE pc'[Poller] # "mark"
    <3>1. CASE pc[Poller] = "mark"
      <4>1. Work(Poller)' = {}
        BY <2>6, <3>1, PollerMarked, SMTT(60), ZenonT(60) DEF Work, NoJob
      <4> QED BY <2>2, <2>4, <2>6, <4>1, SMTT(60), ZenonT(60) DEF WorkInv
    <3>2. CASE pc[Poller] # "mark"
      <4>1. \A r \in Work(Poller)' : queue'[r].status # "failed"
        BY <1>w, <1>m, <2>1, <3>2, FailedByMark, SMTT(60), ZenonT(60) DEF WorkInv
      <4> QED BY <2>1, <2>2, <2>3, <2>4, <2>6, <4>1, SMTT(60), ZenonT(60) DEF WorkInv
    <3> QED BY <3>1, <3>2, SMTT(60), ZenonT(60)
  <2> QED BY <2>5, <2>6, Zenon
<1> QED BY <1>1, <1>2, <1>3, Zenon

\* A row that was given up is not marked again.
LEMMA FailedStays ==
  ASSUME TypeOK, WorkInv, [Next]_vars, NEW r \in Rows, queue[r].status = "failed"
  PROVE  queue'[r].status \in Removed \cup {"failed"}
<1>1. CASE \E S \in SUBSET Rows, why \in Removed : queue' = Without(S, why)
  BY <1>1, WithoutStays, ZenonT(40) DEF Removed
<1>2. ASSUME NEW d \in Doc, NEW op \in {"upsert", "delete"}, NEW t \in Ts, NEW bad \in BOOLEAN,
             AddToQueue(d, op, t, bad)
      PROVE  queue'[r] = queue[r]
  BY <1>2, Zenon DEF AddToQueue, TypeOK
<1>3. ASSUME NEW s \in todo, MarkOutcome, queue' = [queue EXCEPT ![s] = Marked(queue[s], err)]
      PROVE  queue'[r] = queue[r]
  <2>1. r # s
    BY <1>3, Zenon DEF MarkOutcome, WorkInv
  <2> QED BY <1>3, <2>1, Zenon DEF TypeOK
<1>4. ASSUME NEW s \in Rows, BackoffElapses(s)
      PROVE  queue'[r].status = queue[r].status
  <2>1. queue'[r] = queue[r] \/ queue'[r] = [queue[r] EXCEPT !.waiting = FALSE]
    BY <1>4, Zenon DEF BackoffElapses, TypeOK
  <2> QED BY <2>1, ZenonT(60) DEF TypeOK, Row
<1> QED
  BY <1>1, <1>2, <1>3, <1>4, QueueShape, SMTT(60), ZenonT(60)

\* A row that was given up or removed is never work again.
THEOREM SettledRowsStay == Spec => SettledStays
<1> DEFINE I == TypeOK /\ JobInv /\ WorkInv /\ SafeInv
<1>1. Init => I
  <2>1. Init => WorkInv
    <3> SUFFICES ASSUME Init PROVE WorkInv
      BY Zenon
    <3>1. job[Poller] = NoJob /\ pc[Poller] = "idle" /\ dels = {}
      BY Zenon DEF Init, Proc
    <3>2. Work(Poller) = {}
      <4>1. NoJob.src = [d \in Doc |-> NoRow]   BY DEF NoJob
      <4>2. \A d \in Doc : job[Poller].src[d] = NoRow   BY <3>1, <4>1, Zenon
      <4> QED   BY <4>2, Zenon DEF Work
    <3> QED BY <3>1, <3>2, Zenon DEF WorkInv
  <2> QED BY <2>1, TypeInit, JobInit, SafeInvInit, Zenon
<1>2. I /\ [Next]_vars => I'
  BY TypeStep, JobStep, WorkStep, SafeInvStep, Zenon
<1>3. I /\ [Next]_vars =>
        [\A r \in Rows :
           /\ queue[r].status \in Removed \cup {"failed"} => queue'[r].status \in Removed \cup {"failed"}
           /\ queue[r].status # "unborn" => queue[r].tries <= queue'[r].tries]_vars
  <2> SUFFICES ASSUME I, [Next]_vars, NEW r \in Rows
               PROVE  /\ queue[r].status \in Removed \cup {"failed"} =>
                           queue'[r].status \in Removed \cup {"failed"}
                      /\ queue[r].status # "unborn" => queue[r].tries <= queue'[r].tries
    BY SMTT(60), ZenonT(60)
  <2>0. TypeOK /\ TypeOK' /\ queue[r] \in Row /\ queue'[r] \in Row
    BY TypeStep, Zenon DEF TypeOK
  <2>1. CASE queue[r].status = "unborn"
    BY <2>1, SMTT(60), ZenonT(60) DEF Removed
  <2>2. CASE queue[r].status # "unborn"
    <3>1. RowStays(r)
      BY <2>0, <2>2, RowsStay, Zenon
    <3>2. queue[r].status = "failed" => queue'[r].status \in Removed \cup {"failed"}
      BY <2>0, FailedStays, Zenon DEF WorkInv
    <3> QED BY <3>1, <3>2, Zenon DEF RowStays
  <2> QED BY <2>1, <2>2, ZenonT(60)
<1> QED
  BY <1>1, <1>2, <1>3, PTL DEF Spec, SettledStays
=============================================================================
