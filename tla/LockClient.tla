----------------------------- MODULE LockClient -----------------------------
(***************************************************************************)
(* The distributed document lock: LockClient in every server process, the  *)
(* lock service behind RabbitMQ, and the requests and replies in between,  *)
(* any of which may be late or lost.  One lock name (LockBackend asks for  *)
(* one name per call).                                                     *)
(*                                                                         *)
(* The lock service is external.  From its use here: "acquire" is granted  *)
(* to the owner that has the lock already, "release" by anybody else is an *)
(* error, a grant lapses after FAILSAFE_TTL, and requests are handled in   *)
(* the order in which they were queued.                                    *)
(***************************************************************************)
EXTENDS Integers, Sequences, FiniteSets

CONSTANTS
  Task,          \* tasks that want the lock
  Proc,          \* server processes
  procOf,        \* procOf[t]: the process of a task
  Nobody,        \* no task, no owner
  MaxTries,      \* bound on the attempts before an acquire reaches its deadline
  MaxReleases,   \* RELEASE_MAX_ATTEMPTS
  MaxRounds,     \* bound on the acquires of a task
  MaxRestarts    \* bound on the restarts of processes

ASSUME LockClientAssumption ==
  /\ procOf \in [Task -> Proc]
  /\ Nobody \notin Task /\ Nobody \notin Proc \X Nat
  /\ MaxTries \in Nat /\ MaxReleases \in Nat /\ MaxRounds \in Nat /\ MaxRestarts \in Nat

VARIABLES
  local,    \* local[p]: the task that has the process-local mutex, or Nobody
  at,       \* at[t]: where a task is
  try,      \* try[t]: the attempt it is at
  seq,      \* seq[t]: the number of its last request; its correlation id
  round,    \* round[t]: acquires so far
  life,     \* life[p]: restarts of a process; <<p, life[p]>> is its owner_id
  owner,    \* who has the lock in the eyes of the lock service, or Nobody
  reqs,     \* requests queued at the lock service
  replies   \* replies under way

vars == <<local, at, try, seq, round, life, owner, reqs, replies>>

Self(t) == <<procOf[t], life[procOf[t]]>>
Owners == Proc \X (0..MaxRestarts)
Request == [op : {"acquire", "release"}, from : Task, id : Nat, owner : Owners]
Reply == [to : Task, id : Nat, ok : BOOLEAN]

\* Between these the task has the local mutex.
Inside == {"acquire", "await", "pause", "held", "release", "confirm", "again"}

\* Besides the types: a task inside has the mutex of its process.
TypeOK ==
  /\ local \in [Proc -> Task \cup {Nobody}]
  /\ at \in [Task -> {"idle"} \cup Inside]
  /\ try \in [Task -> Nat] /\ seq \in [Task -> Nat] /\ round \in [Task -> Nat]
  /\ life \in [Proc -> 0..MaxRestarts]
  /\ owner \in Owners \cup {Nobody}
  /\ reqs \in Seq(Request)
  /\ replies \subseteq Reply
  /\ \A t \in Task : at[t] \in Inside <=> local[procOf[t]] = t

Init ==
  /\ local = [p \in Proc |-> Nobody]
  /\ at = [t \in Task |-> "idle"]
  /\ try = [t \in Task |-> 0] /\ seq = [t \in Task |-> 0] /\ round = [t \in Task |-> 0]
  /\ life = [p \in Proc |-> 0]
  /\ owner = Nobody
  /\ reqs = << >> /\ replies = {}

-----------------------------------------------------------------------------
(* LockClient::acquire. *)

\* Faulty form: no process-local mutex.
LockLocalShared(t) ==
  /\ at[t] = "idle" /\ round[t] < MaxRounds
  /\ local' = [local EXCEPT ![procOf[t]] = t]
  /\ at' = [at EXCEPT ![t] = "acquire"]
  /\ try' = [try EXCEPT ![t] = 0]
  /\ round' = [round EXCEPT ![t] = @ + 1]
  /\ UNCHANGED <<seq, life, owner, reqs, replies>>

\* local_locks.lock: same-process callers one at a time.
LockLocal(t) ==
  /\ at[t] = "idle" /\ round[t] < MaxRounds /\ local[procOf[t]] = Nobody
  /\ local' = [local EXCEPT ![procOf[t]] = t]
  /\ at' = [at EXCEPT ![t] = "acquire"]
  /\ try' = [try EXCEPT ![t] = 0]
  /\ round' = [round EXCEPT ![t] = @ + 1]
  /\ UNCHANGED <<seq, life, owner, reqs, replies>>

\* An RPC: the request is published under a fresh correlation id.
Publish(t, op, next) ==
  /\ reqs' = Append(reqs, [op |-> op, from |-> t, id |-> seq[t] + 1, owner |-> Self(t)])
  /\ seq' = [seq EXCEPT ![t] = @ + 1]
  /\ try' = [try EXCEPT ![t] = @ + 1]
  /\ at' = [at EXCEPT ![t] = next]
  /\ UNCHANGED <<local, round, life, owner, replies>>

RpcAcquire(t) == at[t] = "acquire" /\ Publish(t, "acquire", "await")

\* Publishing fails: an error like a timeout, with nothing queued.
PublishFails(t) ==
  /\ at[t] \in {"acquire", "release"}
  /\ at' = [at EXCEPT ![t] = IF @ = "acquire" THEN "pause" ELSE "again"]
  /\ try' = [try EXCEPT ![t] = @ + 1]
  /\ UNCHANGED <<local, seq, round, life, owner, reqs, replies>>

\* The reply to the request that the task waits for.
Answer(t, r) == r \in replies /\ r.to = t /\ r.id = seq[t]

Granted(t) ==
  /\ at[t] = "await"
  /\ \E r \in replies :
       /\ Answer(t, r)
       /\ at' = [at EXCEPT ![t] = IF r.ok THEN "held" ELSE "pause"]
       /\ replies' = replies \ {r}
  /\ UNCHANGED <<local, try, seq, round, life, owner, reqs>>

\* Faulty form: a release that gets no reply goes on waiting.
TimesOutAcquire(t) ==
  \/ /\ at[t] = "await"
     /\ at' = [at EXCEPT ![t] = "pause"]
     /\ replies' = {r \in replies : r.to # t}
     /\ UNCHANGED <<local, try, seq, round, life, owner, reqs>>
  \/ at[t] = "confirm" /\ UNCHANGED vars

\* RPC_ATTEMPT_TIMEOUT: the request stays where it is, a reply finds nobody.
TimesOut(t) ==
  /\ at[t] \in {"await", "confirm"}
  /\ at' = [at EXCEPT ![t] = IF @ = "await" THEN "pause" ELSE "again"]
  /\ replies' = {r \in replies : r.to # t}
  /\ UNCHANGED <<local, try, seq, round, life, owner, reqs>>

Ends(t) ==
  /\ at' = [at EXCEPT ![t] = "idle"]
  /\ try' = [try EXCEPT ![t] = 0]
  /\ local' = [local EXCEPT ![procOf[t]] = Nobody]
  /\ replies' = {r \in replies : r.to # t}
  /\ UNCHANGED <<seq, round, life, owner, reqs>>

\* After the backoff: another attempt, unless the deadline has passed.
Backoff(t) ==
  /\ at[t] = "pause" /\ try[t] < MaxTries
  /\ at' = [at EXCEPT ![t] = "acquire"]
  /\ UNCHANGED <<local, try, seq, round, life, owner, reqs, replies>>
Deadline(t) == at[t] = "pause" /\ Ends(t)

\* The future of acquire is dropped with its handler: only the local mutex is
\* given back.
Cancel(t) == at[t] \in {"acquire", "await", "pause"} /\ Ends(t)

-----------------------------------------------------------------------------
(* LockGuard. *)

\* Faulty form: the local mutex is given back at once.
DropGuardUnlocking(t) ==
  /\ at[t] = "held"
  /\ at' = [at EXCEPT ![t] = "release"]
  /\ try' = [try EXCEPT ![t] = 0]
  /\ local' = [local EXCEPT ![procOf[t]] = Nobody]
  /\ UNCHANGED <<seq, round, life, owner, reqs, replies>>

\* The guard is dropped; the local mutex goes into the task that releases.
DropGuard(t) ==
  /\ at[t] = "held"
  /\ at' = [at EXCEPT ![t] = "release"]
  /\ try' = [try EXCEPT ![t] = 0]
  /\ UNCHANGED <<local, seq, round, life, owner, reqs, replies>>

RpcRelease(t) == at[t] = "release" /\ Publish(t, "release", "confirm")

\* Success, or an ownership error that is not worth a retry.
Released(t) == at[t] = "confirm" /\ (\E r \in replies : Answer(t, r)) /\ Ends(t)

RetryRelease(t) ==
  /\ at[t] = "again" /\ try[t] < MaxReleases
  /\ at' = [at EXCEPT ![t] = "release"]
  /\ UNCHANGED <<local, try, seq, round, life, owner, reqs, replies>>
GiveUpRelease(t) == at[t] = "again" /\ try[t] >= MaxReleases /\ Ends(t)

-----------------------------------------------------------------------------
(* The lock service and the network. *)

\* A reply finds the entry of its correlation id only while its caller waits.
Awaited(q) == at[q.from] \in {"await", "confirm"} /\ seq[q.from] = q.id
Sends(q, ok) ==
  replies' = IF Awaited(q) THEN replies \cup {[to |-> q.from, id |-> q.id, ok |-> ok]}
                           ELSE replies

Handle(q) ==
  LET ok == IF q.op = "acquire" THEN owner \in {Nobody, q.owner} ELSE owner = q.owner
  IN  /\ owner' = IF ~ok THEN owner ELSE IF q.op = "acquire" THEN q.owner ELSE Nobody
      /\ Sends(q, ok)

Serve ==
  /\ reqs # << >>
  /\ Handle(Head(reqs)) /\ reqs' = Tail(reqs)
  /\ UNCHANGED <<local, at, try, seq, round, life>>

\* A request expires in the queue, or a reply is dropped.
LoseRequest ==
  /\ reqs # << >> /\ reqs' = Tail(reqs)
  /\ UNCHANGED <<local, at, try, seq, round, life, owner, replies>>
LoseReply ==
  /\ \E r \in replies : replies' = replies \ {r}
  /\ UNCHANGED <<local, at, try, seq, round, life, owner, reqs>>

\* A task is in its critical section, or will be when the reply arrives that is
\* on its way.
InUse ==
  \E t \in Task :
    /\ Self(t) = owner
    /\ \/ at[t] = "held"
       \/ at[t] = "await" /\ \E r \in replies : Answer(t, r) /\ r.ok

\* Faulty form: grants of a process that has died do not lapse.
ExpireOfLiving ==
  /\ owner # Nobody /\ ~InUse /\ owner[2] = life[owner[1]]
  /\ owner' = Nobody
  /\ UNCHANGED <<local, at, try, seq, round, life, reqs, replies>>

\* FAILSAFE_TTL is long: a grant lapses only when nobody relies on it.  What a
\* critical section that outlasts it does is outside this module.
Expire ==
  /\ owner # Nobody /\ ~InUse
  /\ owner' = Nobody
  /\ UNCHANGED <<local, at, try, seq, round, life, reqs, replies>>

\* The process dies and comes back with a fresh owner_id.
Restart(p) ==
  /\ life[p] < MaxRestarts /\ life' = [life EXCEPT ![p] = @ + 1]
  /\ local' = [local EXCEPT ![p] = Nobody]
  /\ at' = [t \in Task |-> IF procOf[t] = p THEN "idle" ELSE at[t]]
  /\ replies' = {r \in replies : procOf[r.to] # p}
  /\ UNCHANGED <<try, seq, round, owner, reqs>>

TaskStep(t) ==
  \/ RpcAcquire(t) \/ PublishFails(t) \/ Granted(t) \/ TimesOut(t) \/ Backoff(t) \/ Deadline(t)
  \/ DropGuard(t) \/ RpcRelease(t) \/ Released(t) \/ RetryRelease(t) \/ GiveUpRelease(t)

Rest == (\A t \in Task : at[t] = "idle") /\ UNCHANGED vars

Next ==
  \/ \E t \in Task : LockLocal(t) \/ TaskStep(t) \/ Cancel(t)
  \/ Serve \/ LoseRequest \/ LoseReply \/ Expire
  \/ \E p \in Proc : Restart(p)
  \/ Rest

Spec == Init /\ [][Next]_vars

\* Timers run, critical sections end, and the failsafe of the service works;
\* messages need not arrive.
FairSpec == Spec /\ (\A t \in Task : WF_vars(TaskStep(t))) /\ WF_vars(Expire)

-----------------------------------------------------------------------------
(* Properties. *)

Holding == {t \in Task : at[t] = "held"}

\* Two tasks in the critical section are the same task, in whatever processes
\* they are, although requests time out and are carried out later, replies get
\* lost, handlers are dropped and processes restart.
MutualExclusion == \A t, u \in Holding : t = u

\* Whoever is in the critical section has the lock in the eyes of the service,
\* and no late release of its own process is queued that would take it away.
HolderIsOwner ==
  \A t \in Holding :
    /\ owner = Self(t)
    /\ \A i \in DOMAIN reqs : reqs[i].op = "release" => reqs[i].owner # Self(t)

\* The client and the service together are the lock that LockBackend promises:
\* nobody gets in who has not asked or has given up, and nobody beside another.
Lock == INSTANCE DocLock WITH
  Name <- {"doc"},
  asked <- [k \in {"doc"} |-> {t \in Task : at[t] \in {"acquire", "await", "pause"}}],
  inside <- [k \in {"doc"} |-> Holding]
ImplementsLock == Lock!Spec

\* Every acquire and every release ends, whatever the service does.
EveryCallEnds == \A t \in Task : at[t] \in Inside ~> at[t] = "idle"

\* A grant that nobody knows of (its reply came too late, its handler or its
\* process is gone, its release was given up) does not block the lock for ever.
OrphansLapse == (owner # Nobody /\ ~InUse) ~> (owner = Nobody \/ InUse)
=============================================================================
