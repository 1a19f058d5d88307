-------------------------- MODULE LockClientProofs --------------------------
(***************************************************************************)
(* Proof that the distributed document lock excludes, for any number of    *)
(* tasks, processes, attempts and restarts, and that client and service    *)
(* together implement DocLock.                                             *)
(***************************************************************************)
EXTENDS LockClient, SequenceTheorems, TLAPS

\* The task has the lock, or will when the reply arrives that is on its way.
Settled(t) ==
  \/ at[t] = "held"
  \/ at[t] = "await" /\ \E r \in replies : Answer(t, r) /\ r.ok

\* Request i is a release in the name of t's process as it lives now.
Undoes(i, t) == reqs[i].op = "release" /\ reqs[i].owner = Self(t)

\* Correlation ids are never ahead of their task's counter.
IdsPast ==
  /\ \A i \in DOMAIN reqs : reqs[i].id <= seq[reqs[i].from]
  /\ \A r \in replies : r.id <= seq[r.to]

\* The request a task waits for is its acquire, and the releases of earlier
\* holders of its process are queued before it.
AwaitedLast ==
  \A t \in Task, i \in DOMAIN reqs :
    at[t] = "await" /\ reqs[i].from = t /\ reqs[i].id = seq[t] =>
      /\ reqs[i].op = "acquire" /\ reqs[i].owner = Self(t)
      /\ \A j \in DOMAIN reqs : j > i => ~Undoes(j, t)

\* Whoever has the lock, or a grant under way, is the owner, and stays it.
SettledOwns ==
  \A t \in Task : Settled(t) => owner = Self(t) /\ \A i \in DOMAIN reqs : ~Undoes(i, t)

Inv == TypeOK /\ IdsPast /\ AwaitedLast /\ SettledOwns

Kept == IdsPast /\ AwaitedLast /\ SettledOwns

-----------------------------------------------------------------------------
\* The local mutex: two tasks of one process that are both inside are the same.
LEMMA LocalMutex ==
  ASSUME TypeOK, NEW t \in Task, NEW u \in Task, at[t] \in Inside, at[u] \in Inside,
         procOf[t] = procOf[u]
  PROVE  t = u
BY Zenon DEF TypeOK

\* Every step keeps the types and the local mutex.
LEMMA TypeStep == TypeOK /\ [Next]_vars => TypeOK'
<1> SUFFICES ASSUME TypeOK, [Next]_vars PROVE TypeOK'   BY Zenon
<1> USE LockClientAssumption
<1>1. ASSUME NEW t \in Task, LockLocal(t) PROVE TypeOK'
  <2>1. at' \in [Task -> {"idle"} \cup Inside] /\ at[t] = "idle" /\ at'[t] = "acquire"
        /\ \A u \in Task : u # t => at'[u] = at[u]
    BY <1>1, SMTT(60) DEF TypeOK, LockLocal, Inside
  <2>2. /\ local[procOf[t]] = Nobody /\ local'[procOf[t]] = t
        /\ \A p \in Proc : p # procOf[t] => local'[p] = local[p]
    BY <1>1, SMTT(60) DEF TypeOK, LockLocal
  <2>3. \A u \in Task : at'[u] \in Inside <=> local'[procOf[u]] = u
    <3>1. t \in Task /\ procOf[t] \in Proc /\ \A u \in Task : u # Nobody /\ procOf[u] \in Proc
      BY Zenon
    <3>2. \A u \in Task : at[u] \in Inside <=> local[procOf[u]] = u   BY Zenon DEF TypeOK
    <3>3. ASSUME NEW u \in Task, u # t PROVE at'[u] \in Inside <=> local'[procOf[u]] = u
      <4>1. CASE procOf[u] = procOf[t]
        <5>1. at[u] \notin Inside /\ local'[procOf[u]] # u   BY <2>2, <3>1, <3>2, <3>3, <4>1, Zenon
        <5> QED   BY <2>1, <3>3, <5>1, Zenon
      <4>2. CASE procOf[u] # procOf[t]   BY <2>1, <2>2, <3>1, <3>2, <3>3, <4>2, Zenon
      <4> QED   BY <4>1, <4>2, Zenon
    <3>4. at'[t] \in Inside /\ local'[procOf[t]] = t   BY <2>1, <2>2, Zenon DEF Inside
    <3> QED   BY <3>3, <3>4, Zenon
  <2>4. local' \in [Proc -> Task \cup {Nobody}] /\ try' \in [Task -> Nat] /\ round' \in [Task -> Nat]
    BY <1>1, SMTT(60) DEF TypeOK, LockLocal
  <2> QED   BY <1>1, <2>1, <2>3, <2>4, SMTT(60) DEF TypeOK, LockLocal
<1>2. ASSUME NEW t \in Task, NEW op \in {"acquire", "release"}, NEW next \in Inside,
             at[t] \in Inside, Publish(t, op, next)
      PROVE  TypeOK'
  <2>1. [op |-> op, from |-> t, id |-> seq[t] + 1, owner |-> Self(t)] \in Request
    BY DEF TypeOK, Request, Self, Owners
  <2>2. reqs' \in Seq(Request)
    BY <1>2, <2>1, AppendProperties, Zenon DEF Publish, TypeOK
  <2>3. try' \in [Task -> Nat] /\ seq' \in [Task -> Nat]
    BY <1>2, SMTT(60) DEF TypeOK, Publish
  <2>4. at' \in [Task -> {"idle"} \cup Inside] /\ \A u \in Task : at'[u] \in Inside <=> at[u] \in Inside
    BY <1>2, Zenon DEF TypeOK, Publish
  <2> QED   BY <1>2, <2>2, <2>3, <2>4, Zenon DEF TypeOK, Publish
<1>3. ASSUME NEW t \in Task, PublishFails(t) PROVE TypeOK'
  BY <1>3 DEF TypeOK, PublishFails, Inside
<1>4. ASSUME NEW t \in Task, Granted(t) PROVE TypeOK'
  BY <1>4 DEF TypeOK, Granted, Inside
<1>5. ASSUME NEW t \in Task, TimesOut(t) PROVE TypeOK'
  BY <1>5, SMTT(60) DEF TypeOK, TimesOut, Inside
<1>6. ASSUME NEW t \in Task, Backoff(t) \/ DropGuard(t) \/ RetryRelease(t) PROVE TypeOK'
  <2>1. CASE Backoff(t)   BY <2>1, Zenon DEF TypeOK, Backoff, Inside
  <2>2. CASE DropGuard(t)   BY <2>2, SMTT(60) DEF TypeOK, DropGuard, Inside
  <2>3. CASE RetryRelease(t)   BY <2>3, Zenon DEF TypeOK, RetryRelease, Inside
  <2> QED   BY <1>6, <2>1, <2>2, <2>3, Zenon
<1>7. ASSUME NEW t \in Task, at[t] \in Inside, Ends(t) PROVE TypeOK'
  BY <1>7, SMTT(60) DEF TypeOK, Ends, Inside
<1>8. ASSUME Serve \/ LoseRequest PROVE TypeOK'
  <2>1. reqs # << >> /\ reqs' = Tail(reqs) /\ UNCHANGED <<local, at, try, seq, round, life>>
    BY <1>8, Zenon DEF Serve, LoseRequest
  <2>2. reqs' \in Seq(Request) /\ Head(reqs) \in Request
    BY <2>1, HeadTailProperties, Zenon DEF TypeOK
  <2>3. CASE LoseRequest   BY <2>1, <2>2, <2>3, Zenon DEF LoseRequest, TypeOK
  <2>4. ASSUME NEW q, q \in Request, Handle(q)
        PROVE  owner' \in Owners \cup {Nobody} /\ replies' \subseteq Reply
    <3>1. q.from \in Task /\ q.id \in Nat /\ q.owner \in Owners   BY <2>4, Zenon DEF Request
    <3>2. owner' \in Owners \cup {Nobody}   BY <2>4, <3>1, Zenon DEF Handle, TypeOK
    <3>3. PICK ok \in BOOLEAN : Sends(q, ok)
      <4> DEFINE ok == IF q.op = "acquire" THEN owner \in {Nobody, q.owner} ELSE owner = q.owner
      <4>1. ok \in BOOLEAN
        <5>1. (owner \in {Nobody, q.owner}) \in BOOLEAN /\ (owner = q.owner) \in BOOLEAN
          BY SMT
        <5> QED   BY <5>1, Zenon
      <4>2. Sends(q, ok)   BY <2>4, Zenon DEF Handle
      <4> HIDE DEF ok
      <4> QED   BY <4>1, <4>2, Zenon
    <3>4. [to |-> q.from, id |-> q.id, ok |-> ok] \in Reply   BY <3>1, Zenon DEF Reply
    <3> QED   BY <3>2, <3>3, <3>4, Zenon DEF Sends, TypeOK
  <2> QED   BY <1>8, <2>1, <2>2, <2>3, <2>4, Zenon DEF TypeOK, Serve
<1>9. ASSUME LoseReply \/ Expire PROVE TypeOK'
  BY <1>9, Zenon DEF TypeOK, LoseReply, Expire
<1>10. ASSUME NEW p \in Proc, Restart(p) PROVE TypeOK'
  BY <1>10, SMTT(60) DEF TypeOK, Restart, Inside
<1>11. CASE UNCHANGED vars
  BY <1>11, Zenon DEF vars, TypeOK
<1>12. ASSUME NEW t \in Task, TaskStep(t) \/ Cancel(t) PROVE TypeOK'
  BY <1>2, <1>3, <1>4, <1>5, <1>6, <1>7, <1>12, Zenon
  DEF TaskStep, Cancel, RpcAcquire, RpcRelease, Deadline, Released, GiveUpRelease, Inside
<1> QED
  BY <1>1, <1>8, <1>9, <1>10, <1>11, <1>12, Zenon DEF Next, Rest

-----------------------------------------------------------------------------
\* What the types say of the queue and the tasks, before a step.
LEMMA Types ==
  ASSUME TypeOK
  PROVE  /\ reqs \in Seq(Request) /\ Len(reqs) \in Nat /\ DOMAIN reqs = 1..Len(reqs)
         /\ seq \in [Task -> Nat] /\ at \in [Task -> {"idle"} \cup Inside]
         /\ replies \subseteq Reply
BY DEF TypeOK

\* And after it.
LEMMA TypesNext ==
  ASSUME TypeOK'
  PROVE  Len(reqs') \in Nat /\ DOMAIN reqs' = 1..Len(reqs')
BY DEF TypeOK

\* The queue without its first k requests.
Shifted(k) ==
  /\ Len(reqs') = Len(reqs) - k
  /\ \A i \in 1..Len(reqs') : i + k \in 1..Len(reqs) /\ reqs'[i] = reqs[i + k]

\* As long as nobody begins to wait, taking requests from the queue leaves the
\* releases before the acquire that is waited for.
LEMMA AwaitedStays ==
  ASSUME TypeOK, AwaitedLast, TypeOK', NEW k \in {0, 1}, Shifted(k), seq' = seq,
         \A t \in Task : at'[t] = "await" => at[t] = "await" /\ Self(t)' = Self(t)
  PROVE  AwaitedLast'
<1>1. DOMAIN reqs = 1..Len(reqs) /\ DOMAIN reqs' = 1..Len(reqs')
      /\ Len(reqs) \in Nat /\ Len(reqs') \in Nat
  BY Types, TypesNext, Zenon
<1> SUFFICES ASSUME NEW t \in Task, NEW i \in 1..Len(reqs'),
                    at'[t] = "await", reqs'[i].from = t, reqs'[i].id = seq'[t]
             PROVE  /\ reqs'[i].op = "acquire" /\ reqs'[i].owner = Self(t)'
                    /\ \A j \in 1..Len(reqs') : j > i => ~Undoes(j, t)'
  BY <1>1, Zenon DEF AwaitedLast
<1>2. at[t] = "await" /\ Self(t)' = Self(t)   BY Zenon
<1>3. i + k \in DOMAIN reqs /\ reqs'[i] = reqs[i + k]   BY <1>1, Zenon DEF Shifted
<1>4. /\ reqs[i + k].op = "acquire" /\ reqs[i + k].owner = Self(t)
      /\ \A j \in DOMAIN reqs : j > i + k => ~Undoes(j, t)
  BY <1>2, <1>3, Zenon DEF AwaitedLast
<1>5. ASSUME NEW j \in 1..Len(reqs'), j > i PROVE ~Undoes(j, t)'
  <2>1. j + k \in DOMAIN reqs /\ reqs'[j] = reqs[j + k] /\ j + k > i + k   BY <1>1, <1>5 DEF Shifted
  <2> QED   BY <1>2, <1>4, <2>1, Zenon DEF Undoes
<1> QED   BY <1>2, <1>3, <1>4, <1>5, Zenon

\* Steps that queue no request and send no reply: nobody begins to wait, and
\* nobody gets in whose grant was not under way.
LEMMA Quiet ==
  ASSUME TypeOK, Kept, TypeOK', NEW k \in {0, 1}, Shifted(k),
         replies' \subseteq replies, owner' = owner, seq' = seq,
         \A t \in Task : at'[t] = "await" => at[t] = "await" /\ Self(t)' = Self(t),
         \A t \in Task : at'[t] = "held" => Settled(t) /\ Self(t)' = Self(t)
  PROVE  Kept'
<1>1. DOMAIN reqs = 1..Len(reqs) /\ DOMAIN reqs' = 1..Len(reqs')
      /\ Len(reqs) \in Nat /\ Len(reqs') \in Nat
  BY Types, TypesNext, Zenon
<1>2. IdsPast'
  BY <1>1, Zenon DEF Kept, IdsPast, Shifted
<1>3. AwaitedLast'
  BY AwaitedStays, Zenon DEF Kept
<1>4. SettledOwns'
  <2> SUFFICES ASSUME NEW t \in Task, Settled(t)'
               PROVE  owner' = Self(t)' /\ \A i \in 1..Len(reqs') : ~Undoes(i, t)'
    BY <1>1, Zenon DEF SettledOwns
  <2>1. Settled(t) /\ Self(t)' = Self(t)   BY Zenon DEF Settled, Answer
  <2>2. owner = Self(t) /\ \A i \in DOMAIN reqs : ~Undoes(i, t)   BY <2>1, Zenon DEF Kept, SettledOwns
  <2>3. ASSUME NEW i \in 1..Len(reqs') PROVE ~Undoes(i, t)'
    <3>1. i + k \in DOMAIN reqs /\ reqs'[i] = reqs[i + k]   BY <1>1, Zenon DEF Shifted
    <3> QED   BY <2>1, <2>2, <3>1, Zenon DEF Undoes
  <2> QED   BY <2>1, <2>2, <2>3, Zenon
<1> QED   BY <1>2, <1>3, <1>4, Zenon DEF Kept

\* A request is queued under a fresh id.  A release is queued only by a task that
\* has the local mutex, so that nobody of its process waits or has the lock.
LEMMA Published ==
  ASSUME TypeOK, Kept, TypeOK', NEW t \in Task,
         RpcAcquire(t) \/ RpcRelease(t)
  PROVE  Kept'
<1> DEFINE op == IF at[t] = "acquire" THEN "acquire" ELSE "release"
           new == [op |-> op, from |-> t, id |-> seq[t] + 1, owner |-> Self(t)]
<1>1. /\ reqs' = Append(reqs, new) /\ seq' = [seq EXCEPT ![t] = @ + 1]
      /\ at' = [at EXCEPT ![t] = IF at[t] = "acquire" THEN "await" ELSE "confirm"]
      /\ at[t] \in {"acquire", "release"} /\ at[t] \in Inside
      /\ UNCHANGED <<local, round, life, owner, replies>>
  BY Zenon DEF RpcAcquire, RpcRelease, Publish, Inside
<1>2. PICK n \in Nat : n = Len(reqs) /\ DOMAIN reqs = 1..n
  BY Types, Zenon
<1>3. /\ DOMAIN reqs' = 1..(n + 1) /\ reqs'[n + 1] = new
      /\ \A i \in 1..n : reqs'[i] = reqs[i] /\ reqs[i] \in Request
  <2>1. reqs \in Seq(Request)   BY Types, Zenon
  <2>2. DOMAIN reqs' = 1..(n + 1) /\ reqs'[n + 1] = new /\ \A i \in 1..n : reqs'[i] = reqs[i]
    <3> HIDE DEF new
    <3> QED   BY <1>1, <1>2, <2>1, SMTT(60)
  <2> QED   BY <1>2, <2>1, <2>2, SMTT(60)
<1>4. seq[t] \in Nat /\ seq'[t] = seq[t] + 1 /\ \A u \in Task : u # t => seq'[u] = seq[u] /\ at'[u] = at[u]
  BY <1>1, Types, SMTT(60)
<1>5. \A u : Self(u)' = Self(u)
  BY <1>1, Zenon DEF Self
<1>6. IdsPast'
  <2>1. \A i \in 1..n : reqs[i].from \in Task /\ reqs[i].id \in Nat /\ seq[reqs[i].from] \in Nat
    BY <1>3, Types, SMTT(60) DEF Request
  <2>2. \A i \in 1..n : reqs[i].id <= seq'[reqs[i].from]
    BY <1>2, <1>4, <2>1, SMTT(60) DEF Kept, IdsPast
  <2>3. \A r \in replies : r.to \in Task /\ r.id \in Nat /\ seq[r.to] \in Nat
    BY Types, SMTT(60) DEF Reply
  <2>4. \A r \in replies' : r.id <= seq'[r.to]
    BY <1>1, <1>4, <2>3 DEF Kept, IdsPast
  <2>5. reqs'[n + 1].id <= seq'[reqs'[n + 1].from]
    BY <1>3, <1>4
  <2>6. \A i \in 1..(n + 1) : i = n + 1 \/ i \in 1..n
    BY <1>2
  <2> QED   BY <1>3, <2>2, <2>4, <2>5, <2>6, Zenon DEF IdsPast
<1>7. ASSUME NEW u \in Task, u # t, at[u] \in Inside PROVE ~Undoes(n + 1, u)'
  <2>1. procOf[u] # procOf[t]   BY <1>1, <1>7, LocalMutex, Zenon
  <2>2. Self(u) # Self(t)   BY <2>1, Zenon DEF Self
  <2> QED   BY <1>3, <1>5, <2>2 DEF Undoes
<1>8. AwaitedLast'
  <2> SUFFICES ASSUME NEW u \in Task, NEW i \in 1..(n + 1),
                      at'[u] = "await", reqs'[i].from = u, reqs'[i].id = seq'[u]
               PROVE  /\ reqs'[i].op = "acquire" /\ reqs'[i].owner = Self(u)'
                      /\ \A j \in 1..(n + 1) : j > i => ~Undoes(j, u)'
    BY <1>3, Zenon DEF AwaitedLast
  <2>1. CASE u = t
    <3>1. i = n + 1
      <4>1. ASSUME i \in 1..n PROVE FALSE
        BY <1>2, <1>3, <1>4, <2>1, <4>1 DEF Kept, IdsPast, Request
      <4> QED   BY <1>2, <4>1, SMTT(60)
    <3>2. at[t] = "acquire"   BY <1>1, <2>1, Types, SMTT(60)
    <3> QED   BY <1>2, <1>3, <1>5, <2>1, <3>1, <3>2
  <2>2. CASE u # t
    <3>1. at[u] = "await" /\ seq'[u] = seq[u]   BY <1>4, <2>2, Zenon
    <3>2. i \in 1..n   BY <1>2, <1>3, <2>2
    <3>3. /\ reqs[i].op = "acquire" /\ reqs[i].owner = Self(u)
          /\ \A j \in 1..n : j > i => ~Undoes(j, u)
      BY <1>2, <1>3, <3>1, <3>2, Zenon DEF Kept, AwaitedLast
    <3>4. ~Undoes(n + 1, u)'   BY <1>7, <2>2, <3>1, Zenon DEF Inside
    <3>5. ASSUME NEW j \in 1..n, j > i PROVE ~Undoes(j, u)'
      BY <1>3, <1>5, <3>3, <3>5, Zenon DEF Undoes
    <3>6. \A j \in 1..(n + 1) : j = n + 1 \/ j \in 1..n   BY <1>2
    <3> QED   BY <1>3, <1>5, <3>2, <3>3, <3>4, <3>5, <3>6, Zenon
  <2> QED   BY <2>1, <2>2, Zenon
<1>9. SettledOwns'
  <2> SUFFICES ASSUME NEW u \in Task, Settled(u)'
               PROVE  owner' = Self(u)' /\ \A i \in 1..(n + 1) : ~Undoes(i, u)'
    BY <1>3, Zenon DEF SettledOwns
  <2>1. u # t
    <3>1. \A r \in replies : r.to = t => r.id # seq'[t]
      BY <1>4, Types, SMTT(60) DEF Kept, IdsPast, Reply
    <3>2. at'[t] # "held"   BY <1>1, Types, SMTT(60)
    <3> QED   BY <1>1, <3>1, <3>2, Zenon DEF Settled, Answer
  <2>2. Settled(u)   BY <1>1, <1>4, <2>1, Zenon DEF Settled, Answer
  <2>3. owner = Self(u) /\ \A i \in 1..n : ~Undoes(i, u)   BY <1>2, <2>2, Zenon DEF Kept, SettledOwns
  <2>4. ~Undoes(n + 1, u)'   BY <1>7, <2>1, <2>2, SMTT(60) DEF Settled, Inside
  <2>5. ASSUME NEW i \in 1..n PROVE ~Undoes(i, u)'
    BY <1>3, <1>5, <2>3, Zenon DEF Undoes
  <2>6. \A i \in 1..(n + 1) : i = n + 1 \/ i \in 1..n   BY <1>2
  <2> QED   BY <1>1, <1>5, <2>3, <2>4, <2>5, <2>6, SMTT(60)
<1> QED   BY <1>6, <1>8, <1>9, Zenon DEF Kept

\* What the service does to a grant: a request it serves cannot take the lock
\* from a settled task, and the grant it sends makes its task the owner.
LEMMA Served ==
  ASSUME TypeOK, Kept, TypeOK', Serve
  PROVE  Kept'
<1> DEFINE q == Head(reqs)
           ok == IF q.op = "acquire" THEN owner \in {Nobody, q.owner} ELSE owner = q.owner
<1>1. /\ reqs # << >> /\ reqs' = Tail(reqs) /\ UNCHANGED <<local, at, try, seq, round, life>>
      /\ owner' = IF ~ok THEN owner ELSE IF q.op = "acquire" THEN q.owner ELSE Nobody
      /\ Sends(q, ok)
  BY Zenon DEF Serve, Handle
<1>2. q = reqs[1] /\ 1 \in DOMAIN reqs /\ q \in Request /\ Shifted(1)
  <2>1. reqs \in Seq(Request) /\ reqs # << >> /\ reqs' = Tail(reqs)   BY <1>1, Types, Zenon
  <2>2. q = reqs[1] /\ 1 \in DOMAIN reqs /\ q \in Request   BY <2>1, SMTT(60)
  <2> QED   BY <2>1, <2>2, SMTT(60) DEF Shifted
<1>3. DOMAIN reqs = 1..Len(reqs) /\ DOMAIN reqs' = 1..Len(reqs')
      /\ Len(reqs) \in Nat /\ Len(reqs') \in Nat
  BY Types, TypesNext, Zenon
<1>4. \A t : Self(t)' = Self(t)
  BY <1>1, Zenon DEF Self
<1>5. AwaitedLast'
  BY <1>1, <1>2, <1>4, AwaitedStays, Zenon DEF Kept
<1>6. IdsPast'
  <2>1. \A r \in replies' : r \in replies \/ (r.to = q.from /\ r.id = q.id)
    BY <1>1 DEF Sends
  <2>2. q.id <= seq[q.from]   BY <1>2, Zenon DEF Kept, IdsPast
  <2>3. \A r \in replies' : r.id <= seq'[r.to]   BY <1>1, <2>1, <2>2, Zenon DEF Kept, IdsPast
  <2>4. \A i \in DOMAIN reqs' : reqs'[i].id <= seq'[reqs'[i].from]
    BY <1>1, <1>2, <1>3 DEF Kept, IdsPast, Shifted
  <2> QED   BY <2>3, <2>4, Zenon DEF IdsPast
<1>7. ASSUME NEW t \in Task, \A i \in DOMAIN reqs : i > 1 => ~Undoes(i, t)
      PROVE  \A i \in DOMAIN reqs' : ~Undoes(i, t)'
  <2> SUFFICES ASSUME NEW i \in DOMAIN reqs' PROVE ~Undoes(i, t)'   BY Zenon
  <2>1. i + 1 \in DOMAIN reqs /\ i + 1 > 1 /\ reqs'[i] = reqs[i + 1]   BY <1>2, <1>3 DEF Shifted
  <2> QED   BY <1>4, <1>7, <2>1, Zenon DEF Undoes
<1>8. ASSUME NEW t \in Task, Settled(t)' PROVE owner' = Self(t)' /\ \A i \in DOMAIN reqs' : ~Undoes(i, t)'
  <2>1. CASE Settled(t)
    <3>1. owner = Self(t) /\ \A i \in DOMAIN reqs : ~Undoes(i, t)   BY <2>1, Zenon DEF Kept, SettledOwns
    <3>2. owner # Nobody   BY <3>1, LockClientAssumption DEF Self, TypeOK
    <3>3. ~(q.op = "release" /\ q.owner = owner)   BY <1>2, <3>1, Zenon DEF Undoes
    <3>4. q.op \in {"acquire", "release"}   BY <1>2, Zenon DEF Request
    <3>5. owner' = owner   BY <1>1, <3>2, <3>3, <3>4, Zenon
    <3> QED   BY <1>4, <1>7, <3>1, <3>5, Zenon
  <2>2. CASE ~Settled(t)
    <3>1. at[t] = "await" /\ q.from = t /\ q.id = seq[t] /\ ok
      <4>1. at[t] = "await" /\ \E r \in replies' : r.to = t /\ r.id = seq[t] /\ r.ok
        BY <1>1, <1>8, <2>2, Zenon DEF Settled, Answer
      <4>2. PICK r \in replies' : r.to = t /\ r.id = seq[t] /\ r.ok   BY <4>1, Zenon
      <4>3. r \notin replies   BY <2>2, <4>1, <4>2, Zenon DEF Settled, Answer
      <4> HIDE DEF ok
      <4>4. r = [to |-> q.from, id |-> q.id, ok |-> ok]   BY <1>1, <4>2, <4>3, SMTT(60) DEF Sends
      <4> QED   BY <4>1, <4>2, <4>4, Zenon
    <3>2. /\ q.op = "acquire" /\ q.owner = Self(t)
          /\ \A j \in DOMAIN reqs : j > 1 => ~Undoes(j, t)
      BY <1>2, <3>1, Zenon DEF Kept, AwaitedLast
    <3>3. owner' = Self(t)
      <4> HIDE DEF ok
      <4> QED   BY <1>1, <3>1, <3>2, Zenon
    <3> QED   BY <1>4, <1>7, <3>2, <3>3, Zenon
  <2> QED   BY <2>1, <2>2, Zenon
<1>9. SettledOwns'   BY <1>8, Zenon DEF SettledOwns
<1> HIDE DEF ok
<1> QED   BY <1>5, <1>6, <1>9, ZenonT(60) DEF Kept

-----------------------------------------------------------------------------
\* Every step of a task, of the service, of the network and of a restart keeps
\* the inductive invariant.
LEMMA InvStep == Inv /\ [Next]_vars => Inv'
<1> SUFFICES ASSUME Inv, [Next]_vars PROVE Inv'   BY Zenon
<1>1. TypeOK /\ Kept /\ TypeOK'   BY TypeStep, Zenon DEF Inv, Kept
<1> SUFFICES Kept'   BY <1>1, Zenon DEF Inv, Kept
<1> DEFINE Awaits == \A t \in Task : at'[t] = "await" => at[t] = "await" /\ Self(t)' = Self(t)
           Enters == \A t \in Task : at'[t] = "held" => Settled(t) /\ Self(t)' = Self(t)
<1>2. ASSUME reqs' = reqs, replies' \subseteq replies, owner' = owner, seq' = seq, Awaits, Enters
      PROVE  Kept'
  <2>1. Shifted(0)   BY <1>1, <1>2 DEF Shifted, TypeOK
  <2> QED   BY <1>1, <1>2, <2>1, Quiet, Zenon
<1>3. ASSUME NEW t \in Task, NEW x, x \notin {"await", "held"}, at' = [at EXCEPT ![t] = x],
             life' = life
      PROVE  Awaits /\ Enters
  BY <1>1, <1>3, Zenon DEF TypeOK, Self, Settled
<1>4. ASSUME NEW t \in Task, LockLocal(t) PROVE Kept'
  BY <1>2, <1>3, <1>4, Zenon DEF LockLocal
<1>5. ASSUME NEW t \in Task, PublishFails(t) PROVE Kept'
  <2>1. PICK x \in {"pause", "again"} : at' = [at EXCEPT ![t] = x]   BY <1>5, Zenon DEF PublishFails
  <2> QED   BY <1>2, <1>3, <1>5, <2>1, Zenon DEF PublishFails
<1>6. ASSUME NEW t \in Task, TimesOut(t) PROVE Kept'
  <2>1. PICK x \in {"pause", "again"} : at' = [at EXCEPT ![t] = x]   BY <1>6, Zenon DEF TimesOut
  <2> QED   BY <1>2, <1>3, <1>6, <2>1, Zenon DEF TimesOut
<1>7. ASSUME NEW t \in Task, Backoff(t) \/ DropGuard(t) \/ RetryRelease(t) PROVE Kept'
  BY <1>2, <1>3, <1>7, Zenon DEF Backoff, DropGuard, RetryRelease
<1>8. ASSUME NEW t \in Task, Ends(t) PROVE Kept'
  BY <1>2, <1>3, <1>8, Zenon DEF Ends
<1>9. ASSUME NEW t \in Task, Granted(t) PROVE Kept'
  <2>1. PICK r \in replies : /\ Answer(t, r) /\ replies' = replies \ {r}
                            /\ at' = [at EXCEPT ![t] = IF r.ok THEN "held" ELSE "pause"]
    BY <1>9, Zenon DEF Granted
  <2>2. \A u : Self(u)' = Self(u)   BY <1>9, Zenon DEF Granted, Self
  <2>3. at[t] = "await" /\ (r.ok => Settled(t))   BY <1>9, <2>1, Zenon DEF Granted, Settled
  <2>4. Awaits   BY <1>1, <2>1, <2>2, Zenon DEF TypeOK
  <2>5. Enters
    <3>1. ASSUME NEW u \in Task, u # t, at'[u] = "held" PROVE Settled(u)
      BY <1>1, <2>1, <3>1, SMTT(60) DEF TypeOK, Settled
    <3>2. at'[t] = "held" => r.ok   BY <1>1, <2>1, Zenon DEF TypeOK
    <3> QED   BY <2>2, <2>3, <3>1, <3>2, Zenon
  <2> QED   BY <1>2, <1>9, <2>1, <2>4, <2>5, Zenon DEF Granted
<1>10. CASE LoseReply
  BY <1>2, <1>10, Zenon DEF LoseReply, Self, Settled
<1>11. CASE LoseRequest
  <2>1. Shifted(1)   BY <1>1, <1>11, SMTT(60) DEF LoseRequest, Shifted, TypeOK
  <2>2. Awaits /\ Enters   BY <1>11, Zenon DEF LoseRequest, Self, Settled
  <2> QED   BY <1>1, <1>11, <2>1, <2>2, Quiet, SMTT(60) DEF LoseRequest
<1>12. CASE Expire
  <2>1. \A t \in Task : ~Settled(t)
    BY <1>1, <1>12, Zenon DEF Expire, InUse, Kept, SettledOwns, Settled
  <2>2. \A t \in Task : Settled(t)' <=> Settled(t)
    BY <1>12, Zenon DEF Expire, Settled, Answer
  <2>3. SettledOwns'   BY <2>1, <2>2, Zenon DEF SettledOwns
  <2>4. IdsPast' /\ AwaitedLast'
    BY <1>1, <1>12, SMTT(60) DEF Expire, Kept, IdsPast, AwaitedLast, Undoes, Self
  <2> QED   BY <2>3, <2>4, Zenon DEF Kept
<1>13. ASSUME NEW p \in Proc, Restart(p) PROVE Kept'
  <2>1. \A t \in Task : at'[t] # "idle" => procOf[t] # p /\ at'[t] = at[t]   BY <1>13, Zenon DEF Restart
  <2>2. \A t \in Task : procOf[t] # p => Self(t)' = Self(t)
    BY <1>1, <1>13, LockClientAssumption, SMTT(60) DEF Restart, Self, TypeOK
  <2> QED   BY <1>2, <1>13, <2>1, <2>2, Zenon DEF Restart, Settled
<1>14. CASE UNCHANGED vars
  <2>1. UNCHANGED <<at, life, owner, seq, reqs, replies>>   BY <1>14, Zenon DEF vars
  <2>2. Awaits /\ Enters   BY <2>1, SMTT(60) DEF Self, Settled
  <2> QED   BY <1>2, <2>1, <2>2, Zenon
<1>15. ASSUME NEW t \in Task, TaskStep(t) \/ Cancel(t) PROVE Kept'
  BY <1>1, <1>5, <1>6, <1>7, <1>8, <1>9, <1>15, Published, Zenon
  DEF TaskStep, Cancel, Deadline, Released, GiveUpRelease
<1> QED
  BY <1>1, <1>4, <1>10, <1>11, <1>12, <1>13, <1>14, <1>15, Served, Zenon DEF Next, Rest

\* Nothing is asked, granted or on its way at the start.
LEMMA InvInit == Init => Inv
<1> SUFFICES ASSUME Init PROVE Inv   BY Zenon
<1>1. TypeOK   BY LockClientAssumption DEF Init, TypeOK, Inside
<1>2. IdsPast /\ AwaitedLast /\ SettledOwns
  BY DEF Init, IdsPast, AwaitedLast, SettledOwns, Settled
<1> QED   BY <1>1, <1>2, Zenon DEF Inv

\* The invariant excludes two holders: both would be the owner, hence of one
\* process, where the local mutex lets in only one.
LEMMA InvExcludes == Inv => MutualExclusion /\ HolderIsOwner
<1> SUFFICES ASSUME Inv PROVE MutualExclusion /\ HolderIsOwner   BY Zenon
<1>1. \A t \in Holding : t \in Task /\ at[t] = "held" /\ Settled(t)   BY Zenon DEF Holding, Settled
<1>2. HolderIsOwner   BY <1>1, Zenon DEF HolderIsOwner, Inv, SettledOwns, Undoes
<1>3. ASSUME NEW t \in Holding, NEW u \in Holding PROVE t = u
  <2>1. Self(t) = Self(u)   BY <1>2, Zenon DEF HolderIsOwner
  <2>2. procOf[t] = procOf[u]   BY <2>1, Zenon DEF Self
  <2> QED   BY <1>1, <2>2, LocalMutex, Zenon DEF Inv, Inside
<1> QED   BY <1>2, <1>3, Zenon DEF MutualExclusion

\* LockClient::acquire with the lock service: two tasks that hold the guard are
\* the same task, for any number of tasks, processes, attempts and restarts.
THEOREM LockExcludes == Spec => []MutualExclusion
<1>1. Spec => []Inv   BY InvInit, InvStep, PTL DEF Spec
<1> QED   BY <1>1, InvExcludes, PTL

\* The holder of the guard is the owner at the service, and no release of its
\* own process is queued that would take the lock from it.
THEOREM HolderOwns == Spec => []HolderIsOwner
<1>1. Spec => []Inv   BY InvInit, InvStep, PTL DEF Spec
<1> QED   BY <1>1, InvExcludes, PTL

-----------------------------------------------------------------------------
Asking == {t \in Task : at[t] \in {"acquire", "await", "pause"}}

\* What the steps of DocLock say of the sets that are mapped to its variables.
LEMMA Mapped ==
  /\ Asking' = Asking /\ Holding' = Holding => UNCHANGED Lock!vars
  /\ \A t \in Task :
       t \notin Asking \cup Holding /\ Asking' = Asking \cup {t} /\ Holding' = Holding => Lock!Next
  /\ \A t \in Task :
       t \in Asking /\ Holding = {} /\ Asking' = Asking \ {t} /\ Holding' = {t} => Lock!Next
  /\ \A S \in SUBSET Task :
       Asking' = Asking \ S /\ Holding' = Holding \ S => Lock!Next
<1>1. Asking' = Asking /\ Holding' = Holding => UNCHANGED Lock!vars
  BY Zenon DEF Asking, Holding, Lock!vars
<1>2. ASSUME NEW t \in Task,
             t \notin Asking \cup Holding, Asking' = Asking \cup {t}, Holding' = Holding
      PROVE  Lock!Next
  <2>1. Lock!Ask("doc", t)   BY <1>2, Zenon DEF Lock!Ask, Asking, Holding
  <2> QED   BY <2>1, Zenon DEF Lock!Next
<1>3. ASSUME NEW t \in Task,
             t \in Asking, Holding = {}, Asking' = Asking \ {t}, Holding' = {t}
      PROVE  Lock!Next
  <2>1. Lock!Enter("doc", t)   BY <1>3, Zenon DEF Lock!Enter, Asking, Holding
  <2> QED   BY <1>3, <2>1, Zenon DEF Lock!Next
<1>4. ASSUME NEW S \in SUBSET Task, Asking' = Asking \ S, Holding' = Holding \ S
      PROVE  Lock!Next
  <2>1. Lock!Go(S)   BY <1>4, Zenon DEF Lock!Go, Asking, Holding
  <2> QED   BY <2>1, Zenon DEF Lock!Next
<1> QED   BY <1>1, <1>2, <1>3, <1>4, Zenon

\* A step is a request, an entry of somebody who asked, a withdrawal or the end
\* of a critical section, or nothing that DocLock sees.
LEMMA LockStep == Inv /\ MutualExclusion' /\ [Next]_vars => [Lock!Next]_(Lock!vars)
<1> SUFFICES ASSUME Inv, MutualExclusion', [Next]_vars PROVE Lock!Next \/ UNCHANGED Lock!vars
  BY Zenon
<1> DEFINE Wants == {"acquire", "await", "pause"}
<1>0. at \in [Task -> {"idle"} \cup Inside]   BY Zenon DEF Inv, TypeOK
<1>1. ASSUME NEW t \in Task, NEW x, at' = [at EXCEPT ![t] = x],
             at[t] \in Wants <=> x \in Wants, at[t] = "held" <=> x = "held"
      PROVE  Asking' = Asking /\ Holding' = Holding
  BY <1>0, <1>1, Zenon DEF Asking, Holding
<1>2. ASSUME NEW t \in Task, LockLocal(t) PROVE Lock!Next
  <2>1. t \notin Asking \cup Holding /\ Asking' = Asking \cup {t} /\ Holding' = Holding
    BY <1>0, <1>2, Zenon DEF LockLocal, Asking, Holding
  <2> QED   BY <2>1, Mapped, Zenon
<1>3. ASSUME NEW t \in Task, at' = [at EXCEPT ![t] = "idle"] \/ at' = [at EXCEPT ![t] = "release"]
      PROVE  Lock!Next
  <2>1. Asking' = Asking \ {t} /\ Holding' = Holding \ {t}
    BY <1>0, <1>3, Zenon DEF Asking, Holding
  <2> QED   BY <2>1, Mapped, Zenon
<1>4. ASSUME NEW t \in Task, Granted(t) PROVE Lock!Next \/ UNCHANGED Lock!vars
  <2>1. at[t] = "await" /\ (at' = [at EXCEPT ![t] = "held"] \/ at' = [at EXCEPT ![t] = "pause"])
    BY <1>4, Zenon DEF Granted
  <2>2. CASE at' = [at EXCEPT ![t] = "pause"]
    BY <1>1, <2>1, <2>2, Mapped, Zenon
  <2>3. CASE at' = [at EXCEPT ![t] = "held"]
    <3>1. t \in Asking /\ Asking' = Asking \ {t} /\ Holding' = Holding \cup {t} /\ t \notin Holding
      BY <1>0, <2>1, <2>3, Zenon DEF Asking, Holding
    <3>2. Holding = {}   BY <3>1 DEF MutualExclusion
    <3> QED   BY <3>1, <3>2, Mapped, Zenon
  <2> QED   BY <2>1, <2>2, <2>3, Zenon
<1>5. ASSUME NEW t \in Task, RpcAcquire(t) \/ RpcRelease(t) PROVE UNCHANGED Lock!vars
  BY <1>1, <1>5, Mapped, Zenon DEF RpcAcquire, RpcRelease, Publish
<1>6. ASSUME NEW t \in Task, PublishFails(t) \/ TimesOut(t) PROVE UNCHANGED Lock!vars
  <2>1. \/ at[t] \in Wants /\ at' = [at EXCEPT ![t] = "pause"]
        \/ at[t] \in {"release", "confirm"} /\ at' = [at EXCEPT ![t] = "again"]
    BY <1>6, Zenon DEF PublishFails, TimesOut
  <2> QED   BY <1>1, <2>1, Mapped, Zenon
<1>7. ASSUME NEW t \in Task, Backoff(t) \/ RetryRelease(t) PROVE UNCHANGED Lock!vars
  BY <1>1, <1>7, Mapped, Zenon DEF Backoff, RetryRelease
<1>8. CASE UNCHANGED at
  BY <1>8, Mapped, Zenon DEF Asking, Holding
<1>9. ASSUME NEW p \in Proc, Restart(p) PROVE Lock!Next
  <2> DEFINE S == {t \in Task : procOf[t] = p}
  <2>1. Asking' = Asking \ S /\ Holding' = Holding \ S
    BY <1>9, Zenon DEF Restart, Asking, Holding
  <2>2. S \in SUBSET Task   BY ZenonT(60)
  <2> QED   BY <2>1, <2>2, Mapped, Zenon
<1>10. ASSUME NEW t \in Task, TaskStep(t) \/ Cancel(t) PROVE Lock!Next \/ UNCHANGED Lock!vars
  BY <1>3, <1>4, <1>5, <1>6, <1>7, <1>10, Zenon
  DEF TaskStep, Cancel, Deadline, DropGuard, Released, GiveUpRelease, Ends
<1>11. Serve \/ LoseRequest \/ LoseReply \/ Expire \/ Rest \/ UNCHANGED vars => UNCHANGED at
  BY Zenon DEF Serve, LoseRequest, LoseReply, Expire, Rest, vars
<1> QED
  BY <1>2, <1>8, <1>9, <1>10, <1>11, Zenon DEF Next

\* LockClient with the lock service behind it is the lock that LockBackend
\* promises, as the local lock of one process is.
THEOREM ClientImplementsLock == Spec => ImplementsLock
<1>1. Init => Lock!Init
  BY Zenon DEF Init, Lock!Init, Holding
<1>2. Spec => []Inv   BY InvInit, InvStep, PTL DEF Spec
<1> QED
  BY <1>1, <1>2, LockStep, InvExcludes, PTL DEF Spec, ImplementsLock, Lock!Spec
=============================================================================
