--------------------------- MODULE IngressProofs ---------------------------
(***************************************************************************)
(* Proofs about the upsert workers: what a caller is told of its document  *)
(* is true, and final, for any number of jobs, collections, documents,     *)
(* tasks and chunks, and however often the write path fails or panics.     *)
(***************************************************************************)
EXTENDS Ingress, FiniteSetTheorems, WellFoundedInduction, TLAPS

-----------------------------------------------------------------------------
(* Numbers. *)

\* A set of numbers has a least one.
LEMMA LeastOf ==
  ASSUME NEW S \in SUBSET Nat, S # {}
  PROVE  \E m \in S : \A e \in S : m <= e
<1>1. PICK m \in S : \A e \in S : ~(<<e, m>> \in OpToRel(<, Nat))
  BY NatLessThanWellFounded, WFMin, Zenon
<1>2. \A e \in S : e < m => <<e, m>> \in OpToRel(<, Nat)   BY DEF OpToRel
<1>3. \A e \in S : e \in Nat /\ m \in Nat /\ ~(e < m)   BY <1>1, <1>2, Zenon
<1>4. \A e \in S : m <= e   BY <1>3
<1> QED   BY <1>4, Zenon

\* A set of numbers below a bound has a greatest one.
LEMMA GreatestOf ==
  ASSUME NEW n \in Nat, NEW S \in SUBSET (0..n), S # {}
  PROVE  \E m \in S : \A e \in S : e <= m
<1> DEFINE T == {n - e : e \in S}
<1>0. \A e \in S : n - e \in Nat   OBVIOUS
<1>1. T \in SUBSET Nat /\ T # {}   BY <1>0, Zenon
<1>2. PICK k \in T : \A x \in T : k <= x   BY <1>1, LeastOf, Zenon
<1>3. PICK m \in S : k = n - m   BY <1>2, Zenon
<1>4. \A e \in S : n - m <= n - e   BY <1>2, <1>3, Zenon
<1>5. \A e \in S : e \in 0..n /\ m \in 0..n   BY Zenon
<1>6. \A e \in S : e <= m   BY <1>4, <1>5
<1> QED   BY <1>6, Zenon

-----------------------------------------------------------------------------
(* What is true of the answers. *)

\* The document of a version is stored, at least as new.
Stored(v) == store[v.coll][v.doc] >= v.ts

\* A job answered as stale is.
StaleOK(j) ==
  \/ Stored(job[j].v)
  \/ \E k \in Single : /\ job[k].at \in {"taken", "gone", "err", "exited"}
                       /\ Same(j, k) /\ job[k].v.ts >= job[j].v.ts

\* The answer of a job is honest.
AnswerOK(j) == (job[j].at = "ok" => Stored(job[j].v)) /\ (job[j].at = "stale" => StaleOK(j))

\* A task: its jobs are out of the queue; those of a collection still to be
\* served, and the winners of the one that is served, are without an answer; the
\* outcome of a winner is what the store shows.
TaskOK(t) ==
  /\ \A j \in Range(t.jobs) : job[j].at \notin {"new", "queued"}
  /\ \A j \in Range(t.jobs) : job[j].v.coll \in t.todo => job[j].at = "taken"
  /\ t.step # "pick" => t.coll \notin t.todo /\ \A j \in Winners(t, t.coll) : job[j].at = "taken"
  /\ t.step = "reply" =>
       \A j \in Winners(t, t.coll) : t.out[job[j].v.doc] \in {"ok", "stale"} => Stored(job[j].v)

\* A bulk job: its chunks run once its documents are known; those of a chunk
\* that succeeded are stored; success means that no chunk failed.
BulkShape(x) ==
  /\ x.at = "new" => \A i \in 1..NumChunks : x.chunk[i] = "run"
  /\ x.at # "new" => DOMAIN x.vs = 1..BulkLen
  /\ x.at = "ok" => \A i \in 1..NumChunks : x.chunk[i] \in {"ok", "panic"}

ChunksStored(x) ==
  \A i \in 1..NumChunks : x.chunk[i] = "ok" => \A v \in Range(Chunk(x.vs, i)) : Stored(v)

SinglesInv ==
  /\ IsFiniteSet(tasks) /\ IsInjective(queue) /\ \A j \in Range(queue) : job[j].at = "queued"
  /\ \A t \in tasks : TaskOK(t)
  /\ \A t, u \in tasks : t # u => Range(t.jobs) \cap Range(u.jobs) = {}
  /\ \A j \in Single : AnswerOK(j)

BulksInv == \A b \in Bulk : BulkShape(bulk[b]) /\ ChunksStored(bulk[b])

\* The inductive invariant.
IngressInv == IngressTypeOK /\ SinglesInv /\ BulksInv

\* An answer is final.
AnswersStay == \A j \in Single : job[j].at \in Answers => job'[j] = job[j]

\* The jobs of a task.
LEMMA TaskJobs ==
  ASSUME NEW t \in Task
  PROVE  /\ t.jobs \in Seq(Single) /\ Range(t.jobs) \subseteq Single
         /\ \A i \in DOMAIN t.jobs : i \in Nat /\ t.jobs[i] \in Range(t.jobs)
         /\ t.coll \in Coll /\ t.todo \subseteq Coll
<1>1. t.jobs \in Seq(Single) /\ t.coll \in Coll /\ t.todo \subseteq Coll   BY Zenon DEF Task
<1>2. DOMAIN t.jobs = 1..Len(t.jobs) /\ \A i \in 1..Len(t.jobs) : i \in Nat /\ t.jobs[i] \in Single   BY <1>1
<1> QED   BY <1>1, <1>2, Zenon DEF Range

\* A job and what it is about.
LEMMA JobFacts ==
  ASSUME IngressTypeOK, NEW j \in Single
  PROVE  /\ job[j] \in UpsertJob /\ job[j].v \in Version
         /\ job[j].v.coll \in Coll /\ job[j].v.doc \in DocId /\ job[j].v.ts \in Ts
         /\ job[j].v.ts \in Nat /\ job[j].v.ts \in 0..MaxTs
<1>1. job[j] \in UpsertJob   BY Zenon DEF IngressTypeOK
<1>2. job[j].v \in Version   BY <1>1, Zenon DEF UpsertJob
<1>3. job[j].v.coll \in Coll /\ job[j].v.doc \in DocId /\ job[j].v.ts \in Ts   BY <1>2, Zenon DEF Version
<1>4. \A n \in Ts : n \in Nat /\ n \in 0..MaxTs   BY IngressAssumption DEF Ts
<1> QED   BY <1>1, <1>2, <1>3, <1>4, Zenon

\* Every document of a group has one winner, and the winner is as new as any.
LEMMA WinnerFacts ==
  ASSUME IngressTypeOK, NEW t \in Task, NEW c \in Coll
  PROVE  /\ Winners(t, c) \subseteq Slots(t, c)
         /\ \A j, k \in Winners(t, c) : job[j].v.doc = job[k].v.doc => j = k
         /\ \A j \in Slots(t, c) : \E k \in Winners(t, c) : Same(j, k) /\ job[k].v.ts >= job[j].v.ts
<1> DEFINE s == t.jobs
<1>0. /\ Range(s) \subseteq Single /\ \A i \in DOMAIN s : i \in Nat /\ s[i] \in Range(s)
  BY TaskJobs, Zenon
<1>1. \A j : j \in Winners(t, c) <=> \E i \in DOMAIN s : j = s[i] /\ job[s[i]].v.coll = c /\ Wins(s, i)
  BY Zenon DEF Winners
<1>2. Winners(t, c) \subseteq Slots(t, c)
  <2> SUFFICES ASSUME NEW j \in Winners(t, c)   PROVE j \in Slots(t, c)   BY Zenon
  <2>1. j \in Range(s) /\ job[j].v.coll = c   BY <1>0, <1>1, Zenon
  <2> QED   BY <2>1, Zenon DEF Slots
<1>3. ASSUME NEW j \in Winners(t, c), NEW k \in Winners(t, c), job[j].v.doc = job[k].v.doc   PROVE j = k
  <2>1. PICK i \in DOMAIN s : j = s[i] /\ job[s[i]].v.coll = c /\ Wins(s, i)   BY <1>1, Zenon
  <2>2. PICK l \in DOMAIN s : k = s[l] /\ job[s[l]].v.coll = c /\ Wins(s, l)   BY <1>1, Zenon
  <2>3. Same(s[i], s[l]) /\ Same(s[l], s[i])   BY <1>3, <2>1, <2>2, Zenon DEF Same
  <2>4. /\ \/ job[s[i]].v.ts < job[s[l]].v.ts
           \/ job[s[i]].v.ts = job[s[l]].v.ts /\ i >= l
        /\ \/ job[s[l]].v.ts < job[s[i]].v.ts
           \/ job[s[l]].v.ts = job[s[i]].v.ts /\ l >= i
    BY <2>1, <2>2, <2>3, Zenon DEF Wins
  <2>5. job[s[i]].v.ts \in Nat /\ job[s[l]].v.ts \in Nat /\ i \in Nat /\ l \in Nat
    BY <1>0, JobFacts, Zenon
  <2>6. i = l   BY <2>4, <2>5
  <2> QED   BY <2>1, <2>2, <2>6, Zenon
<1>4. ASSUME NEW j \in Slots(t, c)
      PROVE  \E k \in Winners(t, c) : Same(j, k) /\ job[k].v.ts >= job[j].v.ts
  <2>1. PICK i \in DOMAIN s : j = s[i] /\ job[j].v.coll = c   BY Zenon DEF Slots, Range
  <2> DEFINE P == {k \in DOMAIN s : Same(s[k], j)}
             M == {job[s[k]].v.ts : k \in P}
  <2>2. i \in P   BY <2>1, Zenon DEF Same
  <2>3. \A k \in P : s[k] \in Single /\ job[s[k]].v.ts \in 0..MaxTs /\ k \in Nat   BY <1>0, JobFacts, Zenon
  <2>4. M \in SUBSET (0..MaxTs) /\ M # {}   BY <2>2, <2>3, Zenon
  <2>5. MaxTs \in Nat   BY IngressAssumption, Zenon
  <2>6. PICK m \in M : \A x \in M : x <= m   BY <2>4, <2>5, GreatestOf, Zenon
  <2> DEFINE Q == {k \in P : job[s[k]].v.ts = m}
  <2>7. Q \in SUBSET Nat /\ Q # {}   BY <2>3, <2>6, Zenon
  <2>8. PICK k \in Q : \A l \in Q : k <= l   BY <2>7, LeastOf, Zenon
  <2>9. k \in P /\ k \in DOMAIN s /\ Same(s[k], j) /\ job[s[k]].v.ts = m /\ k \in Nat   BY <2>3, <2>8, Zenon
  <2>10. ASSUME NEW l \in DOMAIN s, Same(s[l], s[k])
         PROVE  \/ job[s[l]].v.ts < job[s[k]].v.ts
                \/ job[s[l]].v.ts = job[s[k]].v.ts /\ l >= k
    <3>1. l \in P   BY <2>9, <2>10, Zenon DEF Same
    <3>2. job[s[l]].v.ts \in M /\ job[s[l]].v.ts <= m   BY <2>6, <3>1, Zenon
    <3>3. job[s[l]].v.ts = m => k <= l   BY <2>8, <3>1, Zenon
    <3>4. job[s[l]].v.ts \in Nat /\ m \in Nat /\ l \in Nat /\ k \in Nat
      BY <1>0, <2>3, <2>9, <3>1, JobFacts, Zenon
    <3>5. \A x, y, p, q \in Nat : x <= y /\ (x = y => q <= p) => x < y \/ (x = y /\ p >= q)   OBVIOUS
    <3> QED   BY <2>9, <3>2, <3>3, <3>4, <3>5, Zenon
  <2>11. Wins(s, k)   BY <2>10, Zenon DEF Wins
  <2>12. s[k] \in Winners(t, c)
    <3>1. job[s[k]].v.coll = c   BY <2>1, <2>9, Zenon DEF Same
    <3> QED   BY <1>1, <2>9, <2>11, <3>1, Zenon
  <2>13. Same(j, s[k])   BY <2>9, Zenon DEF Same
  <2>14. job[s[k]].v.ts >= job[j].v.ts
    <3>1. job[j].v.ts \in M   BY <2>1, <2>2, Zenon
    <3>2. job[j].v.ts <= m   BY <2>6, <3>1, Zenon
    <3>3. job[j].v.ts \in Nat /\ job[s[k]].v.ts \in Nat   BY <1>0, <2>1, <2>9, JobFacts, Zenon
    <3> QED   BY <2>9, <3>2, <3>3
  <2> QED   BY <2>12, <2>13, <2>14, Zenon
<1> QED   BY <1>2, <1>3, <1>4, Zenon

\* A job keeps what it is about, so a group keeps its winners.
LEMMA WinnersStay ==
  ASSUME NEW t, \A j \in Range(t.jobs) : job'[j].v = job[j].v,
         \A i \in DOMAIN t.jobs : t.jobs[i] \in Range(t.jobs)
  PROVE  \A c : Winners(t, c)' = Winners(t, c) /\ Slots(t, c)' = Slots(t, c)
<1> SUFFICES ASSUME NEW c PROVE Winners(t, c)' = Winners(t, c) /\ Slots(t, c)' = Slots(t, c)   BY Zenon
<1> DEFINE s == t.jobs
<1>1. \A i \in DOMAIN s : job'[s[i]].v = job[s[i]].v   BY Zenon
<1>2. ASSUME NEW i \in DOMAIN s   PROVE Wins(s, i)' <=> Wins(s, i)
  <2>1. \A k \in DOMAIN s : Same(s[k], s[i])' <=> Same(s[k], s[i])   BY <1>1, Zenon DEF Same
  <2> QED   BY <1>1, <2>1, Zenon DEF Wins
<1>3. \A j : j \in Winners(t, c) <=> \E i \in DOMAIN s : j = s[i] /\ job[s[i]].v.coll = c /\ Wins(s, i)
  BY Zenon DEF Winners
<1>4. \A j : j \in Winners(t, c)' <=> \E i \in DOMAIN s : j = s[i] /\ job'[s[i]].v.coll = c /\ Wins(s, i)'
  BY Zenon DEF Winners
<1>5. \A j : j \in Winners(t, c)' <=> j \in Winners(t, c)   BY <1>1, <1>2, <1>3, <1>4, ZenonT(40)
<1>6. \A j : j \in Slots(t, c)' <=> j \in Slots(t, c)   BY Zenon DEF Slots
<1> QED   BY <1>5, <1>6, Zenon

-----------------------------------------------------------------------------
(* What a step does to the single documents. *)

\* The store only grows.
Grows ==
  /\ store' \in [Coll -> [DocId -> 0..MaxTs]]
  /\ \A c \in Coll, d \in DocId : store'[c][d] >= store[c][d]

\* What is stored stays stored.
LEMMA StoredStays ==
  ASSUME IngressTypeOK, Grows, NEW v \in Version, Stored(v)
  PROVE  Stored(v)'
<1>1. v.coll \in Coll /\ v.doc \in DocId /\ v.ts \in Nat   BY IngressAssumption DEF Version, Ts
<1>2. \A c \in Coll, d \in DocId : store[c][d] \in 0..MaxTs   BY Zenon DEF IngressTypeOK
<1>3. \A c \in Coll, d \in DocId : store'[c][d] \in 0..MaxTs   BY Zenon DEF Grows
<1>4. store'[v.coll][v.doc] >= store[v.coll][v.doc] /\ store[v.coll][v.doc] >= v.ts
  BY <1>1, Zenon DEF Grows, Stored
<1>5. \A a, b \in 0..MaxTs : \A n \in Nat : b >= a /\ a >= n => b >= n   BY IngressAssumption
<1>6. store'[v.coll][v.doc] >= v.ts   BY <1>1, <1>2, <1>3, <1>4, <1>5, Zenon
<1> QED   BY <1>6, Zenon DEF Stored

\* The task t becomes the task of U, if there is one, and answers the jobs of S.
Turn(t, S, U) ==
  /\ S \subseteq Range(t.jobs) /\ \A j \in S : job[j].at = "taken"
  /\ job' \in [Single -> UpsertJob]
  /\ \A j \in Single : job'[j].v = job[j].v /\ (j \notin S => job'[j] = job[j])
  /\ \A j \in S : AnswerOK(j)' /\ job'[j].at \in {"ok", "stale", "gone", "err", "exited"}
  /\ Grows /\ queue' = queue
  /\ tasks' = (tasks \ {t}) \cup U /\ U \subseteq Task /\ \A u, v \in U : u = v
  /\ \A u \in U : u.jobs = t.jobs /\ TaskOK(u)'

\* A task is not disturbed by steps that leave its jobs alone.
LEMMA TaskStays ==
  ASSUME IngressTypeOK, SinglesInv, NEW t \in tasks, Grows,
         \A j \in Range(t.jobs) : job'[j] = job[j]
  PROVE  TaskOK(t)'
<1>1. t \in Task /\ TaskOK(t)   BY Zenon DEF IngressTypeOK, SinglesInv
<1>2. /\ Range(t.jobs) \subseteq Single /\ t.coll \in Coll
      /\ \A i \in DOMAIN t.jobs : t.jobs[i] \in Range(t.jobs)
  BY <1>1, TaskJobs, Zenon
<1>3. Winners(t, t.coll)' = Winners(t, t.coll)   BY <1>2, WinnersStay, Zenon
<1>4. \A j \in Winners(t, t.coll) : j \in Range(t.jobs)   BY <1>1, <1>2, WinnerFacts, Zenon DEF Slots
<1>5. ASSUME t.step = "reply", NEW j \in Winners(t, t.coll), t.out[job'[j].v.doc] \in {"ok", "stale"}
      PROVE  Stored(job[j].v)'
  <2>1. job'[j] = job[j] /\ j \in Single   BY <1>2, <1>4, <1>5, Zenon
  <2>2. PICK v : v = job[j].v   BY Zenon
  <2>3. v \in Version /\ Stored(v)   BY <1>1, <1>5, <2>1, <2>2, JobFacts, Zenon DEF TaskOK
  <2>4. Stored(v)'   BY <2>3, StoredStays, Zenon
  <2> QED   BY <2>1, <2>2, <2>4, Zenon DEF Stored
<1> QED   BY <1>1, <1>3, <1>4, <1>5, Zenon DEF TaskOK

\* At most as many tasks afterwards.
LEMMA TurnCounts ==
  ASSUME NEW S, IsFiniteSet(S), NEW t \in S, NEW U, \A u, v \in U : u = v
  PROVE  /\ IsFiniteSet((S \ {t}) \cup U)
         /\ Cardinality((S \ {t}) \cup U) <= Cardinality(S)
<1>1. IsFiniteSet(S \ {t}) /\ Cardinality(S \ {t}) = Cardinality(S) - 1 /\ Cardinality(S) \in Nat
  BY FS_RemoveElement, FS_CardinalityType, Zenon
<1>2. CASE U = {}
  <2>1. (S \ {t}) \cup U = S \ {t}   BY <1>2, Zenon
  <2> QED   BY <1>1, <2>1
<1>3. CASE U # {}
  <2>1. PICK u : u \in U   BY <1>3, Zenon
  <2>2. U = {u}   BY <2>1, Zenon
  <2>3. /\ IsFiniteSet((S \ {t}) \cup {u})
        /\ Cardinality((S \ {t}) \cup {u}) = IF u \in S \ {t} THEN Cardinality(S \ {t}) ELSE Cardinality(S \ {t}) + 1
    BY <1>1, FS_AddElement, Zenon
  <2>4. Cardinality((S \ {t}) \cup {u}) <= Cardinality(S)   BY <1>1, <2>3
  <2> QED   BY <2>2, <2>3, <2>4, Zenon
<1> QED   BY <1>2, <1>3, Zenon

\* Honest answers stay honest: who stands for a stale job is stored, or in turn
\* stale, or did not succeed.
LEMMA AnswersKept ==
  ASSUME IngressTypeOK, SinglesInv, NEW t \in tasks, NEW S, NEW U, Turn(t, S, U), NEW i \in Single
  PROVE  AnswerOK(i)'
<1>1. /\ \A j \in Single : job'[j].v = job[j].v /\ (j \notin S => job'[j] = job[j])
      /\ \A j \in S : AnswerOK(j)' /\ job'[j].at \in {"ok", "stale", "gone", "err", "exited"}
      /\ Grows
  BY Zenon DEF Turn
<1>2. CASE i \in S   BY <1>1, <1>2, Zenon
<1>3. CASE i \notin S
  <2>1. job'[i] = job[i] /\ AnswerOK(i)   BY <1>1, <1>3, Zenon DEF SinglesInv
  <2>2. Stored(job[i].v) => Stored(job[i].v)'
    <3>1. PICK v : v = job[i].v   BY Zenon
    <3>2. v \in Version   BY <3>1, JobFacts, Zenon
    <3>3. Stored(v) => Stored(v)'   BY <1>1, <3>2, StoredStays, Zenon
    <3> QED   BY <2>1, <3>1, <3>3, Zenon DEF Stored
  <2>3. ASSUME NEW k \in Single, job[k].at \in {"taken", "gone", "err", "exited"},
               Same(i, k), job[k].v.ts >= job[i].v.ts
        PROVE  StaleOK(i)'
    <3>1. Same(i, k)' /\ job'[k].v.ts >= job'[i].v.ts   BY <1>1, <2>3, Zenon DEF Same
    <3>2. \A w \in Single : /\ job'[w].v.ts \in Nat /\ job'[w].v = job[w].v
                            /\ job[w].v.coll \in Coll /\ job[w].v.doc \in DocId
      BY <1>1, JobFacts, Zenon
    <3>3. \A c \in Coll, d \in DocId : store'[c][d] \in Nat
      <4>1. \A c \in Coll, d \in DocId : store'[c][d] \in 0..MaxTs   BY <1>1, Zenon DEF Grows
      <4>2. \A n \in 0..MaxTs : n \in Nat   BY IngressAssumption
      <4> QED   BY <4>1, <4>2, Zenon
    <3>4. \A a, b, c \in Nat : a >= b /\ b >= c => a >= c   OBVIOUS
    <3>5. Stored(job[k].v)' => Stored(job[i].v)'
      <4>1. job'[k].v.coll = job'[i].v.coll /\ job'[k].v.doc = job'[i].v.doc   BY <3>1, Zenon DEF Same
      <4>2. store'[job'[i].v.coll][job'[i].v.doc] \in Nat   BY <3>2, <3>3, Zenon
      <4> QED   BY <3>1, <3>2, <3>4, <4>1, <4>2, Zenon DEF Stored
    <3>6. CASE job'[k].at \in {"taken", "gone", "err", "exited"}   BY <3>1, <3>6, Zenon DEF StaleOK
    <3>7. CASE job'[k].at = "ok"
      <4>1. AnswerOK(k)'
        <5>1. job[k].at # "ok"   BY <2>3, Zenon
        <5>2. k \in S   BY <1>1, <3>7, <5>1, Zenon
        <5> QED   BY <1>1, <5>2, Zenon
      <4> QED   BY <3>5, <3>7, <4>1, Zenon DEF AnswerOK, StaleOK
    <3>8. CASE job'[k].at = "stale"
      <4>1. StaleOK(k)'
        <5>1. job[k].at # "stale"   BY <2>3, Zenon
        <5>2. k \in S   BY <1>1, <3>8, <5>1, Zenon
        <5> QED   BY <1>1, <3>8, <5>2, Zenon DEF AnswerOK
      <4>2. CASE Stored(job[k].v)'   BY <3>5, <4>2, Zenon DEF StaleOK
      <4>3. CASE ~Stored(job[k].v)'
        <5>1. PICK w \in Single : /\ job'[w].at \in {"taken", "gone", "err", "exited"}
                                  /\ Same(k, w)' /\ job'[w].v.ts >= job'[k].v.ts
          BY <4>1, <4>3, Zenon DEF StaleOK
        <5>2. Same(i, w)' /\ job'[w].v.ts >= job'[i].v.ts
          BY <3>1, <3>2, <3>4, <5>1, Zenon DEF Same
        <5> QED   BY <5>1, <5>2, Zenon DEF StaleOK
      <4> QED   BY <4>2, <4>3, Zenon
    <3>9. job'[k].at \in {"taken", "gone", "err", "exited"} \/ job'[k].at = "ok" \/ job'[k].at = "stale"
      BY <1>1, <2>3, Zenon
    <3> QED   BY <3>6, <3>7, <3>8, <3>9, Zenon
  <2>4. job[i].at = "stale" => StaleOK(i)'
    <3> SUFFICES ASSUME job[i].at = "stale"   PROVE StaleOK(i)'   BY Zenon
    <3>1. StaleOK(i)   BY <2>1, Zenon DEF AnswerOK
    <3>2. CASE Stored(job[i].v)   BY <2>2, <3>2, Zenon DEF StaleOK
    <3>3. CASE ~Stored(job[i].v)   BY <2>3, <3>1, <3>3, Zenon DEF StaleOK
    <3> QED   BY <3>2, <3>3, Zenon
  <2> QED   BY <2>1, <2>2, <2>4, Zenon DEF AnswerOK
<1> QED   BY <1>2, <1>3, Zenon

\* A turn of a task keeps the invariant and the answers that were given.
LEMMA TurnKeeps ==
  ASSUME IngressTypeOK, SinglesInv, NEW t \in tasks, NEW S, NEW U, Turn(t, S, U)
  PROVE  /\ SinglesInv' /\ AnswersStay
         /\ job' \in [Single -> UpsertJob] /\ tasks' \subseteq Task /\ Cardinality(tasks') <= MaxTasks
<1>0. /\ S \subseteq Range(t.jobs) /\ \A j \in S : job[j].at = "taken"
      /\ job' \in [Single -> UpsertJob]
      /\ \A j \in Single : job'[j].v = job[j].v /\ (j \notin S => job'[j] = job[j])
      /\ Grows /\ queue' = queue
      /\ tasks' = (tasks \ {t}) \cup U /\ U \subseteq Task /\ \A u, v \in U : u = v
      /\ \A u \in U : u.jobs = t.jobs /\ TaskOK(u)'
  BY Zenon DEF Turn
<1>1. /\ tasks \subseteq Task /\ Cardinality(tasks) <= MaxTasks /\ queue \in Seq(Single)
      /\ IsFiniteSet(tasks) /\ IsInjective(queue)
      /\ \A j \in Range(queue) : job[j].at = "queued"
      /\ \A w, u \in tasks : w # u => Range(w.jobs) \cap Range(u.jobs) = {}
  BY Zenon DEF IngressTypeOK, SinglesInv
<1>2. IsFiniteSet(tasks') /\ Cardinality(tasks') <= MaxTasks
  <2>1. /\ IsFiniteSet((tasks \ {t}) \cup U) /\ Cardinality((tasks \ {t}) \cup U) <= Cardinality(tasks)
    BY <1>0, <1>1, TurnCounts, Zenon
  <2>2. IsFiniteSet(tasks') /\ Cardinality(tasks') <= Cardinality(tasks)   BY <1>0, <2>1, Zenon
  <2>3. Cardinality(tasks) \in Nat /\ Cardinality(tasks') \in Nat /\ MaxTasks \in Nat
    BY <1>1, <2>2, FS_CardinalityType, IngressAssumption, Zenon
  <2>4. \A a, b, c \in Nat : a <= b /\ b <= c => a <= c   OBVIOUS
  <2> QED   BY <1>1, <2>2, <2>3, <2>4, Zenon
<1>3. IsInjective(queue') /\ \A j \in Range(queue') : job'[j].at = "queued"
  <2>1. Range(queue) \subseteq Single   BY <1>1 DEF Range
  <2>2. \A j \in Range(queue) : j \notin S   BY <1>0, <1>1, Zenon
  <2> QED   BY <1>0, <1>1, <2>1, <2>2, Zenon
<1>4. ASSUME NEW w \in tasks'   PROVE TaskOK(w)'
  <2>1. CASE w \in U   BY <1>0, <2>1, Zenon
  <2>2. CASE w \notin U
    <3>1. w \in tasks /\ w # t   BY <1>0, <2>2, Zenon
    <3>2. Range(w.jobs) \subseteq Single   BY <1>1, <3>1, TaskJobs, Zenon
    <3>3. \A j \in Range(w.jobs) : j \notin Range(t.jobs)   BY <1>1, <3>1, Zenon
    <3>4. \A j \in Range(w.jobs) : job'[j] = job[j]   BY <1>0, <3>2, <3>3, Zenon
    <3> QED   BY <1>0, <3>1, <3>4, TaskStays, Zenon
  <2> QED   BY <2>1, <2>2, Zenon
<1>5. ASSUME NEW w \in tasks', NEW u \in tasks', w # u   PROVE Range(w.jobs) \cap Range(u.jobs) = {}
  <2>1. \A x \in tasks' : (x \in tasks /\ x # t) \/ (x \in U /\ x.jobs = t.jobs)   BY <1>0, Zenon
  <2>2. CASE w \in U /\ u \in U   BY <1>0, <1>5, <2>2, Zenon
  <2>3. CASE w \notin U /\ u \notin U   BY <1>0, <1>1, <1>5, <2>3, Zenon
  <2>4. CASE w \in U /\ u \notin U
    <3>1. w.jobs = t.jobs /\ u \in tasks /\ u # t   BY <1>0, <2>4, Zenon
    <3>2. Range(t.jobs) \cap Range(u.jobs) = {}   BY <1>1, <3>1, Zenon
    <3> QED   BY <3>1, <3>2, Zenon
  <2>5. CASE w \notin U /\ u \in U
    <3>1. u.jobs = t.jobs /\ w \in tasks /\ w # t   BY <1>0, <2>5, Zenon
    <3>2. Range(w.jobs) \cap Range(t.jobs) = {}   BY <1>1, <3>1, Zenon
    <3> QED   BY <3>1, <3>2, Zenon
  <2> QED   BY <2>2, <2>3, <2>4, <2>5, Zenon
<1>6. \A j \in Single : AnswerOK(j)'   BY AnswersKept, Zenon
<1>7. AnswersStay
  <2>1. \A j \in S : job[j].at \notin Answers   BY <1>0, Zenon DEF Answers
  <2> QED   BY <1>0, <2>1, Zenon DEF AnswersStay
<1>8. tasks' \subseteq Task   BY <1>0, <1>1, Zenon
<1> QED   BY <1>0, <1>2, <1>3, <1>4, <1>5, <1>6, <1>7, <1>8, Zenon DEF SinglesInv

\* What an answer leaves alone.
Answered(S, a) ==
  /\ job' \in [Single -> UpsertJob]
  /\ \A j \in Single : /\ job'[j].v = job[j].v /\ (j \notin S => job'[j] = job[j])
                       /\ j \in S => job'[j].at = a[j]

\* The jobs of S are answered, the others keep what they have.
LEMMA AnswerGives ==
  ASSUME IngressTypeOK, NEW S, NEW a, Answer(S, a), \A j \in Single : j \in S => a[j] \in Answers
  PROVE  Answered(S, a)
<1>1. job' = [j \in Single |-> IF j \in S THEN [job[j] EXCEPT !.at = a[j]] ELSE job[j]]
  BY Zenon DEF Answer
<1>2. \A j \in Single : job[j] \in UpsertJob   BY JobFacts, Zenon
<1>3. ASSUME NEW x \in UpsertJob, NEW y \in Answers
      PROVE  [x EXCEPT !.at = y] \in UpsertJob /\ [x EXCEPT !.at = y].v = x.v /\ [x EXCEPT !.at = y].at = y
  BY <1>3 DEF UpsertJob
<1>4. ASSUME NEW j \in Single
      PROVE  /\ job'[j] \in UpsertJob /\ job'[j].v = job[j].v /\ (j \notin S => job'[j] = job[j])
             /\ j \in S => job'[j].at = a[j]
  <2>1. CASE j \in S
    <3>1. job'[j] = [job[j] EXCEPT !.at = a[j]] /\ job[j] \in UpsertJob /\ a[j] \in Answers
      BY <1>1, <1>2, <2>1, Zenon
    <3>2. PICK x \in UpsertJob, y \in Answers : x = job[j] /\ y = a[j]   BY <3>1, Zenon
    <3>3. PICK z : z = [x EXCEPT !.at = y]   BY Zenon
    <3>4. z \in UpsertJob /\ z.v = x.v /\ z.at = y   BY <1>3, <3>3, Zenon
    <3> QED   BY <2>1, <3>1, <3>2, <3>3, <3>4, Zenon
  <2>2. CASE j \notin S
    <3>1. job'[j] = job[j] /\ job[j] \in UpsertJob   BY <1>1, <1>2, <2>2, Zenon
    <3> QED   BY <2>2, <3>1, Zenon
  <2> QED   BY <2>1, <2>2, Zenon
<1>5. job' \in [Single -> UpsertJob]   BY <1>1, <1>4, Zenon
<1> QED   BY <1>4, <1>5, Zenon DEF Answered

\* Nothing is written.
LEMMA NothingWritten ==
  ASSUME IngressTypeOK, store' = store
  PROVE  Grows
<1>1. store \in [Coll -> [DocId -> 0..MaxTs]]   BY Zenon DEF IngressTypeOK
<1>2. \A c \in Coll, d \in DocId : store[c][d] \in 0..MaxTs   BY <1>1, Zenon
<1>3. \A n \in 0..MaxTs : n >= n   BY IngressAssumption
<1> QED   BY <1>1, <1>2, <1>3, Zenon DEF Grows

\* The winners of a group depend on the jobs of the batch only.
LEMMA SameJobs ==
  ASSUME NEW t, NEW u, u.jobs = t.jobs
  PROVE  \A c : Winners(u, c) = Winners(t, c)
BY Zenon DEF Winners

\* Losers are told so; who stands for them is a winner of the batch without an answer.
LEMMA PickKeeps ==
  ASSUME IngressTypeOK, SinglesInv, NEW t \in tasks, PickCollection(t)
  PROVE  \E S, U : Turn(t, S, U)
<1>1. /\ t.step = "pick" /\ UNCHANGED <<queue, store>>   BY Zenon DEF PickCollection
<1>2. PICK c \in t.todo :
        /\ Becomes(t, [t EXCEPT !.coll = c, !.todo = @ \ {c}, !.step = "apply"])
        /\ Answer(Slots(t, c) \ Winners(t, c), [j \in Single |-> "stale"])
  BY Zenon DEF PickCollection
<1>3. t \in Task /\ TaskOK(t)   BY Zenon DEF IngressTypeOK, SinglesInv
<1>4. PICK u : u = [t EXCEPT !.coll = c, !.todo = @ \ {c}, !.step = "apply"]   BY Zenon
<1>5. u \in Task /\ u.jobs = t.jobs /\ u.coll = c /\ u.todo = t.todo \ {c} /\ u.step = "apply"
  <2>1. c \in Coll   BY <1>3, TaskJobs, Zenon
  <2>2. t \in Task   BY <1>3, Zenon
  <2> QED   BY <1>4, <2>1, <2>2, Zenon DEF Task
<1>6. tasks' = (tasks \ {t}) \cup {u}   BY <1>2, <1>4, Zenon DEF Becomes
<1>7. /\ Range(t.jobs) \subseteq Single /\ c \in Coll
      /\ \A i \in DOMAIN t.jobs : t.jobs[i] \in Range(t.jobs)
  BY <1>3, TaskJobs, Zenon
<1>8. PICK W : W = Winners(t, c)   BY Zenon
<1>9. PICK S : S = Slots(t, c) \ W   BY Zenon
<1>10. \A j \in S : j \in Range(t.jobs) /\ job[j].v.coll = c /\ j \in Single /\ j \notin W
  BY <1>7, <1>9, Zenon DEF Slots
<1>11. \A j \in W : j \in Range(t.jobs) /\ job[j].v.coll = c /\ j \in Single /\ j \notin S
  BY <1>3, <1>7, <1>8, <1>9, WinnerFacts, Zenon DEF Slots
<1>12. /\ job' \in [Single -> UpsertJob]
       /\ \A j \in Single : /\ job'[j].v = job[j].v /\ (j \notin S => job'[j] = job[j])
                            /\ j \in S => job'[j].at = "stale"
  <2>0. PICK a : a = [j \in Single |-> "stale"]   BY Zenon
  <2>1. \A j \in Single : a[j] = "stale" /\ a[j] \in Answers   BY <2>0, Zenon DEF Answers
  <2>2. Answer(S, a)   BY <1>2, <1>8, <1>9, <2>0, Zenon
  <2>3. \A j \in Single : j \in S => a[j] \in Answers   BY <2>1, Zenon
  <2>4. Answered(S, a)   BY <2>2, <2>3, AnswerGives, Zenon
  <2> QED   BY <2>1, <2>4, Zenon DEF Answered
<1>13. \A j \in Range(t.jobs) : job[j].v.coll = c => job[j].at = "taken"   BY <1>3, Zenon DEF TaskOK
<1>14. ASSUME NEW j \in S   PROVE AnswerOK(j)'
  <2>1. PICK k \in W : Same(j, k) /\ job[k].v.ts >= job[j].v.ts
    BY <1>3, <1>7, <1>8, <1>9, WinnerFacts, Zenon
  <2>2. k \in Single /\ job'[k] = job[k] /\ job[k].at = "taken" /\ job'[j].v = job[j].v
    BY <1>10, <1>11, <1>12, <1>13, Zenon
  <2>3. Same(j, k)' /\ job'[k].v.ts >= job'[j].v.ts   BY <2>1, <2>2, Zenon DEF Same
  <2>4. StaleOK(j)'   BY <2>2, <2>3, Zenon DEF StaleOK
  <2>5. job'[j].at = "stale"   BY <1>10, <1>12, Zenon
  <2> QED   BY <2>4, <2>5, Zenon DEF AnswerOK
<1>15. TaskOK(u)'
  <2>1. Winners(u, c)' = W
    <3>1. \A j \in Range(u.jobs) : job'[j].v = job[j].v   BY <1>5, <1>7, <1>12, Zenon
    <3>2. \A i \in DOMAIN u.jobs : u.jobs[i] \in Range(u.jobs)   BY <1>5, <1>7, Zenon
    <3>3. Winners(u, c)' = Winners(u, c)   BY <3>1, <3>2, WinnersStay, Zenon
    <3> QED   BY <1>5, <1>8, <3>3, SameJobs, Zenon
  <2>2. \A j \in W : job'[j].at = "taken"   BY <1>11, <1>12, <1>13, Zenon
  <2>3. ASSUME NEW j \in Range(t.jobs)   PROVE job'[j].at \notin {"new", "queued"}
    BY <1>3, <1>7, <1>12, Zenon DEF TaskOK
  <2>4. ASSUME NEW j \in Range(t.jobs), job'[j].v.coll \in t.todo \ {c}   PROVE job'[j].at = "taken"
    <3>1. j \notin S /\ job'[j] = job[j]   BY <1>7, <1>10, <1>12, <2>4, Zenon
    <3> QED   BY <1>3, <2>4, <3>1, Zenon DEF TaskOK
  <2>5. c \notin u.todo /\ u.step # "reply"   BY <1>5, Zenon
  <2> QED   BY <1>5, <2>1, <2>2, <2>3, <2>4, <2>5, Zenon DEF TaskOK
<1>16. Grows   BY <1>1, NothingWritten, Zenon
<1>17. Turn(t, S, {u})
  BY <1>1, <1>5, <1>6, <1>10, <1>12, <1>13, <1>14, <1>15, <1>16, Zenon DEF Turn
<1> QED   BY <1>17, Zenon

\* The write path returns to a task: nobody is answered yet.
LEMMA ReturnIsTurn ==
  ASSUME IngressTypeOK, SinglesInv, NEW t \in tasks, t.step = "apply", job' = job, queue' = queue, Grows,
         NEW o \in [DocId -> {"ok", "stale", "gone", "err"}],
         Becomes(t, [t EXCEPT !.step = "reply", !.out = o]),
         \A j \in Winners(t, t.coll) : o[job[j].v.doc] \in {"ok", "stale"} => Stored(job[j].v)'
  PROVE  \E S, U : Turn(t, S, U)
<1>1. t \in Task /\ TaskOK(t)   BY Zenon DEF IngressTypeOK, SinglesInv
<1>2. PICK u : u = [t EXCEPT !.step = "reply", !.out = o]   BY Zenon
<1>3. u \in Task /\ u.jobs = t.jobs /\ u.coll = t.coll /\ u.todo = t.todo /\ u.step = "reply" /\ u.out = o
  <2>1. t \in Task   BY <1>1, Zenon
  <2> QED   BY <1>2, <2>1, Zenon DEF Task
<1>4. tasks' = (tasks \ {t}) \cup {u}   BY <1>2, Zenon DEF Becomes
<1>5. PICK W : W = Winners(t, t.coll)   BY Zenon
<1>6. Winners(u, u.coll)' = W
  <2>1. /\ \A j \in Range(t.jobs) : job'[j].v = job[j].v
        /\ \A i \in DOMAIN t.jobs : t.jobs[i] \in Range(t.jobs)
    BY <1>1, TaskJobs, Zenon
  <2>2. /\ \A j \in Range(u.jobs) : job'[j].v = job[j].v
        /\ \A i \in DOMAIN u.jobs : u.jobs[i] \in Range(u.jobs)
    BY <1>3, <2>1, Zenon
  <2>3. Winners(u, u.coll)' = Winners(u, u.coll)   BY <2>2, WinnersStay, Zenon
  <2>4. u.jobs = t.jobs /\ u.coll = t.coll   BY <1>3, Zenon
  <2>5. Winners(u, u.coll) = Winners(t, u.coll)   BY <2>4, SameJobs, Zenon
  <2> QED   BY <1>5, <2>3, <2>4, <2>5, Zenon
<1>7. TaskOK(u)'
  <2>1. /\ \A j \in Range(u.jobs) : job'[j].at \notin {"new", "queued"}
        /\ \A j \in Range(u.jobs) : job'[j].v.coll \in u.todo => job'[j].at = "taken"
    BY <1>1, <1>3, Zenon DEF TaskOK
  <2>2. u.coll \notin u.todo /\ \A j \in W : job'[j].at = "taken"   BY <1>1, <1>3, <1>5, Zenon DEF TaskOK
  <2>3. \A j \in W : u.out[job'[j].v.doc] \in {"ok", "stale"} => Stored(job[j].v)'   BY <1>3, <1>5, Zenon
  <2> QED   BY <1>6, <2>1, <2>2, <2>3, Zenon DEF TaskOK
<1>8. job' \in [Single -> UpsertJob]   BY Zenon DEF IngressTypeOK
<1>9. Turn(t, {}, {u})   BY <1>3, <1>4, <1>7, <1>8, Zenon DEF Turn
<1> QED   BY <1>9, Zenon

\* A group that fails: its winners will be told of the error.
LEMMA ApplyFailsKeeps ==
  ASSUME IngressTypeOK, SinglesInv, NEW t \in tasks, ApplyFails(t)
  PROVE  \E S, U : Turn(t, S, U)
<1>1. PICK o : o = [d \in DocId |-> "err"]   BY Zenon
<1>2. /\ t.step = "apply" /\ job' = job /\ queue' = queue /\ store' = store
      /\ Becomes(t, [t EXCEPT !.step = "reply", !.out = o])
  BY <1>1, Zenon DEF ApplyFails
<1>3. Grows   BY <1>2, NothingWritten, Zenon
<1>4. o \in [DocId -> {"ok", "stale", "gone", "err"}]   BY <1>1, Zenon
<1>5. \A j \in Winners(t, t.coll) : j \in Single
  <2>1. t \in Task   BY Zenon DEF IngressTypeOK
  <2> QED   BY <2>1, TaskJobs, WinnerFacts, Zenon DEF Slots
<1>6. \A j \in Winners(t, t.coll) : o[job[j].v.doc] \notin {"ok", "stale"}
  <2>1. \A d \in DocId : o[d] = "err"   BY <1>1, Zenon
  <2> QED   BY <1>5, <2>1, JobFacts, Zenon
<1>7. \A j \in Winners(t, t.coll) : o[job[j].v.doc] \in {"ok", "stale"} => Stored(job[j].v)'   BY <1>6, Zenon
<1> QED   BY <1>2, <1>3, <1>4, <1>7, ReturnIsTurn, Zenon

\* A group is written: what is reported of a winner is what the store shows.
LEMMA ApplyKeeps ==
  ASSUME IngressTypeOK, SinglesInv, NEW t \in tasks, Apply(t)
  PROVE  \E S, U : Turn(t, S, U)
<1> DEFINE W == Winners(t, t.coll)
           Of(d) == CHOOSE j \in W : job[j].v.doc = d
           D == {job[j].v.doc : j \in W}
<1>1. W = Winners(t, t.coll) /\ D = {job[j].v.doc : j \in W}   BY Zenon
<1>2. /\ t.step = "apply" /\ job' = job /\ queue' = queue
      /\ \E out \in [D -> {"ok", "stale", "gone"}] :
           /\ \A d \in D : out[d] \in Outcomes(Of(d))
           /\ Becomes(t, [t EXCEPT !.step = "reply", !.out = [d \in DocId |-> IF d \in D THEN out[d] ELSE "ok"]])
           /\ store' = [store EXCEPT ![t.coll] = [d \in DocId |->
                          IF d \in D /\ out[d] = "ok" THEN job[Of(d)].v.ts ELSE @[d]]]
  BY Zenon DEF Apply
<1> HIDE DEF W, D
<1>3. PICK out \in [D -> {"ok", "stale", "gone"}] :
        /\ \A d \in D : out[d] \in Outcomes(Of(d))
        /\ Becomes(t, [t EXCEPT !.step = "reply", !.out = [d \in DocId |-> IF d \in D THEN out[d] ELSE "ok"]])
        /\ store' = [store EXCEPT ![t.coll] = [d \in DocId |->
                       IF d \in D /\ out[d] = "ok" THEN job[Of(d)].v.ts ELSE @[d]]]
  BY <1>2, Zenon
<1>4. PICK o : o = [d \in DocId |-> IF d \in D THEN out[d] ELSE "ok"]   BY Zenon
<1>5. t \in Task /\ t.coll \in Coll   BY TaskJobs, Zenon DEF IngressTypeOK
<1>6. \A j \in W : /\ j \in Single /\ job[j].v.coll = t.coll /\ job[j].v.doc \in D
                   /\ job[j].v.doc \in DocId /\ job[j].v.ts \in 0..MaxTs
  BY <1>1, <1>5, TaskJobs, JobFacts, WinnerFacts, Zenon DEF Slots
<1>7. \A j, k \in W : job[j].v.doc = job[k].v.doc => j = k   BY <1>1, <1>5, WinnerFacts, Zenon
<1>8. ASSUME NEW d \in D   PROVE Of(d) \in W /\ job[Of(d)].v.doc = d
  <2>1. \E j \in W : job[j].v.doc = d   BY <1>1, Zenon
  <2> QED   BY <1>1, <2>1, Zenon
<1> HIDE DEF Of
<1>9. \A j \in W : Of(job[j].v.doc) = j   BY <1>6, <1>7, <1>8, ZenonT(40)
<1>10. /\ \A d \in DocId : store'[t.coll][d] = IF d \in D /\ out[d] = "ok" THEN job[Of(d)].v.ts ELSE store[t.coll][d]
       /\ \A c \in Coll : c # t.coll => store'[c] = store[c]
       /\ DOMAIN store' = Coll /\ store' = [c \in Coll |-> store'[c]]
       /\ store'[t.coll] = [d \in DocId |-> store'[t.coll][d]]
  <2>1. store \in [Coll -> [DocId -> 0..MaxTs]]   BY Zenon DEF IngressTypeOK
  <2> QED   BY <1>3, <1>5, <2>1, Zenon
<1>11. \A c \in Coll, d \in DocId : store[c][d] \in 0..MaxTs   BY Zenon DEF IngressTypeOK
<1>12. ASSUME NEW d \in DocId, d \in D
       PROVE  /\ out[d] = "ok" => job[Of(d)].v.ts > store[t.coll][d]
              /\ out[d] = "stale" => ~(job[Of(d)].v.ts > store[t.coll][d])
  <2>1. PICK k \in W : k = Of(d) /\ job[k].v.doc = d /\ out[d] \in Outcomes(k)   BY <1>3, <1>8, <1>12, Zenon
  <2>2. job[k].v.coll = t.coll   BY <1>6, Zenon
  <2>3. out[d] = "gone" \/ out[d] = IF job[k].v.ts > store[t.coll][d] THEN "ok" ELSE "stale"
    BY <2>1, <2>2, Zenon DEF Outcomes
  <2> QED   BY <2>1, <2>3, Zenon
<1>13. \A a, b \in 0..MaxTs : (a > b => a >= b) /\ (~(a > b) => b >= a) /\ a >= a   BY IngressAssumption
<1>14. Grows
  <2>1. ASSUME NEW d \in DocId   PROVE store'[t.coll][d] \in 0..MaxTs /\ store'[t.coll][d] >= store[t.coll][d]
    <3>1. CASE d \in D /\ out[d] = "ok"
      <4>1. store'[t.coll][d] = job[Of(d)].v.ts /\ job[Of(d)].v.ts \in 0..MaxTs   BY <1>6, <1>8, <1>10, <3>1, Zenon
      <4> QED   BY <1>5, <1>11, <1>12, <1>13, <3>1, <4>1, Zenon
    <3>2. CASE ~(d \in D /\ out[d] = "ok")
      <4>1. store'[t.coll][d] = store[t.coll][d]   BY <1>10, <3>2, Zenon
      <4> QED   BY <1>5, <1>11, <1>13, <4>1, Zenon
    <3> QED   BY <3>1, <3>2, Zenon
  <2>2. ASSUME NEW c \in Coll, NEW d \in DocId   PROVE store'[c][d] \in 0..MaxTs /\ store'[c][d] >= store[c][d]
    <3>1. CASE c = t.coll   BY <2>1, <3>1, Zenon
    <3>2. CASE c # t.coll   BY <1>10, <1>11, <1>13, <3>2, Zenon
    <3> QED   BY <3>1, <3>2, Zenon
  <2>3. \A c \in Coll : store'[c] \in [DocId -> 0..MaxTs]
    <3>1. store \in [Coll -> [DocId -> 0..MaxTs]]   BY Zenon DEF IngressTypeOK
    <3>2. store'[t.coll] \in [DocId -> 0..MaxTs]   BY <1>10, <2>1, Zenon
    <3> QED   BY <1>10, <3>1, <3>2, Zenon
  <2>4. store' \in [Coll -> [DocId -> 0..MaxTs]]   BY <1>10, <2>3, Zenon
  <2> QED   BY <2>2, <2>4, Zenon DEF Grows
<1>15. o \in [DocId -> {"ok", "stale", "gone", "err"}]   BY <1>3, <1>4, Zenon
<1>16. ASSUME NEW j \in W, o[job[j].v.doc] \in {"ok", "stale"}   PROVE Stored(job[j].v)'
  <2>1. PICK d \in DocId : d = job[j].v.doc   BY <1>6, Zenon
  <2>2. d \in D /\ Of(d) = j /\ job[j].v.coll = t.coll /\ job[j].v.ts \in 0..MaxTs   BY <1>6, <1>9, <2>1, Zenon
  <2>3. o[d] = out[d]   BY <1>4, <2>2, Zenon
  <2>4. store'[t.coll][d] >= job[j].v.ts
    <3>1. CASE out[d] = "ok"   BY <1>10, <1>13, <2>2, <3>1, Zenon
    <3>2. CASE out[d] = "stale"
      <4>1. store'[t.coll][d] = store[t.coll][d]   BY <1>10, <3>2, Zenon
      <4>2. ~(job[j].v.ts > store[t.coll][d])   BY <1>12, <2>2, <3>2, Zenon
      <4> QED   BY <1>5, <1>11, <1>13, <2>2, <4>1, <4>2, Zenon
    <3> QED   BY <1>16, <2>1, <2>3, <3>1, <3>2, Zenon
  <2> QED   BY <1>2, <2>1, <2>2, <2>4, Zenon DEF Stored
<1>17. Becomes(t, [t EXCEPT !.step = "reply", !.out = o])   BY <1>3, <1>4, Zenon
<1>18. \A j \in Winners(t, t.coll) : o[job[j].v.doc] \in {"ok", "stale"} => Stored(job[j].v)'   BY <1>1, <1>16, Zenon
<1> QED   BY <1>2, <1>14, <1>15, <1>17, <1>18, ReturnIsTurn, Zenon

\* The winners of a group get their answers, and the task goes on or ends.
LEMMA ReplyKeeps ==
  ASSUME IngressTypeOK, SinglesInv, NEW t \in tasks, Reply(t)
  PROVE  \E S, U : Turn(t, S, U)
<1>1. /\ t.step = "reply" /\ UNCHANGED <<queue, store>> /\ Proceed(t)
      /\ Answer(Winners(t, t.coll), [j \in Single |-> t.out[job[j].v.doc]])
  BY Zenon DEF Reply
<1>2. t \in Task /\ TaskOK(t) /\ t.coll \in Coll /\ Range(t.jobs) \subseteq Single
  BY TaskJobs, Zenon DEF IngressTypeOK, SinglesInv
<1>3. PICK W : W = Winners(t, t.coll)   BY Zenon
<1>4. \A j \in W : j \in Range(t.jobs) /\ j \in Single /\ job[j].v.coll = t.coll
  BY <1>2, <1>3, WinnerFacts, Zenon DEF Slots
<1>5. /\ t.coll \notin t.todo
      /\ \A j \in W : job[j].at = "taken" /\ (t.out[job[j].v.doc] \in {"ok", "stale"} => Stored(job[j].v))
  BY <1>1, <1>2, <1>3, Zenon DEF TaskOK
<1>6. PICK a : a = [j \in Single |-> t.out[job[j].v.doc]]   BY Zenon
<1>7. \A j \in Single : a[j] = t.out[job[j].v.doc] /\ a[j] \in {"ok", "stale", "gone", "err"}
  <2>1. t.out \in [DocId -> {"ok", "stale", "gone", "err"}]   BY <1>2, Zenon DEF Task
  <2> QED   BY <1>6, <2>1, JobFacts, Zenon
<1>8. Answered(W, a)
  <2>1. Answer(W, a)   BY <1>1, <1>3, <1>6, Zenon
  <2>2. \A j \in Single : j \in W => a[j] \in Answers   BY <1>7, Zenon DEF Answers
  <2> QED   BY <2>1, <2>2, AnswerGives, Zenon
<1>9. /\ job' \in [Single -> UpsertJob]
      /\ \A j \in Single : job'[j].v = job[j].v /\ (j \notin W => job'[j] = job[j])
      /\ \A j \in W : job'[j].at = a[j] /\ job'[j].at \in {"ok", "stale", "gone", "err"}
  BY <1>4, <1>7, <1>8, Zenon DEF Answered
<1>10. Grows   BY <1>1, NothingWritten, Zenon
<1>11. ASSUME NEW j \in W   PROVE AnswerOK(j)'
  <2>1. j \in Single /\ job'[j].v = job[j].v /\ job'[j].at = t.out[job[j].v.doc]   BY <1>4, <1>7, <1>9, Zenon
  <2>2. job'[j].at \in {"ok", "stale"} => Stored(job[j].v)'   BY <1>1, <1>5, <2>1, Zenon DEF Stored
  <2> QED   BY <2>2, Zenon DEF AnswerOK, StaleOK
<1>12. CASE t.todo = {}
  <2>1. tasks' = (tasks \ {t}) \cup {}   BY <1>1, <1>12, Zenon DEF Proceed
  <2>2. Turn(t, W, {})   BY <1>1, <1>4, <1>5, <1>9, <1>10, <1>11, <2>1, Zenon DEF Turn
  <2> QED   BY <2>2, Zenon
<1>13. CASE t.todo # {}
  <2>1. PICK u : u = [t EXCEPT !.step = "pick"]   BY Zenon
  <2>2. tasks' = (tasks \ {t}) \cup {u}   BY <1>1, <1>13, <2>1, Zenon DEF Proceed, Becomes
  <2>3. u \in Task /\ u.jobs = t.jobs /\ u.todo = t.todo /\ u.step = "pick"
    <3>1. t \in Task   BY <1>2, Zenon
    <3> QED   BY <2>1, <3>1, Zenon DEF Task
  <2>4. TaskOK(u)'
    <3>1. ASSUME NEW j \in Range(t.jobs)   PROVE job'[j].at \notin {"new", "queued"}
      BY <1>2, <1>9, Zenon DEF TaskOK
    <3>2. ASSUME NEW j \in Range(t.jobs), job'[j].v.coll \in t.todo   PROVE job'[j].at = "taken"
      <4>1. j \in Single /\ job[j].v.coll \in t.todo   BY <1>2, <1>9, <3>2, Zenon
      <4>2. j \notin W   BY <1>4, <1>5, <4>1, Zenon
      <4> QED   BY <1>2, <1>9, <4>1, <4>2, Zenon DEF TaskOK
    <3> QED   BY <2>3, <3>1, <3>2, Zenon DEF TaskOK
  <2>5. Turn(t, W, {u})   BY <1>1, <1>4, <1>5, <1>9, <1>10, <1>11, <2>2, <2>3, <2>4, Zenon DEF Turn
  <2> QED   BY <2>5, Zenon
<1> QED   BY <1>12, <1>13, Zenon

\* A task that panics: those without an answer learn of it.
LEMMA PanicKeeps ==
  ASSUME IngressTypeOK, SinglesInv, NEW t \in tasks, Panic(t)
  PROVE  \E S, U : Turn(t, S, U)
<1>1. /\ UNCHANGED <<queue, store>> /\ tasks' = (tasks \ {t}) \cup {}
      /\ Answer({j \in Range(t.jobs) : job[j].at = "taken"}, [j \in Single |-> "exited"])
  BY Zenon DEF Panic
<1>2. PICK S : S = {j \in Range(t.jobs) : job[j].at = "taken"}   BY Zenon
<1>3. PICK a : a = [j \in Single |-> "exited"]   BY Zenon
<1>4. \A j \in Single : a[j] = "exited" /\ a[j] \in Answers   BY <1>3, Zenon DEF Answers
<1>5. Answered(S, a)
  <2>1. Answer(S, a)   BY <1>1, <1>2, <1>3, Zenon
  <2>2. \A j \in Single : j \in S => a[j] \in Answers   BY <1>4, Zenon
  <2> QED   BY <2>1, <2>2, AnswerGives, Zenon
<1>6. \A j \in S : j \in Range(t.jobs) /\ j \in Single /\ job[j].at = "taken"
  <2>1. t \in Task   BY Zenon DEF IngressTypeOK
  <2> QED   BY <1>2, <2>1, TaskJobs, Zenon
<1>7. /\ job' \in [Single -> UpsertJob]
      /\ \A j \in Single : job'[j].v = job[j].v /\ (j \notin S => job'[j] = job[j])
      /\ \A j \in S : job'[j].at = "exited"
  BY <1>4, <1>5, <1>6, Zenon DEF Answered
<1>8. Grows   BY <1>1, NothingWritten, Zenon
<1>9. \A j \in S : AnswerOK(j)'   BY <1>7, Zenon DEF AnswerOK
<1>10. Turn(t, S, {})   BY <1>1, <1>6, <1>7, <1>8, <1>9, Zenon DEF Turn
<1> QED   BY <1>10, Zenon

-----------------------------------------------------------------------------
(* Jobs that come in and are taken from the queue. *)

\* Steps before the first answer, and steps of the bulk jobs, leave the answers alone.
LEMMA QuietKeeps ==
  ASSUME IngressTypeOK, SinglesInv, Grows,
         \A i \in Single : \/ job'[i] = job[i]
                           \/ job[i].at \in {"new", "queued"} /\ job'[i].at \in {"queued", "full", "taken"}
  PROVE  (\A i \in Single : AnswerOK(i)') /\ AnswersStay
<1>1. ASSUME NEW i \in Single   PROVE AnswerOK(i)'
  <2>1. CASE job'[i] = job[i]
    <3>1. AnswerOK(i)   BY Zenon DEF SinglesInv
    <3>2. Stored(job[i].v) => Stored(job[i].v)'
      <4>1. PICK v : v = job[i].v   BY Zenon
      <4>2. v \in Version   BY <4>1, JobFacts, Zenon
      <4>3. Stored(v) => Stored(v)'   BY <4>2, StoredStays, Zenon
      <4> QED   BY <2>1, <4>1, <4>3, Zenon DEF Stored
    <3>3. ASSUME StaleOK(i), ~Stored(job[i].v)   PROVE StaleOK(i)'
      <4>1. PICK k \in Single : /\ job[k].at \in {"taken", "gone", "err", "exited"}
                                /\ Same(i, k) /\ job[k].v.ts >= job[i].v.ts
        BY <3>3, Zenon DEF StaleOK
      <4>2. job'[k] = job[k]   BY <4>1, Zenon
      <4> QED   BY <2>1, <4>1, <4>2, Zenon DEF StaleOK, Same
    <3>4. StaleOK(i) => StaleOK(i)'   BY <3>2, <3>3, Zenon DEF StaleOK
    <3> QED   BY <2>1, <3>1, <3>2, <3>4, Zenon DEF AnswerOK
  <2>2. CASE job'[i].at \in {"queued", "full", "taken"}   BY <2>2, Zenon DEF AnswerOK
  <2> QED   BY <2>1, <2>2, Zenon
<1>2. AnswersStay   BY Zenon DEF AnswersStay, Answers
<1> QED   BY <1>1, <1>2, Zenon

\* Steps that leave the single documents alone.
LEMMA SinglesStay ==
  ASSUME IngressTypeOK, SinglesInv, Grows, job' = job, queue' = queue, tasks' = tasks
  PROVE  SinglesInv' /\ AnswersStay
<1>1. (\A i \in Single : AnswerOK(i)') /\ AnswersStay   BY QuietKeeps, Zenon
<1>2. \A t \in tasks : TaskOK(t)'   BY TaskStays, Zenon
<1> QED   BY <1>1, <1>2, Zenon DEF SinglesInv

\* One more at the end of a line.
LEMMA Appended ==
  ASSUME NEW S, NEW s \in Seq(S), NEW j \in S, IsInjective(s), j \notin Range(s)
  PROVE  LET a == Append(s, j) IN
         /\ a \in Seq(S) /\ Len(a) = Len(s) + 1 /\ IsInjective(a)
         /\ \A x \in Range(a) : x \in Range(s) \/ x = j
<1>1. PICK a : a = Append(s, j)   BY Zenon
<1>2. /\ a \in Seq(S) /\ Len(a) = Len(s) + 1 /\ Len(s) \in Nat
      /\ a[Len(s) + 1] = j /\ \A i \in 1..Len(s) : a[i] = s[i]
      /\ DOMAIN a = 1..Len(s) + 1 /\ DOMAIN s = 1..Len(s)
  BY <1>1
<1>3. \A n \in 1..Len(s) + 1 : n \in 1..Len(s) \/ n = Len(s) + 1   BY <1>2
<1>4. \A i \in 1..Len(s) : a[i] \in Range(s)   BY <1>2, Zenon DEF Range
<1>5. \A x \in Range(a) : x \in Range(s) \/ x = j   BY <1>2, <1>3, <1>4, Zenon DEF Range
<1>6. IsInjective(a)
  <2> SUFFICES ASSUME NEW m \in 1..Len(s) + 1, NEW n \in 1..Len(s) + 1, a[m] = a[n]   PROVE m = n
    BY <1>2, Zenon DEF IsInjective
  <2>1. CASE m \in 1..Len(s) /\ n \in 1..Len(s)
    <3>1. s[m] = s[n]   BY <1>2, <2>1, Zenon
    <3> QED   BY <1>2, <2>1, <3>1, Zenon DEF IsInjective
  <2>2. CASE m = Len(s) + 1 /\ n = Len(s) + 1   BY <2>2, Zenon
  <2>3. CASE m \in 1..Len(s) /\ n = Len(s) + 1   BY <1>2, <1>4, <2>3, Zenon
  <2>4. CASE m = Len(s) + 1 /\ n \in 1..Len(s)   BY <1>2, <1>4, <2>4, Zenon
  <2> QED   BY <1>3, <2>1, <2>2, <2>3, <2>4, Zenon
<1> QED   BY <1>1, <1>2, <1>5, <1>6, Zenon

\* A job is put into the queue or refused.
LEMMA SubmitKeeps ==
  ASSUME IngressTypeOK, SinglesInv, NEW j \in Single, Submit(j)
  PROVE  /\ SinglesInv' /\ AnswersStay
         /\ job' \in [Single -> UpsertJob] /\ queue' \in Seq(Single) /\ Len(queue') <= Capacity
<1>1. job[j].at = "new" /\ tasks' = tasks /\ store' = store   BY Zenon DEF Submit
<1>2. PICK v \in Version :
        \/ /\ Len(queue) < Capacity /\ queue' = Append(queue, j)
           /\ job' = [job EXCEPT ![j] = [at |-> "queued", v |-> v]]
        \/ /\ queue' = queue
           /\ job' = [job EXCEPT ![j] = [[at |-> "queued", v |-> v] EXCEPT !.at = "full"]]
  BY Zenon DEF Submit
<1>3. PICK r \in UpsertJob :
        /\ job' = [job EXCEPT ![j] = r]
        /\ \/ r.at = "queued" /\ queue' = Append(queue, j) /\ Len(queue) < Capacity
           \/ r.at = "full" /\ queue' = queue
  <2>1. \A p : p = [at |-> "queued", v |-> v] => p \in UpsertJob /\ p.at = "queued"
    BY DEF UpsertJob, Answers
  <2>2. \A p : p = [[at |-> "queued", v |-> v] EXCEPT !.at = "full"] => p \in UpsertJob /\ p.at = "full"
    BY DEF UpsertJob, Answers
  <2> QED   BY <1>2, <2>1, <2>2, Zenon
<1>4. /\ job \in [Single -> UpsertJob] /\ queue \in Seq(Single) /\ Len(queue) <= Capacity
      /\ IsInjective(queue) /\ \A i \in Range(queue) : job[i].at = "queued"
      /\ \A t \in tasks : TaskOK(t) /\ t \in Task
  BY Zenon DEF IngressTypeOK, SinglesInv
<1>5. job'[j] = r /\ (\A i \in Single : i # j => job'[i] = job[i]) /\ job' \in [Single -> UpsertJob]
  BY <1>3, <1>4, Zenon
<1>6. Grows   BY <1>1, NothingWritten, Zenon
<1>7. (\A i \in Single : AnswerOK(i)') /\ AnswersStay
  <2>1. \A i \in Single : \/ job'[i] = job[i]
                          \/ job[i].at \in {"new", "queued"} /\ job'[i].at \in {"queued", "full", "taken"}
    BY <1>1, <1>3, <1>5, Zenon
  <2> QED   BY <1>6, <2>1, QuietKeeps, Zenon
<1>8. ASSUME NEW t \in tasks   PROVE TaskOK(t)'
  <2>1. Range(t.jobs) \subseteq Single /\ TaskOK(t)   BY <1>4, TaskJobs, Zenon
  <2>2. j \notin Range(t.jobs)   BY <1>1, <2>1, Zenon DEF TaskOK
  <2>3. \A i \in Range(t.jobs) : job'[i] = job[i]   BY <1>5, <2>1, <2>2, Zenon
  <2> QED   BY <1>6, <2>3, TaskStays, Zenon
<1>9. j \notin Range(queue)   BY <1>1, <1>4, Zenon
<1>10. \A i \in Range(queue) : i \in Single /\ job'[i].at = "queued"
  <2>1. Range(queue) \subseteq Single   BY <1>4 DEF Range
  <2> QED   BY <1>4, <1>5, <1>9, <2>1, Zenon
<1>11. /\ queue' \in Seq(Single) /\ Len(queue') <= Capacity /\ IsInjective(queue')
       /\ \A i \in Range(queue') : job'[i].at = "queued"
  <2>1. CASE r.at = "full" /\ queue' = queue   BY <1>4, <1>10, <2>1, Zenon
  <2>2. CASE r.at = "queued" /\ queue' = Append(queue, j) /\ Len(queue) < Capacity
    <3>1. /\ queue' \in Seq(Single) /\ Len(queue') = Len(queue) + 1 /\ IsInjective(queue')
          /\ \A x \in Range(queue') : x \in Range(queue) \/ x = j
      BY <1>4, <1>9, <2>2, Appended, Zenon
    <3>2. Len(queue) \in Nat /\ Capacity \in Nat   BY <1>4, IngressAssumption
    <3>3. Len(queue') <= Capacity   BY <2>2, <3>1, <3>2
    <3> QED   BY <1>5, <1>10, <2>2, <3>1, <3>3, Zenon
  <2> QED   BY <1>3, <2>1, <2>2, Zenon
<1> QED   BY <1>1, <1>4, <1>5, <1>7, <1>8, <1>11, Zenon DEF SinglesInv

\* A line of which a part has gone, from its front or from its back.
LEMMA PartOfLine ==
  ASSUME NEW S, NEW s \in Seq(S), IsInjective(s), NEW n \in 0..Len(s)
  PROVE  LET a == SubSeq(s, 1, n)
             b == SubSeq(s, n + 1, Len(s)) IN
         /\ a \in Seq(S) /\ b \in Seq(S) /\ Len(b) = Len(s) - n
         /\ IsInjective(a) /\ IsInjective(b)
         /\ Range(a) \subseteq Range(s)
         /\ Range(b) = Range(s) \ Range(a)
<1> DEFINE a == SubSeq(s, 1, n)   b == SubSeq(s, n + 1, Len(s))
<1>1. /\ a \in Seq(S) /\ Len(a) = n /\ \A i \in 1..n : a[i] = s[i]
      /\ b \in Seq(S) /\ Len(b) = Len(s) - n /\ \A i \in 1..Len(s) - n : b[i] = s[n + i]
      /\ Len(s) \in Nat
  OBVIOUS
<1> HIDE DEF a, b
<1>2. DOMAIN a = 1..n /\ DOMAIN b = 1..Len(s) - n /\ DOMAIN s = 1..Len(s)   BY <1>1
<1>3. /\ \A i \in 1..n : i \in 1..Len(s)
      /\ \A i \in 1..Len(s) - n : n + i \in 1..Len(s) /\ n + i \notin 1..n
      /\ \A i, j \in 1..Len(s) - n : n + i = n + j => i = j
      /\ \A m \in 1..Len(s) : m \in 1..n \/ (m - n \in 1..Len(s) - n /\ n + (m - n) = m)
  BY <1>1
<1>4. \A i, j \in 1..Len(s) : s[i] = s[j] => i = j   BY <1>2, Zenon DEF IsInjective
<1>5. \A x : x \in Range(a) <=> \E i \in 1..n : x = a[i]   BY <1>2, Zenon DEF Range
<1>6. \A x : x \in Range(b) <=> \E i \in 1..Len(s) - n : x = b[i]   BY <1>2, Zenon DEF Range
<1>7. \A x : x \in Range(s) <=> \E i \in 1..Len(s) : x = s[i]   BY <1>2, Zenon DEF Range
<1>8. IsInjective(a) /\ IsInjective(b)
  <2>1. ASSUME NEW i \in 1..n, NEW j \in 1..n, a[i] = a[j]   PROVE i = j
    <3>1. s[i] = s[j]   BY <1>1, <2>1, Zenon
    <3> QED   BY <1>3, <1>4, <3>1, Zenon
  <2>2. ASSUME NEW i \in 1..Len(s) - n, NEW j \in 1..Len(s) - n, b[i] = b[j]   PROVE i = j
    <3>1. s[n + i] = s[n + j]   BY <1>1, <2>2, Zenon
    <3>2. n + i = n + j   BY <1>3, <1>4, <3>1, Zenon
    <3> QED   BY <1>3, <3>2, Zenon
  <2> QED   BY <1>2, <2>1, <2>2, Zenon DEF IsInjective
<1>9. Range(a) \subseteq Range(s)
  <2> SUFFICES ASSUME NEW x \in Range(a)   PROVE x \in Range(s)   BY Zenon
  <2>1. PICK i \in 1..n : x = a[i]   BY <1>5, Zenon
  <2>2. x = s[i] /\ i \in 1..Len(s)   BY <1>1, <1>3, <2>1, Zenon
  <2> QED   BY <1>7, <2>2, Zenon
<1>10. ASSUME NEW x \in Range(b)   PROVE x \in Range(s) /\ x \notin Range(a)
  <2>1. PICK i \in 1..Len(s) - n : x = b[i]   BY <1>6, Zenon
  <2>2. n + i \in 1..Len(s) /\ n + i \notin 1..n /\ x = s[n + i]   BY <1>1, <1>3, <2>1, Zenon
  <2>3. ASSUME NEW k \in 1..n, x = a[k]   PROVE FALSE
    <3>1. s[k] = s[n + i] /\ k \in 1..Len(s)   BY <1>1, <1>3, <2>2, <2>3, Zenon
    <3>2. k = n + i   BY <1>4, <2>2, <3>1, Zenon
    <3> QED   BY <2>2, <3>2, Zenon
  <2> QED   BY <1>5, <1>7, <2>2, <2>3, Zenon
<1>11. ASSUME NEW x \in Range(s), x \notin Range(a)   PROVE x \in Range(b)
  <2>1. PICK m \in 1..Len(s) : x = s[m]   BY <1>2, Zenon DEF Range
  <2>2. m \notin 1..n   BY <1>1, <1>2, <1>11, <2>1, Zenon DEF Range
  <2>3. m - n \in 1..Len(s) - n /\ n + (m - n) = m   BY <1>3, <2>2, Zenon
  <2>4. b[m - n] = x   BY <1>1, <2>1, <2>3, Zenon
  <2> QED   BY <1>2, <2>3, <2>4, Zenon DEF Range
<1>12. Range(b) = Range(s) \ Range(a)   BY <1>10, <1>11, Zenon
<1> QED   BY <1>1, <1>8, <1>9, <1>12, Zenon DEF a, b

\* The worker takes a batch from the queue: its jobs are in the new task, and in
\* no other.
LEMMA TakeBatchKeeps ==
  ASSUME IngressTypeOK, SinglesInv, TakeBatch
  PROVE  /\ SinglesInv' /\ AnswersStay
         /\ job' \in [Single -> UpsertJob] /\ queue' \in Seq(Single) /\ Len(queue') <= Capacity
         /\ tasks' \subseteq Task /\ Cardinality(tasks') <= MaxTasks
<1> DEFINE n == IF Len(queue) < DrainMax THEN Len(queue) ELSE DrainMax
           a == SubSeq(queue, 1, n)
           b == SubSeq(queue, n + 1, Len(queue))
           colls == {job[j].v.coll : j \in Range(a)}
           new == [jobs |-> a, todo |-> colls, coll |-> CHOOSE c \in Coll : TRUE, step |-> "pick",
                   out |-> [d \in DocId |-> "ok"]]
<1>1. /\ queue # <<>> /\ Cardinality(tasks) < MaxTasks /\ queue' = b /\ store' = store
      /\ tasks' = tasks \cup {new}
      /\ job' = [j \in Single |-> IF j \in Range(a) THEN [job[j] EXCEPT !.at = "taken"] ELSE job[j]]
  BY Zenon DEF TakeBatch
<1>2. /\ job \in [Single -> UpsertJob] /\ queue \in Seq(Single) /\ IsInjective(queue)
      /\ \A i \in Range(queue) : job[i].at = "queued"
      /\ \A t, u \in tasks : t # u => Range(t.jobs) \cap Range(u.jobs) = {}
      /\ tasks \subseteq Task /\ IsFiniteSet(tasks) /\ Len(queue) <= Capacity
      /\ \A t \in tasks : TaskOK(t)
  BY Zenon DEF IngressTypeOK, SinglesInv
<1>3. queue \in Seq(Single) /\ queue # <<>>   BY <1>1, <1>2, Zenon
<1>4. n \in 0..Len(queue) /\ n \in 1..Len(queue)   BY <1>3, IngressAssumption
<1> HIDE DEF n
<1>5. /\ a \in Seq(Single) /\ b \in Seq(Single) /\ Len(b) = Len(queue) - n
      /\ IsInjective(a) /\ IsInjective(b)
      /\ Range(a) \subseteq Range(queue) /\ Range(b) = Range(queue) \ Range(a)
  <2>1. queue \in Seq(Single) /\ IsInjective(queue) /\ n \in 0..Len(queue)   BY <1>2, <1>4, Zenon
  <2> QED   BY <2>1, PartOfLine, Z3
<1>6. \A i \in Range(queue) : i \in Single   BY <1>3 DEF Range
<1>7. Range(a) # {}
  <2>1. Len(a) = n   BY <1>3, <1>4
  <2>2. 1 \in DOMAIN a   BY <1>4, <1>5, <2>1
  <2> QED   BY <2>2, Zenon DEF Range
<1> HIDE DEF a, b
<1>8. Len(b) <= Capacity   BY <1>2, <1>4, <1>5, IngressAssumption
<1>9. colls \in SUBSET Coll   BY <1>5, <1>6, JobFacts, Zenon
<1>10. \A j \in Range(a) : job[j].v.coll \in colls   BY Zenon
<1> HIDE DEF colls
<1>11. PICK v : v = new   BY Zenon
<1>12. v \in Task /\ v.jobs = a /\ v.todo = colls /\ v.step = "pick" /\ tasks' = tasks \cup {v}
  <2>1. PICK c \in Coll : c = CHOOSE x \in Coll : TRUE   BY IngressAssumption, Zenon
  <2>2. v = [jobs |-> a, todo |-> colls, coll |-> c, step |-> "pick", out |-> [d \in DocId |-> "ok"]]
    BY <1>11, <2>1, Zenon
  <2>3. tasks' = tasks \cup {v}   BY <1>1, <1>11, Zenon
  <2> HIDE DEF new
  <2>4. v \in Task /\ v.jobs = a /\ v.todo = colls /\ v.step = "pick"   BY <1>5, <1>9, <2>2 DEF Task
  <2> QED   BY <2>3, <2>4, Zenon
<1> HIDE DEF new
<1>13. ASSUME NEW i \in Range(a)
       PROVE /\ i \in Single /\ job[i].at = "queued" /\ i \notin Range(b)
             /\ job'[i].at = "taken" /\ job'[i].v = job[i].v /\ job'[i] \in UpsertJob
  <2>1. i \in Single /\ job[i].at = "queued" /\ i \notin Range(b)   BY <1>2, <1>5, <1>6, Zenon
  <2>2. job'[i] = [job[i] EXCEPT !.at = "taken"]   BY <1>1, <2>1, Zenon
  <2>3. PICK r \in UpsertJob : r = job[i]   BY <1>2, <2>1, Zenon
  <2>4. PICK w : w = [r EXCEPT !.at = "taken"]   BY Zenon
  <2>5. w.at = "taken" /\ w.v = r.v /\ w \in UpsertJob   BY <2>4, Z3 DEF UpsertJob
  <2> QED   BY <2>1, <2>2, <2>3, <2>4, <2>5, Zenon
<1>14. ASSUME NEW i \in Single, i \notin Range(a)   PROVE job'[i] = job[i]   BY <1>1, <1>14, Zenon
<1>15. job' \in [Single -> UpsertJob]
  <2>1. \A i \in Single : job'[i] \in UpsertJob   BY <1>2, <1>13, <1>14, Zenon
  <2>2. PICK f : f = job' /\ f = [j \in Single |-> IF j \in Range(a) THEN [job[j] EXCEPT !.at = "taken"] ELSE job[j]]
    BY <1>1, Zenon
  <2>3. \A i \in Single : f[i] \in UpsertJob   BY <2>1, <2>2, Zenon
  <2>4. f \in [Single -> UpsertJob]   BY <2>2, <2>3, Zenon
  <2> QED   BY <2>2, <2>4, Zenon
<1>16. Grows   BY <1>1, NothingWritten, Zenon
<1>17. (\A i \in Single : AnswerOK(i)') /\ AnswersStay
  <2>1. \A i \in Single : \/ job'[i] = job[i]
                          \/ job[i].at \in {"new", "queued"} /\ job'[i].at \in {"queued", "full", "taken"}
    BY <1>13, <1>14, Zenon
  <2> QED   BY <1>16, <2>1, QuietKeeps, Zenon
<1>18. ASSUME NEW t \in tasks   PROVE TaskOK(t)' /\ Range(t.jobs) \cap Range(a) = {}
  <2>1. Range(t.jobs) \subseteq Single /\ TaskOK(t)   BY <1>2, TaskJobs, Zenon
  <2>2. \A i \in Range(t.jobs) : i \notin Range(a)   BY <1>13, <2>1, Zenon DEF TaskOK
  <2>3. \A i \in Range(t.jobs) : job'[i] = job[i]   BY <1>14, <2>1, <2>2, Zenon
  <2>4. TaskOK(t)'   BY <1>16, <2>3, TaskStays, Zenon
  <2> QED   BY <2>2, <2>4, Zenon
<1>19. TaskOK(v)'   BY <1>12, <1>13, Zenon DEF TaskOK
<1>20. v \notin tasks   BY <1>7, <1>12, <1>18, Zenon
<1>21. IsFiniteSet(tasks') /\ Cardinality(tasks') <= MaxTasks
  <2>1. /\ IsFiniteSet(tasks \cup {v}) /\ Cardinality(tasks \cup {v}) = Cardinality(tasks) + 1
        /\ Cardinality(tasks) \in Nat
    BY <1>2, <1>20, FS_AddElement, FS_CardinalityType
  <2>2. Cardinality(tasks) < MaxTasks /\ MaxTasks \in Nat   BY <1>1, IngressAssumption, Zenon
  <2>3. \A c \in Nat : c < MaxTasks => c + 1 <= MaxTasks   BY <2>2
  <2>4. Cardinality(tasks) + 1 <= MaxTasks   BY <2>1, <2>2, <2>3, Zenon
  <2> QED   BY <1>12, <2>1, <2>4, Zenon
<1>22. \A t, u \in tasks' : t # u => Range(t.jobs) \cap Range(u.jobs) = {}   BY <1>2, <1>12, <1>18, Zenon
<1>23. \A t \in tasks' : TaskOK(t)'   BY <1>12, <1>18, <1>19, Zenon
<1>24. IsInjective(queue') /\ \A i \in Range(queue') : job'[i].at = "queued"
  BY <1>1, <1>2, <1>5, <1>6, <1>14, Zenon
<1>25. tasks' \subseteq Task   BY <1>2, <1>12, Zenon
<1>26. queue' \in Seq(Single) /\ Len(queue') <= Capacity   BY <1>1, <1>5, <1>8, Zenon
<1> QED   BY <1>15, <1>17, <1>21, <1>22, <1>23, <1>24, <1>25, <1>26, Zenon DEF SinglesInv

-----------------------------------------------------------------------------
(* Bulk jobs. *)

\* Every document is in a chunk: the last chunk may be shorter.
LEMMA ChunkOf ==
  ASSUME NEW B \in Nat, NEW C \in Nat \ {0}, NEW k \in 1..B
  PROVE  LET i == (k - 1) \div C + 1 IN
         /\ i \in 1..((B + C - 1) \div C)
         /\ (i - 1) * C + 1 <= k /\ k <= i * C
<1>1. PICK q : q = (k - 1) \div C   BY Zenon
<1>2. q \in Nat /\ C * q <= k - 1 /\ k - 1 < C * q + C
  <2>1. \A x \in Nat, y \in Nat \ {0} : x \div y \in Nat /\ y * (x \div y) <= x /\ x < y * (x \div y) + y
    OBVIOUS
  <2>2. k - 1 \in Nat   OBVIOUS
  <2> QED   BY <1>1, <2>1, <2>2
<1>3. PICK n : n = (B + C - 1) \div C   BY Zenon
<1>4. n \in Nat /\ B + C - 1 < C * n + C
  <2>1. \A x \in Nat, y \in Nat \ {0} : x \div y \in Nat /\ x < y * (x \div y) + y
    OBVIOUS
  <2>2. B + C - 1 \in Nat   OBVIOUS
  <2> QED   BY <1>3, <2>1, <2>2
<1>5. q < n
  <2> SUFFICES ASSUME n <= q   PROVE FALSE   BY <1>2, <1>4
  <2>1. PICK r \in Nat : q = n + r   BY <1>2, <1>4
  <2>2. C * q = C * n + C * r /\ C * r \in Nat /\ C * n \in Nat   BY <1>4, <2>1
  <2> QED   BY <1>2, <1>4, <2>2
<1>6. q * C = C * q /\ (q + 1) * C = C * q + C /\ C * q \in Nat   BY <1>2
<1>7. q + 1 \in 1..n /\ (q + 1) - 1 = q   BY <1>2, <1>4, <1>5
<1> QED   BY <1>1, <1>2, <1>3, <1>6, <1>7

\* Chunks are counted from one.
LEMMA ChunkIndex == \A i \in 1..NumChunks : i \in Nat \ {0}
<1>1. NumChunks \in Nat   BY IngressAssumption DEF NumChunks
<1> QED   BY <1>1

\* The documents of a chunk.
LEMMA ChunkFacts ==
  ASSUME NEW vs \in Seq(Version), NEW i \in Nat \ {0}
  PROVE  /\ Chunk(vs, i) \in Seq(Version)
         /\ \A v \in Range(Chunk(vs, i)) : v \in Version
         /\ \A k \in 1..Len(vs) : (i - 1) * ChunkSize + 1 <= k /\ k <= i * ChunkSize => vs[k] \in Range(Chunk(vs, i))
<1>1. PICK lo \in Nat : lo = (i - 1) * ChunkSize   BY IngressAssumption
<1>2. PICK hi \in Nat : hi = IF i * ChunkSize <= Len(vs) THEN i * ChunkSize ELSE Len(vs)   BY IngressAssumption
<1>3. PICK s : s = SubSeq(vs, lo + 1, hi)   BY Zenon
<1>4. s = Chunk(vs, i)   BY <1>1, <1>2, <1>3, Zenon DEF Chunk
<1>5. hi <= Len(vs) /\ Len(vs) \in Nat   BY <1>2, IngressAssumption
<1>6. /\ s \in Seq(Version)
      /\ \A k \in lo + 1..hi : k - lo \in DOMAIN s /\ s[k - lo] = vs[k]
  BY <1>3, <1>5
<1>7. \A v \in Range(s) : v \in Version   BY <1>6 DEF Range
<1>8. ASSUME NEW k \in 1..Len(vs), (i - 1) * ChunkSize + 1 <= k, k <= i * ChunkSize   PROVE vs[k] \in Range(s)
  <2>1. k \in lo + 1..hi   BY <1>1, <1>2, <1>8, IngressAssumption
  <2> QED   BY <1>6, <2>1, Zenon DEF Range
<1> QED   BY <1>4, <1>6, <1>7, <1>8, Zenon

\* The newest version of a document in a chunk or in the store.
LEMMA NewestFacts ==
  ASSUME IngressTypeOK, NEW s \in Seq(Version), NEW c \in Coll, NEW d \in DocId
  PROVE  /\ Newest(s, c, d) \in 0..MaxTs /\ Newest(s, c, d) >= store[c][d]
         /\ \A v \in Range(s) : v.coll = c /\ v.doc = d => Newest(s, c, d) >= v.ts
<1> DEFINE T == {s[i].ts : i \in {k \in DOMAIN s : s[k].coll = c /\ s[k].doc = d}} \cup {store[c][d]}
<1>1. store[c][d] \in 0..MaxTs   BY Zenon DEF IngressTypeOK
<1>2. \A k \in DOMAIN s : s[k] \in Version   OBVIOUS
<1>3. \A v \in Version : v.ts \in 0..MaxTs   BY IngressAssumption DEF Version, Ts
<1>4. T \in SUBSET (0..MaxTs) /\ T # {}   BY <1>1, <1>2, <1>3, Zenon
<1>5. MaxTs \in Nat   BY IngressAssumption, Zenon
<1>6. Newest(s, c, d) = CHOOSE x \in T : \A y \in T : y <= x   BY Zenon DEF Newest
<1>7. store[c][d] \in T /\ \A v \in Range(s) : v.coll = c /\ v.doc = d => v.ts \in T   BY Zenon DEF Range
<1> HIDE DEF T
<1>8. \E x \in T : \A y \in T : y <= x   BY <1>4, <1>5, GreatestOf, Zenon
<1>9. Newest(s, c, d) \in T /\ \A y \in T : y <= Newest(s, c, d)   BY <1>6, <1>8, Zenon
<1>10. \A a, b \in 0..MaxTs : a <= b => b >= a   BY <1>5
<1> QED   BY <1>4, <1>7, <1>9, <1>10, Zenon

\* What the chunks have stored stays stored.
LEMMA ChunksStay ==
  ASSUME IngressTypeOK, Grows, NEW x \in BulkJob, ChunksStored(x)
  PROVE  ChunksStored(x)'
<1> SUFFICES ASSUME NEW i \in 1..NumChunks, x.chunk[i] = "ok", NEW v \in Range(Chunk(x.vs, i))
             PROVE  Stored(v)'
  BY Zenon DEF ChunksStored
<1>1. x.vs \in Seq(Version)   BY Zenon DEF BulkJob
<1>2. i \in Nat \ {0}   BY ChunkIndex, Zenon
<1>3. v \in Version   BY <1>1, <1>2, ChunkFacts, Zenon
<1>4. Stored(v)   BY Zenon DEF ChunksStored
<1> QED   BY <1>3, <1>4, StoredStays, Zenon

\* The fate of the bulk jobs in the next state.
LEMMA BulksNext ==
  ASSUME bulk' \in [Bulk -> BulkJob],
         \A b \in Bulk : \E x \in BulkJob : bulk'[b] = x /\ BulkShape(x) /\ ChunksStored(x)'
  PROVE  BulksInv'
<1> SUFFICES ASSUME NEW b \in Bulk   PROVE BulkShape(bulk[b])' /\ ChunksStored(bulk[b])'   BY Zenon DEF BulksInv
<1>1. PICK x \in BulkJob : bulk'[b] = x /\ BulkShape(x) /\ ChunksStored(x)'   BY Zenon
<1>2. BulkShape(bulk[b])'   BY <1>1, Zenon DEF BulkShape
<1>3. ChunksStored(bulk[b])'   BY <1>1, Zenon DEF ChunksStored
<1> QED   BY <1>2, <1>3, Zenon

\* A step of one bulk job.
LEMMA BulkMoves ==
  ASSUME IngressTypeOK, BulksInv, Grows, NEW b \in Bulk, NEW x \in BulkJob,
         bulk' = [bulk EXCEPT ![b] = x], BulkShape(x), ChunksStored(x)'
  PROVE  BulksInv' /\ bulk' \in [Bulk -> BulkJob]
<1>1. bulk \in [Bulk -> BulkJob]   BY Zenon DEF IngressTypeOK
<1>2. bulk' \in [Bulk -> BulkJob] /\ bulk'[b] = x /\ \A e \in Bulk : e # b => bulk'[e] = bulk[e]
  BY <1>1, Zenon
<1>3. ASSUME NEW e \in Bulk   PROVE \E y \in BulkJob : bulk'[e] = y /\ BulkShape(y) /\ ChunksStored(y)'
  <2>1. CASE e = b   BY <1>2, <2>1, Zenon
  <2>2. CASE e # b
    <3>1. PICK y \in BulkJob : y = bulk[e]   BY <1>1, Zenon
    <3>2. BulkShape(y) /\ ChunksStored(y) /\ bulk'[e] = y   BY <1>2, <2>2, <3>1, Zenon DEF BulksInv
    <3>3. ChunksStored(y)'   BY <3>2, ChunksStay, Zenon
    <3> QED   BY <3>2, <3>3, Zenon
  <2> QED   BY <2>1, <2>2, Zenon
<1> QED   BY <1>2, <1>3, BulksNext, Zenon

\* Steps of others leave the bulk jobs alone.
LEMMA BulksStay ==
  ASSUME IngressTypeOK, BulksInv, Grows, bulk' = bulk
  PROVE  BulksInv' /\ bulk' \in [Bulk -> BulkJob]
<1>1. bulk' \in [Bulk -> BulkJob] /\ bulk \in [Bulk -> BulkJob]   BY Zenon DEF IngressTypeOK
<1>2. ASSUME NEW e \in Bulk   PROVE \E y \in BulkJob : bulk'[e] = y /\ BulkShape(y) /\ ChunksStored(y)'
  <2>1. PICK y \in BulkJob : y = bulk[e]   BY <1>1, Zenon
  <2>2. BulkShape(y) /\ ChunksStored(y) /\ bulk'[e] = y   BY <2>1, Zenon DEF BulksInv
  <2>3. ChunksStored(y)'   BY <2>2, ChunksStay, Zenon
  <2> QED   BY <2>2, <2>3, Zenon
<1> QED   BY <1>1, <1>2, BulksNext, Zenon


\* A bulk job starts: its chunks have yet to run.
LEMMA StartBulkKeeps ==
  ASSUME IngressTypeOK, BulksInv, NEW b \in Bulk, StartBulk(b)
  PROVE  BulksInv' /\ bulk' \in [Bulk -> BulkJob] /\ Grows
<1>1. bulk[b].at = "new" /\ store' = store   BY Zenon DEF StartBulk
<1>2. PICK c \in Coll, f \in [1..BulkLen -> DocId \X Ts] :
        bulk' = [bulk EXCEPT ![b].at = "running",
                             ![b].vs = [i \in 1..BulkLen |-> [coll |-> c, doc |-> f[i][1], ts |-> f[i][2]]]]
  BY Zenon DEF StartBulk
<1>3. PICK w : w = [i \in 1..BulkLen |-> [coll |-> c, doc |-> f[i][1], ts |-> f[i][2]]]   BY Zenon
<1>4. w \in Seq(Version) /\ DOMAIN w = 1..BulkLen
  <2>1. \A i \in 1..BulkLen : w[i] = [coll |-> c, doc |-> f[i][1], ts |-> f[i][2]]   BY <1>3, Zenon
  <2>2. \A i \in 1..BulkLen : f[i][1] \in DocId /\ f[i][2] \in Ts   BY Zenon
  <2>3. \A d \in DocId, n \in Ts : [coll |-> c, doc |-> d, ts |-> n] \in Version   BY Zenon DEF Version
  <2>4. ASSUME NEW i \in 1..BulkLen   PROVE w[i] \in Version
    <3>1. PICK d \in DocId, n \in Ts : d = f[i][1] /\ n = f[i][2]   BY <2>2, Zenon
    <3>2. w[i] = [coll |-> c, doc |-> d, ts |-> n]   BY <2>1, <3>1, Zenon
    <3> QED   BY <2>3, <3>2, Zenon
  <2>5. w \in [1..BulkLen -> Version]   BY <1>3, <2>4, Zenon
  <2>6. BulkLen \in Nat   BY IngressAssumption, Zenon
  <2>7. \A S : \A n \in Nat : \A s \in [1..n -> S] : s \in Seq(S)   OBVIOUS
  <2> QED   BY <2>5, <2>6, <2>7, Zenon
<1>5. bulk \in [Bulk -> BulkJob] /\ BulkShape(bulk[b])   BY Zenon DEF IngressTypeOK, BulksInv
<1>6. PICK y \in BulkJob : y = bulk[b]   BY <1>5, Zenon
<1>7. PICK x : x = [y EXCEPT !.at = "running", !.vs = w]   BY Zenon
<1>8. x \in BulkJob /\ x.at = "running" /\ x.vs = w /\ x.chunk = y.chunk   BY <1>4, <1>7, Zenon DEF BulkJob
<1>9. bulk' = [bulk EXCEPT ![b] = x]   BY <1>2, <1>3, <1>5, <1>6, <1>7, Zenon
<1>10. \A i \in 1..NumChunks : x.chunk[i] = "run"   BY <1>1, <1>5, <1>6, <1>8, Zenon DEF BulkShape
<1>11. BulkShape(x) /\ ChunksStored(x)'   BY <1>4, <1>8, <1>10, Zenon DEF BulkShape, ChunksStored
<1>12. Grows   BY <1>1, NothingWritten, Zenon
<1> QED   BY <1>8, <1>9, <1>11, <1>12, BulkMoves, Zenon

\* What the end of a chunk makes of its job.
LEMMA ChunkEndsFacts ==
  ASSUME IngressTypeOK, BulksInv, NEW b \in Bulk, NEW i \in 1..NumChunks,
         NEW s \in {"ok", "err", "panic"}, ChunkEnds(b, i, s)
  PROVE  \E x \in BulkJob :
           /\ bulk' = [bulk EXCEPT ![b] = x] /\ x.vs = bulk[b].vs /\ BulkShape(x)
           /\ x.chunk[i] = s /\ \A n \in 1..NumChunks : n # i => x.chunk[n] = bulk[b].chunk[n]
<1>1. bulk[b].at = "running" /\ bulk' = [bulk EXCEPT ![b].chunk[i] = s]   BY Zenon DEF ChunkEnds
<1>2. bulk \in [Bulk -> BulkJob] /\ BulkShape(bulk[b])   BY Zenon DEF IngressTypeOK, BulksInv
<1>3. PICK y \in BulkJob : y = bulk[b]   BY <1>2, Zenon
<1>4. PICK f : f = [y.chunk EXCEPT ![i] = s]   BY Zenon
<1>5. PICK x : x = [y EXCEPT !.chunk = f]   BY Zenon
<1>6. /\ y.chunk \in [1..NumChunks -> {"run", "ok", "err", "panic"}]
      /\ f \in [1..NumChunks -> {"run", "ok", "err", "panic"}]
      /\ f[i] = s /\ \A n \in 1..NumChunks : n # i => f[n] = y.chunk[n]
  <2>1. y.chunk \in [1..NumChunks -> {"run", "ok", "err", "panic"}]   BY Zenon DEF BulkJob
  <2> QED   BY <1>4, <2>1, Zenon
<1>7. x \in BulkJob /\ x.at = y.at /\ x.vs = y.vs /\ x.chunk = f   BY <1>5, <1>6, Zenon DEF BulkJob
<1>8. bulk' = [bulk EXCEPT ![b] = x]   BY <1>1, <1>2, <1>3, <1>4, <1>5, Zenon
<1>9. BulkShape(x)   BY <1>1, <1>2, <1>3, <1>7, Zenon DEF BulkShape
<1> QED   BY <1>3, <1>6, <1>7, <1>8, <1>9, Zenon

\* A chunk that does not succeed stores nothing.
LEMMA ChunkLost ==
  ASSUME IngressTypeOK, BulksInv, NEW b \in Bulk, NEW i \in 1..NumChunks,
         NEW s \in {"ok", "err", "panic"}, s # "ok", ChunkEnds(b, i, s), store' = store
  PROVE  BulksInv' /\ bulk' \in [Bulk -> BulkJob] /\ Grows
<1>1. PICK x \in BulkJob :
           /\ bulk' = [bulk EXCEPT ![b] = x] /\ x.vs = bulk[b].vs /\ BulkShape(x)
           /\ x.chunk[i] = s /\ \A n \in 1..NumChunks : n # i => x.chunk[n] = bulk[b].chunk[n]
  BY ChunkEndsFacts
<1>2. Grows   BY NothingWritten, Zenon
<1>3. ChunksStored(bulk[b])   BY Zenon DEF BulksInv
<1>4. ChunksStored(x)
  <2>1. ASSUME NEW n \in 1..NumChunks, x.chunk[n] = "ok"   PROVE bulk[b].chunk[n] = "ok"   BY <1>1, <2>1, Zenon
  <2> QED   BY <1>1, <1>3, <2>1, Zenon DEF ChunksStored
<1>5. ChunksStored(x)'   BY <1>2, <1>4, ChunksStay, Zenon
<1> QED   BY <1>1, <1>2, <1>5, BulkMoves, Zenon

\* A chunk that succeeds stores its documents, or leaves what is newer.
LEMMA ApplyChunkKeeps ==
  ASSUME IngressTypeOK, BulksInv, NEW b \in Bulk, NEW i \in 1..NumChunks, ApplyChunk(b, i)
  PROVE  BulksInv' /\ bulk' \in [Bulk -> BulkJob] /\ Grows
<1>1. /\ ChunkEnds(b, i, "ok")
      /\ store' = [c \in Coll |-> [d \in DocId |-> Newest(Chunk(bulk[b].vs, i), c, d)]]
  BY Zenon DEF ApplyChunk
<1>2. PICK x \in BulkJob :
           /\ bulk' = [bulk EXCEPT ![b] = x] /\ x.vs = bulk[b].vs /\ BulkShape(x)
           /\ x.chunk[i] = "ok" /\ \A n \in 1..NumChunks : n # i => x.chunk[n] = bulk[b].chunk[n]
  <2>1. PICK s \in {"ok", "err", "panic"} : s = "ok"   BY Zenon
  <2>2. ChunkEnds(b, i, s)   BY <1>1, <2>1, Zenon
  <2> QED   BY <2>1, <2>2, ChunkEndsFacts, Zenon
<1>3. x.vs \in Seq(Version)   BY <1>2, Zenon DEF BulkJob
<1>4. i \in Nat \ {0}   BY ChunkIndex, Zenon
<1>5. PICK s : s = Chunk(x.vs, i)   BY Zenon
<1>6. s \in Seq(Version) /\ \A v \in Range(s) : v \in Version   BY <1>3, <1>4, <1>5, ChunkFacts, Zenon
<1>7. \A c \in Coll, d \in DocId :
        /\ Newest(s, c, d) \in 0..MaxTs /\ Newest(s, c, d) >= store[c][d]
        /\ \A v \in Range(s) : v.coll = c /\ v.doc = d => Newest(s, c, d) >= v.ts
  BY <1>6, NewestFacts, Zenon
<1>8. store' = [c \in Coll |-> [d \in DocId |-> Newest(s, c, d)]]   BY <1>1, <1>2, <1>5, Zenon
<1>9. \A c \in Coll, d \in DocId : store'[c][d] = Newest(s, c, d)   BY <1>8, Zenon
<1>10. Grows
  <2>1. \A c \in Coll, d \in DocId : store'[c][d] >= store[c][d]   BY <1>7, <1>9, Zenon
  <2>2. store' \in [Coll -> [DocId -> 0..MaxTs]]
    <3>1. PICK g : g = store' /\ g = [c \in Coll |-> [d \in DocId |-> Newest(s, c, d)]]   BY <1>8, Zenon
    <3>2. \A c \in Coll : [d \in DocId |-> Newest(s, c, d)] \in [DocId -> 0..MaxTs]   BY <1>7, Zenon
    <3>3. g \in [Coll -> [DocId -> 0..MaxTs]]   BY <3>1, <3>2, Zenon
    <3> QED   BY <3>1, <3>3, Zenon
  <2> QED   BY <2>1, <2>2, Zenon DEF Grows
<1>11. ChunksStored(x)'
  <2> SUFFICES ASSUME NEW n \in 1..NumChunks, x.chunk[n] = "ok", NEW v \in Range(Chunk(x.vs, n))
               PROVE  Stored(v)'
    BY Zenon DEF ChunksStored
  <2>1. CASE n = i
    <3>1. v \in Range(s) /\ v \in Version   BY <1>5, <1>6, <2>1, Zenon
    <3>2. v.coll \in Coll /\ v.doc \in DocId   BY <3>1, Zenon DEF Version
    <3>3. store'[v.coll][v.doc] >= v.ts   BY <1>7, <1>9, <3>1, <3>2, Zenon
    <3> QED   BY <3>3, Zenon DEF Stored
  <2>2. CASE n # i
    <3>1. Stored(v)   BY <1>2, <2>2, Zenon DEF BulksInv, ChunksStored
    <3>2. n \in Nat \ {0}   BY ChunkIndex, Zenon
    <3>3. v \in Version   BY <1>3, <3>2, ChunkFacts, Zenon
    <3> QED   BY <1>10, <3>1, <3>3, StoredStays, Zenon
  <2> QED   BY <2>1, <2>2, Zenon
<1> QED   BY <1>2, <1>10, <1>11, BulkMoves, Zenon

\* The chunks are joined: success means that none of them failed.
LEMMA ReplyBulkKeeps ==
  ASSUME IngressTypeOK, BulksInv, NEW b \in Bulk, ReplyBulk(b)
  PROVE  BulksInv' /\ bulk' \in [Bulk -> BulkJob] /\ Grows
<1>1. PICK a : a = IF \E i \in 1..NumChunks : bulk[b].chunk[i] = "err" THEN "err" ELSE "ok"   BY Zenon
<1>2. /\ bulk[b].at = "running" /\ (\A i \in 1..NumChunks : bulk[b].chunk[i] # "run") /\ store' = store
      /\ bulk' = [bulk EXCEPT ![b].at = a]
  BY <1>1, Zenon DEF ReplyBulk
<1>3. a \in {"ok", "err"} /\ (a = "ok" => \A i \in 1..NumChunks : bulk[b].chunk[i] # "err")   BY <1>1, Zenon
<1>4. bulk \in [Bulk -> BulkJob] /\ BulkShape(bulk[b]) /\ ChunksStored(bulk[b])   BY Zenon DEF IngressTypeOK, BulksInv
<1>5. PICK y \in BulkJob : y = bulk[b]   BY <1>4, Zenon
<1>6. PICK x : x = [y EXCEPT !.at = a]   BY Zenon
<1>7. x \in BulkJob /\ x.at = a /\ x.vs = y.vs /\ x.chunk = y.chunk   BY <1>3, <1>6, Zenon DEF BulkJob
<1>8. bulk' = [bulk EXCEPT ![b] = x]   BY <1>2, <1>4, <1>5, <1>6, Zenon
<1>9. \A i \in 1..NumChunks : y.chunk[i] \in {"run", "ok", "err", "panic"}   BY Zenon DEF BulkJob
<1>10. BulkShape(x)
  <2>1. a = "ok" => \A i \in 1..NumChunks : x.chunk[i] \in {"ok", "panic"}   BY <1>2, <1>3, <1>5, <1>7, <1>9, Zenon
  <2>2. DOMAIN x.vs = 1..BulkLen   BY <1>2, <1>4, <1>5, <1>7, Zenon DEF BulkShape
  <2> QED   BY <1>3, <1>7, <2>1, <2>2, Zenon DEF BulkShape
<1>11. Grows   BY <1>2, NothingWritten, Zenon
<1>12. ChunksStored(x)   BY <1>4, <1>5, <1>7, Zenon DEF ChunksStored
<1>13. ChunksStored(x)'   BY <1>7, <1>11, <1>12, ChunksStay, Zenon
<1> QED   BY <1>7, <1>8, <1>10, <1>11, <1>13, BulkMoves, Zenon

-----------------------------------------------------------------------------
(* The invariant. *)

\* A step of the bulk jobs leaves the single documents alone.
LEMMA BulkStepKeeps ==
  ASSUME IngressInv, NEW b \in Bulk, StartBulk(b) \/ BulkStep(b) \/ BulkFault(b)
  PROVE  IngressInv' /\ AnswersStay
<1>0. /\ IngressTypeOK /\ SinglesInv /\ BulksInv
      /\ errors \in 0..MaxErrors /\ panics \in 0..MaxPanics
  BY Zenon DEF IngressInv, IngressTypeOK
<1>1. \A n \in Nat : \A x \in 0..n : x < n => x + 1 \in 0..n   OBVIOUS
<1>2. ASSUME job' = job, queue' = queue, tasks' = tasks, Grows, BulksInv', bulk' \in [Bulk -> BulkJob],
             errors' \in 0..MaxErrors, panics' \in 0..MaxPanics
      PROVE  IngressInv' /\ AnswersStay
  <2>1. SinglesInv' /\ AnswersStay   BY <1>0, <1>2, SinglesStay, Zenon
  <2>2. IngressTypeOK'   BY <1>0, <1>2, Zenon DEF IngressTypeOK, Grows
  <2> QED   BY <1>2, <2>1, <2>2, Zenon DEF IngressInv
<1>3. CASE StartBulk(b)
  <2>1. job' = job /\ queue' = queue /\ tasks' = tasks /\ errors' = errors /\ panics' = panics
    BY <1>3, Zenon DEF StartBulk
  <2> QED   BY <1>0, <1>2, <1>3, <2>1, StartBulkKeeps, Zenon
<1>4. CASE ReplyBulk(b)
  <2>1. job' = job /\ queue' = queue /\ tasks' = tasks /\ errors' = errors /\ panics' = panics
    BY <1>4, Zenon DEF ReplyBulk
  <2> QED   BY <1>0, <1>2, <1>4, <2>1, ReplyBulkKeeps, Zenon
<1>5. ASSUME NEW i \in 1..NumChunks, ApplyChunk(b, i)   PROVE IngressInv' /\ AnswersStay
  <2>1. job' = job /\ queue' = queue /\ tasks' = tasks /\ errors' = errors /\ panics' = panics
    BY <1>5, Zenon DEF ApplyChunk, ChunkEnds
  <2> QED   BY <1>0, <1>2, <1>5, <2>1, ApplyChunkKeeps, Zenon
<1>6. ASSUME NEW i \in 1..NumChunks, ChunkFails(b, i)   PROVE IngressInv' /\ AnswersStay
  <2>1. /\ job' = job /\ queue' = queue /\ tasks' = tasks /\ store' = store
        /\ errors < MaxErrors /\ errors' = errors + 1 /\ panics' = panics
    BY <1>6, Zenon DEF ChunkFails, ChunkEnds
  <2>2. PICK s \in {"ok", "err", "panic"} : s = "err"   BY Zenon
  <2>3. s # "ok" /\ ChunkEnds(b, i, s)   BY <1>6, <2>2, Zenon DEF ChunkFails
  <2>4. errors' \in 0..MaxErrors   BY <1>0, <1>1, <2>1, IngressAssumption, Zenon
  <2>5. BulksInv' /\ bulk' \in [Bulk -> BulkJob] /\ Grows   BY <1>0, <2>1, <2>3, ChunkLost, Zenon
  <2> QED   BY <1>0, <1>2, <2>1, <2>4, <2>5, Zenon
<1>7. ASSUME NEW i \in 1..NumChunks, ChunkPanics(b, i)   PROVE IngressInv' /\ AnswersStay
  <2>1. /\ job' = job /\ queue' = queue /\ tasks' = tasks /\ store' = store
        /\ panics < MaxPanics /\ panics' = panics + 1 /\ errors' = errors
    BY <1>7, Zenon DEF ChunkPanics, ChunkEnds
  <2>2. PICK s \in {"ok", "err", "panic"} : s = "panic"   BY Zenon
  <2>3. s # "ok" /\ ChunkEnds(b, i, s)   BY <1>7, <2>2, Zenon DEF ChunkPanics
  <2>4. panics' \in 0..MaxPanics   BY <1>0, <1>1, <2>1, IngressAssumption, Zenon
  <2>5. BulksInv' /\ bulk' \in [Bulk -> BulkJob] /\ Grows   BY <1>0, <2>1, <2>3, ChunkLost, Zenon
  <2> QED   BY <1>0, <1>2, <2>1, <2>4, <2>5, Zenon
<1> QED   BY <1>3, <1>4, <1>5, <1>6, <1>7, Zenon DEF BulkStep, BulkFault

\* A step of a task leaves the bulk jobs alone.
LEMMA TaskStepKeeps ==
  ASSUME IngressInv, NEW t \in tasks,
         PickCollection(t) \/ Apply(t) \/ Reply(t) \/ ApplyFails(t) \/ Panic(t)
  PROVE  IngressInv' /\ AnswersStay
<1>0. /\ IngressTypeOK /\ SinglesInv /\ BulksInv
      /\ errors \in 0..MaxErrors /\ panics \in 0..MaxPanics /\ queue \in Seq(Single) /\ Len(queue) <= Capacity
  BY Zenon DEF IngressInv, IngressTypeOK
<1>1. \A n \in Nat : \A x \in 0..n : x < n => x + 1 \in 0..n   OBVIOUS
<1>2. ASSUME bulk' = bulk, errors' \in 0..MaxErrors, panics' \in 0..MaxPanics, \E S, U : Turn(t, S, U)
      PROVE  IngressInv' /\ AnswersStay
  <2>1. PICK S, U : Turn(t, S, U)   BY <1>2, Zenon
  <2>2. /\ SinglesInv' /\ AnswersStay
        /\ job' \in [Single -> UpsertJob] /\ tasks' \subseteq Task /\ Cardinality(tasks') <= MaxTasks
    BY <1>0, <2>1, TurnKeeps, Zenon
  <2>3. Grows /\ queue' = queue   BY <2>1, Zenon DEF Turn
  <2>4. BulksInv' /\ bulk' \in [Bulk -> BulkJob]   BY <1>0, <1>2, <2>3, BulksStay, Zenon
  <2>5. IngressTypeOK'   BY <1>0, <1>2, <2>2, <2>3, <2>4, Zenon DEF IngressTypeOK, Grows
  <2> QED   BY <2>2, <2>4, <2>5, Zenon DEF IngressInv
<1>3. CASE PickCollection(t)
  <2>1. bulk' = bulk /\ errors' = errors /\ panics' = panics   BY <1>3, Zenon DEF PickCollection
  <2> QED   BY <1>0, <1>2, <1>3, <2>1, PickKeeps, Zenon
<1>4. CASE Apply(t)
  <2>1. bulk' = bulk /\ errors' = errors /\ panics' = panics   BY <1>4, Zenon DEF Apply
  <2> QED   BY <1>0, <1>2, <1>4, <2>1, ApplyKeeps, Zenon
<1>5. CASE Reply(t)
  <2>1. bulk' = bulk /\ errors' = errors /\ panics' = panics   BY <1>5, Zenon DEF Reply
  <2> QED   BY <1>0, <1>2, <1>5, <2>1, ReplyKeeps, Zenon
<1>6. CASE ApplyFails(t)
  <2>1. bulk' = bulk /\ errors < MaxErrors /\ errors' = errors + 1 /\ panics' = panics   BY <1>6, Zenon DEF ApplyFails
  <2>2. errors' \in 0..MaxErrors   BY <1>0, <1>1, <2>1, IngressAssumption, Zenon
  <2> QED   BY <1>0, <1>2, <1>6, <2>1, <2>2, ApplyFailsKeeps, Zenon
<1>7. CASE Panic(t)
  <2>1. bulk' = bulk /\ panics < MaxPanics /\ panics' = panics + 1 /\ errors' = errors   BY <1>7, Zenon DEF Panic
  <2>2. panics' \in 0..MaxPanics   BY <1>0, <1>1, <2>1, IngressAssumption, Zenon
  <2> QED   BY <1>0, <1>2, <1>7, <2>1, <2>2, PanicKeeps, Zenon
<1> QED   BY <1>3, <1>4, <1>5, <1>6, <1>7, Zenon

\* A step that changes nothing.
LEMMA IngressStutters ==
  ASSUME IngressInv, UNCHANGED ingressVars
  PROVE  IngressInv' /\ AnswersStay
<1>1. /\ job' = job /\ queue' = queue /\ tasks' = tasks /\ bulk' = bulk /\ store' = store
      /\ errors' = errors /\ panics' = panics
  BY Zenon DEF ingressVars
<1>2. IngressTypeOK /\ SinglesInv /\ BulksInv   BY Zenon DEF IngressInv
<1>3. Grows   BY <1>1, <1>2, NothingWritten, Zenon
<1>4. SinglesInv' /\ AnswersStay   BY <1>1, <1>2, <1>3, SinglesStay, Zenon
<1>5. BulksInv'   BY <1>1, <1>2, <1>3, BulksStay, Zenon
<1>6. IngressTypeOK'   BY <1>1, <1>2, Zenon DEF IngressTypeOK
<1> QED   BY <1>4, <1>5, <1>6, Zenon DEF IngressInv

\* Every step keeps the invariant and the answers that were given.
LEMMA IngressInductive ==
  ASSUME IngressInv, [IngressNext]_ingressVars
  PROVE  IngressInv' /\ AnswersStay
<1>0. /\ IngressTypeOK /\ SinglesInv /\ BulksInv /\ tasks \subseteq Task /\ Cardinality(tasks) <= MaxTasks
      /\ errors \in 0..MaxErrors /\ panics \in 0..MaxPanics
      /\ store \in [Coll -> [DocId -> 0..MaxTs]]
  BY Zenon DEF IngressInv, IngressTypeOK
<1>1. ASSUME NEW j \in Single, Submit(j)   PROVE IngressInv' /\ AnswersStay
  <2>1. tasks' = tasks /\ bulk' = bulk /\ store' = store /\ errors' = errors /\ panics' = panics
    BY <1>1, Zenon DEF Submit
  <2>2. /\ SinglesInv' /\ AnswersStay
        /\ job' \in [Single -> UpsertJob] /\ queue' \in Seq(Single) /\ Len(queue') <= Capacity
    BY <1>0, <1>1, SubmitKeeps, Zenon
  <2>3. Grows   BY <1>0, <2>1, NothingWritten, Zenon
  <2>4. BulksInv' /\ bulk' \in [Bulk -> BulkJob]   BY <1>0, <2>1, <2>3, BulksStay, Zenon
  <2>5. IngressTypeOK'   BY <1>0, <2>1, <2>2, <2>4, Zenon DEF IngressTypeOK
  <2> QED   BY <2>2, <2>4, <2>5, Zenon DEF IngressInv
<1>2. CASE TakeBatch
  <2>1. bulk' = bulk /\ store' = store /\ errors' = errors /\ panics' = panics
    BY <1>2, Zenon DEF TakeBatch
  <2>2. /\ SinglesInv' /\ AnswersStay
        /\ job' \in [Single -> UpsertJob] /\ queue' \in Seq(Single) /\ Len(queue') <= Capacity
        /\ tasks' \subseteq Task /\ Cardinality(tasks') <= MaxTasks
    BY <1>0, <1>2, TakeBatchKeeps, Zenon
  <2>3. Grows   BY <1>0, <2>1, NothingWritten, Zenon
  <2>4. BulksInv' /\ bulk' \in [Bulk -> BulkJob]   BY <1>0, <2>1, <2>3, BulksStay, Zenon
  <2>5. IngressTypeOK'   BY <1>0, <2>1, <2>2, <2>4, Zenon DEF IngressTypeOK
  <2> QED   BY <2>2, <2>4, <2>5, Zenon DEF IngressInv
<1>3. CASE TaskStep   BY <1>3, TaskStepKeeps, Zenon DEF TaskStep
<1>4. CASE TaskFault   BY <1>4, TaskStepKeeps, Zenon DEF TaskFault
<1>5. ASSUME NEW b \in Bulk, StartBulk(b) \/ BulkStep(b) \/ BulkFault(b)   PROVE IngressInv' /\ AnswersStay
  BY <1>5, BulkStepKeeps, Zenon
<1>6. CASE UNCHANGED ingressVars   BY <1>6, IngressStutters, Zenon
<1>7. CASE IngressRest   BY <1>6, <1>7, Zenon DEF IngressRest
<1> QED   BY <1>1, <1>2, <1>3, <1>4, <1>5, <1>6, <1>7, Zenon DEF IngressNext

\* Before the first job there is nothing to answer for.
LEMMA IngressStarts == IngressInit => IngressInv
<1> SUFFICES ASSUME IngressInit   PROVE IngressInv   BY Zenon
<1>1. /\ job = [j \in Single |-> NoJob] /\ queue = <<>> /\ tasks = {}
      /\ bulk = [b \in Bulk |-> NoBulk]
      /\ store = [c \in Coll |-> [d \in DocId |-> 0]]
      /\ errors = 0 /\ panics = 0
  BY Zenon DEF IngressInit
<1>2. NoJob \in UpsertJob /\ NoJob.at = "new"
  <2>1. Ts # {}   BY IngressAssumption DEF Ts
  <2>2. PICK c \in Coll, d \in DocId, n \in Ts : TRUE   BY <2>1, IngressAssumption, Zenon
  <2>3. [coll |-> c, doc |-> d, ts |-> n] \in Version   BY Zenon DEF Version
  <2>4. PICK v \in Version : v = CHOOSE w \in Version : TRUE   BY <2>3, Zenon
  <2>5. NoJob = [at |-> "new", v |-> v]   BY <2>4, Zenon DEF NoJob
  <2> QED   BY <2>5 DEF UpsertJob
<1>3. NoBulk \in BulkJob /\ NoBulk.at = "new" /\ \A i \in 1..NumChunks : NoBulk.chunk[i] = "run"
  <2>1. <<>> \in Seq(Version)   OBVIOUS
  <2>2. PICK f : f = [i \in 1..NumChunks |-> "run"]   BY Zenon
  <2>3. f \in [1..NumChunks -> {"run", "ok", "err", "panic"}] /\ \A i \in 1..NumChunks : f[i] = "run"
    BY <2>2, Zenon
  <2>4. NoBulk = [at |-> "new", vs |-> <<>>, chunk |-> f]   BY <2>2, Zenon DEF NoBulk
  <2> QED   BY <2>1, <2>3, <2>4 DEF BulkJob
<1>4. IngressTypeOK
  <2>1. job \in [Single -> UpsertJob] /\ bulk \in [Bulk -> BulkJob] /\ tasks \subseteq Task
    BY <1>1, <1>2, <1>3, Zenon
  <2>2. queue \in Seq(Single) /\ Len(queue) <= Capacity   BY <1>1, IngressAssumption
  <2>3. IsFiniteSet(tasks) /\ Cardinality(tasks) = 0   BY <1>1, FS_EmptySet, Zenon
  <2>4. 0 \in 0..MaxTs /\ 0 \in 0..MaxErrors /\ 0 \in 0..MaxPanics /\ 0 <= MaxTasks   BY IngressAssumption
  <2>5. store \in [Coll -> [DocId -> 0..MaxTs]]   BY <1>1, <2>4, Zenon
  <2> QED   BY <1>1, <2>1, <2>2, <2>3, <2>4, <2>5, Zenon DEF IngressTypeOK
<1>5. SinglesInv
  <2>1. IsFiniteSet(tasks)   BY <1>1, FS_EmptySet, Zenon
  <2>2. IsInjective(queue) /\ Range(queue) = {}   BY <1>1 DEF IsInjective, Range
  <2>3. \A j \in Single : AnswerOK(j)   BY <1>1, <1>2, Zenon DEF AnswerOK
  <2> QED   BY <1>1, <2>1, <2>2, <2>3, Zenon DEF SinglesInv
<1>6. BulksInv
  <2>1. \A b \in Bulk : bulk[b] = NoBulk   BY <1>1, Zenon
  <2>2. BulkShape(NoBulk) /\ ChunksStored(NoBulk)   BY <1>3, Zenon DEF BulkShape, ChunksStored
  <2> QED   BY <2>1, <2>2, Zenon DEF BulksInv
<1> QED   BY <1>4, <1>5, <1>6, Zenon DEF IngressInv

\* The invariant gives the answers their meaning; every document of a bulk job is
\* in one of its chunks.
LEMMA IngressInvHolds == IngressInv => AnswersHonest
<1> SUFFICES ASSUME IngressInv   PROVE AnswersHonest   BY Zenon
<1>1. IngressTypeOK /\ SinglesInv /\ BulksInv   BY Zenon DEF IngressInv
<1>2. \A j \in Single : AnswerOK(j)   BY <1>1, Zenon DEF SinglesInv
<1>3. OkIsStored   BY <1>2, Zenon DEF OkIsStored, AnswerOK, Stored
<1>4. StaleIsStale   BY <1>2, Zenon DEF StaleIsStale, AnswerOK, StaleOK, Stored
<1>5. BulkOkIsComplete
  <2> SUFFICES ASSUME NEW b \in Bulk, bulk[b].at = "ok", NEW k \in DOMAIN bulk[b].vs,
                      bulk[b].chunk[(k - 1) \div ChunkSize + 1] # "panic"
               PROVE  Stored(bulk[b].vs[k])
    BY Zenon DEF BulkOkIsComplete, Stored
  <2>1. PICK x \in BulkJob : x = bulk[b]   BY <1>1, Zenon DEF IngressTypeOK
  <2>2. BulkShape(x) /\ ChunksStored(x)   BY <1>1, <2>1, Zenon DEF BulksInv
  <2>3. DOMAIN x.vs = 1..BulkLen /\ k \in 1..BulkLen
    <3>1. DOMAIN x.vs = 1..BulkLen   BY <2>1, <2>2, Zenon DEF BulkShape
    <3> QED   BY <2>1, <3>1, Zenon
  <2>4. PICK i : i = (k - 1) \div ChunkSize + 1   BY Zenon
  <2>5. i \in 1..NumChunks /\ (i - 1) * ChunkSize + 1 <= k /\ k <= i * ChunkSize
    BY <2>3, <2>4, ChunkOf, IngressAssumption, Zenon DEF NumChunks
  <2>6. x.chunk[i] = "ok"   BY <2>1, <2>2, <2>4, <2>5, Zenon DEF BulkShape
  <2>7. x.vs \in Seq(Version) /\ i \in Nat \ {0}   BY <2>5, ChunkIndex, Zenon DEF BulkJob
  <2>8. k \in 1..Len(x.vs)   BY <2>3, <2>7, IngressAssumption
  <2>9. x.vs[k] \in Range(Chunk(x.vs, i))   BY <2>5, <2>7, <2>8, ChunkFacts, Zenon
  <2> QED   BY <2>1, <2>2, <2>5, <2>6, <2>9, Zenon DEF ChunksStored
<1> QED   BY <1>1, <1>3, <1>4, <1>5, Zenon DEF AnswersHonest

\* What the workers tell the callers of an upsert is true whatever the other
\* callers, the order of the tasks and their failures: success means stored, and
\* stale means that something at least as new is, or was about to be.
THEOREM UpsertAnswersAreHonest == IngressSpec => []AnswersHonest
<1>1. IngressInit => IngressInv   BY IngressStarts
<1>2. IngressInv /\ [IngressNext]_ingressVars => IngressInv'   BY IngressInductive
<1>3. IngressInv => AnswersHonest   BY IngressInvHolds
<1> QED   BY <1>1, <1>2, <1>3, PTL DEF IngressSpec

\* A caller is answered once: no step of any task or job touches a job that has
\* its answer.
THEOREM UpsertAnswersAreFinal == IngressSpec => [][AnswersStay]_ingressVars
<1>1. IngressInit => IngressInv   BY IngressStarts
<1>2. IngressInv /\ [IngressNext]_ingressVars => IngressInv'   BY IngressInductive
<1>3. IngressInv /\ [IngressNext]_ingressVars => [AnswersStay]_ingressVars   BY IngressInductive
<1> QED   BY <1>1, <1>2, <1>3, PTL DEF IngressSpec
=============================================================================
