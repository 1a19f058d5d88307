---------------------------- MODULE SharedProofs ----------------------------
(***************************************************************************)
(* Proofs about what the tasks of one process share: the locks by name     *)
(* implement one lock per name, the RPC layer loses no call and no row,    *)
(* the GPU limiter neither loses nor invents a slot and misses no wake-up, *)
(* and when the process stops nothing that was accepted is left behind, no *)
(* sender outlives its receiver and the poller finishes its batch.  For    *)
(* any number of names, tasks, calls, rows, threads, jobs and deltas.      *)
(***************************************************************************)
EXTENDS NamedLocks, BunnyTalk, GpuLimiter, Shutdown, FiniteSetTheorems, TLAPS

-----------------------------------------------------------------------------
(* Lines. *)

\* A line: nobody stands in it twice.
IsLine(s, S) == s \in Seq(S) /\ IsInjective(s)

\* A function on 1..k is a sequence of k elements.
LEMMA IsSequence ==
  ASSUME NEW S, NEW k \in Nat, NEW f \in [1..k -> S]
  PROVE  f \in Seq(S) /\ Len(f) = k
OBVIOUS

\* Without leaves out one place and moves up those behind it.
LEMMA WithoutAt ==
  ASSUME NEW S, NEW s \in Seq(S), NEW e \in Range(s)
  PROVE  \E n \in 1..Len(s) :
           /\ s[n] = e
           /\ Without(s, e) \in Seq(S)
           /\ Len(Without(s, e)) = Len(s) - 1
           /\ \A m \in 1..Len(s) - 1 : Without(s, e)[m] = IF m < n THEN s[m] ELSE s[m + 1]
<1> DEFINE n == CHOOSE n \in DOMAIN s : s[n] = e
<1>1. n \in 1..Len(s) /\ s[n] = e
  BY DEF Range
<1>2. Without(s, e) = [m \in 1..Len(s) - 1 |-> IF m < n THEN s[m] ELSE s[m + 1]]
  BY Zenon DEF Without
<1> HIDE DEF n
<1>3. \A m \in 1..Len(s) - 1 : (IF m < n THEN s[m] ELSE s[m + 1]) \in S
  BY <1>1
<1>4. Without(s, e) \in [1..Len(s) - 1 -> S] /\ Len(s) - 1 \in Nat
  BY <1>1, <1>2, <1>3
<1>5. Without(s, e) \in Seq(S) /\ Len(Without(s, e)) = Len(s) - 1
  BY <1>4, IsSequence, Zenon
<1> QED BY <1>1, <1>2, <1>5, Zenon

\* Who leaves a line leaves the others in their order (VecDeque::remove of the
\* LRU list, a waiter of a tokio Mutex that is dropped): nobody is twice in the line
\* afterwards, nobody else is gone, and the head stays unless it left.
LEMMA WithoutLine ==
  ASSUME NEW S, NEW s, IsLine(s, S), NEW e
  PROVE  /\ IsLine(Without(s, e), S)
         /\ Range(Without(s, e)) = Range(s) \ {e}
         /\ Len(Without(s, e)) = IF e \in Range(s) THEN Len(s) - 1 ELSE Len(s)
         /\ s # << >> /\ s[1] # e => Without(s, e) # << >> /\ Without(s, e)[1] = s[1]
<1> USE DEF IsLine
<1>1. CASE e \notin Range(s)
  BY <1>1, Zenon DEF Without
<1>2. CASE e \in Range(s)
  <2> DEFINE w == Without(s, e)
  <2>1. PICK n \in 1..Len(s) :
           /\ s[n] = e
           /\ w \in Seq(S)
           /\ Len(w) = Len(s) - 1
           /\ \A m \in 1..Len(s) - 1 : w[m] = IF m < n THEN s[m] ELSE s[m + 1]
    BY <1>2, WithoutAt, ZenonT(30)
  <2> HIDE DEF w
  <2>2. IsInjective(w)
    <3>1. ASSUME NEW i \in 1..Len(s) - 1, NEW j \in 1..Len(s) - 1, w[i] = w[j] PROVE i = j
      <4>1. \A a, b \in 1..Len(s) : s[a] = s[b] => a = b   BY DEF IsInjective
      <4> QED   BY <2>1, <3>1, <4>1
    <3> QED   BY <2>1, <3>1 DEF IsInjective
  <2>3. ASSUME NEW m \in 1..Len(s) - 1
        PROVE  w[m] \in Range(s) /\ w[m] # e
    <3>1. \A a, b \in 1..Len(s) : s[a] = s[b] => a = b   BY DEF IsInjective
    <3>2. \/ m < n /\ w[m] = s[m] /\ m \in 1..Len(s)
          \/ m >= n /\ w[m] = s[m + 1] /\ m + 1 \in 1..Len(s)
      BY <2>1
    <3>3. w[m] # e   BY <2>1, <3>1, <3>2
    <3>4. DOMAIN s = 1..Len(s)   OBVIOUS
    <3>5. w[m] \in Range(s)   BY <3>2, <3>4, Zenon DEF Range
    <3> QED   BY <3>3, <3>5, Zenon
  <2>4. ASSUME NEW m \in 1..Len(s), s[m] # e
        PROVE  s[m] \in Range(w)
    <3>1. CASE m < n   BY <2>1, <3>1 DEF Range
    <3>2. CASE m > n
      <4>1. m - 1 \in 1..Len(s) - 1 /\ ~(m - 1 < n)   BY <3>2
      <4>2. w[m - 1] = s[m]   BY <2>1, <4>1
      <4> QED BY <2>1, <4>1, <4>2 DEF Range
    <3> QED   BY <2>1, <2>4, <3>1, <3>2
  <2>5. Range(w) = Range(s) \ {e}
    <3>1. DOMAIN w = 1..Len(s) - 1 /\ DOMAIN s = 1..Len(s)   BY <2>1
    <3> QED   BY <2>3, <2>4, <3>1, Zenon DEF Range
  <2>6. s # << >> /\ s[1] # e => w # << >> /\ w[1] = s[1]
    <3> SUFFICES ASSUME s # << >>, s[1] # e PROVE w # << >> /\ w[1] = s[1]   BY Zenon
    <3>1. n > 1 /\ 1 \in 1..Len(s) - 1   BY <2>1
    <3> QED   BY <2>1, <3>1
  <2> QED BY <1>2, <2>1, <2>2, <2>5, <2>6, Zenon DEF w
<1> QED BY <1>1, <1>2, Zenon
\* Who joins a line stands in it once and behind the others (push_back, the
\* queue of Mutex::lock).
LEMMA AppendLine ==
  ASSUME NEW S, NEW s, IsLine(s, S), NEW e \in S, e \notin Range(s)
  PROVE  /\ IsLine(Append(s, e), S)
         /\ Range(Append(s, e)) = Range(s) \cup {e}
         /\ Append(s, e) # << >>
         /\ Append(s, e)[1] = IF s = << >> THEN e ELSE s[1]
<1> DEFINE w == Append(s, e)
<1>1. /\ s \in Seq(S) /\ w \in Seq(S) /\ Len(w) = Len(s) + 1 /\ w[Len(s) + 1] = e
      /\ \A n \in 1..Len(s) : w[n] = s[n]
  BY DEF IsLine
<1>2. DOMAIN s = 1..Len(s) /\ DOMAIN w = 1..Len(s) + 1
  BY <1>1
<1>3. \A n \in 1..Len(s) : s[n] # e
  BY <1>2, Zenon DEF Range
<1> HIDE DEF w
<1>4. IsInjective(w)
  BY <1>1, <1>2, <1>3 DEF IsInjective, IsLine
<1>5. Range(w) = Range(s) \cup {e}
  <2>1. \A x \in Range(s) : x \in Range(w)
    BY <1>1, <1>2 DEF Range
  <2>2. e \in Range(w)
    BY <1>1, <1>2 DEF Range
  <2>3. \A n \in 1..Len(s) + 1 : w[n] = e \/ (n \in 1..Len(s) /\ w[n] = s[n])
    BY <1>1
  <2>4. \A x \in Range(w) : x = e \/ x \in Range(s)
    BY <2>3, <1>2, Zenon DEF Range
  <2> QED   BY <2>1, <2>2, <2>4, Zenon
<1>6. w # << >> /\ w[1] = IF s = << >> THEN e ELSE s[1]
  BY <1>1
<1> QED   BY <1>1, <1>4, <1>5, <1>6, Zenon DEF IsLine, w


-----------------------------------------------------------------------------
(* NamedLocks. *)

\* The inductive invariant.
RegInv == LocksTypeOK /\ Registered

\* Every step keeps the references in agreement with the map (the Arc counts
\* that start_cleanup_task_with_interval looks at).
LEMMA RegStep == RegInv /\ [LocksNext]_lockVars => RegInv'
<1> SUFFICES ASSUME RegInv, [LocksNext]_lockVars PROVE RegInv'   BY Zenon
<1> USE NamedLocksAssumption DEF RegInv
<1>1. ASSUME NEW p \in Proc, NEW k \in Key, Lookup(p, k) PROVE RegInv'
  <2>1. PICK i \in Inst :
          /\ IF map[k] = None THEN UnusedMutex(i) ELSE map[k] = i
          /\ map' = [map EXCEPT ![k] = i]
          /\ arc' = [arc EXCEPT ![p] = i]
          /\ key' = [key EXCEPT ![p] = k]
    BY <1>1, Zenon DEF Lookup
  <2>2. LocksTypeOK'
    BY <1>1, <2>1, Zenon DEF LocksTypeOK, Lookup
  <2>3. ASSUME NEW q \in Proc, arc'[q] # None
        PROVE  key'[q] # None /\ map'[key'[q]] = arc'[q]
    <3>1. CASE q = p   BY <2>1, <3>1, Zenon DEF LocksTypeOK
    <3>2. CASE q # p
      <4>1. arc'[q] = arc[q] /\ key'[q] = key[q]   BY <2>1, <3>2, Zenon DEF LocksTypeOK
      <4>2. key[q] \in Key /\ map[key[q]] = arc[q] /\ arc[q] # None
        BY <2>3, <4>1, Zenon DEF LocksTypeOK, Registered
      <4>3. CASE key[q] = k   BY <2>1, <4>1, <4>2, <4>3, Zenon DEF LocksTypeOK
      <4>4. CASE key[q] # k   BY <2>1, <4>1, <4>2, <4>4, Zenon DEF LocksTypeOK
      <4> QED   BY <4>3, <4>4, Zenon
    <3> QED   BY <3>1, <3>2, Zenon
  <2>4. ASSUME NEW l \in Key, NEW m \in Key, map'[l] # None, map'[l] = map'[m]
        PROVE  l = m
    BY <2>1, <2>4 DEF LocksTypeOK, Registered, UnusedMutex
  <2> QED
    BY <2>2, <2>3, <2>4, Zenon DEF Registered
<1>2. ASSUME NEW p \in Proc, LockOwned(p) PROVE RegInv'
  BY <1>2, Zenon DEF LockOwned, LocksTypeOK, Registered
<1>3. ASSUME NEW p \in Proc, Leave(p) PROVE RegInv'
  BY <1>3, Zenon DEF Leave, LocksTypeOK, Registered
<1>4. CASE Sweep
  BY <1>4, Zenon DEF Sweep, LocksTypeOK, Registered, Referrers
<1>5. CASE UNCHANGED lockVars
  BY <1>5, Zenon DEF lockVars, LocksTypeOK, Registered
<1> QED
  BY <1>1, <1>2, <1>3, <1>4, <1>5, Zenon DEF LocksNext, DropGuard, Cancel

\* Whatever is swept and whenever: a mutex that a task refers to is the one
\* registered under the task's name, and under no other.
THEOREM MutexesStayRegistered == LocksSpec => []Registered
<1>1. LocksInit => RegInv
  BY NamedLocksAssumption, Zenon DEF LocksInit, RegInv, LocksTypeOK, Registered
<1> QED
  BY <1>1, RegStep, PTL DEF LocksSpec, RegInv

\* Two tasks never hold the lock of one name at the same time.
THEOREM LocksExclude == LocksSpec => []MutualExclusion
<1>1. Registered => MutualExclusion
  BY DEF Registered, MutualExclusion, Holds
<1> QED
  BY <1>1, MutexesStayRegistered, PTL

-----------------------------------------------------------------------------
\* What the lines of the mutexes hold.
LinesInv ==
  /\ \A i \in Inst : IsLine(line[i], Proc)
  /\ line \in [Inst -> Seq(Proc)]
  /\ \A i \in Inst, p \in Proc : p \in Range(line[i]) => arc[p] = i
  /\ \A p \in Proc : key[p] # None => arc[p] # None

\* lock_owned, dropping a guard and cancelling keep the lines in agreement with
\* the references; the sweep touches neither.
LEMMA LinesStep == RegInv /\ LinesInv /\ [LocksNext]_lockVars => LinesInv'
<1> SUFFICES ASSUME RegInv, LinesInv, [LocksNext]_lockVars PROVE LinesInv'   BY Zenon
<1> USE NamedLocksAssumption DEF RegInv
<1>1. ASSUME NEW p \in Proc, NEW k \in Key, Lookup(p, k) PROVE LinesInv'
  BY <1>1 DEF Lookup, LinesInv, LocksTypeOK
<1>2. ASSUME NEW p \in Proc, LockOwned(p) PROVE LinesInv'
  <2>1. arc[p] \in Inst /\ p \notin Range(line[arc[p]])   BY <1>2, Zenon DEF LockOwned, InLine, LocksTypeOK
  <2>2. /\ IsLine(Append(line[arc[p]], p), Proc)
        /\ Range(Append(line[arc[p]], p)) = Range(line[arc[p]]) \cup {p}
    <3>1. IsLine(line[arc[p]], Proc)   BY <2>1, Zenon DEF LinesInv
    <3> QED   BY <2>1, <3>1, AppendLine
  <2> QED   BY <1>2, <2>1, <2>2, Zenon DEF LockOwned, LinesInv, IsLine
<1>3. ASSUME NEW p \in Proc, Leave(p) PROVE LinesInv'
  <2>1. arc[p] \in Inst   BY <1>3, Zenon DEF Leave, LocksTypeOK
  <2>2. /\ IsLine(Without(line[arc[p]], p), Proc)
        /\ Range(Without(line[arc[p]], p)) = Range(line[arc[p]]) \ {p}
    <3>1. IsLine(line[arc[p]], Proc)   BY <2>1, Zenon DEF LinesInv
    <3> QED   BY <3>1, WithoutLine
  <2> QED   BY <1>3, <2>1, <2>2, Zenon DEF Leave, LinesInv, IsLine, LocksTypeOK
<1>4. CASE Sweep \/ UNCHANGED lockVars
  BY <1>4, Zenon DEF Sweep, lockVars, LinesInv
<1> QED   BY <1>1, <1>2, <1>3, <1>4, Zenon DEF LocksNext, DropGuard, Cancel

-----------------------------------------------------------------------------
\* get_lock followed by the place in the queue is a request of the abstract lock;
\* the mutex of a name nobody refers to is new, so its queue is empty.
LEMMA LookupAsks ==
  ASSUME RegInv, LinesInv, NEW p \in Proc, NEW k \in Key, Lookup(p, k)
  PROVE  Lock!Ask(k, p)
<1>1. PICK i \in Inst :
        /\ arc' = [arc EXCEPT ![p] = i] /\ key' = [key EXCEPT ![p] = k] /\ line' = line
        /\ arc[p] = None
  BY Zenon DEF Lookup
<1>2. key[p] = None /\ None \notin Key
  BY <1>1, NamedLocksAssumption, Zenon DEF LinesInv
<1>3. \A q \in Proc : arc'[q] = (IF q = p THEN i ELSE arc[q]) /\ key'[q] = IF q = p THEN k ELSE key[q]
  BY <1>1, Zenon DEF RegInv, LocksTypeOK
<1>4. \A j \in Inst : p \notin Range(line[j])
  BY <1>1, NamedLocksAssumption, Zenon DEF LinesInv
<1>5. \A q \in Proc : q # p => (Holds(q)' <=> Holds(q))
  BY <1>1, <1>3, Zenon DEF Holds
<1>6. ~Holds(p)' /\ ~Holds(p)
  <2>1. ~Holds(p)   BY <1>1, Zenon DEF Holds
  <2>2. line[i] # << >> => Head(line[i]) \in Range(line[i])
    BY DEF LinesInv, Range
  <2> QED   BY <1>1, <1>3, <1>4, <2>1, <2>2 DEF Holds
<1>7. Asked' = [Asked EXCEPT ![k] = @ \cup {p}]
  BY <1>2, <1>3, <1>5, <1>6, Zenon DEF Asked
<1>8. Inside' = Inside /\ p \notin Asked[k] \cup Inside[k]
  BY <1>2, <1>3, <1>5, <1>6, Zenon DEF Asked, Inside
<1> QED   BY <1>7, <1>8, Zenon DEF Lock!Ask

\* A mutex that nobody has is taken, and otherwise the newcomer waits.
LEMMA LockOwnedEnters ==
  ASSUME RegInv, LinesInv, NEW p \in Proc, LockOwned(p)
  PROVE  \/ Inside[key[p]] = {} /\ Lock!Enter(key[p], p) /\ key[p] \in Key
         \/ UNCHANGED <<Asked, Inside>>
<1> DEFINE i == arc[p]   k == key[p]   s == line[i]   w == Append(s, p)
<1>1. /\ i \in Inst /\ k \in Key /\ map[k] = i /\ i # None /\ p \notin Range(s) /\ IsLine(s, Proc)
      /\ line' = [line EXCEPT ![i] = w] /\ UNCHANGED <<map, key, arc>>
  BY NamedLocksAssumption, Zenon DEF LockOwned, InLine, RegInv, LocksTypeOK, Registered, LinesInv
<1>2. w # << >> /\ w[1] = IF s = << >> THEN p ELSE s[1]
  BY <1>1, AppendLine
<1>3. line'[i] = w /\ \A j \in Inst : j # i => line'[j] = line[j]
  BY <1>1, Zenon DEF LinesInv
<1> HIDE DEF w
<1>4. Head(w) = IF s = << >> THEN p ELSE Head(s)
  <2>1. Head(w) = w[1] /\ Head(s) = s[1]   BY DEF Head
  <2> QED   BY <1>2, <2>1, Zenon
<1>5. CASE s = << >>
  <2>1. \A q \in Proc : q # p => (Holds(q)' <=> Holds(q))
    BY <1>1, <1>2, <1>3, <1>4, <1>5, NamedLocksAssumption DEF Holds, RegInv, LocksTypeOK
  <2>2. Holds(p)' /\ ~Holds(p)
    BY <1>1, <1>2, <1>3, <1>4, <1>5, Zenon DEF Holds
  <2>3. ASSUME NEW q \in Proc, key[q] = k PROVE ~Holds(q)
    BY <1>1, <1>5, <2>3, Zenon DEF Holds, RegInv, Registered
  <2>4. Inside[k] = {}   BY <1>1, <2>3, Zenon DEF Inside
  <2>5. p \in Asked[k]   BY <1>1, <2>2, Zenon DEF Asked
  <2>6. Asked' = [Asked EXCEPT ![k] = @ \ {p}]
    BY <1>1, <2>1, <2>2, Zenon DEF Asked
  <2>7. Inside' = [Inside EXCEPT ![k] = {p}]
    BY <1>1, <2>1, <2>2, <2>3, Zenon DEF Inside
  <2> QED   BY <1>1, <2>4, <2>5, <2>6, <2>7, Zenon DEF Lock!Enter
<1>6. CASE s # << >>
  <2>1. \A q \in Proc : Holds(q)' <=> Holds(q)
    BY <1>1, <1>2, <1>3, <1>4, <1>6, NamedLocksAssumption DEF Holds, RegInv, LocksTypeOK
  <2>2. Asked' = Asked /\ Inside' = Inside
    BY <1>1, <2>1, Zenon DEF Asked, Inside
  <2> QED   BY <2>2, Zenon
<1> QED   BY <1>5, <1>6, Zenon

\* Whoever leaves hands the lock to the next in line, if it had it.
LEMMA LeaveGoes ==
  ASSUME RegInv, LinesInv, NEW p \in Proc, Leave(p)
  PROVE  \/ Lock!Go({p})
         \/ \E u \in Proc : key[p] \in Key /\ Inside[key[p]] = {p} /\ Lock!Enter(key[p], u)
<1> DEFINE i == arc[p]   k == key[p]   s == line[i]   w == Without(s, p)
<1>1. /\ i \in Inst /\ k \in Key /\ map[k] = i /\ i # None /\ IsLine(s, Proc)
      /\ line' = [line EXCEPT ![i] = w] /\ map' = map
      /\ arc' = [arc EXCEPT ![p] = None] /\ key' = [key EXCEPT ![p] = None]
  BY NamedLocksAssumption, Zenon DEF Leave, RegInv, LocksTypeOK, Registered, LinesInv
<1>2. /\ IsLine(w, Proc) /\ Range(w) = Range(s) \ {p}
      /\ s # << >> /\ s[1] # p => w # << >> /\ w[1] = s[1]
  BY <1>1, WithoutLine
<1>3. line'[i] = w /\ \A j \in Inst : j # i => line'[j] = line[j]
  BY <1>1, Zenon DEF LinesInv
<1>4. \A q \in Proc : /\ arc'[q] = IF q = p THEN None ELSE arc[q]
                      /\ key'[q] = IF q = p THEN None ELSE key[q]
  BY <1>1, Zenon DEF RegInv, LocksTypeOK
<1>5. ~Holds(p)'   BY <1>4, Zenon DEF Holds
<1>6. \A q \in Proc : q # p /\ arc[q] # i => (Holds(q)' <=> Holds(q))
  BY <1>3, <1>4, NamedLocksAssumption DEF Holds, RegInv, LocksTypeOK
<1>7. s = << >> => w = << >>   BY DEF Without, Range
<1> HIDE DEF w
<1>8. (s # << >> => s[1] = Head(s)) /\ (w # << >> => w[1] = Head(w) /\ w[1] \in Range(w))
  BY <1>1, <1>2 DEF IsLine, Range
<1>9. ASSUME \A q \in Proc : q # p => (Holds(q)' <=> Holds(q))
      PROVE  Lock!Go({p})
  <2>1. Asked' = [l \in Key |-> Asked[l] \ {p}]
    BY <1>4, <1>5, <1>9, NamedLocksAssumption, Zenon DEF Asked
  <2>2. Inside' = [l \in Key |-> Inside[l] \ {p}]
    BY <1>4, <1>5, <1>9, NamedLocksAssumption, Zenon DEF Inside
  <2> QED   BY <2>1, <2>2, Zenon DEF Lock!Go
<1>10. CASE ~Holds(p)
  <2>1. s # << >> => s[1] # p   BY <1>1, <1>8, <1>10, Zenon DEF Holds
  <2>2. w = << >> <=> s = << >>
    BY <1>2, <1>7, <2>1, Zenon
  <2>3. ASSUME NEW q \in Proc, q # p, arc[q] = i PROVE Holds(q)' <=> Holds(q)
    BY <1>1, <1>2, <1>3, <1>4, <1>8, <2>1, <2>2, <2>3 DEF Holds
  <2> QED   BY <1>6, <1>9, <2>3, Zenon
<1>11. CASE Holds(p) /\ w = << >>
  <2>1. ASSUME NEW q \in Proc, q # p, arc[q] = i PROVE Holds(q)' <=> Holds(q)
    BY <1>3, <1>4, <1>11, <2>1, Zenon DEF Holds
  <2> QED   BY <1>6, <1>9, <2>1, Zenon
<1>12. CASE Holds(p) /\ w # << >>
  <2> DEFINE u == w[1]
  <2>1. u \in Range(s) /\ u # p /\ u \in Proc /\ u = Head(w)
    BY <1>2, <1>8, <1>12 DEF IsLine
  <2>2. arc[u] = i   BY <1>1, <2>1, Zenon DEF LinesInv
  <2>3. key[u] = k
    <3>1. key[u] \in Key /\ map[key[u]] = i
      BY <1>1, <2>1, <2>2, NamedLocksAssumption, Zenon DEF RegInv, Registered, LocksTypeOK
    <3> QED   BY <1>1, <3>1, NamedLocksAssumption, Zenon DEF RegInv, Registered
  <2>4. Head(s) = p   BY <1>12, Zenon DEF Holds
  <2> HIDE DEF u
  <2>5. ASSUME NEW q \in Proc, key[q] = k PROVE (Holds(q) <=> q = p) /\ (Holds(q)' <=> q = u)
    <3>1. arc[q] = i   BY <1>1, <2>5, Zenon DEF RegInv, Registered, LinesInv, LocksTypeOK
    <3> QED   BY <1>1, <1>3, <1>4, <1>5, <1>12, <2>1, <2>4, <3>1 DEF Holds
  <2>6. ASSUME NEW q \in Proc, key[q] # k PROVE Holds(q)' <=> Holds(q)
    <3>1. arc[q] # i /\ q # p
      BY <1>1, <2>6, NamedLocksAssumption, Zenon DEF RegInv, Registered, LocksTypeOK
    <3> QED   BY <1>6, <3>1, Zenon
  <2>7. Inside[k] = {p} /\ u \in Asked[k]
    BY <1>1, <2>1, <2>3, <2>5, Zenon DEF Inside, Asked
  <2>8. Asked' = [Asked EXCEPT ![k] = @ \ {u}]
    <3>1. \A q \in Proc : /\ key'[q] = k /\ ~Holds(q)' <=> key[q] = k /\ ~Holds(q) /\ q # u
                          /\ \A l \in Key : l # k =>
                               (key'[q] = l /\ ~Holds(q)' <=> key[q] = l /\ ~Holds(q))
      BY <1>1, <1>4, <2>1, <2>5, <2>6, NamedLocksAssumption
    <3>2. ASSUME NEW l \in Key
          PROVE  {q \in Proc : key'[q] = l /\ ~Holds(q)'} =
                   IF l = k THEN {q \in Proc : key[q] = l /\ ~Holds(q)} \ {u}
                   ELSE {q \in Proc : key[q] = l /\ ~Holds(q)}
      BY <3>1, Zenon
    <3>3. \A l \in Key : Asked'[l] = IF l = k THEN Asked[k] \ {u} ELSE Asked[l]
      BY <3>2, Zenon DEF Asked
    <3>4. Asked' = [l \in Key |-> Asked'[l]] /\ Asked = [l \in Key |-> Asked[l]]   BY Zenon DEF Asked
    <3> QED   BY <1>1, <3>3, <3>4, Zenon
  <2>9. Inside' = [Inside EXCEPT ![k] = {u}]
    <3>1. \A q \in Proc : /\ key'[q] = k /\ Holds(q)' <=> q = u
                          /\ \A l \in Key : l # k =>
                               (key'[q] = l /\ Holds(q)' <=> key[q] = l /\ Holds(q))
      BY <1>1, <1>4, <2>1, <2>3, <2>5, <2>6, NamedLocksAssumption, Zenon
    <3>2. ASSUME NEW l \in Key
          PROVE  {q \in Proc : key'[q] = l /\ Holds(q)'} =
                   IF l = k THEN {u} ELSE {q \in Proc : key[q] = l /\ Holds(q)}
      BY <2>1, <3>1, Zenon
    <3> QED   BY <1>1, <3>2, Zenon DEF Inside
  <2> QED   BY <1>1, <2>1, <2>7, <2>8, <2>9, Zenon DEF Lock!Enter
<1> QED   BY <1>10, <1>11, <1>12, Zenon

\* Named locks that are created on demand and swept away every few minutes are
\* one lock per name that always exists: every step of the registry is a step of
\* DocLock or changes nothing in it.  For any number of names and tasks.
THEOREM LocksImplementLock == LocksSpec => ImplementsLock
<1>1. LocksInit => Lock!Init /\ RegInv /\ LinesInv
  <2> SUFFICES ASSUME LocksInit PROVE Lock!Init /\ RegInv /\ LinesInv   BY Zenon
  <2>1. RegInv   BY NamedLocksAssumption, Zenon DEF LocksInit, RegInv, LocksTypeOK, Registered
  <2>2. LinesInv   BY DEF LocksInit, LinesInv, IsLine, IsInjective, Range
  <2>3. \A p \in Proc, k \in Key : key[p] # k   BY NamedLocksAssumption, Zenon DEF LocksInit
  <2>4. Asked = [k \in Key |-> {}] /\ Inside = [k \in Key |-> {}]
    BY <2>3, Zenon DEF Asked, Inside
  <2> QED   BY <2>1, <2>2, <2>4, Zenon DEF Lock!Init
<1>2. RegInv /\ LinesInv /\ [LocksNext]_lockVars => [Lock!Next]_(Lock!vars)
  <2> SUFFICES ASSUME RegInv, LinesInv, [LocksNext]_lockVars PROVE [Lock!Next]_(Lock!vars)   BY Zenon
  <2>1. ASSUME NEW p \in Proc, NEW k \in Key, Lookup(p, k) PROVE Lock!Next
    BY <2>1, LookupAsks, Zenon DEF Lock!Next
  <2>2. ASSUME NEW p \in Proc, LockOwned(p) PROVE [Lock!Next]_(Lock!vars)
    BY <2>2, LockOwnedEnters, Zenon DEF Lock!Next, Lock!vars
  <2>3. ASSUME NEW p \in Proc, Leave(p) PROVE Lock!Next
    <3>1. CASE Lock!Go({p})   BY <3>1, Zenon DEF Lock!Next
    <3>2. ASSUME NEW u \in Proc, key[p] \in Key, Inside[key[p]] = {p}, Lock!Enter(key[p], u)
          PROVE  Lock!Next
      BY <3>2, Zenon DEF Lock!Next
    <3> QED   BY <2>3, <3>1, <3>2, LeaveGoes, Zenon
  <2>4. CASE Sweep \/ UNCHANGED lockVars
    <3>1. UNCHANGED <<key, arc, line>>   BY <2>4, Zenon DEF Sweep, lockVars
    <3> QED   BY <3>1, Zenon DEF Asked, Inside, Holds, Lock!vars
  <2> QED   BY <2>1, <2>2, <2>3, <2>4, Zenon DEF LocksNext, DropGuard, Cancel
<1> QED   BY <1>1, <1>2, RegStep, LinesStep, PTL DEF LocksSpec, ImplementsLock, Lock!Spec

-----------------------------------------------------------------------------
(* BunnyTalk. *)

\* What the table, the channel of a call and the reply consumer hold of it: an
\* entry, a reply on its way or a result, never two of them, and one of them as
\* long as the call is under way.
CallsKept ==
  \A c \in Call :
    /\ call[c] = "new" => c \notin pending /\ c \notin handler /\ result[c] = "none"
    /\ c \in handler => c \notin pending /\ result[c] = "none"
    /\ result[c] # "none" => c \notin pending
    /\ call[c] \in {"publish", "confirm", "wait"} =>
         c \in pending \/ c \in handler \/ result[c] # "none"

\* Once the table is emptied nothing is published: a call that gets into the
\* table later never waits.
DrainedLast ==
  drained => link = "closed" /\ \A c \in pending : call[c] \notin {"confirm", "wait"}

\* The inductive invariant.
TalkInv == TalkTypeOK /\ CallsKept /\ DrainedLast /\ TableIsClean /\ RowsAreAnnounced

\* Initially there are no calls and no rows.
LEMMA TalkInvInit == TalkInit => TalkInv
<1> SUFFICES ASSUME TalkInit PROVE TalkInv   BY Zenon
<1> USE DEF TalkInit
<1>1. TalkTypeOK
  <2>1. call \in [Call -> {"new", "publish", "confirm", "wait"} \cup Ended]   BY Zenon
  <2>2. result \in [Call -> {"none", "reply", "closed", "gone"}]   BY Zenon
  <2>3. post \in [Post -> {"new", "added", "undo", "ok", "failed", "dropped", "stuck"}]   BY Zenon
  <2>4. drops \in 0..MaxDrops   BY BunnyTalkAssumption
  <2> QED   BY <2>1, <2>2, <2>3, <2>4, Zenon DEF TalkTypeOK
<1>2. CallsKept   BY Zenon DEF CallsKept
<1>3. DrainedLast /\ TableIsClean /\ RowsAreAnnounced
  BY SMTT(30) DEF DrainedLast, TableIsClean, RowsAreAnnounced
<1> QED   BY <1>1, <1>2, <1>3, Zenon DEF TalkInv

\* Each step of rpc keeps the account of its call.
LEMMA RpcKeeps ==
  ASSUME TalkInv, NEW c \in Call, RpcStep(c)
  PROVE  TalkInv'
<1> USE DEF TalkInv, TalkTypeOK, CallsKept, DrainedLast, TableIsClean, RowsAreAnnounced,
            postVars, Ended, Becomes
<1>1. CASE Register(c)   BY <1>1 DEF Register
<1>2. CASE PublishFails(c)   BY <1>2, Zenon DEF PublishFails
<1>3. CASE PublishOk(c)   BY <1>3, Zenon DEF PublishOk
<1>4. CASE Confirmed(c)   BY <1>4, Zenon DEF Confirmed
<1>5. CASE RpcReturns(c)   BY <1>5 DEF RpcReturns
<1>6. CASE TimesOut(c)   BY <1>6, SMTT(30) DEF TimesOut
<1> QED   BY <1>1, <1>2, <1>3, <1>4, <1>5, <1>6, Zenon DEF RpcStep

\* So do the reply consumer, a caller that goes away, and close.
LEMMA ConsumerKeeps ==
  ASSUME TalkInv,
         \/ \E c \in Call : DropCall(c) \/ Answer(c) \/ TakeReply(c) \/ SendResult(c)
         \/ Close \/ CloseChannel \/ Drain
  PROVE  TalkInv'
<1> USE BunnyTalkAssumption
    DEF TalkInv, TalkTypeOK, CallsKept, DrainedLast, TableIsClean, RowsAreAnnounced,
        postVars, rpcVars, Ended, Becomes
<1>1. ASSUME NEW c \in Call, DropCall(c) PROVE TalkInv'   BY <1>1 DEF DropCall
<1>2. ASSUME NEW c \in Call, Answer(c) PROVE TalkInv'   BY <1>2, Zenon DEF Answer
<1>3. ASSUME NEW c \in Call, TakeReply(c) PROVE TalkInv'   BY <1>3, Zenon DEF TakeReply
<1>4. ASSUME NEW c \in Call, SendResult(c) PROVE TalkInv'   BY <1>4 DEF SendResult
<1>5. CASE Close   BY <1>5, Zenon DEF Close
<1>6. CASE CloseChannel   BY <1>6, Zenon DEF CloseChannel
<1>7. CASE Drain   BY <1>7, SMTT(30) DEF Drain
<1> QED   BY <1>1, <1>2, <1>3, <1>4, <1>5, <1>6, <1>7, Zenon

\* The steps of a queueing request, and the service that consumes its row.
LEMMA PostKeeps ==
  ASSUME TalkInv, NEW r \in Post, PostStep(r) \/ DropPost(r) \/ Consume(r)
  PROVE  TalkInv'
<1> USE BunnyTalkAssumption
    DEF TalkInv, TalkTypeOK, CallsKept, DrainedLast, TableIsClean, RowsAreAnnounced, rpcVars, Ended
<1>1. CASE AddToQueue(r)   BY <1>1 DEF AddToQueue
<1>2. CASE Talk(r)   BY <1>2, Zenon DEF Talk
<1>3. CASE TakeBack(r)   BY <1>3, Zenon DEF TakeBack
<1>4. CASE DropPost(r)   BY <1>4 DEF DropPost
<1>5. CASE Consume(r)   BY <1>5, Zenon DEF Consume
<1> QED   BY <1>1, <1>2, <1>3, <1>4, <1>5, Zenon DEF PostStep

\* For any number of calls and requests: rpc leaves no entry in its table but
\* for callers that are gone, close leaves nobody waiting, and a queue row that
\* nobody was told of has a request that is under way, dropped or stuck.
THEOREM MessagesAreAccounted == TalkSpec => []MessagesAccounted
<1>1. TalkInv /\ [TalkNext]_talkVars => TalkInv'
  <2> SUFFICES ASSUME TalkInv, [TalkNext]_talkVars PROVE TalkInv'   BY Zenon
  <2>1. CASE UNCHANGED talkVars
    BY <2>1, Zenon DEF talkVars, TalkInv, TalkTypeOK, CallsKept, DrainedLast, TableIsClean, RowsAreAnnounced
  <2> QED   BY <2>1, RpcKeeps, ConsumerKeeps, PostKeeps, Zenon DEF TalkNext, TalkRest
<1>2. TalkInv => MessagesAccounted
  BY Zenon DEF TalkInv, MessagesAccounted, CallsKept, DrainedLast, CloseWakesEverybody
<1> QED   BY TalkInvInit, <1>1, <1>2, PTL DEF TalkSpec
-----------------------------------------------------------------------------
(* GpuLimiter. *)

\* The three properties support each other: that the cap in release swallows no
\* slot needs the count of the slots in use.
GpuInv == GpuTypeOK /\ SlotsConserved /\ NoSleepBesideFreeSlot

\* The threads in one place of acquire and release are a finite set.
LEMMA InFinite ==
  ASSUME NEW s
  PROVE  IsFiniteSet(In(s)) /\ Cardinality(In(s)) \in Nat
<1>1. In(s) \subseteq Thread   BY Zenon DEF In
<1>2. IsFiniteSet(In(s))   BY <1>1, GpuLimiterAssumption, FS_Subset, Zenon
<1> QED   BY <1>2, FS_CardinalityType, Zenon

\* The places of a thread.
Place == {"outside", "acquire", "asleep", "forward"}

\* A thread that goes from one place to another leaves one set and joins the
\* other; all other places are as before.
LEMMA Changes ==
  ASSUME GpuTypeOK, NEW t \in Thread, NEW a \in Place, NEW b \in Place,
         place[t] = a, a # b, place' = [place EXCEPT ![t] = b]
  PROVE  /\ In(a)' = In(a) \ {t} /\ t \in In(a)
         /\ In(b)' = In(b) \cup {t} /\ t \notin In(b)
         /\ \A c \in Place \ {a, b} : In(c)' = In(c)
         /\ Cardinality(In(a)') = Cardinality(In(a)) - 1
         /\ Cardinality(In(b)') = Cardinality(In(b)) + 1
<1>1. /\ In(a)' = In(a) \ {t} /\ t \in In(a)
      /\ In(b)' = In(b) \cup {t} /\ t \notin In(b)
      /\ \A c \in Place \ {a, b} : In(c)' = In(c)
  BY Zenon DEF GpuTypeOK, In
<1>2. Cardinality(In(a) \ {t}) = Cardinality(In(a)) - 1
  BY <1>1, InFinite, FS_RemoveElement, Zenon
<1>3. Cardinality(In(b) \cup {t}) = Cardinality(In(b)) + 1
  BY <1>1, InFinite, FS_AddElement, Zenon
<1> QED   BY <1>1, <1>2, <1>3, Zenon

\* Every step of acquire, release and of a spurious wake-up keeps the slots
\* accounted for and the sleepers safe.
LEMMA GpuKeeps == GpuInv /\ [GpuNext]_gpuVars => GpuInv'
<1> SUFFICES ASSUME GpuInv, [GpuNext]_gpuVars PROVE GpuInv'   BY Zenon
<1> USE DEF GpuInv
<1>0. GpuTypeOK /\ available \in Nat /\ MaxSlots \in Nat
  BY GpuLimiterAssumption DEF GpuTypeOK
<1>1. \A s : Cardinality(In(s)) \in Nat
  BY InFinite, Zenon
<1>2. ASSUME NEW t \in Thread, Enter(t) PROVE GpuInv'
  <2>1. /\ Cardinality(In("acquire")') = Cardinality(In("acquire")) + 1
        /\ In("asleep")' = In("asleep") /\ In("forward")' = In("forward")
    BY <1>0, <1>2, Changes, Zenon DEF Enter, Goes, Place
  <2>2. GpuTypeOK'   BY <1>2, Zenon DEF Enter, Goes, GpuTypeOK
  <2> QED   BY <1>0, <1>1, <1>2, <2>1, <2>2 DEF Enter, SlotsConserved, NoSleepBesideFreeSlot
<1>3. ASSUME NEW t \in Thread, Acquire(t), available = 0 PROVE GpuInv'
  <2>1. available' = 0 /\ place' = [place EXCEPT ![t] = "asleep"] /\ place[t] = "acquire"
    BY <1>3, Zenon DEF Acquire, Goes
  <2>2. In("forward")' = In("forward")
    BY <1>0, <2>1, Changes, Zenon DEF Place
  <2>3. GpuTypeOK'   BY <1>3, <2>1, Zenon DEF GpuTypeOK
  <2>4. Cardinality(In("acquire")') \in Nat
    BY <1>0, <1>1, <2>1, Changes, InFinite, FS_RemoveElement, FS_CardinalityType, Zenon DEF Place
  <2> QED   BY <1>0, <1>3, <2>1, <2>2, <2>3, <2>4 DEF SlotsConserved, NoSleepBesideFreeSlot
<1>4. ASSUME NEW t \in Thread, Acquire(t), available # 0 PROVE GpuInv'
  <2>1. available' = available - 1 /\ place' = [place EXCEPT ![t] = "forward"] /\ place[t] = "acquire"
    BY <1>4, Zenon DEF Acquire, Goes
  <2>2. /\ Cardinality(In("acquire")') = Cardinality(In("acquire")) - 1
        /\ Cardinality(In("forward")') = Cardinality(In("forward")) + 1
        /\ In("asleep")' = In("asleep")
    BY <1>0, <2>1, Changes, Zenon DEF Place
  <2>3. GpuTypeOK'   BY <1>0, <1>4, <2>1 DEF GpuTypeOK
  <2> QED   BY <1>0, <1>1, <2>1, <2>2, <2>3 DEF SlotsConserved, NoSleepBesideFreeSlot
<1>5. ASSUME NEW t \in Thread, WakeSpuriously(t) PROVE GpuInv'
  <2>1. /\ Cardinality(In("acquire")') = Cardinality(In("acquire")) + 1
        /\ In("asleep")' = In("asleep") \ {t} /\ t \in In("asleep")
        /\ In("forward")' = In("forward")
    BY <1>0, <1>5, Changes, Zenon DEF WakeSpuriously, Goes, Place
  <2>2. GpuTypeOK'   BY <1>5, Zenon DEF WakeSpuriously, Goes, GpuTypeOK
  <2>3. available' = available   BY <1>5, Zenon DEF WakeSpuriously
  <2> QED   BY <1>0, <1>1, <2>1, <2>2, <2>3 DEF SlotsConserved, NoSleepBesideFreeSlot
<1>6. ASSUME NEW t \in Thread, Release(t) PROVE GpuInv'
  <2>1. t \in In("forward") /\ place[t] = "forward"
    BY <1>6, Zenon DEF Release, In
  <2>2. Cardinality(In("forward")) # 0
    BY <2>1, InFinite, FS_EmptySet, Zenon
  <2>3. available' = available + 1
    BY <1>0, <1>1, <1>6, <2>2 DEF Release, SlotsConserved
  <2>4. GpuTypeOK'
    BY <1>0, <1>1, <1>6, <2>2, <2>3 DEF Release, Goes, SlotsConserved, GpuTypeOK, In
  <2>5. CASE In("asleep") = {} /\ place' = [place EXCEPT ![t] = "outside"]
    <3>1. /\ Cardinality(In("forward")') = Cardinality(In("forward")) - 1
          /\ In("asleep")' = In("asleep")
      BY <1>0, <2>1, <2>5, Changes, Zenon DEF Place
    <3> QED   BY <1>0, <1>1, <2>3, <2>4, <2>5, <3>1 DEF SlotsConserved, NoSleepBesideFreeSlot
  <2>6. ASSUME NEW u \in In("asleep"), place' = [place EXCEPT ![t] = "outside", ![u] = "acquire"]
        PROVE  GpuInv'
    <3>1. /\ In("forward")' = In("forward") \ {t}
          /\ In("acquire")' = In("acquire") \cup {u} /\ u \notin In("acquire")
      BY <1>0, <2>1, <2>6, Zenon DEF In, GpuTypeOK
    <3>2. Cardinality(In("forward")') = Cardinality(In("forward")) - 1
      BY <2>1, <3>1, InFinite, FS_RemoveElement
    <3>3. Cardinality(In("acquire")') = Cardinality(In("acquire")) + 1
      BY <3>1, InFinite, FS_AddElement, Zenon
    <3>4. In("asleep") # {}   BY <2>6, Zenon
    <3> QED
      BY <1>0, <1>1, <2>3, <2>4, <3>2, <3>3, <3>4 DEF SlotsConserved, NoSleepBesideFreeSlot
  <2> QED   BY <1>6, <2>5, <2>6, Zenon DEF Release, Goes
<1>7. CASE UNCHANGED gpuVars
  BY <1>7, Zenon DEF gpuVars, GpuTypeOK, SlotsConserved, NoSleepBesideFreeSlot, In
<1> QED
  BY <1>2, <1>3, <1>4, <1>5, <1>6, <1>7, Zenon DEF GpuNext, GpuStep

\* Initially nobody is inside and nobody sleeps.
LEMMA GpuInvInit == GpuInit => GpuInv
<1> SUFFICES ASSUME GpuInit PROVE GpuInv   BY Zenon
<1>1. In("forward") = {} /\ In("asleep") = {}   BY Zenon DEF GpuInit, In
<1>2. Cardinality(In("forward")) = 0   BY <1>1, FS_EmptySet, Zenon
<1> QED
  BY <1>1, <1>2, GpuLimiterAssumption DEF GpuInit, GpuInv, GpuTypeOK, SlotsConserved, NoSleepBesideFreeSlot

\* release never gives back more slots than were taken, and never fewer: free
\* slots and running inferences always add up to the limit.
THEOREM SlotsAreConserved == GpuSpec => []SlotsConserved
<1>1. GpuSpec => []GpuInv   BY GpuInvInit, GpuKeeps, PTL DEF GpuSpec
<1> QED   BY <1>1, PTL DEF GpuInv

\* notify_one is enough: while a thread sleeps, every free slot has a thread
\* on its way that will find it.
THEOREM NoWakeUpIsLost == GpuSpec => []NoSleepBesideFreeSlot
<1>1. GpuSpec => []GpuInv   BY GpuInvInit, GpuKeeps, PTL DEF GpuSpec
<1> QED   BY <1>1, PTL DEF GpuInv

-----------------------------------------------------------------------------
(* Shutdown: types. *)

\* A task that has done its work is still a task.
LEMMA TaskReply ==
  ASSUME NEW t \in Task
  PROVE  [t EXCEPT !.step = "reply"] \in Task /\ [t EXCEPT !.step = "reply"].jobs = t.jobs
BY Zenon DEF Task

\* Dropping a holder leaves well-formed holders.
LEMMA DroppedType ==
  ASSUME TypeOK, NEW h
  PROVE  /\ Dropped(h) \in [Channels -> SUBSET {"router", "main", "poller", "bulk", "singles", "keepalive"}]
         /\ \A c \in Channels : Dropped(h)[c] = holders[c] \ {h}
BY Zenon DEF TypeOK, Dropped

\* The initial state is well typed.
LEMMA TypeInit == Init => TypeOK
<1> SUFFICES ASSUME Init PROVE TypeOK   BY Zenon
<1>1. holders \in [Channels -> SUBSET {"router", "main", "poller", "bulk", "singles", "keepalive"}]
  BY Zenon DEF Init, Owner
<1>2. poller \in {"look", "send", "wait", "deletes", "exited"}
  BY Zenon DEF Init
<1>3. /\ chan \in [Ingress -> SUBSET Jobs]
      /\ tasks \in [Ingress -> SUBSET Task]
  BY Zenon DEF Init
<1>4. /\ worker \in [Channels -> {"running", "exited"}]
      /\ req \in [Reqs -> {"new", "arrived", "waiting", "deleting", "refused", "answered", "gone"}]
  BY Zenon DEF Init
<1>5. polls \in 0..MaxPolls /\ buffered \in 0..StatsCap /\ collected \in 0..StatsMax
  BY ShutdownAssumption DEF Init
<1> QED
  BY <1>1, <1>2, <1>3, <1>4, <1>5, Zenon DEF Init, TypeOK

\* Every step keeps the types.
LEMMA TypeStep == TypeOK /\ [Next]_vars => TypeOK'
<1> SUFFICES ASSUME TypeOK, [Next]_vars PROVE TypeOK'   BY Zenon
<1> USE ShutdownAssumption
<1>1. ASSUME NEW r \in Reqs, Arrive(r) \/ Disconnect(r) PROVE TypeOK'
  BY <1>1, Zenon DEF TypeOK, Arrive, Disconnect
<1>2. ASSUME NEW r \in Reqs, NEW c \in Ingress, Submit(r, c) PROVE TypeOK'
  BY <1>2 DEF TypeOK, Submit, Jobs
<1>3. ASSUME NEW r \in Reqs, DeleteSync(r) PROVE TypeOK'
  BY <1>3 DEF TypeOK, DeleteSync, Enqueue
<1>4. ASSUME NEW c \in Ingress, Take(c) PROVE TypeOK'
  <2>1. PICK S \in SUBSET chan[c] :
          /\ chan' = [chan EXCEPT ![c] = @ \ S]
          /\ tasks' = [tasks EXCEPT ![c] = @ \cup {[jobs |-> S, step |-> "work"]}]
    BY <1>4, Zenon DEF Take
  <2>2. [jobs |-> S, step |-> "work"] \in Task
    BY <2>1, Zenon DEF TypeOK, Task
  <2> QED
    BY <1>4, <2>1, <2>2, Zenon DEF TypeOK, Take
<1>5. ASSUME NEW c \in Ingress, NEW t \in tasks[c], Work(c, t) PROVE TypeOK'
  <2>1. t \in Task   BY Zenon DEF TypeOK
  <2>2. buffered' \in 0..StatsCap   BY <1>5 DEF Work, Enqueue, TypeOK
  <2>3. tasks' \in [Ingress -> SUBSET Task]   BY <1>5, <2>1, TaskReply, Zenon DEF Work, TypeOK
  <2> QED
    BY <1>5, <2>2, <2>3, Zenon DEF TypeOK, Work
<1>6. ASSUME NEW c \in Ingress, NEW t \in tasks[c], Finish(c, t) \/ Panic(c, t) PROVE TypeOK'
  BY <1>6 DEF TypeOK, Finish, Panic, Answered
<1>7. ASSUME NEW c \in Ingress, WorkerExits(c) PROVE TypeOK'
  BY <1>7, DroppedType, Zenon DEF TypeOK, WorkerExits, Channels
<1>8. CASE Polling
  BY <1>8, DroppedType DEF TypeOK, Polling, PollerLook, PollerSend, PollerDeletes, PollerStops,
                           Enqueue, Jobs, Ingress
<1>9. CASE Counting
  <2>1. CASE CollectStats   BY <2>1 DEF TypeOK, CollectStats
  <2>2. CASE FlushStats   BY <2>2 DEF TypeOK, FlushStats
  <2>3. CASE StatsExits   BY <2>3, Zenon DEF TypeOK, StatsExits, Channels
  <2> QED
    BY <1>9, <2>1, <2>2, <2>3, Zenon DEF Counting
<1>10. CASE Signal \/ ServeReturns
  <2>1. stop' \in BOOLEAN /\ signalled' \in BOOLEAN
    BY <1>10, Zenon DEF TypeOK, Signal, ServeReturns
  <2> QED
    BY <1>10, <2>1, DroppedType DEF TypeOK, Signal, ServeReturns
<1>11. CASE Joining
  BY <1>11, DroppedType DEF TypeOK, Joining, PollerJoined, UpsertJoined, SearchJoined,
                            StatsJoined, Joined
<1>12. CASE UNCHANGED vars
  BY <1>12, Zenon DEF TypeOK, vars
<1> QED
  BY <1>1, <1>2, <1>3, <1>4, <1>5, <1>6, <1>7, <1>8, <1>9, <1>10, <1>11, <1>12, Zenon
  DEF Next, Requests, Ingesting, Terminated

-----------------------------------------------------------------------------
(* Shutdown: senders and receivers. *)

\* Every step keeps a sender with whoever may still send.
LEMMA HoldStep == TypeOK /\ BatchInv /\ HoldInv /\ [Next]_vars => HoldInv'
<1> SUFFICES ASSUME TypeOK, BatchInv, HoldInv, [Next]_vars PROVE HoldInv'   BY Zenon
<1> USE DEF Handling, Channels, Ingress, Upserts
<1>1. ASSUME NEW r \in Reqs, Arrive(r) \/ Disconnect(r) PROVE HoldInv'
  BY <1>1, Zenon DEF TypeOK, HoldInv, Arrive, Disconnect
<1>2. ASSUME NEW r \in Reqs, NEW c \in Ingress, Submit(r, c) PROVE HoldInv'
  <2>1. main = "serve" /\ main' = main
    BY <1>2, Zenon DEF HoldInv, Submit
  <2> QED
    BY <1>2, <2>1, Zenon DEF TypeOK, HoldInv, Submit
<1>3. ASSUME NEW r \in Reqs, DeleteSync(r) PROVE HoldInv'
  <2>1. main = "serve" /\ main' = main
    BY <1>3, Zenon DEF HoldInv, DeleteSync
  <2>2. worker["stats"] = "running" /\ worker' = worker
    BY <1>3, <2>1, Zenon DEF HoldInv, DeleteSync, TypeOK
  <2> QED
    BY <1>3, <2>1, <2>2, Zenon DEF TypeOK, HoldInv, DeleteSync
<1>4. ASSUME NEW c \in Ingress, Take(c) PROVE HoldInv'
  BY <1>4 DEF TypeOK, HoldInv, Take
<1>5. ASSUME NEW c \in Ingress, NEW t \in tasks[c], Work(c, t) PROVE HoldInv'
  <2>1. worker[c] = "running" /\ worker' = worker
    BY <1>5, Zenon DEF HoldInv, Work, TypeOK
  <2>2. worker["stats"] = "exited" => buffered' = 0
    BY <1>5, Zenon DEF HoldInv, Work, Enqueue
  <2> QED
    BY <1>5, <2>1, <2>2, Zenon DEF TypeOK, HoldInv, Work
<1>6. ASSUME NEW c \in Ingress, NEW t \in tasks[c], Finish(c, t) \/ Panic(c, t) PROVE HoldInv'
  <2>1. poller' = "exited" <=> poller = "exited"
    BY <1>6, Zenon DEF Finish, Panic, Answered, BatchInv
  <2> QED
    BY <1>6, <2>1 DEF TypeOK, HoldInv, Finish, Panic, Answered
<1>7. ASSUME NEW c \in Ingress, WorkerExits(c) PROVE HoldInv'
  BY <1>7, DroppedType DEF TypeOK, HoldInv, WorkerExits
<1>8. CASE Polling
  <2>1. CASE PollerLook   BY <2>1, Zenon DEF TypeOK, HoldInv, PollerLook
  <2>2. CASE PollerSend   BY <2>2 DEF TypeOK, HoldInv, PollerSend
  <2>3. CASE PollerDeletes   BY <2>3, Zenon DEF TypeOK, HoldInv, PollerDeletes, Enqueue
  <2>4. CASE PollerStops   BY <2>4, DroppedType DEF TypeOK, HoldInv, PollerStops
  <2> QED
    BY <1>8, <2>1, <2>2, <2>3, <2>4, Zenon DEF Polling
<1>9. CASE Counting
  BY <1>9, Zenon DEF TypeOK, HoldInv, Counting, CollectStats, FlushStats, StatsExits
<1>10. CASE Signal \/ ServeReturns
  BY <1>10, DroppedType DEF TypeOK, HoldInv, Signal, ServeReturns
<1>11. CASE Joining
  BY <1>11, DroppedType DEF TypeOK, HoldInv, Joining, PollerJoined, UpsertJoined, SearchJoined,
                            StatsJoined, Joined
<1>12. CASE UNCHANGED vars
  BY <1>12, SMTT(60) DEF HoldInv, vars
<1> QED
  BY <1>1, <1>2, <1>3, <1>4, <1>5, <1>6, <1>7, <1>8, <1>9, <1>10, <1>11, <1>12, Zenon
  DEF Next, Requests, Ingesting, Terminated

\* Every step keeps what main has awaited ended.
LEMMA MainStep == TypeOK /\ MainInv /\ [Next]_vars => MainInv'
<1> SUFFICES ASSUME TypeOK, MainInv, [Next]_vars PROVE MainInv'   BY Zenon
<1> USE DEF Channels, Ingress, Upserts
<1>1. CASE main' = main /\ worker' = worker
  BY <1>1, Zenon DEF MainInv
<1>2. ASSUME NEW c \in Ingress, WorkerExits(c) PROVE MainInv'
  BY <1>2, Zenon DEF TypeOK, MainInv, WorkerExits
<1>3. CASE StatsExits
  BY <1>3, Zenon DEF TypeOK, MainInv, StatsExits
<1>4. CASE ServeReturns
  BY <1>4, Zenon DEF MainInv, ServeReturns
<1>5. CASE Joining
  BY <1>5, Zenon DEF MainInv, Joining, PollerJoined, UpsertJoined, SearchJoined, StatsJoined, Joined
<1> QED
  BY <1>1, <1>2, <1>3, <1>4, <1>5, Zenon
  DEF Next, Arrive, Disconnect, Requests, Submit, DeleteSync, Ingesting, Take, Work, Finish, Panic,
      Polling, PollerLook, PollerSend, PollerDeletes, PollerStops, Counting, CollectStats,
      FlushStats, Signal, Terminated, vars

\* Every step keeps the poller's job in one place, and the poller waiting for it.
LEMMA BatchStep == TypeOK /\ BatchInv /\ [Next]_vars => BatchInv'
<1> SUFFICES ASSUME TypeOK, BatchInv, [Next]_vars PROVE BatchInv'   BY Zenon
<1> USE DEF Ingress
<1>1. CASE chan' = chan /\ tasks' = tasks /\ (poller' = poller \/ poller # "wait")
  BY <1>1, Zenon DEF BatchInv
<1>2. ASSUME NEW r \in Reqs, NEW c \in Ingress, Submit(r, c) PROVE BatchInv'
  <2>1. \A e \in Ingress : Batch \in chan'[e] <=> Batch \in chan[e]
    BY <1>2, ShutdownAssumption DEF Submit, TypeOK
  <2> QED
    BY <1>2, <2>1, Zenon DEF BatchInv, Submit
<1>3. ASSUME NEW c \in Ingress, Take(c) PROVE BatchInv'
  <2>1. PICK S \in SUBSET chan[c] :
          /\ chan' = [chan EXCEPT ![c] = @ \ S]
          /\ tasks' = [tasks EXCEPT ![c] = @ \cup {[jobs |-> S, step |-> "work"]}]
    BY <1>3, Zenon DEF Take
  <2>2. \A e \in Ingress : Batch \in chan'[e] => Batch \in chan[e] /\ (e = c => Batch \notin S)
    BY <2>1, Zenon DEF TypeOK
  <2>3. ASSUME NEW e \in Ingress, NEW t \in tasks'[e], Batch \in t.jobs
        PROVE  \/ t \in tasks[e]
               \/ e = c /\ Batch \in S /\ t = [jobs |-> S, step |-> "work"]
    BY <2>1, <2>3 DEF TypeOK
  <2> QED
    BY <1>3, <2>1, <2>2, <2>3 DEF BatchInv, Take, TypeOK
<1>4. ASSUME NEW c \in Ingress, NEW t \in tasks[c], Work(c, t) PROVE BatchInv'
  <2> DEFINE t2 == [t EXCEPT !.step = "reply"]
  <2>1. t2.jobs = t.jobs
    BY TaskReply, Zenon DEF TypeOK
  <2>2. tasks' = [tasks EXCEPT ![c] = (@ \ {t}) \cup {t2}]
    BY <1>4, Zenon DEF Work
  <2> HIDE DEF t2
  <2>3. \A e \in Ingress : \A u \in tasks'[e] :
          (u \in tasks[e] /\ (e = c => u # t)) \/ (e = c /\ u = t2)
    BY <2>2, Zenon DEF TypeOK
  <2> QED
    BY <1>4, <2>1, <2>3 DEF BatchInv, Work
<1>5. ASSUME NEW c \in Ingress, NEW t \in tasks[c], Finish(c, t) \/ Panic(c, t) PROVE BatchInv'
  <2>1. chan' = chan /\ tasks' = [tasks EXCEPT ![c] = @ \ {t}]
    BY <1>5, Zenon DEF Finish, Panic
  <2>2. \A e \in Ingress : \A u \in tasks'[e] : u \in tasks[e] /\ (e = c => u # t)
    BY <2>1, Zenon DEF TypeOK
  <2>3. poller' = IF Batch \in t.jobs THEN "deletes" ELSE poller
    BY <1>5, Zenon DEF Finish, Panic, Answered
  <2> QED
    BY <2>1, <2>2, <2>3, Zenon DEF BatchInv
<1>6. CASE PollerSend
  <2>1. tasks' = tasks /\ \A e \in Ingress : Batch \notin chan[e]
    BY <1>6, Zenon DEF PollerSend, BatchInv
  <2>2. \A e \in Ingress : \A t \in tasks[e] : Batch \notin t.jobs
    BY <1>6, Zenon DEF PollerSend, BatchInv
  <2> QED
    BY <1>6, <2>1, <2>2, Zenon DEF BatchInv, PollerSend, TypeOK
<1>7. CASE Joining
  BY <1>1, <1>7, Zenon DEF Joining, PollerJoined, UpsertJoined, SearchJoined, StatsJoined, Joined
<1>8. CASE PollerLook \/ PollerDeletes \/ PollerStops \/ Counting
  BY <1>1, <1>8, Zenon DEF PollerLook, PollerDeletes, PollerStops, Counting, CollectStats,
                    FlushStats, StatsExits
<1> QED
  BY <1>1, <1>2, <1>3, <1>4, <1>5, <1>6, <1>7, <1>8, Zenon
  DEF Next, Arrive, Disconnect, Requests, DeleteSync, Ingesting, WorkerExits,
      Polling, Signal, ServeReturns, Terminated, vars

-----------------------------------------------------------------------------
(* Shutdown: the theorems. *)

\* The inductive invariant.
StopInv == TypeOK /\ HoldInv /\ MainInv /\ BatchInv

\* It holds initially.
LEMMA StopInit == Init => StopInv
<1> SUFFICES ASSUME Init PROVE StopInv   BY Zenon
<1>1. HoldInv
  BY Zenon DEF Init, HoldInv, Owner, Handling, Channels, Ingress, Upserts
<1>2. MainInv /\ BatchInv
  BY Zenon DEF Init, MainInv, BatchInv
<1> QED
  BY <1>1, <1>2, TypeInit, Zenon DEF StopInv

\* It holds in every reachable state.
THEOREM StopInvHolds == Spec => []StopInv
<1>1. StopInv /\ [Next]_vars => StopInv'
  BY TypeStep, HoldStep, MainStep, BatchStep, Zenon DEF StopInv
<1> QED
  BY <1>1, StopInit, PTL DEF Spec

\* The variables keep their types: in particular the statistics worker never
\* buffers or collects more deltas than its channel and its batch hold.
THEOREM StopTypes == Spec => []TypeOK
BY StopInvHolds, PTL DEF StopInv

\* Whatever the number of requests, the capacities and the mode: when main
\* returns, every job that an ingress channel accepted has been processed and
\* every statistics delta has been flushed.
THEOREM NothingIsLeftBehind == Spec => []DrainedAtExit
<1>1. StopInv => DrainedAtExit
  BY Zenon DEF StopInv, DrainedAtExit, HoldInv, MainInv, Ingress, Upserts, Channels
<1> QED
  BY <1>1, StopInvHolds, PTL

\* No handler, poller batch or running upsert ever finds the worker it hands
\* its job or its delta to already gone.
THEOREM SendersAreServed == Spec => []ReceiversOutliveSenders
<1>1. StopInv => ReceiversOutliveSenders
  <2> SUFFICES ASSUME StopInv PROVE ReceiversOutliveSenders   BY Zenon
  <2> USE DEF Channels, Ingress, Upserts
  <2>1. \A c \in Channels : worker[c] \in {"running", "exited"}
    BY Zenon DEF StopInv, TypeOK
  <2>2. poller \in {"send", "wait"} => worker["bulk"] = "running"
    BY <2>1, Zenon DEF StopInv, HoldInv
  <2>3. Handling # {} => \A c \in Channels : worker[c] = "running"
    BY <2>1, Zenon DEF StopInv, HoldInv
  <2>4. poller # "exited" => worker["stats"] = "running"
    BY <2>1, Zenon DEF StopInv, HoldInv
  <2>5. ASSUME NEW c \in Upserts, chan[c] # {} \/ tasks[c] # {} PROVE worker["stats"] = "running"
    BY <2>1, <2>5, Zenon DEF StopInv, HoldInv
  <2> QED
    BY <2>2, <2>3, <2>4, <2>5, Zenon DEF ReceiversOutliveSenders
<1> QED
  BY <1>1, StopInvHolds, PTL

\* The poller has ended only when none of its batches is under way.
THEOREM BatchesAreFinished == Spec => []BatchIsFinished
<1>1. StopInv => BatchIsFinished
  BY Zenon DEF StopInv, BatchInv, BatchIsFinished
<1> QED
  BY <1>1, StopInvHolds, PTL
=============================================================================
