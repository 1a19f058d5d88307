-------------------------- MODULE ModelCacheProofs --------------------------
(***************************************************************************)
(* Proofs about the cache of models and the map of loads in flight, for any*)
(* number of threads and models and any size of the cache.                 *)
(*                                                                         *)
(* The facts about lines are also in SharedProofs: the two modules have no *)
(* other definition in common.                                             *)
(***************************************************************************)
EXTENDS ModelCache, FiniteSetTheorems, TLAPS

-----------------------------------------------------------------------------
(* Lines. *)

\* A line: nobody stands in it twice.
IsLine(s, S) == s \in Seq(S) /\ IsInjective(s)

\* A function on 1..k is a sequence of k elements.
LEMMA IsSequence ==
  ASSUME NEW S, NEW k \in Nat, NEW f \in [1..k -> S]
  PROVE  f \in Seq(S) /\ Len(f) = k
OBVIOUS

\* Without leaves out one place and moves up those behind it.
LEMMA WithoutAt ==
  ASSUME NEW S, NEW s \in Seq(S), NEW e \in Range(s)
  PROVE  \E n \in 1..Len(s) :
           /\ s[n] = e
           /\ Without(s, e) \in Seq(S)
           /\ Len(Without(s, e)) = Len(s) - 1
           /\ \A m \in 1..Len(s) - 1 : Without(s, e)[m] = IF m < n THEN s[m] ELSE s[m + 1]
<1> DEFINE n == CHOOSE n \in DOMAIN s : s[n] = e
<1>1. n \in 1..Len(s) /\ s[n] = e
  BY DEF Range
<1>2. Without(s, e) = [m \in 1..Len(s) - 1 |-> IF m < n THEN s[m] ELSE s[m + 1]]
  BY Zenon DEF Without
<1> HIDE DEF n
<1>3. \A m \in 1..Len(s) - 1 : (IF m < n THEN s[m] ELSE s[m + 1]) \in S
  BY <1>1
<1>4. Without(s, e) \in [1..Len(s) - 1 -> S] /\ Len(s) - 1 \in Nat
  BY <1>1, <1>2, <1>3
<1>5. Without(s, e) \in Seq(S) /\ Len(Without(s, e)) = Len(s) - 1
  BY <1>4, IsSequence, Zenon
<1> QED BY <1>1, <1>2, <1>5, Zenon

\* Who leaves a line leaves the others in their order (VecDeque::remove of the
\* LRU list, a waiter of a tokio Mutex that is dropped): nobody is twice in the line
\* afterwards, nobody else is gone, and the head stays unless it left.
LEMMA WithoutLine ==
  ASSUME NEW S, NEW s, IsLine(s, S), NEW e
  PROVE  /\ IsLine(Without(s, e), S)
         /\ Range(Without(s, e)) = Range(s) \ {e}
         /\ Len(Without(s, e)) = IF e \in Range(s) THEN Len(s) - 1 ELSE Len(s)
         /\ s # << >> /\ s[1] # e => Without(s, e) # << >> /\ Without(s, e)[1] = s[1]
<1> USE DEF IsLine
<1>1. CASE e \notin Range(s)
  BY <1>1, Zenon DEF Without
<1>2. CASE e \in Range(s)
  <2> DEFINE w == Without(s, e)
  <2>1. PICK n \in 1..Len(s) :
           /\ s[n] = e
           /\ w \in Seq(S)
           /\ Len(w) = Len(s) - 1
           /\ \A m \in 1..Len(s) - 1 : w[m] = IF m < n THEN s[m] ELSE s[m + 1]
    BY <1>2, WithoutAt, Zenon
  <2> HIDE DEF w
  <2>2. IsInjective(w)
    <3>1. ASSUME NEW i \in 1..Len(s) - 1, NEW j \in 1..Len(s) - 1, w[i] = w[j] PROVE i = j
      <4>1. \A a, b \in 1..Len(s) : s[a] = s[b] => a = b   BY DEF IsInjective
      <4> QED   BY <2>1, <3>1, <4>1
    <3> QED   BY <2>1, <3>1 DEF IsInjective
  <2>3. ASSUME NEW m \in 1..Len(s) - 1
        PROVE  w[m] \in Range(s) /\ w[m] # e
    <3>1. \A a, b \in 1..Len(s) : s[a] = s[b] => a = b   BY DEF IsInjective
    <3>2. \/ m < n /\ w[m] = s[m] /\ m \in 1..Len(s)
          \/ m >= n /\ w[m] = s[m + 1] /\ m + 1 \in 1..Len(s)
      BY <2>1
    <3>3. w[m] # e   BY <2>1, <3>1, <3>2
    <3>4. DOMAIN s = 1..Len(s)   OBVIOUS
    <3>5. w[m] \in Range(s)   BY <3>2, <3>4, Zenon DEF Range
    <3> QED   BY <3>3, <3>5, Zenon
  <2>4. ASSUME NEW m \in 1..Len(s), s[m] # e
        PROVE  s[m] \in Range(w)
    <3>1. CASE m < n   BY <2>1, <3>1 DEF Range
    <3>2. CASE m > n
      <4>1. m - 1 \in 1..Len(s) - 1 /\ ~(m - 1 < n)   BY <3>2
      <4>2. w[m - 1] = s[m]   BY <2>1, <4>1
      <4> QED BY <2>1, <4>1, <4>2 DEF Range
    <3> QED   BY <2>1, <2>4, <3>1, <3>2
  <2>5. Range(w) = Range(s) \ {e}
    <3>1. DOMAIN w = 1..Len(s) - 1 /\ DOMAIN s = 1..Len(s)   BY <2>1
    <3> QED   BY <2>3, <2>4, <3>1, Zenon DEF Range
  <2>6. s # << >> /\ s[1] # e => w # << >> /\ w[1] = s[1]
    <3> SUFFICES ASSUME s # << >>, s[1] # e PROVE w # << >> /\ w[1] = s[1]   BY Zenon
    <3>1. n > 1 /\ 1 \in 1..Len(s) - 1   BY <2>1
    <3> QED   BY <2>1, <3>1
  <2> QED BY <1>2, <2>1, <2>2, <2>5, <2>6, Zenon DEF w
<1> QED BY <1>1, <1>2, Zenon
\* Who joins a line stands in it once and behind the others (push_back, the
\* queue of Mutex::lock).
LEMMA AppendLine ==
  ASSUME NEW S, NEW s, IsLine(s, S), NEW e \in S, e \notin Range(s)
  PROVE  /\ IsLine(Append(s, e), S)
         /\ Range(Append(s, e)) = Range(s) \cup {e}
         /\ Append(s, e) # << >>
         /\ Append(s, e)[1] = IF s = << >> THEN e ELSE s[1]
<1> DEFINE w == Append(s, e)
<1>1. /\ s \in Seq(S) /\ w \in Seq(S) /\ Len(w) = Len(s) + 1 /\ w[Len(s) + 1] = e
      /\ \A n \in 1..Len(s) : w[n] = s[n]
  BY DEF IsLine
<1>2. DOMAIN s = 1..Len(s) /\ DOMAIN w = 1..Len(s) + 1
  BY <1>1
<1>3. \A n \in 1..Len(s) : s[n] # e
  BY <1>2, Zenon DEF Range
<1> HIDE DEF w
<1>4. IsInjective(w)
  BY <1>1, <1>2, <1>3 DEF IsInjective, IsLine
<1>5. Range(w) = Range(s) \cup {e}
  <2>1. \A x \in Range(s) : x \in Range(w)
    BY <1>1, <1>2 DEF Range
  <2>2. e \in Range(w)
    BY <1>1, <1>2 DEF Range
  <2>3. \A n \in 1..Len(s) + 1 : w[n] = e \/ (n \in 1..Len(s) /\ w[n] = s[n])
    BY <1>1
  <2>4. \A x \in Range(w) : x = e \/ x \in Range(s)
    BY <2>3, <1>2, Zenon DEF Range
  <2> QED   BY <2>1, <2>2, <2>4, Zenon
<1>6. w # << >> /\ w[1] = IF s = << >> THEN e ELSE s[1]
  BY <1>1
<1> QED   BY <1>1, <1>4, <1>5, <1>6, Zenon DEF IsLine, w


-----------------------------------------------------------------------------
(* Room and entries. *)

\* The map of loads, and the entries of the threads, name no more entries than
\* there are models, and threads.
LEMMA RangeBound ==
  ASSUME NEW S, NEW f, DOMAIN f = S, f = [x \in S |-> f[x]], IsFiniteSet(S)
  PROVE  IsFiniteSet(Range(f)) /\ Cardinality(Range(f)) <= Cardinality(S)
<1>1. f \in Surjection(S, Range(f))
  BY Zenon DEF Surjection, Range
<1> QED   BY <1>1, FS_Surjection, Zenon

\* A call that is about to get an entry has none yet, so that the other calls
\* and the map leave one unused.
LEMMA UnusedExists ==
  ASSUME ModelsTypeOK, NEW t \in Loader, thread[t].entry = NoEntry
  PROVE  \E e \in Entries : UnusedEntry(e)
<1> DEFINE g == [u \in Loader \ {t} |-> thread[u].entry]   A == Range(inflight)   B == Range(g)
           l == Cardinality(Loader)   m == Cardinality(Model)
<1>0. l \in Nat /\ m \in Nat /\ IsFiniteSet(Loader) /\ IsFiniteSet(Model)
  BY ModelCacheAssumption, FS_CardinalityType, Zenon
<1>1. IsFiniteSet(A) /\ Cardinality(A) <= m /\ Cardinality(A) \in Nat
  BY <1>0, RangeBound, FS_CardinalityType, Zenon DEF ModelsTypeOK
<1>2. IsFiniteSet(Loader \ {t}) /\ Cardinality(Loader \ {t}) = l - 1
  BY <1>0, FS_RemoveElement, Zenon
<1>3. IsFiniteSet(B) /\ Cardinality(B) <= l - 1 /\ Cardinality(B) \in Nat
  BY <1>2, RangeBound, FS_CardinalityType, Zenon
<1>4. /\ IsFiniteSet(A \cup B) /\ Cardinality(A \cup B) \in Nat
      /\ Cardinality(A \cup B) <= Cardinality(A) + Cardinality(B)
  <2>1. IsFiniteSet(A \cap B) /\ Cardinality(A \cap B) \in Nat
    BY <1>1, FS_Subset, FS_CardinalityType, Zenon
  <2>2. IsFiniteSet(A \cup B) /\ Cardinality(A \cup B) = Cardinality(A) + Cardinality(B) - Cardinality(A \cap B)
    BY <1>1, <1>3, FS_Union, Zenon
  <2> QED   BY <1>1, <1>3, <2>1, <2>2, FS_CardinalityType
<1>5. Cardinality(Entries) = l + m
  BY <1>0, FS_Interval DEF Entries
<1>6. ~(Entries \subseteq A \cup B)
  <2>1. SUFFICES ASSUME Entries \subseteq A \cup B PROVE FALSE   BY Zenon
  <2>2. Cardinality(Entries) <= Cardinality(A \cup B)
    BY <1>4, <2>1, FS_Subset, Zenon
  <2> QED   BY <1>0, <1>1, <1>3, <1>4, <1>5, <2>2
<1>7. PICK e \in Entries : e \notin A /\ e \notin B   BY <1>6, Zenon
<1>8. e # NoEntry   BY DEF Entries, NoEntry
<1>9. \A u \in Loader : thread[u].entry # e
  <2>1. \A u \in Loader \ {t} : g[u] # e   BY <1>7, Zenon DEF Range
  <2> QED   BY <1>8, <2>1, Zenon
<1>10. \A n \in Model : inflight[n] # e
  BY <1>7, Zenon DEF Range, ModelsTypeOK
<1> QED   BY <1>9, <1>10, Zenon DEF UnusedEntry

\* The end of a sequence, element by element.
LEMMA Dropped ==
  ASSUME NEW S, NEW s \in Seq(S), NEW d \in 1..Len(s)
  PROVE  /\ SubSeq(s, d + 1, Len(s)) \in Seq(S) /\ Len(SubSeq(s, d + 1, Len(s))) = Len(s) - d
         /\ \A n \in 1..Len(s) - d : SubSeq(s, d + 1, Len(s))[n] = s[d + n]
OBVIOUS

\* evict_lru_if_full drops from the front, and leaves room for one more or
\* nothing.
LEMMA EvictedLine ==
  ASSUME NEW c, IsLine(c, Model)
  PROVE  /\ IsLine(Evicted(c), Model) /\ Range(Evicted(c)) \subseteq Range(c)
         /\ Len(Evicted(c)) < MaxSize \/ Len(Evicted(c)) = 0
<1> DEFINE w == Evicted(c)   d == Len(c) - MaxSize + 1
<1>0. c \in Seq(Model) /\ IsInjective(c) /\ MaxSize \in Nat /\ DOMAIN c = 1..Len(c)
  BY ModelCacheAssumption DEF IsLine
<1>1. CASE Len(c) < MaxSize
  BY <1>0, <1>1, Zenon DEF Evicted, IsLine
<1>2. CASE ~(Len(c) < MaxSize) /\ MaxSize = 0
  <2>1. w = << >>   BY <1>2, Zenon DEF Evicted
  <2> QED   BY <2>1 DEF IsLine, IsInjective, Range
<1>3. CASE ~(Len(c) < MaxSize) /\ MaxSize # 0
  <2>1. w = SubSeq(c, d + 1, Len(c))
    <3>1. d + 1 = Len(c) - MaxSize + 2   BY <1>0
    <3> QED   BY <1>3, <3>1, Zenon DEF Evicted
  <2>2. d \in 1..Len(c)   BY <1>0, <1>3
  <2> HIDE DEF w, d
  <2>3. w \in Seq(Model) /\ Len(w) = Len(c) - d /\ \A n \in 1..Len(c) - d : w[n] = c[d + n]
    BY <1>0, <2>1, <2>2, Dropped, Zenon
  <2>4. IsInjective(w)
    <3>1. \A a, b \in 1..Len(c) : c[a] = c[b] => a = b   BY <1>0, Zenon DEF IsInjective
    <3>2. \A a, b \in 1..Len(c) - d : w[a] = w[b] => a = b   BY <1>0, <2>2, <2>3, <3>1
    <3> QED   BY <2>3, <3>2 DEF IsInjective
  <2>5. Range(w) \subseteq Range(c)
    <3>1. \A n \in 1..Len(c) - d : d + n \in DOMAIN c   BY <1>0, <2>2
    <3>2. DOMAIN w = 1..Len(c) - d   BY <2>3
    <3> QED   BY <2>3, <3>1, <3>2, Zenon DEF Range
  <2>6. Len(w) < MaxSize   BY <1>0, <2>2, <2>3 DEF d
  <2> QED   BY <2>3, <2>4, <2>5, <2>6, Zenon DEF IsLine, w
<1> QED   BY <1>1, <1>2, <1>3, Zenon

\* A call by its place: it has an entry, and possibly owns it, from its third
\* lookup on, and only calls for trusted models get there.
CallOK(c) ==
  /\ c.at \in {"wait", "load", "insert", "remove"} => c.pass = 3
  /\ c.at = "join" => c.pass = 2
  /\ c.at = "idle" => c.pass = 1
  /\ c.pass < 3 => c.entry = NoEntry /\ ~c.owner
  /\ c.pass = 3 => c.entry # NoEntry
  /\ c.pass > 1 => c.key \notin Untrusted

\* An entry has one owner and one key.
EntriesKept ==
  /\ \A t, u \in Loader : thread[t].owner /\ thread[u].owner /\ thread[t].entry = thread[u].entry => t = u
  /\ \A t, u \in Loader :
       thread[t].entry # NoEntry /\ thread[t].entry = thread[u].entry => thread[t].key = thread[u].key
  /\ \A m \in Model, t \in Loader :
       inflight[m] # NoEntry /\ inflight[m] = thread[t].entry => thread[t].key = m

\* The cache holds trusted models, each once, and no more than it may.
CacheInv == IsLine(cache, Model) /\ CacheBounded /\ Range(cache) \cap Untrusted = {}

\* The inductive invariant.
ModelsInv ==
  /\ ModelsTypeOK /\ CacheInv
  /\ \A t \in Loader : CallOK(thread[t])
  /\ EntriesKept /\ EntryIsOwned

\* What a step does to the calls: t goes to place s with its pass p and keeps the
\* rest, or returns.
Alone(t) == thread' \in [Loader -> At] /\ \A u \in Loader : u # t => thread'[u] = thread[u]
Went(t, s, p) ==
  /\ Alone(t)
  /\ thread'[t].at = s /\ thread'[t].pass = p /\ thread'[t].key = thread[t].key
  /\ thread'[t].entry = thread[t].entry /\ thread'[t].owner = thread[t].owner
CameBack(t) == Alone(t) /\ thread'[t] = Idle

\* A thread that is in no call is at the start of one.
LEMMA IdleType ==
  /\ Idle \in At
  /\ Idle.at = "idle" /\ Idle.pass = 1 /\ Idle.owner = FALSE /\ Idle.entry = NoEntry
<1>1. \E m \in Model : TRUE   BY ModelCacheAssumption, Zenon
<1>2. (CHOOSE m \in Model : TRUE) \in Model   BY <1>1, Zenon
<1> QED   BY <1>2 DEF Idle, At

\* A call that goes on keeps its key, its entry and its ownership.
LEMMA MovesWent ==
  ASSUME ModelsTypeOK, NEW t \in Loader,
         NEW s \in {"idle", "contains", "bump", "join", "wait", "load", "insert", "remove"}, Moves(t, s)
  PROVE  Went(t, s, thread[t].pass)
BY Zenon DEF Moves, Went, Alone, ModelsTypeOK, At

\* A call that returns leaves nothing of itself behind.
LEMMA ReturnsBack ==
  ASSUME ModelsTypeOK, NEW t \in Loader, Returns(t)
  PROVE  CameBack(t)
BY IdleType, Zenon DEF Returns, CameBack, Alone, ModelsTypeOK

\* A call is about to look m up for the p-th time, with entry e and ownership o.
Looks(t, m, p, e, o) ==
  /\ Alone(t)
  /\ thread'[t].at = "contains" /\ thread'[t].pass = p /\ thread'[t].key = m
  /\ thread'[t].entry = e /\ thread'[t].owner = o

\* A call about to look a model up.
LEMMA LooksForLooks ==
  ASSUME ModelsTypeOK, NEW t \in Loader, NEW m \in Model, NEW p \in 1..3,
         NEW e \in {NoEntry} \cup Entries, NEW o \in BOOLEAN,
         thread' = [thread EXCEPT ![t] = LooksFor(m, p, e, o)]
  PROVE  Looks(t, m, p, e, o)
<1>1. LooksFor(m, p, e, o) \in At   BY Zenon DEF LooksFor, At
<1> QED   BY <1>1, Zenon DEF Looks, Alone, LooksFor, ModelsTypeOK

\* After a miss: refused, on to the next lookup, to the entry or to the wait.
LEMMA MissedWent ==
  ASSUME ModelsTypeOK, NEW t \in Loader, CallOK(thread[t]), Missed(t)
  PROVE  \/ thread[t].pass = 1 /\ thread[t].key \in Untrusted /\ CameBack(t)
         \/ thread[t].pass = 1 /\ thread[t].key \notin Untrusted /\ Went(t, "contains", 2)
         \/ thread[t].pass = 2 /\ Went(t, "join", 2)
         \/ thread[t].pass = 3 /\ Went(t, "wait", 3)
<1>1. CASE thread[t].pass = 1 /\ thread[t].key \in Untrusted /\ Returns(t)
  BY <1>1, ReturnsBack, Zenon
<1>2. CASE /\ thread[t].pass = 1 /\ thread[t].key \notin Untrusted
           /\ thread' = [thread EXCEPT ![t] = LooksFor(thread[t].key, 2, NoEntry, FALSE)]
  <2>1. thread[t].key \in Model /\ 2 \in 1..3 /\ thread[t].entry = NoEntry /\ thread[t].owner = FALSE
    BY <1>2 DEF ModelsTypeOK, At, CallOK
  <2>2. Looks(t, thread[t].key, 2, NoEntry, FALSE)   BY <1>2, <2>1, LooksForLooks, Zenon
  <2>3. Went(t, "contains", 2)   BY <2>1, <2>2, Zenon DEF Looks, Went
  <2> QED   BY <1>2, <2>3, Zenon
<1>3. CASE thread[t].pass = 2 /\ Moves(t, "join")   BY <1>3, MovesWent, Zenon
<1>4. CASE thread[t].pass = 3 /\ Moves(t, "wait")   BY <1>4, MovesWent, Zenon
<1> QED   BY <1>1, <1>2, <1>3, <1>4, Zenon DEF Missed

\* A step that leaves the map alone, and keeps what its call has of an entry or
\* comes from and to a call without one.
LEMMA WalkKeeps ==
  ASSUME ModelsInv, NEW t \in Loader, Alone(t), CallOK(thread[t])', CacheInv', UNCHANGED inflight,
         state' \in [Entries -> {"loading", "ok", "err"}],
         \/ /\ thread'[t].entry = thread[t].entry /\ thread'[t].owner = thread[t].owner
            /\ thread'[t].key = thread[t].key
         \/ thread'[t].entry = NoEntry /\ ~thread'[t].owner /\ ~thread[t].owner
  PROVE  ModelsInv'
<1>1. ModelsTypeOK'   BY Zenon DEF ModelsInv, ModelsTypeOK, CacheInv, Alone, IsLine
<1>2. \A u \in Loader : CallOK(thread[u])'
  <2>1. \A u \in Loader : u # t => thread'[u] = thread[u] /\ CallOK(thread[u])   BY Zenon DEF ModelsInv, Alone
  <2> QED   BY <2>1 DEF CallOK
<1>3. EntriesKept' /\ EntryIsOwned'
  <2>1. EntriesKept /\ EntryIsOwned /\ \A u \in Loader : u # t => thread'[u] = thread[u]
    BY Zenon DEF ModelsInv, Alone
  <2>2. CASE /\ thread'[t].entry = thread[t].entry /\ thread'[t].owner = thread[t].owner
             /\ thread'[t].key = thread[t].key
    <3>1. \A u \in Loader : /\ thread'[u].entry = thread[u].entry /\ thread'[u].owner = thread[u].owner
                            /\ thread'[u].key = thread[u].key
      BY <2>1, <2>2, Zenon
    <3> QED   BY <2>1, <3>1 DEF EntriesKept, EntryIsOwned
  <2>3. CASE thread'[t].entry = NoEntry /\ ~thread'[t].owner /\ ~thread[t].owner
    <3>1. EntriesKept'   BY <2>1, <2>3 DEF EntriesKept
    <3>2. EntryIsOwned'   BY <2>1, <2>3 DEF EntryIsOwned
    <3> QED   BY <3>1, <3>2, Zenon
  <2> QED   BY <2>2, <2>3, Zenon
<1> QED   BY <1>1, <1>2, <1>3, Zenon DEF ModelsInv

\* bump_cache_hit reorders the cache and neither loses nor adds a model.
LEMMA BumpedCache ==
  ASSUME CacheInv, NEW m \in Range(cache), cache' = Bumped(m)
  PROVE  CacheInv' /\ Range(cache') = Range(cache)
<1> DEFINE w == Without(cache, m)
<1>1. IsLine(w, Model) /\ Range(w) = Range(cache) \ {m} /\ Len(w) = Len(cache) - 1
  BY WithoutLine, Zenon DEF CacheInv
<1>2. m \in Model   BY DEF CacheInv, IsLine, Range
<1>3. IsLine(cache', Model) /\ Range(cache') = Range(w) \cup {m} /\ Len(cache') = Len(w) + 1
  <2>1. Len(Append(w, m)) = Len(w) + 1   BY <1>1, <1>2 DEF IsLine
  <2> QED   BY <1>1, <1>2, <2>1, AppendLine DEF Bumped
<1>4. Range(cache') = Range(cache)   BY <1>1, <1>3, Zenon
<1>5. Len(cache') = Len(cache)   BY <1>1, <1>3 DEF CacheInv, IsLine
<1> QED   BY <1>3, <1>4, <1>5, Zenon DEF CacheInv, CacheBounded

\* insert_loaded keeps the cache within its size, without duplicates.
LEMMA InsertedCache ==
  ASSUME CacheInv, NEW m \in Model \ Untrusted, m \notin Range(cache), cache' = Append(Evicted(cache), m)
  PROVE  CacheInv' /\ Range(cache') \subseteq Range(cache) \cup {m}
<1> DEFINE w == Evicted(cache)
<1>1. /\ IsLine(w, Model) /\ Range(w) \subseteq Range(cache)
      /\ Len(w) < MaxSize \/ Len(w) = 0
  BY EvictedLine, Zenon DEF CacheInv
<1> HIDE DEF w
<1>2. m \notin Range(w)   BY <1>1, Zenon
<1>3. cache' = Append(w, m)   BY Zenon DEF w
<1>4. IsLine(cache', Model) /\ Range(cache') = Range(w) \cup {m}
  BY <1>1, <1>2, <1>3, AppendLine
<1>5. Len(cache') = Len(w) + 1   BY <1>1, <1>3 DEF IsLine
<1>6. CacheBounded'   BY <1>1, <1>5, ModelCacheAssumption DEF CacheBounded, IsLine
<1> QED   BY <1>1, <1>4, <1>6, Zenon DEF CacheInv

\* The steps that do not touch the in-flight map.
LEMMA LookupKeeps ==
  ASSUME ModelsInv, NEW t \in Loader, GetOrLoad(t) \/ LooksUp(t) \/ Bump(t) \/ Wait(t)
  PROVE  ModelsInv'
<1> DEFINE c == thread[t]
<1>0. /\ ModelsTypeOK /\ c \in At /\ CallOK(c)
      /\ c.pass < 3 => c.entry = NoEntry /\ ~c.owner
      /\ c.pass > 1 => c.key \notin Untrusted
  BY Zenon DEF ModelsInv, ModelsTypeOK, CallOK
<1>a. UNCHANGED cache => CacheInv'   BY Zenon DEF ModelsInv, CacheInv, CacheBounded
<1>s. UNCHANGED state => state' \in [Entries -> {"loading", "ok", "err"}]   BY <1>0, Zenon DEF ModelsTypeOK
<1>b. ASSUME UNCHANGED <<inflight, state>>, CacheInv', NEW s, NEW p, Went(t, s, p),
             CallOK([at |-> s, key |-> c.key, pass |-> p, entry |-> c.entry, owner |-> c.owner])
      PROVE  ModelsInv'
  <2>1. CallOK(thread[t])'   BY <1>b, Zenon DEF CallOK, Went
  <2> QED   BY <1>b, <1>s, <2>1, WalkKeeps, Zenon DEF Went
<1>c. ASSUME UNCHANGED <<inflight, state>>, CacheInv', c.pass < 3, CameBack(t)
      PROVE  ModelsInv'
  <2>1. CallOK(thread[t])'   BY <1>c, IdleType DEF CallOK, CameBack
  <2> QED   BY <1>0, <1>c, <1>s, <2>1, IdleType, WalkKeeps, Zenon DEF CameBack
<1>d. ASSUME Missed(t), UNCHANGED <<inflight, state>>, CacheInv' PROVE ModelsInv'
  <2>1. CASE c.pass = 1 /\ CameBack(t)
    BY <1>c, <1>d, <2>1
  <2>2. CASE c.pass = 1 /\ c.key \notin Untrusted /\ Went(t, "contains", 2)
    BY <1>0, <1>b, <1>d, <2>2 DEF CallOK
  <2>3. CASE c.pass = 2 /\ Went(t, "join", 2)
    BY <1>0, <1>b, <1>d, <2>3, Zenon DEF CallOK
  <2>4. CASE c.pass = 3 /\ Went(t, "wait", 3)
    BY <1>0, <1>b, <1>d, <2>4, Zenon DEF CallOK
  <2> QED   BY <1>0, <1>d, <2>1, <2>2, <2>3, <2>4, MissedWent, Zenon
<1>1. CASE GetOrLoad(t)
  <2>1. PICK m \in Model : thread' = [thread EXCEPT ![t] = LooksFor(m, 1, NoEntry, FALSE)]
    BY <1>1, Zenon DEF GetOrLoad
  <2>2. Looks(t, m, 1, NoEntry, FALSE)
    <3>1. 1 \in 1..3   OBVIOUS
    <3> QED   BY <1>0, <2>1, <3>1, LooksForLooks, Zenon
  <2>3. c.pass = 1   BY <1>0, <1>1, Zenon DEF GetOrLoad, CallOK
  <2>4. CallOK(thread[t])'   BY <2>2 DEF CallOK, Looks
  <2>5. /\ Alone(t) /\ thread'[t].entry = NoEntry /\ ~thread'[t].owner /\ ~thread[t].owner
        /\ UNCHANGED <<cache, inflight, state>>
    <3>1. c.pass < 3   BY <2>3
    <3>2. ~c.owner   BY <1>0, <3>1, Zenon
    <3>3. UNCHANGED <<cache, inflight, state>>   BY <1>1, Zenon DEF GetOrLoad
    <3> QED   BY <2>2, <3>2, <3>3, Zenon DEF Looks
  <2> QED   BY <1>a, <1>s, <2>4, <2>5, WalkKeeps, Zenon
<1>2. CASE LooksUp(t)
  <2>1. CASE c.key \in Range(cache)
    <3>1. Went(t, "bump", c.pass)   BY <1>0, <1>2, <2>1, MovesWent, Zenon DEF LooksUp
    <3> QED   BY <1>0, <1>2, <1>a, <1>b, <3>1, Zenon DEF LooksUp, CallOK
  <2>2. CASE c.key \notin Range(cache)
    BY <1>2, <1>a, <1>d, <2>2, Zenon DEF LooksUp
  <2> QED   BY <2>1, <2>2, Zenon
<1>3. CASE Bump(t)
  <2>1. CASE c.key \in Range(cache)
    <3>1. CacheInv'   BY <1>3, <2>1, BumpedCache, Zenon DEF Bump, ModelsInv
    <3>2. CASE c.pass = 3
      <4>1. Went(t, "remove", 3)   BY <1>0, <1>3, <2>1, <3>2, MovesWent, Zenon DEF Bump
      <4> QED   BY <1>0, <1>3, <1>b, <3>1, <3>2, <4>1, Zenon DEF Bump, CallOK
    <3>3. CASE c.pass # 3
      <4>1. CameBack(t)   BY <1>0, <1>3, <2>1, <3>3, ReturnsBack, Zenon DEF Bump
      <4>2. c.pass < 3   BY <1>0, <3>3 DEF At
      <4> QED   BY <1>3, <1>c, <3>1, <4>1, <4>2, Zenon DEF Bump
    <3> QED   BY <3>2, <3>3, Zenon
  <2>2. CASE c.key \notin Range(cache)
    BY <1>3, <1>a, <1>d, <2>2, Zenon DEF Bump
  <2> QED   BY <2>1, <2>2, Zenon
<1>4. CASE Wait(t)
  <2>1. PICK s \in {"insert", "remove", "load"} : Moves(t, s)   BY <1>4, Zenon DEF Wait
  <2>2. Went(t, s, c.pass) /\ c.pass = 3 /\ c.entry # NoEntry
    BY <1>0, <1>4, <2>1, MovesWent, Zenon DEF Wait, CallOK
  <2> QED   BY <1>0, <1>4, <1>a, <1>b, <2>2, Zenon DEF Wait, CallOK
<1> QED   BY <1>1, <1>2, <1>3, <1>4, Zenon

\* Join gives the call the entry of the map, or a new one that it owns.
LEMMA JoinEntry ==
  ASSUME ModelsInv, NEW t \in Loader, Join(t)
  PROVE  \E e \in Entries :
           /\ Looks(t, thread[t].key, 3, e, inflight[thread[t].key] = NoEntry)
           /\ thread[t].pass = 2 /\ thread[t].key \in Model /\ UNCHANGED cache
           /\ inflight' = [inflight EXCEPT ![thread[t].key] = e]
           /\ IF inflight[thread[t].key] = NoEntry
              THEN UnusedEntry(e) /\ state' = [state EXCEPT ![e] = "loading"]
              ELSE e = inflight[thread[t].key] /\ state' = state
<1> DEFINE m == thread[t].key
           e == IF inflight[m] # NoEntry THEN inflight[m] ELSE CHOOSE n \in Entries : UnusedEntry(n)
<1>1. ModelsTypeOK /\ m \in Model /\ inflight[m] \in {NoEntry} \cup Entries
  BY Zenon DEF ModelsInv, ModelsTypeOK, At
<1>2. thread[t].pass = 2 /\ thread[t].entry = NoEntry   BY DEF ModelsInv, Join, CallOK
<1>3. (CHOOSE n \in Entries : UnusedEntry(n)) \in Entries /\ UnusedEntry(CHOOSE n \in Entries : UnusedEntry(n))
  BY <1>1, <1>2, UnusedExists, Zenon
<1>4. /\ inflight' = [inflight EXCEPT ![m] = e]
      /\ state' = IF inflight[m] = NoEntry THEN [state EXCEPT ![e] = "loading"] ELSE state
      /\ thread' = [thread EXCEPT ![t] = LooksFor(m, 3, e, inflight[m] = NoEntry)]
      /\ UNCHANGED cache
  BY Zenon DEF Join
<1>5. e \in Entries /\ IF inflight[m] = NoEntry THEN UnusedEntry(e) ELSE e = inflight[m]
  BY <1>1, <1>3, Zenon
<1> HIDE DEF e
<1>6. Looks(t, m, 3, e, inflight[m] = NoEntry)
  <2>1. 3 \in 1..3 /\ (inflight[m] = NoEntry) \in BOOLEAN   OBVIOUS
  <2> QED   BY <1>1, <1>4, <1>5, <2>1, LooksForLooks, Zenon
<1>7. IF inflight[m] = NoEntry THEN UnusedEntry(e) /\ state' = [state EXCEPT ![e] = "loading"]
                              ELSE e = inflight[m] /\ state' = state
  BY <1>4, <1>5, Zenon
<1> QED   BY <1>1, <1>2, <1>4, <1>5, <1>6, <1>7, Zenon

\* Joining a load in flight, or starting one, keeps owners and keys of entries unique.
LEMMA JoinKeeps ==
  ASSUME ModelsInv, NEW t \in Loader, Join(t)
  PROVE  ModelsInv'
<1> DEFINE m == thread[t].key
<1>1. PICK e \in Entries :
        /\ Looks(t, m, 3, e, inflight[m] = NoEntry)
        /\ thread[t].pass = 2 /\ m \in Model /\ UNCHANGED cache
        /\ inflight' = [inflight EXCEPT ![m] = e]
        /\ IF inflight[m] = NoEntry THEN UnusedEntry(e) /\ state' = [state EXCEPT ![e] = "loading"]
                                   ELSE e = inflight[m] /\ state' = state
  BY JoinEntry, Zenon
<1>2. e # NoEntry   BY DEF Entries, NoEntry
<1>3. /\ ModelsTypeOK /\ EntriesKept /\ EntryIsOwned /\ CallOK(thread[t])
      /\ thread[t].entry = NoEntry /\ ~thread[t].owner /\ m \notin Untrusted
  BY <1>1 DEF ModelsInv, CallOK
<1>4. /\ \A u \in Loader : u # t => thread'[u] = thread[u]
      /\ thread'[t].key = m /\ thread'[t].entry = e /\ thread'[t].owner = (inflight[m] = NoEntry)
      /\ thread'[t].at = "contains" /\ thread'[t].pass = 3 /\ thread' \in [Loader -> At]
  BY <1>1, Zenon DEF Looks, Alone
<1>5. ModelsTypeOK' /\ CacheInv'
  BY <1>1, <1>3, <1>4, Zenon DEF ModelsInv, ModelsTypeOK, CacheInv, CacheBounded
<1>6. \A u \in Loader : CallOK(thread[u])'
  <2>1. CallOK(thread[t])'   BY <1>2, <1>3, <1>4 DEF CallOK
  <2>2. \A u \in Loader : u # t => CallOK(thread[u])'   BY <1>4 DEF ModelsInv, CallOK
  <2> QED   BY <2>1, <2>2, Zenon
<1>7. \A n \in Model : inflight'[n] = IF n = m THEN e ELSE inflight[n]
  BY <1>1, <1>3, Zenon DEF ModelsTypeOK
<1>8. CASE inflight[m] = NoEntry
  <2>1. (\A n \in Model : inflight[n] # e) /\ (\A u \in Loader : thread[u].entry # e)
    BY <1>1, <1>8, Zenon DEF UnusedEntry
  <2>2. EntriesKept'
    <3>1. \A u \in Loader : thread'[u].entry = e => u = t   BY <1>4, <2>1, Zenon
    <3>2. \A u, v \in Loader :
            thread'[u].owner /\ thread'[v].owner /\ thread'[u].entry = thread'[v].entry => u = v
      BY <1>3, <1>4, <3>1 DEF EntriesKept
    <3>3. \A u, v \in Loader :
            thread'[u].entry # NoEntry /\ thread'[u].entry = thread'[v].entry => thread'[u].key = thread'[v].key
      BY <1>3, <1>4, <3>1 DEF EntriesKept
    <3>4. \A n \in Model, u \in Loader :
            inflight'[n] # NoEntry /\ inflight'[n] = thread'[u].entry => thread'[u].key = n
      BY <1>3, <1>4, <1>7, <2>1, <3>1 DEF EntriesKept
    <3> QED   BY <3>2, <3>3, <3>4, Zenon DEF EntriesKept
  <2>3. EntryIsOwned'
    <3>1. ASSUME NEW n \in Model, n # m, inflight'[n] # NoEntry
          PROVE  \E u \in Loader : /\ thread'[u].owner /\ thread'[u].entry = inflight'[n]
                                   /\ thread'[u].key = n
      <4>1. PICK u \in Loader : thread[u].owner /\ thread[u].entry = inflight[n] /\ thread[u].key = n
        BY <1>3, <1>7, <3>1, Zenon DEF EntryIsOwned
      <4>2. u # t   BY <1>3, <4>1, Zenon
      <4> QED   BY <1>4, <1>7, <3>1, <4>1, <4>2, Zenon
    <3>2. thread'[t].owner /\ thread'[t].entry = inflight'[m] /\ thread'[t].key = m
      BY <1>1, <1>4, <1>7, <1>8, Zenon
    <3> QED   BY <3>1, <3>2, Zenon DEF EntryIsOwned
  <2> QED   BY <1>5, <1>6, <2>2, <2>3, Zenon DEF ModelsInv
<1>9. CASE inflight[m] # NoEntry
  <2>1. inflight' = inflight /\ e = inflight[m]   BY <1>1, <1>3, <1>9, Zenon DEF ModelsTypeOK
  <2>2. EntryIsOwned'   BY <1>3, <1>4, <1>9, <2>1 DEF EntryIsOwned
  <2>3. ~thread'[t].owner   BY <1>4, <1>9, Zenon
  <2>4. \A u \in Loader : thread[u].entry = e => thread[u].key = m   BY <1>1, <1>3, <1>9, <2>1, Zenon DEF EntriesKept
  <2>5. \A n \in Model : inflight[n] = e => n = m
    <3>1. SUFFICES ASSUME NEW n \in Model, inflight[n] = e PROVE n = m   BY Zenon
    <3>2. PICK u \in Loader : thread[u].entry = e /\ thread[u].key = n   BY <1>2, <1>3, <3>1, Zenon DEF EntryIsOwned
    <3> QED   BY <2>4, <3>2, Zenon
  <2>6. EntriesKept'
    BY <1>2, <1>3, <1>4, <2>1, <2>3, <2>4, <2>5, SMTT(30) DEF EntriesKept
  <2> QED   BY <1>5, <1>6, <2>2, <2>6, Zenon DEF ModelsInv
<1> QED   BY <1>8, <1>9, Zenon

\* Load publishes its result and leaves the rest of the account as it is.
LEMMA LoadKeeps ==
  ASSUME ModelsInv, NEW t \in Loader, Load(t)
  PROVE  ModelsInv'
<1>0. ModelsTypeOK /\ CallOK(thread[t]) /\ thread[t].at = "load"   BY Zenon DEF ModelsInv, Load
<1>1. PICK s \in {"insert", "remove"} : Moves(t, s)   BY Zenon DEF Load
<1>2. Went(t, s, thread[t].pass) /\ thread[t].pass = 3 /\ thread[t].entry # NoEntry
  BY <1>0, <1>1, MovesWent, Zenon DEF CallOK
<1>3. CallOK(thread[t])'   BY <1>0, <1>2, Zenon DEF CallOK, Went
<1>4. CacheInv' /\ UNCHANGED inflight   BY Zenon DEF Load, ModelsInv, CacheInv, CacheBounded
<1>5. state' \in [Entries -> {"loading", "ok", "err"}]   BY <1>0, Zenon DEF Load, ModelsTypeOK
<1> QED   BY <1>2, <1>3, <1>4, <1>5, WalkKeeps, Zenon DEF Went

\* Whoever leaves removes the entry of its key, and so its own if it is there.
LEMMA LeavingKeeps ==
  ASSUME ModelsInv, NEW t \in Loader, RemoveEntry(t) \/ Insert(t)
  PROVE  ModelsInv'
<1> DEFINE m == thread[t].key
<1>1. /\ ModelsTypeOK /\ EntriesKept /\ EntryIsOwned /\ CallOK(thread[t]) /\ CacheInv
      /\ m \in Model \ Untrusted
  <2>1. thread[t].at \in {"remove", "insert"}   BY Zenon DEF RemoveEntry, Insert
  <2>2. thread[t].pass = 3   BY <2>1, Zenon DEF ModelsInv, CallOK
  <2> QED   BY <2>2 DEF ModelsInv, CallOK, ModelsTypeOK, At
<1>2. /\ CameBack(t) /\ UNCHANGED state /\ inflight' = [inflight EXCEPT ![m] = NoEntry]
  BY <1>1, ReturnsBack, Zenon DEF RemoveEntry, Insert
<1>3. /\ \A u \in Loader : u # t => thread'[u] = thread[u]
      /\ thread' \in [Loader -> At] /\ thread'[t].at = "idle" /\ thread'[t].pass = 1
      /\ thread'[t].entry = NoEntry /\ ~thread'[t].owner
  BY <1>2, IdleType, Zenon DEF CameBack, Alone
<1>4. \A n \in Model : inflight'[n] = IF n = m THEN NoEntry ELSE inflight[n]
  BY <1>1, <1>2, Zenon DEF ModelsTypeOK
<1>5. CacheInv'
  <2>1. CASE UNCHANGED cache   BY <1>1, <2>1, Zenon DEF CacheInv, CacheBounded
  <2>2. CASE m \in Range(cache) /\ cache' = Bumped(m)   BY <1>1, <2>2, BumpedCache, Zenon
  <2>3. CASE m \notin Range(cache) /\ cache' = Append(Evicted(cache), m)
    BY <1>1, <2>3, InsertedCache, Zenon
  <2> QED   BY <2>1, <2>2, <2>3, Zenon DEF RemoveEntry, Insert
<1>6. ModelsTypeOK'
  BY <1>1, <1>2, <1>3, <1>5, Zenon DEF ModelsTypeOK, CacheInv, IsLine
<1>7. \A u \in Loader : CallOK(thread[u])'
  <2>1. CallOK(thread[t])'   BY <1>3 DEF CallOK
  <2>2. \A u \in Loader : u # t => CallOK(thread[u])'   BY <1>3 DEF ModelsInv, CallOK
  <2> QED   BY <2>1, <2>2, Zenon
<1>8. EntriesKept'   BY <1>1, <1>3, <1>4 DEF EntriesKept
<1>9. EntryIsOwned'   BY <1>1, <1>3, <1>4 DEF EntryIsOwned
<1> QED   BY <1>5, <1>6, <1>7, <1>8, <1>9, Zenon DEF ModelsInv

\* Every step of every call keeps the inductive invariant.
LEMMA ModelsKeep == ModelsInv /\ [ModelsNext]_modelVars => ModelsInv'
<1> SUFFICES ASSUME ModelsInv, [ModelsNext]_modelVars PROVE ModelsInv'   BY Zenon
<1>1. CASE UNCHANGED modelVars
  BY <1>1 DEF modelVars, ModelsInv, ModelsTypeOK, CacheInv, CacheBounded, CallOK, EntriesKept, EntryIsOwned
<1> QED
  BY <1>1, LookupKeeps, JoinKeeps, LoadKeeps, LeavingKeeps, Zenon DEF ModelsNext, LoadStep

\* Initially the cache is empty and nobody loads.
LEMMA ModelsInvInit == ModelsInit => ModelsInv
<1> SUFFICES ASSUME ModelsInit PROVE ModelsInv   BY Zenon
<1> USE DEF ModelsInit
<1>1. cache \in Seq(Model) /\ IsInjective(cache) /\ Range(cache) = {} /\ Len(cache) = 0
  BY DEF IsInjective, Range
<1>2. ModelsTypeOK
  <2>1. inflight \in [Model -> {NoEntry} \cup Entries] /\ state \in [Entries -> {"loading", "ok", "err"}]
    BY Zenon
  <2>2. thread \in [Loader -> At]   BY IdleType, Zenon
  <2> QED   BY <1>1, <2>1, <2>2, Zenon DEF ModelsTypeOK
<1>3. CacheInv   BY <1>1, ModelCacheAssumption DEF CacheInv, CacheBounded, IsLine
<1>4. \A t \in Loader : thread[t] = Idle   BY Zenon
<1>5. \A t \in Loader : CallOK(thread[t])   BY <1>4, IdleType DEF CallOK
<1>6. EntriesKept   BY <1>4, IdleType, Zenon DEF EntriesKept
<1>7. EntryIsOwned   BY Zenon DEF EntryIsOwned
<1> QED   BY <1>2, <1>3, <1>5, <1>6, <1>7, Zenon DEF ModelsInv

\* Whatever fails and whatever is evicted.
THEOREM ModelsAreAccounted == ModelsSpec => []ModelsAccounted
<1>1. ModelsInv => ModelsAccounted   BY Zenon DEF ModelsInv, ModelsAccounted, CacheInv
<1> QED   BY <1>1, ModelsInvInit, ModelsKeep, PTL DEF ModelsSpec

-----------------------------------------------------------------------------
(* One load at a time. *)

\* The hypothesis of OneLoadAtATime.
NothingLost == ~CanFail /\ Cardinality(Model \ Untrusted) <= MaxSize

\* A call by what it may rely on while nothing fails and nothing is evicted.
OnceOK(c) ==
  /\ c.pass = 3 /\ c.key \notin Range(cache) => inflight[c.key] = c.entry
  /\ c.at \in {"wait", "load"} /\ state[c.entry] = "loading" => c.key \notin Range(cache)
  /\ c.at = "load" => c.owner /\ state[c.entry] = "loading"
  /\ c.at = "insert" => state[c.entry] = "ok"
  /\ c.at = "remove" => c.key \in Range(cache)

\* The inductive invariant under that hypothesis.
OnceInv == (\A e \in Entries : state[e] # "err") /\ \A t \in Loader : OnceOK(thread[t])

\* While there is room for every trusted model nothing is evicted.
LEMMA RoomForAll ==
  ASSUME CacheInv, NothingLost, NEW m \in Model \ Untrusted, m \notin Range(cache)
  PROVE  Evicted(cache) = cache
<1> DEFINE T == (Model \ Untrusted) \ {m}
<1>1. /\ IsFiniteSet(Model \ Untrusted) /\ IsFiniteSet(T)
      /\ Cardinality(T) = Cardinality(Model \ Untrusted) - 1
      /\ Cardinality(Model \ Untrusted) \in Nat
  BY ModelCacheAssumption, FS_Subset, FS_RemoveElement, FS_CardinalityType, Zenon
<1>2. cache \in Injection(1..Len(cache), T)
  <2>1. DOMAIN cache = 1..Len(cache) /\ \A n \in 1..Len(cache) : cache[n] \in Model
    BY DEF CacheInv, IsLine
  <2>2. \A n \in 1..Len(cache) : cache[n] \in Range(cache)   BY <2>1, Zenon DEF Range
  <2>3. \A n \in 1..Len(cache) : cache[n] \in T   BY <2>1, <2>2, Zenon DEF CacheInv
  <2>4. cache \in [1..Len(cache) -> T]   BY <2>1, <2>3 DEF CacheInv, IsLine
  <2> QED   BY <2>1, <2>4, Zenon DEF Injection, IsInjective, CacheInv, IsLine
<1>3. Cardinality(1..Len(cache)) <= Cardinality(T)   BY <1>1, <1>2, FS_Injection, Zenon
<1>4. Len(cache) \in Nat   BY DEF CacheInv, IsLine
<1>5. Cardinality(1..Len(cache)) = Len(cache)
  <2> DEFINE n == Len(cache)
  <2>1. n \in Nat   BY <1>4, Zenon
  <2> HIDE DEF n
  <2>2. Cardinality(1..n) = n   BY <2>1, FS_Interval
  <2> QED   BY <2>2, Zenon DEF n
<1>6. Len(cache) < MaxSize   BY <1>1, <1>3, <1>4, <1>5, ModelCacheAssumption DEF NothingLost
<1> QED   BY <1>6, Zenon DEF Evicted

\* Every step keeps what a call relies on.
LEMMA OnceStep ==
  ASSUME ModelsInv, OnceInv, NothingLost, ModelsNext
  PROVE  OnceInv'
<1>0. ModelsTypeOK /\ CacheInv /\ EntriesKept /\ \A t \in Loader : CallOK(thread[t]) /\ OnceOK(thread[t])
  BY Zenon DEF ModelsInv, OnceInv
<1>1. ASSUME NEW t \in Loader, Alone(t), Range(cache') = Range(cache), UNCHANGED <<inflight, state>>,
             OnceOK(thread[t])'
      PROVE  OnceInv'
  BY <1>0, <1>1, SMTT(30) DEF OnceInv, OnceOK, Alone
<1>2. ASSUME NEW t \in Loader, GetOrLoad(t) \/ LooksUp(t) \/ Bump(t) PROVE OnceInv'
  <2> DEFINE c == thread[t]
  <2>0. CallOK(c) /\ OnceOK(c) /\ c \in At   BY <1>0, Zenon DEF ModelsTypeOK
  <2>1. UNCHANGED <<inflight, state>> /\ Range(cache') = Range(cache)
    BY <1>0, <1>2, BumpedCache, Zenon DEF GetOrLoad, LooksUp, Bump
  <2>2. ASSUME Missed(t), c.key \notin Range(cache) PROVE OnceInv'
    <3>1. CASE CameBack(t)
      BY <1>1, <2>1, <3>1, IdleType DEF CameBack, OnceOK
    <3>2. CASE Went(t, "contains", 2) \/ Went(t, "join", 2)
      BY <1>1, <2>1, <3>2 DEF Went, OnceOK
    <3>3. CASE c.pass = 3 /\ Went(t, "wait", 3)
      BY <1>1, <2>0, <2>1, <2>2, <3>3, Zenon DEF Went, OnceOK
    <3> QED   BY <1>0, <2>2, <3>1, <3>2, <3>3, MissedWent, Zenon
  <2>3. CASE GetOrLoad(t)
    <3>1. PICK m \in Model : thread' = [thread EXCEPT ![t] = LooksFor(m, 1, NoEntry, FALSE)]
      BY <2>3, Zenon DEF GetOrLoad
    <3>2. 1 \in 1..3   OBVIOUS
    <3>3. Looks(t, m, 1, NoEntry, FALSE)   BY <1>0, <3>1, <3>2, LooksForLooks, Zenon
    <3> QED   BY <1>1, <2>1, <3>3 DEF Looks, OnceOK
  <2>4. CASE LooksUp(t) /\ c.key \in Range(cache)
    <3>1. Went(t, "bump", c.pass)   BY <1>0, <2>4, MovesWent, Zenon DEF LooksUp
    <3> QED   BY <1>1, <2>0, <2>1, <3>1, Zenon DEF Went, OnceOK
  <2>5. CASE Bump(t) /\ c.key \in Range(cache)
    <3>1. CASE c.pass = 3
      <4>1. Went(t, "remove", c.pass)   BY <1>0, <2>5, <3>1, MovesWent, Zenon DEF Bump
      <4> QED   BY <1>1, <2>0, <2>1, <2>5, <4>1, Zenon DEF Went, OnceOK
    <3>2. CASE c.pass # 3
      <4>1. CameBack(t)   BY <1>0, <2>5, <3>2, ReturnsBack, Zenon DEF Bump
      <4> QED   BY <1>1, <2>1, <4>1, IdleType DEF CameBack, OnceOK
    <3> QED   BY <3>1, <3>2, SMTT(30)
  <2> QED   BY <1>2, <2>2, <2>3, <2>4, <2>5, Zenon DEF LooksUp, Bump
<1>3. ASSUME NEW t \in Loader, Wait(t) PROVE OnceInv'
  <2> DEFINE c == thread[t]
  <2>0. CallOK(c) /\ OnceOK(c) /\ c.at = "wait" /\ c.entry \in Entries /\ c.pass = 3
    BY <1>0, <1>3, Zenon DEF Wait, ModelsTypeOK, CallOK, At
  <2>1. UNCHANGED <<cache, inflight, state>>   BY <1>3, Zenon DEF Wait
  <2>2. state[c.entry] # "err"   BY <2>0, Zenon DEF OnceInv
  <2>3. CASE state[c.entry] = "ok" /\ Moves(t, "insert")
    <3>1. Went(t, "insert", c.pass)   BY <1>0, <2>3, MovesWent, Zenon
    <3> QED   BY <1>1, <2>0, <2>1, <2>3, <3>1, Zenon DEF Went, OnceOK
  <2>4. CASE state[c.entry] = "loading" /\ c.owner /\ Moves(t, "load")
    <3>1. Went(t, "load", c.pass)   BY <1>0, <2>4, MovesWent, Zenon
    <3> QED   BY <1>1, <2>0, <2>1, <2>4, <3>1, Zenon DEF Went, OnceOK
  <2>5. state[c.entry] \in {"loading", "ok", "err"}   BY <1>0, <2>0, Zenon DEF ModelsTypeOK
  <2> QED   BY <1>3, <2>2, <2>3, <2>4, <2>5, Zenon DEF Wait
<1>4. ASSUME NEW t \in Loader, Join(t) PROVE OnceInv'
  <2> DEFINE m == thread[t].key
  <2>1. PICK e \in Entries :
          /\ Looks(t, m, 3, e, inflight[m] = NoEntry)
          /\ thread[t].pass = 2 /\ m \in Model /\ UNCHANGED cache
          /\ inflight' = [inflight EXCEPT ![m] = e]
          /\ IF inflight[m] = NoEntry THEN UnusedEntry(e) /\ state' = [state EXCEPT ![e] = "loading"]
                                     ELSE e = inflight[m] /\ state' = state
    BY <1>4, JoinEntry, Zenon
  <2>2. \A n \in Model : inflight'[n] = IF n = m THEN e ELSE inflight[n]
    BY <1>0, <2>1, Zenon DEF ModelsTypeOK
  <2>3. /\ \A u \in Loader : u # t => thread'[u] = thread[u]
        /\ thread'[t].key = m /\ thread'[t].entry = e /\ thread'[t].at = "contains" /\ thread'[t].pass = 3
    BY <2>1, Zenon DEF Looks, Alone
  <2>4. OnceOK(thread[t])'   BY <2>1, <2>2, <2>3, Zenon DEF OnceOK
  <2>5. \A d \in Entries : state'[d] # "err"
    BY <1>0, <2>1, SMTT(30) DEF OnceInv, ModelsTypeOK
  <2>6. ASSUME NEW u \in Loader, u # t PROVE OnceOK(thread[u])'
    <3> DEFINE c == thread[u]
    <3>1. CallOK(c) /\ OnceOK(c) /\ c.key \in Model /\ thread'[u] = c
      BY <1>0, <2>3, <2>6, SMTT(30) DEF ModelsTypeOK, At
    <3>2. c.pass = 3 /\ c.key \notin Range(cache) => inflight'[c.key] = c.entry
      BY <2>1, <2>2, <3>1 DEF CallOK, OnceOK
    <3>3. c.pass = 3 => state'[c.entry] = state[c.entry]
      <4>1. c.pass = 3 => c.entry \in Entries   BY <1>0, <3>1, Zenon DEF ModelsTypeOK, CallOK, At
      <4>2. inflight[m] = NoEntry => c.entry # e   BY <2>1, Zenon DEF UnusedEntry
      <4> QED   BY <1>0, <2>1, <4>1, <4>2, Zenon DEF ModelsTypeOK
    <3> QED   BY <2>1, <3>1, <3>2, <3>3, Zenon DEF CallOK, OnceOK
  <2> QED   BY <2>4, <2>5, <2>6, Zenon DEF OnceInv
<1>5. ASSUME NEW t \in Loader, Load(t) PROVE OnceInv'
  <2> DEFINE d == thread[t]
  <2>0. CallOK(d) /\ OnceOK(d) /\ d.at = "load" /\ d.owner /\ d.entry \in Entries /\ d.pass = 3
    BY <1>0, <1>5, SMTT(30) DEF Load, CallOK, OnceOK, ModelsTypeOK, At
  <2>1. /\ state' = [state EXCEPT ![d.entry] = "ok"] /\ UNCHANGED <<cache, inflight>>
        /\ Went(t, "insert", 3)
    BY <1>0, <1>5, <2>0, MovesWent, Zenon DEF Load, NothingLost
  <2>2. \A e \in Entries : state'[e] = IF e = d.entry THEN "ok" ELSE state[e]
    BY <1>0, <2>1, Zenon DEF ModelsTypeOK
  <2>3. /\ \A u \in Loader : u # t => thread'[u] = thread[u]
        /\ thread'[t].at = "insert" /\ thread'[t].pass = 3 /\ thread'[t].key = d.key
        /\ thread'[t].entry = d.entry
    BY <2>1, Zenon DEF Went, Alone
  <2>4. OnceOK(thread[t])'   BY <2>0, <2>1, <2>2, <2>3, Zenon DEF OnceOK
  <2>5. \A e \in Entries : state'[e] # "err"   BY <2>2, SMTT(30) DEF OnceInv
  <2>6. ASSUME NEW u \in Loader, u # t PROVE OnceOK(thread[u])'
    <3> DEFINE c == thread[u]
    <3>1. /\ CallOK(c) /\ OnceOK(c) /\ thread'[u] = c
          /\ c.at \in {"wait", "load", "insert"} => c.entry \in Entries
      BY <1>0, <2>3, <2>6, SMTT(30) DEF ModelsTypeOK, CallOK, At
    <3>2. c.at = "load" => c.entry # d.entry
      BY <1>0, <2>0, <2>6, <3>1, Zenon DEF EntriesKept, OnceOK
    <3> QED   BY <2>1, <2>2, <3>1, <3>2 DEF OnceOK
  <2> QED   BY <2>4, <2>5, <2>6, Zenon DEF OnceInv
<1>6. ASSUME NEW t \in Loader, RemoveEntry(t) \/ Insert(t) PROVE OnceInv'
  <2> DEFINE d == thread[t]   m == d.key
  <2>0. /\ CallOK(d) /\ OnceOK(d) /\ d.at \in {"remove", "insert"} /\ d.pass = 3
        /\ m \in Model \ Untrusted
    BY <1>0, <1>6, SMTT(30) DEF RemoveEntry, Insert, CallOK, ModelsTypeOK, At
  <2>1. CameBack(t) /\ UNCHANGED state /\ inflight' = [inflight EXCEPT ![m] = NoEntry]
    BY <1>0, <1>6, ReturnsBack, Zenon DEF RemoveEntry, Insert
  <2>2. \A n \in Model : n # m => inflight'[n] = inflight[n]   BY <1>0, <2>1, Zenon DEF ModelsTypeOK
  <2>3. Range(cache') = Range(cache) \cup {m}
    <3>1. CASE RemoveEntry(t)   BY <2>0, <3>1, Zenon DEF RemoveEntry, OnceOK
    <3>2. CASE Insert(t) /\ m \in Range(cache)   BY <1>0, <3>2, BumpedCache, Zenon DEF Insert
    <3>3. CASE Insert(t) /\ m \notin Range(cache)
      <4>1. cache' = Append(cache, m)   BY <1>0, <2>0, <3>3, RoomForAll, Zenon DEF Insert
      <4> QED   BY <1>0, <2>0, <3>3, <4>1, AppendLine DEF CacheInv
    <3> QED   BY <1>6, <3>1, <3>2, <3>3, Zenon
  <2>4. OnceOK(thread[t])'   BY <2>1, IdleType DEF CameBack, OnceOK
  <2>5. m \notin Range(cache) => inflight[m] = d.entry /\ state[d.entry] = "ok"
    BY <2>0, SMTT(30) DEF OnceOK
  <2>6. ASSUME NEW u \in Loader, u # t PROVE OnceOK(thread[u])'
    <3> DEFINE c == thread[u]
    <3>1. CallOK(c) /\ OnceOK(c) /\ thread'[u] = c /\ c.key \in Model
      BY <1>0, <2>1, <2>6, Zenon DEF CameBack, Alone, ModelsTypeOK, At
    <3>2. c.at \in {"wait", "load"} /\ state[c.entry] = "loading" => c.key # m
      BY <2>5, <3>1, Zenon DEF CallOK, OnceOK
    <3> QED   BY <2>1, <2>2, <2>3, <3>1, <3>2, Zenon DEF OnceOK
  <2> QED   BY <2>1, <2>4, <2>6, Zenon DEF OnceInv
<1> QED   BY <1>2, <1>3, <1>4, <1>5, <1>6, Zenon DEF ModelsNext, LoadStep

\* Any number of threads, models and lookups that miss at once.
THEOREM ModelsLoadOnce == ModelsSpec => []OneLoadAtATime
<1>1. CASE ~NothingLost
  <2>1. OneLoadAtATime   BY <1>1, Zenon DEF OneLoadAtATime, NothingLost
  <2> QED   BY <2>1, PTL
<1>2. CASE NothingLost
  <2>1. ModelsInit => OnceInv
    <3> SUFFICES ASSUME ModelsInit PROVE OnceInv   BY Zenon
    <3>1. \A t \in Loader : thread[t] = Idle   BY Zenon DEF ModelsInit
    <3> QED   BY <3>1, IdleType DEF ModelsInit, OnceInv, OnceOK
  <2>2. ModelsInv /\ OnceInv /\ [ModelsNext]_modelVars => OnceInv'
    <3> SUFFICES ASSUME ModelsInv, OnceInv, [ModelsNext]_modelVars PROVE OnceInv'   BY Zenon
    <3>1. CASE UNCHANGED modelVars   BY <3>1, Zenon DEF modelVars, OnceInv, OnceOK
    <3> QED   BY <1>2, <3>1, OnceStep, Zenon
  <2>3. ModelsInv /\ OnceInv => OneLoadAtATime
    BY DEF ModelsInv, EntriesKept, CallOK, OnceInv, OnceOK, OneLoadAtATime
  <2> QED   BY <2>1, <2>2, <2>3, ModelsInvInit, ModelsKeep, PTL DEF ModelsSpec
<1> QED   BY <1>1, <1>2, Zenon
=============================================================================
