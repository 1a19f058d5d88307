----------------------------- MODULE ModelCache -----------------------------
(***************************************************************************)
(* The caches of loaded models (dense and sparse have the same code).  A   *)
(* thread that misses joins the load in flight of its model or starts one; *)
(* the loader publishes its result in the in-flight entry, and everybody   *)
(* who got the model inserts it.  The cache is bounded and drops the model *)
(* used least recently.                                                    *)
(*                                                                         *)
(* An entry is an Arc: an entry nobody refers to any more is free again.   *)
(***************************************************************************)
EXTENDS Lines, FiniteSets

CONSTANTS
  Loader,     \* threads of the vectorizing pools
  Model,      \* (model, revision) keys
  Untrusted,  \* the models of organizations that are not trusted
  MaxSize,    \* AMGIX_MODEL_CACHE_SIZE
  CanFail     \* whether loading a model may fail

ASSUME ModelCacheAssumption ==
  /\ MaxSize \in Nat /\ CanFail \in BOOLEAN /\ Untrusted \subseteq Model
  /\ Model # {} /\ IsFiniteSet(Model) /\ IsFiniteSet(Loader)

VARIABLES
  cache,      \* the cached models, the one used least recently first
  inflight,   \* inflight[m]: the entry of model m in the map, or NoEntry
  state,      \* state[e]: the state of an entry
  thread      \* thread[t]: where a call of get_or_load is

modelVars == <<cache, inflight, state, thread>>

NoEntry == 0
Entries == 1..(Cardinality(Loader) + Cardinality(Model))

\* pass counts the lookups of the call: get_or_load makes one, load_with_inflight
\* one before and one after it has an entry.
At == [at : {"idle", "contains", "bump", "join", "wait", "load", "insert", "remove"},
       key : Model, pass : 1..3, entry : {NoEntry} \cup Entries, owner : BOOLEAN]

ModelsTypeOK ==
  /\ cache \in Seq(Model) /\ IsInjective(cache)
  /\ inflight \in [Model -> {NoEntry} \cup Entries]
  /\ state \in [Entries -> {"loading", "ok", "err"}]
  /\ thread \in [Loader -> At]

Idle == [at |-> "idle", key |-> CHOOSE m \in Model : TRUE, pass |-> 1,
         entry |-> NoEntry, owner |-> FALSE]

ModelsInit ==
  /\ cache = <<>> /\ inflight = [m \in Model |-> NoEntry]
  /\ state = [e \in Entries |-> "loading"]
  /\ thread = [t \in Loader |-> Idle]

\* A call about to make its p-th lookup of m.
LooksFor(m, p, e, o) ==
  [at |-> "contains", key |-> m, pass |-> p, entry |-> e, owner |-> o]

Moves(t, s) == thread' = [thread EXCEPT ![t].at = s]
Returns(t) == thread' = [thread EXCEPT ![t] = Idle]

-----------------------------------------------------------------------------
(* The cache. *)

\* bump_cache_hit: a model that is used becomes the most recent one.
Bumped(m) == Append(Without(cache, m), m)

\* Faulty form: the cache is full only when it has more models than it may.
EvictedLate(c) ==
  IF Len(c) <= MaxSize THEN c ELSE SubSeq(c, Len(c) - MaxSize + 1, Len(c))

\* evict_lru_if_full: room for one more; a cache of size 0 is emptied.
Evicted(c) ==
  IF Len(c) < MaxSize THEN c
  ELSE IF MaxSize = 0 THEN <<>> ELSE SubSeq(c, Len(c) - MaxSize + 2, Len(c))

-----------------------------------------------------------------------------
(* get_or_load and load_with_inflight. *)

GetOrLoad(t) ==
  /\ thread[t].at = "idle"
  /\ \E m \in Model : thread' = [thread EXCEPT ![t] = LooksFor(m, 1, NoEntry, FALSE)]
  /\ UNCHANGED <<cache, inflight, state>>

\* What follows a lookup that missed: the check of the organization, the second
\* lookup and the entry, or waiting for the load.
Missed(t) ==
  LET c == thread[t] IN
  \/ c.pass = 1 /\ c.key \in Untrusted /\ Returns(t)
  \/ /\ c.pass = 1 /\ c.key \notin Untrusted
     /\ thread' = [thread EXCEPT ![t] = LooksFor(c.key, 2, NoEntry, FALSE)]
  \/ c.pass = 2 /\ Moves(t, "join")
  \/ c.pass = 3 /\ Moves(t, "wait")

\* cache_hit asks under the read lock first.
LooksUp(t) ==
  /\ thread[t].at = "contains"
  /\ IF thread[t].key \in Range(cache) THEN Moves(t, "bump") ELSE Missed(t)
  /\ UNCHANGED <<cache, inflight, state>>

\* Faulty form: the call of the last lookup leaves its entry behind.
BumpLeaving(t) ==
  /\ thread[t].at = "bump"
  /\ IF thread[t].key \in Range(cache)
     THEN Returns(t) /\ cache' = Bumped(thread[t].key)
     ELSE Missed(t) /\ UNCHANGED cache
  /\ UNCHANGED <<inflight, state>>

\* Under the write lock the model may be gone again.  The call of the last
\* lookup removes the entry before it returns.
Bump(t) ==
  /\ thread[t].at = "bump"
  /\ IF thread[t].key \in Range(cache)
     THEN /\ IF thread[t].pass = 3 THEN Moves(t, "remove") ELSE Returns(t)
          /\ cache' = Bumped(thread[t].key)
     ELSE Missed(t) /\ UNCHANGED cache
  /\ UNCHANGED <<inflight, state>>

\* No map entry and no call refers to e.
UnusedEntry(e) ==
  /\ \A m \in Model : inflight[m] # e
  /\ \A t \in Loader : thread[t].entry # e

\* Faulty form: every call makes an entry of its own.
JoinAlone(t) ==
  /\ thread[t].at = "join"
  /\ LET e == CHOOSE e \in Entries : UnusedEntry(e) IN
     /\ inflight' = [inflight EXCEPT ![thread[t].key] = e]
     /\ state' = [state EXCEPT ![e] = "loading"]
     /\ thread' = [thread EXCEPT ![t] = LooksFor(@.key, 3, e, TRUE)]
  /\ UNCHANGED cache

\* The entry of the map, or a new one this call owns.
Join(t) ==
  /\ thread[t].at = "join"
  /\ LET m == thread[t].key
         e == IF inflight[m] # NoEntry THEN inflight[m]
              ELSE CHOOSE n \in Entries : UnusedEntry(n) IN
     /\ inflight' = [inflight EXCEPT ![m] = e]
     /\ state' = IF inflight[m] = NoEntry THEN [state EXCEPT ![e] = "loading"] ELSE state
     /\ thread' = [thread EXCEPT ![t] = LooksFor(m, 3, e, inflight[m] = NoEntry)]
  /\ UNCHANGED cache

\* wait_for_inflight_load: the owner loads, the others wait until the entry is
\* ready.
Wait(t) ==
  /\ thread[t].at = "wait"
  /\ CASE state[thread[t].entry] = "ok"  -> Moves(t, "insert")
       [] state[thread[t].entry] = "err" -> Moves(t, "remove")
       [] OTHER -> thread[t].owner /\ Moves(t, "load")
  /\ UNCHANGED <<cache, inflight, state>>

\* Faulty form: the loader goes on without publishing its result.
LoadQuietly(t) ==
  /\ thread[t].at = "load" /\ Moves(t, "insert")
  /\ UNCHANGED <<cache, inflight, state>>

\* The result is published to whoever waits.
Load(t) ==
  /\ thread[t].at = "load"
  /\ \/ /\ state' = [state EXCEPT ![thread[t].entry] = "ok"] /\ Moves(t, "insert")
     \/ /\ CanFail /\ state' = [state EXCEPT ![thread[t].entry] = "err"] /\ Moves(t, "remove")
  /\ UNCHANGED <<cache, inflight>>

\* After a hit of the last lookup, or a load that failed: the entry of the key
\* is removed, whosever it is.
RemoveEntry(t) ==
  /\ thread[t].at = "remove" /\ Returns(t)
  /\ inflight' = [inflight EXCEPT ![thread[t].key] = NoEntry]
  /\ UNCHANGED <<cache, state>>

\* insert_loaded, under the write lock of the cache.
Insert(t) ==
  LET m == thread[t].key IN
  /\ thread[t].at = "insert" /\ Returns(t)
  /\ cache' = IF m \in Range(cache) THEN Bumped(m) ELSE Append(Evicted(cache), m)
  /\ inflight' = [inflight EXCEPT ![m] = NoEntry]
  /\ UNCHANGED state

LoadStep(t) ==
  \/ LooksUp(t) \/ Bump(t) \/ Join(t) \/ Wait(t) \/ Load(t) \/ RemoveEntry(t) \/ Insert(t)

ModelsNext == \E t \in Loader : GetOrLoad(t) \/ LoadStep(t)

ModelsSpec == ModelsInit /\ [][ModelsNext]_modelVars

-----------------------------------------------------------------------------
(* Properties. *)

\* evict_lru_if_full keeps the cache within its size; a size of 0 still lets in
\* the model that is being used.
CacheBounded == Len(cache) <= MaxSize \/ Len(cache) = 1

\* Every entry in the in-flight map has a call that owns it and has not
\* returned: a call that joins an entry never joins a load that was given up.
\* Every way out of load_with_inflight removes the key, and removing another
\* call's entry is no harm to that.
EntryIsOwned ==
  \A m \in Model : inflight[m] # NoEntry =>
    \E t \in Loader : /\ thread[t].owner /\ thread[t].entry = inflight[m]
                      /\ thread[t].key = m

\* The three of them, as far as they hold whatever fails and is evicted.
ModelsAccounted == ModelsTypeOK /\ CacheBounded /\ EntryIsOwned

\* Where no load fails and no model has to be evicted, one model is loaded by
\* one thread at a time, whatever the calls that miss at the same time: the
\* point of the in-flight map.
OneLoadAtATime ==
  ~CanFail /\ Cardinality(Model \ Untrusted) <= MaxSize =>
  \A t, u \in Loader :
    (t # u /\ thread[t].at = "load" /\ thread[u].at = "load") => thread[t].key # thread[u].key

\* Every call of get_or_load returns; no waiter waits for a load nobody makes.
EveryGetReturns ==
  \A t \in Loader : (thread[t].at # "idle") ~> (thread[t].at = "idle")
=============================================================================
