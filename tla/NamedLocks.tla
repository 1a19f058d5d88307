----------------------------- MODULE NamedLocks -----------------------------
(***************************************************************************)
(* The registry of mutexes by name: NamedLocks in encoder.rs and           *)
(* LocalLocks in lock_client.rs, which are the same code.  A mutex is      *)
(* created when its name is first asked for and swept from the map when    *)
(* nobody else refers to it; the danger is that two tasks meet under one   *)
(* name with two different mutexes.                                        *)
(***************************************************************************)
EXTENDS Lines

CONSTANTS
  Key,     \* names
  Proc,    \* tasks
  Inst,    \* mutexes that may exist at a time
  None     \* no mutex, no name, no owner

ASSUME NamedLocksAssumption == None \notin Key \cup Proc \cup Inst

VARIABLES
  map,    \* map[k]: the mutex registered under k, or None
  key,    \* key[p]: the name p has asked for, or None
  arc,    \* arc[p]: the mutex p refers to, or None
  line    \* line[i]: who holds (first) and who waits for mutex i, in order

lockVars == <<map, key, arc, line>>

LocksInit ==
  /\ map = [k \in Key |-> None]
  /\ key = [p \in Proc |-> None]
  /\ arc = [p \in Proc |-> None]
  /\ line = [i \in Inst |-> << >>]

Referrers(i) == {p \in Proc : arc[p] = i}
UnusedMutex(i) == Referrers(i) = {} /\ \A k \in Key : map[k] # i

\* Faulty form: a new mutex is registered every time.
LookupInserts(p, k) ==
  /\ arc[p] = None
  /\ \E i \in Inst :
       /\ UnusedMutex(i)
       /\ map' = [map EXCEPT ![k] = i]
       /\ arc' = [arc EXCEPT ![p] = i]
       /\ key' = [key EXCEPT ![p] = k]
  /\ UNCHANGED line

\* Under the lock of the map: find the mutex of k, or register a new one, and
\* clone the reference.
Lookup(p, k) ==
  /\ arc[p] = None
  /\ \E i \in Inst :
       /\ IF map[k] = None THEN UnusedMutex(i) ELSE map[k] = i
       /\ map' = [map EXCEPT ![k] = i]
       /\ arc' = [arc EXCEPT ![p] = i]
       /\ key' = [key EXCEPT ![p] = k]
  /\ UNCHANGED line

InLine(p) == arc[p] # None /\ p \in Range(line[arc[p]])
Holds(p) == arc[p] # None /\ line[arc[p]] # << >> /\ Head(line[arc[p]]) = p

\* Faulty form: the newcomer goes first among those who wait.
LockOwnedBarging(p) ==
  /\ arc[p] # None /\ ~InLine(p)
  /\ line' = [line EXCEPT ![arc[p]] = IF @ = << >> THEN <<p>> ELSE <<Head(@), p>> \o Tail(@)]
  /\ UNCHANGED <<map, key, arc>>

\* Mutex::lock_owned: join the line.  The mutex is fair: whoever is first has
\* the guard.
LockOwned(p) ==
  /\ arc[p] # None /\ ~InLine(p)
  /\ line' = [line EXCEPT ![arc[p]] = Append(@, p)]
  /\ UNCHANGED <<map, key, arc>>

\* The guard is dropped, or the future that waits for it: p leaves the line and
\* gives up its reference.
Leave(p) ==
  /\ arc[p] # None
  /\ line' = [line EXCEPT ![arc[p]] = Without(@, p)]
  /\ arc' = [arc EXCEPT ![p] = None]
  /\ key' = [key EXCEPT ![p] = None]
  /\ UNCHANGED map

DropGuard(p) == Holds(p) /\ Leave(p)
Cancel(p) == ~Holds(p) /\ Leave(p)

\* Faulty form: only mutexes that somebody holds are kept.
SweepUnlocked ==
  /\ map' = [k \in Key |-> IF map[k] # None /\ line[map[k]] # << >> THEN map[k] ELSE None]
  /\ UNCHANGED <<key, arc, line>>

\* The cleanup task, under the lock of the map: keep the mutexes that somebody
\* besides the map refers to (Arc::strong_count > 1).
Sweep ==
  /\ map' = [k \in Key |-> IF map[k] # None /\ Referrers(map[k]) # {} THEN map[k] ELSE None]
  /\ UNCHANGED <<key, arc, line>>

LocksNext ==
  \/ \E p \in Proc, k \in Key : Lookup(p, k)
  \/ \E p \in Proc : LockOwned(p) \/ DropGuard(p) \/ Cancel(p)
  \/ Sweep

LocksSpec == LocksInit /\ [][LocksNext]_lockVars

-----------------------------------------------------------------------------
(* Properties. *)

\* The map and the references have their types.
LocksTypeOK ==
  /\ map \in [Key -> Inst \cup {None}]
  /\ key \in [Proc -> Key \cup {None}]
  /\ arc \in [Proc -> Inst \cup {None}]

\* Two tasks that hold the lock of one name are the same task, whatever the
\* cleanup task has swept between their lookups.
MutualExclusion ==
  \A p, q \in Proc : Holds(p) /\ Holds(q) /\ key[p] = key[q] => p = q

\* Everybody who refers to a mutex finds it under the name they asked for, and
\* two names never share one: the sweep forgets no mutex that is in use, not
\* even between the lookup and the lock.
Registered ==
  /\ \A p \in Proc : arc[p] # None => key[p] # None /\ map[key[p]] = arc[p]
  /\ \A k, l \in Key : map[k] # None /\ map[k] = map[l] => k = l

\* Who waits for the lock of a name, from its lookup on, and who has it.
Asked == [k \in Key |-> {p \in Proc : key[p] = k /\ ~Holds(p)}]
Inside == [k \in Key |-> {p \in Proc : key[p] = k /\ Holds(p)}]

\* The registry is the lock that LockBackend promises for one process.
Lock == INSTANCE DocLock WITH Name <- Key, Task <- Proc, asked <- Asked, inside <- Inside
ImplementsLock == Lock!Spec

\* Whoever has asked for a lock gets it or has gone: the line is served in
\* order, so newcomers and sweeps starve nobody.
EveryWaiterEnters == \A p \in Proc : arc[p] # None ~> (Holds(p) \/ arc[p] = None)

=============================================================================
