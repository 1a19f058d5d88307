------------------------------ MODULE DocLock ------------------------------
(***************************************************************************)
(* What LockBackend promises: per name, one task at a time is inside, and  *)
(* it is one that has asked for this name and not withdrawn.  NamedLocks   *)
(* (one process) and LockClient (a cluster) implement it.                  *)
(***************************************************************************)
CONSTANTS Name,   \* lock names
          Task    \* who may hold a lock

VARIABLES asked,  \* asked[k]: the tasks that want the lock of k
          inside  \* inside[k]: the tasks that have the guard of k

vars == <<asked, inside>>

Init == asked = [k \in Name |-> {}] /\ inside = [k \in Name |-> {}]

Ask(k, t) ==
  /\ t \notin asked[k] \cup inside[k]
  /\ asked' = [asked EXCEPT ![k] = @ \cup {t}] /\ UNCHANGED inside

\* The guard goes to somebody who asked: it is free, or its holder drops it in
\* the same step.
Enter(k, t) ==
  /\ t \in asked[k]
  /\ asked' = [asked EXCEPT ![k] = @ \ {t}]
  /\ inside' = [inside EXCEPT ![k] = {t}]

\* Guards are dropped and requests withdrawn; a process that dies does it for
\* all of its tasks at once.
Go(S) ==
  /\ asked' = [k \in Name |-> asked[k] \ S]
  /\ inside' = [k \in Name |-> inside[k] \ S]

Next ==
  \/ \E k \in Name, t \in Task : Ask(k, t) \/ (inside[k] = {} /\ Enter(k, t))
  \/ \E k \in Name, t, u \in Task : inside[k] = {u} /\ Enter(k, t)
  \/ \E S \in SUBSET Task : Go(S)

Spec == Init /\ [][Next]_vars
=============================================================================
