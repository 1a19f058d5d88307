------------------------------ MODULE LwwStore ------------------------------
(***************************************************************************)
(* What the ingestion path promises about the documents of a collection:   *)
(* a last-writer-wins register per document, ordered by the timestamp the  *)
(* client put on the write.  There are no tombstones: once a document has  *)
(* been deleted, a later write of any timestamp creates it again.          *)
(***************************************************************************)
EXTENDS Integers

CONSTANTS Doc,   \* document ids of one collection
          Ts     \* client timestamps, positive integers

Absent == 0      \* the timestamp of a document that is not in the collection

VARIABLES
  store,   \* store[d]: timestamp of the live document, or Absent
  acked,   \* acked[d]: greatest timestamp whose upsert was answered Ok, or Absent
  delAt    \* delAt[d]: greatest timestamp of a delete that removed d, or Absent

lwwVars == <<store, acked, delAt>>

Init ==
  /\ store = [d \in Doc |-> Absent]
  /\ acked = [d \in Doc |-> Absent]
  /\ delAt = [d \in Doc |-> Absent]

\* Some documents are overwritten, each by a strictly newer version, and some
\* upserts, applied now or stale, are answered.  An answer is only given for a
\* timestamp that the collection has reached.
Upsert ==
  /\ \A d \in Doc : store'[d] # store[d] => store'[d] \in Ts /\ store[d] < store'[d]
  /\ \A d \in Doc : acked'[d] # acked[d] => acked[d] < acked'[d] /\ acked'[d] <= store'[d]
  /\ store' \in [Doc -> Ts \cup {Absent}]
  /\ acked' \in [Doc -> Ts \cup {Absent}]
  /\ UNCHANGED delAt

\* A delete request of timestamp t removes a document that is strictly older.
Delete(d, t) ==
  /\ store[d] # Absent
  /\ store[d] < t
  /\ store' = [store EXCEPT ![d] = Absent]
  /\ delAt' = [delAt EXCEPT ![d] = IF delAt[d] < t THEN t ELSE delAt[d]]
  /\ UNCHANGED acked

Next == Upsert \/ \E d \in Doc, t \in Ts : Delete(d, t)

Spec == Init /\ [][Next]_lwwVars
=============================================================================
