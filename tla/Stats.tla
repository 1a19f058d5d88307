------------------------------- MODULE Stats -------------------------------
(***************************************************************************)
(* The statistics of a collection: its document count and, per tokenized   *)
(* field, the average document length that BM25 weighting uses.  Upserts   *)
(* hand a delta to StatsUpdateBatcher after they have written; the batcher *)
(* collects deltas, applies them to the stored statistics and writes the   *)
(* result with retries, or, in a cluster, publishes them.                  *)
(*                                                                         *)
(* Writing a batch is one step here: module Ingest shows that a call sees  *)
(* and changes its documents as if alone.  Averages are exact fractions.   *)
(***************************************************************************)
EXTENDS Integers, FiniteSetsExt, SequencesExt

CONSTANTS
  Docs,         \* document ids
  Fields,       \* field_vector names of the tokenized vectors
  Lens,         \* token lengths; 0 stands for a document without the field
  Callers,      \* upserting calls
  Cluster,      \* deltas are published instead of applied
  ChannelCap,   \* STATS_BATCH_CHANNEL
  BatchMax,     \* STATS_BATCH_MAX_JOBS
  MaxAttempts,  \* STATS_SET_STATS_MAX_ATTEMPTS
  MaxWrites,    \* bound on the batches written in a behaviour
  MaxDeletes,   \* bound on deletes
  MaxEmpties,   \* bound on empty_collection requests
  MaxFaults     \* bound on failing calls and restarts

\* What the constants satisfy.
StatsAssumption ==
  /\ Cluster \in BOOLEAN /\ Lens \subseteq Nat
  /\ ChannelCap \in Nat \ {0} /\ BatchMax \in Nat \ {0} /\ MaxAttempts \in Nat \ {0}
  /\ MaxWrites \in Nat /\ MaxDeletes \in Nat /\ MaxEmpties \in Nat /\ MaxFaults \in Nat

VARIABLES
  store,      \* store[d]: the token lengths of a stored document, or NoDoc
  stats,      \* the stored statistics
  chan,       \* deltas in the channel
  batch,      \* deltas in the hands of the batcher
  worker,     \* "collect" or "set"
  draft,      \* the statistics the batcher is about to write
  attempt,    \* the attempt it is at
  caller,     \* caller[p]: the delta a call still has to hand over, or NoDelta
  emptying,   \* empty_collection has removed the points, not yet the statistics
  bus,        \* deltas published in a cluster
  uncounted,  \* new documents whose delta was lost or never made
  updated,    \* some document was vectorized again
  bound       \* writes, deletes, empties and faults so far

vars == <<store, stats, chan, batch, worker, draft, attempt, caller, emptying, bus,
          uncounted, updated, bound>>

NoDoc == [f \in {} |-> 0]
NoDelta == [f \in {} |-> 0]
Text == [Fields -> Lens]
Live == {d \in Docs : store[d] # NoDoc}

\* CollectionStats; avgdl[f] is a fraction <<n, d>>.
Fresh == [doc_count |-> 0, avgdl |-> <<>>]

TypeOK ==
  /\ \A d \in Docs : store[d] \in Text \cup {NoDoc}
  /\ stats.doc_count \in Nat /\ DOMAIN stats.avgdl \subseteq Fields
  /\ Len(chan) <= ChannelCap /\ Len(batch) <= BatchMax
  /\ \A i \in DOMAIN chan : chan[i] # NoDelta /\ DOMAIN chan[i] \subseteq Fields
  /\ worker \in {"collect", "set"} /\ attempt \in 1..MaxAttempts
  /\ uncounted \in Nat /\ updated \in BOOLEAN /\ emptying \in BOOLEAN

Init ==
  /\ store = [d \in Docs |-> NoDoc]
  /\ stats = Fresh /\ draft = Fresh
  /\ chan = <<>> /\ batch = <<>> /\ bus = <<>>
  /\ worker = "collect" /\ attempt = 1
  /\ caller = [p \in Callers |-> NoDelta]
  /\ emptying = FALSE /\ uncounted = 0 /\ updated = FALSE
  /\ bound = [writes |-> 0, deletes |-> 0, empties |-> 0, faults |-> 0]

Spend(what, max) == bound[what] < max /\ bound' = [bound EXCEPT ![what] = @ + 1]

-----------------------------------------------------------------------------
(* The deltas. *)

\* token_lengths of a document that was read back: the field is skipped by the
\* (de)serialization, so it is always empty.
StoredLengths(d) == NoDoc

\* A TokenLengthUpdate per field; the documents of a batch share the counts.
\* The update map of one vectorized batch: text[d] are the new token lengths.
DeltaOf(text) ==
  LET batchDocs == DOMAIN text
      new == {d \in batchDocs : store[d] = NoDoc}
      has(f) == {d \in batchDocs : text[d][f] > 0}
  IN  [f \in {g \in Fields : has(g) # {}} |->
        [new_doc_count |-> Cardinality(new),
         new_sum       |-> MapThenSumSet(LAMBDA d : text[d][f], has(f) \cap new),
         update_sum    |-> MapThenSumSet(LAMBDA d : text[d][f], has(f) \ new),
         old_sum       |-> MapThenSumSet(LAMBDA d : StoredLengths(d)[f],
                            {d \in has(f) \ new : f \in DOMAIN StoredLengths(d)})]]

\* The update map of a delete.
RemovalOf(d) ==
  [f \in DOMAIN StoredLengths(d) |->
    [new_doc_count |-> -1, new_sum |-> -StoredLengths(d)[f], update_sum |-> 0, old_sum |-> 0]]

NewDocs(u) == IF u = NoDelta THEN 0 ELSE u[CHOOSE f \in DOMAIN u : TRUE].new_doc_count

\* Faulty form: the total is rebuilt with the new document count.
AvgdlOverNew(s, f, u, count) ==
  LET old == IF f \in DOMAIN s.avgdl THEN s.avgdl[f] ELSE <<0, 1>>
  IN  <<old[1] * count + (u.new_sum + u.update_sum - u.old_sum) * old[2], old[2] * count>>

\* (avgdl * doc_count - old + new + updated) / new document count.
Avgdl(s, f, u, count) ==
  LET old == IF f \in DOMAIN s.avgdl THEN s.avgdl[f] ELSE <<0, 1>>
  IN  <<old[1] * s.doc_count + (u.new_sum + u.update_sum - u.old_sum) * old[2],
        old[2] * count>>

\* Faulty form: a count of zero is divided by.
ApplyToZero(s, u) ==
  LET count == s.doc_count + NewDocs(u)
  IN  IF count < 0 THEN Fresh
      ELSE [doc_count |-> count,
            avgdl |-> [f \in DOMAIN s.avgdl \cup DOMAIN u |->
                        IF f \in DOMAIN u THEN Avgdl(s, f, u[f], count) ELSE s.avgdl[f]]]

\* apply_token_length_updates_to_stats
Apply(s, u) ==
  LET count == s.doc_count + NewDocs(u)
  IN  IF count <= 0 THEN Fresh
      ELSE [doc_count |-> count,
            avgdl |-> [f \in DOMAIN s.avgdl \cup DOMAIN u |->
                        IF f \in DOMAIN u THEN Avgdl(s, f, u[f], count) ELSE s.avgdl[f]]]

ApplyAll(s, us) == FoldLeft(Apply, s, us)

-----------------------------------------------------------------------------
(* Upserts, deletes and empty_collection. *)

NewIn(text) == Cardinality({d \in DOMAIN text : store[d] = NoDoc})

\* A batch that needs vectorization has been written; unless the map is empty,
\* the call goes on to hand it over.
AddDocuments(p) ==
  /\ caller[p] = NoDelta /\ Spend("writes", MaxWrites)
  /\ \E B \in SUBSET Docs \ {{}} : \E text \in [B -> Text] :
       /\ store' = [d \in Docs |-> IF d \in B THEN text[d] ELSE store[d]]
       /\ caller' = [caller EXCEPT ![p] = DeltaOf(text)]
       /\ uncounted' = uncounted + (IF DeltaOf(text) = NoDelta THEN NewIn(text) ELSE 0)
       /\ updated' = (updated \/ NewIn(text) < Cardinality(B))
  /\ UNCHANGED <<stats, chan, batch, worker, draft, attempt, emptying, bus>>

\* The last attempt is answered with an error although it took effect: no delta.
AddDocumentsFails(p) ==
  /\ caller[p] = NoDelta /\ bound.writes < MaxWrites /\ bound.faults < MaxFaults
  /\ bound' = [bound EXCEPT !.writes = @ + 1, !.faults = @ + 1]
  /\ \E B \in SUBSET Docs \ {{}} : \E text \in [B -> Text] :
       /\ store' = [d \in Docs |-> IF d \in B THEN text[d] ELSE store[d]]
       /\ uncounted' = uncounted + NewIn(text)
       /\ updated' = (updated \/ NewIn(text) < Cardinality(B))
  /\ UNCHANGED <<stats, chan, batch, worker, draft, attempt, caller, emptying, bus>>

\* enqueue waits for room in the channel.
Enqueue(p) ==
  /\ caller[p] # NoDelta /\ Len(chan) < ChannelCap
  /\ chan' = Append(chan, caller[p])
  /\ caller' = [caller EXCEPT ![p] = NoDelta]
  /\ UNCHANGED <<store, stats, batch, worker, draft, attempt, emptying, bus, uncounted,
                 updated, bound>>

DeleteDocument(p) ==
  /\ caller[p] = NoDelta /\ Spend("deletes", MaxDeletes)
  /\ \E d \in Live :
       /\ caller' = [caller EXCEPT ![p] = RemovalOf(d)]
       /\ store' = [store EXCEPT ![d] = NoDoc]
  /\ UNCHANGED <<stats, chan, batch, worker, draft, attempt, emptying, bus, uncounted, updated>>

\* empty_collection removes the points and then the statistics, without the lock
\* the batcher takes.
EmptyCollection ==
  /\ ~emptying /\ Spend("empties", MaxEmpties)
  /\ store' = [d \in Docs |-> NoDoc] /\ emptying' = TRUE
  /\ UNCHANGED <<stats, chan, batch, worker, draft, attempt, caller, bus, uncounted, updated>>

DropStats ==
  /\ emptying /\ emptying' = FALSE
  /\ stats' = Fresh
  /\ UNCHANGED <<store, chan, batch, worker, draft, attempt, caller, bus, uncounted, updated,
                 bound>>

-----------------------------------------------------------------------------
(* The batcher. *)

\* collect_stats_batch: up to BatchMax jobs, or what has come when its time is up.
Collect ==
  /\ worker = "collect" /\ chan # <<>> /\ Len(batch) < BatchMax
  /\ batch' = Append(batch, Head(chan)) /\ chan' = Tail(chan)
  /\ UNCHANGED <<store, stats, worker, draft, attempt, caller, emptying, bus, uncounted,
                 updated, bound>>

\* Standalone: the statistics are read and the deltas applied in their order.
Persist ==
  /\ ~Cluster /\ worker = "collect" /\ batch # <<>>
  /\ draft' = ApplyAll(stats, batch)
  /\ worker' = "set" /\ attempt' = 1
  /\ UNCHANGED <<store, stats, chan, batch, caller, emptying, bus, uncounted, updated, bound>>

Lost == FoldLeft(LAMBDA n, u : n + NewDocs(u), 0, batch)

SetStats ==
  /\ worker = "set"
  /\ stats' = draft /\ batch' = <<>> /\ worker' = "collect"
  /\ UNCHANGED <<store, chan, draft, attempt, caller, emptying, bus, uncounted, updated, bound>>

\* Faulty form: a retry starts from the statistics as they are now.
SetFailsRereading ==
  /\ worker = "set" /\ Spend("faults", MaxFaults)
  /\ \E took \in BOOLEAN :
       /\ stats' = IF took THEN draft ELSE stats
       /\ draft' = ApplyAll(stats', batch)
  /\ attempt' = 1
  /\ UNCHANGED <<store, chan, batch, worker, caller, emptying, bus, uncounted, updated>>

\* set_collection_stats reports an error, having written or not.  Retries write
\* the same draft; after the last one the deltas are dropped.
SetFails ==
  /\ worker = "set" /\ Spend("faults", MaxFaults)
  /\ \E took \in BOOLEAN :
       /\ stats' = IF took THEN draft ELSE stats
       /\ IF attempt < MaxAttempts
          THEN attempt' = attempt + 1 /\ UNCHANGED <<batch, worker, uncounted>>
          ELSE /\ batch' = <<>> /\ worker' = "collect" /\ attempt' = 1
               /\ uncounted' = uncounted + (IF stats' = draft THEN 0 ELSE Lost)
  /\ UNCHANGED <<store, chan, draft, caller, emptying, bus, updated>>

\* Cluster: one message per delta, in order; one that cannot be sent is logged.
Publish ==
  /\ Cluster /\ worker = "collect" /\ batch # <<>>
  /\ \/ bus' = Append(bus, Head(batch)) /\ UNCHANGED <<uncounted, bound>>
     \/ /\ Spend("faults", MaxFaults) /\ UNCHANGED bus
        /\ uncounted' = uncounted + NewDocs(Head(batch))
  /\ batch' = Tail(batch)
  /\ UNCHANGED <<store, stats, chan, worker, draft, attempt, caller, emptying, updated>>

\* The process dies: deltas that were not persisted are gone.
Crash ==
  /\ Spend("faults", MaxFaults)
  /\ uncounted' = uncounted + (IF worker = "set" /\ stats = draft THEN 0 ELSE Lost)
                    + FoldLeft(LAMBDA n, u : n + NewDocs(u), 0, chan)
                    + MapThenSumSet(LAMBDA p : NewDocs(caller[p]), Callers)
  /\ chan' = <<>> /\ batch' = <<>> /\ worker' = "collect" /\ attempt' = 1
  /\ caller' = [p \in Callers |-> NoDelta]
  /\ UNCHANGED <<store, stats, draft, emptying, bus, updated>>

Quiet ==
  /\ chan = <<>> /\ batch = <<>> /\ ~emptying
  /\ \A p \in Callers : caller[p] = NoDelta

Rest == Quiet /\ UNCHANGED vars

Next ==
  \/ \E p \in Callers : AddDocuments(p) \/ AddDocumentsFails(p) \/ Enqueue(p) \/ DeleteDocument(p)
  \/ EmptyCollection \/ DropStats
  \/ Collect \/ Persist \/ SetStats \/ SetFails \/ Publish
  \/ Crash \/ Rest

Spec == Init /\ [][Next]_vars

-----------------------------------------------------------------------------
(* Properties. *)

Counted == IF Cluster THEN FoldLeft(LAMBDA n, u : n + NewDocs(u), 0, bus) ELSE stats.doc_count
Untouched == bound.deletes = 0 /\ bound.empties = 0

\* Without deletes, every document is counted exactly once, or is one of those
\* whose delta was lost to a failing call, a failing flush or a restart: the
\* retries of the batcher count nothing twice, and batches mixing new and known
\* documents count the new ones only.
CountedOnce == Untouched /\ Quiet => Counted + uncounted = Cardinality(Live)

\* If every document has every field, was vectorized once and was counted, the
\* stored average is the mean length of the stored documents, in whatever
\* batches they came.
AverageExact ==
  Untouched /\ Quiet /\ ~updated /\ ~Cluster /\ uncounted = 0 =>
    \A f \in Fields :
      Live # {} /\ (\A d \in Live : store[d][f] > 0)
        => /\ f \in DOMAIN stats.avgdl
           /\ stats.avgdl[f][1] * Cardinality(Live)
                = stats.avgdl[f][2] * MapThenSumSet(LAMBDA d : store[d][f], Live)

\* An average is never computed over zero documents, although updates may meet
\* statistics that empty_collection has just removed.
NoAverageOfNothing ==
  \A s \in {stats, draft} :
    /\ s.doc_count = 0 => DOMAIN s.avgdl = {}
    /\ \A f \in DOMAIN s.avgdl : s.avgdl[f][2] > 0 /\ s.avgdl[f][1] >= 0
=============================================================================
