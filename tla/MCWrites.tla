------------------------------ MODULE MCWrites ------------------------------
(***************************************************************************)
(* Model checking of the parts a write goes through: the configuration of  *)
(* its collection, the worker that forms micro-batches, the vectors and    *)
(* the statistics.  Each is a module of its own, without state in common,  *)
(* so a behaviour shows one of them in one case: `part' is the name of the *)
(* case, and the other parts rest in an initial state.                     *)
(***************************************************************************)
EXTENDS Collections, Ingress

VARIABLES
  part,
  lengths, stats, chan, batch, worker, draft, attempt, caller, emptying, bus, uncounted,
  updated, bound,
  storeContent, stored, vectors, texts

statistics == <<lengths, stats, chan, batch, worker, draft, attempt, caller, emptying, bus,
                uncounted, updated, bound>>
embeddings == <<storeContent, stored, vectors, texts>>
suite == <<part, catalogVars, statistics, ingressVars, embeddings>>

-----------------------------------------------------------------------------
(* Collections: two administrators; rows of a collection that is deleted   *)
(* and created again; a cache at its limit; two nodes of a cluster.        *)
Catalogs ==
  {[name |-> "admin", names |-> {"c1"}, nodes |-> {"n1"}, cluster |-> FALSE,
    admins |-> {"a1", "a2"}, callers |-> {"p1"}, calls |-> 1, rows |-> 1, faults |-> 1],
   [name |-> "ticket", names |-> {"c1"}, nodes |-> {"n1"}, cluster |-> FALSE,
    admins |-> {"a1"}, callers |-> {"p1", "p2"}, calls |-> 3, rows |-> 2, faults |-> 0],
   [name |-> "cache", names |-> {"c1", "c2"}, nodes |-> {"n1"}, cluster |-> FALSE,
    admins |-> {"a1"}, callers |-> {"p1"}, calls |-> 2, rows |-> 1, faults |-> 0],
   [name |-> "cluster", names |-> {"c1"}, nodes |-> {"n1", "n2"}, cluster |-> TRUE,
    admins |-> {"a1"}, callers |-> {"p1"}, calls |-> 2, rows |-> 1, faults |-> 0]}

\* What of the constants a case uses.
Within(c) ==
  /\ cluster = c.cluster /\ calls <= c.calls /\ faults <= c.faults
  /\ \A a \in Admins : admin[a].at # "idle" =>
       a \in c.admins /\ admin[a].node \in c.nodes /\ admin[a].name \in c.names
  /\ \A p \in Procs : proc[p].at # "idle" =>
       p \in c.callers \cup {Poller} /\ proc[p].node \in c.nodes /\ proc[p].name \in c.names
  /\ Cardinality({r \in RowIds : rows[r].st # "free"})
       + Cardinality({p \in Procs : proc[p].at = "add"}) <= c.rows

(* Stats: retried flushes and restarts; deletes and an emptied collection; *)
(* deltas published in a cluster.                                          *)
Statistics ==
  {[name |-> "stats", fields |-> {"f"}, lens |-> {1, 2}, cluster |-> FALSE, writes |-> 3,
    removals |-> 0, faults |-> 2],
   [name |-> "emptied", fields |-> {"f"}, lens |-> {0, 1}, cluster |-> FALSE, writes |-> 2,
    removals |-> 1, faults |-> 1],
   [name |-> "published", fields |-> {"f", "g"}, lens |-> {0, 1}, cluster |-> TRUE, writes |-> 2,
    removals |-> 0, faults |-> 1]}

Statistic(c) == INSTANCE Stats WITH
  Docs <- {"d1", "d2"}, Fields <- c.fields, Lens <- c.lens, Callers <- {"p1", "p2"},
  Cluster <- c.cluster, ChannelCap <- 1, BatchMax <- 2, MaxAttempts <- 2,
  MaxWrites <- c.writes, MaxDeletes <- c.removals, MaxEmpties <- c.removals,
  MaxFaults <- c.faults, store <- lengths

(* Ingress: single documents; a bulk job beside a single document.         *)
Worklists ==
  {[name |-> "single", single |-> {"j1", "j2", "j3"}, bulk |-> {}],
   [name |-> "bulk", single |-> {"j1"}, bulk |-> {"b1"}]}

\* What of the jobs a case uses.
Asked(c) ==
  /\ \A j \in Single \ c.single : job[j].at = "new"
  /\ \A b \in Bulk \ c.bulk : bulk[b].at = "new"

(* Vectorize: batches for two plain vectors; single documents for vectors  *)
(* of a name, of a template over the metadata and of a custom kind.        *)
Embeddings ==
  {[name |-> "plain", content |-> {"none", "x"}, meta |-> {"none"}, batch |-> 2,
    config |-> <<[slots |-> <<"name", "content">>, custom |-> FALSE]>>],
   [name |-> "templates", content |-> {"none", "", "x"}, meta |-> {"none", "x", "typed"},
    batch |-> 1,
    config |-> <<[slots |-> <<"name">>, custom |-> FALSE],
                 [slots |-> <<"template">>, custom |-> FALSE],
                 [slots |-> <<"content">>, custom |-> TRUE]>>]}

Embedding(c) == INSTANCE Vectorize WITH
  Id <- {1, 2}, Config <- c.config, IndexThreads <- 2, Content <- c.content,
  Meta <- c.meta, MaxBatch <- c.batch

ASSUME InstancesAssumption ==
  /\ \A c \in Statistics : Statistic(c)!StatsAssumption
  /\ \A c \in Embeddings : Embedding(c)!VectorizeAssumption

-----------------------------------------------------------------------------
CaseNames(cases) == {c.name : c \in cases}

\* The case of a component that is shown, or the one it rests in.
Shown(c, cases) == IF part \in CaseNames(cases) THEN part = c.name ELSE c = CHOOSE d \in cases : TRUE

SuiteInit ==
  /\ part \in UNION {CaseNames(Catalogs), CaseNames(Statistics), CaseNames(Worklists), CaseNames(Embeddings)}
  /\ \E c \in Catalogs : Shown(c, Catalogs) /\ CatalogInit /\ Within(c)
  /\ \E c \in Statistics : Shown(c, Statistics) /\ Statistic(c)!Init
  /\ IngressInit
  /\ part \notin CaseNames(Embeddings) => storeContent = TRUE
  /\ \E c \in Embeddings : Shown(c, Embeddings) /\ Embedding(c)!Init

SuiteNext ==
  \/ \E c \in Catalogs : part = c.name /\ CatalogNext /\ Within(c)'
                         /\ UNCHANGED <<part, statistics, ingressVars, embeddings>>
  \/ \E c \in Statistics : part = c.name /\ Statistic(c)!Next
                           /\ UNCHANGED <<part, catalogVars, ingressVars, embeddings>>
  \/ \E c \in Worklists : part = c.name /\ IngressNext /\ Asked(c)'
                          /\ UNCHANGED <<part, catalogVars, statistics, embeddings>>
  \/ \E c \in Embeddings : part = c.name /\ Embedding(c)!Next
                           /\ UNCHANGED <<part, catalogVars, statistics, ingressVars>>

SuiteSpec == SuiteInit /\ [][SuiteNext]_suite

-----------------------------------------------------------------------------
(* The properties of the other parts, in every case but where a case is    *)
(* named; with each go its types and the limits of queues and channels.    *)

\* Every document is counted once, or its delta was lost; the stored average is
\* the mean length of the documents; an average is never taken of nothing.
StatisticsExact ==
  \A c \in Statistics : part = c.name =>
    /\ Statistic(c)!TypeOK /\ Statistic(c)!CountedOnce
    /\ Statistic(c)!AverageExact /\ Statistic(c)!NoAverageOfNothing

\* Every stored document has the vector of every slot, and each one belongs to
\* the text the document has now.
VectorsMatch ==
  \A c \in Embeddings : part = c.name =>
    Embedding(c)!VectorsFresh /\ Embedding(c)!EverySlotStored
=============================================================================
