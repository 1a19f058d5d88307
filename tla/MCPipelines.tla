---------------------------- MODULE MCPipelines ----------------------------
(***************************************************************************)
(* Model checking of what flows through queues and tasks and must come     *)
(* out: upserts, searches, exports, metrics, and configurations that leave *)
(* a cache.  The parts have no state in common, so a behaviour shows one   *)
(* of them: `part' names it, and the others rest in an initial state.      *)
(***************************************************************************)
EXTENDS SearchIngress, Export

VARIABLES
  part,
  upsertJob, upsertQueue, upsertTasks, bulk, store, errors, panics,
  now, stamp, events, channel, data, last1, last5, completed, for5, pending,
  flush, batch, stored, fails, report, stop, onTime,
  cluster, coll, meta, docs, rows, cache, admin, proc, asked, deletes, calls, catalogFaults

upserts == <<upsertJob, upsertQueue, upsertTasks, bulk, store, errors, panics>>
metrics == <<now, stamp, events, channel, data, last1, last5, completed, for5, pending,
             flush, batch, stored, fails, report, stop, onTime>>
catalog == <<cluster, coll, meta, docs, rows, cache, admin, proc, asked, deletes, calls,
             catalogFaults>>

\* Three single documents of two collections, one task at a time.
Upsert == INSTANCE Ingress WITH
  Single <- {"j1", "j2", "j3"}, Ticket <- {"j3"}, Bulk <- {}, Coll <- {"c1", "c2"},
  DocId <- {"d"}, MaxTs <- 1, Capacity <- 2, MaxTasks <- 1, DrainMax <- 2, BulkLen <- 0,
  ChunkSize <- 1, MaxErrors <- 1, MaxPanics <- 1,
  job <- upsertJob, queue <- upsertQueue, tasks <- upsertTasks

\* Events of two minutes, a write that fails.
Metric == INSTANCE Metrics WITH
  Recorder <- {"r1"}, Minute <- 2, Five <- 4, MaxAge <- 6, Capacity <- 1, MaxTime <- 3,
  MaxEvents <- 2, MaxFails <- 1, at <- report

\* A collection that is created and deleted while its configuration is read.
Catalog == INSTANCE Collections WITH
  Names <- {"c1"}, Nodes <- {"n1"}, Admins <- {"a1"}, Callers <- {"p1"},
  Poller <- "poller", CacheMax <- 1, MaxAdmin <- 3, MaxCalls <- 2, MaxRows <- 1,
  MaxFaults <- 1, faults <- catalogFaults

ASSUME InstancesAssumption ==
  Upsert!IngressAssumption /\ Metric!MetricsAssumption /\ Catalog!CollectionsAssumption

-----------------------------------------------------------------------------
SuiteInit ==
  /\ part \in {"upserts", "searches", "export", "metrics", "catalog"}
  /\ Upsert!IngressInit /\ SearchInit /\ Metric!Init /\ Catalog!CatalogInit /\ ~cluster
  /\ (part # "export" => db = {}) /\ ExportInit

SuiteNext ==
  \/ part = "upserts" /\ Upsert!IngressNext /\ UNCHANGED <<part, searchVars, exportVars, metrics, catalog>>
  \/ part = "searches" /\ SearchNext /\ UNCHANGED <<part, upserts, exportVars, metrics, catalog>>
  \/ part = "export" /\ ExportNext /\ UNCHANGED <<part, upserts, searchVars, metrics, catalog>>
  \/ part = "metrics" /\ Metric!Next /\ UNCHANGED <<part, upserts, searchVars, exportVars, catalog>>
  \/ part = "catalog" /\ Catalog!CatalogNext
     /\ UNCHANGED <<part, upserts, searchVars, exportVars, metrics>>

\* The fairness of each part, for the part that is shown: workers and their
\* tasks and threads run, a client that stays reads on.
SuiteFairness ==
  /\ WF_upserts(part = "upserts" /\ Upsert!TakeBatch)
  /\ WF_upserts(part = "upserts" /\ Upsert!TaskStep)
  /\ WF_searchVars(part = "searches" /\ TakeBatch)
  /\ WF_searchVars(part = "searches" /\ TaskStep)
  /\ WF_exportVars(part = "export" /\ FetchPage)
  /\ WF_exportVars(part = "export" /\ Compress)
  /\ WF_exportVars(part = "export" /\ Read)
  /\ WF_metrics(part = "metrics" /\ Metric!Report)
  /\ WF_metrics(part = "metrics" /\ Metric!Flush)
  /\ WF_catalog(part = "catalog" /\ Catalog!AdminStep("a1"))
  /\ \A p \in {"p1", "poller"} : WF_catalog(part = "catalog" /\ Catalog!CallStep(p))
  /\ WF_catalog(part = "catalog" /\ Catalog!Expire("n1"))

SuiteSpec ==
  /\ SuiteInit /\ [][SuiteNext]_<<part, upserts, searchVars, exportVars, metrics, catalog>>
  /\ SuiteFairness

-----------------------------------------------------------------------------
(* Properties of the parts; those of SearchIngress and Export are there.   *)

\* Every upsert and every search that gets into its queue is answered, also when
\* tasks panic, and every export ends, also when the client leaves.
EveryRequestEnds ==
  /\ Upsert!EveryJobAnswered /\ EverySearchAnswered
  /\ part = "export" => ExportEnds

\* A completed bucket is written in the end, or gets too old.
PendingIsStored == Metric!PendingIsStored

\* A stale configuration that was cached is not believed for ever.
CacheHeals == Catalog!CacheHeals
=============================================================================
