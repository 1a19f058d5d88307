---------------------------- MODULE Collections ----------------------------
(***************************************************************************)
(* The life cycle of collections and the cache of their configurations.    *)
(*                                                                         *)
(* A collection is a Qdrant collection plus a configuration point in the   *)
(* meta collection; create_collection and delete_collection change the two *)
(* one call after the other, under no lock.  Searches and upserts read the *)
(* configuration through a cache with a time to live, fill it after an     *)
(* await, and use what they got after more awaits.  Queue rows carry the   *)
(* collection_id they were accepted for.  What a batch does with its rows  *)
(* under the document locks is the subject of module Ingest; here it is    *)
(* one look at the rows and one write.                                     *)
(***************************************************************************)
EXTENDS Integers, FiniteSets, Sequences

CONSTANTS
  Names,      \* collection names
  Nodes,      \* server processes, each with a cache of its own
  Admins,     \* handlers of create_collection, delete_collection, empty_collection
  Callers,    \* searches, synchronous upserts and queueing handlers
  Poller,     \* the queue poller, or a value of its own that never runs
  CacheMax,   \* CACHE_MAX_ENTRIES
  MaxAdmin,   \* bound on the administrative requests of a behaviour
  MaxCalls,   \* bound on the calls of a behaviour
  MaxRows,    \* bound on the rows ever queued
  MaxFaults   \* bound on the handlers that fail or are dropped halfway

ASSUME CollectionsAssumption ==
  /\ Names # {} /\ Nodes # {} /\ Poller \notin Callers
  /\ CacheMax \in Nat \ {0}
  /\ MaxAdmin \in Nat /\ MaxCalls \in Nat /\ MaxRows \in Nat /\ MaxFaults \in Nat

Procs == Callers \cup {Poller}
None == 0
Ids == 1..MaxAdmin          \* fresh collection ids: one per create request
RowIds == 1..MaxRows

VARIABLES
  cluster,  \* AMGIX_AMQP_URL is set: the write path bypasses the cache
  coll,     \* coll[c]: id under which the Qdrant collection was created, or None
  meta,     \* meta[c]: the configuration point, with its id (None: no point)
  docs,     \* docs[c]: the documents of the collection
  rows,     \* rows[r]: a queue row
  cache,    \* cache[n]: the entries of a node, oldest first
  admin,    \* admin[a]: where an administrative handler is
  proc,     \* proc[p]: where a call is
  asked,    \* administrative requests so far
  deletes,  \* deletes[c]: delete requests that have begun
  calls,    \* calls so far
  faults    \* handlers that failed so far

catalogVars == <<cluster, coll, meta, docs, rows, cache, admin, proc, asked, deletes, calls, faults>>
database == <<coll, meta, docs, rows>>
fixed == <<cluster, asked, deletes, calls, faults>>

\* A cache entry is dead once it is older than CACHE_TTL_SECS.
Entry == [name : Names, id : Ids, live : BOOLEAN]

\* A document: the configuration it was prepared under and the collection_id
\* its queue row was accepted for (None: it came without a row).
Doc == [cfg : Ids, cid : Ids \cup {None}]
Row == [name : Names, cid : Ids \cup {None}, st : {"free", "queued", "applied", "failed", "gone"}]

\* mark: the number of deletes begun when the create that wrote it started, or
\* -1 if a delete was under way then.
Config == [id : Ids \cup {None}, mark : Int]

AdminSteps == {"idle", "create", "config", "index", "drop", "unmeta", "wipe", "unstat",
               "purge", "invalidate"}
AdminOps == {"create", "delete", "empty"}
Steps == {"idle", "get", "fetch", "fill", "use", "check", "forget", "verify", "write",
          "read", "add"}

Handler == [at : AdminSteps, op : AdminOps, node : Nodes, name : Names,
            id : Ids \cup {None}, mark : Int]

\* hit: the configuration came from the cache; again: it was read a second time;
\* calm: no administrative request on the collection has overlapped the call;
\* first: the row a batch is checked by.
Call == [at : Steps, op : {"search", "upsert", "batch", "post"}, node : Nodes, name : Names,
         cfg : Ids \cup {None}, hit : BOOLEAN, again : BOOLEAN, calm : BOOLEAN,
         first : RowIds \cup {None}, batch : SUBSET RowIds]

\* A cache has one entry per name and no more than it may.
CacheOK(s) ==
  /\ s \in Seq(Entry) /\ Len(s) <= CacheMax
  /\ \A i, j \in 1..Len(s) : s[i].name = s[j].name => i = j

CatalogTypeOK ==
  /\ cluster \in BOOLEAN
  /\ coll \in [Names -> Ids \cup {None}]
  /\ meta \in [Names -> Config]
  /\ docs \in [Names -> SUBSET Doc]
  /\ rows \in [RowIds -> Row]
  /\ DOMAIN cache = Nodes /\ \A n \in Nodes : CacheOK(cache[n])
  /\ admin \in [Admins -> Handler]
  /\ proc \in [Procs -> Call]
  /\ asked \in 0..MaxAdmin /\ calls \in 0..MaxCalls /\ faults \in 0..MaxFaults
  /\ deletes \in [Names -> 0..MaxAdmin]

Idle(n, c) == [at |-> "idle", op |-> "search", node |-> n, name |-> c, cfg |-> None,
               hit |-> FALSE, again |-> FALSE, calm |-> FALSE, first |-> None, batch |-> {}]
Request(step, o, n, c) == [at |-> step, op |-> o, node |-> n, name |-> c, id |-> None, mark |-> 0]

AnyNode == CHOOSE n \in Nodes : TRUE
AnyName == CHOOSE c \in Names : TRUE
NoCall == Idle(AnyNode, AnyName)
NoRequest == Request("idle", "empty", AnyNode, AnyName)

CatalogInit ==
  /\ cluster \in BOOLEAN
  /\ coll = [c \in Names |-> None]
  /\ meta = [c \in Names |-> [id |-> None, mark |-> 0]]
  /\ docs = [c \in Names |-> {}]
  /\ rows = [r \in RowIds |-> [name |-> AnyName, cid |-> None, st |-> "free"]]
  /\ cache = [n \in Nodes |-> <<>>]
  /\ admin = [a \in Admins |-> NoRequest]
  /\ proc = [p \in Procs |-> NoCall]
  /\ asked = 0 /\ calls = 0 /\ faults = 0
  /\ deletes = [c \in Names |-> 0]

-----------------------------------------------------------------------------
(* The cache. *)

Holding(n, c) == {i \in DOMAIN cache[n] : cache[n][i].name = c}

\* Faulty form: entries are returned whatever their age.
Returned(n, c) == Holding(n, c)

\* The entries a lookup returns: none that is past its time to live.
Live(n, c) == {i \in Holding(n, c) : cache[n][i].live}

\* Faulty form: the write path uses the cache in a cluster too.
GetEverywhere(n, c, write) == Live(n, c)

\* get (the write path) finds nothing in a cluster; get_for_search looks in both
\* modes.
Get(n, c, write) == IF write /\ cluster THEN {} ELSE Live(n, c)

\* The entries but that of c.
Removed(s, c) ==
  LET places == {i \in 1..Len(s) : s[i].name = c}
      p == CHOOSE i \in places : TRUE
  IN  IF places = {} THEN s
      ELSE [i \in 1..(Len(s) - 1) |-> IF i < p THEN s[i] ELSE s[i + 1]]

\* Faulty form: the cache grows without bound.
SetUnbounded(n, c, id) ==
  Append(Removed(cache[n], c), [name |-> c, id |-> id, live |-> TRUE])

\* set: a full cache evicts its oldest entry first, unless the name is there.
Set(n, c, id) ==
  LET evict == Len(cache[n]) >= CacheMax /\ Holding(n, c) = {}
  IN  Append(Removed(IF evict THEN Tail(cache[n]) ELSE cache[n], c),
             [name |-> c, id |-> id, live |-> TRUE])

Invalidated(n, c) == Removed(cache[n], c)

\* CACHE_TTL_SECS pass for the oldest entry that is still alive.
Expire(n) ==
  /\ \E i \in DOMAIN cache[n] :
       /\ cache[n][i].live
       /\ \A j \in 1..(i - 1) : ~cache[n][j].live
       /\ cache' = [cache EXCEPT ![n][i].live = FALSE]
  /\ UNCHANGED <<database, admin, proc, fixed>>

-----------------------------------------------------------------------------
(* create_collection, delete_collection and empty_collection. *)

Busy(c) == \E a \in Admins : admin[a].at # "idle" /\ admin[a].name = c
Deleting(c) == \E a \in Admins :
                 admin[a].at # "idle" /\ admin[a].op = "delete" /\ admin[a].name = c

\* A request that begins ends the calm of the calls under way on its collection.
Begins(a, req) ==
  /\ asked < MaxAdmin /\ asked' = asked + 1
  /\ admin[a].at = "idle"
  /\ admin' = [admin EXCEPT ![a] = req]
  /\ proc' = [p \in Procs |-> [proc[p] EXCEPT !.calm = @ /\ proc[p].name # req.name]]
  /\ UNCHANGED <<cluster, database, cache, calls, faults>>

\* The handler looks for a configuration point; if there is one it answers
\* CONFLICT.  Validating the models takes time; the collection_id is fresh.
CreateCollection(a, n, c) ==
  /\ meta[c].id = None
  /\ Begins(a, [Request("create", "create", n, c) EXCEPT
                  !.id = asked + 1, !.mark = IF Deleting(c) THEN -1 ELSE deletes[c]])
  /\ UNCHANGED deletes

DeleteCollection(a, n, c) ==
  /\ Begins(a, Request("drop", "delete", n, c))
  /\ deletes' = [deletes EXCEPT ![c] = @ + 1]

EmptyCollection(a, n, c) ==
  /\ Begins(a, Request("wipe", "empty", n, c))
  /\ UNCHANGED deletes

At(a, step) == admin[a].at = step
Moves(a, step) ==
  /\ admin' = [admin EXCEPT ![a] = IF step = "idle" THEN NoRequest ELSE [@ EXCEPT !.at = step]]
  /\ UNCHANGED <<proc, fixed>>
\* A call of the database returns an error and the handler answers it.
Stops(a) == Moves(a, "idle") /\ UNCHANGED <<database, cache>>

\* Faulty form: the error Qdrant returns for a collection that exists is ignored.
CreatePointsAnyway(a) ==
  /\ At(a, "create")
  /\ coll' = [coll EXCEPT ![admin[a].name] = IF @ = None THEN admin[a].id ELSE @]
  /\ Moves(a, "config") /\ UNCHANGED <<meta, docs, rows, cache>>

\* Qdrant refuses to create a collection that exists.
CreatePoints(a) ==
  /\ At(a, "create")
  /\ IF coll[admin[a].name] = None
     THEN /\ coll' = [coll EXCEPT ![admin[a].name] = admin[a].id]
          /\ Moves(a, "config") /\ UNCHANGED <<meta, docs, rows, cache>>
     ELSE Stops(a)

StoreConfig(a) ==
  /\ At(a, "config")
  /\ meta' = [meta EXCEPT ![admin[a].name] = [id |-> admin[a].id, mark |-> admin[a].mark]]
  /\ Moves(a, "index") /\ UNCHANGED <<coll, docs, rows, cache>>

\* The payload indexes; they fail if the collection is gone, and then the
\* handler answers an error without invalidating the cache.
CreateIndexes(a) ==
  /\ At(a, "index")
  /\ IF coll[admin[a].name] # None THEN Moves(a, "invalidate") /\ UNCHANGED <<database, cache>>
                                   ELSE Stops(a)

\* Qdrant answers the deletion of a collection that does not exist without error.
DropPoints(a) ==
  /\ At(a, "drop")
  /\ coll' = [coll EXCEPT ![admin[a].name] = None]
  /\ docs' = [docs EXCEPT ![admin[a].name] = {}]
  /\ Moves(a, "unmeta") /\ UNCHANGED <<meta, rows, cache>>

DropConfig(a) ==
  /\ At(a, "unmeta")
  /\ meta' = [meta EXCEPT ![admin[a].name] = [id |-> None, mark |-> 0]]
  /\ Moves(a, "purge") /\ UNCHANGED <<coll, docs, rows, cache>>

WipePoints(a) ==
  /\ At(a, "wipe")
  /\ IF coll[admin[a].name] # None
     THEN /\ docs' = [docs EXCEPT ![admin[a].name] = {}]
          /\ Moves(a, "unstat") /\ UNCHANGED <<coll, meta, rows, cache>>
     ELSE Stops(a)

\* The statistics point goes; module Stats is about what that means.
DropStats(a) == At(a, "unstat") /\ Moves(a, "purge") /\ UNCHANGED <<database, cache>>

\* delete_from_queue_by_collection: every row of the name, whatever its
\* collection_id.  empty_collection ends here and leaves the cache alone.
PurgeRows(a) ==
  /\ At(a, "purge")
  /\ rows' = [r \in RowIds |->
       IF rows[r].name = admin[a].name /\ rows[r].st \in {"queued", "failed"}
       THEN [rows[r] EXCEPT !.st = "gone"] ELSE rows[r]]
  /\ Moves(a, IF admin[a].op = "delete" THEN "invalidate" ELSE "idle")
  /\ UNCHANGED <<coll, meta, docs, cache>>

Invalidate(a) ==
  /\ At(a, "invalidate")
  /\ cache' = [cache EXCEPT ![admin[a].node] = Invalidated(admin[a].node, admin[a].name)]
  /\ Moves(a, "idle") /\ UNCHANGED database

\* A call fails, or the client disconnects and the handler is dropped: what was
\* done stays done.
Abandon(a) ==
  /\ admin[a].at # "idle"
  /\ faults < MaxFaults /\ faults' = faults + 1
  /\ admin' = [admin EXCEPT ![a] = NoRequest]
  /\ UNCHANGED <<cluster, database, cache, proc, asked, deletes, calls>>

AdminStep(a) ==
  \/ CreatePoints(a) \/ StoreConfig(a) \/ CreateIndexes(a)
  \/ DropPoints(a) \/ DropConfig(a) \/ WipePoints(a) \/ DropStats(a)
  \/ PurgeRows(a) \/ Invalidate(a)

-----------------------------------------------------------------------------
(* Searches, upserts, queueing handlers and the queue poller. *)

Running(p, step) == proc[p].at = step
Goes(p, rec) == proc' = [proc EXCEPT ![p] = rec] /\ UNCHANGED <<admin, fixed>>
EndCall(p) == Goes(p, NoCall)

Starts(p, rec) ==
  /\ calls < MaxCalls /\ calls' = calls + 1
  /\ Running(p, "idle")
  /\ proc' = [proc EXCEPT ![p] = [rec EXCEPT !.calm = ~Busy(rec.name)]]
  /\ UNCHANGED <<cluster, database, cache, admin, asked, deletes, faults>>

Search(p, n, c) == p # Poller /\ Starts(p, [Idle(n, c) EXCEPT !.at = "get"])
UpsertSync(p, n, c) ==
  p # Poller /\ Starts(p, [Idle(n, c) EXCEPT !.at = "get", !.op = "upsert"])

\* upsert_document reads the configuration from the database and queues a row
\* for its collection_id after that.
UpsertDocument(p, n, c) ==
  /\ p # Poller /\ meta[c].id # None
  /\ Cardinality({r \in RowIds : rows[r].st # "free"})
       + Cardinality({q \in Procs : proc[q].at = "add"}) < MaxRows
  /\ Starts(p, [Idle(n, c) EXCEPT !.at = "add", !.op = "post", !.cfg = meta[c].id])

AddToQueue(p) ==
  /\ Running(p, "add")
  /\ \E r \in RowIds :
       /\ rows[r].st = "free" /\ \A q \in 1..(r - 1) : rows[q].st # "free"
       /\ rows' = [rows EXCEPT ![r] = [name |-> proc[p].name, cid |-> proc[p].cfg,
                                       st |-> "queued"]]
  /\ EndCall(p) /\ UNCHANGED <<coll, meta, docs, cache>>

Queued(c) == {r \in RowIds : rows[r].st = "queued" /\ rows[r].name = c}

\* The poller groups what it claims by name; the bulk call looks at the
\* collection_id of one of the rows.  There is no poller in a cluster.
ClaimBatch(n, c) ==
  /\ ~cluster
  /\ \E b \in SUBSET Queued(c) : \E f \in b :
       Starts(Poller, [Idle(n, c) EXCEPT !.at = "get", !.op = "batch", !.first = f,
                                         !.batch = b])

AfterConfig(op) ==
  CASE op = "search" -> "use" [] op = "batch" -> "check" [] OTHER -> "write"

LookUp(p) ==
  /\ Running(p, "get")
  /\ LET n == proc[p].node
         found == Get(n, proc[p].name, proc[p].op # "search")
     IN  Goes(p, IF found = {} THEN [proc[p] EXCEPT !.at = "fetch"]
                 ELSE [proc[p] EXCEPT !.at = AfterConfig(proc[p].op), !.hit = TRUE,
                                      !.cfg = cache[n][CHOOSE i \in found : TRUE].id])
  /\ UNCHANGED <<database, cache>>

\* mark_outcome with an error that is final.
Failed(b) == [r \in RowIds |-> IF r \in b /\ rows[r].st = "queued"
                               THEN [rows[r] EXCEPT !.st = "failed"] ELSE rows[r]]

Fetch(p) ==
  /\ Running(p, "fetch")
  /\ LET id == meta[proc[p].name].id
     IN  IF id = None
         THEN EndCall(p) /\ rows' = Failed(proc[p].batch)
         ELSE /\ Goes(p, [proc[p] EXCEPT !.at = "fill", !.cfg = id, !.hit = FALSE])
              /\ UNCHANGED rows
  /\ UNCHANGED <<coll, meta, docs, cache>>

Fill(p) ==
  /\ Running(p, "fill")
  /\ cache' = [cache EXCEPT ![proc[p].node] = Set(proc[p].node, proc[p].name, proc[p].cfg)]
  /\ Goes(p, [proc[p] EXCEPT !.at = AfterConfig(proc[p].op)])
  /\ UNCHANGED database

\* A search vectorizes its query and asks Qdrant.  If the vectorizer rejects a
\* configuration that came from the cache, it is read again, once.
UseConfig(p) ==
  /\ Running(p, "use")
  /\ \/ EndCall(p)
     \/ /\ proc[p].hit /\ ~proc[p].again
        /\ Goes(p, [proc[p] EXCEPT !.at = "forget"])
  /\ UNCHANGED <<database, cache>>

Forget(p) ==
  /\ Running(p, "forget")
  /\ cache' = [cache EXCEPT ![proc[p].node] = Invalidated(proc[p].node, proc[p].name)]
  /\ Goes(p, [proc[p] EXCEPT !.at = "get", !.again = TRUE])
  /\ UNCHANGED database

\* Faulty form: the configuration in use is taken for the one of the rows.
CheckTicketNever(p) ==
  /\ Running(p, "check")
  /\ Goes(p, [proc[p] EXCEPT !.at = "verify"])
  /\ UNCHANGED <<database, cache>>

\* Only the first ticket's collection_id is compared.
CheckTicket(p) ==
  /\ Running(p, "check")
  /\ IF proc[p].cfg = rows[proc[p].first].cid
     THEN Goes(p, [proc[p] EXCEPT !.at = "verify"]) /\ UNCHANGED rows
     ELSE IF ~proc[p].again
     THEN Goes(p, [proc[p] EXCEPT !.at = "forget"]) /\ UNCHANGED rows
     ELSE EndCall(p) /\ rows' = Failed(proc[p].batch)
  /\ UNCHANGED <<coll, meta, docs, cache>>

\* Rows that are gone are dropped from the batch.
VerifyRows(p) ==
  /\ Running(p, "verify")
  /\ LET left == {r \in proc[p].batch : rows[r].st = "queued"}
     IN  IF left = {} THEN EndCall(p) ELSE Goes(p, [proc[p] EXCEPT !.at = "write", !.batch = left])
  /\ UNCHANGED <<database, cache>>

\* A collection that does not exist is an error that is not final: the rows
\* stay queued.
WriteDocs(p) ==
  /\ Running(p, "write")
  /\ LET c == proc[p].name
         new == IF proc[p].op = "upsert" THEN {[cfg |-> proc[p].cfg, cid |-> None]}
                ELSE {[cfg |-> proc[p].cfg, cid |-> rows[r].cid] : r \in proc[p].batch}
     IN  IF coll[c] = None THEN UNCHANGED <<docs, rows>>
         ELSE /\ docs' = [docs EXCEPT ![c] = @ \cup new]
              /\ rows' = [r \in RowIds |-> IF r \in proc[p].batch
                                           THEN [rows[r] EXCEPT !.st = "applied"] ELSE rows[r]]
  /\ EndCall(p) /\ UNCHANGED <<coll, meta, cache>>

CallStep(p) ==
  \/ AddToQueue(p) \/ LookUp(p) \/ Fetch(p) \/ Fill(p) \/ UseConfig(p) \/ Forget(p)
  \/ CheckTicket(p) \/ VerifyRows(p) \/ WriteDocs(p)

\* Nobody is under way: whatever has to end has ended.
Rest ==
  /\ \A a \in Admins : admin[a].at = "idle"
  /\ \A p \in Procs : proc[p].at = "idle"
  /\ UNCHANGED catalogVars

CatalogNext ==
  \/ Rest
  \/ \E a \in Admins, n \in Nodes, c \in Names :
       CreateCollection(a, n, c) \/ DeleteCollection(a, n, c) \/ EmptyCollection(a, n, c)
  \/ \E a \in Admins : AdminStep(a) \/ Abandon(a)
  \/ \E p \in Procs, n \in Nodes, c \in Names :
       Search(p, n, c) \/ UpsertSync(p, n, c) \/ UpsertDocument(p, n, c)
  \/ \E n \in Nodes, c \in Names : ClaimBatch(n, c)
  \/ \E p \in Procs : CallStep(p)
  \/ \E n \in Nodes : Expire(n)

CatalogSpec == CatalogInit /\ [][CatalogNext]_catalogVars

-----------------------------------------------------------------------------
(* Properties. *)

\* Creates may race each other and fail anywhere: a configuration point always
\* describes the Qdrant collection of its own create, as long as no delete
\* overlapped that create and none has begun since (create_collection relies on
\* Qdrant to refuse the second of two creates, and writes the point last).
ConfigMatchesCollection ==
  \A c \in Names :
    meta[c].id # None /\ meta[c].mark = deletes[c] => coll[c] = meta[c].id

\* In a cluster an upsert that no administrative request overlaps is prepared
\* under the configuration of the collection it is written to, whatever node
\* the last request went to (get_collection_info_for_write).
WritesUseLiveConfig ==
  \A p \in Procs :
    LET c == proc[p].name
    IN  /\ cluster /\ proc[p].at = "write" /\ proc[p].calm
        /\ meta[c].mark = deletes[c] /\ meta[c].id # None
        => proc[p].cfg = coll[c]

\* A batch is only written under the configuration of the collection that the
\* row it is checked by was accepted for (document_upsert_bulk_internal compares
\* the collection_id, reads the configuration again and compares again).
FirstTicketHonoured ==
  \A p \in Procs :
    proc[p].op = "batch" /\ proc[p].at \in {"verify", "write"}
      => proc[p].cfg = rows[proc[p].first].cid

\* The collection ids that rows of c were accepted for.
Accepted(c) ==
  {rows[r].cid : r \in {q \in RowIds : rows[q].st # "free" /\ rows[q].name = c}}

\* A document of the queue is only written under a configuration that rows of
\* its collection were accepted for: its own row, or the one its batch was
\* compared by.  With one row there is one such configuration, its own.
EveryTicketHonoured ==
  \A c \in Names : \A d \in docs[c] : d.cid = None \/ {d.cfg, d.cid} \subseteq Accepted(c)

\* What is said of configurations and of tickets above.
ConfigurationsLive == CatalogTypeOK /\ ConfigMatchesCollection /\ WritesUseLiveConfig
TicketsHonoured == FirstTicketHonoured /\ EveryTicketHonoured

\* A configuration read before an invalidation and cached after it is not
\* believed for ever: once administration has stopped, a lookup eventually
\* returns the stored configuration or nothing, on every node.
CacheHeals ==
  <>[](\A n \in Nodes, c \in Names : \A i \in Get(n, c, FALSE) : cache[n][i].id = meta[c].id)
=============================================================================
