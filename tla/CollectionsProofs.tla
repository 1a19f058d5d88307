------------------------- MODULE CollectionsProofs -------------------------
(***************************************************************************)
(* Proofs about the life cycle of collections: a configuration point       *)
(* describes the collection of its own create, a write in a cluster uses   *)
(* the stored configuration, and queued documents are only written for the *)
(* collection they were accepted for.  For any number of collections,      *)
(* nodes, handlers, calls, rows and failures.                              *)
(***************************************************************************)
EXTENDS Collections, TLAPS

-----------------------------------------------------------------------------
(* Types and the cache of configurations. *)

\* The records of a handler and of a call that are not under way.
LEMMA NoneCalls == NoCall \in Call /\ NoRequest \in Handler /\ AnyName \in Names /\ AnyNode \in Nodes
                   /\ NoCall.at = "idle" /\ NoRequest.at = "idle" /\ NoCall.batch = {} /\ NoCall.op = "search"
<1>1. AnyName \in Names /\ AnyNode \in Nodes   BY CollectionsAssumption, Zenon DEF AnyName, AnyNode
<1> QED
  BY <1>1 DEF NoCall, Idle, Call, Steps, NoRequest, Request, Handler, AdminSteps, AdminOps, None

\* invalidate leaves a cache without the name, shorter by one if it was there.
LEMMA RemovedCache ==
  ASSUME NEW s, CacheOK(s), NEW c
  PROVE  /\ CacheOK(Removed(s, c)) /\ Len(Removed(s, c)) <= Len(s)
         /\ \A i \in 1..Len(Removed(s, c)) : Removed(s, c)[i].name # c
         /\ (\E i \in 1..Len(s) : s[i].name = c) => Len(Removed(s, c)) = Len(s) - 1
<1> DEFINE places == {i \in 1..Len(s) : s[i].name = c}
           q == CHOOSE i \in places : TRUE
           w == [i \in 1..(Len(s) - 1) |-> IF i < q THEN s[i] ELSE s[i + 1]]
<1>1. CASE places = {}
  <2>1. Removed(s, c) = s   BY <1>1, Zenon DEF Removed
  <2> QED   BY <1>1, <2>1 DEF CacheOK
<1>2. CASE places # {}
  <2>1. Removed(s, c) = w   BY <1>2, Zenon DEF Removed
  <2>2. q \in 1..Len(s) /\ s[q].name = c   BY <1>2, Zenon
  <2>3. s \in Seq(Entry) /\ Len(s) \in Nat /\ Len(s) <= CacheMax
        /\ \A i, j \in 1..Len(s) : s[i].name = s[j].name => i = j
    BY DEF CacheOK
  <2> HIDE DEF q, places
  <2>4. w \in [1..(Len(s) - 1) -> Entry] /\ Len(s) - 1 \in Nat   BY <2>2, <2>3
  <2>5. w \in Seq(Entry) /\ Len(w) = Len(s) - 1   BY <2>4
  <2>6. ASSUME NEW i \in 1..(Len(s) - 1)
        PROVE  \E k \in 1..Len(s) : k # q /\ w[i] = s[k] /\ k = IF i < q THEN i ELSE i + 1
    BY <2>2, <2>3
  <2>7. \A i, j \in 1..Len(w) : w[i].name = w[j].name => i = j
    BY <2>2, <2>3, <2>5, <2>6
  <2>8. \A i \in 1..Len(w) : w[i].name # c   BY <2>2, <2>3, <2>5, <2>6
  <2> HIDE DEF w
  <2> QED   BY <2>1, <2>3, <2>5, <2>7, <2>8, CollectionsAssumption DEF CacheOK
<1> QED   BY <1>1, <1>2, Zenon

\* set keeps one entry per name and never more than CACHE_MAX_ENTRIES.
LEMMA SetCache ==
  ASSUME NEW n \in Nodes, CacheOK(cache[n]), NEW c \in Names, NEW id \in Ids
  PROVE  CacheOK(Set(n, c, id))
<1> DEFINE evict == Len(cache[n]) >= CacheMax /\ Holding(n, c) = {}
           t == IF evict THEN Tail(cache[n]) ELSE cache[n]
           w == Removed(t, c)
           e == [name |-> c, id |-> id, live |-> TRUE]
<1>0. CacheMax \in Nat \ {0}   BY CollectionsAssumption, Zenon
<1>1. CacheOK(t) /\ (Len(t) < CacheMax \/ \E i \in 1..Len(t) : t[i].name = c)
  <2>1. CASE evict
    BY <1>0, <2>1 DEF CacheOK
  <2>2. CASE ~evict
    <3>1. t = cache[n] /\ Len(t) \in Nat   BY <2>2 DEF CacheOK
    <3> QED   BY <1>0, <2>2, <3>1 DEF CacheOK, Holding
  <2> QED   BY <2>1, <2>2, Zenon
<1> HIDE DEF t
<1>2. /\ CacheOK(w) /\ \A i \in 1..Len(w) : w[i].name # c
      /\ Len(w) <= Len(t) /\ ((\E i \in 1..Len(t) : t[i].name = c) => Len(w) = Len(t) - 1)
  BY <1>1, RemovedCache, Zenon
<1>3. e \in Entry /\ e.name = c   BY Zenon DEF Entry
<1>4. Set(n, c, id) = Append(w, e)   BY Zenon DEF Set, t
<1> HIDE DEF w, e
<1>5. Len(w) < CacheMax   BY <1>0, <1>1, <1>2 DEF CacheOK
<1> QED   BY <1>0, <1>3, <1>4, <1>2, <1>5 DEF CacheOK

-----------------------------------------------------------------------------
(* The inductive invariant. *)

\* A handler: what it does by its place, and the mark of a create.  The mark of
\* a create that a delete overlaps is behind the deletes begun.
HandlerOK(h) ==
  /\ h.at \in {"create", "config", "index"} => h.op = "create"
  /\ h.at \in {"drop", "unmeta"} => h.op = "delete"
  /\ h.at \in {"create", "config"} =>
       /\ h.id # None /\ h.mark <= deletes[h.name]
       /\ Deleting(h.name) => h.mark < deletes[h.name]

\* A create that no delete has overtaken owns the collection it made.
CreatorOwns(c) ==
  \A b \in Admins : admin[b].at = "config" /\ admin[b].name = c /\ admin[b].mark = deletes[c]
                     => coll[c] = admin[b].id

\* The same of a point that was written.
PointOK(c) ==
  meta[c].id # None =>
    /\ meta[c].mark <= deletes[c]
    /\ Deleting(c) => meta[c].mark < deletes[c]
    /\ meta[c].mark = deletes[c] => coll[c] = meta[c].id

\* A call: what it has by its place, and the rows of a batch.
CallOK(c) ==
  /\ c.at \in {"fill", "use", "check", "verify", "write", "add"} => c.cfg # None
  /\ c.at \in {"check", "verify"} => c.op = "batch"
  /\ c.at = "write" => c.op \in {"upsert", "batch"}
  /\ c.op = "post" => c.at = "add"
  /\ c.op # "batch" => c.batch = {}
  /\ c.op = "batch" =>
       /\ ~cluster /\ c.first \in RowIds
       /\ \A r \in c.batch \cup {c.first} : rows[r].st # "free" /\ rows[r].name = c.name
       /\ c.at \in {"verify", "write"} => c.cfg = rows[c.first].cid

\* A call that no request has overlapped has the stored configuration.
LiveOK(c) ==
  c.calm /\ c.at # "idle" =>
    /\ ~Busy(c.name)
    /\ cluster /\ c.op = "upsert" /\ c.at \in {"fill", "write"} => c.cfg = meta[c.name].id

\* What every state satisfies.
CatalogInv ==
  /\ CatalogTypeOK /\ \A c \in Names : deletes[c] <= asked /\ PointOK(c) /\ CreatorOwns(c)
  /\ \A a \in Admins : HandlerOK(admin[a])
  /\ \A p \in Procs : CallOK(proc[p]) /\ LiveOK(proc[p])
  /\ EveryTicketHonoured

\* The invariant is enough for what the runs check.
LEMMA CatalogInvHolds == CatalogInv => ConfigurationsLive /\ TicketsHonoured
<1> SUFFICES ASSUME CatalogInv PROVE ConfigurationsLive /\ TicketsHonoured   BY Zenon
<1>1. ConfigMatchesCollection   BY Zenon DEF CatalogInv, PointOK, ConfigMatchesCollection
<1>2. ASSUME NEW p \in Procs PROVE proc[p].name \in Names /\ CallOK(proc[p]) /\ LiveOK(proc[p])
  BY Zenon DEF CatalogInv, CatalogTypeOK, Call
<1>3. WritesUseLiveConfig
  BY <1>1, <1>2, Zenon DEF CallOK, LiveOK, WritesUseLiveConfig, ConfigMatchesCollection
<1>4. FirstTicketHonoured   BY <1>2, Zenon DEF CallOK, FirstTicketHonoured
<1> QED   BY <1>1, <1>3, <1>4, Zenon DEF CatalogInv, ConfigurationsLive, TicketsHonoured

\* A row that is in the queue keeps its name and its collection_id for ever.
RowsAge ==
  /\ rows' \in [RowIds -> Row]
  /\ \A r \in RowIds : rows[r].st # "free" =>
       rows'[r].st # "free" /\ rows'[r].name = rows[r].name /\ rows'[r].cid = rows[r].cid

-----------------------------------------------------------------------------
(* Calls: searches, upserts, queueing handlers and the poller. *)

\* A step of one call that keeps the rows and the caches as they should be and
\* leaves its own call as the invariant wants it keeps everything else.
LEMMA CallKeeps ==
  ASSUME CatalogInv, NEW p \in Procs,
         proc' \in [Procs -> Call], \A q \in Procs : q # p => proc'[q] = proc[q],
         UNCHANGED <<cluster, admin, coll, meta, asked, deletes, faults>>,
         calls' \in 0..MaxCalls,
         DOMAIN cache' = Nodes, \A n \in Nodes : CacheOK(cache'[n]),
         RowsAge, docs' \in [Names -> SUBSET Doc],
         \A c \in Names : \A d \in docs'[c] :
           d \in docs[c] \/ d.cid = None \/ {d.cfg, d.cid} \subseteq Accepted(c),
         CallOK(proc[p])', LiveOK(proc[p])'
  PROVE  CatalogInv'
<1>1. CatalogTypeOK'   BY Zenon DEF CatalogInv, CatalogTypeOK, RowsAge
<1>2. \A c \in Names : (deletes[c] <= asked)' /\ PointOK(c)' /\ CreatorOwns(c)'
  BY Zenon DEF CatalogInv, PointOK, CreatorOwns, Deleting
<1>3. \A a \in Admins : HandlerOK(admin[a])'
  BY Zenon DEF CatalogInv, HandlerOK, Deleting
<1>4. ASSUME NEW q \in Procs, q # p PROVE CallOK(proc[q])' /\ LiveOK(proc[q])'
  <2> DEFINE c == proc[q]
  <2>1. CallOK(c) /\ LiveOK(c) /\ proc'[q] = c /\ c.batch \subseteq RowIds
    BY <1>4, Zenon DEF CatalogInv, CatalogTypeOK, Call
  <2>2. CallOK(proc[q])'   BY <2>1 DEF CallOK, RowsAge
  <2>3. LiveOK(proc[q])'   BY <2>1, Zenon DEF LiveOK, Busy
  <2> QED   BY <2>2, <2>3, Zenon
<1>5. EveryTicketHonoured'
  <2>1. ASSUME NEW c \in Names PROVE Accepted(c) \subseteq Accepted(c)'
    BY DEF Accepted, RowsAge
  <2> QED   BY <2>1, Zenon DEF CatalogInv, EveryTicketHonoured
<1> QED   BY <1>1, <1>2, <1>3, <1>4, <1>5, Zenon DEF CatalogInv

\* Handlers and the poller begin a call with an empty hand; a batch is made of
\* rows that are queued for its collection.
LEMMA StartsKeep ==
  ASSUME CatalogInv, NEW p \in Procs, NEW n \in Nodes, NEW c \in Names,
         \/ Search(p, n, c) \/ UpsertSync(p, n, c) \/ UpsertDocument(p, n, c)
         \/ p = Poller /\ ClaimBatch(n, c)
  PROVE  CatalogInv'
<1>0. CatalogTypeOK   BY Zenon DEF CatalogInv
<1>1. PICK rec \in Call :
        /\ Starts(p, rec) /\ rec.name = c
        /\ \/ rec.at = "get" /\ rec.op \in {"search", "upsert"} /\ rec.batch = {}
           \/ rec.at = "add" /\ rec.op = "post" /\ rec.cfg # None /\ rec.batch = {}
           \/ /\ rec.at = "get" /\ rec.op = "batch" /\ ~cluster /\ rec.first \in RowIds
              /\ \A r \in rec.batch \cup {rec.first} : rows[r].st # "free" /\ rows[r].name = c
  <2>1. CASE Search(p, n, c) \/ UpsertSync(p, n, c)
    <3>1. /\ [Idle(n, c) EXCEPT !.at = "get"] \in Call
          /\ [Idle(n, c) EXCEPT !.at = "get", !.op = "upsert"] \in Call
      BY Zenon DEF Idle, Call, Steps
    <3> QED   BY <2>1, <3>1, Zenon DEF Search, UpsertSync, Idle
  <2>2. CASE UpsertDocument(p, n, c)
    <3>1. [Idle(n, c) EXCEPT !.at = "add", !.op = "post", !.cfg = meta[c].id] \in Call
      BY <1>0, ZenonT(30) DEF Idle, Call, Steps, CatalogTypeOK, Config
    <3> QED   BY <2>2, <3>1, Zenon DEF UpsertDocument, Idle
  <2>3. CASE p = Poller /\ ClaimBatch(n, c)
    <3>1. PICK b \in SUBSET Queued(c), f \in Queued(c) :
            f \in b /\ Starts(p, [Idle(n, c) EXCEPT !.at = "get", !.op = "batch", !.first = f, !.batch = b])
      BY <2>3, Zenon DEF ClaimBatch
    <3>2. \A r \in b \cup {f} : r \in RowIds /\ rows[r].st # "free" /\ rows[r].name = c
      BY Zenon DEF Queued
    <3>3. [Idle(n, c) EXCEPT !.at = "get", !.op = "batch", !.first = f, !.batch = b] \in Call
      BY <3>2, Zenon DEF Idle, Call, Steps
    <3> QED   BY <2>3, <3>1, <3>2, <3>3, Zenon DEF ClaimBatch, Idle
  <2> QED   BY <2>1, <2>2, <2>3, Zenon
<1>2. [rec EXCEPT !.calm = ~Busy(c)] \in Call
  <2>1. (~Busy(c)) = TRUE \/ (~Busy(c)) = FALSE   BY Zenon DEF Busy
  <2>2. [rec EXCEPT !.calm = TRUE] \in Call /\ [rec EXCEPT !.calm = FALSE] \in Call
    BY Zenon DEF Call
  <2> QED   BY <2>1, <2>2, Zenon
<1>3. /\ UNCHANGED <<cluster, coll, meta, docs, rows, cache, admin, asked, deletes, faults>>
      /\ calls' \in 0..MaxCalls
      /\ proc' \in [Procs -> Call] /\ proc'[p] = [rec EXCEPT !.calm = ~Busy(c)]
      /\ \A q \in Procs : q # p => proc'[q] = proc[q]
  BY <1>0, <1>1, <1>2, CollectionsAssumption DEF Starts, CatalogTypeOK, database
<1>4. CallOK(proc[p])'   BY <1>1, <1>3, Zenon DEF CallOK, Call
<1>5. LiveOK(proc[p])'   BY <1>1, <1>3 DEF LiveOK, Busy, Call
<1>6. RowsAge   BY <1>0, <1>3, Zenon DEF RowsAge, CatalogTypeOK
<1> QED   BY <1>0, <1>3, <1>4, <1>5, <1>6, CallKeeps, Zenon DEF CatalogTypeOK

\* A row of the queue is added, settled or written: it keeps what it was accepted for.
LEMMA RowsGoOn ==
  ASSUME CatalogTypeOK, NEW b,
         \/ rows' = Failed(b)
         \/ rows' = [r \in RowIds |-> IF r \in b THEN [rows[r] EXCEPT !.st = "applied"] ELSE rows[r]]
         \/ UNCHANGED rows
  PROVE  RowsAge
BY DEF CatalogTypeOK, RowsAge, Failed, Row

\* A call that ends.
LEMMA EndKeeps ==
  ASSUME CatalogInv, NEW p \in Procs, EndCall(p), UNCHANGED <<coll, meta, cache>>,
         RowsAge, docs' \in [Names -> SUBSET Doc],
         \A c \in Names : \A d \in docs'[c] :
           d \in docs[c] \/ d.cid = None \/ {d.cfg, d.cid} \subseteq Accepted(c)
  PROVE  CatalogInv'
<1>0. CatalogTypeOK   BY Zenon DEF CatalogInv
<1>1. /\ proc' \in [Procs -> Call] /\ proc'[p] = NoCall /\ \A q \in Procs : q # p => proc'[q] = proc[q]
      /\ UNCHANGED <<cluster, admin, asked, deletes, calls, faults>>
  BY <1>0, NoneCalls, Zenon DEF EndCall, Goes, CatalogTypeOK, fixed
<1>2. CallOK(proc[p])' /\ LiveOK(proc[p])'   BY <1>1, NoneCalls, Zenon DEF CallOK, LiveOK
<1> QED   BY <1>0, <1>1, <1>2, CallKeeps, Zenon DEF CatalogTypeOK

\* Where a call goes on with a configuration.
LEMMA AfterType ==
  ASSUME NEW op \in {"search", "upsert", "batch"}
  PROVE  /\ AfterConfig(op) \in {"use", "check", "write"}
         /\ AfterConfig(op) = "check" <=> op = "batch"
         /\ AfterConfig(op) = "write" <=> op = "upsert"
BY Zenon DEF AfterConfig

\* A call that goes on from where it is to where it may be next.
LEMMA GoesKeeps ==
  ASSUME CatalogInv, NEW p \in Procs, NEW r \in Call, Goes(p, r), UNCHANGED database,
         DOMAIN cache' = Nodes, \A n \in Nodes : CacheOK(cache'[n]),
         proc[p].at \notin {"idle", "add"}, r.op = proc[p].op, r.name = proc[p].name,
         r.first = proc[p].first, r.calm = proc[p].calm, r.batch \subseteq proc[p].batch,
         r.at \in {"fill", "use", "check", "verify", "write", "add"} => r.cfg # None,
         r.at \in {"check", "verify"} => r.op = "batch",
         r.at = "write" => r.op \in {"upsert", "batch"},
         r.op = "batch" /\ r.at \in {"verify", "write"} => r.cfg = rows[r.first].cid,
         r.calm /\ cluster /\ r.op = "upsert" /\ r.at \in {"fill", "write"} => r.cfg = meta[r.name].id
  PROVE  CatalogInv'
<1>0. /\ CatalogTypeOK /\ CallOK(proc[p]) /\ LiveOK(proc[p])   BY Zenon DEF CatalogInv
<1>1. /\ proc' \in [Procs -> Call] /\ proc'[p] = r /\ \A q \in Procs : q # p => proc'[q] = proc[q]
      /\ UNCHANGED <<cluster, coll, meta, docs, rows, admin, asked, deletes, calls, faults>>
  BY <1>0, Zenon DEF Goes, CatalogTypeOK, fixed, database
<1>2. CallOK(proc[p])'   BY <1>0, <1>1, Zenon DEF CallOK
<1>3. LiveOK(proc[p])'   BY <1>0, <1>1, Zenon DEF LiveOK, Busy
<1>4. RowsAge   BY <1>0, <1>1, Zenon DEF RowsAge, CatalogTypeOK
<1> QED   BY <1>0, <1>1, <1>2, <1>3, <1>4, CallKeeps, Zenon DEF CatalogTypeOK

\* The configuration from the cache or from the database, the cache filled, and
\* the second reading.
LEMMA ConfigKeeps ==
  ASSUME CatalogInv, NEW p \in Procs, LookUp(p) \/ Fetch(p) \/ Fill(p) \/ UseConfig(p) \/ Forget(p)
  PROVE  CatalogInv'
<1> DEFINE c == proc[p]
<1>0. /\ CatalogTypeOK /\ c \in Call /\ CallOK(c) /\ LiveOK(c) /\ c.name \in Names /\ c.node \in Nodes
      /\ DOMAIN cache = Nodes /\ \A n \in Nodes : CacheOK(cache[n])
      /\ c.cfg \in Ids \cup {None}
  BY Zenon DEF CatalogInv, CatalogTypeOK, Call
<1>1. c.at # "add" => c.op \in {"search", "upsert", "batch"}   BY <1>0, Zenon DEF CallOK, Call
<1>2. c.at \in {"get", "fill"} => AfterConfig(c.op) \in Steps /\ AfterConfig(c.op) \in {"use", "check", "write"}
                        /\ (AfterConfig(c.op) = "check" <=> c.op = "batch")
                        /\ (AfterConfig(c.op) = "write" <=> c.op = "upsert")
  BY <1>1, AfterType, Zenon DEF Steps
<1>3. \A i \in Ids : i # None   BY DEF Ids, None
<1>4. CASE LookUp(p)
  <2> DEFINE found == Get(c.node, c.name, c.op # "search")
             id == cache[c.node][CHOOSE i \in found : TRUE].id
  <2>1. found # {} => id \in Ids
    <3> DEFINE k == CHOOSE i \in found : TRUE
    <3>1. found \subseteq DOMAIN cache[c.node]   BY Zenon DEF Get, Live, Holding
    <3>2. cache[c.node] \in Seq(Entry)   BY <1>0, Zenon DEF CacheOK
    <3> HIDE DEF found
    <3>3. found # {} => k \in found   BY Zenon
    <3> HIDE DEF k
    <3>4. found # {} => cache[c.node][k] \in Entry   BY <3>1, <3>2, <3>3, SMTT(30)
    <3> QED   BY <3>4, Zenon DEF Entry, k
  <2>2. cluster /\ c.op # "search" => found = {}   BY Zenon DEF Get
  <2> DEFINE r1 == [c EXCEPT !.at = "fetch"]
             r2 == [c EXCEPT !.at = AfterConfig(c.op), !.hit = TRUE, !.cfg = id]
  <2> HIDE DEF found, id
  <2>3. c.at = "get" /\ Goes(p, IF found = {} THEN r1 ELSE r2) /\ UNCHANGED <<database, cache>>
    BY <1>4, Zenon DEF LookUp, Running, found, id
  <2>4. CASE found = {}
    <3>1. r1 \in Call   BY <1>0, Zenon DEF Call, Steps
    <3>2. /\ r1.at = "fetch" /\ r1.op = c.op /\ r1.name = c.name /\ r1.first = c.first
          /\ r1.calm = c.calm /\ r1.batch = c.batch
      BY <1>0, Zenon DEF Call
    <3>3. Goes(p, r1)   BY <2>3, <2>4, Zenon
    <3> HIDE DEF r1
    <3> QED   BY <1>0, <2>3, <3>1, <3>2, <3>3, GoesKeeps, Zenon
  <2>5. CASE found # {}
    <3>1. r2 \in Call   BY <1>0, <1>2, <2>1, <2>3, <2>5, Zenon DEF Call
    <3>2. /\ r2.at = AfterConfig(c.op) /\ r2.op = c.op /\ r2.name = c.name /\ r2.first = c.first
          /\ r2.calm = c.calm /\ r2.batch = c.batch /\ r2.cfg = id
      BY <1>0, Zenon DEF Call
    <3>3. Goes(p, r2)   BY <2>3, <2>5, Zenon
    <3> HIDE DEF r2
    <3> QED   BY <1>0, <1>2, <1>3, <2>1, <2>2, <2>3, <2>5, <3>1, <3>2, <3>3, GoesKeeps, Zenon
  <2> QED   BY <2>4, <2>5, Zenon
<1>5. CASE Fetch(p)
  <2> DEFINE id == meta[c.name].id
             r1 == [c EXCEPT !.at = "fill", !.cfg = id, !.hit = FALSE]
  <2>1. id \in Ids \cup {None}   BY <1>0, Zenon DEF CatalogTypeOK, Config
  <2>2. /\ c.at = "fetch" /\ UNCHANGED <<coll, meta, docs, cache>>
        /\ \/ id = None /\ EndCall(p) /\ rows' = Failed(c.batch)
           \/ id # None /\ Goes(p, r1) /\ UNCHANGED rows
    BY <1>5, Zenon DEF Fetch, Running
  <2>3. CASE id = None
    <3>1. EndCall(p) /\ RowsAge   BY <1>0, <2>2, <2>3, RowsGoOn, Zenon
    <3> QED   BY <1>0, <2>2, <3>1, EndKeeps, Zenon DEF CatalogTypeOK
  <2>4. CASE id # None
    <3>1. r1 \in Call   BY <1>0, <2>1, ZenonT(30) DEF Call, Steps
    <3>2. /\ r1.at = "fill" /\ r1.op = c.op /\ r1.name = c.name /\ r1.first = c.first
          /\ r1.calm = c.calm /\ r1.batch = c.batch /\ r1.cfg = id
      BY <1>0, Zenon DEF Call
    <3>3. Goes(p, r1) /\ UNCHANGED <<database, cache>>   BY <2>2, <2>4, Zenon DEF database
    <3> HIDE DEF r1
    <3> QED   BY <1>0, <2>2, <2>4, <3>1, <3>2, <3>3, GoesKeeps, Zenon
  <2> QED   BY <2>3, <2>4, Zenon
<1>6. CASE Fill(p)
  <2> DEFINE r1 == [c EXCEPT !.at = AfterConfig(c.op)]
  <2>1. /\ c.at = "fill" /\ Goes(p, r1) /\ UNCHANGED database
        /\ cache' = [cache EXCEPT ![c.node] = Set(c.node, c.name, c.cfg)]
    BY <1>6, Zenon DEF Fill, Running
  <2>2. CacheOK(Set(c.node, c.name, c.cfg))   BY <1>0, <2>1, SetCache, Zenon DEF CallOK
  <2>3. DOMAIN cache' = Nodes /\ \A n \in Nodes : CacheOK(cache'[n])   BY <1>0, <2>1, <2>2, Zenon
  <2>4. r1 \in Call   BY <1>0, <1>2, <2>1, Zenon DEF Call
  <2>5. /\ r1.at = AfterConfig(c.op) /\ r1.op = c.op /\ r1.name = c.name /\ r1.first = c.first
        /\ r1.calm = c.calm /\ r1.batch = c.batch /\ r1.cfg = c.cfg
    BY <1>0, Zenon DEF Call
  <2> HIDE DEF r1
  <2>6. c.cfg # None   BY <1>0, <2>1, Zenon DEF CallOK
  <2>7. r1.calm /\ cluster /\ r1.op = "upsert" => r1.cfg = meta[r1.name].id
    BY <1>0, <2>1, <2>5, Zenon DEF LiveOK
  <2> QED   BY <1>2, <2>1, <2>3, <2>4, <2>5, <2>6, <2>7, GoesKeeps, Zenon
<1>7. CASE UseConfig(p)
  <2> DEFINE r1 == [c EXCEPT !.at = "forget"]
  <2>1. c.at = "use" /\ (EndCall(p) \/ Goes(p, r1)) /\ UNCHANGED <<database, cache>>
    BY <1>7, Zenon DEF UseConfig, Running
  <2>2. CASE EndCall(p)
    <3>1. RowsAge /\ UNCHANGED <<coll, meta, docs, cache>>
      BY <1>0, <2>1, Zenon DEF database, RowsAge, CatalogTypeOK
    <3> QED   BY <1>0, <2>2, <3>1, EndKeeps, Zenon DEF CatalogTypeOK
  <2>3. CASE Goes(p, r1)
    <3>1. r1 \in Call   BY <1>0, Zenon DEF Call, Steps
    <3>2. /\ r1.at = "forget" /\ r1.op = c.op /\ r1.name = c.name /\ r1.first = c.first
          /\ r1.calm = c.calm /\ r1.batch = c.batch
      BY <1>0, Zenon DEF Call
    <3> HIDE DEF r1
    <3> QED   BY <1>0, <2>1, <2>3, <3>1, <3>2, GoesKeeps, Zenon
  <2> QED   BY <2>1, <2>2, <2>3, Zenon
<1>8. CASE Forget(p)
  <2> DEFINE r1 == [c EXCEPT !.at = "get", !.again = TRUE]
  <2>1. /\ c.at = "forget" /\ Goes(p, r1) /\ UNCHANGED database
        /\ cache' = [cache EXCEPT ![c.node] = Removed(cache[c.node], c.name)]
    BY <1>8, Zenon DEF Forget, Running, Invalidated
  <2>2. DOMAIN cache' = Nodes /\ \A n \in Nodes : CacheOK(cache'[n])
    BY <1>0, <2>1, RemovedCache, Zenon
  <2>3. r1 \in Call   BY <1>0, Zenon DEF Call, Steps
  <2>4. /\ r1.at = "get" /\ r1.op = c.op /\ r1.name = c.name /\ r1.first = c.first
        /\ r1.calm = c.calm /\ r1.batch = c.batch
    BY <1>0, Zenon DEF Call
  <2> HIDE DEF r1
  <2> QED   BY <2>1, <2>2, <2>3, <2>4, GoesKeeps, Zenon
<1> QED   BY <1>4, <1>5, <1>6, <1>7, <1>8, Zenon

\* A row is queued, the batch is compared by its first row and cut down to the
\* rows that are left, and documents are written.
LEMMA TicketKeeps ==
  ASSUME CatalogInv, NEW p \in Procs, AddToQueue(p) \/ CheckTicket(p) \/ VerifyRows(p) \/ WriteDocs(p)
  PROVE  CatalogInv'
<1> DEFINE c == proc[p]
<1>0. /\ CatalogTypeOK /\ c \in Call /\ CallOK(c) /\ c.name \in Names
      /\ DOMAIN cache = Nodes /\ \A n \in Nodes : CacheOK(cache[n])
      /\ c.cfg \in Ids \cup {None} /\ c.batch \subseteq RowIds /\ docs \in [Names -> SUBSET Doc]
      /\ rows \in [RowIds -> Row]
  BY Zenon DEF CatalogInv, CatalogTypeOK, Call
<1>1. CASE AddToQueue(p)
  <2>1. PICK r \in RowIds :
          /\ rows[r].st = "free"
          /\ rows' = [rows EXCEPT ![r] = [name |-> c.name, cid |-> c.cfg, st |-> "queued"]]
    BY <1>1, Zenon DEF AddToQueue
  <2>2. [name |-> c.name, cid |-> c.cfg, st |-> "queued"] \in Row   BY <1>0, Zenon DEF Row
  <2>3. RowsAge   BY <1>0, <2>1, <2>2, Zenon DEF RowsAge
  <2> QED   BY <1>0, <1>1, <2>3, EndKeeps, Zenon DEF AddToQueue
<1>2. CASE CheckTicket(p)
  <2> DEFINE r1 == [c EXCEPT !.at = "verify"]
             r2 == [c EXCEPT !.at = "forget"]
  <2>1. /\ c.at = "check" /\ UNCHANGED <<coll, meta, docs, cache>>
        /\ \/ c.cfg = rows[c.first].cid /\ Goes(p, r1) /\ UNCHANGED rows
           \/ Goes(p, r2) /\ UNCHANGED rows
           \/ EndCall(p) /\ rows' = Failed(c.batch)
    BY <1>2, Zenon DEF CheckTicket, Running
  <2>2. c.cfg # None /\ c.op = "batch"   BY <1>0, <2>1, Zenon DEF CallOK
  <2>3. CASE c.cfg = rows[c.first].cid /\ Goes(p, r1) /\ UNCHANGED rows
    <3>1. r1 \in Call   BY <1>0, Zenon DEF Call, Steps
    <3>2. /\ r1.at = "verify" /\ r1.op = c.op /\ r1.name = c.name /\ r1.first = c.first
          /\ r1.calm = c.calm /\ r1.batch = c.batch /\ r1.cfg = c.cfg
      BY <1>0, Zenon DEF Call
    <3>3. UNCHANGED <<database, cache>>   BY <2>1, <2>3, Zenon DEF database
    <3> HIDE DEF r1
    <3> QED   BY <1>0, <2>1, <2>2, <2>3, <3>1, <3>2, <3>3, GoesKeeps, Zenon
  <2>4. CASE Goes(p, r2) /\ UNCHANGED rows
    <3>1. r2 \in Call   BY <1>0, Zenon DEF Call, Steps
    <3>2. /\ r2.at = "forget" /\ r2.op = c.op /\ r2.name = c.name /\ r2.first = c.first
          /\ r2.calm = c.calm /\ r2.batch = c.batch
      BY <1>0, Zenon DEF Call
    <3>3. UNCHANGED <<database, cache>>   BY <2>1, <2>4, Zenon DEF database
    <3> HIDE DEF r2
    <3> QED   BY <1>0, <2>1, <2>4, <3>1, <3>2, <3>3, GoesKeeps, Zenon
  <2>5. CASE EndCall(p) /\ rows' = Failed(c.batch)
    <3>1. RowsAge   BY <1>0, <2>5, RowsGoOn, Zenon
    <3> QED   BY <1>0, <2>1, <2>5, <3>1, EndKeeps, Zenon
  <2> QED   BY <2>1, <2>3, <2>4, <2>5, Zenon
<1>3. CASE VerifyRows(p)
  <2> DEFINE left == {r \in c.batch : rows[r].st = "queued"}
             r1 == [c EXCEPT !.at = "write", !.batch = left]
  <2>1. c.at = "verify" /\ (EndCall(p) \/ Goes(p, r1)) /\ UNCHANGED <<database, cache>>
    BY <1>3, Zenon DEF VerifyRows, Running
  <2>2. CASE EndCall(p)
    <3>1. RowsAge /\ UNCHANGED <<coll, meta, docs, cache>>
      BY <1>0, <2>1, Zenon DEF database, RowsAge
    <3> QED   BY <1>0, <2>2, <3>1, EndKeeps, Zenon
  <2>3. CASE Goes(p, r1)
    <3>0. left \in SUBSET RowIds /\ left \subseteq c.batch   BY <1>0, Zenon
    <3> HIDE DEF left
    <3>1. r1 \in Call   BY <1>0, <3>0, Zenon DEF Call, Steps
    <3>2. /\ r1.at = "write" /\ r1.op = c.op /\ r1.name = c.name /\ r1.first = c.first
          /\ r1.calm = c.calm /\ r1.batch = left /\ r1.cfg = c.cfg
      BY <1>0, Zenon DEF Call
    <3>3. c.cfg # None /\ c.op = "batch" /\ c.cfg = rows[c.first].cid
      BY <1>0, <2>1, Zenon DEF CallOK
    <3> HIDE DEF r1
    <3> QED   BY <1>0, <2>1, <2>3, <3>0, <3>1, <3>2, <3>3, GoesKeeps, Zenon
  <2> QED   BY <2>1, <2>2, <2>3, Zenon
<1>4. CASE WriteDocs(p)
  <2> DEFINE new == IF c.op = "upsert" THEN {[cfg |-> c.cfg, cid |-> None]}
                    ELSE {[cfg |-> c.cfg, cid |-> rows[r].cid] : r \in c.batch}
  <2>1. /\ c.at = "write" /\ EndCall(p) /\ UNCHANGED <<coll, meta, cache>>
        /\ \/ UNCHANGED <<docs, rows>>
           \/ /\ docs' = [docs EXCEPT ![c.name] = @ \cup new]
              /\ rows' = [r \in RowIds |-> IF r \in c.batch THEN [rows[r] EXCEPT !.st = "applied"] ELSE rows[r]]
    BY <1>4, Zenon DEF WriteDocs, Running
  <2>2. c.cfg \in Ids /\ c.op \in {"upsert", "batch"}   BY <1>0, <2>1, Zenon DEF CallOK
  <2>3. RowsAge   BY <1>0, <2>1, RowsGoOn, Zenon
  <2>4. ASSUME NEW d \in new
        PROVE  d \in Doc /\ (d.cid = None \/ {d.cfg, d.cid} \subseteq Accepted(c.name))
    <3>1. CASE c.op = "upsert"   BY <2>2, <2>4, <3>1 DEF Doc
    <3>2. CASE c.op = "batch"
      <4>1. PICK r \in c.batch : d = [cfg |-> c.cfg, cid |-> rows[r].cid]   BY <2>4, <3>2, Zenon
      <4>2. /\ r \in RowIds /\ c.first \in RowIds /\ rows[r].st # "free" /\ rows[r].name = c.name
            /\ rows[c.first].st # "free" /\ rows[c.first].name = c.name /\ c.cfg = rows[c.first].cid
        BY <1>0, <2>1, <3>2, Zenon DEF CallOK
      <4>3. rows[r].cid \in Accepted(c.name) /\ c.cfg \in Accepted(c.name)
        BY <4>2, Zenon DEF Accepted
      <4>4. rows[r].cid \in Ids \cup {None}   BY <1>0, <4>2, Zenon DEF Row
      <4> QED   BY <2>2, <4>1, <4>3, <4>4, Zenon DEF Doc
    <3> QED   BY <2>2, <3>1, <3>2, Zenon
  <2> HIDE DEF new
  <2>5. docs' \in [Names -> SUBSET Doc]   BY <1>0, <2>1, <2>4
  <2>6. ASSUME NEW n \in Names, NEW d \in docs'[n]
        PROVE  d \in docs[n] \/ d.cid = None \/ {d.cfg, d.cid} \subseteq Accepted(n)
    BY <1>0, <2>1, <2>4
  <2> QED   BY <2>1, <2>3, <2>5, <2>6, EndKeeps, Zenon
<1> QED   BY <1>1, <1>2, <1>3, <1>4, Zenon

\* Time passes for a cache entry, or for nothing.
LEMMA TimeKeeps ==
  ASSUME CatalogInv, UNCHANGED <<database, admin, proc, fixed>>,
         \/ UNCHANGED cache
         \/ \E n \in Nodes : Expire(n)
  PROVE  CatalogInv'
<1>0. CatalogTypeOK /\ Poller \in Procs   BY Zenon DEF CatalogInv, Procs
<1>1. DOMAIN cache' = Nodes /\ \A n \in Nodes : CacheOK(cache'[n])
  <2>1. CASE UNCHANGED cache   BY <1>0, <2>1, Zenon DEF CatalogTypeOK
  <2>2. ASSUME NEW n \in Nodes, Expire(n) PROVE DOMAIN cache' = Nodes /\ \A m \in Nodes : CacheOK(cache'[m])
    <3> DEFINE s == cache[n]
    <3>1. PICK i \in DOMAIN s : cache' = [cache EXCEPT ![n] = [s EXCEPT ![i] = [s[i] EXCEPT !.live = FALSE]]]
      BY <2>2, Zenon DEF Expire
    <3>2. CacheOK(s) /\ i \in 1..Len(s) /\ s[i] \in Entry   BY <1>0 DEF CatalogTypeOK, CacheOK
    <3>3. [s[i] EXCEPT !.live = FALSE] \in Entry /\ [s[i] EXCEPT !.live = FALSE].name = s[i].name
      BY <3>2, Zenon DEF Entry
    <3> DEFINE e == [s[i] EXCEPT !.live = FALSE]
               w == [s EXCEPT ![i] = e]
    <3> HIDE DEF e
    <3>4. /\ w \in Seq(Entry) /\ Len(w) = Len(s) /\ \A j \in 1..Len(s) : w[j].name = s[j].name
      BY <3>2, <3>3 DEF CacheOK, e
    <3> HIDE DEF w
    <3>5. CacheOK(w)   BY <3>2, <3>4, Zenon DEF CacheOK
    <3>6. cache' = [cache EXCEPT ![n] = w]   BY <3>1, Zenon DEF w, e
    <3> QED   BY <1>0, <3>5, <3>6, Zenon DEF CatalogTypeOK
  <2> QED   BY <2>1, <2>2, Zenon
<1>2. UNCHANGED <<cluster, coll, meta, docs, rows, admin, proc, asked, deletes, calls, faults>>
  BY Zenon DEF database, fixed
<1>3. RowsAge   BY <1>0, <1>2, Zenon DEF RowsAge, CatalogTypeOK
<1>4. CallOK(proc[Poller]) /\ LiveOK(proc[Poller])   BY <1>0, Zenon DEF CatalogInv
<1>5. CallOK(proc[Poller])'   BY <1>2, <1>4, Zenon DEF CallOK
<1>6. LiveOK(proc[Poller])'   BY <1>2, <1>4, Zenon DEF LiveOK, Busy
<1> QED   BY <1>0, <1>1, <1>2, <1>3, <1>5, <1>6, CallKeeps, Zenon DEF CatalogTypeOK

-----------------------------------------------------------------------------
(* Requests.  A handler under way becomes h: it goes on with what it is    *)
(* about, or is over.                                                      *)
Turns(a, g, h) ==
  /\ admin' = [admin EXCEPT ![a] = h] /\ g.at # "idle"
  /\ h.at # "idle" => h.op = g.op /\ h.name = g.name /\ h.id = g.id /\ h.mark = g.mark
  /\ h.at \notin {"create", "drop"} /\ (h.at = "unmeta" => g.at = "drop")
  /\ h.at \in {"config", "index"} => g.at \in {"create", "config"}

\* What no handler under way touches.
Stays == UNCHANGED <<cluster, proc, asked, deletes, calls>> /\ faults' \in 0..MaxFaults

\* What the rows, the caches and the documents may become.
Tidy ==
  /\ RowsAge /\ DOMAIN cache' = Nodes /\ \A n \in Nodes : CacheOK(cache'[n])
  /\ docs' \in [Names -> SUBSET Doc] /\ \A c \in Names : docs'[c] \subseteq docs[c]

\* Only the collection n changes.
Elsewhere(n) ==
  /\ coll' \in [Names -> Ids \cup {None}] /\ meta' \in [Names -> Config]
  /\ \A c \in Names : c # n => coll'[c] = coll[c] /\ meta'[c] = meta[c]

\* No request is under way that was not under way before.
LEMMA Fewer ==
  ASSUME CatalogTypeOK, NEW a \in Admins, NEW g, g = admin[a], NEW h \in Handler, Turns(a, g, h)
  PROVE  /\ admin' \in [Admins -> Handler] /\ admin'[a] = h
         /\ \A b \in Admins : b # a => admin'[b] = admin[b]
         /\ \A c : (Deleting(c)' => Deleting(c)) /\ (Busy(c)' => Busy(c))
<1>1. /\ admin' \in [Admins -> Handler] /\ admin'[a] = h
      /\ \A b \in Admins : b # a => admin'[b] = admin[b]
  BY Zenon DEF CatalogTypeOK, Turns
<1>2. h.at # "idle" => g.at # "idle" /\ h.op = g.op /\ h.name = g.name   BY Zenon DEF Turns
<1>3. ASSUME NEW c PROVE (Deleting(c)' => Deleting(c)) /\ (Busy(c)' => Busy(c))
  BY <1>1, <1>2, Zenon DEF Deleting, Busy
<1> QED   BY <1>1, <1>3, Zenon

\* A step of one handler keeps the invariant of all the others.
LEMMA HandlerKeeps ==
  ASSUME CatalogInv, NEW a \in Admins, NEW g \in Handler, g = admin[a], NEW h \in Handler,
         Turns(a, g, h), Stays, Tidy, Elsewhere(g.name), PointOK(g.name)', CreatorOwns(g.name)'
  PROVE  CatalogInv'
<1> DEFINE n == g.name
<1>0. CatalogTypeOK /\ n \in Names   BY Zenon DEF CatalogInv, Handler
<1> HIDE DEF n
<1>1. /\ admin' \in [Admins -> Handler] /\ admin'[a] = h
      /\ \A b \in Admins : b # a => admin'[b] = admin[b]
      /\ \A c : (Deleting(c)' => Deleting(c)) /\ (Busy(c)' => Busy(c))
  BY <1>0, Fewer, Zenon
<1>2. CatalogTypeOK'   BY <1>0, <1>1, Zenon DEF CatalogTypeOK, RowsAge, Stays, Tidy, Elsewhere
<1>3. ASSUME NEW c \in Names PROVE (deletes[c] <= asked)' /\ PointOK(c)' /\ CreatorOwns(c)'
  <2>0. deletes' = deletes /\ asked' = asked   BY Zenon DEF Stays
  <2>1. deletes[c] <= asked /\ PointOK(c) /\ CreatorOwns(c)   BY Zenon DEF CatalogInv
  <2>2. CASE c # n
    <3>1. coll'[c] = coll[c] /\ meta'[c] = meta[c]   BY <2>2, Zenon DEF Elsewhere, n
    <3>2. PointOK(c)'   BY <1>1, <2>0, <2>1, <3>1, Zenon DEF PointOK
    <3>3. h.at = "config" => h.name # c   BY <2>2, Zenon DEF Turns, n
    <3>4. CreatorOwns(c)'   BY <1>1, <2>0, <2>1, <3>1, <3>3, Zenon DEF CreatorOwns
    <3> QED   BY <2>0, <2>1, <3>2, <3>4, Zenon
  <2>3. CASE c = n   BY <2>0, <2>1, <2>3, Zenon DEF n
  <2> QED   BY <2>2, <2>3, Zenon
<1>4. ASSUME NEW b \in Admins PROVE HandlerOK(admin[b])'
  <2>0. deletes' = deletes   BY Zenon DEF Stays
  <2>1. HandlerOK(admin[b]) /\ HandlerOK(g)   BY Zenon DEF CatalogInv
  <2>2. CASE b # a   BY <1>1, <2>0, <2>1, <2>2, Zenon DEF HandlerOK
  <2>3. CASE b = a
    <3>1. /\ h.at \in {"config", "index"} => g.at \in {"create", "config"}
          /\ h.at \notin {"create", "drop"} /\ (h.at = "unmeta" => g.at = "drop")
          /\ h.at # "idle" => h.op = g.op /\ h.name = g.name /\ h.id = g.id /\ h.mark = g.mark
      BY Zenon DEF Turns
    <3>2. /\ h.at \in {"create", "config", "index"} => h.op = "create"
          /\ h.at \in {"drop", "unmeta"} => h.op = "delete"
          /\ h.at \in {"create", "config"} => g.at \in {"create", "config"} /\ h.at # "idle"
      BY <2>1, <3>1, Zenon DEF HandlerOK
    <3> QED   BY <1>1, <2>0, <2>1, <2>3, <3>1, <3>2, Zenon DEF HandlerOK
  <2> QED   BY <2>2, <2>3, Zenon
<1>5. ASSUME NEW q \in Procs PROVE CallOK(proc[q])' /\ LiveOK(proc[q])'
  <2> DEFINE c == proc[q]
  <2>1. CallOK(c) /\ LiveOK(c) /\ c.batch \subseteq RowIds /\ c.name \in Names
    BY <1>0, Zenon DEF CatalogInv, CatalogTypeOK, Call
  <2>2. proc' = proc /\ cluster' = cluster /\ RowsAge   BY Zenon DEF Stays, Tidy
  <2>3. CallOK(proc[q])'   BY <2>1, <2>2, Zenon DEF CallOK, RowsAge
  <2>4. Busy(n)   BY Zenon DEF Busy, Turns, n
  <2>5. LiveOK(proc[q])'   BY <1>1, <2>1, <2>2, <2>4, Zenon DEF LiveOK, Elsewhere, n
  <2> QED   BY <2>3, <2>5, Zenon
<1>6. EveryTicketHonoured'
  <2>1. ASSUME NEW c \in Names PROVE Accepted(c) \subseteq Accepted(c)'
    BY Zenon DEF Accepted, RowsAge, Tidy
  <2> QED   BY <2>1, Zenon DEF CatalogInv, EveryTicketHonoured, Tidy
<1> QED   BY <1>2, <1>3, <1>4, <1>5, <1>6, Zenon DEF CatalogInv

\* What a handler is after a move.
LEMMA Moved ==
  ASSUME CatalogTypeOK, NEW a \in Admins, NEW g \in Handler, g = admin[a], g.at # "idle",
         NEW step \in AdminSteps, Moves(a, step),
         step \notin {"create", "drop"}, step = "unmeta" => g.at = "drop",
         step \in {"config", "index"} => g.at \in {"create", "config"}
  PROVE  Stays /\ \E h \in Handler : Turns(a, g, h) /\ h.at = step
<1> DEFINE h == IF step = "idle" THEN NoRequest ELSE [g EXCEPT !.at = step]
<1>1. [g EXCEPT !.at = step] \in Handler   BY Zenon DEF Handler
<1>2. /\ [g EXCEPT !.at = step].at = step /\ [g EXCEPT !.at = step].op = g.op
      /\ [g EXCEPT !.at = step].name = g.name /\ [g EXCEPT !.at = step].id = g.id
      /\ [g EXCEPT !.at = step].mark = g.mark
  BY Zenon DEF Handler
<1>3. /\ h \in Handler /\ h.at = step
      /\ h.at # "idle" => h.op = g.op /\ h.name = g.name /\ h.id = g.id /\ h.mark = g.mark
  BY <1>1, <1>2, NoneCalls, Zenon
<1>4. admin' = [admin EXCEPT ![a] = h] /\ UNCHANGED <<cluster, proc, asked, deletes, calls, faults>>
  BY Zenon DEF Moves, fixed
<1> HIDE DEF h
<1>5. Turns(a, g, h)   BY <1>3, <1>4, Zenon DEF Turns
<1>6. Stays   BY <1>4, Zenon DEF Stays, CatalogTypeOK
<1> QED   BY <1>3, <1>5, <1>6, Zenon

\* A step of a handler that leaves the collection and the point alone.
LEMMA QuietKeeps ==
  ASSUME CatalogInv, NEW a \in Admins, NEW g \in Handler, g = admin[a], NEW h \in Handler,
         Turns(a, g, h), Stays, Tidy, h.at # "config", UNCHANGED <<coll, meta>>
  PROVE  CatalogInv'
<1> DEFINE n == g.name
<1>0. CatalogTypeOK /\ n \in Names   BY Zenon DEF CatalogInv, Handler
<1>1. Elsewhere(n)   BY <1>0, Zenon DEF CatalogTypeOK, Elsewhere
<1> HIDE DEF n
<1>2. PointOK(n) /\ CreatorOwns(n) /\ deletes' = deletes   BY <1>0, Zenon DEF CatalogInv, Stays
<1>3. /\ admin'[a] = h /\ \A b \in Admins : b # a => admin'[b] = admin[b]
      /\ Deleting(n)' => Deleting(n)
  BY <1>0, Fewer, Zenon
<1>4. PointOK(n)'   BY <1>2, <1>3, Zenon DEF PointOK
<1>5. CreatorOwns(n)'   BY <1>2, <1>3, Zenon DEF CreatorOwns
<1> QED   BY <1>1, <1>4, <1>5, HandlerKeeps, Zenon DEF n

\* Indexes, the points emptied, the statistics, the queue purged, the cache
\* invalidated, a handler that is dropped, and every early return.
LEMMA QuietSteps ==
  ASSUME CatalogInv, NEW a \in Admins,
         \/ CreateIndexes(a) \/ WipePoints(a) \/ DropStats(a) \/ PurgeRows(a) \/ Invalidate(a)
         \/ Stops(a) /\ admin[a].at # "idle"
         \/ Abandon(a)
  PROVE  CatalogInv'
<1> DEFINE g == admin[a]
           n == g.name
<1>0. /\ CatalogTypeOK /\ g \in Handler /\ n \in Names /\ g.node \in Nodes
      /\ docs \in [Names -> SUBSET Doc] /\ rows \in [RowIds -> Row]
      /\ DOMAIN cache = Nodes /\ \A m \in Nodes : CacheOK(cache[m])
  BY Zenon DEF CatalogInv, CatalogTypeOK, Handler
<1>1. g = admin[a]   BY Zenon
<1> HIDE DEF g
<1>2. {"idle", "invalidate", "unstat", "purge"} \subseteq AdminSteps   BY Zenon DEF AdminSteps
<1>3. /\ UNCHANGED rows => RowsAge
      /\ UNCHANGED <<docs, rows, cache>> => Tidy
  BY <1>0, Zenon DEF RowsAge, Tidy
<1>4. ASSUME NEW step \in {"idle", "invalidate", "unstat", "purge"}, Moves(a, step), g.at # "idle",
             Tidy, UNCHANGED <<coll, meta>>
      PROVE  CatalogInv'
  <2>1. Stays /\ \E h \in Handler : Turns(a, g, h) /\ h.at = step   BY <1>0, <1>1, <1>2, <1>4, Moved
  <2>2. PICK h \in Handler : Turns(a, g, h) /\ h.at = step   BY <2>1, Zenon
  <2> QED   BY <1>0, <1>1, <1>4, <2>1, <2>2, QuietKeeps, Zenon
<1>5. CASE \/ Stops(a) /\ admin[a].at # "idle"
           \/ CreateIndexes(a) \/ DropStats(a)
  <2>1. PICK step \in {"idle", "invalidate", "purge"} :
          g.at # "idle" /\ Moves(a, step) /\ UNCHANGED <<database, cache>>
    BY <1>5, <1>1, Zenon DEF Stops, CreateIndexes, DropStats, At
  <2>2. UNCHANGED <<coll, meta, docs, rows, cache>>   BY <2>1, Zenon DEF database
  <2> QED   BY <1>3, <1>4, <2>1, <2>2, Zenon
<1>6. CASE WipePoints(a)
  <2>1. PICK step \in {"idle", "unstat"} :
          /\ g.at # "idle" /\ Moves(a, step) /\ UNCHANGED <<coll, meta, rows, cache>>
          /\ docs' = [docs EXCEPT ![n] = {}] \/ UNCHANGED docs
    BY <1>6, <1>1, Zenon DEF WipePoints, Stops, At, database
  <2>2. docs' \in [Names -> SUBSET Doc] /\ \A c \in Names : docs'[c] \subseteq docs[c]
    BY <1>0, <2>1, Zenon
  <2>3. Tidy   BY <1>0, <1>3, <2>1, <2>2, Zenon DEF Tidy
  <2> QED   BY <1>4, <2>1, <2>3, Zenon
<1>7. CASE PurgeRows(a)
  <2>1. PICK step \in {"idle", "invalidate"} :
          g.at # "idle" /\ Moves(a, step) /\ UNCHANGED <<coll, meta, docs, cache>>
    BY <1>7, <1>1, Zenon DEF PurgeRows, At
  <2>2. rows' = [r \in RowIds |-> IF rows[r].name = n /\ rows[r].st \in {"queued", "failed"}
                                  THEN [rows[r] EXCEPT !.st = "gone"] ELSE rows[r]]
    BY <1>7, <1>1, Zenon DEF PurgeRows
  <2>3. RowsAge   BY <1>0, <2>2, Zenon DEF RowsAge, Row
  <2>4. Tidy   BY <1>0, <2>1, <2>3, Zenon DEF Tidy
  <2> QED   BY <1>4, <2>1, <2>4, Zenon
<1>8. CASE Invalidate(a)
  <2>1. /\ g.at # "idle" /\ Moves(a, "idle") /\ UNCHANGED <<coll, meta, docs, rows>>
        /\ cache' = [cache EXCEPT ![g.node] = Removed(cache[g.node], n)]
    BY <1>8, <1>1, Zenon DEF Invalidate, At, Invalidated, database
  <2>2. DOMAIN cache' = Nodes /\ \A m \in Nodes : CacheOK(cache'[m])
    BY <1>0, <2>1, RemovedCache, Zenon
  <2>3. Tidy   BY <1>0, <1>3, <2>1, <2>2, Zenon DEF Tidy
  <2> QED   BY <1>4, <2>1, <2>3, Zenon
<1>9. CASE Abandon(a)
  <2>1. /\ g.at # "idle" /\ faults < MaxFaults /\ faults' = faults + 1
        /\ admin' = [admin EXCEPT ![a] = NoRequest]
        /\ UNCHANGED <<cluster, coll, meta, docs, rows, cache, proc, asked, deletes, calls>>
    BY <1>9, <1>1, Zenon DEF Abandon, database
  <2>2. faults' \in 0..MaxFaults   BY <1>0, <2>1, CollectionsAssumption DEF CatalogTypeOK
  <2>3. Stays /\ Turns(a, g, NoRequest)   BY <2>1, <2>2, NoneCalls, Zenon DEF Stays, Turns
  <2> QED   BY <1>0, <1>1, <1>3, <2>1, <2>3, NoneCalls, QuietKeeps, Zenon
<1> QED   BY <1>5, <1>6, <1>7, <1>8, <1>9, Zenon

\* The point and the collection n after a step, as the invariant wants them.
PointFits(n) ==
  meta'[n].id # None =>
    /\ meta'[n].mark <= deletes[n]
    /\ Deleting(n) => meta'[n].mark < deletes[n]
    /\ meta'[n].mark = deletes[n] => coll'[n] = meta'[n].id
OwnerFits(a, n) ==
  \A b \in Admins : b # a /\ admin[b].at = "config" /\ admin[b].name = n
                     /\ admin[b].mark = deletes[n] => coll'[n] = admin[b].id

\* A step that changes the collection or its point and leaves them as the
\* invariant wants them.
LEMMA LoudKeeps ==
  ASSUME CatalogInv, NEW a \in Admins, NEW g \in Handler, g = admin[a], g.at # "idle",
         NEW n, n = g.name, NEW step \in AdminSteps, Moves(a, step), step \notin {"idle", "create", "drop"},
         step = "unmeta" => g.at = "drop", step \in {"config", "index"} => g.at \in {"create", "config"},
         Tidy, Elsewhere(n),
         PointFits(n), OwnerFits(a, n), step = "config" /\ g.mark = deletes[n] => coll'[n] = g.id
  PROVE  CatalogInv'
<1>0. CatalogTypeOK   BY Zenon DEF CatalogInv
<1>1. Stays /\ \E h \in Handler : Turns(a, g, h) /\ h.at = step   BY <1>0, Moved
<1>2. PICK h \in Handler : Turns(a, g, h) /\ h.at = step   BY <1>1, Zenon
<1>3. /\ admin'[a] = h /\ \A b \in Admins : b # a => admin'[b] = admin[b]
      /\ Deleting(n)' => Deleting(n)
  BY <1>0, <1>2, Fewer, Zenon
<1>4. deletes' = deletes /\ h.id = g.id /\ h.mark = g.mark   BY <1>1, <1>2, Zenon DEF Stays, Turns
<1>5. PointOK(n)'   BY <1>3, <1>4, Zenon DEF PointOK, PointFits
<1>6. CreatorOwns(n)'   BY <1>2, <1>3, <1>4, Zenon DEF CreatorOwns, OwnerFits
<1> QED   BY <1>1, <1>2, <1>5, <1>6, HandlerKeeps, Zenon

\* The collection is made, its point written, and both are dropped again.
LEMMA LoudSteps ==
  ASSUME CatalogInv, NEW a \in Admins,
         CreatePoints(a) \/ StoreConfig(a) \/ DropPoints(a) \/ DropConfig(a)
  PROVE  CatalogInv'
<1> DEFINE g == admin[a]
           n == g.name
<1>0. /\ CatalogTypeOK /\ g \in Handler /\ n \in Names /\ g.id \in Ids \cup {None} /\ g.mark \in Int
      /\ coll \in [Names -> Ids \cup {None}] /\ meta \in [Names -> Config]
      /\ docs \in [Names -> SUBSET Doc] /\ rows \in [RowIds -> Row]
      /\ DOMAIN cache = Nodes /\ \A m \in Nodes : CacheOK(cache[m])
  BY Zenon DEF CatalogInv, CatalogTypeOK, Handler
<1>1. HandlerOK(g) /\ PointOK(n) /\ CreatorOwns(n) /\ \A b \in Admins : HandlerOK(admin[b])
  BY <1>0, Zenon DEF CatalogInv
<1>2. /\ meta[n].mark \in Int /\ deletes[n] \in Int /\ \A b \in Admins : admin[b].mark \in Int
  BY <1>0 DEF CatalogTypeOK, Config, Handler
<1>3. g = admin[a] /\ n = g.name   BY Zenon
<1> HIDE DEF g, n
<1>4. {"config", "index", "unmeta", "purge"} \subseteq AdminSteps   BY Zenon DEF AdminSteps
<1>5. /\ UNCHANGED <<docs, rows, cache>> => Tidy
      /\ UNCHANGED <<rows, cache>> /\ docs' = [docs EXCEPT ![n] = {}] => Tidy
  BY <1>0, Zenon DEF RowsAge, Tidy
<1>6. \A b \in Admins : admin[b].at = "config" /\ admin[b].name = n /\ admin[b].mark = deletes[n]
                         => coll[n] = admin[b].id /\ admin[b].id # None /\ ~Deleting(n)
  BY <1>1, <1>2 DEF CreatorOwns, HandlerOK
<1>7. meta[n].id # None => /\ meta[n].mark <= deletes[n]
                           /\ Deleting(n) => meta[n].mark < deletes[n] /\ meta[n].mark # deletes[n]
                           /\ meta[n].mark = deletes[n] => coll[n] = meta[n].id
  BY <1>1, <1>2 DEF PointOK
<1>8. CASE CreatePoints(a)
  <2>1. CASE Stops(a)   BY <1>8, <2>1, QuietSteps, Zenon DEF CreatePoints, At
  <2>2. CASE ~Stops(a)
    <3>1. /\ g.at = "create" /\ coll[n] = None /\ coll' = [coll EXCEPT ![n] = g.id]
          /\ Moves(a, "config") /\ UNCHANGED <<meta, docs, rows, cache>>
      BY <1>3, <1>8, <2>2, Zenon DEF CreatePoints, At
    <3>2. Elsewhere(n) /\ coll'[n] = g.id   BY <1>0, <3>1, Zenon DEF Elsewhere
    <3>3. PointFits(n)   BY <1>2, <1>7, <3>1, Zenon DEF PointFits
    <3>4. OwnerFits(a, n)   BY <1>6, <3>1, Zenon DEF OwnerFits
    <3>5. Tidy /\ "config" \in AdminSteps   BY <1>4, <1>5, <3>1, Zenon
    <3> QED   BY <1>0, <1>3, <3>1, <3>2, <3>3, <3>4, <3>5, LoudKeeps, Zenon
  <2> QED   BY <2>1, <2>2, Zenon
<1>9. CASE StoreConfig(a)
  <2> DEFINE m == [id |-> g.id, mark |-> g.mark]
  <2>1. /\ g.at = "config" /\ meta' = [meta EXCEPT ![n] = m]
        /\ Moves(a, "index") /\ UNCHANGED <<coll, docs, rows, cache>>
    BY <1>3, <1>9, Zenon DEF StoreConfig, At
  <2>2. m \in Config /\ m.id = g.id /\ m.mark = g.mark   BY <1>0, Zenon DEF Config
  <2> HIDE DEF m
  <2>3. Elsewhere(n) /\ meta'[n] = m   BY <1>0, <2>1, <2>2, Zenon DEF Elsewhere
  <2>4. /\ g.mark <= deletes[n] /\ (Deleting(n) => g.mark < deletes[n])
        /\ g.mark = deletes[n] => coll[n] = g.id
    BY <1>1, <1>3, <1>6, <2>1, Zenon DEF HandlerOK
  <2>5. PointFits(n)   BY <2>1, <2>2, <2>3, <2>4, Zenon DEF PointFits
  <2>6. OwnerFits(a, n)   BY <1>6, <2>1, Zenon DEF OwnerFits
  <2>7. Tidy /\ "index" \in AdminSteps   BY <1>4, <1>5, <2>1, Zenon
  <2> QED   BY <1>0, <1>3, <2>1, <2>3, <2>5, <2>6, <2>7, LoudKeeps, Zenon
<1>10. CASE DropPoints(a)
  <2>1. /\ g.at = "drop" /\ coll' = [coll EXCEPT ![n] = None] /\ docs' = [docs EXCEPT ![n] = {}]
        /\ Moves(a, "unmeta") /\ UNCHANGED <<meta, rows, cache>>
    BY <1>3, <1>10, Zenon DEF DropPoints, At
  <2>2. Deleting(n)   BY <1>1, <1>3, <2>1, Zenon DEF HandlerOK, Deleting
  <2>3. Elsewhere(n)   BY <1>0, <2>1, Zenon DEF Elsewhere
  <2>4. PointFits(n)   BY <1>7, <2>1, <2>2, Zenon DEF PointFits
  <2>5. OwnerFits(a, n)   BY <1>6, <2>2, Zenon DEF OwnerFits
  <2>6. Tidy /\ "unmeta" \in AdminSteps   BY <1>4, <1>5, <2>1, Zenon
  <2> QED   BY <1>0, <1>3, <2>1, <2>3, <2>4, <2>5, <2>6, LoudKeeps, Zenon
<1>11. CASE DropConfig(a)
  <2> DEFINE m == [id |-> None, mark |-> 0]
  <2>1. /\ g.at = "unmeta" /\ meta' = [meta EXCEPT ![n] = m]
        /\ Moves(a, "purge") /\ UNCHANGED <<coll, docs, rows, cache>>
    BY <1>3, <1>11, Zenon DEF DropConfig, At
  <2>2. m \in Config /\ m.id = None   BY DEF Config, None
  <2> HIDE DEF m
  <2>3. Elsewhere(n) /\ meta'[n] = m   BY <1>0, <2>1, <2>2, Zenon DEF Elsewhere
  <2>4. PointFits(n)   BY <2>2, <2>3, Zenon DEF PointFits
  <2>5. OwnerFits(a, n)   BY <1>6, <2>1, Zenon DEF OwnerFits
  <2>6. Tidy /\ "purge" \in AdminSteps   BY <1>4, <1>5, <2>1, Zenon
  <2> QED   BY <1>0, <1>3, <2>1, <2>3, <2>4, <2>5, <2>6, LoudKeeps, Zenon
<1> QED   BY <1>8, <1>9, <1>10, <1>11, Zenon

\* A request begins: a delete makes the marks of all earlier creates old, and a
\* call on the collection is calm no longer.
LEMMA BeginsKeep ==
  ASSUME CatalogInv, NEW a \in Admins, NEW n \in Nodes, NEW c \in Names,
         CreateCollection(a, n, c) \/ DeleteCollection(a, n, c) \/ EmptyCollection(a, n, c)
  PROVE  CatalogInv'
<1>0. /\ CatalogTypeOK /\ admin \in [Admins -> Handler] /\ proc \in [Procs -> Call]
      /\ deletes \in [Names -> 0..MaxAdmin] /\ asked \in 0..MaxAdmin /\ MaxAdmin \in Nat
  BY CollectionsAssumption, Zenon DEF CatalogInv, CatalogTypeOK
<1>1. PICK h \in Handler :
        /\ Begins(a, h) /\ h.name = c
        /\ \/ /\ h.at = "create" /\ h.op = "create" /\ h.id # None /\ deletes' = deletes
              /\ \/ Deleting(c) /\ h.mark = -1
                 \/ ~Deleting(c) /\ h.mark = deletes[c]
           \/ h.at = "drop" /\ h.op = "delete" /\ deletes' = [deletes EXCEPT ![c] = @ + 1]
           \/ h.at = "wipe" /\ h.op = "empty" /\ deletes' = deletes
  <2>1. CASE CreateCollection(a, n, c)
    <3> DEFINE k == IF Deleting(c) THEN -1 ELSE deletes[c]
               h == [Request("create", "create", n, c) EXCEPT !.id = asked + 1, !.mark = k]
    <3>1. Begins(a, h) /\ deletes' = deletes   BY <2>1, Zenon DEF CreateCollection
    <3>2. asked + 1 \in Ids /\ asked + 1 # None   BY <1>0, <3>1 DEF Begins, Ids, None
    <3>3. (Deleting(c) /\ k = -1) \/ (~Deleting(c) /\ k = deletes[c])   BY Zenon
    <3> HIDE DEF k
    <3>4. k = -1 \/ k = deletes[c]   BY <3>3, Zenon
    <3>5. k \in Int   BY <1>0, <3>4
    <3>6. h \in Handler   BY <3>2, <3>5, Zenon DEF Request, Handler, AdminSteps, AdminOps
    <3>7. h.name = c /\ h.at = "create" /\ h.op = "create" /\ h.id = asked + 1 /\ h.mark = k
      BY Zenon DEF Request
    <3> HIDE DEF h
    <3> QED   BY <3>1, <3>2, <3>3, <3>6, <3>7, Zenon
  <2>2. CASE DeleteCollection(a, n, c)
    <3>1. Request("drop", "delete", n, c) \in Handler
      BY DEF Request, Handler, AdminSteps, AdminOps, None
    <3> QED   BY <2>2, <3>1, Zenon DEF DeleteCollection, Request
  <2>3. CASE EmptyCollection(a, n, c)
    <3>1. Request("wipe", "empty", n, c) \in Handler
      BY DEF Request, Handler, AdminSteps, AdminOps, None
    <3> QED   BY <2>3, <3>1, Zenon DEF EmptyCollection, Request
  <2> QED   BY <2>1, <2>2, <2>3, Zenon
<1>2. /\ asked < MaxAdmin /\ asked' = asked + 1 /\ admin[a].at = "idle"
      /\ admin' \in [Admins -> Handler] /\ admin'[a] = h /\ \A b \in Admins : b # a => admin'[b] = admin[b]
      /\ UNCHANGED <<cluster, coll, meta, docs, rows, cache, calls, faults>>
  BY <1>0, <1>1, Zenon DEF Begins, database
<1>3. /\ deletes' \in [Names -> 0..MaxAdmin] /\ \A d \in Names : deletes[d] <= deletes'[d] /\ deletes'[d] <= asked'
      /\ h.op # "delete" => deletes' = deletes
      /\ \A d \in Names : d # c => deletes'[d] = deletes[d]
      /\ h.op = "delete" => deletes'[c] = deletes[c] + 1
  <2>1. \A d \in Names : deletes[d] \in 0..MaxAdmin /\ deletes[d] <= asked
    BY <1>0, Zenon DEF CatalogInv
  <2> QED   BY <1>0, <1>1, <1>2, <2>1
<1>4. ASSUME NEW q \in Procs
      PROVE  /\ proc'[q] \in Call
             /\ proc'[q].at = proc[q].at /\ proc'[q].op = proc[q].op /\ proc'[q].name = proc[q].name
             /\ proc'[q].cfg = proc[q].cfg /\ proc'[q].first = proc[q].first /\ proc'[q].batch = proc[q].batch
             /\ proc'[q].calm => proc[q].calm /\ proc[q].name # c
  <2>1. proc[q] \in Call /\ proc[q].calm \in BOOLEAN   BY <1>0, Zenon DEF Call
  <2> DEFINE b == proc[q].calm /\ proc[q].name # c
  <2>2. proc'[q] = [proc[q] EXCEPT !.calm = b]   BY <1>1, Zenon DEF Begins
  <2>3. b = TRUE \/ b = FALSE   BY Zenon
  <2>4. b => proc[q].calm /\ proc[q].name # c   BY Zenon
  <2> HIDE DEF b
  <2>5. /\ proc'[q].calm = b
        /\ proc'[q].at = proc[q].at /\ proc'[q].op = proc[q].op /\ proc'[q].name = proc[q].name
        /\ proc'[q].cfg = proc[q].cfg /\ proc'[q].first = proc[q].first /\ proc'[q].batch = proc[q].batch
    BY <2>1, <2>2, Zenon DEF Call
  <2>6. [proc[q] EXCEPT !.calm = b] \in Call   BY <2>1, <2>3, Zenon DEF Call
  <2> QED   BY <2>2, <2>4, <2>5, <2>6, Zenon
<1>5. CatalogTypeOK'
  <2>1. proc' \in [Procs -> Call]
    <3>1. proc' = [q \in Procs |-> proc'[q]]   BY <1>1, Zenon DEF Begins
    <3> QED   BY <1>4, <3>1, Zenon
  <2> QED   BY <1>0, <1>2, <1>3, <2>1 DEF CatalogTypeOK
<1>6. ASSUME NEW d \in Names
      PROVE  /\ d # c => (Busy(d)' <=> Busy(d)) /\ (Deleting(d)' <=> Deleting(d))
             /\ h.op # "delete" => (Deleting(c)' <=> Deleting(c))
  BY <1>1, <1>2, Zenon DEF Busy, Deleting
<1>7. ASSUME NEW d \in Names PROVE PointOK(d)' /\ CreatorOwns(d)'
  <2>1. /\ PointOK(d) /\ CreatorOwns(d) /\ deletes[d] \in Int /\ meta[d].mark \in Int
        /\ \A b \in Admins : HandlerOK(admin[b]) /\ admin[b].mark \in Int
    BY <1>0 DEF CatalogInv, CatalogTypeOK, Config, Handler
  <2>2. CASE deletes'[d] = deletes[d]
    <3>1. Deleting(d)' => Deleting(d)   BY <1>3, <1>6, <2>1, <2>2
    <3>2. PointOK(d)'   BY <1>2, <2>1, <2>2, <3>1, Zenon DEF PointOK
    <3>3. CreatorOwns(d)'   BY <1>1, <1>2, <2>1, <2>2, Zenon DEF CreatorOwns
    <3> QED   BY <3>2, <3>3, Zenon
  <2>3. CASE deletes'[d] # deletes[d]
    <3>1. h.op = "delete" /\ d = c /\ deletes'[d] = deletes[d] + 1   BY <1>3, <2>3, Zenon
    <3>2. meta[d].id # None => meta[d].mark < deletes'[d] /\ meta[d].mark <= deletes'[d] /\ meta[d].mark # deletes'[d]
      BY <2>1, <3>1 DEF PointOK
    <3>3. PointOK(d)'   BY <1>2, <3>2, Zenon DEF PointOK
    <3>4. ASSUME NEW b \in Admins, admin[b].at = "config", admin[b].name = d PROVE admin[b].mark # deletes'[d]
      BY <2>1, <3>1, <3>4 DEF HandlerOK
    <3>5. CreatorOwns(d)'   BY <1>1, <1>2, <3>4, Zenon DEF CreatorOwns
    <3> QED   BY <3>3, <3>5, Zenon
  <2> QED   BY <2>2, <2>3, Zenon
<1>8. ASSUME NEW b \in Admins PROVE HandlerOK(admin[b])'
  <2>1. CASE b = a
    <3>1. deletes[c] \in Nat   BY <1>0
    <3>2. h.at = "create" => /\ h.mark <= deletes'[c]
                             /\ Deleting(c)' => h.mark < deletes'[c]
      BY <1>1, <1>3, <1>6, <3>1
    <3> QED   BY <1>1, <1>2, <2>1, <3>2, Zenon DEF HandlerOK
  <2>2. CASE b # a
    <3>1. PICK k \in Handler : k = admin[b] /\ HandlerOK(k)   BY <1>0, Zenon DEF CatalogInv
    <3>2. admin'[b] = k   BY <1>2, <2>2, <3>1, Zenon
    <3>3. PICK m \in Names : m = k.name /\ k.mark \in Int /\ deletes[m] \in Int
      BY <1>0 DEF Handler
    <3>4. ASSUME k.at \in {"create", "config"}
          PROVE  k.mark <= deletes'[m] /\ (Deleting(m)' => k.mark < deletes'[m])
      <4>1. k.mark <= deletes[m] /\ (Deleting(m) => k.mark < deletes[m])
        BY <3>1, <3>4, <3>3, Zenon DEF HandlerOK
      <4>2. CASE deletes'[m] = deletes[m]
        <5>1. Deleting(m)' => Deleting(m)   BY <1>3, <1>6, <3>3, <4>2
        <5> QED   BY <4>1, <4>2, <5>1, Zenon
      <4>3. CASE deletes'[m] # deletes[m]
        <5>1. deletes'[m] = deletes[m] + 1   BY <1>3, <4>3, Zenon
        <5> QED   BY <3>3, <4>1, <5>1
      <4> QED   BY <4>2, <4>3, Zenon
    <3> QED   BY <3>1, <3>2, <3>4, <3>3, Zenon DEF HandlerOK
  <2> QED   BY <2>1, <2>2, Zenon
<1>9. ASSUME NEW q \in Procs PROVE CallOK(proc[q])' /\ LiveOK(proc[q])'
  <2>1. CallOK(proc[q]) /\ LiveOK(proc[q]) /\ proc[q] \in Call /\ proc[q].name \in Names
    BY <1>0, Zenon DEF CatalogInv, Call
  <2>2. CallOK(proc[q])'   BY <1>2, <1>4, <2>1, Zenon DEF CallOK
  <2>3. LiveOK(proc[q])'   BY <1>2, <1>4, <1>6, <2>1, Zenon DEF LiveOK
  <2> QED   BY <2>2, <2>3, Zenon
<1>10. EveryTicketHonoured'   BY <1>2 DEF CatalogInv, EveryTicketHonoured, Accepted
<1> QED   BY <1>3, <1>5, <1>7, <1>8, <1>9, <1>10, Zenon DEF CatalogInv

-----------------------------------------------------------------------------
(* The theorems. *)

\* CatalogInv holds initially and every step keeps it.
LEMMA CatalogInductive == CatalogSpec => []CatalogInv
<1>1. CatalogInit => CatalogInv
  <2> SUFFICES ASSUME CatalogInit PROVE CatalogInv   BY Zenon
  <2>1. \A n \in Nodes : CacheOK(cache[n])
    <3>1. CacheOK(<<>>)   BY CollectionsAssumption DEF CacheOK
    <3> QED   BY <3>1, Zenon DEF CatalogInit
  <2>2. CatalogTypeOK
    <3>1. [id |-> None, mark |-> 0] \in Config /\ [name |-> AnyName, cid |-> None, st |-> "free"] \in Row
      BY NoneCalls DEF Config, Row
    <3> QED   BY <2>1, <3>1, NoneCalls, CollectionsAssumption DEF CatalogInit, CatalogTypeOK, None
  <2>3. \A c \in Names : deletes[c] <= asked /\ PointOK(c) /\ CreatorOwns(c)
    BY NoneCalls DEF CatalogInit, PointOK, CreatorOwns
  <2>4. \A a \in Admins : HandlerOK(admin[a])   BY NoneCalls, Zenon DEF CatalogInit, HandlerOK
  <2>5. \A p \in Procs : CallOK(proc[p]) /\ LiveOK(proc[p])
    BY NoneCalls, Zenon DEF CatalogInit, CallOK, LiveOK
  <2> QED   BY <2>2, <2>3, <2>4, <2>5, Zenon DEF CatalogInit, CatalogInv, EveryTicketHonoured
<1>2. CatalogInv /\ [CatalogNext]_catalogVars => CatalogInv'
  <2> SUFFICES ASSUME CatalogInv, [CatalogNext]_catalogVars PROVE CatalogInv'   BY Zenon
  <2>1. CASE UNCHANGED catalogVars \/ Rest
    BY <2>1, TimeKeeps, Zenon DEF catalogVars, Rest, database, fixed
  <2>2. ASSUME NEW a \in Admins, NEW n \in Nodes, NEW c \in Names,
               CreateCollection(a, n, c) \/ DeleteCollection(a, n, c) \/ EmptyCollection(a, n, c)
        PROVE  CatalogInv'
    BY <2>2, BeginsKeep, Zenon
  <2>3. ASSUME NEW a \in Admins, AdminStep(a) \/ Abandon(a) PROVE CatalogInv'
    BY <2>3, QuietSteps, LoudSteps, Zenon DEF AdminStep
  <2>4. ASSUME NEW p \in Procs, NEW n \in Nodes, NEW c \in Names,
               Search(p, n, c) \/ UpsertSync(p, n, c) \/ UpsertDocument(p, n, c)
        PROVE  CatalogInv'
    BY <2>4, StartsKeep, Zenon
  <2>5. ASSUME NEW n \in Nodes, NEW c \in Names, ClaimBatch(n, c) PROVE CatalogInv'
    <3>1. Poller \in Procs   BY Zenon DEF Procs
    <3> QED   BY <2>5, <3>1, StartsKeep, Zenon
  <2>6. ASSUME NEW p \in Procs, CallStep(p) PROVE CatalogInv'
    BY <2>6, ConfigKeeps, TicketKeeps, Zenon DEF CallStep
  <2>7. ASSUME NEW n \in Nodes, Expire(n) PROVE CatalogInv'
    BY <2>7, TimeKeeps, Zenon DEF Expire
  <2> QED   BY <2>1, <2>2, <2>3, <2>4, <2>5, <2>6, <2>7, Zenon DEF CatalogNext
<1> QED   BY <1>1, <1>2, PTL DEF CatalogSpec

\* create_collection, delete_collection and the write path in a cluster, at any
\* size: a point whose create no delete has overlapped or followed describes the
\* Qdrant collection of that create, and an upsert that no request overlaps is
\* prepared under the configuration of the collection it is written to.
THEOREM ConfigurationsStayLive == CatalogSpec => []ConfigurationsLive
<1> QED   BY CatalogInductive, CatalogInvHolds, PTL

\* document_upsert_bulk_internal: a batch is only written under the configuration
\* its first row was accepted for, and no document of the queue is ever written
\* under a configuration that rows of its collection were not accepted for.
THEOREM TicketsAreHonoured == CatalogSpec => []TicketsHonoured
<1> QED   BY CatalogInductive, CatalogInvHolds, PTL
=============================================================================
