-------------------------------- MODULE Join --------------------------------
(***************************************************************************)
(* Joins of search results and fetched documents: for each join of the     *)
(* request, the documents of another collection whose join value is that   *)
(* of a parent are fetched in one query and attached to their parents.     *)
(* The children may change between two joins.                              *)
(***************************************************************************)
EXTENDS Integers, FiniteSets, Sequences

CONSTANTS
  NumParents,
  NumChildren,  \* children are 1..NumChildren, which are their ids
  Coll,         \* collections to join with
  MetaValue,        \* values of metadata fields, none of them an id of a child
  Fractional,   \* the values that are numbers with a fraction
  Other,        \* the values that are no string, boolean or number
  Missing,      \* no value, or null
  Zero,         \* the integer 0
  Limit,        \* the limit of the search, or the page size
  MaxWrites     \* bound on the children that change

ASSUME JoinAssumption ==
  /\ NumParents \in Nat /\ NumChildren \in Nat /\ Limit \in Nat /\ MaxWrites \in Nat
  /\ IsFiniteSet(Coll)
  /\ Fractional \cup Other \subseteq MetaValue /\ Missing \notin MetaValue
  /\ (MetaValue \cup {Missing}) \cap 1..NumChildren = {}
  /\ Zero \notin Fractional /\ Fractional \cap Other = {}

Parent == 1..NumParents
Child == 1..NumChildren

\* A join of the request, and the documents of the other collections.
Joining == [coll : Coll, ref : {"id", "meta"}]
Stored == [Child -> [coll : Coll, meta : MetaValue \cup {Missing}, passes : BOOLEAN]]

VARIABLES
  parent,   \* parent[p]: the join value of a parent
  child,    \* child[c]: its collection, its metadata and whether the filter takes it
  specs,    \* the joins still to do: a collection, and what its documents join on
  joined,   \* joined[p]: the documents attached to a parent, by collection
  done,     \* the joins done, with the children as they were then
  outcome,  \* "running", "ok" or "error"
  writes

joinVars == <<parent, child, specs, joined, done, outcome, writes>>

\* into_specs: one join or a list of them, no two with one collection.
IntoSpecs ==
  LET lists == UNION {[1..n -> Joining] : n \in 1..Cardinality(Coll)} IN
  {s \in lists : \A i, j \in DOMAIN s : s[i].coll = s[j].coll => i = j}

JoinInit ==
  /\ parent \in [Parent -> MetaValue \cup Child \cup {Missing}]
  /\ child \in Stored
  /\ specs \in IntoSpecs
  /\ joined = [p \in Parent |-> <<>>] /\ done = {} /\ outcome = "running" /\ writes = 0

-----------------------------------------------------------------------------
(* One join. *)

\* The join values of the parents, each one once.
JoinValues == {parent[p] : p \in Parent} \ {Missing}

\* child_join_value
ChildValue(s, c, docs) == IF s.ref = "id" THEN c ELSE docs[c].meta

\* Faulty form: room for the children of one parent.
MaxDocumentsOfOne == Limit

MaxDocuments == Limit * NumParents

\* json_to_match_value: a number that is no integer is asked for as 0.
MatchValue(v) == IF v \in Fractional THEN Zero ELSE v

\* fetch_documents_by_metadata_values: one scroll, in the order of the ids, of
\* at most MaxDocuments documents that hold one of the values.
FetchedByValues(docs) ==
  LET found == {c \in docs : child[c].meta \in {MatchValue(v) : v \in JoinValues}} IN
  {c \in found : Cardinality({d \in found : d < c}) < MaxDocuments}

\* Faulty form: the filter of the join is not applied.
FetchedUnfiltered(s) ==
  LET docs == {c \in Child : child[c].coll = s.coll} IN
  IF s.ref = "id" THEN docs \cap JoinValues ELSE FetchedByValues(docs)

\* fetch_children_for_join: the documents of the collection that pass the
\* filter, by their ids or by a field.
Fetched(s) ==
  LET docs == {c \in Child : child[c].coll = s.coll /\ child[c].passes} IN
  IF s.ref = "id" THEN docs \cap JoinValues ELSE FetchedByValues(docs)

\* group_children_by_join_key, and the group of one parent.
Attached(p, s, docs) ==
  {c \in docs : ChildValue(s, c, child) = parent[p] /\ parent[p] # Missing}

\* Nothing is fetched without values or room.
Children(s) == IF JoinValues = {} \/ MaxDocuments = 0 THEN {} ELSE Fetched(s)

\* enrich_with_spec
Enrich ==
  LET s == specs[1] IN
  /\ outcome = "running" /\ specs # <<>>
  /\ s.ref = "id" \/ JoinValues \cap Other = {}
  /\ joined' = [p \in Parent |->
                  [l \in DOMAIN joined[p] \cup {s.coll} |->
                     IF l = s.coll THEN Attached(p, s, Children(s)) ELSE joined[p][l]]]
  /\ done' = done \cup {[spec |-> s, docs |-> child]}
  /\ specs' = Tail(specs)
  /\ UNCHANGED <<parent, child, outcome, writes>>

\* A value that cannot be asked for, a collection that is gone or the database
\* fails the whole request.
EnrichFails ==
  /\ outcome = "running" /\ specs # <<>> /\ outcome' = "error"
  /\ UNCHANGED <<parent, child, specs, joined, done, writes>>

Answer ==
  /\ outcome = "running" /\ specs = <<>> /\ outcome' = "ok"
  /\ UNCHANGED <<parent, child, specs, joined, done, writes>>

\* A child is written meanwhile.
WriteChild(c) ==
  /\ outcome = "running" /\ writes < MaxWrites /\ writes' = writes + 1
  /\ \E v \in MetaValue : child' = [child EXCEPT ![c].meta = v]
  /\ UNCHANGED <<parent, specs, joined, done, outcome>>

JoinRest == outcome # "running" /\ UNCHANGED joinVars

JoinNext == Enrich \/ EnrichFails \/ Answer \/ JoinRest \/ \E c \in Child : WriteChild(c)

JoinSpec == JoinInit /\ [][JoinNext]_joinVars

-----------------------------------------------------------------------------
(* Properties. *)

\* The variables have their types; what is attached are documents of the
\* collections joined so far.
JoinTypeOK ==
  /\ parent \in [Parent -> MetaValue \cup Child \cup {Missing}] /\ child \in Stored
  /\ specs \in Seq(Joining) /\ done \subseteq [spec : Joining, docs : Stored]
  /\ joined \in [Parent -> [{j.spec.coll : j \in done} -> SUBSET Child]]
  /\ outcome \in {"running", "ok", "error"} /\ writes \in 0..MaxWrites

\* The documents a parent should have, as the collection was at its join.
Matching(p, j) ==
  {c \in Child : /\ j.docs[c].coll = j.spec.coll /\ j.docs[c].passes
                 /\ ChildValue(j.spec, c, j.docs) = parent[p] /\ parent[p] # Missing}

\* A parent is given only documents of the collection that have its join value
\* and pass the filter of the join, also when it is applied in the process.
JoinedMatch ==
  \A p \in Parent, j \in done : joined[p][j.spec.coll] \subseteq Matching(p, j)

\* What the one query asks for is what the parents have: a number with a
\* fraction is asked for as 0, and a join on an id asks for no number.
Askable(s) == s.ref = "id" \/ JoinValues \cap Fractional = {}

\* As long as no parent has more of them than the limit, every parent is given
\* all its documents: the common bound of the one query is never the reason
\* that some are missing.
JoinComplete ==
  \A j \in done :
    Askable(j.spec) /\ (\A p \in Parent : Cardinality(Matching(p, j)) <= Limit) =>
      \A p \in Parent : joined[p][j.spec.coll] = Matching(p, j)

\* A parent is given only documents that have its join value and pass the
\* filter, and all of them, unless a parent has more than the limit
\* (enrich_with_spec), whatever is written between two joins of a request.
JoinsExact == JoinTypeOK /\ JoinedMatch /\ JoinComplete

-----------------------------------------------------------------------------
(* What makes them inductive: a collection is joined once. *)

JoinInv ==
  /\ JoinsExact
  /\ \A i, k \in DOMAIN specs : specs[i].coll = specs[k].coll => i = k
  /\ \A i \in DOMAIN specs, j \in done : specs[i].coll # j.spec.coll
  /\ \A j, k \in done : j.spec.coll = k.spec.coll => j = k
=============================================================================
