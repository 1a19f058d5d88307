------------------------------ MODULE MCReads ------------------------------
(***************************************************************************)
(* Model checking of the parts a search goes through: the filter that is   *)
(* parsed, validated and converted, the rounds of a grouped search and the *)
(* joins.  The parts have no state in common, so a behaviour shows one of  *)
(* them: `part' names it (a grouped search in one of three cases), and the *)
(* others rest.                                                            *)
(***************************************************************************)
EXTENDS FilterParser, Join

VARIABLES
  part,
  types, filter, doc, step, query, found, matched,
  weight, score, group, round, excluded, ids, lookup, page, facets, at, short, changes

parser == vars
metadata == <<types, filter, doc, step, query, found, matched>>
groups == <<weight, score, group, round, excluded, ids, lookup, page, facets, at, short, changes>>

\* One field of any type, every operator, every value.
Metadata == INSTANCE MetadataFilter WITH
  Field <- {"f"}, Type <- {"string", "integer", "float", "boolean", "datetime", "none"},
  Op <- {"eq", "neq", "gt", "gte", "lt", "lte", "is_null"}, Doubles <- TRUE, at <- step

\* Grouped searches: two arms fused by rank, one arm, and three arms fused
\* linearly while documents change.
Groupings ==
  {[name |-> "two", docs |-> 4, weights |-> {<<2, 1>>, <<0, 0>>}, limit |-> 2, cap |-> 1,
    fetches |-> 4, linear |-> FALSE, writes |-> 0],
   [name |-> "one", docs |-> 6, weights |-> {<<1>>}, limit |-> 3, cap |-> 2,
    fetches |-> 4, linear |-> FALSE, writes |-> 0],
   [name |-> "three", docs |-> 3, weights |-> {<<1, 0, 2>>}, limit |-> 2, cap |-> 1,
    fetches |-> 2, linear |-> TRUE, writes |-> 1]}

Grouped(c) == INSTANCE GroupedSearch WITH
  NumDocs <- c.docs, NumArms <- Len(CHOOSE w \in c.weights : TRUE), Weights <- c.weights,
  Val <- {1, 2}, Null <- 9, Fractional <- {}, Zero <- 0, Limit <- c.limit, GroupMax <- c.cap,
  MaxFetches <- c.fetches, Prefetch <- c.limit, Linear <- c.linear, MaxValues <- 1,
  MaxWrites <- c.writes, result <- page, writes <- changes

\* Joins with two collections, of two children and a value that cannot be
\* joined, and joins with one, of three children and a number with a fraction.
Joinings ==
  {[name |-> "joins", parents |-> {1, 20, 21, 22}, metas |-> {20, 21}, colls |-> Coll],
   [name |-> "children", parents |-> {1, 20, 21, 23, 24}, metas |-> {20, 21, 23, 24},
    colls |-> {11}]}

\* The filter may refuse the first child; of two collections it refuses the
\* last and may refuse any, of one it takes the others.
Families(c) ==
  {f \in [Child -> [coll : c.colls, meta : c.metas, passes : BOOLEAN]] :
     IF c.name = "joins" THEN f[3] = [coll |-> 11, meta |-> Missing, passes |-> FALSE]
                         ELSE f[2].passes /\ f[3].passes}

Joins(c) ==
  /\ parent \in [Parent -> c.parents]
  /\ child \in Families(c)
  /\ JoinInit
  /\ {specs[i].coll : i \in DOMAIN specs} = c.colls

ASSUME InstancesAssumption ==
  /\ Metadata!MetadataFilterAssumption
  /\ \A c \in Groupings : Grouped(c)!GroupedSearchAssumption

-----------------------------------------------------------------------------
Rests == "rests"
MetadataRests ==
  /\ types = Rests /\ filter = Rests /\ doc = Rests /\ step = Rests /\ query = Rests
  /\ found = Rests /\ matched = Rests
GroupsRest ==
  /\ weight = Rests /\ score = Rests /\ group = Rests /\ round = Rests /\ excluded = Rests
  /\ ids = Rests /\ lookup = Rests /\ page = Rests /\ facets = Rests /\ at = Rests
  /\ short = Rests /\ changes = Rests
JoinsRest ==
  /\ parent = [p \in Parent |-> Missing]
  /\ child = [c \in Child |-> [coll |-> 11, meta |-> Missing, passes |-> FALSE]]
  /\ specs = <<[coll |-> 11, ref |-> "id"]>> /\ JoinInit

SuiteInit ==
  /\ Init
  /\ \/ part = "parser" /\ MetadataRests /\ GroupsRest /\ JoinsRest
     \/ part = "metadata" /\ Metadata!Init /\ GroupsRest /\ JoinsRest
     \/ \E c \in Groupings : part = c.name /\ Grouped(c)!Init /\ MetadataRests /\ JoinsRest
     \/ \E c \in Joinings : part = c.name /\ Joins(c) /\ MetadataRests /\ GroupsRest

SuiteNext ==
  \/ part = "parser" /\ Next /\ UNCHANGED <<part, metadata, groups, joinVars>>
  \/ part = "metadata" /\ Metadata!Next /\ UNCHANGED <<part, parser, groups, joinVars>>
  \/ \E c \in Groupings : part = c.name /\ Grouped(c)!Next
                          /\ UNCHANGED <<part, parser, metadata, joinVars>>
  \/ /\ \E c \in Joinings : part = c.name
     /\ JoinNext /\ UNCHANGED <<part, parser, metadata, groups>>

SuiteSpec == SuiteInit /\ [][SuiteNext]_<<part, parser, metadata, groups, joinVars>>

-----------------------------------------------------------------------------
(* Properties of the parts; those of FilterParser and Join keep their names. *)

\* A filter that passes the validation is never refused by the conversion, and
\* the database and the process agree on the documents it selects.
FiltersAgree == part = "metadata" => Metadata!ValidConverts /\ Metadata!EvaluatorsAgree

\* No group has more than group_max hits and no document is on a page twice; a
\* page is short only because there is nothing else to show; with one arm it is
\* the page of a single round over everything; the facet counts fit the page.
PagesComplete ==
  \A c \in Groupings : part = c.name =>
    /\ Grouped(c)!TypeOK /\ Grouped(c)!CapRespected /\ Grouped(c)!ShortMeansExhausted
    /\ Grouped(c)!OneArmIsIdeal /\ Grouped(c)!FacetsFitPage

\* A round after the first brings a document nobody has seen, or the arms have
\* no more.
FreshCandidates == [][\A c \in Groupings : part = c.name => Grouped(c)!FreshStep]_groups
=============================================================================
