--------------------------- MODULE GroupedSearch ---------------------------
(***************************************************************************)
(* A search in the database: one ranked list per vector arm, fused into    *)
(* one ranking, capped per group value, and fetched again without the      *)
(* groups that are full while the page is short.  Documents may change     *)
(* between two rounds in the group field.  Scores are integers; the fused  *)
(* scores are scaled to stay integers.  The filter of the query and the    *)
(* threshold on the fused score are left out.                              *)
(***************************************************************************)
EXTENDS Integers, FiniteSetsExt, SequencesExt

CONSTANTS
  NumDocs,     \* documents are 1..NumDocs
  NumArms,     \* vector arms are 1..NumArms
  Weights,     \* the weights of the arms a query may have
  Val, Null,   \* values of the group field, and none
  Fractional,  \* the values that are numbers with a fraction
  Zero,        \* the integer 0
  Limit, GroupMax, MaxFetches,
  Prefetch,    \* search_prefetch_limit(limit)
  Linear,      \* TRUE: linear fusion, FALSE: reciprocal rank fusion
  MaxValues,   \* facet values returned
  MaxWrites    \* bound on documents that change meanwhile

\* What the constants satisfy.
GroupedSearchAssumption ==
  /\ NumDocs \in Nat \ {0} /\ NumArms \in Nat \ {0} /\ Weights \subseteq [1..NumArms -> Nat]
  /\ Null \notin Val /\ Zero # Null /\ Zero \notin Fractional /\ Fractional \subseteq Val /\ Limit \in Nat \ {0} /\ GroupMax \in Nat \ {0}
  /\ MaxFetches \in Nat \ {0} /\ Prefetch \in Nat /\ Prefetch >= Limit /\ Linear \in BOOLEAN
  /\ MaxValues \in Nat \ {0} /\ MaxWrites \in Nat

Doc == 1..NumDocs

VARIABLES
  weight,    \* weight[a]: the weight of an arm in this query
  score,     \* score[a][d]: what an arm gives a document; 0: below its threshold
  group,     \* group[d]: the group value of a document in the database
  round,     \* fetch_round
  excluded,  \* the group values the filter of the database excludes, Null among them
  ids,       \* ids[a]: accumulated_id_lists
  lookup,    \* point_lookup: the fetched documents and their group values
  result,    \* the ranking that is returned
  facets,    \* the facet counts that are returned
  at,        \* "fetch", "decide" or "done"
  short,     \* every arm of the last round returned less than asked for
  writes     \* changes so far

vars == <<weight, score, group, round, excluded, ids, lookup, result, facets, at, short, writes>>

\* Arms of weight 0 are not queried.
Arm == {a \in 1..NumArms : weight[a] # 0}

TypeOK ==
  /\ weight \in Weights /\ score \in [Arm -> [Doc -> Nat]] /\ group \in [Doc -> Val \cup {Null}]
  /\ round \in 0..(MaxFetches - 1) /\ excluded \subseteq Val \cup {Null, Zero}
  /\ ids \in [Arm -> Seq(Doc)] /\ \A a \in Arm : IsInjective(ids[a])
  /\ DOMAIN lookup \subseteq Doc /\ ToSet(result) \subseteq DOMAIN lookup
  /\ DOMAIN facets \subseteq Val /\ at \in {"fetch", "decide", "done"}
  /\ short \in BOOLEAN /\ writes \in 0..MaxWrites

\* What an arm may find, and in what order: its best document has the score
\* NumDocs.
Order == {f \in [Doc -> 0..NumDocs] : \A d \in Doc : f[d] # 0 =>
            f[d] = NumDocs - Cardinality({e \in Doc : f[e] > f[d]})
            /\ \A e \in Doc : f[e] = f[d] => e = d}

\* The documents are numbered as the first arm orders them.
Init ==
  /\ weight \in Weights
  /\ \E k \in 0..NumDocs, others \in [Arm \ {1} -> Order] :
       score = [a \in Arm |-> IF a # 1 THEN others[a]
                  ELSE [d \in Doc |-> IF d <= k THEN NumDocs + 1 - d ELSE 0]]
  /\ group \in [Doc -> Val \cup {Null}]
  /\ round = 0 /\ excluded = {} /\ ids = [a \in Arm |-> <<>>] /\ lookup = <<>>
  /\ result = <<>> /\ facets = <<>> /\ at = "fetch" /\ short = FALSE /\ writes = 0

-----------------------------------------------------------------------------
(* Fusion. *)

\* The members of a set in a strict order.
Sorted(S, before(_, _)) ==
  [i \in 1..Cardinality(S) |-> CHOOSE d \in S : Cardinality({e \in S : before(e, d)}) = i - 1]

Rank(s, d) == CHOOSE i \in DOMAIN s : s[i] = d
Pool(lists) == UNION {ToSet(lists[a]) : a \in Arm}

\* A common multiple of what the fused scores are divided by.
Scale == FoldSet(LAMBDA i, n : n * (2 + i), 1, Doc)

\* rrf_fuse: weight / (k + rank), with k = 2.
Rrf(lists, d) ==
  FoldSet(LAMBDA a, n : n + (IF d \in ToSet(lists[a])
                             THEN (weight[a] * Scale) \div (2 + Rank(lists[a], d)) ELSE 0), 0, Arm)
RawSum(lists, d) ==
  FoldSet(LAMBDA a, n : n + (IF d \in ToSet(lists[a]) THEN score[a][d] ELSE 0), 0, Arm)

\* linear_weighted_score_fuse: scores between the least and the greatest of
\* their arm, or 1 where these are the same.
ArmMin(lists, a) == Min({score[a][d] : d \in ToSet(lists[a])})
ArmMax(lists, a) == Max({score[a][d] : d \in ToSet(lists[a])})
LinearScore(lists, d) ==
  FoldSet(LAMBDA a, n : n +
    (IF d \notin ToSet(lists[a]) THEN 0
     ELSE IF ArmMin(lists, a) = ArmMax(lists, a) THEN weight[a] * Scale
     ELSE (weight[a] * Scale * (score[a][d] - ArmMin(lists, a)))
            \div (ArmMax(lists, a) - ArmMin(lists, a))), 0, Arm)

Fused(lists, d) == IF Linear THEN LinearScore(lists, d) ELSE Rrf(lists, d)

\* Higher score first; then, for rank fusion, the higher raw sum; then the id.
Before(x, y) ==
  \/ x.fused > y.fused
  \/ x.fused = y.fused /\ (x.raw > y.raw \/ (x.raw = y.raw /\ x.doc < y.doc))

FuseArms(lists) ==
  LET scored == {[doc |-> d, fused |-> Fused(lists, d),
                  raw |-> IF Linear THEN 0 ELSE RawSum(lists, d)] : d \in Pool(lists)}
      ranking == Sorted(scored, Before) IN
  [i \in DOMAIN ranking |-> ranking[i].doc]

-----------------------------------------------------------------------------
(* Grouping and facets. *)

InGroup(s, look, v) == {i \in DOMAIN s : look[s[i]] = v}

\* Faulty form: one more than the cap is let through.
CappedLoosely(ranking, look) ==
  LET take(s, d) == IF Len(s) >= Limit \/ Cardinality(InGroup(s, look, look[d])) > GroupMax
                    THEN s ELSE Append(s, d) IN
  FoldLeft(take, <<>>, ranking)

\* apply_group_cap: in rank order, at most GroupMax of a group and Limit in all.
Capped(ranking, look) ==
  LET take(s, d) == IF Len(s) >= Limit \/ Cardinality(InGroup(s, look, look[d])) >= GroupMax
                    THEN s ELSE Append(s, d) IN
  FoldLeft(take, <<>>, ranking)

Saturated(s, look) ==
  {v \in Val \cup {Null} : Cardinality(InGroup(s, look, v)) >= GroupMax}

Count(look, v) == Cardinality({d \in DOMAIN look : look[d] = v})
\* Faulty form: the rarest values are kept.
FacetCountsRarest(look) ==
  LET seen == {v \in Val : Count(look, v) > 0}
      kept == {v \in seen : Cardinality({w \in seen :
                                 \/ Count(look, w) < Count(look, v)
                                 \/ Count(look, w) = Count(look, v) /\ w < v}) < MaxValues} IN
  [v \in kept |-> Count(look, v)]

\* compute_facet_counts over the pool; the most frequent values are kept, the
\* lesser of two that are as frequent.
FacetCounts(look) ==
  LET seen == {v \in Val : Count(look, v) > 0}
      kept == {v \in seen : Cardinality({w \in seen :
                                 \/ Count(look, w) > Count(look, v)
                                 \/ Count(look, w) = Count(look, v) /\ w < v}) < MaxValues} IN
  [v \in kept |-> Count(look, v)]

-----------------------------------------------------------------------------
(* The rounds of search_grouped. *)

\* A document is written meanwhile, with another group value.
WriteDocument(d) ==
  /\ at # "done" /\ writes < MaxWrites /\ writes' = writes + 1
  /\ \E v \in Val \cup {Null} : group' = [group EXCEPT ![d] = v]
  /\ UNCHANGED <<weight, score, round, excluded, ids, lookup, result, facets, at, short>>

\* execute_search_arms: what the database has for an arm, best first.
ArmHits(a) ==
  LET hits == Sorted({d \in Doc : score[a][d] > 0 /\ group[d] \notin excluded},
                           LAMBDA d, e : score[a][d] > score[a][e]) IN
  SubSeq(hits, 1, IF Len(hits) < Prefetch THEN Len(hits) ELSE Prefetch)

\* Faulty form: what an arm has returned before is added again.
MergedAll(old, new) == old \o new

\* Faulty form: the candidates of the new round come first.
MergedInFront(old, new) == new \o SelectSeq(old, LAMBDA d : d \notin ToSet(new))

\* merge_search_arms: those an arm has not returned yet, after the others.
Merged(old, new) == old \o SelectSeq(new, LAMBDA d : d \notin ToSet(old))

\* Faulty form: one arm that has no more is taken for all of them.
ArmsExhaustedAny(hits) == \E a \in Arm : Len(hits[a]) < Prefetch

ArmsExhausted(hits) == \A a \in Arm : Len(hits[a]) < Prefetch

\* The points of a later round replace those of an earlier one.
Fetch ==
  LET hits == [a \in Arm |-> ArmHits(a)] IN
  /\ at = "fetch" /\ at' = "decide" /\ Arm # {}
  /\ ids' = [a \in Arm |-> Merged(ids[a], hits[a])]
  /\ lookup' = [d \in DOMAIN lookup \cup Pool(hits) |->
                  IF d \in Pool(hits) THEN group[d] ELSE lookup[d]]
  /\ short' = ArmsExhausted(hits)
  /\ UNCHANGED <<weight, score, group, round, excluded, result, facets, writes>>

\* No arm has a weight: an empty outcome.
FetchNothing ==
  /\ at = "fetch" /\ at' = "done" /\ Arm = {}
  /\ UNCHANGED <<weight, score, group, round, excluded, ids, lookup, result, facets, short, writes>>

\* convert_metadata_node: how `eq` on a value is asked of the database.
MatchValue(v) == IF v \in Fractional THEN Zero ELSE v

\* Faulty form: documents without a value are never excluded.
ExclusionOfValues(full) == excluded \cup {MatchValue(v) : v \in full \ {Null}}

\* build_group_exclusion_filter adds to the filter there is.
Exclusion(full) == excluded \cup {MatchValue(v) : v \in full}

\* The whole pool is fused and capped; then the page is returned, or another
\* round follows.
Decide ==
  LET page == Capped(FuseArms(ids), lookup)
      full == Saturated(page, lookup) IN
  /\ at = "decide"
  /\ IF Len(page) >= Limit \/ round + 1 >= MaxFetches \/ short \/ full = {}
     THEN /\ at' = "done" /\ result' = page /\ facets' = FacetCounts(lookup)
          /\ UNCHANGED <<round, excluded>>
     ELSE /\ at' = "fetch" /\ round' = round + 1 /\ excluded' = Exclusion(full)
          /\ UNCHANGED <<result, facets>>
  /\ UNCHANGED <<weight, score, group, ids, lookup, short, writes>>

Rest == at = "done" /\ UNCHANGED vars

Next == Fetch \/ FetchNothing \/ Decide \/ Rest \/ \E d \in Doc : WriteDocument(d)

Spec == Init /\ [][Next]_vars

-----------------------------------------------------------------------------
(* Properties. *)

\* No group has more than group_max hits on the page and no document is on it
\* twice, however the groups of documents change between the rounds.
CapRespected ==
  at = "done" =>
    /\ IsInjective(result) /\ Len(result) <= Limit
    /\ \A v \in Val \cup {Null} : Cardinality(InGroup(result, lookup, v)) <= GroupMax

\* With one arm the rounds find what a single round over the whole collection
\* would find: the best documents of the groups that are not full.  (Unless the
\* rounds are used up, or documents change.)
OneArmIsIdeal ==
  at = "done" /\ Cardinality(Arm) = 1 /\ round + 1 < MaxFetches /\ writes = 0 =>
    \A a \in Arm :
      result = Capped(Sorted({d \in Doc : score[a][d] > 0},
                                   LAMBDA d, e : score[a][d] > score[a][e]), group)

\* A page is short only because there is nothing else to show: every document
\* that an arm finds and that is not on the page is of a group that is full.
ShortMeansExhausted ==
  at = "done" /\ Len(result) < Limit /\ round + 1 < MaxFetches /\ writes = 0 =>
    \A d \in Doc : (\E a \in Arm : score[a][d] > 0) /\ d \notin ToSet(result) =>
      Cardinality(InGroup(result, group, group[d])) >= GroupMax

\* Each round after the first brings a document nobody has seen, or the arms
\* have no more: groups that are full do not fill the candidates again.
FreshStep == Fetch /\ round > 0 /\ writes = 0 => short' \/ DOMAIN lookup' # DOMAIN lookup
FreshCandidates == [][FreshStep]_vars

\* The facet counts fit the page: a value has at least as many documents in its
\* count as the page shows, and no value left out is more frequent than one
\* that is kept.
FacetsFitPage ==
  at = "done" =>
    \A v \in Val : LET shown == Cardinality(InGroup(result, lookup, v)) IN
      IF v \in DOMAIN facets THEN facets[v] >= shown
      ELSE shown > 0 => Cardinality(DOMAIN facets) = MaxValues
                        /\ \A w \in DOMAIN facets : facets[w] >= shown
=============================================================================
