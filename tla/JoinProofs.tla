----------------------------- MODULE JoinProofs -----------------------------
(***************************************************************************)
(* Proofs about joins: every parent is given its documents and no others,  *)
(* for any number of parents, children and collections and any limit.      *)
(***************************************************************************)
EXTENDS Join, FiniteSetTheorems, TLAPS

-----------------------------------------------------------------------------
(* Ranks. *)

\* How many numbers of S are below n.
Below(S, n) == Cardinality({m \in S : m < n})

\* The place of a number in an ascending list grows with the number.
LEMMA BelowGrows ==
  ASSUME NEW S \in SUBSET Nat, IsFiniteSet(S)
  PROVE  /\ \A n \in S : Below(S, n) \in 0..Cardinality(S) - 1
         /\ \A m, n \in S : Below(S, m) < Below(S, n) => m < n
         /\ \A m, n \in S : Below(S, m) = Below(S, n) => m = n
<1>0. Cardinality(S) \in Nat   BY FS_CardinalityType, Zenon
<1>1. ASSUME NEW n \in S   PROVE Below(S, n) \in 0..Cardinality(S) - 1
  <2> DEFINE L == {m \in S : m < n}
  <2>1. L \in SUBSET S /\ n \notin L   OBVIOUS
  <2> HIDE DEF L
  <2>2. IsFiniteSet(L) /\ Cardinality(L) <= Cardinality(S) /\ (Cardinality(S) = Cardinality(L) => S = L)
    BY <2>1, FS_Subset, Zenon
  <2>3. Cardinality(L) \in Nat   BY <2>2, FS_CardinalityType, Zenon
  <2>4. Cardinality(L) # Cardinality(S)   BY <2>1, <2>2, Zenon
  <2>5. Below(S, n) = Cardinality(L)   BY Zenon DEF Below, L
  <2> QED   BY <1>0, <2>2, <2>3, <2>4, <2>5
<1>2. ASSUME NEW m \in S, NEW n \in S, m < n   PROVE Below(S, m) < Below(S, n)
  <2> DEFINE L == {k \in S : k < m}   M == {k \in S : k < n}
  <2>0. m \in Nat /\ n \in Nat /\ \A k \in S : k < m => k < n
    <3>1. \A k \in S : k \in Nat   BY Zenon
    <3> QED   BY <1>2, <3>1
  <2>1. L \in SUBSET M /\ m \in M /\ m \notin L /\ M \in SUBSET S
    <3>1. ~(m < m)   BY <2>0
    <3> QED   BY <1>2, <2>0, <3>1, Zenon
  <2>2. Below(S, m) = Cardinality(L) /\ Below(S, n) = Cardinality(M)   BY Zenon DEF Below, L, M
  <2> HIDE DEF L, M
  <2>3. IsFiniteSet(M)   BY <2>1, FS_Subset, Zenon
  <2>4. IsFiniteSet(L) /\ Cardinality(L) <= Cardinality(M) /\ (Cardinality(M) = Cardinality(L) => M = L)
    BY <2>1, <2>3, FS_Subset, Zenon
  <2>5. Cardinality(L) \in Nat /\ Cardinality(M) \in Nat   BY <2>3, <2>4, FS_CardinalityType, Zenon
  <2>6. Cardinality(L) # Cardinality(M)   BY <2>1, <2>4, Zenon
  <2> QED   BY <2>2, <2>4, <2>5, <2>6
<1>3. ASSUME NEW m \in S, NEW n \in S
      PROVE  (Below(S, m) < Below(S, n) => m < n) /\ (Below(S, m) = Below(S, n) => m = n)
  <2>1. m < n => Below(S, m) < Below(S, n)   BY <1>2, Zenon
  <2>2. n < m => Below(S, n) < Below(S, m)   BY <1>2, Zenon
  <2>3. Below(S, m) \in Int /\ Below(S, n) \in Int   BY <1>0, <1>1
  <2>4. m \in Int /\ n \in Int /\ (m = n => Below(S, m) = Below(S, n))   OBVIOUS
  <2> QED   BY <2>1, <2>2, <2>3, <2>4
<1> QED   BY <1>1, <1>3, Zenon

\* Sets of at most L numbers, one for each member of P: all of them together
\* have no more than L times the size of P (max_documents of enrich_with_spec).
LEMMA TogetherBounded ==
  ASSUME NEW P, IsFiniteSet(P), NEW L \in Nat, NEW M, NEW S \in SUBSET Nat,
         \A p \in P : M[p] \in SUBSET Nat /\ IsFiniteSet(M[p]) /\ Cardinality(M[p]) <= L,
         \A c \in S : \E p \in P : c \in M[p]
  PROVE  IsFiniteSet(S) /\ Cardinality(S) <= Cardinality(P) * L
<1> DEFINE of == [c \in S |-> CHOOSE p \in P : c \in M[p]]
           f == [c \in S |-> <<of[c], Below(M[of[c]], c) + 1>>]
<1>1. \A c \in S : of[c] \in P /\ c \in M[of[c]]
  BY Zenon
<1> HIDE DEF of
<1>2. ASSUME NEW c \in S   PROVE Below(M[of[c]], c) \in Nat /\ Below(M[of[c]], c) + 1 \in 1..L
  <2>1. of[c] \in P /\ c \in M[of[c]] /\ M[of[c]] \in SUBSET Nat /\ IsFiniteSet(M[of[c]])
    BY <1>1, Zenon
  <2>2. Below(M[of[c]], c) \in 0..Cardinality(M[of[c]]) - 1   BY <2>1, BelowGrows, Zenon
  <2>3. Cardinality(M[of[c]]) \in Nat /\ Cardinality(M[of[c]]) <= L
    BY <2>1, FS_CardinalityType, Zenon
  <2> QED   BY <2>2, <2>3
<1>3. f \in [S -> P \X (1..L)]   BY <1>1, <1>2, Zenon
<1>4. ASSUME NEW c \in S, NEW d \in S, f[c] = f[d]   PROVE c = d
  <2>1. of[c] = of[d] /\ Below(M[of[c]], c) + 1 = Below(M[of[d]], d) + 1
    BY <1>4, Zenon
  <2>2. Below(M[of[c]], c) = Below(M[of[c]], d)
    <3>1. Below(M[of[c]], c) + 1 = Below(M[of[c]], d) + 1   BY <2>1, Zenon
    <3>2. Below(M[of[c]], c) \in Nat /\ Below(M[of[c]], d) \in Nat   BY <1>2, <2>1, Zenon
    <3> QED   BY <3>1, <3>2
  <2>3. M[of[c]] \in SUBSET Nat /\ IsFiniteSet(M[of[c]]) /\ c \in M[of[c]] /\ d \in M[of[c]]
    BY <1>1, <2>1, Zenon
  <2> QED   BY <2>2, <2>3, BelowGrows, Zenon
<1> HIDE DEF f
<1>5. f \in Injection(S, P \X (1..L))   BY <1>3, <1>4, Zenon DEF Injection, IsInjective
<1>6. IsFiniteSet(1..L) /\ Cardinality(1..L) = L   BY FS_Interval
<1>7. IsFiniteSet(P \X (1..L)) /\ Cardinality(P \X (1..L)) = Cardinality(P) * L
  BY <1>6, FS_Product, Zenon
<1> DEFINE T == P \X (1..L)
<1>8. f \in Injection(S, T) /\ IsFiniteSet(T) /\ Cardinality(T) = Cardinality(P) * L
  BY <1>5, <1>7, Zenon
<1> HIDE DEF T
<1>9. IsFiniteSet(S) /\ Cardinality(S) <= Cardinality(T)   BY <1>8, FS_Injection, Zenon
<1> QED   BY <1>8, <1>9, Zenon

-----------------------------------------------------------------------------
(* One join. *)

\* What is given to the parents for a join is right, and complete where it can
\* be.
JoinOK(j) ==
  /\ \A p \in Parent : joined[p][j.spec.coll] \subseteq Matching(p, j)
  /\ Askable(j.spec) /\ (\A p \in Parent : Cardinality(Matching(p, j)) <= Limit) =>
       \A p \in Parent : joined[p][j.spec.coll] = Matching(p, j)

\* The join of s, with the children as they are now.
Now(s) == [spec |-> s, docs |-> child]

\* Parents and children are finite in number.
LEMMA Few ==
  /\ IsFiniteSet(Child) /\ Child \in SUBSET Nat
  /\ IsFiniteSet(Parent) /\ Cardinality(Parent) = NumParents
<1>1. IsFiniteSet(Child) /\ Child \in SUBSET Nat   BY JoinAssumption, FS_Interval DEF Child
<1>2. IsFiniteSet(Parent) /\ Cardinality(Parent) = NumParents
  BY JoinAssumption, FS_Interval DEF Parent
<1> QED   BY <1>1, <1>2, Zenon

\* A document is due to a parent if it is of the collection, passes the filter
\* and has the value.
LEMMA DueNow ==
  ASSUME NEW s, NEW p, NEW c
  PROVE  c \in Matching(p, Now(s)) <=>
           /\ c \in Child /\ child[c].coll = s.coll /\ child[c].passes
           /\ ChildValue(s, c, child) = parent[p] /\ parent[p] # Missing
BY Zenon DEF Matching, Now

\* What fetch_children_for_join returns is of the collection and passes.
LEMMA FetchedPass ==
  ASSUME NEW s, NEW c \in Children(s)
  PROVE  c \in Child /\ child[c].coll = s.coll /\ child[c].passes
<1>1. c \in Fetched(s)   BY Zenon DEF Children
<1>2. CASE s.ref = "id"   BY <1>1, <1>2, Zenon DEF Fetched
<1>3. CASE s.ref # "id"   BY <1>1, <1>3, Zenon DEF Fetched, FetchedByValues
<1> QED   BY <1>2, <1>3, Zenon

\* Without room no document is due where none has more than the limit.
LEMMA NoRoom ==
  ASSUME NEW s, \A p \in Parent : Cardinality(Matching(p, Now(s))) <= Limit,
         JoinValues = {} \/ MaxDocuments = 0
  PROVE  \A p \in Parent : Matching(p, Now(s)) = {}
<1> SUFFICES ASSUME NEW p \in Parent, NEW c, c \in Matching(p, Now(s))   PROVE FALSE   BY Zenon
<1>1. parent[p] # Missing   BY DueNow, Zenon
<1>2. parent[p] \in JoinValues   BY <1>1, Zenon DEF JoinValues
<1>3. Limit = 0
  <2>1. Limit * NumParents = 0   BY <1>2, Zenon DEF MaxDocuments
  <2> QED   BY <2>1, JoinAssumption DEF Parent
<1>4. IsFiniteSet(Matching(p, Now(s)))
  <2>1. IsFiniteSet(Child)   BY Few, Zenon
  <2>2. Matching(p, Now(s)) \in SUBSET Child   BY Zenon DEF Matching
  <2> QED   BY <2>1, <2>2, FS_Subset, Zenon
<1>5. Cardinality(Matching(p, Now(s))) \in Nat /\ Cardinality(Matching(p, Now(s))) <= 0
  BY <1>3, <1>4, FS_CardinalityType, Zenon
<1>6. Cardinality(Matching(p, Now(s))) = 0   BY <1>5
<1> QED   BY <1>4, <1>6, FS_EmptySet, Zenon

\* With room every document that is due is fetched: those with one of the values
\* of the parents are no more than all parents may have.
LEMMA AllFetched ==
  ASSUME NEW s, Askable(s), \A p \in Parent : Cardinality(Matching(p, Now(s))) <= Limit,
         ~(JoinValues = {} \/ MaxDocuments = 0),
         NEW p \in Parent, NEW c, c \in Matching(p, Now(s))
  PROVE  c \in Children(s)
<1>0. Children(s) = Fetched(s)   BY Zenon DEF Children
<1>1. /\ c \in Child /\ child[c].coll = s.coll /\ child[c].passes
      /\ ChildValue(s, c, child) = parent[p] /\ parent[p] \in JoinValues
  <2>1. /\ c \in Child /\ child[c].coll = s.coll /\ child[c].passes
        /\ ChildValue(s, c, child) = parent[p] /\ parent[p] # Missing
    BY DueNow, Zenon
  <2>2. parent[p] \in JoinValues   BY <2>1, Zenon DEF JoinValues
  <2> QED   BY <2>1, <2>2, Zenon
<1>2. CASE s.ref = "id"
  <2>0. ChildValue(s, c, child) = c   BY <1>2, Zenon DEF ChildValue
  <2>1. c \in JoinValues   BY <1>1, <2>0, Zenon
  <2> DEFINE docs == {d \in Child : child[d].coll = s.coll /\ child[d].passes}
  <2>2. Fetched(s) = docs \cap JoinValues   BY <1>2, Zenon DEF Fetched
  <2>3. c \in docs   BY <1>1, Zenon
  <2> QED   BY <1>0, <2>1, <2>2, <2>3, Zenon
<1>3. CASE s.ref # "id"
  <2> DEFINE docs == {d \in Child : child[d].coll = s.coll /\ child[d].passes}
             found == {d \in docs : child[d].meta \in {MatchValue(v) : v \in JoinValues}}
             M == [q \in Parent |-> Matching(q, Now(s))]
  <2>1. \A v \in JoinValues : MatchValue(v) = v
    BY <1>3, Zenon DEF Askable, MatchValue
  <2>2. c \in found   BY <1>1, <1>3, <2>1, Zenon DEF ChildValue
  <2>3. ASSUME NEW d \in found   PROVE \E q \in Parent : d \in M[q]
    <3>1. PICK v \in JoinValues : child[d].meta = MatchValue(v)   BY <2>3, Zenon
    <3>2. PICK q \in Parent : v = parent[q] /\ parent[q] # Missing   BY Zenon DEF JoinValues
    <3>3. ChildValue(s, d, child) = parent[q]   BY <1>3, <2>1, <3>1, <3>2, Zenon DEF ChildValue
    <3>4. d \in Matching(q, Now(s))   BY <2>3, <3>2, <3>3, DueNow, Zenon
    <3> QED   BY <3>4, Zenon
  <2>4. found \in SUBSET Nat /\ found \in SUBSET Child /\ Child \in SUBSET Nat
    <3>1. Child \in SUBSET Nat   BY Few, Zenon
    <3>2. found \in SUBSET Child   BY Zenon
    <3> QED   BY <3>1, <3>2, Zenon
  <2>5. \A q \in Parent : M[q] \in SUBSET Nat /\ IsFiniteSet(M[q]) /\ Cardinality(M[q]) <= Limit
    <3>1. IsFiniteSet(Child)   BY Few, Zenon
    <3>2. \A q \in Parent : Matching(q, Now(s)) \in SUBSET Child   BY Zenon DEF Matching
    <3> QED   BY <2>4, <3>1, <3>2, FS_Subset, Zenon
  <2>6. IsFiniteSet(Parent) /\ Cardinality(Parent) = NumParents
    BY Few, Zenon
  <2>7. FetchedByValues(docs) = {d \in found : Below(found, d) < MaxDocuments}
    BY Zenon DEF FetchedByValues, Below
  <2>8. Fetched(s) = FetchedByValues(docs)   BY <1>3, Zenon DEF Fetched
  <2> HIDE DEF docs, found, M
  <2>9. IsFiniteSet(found) /\ Cardinality(found) <= Cardinality(Parent) * Limit
    BY <2>3, <2>4, <2>5, <2>6, JoinAssumption, TogetherBounded, Zenon
  <2>10. Below(found, c) < MaxDocuments
    <3>1. Below(found, c) \in 0..Cardinality(found) - 1   BY <2>2, <2>4, <2>9, BelowGrows, Zenon
    <3>2. Cardinality(found) \in Nat   BY <2>9, FS_CardinalityType, Zenon
    <3>3. Cardinality(found) <= Limit * NumParents   BY <2>6, <2>9, JoinAssumption
    <3>4. Limit * NumParents \in Nat   BY JoinAssumption
    <3>5. Below(found, c) < Limit * NumParents   BY <3>1, <3>2, <3>3, <3>4
    <3> QED   BY <3>5, Zenon DEF MaxDocuments
  <2> QED   BY <1>0, <2>2, <2>7, <2>8, <2>10, Zenon
<1> QED   BY <1>2, <1>3, Zenon

\* What a join gives to a parent.
LEMMA AttachedRight ==
  ASSUME NEW s
  PROVE  /\ \A p \in Parent : Attached(p, s, Children(s)) \subseteq Matching(p, Now(s))
         /\ Askable(s) /\ (\A p \in Parent : Cardinality(Matching(p, Now(s))) <= Limit) =>
              \A p \in Parent : Attached(p, s, Children(s)) = Matching(p, Now(s))
<1>1. ASSUME NEW p \in Parent, NEW c, c \in Attached(p, s, Children(s))
      PROVE  c \in Matching(p, Now(s))
  <2>1. c \in Children(s) /\ ChildValue(s, c, child) = parent[p] /\ parent[p] # Missing
    BY <1>1, Zenon DEF Attached
  <2> QED   BY <2>1, FetchedPass, DueNow, Zenon
<1>2. ASSUME Askable(s), \A p \in Parent : Cardinality(Matching(p, Now(s))) <= Limit,
             NEW p \in Parent, NEW c, c \in Matching(p, Now(s))
      PROVE  c \in Attached(p, s, Children(s))
  <2>1. ~(JoinValues = {} \/ MaxDocuments = 0)   BY <1>2, NoRoom, Zenon
  <2>2. c \in Children(s)   BY <1>2, <2>1, AllFetched, Zenon
  <2> QED   BY <1>2, <2>2, DueNow, Zenon DEF Attached
<1> QED   BY <1>1, <1>2, Zenon

-----------------------------------------------------------------------------
(* The invariant. *)

\* The two properties say that every join done is right.
LEMMA JoinsDone == JoinedMatch /\ JoinComplete <=> \A j \in done : JoinOK(j)
BY Zenon DEF JoinedMatch, JoinComplete, JoinOK

\* What is due for a join that is done does not change with the children.
LEMMA DueStays ==
  ASSUME parent' = parent, NEW j
  PROVE  /\ \A p : Matching(p, j)' = Matching(p, j)
         /\ Askable(j.spec)' = Askable(j.spec)
<1>1. ASSUME NEW p   PROVE Matching(p, j)' = Matching(p, j)
  BY Zenon DEF Matching, ChildValue
<1>2. Askable(j.spec)' = Askable(j.spec)
  BY Zenon DEF Askable, JoinValues
<1> QED   BY <1>1, <1>2, Zenon

\* A join whose documents stay attached stays right.
LEMMA JoinStays ==
  ASSUME parent' = parent, NEW j, JoinOK(j),
         \A p \in Parent : joined'[p][j.spec.coll] = joined[p][j.spec.coll]
  PROVE  JoinOK(j)'
<1>1. \A p : Matching(p, j)' = Matching(p, j)   BY DueStays, Zenon
<1>2. Askable(j.spec)' = Askable(j.spec)   BY DueStays, Zenon
<1> QED   BY <1>1, <1>2, Zenon DEF JoinOK

\* Before the first join nothing is attached.
LEMMA JoinStarts == JoinInit => JoinInv
<1> SUFFICES ASSUME JoinInit PROVE JoinInv   BY Zenon
<1>1. PICK n \in 1..Cardinality(Coll) : specs \in [1..n -> Joining]
  BY Zenon DEF JoinInit, IntoSpecs
<1>2. \A i, k \in DOMAIN specs : specs[i].coll = specs[k].coll => i = k
  BY Zenon DEF JoinInit, IntoSpecs
<1>3. specs \in Seq(Joining)
  <2>1. Cardinality(Coll) \in Nat   BY JoinAssumption, FS_CardinalityType, Zenon
  <2>2. n \in Nat   BY <2>1
  <2> QED   BY <1>1, <2>2
<1>4. joined \in [Parent -> [{j.spec.coll : j \in done} -> SUBSET Child]]
  <2>1. {j.spec.coll : j \in done} = {}   BY Zenon DEF JoinInit
  <2>2. << >> \in [{} -> SUBSET Child]   OBVIOUS
  <2> QED   BY <2>1, <2>2, Zenon DEF JoinInit
<1>5. writes \in 0..MaxWrites   BY JoinAssumption DEF JoinInit
<1>6. JoinTypeOK   BY <1>3, <1>4, <1>5, Zenon DEF JoinInit, JoinTypeOK
<1>7. done = {}   BY Zenon DEF JoinInit
<1>8. JoinedMatch /\ JoinComplete   BY <1>7, Zenon DEF JoinedMatch, JoinComplete
<1> QED   BY <1>2, <1>6, <1>7, <1>8, Zenon DEF JoinInv, JoinsExact

\* The end of a line of joins.
LEMMA TailOf ==
  ASSUME NEW T, NEW s \in Seq(T), s # << >>
  PROVE  /\ 1 \in DOMAIN s /\ s[1] \in T /\ Tail(s) \in Seq(T)
         /\ \A i \in DOMAIN Tail(s) : i + 1 \in DOMAIN s /\ i + 1 # 1 /\ Tail(s)[i] = s[i + 1]
         /\ \A i, k \in DOMAIN Tail(s) : i + 1 = k + 1 => i = k
OBVIOUS

\* A join is right when it is done, and leaves those before it alone: they are
\* of other collections.
LEMMA EnrichKeeps == JoinInv /\ Enrich => JoinInv'
<1> SUFFICES ASSUME JoinInv, Enrich PROVE JoinInv'   BY Zenon
<1> DEFINE S == specs[1]
<1>0. /\ JoinTypeOK /\ (\A j \in done : JoinOK(j))
      /\ \A i, k \in DOMAIN specs : specs[i].coll = specs[k].coll => i = k
      /\ \A i \in DOMAIN specs, j \in done : specs[i].coll # j.spec.coll
      /\ \A j, k \in done : j.spec.coll = k.spec.coll => j = k
  BY JoinsDone, Zenon DEF JoinInv, JoinsExact
<1>1. /\ specs # << >> /\ done' = done \cup {Now(S)} /\ specs' = Tail(specs)
      /\ parent' = parent /\ child' = child /\ outcome' = outcome /\ writes' = writes
      /\ joined' = [p \in Parent |->
                      [l \in DOMAIN joined[p] \cup {S.coll} |->
                         IF l = S.coll THEN Attached(p, S, Children(S)) ELSE joined[p][l]]]
  BY Zenon DEF Enrich, Now
<1>2. /\ 1 \in DOMAIN specs /\ S \in Joining /\ specs' \in Seq(Joining)
      /\ \A i \in DOMAIN specs' : i + 1 \in DOMAIN specs /\ i + 1 # 1 /\ specs'[i] = specs[i + 1]
      /\ \A i, k \in DOMAIN specs' : i + 1 = k + 1 => i = k
  <2>1. specs \in Seq(Joining)   BY <1>0, Zenon DEF JoinTypeOK
  <2> QED   BY <1>1, <2>1, TailOf, Zenon
<1>3. PICK s : s = S   BY Zenon
<1>4. /\ s \in Joining /\ s.coll \in Coll /\ done' = done \cup {Now(s)}
      /\ joined' = [p \in Parent |->
                      [l \in DOMAIN joined[p] \cup {s.coll} |->
                         IF l = s.coll THEN Attached(p, s, Children(s)) ELSE joined[p][l]]]
      /\ \A j \in done : j.spec.coll # s.coll
  <2>1. s \in Joining   BY <1>2, <1>3, Zenon
  <2>2. s.coll \in Coll   BY <2>1 DEF Joining
  <2>3. \A j \in done : j.spec.coll # s.coll   BY <1>0, <1>2, <1>3, Zenon
  <2> QED   BY <1>1, <1>3, <2>1, <2>2, <2>3, Zenon
<1> HIDE DEF S
<1>5. \A i \in DOMAIN specs' : specs'[i].coll # s.coll
  BY <1>0, <1>2, <1>3, Zenon DEF S
<1>6. Now(s).spec = s /\ Now(s).docs = child   BY Zenon DEF Now
<1>7. \A p \in Parent : joined'[p][s.coll] = Attached(p, s, Children(s))
  BY <1>4, Zenon
<1>8. ASSUME NEW j \in done, NEW p \in Parent   PROVE joined'[p][j.spec.coll] = joined[p][j.spec.coll]
  <2>1. joined \in [Parent -> [{k.spec.coll : k \in done} -> SUBSET Child]]
    BY <1>0, Zenon DEF JoinTypeOK
  <2>2. j.spec.coll \in DOMAIN joined[p]   BY <2>1, Zenon
  <2> QED   BY <1>4, <2>2, Zenon
<1>9. ASSUME NEW j \in done   PROVE JoinOK(j)'
  BY <1>0, <1>1, <1>8, JoinStays, Zenon
<1>10. ASSUME NEW j, j = Now(s)   PROVE JoinOK(j)'
  <2>1. j.spec = s   BY <1>6, <1>10, Zenon
  <2>2. \A p : Matching(p, j)' = Matching(p, j)   BY <1>1, DueStays, Zenon
  <2>3. Askable(j.spec)' = Askable(j.spec)   BY <1>1, DueStays, Zenon
  <2>4. /\ \A p \in Parent : Attached(p, s, Children(s)) \subseteq Matching(p, j)
        /\ Askable(s) /\ (\A p \in Parent : Cardinality(Matching(p, j)) <= Limit) =>
             \A p \in Parent : Attached(p, s, Children(s)) = Matching(p, j)
    BY <1>10, AttachedRight, Zenon
  <2> QED   BY <1>7, <2>1, <2>2, <2>3, <2>4, Zenon DEF JoinOK
<1>11. (\A j \in done : JoinOK(j))'
  <2>1. \A j \in done' : j \in done \/ j = Now(s)   BY <1>4, Zenon
  <2>2. \A j \in done' : JoinOK(j)'   BY <1>9, <1>10, <2>1, Zenon
  <2> QED   BY <2>2, Zenon
<1>12. (JoinedMatch /\ JoinComplete)'   BY <1>11, JoinsDone, PTL
<1>13. JoinTypeOK'
  <2>1. Now(s) \in [spec : Joining, docs : Stored]
    <3>1. child \in Stored   BY <1>0, Zenon DEF JoinTypeOK
    <3> QED   BY <1>4, <3>1, Zenon DEF Now
  <2>2. done' \subseteq [spec : Joining, docs : Stored]
    <3>1. done \subseteq [spec : Joining, docs : Stored]   BY <1>0, Zenon DEF JoinTypeOK
    <3> QED   BY <1>4, <2>1, <3>1, Zenon
  <2> DEFINE D == {j.spec.coll : j \in done}   E == {j.spec.coll : j \in done'}
  <2>3. E = D \cup {s.coll}   BY <1>4, <1>6, Zenon
  <2>4. joined \in [Parent -> [D -> SUBSET Child]]   BY <1>0, Zenon DEF JoinTypeOK
  <2>5. \A p \in Parent : Attached(p, s, Children(s)) \in SUBSET Child
    BY FetchedPass, Zenon DEF Attached
  <2> HIDE DEF D, E
  <2>6. joined' \in [Parent -> [E -> SUBSET Child]]
    <3>1. ASSUME NEW p \in Parent
          PROVE  [l \in DOMAIN joined[p] \cup {s.coll} |->
                    IF l = s.coll THEN Attached(p, s, Children(s)) ELSE joined[p][l]] \in [E -> SUBSET Child]
      <4>1. joined[p] \in [D -> SUBSET Child]   BY <2>4, Zenon
      <4>2. DOMAIN joined[p] = D /\ \A l \in D : joined[p][l] \in SUBSET Child   BY <4>1, Zenon
      <4>3. ASSUME NEW l \in D \cup {s.coll}
            PROVE  (IF l = s.coll THEN Attached(p, s, Children(s)) ELSE joined[p][l]) \in SUBSET Child
        BY <2>5, <4>2, Zenon
      <4> QED   BY <2>3, <4>2, <4>3, Zenon
    <3> QED   BY <1>4, <3>1, Zenon
  <2> QED   BY <1>0, <1>1, <1>2, <2>2, <2>6, Zenon DEF JoinTypeOK, E
<1>14. \A i, k \in DOMAIN specs' : specs'[i].coll = specs'[k].coll => i = k
  <2> SUFFICES ASSUME NEW i \in DOMAIN specs', NEW k \in DOMAIN specs',
                      specs'[i].coll = specs'[k].coll
               PROVE  i = k
    BY Zenon
  <2>1. /\ i + 1 \in DOMAIN specs /\ k + 1 \in DOMAIN specs
        /\ specs'[i] = specs[i + 1] /\ specs'[k] = specs[k + 1]
    BY <1>2, Zenon
  <2>2. i + 1 = k + 1   BY <1>0, <2>1, Zenon
  <2> QED   BY <1>2, <2>2, Zenon
<1>15. \A i \in DOMAIN specs', j \in done' : specs'[i].coll # j.spec.coll
  <2>1. \A i \in DOMAIN specs', j \in done : specs'[i].coll # j.spec.coll
    <3> SUFFICES ASSUME NEW i \in DOMAIN specs', NEW j \in done   PROVE specs'[i].coll # j.spec.coll
      BY Zenon
    <3>1. i + 1 \in DOMAIN specs /\ specs'[i] = specs[i + 1]   BY <1>2, Zenon
    <3> QED   BY <1>0, <3>1, Zenon
  <2>2. \A i \in DOMAIN specs' : specs'[i].coll # Now(s).spec.coll   BY <1>5, <1>6, Zenon
  <2> QED   BY <1>4, <2>1, <2>2, Zenon
<1>16. \A j, k \in done' : j.spec.coll = k.spec.coll => j = k
  <2>1. \A j \in done : j.spec.coll # Now(s).spec.coll   BY <1>4, <1>6, Zenon
  <2>2. \A j \in done' : j \in done \/ j = Now(s)   BY <1>4, Zenon
  <2> QED   BY <1>0, <2>1, <2>2, Zenon
<1> QED   BY <1>12, <1>13, <1>14, <1>15, <1>16, Zenon DEF JoinInv, JoinsExact

\* The other steps attach nothing: a request fails or is answered, a child is
\* written.
LEMMA QuietJoinKeeps ==
  ASSUME JoinInv, EnrichFails \/ Answer \/ UNCHANGED joinVars \/ \E c \in Child : WriteChild(c)
  PROVE  JoinInv'
<1>0. JoinTypeOK /\ (\A j \in done : JoinOK(j))   BY JoinsDone, Zenon DEF JoinInv, JoinsExact
<1>1. parent' = parent /\ joined' = joined /\ specs' = specs /\ done' = done
  BY Zenon DEF EnrichFails, Answer, joinVars, WriteChild
<1>2. (\A j \in done : JoinOK(j))'
  <2>1. \A j \in done : JoinOK(j)'   BY <1>0, <1>1, JoinStays, Zenon
  <2> QED   BY <1>1, <2>1, Zenon
<1>3. (JoinedMatch /\ JoinComplete)'   BY <1>2, JoinsDone, PTL
<1>4. child' \in Stored
  <2>1. child \in Stored   BY <1>0, Zenon DEF JoinTypeOK
  <2>2. CASE child' = child   BY <2>1, <2>2, Zenon
  <2>3. ASSUME NEW c \in Child, WriteChild(c)   PROVE child' \in Stored
    <3>1. PICK v \in MetaValue : child' = [child EXCEPT ![c].meta = v]   BY <2>3, Zenon DEF WriteChild
    <3> QED   BY <2>1, <3>1 DEF Stored
  <2> QED   BY <2>2, <2>3, Zenon DEF EnrichFails, Answer, joinVars
<1>5. outcome' \in {"running", "ok", "error"} /\ writes' \in 0..MaxWrites
  <2>1. outcome \in {"running", "ok", "error"} /\ writes \in 0..MaxWrites   BY <1>0, Zenon DEF JoinTypeOK
  <2>2. ASSUME NEW c \in Child, WriteChild(c)   PROVE outcome' = outcome /\ writes' \in 0..MaxWrites
    BY <2>1, <2>2, JoinAssumption DEF WriteChild
  <2> QED   BY <2>1, <2>2, Zenon DEF EnrichFails, Answer, joinVars
<1>6. JoinTypeOK'   BY <1>0, <1>1, <1>4, <1>5, Zenon DEF JoinTypeOK
<1> QED   BY <1>1, <1>3, <1>6, Zenon DEF JoinInv, JoinsExact

\* Every step of a request with joins keeps the invariant.
LEMMA JoinInductive == JoinInv /\ [JoinNext]_joinVars => JoinInv'
<1> SUFFICES ASSUME JoinInv, [JoinNext]_joinVars PROVE JoinInv'   BY Zenon
<1>1. CASE Enrich   BY <1>1, EnrichKeeps, Zenon
<1>2. CASE EnrichFails \/ Answer \/ UNCHANGED joinVars \/ \E c \in Child : WriteChild(c)
  BY <1>2, QuietJoinKeeps, Zenon
<1> QED   BY <1>1, <1>2, Zenon DEF JoinNext, JoinRest

\* Every parent is given documents that have its join value, are of the
\* collection and pass the filter, and all of them unless some parent has more
\* than the limit: the bound on the one query for all parents (max_documents of
\* enrich_with_spec) never takes a document from a parent, whatever else the
\* query finds, and writes between two joins change nothing that was attached.
THEOREM JoinsAreExact == JoinSpec => []JoinsExact
<1>1. JoinInv => JoinsExact   BY Zenon DEF JoinInv
<1> QED   BY <1>1, JoinStarts, JoinInductive, PTL DEF JoinSpec
=============================================================================
