-------------------------- MODULE PipelineProofs --------------------------
(***************************************************************************)
(* An export sends what is in the collection, in order and once, whatever  *)
(* is written meanwhile; a search is answered once, with its own results.  *)
(* The invariant of the export is that the chunks sent, the page read and  *)
(* the chunk in the making are one ascending list that has every document  *)
(* that stood still below the place reached.  The invariant of the search  *)
(* worker is that a job without its answer stands at one place, the queue  *)
(* or one task, and that a bucket has jobs of one key only.                *)
(***************************************************************************)
EXTENDS SearchIngress, Export, FiniteSetTheorems, TLAPS

\* A function on 1..k is a sequence of k elements.
LEMMA IsSequence ==
  ASSUME NEW S, NEW k \in Nat, NEW f \in [1..k -> S]
  PROVE  f \in Seq(S) /\ Len(f) = k
OBVIOUS

\* What stands in a sequence is of its elements.
LEMMA ElementsOf ==
  ASSUME NEW S, NEW s \in Seq(S)
  PROVE  Range(s) \subseteq S /\ DOMAIN s = 1..Len(s) /\ \A i \in 1..Len(s) : s[i] \in Range(s)
BY DEF Range

\* A sequence of some elements is one of more elements.
LEMMA MoreElements ==
  ASSUME NEW S, NEW T, S \subseteq T, NEW s \in Seq(S)
  PROVE  s \in Seq(T)
<1>1. Len(s) \in Nat /\ s \in [1..Len(s) -> T]   OBVIOUS
<1> QED   BY <1>1, IsSequence, Zenon

\* How many numbers of S are below n.
Below(S, n) == Cardinality({m \in S : m < n})

\* The place of a number in an ascending list grows with the number.
LEMMA BelowGrows ==
  ASSUME NEW S \in SUBSET Nat, IsFiniteSet(S)
  PROVE  /\ \A n \in S : Below(S, n) \in 0..Cardinality(S) - 1
         /\ \A m, n \in S : Below(S, m) < Below(S, n) => m < n
         /\ \A m, n \in S : Below(S, m) = Below(S, n) => m = n
<1>0. Cardinality(S) \in Nat   BY FS_CardinalityType, Zenon
<1>1. ASSUME NEW n \in S   PROVE Below(S, n) \in 0..Cardinality(S) - 1
  <2> DEFINE L == {m \in S : m < n}
  <2>1. L \in SUBSET S /\ n \notin L   OBVIOUS
  <2> HIDE DEF L
  <2>2. IsFiniteSet(L) /\ Cardinality(L) <= Cardinality(S) /\ (Cardinality(S) = Cardinality(L) => S = L)
    BY <2>1, FS_Subset, Zenon
  <2>3. Cardinality(L) \in Nat   BY <2>2, FS_CardinalityType, Zenon
  <2>4. Cardinality(L) # Cardinality(S)   BY <2>1, <2>2, Zenon
  <2>5. Below(S, n) = Cardinality(L)   BY Zenon DEF Below, L
  <2> QED   BY <1>0, <2>2, <2>3, <2>4, <2>5
<1>2. ASSUME NEW m \in S, NEW n \in S, m < n   PROVE Below(S, m) < Below(S, n)
  <2> DEFINE L == {k \in S : k < m}   M == {k \in S : k < n}
  <2>0. m \in Nat /\ n \in Nat /\ \A k \in S : k < m => k < n
    <3>1. \A k \in S : k \in Nat   BY Zenon
    <3> QED   BY <1>2, <3>1
  <2>1. L \in SUBSET M /\ m \in M /\ m \notin L /\ M \in SUBSET S
    <3>1. ~(m < m)   BY <2>0
    <3> QED   BY <1>2, <2>0, <3>1, Zenon
  <2>2. Below(S, m) = Cardinality(L) /\ Below(S, n) = Cardinality(M)   BY Zenon DEF Below, L, M
  <2> HIDE DEF L, M
  <2>3. IsFiniteSet(M)   BY <2>1, FS_Subset, Zenon
  <2>4. IsFiniteSet(L) /\ Cardinality(L) <= Cardinality(M) /\ (Cardinality(M) = Cardinality(L) => M = L)
    BY <2>1, <2>3, FS_Subset, Zenon
  <2>5. Cardinality(L) \in Nat /\ Cardinality(M) \in Nat   BY <2>3, <2>4, FS_CardinalityType, Zenon
  <2>6. Cardinality(L) # Cardinality(M)   BY <2>1, <2>4, Zenon
  <2> QED   BY <2>2, <2>4, <2>5, <2>6
<1>3. ASSUME NEW m \in S, NEW n \in S
      PROVE  (Below(S, m) < Below(S, n) => m < n) /\ (Below(S, m) = Below(S, n) => m = n)
  <2>1. m < n => Below(S, m) < Below(S, n)   BY <1>2, Zenon
  <2>2. n < m => Below(S, n) < Below(S, m)   BY <1>2, Zenon
  <2>3. Below(S, m) \in Int /\ Below(S, n) \in Int   BY <1>0, <1>1
  <2>4. m \in Int /\ n \in Int /\ (m = n => Below(S, m) = Below(S, n))   OBVIOUS
  <2> QED   BY <2>1, <2>2, <2>3, <2>4
<1> QED   BY <1>1, <1>3, Zenon

\* The list of a finite set of numbers has each of them once, in ascending order
\* (the scroll of the database, the jobs of a bucket in the order of the batch).
LEMMA AscendingList ==
  ASSUME NEW S \in SUBSET Nat, IsFiniteSet(S)
  PROVE  /\ Ascending(S) \in Seq(S) /\ Len(Ascending(S)) = Cardinality(S)
         /\ Range(Ascending(S)) = S
         /\ \A i, j \in 1..Len(Ascending(S)) : i < j => Ascending(S)[i] < Ascending(S)[j]
<1> DEFINE N == Cardinality(S)
           a == Ascending(S)
           f == [n \in S |-> Below(S, n) + 1]
<1>0. N \in Nat   BY FS_CardinalityType, Zenon
<1>1. /\ \A m, n \in S : Below(S, m) < Below(S, n) => m < n
      /\ \A m, n \in S : Below(S, m) = Below(S, n) => m = n
  BY BelowGrows, Zenon
<1>2. f \in [S -> 1..N]   BY <1>0, BelowGrows
<1>3. \A m, n \in S : f[m] = f[n] => m = n
  <2> SUFFICES ASSUME NEW m \in S, NEW n \in S, f[m] = f[n]   PROVE m = n   BY Zenon
  <2>1. Below(S, m) = Below(S, n) /\ Below(S, m) \in Int
    <3>1. Below(S, m) + 1 = Below(S, n) + 1   BY Zenon
    <3>2. Below(S, m) \in Int /\ Below(S, n) \in Int   BY <1>0, BelowGrows
    <3> QED   BY <3>1, <3>2
  <2> QED   BY <1>1, <2>1, Zenon
<1>4. f \in Injection(S, 1..N)   BY <1>2, <1>3, Zenon DEF Injection, IsInjective
<1>5. IsFiniteSet(1..N) /\ Cardinality(1..N) = N   BY <1>0, FS_Interval
<1>6. f \in Surjection(S, 1..N)   BY <1>4, <1>5, FS_Injection, Zenon
<1>7. \A i \in 1..N : \E n \in S : f[n] = i   BY <1>6, Zenon DEF Surjection
<1>8. ASSUME NEW i \in 1..N
      PROVE  a[i] \in S /\ Below(S, a[i]) = i - 1
  <2>1. PICK n \in S : f[n] = i   BY <1>7, Zenon
  <2>2. Below(S, n) \in Int   BY <1>0, BelowGrows
  <2>3. Below(S, n) = i - 1   BY <2>1, <2>2
  <2>4. a = [k \in 1..N |-> CHOOSE x \in S : Below(S, x) = k - 1]   BY Zenon DEF Ascending, Below
  <2>5. a[i] = CHOOSE x \in S : Below(S, x) = i - 1   BY <2>4, Zenon
  <2> HIDE DEF a
  <2> QED   BY <2>3, <2>5, Zenon
<1>9. a \in [1..N -> S]
  <2>1. a = [i \in 1..N |-> CHOOSE n \in S : Cardinality({m \in S : m < n}) = i - 1]
    BY Zenon DEF Ascending
  <2> HIDE DEF a
  <2>2. \A i \in 1..N : (CHOOSE n \in S : Cardinality({m \in S : m < n}) = i - 1) \in S
    <3> SUFFICES ASSUME NEW i \in 1..N
                 PROVE  (CHOOSE n \in S : Cardinality({m \in S : m < n}) = i - 1) \in S
      BY Zenon
    <3>1. a[i] = CHOOSE n \in S : Cardinality({m \in S : m < n}) = i - 1   BY <2>1, Zenon
    <3> QED   BY <1>8, <3>1, Zenon
  <2> QED   BY <2>1, <2>2, Zenon
<1> HIDE DEF a, f, N
<1>10. a \in Seq(S) /\ Len(a) = N /\ DOMAIN a = 1..N   BY <1>0, <1>9, IsSequence, Zenon
<1>11. ASSUME NEW i \in 1..N, NEW j \in 1..N, i < j   PROVE a[i] < a[j]
  <2>1. Below(S, a[i]) = i - 1 /\ Below(S, a[j]) = j - 1 /\ a[i] \in S /\ a[j] \in S
    BY <1>8, Zenon
  <2>2. i - 1 < j - 1   BY <1>0, <1>11
  <2> QED   BY <1>1, <2>1, <2>2, Zenon
<1>12. Range(a) = S
  <2>1. ASSUME NEW n \in S   PROVE n \in Range(a)
    <3>1. f[n] \in 1..N   BY <1>2, Zenon
    <3>2. a[f[n]] \in S /\ Below(S, a[f[n]]) = f[n] - 1   BY <1>8, <3>1, Zenon
    <3>3. Below(S, n) \in Int /\ f[n] = Below(S, n) + 1   BY <1>0, BelowGrows DEF f, N
    <3>4. Below(S, a[f[n]]) = Below(S, n)   BY <3>2, <3>3
    <3>5. a[f[n]] = n   BY <1>1, <3>2, <3>4, Zenon
    <3> QED   BY <1>10, <3>1, <3>5, Zenon DEF Range
  <2>2. \A i \in 1..N : a[i] \in S   BY <1>8, Zenon
  <2> QED   BY <1>10, <2>1, <2>2, Zenon DEF Range
<1> QED   BY <1>10, <1>11, <1>12, Zenon DEF a, N

\* A finite set of numbers has a least one.
LEMMA LeastOf ==
  ASSUME NEW S \in SUBSET Nat, IsFiniteSet(S), S # {}
  PROVE  \E m \in S : \A e \in S : m <= e
<1> DEFINE a == Ascending(S)
<1>1. /\ a \in Seq(S) /\ Range(a) = S
      /\ \A i, j \in 1..Len(a) : i < j => a[i] < a[j]
  BY AscendingList, Zenon
<1> HIDE DEF a
<1>2. DOMAIN a = 1..Len(a) /\ Len(a) \in Nat   BY <1>1
<1>3. Len(a) # 0   BY <1>1, <1>2 DEF Range
<1>4. 1 \in 1..Len(a)   BY <1>2, <1>3
<1>5. ASSUME NEW e \in S   PROVE a[1] <= e
  <2>1. PICK i \in 1..Len(a) : a[i] = e   BY <1>1, <1>2, Zenon DEF Range
  <2>2. i = 1 \/ 1 < i   OBVIOUS
  <2>3. i = 1 \/ a[1] < e   BY <1>1, <1>4, <2>1, <2>2, Zenon
  <2>4. a[1] \in S   BY <1>1, <1>2, <1>4, Zenon DEF Range
  <2>5. a[1] = e \/ a[1] < e   BY <2>1, <2>3, Zenon
  <2>6. a[1] \in Nat /\ e \in Nat   BY <2>4, Zenon
  <2> QED   BY <2>5, <2>6
<1>6. a[1] \in S   BY <1>1, <1>2, <1>4, Zenon DEF Range
<1> QED   BY <1>5, <1>6, Zenon

-----------------------------------------------------------------------------
(* The export. *)

\* Three lists one after the other.
Joint(u, v, w) == u \o (v \o w)

\* What the client has read, what the response holds and what the thread has
\* still to compress, as one list.
Sent == Joint(read, body, plain)

\* a may stand before b: documents in their order, the end after all of them.
Before(a, b) == a # End /\ (b = End \/ a < b)
IsStream(w) == \A i, j \in DOMAIN w : i < j => Before(w[i], w[j])

\* While the client is there, what was sent is in order, reaches up to the cursor,
\* and has the documents below the cursor that were there all the time.
StreamOK ==
  /\ IsStream(Sent)
  /\ thread = "ended" => task = "ended"
  /\ task = "fetching" => \A d \in Range(Sent) : d # End /\ d < after
  /\ ~failed => \A d \in stable : (task = "ended" \/ d < after) => d \in Range(Sent)

ExportInv ==
  /\ ExportTypeOK
  /\ client = "gone" => read = <<>>
  /\ client = "reading" => StreamOK

Item == Doc \cup {End}

\* Two lists one after the other.
LEMMA Joined ==
  ASSUME NEW S, NEW v \in Seq(S), NEW w \in Seq(S)
  PROVE  /\ v \o w \in Seq(S) /\ Len(v \o w) = Len(v) + Len(w)
         /\ \A i \in 1..Len(v) : (v \o w)[i] = v[i]
         /\ \A i \in 1..Len(w) : (v \o w)[Len(v) + i] = w[i]
         /\ Range(v \o w) = Range(v) \cup Range(w)
<1>1. /\ v \o w \in Seq(S) /\ Len(v \o w) = Len(v) + Len(w)
      /\ \A i \in 1..Len(v) : (v \o w)[i] = v[i]
      /\ \A i \in 1..Len(w) : (v \o w)[Len(v) + i] = w[i]
  OBVIOUS
<1>2. DOMAIN v = 1..Len(v) /\ DOMAIN w = 1..Len(w) /\ DOMAIN (v \o w) = 1..Len(v) + Len(w)
  BY <1>1
<1>3. \A i \in 1..Len(v) : i \in 1..Len(v) + Len(w)   OBVIOUS
<1>4. \A i \in 1..Len(w) : Len(v) + i \in 1..Len(v) + Len(w)   OBVIOUS
<1>5. \A i \in 1..Len(v) + Len(w) : i \in 1..Len(v) \/ \E k \in 1..Len(w) : i = Len(v) + k
  <2> SUFFICES ASSUME NEW i \in 1..Len(v) + Len(w), i \notin 1..Len(v)
               PROVE  \E k \in 1..Len(w) : i = Len(v) + k
    BY Zenon
  <2>1. i - Len(v) \in 1..Len(w) /\ i = Len(v) + (i - Len(v))   OBVIOUS
  <2> QED   BY <2>1, Zenon
<1>6. Range(v) \cup Range(w) \subseteq Range(v \o w)
  BY <1>1, <1>2, <1>3, <1>4, Zenon DEF Range
<1>7. Range(v \o w) \subseteq Range(v) \cup Range(w)
  <2> SUFFICES ASSUME NEW i \in 1..Len(v) + Len(w)
               PROVE  (v \o w)[i] \in Range(v) \cup Range(w)
    BY <1>2, Zenon DEF Range
  <2>1. CASE i \in 1..Len(v)   BY <1>1, <1>2, <2>1, Zenon DEF Range
  <2>2. CASE \E k \in 1..Len(w) : i = Len(v) + k   BY <1>1, <1>2, <2>2, Zenon DEF Range
  <2> QED   BY <1>5, <2>1, <2>2, Zenon
<1> QED   BY <1>1, <1>6, <1>7, Zenon

\* What stands in two lists one after the other stands in one of them.
LEMMA JoinedRange == \A S : \A v, w \in Seq(S) : Range(v \o w) = Range(v) \cup Range(w)
BY Joined

\* What is put behind the last of three lists is behind all of them.
LEMMA Associative ==
  ASSUME NEW S, NEW u \in Seq(S), NEW v \in Seq(S), NEW w \in Seq(S), NEW x \in Seq(S)
  PROVE  Joint(u, v, w \o x) = Joint(u, v, w) \o x /\ Joint(u, v, w) \in Seq(S)
<1>1. v \o w \in Seq(S) /\ v \o (w \o x) = (v \o w) \o x   OBVIOUS
<1> DEFINE y == v \o w
<1> HIDE DEF y
<1>2. y \in Seq(S)   BY <1>1, Zenon DEF y
<1>3. u \o (y \o x) = (u \o y) \o x   BY <1>2
<1>4. u \o y \in Seq(S)   BY <1>2
<1> QED   BY <1>1, <1>3, <1>4, Zenon DEF y, Joint

\* The first element may go over to the list before.
LEMMA HandedOver ==
  ASSUME NEW S, NEW v \in Seq(S), NEW w \in Seq(S), w # <<>>
  PROVE  /\ Append(v, w[1]) \in Seq(S) /\ Len(Append(v, w[1])) = Len(v) + 1
         /\ Tail(w) \in Seq(S) /\ w[1] \in S
         /\ Append(v, w[1]) \o Tail(w) = v \o w
OBVIOUS

\* So it may in the middle of three lists, and into their first one.
LEMMA JointStays ==
  ASSUME NEW S, NEW u \in Seq(S), NEW v \in Seq(S), NEW w \in Seq(S)
  PROVE  /\ w # <<>> => Joint(u, Append(v, w[1]), Tail(w)) = Joint(u, v, w)
         /\ v # <<>> => Joint(Append(u, v[1]), Tail(v), w) = Joint(u, v, w)
<1>1. ASSUME w # <<>>   PROVE Joint(u, Append(v, w[1]), Tail(w)) = Joint(u, v, w)
  <2>1. Append(v, w[1]) \o Tail(w) = v \o w   BY <1>1
  <2> QED   BY <2>1, Zenon DEF Joint
<1>2. ASSUME v # <<>>   PROVE Joint(Append(u, v[1]), Tail(v), w) = Joint(u, v, w)
  <2> DEFINE y == v \o w
  <2>1. y \in Seq(S) /\ Len(v) \in Nat \ {0} /\ Len(w) \in Nat   BY <1>2
  <2>2. y # <<>> /\ y[1] = v[1]   BY <1>2
  <2>3. Tail(y) = Tail(v) \o w   BY <1>2
  <2> HIDE DEF y
  <2>4. Append(u, y[1]) \o Tail(y) = u \o y   BY <2>1, <2>2, HandedOver, Zenon
  <2> QED   BY <2>2, <2>3, <2>4, Zenon DEF y, Joint
<1> QED   BY <1>1, <1>2, Zenon

\* The first of three lists is the beginning of all.
LEMMA JointBegins ==
  ASSUME NEW S, NEW u \in Seq(S), NEW v \in Seq(S), NEW w \in Seq(S)
  PROVE  /\ Joint(u, v, w) \in Seq(S) /\ Len(Joint(u, v, w)) = Len(u) + Len(v) + Len(w)
         /\ \A i \in 1..Len(u) : Joint(u, v, w)[i] = u[i]
         /\ \A x : x \in Range(Joint(u, v, w)) <=> x \in Range(u) \/ x \in Range(v) \/ x \in Range(w)
<1>0. \A a, b \in Seq(S) : Range(a \o b) = Range(a) \cup Range(b)   BY JoinedRange, Zenon
<1> DEFINE y == v \o w
<1>1. y \in Seq(S) /\ Len(y) = Len(v) + Len(w)   OBVIOUS
<1>2. Range(y) = Range(v) \cup Range(w)   BY <1>0, Zenon
<1> HIDE DEF y
<1>3. y \in Seq(S) /\ Len(y) = Len(v) + Len(w) /\ Range(y) = Range(v) \cup Range(w)
  BY <1>1, <1>2, Zenon
<1>4. y \in Seq(S)   BY <1>3, Zenon
<1>5. u \o y \in Seq(S) /\ Len(u \o y) = Len(u) + Len(y) /\ y \in Seq(S)   BY <1>4
<1>6. \A i \in 1..Len(u) : (u \o y)[i] = u[i]   BY <1>5
<1>7. Range(u \o y) = Range(u) \cup Range(y)   BY <1>0, <1>3, Zenon
<1>8. Joint(u, v, w) = u \o y   BY Zenon DEF Joint, y
<1>9. Len(u) \in Nat /\ Len(v) \in Nat /\ Len(w) \in Nat   OBVIOUS
<1> QED   BY <1>3, <1>5, <1>8, <1>9, <1>7, <1>6

\* Streams one after the other are a stream if what comes later may.
LEMMA StreamsJoined ==
  ASSUME NEW S, NEW v \in Seq(S), NEW w \in Seq(S), IsStream(v), IsStream(w),
         \A x \in Range(v), y \in Range(w) : Before(x, y)
  PROVE  IsStream(v \o w)
<1> SUFFICES ASSUME NEW i \in DOMAIN (v \o w), NEW j \in DOMAIN (v \o w), i < j
             PROVE  Before((v \o w)[i], (v \o w)[j])
  BY Zenon DEF IsStream
<1>1. DOMAIN v = 1..Len(v) /\ DOMAIN w = 1..Len(w) /\ DOMAIN (v \o w) = 1..Len(v) + Len(w)
  BY Joined
<1>2. CASE i \in 1..Len(v) /\ j \in 1..Len(v)
  <2>1. (v \o w)[i] = v[i] /\ (v \o w)[j] = v[j]   BY <1>2
  <2> QED   BY <1>1, <1>2, <2>1, Zenon DEF IsStream
<1>3. CASE i \in 1..Len(v) /\ j \notin 1..Len(v)
  <2>1. (v \o w)[i] = v[i] /\ v[i] \in Range(v)   BY <1>1, <1>3 DEF Range
  <2>2. j - Len(v) \in 1..Len(w) /\ (v \o w)[j] = w[j - Len(v)]   BY <1>1, <1>3
  <2>3. w[j - Len(v)] \in Range(w)   BY <1>1, <2>2, Zenon DEF Range
  <2> QED   BY <2>1, <2>2, <2>3, Zenon
<1>4. CASE i \notin 1..Len(v)
  <2>1. i - Len(v) \in 1..Len(w) /\ (v \o w)[i] = w[i - Len(v)]   BY <1>1, <1>4
  <2>2. j - Len(v) \in 1..Len(w) /\ (v \o w)[j] = w[j - Len(v)]   BY <1>1, <1>4
  <2>3. i - Len(v) < j - Len(v)   BY <1>1
  <2> QED   BY <1>1, <2>1, <2>2, <2>3, Zenon DEF IsStream
<1> QED   BY <1>2, <1>3, <1>4, Zenon

\* An export sends X: nothing below the cursor, in order, up to the new cursor,
\* with all documents between the two that stay.
Sends(X) ==
  /\ X \in Seq(Item) /\ IsStream(X)
  /\ plain' = IF thread = "running" THEN plain \o X ELSE plain
  /\ \A x \in Range(X) : x = End \/ after <= x
  /\ task' \in {"fetching", "ended"} /\ after' \in Item
  /\ task' = "fetching" => \A x \in Range(X) : x # End /\ x < after'
  /\ task' = "fetching" => after <= after'
  /\ ~failed' => ~failed /\ \A d \in stable : (after <= d /\ (task' = "ended" \/ d < after')) => d \in Range(X)
  /\ failed' \in BOOLEAN

\* What the task sends keeps the list in order and complete.
LEMMA SendsKeep ==
  ASSUME ExportInv, task = "fetching", NEW X, Sends(X),
         UNCHANGED <<db, stable, thread, body, client, read, writes>>
  PROVE  ExportInv'
<1>1. ExportTypeOK'
  <2>1. plain \o X \in Seq(Item)   BY Joined, Zenon DEF ExportInv, ExportTypeOK, Sends, Item
  <2>2. plain' \in Seq(Item)   BY <2>1, Zenon DEF ExportInv, ExportTypeOK, Sends, Item
  <2> QED   BY <2>2, Zenon DEF ExportInv, ExportTypeOK, Sends, Item
<1>2. (client = "gone" => read = <<>>)'   BY Zenon DEF ExportInv
<1>3. ASSUME client = "reading"   PROVE StreamOK'
  <2>1. StreamOK /\ thread = "running" /\ read \in Seq(Item) /\ body \in Seq(Item) /\ plain \in Seq(Item)
        /\ X \in Seq(Item)
    BY <1>3, Zenon DEF ExportInv, ExportTypeOK, StreamOK, Sends, Item
  <2>2. plain' = plain \o X   BY <2>1, Zenon DEF Sends
  <2>3. Sent' = Sent \o X /\ Sent \in Seq(Item)
    <3>1. Joint(read, body, plain \o X) = Joint(read, body, plain) \o X /\ Joint(read, body, plain) \in Seq(Item)
      BY <2>1, Associative, Zenon
    <3> QED   BY <2>2, <3>1, Zenon DEF Sent
  <2>4. Range(Sent \o X) = Range(Sent) \cup Range(X)   BY <2>1, <2>3, Joined
  <2>5. Range(Sent) \subseteq Item /\ Range(X) \subseteq Item   BY <2>1, <2>3, ElementsOf, Zenon
  <2>6. after \in Int /\ after' \in Int /\ Item \subseteq Int /\ End = 0 /\ stable \subseteq Int
    BY DEF ExportInv, ExportTypeOK, Sends, Item, Doc, End
  <2>7. \A x \in Range(Sent), y \in Range(X) : Before(x, y)
    <3> SUFFICES ASSUME NEW x \in Range(Sent), NEW y \in Range(X)   PROVE Before(x, y)   BY Zenon
    <3>1. x # End /\ x < after   BY <2>1, Zenon DEF StreamOK
    <3>2. y = End \/ after <= y   BY Zenon DEF Sends
    <3>3. x \in Int /\ y \in Int   BY <2>5, <2>6, Zenon
    <3> QED   BY <2>6, <3>1, <3>2, <3>3 DEF Before
  <2>8. IsStream(Sent \o X)   BY <2>1, <2>3, <2>7, StreamsJoined, Zenon DEF StreamOK, Sends
  <2>9. (task = "fetching" => \A d \in Range(Sent) : d # End /\ d < after)'
    <3> SUFFICES ASSUME task' = "fetching", NEW d \in Range(Sent) \cup Range(X)
                 PROVE  d # End /\ d < after'
      BY <2>3, <2>4, Zenon
    <3>1. CASE d \in Range(X)   BY <3>1, Zenon DEF Sends
    <3>2. CASE d \in Range(Sent)
      <4>1. d # End /\ d < after /\ after <= after'   BY <2>1, <3>2, Zenon DEF StreamOK, Sends
      <4>2. d \in Int   BY <2>5, <2>6, <3>2, Zenon
      <4> QED   BY <2>6, <4>1, <4>2
    <3> QED   BY <3>1, <3>2, Zenon
  <2>10. (~failed => \A d \in stable : (task = "ended" \/ d < after) => d \in Range(Sent))'
    <3> SUFFICES ASSUME ~failed', NEW d \in stable, task' = "ended" \/ d < after'
                 PROVE  d \in Range(Sent) \cup Range(X)
      BY <2>3, <2>4, Zenon
    <3>1. CASE after <= d   BY <3>1, Zenon DEF Sends
    <3>2. CASE d < after   BY <2>1, <3>2, Zenon DEF Sends, StreamOK
    <3> QED   BY <2>6, <3>1, <3>2
  <2>11. (thread = "ended" => task = "ended")'   BY <2>1, Zenon
  <2> QED   BY <2>3, <2>8, <2>9, <2>10, <2>11, Zenon DEF StreamOK
<1> QED   BY <1>1, <1>2, <1>3, Zenon DEF ExportInv

\* A page is the beginning of what is left, and the cursor of the next page is the
\* first document behind it.
LEMMA PageFacts ==
  ASSUME ExportInv
  PROVE  /\ Left \subseteq Doc /\ Page \subseteq Left /\ IsFiniteSet(Page)
         /\ \A d \in Page, e \in Left \ Page : d < e
         /\ Left # Page => /\ Min(Left \ Page) \in Left \ Page
                           /\ \A e \in Left \ Page : Min(Left \ Page) <= e
<1>1. Left \subseteq Doc /\ Page \subseteq Left /\ Doc \subseteq Nat /\ IsFiniteSet(Doc)
  <2>1. Left \subseteq Doc /\ Page \subseteq Left   BY Zenon DEF ExportInv, ExportTypeOK, Left, Page
  <2>2. IsFiniteSet(Doc)   BY ExportAssumption, FS_Interval DEF Doc
  <2> QED   BY <2>1, <2>2 DEF Doc
<1>2. IsFiniteSet(Left) /\ IsFiniteSet(Page) /\ IsFiniteSet(Left \ Page)
  <2>1. Left \in SUBSET Doc /\ Page \in SUBSET Doc /\ Left \ Page \in SUBSET Doc   BY <1>1, Zenon
  <2> QED   BY <1>1, <2>1, FS_Subset, Zenon
<1>3. ASSUME NEW d \in Page, NEW e \in Left \ Page   PROVE d < e
  <2>1. d \in Left /\ d \in Nat /\ e \in Nat /\ e \in Left   BY <1>1, Zenon
  <2>2. Below(Left, d) < PageSize /\ ~(Below(Left, e) < PageSize)   BY <2>1, Zenon DEF Page, Below
  <2>3. Left \in SUBSET Nat   BY <1>1, Zenon
  <2>4. Below(Left, d) \in 0..Cardinality(Left) - 1 /\ Below(Left, e) \in 0..Cardinality(Left) - 1
    BY <1>2, <2>1, <2>3, BelowGrows, Zenon
  <2>5. Cardinality(Left) \in Nat   BY <1>2, FS_CardinalityType, Zenon
  <2>6. Below(Left, d) < Below(Left, e)   BY <2>2, <2>4, <2>5, ExportAssumption
  <2> QED   BY <1>2, <2>1, <2>3, <2>6, BelowGrows, Zenon
<1>4. ASSUME Left # Page
      PROVE  Min(Left \ Page) \in Left \ Page /\ \A e \in Left \ Page : Min(Left \ Page) <= e
  <2> DEFINE R == Left \ Page
  <2>1. R # {} /\ R \in SUBSET Nat /\ IsFiniteSet(R)   BY <1>1, <1>2, <1>4, Zenon
  <2> HIDE DEF R
  <2>2. PICK m \in R : \A e \in R : m <= e   BY <2>1, LeastOf, Zenon
  <2>3. Min(R) \in R /\ \A e \in R : Min(R) <= e   BY <2>2, Zenon DEF Min
  <2> QED   BY <2>3, Zenon DEF R
<1> QED   BY <1>1, <1>2, <1>3, <1>4, Zenon

\* A document of the page in its order: a stream.
LEMMA PageStream ==
  ASSUME ExportInv
  PROVE  /\ Ascending(Page) \in Seq(Item) /\ Range(Ascending(Page)) = Page
         /\ \A n \in 0..Cardinality(Page) :
              LET s == SubSeq(Ascending(Page), 1, n) IN
              s \in Seq(Item) /\ Range(s) \subseteq Page /\ IsStream(s)
         /\ IsStream(Ascending(Page))
<1> DEFINE a == Ascending(Page)
<1>1. Page \subseteq Nat /\ IsFiniteSet(Page) /\ Page \subseteq Doc   BY PageFacts DEF Doc
<1>2. /\ a \in Seq(Page) /\ Len(a) = Cardinality(Page) /\ Range(a) = Page
      /\ \A i, j \in 1..Len(a) : i < j => a[i] < a[j]
  BY <1>1, AscendingList, Zenon
<1> HIDE DEF a
<1>3. \A i \in 1..Len(a) : a[i] \in Page /\ a[i] # End
  <2>1. \A d \in Page : d # End   BY <1>1 DEF Doc, End
  <2> QED   BY <1>2, <2>1, ElementsOf, Zenon
<1>4. a \in Seq(Item) /\ DOMAIN a = 1..Len(a)
  BY <1>1, <1>2, MoreElements, ElementsOf, Zenon DEF Item
<1>5. IsStream(a)   BY <1>2, <1>3, <1>4, Zenon DEF IsStream, Before
<1>6. ASSUME NEW n \in 0..Cardinality(Page)
      PROVE  /\ SubSeq(a, 1, n) \in Seq(Item) /\ Range(SubSeq(a, 1, n)) \subseteq Page
             /\ IsStream(SubSeq(a, 1, n))
  <2> DEFINE s == SubSeq(a, 1, n)
  <2>1. Len(a) \in Nat /\ n \in Nat /\ n <= Len(a)   BY <1>2, <1>4
  <2>2. s \in Seq(Page) /\ Len(s) = n /\ \A i \in 1..n : s[i] = a[i]   BY <1>2, <2>1
  <2> HIDE DEF s
  <2>3. s \in Seq(Item) /\ Range(s) \subseteq Page /\ DOMAIN s = 1..n
    BY <1>1, <2>2, MoreElements, ElementsOf, Zenon DEF Item
  <2>4. \A i \in 1..n : i \in 1..Len(a)   BY <2>1
  <2>5. IsStream(s)   BY <1>2, <1>3, <2>2, <2>3, <2>4, Zenon DEF IsStream, Before
  <2> QED   BY <2>3, <2>5, Zenon DEF s
<1> QED   BY <1>2, <1>4, <1>5, <1>6, Zenon DEF a

\* A page, or a part of it, with the closing of the list if it is the last one: a
\* stream of documents from the cursor on.
LEMMA ChunksStream ==
  ASSUME ExportInv, NEW s \in Seq(Item), Range(s) \subseteq Page, IsStream(s)
  PROVE  /\ s \o Closing \in Seq(Item) /\ IsStream(s \o Closing)
         /\ Left # Page => Range(s \o Closing) = Range(s)
         /\ Range(s) \subseteq Range(s \o Closing)
         /\ \A x \in Range(s \o Closing) : x = End \/ after <= x
<1>1. Closing \in Seq(Item) /\ Range(Closing) = (IF Left = Page THEN {End} ELSE {})
  <2>1. CASE Left = Page
    <3>1. Closing = <<End>>   BY <2>1, Zenon DEF Closing
    <3>2. <<End>> \in Seq(Item) /\ DOMAIN <<End>> = {1} /\ <<End>>[1] = End   BY DEF Item
    <3>3. Range(<<End>>) = {End}   BY <3>2, Zenon DEF Range
    <3> QED   BY <2>1, <3>1, <3>2, <3>3, Zenon
  <2>2. CASE Left # Page
    <3>1. Closing = <<>>   BY <2>2, Zenon DEF Closing
    <3>2. <<>> \in Seq(Item) /\ Range(<<>>) = {}   BY DEF Range
    <3> QED   BY <2>2, <3>1, <3>2, Zenon
  <2> QED   BY <2>1, <2>2, Zenon
<1>2. IsStream(Closing)
  <2>1. Closing = <<End>> \/ Closing = <<>>   BY Zenon DEF Closing
  <2>2. \A i, j \in DOMAIN Closing : ~(i < j)   BY <2>1
  <2> QED   BY <2>2, Zenon DEF IsStream
<1>3. /\ s \o Closing \in Seq(Item)
      /\ Range(s \o Closing) = Range(s) \cup Range(Closing)
  BY <1>1, Joined
<1>4. \A d \in Page : d # End /\ after <= d
  BY PageFacts DEF Left, Doc, End, ExportInv, ExportTypeOK
<1>5. \A x \in Range(s), y \in Range(Closing) : Before(x, y)
  BY <1>1, <1>4, Zenon DEF Before
<1>6. IsStream(s \o Closing)   BY <1>1, <1>2, <1>5, StreamsJoined, Zenon
<1> QED   BY <1>1, <1>3, <1>4, <1>6, Zenon

\* The pages of the task (the loop of the export task: fetch_documents, the list
\* closed or the cursor moved on).
LEMMA PagesKeep ==
  ASSUME ExportInv, FetchPage \/ PageCut
  PROVE  ExportInv'
<1>1. PICK s \in Seq(Item) :
         /\ Range(s) \subseteq Page /\ IsStream(s) /\ SendPlain(s \o Closing)
         /\ failed' \in BOOLEAN /\ (~failed' => ~failed /\ Range(s) = Page)
  <2>1. CASE FetchPage
    <3>1. SendPlain(Ascending(Page) \o Closing) /\ failed' = failed   BY <2>1, Zenon DEF FetchPage
    <3>2. failed \in BOOLEAN   BY Zenon DEF ExportInv, ExportTypeOK
    <3> QED   BY <3>1, <3>2, PageStream, Zenon
  <2>2. CASE PageCut
    <3>1. PICK n \in 0..(Cardinality(Page) - 1) : SendPlain(SubSeq(Ascending(Page), 1, n) \o Closing)
      BY <2>2, Zenon DEF PageCut
    <3>2. n \in 0..Cardinality(Page)   BY PageFacts, FS_CardinalityType
    <3>3. failed' = TRUE   BY <2>2, Zenon DEF PageCut
    <3> QED   BY <3>1, <3>2, <3>3, PageStream, Zenon
  <2> QED   BY <2>1, <2>2, Zenon
<1>2. /\ task = "fetching" /\ Advance(0)
      /\ UNCHANGED <<db, stable, thread, body, client, read, writes>>
  BY Zenon DEF FetchPage, PageCut
<1>3. task' = (IF Left = Page THEN "ended" ELSE "fetching")   BY <1>2, Zenon DEF Advance
<1>4. Left = Page => after' = after   BY <1>2, Zenon DEF Advance
<1>5. Left # Page => after' = Min(Left \ Page)
  <2>1. Left # Page => after' = Min(Left \ Page) + 0   BY <1>2, Zenon DEF Advance
  <2>2. Left # Page => Min(Left \ Page) \in Int   BY PageFacts DEF Doc
  <2> QED   BY <2>1, <2>2
<1>6. after \in Item /\ Item \subseteq Int /\ stable \subseteq Doc /\ End = 0
  BY DEF ExportInv, ExportTypeOK, Item, Doc, End
<1>7. after' \in Item   BY <1>4, <1>5, <1>6, PageFacts, Zenon DEF Item
<1>8. Left # Page => after <= after'   BY <1>5, PageFacts, Zenon DEF Left
<1>9. ASSUME ~failed', NEW d \in stable, after <= d, task' = "ended" \/ d < after'
      PROVE  d \in Page
  <2>1. d \in Left   BY <1>9, Zenon DEF Left, ExportInv, ExportTypeOK
  <2>2. CASE Left # Page
    <3>1. d < after'   BY <1>3, <1>9, <2>2, Zenon
    <3>2. \A e \in Left \ Page : after' <= e   BY <1>5, <2>2, PageFacts, Zenon
    <3>3. d \in Int /\ after' \in Int   BY <1>6, <1>7 DEF Doc
    <3>4. ~(after' <= d)   BY <3>1, <3>3
    <3> QED   BY <2>1, <3>2, <3>4, Zenon
  <2> QED   BY <2>1, <2>2, Zenon
<1>10. ASSUME Left # Page, NEW x \in Range(s)   PROVE x # End /\ x < after'
  <2>1. x \in Page /\ x \in Doc   BY <1>1, PageFacts, Zenon
  <2>2. after' \in Left \ Page   BY <1>5, <1>10, PageFacts, Zenon
  <2> QED   BY <2>1, <2>2, PageFacts DEF Doc, End
<1> DEFINE X == s \o Closing
<1>11. /\ X \in Seq(Item) /\ IsStream(X)
       /\ Left # Page => Range(X) = Range(s)
       /\ Range(s) \subseteq Range(X)
       /\ \A x \in Range(X) : x = End \/ after <= x
  BY <1>1, ChunksStream, Zenon
<1>12. plain' = IF thread = "running" THEN plain \o X ELSE plain   BY <1>1, Zenon DEF SendPlain
<1> HIDE DEF X
<1>13. Sends(X)
  <2>1. task' = "fetching" => \A x \in Range(X) : x # End /\ x < after'
    BY <1>3, <1>10, <1>11, Zenon
  <2>2. task' = "fetching" => after <= after'   BY <1>3, <1>8, Zenon
  <2>3. ~failed' => ~failed /\ \A d \in stable : (after <= d /\ (task' = "ended" \/ d < after')) => d \in Range(X)
    BY <1>1, <1>9, <1>11, Zenon
  <2>4. task' \in {"fetching", "ended"}   BY <1>3, Zenon
  <2> QED   BY <1>1, <1>7, <1>11, <1>12, <2>1, <2>2, <2>3, <2>4, Zenon DEF Sends
<1> QED   BY <1>2, <1>13, SendsKeep, Zenon

\* A list in which the end has been read is read to its end.
LEMMA ExportInvHolds == ExportInv => ExportExact
<1> SUFFICES ASSUME ExportInv, End \in Range(read)
             PROVE  IsInjective(read) /\ (~failed => stable \subseteq Range(read))
  BY Zenon DEF ExportInv, ExportExact
<1>1. /\ read \in Seq(Item) /\ body \in Seq(Item) /\ plain \in Seq(Item)
      /\ client \in {"reading", "gone"} /\ task \in {"fetching", "ended"}
  BY Zenon DEF ExportInv, ExportTypeOK, Item
<1>2. client = "reading"
  <2>1. Range(<<>>) = {}   BY DEF Range
  <2> QED   BY <1>1, <2>1, Zenon DEF ExportInv
<1>3. StreamOK   BY <1>2, Zenon DEF ExportInv
<1>4. /\ Sent \in Seq(Item) /\ Len(Sent) = Len(read) + Len(body) + Len(plain)
      /\ \A i \in 1..Len(read) : Sent[i] = read[i]
      /\ \A x : x \in Range(Sent) <=> x \in Range(read) \/ x \in Range(body) \/ x \in Range(plain)
  BY <1>1, JointBegins, Zenon DEF Sent
<1>5. /\ DOMAIN read = 1..Len(read) /\ DOMAIN Sent = 1..Len(Sent)
      /\ Len(read) \in Nat /\ Len(body) \in Nat /\ Len(plain) \in Nat
  BY <1>1, <1>4
<1>6. \A i \in 1..Len(read) : i \in 1..Len(Sent)   BY <1>4, <1>5
<1>7. \A i, j \in 1..Len(read) : i < j => Before(read[i], read[j])
  BY <1>3, <1>4, <1>5, <1>6, Zenon DEF StreamOK, IsStream
<1>8. \A x \in Item : ~Before(x, x)   BY DEF Before, Item, Doc, End
<1>9. \A i \in 1..Len(read) : read[i] \in Item   BY <1>1
<1>10. IsInjective(read)
  <2> SUFFICES ASSUME NEW i \in 1..Len(read), NEW j \in 1..Len(read), read[i] = read[j]   PROVE i = j
    BY <1>5, Zenon DEF IsInjective
  <2>1. ~(i < j) /\ ~(j < i)   BY <1>7, <1>8, <1>9, Zenon
  <2> QED   BY <1>5, <2>1
<1>11. Len(body) = 0 /\ Len(plain) = 0
  <2>1. PICK i \in 1..Len(read) : read[i] = End   BY <1>5, Zenon DEF Range
  <2>2. ASSUME NEW j \in 1..Len(Sent), i < j   PROVE FALSE
    <3>1. Before(Sent[i], Sent[j])   BY <1>3, <1>5, <1>6, <2>2, Zenon DEF StreamOK, IsStream
    <3> QED   BY <1>4, <2>1, <3>1, Zenon DEF Before
  <2>3. \A j \in 1..Len(Sent) : ~(i < j)   BY <2>2, Zenon
  <2> QED   BY <1>4, <1>5, <2>3
<1>12. body = <<>> /\ plain = <<>>   BY <1>1, <1>11
<1>13. Range(Sent) = Range(read)
  <2>1. Range(<<>>) = {}   BY DEF Range
  <2> QED   BY <1>4, <1>12, <2>1, Zenon
<1>14. task = "ended"   BY <1>1, <1>3, <1>13, Zenon DEF StreamOK
<1>15. ~failed => stable \subseteq Range(read)   BY <1>3, <1>13, <1>14, Zenon DEF StreamOK
<1> QED   BY <1>10, <1>15, Zenon

\* Every step of the export keeps the invariant.
LEMMA ExportInductive ==
  ASSUME ExportInv, [ExportNext]_exportVars
  PROVE  ExportInv'
<1>0. /\ read \in Seq(Item) /\ body \in Seq(Item) /\ plain \in Seq(Item)
      /\ client \in {"reading", "gone"}
  BY Zenon DEF ExportInv, ExportTypeOK, Item
<1>1. CASE FetchPage \/ PageCut   BY <1>1, PagesKeep, Zenon
<1>2. CASE FetchFails
  <2>1. /\ <<End>> \in Seq(Item) /\ Range(<<End>>) = {End} /\ IsStream(<<End>>)
    BY DEF Item, Range, IsStream
  <2>2. Sends(<<End>>)
    <3>1. after \in Item   BY Zenon DEF ExportInv, ExportTypeOK, Item
    <3>2. task' = "ended" /\ after' = after /\ failed' = TRUE   BY <1>2, Zenon DEF FetchFails
    <3>3. plain' = IF thread = "running" THEN plain \o <<End>> ELSE plain
      BY <1>2, Zenon DEF FetchFails, SendPlain
    <3> QED   BY <2>1, <3>1, <3>2, <3>3, Zenon DEF Sends
  <2> QED   BY <1>2, <2>2, SendsKeep, Zenon DEF FetchFails
<1>3. CASE Compress
  <2> USE <1>3 DEF Compress
  <2>1. CASE client = "gone"
    <3>1. plain' = <<>> /\ <<>> \in Seq(Item) /\ thread' = "ended"   BY <2>1
    <3>2. ExportTypeOK'   BY <3>1, <2>1, Zenon DEF ExportInv, ExportTypeOK, Item
    <3> QED   BY <2>1, <3>2, Zenon DEF ExportInv
  <2>2. CASE client = "reading"
    <3>1. /\ plain # <<>> /\ Len(body) < BodyCap /\ body' = Append(body, plain[1]) /\ plain' = Tail(plain)
          /\ thread' = IF plain[1] = End THEN "ended" ELSE thread
      BY <2>2, Zenon
    <3>2. /\ body' \in Seq(Item) /\ plain' \in Seq(Item) /\ Len(body') = Len(body) + 1
      BY <1>0, <3>1, HandedOver, Zenon
    <3>3. Len(body') <= BodyCap
      <4>1. Len(body) \in Int   BY <1>0
      <4> QED   BY <3>1, <3>2, <4>1, ExportAssumption
    <3>4. thread' \in {"running", "ended"}   BY <3>1, Zenon DEF ExportInv, ExportTypeOK
    <3>5. ExportTypeOK'   BY <3>2, <3>3, <3>4, Zenon DEF ExportInv, ExportTypeOK, Item
    <3>6. Sent' = Sent   BY <1>0, <3>1, JointStays, Zenon DEF Sent
    <3>7. (thread = "ended" => task = "ended")'
      <4>1. CASE plain[1] = End
        <5>1. 1 \in DOMAIN plain   BY <1>0, <3>1
        <5>2. End \in Range(plain)   BY <4>1, <5>1, Zenon DEF Range
        <5>3. End \in Range(Sent)   BY <1>0, <5>2, JointBegins, Zenon DEF Sent
        <5> QED   BY <2>2, <5>3, Zenon DEF ExportInv, StreamOK, ExportTypeOK
      <4>2. CASE plain[1] # End   BY <2>2, <3>1, <4>2, Zenon DEF ExportInv, StreamOK
      <4> QED   BY <4>1, <4>2, Zenon
    <3>8. StreamOK'   BY <2>2, <3>6, <3>7, Zenon DEF ExportInv, StreamOK
    <3> QED   BY <2>2, <3>5, <3>8, Zenon DEF ExportInv
  <2> QED   BY <1>0, <2>1, <2>2, Zenon
<1>4. CASE Read
  <2>1. /\ client = "reading" /\ body # <<>> /\ read' = Append(read, body[1]) /\ body' = Tail(body)
        /\ UNCHANGED <<db, stable, task, after, plain, thread, client, failed, writes>>
    BY <1>4, Zenon DEF Read
  <2>2. read' \in Seq(Item) /\ body' \in Seq(Item)   BY <1>0, <2>1, HandedOver, Zenon
  <2>3. Len(body') <= BodyCap
    <3>1. Len(body) <= BodyCap   BY Zenon DEF ExportInv, ExportTypeOK
    <3>2. Len(body') <= Len(body) /\ Len(body') \in Int /\ Len(body) \in Int   BY <1>0, <2>1, <2>2
    <3> QED   BY <3>1, <3>2, ExportAssumption
  <2>4. ExportTypeOK'   BY <2>1, <2>2, <2>3, Zenon DEF ExportInv, ExportTypeOK, Item
  <2>5. Sent' = Sent
    <3>1. Joint(Append(read, body[1]), Tail(body), plain) = Joint(read, body, plain)
      BY <1>0, <2>1, JointStays, Zenon
    <3>2. read' = Append(read, body[1]) /\ body' = Tail(body) /\ plain' = plain   BY <2>1, Zenon
    <3> QED   BY <3>1, <3>2, Zenon DEF Sent
  <2>6. StreamOK'   BY <2>1, <2>5, Zenon DEF ExportInv, StreamOK
  <2> QED   BY <2>1, <2>4, <2>6, Zenon DEF ExportInv
<1>5. CASE Disconnect
  <2>1. /\ client' = "gone" /\ body' = <<>> /\ read' = <<>>
        /\ UNCHANGED <<db, stable, task, after, plain, thread, failed, writes>>
    BY <1>5, Zenon DEF Disconnect
  <2>2. <<>> \in Seq(Item) /\ Len(<<>>) <= BodyCap   BY ExportAssumption
  <2>3. ExportTypeOK'   BY <2>1, <2>2, Zenon DEF ExportInv, ExportTypeOK, Item
  <2> QED   BY <2>1, <2>3, Zenon DEF ExportInv
<1>6. ASSUME NEW d \in Doc, WriteDocument(d)   PROVE ExportInv'
  <2>1. /\ writes < MaxWrites /\ writes' = writes + 1 /\ stable' = stable \ {d}
        /\ db' = (IF d \in db THEN db \ {d} ELSE db \cup {d})
        /\ UNCHANGED <<task, after, plain, thread, body, client, read, failed>>
    BY <1>6, Zenon DEF WriteDocument
  <2>2. writes' \in 0..MaxWrites   BY <2>1, ExportAssumption DEF ExportInv, ExportTypeOK
  <2>3. db' \subseteq Doc /\ stable' \subseteq db'   BY <2>1, Zenon DEF ExportInv, ExportTypeOK
  <2>4. ExportTypeOK'   BY <2>1, <2>2, <2>3, Zenon DEF ExportInv, ExportTypeOK
  <2>5. Sent' = Sent   BY <2>1, Zenon DEF Sent
  <2>6. StreamOK => StreamOK'   BY <2>1, <2>5, Zenon DEF StreamOK
  <2> QED   BY <2>1, <2>4, <2>6, Zenon DEF ExportInv
<1>7. CASE ExportRest \/ UNCHANGED exportVars
  <2>1. UNCHANGED exportVars   BY <1>7, Zenon DEF ExportRest
  <2>2. Sent' = Sent   BY <2>1, Zenon DEF exportVars, Sent
  <2>3. StreamOK => StreamOK'   BY <2>1, <2>2, Zenon DEF exportVars, StreamOK
  <2>4. ExportTypeOK'   BY <2>1, Zenon DEF exportVars, ExportInv, ExportTypeOK
  <2> QED   BY <2>1, <2>3, <2>4, Zenon DEF exportVars, ExportInv
<1> QED   BY <1>1, <1>2, <1>3, <1>4, <1>5, <1>6, <1>7, Zenon DEF ExportNext

\* An export that ends has no document twice and every document that stayed, for
\* any collection, any size of pages and of the body and whatever comes and goes
\* meanwhile (the loop and the compression thread of export_documents).
THEOREM ExportsAreExact == ExportSpec => []ExportExact
<1>1. ExportInit => ExportInv
  <2> SUFFICES ASSUME ExportInit   PROVE ExportInv   BY Zenon
  <2>1. <<>> \in Seq(Item) /\ Len(<<>>) <= BodyCap /\ 0 \in 0..MaxWrites   BY ExportAssumption
  <2>2. ExportTypeOK   BY <2>1, Zenon DEF ExportInit, ExportTypeOK, Item
  <2>3. Sent = <<>>   BY DEF ExportInit, Sent, Joint
  <2>4. Range(Sent) = {} /\ IsStream(Sent)   BY <2>3 DEF Range, IsStream
  <2>5. \A d \in stable : ~(d < after)   BY <2>2 DEF ExportInit, ExportTypeOK, Doc, End
  <2>6. StreamOK   BY <2>4, <2>5, Zenon DEF ExportInit, StreamOK
  <2> QED   BY <2>2, <2>6, Zenon DEF ExportInit, ExportInv
<1>2. ExportInv /\ [ExportNext]_exportVars => ExportInv'   BY ExportInductive, Zenon
<1> QED   BY <1>1, <1>2, ExportInvHolds, PTL DEF ExportSpec

-----------------------------------------------------------------------------
(* The search worker. *)

\* A task: its jobs are out of the queue; each key still to be served is that of
\* a job; the bucket has jobs of one key, the settings of the bucket, that is
\* not to be served again; the vectors are those of the bucket.
TaskOK(t) ==
  /\ IsInjective(t.jobs) /\ \A j \in Range(t.jobs) : job[j].at \notin {"new", "queued"}
  /\ \A k \in t.todo : \E j \in Range(t.jobs) : KeyOf(j) = k
  /\ t.step = "next" => t.bucket = <<>>
  /\ t.step # "next" => t.bucket # <<>> /\ t.settings \notin t.todo
  /\ IsInjective(t.bucket) /\ Range(t.bucket) \subseteq Range(t.jobs)
  /\ \A j \in Range(t.bucket) : KeyOf(j) = t.settings
  /\ t.step = "search" => t.vectors = t.bucket

\* A job without its answer is at one place; a task is as above; answers are own.
SearchInv ==
  /\ SearchTypeOK /\ IsFiniteSet(tasks) /\ SearchesAccounted
  /\ \A t \in tasks : TaskOK(t)
  /\ \A t, u \in tasks : t # u => Range(t.jobs) \cap Range(u.jobs) = {}
  /\ OwnResults /\ InvalidIsOwn

\* An answer of a job is final.
AnsweredOnce == \A j \in Job : job[j].at \in Answers => job'[j] = job[j]

\* The job's answer is its own.
Own(j) ==
  /\ job[j].at = "results" => job[j].query = j /\ job[j].with = job[j].key
  /\ job[j].at = "invalid" => job[j].key[2] \in Invalid

\* A task t goes on as the one of U, if any: what it had to answer is answered or
\* is still to be answered.
Turn(t, U) ==
  /\ tasks' = (tasks \ {t}) \cup U /\ queue' = queue /\ faults' \in 0..MaxFaults
  /\ U \subseteq Task /\ \A u, v \in U : u = v
  /\ job' \in [Job -> JobState] /\ \A j \in Job : job'[j].key = job[j].key
  /\ \A u \in U : u.jobs = t.jobs /\ TaskOK(u)' /\ Unanswered(u)' \subseteq Unanswered(t)
  /\ \A j \in Job : j \notin Unanswered(t) => job'[j] = job[j]
  /\ \A j \in Unanswered(t) :
       IF \E u \in U : j \in Unanswered(u)' THEN job'[j].at = "taken" ELSE job'[j].at \in Answers
  /\ \A j \in Unanswered(t) : Own(j)'

\* What a task has still to answer is of its jobs and taken.
LEMMA UnansweredJobs ==
  ASSUME SearchInv, NEW t \in tasks
  PROVE  /\ t \in Task /\ TaskOK(t)
         /\ Unanswered(t) \subseteq Range(t.jobs) /\ Range(t.jobs) \subseteq Job
         /\ \A j \in Unanswered(t) : j \in Job /\ job[j].at = "taken"
<1>1. t \in Task /\ TaskOK(t)   BY Zenon DEF SearchInv, SearchTypeOK
<1>2. t.jobs \in Seq(Job)   BY <1>1, Zenon DEF Task
<1>3. Range(t.jobs) \subseteq Job   BY <1>2, ElementsOf, Zenon
<1>4. Unanswered(t) \subseteq Range(t.jobs)   BY <1>1, Zenon DEF TaskOK, Unanswered
<1>5. \A j \in Unanswered(t) : j \in Job /\ job[j].at = "taken"
  BY <1>3, <1>4, Zenon DEF SearchInv, SearchesAccounted
<1> QED   BY <1>1, <1>3, <1>4, <1>5, Zenon

\* At most as many tasks afterwards.
LEMMA TurnCounts ==
  ASSUME NEW S, IsFiniteSet(S), NEW t \in S, NEW U, \A u, v \in U : u = v
  PROVE  /\ IsFiniteSet((S \ {t}) \cup U)
         /\ Cardinality((S \ {t}) \cup U) <= Cardinality(S)
<1>1. IsFiniteSet(S \ {t}) /\ Cardinality(S \ {t}) = Cardinality(S) - 1 /\ Cardinality(S) \in Nat
  BY FS_RemoveElement, FS_CardinalityType, Zenon
<1>2. CASE U = {}
  <2>1. (S \ {t}) \cup U = S \ {t}   BY <1>2, Zenon
  <2> QED   BY <1>1, <2>1
<1>3. CASE U # {}
  <2>1. PICK u : u \in U   BY <1>3, Zenon
  <2>2. U = {u}   BY <2>1, Zenon
  <2>3. /\ IsFiniteSet((S \ {t}) \cup {u})
        /\ Cardinality((S \ {t}) \cup {u}) = IF u \in S \ {t} THEN Cardinality(S \ {t}) ELSE Cardinality(S \ {t}) + 1
    BY <1>1, FS_AddElement, Zenon
  <2>4. Cardinality((S \ {t}) \cup {u}) <= Cardinality(S)   BY <1>1, <2>3
  <2> QED   BY <2>2, <2>3, <2>4, Zenon
<1> QED   BY <1>2, <1>3, Zenon

\* The steps of a task keep the invariant, and the answers that were given.
LEMMA TurnKeeps ==
  ASSUME SearchInv, NEW t \in tasks, NEW U, Turn(t, U)
  PROVE  SearchInv' /\ AnsweredOnce
<1> DEFINE W == tasks \ {t}
<1>1. /\ TaskOK(t) /\ Unanswered(t) \subseteq Range(t.jobs) /\ Range(t.jobs) \subseteq Job
      /\ \A j \in Unanswered(t) : j \in Job /\ job[j].at = "taken"
  BY UnansweredJobs, Zenon
<1>2. AnsweredOnce   BY <1>1, Zenon DEF AnsweredOnce, Turn, Answers
<1>3. SearchTypeOK' /\ IsFiniteSet(tasks)'
  <2>1. IsFiniteSet(tasks') /\ Cardinality(tasks') <= Cardinality(tasks)
    BY TurnCounts, Zenon DEF SearchInv, Turn
  <2>2. Cardinality(tasks') <= MaxTasks
    <3>1. Cardinality(tasks') \in Nat /\ Cardinality(tasks) \in Nat
      BY <2>1, FS_CardinalityType, Zenon DEF SearchInv
    <3> QED   BY <2>1, <3>1, SearchIngressAssumption DEF SearchInv, SearchTypeOK
  <2>3. tasks' \subseteq Task   BY Zenon DEF SearchInv, SearchTypeOK, Turn
  <2> QED   BY <2>1, <2>2, <2>3, Zenon DEF SearchInv, SearchTypeOK, Turn
<1>4. \A j \in Job : job'[j].at \in {"new", "queued"} <=> job[j].at \in {"new", "queued"}
  <2> SUFFICES ASSUME NEW j \in Job   PROVE job'[j].at \in {"new", "queued"} <=> job[j].at \in {"new", "queued"}
    BY Zenon
  <2>1. CASE j \in Unanswered(t)
    <3>1. job[j].at = "taken" /\ job'[j].at \in {"taken"} \cup Answers
      BY <1>1, <2>1, Zenon DEF Turn
    <3> QED   BY <3>1, Zenon DEF Answers
  <2>2. CASE j \notin Unanswered(t)   BY <2>2, Zenon DEF Turn
  <2> QED   BY <2>1, <2>2, Zenon
<1>5. \A j \in Job : KeyOf(j)' = KeyOf(j)   BY Zenon DEF Turn, KeyOf
<1>6. ASSUME NEW u \in W
      PROVE  /\ TaskOK(u)' /\ Unanswered(u)' = Unanswered(u) /\ Unanswered(u) \subseteq Range(u.jobs)
             /\ Range(u.jobs) \cap Range(t.jobs) = {}
  <2>1. TaskOK(u) /\ Range(u.jobs) \subseteq Job /\ Unanswered(u) \subseteq Range(u.jobs)
    BY UnansweredJobs, Zenon
  <2>2. Range(u.bucket) \subseteq Job   BY <2>1, Zenon DEF TaskOK
  <2>3. TaskOK(u)'
    <3>1. \A j \in Range(u.jobs) : job'[j].at \notin {"new", "queued"}
      BY <1>4, <2>1, Zenon DEF TaskOK
    <3>2. \A k \in u.todo : \E j \in Range(u.jobs) : KeyOf(j)' = k   BY <1>5, <2>1, Zenon DEF TaskOK
    <3>3. \A j \in Range(u.bucket) : KeyOf(j)' = u.settings   BY <1>5, <2>1, <2>2, Zenon DEF TaskOK
    <3> QED   BY <2>1, <3>1, <3>2, <3>3, Zenon DEF TaskOK
  <2>4. Unanswered(u)' = Unanswered(u)
    <3>1. {j \in Range(u.jobs) : KeyOf(j)' \in u.todo} = {j \in Range(u.jobs) : KeyOf(j) \in u.todo}
      BY <1>5, <2>1, Zenon
    <3> QED   BY <3>1, Zenon DEF Unanswered
  <2>5. Range(u.jobs) \cap Range(t.jobs) = {}   BY Zenon DEF SearchInv
  <2> QED   BY <2>1, <2>3, <2>4, <2>5, Zenon
<1>7. tasks' = W \cup U   BY Zenon DEF Turn
<1>8. \A u \in U : u.jobs = t.jobs /\ TaskOK(u)' /\ Unanswered(u)' \subseteq Unanswered(t)
  BY Zenon DEF Turn
<1>9. (\A u \in tasks : TaskOK(u))'   BY <1>6, <1>7, <1>8, Zenon
<1>10. (\A u, v \in tasks : u # v => Range(u.jobs) \cap Range(v.jobs) = {})'
  <2> SUFFICES ASSUME NEW u \in W \cup U, NEW v \in W \cup U, u # v
               PROVE  Range(u.jobs) \cap Range(v.jobs) = {}
    BY <1>7, Zenon
  <2>1. CASE u \in W /\ v \in W   BY <2>1, Zenon DEF SearchInv
  <2>2. CASE u \in U /\ v \in W   BY <1>6, <1>8, <2>2, Zenon
  <2>3. CASE u \in W /\ v \in U   BY <1>6, <1>8, <2>3, Zenon
  <2>4. CASE u \in U /\ v \in U   BY <2>4, Zenon DEF Turn
  <2> QED   BY <2>1, <2>2, <2>3, <2>4, Zenon
<1>11. SearchesAccounted'
  <2>1. IsInjective(queue)'   BY Zenon DEF SearchInv, SearchesAccounted, Turn
  <2>2. ASSUME NEW j \in Job   PROVE (job[j].at = "queued" <=> j \in Range(queue))'
    <3>1. queue' = queue /\ (job[j].at = "queued" <=> j \in Range(queue))
      BY Zenon DEF SearchInv, SearchesAccounted, Turn
    <3>2. CASE j \in Unanswered(t)
      <4>1. job[j].at = "taken" /\ job'[j].at \in {"taken"} \cup Answers
        BY <1>1, <3>2, Zenon DEF Turn
      <4>2. job[j].at # "queued" /\ job'[j].at # "queued"   BY <4>1, Zenon DEF Answers
      <4> QED   BY <3>1, <4>2, Zenon
    <3>3. CASE j \notin Unanswered(t)
      <4>1. job'[j] = job[j]   BY <3>3, Zenon DEF Turn
      <4> QED   BY <3>1, <4>1, Zenon
    <3> QED   BY <3>2, <3>3, Zenon
  <2>3. ASSUME NEW j \in Job   PROVE (job[j].at = "taken" <=> \E u \in tasks : j \in Unanswered(u))'
    <3>1. CASE j \in Unanswered(t)
      <4>1. \A u \in W : j \notin Unanswered(u)'   BY <1>1, <1>6, <3>1, Zenon
      <4>2. job'[j].at = "taken" <=> \E u \in U : j \in Unanswered(u)'
        <5>1. "taken" \notin Answers   BY Zenon DEF Answers
        <5> QED   BY <3>1, <5>1, Zenon DEF Turn
      <4> QED   BY <1>7, <4>1, <4>2, Zenon
    <3>2. CASE j \notin Unanswered(t)
      <4>1. job'[j] = job[j]   BY <3>2, Zenon DEF Turn
      <4>2. job[j].at = "taken" <=> \E u \in tasks : j \in Unanswered(u)
        BY Zenon DEF SearchInv, SearchesAccounted
      <4>3. \A u \in U : j \notin Unanswered(u)'   BY <1>8, <3>2, Zenon
      <4>4. (\E u \in tasks : j \in Unanswered(u)) <=> (\E u \in W : j \in Unanswered(u)')
        BY <1>6, <3>2, Zenon
      <4> QED   BY <1>7, <4>1, <4>2, <4>3, <4>4, Zenon
    <3> QED   BY <3>1, <3>2, Zenon
  <2>4. (\A u, v \in tasks : u # v => Unanswered(u) \cap Unanswered(v) = {})'
    <3>1. \A u \in W \cup U : Unanswered(u)' \subseteq Range(u.jobs)   BY <1>1, <1>6, <1>8, Zenon
    <3> QED   BY <1>7, <1>10, <3>1, Zenon
  <2> QED   BY <2>1, <2>2, <2>3, <2>4, Zenon DEF SearchesAccounted
<1>12. \A j \in Job : Own(j)'
  <2> SUFFICES ASSUME NEW j \in Job   PROVE Own(j)'   BY Zenon
  <2>1. CASE j \in Unanswered(t)   BY <2>1, Zenon DEF Turn
  <2>2. CASE j \notin Unanswered(t)
    <3>1. job'[j] = job[j]   BY <2>2, Zenon DEF Turn
    <3> QED   BY <3>1, Zenon DEF SearchInv, OwnResults, InvalidIsOwn, Own
  <2> QED   BY <2>1, <2>2, Zenon
<1>13. OwnResults' /\ InvalidIsOwn'   BY <1>12, Zenon DEF OwnResults, InvalidIsOwn, Own
<1> QED   BY <1>2, <1>3, <1>9, <1>10, <1>11, <1>13, Zenon DEF SearchInv

\* The jobs of S get answers that are their own, the others are left alone.
Served(S) ==
  /\ queue' = queue /\ faults' \in 0..MaxFaults
  /\ job' \in [Job -> JobState] /\ \A j \in Job : job'[j].key = job[j].key
  /\ \A j \in Job : j \notin S => job'[j] = job[j]
  /\ \A j \in S : job'[j].at \in Answers /\ Own(j)'

\* A task that has served some of its jobs goes on with the others, or ends.
LEMMA ServedKeeps ==
  ASSUME SearchInv, NEW t \in tasks, NEW S, S \subseteq Unanswered(t), Served(S),
         NEW U, tasks' = (tasks \ {t}) \cup U, U \subseteq Task, \A u, v \in U : u = v,
         \A u \in U : u.jobs = t.jobs /\ TaskOK(u)' /\ Unanswered(u)' = Unanswered(t) \ S,
         U = {} => Unanswered(t) \subseteq S
  PROVE  SearchInv' /\ AnsweredOnce
<1>1. /\ Unanswered(t) \subseteq Job /\ \A j \in Unanswered(t) : job[j].at = "taken"
  BY UnansweredJobs, Zenon
<1>2. \A j \in Unanswered(t) :
        IF \E u \in U : j \in Unanswered(u)' THEN job'[j].at = "taken" ELSE job'[j].at \in Answers
  <2> SUFFICES ASSUME NEW j \in Unanswered(t)
               PROVE  IF \E u \in U : j \in Unanswered(u)' THEN job'[j].at = "taken" ELSE job'[j].at \in Answers
    BY Zenon
  <2>1. CASE j \in S
    <3>1. ~\E u \in U : j \in Unanswered(u)'   BY <2>1, Zenon
    <3> QED   BY <2>1, <3>1, Zenon DEF Served
  <2>2. CASE j \notin S
    <3>1. \E u \in U : j \in Unanswered(u)'   BY <2>2, Zenon
    <3>2. job'[j] = job[j]   BY <1>1, <2>2, Zenon DEF Served
    <3> QED   BY <1>1, <3>1, <3>2, Zenon
  <2> QED   BY <2>1, <2>2, Zenon
<1>3. \A j \in Unanswered(t) : Own(j)'
  <2> SUFFICES ASSUME NEW j \in Unanswered(t)   PROVE Own(j)'   BY Zenon
  <2>1. CASE j \in S   BY <2>1, Zenon DEF Served
  <2>2. CASE j \notin S
    <3>1. job'[j] = job[j] /\ j \in Job   BY <1>1, <2>2, Zenon DEF Served
    <3> QED   BY <3>1, Zenon DEF SearchInv, OwnResults, InvalidIsOwn, Own
  <2> QED   BY <2>1, <2>2, Zenon
<1>4. \A j \in Job : j \notin Unanswered(t) => job'[j] = job[j]   BY Zenon DEF Served
<1>5. \A u \in U : u.jobs = t.jobs /\ TaskOK(u)' /\ Unanswered(u)' \subseteq Unanswered(t)
  BY Zenon
<1>6. Turn(t, U)   BY <1>2, <1>3, <1>4, <1>5, Zenon DEF Turn, Served
<1> QED   BY <1>6, TurnKeeps, Zenon

\* What is served stays out of the queue, and keys stay.
LEMMA ServedJobs ==
  ASSUME SearchInv, NEW t \in tasks, NEW S, S \subseteq Unanswered(t), Served(S)
  PROVE  /\ \A j \in Range(t.jobs) : job'[j].at \notin {"new", "queued"}
         /\ \A j \in Range(t.jobs) : KeyOf(j)' = KeyOf(j)
<1>1. Range(t.jobs) \subseteq Job /\ TaskOK(t)   BY UnansweredJobs, Zenon
<1>2. ASSUME NEW j \in Range(t.jobs)   PROVE job'[j].at \notin {"new", "queued"}
  <2>1. CASE j \in S   BY <2>1, Zenon DEF Served, Answers
  <2>2. CASE j \notin S
    <3>1. job'[j] = job[j]   BY <1>1, <2>2, Zenon DEF Served
    <3> QED   BY <1>1, <3>1, Zenon DEF TaskOK
  <2> QED   BY <2>1, <2>2, Zenon
<1> QED   BY <1>1, <1>2, Zenon DEF Served, KeyOf

\* The default key of the model.
LEMMA SomeKey == (CHOOSE k \in Key : TRUE) \in Key
<1>1. PICK c \in Coll, x \in Setting : TRUE   BY SearchIngressAssumption, Zenon
<1>2. <<c, x>> \in Key   BY Zenon DEF Key
<1> QED   BY <1>2, Zenon

\* A bucket whose jobs are all served is left for the next one, or ends the task
\* (the loop over the buckets of process_search_microbatch).
LEMMA DoneKeeps ==
  ASSUME SearchInv, NEW t \in tasks, t.step # "next", Served(Range(t.bucket)), Done(t)
  PROVE  SearchInv' /\ AnsweredOnce
<1> DEFINE S == Range(t.bucket)
           u == NewTask(t.jobs, t.todo)
           later == {j \in Range(t.jobs) : KeyOf(j) \in t.todo}
<1>1. t \in Task /\ TaskOK(t) /\ Unanswered(t) \subseteq Range(t.jobs)   BY UnansweredJobs, Zenon
<1>2. S \subseteq Unanswered(t)   BY Zenon DEF Unanswered
<1>3. /\ \A j \in Range(t.jobs) : job'[j].at \notin {"new", "queued"}
      /\ \A j \in Range(t.jobs) : KeyOf(j)' = KeyOf(j)
  BY <1>2, ServedJobs, Zenon
<1>4. Unanswered(t) = S \cup later /\ \A j \in later : j \notin S
  <2>1. \A j \in S : KeyOf(j) \notin t.todo   BY <1>1, Zenon DEF TaskOK
  <2> QED   BY <2>1, Zenon DEF Unanswered
<1>5. CASE t.todo = {}
  <2> DEFINE U == {}
  <2>1. tasks' = (tasks \ {t}) \cup U   BY <1>5, Zenon DEF Done
  <2>2. Unanswered(t) \subseteq S   BY <1>4, <1>5, Zenon
  <2>3. \A x : x \notin U   BY Zenon
  <2> HIDE DEF U, S
  <2> QED   BY <1>2, <2>1, <2>2, <2>3, ServedKeeps, Zenon DEF S
<1>6. CASE t.todo # {}
  <2>1. tasks' = (tasks \ {t}) \cup {u}   BY <1>6, Zenon DEF Done, TaskBecomes
  <2>2. /\ u.jobs = t.jobs /\ u.todo = t.todo /\ u.bucket = <<>> /\ u.step = "next"
    BY Zenon DEF NewTask
  <2>3. u \in Task
    <3>1. t.jobs \in Seq(Job) /\ t.todo \in SUBSET Key   BY <1>1, Zenon DEF Task
    <3>2. <<>> \in Seq(Job)   OBVIOUS
    <3> QED   BY <3>1, <3>2, SomeKey, Zenon DEF NewTask, Task
  <2> HIDE DEF u
  <2>4. Range(<<>>) = {} /\ IsInjective(<<>>)   BY DEF Range, IsInjective
  <2>5. TaskOK(u)'
    <3>1. \A k \in u.todo : \E j \in Range(u.jobs) : KeyOf(j)' = k
      BY <1>1, <1>3, <2>2, Zenon DEF TaskOK
    <3>2. u.step # "search"   BY <2>2, Zenon
    <3> QED   BY <1>1, <1>3, <2>2, <2>4, <3>1, <3>2, Zenon DEF TaskOK
  <2>6. Unanswered(u)' = Unanswered(t) \ S
    <3>1. Unanswered(u)' = {j \in Range(t.jobs) : KeyOf(j)' \in t.todo}
      BY <2>2, <2>4, Zenon DEF Unanswered
    <3>2. Unanswered(u)' = later   BY <1>3, <3>1, Zenon
    <3> QED   BY <1>4, <3>2, Zenon
  <2> DEFINE U == {u}
  <2>7. /\ U \subseteq Task /\ (\A x, y \in U : x = y) /\ U # {} /\ tasks' = (tasks \ {t}) \cup U
        /\ \A x \in U : x.jobs = t.jobs /\ TaskOK(x)' /\ Unanswered(x)' = Unanswered(t) \ S
    BY <2>1, <2>2, <2>3, <2>5, <2>6, Zenon
  <2> HIDE DEF U, S
  <2> QED   BY <1>2, <2>7, ServedKeeps, Zenon DEF S
<1> QED   BY <1>5, <1>6, Zenon

\* A task that goes on in its bucket.
LEMMA StepKeeps ==
  ASSUME SearchInv, NEW t \in tasks, NEW S, S \subseteq Unanswered(t), Served(S),
         NEW u \in Task, TaskBecomes(t, u), u.jobs = t.jobs, TaskOK(u)', Unanswered(u)' = Unanswered(t) \ S
  PROVE  SearchInv' /\ AnsweredOnce
<1> DEFINE U == {u}
<1>1. /\ U \subseteq Task /\ (\A x, y \in U : x = y) /\ U # {} /\ tasks' = (tasks \ {t}) \cup U
      /\ \A x \in U : x.jobs = t.jobs /\ TaskOK(x)' /\ Unanswered(x)' = Unanswered(t) \ S
  BY Zenon DEF TaskBecomes
<1> HIDE DEF U
<1> QED   BY <1>1, ServedKeeps, Zenon

\* Answer(S, a) answers the jobs of S with a.
LEMMA AnswerServes ==
  ASSUME SearchInv, NEW S, S \subseteq Job, NEW a \in Answers, Answer(S, a),
         queue' = queue, faults' \in 0..MaxFaults,
         a # "results", a = "invalid" => \A j \in S : KeyOf(j)[2] \in Invalid
  PROVE  Served(S)
<1>1. job \in [Job -> JobState]   BY Zenon DEF SearchInv, SearchTypeOK
<1>2. job' = [j \in Job |-> IF j \in S THEN [job[j] EXCEPT !.at = a] ELSE job[j]]
  BY Zenon DEF Answer
<1>3. ASSUME NEW j \in Job
      PROVE  /\ job'[j] \in JobState /\ job'[j].key = job[j].key
             /\ j \notin S => job'[j] = job[j]
             /\ j \in S => job'[j].at = a
  <2>1. job[j] \in JobState   BY <1>1, Zenon
  <2>2. [job[j] EXCEPT !.at = a] \in JobState /\ [job[j] EXCEPT !.at = a].key = job[j].key
        /\ [job[j] EXCEPT !.at = a].at = a
    BY <2>1, Zenon DEF JobState
  <2>3. job'[j] = IF j \in S THEN [job[j] EXCEPT !.at = a] ELSE job[j]   BY <1>2, Zenon
  <2> QED   BY <2>1, <2>2, <2>3, Zenon
<1>4. job' \in [Job -> JobState]
  <2>1. job' = [j \in Job |-> job'[j]]   BY <1>2, Zenon
  <2> QED   BY <1>3, <2>1, Zenon
<1>5. ASSUME NEW j \in S   PROVE Own(j)'
  <2>1. job'[j].at = a /\ job'[j].key = job[j].key   BY <1>3, Zenon
  <2> QED   BY <2>1, Zenon DEF Own, KeyOf
<1> QED   BY <1>3, <1>4, <1>5, Zenon DEF Served

\* A step that leaves the jobs alone serves nobody.
LEMMA NobodyServed ==
  ASSUME SearchInv, UNCHANGED <<job, queue>>, faults' \in 0..MaxFaults
  PROVE  Served({})
BY Zenon DEF SearchInv, SearchTypeOK, Served

\* A fault is one of the bounded number of faults.
LEMMA Faults ==
  ASSUME SearchInv, Fault \/ UNCHANGED faults
  PROVE  faults' \in 0..MaxFaults
BY SearchIngressAssumption DEF SearchInv, SearchTypeOK, Fault

\* The places in a batch of the jobs of one key, and the bucket of the key.
PlacesOf(t, k) == {n \in DOMAIN t.jobs : KeyOf(t.jobs[n]) = k}
IsBucket(b, t, k) ==
  LET places == Ascending(PlacesOf(t, k)) IN b = [i \in DOMAIN places |-> t.jobs[places[i]]]

\* The jobs of one key in the order of the batch, as process_search_microbatch
\* puts them into the bucket of the key.
LEMMA BucketFacts ==
  ASSUME SearchInv, NEW t \in tasks, NEW k \in t.todo, NEW bucket, IsBucket(bucket, t, k)
  PROVE  /\ bucket \in Seq(Job) /\ bucket # <<>> /\ IsInjective(bucket)
         /\ Range(bucket) = {j \in Range(t.jobs) : KeyOf(j) = k}
         /\ KeyOf(Head(bucket)) = k
<1> DEFINE P == PlacesOf(t, k)
           places == Ascending(P)
<1>1. t \in Task /\ TaskOK(t)   BY UnansweredJobs, Zenon
<1>2. t.jobs \in Seq(Job)   BY <1>1, Zenon DEF Task
<1>3. /\ DOMAIN t.jobs = 1..Len(t.jobs) /\ Len(t.jobs) \in Nat /\ \A n \in DOMAIN t.jobs : t.jobs[n] \in Job
  BY <1>2
<1>4. /\ P \subseteq DOMAIN t.jobs /\ \A n \in P : KeyOf(t.jobs[n]) = k
      /\ \A n \in DOMAIN t.jobs : KeyOf(t.jobs[n]) = k => n \in P
  BY Zenon DEF PlacesOf
<1> HIDE DEF P
<1>5. P \in SUBSET Nat /\ IsFiniteSet(P)
  <2>1. P \in SUBSET (1..Len(t.jobs))   BY <1>3, <1>4, Zenon
  <2>2. IsFiniteSet(1..Len(t.jobs))   BY <1>3, FS_Interval
  <2>3. IsFiniteSet(P)   BY <2>1, <2>2, FS_Subset, Zenon
  <2>4. P \in SUBSET Nat   BY <2>1
  <2> QED   BY <2>3, <2>4, Zenon
<1>6. /\ places \in Seq(P) /\ Range(places) = P
      /\ \A i, j \in 1..Len(places) : i < j => places[i] < places[j]
  BY <1>5, AscendingList, Zenon
<1>7. bucket = [i \in DOMAIN places |-> t.jobs[places[i]]]   BY Zenon DEF IsBucket, P
<1> HIDE DEF places
<1>8. DOMAIN places = 1..Len(places) /\ Len(places) \in Nat /\ \A i \in 1..Len(places) : places[i] \in P
  BY <1>6
<1>9. \A i \in 1..Len(places) : t.jobs[places[i]] \in Job   BY <1>3, <1>4, <1>8, Zenon
<1>10. bucket \in [1..Len(places) -> Job]   BY <1>7, <1>9, <1>8, Zenon
<1>11. bucket \in Seq(Job) /\ Len(bucket) = Len(places) /\ DOMAIN bucket = 1..Len(places)
  BY <1>8, <1>10, IsSequence, Zenon
<1>12. \A i \in 1..Len(places) : bucket[i] = t.jobs[places[i]]   BY <1>7, <1>8, Zenon
<1>13. Range(bucket) = {j \in Range(t.jobs) : KeyOf(j) = k}
  <2>1. ASSUME NEW j \in Range(bucket)   PROVE j \in Range(t.jobs) /\ KeyOf(j) = k
    <3>1. PICK i \in 1..Len(places) : j = bucket[i]   BY <1>11, Zenon DEF Range
    <3>2. j = t.jobs[places[i]] /\ places[i] \in P   BY <1>8, <1>12, <3>1, Zenon
    <3> QED   BY <1>4, <3>2, Zenon DEF Range
  <2>2. ASSUME NEW j \in Range(t.jobs), KeyOf(j) = k   PROVE j \in Range(bucket)
    <3>1. PICK n \in DOMAIN t.jobs : j = t.jobs[n]   BY Zenon DEF Range
    <3>2. n \in Range(places)
      <4>1. n \in P   BY <1>4, <2>2, <3>1, Zenon
      <4> QED   BY <1>6, <4>1, Zenon
    <3>3. PICK i \in 1..Len(places) : places[i] = n   BY <1>8, <3>2, Zenon DEF Range
    <3> QED   BY <1>11, <1>12, <3>1, <3>3, Zenon DEF Range
  <2> QED   BY <2>1, <2>2, Zenon
<1>14. IsInjective(bucket)
  <2> SUFFICES ASSUME NEW i \in 1..Len(places), NEW j \in 1..Len(places), bucket[i] = bucket[j]   PROVE i = j
    BY <1>11, Zenon DEF IsInjective
  <2>1. places[i] = places[j]
    <3>1. t.jobs[places[i]] = t.jobs[places[j]] /\ places[i] \in DOMAIN t.jobs /\ places[j] \in DOMAIN t.jobs
      BY <1>4, <1>8, <1>12, Zenon
    <3> QED   BY <1>1, <3>1, Zenon DEF TaskOK, IsInjective
  <2>2. places[i] \in Nat /\ places[j] \in Nat   BY <1>5, <1>8, Zenon
  <2>3. ~(places[i] < places[i])   BY <2>2
  <2>4. ~(i < j) /\ ~(j < i)   BY <1>6, <2>1, <2>3, Zenon
  <2> QED   BY <1>8, <2>4
<1>15. bucket # <<>>
  <2>1. PICK j \in Range(t.jobs) : KeyOf(j) = k   BY <1>1, Zenon DEF TaskOK
  <2>2. j \in Range(bucket)   BY <1>13, <2>1, Zenon
  <2>3. Range(<<>>) = {}   BY DEF Range
  <2> QED   BY <2>2, <2>3, Zenon
<1>16. KeyOf(Head(bucket)) = k
  <2>1. 1 \in DOMAIN bucket /\ Head(bucket) = bucket[1]   BY <1>11, <1>15
  <2>2. bucket[1] \in Range(bucket)   BY <2>1, Zenon DEF Range
  <2> QED   BY <1>13, <2>1, <2>2, Zenon
<1> QED   BY <1>11, <1>13, <1>14, <1>15, <1>16, Zenon

\* The next bucket is taken from the map.
LEMMA NextBucketKeeps ==
  ASSUME SearchInv, NEW t \in tasks, NextBucket(t)
  PROVE  SearchInv' /\ AnsweredOnce
<1>1. PICK k, bucket :
        /\ k \in t.todo /\ IsBucket(bucket, t, k)
        /\ TaskBecomes(t, [t EXCEPT !.todo = @ \ {k}, !.step = "config", !.bucket = bucket,
                                    !.settings = job[Head(bucket)].key])
  BY Zenon DEF NextBucket, IsBucket, PlacesOf
<1>2. t.step = "next" /\ UNCHANGED <<job, queue, faults>>   BY Zenon DEF NextBucket
<1>3. t \in Task /\ TaskOK(t) /\ Range(t.jobs) \subseteq Job   BY UnansweredJobs, Zenon
<1>4. /\ bucket \in Seq(Job) /\ bucket # <<>> /\ IsInjective(bucket)
      /\ Range(bucket) = {j \in Range(t.jobs) : KeyOf(j) = k}
      /\ job[Head(bucket)].key = k
  BY <1>1, BucketFacts, Zenon DEF KeyOf
<1>5. PICK u : u = [t EXCEPT !.todo = @ \ {k}, !.step = "config", !.bucket = bucket, !.settings = k]
  BY Zenon
<1>6. TaskBecomes(t, u)   BY <1>1, <1>4, <1>5, Zenon
<1>7. /\ u \in Task /\ u.jobs = t.jobs /\ u.todo = t.todo \ {k} /\ u.step = "config" /\ u.bucket = bucket
      /\ u.settings = k
  <2>1. t.todo \in SUBSET Key   BY <1>3, Zenon DEF Task
  <2>2. k \in Key /\ t.todo \ {k} \in SUBSET Key   BY <1>1, <2>1, Zenon
  <2> QED   BY <1>3, <1>4, <1>5, <2>2, Zenon DEF Task
<1>8. \A j : KeyOf(j)' = KeyOf(j)   BY <1>2, Zenon DEF KeyOf
<1>9. TaskOK(u)'
  <2>1. u.step # "next" /\ u.step # "search"   BY <1>7, Zenon
  <2>2. \A j \in Range(u.jobs) : job'[j].at \notin {"new", "queued"}
    BY <1>2, <1>3, <1>7, Zenon DEF TaskOK
  <2>3. \A i \in u.todo : \E j \in Range(u.jobs) : KeyOf(j)' = i
    BY <1>3, <1>7, <1>8, Zenon DEF TaskOK
  <2>4. \A j \in Range(u.bucket) : KeyOf(j)' = u.settings   BY <1>4, <1>7, <1>8, Zenon
  <2>5. u.settings \notin u.todo /\ u.bucket # <<>> /\ IsInjective(u.bucket) /\ Range(u.bucket) \subseteq Range(u.jobs)
        /\ IsInjective(u.jobs)
    BY <1>3, <1>4, <1>7, Zenon DEF TaskOK
  <2> QED   BY <2>1, <2>2, <2>3, <2>4, <2>5, Zenon DEF TaskOK
<1>10. Unanswered(u)' = Unanswered(t) \ {}
  <2>1. Range(<<>>) = {}   BY DEF Range
  <2>2. Unanswered(t) = {j \in Range(t.jobs) : KeyOf(j) \in t.todo}
    BY <1>2, <1>3, <2>1, Zenon DEF Unanswered, TaskOK
  <2>3. Unanswered(u)' = {j \in Range(t.jobs) : KeyOf(j) = k} \cup {j \in Range(t.jobs) : KeyOf(j) \in t.todo \ {k}}
    BY <1>4, <1>7, <1>8, Zenon DEF Unanswered
  <2> QED   BY <1>1, <2>2, <2>3, Zenon
<1>11. Served({})   BY <1>2, Faults, NobodyServed, Zenon
<1> QED   BY <1>6, <1>7, <1>9, <1>10, <1>11, StepKeeps, Zenon

\* The task goes on with its bucket as it is.
LEMMA SameBucketKeeps ==
  ASSUME SearchInv, NEW t \in tasks, t.step # "next", UNCHANGED <<job, queue>>, faults' \in 0..MaxFaults,
         NEW u \in Task, TaskBecomes(t, u), u.jobs = t.jobs, u.todo = t.todo, u.bucket = t.bucket,
         u.settings = t.settings, u.step # "next", u.step = "search" => u.vectors = u.bucket
  PROVE  SearchInv' /\ AnsweredOnce
<1>1. TaskOK(t)   BY UnansweredJobs, Zenon
<1>2. \A j : KeyOf(j)' = KeyOf(j)   BY Zenon DEF KeyOf
<1>3. TaskOK(u)'   BY <1>1, <1>2, Zenon DEF TaskOK
<1>4. Unanswered(u)' = Unanswered(t) \ {}   BY <1>2, Zenon DEF Unanswered
<1>5. Served({})   BY NobodyServed, Zenon
<1> QED   BY <1>3, <1>4, <1>5, StepKeeps, Zenon

\* The bucket's jobs are those of the task.
LEMMA BucketJobs ==
  ASSUME SearchInv, NEW t \in tasks
  PROVE  /\ t.bucket \in Seq(Job) /\ Range(t.bucket) \subseteq Job /\ Range(t.bucket) \subseteq Unanswered(t)
         /\ \A j \in Range(t.bucket) : KeyOf(j) = t.settings
<1>1. t \in Task /\ TaskOK(t)   BY UnansweredJobs, Zenon
<1>2. t.bucket \in Seq(Job)   BY <1>1, Zenon DEF Task
<1> QED   BY <1>1, <1>2, ElementsOf, Zenon DEF TaskOK, Unanswered

\* The checks of the settings, and the failures of a whole bucket.
LEMMA ReadConfigKeeps ==
  ASSUME SearchInv, NEW t \in tasks, ReadConfig(t)
  PROVE  SearchInv' /\ AnsweredOnce
<1>1. t.step = "config" /\ UNCHANGED <<queue, faults>>   BY Zenon DEF ReadConfig
<1>2. faults' \in 0..MaxFaults   BY <1>1, Faults, Zenon
<1>3. t.step # "next"   BY <1>1, Zenon
<1>4. CASE t.settings[2] \in Invalid
  <2>1. Answer(Range(t.bucket), "invalid") /\ Done(t)   BY <1>4, Zenon DEF ReadConfig
  <2>2. "invalid" \in Answers /\ "invalid" # "results"   BY Zenon DEF Answers
  <2>3. \A j \in Range(t.bucket) : KeyOf(j)[2] \in Invalid   BY <1>4, BucketJobs, Zenon
  <2>4. Served(Range(t.bucket))   BY <1>1, <1>2, <2>1, <2>2, <2>3, BucketJobs, AnswerServes, Zenon
  <2> QED   BY <1>3, <2>1, <2>4, DoneKeeps, Zenon
<1>5. CASE t.settings[2] \notin Invalid
  <2>1. PICK b \in BOOLEAN : TaskBecomes(t, [t EXCEPT !.step = "vectorize", !.cached = b])
    BY <1>5, Zenon DEF ReadConfig
  <2>2. PICK u : u = [t EXCEPT !.step = "vectorize", !.cached = b]   BY Zenon
  <2>3. t \in Task   BY UnansweredJobs, Zenon
  <2>4. /\ u \in Task /\ u.jobs = t.jobs /\ u.todo = t.todo /\ u.bucket = t.bucket
        /\ u.settings = t.settings /\ u.step = "vectorize"
    BY <2>2, <2>3, Zenon DEF Task
  <2>5. u.step # "next" /\ u.step # "search"   BY <2>4, Zenon
  <2>6. UNCHANGED <<job, queue>>   BY <1>5, Zenon DEF ReadConfig
  <2> QED   BY <1>2, <1>3, <2>1, <2>2, <2>4, <2>5, <2>6, SameBucketKeeps, Zenon
<1> QED   BY <1>4, <1>5, Zenon

\* Every job of a bucket whose configuration or vectors fail has the error.
LEMMA BucketFailsKeeps ==
  ASSUME SearchInv, NEW t \in tasks, BucketFails(t)
  PROVE  SearchInv' /\ AnsweredOnce
<1>1. /\ t.step \in {"config", "vectorize", "again"} /\ Fault /\ queue' = queue
      /\ Answer(Range(t.bucket), "failed") /\ Done(t)
  BY Zenon DEF BucketFails
<1>2. "failed" \in Answers /\ "failed" # "results" /\ "failed" # "invalid"   BY Zenon DEF Answers
<1>3. faults' \in 0..MaxFaults   BY <1>1, Faults, Zenon
<1>4. Served(Range(t.bucket))   BY <1>1, <1>2, <1>3, BucketJobs, AnswerServes, Zenon
<1>5. t.step # "next"   BY <1>1, Zenon
<1> QED   BY <1>1, <1>4, <1>5, DoneKeeps, Zenon

\* Vectorization, at once or with a fresh configuration.
LEMMA VectorizeKeeps ==
  ASSUME SearchInv, NEW t \in tasks, VectorizeAgain(t) \/ Vectorized(t)
  PROVE  SearchInv' /\ AnsweredOnce
<1>1. t \in Task   BY UnansweredJobs, Zenon
<1>2. PICK u : /\ TaskBecomes(t, u)
               /\ \/ u = [t EXCEPT !.step = "again"]
                  \/ u = [t EXCEPT !.step = "search", !.vectors = t.bucket]
  BY Zenon DEF VectorizeAgain, Vectorized
<1>3. /\ u \in Task /\ u.jobs = t.jobs /\ u.todo = t.todo /\ u.bucket = t.bucket
      /\ u.settings = t.settings /\ u.step # "next" /\ (u.step = "search" => u.vectors = u.bucket)
  <2>1. t.bucket \in Seq(Job)   BY <1>1, Zenon DEF Task
  <2>2. CASE u = [t EXCEPT !.step = "again"]   BY <1>1, <2>2, Zenon DEF Task
  <2>3. CASE u = [t EXCEPT !.step = "search", !.vectors = t.bucket]
    BY <1>1, <2>1, <2>3, Zenon DEF Task
  <2> QED   BY <1>2, <2>2, <2>3, Zenon
<1>4. t.step \in {"vectorize", "again"} /\ UNCHANGED <<job, queue>> /\ (Fault \/ UNCHANGED faults)
  BY Zenon DEF VectorizeAgain, Vectorized
<1>5. faults' \in 0..MaxFaults   BY <1>4, Faults, Zenon
<1>6. t.step # "next"   BY <1>4, Zenon
<1> QED   BY <1>2, <1>3, <1>4, <1>5, <1>6, SameBucketKeeps, Zenon

\* A line of which a part has gone, from its front or from its back.
LEMMA PartOfLine ==
  ASSUME NEW S, NEW s \in Seq(S), IsInjective(s), NEW n \in 0..Len(s)
  PROVE  LET a == SubSeq(s, 1, n)
             b == SubSeq(s, n + 1, Len(s)) IN
         /\ a \in Seq(S) /\ b \in Seq(S) /\ Len(b) = Len(s) - n
         /\ IsInjective(a) /\ IsInjective(b)
         /\ Range(a) \subseteq Range(s)
         /\ Range(b) = Range(s) \ Range(a)
<1> DEFINE a == SubSeq(s, 1, n)   b == SubSeq(s, n + 1, Len(s))
<1>1. /\ a \in Seq(S) /\ Len(a) = n /\ \A i \in 1..n : a[i] = s[i]
      /\ b \in Seq(S) /\ Len(b) = Len(s) - n /\ \A i \in 1..Len(s) - n : b[i] = s[n + i]
      /\ Len(s) \in Nat
  OBVIOUS
<1> HIDE DEF a, b
<1>2. DOMAIN a = 1..n /\ DOMAIN b = 1..Len(s) - n /\ DOMAIN s = 1..Len(s)   BY <1>1
<1>3. /\ \A i \in 1..n : i \in 1..Len(s)
      /\ \A i \in 1..Len(s) - n : n + i \in 1..Len(s) /\ n + i \notin 1..n
      /\ \A i, j \in 1..Len(s) - n : n + i = n + j => i = j
      /\ \A m \in 1..Len(s) : m \in 1..n \/ (m - n \in 1..Len(s) - n /\ n + (m - n) = m)
  BY <1>1
<1>4. \A i, j \in 1..Len(s) : s[i] = s[j] => i = j   BY <1>2, Zenon DEF IsInjective
<1>5. \A x : x \in Range(a) <=> \E i \in 1..n : x = a[i]   BY <1>2, Zenon DEF Range
<1>6. \A x : x \in Range(b) <=> \E i \in 1..Len(s) - n : x = b[i]   BY <1>2, Zenon DEF Range
<1>7. \A x : x \in Range(s) <=> \E i \in 1..Len(s) : x = s[i]   BY <1>2, Zenon DEF Range
<1>8. IsInjective(a) /\ IsInjective(b)
  <2>1. ASSUME NEW i \in 1..n, NEW j \in 1..n, a[i] = a[j]   PROVE i = j
    <3>1. s[i] = s[j]   BY <1>1, <2>1, Zenon
    <3> QED   BY <1>3, <1>4, <3>1, Zenon
  <2>2. ASSUME NEW i \in 1..Len(s) - n, NEW j \in 1..Len(s) - n, b[i] = b[j]   PROVE i = j
    <3>1. s[n + i] = s[n + j]   BY <1>1, <2>2, Zenon
    <3>2. n + i = n + j   BY <1>3, <1>4, <3>1, Zenon
    <3> QED   BY <1>3, <3>2, Zenon
  <2> QED   BY <1>2, <2>1, <2>2, Zenon DEF IsInjective
<1>9. Range(a) \subseteq Range(s)
  <2> SUFFICES ASSUME NEW x \in Range(a)   PROVE x \in Range(s)   BY Zenon
  <2>1. PICK i \in 1..n : x = a[i]   BY <1>5, Zenon
  <2>2. x = s[i] /\ i \in 1..Len(s)   BY <1>1, <1>3, <2>1, Zenon
  <2> QED   BY <1>7, <2>2, Zenon
<1>10. ASSUME NEW x \in Range(b)   PROVE x \in Range(s) /\ x \notin Range(a)
  <2>1. PICK i \in 1..Len(s) - n : x = b[i]   BY <1>6, Zenon
  <2>2. n + i \in 1..Len(s) /\ n + i \notin 1..n /\ x = s[n + i]   BY <1>1, <1>3, <2>1, Zenon
  <2>3. ASSUME NEW k \in 1..n, x = a[k]   PROVE FALSE
    <3>1. s[k] = s[n + i] /\ k \in 1..Len(s)   BY <1>1, <1>3, <2>2, <2>3, Zenon
    <3>2. k = n + i   BY <1>4, <2>2, <3>1, Zenon
    <3> QED   BY <2>2, <3>2, Zenon
  <2> QED   BY <1>5, <1>7, <2>2, <2>3, Zenon
<1>11. ASSUME NEW x \in Range(s), x \notin Range(a)   PROVE x \in Range(b)
  <2>1. PICK m \in 1..Len(s) : x = s[m]   BY <1>2, Zenon DEF Range
  <2>2. m \notin 1..n   BY <1>1, <1>2, <1>11, <2>1, Zenon DEF Range
  <2>3. m - n \in 1..Len(s) - n /\ n + (m - n) = m   BY <1>3, <2>2, Zenon
  <2>4. b[m - n] = x   BY <1>1, <2>1, <2>3, Zenon
  <2> QED   BY <1>2, <2>3, <2>4, Zenon DEF Range
<1>12. Range(b) = Range(s) \ Range(a)   BY <1>10, <1>11, Zenon
<1> QED   BY <1>1, <1>8, <1>9, <1>12, Zenon DEF a, b

\* The first of a line leaves it.
LEMMA FirstLeaves ==
  ASSUME NEW S, NEW s \in Seq(S), IsInjective(s), s # <<>>
  PROVE  /\ Tail(s) \in Seq(S) /\ IsInjective(Tail(s)) /\ Head(s) \in Range(s) /\ Head(s) \in S
         /\ Range(Tail(s)) = Range(s) \ {Head(s)}
<1>1. Len(s) \in Nat /\ 1 \in 0..Len(s) /\ Head(s) = s[1] /\ DOMAIN s = 1..Len(s) /\ 1 \in DOMAIN s   OBVIOUS
<1>2. Range(SubSeq(s, 1, 1)) = {Head(s)}
  <2> DEFINE q == SubSeq(s, 1, 1)
  <2>1. q \in Seq(S) /\ Len(q) = 1 /\ q[1] = s[1]   BY <1>1
  <2> HIDE DEF q
  <2>2. DOMAIN q = {1}   BY <2>1
  <2>3. Range(q) = {Head(s)}   BY <1>1, <2>1, <2>2, Zenon DEF Range
  <2> QED   BY <2>3, Zenon DEF q
<1>3. SubSeq(s, 1 + 1, Len(s)) = Tail(s)   BY <1>1
<1>4. /\ Tail(s) \in Seq(S) /\ IsInjective(Tail(s))
      /\ Range(Tail(s)) = Range(s) \ Range(SubSeq(s, 1, 1))
  <2>1. LET a == SubSeq(s, 1, 1)
            b == SubSeq(s, 1 + 1, Len(s)) IN
        b \in Seq(S) /\ IsInjective(b) /\ Range(b) = Range(s) \ Range(a)
    BY <1>1, PartOfLine
  <2> QED   BY <1>3, <2>1, Zenon
<1>5. Head(s) \in Range(s) /\ Head(s) \in S   BY <1>1, ElementsOf, Zenon DEF Range
<1> QED   BY <1>2, <1>4, <1>5, Zenon

\* The search for the next job of the bucket, with the vector of that job.
LEMMA SearchKeeps ==
  ASSUME SearchInv, NEW t \in tasks, Search(t)
  PROVE  SearchInv' /\ AnsweredOnce
<1> DEFINE j == Head(t.bucket)
<1>1. t \in Task /\ TaskOK(t) /\ Unanswered(t) \subseteq Range(t.jobs) /\ Range(t.jobs) \subseteq Job
  BY UnansweredJobs, Zenon
<1>2. t.step = "search" /\ queue' = queue   BY Zenon DEF Search
<1>3. t.step # "next"   BY <1>2, Zenon
<1>4. /\ t.bucket # <<>> /\ t.settings \notin t.todo /\ IsInjective(t.bucket) /\ t.vectors = t.bucket
      /\ Range(t.bucket) \subseteq Range(t.jobs)
  BY <1>1, <1>2, <1>3, Zenon DEF TaskOK
<1>5. t.bucket \in Seq(Job) /\ \A i \in Range(t.bucket) : KeyOf(i) = t.settings /\ i \in Unanswered(t)
  BY BucketJobs, Zenon
<1>6. /\ Tail(t.bucket) \in Seq(Job) /\ IsInjective(Tail(t.bucket)) /\ j \in Range(t.bucket) /\ j \in Job
      /\ Range(Tail(t.bucket)) = Range(t.bucket) \ {j}
  BY <1>4, <1>5, FirstLeaves, Zenon
<1>7. KeyOf(j) = t.settings /\ j \in Unanswered(t) /\ t.settings \in Key
  BY <1>1, <1>5, <1>6, Zenon DEF Task
<1>8. \/ /\ job' = [job EXCEPT ![j].at = "results", ![j].query = j, ![j].with = t.settings]
         /\ UNCHANGED faults
      \/ Fault /\ Answer({j}, "failed")
  BY <1>4, Zenon DEF Search
<1>9. \/ Tail(t.bucket) = <<>> /\ Done(t)
      \/ /\ Tail(t.bucket) # <<>>
         /\ TaskBecomes(t, [t EXCEPT !.bucket = Tail(t.bucket), !.vectors = Tail(t.vectors)])
  <2> DEFINE rest == [t EXCEPT !.bucket = Tail(@), !.vectors = Tail(@)]
  <2>1. rest.bucket = Tail(t.bucket)   BY <1>1, Zenon DEF Task
  <2>2. IF rest.bucket = <<>> THEN Done(t) ELSE TaskBecomes(t, rest)   BY Zenon DEF Search
  <2> QED   BY <2>1, <2>2, Zenon
<1> HIDE DEF j
<1>10. Served({j})
  <2>1. CASE Fault /\ Answer({j}, "failed")
    <3>1. "failed" \in Answers /\ "failed" # "results" /\ "failed" # "invalid"
      BY Zenon DEF Answers
    <3>2. faults' \in 0..MaxFaults   BY <2>1, Faults, Zenon
    <3> QED   BY <1>2, <1>6, <2>1, <3>1, <3>2, AnswerServes, Zenon
  <2>2. CASE /\ job' = [job EXCEPT ![j].at = "results", ![j].query = j, ![j].with = t.settings]
             /\ UNCHANGED faults
    <3>1. job \in [Job -> JobState] /\ job[j] \in JobState
      BY <1>6, Zenon DEF SearchInv, SearchTypeOK
    <3>2. PICK r : r = [job[j] EXCEPT !.at = "results", !.query = j, !.with = t.settings]   BY Zenon
    <3>3. /\ r \in JobState /\ r.key = job[j].key /\ r.at = "results" /\ r.query = j /\ r.with = t.settings
      BY <1>6, <1>7, <3>1, <3>2, Zenon DEF JobState, Answers
    <3>4. job' = [job EXCEPT ![j] = r]   BY <2>2, <3>1, <3>2, Zenon
    <3>5. job'[j] = r /\ \A i \in Job : i # j => job'[i] = job[i]   BY <1>6, <3>1, <3>4, Zenon
    <3>6. job' \in [Job -> JobState]   BY <1>6, <3>1, <3>3, <3>4, Zenon
    <3>7. Own(j)'
      <4>1. r.at # "invalid"   BY <3>3, Zenon
      <4> QED   BY <1>7, <3>3, <3>5, <4>1, Zenon DEF Own, KeyOf
    <3>8. faults' \in 0..MaxFaults /\ "results" \in Answers   BY <2>2, Faults, Zenon DEF Answers
    <3> QED   BY <1>2, <1>6, <3>3, <3>5, <3>6, <3>7, <3>8, Zenon DEF Served
  <2> QED   BY <1>8, <2>1, <2>2, Zenon
<1>11. CASE Tail(t.bucket) = <<>> /\ Done(t)
  <2>1. Range(<<>>) = {}   BY DEF Range
  <2>2. Range(t.bucket) = {j}   BY <1>6, <1>11, <2>1, Zenon
  <2>3. Served(Range(t.bucket))   BY <1>10, <2>2, Zenon
  <2> QED   BY <1>3, <1>11, <2>3, DoneKeeps, Zenon
<1>12. CASE /\ Tail(t.bucket) # <<>>
            /\ TaskBecomes(t, [t EXCEPT !.bucket = Tail(t.bucket), !.vectors = Tail(t.vectors)])
  <2>1. PICK u : u = [t EXCEPT !.bucket = Tail(t.bucket), !.vectors = Tail(t.bucket)]   BY Zenon
  <2>2. TaskBecomes(t, u)   BY <1>4, <1>12, <2>1, Zenon
  <2>3. /\ u \in Task /\ u.jobs = t.jobs /\ u.todo = t.todo /\ u.settings = t.settings /\ u.step = t.step
        /\ u.bucket = Tail(t.bucket) /\ u.vectors = Tail(t.bucket)
    BY <1>1, <1>6, <2>1, Zenon DEF Task
  <2>4. {j} \subseteq Unanswered(t)   BY <1>7, Zenon
  <2>5. /\ \A i \in Range(t.jobs) : job'[i].at \notin {"new", "queued"}
        /\ \A i \in Range(t.jobs) : KeyOf(i)' = KeyOf(i)
    BY <1>10, <2>4, ServedJobs, Zenon
  <2>6. TaskOK(u)'
    <3>1. \A k \in u.todo : \E i \in Range(u.jobs) : KeyOf(i)' = k
      BY <1>1, <2>3, <2>5, Zenon DEF TaskOK
    <3>2. Range(u.bucket) \subseteq Range(u.jobs)   BY <1>4, <1>6, <2>3, Zenon
    <3>3. \A i \in Range(u.bucket) : KeyOf(i)' = u.settings   BY <1>5, <1>6, <2>3, <2>5, <3>2, Zenon
    <3> QED   BY <1>1, <1>3, <1>4, <1>6, <1>12, <2>3, <2>5, <3>1, <3>2, <3>3, Zenon DEF TaskOK
  <2>7. Unanswered(u)' = Unanswered(t) \ {j}
    <3>1. {i \in Range(t.jobs) : KeyOf(i)' \in t.todo} = {i \in Range(t.jobs) : KeyOf(i) \in t.todo}
      BY <2>5, Zenon
    <3>2. Unanswered(u)' = (Range(t.bucket) \ {j}) \cup {i \in Range(t.jobs) : KeyOf(i) \in t.todo}
      BY <1>6, <2>3, <3>1, Zenon DEF Unanswered
    <3>3. j \notin {i \in Range(t.jobs) : KeyOf(i) \in t.todo}   BY <1>4, <1>7, Zenon
    <3> QED   BY <3>2, <3>3, Zenon DEF Unanswered
  <2> QED   BY <1>10, <2>2, <2>3, <2>4, <2>6, <2>7, StepKeeps, Zenon
<1> QED   BY <1>9, <1>11, <1>12, Zenon

\* A task that panics drops the reply channels of the jobs that it has not
\* answered, and of no other.
LEMMA PanicKeeps ==
  ASSUME SearchInv, NEW t \in tasks, Panic(t)
  PROVE  SearchInv' /\ AnsweredOnce
<1> DEFINE S == {j \in Range(t.jobs) : job[j].at = "taken"}
<1>1. Fault /\ tasks' = tasks \ {t} /\ Answer(S, "exited") /\ queue' = queue   BY Zenon DEF Panic
<1>2. /\ TaskOK(t) /\ Unanswered(t) \subseteq Range(t.jobs) /\ Range(t.jobs) \subseteq Job
      /\ \A j \in Unanswered(t) : j \in Job /\ job[j].at = "taken"
  BY UnansweredJobs, Zenon
<1>3. S = Unanswered(t)
  <2>1. ASSUME NEW j \in S   PROVE j \in Unanswered(t)
    <3>1. PICK u \in tasks : j \in Unanswered(u)   BY <1>2, Zenon DEF SearchInv, SearchesAccounted
    <3>2. j \in Range(u.jobs)   BY <3>1, UnansweredJobs, Zenon
    <3>3. u = t   BY <3>2, Zenon DEF SearchInv
    <3> QED   BY <3>1, <3>3, Zenon
  <2> QED   BY <1>2, <2>1, Zenon
<1> HIDE DEF S
<1>4. "exited" \in Answers /\ "exited" # "results" /\ "exited" # "invalid"   BY Zenon DEF Answers
<1>5. faults' \in 0..MaxFaults   BY <1>1, Faults, Zenon
<1>6. Served(S)   BY <1>1, <1>2, <1>3, <1>4, <1>5, AnswerServes, Zenon
<1> DEFINE U == {}
<1>7. tasks' = (tasks \ {t}) \cup U /\ \A x : x \notin U   BY <1>1, Zenon
<1> HIDE DEF U
<1> QED   BY <1>3, <1>6, <1>7, ServedKeeps, Zenon

\* What a search that was refused or put into the queue, or taken from it, leaves
\* as it was: the tasks and what they have to answer.
LEMMA TasksStay ==
  ASSUME SearchInv, NEW t \in tasks,
         \A j \in Range(t.jobs) : job'[j] = job[j]
  PROVE  TaskOK(t)' /\ Unanswered(t)' = Unanswered(t)
<1>1. TaskOK(t)   BY UnansweredJobs, Zenon
<1>2. \A j \in Range(t.jobs) : KeyOf(j)' = KeyOf(j)   BY Zenon DEF KeyOf
<1>3. TaskOK(t)'   BY <1>1, <1>2, Zenon DEF TaskOK
<1>4. {j \in Range(t.jobs) : KeyOf(j)' \in t.todo} = {j \in Range(t.jobs) : KeyOf(j) \in t.todo}
  BY <1>2, Zenon
<1> QED   BY <1>3, <1>4, Zenon DEF Unanswered

\* A search is put into the queue or refused.
LEMMA SubmitKeeps ==
  ASSUME SearchInv, NEW j \in Job, SubmitSearch(j)
  PROVE  SearchInv' /\ AnsweredOnce
<1>1. /\ job[j].at = "new" /\ UNCHANGED <<tasks, faults>>   BY Zenon DEF SubmitSearch
<1>2. PICK k \in Key :
        \/ /\ Len(queue) < Capacity /\ queue' = Append(queue, j)
           /\ job' = [job EXCEPT ![j].at = "queued", ![j].key = k]
        \/ job' = [job EXCEPT ![j].at = "full", ![j].key = k] /\ UNCHANGED queue
  BY Zenon DEF SubmitSearch
<1>3. /\ job \in [Job -> JobState] /\ job[j] \in JobState /\ queue \in Seq(Job) /\ IsInjective(queue)
      /\ \A i \in Job : job[i].at = "queued" <=> i \in Range(queue)
      /\ \A i \in Job : job[i].at = "taken" <=> \E t \in tasks : i \in Unanswered(t)
      /\ \A t, u \in tasks : t # u => Unanswered(t) \cap Unanswered(u) = {}
      /\ \A t, u \in tasks : t # u => Range(t.jobs) \cap Range(u.jobs) = {}
  BY Zenon DEF SearchInv, SearchTypeOK, SearchesAccounted
<1>4. PICK r \in JobState :
        /\ job' = [job EXCEPT ![j] = r]
        /\ \/ r.at = "queued" /\ queue' = Append(queue, j) /\ Len(queue) < Capacity
           \/ r.at = "full" /\ queue' = queue
  <2>1. CASE job' = [job EXCEPT ![j].at = "full", ![j].key = k] /\ UNCHANGED queue
    <3>1. PICK r : r = [job[j] EXCEPT !.at = "full", !.key = k]   BY Zenon
    <3>2. r \in JobState /\ r.at = "full"   BY <1>3, <3>1, Zenon DEF JobState, Answers
    <3>3. job' = [job EXCEPT ![j] = r]   BY <1>3, <2>1, <3>1, Zenon
    <3> QED   BY <2>1, <3>2, <3>3, Zenon
  <2>2. CASE /\ Len(queue) < Capacity /\ queue' = Append(queue, j)
             /\ job' = [job EXCEPT ![j].at = "queued", ![j].key = k]
    <3>1. PICK r : r = [job[j] EXCEPT !.at = "queued", !.key = k]   BY Zenon
    <3>2. r \in JobState /\ r.at = "queued"   BY <1>3, <3>1, Zenon DEF JobState, Answers
    <3>3. job' = [job EXCEPT ![j] = r]   BY <1>3, <2>2, <3>1, Zenon
    <3> QED   BY <2>2, <3>2, <3>3, Zenon
  <2> QED   BY <1>2, <2>1, <2>2, Zenon
<1>5. /\ job'[j] = r /\ \A i \in Job : i # j => job'[i] = job[i]
      /\ job' \in [Job -> JobState]
  BY <1>3, <1>4, Zenon
<1>6. /\ "new" # "queued" /\ "new" # "taken" /\ "new" \notin Answers /\ "full" # "queued" /\ "full" # "taken"
      /\ "queued" # "taken" /\ "queued" \notin Answers
      /\ r.at # "taken" /\ r.at # "results" /\ r.at # "invalid"
  BY <1>4, Zenon DEF Answers
<1>7. AnsweredOnce   BY <1>1, <1>5, <1>6, Zenon DEF AnsweredOnce
<1>8. j \notin Range(queue)   BY <1>1, <1>3, <1>6, Zenon
<1>9. /\ queue' \in Seq(Job) /\ Len(queue') <= Capacity /\ IsInjective(queue')
      /\ \A i : i \in Range(queue') <=> (i \in Range(queue) \/ (i = j /\ r.at = "queued"))
  <2>1. CASE r.at = "full" /\ queue' = queue
    <3>1. Len(queue) <= Capacity   BY Zenon DEF SearchInv, SearchTypeOK
    <3> QED   BY <1>3, <1>6, <2>1, <3>1, Zenon
  <2>2. CASE r.at = "queued" /\ queue' = Append(queue, j) /\ Len(queue) < Capacity
    <3>1. /\ queue' \in Seq(Job) /\ Len(queue') = Len(queue) + 1 /\ Len(queue) \in Nat
          /\ queue'[Len(queue) + 1] = j /\ \A i \in 1..Len(queue) : queue'[i] = queue[i]
          /\ DOMAIN queue' = 1..Len(queue) + 1 /\ DOMAIN queue = 1..Len(queue)
      BY <1>3, <2>2
    <3>2. Len(queue') <= Capacity   BY <2>2, <3>1, SearchIngressAssumption
    <3>3. \A i : i \in Range(queue) <=> \E n \in 1..Len(queue) : i = queue[n]
      BY <3>1, Zenon DEF Range
    <3>4. \A i : i \in Range(queue') <=> \E n \in 1..Len(queue) + 1 : i = queue'[n]
      BY <3>1, Zenon DEF Range
    <3>5. \A n \in 1..Len(queue) + 1 : n \in 1..Len(queue) \/ n = Len(queue) + 1   BY <3>1
    <3>6. /\ \A n \in 1..Len(queue) : n \in 1..Len(queue) + 1
          /\ Len(queue) + 1 \in 1..Len(queue) + 1
      BY <3>1
    <3>7. \A i : i \in Range(queue') <=> (i \in Range(queue) \/ i = j)
      <4>1. ASSUME NEW i \in Range(queue')   PROVE i \in Range(queue) \/ i = j
        <5>1. PICK n \in 1..Len(queue) + 1 : i = queue'[n]   BY <3>4, Zenon
        <5>2. CASE n \in 1..Len(queue)   BY <3>1, <3>3, <5>1, <5>2, Zenon
        <5>3. CASE n = Len(queue) + 1   BY <3>1, <5>1, <5>3, Zenon
        <5> QED   BY <3>5, <5>2, <5>3, Zenon
      <4>2. ASSUME NEW i \in Range(queue)   PROVE i \in Range(queue')
        <5>1. PICK n \in 1..Len(queue) : i = queue[n]   BY <3>3, Zenon
        <5> QED   BY <3>1, <3>4, <3>6, <5>1, Zenon
      <4>3. j \in Range(queue')   BY <3>1, <3>4, <3>6, Zenon
      <4> QED   BY <4>1, <4>2, <4>3, Zenon
    <3>8. IsInjective(queue')
      <4> SUFFICES ASSUME NEW m \in 1..Len(queue) + 1, NEW n \in 1..Len(queue) + 1, queue'[m] = queue'[n]
                   PROVE  m = n
        BY <3>1, Zenon DEF IsInjective
      <4>1. \A i \in 1..Len(queue) : queue'[i] \in Range(queue)   BY <3>1, <3>3, Zenon
      <4>2. CASE m \in 1..Len(queue) /\ n \in 1..Len(queue)
        <5>1. queue[m] = queue[n]   BY <3>1, <4>2, Zenon
        <5> QED   BY <1>3, <3>1, <4>2, <5>1, Zenon DEF IsInjective
      <4>3. CASE m = Len(queue) + 1 /\ n = Len(queue) + 1   BY <4>3, Zenon
      <4>4. CASE m \in 1..Len(queue) /\ n = Len(queue) + 1   BY <1>8, <3>1, <4>1, <4>4, Zenon
      <4>5. CASE m = Len(queue) + 1 /\ n \in 1..Len(queue)   BY <1>8, <3>1, <4>1, <4>5, Zenon
      <4> QED   BY <3>5, <4>2, <4>3, <4>4, <4>5, Zenon
    <3> QED   BY <2>2, <3>1, <3>2, <3>7, <3>8, Zenon
  <2> QED   BY <1>4, <2>1, <2>2, Zenon
<1>10. ASSUME NEW t \in tasks   PROVE TaskOK(t)' /\ Unanswered(t)' = Unanswered(t)
  <2>1. Range(t.jobs) \subseteq Job /\ TaskOK(t)   BY UnansweredJobs, Zenon
  <2>2. j \notin Range(t.jobs)   BY <1>1, <2>1, Zenon DEF TaskOK
  <2>3. \A i \in Range(t.jobs) : job'[i] = job[i]   BY <1>5, <2>1, <2>2, Zenon
  <2> QED   BY <2>3, TasksStay, Zenon
<1>11. tasks' = tasks   BY <1>1, Zenon
<1>12. SearchesAccounted'
  <2>1. \A i \in Job : job'[i].at = "queued" <=> i \in Range(queue')
    BY <1>1, <1>3, <1>5, <1>6, <1>9, Zenon
  <2>2. \A i \in Job : job'[i].at = "taken" <=> \E t \in tasks : i \in Unanswered(t)'
    <3>1. \A t \in tasks : j \notin Unanswered(t)   BY <1>1, <1>3, <1>6, Zenon
    <3>2. ASSUME NEW i \in Job   PROVE job'[i].at = "taken" <=> \E t \in tasks : i \in Unanswered(t)
      <4>1. CASE i = j   BY <1>5, <1>6, <3>1, <4>1, Zenon
      <4>2. CASE i # j   BY <1>3, <1>5, <4>2, Zenon
      <4> QED   BY <4>1, <4>2, Zenon
    <3> QED   BY <1>10, <3>2, Zenon
  <2>3. \A t, u \in tasks : t # u => Unanswered(t)' \cap Unanswered(u)' = {}   BY <1>3, <1>10, Zenon
  <2> QED   BY <1>9, <1>11, <2>1, <2>2, <2>3, Zenon DEF SearchesAccounted
<1>13. SearchTypeOK' /\ IsFiniteSet(tasks)'   BY <1>1, <1>5, <1>9, Zenon DEF SearchInv, SearchTypeOK
<1>14. OwnResults' /\ InvalidIsOwn'
  <2>1. OwnResults /\ InvalidIsOwn   BY Zenon DEF SearchInv
  <2>2. ASSUME NEW i \in Job   PROVE Own(i)'
    <3>1. CASE i = j   BY <1>5, <1>6, <3>1, Zenon DEF Own
    <3>2. CASE i # j   BY <1>5, <2>1, <3>2, Zenon DEF Own, OwnResults, InvalidIsOwn
    <3> QED   BY <3>1, <3>2, Zenon
  <2> QED   BY <2>2, Zenon DEF Own, OwnResults, InvalidIsOwn
<1> QED   BY <1>3, <1>7, <1>10, <1>11, <1>12, <1>13, <1>14, Zenon DEF SearchInv

\* A new task has its batch before it: no bucket yet, and a key for each job.
LEMMA NewTaskOK ==
  ASSUME NEW batch \in Seq(Job), NEW keys \in SUBSET Key
  PROVE  /\ NewTask(batch, keys) \in Task
         /\ NewTask(batch, keys).jobs = batch /\ NewTask(batch, keys).todo = keys
         /\ NewTask(batch, keys).bucket = <<>> /\ NewTask(batch, keys).step = "next"
<1>1. (CHOOSE k \in Key : TRUE) \in Key   BY SomeKey, Zenon
<1> DEFINE c == CHOOSE k \in Key : TRUE
<1> HIDE DEF c
<1>2. c \in Key   BY <1>1, Zenon DEF c
<1>3. NewTask(batch, keys) =
        [jobs |-> batch, todo |-> keys, bucket |-> <<>>, settings |-> c,
         vectors |-> <<>>, cached |-> FALSE, step |-> "next"]
  BY Zenon DEF NewTask, c
<1>4. <<>> \in Seq(Job)   OBVIOUS
<1> QED   BY <1>2, <1>3, <1>4, Z3 DEF Task

\* The worker takes a batch from the queue: its jobs are in the new task, and in
\* no other.
LEMMA TakeBatchKeeps ==
  ASSUME SearchInv, TakeBatch
  PROVE  SearchInv' /\ AnsweredOnce
<1> DEFINE n == IF Len(queue) < DrainMax THEN Len(queue) ELSE DrainMax
           a == SubSeq(queue, 1, n)
           b == SubSeq(queue, n + 1, Len(queue))
           keys == {KeyOf(j) : j \in Range(a)}
<1>1. /\ queue # <<>> /\ Cardinality(tasks) < MaxTasks /\ queue' = b
      /\ tasks' = tasks \cup {NewTask(a, keys)} /\ faults' = faults
      /\ job' = [j \in Job |-> IF j \in Range(a) THEN [job[j] EXCEPT !.at = "taken"] ELSE job[j]]
  BY Zenon DEF TakeBatch
<1>2. /\ job \in [Job -> JobState] /\ queue \in Seq(Job) /\ IsInjective(queue)
      /\ \A i \in Job : job[i].at = "queued" <=> i \in Range(queue)
      /\ \A i \in Job : job[i].at = "taken" <=> \E t \in tasks : i \in Unanswered(t)
      /\ \A t, u \in tasks : t # u => Unanswered(t) \cap Unanswered(u) = {}
      /\ \A t, u \in tasks : t # u => Range(t.jobs) \cap Range(u.jobs) = {}
      /\ tasks \subseteq Task /\ IsFiniteSet(tasks) /\ faults \in 0..MaxFaults
      /\ Len(queue) <= Capacity
  BY Zenon DEF SearchInv, SearchTypeOK, SearchesAccounted
<1>3. queue \in Seq(Job) /\ queue # <<>>   BY <1>1, <1>2, Zenon
<1>4. n \in 0..Len(queue) /\ n \in 1..Len(queue)   BY <1>3, SearchIngressAssumption
<1> HIDE DEF n
<1>5. /\ a \in Seq(Job) /\ b \in Seq(Job) /\ Len(b) = Len(queue) - n
      /\ IsInjective(a) /\ IsInjective(b)
      /\ Range(a) \subseteq Range(queue) /\ Range(b) = Range(queue) \ Range(a)
  BY <1>2, <1>4, PartOfLine, Zenon
<1>6. \A i \in Range(queue) : i \in Job   BY <1>2, ElementsOf, Zenon
<1>7. Range(a) # {}
  <2>1. Len(a) = n /\ a[1] = a[1]   BY <1>2, <1>4
  <2>2. 1 \in DOMAIN a   BY <1>4, <1>5, <2>1
  <2> QED   BY <2>2, Zenon DEF Range
<1> HIDE DEF a, b
<1>8. Len(b) <= Capacity   BY <1>2, <1>4, <1>5, SearchIngressAssumption
<1>9. \A i \in Job : job[i] \in JobState /\ job[i].key \in Key   BY <1>2, Zenon DEF JobState
<1>10. keys \in SUBSET Key   BY <1>5, <1>6, <1>9, Zenon DEF KeyOf
<1>11. \A k : k \in keys <=> \E j \in Range(a) : KeyOf(j) = k   BY Zenon
<1> HIDE DEF keys
<1>12. PICK v : v = NewTask(a, keys)   BY Zenon
<1>13. /\ v \in Task /\ v.jobs = a /\ v.todo = keys /\ v.bucket = <<>> /\ v.step = "next"
       /\ tasks' = tasks \cup {v}
  <2>1. tasks' = tasks \cup {v}   BY <1>1, <1>12, Zenon
  <2> QED   BY <1>5, <1>10, <1>12, <2>1, NewTaskOK, Zenon
<1>14. ASSUME NEW i \in Range(a)
       PROVE /\ i \in Job /\ job[i].at = "queued" /\ i \notin Range(b)
             /\ job'[i].at = "taken" /\ job'[i].key = job[i].key /\ job'[i] \in JobState
  <2>1. i \in Job /\ job[i].at = "queued" /\ i \notin Range(b)   BY <1>2, <1>5, <1>6, Zenon
  <2>2. job'[i] = [job[i] EXCEPT !.at = "taken"]   BY <1>1, <2>1, Zenon
  <2>3. job[i] \in JobState   BY <1>9, <2>1, Zenon
  <2>4. PICK r \in JobState : r = job[i]   BY <2>3, Zenon
  <2>5. PICK w : w = [r EXCEPT !.at = "taken"]   BY Zenon
  <2>6. w.at = "taken" /\ w.key = r.key /\ w \in JobState   BY <2>5, Z3 DEF JobState
  <2> QED   BY <2>1, <2>2, <2>4, <2>5, <2>6, Zenon
<1>15. ASSUME NEW i \in Job, i \notin Range(a)   PROVE job'[i] = job[i]   BY <1>1, <1>15, Zenon
<1>16. job' \in [Job -> JobState]
  <2>1. \A i \in Job : job'[i] \in JobState   BY <1>9, <1>14, <1>15, Zenon
  <2>2. PICK f : f = job' /\ f = [j \in Job |-> IF j \in Range(a) THEN [job[j] EXCEPT !.at = "taken"] ELSE job[j]]
    BY <1>1, Zenon
  <2>3. \A i \in Job : f[i] \in JobState   BY <2>1, <2>2, Zenon
  <2>4. f \in [Job -> JobState]   BY <2>2, <2>3, Zenon
  <2> QED   BY <2>2, <2>4, Zenon
<1>17. /\ "queued" \notin Answers /\ "taken" # "queued" /\ "taken" # "new" /\ "taken" # "results"
       /\ "taken" # "invalid"
  BY Zenon DEF Answers
<1>18. AnsweredOnce   BY <1>14, <1>15, <1>17, Zenon DEF AnsweredOnce
<1>19. ASSUME NEW t \in tasks
       PROVE  /\ TaskOK(t)' /\ Unanswered(t)' = Unanswered(t)
              /\ Range(t.jobs) \cap Range(a) = {} /\ Unanswered(t) \subseteq Range(t.jobs)
  <2>1. Range(t.jobs) \subseteq Job /\ TaskOK(t) /\ Unanswered(t) \subseteq Range(t.jobs)
    BY UnansweredJobs, Zenon
  <2>2. \A i \in Range(t.jobs) : i \notin Range(a)   BY <1>14, <2>1, Zenon DEF TaskOK
  <2>3. \A i \in Range(t.jobs) : job'[i] = job[i]   BY <1>15, <2>1, <2>2, Zenon
  <2>4. TaskOK(t)' /\ Unanswered(t)' = Unanswered(t)   BY <2>3, TasksStay, Zenon
  <2> QED   BY <2>1, <2>2, <2>4, Zenon
<1>20. \A i \in Range(a) : KeyOf(i)' = KeyOf(i)   BY <1>14, Zenon DEF KeyOf
<1>21. Range(<<>>) = {} /\ IsInjective(<<>>)   BY DEF Range, IsInjective
<1>22. Unanswered(v)' = Range(a)
  <2>1. \A i : i \in Unanswered(v)' <=> (i \in Range(v.bucket) \/ (i \in Range(v.jobs) /\ KeyOf(i)' \in v.todo))
    BY Zenon DEF Unanswered
  <2>2. Range(v.bucket) = {} /\ v.jobs = a /\ v.todo = keys   BY <1>13, <1>21, Zenon
  <2>3. \A i : i \in Unanswered(v)' <=> (i \in Range(a) /\ KeyOf(i)' \in keys)
    BY <2>1, <2>2, Zenon
  <2>4. \A i \in Range(a) : KeyOf(i)' \in keys   BY <1>11, <1>20, Zenon
  <2> QED   BY <2>3, <2>4, Zenon
<1>23. TaskOK(v)'
  BY <1>5, <1>11, <1>13, <1>14, <1>17, <1>20, <1>21, Zenon DEF TaskOK
<1>24. v \notin tasks   BY <1>7, <1>13, <1>19, Zenon
<1>25. IsFiniteSet(tasks') /\ Cardinality(tasks') <= MaxTasks
  <2>1. /\ IsFiniteSet(tasks \cup {v}) /\ Cardinality(tasks \cup {v}) = Cardinality(tasks) + 1
        /\ Cardinality(tasks) \in Nat
    BY <1>2, <1>24, FS_AddElement, FS_CardinalityType
  <2>2. Cardinality(tasks) < MaxTasks /\ MaxTasks \in Nat   BY <1>1, SearchIngressAssumption, Zenon
  <2>3. \A c \in Nat : c < MaxTasks => c + 1 <= MaxTasks   BY <2>2
  <2>4. Cardinality(tasks) + 1 <= MaxTasks   BY <2>1, <2>2, <2>3, Zenon
  <2> QED   BY <1>13, <2>1, <2>4, Zenon
<1>26. SearchTypeOK'   BY <1>1, <1>2, <1>5, <1>8, <1>13, <1>16, <1>25, Zenon DEF SearchTypeOK
<1>27. \A t, u \in tasks' : t # u => Range(t.jobs) \cap Range(u.jobs) = {}
  BY <1>2, <1>13, <1>19, Zenon
<1>28. SearchesAccounted'
  <2>1. \A i \in Job : job'[i].at = "queued" <=> i \in Range(queue')
    BY <1>1, <1>2, <1>5, <1>14, <1>15, <1>17, Zenon
  <2>2. ASSUME NEW i \in Job   PROVE job'[i].at = "taken" <=> \E t \in tasks' : i \in Unanswered(t)'
    <3>1. CASE i \in Range(a)   BY <1>13, <1>14, <1>22, <3>1, Zenon
    <3>2. CASE i \notin Range(a)
      <4>1. \A t \in tasks' : i \in Unanswered(t)' <=> (t \in tasks /\ i \in Unanswered(t))
        BY <1>13, <1>19, <1>22, <1>24, <3>2, Zenon
      <4>2. job'[i].at = "taken" <=> \E t \in tasks : i \in Unanswered(t)
        BY <1>2, <1>15, <3>2, Zenon
      <4>3. \A t \in tasks : t \in tasks'   BY <1>13, Zenon
      <4> QED   BY <4>1, <4>2, <4>3, Zenon
    <3> QED   BY <3>1, <3>2, Zenon
  <2>3. ASSUME NEW t \in tasks', NEW u \in tasks', t # u   PROVE Unanswered(t)' \cap Unanswered(u)' = {}
    <3>1. \A w \in tasks' : Unanswered(w)' \subseteq Range(w.jobs)   BY <1>13, <1>19, <1>22, Zenon
    <3>2. \A x : ~(x \in Range(t.jobs) /\ x \in Range(u.jobs))   BY <1>27, <2>3, Zenon
    <3> QED   BY <3>1, <3>2, Zenon
  <2> QED   BY <1>1, <1>5, <2>1, <2>2, <2>3, Zenon DEF SearchesAccounted
<1>29. OwnResults' /\ InvalidIsOwn'
  <2>1. OwnResults /\ InvalidIsOwn   BY Zenon DEF SearchInv
  <2>2. ASSUME NEW i \in Job   PROVE Own(i)'
    <3>1. CASE i \in Range(a)   BY <1>14, <1>17, <3>1, Zenon DEF Own
    <3>2. CASE i \notin Range(a)   BY <1>15, <2>1, <3>2, Zenon DEF Own, OwnResults, InvalidIsOwn
    <3> QED   BY <3>1, <3>2, Zenon
  <2> QED   BY <2>2, Zenon DEF Own, OwnResults, InvalidIsOwn
<1>30. \A t \in tasks' : TaskOK(t)'   BY <1>13, <1>19, <1>23, Zenon
<1> QED   BY <1>18, <1>25, <1>26, <1>27, <1>28, <1>29, <1>30, Zenon DEF SearchInv

\* Every step of the worker keeps the invariant and every answer.
LEMMA SearchInductive ==
  ASSUME SearchInv, [SearchNext]_searchVars
  PROVE  SearchInv' /\ AnsweredOnce
<1>1. ASSUME NEW j \in Job, SubmitSearch(j)   PROVE SearchInv' /\ AnsweredOnce
  BY <1>1, SubmitKeeps, Zenon
<1>2. CASE TakeBatch   BY <1>2, TakeBatchKeeps, Zenon
<1>3. ASSUME NEW t \in tasks, NextBucket(t)   PROVE SearchInv' /\ AnsweredOnce
  BY <1>3, NextBucketKeeps, Zenon
<1>4. ASSUME NEW t \in tasks, ReadConfig(t)   PROVE SearchInv' /\ AnsweredOnce
  BY <1>4, ReadConfigKeeps, Zenon
<1>5. ASSUME NEW t \in tasks, Vectorized(t)   PROVE SearchInv' /\ AnsweredOnce
  BY <1>5, VectorizeKeeps, Zenon
<1>6. ASSUME NEW t \in tasks, Search(t)   PROVE SearchInv' /\ AnsweredOnce
  BY <1>6, SearchKeeps, Zenon
<1>7. ASSUME NEW t \in tasks, BucketFails(t)   PROVE SearchInv' /\ AnsweredOnce
  BY <1>7, BucketFailsKeeps, Zenon
<1>8. ASSUME NEW t \in tasks, VectorizeAgain(t)   PROVE SearchInv' /\ AnsweredOnce
  BY <1>8, VectorizeKeeps, Zenon
<1>9. ASSUME NEW t \in tasks, Panic(t)   PROVE SearchInv' /\ AnsweredOnce
  BY <1>9, PanicKeeps, Zenon
<1>10. CASE UNCHANGED searchVars
  <2>1. job' = job /\ queue' = queue /\ tasks' = tasks /\ faults' = faults
    BY <1>10, Zenon DEF searchVars
  <2>2. \A t : Unanswered(t)' = Unanswered(t) /\ (TaskOK(t)' <=> TaskOK(t))
    BY <2>1, Zenon DEF Unanswered, TaskOK, KeyOf
  <2>3. SearchTypeOK' /\ SearchesAccounted' /\ OwnResults' /\ InvalidIsOwn'
    BY <2>1, <2>2, Zenon DEF SearchInv, SearchTypeOK, SearchesAccounted, OwnResults, InvalidIsOwn
  <2> QED   BY <2>1, <2>2, <2>3, Zenon DEF SearchInv, AnsweredOnce
<1>11. CASE SearchRest   BY <1>10, <1>11, Zenon DEF SearchRest
<1>12. CASE TaskStep   BY <1>3, <1>4, <1>5, <1>6, <1>12, Zenon DEF TaskStep
<1>13. CASE TaskFault   BY <1>7, <1>8, <1>9, <1>13, Zenon DEF TaskFault
<1> QED   BY <1>1, <1>2, <1>10, <1>11, <1>12, <1>13, Zenon DEF SearchNext

\* Before the first search there is nothing to account for.
LEMMA SearchStarts == SearchInit => SearchInv
<1> SUFFICES ASSUME SearchInit   PROVE SearchInv   BY Zenon
<1>1. job = [j \in Job |-> NewJob(j)] /\ queue = <<>> /\ tasks = {} /\ faults = 0
  BY Zenon DEF SearchInit
<1>2. PICK c \in Key : c = CHOOSE k \in Key : TRUE   BY SomeKey, Zenon
<1>3. \A j \in Job : NewJob(j) = [at |-> "new", key |-> c, query |-> j, with |-> c]
  BY <1>2, Zenon DEF NewJob
<1>4. \A j \in Job : NewJob(j) \in JobState /\ NewJob(j).at = "new"   BY <1>3, Z3 DEF JobState
<1>5. job \in [Job -> JobState] /\ \A j \in Job : job[j].at = "new"   BY <1>1, <1>4, Zenon
<1>6. "new" # "queued" /\ "new" # "taken" /\ "new" # "results" /\ "new" # "invalid"   BY Zenon
<1>7. <<>> \in Seq(Job) /\ Len(<<>>) = 0 /\ 0 <= Capacity /\ 0 \in 0..MaxFaults /\ 0 <= MaxTasks
  BY SearchIngressAssumption
<1>8. Range(<<>>) = {} /\ IsInjective(<<>>)   BY DEF Range, IsInjective
<1>9. IsFiniteSet({}) /\ Cardinality({}) = 0   BY FS_EmptySet, Zenon
<1>10. SearchTypeOK   BY <1>1, <1>5, <1>7, <1>9, Zenon DEF SearchTypeOK
<1>11. SearchesAccounted   BY <1>1, <1>5, <1>6, <1>8, Zenon DEF SearchesAccounted
<1>12. OwnResults /\ InvalidIsOwn   BY <1>5, <1>6, Zenon DEF OwnResults, InvalidIsOwn
<1> QED   BY <1>1, <1>9, <1>10, <1>11, <1>12, Zenon DEF SearchInv

\* The answer to a search is its own and comes from one place only, for any
\* number of searches, collections, settings and micro-batches, under any faults
\* of the database and of vectorization, and panics of the tasks.
THEOREM SearchAnswersAreOwn == SearchSpec => []AnswersAreOwn
<1>1. SearchInv /\ [SearchNext]_searchVars => SearchInv'   BY SearchInductive, Zenon
<1>2. SearchInv => AnswersAreOwn   BY Zenon DEF SearchInv, AnswersAreOwn
<1> QED   BY <1>1, <1>2, SearchStarts, PTL DEF SearchSpec

\* The answer to a search is final: no later step of its micro-batch, nor of
\* another one, changes it or the settings it was found under (the reply channel
\* of process_search_microbatch is used up by the first answer).
THEOREM SearchAnswersAreFinal == SearchSpec => [][AnsweredOnce]_searchVars
<1>1. SearchInv /\ [SearchNext]_searchVars => SearchInv' /\ [AnsweredOnce]_searchVars
  BY SearchInductive, Zenon
<1> QED   BY <1>1, SearchStarts, PTL DEF SearchSpec
=============================================================================
