------------------------------- MODULE Lines -------------------------------
(***************************************************************************)
(* Sequences without repetitions: who waits for a mutex, the models of a   *)
(* cache in the order of their use, the documents of a page.               *)
(***************************************************************************)
EXTENDS Integers, Sequences, FiniteSets, Functions

\* s without e, which it has once or not at all.
Without(s, e) ==
  IF e \in Range(s)
  THEN LET n == CHOOSE n \in DOMAIN s : s[n] = e
       IN  [m \in 1..Len(s) - 1 |-> IF m < n THEN s[m] ELSE s[m + 1]]
  ELSE s

\* The numbers of S from the least one on.
Ascending(S) ==
  [i \in 1..Cardinality(S) |-> CHOOSE n \in S : Cardinality({m \in S : m < n}) = i - 1]
=============================================================================
