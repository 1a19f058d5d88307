----------------------------- MODULE GpuLimiter -----------------------------
(***************************************************************************)
(* The limiter of model inference on a GPU: a counter under a mutex and a  *)
(* condition variable.  release wakes one sleeper; a thread that arrives   *)
(* meanwhile may take the slot first.                                      *)
(***************************************************************************)
EXTENDS Integers, FiniteSets

CONSTANTS
  Thread,
  MaxSlots   \* GPU_MODEL_INFERENCE_CONCURRENCY_MAX

ASSUME GpuLimiterAssumption == MaxSlots \in Nat \ {0} /\ IsFiniteSet(Thread)

VARIABLES
  available,  \* free slots
  place       \* place[t]: "outside", "acquire" (about to lock), "asleep" or "forward"

gpuVars == <<available, place>>

GpuTypeOK ==
  /\ available \in 0..MaxSlots
  /\ place \in [Thread -> {"outside", "acquire", "asleep", "forward"}]

In(s) == {t \in Thread : place[t] = s}
Goes(t, s) == place' = [place EXCEPT ![t] = s]

GpuInit == available = MaxSlots /\ place = [t \in Thread |-> "outside"]

Enter(t) == place[t] = "outside" /\ Goes(t, "acquire") /\ UNCHANGED available

\* One turn of the loop of acquire.
Acquire(t) ==
  /\ place[t] = "acquire"
  /\ IF available = 0
     THEN Goes(t, "asleep") /\ UNCHANGED available
     ELSE Goes(t, "forward") /\ available' = available - 1

\* A condition variable may wake a sleeper for no reason.
WakeSpuriously(t) == place[t] = "asleep" /\ Goes(t, "acquire") /\ UNCHANGED available

\* Faulty form: nobody is told that a slot is free.
ReleaseQuietly(t) ==
  /\ place[t] = "forward" /\ available' = available + 1
  /\ Goes(t, "outside")

\* Faulty form: the slot of a permit is not given back.
ReleaseNothing(t) ==
  /\ place[t] = "forward" /\ UNCHANGED available
  /\ \E u \in Thread :
       place' = [place EXCEPT ![t] = "outside", ![u] = IF @ = "asleep" THEN "acquire" ELSE @]

\* The permit is dropped, at the end of the inference, on an error or while a
\* panic unwinds.
Release(t) ==
  /\ place[t] = "forward"
  /\ available' = IF available + 1 < MaxSlots THEN available + 1 ELSE MaxSlots
  /\ \/ In("asleep") = {} /\ Goes(t, "outside")
     \/ \E u \in In("asleep") : place' = [place EXCEPT ![t] = "outside", ![u] = "acquire"]

GpuStep(t) == Acquire(t) \/ Release(t)

GpuNext == \E t \in Thread : Enter(t) \/ GpuStep(t) \/ WakeSpuriously(t)

GpuSpec == GpuInit /\ [][GpuNext]_gpuVars

-----------------------------------------------------------------------------
\* Every slot is either free or used by exactly one inference: the cap in
\* release never swallows a slot, and no inference runs beyond the limit.
SlotsConserved == available + Cardinality(In("forward")) = MaxSlots

\* No wake-up is lost: while threads sleep, every free slot is one that some
\* thread on its way to the counter will find.
NoSleepBesideFreeSlot ==
  In("asleep") # {} => available <= Cardinality(In("acquire"))
=============================================================================
