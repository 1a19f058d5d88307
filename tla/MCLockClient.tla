---------------------------- MODULE MCLockClient ----------------------------
(***************************************************************************)
(* Model checking of LockClient: two tasks in one process and one in       *)
(* another.  A behaviour has either retries or restarts; `part' says which,*)
(* and the constants of LockClient itself are the greater of the bounds.   *)
(***************************************************************************)
EXTENDS LockClient

CONSTANTS t1, t2, u1, p1, p2

MCTask == {t1, t2, u1}
MCProcOf == [t \in MCTask |-> IF t = u1 THEN p2 ELSE p1]

VARIABLE part

Retries == INSTANCE LockClient WITH MaxRestarts <- 0
Restarts == INSTANCE LockClient WITH MaxTries <- 1

SuiteInit == part \in {"retries", "restarts"} /\ Init

SuiteNext ==
  \/ part = "retries" /\ Retries!Next /\ UNCHANGED part
  \/ part = "restarts" /\ Restarts!Next /\ UNCHANGED part

SuiteSpec == SuiteInit /\ [][SuiteNext]_<<part, vars>>
=============================================================================
