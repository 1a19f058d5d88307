------------------------------ MODULE MCShared ------------------------------
(***************************************************************************)
(* Model checking of what the threads and tasks of a process share and     *)
(* wait for: the locks of the process, the lock service, the answer to a   *)
(* call, a model that somebody else loads, a slot of the GPU; and of the   *)
(* buckets of the metrics.  The parts have no state in common, so a        *)
(* behaviour shows one of them: `part' names it, and the others rest in    *)
(* their initial states.                                                   *)
(***************************************************************************)
EXTENDS NamedLocks, BunnyTalk, ModelCache, GpuLimiter, TLC

CONSTANT Parts   \* the parts that are shown

VARIABLES
  part,
  local, at, try, seq, round, life, owner, reqs, grants,
  now, stamp, events, channel, data, last1, last5, completed, for5, unwritten,
  flush, batch, stored, fails, report, stop, onTime

clientVars == <<local, at, try, seq, round, life, owner, reqs, grants>>
metricVars == <<now, stamp, events, channel, data, last1, last5, completed, for5, unwritten,
                flush, batch, stored, fails, report, stop, onTime>>
suiteVars == <<part, lockVars, clientVars, talkVars, modelVars, gpuVars, metricVars>>

\* Two tasks of a process that may restart.
Client == INSTANCE LockClient WITH
  Task <- {"t1", "t2"}, Proc <- {"p1"}, procOf <- [t \in {"t1", "t2"} |-> "p1"],
  Nobody <- None, MaxTries <- 2, MaxReleases <- 1, MaxRounds <- 1, MaxRestarts <- 1,
  replies <- grants

\* Events around the end of two minutes, a slow and failing flush, a stop.
Metric == INSTANCE Metrics WITH
  Recorder <- {"r1", "r2"}, Minute <- 2, Five <- 4, MaxAge <- 4, Capacity <- 1,
  MaxTime <- 5, MaxEvents <- 2, MaxFails <- 1, at <- report, pending <- unwritten

ASSUME InstancesAssumption == Metric!MetricsAssumption

Loaders == Permutations(Loader)

SuiteInit ==
  /\ part \in Parts
  /\ LocksInit /\ Client!Init /\ TalkInit /\ ModelsInit /\ GpuInit /\ Metric!Init

SuiteNext ==
  \/ /\ part = "locks" /\ LocksNext
     /\ UNCHANGED <<part, clientVars, talkVars, modelVars, gpuVars, metricVars>>
  \/ /\ part = "client" /\ Client!Next
     /\ UNCHANGED <<part, lockVars, talkVars, modelVars, gpuVars, metricVars>>
  \/ /\ part = "talk" /\ TalkNext
     /\ UNCHANGED <<part, lockVars, clientVars, modelVars, gpuVars, metricVars>>
  \/ /\ part = "models" /\ ModelsNext
     /\ UNCHANGED <<part, lockVars, clientVars, talkVars, gpuVars, metricVars>>
  \/ /\ part = "slots" /\ GpuNext
     /\ UNCHANGED <<part, lockVars, clientVars, talkVars, modelVars, metricVars>>
  \/ /\ part = "metrics" /\ Metric!Next
     /\ UNCHANGED <<part, lockVars, clientVars, talkVars, modelVars, gpuVars>>

SuiteSpec == SuiteInit /\ [][SuiteNext]_suiteVars

\* For the part that is shown: tasks are polled, critical sections end, grants
\* lapse, the client library completes its calls and timers run, threads run and
\* loads end.  Nobody has to cancel, answer or restart.
SuiteFairness ==
  /\ \A p \in Proc : /\ WF_lockVars(part = "locks" /\ LockOwned(p))
                     /\ WF_lockVars(part = "locks" /\ DropGuard(p))
  /\ \A t \in {"t1", "t2"} : WF_clientVars(part = "client" /\ Client!TaskStep(t))
  /\ WF_clientVars(part = "client" /\ Client!Expire)
  /\ \A c \in Call : WF_talkVars(part = "talk" /\ RpcStep(c))
  /\ \A t \in Loader : WF_modelVars(part = "models" /\ LoadStep(t))

FairSuiteSpec == SuiteSpec /\ SuiteFairness

-----------------------------------------------------------------------------
(* Properties; those of the modules above keep their names.                *)

\* Nobody waits for ever: every task in line for a lock gets it; every acquire
\* and every release of a lock of the cluster ends, whatever the service does,
\* and a grant that nobody knows of lapses; every rpc ends, whether or not
\* anybody answers; every call of get_or_load returns.
NobodyWaitsForEver ==
  /\ EveryWaiterEnters /\ Client!EveryCallEnds /\ Client!OrphansLapse
  /\ EveryCallReturns /\ EveryGetReturns

\* A collected minute is counted exactly, pending, being written or stored, and
\* the report thread ends with its flush.
MinutesKept ==
  part = "metrics" => Metric!TypeOK /\ Metric!MinutesExact /\ Metric!StopsClean
=============================================================================
