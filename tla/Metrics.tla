------------------------------ MODULE Metrics ------------------------------
(***************************************************************************)
(* The metrics collector: recorders stamp events and send them into a      *)
(* bounded channel; the report thread drains it into live buckets, rolls   *)
(* these up into minutes and the minutes into five-minute buckets, and     *)
(* writes both to the database in a task of its own.  Modelled for one key *)
(* whose events count 1; an average is the same with two sums.             *)
(*                                                                         *)
(* Time is counted in live buckets (LIVE_BUCKET_SECONDS).                  *)
(***************************************************************************)
EXTENDS Integers, FiniteSetsExt, SequencesExt

CONSTANTS
  Recorder,    \* threads that record
  Minute,      \* _1M_BUCKET_SECONDS, and MAX_WINDOW
  Five,        \* _5M_BUCKET_SECONDS
  MaxAge,      \* PENDING_BUCKET_MAX_AGE_S
  Capacity,    \* EVENT_BUFFER_MAXLEN
  MaxTime,     \* bound on the time that passes
  MaxEvents,   \* bound on events
  MaxFails     \* bound on writes that fail

\* What the constants satisfy.
MetricsAssumption ==
  /\ Minute \in Nat \ {0} /\ Five \in Nat /\ Five % Minute = 0 /\ Five > Minute
  /\ MaxAge \in Nat /\ Capacity \in Nat \ {0} /\ MaxTime \in Nat
  /\ MaxEvents \in Nat /\ MaxFails \in Nat

VARIABLES
  now,        \* the clock
  stamp,      \* stamp[r]: the time a recorder has read, or NoTime
  events,     \* events stamped so far
  channel,    \* the times of the buffered events
  data,       \* the live buckets, oldest insertion first
  last1,      \* last_flushed_1m_start
  last5,      \* last_flushed_5m_start
  completed,  \* completed_1m, between the two halves of a round
  for5,       \* pending_1m_for_5m
  pending,    \* pending_1m: the buckets to be written
  flush,      \* the flush task: "none", "spawned" or "running"
  batch,      \* what the running flush writes
  stored,     \* the buckets in the database, by id
  fails,      \* writes that failed
  at,         \* where the report thread is
  stop,       \* the stop flag
  onTime      \* onTime[s]: events of minute s drained before it was collected

vars == <<now, stamp, events, channel, data, last1, last5, completed, for5, pending,
          flush, batch, stored, fails, at, stop, onTime>>
recordVars == <<stamp, events, channel>>
rollVars == <<data, last1, last5, completed, for5, onTime>>
flushVars == <<flush, batch, stored, fails>>

\* The first round of a process finds both watermarks at 0.
Start == Five
Times == 0..(Start + MaxTime)
NoTime == -1
Bucket == [start : Times, secs : {Minute, Five}, value : 0..MaxEvents]

TypeOK ==
  /\ now \in Start..(Start + MaxTime) /\ stamp \in [Recorder -> Times \cup {NoTime}]
  /\ events \in 0..MaxEvents /\ channel \in Seq(Times) /\ Len(channel) <= Capacity
  /\ data \in Seq([start : Times, value : 1..MaxEvents])
  /\ last1 \in Times /\ last5 \in Times
  /\ completed \subseteq Bucket /\ for5 \subseteq Bucket /\ pending \subseteq Bucket
  /\ batch \subseteq Bucket /\ stored \subseteq Bucket
  /\ flush \in {"none", "spawned", "running"} /\ fails \in 0..MaxFails
  /\ at \in {"drain", "roll", "wait", "join", "final", "exited"} /\ stop \in BOOLEAN
  /\ onTime \in [Times -> 0..MaxEvents]

Init ==
  /\ now = Start /\ stamp = [r \in Recorder |-> NoTime] /\ events = 0 /\ channel = <<>>
  /\ data = <<>> /\ last1 = 0 /\ last5 = 0 /\ completed = {} /\ for5 = {} /\ pending = {}
  /\ flush = "none" /\ batch = {} /\ stored = {} /\ fails = 0
  /\ at = "drain" /\ stop = FALSE /\ onTime = [s \in Times |-> 0]

\* floor_to
FloorTo(t, secs) == (t \div secs) * secs

Values(B) == FoldSet(LAMBDA b, n : b.value + n, 0, B)

-----------------------------------------------------------------------------
(* Recording. *)

ClockAdvances ==
  /\ now < Start + MaxTime /\ now' = now + 1
  /\ UNCHANGED <<recordVars, rollVars, pending, flushVars, at, stop>>

\* record reads the clock and then sends.
Stamp(r) ==
  /\ stamp[r] = NoTime /\ events < MaxEvents
  /\ stamp' = [stamp EXCEPT ![r] = now] /\ events' = events + 1
  /\ UNCHANGED <<now, channel, rollVars, pending, flushVars, at, stop>>

\* Faulty form: an event is sent whether there is room or not.
SendAnyway(r) ==
  /\ stamp[r] # NoTime /\ stamp' = [stamp EXCEPT ![r] = NoTime]
  /\ channel' = Append(channel, stamp[r])
  /\ UNCHANGED <<now, events, rollVars, pending, flushVars, at, stop>>

\* A full channel, or a report thread that has gone, loses the event.
Send(r) ==
  /\ stamp[r] # NoTime /\ stamp' = [stamp EXCEPT ![r] = NoTime]
  /\ channel' = IF Len(channel) < Capacity /\ at # "exited"
                THEN Append(channel, stamp[r]) ELSE channel
  /\ UNCHANGED <<now, events, rollVars, pending, flushVars, at, stop>>

-----------------------------------------------------------------------------
(* A round of the report thread. *)

\* apply_event: events of the bucket at the back are added to it.
Applied(d, t) ==
  IF d # <<>> /\ Last(d).start = t
  THEN [d EXCEPT ![Len(d)].value = @ + 1]
  ELSE Append(d, [start |-> t, value |-> 1])

\* The live buckets of minute s, and the minutes that are over and have any.
Raw(d, s) == {i \in DOMAIN d : FloorTo(d[i].start, Minute) = s}
OverMinutes(d) ==
  {s \in {FloorTo(d[i].start, Minute) : i \in DOMAIN d} :
     last1 <= s /\ s < FloorTo(now, Minute)}

\* collect_completed_1m
Completed1m(d) ==
  IF FloorTo(now, Minute) <= last1 THEN {}
  ELSE {[start |-> s, secs |-> Minute,
         value |-> FoldSet(LAMBDA i, n : d[i].value + n, 0, Raw(d, s))] : s \in OverMinutes(d)}

\* trim_buckets drops from the front what is older than the windows and has
\* been collected.
Trimmed(d, l1) ==
  LET cutoff == Min({now - Minute + 1, l1})
      old == {i \in DOMAIN d : \A k \in 1..i : d[k].start < cutoff} IN
  SubSeq(d, Cardinality(old) + 1, Len(d))

\* drain_and_process; the snapshot for the metrics leader is left out.
Drain ==
  LET d == FoldLeft(Applied, data, channel)
      l1 == IF FloorTo(now, Minute) > last1 THEN FloorTo(now, Minute) ELSE last1 IN
  /\ at = "drain" /\ at' = IF stop THEN "join" ELSE "roll"
  /\ IF stop THEN UNCHANGED <<channel, rollVars>>
     ELSE /\ channel' = <<>>
          /\ completed' = Completed1m(d) /\ last1' = l1 /\ data' = Trimmed(d, l1)
          /\ onTime' = [s \in Times |-> onTime[s] +
               IF s < last1 THEN 0
               ELSE Cardinality({i \in DOMAIN channel : FloorTo(channel[i], Minute) = s})]
          /\ UNCHANGED <<last5, for5>>
  /\ UNCHANGED <<now, stamp, events, pending, flushVars, stop>>

Young(B) == {b \in B : b.start >= now - MaxAge}

\* collect_completed_5m_from_1m: nothing is done, and completed_1m is not kept,
\* until a five-minute slot is over.
Slot5(b) == FloorTo(b.start, Five)
All5 == Young(for5) \cup completed
Over5 == {b \in All5 : last5 <= Slot5(b) /\ Slot5(b) < FloorTo(now, Five)}
Completed5m ==
  IF FloorTo(now, Five) <= last5 THEN {}
  ELSE {[start |-> s, secs |-> Five, value |-> Values({b \in Over5 : Slot5(b) = s})] :
          s \in {Slot5(b) : b \in Over5}}

\* Faulty form: a flush is started only for buckets that have just been completed.
StartsFlushOnce(new) == flush = "none" /\ new # {}

\* Whether the round starts a flush: for new buckets or for ones left over.
StartsFlush(new) == flush = "none" /\ (new # {} \/ Young(pending) # {})

\* After the payload has been published, the second half of the round; the
\* clock is read again.
Roll ==
  LET new == completed \cup Completed5m IN
  /\ at = "roll" /\ at' = "wait"
  /\ IF FloorTo(now, Five) <= last5 THEN UNCHANGED <<for5, last5>>
     ELSE /\ for5' = {b \in All5 : Slot5(b) >= FloorTo(now, Five)}
          /\ last5' = FloorTo(now, Five)
  /\ pending' = Young(pending) \cup new /\ completed' = {}
  /\ flush' = IF StartsFlush(new) THEN "spawned" ELSE flush
  /\ UNCHANGED <<now, recordVars, data, last1, onTime, batch, stored, fails, stop>>

\* wait_for_stop
Wait ==
  /\ at = "wait" /\ at' = IF stop THEN "join" ELSE "drain"
  /\ UNCHANGED <<now, recordVars, rollVars, pending, flushVars, stop>>

-----------------------------------------------------------------------------
(* Writing. *)

\* flush_pending_1m takes a copy of the pending buckets.
TakeCopy ==
  /\ flush = "spawned"
  /\ flush' = IF pending = {} THEN "none" ELSE "running"
  /\ batch' = pending
  /\ UNCHANGED <<now, recordVars, rollVars, pending, stored, fails, at, stop>>

Id(b) == <<b.start, b.secs>>

\* The point of a bucket is found by its identity: writing it again replaces it.
Upserted(B) == {b \in stored : \A c \in B : Id(b) # Id(c)} \cup B

\* Faulty form: everything that is pending is taken as written.
WriteAll ==
  /\ flush = "running" /\ flush' = "none" /\ batch' = {}
  /\ stored' = Upserted(batch) /\ pending' = {}
  /\ UNCHANGED <<now, recordVars, rollVars, fails, at, stop>>

\* The buckets of the copy leave the pending ones; those that came meanwhile
\* stay.
Write ==
  /\ flush = "running" /\ flush' = "none" /\ batch' = {}
  /\ stored' = Upserted(batch)
  /\ pending' = {b \in pending : \A c \in batch : Id(b) # Id(c)}
  /\ UNCHANGED <<now, recordVars, rollVars, fails, at, stop>>

\* A write that fails may have reached the database.
WriteFails ==
  /\ flush = "running" /\ flush' = "none" /\ batch' = {}
  /\ fails < MaxFails /\ fails' = fails + 1
  /\ stored' \in {stored, Upserted(batch)}
  /\ UNCHANGED <<now, recordVars, rollVars, pending, at, stop>>

-----------------------------------------------------------------------------
(* Stopping. *)

Stop ==
  /\ ~stop /\ stop' = TRUE
  /\ UNCHANGED <<now, recordVars, rollVars, pending, flushVars, at>>

\* Faulty form: a flush in flight is left to itself.
JoinNothing ==
  /\ at = "join" /\ at' = "exited"
  /\ UNCHANGED <<now, recordVars, rollVars, pending, flushVars, stop>>

\* The flush in flight is awaited, and what is still pending gets a last one.
Join ==
  /\ at = "join" /\ flush = "none"
  /\ IF pending = {} THEN at' = "exited" /\ UNCHANGED flush
     ELSE at' = "final" /\ flush' = "spawned"
  /\ UNCHANGED <<now, recordVars, rollVars, pending, batch, stored, fails, stop>>

Exit ==
  /\ at = "final" /\ flush = "none" /\ at' = "exited"
  /\ UNCHANGED <<now, recordVars, rollVars, pending, flushVars, stop>>

Rest == at = "exited" /\ UNCHANGED vars

Report == Drain \/ Roll \/ Wait \/ Join \/ Exit
Flush == TakeCopy \/ Write
Next ==
  \/ ClockAdvances \/ Report \/ Flush \/ WriteFails \/ Stop \/ Rest
  \/ \E r \in Recorder : Stamp(r) \/ Send(r)

Spec == Init /\ [][Next]_vars

\* The report thread and its flush task run; stopping is optional.
FairSpec == Spec /\ WF_vars(Report) /\ WF_vars(Flush)

-----------------------------------------------------------------------------
(* Properties. *)

\* A minute that has been collected is counted exactly: one bucket, with every
\* event that was drained before, whether it is still pending, being written
\* (once or again) or stored.  Only a bucket that got too old may be gone.
MinutesExact ==
  \A s \in Times : (s % Minute = 0 /\ s < last1) =>
    LET B == {b \in pending \cup stored \cup completed : b.start = s /\ b.secs = Minute} IN
    Values(B) = onTime[s] \/ (B = {} /\ s < now - MaxAge)

\* pending_1m_for_5m accumulates minutes toward the next roll-up: a five-minute
\* bucket, when it is made, is the sum of the minutes completed in its span.
FiveMinutesComplete ==
  [][\A b \in pending' \ pending : b.secs = Five =>
       b.value = Values({c \in pending' \cup stored' : c.secs = Minute /\ Slot5(c) = b.start})]_vars

\* A completed bucket is written in the end, whatever writes fail on the way,
\* or gets too old: a failed flush is taken up again by a later round even if
\* that completes no bucket.
PendingIsStored ==
  \A s \in {t \in Times : t % Minute = 0} :
    (\E b \in pending : b.start = s /\ b.secs = Minute)
      ~> \/ \E b \in stored : b.start = s /\ b.secs = Minute
         \/ at = "exited" \/ s < now - MaxAge

\* stop_and_join leaves nothing unwritten unless a write has failed.
StopsClean == at = "exited" => pending = {} \/ fails > 0
=============================================================================
