----------------------------- MODULE BunnyTalk -----------------------------
(***************************************************************************)
(* Messages to the other services of a cluster.  rpc keeps a table of the  *)
(* calls that wait for a reply; the reply consumer, the timeout of a call  *)
(* and close all take entries from it.  talk is used to announce queue     *)
(* rows that have been stored just before.  RabbitMQ is external.          *)
(***************************************************************************)
EXTENDS Integers, FiniteSets

CONSTANTS
  Call,      \* calls of rpc, each with a correlation id of its own
  Post,      \* requests that queue a document
  MaxDrops   \* bound on handlers dropped by clients that disconnect

ASSUME BunnyTalkAssumption == MaxDrops \in Nat

VARIABLES
  call,      \* call[c]: where a call is, or how it ended
  pending,   \* correlation ids in the table
  result,    \* result[c]: what has been sent into the channel of a call
  replies,   \* replies in the reply queue
  handler,   \* replies whose entry is taken and whose result is not yet sent
  link,      \* "open", "closing" (close has been called) or "closed"
  drained,   \* close has emptied the table
  post,      \* post[r]: where a queueing request is, or how it ended
  rows,      \* requests whose row is in the queue
  bus,       \* requests whose row has been announced
  drops      \* handlers dropped so far

talkVars == <<call, pending, result, replies, handler, link, drained, post, rows, bus, drops>>
rpcVars == <<call, pending, result, replies, handler>>
postVars == <<post, rows, bus>>

Ended == {"replied", "failed", "timedout", "dropped"}

TalkTypeOK ==
  /\ call \in [Call -> {"new", "publish", "confirm", "wait"} \cup Ended]
  /\ pending \subseteq Call /\ replies \subseteq Call /\ handler \subseteq Call
  /\ result \in [Call -> {"none", "reply", "closed", "gone"}]
  /\ link \in {"open", "closing", "closed"} /\ drained \in BOOLEAN
  /\ post \in [Post -> {"new", "added", "undo", "ok", "failed", "dropped", "stuck"}]
  /\ rows \subseteq Post /\ bus \subseteq Post /\ drops \in 0..MaxDrops

TalkInit ==
  /\ call = [c \in Call |-> "new"] /\ result = [c \in Call |-> "none"]
  /\ pending = {} /\ replies = {} /\ handler = {}
  /\ link = "open" /\ drained = FALSE
  /\ post = [r \in Post |-> "new"] /\ rows = {} /\ bus = {} /\ drops = 0

-----------------------------------------------------------------------------
(* rpc. *)

Becomes(c, s) == call' = [call EXCEPT ![c] = s]

\* The entry is made before the request is published.
Register(c) ==
  /\ call[c] = "new" /\ Becomes(c, "publish")
  /\ pending' = pending \cup {c}
  /\ UNCHANGED <<result, replies, handler, link, drained, postVars, drops>>

\* Publishing, or waiting for its confirmation, fails: the entry is removed.
PublishFails(c) ==
  /\ call[c] \in {"publish", "confirm"} /\ Becomes(c, "failed")
  /\ pending' = pending \ {c}
  /\ UNCHANGED <<result, replies, handler, link, drained, postVars, drops>>

PublishOk(c) ==
  /\ call[c] = "publish" /\ link = "open" /\ Becomes(c, "confirm")
  /\ UNCHANGED <<pending, result, replies, handler, link, drained, postVars, drops>>

\* The service may answer before the confirmation is seen.
Confirmed(c) ==
  /\ call[c] = "confirm" /\ link # "closed" /\ Becomes(c, "wait")
  /\ UNCHANGED <<pending, result, replies, handler, link, drained, postVars, drops>>

\* Faulty form: what closed the channel is passed on as if it were a reply.
ReturnsAnything(c) ==
  /\ call[c] = "wait" /\ result[c] # "none"
  /\ Becomes(c, result[c])
  /\ UNCHANGED <<pending, result, replies, handler, link, drained, postVars, drops>>

\* The result is there; a sender that was dropped without sending is an error
\* too.
RpcReturns(c) ==
  /\ call[c] = "wait" /\ result[c] # "none"
  /\ Becomes(c, IF result[c] = "reply" THEN "replied" ELSE "failed")
  /\ pending' = IF result[c] = "gone" THEN pending \ {c} ELSE pending
  /\ UNCHANGED <<result, replies, handler, link, drained, postVars, drops>>

\* Faulty form: a call waits for its reply as long as it takes.
TimesOutNever(c) == FALSE /\ UNCHANGED talkVars

\* Faulty form: the entry stays in the table.
TimesOutKeeping(c) ==
  /\ call[c] = "wait" /\ result[c] = "none" /\ Becomes(c, "timedout")
  /\ UNCHANGED <<pending, result, replies, handler, link, drained, postVars, drops>>

\* The timeout runs only while the call waits for its reply.
TimesOut(c) ==
  /\ call[c] = "wait" /\ result[c] = "none" /\ Becomes(c, "timedout")
  /\ pending' = pending \ {c}
  /\ UNCHANGED <<result, replies, handler, link, drained, postVars, drops>>

\* The caller's future is dropped: nothing removes the entry.
DropCall(c) ==
  /\ call[c] \notin {"new"} \cup Ended /\ Becomes(c, "dropped")
  /\ drops < MaxDrops /\ drops' = drops + 1
  /\ UNCHANGED <<pending, result, replies, handler, link, drained, postVars>>

-----------------------------------------------------------------------------
(* The reply consumer. *)

\* The service answers a published request; an answer may be delivered twice.
Answer(c) ==
  /\ call[c] \notin {"new", "publish"} /\ link = "open" /\ c \notin replies
  /\ replies' = replies \cup {c}
  /\ UNCHANGED <<call, pending, result, handler, link, drained, postVars, drops>>

\* handle_rpc_reply takes the entry, or drops a reply that has none.
TakeReply(c) ==
  /\ c \in replies /\ link # "closed"
  /\ replies' = replies \ {c}
  /\ pending' = pending \ {c}
  /\ handler' = IF c \in pending THEN handler \cup {c} ELSE handler
  /\ UNCHANGED <<call, result, link, drained, postVars, drops>>

\* After the acknowledgement; or the delegate is dropped with the connection
\* and the sender with it.
SendResult(c) ==
  /\ c \in handler /\ handler' = handler \ {c}
  /\ \/ result' = [result EXCEPT ![c] = "reply"]
     \/ link = "closed" /\ result' = [result EXCEPT ![c] = "gone"]
  /\ UNCHANGED <<call, pending, replies, link, drained, postVars, drops>>

-----------------------------------------------------------------------------
(* close. *)

Close ==
  /\ link = "open" /\ link' = "closing"
  /\ UNCHANGED <<rpcVars, drained, postVars, drops>>

CloseChannel ==
  /\ link = "closing" /\ link' = "closed"
  /\ UNCHANGED <<rpcVars, drained, postVars, drops>>

\* Faulty form: the table is emptied before the channel is closed.
DrainEarly ==
  /\ link = "open" /\ ~drained /\ drained' = TRUE
  /\ result' = [c \in Call |-> IF c \in pending THEN "closed" ELSE result[c]]
  /\ pending' = {}
  /\ UNCHANGED <<call, replies, handler, link, postVars, drops>>

\* Every call in the table is failed.
Drain ==
  /\ link = "closed" /\ ~drained /\ drained' = TRUE
  /\ result' = [c \in Call |-> IF c \in pending THEN "closed" ELSE result[c]]
  /\ pending' = {}
  /\ UNCHANGED <<call, replies, handler, link, postVars, drops>>

-----------------------------------------------------------------------------
(* upload_documents_to_queue. *)

AddToQueue(r) ==
  /\ post[r] = "new" /\ post' = [post EXCEPT ![r] = "added"]
  /\ rows' = rows \cup {r}
  /\ UNCHANGED <<rpcVars, link, drained, bus, drops>>

\* talk waits for the broker to take the message.
Talk(r) ==
  /\ post[r] = "added"
  /\ \/ /\ link = "open" /\ bus' = bus \cup {r}
        /\ post' = [post EXCEPT ![r] = "ok"]
     \/ post' = [post EXCEPT ![r] = "undo"] /\ UNCHANGED bus
  /\ UNCHANGED <<rpcVars, link, drained, rows, drops>>

\* Faulty form: the error is answered and the rows stay.
TakeBackNothing(r) ==
  /\ post[r] = "undo" /\ post' = [post EXCEPT ![r] = "failed"]
  /\ UNCHANGED <<rpcVars, link, drained, rows, bus, drops>>

\* The rows of a message that could not be sent are removed; if that fails too
\* it is only logged ("stuck").
TakeBack(r) ==
  /\ post[r] = "undo"
  /\ \/ rows' = rows \ {r} /\ post' = [post EXCEPT ![r] = "failed"]
     \/ post' = [post EXCEPT ![r] = "stuck"] /\ UNCHANGED rows
  /\ UNCHANGED <<rpcVars, link, drained, bus, drops>>

DropPost(r) ==
  /\ post[r] \in {"added", "undo"} /\ post' = [post EXCEPT ![r] = "dropped"]
  /\ drops < MaxDrops /\ drops' = drops + 1
  /\ UNCHANGED <<rpcVars, link, drained, rows, bus>>

\* An announced row is processed and removed by another service.
Consume(r) ==
  /\ r \in bus \cap rows /\ rows' = rows \ {r}
  /\ UNCHANGED <<rpcVars, link, drained, post, bus, drops>>

-----------------------------------------------------------------------------
RpcStep(c) ==
  Register(c) \/ PublishFails(c) \/ PublishOk(c) \/ Confirmed(c) \/ RpcReturns(c) \/ TimesOut(c)
PostStep(r) == AddToQueue(r) \/ Talk(r) \/ TakeBack(r)

TalkRest ==
  /\ \A c \in Call : call[c] \in Ended
  /\ \A r \in Post : post[r] \notin {"new", "added", "undo"}
  /\ UNCHANGED talkVars

TalkNext ==
  \/ \E c \in Call : RpcStep(c) \/ DropCall(c) \/ Answer(c) \/ TakeReply(c) \/ SendResult(c)
  \/ Close \/ CloseChannel \/ Drain
  \/ \E r \in Post : PostStep(r) \/ DropPost(r) \/ Consume(r)
  \/ TalkRest

TalkSpec == TalkInit /\ [][TalkNext]_talkVars

-----------------------------------------------------------------------------
(* Properties. *)

\* An entry of the table belongs to a call that is still under way, or to one
\* whose caller was dropped: no ending of rpc leaves one behind.
TableIsClean == \A c \in pending : call[c] \notin Ended \ {"dropped"}

\* Once close has emptied the table, no call is left waiting for its timeout: it
\* has a result, or the consumer is about to send one.
CloseWakesEverybody ==
  drained => \A c \in Call : call[c] = "wait" => result[c] # "none" \/ c \in handler

\* A row is in the queue for a reason: its request is under way, it has been
\* announced, or its handler was dropped or could not take it back.  A request
\* that is answered with an error has left no row.
RowsAreAnnounced ==
  \A r \in rows : r \in bus \/ post[r] \in {"added", "undo", "dropped", "stuck"}

\* No ending of rpc leaves an entry in the table of pending calls; once close
\* has emptied the table every call that waits has its result; a queue row is
\* announced, or its request is under way, dropped or stuck.
MessagesAccounted ==
  TalkTypeOK /\ TableIsClean /\ CloseWakesEverybody /\ RowsAreAnnounced

\* Every rpc ends, whether or not anybody answers and whether or not the
\* connection is closed meanwhile.
EveryCallReturns == \A c \in Call : call[c] = "publish" ~> call[c] \in Ended
=============================================================================
