------------------------------- MODULE Export -------------------------------
(***************************************************************************)
(* The export of a collection: a task pages through the documents by a     *)
(* cursor and hands them to a thread that compresses them into the bounded *)
(* body of the response, while documents come and go.                      *)
(***************************************************************************)
EXTENDS Lines, FiniteSetsExt

CONSTANTS
  NumDocs,    \* documents are 1..NumDocs, in the order of their points
  PageSize,   \* MAX_DOCUMENT_FETCH_PAGE_SIZE
  BodyCap,    \* the channel to the response
  MaxWrites,  \* bound on the documents that come or go meanwhile
  CanFail     \* TRUE: a page may fail, a document may not be written as JSON

\* Pages and the body hold at least one document.
ASSUME ExportAssumption ==
  NumDocs \in Nat /\ PageSize \in Nat \ {0} /\ BodyCap \in Nat \ {0} /\ MaxWrites \in Nat
  /\ CanFail \in BOOLEAN

Doc == 1..NumDocs
End == 0  \* the closing bracket and the empty chunk

VARIABLES
  db,      \* the documents of the collection
  stable,  \* those that have been there since the export began
  task,    \* "fetching" or "ended"
  after,   \* the cursor: the first document of the next page
  plain,   \* the channel to the thread
  thread,  \* "running" or "ended"
  body,    \* the channel to the response
  client,  \* "reading" or "gone"
  read,    \* what the client has read
  failed,  \* a page or a document failed
  writes

exportVars == <<db, stable, task, after, plain, thread, body, client, read, failed, writes>>

ExportTypeOK ==
  /\ db \subseteq Doc /\ stable \subseteq db /\ task \in {"fetching", "ended"}
  /\ after \in Doc \cup {End} /\ plain \in Seq(Doc \cup {End}) /\ Len(body) <= BodyCap
  /\ thread \in {"running", "ended"} /\ body \in Seq(Doc \cup {End})
  /\ client \in {"reading", "gone"} /\ read \in Seq(Doc \cup {End})
  /\ failed \in BOOLEAN /\ writes \in 0..MaxWrites

ExportInit ==
  /\ db \in SUBSET Doc /\ stable = db /\ task = "fetching" /\ after = End
  /\ plain = <<>> /\ thread = "running" /\ body = <<>> /\ client = "reading" /\ read = <<>>
  /\ failed = FALSE /\ writes = 0

-----------------------------------------------------------------------------
(* Documents come and go. *)

WriteDocument(d) ==
  /\ task = "fetching" /\ writes < MaxWrites /\ writes' = writes + 1
  /\ db' = IF d \in db THEN db \ {d} ELSE db \cup {d}
  /\ stable' = stable \ {d}
  /\ UNCHANGED <<task, after, plain, thread, body, client, read, failed>>

-----------------------------------------------------------------------------
(* The task. *)

\* The scroll of the database, and the offset of what follows.
Left == {d \in db : d >= after}
Page == {d \in Left : Cardinality({e \in Left : e < d}) < PageSize}

\* What the thread does not take any more is dropped.
SendPlain(chunks) == plain' = IF thread = "running" THEN plain \o chunks ELSE plain

\* Without a next page the list is closed; else the cursor moves to its first
\* document, or past it.
Closing == IF Left = Page THEN <<End>> ELSE <<>>
Advance(past) ==
  /\ task' = IF Left = Page THEN "ended" ELSE task
  /\ after' = IF Left = Page THEN after ELSE Min(Left \ Page) + past

\* Faulty form: the cursor is taken for the last document of the page.
FetchPagePast ==
  /\ task = "fetching" /\ SendPlain(Ascending(Page) \o Closing)
  /\ Advance(1)
  /\ UNCHANGED <<db, stable, thread, body, client, read, failed, writes>>

FetchPage ==
  /\ task = "fetching" /\ SendPlain(Ascending(Page) \o Closing)
  /\ Advance(0)
  /\ UNCHANGED <<db, stable, thread, body, client, read, failed, writes>>

\* A document that cannot be written ends its page; the next one follows.
PageCut ==
  /\ CanFail /\ task = "fetching" /\ Page # {} /\ failed' = TRUE
  /\ \E n \in 0..(Cardinality(Page) - 1) :
       SendPlain(SubSeq(Ascending(Page), 1, n) \o Closing)
  /\ Advance(0)
  /\ UNCHANGED <<db, stable, thread, body, client, read, writes>>

\* A page that fails ends the list as if it were the last one.
FetchFails ==
  /\ CanFail /\ task = "fetching" /\ task' = "ended" /\ failed' = TRUE
  /\ SendPlain(<<End>>)
  /\ UNCHANGED <<db, stable, after, thread, body, client, read, writes>>

-----------------------------------------------------------------------------
(* The thread and the client. *)

\* The thread waits for room in the body; it stops when the client is gone.
Compress ==
  /\ thread = "running" /\ plain # <<>>
  /\ IF client = "gone"
     THEN thread' = "ended" /\ plain' = <<>> /\ UNCHANGED body
     ELSE /\ Len(body) < BodyCap /\ body' = Append(body, plain[1]) /\ plain' = Tail(plain)
          /\ thread' = IF plain[1] = End THEN "ended" ELSE thread
  /\ UNCHANGED <<db, stable, task, after, client, read, failed, writes>>

Read ==
  /\ client = "reading" /\ body # <<>>
  /\ read' = Append(read, body[1]) /\ body' = Tail(body)
  /\ UNCHANGED <<db, stable, task, after, plain, thread, client, failed, writes>>

Disconnect ==
  /\ client = "reading" /\ End \notin Range(read) /\ client' = "gone" /\ body' = <<>> /\ read' = <<>>
  /\ UNCHANGED <<db, stable, task, after, plain, thread, failed, writes>>

Ended == task = "ended" /\ thread = "ended" /\ (client = "gone" \/ End \in Range(read))
ExportRest == Ended /\ UNCHANGED exportVars

ExportNext ==
  \/ FetchPage \/ PageCut \/ FetchFails \/ Compress \/ Read \/ Disconnect \/ ExportRest
  \/ \E d \in Doc : WriteDocument(d)

ExportSpec == ExportInit /\ [][ExportNext]_exportVars

-----------------------------------------------------------------------------
(* Properties. *)

\* A list that ends has no document twice, and has every document that was
\* there all the time unless a page failed, wherever the cursor's document goes.
ExportExact ==
  /\ ExportTypeOK
  /\ End \in Range(read) => IsInjective(read) /\ (~failed => stable \subseteq Range(read))

\* Every export ends, also when the client leaves before the body is read.
ExportEnds == <>Ended
=============================================================================
