------------------------------ MODULE Vectorize ------------------------------
(***************************************************************************)
(* The vectors of the stored documents: which writes compute them anew and *)
(* which only replace the payload, and how the texts of a batch are        *)
(* gathered, embedded by one thread per group of vector configurations and *)
(* put back at the documents they come from.  The embedding of a text is   *)
(* the text.  Writes arrive in the order of their timestamps.              *)
(***************************************************************************)
EXTENDS Integers, FiniteSets, SequencesExt

CONSTANTS
  Id,           \* documents
  Config,       \* the vector configurations: records of `slots` and `custom`
  IndexThreads, \* index_threads()
  Content,      \* the contents documents may have: missing, empty or "x"
  Meta,         \* the metadata values documents may have
  MaxBatch      \* bound on the documents of a batch

\* What the constants satisfy.
VectorizeAssumption ==
  IndexThreads \in Nat \ {0} /\ MaxBatch \in Nat \ {0}
  /\ Config # <<>> /\ Content \subseteq {"none", "", "x"}
  /\ Meta \subseteq {"none", "x", "typed"}

\* The fields of a document. Metadata "typed" is "x" with its type beside it.
Fields == [name : {"none", "x"}, content : Content, meta : Meta]

\* Two sources of vectors: a document may bring its custom vectors, and those
\* of one slot of one configuration that would otherwise be computed.
Slot == UNION {{<<c, f>> : f \in ToSet(Config[c].slots)} : c \in DOMAIN Config}
NeedsCustom == \E c \in DOMAIN Config : Config[c].custom
Incoming == [id : Id, doc : Fields, given : {{}} \cup {{s} : s \in Slot},
             custom : {FALSE, NeedsCustom}]

VARIABLES
  storeContent,  \* store_content of the collection
  stored,        \* stored[i]: the payload of a document
  vectors,       \* vectors[i]: its vectors, by slot
  texts          \* texts[i]: the fields of its last write (what the payload leaves out included)

vars == <<storeContent, stored, vectors, texts>>

Init ==
  storeContent \in BOOLEAN /\ stored = <<>> /\ vectors = <<>> /\ texts = <<>>

-----------------------------------------------------------------------------
(* Texts. *)

Blank(t) == IF t = "none" THEN "" ELSE t

\* normalize_document_metadata_inplace
Normalized(d) == [d EXCEPT !.meta = IF @ = "typed" THEN "x" ELSE @]

\* text_for_slot: a field, or all of them rendered by the template, which is
\* empty when they are.
TextOf(d, f) ==
  CASE f = "name" -> <<Blank(d.name)>>
    [] f = "content" -> <<Blank(d.content)>>
    [] f = "template" -> <<Blank(d.name), Blank(d.content), Blank(d.meta)>>

\* The payload: the content is left out, its hash is kept, for which a missing
\* content is an empty one.
Payload(d) ==
  IF storeContent THEN Normalized(d) ELSE [Normalized(d) EXCEPT !.content = Blank(d.content)]

-----------------------------------------------------------------------------
(* Which writes need vectors. *)

Templated(c) == "template" \in ToSet(Config[c].slots)
IndexedFields == UNION {ToSet(Config[c].slots) : c \in {c \in DOMAIN Config : ~Templated(c)}}

\* The content is compared by its hash where it is not stored.
SameContent(d, old) ==
  IF storeContent THEN d.content = old.content ELSE Blank(d.content) = old.content

\* Faulty form: a template is taken to use no metadata.
NeedsRevectorizationText(w, old) ==
  \/ w.given # {} \/ w.custom
  \/ "name" \in IndexedFields /\ w.doc.name # old.name
  \/ "content" \in IndexedFields /\ ~SameContent(w.doc, old)
  \/ /\ \E c \in DOMAIN Config : Templated(c)
     /\ w.doc.name # old.name \/ ~SameContent(w.doc, old)

NeedsRevectorization(w, old) ==
  \/ w.given # {} \/ w.custom
  \/ "name" \in IndexedFields /\ w.doc.name # old.name
  \/ "content" \in IndexedFields /\ ~SameContent(w.doc, old)
  \/ /\ \E c \in DOMAIN Config : Templated(c)
     /\ w.doc.name # old.name \/ ~SameContent(w.doc, old) \/ w.doc.meta # old.meta

-----------------------------------------------------------------------------
(* The vectors of a batch. *)

\* The slots of a configuration, document by document.
Pairs(c, batch) ==
  FlattenSeq([i \in DOMAIN batch |->
    [j \in DOMAIN Config[c].slots |-> [i |-> i, f |-> Config[c].slots[j]]]])

Given(c, batch, p) == <<c, p.f>> \in batch[p.i].given

\* embed_slots: those whose text is embedded.
EmbedSlots(c, batch) == SelectSeq(Pairs(c, batch), LAMBDA p : ~Given(c, batch, p))

\* The embeddings of the texts, in the order of the texts.
Embedded(c, batch) ==
  LET todo == EmbedSlots(c, batch) IN
  [k \in DOMAIN todo |-> TextOf(Normalized(batch[todo[k].i].doc), todo[k].f)]

\* vectorize_single_config: given vectors are kept, the k-th embedding goes to
\* the k-th slot that was to embed.
VectorOf(c, batch, p) ==
  IF Config[c].custom \/ Given(c, batch, p) THEN TextOf(Normalized(batch[p.i].doc), p.f)
  ELSE Embedded(c, batch)[CHOOSE k \in DOMAIN EmbedSlots(c, batch) : EmbedSlots(c, batch)[k] = p]

\* Faulty form: configurations that do not fill a thread are forgotten.
ChunksFull ==
  LET threads == IF IndexThreads < Len(Config) THEN IndexThreads ELSE Len(Config)
      size == (Len(Config) + threads - 1) \div threads IN
  {{c \in DOMAIN Config : (c - 1) \div size = t} : t \in 0..(Len(Config) \div size - 1)}

\* The configurations of each thread.
Chunks ==
  LET threads == IF IndexThreads < Len(Config) THEN IndexThreads ELSE Len(Config)
      size == (Len(Config) + threads - 1) \div threads IN
  {{c \in DOMAIN Config : (c - 1) \div size = t} : t \in 0..((Len(Config) - 1) \div size)}

\* vectorize_documents: what the threads return, merged for each document.
VectorsOf(batch, i) ==
  [s \in {s \in Slot : s[1] \in UNION Chunks} |-> VectorOf(s[1], batch, [i |-> i, f |-> s[2]])]

-----------------------------------------------------------------------------
(* A batch of writes: document_upsert_bulk_internal on documents of distinct ids. *)

ToVectorize(batch) ==
  SelectSeq(batch, LAMBDA w : w.id \notin DOMAIN stored
                              \/ NeedsRevectorization(w, stored[w.id]))

\* A document without custom vectors fails a configuration that needs them, and
\* with it the batch; the patches are written by then.
Vectorizable(batch) ==
  NeedsCustom => \A i \in DOMAIN batch : batch[i].custom

Patched(batch) ==
  {batch[i] : i \in DOMAIN batch} \ ToSet(ToVectorize(batch))

\* What is stored after the writes of a set.
Written(ws, table, value(_)) ==
  [i \in DOMAIN table \cup {w.id : w \in ws} |->
     IF \E w \in ws : w.id = i THEN value(CHOOSE w \in ws : w.id = i) ELSE table[i]]

Upsert(batch) ==
  LET todo == ToVectorize(batch)
      place(w) == CHOOSE i \in DOMAIN todo : todo[i] = w IN
  /\ Vectorizable(todo)
  /\ stored' = Written(ToSet(batch), stored, LAMBDA w : Payload(w.doc))
  /\ texts' = Written(ToSet(batch), texts, LAMBDA w : w.doc)
  /\ vectors' = Written(ToSet(todo), vectors, LAMBDA w : VectorsOf(todo, place(w)))
  /\ UNCHANGED storeContent

\* An embedding fails, or a thread panics: only the patches are written.
UpsertFails(batch) ==
  /\ ToVectorize(batch) # <<>>
  /\ stored' = Written(Patched(batch), stored, LAMBDA w : Payload(w.doc))
  /\ texts' = Written(Patched(batch), texts, LAMBDA w : w.doc)
  /\ UNCHANGED <<storeContent, vectors>>

Batch == {b \in UNION {[1..n -> Incoming] : n \in 1..MaxBatch} :
            \A i, j \in DOMAIN b : b[i].id = b[j].id => i = j}

Next == \E batch \in Batch : Upsert(batch) \/ UpsertFails(batch)

Spec == Init /\ [][Next]_vars

-----------------------------------------------------------------------------
(* Properties. *)

\* Every vector a stored document has belongs to the text it has now: no write
\* that changes what is embedded is taken for a change of the payload, and no
\* embedding lands at another document or slot.
VectorsFresh ==
  \A i \in DOMAIN vectors : \A s \in DOMAIN vectors[i] :
    vectors[i][s] = TextOf(Normalized(texts[i]), s[2])

\* Every stored document has the vector of every slot, whatever the threads
\* are; reading the vectors of a document fails otherwise.
EverySlotStored ==
  DOMAIN stored = DOMAIN vectors /\ \A i \in DOMAIN vectors : DOMAIN vectors[i] = Slot
=============================================================================
