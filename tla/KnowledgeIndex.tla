--------------------------- MODULE KnowledgeIndex ---------------------------
(***************************************************************************)
(* The knowledge base: documents in MySQL (services/knowledge_admin.py),   *)
(* index generations built from them in Chroma, and retrievals that follow *)
(* the pointer to the active one (services/knowledge_service.py).  A       *)
(* document is one chunk; embeddings, scores and categories, which choose  *)
(* among the hits, are left out, and a generation is a number instead of   *)
(* the time it was named at.                                               *)
(*                                                                         *)
(* A rebuild and a retrieval are transactions of their own, which read     *)
(* MySQL as of their first query (REPEATABLE READ).                        *)
(***************************************************************************)
EXTENDS Integers, Sequences, FiniteSets

CONSTANTS Contents,      \* cleaned texts
          Uploads,       \* ingestion requests
          Rebuilders,    \* rebuild requests
          Readers,       \* retrievals
          NoIndex, Idle,
          MaxDocuments, MaxEdits, MaxRebuilds  \* bounds

VARIABLES documents,    \* the rows, in the order of their ids
          edits,        \* updates so far
          uploads,      \* progress of each ingestion
          eventLoop,    \* the ingestion that is on the event loop
          chunks, index,\* committed chunks and the pointer row
          collections,  \* Chroma: the chunks each generation accepted
          rebuilds, raced,
          reads         \* progress and answer of each retrieval

docVars == <<documents, edits, uploads, eventLoop>>
indexVars == <<chunks, index, collections, rebuilds, raced>>
vars == <<docVars, indexVars, reads>>

Generations == Nat \ {0}
Documents == [content : Contents, active : BOOLEAN, uploaded : BOOLEAN, edited : BOOLEAN]
Chunks == [generation : Generations, document : Generations, content : Contents]
Texts == [document : Generations, content : Contents]
Indexes == [generation : Generations, count : Nat]
Ingestions == [stage : {"new", "done"}, content : {Idle}]
                \cup [stage : {"checked"}, content : Contents]
Rebuilds == [stage : {"read", "created", "added"}, base : Indexes \cup {NoIndex},
             generation : Nat, texts : SUBSET Texts]
Reads == [stage : {"pointer", "hits", "done"}, index : Indexes \cup {NoIndex},
          hits : SUBSET Chunks, answer : SUBSET Chunks]

ASSUME SentinelAssumption == /\ NoIndex \notin Indexes
                             /\ Idle \notin Rebuilds \cup Reads \cup Uploads
ASSUME BoundAssumption == MaxDocuments \in Nat /\ MaxEdits \in Nat /\ MaxRebuilds \in Nat

\* Rows, collections and requests in progress are well formed.
TypeOK ==
    /\ documents \in Seq(Documents)
    /\ edits \in Nat
    /\ uploads \in [Uploads -> Ingestions]
    /\ eventLoop \in Uploads \cup {Idle}
    /\ chunks \in SUBSET Chunks
    /\ index \in Indexes \cup {NoIndex}
    /\ collections \in Seq(SUBSET Chunks)
    /\ rebuilds \in [Rebuilders -> Rebuilds \cup {Idle}]
    /\ raced \in BOOLEAN
    /\ reads \in [Readers -> Reads \cup {Idle}]

Init ==
    /\ documents = << >> /\ edits = 0
    /\ uploads = [u \in Uploads |-> [stage |-> "new", content |-> Idle]]
    /\ eventLoop = Idle
    /\ chunks = {} /\ index = NoIndex
    /\ collections = << >>
    /\ rebuilds = [r \in Rebuilders |-> Idle]
    /\ raced = FALSE
    /\ reads = [q \in Readers |-> Idle]

-----------------------------------------------------------------------------
(* Documents.                                                              *)

Text(docs, d) == [document |-> d, content |-> docs[d].content]

\* A variant of the selection that forgets to filter drafts.
EveryDocument(docs) == DOMAIN docs

ActiveDocuments(docs) == {d \in DOMAIN docs : docs[d].active}

Insert(doc) ==
    /\ Len(documents) < MaxDocuments
    /\ documents' = Append(documents, doc)

CreateDocument(content, active) ==
    /\ Insert([content |-> content, active |-> active, uploaded |-> FALSE, edited |-> FALSE])
    /\ UNCHANGED <<edits, uploads, eventLoop, indexVars, reads>>

\* A variant in which ingestions run in the thread pool like other requests.
FreeToIngest(loop) == TRUE

\* ingest_document does not yield the event loop once the file is read: no
\* other ingestion starts between its check and its insert.
MayIngest(loop) == loop = Idle

Ingested == [stage |-> "done", content |-> Idle]

\* A duplicate, like an invalid title or category, is refused.
CheckDuplicate(u, text) ==
    /\ uploads[u].stage = "new" /\ MayIngest(eventLoop)
    /\ \/ uploads' = [uploads EXCEPT ![u] = Ingested] /\ UNCHANGED eventLoop
       \/ /\ \A d \in DOMAIN documents : documents[d].content # text
          /\ uploads' = [uploads EXCEPT ![u] = [stage |-> "checked", content |-> text]]
          /\ eventLoop' = u
    /\ UNCHANGED <<documents, edits, indexVars, reads>>

InsertDraft(u) ==
    /\ uploads[u].stage = "checked"
    /\ Insert([content |-> uploads[u].content, active |-> FALSE,
               uploaded |-> TRUE, edited |-> FALSE])
    /\ uploads' = [uploads EXCEPT ![u] = Ingested]
    /\ eventLoop' = Idle
    /\ UNCHANGED <<edits, indexVars, reads>>

UpdateDocument(d, content, active) ==
    /\ edits < MaxEdits /\ edits' = edits + 1
    /\ documents' = [documents EXCEPT ![d] =
           [content |-> content, active |-> active, uploaded |-> documents[d].uploaded,
            edited |-> (documents[d].edited \/ content # documents[d].content)]]
    /\ UNCHANGED <<uploads, eventLoop, indexVars, reads>>

-----------------------------------------------------------------------------
(* A rebuild: the documents are read, a collection is created and filled,  *)
(* and chunks and pointer are committed together.                          *)

ReadDocuments(r) ==
    /\ rebuilds[r] = Idle /\ Len(collections) < MaxRebuilds
    /\ rebuilds' = [rebuilds EXCEPT ![r] =
           [stage |-> "read", base |-> index, generation |-> 0,
            texts |-> {Text(documents, d) : d \in ActiveDocuments(documents)}]]
    /\ UNCHANGED <<docVars, chunks, index, collections, raced, reads>>

CreateCollection(r) ==
    /\ rebuilds[r] # Idle /\ rebuilds[r].stage = "read"
    /\ Len(collections) < MaxRebuilds
    /\ collections' = Append(collections, {})
    /\ rebuilds' = [rebuilds EXCEPT ![r] =
           [@ EXCEPT !.stage = "created", !.generation = Len(collections) + 1]]
    /\ UNCHANGED <<docVars, chunks, index, raced, reads>>

\* The rows of a rebuild, uncommitted until the pointer moves.
Rows(rebuild) == {[generation |-> rebuild.generation, document |-> t.document,
                   content |-> t.content] : t \in rebuild.texts}

AddEmbeddings(r) ==
    /\ rebuilds[r] # Idle /\ rebuilds[r].stage = "created"
    /\ collections' = [collections EXCEPT ![rebuilds[r].generation] = Rows(rebuilds[r])]
    /\ rebuilds' = [rebuilds EXCEPT ![r].stage = "added"]
    /\ UNCHANGED <<docVars, chunks, index, raced, reads>>

\* A variant that moves the pointer before Chroma accepted the embeddings.
SwitchWhenCreated(rebuild) == rebuild.stage = "created"

MaySwitch(rebuild) == rebuild.stage = "added"

\* A variant that writes the count only with the first pointer.
CountAtInsert(base, row, count) == IF base = NoIndex THEN count ELSE row.count

\* The session writes only what differs from the row it read, its base.
CountWritten(base, row, count) ==
    IF base = NoIndex \/ base.count # count THEN count ELSE row.count

\* Without a base the pointer is inserted, which fails when there is one by
\* now.
SwitchPointer(r) ==
    LET rebuild == rebuilds[r] IN
    /\ rebuild # Idle /\ MaySwitch(rebuild)
    /\ rebuild.base = NoIndex => index = NoIndex
    /\ chunks' = chunks \cup Rows(rebuild)
    /\ index' = [generation |-> rebuild.generation,
                 count |-> CountWritten(rebuild.base, index, Cardinality(rebuild.texts))]
    /\ raced' = (raced \/ rebuild.base # index)
    /\ rebuilds' = [rebuilds EXCEPT ![r] = Idle]
    /\ UNCHANGED <<docVars, collections, reads>>

\* Any step may raise: the transaction is rolled back, and a collection that
\* was created stays.
FailRebuild(r) ==
    /\ rebuilds[r] # Idle
    /\ rebuilds' = [rebuilds EXCEPT ![r] = Idle]
    /\ UNCHANGED <<docVars, chunks, index, collections, raced, reads>>

-----------------------------------------------------------------------------
(* A retrieval.                                                            *)

ReadPointer(q) ==
    /\ reads[q] = Idle
    /\ reads' = [reads EXCEPT ![q] =
           [stage |-> "pointer", index |-> index, hits |-> {}, answer |-> {}]]
    /\ UNCHANGED <<docVars, indexVars>>

\* Without an index the configured name is asked for, which nobody creates.
QueryCollection(q) ==
    /\ reads[q] # Idle /\ reads[q].stage = "pointer"
    /\ LET pointer == reads[q].index IN
       reads' = [reads EXCEPT ![q] =
           [@ EXCEPT !.stage = "hits",
                     !.hits = IF pointer = NoIndex THEN {}
                              ELSE collections[pointer.generation]]]
    /\ UNCHANGED <<docVars, indexVars>>

\* A variant that looks the pointer up again for the rows.
CurrentIndex(read, now) == now

IndexOf(read, now) == read.index

FetchRows(q) ==
    /\ reads[q] # Idle /\ reads[q].stage = "hits"
    /\ LET pointer == IndexOf(reads[q], index) IN
       reads' = [reads EXCEPT ![q] =
           [@ EXCEPT !.stage = "done",
                     !.answer = {c \in chunks : /\ c \in reads[q].hits
                                                /\ c.generation = pointer.generation}]]
    /\ UNCHANGED <<docVars, indexVars>>

\* A vector outage, or the end of the request: nothing is kept.
EndRead(q) ==
    /\ reads[q] # Idle
    /\ reads' = [reads EXCEPT ![q] = Idle]
    /\ UNCHANGED <<docVars, indexVars>>

-----------------------------------------------------------------------------
Documentation ==
    \/ \E content \in Contents, active \in BOOLEAN : CreateDocument(content, active)
    \/ \E u \in Uploads, text \in Contents : CheckDuplicate(u, text)
    \/ \E u \in Uploads : InsertDraft(u)
    \/ \E d \in DOMAIN documents, content \in Contents, active \in BOOLEAN :
          UpdateDocument(d, content, active)

Rebuild(r) ==
    \/ ReadDocuments(r) \/ CreateCollection(r) \/ AddEmbeddings(r)
    \/ SwitchPointer(r) \/ FailRebuild(r)

Retrieve(q) == ReadPointer(q) \/ QueryCollection(q) \/ FetchRows(q) \/ EndRead(q)

Next ==
    \/ Documentation
    \/ \E r \in Rebuilders : Rebuild(r)
    \/ \E q \in Readers : Retrieve(q)

Spec == Init /\ [][Next]_vars

-----------------------------------------------------------------------------
(* Properties.                                                             *)

ChunksOf(generation) == {c \in chunks : c.generation = generation}

\* Whatever rebuilds overlap or fail half-way, the active generation exists
\* in Chroma and holds exactly the chunks that MySQL has for it
\* (reindex_knowledge moves the pointer last).
PointerIsComplete ==
    index # NoIndex =>
        /\ index.generation \in DOMAIN collections
        /\ collections[index.generation] = ChunksOf(index.generation)

\* A retrieval that overlaps a rebuild answers from one generation, and every
\* hit of Chroma has its row in MySQL (retrieve_knowledge).
AnswerIsWhole ==
    \A q \in Readers : reads[q] # Idle => (reads[q].stage = "done" =>
        /\ reads[q].answer = reads[q].hits
        /\ \A c \in reads[q].answer : c.generation = reads[q].index.generation)

\* Two uploads of one text, at the same time or not, make one document, as
\* long as nobody edits them (ingest_document checks, then inserts).
UploadsAreUnique ==
    \A d, e \in DOMAIN documents :
        LET Original(n) == documents[n].uploaded /\ ~documents[n].edited IN
        d # e /\ Original(d) /\ Original(e) => documents[d].content # documents[e].content

\* Unless rebuilds overlapped, the pointer's counts are those of its own
\* generation, although the session writes only values that differ from those
\* it read.
CountFitsIndex ==
    index # NoIndex /\ ~raced => index.count = Cardinality(ChunksOf(index.generation))

-----------------------------------------------------------------------------
(* The abstract index that the two stores and their pointer implement.     *)

TextsOf(cs) == {[document |-> c.document, content |-> c.content] : c \in cs}
TextsAt(pointer) == IF pointer = NoIndex THEN {} ELSE TextsOf(ChunksOf(pointer.generation))

Active == {Text(documents, d) : d \in {e \in DOMAIN documents : documents[e].active}}
Held(rebuild) == IF rebuild = Idle THEN [open |-> FALSE, texts |-> {}]
                 ELSE [open |-> TRUE, texts |-> rebuild.texts]
Seen(read) ==
    IF read = Idle THEN [stage |-> "none", texts |-> {}]
    ELSE IF read.stage = "done" THEN [stage |-> "answered", texts |-> TextsOf(read.answer)]
    ELSE [stage |-> "looking", texts |-> TextsAt(read.index)]

Taken == [r \in Rebuilders |-> Held(rebuilds[r])]
Views == [q \in Readers |-> Seen(reads[q])]

Atomic == INSTANCE AtomicIndex WITH
    active <- Active, taken <- Taken, served <- TextsAt(index), views <- Views

\* Rebuilds and retrievals behave as if each index were replaced at once by
\* all texts active at one moment, and each retrieval saw the index it began
\* with, although both work on two stores step by step while edits go on: no
\* draft, no mixture of old and new documents is ever served.
IndexIsAtomic == Atomic!Spec
=============================================================================
