------------------------ MODULE KnowledgeIndexProofs ------------------------
(***************************************************************************)
(* Theorems about KnowledgeIndex for any number of documents, rebuilds and *)
(* retrievals.                                                             *)
(***************************************************************************)
EXTENDS KnowledgeIndex, FiniteSetTheorems, SequenceTheorems, TLAPS

\* A rebuild that has named its generation.
Building(r) == rebuilds[r] # Idle /\ rebuilds[r].stage # "read"

\* A generation that no rebuild writes to any more.
Sealed(g) ==
    /\ g \in DOMAIN collections
    /\ collections[g] = ChunksOf(g)
    /\ \A r \in Rebuilders : Building(r) => rebuilds[r].generation # g

\* A rebuild owns its generation: nobody else writes to it, and no chunk of it
\* is committed before the pointer moves.
RebuildsAreSeparate ==
    /\ \A r \in Rebuilders : Building(r) =>
          /\ rebuilds[r].generation \in DOMAIN collections
          /\ ChunksOf(rebuilds[r].generation) = {}
          /\ rebuilds[r].stage = "added" =>
                collections[rebuilds[r].generation] = Rows(rebuilds[r])
    /\ \A r, s \in Rebuilders : r # s /\ Building(r) /\ Building(s) =>
          rebuilds[r].generation # rebuilds[s].generation
    /\ \A c \in chunks : c.generation \in DOMAIN collections

\* There are only finitely many texts to index, and a pointer that a rebuild
\* has read is still there, moved or not.
RebuildsAreSound ==
    \A r \in Rebuilders : rebuilds[r] # Idle =>
        /\ IsFiniteSet(rebuilds[r].texts)
        /\ rebuilds[r].base # NoIndex => index # NoIndex

\* The pointer, and every pointer a retrieval still follows, is sealed.
PointersAreSealed ==
    /\ index # NoIndex => Sealed(index.generation)
    /\ \A q \in Readers : reads[q] # Idle =>
          /\ reads[q].index # NoIndex => Sealed(reads[q].index.generation)
          /\ reads[q].stage # "pointer" =>
                reads[q].hits = IF reads[q].index = NoIndex THEN {}
                                ELSE ChunksOf(reads[q].index.generation)

IndexInv ==
    /\ TypeOK
    /\ RebuildsAreSound
    /\ RebuildsAreSeparate
    /\ PointersAreSealed
    /\ AnswerIsWhole

\* The first document is still to be written.
LEMMA InitInv == Init => IndexInv
<1>. SUFFICES ASSUME Init PROVE IndexInv
  OBVIOUS
<1>1. TypeOK
  <2>1. documents \in Seq(Documents) /\ collections \in Seq(SUBSET Chunks)
    BY DEF Init
  <2>. QED
    BY <2>1 DEF Init, TypeOK, Ingestions
<1>2. RebuildsAreSound /\ RebuildsAreSeparate
  BY DEF Init, RebuildsAreSound, RebuildsAreSeparate, Building
<1>3. PointersAreSealed /\ AnswerIsWhole
  BY DEF Init, PointersAreSealed, AnswerIsWhole
<1>. QED
  BY <1>1, <1>2, <1>3 DEF IndexInv

\* The text of a row is well formed.
LEMMA TextType ==
    ASSUME NEW docs \in Seq(Documents), NEW d \in DOMAIN docs
    PROVE  Text(docs, d) \in Texts
<1>1. docs[d] \in Documents /\ d \in Generations
  BY DEF Generations
<1>. QED
  BY <1>1 DEF Text, Texts, Documents

\* Operations on documents keep the rows well formed.
LEMMA DocumentationType == TypeOK /\ Documentation => TypeOK'
<1>. SUFFICES ASSUME TypeOK, Documentation PROVE TypeOK'
  OBVIOUS
<1>1. ASSUME NEW content \in Contents, NEW active \in BOOLEAN, CreateDocument(content, active)
      PROVE  TypeOK'
  <2>1. documents' \in Seq(Documents)
    BY <1>1 DEF CreateDocument, Insert, Documents, TypeOK
  <2>. QED
    BY <1>1, <2>1 DEF CreateDocument, TypeOK, indexVars
<1>2. ASSUME NEW u \in Uploads, NEW text \in Contents, CheckDuplicate(u, text) PROVE TypeOK'
  BY <1>2 DEF CheckDuplicate, TypeOK, Ingestions, Ingested, indexVars
<1>3. ASSUME NEW u \in Uploads, InsertDraft(u) PROVE TypeOK'
  <2>1. uploads[u].content \in Contents
    BY <1>3 DEF InsertDraft, TypeOK, Ingestions
  <2>2. documents' \in Seq(Documents)
    BY <1>3, <2>1 DEF InsertDraft, Insert, Documents, TypeOK
  <2>. QED
    BY <1>3, <2>2 DEF InsertDraft, TypeOK, Ingestions, Ingested, indexVars
<1>4. ASSUME NEW d \in DOMAIN documents, NEW content \in Contents, NEW active \in BOOLEAN,
             UpdateDocument(d, content, active)
      PROVE  TypeOK'
  <2>1. documents[d] \in Documents
    BY DEF TypeOK
  <2>2. documents' \in Seq(Documents)
    BY <1>4, <2>1 DEF UpdateDocument, TypeOK, Documents
  <2>. QED
    BY <1>4, <2>2 DEF UpdateDocument, TypeOK, indexVars
<1>. QED
  BY <1>1, <1>2, <1>3, <1>4 DEF Documentation

\* Rows of a named generation are well formed.
LEMMA RowsType ==
    ASSUME NEW rebuild \in Rebuilds, rebuild.generation \in Generations
    PROVE  Rows(rebuild) \in SUBSET Chunks
BY DEF Rows, Rebuilds, Chunks, Texts

\* The row that a rebuild writes is an index.
LEMMA SwitchedIndex ==
    ASSUME TypeOK, RebuildsAreSound, RebuildsAreSeparate, NEW r \in Rebuilders, SwitchPointer(r)
    PROVE  index' \in Indexes
<1>1. rebuilds[r].generation \in Generations /\ rebuilds[r] \in Rebuilds
  BY DEF SwitchPointer, MaySwitch, RebuildsAreSeparate, Building, TypeOK, Generations
<1>2. Cardinality(rebuilds[r].texts) \in Nat
  BY FS_CardinalityType DEF SwitchPointer, RebuildsAreSound
<1>3. CountWritten(rebuilds[r].base, index, Cardinality(rebuilds[r].texts)) \in Nat
  BY <1>1, <1>2, SentinelAssumption
     DEF SwitchPointer, CountWritten, TypeOK, Rebuilds, Indexes, RebuildsAreSound
<1>. QED
  BY <1>1, <1>3 DEF SwitchPointer, Indexes

\* Steps of rebuilds and retrievals keep types.
LEMMA RebuildType ==
    ASSUME TypeOK, RebuildsAreSound, RebuildsAreSeparate, NEW r \in Rebuilders, Rebuild(r)
    PROVE  TypeOK'
<1>1. CASE ReadDocuments(r)
  <2>1. {Text(documents, d) : d \in ActiveDocuments(documents)} \in SUBSET Texts
    BY TextType DEF TypeOK, ActiveDocuments
  <2>. QED
    BY <1>1, <2>1 DEF ReadDocuments, TypeOK, Rebuilds, docVars
<1>2. CASE CreateCollection(r)
  <2>1. collections' \in Seq(SUBSET Chunks) /\ Len(collections) + 1 \in Nat
    BY <1>2 DEF CreateCollection, TypeOK
  <2>3. rebuilds' \in [Rebuilders -> Rebuilds \cup {Idle}]
    BY <1>2, <2>1 DEF CreateCollection, TypeOK, Rebuilds
  <2>. QED
    BY <1>2, <2>1, <2>3 DEF CreateCollection, TypeOK, docVars
<1>3. CASE AddEmbeddings(r)
  <2>1. Rows(rebuilds[r]) \in SUBSET Chunks
    <3>1. rebuilds[r] \in Rebuilds
      BY <1>3 DEF AddEmbeddings, TypeOK
    <3>2. rebuilds[r].generation \in Generations
      BY <1>3, <3>1 DEF AddEmbeddings, RebuildsAreSeparate, Building, TypeOK, Generations
    <3>. QED
      BY <3>1, <3>2, RowsType
  <2>2. collections' \in Seq(SUBSET Chunks)
    BY <1>3, <2>1, ExceptSeq, LenProperties
       DEF AddEmbeddings, TypeOK, RebuildsAreSeparate, Building
  <2>3. rebuilds' \in [Rebuilders -> Rebuilds \cup {Idle}]
    BY <1>3 DEF AddEmbeddings, TypeOK, Rebuilds
  <2>. QED
    BY <1>3, <2>2, <2>3 DEF AddEmbeddings, TypeOK, docVars
<1>4. CASE SwitchPointer(r)
  <2>1. rebuilds[r].generation \in Generations /\ rebuilds[r] \in Rebuilds
    BY <1>4 DEF SwitchPointer, MaySwitch, RebuildsAreSeparate, Building, TypeOK, Generations
  <2>2. Rows(rebuilds[r]) \in SUBSET Chunks
    BY <2>1, RowsType
  <2>. QED
    BY <1>4, <2>2, SwitchedIndex DEF SwitchPointer, TypeOK, docVars
<1>5. CASE FailRebuild(r)
  BY <1>5 DEF FailRebuild, TypeOK, docVars
<1>. QED
  BY <1>1, <1>2, <1>3, <1>4, <1>5 DEF Rebuild

LEMMA RetrieveType ==
    ASSUME TypeOK, PointersAreSealed, NEW q \in Readers, Retrieve(q) PROVE TypeOK'
<1>. USE DEF TypeOK, Reads, docVars, indexVars
<1>1. CASE ReadPointer(q)
  BY <1>1 DEF ReadPointer
<1>2. CASE QueryCollection(q)
  <2>1. reads[q].index # NoIndex => collections[reads[q].index.generation] \in SUBSET Chunks
    BY <1>2 DEF QueryCollection, PointersAreSealed, Sealed, ChunksOf
  <2>2. [reads[q] EXCEPT !.stage = "hits",
                         !.hits = IF reads[q].index = NoIndex THEN {}
                                  ELSE collections[reads[q].index.generation]] \in Reads
    BY <1>2, <2>1 DEF QueryCollection
  <2>. QED
    BY <1>2, <2>2 DEF QueryCollection
<1>3. CASE FetchRows(q)
  BY <1>3 DEF FetchRows, IndexOf
<1>4. CASE EndRead(q)
  BY <1>4 DEF EndRead
<1>. QED
  BY <1>1, <1>2, <1>3, <1>4 DEF Retrieve

-----------------------------------------------------------------------------
(* A rebuild leaves sealed generations alone.                              *)

\* No step of a rebuild touches a sealed generation.
LEMMA SealedStays ==
    ASSUME TypeOK, RebuildsAreSeparate, NEW r \in Rebuilders, Rebuild(r), NEW g, Sealed(g)
    PROVE  Sealed(g)' /\ ChunksOf(g)' = ChunksOf(g)
<1>1. CASE ReadDocuments(r)
  BY <1>1 DEF ReadDocuments, Sealed, Building, ChunksOf, TypeOK
<1>2. CASE CreateCollection(r)
  <2>1. /\ g \in DOMAIN collections' /\ collections'[g] = collections[g]
        /\ g # Len(collections) + 1
    BY <1>2 DEF CreateCollection, Sealed, TypeOK
  <2>2. ASSUME NEW s \in Rebuilders, Building(s)' PROVE rebuilds'[s].generation # g
    BY <1>2, <2>1, <2>2 DEF CreateCollection, Sealed, Building, TypeOK, Rebuilds
  <2>. QED
    BY <1>2, <2>1, <2>2 DEF CreateCollection, Sealed, ChunksOf
<1>3. CASE AddEmbeddings(r)
  <2>1. rebuilds[r].generation # g
    BY <1>3 DEF AddEmbeddings, Sealed, Building
  <2>2. g \in DOMAIN collections' /\ collections'[g] = collections[g]
    BY <1>3, <2>1 DEF AddEmbeddings, Sealed, TypeOK
  <2>3. ASSUME NEW s \in Rebuilders, Building(s)' PROVE rebuilds'[s].generation # g
    BY <1>3, <2>1, <2>3 DEF AddEmbeddings, Sealed, Building, TypeOK, Rebuilds
  <2>. QED
    BY <1>3, <2>2, <2>3 DEF AddEmbeddings, Sealed, ChunksOf
<1>4. CASE SwitchPointer(r)
  <2>1. rebuilds[r].generation # g
    BY <1>4 DEF SwitchPointer, MaySwitch, Sealed, Building
  <2>2. ChunksOf(g)' = ChunksOf(g)
    BY <1>4, <2>1 DEF SwitchPointer, ChunksOf, Rows
  <2>3. ASSUME NEW s \in Rebuilders, Building(s)' PROVE rebuilds'[s].generation # g
    BY <1>4, <2>3 DEF SwitchPointer, Sealed, Building, TypeOK
  <2>. QED
    BY <1>4, <2>2, <2>3 DEF SwitchPointer, Sealed
<1>5. CASE FailRebuild(r)
  BY <1>5 DEF FailRebuild, Sealed, Building, ChunksOf, TypeOK
<1>. QED
  BY <1>1, <1>2, <1>3, <1>4, <1>5 DEF Rebuild

\* The rows a rebuild reads are finitely many.
LEMMA ActiveTextsAreFinite ==
    TypeOK => IsFiniteSet({Text(documents, d) : d \in ActiveDocuments(documents)})
<1>. SUFFICES ASSUME TypeOK
              PROVE  IsFiniteSet({Text(documents, d) : d \in ActiveDocuments(documents)})
  OBVIOUS
<1>. DEFINE T == {Text(documents, d) : d \in ActiveDocuments(documents)}
            f == [d \in ActiveDocuments(documents) |-> Text(documents, d)]
<1>1. IsFiniteSet(1 .. Len(documents)) /\ Len(documents) \in Nat
  BY FS_Interval, LenProperties DEF TypeOK
<1>2. IsFiniteSet(ActiveDocuments(documents))
  BY <1>1, FS_Subset, LenProperties DEF ActiveDocuments, TypeOK
<1>3. f \in Surjection(ActiveDocuments(documents), T)
  BY DEF Surjection
<1>. QED
  BY <1>2, <1>3, FS_Surjection

LEMMA RebuildSound ==
    ASSUME TypeOK, RebuildsAreSound, RebuildsAreSeparate, NEW r \in Rebuilders, Rebuild(r)
    PROVE  RebuildsAreSound'
<1>1. CASE ReadDocuments(r)
  BY <1>1, ActiveTextsAreFinite DEF ReadDocuments, RebuildsAreSound, TypeOK
<1>2. CASE CreateCollection(r)
  BY <1>2 DEF CreateCollection, RebuildsAreSound, TypeOK, Rebuilds
<1>3. CASE AddEmbeddings(r)
  BY <1>3 DEF AddEmbeddings, RebuildsAreSound, TypeOK, Rebuilds
<1>4. CASE SwitchPointer(r)
  <2>1. index' # NoIndex
    BY <1>4, SwitchedIndex, SentinelAssumption
  <2>. QED
    BY <1>4, <2>1 DEF SwitchPointer, RebuildsAreSound, TypeOK
<1>5. CASE FailRebuild(r)
  BY <1>5 DEF FailRebuild, RebuildsAreSound, TypeOK
<1>. QED
  BY <1>1, <1>2, <1>3, <1>4, <1>5 DEF Rebuild

\* Rebuilds keep out of one another's generation.
LEMMA RebuildSeparate ==
    ASSUME TypeOK, RebuildsAreSeparate, NEW r \in Rebuilders, Rebuild(r)
    PROVE  RebuildsAreSeparate'
<1>. USE DEF RebuildsAreSeparate, Building, ChunksOf, TypeOK
<1>1. CASE ReadDocuments(r)
  BY <1>1 DEF ReadDocuments
<1>2. CASE CreateCollection(r)
  <2>. DEFINE g == Len(collections) + 1
  <2>1. /\ DOMAIN collections' = DOMAIN collections \cup {g}
        /\ \A h \in DOMAIN collections : collections'[h] = collections[h]
        /\ g \notin DOMAIN collections
    BY <1>2 DEF CreateCollection
  <2>2. /\ rebuilds'[r].stage = "created" /\ rebuilds'[r].generation = g
        /\ \A s \in Rebuilders : s # r => rebuilds'[s] = rebuilds[s]
    BY <1>2 DEF CreateCollection, Rebuilds
  <2>3. ChunksOf(g) = {}
    BY <2>1
  <2>4. chunks' = chunks
    BY <1>2 DEF CreateCollection
  <2>5. ASSUME NEW s \in Rebuilders, Building(s)'
        PROVE  /\ rebuilds'[s].generation \in DOMAIN collections'
               /\ ChunksOf(rebuilds[s].generation)' = {}
               /\ rebuilds'[s].stage = "added" =>
                     collections'[rebuilds'[s].generation] = Rows(rebuilds'[s])
    BY <2>1, <2>2, <2>3, <2>4, <2>5
  <2>6. \A s, t \in Rebuilders : s # t /\ Building(s)' /\ Building(t)' =>
           rebuilds'[s].generation # rebuilds'[t].generation
    BY <2>1, <2>2
  <2>. QED
    BY <2>1, <2>4, <2>5, <2>6
<1>3. CASE AddEmbeddings(r)
  <2>. DEFINE g == rebuilds[r].generation
  <2>1. g \in DOMAIN collections
    BY <1>3 DEF AddEmbeddings
  <2>2. /\ DOMAIN collections' = DOMAIN collections
        /\ collections'[g] = Rows(rebuilds[r])
        /\ \A h \in DOMAIN collections : h # g => collections'[h] = collections[h]
    BY <1>3, <2>1 DEF AddEmbeddings
  <2>3. /\ rebuilds'[r].generation = g /\ rebuilds'[r].texts = rebuilds[r].texts
        /\ \A s \in Rebuilders : s # r => rebuilds'[s] = rebuilds[s]
        /\ Building(r)
    BY <1>3 DEF AddEmbeddings, Rebuilds
  <2>4. chunks' = chunks
    BY <1>3 DEF AddEmbeddings
  <2>5. Rows(rebuilds'[r]) = Rows(rebuilds[r])
    BY <2>3 DEF Rows
  <2>6. ASSUME NEW s \in Rebuilders, Building(s)' PROVE Building(s)
    BY <2>3, <2>6
  <2>7. ASSUME NEW s \in Rebuilders, Building(s)'
        PROVE  /\ rebuilds'[s].generation \in DOMAIN collections'
               /\ ChunksOf(rebuilds[s].generation)' = {}
               /\ rebuilds'[s].stage = "added" =>
                     collections'[rebuilds'[s].generation] = Rows(rebuilds'[s])
    <3>1. CASE s = r
      BY <2>1, <2>2, <2>3, <2>4, <2>5, <3>1
    <3>2. CASE s # r
      <4>1. rebuilds'[s] = rebuilds[s] /\ Building(s) /\ rebuilds[s].generation # g
        BY <2>3, <2>6, <2>7, <3>2
      <4>. QED
        BY <2>2, <2>4, <4>1
    <3>. QED
      BY <3>1, <3>2
  <2>8. \A s, t \in Rebuilders : s # t /\ Building(s)' /\ Building(t)' =>
           rebuilds'[s].generation # rebuilds'[t].generation
    <3>1. \A s \in Rebuilders : rebuilds'[s].generation = rebuilds[s].generation
      BY <2>3
    <3>. QED
      BY <2>6, <3>1
  <2>9. \A c \in chunks' : c.generation \in DOMAIN collections'
    BY <2>2, <2>4
  <2>. QED
    BY <2>7, <2>8, <2>9
<1>4. CASE SwitchPointer(r)
  BY <1>4 DEF SwitchPointer, MaySwitch, Rows
<1>5. CASE FailRebuild(r)
  BY <1>5 DEF FailRebuild
<1>. QED
  BY <1>1, <1>2, <1>3, <1>4, <1>5 DEF Rebuild

\* The pointer moves to a generation that is complete, and everybody else's
\* stays so.
LEMMA RebuildSealed ==
    ASSUME TypeOK, RebuildsAreSeparate, PointersAreSealed, NEW r \in Rebuilders, Rebuild(r)
    PROVE  PointersAreSealed'
<1>1. reads' = reads
  BY DEF Rebuild, ReadDocuments, CreateCollection, AddEmbeddings, SwitchPointer, FailRebuild
<1>2. index' # NoIndex => Sealed(index.generation)'
  <2>1. CASE SwitchPointer(r)
    <3>1. PICK g : g = rebuilds[r].generation
      OBVIOUS
    <3>2. Building(r) /\ rebuilds[r].stage = "added"
      BY <2>1 DEF SwitchPointer, MaySwitch, Building
    <3>3. index'.generation = g
      BY <2>1, <3>1 DEF SwitchPointer
    <3>4. g \in DOMAIN collections' /\ collections'[g] = Rows(rebuilds[r])
      BY <2>1, <3>1, <3>2 DEF SwitchPointer, RebuildsAreSeparate
    <3>5. ChunksOf(g)' = Rows(rebuilds[r])
      <4>1. ChunksOf(g) = {} /\ chunks' = chunks \cup Rows(rebuilds[r])
        BY <2>1, <3>1, <3>2 DEF SwitchPointer, RebuildsAreSeparate
      <4>2. \A c \in Rows(rebuilds[r]) : c.generation = g
        BY <3>1 DEF Rows
      <4>. QED
        BY <4>1, <4>2 DEF ChunksOf
    <3>6. \A s \in Rebuilders : Building(s)' => rebuilds'[s].generation # g
      BY <2>1, <3>1, <3>2 DEF SwitchPointer, RebuildsAreSeparate, Building, TypeOK
    <3>7. Sealed(g)'
      BY <3>4, <3>5, <3>6 DEF Sealed
    <3>. QED
      BY <3>3, <3>7 DEF Sealed, ChunksOf
  <2>2. CASE ~ SwitchPointer(r)
    <3>1. index' = index
      BY <2>2 DEF Rebuild, ReadDocuments, CreateCollection, AddEmbeddings, FailRebuild
    <3>2. PICK g : g = index.generation
      OBVIOUS
    <3>3. index # NoIndex => Sealed(g)'
      BY <3>2, SealedStays DEF PointersAreSealed
    <3>. QED
      BY <3>1, <3>2, <3>3 DEF Sealed, ChunksOf
  <2>. QED
    BY <2>1, <2>2
<1>3. ASSUME NEW q \in Readers, reads[q] # Idle, reads[q].index # NoIndex
      PROVE  /\ Sealed(reads[q].index.generation)'
             /\ ChunksOf(reads[q].index.generation)' = ChunksOf(reads[q].index.generation)
  <2>1. PICK g : g = reads[q].index.generation
    OBVIOUS
  <2>2. Sealed(g)
    BY <1>3, <2>1 DEF PointersAreSealed
  <2>3. Sealed(g)' /\ ChunksOf(g)' = ChunksOf(g)
    BY <2>2, SealedStays
  <2>. QED
    BY <1>1, <2>1, <2>3 DEF Sealed, ChunksOf
<1>. QED
  BY <1>1, <1>2, <1>3 DEF PointersAreSealed

\* A retrieval picks a sealed generation and answers from it alone.
LEMMA RetrieveSealed ==
    ASSUME TypeOK, PointersAreSealed, AnswerIsWhole, NEW q \in Readers, Retrieve(q)
    PROVE  PointersAreSealed' /\ AnswerIsWhole'
<1>1. UNCHANGED indexVars
  BY DEF Retrieve, ReadPointer, QueryCollection, FetchRows, EndRead
<1>2. \A g : Sealed(g)' = Sealed(g) /\ ChunksOf(g)' = ChunksOf(g)
  BY <1>1 DEF indexVars, Sealed, ChunksOf, Building
<1>. USE <1>1, <1>2 DEF PointersAreSealed, AnswerIsWhole, TypeOK, indexVars
<1>3. CASE ReadPointer(q)
  BY <1>3 DEF ReadPointer
<1>4. CASE QueryCollection(q)
  <2>1. reads[q].index # NoIndex =>
           collections[reads[q].index.generation] = ChunksOf(reads[q].index.generation)
    BY <1>4 DEF QueryCollection, Sealed
  <2>2. /\ reads'[q].stage = "hits" /\ reads'[q].index = reads[q].index
        /\ reads'[q].hits = IF reads[q].index = NoIndex THEN {}
                            ELSE ChunksOf(reads[q].index.generation)
        /\ \A p \in Readers : p # q => reads'[p] = reads[p]
        /\ reads[q] # Idle
    BY <1>4, <2>1 DEF QueryCollection, Reads
  <2>. QED
    BY <2>2
<1>5. CASE FetchRows(q)
  <2>1. {c \in chunks : c \in reads[q].hits /\ c.generation = reads[q].index.generation}
           = reads[q].hits
    BY <1>5 DEF FetchRows, ChunksOf
  <2>2. /\ reads'[q].stage = "done" /\ reads'[q].index = reads[q].index
        /\ reads'[q].hits = reads[q].hits /\ reads'[q].answer = reads[q].hits
        /\ \A p \in Readers : p # q => reads'[p] = reads[p]
        /\ reads[q] # Idle /\ reads[q].stage = "hits"
    BY <1>5, <2>1 DEF FetchRows, IndexOf, Reads
  <2>3. AnswerIsWhole'
    <3>1. \A c \in reads[q].hits : c.generation = reads[q].index.generation
      BY <2>2 DEF ChunksOf
    <3>. QED
      BY <2>2, <3>1
  <2>4. index' # NoIndex => Sealed(index.generation)'
    BY <1>2
  <2>5. ASSUME NEW p \in Readers, reads'[p] # Idle
        PROVE  /\ reads'[p].index # NoIndex => Sealed(reads'[p].index.generation)
               /\ reads'[p].stage # "pointer" =>
                     reads'[p].hits = IF reads'[p].index = NoIndex THEN {}
                                      ELSE ChunksOf(reads'[p].index.generation)
    BY <2>2, <2>5
  <2>6. PointersAreSealed'
    BY <1>2, <2>4, <2>5
  <2>. QED
    BY <2>3, <2>6
<1>6. CASE EndRead(q)
  BY <1>6 DEF EndRead
<1>. QED
  BY <1>3, <1>4, <1>5, <1>6 DEF Retrieve

\* Operations on documents leave indexes and retrievals alone.
LEMMA DocumentationLeavesIndex == Documentation => UNCHANGED <<indexVars, reads>>
BY DEF Documentation, CreateDocument, CheckDuplicate, InsertDraft, UpdateDocument

\* The invariant survives every step.
LEMMA StepInv == IndexInv /\ [Next]_vars => IndexInv'
<1>. SUFFICES ASSUME IndexInv, [Next]_vars PROVE IndexInv'
  OBVIOUS
<1>. USE DEF IndexInv
<1>1. CASE Documentation
  <2>1. TypeOK'
    BY <1>1, DocumentationType
  <2>2. UNCHANGED indexVars /\ UNCHANGED reads
    BY <1>1, DocumentationLeavesIndex
  <2>3. (RebuildsAreSound /\ RebuildsAreSeparate)'
    BY <2>2 DEF indexVars, RebuildsAreSound, RebuildsAreSeparate, Building, ChunksOf
  <2>4. (PointersAreSealed /\ AnswerIsWhole)'
    BY <2>2 DEF indexVars, PointersAreSealed, AnswerIsWhole, Sealed, Building, ChunksOf
  <2>. QED
    BY <2>1, <2>3, <2>4
<1>2. ASSUME NEW r \in Rebuilders, Rebuild(r) PROVE IndexInv'
  <2>1. reads' = reads
    BY <1>2 DEF Rebuild, ReadDocuments, CreateCollection, AddEmbeddings, SwitchPointer,
                FailRebuild
  <2>2. AnswerIsWhole'
    BY <2>1 DEF AnswerIsWhole
  <2>. QED
    BY <1>2, <2>2, RebuildType, RebuildSound, RebuildSeparate, RebuildSealed
<1>3. ASSUME NEW q \in Readers, Retrieve(q) PROVE IndexInv'
  <2>1. UNCHANGED indexVars
    BY <1>3 DEF Retrieve, ReadPointer, QueryCollection, FetchRows, EndRead
  <2>2. (RebuildsAreSound /\ RebuildsAreSeparate)'
    BY <2>1 DEF indexVars, RebuildsAreSound, RebuildsAreSeparate, Building, ChunksOf
  <2>. QED
    BY <1>3, <2>2, RetrieveType, RetrieveSealed
<1>4. CASE UNCHANGED vars
  <2>1. TypeOK'
    BY <1>4 DEF vars, docVars, indexVars, TypeOK
  <2>2. (RebuildsAreSound /\ RebuildsAreSeparate)'
    BY <1>4 DEF vars, indexVars, RebuildsAreSound, RebuildsAreSeparate, Building, ChunksOf
  <2>3. (PointersAreSealed /\ AnswerIsWhole)'
    BY <1>4 DEF vars, indexVars, PointersAreSealed, AnswerIsWhole, Sealed, Building, ChunksOf
  <2>. QED
    BY <2>1, <2>2, <2>3
<1>. QED
  BY <1>1, <1>2, <1>3, <1>4 DEF Next

\* All of the invariant holds in every reachable state.
THEOREM IndexInvariant == Spec => []IndexInv
BY InitInv, StepInv, PTL DEF Spec

\* Rows, collections and requests stay well formed (the types of models.py).
THEOREM TypeCorrect == Spec => []TypeOK
<1>1. IndexInv => TypeOK
  BY DEF IndexInv
<1>. QED
  BY <1>1, IndexInvariant, PTL

\* However many rebuilds overlap or fail, the active generation is complete
\* (reindex_knowledge).
THEOREM PointerComplete == Spec => []PointerIsComplete
<1>1. IndexInv => PointerIsComplete
  BY DEF IndexInv, PointersAreSealed, Sealed, PointerIsComplete
<1>. QED
  BY <1>1, IndexInvariant, PTL

\* A retrieval answers from one generation, with a row for every hit
\* (retrieve_knowledge).
THEOREM AnswersWhole == Spec => []AnswerIsWhole
<1>1. IndexInv => AnswerIsWhole
  BY DEF IndexInv
<1>. QED
  BY <1>1, IndexInvariant, PTL

-----------------------------------------------------------------------------
(* The index is replaced at once.                                          *)

\* The rows of a rebuild say what it read.
LEMMA RowsSayTexts ==
    ASSUME NEW rebuild \in Rebuilds
    PROVE  TextsOf(Rows(rebuild)) = rebuild.texts
<1>1. \A t \in rebuild.texts : [document |-> t.document, content |-> t.content] = t
  BY DEF Rebuilds, Texts
<1>2. \A c \in Rows(rebuild) : [document |-> c.document, content |-> c.content] \in rebuild.texts
  BY <1>1 DEF Rows
<1>3. ASSUME NEW t \in rebuild.texts PROVE t \in TextsOf(Rows(rebuild))
  <2>. DEFINE c == [generation |-> rebuild.generation, document |-> t.document,
                    content |-> t.content]
  <2>1. c \in Rows(rebuild) /\ [document |-> c.document, content |-> c.content] = t
    BY <1>1 DEF Rows
  <2>. QED
    BY <2>1 DEF TextsOf
<1>. QED
  BY <1>2, <1>3 DEF TextsOf

\* A rebuild adds no chunk to a sealed generation.
LEMMA ChunksStay ==
    ASSUME IndexInv, NEW r \in Rebuilders, Rebuild(r), NEW g, Sealed(g)
    PROVE  {c \in chunks' : c.generation = g} = {c \in chunks : c.generation = g}
BY SealedStays DEF IndexInv, ChunksOf

\* What retrievals see is untouched by rebuilds.
LEMMA ViewsStay ==
    ASSUME IndexInv, NEW r \in Rebuilders, Rebuild(r)
    PROVE  Views' = Views
<1>1. reads' = reads
  BY DEF Rebuild, ReadDocuments, CreateCollection, AddEmbeddings, SwitchPointer, FailRebuild
<1>2. ASSUME NEW q \in Readers, reads[q] # Idle, reads[q].index # NoIndex
      PROVE  {c \in chunks' : c.generation = reads[q].index.generation} =
             {c \in chunks : c.generation = reads[q].index.generation}
  <2>1. Sealed(reads[q].index.generation)
    BY <1>2 DEF IndexInv, PointersAreSealed
  <2>. QED
    BY <2>1, ChunksStay
<1>. QED
  BY <1>1, <1>2 DEF Views, Seen, TextsAt, TextsOf, ChunksOf

\* Nor does a rebuild change the index before it moves the pointer.
LEMMA ServedStays ==
    ASSUME IndexInv, NEW r \in Rebuilders, Rebuild(r), index' = index
    PROVE  TextsAt(index)' = TextsAt(index)
<1>1. index # NoIndex => {c \in chunks' : c.generation = index.generation} =
                         {c \in chunks : c.generation = index.generation}
  BY ChunksStay DEF IndexInv, PointersAreSealed
<1>. QED
  BY <1>1 DEF TextsAt, TextsOf, ChunksOf

\* One rebuild, or one retrieval, moves on.
LEMMA OneHeld ==
    ASSUME NEW r \in Rebuilders, NEW b, rebuilds' = [rebuilds EXCEPT ![r] = b],
           rebuilds \in [Rebuilders -> Rebuilds \cup {Idle}]
    PROVE  Taken' = [Taken EXCEPT ![r] = Held(b)]
<1>1. \A s \in Rebuilders : rebuilds'[s] = IF s = r THEN b ELSE rebuilds[s]
  OBVIOUS
<1>. QED
  BY <1>1 DEF Taken, Held

LEMMA OneSeen ==
    ASSUME NEW q \in Readers, NEW b, reads' = [reads EXCEPT ![q] = b],
           reads \in [Readers -> Reads \cup {Idle}], chunks' = chunks
    PROVE  Views' = [Views EXCEPT ![q] = Seen(b)]
<1>1. \A p \in Readers : reads'[p] = IF p = q THEN b ELSE reads[p]
  OBVIOUS
<1>. QED
  BY <1>1 DEF Views, Seen, TextsAt, TextsOf, ChunksOf

\* A step of a rebuild takes the active texts, installs or drops what was
\* taken, or changes nothing a reader or an editor could see.
LEMMA RebuildImplements ==
    ASSUME IndexInv, NEW r \in Rebuilders, Rebuild(r)
    PROVE  [Atomic!Next]_Atomic!vars
<1>1. Active' = Active /\ Views' = Views
  <2>1. documents' = documents
    BY DEF Rebuild, ReadDocuments, CreateCollection, AddEmbeddings, SwitchPointer, FailRebuild,
           docVars
  <2>. QED
    BY <2>1, ViewsStay DEF Active, Text
<1>2. CASE ReadDocuments(r)
  <2>1. Active = {Text(documents, d) : d \in ActiveDocuments(documents)}
    BY DEF Active, ActiveDocuments
  <2>2. ~ Taken[r].open /\ Taken' = [Taken EXCEPT ![r] = [open |-> TRUE, texts |-> Active]]
    <3>. DEFINE b == [stage |-> "read", base |-> index, generation |-> 0,
                      texts |-> {Text(documents, d) : d \in ActiveDocuments(documents)}]
    <3>1. rebuilds[r] = Idle /\ rebuilds' = [rebuilds EXCEPT ![r] = b]
      BY <1>2 DEF ReadDocuments
    <3>2. b \in Rebuilds
      <4>1. {Text(documents, d) : d \in ActiveDocuments(documents)} \in SUBSET Texts
        BY TextType DEF IndexInv, TypeOK, ActiveDocuments
      <4>. QED
        BY <4>1 DEF Rebuilds, IndexInv, TypeOK
    <3>3. Held(b) = [open |-> TRUE, texts |-> Active]
      BY <2>1, <3>2, SentinelAssumption DEF Held
    <3>4. ~ Taken[r].open
      BY <3>1 DEF Taken, Held
    <3>5. Taken' = [Taken EXCEPT ![r] = Held(b)]
      BY <3>1, OneHeld DEF IndexInv, TypeOK
    <3>. QED
      BY <3>3, <3>4, <3>5
  <2>3. TextsAt(index)' = TextsAt(index)
    BY <1>2, ServedStays DEF ReadDocuments
  <2>. QED
    BY <1>1, <2>2, <2>3 DEF Atomic!Next, Atomic!Take
<1>3. CASE CreateCollection(r) \/ AddEmbeddings(r)
  <2>1. Taken' = Taken
    <3>1. rebuilds[r] \in Rebuilds /\ Len(collections) + 1 \in Nat
      BY <1>3 DEF CreateCollection, AddEmbeddings, IndexInv, TypeOK
    <3>2. PICK b \in Rebuilds : b.texts = rebuilds[r].texts /\ rebuilds' = [rebuilds EXCEPT ![r] = b]
      <4>1. CASE CreateCollection(r)
        <5>. DEFINE c == [rebuilds[r] EXCEPT !.stage = "created",
                                             !.generation = Len(collections) + 1]
        <5>1. c \in Rebuilds /\ c.texts = rebuilds[r].texts
          BY <3>1 DEF Rebuilds
        <5>2. rebuilds' = [rebuilds EXCEPT ![r] = c]
          BY <4>1 DEF CreateCollection
        <5>. QED
          BY <5>1, <5>2
      <4>2. CASE AddEmbeddings(r)
        <5>. DEFINE c == [rebuilds[r] EXCEPT !.stage = "added"]
        <5>1. c \in Rebuilds /\ c.texts = rebuilds[r].texts
          BY <3>1 DEF Rebuilds
        <5>2. rebuilds' = [rebuilds EXCEPT ![r] = c]
          BY <4>2 DEF AddEmbeddings
        <5>. QED
          BY <5>1, <5>2
      <4>. QED
        BY <1>3, <4>1, <4>2
    <3>3. Held(b) = Held(rebuilds[r])
      BY <3>1, <3>2, SentinelAssumption DEF Held
    <3>4. Taken' = [Taken EXCEPT ![r] = Held(b)]
      BY <3>2, OneHeld DEF IndexInv, TypeOK
    <3>. QED
      BY <3>3, <3>4 DEF Taken
  <2>2. TextsAt(index)' = TextsAt(index)
    BY <1>3, ServedStays DEF CreateCollection, AddEmbeddings
  <2>. QED
    BY <1>1, <2>1, <2>2 DEF Atomic!vars
<1>4. CASE SwitchPointer(r)
  <2>1. Taken[r].open /\ Taken' = [Taken EXCEPT ![r] = [open |-> FALSE, texts |-> {}]]
    BY <1>4, OneHeld DEF SwitchPointer, Taken, Held, IndexInv, TypeOK
  <2>2. TextsAt(index)' = Taken[r].texts
    <3>1. rebuilds[r] \in Rebuilds /\ Taken[r].texts = rebuilds[r].texts
      BY <1>4 DEF SwitchPointer, Taken, Held, IndexInv, TypeOK
    <3>2. index' # NoIndex /\ index'.generation = rebuilds[r].generation
      BY <1>4, SwitchedIndex, SentinelAssumption DEF SwitchPointer, IndexInv
    <3>3. ChunksOf(rebuilds[r].generation) = {}
      BY <1>4 DEF SwitchPointer, MaySwitch, IndexInv, RebuildsAreSeparate, Building
    <3>4. {c \in chunks' : c.generation = rebuilds[r].generation} = Rows(rebuilds[r])
      BY <1>4, <3>3 DEF SwitchPointer, ChunksOf, Rows
    <3>. QED
      BY <3>1, <3>2, <3>4, RowsSayTexts DEF TextsAt, TextsOf, ChunksOf
  <2>. QED
    BY <1>1, <2>1, <2>2 DEF Atomic!Next, Atomic!Install, Atomic!NothingTaken
<1>5. CASE FailRebuild(r)
  <2>1. Taken[r].open /\ Taken' = [Taken EXCEPT ![r] = [open |-> FALSE, texts |-> {}]]
    BY <1>5, OneHeld DEF FailRebuild, Taken, Held, IndexInv, TypeOK
  <2>2. TextsAt(index)' = TextsAt(index)
    BY <1>5, ServedStays DEF FailRebuild
  <2>. QED
    BY <1>1, <2>1, <2>2 DEF Atomic!Next, Atomic!Drop, Atomic!NothingTaken
<1>. QED
  BY <1>2, <1>3, <1>4, <1>5 DEF Rebuild

\* A step of a retrieval fixes the index it answers from, answers from it, or
\* ends.
LEMMA RetrieveImplements ==
    ASSUME IndexInv, NEW q \in Readers, Retrieve(q)
    PROVE  [Atomic!Next]_Atomic!vars
<1>1. UNCHANGED <<documents, chunks, index, rebuilds>>
  BY DEF Retrieve, ReadPointer, QueryCollection, FetchRows, EndRead, docVars, indexVars
<1>2. Active' = Active /\ Taken' = Taken /\ TextsAt(index)' = TextsAt(index)
  BY <1>1 DEF Active, Text, Taken, Held, TextsAt, TextsOf, ChunksOf
<1>3. CASE ReadPointer(q)
  <2>1. Views[q].stage = "none"
    BY <1>3 DEF ReadPointer, Views, Seen
  <2>2. Views' = [Views EXCEPT ![q] = [stage |-> "looking", texts |-> TextsAt(index)]]
    <3>. DEFINE b == [stage |-> "pointer", index |-> index, hits |-> {}, answer |-> {}]
    <3>1. b \in Reads
      BY DEF Reads, IndexInv, TypeOK
    <3>2. reads' = [reads EXCEPT ![q] = b]
      BY <1>3 DEF ReadPointer
    <3>3. Seen(b) = [stage |-> "looking", texts |-> TextsAt(index)]
      BY <3>1, SentinelAssumption DEF Seen
    <3>4. Views' = [Views EXCEPT ![q] = Seen(b)]
      BY <1>1, <3>2, OneSeen DEF IndexInv, TypeOK
    <3>. QED
      BY <3>3, <3>4
  <2>. QED
    BY <1>2, <2>1, <2>2 DEF Atomic!Next, Atomic!Look
<1>4. CASE QueryCollection(q)
  <2>1. Views' = Views
    <3>. DEFINE p == reads[q].index
                hits == IF p = NoIndex THEN {} ELSE collections[p.generation]
                b == [reads[q] EXCEPT !.stage = "hits", !.hits = hits]
    <3>1. reads[q] \in Reads /\ reads[q].stage = "pointer"
      BY <1>4 DEF QueryCollection, IndexInv, TypeOK
    <3>2. hits \in SUBSET Chunks
      BY <1>4 DEF QueryCollection, IndexInv, PointersAreSealed, Sealed, ChunksOf, TypeOK
    <3>3. b \in Reads /\ b.stage = "hits" /\ b.index = p
      BY <3>1, <3>2 DEF Reads
    <3>4. Seen(b) = Seen(reads[q])
      BY <3>1, <3>3, SentinelAssumption DEF Seen
    <3>5. Views' = [Views EXCEPT ![q] = Seen(b)]
      BY <1>1, <1>4, OneSeen DEF QueryCollection, IndexInv, TypeOK
    <3>. QED
      BY <3>4, <3>5 DEF Views
  <2>. QED
    BY <1>2, <2>1 DEF Atomic!vars
<1>5. CASE FetchRows(q)
  <2>. DEFINE rows == {c \in chunks : /\ c \in reads[q].hits
                                     /\ c.generation = reads[q].index.generation}
              b == [reads[q] EXCEPT !.stage = "done", !.answer = rows]
  <2>1. reads[q] \in Reads /\ reads[q].stage = "hits" /\ reads' = [reads EXCEPT ![q] = b]
    BY <1>5 DEF FetchRows, IndexOf, IndexInv, TypeOK
  <2>2. TextsOf(rows) = TextsAt(reads[q].index)
    <3>1. reads[q].hits = IF reads[q].index = NoIndex THEN {}
                          ELSE ChunksOf(reads[q].index.generation)
      BY <2>1, SentinelAssumption DEF IndexInv, PointersAreSealed
    <3>2. rows = reads[q].hits
      BY <3>1 DEF ChunksOf
    <3>. QED
      BY <3>1, <3>2 DEF TextsAt, TextsOf
  <2>3. b \in Reads /\ b.stage = "done" /\ b.answer = rows
    BY <2>1 DEF Reads, IndexInv, TypeOK
  <2>4. Seen(b) = [stage |-> "answered", texts |-> TextsAt(reads[q].index)]
    BY <2>2, <2>3, SentinelAssumption DEF Seen
  <2>5. Views[q] = [stage |-> "looking", texts |-> TextsAt(reads[q].index)]
    BY <2>1, SentinelAssumption DEF Views, Seen
  <2>6. Views' = [Views EXCEPT ![q] = Seen(b)]
    BY <1>1, <2>1, OneSeen DEF IndexInv, TypeOK
  <2>. HIDE DEF b, rows
  <2>7. Seen(b) = [stage |-> "answered", texts |-> Views[q].texts]
    BY <2>4, <2>5
  <2>8. Views' = [Views EXCEPT ![q] = [stage |-> "answered", texts |-> Views[q].texts]]
    BY <2>6, <2>7
  <2>9. Atomic!Answer(q)
    BY <1>2, <2>5, <2>8 DEF Atomic!Answer
  <2>. QED
    BY <2>9 DEF Atomic!Next
<1>6. CASE EndRead(q)
  <2>1. Views[q].stage # "none" /\ Views' = [Views EXCEPT ![q] = [stage |-> "none", texts |-> {}]]
    <3>1. reads[q] # Idle /\ reads' = [reads EXCEPT ![q] = Idle]
      BY <1>6 DEF EndRead
    <3>2. Views' = [Views EXCEPT ![q] = Seen(Idle)]
      BY <1>1, <3>1, OneSeen DEF IndexInv, TypeOK
    <3>. QED
      BY <3>1, <3>2 DEF Views, Seen
  <2>. QED
    BY <1>2, <2>1 DEF Atomic!Next, Atomic!Forget, Atomic!NoView
<1>. QED
  BY <1>3, <1>4, <1>5, <1>6 DEF Retrieve

\* An operation on documents changes the active texts at most.
LEMMA EditImplements == Documentation => [Atomic!Next]_Atomic!vars
<1>1. Documentation => UNCHANGED <<rebuilds, chunks, index, reads>>
  BY DocumentationLeavesIndex DEF indexVars
<1>2. UNCHANGED <<rebuilds, chunks, index, reads>> => UNCHANGED <<Taken, TextsAt(index), Views>>
  BY DEF Taken, Held, TextsAt, TextsOf, ChunksOf, Views, Seen
<1>. QED
  BY <1>1, <1>2 DEF Atomic!Next, Atomic!Edit

\* The two stores and their pointer implement an index that is replaced at once
\* by all texts active at one moment (reindex_knowledge, retrieve_knowledge).
THEOREM AtomicIndexImplemented == Spec => IndexIsAtomic
<1>1. Init => Atomic!Init
  BY DEF Init, Atomic!Init, Atomic!NothingTaken, Atomic!NoView, Active, Taken, Held, Views, Seen, TextsAt
<1>2. IndexInv /\ [Next]_vars => [Atomic!Next]_Atomic!vars
  <2>. SUFFICES ASSUME IndexInv, [Next]_vars PROVE [Atomic!Next]_Atomic!vars
    OBVIOUS
  <2>1. CASE UNCHANGED vars
    BY <2>1 DEF vars, docVars, indexVars, Atomic!vars, Active, Text, Taken, Held, Views,
                Seen, TextsAt, TextsOf, ChunksOf
  <2>. QED
    BY <2>1, EditImplements, RebuildImplements, RetrieveImplements DEF Next
<1>. QED
  BY <1>1, <1>2, IndexInvariant, PTL DEF Spec, IndexIsAtomic, Atomic!Spec

-----------------------------------------------------------------------------
(* Uploads.                                                                *)

\* An uploaded document that nobody has edited.
Original(d) == documents[d].uploaded /\ ~ documents[d].edited

\* Only the ingestion on the event loop is past its check, and what it checked
\* for still holds.
ChecksStillHold ==
    /\ \A u \in Uploads : uploads[u].stage = "checked" =>
          /\ eventLoop = u
          /\ \A d \in DOMAIN documents : Original(d) =>
                documents[d].content # uploads[u].content
    /\ UploadsAreUnique

\* Other requests leave originals as they are, and add none.
LEMMA ChecksStep ==
    ASSUME TypeOK, ChecksStillHold, [Next]_vars
    PROVE  ChecksStillHold'
<1>. USE DEF ChecksStillHold, UploadsAreUnique, Original, TypeOK
<1>1. ASSUME NEW content \in Contents, NEW active \in BOOLEAN, CreateDocument(content, active)
      PROVE  ChecksStillHold'
  BY <1>1 DEF CreateDocument, Insert
<1>2. ASSUME NEW u \in Uploads, NEW text \in Contents, CheckDuplicate(u, text)
      PROVE  ChecksStillHold'
  <2>1. documents' = documents
    BY <1>2 DEF CheckDuplicate
  <2>2. eventLoop = Idle
    BY <1>2 DEF CheckDuplicate, MayIngest
  <2>3. \A v \in Uploads : uploads[v].stage # "checked"
    BY <2>2, SentinelAssumption
  <2>4. \A v \in Uploads : uploads'[v].stage = "checked" =>
           v = u /\ eventLoop' = u /\ uploads'[v].content = text
           /\ \A d \in DOMAIN documents : documents[d].content # text
    BY <1>2, <2>3 DEF CheckDuplicate, Ingested
  <2>. QED
    BY <2>1, <2>4
<1>3. ASSUME NEW u \in Uploads, InsertDraft(u) PROVE ChecksStillHold'
  BY <1>3, SentinelAssumption DEF InsertDraft, Insert, Ingested, Ingestions
<1>4. ASSUME NEW d \in DOMAIN documents, NEW content \in Contents, NEW active \in BOOLEAN,
             UpdateDocument(d, content, active)
      PROVE  ChecksStillHold'
  <2>1. uploads' = uploads /\ eventLoop' = eventLoop /\ DOMAIN documents' = DOMAIN documents
    BY <1>4 DEF UpdateDocument
  <2>2. /\ documents'[d].uploaded = documents[d].uploaded
        /\ documents'[d].content = content
        /\ documents'[d].edited <=> documents[d].edited \/ content # documents[d].content
        /\ \A e \in DOMAIN documents : e # d => documents'[e] = documents[e]
    BY <1>4 DEF UpdateDocument
  <2>3. \A e \in DOMAIN documents : Original(e)' =>
           Original(e) /\ documents'[e].content = documents[e].content
    BY <2>1, <2>2
  <2>. QED
    BY <2>1, <2>3
<1>5. CASE UNCHANGED docVars
  BY <1>5 DEF docVars
<1>6. ASSUME NEW r \in Rebuilders, Rebuild(r) PROVE UNCHANGED docVars
  BY <1>6 DEF Rebuild, ReadDocuments, CreateCollection, AddEmbeddings, SwitchPointer, FailRebuild
<1>7. ASSUME NEW q \in Readers, Retrieve(q) PROVE UNCHANGED docVars
  BY <1>7 DEF Retrieve, ReadPointer, QueryCollection, FetchRows, EndRead
<1>. QED
  BY <1>1, <1>2, <1>3, <1>4, <1>5, <1>6, <1>7 DEF Next, Documentation, vars

\* Uploads of one text make one document, whatever else goes on
\* (ingest_document).
THEOREM UploadsUnique == Spec => []UploadsAreUnique
<1>1. Init => ChecksStillHold
  BY DEF Init, ChecksStillHold, UploadsAreUnique
<1>2. TypeOK /\ ChecksStillHold /\ [Next]_vars => ChecksStillHold'
  BY ChecksStep
<1>3. ChecksStillHold => UploadsAreUnique
  BY DEF ChecksStillHold
<1>. QED
  BY <1>1, <1>2, <1>3, TypeCorrect, PTL DEF Spec

-----------------------------------------------------------------------------
(* The pointer's counts.                                                   *)

\* A rebuild has as many rows as texts.
LEMMA AsManyRows ==
    ASSUME NEW rebuild \in Rebuilds, IsFiniteSet(rebuild.texts)
    PROVE  Cardinality(Rows(rebuild)) = Cardinality(rebuild.texts)
<1>. DEFINE f == [t \in rebuild.texts |->
                    [generation |-> rebuild.generation, document |-> t.document,
                     content |-> t.content]]
<1>1. \A t \in rebuild.texts : t \in Texts
  BY DEF Rebuilds
<1>2. f \in Injection(rebuild.texts, Rows(rebuild))
  BY <1>1 DEF Injection, IsInjective, Rows, Texts
<1>3. f \in Surjection(rebuild.texts, Rows(rebuild))
  BY DEF Surjection, Rows
<1>. QED
  BY <1>2, <1>3, FS_Surjection

\* Only a pointer that moves changes its count; unless it moved meanwhile, the
\* row's other columns are those the session read.
LEMMA CountStep ==
    ASSUME IndexInv, IndexInv', CountFitsIndex, [Next]_vars
    PROVE  CountFitsIndex'
<1>. USE DEF IndexInv, CountFitsIndex
<1>1. ASSUME NEW r \in Rebuilders, SwitchPointer(r) PROVE CountFitsIndex'
  <2>. SUFFICES ASSUME ~ raced'
                PROVE  index'.count = Cardinality(ChunksOf(index.generation)')
    OBVIOUS
  <2>1. rebuilds[r] \in Rebuilds /\ IsFiniteSet(rebuilds[r].texts) /\ rebuilds[r].base = index
    BY <1>1 DEF SwitchPointer, RebuildsAreSound, TypeOK
  <2>2. index'.count = Cardinality(rebuilds[r].texts)
    BY <1>1, <2>1 DEF SwitchPointer, CountWritten
  <2>3. ChunksOf(index.generation)' = Rows(rebuilds[r])
    <3>1. ChunksOf(rebuilds[r].generation) = {}
      BY <1>1 DEF SwitchPointer, MaySwitch, RebuildsAreSeparate, Building
    <3>2. \A c \in Rows(rebuilds[r]) : c.generation = rebuilds[r].generation
      BY DEF Rows
    <3>. QED
      BY <1>1, <3>1, <3>2 DEF SwitchPointer, ChunksOf
  <2>. QED
    BY <2>1, <2>2, <2>3, AsManyRows
<1>2. CASE UNCHANGED <<index, chunks, raced>>
  BY <1>2 DEF ChunksOf
<1>3. ASSUME NEW r \in Rebuilders, Rebuild(r), ~ SwitchPointer(r)
      PROVE  UNCHANGED <<index, chunks, raced>>
  BY <1>3 DEF Rebuild, ReadDocuments, CreateCollection, AddEmbeddings, FailRebuild
<1>4. ASSUME NEW q \in Readers, Retrieve(q) PROVE UNCHANGED <<index, chunks, raced>>
  BY <1>4 DEF Retrieve, ReadPointer, QueryCollection, FetchRows, EndRead, indexVars
<1>5. Documentation => UNCHANGED <<index, chunks, raced>>
  BY DocumentationLeavesIndex DEF indexVars
<1>. QED
  BY <1>1, <1>2, <1>3, <1>4, <1>5 DEF Next, vars, indexVars

\* Unless rebuilds overlapped, the counts are those of the active generation
\* (reindex_knowledge writes them through the row it has read).
THEOREM CountFits == Spec => []CountFitsIndex
<1>1. Init => CountFitsIndex
  BY DEF Init, CountFitsIndex
<1>2. IndexInv /\ IndexInv' /\ CountFitsIndex /\ [Next]_vars => CountFitsIndex'
  BY CountStep
<1>. QED
  BY <1>1, <1>2, IndexInvariant, PTL DEF Spec
=============================================================================
