---------------------------- MODULE KnowledgeBase ----------------------------
(***************************************************************************)
(* Uploads of documents and questions to a model: the handlers of          *)
(* POST /documents (app/routers/documents.py and app/rag/ingestion.py),    *)
(* POST /rag/ask and POST /ai/ask, and the tables they write.  generate()  *)
(* is ModelGateway.                                                        *)
(*                                                                         *)
(* The handlers are synchronous and run in threads, each with a Session    *)
(* and so a transaction of its own; the database is read committed.  What  *)
(* an upload writes before its commit is in tx, where nobody else sees it. *)
(* The search may go through an HNSW index, which holds an entry of every  *)
(* row that was written, and reads ScanWidth of them before it looks at    *)
(* their organisation.                                                     *)
(***************************************************************************)
EXTENDS ModelGateway, FiniteSetsExt

CONSTANTS
    Uploads,     \* requests that upload a document, which carries their id
    Orgs, OrgOf, \* the organisation of each request's user
    MaxPieces,   \* bound on the chunks of one document
    TopK,        \* _TOP_K
    ScanWidth    \* hnsw.ef_search, 40 by default

Requests == Uploads \cup Asks

ASSUME KnowledgeAssumption ==
    /\ Uploads \cap Asks = {}
    /\ OrgOf \in [Requests -> Orgs]
    /\ MaxPieces \in Nat /\ TopK \in Nat /\ ScanWidth \in Nat
    /\ IsFiniteSet(Requests)

\* The chunk of document u at chunk_index i; its organization_id is OrgOf[u].
Chunk == Uploads \X (0 .. MaxPieces - 1)
ChunksOf(u, n) == {u} \X (0 .. n - 1)

\* A documents row and the rows of its chunks.
Document == [status : {"none", "processing", "ready", "failed"}, chunks : SUBSET Chunk]
NoDocument == [status |-> "none", chunks |-> {}]

\* "ai" and "rag" are the two endpoints; "direct" is generate() called with a
\* response_schema, which no endpoint does.
Features == {"ai", "rag"}
Kinds == Features \cup {"none", "direct"}

Trace == [org : Orgs, feature : Features, success : BOOLEAN, tokens : {0, 1}]

Ended == {"done", "refused", "error", "lost"}
Steps == {"idle", "create", "embed", "store", "undo", "commit", "refresh",
          "question", "generate", "respond"} \cup Ended

VARIABLES
    pc,         \* where each request's handler is
    pieces,     \* how many chunks chunk_text makes of an upload's content
    tx,         \* what an upload's transaction has written
    index,      \* the rows the HNSW index has an entry of: those of the table, those
                \* not committed yet, and dead ones until they are vacuumed
    documents,  \* the committed document of each upload, with its chunks
    kind,       \* what an ask is
    context,    \* the chunks an ask retrieved
    traces,     \* the committed trace of each ask: a set of at most one row
    told,       \* what the client has been answered
    known,      \* history: the uploads its organisation was told are ready
                \* when an ask arrived
    crowded     \* history: the index held more than an index scan reads when an
                \* ask searched

uploading == <<pieces, tx, index>>
asking == <<gen, said, kind, context, known, crowded>>
database == <<documents, traces>>
vars == <<pc, uploading, asking, database, told>>

Init ==
    /\ GatewayInit
    /\ pc = [r \in Requests |-> "idle"]
    /\ pieces = [u \in Uploads |-> 0]
    /\ tx = [u \in Uploads |-> NoDocument]
    /\ index = {}
    /\ documents = [u \in Uploads |-> NoDocument]
    /\ kind = [q \in Asks |-> "none"]
    /\ context = [q \in Asks |-> {}]
    /\ traces = [q \in Asks |-> {}]
    /\ told = [r \in Requests |-> "nothing"]
    /\ known = [q \in Asks |-> {}]
    /\ crowded = [q \in Asks |-> FALSE]

Goto(r, from, to) == pc[r] = from /\ pc' = [pc EXCEPT ![r] = to]

\* A dependency refuses: 422, 401, or 503 when no API key is configured.
Refuse(r) ==
    /\ Goto(r, "idle", "refused")
    /\ told' = [told EXCEPT ![r] = "refusal"]
    /\ UNCHANGED <<uploading, asking, database>>

------------------------------------------------------------------------------
(* POST /documents *)

Upload(u) ==
    /\ Goto(u, "idle", "create")
    /\ UNCHANGED <<uploading, asking, database, told>>

\* create_pending(), mark_processing() and the SAVEPOINT.
Create(u) ==
    /\ Goto(u, "create", "embed")
    /\ tx' = [tx EXCEPT ![u].status = "processing"]
    /\ UNCHANGED <<pieces, index, asking, database, told>>

\* chunk_text() and embed().
Embed(u) ==
    /\ Goto(u, "embed", "store")
    /\ \E n \in 1 .. MaxPieces : pieces' = [pieces EXCEPT ![u] = n]
    /\ UNCHANGED <<tx, index, asking, database, told>>

\* A text without chunks, or an error of the embedding provider.
EmbedFails(u) ==
    /\ Goto(u, "embed", "undo")
    /\ UNCHANGED <<uploading, asking, database, told>>

Stored(u) == ChunksOf(u, pieces[u])

\* bulk_create(), the release of the savepoint and mark_ready().
Store(u) ==
    /\ Goto(u, "store", "commit")
    /\ tx' = [tx EXCEPT ![u] = [status |-> "ready", chunks |-> Stored(u)]]
    /\ index' = index \cup Stored(u)
    /\ UNCHANGED <<pieces, asking, database, told>>

\* The flush of bulk_create() fails after some of its rows.
StoreFails(u) ==
    /\ Goto(u, "store", "undo")
    /\ \E n \in 0 .. pieces[u] - 1 :
         /\ tx' = [tx EXCEPT ![u].chunks = ChunksOf(u, n)]
         /\ index' = index \cup ChunksOf(u, n)
    /\ UNCHANGED <<pieces, asking, database, told>>

\* Mutants: without the savepoint's rollback; rolling back everything.
FailedAsIs(u) == [tx[u] EXCEPT !.status = "failed"]
AllRolledBack(u) == NoDocument

Failed(u) == [status |-> "failed", chunks |-> {}]

\* The rollback to the savepoint and mark_failed().
Undo(u) ==
    /\ Goto(u, "undo", "commit")
    /\ tx' = [tx EXCEPT ![u] = Failed(u)]
    /\ UNCHANGED <<pieces, index, asking, database, told>>

Commit(u) ==
    /\ Goto(u, "commit", "refresh")
    /\ documents' = [documents EXCEPT ![u] = tx[u]]
    /\ tx' = [tx EXCEPT ![u] = NoDocument]
    /\ UNCHANGED <<pieces, index, asking, traces, told>>

\* db.refresh() reads the row again; 201 with its status.
Answer201(u) ==
    /\ Goto(u, "refresh", "done")
    /\ told' = [told EXCEPT ![u] = documents[u].status]
    /\ UNCHANGED <<uploading, asking, database>>

------------------------------------------------------------------------------
(* POST /rag/ask and POST /ai/ask *)

ToldReady(org) == {u \in Uploads : OrgOf[u] = org /\ told[u] = "ready"}

Ask(q) ==
    /\ known' = [known EXCEPT ![q] = ToldReady(OrgOf[q])]
    /\ \E k \in Kinds \ {"none"} :
         /\ kind' = [kind EXCEPT ![q] = k]
         /\ \/ k = "rag" /\ Goto(q, "idle", "question") /\ UNCHANGED <<gen, said>>
            \/ k = "ai" /\ Goto(q, "idle", "generate") /\ Generate(q, FALSE)
            \/ k = "direct" /\ Goto(q, "idle", "generate") /\ Generate(q, TRUE)
    /\ UNCHANGED <<uploading, context, crowded, database, told>>

Table == UNION {documents[u].chunks : u \in Uploads}
Scoped(org) == {c \in Table : OrgOf[c[1]] = org}

\* The rows the planner's choice may go through before it filters: all of them,
\* or those an index scan reads, which are at least ScanWidth if there are as many.
Reach == {rows \in SUBSET index : rows = index \/ Cardinality(rows) >= ScanWidth}

\* Mutants: the limit before the filter; no filter.
LimitThenScope(org, rows) ==
    LET live == rows \cap Table
    IN  {found \cap Scoped(org) : found \in kSubset(Min({TopK, Cardinality(live)}), live)}
NoScope(org, rows) ==
    LET live == rows \cap Table IN kSubset(Min({TopK, Cardinality(live)}), live)

\* What search_similar() may return of these rows, of which it can see the
\* committed ones: the nearest ones are any, since distances are left out.
Nearest(org, rows) ==
    LET own == rows \cap Scoped(org) IN kSubset(Min({TopK, Cardinality(own)}), own)

\* The question is embedded and the chunks are read; then generate().
Retrieve(q) ==
    /\ Goto(q, "question", "generate")
    /\ \E rows \in Reach : \E found \in Nearest(OrgOf[q], rows) :
         context' = [context EXCEPT ![q] = found]
    /\ crowded' = [crowded EXCEPT ![q] = Cardinality(index) > ScanWidth]
    /\ Generate(q, FALSE)
    /\ UNCHANGED <<uploading, kind, known, database, told>>

CallModel(q) ==
    /\ pc[q] = "generate"
    /\ GatewayStep(q)
    /\ UNCHANGED <<pc, uploading, kind, context, known, crowded, database, told>>

\* Mutant: only an answer is traced.
TraceIfAnswered(q) == {t \in {[org |-> OrgOf[q], feature |-> kind[q], success |-> TRUE,
                               tokens |-> 1]} : gen[q].result.success}
TraceOf(q) == {[org |-> OrgOf[q], feature |-> kind[q], success |-> gen[q].result.success,
                tokens |-> gen[q].result.tokens]}

\* traces.create() and the commit.
WriteTrace(q) ==
    /\ Goto(q, "generate", "respond")
    /\ gen[q].at = "returned"
    /\ kind[q] \in Features
    /\ traces' = [traces EXCEPT ![q] = TraceOf(q)]
    /\ UNCHANGED <<uploading, asking, documents, told>>

\* Mutant: nothing is done about a failure.
RespondToSuccess(q) ==
    /\ gen[q].result.success
    /\ Goto(q, "respond", "done")
    /\ told' = [told EXCEPT ![q] = "answer"]
    /\ UNCHANGED <<uploading, asking, database>>

\* 502, or 200 with the citations, read again since the commit expired them.
Respond(q) ==
    /\ Goto(q, "respond", "done")
    /\ told' = [told EXCEPT ![q] = IF gen[q].result.success THEN "answer" ELSE "bad gateway"]
    /\ UNCHANGED <<uploading, asking, database>>

\* A direct caller has its result.
ReturnDirect(q) ==
    /\ Goto(q, "generate", "done")
    /\ gen[q].at = "returned"
    /\ kind[q] = "direct"
    /\ UNCHANGED <<uploading, asking, database, told>>

------------------------------------------------------------------------------
(* Failures *)

\* Where an exception is caught by nobody: a statement on the database fails
\* (after the chunks, the release of their savepoint; after a commit, a read of
\* the row that the commit expired), the question cannot be embedded, or
\* generate() raised.
Exposed(r) ==
    \/ pc[r] \in {"create", "store", "undo", "commit", "refresh", "question"}
    \/ pc[r] = "generate" /\ gen[r].at = "returned" /\ kind[r] \in Features
    \/ pc[r] = "generate" /\ gen[r].at = "raised"
    \/ pc[r] = "respond" /\ gen[r].result.success

\* 500; the Session is closed, which rolls its transaction back.
Break(r) ==
    /\ Exposed(r)
    /\ pc' = [pc EXCEPT ![r] = "error"]
    /\ tx' = IF r \in Uploads THEN [tx EXCEPT ![r] = NoDocument] ELSE tx
    /\ told' = [told EXCEPT ![r] = "server error"]
    /\ UNCHANGED <<pieces, index, asking, database>>

\* The server stops, at any time: what is not committed is gone.
Crash ==
    /\ pc' = [r \in Requests |-> IF pc[r] \in Ended \cup {"idle"} THEN pc[r] ELSE "lost"]
    /\ tx' = [u \in Uploads |-> NoDocument]
    /\ UNCHANGED <<pieces, index, asking, database, told>>

\* Autovacuum takes the entries of rows that were rolled back out of the index.
Vacuum ==
    /\ index' = Table \cup UNION {tx[u].chunks : u \in Uploads}
    /\ UNCHANGED <<pc, pieces, tx, asking, database, told>>

UploadStep(u) ==
    \/ Create(u) \/ Embed(u) \/ EmbedFails(u) \/ Store(u) \/ StoreFails(u)
    \/ Undo(u) \/ Commit(u) \/ Answer201(u)
AskStep(q) ==
    \/ Retrieve(q) \/ CallModel(q) \/ WriteTrace(q) \/ Respond(q) \/ ReturnDirect(q)

Next ==
    \/ \E r \in Requests : Refuse(r) \/ Break(r)
    \/ \E u \in Uploads : Upload(u) \/ UploadStep(u)
    \/ \E q \in Asks : Ask(q) \/ AskStep(q)
    \/ Crash \/ Vacuum

Spec == Init /\ [][Next]_vars

\* A thread that can run does: client libraries return or raise.
FairSpec ==
    /\ Spec
    /\ \A u \in Uploads : WF_vars(UploadStep(u) \/ Break(u))
    /\ \A q \in Asks : WF_vars(AskStep(q) \/ Break(q))

------------------------------------------------------------------------------
(* Properties *)

TypeOK ==
    /\ GatewayTypeOK
    /\ pc \in [Requests -> Steps]
    /\ pieces \in [Uploads -> 0 .. MaxPieces]
    /\ tx \in [Uploads -> Document] /\ documents \in [Uploads -> Document]
    /\ index \in SUBSET Chunk
    /\ kind \in [Asks -> Kinds]
    /\ context \in [Asks -> SUBSET Chunk]
    /\ \A q \in Asks : Cardinality(context[q]) <= TopK
    /\ traces \in [Asks -> SUBSET Trace]
    /\ told \in [Requests -> {"nothing", "refusal", "ready", "failed", "answer",
                              "bad gateway", "server error"}]
    /\ known \in [Asks -> SUBSET Uploads] /\ crowded \in [Asks -> BOOLEAN]

\* A committed document is ready with every chunk of its content or failed
\* with none; none is left pending or processing, whatever failed on the way.
\* (ingest_document's savepoint and the router's commit, ingestion.py:38-69)
AllOrNothing ==
    \A u \in Uploads :
      \/ documents[u] = NoDocument
      \/ documents[u] = [status |-> "ready", chunks |-> ChunksOf(u, pieces[u])] /\ pieces[u] > 0
      \/ documents[u] = [status |-> "failed", chunks |-> {}]

\* What an upload's 201 says is what is stored, and what is stored was told, is
\* about to be, or belongs to an upload that was lost or answered 500.
\* (upload_document, documents.py:26-37)
ToldIsStored ==
    \A u \in Uploads :
      /\ pc[u] = "done" => told[u] \in {"ready", "failed"} /\ documents[u].status = told[u]
      /\ documents[u].status # "none" =>
           told[u] = documents[u].status \/ pc[u] \in {"refresh", "error", "lost"}

\* An ask is answered from its own organisation's ready documents only.  The
\* search does not look at a document's status: chunks that an upload has not
\* committed must never be in its reach.  (search_similar, document_chunk.py:14-31)
OwnReadyContext ==
    \A q \in Asks : \A c \in context[q] :
      OrgOf[c[1]] = OrgOf[q] /\ documents[c[1]].status = "ready"

\* What the client was told is ready before it asked is found: an ask gets as
\* many chunks as it may, or all of those documents'; unless the index, with the
\* chunks of every organisation and of uploads rolled back or still under way,
\* held more than an index scan reads.
\* (upload_document commits before it answers; search_similar limits last)
ReadyIsFound ==
    \A q \in Asks :
      kind[q] = "rag" /\ gen[q].at # "idle" /\ Cardinality(context[q]) < TopK /\ ~crowded[q] =>
        \A u \in known[q] : ChunksOf(u, pieces[u]) \subseteq context[q]

\* The filter on the organisation comes "BEFORE the similarity ordering/limit"
\* (document_chunk.py:17-18), so only a search of all one's own ready chunks may
\* return fewer than TopK: does not hold once an index scan stops at others' rows.
OwnAreNotCrowdedOut ==
    \A q \in Asks :
      kind[q] = "rag" /\ gen[q].at # "idle" /\ Cardinality(context[q]) < TopK =>
        \A u \in known[q] : ChunksOf(u, pieces[u]) \subseteq context[q]

\* A client that got an answer finds one successful trace of its call under its
\* organisation, one that got a 502 a failed trace; and there is no trace of a
\* call that did not return, nor one that says otherwise than the call or tells
\* the usage of fewer completions than it took.
\* (ask, ai.py:43-65, and rag_ask, rag.py:79-111)
TraceTellsAnswer ==
    \A q \in Asks :
      /\ told[q] \in {"answer", "bad gateway"} => traces[q] # {}
      /\ \A t \in traces[q] :
           /\ t.org = OrgOf[q] /\ t.feature = kind[q]
           /\ gen[q].at = "returned" /\ t.success = (Last(q) \in Completions)
           /\ t.tokens = Completed(q)
           /\ told[q] = "answer" => t.success
           /\ told[q] = "bad gateway" => ~t.success

\* Every request that is taken up ends, and stays ended: the retries run out, a
\* failed step is answered.  No request is taken up twice, so from some time on
\* none is under way.  (generate, groq.py:83-164, and the handlers) Under FairSpec.
Answered == <>[](\A r \in Requests : pc[r] \in Ended \cup {"idle"})

\* "every AI gateway call is logged here" (models/trace.py:30): does not hold
\* of a call that raised, nor of one whose trace could not be committed.
EveryCallIsLogged ==
    \A q \in Asks :
      pc[q] \in {"done", "error"} /\ kind[q] \in Features /\ said[q] # <<>> =>
        traces[q] # {}

\* An upload that was answered 500 has stored nothing, so a client may send it
\* again: does not hold, since the refresh after the commit may fail.
ErrorStoresNothing ==
    \A u \in Uploads : told[u] = "server error" => documents[u] = NoDocument
==============================================================================
