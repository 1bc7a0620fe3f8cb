# finplat in TLA+

finplat is a financial-crime platform: a FastAPI service over Postgres, a
LangGraph agent that investigates accounts and may ask a human for approval, a
gateway to model providers, a document knowledge base, and detection rules over
Postgres and a Neo4j transaction graph. This directory models the parts of it
whose correctness depends on the order things happen in, checks the models with
TLC and proves the main facts about the core with TLAPS.

## Inventory

| Component | State it keeps | Operations | How it interacts |
|---|---|---|---|
| Investigation runs (`app/agent/investigation.py`, `graph.py`, `checkpointer.py`) | per call: the graph state `ainvoke()` holds, `pre_call_messages`; in Postgres: one checkpoint per `thread_id` | `run_investigation`, `resume_investigation_with_decision`, the agent and tools nodes, background checkpoint writes | coroutines of a worker process; call the model, the MCP tools, the repositories |
| Approval flow (`approval_tool.py`, `routers/approvals.py`, `case_approval.py`) | `case_approvals` rows, the resume value | `interrupt()`, `_record_pending_approval`, `decide_approval` | `decide_approval` commits the decision and then resumes the run |
| Cases (`repositories/case.py`, `mcp/tools.py`) | `cases` rows, `thread_id` unique | `create_case`, `update_case`, `set_pending_approval`, `clear_pending_approval` | written by tool calls and by the approval flow |
| Traces (`repositories/trace.py`) | `traces` rows | one row per call, `usage_by_thread` and three aggregates | written after a call from the difference of two message lists |
| Sessions (`database.py`) | one SQLAlchemy Session per request | commit, flush, close | a failed flush makes the Session refuse all work |
| Model gateway (`app/gateway/`, `routers/ai.py`, `routers/rag.py`) | none across calls | `generate` with retries and one repair of structured output | one trace per call |
| Knowledge base (`app/rag/`, `routers/documents.py`) | `documents`, `document_chunks` with an HNSW index on the embeddings | `chunk_text`, `ingest_document`, similarity search | synchronous, a savepoint inside the request's transaction |
| Detection rules (`detection/rules.py`) | none | `detect_structuring`, `detect_fanin_fanout` | read Postgres, one query each |
| Graph detection (`detection/graph.py`) | none; `_UnionFind` during a call | `detect_layering_chains`, `detect_mule_communities` | one Cypher query each, the rest in Python |
| Combined detection (`detection/combined.py`, `features.py`) | none | `get_account_detection`, `build_feature_table` | rules, a trained classifier and the graph; the last two may be unavailable |
| Graph ingestion (`app/graph/ingestion.py`, `scripts/ingest_graph.py`) | the Neo4j graph | batches of MERGE | three reads of Postgres, auto-committed writes |
| Synthetic data (`scripts/seed_fraud_data.py`, `verify_detection.py`) | rows, the ground-truth file | seed, verify | one commit, then the file; verification reads the file, Postgres and Neo4j |
| Registration, login (`routers/auth.py`, `users.py`, `dependencies.py`) | `organizations`, `users` | register, login, read me | check-then-insert against a unique index |
| Usage (`routers/observability.py`, aggregates of `repositories/trace.py`) | none; reads `traces` | usage report, rollup of a thread | three queries per report, while other requests commit traces |

The hardest behaviours are in the first four: handlers that interleave at every
`await`, two server processes, clients that POST a thread again, exceptions
anywhere in a run, a crash between any two commits, a checkpoint that lags the
run it belongs to, and code that LangGraph executes again on a resume.
Chunking and detection run without interleaving; what is hard there is that an
algorithm loses or invents something on an input nobody wrote down: a text with
its spaces in the wrong places, an order of transfers in which path halving
meets a link, windows that overlap, a path that comes back. Between the data and the
detectors there is a pipeline of processes that know nothing of each other: a
script that seeds, one that loads the graph in batches, checks that read both
databases while they do. Registrations race for an email, and reports read
tables that others commit to.
`PROJECT.json` lists every hazard with its line and the properties that watch it.

What makes each component correct:

* investigations and approvals: what the agent hears from a reviewer is what the
  reviewer decided, for the ask it was decided for, once; a thread that waits
  is listed; a case shows the approval that is pending on it; a turn is traced once;
* chunking: chunks fit, the loop ends, no word is lost or cut where the overlap
  can prevent it;
* detection: exactly the accounts that show a pattern are flagged, once, with
  transactions that show it;
* knowledge base and gateway: a document is `ready` with all its chunks or `failed`
  with none, and the client was told which; an ask sees its own organisation's
  ready chunks and, while the index is no larger than what a scan of it reads, all of
  those it was promised; what `generate()` returns, and what
  the trace says, follows from the provider's replies;
* ingestion: a finished ingestion has loaded, whole, what was committed when it
  began, whatever ran beside it or died before it, and the graph holds nothing else;
* the pipeline: at the thresholds of the code, what was seeded and loaded is caught (chains
  as far as the query's limit), and
  ordinary activity is not taken for it, even in half a graph; the ground
  truth names rows that exist;
* registration: one user per email, organisations with their admin, tokens only
  for who gave that user's password;
* usage: the rows of a report account for its totals, and days part the traces.

## Modules

### Investigation

One organisation's investigations. A request is a handler with a program
counter; the code between two awaits is one action. Approvals and traces carry
the id of the request that wrote them, so the rows a call leaves are functions
from requests.

| Variable | Code |
|---|---|
| `pc`, `job` | where a handler is; what its request asks for |
| `mem`, `dirty` | the graph state inside `ainvoke()`; does the checkpointer still have to write it |
| `left` | what `recursion_limit` leaves |
| `pre` | `pre_call_messages`: empty or not, and how many model turns |
| `session` | a Session after a failed flush is `"broken"` |
| `loop` | a handler between two commits with no await between them holds its process's event loop |
| `cp` | the latest checkpoint of a thread: next node, last AIMessage, verdicts heard, a pending resume value |
| `cases`, `approvals`, `traces` | the tables |
| `crashes`, `spent` | history only: crashes, model answers per thread |

A handler goes `Post -> Begin -> Invoke -> (AgentTurn, ToolsComplete)* -> Return
-> TraceSuccess [-> Record]`, or `Pause`s, or leaves by `ToolsRaise`,
`OutOfSteps` or `Fails` through `TraceFailure`. `Decide -> Commit -> Begin` is
`decide_approval` followed by the resume. `Save` is a checkpoint write; LangGraph
writes in the background while the next node runs, so it is enabled at any time
after a change and must have happened before `ainvoke()` returns or raises
(`Flushed`). `Crash` ends every handler of a process and keeps the tables and
checkpoints.

What is abstract: a message is what its tool calls do to a case (`Doings`), whether
one of them asks, and the case it names; a case is named by its thread. A resume
value not yet consumed is kept with the checkpoint (LangGraph's pending RESUME
write) and serves the first node executed after it. A tool error becomes a
ToolMessage or an exception, nondeterministically. When a node stops at an
interrupt or fails, a sibling call's case write may have been committed or not
(`MayLand`). A `create_case` may fail its flush at any time, since the account and user
ids in it are the model's, and always does when the thread has a case (`CreateFails`). A
tool call that outlives its node until after `Record` is not
modelled, and neither is a Session's identity map.

### ApprovalGate

What the approval flow promises: an ask becomes a row, the row is decided once,
the agent is then told that decision for that ask, and while a thread waits for
a reviewer its agent is told nothing and asks nothing. `Investigation!Gate`
instantiates it with the approval rows and the verdicts in the checkpoints;
`ImplementsGate` says that every behaviour of `Investigation` is one of it.

### Chunking

`chunk_text`, over texts of letters, spaces and newlines: `strip()` removes both
kinds of white space and `rfind(" ")` sees one. `Begin` is everything before the
loop, `Step` one iteration: `Cuts` finds where the chunk ends, `Collect` strips
and appends it, `Advance` moves `start`. Positions count from 1 in the text as
passed, and a chunk is the interval of it that it holds, so that "some chunk
holds this word" says where and not only that an equal word occurs somewhere.

### DetectionRules

`run_all_rules`. `Record` fills the table before the rules run; the rules are one
action each, since each reads the table with one query and works on its result.
An amount is below, in or above the band of the structuring rule; times are
small integers. `txns` is the table in the order a query returns it, so rows of
one time are met in every order.

### MuleCommunities

`detect_mule_communities`. `pc`, `i`, `x` and `ra` are where the loops and `find()`
are, `parent` is `_UnionFind._parent`, `components` and `findings` the local
variables. `Halve` is one iteration of `find()`; `FindReceiver` and `Union` are the
rest of `union()`; `Group` is an iteration of the second loop over the edges; `Flag`
takes a component, in any order, with all it reports. `Community` defines the
weakly connected component of an account without recursion: what every set
around it that no transfer enters or leaves has in common.

### LayeringChains

`detect_layering_chains`. `Load` fills the graph; `Query` is the Cypher query, with
any choice of equally long paths at the limit; `Filter` drops paths that revisit
an account; `Dedupe` is an iteration of `_dedupe_to_longest_chains`; `Report`
makes the findings. What the match returns (a relationship once per path, an
account perhaps more often) and what `.hours` of a duration is (days are counted
apart) are Neo4j's semantics, taken from the docstring and the Cypher manual.

### ModelGateway

`generate()` of the active provider for each request in `Asks`. A round is one
`_call_with_retries()`; a repair starts a second round.

| Variable | Code |
|---|---|
| `gen` | where the call is (`"call"`: at the provider's client, `"sleep"`: between attempts), whether it has a `response_schema`, is in its repair, `attempt`, and the `GatewayResponse` |
| `said` | history: how each call of the client ended |

`Hears` is the client returning or raising; what follows is an action of its own:
`BackOff` and `Retry`, `GiveUp`, `Succeed`, `Repair`, `RejectRepair`, or `Escape` for an
exception that no clause catches. A reply is its class: a completion that parses
or not, a transient, a permanent or an unforeseen error. `tokens` says of how many
completions a result tells the usage; a completion whose `usage` is missing is not
distinguished.

### KnowledgeBase

Extends `ModelGateway` with the handlers around it: `POST /documents`, `POST /rag/ask`,
`POST /ai/ask`, their Sessions and the tables. The handlers are synchronous and run
in threads, so they interleave between any two statements.

| Variable | Code |
|---|---|
| `pc` | where each handler is |
| `pieces` | how many chunks `chunk_text` made |
| `tx` | what an upload's transaction has written and nobody else sees |
| `documents` | the committed document of an upload and its chunks |
| `index` | the chunks that the HNSW index has an entry of, dead and uncommitted ones among them |
| `kind`, `context` | which endpoint an ask came to; the chunks it retrieved |
| `traces` | the committed trace of an ask |
| `told`, `known` | what the client was answered; history: which uploads its organisation was told are ready when an ask arrived |
| `crowded` | history: the index held more than an index scan reads when an ask searched |

An upload goes `Upload -> Create -> Embed -> Store -> Commit -> Answer201`, or by
`EmbedFails` or `StoreFails` through `Undo`, the `except` branch of `ingest_document`.
An ask goes `Ask [-> Retrieve] -> CallModel* -> WriteTrace -> Respond`. `Break` is an
exception that nothing catches (`Exposed` says where), with the rollback of
`get_db`; `Crash` stops the server between any two steps and may recur.
`Refuse` is a dependency that raises, `Vacuum` the database clearing the index.

The migration `b2c3d4e5f6a7` puts an HNSW index on the embeddings. The planner may use it for
the search or not. A scan of it reads `hnsw.ef_search` entries (`ScanWidth`, 40 by
default), nearest first, and only then looks at their organisation and at what is
committed: `Reach` is what a search may go through, the whole index or part of it that has at
least `ScanWidth` entries, and `Nearest` filters and limits that. So chunks of other
organisations, of uploads under way and of uploads rolled back can take the places of one's own. Assumed
of pgvector: a scan finds `ef_search` entries if there are as many, and does not go on for
more (`hnsw.iterative_scan` is off by default).

What is abstract: `Nearest` returns any chunks the limit admits, since the ranking is
numeric; texts, prompts and citations are left out; a reader sees what is
committed when it reads (read committed); a commit whose acknowledgement is lost
is `Commit` followed by `Break`. `"direct"` is a call of `generate()` with a
`response_schema`: no endpoint makes one, and it is there so that the repair is
checked. Database deadlocks, the connection pool and clients that disconnect are not
modelled.

### GraphIngestion

`ingest_organization_to_graph` as the script runs it, any number of times and at once.

| Variable | Code |
|---|---|
| `db` | the committed entities, accounts and transactions |
| `graph` | Neo4j's nodes and its OWNS and TRANSFERRED relationships |
| `ingest` | where an execution is, and the rows it has read and not merged |
| `known` | history: what was committed when it began |

`ReadEntities`, `ReadAccounts` and `ReadTransactions` are the three SELECTs, each of
which sees what is committed when it runs; `MergeEntities`, `MergeAccounts` and
`MergeTransactions` merge a batch, any one that is possible, since the SELECTs have
no order. Rows of a batch whose MATCH finds nothing are dropped silently, as Cypher
does (`Owned`, `Matched`). `Abort` ends an execution between any two steps; its
earlier batches stay. `Store` is any other commit. Nothing in `src/` deletes or
changes these rows, so the model has no action that does.

### FraudPipeline

Extends `GraphIngestion` with what surrounds it: the seed script (`Generate`, `CommitSeed`,
`Truncate`, `WriteTruth`, `SeedDies`) and checks. A check is `get_account_detection`, the agent's
`query_relationship_graph` or `verify_detection.py`; `Structuring`, `FanIn`, `Classify`,
`Layering` and `Community` are its reads, `Unconfigured`, `DriverFails` and `DatabaseFails`
what goes wrong in it and who catches that. `Unreadable` is a `verify` whose file is missing,
empty or broken.

| Variable | Code |
|---|---|
| `seed` | where an execution is, what it has to generate, its rows |
| `file` | which execution the ground-truth file is of; or that there is none, it is empty, or it is no JSON |
| `check` | where a check is, who asked, what its detectors flagged, whether the graph answered; history: what was committed, loaded and in the file when it began, and whether the layering query's limit was exceeded by paths as long as a chain (`crowded`) |

A case is an account of a pattern with its companions, numbered within its execution; the
script makes two to five of each pattern but the background. `write_text` empties the file and then writes it, so two
executions may write over each other and a process may die in between. The layering query
orders its rows by length and returns `QueryLimit` of them (200 in the code), any of equal length;
`ByLayering` sees those only.

What a detector flags is taken from the detectors' own modules, instantiated at the
thresholds of the code: `Rules(table)!StructuringFindings`, `Rules(table)!FanInFindings`,
`Chains(edges)!Matches`, `Mules(edges)!Fits` and `Hubs`. That those algorithms compute
these definitions is what the runs and proofs of the detectors show. Amounts are
dollars and times hours, and executions share one `Now`. What the generator draws is a member of
a set of draws: of each account's background transactions (`BackgroundDraws`), of each paycheck with
its spending, each structured deposit, each victim's payment, the delays and the one or two parts
of what a mule hands on, each hop of a chain. For TLC such a set is a sample; the proofs
take any set within the ranges of the script (`BackgroundAssumption`, `PayAssumption`,
`DepositAssumption`, `VictimAssumption`, `OutboundAssumption`, `ChainAssumption`).

### Registration

`POST /auth/register`, `POST /auth/login`, `GET /users/me` and `get_current_user`. The handlers run in
threads and interleave between any two statements.

| Variable | Code |
|---|---|
| `organizations`, `users` | the committed rows |
| `tx` | the rows a handler has flushed and not committed |
| `handler` | where it is, and the email and password it was sent |
| `told` | the status and token its client got |

`Existing` is the lookup, `FlushOrganization` and `InsertUser` the flushes, `CommitUser` the commit.
`InsertUser` waits for the end of any transaction that has inserted the same email
and fails if that one committed: the unique index. `Break` is any other exception,
`CrashHandlers` the end of the process.

### Observability

Extends `Registration` with the requests that leave traces (`Ask`, `FlushTrace`, `CommitTrace`),
usage reports (`Report`, `Refuse`, `Overview`, `Breakdown`, `ByFeature`), the rollup of a thread
(`ThreadUsage`, `Rollup`) and a clock (`now`, `Tick`). A trace is stamped at its flush and
visible from its commit. `usage` holds what a report's queries found and, as history,
the traces that were committed at its first and its last query.

### MC modules

`MCInvestigation` names who serves which request and what the model may answer;
`MCKnowledgeBase` says whose request is whose; `MCChunking`, `MCMuleCommunities`, `MCDetectionRules` and
`MCLayeringChains` enumerate inputs and give symmetry sets; `MCFraudPipeline` says which
patterns the executions of the seed script mix and what they draw; `MCObservability` gives two organisations,
one with a deactivated admin, calls with and without a thread, tokens or a feature, and windows.

### Proof modules

`InvestigationProofs`, `ChunkingProofs`, `MuleCommunitiesProofs`, `DetectionRulesProofs` and
`LayeringChainsProofs` are about the modules they are named after; `KnowledgeProofs` about
`KnowledgeBase` and, first, the gateway below it; `FraudPipelineProofs` about `GraphIngestion`, alone and
within `FraudPipeline`; `RegistrationProofs` about `Registration` as `Observability` composes it. Lemmas about
sums over finite sets are in the two modules that need them, as a theorem of one component
cannot be cited where the variables of another are declared.

## Runs

The runs of `Investigation` use one thread, three or four requests and at most four node
executions per call. That is enough for a conversation with an ask, its decision,
and the retry or the second decision that disturbs it: every violation below
needs at most three requests, and every action is taken in the passing runs.
`MCRetries` checks the invariants, the refinement of `ApprovalGate` and liveness together.
`Reposts` states what clients do: POST a thread once (`"never"`), again when
their call has ended and no approval is listed (`"lost"`), as soon as the call
has ended (`"idle"`), or at any time (`"any"`). The code refuses none of these. `MCRetries` has
`"lost"`, and what it shows of re-POSTs is shown for such clients; `MCReposts` has `"idle"`. `MaxCrashes` and `StepLimit` are
the only other bounds, and both are guards of actions that the code may always
take or has itself. Requests of one process are interchangeable, so runs without
temporal properties over fairness use them as a symmetry set. Deadlock is not an
error where every request has been served.

| Run | Question | Result |
|---|---|---|
| `MCRetries` | one process, retries of lost calls, a crash: are verdicts real, is a listed approval one the checkpoint waits at, do case and approval agree, is a pause listed once everything has returned, are turns traced once, is all of this `ApprovalGate`, does every handler end, is every decision heard unless its call fails | holds |
| `MCReposts` | `OnePendingPerThread` when a paused thread is POSTed again | violated |
| `MCTwoProcesses` | `DecidedOnce` with two processes | violated |
| `MCChunking` | do chunks fit, is every short word whole in a chunk | holds |
| `MCDropped` | `NothingDropped` when a chunk is cut far back | violated |
| `MCRules` | does the structuring rule flag exactly the right accounts, is everyone flagged by fan-in/fan-out a mule, on evidence that shows it | holds |
| `MCCommunities` | do `find()` and the loops end, are components the connected ones, exactly the suspicious flagged but for clusters whose hub pays itself, with the whole cluster as evidence | holds |
| `MCLayering` | are exactly the accounts on chains flagged, and no chain within another | holds |
| `MCSlowHops` | `HopsRapid` when hops are days apart | violated |
| `MCKnowledge` | two uploads and an ask, failures and crashes anywhere: are documents whole or failed and told so, does an ask see its own organisation's ready chunks and, below the limit of an index scan, all it was promised, do traces and results follow from the provider's replies, does every request end | holds |
| `MCPipeline` | seeding, ingestion and checks at once, each failing anywhere: is the graph whole, is the ground truth committed, is what was seeded and loaded caught (chains: below the query's limit), is ordinary activity left alone, also by a graph that is half loaded | holds |
| `MCTenants` | registrations that race, traces across midnight, reports between commits: do tokens and organisations belong to whom they should, do reports add up and days part the traces | holds |

Each violation contradicts a sentence of the repository; `PROJECT.json`
"findings" quotes it.

### Statements that do not hold

These are defined in the modules, contradict what a reader would expect, and are
not among the runs. To see one violated, add it to the configuration named.

| Statement | Configuration | What happens |
|---|---|---|
| `FullCostRollup` | `MCRetries` | a call that raises passes its pre-call messages as its result, so the turns it paid for are in no trace (`investigation.py:297`) |
| `NoDoubleCount` | `MCRetries` with `Reposts = "any"` | two calls of one thread at a time: the second counts turns the first one traces (`investigation.py:270`) |
| `NoRerun` | `MCRetries` with `Replies <- Siblings` | a case write in the same message as an ask is executed again by the resume (`approval_tool.py:54`) |
| `ResumeFindsCase` | `MCRetries` with `Threads = {t1, t2}` and `Replies <- Foreign` | an ask about another thread's case: the assertion of the resume fails after the decision was committed (`investigation.py:350`) |
| `EveryDecisionIsHeard` | `MCRetries` | a resume that raises: the approval is decided and the agent never hears it (`approvals.py:50`) |
| `WordsNotSplit` | `MCChunking` | a chunk starts inside a word, since only ends are snapped to a space (`chunking.py:46`) |
| `HubHasOthers` | `MCCommunities` | a transfer to oneself counts as one from another member (`graph.py:218`), where the docstring says "other members" (`graph.py:184-185`) |
| `MulesFlagged` | `MCRules` | transfers out are looked for after the earliest window with enough senders only (`rules.py:165`) |
| `ChainsSurvive` | `MCLayering` | the query's limit is met by paths that are then dropped for revisiting an account (`graph.py:41`) |
| `OwnAreNotCrowdedOut` | `MCKnowledge` | an index scan stops at the chunks of others before it has met the organisation's own (`b2c3d4e5f6a7:100-103`); `document_chunk.py:17-18` says the filter comes before the limit |
| `NeverRaises` | `MCKnowledge` | an exception that is no `APIStatusError`, or a completion without choices, leaves `generate()` (`groq.py:149-159`); `base.py:47-51` asks providers not to raise |
| `AllTokensTold` | `MCKnowledge` | a result after a repair tells the usage of the second completion only (`groq.py:107-129`) |
| `EveryCallIsLogged` | `MCKnowledge` | a call that raised, or whose trace could not be committed, has no trace (`ai.py:43-58`) |
| `ErrorStoresNothing` | `MCKnowledge` | the refresh after the commit fails: a 500 for a document that is stored (`documents.py:36`) |
| `VictimsStayClear` | `MCPipeline` | a mule's victims are members of its community and flagged with it; `verify_detection.py:27` expects them not to be (`graph.py:227`) |
| `RuleCatchesMules` | `MCPipeline` with `early \in {5}` in `Payments` | the fan-out is looked for 48 hours after the fifth sender; with six victims who pay over 72 hours the mule waits for the last, and pays on too late for the rule (`rules.py:165`) |
| `EveryChainCaught` | `MCPipeline` | the layering query's limit is met by other chains (`graph.py:41`) |
| `NeverFails` | `MCPipeline` | the endpoint fails when Neo4j does not answer, since only an `HTTPException` is caught (`combined.py:54`) |
| `TruthTellsAll` | `MCPipeline` | a process that dies between the commit and the file or while it is written, or a second execution that overwrites it, leaves seeded accounts no file names (`seed_fraud_data.py:597`) |
| `EveryAccountOwned` | `MCPipeline` | an account committed between the first two SELECTs is loaded without its owner (`ingestion.py:117`) |
| `ReportConsistent` | `MCTenants` | a trace committed between the queries of a report is in its rows and not in its totals (`observability.py:58`) |

Bounds of the algorithm runs:

* `MCChunking`: every text of up to 8 characters over three kinds, chunks of 5 with
  an overlap of 2, so that up to three chunks, hard cuts, snapped cuts and blank
  slices all occur. What holds is proved for every size.
* `MCCommunities`: 4 accounts and up to 4 transfers in every order, enough for a tree
  of depth two that a `find()` then halves, for two components, for two hubs in
  one, and for a hub with enough other senders beside one that falls short and pays itself. Sizes are
  exactly 3, so some components are too small and some too large. Accounts are alike: a
  graph is taken with its accounts named in the order they are met (`GraphsOf`), in place
  of a symmetry set, which `Finishes` does not allow. What holds is proved for every graph and
  all bounds; only `Finishes` is not.
* `MCRules`: up to `MaxRows` = 4 rows at times up to `MaxTime`, against windows of 3
  deposits and of 2 senders: a window that is not the first, ties and both ends of
  each window occur.
* `MCLayering`: 4 accounts, up to `MaxEdges` = 4 transfers of two amounts at two times,
  chains of 2 or 3 hops, a limit of 3 that some graphs meet. `Day` and `MaxHopGap` are
  such that, as with 24 and 96, hours without days never exceed the gap.

* `MCKnowledge`: two uploads of different organisations of up to `MaxPieces` = 2 chunks,
  `TopK` = 2 and an ask of the first organisation, so that the other's chunks compete for
  the limit and a flush can fail after some rows; an index scan that stops at `ScanWidth` = 3
  of up to four entries, so that it can leave out one's own chunk and need not; `MaxRetries` = 1, so that each
  round has a retry and its last attempt. One ask is enough: asks share nothing but
  the tables they read. What holds is proved for every size; only `Answered` is not.
* `MCPipeline`: up to two executions of the seed script in mixtures that put a pattern alone or
  beside another one (`Mixtures`), an ingestion and a check of any kind. A mule network has eight
  accounts and eight transfers, and `BatchSize` is 5, so that it is loaded in two batches of each and a
  check meets the half of it, in any split. Two layering cases against `QueryLimit` = 1 meet the query's
  limit; one alone does not. Draws are at the ends of their ranges where a window is most easily
  missed: hops 48 hours apart that forward 90%, the two outbound transfers 2 and 36 hours after
  the last victim, victims at both ends of 72 hours, deposits at both ends of 10 days, paychecks late
  or not, background transfers of the largest amount in a row, a circle, pairs, a star, a circle with
  a tail. `MaxHops` is 4 and not the code's 6: a generated chain has `Hops` = 4 and patterns share
  no accounts, so no path of seeded transfers is longer. There is one ingestion and one check:
  that a second ingestion completes one that failed, and that half a chain flags nobody, is
  covered by the proofs (`IngestionWhole`, `OrdinaryAlwaysClear`) and not by this run.
* `MCTenants`: three requests of any kind, interchangeable (`Symmetric`): two that race and one that
  looks, or the reports of two adjacent windows and of the whole. A day has two ticks and
  the clock moves over a midnight (`LastTick` = 2); traces of the day before may be there.
  `DaysPartition` needs three reports, so no trace is committed between
  them in this run (the proof covers that); `TokensHold` two registrations and a login.

### Fairness

`FairSpec` asks weak fairness of each handler's own steps: asyncio runs every
coroutine that is ready, the model client and the checkpointer return or raise,
and background writes are carried out. Nothing is asked of clients, of errors or
of crashes. The fairness is per handler and not per action, so a handler may
still fail, pause or stop at its recursion limit as it likes. `HandlersEnd` and
`DecisionIsHeard` are stated as what holds from some time on, since no request comes back and no
verdict is forgotten.

`KnowledgeBase!FairSpec` asks weak fairness of each handler's steps, failures among them:
a thread that can run does, and client libraries return or raise (the provider's
has a timeout). Nothing is asked of clients or of crashes.

`FraudPipeline` and `Observability` state no liveness: every process may fail at any step, and
nothing in the code repeats one that did.

`MuleCommunities!FairSpec` asks weak fairness of `Next`: a sequential program that is
not stopped goes on.

## Proofs

`InvestigationProofs` proves for every value of the constants:

* `TypeCorrect`: `Spec => []TypeOK`. `TypeOK` is not inductive, since actions index tables by
  what a handler's job and message name: `TypeInv` adds that an active handler has a thread, a
  decide has an approval, a paused handler's message asks about a case, and a row that exists
  names a thread and a case.
* `VerdictsCorrect`: with one server process (`OneProcess`), `Spec => []VerdictsAreReal`, and
  `DecidedOnceCorrect`: `Spec => DecidedOnce`. They follow from `SafeInv`: `HoldsLoop` (a
  handler between two commits holds the event loop, so with one process at most one is there),
  `StillPending` (the row a decide read is still pending when it commits), `RecordIsLast` (a row
  exists only once its handler is done, so no `Record` overwrites a decided row),
  `CarriedIsReal` (a decide that has committed carries what the row says), `AnswersAreReal` (so
  does a resume value inside a run or a checkpoint) and `IdleIsBlank`. `OneProcess` is needed:
  `MCTwoProcesses` shows both fail without it. Nothing is assumed of clients, so re-POSTs,
  concurrent calls, exceptions and any number of crashes are covered.

The other properties depend on what clients do. `Polite` says that they POST a thread once, or
again when no call on it runs and no approval of it is listed (`Reposts \in {"never", "lost"}`). It
is an assumption about clients and not a guard of the code: `MCReposts` and "Statements that do
not hold" show what breaks for others. For any number of threads, of agents
that may name each other's cases, and of crashes and exceptions, it follows with `OneProcess`:

* `AwaitedCorrect` and `PausedIsListedCorrect`, from `CalmInv`, which adds
  to `SafeInv` that a thread has one running handler (`OneLive`), and none while an approval of
  it is pending, save the one about to commit its decision (`PendingIsAlone`); that an approval
  belongs to the thread of the request that left it (`RowOfJob`); that outside of `ainvoke()`
  nothing is unwritten (`CleanOutside`) and a run with nothing unwritten is what the checkpoint
  says (`InSync`); that a pause is unanswered (`PauseIsUnanswered`); and that the checkpoint of
  a pending or just decided approval is still at its ask (`Awaited`, `DecideReady`). None of
  them is inductive alone: a listed approval stays the awaited one because nobody else can move
  the checkpoint, and nobody can because the approval is listed.
* `ImplementsGateCorrect`: `Spec => ImplementsGate`. `FlowInv` adds that the verdicts in a
  conversation answer different asks, all made before its turn (`ConversationsFit`), and that
  what a handler has not written yet only adds verdicts to the checkpoint (`HeardGrows`), since
  one `Save` may tell several. `RecordAsks`, `CommitDecides` and `SaveTells` are the three steps
  of the mapping; all others stutter (`GateStep`).
* `CaseShowsCorrect`, if agents also name no case but their own (`OwnCases`). Without it it
  fails: a decision then goes to the case of another thread.

The sums over traces need a finite set of requests (`FiniteRequests`) besides `OneProcess` and
`Polite`:

* `CleanRunsAddUpCorrect`, from `TraceInv`, which adds to `CalmInv`:
  a handler that has not traced yet has an empty row (`Untraced`); the traces of a thread never
  tell more than its checkpoint holds, nor that more than the model took (`Ordered`), and all
  three agree when no call runs and none went wrong (`Settled`); while one runs, what was traced
  before is what it saw when it began (`RunsAdd`). The step that matters is the trace of one
  call (`HandlerAdds`): all other terms of the sum stay (`UsageStays`) and its own grows by what
  the run added (`UsageGrows`).

`MapThenSumSet` is a fold, and an induction over its set cannot be cited here. It is replaced by
a smallest counterexample: the sizes of the sets of which a fact fails have a least one
(`Least`), so some such set has no smaller one within it (`Smallest`), and taking an element out
of it contradicts that. So sums exist (`SumExists`), are unique (`SumUnique`) and do not depend
on the order in which the fold takes elements (`TotalAny`). The other modules use the same two
lemmas for counts and for paths.

`ChunkingProofs` proves for every text and every `Overlap < ChunkSize`:

* `ChunkingTypeCorrect`, and `ChunksCorrect`: `ChunksFit`, and `FewChunks`, which bounds the
  iterations of the loop.
* `WordsWholeCorrect`: when no word is longer than the overlap, every word is whole in some
  chunk. The inductive invariant `ChunkInv` says that every piece of a word that starts before
  `start` is held already (`Covered`); `PieceInReach` shows that a piece that starts before the
  next `start` ends before the cut. `ShortWords` is needed: `MCDropped` shows what happens
  without it.

`MuleCommunitiesProofs` proves for every finite set of accounts, every nonempty sequence of
transfers and all bounds, every invariant `MCCommunities` checks and two more (`Rooted`,
`OneReport`):

* `RootedCorrect` and `ForestCorrect`, from `ForestInv`. Connection is stated with sets and not
  with paths: a set of accounts is a union of trees exactly when no transfer so far enters or
  leaves it. Halving keeps which sets are unions of trees (`HalveWhole`), and linking keeps
  those that hold both ends (`UnionWhole`); no step needs induction on the depth of a tree.
  `Rooted` (a set that contains its parents contains a root) excludes cycles.
* `CommunitiesCorrect`, from `GroupInv` and `OneRoot`: two roots are never in one tree.
* `FlagsCorrect`, `EvidenceCorrect`, `OneReportCorrect`, from `FlagInv`: what has been looked at
  has been reported exactly when the code takes it for suspicious, and communities are disjoint.
  A hub that the code sees and the docstring does not is one that pays itself.

`DetectionRulesProofs` proves for tables of any length and any bounds that `MCRules` checks for
up to four rows:

* `StructuringCorrect`: an account is flagged for structuring exactly when `MinCount` of its
  deposits of the band lie within the window. The rule looks only at runs of consecutive
  deposits: if any `MinCount` of them fit, so do the first `MinCount` from the earliest of them
  (`SomeGroupIsShort`), since at least as many follow and each is no later than one of those
  (`FirstOfCount`).
* `EvidenceCorrect`: what a finding cites shows the pattern it is reported for (`GroupIs`,
  `MuleShows`).

`LayeringChainsProofs` proves for graphs of any size and any bounds, from `LayeringInv`:

* `ChainEvidenceCorrect`: what is reported is a chain. That the accounts of a path are as many
  as its transfers and one is the same as that none recurs (`SimpleIsInjective`,
  `SimpleIsChain`), and times grow along the whole path because they do from hop to hop
  (`TimesGrow`).
* `NoOverlapCorrect`: no kept chain lies within another (`KeptStaysApart`); longer paths are
  looked at first, so a later one can lie within an earlier, never around it, unless both have
  the same accounts.
* `ChainsFlaggedCorrect`: below the query's limit every chain is still to be looked at or
  covered (`Accounted`).

`KnowledgeProofs` proves, for any finite set of requests, any organisations, `MaxPieces`, `TopK`,
`ScanWidth` and `MaxRetries`, every invariant `MCKnowledge` checks (`StoredWhole`, `ToldWhatIsStored`,
`ContextIsOwn`, `ReadyFound`, `TracesTell`, `GatewayExplained`), and its types
(`KnowledgeTyped`), from one invariant, `KInv`:

* `UploadInv` ties an upload's `pc` to its transaction and its row: nothing is committed before
  `refresh`, what `commit` will write is whole or failed, and only a handler that is done has
  told.
* `OwnInv` ties an ask's `pc` to its trace and its answer, and `FoundInv` its context to the
  uploads. `FoundInv` is inductive because what an ask relies on never changes: a ready document
  keeps its status and, since its handler is done, its chunks. `IndexInv` says that the index has
  every row that is stored or about to be, whatever is vacuumed, and `ReachShape` that a scan of
  an index no larger than `ScanWidth` leaves nothing out; `NearestShape` is then the argument
  about the limit: fewer than `TopK` chunks are all. Beyond `ScanWidth` nothing is promised.
* `GatewayInv` gives the shape of the log of replies: transient errors but for the unparsable
  completion at which the repair began, as many as there were attempts. `RepliesExplain` and
  what a trace tells (`PlainResult`) follow.

No fairness and no bound on crashes is used. The frame lemmas (`UploadFrame`, `OwnFrame`,
`FoundFrame`, `AskFrame`) reduce each action to the entries of its own request.

`FraudPipelineProofs` proves of ingestion alone, for any rows, owners, `BatchSize` and number of
ingestions:

* `IngestionWhole`: `IngestionSpec => []IngestedWhole`. The invariant says of each execution
  that its three reads hold at least what was committed when it began (each read is later, and
  rows are never taken back), that what it has read and no longer has to merge is in the graph,
  and that entities are merged before accounts and accounts before transfers: a known account's
  owner, and a known transfer's accounts, are known too and so are in the graph when its batch
  is merged. A row that appeared in between may match nothing; it is not one that the ingestion
  knew.

and of the whole pipeline, for any generated data and any number of executions:

* `PipelineIngestsWhole`: `IngestedWhole` holds of the composition, since seeding reaches the
  tables by `Store` only and checks write nothing.
* `TruthAlwaysReal`: `TruthIsReal`. `Written` says that an execution that has committed has its
  accounts in the tables, and that the execution whose file it is has written it; `NotAnExecution`
  that a file that is missing, empty or broken names nobody.
* `OrdinaryAlwaysClear`: `OrdinaryStaysClear`, for every draw from the generator's ranges. The
  invariant is that every row there is was made by a generator (`SeedsMade`: `AllMade` of what is
  generated and of the tables; the graph has a part of them, by the ingestion's invariant) and
  that what a check has flagged so far is clear (`ChecksClear`). Why a step of a check keeps it:
  deposits in the band are made for structurers and the background only (`StructuringIsClear`);
  an account of a chain receives from one account (`OneSender`), so only mules, their
  destinations and the background have several senders (`FanInIsClear`), and a component is of
  one pattern (`ClusterIsOfOnePattern`, `CommunityIsClear`); three transfers in a row that begin
  with 15000 are of a chain, since background amounts end at 8000 and a mule's destination sends
  nothing on (`ThreeHopsAreOfAChain`, `LayeringIsClear`). None of this asks how much of the data is in
  the tables or the graph, which is why half of an ingestion flags nobody wrongly.
* `SeededAlwaysCaught`: `SeededAreCaught`, for every draw from the generator's ranges, and for
  chains while the graph has no more paths of four or more hops than the query returns. It is the
  converse, and needs what the rows do contain. What gives an account away is a predicate on a
  set of rows that more rows can only make true: three deposits in the band within two weeks
  (`Structured`), four transfers along a chain (`Chained`), six payments to a mule and one from
  it (`Networked`). Three theorems about the detectors' operators say that such rows are
  enough, whatever other rows the generators made: `StructurerFound`, `ChainFound`,
  `NetworkFound`. They rest on the sort leaving no row out and putting none before an earlier one
  (`InOrderIsSorted`), on the first three deposits from the earliest of those three ending no
  later than those do (`FirstThree`), on the four transfers being a path that visits no account
  twice (`ChainMatches`) and on the query returning longer paths first, so that only paths as long
  can leave it out (`LongestAreReturned`), and on a cluster having every account two transfers away
  (`ClusterReaches`) and none outside a network that no transfer leaves (`NetworkClosed`,
  `ClusterWithin`), so that it is neither too small nor too large to be suspicious. The invariant
  follows the evidence: a generator makes it together with its accounts (`GeneratedTells`; that
  every hop is at least half of the one before, and the first at least 15000, is `HopHands` and
  `LayeringIs`), it is in the tables with the accounts that are committed and in what an
  ingestion knew when it began (`SeedsEvident`), and so in the graph when that ingestion is done
  (`LoadedInGraph`). `ChecksCatch` says what a check was asked and what it must have flagged by
  now; no later step of a seeding, an ingestion or another check takes evidence away
  (`HeardStays`). That `verify` misses nothing its file names follows because the execution that
  wrote the file adds no account after it (`SeedsGrow`). TLC checked `SeedsEvident` and
  `ChecksCatch` as invariants of `MCPipeline` first.

What a detector finds is there the definition its own module proves its algorithm to compute; for
layering, of the rows the query returned. `LIMIT 200` is part of the model and of the theorem: a chain
matches once with four hops, and twice with three, and nothing else the generators make starts
with 15000, so it takes more than 200 chains, over 100 executions of the script for one
organisation, before one can be left out.

The sort by time and the search for a component are recursive functions: that they exist
(`Recursion`) and what they do step by step (`InOrderSteps`, `ClusterSteps`) is again proved by
a least counterexample.

`RegistrationProofs` proves for any requests, emails and passwords, beside any number of
requests for usage:

* `OneUserCorrect`, `OwnedCorrect` and `TokensCorrect`, from `RInv`. `Flushed` ties a handler's
  `pc` to what its transaction holds, `Given` says that a registration has an email and a
  password, `Distinct` that no two rows, flushed or committed, have one email (the index),
  `Made` that a user is what its request asked for, `Answered` that only who is done was told
  anything. `TokensHold` is kept because users are never changed and no other user of the email
  can come (`TokensKeep`).
* `DaysPartitionCorrect`, from `UInv`, which adds what each handler of the usage endpoints has
  found (`Proper`): the calls of an overview are a count of a finite set of traces that were
  there (`Counted`), between dates in order. Two adjacent windows share no tick and leave none
  out because both ends are midnights (`Midnights`).
* `ReportAddsUpCorrect`, from `LedgerInv`: a report's three queries told the traces of three
  sets, each within the next (`Summed`, `BrokenDown`, `Listed`). Grouping by any column parts a
  set of traces, so the rows of a grouped query add up to its totals (`RowsAddUp`), and more
  traces never total less (`TotalsGrow`).

Checked by TLC only: liveness (`HandlersEnd`, `DecisionIsHeard`, `Finishes`, `Answered`), which
is out of the prover's reach, and `NoDoubleCount`, which holds for a client that waits for its
calls and for no other. Every other safety invariant and every action property that a passing
run checks is a theorem. Types are not run where a theorem has them.

## Plan

1. Done: `Investigation`, `ApprovalGate`, their runs and the proofs above.
2. Done: `Chunking`, `MuleCommunities`, their proofs, `DetectionRules`, `LayeringChains`.
3. Done: `ModelGateway`, `KnowledgeBase` and their proofs.
4. Done: `GraphIngestion`, `FraudPipeline` and their proofs: three reads, batches of MERGE,
   crashes, re-runs, seeding, and what the detectors find in generated data.
5. Done: `Registration`, `Observability` and the proofs about registration.
6. Done: proofs of the properties of `Investigation` that depend on clients, for any threads, of
   the refinement of `ApprovalGate`, and of the sums over its traces.
7. Done: proofs of what the runs check of `DetectionRules`, `LayeringChains` and usage reports.
8. Done: the proofs that no detector takes ordinary activity for a pattern, and that the
   detectors miss nothing that was seeded, for the ranges of the generator and not samples.
9. Open: a run with two threads; `_max_txns_in_any_window` of `features.py` against its
   definition; a bound on the matches of the layering query in terms of the cases seeded, so that
   `SeededAlwaysCaught` could speak of executions instead of paths; two ingestions in `MCPipeline`.

## Not modelled

The fraud model (XGBoost) and its features, embeddings, password hashing and JWTs are numeric or
library code. Schemas and configuration have no behaviour of their own. Of the migrations,
the unique indexes (`Registration`, `Investigation`) and the HNSW index on embeddings (`KnowledgeBase`)
have, and are modelled; foreign keys are where a made-up id breaks a flush (`CreateFails`). `seed_corpus.py` is a loop over `ingest_document`,
which `KnowledgeBase` models, and the evaluations measure a live model. Read-only endpoints are modelled only where a
property reads what they return. Prices, averages and rounding of the usage report are left out.
