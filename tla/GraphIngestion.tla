---------------------------- MODULE GraphIngestion ----------------------------
(***************************************************************************)
(* ingest_organization_to_graph (app/graph/ingestion.py), as               *)
(* scripts/ingest_graph.py runs it: three SELECTs, each of which sees what *)
(* is committed when it runs, then MERGEs of batches of rows, each         *)
(* committed to Neo4j on its own.                                          *)
(*                                                                         *)
(* Rows are committed to Postgres at any time (Store), an ingestion may    *)
(* fail between any two steps, and several may run at once.  Neo4j locks   *)
(* the nodes that a MERGE of a relationship matched, so a relationship is  *)
(* not made twice.                                                         *)
(***************************************************************************)
EXTENDS Integers, FiniteSets

CONSTANTS
    Entities,
    Accounts,
    Owner,          \* entity_id of an account
    Outside,        \* the side of a transaction that is no account
    Transactions,   \* records with a type, a sender and a receiver
    Ingests,        \* executions of the script
    BatchSize

ASSUME IngestionAssumption ==
    /\ Owner \in [Accounts -> Entities]
    /\ Outside \notin Accounts
    /\ BatchSize \in Nat \ {0}

VARIABLES
    db,         \* the committed rows
    graph,
    ingest,     \* where each execution is, and the rows it still has to merge
    known       \* history: what was committed when it began

ingestionVars == <<graph, ingest, known>>

NoRows == [entities |-> {}, accounts |-> {}, transactions |-> {}]

IngestionInit ==
    /\ db = NoRows
    /\ graph = [entities |-> {}, accounts |-> {}, owns |-> {}, transfers |-> {}]
    /\ ingest = [i \in Ingests |->
                    [pc |-> "idle", entities |-> {}, accounts |-> {}, transfers |-> {}]]
    /\ known = [i \in Ingests |-> NoRows]

Ends(t) == {t.sender, t.receiver}

\* A commit that adds rows: foreign keys refer to rows that are there.
Store(es, as, ts) ==
    /\ \A a \in as : Owner[a] \in db.entities \cup es
    /\ \A t \in ts : Ends(t) \ {Outside} \subseteq db.accounts \cup as
    /\ db' = [entities |-> db.entities \cup es,
              accounts |-> db.accounts \cup as,
              transactions |-> db.transactions \cup ts]

------------------------------------------------------------------------------
(* The three reads *)

ReadEntities(i) ==
    /\ ingest[i].pc = "idle"
    /\ ingest' = [ingest EXCEPT ![i].pc = "accounts", ![i].entities = db.entities]
    /\ known' = [known EXCEPT ![i] = db]
    /\ UNCHANGED <<db, graph>>

ReadAccounts(i) ==
    /\ ingest[i].pc = "accounts"
    /\ ingest' = [ingest EXCEPT ![i].pc = "transactions", ![i].accounts = db.accounts]
    /\ UNCHANGED <<db, graph, known>>

\* Money that crosses the bank's boundary becomes no edge.
Internal(t) == Outside \notin Ends(t) /\ t.type \in {"transfer", "wire"}

ReadTransactions(i) ==
    /\ ingest[i].pc = "transactions"
    /\ ingest' = [ingest EXCEPT ![i].pc = "merge",
                                ![i].transfers = {t \in db.transactions : Internal(t)}]
    /\ UNCHANGED <<db, graph, known>>

------------------------------------------------------------------------------
(* The batches *)

\* A SELECT without ORDER BY returns rows in any order; the last batch may be
\* a short one.
Batches(rows) ==
    IF Cardinality(rows) <= BatchSize
      THEN {rows} \ {{}}
      ELSE {batch \in SUBSET rows : Cardinality(batch) = BatchSize}

MergeEntities(i) ==
    /\ ingest[i].pc = "merge"
    /\ \E batch \in Batches(ingest[i].entities) :
          /\ graph' = [graph EXCEPT !.entities = @ \cup batch]
          /\ ingest' = [ingest EXCEPT ![i].entities = @ \ batch]
    /\ UNCHANGED <<db, known>>

\* The OWNS edges that MATCH (e:Entity ...) lets a batch make.
Owned(batch) == {<<Owner[a], a>> : a \in {b \in batch : Owner[b] \in graph.entities}}

MergeAccounts(i) ==
    /\ ingest[i].pc = "merge"
    /\ ingest[i].entities = {}
    /\ \E batch \in Batches(ingest[i].accounts) :
          /\ graph' = [graph EXCEPT !.accounts = @ \cup batch, !.owns = @ \cup Owned(batch)]
          /\ ingest' = [ingest EXCEPT ![i].accounts = @ \ batch]
    /\ UNCHANGED <<db, known>>

\* A transfer one of whose accounts is no node matches nothing, silently.
Matched(batch) == {t \in batch : Ends(t) \subseteq graph.accounts}

\* Mutant: the transfers go in before the accounts.
EntitiesMerged(i) == ingest[i].entities = {}

NodesMerged(i) == ingest[i].entities = {} /\ ingest[i].accounts = {}

MergeTransactions(i) ==
    /\ ingest[i].pc = "merge"
    /\ NodesMerged(i)
    /\ \E batch \in Batches(ingest[i].transfers) :
          /\ graph' = [graph EXCEPT !.transfers = @ \cup Matched(batch)]
          /\ ingest' = [ingest EXCEPT ![i].transfers = @ \ batch]
    /\ UNCHANGED <<db, known>>

Finish(i) ==
    /\ ingest[i].pc = "merge"
    /\ NodesMerged(i)
    /\ ingest[i].transfers = {}
    /\ ingest' = [ingest EXCEPT ![i].pc = "done"]
    /\ UNCHANGED <<db, graph, known>>

\* A driver error, a database error or the end of the process.
Abort(i) ==
    /\ ingest[i].pc \in {"accounts", "transactions", "merge"}
    /\ ingest' = [ingest EXCEPT ![i].pc = "failed"]
    /\ UNCHANGED <<db, graph, known>>

IngestStep(i) ==
    \/ ReadEntities(i)
    \/ ReadAccounts(i)
    \/ ReadTransactions(i)
    \/ MergeEntities(i)
    \/ MergeAccounts(i)
    \/ MergeTransactions(i)
    \/ Finish(i)
    \/ Abort(i)

IngestionNext ==
    \/ \E es \in SUBSET Entities, as \in SUBSET Accounts, ts \in SUBSET Transactions :
          Store(es, as, ts) /\ UNCHANGED ingestionVars
    \/ \E i \in Ingests : IngestStep(i)

IngestionSpec == IngestionInit /\ [][IngestionNext]_<<db, ingestionVars>>

------------------------------------------------------------------------------
(* Properties *)

\* The graph of some rows.
GraphOf(rows) ==
    [entities |-> rows.entities,
     accounts |-> rows.accounts,
     owns |-> {<<Owner[a], a>> : a \in rows.accounts},
     transfers |-> {t \in rows.transactions : Internal(t)}]

Within(g, h) == \A part \in DOMAIN g : g[part] \subseteq h[part]

\* Whatever was committed when a finished ingestion began is in the graph,
\* with its edges, whatever was committed while it ran and whatever other
\* ingestions failed half-way; and nothing is in the graph that is not
\* committed.
IngestedWhole ==
    /\ \A i \in Ingests :
          ingest[i].pc = "done" => Within(GraphOf(known[i]), graph)
    /\ Within(graph, GraphOf(db))

\* The graph has an owner for every account in it.
EveryAccountOwned == \A a \in graph.accounts : <<Owner[a], a>> \in graph.owns

==============================================================================
