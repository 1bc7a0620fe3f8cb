-------------------------- MODULE FraudPipelineProofs --------------------------
(***************************************************************************)
(* Facts about any number of seedings, ingestions and checks at once,      *)
(* whatever the patterns they generate.                                    *)
(*                                                                         *)
(* A finished ingestion has loaded whatever was committed when it began:   *)
(* for any rows, any number of executions, any size of the batches,        *)
(* whatever is committed meanwhile and whichever executions fail.  The     *)
(* types of its invariant are relative to db: nothing is read, merged or   *)
(* remembered that is not committed, and db only grows.  Its other parts   *)
(* follow one execution: what was known when it began is in the graph or   *)
(* among the rows it still has, and an account it has merged is owned,     *)
(* because the account's entity was known before the accounts were read.   *)
(* The steps of the other processes keep it.                               *)
(*                                                                         *)
(* The ground-truth file names only what is committed: a seeding that has  *)
(* come to its file has its rows committed.                                *)
(*                                                                         *)
(* No detector takes an account for what it is not.  Every row there ever  *)
(* is was made by a generator (SeedsMade), and what generators make admits *)
(* no other finding: deposits in the band are a structurer's or the        *)
(* background's, an account of a chain receives from one account, nothing  *)
(* of a mule network moves three times, and a background transfer is too   *)
(* small to begin a chain.  A step of a check finds no more than that in   *)
(* the tables, or in the part of them that is in the graph.                *)
(*                                                                         *)
(* A detector misses nothing that was seeded, but for chains beyond the    *)
(* limit of the layering query.  What gives an account away is a few rows: *)
(* three deposits in the band within the window, the four transfers of a   *)
(* chain, the payments into and out of a mule (Structured, Chained,        *)
(* Networked).  A detector finds these whatever other rows there are: the  *)
(* sort leaves no row out, so the window that begins at the first of the   *)
(* three deposits is among those it looks at; the path of the four         *)
(* transfers is among the rows of the query, which come longest first,     *)
(* unless more paths of four or more hops than its limit are; and a        *)
(* cluster reaches the whole of a network and nothing else.  More rows     *)
(* only add evidence.  So the accounts of a seeding come with it (Tells),  *)
(* have it when they are committed and when an ingestion begins, and the   *)
(* graph has it when the ingestion is finished (SeedsEvident); a check     *)
(* that begins then holds it to its end (ChecksCatch).                     *)
(*                                                                         *)
(* The sort and the search for a component are recursive functions; what   *)
(* is needed of them is proved by the least number at which it would fail. *)
(***************************************************************************)
EXTENDS FraudPipeline, FiniteSetTheorems, WellFoundedInduction, TLAPS

InternalRows(rows) == {t \in rows.transactions : Internal(t)}
OwnEdges(rows) == {<<Owner[a], a>> : a \in rows.accounts}

Rows == [entities : SUBSET db.entities, accounts : SUBSET db.accounts,
         transactions : SUBSET db.transactions]

Phases == {"idle", "accounts", "transactions", "merge", "done", "failed"}

Parts == [entities : SUBSET db.entities, accounts : SUBSET db.accounts,
          owns : SUBSET OwnEdges(db), transfers : SUBSET InternalRows(db)]

Execution == [pc : Phases, entities : SUBSET db.entities, accounts : SUBSET db.accounts,
              transfers : SUBSET InternalRows(db)]

\* TYPE: everything is what is committed, or less.
Typed ==
    /\ db = [entities |-> db.entities, accounts |-> db.accounts, transactions |-> db.transactions]
    /\ graph \in Parts
    /\ ingest \in [Ingests -> Execution]
    /\ known \in [Ingests -> Rows]

\* Foreign keys.
Closed(rows) ==
    /\ \A a \in rows.accounts : Owner[a] \in rows.entities
    /\ \A t \in rows.transactions : Ends(t) \ {Outside} \subseteq rows.accounts

EntitiesKept(i) ==
    ingest[i].pc \in {"accounts", "transactions", "merge", "done"} =>
        known[i].entities \subseteq graph.entities \cup ingest[i].entities

AccountsKept(i) ==
    ingest[i].pc \in {"transactions", "merge", "done"} =>
        \A a \in known[i].accounts \ ingest[i].accounts :
            a \in graph.accounts /\ <<Owner[a], a>> \in graph.owns

TransfersKept(i) ==
    ingest[i].pc \in {"merge", "done"} =>
        InternalRows(known[i]) \subseteq graph.transfers \cup ingest[i].transfers

NothingLeft(i) ==
    ingest[i].pc = "done" =>
        ingest[i].entities = {} /\ ingest[i].accounts = {} /\ ingest[i].transfers = {}

Follows(i) ==
    /\ Closed(known[i])
    /\ EntitiesKept(i)
    /\ AccountsKept(i)
    /\ TransfersKept(i)
    /\ NothingLeft(i)

IngestionInv ==
    /\ Typed
    /\ Closed(db)
    /\ \A i \in Ingests : Follows(i)

------------------------------------------------------------------------------
(* The invariant holds at first and is kept by every step. *)

LEMMA InitKeeps == IngestionInit => IngestionInv
BY DEF IngestionInit, IngestionInv, Typed, Parts, Execution, Closed, Follows, NoRows, Rows, Phases, InternalRows,
       OwnEdges, EntitiesKept, AccountsKept, TransfersKept, NothingLeft

\* A commit, by whoever makes it.
LEMMA StoreKeeps ==
    ASSUME IngestionInv, NEW es, NEW as, NEW ts, Store(es, as, ts), UNCHANGED ingestionVars
    PROVE  IngestionInv'
<1>1. /\ db'.entities = db.entities \cup es
      /\ db'.accounts = db.accounts \cup as
      /\ db'.transactions = db.transactions \cup ts
  BY DEF Store
<1>2. UNCHANGED <<graph, ingest, known>>
  BY DEF ingestionVars
<1>3. InternalRows(db) \subseteq InternalRows(db)' /\ OwnEdges(db) \subseteq OwnEdges(db)'
  BY <1>1 DEF InternalRows, OwnEdges
<1>4. Typed'
  <2>1. db' = [entities |-> db'.entities, accounts |-> db'.accounts,
               transactions |-> db'.transactions]
    BY DEF Store
  <2>2. graph \in Parts'
    BY <1>1, <1>3 DEF IngestionInv, Typed, Parts
  <2>3. ingest \in [Ingests -> Execution']
    BY <1>1, <1>3 DEF IngestionInv, Typed, Execution
  <2>4. known \in [Ingests -> Rows']
    BY <1>1 DEF IngestionInv, Typed, Rows
  <2>5. QED BY <2>1, <2>2, <2>3, <2>4, <1>2 DEF Typed
<1>5. Closed(db)'
  <2>1. \A a \in db'.accounts : Owner[a] \in db'.entities
    BY <1>1 DEF Store, IngestionInv, Closed
  <2>2. \A t \in db'.transactions : Ends(t) \ {Outside} \subseteq db'.accounts
    BY <1>1 DEF Store, IngestionInv, Closed
  <2>3. QED BY <2>1, <2>2 DEF Closed, Ends
<1>6. \A i \in Ingests : Follows(i)'
  BY <1>2 DEF IngestionInv, Follows, Closed, EntitiesKept, AccountsKept, TransfersKept,
              NothingLeft, InternalRows, Ends, Internal
<1>7. QED BY <1>4, <1>5, <1>6 DEF IngestionInv

\* The types of a step that commits nothing are those of the state before it.
LEMMA TypedSame ==
    ASSUME Typed, UNCHANGED db, graph' \in Parts, ingest' \in [Ingests -> Execution],
           known' \in [Ingests -> Rows]
    PROVE  Typed'
<1>1. Parts' = Parts
  BY DEF Parts, OwnEdges, InternalRows
<1>2. Execution' = Execution
  BY DEF Execution, InternalRows
<1>3. Rows' = Rows
  BY DEF Rows
<1>4. QED BY <1>1, <1>2, <1>3 DEF Typed

\* The reads.
LEMMA ReadsKeep ==
    ASSUME IngestionInv, NEW i \in Ingests,
           ReadEntities(i) \/ ReadAccounts(i) \/ ReadTransactions(i)
    PROVE  IngestionInv'
<1>1. UNCHANGED <<db, graph>>
  BY DEF ReadEntities, ReadAccounts, ReadTransactions
<1>2. db \in Rows
  BY DEF IngestionInv, Typed, Rows
<1>3. Typed'
  <2>1. db \in Rows
    BY <1>2
  <2>2. known' \in [Ingests -> Rows]
    BY <2>1 DEF IngestionInv, Typed, ReadEntities, ReadAccounts, ReadTransactions
  <2>3. ingest' \in [Ingests -> Execution]
    <3>1. CASE ReadEntities(i)
      BY ZenonT(40), <3>1 DEF IngestionInv, Typed, Execution, Phases, ReadEntities
    <3>2. CASE ReadAccounts(i)
      BY ZenonT(40), <3>2 DEF IngestionInv, Typed, Execution, Phases, ReadAccounts
    <3>3. CASE ReadTransactions(i)
      <4>1. ingest' = [ingest EXCEPT ![i].pc = "merge", ![i].transfers = InternalRows(db)]
        BY <3>3 DEF ReadTransactions, InternalRows
      <4>2. QED BY ZenonT(40), <4>1 DEF IngestionInv, Typed, Execution, Phases
    <3>4. QED BY <3>1, <3>2, <3>3
  <2>4. QED BY <1>1, <2>2, <2>3, TypedSame DEF IngestionInv, Typed
<1>4. \A j \in Ingests \ {i} : ingest'[j] = ingest[j] /\ known'[j] = known[j]
  BY DEF IngestionInv, Typed, ReadEntities, ReadAccounts, ReadTransactions
<1>5. \A j \in Ingests \ {i} : Follows(j)'
  BY <1>1, <1>4 DEF IngestionInv, Follows, Closed, EntitiesKept, AccountsKept, TransfersKept,
                    NothingLeft, InternalRows
<1>6. Follows(i)'
  <2>1. CASE ReadEntities(i)
    <3>1. /\ ingest'[i].pc = "accounts" /\ ingest'[i].entities = db.entities
          /\ known'[i] = db
      BY <2>1 DEF ReadEntities, IngestionInv, Typed, Execution
    <3>2. QED
      BY <1>1, <3>1 DEF IngestionInv, Follows, Closed, EntitiesKept, AccountsKept,
                        TransfersKept, NothingLeft
  <2>2. CASE ReadAccounts(i)
    <3>1. /\ ingest[i].pc = "accounts" /\ ingest'[i].pc = "transactions"
          /\ ingest'[i].entities = ingest[i].entities
          /\ ingest'[i].accounts = db.accounts /\ known' = known
      BY <2>2 DEF ReadAccounts, IngestionInv, Typed, Execution
    <3>2. known[i].accounts \subseteq db.accounts
      BY DEF IngestionInv, Typed, Rows
    <3>3. QED
      BY <1>1, <3>1, <3>2 DEF IngestionInv, Follows, Closed, EntitiesKept, AccountsKept,
                              TransfersKept, NothingLeft
  <2>3. CASE ReadTransactions(i)
    <3>1. /\ ingest[i].pc = "transactions" /\ ingest'[i].pc = "merge"
          /\ ingest'[i].entities = ingest[i].entities
          /\ ingest'[i].accounts = ingest[i].accounts
          /\ ingest'[i].transfers = InternalRows(db) /\ known' = known
      BY <2>3 DEF ReadTransactions, IngestionInv, Typed, Execution, InternalRows
    <3>2. InternalRows(known[i]) \subseteq InternalRows(db)
      BY DEF IngestionInv, Typed, Rows, InternalRows
    <3>3. QED
      BY <1>1, <3>1, <3>2 DEF IngestionInv, Follows, Closed, EntitiesKept, AccountsKept,
                              TransfersKept, NothingLeft, InternalRows
  <2>4. QED BY <2>1, <2>2, <2>3
<1>7. QED BY <1>1, <1>3, <1>5, <1>6 DEF IngestionInv, Closed

\* The merges.  A batch is part of the rows the execution still has.
LEMMA BatchIsPart ==
    ASSUME NEW rows, NEW batch \in Batches(rows)
    PROVE  batch \subseteq rows
BY DEF Batches

LEMMA MergesKeep ==
    ASSUME IngestionInv, NEW i \in Ingests,
           MergeEntities(i) \/ MergeAccounts(i) \/ MergeTransactions(i)
    PROVE  IngestionInv'
<1>1. UNCHANGED <<db, known>> /\ ingest[i].pc = "merge"
  BY DEF MergeEntities, MergeAccounts, MergeTransactions
<1>2. /\ graph.entities \subseteq graph'.entities
      /\ graph.accounts \subseteq graph'.accounts
      /\ graph.owns \subseteq graph'.owns
      /\ graph.transfers \subseteq graph'.transfers
      /\ \A j \in Ingests \ {i} : ingest'[j] = ingest[j]
      /\ Typed'
      /\ Follows(i)'
  <2>1. CASE MergeEntities(i)
    <3>1. PICK batch \in Batches(ingest[i].entities) :
            /\ graph' = [graph EXCEPT !.entities = @ \cup batch]
            /\ ingest' = [ingest EXCEPT ![i].entities = @ \ batch]
      BY <2>1 DEF MergeEntities
    <3>2. batch \subseteq ingest[i].entities
      BY <3>1, BatchIsPart
    <3>3. batch \subseteq db.entities
      BY <3>2 DEF IngestionInv, Typed, Execution
    <3>4. /\ graph'.entities = graph.entities \cup batch
          /\ graph'.accounts = graph.accounts /\ graph'.owns = graph.owns
          /\ graph'.transfers = graph.transfers
          /\ ingest'[i] = [ingest[i] EXCEPT !.entities = @ \ batch]
          /\ \A j \in Ingests \ {i} : ingest'[j] = ingest[j]
      BY <3>1 DEF IngestionInv, Typed, Parts, Execution
    <3>5. Typed'
      <4>1. graph' \in Parts
        BY <3>1, <3>3 DEF IngestionInv, Typed, Parts
      <4>2. ingest' \in [Ingests -> Execution]
        BY <3>1 DEF IngestionInv, Typed, Execution
      <4>3. QED BY <1>1, <4>1, <4>2, TypedSame DEF IngestionInv, Typed
    <3>6. /\ ingest'[i].pc = "merge" /\ ingest'[i].entities = ingest[i].entities \ batch
          /\ ingest'[i].accounts = ingest[i].accounts
          /\ ingest'[i].transfers = ingest[i].transfers
      BY <1>1, <3>4 DEF IngestionInv, Typed, Execution
    <3>7. Follows(i)'
      BY <1>1, <3>4, <3>6 DEF IngestionInv, Follows, Closed, EntitiesKept, AccountsKept,
                              TransfersKept, NothingLeft, InternalRows
    <3>8. QED BY <3>4, <3>5, <3>7
  <2>2. CASE MergeAccounts(i)
    <3>1. PICK batch \in Batches(ingest[i].accounts) :
            /\ graph' = [graph EXCEPT !.accounts = @ \cup batch, !.owns = @ \cup Owned(batch)]
            /\ ingest' = [ingest EXCEPT ![i].accounts = @ \ batch]
      BY <2>2 DEF MergeAccounts
    <3>2. batch \subseteq ingest[i].accounts
      BY <3>1, BatchIsPart
    <3>3. batch \subseteq db.accounts /\ Owned(batch) \subseteq OwnEdges(db)
      BY <3>2 DEF IngestionInv, Typed, Execution, Owned, OwnEdges
    <3>4. /\ graph'.entities = graph.entities
          /\ graph'.accounts = graph.accounts \cup batch
          /\ graph'.owns = graph.owns \cup Owned(batch)
          /\ graph'.transfers = graph.transfers
          /\ ingest'[i] = [ingest[i] EXCEPT !.accounts = @ \ batch]
          /\ \A j \in Ingests \ {i} : ingest'[j] = ingest[j]
      BY <3>1 DEF IngestionInv, Typed, Parts, Execution
    <3>5. Typed'
      <4>1. graph' \in Parts
        BY <3>1, <3>3 DEF IngestionInv, Typed, Parts
      <4>2. ingest' \in [Ingests -> Execution]
        BY <3>1 DEF IngestionInv, Typed, Execution
      <4>3. QED BY <1>1, <4>1, <4>2, TypedSame DEF IngestionInv, Typed
    <3>6. /\ ingest'[i].pc = "merge" /\ ingest'[i].entities = ingest[i].entities
          /\ ingest'[i].accounts = ingest[i].accounts \ batch
          /\ ingest'[i].transfers = ingest[i].transfers
      BY <1>1, <3>4 DEF IngestionInv, Typed, Execution
    <3>7. \A a \in known[i].accounts \cap batch : <<Owner[a], a>> \in Owned(batch)
      <4>1. known[i].entities \subseteq graph.entities
        BY <1>1, <2>2 DEF MergeAccounts, IngestionInv, Follows, EntitiesKept
      <4>2. \A a \in known[i].accounts : Owner[a] \in known[i].entities
        BY DEF IngestionInv, Follows, Closed
      <4>3. QED BY <4>1, <4>2 DEF Owned
    <3>8. AccountsKept(i)'
      BY <1>1, <3>4, <3>6, <3>7 DEF IngestionInv, Follows, AccountsKept
    <3>9. Follows(i)'
      BY <1>1, <3>4, <3>6, <3>8 DEF IngestionInv, Follows, Closed, EntitiesKept,
                                    TransfersKept, NothingLeft, InternalRows
    <3>10. QED BY <3>4, <3>5, <3>9
  <2>3. CASE MergeTransactions(i)
    <3>1. PICK batch \in Batches(ingest[i].transfers) :
            /\ graph' = [graph EXCEPT !.transfers = @ \cup Matched(batch)]
            /\ ingest' = [ingest EXCEPT ![i].transfers = @ \ batch]
      BY <2>3 DEF MergeTransactions
    <3>2. batch \subseteq ingest[i].transfers
      BY <3>1, BatchIsPart
    <3>3. Matched(batch) \subseteq InternalRows(db)
      BY <3>2 DEF IngestionInv, Typed, Execution, Matched
    <3>4. /\ graph'.entities = graph.entities
          /\ graph'.accounts = graph.accounts /\ graph'.owns = graph.owns
          /\ graph'.transfers = graph.transfers \cup Matched(batch)
          /\ ingest'[i] = [ingest[i] EXCEPT !.transfers = @ \ batch]
          /\ \A j \in Ingests \ {i} : ingest'[j] = ingest[j]
      BY <3>1 DEF IngestionInv, Typed, Parts, Execution
    <3>5. Typed'
      <4>1. graph' \in Parts
        BY <3>1, <3>3 DEF IngestionInv, Typed, Parts
      <4>2. ingest' \in [Ingests -> Execution]
        BY <3>1 DEF IngestionInv, Typed, Execution
      <4>3. QED BY <1>1, <4>1, <4>2, TypedSame DEF IngestionInv, Typed
    <3>6. /\ ingest'[i].pc = "merge" /\ ingest'[i].entities = ingest[i].entities
          /\ ingest'[i].accounts = ingest[i].accounts
          /\ ingest'[i].transfers = ingest[i].transfers \ batch
      BY <1>1, <3>4 DEF IngestionInv, Typed, Execution
    <3>7. InternalRows(known[i]) \cap batch \subseteq Matched(batch)
      <4>1. known[i].accounts \subseteq graph.accounts
        BY <1>1, <2>3 DEF MergeTransactions, NodesMerged, IngestionInv, Follows, AccountsKept
      <4>2. \A t \in InternalRows(known[i]) : Ends(t) \subseteq known[i].accounts
        BY DEF IngestionInv, Follows, Closed, InternalRows, Internal
      <4>3. QED BY <4>1, <4>2 DEF Matched
    <3>8. TransfersKept(i)'
      BY <1>1, <3>4, <3>6, <3>7 DEF IngestionInv, Follows, TransfersKept, InternalRows
    <3>9. Follows(i)'
      BY <1>1, <3>4, <3>6, <3>8 DEF IngestionInv, Follows, Closed, EntitiesKept,
                                    AccountsKept, NothingLeft
    <3>10. QED BY <3>4, <3>5, <3>9
  <2>4. QED BY <2>1, <2>2, <2>3
<1>3. \A j \in Ingests \ {i} : Follows(j)'
  BY <1>1, <1>2 DEF IngestionInv, Follows, Closed, EntitiesKept, AccountsKept, TransfersKept,
                    NothingLeft, InternalRows
<1>4. QED BY <1>1, <1>2, <1>3 DEF IngestionInv, Closed

LEMMA EndsKeep ==
    ASSUME IngestionInv, NEW i \in Ingests, Finish(i) \/ Abort(i)
    PROVE  IngestionInv'
<1>1. UNCHANGED <<db, graph, known>>
  BY DEF Finish, Abort
<1>2. Typed'
  <2>1. ingest' \in [Ingests -> Execution]
    BY DEF Finish, Abort, IngestionInv, Typed, Execution, Phases
  <2>2. QED BY <1>1, <2>1, TypedSame DEF IngestionInv, Typed
<1>3. \A j \in Ingests \ {i} : ingest'[j] = ingest[j]
  BY DEF Finish, Abort, IngestionInv, Typed
<1>4. /\ ingest'[i].entities = ingest[i].entities /\ ingest'[i].accounts = ingest[i].accounts
      /\ ingest'[i].transfers = ingest[i].transfers
      /\ \/ /\ ingest[i].pc = "merge" /\ ingest'[i].pc = "done"
            /\ NodesMerged(i) /\ ingest[i].transfers = {}
         \/ ingest'[i].pc = "failed"
  BY DEF Finish, Abort, IngestionInv, Typed, Execution
<1>5. Follows(i)'
  BY <1>1, <1>4 DEF IngestionInv, Follows, Closed, EntitiesKept, AccountsKept, TransfersKept,
                    NothingLeft, InternalRows, NodesMerged
<1>6. \A j \in Ingests \ {i} : Follows(j)'
  BY <1>1, <1>3 DEF IngestionInv, Follows, Closed, EntitiesKept, AccountsKept, TransfersKept,
                    NothingLeft, InternalRows
<1>7. QED BY <1>1, <1>2, <1>5, <1>6 DEF IngestionInv, Closed

LEMMA IngestKeeps ==
    ASSUME IngestionInv, NEW i \in Ingests, IngestStep(i)
    PROVE  IngestionInv'
BY ReadsKeep, MergesKeep, EndsKeep DEF IngestStep

LEMMA StutterKeeps ==
    ASSUME IngestionInv, UNCHANGED <<db, ingestionVars>>
    PROVE  IngestionInv'
BY DEF ingestionVars, IngestionInv, Typed, Parts, Execution, Rows, InternalRows, OwnEdges, Closed, Follows,
       EntitiesKept, AccountsKept, TransfersKept, NothingLeft

------------------------------------------------------------------------------

\* What IngestedWhole says is in the invariant.
LEMMA InvIsWhole == IngestionInv => IngestedWhole
<1> SUFFICES ASSUME IngestionInv PROVE IngestedWhole
  OBVIOUS
<1>1. ASSUME NEW i \in Ingests, ingest[i].pc = "done"
      PROVE  Within(GraphOf(known[i]), graph)
  <2>1. known[i].entities \subseteq graph.entities
    BY <1>1 DEF IngestionInv, Follows, EntitiesKept, NothingLeft
  <2>2. known[i].accounts \subseteq graph.accounts /\ OwnEdges(known[i]) \subseteq graph.owns
    BY <1>1 DEF IngestionInv, Follows, AccountsKept, NothingLeft, OwnEdges
  <2>3. InternalRows(known[i]) \subseteq graph.transfers
    BY <1>1 DEF IngestionInv, Follows, TransfersKept, NothingLeft
  <2>4. QED BY <2>1, <2>2, <2>3 DEF Within, GraphOf, InternalRows, OwnEdges
<1>2. Within(graph, GraphOf(db))
  BY DEF IngestionInv, Typed, Parts, Within, GraphOf, InternalRows, OwnEdges
<1>3. QED BY <1>1, <1>2 DEF IngestedWhole

\* Rows that were committed when a finished ingestion began are in the graph,
\* with their edges, and the graph has nothing that is not committed.
THEOREM IngestionWhole == IngestionSpec => []IngestedWhole
<1>1. IngestionInv /\ [IngestionNext]_<<db, ingestionVars>> => IngestionInv'
  BY StoreKeeps, IngestKeeps, StutterKeeps DEF IngestionNext
<1>2. QED BY InitKeeps, <1>1, InvIsWhole, PTL DEF IngestionSpec

------------------------------------------------------------------------------
(* With seedings and checks *)

\* A seeding commits or leaves the rows alone.
LEMMA SeedsOnlyStore ==
    ASSUME NEW s \in Seeds, SeedStep(s)
    PROVE  UNCHANGED db \/ Store(seed[s].accounts, seed[s].accounts, seed[s].transactions)
BY DEF SeedStep, Generate, CommitSeed, Truncate, WriteTruth, SeedDies

LEMMA PipelineKeepsIngestion == IngestionInv /\ [Next]_vars => IngestionInv'
<1> SUFFICES ASSUME IngestionInv, [Next]_vars PROVE IngestionInv'
  OBVIOUS
<1>1. CASE \E s \in Seeds : SeedStep(s) /\ UNCHANGED <<ingestionVars, check>>
  BY <1>1, SeedsOnlyStore, StoreKeeps, StutterKeeps
<1>2. CASE \E i \in Ingests : IngestStep(i) /\ UNCHANGED <<seedVars, check>>
  BY <1>2, IngestKeeps
<1>3. CASE \E c \in Checks : CheckStep(c) /\ UNCHANGED <<db, ingestionVars, seedVars>>
  BY <1>3, StutterKeeps
<1>4. CASE UNCHANGED vars
  BY <1>4, StutterKeeps DEF vars
<1>5. QED BY <1>1, <1>2, <1>3, <1>4 DEF Next

\* Rows that were committed when a finished ingestion began are in the graph,
\* with their edges, while data is being seeded and checked.
THEOREM PipelineIngestsWhole == Spec => []IngestedWhole
<1>1. Init => IngestionInv
  BY InitKeeps DEF Init
<1>2. QED BY <1>1, PipelineKeepsIngestion, InvIsWhole, PTL DEF Spec

------------------------------------------------------------------------------
(* The ground-truth file *)

Written ==
    /\ seed = [s \in Seeds |->
                  [pc |-> seed[s].pc, todo |-> seed[s].todo,
                   accounts |-> seed[s].accounts, transactions |-> seed[s].transactions]]
    /\ \A s \in Seeds :
          seed[s].pc \in {"write", "writing", "done"} => seed[s].accounts \subseteq db.accounts
    /\ file \in Seeds => seed[file].pc = "done"

LEMMA NotAnExecution == Empty \notin Seeds /\ Broken \notin Seeds /\ NoFile \notin Seeds
<1>1. Seeds \subseteq Nat \ {NoFile}
  BY PipelineAssumption
<1> QED BY <1>1 DEF Empty, Broken, NoFile

LEMMA DbGrows ==
    ASSUME Next
    PROVE  db.accounts \subseteq db'.accounts
<1>1. CASE \E s \in Seeds : SeedStep(s) /\ UNCHANGED <<ingestionVars, check>>
  BY SMTT(30), <1>1, SeedsOnlyStore DEF Store
<1>2. CASE \E i \in Ingests : IngestStep(i) /\ UNCHANGED <<seedVars, check>>
  BY ZenonT(40), <1>2 DEF IngestStep, ReadEntities, ReadAccounts, ReadTransactions, MergeEntities,
              MergeAccounts, MergeTransactions, Finish, Abort
<1>3. CASE \E c \in Checks : CheckStep(c) /\ UNCHANGED <<db, ingestionVars, seedVars>>
  BY <1>3
<1>4. QED BY <1>1, <1>2, <1>3 DEF Next

\* What a seeding that is not at its end may do.
LEMMA SeedMoves ==
    ASSUME Written, NEW s \in Seeds, seed[s].pc # "done", db.accounts \subseteq db'.accounts,
           NEW pc, NEW todo, NEW accounts, NEW transactions,
           seed' = [q \in Seeds |-> seed'[q]], \A q \in Seeds \ {s} : seed'[q] = seed[q],
           seed'[s] = [pc |-> pc, todo |-> todo, accounts |-> accounts,
                       transactions |-> transactions],
           pc \in {"write", "writing", "done"} => accounts \subseteq db'.accounts,
           file' \in {file, Empty, Broken} \/ (file' = s /\ pc = "done")
    PROVE  Written'
<1>1. \A q \in Seeds :
         seed'[q] = [pc |-> seed'[q].pc, todo |-> seed'[q].todo,
                     accounts |-> seed'[q].accounts, transactions |-> seed'[q].transactions]
  BY DEF Written
<1>2. seed' = [q \in Seeds |->
                 [pc |-> seed'[q].pc, todo |-> seed'[q].todo,
                  accounts |-> seed'[q].accounts, transactions |-> seed'[q].transactions]]
  BY <1>1
<1>3. ASSUME NEW q \in Seeds, seed'[q].pc \in {"write", "writing", "done"}
      PROVE  seed'[q].accounts \subseteq db'.accounts
  BY <1>3 DEF Written
<1>4. ASSUME file' \in Seeds
      PROVE  seed'[file'].pc = "done"
  BY <1>4, NotAnExecution DEF Written
<1>5. QED BY <1>2, <1>3, <1>4 DEF Written

LEMMA SeedsKeepWritten ==
    ASSUME Written, NEW s \in Seeds, SeedStep(s), db.accounts \subseteq db'.accounts
    PROVE  Written'
<1>1. /\ DOMAIN seed = Seeds
      /\ seed[s] = [pc |-> seed[s].pc, todo |-> seed[s].todo,
                    accounts |-> seed[s].accounts, transactions |-> seed[s].transactions]
  BY DEF Written
<1>2. CASE Generate(s)
  <2>1. PICK job, case :
           seed' = [seed EXCEPT ![s].todo = @ \ {job},
                                ![s].accounts = @ \cup case.accounts,
                                ![s].transactions = @ \cup case.transactions]
    BY <1>2 DEF Generate
  <2>2. seed[s].pc = "generate" /\ UNCHANGED file
    BY <1>2 DEF Generate
  <2> DEFINE todo == seed[s].todo \ {job}
             accounts == seed[s].accounts \cup case.accounts
             transactions == seed[s].transactions \cup case.transactions
  <2>3. seed' = [seed EXCEPT ![s].todo = todo, ![s].accounts = accounts,
                             ![s].transactions = transactions]
    BY <2>1
  <2> HIDE DEF todo, accounts, transactions
  <2>4. /\ seed' = [q \in Seeds |-> seed'[q]]
        /\ \A q \in Seeds \ {s} : seed'[q] = seed[q]
        /\ seed'[s] = [pc |-> "generate", todo |-> todo, accounts |-> accounts,
                       transactions |-> transactions]
    BY <2>2, <2>3, <1>1
  <2>5. QED BY <2>2, <2>4, SeedMoves
<1>3. ASSUME NEW pc, seed' = [seed EXCEPT ![s].pc = pc], seed[s].pc # "done",
             pc \in {"write", "writing", "done"} => seed[s].accounts \subseteq db'.accounts,
             file' \in {file, Empty, Broken} \/ (file' = s /\ pc = "done")
      PROVE  Written'
  <2>1. /\ seed' = [q \in Seeds |-> seed'[q]]
        /\ \A q \in Seeds \ {s} : seed'[q] = seed[q]
        /\ seed'[s] = [pc |-> pc, todo |-> seed[s].todo,
                       accounts |-> seed[s].accounts, transactions |-> seed[s].transactions]
    BY <1>1, <1>3
  <2> QED BY <1>3, <2>1, SeedMoves
<1>4. CASE CommitSeed(s)
  <2>1. /\ seed' = [seed EXCEPT ![s].pc = "write"]
        /\ file' = file
        /\ seed[s].accounts \subseteq db'.accounts
        /\ seed[s].pc = "generate"
    BY <1>4 DEF CommitSeed, Store
  <2> QED BY <1>3, <2>1
<1>5. CASE Truncate(s)
  <2>1. /\ seed' = [seed EXCEPT ![s].pc = "writing"]
        /\ file' = Empty
        /\ seed[s].pc = "write"
    BY <1>5 DEF Truncate, MayWrite
  <2>2. seed[s].accounts \subseteq db'.accounts
    BY <2>1 DEF Written
  <2> QED BY <1>3, <2>1, <2>2
<1>6. CASE WriteTruth(s)
  <2>1. /\ seed' = [seed EXCEPT ![s].pc = "done"]
        /\ file' \in {s, Broken}
        /\ seed[s].pc = "writing"
    BY <1>6 DEF WriteTruth
  <2>2. seed[s].accounts \subseteq db'.accounts
    BY <2>1 DEF Written
  <2> QED BY <1>3, <2>1, <2>2
<1>7. CASE SeedDies(s)
  <2>1. /\ seed' = [seed EXCEPT ![s].pc = "failed"]
        /\ file' \in {file, Broken}
        /\ seed[s].pc # "done"
    BY <1>7 DEF SeedDies
  <2> QED BY <1>3, <2>1
<1> QED BY <1>2, <1>4, <1>5, <1>6, <1>7 DEF SeedStep

LEMMA WrittenKept == Written /\ [Next]_vars => Written'
<1> SUFFICES ASSUME Written, [Next]_vars PROVE Written'
  OBVIOUS
<1>1. CASE \E s \in Seeds : SeedStep(s) /\ UNCHANGED <<ingestionVars, check>>
  BY <1>1, SeedsKeepWritten, DbGrows DEF Next
<1>2. CASE UNCHANGED seedVars /\ Next
  BY <1>2, DbGrows DEF Written, seedVars
<1>3. CASE UNCHANGED vars
  BY <1>3 DEF Written, vars, seedVars
<1>4. QED BY <1>1, <1>2, <1>3 DEF Next

LEMMA InitWritten == Init => Written
BY NotAnExecution DEF Init, Written

\* The ground-truth file names accounts that are committed, however many
\* seedings write it and wherever one of them dies.
THEOREM TruthAlwaysReal == Spec => []TruthIsReal
<1>1. Init => Written
  BY InitWritten
<1>2. Written => TruthIsReal
  BY DEF Written, TruthIsReal, Truth
<1>3. QED BY <1>1, <1>2, WrittenKept, PTL DEF Spec

------------------------------------------------------------------------------
(* Recursive functions over an interval *)

LEMMA Least ==
    ASSUME NEW T \in SUBSET Nat, T # {}
    PROVE  \E m \in T : \A n \in T : m <= n
<1> DEFINE R == OpToRel(<, Nat)
<1>1. PICK m \in T : \A n \in T : ~ (<<n, m>> \in R)
  <2>1. IsWellFoundedOn(R, Nat)
    BY NatLessThanWellFounded
  <2> HIDE DEF R
  <2> QED BY <2>1, WFMin
<1>2. \A n \in T : ~ (n < m)
  BY <1>1 DEF OpToRel
<1> QED BY <1>2

\* From x in the first of the sets S each step F leads to the next of them.
Leads(N, U, S, F, x) ==
    /\ N \in Nat
    /\ x \in S[0]
    /\ \A n \in 0 .. N : S[n] \subseteq U
    /\ \A n \in 1 .. N : \A y \in S[n - 1] : F[n][y] \in S[n]

\* Then there is what these steps define.
LEMMA Recursion ==
    ASSUME NEW N, NEW U, NEW S, NEW F, NEW x, Leads(N, U, S, F, x)
    PROVE  \E g \in [0 .. N -> U] :
              /\ g[0] = x
              /\ \A n \in 1 .. N : g[n] = F[n][g[n - 1]]
              /\ \A n \in 0 .. N : g[n] \in S[n]
<1> USE DEF Leads
<1> DEFINE Good(g, m) ==
               /\ g \in [0 .. m -> U]
               /\ g[0] = x
               /\ \A n \in 1 .. m : g[n] = F[n][g[n - 1]]
               /\ \A n \in 0 .. m : g[n] \in S[n]
           Bad == {m \in 0 .. N : ~ \E g : Good(g, m)}
<1>1. SUFFICES ASSUME Bad # {} PROVE FALSE
  OBVIOUS
<1>2. PICK m \in Bad : \A n \in Bad : m <= n
  <2>1. Bad \in SUBSET Nat
    OBVIOUS
  <2> HIDE DEF Bad
  <2> QED BY <1>1, <2>1, Least
<1>3. m # 0
  <2> DEFINE g == [n \in 0 .. 0 |-> x]
  <2>1. Good(g, 0)
    OBVIOUS
  <2> QED BY <1>2, <2>1
<1>4. m \in 1 .. N
  BY <1>2, <1>3
<1>5. m - 1 \in 0 .. N /\ m - 1 \notin Bad
  <2> HIDE DEF Bad
  <2> QED BY <1>2, <1>4
<1>6. PICK g : Good(g, m - 1)
  BY <1>5
<1> DEFINE h == [n \in 0 .. m |-> IF n = m THEN F[m][g[m - 1]] ELSE g[n]]
<1>8. \A n \in 0 .. m - 1 : h[n] = g[n]
  BY <1>4
<1>9. h[m] = F[m][g[m - 1]]
  BY <1>4
<1> HIDE DEF h
<1>10. h[0] = x
  BY <1>4, <1>6, <1>8
<1>11. \A n \in 1 .. m : h[n] = F[n][h[n - 1]]
  <2> SUFFICES ASSUME NEW n \in 1 .. m PROVE h[n] = F[n][h[n - 1]]
    OBVIOUS
  <2>1. h[n - 1] = g[n - 1]
    BY <1>4, <1>8
  <2>2. CASE n = m
    BY <1>9, <2>1, <2>2
  <2>3. CASE n # m
    <3>1. n \in 1 .. m - 1 /\ n \in 0 .. m - 1
      BY <1>4, <2>3
    <3> HIDE DEF Bad
    <3> QED BY <1>6, <1>8, <2>1, <3>1
  <2> QED BY <2>2, <2>3
<1>12. \A n \in 0 .. m : h[n] \in S[n]
  <2> SUFFICES ASSUME NEW n \in 0 .. m PROVE h[n] \in S[n]
    OBVIOUS
  <2>1. CASE n = m
    <3>1. g[m - 1] \in S[m - 1]
      BY <1>4, <1>6
    <3> QED BY <1>4, <1>9, <2>1, <3>1
  <2>2. CASE n # m
    BY <1>4, <1>6, <1>8, <2>2
  <2> QED BY <2>1, <2>2
<1>13. \E k : Good(k, m)
  <2>1. h \in [0 .. m -> U]
    <3>1. \A n \in 0 .. m : h[n] \in U
      BY <1>4, <1>12
    <3> QED BY <3>1 DEF h
  <2> QED BY <1>10, <1>11, <1>12, <2>1
<1> QED BY <1>2, <1>13

LEMMA ImageFinite ==
    ASSUME NEW S, IsFiniteSet(S), NEW f
    PROVE  /\ IsFiniteSet({f[n] : n \in S})
           /\ Cardinality({f[n] : n \in S}) <= Cardinality(S)
<1> DEFINE T == {f[n] : n \in S}
           g == [n \in S |-> f[n]]
<1>1. g \in Surjection(S, T)
  BY DEF Surjection
<1> HIDE DEF g
<1> QED BY <1>1, FS_Surjection

LEMMA SequenceIsFunction ==
    ASSUME NEW S, NEW s \in Seq(S), NEW n, Len(s) = n
    PROVE  s \in [1 .. n -> S]
OBVIOUS

LEMMA EarliestExists ==
    ASSUME NEW ts, ts # {}, \A t \in ts : t.at \in Nat
    PROVE  \E t \in ts : \A u \in ts : t.at <= u.at
<1> DEFINE T == {t.at : t \in ts}
<1>1. T \in SUBSET Nat /\ T # {}
  OBVIOUS
<1>2. PICK m \in T : \A n \in T : m <= n
  <2> HIDE DEF T
  <2> QED BY <1>1, Least
<1> QED BY <1>2

\* What is left of some rows after the first n in s, and which is next.
Left(ts, s, n) == ts \ {s[k] : k \in 1 .. n}
IsFirst(t, ts) == t \in ts /\ \A u \in ts : t.at <= u.at

\* Rows are put in order one at a time, the earliest that is left next.
LEMMA InOrderSteps ==
    ASSUME NEW ts, IsFiniteSet(ts), \A t \in ts : t.at \in Nat
    PROVE  \E f :
              /\ InOrder(ts) = f[Cardinality(ts)]
              /\ \A n \in 0 .. Cardinality(ts) : f[n] \in [1 .. n -> ts]
              /\ \A n \in 1 .. Cardinality(ts) :
                    \E t : IsFirst(t, Left(ts, f[n - 1], n - 1)) /\ f[n] = Append(f[n - 1], t)
<1> DEFINE N == Cardinality(ts)
           Rest(n, s) == ts \ {s[k] : k \in 1 .. n - 1}
           Next1(n, s) == Append(s, CHOOSE t \in Rest(n, s) : \A u \in Rest(n, s) : t.at <= u.at)
           S == [n \in 0 .. N |-> [1 .. n -> ts]]
           F == [n \in 1 .. N |-> [s \in S[n - 1] |-> Next1(n, s)]]
           Body(g) == [n \in 0 .. N |-> IF n = 0 THEN <<>> ELSE Next1(n, g[n - 1])]
<1>1. N \in Nat
  BY FS_CardinalityType
<1>2. ASSUME NEW n \in 1 .. N, NEW s \in [1 .. n - 1 -> ts]
      PROVE  /\ Next1(n, s) \in [1 .. n -> ts]
             /\ \E t : IsFirst(t, Left(ts, s, n - 1)) /\ Next1(n, s) = Append(s, t)
  <2> HIDE DEF N
  <2>1. IsFiniteSet(1 .. n - 1) /\ Cardinality(1 .. n - 1) = n - 1
    BY <1>1, FS_Interval
  <2>2. Cardinality({s[k] : k \in 1 .. n - 1}) <= n - 1
    BY <2>1, ImageFinite
  <2>3. Rest(n, s) # {}
    <3>1. SUFFICES ASSUME ts \subseteq {s[k] : k \in 1 .. n - 1} PROVE FALSE
      OBVIOUS
    <3>2. ts = {s[k] : k \in 1 .. n - 1}
      BY <3>1
    <3> QED BY <1>1, <2>2, <3>2 DEF N
  <2>4. \E t \in Rest(n, s) : \A u \in Rest(n, s) : t.at <= u.at
    <3>1. \A t \in Rest(n, s) : t.at \in Nat
      OBVIOUS
    <3> HIDE DEF Rest
    <3> QED BY <2>3, <3>1, EarliestExists
  <2>5. PICK t \in ts : IsFirst(t, Left(ts, s, n - 1)) /\ Next1(n, s) = Append(s, t)
    BY <2>4 DEF IsFirst, Left
  <2>6. Append(s, t) \in [1 .. n -> ts]
    <3>1. n \in Nat /\ n - 1 \in Nat
      BY <1>1
    <3>2. s \in Seq(ts) /\ Len(s) = n - 1
      BY <3>1
    <3> HIDE DEF Rest, Next1
    <3>3. Append(s, t) \in Seq(ts) /\ Len(Append(s, t)) = n
      BY <3>1, <3>2
    <3> QED BY <3>1, <3>3, SequenceIsFunction
  <2> QED BY <2>5, <2>6
<1>3. <<>> \in S[0]
  BY <1>1
<1>4. \A n \in 1 .. N : \A s \in S[n - 1] : F[n][s] \in S[n]
  <2> SUFFICES ASSUME NEW n \in 1 .. N, NEW s \in S[n - 1] PROVE F[n][s] \in S[n]
    OBVIOUS
  <2>1. n \in 0 .. N /\ n - 1 \in 0 .. N
    BY <1>1
  <2>2. S[n - 1] = [1 .. n - 1 -> ts] /\ S[n] = [1 .. n -> ts]
    BY <2>1
  <2>3. F[n][s] = Next1(n, s)
    OBVIOUS
  <2> HIDE DEF S, F, Next1, N
  <2> QED BY <1>2, <2>2, <2>3
<1>5. PICK g \in [0 .. N -> Seq(ts)] :
         /\ g[0] = <<>>
         /\ \A n \in 1 .. N : g[n] = F[n][g[n - 1]]
         /\ \A n \in 0 .. N : g[n] \in S[n]
  <2>1. \A n \in 0 .. N : S[n] \subseteq Seq(ts)
    BY <1>1
  <2>2. Leads(N, Seq(ts), S, F, <<>>)
    <3> HIDE DEF N, S, F
    <3> QED BY <1>1, <1>3, <1>4, <2>1 DEF Leads
  <2> HIDE DEF N, S, F
  <2> QED BY <2>2, Recursion
<1>6. g = Body(g)
  <2>1. \A n \in 1 .. N : g[n] = Next1(n, g[n - 1])
    <3> SUFFICES ASSUME NEW n \in 1 .. N PROVE g[n] = Next1(n, g[n - 1])
      OBVIOUS
    <3>1. n - 1 \in 0 .. N
      BY <1>1
    <3>2. g[n - 1] \in S[n - 1]
      <4> HIDE DEF N, S, F, Next1
      <4> QED BY <1>5, <3>1
    <3>3. F[n][g[n - 1]] = Next1(n, g[n - 1])
      <4> HIDE DEF N, S, Next1
      <4> QED BY <3>2
    <3> HIDE DEF N, S, F, Next1
    <3> QED BY <1>5, <3>3
  <2>2. \A n \in 0 .. N : n # 0 => n \in 1 .. N
    BY <1>1
  <2>3. \A n \in 0 .. N : g[n] = Body(g)[n]
    <3> HIDE DEF N, S, F, Next1
    <3> QED BY <1>5, <2>1, <2>2
  <2>4. Body(g) = [n \in 0 .. N |-> Body(g)[n]]
    <3> HIDE DEF N, S, F, Next1
    <3> QED OBVIOUS
  <2> HIDE DEF Body, N, S, F, Next1
  <2> QED BY <1>5, <2>3, <2>4
<1> DEFINE f == CHOOSE h : h = Body(h)
<1>7. f = Body(f)
  <2> HIDE DEF Body
  <2> QED BY <1>6
<1>8. InOrder(ts) = f[N]
  BY DEF InOrder
<1>9. \A n \in 0 .. N : f[n] \in [1 .. n -> ts]
  <2> HIDE DEF f, N, Next1
  <2> DEFINE Bad == {n \in 0 .. N : f[n] \notin [1 .. n -> ts]}
  <2>1. SUFFICES ASSUME Bad # {} PROVE FALSE
    OBVIOUS
  <2>2. PICK m \in Bad : \A n \in Bad : m <= n
    <3>1. Bad \in SUBSET Nat
      OBVIOUS
    <3> HIDE DEF Bad
    <3> QED BY <2>1, <3>1, Least
  <2>3. m # 0
    <3>1. f[0] = <<>>
      BY <1>1, <1>7
    <3>2. <<>> \in [1 .. 0 -> ts]
      OBVIOUS
    <3>3. f[m] \notin [1 .. m -> ts]
      BY <2>2
    <3> QED BY <3>1, <3>2, <3>3
  <2>4. m \in 1 .. N /\ m \in 0 .. N /\ m - 1 \in 0 .. N /\ m - 1 \notin Bad
    <3>1. m \in 0 .. N
      BY <2>2
    <3> HIDE DEF Bad
    <3> QED BY <1>1, <2>2, <2>3, <3>1
  <2>5. f[m] = Next1(m, f[m - 1])
    <3> HIDE DEF Bad
    <3> QED BY <1>7, <2>3, <2>4
  <2>6. f[m - 1] \in [1 .. m - 1 -> ts]
    BY <2>4
  <2> HIDE DEF Next1
  <2> QED BY <1>2, <2>2, <2>4, <2>5, <2>6
<1>10. ASSUME NEW n \in 1 .. N
       PROVE  \E t : IsFirst(t, Left(ts, f[n - 1], n - 1)) /\ f[n] = Append(f[n - 1], t)
  <2> HIDE DEF f, N, Next1
  <2>1. n \in 0 .. N /\ n # 0 /\ n - 1 \in 0 .. N
    BY <1>1
  <2>2. f[n] = Next1(n, f[n - 1])
    BY <1>7, <2>1
  <2> DEFINE s == f[n - 1]
  <2>3. s \in [1 .. n - 1 -> ts]
    BY <1>9, <2>1
  <2> HIDE DEF s
  <2>4. PICK t : IsFirst(t, Left(ts, s, n - 1)) /\ Next1(n, s) = Append(s, t)
    BY <1>2, <2>3
  <2> QED BY <2>2, <2>4 DEF s
<1> HIDE DEF f
<1>11. /\ InOrder(ts) = f[N]
       /\ \A n \in 0 .. N : f[n] \in [1 .. n -> ts]
       /\ \A n \in 1 .. N :
             \E t : IsFirst(t, Left(ts, f[n - 1], n - 1)) /\ f[n] = Append(f[n - 1], t)
  <2> HIDE DEF N
  <2> QED BY <1>8, <1>9, <1>10
<1> WITNESS f
<1> QED BY <1>11

\* The rows in the order of their time are these rows.
LEMMA InOrderIsOfRows ==
    ASSUME NEW ts, IsFiniteSet(ts), \A t \in ts : t.at \in Nat
    PROVE  InOrder(ts) \in [1 .. Cardinality(ts) -> ts]
<1>1. PICK f : /\ InOrder(ts) = f[Cardinality(ts)]
               /\ \A n \in 0 .. Cardinality(ts) : f[n] \in [1 .. n -> ts]
  BY InOrderSteps
<1>2. Cardinality(ts) \in 0 .. Cardinality(ts)
  BY FS_CardinalityType
<1> QED BY <1>1, <1>2

\* The first n of them: in the order of time, each once, and none later than
\* what is left.
Ordered(ts, s, n) ==
    /\ \A k, l \in 1 .. n : k < l => s[k].at <= s[l].at /\ s[k] # s[l]
    /\ \A k \in 1 .. n : \A u \in Left(ts, s, n) : s[k].at <= u.at

LEMMA OrderedStep ==
    ASSUME NEW ts, \A t \in ts : t.at \in Nat, NEW n \in Nat \ {0}, NEW s \in [1 .. n - 1 -> ts],
           Ordered(ts, s, n - 1), NEW t, IsFirst(t, Left(ts, s, n - 1)), NEW r, r = Append(s, t)
    PROVE  Ordered(ts, r, n)
<1>1. n - 1 \in Nat /\ n \in Nat
  OBVIOUS
<1>2. Len(s) = n - 1 /\ s \in Seq(ts)
  BY <1>1
<1>3. r[n] = t /\ \A k \in 1 .. n - 1 : r[k] = s[k]
  BY <1>1, <1>2
<1>4. t \in ts /\ t \in Left(ts, s, n - 1) /\ \A u \in Left(ts, s, n - 1) : t.at <= u.at
  BY DEF IsFirst, Left
<1>5. \A k \in 1 .. n : k # n => k \in 1 .. n - 1
  BY <1>1
<1>6. ASSUME NEW k \in 1 .. n, NEW l \in 1 .. n, k < l
      PROVE  r[k].at <= r[l].at /\ r[k] # r[l]
  <2>1. k \in 1 .. n - 1
    BY <1>6
  <2>2. CASE l = n
    <3>1. s[k] # t /\ s[k].at <= t.at
      BY <1>4, <2>1 DEF Ordered, Left
    <3> QED BY <1>3, <2>1, <2>2, <3>1
  <2>3. CASE l # n
    BY <1>3, <1>5, <1>6, <2>1, <2>3 DEF Ordered
  <2> QED BY <2>2, <2>3
<1>7. ASSUME NEW k \in 1 .. n, NEW u \in Left(ts, r, n)
      PROVE  r[k].at <= u.at
  <2>1. u \in Left(ts, s, n - 1)
    <3>1. \A l \in 1 .. n - 1 : l \in 1 .. n
      BY <1>1
    <3> QED BY <1>3, <3>1 DEF Left
  <2>2. CASE k = n
    BY <1>3, <1>4, <2>1, <2>2
  <2>3. CASE k # n
    BY <1>3, <1>5, <2>1, <2>3 DEF Ordered
  <2> QED BY <2>2, <2>3
<1> QED BY <1>6, <1>7 DEF Ordered

\* They are in the order of time, and every row is there.
LEMMA InOrderIsSorted ==
    ASSUME NEW ts, IsFiniteSet(ts), \A t \in ts : t.at \in Nat
    PROVE  /\ \A k, l \in 1 .. Cardinality(ts) : k < l => InOrder(ts)[k].at <= InOrder(ts)[l].at
           /\ \A t \in ts : \E k \in 1 .. Cardinality(ts) : InOrder(ts)[k] = t
<1> DEFINE N == Cardinality(ts)
<1>1. N \in Nat
  BY FS_CardinalityType
<1> HIDE DEF N
<1>2. PICK f :
         /\ InOrder(ts) = f[N]
         /\ \A n \in 0 .. N : f[n] \in [1 .. n -> ts]
         /\ \A n \in 1 .. N :
               \E t : IsFirst(t, Left(ts, f[n - 1], n - 1)) /\ f[n] = Append(f[n - 1], t)
  BY InOrderSteps DEF N
<1>3. \A n \in 0 .. N : Ordered(ts, f[n], n)
  <2> DEFINE Bad == {n \in 0 .. N : ~Ordered(ts, f[n], n)}
  <2>1. SUFFICES ASSUME Bad # {} PROVE FALSE
    OBVIOUS
  <2>2. PICK m \in Bad : \A n \in Bad : m <= n
    <3>1. Bad \in SUBSET Nat
      BY <1>1
    <3> HIDE DEF Bad
    <3> QED BY <2>1, <3>1, Least
  <2>3. m \in 0 .. N /\ ~Ordered(ts, f[m], m)
    BY <2>2
  <2>4. m # 0
    <3>1. Ordered(ts, f[0], 0)
      BY DEF Ordered
    <3> QED BY <2>3, <3>1
  <2>5. m \in 1 .. N /\ m \in Nat \ {0} /\ m - 1 \in 0 .. N /\ m - 1 \notin Bad
    <3> HIDE DEF Bad
    <3> QED BY <1>1, <2>2, <2>3, <2>4
  <2>6. Ordered(ts, f[m - 1], m - 1) /\ f[m - 1] \in [1 .. m - 1 -> ts]
    BY <1>2, <2>5
  <2>7. PICK t : IsFirst(t, Left(ts, f[m - 1], m - 1)) /\ f[m] = Append(f[m - 1], t)
    BY <1>2, <2>5
  <2> QED BY <2>3, <2>5, <2>6, <2>7, OrderedStep
<1> DEFINE s == InOrder(ts)
<1>4. Ordered(ts, s, N) /\ s \in [1 .. N -> ts]
  BY <1>1, <1>2, <1>3
<1> HIDE DEF s
<1>5. s \in Injection(1 .. N, ts)
  <2> SUFFICES ASSUME NEW k \in 1 .. N, NEW l \in 1 .. N, k # l PROVE s[k] # s[l]
    BY <1>4 DEF Injection, IsInjective
  <2>1. k < l \/ l < k
    BY <1>1
  <2> QED BY <1>4, <2>1 DEF Ordered
<1>6. Cardinality(1 .. N) = Cardinality(ts)
  BY <1>1, FS_Interval DEF N
<1>7. s \in Surjection(1 .. N, ts)
  BY <1>5, <1>6, FS_Injection
<1>8. \A t \in ts : \E k \in 1 .. N : s[k] = t
  BY <1>7 DEF Surjection
<1> QED BY <1>4, <1>8 DEF Ordered, N, s

------------------------------------------------------------------------------
(* The component of an account *)

\* Some accounts and those that share a transfer with one of them.
Near(ts, near) == near \cup UNION {Ends(t) : t \in {u \in ts : Ends(u) \cap near # {}}}

\* A cluster grows from its account by what is near, as often as there are rows.
LEMMA ClusterSteps ==
    ASSUME NEW ts, IsFiniteSet(ts), NEW a
    PROVE  \E f : /\ Cluster(a, ts) = f[Cardinality(ts)]
                  /\ f[0] = {a}
                  /\ \A n \in 1 .. Cardinality(ts) : f[n] = Near(ts, f[n - 1])
<1> DEFINE N == Cardinality(ts)
           W == {a} \cup UNION {Ends(t) : t \in ts}
           S == [n \in 0 .. N |-> SUBSET W]
           F == [n \in 1 .. N |-> [near \in SUBSET W |-> Near(ts, near)]]
           Body(g) == [n \in 0 .. N |-> IF n = 0 THEN {a} ELSE Near(ts, g[n - 1])]
<1>1. N \in Nat
  BY FS_CardinalityType
<1>2. ASSUME NEW near \in SUBSET W
      PROVE  Near(ts, near) \in SUBSET W
  BY DEF Near
<1>3. {a} \in SUBSET W
  OBVIOUS
<1> HIDE DEF N, W
<1>4. \A n \in 1 .. N : \A near \in SUBSET W : F[n][near] = Near(ts, near)
  OBVIOUS
<1>5. \A n \in 0 .. N : S[n] = SUBSET W
  OBVIOUS
<1>6. Leads(N, SUBSET W, S, F, {a})
  <2> HIDE DEF S, F
  <2>1. \A n \in 1 .. N : n - 1 \in 0 .. N /\ n \in 0 .. N /\ 0 \in 0 .. N
    BY <1>1
  <2>2. 0 \in 0 .. N
    BY <1>1
  <2> QED BY <1>1, <1>2, <1>3, <1>4, <1>5, <2>1, <2>2 DEF Leads
<1>7. PICK g \in [0 .. N -> SUBSET W] :
         /\ g[0] = {a}
         /\ \A n \in 1 .. N : g[n] = F[n][g[n - 1]]
         /\ \A n \in 0 .. N : g[n] \in S[n]
  <2> HIDE DEF S, F
  <2> QED BY <1>6, Recursion
<1>8. g = Body(g)
  <2> HIDE DEF F, S
  <2>1. \A n \in 0 .. N : n # 0 => n \in 1 .. N /\ n - 1 \in 0 .. N
    BY <1>1
  <2>2. \A n \in 0 .. N : g[n] = IF n = 0 THEN {a} ELSE Near(ts, g[n - 1])
    BY <1>4, <1>7, <2>1
  <2> QED BY <1>7, <2>2
<1> DEFINE f == CHOOSE h : h = Body(h)
<1>9. f = Body(f)
  <2> HIDE DEF Body
  <2> QED BY <1>8
<1>10. Cluster(a, ts) = f[N]
  BY DEF Cluster, N, Near
<1>11. f[0] = {a} /\ \A n \in 1 .. N : f[n] = Near(ts, f[n - 1])
  <2> HIDE DEF f
  <2>1. 0 \in 0 .. N /\ \A n \in 1 .. N : n \in 0 .. N /\ n # 0
    BY <1>1
  <2> QED BY <1>9, <2>1
<1> HIDE DEF f
<1> WITNESS f
<1> QED BY <1>10, <1>11 DEF N

\* A cluster stays within accounts that no transfer leaves.
LEMMA ClusterWithin ==
    ASSUME NEW ts, IsFiniteSet(ts), NEW W, NEW a \in W,
           \A t \in ts : Ends(t) \cap W # {} => Ends(t) \subseteq W
    PROVE  Cluster(a, ts) \subseteq W
<1> DEFINE N == Cardinality(ts)
<1>1. N \in Nat
  BY FS_CardinalityType
<1>2. PICK f : /\ Cluster(a, ts) = f[N]
               /\ f[0] = {a}
               /\ \A n \in 1 .. N : f[n] = Near(ts, f[n - 1])
  BY ClusterSteps
<1> HIDE DEF N
<1> DEFINE Bad == {n \in 0 .. N : ~(f[n] \subseteq W)}
<1>3. SUFFICES ASSUME Bad # {} PROVE FALSE
  BY <1>1, <1>2
<1>4. PICK m \in Bad : \A n \in Bad : m <= n
  <2>1. Bad \in SUBSET Nat
    OBVIOUS
  <2> HIDE DEF Bad
  <2> QED BY <1>3, <2>1, Least
<1>5. m \in 0 .. N /\ ~(f[m] \subseteq W)
  BY <1>4
<1>6. m # 0
  BY <1>2, <1>5
<1>7. m \in 1 .. N /\ m - 1 \in 0 .. N /\ m - 1 \notin Bad
  <2> HIDE DEF Bad
  <2> QED BY <1>1, <1>4, <1>5, <1>6
<1>8. f[m - 1] \subseteq W /\ f[m] = Near(ts, f[m - 1])
  BY <1>2, <1>7
<1>9. Near(ts, f[m - 1]) \subseteq W
  BY <1>8 DEF Near
<1> QED BY <1>5, <1>8, <1>9

\* It has the ends of the account's transfers, and of those that follow on one.
LEMMA ClusterReaches ==
    ASSUME NEW ts, IsFiniteSet(ts), NEW a, NEW t \in ts, a \in Ends(t)
    PROVE  /\ Ends(t) \subseteq Cluster(a, ts)
           /\ \A u \in ts : Ends(t) \cap Ends(u) # {} => Ends(u) \subseteq Cluster(a, ts)
<1> DEFINE N == Cardinality(ts)
<1>1. N \in Nat /\ N # 0
  BY FS_CardinalityType, FS_EmptySet
<1>2. PICK f : /\ Cluster(a, ts) = f[N]
               /\ f[0] = {a}
               /\ \A n \in 1 .. N : f[n] = Near(ts, f[n - 1])
  BY ClusterSteps
<1>3. ASSUME NEW u \in ts, u # t PROVE N >= 2
  <2>1. IsFiniteSet({t}) /\ Cardinality({t}) = 1
    BY FS_Singleton
  <2> HIDE DEF N
  <2>2. u \notin {t}
    BY <1>3
  <2>3. Cardinality({t} \cup {u}) = Cardinality({t}) + 1
    BY <2>1, <2>2, FS_AddElement
  <2>4. Cardinality({t} \cup {u}) <= N
    BY FS_Subset DEF N
  <2> QED BY <1>1, <2>1, <2>3, <2>4
<1> HIDE DEF N
<1>4. \A n \in 1 .. N : f[n - 1] \subseteq f[n]
  BY <1>2 DEF Near
<1>5. ASSUME NEW k \in 0 .. N PROVE f[k] \subseteq f[N]
  <2> DEFINE Bad == {n \in k .. N : ~(f[k] \subseteq f[n])}
  <2>1. SUFFICES ASSUME Bad # {} PROVE FALSE
    BY <1>1
  <2>2. PICK m \in Bad : \A n \in Bad : m <= n
    <3>1. Bad \in SUBSET Nat
      BY <1>1
    <3> HIDE DEF Bad
    <3> QED BY <2>1, <3>1, Least
  <2>3. m \in k .. N /\ ~(f[k] \subseteq f[m])
    BY <2>2
  <2>4. m # k
    BY <2>3
  <2>5. m \in 1 .. N /\ m - 1 \in k .. N /\ m - 1 \notin Bad
    <3> HIDE DEF Bad
    <3> QED BY <1>1, <2>2, <2>3, <2>4
  <2> QED BY <1>4, <2>3, <2>5
<1>6. f[1] = Near(ts, {a}) /\ f[1] \subseteq f[N]
  <2>1. 1 \in 1 .. N /\ 1 \in 0 .. N /\ 1 - 1 = 0
    BY <1>1
  <2> QED BY <1>2, <1>5, <2>1
<1>7. Ends(t) \subseteq f[1]
  BY <1>6 DEF Near
<1>8. ASSUME NEW u \in ts, Ends(t) \cap Ends(u) # {}
      PROVE  Ends(u) \subseteq f[N]
  <2>1. CASE u = t
    BY <1>6, <1>7, <2>1
  <2>2. CASE u # t
    <3>1. 2 \in 1 .. N /\ 2 \in 0 .. N /\ 2 - 1 = 1
      BY <1>1, <1>3, <2>2
    <3>2. f[2] = Near(ts, f[1])
      BY <1>2, <3>1
    <3>3. Ends(u) \subseteq f[2]
      BY <1>7, <1>8, <3>2 DEF Near
    <3> QED BY <1>5, <3>1, <3>3
  <2> QED BY <2>1, <2>2
<1> QED BY <1>2, <1>6, <1>7, <1>8

\* Both sides of a transfer of a pattern are of this pattern, so whatever a
\* cluster has is of one pattern.
LEMMA ClusterIsOfOnePattern ==
    ASSUME NEW ts, IsFiniteSet(ts), \A t \in ts : t.sender.pattern = t.receiver.pattern, NEW a
    PROVE  \A b \in Cluster(a, ts) : b.pattern = a.pattern
<1> DEFINE W == {b \in {a} \cup UNION {Ends(t) : t \in ts} : b.pattern = a.pattern}
<1>1. ASSUME NEW t \in ts, NEW b \in Ends(t) \cap W
      PROVE  Ends(t) \subseteq W
  <2>1. t.sender.pattern = a.pattern /\ t.receiver.pattern = a.pattern
    BY DEF Ends
  <2> QED BY <2>1 DEF Ends
<1>2. a \in W
  OBVIOUS
<1>3. Cluster(a, ts) \subseteq W
  <2> HIDE DEF W
  <2> QED BY <1>1, <1>2, ClusterWithin
<1> QED BY <1>3

------------------------------------------------------------------------------
(* What the generators make *)

\* How money is handed on within a pattern: an account of a chain has one that
\* it receives from, and what a mule network pays out goes no further.
\* What background accounts move, and what a chain may begin with.
OrdinaryAmounts == 50 .. 8000
Large(amount) == amount >= 15000

AmongBackground(t) ==
    /\ t.sender.pattern = "background" /\ t.receiver.pattern = "background"
    /\ t.amount \in OrdinaryAmounts

MuleOf(case) == Name(case, "mule_network", "mule", 1)
DestinationOf(case) == Name(case, "mule_network", "destination", 1)
VictimOf(case, n) == Name(case, "mule_network", "victim_source", n)

AmongMules(t) ==
    \E case \in Cases :
       \/ t.receiver = MuleOf(case) /\ \E n \in 1 .. MuleVictims : t.sender = VictimOf(case, n)
       \/ t.sender = MuleOf(case) /\ t.receiver = DestinationOf(case)

AlongChain(t) ==
    \E case \in Cases, n \in 1 .. Hops :
       t.sender = ChainAccount(case, n) /\ t.receiver = ChainAccount(case, n + 1)

Handed(t) == AmongBackground(t) \/ AmongMules(t) \/ AlongChain(t)

LEMMA MulesHand ==
    ASSUME NEW t, AmongMules(t)
    PROVE  /\ t.sender.pattern = "mule_network" /\ t.receiver.pattern = "mule_network"
           /\ \/ t.sender.role = "victim_source" /\ t.receiver.role = "mule"
              \/ t.sender.role = "mule" /\ t.receiver.role = "destination"
<1>1. PICK case \in Cases :
         \/ t.receiver = MuleOf(case) /\ \E n \in 1 .. MuleVictims : t.sender = VictimOf(case, n)
         \/ t.sender = MuleOf(case) /\ t.receiver = DestinationOf(case)
  BY DEF AmongMules
<1>2. /\ MuleOf(case).pattern = "mule_network" /\ MuleOf(case).role = "mule"
      /\ DestinationOf(case).pattern = "mule_network" /\ DestinationOf(case).role = "destination"
      /\ \A n : VictimOf(case, n).pattern = "mule_network" /\ VictimOf(case, n).role = "victim_source"
  BY DEF MuleOf, DestinationOf, VictimOf, Name
<1> QED BY <1>1, <1>2

\* What the generators make.
Made(t) ==
    /\ t.at \in Nat
    /\ \/ t.type = "withdrawal"
       \/ /\ t.type = "deposit"
          /\ Band(t.amount) = "band" => t.receiver.pattern \in {"structuring", "background"}
       \/ t.type \in {"transfer", "wire"} /\ Handed(t)

AllMade(ts) == IsFiniteSet(ts) /\ \A t \in ts : Made(t)

\* The elements of a sequence over a set.
LEMMA ElementsOf ==
    ASSUME NEW S, NEW s \in Seq(S)
    PROVE  Len(s) \in Nat /\ \A k \in 1 .. Len(s) : s[k] \in S
OBVIOUS

LEMMA MoveRange ==
    ASSUME NEW move \in Moves
    PROVE  /\ move.type \in {"deposit", "withdrawal", "transfer"}
           /\ move.amount \in OrdinaryAmounts
           /\ move.at \in Nat
<1>1. /\ move.type \in {"deposit", "withdrawal", "transfer"}
      /\ move.amount \in 50 .. 8000
      /\ move.at \in 0 .. Now
  <2> HIDE DEF Now
  <2> QED BY SMT DEF Moves
<1>2. Now \in Nat
  BY DEF Now, Day
<1> QED BY <1>1, <1>2 DEF OrdinaryAmounts

LEMMA BackgroundRange ==
    /\ BackgroundCount \in Nat
    /\ \A draw \in BackgroundDraws : \A n \in 1 .. BackgroundCount :
          Len(draw[n]) \in Nat /\ \A k \in 1 .. Len(draw[n]) : draw[n][k] \in Moves
    /\ \A move \in Moves : /\ move.type \in {"deposit", "withdrawal", "transfer"}
                           /\ move.amount \in OrdinaryAmounts
                           /\ move.at \in Nat
<1>1. BackgroundCount \in Nat /\ BackgroundDraws \subseteq [1 .. BackgroundCount -> Seq(Moves)]
  BY Zenon, BackgroundAssumption
<1>2. ASSUME NEW draw \in BackgroundDraws, NEW n \in 1 .. BackgroundCount
      PROVE  Len(draw[n]) \in Nat /\ \A k \in 1 .. Len(draw[n]) : draw[n][k] \in Moves
  <2>1. draw[n] \in Seq(Moves)
    BY Zenon, <1>1
  <2> HIDE DEF Moves
  <2> QED BY <2>1, ElementsOf
<1> QED BY Zenon, <1>1, <1>2, MoveRange

LEMMA PayPeriodRange ==
    ASSUME NEW x \in PayPeriod
    PROVE  Band(x.amount) = "below" /\ x.late \in {0, 1} /\ x.spending \in Seq(Spending)
<1> DEFINE Spent == Seq(Spending)
<1>1. x \in [amount : 2195 .. 4805, late : {0, 1}, spending : Spent]
  <2>1. PayPeriod = [amount : 2195 .. 4805, late : {0, 1}, spending : Spent]
    BY DEF PayPeriod
  <2> HIDE DEF Spent
  <2> QED BY <2>1
<1> HIDE DEF Spent
<1>2. x.amount \in 2195 .. 4805
  BY SMT, <1>1
<1>3. x.late \in {0, 1} /\ x.spending \in Spent
  BY SMT, <1>1
<1>4. Band(x.amount) = "below"
  <2> DEFINE amount == x.amount
  <2>1. amount \in 2195 .. 4805
    BY <1>2
  <2> HIDE DEF amount
  <2>2. Band(amount) = "below"
    BY <2>1 DEF Band
  <2> QED BY <2>2 DEF amount
<1>5. x.spending \in Seq(Spending)
  BY Zenon, <1>3 DEF Spent
<1> QED BY Zenon, <1>3, <1>4, <1>5

LEMMA PayRange ==
    ASSUME NEW draw \in PayDraws, NEW k \in 1 .. 6
    PROVE  /\ Band(draw[k].amount) = "below"
           /\ draw[k].late \in {0, 1}
           /\ Len(draw[k].spending) \in Nat
           /\ \A j \in 1 .. Len(draw[k].spending) : draw[k].spending[j].after \in 1 .. 12
<1>1. draw[k] \in PayPeriod
  <2>1. PayDraws \subseteq [1 .. 6 -> PayPeriod]
    BY Zenon, PayAssumption
  <2> QED BY Zenon, <2>1
<1>2. draw[k].spending \in Seq(Spending)
  BY Zenon, <1>1, PayPeriodRange
<1>3. /\ Len(draw[k].spending) \in Nat
      /\ \A j \in 1 .. Len(draw[k].spending) : draw[k].spending[j] \in Spending
  BY Zenon, <1>2, ElementsOf
<1>4. \A x \in Spending : x.after \in 1 .. 12
  BY SMT DEF Spending
<1>5. \A j \in 1 .. Len(draw[k].spending) : draw[k].spending[j].after \in 1 .. 12
  BY <1>3, <1>4
<1> QED BY Zenon, <1>1, <1>3, <1>5, PayPeriodRange

LEMMA DepositedRange ==
    ASSUME NEW x \in Deposited
    PROVE  Band(x.amount) = "band" /\ x.ago \in 0 .. 10 * Day
<1>1. x.amount \in 8500 .. 9800 /\ x.ago \in 0 .. 10 * Day
  <2> HIDE DEF Day
  <2> QED BY DEF Deposited
<1>2. Band(x.amount) = "band"
  BY <1>1 DEF Band
<1> QED BY <1>1, <1>2

LEMMA DepositRange ==
    ASSUME NEW draw \in DepositDraws
    PROVE  /\ Len(draw) \in 4 .. 6
           /\ \A k \in 1 .. Len(draw) : /\ Band(draw[k].amount) = "band"
                                        /\ draw[k].ago \in 0 .. 10 * Day
<1>1. draw \in Seq(Deposited) /\ Len(draw) \in 4 .. 6
  BY Zenon, DepositAssumption
<1>2. \A k \in 1 .. Len(draw) : draw[k] \in Deposited
  BY Zenon, <1>1, ElementsOf
<1> QED BY Zenon, <1>1, <1>2, DepositedRange

LEMMA SixVictims == MuleVictims = 6
BY Zenon, VictimAssumption

LEMMA VictimRange ==
    ASSUME NEW draw \in VictimDraws, NEW n \in 1 .. MuleVictims
    PROVE  draw[n].ago \in 0 .. 72
<1>1. VictimDraws \subseteq [1 .. MuleVictims -> VictimPaid]
  BY Zenon, VictimAssumption
<1>2. draw[n] \in VictimPaid
  BY Zenon, <1>1
<1> QED BY SMT, <1>2 DEF VictimPaid

LEMMA OutboundRange ==
    ASSUME NEW delays \in OutboundDraws
    PROVE  Len(delays) \in {1, 2} /\ \A k \in 1 .. Len(delays) : delays[k] \in Nat
<1>1. delays \in Seq(2 .. 36) /\ Len(delays) \in {1, 2}
  BY Zenon, OutboundAssumption
<1>2. \A k \in 1 .. Len(delays) : delays[k] \in 2 .. 36
  BY Zenon, <1>1, ElementsOf
<1>3. \A x \in 2 .. 36 : x \in Nat
  OBVIOUS
<1> QED BY Zenon, <1>1, <1>2, <1>3

\* The victim who paid last.
LEMMA LastVictim ==
    ASSUME NEW draw \in VictimDraws
    PROVE  (CHOOSE n \in 1 .. MuleVictims :
              \A m \in 1 .. MuleVictims : draw[n].ago <= draw[m].ago) \in 1 .. MuleVictims
<1> DEFINE T == {draw[n].ago : n \in 1 .. MuleVictims}
<1>1. T \in SUBSET Nat
  BY VictimRange
<1>2. T # {}
  <2>1. 1 \in 1 .. MuleVictims
    BY SixVictims
  <2> QED BY <2>1
<1>3. PICK x \in T : \A y \in T : x <= y
  <2> HIDE DEF T
  <2> QED BY <1>1, <1>2, Least
<1>4. \E n \in 1 .. MuleVictims : \A m \in 1 .. MuleVictims : draw[n].ago <= draw[m].ago
  BY <1>3
<1> QED BY <1>4

LEMMA WithdrawalMade ==
    ASSUME NEW n, NEW account, NEW amount, NEW at \in Nat
    PROVE  Made(Withdrawal(n, account, amount, at))
BY DEF Made, Withdrawal

LEMMA DepositMade ==
    ASSUME NEW n, NEW account, NEW amount, NEW at \in Nat,
           Band(amount) = "band" => account.pattern \in {"structuring", "background"}
    PROVE  Made(Deposit(n, account, amount, at))
BY DEF Made, Deposit

LEMMA TransferMade ==
    ASSUME NEW n, NEW from, NEW to, NEW amount, NEW at \in Nat,
           Handed(Transfer(n, from, to, amount, at))
    PROVE  Made(Transfer(n, from, to, amount, at))
BY DEF Made, Transfer

\* The rows of a list of them.
LEMMA ListMade ==
    ASSUME NEW n \in Nat, NEW rows, \A k \in 1 .. n : Made(rows[k])
    PROVE  AllMade({rows[k] : k \in 1 .. n})
<1>1. IsFiniteSet(1 .. n)
  BY FS_Interval
<1>2. IsFiniteSet({rows[k] : k \in 1 .. n})
  BY <1>1, ImageFinite
<1> QED BY <1>2 DEF AllMade

LEMMA BothMade ==
    ASSUME NEW ts, NEW us, AllMade(ts), AllMade(us)
    PROVE  AllMade(ts \cup us)
BY FS_Union DEF AllMade

LEMMA OneMade ==
    ASSUME NEW t, Made(t)
    PROVE  AllMade({t})
BY FS_Singleton DEF AllMade

LEMMA AllOfThemMade ==
    ASSUME NEW n \in Nat, NEW rows, \A k \in 1 .. n : AllMade(rows[k])
    PROVE  AllMade(UNION {rows[k] : k \in 1 .. n})
<1> DEFINE all == {rows[k] : k \in 1 .. n}
<1>1. IsFiniteSet(1 .. n)
  BY FS_Interval
<1>2. IsFiniteSet(all)
  BY <1>1, ImageFinite
<1>3. \A ts \in all : AllMade(ts)
  OBVIOUS
<1> HIDE DEF all
<1>4. IsFiniteSet(UNION all)
  BY <1>2, <1>3, FS_UNION DEF AllMade
<1>5. AllMade(UNION all)
  BY <1>3, <1>4 DEF AllMade
<1> QED BY <1>5 DEF all

LEMMA BackgroundMade ==
    ASSUME NEW case \in Cases, NEW made \in Background(case)
    PROVE  AllMade(made.transactions)
<1>1. PICK draw \in BackgroundDraws : made = BackgroundCase(case, draw)
  BY DEF Background
<1> DEFINE account(n) == Name(case, "background", "background", n)
           row(n, k, move) ==
               CASE move.type = "deposit" -> {Deposit(k, account(n), move.amount, move.at)}
                 [] move.type = "withdrawal" -> {Withdrawal(k, account(n), move.amount, move.at)}
                 [] move.type = "transfer" /\ move.to # n ->
                       {Transfer(k, account(n), account(move.to), move.amount, move.at)}
                 [] OTHER -> {}
           rows(n) == [k \in 1 .. Len(draw[n]) |-> row(n, k, draw[n][k])]
           all(n) == UNION {rows(n)[k] : k \in 1 .. Len(draw[n])}
           whole == [n \in 1 .. BackgroundCount |-> all(n)]
<1>2. made.transactions = UNION {whole[n] : n \in 1 .. BackgroundCount}
  <2>1. made.transactions =
          UNION {UNION {row(n, k, draw[n][k]) : k \in 1 .. Len(draw[n])} : n \in 1 .. BackgroundCount}
    BY <1>1 DEF BackgroundCase, Case
  <2> HIDE DEF row
  <2>2. \A n \in 1 .. BackgroundCount :
           UNION {row(n, k, draw[n][k]) : k \in 1 .. Len(draw[n])} = whole[n]
    OBVIOUS
  <2> HIDE DEF whole
  <2> QED BY <2>1, <2>2
<1>3. ASSUME NEW n \in 1 .. BackgroundCount, NEW k, NEW move \in Moves
      PROVE  AllMade(row(n, k, move))
  <2>1. /\ move.type \in {"deposit", "withdrawal", "transfer"}
        /\ move.amount \in OrdinaryAmounts
        /\ move.at \in Nat
    BY BackgroundRange
  <2>2. CASE move.type = "deposit"
    <3>1. row(n, k, move) = {Deposit(k, account(n), move.amount, move.at)}
      BY <2>2
    <3>2. Made(Deposit(k, account(n), move.amount, move.at))
      <4>1. account(n).pattern = "background"
        BY DEF Name
      <4> HIDE DEF account
      <4> QED BY SMTT(30), <2>1, <4>1, DepositMade
    <3> HIDE DEF row, account
    <3> QED BY <3>1, <3>2, OneMade
  <2>3. CASE move.type = "withdrawal"
    <3>1. row(n, k, move) = {Withdrawal(k, account(n), move.amount, move.at)}
      BY <2>3
    <3> HIDE DEF row, account
    <3>2. Made(Withdrawal(k, account(n), move.amount, move.at))
      BY SMTT(30), <2>1, WithdrawalMade
    <3> QED BY <3>1, <3>2, OneMade
  <2>4. CASE move.type = "transfer" /\ move.to # n
    <3>1. row(n, k, move) = {Transfer(k, account(n), account(move.to), move.amount, move.at)}
      BY <2>4
    <3>2. account(n).pattern = "background" /\ account(move.to).pattern = "background"
      BY DEF Name
    <3> HIDE DEF row, account
    <3>3. Made(Transfer(k, account(n), account(move.to), move.amount, move.at))
      <4> DEFINE t == Transfer(k, account(n), account(move.to), move.amount, move.at)
      <4>1. t.sender = account(n) /\ t.receiver = account(move.to) /\ t.amount = move.amount
        BY DEF Transfer
      <4>2. Handed(t)
        <5> HIDE DEF t
        <5> QED BY <2>1, <3>2, <4>1 DEF Handed, AmongBackground
      <4> QED BY SMTT(30), <2>1, <4>2, TransferMade
    <3> QED BY <3>1, <3>3, OneMade
  <2>5. CASE move.type = "transfer" /\ move.to = n
    <3>1. row(n, k, move) = {}
      BY <2>5
    <3> HIDE DEF row
    <3> QED BY <3>1, FS_EmptySet DEF AllMade
  <2> HIDE DEF row
  <2> QED BY SMTT(30), <2>1, <2>2, <2>3, <2>4, <2>5
<1> HIDE DEF row, account
<1>4. ASSUME NEW n \in 1 .. BackgroundCount
      PROVE  AllMade(all(n))
  <2>1. Len(draw[n]) \in Nat /\ \A k \in 1 .. Len(draw[n]) : draw[n][k] \in Moves
    BY BackgroundRange
  <2>2. \A k \in 1 .. Len(draw[n]) : AllMade(rows(n)[k])
    BY <1>3, <2>1
  <2> HIDE DEF rows
  <2> QED BY <2>1, <2>2, AllOfThemMade
<1>5. \A n \in 1 .. BackgroundCount : AllMade(whole[n])
  <2> HIDE DEF all
  <2> QED BY <1>4
<1>6. BackgroundCount \in Nat
  BY BackgroundRange
<1> HIDE DEF whole
<1>7. AllMade(UNION {whole[n] : n \in 1 .. BackgroundCount})
  BY <1>5, <1>6, AllOfThemMade
<1> QED BY <1>2, <1>7

LEMMA CleanMade ==
    ASSUME NEW case \in Cases, NEW made \in CleanControl(case)
    PROVE  AllMade(made.transactions)
<1>1. PICK draw \in PayDraws : made = CleanCase(case, draw)
  BY DEF CleanControl
<1> DEFINE account == Name(case, "clean", "clean_control", 1)
           PayDay(k) == Day * (14 * (k - 1) + draw[k].late)
           paid == [k \in 1 .. 6 |-> Deposit(k, account, draw[k].amount, PayDay(k))]
           spending(k) == [j \in 1 .. Len(draw[k].spending) |->
                             Withdrawal(10 * k + j, account, draw[k].spending[j].amount,
                                        PayDay(k) + Day * draw[k].spending[j].after)]
           spent == [k \in 1 .. 6 |-> {spending(k)[j] : j \in 1 .. Len(draw[k].spending)}]
<1>2. made.transactions = {paid[k] : k \in 1 .. 6} \cup UNION {spent[k] : k \in 1 .. 6}
  <2> DEFINE row(k, j) == Withdrawal(10 * k + j, account, draw[k].spending[j].amount,
                                     PayDay(k) + Day * draw[k].spending[j].after)
  <2>1. made.transactions =
          {Deposit(k, account, draw[k].amount, PayDay(k)) : k \in 1 .. 6} \cup
          UNION {{row(k, j) : j \in 1 .. Len(draw[k].spending)} : k \in 1 .. 6}
    BY <1>1 DEF CleanCase, Case
  <2>2. \A k \in 1 .. 6 : spent[k] = {row(k, j) : j \in 1 .. Len(draw[k].spending)}
    <3> HIDE DEF account, PayDay
    <3> QED OBVIOUS
  <2>3. \A k \in 1 .. 6 : paid[k] = Deposit(k, account, draw[k].amount, PayDay(k))
    <3> HIDE DEF account, PayDay
    <3> QED OBVIOUS
  <2> HIDE DEF account, PayDay, row, spent, paid
  <2> QED BY <2>1, <2>2, <2>3
<1>3. \A k \in 1 .. 6 : PayDay(k) \in Nat
  <2> SUFFICES ASSUME NEW k \in 1 .. 6 PROVE PayDay(k) \in Nat
    OBVIOUS
  <2>1. draw[k].late \in {0, 1}
    BY PayRange
  <2> QED BY <2>1 DEF Day
<1> HIDE DEF PayDay
<1>4. \A k \in 1 .. 6 : Made(paid[k])
  <2> SUFFICES ASSUME NEW k \in 1 .. 6 PROVE Made(paid[k])
    OBVIOUS
  <2>1. Band(draw[k].amount) = "below"
    BY PayRange
  <2>2. Made(Deposit(k, account, draw[k].amount, PayDay(k)))
    <3> HIDE DEF account
    <3> QED BY <1>3, <2>1, DepositMade
  <2> HIDE DEF account
  <2> QED BY <2>2
<1>5. \A k \in 1 .. 6 : AllMade(spent[k])
  <2> SUFFICES ASSUME NEW k \in 1 .. 6 PROVE AllMade(spent[k])
    OBVIOUS
  <2>1. Len(draw[k].spending) \in Nat
    BY PayRange
  <2>2. ASSUME NEW j \in 1 .. Len(draw[k].spending)
        PROVE  Made(spending(k)[j])
    <3> DEFINE at == PayDay(k) + Day * draw[k].spending[j].after
    <3>1. at \in Nat
      <4>1. draw[k].spending[j].after \in 1 .. 12
        BY PayRange
      <4>2. \A x \in 1 .. 12 : Day * x \in Nat
        BY DEF Day
      <4>3. PayDay(k) \in Nat
        BY <1>3
      <4>4. Day * draw[k].spending[j].after \in Nat
        BY Zenon, <4>1, <4>2
      <4> HIDE DEF PayDay
      <4> QED BY SMT, <4>3, <4>4
    <3>2. spending(k)[j] = Withdrawal(10 * k + j, account, draw[k].spending[j].amount, at)
      <4> HIDE DEF account
      <4> QED OBVIOUS
    <3> HIDE DEF at, spending, account
    <3> QED BY <3>1, <3>2, WithdrawalMade
  <2> HIDE DEF spending
  <2>3. AllMade({spending(k)[j] : j \in 1 .. Len(draw[k].spending)})
    BY <2>1, <2>2, ListMade
  <2> QED BY <2>3
<1> HIDE DEF paid, spent
<1>6. AllMade({paid[k] : k \in 1 .. 6})
  BY SMTT(30), <1>4, ListMade
<1>7. AllMade(UNION {spent[k] : k \in 1 .. 6})
  BY SMTT(30), <1>5, AllOfThemMade
<1> QED BY <1>2, <1>6, <1>7, BothMade

LEMMA StructurerMade ==
    ASSUME NEW case \in Cases, NEW made \in Structurer(case)
    PROVE  AllMade(made.transactions)
<1>1. PICK draw \in DepositDraws : made = StructuringCase(case, draw)
  BY DEF Structurer
<1> DEFINE account == Name(case, "structuring", "structurer", 1)
           paid == [k \in 1 .. Len(draw) |->
                      Deposit(k, account, draw[k].amount, Now - draw[k].ago)]
<1>2. made.transactions = {paid[k] : k \in 1 .. Len(draw)}
  <2>1. made.transactions =
          {Deposit(k, account, draw[k].amount, Now - draw[k].ago) : k \in 1 .. Len(draw)}
    BY <1>1 DEF StructuringCase, Case
  <2> HIDE DEF account
  <2> QED BY <2>1
<1>3. \A k \in 1 .. Len(draw) : Made(paid[k])
  <2> SUFFICES ASSUME NEW k \in 1 .. Len(draw)
               PROVE  Made(paid[k])
    OBVIOUS
  <2>1. draw[k].ago \in 0 .. 10 * Day
    BY Zenon, DepositRange
  <2>2. \A x \in 0 .. 10 * Day : Now - x \in Nat
    BY DEF Now, Day
  <2>3. paid[k] = Deposit(k, account, draw[k].amount, Now - draw[k].ago)
    <3> HIDE DEF account
    <3> QED OBVIOUS
  <2>4. account.pattern \in {"structuring", "background"}
    BY DEF Name
  <2> HIDE DEF account, paid
  <2>5. Now - draw[k].ago \in Nat
    BY Zenon, <2>1, <2>2
  <2> QED BY <2>3, <2>4, <2>5, DepositMade
<1> HIDE DEF paid
<1>4. Len(draw) \in Nat
  BY DepositRange
<1> QED BY <1>2, <1>3, <1>4, ListMade

\* The transfers of a mule network, of whatever amounts.
MuleRows(ts, case, in, out, m) ==
    /\ ts = {in[k] : k \in 1 .. MuleVictims} \cup {out[k] : k \in 1 .. m}
    /\ \A n \in 1 .. MuleVictims :
          /\ in[n].sender = VictimOf(case, n) /\ in[n].receiver = MuleOf(case)
          /\ in[n].type = "transfer" /\ in[n].at \in Nat
    /\ \A k \in 1 .. m :
          /\ out[k].sender = MuleOf(case) /\ out[k].receiver = DestinationOf(case)
          /\ out[k].type = "transfer" /\ out[k].at \in Nat

LEMMA MuleNetworkIs ==
    ASSUME NEW case \in Cases, NEW made \in MuleNetwork(case)
    PROVE  /\ made.accounts =
                {MuleOf(case), DestinationOf(case)} \cup {VictimOf(case, n) : n \in 1 .. MuleVictims}
           /\ \E m \in {1, 2} : \E in, out : MuleRows(made.transactions, case, in, out, m)
<1>1. PICK draw \in VictimDraws, retention \in MuleRetentions, delays \in OutboundDraws :
         made = MuleCase(case, draw, retention, delays)
  BY DEF MuleNetwork
<1> DEFINE last == CHOOSE n \in 1 .. MuleVictims :
                     \A m \in 1 .. MuleVictims : draw[n].ago <= draw[m].ago
           paid[n \in 0 .. MuleVictims] == IF n = 0 THEN 0 ELSE paid[n - 1] + draw[n].amount
           total == (paid[MuleVictims] * retention) \div 100
           half == total \div 2
           portion(k) == IF k < Len(delays) THEN half
                         ELSE IF k = 1 THEN total ELSE total - half
           in == [n \in 1 .. MuleVictims |->
                    Transfer(n, VictimOf(case, n), MuleOf(case), draw[n].amount, Now - draw[n].ago)]
           out == [k \in 1 .. Len(delays) |->
                     Transfer(MuleVictims + k, MuleOf(case), DestinationOf(case), portion(k),
                              Now - draw[last].ago + delays[k])]
<1>2. /\ made.accounts =
           {MuleOf(case), DestinationOf(case)} \cup {VictimOf(case, n) : n \in 1 .. MuleVictims}
      /\ made.transactions =
           {Transfer(n, VictimOf(case, n), MuleOf(case), draw[n].amount, Now - draw[n].ago) :
              n \in 1 .. MuleVictims} \cup
           {Transfer(MuleVictims + k, MuleOf(case), DestinationOf(case), portion(k),
                     Now - draw[last].ago + delays[k]) : k \in 1 .. Len(delays)}
  BY <1>1 DEF MuleCase, Case, MuleOf, DestinationOf, VictimOf
<1>3. Len(delays) \in {1, 2} /\ \A k \in 1 .. Len(delays) : delays[k] \in Nat
  BY OutboundRange
<1>4. \A n \in 1 .. MuleVictims : Now - draw[n].ago \in Nat
  BY VictimRange DEF Now, Day
<1>5. last \in 1 .. MuleVictims
  BY LastVictim
<1> HIDE DEF last, portion
<1>6. made.transactions = {in[k] : k \in 1 .. MuleVictims} \cup {out[k] : k \in 1 .. Len(delays)}
  BY <1>2
<1>7. \A n \in 1 .. MuleVictims :
         /\ in[n].sender = VictimOf(case, n) /\ in[n].receiver = MuleOf(case)
         /\ in[n].type = "transfer" /\ in[n].at \in Nat
  BY <1>4 DEF Transfer
<1>8. \A k \in 1 .. Len(delays) :
         /\ out[k].sender = MuleOf(case) /\ out[k].receiver = DestinationOf(case)
         /\ out[k].type = "transfer" /\ out[k].at \in Nat
  <2> SUFFICES ASSUME NEW k \in 1 .. Len(delays)
               PROVE  /\ out[k].sender = MuleOf(case) /\ out[k].receiver = DestinationOf(case)
                      /\ out[k].type = "transfer" /\ out[k].at \in Nat
    OBVIOUS
  <2>1. Now - draw[last].ago + delays[k] \in Nat
    BY <1>3, <1>4, <1>5
  <2> QED BY <2>1 DEF Transfer
<1> HIDE DEF in, out
<1>9. MuleRows(made.transactions, case, in, out, Len(delays))
  BY <1>6, <1>7, <1>8 DEF MuleRows
<1>10. made.accounts =
         {MuleOf(case), DestinationOf(case)} \cup {VictimOf(case, n) : n \in 1 .. MuleVictims}
  BY <1>2
<1>11. Len(delays) \in {1, 2}
  BY <1>3
<1> QED BY Zenon, <1>9, <1>10, <1>11

LEMMA MuleNetworkMade ==
    ASSUME NEW case \in Cases, NEW made \in MuleNetwork(case)
    PROVE  AllMade(made.transactions)
<1>m. PICK m \in {1, 2} : \E in, out : MuleRows(made.transactions, case, in, out, m)
  BY MuleNetworkIs
<1>rows. PICK in, out : MuleRows(made.transactions, case, in, out, m)
  BY <1>m
<1>1. /\ made.transactions = {in[k] : k \in 1 .. MuleVictims} \cup {out[k] : k \in 1 .. m}
      /\ \A n \in 1 .. MuleVictims :
            /\ in[n].sender = VictimOf(case, n) /\ in[n].receiver = MuleOf(case)
            /\ in[n].type = "transfer" /\ in[n].at \in Nat
      /\ \A k \in 1 .. m :
            /\ out[k].sender = MuleOf(case) /\ out[k].receiver = DestinationOf(case)
            /\ out[k].type = "transfer" /\ out[k].at \in Nat
  BY Zenon, <1>rows DEF MuleRows
<1>2. \A n \in 1 .. MuleVictims : Made(in[n])
  BY <1>1 DEF AmongMules, Made, Handed
<1>3. \A k \in 1 .. m : Made(out[k])
  BY <1>1 DEF AmongMules, Made, Handed
<1>4. AllMade({in[k] : k \in 1 .. MuleVictims})
  BY <1>2, ListMade, SixVictims
<1>5. AllMade({out[k] : k \in 1 .. m})
  BY <1>3, ListMade
<1> QED BY <1>1, <1>4, <1>5, BothMade

\* A transfer along a chain, of whatever amount.
LEMMA HopMade ==
    ASSUME NEW case \in Cases, NEW n \in 1 .. Hops, NEW t,
           t.sender = ChainAccount(case, n), t.receiver = ChainAccount(case, n + 1),
           t.at \in Nat, t.type \in {"transfer", "wire"}
    PROVE  Made(t)
<1>1. Handed(t)
  BY DEF Handed, AlongChain
<1> QED BY <1>1 DEF Made

\* Most of an amount is handed on, some time later.
Hands(t, u) ==
    /\ t.at \in Nat /\ u.at \in Nat /\ t.at <= u.at
    /\ t.amount \in Nat /\ u.amount \in Nat
    /\ u.amount <= t.amount /\ t.amount <= 2 * u.amount

Along(t, case, n) == t.sender = ChainAccount(case, n) /\ t.receiver = ChainAccount(case, n + 1)

OfChain(case) == {ChainAccount(case, n) : n \in 1 .. 5}

\* What is handed on of an amount.
LEMMA HandedOn ==
    ASSUME NEW x \in Nat, NEW f \in 90 .. 97, NEW low \in Nat, low >= 100, x >= 2 * low
    PROVE  /\ (x * f) \div 100 \in Nat
           /\ (x * f) \div 100 <= x
           /\ x <= 2 * ((x * f) \div 100)
           /\ (x * f) \div 100 >= low
<1> DEFINE p == x * f
           q == p \div 100
<1>1. p \in Nat /\ 90 * x <= p /\ p <= 97 * x
  <2>1. f \in {90, 91, 92, 93, 94, 95, 96, 97}
    OBVIOUS
  <2> QED BY <2>1
<1> HIDE DEF p
<1>2. q \in Int /\ 100 * q <= p /\ p < 100 * q + 100
  BY <1>1
<1> HIDE DEF q
<1>3. q \in Nat /\ q <= x /\ x <= 2 * q /\ q >= low
  BY <1>1, <1>2
<1> QED BY <1>3 DEF p, q

LEMMA ChainRanges ==
    /\ \A x \in StartAmounts : x \in Nat /\ x >= 16000
    /\ \A x \in ForwardFractions : x \in 90 .. 97
    /\ \A x \in HopDelays : x \in Nat
    /\ \A x \in ChainAges : Now - x * Day \in Nat
<1>1. StartAmounts \subseteq 45000 .. 60000
  BY ChainAssumption
<1>2. ForwardFractions \subseteq 90 .. 97
  BY ChainAssumption
<1>3. HopDelays \subseteq 6 .. 48
  BY ChainAssumption
<1>4. \A x \in StartAmounts : x \in Nat /\ x >= 16000
  <2> SUFFICES ASSUME NEW x \in StartAmounts
               PROVE  x \in Nat /\ x >= 16000
    OBVIOUS
  <2>1. x \in 45000 .. 60000
    BY SMTT(30), <1>1
  <2> QED BY <2>1
<1>5. \A x \in ForwardFractions : x \in 90 .. 97
  BY <1>2
<1>6. \A x \in HopDelays : x \in Nat
  BY <1>3
<1>7. \A x \in ChainAges : Now - x * Day \in Nat
  <2>1. ChainAges \subseteq 15 .. 45
    BY ChainAssumption
  <2> QED BY <2>1 DEF Now, Day
<1> QED BY <1>4, <1>5, <1>6, <1>7

\* An amount that is still enough, and a transfer that hands one on.
Enough(t, low) == t.amount \in Nat /\ t.at \in Nat /\ t.amount >= low

HandedBy(t, u) ==
    \E f \in ForwardFractions, delay \in HopDelays :
       u.amount = (t.amount * f) \div 100 /\ u.at = t.at + delay

LEMMA HopHands ==
    ASSUME NEW t, NEW u, NEW low \in Nat, low >= 100, NEW twice, twice = 2 * low,
           Enough(t, twice), HandedBy(t, u)
    PROVE  Hands(t, u) /\ Enough(u, low)
<1>1. PICK f \in ForwardFractions, delay \in HopDelays :
         u.amount = (t.amount * f) \div 100 /\ u.at = t.at + delay
  BY DEF HandedBy
<1>2. f \in 90 .. 97 /\ delay \in Nat
  BY ChainRanges
<1>3. t.amount \in Nat /\ t.at \in Nat /\ t.amount >= 2 * low
  BY DEF Enough
<1>4. /\ u.amount \in Nat /\ u.amount <= t.amount /\ t.amount <= 2 * u.amount
      /\ u.amount >= low
  BY <1>1, <1>2, <1>3, HandedOn
<1>5. u.at \in Nat /\ t.at <= u.at
  BY <1>1, <1>2, <1>3
<1> QED BY <1>3, <1>4, <1>5 DEF Hands, Enough

\* The four transfers of a chain.
ChainOf(t, u, v, w, case) ==
    /\ Along(t, case, 1) /\ Along(u, case, 2) /\ Along(v, case, 3) /\ Along(w, case, 4)
    /\ t.type = "wire" /\ u.type = "transfer" /\ v.type = "transfer" /\ w.type = "transfer"
    /\ t.amount >= 15000
    /\ Hands(t, u) /\ Hands(u, v) /\ Hands(v, w)

LEMMA LayeringIs ==
    ASSUME NEW case \in Cases, NEW made \in LayeringChain(case)
    PROVE  /\ made.accounts = OfChain(case)
           /\ \E t, u, v, w : made.transactions = {t, u, v, w} /\ ChainOf(t, u, v, w, case)
<1>1. PICK start \in StartAmounts, age \in ChainAges,
           steps \in [2 .. Hops -> [fraction : ForwardFractions, delay : HopDelays]] :
         made = LayeringCase(case, start, age, steps)
  BY DEF LayeringChain
<1> DEFINE first == Transfer(1, ChainAccount(case, 1), ChainAccount(case, 2), start, Now - age * Day)
           After(n, t) == Transfer(n, ChainAccount(case, n), ChainAccount(case, n + 1),
                                   (t.amount * steps[n].fraction) \div 100, t.at + steps[n].delay)
           Body(h) == [n \in 1 .. Hops |-> IF n = 1 THEN first ELSE After(n, h[n - 1])]
           hop == CHOOSE h : h = Body(h)
<1>2. made.transactions = {[hop[1] EXCEPT !.type = "wire"]} \cup {hop[n] : n \in 2 .. Hops}
  BY <1>1 DEF LayeringCase, Case
<1>3. hop = Body(hop)
  <2> HIDE DEF first, After
  <2> DEFINE second == After(2, first)
             third == After(3, second)
             g == [n \in 1 .. Hops |->
                     IF n = 1 THEN first ELSE IF n = 2 THEN second ELSE IF n = 3 THEN third
                     ELSE After(4, third)]
  <2>1. \A n \in 1 .. Hops : n \in {1, 2, 3, 4}
    BY DEF Hops
  <2>2. g[1] = first /\ g[2] = second /\ g[3] = third /\ g[4] = After(4, third)
    BY DEF Hops
  <2>3. \A n \in 1 .. Hops : g[n] = IF n = 1 THEN first ELSE After(n, g[n - 1])
    <3> HIDE DEF g
    <3>1. second = After(2, first) /\ third = After(3, second)
      OBVIOUS
    <3> HIDE DEF second, third
    <3> QED BY <2>1, <2>2, <3>1
  <2>4. g = [n \in 1 .. Hops |-> g[n]]
    OBVIOUS
  <2> HIDE DEF g
  <2>5. g = Body(g)
    BY <2>3, <2>4
  <2> HIDE DEF Body
  <2> QED BY <2>5
<1>4. hop[1] = first /\ \A n \in 2 .. Hops : hop[n] = After(n, hop[n - 1])
  <2> HIDE DEF hop, first, After
  <2>1. 1 \in 1 .. Hops /\ \A n \in 2 .. Hops : n \in 1 .. Hops /\ n # 1
    BY DEF Hops
  <2> QED BY <1>3, <2>1
<1> HIDE DEF hop
<1> DEFINE t == [hop[1] EXCEPT !.type = "wire"]
<1>5. /\ Along(t, case, 1) /\ t.type = "wire" /\ t.amount = start /\ t.at \in Nat
      /\ hop[1].amount = start /\ hop[1].at = t.at
  <2>1. 1 + 1 = 2 /\ Now - age * Day \in Nat
    BY ChainRanges
  <2> QED BY <1>4, <2>1 DEF Transfer, Along
<1>6. ASSUME NEW n \in 2 .. Hops
      PROVE  /\ Along(hop[n], case, n) /\ hop[n].type = "transfer"
             /\ hop[n].amount = (hop[n - 1].amount * steps[n].fraction) \div 100
             /\ hop[n].at = hop[n - 1].at + steps[n].delay
             /\ steps[n].fraction \in ForwardFractions /\ steps[n].delay \in HopDelays
  <2>1. \A h : /\ Along(After(n, h), case, n) /\ After(n, h).type = "transfer"
               /\ After(n, h).amount = (h.amount * steps[n].fraction) \div 100
               /\ After(n, h).at = h.at + steps[n].delay
    BY DEF Transfer, Along
  <2>2. steps[n] \in [fraction : ForwardFractions, delay : HopDelays]
    BY <1>1
  <2> HIDE DEF After
  <2> QED BY <1>4, <2>1, <2>2
<1>7. made.transactions = {t, hop[2], hop[3], hop[4]}
  <2>1. 2 .. Hops = {2, 3, 4}
    BY DEF Hops
  <2> QED BY <1>2, <2>1
<1> HIDE DEF t, first, After
<1>8. 2 \in 2 .. Hops /\ 3 \in 2 .. Hops /\ 4 \in 2 .. Hops
  BY DEF Hops
<1>9. start \in Nat /\ start >= 16000
  BY <1>1, ChainRanges
<1>10. HandedBy(t, hop[2]) /\ HandedBy(hop[2], hop[3]) /\ HandedBy(hop[3], hop[4])
  <2>1. 2 - 1 = 1 /\ 3 - 1 = 2 /\ 4 - 1 = 3
    OBVIOUS
  <2>2. \A n \in 2 .. Hops : HandedBy(hop[n - 1], hop[n])
    BY <1>6 DEF HandedBy
  <2>3. HandedBy(hop[1], hop[2]) /\ HandedBy(hop[2], hop[3]) /\ HandedBy(hop[3], hop[4])
    BY <1>8, <2>1, <2>2
  <2>4. hop[1].amount = t.amount /\ hop[1].at = t.at
    BY <1>5
  <2> QED BY <2>3, <2>4 DEF HandedBy
<1>11. Hands(t, hop[2]) /\ Enough(hop[2], 8000)
  <2>1. Enough(t, 16000) /\ 8000 \in Nat /\ 8000 >= 100 /\ 16000 = 2 * 8000
    BY <1>5, <1>9 DEF Enough
  <2> QED BY <1>10, <2>1, HopHands
<1>12. Hands(hop[2], hop[3]) /\ Enough(hop[3], 4000)
  <2>1. 4000 \in Nat /\ 4000 >= 100 /\ 8000 = 2 * 4000
    OBVIOUS
  <2> QED BY <1>10, <1>11, <2>1, HopHands
<1>13. Hands(hop[3], hop[4])
  <2>1. 2000 \in Nat /\ 2000 >= 100 /\ 4000 = 2 * 2000
    OBVIOUS
  <2>2. HandedBy(hop[3], hop[4]) /\ Enough(hop[3], 4000)
    BY <1>10, <1>12
  <2>3. Hands(hop[3], hop[4]) /\ Enough(hop[4], 2000)
    BY <2>1, <2>2, HopHands
  <2> QED BY <2>3
<1>14. ChainOf(t, hop[2], hop[3], hop[4], case)
  <2>1. t.amount >= 15000
    BY <1>5, <1>9
  <2> QED BY <1>5, <1>6, <1>8, <1>11, <1>12, <1>13, <2>1 DEF ChainOf
<1>15. made.accounts = OfChain(case)
  <2>1. 1 .. Hops + 1 = 1 .. 5
    BY DEF Hops
  <2> QED BY <1>1, <2>1 DEF LayeringCase, Case, OfChain
<1> QED BY <1>7, <1>14, <1>15

LEMMA LayeringMade ==
    ASSUME NEW case \in Cases, NEW made \in LayeringChain(case)
    PROVE  AllMade(made.transactions)
<1>1. PICK t, u, v, w : made.transactions = {t, u, v, w} /\ ChainOf(t, u, v, w, case)
  BY LayeringIs
<1>2. Made(t) /\ Made(u) /\ Made(v) /\ Made(w)
  <2>1. 1 \in 1 .. Hops /\ 2 \in 1 .. Hops /\ 3 \in 1 .. Hops /\ 4 \in 1 .. Hops
    BY DEF Hops
  <2> QED BY <1>1, <2>1, HopMade DEF ChainOf, Along, Hands
<1>3. AllMade({t} \cup {u} \cup {v} \cup {w})
  BY <1>2, OneMade, BothMade
<1>4. {t} \cup {u} \cup {v} \cup {w} = {t, u, v, w}
  OBVIOUS
<1> QED BY <1>1, <1>3, <1>4

------------------------------------------------------------------------------
(* What the detectors find in it *)

LEMMA RowsInOrder ==
    ASSUME NEW ts, AllMade(ts)
    PROVE  /\ Len(InOrder(ts)) \in Nat
           /\ \A k \in 1 .. Len(InOrder(ts)) : InOrder(ts)[k] \in ts
<1>1. InOrder(ts) \in [1 .. Cardinality(ts) -> ts]
  BY InOrderIsOfRows DEF AllMade, Made
<1>2. Cardinality(ts) \in Nat
  BY FS_CardinalityType DEF AllMade
<1>3. Len(InOrder(ts)) = Cardinality(ts)
  BY <1>1, <1>2
<1> QED BY <1>1, <1>2, <1>3

LEMMA TableRows ==
    ASSUME NEW ts, AllMade(ts), NEW k \in 1 .. Len(Table(ts))
    PROVE  \E t \in ts : Table(ts)[k] = [kind |-> [type |-> t.type, sender |-> t.sender,
                                                   receiver |-> t.receiver, amount |-> Band(t.amount)],
                                         time |-> t.at]
<1> DEFINE rows == InOrder(ts)
           row(t) == [kind |-> [type |-> t.type, sender |-> t.sender,
                                receiver |-> t.receiver, amount |-> Band(t.amount)],
                      time |-> t.at]
<1>1. Table(ts) = [n \in 1 .. Len(rows) |-> row(rows[n])]
  BY DEF Table
<1>2. Len(rows) \in Nat /\ \A n \in 1 .. Len(rows) : rows[n] \in ts
  BY RowsInOrder
<1> HIDE DEF rows, row
<1>3. Len(Table(ts)) = Len(rows)
  BY <1>1, <1>2
<1>4. Table(ts)[k] = row(rows[k]) /\ rows[k] \in ts
  BY <1>1, <1>2, <1>3
<1>5. \E t \in ts : Table(ts)[k] = row(t)
  BY <1>4
<1> QED BY <1>5 DEF row

LEMMA EdgeRows ==
    ASSUME NEW ts, AllMade(ts)
    PROVE  \A k \in 1 .. Len(Edges(ts)) :
              \E t \in ts : /\ Edges(ts)[k].sender = t.sender
                            /\ Edges(ts)[k].receiver = t.receiver
                            /\ Edges(ts)[k].amount = t.amount
<1> DEFINE rows == InOrder(ts)
           row(t) == [sender |-> t.sender, receiver |-> t.receiver,
                      amount |-> t.amount, time |-> t.at]
<1>1. Edges(ts) = [n \in 1 .. Len(rows) |-> row(rows[n])]
  BY DEF Edges
<1>2. Len(rows) \in Nat /\ \A n \in 1 .. Len(rows) : rows[n] \in ts
  BY RowsInOrder
<1> HIDE DEF rows, row
<1>3. Len(Edges(ts)) = Len(rows)
  BY <1>1, <1>2
<1> SUFFICES ASSUME NEW k \in 1 .. Len(Edges(ts))
             PROVE  \E t \in ts : /\ Edges(ts)[k].sender = t.sender
                                  /\ Edges(ts)[k].receiver = t.receiver
                                  /\ Edges(ts)[k].amount = t.amount
  OBVIOUS
<1>4. Edges(ts)[k] = row(rows[k]) /\ rows[k] \in ts
  BY <1>1, <1>2, <1>3
<1> QED BY <1>4 DEF row

------------------------------------------------------------------------------

\* Only structurers and background accounts have deposits in the band.
LEMMA StructuringIsClear ==
    ASSUME NEW ts, AllMade(ts), NEW a \in ByStructuring(ts)
    PROVE  a.pattern \in {"structuring", "background"}
<1> DEFINE table == Table(ts)
<1>1. Rules(table)!StructuringFindings(a) # {}
  BY DEF ByStructuring
<1>2. PICK k \in Rules(table)!FirstShort(a) : TRUE
  BY <1>1 DEF Rules!StructuringFindings
<1>3. k \in Rules(table)!Deposits(a)
  BY <1>2 DEF Rules!FirstShort, Rules!Starts
<1>4. /\ k \in 1 .. Len(table)
      /\ table[k].kind.type = "deposit" /\ table[k].kind.amount = "band"
      /\ table[k].kind.receiver = a
  BY <1>3 DEF Rules!Deposits, Rules!Qualifies, Rules!Rows
<1>5. PICK t \in ts :
         table[k] = [kind |-> [type |-> t.type, sender |-> t.sender,
                               receiver |-> t.receiver, amount |-> Band(t.amount)],
                     time |-> t.at]
  BY ZenonT(40), <1>4, TableRows
<1>6. t.type = "deposit" /\ Band(t.amount) = "band" /\ t.receiver = a
  <2> HIDE DEF table
  <2> QED BY <1>4, <1>5
<1>7. Made(t)
  BY DEF AllMade
<1> QED BY <1>6, <1>7 DEF Made

\* Who an account of a chain receives from is one account.
LEMMA OneSender ==
    ASSUME NEW t, NEW u, Handed(t), Handed(u), t.receiver = u.receiver,
           t.receiver.pattern = "layering"
    PROVE  t.sender = u.sender
<1>1. PICK case \in Cases, n \in 1 .. Hops :
         t.sender = ChainAccount(case, n) /\ t.receiver = ChainAccount(case, n + 1)
  BY MulesHand DEF Handed, AmongBackground, AlongChain
<1>2. PICK q \in Cases, m \in 1 .. Hops :
         u.sender = ChainAccount(q, m) /\ u.receiver = ChainAccount(q, m + 1)
  BY MulesHand DEF Handed, AmongBackground, AlongChain
<1>3. ChainAccount(case, n + 1) = ChainAccount(q, m + 1)
  BY <1>1, <1>2
<1>4. n \in {1, 2, 3, 4} /\ m \in {1, 2, 3, 4}
  BY DEF Hops
<1>5. case = q /\ n = m
  BY <1>3, <1>4 DEF ChainAccount, Name, Hops
<1> QED BY <1>1, <1>2, <1>5

\* Both sides of a transfer are of one pattern, one of three.
LEMMA HandedWithin ==
    ASSUME NEW t, Handed(t)
    PROVE  /\ t.sender.pattern = t.receiver.pattern
           /\ t.receiver.pattern \in {"background", "mule_network", "layering"}
<1>1. ASSUME NEW case \in Cases, NEW n \in 1 .. Hops
      PROVE  ChainAccount(case, n).pattern = "layering" /\ ChainAccount(case, n + 1).pattern = "layering"
  BY DEF ChainAccount, Name
<1>2. CASE AmongBackground(t)
  BY <1>2 DEF AmongBackground
<1>3. CASE AmongMules(t)
  BY <1>3, MulesHand
<1>4. CASE AlongChain(t)
  BY <1>1, <1>4 DEF AlongChain
<1> QED BY <1>2, <1>3, <1>4 DEF Handed

LEMMA AtMostOne ==
    ASSUME NEW S, \A x, y \in S : x = y
    PROVE  Cardinality(S) \in {0, 1}
<1>1. CASE S = {}
  BY <1>1, FS_EmptySet
<1>2. CASE S # {}
  <2>1. PICK x \in S : TRUE
    BY <1>2
  <2>2. S = {x}
    BY <2>1
  <2> QED BY <2>2, FS_Singleton
<1> QED BY <1>1, <1>2

\* Whoever receives from at least two accounts is of a mule network or of the
\* background.
LEMMA ManySenders ==
    ASSUME NEW S, NEW a, Cardinality(S) \notin {0, 1},
           \A x \in S : \E t : Handed(t) /\ t.sender = x /\ t.receiver = a
    PROVE  a.pattern \in {"mule_network", "background"}
<1>1. PICK x \in S, y \in S : x # y
  BY AtMostOne
<1>2. PICK t : Handed(t) /\ t.sender = x /\ t.receiver = a
  OBVIOUS
<1>3. PICK u : Handed(u) /\ u.sender = y /\ u.receiver = a
  OBVIOUS
<1>4. a.pattern # "layering"
  BY <1>1, <1>2, <1>3, OneSender
<1> QED BY <1>2, <1>4, HandedWithin

\* An instance counts as everybody does.
LEMMA RulesCount ==
    ASSUME NEW table, NEW S
    PROVE  Rules(table)!Cardinality(S) = Cardinality(S)
BY Zenon DEF Rules!Cardinality, Cardinality

LEMMA ChainsCount ==
    ASSUME NEW transfers, NEW S
    PROVE  Chains(transfers)!Cardinality(S) = Cardinality(S)
BY Zenon DEF Chains!Cardinality, Cardinality

LEMMA MulesCount ==
    ASSUME NEW transfers, NEW S
    PROVE  Mules(transfers)!Cardinality(S) = Cardinality(S)
BY Zenon DEF Mules!Cardinality, Cardinality

LEMMA FanInIsClear ==
    ASSUME NEW ts, AllMade(ts), NEW a \in ByFanIn(ts)
    PROVE  a.pattern \in {"mule_network", "background"}
<1> DEFINE table == Table(ts)
<1>1. Rules(table)!FanInFindings(a) # {}
  BY DEF ByFanIn
<1>2. PICK k : Rules(table)!Earliest(a, k)
  BY <1>1 DEF Rules!FanInFindings
<1> DEFINE S == Rules(table)!Senders(Rules(table)!Candidates(a, k))
<1>3. Cardinality(S) >= 5
  <2> HIDE DEF table
  <2>1. Rules(table)!FansIn(a, k)
    BY <1>2 DEF Rules!Earliest
  <2>2. Rules(table)!Cardinality(S) >= 5
    BY <2>1 DEF Rules!FansIn
  <2> HIDE DEF S
  <2> QED BY <2>2, RulesCount
<1>4. \A x \in S : \E t : Handed(t) /\ t.sender = x /\ t.receiver = a
  <2> SUFFICES ASSUME NEW x \in S PROVE \E t : Handed(t) /\ t.sender = x /\ t.receiver = a
    OBVIOUS
  <2>1. PICK l \in Rules(table)!Candidates(a, k) : x = table[l].kind.sender
    BY DEF Rules!Senders
  <2>2. /\ l \in 1 .. Len(table) /\ table[l].kind.type \in {"transfer", "wire"}
        /\ table[l].kind.receiver = a
    BY <2>1 DEF Rules!Candidates, Rules!Inbound, Rules!Internal, Rules!Rows
  <2>3. PICK t \in ts :
           table[l] = [kind |-> [type |-> t.type, sender |-> t.sender,
                                 receiver |-> t.receiver, amount |-> Band(t.amount)],
                       time |-> t.at]
    BY <2>2, TableRows
  <2>4. t.type \in {"transfer", "wire"} /\ t.receiver = a /\ t.sender = x
    <3> HIDE DEF table
    <3> QED BY <2>1, <2>2, <2>3
  <2>5. Made(t)
    BY DEF AllMade
  <2> QED BY <2>4, <2>5 DEF Made
<1> HIDE DEF S
<1> QED BY <1>3, <1>4, ManySenders

LEMMA CommunityIsClear ==
    ASSUME NEW ts, AllMade(ts), \A t \in ts : Handed(t), NEW a \in ByCommunity(ts)
    PROVE  a.pattern \in {"mule_network", "background"}
<1> DEFINE pairs == [k \in 1 .. Len(InOrder(ts)) |->
                       [sender |-> InOrder(ts)[k].sender, receiver |-> InOrder(ts)[k].receiver]]
           members == Cluster(a, ts)
<1>1. Mules(pairs)!Hubs(members) # {}
  BY DEF ByCommunity
<1>2. \A k \in 1 .. Len(pairs) :
         \E t \in ts : pairs[k].sender = t.sender /\ pairs[k].receiver = t.receiver
  <2> DEFINE rows == InOrder(ts)
             row(t) == [sender |-> t.sender, receiver |-> t.receiver]
  <2>1. pairs = [n \in 1 .. Len(rows) |-> row(rows[n])]
    OBVIOUS
  <2>2. Len(rows) \in Nat /\ \A n \in 1 .. Len(rows) : rows[n] \in ts
    BY RowsInOrder
  <2>3. \A t : row(t).sender = t.sender /\ row(t).receiver = t.receiver
    OBVIOUS
  <2> HIDE DEF pairs, rows, row
  <2>4. Len(pairs) = Len(rows)
    BY <2>1, <2>2
  <2>5. \A k \in 1 .. Len(pairs) : pairs[k] = row(rows[k]) /\ rows[k] \in ts
    BY <2>1, <2>2, <2>4
  <2> QED BY <2>3, <2>5
<1> HIDE DEF pairs, members
<1>3. PICK hub \in members : Mules(pairs)!Cardinality(Mules(pairs)!InComponentSenders(members, hub)) >= 4
  BY <1>1 DEF Mules!Hubs
<1> DEFINE S == Mules(pairs)!InComponentSenders(members, hub)
<1>4. Cardinality(S) >= 4
  <2> HIDE DEF S
  <2>1. Mules(pairs)!Cardinality(S) >= 4
    BY <1>3 DEF S
  <2> QED BY <2>1, MulesCount
<1>5. \A x \in S : \E t : Handed(t) /\ t.sender = x /\ t.receiver = hub
  <2> SUFFICES ASSUME NEW x \in S PROVE \E t : Handed(t) /\ t.sender = x /\ t.receiver = hub
    OBVIOUS
  <2>1. PICK k \in 1 .. Len(pairs) : pairs[k] = [sender |-> x, receiver |-> hub]
    BY DEF Mules!InComponentSenders
  <2>2. PICK t \in ts : pairs[k].sender = t.sender /\ pairs[k].receiver = t.receiver
    BY <1>2
  <2> QED BY <2>1, <2>2
<1>6. hub.pattern \in {"mule_network", "background"}
  <2> HIDE DEF S
  <2> QED BY <1>4, <1>5, ManySenders
<1>7. hub.pattern = a.pattern
  <2>1. \A t \in ts : t.sender.pattern = t.receiver.pattern
    BY HandedWithin
  <2>2. IsFiniteSet(ts)
    BY DEF AllMade
  <2> QED BY <2>1, <2>2, ClusterIsOfOnePattern DEF members
<1> QED BY <1>6, <1>7

------------------------------------------------------------------------------

\* What holds of the first step and is handed from each to the next.
LEMMA AlongThePath ==
    ASSUME NEW n \in Nat, NEW p, NEW v, p[1] = v, \A m \in 1 .. n - 1 : p[m] = p[m + 1]
    PROVE  \A m \in 1 .. n : p[m] = v
<1> DEFINE Bad == {m \in 1 .. n : p[m] # v}
<1>1. SUFFICES ASSUME Bad # {} PROVE FALSE
  OBVIOUS
<1>2. PICK m \in Bad : \A l \in Bad : m <= l
  <2>1. Bad \in SUBSET Nat
    OBVIOUS
  <2> HIDE DEF Bad
  <2> QED BY <1>1, <2>1, Least
<1>3. m - 1 \in 1 .. n - 1 /\ m - 1 \in 1 .. n /\ (m - 1) + 1 = m
  BY <1>2
<1>4. m - 1 \notin Bad
  <2> HIDE DEF Bad
  <2> QED BY <1>2, <1>3
<1> QED BY <1>2, <1>3, <1>4

LEMMA BackgroundIsSmall ==
    ASSUME NEW x, x \in OrdinaryAmounts
    PROVE  ~Large(x)
BY DEF OrdinaryAmounts, Large

LEMMA HandedKinds ==
    ASSUME NEW t, Handed(t)
    PROVE  \/ t.sender.pattern = "background" /\ ~Large(t.amount)
           \/ /\ t.sender.pattern = "mule_network"
              /\ \/ t.sender.role = "victim_source" /\ t.receiver.role = "mule"
                 \/ t.sender.role = "mule" /\ t.receiver.role = "destination"
           \/ t.sender.pattern = "layering"
<1>1. ASSUME NEW case \in Cases, NEW n \in 1 .. Hops, t.sender = ChainAccount(case, n)
      PROVE  t.sender.pattern = "layering"
  BY <1>1 DEF ChainAccount, Name
<1>2. CASE AmongBackground(t)
  <2>1. t.amount \in OrdinaryAmounts
    BY <1>2 DEF AmongBackground
  <2>2. ~Large(t.amount)
    BY <2>1, BackgroundIsSmall
  <2> QED BY <1>2, <2>2 DEF AmongBackground
<1>3. CASE AmongMules(t)
  BY <1>3, MulesHand
<1>4. CASE AlongChain(t)
  BY <1>1, <1>4 DEF AlongChain
<1> QED BY <1>2, <1>3, <1>4 DEF Handed

\* Three transfers, each from the account that received the one before, are
\* of a chain when the first is of more than the background'case amounts.
LEMMA ThreeHopsAreOfAChain ==
    ASSUME NEW t, NEW u, NEW v, Handed(t), Handed(u), Handed(v),
           t.receiver = u.sender, u.receiver = v.sender, Large(t.amount)
    PROVE  t.sender.pattern = "layering"
<1>1. /\ t.sender.pattern = t.receiver.pattern /\ u.sender.pattern = u.receiver.pattern
      /\ v.sender.pattern = v.receiver.pattern
      /\ t.receiver.pattern \in {"background", "mule_network", "layering"}
  BY HandedWithin
<1>2. t.sender.pattern # "background"
  BY HandedKinds
<1>3. t.sender.pattern # "mule_network"
  <2> SUFFICES ASSUME t.sender.pattern = "mule_network" PROVE FALSE
    OBVIOUS
  <2>1. \/ t.sender.role = "victim_source" /\ t.receiver.role = "mule"
        \/ t.sender.role = "mule" /\ t.receiver.role = "destination"
    BY HandedKinds
  <2>2. \/ u.sender.role = "victim_source" /\ u.receiver.role = "mule"
        \/ u.sender.role = "mule" /\ u.receiver.role = "destination"
    BY <1>1, HandedKinds
  <2>3. \/ v.sender.role = "victim_source" /\ v.receiver.role = "mule"
        \/ v.sender.role = "mule" /\ v.receiver.role = "destination"
    BY SMTT(30), <1>1, HandedKinds
  <2> QED BY <2>1, <2>2, <2>3
<1> QED BY <1>1, <1>2, <1>3

LEMMA HopsRange == MaxHops \in Nat
BY ChainAssumption

LEMMA LayeringIsClear ==
    ASSUME NEW ts, AllMade(ts), \A t \in ts : Handed(t),
           NEW rows, rows \subseteq Chains(Edges(ts))!Matches, NEW a \in ByLayering(ts, rows)
    PROVE  a.pattern = "layering"
<1> DEFINE edges == Edges(ts)
<1>1. PICK path \in Chains(edges)!Matches : a \in Chains(edges)!NodeSet(path)
  BY DEF ByLayering
<1>2. \A k \in 1 .. Len(edges) :
         \E t \in ts : /\ edges[k].sender = t.sender /\ edges[k].receiver = t.receiver
                       /\ edges[k].amount = t.amount
  BY EdgeRows
<1> HIDE DEF edges
<1>3. PICK n \in 3 .. MaxHops : path \in [1 .. n -> 1 .. Len(edges)]
  BY <1>1 DEF Chains!Matches, Chains!Transfers
<1>4. n \in Nat /\ n >= 3
  BY HopsRange
<1>5. Len(path) = n
  BY <1>3, <1>4
<1>6. /\ Large(edges[path[1]].amount)
      /\ \A m \in 1 .. n - 1 : edges[path[m]].receiver = edges[path[m + 1]].sender
  <2>1. Chains(edges)!IsMatch(path)
    BY <1>1 DEF Chains!Matches
  <2> QED BY <1>5, <2>1 DEF Chains!IsMatch, Chains!First, Chains!Follows, Large
<1>7. \A m \in 1 .. n : path[m] \in 1 .. Len(edges)
  BY <1>3
<1> HIDE DEF edges
<1>8. \A m \in 1 .. n : edges[path[m]].sender.pattern = edges[path[m]].receiver.pattern
  BY <1>2, <1>7, HandedWithin
<1>9. edges[path[1]].sender.pattern = "layering"
  <2>1. 1 \in 1 .. n /\ 2 \in 1 .. n /\ 3 \in 1 .. n /\ 1 \in 1 .. n - 1 /\ 2 \in 1 .. n - 1
    BY <1>4
  <2>2. /\ edges[path[1]].receiver = edges[path[2]].sender
        /\ edges[path[2]].receiver = edges[path[3]].sender
    BY <1>6, <2>1
  <2>3. PICK t \in ts : /\ edges[path[1]].sender = t.sender /\ edges[path[1]].receiver = t.receiver
                        /\ edges[path[1]].amount = t.amount
    BY <1>2, <1>7, <2>1
  <2>4. PICK u \in ts : edges[path[2]].sender = u.sender /\ edges[path[2]].receiver = u.receiver
    BY <1>2, <1>7, <2>1
  <2>5. PICK v \in ts : edges[path[3]].sender = v.sender /\ edges[path[3]].receiver = v.receiver
    BY <1>2, <1>7, <2>1
  <2> QED BY <1>6, <2>2, <2>3, <2>4, <2>5, ThreeHopsAreOfAChain
<1> DEFINE p == [m \in 1 .. n |-> edges[path[m]].sender.pattern]
<1>10. \A m \in 1 .. n : p[m] = "layering"
  <2>1. p[1] = "layering"
    BY <1>4, <1>9
  <2>2. \A m \in 1 .. n - 1 : p[m] = p[m + 1]
    <3> SUFFICES ASSUME NEW m \in 1 .. n - 1 PROVE p[m] = p[m + 1]
      OBVIOUS
    <3>1. m \in 1 .. n /\ m + 1 \in 1 .. n
      BY <1>4
    <3> QED BY <1>6, <1>8, <3>1
  <2> HIDE DEF p
  <2> QED BY <1>4, <2>1, <2>2, AlongThePath
<1>11. \A m \in 1 .. n : edges[path[m]].receiver.pattern = "layering"
  BY <1>8, <1>10
<1>12. a = edges[path[1]].sender \/ \E m \in 1 .. n : a = edges[path[m]].receiver
  BY <1>1, <1>5 DEF Chains!NodeSet, Chains!First
<1> QED BY <1>9, <1>11, <1>12

------------------------------------------------------------------------------
(* What the detectors do not miss *)

\* The rows in the order of time, and where they stand.
LEMMA RowsSorted ==
    ASSUME NEW ts, AllMade(ts)
    PROVE  /\ \A k, l \in 1 .. Len(InOrder(ts)) : k < l => InOrder(ts)[k].at <= InOrder(ts)[l].at
           /\ \A t \in ts : \E k \in 1 .. Len(InOrder(ts)) : InOrder(ts)[k] = t
<1>1. IsFiniteSet(ts) /\ \A t \in ts : t.at \in Nat
  BY DEF AllMade, Made
<1>2. Cardinality(ts) \in Nat /\ InOrder(ts) \in [1 .. Cardinality(ts) -> ts]
  BY <1>1, FS_CardinalityType, InOrderIsOfRows
<1>3. Len(InOrder(ts)) = Cardinality(ts)
  BY <1>2
<1> QED BY <1>1, <1>3, InOrderIsSorted

\* Counting three.
LEMMA ThreeAre ==
    ASSUME NEW x, NEW y, NEW z, x # y, y # z, x # z
    PROVE  IsFiniteSet({x, y, z}) /\ Cardinality({x, y, z}) = 3
<1>1. IsFiniteSet({x}) /\ Cardinality({x}) = 1
  BY FS_Singleton
<1>2. IsFiniteSet({x} \cup {y}) /\ Cardinality({x} \cup {y}) = 2
  BY <1>1, FS_AddElement
<1>3. IsFiniteSet({x} \cup {y} \cup {z}) /\ Cardinality({x} \cup {y} \cup {z}) = 3
  BY <1>2, FS_AddElement
<1>4. {x} \cup {y} \cup {z} = {x, y, z}
  OBVIOUS
<1> QED BY <1>3, <1>4

\* Of numbers that do not exceed one of them there is a greatest.
LEMMA GreatestUpTo ==
    ASSUME NEW S \in SUBSET Nat, S # {}, NEW m \in Nat, \A n \in S : n <= m
    PROVE  \E n \in S : \A l \in S : l <= n
<1> DEFINE T == {m - n : n \in S}
<1>1. T \in SUBSET Nat /\ T # {}
  <2>1. \A n \in S : m - n \in Nat
    OBVIOUS
  <2> QED BY <2>1
<1>2. PICK d \in T : \A e \in T : d <= e
  <2> HIDE DEF T
  <2> QED BY <1>1, Least
<1>3. PICK n \in S : d = m - n
  OBVIOUS
<1>4. \A l \in S : l <= n
  <2> SUFFICES ASSUME NEW l \in S PROVE l <= n
    OBVIOUS
  <2>1. d <= m - l
    BY <1>2
  <2>2. l \in Nat /\ n \in Nat
    OBVIOUS
  <2> QED BY <1>3, <2>1, <2>2
<1> QED BY <1>4

\* The first three of the numbers from k on, k the least of any three of them,
\* end before these three do.
FirstThreeOf(F) == {l \in F : Cardinality({n \in F : n <= l}) <= 3}

EndBy(D, k, m) ==
    /\ Cardinality({l \in D : k <= l}) >= 3
    /\ \E last \in FirstThreeOf({l \in D : k <= l}) :
          last <= m /\ \A l \in FirstThreeOf({n \in D : k <= n}) : l <= last

LEMMA FirstThree ==
    ASSUME NEW D \in SUBSET Nat, IsFiniteSet(D), NEW x \in D, NEW y \in D, NEW z \in D,
           x # y, y # z, x # z
    PROVE  \E k, m \in {x, y, z} : EndBy(D, k, m)
<1> DEFINE R == {x, y, z}
<1>1. /\ IsFiniteSet(R) /\ Cardinality(R) = 3
      /\ R \in SUBSET D /\ R \in SUBSET Nat /\ R # {}
  BY ThreeAre
<1>2. PICK k \in R : \A l \in R : k <= l
  <2> HIDE DEF R
  <2> QED BY <1>1, Least
<1>3. PICK m \in R : \A l \in R : l <= m
  <2> DEFINE b == x + y + z
  <2>1. b \in Nat /\ x <= b /\ y <= b /\ z <= b
    OBVIOUS
  <2> HIDE DEF b
  <2>2. \A l \in R : l <= b
    BY <2>1
  <2> HIDE DEF R
  <2> QED BY <1>1, <2>1, <2>2, GreatestUpTo
<1> HIDE DEF R
<1> DEFINE F == {l \in D : k <= l}
           G == FirstThreeOf(F)
<1>4. F \in SUBSET Nat /\ IsFiniteSet(F) /\ R \in SUBSET F
  BY <1>1, <1>2, FS_Subset
<1> HIDE DEF F
<1>5. Cardinality(F) >= 3
  <2>1. Cardinality(R) <= Cardinality(F) /\ Cardinality(F) \in Nat
    BY <1>4, FS_Subset, FS_CardinalityType
  <2> QED BY <1>1, <2>1
<1>6. \A l \in G : l <= m
  <2> SUFFICES ASSUME NEW l \in G, ~(l <= m) PROVE FALSE
    OBVIOUS
  <2> DEFINE upto == {n \in F : n <= l}
  <2>1. l \in F /\ Cardinality(upto) <= 3
    BY DEF FirstThreeOf
  <2>2. l \in Nat /\ m \in Nat
    BY <1>1, <1>4, <2>1
  <2>3. \A n \in R : n <= l
    <3> SUFFICES ASSUME NEW n \in R PROVE n <= l
      OBVIOUS
    <3>1. n <= m /\ n \in Nat
      BY <1>1, <1>3
    <3> QED BY <2>2, <3>1
  <2>4. R \cup {l} \in SUBSET upto
    BY <1>4, <2>1, <2>2, <2>3
  <2>5. l \notin R
    BY <1>3
  <2>6. IsFiniteSet(upto)
    BY <1>4, FS_Subset
  <2>7. Cardinality(R \cup {l}) = 4
    <3>1. Cardinality(R \cup {l}) = Cardinality(R) + 1
      BY <1>1, <2>5, FS_AddElement
    <3> QED BY <1>1, <3>1
  <2> HIDE DEF upto
  <2>8. Cardinality(R \cup {l}) <= Cardinality(upto) /\ Cardinality(upto) \in Nat
    BY <2>4, <2>6, FS_Subset, FS_CardinalityType
  <2> QED BY <2>1, <2>7, <2>8
<1>7. k \in G
  <2>1. k \in F /\ {n \in F : n <= k} = {k}
    BY <1>1, <1>4 DEF F
  <2>2. Cardinality({k}) = 1
    BY FS_Singleton
  <2> QED BY <2>1, <2>2 DEF FirstThreeOf
<1>8. G \in SUBSET Nat /\ m \in Nat
  BY <1>1, <1>4 DEF FirstThreeOf
<1>9. PICK last \in G : \A l \in G : l <= last
  <2> HIDE DEF G
  <2> QED BY <1>6, <1>7, <1>8, GreatestUpTo
<1>10. last <= m
  BY <1>6
<1>11. EndBy(D, k, m)
  BY <1>5, <1>9, <1>10 DEF F, EndBy
<1> QED BY <1>11 DEF R

------------------------------------------------------------------------------

\* Three deposits that qualify, within the window: there is a finding.
LEMMA ThreeDepositsFound ==
    ASSUME NEW table, Len(table) \in Nat,
           \A k \in 1 .. Len(table) : table[k].time \in Nat,
           \A k, l \in 1 .. Len(table) : k < l => table[k].time <= table[l].time,
           NEW a, NEW x \in Rules(table)!Deposits(a), NEW y \in Rules(table)!Deposits(a),
           NEW z \in Rules(table)!Deposits(a), x # y, y # z, x # z,
           \A k, l \in {x, y, z} : table[k].time - table[l].time <= 14 * Day
    PROVE  Rules(table)!StructuringFindings(a) # {}
<1> DEFINE D == Rules(table)!Deposits(a)
<1>1. D \in SUBSET (1 .. Len(table))
  BY DEF Rules!Deposits, Rules!Rows
<1>2. D \in SUBSET Nat /\ IsFiniteSet(D)
  <2>1. IsFiniteSet(1 .. Len(table))
    BY FS_Interval
  <2> HIDE DEF D
  <2> QED BY <1>1, <2>1, FS_Subset
<1>3. \A k \in D : Rules(table)!From(a, k) = {l \in D : k <= l}
  BY DEF Rules!From
<1>4. \A k \in D : Rules(table)!Group(a, k) = FirstThreeOf({l \in D : k <= l})
  BY <1>3, RulesCount DEF Rules!Group, Rules!FirstOf, FirstThreeOf
<1>5. \A k \in D : k \in Rules(table)!Starts(a) <=> Cardinality({l \in D : k <= l}) >= 3
  BY <1>3, RulesCount DEF Rules!Starts
<1>6. \A k : Rules(table)!IsShort(a, k) <=>
               \E last \in Rules(table)!Group(a, k) :
                  /\ \A l \in Rules(table)!Group(a, k) : l <= last
                  /\ table[last].time - table[k].time <= 14 * Day
  BY DEF Rules!IsShort
<1> HIDE DEF D
<1>7. PICK k \in {x, y, z}, m \in {x, y, z} : EndBy(D, k, m)
  <2>1. x \in D /\ y \in D /\ z \in D
    BY DEF D
  <2> QED BY <1>2, <2>1, FirstThree
<1>8. k \in D /\ m \in D
  BY DEF D
<1>9. PICK last \in FirstThreeOf({l \in D : k <= l}) :
         last <= m /\ \A l \in FirstThreeOf({n \in D : k <= n}) : l <= last
  BY <1>7 DEF EndBy
<1>10. last \in D
  BY DEF FirstThreeOf
<1>11. table[last].time - table[k].time <= 14 * Day
  <2>1. /\ last \in 1 .. Len(table) /\ m \in 1 .. Len(table) /\ k \in 1 .. Len(table)
    BY <1>1, <1>8, <1>10
  <2>2. last < m \/ last = m
    BY <1>9, <2>1
  <2>3. table[last].time <= table[m].time
    BY <2>1, <2>2
  <2>4. table[last].time \in Nat /\ table[m].time \in Nat /\ table[k].time \in Nat
    BY <2>1
  <2>5. table[m].time - table[k].time <= 14 * Day
    OBVIOUS
  <2> QED BY <2>3, <2>4, <2>5 DEF Day
<1>12. k \in Rules(table)!Starts(a) /\ Rules(table)!IsShort(a, k)
  BY <1>4, <1>5, <1>6, <1>7, <1>8, <1>9, <1>11 DEF EndBy
<1> DEFINE B == {n \in Rules(table)!Starts(a) : Rules(table)!IsShort(a, n)}
<1>13. B \in SUBSET Nat /\ B # {}
  <2>1. Rules(table)!Starts(a) \subseteq D
    BY DEF Rules!Starts, D
  <2> QED BY <1>2, <1>12, <2>1
<1>14. PICK n \in B : \A l \in B : n <= l
  <2> HIDE DEF B
  <2> QED BY <1>13, Least
<1>15. n \in Rules(table)!FirstShort(a)
  <2>1. \A l \in Rules(table)!Starts(a) : l < n => ~Rules(table)!IsShort(a, l)
    <3> SUFFICES ASSUME NEW l \in Rules(table)!Starts(a), l < n, Rules(table)!IsShort(a, l)
                 PROVE  FALSE
      OBVIOUS
    <3>1. l \in B /\ l \in Nat /\ n \in Nat
      BY <1>13
    <3> QED BY <1>14, <3>1
  <2> QED BY <1>14, <2>1 DEF Rules!FirstShort
<1> QED BY <1>15 DEF Rules!StructuringFindings

\* What the rules see of a row.
RowOf(t) ==
    [kind |-> [type |-> t.type, sender |-> t.sender, receiver |-> t.receiver,
               amount |-> Band(t.amount)],
     time |-> t.at]

LEMMA TableIs ==
    ASSUME NEW ts, AllMade(ts)
    PROVE  /\ Len(Table(ts)) \in Nat /\ Len(Table(ts)) = Len(InOrder(ts))
           /\ \A k \in 1 .. Len(Table(ts)) :
                 InOrder(ts)[k] \in ts /\ Table(ts)[k] = RowOf(InOrder(ts)[k])
<1> DEFINE rows == InOrder(ts)
<1>1. Table(ts) = [n \in 1 .. Len(rows) |-> RowOf(rows[n])]
  BY DEF Table, RowOf
<1>2. Len(rows) \in Nat /\ \A n \in 1 .. Len(rows) : rows[n] \in ts
  BY RowsInOrder
<1> HIDE DEF rows
<1>3. Len(Table(ts)) = Len(rows)
  BY <1>1, <1>2
<1>4. \A k \in 1 .. Len(Table(ts)) : rows[k] \in ts /\ Table(ts)[k] = RowOf(rows[k])
  BY <1>1, <1>2, <1>3
<1> QED BY <1>2, <1>3, <1>4 DEF rows

\* A deposit the structuring rule looks at, and three of them that are close.
Suspect(t, a) == t.type = "deposit" /\ Band(t.amount) = "band" /\ t.receiver = a

Close(S) == \A x, y \in S : x.at - y.at <= 14 * Day

Structured(a, ts) ==
    \E t, u, v \in ts :
       /\ t # u /\ u # v /\ t # v
       /\ Suspect(t, a) /\ Suspect(u, a) /\ Suspect(v, a)
       /\ Close({t, u, v})

\* Whoever received three deposits in the band within two weeks is flagged
\* for structuring, whatever other rows the generators made and in whatever
\* order rows of one time come.
THEOREM StructurerFound ==
    ASSUME NEW ts, AllMade(ts), NEW a, a # Outside, Structured(a, ts)
    PROVE  a \in ByStructuring(ts)
<1>1. PICK t \in ts, u \in ts, v \in ts :
         /\ t # u /\ u # v /\ t # v
         /\ Suspect(t, a) /\ Suspect(u, a) /\ Suspect(v, a)
         /\ Close({t, u, v})
  BY DEF Structured
<1> DEFINE table == Table(ts)
           rows == InOrder(ts)
<1>2. /\ Len(table) \in Nat /\ Len(table) = Len(rows)
      /\ \A k \in 1 .. Len(table) : rows[k] \in ts /\ table[k] = RowOf(rows[k])
  BY TableIs
<1>3. /\ \A k, l \in 1 .. Len(rows) : k < l => rows[k].at <= rows[l].at
      /\ \A w \in ts : \E k \in 1 .. Len(rows) : rows[k] = w
  BY RowsSorted
<1>4. \A w \in ts : w.at \in Nat
  BY DEF AllMade, Made
<1> HIDE DEF table, rows
<1>5. /\ \A w : RowOf(w).time = w.at
      /\ \A w : Suspect(w, a) => /\ RowOf(w).kind.type = "deposit"
                                 /\ RowOf(w).kind.amount = "band"
                                 /\ RowOf(w).kind.receiver = a
  BY DEF RowOf, Suspect
<1>6. /\ \A k \in 1 .. Len(table) : table[k].time \in Nat
      /\ \A k, l \in 1 .. Len(table) : k < l => table[k].time <= table[l].time
  <2>1. \A k \in 1 .. Len(table) : table[k].time = rows[k].at
    BY <1>2, <1>5
  <2>2. \A k \in 1 .. Len(table) : rows[k] \in ts
    BY <1>2
  <2>3. \A k \in 1 .. Len(table) : table[k].time \in Nat
    BY <1>4, <2>1, <2>2
  <2>4. ASSUME NEW k \in 1 .. Len(table), NEW l \in 1 .. Len(table), k < l
        PROVE  table[k].time <= table[l].time
    <3>1. rows[k].at <= rows[l].at
      BY <1>2, <1>3, <2>4
    <3> QED BY <2>1, <3>1
  <2> QED BY <2>3, <2>4
<1>7. ASSUME NEW k \in 1 .. Len(table), Suspect(rows[k], a)
      PROVE  k \in Rules(table)!Deposits(a)
  <2>1. /\ table[k].kind.type = "deposit" /\ table[k].kind.amount = "band"
        /\ table[k].kind.receiver = a
    BY <1>2, <1>5, <1>7
  <2> QED BY <2>1 DEF Rules!Deposits, Rules!Qualifies, Rules!Rows
<1>8. PICK x \in 1 .. Len(table), y \in 1 .. Len(table), z \in 1 .. Len(table) :
         rows[x] = t /\ rows[y] = u /\ rows[z] = v
  BY <1>2, <1>3
<1>9. /\ x \in Rules(table)!Deposits(a) /\ y \in Rules(table)!Deposits(a)
      /\ z \in Rules(table)!Deposits(a) /\ x # y /\ y # z /\ x # z
  BY <1>1, <1>7, <1>8
<1>10. \A k, l \in {x, y, z} : table[k].time - table[l].time <= 14 * Day
  <2> SUFFICES ASSUME NEW k \in {x, y, z}, NEW l \in {x, y, z}
               PROVE  table[k].time - table[l].time <= 14 * Day
    OBVIOUS
  <2>1. rows[k] \in {t, u, v} /\ rows[l] \in {t, u, v}
    BY <1>8
  <2>2. rows[k].at - rows[l].at <= 14 * Day
    BY <1>1, <2>1 DEF Close
  <2>3. table[k].time = rows[k].at /\ table[l].time = rows[l].at
    BY <1>2, <1>5
  <2> QED BY <2>2, <2>3
<1>11. Rules(table)!StructuringFindings(a) # {}
  BY ZenonT(60), <1>2, <1>6, <1>9, <1>10, ThreeDepositsFound
<1>12. a \in {w.receiver : w \in ts} \ {Outside}
  BY <1>1 DEF Suspect
<1> QED BY <1>11, <1>12 DEF ByStructuring, table

------------------------------------------------------------------------------
(* A chain of four *)

\* What Cypher sees of a transfer.
EdgeOf(t) == [sender |-> t.sender, receiver |-> t.receiver, amount |-> t.amount, time |-> t.at]

LEMMA EdgesAre ==
    ASSUME NEW ts, AllMade(ts)
    PROVE  /\ Len(Edges(ts)) \in Nat
           /\ \A t \in ts : \E k \in 1 .. Len(Edges(ts)) : Edges(ts)[k] = EdgeOf(t)
<1> DEFINE rows == InOrder(ts)
<1>1. Edges(ts) = [n \in 1 .. Len(rows) |-> EdgeOf(rows[n])]
  BY DEF Edges, EdgeOf
<1>2. Len(rows) \in Nat /\ \A t \in ts : \E k \in 1 .. Len(rows) : rows[k] = t
  BY RowsInOrder, RowsSorted
<1> HIDE DEF rows
<1>3. Len(Edges(ts)) = Len(rows)
  BY <1>1, <1>2
<1>4. \A k \in 1 .. Len(Edges(ts)) : Edges(ts)[k] = EdgeOf(rows[k])
  BY <1>1, <1>3
<1> QED BY <1>2, <1>3, <1>4

\* The transfers of a chain that the detector looks for are there.
Chained(case, ts) ==
    \E t, u, v, w \in ts :
       /\ Along(t, case, 1) /\ Along(u, case, 2) /\ Along(v, case, 3) /\ Along(w, case, 4)
       /\ t.amount >= 15000
       /\ Hands(t, u) /\ Hands(u, v) /\ Hands(v, w)

LEMMA HopFollows ==
    ASSUME NEW edges, NEW k, NEW l, NEW t, NEW u, edges[k] = EdgeOf(t), edges[l] = EdgeOf(u),
           Hands(t, u), t.receiver = u.sender
    PROVE  Chains(edges)!Follows(k, l)
<1>1. /\ edges[k].receiver = t.receiver /\ edges[k].amount = t.amount /\ edges[k].time = t.at
      /\ edges[l].sender = u.sender /\ edges[l].amount = u.amount /\ edges[l].time = u.at
  BY DEF EdgeOf
<1>2. ASSUME NEW x \in Nat, NEW y \in Nat, y <= x, x <= 2 * y
      PROVE  20 * y <= 21 * x /\ 2 * y >= x
  BY <1>2
<1>3. Chains(edges)!Retains(k, l)
  BY <1>1, <1>2 DEF Hands, Chains!Retains
<1>4. ASSUME NEW x \in Nat, NEW y \in Nat, x <= y
      PROVE  (y - x) % 24 <= 96
  BY <1>4
<1>5. Chains(edges)!Hours(k, l) <= 96
  BY <1>1, <1>4 DEF Hands, Chains!Hours, Day
<1> QED BY <1>1, <1>3, <1>5 DEF Hands, Chains!Follows

LEMMA ChainAccountsDiffer ==
    ASSUME NEW case, NEW m \in 1 .. 5, NEW n \in 1 .. 5, ChainAccount(case, m) = ChainAccount(case, n)
    PROVE  m = n
<1>1. m \in {1, 2, 3, 4, 5} /\ n \in {1, 2, 3, 4, 5}
  OBVIOUS
<1>2. /\ ChainAccount(case, 1) = Name(case, "layering", "origin", 1)
      /\ ChainAccount(case, 2) = Name(case, "layering", "intermediary", 1)
      /\ ChainAccount(case, 3) = Name(case, "layering", "intermediary", 2)
      /\ ChainAccount(case, 4) = Name(case, "layering", "intermediary", 3)
      /\ ChainAccount(case, 5) = Name(case, "layering", "destination", 1)
  BY DEF ChainAccount, Hops
<1> QED BY <1>1, <1>2 DEF Name

LEMMA FiveOnAChain ==
    ASSUME NEW case
    PROVE  Cardinality(OfChain(case)) = 5
<1> DEFINE f == [n \in 1 .. 5 |-> ChainAccount(case, n)]
<1>1. f \in Surjection(1 .. 5, OfChain(case))
  BY DEF OfChain, Surjection
<1>2. f \in Injection(1 .. 5, OfChain(case))
  <2>1. \A m, n \in 1 .. 5 : f[m] = f[n] => m = n
    BY ChainAccountsDiffer
  <2> HIDE DEF f
  <2> QED BY <1>1, <2>1 DEF Surjection, Injection, IsInjective
<1>3. IsFiniteSet(1 .. 5) /\ Cardinality(1 .. 5) = 5
  <2>1. 1 \in Int /\ 5 \in Int /\ ~(1 > 5) /\ 5 - 1 + 1 = 5
    OBVIOUS
  <2> QED BY <2>1, FS_Interval
<1> HIDE DEF f
<1> QED BY <1>1, <1>2, <1>3, FS_Surjection

LEMMA HopsAllowed == 4 \in 3 .. MaxHops
<1>1. MaxHops \in 4 .. 6
  BY ChainAssumption
<1> QED BY <1>1

\* Four transfers along a chain are one of the paths, and visit no account twice.
PathOf(edges, h, case) ==
    /\ h \in [1 .. 4 -> 1 .. Len(edges)]
    /\ \A n \in 1 .. 4 : /\ edges[h[n]].sender = ChainAccount(case, n)
                         /\ edges[h[n]].receiver = ChainAccount(case, n + 1)
    /\ edges[h[1]].amount >= 15000
    /\ \A n \in 1 .. 3 : Chains(edges)!Follows(h[n], h[n + 1])

LEMMA ChainMatches ==
    ASSUME NEW edges, NEW case, NEW h, PathOf(edges, h, case)
    PROVE  /\ h \in Chains(edges)!Matches
           /\ Chains(edges)!IsSimple(h)
           /\ Chains(edges)!NodeSet(h) = OfChain(case)
<1>1. Len(h) = 4 /\ h \in [1 .. 4 -> 1 .. Len(edges)]
  BY DEF PathOf
<1>2. \A n \in 1 .. 4 : n \in 1 .. 5 /\ n + 1 \in 1 .. 5
  OBVIOUS
<1>3. \A m, n \in 1 .. 4 : h[m] = h[n] => m = n
  BY <1>2, ChainAccountsDiffer DEF PathOf
<1>4. ChainAccount(case, 1) # ChainAccount(case, 5)
  <2>1. 1 \in 1 .. 5 /\ 5 \in 1 .. 5 /\ 1 # 5
    OBVIOUS
  <2> QED BY <2>1, ChainAccountsDiffer
<1>5. /\ Chains(edges)!First(h).amount >= 15000
      /\ Chains(edges)!First(h).sender = ChainAccount(case, 1)
      /\ Chains(edges)!Last(h).receiver = ChainAccount(case, 5)
  <2>1. 1 \in 1 .. 4 /\ 4 \in 1 .. 4 /\ 4 + 1 = 5
    OBVIOUS
  <2>2. edges[h[4]].receiver = ChainAccount(case, 4 + 1)
    BY <2>1 DEF PathOf
  <2> QED BY <1>1, <2>1, <2>2 DEF Chains!First, Chains!Last, PathOf
<1>6. Chains(edges)!IsMatch(h)
  <2>1. 1 .. Len(h) = 1 .. 4 /\ 1 .. Len(h) - 1 = 1 .. 3
    BY <1>1
  <2>2. Chains(edges)!First(h).sender # Chains(edges)!Last(h).receiver
    BY <1>4, <1>5
  <2>3. ASSUME NEW n \in 1 .. Len(h) - 1
        PROVE  Chains(edges)!Follows(h[n], h[n + 1])
    <3>1. n \in 1 .. 3
      BY <2>1
    <3> QED BY <3>1 DEF PathOf
  <2>4. ASSUME NEW m \in 1 .. Len(h), NEW n \in 1 .. Len(h), h[m] = h[n]
        PROVE  m = n
    <3>1. m \in 1 .. 4 /\ n \in 1 .. 4
      BY <2>1
    <3> QED BY <1>3, <2>4, <3>1
  <2> QED BY <1>5, <2>2, <2>3, <2>4 DEF Chains!IsMatch
<1>7. h \in Chains(edges)!Matches
  <2>1. h \in UNION {[1 .. n -> Chains(edges)!Transfers] : n \in 3 .. MaxHops}
    BY <1>1, HopsAllowed DEF Chains!Transfers
  <2> QED BY <1>6, <2>1 DEF Chains!Matches
<1>8. Chains(edges)!NodeSet(h) = OfChain(case)
  <2>1. Chains(edges)!NodeSet(h) = {ChainAccount(case, 1)} \cup {edges[h[n]].receiver : n \in 1 .. 4}
    BY <1>1, <1>5 DEF Chains!NodeSet
  <2>2. {edges[h[n]].receiver : n \in 1 .. 4} = {ChainAccount(case, n + 1) : n \in 1 .. 4}
    BY DEF PathOf
  <2>3. \A n \in 1 .. 5 : n = 1 \/ (n - 1 \in 1 .. 4 /\ n = (n - 1) + 1)
    OBVIOUS
  <2> QED BY <1>2, <2>1, <2>2, <2>3 DEF OfChain
<1>9. Chains(edges)!IsSimple(h)
  <2>1. Chains(edges)!Cardinality(OfChain(case)) = 5
    BY FiveOnAChain, ChainsCount
  <2> QED BY <1>1, <1>8, <2>1 DEF Chains!IsSimple
<1> QED BY <1>7, <1>8, <1>9

------------------------------------------------------------------------------
(* The limit of the query *)

LEMMA RowsAreMatches ==
    ASSUME NEW transfers, NEW found, NEW rows \in Chains(transfers)!Rows(found)
    PROVE  rows \subseteq found
BY DEF Chains!Rows

\* A path is told by the positions of its transfers, of which there are so many.
LEMMA MatchesFinite ==
    ASSUME NEW edges, Len(edges) \in Nat
    PROVE  IsFiniteSet(Chains(edges)!Matches)
<1> DEFINE M == Chains(edges)!Matches
           U == (1 .. MaxHops) \X (1 .. Len(edges))
           Steps(p) == {<<n, p[n]>> : n \in DOMAIN p}
           f == [p \in M |-> Steps(p)]
<1>1. ASSUME NEW p \in M
      PROVE  \E n \in 3 .. MaxHops : p \in [1 .. n -> 1 .. Len(edges)]
  BY DEF Chains!Matches, Chains!Transfers
<1>2. MaxHops \in Nat
  BY HopsRange
<1>3. ASSUME NEW p \in M
      PROVE  Steps(p) \in SUBSET U
  <2>1. PICK n \in 3 .. MaxHops : p \in [1 .. n -> 1 .. Len(edges)]
    BY <1>1
  <2>2. \A m \in DOMAIN p : m \in 1 .. MaxHops /\ p[m] \in 1 .. Len(edges)
    BY <1>2, <2>1
  <2> QED BY <2>2
<1>4. ASSUME NEW p \in M, NEW q \in M, Steps(p) = Steps(q)
      PROVE  p = q
  <2>1. PICK n \in 3 .. MaxHops : p \in [1 .. n -> 1 .. Len(edges)]
    BY <1>1
  <2>2. PICK m \in 3 .. MaxHops : q \in [1 .. m -> 1 .. Len(edges)]
    BY <1>1
  <2>3. \A k \in DOMAIN p : k \in DOMAIN q /\ p[k] = q[k]
    <3> SUFFICES ASSUME NEW k \in DOMAIN p PROVE k \in DOMAIN q /\ p[k] = q[k]
      OBVIOUS
    <3>1. <<k, p[k]>> \in Steps(q)
      BY <1>4
    <3> QED BY <3>1
  <2>4. \A k \in DOMAIN q : k \in DOMAIN p
    <3> SUFFICES ASSUME NEW k \in DOMAIN q PROVE k \in DOMAIN p
      OBVIOUS
    <3>1. <<k, q[k]>> \in Steps(p)
      BY <1>4
    <3> QED BY <3>1
  <2> HIDE DEF M
  <2> QED BY <2>1, <2>2, <2>3, <2>4
<1> HIDE DEF M, Steps, U
<1>5. f \in Injection(M, SUBSET U)
  BY <1>3, <1>4 DEF Injection, IsInjective
<1>6. IsFiniteSet(SUBSET U)
  <2>1. IsFiniteSet(1 .. MaxHops) /\ IsFiniteSet(1 .. Len(edges))
    BY <1>2, FS_Interval
  <2>2. IsFiniteSet(U)
    BY <2>1, FS_Product DEF U
  <2> QED BY <2>2, FS_SUBSET
<1> HIDE DEF f
<1>7. IsFiniteSet(M)
  BY <1>5, <1>6, FS_Injection
<1> QED BY <1>7 DEF M

\* A path is among the rows of the query when no more paths of its length or
\* longer are found than the query returns.
LEMMA LongestAreReturned ==
    ASSUME NEW edges, Len(edges) \in Nat,
           NEW h \in Chains(edges)!Matches,
           NEW rows \in Chains(edges)!Rows(Chains(edges)!Matches),
           ~(Cardinality({p \in Chains(edges)!Matches : Len(p) >= Len(h)}) > QueryLimit)
    PROVE  h \in rows
<1> DEFINE M == Chains(edges)!Matches
           A == {p \in M : Len(p) >= Len(h)}
<1>1. QueryLimit \in Nat
  BY Zenon, PipelineAssumption
<1>2. IsFiniteSet(M)
  BY MatchesFinite
<1>3. rows \subseteq M
  BY RowsAreMatches
<1>4. \/ rows = M
      \/ /\ Cardinality(rows) = QueryLimit
         /\ \A p \in rows, q \in M \ rows : Len(p) >= Len(q)
  <2>1. Chains(edges)!Cardinality(rows) = Cardinality(rows)
    BY ChainsCount
  <2> HIDE DEF M
  <2>2. rows \in Chains(edges)!Rows(M)
    BY DEF M
  <2> QED BY <2>1, <2>2 DEF Chains!Rows
<1> HIDE DEF M
<1> SUFFICES ASSUME h \notin rows PROVE FALSE
  OBVIOUS
<1>5. h \in M
  BY DEF M
<1>6. Cardinality(rows) = QueryLimit /\ \A p \in rows : Len(p) >= Len(h)
  BY <1>4, <1>5
<1>7. rows \cup {h} \subseteq A
  <2>1. Len(h) >= Len(h)
    <3>1. \E n \in 3 .. MaxHops : h \in [1 .. n -> 1 .. Len(edges)]
      BY DEF Chains!Matches, Chains!Transfers
    <3>2. Len(h) \in Nat
      BY <3>1, HopsRange
    <3> QED BY <3>2
  <2> QED BY <1>3, <1>5, <1>6, <2>1
<1>8. IsFiniteSet(rows) /\ IsFiniteSet(A)
  BY <1>2, <1>3, FS_Subset
<1> HIDE DEF A
<1>9. Cardinality(rows \cup {h}) = QueryLimit + 1
  BY <1>6, <1>8, FS_AddElement
<1>10. Cardinality(rows \cup {h}) <= Cardinality(A)
  BY <1>7, <1>8, FS_Subset
<1>11. Cardinality(A) \in Nat /\ ~(Cardinality(A) > QueryLimit)
  BY <1>8, FS_CardinalityType DEF A, M
<1> QED BY <1>1, <1>9, <1>10, <1>11

\* Every account of a chain whose four transfers are there is flagged for
\* layering, whatever other rows the generators made and whichever rows the
\* query returns, unless there are more paths of four or more hops than its
\* limit.
THEOREM ChainFound ==
    ASSUME NEW ts, AllMade(ts), ~Crowded(ts),
           NEW rows \in Chains(Edges(ts))!Rows(Chains(Edges(ts))!Matches),
           NEW case, Chained(case, ts)
    PROVE  OfChain(case) \subseteq ByLayering(ts, rows)
<1> DEFINE edges == Edges(ts)
<1>1. PICK t \in ts, u \in ts, v \in ts, w \in ts :
         /\ Along(t, case, 1) /\ Along(u, case, 2) /\ Along(v, case, 3) /\ Along(w, case, 4)
         /\ t.amount >= 15000
         /\ Hands(t, u) /\ Hands(u, v) /\ Hands(v, w)
  BY DEF Chained
<1>2. Len(edges) \in Nat /\ \A x \in ts : \E k \in 1 .. Len(edges) : edges[k] = EdgeOf(x)
  BY EdgesAre
<1> HIDE DEF edges
<1>3. PICK a \in 1 .. Len(edges), b \in 1 .. Len(edges), c \in 1 .. Len(edges),
           d \in 1 .. Len(edges) :
         /\ edges[a] = EdgeOf(t) /\ edges[b] = EdgeOf(u)
         /\ edges[c] = EdgeOf(v) /\ edges[d] = EdgeOf(w)
  BY <1>2
<1> DEFINE h == [n \in 1 .. 4 |-> IF n = 1 THEN a ELSE IF n = 2 THEN b ELSE IF n = 3 THEN c ELSE d]
<1>4. h \in [1 .. 4 -> 1 .. Len(edges)] /\ h[1] = a /\ h[2] = b /\ h[3] = c /\ h[4] = d
  OBVIOUS
<1> HIDE DEF h
<1>5. /\ edges[a].sender = ChainAccount(case, 1) /\ edges[a].receiver = ChainAccount(case, 2)
      /\ edges[b].sender = ChainAccount(case, 2) /\ edges[b].receiver = ChainAccount(case, 3)
      /\ edges[c].sender = ChainAccount(case, 3) /\ edges[c].receiver = ChainAccount(case, 4)
      /\ edges[d].sender = ChainAccount(case, 4) /\ edges[d].receiver = ChainAccount(case, 5)
      /\ edges[a].amount >= 15000
  <2>1. /\ 1 + 1 = 2 /\ 2 + 1 = 3 /\ 3 + 1 = 4 /\ 4 + 1 = 5
    OBVIOUS
  <2>2. \A x : /\ EdgeOf(x).sender = x.sender /\ EdgeOf(x).receiver = x.receiver
               /\ EdgeOf(x).amount = x.amount
    BY DEF EdgeOf
  <2> QED BY SMTT(30), <1>1, <1>3, <2>1, <2>2 DEF Along
<1>6. \A n \in 1 .. 4 : /\ edges[h[n]].sender = ChainAccount(case, n)
                        /\ edges[h[n]].receiver = ChainAccount(case, n + 1)
  <2> SUFFICES ASSUME NEW n \in 1 .. 4
               PROVE  /\ edges[h[n]].sender = ChainAccount(case, n)
                      /\ edges[h[n]].receiver = ChainAccount(case, n + 1)
    OBVIOUS
  <2>1. n = 1 \/ n = 2 \/ n = 3 \/ n = 4
    OBVIOUS
  <2> QED BY <1>4, <1>5, <2>1
<1>7. \A n \in 1 .. 3 : Chains(edges)!Follows(h[n], h[n + 1])
  <2>1. Chains(edges)!Follows(a, b)
    BY <1>1, <1>3, HopFollows DEF Along
  <2>2. Chains(edges)!Follows(b, c)
    BY <1>1, <1>3, HopFollows DEF Along
  <2>3. Chains(edges)!Follows(c, d)
    BY <1>1, <1>3, HopFollows DEF Along
  <2> SUFFICES ASSUME NEW n \in 1 .. 3 PROVE Chains(edges)!Follows(h[n], h[n + 1])
    OBVIOUS
  <2>4. n = 1 \/ n = 2 \/ n = 3
    OBVIOUS
  <2> QED BY <1>4, <2>1, <2>2, <2>3, <2>4
<1>8. edges[h[1]].amount >= 15000
  BY <1>4, <1>5
<1>9. /\ h \in Chains(edges)!Matches
      /\ Chains(edges)!IsSimple(h)
      /\ Chains(edges)!NodeSet(h) = OfChain(case)
  <2>1. PathOf(edges, h, case)
    BY <1>4, <1>6, <1>7, <1>8 DEF PathOf
  <2> QED BY <2>1, ChainMatches
<1>10. h \in rows
  <2>1. Len(h) = Hops
    BY <1>4 DEF Hops
  <2>2. ~(Cardinality({p \in Chains(edges)!Matches : Len(p) >= Len(h)}) > QueryLimit)
    BY <2>1 DEF Crowded, edges
  <2>3. rows \in Chains(edges)!Rows(Chains(edges)!Matches)
    BY DEF edges
  <2> QED BY <1>2, <1>9, <2>2, <2>3, LongestAreReturned
<1> QED BY <1>9, <1>10 DEF ByLayering, edges

Victims(case) == {VictimOf(case, n) : n \in 1 .. 6}

\* The accounts of a mule network.
Network(case) == {MuleOf(case), DestinationOf(case)} \cup Victims(case)

LEMMA NetworkCounts ==
    ASSUME NEW case
    PROVE  /\ Cardinality(Victims(case)) = 6
           /\ IsFiniteSet(Network(case)) /\ Cardinality(Network(case)) <= 8
<1> DEFINE f == [n \in 1 .. 6 |-> VictimOf(case, n)]
<1>1. f \in Surjection(1 .. 6, Victims(case))
  BY DEF Victims, Surjection
<1>2. f \in Injection(1 .. 6, Victims(case))
  <2>1. \A m, n \in 1 .. 6 : f[m] = f[n] => m = n
    BY DEF VictimOf, Name
  <2> HIDE DEF f
  <2> QED BY <1>1, <2>1 DEF Surjection, Injection, IsInjective
<1>3. IsFiniteSet(1 .. 6) /\ Cardinality(1 .. 6) = 6
  <2>1. 1 \in Int /\ 6 \in Int /\ ~(1 > 6) /\ 6 - 1 + 1 = 6
    OBVIOUS
  <2> QED BY <2>1, FS_Interval
<1> HIDE DEF f
<1>4. IsFiniteSet(Victims(case)) /\ Cardinality(Victims(case)) = 6
  BY <1>1, <1>2, <1>3, FS_Surjection
<1>5. /\ IsFiniteSet(Victims(case) \cup {MuleOf(case)})
      /\ Cardinality(Victims(case) \cup {MuleOf(case)}) \in 6 .. 7
  BY <1>4, FS_AddElement
<1>6. /\ IsFiniteSet(Victims(case) \cup {MuleOf(case)} \cup {DestinationOf(case)})
      /\ Cardinality(Victims(case) \cup {MuleOf(case)} \cup {DestinationOf(case)}) <= 8
  BY <1>5, FS_AddElement
<1>7. Network(case) = Victims(case) \cup {MuleOf(case)} \cup {DestinationOf(case)}
  BY DEF Network
<1> QED BY <1>4, <1>6, <1>7

\* Money of a mule network moves within the network.
LEMMA NetworkClosed ==
    ASSUME NEW case, NEW t, Handed(t), Ends(t) \cap Network(case) # {}
    PROVE  Ends(t) \subseteq Network(case)
<1>1. \A a \in Network(case) : a.pattern = "mule_network" /\ a.case = case
  BY DEF Network, Victims, MuleOf, DestinationOf, VictimOf, Name
<1>2. t.sender.pattern = t.receiver.pattern
  BY HandedWithin
<1>3. t.sender.pattern = "mule_network" /\ (t.sender.case = case \/ t.receiver.case = case)
  BY <1>1, <1>2 DEF Ends
<1>4. AmongMules(t)
  <2>1. ~AmongBackground(t)
    BY <1>3 DEF AmongBackground
  <2>2. ~AlongChain(t)
    <3> SUFFICES ASSUME AlongChain(t) PROVE FALSE
      OBVIOUS
    <3>1. \A q, n : ChainAccount(q, n).pattern = "layering"
      BY DEF ChainAccount, Name
    <3> QED BY <1>3, <3>1 DEF AlongChain
  <2> QED BY <2>1, <2>2 DEF Handed
<1>5. PICK q \in Cases :
         \/ t.receiver = MuleOf(q) /\ \E n \in 1 .. MuleVictims : t.sender = VictimOf(q, n)
         \/ t.sender = MuleOf(q) /\ t.receiver = DestinationOf(q)
  BY <1>4 DEF AmongMules
<1>6. q = case
  <2>1. /\ MuleOf(q).case = q /\ DestinationOf(q).case = q
        /\ \A n : VictimOf(q, n).case = q
    BY DEF MuleOf, DestinationOf, VictimOf, Name
  <2> QED BY <1>3, <1>5, <2>1
<1> QED BY <1>5, <1>6, SixVictims DEF Ends, Network, Victims

\* The transfers of a mule network that the detector looks for are there.
Networked(case, ts) ==
    /\ \A n \in 1 .. 6 : \E t \in ts : t.sender = VictimOf(case, n) /\ t.receiver = MuleOf(case)
    /\ \E t \in ts : t.sender = MuleOf(case) /\ t.receiver = DestinationOf(case)

\* The edges that the graph algorithms are given.
PairsOf(ts) ==
    [k \in 1 .. Len(InOrder(ts)) |->
       [sender |-> InOrder(ts)[k].sender, receiver |-> InOrder(ts)[k].receiver]]

LEMMA PairsAre ==
    ASSUME NEW ts, AllMade(ts)
    PROVE  \A t \in ts : \E k \in 1 .. Len(PairsOf(ts)) :
              PairsOf(ts)[k] = [sender |-> t.sender, receiver |-> t.receiver]
<1> DEFINE rows == InOrder(ts)
           pairs == PairsOf(ts)
           row(t) == [sender |-> t.sender, receiver |-> t.receiver]
<1>1. pairs = [n \in 1 .. Len(rows) |-> row(rows[n])]
  BY DEF PairsOf
<1>2. Len(rows) \in Nat /\ \A t \in ts : \E k \in 1 .. Len(rows) : rows[k] = t
  BY RowsInOrder, RowsSorted
<1> HIDE DEF rows, row, pairs
<1>3. Len(pairs) = Len(rows)
  BY <1>1, <1>2
<1>4. \A k \in 1 .. Len(pairs) : pairs[k] = row(rows[k])
  BY <1>1, <1>3
<1>5. \A t \in ts : \E k \in 1 .. Len(pairs) : pairs[k] = row(t)
  BY <1>2, <1>3, <1>4
<1> QED BY <1>5 DEF row, pairs

\* The mule of a network whose payments are there, and who it pays, are
\* flagged as a community, whatever other transfers the generators made.
THEOREM NetworkFound ==
    ASSUME NEW ts, AllMade(ts), \A t \in ts : Handed(t), NEW case, Networked(case, ts),
           NEW a \in {MuleOf(case), DestinationOf(case)}
    PROVE  a \in ByCommunity(ts)
<1> DEFINE pairs == PairsOf(ts)
           members == Cluster(a, ts)
<1>1. \A t \in ts : \E k \in 1 .. Len(pairs) :
         pairs[k] = [sender |-> t.sender, receiver |-> t.receiver]
  BY PairsAre
<1>2. IsFiniteSet(ts)
  BY DEF AllMade
<1>3. PICK t \in ts : t.sender = MuleOf(case) /\ t.receiver = DestinationOf(case)
  BY DEF Networked
<1>4. a \in Ends(t) /\ MuleOf(case) \in Ends(t)
  BY <1>3 DEF Ends
<1>5. /\ Ends(t) \subseteq members
      /\ \A u \in ts : Ends(t) \cap Ends(u) # {} => Ends(u) \subseteq members
  BY <1>2, <1>4, ClusterReaches
<1>6. members \subseteq Network(case)
  <2>1. a \in Network(case)
    BY DEF Network
  <2>2. \A u \in ts : Ends(u) \cap Network(case) # {} => Ends(u) \subseteq Network(case)
    BY NetworkClosed
  <2> QED BY <1>2, <2>1, <2>2, ClusterWithin
<1> HIDE DEF members, pairs
<1>7. ASSUME NEW n \in 1 .. 6
      PROVE  /\ VictimOf(case, n) \in members
             /\ VictimOf(case, n) \in Mules(pairs)!InComponentSenders(members, MuleOf(case))
  <2>1. PICK u \in ts : u.sender = VictimOf(case, n) /\ u.receiver = MuleOf(case)
    BY DEF Networked
  <2>2. VictimOf(case, n) \in Ends(u) /\ MuleOf(case) \in Ends(u)
    BY <2>1 DEF Ends
  <2>3. VictimOf(case, n) \in members
    BY <1>4, <1>5, <2>2
  <2>4. PICK k \in 1 .. Len(pairs) : pairs[k] = [sender |-> VictimOf(case, n), receiver |-> MuleOf(case)]
    BY <1>1, <2>1
  <2>5. VictimOf(case, n) # MuleOf(case)
    BY DEF VictimOf, MuleOf, Name
  <2> QED BY <2>3, <2>4, <2>5 DEF Mules!InComponentSenders
<1> DEFINE senders == Mules(pairs)!InComponentSenders(members, MuleOf(case))
<1>8. senders \subseteq members
  BY DEF Mules!InComponentSenders
<1> HIDE DEF senders
<1>9. Victims(case) \subseteq senders /\ Victims(case) \subseteq members
  BY <1>7 DEF Victims, senders
<1>10. /\ IsFiniteSet(members) /\ Cardinality(members) \in 3 .. 20
       /\ Cardinality(senders) >= 4
  <2>1. IsFiniteSet(members) /\ Cardinality(members) <= Cardinality(Network(case))
    BY <1>6, NetworkCounts, FS_Subset
  <2>2. IsFiniteSet(senders)
    BY <1>8, <2>1, FS_Subset
  <2>3. /\ Cardinality(Victims(case)) <= Cardinality(members)
        /\ Cardinality(Victims(case)) <= Cardinality(senders)
    BY <1>9, <2>1, <2>2, FS_Subset
  <2>4. /\ Cardinality(members) \in Nat /\ Cardinality(senders) \in Nat
        /\ Cardinality(Network(case)) \in Nat
    BY <2>1, <2>2, NetworkCounts, FS_CardinalityType
  <2>5. Cardinality(Victims(case)) = 6 /\ Cardinality(Network(case)) <= 8
    BY NetworkCounts
  <2> QED BY <2>1, <2>3, <2>4, <2>5
<1>11. Mules(pairs)!Fits(members)
  <2>1. Mules(pairs)!Cardinality(members) \in 3 .. 20
    BY <1>10, MulesCount
  <2> QED BY <2>1 DEF Mules!Fits
<1>12. MuleOf(case) \in Mules(pairs)!Hubs(members)
  <2>1. Mules(pairs)!Cardinality(senders) >= 4
    BY <1>10, MulesCount
  <2>2. MuleOf(case) \in members
    BY <1>4, <1>5
  <2> QED BY <2>1, <2>2 DEF Mules!Hubs, senders
<1>13. a \in UNION {Ends(u) : u \in ts}
  BY <1>4
<1> QED BY <1>11, <1>12, <1>13 DEF ByCommunity, members, pairs, PairsOf

------------------------------------------------------------------------------
(* Every row is made, and every check is clear *)

LEMMA NamesOfPatterns ==
    PatternNames = {"background", "clean", "structuring", "mule_network", "layering"}
<1>1. Len(Patterns) = 5 /\ 1 .. 5 = {1, 2, 3, 4, 5}
  BY DEF Patterns
<1>2. /\ Patterns[1] = "background" /\ Patterns[2] = "clean" /\ Patterns[3] = "structuring"
      /\ Patterns[4] = "mule_network" /\ Patterns[5] = "layering"
  BY DEF Patterns
<1> QED BY <1>1, <1>2 DEF PatternNames

LEMMA GeneratedMade ==
    ASSUME NEW case \in Cases, NEW pattern \in PatternNames, NEW made \in Generated(case, pattern)
    PROVE  AllMade(made.transactions)
<1>1. CASE pattern = "background"
  BY <1>1, BackgroundMade DEF Generated
<1>2. CASE pattern = "clean"
  BY <1>2, CleanMade DEF Generated
<1>3. CASE pattern = "structuring"
  BY <1>3, StructurerMade DEF Generated
<1>4. CASE pattern = "mule_network"
  BY <1>4, MuleNetworkMade DEF Generated
<1>5. CASE pattern = "layering"
  BY <1>5, LayeringMade DEF Generated
<1> QED BY <1>1, <1>2, <1>3, <1>4, <1>5, NamesOfPatterns

------------------------------------------------------------------------------

\* What is generated or committed is what the generators make.
SeedsMade ==
    /\ \A s \in Seeds : seed[s].todo \subseteq Jobs /\ AllMade(seed[s].transactions)
    /\ AllMade(db.transactions)

\* What a check has found so far takes no ordinary account for another.
Clear(flagged) ==
    /\ \A a \in flagged.structuring : a.pattern \in {"structuring", "background"}
    /\ \A a \in flagged.fanin : a.pattern \in {"mule_network", "background"}
    /\ \A a \in flagged.community : a.pattern \in {"mule_network", "background"}
    /\ \A a \in flagged.layering : a.pattern = "layering"

Asked(r) ==
    /\ r = [pc |-> r.pc, kind |-> r.kind, accounts |-> r.accounts, loaded |-> r.loaded,
            truth |-> r.truth, flagged |-> r.flagged, graph |-> r.graph,
            crowded |-> r.crowded]
    /\ r.flagged = [structuring |-> r.flagged.structuring, fanin |-> r.flagged.fanin,
                    layering |-> r.flagged.layering, community |-> r.flagged.community]

ChecksClear ==
    /\ check = [c \in Checks |-> check[c]]
    /\ \A c \in Checks : Asked(check[c]) /\ Clear(check[c].flagged)

LEMMA ClearIsOrdinary == ChecksClear => OrdinaryStaysClear
BY DEF ChecksClear, Clear, OrdinaryStaysClear

LEMMA InitMade == Init => SeedsMade /\ ChecksClear
<1> SUFFICES ASSUME Init PROVE SeedsMade /\ ChecksClear
  OBVIOUS
<1>1. AllMade({})
  BY FS_EmptySet DEF AllMade
<1>2. PICK plan \in Plans :
         seed = [s \in Seeds |-> [pc |-> IF plan[s] = {} THEN "unused" ELSE "generate",
                                  todo |-> plan[s], accounts |-> {}, transactions |-> {}]]
  BY DEF Init
<1>3. \A s \in Seeds : seed[s].todo = plan[s] /\ seed[s].transactions = {}
  BY <1>2
<1>4. \A s \in Seeds : plan[s] \subseteq Jobs
  <2>1. Plans \subseteq [Seeds -> SUBSET Jobs]
    BY PipelineAssumption
  <2> HIDE DEF Jobs
  <2> QED BY <2>1
<1>5. db.transactions = {}
  BY DEF Init, IngestionInit, NoRows
<1>6. SeedsMade
  BY <1>1, <1>3, <1>4, <1>5 DEF SeedsMade
<1>7. ChecksClear
  BY DEF Init, ChecksClear, Asked, Clear, NoCheck, NoFlags
<1> QED BY <1>6, <1>7

\* What the graph has are rows that moved between accounts.
LEMMA GraphMade ==
    ASSUME IngestionInv, SeedsMade
    PROVE  AllMade(graph.transfers) /\ \A t \in graph.transfers : Handed(t)
<1>1. graph.transfers \subseteq InternalRows(db)
  BY DEF IngestionInv, Typed, Parts
<1>2. graph.transfers \subseteq db.transactions /\ \A t \in graph.transfers : Internal(t)
  BY <1>1 DEF InternalRows
<1>3. AllMade(db.transactions)
  BY DEF SeedsMade
<1>4. IsFiniteSet(graph.transfers)
  BY <1>2, <1>3, FS_Subset DEF AllMade
<1>5. \A t \in graph.transfers : Made(t)
  BY <1>2, <1>3 DEF AllMade
<1>6. \A t \in graph.transfers : Handed(t)
  <2> SUFFICES ASSUME NEW t \in graph.transfers PROVE Handed(t)
    OBVIOUS
  <2>1. Made(t) /\ t.type \in {"transfer", "wire"}
    BY <1>2, <1>5 DEF Internal
  <2> QED BY <2>1 DEF Made
<1> QED BY <1>4, <1>5, <1>6 DEF AllMade

\* What a seeding has generated grows by what a generator makes.
GrowsBy(s, made) ==
    /\ UNCHANGED db
    /\ \A q \in Seeds \ {s} : seed'[q] = seed[q]
    /\ seed[s].pc = "generate"
    /\ seed'[s].todo \subseteq seed[s].todo
    /\ seed'[s].accounts = seed[s].accounts \cup made.accounts
    /\ seed'[s].transactions = seed[s].transactions \cup made.transactions

LEMMA GenerateAdds ==
    ASSUME SeedsMade, Written, NEW s \in Seeds, Generate(s)
    PROVE  \E case \in Cases, pattern \in PatternNames :
              case[1] = s /\ \E made \in Generated(case, pattern) : GrowsBy(s, made)
<1>1. PICK job \in seed[s].todo :
         \E made \in Generated(<<s, job.number>>, job.pattern) :
            seed' = [seed EXCEPT ![s].todo = @ \ {job},
                                 ![s].accounts = @ \cup made.accounts,
                                 ![s].transactions = @ \cup made.transactions]
  BY DEF Generate
<1>11. PICK made \in Generated(<<s, job.number>>, job.pattern) :
         seed' = [seed EXCEPT ![s].todo = @ \ {job},
                              ![s].accounts = @ \cup made.accounts,
                              ![s].transactions = @ \cup made.transactions]
  BY <1>1
<1>2. seed[s].pc = "generate" /\ UNCHANGED db
  BY DEF Generate
<1>3. job.pattern \in PatternNames /\ job.number \in 1 .. MaxCases
  <2>1. job \in Jobs
    BY DEF SeedsMade
  <2> QED BY <2>1 DEF Jobs
<1>4. <<s, job.number>> \in Cases /\ <<s, job.number>>[1] = s
  BY <1>3 DEF Cases
<1> DEFINE todo == seed[s].todo \ {job}
           accounts == seed[s].accounts \cup made.accounts
           transactions == seed[s].transactions \cup made.transactions
<1>5. seed' = [seed EXCEPT ![s].todo = todo, ![s].accounts = accounts,
                           ![s].transactions = transactions]
  BY <1>11
<1>6. todo \subseteq seed[s].todo
  OBVIOUS
<1>7. /\ DOMAIN seed = Seeds
      /\ seed[s] = [pc |-> seed[s].pc, todo |-> seed[s].todo,
                    accounts |-> seed[s].accounts, transactions |-> seed[s].transactions]
  BY DEF Written
<1> HIDE DEF todo, accounts, transactions
<1>8. seed'[s].todo = todo /\ seed'[s].accounts = accounts /\ seed'[s].transactions = transactions
  BY <1>5, <1>7
<1>9. \A q \in Seeds \ {s} : seed'[q] = seed[q]
  BY <1>5, <1>7
<1>10. GrowsBy(s, made)
  BY <1>2, <1>6, <1>8, <1>9 DEF GrowsBy, accounts, transactions
<1> QED BY <1>3, <1>4, <1>10

LEMMA OthersAddNothing ==
    ASSUME Written, NEW s \in Seeds, SeedStep(s), ~Generate(s)
    PROVE  \A q \in Seeds : /\ seed'[q].todo = seed[q].todo
                            /\ seed'[q].accounts = seed[q].accounts
                            /\ seed'[q].transactions = seed[q].transactions
<1>1. PICK pc : seed' = [seed EXCEPT ![s].pc = pc]
  BY DEF SeedStep, CommitSeed, Truncate, WriteTruth, SeedDies
<1>2. seed[s] = [pc |-> seed[s].pc, todo |-> seed[s].todo,
                 accounts |-> seed[s].accounts, transactions |-> seed[s].transactions]
  BY DEF Written
<1>3. DOMAIN seed = Seeds
  BY DEF Written
<1> QED BY <1>1, <1>2, <1>3

LEMMA SeedsStayMade ==
    ASSUME SeedsMade, Written, NEW s \in Seeds, SeedStep(s)
    PROVE  SeedsMade'
<1>1. CASE Generate(s)
  <2>1. PICK case \in Cases, pattern \in PatternNames :
           case[1] = s /\ \E made \in Generated(case, pattern) : GrowsBy(s, made)
    BY <1>1, GenerateAdds
  <2>2. PICK made \in Generated(case, pattern) : GrowsBy(s, made)
    BY <2>1
  <2>3. AllMade(seed[s].transactions \cup made.transactions)
    BY GeneratedMade, BothMade DEF SeedsMade
  <2>4. ASSUME NEW q \in Seeds
        PROVE  seed'[q].todo \subseteq Jobs /\ AllMade(seed'[q].transactions)
    BY <2>2, <2>3 DEF SeedsMade, GrowsBy
  <2>5. AllMade(db'.transactions)
    BY <2>2 DEF SeedsMade, GrowsBy
  <2> QED BY <2>4, <2>5 DEF SeedsMade
<1>2. CASE ~Generate(s)
  <2>1. \A q \in Seeds :
           seed'[q].todo = seed[q].todo /\ seed'[q].transactions = seed[q].transactions
    BY <1>2, OthersAddNothing
  <2>2. AllMade(db'.transactions)
    <3>1. CASE UNCHANGED db
      BY <3>1 DEF SeedsMade
    <3>2. CASE Store(seed[s].accounts, seed[s].accounts, seed[s].transactions)
      <4>1. db'.transactions = db.transactions \cup seed[s].transactions
        BY <3>2 DEF Store
      <4> QED BY <4>1, BothMade DEF SeedsMade
    <3> QED BY <3>1, <3>2, SeedsOnlyStore
  <2> QED BY <2>1, <2>2 DEF SeedsMade
<1> QED BY <1>1, <1>2

LEMMA SeedsMadeKept == SeedsMade /\ Written /\ [Next]_vars => SeedsMade'
<1> SUFFICES ASSUME SeedsMade, Written, [Next]_vars PROVE SeedsMade'
  OBVIOUS
<1>1. CASE \E s \in Seeds : SeedStep(s) /\ UNCHANGED <<ingestionVars, check>>
  BY <1>1, SeedsStayMade
<1>2. CASE UNCHANGED <<db, seed>>
  <2>1. seed' = seed /\ db' = db
    BY <1>2
  <2> QED BY <2>1 DEF SeedsMade
<1>3. CASE \E i \in Ingests : IngestStep(i) /\ UNCHANGED <<seedVars, check>>
  <2>1. UNCHANGED <<db, seed>>
    BY <1>3 DEF IngestStep, ReadEntities, ReadAccounts, ReadTransactions, MergeEntities,
                MergeAccounts, MergeTransactions, Finish, Abort, seedVars
  <2> QED BY SMTT(30), <1>2, <2>1
<1>4. CASE \E c \in Checks : CheckStep(c) /\ UNCHANGED <<db, ingestionVars, seedVars>>
  BY <1>2, <1>4 DEF seedVars
<1>5. CASE UNCHANGED vars
  BY <1>2, <1>5 DEF vars, seedVars
<1> QED BY <1>1, <1>3, <1>4, <1>5 DEF Next

\* What a step of a check may do.
LEMMA CheckMoves ==
    ASSUME ChecksClear, NEW c \in Checks,
           DOMAIN check' = Checks, check' = [d \in Checks |-> check'[d]],
           \A d \in Checks \ {c} : check'[d] = check[d],
           Asked(check'[c]), Clear(check'[c].flagged)
    PROVE  ChecksClear'
<1>1. ASSUME NEW d \in Checks
      PROVE  Asked(check'[d]) /\ Clear(check'[d].flagged)
  BY DEF ChecksClear
<1> QED BY <1>1 DEF ChecksClear, Asked, Clear

\* A step that finds something.
LEMMA FindsKeep ==
    ASSUME ChecksClear, SeedsMade, IngestionInv, NEW c \in Checks,
           Structuring(c) \/ FanIn(c) \/ Layering(c) \/ Community(c)
    PROVE  ChecksClear'
<1> DEFINE r == check[c]
<1>1. Asked(r) /\ Clear(r.flagged) /\ DOMAIN check = Checks
  BY DEF ChecksClear
<1>2. AllMade(db.transactions)
  BY DEF SeedsMade
<1>3. AllMade(graph.transfers) /\ \A t \in graph.transfers : Handed(t)
  BY GraphMade
<1>4. CASE Structuring(c)
  <2> DEFINE found == ByStructuring(db.transactions)
  <2>1. \A a \in found : a.pattern \in {"structuring", "background"}
    BY <1>2, StructuringIsClear
  <2>2. check' = [check EXCEPT ![c].pc = "fanin", ![c].flagged.structuring = found]
    BY <1>4 DEF Structuring
  <2> HIDE DEF found
  <2>3. check'[c].flagged = [r.flagged EXCEPT !.structuring = found]
    BY <1>1, <2>2 DEF Asked
  <2>4. Asked(check'[c])
    BY <1>1, <2>2 DEF Asked
  <2>5. Clear(check'[c].flagged)
    BY <1>1, <2>1, <2>3 DEF Asked, Clear
  <2> QED BY <1>1, <2>2, <2>4, <2>5, CheckMoves
<1>5. CASE FanIn(c)
  <2> DEFINE found == ByFanIn(db.transactions)
  <2>1. \A a \in found : a.pattern \in {"mule_network", "background"}
    BY <1>2, FanInIsClear
  <2>2. check' = [check EXCEPT ![c].pc = "ml", ![c].flagged.fanin = found]
    BY <1>5 DEF FanIn
  <2> HIDE DEF found
  <2>3. check'[c].flagged = [r.flagged EXCEPT !.fanin = found]
    BY <1>1, <2>2 DEF Asked
  <2>4. Asked(check'[c])
    BY <1>1, <2>2 DEF Asked
  <2>5. Clear(check'[c].flagged)
    BY <1>1, <2>1, <2>3 DEF Asked, Clear
  <2> QED BY <1>1, <2>2, <2>4, <2>5, CheckMoves
<1>6. CASE Layering(c)
  <2> DEFINE matches == Chains(Edges(graph.transfers))!Matches
             crowded == Crowded(graph.transfers)
  <2>1. PICK rows \in Chains(Edges(graph.transfers))!Rows(matches) :
           check' = [check EXCEPT ![c].pc = "community",
                                  ![c].flagged.layering = ByLayering(graph.transfers, rows),
                                  ![c].crowded = crowded]
    BY <1>6 DEF Layering
  <2> DEFINE found == ByLayering(graph.transfers, rows)
  <2>2. \A a \in found : a.pattern = "layering"
    BY <1>3, LayeringIsClear, RowsAreMatches
  <2>3. check' = [check EXCEPT ![c].pc = "community", ![c].flagged.layering = found,
                               ![c].crowded = crowded]
    BY <2>1
  <2> HIDE DEF found, crowded
  <2>4. check'[c].flagged = [r.flagged EXCEPT !.layering = found]
    BY <1>1, <2>3 DEF Asked
  <2>5. Asked(check'[c])
    BY <1>1, <2>3 DEF Asked
  <2>6. Clear(check'[c].flagged)
    BY <1>1, <2>2, <2>4 DEF Asked, Clear
  <2> QED BY <1>1, <2>3, <2>5, <2>6, CheckMoves
<1>7. CASE Community(c)
  <2> DEFINE found == ByCommunity(graph.transfers)
  <2>1. \A a \in found : a.pattern \in {"mule_network", "background"}
    BY <1>3, CommunityIsClear
  <2>2. check' = [check EXCEPT ![c].pc = "done", ![c].flagged.community = found]
    BY <1>7 DEF Community
  <2> HIDE DEF found
  <2>3. check'[c].flagged = [r.flagged EXCEPT !.community = found]
    BY <1>1, <2>2 DEF Asked
  <2>4. Asked(check'[c])
    BY <1>1, <2>2 DEF Asked
  <2>5. Clear(check'[c].flagged)
    BY <1>1, <2>1, <2>3 DEF Asked, Clear
  <2> QED BY <1>1, <2>2, <2>4, <2>5, CheckMoves
<1> QED BY <1>4, <1>5, <1>6, <1>7

LEMMA NothingFound ==
    ASSUME NEW pc, NEW kind
    PROVE  Asked(NoCheck(pc, kind)) /\ Clear(NoCheck(pc, kind).flagged)
BY DEF Asked, Clear, NoCheck, NoFlags

\* A step that finds nothing, or gives up what was found.
LEMMA OthersKeep ==
    ASSUME ChecksClear, NEW c \in Checks,
           \/ \E kind \in Kinds : Ask(c, kind)
           \/ Classify(c) \/ Unconfigured(c) \/ DriverFails(c) \/ DatabaseFails(c)
           \/ Unreadable(c)
    PROVE  ChecksClear'
<1> DEFINE r == check[c]
<1>1. Asked(r) /\ Clear(r.flagged) /\ DOMAIN check = Checks
  BY DEF ChecksClear
<1>2. Asked(WithoutGraph(c)) /\ Clear(WithoutGraph(c).flagged)
  <2> DEFINE q == [pc |-> "done", kind |-> r.kind, accounts |-> r.accounts, loaded |-> r.loaded,
                   truth |-> r.truth, flagged |-> [r.flagged EXCEPT !.layering = {}],
                   graph |-> FALSE, crowded |-> r.crowded]
  <2>1. WithoutGraph(c) = [r EXCEPT !.pc = "done", !.graph = FALSE, !.flagged.layering = {}]
    BY DEF WithoutGraph
  <2> HIDE DEF r
  <2>2. WithoutGraph(c) = q
    BY <1>1, <2>1 DEF Asked
  <2>3. Asked(q) /\ Clear(q.flagged)
    BY <1>1 DEF Asked, Clear
  <2> QED BY <2>2, <2>3
<1>3. ASSUME NEW q, Asked(q), Clear(q.flagged), check' = [check EXCEPT ![c] = q]
      PROVE  ChecksClear'
  <2> HIDE DEF r
  <2>1. check'[c] = q /\ DOMAIN check' = Checks /\ \A d \in Checks \ {c} : check'[d] = check[d]
    BY <1>1, <1>3
  <2>2. check' = [d \in Checks |-> check'[d]]
    BY <1>1, <1>3
  <2> QED BY <1>3, <2>1, <2>2, CheckMoves
<1>4. CASE \E kind \in Kinds : Ask(c, kind)
  <2>1. PICK kind \in Kinds : Ask(c, kind)
    BY <1>4
  <2> DEFINE pc == IF kind = "graph_tool" THEN "layering" ELSE "structuring"
             loaded == Loaded
             q == [pc |-> pc, kind |-> kind, accounts |-> db.accounts, loaded |-> loaded,
                   truth |-> file, flagged |-> r.flagged, graph |-> r.graph,
                   crowded |-> r.crowded]
  <2>2. check' = [check EXCEPT ![c].pc = pc, ![c].kind = kind, ![c].accounts = db.accounts,
                               ![c].loaded = loaded, ![c].truth = file]
    BY <2>1 DEF Ask
  <2> HIDE DEF pc, loaded
  <2>3. check'[c] = q
    BY <1>1, <2>2 DEF Asked
  <2>4. Asked(q) /\ Clear(q.flagged)
    BY <1>1 DEF Asked
  <2> HIDE DEF q
  <2> QED BY <1>1, <2>2, <2>3, <2>4, CheckMoves
<1>5. CASE Classify(c)
  <2>1. check' = [check EXCEPT ![c].pc = "layering"]
    BY <1>5 DEF Classify
  <2>2. check'[c].flagged = r.flagged /\ Asked(check'[c])
    BY <1>1, <2>1 DEF Asked
  <2> QED BY <1>1, <2>1, <2>2, CheckMoves
<1>6. CASE Unconfigured(c)
  <2>1. check' = [check EXCEPT ![c] = WithoutGraph(c)]
    BY <1>6 DEF Unconfigured
  <2> QED BY <1>2, <1>3, <2>1
<1>7. CASE DriverFails(c)
  <2>1. PICK q \in {WithoutGraph(c), NoCheck("failed", r.kind)} :
           check' = [check EXCEPT ![c] = q]
    BY <1>7 DEF DriverFails
  <2>2. Asked(q) /\ Clear(q.flagged)
    BY <1>2, NothingFound
  <2> QED BY <1>3, <2>1, <2>2
<1>8. CASE DatabaseFails(c)
  <2>1. check' = [check EXCEPT ![c] = NoCheck("failed", r.kind)]
    BY <1>8 DEF DatabaseFails
  <2> QED BY <1>3, <2>1, NothingFound
<1>9. CASE Unreadable(c)
  <2>1. check' = [check EXCEPT ![c] = NoCheck("failed", "verify")]
    BY <1>9 DEF Unreadable
  <2> QED BY <1>3, <2>1, NothingFound
<1> QED BY <1>4, <1>5, <1>6, <1>7, <1>8, <1>9

LEMMA ChecksKept == ChecksClear /\ SeedsMade /\ IngestionInv /\ [Next]_vars => ChecksClear'
<1> SUFFICES ASSUME ChecksClear, SeedsMade, IngestionInv, [Next]_vars PROVE ChecksClear'
  OBVIOUS
<1>1. CASE \E c \in Checks : CheckStep(c) /\ UNCHANGED <<db, ingestionVars, seedVars>>
  BY <1>1, FindsKeep, OthersKeep DEF CheckStep
<1>2. CASE UNCHANGED check
  BY <1>2 DEF ChecksClear
<1> QED BY <1>1, <1>2 DEF Next, vars

\* No detector takes ordinary activity, or another pattern, for its own,
\* whatever the generators draw, however many seedings, ingestions and checks
\* run at once and however much of the data is in the graph.
THEOREM OrdinaryAlwaysClear == Spec => []OrdinaryStaysClear
<1> DEFINE Inv == IngestionInv /\ Written /\ SeedsMade /\ ChecksClear
<1>1. Init => Inv
  <2>1. Init => IngestionInv
    BY InitKeeps DEF Init
  <2>2. Init => Written
    BY InitWritten
  <2> QED BY <2>1, <2>2, InitMade
<1>2. Inv /\ [Next]_vars => Inv'
  BY PipelineKeepsIngestion, WrittenKept, SeedsMadeKept, ChecksKept
<1> QED BY <1>1, <1>2, ClearIsOrdinary, PTL DEF Spec

------------------------------------------------------------------------------
(* What gives a seeded account away *)

StructurerOf(case) == Name(case, "structuring", "structurer", 1)

\* What a case makes accounts for.
Cast(a, case) ==
    /\ a.case = case
    /\ \/ a.pattern = "background" /\ a.role = "background"
       \/ a.pattern = "clean" /\ a.role = "clean_control"
       \/ a = StructurerOf(case)
       \/ a \in OfChain(case)
       \/ a \in Network(case)

Seeded(a, s) == a.case \in Cases /\ Maker(a) = s /\ Cast(a, a.case)

\* The transfers that give a seeded account away are among some.
InGraph(a, ts) ==
    /\ a \in OfChain(a.case) => Chained(a.case, ts)
    /\ a \in Network(a.case) => Networked(a.case, ts)

Evident(a, rows) ==
    /\ a = StructurerOf(a.case) => Structured(a, rows.transactions)
    /\ InGraph(a, InternalRows(rows))

SeedsEvident ==
    /\ \A s \in Seeds : \A a \in seed[s].accounts : Seeded(a, s) /\ Evident(a, seed[s])
    /\ \A a \in db.accounts :
          /\ Maker(a) \in Seeds
          /\ a \in seed[Maker(a)].accounts
          /\ Evident(a, db)
    /\ \A i \in Ingests : \A a \in known[i].accounts : Evident(a, known[i])

\* What a check was asked, of what is committed and in the graph.
Heard(r, accounts, transfers, seeds) ==
    /\ r.accounts \subseteq accounts
    /\ r.loaded \subseteq Seeds
    /\ \A a \in r.accounts : Maker(a) \in r.loaded => InGraph(a, transfers)
    /\ r.truth \in Seeds =>
          seeds[r.truth].pc = "done" /\ seeds[r.truth].accounts \subseteq r.accounts

\* What it has caught of that.
Catches(r) ==
    /\ r.kind # "graph_tool" /\ r.pc \in {"fanin", "ml", "layering", "community", "done"} =>
          \A a \in r.accounts : a = StructurerOf(a.case) => a \in r.flagged.structuring
    /\ r.graph /\ ~r.crowded /\ r.pc \in {"community", "done"} =>
          \A a \in r.accounts :
             Maker(a) \in r.loaded /\ a \in OfChain(a.case) => a \in r.flagged.layering
    /\ r.graph /\ r.pc = "done" =>
          \A a \in r.accounts :
             Maker(a) \in r.loaded /\ a \in {MuleOf(a.case), DestinationOf(a.case)} =>
                a \in r.flagged.community

ChecksCatch ==
    \A c \in Checks :
       Heard(check[c], db.accounts, graph.transfers, seed) /\ Catches(check[c])


------------------------------------------------------------------------------

LEMMA SeededApart ==
    ASSUME NEW a, NEW case
    PROVE  /\ a = StructurerOf(case) =>
                 a.pattern = "structuring" /\ a.role = "structurer" /\ a.case = case
           /\ a \in OfChain(case) => a.pattern = "layering" /\ a.role # "structurer" /\ a.case = case
           /\ a \in Network(case) => a.pattern = "mule_network" /\ a.role # "structurer" /\ a.case = case
<1>1. a = StructurerOf(case) => a.pattern = "structuring" /\ a.role = "structurer" /\ a.case = case
  BY DEF StructurerOf, Name
<1>2. ASSUME a \in OfChain(case)
      PROVE  a.pattern = "layering" /\ a.role # "structurer" /\ a.case = case
  <2>1. PICK n \in 1 .. 5 : a = ChainAccount(case, n)
    BY <1>2 DEF OfChain
  <2> QED BY <2>1 DEF ChainAccount, Hops, Name
<1>3. ASSUME a \in Network(case)
      PROVE  a.pattern = "mule_network" /\ a.role # "structurer" /\ a.case = case
  BY <1>3 DEF Network, Victims, MuleOf, DestinationOf, VictimOf, Name
<1> QED BY <1>1, <1>2, <1>3

\* More rows give away no less.
LEMMA EvidentGrows ==
    ASSUME NEW a, NEW rows, NEW more, rows.transactions \subseteq more.transactions,
           Evident(a, rows)
    PROVE  Evident(a, more)
<1>1. InternalRows(rows) \subseteq InternalRows(more)
  BY DEF InternalRows
<1>2. Structured(a, rows.transactions) => Structured(a, more.transactions)
  BY DEF Structured
<1>3. Chained(a.case, InternalRows(rows)) => Chained(a.case, InternalRows(more))
  BY <1>1 DEF Chained
<1>4. Networked(a.case, InternalRows(rows)) => Networked(a.case, InternalRows(more))
  BY <1>1 DEF Networked
<1> QED BY <1>2, <1>3, <1>4 DEF Evident, InGraph

LEMMA InGraphGrows ==
    ASSUME NEW a, NEW ts, NEW us, ts \subseteq us, InGraph(a, ts)
    PROVE  InGraph(a, us)
<1>1. Chained(a.case, ts) => Chained(a.case, us)
  BY DEF Chained
<1>2. Networked(a.case, ts) => Networked(a.case, us)
  BY DEF Networked
<1> QED BY <1>1, <1>2 DEF InGraph

\* Seeded accounts are accounts.
LEMMA SeededAreNamed ==
    ASSUME NEW case \in Cases
    PROVE  /\ StructurerOf(case) # Outside
           /\ Outside \notin OfChain(case)
           /\ Outside \notin Network(case)
<1> DEFINE N == 1 .. BackgroundCount + MuleVictims + 1
<1>1. 1 .. 6 \subseteq N
  BY BackgroundRange, SixVictims
<1> HIDE DEF N
<1>2. Outside \notin [case : Cases, pattern : PatternNames, role : Roles, n : N]
  BY IngestionAssumption, PipelineAssumption DEF Named, PatternNames, N
<1>3. ASSUME NEW pattern \in PatternNames, NEW role \in Roles, NEW n \in 1 .. 6
      PROVE  Name(case, pattern, role, n) # Outside
  BY <1>1, <1>2 DEF Name
<1>4. {"structuring", "mule_network", "layering"} \subseteq PatternNames
  BY NamesOfPatterns
<1>5. {"structurer", "mule", "destination", "victim_source", "origin",
       "intermediary"} \subseteq Roles
  BY DEF Roles
<1>6. 1 \in 1 .. 6
  OBVIOUS
<1>7. StructurerOf(case) # Outside
  BY <1>3, <1>4, <1>5, <1>6 DEF StructurerOf
<1>8. \A n \in 1 .. 5 : ChainAccount(case, n) # Outside
  <2> SUFFICES ASSUME NEW n \in 1 .. 5 PROVE ChainAccount(case, n) # Outside
    OBVIOUS
  <2>1. CASE n = 1
    BY <1>3, <1>4, <1>5, <1>6, <2>1 DEF ChainAccount
  <2>2. CASE n = 5
    <3>1. n # 1 /\ n = Hops + 1
      BY <2>2 DEF Hops
    <3> QED BY <1>3, <1>4, <1>5, <1>6, <3>1 DEF ChainAccount
  <2>3. CASE n \in 2 .. 4
    <3>1. n # 1 /\ n # Hops + 1 /\ n - 1 \in 1 .. 6
      BY <2>3 DEF Hops
    <3> QED BY <1>3, <1>4, <1>5, <3>1 DEF ChainAccount
  <2> QED BY <2>1, <2>2, <2>3
<1>9. Outside \notin Network(case)
  BY <1>3, <1>4, <1>5, <1>6 DEF Network, Victims, MuleOf, DestinationOf, VictimOf
<1> QED BY <1>7, <1>8, <1>9 DEF OfChain

\* What a generator makes gives its accounts away.
Tells(case, made) == \A a \in made.accounts : Cast(a, case) /\ Evident(a, made)

LEMMA OrdinaryTell ==
    ASSUME NEW case, NEW made,
           \A a \in made.accounts :
              /\ a.case = case
              /\ \/ a.pattern = "background" /\ a.role = "background"
                 \/ a.pattern = "clean" /\ a.role = "clean_control"
    PROVE  Tells(case, made)
<1> SUFFICES ASSUME NEW a \in made.accounts PROVE Cast(a, case) /\ Evident(a, made)
  BY DEF Tells
<1>1. a # StructurerOf(case) /\ a \notin OfChain(case) /\ a \notin Network(case)
  BY SeededApart
<1> QED BY <1>1 DEF Cast, Evident, InGraph

LEMMA BackgroundTells ==
    ASSUME NEW case \in Cases, NEW made \in Background(case)
    PROVE  Tells(case, made)
<1> DEFINE account(n) == Name(case, "background", "background", n)
<1>1. PICK draw \in BackgroundDraws : made = BackgroundCase(case, draw)
  BY DEF Background
<1>2. \A a \in made.accounts :
         a.case = case /\ a.pattern = "background" /\ a.role = "background"
  BY <1>1 DEF BackgroundCase, Case, Name
<1> QED BY <1>2, OrdinaryTell

LEMMA CleanTells ==
    ASSUME NEW case \in Cases, NEW made \in CleanControl(case)
    PROVE  Tells(case, made)
<1>1. PICK draw \in PayDraws : made = CleanCase(case, draw)
  BY DEF CleanControl
<1>2. made.accounts = {Name(case, "clean", "clean_control", 1)}
  BY <1>1 DEF CleanCase, Case
<1>3. \A a \in made.accounts : a.case = case /\ a.pattern = "clean" /\ a.role = "clean_control"
  BY <1>2 DEF Name
<1> QED BY <1>3, OrdinaryTell

\* Only a structurer has to be given away by deposits.
LEMMA StructurerAlone ==
    ASSUME NEW case, NEW made, made.accounts = {StructurerOf(case)},
           Structured(StructurerOf(case), made.transactions)
    PROVE  Tells(case, made)
<1>1. /\ StructurerOf(case).case = case
      /\ StructurerOf(case) \notin OfChain(case) /\ StructurerOf(case) \notin Network(case)
  BY SeededApart
<1> QED BY <1>1 DEF Tells, Cast, Evident, InGraph

LEMMA StructurerTells ==
    ASSUME NEW case \in Cases, NEW made \in Structurer(case)
    PROVE  Tells(case, made)
<1>1. PICK draw \in DepositDraws : made = StructuringCase(case, draw)
  BY DEF Structurer
<1> DEFINE account == StructurerOf(case)
           paid(k) == Deposit(k, account, draw[k].amount, Now - draw[k].ago)
<1>2. made.accounts = {account} /\ made.transactions = {paid(k) : k \in 1 .. Len(draw)}
  BY <1>1 DEF StructuringCase, Case, StructurerOf
<1>3. 1 \in 1 .. Len(draw) /\ 2 \in 1 .. Len(draw) /\ 3 \in 1 .. Len(draw)
  <2>1. Len(draw) \in 4 .. 6
    BY SMT, DepositRange
  <2> QED BY <2>1
<1>4. {paid(1), paid(2), paid(3)} \subseteq made.transactions
  <2> HIDE DEF paid
  <2> QED BY <1>2, <1>3
<1>5. \A k \in {1, 2, 3} : Suspect(paid(k), account)
  <2>1. \A k \in {1, 2, 3} : Band(draw[k].amount) = "band"
    BY <1>3, DepositRange
  <2> QED BY <2>1 DEF Suspect, Deposit
<1>6. \A k \in {1, 2, 3} : Now - paid(k).at \in 0 .. 10 * Day /\ paid(k).at \in Int
  <2> SUFFICES ASSUME NEW k \in {1, 2, 3}
               PROVE  Now - paid(k).at \in 0 .. 10 * Day /\ paid(k).at \in Int
    OBVIOUS
  <2>1. draw[k].ago \in 0 .. 10 * Day
    BY <1>3, DepositRange
  <2>2. paid(k).at = Now - draw[k].ago
    BY DEF Deposit
  <2> QED BY <2>1, <2>2 DEF Now, Day
<1>7. Close({paid(1), paid(2), paid(3)})
  <2> HIDE DEF paid
  <2>1. \A x \in {paid(1), paid(2), paid(3)} : Now - x.at \in 0 .. 10 * Day /\ x.at \in Int
    BY <1>6
  <2> QED BY <2>1 DEF Close, Now, Day
<1>8. paid(1) # paid(2) /\ paid(2) # paid(3) /\ paid(1) # paid(3)
  <2>1. paid(1).n = 1 /\ paid(2).n = 2 /\ paid(3).n = 3
    BY DEF Deposit
  <2> HIDE DEF paid
  <2> QED BY <2>1
<1> HIDE DEF paid, account
<1>9. Structured(account, made.transactions)
  BY <1>4, <1>5, <1>7, <1>8 DEF Structured
<1> QED BY <1>2, <1>9, StructurerAlone DEF account

LEMMA LayeringTells ==
    ASSUME NEW case \in Cases, NEW made \in LayeringChain(case)
    PROVE  Tells(case, made)
<1>1. made.accounts = OfChain(case)
  BY LayeringIs
<1>2. PICK t, u, v, w : made.transactions = {t, u, v, w} /\ ChainOf(t, u, v, w, case)
  BY LayeringIs
<1>3. \A n \in 1 .. 5 : ChainAccount(case, n) # Outside
  BY SeededAreNamed DEF OfChain
<1>4. ASSUME NEW n \in 1 .. 4, NEW x, Along(x, case, n), x.type \in {"transfer", "wire"}
      PROVE  Internal(x)
  <2>1. n \in 1 .. 5 /\ n + 1 \in 1 .. 5
    OBVIOUS
  <2> QED BY <1>3, <1>4, <2>1 DEF Along, Internal, Ends
<1>5. Internal(t) /\ Internal(u) /\ Internal(v) /\ Internal(w)
  BY <1>2, <1>4 DEF ChainOf
<1>6. {t, u, v, w} \subseteq InternalRows(made)
  BY <1>2, <1>5 DEF InternalRows
<1>7. Chained(case, InternalRows(made))
  BY <1>2, <1>6 DEF Chained, ChainOf
<1> SUFFICES ASSUME NEW a \in OfChain(case) PROVE Cast(a, case) /\ Evident(a, made)
  BY <1>1 DEF Tells
<1>8. a.case = case /\ a # StructurerOf(case) /\ a \notin Network(case)
  BY SeededApart
<1> QED BY <1>7, <1>8 DEF Cast, Evident, InGraph

LEMMA MuleNetworkTells ==
    ASSUME NEW case \in Cases, NEW made \in MuleNetwork(case)
    PROVE  Tells(case, made)
<1>m. PICK m \in {1, 2} : \E in, out : MuleRows(made.transactions, case, in, out, m)
  BY MuleNetworkIs
<1>rows. PICK in, out : MuleRows(made.transactions, case, in, out, m)
  BY <1>m
<1>1. /\ made.transactions = {in[k] : k \in 1 .. MuleVictims} \cup {out[k] : k \in 1 .. m}
      /\ \A n \in 1 .. MuleVictims :
            /\ in[n].sender = VictimOf(case, n) /\ in[n].receiver = MuleOf(case)
            /\ in[n].type = "transfer" /\ in[n].at \in Nat
      /\ \A k \in 1 .. m :
            /\ out[k].sender = MuleOf(case) /\ out[k].receiver = DestinationOf(case)
            /\ out[k].type = "transfer" /\ out[k].at \in Nat
  BY Zenon, <1>rows DEF MuleRows
<1>2. made.accounts = Network(case)
  BY MuleNetworkIs, SixVictims DEF Network, Victims
<1>3. Outside \notin Network(case)
  BY SeededAreNamed
<1>4. \A n \in 1 .. 6 : in[n].sender \in Network(case) /\ in[n].receiver \in Network(case)
                        /\ in[n].type = "transfer" /\ in[n] \in made.transactions
  BY <1>1, SixVictims DEF Network, Victims
<1>5. /\ out[1].sender = MuleOf(case) /\ out[1].receiver = DestinationOf(case)
      /\ out[1].sender \in Network(case) /\ out[1].receiver \in Network(case)
      /\ out[1].type = "transfer" /\ out[1] \in made.transactions
  <2>1. 1 \in 1 .. m
    OBVIOUS
  <2> QED BY <1>1, <2>1 DEF Network
<1>6. ASSUME NEW t \in made.transactions, t.type = "transfer",
             t.sender \in Network(case), t.receiver \in Network(case)
      PROVE  t \in InternalRows(made)
  BY <1>3, <1>6 DEF InternalRows, Internal, Ends
<1>7. (\A n \in 1 .. 6 : in[n] \in InternalRows(made)) /\ out[1] \in InternalRows(made)
  BY <1>4, <1>5, <1>6
<1>8. Networked(case, InternalRows(made))
  BY <1>1, <1>5, <1>7, SixVictims DEF Networked
<1> SUFFICES ASSUME NEW a \in Network(case) PROVE Cast(a, case) /\ Evident(a, made)
  BY <1>2 DEF Tells
<1>9. a.case = case /\ a # StructurerOf(case) /\ a \notin OfChain(case)
  BY SeededApart
<1> QED BY <1>8, <1>9 DEF Cast, Evident, InGraph

LEMMA GeneratedTells ==
    ASSUME NEW case \in Cases, NEW pattern \in PatternNames, NEW made \in Generated(case, pattern)
    PROVE  Tells(case, made)
<1>1. CASE pattern = "background"
  BY <1>1, BackgroundTells DEF Generated
<1>2. CASE pattern = "clean"
  BY <1>2, CleanTells DEF Generated
<1>3. CASE pattern = "structuring"
  BY <1>3, StructurerTells DEF Generated
<1>4. CASE pattern = "mule_network"
  BY <1>4, MuleNetworkTells DEF Generated
<1>5. CASE pattern = "layering"
  BY <1>5, LayeringTells DEF Generated
<1> QED BY <1>1, <1>2, <1>3, <1>4, <1>5, NamesOfPatterns

------------------------------------------------------------------------------
(* It is there as soon as the account is, and a check that begins then catches it *)

\* Its accounts grow until it has come to its end.
LEMMA SeedsGrow ==
    ASSUME SeedsMade, Written, [Next]_vars, NEW q \in Seeds
    PROVE  /\ seed[q].accounts \subseteq seed'[q].accounts
           /\ seed[q].pc = "done" => seed'[q].pc = "done" /\ seed'[q].accounts = seed[q].accounts
<1>1. ASSUME NEW s \in Seeds, SeedStep(s)
      PROVE  /\ seed[q].accounts \subseteq seed'[q].accounts
             /\ seed[q].pc = "done" => seed'[q].pc = "done" /\ seed'[q].accounts = seed[q].accounts
  <2>1. CASE Generate(s)
    <3>1. PICK case \in Cases, pattern \in PatternNames :
             case[1] = s /\ \E made \in Generated(case, pattern) : GrowsBy(s, made)
      BY <2>1, GenerateAdds
    <3>2. CASE q = s
      BY <3>1, <3>2 DEF GrowsBy
    <3>3. CASE q # s
      BY <3>1, <3>3 DEF GrowsBy
    <3> QED BY <3>2, <3>3
  <2>2. CASE ~Generate(s)
    <3>1. seed'[q].accounts = seed[q].accounts
      BY <1>1, <2>2, OthersAddNothing
    <3>2. seed[q].pc = "done" => seed'[q].pc = "done"
      <4>1. seed[s].pc # "done"
        BY <1>1 DEF SeedStep, Generate, CommitSeed, Truncate, WriteTruth, MayWrite, SeedDies
      <4>2. PICK pc : seed' = [seed EXCEPT ![s].pc = pc]
        BY <1>1, <2>2 DEF SeedStep, CommitSeed, Truncate, WriteTruth, SeedDies
      <4>3. DOMAIN seed = Seeds
        BY DEF Written
      <4> QED BY <4>1, <4>2, <4>3
    <3> QED BY <3>1, <3>2
  <2> QED BY <2>1, <2>2
<1>2. CASE UNCHANGED seed
  BY <1>2
<1> QED BY <1>1, <1>2 DEF Next, vars, seedVars

\* The accounts an execution has generated, with what gives them away.
SeedEvident(s) == \A a \in seed[s].accounts : Seeded(a, s) /\ Evident(a, seed[s])

LEMMA SeedTells ==
    ASSUME SeedsMade, Written, SeedsEvident, NEW s \in Seeds, SeedStep(s), NEW q \in Seeds
    PROVE  SeedEvident(q)'
<1>1. SeedEvident(q)
  BY DEF SeedsEvident, SeedEvident
<1>2. CASE Generate(s) /\ q = s
  <2>1. PICK case \in Cases, pattern \in PatternNames :
           case[1] = s /\ \E made \in Generated(case, pattern) : GrowsBy(s, made)
    BY <1>2, GenerateAdds
  <2>2. PICK made \in Generated(case, pattern) : GrowsBy(s, made)
    BY <2>1
  <2>3. \A a \in made.accounts : Seeded(a, s) /\ Evident(a, made)
    BY <2>1, GeneratedTells DEF Tells, Seeded, Maker, Cast
  <2>4. \A a \in seed[s].accounts : Seeded(a, s) /\ Evident(a, seed'[s])
    BY <1>1, <1>2, <2>2, EvidentGrows DEF SeedEvident, GrowsBy
  <2>5. \A a \in made.accounts : Seeded(a, s) /\ Evident(a, seed'[s])
    BY <2>2, <2>3, EvidentGrows DEF GrowsBy
  <2> QED BY <1>2, <2>2, <2>4, <2>5 DEF SeedEvident, GrowsBy
<1>3. CASE Generate(s) /\ q # s
  <2>1. seed'[q] = seed[q]
    BY <1>3, GenerateAdds DEF GrowsBy
  <2> QED BY <1>1, <2>1 DEF SeedEvident
<1>4. CASE ~Generate(s)
  <2>1. seed'[q].accounts = seed[q].accounts /\ seed'[q].transactions = seed[q].transactions
    BY <1>4, OthersAddNothing
  <2>2. \A a \in seed[q].accounts : Evident(a, seed'[q])
    BY <1>1, <2>1, EvidentGrows DEF SeedEvident
  <2> QED BY <1>1, <2>1, <2>2 DEF SeedEvident
<1> QED BY <1>2, <1>3, <1>4

DbEvident ==
    \A a \in db.accounts :
       Maker(a) \in Seeds /\ a \in seed[Maker(a)].accounts /\ Evident(a, db)

KnownEvident == \A i \in Ingests : \A a \in known[i].accounts : Evident(a, known[i])

LEMMA EvidentParts ==
    SeedsEvident <=> (\A s \in Seeds : SeedEvident(s)) /\ DbEvident /\ KnownEvident
BY DEF SeedsEvident, SeedEvident, DbEvident, KnownEvident

LEMMA StoreTells ==
    ASSUME SeedsMade, Written, SeedsEvident, NEW s \in Seeds, SeedStep(s), [Next]_vars
    PROVE  DbEvident'
<1>1. DbEvident /\ SeedEvident(s)
  BY EvidentParts
<1>2. \A q \in Seeds : seed[q].accounts \subseteq seed'[q].accounts
  BY SeedsGrow
<1>3. CASE UNCHANGED db
  BY <1>1, <1>2, <1>3 DEF DbEvident
<1>4. CASE Store(seed[s].accounts, seed[s].accounts, seed[s].transactions)
  <2>1. /\ db'.accounts = db.accounts \cup seed[s].accounts
        /\ db'.transactions = db.transactions \cup seed[s].transactions
    BY <1>4 DEF Store
  <2>2. ASSUME NEW a \in db.accounts
        PROVE  Maker(a) \in Seeds /\ a \in seed'[Maker(a)].accounts /\ Evident(a, db')
    BY <1>1, <1>2, <2>1, EvidentGrows DEF DbEvident
  <2>3. ASSUME NEW a \in seed[s].accounts
        PROVE  Maker(a) \in Seeds /\ a \in seed'[Maker(a)].accounts /\ Evident(a, db')
    <3>1. Maker(a) = s /\ Evident(a, seed[s])
      BY SMTT(30), <1>1 DEF SeedEvident, Seeded
    <3> QED BY <1>2, <2>1, <3>1, EvidentGrows
  <2> QED BY <2>1, <2>2, <2>3 DEF DbEvident
<1> QED BY <1>3, <1>4, SeedsOnlyStore

LEMMA KnownTells ==
    ASSUME SeedsEvident, IngestionInv, NEW i \in Ingests, IngestStep(i)
    PROVE  KnownEvident'
<1>1. DbEvident /\ KnownEvident
  BY EvidentParts
<1>2. CASE UNCHANGED known
  BY <1>1, <1>2 DEF KnownEvident
<1>3. CASE ReadEntities(i)
  <2>1. known' = [known EXCEPT ![i] = db]
    BY <1>3 DEF ReadEntities
  <2>2. known \in [Ingests -> Rows]
    BY DEF IngestionInv, Typed
  <2>3. \A j \in Ingests : known'[j] = known[j] \/ known'[j] = db
    BY <2>1, <2>2
  <2> QED BY <1>1, <2>3 DEF KnownEvident, DbEvident
<1> QED BY <1>2, <1>3 DEF IngestStep, ReadAccounts, ReadTransactions, MergeEntities,
                          MergeAccounts, MergeTransactions, Finish, Abort

LEMMA EvidentKept ==
    SeedsEvident /\ SeedsMade /\ Written /\ IngestionInv /\ [Next]_vars => SeedsEvident'
<1> SUFFICES ASSUME SeedsEvident, SeedsMade, Written, IngestionInv, [Next]_vars
             PROVE  SeedsEvident'
  OBVIOUS
<1>1. (\A s \in Seeds : SeedEvident(s)) /\ DbEvident /\ KnownEvident
  BY EvidentParts
<1>2. SUFFICES (\A s \in Seeds : SeedEvident(s)') /\ DbEvident' /\ KnownEvident'
  BY DEF SeedsEvident, SeedEvident, DbEvident, KnownEvident
<1>3. CASE \E s \in Seeds : SeedStep(s) /\ UNCHANGED <<ingestionVars, check>>
  <2>1. KnownEvident'
    BY <1>1, <1>3 DEF KnownEvident, ingestionVars
  <2> QED BY <1>3, <2>1, SeedTells, StoreTells
<1>4. CASE UNCHANGED <<db, seed>>
  <2>1. (\A s \in Seeds : SeedEvident(s)') /\ DbEvident'
    BY <1>1, <1>4 DEF SeedEvident, DbEvident
  <2>2. KnownEvident'
    <3>1. CASE UNCHANGED known
      BY <1>1, <3>1 DEF KnownEvident
    <3>2. CASE \E i \in Ingests : IngestStep(i)
      BY <3>2, KnownTells
    <3>3. CASE \E s \in Seeds : SeedStep(s) /\ UNCHANGED <<ingestionVars, check>>
      BY <3>1, <3>3 DEF ingestionVars
    <3> QED BY <3>1, <3>2, <3>3 DEF Next, vars, ingestionVars
  <2> QED BY <2>1, <2>2
<1>5. CASE \E i \in Ingests : IngestStep(i) /\ UNCHANGED <<seedVars, check>>
  <2>1. UNCHANGED <<db, seed>>
    BY <1>5 DEF IngestStep, ReadEntities, ReadAccounts, ReadTransactions, MergeEntities,
                MergeAccounts, MergeTransactions, Finish, Abort, seedVars
  <2> QED BY SMTT(30), <1>4, <2>1
<1>6. CASE \E c \in Checks : CheckStep(c) /\ UNCHANGED <<db, ingestionVars, seedVars>>
  BY <1>4, <1>6 DEF seedVars
<1>7. CASE UNCHANGED vars
  BY <1>4, <1>7 DEF vars, seedVars
<1> QED BY <1>3, <1>5, <1>6, <1>7 DEF Next

LEMMA InitEvident == Init => SeedsEvident
<1> SUFFICES ASSUME Init PROVE SeedsEvident
  OBVIOUS
<1>1. \A s \in Seeds : seed[s].accounts = {}
  BY DEF Init
<1>2. db.accounts = {} /\ \A i \in Ingests : known[i].accounts = {}
  BY DEF Init, IngestionInit, NoRows
<1> QED BY <1>1, <1>2 DEF SeedsEvident

LEMMA TransfersGrow ==
    ASSUME IngestionInv, [Next]_vars
    PROVE  graph.transfers \subseteq graph'.transfers
<1>1. graph = [entities |-> graph.entities, accounts |-> graph.accounts,
               owns |-> graph.owns, transfers |-> graph.transfers]
  BY DEF IngestionInv, Typed, Parts
<1>2. ASSUME NEW i \in Ingests, IngestStep(i)
      PROVE  graph.transfers \subseteq graph'.transfers
  <2>1. CASE MergeEntities(i)
    <3>1. PICK batch : graph' = [graph EXCEPT !.entities = @ \cup batch]
      BY <2>1 DEF MergeEntities
    <3> QED BY <1>1, <3>1
  <2>2. CASE MergeAccounts(i)
    <3>1. PICK batch :
             graph' = [graph EXCEPT !.accounts = @ \cup batch, !.owns = @ \cup Owned(batch)]
      BY <2>2 DEF MergeAccounts
    <3> QED BY <1>1, <3>1
  <2>3. CASE MergeTransactions(i)
    <3>1. PICK batch : graph' = [graph EXCEPT !.transfers = @ \cup Matched(batch)]
      BY <2>3 DEF MergeTransactions
    <3> QED BY <1>1, <3>1
  <2>4. CASE UNCHANGED graph
    BY <2>4
  <2> QED BY <1>2, <2>1, <2>2, <2>3, <2>4 DEF IngestStep, ReadEntities, ReadAccounts,
                                             ReadTransactions, Finish, Abort
<1>3. CASE UNCHANGED graph
  BY <1>3
<1> QED BY <1>2, <1>3 DEF Next, vars, ingestionVars

\* What a check was asked stays true.
LEMMA HeardStays ==
    ASSUME SeedsMade, Written, IngestionInv, [Next]_vars,
           NEW r, Heard(r, db.accounts, graph.transfers, seed)
    PROVE  Heard(r, db'.accounts, graph'.transfers, seed')
<1>1. db.accounts \subseteq db'.accounts
  <2>1. CASE UNCHANGED vars
    BY <2>1 DEF vars
  <2> QED BY <2>1, DbGrows
<1>2. graph.transfers \subseteq graph'.transfers
  BY TransfersGrow
<1>3. \A q \in Seeds : seed[q].pc = "done" =>
                          seed'[q].pc = "done" /\ seed'[q].accounts = seed[q].accounts
  BY SeedsGrow
<1>4. \A a : InGraph(a, graph.transfers) => InGraph(a, graph'.transfers)
  BY <1>2, InGraphGrows
<1> QED BY <1>1, <1>3, <1>4 DEF Heard

\* An account that a finished ingestion loaded is given away by the graph.
LEMMA LoadedInGraph ==
    ASSUME SeedsEvident, IngestionInv, NEW a \in db.accounts, Maker(a) \in Loaded
    PROVE  InGraph(a, graph.transfers)
<1>1. a \in seed[Maker(a)].accounts
  BY DEF SeedsEvident
<1>2. PICK i \in Ingests :
         ingest[i].pc = "done" /\ seed[Maker(a)].accounts \subseteq known[i].accounts
  BY DEF Loaded
<1>3. InGraph(a, InternalRows(known[i]))
  BY <1>1, <1>2 DEF SeedsEvident, Evident
<1>4. InternalRows(known[i]) \subseteq graph.transfers
  <2>1. TransfersKept(i) /\ NothingLeft(i)
    BY DEF IngestionInv, Follows
  <2> QED BY <1>2, <2>1 DEF TransfersKept, NothingLeft
<1> QED BY <1>3, <1>4, InGraphGrows

\* What a step of a check may do.
LEMMA CatchMoves ==
    ASSUME ChecksCatch, NEW c \in Checks, UNCHANGED <<db, graph, seed>>,
           \A d \in Checks \ {c} : check'[d] = check[d],
           Heard(check'[c], db.accounts, graph.transfers, seed), Catches(check'[c])
    PROVE  ChecksCatch'
<1>1. ASSUME NEW d \in Checks
      PROVE  Heard(check'[d], db'.accounts, graph'.transfers, seed') /\ Catches(check'[d])
  BY DEF ChecksCatch
<1> QED BY <1>1 DEF ChecksCatch, Catches

Same(q, r) ==
    /\ q.kind = r.kind /\ q.accounts = r.accounts /\ q.loaded = r.loaded
    /\ q.truth = r.truth

LEMMA HeardSame ==
    ASSUME NEW q, NEW r, Same(q, r), NEW accounts, NEW transfers, NEW seeds,
           Heard(r, accounts, transfers, seeds)
    PROVE  Heard(q, accounts, transfers, seeds)
BY DEF Heard, Same

\* The rules find what is committed.
LEMMA StructuringCatches ==
    ASSUME ChecksCatch, ChecksClear, SeedsMade, SeedsEvident, NEW c \in Checks,
           Structuring(c), UNCHANGED <<db, graph, seed>>
    PROVE  ChecksCatch'
<1> DEFINE r == check[c]
           found == ByStructuring(db.transactions)
<1>1. Asked(r) /\ DOMAIN check = Checks
  BY DEF ChecksClear
<1>2. Heard(r, db.accounts, graph.transfers, seed)
  BY DEF ChecksCatch
<1>3. \A a \in r.accounts : a = StructurerOf(a.case) => a \in found
  <2> SUFFICES ASSUME NEW a \in r.accounts, a = StructurerOf(a.case) PROVE a \in found
    OBVIOUS
  <2>1. a \in db.accounts
    BY <1>2 DEF Heard
  <2>2. a.case \in Cases /\ Structured(a, db.transactions)
    BY <2>1 DEF SeedsEvident, Seeded, Evident
  <2>3. a # Outside
    BY <2>2, SeededAreNamed
  <2>4. AllMade(db.transactions)
    BY DEF SeedsMade
  <2> QED BY <2>2, <2>3, <2>4, StructurerFound
<1>4. check' = [check EXCEPT ![c].pc = "fanin", ![c].flagged.structuring = found]
  BY DEF Structuring
<1> HIDE DEF found
<1>5. /\ Same(check'[c], r)
      /\ check'[c].pc = "fanin" /\ check'[c].flagged.structuring = found
  BY <1>1, <1>4 DEF Asked, Same
<1>6. \A d \in Checks \ {c} : check'[d] = check[d]
  BY <1>1, <1>4
<1>7. Catches(check'[c])
  BY <1>3, <1>5 DEF Catches, Same
<1> HIDE DEF r
<1>8. Heard(check'[c], db.accounts, graph.transfers, seed)
  BY <1>2, <1>5, HeardSame
<1> QED BY <1>6, <1>7, <1>8, CatchMoves

LEMMA FanInCatches ==
    ASSUME ChecksCatch, ChecksClear, NEW c \in Checks, FanIn(c) \/ Classify(c),
           UNCHANGED <<db, graph, seed>>
    PROVE  ChecksCatch'
<1> DEFINE r == check[c]
<1>1. Asked(r) /\ DOMAIN check = Checks
  BY DEF ChecksClear
<1>2. Heard(r, db.accounts, graph.transfers, seed) /\ Catches(r)
  BY DEF ChecksCatch
<1>3. /\ r.pc \in {"fanin", "ml"}
      /\ Same(check'[c], r)
      /\ check'[c].pc \in {"ml", "layering"}
      /\ check'[c].flagged.structuring = r.flagged.structuring
  <2>1. CASE FanIn(c)
    <3> DEFINE found == ByFanIn(db.transactions)
    <3>1. check' = [check EXCEPT ![c].pc = "ml", ![c].flagged.fanin = found] /\ r.pc = "fanin"
      BY <2>1 DEF FanIn
    <3> HIDE DEF found
    <3> QED BY <1>1, <3>1 DEF Asked, Same
  <2>2. CASE Classify(c)
    BY <1>1, <2>2 DEF Classify, Asked, Same
  <2> QED BY <2>1, <2>2
<1>4. \A d \in Checks \ {c} : check'[d] = check[d]
  BY <1>1 DEF FanIn, Classify
<1>5. Catches(check'[c])
  BY <1>2, <1>3 DEF Catches, Same
<1> HIDE DEF r
<1>6. Heard(check'[c], db.accounts, graph.transfers, seed)
  BY <1>2, <1>3, HeardSame
<1> QED BY <1>4, <1>5, <1>6, CatchMoves

\* The graph's detectors find what is loaded.
LEMMA LayeringCatches ==
    ASSUME ChecksCatch, ChecksClear, SeedsMade, IngestionInv, NEW c \in Checks,
           Layering(c), UNCHANGED <<db, graph, seed>>
    PROVE  ChecksCatch'
<1> DEFINE r == check[c]
           matches == Chains(Edges(graph.transfers))!Matches
           crowded == Crowded(graph.transfers)
<1>1. Asked(r) /\ DOMAIN check = Checks
  BY DEF ChecksClear
<1>2. Heard(r, db.accounts, graph.transfers, seed) /\ Catches(r)
  BY DEF ChecksCatch
<1>3. PICK rows \in Chains(Edges(graph.transfers))!Rows(matches) :
         check' = [check EXCEPT ![c].pc = "community",
                                ![c].flagged.layering = ByLayering(graph.transfers, rows),
                                ![c].crowded = crowded]
  BY DEF Layering
<1> DEFINE found == ByLayering(graph.transfers, rows)
<1>4. ASSUME ~crowded, NEW a \in r.accounts, Maker(a) \in r.loaded, a \in OfChain(a.case)
      PROVE  a \in found
  <2>1. Chained(a.case, graph.transfers)
    BY <1>2, <1>4 DEF Heard, InGraph
  <2>2. AllMade(graph.transfers)
    BY GraphMade
  <2> QED BY <1>4, <2>1, <2>2, ChainFound
<1>5. /\ check' = [check EXCEPT ![c].pc = "community", ![c].flagged.layering = found,
                               ![c].crowded = crowded]
      /\ r.pc = "layering"
  BY <1>3 DEF Layering
<1> HIDE DEF found, crowded
<1>6. /\ Same(check'[c], r)
      /\ check'[c].pc = "community" /\ check'[c].flagged.layering = found
      /\ check'[c].crowded = crowded
      /\ check'[c].flagged.structuring = r.flagged.structuring
  BY <1>1, <1>5 DEF Asked, Same
<1>7. \A d \in Checks \ {c} : check'[d] = check[d]
  BY <1>1, <1>5
<1>8. Catches(check'[c])
  BY <1>2, <1>4, <1>5, <1>6 DEF Catches, Same
<1> HIDE DEF r
<1>9. Heard(check'[c], db.accounts, graph.transfers, seed)
  BY <1>2, <1>6, HeardSame
<1> QED BY <1>7, <1>8, <1>9, CatchMoves

LEMMA CommunityCatches ==
    ASSUME ChecksCatch, ChecksClear, SeedsMade, IngestionInv, NEW c \in Checks,
           Community(c), UNCHANGED <<db, graph, seed>>
    PROVE  ChecksCatch'
<1> DEFINE r == check[c]
           found == ByCommunity(graph.transfers)
<1>1. Asked(r) /\ DOMAIN check = Checks
  BY DEF ChecksClear
<1>2. Heard(r, db.accounts, graph.transfers, seed) /\ Catches(r)
  BY DEF ChecksCatch
<1>3. \A a \in r.accounts :
         Maker(a) \in r.loaded /\ a \in {MuleOf(a.case), DestinationOf(a.case)} => a \in found
  <2> SUFFICES ASSUME NEW a \in r.accounts, Maker(a) \in r.loaded,
                      a \in {MuleOf(a.case), DestinationOf(a.case)}
               PROVE  a \in found
    OBVIOUS
  <2>1. Networked(a.case, graph.transfers)
    BY <1>2 DEF Heard, InGraph, Network
  <2>2. AllMade(graph.transfers) /\ \A t \in graph.transfers : Handed(t)
    BY GraphMade
  <2> QED BY <2>1, <2>2, NetworkFound
<1>4. check' = [check EXCEPT ![c].pc = "done", ![c].flagged.community = found]
      /\ r.pc = "community"
  BY DEF Community
<1> HIDE DEF found
<1>5. /\ Same(check'[c], r)
      /\ check'[c].pc = "done" /\ check'[c].flagged.community = found
      /\ check'[c].flagged.structuring = r.flagged.structuring
      /\ check'[c].flagged.layering = r.flagged.layering
      /\ check'[c].graph = r.graph /\ check'[c].crowded = r.crowded
  BY <1>1, <1>4 DEF Asked, Same
<1>6. \A d \in Checks \ {c} : check'[d] = check[d]
  BY <1>1, <1>4
<1>7. Catches(check'[c])
  BY <1>2, <1>3, <1>4, <1>5 DEF Catches, Same
<1> HIDE DEF r
<1>8. Heard(check'[c], db.accounts, graph.transfers, seed)
  BY <1>2, <1>5, HeardSame
<1> QED BY <1>6, <1>7, <1>8, CatchMoves

\* A check begins with what is committed and loaded.
LEMMA AskCatches ==
    ASSUME ChecksCatch, ChecksClear, Written, SeedsEvident, IngestionInv, NEW c \in Checks,
           NEW kind \in Kinds, Ask(c, kind), UNCHANGED <<db, graph, seed>>
    PROVE  ChecksCatch'
<1> DEFINE r == check[c]
           pc == IF kind = "graph_tool" THEN "layering" ELSE "structuring"
           loaded == Loaded
<1>1. Asked(r) /\ DOMAIN check = Checks
  BY DEF ChecksClear
<1>2. check' = [check EXCEPT ![c].pc = pc, ![c].kind = kind, ![c].accounts = db.accounts,
                             ![c].loaded = loaded, ![c].truth = file]
  BY DEF Ask
<1>3. /\ pc \in {"layering", "structuring"}
      /\ pc = "layering" => kind = "graph_tool"
  OBVIOUS
<1>4. /\ loaded \subseteq Seeds
      /\ \A a \in db.accounts : Maker(a) \in loaded => InGraph(a, graph.transfers)
  BY LoadedInGraph DEF Loaded
<1> HIDE DEF pc, loaded
<1>5. /\ check'[c].pc = pc /\ check'[c].kind = kind /\ check'[c].accounts = db.accounts
      /\ check'[c].loaded = loaded /\ check'[c].truth = file
  BY <1>1, <1>2 DEF Asked
<1>6. \A d \in Checks \ {c} : check'[d] = check[d]
  BY <1>1, <1>2
<1>7. Catches(check'[c])
  BY <1>3, <1>5 DEF Catches
<1>8. file \in Seeds => seed[file].pc = "done" /\ seed[file].accounts \subseteq db.accounts
  BY DEF Written
<1>9. Heard(check'[c], db.accounts, graph.transfers, seed)
  BY <1>4, <1>5, <1>8 DEF Heard
<1> QED BY <1>6, <1>7, <1>9, CatchMoves

\* Without the graph a check has what the rules found.
LEMMA GivesUpCatches ==
    ASSUME ChecksCatch, ChecksClear, NEW c \in Checks,
           Unconfigured(c) \/ DriverFails(c) \/ DatabaseFails(c) \/ Unreadable(c),
           UNCHANGED <<db, graph, seed>>
    PROVE  ChecksCatch'
<1> DEFINE r == check[c]
<1>1. Asked(r) /\ DOMAIN check = Checks
  BY DEF ChecksClear
<1>2. Heard(r, db.accounts, graph.transfers, seed) /\ Catches(r)
  BY DEF ChecksCatch
<1>3. ASSUME NEW q, Heard(q, db.accounts, graph.transfers, seed), Catches(q),
             check' = [check EXCEPT ![c] = q]
      PROVE  ChecksCatch'
  <2> HIDE DEF r
  <2>1. check'[c] = q /\ \A d \in Checks \ {c} : check'[d] = check[d]
    BY <1>1, <1>3
  <2> QED BY <1>3, <2>1, CatchMoves
<1>4. ASSUME r.pc \in {"layering", "community"}
      PROVE  Heard(WithoutGraph(c), db.accounts, graph.transfers, seed) /\ Catches(WithoutGraph(c))
  <2>1. WithoutGraph(c) = [r EXCEPT !.pc = "done", !.graph = FALSE, !.flagged.layering = {}]
    BY DEF WithoutGraph
  <2>2. /\ Same(WithoutGraph(c), r) /\ WithoutGraph(c).graph = FALSE
        /\ WithoutGraph(c).flagged.structuring = r.flagged.structuring
    BY <1>1, <2>1 DEF Asked, Same
  <2>3. Catches(WithoutGraph(c))
    BY <1>2, <1>4, <2>2 DEF Catches, Same
  <2> HIDE DEF r
  <2> QED BY <1>2, <2>2, <2>3, HeardSame
<1>5. ASSUME NEW kind
      PROVE  Heard(NoCheck("failed", kind), db.accounts, graph.transfers, seed)
             /\ Catches(NoCheck("failed", kind))
  <2>1. NoFile \notin Seeds
    BY PipelineAssumption
  <2> QED BY <2>1 DEF NoCheck, Heard, Catches
<1>6. CASE Unconfigured(c)
  <2>1. check' = [check EXCEPT ![c] = WithoutGraph(c)] /\ r.pc = "layering"
    BY <1>6 DEF Unconfigured
  <2> HIDE DEF r
  <2> QED BY <1>3, <1>4, <2>1
<1>7. CASE DriverFails(c)
  <2>1. r.pc \in {"layering", "community"}
    BY <1>7 DEF DriverFails
  <2>2. \/ check' = [check EXCEPT ![c] = WithoutGraph(c)]
        \/ check' = [check EXCEPT ![c] = NoCheck("failed", r.kind)]
    BY <1>7 DEF DriverFails
  <2> HIDE DEF r
  <2> QED BY <1>3, <1>4, <1>5, <2>1, <2>2
<1>8. CASE DatabaseFails(c)
  <2>1. check' = [check EXCEPT ![c] = NoCheck("failed", r.kind)]
    BY <1>8 DEF DatabaseFails
  <2> HIDE DEF r
  <2> QED BY <1>3, <1>5, <2>1
<1>9. CASE Unreadable(c)
  <2>1. check' = [check EXCEPT ![c] = NoCheck("failed", "verify")]
    BY <1>9 DEF Unreadable
  <2> QED BY <1>3, <1>5, <2>1
<1> QED BY <1>6, <1>7, <1>8, <1>9

LEMMA CatchKept ==
    /\ ChecksCatch /\ SeedsEvident /\ ChecksClear /\ SeedsMade /\ Written /\ IngestionInv
    /\ [Next]_vars
    => ChecksCatch'
<1> SUFFICES ASSUME ChecksCatch, SeedsEvident, ChecksClear, SeedsMade, Written, IngestionInv,
                    [Next]_vars
             PROVE  ChecksCatch'
  OBVIOUS
<1>1. CASE \E c \in Checks : CheckStep(c) /\ UNCHANGED <<db, ingestionVars, seedVars>>
  <2>1. PICK c \in Checks : CheckStep(c)
    BY <1>1
  <2>2. UNCHANGED <<db, graph, seed>>
    BY <1>1 DEF ingestionVars, seedVars
  <2> QED BY <2>1, <2>2, AskCatches, StructuringCatches, FanInCatches, LayeringCatches,
             CommunityCatches, GivesUpCatches DEF CheckStep
<1>2. CASE UNCHANGED check
  <2>1. \A c \in Checks : Heard(check[c], db'.accounts, graph'.transfers, seed')
    BY HeardStays DEF ChecksCatch
  <2>2. \A c \in Checks : Catches(check[c])
    BY DEF ChecksCatch
  <2> QED BY <1>2, <2>1, <2>2 DEF ChecksCatch, Catches
<1> QED BY <1>1, <1>2 DEF Next, vars

LEMMA InitCatch == Init => ChecksCatch
<1> SUFFICES ASSUME Init, NEW c \in Checks
             PROVE  Heard(check[c], db.accounts, graph.transfers, seed) /\ Catches(check[c])
  BY DEF ChecksCatch
<1>1. check[c] = NoCheck("idle", "verify")
  BY DEF Init
<1>2. NoFile \notin Seeds
  BY PipelineAssumption
<1> QED BY <1>1, <1>2 DEF NoCheck, Heard, Catches

\* What an account was made for tells what has to catch it.
LEMMA SeededKinds ==
    ASSUME NEW s, NEW a, Seeded(a, s)
    PROVE  /\ Maker(a) = s
           /\ a.role = "structurer" => a = StructurerOf(a.case)
           /\ a.pattern = "layering" => a \in OfChain(a.case)
           /\ a.pattern = "mule_network" /\ a.role \in {"mule", "destination"} =>
                 a \in {MuleOf(a.case), DestinationOf(a.case)}
           /\ a.pattern # "background" /\ a.role \notin NotFlaggableRoles =>
                 \/ a = StructurerOf(a.case)
                 \/ a \in OfChain(a.case)
                 \/ a \in {MuleOf(a.case), DestinationOf(a.case)}
<1> DEFINE case == a.case
<1>1. Maker(a) = s /\ Cast(a, case)
  BY DEF Seeded
<1> HIDE DEF case
<1>2. a \in Network(case) => a \in {MuleOf(case), DestinationOf(case)} \/ a.role = "victim_source"
  BY DEF Network, Victims, VictimOf, Name
<1>3. /\ a.role = "structurer" => a = StructurerOf(case)
      /\ a.pattern = "layering" => a \in OfChain(case)
      /\ a.pattern = "mule_network" /\ a.role \in {"mule", "destination"} =>
            a \in {MuleOf(case), DestinationOf(case)}
      /\ a.pattern # "background" /\ a.role \notin NotFlaggableRoles =>
            a = StructurerOf(case) \/ a \in OfChain(case) \/ a \in {MuleOf(case), DestinationOf(case)}
  BY <1>1, <1>2, SeededApart DEF Cast, NotFlaggableRoles
<1> QED BY <1>1, <1>3 DEF case

LEMMA CatchIsCaught == ChecksCatch /\ SeedsEvident => SeededAreCaught
<1> SUFFICES ASSUME ChecksCatch, SeedsEvident, NEW c \in Checks, Finished(c)
             PROVE  LET flagged == check[c].flagged
                        loaded == {a \in check[c].accounts : Maker(a) \in check[c].loaded}
                        networks == {a \in loaded : a.pattern = "mule_network"}
                    IN  /\ check[c].kind # "graph_tool" =>
                              Of("structurer", check[c].accounts) \subseteq flagged.structuring
                        /\ check[c].graph =>
                              /\ ~check[c].crowded =>
                                    {a \in loaded : a.pattern = "layering"} \subseteq flagged.layering
                              /\ Of("mule", networks) \cup Of("destination", networks)
                                    \subseteq flagged.community
                        /\ check[c].kind = "verify" /\ check[c].graph /\ ~check[c].crowded
                              /\ check[c].truth \in check[c].loaded =>
                              Flaggable(check[c].truth)
                                \subseteq flagged.structuring \cup flagged.layering
                                            \cup flagged.community
  BY DEF SeededAreCaught
<1> DEFINE r == check[c]
           flagged == r.flagged
<1>1. Heard(r, db.accounts, graph.transfers, seed) /\ Catches(r) /\ r.pc = "done"
  BY DEF ChecksCatch, Finished
<1>2. ASSUME NEW a \in r.accounts
      PROVE  Seeded(a, Maker(a))
  BY <1>1 DEF Heard, SeedsEvident
<1>3. ASSUME r.kind # "graph_tool", NEW a \in r.accounts, a = StructurerOf(a.case)
      PROVE  a \in flagged.structuring
  BY <1>1, <1>3 DEF Catches
<1>4. ASSUME r.graph, ~r.crowded, NEW a \in r.accounts, Maker(a) \in r.loaded,
             a \in OfChain(a.case)
      PROVE  a \in flagged.layering
  BY <1>1, <1>4 DEF Catches
<1>5. ASSUME r.graph, NEW a \in r.accounts, Maker(a) \in r.loaded,
             a \in {MuleOf(a.case), DestinationOf(a.case)}
      PROVE  a \in flagged.community
  BY <1>1, <1>5 DEF Catches
<1>6. ASSUME r.kind # "graph_tool"
      PROVE  Of("structurer", r.accounts) \subseteq flagged.structuring
  BY <1>2, <1>3, <1>6, SeededKinds DEF Of
<1> DEFINE loaded == {a \in r.accounts : Maker(a) \in r.loaded}
           networks == {a \in loaded : a.pattern = "mule_network"}
<1>7. ASSUME r.graph
      PROVE  /\ ~r.crowded => {a \in loaded : a.pattern = "layering"} \subseteq flagged.layering
             /\ Of("mule", networks) \cup Of("destination", networks) \subseteq flagged.community
  BY <1>2, <1>4, <1>5, <1>7, SeededKinds DEF Of
<1>8. ASSUME r.kind = "verify", r.graph, ~r.crowded, r.truth \in r.loaded
      PROVE  Flaggable(r.truth)
               \subseteq flagged.structuring \cup flagged.layering \cup flagged.community
  <2> SUFFICES ASSUME NEW a \in Flaggable(r.truth)
               PROVE  a \in flagged.structuring \cup flagged.layering \cup flagged.community
    OBVIOUS
  <2>1. r.truth \in Seeds /\ seed[r.truth].accounts \subseteq r.accounts
    BY <1>1, <1>8 DEF Heard
  <2>2. /\ a \in seed[r.truth].accounts /\ a.pattern # "background"
        /\ a.role \notin NotFlaggableRoles
    BY <2>1 DEF Flaggable, Truth
  <2>3. a \in r.accounts /\ Seeded(a, r.truth)
    BY <2>1, <2>2 DEF SeedsEvident
  <2>4. /\ Maker(a) = r.truth
        /\ \/ a = StructurerOf(a.case)
           \/ a \in OfChain(a.case)
           \/ a \in {MuleOf(a.case), DestinationOf(a.case)}
    BY <2>2, <2>3, SeededKinds
  <2>5. r.kind # "graph_tool"
    BY <1>8
  <2> HIDE DEF r
  <2> QED BY <1>3, <1>4, <1>5, <1>8, <2>3, <2>4, <2>5
<1> QED BY <1>6, <1>7, <1>8

\* A check catches what was seeded before it began, whatever the generators
\* draw, however many seedings, ingestions and checks run at once, wherever
\* one of them fails and however much else is in the tables and in the graph:
\* structurers always; of what a finished ingestion has loaded, when the graph
\* answers, the mules and destinations always, and the accounts of a chain
\* unless the graph has more paths of four or more hops than the layering
\* query returns.  Up to that limit verify_detection.py misses nothing its
\* file names.
THEOREM SeededAlwaysCaught == Spec => []SeededAreCaught
<1> DEFINE Inv == /\ IngestionInv /\ Written /\ SeedsMade /\ ChecksClear
                  /\ SeedsEvident /\ ChecksCatch
<1>1. Init => Inv
  <2>1. Init => IngestionInv
    BY InitKeeps DEF Init
  <2>2. Init => Written
    BY InitWritten
  <2> QED BY <2>1, <2>2, InitMade, InitEvident, InitCatch
<1>2. Inv /\ [Next]_vars => Inv'
  BY PipelineKeepsIngestion, WrittenKept, SeedsMadeKept, ChecksKept, EvidentKept, CatchKept
<1>3. Inv => SeededAreCaught
  BY CatchIsCaught
<1> QED BY <1>1, <1>2, <1>3, PTL DEF Spec

==============================================================================
