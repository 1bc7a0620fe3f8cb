---------------------------- MODULE FraudPipeline ----------------------------
(***************************************************************************)
(* One organisation's synthetic fraud data on its way through the system:  *)
(* scripts/seed_fraud_data.py commits it and writes the ground-truth file, *)
(* GraphIngestion loads it into Neo4j, and checks read both databases: the *)
(* detection endpoint, the agent's query_relationship_graph, and           *)
(* scripts/verify_detection.py.  All of them run concurrently.             *)
(*                                                                         *)
(* What a detector finds is what the modules of the detectors say, at the  *)
(* thresholds of the code; a check reads the tables or the graph anew for  *)
(* each.  Amounts are dollars, times hours, since the start of the         *)
(* background's window.  What the generator draws at random is any member  *)
(* of a set of draws: in a proof any within its ranges, in a run samples   *)
(* with the ends of them.  What the classifier says of an account is left  *)
(* out; whether there is a trained one is not.                             *)
(***************************************************************************)
EXTENDS GraphIngestion, Sequences

CONSTANTS
    Seeds,          \* executions of seed_fraud_data.py, numbers
    Checks,
    MaxCases,       \* of one pattern and execution
    Plans,          \* which cases each execution generates
    BackgroundCount, BackgroundDraws,
    PayDraws, DepositDraws, VictimDraws, OutboundDraws,
    MuleVictims, MuleRetentions,                    \* percent
    StartAmounts, ChainAges, ForwardFractions, HopDelays,
    MaxHops, QueryLimit

\* generate_background() and so on, in the order they are called in.
Patterns == <<"background", "clean", "structuring", "mule_network", "layering">>

PatternNames == {Patterns[k] : k \in 1 .. Len(Patterns)}

\* The second case of a pattern, and which execution's case it is.
Jobs == [pattern : PatternNames, number : 1 .. MaxCases]

Cases == Seeds \X (1 .. MaxCases)

\* What the ground-truth file may be when no execution has written it last.
NoFile == 0
Empty == -1
Broken == -2

\* An account, and the entity it is made with.
Name(case, pattern, role, n) == [case |-> case, pattern |-> pattern, role |-> role, n |-> n]

\* The execution that made an account.
Maker(a) == a.case[1]

Roles == {"background", "clean_control", "structurer", "mule", "destination", "victim_source",
          "origin", "intermediary"}

Named ==
    [case : Cases, pattern : PatternNames, role : Roles,
     n : 1 .. BackgroundCount + MuleVictims + 1]

ASSUME PipelineAssumption ==
    /\ Seeds \subseteq Nat \ {NoFile}
    /\ MaxCases \in Nat
    /\ Accounts = Named
    /\ Entities = Named
    /\ Owner = [a \in Accounts |-> a]
    /\ Plans \subseteq [Seeds -> SUBSET Jobs]
    /\ QueryLimit \in Nat \ {0}

Day == 24
Now == 120 * Day

Moves ==
    [type : {"deposit", "withdrawal", "transfer"}, to : 1 .. BackgroundCount,
     amount : 50 .. 8000, at : 0 .. Now]

Spending == [amount : 30 .. 400, after : 1 .. 12]

PayPeriod == [amount : 2195 .. 4805, late : {0, 1}, spending : Seq(Spending)]

Deposited == [amount : 8500 .. 9800, ago : 0 .. 10 * Day]

VictimPaid == [amount : 500 .. 4000, ago : 0 .. 72]

\* The ranges the generator draws from; ago is hours before now.
ASSUME BackgroundAssumption ==
    /\ BackgroundCount \in Nat
    /\ BackgroundDraws \subseteq [1 .. BackgroundCount -> Seq(Moves)]
    /\ \A draw \in BackgroundDraws : \A n \in 1 .. BackgroundCount : Len(draw[n]) \in 3 .. 10

ASSUME PayAssumption ==
    /\ PayDraws \subseteq [1 .. 6 -> PayPeriod]
    /\ \A draw \in PayDraws : \A k \in 1 .. 6 : Len(draw[k].spending) \in 3 .. 6

ASSUME DepositAssumption ==
    /\ DepositDraws \subseteq Seq(Deposited)
    /\ \A draw \in DepositDraws : Len(draw) \in 4 .. 6

ASSUME VictimAssumption ==
    /\ MuleVictims = 6
    /\ VictimDraws \subseteq [1 .. MuleVictims -> VictimPaid]

ASSUME OutboundAssumption ==
    /\ MuleRetentions \subseteq 85 .. 95
    /\ OutboundDraws \subseteq Seq(2 .. 36)
    /\ \A draw \in OutboundDraws : Len(draw) \in {1, 2}

ASSUME ChainAssumption ==
    /\ StartAmounts \subseteq 45000 .. 60000
    /\ ChainAges \subseteq 15 .. 45
    /\ ForwardFractions \subseteq 90 .. 97
    /\ HopDelays \subseteq 6 .. 48
    /\ MaxHops \in 4 .. 6

VARIABLES
    seed,   \* where each execution is, what it has generated and still has to
    file,   \* the execution whose ground-truth file it is
    check   \* where each check is, what it was asked and has found

seedVars == <<seed, file>>
vars == <<db, ingestionVars, seedVars, check>>

------------------------------------------------------------------------------
(* The generated data *)

Deposit(n, account, amount, at) ==
    [n |-> n, type |-> "deposit", sender |-> Outside, receiver |-> account,
     amount |-> amount, at |-> at]

Withdrawal(n, account, amount, at) ==
    [n |-> n, type |-> "withdrawal", sender |-> account, receiver |-> Outside,
     amount |-> amount, at |-> at]

Transfer(n, from, to, amount, at) ==
    [n |-> n, type |-> "transfer", sender |-> from, receiver |-> to,
     amount |-> amount, at |-> at]

Case(as, ts) == [accounts |-> as, transactions |-> ts]

\* Accounts that deposit, withdraw, or transfer among themselves, a few times
\* each; a transfer to oneself is not made.
BackgroundCase(case, draw) ==
    LET account(n) == Name(case, "background", "background", n)
        row(n, k) ==
            LET move == draw[n][k]
            IN  CASE move.type = "deposit" -> {Deposit(k, account(n), move.amount, move.at)}
                  [] move.type = "withdrawal" -> {Withdrawal(k, account(n), move.amount, move.at)}
                  [] move.type = "transfer" /\ move.to # n ->
                        {Transfer(k, account(n), account(move.to), move.amount, move.at)}
                  [] OTHER -> {}
        rows(n) == UNION {row(n, k) : k \in 1 .. Len(draw[n])}
    IN  Case({account(n) : n \in 1 .. BackgroundCount},
             UNION {rows(n) : n \in 1 .. BackgroundCount})

Background(case) == {BackgroundCase(case, draw) : draw \in BackgroundDraws}

\* A paycheck every two weeks, a day late or not, and spending in the days after.
CleanCase(case, draw) ==
    LET account == Name(case, "clean", "clean_control", 1)
        PayDay(k) == Day * (14 * (k - 1) + draw[k].late)
        spent(k) == {Withdrawal(10 * k + j, account, draw[k].spending[j].amount,
                                PayDay(k) + Day * draw[k].spending[j].after) :
                       j \in 1 .. Len(draw[k].spending)}
    IN  Case({account},
             {Deposit(k, account, draw[k].amount, PayDay(k)) : k \in 1 .. 6} \cup
             UNION {spent(k) : k \in 1 .. 6})

CleanControl(case) == {CleanCase(case, draw) : draw \in PayDraws}

StructuringCase(case, draw) ==
    LET account == Name(case, "structuring", "structurer", 1)
    IN  Case({account},
             {Deposit(k, account, draw[k].amount, Now - draw[k].ago) : k \in 1 .. Len(draw)})

Structurer(case) == {StructuringCase(case, draw) : draw \in DepositDraws}

\* Victims pay the mule, who hands most of the sum on in one transfer or two
\* after the last of them.
MuleCase(case, draw, retention, delays) ==
    LET mule == Name(case, "mule_network", "mule", 1)
        destination == Name(case, "mule_network", "destination", 1)
        victim(n) == Name(case, "mule_network", "victim_source", n)
        victims == 1 .. MuleVictims
        paid[n \in 0 .. MuleVictims] == IF n = 0 THEN 0 ELSE paid[n - 1] + draw[n].amount
        last == CHOOSE n \in victims : \A m \in victims : draw[n].ago <= draw[m].ago
        total == (paid[MuleVictims] * retention) \div 100
        half == total \div 2
        portion(k) == IF k < Len(delays) THEN half
                      ELSE IF k = 1 THEN total ELSE total - half
    IN  Case({mule, destination} \cup {victim(n) : n \in victims},
             {Transfer(n, victim(n), mule, draw[n].amount, Now - draw[n].ago) : n \in victims} \cup
             {Transfer(MuleVictims + k, mule, destination, portion(k),
                       Now - draw[last].ago + delays[k]) : k \in 1 .. Len(delays)})

MuleNetwork(case) ==
    {MuleCase(case, draw, retention, delays) :
       draw \in VictimDraws, retention \in MuleRetentions, delays \in OutboundDraws}

Hops == 4

ChainAccount(case, n) ==
    CASE n = 1 -> Name(case, "layering", "origin", 1)
      [] n = Hops + 1 -> Name(case, "layering", "destination", 1)
      [] OTHER -> Name(case, "layering", "intermediary", n - 1)

\* Each account hands most of what it received on to the next.
LayeringCase(case, start, age, steps) ==
    LET hop[n \in 1 .. Hops] ==
          IF n = 1
            THEN Transfer(1, ChainAccount(case, 1), ChainAccount(case, 2), start, Now - age * Day)
            ELSE Transfer(n, ChainAccount(case, n), ChainAccount(case, n + 1),
                          (hop[n - 1].amount * steps[n].fraction) \div 100,
                          hop[n - 1].at + steps[n].delay)
    IN  Case({ChainAccount(case, n) : n \in 1 .. Hops + 1},
             {[hop[1] EXCEPT !.type = "wire"]} \cup {hop[n] : n \in 2 .. Hops})

LayeringChain(case) ==
    {LayeringCase(case, start, age, steps) :
       start \in StartAmounts, age \in ChainAges,
       steps \in [2 .. Hops -> [fraction : ForwardFractions, delay : HopDelays]]}

Generated(case, pattern) ==
    CASE pattern = "background" -> Background(case)
      [] pattern = "clean" -> CleanControl(case)
      [] pattern = "structuring" -> Structurer(case)
      [] pattern = "mule_network" -> MuleNetwork(case)
      [] pattern = "layering" -> LayeringChain(case)

------------------------------------------------------------------------------
(* Seeding: one transaction, then the file *)

\* Patterns are generated one after another.
Before(pattern, other) ==
    \E k, l \in 1 .. Len(Patterns) : k < l /\ Patterns[k] = pattern /\ Patterns[l] = other

Generate(s) ==
    /\ seed[s].pc = "generate"
    /\ \E job \in seed[s].todo :
          /\ \A other \in seed[s].todo : ~Before(other.pattern, job.pattern)
          /\ \E case \in Generated(<<s, job.number>>, job.pattern) :
                seed' = [seed EXCEPT ![s].todo = @ \ {job},
                                     ![s].accounts = @ \cup case.accounts,
                                     ![s].transactions = @ \cup case.transactions]
    /\ UNCHANGED <<db, file>>

CommitSeed(s) ==
    /\ seed[s].pc = "generate"
    /\ seed[s].todo = {}
    /\ Store(seed[s].accounts, seed[s].accounts, seed[s].transactions)
    /\ seed' = [seed EXCEPT ![s].pc = "write"]
    /\ UNCHANGED file

\* Mutant: the file is written before the commit.
MayWriteEarly(s) == seed[s].pc \in {"generate", "write"} /\ seed[s].todo = {}

MayWrite(s) == seed[s].pc = "write"

\* write_text() opens the file, which empties it, whosever it was ...
Truncate(s) ==
    /\ MayWrite(s)
    /\ file' = Empty
    /\ seed' = [seed EXCEPT ![s].pc = "writing"]
    /\ UNCHANGED db

\* ... and writes from its start: over what another execution has written
\* since, of which the end may stay.
WriteTruth(s) ==
    /\ seed[s].pc = "writing"
    /\ file' \in IF file = Empty THEN {s} ELSE {s, Broken}
    /\ seed' = [seed EXCEPT ![s].pc = "done"]
    /\ UNCHANGED db

\* An exception or the end of the process; what is not committed is gone, and
\* a part of the file may be written.
SeedDies(s) ==
    /\ seed[s].pc \in {"generate", "write", "writing"}
    /\ file' \in IF seed[s].pc = "writing" THEN {file, Broken} ELSE {file}
    /\ seed' = [seed EXCEPT ![s].pc = "failed"]
    /\ UNCHANGED db

\* The accounts the file names; the background is not in it.
Truth(f) == IF f \in Seeds THEN {a \in seed[f].accounts : a.pattern # "background"} ELSE {}

NotFlaggableRoles == {"victim_source", "clean_control"}

Flaggable(f) == {a \in Truth(f) : a.role \notin NotFlaggableRoles}

------------------------------------------------------------------------------
(* What the detectors find in some rows or transfers *)

\* In the order of their time; rows of one time in some order.
InOrder(ts) ==
    LET f[n \in 0 .. Cardinality(ts)] ==
          IF n = 0 THEN <<>>
          ELSE LET sorted == f[n - 1]
                   rest == ts \ {sorted[k] : k \in 1 .. n - 1}
               IN  Append(sorted, CHOOSE t \in rest : \A u \in rest : t.at <= u.at)
    IN  f[Cardinality(ts)]

Band(amount) ==
    IF amount < 7500 THEN "below" ELSE IF amount < 10000 THEN "band" ELSE "above"

Table(ts) ==
    LET rows == InOrder(ts)
    IN  [k \in 1 .. Len(rows) |->
           [kind |-> [type |-> rows[k].type, sender |-> rows[k].sender,
                      receiver |-> rows[k].receiver, amount |-> Band(rows[k].amount)],
            time |-> rows[k].at]]

Rules(table) == INSTANCE DetectionRules WITH
    txns <- table, pc <- "structuring", findings <- {},
    Kinds <- {}, MaxRows <- 0, MaxTime <- 0,
    MinCount <- 3, Window <- 14 * Day,
    MinInboundSources <- 5, InboundWindow <- 72,
    MaxOutboundDestinations <- 2, OutboundWindow <- 48

ByStructuring(ts) ==
    LET table == Table(ts)
    IN  {a \in {t.receiver : t \in ts} \ {Outside} : Rules(table)!StructuringFindings(a) # {}}

ByFanIn(ts) ==
    LET table == Table(ts)
    IN  {a \in {t.receiver : t \in ts} \ {Outside} : Rules(table)!FanInFindings(a) # {}}

Edges(ts) ==
    LET rows == InOrder(ts)
    IN  [k \in 1 .. Len(rows) |->
           [sender |-> rows[k].sender, receiver |-> rows[k].receiver,
            amount |-> rows[k].amount, time |-> rows[k].at]]

Chains(transfers) == INSTANCE LayeringChains WITH
    edges <- transfers, pc <- "load", raw <- {}, kept <- {}, findings <- {},
    Amounts <- {}, MaxEdges <- 0, MaxTime <- 0,
    MinHops <- 3, MinFirstHopAmount <- 15000, MaxHopGap <- 96, Limit <- QueryLimit

\* Every account of a simple path among the rows of the query is flagged
\* (ChainsFlagged).
ByLayering(ts, rows) ==
    UNION {Chains(Edges(ts))!NodeSet(path) :
             path \in {p \in rows : Chains(Edges(ts))!IsSimple(p)}}

\* More paths of at least as many hops as a chain has than the query returns.
Crowded(ts) ==
    LET edges == Edges(ts)
    IN  Cardinality({path \in Chains(edges)!Matches : Len(path) >= Hops}) > QueryLimit

Mules(transfers) == INSTANCE MuleCommunities WITH
    edges <- transfers, pc <- "done", i <- 1, x <- 1, ra <- 1,
    parent <- <<>>, components <- <<>>, todo <- {}, findings <- {}, Graphs <- {},
    MinSize <- 3, MaxSize <- 20, MinHubIndegree <- 4

\* The weakly connected component of an account (CommunitiesFound).
Cluster(a, ts) ==
    LET f[n \in 0 .. Cardinality(ts)] ==
          IF n = 0 THEN {a}
          ELSE LET near == f[n - 1]
               IN  near \cup UNION {Ends(t) : t \in {u \in ts : Ends(u) \cap near # {}}}
    IN  f[Cardinality(ts)]

\* Every member of a suspicious community is flagged (FlagsTheSuspicious).
ByCommunity(ts) ==
    LET rows == InOrder(ts)
        edges == [k \in 1 .. Len(rows) |->
                    [sender |-> rows[k].sender, receiver |-> rows[k].receiver]]
    IN  {a \in UNION {Ends(t) : t \in ts} :
           LET members == Cluster(a, ts)
           IN  Mules(edges)!Fits(members) /\ Mules(edges)!Hubs(members) # {}}

------------------------------------------------------------------------------
(* Checks *)

Kinds == {"endpoint", "graph_tool", "verify"}

NoFlags == [structuring |-> {}, fanin |-> {}, layering |-> {}, community |-> {}]

NoCheck(pc, kind) ==
    [pc |-> pc, kind |-> kind, accounts |-> {}, loaded |-> {}, truth |-> NoFile,
     flagged |-> NoFlags, graph |-> TRUE, crowded |-> FALSE]

\* Executions whose data was in the graph, as a finished ingestion leaves it.
Loaded ==
    {s \in Seeds :
       \E i \in Ingests :
          ingest[i].pc = "done" /\ seed[s].accounts # {} /\ seed[s].accounts \subseteq known[i].accounts}

\* get_account_detection() looks at the whole organisation and keeps what is
\* about one account: a check stands for those of every account there is.
\* query_relationship_graph begins with the graph.
Ask(c, kind) ==
    /\ check[c].pc = "idle"
    /\ kind = "verify" => file \in Seeds
    /\ check' = [check EXCEPT ![c].pc = IF kind = "graph_tool" THEN "layering" ELSE "structuring",
                              ![c].kind = kind,
                              ![c].accounts = db.accounts,
                              ![c].loaded = Loaded,
                              ![c].truth = file]

\* verify begins with the file, and ends when it is not there or no JSON.
Unreadable(c) ==
    /\ check[c].pc = "idle"
    /\ file \notin Seeds
    /\ check' = [check EXCEPT ![c] = NoCheck("failed", "verify")]

Structuring(c) ==
    /\ check[c].pc = "structuring"
    /\ check' = [check EXCEPT ![c].pc = "fanin",
                              ![c].flagged.structuring = ByStructuring(db.transactions)]

FanIn(c) ==
    /\ check[c].pc = "fanin"
    /\ check' = [check EXCEPT ![c].pc = "ml", ![c].flagged.fanin = ByFanIn(db.transactions)]

\* Without a trained model the FileNotFoundError is caught, too, and noted.
Classify(c) ==
    /\ check[c].pc = "ml"
    /\ check' = [check EXCEPT ![c].pc = "layering"]

\* A history is kept of whether the query's limit could leave a chain out.
Layering(c) ==
    /\ check[c].pc = "layering"
    /\ LET paths == Chains(Edges(graph.transfers))!Matches
       IN  \E rows \in Chains(Edges(graph.transfers))!Rows(paths) :
              check' = [check EXCEPT ![c].pc = "community",
                                     ![c].flagged.layering = ByLayering(graph.transfers, rows),
                                     ![c].crowded = Crowded(graph.transfers)]

Community(c) ==
    /\ check[c].pc = "community"
    /\ check' = [check EXCEPT ![c].pc = "done",
                              ![c].flagged.community = ByCommunity(graph.transfers)]

\* Mutant: what the rules have found is lost with the graph.
WithoutAnything(c) ==
    [check[c] EXCEPT !.pc = "done", !.graph = FALSE, !.flagged = NoFlags]

WithoutGraph(c) ==
    [check[c] EXCEPT !.pc = "done", !.graph = FALSE, !.flagged.layering = {}]

\* NEO4J_PASSWORD is not set: an HTTPException, which the endpoint catches.
Unconfigured(c) ==
    /\ check[c].pc = "layering"
    /\ check[c].kind \in {"endpoint", "verify"}
    /\ check' = [check EXCEPT ![c] = WithoutGraph(c)]

\* Neo4j does not answer: any other exception, which only verify catches.
\* query_relationship_graph then tells nothing, as without a password.
DriverFails(c) ==
    /\ check[c].pc \in {"layering", "community"}
    /\ check' = [check EXCEPT ![c] = IF check[c].kind = "verify" THEN WithoutGraph(c)
                                     ELSE NoCheck("failed", check[c].kind)]

DatabaseFails(c) ==
    /\ check[c].pc \in {"structuring", "fanin", "ml"}
    /\ check' = [check EXCEPT ![c] = NoCheck("failed", @.kind)]

------------------------------------------------------------------------------

Init ==
    /\ IngestionInit
    /\ seed \in {[s \in Seeds |-> [pc |-> IF plan[s] = {} THEN "unused" ELSE "generate",
                                    todo |-> plan[s], accounts |-> {}, transactions |-> {}]] :
                    plan \in Plans}
    /\ file = NoFile
    /\ check = [c \in Checks |-> NoCheck("idle", "verify")]

SeedStep(s) == Generate(s) \/ CommitSeed(s) \/ Truncate(s) \/ WriteTruth(s) \/ SeedDies(s)

CheckStep(c) ==
    \/ \E kind \in Kinds : Ask(c, kind)
    \/ Unreadable(c)
    \/ Structuring(c)
    \/ FanIn(c)
    \/ Classify(c)
    \/ Layering(c)
    \/ Community(c)
    \/ Unconfigured(c)
    \/ DriverFails(c)
    \/ DatabaseFails(c)

Next ==
    \/ \E s \in Seeds : SeedStep(s) /\ UNCHANGED <<ingestionVars, check>>
    \/ \E i \in Ingests : IngestStep(i) /\ UNCHANGED <<seedVars, check>>
    \/ \E c \in Checks : CheckStep(c) /\ UNCHANGED <<db, ingestionVars, seedVars>>

Spec == Init /\ [][Next]_vars

------------------------------------------------------------------------------
(* Properties *)

Finished(c) == check[c].pc = "done"

Of(role, accounts) == {a \in accounts : a.role = role}

\* The ground-truth file names accounts that are committed, whichever of two
\* executions wrote it last and wherever one of them died.
TruthIsReal == Truth(file) \subseteq db.accounts

\* A check catches what was seeded before it began: structurers, whatever
\* becomes of the graph or the classifier, and, when the graph answers, the
\* accounts of every mule network that a finished ingestion loaded, and of
\* every chain while the graph has no more paths as long as a chain than the
\* layering query returns, also while other data is being seeded and half of
\* it ingested.  Then verify misses nothing that its file names.
SeededAreCaught ==
    \A c \in {d \in Checks : Finished(d)} :
        LET flagged == check[c].flagged
            loaded == {a \in check[c].accounts : Maker(a) \in check[c].loaded}
            networks == {a \in loaded : a.pattern = "mule_network"}
        IN  /\ check[c].kind # "graph_tool" =>
                  Of("structurer", check[c].accounts) \subseteq flagged.structuring
            /\ check[c].graph =>
                  /\ ~check[c].crowded =>
                        {a \in loaded : a.pattern = "layering"} \subseteq flagged.layering
                  /\ Of("mule", networks) \cup Of("destination", networks) \subseteq flagged.community
            /\ check[c].kind = "verify" /\ check[c].graph /\ ~check[c].crowded
                  /\ check[c].truth \in check[c].loaded =>
                  Flaggable(check[c].truth)
                    \subseteq flagged.structuring \cup flagged.layering \cup flagged.community

\* No detector takes ordinary activity, or another pattern, for its own: a
\* clean control is flagged by nothing and a background account is on no
\* chain, even in a graph that is half loaded.  A background cluster may look
\* like any of the other patterns.
OrdinaryStaysClear ==
    \A c \in {d \in Checks : Finished(d)} :
        LET flagged == check[c].flagged
            Only(found, pattern) ==
                \A a \in found : a.pattern \in {pattern, "background"}
        IN  /\ Only(flagged.structuring, "structuring")
            /\ Only(flagged.fanin, "mule_network")
            /\ Only(flagged.community, "mule_network")
            /\ \A a \in flagged.layering : a.pattern = "layering"

\* "Victim accounts are NOT expected to be flagged".
VictimsStayClear ==
    \A c \in {d \in Checks : Finished(d)} :
        Of("victim_source", check[c].flagged.community) = {}

\* The fan-in rule finds the seeded mules.
RuleCatchesMules ==
    \A c \in {d \in Checks : Finished(d)} :
        check[c].kind # "graph_tool" => Of("mule", check[c].accounts) \subseteq check[c].flagged.fanin

\* "Each leg degrades independently ... rather than failing the whole call".
NeverFails == \A c \in Checks : check[c].kind = "endpoint" => check[c].pc # "failed"

\* Every chain that is loaded is caught, however many there are.
EveryChainCaught ==
    \A c \in {d \in Checks : Finished(d) /\ check[d].graph} :
        {a \in check[c].accounts : a.pattern = "layering" /\ Maker(a) \in check[c].loaded}
            \subseteq check[c].flagged.layering

\* What is not named in the file is background, or still to be named.
TruthTellsAll ==
    \A a \in db.accounts :
        \/ a.pattern = "background"
        \/ a \in Truth(file)
        \/ seed[Maker(a)].pc \in {"write", "writing"}

==============================================================================
