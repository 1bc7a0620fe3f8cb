---------------------------- MODULE MuleCommunities ---------------------------
(***************************************************************************)
(* detect_mule_communities (app/detection/graph.py): the weakly connected  *)
(* components of an organisation's transfer graph are found with a         *)
(* union-find; every member of a small component that has a hub, an        *)
(* account many members send to, is flagged.                               *)
(*                                                                         *)
(* One iteration of the loop in find() is one action (Halve), and so is    *)
(* the rest of each step of the loops over the edges and the components.   *)
(* _parent is a total function: an account that setdefault() has not seen  *)
(* yet is its own parent.                                                  *)
(***************************************************************************)
EXTENDS Integers, Sequences, FiniteSets

CONSTANTS
    Accounts,
    Graphs,             \* what the query for the edges may return
    MinSize, MaxSize,   \* of a component that may be flagged
    MinHubIndegree

\* A TRANSACTED edge; its transaction is its position in edges.
Edge == [sender : Accounts, receiver : Accounts]

\* An organisation without transfers has no findings and is left out.
ASSUME MuleAssumption ==
    /\ IsFiniteSet(Accounts)
    /\ Graphs \subseteq Seq(Edge) \ {<<>>}
    /\ MinSize \in Nat
    /\ MaxSize \in Nat
    /\ MinHubIndegree \in Nat \ {0}

VARIABLES
    edges,
    pc,         \* "sender" and "receiver": find() inside union(); "group":
                \* find() for the components; "flag"; "done"
    i,          \* the edge at hand
    x,          \* where find() is
    ra,         \* find(sender)
    parent,
    components, \* the members by root; {} where there is no entry
    todo,       \* roots whose component is still to be looked at
    findings

vars == <<edges, pc, i, x, ra, parent, components, todo, findings>>

Init ==
    /\ edges \in Graphs
    /\ pc = "sender"
    /\ i = 1
    /\ x = edges[1].sender
    /\ ra = edges[1].sender
    /\ parent = [a \in Accounts |-> a]
    /\ components = [a \in Accounts |-> {}]
    /\ todo = {}
    /\ findings = {}

IsRoot(a) == parent[a] = a

\* Mutant: the grandparent is written to the parent's entry.
Swapped == [parent EXCEPT ![parent[x]] = x]

Halved == [parent EXCEPT ![x] = parent[parent[x]]]

Halve ==
    /\ pc \in {"sender", "receiver", "group"}
    /\ ~IsRoot(x)
    /\ parent' = Halved
    /\ x' = parent[parent[x]]
    /\ UNCHANGED <<edges, pc, i, ra, components, todo, findings>>

FindReceiver ==
    /\ pc = "sender"
    /\ IsRoot(x)
    /\ ra' = x
    /\ x' = edges[i].receiver
    /\ pc' = "receiver"
    /\ UNCHANGED <<edges, i, parent, components, todo, findings>>

\* The next edge of a loop, or on from its end.
NextEdge(phase, after) ==
    IF i < Len(edges)
      THEN /\ i' = i + 1
           /\ x' = edges[i + 1].sender
           /\ pc' = phase
      ELSE /\ i' = 1
           /\ x' = edges[1].sender
           /\ pc' = after

\* Mutant: the sender moves and not its root.
LinkedSender == [parent EXCEPT ![edges[i].sender] = x]

\* parent[ra] = rb; where they are equal it already is.
Linked == [parent EXCEPT ![ra] = x]

Union ==
    /\ pc = "receiver"
    /\ IsRoot(x)
    /\ parent' = Linked
    /\ NextEdge("sender", "group")
    /\ UNCHANGED <<edges, ra, components, todo, findings>>

\* Mutant: the second add() is forgotten.
SenderJoined == [components EXCEPT ![x] = @ \cup {edges[i].sender}]

Joined ==
    [components EXCEPT ![x] = @ \cup {edges[i].sender, edges[i].receiver}]

Group ==
    /\ pc = "group"
    /\ IsRoot(x)
    /\ components' = Joined
    /\ todo' = todo \cup {x}
    /\ NextEdge("group", "flag")
    /\ UNCHANGED <<edges, ra, parent, findings>>

\* Mutant: transfers are counted and not the accounts they come from.
InTransfers(members, a) ==
    {k \in 1 .. Len(edges) :
       edges[k].receiver = a /\ edges[k].sender \in members}

InComponentSenders(members, a) ==
    {s \in members :
       \E k \in 1 .. Len(edges) : edges[k] = [sender |-> s, receiver |-> a]}

Fits(members) == Cardinality(members) \in MinSize .. MaxSize

Hubs(members) ==
    {a \in members :
       Cardinality(InComponentSenders(members, a)) >= MinHubIndegree}

\* Mutant: the hub's own transfers only.
FanIn(members) ==
    {k \in 1 .. Len(edges) : edges[k].receiver \in Hubs(members)}

Evidence(members) ==
    {k \in 1 .. Len(edges) :
       edges[k].sender \in members /\ edges[k].receiver \in members}

\* The first hub met covers the whole component (break).  The hub of a
\* finding is named by its explanation only.
Reports(members, hub) ==
    [account : members, hub : {hub}, evidence : {Evidence(members)}]

Flag(r) ==
    /\ pc = "flag"
    /\ r \in todo
    /\ todo' = todo \ {r}
    /\ LET members == components[r] IN
       IF Fits(members) /\ Hubs(members) # {}
         THEN \E hub \in Hubs(members) :
                findings' = findings \cup Reports(members, hub)
         ELSE UNCHANGED findings
    /\ UNCHANGED <<edges, pc, i, x, ra, parent, components>>

Finish ==
    /\ pc = "flag"
    /\ todo = {}
    /\ pc' = "done"
    /\ UNCHANGED <<edges, i, x, ra, parent, components, todo, findings>>

Returned == pc = "done" /\ UNCHANGED vars

Next ==
    \/ Halve
    \/ FindReceiver
    \/ Union
    \/ Group
    \/ \E r \in Accounts : Flag(r)
    \/ Finish
    \/ Returned

Spec == Init /\ [][Next]_vars

\* A sequential program runs on.
FairSpec == Spec /\ WF_vars(Next)

------------------------------------------------------------------------------
(* Properties *)

Finding == [account : Accounts, hub : Accounts, evidence : SUBSET Nat]

\* TYPE: every variable has its type.
TypeOK ==
    /\ edges \in Seq(Edge)
    /\ edges # <<>>
    /\ pc \in {"sender", "receiver", "group", "flag", "done"}
    /\ i \in 1 .. Len(edges)
    /\ x \in Accounts
    /\ ra \in Accounts
    /\ parent \in [Accounts -> Accounts]
    /\ components \in [Accounts -> SUBSET Accounts]
    /\ todo \in SUBSET Accounts
    /\ findings \in SUBSET Finding

\* No transfer among the first n goes into S or out of it.
Isolated(S, n) ==
    \A k \in 1 .. n : edges[k].sender \in S <=> edges[k].receiver \in S

\* The weakly connected component of an account: what every isolated set
\* around it contains.
Community(a) ==
    LET around == {S \in SUBSET Accounts : a \in S /\ Isolated(S, Len(edges))}
    IN  {b \in Accounts : \A S \in around : b \in S}

Ends(k) == {edges[k].sender, edges[k].receiver}

Touched == UNION {Ends(k) : k \in 1 .. Len(edges)}

\* Whatever a find() starts from, there is a root ahead of it: a set of
\* accounts that contains its parents contains a root.
Rooted ==
    \A S \in (SUBSET Accounts) \ {{}} :
        (\A a \in S : parent[a] \in S) => \E a \in S : IsRoot(a)

\* A union of trees of the forest.
Whole(S) == \A a \in Accounts : a \in S <=> parent[a] \in S

\* Edges already united.
United == IF pc \in {"sender", "receiver"} THEN i - 1 ELSE Len(edges)

\* No set of accounts is separated by the forest and not by the transfers
\* seen so far, or the other way round: path halving and linking neither
\* lose a connection nor invent one.
ForestIsGraph ==
    \A S \in SUBSET Accounts :
        Whole(S) <=> Isolated(S, United)

\* The components are the weakly connected components of the graph, and
\* every account with a transfer is in one.
CommunitiesFound ==
    pc \in {"flag", "done"} =>
        /\ \A r \in Accounts :
              components[r] # {} => components[r] = Community(r)
        /\ \A a \in Touched : \E r \in Accounts : a \in components[r]

\* Accounts a receives from, wherever they are.
Senders(a) ==
    {s \in Accounts :
       \E k \in 1 .. Len(edges) : edges[k] = [sender |-> s, receiver |-> a]}

RightSize(members) == MinSize <= Cardinality(members) /\ Cardinality(members) <= MaxSize

\* Somebody in it "receives from min_hub_indegree+ other members".
Suspicious(members) ==
    /\ RightSize(members)
    /\ \E hub \in members : Cardinality(Senders(hub) \ {hub}) >= MinHubIndegree

\* Short of that by one, of which a transfer of the hub to itself makes up.
PaysItself(members) ==
    /\ RightSize(members)
    /\ \E hub \in members : /\ hub \in Senders(hub)
                            /\ Cardinality(Senders(hub) \ {hub}) = MinHubIndegree - 1

\* Every member of a suspicious community is flagged, and nobody else but the
\* members of one whose hub pays itself: the code counts it among its senders.
\* (in_component_senders, graph.py:217-220)
FlagsTheSuspicious ==
    pc = "done" =>
        \A a \in Touched :
            LET flagged == \E f \in findings : f.account = a
            IN  /\ Suspicious(Community(a)) => flagged
                /\ flagged => Suspicious(Community(a)) \/ PaysItself(Community(a))

\* "An isolated cluster (no connections to any other account)": the evidence
\* of a finding is every transfer that touches the account's community.
EvidenceIsTheCluster ==
    \A f \in findings :
        LET cluster == Community(f.account)
        IN  f.evidence = {k \in 1 .. Len(edges) : Ends(k) \cap cluster # {}}

\* One component is reported once: an account has one finding, and members
\* are reported for the same hub.
OneReport ==
    \A f \in findings :
        LET cluster == Community(f.account)
        IN  \A g \in findings : g.account \in cluster => g.hub = f.hub

\* find() and the loops end.
Finishes == <>(pc = "done")

\* A hub "receives from min_hub_indegree+ other members": itself not counted.
HubHasOthers ==
    \A f \in findings :
        Cardinality(InComponentSenders(Community(f.account), f.hub) \ {f.hub})
            >= MinHubIndegree

==============================================================================
