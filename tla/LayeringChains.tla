---------------------------- MODULE LayeringChains ----------------------------
(***************************************************************************)
(* detect_layering_chains (app/detection/graph.py): the paths of transfers *)
(* that Cypher's variable-length match returns, up to a limit, less those  *)
(* that revisit an account, reduced to the longest ones.  One iteration of *)
(* the loop of _dedupe_to_longest_chains is one action.                    *)
(*                                                                         *)
(* A transfer is named by its position in edges, a path is a sequence of   *)
(* positions.  ORDER BY and sorted() leave the order of paths of one       *)
(* length open: what is behind the limit, and which of two such chains is  *)
(* met first, is any choice.                                               *)
(***************************************************************************)
EXTENDS Integers, Sequences, FiniteSets

CONSTANTS
    Accounts,
    Amounts,
    MaxEdges, MaxTime,      \* bounds of the graph; times are hours
    MinHops, MaxHops,
    MinFirstHopAmount,
    MaxHopGap,              \* hours
    Day,                    \* hours in a day
    Limit                   \* of the query

ASSUME LayeringAssumption ==
    /\ IsFiniteSet(Accounts)
    /\ Amounts \subseteq Nat
    /\ {MaxEdges, MaxTime, MaxHops, MinFirstHopAmount, MaxHopGap, Limit} \subseteq Nat
    /\ MinHops \in 1 .. MaxHops
    /\ Day \in Nat \ {0}

Edge == [sender : Accounts, receiver : Accounts, amount : Amounts, time : 0 .. MaxTime]

VARIABLES
    pc,         \* "load", "filter", "dedupe" or "done"
    edges,      \* TRANSACTED
    raw,        \* raw_chains still to be looked at
    kept,
    findings

vars == <<pc, edges, raw, kept, findings>>

Init ==
    /\ pc = "load"
    /\ edges = <<>>
    /\ raw = {}
    /\ kept = {}
    /\ findings = {}

\* A transfer is in the graph before the query runs.
Load(edge) ==
    /\ pc = "load"
    /\ Len(edges) < MaxEdges
    /\ \A k \in 1 .. Len(edges) : edges[k].time <= edge.time
    /\ edges' = Append(edges, edge)
    /\ UNCHANGED <<pc, raw, kept, findings>>

Transfers == 1 .. Len(edges)

First(path) == edges[path[1]]
Last(path) == edges[path[Len(path)]]

NodeSet(path) ==
    {First(path).sender} \cup {edges[path[n]].receiver : n \in 1 .. Len(path)}

\* Half of the amount is retained and it does not grow by more than 5%.
Retains(k, l) ==
    /\ 20 * edges[l].amount <= 21 * edges[k].amount
    /\ 2 * edges[l].amount >= edges[k].amount

\* duration.between(..).hours: whole days are counted apart.
Hours(k, l) == (edges[l].time - edges[k].time) % Day

\* Mutant: the order of time is left out.
FollowsAnytime(k, l) ==
    /\ edges[k].receiver = edges[l].sender
    /\ Retains(k, l)

Follows(k, l) ==
    /\ edges[k].receiver = edges[l].sender
    /\ edges[k].time <= edges[l].time
    /\ Retains(k, l)
    /\ Hours(k, l) <= MaxHopGap

\* Mutant: a chain may begin with any amount.
IsMatchAnyAmount(path) ==
    /\ \A m, n \in 1 .. Len(path) : path[m] = path[n] => m = n
    /\ First(path).sender # Last(path).receiver
    /\ \A n \in 1 .. Len(path) - 1 : Follows(path[n], path[n + 1])

\* A relationship is used once in a path, an account may be met again.
IsMatch(path) ==
    /\ First(path).amount >= MinFirstHopAmount
    /\ First(path).sender # Last(path).receiver
    /\ \A m, n \in 1 .. Len(path) : path[m] = path[n] => m = n
    /\ \A n \in 1 .. Len(path) - 1 : Follows(path[n], path[n + 1])

Matches ==
    {path \in UNION {[1 .. n -> Transfers] : n \in MinHops .. MaxHops} : IsMatch(path)}

\* ORDER BY size(rels) DESC LIMIT: the longest, as many as the limit admits.
Rows(found) ==
    IF Cardinality(found) <= Limit THEN {found}
    ELSE {rows \in SUBSET found :
            /\ Cardinality(rows) = Limit
            /\ \A p \in rows, q \in found \ rows : Len(p) >= Len(q)}

Query ==
    /\ pc = "load"
    /\ raw' \in Rows(Matches)
    /\ pc' = "filter"
    /\ UNCHANGED <<edges, kept, findings>>

IsSimple(path) == Cardinality(NodeSet(path)) = Len(path) + 1

Filter ==
    /\ pc = "filter"
    /\ raw' = {path \in raw : IsSimple(path)}
    /\ pc' = "dedupe"
    /\ UNCHANGED <<edges, kept, findings>>

\* Mutant: ascending.
Shortest(path) == path \in raw /\ \A other \in raw : Len(other) >= Len(path)

Longest(path) == path \in raw /\ \A other \in raw : Len(other) <= Len(path)

\* Mutant: the accounts of one chain are compared with those of all.
AllCovered(path) == NodeSet(path) \subseteq UNION {NodeSet(chain) : chain \in kept}

Covered(path) == \E chain \in kept : NodeSet(path) \subseteq NodeSet(chain)

Dedupe(path) ==
    /\ pc = "dedupe"
    /\ Longest(path)
    /\ raw' = raw \ {path}
    /\ IF Covered(path) THEN UNCHANGED kept ELSE kept' = kept \cup {path}
    /\ UNCHANGED <<pc, edges, findings>>

Flagged(path) == NodeSet(path)

\* One finding for every account of a chain.
Report ==
    /\ pc = "dedupe"
    /\ raw = {}
    /\ findings' = UNION {[account : Flagged(path), evidence : {path}] : path \in kept}
    /\ pc' = "done"
    /\ UNCHANGED <<edges, raw, kept>>

Returned == pc = "done" /\ UNCHANGED vars

Next ==
    \/ \E edge \in Edge : Load(edge)
    \/ Query
    \/ Filter
    \/ \E path \in raw : Dedupe(path)
    \/ Report
    \/ Returned

Spec == Init /\ [][Next]_vars

------------------------------------------------------------------------------
(* Properties *)

Path == Seq(Transfers)

\* Between a half of x and 5% more than x.
AboutAsLarge(x, y) == x <= 2 * y /\ 100 * y <= 105 * x

\* One chain of layering: money handed on through different accounts, each
\* transfer after the one before and about as large.
IsChain(path) ==
    /\ Len(path) \in MinHops .. MaxHops
    /\ First(path).amount >= MinFirstHopAmount
    /\ \A m, n \in 1 .. Len(path) :
          m < n => /\ edges[path[m]].sender # edges[path[n]].sender
                   /\ edges[path[m]].receiver # edges[path[n]].receiver
                   /\ edges[path[m]].time <= edges[path[n]].time
    /\ \A n \in 1 .. Len(path) : edges[path[n]].receiver # First(path).sender
    /\ \A n \in 1 .. Len(path) - 1 :
          /\ edges[path[n]].receiver = edges[path[n + 1]].sender
          /\ AboutAsLarge(edges[path[n]].amount, edges[path[n + 1]].amount)

\* A human can verify a finding on its evidence: it is a chain and the
\* account is on it.
EvidenceIsChain ==
    \A f \in findings :
        IsChain(f.evidence) /\ f.account \in NodeSet(f.evidence)

\* As long as the limit is not met, an account is flagged exactly when it is
\* on a chain: leaving chains out as covered loses no account.
ChainsFlagged ==
    pc = "done" /\ Cardinality(Matches) <= Limit =>
        \A path \in Matches :
            IsChain(path) =>
                \E chain \in {f.evidence : f \in findings} :
                    \A a \in NodeSet(path) : [account |-> a, evidence |-> chain] \in findings

\* One real chain is one finding of an account: no reported chain lies
\* within the accounts of another.
NoOverlap ==
    \A f, g \in findings :
        NodeSet(f.evidence) \subseteq NodeSet(g.evidence) => f.evidence = g.evidence

\* "Each hop within max_hop_gap_hours of the previous one."
HopsRapid ==
    \A f \in findings :
        \A n \in 1 .. Len(f.evidence) - 1 :
            edges[f.evidence[n + 1]].time - edges[f.evidence[n]].time <= MaxHopGap

\* A chain does not go unreported because of paths that are none.
ChainsSurvive ==
    pc = "done" =>
        ((\E path \in Matches : IsChain(path)) => findings # {})

==============================================================================
