---------------------------- MODULE DetectionRules ----------------------------
(***************************************************************************)
(* run_all_rules (app/detection/rules.py): which accounts of an            *)
(* organisation the structuring rule and the fan-in/fan-out rule flag, and *)
(* with which transactions as evidence.  Each rule is one action.          *)
(*                                                                         *)
(* An amount is below, in or above the band the structuring rule looks at; *)
(* times are hours.  Both queries ask for rows by occurred_at, and get     *)
(* rows of one time in any order: txns is the table in the order a query   *)
(* returns it, and a transaction is named by its position; a list that a   *)
(* rule builds is the set of the positions in it.                          *)
(***************************************************************************)
EXTENDS Integers, Sequences, FiniteSets

CONSTANTS
    Accounts,
    Outside,            \* the side of a transaction that is no account
    Kinds,              \* the transactions there may be, without their time
    MaxRows, MaxTime,   \* bounds of the table
    MinCount, Window,   \* structuring
    MinInboundSources, InboundWindow,
    MaxOutboundDestinations, OutboundWindow

Kind ==
    [type : {"deposit", "withdrawal", "transfer", "wire"},
     sender : Accounts \cup {Outside},
     receiver : Accounts \cup {Outside},
     amount : {"below", "band", "above"}]

ASSUME RulesAssumption ==
    /\ Outside \notin Accounts
    /\ Kinds \subseteq Kind
    /\ {MaxRows, MaxTime} \subseteq Nat
    /\ MinCount \in Nat \ {0}
    /\ MinInboundSources \in Nat \ {0}
    /\ {Window, InboundWindow, MaxOutboundDestinations, OutboundWindow} \subseteq Nat

VARIABLES
    pc,         \* "structuring", "fanin" or "done"
    txns,
    findings

vars == <<pc, txns, findings>>

Init ==
    /\ pc = "structuring"
    /\ txns = <<>>
    /\ findings = {}

\* A row is in the table before the rules run.
Record(kind, time) ==
    /\ pc = "structuring"
    /\ Len(txns) < MaxRows
    /\ \A k \in 1 .. Len(txns) : txns[k].time <= time
    /\ txns' = Append(txns, [kind |-> kind, time |-> time])
    /\ UNCHANGED <<pc, findings>>

Rows == 1 .. Len(txns)

Senders(rows) == {txns[k].kind.sender : k \in rows}
Receivers(rows) == {txns[k].kind.receiver : k \in rows}

------------------------------------------------------------------------------
(* Structuring *)

Qualifies(k) == txns[k].kind.type = "deposit" /\ txns[k].kind.amount = "band"

\* The qualifying deposits of an account; a list of them is in the order of
\* the query, which is that of their positions.
Deposits(a) == {k \in Rows : Qualifies(k) /\ txns[k].kind.receiver = a}

From(a, k) == {l \in Deposits(a) : k <= l}

\* Mutant: the range ends one window early.
ShortRange(a) == {k \in Deposits(a) : Cardinality(From(a, k)) > MinCount}

\* Where MinCount consecutive deposits begin.
Starts(a) == {k \in Deposits(a) : Cardinality(From(a, k)) >= MinCount}

FirstOf(rows, n) == {l \in rows : Cardinality({m \in rows : m <= l}) <= n}

Group(a, k) == FirstOf(From(a, k), MinCount)

\* From the first of the group to the last.
IsShort(a, k) ==
    \E last \in Group(a, k) :
       /\ \A l \in Group(a, k) : l <= last
       /\ txns[last].time - txns[k].time <= Window

\* The first window of MinCount consecutive deposits that is short enough.
FirstShort(a) ==
    {k \in Starts(a) : IsShort(a, k) /\ \A l \in Starts(a) : l < k => ~IsShort(a, l)}

Finding(rule, a, evidence) == [rule |-> rule, account |-> a, evidence |-> evidence]

StructuringFindings(a) ==
    {Finding("structuring", a, Group(a, k)) : k \in FirstShort(a)}

DetectStructuring ==
    /\ pc = "structuring"
    /\ pc' = "fanin"
    /\ findings' = findings \cup UNION {StructuringFindings(a) : a \in Accounts}
    /\ UNCHANGED txns

------------------------------------------------------------------------------
(* Fan-in, fan-out *)

Internal(k) ==
    /\ txns[k].kind.type \in {"transfer", "wire"}
    /\ txns[k].kind.sender # Outside
    /\ txns[k].kind.receiver # Outside

Inbound(a) == {k \in Rows : Internal(k) /\ txns[k].kind.receiver = a}
Outbound(a) == {k \in Rows : Internal(k) /\ txns[k].kind.sender = a}

\* Inbound transfers in the window that ends with the k-th.
Candidates(a, k) ==
    {c \in Inbound(a) :
       txns[k].time - InboundWindow <= txns[c].time /\ txns[c].time <= txns[k].time}

FansIn(a, k) == Cardinality(Senders(Candidates(a, k))) >= MinInboundSources

\* The earliest window with enough senders ends with k.
Earliest(a, k) ==
    /\ k \in Inbound(a)
    /\ FansIn(a, k)
    /\ \A l \in Inbound(a) : l < k => ~FansIn(a, l)

\* Mutant: transfers out from before the last one in.
FanOutFrom(a, k) ==
    {c \in Outbound(a) :
       txns[k].time <= txns[c].time /\ txns[c].time <= txns[k].time + OutboundWindow}

FanOut(a, k) ==
    {c \in Outbound(a) :
       txns[k].time < txns[c].time /\ txns[c].time <= txns[k].time + OutboundWindow}

FewDestinations(rows) ==
    Cardinality(Receivers(rows)) \in 1 .. MaxOutboundDestinations

FanInFindings(a) ==
    {Finding("fanin_fanout", a, Candidates(a, k) \cup FanOut(a, k)) :
       k \in {l \in Rows : Earliest(a, l) /\ FewDestinations(FanOut(a, l))}}

DetectFanInFanOut ==
    /\ pc = "fanin"
    /\ pc' = "done"
    /\ findings' = findings \cup UNION {FanInFindings(a) : a \in Accounts}
    /\ UNCHANGED txns

Returned == pc = "done" /\ UNCHANGED vars

Next ==
    \/ \E kind \in Kinds, time \in 0 .. MaxTime : Record(kind, time)
    \/ DetectStructuring
    \/ DetectFanInFanOut
    \/ Returned

Spec == Init /\ [][Next]_vars

------------------------------------------------------------------------------
(* Properties *)

FlaggedBy(rule) == {f.account : f \in {g \in findings : g.rule = rule}}

\* Deposits of the band to one account, within one window of each other.
IsStructuring(rows, a) ==
    /\ \A k \in rows :
          txns[k].kind.type = "deposit" /\ txns[k].kind.amount = "band" /\ txns[k].kind.receiver = a
    /\ \A k, l \in rows : txns[k].time - txns[l].time <= Window

\* An account is flagged exactly when any MinCount of its deposits, whatever
\* lies between them, are close enough: looking at consecutive deposits and at
\* the first short window loses none.
StructuringExact ==
    pc # "structuring" =>
        FlaggedBy("structuring") =
            {a \in Accounts : \E rows \in SUBSET Rows :
                Cardinality(rows) = MinCount /\ IsStructuring(rows, a)}

\* Transfers into a from enough accounts within the window, followed by
\* transfers out of it, to few accounts, within the other window: a mule.
IsMule(in, out, a) ==
    /\ in # {} /\ out # {}
    /\ \A k \in in : Internal(k) /\ txns[k].kind.receiver = a
    /\ \A k \in out : Internal(k) /\ txns[k].kind.sender = a
    /\ Cardinality(Senders(in)) >= MinInboundSources
    /\ \A k, l \in in : txns[k].time - txns[l].time <= InboundWindow
    /\ Cardinality(Receivers(out)) <= MaxOutboundDestinations
    /\ \E last \in in :
          /\ \A k \in in : txns[k].time <= txns[last].time
          /\ out = {k \in Outbound(a) :
                      /\ txns[k].time > txns[last].time
                      /\ txns[k].time - txns[last].time <= OutboundWindow}

\* A human can verify a finding on its evidence alone: the evidence shows the
\* pattern, and no transfer out of a mule was left out of it.
EvidenceVerifies ==
    \A f \in findings :
        IF f.rule = "structuring"
          THEN Cardinality(f.evidence) = MinCount /\ IsStructuring(f.evidence, f.account)
          ELSE \E in \in SUBSET f.evidence :
                 IsMule(in, f.evidence \ in, f.account)

\* "Flags an account that receives transfers from min_inbound_sources+ distinct
\* accounts within inbound_window_hours, then sends to
\* max_outbound_destinations or fewer": every mule is flagged.
MulesFlagged ==
    pc = "done" =>
        \A a \in Accounts :
            (\E in, out \in SUBSET Rows : IsMule(in, out, a))
                => a \in FlaggedBy("fanin_fanout")

==============================================================================
