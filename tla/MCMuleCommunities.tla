-------------------------- MODULE MCMuleCommunities --------------------------
(***************************************************************************)
(* Graphs of the model-checking runs of MuleCommunities.  The accounts are *)
(* alike, so a graph stands for those it becomes when they are renamed.    *)
(***************************************************************************)
EXTENDS MuleCommunities, FiniteSetsExt

CONSTANTS a1, a2, a3, a4, MaxTransfers

Order == <<a1, a2, a3, a4>>

\* The accounts met in a graph.
Met(g) == UNION {{g[n].sender, g[n].receiver} : n \in 1 .. Len(g)}

\* Those that may be met next: an account is met after the one before it in Order.
Nameable(met) == {Order[j] : j \in 1 .. Min({Cardinality(met) + 1, Len(Order)})}

Following(g) ==
    UNION {{[sender |-> s, receiver |-> r] : r \in Nameable(Met(g) \cup {s})} :
             s \in Nameable(Met(g))}

\* Every graph of n transfers, in every order, up to renaming.
GraphsOf[n \in 0 .. MaxTransfers] ==
    IF n = 0 THEN {<<>>}
    ELSE UNION {{Append(g, e) : e \in Following(g)} : g \in GraphsOf[n - 1]}

AllGraphs == UNION {GraphsOf[n] : n \in 1 .. MaxTransfers}

==============================================================================
