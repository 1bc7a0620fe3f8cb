---------------------------- MODULE MCObservability ----------------------------
(* Constants of the model-checking run of Observability with Registration. *)
EXTENDS Observability, TLC

CONSTANTS r1, r2, r3, alice, bob, e1, e2, e3, p1, p2, t1, old1, old2

Symmetric == Permutations(Requests)

\* Two organisations; bob is not active.
TwoFounders ==
    {[id |-> alice, email |-> e1, password |-> p1, role |-> "admin", is_active |-> TRUE],
     [id |-> bob, email |-> e2, password |-> p1, role |-> "admin", is_active |-> FALSE]}

Call(feature, thread, tokens) ==
    [model |-> "model", feature |-> feature, thread |-> thread, tokens |-> tokens,
     success |-> tokens # None]

AgentCall == Call("investigation_agent", t1, 1)
FailedCall == Call("ai_ask", None, None)
OldCall == Call(None, None, 1)

\* A call without a feature was traced before there were any.
SomeCalls == {AgentCall, FailedCall}

Old(id, org, tick, call) == [id |-> id, org |-> org, created_at |-> tick, call |-> call]

\* Nothing, or a trace at a midnight and one before.
Past ==
    {{}, {Old(old1, alice, 2, OldCall), Old(old2, alice, 1, AgentCall)}}

Window(start, end) == [start |-> start, end |-> end]

SomeWindows ==
    {Window(0, 0), Window(1, 1), Window(0, 1), Window(None, None), Window(1, 0)}

================================================================================
