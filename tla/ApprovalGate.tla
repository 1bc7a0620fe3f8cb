----------------------------- MODULE ApprovalGate ----------------------------
(***************************************************************************)
(* What the approval flow promises, whatever handlers, checkpoints and     *)
(* crashes lie behind it (app/agent/approval_tool.py and                   *)
(* app/agent/investigation.py): an ask becomes an approval row, a reviewer *)
(* decides the row once, and the agent is then told that decision, for     *)
(* that ask, and never two decisions for one ask.  While a thread waits    *)
(* for a reviewer its agent is told nothing and asks nothing.              *)
(***************************************************************************)
CONSTANTS
    Threads,
    Approvals,
    Asks,       \* positions in a conversation an ask can have
    NoThread

VARIABLES
    row,        \* the approval rows
    told        \* told[t]: the verdicts in the conversation of thread t

vars == <<row, told>>

Init ==
    /\ row = [a \in Approvals |-> [status |-> "none", thread |-> NoThread, ask |-> 0]]
    /\ told = [t \in Threads |-> {}]

Waiting(t) == \E a \in Approvals : row[a].thread = t /\ row[a].status = "pending"
Answered(t) == {h.ask : h \in told[t]}

\* An ask may come at any position of a conversation that has no verdict yet.
Ask(a) ==
    /\ UNCHANGED told
    /\ row[a].status = "none" /\ row'[a].status = "pending"
    /\ row'[a].thread \in Threads /\ row'[a].ask \in Asks \ Answered(row'[a].thread)
    /\ ~Waiting(row'[a].thread)
    /\ row' = [row EXCEPT ![a] = [status |-> "pending", thread |-> row'[a].thread, ask |-> row'[a].ask]]

Decide(a) ==
    /\ UNCHANGED told
    /\ row[a].status = "pending" /\ row'[a].status \in {"approved", "rejected"}
    /\ row' = [row EXCEPT ![a].status = row'[a].status]

\* The verdicts the decided rows of a thread stand for.
Verdicts(t) ==
    {[ask |-> row[a].ask, by |-> a, approved |-> row[a].status = "approved"] :
       a \in {b \in Approvals : /\ row[b].thread = t
                                /\ row[b].status \in {"approved", "rejected"}}}

\* Several verdicts may reach the durable conversation in one write.
Tell(t) ==
    /\ UNCHANGED row
    /\ ~Waiting(t)
    /\ \E heard \in SUBSET Verdicts(t) :
         /\ \A h \in heard : h.ask \notin Answered(t)
         /\ \A h, k \in heard : h.ask = k.ask => h = k
         /\ told' = [told EXCEPT ![t] = @ \cup heard]

Next ==
    \/ \E a \in Approvals : Ask(a) \/ Decide(a)
    \/ \E t \in Threads : Tell(t)

Spec == Init /\ [][Next]_vars

==============================================================================
