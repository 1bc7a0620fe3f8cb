--------------------------- MODULE MCInvestigation ---------------------------
(* Constants of the model-checking runs of Investigation. *)
EXTENDS Investigation

CONSTANTS t1, t2, r1, r2, r3, w1, w2

OneWorker == [r \in Requests |-> w1]
\* r1, the run that pauses, and r2 go to one process, the rest to another.
TwoWorkers == [r \in Requests |-> IF r \in {r1, r2} THEN w1 ELSE w2]

Call(does, about) == [does |-> does, asks |-> FALSE, about |-> about]
Ask(about) == [does |-> "nothing", asks |-> TRUE, about |-> about]

\* The answers the system prompt asks for: open a case, ask for approval,
\* close the case, stop.
Disciplined == [t \in Threads |->
    {Call("create", NoThread), Ask(t), Call("closed", t), NoMessage}]

\* The shortest conversations with an ask in them.
Brief == [t \in Threads |-> {Call("create", NoThread), Ask(t), NoMessage}]

\* An ask comes with a case write in the same message.
Siblings == [t \in Threads |->
    {Call("create", NoThread), [does |-> "closed", asks |-> TRUE, about |-> t], NoMessage}]

\* The agent may name another investigation's case.
Foreign == [t \in Threads |->
    {Call("create", NoThread), NoMessage} \cup {Ask(c) : c \in Threads}]

==============================================================================
