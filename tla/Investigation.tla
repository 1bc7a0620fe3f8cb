---------------------------- MODULE Investigation ----------------------------
(***************************************************************************)
(* One organisation's investigations: the handlers of POST /investigations *)
(* (app/agent/investigation.py: run_investigation) and of                  *)
(* POST /approvals/{id}/decide (app/routers/approvals.py, which ends in    *)
(* resume_investigation_with_decision), the LangGraph run inside them, the *)
(* checkpoint of each conversation thread, and the cases, approvals and    *)
(* traces they write to Postgres.                                          *)
(*                                                                         *)
(* A handler is a coroutine of one worker process.  The code between two   *)
(* awaits is one action, except that a crash may fall between two          *)
(* commits; a handler that is between two such commits holds the worker's  *)
(* event loop, so no other handler of that worker runs.                    *)
(***************************************************************************)
EXTENDS Integers, FiniteSets, FiniteSetsExt

CONSTANTS
    Threads,      \* LangGraph thread ids
    Requests,     \* HTTP requests; an approval and a trace carry the id of
                  \* the request whose handler wrote them
    Workers,      \* server processes
    WorkerOf,     \* the process that serves each request
    Replies,      \* Replies[t]: what the model may answer on thread t
    StepLimit,    \* recursion_limit: node executions of one graph.ainvoke()
    Reposts,      \* when clients POST a thread_id again: see MayPost
    MaxCrashes,   \* bound on process crashes
    NoThread, NoRequest

\* What the tool calls of one model answer do, apart from asking for approval:
\* "lookup" is any read-only tool, the last three are update_case(status).
Doings == {"nothing", "lookup", "create", "open", "in_review", "closed"}

Updates == {"open", "in_review", "closed"}

\* One AIMessage: what its tool calls do, whether one of them is
\* request_human_approval, and the case (by its thread) they name.
Message ==
    {m \in [does : Doings, asks : BOOLEAN, about : Threads \cup {NoThread}] :
       m.asks \/ m.does \in Updates => m.about \in Threads}

NoMessage == [does |-> "nothing", asks |-> FALSE, about |-> NoThread]

\* No tool calls: tools_condition routes the message to END.
IsFinal(m) == m.does = "nothing" /\ ~m.asks

ASSUME ConstantsAssumption ==
    /\ NoThread \notin Threads
    /\ NoRequest \notin Requests
    /\ WorkerOf \in [Requests -> Workers]
    /\ Replies \in [Threads -> SUBSET Message]
    /\ StepLimit \in Nat \ {0}
    /\ Reposts \in {"never", "lost", "idle", "any"}
    /\ MaxCrashes \in Nat

\* A value for Command(resume=...): the reviewer's verdict, and the approval
\* whose decide request carries it.
NoAnswer == [by |-> NoRequest, approved |-> FALSE]
Answer == [by : Requests, approved : BOOLEAN] \cup {NoAnswer}

\* A verdict in the conversation: the ToolMessage that answers the ask made
\* at the thread's ask-th model turn.
Verdict == [ask : Nat, by : Requests, approved : BOOLEAN]

\* The state of one thread's graph, in memory or as a checkpoint: the node
\* that runs next, the last AIMessage, the number of AIMessages, the
\* verdicts, and a resume value not consumed yet (a checkpoint's pending
\* RESUME write).
Conversation == [at : {"none", "agent", "tools", "end"}, msg : Message,
                 turns : Nat, heard : SUBSET Verdict, answer : Answer]
Blank == [at |-> "none", msg |-> NoMessage, turns |-> 0, heard |-> {},
          answer |-> NoAnswer]

Job == [kind : {"none", "run", "decide"}, thread : Threads \cup {NoThread},
        approval : Requests \cup {NoRequest}, approved : BOOLEAN]
NoJob == [kind |-> "none", thread |-> NoThread, approval |-> NoRequest,
          approved |-> FALSE]

Case == [status : {"none", "open", "in_review", "closed"}, pending : BOOLEAN]
Approval == [status : {"none", "pending", "approved", "rejected"},
             thread : Threads \cup {NoThread}, case : Threads \cup {NoThread},
             ask : Nat]
TraceRow == [status : {"none", "success", "error"}, turns : Nat]

NothingSeen == [empty |-> TRUE, turns |-> 0]

Ended == {"done", "refused", "failed", "lost"}
Steps == {"idle", "commit", "begin", "invoke", "step", "paused", "trace",
          "record", "except"} \cup Ended

VARIABLES
    pc,         \* where each request's handler is
    job,        \* what each request asks for
    mem,        \* the graph state a handler's ainvoke() holds
    dirty,      \* mem has a change the checkpointer has not written yet
    left,       \* node executions ainvoke() has left
    pre,        \* pre_call_messages: none at all?  how many model turns?
    session,    \* a handler's Session: "broken" once a flush has failed
    loop,       \* the handler that holds a worker's event loop
    cp,         \* the latest checkpoint of each thread
    cases,      \* the case of each thread (cases.thread_id is unique)
    approvals,  \* case_approvals rows
    traces,     \* traces rows
    crashes,    \* history: crashes so far
    spent       \* history: answers the model has given on each thread

handlers == <<job, mem, dirty, left, pre, session>>
database == <<cases, approvals, traces>>
history == <<crashes, spent>>
vars == <<pc, handlers, loop, cp, database, history>>

Init ==
    /\ pc = [r \in Requests |-> "idle"]
    /\ job = [r \in Requests |-> NoJob]
    /\ mem = [r \in Requests |-> Blank]
    /\ dirty = [r \in Requests |-> FALSE]
    /\ left = [r \in Requests |-> 0]
    /\ pre = [r \in Requests |-> NothingSeen]
    /\ session = [r \in Requests |-> "ok"]
    /\ loop = [w \in Workers |-> NoRequest]
    /\ cp = [t \in Threads |-> Blank]
    /\ cases = [t \in Threads |-> [status |-> "none", pending |-> FALSE]]
    /\ approvals = [r \in Requests |-> [status |-> "none", thread |-> NoThread,
                                        case |-> NoThread, ask |-> 0]]
    /\ traces = [r \in Requests |-> [status |-> "none", turns |-> 0]]
    /\ crashes = 0
    /\ spent = [t \in Threads |-> 0]

LoopIsFree(r) == loop[WorkerOf[r]] = NoRequest
Thread(r) == job[r].thread
Running == {r \in Requests : pc[r] \notin Ended \cup {"idle"}}
Live(t) == {r \in Running : Thread(r) = t}
PendingOn(t) == {a \in Requests : approvals[a].status = "pending" /\ approvals[a].thread = t}
CaseExists(t) == t \in Threads /\ cases[t].status # "none"

------------------------------------------------------------------------------
(* Requests arrive *)

\* "never": one POST per thread.  "lost": a client POSTs a thread_id again
\* only when its call on the thread has ended and nothing waits for a
\* reviewer.  "idle": as soon as its call has ended.  "any": whenever it
\* likes.
MayPost(t) ==
    CASE Reposts = "never" -> \A r \in Requests : Thread(r) # t
      [] Reposts = "lost"  -> Live(t) = {} /\ PendingOn(t) = {}
      [] Reposts = "idle"  -> Live(t) = {}
      [] OTHER -> TRUE

Post(r, t) ==
    /\ pc[r] = "idle"
    /\ MayPost(t)
    /\ pc' = [pc EXCEPT ![r] = "begin"]
    /\ job' = [job EXCEPT ![r] = [kind |-> "run", thread |-> t,
                                  approval |-> NoRequest, approved |-> FALSE]]
    /\ UNCHANGED <<mem, dirty, left, pre, session, loop, cp, database, history>>

\* Mutant: decide_approval checks that the row exists, not that it is pending.
DecidableIfKnown(a) == approvals[a].status # "none"

Decidable(a) == approvals[a].status = "pending"

\* The thread a decision resumes.
Resumed(a) == approvals[a].thread

\* decide_approval up to the status check: an unknown approval is a 404 and
\* one already decided a 409.  There is no await from here to the commit.
Decide(r, a, approved) ==
    /\ pc[r] = "idle"
    /\ LoopIsFree(r)
    /\ job' = [job EXCEPT ![r] = [kind |-> "decide", thread |-> Resumed(a),
                                  approval |-> a, approved |-> approved]]
    /\ IF Decidable(a)
         THEN /\ pc' = [pc EXCEPT ![r] = "commit"]
              /\ loop' = [loop EXCEPT ![WorkerOf[r]] = r]
         ELSE /\ pc' = [pc EXCEPT ![r] = "refused"]
              /\ UNCHANGED loop
    /\ UNCHANGED <<mem, dirty, left, pre, session, cp, database, history>>

\* Mutants: the row stays pending; the verdict is inverted.
ResolveForgotten(a, approved) == approvals
ResolveInverted(a, approved) ==
    [approvals EXCEPT ![a].status = IF approved THEN "rejected" ELSE "approved"]

Resolve(a, approved) ==
    [approvals EXCEPT ![a].status = IF approved THEN "approved" ELSE "rejected"]

\* Mutant: the case keeps its pending action.
ClearForgotten(c) == cases

ClearPending(c) == [cases EXCEPT ![c].pending = FALSE]

\* Mutant: the decision is stored and nothing is resumed.
CommitAndReturn(r) == "done"

\* resume_investigation_with_decision starts with an assertion: the thread
\* has a case.
Resume(r) == IF CaseExists(Thread(r)) THEN "begin" ELSE "failed"

FreeLoop(r) == [loop EXCEPT ![WorkerOf[r]] = NoRequest]

\* resolve() and clear_pending_approval() in one transaction.
Commit(r) ==
    /\ pc[r] = "commit"
    /\ approvals' = Resolve(job[r].approval, job[r].approved)
    /\ cases' = ClearPending(approvals[job[r].approval].case)
    /\ pc' = [pc EXCEPT ![r] = Resume(r)]
    /\ loop' = FreeLoop(r)
    /\ UNCHANGED <<handlers, cp, traces, history>>

------------------------------------------------------------------------------
(* The graph run *)

\* graph.aget_state(config): pre_call_messages.
Begin(r) ==
    /\ pc[r] = "begin"
    /\ LoopIsFree(r)
    /\ pre' = [pre EXCEPT ![r] = [empty |-> cp[Thread(r)].at = "none",
                                  turns |-> cp[Thread(r)].turns]]
    /\ pc' = [pc EXCEPT ![r] = "invoke"]
    /\ UNCHANGED <<job, mem, dirty, left, session, loop, cp, database, history>>

\* graph.ainvoke(): a decide passes Command(resume=decision), a run passes
\* the initial state when it saw no messages and None otherwise.  The
\* checkpoint it starts from is read again here.
Invoke(r) ==
    LET t == Thread(r) IN
    /\ pc[r] = "invoke"
    /\ LoopIsFree(r)
    /\ \/ /\ job[r].kind = "decide"
          /\ mem' = [mem EXCEPT ![r] = [cp[t] EXCEPT !.answer =
                       [by |-> job[r].approval, approved |-> job[r].approved]]]
          /\ dirty' = [dirty EXCEPT ![r] = TRUE]
       \/ /\ job[r].kind = "run" /\ pre[r].empty
          /\ mem' = [mem EXCEPT ![r] = [cp[t] EXCEPT !.at = "agent",
                       !.msg = NoMessage, !.answer = NoAnswer]]
          /\ dirty' = [dirty EXCEPT ![r] = TRUE]
       \/ /\ job[r].kind = "run" /\ ~pre[r].empty
          /\ mem' = [mem EXCEPT ![r] = cp[t]]
          /\ UNCHANGED dirty
    /\ left' = [left EXCEPT ![r] = StepLimit]
    /\ pc' = [pc EXCEPT ![r] = "step"]
    /\ UNCHANGED <<job, pre, session, loop, cp, database, history>>

\* The checkpointer writes in the background: any time after a step, and at
\* the latest before ainvoke() returns or raises.
Save(r) ==
    /\ pc[r] \in {"step", "paused", "except"}
    /\ LoopIsFree(r)
    /\ dirty[r]
    /\ cp' = [cp EXCEPT ![Thread(r)] = mem[r]]
    /\ dirty' = [dirty EXCEPT ![r] = FALSE]
    /\ UNCHANGED <<pc, job, mem, left, pre, session, loop, database, history>>

\* Mutant: no recursion_limit.
Unlimited(r) == TRUE

MayStep(r) == left[r] > 0

\* Mutant: the resume value stays for the next ask.
AnswerKept(r) == mem[r].answer

\* A resume value serves the first step after it only.
AnswerLeft(r) == NoAnswer

Stepping(r, node) ==
    /\ pc[r] = "step"
    /\ LoopIsFree(r)
    /\ mem[r].at = node
    /\ MayStep(r)

\* agent_node: the model answers, and its answer joins the messages.
AgentTurn(r) ==
    /\ Stepping(r, "agent")
    /\ \E m \in Replies[Thread(r)] :
         mem' = [mem EXCEPT ![r] = [mem[r] EXCEPT
                   !.at = IF IsFinal(m) THEN "end" ELSE "tools",
                   !.msg = m, !.turns = @ + 1, !.answer = AnswerLeft(r)]]
    /\ left' = [left EXCEPT ![r] = @ - 1]
    /\ dirty' = [dirty EXCEPT ![r] = TRUE]
    /\ spent' = [spent EXCEPT ![Thread(r)] = @ + 1]
    /\ UNCHANGED <<pc, job, pre, session, loop, cp, database, crashes>>

\* The commit of the message's case write, when it has one that can succeed.
WriteTarget(r) == IF mem[r].msg.does = "create" THEN Thread(r) ELSE mem[r].msg.about
Writes(r) ==
    /\ session[r] = "ok"
    /\ mem[r].msg.does \in {"create"} \cup Updates
    /\ mem[r].msg.does = "create" <=> ~CaseExists(WriteTarget(r))
Written(r) ==
    [cases EXCEPT ![WriteTarget(r)].status =
       IF mem[r].msg.does = "create" THEN "open" ELSE mem[r].msg.does]

\* create_case flushes a row with an account or a user that does not exist (the
\* model names them), or a second one with the thread's unique thread_id: the
\* flush fails and the Session refuses all work until a rollback nobody does.
CreateFails(r) ==
    /\ mem[r].msg.does = "create"
    /\ session' = [session EXCEPT ![r] = "broken"]
    /\ UNCHANGED cases

WriteLands(r) ==
    \/ Writes(r) /\ cases' = Written(r) /\ UNCHANGED session
    \/ CreateFails(r)
    \/ ~Writes(r) /\ mem[r].msg.does # "create" /\ UNCHANGED <<cases, session>>

\* A sibling call of one that stopped the node may have written already.
MayLand(r) == WriteLands(r) \/ UNCHANGED <<cases, session>>

\* How far request_human_approval gets: it reads the case first, so it
\* reports an error when the case is missing or the Session is broken --
\* which a sibling create_case may do before or after that read.
AskOutcomes(r) ==
    LET m == mem[r].msg
        readable == session[r] = "ok" /\ CaseExists(m.about)
    IN  {o \in {"absent", "error", "interrupt"} :
           \/ o = "absent" /\ ~m.asks
           \/ o = "error" /\ m.asks /\ (~readable \/ m.does = "create")
           \/ o = "interrupt" /\ m.asks /\ readable}

\* The tool node completes: every tool call has its ToolMessage, a resume
\* value became the verdict interrupt() returned.
ToolsComplete(r) ==
    /\ Stepping(r, "tools")
    /\ \E ask \in AskOutcomes(r) :
         /\ ask = "interrupt" => mem[r].answer # NoAnswer
         /\ mem' = [mem EXCEPT ![r] = [mem[r] EXCEPT
                      !.at = "agent", !.msg = NoMessage, !.answer = AnswerLeft(r),
                      !.heard = IF ask = "interrupt"
                                  THEN @ \cup {[ask |-> mem[r].turns, by |-> mem[r].answer.by,
                                                approved |-> mem[r].answer.approved]}
                                  ELSE @]]
    /\ WriteLands(r)
    /\ left' = [left EXCEPT ![r] = @ - 1]
    /\ dirty' = [dirty EXCEPT ![r] = TRUE]
    /\ UNCHANGED <<pc, job, pre, loop, cp, approvals, traces, crashes, spent>>

\* interrupt() with no resume value raises GraphInterrupt: the node's result
\* is dropped.
Pause(r) ==
    /\ Stepping(r, "tools")
    /\ "interrupt" \in AskOutcomes(r)
    /\ mem[r].answer = NoAnswer
    /\ pc' = [pc EXCEPT ![r] = "paused"]
    /\ MayLand(r)
    /\ UNCHANGED <<job, mem, dirty, left, pre, loop, cp, approvals, traces, crashes, spent>>

\* A tool's database error that is not turned into a message leaves the node.
ToolsRaise(r) ==
    /\ Stepping(r, "tools")
    /\ \/ CreateFails(r)
       \/ session[r] = "broken" /\ UNCHANGED <<cases, session>>
    /\ pc' = [pc EXCEPT ![r] = "except"]
    /\ UNCHANGED <<job, mem, dirty, left, pre, loop, cp, approvals, traces, crashes, spent>>

\* GraphRecursionError
OutOfSteps(r) ==
    /\ pc[r] = "step"
    /\ LoopIsFree(r)
    /\ left[r] = 0 /\ mem[r].at # "end"
    /\ pc' = [pc EXCEPT ![r] = "except"]
    /\ UNCHANGED <<handlers, loop, cp, database, history>>

\* Any exception of the MCP session, the checkpointer or the model provider,
\* up to the end of the async with blocks.
Fails(r) ==
    /\ pc[r] \in {"begin", "invoke", "step", "paused"}
    /\ LoopIsFree(r)
    /\ pc' = [pc EXCEPT ![r] = "except"]
    /\ IF pc[r] = "step" /\ mem[r].at = "tools"
         THEN MayLand(r)
         ELSE UNCHANGED <<cases, session>>
    /\ UNCHANGED <<job, mem, dirty, left, pre, loop, cp, approvals, traces, crashes, spent>>

Flushed(r) == ~dirty[r]

\* Mutant: a paused run waits for its reviewer.
ReturnsAtEnd(r) ==
    /\ LoopIsFree(r)
    /\ pc[r] = "step" /\ mem[r].at = "end"
    /\ Flushed(r)
    /\ pc' = [pc EXCEPT ![r] = "trace"]
    /\ UNCHANGED <<handlers, loop, cp, database, history>>

\* ainvoke() returns: the run is over, or an interrupt paused it.
Return(r) ==
    /\ LoopIsFree(r)
    /\ \/ pc[r] = "step" /\ mem[r].at = "end"
       \/ pc[r] = "paused"
    /\ Flushed(r)
    /\ pc' = [pc EXCEPT ![r] = "trace"]
    /\ UNCHANGED <<handlers, loop, cp, database, history>>

------------------------------------------------------------------------------
(* What a handler records *)

\* Mutants: all model turns of the thread; the last one.
AllTurns(r) == mem[r].turns
LastTurn(r) == 1

\* The model turns of the messages after pre_call_messages.
NewTurns(r) == IF mem[r].turns > pre[r].turns THEN mem[r].turns - pre[r].turns ELSE 0

\* A handler's locals and its Session go when it ends.
Unwind(S) ==
    /\ mem' = [r \in Requests |-> IF r \in S THEN Blank ELSE mem[r]]
    /\ dirty' = [r \in Requests |-> r \notin S /\ dirty[r]]
    /\ left' = [r \in Requests |-> IF r \in S THEN 0 ELSE left[r]]
    /\ pre' = [r \in Requests |-> IF r \in S THEN NothingSeen ELSE pre[r]]
    /\ session' = [r \in Requests |-> IF r \in S THEN "ok" ELSE session[r]]

\* Mutant: resume_investigation_with_decision does not record a second pause.
OnlyRunsRecord(r) == session[r] = "ok" /\ mem[r].at = "tools" /\ job[r].kind = "run"

\* An interrupt in the result, and a Session that can store it.
RecordsPause(r) == session[r] = "ok" /\ mem[r].at = "tools"

\* _record_agent_trace() of a call that returned: the handler is done, goes
\* on to record a pause (there is no await before that commit, so it keeps
\* the loop), or dies on its broken Session.
TraceSuccess(r) ==
    /\ pc[r] = "trace"
    /\ LoopIsFree(r)
    /\ traces' = IF session[r] = "ok"
                   THEN [traces EXCEPT ![r] = [status |-> "success", turns |-> NewTurns(r)]]
                   ELSE traces
    /\ IF RecordsPause(r)
         THEN /\ pc' = [pc EXCEPT ![r] = "record"]
              /\ loop' = [loop EXCEPT ![WorkerOf[r]] = r]
              /\ UNCHANGED <<mem, dirty, left, pre, session>>
         ELSE /\ pc' = [pc EXCEPT ![r] = IF session[r] = "ok" THEN "done" ELSE "failed"]
              /\ Unwind({r})
              /\ UNCHANGED loop
    /\ UNCHANGED <<job, cp, cases, approvals, history>>

\* The except branch: post_call_messages = pre_call_messages, so the trace
\* has no new turns; the exception goes on to the client.
TraceFailure(r) ==
    /\ pc[r] = "except"
    /\ LoopIsFree(r)
    /\ Flushed(r)
    /\ traces' = IF session[r] = "ok"
                   THEN [traces EXCEPT ![r] = [status |-> "error", turns |-> 0]]
                   ELSE traces
    /\ pc' = [pc EXCEPT ![r] = "failed"]
    /\ Unwind({r})
    /\ UNCHANGED <<job, loop, cp, cases, approvals, history>>

\* _record_pending_approval(): set_pending_approval() and the new row in one
\* transaction.
Record(r) ==
    /\ pc[r] = "record"
    /\ cases' = [cases EXCEPT ![mem[r].msg.about] = [status |-> "in_review", pending |-> TRUE]]
    /\ approvals' = [approvals EXCEPT ![r] =
                       [status |-> "pending", thread |-> Thread(r),
                        case |-> mem[r].msg.about, ask |-> mem[r].turns]]
    /\ pc' = [pc EXCEPT ![r] = "done"]
    /\ loop' = FreeLoop(r)
    /\ Unwind({r})
    /\ UNCHANGED <<job, cp, traces, history>>

\* A worker process dies with its handlers and starts again.
Crash(w) ==
    LET dead == {r \in Running : WorkerOf[r] = w} IN
    /\ crashes < MaxCrashes
    /\ dead # {}
    /\ pc' = [r \in Requests |-> IF r \in dead THEN "lost" ELSE pc[r]]
    /\ loop' = [loop EXCEPT ![w] = NoRequest]
    /\ Unwind(dead)
    /\ crashes' = crashes + 1
    /\ UNCHANGED <<job, cp, database, spent>>

------------------------------------------------------------------------------
\* What a handler that is left alone does next.
Handler(r) ==
    \/ Commit(r) \/ Begin(r) \/ Invoke(r) \/ Save(r) \/ AgentTurn(r)
    \/ ToolsComplete(r) \/ Pause(r) \/ ToolsRaise(r) \/ OutOfSteps(r)
    \/ Return(r) \/ TraceSuccess(r) \/ TraceFailure(r) \/ Record(r)

Next ==
    \/ \E r \in Requests :
         \/ \E t \in Threads : Post(r, t)
         \/ \E a \in Requests, approved \in BOOLEAN : Decide(r, a, approved)
         \/ Handler(r)
         \/ Fails(r)
    \/ \E w \in Workers : Crash(w)

Spec == Init /\ [][Next]_vars

\* asyncio schedules every handler that can run, model calls return or
\* raise, and background writes happen.  Clients, errors and crashes are
\* under no obligation.
FairSpec == Spec /\ \A r \in Requests : WF_vars(Handler(r))

------------------------------------------------------------------------------
(* Properties *)

\* TYPE: every variable has its type.
TypeOK ==
    /\ pc \in [Requests -> Steps]
    /\ job \in [Requests -> Job]
    /\ mem \in [Requests -> Conversation]
    /\ dirty \in [Requests -> BOOLEAN]
    /\ left \in [Requests -> 0 .. StepLimit]
    /\ pre \in [Requests -> [empty : BOOLEAN, turns : Nat]]
    /\ session \in [Requests -> {"ok", "broken"}]
    /\ loop \in [Workers -> Requests \cup {NoRequest}]
    /\ cp \in [Threads -> Conversation]
    /\ cases \in [Threads -> Case]
    /\ approvals \in [Requests -> Approval]
    /\ traces \in [Requests -> TraceRow]
    /\ crashes \in Nat
    /\ spent \in [Threads -> Nat]

Decided(a) == approvals[a].status \in {"approved", "rejected"}

\* The row of approval by is one of thread t, and was decided that way.
Real(t, by, approved) ==
    /\ by \in Requests
    /\ approvals[by].thread = t
    /\ approvals[by].status = IF approved THEN "approved" ELSE "rejected"

\* Every verdict an agent hears, in a running handler or in a checkpoint, is
\* the recorded decision of an approval of its own thread: the decision
\* committed by decide_approval and the value interrupt() returned agree.
VerdictsAreReal ==
    /\ \A t \in Threads : \A h \in cp[t].heard : Real(t, h.by, h.approved)
    /\ \A r \in Requests : \A h \in mem[r].heard : Real(Thread(r), h.by, h.approved)

\* A decided approval never changes again: the 409 of decide_approval.
DecidedOnce ==
    [][\A a \in Requests : Decided(a) => approvals'[a] = approvals[a]]_vars

\* An approval a reviewer can decide is one the thread's checkpoint is really
\* paused at, on that case, with no verdict waiting to be used.
AwaitedApproval ==
    \A t \in Threads : \A a \in PendingOn(t) :
        /\ cp[t].at = "tools" /\ cp[t].msg.asks /\ cp[t].answer = NoAnswer
        /\ cp[t].turns = approvals[a].ask
        /\ cp[t].msg.about = approvals[a].case

\* _record_pending_approval "runs exactly once" for a pause: a thread never
\* waits for two reviewers.
OnePendingPerThread ==
    \A t \in Threads : Cardinality(PendingOn(t)) <= 1

\* cases.pending_approval_action and case_approvals say the same, and a case
\* that waits for a reviewer is in review.
CaseShowsItsApproval ==
    \A c \in Threads :
        LET waiting == \E a \in Requests :
                         approvals[a].status = "pending" /\ approvals[a].case = c
        IN  /\ cases[c].pending <=> waiting
            /\ waiting => cases[c].status = "in_review"

\* A thread that stopped at an ask can be decided: when every call on it
\* returned normally, its approval is listed.
PausedIsListed ==
    \A t \in Threads :
        (/\ Live(t) = {}
         /\ \A r \in Requests : Thread(r) = t => pc[r] \notin {"failed", "lost"}
         /\ cp[t].at = "tools")
        => PendingOn(t) # {}

\* TraceRepository.usage_by_thread: one investigation's full cost rollup.
UsageByThread(t) ==
    MapThenSumSet(LAMBDA r : traces[r].turns, {r \in Requests : Thread(r) = t})

\* No model turn is traced twice.
NoDoubleCount == \A t \in Threads : UsageByThread(t) <= spent[t]

\* When every call on a thread returned normally, its traces add up to what
\* the model was asked.
CleanRunsAddUp ==
    \A t \in Threads :
        (/\ Live(t) = {}
         /\ \A r \in Requests : Thread(r) = t => pc[r] \notin {"failed", "lost"})
        => UsageByThread(t) = spent[t]

\* The rollup is full: whatever its calls ended in, a thread no call is
\* running on has every model turn in a trace.
FullCostRollup ==
    \A t \in Threads :
        Live(t) = {} /\ crashes = 0 => UsageByThread(t) = spent[t]

\* A resume writes no case: the node that it enters has run before, so what its
\* tool calls write they write again.
NoRerun ==
    [][\A r \in Requests :
         ToolsComplete(r) /\ mem[r].answer # NoAnswer => UNCHANGED cases]_vars

\* The assertion resume_investigation_with_decision starts with never fails.
ResumeFindsCase ==
    [][\A r \in Requests : Commit(r) => pc'[r] = "begin"]_vars

\* Every call ends: the recursion limit, the checkpoint writes and the event
\* loop never leave a handler waiting for ever.
HandlersEnd == <>[](Running = {})

\* The thread hears a committed decision, and does not forget it, unless the
\* call that carries it fails.
DecisionIsHeard ==
    <>[](\A a \in Requests :
           Decided(a) =>
             \/ \E t \in Threads : \E h \in cp[t].heard : h.by = a
             \/ \E r \in Requests : job[r].approval = a /\ pc[r] \in {"failed", "lost"})

\* ... and a decision the reviewer was shown as committed always reaches the
\* ask it was made for.
EveryDecisionIsHeard ==
    \A a \in Requests :
        Decided(a) ~> \E t \in Threads : \E h \in cp[t].heard : h.by = a

\* The promise of the approval flow, over the durable state: the rows in
\* Postgres and the verdicts in the checkpoints.
Gate == INSTANCE ApprovalGate WITH
    Approvals <- Requests,
    Asks <- Nat,
    row <- [a \in Requests |-> [status |-> approvals[a].status,
                                thread |-> approvals[a].thread,
                                ask |-> approvals[a].ask]],
    told <- [t \in Threads |-> cp[t].heard]

\* REFINEMENT: the handlers, their checkpoints and their crashes implement the
\* approval flow of ApprovalGate.
ImplementsGate == Gate!Spec

==============================================================================
