-------------------------- MODULE InvestigationProofs --------------------------
(***************************************************************************)
(* Proofs about Investigation, for any threads, requests, processes,       *)
(* model answers, client behaviour and number of crashes.                  *)
(***************************************************************************)
EXTENDS Investigation, FiniteSetTheorems, WellFoundedInduction, TLAPS

Active == Steps \ (Ended \cup {"idle"})

\* A handler that has started works on a thread, a decide request on an
\* approval that exists.
JobsOK ==
    \A r \in Requests :
        /\ pc[r] \in Active => job[r].thread \in Threads
        /\ job[r].kind = "decide" => job[r].approval \in Requests
        /\ pc[r] = "commit" => job[r].kind = "decide"
        /\ pc[r] = "commit" => approvals[job[r].approval].status # "none"

\* A pause is a pause at an ask.
PausesOK ==
    \A r \in Requests :
        /\ pc[r] \in {"paused", "record"} => mem[r].at = "tools"
        /\ pc[r] \in {"paused", "trace", "record"} /\ mem[r].at = "tools" => mem[r].msg.asks

\* A row names its thread and its case.
RowsOK ==
    \A a \in Requests :
        approvals[a].status # "none" =>
            approvals[a].thread \in Threads /\ approvals[a].case \in Threads

WellFormed == JobsOK /\ PausesOK /\ RowsOK

TypeInv == TypeOK /\ WellFormed

LEMMA BlankType ==
    /\ Blank \in Conversation
    /\ NoJob \in Job
    /\ NothingSeen \in [empty : BOOLEAN, turns : Nat]
    /\ NoMessage \in Message
    /\ NoAnswer \in Answer
  BY DEF Blank, Conversation, NoMessage, Message, Doings, Updates, NoAnswer, Answer,
     NothingSeen, NoJob, Job

LEMMA InitType == Init => TypeInv
<1> SUFFICES ASSUME Init PROVE TypeInv
  OBVIOUS
<1>1. TypeOK
  <2>1. /\ pc \in [Requests -> Steps] /\ job \in [Requests -> Job]
        /\ mem \in [Requests -> Conversation] /\ dirty \in [Requests -> BOOLEAN]
        /\ left \in [Requests -> 0 .. StepLimit]
        /\ pre \in [Requests -> [empty : BOOLEAN, turns : Nat]]
        /\ session \in [Requests -> {"ok", "broken"}]
    BY BlankType, ConstantsAssumption DEF Init, Steps
  <2>2. /\ loop \in [Workers -> Requests \cup {NoRequest}]
        /\ cp \in [Threads -> Conversation]
        /\ cases \in [Threads -> Case]
    BY BlankType DEF Init, Case
  <2>3. approvals \in [Requests -> Approval]
    BY DEF Init, Approval
  <2>4. traces \in [Requests -> TraceRow]
    BY DEF Init, TraceRow
  <2>5. crashes \in Nat /\ spent \in [Threads -> Nat]
    BY DEF Init
  <2> QED BY <2>1, <2>2, <2>3, <2>4, <2>5 DEF TypeOK
<1>2. WellFormed
  BY DEF Init, WellFormed, JobsOK, PausesOK, RowsOK, Active, Steps, Ended, NoJob, Blank
<1> QED BY <1>1, <1>2 DEF TypeInv

LEMMA UnwindType ==
    ASSUME TypeOK, NEW S \in SUBSET Requests, Unwind(S)
    PROVE  /\ mem' \in [Requests -> Conversation]
           /\ dirty' \in [Requests -> BOOLEAN]
           /\ left' \in [Requests -> 0 .. StepLimit]
           /\ pre' \in [Requests -> [empty : BOOLEAN, turns : Nat]]
           /\ session' \in [Requests -> {"ok", "broken"}]
<1>3. 0 \in 0 .. StepLimit
  BY ConstantsAssumption
<1>4. QED BY <1>3, BlankType DEF TypeOK, Unwind

LEMMA WriteLandsType ==
    ASSUME TypeInv, NEW r \in Requests, MayLand(r), pc[r] = "step"
    PROVE  /\ cases' \in [Threads -> Case]
           /\ session' \in [Requests -> {"ok", "broken"}]
<1>1. CASE UNCHANGED <<cases, session>>
  BY <1>1 DEF TypeInv, TypeOK
<1>2. CASE Writes(r) /\ cases' = Written(r) /\ UNCHANGED session
  <2> DEFINE status == IF mem[r].msg.does = "create" THEN "open" ELSE mem[r].msg.does
  <2>1. status \in {"none", "open", "in_review", "closed"}
    BY <1>2 DEF Writes, Updates
  <2>2. cases' = [cases EXCEPT ![WriteTarget(r)].status = status]
    BY <1>2 DEF Written
  <2> HIDE DEF status
  <2> QED BY <1>2, <2>1, <2>2 DEF TypeInv, TypeOK, Case
<1>3. CASE CreateFails(r)
  BY <1>3 DEF CreateFails, TypeInv, TypeOK
<1> QED BY <1>1, <1>2, <1>3 DEF MayLand, WriteLands

LEMMA StepType == TypeInv /\ [Next]_vars => TypeOK'
<1> SUFFICES ASSUME TypeInv, [Next]_vars PROVE TypeOK'
  OBVIOUS
<1> USE ConstantsAssumption
<1> USE DEF TypeInv, handlers, database, history
<1>1. ASSUME NEW r \in Requests, NEW t \in Threads, Post(r, t) PROVE TypeOK'
  BY <1>1 DEF Post, TypeOK, Steps, Job
<1>2. ASSUME NEW r \in Requests, NEW a \in Requests, NEW v \in BOOLEAN, Decide(r, a, v)
      PROVE  TypeOK'
  <2>1. approvals[a].thread \in Threads \cup {NoThread}
    BY DEF TypeOK, Approval
  <2>2. job' \in [Requests -> Job]
    BY <1>2, <2>1 DEF Decide, TypeOK, Job, Resumed
  <2>3. pc' \in [Requests -> Steps] /\ loop' \in [Workers -> Requests \cup {NoRequest}]
    <3>1. pc' \in {[pc EXCEPT ![r] = "commit"], [pc EXCEPT ![r] = "refused"]}
      BY <1>2 DEF Decide
    <3>2. loop' \in {loop, [loop EXCEPT ![WorkerOf[r]] = r]}
      BY <1>2 DEF Decide
    <3>3. pc' \in [Requests -> Steps]
      BY <3>1 DEF TypeOK, Steps, Ended
    <3>4. loop' \in [Workers -> Requests \cup {NoRequest}]
      BY <3>2 DEF TypeOK
    <3> QED BY <3>3, <3>4
  <2> QED BY <1>2, <2>2, <2>3 DEF Decide, TypeOK
<1>3. ASSUME NEW r \in Requests, Commit(r) PROVE TypeOK'
  <2>1. approvals' \in [Requests -> Approval]
    <3> DEFINE status == IF job[r].approved THEN "approved" ELSE "rejected"
    <3>1. status \in {"none", "pending", "approved", "rejected"}
      OBVIOUS
    <3>2. approvals' = [approvals EXCEPT ![job[r].approval].status = status]
      BY <1>3 DEF Commit, Resolve
    <3> HIDE DEF status
    <3>3. \A b \in Requests : [approvals[b] EXCEPT !.status = status] \in Approval
      <4> TAKE b \in Requests
      <4>1. approvals[b] \in Approval
        BY DEF TypeOK
      <4>2. [approvals[b] EXCEPT !.status = status] =
              [status |-> status, thread |-> approvals[b].thread,
               case |-> approvals[b].case, ask |-> approvals[b].ask]
        BY <4>1 DEF Approval
      <4> QED BY <3>1, <4>1, <4>2 DEF Approval
    <3> QED BY <3>2, <3>3 DEF TypeOK
  <2>2. cases' \in [Threads -> Case]
    BY <1>3 DEF Commit, ClearPending, TypeOK, Case
  <2>3. pc' \in [Requests -> Steps] /\ loop' \in [Workers -> Requests \cup {NoRequest}]
    BY <1>3 DEF Commit, Resume, FreeLoop, TypeOK, Steps, Ended
  <2> QED BY <1>3, <2>1, <2>2, <2>3 DEF Commit, TypeOK
<1>4. ASSUME NEW r \in Requests, Begin(r) PROVE TypeOK'
  <2>1. cp[Thread(r)] \in Conversation
    BY <1>4 DEF Begin, TypeOK, WellFormed, JobsOK, PausesOK, RowsOK, Active, Thread, Steps, Ended
  <2> QED BY <1>4, <2>1 DEF Begin, TypeOK, Steps, Conversation
<1>5. ASSUME NEW r \in Requests, Invoke(r) PROVE TypeOK'
  <2>1. cp[Thread(r)] \in Conversation
    BY <1>5 DEF Invoke, TypeOK, WellFormed, JobsOK, PausesOK, RowsOK, Active, Thread, Steps, Ended
  <2>2. mem' \in [Requests -> Conversation]
    <3> DEFINE t == Thread(r)
               answer == [by |-> job[r].approval, approved |-> job[r].approved]
    <3>1. CASE job[r].kind = "decide"
      <4>1. answer \in Answer
        BY <3>1 DEF TypeOK, WellFormed, JobsOK, PausesOK, RowsOK, Active, Job, Answer
      <4>2. mem' = [mem EXCEPT ![r] = [cp[t] EXCEPT !.answer = answer]]
        BY <1>5, <3>1 DEF Invoke
      <4> HIDE DEF answer, t
      <4>3. [cp[t] EXCEPT !.answer = answer] \in Conversation
        BY <2>1, <4>1 DEF Conversation, t
      <4> QED BY <4>2, <4>3 DEF TypeOK
    <3>2. CASE job[r].kind = "run" /\ pre[r].empty
      <4>1. mem' = [mem EXCEPT ![r] = [cp[t] EXCEPT !.at = "agent", !.msg = NoMessage,
                                                   !.answer = NoAnswer]]
        BY <1>5, <3>2 DEF Invoke
      <4> HIDE DEF t
      <4>2. [cp[t] EXCEPT !.at = "agent", !.msg = NoMessage, !.answer = NoAnswer] \in Conversation
        BY <2>1, BlankType DEF Conversation, t
      <4> QED BY <4>1, <4>2 DEF TypeOK
    <3>3. CASE job[r].kind = "run" /\ ~pre[r].empty
      BY <1>5, <2>1, <3>3 DEF Invoke, TypeOK
    <3> QED BY <1>5, <3>1, <3>2, <3>3 DEF Invoke
  <2>3. dirty' \in [Requests -> BOOLEAN] /\ left' \in [Requests -> 0 .. StepLimit]
    <3>1. dirty' = dirty \/ dirty' = [dirty EXCEPT ![r] = TRUE]
      BY <1>5 DEF Invoke
    <3>2. left' = [left EXCEPT ![r] = StepLimit] /\ StepLimit \in 0 .. StepLimit
      BY <1>5 DEF Invoke
    <3> QED BY <3>1, <3>2 DEF TypeOK
  <2>4. pc' \in [Requests -> Steps]
    BY <1>5 DEF Invoke, TypeOK, Steps
  <2> QED BY <1>5, <2>2, <2>3, <2>4 DEF Invoke, TypeOK
<1>6. ASSUME NEW r \in Requests, Save(r) PROVE TypeOK'
  BY <1>6 DEF Save, TypeOK
<1>7. ASSUME NEW r \in Requests, AgentTurn(r) PROVE TypeOK'
  <2>1. Thread(r) \in Threads /\ mem[r] \in Conversation /\ left[r] \in 1 .. StepLimit
    <3>1. pc[r] = "step" /\ left[r] > 0
      BY <1>7 DEF AgentTurn, Stepping, MayStep
    <3>2. job[r].thread \in Threads
      BY <3>1 DEF WellFormed, JobsOK, PausesOK, RowsOK, Active, Steps, Ended
    <3>3. left[r] \in 1 .. StepLimit
      BY <3>1 DEF TypeOK
    <3> QED BY <3>2, <3>3 DEF TypeOK, Thread
  <2>2. mem' \in [Requests -> Conversation]
    <3>1. PICK m \in Replies[Thread(r)] :
         mem' = [mem EXCEPT ![r] = [mem[r] EXCEPT
                   !.at = IF IsFinal(m) THEN "end" ELSE "tools",
                   !.msg = m, !.turns = @ + 1, !.answer = AnswerLeft(r)]]
      BY <1>7 DEF AgentTurn
    <3>2. m \in Message
      BY <2>1
    <3> DEFINE at == IF IsFinal(m) THEN "end" ELSE "tools"
               new == [mem[r] EXCEPT !.at = at, !.msg = m, !.turns = @ + 1, !.answer = NoAnswer]
    <3>3. at \in {"none", "agent", "tools", "end"}
      OBVIOUS
    <3>4. mem' = [mem EXCEPT ![r] = new]
      BY <3>1 DEF AnswerLeft
    <3> HIDE DEF at
    <3>5. new \in Conversation
      <4>1. mem[r].turns + 1 \in Nat
        BY <2>1 DEF Conversation
      <4> QED BY <2>1, <3>2, <3>3, <4>1, BlankType DEF Conversation
    <3> QED BY <3>4, <3>5 DEF TypeOK
  <2>3. spent' \in [Threads -> Nat]
    BY <1>7, <2>1 DEF AgentTurn, TypeOK
  <2> QED BY <1>7, <2>1, <2>2, <2>3 DEF AgentTurn, TypeOK
<1>8. ASSUME NEW r \in Requests, ToolsComplete(r) PROVE TypeOK'
  <2>1. mem[r] \in Conversation /\ left[r] \in 1 .. StepLimit /\ pc[r] = "step"
    BY <1>8 DEF ToolsComplete, Stepping, MayStep, TypeOK
  <2>2. mem' \in [Requests -> Conversation]
    <3>1. PICK ask \in AskOutcomes(r) :
           /\ ask = "interrupt" => mem[r].answer # NoAnswer
           /\ mem' = [mem EXCEPT ![r] = [mem[r] EXCEPT
                      !.at = "agent", !.msg = NoMessage, !.answer = AnswerLeft(r),
                      !.heard = IF ask = "interrupt"
                                  THEN @ \cup {[ask |-> mem[r].turns, by |-> mem[r].answer.by,
                                                approved |-> mem[r].answer.approved]}
                                  ELSE @]]
      BY <1>8 DEF ToolsComplete
    <3>2. mem[r].answer # NoAnswer =>
            [ask |-> mem[r].turns, by |-> mem[r].answer.by, approved |-> mem[r].answer.approved] \in Verdict
      BY <2>1 DEF Conversation, Answer, Verdict
    <3> DEFINE heard == IF ask = "interrupt"
                          THEN mem[r].heard \cup {[ask |-> mem[r].turns, by |-> mem[r].answer.by,
                                                   approved |-> mem[r].answer.approved]}
                          ELSE mem[r].heard
               new == [mem[r] EXCEPT !.at = "agent", !.msg = NoMessage, !.answer = NoAnswer,
                                     !.heard = heard]
    <3>3. heard \in SUBSET Verdict
      BY <2>1, <3>1, <3>2 DEF Conversation
    <3>4. mem' = [mem EXCEPT ![r] = new]
      BY <3>1 DEF AnswerLeft
    <3> HIDE DEF heard
    <3>5. new \in Conversation
      BY <2>1, <3>3, BlankType DEF Conversation
    <3> QED BY <3>4, <3>5 DEF TypeOK
  <2> QED BY <1>8, <2>1, <2>2, WriteLandsType DEF ToolsComplete, TypeOK, MayLand
<1>9. ASSUME NEW r \in Requests, Pause(r) PROVE TypeOK'
  BY <1>9, WriteLandsType DEF Pause, Stepping, TypeOK, Steps
<1>10. ASSUME NEW r \in Requests, ToolsRaise(r) PROVE TypeOK'
  BY <1>10, WriteLandsType DEF ToolsRaise, Stepping, TypeOK, Steps, MayLand, WriteLands
<1>11. ASSUME NEW r \in Requests, OutOfSteps(r) PROVE TypeOK'
  BY <1>11 DEF OutOfSteps, TypeOK, Steps
<1>12. ASSUME NEW r \in Requests, Return(r) PROVE TypeOK'
  BY <1>12 DEF Return, TypeOK, Steps
<1>13. ASSUME NEW r \in Requests, TraceSuccess(r) PROVE TypeOK'
  <2>1. NewTurns(r) \in Nat
    BY DEF TypeOK, NewTurns, Conversation
  <2>2. traces' \in [Requests -> TraceRow]
    BY <1>13, <2>1 DEF TraceSuccess, TypeOK, TraceRow
  <2>3. pc' \in [Requests -> Steps] /\ loop' \in [Workers -> Requests \cup {NoRequest}]
    <3>1. pc' \in {[pc EXCEPT ![r] = "record"], [pc EXCEPT ![r] = "done"],
                   [pc EXCEPT ![r] = "failed"]}
      BY <1>13 DEF TraceSuccess
    <3>2. loop' \in {loop, [loop EXCEPT ![WorkerOf[r]] = r]}
      BY <1>13 DEF TraceSuccess
    <3>3. pc' \in [Requests -> Steps]
      BY <3>1 DEF TypeOK, Steps, Ended
    <3>4. loop' \in [Workers -> Requests \cup {NoRequest}]
      BY <3>2 DEF TypeOK
    <3> QED BY <3>3, <3>4
  <2>4. CASE RecordsPause(r)
    BY <1>13, <2>2, <2>3, <2>4 DEF TraceSuccess, TypeOK
  <2>5. CASE ~RecordsPause(r)
    BY <1>13, <2>2, <2>3, <2>5, UnwindType DEF TraceSuccess, TypeOK
  <2> QED BY <2>4, <2>5
<1>14. ASSUME NEW r \in Requests, TraceFailure(r) PROVE TypeOK'
  BY <1>14, UnwindType DEF TraceFailure, TypeOK, Steps, Ended, TraceRow
<1>15. ASSUME NEW r \in Requests, Record(r) PROVE TypeOK'
  <2>1. mem[r].turns \in Nat /\ mem[r].msg.about \in Threads /\ Thread(r) \in Threads
    BY <1>15 DEF Record, TypeOK, WellFormed, JobsOK, PausesOK, RowsOK, Active, Conversation, Message, Thread, Steps, Ended
  <2> QED BY <1>15, <2>1, UnwindType DEF Record, TypeOK, Steps, Ended, Approval, Case, FreeLoop
<1>16. ASSUME NEW r \in Requests, Fails(r) PROVE TypeOK'
  BY <1>16, WriteLandsType DEF Fails, TypeOK, Steps
<1>17. ASSUME NEW w \in Workers, Crash(w) PROVE TypeOK'
  BY <1>17, UnwindType DEF Crash, Running, TypeOK, Steps, Ended
<1>18. CASE UNCHANGED vars
  BY <1>18 DEF vars, TypeOK
<1> QED BY <1>1, <1>2, <1>3, <1>4, <1>5, <1>6, <1>7, <1>8, <1>9, <1>10, <1>11, <1>12,
           <1>13, <1>14, <1>15, <1>16, <1>17, <1>18 DEF Next, Handler

-------------------------------------------------------------------------------
(* What a handler's step leaves alone *)

LEMMA HandlerFrame ==
    ASSUME TypeInv, NEW r \in Requests, Handler(r) \/ Fails(r)
    PROVE  /\ job' = job
           /\ pc[r] \in Active
           /\ \A s \in Requests \ {r} : pc'[s] = pc[s] /\ mem'[s] = mem[s]
           /\ pc'[r] \in Steps \ {"idle", "commit"}
<1> USE DEF TypeInv, TypeOK, Active, Steps, Ended, handlers
<1>1. CASE Commit(r)
  BY <1>1 DEF Commit, Resume
<1>2. CASE Begin(r)
  BY <1>2 DEF Begin
<1>3. CASE Invoke(r)
  BY <1>3 DEF Invoke
<1>4. CASE Save(r)
  BY <1>4 DEF Save
<1>5. CASE AgentTurn(r)
  BY <1>5 DEF AgentTurn, Stepping
<1>6. CASE ToolsComplete(r)
  BY <1>6 DEF ToolsComplete, Stepping
<1>7. CASE Pause(r)
  BY <1>7 DEF Pause, Stepping
<1>8. CASE ToolsRaise(r)
  BY <1>8 DEF ToolsRaise, Stepping
<1>9. CASE OutOfSteps(r)
  BY <1>9 DEF OutOfSteps
<1>10. CASE Return(r)
  BY <1>10 DEF Return
<1>11. CASE TraceSuccess(r)
  BY <1>11 DEF TraceSuccess, Unwind
<1>12. CASE TraceFailure(r)
  BY <1>12 DEF TraceFailure, Unwind
<1>13. CASE Record(r)
  BY <1>13 DEF Record, Unwind
<1>14. CASE Fails(r)
  BY <1>14 DEF Fails
<1> QED BY <1>1, <1>2, <1>3, <1>4, <1>5, <1>6, <1>7, <1>8, <1>9, <1>10, <1>11, <1>12,
           <1>13, <1>14 DEF Handler

LEMMA ApprovalsFrame ==
    ASSUME NEW r \in Requests, Handler(r) \/ Fails(r)
    PROVE  approvals' = approvals \/ Commit(r) \/ Record(r)
  BY ZenonT(40) DEF Handler, Fails, Begin, Invoke, Save, AgentTurn, ToolsComplete, Pause, ToolsRaise,
     OutOfSteps, Return, TraceSuccess, TraceFailure, database

\* Commit decides the row it was asked to, and no other.
LEMMA CommitRow ==
    ASSUME TypeInv, NEW r \in Requests, Commit(r)
    PROVE  /\ job[r].approval \in Requests
           /\ \A b \in Requests \ {job[r].approval} : approvals'[b] = approvals[b]
           /\ approvals'[job[r].approval].status =
                IF job[r].approved THEN "approved" ELSE "rejected"
           /\ \A b \in Requests : /\ approvals'[b].thread = approvals[b].thread
                                  /\ approvals'[b].case = approvals[b].case
                                  /\ approvals'[b].ask = approvals[b].ask
<1>1. job[r].approval \in Requests
  BY DEF Commit, TypeInv, WellFormed, JobsOK
<1> DEFINE status == IF job[r].approved THEN "approved" ELSE "rejected"
<1>2. approvals' = [approvals EXCEPT ![job[r].approval].status = status]
  BY DEF Commit, Resolve
<1> HIDE DEF status
<1>3. approvals \in [Requests -> Approval]
  BY DEF TypeInv, TypeOK
<1>4. /\ \A b \in Requests \ {job[r].approval} : approvals'[b] = approvals[b]
      /\ approvals'[job[r].approval].status = status
      /\ approvals'[job[r].approval].thread = approvals[job[r].approval].thread
      /\ approvals'[job[r].approval].case = approvals[job[r].approval].case
      /\ approvals'[job[r].approval].ask = approvals[job[r].approval].ask
  BY <1>1, <1>2, <1>3 DEF Approval
<1> QED BY <1>1, <1>4 DEF status

LEMMA RecordRow ==
    ASSUME TypeInv, NEW r \in Requests, Record(r)
    PROVE  /\ \A b \in Requests \ {r} : approvals'[b] = approvals[b]
           /\ approvals'[r].status = "pending"
           /\ approvals'[r].thread = Thread(r)
           /\ approvals'[r].case = mem[r].msg.about
           /\ approvals'[r].ask = mem[r].turns
  BY DEF Record, TypeInv, TypeOK

------------------------------------------------------------------------------
(* Well-formedness is preserved *)

LEMMA JobsStep == TypeInv /\ [Next]_vars => JobsOK'
<1> SUFFICES ASSUME TypeInv, [Next]_vars PROVE JobsOK'
  OBVIOUS
<1> USE DEF TypeInv, WellFormed, JobsOK
<1>1. ASSUME NEW r \in Requests, NEW t \in Threads, Post(r, t) PROVE JobsOK'
  BY <1>1 DEF Post, TypeOK, Active, Steps, Ended, database
<1>2. ASSUME NEW r \in Requests, NEW a \in Requests, NEW v \in BOOLEAN, Decide(r, a, v)
      PROVE  JobsOK'
  BY <1>2 DEF Decide, Decidable, Resumed, RowsOK, TypeOK, Active, Steps, Ended, database
<1>3. ASSUME NEW r \in Requests, Handler(r) \/ Fails(r) PROVE JobsOK'
  <2>1. \A a \in Requests : approvals[a].status # "none" => approvals'[a].status # "none"
    <3>1. CASE approvals' = approvals
      BY <3>1
    <3>2. CASE Commit(r)
      BY <3>2, CommitRow
    <3>3. CASE Record(r)
      BY <3>3, RecordRow
    <3> QED BY <1>3, <3>1, <3>2, <3>3, ApprovalsFrame
  <2> QED BY <1>3, <2>1, HandlerFrame DEF Active
<1>4. ASSUME NEW w \in Workers, Crash(w) PROVE JobsOK'
  BY <1>4 DEF Crash, Running, TypeOK, Active, Steps, Ended, database
<1>5. CASE UNCHANGED vars
  BY <1>5 DEF vars, handlers, database
<1> QED BY <1>1, <1>2, <1>3, <1>4, <1>5 DEF Next

LEMMA RowsStep == TypeInv /\ [Next]_vars => RowsOK'
<1> SUFFICES ASSUME TypeInv, [Next]_vars PROVE RowsOK'
  OBVIOUS
<1> USE DEF TypeInv, WellFormed, RowsOK
<1>1. CASE approvals' = approvals
  BY <1>1
<1>2. ASSUME NEW r \in Requests, Commit(r) PROVE RowsOK'
  <2>1. approvals[job[r].approval].status # "none"
    BY <1>2 DEF Commit, JobsOK
  <2> QED BY <1>2, <2>1, CommitRow
<1>3. ASSUME NEW r \in Requests, Record(r) PROVE RowsOK'
  <2>1. Thread(r) \in Threads /\ mem[r].msg.about \in Threads
    BY <1>3 DEF Record, JobsOK, PausesOK, Active, Steps, Ended, Thread, TypeOK, Conversation, Message
  <2>2. approvals'[r].thread \in Threads /\ approvals'[r].case \in Threads
    BY <1>3, <2>1, RecordRow
  <2> QED BY <1>3, <2>2, RecordRow
<1> QED BY <1>1, <1>2, <1>3, ApprovalsFrame DEF Next, Post, Decide, Crash, vars, database

LEMMA PausesStep == TypeInv /\ [Next]_vars => PausesOK'
<1> SUFFICES ASSUME TypeInv, [Next]_vars PROVE PausesOK'
  OBVIOUS
<1> USE DEF TypeInv, WellFormed, PausesOK
<1>1. ASSUME NEW r \in Requests, NEW t \in Threads, Post(r, t) PROVE PausesOK'
  BY <1>1 DEF Post, TypeOK
<1>2. ASSUME NEW r \in Requests, NEW a \in Requests, NEW v \in BOOLEAN, Decide(r, a, v)
      PROVE  PausesOK'
  BY <1>2 DEF Decide, TypeOK
<1>3. ASSUME NEW r \in Requests, Handler(r) \/ Fails(r) PROVE PausesOK'
  <2> SUFFICES /\ pc'[r] \in {"paused", "record"} => mem'[r].at = "tools"
               /\ pc'[r] \in {"paused", "trace", "record"} /\ mem'[r].at = "tools" => mem'[r].msg.asks
    BY <1>3, HandlerFrame
  <2>1. CASE Pause(r)
    <3>1. mem[r].msg.asks
      BY <2>1 DEF Pause, AskOutcomes
    <3> QED BY <2>1, <3>1 DEF Pause, Stepping, TypeOK
  <2>2. CASE Return(r)
    BY <2>2 DEF Return, TypeOK, handlers
  <2>3. CASE TraceSuccess(r)
    BY <2>3 DEF TraceSuccess, RecordsPause, TypeOK
  <2>4. CASE Save(r)
    BY <2>4 DEF Save, TypeOK
  <2>5. CASE Commit(r) \/ Begin(r) \/ Invoke(r) \/ AgentTurn(r) \/ ToolsComplete(r)
             \/ ToolsRaise(r) \/ OutOfSteps(r) \/ TraceFailure(r) \/ Record(r) \/ Fails(r)
    BY <2>5 DEF Commit, Resume, Begin, Invoke, AgentTurn, ToolsComplete, Stepping, ToolsRaise,
       OutOfSteps, TraceFailure, Record, Fails, TypeOK
  <2> QED BY <1>3, <2>1, <2>2, <2>3, <2>4, <2>5 DEF Handler
<1>4. ASSUME NEW w \in Workers, Crash(w) PROVE PausesOK'
  BY <1>4 DEF Crash, Running, Unwind, TypeOK
<1>5. CASE UNCHANGED vars
  BY <1>5 DEF vars, handlers
<1> QED BY <1>1, <1>2, <1>3, <1>4, <1>5 DEF Next

\* Every variable keeps its type: TypeOK of the model's Postgres rows,
\* checkpoints and handlers.
THEOREM TypeCorrect == Spec => []TypeOK
<1>1. Init => TypeInv
  BY InitType
<1>2. TypeInv /\ [Next]_vars => TypeInv'
  BY StepType, JobsStep, RowsStep, PausesStep DEF TypeInv, WellFormed
<1>3. TypeInv => TypeOK
  BY DEF TypeInv
<1> QED BY <1>1, <1>2, <1>3, PTL DEF Spec

------------------------------------------------------------------------------
(* One server process, as the README runs it: a decision is made once, and  *)
(* the verdict an agent hears is the one recorded.                          *)

OneProcess == \A v, w \in Workers : v = w

\* Between decide_approval's check and its commit, and between the trace and
\* the approval of a pause, a handler has the event loop to itself.
HoldsLoop ==
    \A r \in Requests : pc[r] \in {"commit", "record"} => loop[WorkerOf[r]] = r

\* What decide_approval read is still so when it commits.
StillPending ==
    \A r \in Requests : pc[r] = "commit" =>
        /\ approvals[job[r].approval].status = "pending"
        /\ approvals[job[r].approval].thread = Thread(r)

\* The last thing a handler does is to record its approval.
RecordIsLast ==
    \A a \in Requests : approvals[a].status # "none" => pc[a] = "done"

\* A decision on its way to the agent is the committed one: in a decide
\* handler, as a resume value, in the conversation.
CarriedIsReal ==
    \A r \in Requests :
        job[r].kind = "decide" /\ pc[r] \in {"begin", "invoke"} =>
            Real(Thread(r), job[r].approval, job[r].approved)

AnswersAreReal ==
    /\ \A t \in Threads : cp[t].answer # NoAnswer =>
            Real(t, cp[t].answer.by, cp[t].answer.approved)
    /\ \A r \in Requests : mem[r].answer # NoAnswer =>
            Real(Thread(r), mem[r].answer.by, mem[r].answer.approved)

IdleIsBlank == \A r \in Requests : pc[r] = "idle" => mem[r] = Blank

SafeInv ==
    /\ TypeInv
    /\ HoldsLoop
    /\ StillPending
    /\ RecordIsLast
    /\ CarriedIsReal
    /\ AnswersAreReal
    /\ IdleIsBlank
    /\ VerdictsAreReal

LEMMA InitSafe == Init => SafeInv
<1> SUFFICES ASSUME Init PROVE SafeInv
  OBVIOUS
<1>1. TypeInv
  BY InitType
<1>2. HoldsLoop /\ StillPending /\ RecordIsLast /\ CarriedIsReal /\ IdleIsBlank
  BY DEF Init, HoldsLoop, StillPending, RecordIsLast, CarriedIsReal, IdleIsBlank
<1>3. AnswersAreReal /\ VerdictsAreReal
  BY DEF Init, Blank, AnswersAreReal, VerdictsAreReal
<1> QED BY <1>1, <1>2, <1>3 DEF SafeInv

LEMMA HoldsLoopStep == TypeInv /\ HoldsLoop /\ [Next]_vars => HoldsLoop'
<1> SUFFICES ASSUME TypeInv, HoldsLoop, [Next]_vars PROVE HoldsLoop'
  OBVIOUS
<1>0. /\ WorkerOf \in [Requests -> Workers] /\ NoRequest \notin Requests
      /\ pc \in [Requests -> Steps] /\ loop \in [Workers -> Requests \cup {NoRequest}]
  BY ConstantsAssumption DEF TypeInv, TypeOK
<1>1. ASSUME NEW r \in Requests, NEW t \in Threads, Post(r, t) PROVE HoldsLoop'
  BY <1>0, <1>1 DEF Post, HoldsLoop
<1>2. ASSUME NEW r \in Requests, NEW a \in Requests, NEW v \in BOOLEAN, Decide(r, a, v)
      PROVE  HoldsLoop'
  BY <1>0, <1>2 DEF Decide, LoopIsFree, HoldsLoop
<1>3. ASSUME NEW r \in Requests, Handler(r) \/ Fails(r) PROVE HoldsLoop'
  <2>1. CASE Commit(r)
    BY <1>0, <2>1 DEF Commit, Resume, FreeLoop, HoldsLoop
  <2>2. CASE Record(r)
    BY <1>0, <2>2 DEF Record, FreeLoop, HoldsLoop
  <2>3. CASE TraceSuccess(r)
    BY <1>0, <2>3 DEF TraceSuccess, LoopIsFree, HoldsLoop
  <2>4. CASE Begin(r) \/ Invoke(r) \/ Save(r) \/ AgentTurn(r) \/ ToolsComplete(r) \/ Pause(r)
             \/ ToolsRaise(r) \/ OutOfSteps(r) \/ Return(r) \/ TraceFailure(r) \/ Fails(r)
    BY ZenonT(40), <1>0, <2>4 DEF Begin, Invoke, Save, AgentTurn, ToolsComplete, Pause, ToolsRaise,
       OutOfSteps, Return, TraceFailure, Fails, HoldsLoop
  <2> QED BY <1>3, <2>1, <2>2, <2>3, <2>4 DEF Handler
<1>4. ASSUME NEW w \in Workers, Crash(w) PROVE HoldsLoop'
  BY <1>0, <1>4 DEF Crash, Running, Ended, HoldsLoop
<1>5. CASE UNCHANGED vars
  BY <1>5 DEF vars, HoldsLoop
<1> QED BY <1>1, <1>2, <1>3, <1>4, <1>5 DEF Next

LEMMA RecordIsLastStep == TypeInv /\ RecordIsLast /\ [Next]_vars => RecordIsLast'
<1> SUFFICES ASSUME TypeInv, RecordIsLast, [Next]_vars PROVE RecordIsLast'
  OBVIOUS
<1>0. pc \in [Requests -> Steps]
  BY DEF TypeInv, TypeOK
<1>1. ASSUME NEW r \in Requests, NEW t \in Threads, Post(r, t) PROVE RecordIsLast'
  BY <1>0, <1>1 DEF Post, RecordIsLast, database
<1>2. ASSUME NEW r \in Requests, NEW a \in Requests, NEW v \in BOOLEAN, Decide(r, a, v)
      PROVE  RecordIsLast'
  BY <1>0, <1>2 DEF Decide, RecordIsLast, database
<1>3. ASSUME NEW r \in Requests, Handler(r) \/ Fails(r) PROVE RecordIsLast'
  <2>0. /\ pc[r] # "done"
        /\ \A s \in Requests \ {r} : pc'[s] = pc[s]
    BY <1>3, HandlerFrame DEF Active, Steps, Ended
  <2>1. CASE approvals' = approvals
    BY <2>0, <2>1 DEF RecordIsLast
  <2>2. CASE Commit(r)
    <3>1. approvals[job[r].approval].status # "none"
      BY <2>2 DEF Commit, TypeInv, WellFormed, JobsOK
    <3> QED BY <2>0, <2>2, <3>1, CommitRow DEF RecordIsLast
  <2>3. CASE Record(r)
    <3>1. pc'[r] = "done"
      BY <1>0, <2>3 DEF Record
    <3> QED BY <2>0, <2>3, <3>1, RecordRow DEF RecordIsLast
  <2> QED BY <1>3, <2>1, <2>2, <2>3, ApprovalsFrame
<1>4. ASSUME NEW w \in Workers, Crash(w) PROVE RecordIsLast'
  BY <1>0, <1>4 DEF Crash, Running, Ended, RecordIsLast, database
<1>5. CASE UNCHANGED vars
  BY <1>5 DEF vars, RecordIsLast, database
<1> QED BY <1>1, <1>2, <1>3, <1>4, <1>5 DEF Next

\* With one event loop, a commit and a record never wait at the same time.
LEMMA OneInSection ==
    ASSUME OneProcess, TypeInv, HoldsLoop, NEW r \in Requests, NEW s \in Requests,
           pc[r] \in {"commit", "record"}, pc[s] \in {"commit", "record"}
    PROVE  r = s
  BY ConstantsAssumption DEF OneProcess, HoldsLoop

\* A decided row stays as it is.
LEMMA DecidedStays ==
    ASSUME OneProcess, SafeInv, [Next]_vars, NEW a \in Requests, Decided(a)
    PROVE  approvals'[a] = approvals[a]
<1>1. ASSUME NEW r \in Requests, Handler(r) \/ Fails(r) PROVE approvals'[a] = approvals[a]
  <2>1. CASE Commit(r)
    <3>1. a # job[r].approval
      BY <2>1 DEF Commit, SafeInv, StillPending, Decided
    <3> QED BY <2>1, <3>1, CommitRow DEF SafeInv
  <2>2. CASE Record(r)
    <3>1. a # r
      BY <2>2 DEF Record, SafeInv, RecordIsLast, Decided
    <3> QED BY <2>2, <3>1, RecordRow DEF SafeInv
  <2> QED BY <1>1, <2>1, <2>2, ApprovalsFrame
<1> QED BY <1>1 DEF Next, Post, Decide, Crash, vars, database

LEMMA StillPendingStep == OneProcess /\ SafeInv /\ [Next]_vars => StillPending'
<1> SUFFICES ASSUME OneProcess, SafeInv, [Next]_vars PROVE StillPending'
  OBVIOUS
<1> USE DEF SafeInv, Thread
<1>0. pc \in [Requests -> Steps] /\ job \in [Requests -> Job]
  BY DEF TypeInv, TypeOK
<1>1. ASSUME NEW r \in Requests, NEW t \in Threads, Post(r, t) PROVE StillPending'
  BY <1>0, <1>1 DEF Post, StillPending, database
<1>2. ASSUME NEW r \in Requests, NEW a \in Requests, NEW v \in BOOLEAN, Decide(r, a, v)
      PROVE  StillPending'
  BY <1>0, <1>2 DEF Decide, Decidable, Resumed, StillPending, database
<1>3. ASSUME NEW r \in Requests, Handler(r) \/ Fails(r) PROVE StillPending'
  <2>0. /\ job' = job
        /\ pc'[r] # "commit"
        /\ \A s \in Requests \ {r} : pc'[s] = pc[s]
    BY <1>3, HandlerFrame
  <2>1. CASE approvals' = approvals
    BY <2>0, <2>1 DEF StillPending
  <2>2. CASE Commit(r) \/ Record(r)
    <3>1. pc[r] \in {"commit", "record"}
      BY <2>2 DEF Commit, Record
    <3>2. \A s \in Requests \ {r} : pc[s] # "commit"
      BY <3>1, OneInSection
    <3> QED BY <2>0, <3>2 DEF StillPending
  <2> QED BY <1>3, <2>1, <2>2, ApprovalsFrame
<1>4. ASSUME NEW w \in Workers, Crash(w) PROVE StillPending'
  BY <1>0, <1>4 DEF Crash, StillPending, database
<1>5. CASE UNCHANGED vars
  BY <1>5 DEF vars, StillPending, handlers, database
<1> QED BY <1>1, <1>2, <1>3, <1>4, <1>5 DEF Next

LEMMA IdleIsBlankStep == TypeInv /\ IdleIsBlank /\ [Next]_vars => IdleIsBlank'
<1> SUFFICES ASSUME TypeInv, IdleIsBlank, [Next]_vars PROVE IdleIsBlank'
  OBVIOUS
<1>0. pc \in [Requests -> Steps]
  BY DEF TypeInv, TypeOK
<1>1. ASSUME NEW r \in Requests, Handler(r) \/ Fails(r) PROVE IdleIsBlank'
  BY <1>1, HandlerFrame DEF IdleIsBlank
<1>2. ASSUME NEW w \in Workers, Crash(w) PROVE IdleIsBlank'
  BY <1>0, <1>2 DEF Crash, Running, Unwind, IdleIsBlank
<1>3. ASSUME NEW r \in Requests, NEW t \in Threads, Post(r, t) PROVE IdleIsBlank'
  BY <1>0, <1>3 DEF Post, IdleIsBlank
<1>4. ASSUME NEW r \in Requests, NEW a \in Requests, NEW v \in BOOLEAN, Decide(r, a, v)
      PROVE  IdleIsBlank'
  BY <1>0, <1>4 DEF Decide, IdleIsBlank
<1>5. CASE UNCHANGED vars
  BY <1>5 DEF vars, IdleIsBlank, handlers
<1> QED BY <1>1, <1>2, <1>3, <1>4, <1>5 DEF Next

LEMMA CarriedIsRealStep == OneProcess /\ SafeInv /\ [Next]_vars => CarriedIsReal'
<1> SUFFICES ASSUME OneProcess, SafeInv, [Next]_vars PROVE CarriedIsReal'
  OBVIOUS
<1> USE DEF Thread
<1>0. pc \in [Requests -> Steps] /\ job \in [Requests -> Job] /\ CarriedIsReal
  BY DEF SafeInv, TypeInv, TypeOK
<1>s. \A b \in Requests : Decided(b) => approvals'[b] = approvals[b]
  BY DecidedStays
<1>1. ASSUME NEW r \in Requests, NEW t \in Threads, Post(r, t) PROVE CarriedIsReal'
  BY <1>0, <1>1 DEF Post, CarriedIsReal, Real, database
<1>2. ASSUME NEW r \in Requests, NEW a \in Requests, NEW v \in BOOLEAN, Decide(r, a, v)
      PROVE  CarriedIsReal'
  BY <1>0, <1>2 DEF Decide, CarriedIsReal, Real, database
<1>3. ASSUME NEW r \in Requests, Handler(r) \/ Fails(r) PROVE CarriedIsReal'
  <2>1. job' = job /\ \A s \in Requests \ {r} : pc'[s] = pc[s]
    BY <1>3, HandlerFrame DEF SafeInv
  <2> SUFFICES ASSUME job[r].kind = "decide", pc'[r] \in {"begin", "invoke"}
               PROVE  Real(Thread(r), job[r].approval, job[r].approved)'
    BY <1>0, <1>s, <2>1 DEF CarriedIsReal, Real, Decided
  <2>2. Commit(r) \/ Begin(r)
    BY ZenonT(40), <1>0, <1>3 DEF Handler, Invoke, Save, AgentTurn, ToolsComplete, Stepping, Pause, ToolsRaise,
       OutOfSteps, Return, TraceSuccess, TraceFailure, Record, Fails
  <2>3. CASE Commit(r)
    <3>1. approvals[job[r].approval].thread = Thread(r)
      BY <2>3 DEF Commit, SafeInv, StillPending
    <3>2. /\ job[r].approval \in Requests
          /\ approvals'[job[r].approval].thread = Thread(r)
          /\ approvals'[job[r].approval].status =
               IF job[r].approved THEN "approved" ELSE "rejected"
      BY <2>3, <3>1, CommitRow DEF SafeInv
    <3> QED BY <2>1, <3>2 DEF Real
  <2>4. CASE Begin(r)
    BY <1>0, <1>s, <2>1, <2>4 DEF Begin, CarriedIsReal, Real, Decided
  <2> QED BY <2>2, <2>3, <2>4
<1>4. ASSUME NEW w \in Workers, Crash(w) PROVE CarriedIsReal'
  BY <1>0, <1>4 DEF Crash, CarriedIsReal, Real, database
<1>5. CASE UNCHANGED vars
  BY <1>0, <1>5 DEF vars, CarriedIsReal, Real, handlers, database
<1> QED BY <1>1, <1>2, <1>3, <1>4, <1>5 DEF Next

\* The verdicts of a conversation, and the one about to join it, are what the
\* given rows say.
RealIn(rows, t, c) ==
    /\ c.answer # NoAnswer =>
         /\ c.answer.by \in Requests
         /\ rows[c.answer.by].thread = t
         /\ rows[c.answer.by].status = IF c.answer.approved THEN "approved" ELSE "rejected"
    /\ \A h \in c.heard :
         /\ h.by \in Requests
         /\ rows[h.by].thread = t
         /\ rows[h.by].status = IF h.approved THEN "approved" ELSE "rejected"

ConversationsAreReal ==
    /\ \A t \in Threads : RealIn(approvals, t, cp[t])
    /\ \A r \in Requests : RealIn(approvals, job[r].thread, mem[r])

LEMMA ConversationsDef == ConversationsAreReal <=> AnswersAreReal /\ VerdictsAreReal
  BY DEF ConversationsAreReal, AnswersAreReal, VerdictsAreReal, RealIn, Real, Thread

LEMMA ConversationsDefNext ==
    ConversationsAreReal' <=> AnswersAreReal' /\ VerdictsAreReal'
  BY DEF ConversationsAreReal, AnswersAreReal, VerdictsAreReal, RealIn, Real, Thread

LEMMA BlankIsReal == \A rows, t : RealIn(rows, t, Blank)
  BY DEF RealIn, Blank

LEMMA RealInStays ==
    ASSUME OneProcess, SafeInv, [Next]_vars, NEW t, NEW c, RealIn(approvals, t, c)
    PROVE  RealIn(approvals', t, c)
<1>1. \A b \in Requests : Decided(b) => approvals'[b] = approvals[b]
  BY DecidedStays
<1> QED BY <1>1 DEF RealIn, Decided

\* What a handler's own conversation becomes.
LEMMA HandlerConversation ==
    ASSUME OneProcess, SafeInv, [Next]_vars, NEW r \in Requests, Handler(r) \/ Fails(r)
    PROVE  RealIn(approvals', job[r].thread, mem'[r])
<1>0. /\ ConversationsAreReal /\ CarriedIsReal
      /\ mem \in [Requests -> Conversation] /\ job[r].thread \in Threads
  BY ConversationsDef, HandlerFrame DEF SafeInv, TypeInv, WellFormed, JobsOK, TypeOK
<1>1. CASE mem'[r] = mem[r]
  BY <1>0, <1>1, RealInStays DEF ConversationsAreReal
<1>2. CASE mem'[r] = Blank
  BY <1>2, BlankIsReal
<1>3. CASE Invoke(r)
  <2> DEFINE t == job[r].thread
             answer == [by |-> job[r].approval, approved |-> job[r].approved]
  <2>0. cp[t] \in Conversation /\ RealIn(approvals, t, cp[t])
    BY <1>0 DEF ConversationsAreReal, SafeInv, TypeInv, TypeOK
  <2>1. CASE job[r].kind = "decide"
    <3>1. mem'[r] = [cp[t] EXCEPT !.answer = answer]
      BY <1>0, <1>3, <2>1 DEF Invoke, Thread
    <3>2. mem'[r].answer = answer /\ mem'[r].heard = cp[t].heard
      BY <2>0, <3>1 DEF Conversation
    <3>3. /\ job[r].approval \in Requests
          /\ approvals[job[r].approval].thread = t
          /\ approvals[job[r].approval].status = IF job[r].approved THEN "approved" ELSE "rejected"
      BY <1>0, <1>3, <2>1 DEF Invoke, CarriedIsReal, Real, Thread
    <3>4. RealIn(approvals, t, mem'[r])
      BY <2>0, <3>2, <3>3 DEF RealIn
    <3> QED BY <3>4, RealInStays
  <2>2. CASE job[r].kind = "run" /\ pre[r].empty
    <3>1. mem'[r] = [cp[t] EXCEPT !.at = "agent", !.msg = NoMessage, !.answer = NoAnswer]
      BY <1>0, <1>3, <2>2 DEF Invoke, Thread
    <3>2. mem'[r].answer = NoAnswer /\ mem'[r].heard = cp[t].heard
      BY <2>0, <3>1 DEF Conversation
    <3>3. RealIn(approvals, t, mem'[r])
      BY <2>0, <3>2 DEF RealIn
    <3> QED BY <3>3, RealInStays
  <2>3. CASE job[r].kind = "run" /\ ~pre[r].empty
    <3>1. mem'[r] = cp[t]
      BY <1>0, <1>3, <2>3 DEF Invoke, Thread
    <3> QED BY <2>0, <3>1, RealInStays
  <2> QED BY <1>3, <2>1, <2>2, <2>3 DEF Invoke
<1>4. CASE AgentTurn(r)
  <2>1. PICK m \in Replies[Thread(r)] :
         mem' = [mem EXCEPT ![r] = [mem[r] EXCEPT
                   !.at = IF IsFinal(m) THEN "end" ELSE "tools",
                   !.msg = m, !.turns = @ + 1, !.answer = AnswerLeft(r)]]
    BY <1>4 DEF AgentTurn
  <2>2. mem'[r].answer = NoAnswer /\ mem'[r].heard = mem[r].heard
    BY <1>0, <2>1 DEF Conversation, AnswerLeft
  <2>3. RealIn(approvals, job[r].thread, mem'[r])
    BY <1>0, <2>2 DEF ConversationsAreReal, RealIn
  <2> QED BY <2>3, RealInStays
<1>5. CASE ToolsComplete(r)
  <2>1. PICK ask \in AskOutcomes(r) :
         /\ ask = "interrupt" => mem[r].answer # NoAnswer
         /\ mem' = [mem EXCEPT ![r] = [mem[r] EXCEPT
                      !.at = "agent", !.msg = NoMessage, !.answer = AnswerLeft(r),
                      !.heard = IF ask = "interrupt"
                                  THEN @ \cup {[ask |-> mem[r].turns, by |-> mem[r].answer.by,
                                                approved |-> mem[r].answer.approved]}
                                  ELSE @]]
    BY <1>5 DEF ToolsComplete
  <2> DEFINE new == [ask |-> mem[r].turns, by |-> mem[r].answer.by,
                     approved |-> mem[r].answer.approved]
             heard == IF ask = "interrupt" THEN mem[r].heard \cup {new} ELSE mem[r].heard
  <2>2. mem'[r] = [mem[r] EXCEPT !.at = "agent", !.msg = NoMessage, !.answer = NoAnswer,
                                 !.heard = heard]
    BY <1>0, <2>1 DEF AnswerLeft
  <2>3. heard \in {mem[r].heard, mem[r].heard \cup {new}} /\ (heard # mem[r].heard => mem[r].answer # NoAnswer)
    BY <2>1
  <2> HIDE DEF heard
  <2>4. mem'[r].answer = NoAnswer /\ mem'[r].heard = heard
    BY <1>0, <2>2 DEF Conversation
  <2>5. RealIn(approvals, job[r].thread, mem'[r])
    BY <1>0, <2>3, <2>4 DEF ConversationsAreReal, RealIn
  <2> QED BY <2>5, RealInStays
<1>6. \/ mem'[r] = mem[r] \/ mem'[r] = Blank
      \/ Invoke(r) \/ AgentTurn(r) \/ ToolsComplete(r)
  BY <1>0 DEF Handler, Commit, Begin, Save, Pause, ToolsRaise, OutOfSteps, Return, TraceSuccess,
     TraceFailure, Record, Fails, Unwind, handlers
<1> QED BY <1>1, <1>2, <1>3, <1>4, <1>5, <1>6

LEMMA ConversationsStep == OneProcess /\ SafeInv /\ [Next]_vars => ConversationsAreReal'
<1> SUFFICES ASSUME OneProcess, SafeInv, [Next]_vars PROVE ConversationsAreReal'
  OBVIOUS
<1>0. /\ ConversationsAreReal /\ IdleIsBlank
      /\ mem \in [Requests -> Conversation] /\ job \in [Requests -> Job]
      /\ pc \in [Requests -> Steps] /\ cp \in [Threads -> Conversation]
  BY ConversationsDef DEF SafeInv, TypeInv, TypeOK
<1>s. \A t, c : RealIn(approvals, t, c) => RealIn(approvals', t, c)
  BY RealInStays
<1>1. ASSUME NEW r \in Requests, NEW t \in Threads, Post(r, t) PROVE ConversationsAreReal'
  BY <1>0, <1>1, <1>s, BlankIsReal DEF Post, ConversationsAreReal, IdleIsBlank, database
<1>2. ASSUME NEW r \in Requests, NEW a \in Requests, NEW v \in BOOLEAN, Decide(r, a, v)
      PROVE  ConversationsAreReal'
  BY <1>0, <1>2, <1>s, BlankIsReal DEF Decide, ConversationsAreReal, IdleIsBlank, database
<1>3. ASSUME NEW r \in Requests, Handler(r) \/ Fails(r) PROVE ConversationsAreReal'
  <2>1. /\ job' = job
        /\ \A s \in Requests \ {r} : mem'[s] = mem[s]
    BY <1>3, HandlerFrame DEF SafeInv
  <2>2. \A s \in Requests : RealIn(approvals', job'[s].thread, mem'[s])
    BY <1>0, <1>3, <1>s, <2>1, HandlerConversation DEF ConversationsAreReal
  <2>3. CASE cp' = cp
    BY <1>0, <1>s, <2>2, <2>3 DEF ConversationsAreReal
  <2>4. CASE Save(r)
    <3>1. cp' = [cp EXCEPT ![job[r].thread] = mem[r]]
      BY <2>4 DEF Save, Thread
    <3>2. \A t \in Threads : RealIn(approvals', t, cp'[t])
      BY <1>0, <1>s, <3>1 DEF ConversationsAreReal
    <3> QED BY <2>2, <3>2 DEF ConversationsAreReal
  <2>5. cp' = cp \/ Save(r)
    BY ZenonT(40), <1>3 DEF Handler, Commit, Begin, Invoke, AgentTurn, ToolsComplete, Pause, ToolsRaise,
       OutOfSteps, Return, TraceSuccess, TraceFailure, Record, Fails
  <2> QED BY <2>3, <2>4, <2>5
<1>4. ASSUME NEW w \in Workers, Crash(w) PROVE ConversationsAreReal'
  BY <1>0, <1>4, <1>s, BlankIsReal DEF Crash, Unwind, ConversationsAreReal, database
<1>5. CASE UNCHANGED vars
  BY <1>0, <1>5 DEF vars, ConversationsAreReal, handlers, database
<1> QED BY <1>1, <1>2, <1>3, <1>4, <1>5 DEF Next

LEMMA SafeStep == OneProcess /\ SafeInv /\ [Next]_vars => SafeInv'
<1> SUFFICES ASSUME OneProcess, SafeInv, [Next]_vars PROVE SafeInv'
  OBVIOUS
<1>1. TypeInv'
  BY StepType, JobsStep, RowsStep, PausesStep DEF SafeInv, TypeInv, WellFormed
<1>2. HoldsLoop' /\ RecordIsLast' /\ IdleIsBlank'
  BY HoldsLoopStep, RecordIsLastStep, IdleIsBlankStep DEF SafeInv
<1>3. StillPending' /\ CarriedIsReal'
  BY StillPendingStep, CarriedIsRealStep
<1>4. AnswersAreReal' /\ VerdictsAreReal'
  BY ConversationsStep, ConversationsDefNext
<1> QED BY <1>1, <1>2, <1>3, <1>4 DEF SafeInv

\* Served by one process, an agent only ever hears the decision that is on
\* record for an approval of its own thread (approvals.py: decide_approval,
\* investigation.py: resume_investigation_with_decision), whatever the
\* clients send and whenever the process crashes.
THEOREM VerdictsCorrect == ASSUME OneProcess PROVE Spec => []VerdictsAreReal
<1>1. Init => SafeInv
  BY InitSafe
<1>2. SafeInv /\ [Next]_vars => SafeInv'
  BY OneProcess, SafeStep
<1>3. SafeInv => VerdictsAreReal
  BY DEF SafeInv
<1> QED BY <1>1, <1>2, <1>3, PTL DEF Spec

\* Served by one process, a decided approval never changes: a second decide
\* request for it is refused (approvals.py: the 409 of decide_approval).
THEOREM DecidedOnceCorrect == ASSUME OneProcess PROVE Spec => DecidedOnce
<1>1. Init => SafeInv
  BY InitSafe
<1>2. SafeInv /\ [Next]_vars => SafeInv'
  BY OneProcess, SafeStep
<1>3. SafeInv /\ [Next]_vars =>
        [\A a \in Requests : Decided(a) => approvals'[a] = approvals[a]]_vars
  BY OneProcess, DecidedStays
<1> QED BY <1>1, <1>2, <1>3, PTL DEF Spec, DecidedOnce

------------------------------------------------------------------------------
(* Clients that wait for an answer: one process, and no client POSTs a      *)
(* thread again while a call on it runs or a reviewer is awaited.  A thread *)
(* then has one handler at a time, and none while an approval is pending.   *)

Polite == Reposts \in {"never", "lost"}

\* A conversation stopped at an ask, with no verdict for it.
Unanswered(c) == c.at = "tools" /\ c.msg.asks /\ c.answer = NoAnswer

OneLive == \A r, s \in Running : Thread(r) = Thread(s) => r = s

\* An approval is about the thread of the request that left it.
RowOfJob ==
    \A a \in Requests :
        approvals[a].status # "none" => job[a].thread = approvals[a].thread

\* While an approval is pending its thread has no other one, and no handler
\* but one that is about to commit its decision.
PendingIsAlone ==
    \A a \in Requests : approvals[a].status = "pending" =>
        /\ \A b \in Requests :
             approvals[b].status = "pending" /\ approvals[b].thread = approvals[a].thread => b = a
        /\ \A r \in Running :
             Thread(r) = approvals[a].thread => pc[r] = "commit" /\ job[r].approval = a

\* Nothing is unwritten before ainvoke() and after it returned.
CleanOutside ==
    \A r \in Requests :
        pc[r] \in {"idle", "commit", "begin", "invoke", "trace", "record"} => ~dirty[r]

PauseIsUnanswered ==
    \A r \in Requests :
        pc[r] \in {"paused", "trace", "record"} /\ mem[r].at = "tools" => Unanswered(mem[r])

\* A run with nothing unwritten is what the checkpoint says.
InSync ==
    \A r \in Requests :
        pc[r] \in {"step", "paused", "trace", "record"} /\ ~dirty[r] => cp[Thread(r)] = mem[r]

Awaited ==
    \A a \in Requests : approvals[a].status = "pending" =>
        /\ Unanswered(cp[approvals[a].thread])
        /\ cp[approvals[a].thread].turns = approvals[a].ask
        /\ cp[approvals[a].thread].msg.about = approvals[a].case

\* A decide handler that has not started its run finds the checkpoint still
\* at the ask it decided.
DecideReady ==
    \A r \in Requests : job[r].kind = "decide" /\ pc[r] \in {"commit", "begin", "invoke"} =>
        /\ Unanswered(cp[Thread(r)])
        /\ cp[Thread(r)].turns = approvals[job[r].approval].ask

CalmInv ==
    /\ SafeInv
    /\ OneLive
    /\ RowOfJob
    /\ PendingIsAlone
    /\ CleanOutside
    /\ PauseIsUnanswered
    /\ InSync
    /\ Awaited
    /\ DecideReady
    /\ PausedIsListed

LEMMA InitCalm == Init => CalmInv
<1> SUFFICES ASSUME Init PROVE CalmInv
  OBVIOUS
<1>1. SafeInv
  BY InitSafe
<1>2. \A r \in Requests : pc[r] = "idle" /\ ~dirty[r] /\ approvals[r].status = "none"
  BY DEF Init
<1>3. OneLive /\ RowOfJob /\ PendingIsAlone /\ CleanOutside /\ PauseIsUnanswered /\ InSync
      /\ Awaited /\ DecideReady
  BY <1>2 DEF Running, OneLive, RowOfJob, PendingIsAlone, CleanOutside, PauseIsUnanswered,
     InSync, Awaited, DecideReady
<1>4. PausedIsListed
  BY DEF Init, Blank, PausedIsListed
<1> QED BY <1>1, <1>3, <1>4 DEF CalmInv

(* What the steps leave alone, once more: what this section reads. *)

LEMMA ArrivalFrame ==
    ASSUME TypeInv, NEW r \in Requests,
           \/ \E t \in Threads : Post(r, t)
           \/ \E a \in Requests, approved \in BOOLEAN : Decide(r, a, approved)
    PROVE  /\ UNCHANGED <<mem, dirty, cp, approvals, cases>>
           /\ pc[r] = "idle"
           /\ \A s \in Requests \ {r} : pc'[s] = pc[s] /\ job'[s] = job[s]
  BY DEF TypeInv, TypeOK, Post, Decide, database, history

LEMMA CrashFrame ==
    ASSUME TypeInv, NEW w \in Workers, Crash(w)
    PROVE  /\ UNCHANGED <<job, cp, approvals, cases>>
           /\ \A r \in Requests :
                \/ pc'[r] = pc[r] /\ mem'[r] = mem[r] /\ dirty'[r] = dirty[r]
                \/ pc[r] \in Active /\ pc'[r] = "lost" /\ mem'[r] = Blank /\ dirty'[r] = FALSE
<1>0. pc \in [Requests -> Steps] /\ dirty \in [Requests -> BOOLEAN]
  BY DEF TypeInv, TypeOK
<1>1. UNCHANGED <<job, cp, approvals, cases>>
  BY DEF Crash, database
<1>2. ASSUME NEW r \in Requests
      PROVE  \/ pc'[r] = pc[r] /\ mem'[r] = mem[r] /\ dirty'[r] = dirty[r]
             \/ pc[r] \in Active /\ pc'[r] = "lost" /\ mem'[r] = Blank /\ dirty'[r] = FALSE
  <2> DEFINE dead == {s \in Running : WorkerOf[s] = w}
  <2>1. /\ pc'[r] = IF r \in dead THEN "lost" ELSE pc[r]
        /\ mem'[r] = IF r \in dead THEN Blank ELSE mem[r]
        /\ dirty'[r] = (r \notin dead /\ dirty[r])
    BY DEF Crash, Unwind
  <2>2. r \in dead => pc[r] \in Active
    BY <1>0 DEF Running, Active
  <2> QED BY <1>0, <2>1, <2>2
<1> QED BY <1>1, <1>2

\* Only Save writes a checkpoint, that of the handler's own thread.
LEMMA CheckpointFrame ==
    ASSUME NEW r \in Requests, Handler(r) \/ Fails(r)
    PROVE  cp' = cp \/ Save(r)
  BY DEF Handler, Commit, Begin, Invoke, AgentTurn, ToolsComplete, Pause, ToolsRaise,
     OutOfSteps, Return, TraceSuccess, TraceFailure, Record, Fails

LEMMA HandlerKeeps ==
    ASSUME TypeInv, NEW r \in Requests, Handler(r) \/ Fails(r)
    PROVE  /\ r \in Running
           /\ job[r].thread \in Threads
           /\ \A s \in Requests \ {r} : dirty'[s] = dirty[s]
           /\ \A t \in Threads \ {Thread(r)} : cp'[t] = cp[t]
<1>1. pc[r] \in Active
  BY HandlerFrame
<1>2. r \in Running
  BY <1>1 DEF Running, Active
<1>3. job[r].thread \in Threads
  BY <1>1 DEF TypeInv, WellFormed, JobsOK
<1>4. \A s \in Requests \ {r} : dirty'[s] = dirty[s]
  <2>0. dirty \in [Requests -> BOOLEAN]
    BY DEF TypeInv, TypeOK
  <2>1. CASE Commit(r) \/ Begin(r) \/ Pause(r) \/ ToolsRaise(r) \/ OutOfSteps(r) \/ Return(r) \/ Fails(r)
    BY <2>1 DEF Commit, Begin, Pause, ToolsRaise, OutOfSteps, Return, Fails, handlers
  <2>2. CASE Invoke(r) \/ Save(r) \/ AgentTurn(r) \/ ToolsComplete(r)
    BY <2>0, <2>2 DEF Invoke, Save, AgentTurn, ToolsComplete
  <2>3. CASE TraceSuccess(r)
    BY <2>0, <2>3 DEF TraceSuccess, Unwind
  <2>4. CASE TraceFailure(r) \/ Record(r)
    BY <2>0, <2>4 DEF TraceFailure, Record, Unwind
  <2> QED BY <2>1, <2>2, <2>3, <2>4 DEF Handler
<1>5. \A t \in Threads \ {Thread(r)} : cp'[t] = cp[t]
  BY <1>3, CheckpointFrame DEF TypeInv, TypeOK, Save, Thread
<1> QED BY <1>2, <1>3, <1>4, <1>5

\* A step that is no commit and no record leaves the rows alone.
LEMMA RowsFrame ==
    ASSUME TypeInv, [Next]_vars
    PROVE  approvals' = approvals \/ \E r \in Requests : Commit(r) \/ Record(r)
  BY ApprovalsFrame DEF Next, Post, Decide, Crash, vars, database

------------------------------------------------------------------------------
(* One handler per thread *)

\* A new call finds nobody else on its thread.
LEMMA ArrivesAlone ==
    ASSUME OneProcess, Polite, CalmInv, NEW r \in Requests,
           \/ \E t \in Threads : Post(r, t)
           \/ \E a \in Requests, approved \in BOOLEAN :
                Decide(r, a, approved) /\ pc'[r] # "refused"
    PROVE  \A s \in Running : Thread(s) # job'[r].thread
<1>0. job \in [Requests -> Job] /\ pc \in [Requests -> Steps] /\ WorkerOf \in [Requests -> Workers]
      /\ NoRequest \notin Requests
  BY ConstantsAssumption DEF CalmInv, SafeInv, TypeInv, TypeOK
<1>1. CASE \E t \in Threads : Post(r, t)
  <2>1. PICK t \in Threads : Post(r, t)
    BY <1>1
  <2>2. job'[r].thread = t /\ MayPost(t)
    BY <1>0, <2>1 DEF Post
  <2>3. \A s \in Running : Thread(s) # t
    BY <2>2 DEF MayPost, Polite, Live, Running
  <2> QED BY <2>2, <2>3
<1>2. CASE \E a \in Requests, approved \in BOOLEAN :
             Decide(r, a, approved) /\ pc'[r] # "refused"
  <2>1. PICK a \in Requests, approved \in BOOLEAN :
             Decide(r, a, approved) /\ pc'[r] # "refused"
    BY <1>2
  <2>2. job'[r].thread = approvals[a].thread /\ approvals[a].status = "pending"
        /\ loop[WorkerOf[r]] = NoRequest
    BY <1>0, <2>1 DEF Decide, Decidable, Resumed, LoopIsFree
  <2>3. ASSUME NEW s \in Running, Thread(s) = approvals[a].thread PROVE FALSE
    <3>1. pc[s] = "commit" /\ s \in Requests
      BY <2>2, <2>3 DEF CalmInv, PendingIsAlone, Running
    <3>2. loop[WorkerOf[s]] = s
      BY <3>1 DEF CalmInv, SafeInv, HoldsLoop
    <3> QED BY <1>0, <2>2, <3>1, <3>2 DEF OneProcess
  <2> QED BY <2>2, <2>3
<1> QED BY <1>1, <1>2

LEMMA OneLiveStep == OneProcess /\ Polite /\ CalmInv /\ [Next]_vars => OneLive'
<1> SUFFICES ASSUME OneProcess, Polite, CalmInv, [Next]_vars PROVE OneLive'
  OBVIOUS
<1>0. TypeInv /\ OneLive /\ pc \in [Requests -> Steps]
  BY DEF CalmInv, SafeInv, TypeInv, TypeOK
<1>1. ASSUME NEW r \in Requests,
             \/ \E t \in Threads : Post(r, t)
             \/ \E a \in Requests, approved \in BOOLEAN : Decide(r, a, approved)
      PROVE  OneLive'
  <2>1. \A s \in Requests \ {r} : pc'[s] = pc[s] /\ job'[s] = job[s]
    BY <1>0, <1>1, ArrivalFrame
  <2>2. CASE pc'[r] = "refused"
    BY <1>0, <2>1, <2>2 DEF OneLive, Running, Thread, Ended
  <2>3. CASE pc'[r] # "refused"
    <3>1. \A s \in Running : Thread(s) # job'[r].thread
      BY <1>1, <2>3, ArrivesAlone
    <3> QED BY <1>0, <2>1, <3>1 DEF OneLive, Running, Thread
  <2> QED BY <2>2, <2>3
<1>2. ASSUME NEW r \in Requests, Handler(r) \/ Fails(r) PROVE OneLive'
  BY <1>0, <1>2, HandlerFrame, HandlerKeeps DEF OneLive, Running, Thread
<1>3. ASSUME NEW w \in Workers, Crash(w) PROVE OneLive'
  BY <1>0, <1>3, CrashFrame DEF OneLive, Running, Thread, Ended
<1>4. CASE UNCHANGED vars
  BY <1>0, <1>4 DEF vars, handlers, OneLive, Running, Thread
<1> QED BY <1>1, <1>2, <1>3, <1>4 DEF Next

LEMMA RowOfJobStep == CalmInv /\ [Next]_vars => RowOfJob'
<1> SUFFICES ASSUME CalmInv, [Next]_vars PROVE RowOfJob'
  OBVIOUS
<1>0. TypeInv /\ RowOfJob /\ RecordIsLast
  BY DEF CalmInv, SafeInv
<1>1. ASSUME NEW a \in Requests, approvals[a].status # "none"
      PROVE  job'[a] = job[a]
  <2>1. pc[a] = "done"
    BY <1>0, <1>1 DEF RecordIsLast
  <2>2. ASSUME NEW r \in Requests, Handler(r) \/ Fails(r) PROVE job' = job
    BY <1>0, <2>2, HandlerFrame
  <2>3. ASSUME NEW r \in Requests,
               \/ \E t \in Threads : Post(r, t)
               \/ \E b \in Requests, approved \in BOOLEAN : Decide(r, b, approved)
        PROVE  job'[a] = job[a]
    BY <1>0, <2>1, <2>3, ArrivalFrame
  <2> QED BY <2>2, <2>3 DEF Next, Crash, vars, handlers
<1>2. CASE approvals' = approvals
  BY <1>0, <1>1, <1>2 DEF RowOfJob
<1>3. ASSUME NEW r \in Requests, Commit(r) PROVE RowOfJob'
  <2>1. approvals[job[r].approval].status # "none"
    BY <1>0, <1>3 DEF Commit, TypeInv, WellFormed, JobsOK
  <2> QED BY <1>0, <1>1, <1>3, <2>1, CommitRow DEF RowOfJob
<1>4. ASSUME NEW r \in Requests, Record(r) PROVE RowOfJob'
  <2>1. job' = job
    BY <1>4 DEF Record
  <2> QED BY <1>0, <1>4, <2>1, RecordRow DEF RowOfJob, Thread
<1> QED BY <1>0, <1>2, <1>3, <1>4, RowsFrame

------------------------------------------------------------------------------
(* A thread that waits for a reviewer is left alone *)

LEMMA PendingIsAloneStep ==
    OneProcess /\ Polite /\ CalmInv /\ [Next]_vars => PendingIsAlone'
<1> SUFFICES ASSUME OneProcess, Polite, CalmInv, [Next]_vars PROVE PendingIsAlone'
  OBVIOUS
<1>0. /\ TypeInv /\ PendingIsAlone /\ OneLive /\ RowOfJob /\ StillPending /\ RecordIsLast
      /\ pc \in [Requests -> Steps] /\ job \in [Requests -> Job]
  BY DEF CalmInv, SafeInv, TypeInv, TypeOK
<1>1. ASSUME NEW r \in Requests, NEW t \in Threads, Post(r, t) PROVE PendingIsAlone'
  <2>1. \A s \in Requests \ {r} : pc'[s] = pc[s] /\ job'[s] = job[s]
    BY <1>0, <1>1, ArrivalFrame
  <2>2. approvals' = approvals /\ job'[r].thread = t /\ MayPost(t)
    BY <1>0, <1>1 DEF Post, database
  <2>3. \A a \in Requests : approvals[a].status = "pending" => approvals[a].thread # t
    BY <1>0, <2>2 DEF MayPost, Polite, PendingOn, RowOfJob, Thread
  <2> QED BY <1>0, <2>1, <2>2, <2>3 DEF PendingIsAlone, Running, Thread
<1>2. ASSUME NEW r \in Requests, NEW b \in Requests, NEW approved \in BOOLEAN,
             Decide(r, b, approved)
      PROVE  PendingIsAlone'
  <2>1. \A s \in Requests \ {r} : pc'[s] = pc[s] /\ job'[s] = job[s]
    BY <1>0, <1>2, ArrivalFrame
  <2>2. approvals' = approvals /\ job'[r].thread = approvals[b].thread /\ job'[r].approval = b
    BY <1>0, <1>2 DEF Decide, Resumed, database
  <2>3. pc'[r] = "refused" \/ (pc'[r] = "commit" /\ approvals[b].status = "pending")
    BY <1>0, <1>2 DEF Decide, Decidable
  <2> QED BY <1>0, <2>1, <2>2, <2>3 DEF PendingIsAlone, Running, Thread, Ended
<1>3. ASSUME NEW r \in Requests, Handler(r) \/ Fails(r) PROVE PendingIsAlone'
  <2>0. /\ job' = job /\ r \in Running
        /\ \A s \in Requests \ {r} : pc'[s] = pc[s]
    BY <1>0, <1>3, HandlerFrame, HandlerKeeps
  <2>1. CASE Commit(r)
    <3> DEFINE a == job[r].approval
    <3>1. /\ approvals[a].status = "pending" /\ approvals[a].thread = Thread(r)
          /\ a \in Requests /\ approvals'[a].status # "pending"
          /\ \A b \in Requests \ {a} : approvals'[b] = approvals[b]
      BY <1>0, <2>1, CommitRow DEF Commit, StillPending
    <3>2. \A b \in Requests \ {a} : approvals[b].status = "pending" => approvals[b].thread # Thread(r)
      BY <1>0, <3>1 DEF PendingIsAlone
    <3> QED BY <1>0, <2>0, <3>1, <3>2 DEF PendingIsAlone, Running, Thread
  <2>2. CASE Record(r)
    <3>1. /\ pc[r] = "record" /\ pc'[r] = "done" /\ approvals'[r].thread = Thread(r)
          /\ \A b \in Requests \ {r} : approvals'[b] = approvals[b]
      BY <1>0, <2>2, RecordRow DEF Record
    <3>2. \A b \in Requests : approvals[b].status = "pending" => approvals[b].thread # Thread(r)
      BY <1>0, <2>0, <3>1 DEF PendingIsAlone
    <3>3. \A s \in Running : Thread(s) = Thread(r) => s = r
      BY <1>0, <2>0 DEF OneLive
    <3> QED BY <1>0, <2>0, <3>1, <3>2, <3>3 DEF PendingIsAlone, Running, Thread, Ended
  <2>3. CASE approvals' = approvals /\ ~Commit(r)
    <3>1. pc[r] # "commit"
      BY <1>3, <2>3 DEF Handler, Begin, Invoke, Save, AgentTurn, ToolsComplete, Stepping, Pause,
         ToolsRaise, OutOfSteps, Return, TraceSuccess, TraceFailure, Record, Fails
    <3> QED BY <1>0, <2>0, <2>3, <3>1 DEF PendingIsAlone, Running, Thread
  <2> QED BY <1>3, <2>1, <2>2, <2>3, ApprovalsFrame
<1>4. ASSUME NEW w \in Workers, Crash(w) PROVE PendingIsAlone'
  <2>1. job' = job /\ approvals' = approvals
    BY <1>0, <1>4, CrashFrame
  <2>2. \A s \in Running' : s \in Running /\ pc'[s] = pc[s]
    BY <1>0, <1>4, CrashFrame DEF Running, Ended
  <2> QED BY <1>0, <2>1, <2>2 DEF PendingIsAlone, Thread
<1>5. CASE UNCHANGED vars
  BY <1>0, <1>5 DEF vars, handlers, database, PendingIsAlone, Running, Thread
<1> QED BY <1>1, <1>2, <1>3, <1>4, <1>5 DEF Next

LEMMA CleanOutsideStep == TypeInv /\ CleanOutside /\ [Next]_vars => CleanOutside'
<1> SUFFICES ASSUME TypeInv, CleanOutside, [Next]_vars PROVE CleanOutside'
  OBVIOUS
<1>0. pc \in [Requests -> Steps] /\ dirty \in [Requests -> BOOLEAN]
  BY DEF TypeInv, TypeOK
<1>1. ASSUME NEW r \in Requests,
             \/ \E t \in Threads : Post(r, t)
             \/ \E a \in Requests, approved \in BOOLEAN : Decide(r, a, approved)
      PROVE  CleanOutside'
  BY <1>1, ArrivalFrame DEF CleanOutside
<1>2. ASSUME NEW r \in Requests, Handler(r) \/ Fails(r) PROVE CleanOutside'
  <2> SUFFICES pc'[r] \in {"idle", "commit", "begin", "invoke", "trace", "record"} => ~dirty'[r]
    BY <1>2, HandlerFrame, HandlerKeeps DEF CleanOutside
  <2>1. CASE Commit(r) \/ Begin(r)
    BY <1>0, <2>1 DEF Commit, Resume, Begin, CleanOutside, handlers
  <2>2. CASE Return(r)
    BY <2>2 DEF Return, Flushed, handlers
  <2>3. CASE TraceSuccess(r)
    BY <1>0, <2>3 DEF TraceSuccess, Unwind, CleanOutside
  <2>4. CASE Invoke(r) \/ Save(r) \/ AgentTurn(r) \/ ToolsComplete(r) \/ Pause(r) \/ ToolsRaise(r)
             \/ OutOfSteps(r) \/ TraceFailure(r) \/ Record(r) \/ Fails(r)
    BY ZenonT(40), <1>0, <2>4 DEF Invoke, Save, AgentTurn, ToolsComplete, Stepping, Pause, ToolsRaise,
       OutOfSteps, TraceFailure, Record, Fails
  <2> QED BY <1>2, <2>1, <2>2, <2>3, <2>4 DEF Handler
<1>3. ASSUME NEW w \in Workers, Crash(w) PROVE CleanOutside'
  BY <1>3, CrashFrame DEF CleanOutside
<1>4. CASE UNCHANGED vars
  BY <1>4 DEF vars, handlers, CleanOutside
<1> QED BY <1>1, <1>2, <1>3, <1>4 DEF Next

LEMMA PauseIsUnansweredStep ==
    TypeInv /\ PauseIsUnanswered /\ [Next]_vars => PauseIsUnanswered'
<1> SUFFICES ASSUME TypeInv, PauseIsUnanswered, [Next]_vars PROVE PauseIsUnanswered'
  OBVIOUS
<1>0. pc \in [Requests -> Steps]
  BY DEF TypeInv, TypeOK
<1>1. ASSUME NEW r \in Requests,
             \/ \E t \in Threads : Post(r, t)
             \/ \E a \in Requests, approved \in BOOLEAN : Decide(r, a, approved)
      PROVE  PauseIsUnanswered'
  <2>1. pc'[r] \in {"begin", "commit", "refused"}
    BY <1>0, <1>1 DEF Post, Decide
  <2> QED BY <1>1, <2>1, ArrivalFrame DEF PauseIsUnanswered
<1>2. ASSUME NEW r \in Requests, Handler(r) \/ Fails(r) PROVE PauseIsUnanswered'
  <2> SUFFICES pc'[r] \in {"paused", "trace", "record"} /\ mem'[r].at = "tools" => Unanswered(mem'[r])
    BY <1>2, HandlerFrame DEF PauseIsUnanswered
  <2>1. CASE Pause(r)
    BY <2>1 DEF Pause, Stepping, AskOutcomes, Unanswered
  <2>2. CASE Return(r)
    BY <1>0, <2>2 DEF Return, PauseIsUnanswered, handlers
  <2>3. CASE TraceSuccess(r)
    BY <1>0, <2>3 DEF TraceSuccess, PauseIsUnanswered
  <2>4. CASE Save(r)
    BY <1>0, <2>4 DEF Save, PauseIsUnanswered
  <2>5. CASE Commit(r) \/ Begin(r) \/ Invoke(r) \/ AgentTurn(r) \/ ToolsComplete(r)
             \/ ToolsRaise(r) \/ OutOfSteps(r) \/ TraceFailure(r) \/ Record(r) \/ Fails(r)
    BY ZenonT(40), <1>0, <2>5 DEF Commit, Resume, Begin, Invoke, AgentTurn, ToolsComplete, Stepping, ToolsRaise,
       OutOfSteps, TraceFailure, Record, Fails
  <2> QED BY <1>2, <2>1, <2>2, <2>3, <2>4, <2>5 DEF Handler
<1>3. ASSUME NEW w \in Workers, Crash(w) PROVE PauseIsUnanswered'
  BY <1>3, CrashFrame DEF PauseIsUnanswered
<1>4. CASE UNCHANGED vars
  BY <1>4 DEF vars, handlers, PauseIsUnanswered
<1> QED BY <1>1, <1>2, <1>3, <1>4 DEF Next

\* A checkpoint is written by the one live handler of its thread.
LEMMA OthersKeepCheckpoint ==
    ASSUME CalmInv, NEW r \in Requests, Handler(r) \/ Fails(r), NEW s \in Running, s # r
    PROVE  cp'[Thread(s)] = cp[Thread(s)]
<1>1. TypeInv /\ OneLive
  BY DEF CalmInv, SafeInv
<1>2. r \in Running /\ Thread(s) # Thread(r)
  BY <1>1, HandlerKeeps DEF OneLive
<1>3. s \in Requests /\ Thread(s) \in Threads
  BY <1>1 DEF Running, TypeInv, TypeOK, WellFormed, JobsOK, Active, Thread
<1> QED BY <1>1, <1>2, <1>3, HandlerKeeps

LEMMA InSyncStep == CalmInv /\ [Next]_vars => InSync'
<1> SUFFICES ASSUME CalmInv, [Next]_vars PROVE InSync'
  OBVIOUS
<1>0. /\ TypeInv /\ InSync /\ CleanOutside
      /\ pc \in [Requests -> Steps] /\ mem \in [Requests -> Conversation]
      /\ cp \in [Threads -> Conversation] /\ dirty \in [Requests -> BOOLEAN]
  BY DEF CalmInv, SafeInv, TypeInv, TypeOK
<1>1. ASSUME NEW r \in Requests,
             \/ \E t \in Threads : Post(r, t)
             \/ \E a \in Requests, approved \in BOOLEAN : Decide(r, a, approved)
      PROVE  InSync'
  <2>1. pc'[r] \in {"begin", "commit", "refused"}
    BY <1>0, <1>1 DEF Post, Decide
  <2> QED BY <1>0, <1>1, <2>1, ArrivalFrame DEF InSync, Thread
<1>2. ASSUME NEW r \in Requests, Handler(r) \/ Fails(r) PROVE InSync'
  <2>0. /\ job' = job /\ Thread(r) \in Threads
        /\ \A s \in Requests \ {r} : pc'[s] = pc[s] /\ mem'[s] = mem[s] /\ dirty'[s] = dirty[s]
    BY <1>0, <1>2, HandlerFrame, HandlerKeeps DEF Thread
  <2>1. ASSUME NEW s \in Requests \ {r}, pc[s] \in {"step", "paused", "trace", "record"}
        PROVE  cp'[Thread(s)] = cp[Thread(s)]
    <3>1. s \in Running
      BY <2>1 DEF Running, Ended
    <3> QED BY <1>2, <2>1, <3>1, OthersKeepCheckpoint
  <2> SUFFICES pc'[r] \in {"step", "paused", "trace", "record"} /\ ~dirty'[r] => cp'[Thread(r)] = mem'[r]
    BY <1>0, <2>0, <2>1 DEF InSync, Thread
  <2>2. CASE Save(r)
    BY <1>0, <2>0, <2>2 DEF Save
  <2>3. CASE Invoke(r)
    BY <1>0, <2>0, <2>3 DEF Invoke, CleanOutside
  <2>4. CASE Pause(r) \/ Return(r)
    BY <1>0, <2>4 DEF Pause, Stepping, Return, InSync, handlers
  <2>5. CASE TraceSuccess(r)
    BY <1>0, <2>5 DEF TraceSuccess, InSync
  <2>6. CASE AgentTurn(r) \/ ToolsComplete(r)
    BY <1>0, <2>6 DEF AgentTurn, ToolsComplete
  <2>7. CASE Commit(r) \/ Begin(r) \/ ToolsRaise(r) \/ OutOfSteps(r) \/ TraceFailure(r)
             \/ Record(r) \/ Fails(r)
    BY <1>0, <2>7 DEF Commit, Resume, Begin, ToolsRaise, OutOfSteps, TraceFailure, Record, Fails
  <2> QED BY <1>2, <2>2, <2>3, <2>4, <2>5, <2>6, <2>7 DEF Handler
<1>3. ASSUME NEW w \in Workers, Crash(w) PROVE InSync'
  BY <1>0, <1>3, CrashFrame DEF InSync, Thread
<1>4. CASE UNCHANGED vars
  BY <1>0, <1>4 DEF vars, handlers, InSync, Thread
<1> QED BY <1>1, <1>2, <1>3, <1>4 DEF Next

------------------------------------------------------------------------------
(* The approval is the one the checkpoint is paused at *)

\* A thread with a pending approval has no handler that may write its
\* checkpoint.
LEMMA PendingKeepsCheckpoint ==
    ASSUME CalmInv, [Next]_vars, NEW a \in Requests, approvals[a].status = "pending"
    PROVE  cp'[approvals[a].thread] = cp[approvals[a].thread]
<1>0. TypeInv /\ PendingIsAlone /\ approvals[a].thread \in Threads
  BY DEF CalmInv, SafeInv, TypeInv, WellFormed, RowsOK
<1>1. ASSUME NEW r \in Requests, Handler(r) \/ Fails(r)
      PROVE  cp'[approvals[a].thread] = cp[approvals[a].thread]
  <2>1. CASE Save(r)
    <3>1. pc[r] # "commit" /\ r \in Running
      BY <1>0, <1>1, <2>1, HandlerKeeps DEF Save
    <3>2. Thread(r) # approvals[a].thread
      BY <1>0, <3>1 DEF PendingIsAlone
    <3> QED BY <1>0, <1>1, <3>2, HandlerKeeps
  <2> QED BY <1>1, <2>1, CheckpointFrame
<1>2. ASSUME NEW r \in Requests,
             \/ \E t \in Threads : Post(r, t)
             \/ \E b \in Requests, approved \in BOOLEAN : Decide(r, b, approved)
      PROVE  cp' = cp
  BY <1>0, <1>2, ArrivalFrame
<1> QED BY <1>1, <1>2 DEF Next, Crash, vars

LEMMA AwaitedStep == CalmInv /\ [Next]_vars => Awaited'
<1> SUFFICES ASSUME CalmInv, [Next]_vars PROVE Awaited'
  OBVIOUS
<1>0. TypeInv /\ Awaited
  BY DEF CalmInv, SafeInv
<1>1. \A a \in Requests : approvals[a].status = "pending" =>
        cp'[approvals[a].thread] = cp[approvals[a].thread]
  BY PendingKeepsCheckpoint
<1>2. CASE approvals' = approvals
  BY <1>0, <1>1, <1>2 DEF Awaited
<1>3. ASSUME NEW r \in Requests, Commit(r) PROVE Awaited'
  <2> DEFINE b == job[r].approval
  <2>1. b \in Requests /\ approvals'[b].status # "pending"
        /\ \A a \in Requests \ {b} : approvals'[a] = approvals[a]
    BY <1>0, <1>3, CommitRow
  <2> QED BY <1>0, <1>1, <2>1 DEF Awaited
<1>4. ASSUME NEW r \in Requests, Record(r) PROVE Awaited'
  <2>1. pc[r] = "record" /\ cp' = cp /\ Thread(r) \in Threads
    BY <1>0, <1>4 DEF Record, TypeInv, WellFormed, JobsOK, Active, Steps, Ended, Thread
  <2>2. mem[r].at = "tools" /\ ~dirty[r]
    BY <2>1 DEF CalmInv, SafeInv, TypeInv, WellFormed, PausesOK, CleanOutside
  <2>3. Unanswered(mem[r]) /\ cp[Thread(r)] = mem[r]
    BY <2>1, <2>2 DEF CalmInv, PauseIsUnanswered, InSync
  <2>4. /\ \A a \in Requests \ {r} : approvals'[a] = approvals[a]
        /\ approvals'[r].thread = Thread(r)
        /\ approvals'[r].case = mem[r].msg.about
        /\ approvals'[r].ask = mem[r].turns
    BY <1>0, <1>4, RecordRow
  <2> QED BY <1>0, <1>1, <2>1, <2>3, <2>4 DEF Awaited
<1> QED BY <1>0, <1>2, <1>3, <1>4, RowsFrame

LEMMA DecideReadyStep == OneProcess /\ CalmInv /\ [Next]_vars => DecideReady'
<1> SUFFICES ASSUME OneProcess, CalmInv, [Next]_vars PROVE DecideReady'
  OBVIOUS
<1>0. /\ TypeInv /\ DecideReady /\ Awaited /\ StillPending /\ CarriedIsReal
      /\ pc \in [Requests -> Steps] /\ job \in [Requests -> Job]
  BY DEF CalmInv, SafeInv, TypeInv, TypeOK
<1>1. ASSUME NEW r \in Requests, NEW t \in Threads, Post(r, t) PROVE DecideReady'
  <2>1. job'[r].kind = "run"
    BY <1>0, <1>1 DEF Post
  <2> QED BY <1>0, <1>1, <2>1, ArrivalFrame DEF DecideReady, Thread
<1>2. ASSUME NEW r \in Requests, NEW a \in Requests, NEW approved \in BOOLEAN,
             Decide(r, a, approved)
      PROVE  DecideReady'
  <2>1. job'[r].thread = approvals[a].thread /\ job'[r].approval = a
    BY <1>0, <1>2 DEF Decide, Resumed
  <2>2. pc'[r] = "refused" \/ approvals[a].status = "pending"
    BY <1>0, <1>2 DEF Decide, Decidable
  <2> QED BY <1>0, <1>2, <2>1, <2>2, ArrivalFrame DEF DecideReady, Awaited, Thread
<1>3. ASSUME NEW r \in Requests, Handler(r) \/ Fails(r) PROVE DecideReady'
  <2>0. /\ job' = job
        /\ \A s \in Requests \ {r} : pc'[s] = pc[s]
        /\ r \in Running
    BY <1>0, <1>3, HandlerFrame, HandlerKeeps
  <2>1. ASSUME NEW s \in Requests, job[s].kind = "decide", pc[s] \in {"commit", "begin", "invoke"}
        PROVE  approvals'[job[s].approval].ask = approvals[job[s].approval].ask
    <3>1. job[s].approval \in Requests /\ approvals[job[s].approval].status # "none"
      BY <1>0, <2>1 DEF TypeInv, WellFormed, JobsOK, CarriedIsReal, Real
    <3>2. CASE Record(r)
      <4>1. job[s].approval # r
        BY <3>1, <3>2 DEF Record, CalmInv, SafeInv, RecordIsLast
      <4> QED BY <1>0, <3>1, <3>2, <4>1, RecordRow
    <3> QED BY <1>0, <1>3, <3>1, <3>2, ApprovalsFrame, CommitRow
  <2>2. ASSUME NEW s \in Requests \ {r}, pc[s] \in {"commit", "begin", "invoke"}
        PROVE  cp'[Thread(s)] = cp[Thread(s)]
    <3>1. s \in Running
      BY <2>2 DEF Running, Ended
    <3> QED BY <1>3, <2>2, <3>1, OthersKeepCheckpoint
  <2>3. CASE pc'[r] \in {"begin", "invoke"}
    <3>1. Commit(r) \/ Begin(r)
      BY <1>0, <1>3, <2>3 DEF Handler, Invoke, Save, AgentTurn, ToolsComplete, Stepping, Pause,
         ToolsRaise, OutOfSteps, Return, TraceSuccess, TraceFailure, Record, Fails
    <3>2. cp' = cp /\ pc[r] \in {"commit", "begin"}
      BY <3>1 DEF Commit, Begin
    <3> QED BY SMTT(30), <1>0, <2>0, <2>1, <2>2, <3>2 DEF DecideReady, Thread
  <2>4. CASE pc'[r] \notin {"begin", "invoke"}
    <3>1. pc'[r] # "commit"
      BY <1>0, <1>3, HandlerFrame
    <3> QED BY <1>0, <2>0, <2>1, <2>2, <2>4, <3>1 DEF DecideReady, Thread
  <2> QED BY <2>3, <2>4
<1>4. ASSUME NEW w \in Workers, Crash(w) PROVE DecideReady'
  BY <1>0, <1>4, CrashFrame DEF DecideReady, Thread
<1>5. CASE UNCHANGED vars
  BY <1>0, <1>5 DEF vars, handlers, database, DecideReady, Thread
<1> QED BY <1>1, <1>2, <1>3, <1>4, <1>5 DEF Next

\* A call that ends as done without an approval left its thread's checkpoint
\* elsewhere than at an ask.
LEMMA DoneIsElsewhere ==
    ASSUME CalmInv, NEW r \in Requests, TraceSuccess(r), pc'[r] = "done"
    PROVE  cp[Thread(r)].at # "tools"
<1>1. pc[r] = "trace" /\ ~RecordsPause(r) /\ session[r] = "ok"
  BY DEF TraceSuccess, CalmInv, SafeInv, TypeInv, TypeOK
<1>2. mem[r].at # "tools"
  BY <1>1 DEF RecordsPause
<1>3. cp[Thread(r)] = mem[r]
  BY <1>1 DEF CalmInv, InSync, CleanOutside
<1> QED BY <1>2, <1>3

LEMMA PausedIsListedStep == CalmInv /\ [Next]_vars => PausedIsListed'
<1> SUFFICES ASSUME CalmInv, [Next]_vars PROVE PausedIsListed'
  OBVIOUS
<1>0. /\ TypeInv /\ PausedIsListed /\ StillPending
      /\ pc \in [Requests -> Steps] /\ job \in [Requests -> Job]
  BY DEF CalmInv, SafeInv, TypeInv, TypeOK
<1> SUFFICES ASSUME NEW t \in Threads,
                    Live(t)' = {},
                    \A r \in Requests : job'[r].thread = t => pc'[r] \notin {"failed", "lost"},
                    cp'[t].at = "tools"
             PROVE  PendingOn(t)' # {}
  BY DEF PausedIsListed, Thread
<1>a. \A s \in Requests : job'[s].thread = t => pc'[s] \in Ended \cup {"idle"}
  BY <1>0, StepType DEF Live, Running, Thread
\* Nothing of thread t changes: it was listed and still is.
<1>b. ASSUME approvals' = approvals, cp'[t] = cp[t],
             \A s \in Requests : job[s].thread = t => pc[s] \notin Active \cup {"failed", "lost"}
      PROVE  PendingOn(t)' # {}
  <2>1. Live(t) = {}
    BY <1>0, <1>b DEF Live, Running, Active, Thread
  <2>2. PendingOn(t) # {}
    BY <1>0, <1>b, <2>1 DEF PausedIsListed, Thread, Active
  <2> QED BY <1>b, <2>2 DEF PendingOn
<1>1. ASSUME NEW r \in Requests,
             \/ \E u \in Threads : Post(r, u)
             \/ \E a \in Requests, approved \in BOOLEAN : Decide(r, a, approved)
      PROVE  PendingOn(t)' # {}
  <2>1. /\ pc[r] = "idle"
        /\ \A s \in Requests \ {r} : pc'[s] = pc[s] /\ job'[s] = job[s]
        /\ UNCHANGED <<cp, approvals>>
    BY <1>0, <1>1, ArrivalFrame
  <2>2. \A s \in Requests : job[s].thread = t => pc[s] \notin Active \cup {"failed", "lost"}
    BY <1>0, <1>a, <2>1 DEF Active, Ended
  <2> QED BY <1>b, <2>1, <2>2
<1>2. ASSUME NEW r \in Requests, Handler(r) \/ Fails(r) PROVE PendingOn(t)' # {}
  <2>0. /\ job' = job
        /\ \A s \in Requests \ {r} : pc'[s] = pc[s]
        /\ r \in Running
        /\ \A u \in Threads \ {Thread(r)} : cp'[u] = cp[u]
    BY <1>0, <1>2, HandlerFrame, HandlerKeeps
  <2>1. CASE Thread(r) = t
    <3>1. pc'[r] \in Ended /\ pc'[r] \notin {"failed", "lost"}
      BY SMTT(30), <1>0, <1>2, <1>a, <2>0, <2>1, HandlerFrame DEF Thread
    <3>2. TraceSuccess(r) \/ Record(r)
      BY <1>0, <1>2, <3>1 DEF Handler, Commit, Resume, Begin, Invoke, Save, AgentTurn, ToolsComplete,
         Stepping, Pause, ToolsRaise, OutOfSteps, Return, TraceFailure, Fails, Ended
    <3>3. CASE TraceSuccess(r)
      <4>1. pc'[r] = "done" /\ cp' = cp
        BY <1>0, <3>1, <3>3 DEF TraceSuccess, Ended
      <4> QED BY <2>1, <3>3, <4>1, DoneIsElsewhere
    <3>4. CASE Record(r)
      BY <1>0, <2>1, <3>4, RecordRow DEF PendingOn
    <3> QED BY <3>2, <3>3, <3>4
  <2>2. CASE Thread(r) # t
    <3>1. \A s \in Requests : job[s].thread = t => s # r /\ pc[s] \notin Active \cup {"failed", "lost"}
      BY <1>0, <1>a, <2>0, <2>2 DEF Active, Ended, Thread
    <3>2. CASE approvals' = approvals
      BY <1>b, <2>0, <2>2, <3>1, <3>2
    <3>3. PendingOn(t) # {}
      <4>1. cp'[t] = cp[t] /\ Live(t) = {}
        BY <1>0, <2>0, <2>2, <3>1 DEF Live, Running, Active, Thread
      <4> QED BY <1>0, <3>1, <4>1 DEF PausedIsListed, Thread, Active
    <3>4. CASE Commit(r)
      <4>1. job[r].approval \notin PendingOn(t)
        BY <1>0, <2>2, <3>4 DEF StillPending, PendingOn, Commit
      <4> QED BY <1>0, <3>3, <3>4, <4>1, CommitRow DEF PendingOn
    <3>5. CASE Record(r)
      <4>1. r \notin PendingOn(t)
        BY <3>5 DEF Record, PendingOn, CalmInv, SafeInv, RecordIsLast
      <4> QED BY <1>0, <3>3, <3>5, <4>1, RecordRow DEF PendingOn
    <3> QED BY <1>2, <3>2, <3>4, <3>5, ApprovalsFrame
  <2> QED BY <2>1, <2>2
<1>3. ASSUME NEW w \in Workers, Crash(w) PROVE PendingOn(t)' # {}
  <2>1. \A s \in Requests : job[s].thread = t => pc'[s] = pc[s]
    BY <1>0, <1>3, CrashFrame
  <2> QED BY <1>0, <1>3, <1>a, <1>b, <2>1, CrashFrame DEF Active, Ended
<1>4. CASE UNCHANGED vars
  BY <1>0, <1>4, <1>a, <1>b DEF vars, handlers, database, Active, Ended
<1> QED BY <1>1, <1>2, <1>3, <1>4 DEF Next

LEMMA CalmStep == OneProcess /\ Polite /\ CalmInv /\ [Next]_vars => CalmInv'
<1> SUFFICES ASSUME OneProcess, Polite, CalmInv, [Next]_vars PROVE CalmInv'
  OBVIOUS
<1>1. SafeInv'
  BY SafeStep DEF CalmInv
<1>2. OneLive' /\ RowOfJob' /\ PendingIsAlone'
  BY OneLiveStep, RowOfJobStep, PendingIsAloneStep
<1>3. CleanOutside' /\ PauseIsUnanswered'
  BY CleanOutsideStep, PauseIsUnansweredStep DEF CalmInv, SafeInv
<1>4. InSync' /\ Awaited' /\ DecideReady' /\ PausedIsListed'
  BY InSyncStep, AwaitedStep, DecideReadyStep, PausedIsListedStep
<1> QED BY <1>1, <1>2, <1>3, <1>4 DEF CalmInv

\* With one process and clients that wait, an approval a reviewer can decide
\* is always the one its checkpoint is paused at (investigation.py:
\* _record_pending_approval), whatever handler fails or process dies.
THEOREM AwaitedCorrect == ASSUME OneProcess, Polite PROVE Spec => []AwaitedApproval
<1>1. Init => CalmInv
  BY InitCalm
<1>2. CalmInv /\ [Next]_vars => CalmInv'
  BY OneProcess, Polite, CalmStep
<1>3. CalmInv => AwaitedApproval
  BY DEF CalmInv, Awaited, AwaitedApproval, PendingOn, Unanswered
<1> QED BY <1>1, <1>2, <1>3, PTL DEF Spec

\* ... and a thread that stopped at an ask has its approval listed, unless a
\* call on it failed or was lost.
THEOREM PausedIsListedCorrect == ASSUME OneProcess, Polite PROVE Spec => []PausedIsListed
<1>1. Init => CalmInv
  BY InitCalm
<1>2. CalmInv /\ [Next]_vars => CalmInv'
  BY OneProcess, Polite, CalmStep
<1>3. CalmInv => PausedIsListed
  BY DEF CalmInv
<1> QED BY <1>1, <1>2, <1>3, PTL DEF Spec

------------------------------------------------------------------------------
(* The handlers implement the approval flow of ApprovalGate *)

\* A conversation grows: the verdicts in it answer different asks, all of them
\* made before the turn it is at, and the one about to join it answers the ask
\* it is paused at.
Fits(rows, c) ==
    /\ \A h \in c.heard : /\ rows[h.by].ask = h.ask
                          /\ h.ask <= c.turns
                          /\ c.at = "tools" => h.ask < c.turns
    /\ \A h, k \in c.heard : h.ask = k.ask => h = k
    /\ c.answer # NoAnswer => c.at = "tools" /\ rows[c.answer.by].ask = c.turns

ConversationsFit ==
    /\ \A t \in Threads : Fits(approvals, cp[t])
    /\ \A r \in Requests : Fits(approvals, mem[r])

\* What a handler has not written yet only adds to the checkpoint.
HeardGrows ==
    \A r \in Running : dirty[r] => cp[Thread(r)].heard \subseteq mem[r].heard

FlowInv == CalmInv /\ ConversationsFit /\ HeardGrows

LEMMA BlankFits == \A rows : Fits(rows, Blank)
  BY DEF Fits, Blank

LEMMA InitFlow == Init => FlowInv
<1> SUFFICES ASSUME Init PROVE FlowInv
  OBVIOUS
<1>1. ConversationsFit
  BY BlankFits DEF Init, ConversationsFit
<1>2. HeardGrows
  BY DEF Init, HeardGrows, Running
<1> QED BY <1>1, <1>2, InitCalm DEF FlowInv

LEMMA FitsStays ==
    ASSUME OneProcess, SafeInv, [Next]_vars, NEW t, NEW c,
           RealIn(approvals, t, c), Fits(approvals, c)
    PROVE  Fits(approvals', c)
<1>1. \A b \in Requests : Decided(b) => approvals'[b] = approvals[b]
  BY DecidedStays
<1>2. \A h \in c.heard : approvals'[h.by] = approvals[h.by]
  BY <1>1 DEF RealIn, Decided
<1>3. c.answer # NoAnswer => approvals'[c.answer.by] = approvals[c.answer.by]
  BY <1>1 DEF RealIn, Decided
<1> QED BY <1>2, <1>3 DEF Fits

\* How a handler's own conversation changes.
LEMMA HandlerFits ==
    ASSUME OneProcess, FlowInv, [Next]_vars, NEW r \in Requests, Handler(r) \/ Fails(r)
    PROVE  Fits(approvals', mem'[r])
<1>0. /\ SafeInv /\ TypeInv /\ ConversationsFit /\ ConversationsAreReal
      /\ mem \in [Requests -> Conversation] /\ cp \in [Threads -> Conversation]
      /\ job[r].thread \in Threads
  BY ConversationsDef, HandlerKeeps DEF FlowInv, CalmInv, SafeInv, TypeInv, TypeOK
<1>1. CASE mem'[r] = mem[r]
  BY <1>0, <1>1, FitsStays DEF ConversationsAreReal, ConversationsFit
<1>2. CASE mem'[r] = Blank
  BY <1>2, BlankFits
<1>3. CASE Invoke(r)
  <2> DEFINE t == job[r].thread
             answer == [by |-> job[r].approval, approved |-> job[r].approved]
  <2>0. cp[t] \in Conversation /\ Fits(approvals, cp[t]) /\ approvals' = approvals
    BY <1>0, <1>3 DEF Invoke, ConversationsFit, database
  <2>1. CASE job[r].kind = "decide"
    <3>1. mem'[r] = [cp[t] EXCEPT !.answer = answer]
      BY <1>0, <1>3, <2>1 DEF Invoke, Thread
    <3>2. /\ mem'[r].answer = answer /\ mem'[r].heard = cp[t].heard
          /\ mem'[r].at = cp[t].at /\ mem'[r].turns = cp[t].turns
      BY <2>0, <3>1 DEF Conversation
    <3>3. cp[t].at = "tools" /\ cp[t].turns = approvals[answer.by].ask
      BY <1>3, <2>1 DEF Invoke, FlowInv, CalmInv, DecideReady, Unanswered, Thread
    <3> HIDE DEF answer
    <3> QED BY <2>0, <3>2, <3>3 DEF Fits
  <2>2. CASE job[r].kind = "run" /\ pre[r].empty
    <3>1. mem'[r] = [cp[t] EXCEPT !.at = "agent", !.msg = NoMessage, !.answer = NoAnswer]
      BY <1>0, <1>3, <2>2 DEF Invoke, Thread
    <3>2. /\ mem'[r].answer = NoAnswer /\ mem'[r].heard = cp[t].heard
          /\ mem'[r].at = "agent" /\ mem'[r].turns = cp[t].turns
      BY <2>0, <3>1 DEF Conversation
    <3> QED BY <2>0, <3>2 DEF Fits
  <2>3. CASE job[r].kind = "run" /\ ~pre[r].empty
    <3>1. mem'[r] = cp[t]
      BY <1>0, <1>3, <2>3 DEF Invoke, Thread
    <3> QED BY <2>0, <3>1
  <2> QED BY <1>3, <2>1, <2>2, <2>3 DEF Invoke
<1>4. CASE AgentTurn(r)
  <2>0. /\ approvals' = approvals /\ Fits(approvals, mem[r])
        /\ mem[r].turns \in Nat /\ mem[r].heard \subseteq Verdict
    BY <1>0, <1>4 DEF AgentTurn, database, ConversationsFit, Conversation
  <2>1. PICK m \in Replies[Thread(r)] :
         mem' = [mem EXCEPT ![r] = [mem[r] EXCEPT
                   !.at = IF IsFinal(m) THEN "end" ELSE "tools",
                   !.msg = m, !.turns = @ + 1, !.answer = AnswerLeft(r)]]
    BY <1>4 DEF AgentTurn
  <2>2. mem'[r].answer = NoAnswer /\ mem'[r].heard = mem[r].heard /\ mem'[r].turns = mem[r].turns + 1
    BY <1>0, <2>1 DEF Conversation, AnswerLeft
  <2>3. \A h \in mem[r].heard : h.ask \in Nat /\ h.ask <= mem[r].turns
    BY <2>0 DEF Fits, Verdict
  <2>4. \A h \in mem[r].heard : h.ask <= mem[r].turns + 1 /\ h.ask < mem[r].turns + 1
    BY <2>0, <2>3
  <2> QED BY <2>0, <2>2, <2>4 DEF Fits
<1>5. CASE ToolsComplete(r)
  <2>0. /\ approvals' = approvals /\ Fits(approvals, mem[r]) /\ mem[r].at = "tools"
        /\ mem[r].turns \in Nat /\ mem[r].heard \subseteq Verdict
    BY <1>0, <1>5 DEF ToolsComplete, Stepping, ConversationsFit, Conversation
  <2>1. PICK ask \in AskOutcomes(r) :
         /\ ask = "interrupt" => mem[r].answer # NoAnswer
         /\ mem' = [mem EXCEPT ![r] = [mem[r] EXCEPT
                      !.at = "agent", !.msg = NoMessage, !.answer = AnswerLeft(r),
                      !.heard = IF ask = "interrupt"
                                  THEN @ \cup {[ask |-> mem[r].turns, by |-> mem[r].answer.by,
                                                approved |-> mem[r].answer.approved]}
                                  ELSE @]]
    BY <1>5 DEF ToolsComplete
  <2> DEFINE new == [ask |-> mem[r].turns, by |-> mem[r].answer.by,
                     approved |-> mem[r].answer.approved]
             heard == IF ask = "interrupt" THEN mem[r].heard \cup {new} ELSE mem[r].heard
  <2>2. mem'[r] = [mem[r] EXCEPT !.at = "agent", !.msg = NoMessage, !.answer = NoAnswer,
                                 !.heard = heard]
    BY <1>0, <2>1 DEF AnswerLeft
  <2>3. /\ heard \in {mem[r].heard, mem[r].heard \cup {new}}
        /\ heard # mem[r].heard => mem[r].answer # NoAnswer
    BY <2>1
  <2>4. new.ask = mem[r].turns /\ new.by = mem[r].answer.by
    OBVIOUS
  <2> HIDE DEF heard, new
  <2>5. /\ mem'[r].answer = NoAnswer /\ mem'[r].heard = heard
        /\ mem'[r].at = "agent" /\ mem'[r].turns = mem[r].turns
    BY <1>0, <2>2 DEF Conversation
  <2>6. \A h \in mem[r].heard : h.ask \in Nat /\ h.ask < mem[r].turns /\ h.ask # new.ask
    BY <2>0, <2>4 DEF Fits, Verdict
  <2>7. \A h \in heard : approvals[h.by].ask = h.ask /\ h.ask <= mem[r].turns
    BY <2>0, <2>3, <2>4, <2>6 DEF Fits
  <2>8. \A h, k \in heard : h.ask = k.ask => h = k
    BY <2>0, <2>3, <2>6 DEF Fits
  <2> QED BY <2>0, <2>5, <2>7, <2>8 DEF Fits
<1>6. \/ mem'[r] = mem[r] \/ mem'[r] = Blank
      \/ Invoke(r) \/ AgentTurn(r) \/ ToolsComplete(r)
  BY <1>0 DEF Handler, Commit, Begin, Save, Pause, ToolsRaise, OutOfSteps, Return, TraceSuccess,
     TraceFailure, Record, Fails, Unwind, handlers
<1> QED BY <1>1, <1>2, <1>3, <1>4, <1>5, <1>6

LEMMA ConversationsFitStep == OneProcess /\ FlowInv /\ [Next]_vars => ConversationsFit'
<1> SUFFICES ASSUME OneProcess, FlowInv, [Next]_vars PROVE ConversationsFit'
  OBVIOUS
<1>0. /\ SafeInv /\ TypeInv /\ ConversationsFit /\ ConversationsAreReal
      /\ mem \in [Requests -> Conversation] /\ cp \in [Threads -> Conversation]
  BY ConversationsDef DEF FlowInv, CalmInv, SafeInv, TypeInv, TypeOK
<1>c. \A t \in Threads : Fits(approvals', cp[t])
  BY <1>0, FitsStays DEF ConversationsAreReal, ConversationsFit
<1>m. \A r \in Requests : Fits(approvals', mem[r])
  BY <1>0, FitsStays DEF ConversationsAreReal, ConversationsFit
<1>1. ASSUME NEW r \in Requests,
             \/ \E t \in Threads : Post(r, t)
             \/ \E a \in Requests, approved \in BOOLEAN : Decide(r, a, approved)
      PROVE  ConversationsFit'
  BY <1>0, <1>1, <1>c, <1>m, ArrivalFrame DEF ConversationsFit
<1>2. ASSUME NEW r \in Requests, Handler(r) \/ Fails(r) PROVE ConversationsFit'
  <2>1. \A s \in Requests : Fits(approvals', mem'[s])
    BY <1>0, <1>2, <1>m, HandlerFrame, HandlerFits
  <2>2. CASE Save(r)
    <3>1. cp' = [cp EXCEPT ![Thread(r)] = mem[r]]
      BY <2>2 DEF Save
    <3> QED BY <1>0, <1>c, <1>m, <2>1, <3>1 DEF ConversationsFit
  <2> QED BY <1>2, <1>c, <2>1, <2>2, CheckpointFrame DEF ConversationsFit
<1>3. ASSUME NEW w \in Workers, Crash(w) PROVE ConversationsFit'
  BY <1>0, <1>3, <1>c, <1>m, BlankFits, CrashFrame DEF ConversationsFit
<1>4. CASE UNCHANGED vars
  BY <1>4, <1>c, <1>m DEF vars, handlers, ConversationsFit
<1> QED BY <1>1, <1>2, <1>3, <1>4 DEF Next

LEMMA HeardGrowsStep == FlowInv /\ [Next]_vars => HeardGrows'
<1> SUFFICES ASSUME FlowInv, [Next]_vars PROVE HeardGrows'
  OBVIOUS
<1>0. /\ CalmInv /\ TypeInv /\ HeardGrows /\ InSync /\ CleanOutside
      /\ pc \in [Requests -> Steps] /\ dirty \in [Requests -> BOOLEAN]
      /\ mem \in [Requests -> Conversation] /\ cp \in [Threads -> Conversation]
  BY DEF FlowInv, CalmInv, SafeInv, TypeInv, TypeOK
<1>1. ASSUME NEW r \in Requests,
             \/ \E t \in Threads : Post(r, t)
             \/ \E a \in Requests, approved \in BOOLEAN : Decide(r, a, approved)
      PROVE  HeardGrows'
  BY <1>0, <1>1, ArrivalFrame DEF HeardGrows, CleanOutside, Running, Thread
<1>2. ASSUME NEW r \in Requests, Handler(r) \/ Fails(r) PROVE HeardGrows'
  <2>0. /\ job' = job /\ r \in Running /\ Thread(r) \in Threads
        /\ \A s \in Requests \ {r} : pc'[s] = pc[s] /\ mem'[s] = mem[s] /\ dirty'[s] = dirty[s]
    BY <1>0, <1>2, HandlerFrame, HandlerKeeps DEF Thread
  <2>1. \A s \in Running \ {r} : cp'[Thread(s)] = cp[Thread(s)]
    BY <1>0, <1>2, OthersKeepCheckpoint
  <2> SUFFICES dirty'[r] => cp'[Thread(r)].heard \subseteq mem'[r].heard
    BY <1>0, <2>0, <2>1 DEF HeardGrows, Running, Thread
  <2>2. CASE Save(r)
    BY <1>0, <2>2 DEF Save
  <2>3. CASE AgentTurn(r) \/ ToolsComplete(r)
    <3>1. cp' = cp /\ pc[r] = "step"
      BY <2>3 DEF AgentTurn, ToolsComplete, Stepping
    <3>2. cp[Thread(r)].heard \subseteq mem[r].heard
      BY <1>0, <2>0, <3>1 DEF HeardGrows, InSync
    <3>3. mem[r].heard \subseteq mem'[r].heard
      <4>1. CASE AgentTurn(r)
        <5>1. PICK m \in Replies[Thread(r)] :
           mem' = [mem EXCEPT ![r] = [mem[r] EXCEPT
                     !.at = IF IsFinal(m) THEN "end" ELSE "tools",
                     !.msg = m, !.turns = @ + 1, !.answer = AnswerLeft(r)]]
          BY <4>1 DEF AgentTurn
        <5> QED BY <1>0, <5>1 DEF Conversation
      <4>2. CASE ToolsComplete(r)
        <5>1. PICK ask \in AskOutcomes(r) :
           mem' = [mem EXCEPT ![r] = [mem[r] EXCEPT
                      !.at = "agent", !.msg = NoMessage, !.answer = AnswerLeft(r),
                      !.heard = IF ask = "interrupt"
                                  THEN @ \cup {[ask |-> mem[r].turns, by |-> mem[r].answer.by,
                                                approved |-> mem[r].answer.approved]}
                                  ELSE @]]
          BY <4>2 DEF ToolsComplete
        <5> DEFINE new == [ask |-> mem[r].turns, by |-> mem[r].answer.by,
                           approved |-> mem[r].answer.approved]
                   heard == IF ask = "interrupt" THEN mem[r].heard \cup {new} ELSE mem[r].heard
        <5>2. mem'[r] = [mem[r] EXCEPT !.at = "agent", !.msg = NoMessage,
                                       !.answer = AnswerLeft(r), !.heard = heard]
          BY <1>0, <5>1
        <5>3. mem[r].heard \subseteq heard
          OBVIOUS
        <5> HIDE DEF heard, new
        <5> QED BY <1>0, <5>2, <5>3 DEF Conversation
      <4> QED BY <2>3, <4>1, <4>2
    <3> QED BY <3>1, <3>2, <3>3
  <2>4. CASE Invoke(r)
    <3> DEFINE t == Thread(r)
    <3>1. cp' = cp /\ cp[t] \in Conversation
      BY <1>0, <2>0, <2>4 DEF Invoke
    <3>2. CASE job[r].kind = "decide"
      <4> DEFINE answer == [by |-> job[r].approval, approved |-> job[r].approved]
      <4>1. mem'[r] = [cp[t] EXCEPT !.answer = answer]
        BY <1>0, <2>4, <3>2 DEF Invoke
      <4> HIDE DEF answer
      <4> QED BY <3>1, <4>1 DEF Conversation
    <3>3. CASE job[r].kind = "run" /\ pre[r].empty
      <4>1. mem'[r] = [cp[t] EXCEPT !.at = "agent", !.msg = NoMessage, !.answer = NoAnswer]
        BY <1>0, <2>4, <3>3 DEF Invoke
      <4> QED BY <3>1, <4>1 DEF Conversation
    <3>4. CASE job[r].kind = "run" /\ ~pre[r].empty
      BY <1>0, <2>4, <3>1, <3>4 DEF Invoke
    <3> QED BY <2>4, <3>2, <3>3, <3>4 DEF Invoke
  <2>5. CASE mem'[r] = mem[r] /\ dirty'[r] = dirty[r] /\ cp' = cp
    BY <2>0, <2>5, <1>0 DEF HeardGrows
  <2>6. CASE dirty'[r] = FALSE
    BY <2>6
  <2>7. \/ Save(r) \/ AgentTurn(r) \/ ToolsComplete(r) \/ Invoke(r)
        \/ mem'[r] = mem[r] /\ dirty'[r] = dirty[r] /\ cp' = cp
        \/ dirty'[r] = FALSE
    BY <1>0, <1>2 DEF Handler, Commit, Begin, Pause, ToolsRaise, OutOfSteps, Return, TraceSuccess,
       TraceFailure, Record, Fails, Unwind, handlers
  <2> QED BY <2>2, <2>3, <2>4, <2>5, <2>6, <2>7
<1>3. ASSUME NEW w \in Workers, Crash(w) PROVE HeardGrows'
  BY <1>0, <1>3, CrashFrame DEF HeardGrows, Running, Thread, Ended
<1>4. CASE UNCHANGED vars
  BY <1>0, <1>4 DEF vars, handlers, HeardGrows, Running, Thread
<1> QED BY <1>1, <1>2, <1>3, <1>4 DEF Next

LEMMA FlowStep == OneProcess /\ Polite /\ FlowInv /\ [Next]_vars => FlowInv'
  BY CalmStep, ConversationsFitStep, HeardGrowsStep DEF FlowInv

LEMMA GateInit == Init => Gate!Init
  BY DEF Init, Gate!Init, Blank

\* Commit is the reviewer's decision.
LEMMA CommitDecides ==
    ASSUME FlowInv, NEW r \in Requests, Commit(r), NEW a \in Requests, a = job[r].approval
    PROVE  Gate!Decide(a)
<1> DEFINE Row == [b \in Requests |-> [status |-> approvals[b].status,
                                       thread |-> approvals[b].thread,
                                       ask |-> approvals[b].ask]]
<1>0. TypeInv /\ approvals \in [Requests -> Approval]
  BY DEF FlowInv, CalmInv, SafeInv, TypeInv, TypeOK
<1>1. /\ \A b \in Requests \ {a} : approvals'[b] = approvals[b]
      /\ approvals'[a].status \in {"approved", "rejected"}
      /\ \A b \in Requests : /\ approvals'[b].thread = approvals[b].thread
                             /\ approvals'[b].ask = approvals[b].ask
  BY <1>0, CommitRow
<1>2. approvals[a].status = "pending"
  BY DEF Commit, FlowInv, CalmInv, SafeInv, StillPending
<1>3. cp' = cp
  BY DEF Commit
<1>4. \A b \in Requests : Row'[b] = IF b = a THEN [Row[b] EXCEPT !.status = Row'[a].status]
                                             ELSE Row[b]
  BY <1>1
<1>5. Row' = [Row EXCEPT ![a] = [Row[a] EXCEPT !.status = Row'[a].status]]
  <2>1. Row' = [b \in Requests |-> IF b = a THEN [Row[b] EXCEPT !.status = Row'[a].status]
                                            ELSE Row[b]]
    BY <1>4
  <2> QED BY <2>1
<1>6. Row[a].status = "pending" /\ Row'[a].status \in {"approved", "rejected"}
  BY <1>1, <1>2
<1> QED BY <1>1, <1>3, <1>5, <1>6 DEF Gate!Decide

\* Record is the ask: nothing else waits on its thread, and the turn it asks
\* at has no verdict.
LEMMA RecordAsks ==
    ASSUME FlowInv, NEW r \in Requests, Record(r)
    PROVE  Gate!Ask(r)
<1> DEFINE t == Thread(r)
           Row == [b \in Requests |-> [status |-> approvals[b].status,
                                       thread |-> approvals[b].thread,
                                       ask |-> approvals[b].ask]]
<1>0. /\ CalmInv /\ TypeInv /\ PendingIsAlone /\ RecordIsLast /\ ConversationsFit
      /\ approvals \in [Requests -> Approval]
      /\ pc[r] = "record" /\ cp' = cp /\ r \in Running
  BY HandlerKeeps DEF FlowInv, CalmInv, SafeInv, TypeInv, TypeOK, Record, Handler
<1>1. t \in Threads /\ mem[r].turns \in Nat
  BY <1>0 DEF TypeInv, TypeOK, WellFormed, JobsOK, Active, Steps, Ended, Thread, Conversation
<1>2. mem[r].at = "tools" /\ cp[t] = mem[r]
  BY <1>0 DEF CalmInv, SafeInv, TypeInv, WellFormed, PausesOK, CleanOutside, InSync
<1>3. \A h \in cp[t].heard : h.ask \in Nat /\ h.ask < mem[r].turns
  BY <1>1, <1>2 DEF FlowInv, CalmInv, SafeInv, TypeInv, TypeOK, Conversation, Verdict,
     ConversationsFit, Fits
<1>4. mem[r].turns \notin {h.ask : h \in cp[t].heard}
  BY <1>1, <1>3
<1>5. \A b \in Requests : ~(approvals[b].thread = t /\ approvals[b].status = "pending")
  BY <1>0 DEF PendingIsAlone
<1>6. approvals[r].status = "none"
  BY <1>0 DEF RecordIsLast
<1>7. /\ \A b \in Requests \ {r} : approvals'[b] = approvals[b]
      /\ approvals'[r].status = "pending" /\ approvals'[r].thread = t
      /\ approvals'[r].ask = mem[r].turns
  BY <1>0, RecordRow
<1> HIDE DEF t
<1>8. Row' = [Row EXCEPT ![r] = [status |-> "pending", thread |-> Row'[r].thread,
                                 ask |-> Row'[r].ask]]
  BY <1>7
<1>9. /\ Row[r].status = "none" /\ Row'[r].status = "pending"
      /\ Row'[r].thread = t /\ Row'[r].ask = mem[r].turns
  BY <1>6, <1>7
<1>10. ~\E b \in Requests : Row[b].thread = t /\ Row[b].status = "pending"
  BY <1>5
<1> QED BY <1>0, <1>1, <1>4, <1>8, <1>9, <1>10 DEF Gate!Ask, Gate!Answered, Gate!Waiting

\* Save tells the conversation what its handler has heard since the last
\* checkpoint.
LEMMA SaveTells ==
    ASSUME FlowInv, NEW r \in Requests, Save(r), NEW t \in Threads, t = Thread(r)
    PROVE  Gate!Tell(t)
<1> DEFINE Row == [b \in Requests |-> [status |-> approvals[b].status,
                                       thread |-> approvals[b].thread,
                                       ask |-> approvals[b].ask]]
           Told == [u \in Threads |-> cp[u].heard]
           fresh == mem[r].heard \ cp[t].heard
<1>0. /\ CalmInv /\ TypeInv /\ PendingIsAlone /\ ConversationsFit /\ VerdictsAreReal
      /\ pc[r] # "commit" /\ approvals' = approvals /\ dirty[r]
      /\ cp' = [cp EXCEPT ![t] = mem[r]]
      /\ cp \in [Threads -> Conversation] /\ mem[r] \in Conversation
      /\ r \in Running
  BY HandlerKeeps DEF FlowInv, CalmInv, SafeInv, TypeInv, TypeOK, Save, Handler, database
<1>2. cp[t].heard \subseteq mem[r].heard
  BY <1>0 DEF FlowInv, HeardGrows
<1>3. Fits(approvals, mem[r])
  BY <1>0 DEF ConversationsFit
<1>3a. \A b \in Requests : ~(approvals[b].thread = t /\ approvals[b].status = "pending")
  BY <1>0 DEF PendingIsAlone
<1>4. ~\E b \in Requests : Row[b].thread = t /\ Row[b].status = "pending"
  BY <1>3a
<1>5. ASSUME NEW h \in fresh
      PROVE  \E a \in {b \in Requests : /\ Row[b].thread = t
                                        /\ Row[b].status \in {"approved", "rejected"}} :
               h = [ask |-> Row[a].ask, by |-> a, approved |-> Row[a].status = "approved"]
  <2>1. h \in Verdict /\ h \in mem[r].heard
    BY <1>0 DEF Conversation
  <2>2. /\ h.by \in Requests /\ approvals[h.by].thread = t
        /\ approvals[h.by].status = IF h.approved THEN "approved" ELSE "rejected"
        /\ approvals[h.by].ask = h.ask
    BY <1>0, <1>3, <2>1 DEF VerdictsAreReal, Real, Fits
  <2>3. h = [ask |-> h.ask, by |-> h.by, approved |-> h.approved] /\ h.approved \in BOOLEAN
    BY <2>1 DEF Verdict
  <2>4. h.approved = (approvals[h.by].status = "approved")
    BY <2>2, <2>3
  <2>5. h.by \in {b \in Requests : /\ Row[b].thread = t
                                   /\ Row[b].status \in {"approved", "rejected"}}
    BY <2>2
  <2>6. h = [ask |-> Row[h.by].ask, by |-> h.by, approved |-> Row[h.by].status = "approved"]
    BY <2>2, <2>3, <2>4
  <2> QED BY <2>5, <2>6
<1>6. \A h \in fresh : h.ask \notin {k.ask : k \in Told[t]}
  BY <1>2, <1>3 DEF Fits
<1>7. \A h, k \in fresh : h.ask = k.ask => h = k
  BY <1>3 DEF Fits
<1>8. Told' = [Told EXCEPT ![t] = Told[t] \cup fresh]
  <2>1. \A u \in Threads : cp'[u].heard = IF u = t THEN cp[t].heard \cup fresh ELSE cp[u].heard
    BY <1>0, <1>2
  <2> QED BY <2>1
<1>9. Row' = Row
  BY <1>0
<1>10. fresh \in SUBSET Gate!Verdicts(t)
  BY <1>5 DEF Gate!Verdicts
<1> HIDE DEF fresh
<1> QED BY <1>4, <1>6, <1>7, <1>8, <1>9, <1>10 DEF Gate!Tell, Gate!Waiting, Gate!Answered

LEMMA GateStep == FlowInv /\ [Next]_vars => [Gate!Next]_(Gate!vars)
<1> SUFFICES ASSUME FlowInv, [Next]_vars PROVE [Gate!Next]_(Gate!vars)
  OBVIOUS
<1>0. TypeInv
  BY DEF FlowInv, CalmInv, SafeInv
<1>1. CASE approvals' = approvals /\ cp' = cp
  BY <1>1 DEF Gate!vars
<1>2. ASSUME NEW r \in Requests, Commit(r) PROVE Gate!Next
  <2>1. PICK a \in Requests : a = job[r].approval
    BY <1>0, <1>2, CommitRow
  <2>2. Gate!Decide(a)
    BY <1>2, <2>1, CommitDecides
  <2> QED BY <2>2 DEF Gate!Next
<1>3. ASSUME NEW r \in Requests, Record(r) PROVE Gate!Next
  BY <1>3, RecordAsks DEF Gate!Next
<1>4. ASSUME NEW r \in Requests, Save(r) PROVE Gate!Next
  <2>1. Handler(r)
    BY <1>4 DEF Handler
  <2>2. PICK t \in Threads : t = Thread(r)
    BY <1>0, <2>1, HandlerKeeps DEF Thread
  <2>3. Gate!Tell(t)
    BY <1>4, <2>2, SaveTells
  <2> QED BY <2>3 DEF Gate!Next
<1>5. \/ approvals' = approvals /\ cp' = cp
      \/ \E r \in Requests : Commit(r) \/ Record(r) \/ Save(r)
  <2>1. ASSUME NEW r \in Requests, Handler(r) \/ Fails(r)
        PROVE  (approvals' = approvals /\ cp' = cp) \/ Commit(r) \/ Record(r) \/ Save(r)
    BY <2>1, ApprovalsFrame, CheckpointFrame
  <2> QED BY <2>1 DEF Next, Post, Decide, Crash, vars, database
<1> QED BY <1>1, <1>2, <1>3, <1>4, <1>5

\* With one process and clients that wait, the handlers, their checkpoints,
\* their failures and crashes of the process implement the approval flow of
\* ApprovalGate: each ask is recorded, decided and told once (investigation.py
\* and approvals.py).
THEOREM ImplementsGateCorrect == ASSUME OneProcess, Polite PROVE Spec => ImplementsGate
<1>1. Init => FlowInv /\ Gate!Init
  BY InitFlow, GateInit
<1>2. FlowInv /\ [Next]_vars => FlowInv'
  BY OneProcess, Polite, FlowStep
<1>3. FlowInv /\ [Next]_vars => [Gate!Next]_(Gate!vars)
  BY GateStep
<1> QED BY <1>1, <1>2, <1>3, PTL DEF Spec, ImplementsGate, Gate!Spec

------------------------------------------------------------------------------
(* Agents that name their own case                                          *)

\* The model's calls name the case of the thread they run on.
OwnCases == \A t \in Threads : \A m \in Replies[t] : m.about \in {t, NoThread}

MessagesAreReplies ==
    /\ \A t \in Threads : cp[t].msg \in Replies[t] \cup {NoMessage}
    /\ \A r \in Requests : mem[r].msg # NoMessage => mem[r].msg \in Replies[Thread(r)]

OwnRows ==
    \A a \in Requests : approvals[a].status # "none" => approvals[a].case = approvals[a].thread

CaseInv == CalmInv /\ MessagesAreReplies /\ OwnRows /\ CaseShowsItsApproval

LEMMA InitCase == Init => CaseInv
<1> SUFFICES ASSUME Init PROVE CaseInv
  OBVIOUS
<1>1. MessagesAreReplies /\ OwnRows
  BY DEF Init, Blank, MessagesAreReplies, OwnRows
<1>2. CaseShowsItsApproval
  BY DEF Init, CaseShowsItsApproval
<1> QED BY <1>1, <1>2, InitCalm DEF CaseInv

LEMMA HandlerMessage ==
    ASSUME TypeInv, MessagesAreReplies, NEW r \in Requests, Handler(r) \/ Fails(r)
    PROVE  mem'[r].msg # NoMessage => mem'[r].msg \in Replies[Thread(r)]
<1>0. /\ mem \in [Requests -> Conversation] /\ cp \in [Threads -> Conversation]
      /\ Thread(r) \in Threads
  BY HandlerKeeps DEF TypeInv, TypeOK, Thread
<1>1. CASE mem'[r] = mem[r]
  BY <1>1 DEF MessagesAreReplies
<1>2. CASE mem'[r] = Blank
  BY <1>2 DEF Blank
<1>3. CASE Invoke(r)
  <2> DEFINE t == Thread(r)
             answer == [by |-> job[r].approval, approved |-> job[r].approved]
  <2>0. cp[t] \in Conversation
    BY <1>0
  <2>1. CASE job[r].kind = "decide"
    <3>1. mem'[r] = [cp[t] EXCEPT !.answer = answer]
      BY <1>0, <1>3, <2>1 DEF Invoke
    <3> HIDE DEF answer
    <3>2. mem'[r].msg = cp[t].msg
      BY <2>0, <3>1 DEF Conversation
    <3> QED BY <1>0, <3>2 DEF MessagesAreReplies
  <2>2. CASE job[r].kind = "run" /\ pre[r].empty
    <3>1. mem'[r] = [cp[t] EXCEPT !.at = "agent", !.msg = NoMessage, !.answer = NoAnswer]
      BY <1>0, <1>3, <2>2 DEF Invoke
    <3> QED BY <2>0, <3>1 DEF Conversation
  <2>3. CASE job[r].kind = "run" /\ ~pre[r].empty
    BY <1>0, <1>3, <2>3 DEF Invoke, MessagesAreReplies
  <2> QED BY <1>3, <2>1, <2>2, <2>3 DEF Invoke
<1>4. CASE AgentTurn(r)
  <2>1. PICK m \in Replies[Thread(r)] :
         mem' = [mem EXCEPT ![r] = [mem[r] EXCEPT
                   !.at = IF IsFinal(m) THEN "end" ELSE "tools",
                   !.msg = m, !.turns = @ + 1, !.answer = AnswerLeft(r)]]
    BY <1>4 DEF AgentTurn
  <2>2. mem'[r].msg = m
    BY <1>0, <2>1 DEF Conversation
  <2> QED BY <2>2
<1>5. CASE ToolsComplete(r)
  <2>1. mem'[r].msg = NoMessage
    BY <1>0, <1>5 DEF ToolsComplete, Conversation
  <2> QED BY <2>1
<1>6. \/ mem'[r] = mem[r] \/ mem'[r] = Blank
      \/ Invoke(r) \/ AgentTurn(r) \/ ToolsComplete(r)
  BY <1>0 DEF Handler, Commit, Begin, Save, Pause, ToolsRaise, OutOfSteps, Return, TraceSuccess,
     TraceFailure, Record, Fails, Unwind, handlers
<1> QED BY <1>1, <1>2, <1>3, <1>4, <1>5, <1>6

LEMMA MessagesStep ==
    SafeInv /\ MessagesAreReplies /\ [Next]_vars => MessagesAreReplies'
<1> SUFFICES ASSUME SafeInv, MessagesAreReplies, [Next]_vars PROVE MessagesAreReplies'
  OBVIOUS
<1>0. /\ TypeInv /\ IdleIsBlank /\ Blank.msg = NoMessage
      /\ mem \in [Requests -> Conversation] /\ cp \in [Threads -> Conversation]
  BY DEF SafeInv, TypeInv, TypeOK, Blank
<1>1. ASSUME NEW r \in Requests,
             \/ \E t \in Threads : Post(r, t)
             \/ \E a \in Requests, approved \in BOOLEAN : Decide(r, a, approved)
      PROVE  MessagesAreReplies'
  BY <1>0, <1>1, ArrivalFrame DEF MessagesAreReplies, IdleIsBlank, Thread
<1>2. ASSUME NEW r \in Requests, Handler(r) \/ Fails(r) PROVE MessagesAreReplies'
  <2>1. job' = job /\ \A s \in Requests \ {r} : mem'[s] = mem[s]
    BY <1>0, <1>2, HandlerFrame
  <2>2. \A s \in Requests : mem'[s].msg # NoMessage => mem'[s].msg \in Replies[Thread(s)]
    BY <1>0, <1>2, <2>1, HandlerMessage DEF MessagesAreReplies
  <2>3. \A t \in Threads : cp'[t].msg \in Replies[t] \cup {NoMessage}
    <3>1. CASE Save(r)
      <4>1. cp' = [cp EXCEPT ![Thread(r)] = mem[r]]
        BY <3>1 DEF Save
      <4> QED BY <1>0, <4>1 DEF MessagesAreReplies
    <3> QED BY <1>2, <3>1, CheckpointFrame DEF MessagesAreReplies
  <2> QED BY <2>1, <2>2, <2>3 DEF MessagesAreReplies, Thread
<1>3. ASSUME NEW w \in Workers, Crash(w) PROVE MessagesAreReplies'
  BY <1>0, <1>3, CrashFrame DEF MessagesAreReplies, Thread
<1>4. CASE UNCHANGED vars
  BY <1>4 DEF vars, handlers, MessagesAreReplies, Thread
<1> QED BY <1>1, <1>2, <1>3, <1>4 DEF Next

LEMMA OwnRowsStep == OwnCases /\ CaseInv /\ [Next]_vars => OwnRows'
<1> SUFFICES ASSUME OwnCases, CaseInv, [Next]_vars PROVE OwnRows'
  OBVIOUS
<1>0. TypeInv /\ OwnRows /\ MessagesAreReplies
  BY DEF CaseInv, CalmInv, SafeInv
<1>1. CASE approvals' = approvals
  BY <1>0, <1>1 DEF OwnRows
<1>2. ASSUME NEW r \in Requests, Commit(r) PROVE OwnRows'
  <2>1. approvals[job[r].approval].status # "none"
    BY <1>0, <1>2 DEF Commit, TypeInv, WellFormed, JobsOK
  <2> QED BY <1>0, <1>2, <2>1, CommitRow DEF OwnRows
<1>3. ASSUME NEW r \in Requests, Record(r) PROVE OwnRows'
  <2>1. /\ mem[r].msg.asks /\ mem[r].msg \in Message /\ Thread(r) \in Threads
    BY <1>0, <1>3 DEF Record, TypeInv, TypeOK, WellFormed, JobsOK, PausesOK, Active, Steps, Ended,
       Conversation, Thread
  <2>2. mem[r].msg # NoMessage
    BY <2>1 DEF NoMessage
  <2>3. mem[r].msg.about \in Threads /\ mem[r].msg.about \in {Thread(r), NoThread}
    BY <1>0, <2>1, <2>2 DEF Message, MessagesAreReplies, OwnCases
  <2>4. mem[r].msg.about = Thread(r)
    BY <2>3, ConstantsAssumption
  <2> QED BY <1>0, <1>3, <2>4, RecordRow DEF OwnRows
<1> QED BY <1>0, <1>1, <1>2, <1>3, RowsFrame

\* A tool's case write touches the status of the thread's own case only.
LEMMA OwnWrite ==
    ASSUME OwnCases, TypeInv, MessagesAreReplies, NEW r \in Requests, pc[r] = "step", MayLand(r)
    PROVE  /\ \A c \in Threads : cases'[c].pending = cases[c].pending
           /\ \A c \in Threads \ {Thread(r)} : cases'[c] = cases[c]
<1>0. cases \in [Threads -> Case] /\ mem[r].msg \in Message /\ Thread(r) \in Threads
  BY DEF TypeInv, TypeOK, Conversation, WellFormed, JobsOK, Active, Steps, Ended, Thread
<1>1. CASE cases' = cases
  BY <1>1
<1>2. CASE Writes(r) /\ cases' = Written(r)
  <2> DEFINE status == IF mem[r].msg.does = "create" THEN "open" ELSE mem[r].msg.does
  <2>1. WriteTarget(r) = Thread(r)
    <3>1. CASE mem[r].msg.does = "create"
      BY <3>1 DEF WriteTarget
    <3>2. CASE mem[r].msg.does # "create"
      <4>1. mem[r].msg.does \in Updates
        BY <1>2, <3>2 DEF Writes
      <4>2. mem[r].msg # NoMessage /\ mem[r].msg.about \in Threads
        BY <1>0, <4>1 DEF Updates, NoMessage, Message
      <4>3. mem[r].msg.about \in {Thread(r), NoThread}
        BY <1>0, <4>2 DEF MessagesAreReplies, OwnCases
      <4> QED BY <3>2, <4>2, <4>3, ConstantsAssumption DEF WriteTarget
    <3> QED BY <3>1, <3>2
  <2>2. cases' = [cases EXCEPT ![Thread(r)].status = status]
    BY <1>2, <2>1 DEF Written
  <2> HIDE DEF status
  <2> QED BY SMTT(30), <1>0, <2>2 DEF Case
<1> QED BY <1>1, <1>2 DEF MayLand, WriteLands, CreateFails

LEMMA CasesFrame ==
    ASSUME NEW r \in Requests, Handler(r) \/ Fails(r)
    PROVE  \/ cases' = cases
           \/ Commit(r) \/ Record(r)
           \/ pc[r] = "step" /\ MayLand(r) /\ approvals' = approvals
  BY DEF Handler, Fails, Begin, Invoke, Save, AgentTurn, ToolsComplete, Stepping, Pause, ToolsRaise,
     OutOfSteps, Return, TraceSuccess, TraceFailure, MayLand, WriteLands, database

LEMMA CaseShowsStep == OwnCases /\ CaseInv /\ [Next]_vars => CaseShowsItsApproval'
<1> SUFFICES ASSUME OwnCases, CaseInv, [Next]_vars PROVE CaseShowsItsApproval'
  OBVIOUS
<1>0. /\ TypeInv /\ OwnRows /\ MessagesAreReplies /\ CaseShowsItsApproval /\ PendingIsAlone
      /\ StillPending /\ cases \in [Threads -> Case]
  BY DEF CaseInv, CalmInv, SafeInv, TypeInv, TypeOK
<1>1. CASE UNCHANGED <<cases, approvals>>
  BY <1>0, <1>1 DEF CaseShowsItsApproval
<1>2. ASSUME NEW r \in Requests, Handler(r) \/ Fails(r) PROVE CaseShowsItsApproval'
  <2>0. r \in Running /\ Thread(r) \in Threads
    BY <1>0, <1>2, HandlerKeeps DEF Thread
  <2>1. CASE Commit(r)
    <3> DEFINE a == job[r].approval
    <3>1. /\ a \in Requests /\ approvals[a].status = "pending" /\ approvals[a].thread = Thread(r)
          /\ approvals'[a].status # "pending"
          /\ \A b \in Requests \ {a} : approvals'[b] = approvals[b]
      BY <1>0, <2>1, CommitRow DEF Commit, StillPending
    <3>2. approvals[a].case = Thread(r)
      BY <1>0, <3>1 DEF OwnRows
    <3>3. cases' = [cases EXCEPT ![Thread(r)].pending = FALSE]
      BY <2>1, <3>2 DEF Commit, ClearPending
    <3>4. /\ cases'[Thread(r)].pending = FALSE
          /\ \A c \in Threads \ {Thread(r)} : cases'[c] = cases[c]
      BY <1>0, <2>0, <3>3 DEF Case
    <3>5. \A b \in Requests \ {a} : approvals[b].status = "pending" => approvals[b].case # Thread(r)
      BY <1>0, <3>1 DEF OwnRows, PendingIsAlone
    <3> HIDE DEF a
    <3>6. ~\E b \in Requests : approvals'[b].status = "pending" /\ approvals'[b].case = Thread(r)
      BY <3>1, <3>5
    <3>7. \A c \in Threads \ {Thread(r)} :
            (\E b \in Requests : approvals'[b].status = "pending" /\ approvals'[b].case = c)
              <=> (\E b \in Requests : approvals[b].status = "pending" /\ approvals[b].case = c)
      BY <3>1, <3>2
    <3> QED BY <1>0, <3>4, <3>6, <3>7 DEF CaseShowsItsApproval
  <2>2. CASE Record(r)
    <3>1. /\ \A b \in Requests \ {r} : approvals'[b] = approvals[b]
          /\ approvals'[r].status = "pending" /\ approvals'[r].case = mem[r].msg.about
      BY <1>0, <2>2, RecordRow
    <3>2. cases' = [cases EXCEPT ![mem[r].msg.about] = [status |-> "in_review", pending |-> TRUE]]
      BY <2>2 DEF Record
    <3>3. approvals[r].status = "none"
      BY <2>2 DEF Record, CaseInv, CalmInv, SafeInv, RecordIsLast
    <3> QED BY <1>0, <3>1, <3>2, <3>3 DEF CaseShowsItsApproval
  <2>3. CASE pc[r] = "step" /\ MayLand(r) /\ approvals' = approvals
    <3>1. /\ \A c \in Threads : cases'[c].pending = cases[c].pending
          /\ \A c \in Threads \ {Thread(r)} : cases'[c] = cases[c]
      BY <1>0, <2>3, OwnWrite
    <3>2. ~\E b \in Requests : approvals[b].status = "pending" /\ approvals[b].case = Thread(r)
      BY <1>0, <2>0, <2>3 DEF OwnRows, PendingIsAlone
    <3> QED BY <1>0, <2>3, <3>1, <3>2 DEF CaseShowsItsApproval
  <2> QED BY <1>1, <1>2, <2>1, <2>2, <2>3, CasesFrame, ApprovalsFrame
<1>3. ASSUME NEW r \in Requests,
             \/ \E t \in Threads : Post(r, t)
             \/ \E a \in Requests, approved \in BOOLEAN : Decide(r, a, approved)
      PROVE  CaseShowsItsApproval'
  BY <1>0, <1>1, <1>3, ArrivalFrame
<1> QED BY <1>1, <1>2, <1>3 DEF Next, Crash, vars, database

LEMMA CaseStep == OneProcess /\ Polite /\ OwnCases /\ CaseInv /\ [Next]_vars => CaseInv'
  BY CalmStep, MessagesStep, OwnRowsStep, CaseShowsStep DEF CaseInv, CalmInv

\* With one process, clients that wait and an agent that names its own case,
\* cases.pending_approval_action and case_approvals always say the same, and
\* a case that waits for a reviewer is in review (repositories/case.py:
\* set_pending_approval and clear_pending_approval).
THEOREM CaseShowsCorrect ==
    ASSUME OneProcess, Polite, OwnCases PROVE Spec => []CaseShowsItsApproval
<1>1. Init => CaseInv
  BY InitCase
<1>2. CaseInv /\ [Next]_vars => CaseInv'
  BY OneProcess, Polite, OwnCases, CaseStep
<1>3. CaseInv => CaseShowsItsApproval
  BY DEF CaseInv
<1> QED BY <1>1, <1>2, <1>3, PTL DEF Spec

------------------------------------------------------------------------------
(* Sums over finite sets                                                    *)

Pick(s) == CHOOSE x \in s : TRUE

\* it[s] is the sum of f over s, for every s \subseteq S.
Sums(it, f, S) ==
    it = [s \in SUBSET S |-> IF s = {} THEN 0 ELSE f[Pick(s)] + it[s \ {Pick(s)}]]

Total(f, S) == (CHOOSE it : Sums(it, f, S))[S]

LEMMA Least ==
    ASSUME NEW B \in SUBSET Nat, B # {}
    PROVE  \E n \in B : \A m \in B : n <= m
<1>1. PICK n \in B : \A m \in B : ~ (<<m, n>> \in OpToRel(<, Nat))
  BY WFMin, NatLessThanWellFounded
<1>2. \A m \in B : ~ (m < n)
  BY <1>1 DEF OpToRel
<1> QED BY <1>2

LEMMA PickIn == \A s : s # {} => Pick(s) \in s
BY DEF Pick

LEMMA SumExists ==
    ASSUME NEW S, IsFiniteSet(S), NEW f
    PROVE  \E it : Sums(it, f, S)
<1> DEFINE Small(n) == {s \in SUBSET S : Cardinality(s) <= n}
           Body(it, s) == IF s = {} THEN 0 ELSE f[Pick(s)] + it[s \ {Pick(s)}]
           Upto(it, n) == it = [s \in Small(n) |-> Body(it, s)]
           Bad == {n \in Nat : \A it : ~Upto(it, n)}
<1>1. Cardinality(S) \in Nat /\ \A s \in SUBSET S : IsFiniteSet(s) /\ Cardinality(s) \in Nat
  BY FS_CardinalityType, FS_Subset
<1>2. Bad = {}
  <2>1. SUFFICES ASSUME Bad # {} PROVE FALSE
    OBVIOUS
  <2>2. PICK n \in Bad : \A m \in Bad : n <= m
    BY <2>1, Least
  <2>3. CASE n = 0
    <3> DEFINE it == [s \in Small(0) |-> 0]
    <3>1. \A s \in Small(0) : s = {}
      BY <1>1, FS_EmptySet
    <3>2. Upto(it, 0)
      BY <3>1
    <3> QED BY <2>3, <3>2
  <2>4. CASE n # 0
    <3>1. n - 1 \in Nat /\ n - 1 \notin Bad
      <4>1. n \in Nat
        OBVIOUS
      <4> HIDE DEF Bad
      <4> QED BY <2>2, <2>4, <4>1
    <3>2. PICK it : Upto(it, n - 1)
      BY <3>1
    <3> DEFINE jt == [s \in Small(n) |-> Body(it, s)]
    <3>3. ASSUME NEW s \in Small(n) PROVE Body(it, s) = Body(jt, s)
      <4>1. CASE s = {}
        BY <4>1
      <4>2. CASE s # {}
        <5> DEFINE t == s \ {Pick(s)}
        <5>1. t \in SUBSET S /\ Cardinality(t) = Cardinality(s) - 1
          BY <1>1, <4>2, PickIn, FS_RemoveElement
        <5>2. t \in Small(n - 1) /\ t \in Small(n)
          BY <5>1, <1>1
        <5>3. it[t] = Body(it, t) /\ jt[t] = Body(it, t)
          BY <3>2, <5>2
        <5> QED BY <4>2, <5>3
      <4> QED BY <4>1, <4>2
    <3>4. Upto(jt, n)
      BY <3>3
    <3> QED BY <2>2, <3>4
  <2> QED BY <2>3, <2>4
<1>3. PICK it : Upto(it, Cardinality(S))
  <2> HIDE DEF Upto
  <2> QED BY <1>1, <1>2
<1>4. Small(Cardinality(S)) = SUBSET S
  BY FS_Subset, FS_CardinalityType
<1> QED BY <1>3, <1>4 DEF Sums
\* Induction on the size of a set, as a smallest counterexample.
LEMMA Smallest ==
    ASSUME NEW S, IsFiniteSet(S), NEW B \in SUBSET (SUBSET S), B # {}
    PROVE  \E s \in B : IsFiniteSet(s) /\ \A x \in s : s \ {x} \notin B
<1> DEFINE Sizes == {Cardinality(s) : s \in B}
<1>1. \A s \in B : IsFiniteSet(s) /\ Cardinality(s) \in Nat
  BY FS_CardinalityType, FS_Subset
<1>2. Sizes \in SUBSET Nat /\ Sizes # {}
  BY <1>1
<1>3. PICK n \in Sizes : \A m \in Sizes : n <= m
  BY <1>2, Least
<1>4. PICK s \in B : n = Cardinality(s)
  OBVIOUS
<1>5. ASSUME NEW x \in s PROVE s \ {x} \notin B
  <2>1. Cardinality(s \ {x}) = n - 1 /\ n \in Nat
    BY <1>1, <1>4, FS_RemoveElement
  <2> QED BY <1>3, <2>1
<1> QED BY <1>1, <1>5

LEMMA SumUnique ==
    ASSUME NEW S, IsFiniteSet(S), NEW T \in SUBSET S, NEW f, NEW it, NEW jt,
           Sums(it, f, S), Sums(jt, f, T)
    PROVE  it[T] = jt[T]
<1> DEFINE Bad == {s \in SUBSET T : it[s] # jt[s]}
<1>1. SUFFICES ASSUME Bad # {} PROVE FALSE
  OBVIOUS
<1>2. IsFiniteSet(T)
  BY FS_Subset
<1>3. PICK s \in Bad : \A x \in s : s \ {x} \notin Bad
  BY <1>1, <1>2, Smallest
<1>4. CASE s = {}
  BY <1>4 DEF Sums
<1>5. CASE s # {}
  <2>1. Pick(s) \in s
    BY <1>5, PickIn
  <2>2. it[s] = f[Pick(s)] + it[s \ {Pick(s)}] /\ jt[s] = f[Pick(s)] + jt[s \ {Pick(s)}]
    BY <1>5 DEF Sums
  <2> QED BY <1>3, <2>1, <2>2
<1> QED BY <1>4, <1>5

LEMMA TotalOf ==
    ASSUME NEW S, IsFiniteSet(S), NEW f
    PROVE  Total(f, S) = IF S = {} THEN 0 ELSE f[Pick(S)] + Total(f, S \ {Pick(S)})
<1>1. \A T \in SUBSET S : Sums(CHOOSE it : Sums(it, f, T), f, T)
  BY SumExists, FS_Subset
<1> DEFINE it(T) == CHOOSE it : Sums(it, f, T)
<1>2. Sums(it(S), f, S)
  BY <1>1
<1>3. S # {} => it(S)[S \ {Pick(S)}] = it(S \ {Pick(S)})[S \ {Pick(S)}]
  <2>1. S \ {Pick(S)} \in SUBSET S
    OBVIOUS
  <2>2. Sums(it(S \ {Pick(S)}), f, S \ {Pick(S)})
    BY <1>1, <2>1
  <2> HIDE DEF it
  <2> QED BY <1>2, <2>1, <2>2, SumUnique
<1>4. it(S)[S] = IF S = {} THEN 0 ELSE f[Pick(S)] + it(S)[S \ {Pick(S)}]
  <2> HIDE DEF it
  <2> QED BY <1>2 DEF Sums
<1> QED BY <1>3, <1>4 DEF Total

LEMMA TotalType ==
    ASSUME NEW S, IsFiniteSet(S), NEW f, \A x \in S : f[x] \in Nat
    PROVE  Total(f, S) \in Nat
<1> DEFINE Bad == {s \in SUBSET S : Total(f, s) \notin Nat}
<1>1. SUFFICES ASSUME Bad # {} PROVE FALSE
  OBVIOUS
<1>2. PICK s \in Bad : IsFiniteSet(s) /\ \A x \in s : s \ {x} \notin Bad
  BY <1>1, Smallest
<1>3. Total(f, s) = IF s = {} THEN 0 ELSE f[Pick(s)] + Total(f, s \ {Pick(s)})
  BY <1>2, TotalOf
<1>4. CASE s = {}
  BY <1>3, <1>4
<1>5. CASE s # {}
  BY <1>2, <1>3, <1>5, PickIn
<1> QED BY <1>4, <1>5

\* Whichever element is added last.
LEMMA TotalAny ==
    ASSUME NEW S, IsFiniteSet(S), NEW f, \A x \in S : f[x] \in Nat, NEW x \in S
    PROVE  Total(f, S) = f[x] + Total(f, S \ {x})
<1> DEFINE Bad == {s \in SUBSET S : \E y \in s : Total(f, s) # f[y] + Total(f, s \ {y})}
<1>1. SUFFICES ASSUME Bad # {} PROVE FALSE
  OBVIOUS
<1>2. PICK s \in Bad : IsFiniteSet(s) /\ \A y \in s : s \ {y} \notin Bad
  BY <1>1, Smallest
<1>3. PICK y \in s : Total(f, s) # f[y] + Total(f, s \ {y})
  OBVIOUS
<1> DEFINE z == Pick(s)
<1>4. z \in s /\ Total(f, s) = f[z] + Total(f, s \ {z})
  BY <1>2, <1>3, TotalOf, PickIn
<1>5. z # y
  BY <1>3, <1>4
<1> HIDE DEF z
<1> DEFINE u == s \ {y}
           v == s \ {z}
           w == u \ {z}
<1>6. Total(f, v) = f[y] + Total(f, v \ {y})
  BY <1>2, <1>4, <1>5
<1>7. Total(f, u) = f[z] + Total(f, u \ {z})
  BY <1>2, <1>4, <1>5
<1>8. v \ {y} = w /\ w \in SUBSET S /\ IsFiniteSet(w)
  BY <1>2, FS_Subset
<1>9. Total(f, w) \in Nat /\ f[y] \in Nat /\ f[z] \in Nat
  BY <1>4, <1>8, TotalType
<1> HIDE DEF u, v, w, Bad
<1>10. Total(f, s) = f[z] + (f[y] + Total(f, w)) /\ Total(f, u) = f[z] + Total(f, w)
  BY <1>4, <1>6, <1>7, <1>8 DEF w, v
<1>11. Total(f, s) # f[y] + Total(f, u)
  BY <1>3 DEF u
<1> QED BY <1>9, <1>10, <1>11

LEMMA TotalSame ==
    ASSUME NEW S, IsFiniteSet(S), NEW f, NEW g, \A x \in S : f[x] = g[x]
    PROVE  Total(f, S) = Total(g, S)
<1> DEFINE Bad == {s \in SUBSET S : Total(f, s) # Total(g, s)}
<1>1. SUFFICES ASSUME Bad # {} PROVE FALSE
  OBVIOUS
<1>2. PICK s \in Bad : IsFiniteSet(s) /\ \A x \in s : s \ {x} \notin Bad
  BY <1>1, Smallest
<1>3. /\ Total(f, s) = IF s = {} THEN 0 ELSE f[Pick(s)] + Total(f, s \ {Pick(s)})
      /\ Total(g, s) = IF s = {} THEN 0 ELSE g[Pick(s)] + Total(g, s \ {Pick(s)})
  BY <1>2, TotalOf
<1>4. CASE s = {}
  BY <1>3, <1>4
<1>5. CASE s # {}
  BY <1>2, <1>3, <1>5, PickIn
<1> QED BY <1>4, <1>5

------------------------------------------------------------------------------
(* What traces add up to *)

FiniteRequests == IsFiniteSet(Requests)

Members(t) == {r \in Requests : Thread(r) = t}
Turns(rows) == [r \in Requests |-> rows[r].turns]

\* usage_by_thread is the sum that the lemmas above are about.
LEMMA SpreadTotal ==
    ASSUME NEW rows, NEW S \in SUBSET Requests, IsFiniteSet(S)
    PROVE  MapThenSumSet(LAMBDA r : rows[r].turns, S) = Total(Turns(rows), S)
<1> DEFINE P(it) == it = [s \in SUBSET S |->
                            IF s = {} THEN 0
                            ELSE rows[CHOOSE x \in s : TRUE].turns + it[s \ {CHOOSE x \in s : TRUE}]]
           iter == CHOOSE it : P(it)
<1>1. MapThenSumSet(LAMBDA r : rows[r].turns, S) = iter[S]
  BY DEF MapThenSumSet, MapThenFoldSet
<1>2. ASSUME NEW it PROVE P(it) <=> Sums(it, Turns(rows), S)
  <2>1. \A s \in SUBSET S : s # {} => Turns(rows)[Pick(s)] = rows[CHOOSE x \in s : TRUE].turns
    BY PickIn DEF Pick, Turns
  <2>2. [s \in SUBSET S |->
           IF s = {} THEN 0
           ELSE rows[CHOOSE x \in s : TRUE].turns + it[s \ {CHOOSE x \in s : TRUE}]]
        = [s \in SUBSET S |->
             IF s = {} THEN 0 ELSE Turns(rows)[Pick(s)] + it[s \ {Pick(s)}]]
    BY <2>1 DEF Pick
  <2> QED BY <2>2 DEF Sums
<1>3. \E it : P(it)
  <2> HIDE DEF P
  <2> QED BY <1>2, SumExists
<1>4. Sums(iter, Turns(rows), S)
  <2> HIDE DEF P
  <2>1. P(CHOOSE it : P(it))
    BY <1>3, Zenon
  <2> QED BY <1>2, <2>1
<1>5. Sums(CHOOSE it : Sums(it, Turns(rows), S), Turns(rows), S)
  BY SumExists
<1> HIDE DEF iter
<1>6. iter[S] = Total(Turns(rows), S)
  BY <1>4, <1>5, SumUnique DEF Total
<1> QED BY <1>1, <1>6

LEMMA UsageTotal ==
    ASSUME FiniteRequests, NEW t
    PROVE  /\ UsageByThread(t) = Total(Turns(traces), Members(t))
           /\ UsageByThread(t)' = Total(Turns(traces'), Members(t)')
<1>1. IsFiniteSet(Members(t)) /\ IsFiniteSet(Members(t)')
  BY FS_Subset DEF FiniteRequests, Members
<1>2. MapThenSumSet(LAMBDA r : traces[r].turns, Members(t)) = Total(Turns(traces), Members(t))
  BY <1>1, SpreadTotal DEF Members
<1>3. MapThenSumSet(LAMBDA r : traces'[r].turns, Members(t)') = Total(Turns(traces'), Members(t)')
  BY <1>1, SpreadTotal DEF Members
<1>4. UsageByThread(t) = MapThenSumSet(LAMBDA r : traces[r].turns, Members(t))
  BY DEF UsageByThread, Members, MapThenSumSet, MapThenFoldSet
<1>5. UsageByThread(t)' = MapThenSumSet(LAMBDA r : traces'[r].turns, Members(t)')
  BY DEF UsageByThread, Members, MapThenSumSet, MapThenFoldSet
<1>6. UsageByThread(t) = Total(Turns(traces), Members(t))
  BY <1>2, <1>4
<1>7. UsageByThread(t)' = Total(Turns(traces'), Members(t)')
  BY <1>3, <1>5
<1> QED BY <1>6, <1>7

\* Elements of which f is 0 do not count.
LEMMA TotalOfNonzero ==
    ASSUME NEW S, IsFiniteSet(S), NEW f, \A x \in S : f[x] \in Nat
    PROVE  Total(f, S) = Total(f, {x \in S : f[x] # 0})
<1> DEFINE Some(s) == {x \in s : f[x] # 0}
           Bad == {s \in SUBSET S : Total(f, s) # Total(f, Some(s))}
<1>1. SUFFICES ASSUME Bad # {} PROVE FALSE
  OBVIOUS
<1>2. PICK s \in Bad : IsFiniteSet(s) /\ \A x \in s : s \ {x} \notin Bad
  BY <1>1, Smallest
<1>3. CASE s = {}
  <2>1. Some(s) = s
    BY <1>3
  <2> QED BY <2>1
<1>4. CASE s # {}
  <2> DEFINE z == Pick(s)
             t == s \ {z}
  <2>1. z \in s /\ Total(f, s) = f[z] + Total(f, t)
    BY <1>2, <1>4, TotalOf, PickIn
  <2> HIDE DEF z
  <2>2. Total(f, t) = Total(f, Some(t))
    BY <1>2, <2>1
  <2>3. t \in SUBSET S /\ IsFiniteSet(t)
    BY <1>2, FS_Subset
  <2>4. Total(f, t) \in Nat
    BY <2>3, TotalType
  <2>5. CASE f[z] = 0
    <3>1. Some(s) = Some(t)
      BY <2>5
    <3> HIDE DEF Some, t
    <3>2. Total(f, s) = Total(f, Some(s))
      BY <2>1, <2>2, <2>4, <2>5, <3>1
    <3> QED BY <3>2
  <2>6. CASE f[z] # 0
    <3>1. z \in Some(s) /\ Some(s) \ {z} = Some(t) /\ \A x \in Some(s) : f[x] \in Nat
      BY <2>1, <2>6
    <3>2. IsFiniteSet(Some(s))
      BY <1>2, FS_Subset
    <3>3. Total(f, Some(s)) = f[z] + Total(f, Some(s) \ {z})
      <4> HIDE DEF Some
      <4> QED BY <3>1, <3>2, TotalAny
    <3>4. Total(f, s) = Total(f, Some(s))
      <4> HIDE DEF Some, t
      <4> QED BY <2>1, <2>2, <3>1, <3>3
    <3> QED BY <3>4
  <2> QED BY <2>5, <2>6
<1> QED BY <1>3, <1>4

\* Sums over the same nonzero elements are the same.
LEMMA TotalFrame ==
    ASSUME NEW S, NEW T, IsFiniteSet(S), IsFiniteSet(T), NEW f, NEW g,
           \A x \in S : f[x] \in Nat, \A x \in T : g[x] \in Nat,
           \A x \in S \cap T : f[x] = g[x],
           \A x \in S \ T : f[x] = 0, \A x \in T \ S : g[x] = 0
    PROVE  Total(f, S) = Total(g, T)
<1> DEFINE U == {x \in S : f[x] # 0}
           V == {x \in T : g[x] # 0}
<1>1. U = V /\ \A x \in U : f[x] = g[x]
  OBVIOUS
<1>2. IsFiniteSet(U)
  BY FS_Subset
<1>3. Total(f, S) = Total(f, U) /\ Total(g, T) = Total(g, V)
  BY TotalOfNonzero
<1>4. Total(f, U) = Total(g, U)
  <2> HIDE DEF U
  <2> QED BY <1>1, <1>2, TotalSame
<1> HIDE DEF U, V
<1> QED BY <1>1, <1>3, <1>4

LEMMA UsageType ==
    ASSUME FiniteRequests, TypeInv
    PROVE  \A t : UsageByThread(t) \in Nat
<1> SUFFICES ASSUME NEW t PROVE UsageByThread(t) \in Nat
  OBVIOUS
<1>1. IsFiniteSet(Members(t)) /\ \A r \in Members(t) : Turns(traces)[r] \in Nat
  BY FS_Subset DEF FiniteRequests, Members, Turns, TypeInv, TypeOK, TraceRow
<1> QED BY <1>1, UsageTotal, TotalType

\* A handler that has traced nothing may join a thread.
LEMMA UsageStays ==
    ASSUME FiniteRequests, TypeInv, NEW t,
           \A r \in Requests : traces'[r].turns = traces[r].turns,
           \A r \in Requests : Thread(r)' = Thread(r) \/ traces[r].turns = 0
    PROVE  UsageByThread(t)' = UsageByThread(t)
<1> DEFINE S == Members(t)
           T == Members(t)'
           f == Turns(traces)
           g == Turns(traces')
<1>1. IsFiniteSet(S) /\ IsFiniteSet(T)
  BY FS_Subset DEF FiniteRequests, Members
<1>2. /\ \A r \in S : f[r] \in Nat
      /\ \A r \in T : g[r] \in Nat
      /\ \A r \in S \cap T : f[r] = g[r]
      /\ \A r \in S \ T : f[r] = 0
      /\ \A r \in T \ S : g[r] = 0
  BY DEF Members, Turns, TypeInv, TypeOK, TraceRow
<1>3. UsageByThread(t) = Total(f, S) /\ UsageByThread(t)' = Total(g, T)
  BY UsageTotal
<1> HIDE DEF S, T, f, g
<1>4. Total(f, S) = Total(g, T)
  BY <1>1, <1>2, TotalFrame
<1> QED BY <1>3, <1>4

\* A trace adds its turns to those of its thread.
LEMMA UsageGrows ==
    ASSUME FiniteRequests, TypeInv, job' = job, NEW r \in Requests, traces[r].turns = 0,
           NEW n \in Nat, traces'[r].turns = n, NEW t,
           \A s \in Requests \ {r} : traces'[s] = traces[s]
    PROVE  UsageByThread(t)' = UsageByThread(t) + (IF t = Thread(r) THEN n ELSE 0)
<1> DEFINE S == Members(t)
           f == Turns(traces)
           g == Turns(traces')
<1>0. Members(t)' = S
  BY DEF Members, Thread
<1>1. IsFiniteSet(S) /\ IsFiniteSet(S \ {r})
  BY FS_Subset DEF FiniteRequests, Members
<1>2. /\ \A s \in S : f[s] \in Nat /\ g[s] \in Nat
      /\ \A s \in S \ {r} : f[s] = g[s]
      /\ f[r] = 0 /\ g[r] = n
  BY DEF Members, Turns, TypeInv, TypeOK, TraceRow
<1>3. UsageByThread(t) = Total(f, S) /\ UsageByThread(t)' = Total(g, S)
  BY <1>0, UsageTotal
<1>4. r \in S <=> t = Thread(r)
  BY DEF Members
<1> HIDE DEF S, f, g
<1>5. Total(f, S \ {r}) = Total(g, S \ {r}) /\ Total(f, S \ {r}) \in Nat
  BY <1>1, <1>2, TotalSame, TotalType
<1>6. CASE r \in S
  <2>1. Total(f, S) = f[r] + Total(f, S \ {r}) /\ Total(g, S) = g[r] + Total(g, S \ {r})
    BY <1>1, <1>2, <1>6, TotalAny
  <2> QED BY <1>2, <1>3, <1>4, <1>5, <1>6, <2>1
<1>7. CASE r \notin S
  <2>1. S \ {r} = S
    BY <1>7
  <2> QED BY <1>3, <1>4, <1>5, <1>7, <2>1
<1> QED BY <1>6, <1>7

\* A call on the thread ended, or is about to end, without its turns traced.
Clean(t) == \A r \in Requests : Thread(r) = t => pc[r] \notin {"failed", "lost", "except"}

\* The handler has seen where its thread was, and traces what is after it.
Counting == {"invoke", "step", "paused", "trace"}

Untraced ==
    \A r \in Requests : pc[r] \notin {"record", "done", "failed", "lost"} => traces[r].turns = 0

\* No turn of a checkpoint is traced twice, nor one that the model did not take.
Ordered == \A t \in Threads : UsageByThread(t) <= cp[t].turns /\ cp[t].turns <= spent[t]

Settled ==
    \A t \in Threads :
        Clean(t) /\ (\A r \in Running : Thread(r) # t) =>
            UsageByThread(t) = cp[t].turns /\ cp[t].turns = spent[t]

\* What was traced before is what a handler saw, and what it has not written
\* is ahead of the checkpoint.
RunAdds(r, t) ==
    /\ pc[r] \in Counting => UsageByThread(t) <= pre[r].turns /\ pre[r].turns <= cp[t].turns
    /\ dirty[r] => cp[t].turns <= mem[r].turns /\ mem[r].turns <= spent[t]
    /\ Clean(t) =>
         /\ dirty[r] => mem[r].turns = spent[t]
         /\ ~dirty[r] => cp[t].turns = spent[t]
         /\ pc[r] \in Counting => UsageByThread(t) = pre[r].turns
         /\ pc[r] \notin Counting => UsageByThread(t) = cp[t].turns

RunsAdd == \A r \in Running, t \in Threads : Thread(r) = t => RunAdds(r, t)

TraceInv == CalmInv /\ Untraced /\ Ordered /\ Settled /\ RunsAdd

LEMMA InitTrace == FiniteRequests /\ Init => TraceInv
<1> SUFFICES ASSUME FiniteRequests, Init PROVE TraceInv
  OBVIOUS
<1>1. CalmInv /\ TypeInv
  BY InitCalm, InitType
<1>2. /\ \A r \in Requests : pc[r] = "idle" /\ traces[r].turns = 0 /\ Thread(r) = NoThread
      /\ \A t \in Threads : cp[t].turns = 0 /\ spent[t] = 0
  BY DEF Init, Blank, Thread, NoJob
<1>3. ASSUME NEW t \in Threads PROVE UsageByThread(t) = 0
  <2>1. Members(t) = {}
    BY <1>2, ConstantsAssumption DEF Members
  <2>2. UsageByThread(t) = Total(Turns(traces), {})
    BY <2>1, UsageTotal
  <2> QED BY <2>2, TotalOf, FS_EmptySet
<1>4. Running = {}
  BY <1>2 DEF Running
<1> QED BY <1>1, <1>2, <1>3, <1>4 DEF TraceInv, Untraced, Ordered, Settled, RunsAdd

\* The numbers of turns are naturals.
LEMMA TurnsType ==
    ASSUME FiniteRequests, TypeInv
    PROVE  /\ \A t : UsageByThread(t) \in Nat
           /\ \A t \in Threads : cp[t].turns \in Nat /\ spent[t] \in Nat
           /\ \A r \in Requests : mem[r].turns \in Nat /\ pre[r].turns \in Nat /\ dirty[r] \in BOOLEAN
<1>1. /\ cp \in [Threads -> Conversation] /\ spent \in [Threads -> Nat]
      /\ mem \in [Requests -> Conversation] /\ dirty \in [Requests -> BOOLEAN]
      /\ pre \in [Requests -> [empty : BOOLEAN, turns : Nat]]
  BY DEF TypeInv, TypeOK
<1>2. \A c \in Conversation : c.turns \in Nat
  BY DEF Conversation
<1> QED BY <1>1, <1>2, UsageType

LEMMA UntracedStep == TypeInv /\ Untraced /\ [Next]_vars => Untraced'
<1> SUFFICES ASSUME TypeInv, Untraced, [Next]_vars PROVE Untraced'
  OBVIOUS
<1>0. pc \in [Requests -> Steps] /\ traces \in [Requests -> TraceRow]
  BY DEF TypeInv, TypeOK
<1>1. ASSUME NEW r \in Requests,
             \/ \E t \in Threads : Post(r, t)
             \/ \E a \in Requests, approved \in BOOLEAN : Decide(r, a, approved)
      PROVE  Untraced'
  <2>1. traces' = traces
    BY <1>1 DEF Post, Decide, database
  <2> QED BY <1>1, <2>1, ArrivalFrame DEF Untraced
<1>2. ASSUME NEW r \in Requests, Handler(r) \/ Fails(r) PROVE Untraced'
  <2>1. \A s \in Requests \ {r} : pc'[s] = pc[s]
    BY <1>2, HandlerFrame
  <2>2. CASE TraceSuccess(r) \/ TraceFailure(r)
    <3>1. pc'[r] \in {"record", "done", "failed"}
      BY <1>0, <2>2 DEF TraceSuccess, TraceFailure
    <3>2. \A s \in Requests \ {r} : traces'[s] = traces[s]
      BY <1>0, <2>2 DEF TraceSuccess, TraceFailure
    <3> QED BY <2>1, <3>1, <3>2 DEF Untraced
  <2>3. CASE traces' = traces /\ (pc[r] = "record" => pc'[r] = "done")
    <3>1. pc[r] \notin {"done", "failed", "lost"}
      BY <1>2, HandlerFrame DEF Active, Ended
    <3> QED BY <2>1, <2>3, <3>1 DEF Untraced
  <2>4. CASE Record(r)
    BY <1>0, <2>3, <2>4 DEF Record
  <2>5. CASE Commit(r) \/ Begin(r) \/ Invoke(r) \/ Save(r) \/ AgentTurn(r) \/ ToolsComplete(r)
    BY ZenonT(40), <2>3, <2>5 DEF Commit, Begin, Invoke, Save, AgentTurn, Stepping, ToolsComplete, database
  <2>6. CASE Pause(r) \/ ToolsRaise(r) \/ OutOfSteps(r) \/ Return(r) \/ Fails(r)
    BY <2>3, <2>6 DEF Pause, ToolsRaise, OutOfSteps, Return, Fails, Stepping, database
  <2> QED BY <1>2, <2>2, <2>4, <2>5, <2>6 DEF Handler
<1>3. ASSUME NEW w \in Workers, Crash(w) PROVE Untraced'
  <2>1. traces' = traces
    BY <1>3 DEF Crash, database, Unwind
  <2> QED BY <1>3, <2>1, CrashFrame DEF Untraced
<1>4. CASE UNCHANGED vars
  BY <1>4 DEF vars, database, Untraced
<1> QED BY <1>1, <1>2, <1>3, <1>4 DEF Next

\* A handler changes what is counted on its own thread only.
LEMMA TurnsFrame ==
    ASSUME TypeInv, NEW r \in Requests, Handler(r) \/ Fails(r)
    PROVE  /\ \A s \in Requests \ {r} : pre'[s] = pre[s]
           /\ \A t \in Threads \ {Thread(r)} : spent'[t] = spent[t]
<1>0. /\ pre \in [Requests -> [empty : BOOLEAN, turns : Nat]] /\ spent \in [Threads -> Nat]
  BY DEF TypeInv, TypeOK
<1>1. CASE Commit(r) \/ OutOfSteps(r) \/ Return(r)
  BY <1>1 DEF Commit, OutOfSteps, Return, handlers, history
<1>2. CASE Begin(r) \/ Invoke(r) \/ Save(r)
  BY <1>0, <1>2 DEF Begin, Invoke, Save, history
<1>3. CASE AgentTurn(r) \/ ToolsComplete(r)
  BY <1>0, <1>3 DEF AgentTurn, ToolsComplete
<1>4. CASE Pause(r) \/ ToolsRaise(r) \/ Fails(r)
  BY <1>4 DEF Pause, ToolsRaise, Fails
<1>5. CASE TraceSuccess(r)
  BY <1>0, <1>5 DEF TraceSuccess, Unwind, history
<1>6. CASE TraceFailure(r) \/ Record(r)
  BY <1>0, <1>6 DEF TraceFailure, Record, Unwind, history
<1> QED BY <1>1, <1>2, <1>3, <1>4, <1>5, <1>6 DEF Handler

LEMMA HandlerReduces ==
    ASSUME FiniteRequests, TraceInv, NEW r \in Requests, Handler(r) \/ Fails(r),
           NEW t \in Threads, Thread(r) = t,
           \A u \in Threads \ {t} : UsageByThread(u)' = UsageByThread(u),
           UsageByThread(t)' <= cp'[t].turns, cp'[t].turns <= spent'[t],
           pc'[r] \notin Ended => RunAdds(r, t)',
           pc'[r] \in Ended /\ Clean(t)' =>
              UsageByThread(t)' = cp'[t].turns /\ cp'[t].turns = spent'[t]
    PROVE  Ordered' /\ Settled' /\ RunsAdd'
<1>0. TypeInv /\ OneLive
  BY DEF TraceInv, CalmInv, SafeInv
<1>1. /\ job' = job /\ r \in Running /\ pc'[r] # "idle"
      /\ \A s \in Requests \ {r} : pc'[s] = pc[s] /\ mem'[s] = mem[s]
                                   /\ dirty'[s] = dirty[s] /\ pre'[s] = pre[s]
      /\ \A u \in Threads \ {t} : cp'[u] = cp[u] /\ spent'[u] = spent[u]
  BY <1>0, HandlerFrame, HandlerKeeps, TurnsFrame
<1>2. \A s \in Requests : Thread(s)' = Thread(s)
  BY <1>1 DEF Thread
<1>3. \A u : u # t => (Clean(u)' <=> Clean(u))
  BY <1>1, <1>2 DEF Clean
<1>4. Ordered'
  <2>1. \A u \in Threads : UsageByThread(u)' <= cp'[u].turns /\ cp'[u].turns <= spent'[u]
    <3> SUFFICES ASSUME NEW u \in Threads
                 PROVE  UsageByThread(u)' <= cp'[u].turns /\ cp'[u].turns <= spent'[u]
      OBVIOUS
    <3>1. CASE u = t
      BY <3>1
    <3>2. CASE u # t
      BY <1>1, <3>2 DEF TraceInv, Ordered
    <3> QED BY <3>1, <3>2
  <2> QED BY <2>1 DEF Ordered
<1>5. Settled'
  <2> SUFFICES ASSUME NEW u \in Threads, Clean(u)', \A s \in Running' : Thread(s)' # u
               PROVE  UsageByThread(u)' = cp'[u].turns /\ cp'[u].turns = spent'[u]
    BY DEF Settled
  <2>1. CASE u = t
    <3>1. r \notin Running'
      BY <1>2, <2>1
    <3>2. pc'[r] \in Ended
      BY <1>1, <3>1 DEF Running
    <3> QED BY <2>1, <3>2
  <2>2. CASE u # t
    <3>1. \A s \in Running : Thread(s) # u
      BY <1>1, <1>2, <2>2 DEF Running
    <3>2. Clean(u)
      BY <1>3, <2>2
    <3> QED BY <1>1, <2>2, <3>1, <3>2 DEF TraceInv, Settled
  <2> QED BY <2>1, <2>2
<1>6. ASSUME NEW s \in Running', NEW u \in Threads, Thread(s)' = u PROVE RunAdds(s, u)'
  <2>1. CASE s = r
    <3>1. u = t
      BY <1>2, <1>6, <2>1
    <3> QED BY <2>1, <3>1 DEF Running
  <2>2. CASE s # r
    <3>1. s \in Running /\ s \in Requests
      BY <1>1, <2>2 DEF Running
    <3>2. u # t /\ Thread(s) = u
      BY <1>0, <1>1, <1>2, <1>6, <2>2, <3>1 DEF OneLive
    <3>3. RunAdds(s, u)
      BY <3>1, <3>2 DEF TraceInv, RunsAdd
    <3>4. /\ pc'[s] = pc[s] /\ mem'[s] = mem[s] /\ dirty'[s] = dirty[s]
          /\ pre'[s] = pre[s] /\ cp'[u] = cp[u] /\ spent'[u] = spent[u]
          /\ UsageByThread(u)' = UsageByThread(u)
          /\ (Clean(u)' <=> Clean(u))
      BY <1>1, <1>3, <2>2, <3>1, <3>2
    <3> QED BY <3>3, <3>4 DEF RunAdds
  <2> QED BY <2>1, <2>2
<1> QED BY <1>4, <1>5, <1>6 DEF RunsAdd

\* What a handler's step does to the numbers of its thread.
LEMMA HandlerAdds ==
    ASSUME FiniteRequests, TraceInv, NEW r \in Requests, Handler(r) \/ Fails(r),
           NEW t \in Threads, Thread(r) = t
    PROVE  /\ \A u \in Threads \ {t} : UsageByThread(u)' = UsageByThread(u)
           /\ UsageByThread(t)' <= cp'[t].turns /\ cp'[t].turns <= spent'[t]
           /\ pc'[r] \notin Ended => RunAdds(r, t)'
           /\ pc'[r] \in Ended /\ Clean(t)' =>
                UsageByThread(t)' = cp'[t].turns /\ cp'[t].turns = spent'[t]
<1> DEFINE Goal == /\ UsageByThread(t)' <= cp'[t].turns /\ cp'[t].turns <= spent'[t]
                   /\ pc'[r] \notin Ended => RunAdds(r, t)'
                   /\ pc'[r] \in Ended /\ Clean(t)' =>
                        UsageByThread(t)' = cp'[t].turns /\ cp'[t].turns = spent'[t]
           Others == \A u \in Threads \ {t} : UsageByThread(u)' = UsageByThread(u)
<1>0. TypeInv
  BY DEF TraceInv, CalmInv, SafeInv
<1>1. /\ pc \in [Requests -> Steps] /\ mem \in [Requests -> Conversation]
      /\ cp \in [Threads -> Conversation] /\ spent \in [Threads -> Nat]
      /\ dirty \in [Requests -> BOOLEAN] /\ job \in [Requests -> Job]
      /\ pre \in [Requests -> [empty : BOOLEAN, turns : Nat]]
      /\ traces \in [Requests -> TraceRow]
  BY <1>0 DEF TypeInv, TypeOK
<1>2. /\ UsageByThread(t) \in Nat /\ cp[t].turns \in Nat /\ spent[t] \in Nat
      /\ mem[r].turns \in Nat /\ pre[r].turns \in Nat /\ dirty[r] \in BOOLEAN
  BY <1>0, TurnsType
<1>3. /\ r \in Running /\ job' = job /\ \A s \in Requests \ {r} : pc'[s] = pc[s]
  BY <1>0, HandlerFrame, HandlerKeeps
<1>4. UsageByThread(t) <= cp[t].turns /\ cp[t].turns <= spent[t] /\ RunAdds(r, t)
  BY <1>3 DEF TraceInv, Ordered, RunsAdd
<1>5. /\ pc[r] \in {"idle", "commit", "begin", "invoke", "trace", "record"} => ~dirty[r]
      /\ pc[r] \in {"step", "paused", "trace", "record"} /\ ~dirty[r] => cp[t] = mem[r]
  BY DEF TraceInv, CalmInv, CleanOutside, InSync
<1>6. /\ Clean(t)' => pc'[r] \notin {"failed", "lost", "except"}
      /\ Clean(t)' /\ pc[r] \notin {"failed", "lost", "except"} => Clean(t)
  <2>1. \A s \in Requests : Thread(s)' = Thread(s)
    BY <1>3 DEF Thread
  <2> QED BY <1>3, <2>1 DEF Clean
<1>7. pc[r] \notin {"record", "done", "failed", "lost"} => traces[r].turns = 0
  BY DEF TraceInv, Untraced
<1>8. ASSUME \A s \in Requests : traces'[s].turns = traces[s].turns
      PROVE  \A u : UsageByThread(u)' = UsageByThread(u)
  <2>1. \A s \in Requests : Thread(s)' = Thread(s)
    BY <1>3 DEF Thread
  <2> QED BY <1>0, <1>8, <2>1, UsageStays
<1> HIDE DEF Goal
<1>9. CASE Commit(r)
  <2>1. /\ pc[r] = "commit" /\ pc'[r] \in {"begin", "failed"}
        /\ traces' = traces /\ mem' = mem /\ dirty' = dirty /\ cp' = cp /\ spent' = spent /\ pre' = pre
    BY <1>1, <1>9 DEF Commit, Resume, handlers, history
  <2>2. \A u : UsageByThread(u)' = UsageByThread(u)
    BY <1>8, <2>1
  <2>3. Goal
    BY <1>2, <1>4, <1>5, <1>6, <2>1, <2>2 DEF Goal, RunAdds, Counting, Ended
  <2> QED BY <2>2, <2>3 DEF Goal
<1>10. CASE Begin(r)
  <2>1. /\ pc[r] = "begin" /\ pc'[r] = "invoke"
        /\ traces' = traces /\ mem' = mem /\ dirty' = dirty /\ cp' = cp /\ spent' = spent
        /\ pre'[r].turns = cp[t].turns
    BY <1>1, <1>10 DEF Begin, database, history
  <2>2. \A u : UsageByThread(u)' = UsageByThread(u)
    BY <1>8, <2>1
  <2>3. Goal
    BY <1>2, <1>4, <1>5, <1>6, <2>1, <2>2 DEF Goal, RunAdds, Counting, Ended
  <2> QED BY <2>2, <2>3 DEF Goal
<1>11. CASE Invoke(r)
  <2>1. /\ pc[r] = "invoke" /\ pc'[r] = "step"
        /\ traces' = traces /\ cp' = cp /\ spent' = spent /\ pre' = pre
        /\ dirty'[r] \in BOOLEAN
    BY <1>1, <1>11 DEF Invoke, database, history
  <2>2. mem'[r].turns = cp[t].turns
    <3> DEFINE c == cp[t]
    <3>1. \/ mem'[r] = [c EXCEPT !.answer = [by |-> job[r].approval, approved |-> job[r].approved]]
          \/ mem'[r] = [c EXCEPT !.at = "agent", !.msg = NoMessage, !.answer = NoAnswer]
          \/ mem'[r] = c
      BY <1>1, <1>11 DEF Invoke
    <3>2. c \in Conversation
      BY <1>1
    <3> HIDE DEF c
    <3>3. mem'[r].turns = c.turns
      BY <3>1, <3>2 DEF Conversation
    <3> QED BY <3>3 DEF c
  <2>3. \A u : UsageByThread(u)' = UsageByThread(u)
    BY <1>8, <2>1
  <2>4. Goal
    BY <1>2, <1>4, <1>5, <1>6, <2>1, <2>2, <2>3 DEF Goal, RunAdds, Counting, Ended
  <2> QED BY <2>3, <2>4 DEF Goal
<1>12. CASE Save(r)
  <2>1. /\ pc[r] \in {"step", "paused", "except"} /\ pc' = pc
        /\ traces' = traces /\ mem' = mem /\ cp'[t] = mem[r] /\ spent' = spent /\ pre' = pre
        /\ dirty[r] /\ dirty'[r] = FALSE
    BY <1>1, <1>12 DEF Save, database, history
  <2>2. \A u : UsageByThread(u)' = UsageByThread(u)
    BY <1>8, <2>1
  <2>3. Goal
    BY <1>2, <1>4, <1>5, <1>6, <2>1, <2>2 DEF Goal, RunAdds, Counting, Ended
  <2> QED BY <2>2, <2>3 DEF Goal
<1>13. CASE AgentTurn(r)
  <2>1. /\ pc[r] = "step" /\ pc' = pc
        /\ traces' = traces /\ cp' = cp /\ spent'[t] = spent[t] + 1 /\ pre' = pre
        /\ dirty'[r] = TRUE
    BY <1>1, <1>13 DEF AgentTurn, Stepping, database
  <2>2. mem'[r].turns = mem[r].turns + 1
    BY <1>1, <1>13 DEF AgentTurn, Conversation
  <2>3. \A u : UsageByThread(u)' = UsageByThread(u)
    BY <1>8, <2>1
  <2>4. Goal
    BY <1>2, <1>4, <1>5, <1>6, <2>1, <2>2, <2>3 DEF Goal, RunAdds, Counting, Ended
  <2> QED BY <2>3, <2>4 DEF Goal
<1>14. CASE ToolsComplete(r)
  <2>1. /\ pc[r] = "step" /\ pc' = pc
        /\ traces' = traces /\ cp' = cp /\ spent' = spent /\ pre' = pre
        /\ dirty'[r] = TRUE
    BY <1>1, <1>14 DEF ToolsComplete, Stepping
  <2>2. mem'[r].turns = mem[r].turns
    BY <1>1, <1>14 DEF ToolsComplete, Conversation
  <2>3. \A u : UsageByThread(u)' = UsageByThread(u)
    BY <1>8, <2>1
  <2>4. Goal
    BY <1>2, <1>4, <1>5, <1>6, <2>1, <2>2, <2>3 DEF Goal, RunAdds, Counting, Ended
  <2> QED BY <2>3, <2>4 DEF Goal
<1>15. CASE Pause(r) \/ ToolsRaise(r) \/ OutOfSteps(r) \/ Return(r) \/ Fails(r)
  <2>1. /\ traces' = traces /\ mem' = mem /\ dirty' = dirty /\ cp' = cp /\ spent' = spent /\ pre' = pre
    BY <1>15 DEF Pause, ToolsRaise, OutOfSteps, Return, Fails, handlers, database, history
  <2>2. \/ pc[r] \in {"step", "paused"} /\ pc'[r] \in {"paused", "trace"}
        \/ pc[r] # "except" /\ pc'[r] = "except"
    BY <1>1, <1>15 DEF Pause, ToolsRaise, OutOfSteps, Return, Fails, Stepping
  <2>3. \A u : UsageByThread(u)' = UsageByThread(u)
    BY <1>8, <2>1
  <2>4. Goal
    BY <1>2, <1>4, <1>5, <1>6, <2>1, <2>2, <2>3 DEF Goal, RunAdds, Counting, Ended
  <2> QED BY <2>3, <2>4 DEF Goal
<1>16. CASE TraceSuccess(r) /\ session[r] = "ok"
  <2>1. /\ pc[r] = "trace" /\ cp' = cp /\ spent' = spent
        /\ (pc'[r] = "record" /\ dirty' = dirty) \/ pc'[r] = "done"
    BY <1>1, <1>16 DEF TraceSuccess, history
  <2>2. /\ traces'[r].turns = NewTurns(r)
        /\ \A s \in Requests \ {r} : traces'[s] = traces[s]
    BY <1>1, <1>16 DEF TraceSuccess
  <2>3. NewTurns(r) \in Nat /\ NewTurns(r) = cp[t].turns - pre[r].turns
    BY <1>2, <1>4, <1>5, <2>1 DEF NewTurns, RunAdds, Counting
  <2>4. \A u : UsageByThread(u)' = UsageByThread(u) + (IF u = t THEN NewTurns(r) ELSE 0)
    <3> DEFINE n == NewTurns(r)
    <3>1. n \in Nat /\ traces'[r].turns = n /\ traces[r].turns = 0
      BY <1>7, <2>1, <2>2, <2>3
    <3> HIDE DEF n
    <3>2. \A u : UsageByThread(u)' = UsageByThread(u) + (IF u = Thread(r) THEN n ELSE 0)
      <4> PICK k \in Nat : k = n
        BY <3>1
      <4> SUFFICES ASSUME NEW u
                   PROVE  UsageByThread(u)' = UsageByThread(u) + (IF u = Thread(r) THEN k ELSE 0)
        OBVIOUS
      <4> QED BY <1>0, <1>3, <2>2, <3>1, UsageGrows
    <3> QED BY <3>2 DEF n
  <2>5. \A u : UsageByThread(u) \in Nat
    BY <1>0, UsageType
  <2>6. \A u \in Threads \ {t} : UsageByThread(u)' = UsageByThread(u)
    BY <2>4, <2>5
  <2>7. UsageByThread(t)' = UsageByThread(t) + cp[t].turns - pre[r].turns
    BY <1>2, <2>3, <2>4
  <2>8. Goal
    BY <1>2, <1>4, <1>5, <1>6, <2>1, <2>7 DEF Goal, RunAdds, Counting, Ended
  <2> QED BY <2>6, <2>8 DEF Goal
<1>17. CASE TraceSuccess(r) /\ session[r] # "ok"
  <2>1. traces' = traces /\ pc'[r] = "failed" /\ cp' = cp /\ spent' = spent
    BY <1>1, <1>17 DEF TraceSuccess, RecordsPause, history
  <2>2. \A u : UsageByThread(u)' = UsageByThread(u)
    BY <1>8, <2>1
  <2>3. Goal
    BY <1>2, <1>4, <1>6, <2>1, <2>2 DEF Goal, Ended
  <2> QED BY <2>2, <2>3 DEF Goal
<1>18. CASE TraceFailure(r)
  <2>1. pc[r] = "except" /\ pc'[r] = "failed" /\ cp' = cp /\ spent' = spent
    BY <1>1, <1>18 DEF TraceFailure, history
  <2>2. \A s \in Requests : traces'[s].turns = traces[s].turns
    BY <1>1, <1>7, <1>18, <2>1 DEF TraceFailure
  <2>3. \A u : UsageByThread(u)' = UsageByThread(u)
    BY <1>8, <2>2
  <2>4. Goal
    BY <1>2, <1>4, <1>6, <2>1, <2>3 DEF Goal, Ended
  <2> QED BY <2>3, <2>4 DEF Goal
<1>19. CASE Record(r)
  <2>1. traces' = traces /\ pc[r] = "record" /\ pc'[r] = "done" /\ cp' = cp /\ spent' = spent
    BY <1>1, <1>19 DEF Record, history
  <2>2. \A u : UsageByThread(u)' = UsageByThread(u)
    BY <1>8, <2>1
  <2>3. Goal
    BY <1>2, <1>4, <1>5, <1>6, <2>1, <2>2 DEF Goal, RunAdds, Counting, Ended
  <2> QED BY <2>2, <2>3 DEF Goal
<1> QED BY <1>9, <1>10, <1>11, <1>12, <1>13, <1>14, <1>15, <1>16, <1>17, <1>18, <1>19
        DEF Handler

\* A new call finds nobody on its thread, and the thread's numbers settled.
LEMMA ArrivalAdds ==
    ASSUME OneProcess, Polite, FiniteRequests, TraceInv, NEW r \in Requests,
           \/ \E t \in Threads : Post(r, t)
           \/ \E a \in Requests, approved \in BOOLEAN : Decide(r, a, approved)
    PROVE  Ordered' /\ Settled' /\ RunsAdd'
<1>0. TypeInv /\ CalmInv
  BY DEF TraceInv, CalmInv, SafeInv
<1>1. /\ pc \in [Requests -> Steps] /\ job \in [Requests -> Job]
  BY <1>0 DEF TypeInv, TypeOK
<1>2. /\ UNCHANGED <<mem, dirty, cp, traces, spent, pre>>
      /\ pc[r] = "idle" /\ pc'[r] \in {"begin", "commit", "refused"}
      /\ \A s \in Requests \ {r} : pc'[s] = pc[s] /\ job'[s] = job[s]
  BY <1>0, <1>1, ArrivalFrame DEF Post, Decide, database, history
<1>3. \A t : UsageByThread(t)' = UsageByThread(t)
  <2>1. traces[r].turns = 0
    BY <1>2 DEF TraceInv, Untraced
  <2>2. \A s \in Requests : Thread(s)' = Thread(s) \/ traces[s].turns = 0
    BY <1>2, <2>1 DEF Thread
  <2> QED BY <1>0, <1>2, <2>2, UsageStays
<1>4. \A t : Clean(t)' => Clean(t)
  BY <1>2 DEF Clean, Thread
<1>5. \A s \in Running : s \in Requests \ {r} /\ Thread(s)' = Thread(s) /\ s \in Running'
  BY <1>2 DEF Running, Thread
<1>6. Ordered'
  <2>1. \A t \in Threads : UsageByThread(t)' <= cp'[t].turns /\ cp'[t].turns <= spent'[t]
    BY <1>2, <1>3 DEF TraceInv, Ordered
  <2> QED BY <2>1 DEF Ordered
<1>7. Settled'
  <2> SUFFICES ASSUME NEW u \in Threads, Clean(u)', \A s \in Running' : Thread(s)' # u
               PROVE  UsageByThread(u)' = cp'[u].turns /\ cp'[u].turns = spent'[u]
    BY DEF Settled
  <2>1. Clean(u) /\ \A s \in Running : Thread(s) # u
    BY <1>4, <1>5
  <2> QED BY <1>2, <1>3, <2>1 DEF TraceInv, Settled
<1>8. ASSUME NEW s \in Running', NEW u \in Threads, Thread(s)' = u PROVE RunAdds(s, u)'
  <2>1. CASE s = r
    <3>1. pc'[r] # "refused" /\ job'[r].thread = u /\ ~dirty'[r]
      BY <1>0, <1>2, <1>8, <2>1 DEF Running, Ended, Thread, CalmInv, CleanOutside
    <3>2. \A q \in Running : Thread(q) # u
      BY <1>0, <3>1, ArrivesAlone
    <3>3. Clean(u)' => UsageByThread(u) = cp[u].turns /\ cp[u].turns = spent[u]
      BY <1>4, <3>2 DEF TraceInv, Settled
    <3> QED BY <1>2, <1>3, <2>1, <3>1, <3>3 DEF RunAdds, Counting
  <2>2. CASE s # r
    <3>1. s \in Running /\ s \in Requests /\ Thread(s) = u
      BY <1>2, <1>8, <2>2 DEF Running, Thread
    <3>2. RunAdds(s, u)
      BY <3>1 DEF TraceInv, RunsAdd
    <3> QED BY <1>2, <1>3, <1>4, <2>2, <3>1, <3>2 DEF RunAdds
  <2> QED BY <2>1, <2>2
<1> QED BY <1>6, <1>7, <1>8 DEF RunsAdd

\* A crash leaves the threads of its handlers unclean.
LEMMA CrashAdds ==
    ASSUME FiniteRequests, TraceInv, NEW w \in Workers, Crash(w)
    PROVE  Ordered' /\ Settled' /\ RunsAdd'
<1>0. TypeInv
  BY DEF TraceInv, CalmInv, SafeInv
<1>1. UNCHANGED <<job, cp, traces, spent>>
  BY DEF Crash, database
<1>2. ASSUME NEW s \in Requests
      PROVE  \/ pc'[s] = pc[s] /\ mem'[s] = mem[s] /\ dirty'[s] = dirty[s] /\ pre'[s] = pre[s]
             \/ pc[s] \in Active /\ pc'[s] = "lost"
  <2> DEFINE dead == {q \in Running : WorkerOf[q] = w}
  <2>1. s \notin dead => pre'[s] = pre[s] /\ pc'[s] = pc[s] /\ mem'[s] = mem[s]
    BY DEF Crash, Unwind
  <2>2. s \in dead => pc'[s] = "lost" /\ pc[s] \in Active
    BY <1>0 DEF Crash, Active, TypeInv, TypeOK, Running
  <2>3. s \notin dead => dirty'[s] = dirty[s]
    BY <1>0 DEF Crash, Unwind, TypeInv, TypeOK
  <2> QED BY <2>1, <2>2, <2>3
<1>3. \A s \in Requests : Thread(s)' = Thread(s)
  BY <1>1 DEF Thread
<1>4. \A t : UsageByThread(t)' = UsageByThread(t)
  BY <1>0, <1>1, <1>3, UsageStays
<1>5. \A t : Clean(t)' => Clean(t) /\ \A s \in Requests : Thread(s) = t => pc'[s] # "lost"
  BY <1>2, <1>3 DEF Clean, Active, Ended, Steps
<1>6. Ordered'
  <2>1. \A t \in Threads : UsageByThread(t)' <= cp'[t].turns /\ cp'[t].turns <= spent'[t]
    BY <1>1, <1>4 DEF TraceInv, Ordered
  <2> QED BY <2>1 DEF Ordered
<1>7. Settled'
  <2> SUFFICES ASSUME NEW u \in Threads, Clean(u)', \A s \in Running' : Thread(s)' # u
               PROVE  UsageByThread(u)' = cp'[u].turns /\ cp'[u].turns = spent'[u]
    BY DEF Settled
  <2>1. Clean(u) /\ \A s \in Running : Thread(s) # u
    <3> SUFFICES ASSUME NEW s \in Running, Thread(s) = u PROVE FALSE
      BY <1>5
    <3>1. s \in Requests /\ pc'[s] = pc[s]
      BY <1>2, <1>5 DEF Running
    <3> QED BY <1>3, <3>1 DEF Running
  <2> QED BY <1>1, <1>4, <2>1 DEF TraceInv, Settled
<1>8. ASSUME NEW s \in Running', NEW u \in Threads, Thread(s)' = u PROVE RunAdds(s, u)'
  <2>1. s \in Running /\ s \in Requests /\ Thread(s) = u
        /\ pc'[s] = pc[s] /\ mem'[s] = mem[s] /\ dirty'[s] = dirty[s] /\ pre'[s] = pre[s]
    BY <1>2, <1>3, <1>8 DEF Running, Ended
  <2>2. RunAdds(s, u)
    BY <2>1 DEF TraceInv, RunsAdd
  <2> QED BY <1>1, <1>4, <1>5, <2>1, <2>2 DEF RunAdds
<1> QED BY <1>6, <1>7, <1>8 DEF RunsAdd

LEMMA TraceStep ==
    OneProcess /\ Polite /\ FiniteRequests /\ TraceInv /\ [Next]_vars => TraceInv'
<1> SUFFICES ASSUME OneProcess, Polite, FiniteRequests, TraceInv, [Next]_vars PROVE TraceInv'
  OBVIOUS
<1>0. TypeInv /\ CalmInv
  BY DEF TraceInv, CalmInv, SafeInv
<1>1. CalmInv' /\ Untraced'
  BY <1>0, CalmStep, UntracedStep DEF TraceInv
<1>2. ASSUME NEW r \in Requests,
             \/ \E t \in Threads : Post(r, t)
             \/ \E a \in Requests, approved \in BOOLEAN : Decide(r, a, approved)
      PROVE  Ordered' /\ Settled' /\ RunsAdd'
  BY <1>2, ArrivalAdds
<1>3. ASSUME NEW r \in Requests, Handler(r) \/ Fails(r)
      PROVE  Ordered' /\ Settled' /\ RunsAdd'
  <2> PICK t \in Threads : Thread(r) = t
    BY <1>0, <1>3, HandlerKeeps DEF Thread
  <2> QED BY <1>3, HandlerAdds, HandlerReduces
<1>4. ASSUME NEW w \in Workers, Crash(w) PROVE Ordered' /\ Settled' /\ RunsAdd'
  BY <1>4, CrashAdds
<1>5. ASSUME UNCHANGED vars PROVE Ordered' /\ Settled' /\ RunsAdd'
  <2>1. UNCHANGED <<pc, job, mem, dirty, cp, traces, spent, pre>>
    BY <1>5 DEF vars, handlers, database, history
  <2>2. \A s \in Requests : Thread(s)' = Thread(s)
    BY <2>1 DEF Thread
  <2>3. \A t : UsageByThread(t)' = UsageByThread(t)
    BY <1>0, <2>1, <2>2, UsageStays
  <2>4. \A t : Clean(t)' <=> Clean(t)
    BY <2>1, <2>2 DEF Clean
  <2>5. Running' = Running /\ \A s \in Running : Thread(s)' = Thread(s)
    BY <2>1, <2>2 DEF Running
  <2>6. \A t \in Threads : UsageByThread(t)' <= cp'[t].turns /\ cp'[t].turns <= spent'[t]
    BY <2>1, <2>3 DEF TraceInv, Ordered
  <2>7. \A t \in Threads :
          Clean(t)' /\ (\A r \in Running' : Thread(r)' # t) =>
            UsageByThread(t)' = cp'[t].turns /\ cp'[t].turns = spent'[t]
    BY <2>1, <2>3, <2>4, <2>5 DEF TraceInv, Settled
  <2>8. ASSUME NEW r \in Running', NEW t \in Threads, Thread(r)' = t PROVE RunAdds(r, t)'
    <3>1. RunAdds(r, t)
      BY <2>5, <2>8 DEF TraceInv, RunsAdd
    <3> QED BY <2>1, <2>3, <2>4, <3>1 DEF RunAdds
  <2>9. Ordered'
    BY <2>6 DEF Ordered
  <2>10. Settled'
    BY <2>7 DEF Settled
  <2>11. RunsAdd'
    BY <2>8 DEF RunsAdd
  <2> QED BY <2>9, <2>10, <2>11
<1>6. Ordered' /\ Settled' /\ RunsAdd'
  BY <1>2, <1>3, <1>4, <1>5 DEF Next
<1> QED BY <1>1, <1>6 DEF TraceInv

\* When every call on a thread has returned normally, its traces add up to
\* what the model was asked, in one server process whose clients POST a
\* thread again only when it has nothing under way.
THEOREM CleanRunsAddUpCorrect ==
    ASSUME OneProcess, Polite, FiniteRequests PROVE Spec => []CleanRunsAddUp
<1>1. TraceInv => CleanRunsAddUp
  <2> SUFFICES ASSUME TraceInv, NEW t \in Threads, Live(t) = {},
                      \A r \in Requests : Thread(r) = t => pc[r] \notin {"failed", "lost"}
               PROVE  UsageByThread(t) = spent[t]
    BY DEF CleanRunsAddUp
  <2>1. \A r \in Running : Thread(r) # t
    BY DEF Live
  <2>2. Clean(t)
    BY <2>1 DEF Clean, Running, Ended
  <2> QED BY <2>1, <2>2 DEF TraceInv, Settled
<1> QED BY <1>1, InitTrace, TraceStep, PTL DEF Spec

==============================================================================
