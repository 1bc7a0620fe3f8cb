----------------------------- MODULE Observability -----------------------------
(***************************************************************************)
(* GET /observability/usage and GET /observability/investigations/         *)
(* {thread_id}/usage (app/routers/observability.py), the aggregates of     *)
(* TraceRepository, and the requests that write the traces they count,     *)
(* among those of Registration.                                            *)
(*                                                                         *)
(* A trace is stamped when it is flushed and seen by others when it is     *)
(* committed, perhaps a day later; a report makes three queries, each of   *)
(* which sees what is committed when it runs.  The clock counts ticks of a *)
(* day.  How totals are rounded, averaged and priced is left out.          *)
(***************************************************************************)
EXTENDS Registration, Integers, FiniteSetsExt

CONSTANTS
    DayLength,      \* ticks; the first is midnight UTC
    LastTick,       \* bound on the clock
    Calls,          \* what a trace can say: a model, a feature, a thread, tokens, success
    Threads,
    Windows,        \* what a client asks for: a start_date and an end_date, or None
    DefaultDays,    \* _DEFAULT_WINDOW_DAYS
    Earlier         \* sets of traces that may be there already

ASSUME ObservabilityAssumption ==
    /\ DayLength \in Nat \ {0} /\ LastTick \in Nat /\ DefaultDays \in Nat
    /\ \A c \in Calls : c.tokens \in Nat \cup {None} /\ c.success \in BOOLEAN
                         /\ c.thread \in Threads \cup {None}
    /\ \A w \in Windows : {w.start, w.end} \subseteq Int \cup {None}
    /\ \A old \in Earlier : IsFiniteSet(old)
    /\ \A t \in UNION Earlier :
          t.id \notin Requests /\ t.created_at \in 0 .. LastTick /\ t.call.tokens \in Nat \cup {None}

VARIABLES
    now,
    traces,     \* the committed rows
    usage       \* what each handler of these endpoints has found

usageVars == <<now, traces, usage>>
vars == <<registrationVars, usageVars>>

NoTotals == [calls |-> 0, tokens |-> 0, successes |-> 0]

NoUsage == [kind |-> "none", org |-> None, row |-> None, start |-> 0, end |-> 0, overview |-> NoTotals,
            breakdown |-> {}, features |-> {}, before |-> {}, after |-> {}]

Init ==
    /\ RegistrationInit
    /\ now = 0
    /\ traces \in Earlier
    /\ usage = [r \in Requests |-> NoUsage]

\* get_current_user: a request goes on as its token's user or is refused.
Authenticate(r, pc, found) ==
    /\ handler[r].pc = "idle"
    /\ \E token \in Issued, expired \in BOOLEAN :
          \/ /\ expired \/ CurrentUser(token) = {}
             /\ Answer(r, 401, None)
             /\ UNCHANGED usage
          \/ /\ ~expired
             /\ \E u \in CurrentUser(token) : usage' = [usage EXCEPT ![r] = [found EXCEPT !.org = u.id]]
             /\ Goto(r, pc)
             /\ UNCHANGED <<tx, told>>
    /\ UNCHANGED <<organizations, users>>

------------------------------------------------------------------------------
(* Writing traces *)

\* A request of an agent or to /ai/ask or /rag/ask, up to its trace.
Ask(r) ==
    /\ Authenticate(r, "trace", [NoUsage EXCEPT !.kind = "ask"])
    /\ UNCHANGED <<now, traces>>

\* created_at gets its default when the row is flushed.
FlushTrace(r) ==
    /\ handler[r].pc = "trace"
    /\ \E call \in Calls :
          usage' = [usage EXCEPT ![r].row =
                       [id |-> r, org |-> usage[r].org, created_at |-> now, call |-> call]]
    /\ Goto(r, "store")
    /\ UNCHANGED <<organizations, users, tx, told, now, traces>>

CommitTrace(r) ==
    /\ handler[r].pc = "store"
    /\ traces' = traces \cup {usage[r].row}
    /\ Answer(r, 200, None)
    /\ UNCHANGED <<organizations, users, now, usage>>

------------------------------------------------------------------------------
(* Reporting *)

Today == now \div DayLength

Resolved(window) ==
    LET end == IF window.end = None THEN Today ELSE window.end
    IN  [start |-> IF window.start = None THEN end - DefaultDays ELSE window.start, end |-> end]

\* The dates are resolved once the user is known; refused with 422 if they are
\* out of order.
Report(r) ==
    /\ \E window \in Windows :
          LET dates == Resolved(window)
          IN  Authenticate(r, IF dates.start > dates.end THEN "refuse" ELSE "overview",
                           [NoUsage EXCEPT !.kind = "report", !.start = dates.start, !.end = dates.end])
    /\ UNCHANGED <<now, traces>>

Refuse(r) ==
    /\ handler[r].pc = "refuse"
    /\ Answer(r, 422, None)
    /\ UNCHANGED <<organizations, users, usageVars>>

\* Mutant: end_date is inclusive to the tick after it.
WithinInclusive(t, dates) ==
    dates.start * DayLength <= t.created_at /\ t.created_at <= (dates.end + 1) * DayLength

\* From midnight of start_date until midnight after end_date.
Within(t, dates) ==
    dates.start * DayLength <= t.created_at /\ t.created_at < (dates.end + 1) * DayLength

Scope(r) == {t \in traces : t.org = usage[r].org /\ Within(t, usage[r])}

\* A provider that told no usage has NULLs, which a sum skips.
Tokens(t) == IF t.call.tokens = None THEN 0 ELSE t.call.tokens

Totals(ts) ==
    [calls |-> Cardinality(ts),
     tokens |-> MapThenSumSet(Tokens, ts),
     successes |-> Cardinality({t \in ts : t.call.success})]

Overview(r) ==
    /\ handler[r].pc = "overview"
    /\ usage' = [usage EXCEPT ![r].overview = Totals(Scope(r)), ![r].before = traces]
    /\ Goto(r, "breakdown")
    /\ UNCHANGED <<organizations, users, tx, told, now, traces>>

\* GROUP BY: one row of each key that there is, NULL being one.
GroupedBy(column, ts) ==
    {[key |-> k, totals |-> Totals({t \in ts : t.call[column] = k})] : k \in {t.call[column] : t \in ts}}

Breakdown(r) ==
    /\ handler[r].pc = "breakdown"
    /\ usage' = [usage EXCEPT ![r].breakdown = GroupedBy("model", Scope(r))]
    /\ Goto(r, "features")
    /\ UNCHANGED <<organizations, users, tx, told, now, traces>>

\* Mutant: traces without a feature are in no row.
LabelledRows(r) == GroupedBy("feature", {t \in Scope(r) : t.call.feature # None})

FeatureRows(r) == GroupedBy("feature", Scope(r))

ByFeature(r) ==
    /\ handler[r].pc = "features"
    /\ usage' = [usage EXCEPT ![r].features = FeatureRows(r), ![r].after = traces]
    /\ Answer(r, 200, None)
    /\ UNCHANGED <<organizations, users, now, traces>>

\* usage_by_thread: all dates, and a thread of another organisation is not told
\* from one that never was.
ThreadUsage(r) ==
    /\ Authenticate(r, "thread", [NoUsage EXCEPT !.kind = "thread"])
    /\ UNCHANGED <<now, traces>>

Rollup(r) ==
    /\ handler[r].pc = "thread"
    /\ \E thread \in Threads :
          usage' = [usage EXCEPT ![r].overview =
                       Totals({t \in traces : t.org = usage[r].org /\ t.call.thread = thread})]
    /\ Answer(r, 200, None)
    /\ UNCHANGED <<organizations, users, now, traces>>

------------------------------------------------------------------------------

Using == {"trace", "store", "overview", "breakdown", "features", "thread"}

\* An exception; a trace that is not committed is gone, and what was found.
Fail(r) ==
    /\ handler[r].pc \in Using
    /\ Answer(r, 500, None)
    /\ usage' = [usage EXCEPT ![r] = NoUsage]
    /\ UNCHANGED <<organizations, users, now, traces>>

\* What a handler has found goes with its process.
Crash ==
    /\ CrashHandlers
    /\ usage' = [r \in Requests |->
                    IF handler[r].pc \in {"idle", "done"} THEN usage[r] ELSE NoUsage]
    /\ UNCHANGED <<now, traces>>

Tick ==
    /\ now < LastTick
    /\ now' = now + 1
    /\ UNCHANGED <<registrationVars, traces, usage>>

UsageStep(r) ==
    \/ Ask(r)
    \/ FlushTrace(r)
    \/ CommitTrace(r)
    \/ Report(r)
    \/ Refuse(r)
    \/ Overview(r)
    \/ Breakdown(r)
    \/ ByFeature(r)
    \/ ThreadUsage(r)
    \/ Rollup(r)
    \/ Fail(r)

Next ==
    \/ \E r \in Requests : RegistrationStep(r) /\ UNCHANGED usageVars
    \/ \E r \in Requests : UsageStep(r)
    \/ Crash
    \/ Tick

Spec == Init /\ [][Next]_vars

------------------------------------------------------------------------------
(* Properties *)

AtMost(totals, others) == \A part \in DOMAIN totals : totals[part] <= others[part]

SumOf(rows) ==
    [part \in DOMAIN NoTotals |-> MapThenSumSet(LAMBDA row : row.totals[part], rows)]

Reported(r) == handler[r].pc = "done" /\ usage[r].kind = "report" /\ told[r].code = 200

\* The rows of a report account for its totals, by model and by feature, old
\* traces without a feature among them: each says no more than the next, which
\* was computed later, and all three say the same when no trace was committed
\* in between.  (get_usage, observability.py:56-59)
ReportAddsUp ==
    \A r \in {q \in Requests : Reported(q)} :
        LET overview == usage[r].overview
            models == SumOf(usage[r].breakdown)
            features == SumOf(usage[r].features)
        IN  /\ AtMost(overview, models) /\ AtMost(models, features)
            /\ usage[r].before = usage[r].after => overview = features

\* Reports of adjacent windows count what a report of the whole counts: a
\* trace at midnight is in exactly one of them.  Of reports made at different
\* times, the later whole counts at least, the earlier at most what its parts
\* do.  (the half-open range, observability.py:50-54)
DaysPartition ==
    \A first, second, whole \in {q \in Requests : Reported(q)} :
        LET a == usage[first]
            b == usage[second]
            c == usage[whole]
        IN  a.org = c.org /\ b.org = c.org /\ a.start = c.start /\ b.start = a.end + 1 /\ b.end = c.end =>
              /\ a.before \cup b.before \subseteq c.before =>
                    a.overview.calls + b.overview.calls <= c.overview.calls
              /\ c.before \subseteq a.before \cap b.before =>
                    c.overview.calls <= a.overview.calls + b.overview.calls

\* The totals of a report are those of its rows: does not hold, since a trace
\* may be committed between the queries.
ReportConsistent ==
    \A r \in {q \in Requests : Reported(q)} :
        usage[r].overview = SumOf(usage[r].features)

==============================================================================
