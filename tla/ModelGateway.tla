----------------------------- MODULE ModelGateway -----------------------------
(***************************************************************************)
(* generate() of the model gateway's providers (app/gateway/providers,     *)
(* groq.py being the active one): calls of the provider with retries, and, *)
(* when the caller passed a response_schema, one repair of an answer that  *)
(* does not parse.  A round is one _call_with_retries(); the repair is the *)
(* second round.                                                           *)
(***************************************************************************)
EXTENDS Naturals, Sequences, FiniteSets

CONSTANTS
    Asks,       \* requests that call generate(), each once
    MaxRetries  \* max_retries of the provider's constructor

ASSUME RetriesAssumption == MaxRetries \in Nat

\* What one call of the provider's client ends in.  The content of a completion
\* parses as the schema ("text") or does not, none at all included.  "transient": rate limit,
\* 5xx, connection, timeout, and the 400 with code tool_use_failed.
\* "permanent": any other APIStatusError.  "unforeseen": any other exception,
\* a completion without choices among them.
Completions == {"text", "unparsable"}
Replies == Completions \cup {"transient", "permanent", "unforeseen"}

\* GatewayResponse: tokens is the number of completions whose usage it tells.
Result == [success : BOOLEAN, parsed : BOOLEAN, tokens : {0, 1}]
NoResult == [success |-> FALSE, parsed |-> FALSE, tokens |-> 0]

Generation == [at : {"idle", "call", "sleep", "returned", "raised"},
               schema : BOOLEAN, repair : BOOLEAN, attempt : 0 .. MaxRetries,
               result : Result]

VARIABLES
    gen,   \* the generate() of each request
    said   \* history: what the provider's client ended in, call by call

GatewayInit ==
    /\ gen = [q \in Asks |-> [at |-> "idle", schema |-> FALSE, repair |-> FALSE,
                              attempt |-> 0, result |-> NoResult]]
    /\ said = [q \in Asks |-> <<>>]

\* A caller enters generate(), with or without a response_schema.
Generate(q, schema) ==
    /\ gen' = [gen EXCEPT ![q].at = "call", ![q].schema = schema]
    /\ UNCHANGED said

\* The provider's client returns or raises.
Hears(q, reply) ==
    /\ gen[q].at = "call"
    /\ said' = [said EXCEPT ![q] = Append(@, reply)]

\* Mutant: a permanent error is retried as well.
RetryAnyError(q, reply) ==
    reply \in {"transient", "permanent"} /\ gen[q].attempt < MaxRetries

Retries(q, reply) == reply = "transient" /\ gen[q].attempt < MaxRetries

\* time.sleep(backoff), then the next attempt.
BackOff(q) ==
    \E reply \in {"transient", "permanent"} :
      /\ Hears(q, reply)
      /\ Retries(q, reply)
      /\ gen' = [gen EXCEPT ![q].at = "sleep"]

Retry(q) ==
    /\ gen[q].at = "sleep"
    /\ gen' = [gen EXCEPT ![q].at = "call", ![q].attempt = @ + 1]
    /\ UNCHANGED said

Returns(q, result) ==
    gen' = [gen EXCEPT ![q].at = "returned", ![q].result = result]

\* _error_response(): the last error, no usage.
GiveUp(q) ==
    \E reply \in {"transient", "permanent"} :
      /\ Hears(q, reply)
      /\ ~Retries(q, reply)
      /\ Returns(q, NoResult)

Accepts(q, reply) ==
    reply \in Completions /\ (gen[q].schema => reply = "text")

\* _success_response().  Without a schema a completion with no content is a
\* success too.
Succeed(q) ==
    \E reply \in Completions :
      /\ Hears(q, reply)
      /\ Accepts(q, reply)
      /\ Returns(q, [success |-> TRUE, parsed |-> gen[q].schema, tokens |-> 1])

\* _parse() failed: once more, with the instruction to fix the format.
Repair(q) ==
    \E reply \in Completions :
      /\ Hears(q, reply)
      /\ ~Accepts(q, reply)
      /\ ~gen[q].repair
      /\ gen' = [gen EXCEPT ![q].repair = TRUE, ![q].attempt = 0]

\* _parse() failed twice: a failure that tells the usage of the last completion.
RejectRepair(q) ==
    \E reply \in Completions :
      /\ Hears(q, reply)
      /\ ~Accepts(q, reply)
      /\ gen[q].repair
      /\ Returns(q, [success |-> FALSE, parsed |-> FALSE, tokens |-> 1])

\* No except clause takes it.
Escape(q) ==
    /\ Hears(q, "unforeseen")
    /\ gen' = [gen EXCEPT ![q].at = "raised"]

GatewayStep(q) ==
    \/ BackOff(q) \/ Retry(q) \/ GiveUp(q) \/ Succeed(q)
    \/ Repair(q) \/ RejectRepair(q) \/ Escape(q)

------------------------------------------------------------------------------
GatewayTypeOK ==
    /\ gen \in [Asks -> Generation]
    /\ said \in [Asks -> Seq(Replies)]

Last(q) == said[q][Len(said[q])]
Garbled(q) == {i \in 1 .. Len(said[q]) : said[q][i] = "unparsable"}

\* The call of a generate() at which its repair began: 0 for the first round.
RoundStart(q) ==
    IF \E i \in Garbled(q) : i < Len(said[q]) THEN CHOOSE i \in Garbled(q) : i < Len(said[q]) ELSE 0

Completed(q) == Cardinality({i \in 1 .. Len(said[q]) : said[q][i] \in Completions})

\* What generate() returns follows from what the provider said: after a
\* completion it can use, a permanent error or an exception it calls no more;
\* it succeeds exactly if the last completion is usable, parsed if a schema was
\* asked for; and it fails only after a permanent error, max_retries + 1
\* transient ones in a row in one round, or a repair that does not parse.
\* (generate and _call_with_retries, groq.py:83-164)
RepliesExplain ==
    \A q \in Asks : gen[q].at \in {"returned", "raised"} =>
      LET g == gen[q]
          n == Len(said[q])
          usable == Last(q) = "text" \/ (~g.schema /\ Last(q) \in Completions)
      IN /\ n > 0
         /\ \A i \in 1 .. n - 1 :
              said[q][i] = "transient" \/ (g.schema /\ i \in Garbled(q) /\ i = RoundStart(q))
         /\ g.at = "raised" <=> Last(q) = "unforeseen"
         /\ g.result.success <=> usable
         /\ g.result.parsed <=> usable /\ g.schema
         /\ Last(q) = "transient" => n = RoundStart(q) + MaxRetries + 1
         /\ ~usable /\ Last(q) \in Completions => RoundStart(q) > 0

\* "On any failure [...] return success=False with a human-readable error
\* instead of raising" (base.py:47-51): does not hold, see Escape.
NeverRaises == \A q \in Asks : gen[q].at # "raised"

\* A result tells the usage of every completion paid for: does not hold after
\* a repair, whose first completion nobody counts (groq.py:107-129).
AllTokensTold ==
    \A q \in Asks : gen[q].at = "returned" => gen[q].result.tokens = Completed(q)
==============================================================================
