---------------------------- MODULE KnowledgeProofs ----------------------------
(***************************************************************************)
(* The invariants of KnowledgeBase for any finite set of uploads and asks, *)
(* any organisations, any number of chunks, TopK and retries.              *)
(*                                                                         *)
(* First generate(), for any number of retries: what it returns follows    *)
(* from the provider's replies.  GatewayInv gives the shape of the log of  *)
(* replies.  Then KInv, which says per upload and per ask where its        *)
(* handler may be and what it has written by then; every step disturbs the *)
(* entries of one request, so each action is shown for its own request and *)
(* the others follow by the frame lemmas.                                  *)
(***************************************************************************)
EXTENDS KnowledgeBase, FiniteSetTheorems, TLAPS

\* The first n replies: transient errors, but for the unparsable completion at
\* s that led to the repair, if there was one.
Before(q, s, n) ==
    /\ s \in 0 .. n
    /\ s = 0 <=> ~gen[q].repair
    /\ \A i \in 1 .. n : said[q][i] = IF i = s THEN "unparsable" ELSE "transient"

\* A round under way.
Calling(q) ==
    \E s \in 0 .. Len(said[q]) :
      /\ Before(q, s, Len(said[q]))
      /\ Len(said[q]) = s + gen[q].attempt + (IF gen[q].at = "sleep" THEN 1 ELSE 0)

Usable(q) == Last(q) = "text" \/ (~gen[q].schema /\ Last(q) \in Completions)

\* generate() has returned or raised.
Over(q) ==
    /\ Len(said[q]) > 0
    /\ \E s \in 0 .. Len(said[q]) - 1 :
         /\ Before(q, s, Len(said[q]) - 1)
         /\ Last(q) = "transient" => Len(said[q]) = s + MaxRetries + 1
    /\ gen[q].at = "raised" <=> Last(q) = "unforeseen"
    /\ gen[q].result.success <=> Usable(q)
    /\ gen[q].result.parsed <=> Usable(q) /\ gen[q].schema
    /\ gen[q].at = "returned" => gen[q].result.tokens = IF Last(q) \in Completions THEN 1 ELSE 0
    /\ ~Usable(q) /\ Last(q) \in Completions => gen[q].repair

Heard(q) ==
    /\ gen[q].repair => gen[q].schema
    /\ gen[q].at \in {"idle", "call", "sleep"} => gen[q].result = NoResult
    /\ gen[q].at = "idle" => ~gen[q].repair /\ gen[q].attempt = 0 /\ said[q] = <<>>
    /\ gen[q].at = "sleep" => gen[q].attempt < MaxRetries
    /\ gen[q].at \in {"call", "sleep"} => Calling(q)
    /\ gen[q].at \in {"returned", "raised"} => Over(q)

GatewayInv == GatewayTypeOK /\ \A q \in Asks : Heard(q)

LEMMA GatewayInitInv == GatewayInit => GatewayInv
<1> SUFFICES ASSUME GatewayInit PROVE GatewayInv
  OBVIOUS
<1>1. [at |-> "idle", schema |-> FALSE, repair |-> FALSE, attempt |-> 0,
       result |-> NoResult] \in Generation
  BY RetriesAssumption DEF Generation, Result, NoResult
<1>2. GatewayTypeOK
  BY <1>1 DEF GatewayInit, GatewayTypeOK
<1>3. \A q \in Asks : Heard(q)
  BY DEF GatewayInit, Heard
<1> QED
  BY <1>2, <1>3 DEF GatewayInv

\* The invariant of an ask depends on its own entries only.
LEMMA HeardFrame ==
    ASSUME NEW q \in Asks, Heard(q), gen'[q] = gen[q], said'[q] = said[q]
    PROVE  Heard(q)'
  BY DEF Heard, Calling, Over, Before, Last, Usable

LEMMA GenerateInv ==
    ASSUME GatewayInv, NEW q \in Asks, NEW schema \in BOOLEAN, gen[q].at = "idle",
           Generate(q, schema)
    PROVE  GatewayInv'
<1> USE RetriesAssumption DEF GatewayInv
<1>1. GatewayTypeOK'
  BY ZenonT(40) DEF GatewayTypeOK, Generate, Generation
<1>2. ASSUME NEW p \in Asks, p # q PROVE Heard(p)'
  BY <1>2, HeardFrame DEF Generate, GatewayTypeOK
<1>3. Heard(q)'
  <2>1. /\ gen'[q] = [gen[q] EXCEPT !.at = "call", !.schema = schema]
        /\ said'[q] = <<>> /\ Len(said'[q]) = 0 /\ gen[q] \in Generation
    BY DEF Generate, GatewayTypeOK, Heard
  <2>2. Before(q, 0, 0)'
    BY <2>1 DEF Before, Heard, Generation
  <2>3. Calling(q)'
    BY <2>1, <2>2 DEF Calling, Heard, Generation
  <2> QED
    BY <2>1, <2>3 DEF Heard, Generation
<1> QED
  BY <1>1, <1>2, <1>3

\* One more reply: the log before it is that of a round under way.
LEMMA HearsShape ==
    ASSUME GatewayInv, NEW q \in Asks, NEW reply \in Replies, Hears(q, reply)
    PROVE  /\ Len(said'[q]) = Len(said[q]) + 1
           /\ Len(said[q]) \in Nat
           /\ Last(q)' = reply
           /\ \A i \in 1 .. Len(said[q]) : said'[q][i] = said[q][i]
           /\ said'[q][Len(said[q]) + 1] = reply
           /\ said' \in [Asks -> Seq(Replies)]
           /\ \A p \in Asks : p # q => said'[p] = said[p]
           /\ \E s \in 0 .. Len(said[q]) :
                Before(q, s, Len(said[q])) /\ Len(said[q]) = s + gen[q].attempt
           /\ gen[q] \in Generation
           /\ gen[q].repair => gen[q].schema
           /\ gen[q].result = NoResult
<1>1. /\ gen[q].at = "call" /\ gen[q] \in Generation /\ said[q] \in Seq(Replies)
      /\ said' = [said EXCEPT ![q] = Append(said[q], reply)] /\ Heard(q)
  BY DEF GatewayInv, GatewayTypeOK, Hears
<1>2. /\ said'[q] = Append(said[q], reply)
      /\ \A p \in Asks : p # q => said'[p] = said[p]
      /\ said' \in [Asks -> Seq(Replies)]
  BY <1>1 DEF GatewayInv, GatewayTypeOK
<1>3. /\ Len(said'[q]) = Len(said[q]) + 1 /\ Len(said[q]) \in Nat
      /\ \A i \in 1 .. Len(said[q]) : said'[q][i] = said[q][i]
      /\ said'[q][Len(said[q]) + 1] = reply
  BY <1>1, <1>2
<1>4. \E s \in 0 .. Len(said[q]) :
        Before(q, s, Len(said[q])) /\ Len(said[q]) = s + gen[q].attempt
  BY <1>1 DEF Heard, Calling, Generation
<1> QED
  BY <1>1, <1>2, <1>3, <1>4 DEF Heard, Last

\* A call that ends: what is left to show is what its result says.
LEMMA OverShape ==
    ASSUME GatewayInv, NEW q \in Asks, NEW reply \in Replies, Hears(q, reply),
           gen'[q].repair = gen[q].repair,
           reply = "transient" => gen[q].attempt = MaxRetries
    PROVE  /\ Len(said[q])' > 0
           /\ \E s \in 0 .. (Len(said[q]) - 1)' :
                /\ Before(q, s, Len(said[q]) - 1)'
                /\ Last(q)' = "transient" => Len(said[q])' = s + MaxRetries + 1
<1>1. PICK s \in 0 .. Len(said[q]) :
        Before(q, s, Len(said[q])) /\ Len(said[q]) = s + gen[q].attempt
  BY HearsShape
<1>2. Before(q, s, Len(said[q]) - 1)'
  <2>1. /\ Len(said'[q]) - 1 = Len(said[q]) /\ s \in 0 .. Len(said[q])
        /\ \A i \in 1 .. Len(said[q]) : said'[q][i] = said[q][i]
    BY <1>1, HearsShape
  <2>2. s = 0 <=> ~gen'[q].repair
    BY <1>1 DEF Before
  <2>3. \A i \in 1 .. Len(said[q]) :
          said'[q][i] = IF i = s THEN "unparsable" ELSE "transient"
    BY <1>1, <2>1 DEF Before
  <2> QED BY <2>1, <2>2, <2>3 DEF Before
<1>3. /\ Len(said'[q]) = Len(said[q]) + 1 /\ Len(said[q]) \in Nat /\ Last(q)' = reply
      /\ MaxRetries \in Nat
  BY HearsShape, RetriesAssumption
<1>4. reply = "transient" => Len(said'[q]) = s + MaxRetries + 1
  BY <1>1, <1>3
<1>5. s \in 0 .. Len(said'[q]) - 1 /\ Len(said'[q]) > 0
  BY <1>1, <1>3
<1> QED
  BY <1>2, <1>3, <1>4, <1>5

LEMMA StepInv ==
    ASSUME GatewayInv, NEW q \in Asks, GatewayStep(q)
    PROVE  GatewayInv' /\ gen[q].at \in {"call", "sleep"}
<1> USE RetriesAssumption
<1> DEFINE others == \A p \in Asks : p # q => gen'[p] = gen[p] /\ said'[p] = said[p]
<1>1. SUFFICES gen[q].at \in {"call", "sleep"} /\ GatewayTypeOK' /\ others /\ Heard(q)'
  BY HeardFrame DEF GatewayInv
<1>2. gen \in [Asks -> Generation] /\ said \in [Asks -> Seq(Replies)] /\ Heard(q)
      /\ gen[q] \in Generation
  BY DEF GatewayInv, GatewayTypeOK
<1>3. CASE BackOff(q)
  <2>1. PICK reply \in {"transient", "permanent"} :
          /\ Hears(q, reply) /\ Retries(q, reply)
          /\ gen' = [gen EXCEPT ![q].at = "sleep"]
    BY <1>3 DEF BackOff
  <2>2. reply = "transient" /\ gen[q].attempt < MaxRetries /\ reply \in Replies
        /\ gen[q].at = "call"
    BY <2>1 DEF Retries, Replies, Hears
  <2>3. gen'[q] = [gen[q] EXCEPT !.at = "sleep"]
    BY <1>2, <2>1
  <2>4. PICK s \in 0 .. Len(said[q]) :
          Before(q, s, Len(said[q])) /\ Len(said[q]) = s + gen[q].attempt
    BY <2>1, <2>2, HearsShape
  <2>5. /\ Len(said'[q]) = Len(said[q]) + 1 /\ Len(said[q]) \in Nat
        /\ \A i \in 1 .. Len(said[q]) : said'[q][i] = said[q][i]
        /\ said'[q][Len(said[q]) + 1] = "transient"
    BY <2>1, <2>2, HearsShape
  <2>6. Before(q, s, Len(said[q]))'
    <3>1. gen'[q].repair = gen[q].repair
      BY <1>2, <2>3 DEF Generation
    <3>2. \A i \in 1 .. Len(said'[q]) :
            said'[q][i] = IF i = s THEN "unparsable" ELSE "transient"
      <4> DEFINE n == Len(said[q])
      <4>1. /\ n \in Nat /\ s \in 0 .. n /\ Len(said'[q]) = n + 1
            /\ \A i \in 1 .. n : said[q][i] = IF i = s THEN "unparsable" ELSE "transient"
        BY <2>4, <2>5 DEF Before
      <4> HIDE DEF n
      <4> TAKE i \in 1 .. Len(said'[q])
      <4>2. CASE i = n + 1
        BY <2>5, <4>1, <4>2 DEF n
      <4>3. CASE i # n + 1
        <5>1. i \in 1 .. n
          BY <4>1, <4>3
        <5>2. said'[q][i] = said[q][i]
          BY <2>5, <5>1 DEF n
        <5> QED BY <4>1, <5>1, <5>2
      <4> QED BY <4>2, <4>3
    <3>3. s \in 0 .. Len(said'[q]) /\ (s = 0 <=> ~gen'[q].repair)
      BY <2>4, <2>5, <3>1 DEF Before
    <3> QED
      BY <3>2, <3>3 DEF Before
  <2>7. Calling(q)'
    BY <1>2, <2>3, <2>4, <2>5, <2>6 DEF Calling, Generation
  <2>8. Heard(q)'
    BY <1>2, <2>2, <2>3, <2>7 DEF Heard, Generation
  <2>9. GatewayTypeOK' /\ others
    <3>1. gen' \in [Asks -> Generation]
      BY <1>2, <2>1, <2>3 DEF Generation
    <3> QED
      BY <1>2, <2>1, <2>2, <3>1, HearsShape DEF GatewayTypeOK
  <2> QED
    BY <2>2, <2>8, <2>9
<1>4. CASE Retry(q)
  <2>1. /\ gen[q].at = "sleep" /\ said' = said
        /\ gen' = [gen EXCEPT ![q].at = "call", ![q].attempt = @ + 1]
        /\ gen[q].attempt < MaxRetries /\ gen[q].attempt \in Nat
    BY <1>2, <1>4 DEF Retry, Heard, Generation
  <2>2. gen'[q] = [gen[q] EXCEPT !.at = "call", !.attempt = gen[q].attempt + 1]
    BY <1>2, <2>1
  <2>3. PICK s \in 0 .. Len(said[q]) :
          Before(q, s, Len(said[q])) /\ Len(said[q]) = s + gen[q].attempt + 1
    BY <1>2, <2>1 DEF Heard, Calling
  <2>4. Before(q, s, Len(said[q]))'
    BY <1>2, <2>1, <2>2, <2>3 DEF Before, Generation
  <2>5. Calling(q)'
    BY <1>2, <2>1, <2>2, <2>3, <2>4 DEF Calling, Generation
  <2>6. Heard(q)'
    BY <1>2, <2>1, <2>2, <2>5 DEF Heard, Generation
  <2>7. GatewayTypeOK' /\ others
    <3>1. gen'[q] \in Generation
      <4>1. gen[q].attempt + 1 \in 0 .. MaxRetries
        BY <2>1
      <4> QED
        BY <1>2, <2>2, <4>1 DEF Generation
    <3>2. gen' \in [Asks -> Generation]
      BY <1>2, <2>1, <2>2, <3>1
    <3> QED
      BY <1>2, <2>1, <3>2 DEF GatewayTypeOK
  <2> QED
    BY <2>1, <2>6, <2>7
<1>5. ASSUME NEW reply \in Replies, Hears(q, reply), NEW result \in Result,
             Returns(q, result), reply # "unforeseen",
             reply = "transient" => gen[q].attempt = MaxRetries,
             result.success <=> Accepts(q, reply),
             result.parsed <=> Accepts(q, reply) /\ gen[q].schema,
             result.tokens = IF reply \in Completions THEN 1 ELSE 0,
             reply \in Completions /\ ~Accepts(q, reply) => gen[q].repair
      PROVE  gen[q].at \in {"call", "sleep"} /\ GatewayTypeOK' /\ others /\ Heard(q)'
  <2>1. gen'[q] = [gen[q] EXCEPT !.at = "returned", !.result = result]
        /\ gen' = [gen EXCEPT ![q].at = "returned", ![q].result = result]
        /\ gen[q].at = "call"
    BY <1>2, <1>5 DEF Returns, Hears
  <2>2. /\ gen'[q].repair = gen[q].repair /\ gen'[q].schema = gen[q].schema
        /\ gen'[q].at = "returned" /\ gen'[q].result = result
    BY <1>2, <2>1 DEF Generation
  <2>3. Last(q)' = reply /\ (gen[q].repair => gen[q].schema)
    BY <1>5, HearsShape
  <2>4. Usable(q)' <=> Accepts(q, reply)
    BY <2>2, <2>3 DEF Usable, Accepts, Completions
  <2>5. Over(q)'
    BY <1>5, <2>2, <2>3, <2>4, OverShape DEF Over
  <2>6. Heard(q)'
    BY <2>2, <2>3, <2>5 DEF Heard
  <2>7. gen' \in [Asks -> Generation]
    BY <1>2, <1>5, <2>1 DEF Generation
  <2> QED
    BY <1>2, <1>5, <2>1, <2>6, <2>7, HearsShape DEF GatewayTypeOK
<1>6. CASE GiveUp(q)
  <2>1. PICK reply \in {"transient", "permanent"} :
          Hears(q, reply) /\ ~Retries(q, reply) /\ Returns(q, NoResult)
    BY <1>6 DEF GiveUp
  <2>2. /\ reply \in Replies /\ NoResult \in Result /\ reply # "unforeseen"
        /\ NoResult.success = FALSE /\ NoResult.parsed = FALSE /\ NoResult.tokens = 0
        /\ reply \notin Completions /\ ~Accepts(q, reply)
    BY DEF Replies, Completions, NoResult, Result, Accepts
  <2>3. reply = "transient" => gen[q].attempt = MaxRetries
    BY <1>2, <2>1 DEF Retries, Generation
  <2> QED
    BY <1>5, <2>1, <2>2, <2>3
<1>7. CASE Succeed(q)
  <2> DEFINE result == [success |-> TRUE, parsed |-> gen[q].schema, tokens |-> 1]
  <2>1. PICK reply \in Completions :
          Hears(q, reply) /\ Accepts(q, reply) /\ Returns(q, result)
    BY <1>7 DEF Succeed
  <2>2. /\ reply \in Replies /\ reply # "unforeseen" /\ reply # "transient"
        /\ result \in Result /\ result.success = TRUE /\ result.parsed = gen[q].schema
        /\ result.tokens = 1
    BY <1>2 DEF Replies, Completions, Result, Generation
  <2> HIDE DEF result
  <2> QED
    BY <1>5, <2>1, <2>2
<1>8. CASE Repair(q)
  <2>1. PICK reply \in Completions :
          /\ Hears(q, reply) /\ ~Accepts(q, reply) /\ ~gen[q].repair
          /\ gen' = [gen EXCEPT ![q].repair = TRUE, ![q].attempt = 0]
    BY <1>8 DEF Repair
  <2>2. /\ reply = "unparsable" /\ gen[q].schema /\ reply \in Replies /\ gen[q].at = "call"
    BY <2>1 DEF Accepts, Completions, Replies, Hears
  <2>3. gen'[q] = [gen[q] EXCEPT !.repair = TRUE, !.attempt = 0]
    BY <1>2, <2>1
  <2>4. PICK s \in 0 .. Len(said[q]) :
          Before(q, s, Len(said[q])) /\ Len(said[q]) = s + gen[q].attempt
    BY <2>1, <2>2, HearsShape
  <2>5. /\ Len(said'[q]) = Len(said[q]) + 1 /\ Len(said[q]) \in Nat
        /\ \A i \in 1 .. Len(said[q]) : said'[q][i] = said[q][i]
        /\ said'[q][Len(said[q]) + 1] = "unparsable"
    BY <2>1, <2>2, HearsShape
  <2>6. s = 0 /\ \A i \in 1 .. Len(said[q]) : said[q][i] = "transient"
    BY <2>1, <2>4, <2>5 DEF Before
  <2>7. /\ gen'[q].repair = TRUE /\ gen'[q].attempt = 0 /\ gen'[q].schema = TRUE
        /\ gen'[q].at = "call" /\ gen'[q].result = gen[q].result
    BY <1>2, <2>2, <2>3 DEF Generation
  <2>8. Before(q, Len(said[q]), Len(said[q]))'
    BY <2>5, <2>6, <2>7 DEF Before
  <2>9. Calling(q)'
    BY <2>5, <2>7, <2>8 DEF Calling
  <2>10. Heard(q)'
    BY <1>2, <2>2, <2>7, <2>9 DEF Heard
  <2>11. gen' \in [Asks -> Generation]
    <3>1. gen'[q] \in Generation
      <4>1. 0 \in 0 .. MaxRetries
        OBVIOUS
      <4> QED
        BY <1>2, <2>3, <4>1 DEF Generation
    <3> QED
      BY <1>2, <2>1, <2>3, <3>1
  <2> QED
    BY <1>2, <2>1, <2>2, <2>10, <2>11, HearsShape DEF GatewayTypeOK
<1>9. CASE RejectRepair(q)
  <2> DEFINE result == [success |-> FALSE, parsed |-> FALSE, tokens |-> 1]
  <2>1. PICK reply \in Completions :
          Hears(q, reply) /\ ~Accepts(q, reply) /\ gen[q].repair /\ Returns(q, result)
    BY <1>9 DEF RejectRepair
  <2>2. /\ reply \in Replies /\ reply # "unforeseen" /\ reply # "transient"
        /\ result \in Result /\ result.success = FALSE /\ result.parsed = FALSE
        /\ result.tokens = 1
    BY DEF Replies, Completions, Result
  <2> HIDE DEF result
  <2> QED
    BY <1>5, <2>1, <2>2
<1>10. CASE Escape(q)
  <2>1. /\ Hears(q, "unforeseen") /\ "unforeseen" \in Replies
        /\ gen' = [gen EXCEPT ![q].at = "raised"] /\ gen[q].at = "call"
    BY <1>10 DEF Escape, Replies, Hears
  <2>2. gen'[q] = [gen[q] EXCEPT !.at = "raised"]
    BY <1>2, <2>1
  <2>3. /\ gen'[q].repair = gen[q].repair /\ gen'[q].schema = gen[q].schema
        /\ gen'[q].at = "raised" /\ gen'[q].result = NoResult
        /\ NoResult.success = FALSE /\ NoResult.parsed = FALSE
    BY <1>2, <2>1, <2>2 DEF Generation, Heard, NoResult
  <2>4. Last(q)' = "unforeseen" /\ (gen[q].repair => gen[q].schema)
    BY <2>1, HearsShape
  <2>5. ~Usable(q)' /\ Last(q)' \notin Completions
    BY <2>4 DEF Usable, Completions
  <2>6. Over(q)'
    BY <2>1, <2>3, <2>4, <2>5, OverShape DEF Over
  <2>7. Heard(q)'
    BY <2>3, <2>4, <2>6 DEF Heard
  <2>8. gen' \in [Asks -> Generation]
    BY <1>2, <2>1 DEF Generation
  <2> QED
    BY <1>2, <2>1, <2>7, <2>8, HearsShape DEF GatewayTypeOK
<1> QED
  BY <1>3, <1>4, <1>6, <1>7, <1>8, <1>9, <1>10 DEF GatewayStep

\* The log says where the repair began.
LEMMA RoundFound ==
    ASSUME GatewayInv, NEW q \in Asks, Len(said[q]) \in Nat, Len(said[q]) > 0,
           NEW s \in 0 .. Len(said[q]) - 1, Before(q, s, Len(said[q]) - 1)
    PROVE  RoundStart(q) = s
<1>1. \A i \in Garbled(q) : i < Len(said[q]) => i = s /\ s > 0
  BY DEF Garbled, Before
<1>2. CASE s = 0
  BY <1>1, <1>2 DEF RoundStart
<1>3. CASE s > 0
  <2>1. s \in Garbled(q) /\ s < Len(said[q])
    BY <1>3 DEF Garbled, Before
  <2> QED
    BY <1>1, <2>1 DEF RoundStart
<1> QED
  BY <1>2, <1>3

\* What generate() returns follows from the provider's replies.
LEMMA Explained == GatewayInv => RepliesExplain
<1> SUFFICES ASSUME GatewayInv PROVE RepliesExplain
  OBVIOUS
<1>1. ASSUME NEW q \in Asks, gen[q].at \in {"returned", "raised"}
      PROVE  /\ Len(said[q]) > 0
             /\ \A i \in 1 .. Len(said[q]) - 1 :
                  said[q][i] = "transient"
                    \/ (gen[q].schema /\ i \in Garbled(q) /\ i = RoundStart(q))
             /\ gen[q].at = "raised" <=> Last(q) = "unforeseen"
             /\ gen[q].result.success <=> Usable(q)
             /\ gen[q].result.parsed <=> Usable(q) /\ gen[q].schema
             /\ Last(q) = "transient" => Len(said[q]) = RoundStart(q) + MaxRetries + 1
             /\ ~Usable(q) /\ Last(q) \in Completions => RoundStart(q) > 0
  <2>1. Over(q) /\ Len(said[q]) \in Nat /\ (gen[q].repair => gen[q].schema)
    BY <1>1 DEF GatewayInv, GatewayTypeOK, Heard
  <2>2. PICK s \in 0 .. Len(said[q]) - 1 :
          /\ Before(q, s, Len(said[q]) - 1)
          /\ Last(q) = "transient" => Len(said[q]) = s + MaxRetries + 1
    BY <2>1 DEF Over
  <2>3. RoundStart(q) = s
    BY <2>1, <2>2, RoundFound DEF Over
  <2>4. ASSUME NEW i \in 1 .. Len(said[q]) - 1, said[q][i] # "transient"
        PROVE  gen[q].schema /\ i \in Garbled(q) /\ i = s
    BY <2>1, <2>2, <2>4 DEF Before, Garbled
  <2>5. s = 0 <=> ~gen[q].repair
    BY <2>2 DEF Before
  <2> QED
    BY <2>1, <2>2, <2>3, <2>4, <2>5 DEF Over
<1> QED
  BY <1>1 DEF RepliesExplain, Usable

\* Without a schema a result tells the usage of every completion there was:
\* the last reply, or none.
LEMMA PlainResult ==
    ASSUME GatewayInv, NEW q \in Asks, gen[q].at = "returned", ~gen[q].schema
    PROVE  /\ gen[q].result.success = (Last(q) \in Completions)
           /\ gen[q].result.tokens = Completed(q)
<1>1. Over(q) /\ Len(said[q]) \in Nat /\ ~gen[q].repair /\ gen[q] \in Generation
  BY DEF GatewayInv, GatewayTypeOK, Heard
<1> DEFINE n == Len(said[q])
           done == {i \in 1 .. n : said[q][i] \in Completions}
<1>2. \A i \in 1 .. n - 1 : said[q][i] = "transient"
  BY <1>1 DEF Over, Before
<1>3. Usable(q) <=> Last(q) \in Completions
  BY DEF Usable, Completions
<1>4. done = IF Last(q) \in Completions THEN {n} ELSE {}
  BY <1>1, <1>2 DEF Over, Last, Completions
<1>5. Cardinality({n}) = 1 /\ Cardinality({}) = 0
  BY FS_EmptySet, FS_Singleton
<1>6. gen[q].result.success \in BOOLEAN
  BY <1>1 DEF Generation, Result
<1>7. gen[q].result.success = (Last(q) \in Completions)
  BY <1>1, <1>3, <1>6 DEF Over
<1>8. gen[q].result.tokens = IF Last(q) \in Completions THEN 1 ELSE 0
  BY <1>1 DEF Over
<1>9. gen[q].result.tokens = Cardinality(done)
  BY <1>4, <1>5, <1>8
<1> QED
  BY <1>7, <1>9 DEF Completed

------------------------------------------------------------------------------
(* Uploads and asks *)

Ready(u) == [status |-> "ready", chunks |-> ChunksOf(u, pieces[u])]

UploadInv(u) ==
    /\ pc[u] \in {"idle", "create", "embed", "store", "undo", "commit", "refresh"} \cup Ended
    /\ documents[u] # NoDocument => pc[u] \in {"refresh", "done", "error", "lost"}
    /\ \/ documents[u] \in {NoDocument, Failed(u)}
       \/ documents[u] = Ready(u) /\ pieces[u] > 0
    /\ pc[u] = "store" => pieces[u] > 0
    /\ pc[u] = "commit" => \/ tx[u] = Failed(u)
                           \/ tx[u] = Ready(u) /\ pieces[u] > 0
    /\ pc[u] = "refresh" => documents[u] # NoDocument
    /\ pc[u] = "done" => told[u] \in {"ready", "failed"} /\ documents[u].status = told[u]
    /\ told[u] \in {"ready", "failed"} => pc[u] = "done"

\* What concerns an ask's own entries only.
OwnInv(q) ==
    /\ pc[q] \in {"idle", "question", "generate", "respond"} \cup Ended
    /\ pc[q] \in {"idle", "question"} => gen[q].at = "idle"
    /\ gen[q].at = "idle" => ~gen[q].schema
    /\ pc[q] = "question" => kind[q] = "rag"
    /\ kind[q] \in Features => ~gen[q].schema
    /\ pc[q] = "respond" => traces[q] # {}
    /\ traces[q] # {} => pc[q] \in {"respond", "done", "error", "lost"}
    /\ \A t \in traces[q] :
         /\ t.org = OrgOf[q] /\ t.feature = kind[q] /\ kind[q] \in Features
         /\ gen[q].at = "returned"
         /\ t.success = gen[q].result.success /\ t.tokens = gen[q].result.tokens
    /\ told[q] \in {"answer", "bad gateway"} => traces[q] # {} /\ pc[q] = "done"
    /\ told[q] = "answer" => gen[q].result.success
    /\ told[q] = "bad gateway" => ~gen[q].result.success

\* What relates an ask to the uploads.
FoundInv(q) ==
    /\ known[q] \subseteq ToldReady(OrgOf[q])
    /\ \A c \in context[q] :
         c[1] \in Uploads /\ OrgOf[c[1]] = OrgOf[q] /\ documents[c[1]].status = "ready"
    /\ kind[q] = "rag" /\ gen[q].at # "idle" /\ Cardinality(context[q]) < TopK /\ ~crowded[q] =>
         \A u \in known[q] : ChunksOf(u, pieces[u]) \subseteq context[q]

\* Every row, committed or not, has its entry.
IndexInv ==
    \A u \in Uploads : documents[u].chunks \subseteq index /\ tx[u].chunks \subseteq index

KInv ==
    /\ TypeOK
    /\ GatewayInv
    /\ IndexInv
    /\ \A u \in Uploads : UploadInv(u)
    /\ \A q \in Asks : OwnInv(q) /\ FoundInv(q)

------------------------------------------------------------------------------
(* Frames: what a step leaves alone stays as it was. *)

LEMMA GatewayFrame ==
    ASSUME GatewayInv, UNCHANGED <<gen, said>>
    PROVE  GatewayInv'
<1>1. GatewayTypeOK'
  BY DEF GatewayInv, GatewayTypeOK
<1>2. \A q \in Asks : Heard(q)'
  BY HeardFrame DEF GatewayInv
<1> QED
  BY <1>1, <1>2 DEF GatewayInv

LEMMA UploadFrame ==
    ASSUME NEW u \in Uploads, UploadInv(u), pc'[u] = pc[u], told'[u] = told[u],
           pieces'[u] = pieces[u], tx'[u] = tx[u], documents'[u] = documents[u]
    PROVE  UploadInv(u)'
  BY DEF UploadInv, Ready, Failed, NoDocument, ChunksOf, Ended

LEMMA OwnFrame ==
    ASSUME NEW q \in Asks, OwnInv(q), pc'[q] = pc[q], told'[q] = told[q],
           gen'[q] = gen[q], kind'[q] = kind[q], traces'[q] = traces[q]
    PROVE  OwnInv(q)'
  BY DEF OwnInv, Ended, Features

\* Of the uploads an ask sees only what is ready, and that never changes.
LEMMA FoundFrame ==
    ASSUME NEW q \in Asks, FoundInv(q),
           \A u \in Uploads : told[u] = "ready" => told'[u] = "ready" /\ pieces'[u] = pieces[u],
           \A u \in Uploads :
             documents[u].status = "ready" => documents'[u].status = "ready",
           gen[q].at = "idle" => gen'[q].at = "idle", kind'[q] = kind[q], context'[q] = context[q],
           known'[q] = known[q], crowded'[q] = crowded[q]
    PROVE  FoundInv(q)'
<1>1. ToldReady(OrgOf[q]) \subseteq ToldReady(OrgOf[q])'
  BY DEF ToldReady
<1>2. \A u \in known[q] : pieces'[u] = pieces[u]
  BY DEF FoundInv, ToldReady
<1> QED
  BY <1>1, <1>2 DEF FoundInv, ChunksOf

LEMMA KInit == Init => KInv
<1> SUFFICES ASSUME Init PROVE KInv
  OBVIOUS
<1>1. GatewayInv
  BY GatewayInitInv DEF Init
<1>2. NoDocument \in Document /\ 0 \in 0 .. MaxPieces /\ Cardinality({}) = 0 /\ TopK \in Nat
  BY KnowledgeAssumption, FS_EmptySet DEF NoDocument, Document
<1>3. TypeOK
  BY <1>1, <1>2 DEF Init, TypeOK, GatewayInv, Steps, Kinds
<1>4. \A u \in Uploads : UploadInv(u)
  BY KnowledgeAssumption DEF Init, UploadInv, NoDocument, Requests
<1>5. ASSUME NEW q \in Asks PROVE OwnInv(q) /\ FoundInv(q)
  BY KnowledgeAssumption DEF Init, GatewayInit, OwnInv, FoundInv, Requests, Features
<1>6. IndexInv
  BY DEF Init, IndexInv, NoDocument
<1> QED
  BY <1>1, <1>3, <1>4, <1>5, <1>6 DEF KInv

------------------------------------------------------------------------------
(* The steps of uploads. *)

LEMMA ChunksOfType ==
    ASSUME NEW u \in Uploads, NEW n \in 0 .. MaxPieces
    PROVE  ChunksOf(u, n) \in SUBSET Chunk
<1>1. 0 .. n - 1 \subseteq 0 .. MaxPieces - 1
  BY KnowledgeAssumption
<1> QED
  BY <1>1 DEF ChunksOf, Chunk

\* The entries of u that a step of its handler writes keep their type.
LEMMA UploadTypes ==
    ASSUME KInv, NEW u \in Uploads, Upload(u) \/ UploadStep(u)
    PROVE  TypeOK'
<1>1. /\ u \in Requests /\ TypeOK /\ UploadInv(u) /\ MaxPieces \in Nat
      /\ pc \in [Requests -> Steps] /\ pieces \in [Uploads -> 0 .. MaxPieces]
      /\ tx \in [Uploads -> Document] /\ documents \in [Uploads -> Document]
  BY KnowledgeAssumption DEF KInv, TypeOK, Requests
<1>2. UNCHANGED <<gen, said, kind, context, known, crowded, traces>>
  BY DEF Upload, UploadStep, Create, Embed, EmbedFails, Store, StoreFails, Undo, Commit,
         Answer201, uploading, asking, database
<1>3. pc' \in [Requests -> Steps]
  BY <1>1 DEF Upload, UploadStep, Create, Embed, EmbedFails, Store, StoreFails, Undo, Commit,
         Answer201, Goto, Steps, Ended
<1>4. pieces' \in [Uploads -> 0 .. MaxPieces]
  <2>1. CASE Embed(u)
    BY <1>1, <2>1 DEF Embed
  <2> QED
    BY <1>1, <2>1 DEF Upload, UploadStep, Create, EmbedFails, Store, StoreFails, Undo, Commit,
                      Answer201, uploading
<1>5. tx' \in [Uploads -> Document]
  <2>1. tx[u] \in Document /\ pieces[u] \in 0 .. MaxPieces
    BY <1>1
  <2>2. CASE Create(u)
    <3>1. [tx[u] EXCEPT !.status = "processing"] \in Document
      BY <2>1 DEF Document
    <3> QED
      BY <1>1, <2>2, <3>1 DEF Create
  <2>3. CASE Store(u)
    <3>1. [status |-> "ready", chunks |-> Stored(u)] \in Document
      BY <2>1, ChunksOfType DEF Stored, Document
    <3> QED
      BY <1>1, <2>3, <3>1 DEF Store
  <2>4. CASE StoreFails(u)
    <3>1. PICK n \in 0 .. pieces[u] - 1 : tx' = [tx EXCEPT ![u].chunks = ChunksOf(u, n)]
      BY <2>4 DEF StoreFails
    <3>2. n \in 0 .. MaxPieces
      BY <1>1, <2>1
    <3>3. [tx[u] EXCEPT !.chunks = ChunksOf(u, n)] \in Document
      BY <2>1, <3>2, ChunksOfType DEF Document
    <3> QED
      BY <1>1, <3>1, <3>3
  <2>5. Failed(u) \in Document /\ NoDocument \in Document
    BY DEF Failed, NoDocument, Document
  <2> QED
    BY <1>1, <2>2, <2>3, <2>4, <2>5
    DEF Upload, UploadStep, Embed, EmbedFails, Undo, Commit, Answer201, uploading
<1>6. documents' \in [Uploads -> Document]
  BY <1>1 DEF Upload, UploadStep, Create, Embed, EmbedFails, Store, StoreFails, Undo, Commit,
              Answer201, database
<1>7. told' \in [Requests -> {"nothing", "refusal", "ready", "failed", "answer",
                              "bad gateway", "server error"}]
  <2>1. CASE Answer201(u)
    <3>1. documents[u] = Failed(u) \/ documents[u] = Ready(u)
      BY <1>1, <2>1 DEF Answer201, Goto, UploadInv
    <3>2. documents[u].status \in {"ready", "failed"}
      BY <3>1 DEF Ready, Failed
    <3> QED
      BY <1>1, <2>1, <3>2 DEF Answer201, TypeOK
  <2> QED
    BY <1>1, <2>1 DEF Upload, UploadStep, Create, Embed, EmbedFails, Store, StoreFails, Undo,
                      Commit, TypeOK
<1>8. index' \in SUBSET Chunk
  <2>1. index \in SUBSET Chunk /\ pieces[u] \in 0 .. MaxPieces
    BY <1>1 DEF TypeOK
  <2>2. CASE Store(u)
    BY <2>1, <2>2, ChunksOfType DEF Store, Stored
  <2>3. CASE StoreFails(u)
    <3>1. PICK n \in 0 .. pieces[u] - 1 : index' = index \cup ChunksOf(u, n)
      BY <2>3 DEF StoreFails
    <3>2. n \in 0 .. MaxPieces
      BY <1>1, <2>1
    <3> QED
      BY <2>1, <3>1, <3>2, ChunksOfType
  <2> QED
    BY <2>1, <2>2, <2>3
    DEF Upload, UploadStep, Create, Embed, EmbedFails, Undo, Commit, Answer201, uploading
<1> QED
  BY <1>1, <1>2, <1>3, <1>4, <1>5, <1>6, <1>7, <1>8 DEF TypeOK, GatewayTypeOK

\* What an upload writes gets its entry, and no entry of others is lost.
LEMMA UploadIndexes ==
    ASSUME KInv, NEW u \in Uploads, Upload(u) \/ UploadStep(u)
    PROVE  IndexInv'
<1>1. /\ tx \in [Uploads -> Document] /\ documents \in [Uploads -> Document]
      /\ IndexInv
  BY DEF KInv, TypeOK
<1>2. /\ index \subseteq index'
      /\ tx'[u].chunks \subseteq index' /\ documents'[u].chunks \subseteq index'
  <2>1. tx[u] \in Document /\ tx[u].chunks \subseteq index /\ documents[u].chunks \subseteq index
    BY <1>1 DEF IndexInv
  <2>2. CASE Create(u)
    BY <1>1, <2>1, <2>2 DEF Create, Document, database
  <2>3. CASE Store(u)
    BY <1>1, <2>1, <2>3 DEF Store, database
  <2>4. CASE StoreFails(u)
    BY <1>1, <2>1, <2>4 DEF StoreFails, Document, database
  <2>5. CASE Undo(u)
    BY <1>1, <2>1, <2>5 DEF Undo, Failed, database
  <2>6. CASE Commit(u)
    BY <1>1, <2>1, <2>6 DEF Commit, NoDocument
  <2> QED
    BY <2>1, <2>2, <2>3, <2>4, <2>5, <2>6
    DEF Upload, UploadStep, Embed, EmbedFails, Answer201, uploading, database
<1>3. \A v \in Uploads : v # u => tx'[v] = tx[v] /\ documents'[v] = documents[v]
  BY <1>1 DEF Upload, UploadStep, Create, Embed, EmbedFails, Store, StoreFails, Undo, Commit,
              Answer201, uploading, database
<1> QED
  BY <1>1, <1>2, <1>3 DEF IndexInv

\* The next place of its handler finds what it needs.
LEMMA UploadOwn ==
    ASSUME KInv, NEW u \in Uploads, Upload(u) \/ UploadStep(u)
    PROVE  UploadInv(u)'
<1>1. /\ UploadInv(u) /\ u \in Requests /\ MaxPieces \in Nat
      /\ pc \in [Requests -> Steps] /\ told \in [Requests -> {"nothing", "refusal", "ready",
            "failed", "answer", "bad gateway", "server error"}]
      /\ pieces \in [Uploads -> 0 .. MaxPieces]
      /\ tx \in [Uploads -> Document] /\ documents \in [Uploads -> Document]
  BY KnowledgeAssumption DEF KInv, TypeOK, Requests
<1> DEFINE Working == {"create", "embed", "store", "undo", "commit"}
<1>2. ASSUME NEW p \in Working, pc[u] \in Working \cup {"idle"},
             pc'[u] = p, documents'[u] = documents[u], told'[u] = told[u],
             p = "store" => pieces'[u] > 0,
             p = "commit" => \/ tx'[u] = Failed(u)
                             \/ tx'[u] = Ready(u)' /\ pieces'[u] > 0
      PROVE  UploadInv(u)'
  <2>1. documents[u] = NoDocument /\ told[u] \notin {"ready", "failed"}
    BY <1>1, <1>2 DEF UploadInv
  <2> QED
    BY <1>2, <2>1 DEF UploadInv, Failed
<1>3. CASE Upload(u)
  BY <1>1, <1>2, <1>3 DEF Upload, Goto, database
<1>4. CASE Create(u)
  BY <1>1, <1>2, <1>4 DEF Create, Goto, database
<1>5. CASE Embed(u)
  <2>1. pieces'[u] > 0
    <3>1. PICK n \in 1 .. MaxPieces : pieces' = [pieces EXCEPT ![u] = n]
      BY <1>5 DEF Embed
    <3>2. pieces'[u] = n
      BY <1>1, <3>1
    <3> QED
      BY <3>2
  <2>2. pc[u] = "embed" /\ pc'[u] = "store" /\ documents' = documents /\ told' = told
    BY <1>1, <1>5 DEF Embed, Goto, database
  <2> QED
    BY <1>2, <2>1, <2>2
<1>6. CASE EmbedFails(u)
  BY <1>1, <1>2, <1>6 DEF EmbedFails, Goto, database
<1>7. CASE Store(u)
  <2>1. tx'[u] = Ready(u)' /\ pieces'[u] > 0
    BY <1>1, <1>7 DEF Store, Goto, Stored, Ready, UploadInv, ChunksOf
  <2> QED
    BY <1>1, <1>2, <1>7, <2>1 DEF Store, Goto, database
<1>8. CASE StoreFails(u)
  <2>1. pc[u] = "store" /\ pc'[u] = "undo" /\ documents' = documents /\ told' = told
    BY <1>1, <1>8 DEF StoreFails, Goto, database
  <2> QED
    BY <1>2, <2>1
<1>9. CASE Undo(u)
  BY <1>1, <1>2, <1>9 DEF Undo, Goto, database
<1>10. CASE Commit(u)
  <2>1. /\ pc[u] = "commit" /\ pc'[u] = "refresh" /\ documents'[u] = tx[u]
        /\ pieces' = pieces /\ told' = told
    BY <1>1, <1>10 DEF Commit, Goto
  <2>2. \/ tx[u] = Failed(u)
        \/ tx[u] = Ready(u) /\ pieces[u] > 0
    BY <1>1, <2>1 DEF UploadInv
  <2>3. told[u] \notin {"ready", "failed"}
    BY <1>1, <2>1 DEF UploadInv
  <2>4. tx[u] # NoDocument
    BY <2>2 DEF Failed, Ready, NoDocument
  <2> QED
    BY <2>1, <2>2, <2>3, <2>4 DEF UploadInv, Failed, Ready, ChunksOf
<1>11. CASE Answer201(u)
  <2>1. /\ pc[u] = "refresh" /\ pc'[u] = "done" /\ told'[u] = documents[u].status
        /\ documents' = documents /\ pieces' = pieces
    BY <1>1, <1>11 DEF Answer201, Goto, database, uploading
  <2>2. \/ documents[u] = Failed(u)
        \/ documents[u] = Ready(u) /\ pieces[u] > 0
    BY <1>1, <2>1 DEF UploadInv
  <2>3. told'[u] \in {"ready", "failed"}
    BY <2>1, <2>2 DEF Failed, Ready
  <2> QED
    BY <2>1, <2>2, <2>3 DEF UploadInv, Failed, Ready, ChunksOf, Ended
<1> QED
  BY <1>3, <1>4, <1>5, <1>6, <1>7, <1>8, <1>9, <1>10, <1>11 DEF UploadStep

LEMMA UploadKeeps ==
    ASSUME KInv, NEW u \in Uploads, Upload(u) \/ UploadStep(u)
    PROVE  KInv'
<1> USE DEF uploading, asking, database
<1>1. /\ UNCHANGED <<gen, said, kind, context, known, crowded, traces>>
      /\ \A r \in Requests : r # u => pc'[r] = pc[r] /\ told'[r] = told[r]
      /\ \A v \in Uploads : v # u =>
           pieces'[v] = pieces[v] /\ tx'[v] = tx[v] /\ documents'[v] = documents[v]
  BY DEF KInv, TypeOK, Upload, UploadStep, Create, Embed, EmbedFails, Store, StoreFails, Undo,
         Commit, Answer201, Goto
<1>2. \A v \in Uploads : UploadInv(v)'
  BY <1>1, UploadFrame, UploadOwn DEF KInv, Requests
<1>3. \A q \in Asks : OwnInv(q)'
  BY <1>1, OwnFrame, KnowledgeAssumption DEF KInv, Requests
<1>4. pc[u] \notin Ended /\ told[u] \notin {"ready", "failed"}
  BY DEF Upload, UploadStep, Create, Embed, EmbedFails, Store, StoreFails, Undo, Commit,
         Answer201, Goto, KInv, UploadInv, Ended
<1>5. documents'[u] = documents[u] \/ documents[u] = NoDocument
  BY DEF Upload, UploadStep, Create, Embed, EmbedFails, Store, StoreFails, Undo, Commit,
         Answer201, Goto, KInv, UploadInv
<1>6. \A v \in Uploads : documents[v].status = "ready" => documents'[v].status = "ready"
  BY <1>1, <1>5 DEF NoDocument
<1>7. \A q \in Asks : FoundInv(q)'
  BY <1>1, <1>4, <1>6, FoundFrame DEF KInv, Requests
<1>8. GatewayInv'
  BY <1>1, GatewayFrame DEF KInv
<1> QED
  BY <1>2, <1>3, <1>7, <1>8, UploadTypes, UploadIndexes DEF KInv

------------------------------------------------------------------------------
(* The steps of asks, and the failures. *)

\* What a step of ask q's handler leaves alone: the uploads and the other asks.
Others(q) ==
    /\ UNCHANGED <<pieces, tx, documents, index>>
    /\ \A r \in Requests : r # q => pc'[r] = pc[r] /\ told'[r] = told[r]
    /\ \A p \in Asks : p # q =>
         /\ gen'[p] = gen[p] /\ kind'[p] = kind[p] /\ traces'[p] = traces[p]
         /\ context'[p] = context[p] /\ known'[p] = known[p] /\ crowded'[p] = crowded[p]

LEMMA AskFrame ==
    ASSUME KInv, NEW q \in Asks, Others(q), TypeOK', GatewayInv', OwnInv(q)', FoundInv(q)'
    PROVE  KInv'
<1>1. /\ \A u \in Uploads : u \in Requests /\ u # q
      /\ \A p \in Asks : p \in Requests
  BY KnowledgeAssumption DEF Requests
<1>2. \A u \in Uploads : UploadInv(u)'
  BY <1>1, UploadFrame DEF KInv, Others
<1>3. ASSUME NEW p \in Asks, p # q PROVE OwnInv(p)' /\ FoundInv(p)'
  <2>1. OwnInv(p)'
    BY <1>1, <1>3, OwnFrame DEF KInv, Others
  <2>2. \A u \in Uploads : told[u] = "ready" => told'[u] = "ready" /\ pieces'[u] = pieces[u]
    BY <1>1 DEF Others
  <2> QED
    BY <1>1, <1>3, <2>1, <2>2, FoundFrame DEF KInv, Others
<1>4. IndexInv'
  BY DEF KInv, IndexInv, Others
<1> QED
  BY <1>2, <1>3, <1>4 DEF KInv

\* The types of what the handler of an ask reads and writes.
LEMMA AskFacts ==
    ASSUME KInv, NEW q \in Asks
    PROVE  /\ q \in Requests /\ q \notin Uploads
           /\ TypeOK /\ GatewayInv /\ OwnInv(q) /\ FoundInv(q)
           /\ pc \in [Requests -> Steps]
           /\ told \in [Requests -> {"nothing", "refusal", "ready", "failed", "answer",
                                     "bad gateway", "server error"}]
           /\ gen \in [Asks -> Generation] /\ said \in [Asks -> Seq(Replies)]
           /\ kind \in [Asks -> Kinds] /\ traces \in [Asks -> SUBSET Trace]
           /\ context \in [Asks -> SUBSET Chunk] /\ known \in [Asks -> SUBSET Uploads]
           /\ crowded \in [Asks -> BOOLEAN] /\ index \subseteq Chunk
  BY KnowledgeAssumption DEF KInv, TypeOK, GatewayTypeOK, Requests

LEMMA ChunksFinite ==
    ASSUME TypeOK, NEW org
    PROVE  IsFiniteSet(Chunk) /\ IsFiniteSet(index) /\ Scoped(org) \subseteq Chunk
<1>1. \A u \in Uploads : documents[u].chunks \subseteq Chunk
  BY DEF TypeOK, Document
<1>2. Scoped(org) \subseteq Chunk
  BY <1>1 DEF Scoped, Table
<1>3. IsFiniteSet(Uploads) /\ IsFiniteSet(0 .. MaxPieces - 1)
  BY KnowledgeAssumption, FS_Subset, FS_Interval DEF Requests
<1>4. IsFiniteSet(Chunk)
  BY <1>3, FS_Product DEF Chunk
<1> QED
  BY <1>2, <1>4, FS_Subset DEF TypeOK

\* An index that holds no more than a scan reads is read whole, and has every row.
LEMMA ReachShape ==
    ASSUME TypeOK, IndexInv, NEW org, NEW rows \in Reach, ~(Cardinality(index) > ScanWidth)
    PROVE  rows \cap Scoped(org) = Scoped(org)
<1>1. IsFiniteSet(index) /\ Cardinality(index) \in Nat /\ ScanWidth \in Nat
  BY ChunksFinite, FS_CardinalityType, KnowledgeAssumption
<1>2. rows \subseteq index /\ (rows = index \/ Cardinality(rows) >= ScanWidth)
  BY DEF Reach
<1>3. /\ Cardinality(rows) \in Nat /\ Cardinality(rows) <= Cardinality(index)
      /\ Cardinality(rows) = Cardinality(index) => rows = index
  BY <1>1, <1>2, FS_Subset, FS_CardinalityType
<1>4. rows = index
  BY <1>1, <1>2, <1>3
<1>5. Scoped(org) \subseteq index
  BY DEF Scoped, Table, IndexInv
<1> QED
  BY <1>4, <1>5

\* A search returns TopK of the organisation's chunks in these rows, or all of them.
LEMMA NearestShape ==
    ASSUME TypeOK, NEW org, NEW rows, NEW found \in Nearest(org, rows)
    PROVE  /\ found \subseteq rows \cap Scoped(org)
           /\ Cardinality(found) <= TopK
           /\ Cardinality(found) < TopK => found = rows \cap Scoped(org)
<1> DEFINE own == rows \cap Scoped(org)
           n == Cardinality(own)
<1>1. IsFiniteSet(own) /\ n \in Nat /\ TopK \in Nat
  BY ChunksFinite, FS_Subset, FS_CardinalityType, KnowledgeAssumption
<1>2. \/ Min({TopK, n}) = TopK
      \/ Min({TopK, n}) = n /\ n <= TopK
  <2>1. \E x \in {TopK, n} : \A y \in {TopK, n} : x =< y
    BY <1>1
  <2> QED
    BY <1>1, <2>1 DEF Min
<1>3. found \subseteq own /\ Cardinality(found) = Min({TopK, n})
  BY DEF Nearest, kSubset
<1>4. Cardinality(found) = n => found = own
  BY <1>1, <1>3, FS_Subset
<1> QED
  BY <1>1, <1>2, <1>3, <1>4

LEMMA AskKeeps ==
    ASSUME KInv, NEW q \in Asks, Ask(q)
    PROVE  KInv'
<1>1. PICK k \in Kinds \ {"none"} :
        /\ kind' = [kind EXCEPT ![q] = k]
        /\ \/ k = "rag" /\ Goto(q, "idle", "question") /\ UNCHANGED <<gen, said>>
           \/ k = "ai" /\ Goto(q, "idle", "generate") /\ Generate(q, FALSE)
           \/ k = "direct" /\ Goto(q, "idle", "generate") /\ Generate(q, TRUE)
  BY DEF Ask
<1>2. /\ known' = [known EXCEPT ![q] = ToldReady(OrgOf[q])]
      /\ UNCHANGED <<pieces, tx, documents, index, context, crowded, traces, told>>
  BY DEF Ask, uploading, database
<1>3. /\ pc[q] = "idle" /\ pc'[q] = IF k = "rag" THEN "question" ELSE "generate"
      /\ gen[q].at = "idle" /\ ~gen[q].schema /\ kind'[q] = k /\ known'[q] = ToldReady(OrgOf[q])
      /\ pc' \in [Requests -> Steps] /\ kind' \in [Asks -> Kinds]
      /\ \A r \in Requests : r # q => pc'[r] = pc[r]
  <2>1. pc[q] = "idle" /\ pc' = [pc EXCEPT ![q] = IF k = "rag" THEN "question" ELSE "generate"]
    BY <1>1 DEF Goto
  <2>2. gen[q].at = "idle" /\ ~gen[q].schema
    BY <2>1, AskFacts DEF OwnInv
  <2>3. pc' \in [Requests -> Steps]
    BY <2>1, AskFacts DEF Steps
  <2> QED
    BY <1>1, <1>2, <2>1, <2>2, <2>3, AskFacts
<1>4. /\ GatewayInv'
      /\ \A p \in Asks : p # q => gen'[p] = gen[p]
      /\ gen'[q].at = (IF k = "rag" THEN "idle" ELSE "call")
      /\ gen'[q].schema = (k = "direct")
  <2>1. CASE k = "rag"
    BY <1>1, <1>3, <2>1, AskFacts, GatewayFrame DEF Generation
  <2>2. ASSUME NEW schema \in BOOLEAN, Generate(q, schema)
        PROVE  /\ GatewayInv'
               /\ \A p \in Asks : p # q => gen'[p] = gen[p]
               /\ gen'[q].at = "call" /\ gen'[q].schema = schema
    BY <1>3, <2>2, AskFacts, GenerateInv DEF Generate, Generation
  <2> QED
    BY <1>1, <2>1, <2>2
<1>5. Others(q)
  BY <1>1, <1>2, <1>3, <1>4, AskFacts DEF Others
<1>6. OwnInv(q)'
  BY <1>2, <1>3, <1>4, AskFacts DEF OwnInv, Features, Ended
<1>7. FoundInv(q)'
  <2>1. ToldReady(OrgOf[q])' = ToldReady(OrgOf[q])
    BY <1>2 DEF ToldReady
  <2>2. FoundInv(q) /\ context' = context /\ documents' = documents /\ crowded' = crowded
    BY <1>2, AskFacts
  <2>3. k = "rag" => gen'[q].at = "idle"
    BY <1>4
  <2> QED
    BY <1>3, <2>1, <2>2, <2>3 DEF FoundInv
<1>8. TypeOK'
  BY <1>2, <1>3, <1>4, AskFacts DEF TypeOK, GatewayInv, ToldReady
<1> QED
  BY <1>4, <1>5, <1>6, <1>7, <1>8, AskFrame

LEMMA RetrieveKeeps ==
    ASSUME KInv, NEW q \in Asks, Retrieve(q)
    PROVE  KInv'
<1>1. PICK rows \in Reach : \E found \in Nearest(OrgOf[q], rows) :
        context' = [context EXCEPT ![q] = found]
  BY DEF Retrieve
<1> DEFINE wide == Cardinality(index) > ScanWidth
<1>13. PICK found \in Nearest(OrgOf[q], rows) : context' = [context EXCEPT ![q] = found]
  BY <1>1
<1> HIDE DEF wide
<1>2. /\ Generate(q, FALSE)
      /\ UNCHANGED <<pieces, tx, documents, index, kind, known, traces, told>>
      /\ crowded' = [crowded EXCEPT ![q] = wide]
  BY DEF Retrieve, uploading, database, wide
<1>3. /\ pc[q] = "question" /\ pc'[q] = "generate" /\ kind[q] = "rag" /\ gen[q].at = "idle"
      /\ context'[q] = found /\ crowded'[q] = wide /\ pc' \in [Requests -> Steps]
      /\ \A r \in Requests : r # q => pc'[r] = pc[r]
  BY <1>2, <1>13, AskFacts DEF Retrieve, Goto, OwnInv, Steps
<1>4. /\ GatewayInv'
      /\ \A p \in Asks : p # q => gen'[p] = gen[p]
      /\ gen'[q].at = "call" /\ ~gen'[q].schema
  BY <1>2, <1>3, AskFacts, GenerateInv DEF Generate, Generation
<1>5. Others(q)
  BY <1>2, <1>3, <1>4, <1>13, AskFacts DEF Others
<1>6. OwnInv(q)'
  BY <1>2, <1>3, <1>4, AskFacts DEF OwnInv, Features, Ended
<1>7. /\ found \subseteq Scoped(OrgOf[q]) /\ found \subseteq Chunk
      /\ Cardinality(found) <= TopK
      /\ Cardinality(found) < TopK /\ ~wide => found = Scoped(OrgOf[q])
  <2>1. ~wide => rows \cap Scoped(OrgOf[q]) = Scoped(OrgOf[q])
    BY AskFacts, ReachShape DEF KInv, wide
  <2>2. /\ found \subseteq rows \cap Scoped(OrgOf[q]) /\ Cardinality(found) <= TopK
        /\ Cardinality(found) < TopK => found = rows \cap Scoped(OrgOf[q])
    <3>1. TypeOK
      BY AskFacts
    <3> QED
      BY <3>1, NearestShape
  <2>3. Scoped(OrgOf[q]) \subseteq Chunk
    BY AskFacts, ChunksFinite
  <2> QED
    BY <2>1, <2>2, <2>3
<1>8. \A u \in Uploads :
        \/ documents[u].status \in {"none", "failed"} /\ documents[u].chunks = {}
        \/ documents[u].status = "ready" /\ documents[u].chunks = ChunksOf(u, pieces[u])
  <2>1. ASSUME NEW u \in Uploads
        PROVE  documents[u] \in {NoDocument, Failed(u), Ready(u)}
    BY DEF KInv, UploadInv
  <2> QED
    BY <2>1 DEF NoDocument, Failed, Ready
<1>9. ASSUME NEW c \in Scoped(OrgOf[q])
      PROVE  c[1] \in Uploads /\ OrgOf[c[1]] = OrgOf[q] /\ documents[c[1]].status = "ready"
  <2>1. PICK u \in Uploads : c \in documents[u].chunks
    BY DEF Scoped, Table
  <2>2. documents[u].status = "ready" /\ c \in {u} \X (0 .. pieces[u] - 1)
    BY <1>8, <2>1 DEF ChunksOf
  <2> QED
    BY <2>2 DEF Scoped
<1>10. ASSUME NEW u \in known[q]
       PROVE  ChunksOf(u, pieces[u]) \subseteq Scoped(OrgOf[q])
  <2>1. u \in Uploads /\ OrgOf[u] = OrgOf[q] /\ told[u] = "ready"
    BY AskFacts DEF FoundInv, ToldReady
  <2>2. documents[u].status = "ready"
    BY <2>1 DEF KInv, UploadInv
  <2>3. documents[u].chunks = ChunksOf(u, pieces[u])
    BY <1>8, <2>1, <2>2
  <2> QED
    BY <2>1, <2>3 DEF Scoped, Table, ChunksOf
<1>11. FoundInv(q)'
  <2>1. ToldReady(OrgOf[q])' = ToldReady(OrgOf[q])
    BY <1>2 DEF ToldReady
  <2>2. \A c \in context'[q] :
          c[1] \in Uploads /\ OrgOf[c[1]] = OrgOf[q] /\ documents'[c[1]].status = "ready"
    BY <1>2, <1>3, <1>7, <1>9
  <2>3. Cardinality(context'[q]) < TopK /\ ~crowded'[q] =>
          \A u \in known'[q] : ChunksOf(u, pieces'[u]) \subseteq context'[q]
    BY <1>2, <1>3, <1>7, <1>10
  <2>4. known[q] \subseteq ToldReady(OrgOf[q])
    BY AskFacts DEF FoundInv
  <2> QED
    BY <1>2, <2>1, <2>2, <2>3, <2>4 DEF FoundInv, ChunksOf
<1>12. TypeOK'
  <2>1. context' \in [Asks -> SUBSET Chunk]
    BY <1>7, <1>13, AskFacts
  <2>2. \A p \in Asks : Cardinality(context'[p]) <= TopK
    BY <1>7, <1>13, AskFacts DEF TypeOK
  <2>3. crowded' \in [Asks -> BOOLEAN]
    <3>1. Cardinality(index) \in Nat /\ ScanWidth \in Nat
      BY AskFacts, ChunksFinite, FS_CardinalityType, KnowledgeAssumption
    <3>2. wide \in BOOLEAN
      BY <3>1 DEF wide
    <3> QED
      BY <1>2, <3>2, AskFacts
  <2> QED
    BY <1>2, <1>3, <1>4, <2>1, <2>2, <2>3, AskFacts DEF TypeOK, GatewayInv
<1> QED
  BY <1>4, <1>5, <1>6, <1>11, <1>12, AskFrame

\* A step of generate() writes the entries of its own request.
LEMMA StepShape ==
    ASSUME GatewayInv, NEW q \in Asks, GatewayStep(q)
    PROVE  /\ \A p \in Asks : p # q => gen'[p] = gen[p]
           /\ gen'[q].schema = gen[q].schema /\ gen'[q].at # "idle"
<1>1. gen \in [Asks -> Generation] /\ gen[q] \in Generation
  BY DEF GatewayInv, GatewayTypeOK
<1>2. gen[q].at \in {"call", "sleep"}
  BY StepInv
<1>3. CASE BackOff(q)
  BY <1>1, <1>3 DEF BackOff, Generation
<1>4. CASE Retry(q)
  BY <1>1, <1>4 DEF Retry, Generation
<1>5. CASE \E result : Returns(q, result)
  BY <1>1, <1>5 DEF Returns, Generation
<1>6. CASE Repair(q)
  BY <1>1, <1>2, <1>6 DEF Repair, Generation
<1>7. CASE Escape(q)
  BY <1>1, <1>7 DEF Escape, Generation
<1> QED
  BY <1>3, <1>4, <1>5, <1>6, <1>7 DEF GatewayStep, GiveUp, Succeed, RejectRepair

LEMMA CallModelKeeps ==
    ASSUME KInv, NEW q \in Asks, CallModel(q)
    PROVE  KInv'
<1>1. /\ GatewayStep(q) /\ pc[q] = "generate"
      /\ UNCHANGED <<pc, pieces, tx, documents, index, kind, context, known, crowded, traces,
                     told>>
  BY DEF CallModel, uploading, database
<1>2. GatewayInv' /\ gen[q].at \in {"call", "sleep"}
  BY <1>1, AskFacts, StepInv
<1>3. /\ \A p \in Asks : p # q => gen'[p] = gen[p]
      /\ gen'[q].schema = gen[q].schema /\ gen'[q].at # "idle"
  BY <1>1, AskFacts, StepShape
<1>4. traces[q] = {} /\ told[q] \notin {"answer", "bad gateway"}
  BY <1>1, AskFacts DEF OwnInv
<1>5. Others(q)
  BY <1>1, <1>3 DEF Others
<1>6. OwnInv(q)'
  BY <1>1, <1>2, <1>3, <1>4, AskFacts DEF OwnInv, Features, Ended
<1>7. gen[q].at = "idle" => gen'[q].at = "idle"
  BY <1>2
<1>8. FoundInv(q)'
  BY <1>1, <1>7, AskFacts, FoundFrame
<1>9. TypeOK'
  BY <1>1, <1>2, AskFacts DEF TypeOK, GatewayInv
<1> QED
  BY <1>2, <1>5, <1>6, <1>8, <1>9, AskFrame

\* The steps after generate() has returned.
LEMMA FinishKeeps ==
    ASSUME KInv, NEW q \in Asks, WriteTrace(q) \/ Respond(q) \/ ReturnDirect(q)
    PROVE  KInv'
<1>1. /\ UNCHANGED <<gen, said, pieces, tx, documents, index, kind, context, known, crowded>>
      /\ \A r \in Requests : r # q => pc'[r] = pc[r] /\ told'[r] = told[r]
      /\ \A p \in Asks : p # q => traces'[p] = traces[p]
  BY AskFacts DEF WriteTrace, Respond, ReturnDirect, Goto, uploading, asking, database
<1>2. GatewayInv'
  BY <1>1, AskFacts, GatewayFrame
<1>3. Others(q)
  BY <1>1 DEF Others
<1>4. \A u \in Uploads : told'[u] = told[u]
  BY <1>1, KnowledgeAssumption DEF Requests
<1>5. FoundInv(q)'
  BY <1>1, <1>4, AskFacts, FoundFrame
<1>6. gen[q].result \in Result /\ OrgOf[q] \in Orgs
  BY AskFacts, KnowledgeAssumption DEF Generation
<1>7. pc' \in [Requests -> Steps]
  BY AskFacts DEF WriteTrace, Respond, ReturnDirect, Goto, Steps, Ended
<1>8. CASE WriteTrace(q)
  <2>1. /\ pc[q] = "generate" /\ pc'[q] = "respond" /\ gen[q].at = "returned"
        /\ kind[q] \in Features /\ traces' = [traces EXCEPT ![q] = TraceOf(q)]
        /\ traces'[q] = TraceOf(q) /\ told' = told
    BY <1>8, AskFacts DEF WriteTrace, Goto
  <2>2. TraceOf(q) \in SUBSET Trace /\ TraceOf(q) # {}
    BY <1>6, <2>1 DEF TraceOf, Trace, Result
  <2>3. told[q] \notin {"answer", "bad gateway"}
    BY <2>1, AskFacts DEF OwnInv
  <2>4. OwnInv(q)'
    <3>1. /\ OwnInv(q) /\ ~gen[q].schema /\ gen'[q] = gen[q] /\ kind'[q] = kind[q]
          /\ told'[q] = told[q]
      BY <1>1, <2>1, AskFacts DEF OwnInv
    <3>2. \A t \in traces'[q] :
            /\ t.org = OrgOf[q] /\ t.feature = kind[q]
            /\ t.success = gen[q].result.success /\ t.tokens = gen[q].result.tokens
      BY <2>1 DEF TraceOf
    <3> QED
      BY <2>1, <2>2, <2>3, <3>1, <3>2 DEF OwnInv, Ended
  <2>5. TypeOK'
    BY <1>1, <1>2, <1>7, <2>1, <2>2, AskFacts DEF TypeOK, GatewayInv
  <2> QED
    BY <1>2, <1>3, <1>5, <2>4, <2>5, AskFrame
<1>9. CASE Respond(q)
  <2>1. /\ pc[q] = "respond" /\ pc'[q] = "done" /\ traces' = traces
        /\ told' = [told EXCEPT ![q] =
                      IF gen[q].result.success THEN "answer" ELSE "bad gateway"]
    BY <1>9, AskFacts DEF Respond, Goto, database
  <2>2. told'[q] = IF gen[q].result.success THEN "answer" ELSE "bad gateway"
    BY <2>1, AskFacts
  <2>3. OwnInv(q)'
    BY <1>1, <2>1, <2>2, AskFacts DEF OwnInv, Ended
  <2>4. TypeOK'
    BY <1>1, <1>2, <1>7, <2>1, AskFacts DEF TypeOK, GatewayInv
  <2> QED
    BY <1>2, <1>3, <1>5, <2>3, <2>4, AskFrame
<1>10. CASE ReturnDirect(q)
  <2>1. pc[q] = "generate" /\ pc'[q] = "done" /\ traces' = traces /\ told' = told
    BY <1>10, AskFacts DEF ReturnDirect, Goto, database
  <2>2. told[q] \notin {"answer", "bad gateway"}
    BY <2>1, AskFacts DEF OwnInv
  <2>3. OwnInv(q)'
    BY <1>1, <2>1, <2>2, AskFacts DEF OwnInv, Ended
  <2>4. TypeOK'
    BY <1>1, <1>2, <1>7, <2>1, AskFacts DEF TypeOK, GatewayInv
  <2> QED
    BY <1>2, <1>3, <1>5, <2>3, <2>4, AskFrame
<1> QED
  BY <1>8, <1>9, <1>10

\* Request r stops here: it is refused, fails, or is lost in a crash.
Stops(r) ==
    /\ pc[r] \notin Ended
    /\ \/ pc'[r] \in {"error", "lost"}
       \/ pc'[r] = "refused" /\ pc[r] = "idle"
    /\ told'[r] \in {told[r], "refusal", "server error"}

LEMMA StopKeeps ==
    ASSUME KInv,
           UNCHANGED <<gen, said, pieces, documents, index>>,
           UNCHANGED <<kind, context, known, crowded, traces>>,
           pc' \in [Requests -> Steps], tx' \in [Uploads -> Document],
           told' \in [Requests -> {"nothing", "refusal", "ready", "failed", "answer",
                                  "bad gateway", "server error"}],
           \A r \in Requests : Stops(r) \/ (pc'[r] = pc[r] /\ told'[r] = told[r]),
           \A u \in Uploads : tx'[u] = tx[u] \/ (tx'[u] = NoDocument /\ pc'[u] # "commit")
    PROVE  KInv'
<1>1. \A u \in Uploads : u \in Requests /\ UploadInv(u)
  BY DEF KInv, Requests
<1>2. ASSUME NEW u \in Uploads PROVE UploadInv(u)'
  <2>1. CASE Stops(u)
    <3>1. /\ told[u] \notin {"ready", "failed"}
          /\ pc'[u] = "refused" => documents[u] = NoDocument
      BY <1>1, <2>1 DEF UploadInv, Stops, Ended
    <3>2. pc'[u] \in {"error", "lost", "refused"} /\ told'[u] \notin {"ready", "failed"}
      BY <2>1, <3>1 DEF Stops
    <3> QED
      BY <1>1, <3>1, <3>2 DEF UploadInv, Failed, Ready, NoDocument, ChunksOf, Ended
  <2>2. CASE pc'[u] = pc[u] /\ told'[u] = told[u]
    BY <1>1, <2>2 DEF UploadInv, Failed, Ready, NoDocument, ChunksOf, Ended
  <2> QED
    BY <1>1, <2>1, <2>2
<1>3. ASSUME NEW q \in Asks PROVE OwnInv(q)'
  <2>1. q \in Requests /\ OwnInv(q)
    BY AskFacts
  <2>2. CASE Stops(q)
    <3>1. /\ told[q] \notin {"answer", "bad gateway"}
          /\ pc'[q] = "refused" => traces[q] = {}
      BY <2>1, <2>2 DEF OwnInv, Stops, Ended
    <3>2. /\ pc'[q] \in {"error", "lost", "refused"}
          /\ told'[q] \notin {"answer", "bad gateway"}
      BY <2>2, <3>1 DEF Stops
    <3> QED
      BY <2>1, <3>1, <3>2 DEF OwnInv, Features, Ended
  <2>3. CASE pc'[q] = pc[q] /\ told'[q] = told[q]
    BY <2>1, <2>3, OwnFrame
  <2> QED
    BY <2>1, <2>2, <2>3
<1>4. ASSUME NEW q \in Asks PROVE FoundInv(q)'
  <2>1. \A u \in Uploads : told[u] = "ready" => told'[u] = "ready" /\ pieces'[u] = pieces[u]
    BY <1>1 DEF UploadInv, Stops, Ended
  <2> QED
    BY <2>1, FoundFrame DEF KInv
<1>5. GatewayInv'
  BY GatewayFrame DEF KInv
<1>6. TypeOK'
  BY <1>5 DEF KInv, TypeOK, GatewayInv
<1>7. IndexInv'
  <2>1. NoDocument.chunks = {}
    BY DEF NoDocument
  <2>2. \A u \in Uploads : tx'[u] = tx[u] \/ tx'[u] = NoDocument
    OBVIOUS
  <2> QED
    BY <2>1, <2>2 DEF KInv, IndexInv
<1> QED
  BY <1>2, <1>3, <1>4, <1>5, <1>6, <1>7 DEF KInv

LEMMA FailureKeeps ==
    ASSUME KInv, (\E r \in Requests : Refuse(r) \/ Break(r)) \/ Crash
    PROVE  KInv'
<1>1. /\ pc \in [Requests -> Steps] /\ tx \in [Uploads -> Document] /\ TypeOK
      /\ told \in [Requests -> {"nothing", "refusal", "ready", "failed", "answer",
                                "bad gateway", "server error"}]
  BY DEF KInv, TypeOK
<1>2. NoDocument \in Document
  BY DEF NoDocument, Document
<1>3. CASE \E r \in Requests : Refuse(r)
  <2>1. PICK r \in Requests : Refuse(r)
    BY <1>3
  <2>2. Stops(r)
    BY <1>1, <2>1 DEF Refuse, Goto, Stops, Ended
  <2>3. /\ pc' \in [Requests -> Steps] /\ \A s \in Requests : s # r => pc'[s] = pc[s]
        /\ told' \in [Requests -> {"nothing", "refusal", "ready", "failed", "answer",
                                  "bad gateway", "server error"}]
        /\ \A s \in Requests : s # r => told'[s] = told[s]
        /\ UNCHANGED <<gen, said, pieces, documents, index>>
        /\ UNCHANGED <<kind, context, known, crowded, traces>> /\ tx' = tx
    BY <1>1, <2>1 DEF Refuse, Goto, Steps, Ended, uploading, asking, database
  <2>4. \A u \in Uploads : tx'[u] = tx[u] \/ (tx'[u] = NoDocument /\ pc'[u] # "commit")
    BY <2>3
  <2>5. \A s \in Requests : Stops(s) \/ (pc'[s] = pc[s] /\ told'[s] = told[s])
    BY <2>2, <2>3
  <2>6. tx' \in [Uploads -> Document]
    BY <1>1, <2>3
  <2> QED
    BY <2>3, <2>4, <2>5, <2>6, StopKeeps
<1>4. CASE \E r \in Requests : Break(r)
  <2>1. PICK r \in Requests : Break(r)
    BY <1>4
  <2>2. Stops(r)
    BY <1>1, <2>1 DEF Break, Exposed, Stops, Ended
  <2>3. /\ pc' \in [Requests -> Steps] /\ \A s \in Requests : s # r => pc'[s] = pc[s]
        /\ told' \in [Requests -> {"nothing", "refusal", "ready", "failed", "answer",
                                  "bad gateway", "server error"}]
        /\ \A s \in Requests : s # r => told'[s] = told[s]
        /\ UNCHANGED <<gen, said, pieces, documents, index>>
        /\ UNCHANGED <<kind, context, known, crowded, traces>>
    BY <1>1, <2>1 DEF Break, Steps, Ended, asking, database
  <2>4. /\ tx' \in [Uploads -> Document]
        /\ \A u \in Uploads : tx'[u] = tx[u] \/ (tx'[u] = NoDocument /\ pc'[u] # "commit")
    <3>1. tx' = IF r \in Uploads THEN [tx EXCEPT ![r] = NoDocument] ELSE tx
      BY <2>1 DEF Break
    <3>2. r \in Uploads => tx'[r] = NoDocument /\ pc'[r] = "error"
      BY <1>1, <2>1, <3>1 DEF Break
    <3>3. \A u \in Uploads : u # r => tx'[u] = tx[u]
      BY <1>1, <3>1
    <3>4. tx' \in [Uploads -> Document]
      BY <1>1, <1>2, <3>1
    <3> QED
      BY <3>2, <3>3, <3>4
  <2> QED
    BY <2>2, <2>3, <2>4, StopKeeps
<1>5. CASE Crash
  <2>1. /\ pc' = [r \in Requests |-> IF pc[r] \in Ended \cup {"idle"} THEN pc[r] ELSE "lost"]
        /\ tx' = [u \in Uploads |-> NoDocument]
        /\ UNCHANGED <<gen, said, pieces, documents, index>>
        /\ UNCHANGED <<kind, context, known, crowded, traces>> /\ told' = told
    BY <1>5 DEF Crash, asking, database
  <2>2. \A r \in Requests : Stops(r) \/ (pc'[r] = pc[r] /\ told'[r] = told[r])
    BY <2>1 DEF Stops
  <2>3. pc' \in [Requests -> Steps] /\ \A r \in Requests : pc'[r] # "commit"
    BY <1>1, <2>1 DEF Steps, Ended
  <2>4. /\ tx' \in [Uploads -> Document]
        /\ \A u \in Uploads : tx'[u] = NoDocument /\ pc'[u] # "commit"
    BY <1>2, <2>1, <2>3 DEF Requests
  <2> QED
    BY <1>1, <2>1, <2>2, <2>3, <2>4, StopKeeps
<1> QED
  BY <1>3, <1>4, <1>5

LEMMA StutterKeeps ==
    ASSUME KInv, UNCHANGED vars
    PROVE  KInv'
<1>1. /\ UNCHANGED <<gen, said, pieces, documents, index>>
      /\ UNCHANGED <<kind, context, known, crowded, traces>>
      /\ UNCHANGED <<pc, tx, told>>
  BY DEF vars, uploading, asking, database
<1>2. /\ \A r \in Requests : Stops(r) \/ (pc'[r] = pc[r] /\ told'[r] = told[r])
      /\ \A u \in Uploads : tx'[u] = tx[u] \/ (tx'[u] = NoDocument /\ pc'[u] # "commit")
  BY <1>1
<1>3. /\ pc' \in [Requests -> Steps] /\ tx' \in [Uploads -> Document]
      /\ told' \in [Requests -> {"nothing", "refusal", "ready", "failed", "answer",
                                "bad gateway", "server error"}]
  BY <1>1 DEF KInv, TypeOK
<1> QED
  BY <1>1, <1>2, <1>3, StopKeeps

\* What is vacuumed is the entry of no row.
LEMMA VacuumKeeps ==
    ASSUME KInv, Vacuum
    PROVE  KInv'
<1>1. /\ index' = Table \cup UNION {tx[u].chunks : u \in Uploads}
      /\ UNCHANGED <<pc, pieces, tx, gen, said, kind, context, known, crowded, documents, traces,
                     told>>
  BY DEF Vacuum, asking, database
<1>2. index' \in SUBSET Chunk
  <2>1. \A u \in Uploads : documents[u].chunks \subseteq Chunk /\ tx[u].chunks \subseteq Chunk
    BY DEF KInv, TypeOK, Document
  <2> QED
    BY <1>1, <2>1 DEF Table
<1>3. IndexInv'
  BY <1>1 DEF IndexInv, Table
<1>4. TypeOK' /\ GatewayInv'
  BY <1>1, <1>2, GatewayFrame DEF KInv, TypeOK, GatewayInv
<1>5. \A u \in Uploads : UploadInv(u)'
  BY <1>1, UploadFrame DEF KInv
<1>6. \A q \in Asks : OwnInv(q)' /\ FoundInv(q)'
  BY <1>1, OwnFrame, FoundFrame DEF KInv
<1> QED
  BY <1>3, <1>4, <1>5, <1>6 DEF KInv

LEMMA NextKeeps == KInv /\ [Next]_vars => KInv'
<1> SUFFICES ASSUME KInv, [Next]_vars PROVE KInv'
  OBVIOUS
<1> QED
  BY UploadKeeps, AskKeeps, RetrieveKeeps, CallModelKeeps, FinishKeeps, FailureKeeps,
     VacuumKeeps, StutterKeeps
  DEF Next, AskStep

------------------------------------------------------------------------------
(* The theorems. *)

\* The inductive invariant holds: what every other theorem here rests on.
THEOREM KInvariant == Spec => []KInv
  BY KInit, NextKeeps, PTL DEF Spec

\* The types of every handler's state, transaction and row, and the bound on
\* what a search returns, hold throughout.
THEOREM KnowledgeTyped == Spec => []TypeOK
<1>1. KInv => TypeOK
  BY DEF KInv
<1> QED
  BY <1>1, KInvariant, PTL

\* A committed document is ready with every chunk or failed with none, whatever
\* failed in between (ingest_document).
THEOREM StoredWhole == Spec => []AllOrNothing
<1>1. KInv => AllOrNothing
  BY DEF KInv, UploadInv, AllOrNothing, Ready, Failed
<1> QED
  BY <1>1, KInvariant, PTL

\* The status an upload is answered is the stored one, and the stored one was
\* answered unless the upload was lost or failed (upload_document).
THEOREM ToldWhatIsStored == Spec => []ToldIsStored
<1>1. ASSUME KInv, NEW u \in Uploads
      PROVE  /\ pc[u] = "done" => told[u] \in {"ready", "failed"} /\ documents[u].status = told[u]
             /\ documents[u].status # "none" =>
                  told[u] = documents[u].status \/ pc[u] \in {"refresh", "error", "lost"}
  <2>1. UploadInv(u)
    BY <1>1 DEF KInv
  <2>2. documents[u].status # "none" => documents[u] # NoDocument
    BY DEF NoDocument
  <2> QED
    BY <2>1, <2>2 DEF UploadInv
<1>2. KInv => ToldIsStored
  BY <1>1 DEF ToldIsStored
<1> QED
  BY <1>2, KInvariant, PTL

\* No ask is answered from another organisation's chunks, nor from those of a
\* document that is not ready (search_similar).
THEOREM ContextIsOwn == Spec => []OwnReadyContext
<1>1. KInv => OwnReadyContext
  BY DEF KInv, FoundInv, OwnReadyContext
<1> QED
  BY <1>1, KInvariant, PTL

\* What the client was told is ready before it asked is found, up to TopK chunks,
\* while the index holds no more than an index scan reads (search_similar).
THEOREM ReadyFound == Spec => []ReadyIsFound
<1>1. KInv => ReadyIsFound
  BY DEF KInv, FoundInv, ReadyIsFound
<1> QED
  BY <1>1, KInvariant, PTL

\* A trace is its ask's organisation's and says what its call returned, and the
\* client's answer agrees with it (ask, rag_ask).
THEOREM TracesTell == Spec => []TraceTellsAnswer
<1>1. ASSUME KInv, NEW q \in Asks
      PROVE  /\ told[q] \in {"answer", "bad gateway"} => traces[q] # {}
             /\ \A t \in traces[q] :
                  /\ t.org = OrgOf[q] /\ t.feature = kind[q]
                  /\ gen[q].at = "returned" /\ t.success = (Last(q) \in Completions)
                  /\ t.tokens = Completed(q)
                  /\ told[q] = "answer" => t.success
                  /\ told[q] = "bad gateway" => ~t.success
  <2>1. GatewayInv /\ OwnInv(q)
    BY <1>1 DEF KInv
  <2>2. ASSUME NEW t \in traces[q]
        PROVE  /\ gen[q].at = "returned" /\ t.success = (Last(q) \in Completions)
               /\ t.tokens = Completed(q)
    <3>1. gen[q].at = "returned" /\ ~gen[q].schema
      BY <2>1 DEF OwnInv
    <3>2. /\ gen[q].result.success = (Last(q) \in Completions)
          /\ gen[q].result.tokens = Completed(q)
      BY <2>1, <3>1, PlainResult
    <3> QED
      BY <2>1, <3>1, <3>2 DEF OwnInv
  <2> QED
    BY <2>1, <2>2 DEF OwnInv
<1>2. KInv => TraceTellsAnswer
  BY <1>1 DEF TraceTellsAnswer
<1> QED
  BY <1>2, KInvariant, PTL

\* What generate() returns follows from the provider's replies (groq.py).
THEOREM GatewayExplained == Spec => []RepliesExplain
<1>1. KInv => RepliesExplain
  BY Explained DEF KInv
<1> QED
  BY <1>1, KInvariant, PTL

==============================================================================
