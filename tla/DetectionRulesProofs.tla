------------------------- MODULE DetectionRulesProofs -------------------------
(***************************************************************************)
(* run_all_rules for tables of any length and any bounds: the structuring  *)
(* rule flags exactly the accounts some MinCount of whose deposits lie     *)
(* within the window, and the evidence of each finding of both rules shows *)
(* its pattern.                                                            *)
(*                                                                         *)
(* What the rules do is computed in one step each, so the invariant only   *)
(* says that the table is in the order of time and what findings hold; the *)
(* argument is about the operators.  It rests on one fact about positions: *)
(* the first n of at least n positions are n (FirstOfCount), which is      *)
(* shown for a smallest counterexample.                                    *)
(***************************************************************************)
EXTENDS DetectionRules, FiniteSetTheorems, WellFoundedInduction, TLAPS

Row == [kind : Kinds, time : Nat]

Sorted == \A k, l \in Rows : k <= l => txns[k].time <= txns[l].time

StructuringAll == UNION {StructuringFindings(a) : a \in Accounts}
FanInAll == UNION {FanInFindings(a) : a \in Accounts}

RulesInv ==
    /\ pc \in {"structuring", "fanin", "done"}
    /\ txns \in Seq(Row)
    /\ Sorted
    /\ pc = "structuring" => findings = {}
    /\ pc = "fanin" => findings = StructuringAll
    /\ pc = "done" => findings = StructuringAll \cup FanInAll

LEMMA InitRules == Init => RulesInv
  BY DEF Init, RulesInv, Rows, Sorted

LEMMA RulesStep == RulesInv /\ [Next]_vars => RulesInv'
<1> SUFFICES ASSUME RulesInv, [Next]_vars PROVE RulesInv'
  OBVIOUS
<1>1. txns' = txns => StructuringAll' = StructuringAll /\ FanInAll' = FanInAll /\ Sorted'
  BY SMTT(30) DEF RulesInv, Sorted, StructuringAll, StructuringFindings, FirstShort, Starts, IsShort,
     Group, FirstOf, From, Deposits, Qualifies, Finding, Rows, FanInAll, FanInFindings,
     Earliest, FansIn, FewDestinations, Candidates, FanOut, Inbound, Outbound, Internal,
     Senders, Receivers
<1>2. ASSUME NEW kind \in Kinds, NEW time \in 0 .. MaxTime, Record(kind, time)
      PROVE  RulesInv'
  <2>1. time \in Nat /\ [kind |-> kind, time |-> time] \in Row
    BY DEF Row
  <2>2. /\ txns' \in Seq(Row) /\ Len(txns') = Len(txns) + 1 /\ Len(txns) \in Nat
        /\ \A k \in 1 .. Len(txns) : txns'[k] = txns[k]
        /\ txns'[Len(txns) + 1].time = time
    BY <1>2, <2>1 DEF Record, RulesInv
  <2>3. \A k \in 1 .. Len(txns) : txns[k].time <= time
    BY <1>2 DEF Record
  <2>4. Sorted'
    <3> SUFFICES ASSUME NEW k \in Rows', NEW l \in Rows', k <= l
                 PROVE  txns'[k].time <= txns'[l].time
      BY DEF Sorted
    <3>1. k \in 1 .. Len(txns) + 1 /\ l \in 1 .. Len(txns) + 1
      BY <2>2 DEF Rows
    <3>2. CASE l = Len(txns) + 1 /\ k = l
      BY <2>1, <2>2, <3>2
    <3>3. CASE l = Len(txns) + 1 /\ k # l
      <4>1. k \in 1 .. Len(txns)
        BY <2>2, <3>1, <3>3
      <4> QED BY <2>2, <2>3, <3>3, <4>1
    <3>4. CASE l # Len(txns) + 1
      <4>1. k \in Rows /\ l \in Rows
        BY <2>2, <3>1, <3>4 DEF Rows
      <4>2. txns[k].time <= txns[l].time
        BY <4>1 DEF RulesInv, Sorted
      <4> QED BY <2>2, <4>1, <4>2 DEF Rows
    <3> QED BY <3>2, <3>3, <3>4
  <2> QED BY <1>2, <2>2, <2>4 DEF Record, RulesInv
<1>3. CASE DetectStructuring
  BY <1>1, <1>3 DEF DetectStructuring, RulesInv, StructuringAll
<1>4. CASE DetectFanInFanOut
  BY <1>1, <1>4 DEF DetectFanInFanOut, RulesInv, FanInAll
<1>5. CASE UNCHANGED vars
  BY <1>1, <1>5 DEF vars, RulesInv
<1> QED BY <1>2, <1>3, <1>4, <1>5 DEF Next, Returned

------------------------------------------------------------------------------
(* The first of some positions *)

LEMMA Least ==
    ASSUME NEW B \in SUBSET Nat, B # {}
    PROVE  \E n \in B : \A m \in B : n <= m
<1>1. PICK n \in B : \A m \in B : ~ (<<m, n>> \in OpToRel(<, Nat))
  BY WFMin, NatLessThanWellFounded
<1>2. \A m \in B : ~ (m < n)
  BY <1>1 DEF OpToRel
<1> QED BY <1>2

\* A family of finite sets has a member that is in it without any smaller one.
LEMMA Smallest ==
    ASSUME NEW S, IsFiniteSet(S), NEW B \in SUBSET (SUBSET S), B # {}
    PROVE  \E s \in B : IsFiniteSet(s) /\ \A x \in s : s \ {x} \notin B
<1> DEFINE Sizes == {Cardinality(s) : s \in B}
<1>1. \A s \in B : IsFiniteSet(s) /\ Cardinality(s) \in Nat
  BY FS_CardinalityType, FS_Subset
<1>2. Sizes \in SUBSET Nat /\ Sizes # {}
  BY <1>1
<1>3. PICK n \in Sizes : \A m \in Sizes : n <= m
  BY <1>2, Least
<1>4. PICK s \in B : n = Cardinality(s)
  OBVIOUS
<1>5. ASSUME NEW x \in s PROVE s \ {x} \notin B
  <2>1. Cardinality(s \ {x}) = n - 1 /\ n \in Nat
    BY <1>1, <1>4, FS_RemoveElement
  <2> QED BY <1>3, <2>1
<1> QED BY <1>1, <1>5

LEMMA Greatest ==
    ASSUME NEW S \in SUBSET Nat, IsFiniteSet(S), S # {}
    PROVE  \E n \in S : \A m \in S : m <= n
<1> DEFINE Bad == {s \in SUBSET S : s # {} /\ ~ \E n \in s : \A m \in s : m <= n}
<1>1. SUFFICES ASSUME Bad # {} PROVE FALSE
  OBVIOUS
<1>2. PICK s \in Bad : IsFiniteSet(s) /\ \A x \in s : s \ {x} \notin Bad
  BY <1>1, Smallest
<1>3. PICK x \in s : TRUE
  OBVIOUS
<1>4. s \in SUBSET Nat /\ x \in Nat
  OBVIOUS
<1>5. CASE s \ {x} = {}
  <2>1. \A m \in s : m <= x
    BY <1>4, <1>5
  <2> QED BY <2>1
<1>6. CASE s \ {x} # {}
  <2>1. PICK n \in s \ {x} : \A m \in s \ {x} : m <= n
    BY <1>2, <1>6
  <2>2. CASE n <= x
    <3>1. \A m \in s : m <= x
      BY <1>4, <2>1, <2>2
    <3> QED BY <3>1
  <2>3. CASE ~(n <= x)
    <3>1. n \in s /\ \A m \in s : m <= n
      BY <1>4, <2>1, <2>3
    <3> QED BY <3>1
  <2> QED BY <2>2, <2>3
<1> QED BY <1>5, <1>6

\* The slice txns[i : i + n] has n elements when there are as many.
LEMMA FirstOfCount ==
    ASSUME NEW S \in SUBSET Nat, IsFiniteSet(S), NEW n \in Nat, n <= Cardinality(S)
    PROVE  Cardinality(FirstOf(S, n)) = n
<1> DEFINE Bad == {s \in SUBSET S : n <= Cardinality(s) /\ Cardinality(FirstOf(s, n)) # n}
<1>1. SUFFICES ASSUME Bad # {} PROVE FALSE
  OBVIOUS
<1>2. PICK s \in Bad : IsFiniteSet(s) /\ \A x \in s : s \ {x} \notin Bad
  BY <1>1, Smallest
<1>3. s \in SUBSET Nat /\ Cardinality(s) \in Nat
  BY <1>2, FS_CardinalityType
<1>4. CASE n = Cardinality(s)
  <2>1. FirstOf(s, n) = s
    <3>1. ASSUME NEW l \in s PROVE Cardinality({m \in s : m <= l}) <= Cardinality(s)
      BY <1>2, FS_Subset
    <3> QED BY <1>4, <3>1 DEF FirstOf
  <2> QED BY <1>4, <2>1
<1>5. CASE n < Cardinality(s)
  <2>1. s # {}
    BY <1>5, FS_EmptySet
  <2>2. PICK z \in s : \A m \in s : m <= z
    BY <1>2, <1>3, <2>1, Greatest
  <2> DEFINE t == s \ {z}
  <2>3. Cardinality(t) = Cardinality(s) - 1
    BY <1>2, FS_RemoveElement
  <2>4. t \in SUBSET S /\ t \notin Bad
    BY <1>2
  <2>5. Cardinality(FirstOf(t, n)) = n
    BY <1>3, <1>5, <2>3, <2>4
  <2>6. {m \in s : m <= z} = s
    BY <2>2
  <2>7. ~(Cardinality(s) <= n)
    BY <1>3, <1>5
  <2>8. \A l \in t : {m \in t : m <= l} = {m \in s : m <= l}
    BY <1>3, <2>2
  <2>9. FirstOf(t, n) = FirstOf(s, n)
    BY <2>6, <2>7, <2>8 DEF FirstOf
  <2> QED BY <2>5, <2>9
<1> QED BY <1>3, <1>4, <1>5

------------------------------------------------------------------------------
(* Structuring *)

LEMMA DepositsAre ==
    ASSUME RulesInv, NEW a \in Accounts
    PROVE  /\ Deposits(a) \in SUBSET Nat /\ Deposits(a) \subseteq Rows
           /\ \A k \in Deposits(a) : From(a, k) \in SUBSET Deposits(a)
           /\ \A k \in Deposits(a) : IsFiniteSet(From(a, k))
           /\ \A k \in Rows : txns[k].time \in Nat
<1>1. Len(txns) \in Nat /\ \A k \in Rows : txns[k] \in Row
  BY DEF RulesInv, Rows
<1>2. Rows \in SUBSET Nat /\ IsFiniteSet(Rows)
  BY <1>1, FS_Interval DEF Rows
<1>3. Deposits(a) \subseteq Rows /\ \A k \in Deposits(a) : From(a, k) \in SUBSET Deposits(a)
  BY DEF Deposits, From
<1>4. \A k \in Deposits(a) : IsFiniteSet(From(a, k))
  BY <1>2, <1>3, FS_Subset
<1> QED BY <1>1, <1>2, <1>3, <1>4 DEF Row

LEMMA GroupIs ==
    ASSUME RulesInv, NEW a \in Accounts, NEW k \in Starts(a)
    PROVE  /\ Group(a, k) \subseteq Deposits(a) /\ IsFiniteSet(Group(a, k))
           /\ Cardinality(Group(a, k)) = MinCount
           /\ \A l \in Group(a, k) : k <= l
<1>1. k \in Deposits(a) /\ Cardinality(From(a, k)) >= MinCount
  BY DEF Starts
<1>2. From(a, k) \in SUBSET Nat /\ From(a, k) \subseteq Deposits(a) /\ IsFiniteSet(From(a, k))
  BY <1>1, DepositsAre
<1>3. Group(a, k) \subseteq From(a, k)
  BY DEF Group, FirstOf
<1>4. Cardinality(Group(a, k)) = MinCount
  BY <1>1, <1>2, FirstOfCount, FS_CardinalityType, RulesAssumption DEF Group
<1>5. IsFiniteSet(Group(a, k))
  BY <1>2, <1>3, FS_Subset
<1>6. \A l \in From(a, k) : k <= l
  BY DEF From
<1> QED BY <1>2, <1>3, <1>4, <1>5, <1>6

\* Its first and its last are within the window: so are all of a group.
LEMMA ShortShows ==
    ASSUME RulesInv, NEW a \in Accounts, NEW k \in Starts(a), IsShort(a, k)
    PROVE  IsStructuring(Group(a, k), a)
<1>1. PICK last \in Group(a, k) :
        /\ \A l \in Group(a, k) : l <= last
        /\ txns[last].time - txns[k].time <= Window
  BY DEF IsShort
<1>2. Group(a, k) \subseteq Rows /\ k \in Rows /\ \A l \in Rows : txns[l].time \in Nat
  BY GroupIs, DepositsAre DEF Starts
<1>3. ASSUME NEW l \in Group(a, k)
      PROVE  txns[k].time <= txns[l].time /\ txns[l].time <= txns[last].time
  BY <1>1, <1>2, GroupIs DEF RulesInv, Sorted
<1>4. \A l, m \in Group(a, k) : txns[l].time - txns[m].time <= Window
  BY <1>1, <1>2, <1>3, RulesAssumption
<1>5. \A l \in Group(a, k) : l \in Deposits(a)
  BY GroupIs
<1> QED BY <1>4, <1>5 DEF IsStructuring, Deposits, Qualifies

\* Wherever MinCount deposits lie that are close enough, the group that begins
\* with their first is short: it ends no later than they do.
LEMMA SomeGroupIsShort ==
    ASSUME RulesInv, NEW a \in Accounts, NEW rows \in SUBSET Rows,
           Cardinality(rows) = MinCount, IsStructuring(rows, a)
    PROVE  \E k \in Starts(a) : IsShort(a, k)
<1>1. Rows \in SUBSET Nat /\ IsFiniteSet(Rows) /\ \A k \in Rows : txns[k].time \in Nat
  <2>1. Len(txns) \in Nat
    BY DEF RulesInv
  <2> QED BY <2>1, FS_Interval, DepositsAre DEF Rows
<1>2. rows \in SUBSET Nat /\ IsFiniteSet(rows) /\ rows # {}
  BY <1>1, FS_Subset, FS_EmptySet, RulesAssumption
<1>3. PICK k \in rows : \A l \in rows : k <= l
  BY <1>2, Least
<1>4. PICK m \in rows : \A l \in rows : l <= m
  BY <1>2, Greatest
<1>5. rows \subseteq Deposits(a)
  BY DEF IsStructuring, Deposits, Qualifies
<1>6. rows \in SUBSET From(a, k) /\ k \in Deposits(a) /\ IsFiniteSet(From(a, k))
  BY <1>3, <1>5, DepositsAre DEF From
<1>7. MinCount \in Nat \ {0} /\ MinCount <= Cardinality(From(a, k))
  BY <1>6, FS_Subset, RulesAssumption
<1>8. k \in Starts(a)
  BY <1>6, <1>7, FS_CardinalityType DEF Starts
<1>9. /\ Group(a, k) \in SUBSET Nat /\ Group(a, k) \subseteq Rows
      /\ IsFiniteSet(Group(a, k)) /\ Group(a, k) # {}
  BY <1>7, <1>8, GroupIs, DepositsAre, FS_EmptySet
<1>10. PICK last \in Group(a, k) : \A l \in Group(a, k) : l <= last
  BY <1>9, Greatest
<1>11. last <= m
  <2> SUFFICES ASSUME ~(last <= m) PROVE FALSE
    OBVIOUS
  <2> DEFINE upto == {l \in From(a, k) : l <= last}
  <2>1. last \in From(a, k) /\ Cardinality(upto) <= MinCount
    BY DEF Group, FirstOf
  <2>2. rows \cup {last} \in SUBSET upto
    <3>1. \A l \in rows : l <= last
      BY <1>2, <1>4, <1>9
    <3>2. last <= last
      BY <1>9
    <3> QED BY <1>6, <2>1, <3>1, <3>2
  <2>3. last \notin rows
    BY <1>4
  <2>4. IsFiniteSet(upto)
    BY <1>6, FS_Subset
  <2>5. Cardinality(rows \cup {last}) = MinCount + 1
    BY <1>2, <2>3, FS_AddElement
  <2> HIDE DEF upto
  <2>6. Cardinality(rows \cup {last}) <= Cardinality(upto)
    BY <2>2, <2>4, FS_Subset
  <2>7. Cardinality(upto) \in Nat
    BY <2>4, FS_CardinalityType
  <2> QED BY <1>7, <2>1, <2>5, <2>6, <2>7
<1>12. txns[last].time <= txns[m].time
  BY <1>9, <1>11 DEF RulesInv, Sorted
<1>13. txns[m].time - txns[k].time <= Window
  BY DEF IsStructuring
<1>14. txns[last].time - txns[k].time <= Window
  <2>1. txns[last].time \in Nat /\ txns[m].time \in Nat /\ txns[k].time \in Nat
    BY <1>1, <1>9
  <2> QED BY <1>12, <1>13, <2>1, RulesAssumption
<1> QED BY <1>8, <1>10, <1>14 DEF IsShort

LEMMA FirstShortIs ==
    ASSUME RulesInv, NEW a \in Accounts
    PROVE  (\E k \in Starts(a) : IsShort(a, k)) => FirstShort(a) # {}
<1> SUFFICES ASSUME NEW j \in Starts(a), IsShort(a, j) PROVE FirstShort(a) # {}
  OBVIOUS
<1> DEFINE B == {k \in Starts(a) : IsShort(a, k)}
<1>1. B \in SUBSET Nat /\ B # {}
  BY DepositsAre DEF Starts
<1>2. PICK k \in B : \A l \in B : k <= l
  <2> HIDE DEF B
  <2> QED BY <1>1, Least
<1>3. \A l \in Starts(a) : l < k => ~IsShort(a, l)
  BY <1>1, <1>2
<1> QED BY <1>2, <1>3 DEF FirstShort

\* The structuring rule flags exactly the accounts that have MinCount
\* qualifying deposits within the window, for every table.  (detect_structuring)
THEOREM StructuringCorrect == Spec => []StructuringExact
<1>1. RulesInv => StructuringExact
  <2> SUFFICES ASSUME RulesInv, pc # "structuring" PROVE StructuringExact
    BY DEF StructuringExact
  <2> DEFINE Close(a) == \E rows \in SUBSET Rows :
                           Cardinality(rows) = MinCount /\ IsStructuring(rows, a)
  <2>1. ASSUME NEW a \in Accounts PROVE StructuringFindings(a) # {} <=> Close(a)
    <3>1. ASSUME StructuringFindings(a) # {} PROVE Close(a)
      <4>1. PICK k \in Starts(a) : IsShort(a, k)
        BY <3>1 DEF StructuringFindings, FirstShort
      <4>2. Group(a, k) \in SUBSET Rows
        BY GroupIs, DepositsAre
      <4> QED BY <4>1, <4>2, GroupIs, ShortShows
    <3>2. ASSUME Close(a) PROVE StructuringFindings(a) # {}
      <4>1. FirstShort(a) # {}
        BY <3>2, SomeGroupIsShort, FirstShortIs
      <4> QED BY <4>1 DEF StructuringFindings
    <3> QED BY <3>1, <3>2
  <2>2. /\ \A a : \A f \in StructuringFindings(a) : f.rule = "structuring" /\ f.account = a
        /\ \A a : \A f \in FanInFindings(a) : f.rule # "structuring"
    BY DEF StructuringFindings, FanInFindings, Finding
  <2>3. findings = StructuringAll \/ findings = StructuringAll \cup FanInAll
    BY DEF RulesInv
  <2>4. FlaggedBy("structuring") = {a \in Accounts : StructuringFindings(a) # {}}
    BY <2>2, <2>3 DEF FlaggedBy, StructuringAll, FanInAll
  <2>5. FlaggedBy("structuring") = {a \in Accounts : Close(a)}
    BY <2>1, <2>4
  <2> QED BY <2>5 DEF StructuringExact
<1> QED BY <1>1, InitRules, RulesStep, PTL DEF Spec

------------------------------------------------------------------------------
(* Evidence *)

\* Transfers in up to k and out after it are apart, and show a mule.
LEMMA MuleShows ==
    ASSUME RulesInv, NEW a \in Accounts, NEW k \in Rows,
           Earliest(a, k), FewDestinations(FanOut(a, k))
    PROVE  \E in \in SUBSET (Candidates(a, k) \cup FanOut(a, k)) :
             IsMule(in, (Candidates(a, k) \cup FanOut(a, k)) \ in, a)
<1> DEFINE in == Candidates(a, k)
           out == FanOut(a, k)
<1>1. /\ \A l \in Rows : txns[l].time \in Nat
      /\ InboundWindow \in Nat /\ OutboundWindow \in Nat
      /\ MaxOutboundDestinations \in Nat /\ MinInboundSources \in Nat
  BY DepositsAre, RulesAssumption
<1>2. /\ in \subseteq Inbound(a) /\ out \subseteq Outbound(a)
      /\ Inbound(a) \subseteq Rows /\ Outbound(a) \subseteq Rows
  BY DEF Candidates, FanOut, Inbound, Outbound
<1>3. k \in in
  BY <1>1 DEF Earliest, Candidates
<1>4. in \cap out = {} /\ (in \cup out) \ in = out
  <2>1. \A c \in in : c \in Rows /\ txns[c].time <= txns[k].time
    BY <1>2 DEF Candidates
  <2>2. \A c \in out : c \in Rows /\ txns[k].time < txns[c].time
    BY <1>2 DEF FanOut
  <2>3. \A c \in in : c \notin out
    BY <1>1, <2>1, <2>2
  <2> QED BY <2>3
<1>5. Cardinality(Senders(in)) >= MinInboundSources
  BY DEF Earliest, FansIn
<1>6. Cardinality(Receivers(out)) \in 1 .. MaxOutboundDestinations
  BY DEF FewDestinations
<1>7. out # {}
  <2> SUFFICES ASSUME out = {} PROVE FALSE
    OBVIOUS
  <2>1. Receivers(out) = {}
    BY DEF Receivers
  <2> QED BY <1>6, <2>1, FS_EmptySet
<1>8. /\ \A l \in in : Internal(l) /\ txns[l].kind.receiver = a
      /\ \A l \in out : Internal(l) /\ txns[l].kind.sender = a
  BY <1>2 DEF Inbound, Outbound
<1>9. \A l, m \in in : txns[l].time - txns[m].time <= InboundWindow
  <2>1. \A l \in in : /\ l \in Rows /\ txns[l].time <= txns[k].time
                      /\ txns[k].time - InboundWindow <= txns[l].time
    BY <1>2 DEF Candidates
  <2> QED BY <1>1, <2>1
<1>10. \A l \in in : txns[l].time <= txns[k].time
  BY DEF Candidates
<1>11. out = {l \in Outbound(a) : /\ txns[l].time > txns[k].time
                                  /\ txns[l].time - txns[k].time <= OutboundWindow}
  <2>1. \A l \in Outbound(a) :
          (txns[k].time < txns[l].time /\ txns[l].time <= txns[k].time + OutboundWindow)
          <=> (txns[l].time > txns[k].time /\ txns[l].time - txns[k].time <= OutboundWindow)
    BY <1>1, <1>2
  <2> QED BY <2>1 DEF FanOut
<1>12. IsMule(in, out, a)
  <2> HIDE DEF in, out
  <2> QED BY <1>3, <1>5, <1>6, <1>7, <1>8, <1>9, <1>10, <1>11 DEF IsMule
<1>13. IsMule(in, (in \cup out) \ in, a)
  <2>1. (in \cup out) \ in = out
    BY <1>4
  <2> HIDE DEF in, out
  <2> QED BY <1>12, <2>1
<1> QED BY <1>13

\* The evidence of every finding, of either rule, shows the pattern it is
\* reported for, for every table.  (detect_structuring, detect_fanin_fanout)
THEOREM EvidenceCorrect == Spec => []EvidenceVerifies
<1>1. RulesInv => EvidenceVerifies
  <2> SUFFICES ASSUME RulesInv, NEW f \in findings
               PROVE  IF f.rule = "structuring"
                        THEN Cardinality(f.evidence) = MinCount /\ IsStructuring(f.evidence, f.account)
                        ELSE \E in \in SUBSET f.evidence : IsMule(in, f.evidence \ in, f.account)
    BY DEF EvidenceVerifies
  <2>1. f \in StructuringAll \/ f \in FanInAll
    BY DEF RulesInv
  <2>2. CASE f \in StructuringAll
    <3>0. PICK a \in Accounts : f \in StructuringFindings(a)
      BY <2>2 DEF StructuringAll
    <3>1. PICK k \in FirstShort(a) : f = Finding("structuring", a, Group(a, k))
      BY <3>0 DEF StructuringFindings
    <3>2. k \in Starts(a) /\ IsShort(a, k)
      BY DEF FirstShort
    <3>3. f.rule = "structuring" /\ f.account = a /\ f.evidence = Group(a, k)
      BY <3>1 DEF Finding
    <3>4. Cardinality(Group(a, k)) = MinCount /\ IsStructuring(Group(a, k), a)
      BY <3>2, GroupIs, ShortShows
    <3> QED BY <3>3, <3>4
  <2>3. CASE f \in FanInAll
    <3>1. PICK a \in Accounts, k \in Rows :
            /\ Earliest(a, k) /\ FewDestinations(FanOut(a, k))
            /\ f = Finding("fanin_fanout", a, Candidates(a, k) \cup FanOut(a, k))
      BY <2>3 DEF FanInAll, FanInFindings
    <3>2. f.rule # "structuring" /\ f.account = a /\ f.evidence = Candidates(a, k) \cup FanOut(a, k)
      BY <3>1 DEF Finding
    <3>3. \E in \in SUBSET (Candidates(a, k) \cup FanOut(a, k)) :
            IsMule(in, (Candidates(a, k) \cup FanOut(a, k)) \ in, a)
      BY <3>1, MuleShows
    <3> QED BY <3>2, <3>3
  <2> QED BY <2>1, <2>2, <2>3
<1> QED BY <1>1, InitRules, RulesStep, PTL DEF Spec

==============================================================================
