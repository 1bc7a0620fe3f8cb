------------------------- MODULE LayeringChainsProofs -------------------------
(***************************************************************************)
(* detect_layering_chains for graphs of any size and any bounds: what it   *)
(* reports are chains, none within another, and below the query's limit no *)
(* account of a chain is left out.                                         *)
(*                                                                         *)
(* The accounts of a path are the range of NodesOf(path): a path is simple *)
(* exactly when that function repeats none (SimpleIsInjective).  A kept    *)
(* chain is never within one kept later because the later one is no longer *)
(* and has no more accounts.                                               *)
(***************************************************************************)
EXTENDS LayeringChains, FiniteSetTheorems, SequenceTheorems, WellFoundedInduction, TLAPS

\* Longer paths first: a kept path is as long as any that is still raw.
LongestFirst == pc = "dedupe" => \A p \in kept, q \in raw : Len(q) <= Len(p)

Apart == \A p, q \in kept : NodeSet(p) \subseteq NodeSet(q) => p = q

\* What the query found is still to be looked at or covered.
Accounted ==
    Cardinality(Matches) <= Limit =>
        /\ pc = "filter" => raw = Matches
        /\ pc \in {"dedupe", "done"} =>
             \A path \in Matches : IsSimple(path) => path \in raw \/ Covered(path)

LayeringInv ==
    /\ pc \in {"load", "filter", "dedupe", "done"}
    /\ edges \in Seq(Edge)
    /\ raw \subseteq Matches /\ kept \subseteq Matches
    /\ pc \in {"load", "filter"} => kept = {}
    /\ pc \in {"dedupe", "done"} => \A path \in raw \cup kept : IsSimple(path)
    /\ pc = "load" => raw = {}
    /\ pc = "done" => raw = {}
    /\ LongestFirst /\ Apart /\ Accounted
    /\ findings = IF pc = "done"
                    THEN UNION {[account : Flagged(path), evidence : {path}] : path \in kept}
                    ELSE {}

------------------------------------------------------------------------------
(* Paths and their accounts *)

LEMMA Least ==
    ASSUME NEW B \in SUBSET Nat, B # {}
    PROVE  \E n \in B : \A m \in B : n <= m
<1>1. PICK n \in B : \A m \in B : ~ (<<m, n>> \in OpToRel(<, Nat))
  BY WFMin, NatLessThanWellFounded
<1>2. \A m \in B : ~ (m < n)
  BY <1>1 DEF OpToRel
<1> QED BY <1>2

LEMMA MatchIs ==
    ASSUME edges \in Seq(Edge), NEW path \in Matches
    PROVE  /\ Len(path) \in MinHops .. MaxHops /\ Len(path) \in Nat \ {0}
           /\ IsMatch(path)
           /\ \A n \in 1 .. Len(path) : path[n] \in Transfers /\ edges[path[n]] \in Edge
<1>1. PICK n \in MinHops .. MaxHops : path \in [1 .. n -> Transfers]
  BY DEF Matches
<1>2. n \in Nat \ {0}
  BY LayeringAssumption
<1>3. path \in Seq(Transfers)
  BY <1>1, <1>2, SeqDef
<1>4. Len(path) = n
  <2>1. Len(path) \in Nat /\ DOMAIN path = 1 .. Len(path)
    BY <1>3, LenProperties
  <2>2. PICK k \in Nat : k = Len(path)
    BY <2>1
  <2>3. 1 .. k = 1 .. n
    BY <1>1, <2>1, <2>2
  <2>4. n \in 1 .. k /\ (k > 0 => k \in 1 .. n)
    BY <1>2, <2>3
  <2>5. k = n
    BY <1>2, <2>4
  <2> QED BY <2>2, <2>5
<1>5. \A k \in Transfers : edges[k] \in Edge
  BY DEF Transfers
<1>6. IsMatch(path)
  BY DEF Matches
<1> QED BY <1>1, <1>2, <1>4, <1>5, <1>6

\* The accounts in the order of the path.
NodesOf(path) ==
    [n \in 0 .. Len(path) |-> IF n = 0 THEN First(path).sender ELSE edges[path[n]].receiver]

LEMMA SimpleIsInjective ==
    ASSUME edges \in Seq(Edge), NEW path \in Matches
    PROVE  /\ IsFiniteSet(NodeSet(path))
           /\ IsSimple(path) <=>
                \A m, n \in 0 .. Len(path) : NodesOf(path)[m] = NodesOf(path)[n] => m = n
<1> DEFINE f == NodesOf(path)
           D == 0 .. Len(path)
           T == NodeSet(path)
<1>1. Len(path) \in Nat \ {0}
  BY MatchIs
<1>2. IsFiniteSet(D) /\ Cardinality(D) = Len(path) + 1
  BY <1>1, FS_Interval
<1>3. DOMAIN f = D /\ f \in Surjection(D, T)
  <2>1. f[0] = First(path).sender /\ 0 \in D
    BY <1>1 DEF NodesOf
  <2>2. \A n \in 1 .. Len(path) : n \in D /\ f[n] = edges[path[n]].receiver
    BY <1>1 DEF NodesOf
  <2>3. \A n \in D : n = 0 \/ n \in 1 .. Len(path)
    BY <1>1
  <2>4. \A n \in D : f[n] \in T
    BY <2>1, <2>2, <2>3 DEF NodeSet
  <2>5. \A x \in T : \E n \in D : f[n] = x
    BY <2>1, <2>2 DEF NodeSet
  <2>6. f = [n \in D |-> f[n]]
    BY DEF NodesOf
  <2> HIDE DEF f, D, T
  <2>7. DOMAIN f = D /\ f \in [D -> T]
    BY <2>4, <2>6
  <2> QED BY <2>5, <2>7 DEF Surjection
<1>4. IsSimple(path) <=> Cardinality(T) = Cardinality(D)
  BY <1>2 DEF IsSimple
<1> HIDE DEF f, D, T
<1>5. IsFiniteSet(T) /\ (Cardinality(T) = Cardinality(D) <=> f \in Injection(D, T))
  BY <1>2, <1>3, FS_Surjection
<1>6. f \in Injection(D, T) <=> \A m, n \in D : f[m] = f[n] => m = n
  BY <1>3 DEF Injection, Surjection, IsInjective
<1>7. IsSimple(path) <=> \A m, n \in D : f[m] = f[n] => m = n
  BY <1>4, <1>5, <1>6
<1> QED BY <1>5, <1>7 DEF f, D, T

LEMMA NodeSetsSame ==
    edges' = edges => \A path : NodeSet(path)' = NodeSet(path)
  BY DEF NodeSet, First

LEMMA MatchesSame == edges' = edges => Matches' = Matches
  BY DEF Matches, IsMatch, First, Last, Follows, Retains, Hours, Transfers

------------------------------------------------------------------------------
(* The invariant *)

LEMMA InitLayering == Init => LayeringInv
<1> SUFFICES ASSUME Init PROVE LayeringInv
  OBVIOUS
<1> QED BY DEF Init, LayeringInv, LongestFirst, Apart, Accounted

\* A simple path that no kept one covers covers none: those are as long.
LEMMA KeptStaysApart ==
    ASSUME LayeringInv, NEW path \in raw, pc = "dedupe", ~Covered(path),
           NEW chain \in kept
    PROVE  ~(NodeSet(chain) \subseteq NodeSet(path)) /\ ~(NodeSet(path) \subseteq NodeSet(chain))
<1>1. path \in Matches /\ chain \in Matches /\ IsSimple(path) /\ IsSimple(chain)
  BY DEF LayeringInv
<1>2. Len(path) <= Len(chain) /\ Len(path) \in Nat /\ Len(chain) \in Nat
  BY <1>1, MatchIs DEF LayeringInv, LongestFirst
<1>3. /\ IsFiniteSet(NodeSet(path))
      /\ Cardinality(NodeSet(path)) = Len(path) + 1
      /\ Cardinality(NodeSet(chain)) = Len(chain) + 1
  BY <1>1, SimpleIsInjective DEF LayeringInv, IsSimple
<1>4. ~(NodeSet(path) \subseteq NodeSet(chain))
  BY DEF Covered
<1>5. ASSUME NodeSet(chain) \subseteq NodeSet(path) PROVE FALSE
  <2> DEFINE S == NodeSet(path)
             T == NodeSet(chain)
  <2>1. Cardinality(S) <= Cardinality(T) /\ T \in SUBSET S /\ IsFiniteSet(S)
        /\ Cardinality(S) \in Nat /\ Cardinality(T) \in Nat
    BY <1>2, <1>3, <1>5
  <2>2. ~(S \subseteq T)
    BY <1>4
  <2> HIDE DEF S, T
  <2>3. Cardinality(T) <= Cardinality(S)
    BY <2>1, FS_Subset
  <2>4. S = T
    BY <2>1, <2>3, FS_Subset
  <2> QED BY <2>2, <2>4
<1> QED BY <1>4, <1>5

LEMMA DedupeKeeps ==
    ASSUME LayeringInv, NEW path \in raw, Dedupe(path)
    PROVE  LayeringInv'
<1>1. /\ pc = "dedupe" /\ pc' = pc /\ edges' = edges /\ findings' = findings
      /\ raw' = raw \ {path} /\ Longest(path)
      /\ Covered(path) => kept' = kept
      /\ ~Covered(path) => kept' = kept \cup {path}
  BY DEF Dedupe
<1>2. Matches' = Matches /\ \A p : NodeSet(p)' = NodeSet(p)
  BY <1>1, MatchesSame, NodeSetsSame
<1>3. \A p : IsSimple(p)' <=> IsSimple(p)
  BY <1>2 DEF IsSimple
<1>4. kept' \subseteq kept \cup {path} /\ kept \subseteq kept'
  BY <1>1
<1>5. raw' \subseteq Matches' /\ kept' \subseteq Matches' /\ edges' \in Seq(Edge)
  BY <1>1, <1>2, <1>4 DEF LayeringInv
<1>6. \A p \in raw' \cup kept' : IsSimple(p)'
  BY <1>1, <1>3, <1>4 DEF LayeringInv
<1>7. LongestFirst'
  <2>1. \A p \in kept, q \in raw : Len(q) <= Len(p)
    BY <1>1 DEF LayeringInv, LongestFirst
  <2>2. \A q \in raw : Len(q) <= Len(path)
    BY <1>1 DEF Longest
  <2> QED BY <1>1, <1>4, <2>1, <2>2 DEF LongestFirst
<1>8. Apart'
  <2>1. CASE Covered(path)
    BY <1>1, <1>2, <2>1 DEF LayeringInv, Apart
  <2>2. CASE ~Covered(path)
    <3>1. \A chain \in kept :
            ~(NodeSet(chain) \subseteq NodeSet(path)) /\ ~(NodeSet(path) \subseteq NodeSet(chain))
      BY <1>1, <2>2, KeptStaysApart
    <3>2. \A p, q \in kept : NodeSet(p) \subseteq NodeSet(q) => p = q
      BY DEF LayeringInv, Apart
    <3>3. \A p, q \in kept' : NodeSet(p) \subseteq NodeSet(q) => p = q
      BY <1>4, <3>1, <3>2
    <3> QED BY <1>2, <3>3 DEF Apart
  <2> QED BY <2>1, <2>2
<1>9. Accounted'
  <2> SUFFICES ASSUME Cardinality(Matches) <= Limit, NEW p \in Matches, IsSimple(p)
               PROVE  p \in raw' \/ \E chain \in kept' : NodeSet(p) \subseteq NodeSet(chain)
    BY <1>1, <1>2, <1>3 DEF Accounted, Covered
  <2>1. p \in raw \/ Covered(p)
    BY <1>1 DEF LayeringInv, Accounted
  <2>2. CASE Covered(p)
    BY <1>4, <2>2 DEF Covered
  <2>3. CASE p \in raw /\ p # path
    BY <1>1, <2>3
  <2>4. CASE p = path /\ ~Covered(p)
    <3>1. path \in kept'
      BY <1>1, <2>4
    <3> QED BY <2>4, <3>1
  <2> QED BY <2>1, <2>2, <2>3, <2>4
<1>10. findings' = {}
  BY <1>1 DEF LayeringInv
<1> QED BY <1>1, <1>5, <1>6, <1>7, <1>8, <1>9, <1>10 DEF LayeringInv

LEMMA LayeringStep == LayeringInv /\ [Next]_vars => LayeringInv'
<1> SUFFICES ASSUME LayeringInv, [Next]_vars PROVE LayeringInv'
  OBVIOUS
<1>1. ASSUME NEW edge \in Edge, Load(edge) PROVE LayeringInv'
  <2>1. /\ pc = "load" /\ pc' = pc /\ raw' = {} /\ kept' = {} /\ findings' = {}
        /\ edges' \in Seq(Edge)
    BY <1>1 DEF Load, LayeringInv
  <2> QED BY <2>1 DEF LayeringInv, LongestFirst, Apart, Accounted
<1>2. CASE Query
  <2>1. /\ pc = "load" /\ pc' = "filter" /\ edges' = edges /\ kept' = {} /\ findings' = {}
        /\ raw' \in Rows(Matches)
    BY <1>2 DEF Query, LayeringInv
  <2>2. Matches' = Matches
    BY <2>1, MatchesSame
  <2>3. raw' \subseteq Matches /\ (Cardinality(Matches) <= Limit => raw' = Matches)
    BY <2>1 DEF Rows
  <2> QED BY <2>1, <2>2, <2>3 DEF LayeringInv, LongestFirst, Apart, Accounted
<1>3. CASE Filter
  <2>1. /\ pc = "filter" /\ pc' = "dedupe" /\ edges' = edges /\ kept = {} /\ kept' = {} /\ findings' = {}
        /\ raw' = {path \in raw : IsSimple(path)}
    BY <1>3 DEF Filter, LayeringInv
  <2>2. Matches' = Matches /\ \A p : NodeSet(p)' = NodeSet(p)
    BY <2>1, MatchesSame, NodeSetsSame
  <2>3. \A p : IsSimple(p)' <=> IsSimple(p)
    BY <2>2 DEF IsSimple
  <2>4. Accounted'
    BY <2>1, <2>2, <2>3 DEF LayeringInv, Accounted
  <2>5. \A path \in raw' \cup kept' : IsSimple(path)'
    BY <2>1, <2>3
  <2> QED BY <2>1, <2>2, <2>4, <2>5 DEF LayeringInv, LongestFirst, Apart
<1>4. ASSUME NEW path \in raw, Dedupe(path) PROVE LayeringInv'
  BY <1>4, DedupeKeeps
<1>5. CASE Report
  <2>1. /\ pc = "dedupe" /\ pc' = "done" /\ edges' = edges /\ kept' = kept /\ raw = {} /\ raw' = {}
        /\ findings' = UNION {[account : Flagged(path), evidence : {path}] : path \in kept}
    BY <1>5 DEF Report, LayeringInv
  <2>2. Matches' = Matches /\ \A p : NodeSet(p)' = NodeSet(p)
    BY <2>1, MatchesSame, NodeSetsSame
  <2>3. \A p : (IsSimple(p)' <=> IsSimple(p)) /\ (Covered(p)' <=> Covered(p)) /\ Flagged(p)' = Flagged(p)
    BY <2>1, <2>2 DEF IsSimple, Covered, Flagged
  <2>4. Accounted' /\ Apart'
    BY <2>1, <2>2, <2>3 DEF LayeringInv, Accounted, Apart
  <2>5. \A path \in raw' \cup kept' : IsSimple(path)'
    BY <2>1, <2>3 DEF LayeringInv
  <2>6. findings' = UNION {[account : Flagged(path)', evidence : {path}] : path \in kept'}
    BY <2>1, <2>3
  <2> QED BY <2>1, <2>2, <2>4, <2>5, <2>6 DEF LayeringInv, LongestFirst
<1>6. CASE UNCHANGED vars
  <2>1. UNCHANGED <<pc, edges, raw, kept, findings>>
    BY <1>6 DEF vars
  <2>2. Matches' = Matches /\ \A p : NodeSet(p)' = NodeSet(p)
    BY <2>1, MatchesSame, NodeSetsSame
  <2>3. \A p : (IsSimple(p)' <=> IsSimple(p)) /\ (Covered(p)' <=> Covered(p)) /\ Flagged(p)' = Flagged(p)
    BY <2>1, <2>2 DEF IsSimple, Covered, Flagged
  <2>4. Accounted' /\ Apart' /\ LongestFirst'
    BY <2>1, <2>2, <2>3 DEF LayeringInv, Accounted, Apart, LongestFirst
  <2>5. findings' = IF pc' = "done"
                      THEN UNION {[account : Flagged(path)', evidence : {path}] : path \in kept'}
                      ELSE {}
    BY <2>1, <2>3 DEF LayeringInv
  <2> QED BY <2>1, <2>2, <2>3, <2>4, <2>5 DEF LayeringInv
<1> QED BY <1>1, <1>2, <1>3, <1>4, <1>5, <1>6 DEF Next, Returned

------------------------------------------------------------------------------
(* What is reported *)

LEMMA FindingIs ==
    ASSUME LayeringInv, NEW f \in findings
    PROVE  f.evidence \in kept /\ f.account \in NodeSet(f.evidence)
<1>1. findings = UNION {[account : Flagged(path), evidence : {path}] : path \in kept}
  BY DEF LayeringInv
<1>2. PICK path \in kept : f \in [account : Flagged(path), evidence : {path}]
  BY <1>1
<1> QED BY <1>2 DEF Flagged

\* The account before the n-th transfer of a path is its sender.
LEMMA SendersAre ==
    ASSUME edges \in Seq(Edge), NEW path \in Matches, NEW n \in 1 .. Len(path)
    PROVE  /\ edges[path[n]].sender = NodesOf(path)[n - 1]
           /\ edges[path[n]].receiver = NodesOf(path)[n]
           /\ n - 1 \in 0 .. Len(path) /\ n \in 0 .. Len(path)
<1>1. Len(path) \in Nat \ {0} /\ IsMatch(path)
  BY MatchIs
<1>2. n - 1 \in 0 .. Len(path) /\ n \in 0 .. Len(path) /\ n # 0
  BY <1>1
<1>3. CASE n = 1
  BY <1>2, <1>3 DEF NodesOf, First
<1>4. CASE n # 1
  <2>1. n - 1 \in 1 .. Len(path) - 1 /\ n - 1 + 1 = n /\ n - 1 # 0
    BY <1>1, <1>4
  <2>2. Follows(path[n - 1], path[n - 1 + 1])
    BY <1>1, <2>1 DEF IsMatch
  <2>3. edges[path[n - 1]].receiver = edges[path[n]].sender
    BY <2>1, <2>2 DEF Follows
  <2> QED BY <1>2, <2>1, <2>3 DEF NodesOf
<1> QED BY <1>3, <1>4

\* No transfer of a path is before an earlier one.
LEMMA TimesGrow ==
    ASSUME edges \in Seq(Edge), NEW path \in Matches,
           NEW m \in 1 .. Len(path), NEW n \in 1 .. Len(path), m < n
    PROVE  edges[path[m]].time <= edges[path[n]].time
<1> DEFINE time(k) == edges[path[k]].time
           B == {k \in Nat : k \in 1 .. Len(path) /\ m < k /\ ~(time(m) <= time(k))}
<1>1. SUFFICES ASSUME B # {} PROVE FALSE
  <2>1. n \in Nat
    BY MatchIs
  <2> QED BY <2>1
<1>2. PICK k \in B : \A j \in B : k <= j
  <2>1. B \in SUBSET Nat
    OBVIOUS
  <2> HIDE DEF B
  <2> QED BY <1>1, <2>1, Least
<1>3. Len(path) \in Nat /\ IsMatch(path) /\ \A j \in 1 .. Len(path) : time(j) \in Nat
  <2>1. \A edge \in Edge : edge.time \in Nat
    BY LayeringAssumption DEF Edge
  <2> QED BY <2>1, MatchIs
<1>4. k - 1 \in 1 .. Len(path) - 1 /\ k - 1 \in Nat /\ k - 1 + 1 = k
      /\ (k - 1 = m \/ m < k - 1) /\ k - 1 \in 1 .. Len(path)
  BY <1>3
<1>5. k - 1 \notin B
  <2>1. k \in Nat /\ ~(k <= k - 1)
    BY <1>4
  <2> HIDE DEF B
  <2> QED BY <1>2, <2>1
<1>6. time(m) <= time(k - 1)
  BY <1>3, <1>4, <1>5
<1>7. Follows(path[k - 1], path[k - 1 + 1])
  BY <1>3, <1>4 DEF IsMatch
<1>8. time(k - 1) <= time(k)
  BY <1>4, <1>7 DEF Follows
<1>9. time(m) \in Nat /\ time(k - 1) \in Nat /\ time(k) \in Nat /\ ~(time(m) <= time(k))
  BY <1>3, <1>4
<1> HIDE DEF time
<1> QED BY <1>6, <1>8, <1>9

\* What is left when the paths that revisit an account are dropped are chains,
\* and no chain is dropped.
LEMMA SimpleIsChain ==
    ASSUME edges \in Seq(Edge), NEW path \in Matches
    PROVE  IsSimple(path) <=> IsChain(path)
<1> DEFINE f == NodesOf(path)
<1>1. /\ Len(path) \in MinHops .. MaxHops /\ Len(path) \in Nat \ {0} /\ IsMatch(path)
      /\ \A n \in 1 .. Len(path) : edges[path[n]] \in Edge
  BY MatchIs
<1>2. IsSimple(path) <=> \A m, n \in 0 .. Len(path) : f[m] = f[n] => m = n
  BY SimpleIsInjective
<1>3. f[0] = First(path).sender /\ 0 \in 0 .. Len(path)
  BY <1>1 DEF NodesOf
<1>4. \A n \in 1 .. Len(path) :
        /\ edges[path[n]].sender = f[n - 1] /\ edges[path[n]].receiver = f[n]
        /\ n - 1 \in 0 .. Len(path) /\ n \in 0 .. Len(path) /\ n # 0
  BY <1>1, SendersAre
<1> HIDE DEF f
<1>5. ASSUME IsSimple(path) PROVE IsChain(path)
  <2>1. ASSUME NEW m \in 1 .. Len(path), NEW n \in 1 .. Len(path), m < n
        PROVE  /\ edges[path[m]].sender # edges[path[n]].sender
               /\ edges[path[m]].receiver # edges[path[n]].receiver
               /\ edges[path[m]].time <= edges[path[n]].time
    <3>1. m - 1 # n - 1 /\ m # n
      BY <1>1, <2>1
    <3>2. f[m - 1] # f[n - 1] /\ f[m] # f[n]
      BY <1>2, <1>4, <1>5, <3>1
    <3> QED BY <1>4, <2>1, <3>2, TimesGrow
  <2>2. \A n \in 1 .. Len(path) : edges[path[n]].receiver # First(path).sender
    BY <1>2, <1>3, <1>4, <1>5
  <2>3. ASSUME NEW n \in 1 .. Len(path) - 1
        PROVE  /\ edges[path[n]].receiver = edges[path[n + 1]].sender
               /\ AboutAsLarge(edges[path[n]].amount, edges[path[n + 1]].amount)
    <3>1. Follows(path[n], path[n + 1])
      BY <1>1 DEF IsMatch
    <3>2. n \in 1 .. Len(path) /\ n + 1 \in 1 .. Len(path)
      BY <1>1
    <3>3. edges[path[n]].amount \in Nat /\ edges[path[n + 1]].amount \in Nat
      BY <1>1, <3>2, LayeringAssumption DEF Edge
    <3>4. /\ 20 * edges[path[n + 1]].amount <= 21 * edges[path[n]].amount
          /\ 2 * edges[path[n + 1]].amount >= edges[path[n]].amount
      BY <3>1 DEF Follows, Retains
    <3>5. AboutAsLarge(edges[path[n]].amount, edges[path[n + 1]].amount)
      <4>1. PICK x \in Nat, y \in Nat :
              x = edges[path[n]].amount /\ y = edges[path[n + 1]].amount
        BY <3>3
      <4>2. 20 * y <= 21 * x /\ 2 * y >= x
        BY <3>4, <4>1
      <4>3. x <= 2 * y /\ 100 * y <= 105 * x
        BY <4>2
      <4> QED BY <4>1, <4>3 DEF AboutAsLarge
    <3> QED BY <3>1, <3>5 DEF Follows
  <2>4. First(path).amount >= MinFirstHopAmount
    BY <1>1 DEF IsMatch
  <2> QED BY <1>1, <2>1, <2>2, <2>3, <2>4 DEF IsChain
<1>6. ASSUME IsChain(path) PROVE IsSimple(path)
  <2> SUFFICES ASSUME NEW m \in 0 .. Len(path), NEW n \in 0 .. Len(path), f[m] = f[n]
               PROVE  m = n
    BY <1>2
  <2>0. /\ \A k, l \in 1 .. Len(path) :
             k < l => edges[path[k]].receiver # edges[path[l]].receiver
        /\ \A k \in 1 .. Len(path) : edges[path[k]].receiver # First(path).sender
    BY <1>6 DEF IsChain
  <2>1. \A k, l \in 1 .. Len(path) : k < l => f[k] # f[l]
    <3>1. \A k \in 1 .. Len(path) : edges[path[k]].receiver = f[k]
      BY <1>4
    <3> QED BY <2>0, <3>1
  <2>2. \A k \in 1 .. Len(path) : f[k] # f[0]
    BY <1>3, <1>4, <2>0
  <2>3. /\ m = 0 \/ m \in 1 .. Len(path)
        /\ n = 0 \/ n \in 1 .. Len(path)
        /\ m = n \/ m < n \/ n < m
    BY <1>1
  <2> QED BY <2>1, <2>2, <2>3
<1> QED BY <1>5, <1>6

\* Every reported path is a chain, and the account it is reported for is on it,
\* for every graph.  (detect_layering_chains)
THEOREM ChainEvidenceCorrect == Spec => []EvidenceIsChain
<1>1. LayeringInv => EvidenceIsChain
  <2> SUFFICES ASSUME LayeringInv, NEW f \in findings
               PROVE  IsChain(f.evidence) /\ f.account \in NodeSet(f.evidence)
    BY DEF EvidenceIsChain
  <2>1. f.evidence \in kept /\ f.account \in NodeSet(f.evidence)
    BY FindingIs
  <2>2. pc \in {"dedupe", "done"}
    BY <2>1 DEF LayeringInv
  <2>3. f.evidence \in Matches /\ IsSimple(f.evidence)
    BY <2>1, <2>2 DEF LayeringInv
  <2> QED BY <2>1, <2>3, SimpleIsChain DEF LayeringInv
<1> QED BY <1>1, InitLayering, LayeringStep, PTL DEF Spec

\* No reported chain lies within the accounts of another, for every graph.
\* (_dedupe_to_longest_chains)
THEOREM NoOverlapCorrect == Spec => []NoOverlap
<1>1. LayeringInv => NoOverlap
  BY FindingIs DEF NoOverlap, LayeringInv, Apart
<1> QED BY <1>1, InitLayering, LayeringStep, PTL DEF Spec

\* Below the limit, the accounts of every chain of the graph are reported
\* together.  (detect_layering_chains)
THEOREM ChainsFlaggedCorrect == Spec => []ChainsFlagged
<1>1. LayeringInv => ChainsFlagged
  <2> SUFFICES ASSUME LayeringInv, pc = "done", Cardinality(Matches) <= Limit,
                      NEW path \in Matches, IsChain(path)
               PROVE  \E chain \in {f.evidence : f \in findings} :
                        \A a \in NodeSet(path) : [account |-> a, evidence |-> chain] \in findings
    BY DEF ChainsFlagged
  <2>1. IsSimple(path)
    BY SimpleIsChain DEF LayeringInv
  <2>2. PICK chain \in kept : NodeSet(path) \subseteq NodeSet(chain)
    BY <2>1 DEF LayeringInv, Accounted, Covered
  <2>3. \A a \in NodeSet(chain) : [account |-> a, evidence |-> chain] \in findings
    <3>1. findings = UNION {[account : Flagged(p), evidence : {p}] : p \in kept}
      BY DEF LayeringInv
    <3> QED BY <3>1 DEF Flagged
  <2>4. PICK a \in NodeSet(chain) : TRUE
    BY DEF NodeSet
  <2>5. chain \in {f.evidence : f \in findings}
    <3>1. [account |-> a, evidence |-> chain].evidence = chain
      OBVIOUS
    <3> QED BY <2>3, <3>1
  <2> QED BY <2>2, <2>3, <2>5
<1> QED BY <1>1, InitLayering, LayeringStep, PTL DEF Spec

==============================================================================
