------------------------ MODULE MuleCommunitiesProofs ------------------------
(***************************************************************************)
(* Proofs about MuleCommunities.  Trees and communities are spoken of      *)
(* through the sets of accounts that no parent link, or no transfer,       *)
(* leaves, so that nothing needs an induction over paths.                  *)
(***************************************************************************)
EXTENDS MuleCommunities, FiniteSetTheorems, TLAPS

\* The two ends of an edge are accounts.
LEMMA EdgeEnds ==
    ASSUME TypeOK, NEW k \in 1 .. Len(edges)
    PROVE  edges[k].sender \in Accounts /\ edges[k].receiver \in Accounts
<1>1. edges[k] \in Edge
    BY DEF TypeOK
<1> QED BY <1>1 DEF Edge

\* The first loop starts, and so does the second, at an edge that exists.
LEMMA FirstEdge == ASSUME TypeOK PROVE 1 \in 1 .. Len(edges) /\ Len(edges) \in Nat
    BY DEF TypeOK

\* NextEdge leaves i and x well typed.
LEMMA NextEdgeType ==
    ASSUME TypeOK, NEW phase, NEW after, NextEdge(phase, after)
    PROVE  /\ i' \in 1 .. Len(edges)
           /\ x' \in Accounts
           /\ pc' \in {phase, after}
<1>1. CASE i < Len(edges)
    <2>1. i + 1 \in 1 .. Len(edges)
        BY <1>1, FirstEdge DEF TypeOK
    <2> QED BY <1>1, <2>1, EdgeEnds DEF NextEdge
<1>2. CASE ~(i < Len(edges))
    BY <1>2, FirstEdge, EdgeEnds DEF NextEdge
<1> QED BY <1>1, <1>2

\* What Flag adds is a set of findings.
LEMMA ReportsType ==
    ASSUME TypeOK, NEW members \in SUBSET Accounts, NEW hub \in Accounts
    PROVE  Reports(members, hub) \subseteq Finding
<1>1. Evidence(members) \in SUBSET Nat
    BY FirstEdge DEF Evidence
<1> QED BY <1>1 DEF Reports, Finding

\* The initial state is well typed.
LEMMA InitType == Init => TypeOK
<1> SUFFICES ASSUME Init PROVE TypeOK
    OBVIOUS
<1>1. edges \in Seq(Edge) /\ edges # <<>>
    BY MuleAssumption DEF Init
<1>2. 1 \in 1 .. Len(edges) /\ edges[1] \in Edge
    BY <1>1
<1> QED BY <1>1, <1>2 DEF Init, TypeOK, Edge

\* Every variable has its type.
THEOREM MuleTypeCorrect == Spec => []TypeOK
<1>1. TypeOK /\ [Next]_vars => TypeOK'
    <2> SUFFICES ASSUME TypeOK, [Next]_vars PROVE TypeOK'
        OBVIOUS
    <2>1. CASE Halve
        BY <2>1 DEF Halve, Halved, TypeOK
    <2>2. CASE FindReceiver
        BY <2>2, EdgeEnds DEF FindReceiver, TypeOK
    <2>3. CASE Union
        BY <2>3, NextEdgeType DEF Union, Linked, TypeOK
    <2>4. CASE Group
        <3>1. Joined \in [Accounts -> SUBSET Accounts]
            BY EdgeEnds DEF Joined, TypeOK
        <3> QED BY <2>4, <3>1, NextEdgeType DEF Group, TypeOK
    <2>5. ASSUME NEW r \in Accounts, Flag(r)
          PROVE  TypeOK'
        <3>1. findings' \subseteq Finding
            BY <2>5, ReportsType DEF Flag, Hubs, TypeOK
        <3> QED BY <2>5, <3>1 DEF Flag, TypeOK
    <2>6. CASE Finish
        BY <2>6 DEF Finish, TypeOK
    <2>7. CASE UNCHANGED vars
        BY <2>7 DEF vars, TypeOK
    <2> QED BY <2>1, <2>2, <2>3, <2>4, <2>5, <2>6, <2>7 DEF Next, Returned
<1> QED BY <1>1, InitType, PTL DEF Spec

------------------------------------------------------------------------------
(* The forest *)

\* Two accounts no whole set separates.
SameTree(a, b) ==
    \A S \in SUBSET Accounts : Whole(S) => (a \in S <=> b \in S)

\* Where find() has got to is in the tree it started in, and a root that was
\* found stays one.
FindInv ==
    /\ pc = "sender" => SameTree(x, edges[i].sender)
    /\ pc = "receiver" => /\ SameTree(x, edges[i].receiver)
                          /\ SameTree(ra, edges[i].sender)
                          /\ IsRoot(ra)
    /\ pc = "group" => SameTree(x, edges[i].sender)

ForestInv == TypeOK /\ Rooted /\ ForestIsGraph /\ FindInv

\* A node above x is not x: no cycle.
LEMMA GrandparentAbove ==
    ASSUME TypeOK, Rooted, NEW a \in Accounts, ~IsRoot(a)
    PROVE  parent[parent[a]] # a
<1> SUFFICES ASSUME parent[parent[a]] = a PROVE FALSE
    OBVIOUS
<1> DEFINE S == {a, parent[a]}
<1>1. S \in (SUBSET Accounts) \ {{}}
    BY DEF TypeOK
<1>2. \A b \in S : parent[b] \in S
    OBVIOUS
<1>3. \E b \in S : IsRoot(b)
    BY <1>1, <1>2 DEF Rooted
<1> QED BY <1>3 DEF IsRoot

\* Halving takes no account out of its tree and puts none into another.
LEMMA HalveWhole ==
    ASSUME TypeOK, Rooted, Halve, NEW S \in SUBSET Accounts
    PROVE  Whole(S)' <=> Whole(S)
<1> DEFINE p == parent[x]
<1>1. x \in Accounts /\ p \in Accounts /\ parent[p] \in Accounts
    BY DEF TypeOK
<1>2. p # x
    BY DEF Halve, IsRoot
<1>3. parent' = [parent EXCEPT ![x] = parent[p]]
    BY DEF Halve, Halved
<1>4. parent'[x] = parent[p] /\ \A a \in Accounts \ {x} : parent'[a] = parent[a]
    BY <1>1, <1>3 DEF TypeOK
<1>5. ASSUME Whole(S) PROVE Whole(S)'
    BY <1>1, <1>4, <1>5 DEF Whole
<1>6. ASSUME Whole(S)' PROVE Whole(S)
    <2>1. x \in S <=> parent[p] \in S
        BY <1>1, <1>4, <1>6 DEF Whole
    <2>2. p \in S <=> parent[p] \in S
        BY <1>1, <1>2, <1>4, <1>6 DEF Whole
    <2> QED BY <1>1, <1>4, <1>6, <2>1, <2>2 DEF Whole
<1> QED BY <1>5, <1>6

\* Nor does it make or lose a root.
LEMMA HalveRoots ==
    ASSUME TypeOK, Rooted, Halve, NEW a \in Accounts
    PROVE  IsRoot(a)' <=> IsRoot(a)
<1>1. x \in Accounts /\ parent' = [parent EXCEPT ![x] = parent[parent[x]]] /\ ~IsRoot(x)
    BY DEF TypeOK, Halve, Halved
<1>2. parent[parent[x]] # x
    BY <1>1, GrandparentAbove
<1>3. CASE a = x
    BY <1>1, <1>2, <1>3 DEF IsRoot, TypeOK
<1>4. CASE a # x
    BY <1>1, <1>4 DEF IsRoot, TypeOK
<1> QED BY <1>3, <1>4

\* Halving keeps a root ahead of every account.
LEMMA HalveRooted == ASSUME TypeOK, Rooted, Halve PROVE Rooted'
<1> SUFFICES ASSUME NEW S \in (SUBSET Accounts) \ {{}},
                    \A a \in S : parent'[a] \in S
             PROVE  \E a \in S : IsRoot(a)'
    BY DEF Rooted
<1> DEFINE p == parent[x]
<1>1. x \in Accounts /\ p \in Accounts /\ parent[p] \in Accounts
    BY DEF TypeOK
<1>2. parent'[x] = parent[p] /\ \A a \in Accounts \ {x} : parent'[a] = parent[a]
    BY <1>1 DEF Halve, Halved, TypeOK
<1>3. CASE x \notin S
    <2>1. \A a \in S : parent[a] \in S
        BY <1>2, <1>3
    <2>2. PICK a \in S : IsRoot(a)
        BY <2>1 DEF Rooted
    <2> QED BY <2>2, HalveRoots
<1>4. CASE x \in S
    <2> DEFINE T == S \cup {p}
    <2>1. parent[p] \in S
        BY <1>2, <1>4
    <2>2. \A a \in T : parent[a] \in T
        BY <1>2, <2>1
    <2>3. PICK a \in T : IsRoot(a)
        BY <1>1, <2>2 DEF Rooted
    <2>4. a \in S
        BY <2>1, <2>3 DEF IsRoot
    <2> QED BY <2>3, <2>4, HalveRoots
<1> QED BY <1>3, <1>4

\* Halve keeps the forest and the walk.
LEMMA HalveForest == ASSUME ForestInv, TypeOK', Halve PROVE ForestInv'
<1> USE DEF ForestInv
<1>1. Rooted'
    BY HalveRooted
<1>2. ForestIsGraph'
    <2>1. United' = United /\ \A S \in SUBSET Accounts : Isolated(S, United)' <=> Isolated(S, United)
        BY DEF Halve, United, Isolated
    <2> QED BY <2>1, HalveWhole DEF ForestIsGraph
<1>4. SameTree(x, x')
    <2>1. x \in Accounts /\ parent[x] \in Accounts /\ x' = parent[parent[x]]
        BY DEF TypeOK, Halve
    <2> QED BY <2>1 DEF SameTree, Whole
<1>5. x \in Accounts /\ x' \in Accounts /\ ra \in Accounts
    BY DEF TypeOK
<1>6. edges' = edges /\ i' = i /\ ra' = ra /\ pc' = pc
    BY DEF Halve
<1>7. edges[i].sender \in Accounts /\ edges[i].receiver \in Accounts
    BY EdgeEnds DEF TypeOK
<1>8. ASSUME NEW a \in Accounts, SameTree(x, a)
      PROVE  SameTree(x', a)
    BY <1>4, <1>8 DEF SameTree
<1>9. \A a \in Accounts : SameTree(x, a) => SameTree(x, a)'
    <2> SUFFICES ASSUME NEW a \in Accounts, SameTree(x, a)
                 PROVE  \A S \in SUBSET Accounts : Whole(S)' => (x' \in S <=> a \in S)
        BY DEF SameTree
    <2> QED BY <1>8, HalveWhole DEF SameTree
<1>10. SameTree(ra, edges[i].sender) => SameTree(ra, edges[i].sender)'
    BY <1>6, HalveWhole DEF SameTree
<1>11. IsRoot(ra) => IsRoot(ra)'
    BY <1>5, <1>6, HalveRoots DEF IsRoot
<1>12. FindInv'
    <2>1. pc = "sender" => SameTree(x, edges[i].sender)'
        BY <1>6, <1>7, <1>9 DEF FindInv, SameTree
    <2>2. pc = "receiver" => SameTree(x, edges[i].receiver)'
        BY <1>6, <1>7, <1>9 DEF FindInv, SameTree
    <2>3. pc = "group" => SameTree(x, edges[i].sender)'
        BY <1>6, <1>7, <1>9 DEF FindInv, SameTree
    <2> QED BY <1>6, <1>10, <1>11, <2>1, <2>2, <2>3 DEF FindInv
<1> QED BY <1>1, <1>2, <1>12

\* Linking two roots joins exactly their trees.
LEMMA UnionWhole ==
    ASSUME TypeOK, IsRoot(ra), IsRoot(x), parent' = Linked, NEW S \in SUBSET Accounts
    PROVE  Whole(S)' <=> Whole(S) /\ (ra \in S <=> x \in S)
<1>1. ra \in Accounts /\ x \in Accounts /\ parent[ra] = ra
    BY DEF TypeOK, IsRoot
<1>2. parent'[ra] = x /\ \A a \in Accounts \ {ra} : parent'[a] = parent[a]
    BY <1>1 DEF Linked, TypeOK
<1> QED BY <1>1, <1>2 DEF Whole

\* The transfers united after a union are those before it and the one at hand.
LEMMA UnionIsolated ==
    ASSUME TypeOK, Union, NEW S \in SUBSET Accounts
    PROVE  Isolated(S, United)' <=>
             /\ Isolated(S, United)
             /\ edges[i].sender \in S <=> edges[i].receiver \in S
<1>1. i \in 1 .. Len(edges) /\ Len(edges) \in Nat
    BY FirstEdge DEF TypeOK
<1>2. United = i - 1
    BY DEF Union, United
<1>3. United' = i /\ edges' = edges
    <2>1. CASE i < Len(edges)
        BY <1>1, <2>1 DEF Union, NextEdge, United
    <2>2. CASE ~(i < Len(edges))
        BY <1>1, <2>2 DEF Union, NextEdge, United
    <2> QED BY <2>1, <2>2
<1>4. Isolated(S, United)' <=> Isolated(S, i)
    BY <1>3 DEF Isolated
<1>5. 1 .. i = (1 .. i - 1) \cup {i}
    BY <1>1
<1> QED BY <1>2, <1>4, <1>5 DEF Isolated

\* Union keeps the forest and starts a walk at an edge's sender.
LEMMA UnionForest == ASSUME ForestInv, TypeOK', Union PROVE ForestInv'
<1> USE DEF ForestInv
<1>1. /\ IsRoot(ra) /\ IsRoot(x) /\ parent' = Linked
      /\ SameTree(x, edges[i].receiver) /\ SameTree(ra, edges[i].sender)
    BY DEF Union, FindInv
<1>2. ra \in Accounts /\ x \in Accounts
    BY DEF TypeOK
<1>3. Rooted'
    <2> SUFFICES ASSUME NEW S \in (SUBSET Accounts) \ {{}},
                        \A a \in S : parent'[a] \in S
                 PROVE  \E a \in S : IsRoot(a)'
        BY DEF Rooted
    <2>1. parent'[ra] = x /\ \A a \in Accounts \ {ra} : parent'[a] = parent[a]
        BY <1>1, <1>2 DEF Linked, TypeOK
    <2>2. CASE ra \in S
        <3>1. x \in S /\ parent'[x] = x
            BY <1>1, <1>2, <2>1, <2>2 DEF IsRoot
        <3> QED BY <3>1 DEF IsRoot
    <2>3. CASE ra \notin S
        <3>1. \A a \in S : parent[a] \in S
            BY <2>1, <2>3
        <3>2. PICK a \in S : IsRoot(a)
            BY <3>1 DEF Rooted
        <3>3. parent'[a] = a
            BY <2>1, <2>3, <3>2 DEF IsRoot
        <3> QED BY <3>3 DEF IsRoot
    <2> QED BY <2>2, <2>3
<1>4. ForestIsGraph'
    <2> SUFFICES ASSUME NEW S \in SUBSET Accounts
                 PROVE  Whole(S)' <=> Isolated(S, United)'
        BY DEF ForestIsGraph
    <2>1. Whole(S)' <=> Whole(S) /\ (ra \in S <=> x \in S)
        BY <1>1, UnionWhole
    <2>2. Whole(S) => (ra \in S <=> edges[i].sender \in S)
        BY <1>1 DEF SameTree
    <2>3. Whole(S) => (x \in S <=> edges[i].receiver \in S)
        BY <1>1 DEF SameTree
    <2>4. Whole(S) <=> Isolated(S, United)
        BY DEF ForestIsGraph
    <2> QED BY <2>1, <2>2, <2>3, <2>4, UnionIsolated
<1>5. FindInv'
    <2>1. pc' \in {"sender", "group"} /\ x' = edges'[i'].sender
        BY DEF Union, NextEdge
    <2> QED BY <2>1 DEF FindInv, SameTree
<1> QED BY <1>3, <1>4, <1>5

\* A step that leaves the forest and the united transfers alone.
LEMMA SameForest ==
    ASSUME ForestInv, parent' = parent, edges' = edges, United' = United
    PROVE  Rooted' /\ ForestIsGraph'
<1>1. Rooted'
    BY DEF ForestInv, Rooted, IsRoot
<1>2. \A S \in SUBSET Accounts : Isolated(S, United)' <=> Isolated(S, United)
    BY DEF Isolated
<1>3. \A S \in SUBSET Accounts : Whole(S)' <=> Whole(S)
    BY DEF Whole
<1> QED BY <1>1, <1>2, <1>3 DEF ForestInv, ForestIsGraph

LEMMA ForestInvariant == Spec => []ForestInv
<1>1. Init => ForestInv
    <2> SUFFICES ASSUME Init, TypeOK PROVE Rooted /\ ForestIsGraph /\ FindInv
        BY InitType DEF ForestInv
    <2>1. \A a \in Accounts : parent[a] = a
        BY DEF Init
    <2>2. Rooted
        BY <2>1 DEF Rooted, IsRoot
    <2>3. United = 0
        BY DEF Init, United
    <2>4. ForestIsGraph
        BY <2>1, <2>3 DEF ForestIsGraph, Whole, Isolated
    <2>5. FindInv
        BY DEF Init, FindInv, SameTree
    <2> QED BY <2>2, <2>4, <2>5
<1>2. ForestInv /\ TypeOK' /\ [Next]_vars => ForestInv'
    <2> SUFFICES ASSUME ForestInv, TypeOK', [Next]_vars PROVE ForestInv'
        OBVIOUS
    <2> USE DEF ForestInv
    <2>1. CASE Halve
        BY <2>1, HalveForest
    <2>2. CASE FindReceiver
        <3>1. United' = United /\ parent' = parent /\ edges' = edges
            BY <2>2 DEF FindReceiver, United
        <3>2. \A a, b \in Accounts : SameTree(a, b) => SameTree(a, b)'
            BY <3>1 DEF SameTree, Whole
        <3>3. SameTree(x, edges[i].sender) /\ ra' = x /\ x' = edges'[i'].receiver /\ IsRoot(x)
            BY <2>2 DEF FindReceiver, FindInv
        <3>4. FindInv'
            BY <2>2, <3>1, <3>3 DEF FindReceiver, FindInv, SameTree, IsRoot, Whole
        <3> QED BY <3>1, <3>4, SameForest
    <2>3. CASE Union
        BY <2>3, UnionForest
    <2>4. CASE Group
        <3>1. United' = United /\ parent' = parent /\ edges' = edges
            BY <2>4 DEF Group, United, NextEdge
        <3>2. pc' \in {"group", "flag"} /\ x' = edges'[i'].sender
            BY <2>4 DEF Group, NextEdge
        <3>3. FindInv'
            BY <3>2 DEF FindInv, SameTree
        <3> QED BY <3>1, <3>3, SameForest
    <2>5. CASE (\E r \in Accounts : Flag(r)) \/ Finish
        <3>1. United' = United /\ parent' = parent /\ edges' = edges
            BY <2>5 DEF Flag, Finish, United
        <3>2. pc' \in {"flag", "done"}
            BY <2>5 DEF Flag, Finish
        <3>3. FindInv'
            BY <3>2 DEF FindInv
        <3> QED BY <3>1, <3>3, SameForest
    <2>6. CASE UNCHANGED vars
        <3>1. United' = United /\ parent' = parent /\ edges' = edges
            BY <2>6 DEF vars, United
        <3>2. FindInv'
            BY <2>6 DEF vars, FindInv, SameTree, IsRoot, Whole
        <3> QED BY <3>1, <3>2, SameForest
    <2> QED BY <2>1, <2>2, <2>3, <2>4, <2>5, <2>6 DEF Next, Returned
<1> QED BY <1>1, <1>2, MuleTypeCorrect, PTL DEF Spec

\* No cycle: a find() has a root ahead of it wherever it starts.
THEOREM RootedCorrect == Spec => []Rooted
<1>1. ForestInv => Rooted
    BY DEF ForestInv
<1> QED BY <1>1, ForestInvariant, PTL

\* Path halving and linking keep the forest's trees equal to the components
\* of the transfers united so far.
THEOREM ForestCorrect == Spec => []ForestIsGraph
<1>1. ForestInv => ForestIsGraph
    BY DEF ForestInv
<1> QED BY <1>1, ForestInvariant, PTL

------------------------------------------------------------------------------
(* The components *)

\* No tree has two roots.  What is below r is what every set has that contains
\* r and the children of its members; it is a whole set, and no other root is
\* in it.
LEMMA OneRoot ==
    ASSUME TypeOK, NEW r \in Accounts, NEW q \in Accounts,
           IsRoot(r), IsRoot(q), SameTree(r, q)
    PROVE  r = q
<1> SUFFICES ASSUME r # q PROVE FALSE
    OBVIOUS
<1> DEFINE Down(S) == r \in S /\ \A b \in Accounts : parent[b] \in S => b \in S
           Below == {a \in Accounts : \A S \in SUBSET Accounts : Down(S) => a \in S}
<1>1. Below \in SUBSET Accounts /\ r \in Below
    OBVIOUS
<1>2. \A b \in Accounts : parent[b] \in Below => b \in Below
    OBVIOUS
<1>3. ASSUME NEW a \in Below, parent[a] \notin Below
      PROVE  FALSE
    <2>1. a # r
        BY <1>1, <1>3 DEF IsRoot
    <2>2. Down(Below \ {a})
        BY <1>1, <1>2, <1>3, <2>1
    <2>3. a \in Below \ {a}
        BY <2>2
    <2> QED BY <2>3
<1>4. Whole(Below)
    BY <1>2, <1>3 DEF Whole
<1>5. q \in Below
    BY <1>1, <1>4 DEF SameTree
<1>6. Down(Below \ {q})
    BY <1>1, <1>2 DEF IsRoot
<1>7. q \in Below \ {q}
    BY <1>5, <1>6
<1> QED BY <1>7

\* Edges the second loop is through with.
Grouped ==
    IF pc \in {"sender", "receiver"} THEN 0
    ELSE IF pc = "group" THEN i - 1
    ELSE Len(edges)

\* The second loop has put the ends of each edge under the root of its tree,
\* and nothing else anywhere.
GroupInv ==
    /\ pc \in {"sender", "receiver"} => components = [a \in Accounts |-> {}]
    /\ \A r \in Accounts : \A b \in components[r] :
          /\ IsRoot(r)
          /\ \E k \in 1 .. Grouped :
                b \in Ends(k) /\ SameTree(r, edges[k].sender)
    /\ \A k \in 1 .. Grouped : \E r \in Accounts :
          /\ IsRoot(r)
          /\ SameTree(r, edges[k].sender)
          /\ Ends(k) \subseteq components[r]

\* A step that keeps roots, trees and what is grouped.
LEMMA SameGroups ==
    ASSUME TypeOK, GroupInv, Grouped' = Grouped, edges' = edges,
           components' = components,
           \A a \in Accounts : IsRoot(a) => IsRoot(a)',
           \A S \in SUBSET Accounts : Whole(S)' <=> Whole(S),
           pc' \in {"sender", "receiver"} => pc \in {"sender", "receiver"}
    PROVE  GroupInv'
<1>1. \A a, b \in Accounts : SameTree(a, b) => SameTree(a, b)'
    BY DEF SameTree
<1>2. \A k \in 1 .. Grouped : edges[k].sender \in Accounts
    BY EdgeEnds, FirstEdge DEF Grouped, TypeOK
<1>3. ASSUME NEW r \in Accounts, NEW b \in components[r]
      PROVE  /\ IsRoot(r)'
             /\ \E k \in 1 .. Grouped :
                   b \in Ends(k)' /\ SameTree(r, edges[k].sender)'
    <2>1. PICK k \in 1 .. Grouped : b \in Ends(k) /\ SameTree(r, edges[k].sender)
        BY DEF GroupInv
    <2>2. SameTree(r, edges[k].sender)'
        BY <2>1 DEF SameTree
    <2>3. IsRoot(r)
        BY DEF GroupInv
    <2> QED BY <2>1, <2>2, <2>3 DEF Ends
<1>4. ASSUME NEW k \in 1 .. Grouped
      PROVE  \E r \in Accounts : /\ IsRoot(r)'
                                 /\ SameTree(r, edges[k].sender)'
                                 /\ Ends(k)' \subseteq components[r]
    <2>1. PICK r \in Accounts : /\ IsRoot(r)
                                /\ SameTree(r, edges[k].sender)
                                /\ Ends(k) \subseteq components[r]
        BY DEF GroupInv
    <2>2. SameTree(r, edges[k].sender)'
        BY <2>1 DEF SameTree
    <2> QED BY <2>1, <2>2 DEF Ends
<1> QED BY <1>3, <1>4 DEF GroupInv

\* One more edge goes under the root its sender's tree has.
LEMMA GroupGroups ==
    ASSUME ForestInv, GroupInv, Group
    PROVE  GroupInv'
<1> USE DEF ForestInv
<1>1. i \in 1 .. Len(edges) /\ Len(edges) \in Nat /\ x \in Accounts
    BY FirstEdge DEF TypeOK
<1>2. Grouped = i - 1 /\ Grouped' = i /\ edges' = edges
    <2>1. CASE i < Len(edges)
        BY <1>1, <2>1 DEF Group, NextEdge, Grouped
    <2>2. CASE ~(i < Len(edges))
        BY <1>1, <2>2 DEF Group, NextEdge, Grouped
    <2> QED BY <2>1, <2>2
<1>3. \A a \in Accounts : IsRoot(a)' <=> IsRoot(a)
    BY DEF Group, IsRoot
<1>4. SameTree(x, edges[i].sender) /\ IsRoot(x)
    BY DEF Group, FindInv
<1>5. ASSUME NEW r \in Accounts, NEW k \in 1 .. i, SameTree(r, edges[k].sender)
      PROVE  SameTree(r, edges[k].sender)'
    BY <1>2, <1>5 DEF Group, SameTree, Whole
<1>6. \A k : Ends(k)' = Ends(k)
    BY <1>2 DEF Ends
<1>7. \A r \in Accounts :
        components'[r] = IF r = x THEN components[r] \cup Ends(i) ELSE components[r]
    BY <1>1 DEF Group, Joined, Ends, TypeOK
<1>8. i \in 1 .. i /\ \A k \in 1 .. i : k = i \/ k \in 1 .. i - 1
    BY <1>1
<1>9. ASSUME NEW r \in Accounts, NEW b \in components'[r]
      PROVE  /\ IsRoot(r)'
             /\ \E k \in 1 .. i : b \in Ends(k)' /\ SameTree(r, edges[k].sender)'
    <2>1. CASE b \in components[r]
        <3>1. PICK k \in 1 .. i - 1 : b \in Ends(k) /\ SameTree(r, edges[k].sender)
            BY <1>2, <2>1 DEF GroupInv
        <3>2. k \in 1 .. i
            BY <1>1
        <3>3. IsRoot(r)
            BY <2>1 DEF GroupInv
        <3> QED BY <1>3, <1>5, <1>6, <3>1, <3>2, <3>3
    <2>2. CASE b \notin components[r]
        <3>1. r = x /\ b \in Ends(i)
            BY <1>7, <2>2
        <3> QED BY <1>3, <1>4, <1>5, <1>6, <1>8, <3>1
    <2> QED BY <2>1, <2>2
<1>10. ASSUME NEW k \in 1 .. i
       PROVE  \E r \in Accounts : /\ IsRoot(r)'
                                  /\ SameTree(r, edges[k].sender)'
                                  /\ Ends(k)' \subseteq components'[r]
    <2>1. CASE k = i
        BY <1>1, <1>3, <1>4, <1>5, <1>6, <1>7, <2>1
    <2>2. CASE k # i
        <3>1. PICK r \in Accounts : /\ IsRoot(r)
                                    /\ SameTree(r, edges[k].sender)
                                    /\ Ends(k) \subseteq components[r]
            BY <1>2, <1>8, <2>2 DEF GroupInv
        <3> QED BY <1>3, <1>5, <1>6, <1>7, <3>1
    <2> QED BY <2>1, <2>2
<1>11. pc' \notin {"sender", "receiver"}
    BY DEF Group, NextEdge
<1> QED BY <1>2, <1>9, <1>10, <1>11 DEF GroupInv

LEMMA GroupInvariant == Spec => []GroupInv
<1>1. Init => GroupInv
    BY DEF Init, GroupInv, Grouped
<1>2. ForestInv /\ GroupInv /\ [Next]_vars => GroupInv'
    <2> SUFFICES ASSUME ForestInv, GroupInv, [Next]_vars PROVE GroupInv'
        OBVIOUS
    <2> USE DEF ForestInv
    <2>1. CASE Halve
        <3>1. /\ Grouped' = Grouped /\ edges' = edges /\ components' = components
              /\ pc' = pc
            BY <2>1 DEF Halve, Grouped
        <3> QED BY <2>1, <3>1, HalveRoots, HalveWhole, SameGroups
    <2>2. CASE FindReceiver
        <3>1. /\ Grouped' = Grouped /\ edges' = edges /\ components' = components
              /\ parent' = parent /\ pc \in {"sender", "receiver"}
            BY <2>2 DEF FindReceiver, Grouped
        <3> QED BY <3>1, SameGroups DEF IsRoot, Whole
    <2>3. CASE Union
        <3>1. components = [a \in Accounts |-> {}]
            BY <2>3 DEF Union, GroupInv
        <3>2. components' = components /\ Grouped' = 0
            BY <2>3 DEF Union, NextEdge, Grouped
        <3> QED BY <3>1, <3>2 DEF GroupInv
    <2>4. CASE Group
        BY <2>4, GroupGroups
    <2>5. CASE (\E r \in Accounts : Flag(r)) \/ Finish
        <3>1. /\ Grouped' = Grouped /\ edges' = edges /\ components' = components
              /\ parent' = parent /\ pc' \in {"flag", "done"}
            BY <2>5 DEF Flag, Finish, Grouped
        <3> QED BY <3>1, SameGroups DEF IsRoot, Whole
    <2>6. CASE UNCHANGED vars
        <3>1. /\ Grouped' = Grouped /\ edges' = edges /\ components' = components
              /\ parent' = parent /\ pc' = pc
            BY <2>6 DEF vars, Grouped
        <3> QED BY <3>1, SameGroups DEF IsRoot, Whole
    <2> QED BY <2>1, <2>2, <2>3, <2>4, <2>5, <2>6 DEF Next, Returned
<1> QED BY <1>1, <1>2, ForestInvariant, PTL DEF Spec

\* Once all edges are grouped, a component is the community of its root.
LEMMA ComponentIsCommunity ==
    ASSUME ForestInv, GroupInv, pc \in {"flag", "done"},
           NEW r \in Accounts, components[r] # {}
    PROVE  components[r] = Community(r)
<1> USE DEF ForestInv
<1> DEFINE T == components[r]
<1>1. Grouped = Len(edges) /\ United = Len(edges)
    BY DEF Grouped, United
<1>2. \A S \in SUBSET Accounts : Whole(S) <=> Isolated(S, Len(edges))
    BY <1>1 DEF ForestIsGraph
<1>3. \A k \in 1 .. Len(edges) : edges[k].sender \in Accounts /\ edges[k].receiver \in Accounts
    BY EdgeEnds
<1>4. T \in SUBSET Accounts /\ IsRoot(r)
    BY DEF TypeOK, GroupInv
<1>5. \A b \in T : SameTree(r, b)
    <2> SUFFICES ASSUME NEW b \in T, NEW S \in SUBSET Accounts, Whole(S)
                 PROVE  r \in S <=> b \in S
        BY DEF SameTree
    <2>1. PICK k \in 1 .. Len(edges) : b \in Ends(k) /\ SameTree(r, edges[k].sender)
        BY <1>1 DEF GroupInv
    <2>2. edges[k].sender \in S <=> edges[k].receiver \in S
        BY <1>2 DEF Isolated
    <2> QED BY <2>1, <2>2 DEF SameTree, Ends
<1>6. Isolated(T, Len(edges))
    <2> SUFFICES ASSUME NEW k \in 1 .. Len(edges), Ends(k) \cap T # {}
                 PROVE  Ends(k) \subseteq T
        BY DEF Isolated, Ends
    <2>1. PICK b \in Ends(k) : b \in T
        OBVIOUS
    <2>2. PICK q \in Accounts : /\ IsRoot(q)
                                /\ SameTree(q, edges[k].sender)
                                /\ Ends(k) \subseteq components[q]
        BY <1>1 DEF GroupInv
    <2>3. SameTree(r, q)
        <3> SUFFICES ASSUME NEW S \in SUBSET Accounts, Whole(S)
                     PROVE  r \in S <=> q \in S
            BY DEF SameTree
        <3>1. r \in S <=> b \in S
            BY <1>5, <2>1 DEF SameTree
        <3>2. edges[k].sender \in S <=> edges[k].receiver \in S
            BY <1>2 DEF Isolated
        <3>3. q \in S <=> edges[k].sender \in S
            BY <2>2 DEF SameTree
        <3> QED BY <3>1, <3>2, <3>3 DEF Ends
    <2>4. q = r
        BY <1>4, <2>2, <2>3, OneRoot
    <2> QED BY <2>2, <2>4
<1>7. r \in T
    <2>1. PICK b \in T : TRUE
        OBVIOUS
    <2>2. Whole(T) /\ SameTree(r, b)
        BY <1>2, <1>4, <1>5, <1>6
    <2> QED BY <1>4, <2>1, <2>2 DEF SameTree
<1>8. T \subseteq Community(r)
    BY <1>2, <1>4, <1>5 DEF Community, SameTree
<1>9. Community(r) \subseteq T
    BY <1>4, <1>6, <1>7 DEF Community
<1> QED BY <1>8, <1>9

\* The components are the weakly connected components of the graph.
THEOREM CommunitiesCorrect == Spec => []CommunitiesFound
<1>1. ForestInv /\ GroupInv => CommunitiesFound
    <2> SUFFICES ASSUME ForestInv, GroupInv, pc \in {"flag", "done"}
                 PROVE  /\ \A r \in Accounts :
                              components[r] # {} => components[r] = Community(r)
                        /\ \A a \in Touched : \E r \in Accounts : a \in components[r]
        BY DEF CommunitiesFound
    <2>1. \A a \in Touched : \E r \in Accounts : a \in components[r]
        <3> SUFFICES ASSUME NEW k \in 1 .. Len(edges), NEW a \in Ends(k)
                     PROVE  \E r \in Accounts : a \in components[r]
            BY DEF Touched
        <3> QED BY DEF GroupInv, Grouped
    <2> QED BY <2>1, ComponentIsCommunity
<1> QED BY <1>1, ForestInvariant, GroupInvariant, PTL

------------------------------------------------------------------------------
(* The findings *)

Reported(members) == Fits(members) /\ Hubs(members) # {}

\* The third loop has reported each component it is through with, if it is to
\* be reported, for one hub, and no other.
FlagInv ==
    /\ pc \notin {"flag", "done"} => findings = {}
    /\ pc \in {"sender", "receiver"} => todo = {}
    /\ pc = "group" => todo = {r \in Accounts : components[r] # {}}
    /\ pc = "done" => todo = {}
    /\ todo \subseteq {r \in Accounts : components[r] # {}}
    /\ \A f \in findings : \E r \in Accounts \ todo :
          /\ f.account \in components[r]
          /\ Reported(components[r])
          /\ f.evidence = Evidence(components[r])
    /\ \A r \in Accounts \ todo :
          pc \in {"flag", "done"} /\ Reported(components[r]) =>
              \A a \in components[r] : \E f \in findings : f.account = a
    /\ \A f, g \in findings, r \in Accounts :
          f.account \in components[r] /\ g.account \in components[r] => f.hub = g.hub

\* The accounts a member receives from are members: no transfer comes from
\* outside.
LEMMA SendersAreMembers ==
    ASSUME TypeOK, NEW C \in SUBSET Accounts, Isolated(C, Len(edges)),
           NEW h \in C
    PROVE  InComponentSenders(C, h) = Senders(h)
<1> SUFFICES ASSUME NEW s \in Accounts, NEW k \in 1 .. Len(edges),
                    edges[k] = [sender |-> s, receiver |-> h]
             PROVE  s \in C
    BY DEF InComponentSenders, Senders
<1> QED BY DEF Isolated

\* One sender more or less, as the account is among them or not.
LEMMA OthersCounted ==
    ASSUME NEW h \in Accounts
    PROVE  /\ Cardinality(Senders(h)) \in Nat /\ Cardinality(Senders(h) \ {h}) \in Nat
           /\ h \in Senders(h) => Cardinality(Senders(h) \ {h}) = Cardinality(Senders(h)) - 1
           /\ h \notin Senders(h) => Senders(h) \ {h} = Senders(h)
<1>1. IsFiniteSet(Senders(h)) /\ IsFiniteSet(Senders(h) \ {h})
    BY MuleAssumption, FS_Subset DEF Senders
<1> QED BY <1>1, FS_CardinalityType, FS_RemoveElement

\* What the code reports is what is suspicious, and what a transfer to itself
\* makes it take for that.
LEMMA ReportedSuspicious ==
    ASSUME TypeOK, NEW C \in SUBSET Accounts, Isolated(C, Len(edges))
    PROVE  /\ Suspicious(C) => Reported(C)
           /\ Reported(C) => Suspicious(C) \/ PaysItself(C)
<1>1. Cardinality(C) \in Nat /\ MinHubIndegree \in Nat
    BY MuleAssumption, FS_Subset, FS_CardinalityType
<1>2. Fits(C) <=> RightSize(C)
    BY <1>1, MuleAssumption DEF Fits, RightSize
<1>3. Hubs(C) # {} <=> \E h \in C : Cardinality(Senders(h)) >= MinHubIndegree
    BY SendersAreMembers DEF Hubs
<1>4. ASSUME NEW h \in C
      PROVE  /\ Cardinality(Senders(h) \ {h}) >= MinHubIndegree =>
                    Cardinality(Senders(h)) >= MinHubIndegree
             /\ Cardinality(Senders(h)) >= MinHubIndegree =>
                    \/ Cardinality(Senders(h) \ {h}) >= MinHubIndegree
                    \/ h \in Senders(h) /\ Cardinality(Senders(h) \ {h}) = MinHubIndegree - 1
    <2>1. h \in Accounts
        OBVIOUS
    <2>2. CASE h \in Senders(h)
        BY <1>1, <2>1, <2>2, OthersCounted
    <2>3. CASE h \notin Senders(h)
        BY <1>1, <2>1, <2>3, OthersCounted
    <2> QED BY <2>2, <2>3
<1> QED BY <1>2, <1>3, <1>4 DEF Reported, Suspicious, PaysItself

\* A community is isolated, and it is the community of each of its members.
LEMMA CommunityIsolated ==
    ASSUME TypeOK, NEW r \in Accounts
    PROVE  /\ Community(r) \in SUBSET Accounts
           /\ r \in Community(r)
           /\ Isolated(Community(r), Len(edges))
<1>1. \A k \in 1 .. Len(edges) : edges[k].sender \in Accounts /\ edges[k].receiver \in Accounts
    BY EdgeEnds
<1> QED BY <1>1 DEF Community, Isolated

LEMMA CommunityOfMember ==
    ASSUME TypeOK, NEW r \in Accounts, NEW a \in Community(r)
    PROVE  Community(a) = Community(r)
<1>1. a \in Accounts
    BY CommunityIsolated
<1>2. Community(a) \subseteq Community(r)
    BY <1>1, CommunityIsolated DEF Community
<1>3. r \in Community(a)
    <2> SUFFICES ASSUME r \notin Community(a) PROVE FALSE
        OBVIOUS
    <2> DEFINE S == Accounts \ Community(a)
    <2>1. Isolated(Community(a), Len(edges)) /\ a \in Community(a)
        BY <1>1, CommunityIsolated
    <2>2. Isolated(S, Len(edges))
        BY <2>1, EdgeEnds DEF Isolated
    <2>3. a \in S
        BY <2>2 DEF Community
    <2> QED BY <2>1, <2>3
<1>4. Community(r) \subseteq Community(a)
    BY <1>1, <1>3, CommunityIsolated DEF Community
<1> QED BY <1>2, <1>4

\* Two components with a member in common are one.
LEMMA DisjointComponents ==
    ASSUME ForestInv, GroupInv, pc \in {"flag", "done"},
           NEW r \in Accounts, NEW q \in Accounts,
           components[r] \cap components[q] # {}
    PROVE  r = q
<1>1. PICK a : a \in components[r] /\ a \in components[q]
    OBVIOUS
<1>2. components[r] = Community(r) /\ components[q] = Community(q)
    BY <1>1, ComponentIsCommunity
<1>3. Community(r) = Community(q)
    BY <1>1, <1>2, CommunityOfMember DEF ForestInv
<1>4. r \in components[q] /\ IsRoot(q) /\ q \in components[q]
    BY <1>2, <1>3, CommunityIsolated DEF ForestInv, GroupInv
<1>5. IsRoot(r)
    BY <1>1 DEF GroupInv
<1>6. SameTree(r, q)
    <2>1. \A S \in SUBSET Accounts : Whole(S) <=> Isolated(S, Len(edges))
        BY DEF ForestInv, ForestIsGraph, United
    <2>2. q \in Community(r) /\ r \in Community(q)
        BY <1>2, <1>3, <1>4
    <2> QED BY <2>1, <2>2 DEF SameTree, Community
<1> QED BY <1>4, <1>5, <1>6, OneRoot DEF ForestInv

LEMMA FlagStep ==
    ASSUME ForestInv, GroupInv, FlagInv, NEW r \in Accounts, Flag(r)
    PROVE  FlagInv'
<1> USE DEF ForestInv
<1> DEFINE members == components[r]
<1>1. /\ pc = "flag" /\ pc' = "flag" /\ r \in todo /\ todo' = todo \ {r}
      /\ components' = components /\ edges' = edges
    BY DEF Flag
<1>2. \A C : /\ Reported(C)' <=> Reported(C)
             /\ Evidence(C)' = Evidence(C)
    BY <1>1 DEF Reported, Fits, Hubs, InComponentSenders, Evidence
<1>3. members # {}
    BY <1>1 DEF FlagInv
<1>4. ASSUME NEW f \in findings PROVE f.account \notin members
    <2>1. PICK q \in Accounts \ todo : f.account \in components[q]
        BY DEF FlagInv
    <2>2. q # r
        BY <1>1, <2>1
    <2> QED BY <1>1, <2>1, <2>2, DisjointComponents
<1>5. CASE ~Reported(members)
    <2>1. findings' = findings
        BY <1>5 DEF Flag, Reported
    <2> QED BY <1>1, <1>2, <1>5, <2>1 DEF FlagInv
<1>6. CASE Reported(members)
    <2>1. PICK hub \in Hubs(members) :
              findings' = findings \cup Reports(members, hub)
        BY <1>6 DEF Flag, Reported
    <2>2. \A f \in Reports(members, hub) :
              f.account \in members /\ f.hub = hub /\ f.evidence = Evidence(members)
        BY DEF Reports
    <2>3. \A a \in members : \E f \in Reports(members, hub) : f.account = a
        <3> SUFFICES ASSUME NEW a \in members
                     PROVE  \E f \in Reports(members, hub) : f.account = a
            OBVIOUS
        <3>1. [account |-> a, hub |-> hub, evidence |-> Evidence(members)]
                  \in Reports(members, hub)
            BY DEF Reports
        <3> QED BY <3>1
    <2>4. \A f \in findings' : \E q \in Accounts \ todo' :
              /\ f.account \in components[q]
              /\ Reported(components[q])
              /\ f.evidence = Evidence(components[q])
        BY <1>1, <1>6, <2>1, <2>2 DEF FlagInv
    <2>5. \A q \in Accounts \ todo' : Reported(components[q]) =>
              \A a \in components[q] : \E f \in findings' : f.account = a
        BY <1>1, <2>1, <2>3 DEF FlagInv
    <2>6. ASSUME NEW f \in findings', NEW g \in findings', NEW q \in Accounts,
                 f.account \in components[q], g.account \in components[q]
          PROVE  f.hub = g.hub
        <3>1. CASE q = r
            BY <1>4, <2>1, <2>2, <2>6, <3>1
        <3>2. CASE q # r
            <4>1. f.account \notin members /\ g.account \notin members
                BY <1>1, <2>6, <3>2, DisjointComponents
            <4>2. f \in findings /\ g \in findings
                BY <2>1, <2>2, <4>1
            <4> QED BY <2>6, <4>2 DEF FlagInv
        <3> QED BY <3>1, <3>2
    <2>7. todo' \subseteq {q \in Accounts : components'[q] # {}}
        BY <1>1 DEF FlagInv
    <2> QED BY <1>1, <1>2, <2>4, <2>5, <2>6, <2>7 DEF FlagInv
<1> QED BY <1>5, <1>6

LEMMA FlagInvariant == Spec => []FlagInv
<1>1. Init => FlagInv
    BY DEF Init, FlagInv
<1>2. ForestInv /\ GroupInv /\ FlagInv /\ [Next]_vars => FlagInv'
    <2> SUFFICES ASSUME ForestInv, GroupInv, FlagInv, [Next]_vars PROVE FlagInv'
        OBVIOUS
    <2> USE DEF ForestInv
    <2>1. CASE Halve \/ FindReceiver \/ Union
        <3>1. /\ pc \notin {"flag", "done"} /\ findings' = findings /\ findings = {}
              /\ todo' = todo /\ components' = components /\ edges' = edges
            BY <2>1 DEF Halve, FindReceiver, Union, FlagInv
        <3>2. /\ pc' \notin {"flag", "done"}
              /\ pc' \in {"sender", "receiver"} => pc \in {"sender", "receiver"}
              /\ pc' = "group" => pc = "group" \/ pc = "receiver"
            BY <2>1 DEF Halve, FindReceiver, Union, NextEdge
        <3>3. pc = "receiver" => todo = {} /\ components = [a \in Accounts |-> {}]
            BY DEF FlagInv, GroupInv
        <3> QED BY <3>1, <3>2, <3>3 DEF FlagInv
    <2>2. CASE Group
        <3>1. /\ pc = "group" /\ pc' \in {"group", "flag"} /\ findings' = {}
              /\ todo' = todo \cup {x} /\ edges' = edges /\ x \in Accounts
            BY <2>2 DEF Group, NextEdge, FlagInv, TypeOK
        <3>2. \A r \in Accounts : components'[r] # {} <=> components[r] # {} \/ r = x
            BY <2>2 DEF Group, Joined, TypeOK
        <3>3. todo' = {r \in Accounts : components'[r] # {}}
            BY <3>1, <3>2 DEF FlagInv
        <3>4. \A r \in Accounts \ todo' : components'[r] = {}
            BY <3>3
        <3> QED BY <3>1, <3>3, <3>4 DEF FlagInv
    <2>3. ASSUME NEW r \in Accounts, Flag(r)
          PROVE  FlagInv'
        BY <2>3, FlagStep
    <2>4. CASE Finish \/ UNCHANGED vars
        <3>1. /\ findings' = findings /\ todo' = todo /\ components' = components
              /\ edges' = edges
              /\ pc' = pc \/ (pc = "flag" /\ pc' = "done" /\ todo = {})
            BY <2>4 DEF Finish, vars
        <3>2. \A C : /\ Reported(C)' <=> Reported(C)
                     /\ Evidence(C)' = Evidence(C)
            BY <3>1 DEF Reported, Fits, Hubs, InComponentSenders, Evidence
        <3> QED BY <3>1, <3>2 DEF FlagInv
    <2> QED BY <2>1, <2>2, <2>3, <2>4 DEF Next, Returned
<1> QED BY <1>1, <1>2, ForestInvariant, GroupInvariant, PTL DEF Spec

\* Whoever is in a suspicious community is flagged in the end, and nobody else
\* but the members of one whose hub pays itself.
THEOREM FlagsCorrect == Spec => []FlagsTheSuspicious
<1>1. ForestInv /\ GroupInv /\ CommunitiesFound /\ FlagInv => FlagsTheSuspicious
    <2> SUFFICES ASSUME ForestInv, GroupInv, CommunitiesFound, FlagInv, pc = "done",
                        NEW a \in Touched
                 PROVE  /\ Suspicious(Community(a)) => \E f \in findings : f.account = a
                        /\ (\E f \in findings : f.account = a) =>
                               Suspicious(Community(a)) \/ PaysItself(Community(a))
        BY DEF FlagsTheSuspicious
    <2> USE DEF ForestInv
    <2>1. ASSUME NEW r \in Accounts, a \in components[r]
          PROVE  /\ Suspicious(Community(a)) => Reported(components[r])
                 /\ Reported(components[r]) =>
                        Suspicious(Community(a)) \/ PaysItself(Community(a))
        <3>1. components[r] = Community(r)
            BY <2>1, ComponentIsCommunity
        <3>2. Community(a) = Community(r)
            BY <2>1, <3>1, CommunityOfMember
        <3> QED BY <3>1, <3>2, CommunityIsolated, ReportedSuspicious
    <2>2. ASSUME NEW f \in findings, f.account = a
          PROVE  Suspicious(Community(a)) \/ PaysItself(Community(a))
        <3>1. PICK r \in Accounts : a \in components[r] /\ Reported(components[r])
            BY <2>2 DEF FlagInv
        <3> QED BY <2>1, <3>1
    <2>3. ASSUME Suspicious(Community(a))
          PROVE  \E f \in findings : f.account = a
        <3>1. PICK r \in Accounts : a \in components[r]
            BY DEF CommunitiesFound
        <3> QED BY <2>1, <2>3, <3>1 DEF FlagInv
    <2> QED BY <2>2, <2>3
<1> QED BY <1>1, ForestInvariant, GroupInvariant, CommunitiesCorrect, FlagInvariant, PTL

\* The evidence of a finding is every transfer that touches the community.
THEOREM EvidenceCorrect == Spec => []EvidenceIsTheCluster
<1>1. ForestInv /\ GroupInv /\ FlagInv => EvidenceIsTheCluster
    <2> SUFFICES ASSUME ForestInv, GroupInv, FlagInv, NEW f \in findings
                 PROVE  f.evidence = {k \in 1 .. Len(edges) :
                                        Ends(k) \cap Community(f.account) # {}}
        BY DEF EvidenceIsTheCluster
    <2> USE DEF ForestInv
    <2>1. pc \in {"flag", "done"}
        BY DEF FlagInv
    <2>2. PICK r \in Accounts : /\ f.account \in components[r]
                                /\ f.evidence = Evidence(components[r])
        BY DEF FlagInv
    <2>3. components[r] = Community(r) /\ Community(f.account) = Community(r)
        BY <2>1, <2>2, ComponentIsCommunity, CommunityOfMember
    <2> QED BY <2>2, <2>3, CommunityIsolated DEF Evidence, Ends, Isolated
<1> QED BY <1>1, ForestInvariant, GroupInvariant, FlagInvariant, PTL

\* A community is reported for one hub.
THEOREM OneReportCorrect == Spec => []OneReport
<1>1. ForestInv /\ GroupInv /\ FlagInv => OneReport
    <2> SUFFICES ASSUME ForestInv, GroupInv, FlagInv, NEW f \in findings,
                        NEW g \in findings, g.account \in Community(f.account)
                 PROVE  g.hub = f.hub
        BY DEF OneReport
    <2> USE DEF ForestInv
    <2>1. pc \in {"flag", "done"}
        BY DEF FlagInv
    <2>2. PICK r \in Accounts : f.account \in components[r]
        BY DEF FlagInv
    <2>3. components[r] = Community(r) /\ Community(f.account) = Community(r)
        BY <2>1, <2>2, ComponentIsCommunity, CommunityOfMember
    <2> QED BY <2>2, <2>3 DEF FlagInv
<1> QED BY <1>1, ForestInvariant, GroupInvariant, FlagInvariant, PTL

==============================================================================
