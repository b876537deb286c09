--------------------------- MODULE ClusterProofs ---------------------------
(***************************************************************************)
(* Proofs about Cluster, for diagrams of any finite size and any depth.    *)
(***************************************************************************)
EXTENDS Cluster, FiniteSetTheorems, TLAPS

USE NodesAssumption, RootSetsAssumption, MaxDepthAssumption, MaxEdgesAssumption

\* A sequence stays one of the set when the set grows.
LEMMA SeqGrows ==
    ASSUME NEW S, NEW T, S \subseteq T, NEW s \in Seq(S)
    PROVE  s \in Seq(T)
  OBVIOUS

\* The neighbours of a node, ranked, are what Visit expects them to be.
LEMMA NeighboursType ==
    ASSUME edges \in Seq(Edge), NEW n
    PROVE  Neighbours(n) \subseteq [node : Nodes, rank : Nat]
<1>1. \A i \in DOMAIN edges : edges[i] \in Edge /\ i \in Nat /\ Len(edges) + i \in Nat
  OBVIOUS
<1> QED BY <1>1 DEF Neighbours, Edge

\* An order of a set of nodes is a sequence of them.
LEMMA OrdersType ==
    ASSUME NEW S, S \subseteq Nodes, NEW s \in Orders(S)
    PROVE  s \in Seq(S)
<1>1. Cardinality(S) \in Nat
  BY FS_Subset, FS_CardinalityType
<1>2. s \in [1 .. Cardinality(S) -> S]
  BY DEF Orders
<1> QED BY <1>1, <1>2

\* How far the descent and the climb have come: only the nodes in "down" may
\* have children outside, and only those in "up" a parent outside.
Descended ==
    /\ place = "seed" => included = {} /\ down = {} /\ pending = {}
    /\ place \in {"climb", "done"} => down = {} /\ pending = {}
    /\ place \in {"start", "walk"} => Children(included \ down) \subseteq included

Climbed ==
    place \in {"climb", "done"} =>
        \A n \in included \ up : parent[n] # None => parent[n] \in included

ClimbDone == place = "done" => up = {}

ClusterInv == TypeOK /\ Descended /\ Climbed /\ ClimbDone /\ DescendantsKept

\* What the walk of Compute keeps true, from the seed to the containers added at
\* the end.
THEOREM ClusterInvariant == Spec => []ClusterInv
<1>1. Init => ClusterInv
  BY DEF Init, ClusterInv, TypeOK, Descended, Climbed, ClimbDone, DescendantsKept
<1>2. ClusterInv /\ [Next]_vars => ClusterInv'
  <2> SUFFICES ASSUME ClusterInv, [Next]_vars PROVE ClusterInv'
    OBVIOUS
  <2> USE DEF ClusterInv
  <2>1. CASE Seed
    <3>1. included \subseteq included' /\ included' \subseteq Nodes
      BY <2>1 DEF Seed, Descended, TypeOK
    <3>2. frontier' \in Seq(included') /\ next' \in Seq(included')
      BY <2>1, <3>1, SeqGrows DEF Seed, queues, TypeOK
    <3>3. TypeOK'
      BY <2>1, <3>1, <3>2 DEF Seed, input, queues, TypeOK, Descended
    <3>4. Descended' /\ Climbed' /\ ClimbDone' /\ DescendantsKept'
      BY <2>1 DEF Seed, input, queues, Descended, Climbed, ClimbDone, DescendantsKept, Children
    <3> QED BY <3>3, <3>4
  <2>2. CASE Descend
    <3>1. included \subseteq included' /\ included' \subseteq Nodes /\ down' \subseteq included'
      BY <2>2 DEF Descend, TypeOK, Children
    <3>2. frontier' \in Seq(included') /\ next' \in Seq(included')
      BY <2>2, <3>1, SeqGrows DEF Descend, queues, TypeOK
    <3>3. TypeOK'
      BY <2>2, <3>1, <3>2 DEF Descend, input, queues, TypeOK
    <3>4. place \in {"start", "walk"}
      BY <2>2 DEF Descend, Descended, TypeOK
    <3>5. Descended'
      BY <2>2, <3>4 DEF Descend, input, Descended, Children
    <3>6. Climbed' /\ ClimbDone' /\ DescendantsKept'
      BY <2>2, <3>4 DEF Descend, Climbed, ClimbDone, DescendantsKept
    <3> QED BY <3>3, <3>5, <3>6
  <2>3. CASE Start
    BY <2>3, OrdersType DEF Start, input, TypeOK, Descended, Climbed, ClimbDone, DescendantsKept, Children
  <2>4. CASE Visit
    BY <2>4, NeighboursType DEF Visit, input, TypeOK, Descended, Climbed, ClimbDone, DescendantsKept, Children
  <2>5. CASE Look
    <3>1. PICK nb \in pending : /\ pending' = pending \ {nb}
                               /\ IF nb.node \in included
                                  THEN UNCHANGED <<included, down, frontier, next>>
                                  ELSE /\ included' = included \cup {nb.node}
                                       /\ down' = {nb.node}
                                       /\ IF Whole
                                          THEN frontier' = Append(frontier, nb.node) /\ UNCHANGED next
                                          ELSE next' = Append(next, nb.node) /\ UNCHANGED frontier
      BY <2>5 DEF Look
    <3>2. place \in {"start", "walk"} /\ nb.node \in Nodes /\ pending' \subseteq pending
      BY <3>1 DEF Descended, TypeOK
    <3>3. included \subseteq included' /\ included' \subseteq Nodes /\ down' \subseteq included'
      BY <3>1, <3>2 DEF TypeOK
    <3>4. frontier \in Seq(included') /\ next \in Seq(included')
      BY <3>3, SeqGrows DEF TypeOK
    <3>5. frontier' \in Seq(included') /\ next' \in Seq(included')
      <4>1. CASE nb.node \in included
        BY <3>1, <3>4, <4>1
      <4>2. CASE nb.node \notin included
        <5>1. nb.node \in included'
          BY <3>1, <4>2
        <5>2. Append(frontier, nb.node) \in Seq(included') /\ Append(next, nb.node) \in Seq(included')
          BY <3>4, <5>1
        <5>3. frontier' \in {frontier, Append(frontier, nb.node)} /\ next' \in {next, Append(next, nb.node)}
          BY <3>1, <4>2
        <5> QED BY <3>4, <5>2, <5>3
      <4> QED BY <4>1, <4>2
    <3>6. TypeOK'
      BY <2>5, <3>2, <3>3, <3>5 DEF Look, input, TypeOK
    <3>7. Descended'
      BY <2>5, <3>1, <3>2 DEF Look, input, Descended, Children
    <3>8. Climbed' /\ ClimbDone' /\ DescendantsKept'
      BY <2>5, <3>2 DEF Look, Climbed, ClimbDone, DescendantsKept
    <3> QED BY <3>6, <3>7, <3>8
  <2>6. CASE Hop
    BY <2>6 DEF Hop, input, TypeOK, Descended, Climbed, ClimbDone, DescendantsKept, Children
  <2>7. CASE Walked
    BY <2>7 DEF Walked, input, queues, TypeOK, Descended, Climbed, ClimbDone, DescendantsKept, Children
  <2>8. CASE Climb
    BY <2>8 DEF Climb, input, queues, TypeOK, Descended, Climbed, ClimbDone, DescendantsKept, Children, Parents
  <2>9. CASE Collect
    BY <2>9 DEF Collect, input, queues, TypeOK, Descended, Climbed, ClimbDone, DescendantsKept, Children
  <2>10. CASE UNCHANGED vars
    BY <2>10 DEF vars, input, queues, TypeOK, Descended, Climbed, ClimbDone, DescendantsKept, Children
  <2> QED BY <2>1, <2>2, <2>3, <2>4, <2>5, <2>6, <2>7, <2>8, <2>9, <2>10 DEF Next
<1> QED BY <1>1, <1>2, PTL DEF Spec

\* The walk keeps its types: it includes nodes of the diagram only.
THEOREM TypeCorrect == Spec => []TypeOK
BY ClusterInvariant, PTL DEF ClusterInv

\* addDescendants at every place where a node is included for itself suffices
\* to bring all that lies in such a node along.
THEOREM KeepsDescendants == Spec => []DescendantsKept
BY ClusterInvariant, PTL DEF ClusterInv

\* One pass of addAncestors over the included nodes leaves no container out.
THEOREM KeepsContainers == Spec => []ContainersKept
<1>1. ClusterInv => ContainersKept
  BY DEF ClusterInv, Climbed, ClimbDone, ContainersKept
<1> QED BY <1>1, ClusterInvariant, PTL
-----------------------------------------------------------------------------

\* A set of numbers has a least one.
LEMMA LeastNumber ==
    ASSUME NEW T, T \subseteq Nat, T # {}
    PROVE  \E n \in T : \A m \in T : n <= m
<1>1. PICK n \in T : \A m \in T : ~ (<<m, n>> \in OpToRel(<, Nat))
  BY WFMin, NatLessThanWellFounded
<1>2. \A m \in T : ~ (m < n)
  BY <1>1 DEF OpToRel
<1> QED BY <1>2

\* Induction, stated of a set.
LEMMA SetInduction ==
    ASSUME NEW T, 0 \in T, \A n \in Nat : n \in T => n + 1 \in T
    PROVE  Nat \subseteq T
<1> SUFFICES ASSUME Nat \ T # {} PROVE FALSE
  OBVIOUS
<1>1. PICK n \in Nat \ T : \A m \in Nat \ T : n <= m
  BY LeastNumber
<1>2. n # 0 /\ n - 1 \in Nat /\ n = (n - 1) + 1
  BY <1>1
<1>3. n - 1 \in T
  BY <1>1, <1>2
<1> QED BY <1>2, <1>3

\* A function whose values are all of a type.
LEMMA FcnType ==
    ASSUME NEW f, NEW S, NEW V, f = [x \in S |-> f[x]], \A x \in S : f[x] \in V
    PROVE  f \in [S -> V]
OBVIOUS

\* What Reach and ReachTop are built on: a function can be iterated.
LEMMA Iterates ==
    ASSUME NEW U, NEW b \in U, NEW s \in [U -> U]
    PROVE  \E f \in [Nat -> U] : f[0] = b /\ \A k \in Nat : f[k + 1] = s[f[k]]
<1> DEFINE P(n) == {g \in [0 .. n -> U] : g[0] = b /\ \A k \in 0 .. n - 1 : g[k + 1] = s[g[k]]}
<1>1. \A n \in Nat : P(n) # {}
  <2> DEFINE T == {n \in Nat : P(n) # {}}
  <2>1. 0 \in T
    <3>1. [k \in 0 .. 0 |-> b] \in P(0)
      OBVIOUS
    <3> QED BY <3>1
  <2>2. \A n \in Nat : n \in T => n + 1 \in T
    <3> SUFFICES ASSUME NEW n \in Nat, NEW g \in P(n) PROVE P(n + 1) # {}
      OBVIOUS
    <3> DEFINE h == [k \in 0 .. n + 1 |-> IF k = n + 1 THEN s[g[n]] ELSE g[k]]
    <3>1. h \in [0 .. n + 1 -> U]
      OBVIOUS
    <3>2. h[0] = b
      OBVIOUS
    <3>3. ASSUME NEW k \in 0 .. (n + 1) - 1 PROVE h[k + 1] = s[h[k]]
      <4>1. CASE k = n
        BY <4>1
      <4>2. CASE k # n
        <5>1. k \in 0 .. n - 1
          BY <4>2
        <5>2. h[k + 1] = g[k + 1] /\ h[k] = g[k]
          BY <5>1
        <5> QED BY <5>1, <5>2
      <4> QED BY <4>1, <4>2
    <3>4. h \in P(n + 1)
      BY <3>1, <3>2, <3>3
    <3> QED BY <3>4
  <2>3. Nat \subseteq T
    <3> HIDE DEF T
    <3> QED BY <2>1, <2>2, SetInduction
  <2> QED BY <2>3
<1>2. ASSUME NEW m \in Nat, NEW n \in Nat, NEW g \in P(m), NEW h \in P(n)
      PROVE  \A k \in Nat : k <= m /\ k <= n => g[k] = h[k]
  <2> DEFINE T == {k \in Nat : k <= m /\ k <= n => g[k] = h[k]}
  <2>1. 0 \in T
    OBVIOUS
  <2>2. \A k \in Nat : k \in T => k + 1 \in T
    <3> SUFFICES ASSUME NEW k \in Nat, k \in T, k + 1 <= m, k + 1 <= n PROVE g[k + 1] = h[k + 1]
      OBVIOUS
    <3>1. k \in 0 .. m - 1 /\ k \in 0 .. n - 1 /\ g[k] = h[k]
      OBVIOUS
    <3> QED BY <3>1
  <2>3. Nat \subseteq T
    <3> HIDE DEF T
    <3> QED BY <2>1, <2>2, SetInduction
  <2> QED BY <2>3
<1> DEFINE c == [n \in Nat |-> CHOOSE g : g \in P(n)]
<1> DEFINE f == [n \in Nat |-> c[n][n]]
<1>3. \A n \in Nat : c[n] \in P(n)
  <2> HIDE DEF P
  <2> QED BY <1>1
<1> HIDE DEF c
<1>4. f \in [Nat -> U]
  BY <1>3
<1>5. f[0] = b
  BY <1>3
<1>6. ASSUME NEW k \in Nat PROVE f[k + 1] = s[f[k]]
  <2>1. c[k] \in P(k) /\ c[k + 1] \in P(k + 1)
    BY <1>3
  <2>2. c[k][k] = c[k + 1][k]
    <3> HIDE DEF P
    <3> QED BY <1>2, <2>1
  <2>3. c[k + 1][k + 1] = s[c[k + 1][k]]
    <3>1. k \in 0 .. (k + 1) - 1
      OBVIOUS
    <3> QED BY <2>1, <3>1
  <2> QED BY <2>2, <2>3
<1> QED BY <1>4, <1>5, <1>6

\* A set that grows as long as it changes stops within as many steps as there
\* are elements.
LEMMA Saturation ==
    ASSUME NEW S, IsFiniteSet(S), NEW f \in [Nat -> SUBSET S],
           \A k \in Nat : f[k] \subseteq f[k + 1],
           \A k \in Nat : f[k + 1] = f[k] => f[k + 2] = f[k + 1]
    PROVE  f[Cardinality(S) + 1] = f[Cardinality(S)]
<1> DEFINE T == {k \in Nat : f[k + 1] = f[k] \/ Cardinality(f[k + 1]) >= k + 1}
<1>1. \A k \in Nat : IsFiniteSet(f[k]) /\ Cardinality(f[k]) \in Nat /\ Cardinality(f[k]) <= Cardinality(S)
  BY FS_Subset, FS_CardinalityType
<1>2. ASSUME NEW k \in Nat, f[k + 1] # f[k] PROVE Cardinality(f[k + 1]) > Cardinality(f[k])
  <2>1. k + 1 \in Nat
    OBVIOUS
  <2>2. f[k] \in SUBSET f[k + 1] /\ IsFiniteSet(f[k + 1])
    BY <1>1, <2>1
  <2>3. Cardinality(f[k]) <= Cardinality(f[k + 1]) /\ Cardinality(f[k]) # Cardinality(f[k + 1])
    BY <1>2, <2>2, FS_Subset
  <2> QED BY <1>1, <2>1, <2>3
<1>3. 0 \in T
  BY <1>1, <1>2
<1>4. \A k \in Nat : k \in T => k + 1 \in T
  <2> SUFFICES ASSUME NEW k \in Nat, k \in T PROVE k + 1 \in T
    OBVIOUS
  <2>1. k + 1 \in Nat /\ k + 2 \in Nat /\ (k + 1) + 1 = k + 2
    OBVIOUS
  <2>2. CASE f[k + 1] = f[k]
    BY <2>1, <2>2
  <2>3. CASE f[k + 2] # f[k + 1] /\ Cardinality(f[k + 1]) >= k + 1
    <3>1. Cardinality(f[k + 2]) > Cardinality(f[k + 1])
      BY <1>2, <2>1, <2>3
    <3>2. Cardinality(f[k + 2]) >= k + 2
      BY <1>1, <2>1, <2>3, <3>1
    <3> QED BY <2>1, <3>2
  <2> QED BY <2>1, <2>2, <2>3
<1>5. Nat \subseteq T
  <2> HIDE DEF T
  <2> QED BY <1>3, <1>4, SetInduction
<1>6. Cardinality(S) \in Nat /\ Cardinality(S) + 1 \in Nat
  BY FS_CardinalityType
<1>7. Cardinality(S) \in T
  BY <1>5, <1>6
<1> QED BY <1>1, <1>6, <1>7
-----------------------------------------------------------------------------

\* Every node with an edge to or from a node of S.
LinkedTo(S) == {n \in Nodes : \E m \in S : Linked(m, n)}

\* The nodes that wait in line themselves when they are included.
InLine(m) == parent[m] = None \/ m \in Within(roots)

LinkedTop(S) == {n \in Nodes : \E m \in S : Linked(m, n) /\ InLine(m)}

\* What lies in nodes are nodes.
LEMMA WithinType == \A S : Within(S) \subseteq Nodes
BY DEF Within

\* Within(S) is the least set that holds S and is closed under descent.
LEMMA WithinLeast ==
    /\ \A S \in SUBSET Nodes : S \subseteq Within(S)
    /\ \A S : Children(Within(S)) \subseteq Within(S)
    /\ \A S, T \in SUBSET Nodes : S \subseteq T /\ Children(T) \subseteq T => Within(S) \subseteq T
BY DEF Within, Children

\* Reach satisfies the equation that defines it: the nodes one hop farther are
\* those linked to the nearer ones, and what lies in them.
LEMMA ReachSteps ==
    /\ Reach \in [Nat -> SUBSET Nodes]
    /\ Reach[0] = Within(roots)
    /\ \A k \in Nat : Reach[k + 1] = Reach[k] \cup Within(LinkedTo(Reach[k]))
<1> DEFINE s == [S \in SUBSET Nodes |-> S \cup Within(LinkedTo(S))]
<1> DEFINE Eq(f) == f = [k \in Nat |-> IF k = 0 THEN Within(roots)
               ELSE LET nearer == f[k - 1]
                    IN  nearer \cup Within({n \in Nodes : \E m \in nearer : Linked(m, n)})]
<1>1. PICK f \in [Nat -> SUBSET Nodes] : f[0] = Within(roots) /\ \A k \in Nat : f[k + 1] = s[f[k]]
  <2>1. s \in [SUBSET Nodes -> SUBSET Nodes] /\ Within(roots) \in SUBSET Nodes
    BY WithinType
  <2> DEFINE U == SUBSET Nodes
  <2>2. s \in [U -> U] /\ Within(roots) \in U
    BY <2>1
  <2>3. \E f \in [Nat -> U] : f[0] = Within(roots) /\ \A k \in Nat : f[k + 1] = s[f[k]]
    <3> HIDE DEF s, U
    <3> QED BY <2>2, Iterates
  <2> QED BY <2>3
<1>2. \A k \in Nat : f[k + 1] = f[k] \cup Within(LinkedTo(f[k]))
  BY <1>1
<1>3. ASSUME NEW k \in Nat, k # 0
      PROVE  f[k] = f[k - 1] \cup Within(LinkedTo(f[k - 1]))
  <2>1. k - 1 \in Nat /\ (k - 1) + 1 = k
    BY <1>3
  <2> QED BY <1>2, <2>1
<1>4. Eq(f)
  BY <1>1, <1>3 DEF LinkedTo
<1>5. Eq(Reach)
  <2>1. Reach = CHOOSE g : Eq(g)
    BY DEF Reach
  <2> HIDE DEF Eq
  <2> QED BY <1>4, <2>1
<1> DEFINE T == {k \in Nat : Reach[k] = f[k]}
<1>6. Reach = [k \in Nat |-> Reach[k]]
  BY <1>5
<1>7. Reach[0] = Within(roots)
  BY <1>5
<1>8. \A k \in Nat \ {0} : Reach[k] = Reach[k - 1] \cup Within(LinkedTo(Reach[k - 1]))
  BY <1>5 DEF LinkedTo
<1>9. ASSUME NEW k \in Nat
      PROVE  Reach[k + 1] = Reach[k] \cup Within(LinkedTo(Reach[k]))
  <2>1. k + 1 \in Nat \ {0} /\ (k + 1) - 1 = k
    OBVIOUS
  <2> QED BY <1>8, <2>1
<1> HIDE DEF Eq
<1>10. 0 \in T
  BY <1>1, <1>7
<1>11. ASSUME NEW k \in Nat, k \in T PROVE k + 1 \in T
  <2>1. Reach[k] = f[k] /\ k + 1 \in Nat
    BY <1>11
  <2>2. Reach[k + 1] = f[k + 1]
    BY <1>2, <1>9, <2>1
  <2> QED BY <2>1, <2>2
<1>12. Nat \subseteq T
  <2> HIDE DEF T
  <2> QED BY <1>10, <1>11, SetInduction
<1>13. \A k \in Nat : Reach[k] \in SUBSET Nodes
  BY <1>1, <1>12
<1>14. Reach \in [Nat -> SUBSET Nodes]
  BY <1>6, <1>13, FcnType
<1> QED BY <1>7, <1>9, <1>14

\* So does ReachTop, for the neighbours of the nodes in line.
LEMMA ReachTopSteps ==
    /\ ReachTop \in [Nat -> SUBSET Nodes]
    /\ ReachTop[0] = Within(roots)
    /\ \A k \in Nat : ReachTop[k + 1] = ReachTop[k] \cup LinkedTop(ReachTop[k])
<1> DEFINE s == [S \in SUBSET Nodes |-> S \cup LinkedTop(S)]
<1> DEFINE Eq(f) == f = [k \in Nat |-> IF k = 0 THEN Within(roots)
               ELSE LET nearer == f[k - 1]
                    IN  nearer \cup {n \in Nodes : \E m \in nearer :
                            Linked(m, n) /\ (parent[m] = None \/ m \in Within(roots))}]
<1>1. PICK f \in [Nat -> SUBSET Nodes] : f[0] = Within(roots) /\ \A k \in Nat : f[k + 1] = s[f[k]]
  <2>1. s \in [SUBSET Nodes -> SUBSET Nodes] /\ Within(roots) \in SUBSET Nodes
    BY WithinType DEF LinkedTop
  <2> DEFINE U == SUBSET Nodes
  <2>2. s \in [U -> U] /\ Within(roots) \in U
    BY <2>1
  <2>3. \E f \in [Nat -> U] : f[0] = Within(roots) /\ \A k \in Nat : f[k + 1] = s[f[k]]
    <3> HIDE DEF s, U
    <3> QED BY <2>2, Iterates
  <2> QED BY <2>3
<1>2. \A k \in Nat : f[k + 1] = f[k] \cup LinkedTop(f[k])
  BY <1>1
<1>3. ASSUME NEW k \in Nat, k # 0
      PROVE  f[k] = f[k - 1] \cup LinkedTop(f[k - 1])
  <2>1. k - 1 \in Nat /\ (k - 1) + 1 = k
    BY <1>3
  <2> QED BY <1>2, <2>1
<1>4. Eq(f)
  BY <1>1, <1>3 DEF LinkedTop, InLine
<1>5. Eq(ReachTop)
  <2>1. ReachTop = CHOOSE g : Eq(g)
    BY DEF ReachTop
  <2> HIDE DEF Eq
  <2> QED BY <1>4, <2>1
<1> DEFINE T == {k \in Nat : ReachTop[k] = f[k]}
<1>6. ReachTop = [k \in Nat |-> ReachTop[k]]
  BY <1>5
<1>7. ReachTop[0] = Within(roots)
  BY <1>5
<1>8. \A k \in Nat \ {0} : ReachTop[k] = ReachTop[k - 1] \cup LinkedTop(ReachTop[k - 1])
  BY <1>5 DEF LinkedTop, InLine
<1>9. ASSUME NEW k \in Nat
      PROVE  ReachTop[k + 1] = ReachTop[k] \cup LinkedTop(ReachTop[k])
  <2>1. k + 1 \in Nat \ {0} /\ (k + 1) - 1 = k
    OBVIOUS
  <2> QED BY <1>8, <2>1
<1> HIDE DEF Eq
<1>10. 0 \in T
  BY <1>1, <1>7
<1>11. ASSUME NEW k \in Nat, k \in T PROVE k + 1 \in T
  <2>1. ReachTop[k] = f[k] /\ k + 1 \in Nat
    BY <1>11
  <2>2. ReachTop[k + 1] = f[k + 1]
    BY <1>2, <1>9, <2>1
  <2> QED BY <2>1, <2>2
<1>12. Nat \subseteq T
  <2> HIDE DEF T
  <2> QED BY <1>10, <1>11, SetInduction
<1>13. \A k \in Nat : ReachTop[k] \in SUBSET Nodes
  BY <1>1, <1>12
<1>14. ReachTop \in [Nat -> SUBSET Nodes]
  BY <1>6, <1>13, FcnType
<1> QED BY <1>7, <1>9, <1>14

\* What is reached is closed under descent and holds the roots.
LEMMA ReachClosed ==
    \A k \in Nat : Reach[0] \subseteq Reach[k] /\ Children(Reach[k]) \subseteq Reach[k]
<1> DEFINE T == {k \in Nat : Reach[0] \subseteq Reach[k] /\ Children(Reach[k]) \subseteq Reach[k]}
<1>1. 0 \in T
  BY ReachSteps, WithinLeast
<1>2. ASSUME NEW k \in Nat, k \in T PROVE k + 1 \in T
  <2>1. k + 1 \in Nat /\ Reach[k + 1] = Reach[k] \cup Within(LinkedTo(Reach[k]))
    BY ReachSteps
  <2>2. Reach[0] \subseteq Reach[k + 1]
    BY <1>2, <2>1
  <2>3. Children(Reach[k + 1]) \subseteq Reach[k + 1]
    <3>1. Children(Reach[k]) \subseteq Reach[k]
      BY <1>2
    <3>2. Children(Within(LinkedTo(Reach[k]))) \subseteq Within(LinkedTo(Reach[k]))
      BY WithinLeast
    <3>3. Children(Reach[k + 1]) \subseteq Children(Reach[k]) \cup Children(Within(LinkedTo(Reach[k])))
      BY <2>1 DEF Children
    <3> QED BY <2>1, <3>1, <3>2, <3>3
  <2> QED BY <2>1, <2>2, <2>3
<1>3. Nat \subseteq T
  <2> HIDE DEF T
  <2> QED BY <1>1, <1>2, SetInduction
<1> QED BY <1>3

\* After as many hops as there are nodes, another one reaches no new node.
LEMMA ReachSaturates ==
    /\ Cardinality(Nodes) \in Nat
    /\ LinkedTo(Reach[Cardinality(Nodes)]) \subseteq Reach[Cardinality(Nodes)]
<1> DEFINE r == Reach
           N == Cardinality(Nodes)
<1>1. N \in Nat
  BY FS_CardinalityType
<1>2. r \in [Nat -> SUBSET Nodes] /\ \A k \in Nat : r[k + 1] = r[k] \cup Within(LinkedTo(r[k]))
  BY ReachSteps
<1>3. r[N + 1] = r[N]
  <2> HIDE DEF r, N
  <2>1. \A k \in Nat : r[k] \subseteq r[k + 1]
    BY <1>2
  <2>2. ASSUME NEW k \in Nat, r[k + 1] = r[k] PROVE r[k + 2] = r[k + 1]
    <3>1. k + 1 \in Nat /\ (k + 1) + 1 = k + 2
      OBVIOUS
    <3>2. r[k + 2] = r[k + 1] \cup Within(LinkedTo(r[k + 1]))
      BY <1>2, <3>1
    <3>3. r[k + 1] = r[k] \cup Within(LinkedTo(r[k]))
      BY <1>2
    <3> QED BY <2>2, <3>2, <3>3
  <2> QED BY <1>2, <2>1, <2>2, Saturation DEF N
<1>4. LinkedTo(Reach[N]) \subseteq Within(LinkedTo(Reach[N]))
  BY WithinLeast DEF LinkedTo
<1> QED BY <1>1, <1>2, <1>3, <1>4

\* The walk leaves the diagram alone, and with it what can be reached in it.
LEMMA ReachConstant ==
    ASSUME UNCHANGED input
    PROVE  /\ Reach' = Reach
           /\ ReachTop' = ReachTop
           /\ Within(roots)' = Within(roots)
           /\ \A m, n : Linked(m, n)' = Linked(m, n)
           /\ \A m : InLine(m)' = InLine(m)
<1>1. Within(roots)' = Within(roots)
  BY DEF input, Within, Children
<1>2. \A m, n : Linked(m, n)' = Linked(m, n)
  BY DEF input, Linked
<1>3. \A m : InLine(m)' = InLine(m)
  BY <1>1 DEF input, InLine
<1>4. Reach' = Reach
  BY DEF input, Reach, Within, Children, Linked
<1>5. ReachTop' = ReachTop
  BY DEF input, ReachTop, Within, Children, Linked
<1> QED BY <1>1, <1>2, <1>3, <1>4, <1>5

-----------------------------------------------------------------------------
\* The nodes that wait in a queue, and the neighbours still to be looked at.
Items(s) == {s[i] : i \in DOMAIN s}

Sought == {nb.node : nb \in pending}

\* How far from the roots the nodes of the frontier are, and those that may be
\* included now: one hop farther, unless the depth is exhausted.
Near == IF Whole THEN Cardinality(Nodes) ELSE hop

Far == IF Whole THEN Cardinality(Nodes) ELSE IF hop < depth THEN hop + 1 ELSE depth

Limit == IF Whole THEN Cardinality(Nodes) ELSE depth

\* The queues before the walk and in it.
Queues ==
    /\ place \in {"seed", "start"} => frontier = <<>> /\ pending = {} /\ next = <<>> /\ hop = 0
    /\ place = "walk" /\ Whole => next = <<>> /\ hop = 0
    /\ place = "walk" /\ ~ Whole => hop <= depth /\ (pending # {} => hop < depth)

\* No node is farther out than the hop the walk is in, the frontier one less.
NearEnough ==
    /\ place = "start" => included \subseteq Reach[0]
    /\ place = "walk" =>
          /\ included \subseteq Reach[Far]
          /\ Items(frontier) \subseteq Reach[Near]
          /\ \A n \in Sought : \E m \in Reach[Near] : Linked(m, n)

\* No node in line is forgotten: it waits in one of the queues until its
\* neighbours are included or sought.  Those in line for the next hop are not
\* among the nodes the hops so far had to reach.
FarEnough ==
    /\ place # "seed" => roots \subseteq included
    /\ place = "walk" =>
          /\ Within(roots) \cup ReachTop[hop] \subseteq included
          /\ Items(next) \cap ReachTop[hop] = {}
          /\ \A m \in included, n \in Nodes :
                InLine(m) /\ Linked(m, n) =>
                    m \in Items(frontier) \cup Items(next) \/ n \in included \cup Sought

WalkInv == ClusterInv /\ Queues /\ NearEnough /\ WithinDepth /\ FarEnough /\ TopLevelReached

\* What a queue holds, and how Append, Head and Tail change that.
LEMMA ItemsOfQueue ==
    ASSUME NEW S, NEW s \in Seq(S)
    PROVE  /\ Items(s) \subseteq S
           /\ \A x : Items(Append(s, x)) = Items(s) \cup {x}
           /\ s # <<>> => Items(s) = {Head(s)} \cup Items(Tail(s))
           /\ Items(<<>>) = {}
<1>1. Items(s) \subseteq S /\ Items(<<>>) = {}
  BY DEF Items
<1>2. ASSUME NEW x PROVE Items(Append(s, x)) = Items(s) \cup {x}
  <2>1. /\ DOMAIN Append(s, x) = 1 .. Len(s) + 1
        /\ \A i \in 1 .. Len(s) : Append(s, x)[i] = s[i]
        /\ Append(s, x)[Len(s) + 1] = x
        /\ DOMAIN s = 1 .. Len(s) /\ Len(s) \in Nat
    OBVIOUS
  <2> HIDE DEF Items
  <2>2. \A y : y \in Items(Append(s, x)) <=> \E i \in 1 .. Len(s) + 1 : y = Append(s, x)[i]
    BY <2>1 DEF Items
  <2>3. \A y : y \in Items(s) <=> \E i \in 1 .. Len(s) : y = s[i]
    BY <2>1 DEF Items
  <2>4. \A i : i \in 1 .. Len(s) + 1 <=> i \in 1 .. Len(s) \/ i = Len(s) + 1
    BY <2>1
  <2> QED BY <2>1, <2>2, <2>3, <2>4
<1>3. ASSUME s # <<>> PROVE Items(s) = {Head(s)} \cup Items(Tail(s))
  <2>1. /\ Len(s) \in Nat /\ Len(s) > 0 /\ DOMAIN s = 1 .. Len(s)
        /\ DOMAIN Tail(s) = 1 .. Len(s) - 1
        /\ \A i \in 1 .. Len(s) - 1 : Tail(s)[i] = s[i + 1]
        /\ Head(s) = s[1]
    BY <1>3
  <2>2. \A y : y \in Items(s) <=> \E i \in 1 .. Len(s) : y = s[i]
    BY <2>1 DEF Items
  <2>3. \A y : y \in Items(Tail(s)) <=> \E i \in 1 .. Len(s) - 1 : y = s[i + 1]
    BY <2>1 DEF Items
  <2>4. \A i : i \in 1 .. Len(s) <=> i = 1 \/ (i - 1 \in 1 .. Len(s) - 1 /\ i \in Nat)
    BY <2>1
  <2>5. \A y : y \in Items(s) => y = s[1] \/ y \in Items(Tail(s))
    BY <2>1, <2>2, <2>3, <2>4
  <2>6. \A y : y \in Items(Tail(s)) => y \in Items(s)
    BY <2>1, <2>2, <2>3
  <2>7. s[1] \in Items(s)
    BY <2>1, <2>2
  <2> QED BY <2>1, <2>5, <2>6, <2>7
<1> QED BY <1>1, <1>2, <1>3

\* An order of a set holds what is in the set.
LEMMA ItemsOfOrder ==
    ASSUME NEW S, S \subseteq Nodes, NEW s \in Orders(S)
    PROVE  Items(s) = S
<1>1. Cardinality(S) \in Nat
  BY FS_Subset, FS_CardinalityType
<1> QED BY <1>1 DEF Orders, Items

\* Visit looks at all nodes an edge joins to the visited one, and at no others.
LEMMA NeighboursLinked ==
    ASSUME edges \in Seq(Edge), NEW m \in Nodes
    PROVE  {nb.node : nb \in Neighbours(m)} = {n \in Nodes : Linked(m, n)}
<1>1. \A i \in DOMAIN edges : edges[i].v \in Nodes /\ edges[i].w \in Nodes
  <2>1. \A i \in DOMAIN edges : edges[i] \in Edge
    OBVIOUS
  <2> QED BY <2>1 DEF Edge
<1>2. ASSUME NEW n \in Nodes, Linked(m, n) PROVE \E nb \in Neighbours(m) : nb.node = n
  <2>1. PICK i \in DOMAIN edges : {edges[i].v, edges[i].w} = {m, n}
    BY <1>2 DEF Linked
  <2>2. CASE edges[i].v = m /\ edges[i].w = n
    <3>1. [node |-> edges[i].w, rank |-> i] \in Neighbours(m)
      BY <2>2 DEF Neighbours
    <3> QED BY <2>2, <3>1
  <2>3. CASE edges[i].w = m /\ edges[i].v = n
    <3>1. [node |-> edges[i].v, rank |-> Len(edges) + i] \in Neighbours(m)
      BY <2>3 DEF Neighbours
    <3> QED BY <2>3, <3>1
  <2> QED BY <2>1, <2>2, <2>3
<1>3. ASSUME NEW nb \in Neighbours(m) PROVE nb.node \in Nodes /\ Linked(m, nb.node)
  <2>1. CASE \E i \in DOMAIN edges : edges[i].v = m /\ nb = [node |-> edges[i].w, rank |-> i]
    BY <1>1, <2>1 DEF Linked
  <2>2. CASE \E i \in DOMAIN edges : edges[i].w = m /\ nb = [node |-> edges[i].v, rank |-> Len(edges) + i]
    BY <1>1, <2>2 DEF Linked
  <2> QED BY <2>1, <2>2 DEF Neighbours
<1> QED BY <1>2, <1>3

\* A hop from the frontier stays within the nodes that may be included, and so
\* does the descent from them.
LEMMA OneHop ==
    ASSUME TypeOK, ~ Whole => hop <= depth
    PROVE  /\ Near \in Nat /\ Far \in Nat /\ Limit \in Nat
           /\ Reach[Near] \subseteq Reach[Far]
           /\ Reach[0] \subseteq Reach[Near]
           /\ Children(Reach[Far]) \subseteq Reach[Far]
           /\ Whole \/ hop < depth =>
                \A m \in Reach[Near], n \in Nodes : Linked(m, n) => n \in Reach[Far]
           /\ ~ Whole /\ hop < depth => Far = hop + 1
           /\ Whole \/ hop = depth => Far = Limit
<1>1. Near \in Nat /\ Far \in Nat /\ Limit \in Nat
  BY ReachSaturates DEF Near, Far, Limit, TypeOK, Whole
<1>2. /\ ~ Whole /\ hop < depth => Far = hop + 1 /\ Near = hop
      /\ Whole \/ hop = depth => Far = Limit
      /\ Whole => Far = Cardinality(Nodes) /\ Near = Cardinality(Nodes)
      /\ ~ Whole /\ hop = depth => Far = Near
      /\ ~ Whole => hop < depth \/ hop = depth
  BY DEF Near, Far, Limit, TypeOK
<1>3. \A k \in Nat : LinkedTo(Reach[k]) \subseteq Reach[k + 1] /\ Reach[k] \subseteq Reach[k + 1]
  <2> TAKE k \in Nat
  <2>1. Reach[k + 1] = Reach[k] \cup Within(LinkedTo(Reach[k]))
    BY ReachSteps
  <2>2. LinkedTo(Reach[k]) \subseteq Within(LinkedTo(Reach[k]))
    BY WithinLeast DEF LinkedTo
  <2> QED BY <2>1, <2>2
<1>4. Reach[Near] \subseteq Reach[Far]
  BY <1>1, <1>2, <1>3
<1>5. Whole \/ hop < depth => LinkedTo(Reach[Near]) \subseteq Reach[Far]
  <2>1. CASE Whole
    BY <1>2, <2>1, ReachSaturates
  <2>2. CASE ~ Whole
    BY <1>1, <1>2, <1>3, <2>2
  <2> QED BY <2>1, <2>2
<1>6. Reach[0] \subseteq Reach[Near] /\ Children(Reach[Far]) \subseteq Reach[Far]
  BY <1>1, ReachClosed
<1> QED BY <1>1, <1>2, <1>4, <1>5, <1>6 DEF LinkedTo

\* The walk of the whole component: what is closed under the hops holds all
\* that any number of them reaches.
LEMMA TopLevelLeast ==
    ASSUME NEW C, Within(roots) \subseteq C,
           \A m \in C, n \in Nodes : InLine(m) /\ Linked(m, n) => n \in C
    PROVE  \A k \in Nat : ReachTop[k] \subseteq C
<1> DEFINE T == {k \in Nat : ReachTop[k] \subseteq C}
<1>1. 0 \in T
  BY ReachTopSteps
<1>2. ASSUME NEW k \in Nat, k \in T PROVE k + 1 \in T
  BY <1>2, ReachTopSteps DEF LinkedTop
<1>3. Nat \subseteq T
  <2> HIDE DEF T
  <2> QED BY <1>1, <1>2, SetInduction
<1> QED BY <1>3

\* How far the walk has come at every moment, and how far it has at least: the
\* strengthening that WithinDepth and TopLevelReached need to be inductive.
THEOREM WalkInvariant == Spec => []WalkInv
<1>1. Init => Queues /\ NearEnough /\ WithinDepth /\ FarEnough /\ TopLevelReached
  BY DEF Init, Queues, NearEnough, WithinDepth, FarEnough, TopLevelReached
<1>2. WalkInv /\ [Next]_vars /\ ClusterInv' => WalkInv'
  <2> SUFFICES ASSUME WalkInv, [Next]_vars, ClusterInv'
               PROVE  /\ Queues' /\ NearEnough' /\ WithinDepth'
                      /\ FarEnough' /\ TopLevelReached'
    BY DEF WalkInv
  <2>input. UNCHANGED input
    BY DEF Next, Seed, Descend, Start, Visit, Look, Hop, Walked, Climb, Collect, vars
  <2>whole. Whole' = Whole
    BY <2>input DEF Whole, input
  <2> USE ReachConstant
  <2>1. CASE Seed
    <3>1. place' = "start" /\ included' = roots /\ UNCHANGED queues /\ place = "seed"
      BY <2>1 DEF Seed
    <3>2. roots \subseteq Reach[0]
      <4>1. roots \in SUBSET Nodes
        BY DEF WalkInv, ClusterInv, TypeOK
      <4> QED BY <4>1, ReachSteps, WithinLeast
    <3>3. Queues'
      BY <3>1 DEF Queues, queues, WalkInv
    <3>4. NearEnough'
      BY <2>input, <3>1, <3>2 DEF NearEnough
    <3>5. FarEnough'
      BY <2>input, <3>1 DEF FarEnough, input
    <3> QED BY <3>1, <3>3, <3>4, <3>5 DEF WithinDepth, TopLevelReached
  <2>2. CASE Descend
    <3>1. /\ UNCHANGED <<input, place, queues, up, core>>
          /\ included' = included \cup Children(down)
          /\ down \subseteq included /\ down # {}
      BY <2>2 DEF Descend, WalkInv, ClusterInv, TypeOK
    <3>2. place \in {"start", "walk"}
      BY <2>2 DEF Descend, WalkInv, ClusterInv, Descended, TypeOK
    <3>3. Queues'
      BY <2>whole, <3>1 DEF Queues, queues, WalkInv, input
    <3>4. NearEnough'
      <4>1. CASE place = "start"
        <5>1. Children(Reach[0]) \subseteq Reach[0] /\ included \subseteq Reach[0]
          BY <4>1, ReachClosed DEF WalkInv, NearEnough
        <5>2. included' \subseteq Reach[0]
          BY <3>1, <5>1 DEF Children
        <5> QED BY <2>input, <3>1, <4>1, <5>2 DEF NearEnough
      <4>2. CASE place = "walk"
        <5>1. Children(Reach[Far]) \subseteq Reach[Far] /\ included \subseteq Reach[Far]
          BY <4>2, OneHop DEF WalkInv, ClusterInv, Queues, NearEnough
        <5>2. included' \subseteq Reach[Far]
          BY <3>1, <5>1 DEF Children
        <5>3. Near' = Near /\ Far' = Far /\ Sought' = Sought /\ Items(frontier)' = Items(frontier)
          BY <2>whole, <3>1 DEF Near, Far, Sought, Items, queues, input
        <5> QED BY <2>input, <3>1, <4>2, <5>2, <5>3 DEF NearEnough, WalkInv
      <4> QED BY <3>2, <4>1, <4>2
    <3>5. FarEnough'
      <4>1. roots \subseteq included'
        BY <3>1, <3>2 DEF WalkInv, FarEnough
      <4>2. CASE place = "start"
        BY <3>1, <4>1, <4>2 DEF FarEnough, input
      <4>3. CASE place = "walk"
        <5>1. \A m \in Children(down) : parent[m] # None
          BY <3>1, NodesAssumption DEF Children, WalkInv, ClusterInv, TypeOK
        <5>2. \A m \in Children(down) : InLine(m) => m \in included
          BY <4>3, <5>1 DEF InLine, WalkInv, FarEnough
        <5>3. hop' = hop /\ Sought' = Sought /\ Items(frontier)' = Items(frontier) /\ Items(next)' = Items(next)
          BY <3>1 DEF Sought, Items, queues
        <5>4. Within(roots) \cup ReachTop[hop] \subseteq included /\ included \subseteq included'
          BY <3>1, <4>3 DEF FarEnough, WalkInv
        <5>5. Items(next) \cap ReachTop[hop] = {}
          BY <4>3 DEF FarEnough, WalkInv
        <5>6. \A m \in included', n \in Nodes :
                InLine(m) /\ Linked(m, n) =>
                    m \in Items(frontier) \cup Items(next) \/ n \in included' \cup Sought
          BY <3>1, <4>3, <5>2, <5>4 DEF FarEnough, WalkInv
        <5> QED BY <2>input, <3>1, <4>1, <4>3, <5>3, <5>4, <5>5, <5>6 DEF FarEnough, input
      <4> QED BY <3>2, <4>2, <4>3
    <3> QED BY <3>1, <3>2, <3>3, <3>4, <3>5 DEF WithinDepth, TopLevelReached
  <2>3. CASE Start
    <3>1. /\ place = "start" /\ place' = "walk" /\ down = {}
          /\ frontier' \in Orders(included)
          /\ UNCHANGED <<input, included, down, pending, next, hop, up, core>>
      BY <2>3 DEF Start
    <3>2. Items(frontier') = included /\ included \subseteq Nodes
      BY <3>1, ItemsOfOrder DEF WalkInv, ClusterInv, TypeOK
    <3>3. pending = {} /\ next = <<>> /\ hop = 0 /\ (~ Whole => 0 <= depth)
      BY <3>1 DEF WalkInv, Queues, ClusterInv, TypeOK, Whole
    <3>4. Queues'
      BY <2>whole, <3>1, <3>3 DEF Queues, input
    <3>5. TypeOK /\ (~ Whole => hop <= depth)
      BY <3>3 DEF WalkInv, ClusterInv
    <3>6. included \subseteq Reach[Near] /\ included \subseteq Reach[Far]
      BY <3>1, <3>5, OneHop DEF WalkInv, NearEnough
    <3>7. Near' = Near /\ Far' = Far /\ Sought' = {} /\ Items(frontier)' = included
      BY <2>whole, <3>1, <3>2, <3>3 DEF Near, Far, Sought, Items, input
    <3>8. NearEnough'
      BY <2>input, <3>1, <3>6, <3>7 DEF NearEnough
    <3>9. roots \subseteq included /\ Within(roots) \subseteq included
      <4>1. roots \subseteq included
        BY <3>1 DEF WalkInv, FarEnough
      <4>2. Children(included) \subseteq included
        BY <3>1 DEF WalkInv, ClusterInv, Descended
      <4> QED BY <3>2, <4>1, <4>2, WithinLeast
    <3>10. ReachTop[0] = Within(roots) /\ Items(next)' = {}
      BY <3>1, <3>3, ReachTopSteps DEF Items
    <3>11. FarEnough'
      BY <2>input, <3>1, <3>3, <3>7, <3>9, <3>10 DEF FarEnough, input
    <3> QED BY <3>1, <3>4, <3>8, <3>11 DEF WithinDepth, TopLevelReached
  <2>4. CASE Visit
    <3>1. /\ place = "walk" /\ pending = {} /\ frontier # <<>>
          /\ Whole \/ hop < depth
          /\ pending' = Neighbours(Head(frontier)) /\ frontier' = Tail(frontier)
          /\ UNCHANGED <<input, place, included, down, next, hop, up, core>>
      BY <2>4 DEF Visit
    <3>2. /\ Items(frontier) = {Head(frontier)} \cup Items(Tail(frontier))
          /\ Items(frontier) \subseteq included
      BY <3>1, ItemsOfQueue DEF WalkInv, ClusterInv, TypeOK
    <3>3. Head(frontier) \in Nodes /\ edges \in Seq(Edge)
      BY <3>2 DEF WalkInv, ClusterInv, TypeOK
    <3>4. Sought' = {n \in Nodes : Linked(Head(frontier), n)} /\ Sought = {}
      <4>1. {nb.node : nb \in Neighbours(Head(frontier))} = {n \in Nodes : Linked(Head(frontier), n)}
        BY <3>3, NeighboursLinked
      <4> QED BY <3>1, <4>1 DEF Sought
    <3>5. /\ Near' = Near /\ Far' = Far /\ Items(next)' = Items(next)
          /\ Items(frontier)' = Items(Tail(frontier))
      BY <2>whole, <3>1 DEF Near, Far, Items, input
    <3>6. Queues'
      BY <2>whole, <3>1 DEF Queues, WalkInv, input
    <3>7. NearEnough'
      BY <2>input, <3>1, <3>2, <3>4, <3>5 DEF NearEnough, WalkInv
    <3>8. FarEnough'
      <4>1. \A m \in included, n \in Nodes :
              InLine(m) /\ Linked(m, n) =>
                  m \in Items(Tail(frontier)) \cup Items(next) \/ n \in included \cup Sought'
        BY <3>1, <3>2, <3>4 DEF FarEnough, WalkInv
      <4> QED BY <2>input, <3>1, <3>5, <4>1 DEF FarEnough, WalkInv, input
    <3> QED BY <3>1, <3>6, <3>7, <3>8 DEF WithinDepth, TopLevelReached
  <2>5. CASE Look
    <3>1. PICK nb \in pending : /\ pending' = pending \ {nb}
                               /\ IF nb.node \in included
                                  THEN UNCHANGED <<included, down, frontier, next>>
                                  ELSE /\ included' = included \cup {nb.node}
                                       /\ down' = {nb.node}
                                       /\ IF Whole
                                          THEN frontier' = Append(frontier, nb.node) /\ UNCHANGED next
                                          ELSE next' = Append(next, nb.node) /\ UNCHANGED frontier
      BY <2>5 DEF Look
    <3>2. UNCHANGED <<input, place, hop, up, core>> /\ place = "walk"
      BY <2>5, <3>1 DEF Look, WalkInv, ClusterInv, Descended, Queues, TypeOK
    <3>3. /\ (~ Whole => hop < depth) /\ TypeOK
          /\ nb.node \in Nodes /\ nb.node \in Sought
          /\ Near' = Near /\ Far' = Far
      BY <2>whole, <3>1, <3>2 DEF WalkInv, ClusterInv, Queues, TypeOK, Sought, Near, Far, input
    <3>4. included' = included \cup {nb.node} /\ Sought \subseteq Sought' \cup {nb.node} /\ Sought' \subseteq Sought
      BY <3>1 DEF Sought
    <3>5. /\ Items(frontier)' \cup Items(next)' = Items(frontier) \cup Items(next) \cup (included' \ included)
          /\ Items(frontier)' \subseteq Items(frontier) \cup {nb.node}
          /\ Items(next)' \subseteq Items(next) \cup (included' \ included)
          /\ ~ Whole => Items(frontier)' = Items(frontier)
      <4>1. frontier \in Seq(included) /\ next \in Seq(included)
        BY <3>3 DEF TypeOK
      <4>2. /\ Items(Append(frontier, nb.node)) = Items(frontier) \cup {nb.node}
            /\ Items(Append(next, nb.node)) = Items(next) \cup {nb.node}
        BY <4>1, ItemsOfQueue
      <4>3. Items(frontier)' = Items(frontier') /\ Items(next)' = Items(next')
        BY DEF Items
      <4>4. CASE nb.node \in included
        BY <3>1, <4>3, <4>4
      <4>5. CASE nb.node \notin included /\ Whole
        <5>1. frontier' = Append(frontier, nb.node) /\ next' = next /\ included' \ included = {nb.node}
          BY <3>1, <4>5
        <5> QED BY <4>2, <4>3, <4>5, <5>1
      <4>6. CASE nb.node \notin included /\ ~ Whole
        <5>1. next' = Append(next, nb.node) /\ frontier' = frontier /\ included' \ included = {nb.node}
          BY <3>1, <4>6
        <5> QED BY <4>2, <4>3, <4>6, <5>1
      <4> QED BY <4>4, <4>5, <4>6
    <3>6. Queues'
      BY <2>whole, <3>1, <3>2, <3>3 DEF Queues, WalkInv, input
    <3>7. NearEnough'
      <4>1. nb.node \in Reach[Far]
        BY <3>2, <3>3, OneHop DEF TypeOK, WalkInv, NearEnough
      <4>2. included' \subseteq Reach[Far]
        BY <3>2, <3>4, <4>1 DEF WalkInv, NearEnough
      <4>3. Items(frontier)' \subseteq Reach[Near]
        <5>1. CASE Whole
          <6>1. Near = Far
            BY <5>1 DEF Near, Far
          <6> QED BY <3>2, <3>5, <4>1, <6>1 DEF WalkInv, NearEnough
        <5>2. CASE ~ Whole
          BY <3>2, <3>5, <5>2 DEF WalkInv, NearEnough
        <5> QED BY <5>1, <5>2
      <4> QED BY <2>input, <3>2, <3>3, <3>4, <4>2, <4>3 DEF WalkInv, NearEnough
    <3>8. FarEnough'
      <4>1. Items(next)' \cap ReachTop[hop] = {}
        BY <3>2, <3>5 DEF WalkInv, FarEnough
      <4>2. \A m \in included', n \in Nodes :
              InLine(m) /\ Linked(m, n) =>
                  m \in Items(frontier)' \cup Items(next)' \/ n \in included' \cup Sought'
        BY <3>2, <3>4, <3>5 DEF WalkInv, FarEnough
      <4>3. roots \subseteq included' /\ Within(roots) \cup ReachTop[hop] \subseteq included'
        BY <3>2, <3>4 DEF WalkInv, FarEnough
      <4> QED BY <2>input, <3>2, <4>1, <4>2, <4>3 DEF FarEnough, input
    <3> QED BY <3>2, <3>6, <3>7, <3>8 DEF WithinDepth, TopLevelReached
  <2>6. CASE Hop
    <3>1. /\ place = "walk" /\ pending = {} /\ frontier = <<>> /\ ~ Whole /\ hop < depth
          /\ frontier' = next /\ next' = <<>> /\ hop' = hop + 1
          /\ UNCHANGED <<input, place, included, down, pending, up, core>>
      BY <2>6 DEF Hop
    <3>2. TypeOK /\ hop \in Nat /\ depth \in Int /\ Items(next) \subseteq included
      BY ItemsOfQueue DEF WalkInv, ClusterInv, TypeOK
    <3>3. Queues'
      BY <2>whole, <3>1, <3>2 DEF Queues, input
    <3>4. /\ Items(frontier)' = Items(next) /\ Items(next)' = {} /\ Sought' = {} /\ Sought = {}
          /\ Items(frontier) = {}
      BY <3>1 DEF Items, Sought
    <3>5. NearEnough'
      <4>1. TypeOK' /\ (~ Whole' => hop' <= depth')
        BY <2>whole, <3>1, <3>2 DEF WalkInv, ClusterInv, input
      <4>2. Near' = hop + 1 /\ Far = hop + 1
        BY <2>whole, <3>1, <3>2 DEF Near, Far, TypeOK
      <4>3. Far' = hop + 1 \/ Far' = hop + 2
        BY <2>whole, <3>1, <3>2 DEF Far, input
      <4>4. included \subseteq Reach[hop + 1]
        BY <3>1, <4>2 DEF WalkInv, NearEnough
      <4>5. Reach[hop + 1] \subseteq Reach[hop + 2]
        <5>1. hop + 1 \in Nat /\ (hop + 1) + 1 = hop + 2
          BY <3>2
        <5>2. Reach[(hop + 1) + 1] = Reach[hop + 1] \cup Within(LinkedTo(Reach[hop + 1]))
          BY <5>1, ReachSteps
        <5> QED BY <5>1, <5>2
      <4>6. included' \subseteq Reach[Far'] /\ Items(frontier)' \subseteq Reach[Near']
        BY <3>1, <3>2, <3>4, <4>2, <4>3, <4>4, <4>5
      <4> QED BY <2>input, <3>1, <3>4, <4>6 DEF NearEnough
    <3>6. FarEnough'
      <4>1. ReachTop[hop + 1] \subseteq included
        <5>1. ReachTop[hop + 1] = ReachTop[hop] \cup LinkedTop(ReachTop[hop])
          BY <3>2, ReachTopSteps
        <5>2. ReachTop[hop] \subseteq included /\ Items(next) \cap ReachTop[hop] = {}
          BY <3>1 DEF WalkInv, FarEnough
        <5>3. \A m \in included, n \in Nodes :
                InLine(m) /\ Linked(m, n) => m \in Items(next) \/ n \in included
          BY <3>1, <3>4 DEF WalkInv, FarEnough
        <5>4. LinkedTop(ReachTop[hop]) \subseteq included
          BY <5>2, <5>3 DEF LinkedTop
        <5> QED BY <5>1, <5>2, <5>4
      <4>2. \A m \in included, n \in Nodes :
              InLine(m) /\ Linked(m, n) => m \in Items(next) \/ n \in included
        BY <3>1, <3>4 DEF WalkInv, FarEnough
      <4>3. roots \subseteq included /\ Within(roots) \subseteq included
        BY <3>1 DEF WalkInv, FarEnough
      <4> QED BY <2>input, <3>1, <3>4, <4>1, <4>2, <4>3 DEF FarEnough, input
    <3> QED BY <3>1, <3>3, <3>5, <3>6 DEF WithinDepth, TopLevelReached
  <2>7. CASE Walked
    <3>1. /\ place = "walk" /\ pending = {} /\ (IF Whole THEN frontier = <<>> ELSE hop = depth)
          /\ place' = "climb" /\ core' = included
          /\ UNCHANGED <<input, included, down, queues>>
      BY <2>7 DEF Walked
    <3>2. TypeOK /\ (~ Whole => hop <= depth)
      BY <3>1 DEF WalkInv, ClusterInv, TypeOK
    <3>3. included \subseteq Reach[Limit]
      <4>1. Far = Limit
        BY <3>1, <3>2, OneHop
      <4> QED BY <3>1, <4>1 DEF WalkInv, NearEnough
    <3>4. ReachTop[Limit] \subseteq included
      <4>1. CASE Whole
        <5>1. Items(frontier) = {} /\ Items(next) = {} /\ Sought = {}
          BY <3>1, <4>1 DEF Items, Sought, WalkInv, Queues
        <5>2. Limit \in Nat
          BY <3>2, OneHop
        <5>3. \A m \in included, n \in Nodes : InLine(m) /\ Linked(m, n) => n \in included
          BY <3>1, <5>1 DEF WalkInv, FarEnough
        <5>4. Within(roots) \subseteq included
          BY <3>1 DEF WalkInv, FarEnough
        <5> QED BY <5>2, <5>3, <5>4, TopLevelLeast
      <4>2. CASE ~ Whole
        BY <3>1, <4>2 DEF Limit, WalkInv, FarEnough
      <4> QED BY <4>1, <4>2
    <3>5. roots \subseteq included'
      BY <3>1 DEF WalkInv, FarEnough
    <3>6. Limit' = Limit
      BY <2>whole, <3>1 DEF Limit, input
    <3>7. WithinDepth'
      BY <2>input, <3>1, <3>3, <3>6 DEF WithinDepth, Limit
    <3>8. TopLevelReached'
      BY <2>input, <3>1, <3>4, <3>6 DEF TopLevelReached, Limit
    <3> QED BY <3>1, <3>5, <3>7, <3>8 DEF Queues, NearEnough, FarEnough, input
  <2>8. ASSUME place \in {"climb", "done"}, place' \in {"climb", "done"},
               included \subseteq included', UNCHANGED <<input, core>>
        PROVE  Queues' /\ NearEnough' /\ WithinDepth' /\ FarEnough' /\ TopLevelReached'
    <3>1. roots \subseteq included'
      BY <2>8 DEF WalkInv, FarEnough
    <3>2. WithinDepth'
      BY <2>input, <2>whole, <2>8 DEF WithinDepth, WalkInv, input
    <3>3. TopLevelReached'
      BY <2>input, <2>whole, <2>8 DEF TopLevelReached, WalkInv, input
    <3> QED BY <2>8, <3>1, <3>2, <3>3 DEF Queues, NearEnough, FarEnough, input
  <2>9. CASE Climb
    BY <2>8, <2>9 DEF Climb
  <2>10. CASE Collect
    BY <2>8, <2>10 DEF Collect
  <2>11. CASE UNCHANGED vars
    <3>1. UNCHANGED <<place, included, down, frontier, pending, next, hop, up, core>>
      BY <2>11 DEF vars, queues
    <3>2. /\ Near' = Near /\ Far' = Far /\ Sought' = Sought
          /\ Items(frontier)' = Items(frontier) /\ Items(next)' = Items(next)
      BY <2>input, <2>whole, <3>1 DEF Near, Far, Sought, Items, input
    <3>3. Queues'
      BY <2>input, <2>whole, <3>1 DEF Queues, WalkInv, input
    <3>4. NearEnough'
      BY <2>input, <3>1, <3>2 DEF NearEnough, WalkInv
    <3>5. FarEnough'
      BY <2>input, <3>1, <3>2 DEF FarEnough, WalkInv, input
    <3>6. WithinDepth' /\ TopLevelReached'
      BY <2>input, <2>whole, <3>1 DEF WithinDepth, TopLevelReached, WalkInv, input
    <3> QED BY <3>3, <3>4, <3>5, <3>6
  <2> QED BY <2>1, <2>2, <2>3, <2>4, <2>5, <2>6, <2>7, <2>9, <2>10, <2>11 DEF Next
<1> QED BY <1>1, <1>2, ClusterInvariant, PTL DEF Spec, WalkInv

\* However the map is iterated, nothing farther from the roots than the depth
\* asked for gets into the share, before the containers are added.
THEOREM StaysWithinDepth == Spec => []WithinDepth
BY WalkInvariant, PTL DEF WalkInv

\* Nothing that many hops away is left out, as far as the hops lead over nodes
\* that wait in line.
THEOREM ReachesTopLevel == Spec => []TopLevelReached
BY WalkInvariant, PTL DEF WalkInv

-----------------------------------------------------------------------------
\* Every node included since the walk is over is one that was there, or holds one.
Holders ==
    place \in {"climb", "done"} => \A n \in included : \E m \in core : m \in Within({n})

\* The climb goes from a node to the one it lies in, and no other way.
THEOREM AddsOnlyContainers == Spec => []OnlyContainersAdded
<1>1. Init => Holders
  BY DEF Init, Holders
<1>2. ClusterInv /\ Holders /\ [Next]_vars => Holders'
  <2> SUFFICES ASSUME ClusterInv, Holders, [Next]_vars PROVE Holders'
    OBVIOUS
  <2>input. UNCHANGED input
    BY DEF Next, Seed, Descend, Start, Visit, Look, Hop, Walked, Climb, Collect, vars
  <2>within. \A S : Within(S)' = Within(S)
    BY <2>input DEF input, Within, Children
  <2>1. CASE Walked
    <3>1. core' = included /\ included' = included /\ included \subseteq Nodes
      BY <2>1 DEF Walked, ClusterInv, TypeOK
    <3>2. \A n \in Nodes : n \in Within({n})
      BY WithinLeast
    <3> QED BY <2>within, <3>1, <3>2 DEF Holders
  <2>2. CASE Climb
    <3>1. /\ place = "climb" /\ core' = core
          /\ included' = included \cup Parents(up) /\ up \subseteq included
      BY <2>2 DEF Climb, ClusterInv, TypeOK
    <3>2. ASSUME NEW n \in Parents(up) PROVE \E m \in core : m \in Within({n})
      <4>1. PICK p \in included : parent[p] = n /\ p \in Nodes /\ n \in Nodes
        BY <3>1, <3>2 DEF Parents, ClusterInv, TypeOK
      <4>2. PICK m \in core : m \in Within({p})
        BY <3>1, <4>1 DEF Holders
      <4>3. p \in Within({n})
        <5>1. n \in Within({n}) /\ Children(Within({n})) \subseteq Within({n})
          BY <4>1, WithinLeast
        <5>2. p \in Children(Within({n}))
          BY <4>1, <5>1 DEF Children
        <5> QED BY <5>1, <5>2
      <4>4. Within({p}) \subseteq Within({n})
        <5>1. {p} \in SUBSET Nodes /\ Within({n}) \in SUBSET Nodes
          BY <4>1, WithinType
        <5>2. {p} \subseteq Within({n}) /\ Children(Within({n})) \subseteq Within({n})
          BY <4>3, WithinLeast
        <5> QED BY <5>1, <5>2, WithinLeast
      <4> QED BY <4>2, <4>4
    <3> QED BY <2>within, <3>1, <3>2 DEF Holders
  <2>3. CASE Collect
    BY <2>3, <2>within DEF Collect, Holders
  <2>4. CASE UNCHANGED vars
    BY <2>4, <2>within DEF vars, Holders
  <2>5. ASSUME place' \in {"seed", "start", "walk"} PROVE Holders'
    BY <2>5 DEF Holders
  <2>6. CASE Descend
    BY <2>5, <2>6 DEF Descend, ClusterInv, Descended, TypeOK
  <2>7. CASE Look
    BY <2>5, <2>7 DEF Look, ClusterInv, Descended, TypeOK
  <2> QED BY <2>1, <2>2, <2>3, <2>4, <2>5, <2>6, <2>7
          DEF Next, Seed, Start, Visit, Hop
<1>3. Holders => OnlyContainersAdded
  BY DEF Holders, OnlyContainersAdded
<1> QED BY <1>1, <1>2, <1>3, ClusterInvariant, PTL DEF Spec

\* A diagram in which no node lies in another one.
Flat == \A n \in Nodes : parent[n] = None

\* In it nothing lies in a set of nodes but the nodes, all of them wait in line,
\* and a hop leads as far with and without containers.
LEMMA FlatReach ==
    ASSUME TypeOK, Flat
    PROVE  /\ \A S \in SUBSET Nodes : Within(S) = S
           /\ \A k \in Nat : Reach[k] = ReachTop[k]
<1>1. \A S \in SUBSET Nodes : Children(S) = {}
  BY DEF Flat, Children
<1>2. ASSUME NEW S \in SUBSET Nodes PROVE Within(S) = S
  <2>1. S \subseteq S /\ Children(S) \subseteq S
    BY <1>1
  <2> QED BY <2>1, WithinLeast
<1> DEFINE T == {k \in Nat : Reach[k] = ReachTop[k]}
<1>3. 0 \in T
  BY ReachSteps, ReachTopSteps
<1>4. ASSUME NEW k \in Nat, k \in T PROVE k + 1 \in T
  <2>1. Reach[k] = ReachTop[k] /\ Reach[k] \subseteq Nodes /\ k + 1 \in Nat
    BY <1>4, ReachSteps
  <2>2. LinkedTop(Reach[k]) = LinkedTo(Reach[k]) /\ LinkedTo(Reach[k]) \in SUBSET Nodes
    BY <2>1 DEF LinkedTop, LinkedTo, InLine, Flat
  <2>3. Within(LinkedTo(Reach[k])) = LinkedTo(Reach[k])
    BY <1>2, <2>2
  <2>4. Reach[k + 1] = ReachTop[k + 1]
    BY <2>1, <2>2, <2>3, ReachSteps, ReachTopSteps
  <2> QED BY <2>1, <2>4
<1>5. Nat \subseteq T
  <2> HIDE DEF T
  <2> QED BY <1>3, <1>4, SetInduction
<1> QED BY <1>2, <1>5

\* In such a diagram the share holds the nodes within the depth asked for, or
\* connected to the roots if it was negative, and no others: the comment on
\* Compute, word for word, whatever the order of the walk.
ExactWhenFlat == place = "done" /\ Flat => included = Reach[Limit]

THEOREM FlatIsExact == Spec => []ExactWhenFlat
<1>1. WalkInv /\ OnlyContainersAdded => ExactWhenFlat
  <2> SUFFICES ASSUME WalkInv, OnlyContainersAdded, place = "done", Flat
               PROVE  included = Reach[Limit]
    BY DEF ExactWhenFlat
  <2>1. TypeOK /\ Limit \in Nat /\ core \subseteq included /\ included \subseteq Nodes
    <3>1. TypeOK
      BY DEF WalkInv, ClusterInv
    <3>2. Limit \in Nat
      BY <3>1, ReachSaturates DEF Limit, Whole, TypeOK
    <3> QED BY <3>1, <3>2 DEF TypeOK
  <2>2. core \subseteq Reach[Limit] /\ ReachTop[Limit] \subseteq core
    BY DEF WalkInv, WithinDepth, TopLevelReached, Limit
  <2>3. core = Reach[Limit]
    BY <2>1, <2>2, FlatReach
  <2>4. included \subseteq core
    <3> SUFFICES ASSUME NEW n \in included, n \notin core PROVE FALSE
      OBVIOUS
    <3>1. Within({n}) = {n}
      BY <2>1, FlatReach
    <3> QED BY <3>1 DEF OnlyContainersAdded
  <2> QED BY <2>1, <2>3, <2>4
<1> QED BY <1>1, WalkInvariant, AddsOnlyContainers, PTL
-----------------------------------------------------------------------------
\* What Compute has still before it, the most important part first: the phases
\* to come, the nodes outside, the hops left, the nodes in line, the neighbours
\* to look at, and whether descent or climb are under way.
Phase == CASE place = "seed" -> 4 [] place = "start" -> 3 [] place = "walk" -> 2
           [] place = "climb" -> 1 [] place = "done" -> 0

Outside == Cardinality(Nodes \ included)

HopsLeft == IF place = "walk" /\ ~ Whole THEN depth - hop ELSE 0

UnderWay == (IF down = {} THEN 0 ELSE 1) + (IF up = {} THEN 0 ELSE 1)

Remaining == <<Phase, Outside, HopsLeft, Len(frontier), Cardinality(pending), UnderWay>>

\* Lists of six numbers, the first difference decides.
Before == LexProductOrdering(OpToRel(<, Nat), Nat, 6)

\* The list gets smaller.
Approaches == <<Remaining', Remaining>> \in Before

\* In a well-founded order no sequence gets smaller for ever.
LEMMA DescentEnds ==
    ASSUME NEW R, NEW S, IsWellFoundedOn(R, S), NEW f \in [Nat -> S]
    PROVE  \E k \in Nat : <<f[k + 1], f[k]>> \notin R
<1> DEFINE T == {f[k] : k \in Nat}
<1>1. T \subseteq S /\ f[0] \in T
  OBVIOUS
<1>2. PICK x \in T : \A y \in T : ~ (<<y, x>> \in R)
  <2> HIDE DEF T
  <2>1. T # {}
    BY <1>1
  <2> QED BY <1>1, <2>1, WFMin
<1>3. PICK k \in Nat : x = f[k]
  BY <1>2
<1>4. k + 1 \in Nat /\ f[k + 1] \in T
  OBVIOUS
<1> QED BY <1>2, <1>3, <1>4

\* Nor does one of such lists.
LEMMA NoEndlessDescent ==
    ASSUME NEW f \in [Nat -> [1 .. 6 -> Nat]]
    PROVE  \E k \in Nat : <<f[k + 1], f[k]>> \notin Before
<1>1. IsWellFoundedOn(Before, [1 .. 6 -> Nat])
  BY NatLessThanWellFounded, WFLexProductOrdering, Zenon DEF Before
<1> QED BY <1>1, DescentEnds

\* The neighbours of a node are finitely many, since the edges are.
LEMMA NeighboursFinite ==
    ASSUME edges \in Seq(Edge), NEW n
    PROVE  IsFiniteSet(Neighbours(n))
<1> DEFINE L == Len(edges)
           g == [i \in 1 .. L + L |->
                    IF i <= L THEN [node |-> edges[i].w, rank |-> i]
                              ELSE [node |-> edges[i - L].v, rank |-> i]]
           T == {g[i] : i \in 1 .. L + L}
<1>1. L \in Nat /\ DOMAIN edges = 1 .. L
  OBVIOUS
<1>2. IsFiniteSet(1 .. L + L)
  BY <1>1, FS_Interval
<1>3. IsFiniteSet(T)
  <2>1. g \in Surjection(1 .. L + L, T)
    BY DEF Surjection
  <2> HIDE DEF g, T
  <2> QED BY <1>2, <2>1, FS_Surjection
<1>4. ASSUME NEW nb \in Neighbours(n) PROVE nb \in T
  <2>1. CASE \E i \in DOMAIN edges : nb = [node |-> edges[i].w, rank |-> i]
    <3>1. PICK i \in 1 .. L : nb = [node |-> edges[i].w, rank |-> i]
      BY <1>1, <2>1
    <3>2. i \in 1 .. L + L /\ nb = g[i]
      BY <1>1, <3>1
    <3> QED BY <3>2
  <2>2. CASE \E i \in DOMAIN edges : nb = [node |-> edges[i].v, rank |-> L + i]
    <3>1. PICK i \in 1 .. L : nb = [node |-> edges[i].v, rank |-> L + i]
      BY <1>1, <2>2
    <3>2. L + i \in 1 .. L + L /\ ~ (L + i <= L) /\ (L + i) - L = i
      BY <1>1, <3>1
    <3>3. nb = g[L + i]
      BY <3>1, <3>2
    <3> QED BY <3>2, <3>3
  <2> QED BY <2>1, <2>2 DEF Neighbours
<1>5. Neighbours(n) \in SUBSET T
  BY <1>4
<1> QED BY <1>3, <1>5, FS_Subset

FewPending == IsFiniteSet(pending)

\* The neighbours to look at stay finitely many.
LEMMA PendingFinite == Spec => []FewPending
<1>1. Init => FewPending
  BY FS_EmptySet DEF Init, FewPending
<1>2. TypeOK /\ FewPending /\ [Next]_vars => FewPending'
  <2> SUFFICES ASSUME TypeOK, FewPending, [Next]_vars PROVE FewPending'
    OBVIOUS
  <2>1. CASE Visit
    BY <2>1, NeighboursFinite DEF Visit, TypeOK, FewPending
  <2>2. CASE Look
    <3>1. pending' \in SUBSET pending
      BY <2>2 DEF Look
    <3> QED BY <3>1, FS_Subset DEF FewPending
  <2>3. ASSUME UNCHANGED pending PROVE FewPending'
    BY <2>3 DEF FewPending
  <2> QED BY <2>1, <2>2, <2>3
          DEF Next, Seed, Descend, Start, Hop, Walked, Climb, Collect, vars, queues
<1> QED BY <1>1, <1>2, TypeCorrect, PTL DEF Spec

Counted == Remaining \in [1 .. 6 -> Nat]

\* What is left are numbers.
LEMMA RemainingType ==
    ASSUME WalkInv, FewPending
    PROVE  Counted
<1>1. Phase \in Nat
  BY DEF WalkInv, ClusterInv, TypeOK, Phase
<1>2. Outside \in Nat
  <2>1. Nodes \ included \in SUBSET Nodes
    OBVIOUS
  <2> QED BY <2>1, FS_Subset, FS_CardinalityType DEF Outside
<1>3. HopsLeft \in Nat
  BY DEF WalkInv, ClusterInv, TypeOK, Queues, HopsLeft, Whole
<1>4. Len(frontier) \in Nat
  BY DEF WalkInv, ClusterInv, TypeOK
<1>5. Cardinality(pending) \in Nat
  BY FS_CardinalityType DEF FewPending
<1>6. UnderWay \in Nat
  BY DEF UnderWay
<1> QED BY <1>1, <1>2, <1>3, <1>4, <1>5, <1>6 DEF Counted, Remaining

\* The more is included, the less is outside.
LEMMA OutsideShrinks ==
    ASSUME included \subseteq included', included' \subseteq Nodes
    PROVE  Outside' < Outside \/ included' = included
<1>1. Nodes \ included \in SUBSET Nodes /\ Nodes \ included' \in SUBSET (Nodes \ included)
  OBVIOUS
<1>2. IsFiniteSet(Nodes \ included) /\ IsFiniteSet(Nodes \ included')
  <2>1. IsFiniteSet(Nodes \ included)
    BY <1>1, FS_Subset
  <2> QED BY <1>1, <2>1, FS_Subset
<1>3. Outside \in Nat /\ Outside' \in Nat
  BY <1>2, FS_CardinalityType DEF Outside
<1>4. Outside' <= Outside /\ (Outside = Outside' => Nodes \ included = Nodes \ included')
  BY <1>1, <1>2, FS_Subset DEF Outside
<1>5. Nodes \ included = Nodes \ included' => included' = included
  OBVIOUS
<1> QED BY <1>3, <1>4, <1>5

\* The first difference decides.
LEMMA FirstDecides ==
    ASSUME NEW r \in [1 .. 6 -> Nat], NEW s \in [1 .. 6 -> Nat], NEW j \in 1 .. 6,
           r[j] < s[j], \A i \in 1 .. j - 1 : r[i] = s[i]
    PROVE  <<r, s>> \in Before
BY DEF Before, LexProductOrdering, OpToRel

\* Compute comes nearer to its end with every step, on any diagram, to any depth
\* and in any order: the check that a node is not included yet is what stops
\* descent, walk and climb, and what is in line does not come back.
THEOREM ComputeEnds == Spec => [][Approaches]_vars
<1>1. WalkInv /\ FewPending /\ Counted /\ Counted' /\ Next => Approaches
  <2> SUFFICES ASSUME WalkInv, FewPending, Counted, Counted', Next PROVE Approaches
    OBVIOUS
  <2> DEFINE r == Remaining'
             s == Remaining
  <2>1. r \in [1 .. 6 -> Nat] /\ s \in [1 .. 6 -> Nat]
    BY DEF Counted
  <2>2. /\ r[1] = Phase' /\ r[2] = Outside' /\ r[3] = HopsLeft' /\ r[4] = Len(frontier)'
        /\ r[5] = Cardinality(pending)' /\ r[6] = UnderWay'
        /\ s[1] = Phase /\ s[2] = Outside /\ s[3] = HopsLeft /\ s[4] = Len(frontier)
        /\ s[5] = Cardinality(pending) /\ s[6] = UnderWay
    BY DEF Remaining
  <2> HIDE DEF r, s
  <2>3. \A j \in 1 .. 6 : r[j] < s[j] /\ (\A i \in 1 .. j - 1 : r[i] = s[i]) => Approaches
    BY <2>1, FirstDecides DEF Approaches, r, s
  <2>4. ASSUME Phase' < Phase PROVE Approaches
    <3>1. r[1] < s[1] /\ \A i \in 1 .. 1 - 1 : r[i] = s[i]
      BY <2>2, <2>4
    <3> QED BY <2>3, <3>1
  <2>5. ASSUME Phase' = Phase, Outside' < Outside PROVE Approaches
    <3>1. r[2] < s[2] /\ \A i \in 1 .. 2 - 1 : r[i] = s[i]
      BY <2>2, <2>5
    <3> QED BY <2>3, <3>1
  <2>6. ASSUME Phase' = Phase, Outside' = Outside, HopsLeft' < HopsLeft PROVE Approaches
    <3>1. r[3] < s[3] /\ \A i \in 1 .. 3 - 1 : r[i] = s[i]
      BY <2>2, <2>6
    <3> QED BY <2>3, <3>1
  <2>7. ASSUME Phase' = Phase, Outside' = Outside, HopsLeft' = HopsLeft,
               Len(frontier)' < Len(frontier)
        PROVE  Approaches
    <3>1. r[4] < s[4] /\ \A i \in 1 .. 4 - 1 : r[i] = s[i]
      BY <2>2, <2>7
    <3> QED BY <2>3, <3>1
  <2>8. ASSUME Phase' = Phase, Outside' = Outside, HopsLeft' = HopsLeft,
               frontier' = frontier, Cardinality(pending)' < Cardinality(pending)
        PROVE  Approaches
    <3>1. r[5] < s[5] /\ \A i \in 1 .. 5 - 1 : r[i] = s[i]
      BY <2>2, <2>8
    <3> QED BY <2>3, <3>1
  <2>9. ASSUME Phase' = Phase, Outside' = Outside, HopsLeft' = HopsLeft,
               frontier' = frontier, pending' = pending, UnderWay' < UnderWay
        PROVE  Approaches
    <3>1. r[6] < s[6] /\ \A i \in 1 .. 6 - 1 : r[i] = s[i]
      BY <2>2, <2>9
    <3> QED BY <2>3, <3>1
  <2>10. CASE Seed \/ Start \/ Walked \/ Collect
    BY <2>4, <2>10 DEF Seed, Start, Walked, Collect, Phase
  <2>11. CASE Descend
    <3>1. included \subseteq included' /\ included' \subseteq Nodes
      BY <2>11 DEF Descend, Children, WalkInv, ClusterInv, TypeOK
    <3>2. Phase' = Phase /\ HopsLeft' = HopsLeft /\ frontier' = frontier /\ pending' = pending
      BY <2>11 DEF Descend, input, queues, Phase, HopsLeft, Whole
    <3>3. CASE included' = included
      <4>1. down # {} /\ down' = {} /\ up' = up
        BY <2>11, <3>3 DEF Descend
      <4>2. Outside' = Outside
        BY <3>3 DEF Outside
      <4>3. UnderWay' < UnderWay
        BY <4>1 DEF UnderWay
      <4> QED BY <2>9, <3>2, <4>2, <4>3
    <3> QED BY <2>5, <3>1, <3>2, <3>3, OutsideShrinks
  <2>12. CASE Visit
    <3>1. Phase' = Phase /\ Outside' = Outside /\ HopsLeft' = HopsLeft
      BY <2>12 DEF Visit, input, Phase, Outside, HopsLeft, Whole
    <3>2. Len(frontier)' < Len(frontier)
      BY <2>12 DEF Visit, WalkInv, ClusterInv, TypeOK
    <3> QED BY <2>7, <3>1, <3>2
  <2>13. CASE Look
    <3>1. PICK nb \in pending : /\ pending' = pending \ {nb}
                               /\ IF nb.node \in included
                                  THEN UNCHANGED <<included, down, frontier, next>>
                                  ELSE included' = included \cup {nb.node}
      BY <2>13 DEF Look
    <3>2. Phase' = Phase /\ HopsLeft' = HopsLeft /\ nb.node \in Nodes
      BY <2>13, <3>1 DEF Look, input, Phase, HopsLeft, Whole, WalkInv, ClusterInv, TypeOK
    <3>3. CASE nb.node \in included
      <4>1. Outside' = Outside /\ frontier' = frontier
        BY <3>1, <3>3 DEF Outside
      <4>2. Cardinality(pending \ {nb}) = Cardinality(pending) - 1
        BY FS_RemoveElement DEF FewPending
      <4>3. Cardinality(pending) \in Nat
        BY FS_CardinalityType DEF FewPending
      <4>4. Cardinality(pending)' < Cardinality(pending)
        BY <3>1, <4>2, <4>3
      <4> QED BY <2>8, <3>2, <4>1, <4>4
    <3>4. CASE nb.node \notin included
      <4>1. included \subseteq included' /\ included' \subseteq Nodes /\ included' # included
        BY <3>1, <3>2, <3>4 DEF WalkInv, ClusterInv, TypeOK
      <4> QED BY <2>5, <3>2, <4>1, OutsideShrinks
    <3> QED BY <3>3, <3>4
  <2>14. CASE Hop
    <3>1. Phase' = Phase /\ Outside' = Outside
      BY <2>14 DEF Hop, Phase, Outside
    <3>2. HopsLeft' < HopsLeft
      BY <2>14 DEF Hop, input, HopsLeft, Whole, WalkInv, ClusterInv, TypeOK
    <3> QED BY <2>6, <3>1, <3>2
  <2>15. CASE Climb
    <3>1. included \subseteq included' /\ included' \subseteq Nodes
      BY <2>15 DEF Climb, Parents, WalkInv, ClusterInv, TypeOK
    <3>2. Phase' = Phase /\ HopsLeft' = HopsLeft /\ frontier' = frontier /\ pending' = pending
      BY <2>15 DEF Climb, input, queues, Phase, HopsLeft, Whole
    <3>3. CASE included' = included
      <4>1. up # {} /\ up' = {} /\ down' = down
        BY <2>15, <3>3 DEF Climb
      <4>2. Outside' = Outside
        BY <3>3 DEF Outside
      <4>3. UnderWay' < UnderWay
        BY <4>1 DEF UnderWay
      <4> QED BY <2>9, <3>2, <4>2, <4>3
    <3> QED BY <2>5, <3>1, <3>2, <3>3, OutsideShrinks
  <2> QED BY <2>10, <2>11, <2>12, <2>13, <2>14, <2>15 DEF Next
<1>2. WalkInv /\ FewPending => Counted
  BY RemainingType
<1> QED BY <1>1, <1>2, WalkInvariant, PendingFinite, PTL DEF Spec
=============================================================================
