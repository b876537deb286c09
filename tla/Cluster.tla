------------------------------ MODULE Cluster ------------------------------
(***************************************************************************)
(* Compute of app/cluster/cluster.go: the part of a diagram that goes into *)
(* an element share.  A diagram is a compound graph: nodes may lie in      *)
(* other nodes, and edges join them.                                       *)
(*                                                                         *)
(* The walk is taken apart into its assignments to the set "included".     *)
(* The order in which Go iterates over a map is chosen freely, that of the *)
(* slices is kept.  addDescendants and addAncestors call themselves, and    *)
(* only ever add to the set, so that the order of the calls does not show: *)
(* they go level by level here, from the nodes they added last.            *)
(***************************************************************************)
EXTENDS Integers, Sequences, FiniteSets

CONSTANTS
    Nodes,      \* the nodes of a diagram
    None,       \* no parent
    RootSets,   \* the sets of root ids a request may name
    MaxDepth,   \* bound: the depth it may ask for
    MaxEdges    \* bound: edges of a diagram

ASSUME NodesAssumption == IsFiniteSet(Nodes) /\ None \notin Nodes
ASSUME RootSetsAssumption == RootSets \subseteq SUBSET Nodes
ASSUME MaxDepthAssumption == MaxDepth \in Nat
ASSUME MaxEdgesAssumption == MaxEdges \in Nat

VARIABLES
    parent, edges, roots, depth,    \* the arguments
    place,      \* where Compute is
    included,   \* the set of that name
    down,       \* nodes addDescendants has still to descend from
    frontier,   \* the nodes to visit, a queue
    pending,    \* neighbours of the visited node to look at, in the order of rank
    next,       \* the nodes to visit in the next hop
    hop,        \* hops completed
    up,         \* nodes addAncestors has still to climb from
    core        \* history variable: the nodes included before the ancestors

input == <<parent, edges, roots, depth>>
queues == <<frontier, pending, next, hop>>
vars == <<input, place, included, down, queues, up, core>>
-----------------------------------------------------------------------------
\* No node lies in itself, however deep: graphlib sees to that.
Forest(p) == \A S \in SUBSET Nodes : S # {} => \E n \in S : p[n] \notin S

Children(S) == {n \in Nodes : parent[n] \in S}

\* Mutant: addAncestors does not stop at a node without a parent.
ParentsOrNone(S) == {parent[n] : n \in S}

Parents(S) == {parent[n] : n \in S} \cap Nodes

\* append(idx.adjOut[n], idx.adjIn[n]...): the edges out of n in the order of
\* the diagram, then those into it.
Neighbours(n) ==
    {[node |-> edges[i].w, rank |-> i] : i \in {j \in DOMAIN edges : edges[j].v = n}}
    \cup {[node |-> edges[i].v, rank |-> Len(edges) + i] :
               i \in {j \in DOMAIN edges : edges[j].w = n}}

\* The keys of a map in the order of some iteration.
Orders(S) == {s \in [1 .. Cardinality(S) -> S] : \A n \in S : \E i \in DOMAIN s : s[i] = n}

\* A request without a depth asks for the whole component.
Whole == depth < 0

Edge == [v : Nodes, w : Nodes]

\* The roots are nodes of the diagram: ValidateRootIds has refused all others.
Init ==
    /\ parent \in {p \in [Nodes -> Nodes \cup {None}] : Forest(p)}
    /\ edges \in UNION {[1 .. n -> {e \in Edge : e.v # e.w}] : n \in 0 .. MaxEdges}
    /\ roots \in RootSets
    /\ depth \in -1 .. MaxDepth
    /\ place = "seed"
    /\ included = {}
    /\ down = {}
    /\ frontier = <<>> /\ pending = {} /\ next = <<>> /\ hop = 0
    /\ up = {}
    /\ core = {}

\* The roots are included, and their descendants are next.
Seed ==
    /\ place = "seed"
    /\ place' = "start"
    /\ included' = roots
    /\ down' = roots
    /\ UNCHANGED <<input, queues, up, core>>

\* Mutant: addDescendants does not call itself.
DescendOnce ==
    /\ down # {}
    /\ included' = included \cup Children(down)
    /\ down' = {}
    /\ UNCHANGED <<input, place, queues, up, core>>

\* addDescendants goes on from each child it has just included.
Descend ==
    /\ down # {}
    /\ included' = included \cup Children(down)
    /\ down' = Children(down) \ included
    /\ UNCHANGED <<input, place, queues, up, core>>

\* Mutant: the first frontier is the roots alone.
StartFromRoots ==
    /\ place = "start"
    /\ down = {}
    /\ place' = "walk"
    /\ frontier' \in Orders(roots)
    /\ UNCHANGED <<input, included, down, pending, next, hop, up, core>>

\* The first frontier is everything included so far.
Start ==
    /\ place = "start"
    /\ down = {}
    /\ place' = "walk"
    /\ frontier' \in Orders(included)
    /\ UNCHANGED <<input, included, down, pending, next, hop, up, core>>

\* Mutant: one hop too many.
VisitMore ==
    /\ place = "walk"
    /\ pending = {} /\ down = {} /\ frontier # <<>>
    /\ Whole \/ hop <= depth
    /\ pending' = Neighbours(Head(frontier))
    /\ frontier' = Tail(frontier)
    /\ UNCHANGED <<input, place, included, down, next, hop, up, core>>

\* The next node of the frontier.
Visit ==
    /\ place = "walk"
    /\ pending = {} /\ down = {} /\ frontier # <<>>
    /\ Whole \/ hop < depth
    /\ pending' = Neighbours(Head(frontier))
    /\ frontier' = Tail(frontier)
    /\ UNCHANGED <<input, place, included, down, next, hop, up, core>>

\* Its next neighbour.  Only the neighbour itself is put in line, not the
\* descendants it brings along.
Look ==
    /\ down = {}
    /\ \E nb \in pending :
          /\ \A other \in pending : nb.rank <= other.rank
          /\ pending' = pending \ {nb}
          /\ IF nb.node \in included
             THEN UNCHANGED <<included, down, frontier, next>>
             ELSE /\ included' = included \cup {nb.node}
                  /\ down' = {nb.node}
                  /\ IF Whole
                     THEN frontier' = Append(frontier, nb.node) /\ UNCHANGED next
                     ELSE next' = Append(next, nb.node) /\ UNCHANGED frontier
    /\ UNCHANGED <<input, place, hop, up, core>>

Hop ==
    /\ place = "walk"
    /\ pending = {} /\ down = {} /\ frontier = <<>>
    /\ ~ Whole /\ hop < depth
    /\ frontier' = next
    /\ next' = <<>>
    /\ hop' = hop + 1
    /\ UNCHANGED <<input, place, included, down, pending, up, core>>

\* Mutant: the containers of the roots only.
WalkedRoots ==
    /\ place = "walk"
    /\ pending = {} /\ down = {}
    /\ IF Whole THEN frontier = <<>> ELSE hop = depth
    /\ place' = "climb"
    /\ up' = roots
    /\ core' = included
    /\ UNCHANGED <<input, included, down, queues>>

\* The walk is over; the ancestors of everything are next.
Walked ==
    /\ place = "walk"
    /\ pending = {} /\ down = {}
    /\ IF Whole THEN frontier = <<>> ELSE hop = depth
    /\ place' = "climb"
    /\ up' = included
    /\ core' = included
    /\ UNCHANGED <<input, included, down, queues>>

\* Mutant: a container brings along what lies in it.
ClimbDown ==
    /\ place = "climb"
    /\ up # {}
    /\ included' = included \cup Parents(up) \cup Children(Parents(up))
    /\ up' = Parents(up) \ included
    /\ UNCHANGED <<input, place, down, queues, core>>

\* addAncestors goes on from each parent it has just included.
Climb ==
    /\ place = "climb"
    /\ up # {}
    /\ included' = included \cup Parents(up)
    /\ up' = Parents(up) \ included
    /\ UNCHANGED <<input, place, down, queues, core>>

\* The result is the included nodes and the edges between two of them.
Collect ==
    /\ place = "climb"
    /\ up = {}
    /\ place' = "done"
    /\ UNCHANGED <<input, included, down, queues, up, core>>

Next ==
    Seed \/ Descend \/ Start \/ Visit \/ Look \/ Hop \/ Walked \/ Climb \/ Collect

Spec == Init /\ [][Next]_vars
-----------------------------------------------------------------------------
TypeOK ==
    /\ parent \in [Nodes -> Nodes \cup {None}]
    /\ edges \in Seq(Edge)
    /\ roots \subseteq Nodes
    /\ depth \in Int
    /\ place \in {"seed", "start", "walk", "climb", "done"}
    /\ included \subseteq Nodes
    /\ down \subseteq included
    /\ frontier \in Seq(included)
    /\ pending \subseteq [node : Nodes, rank : Nat]
    /\ next \in Seq(included)
    /\ hop \in Nat
    /\ up \subseteq included
    /\ core \subseteq included

\* "parent container nodes of any included node are also included"
ContainersKept ==
    place = "done" => \A n \in included : parent[n] # None => parent[n] \in included

\* A node that was included for itself brings all that lies in it along,
\* however deep and in whatever order the walk came to it; only the containers
\* added at the end do not.
DescendantsKept ==
    place \in {"climb", "done"} => Children(core) \subseteq core

\* All nodes that lie in a node of S, and S.
Within(S) ==
    {n \in Nodes : \A T \in SUBSET Nodes :
                       S \subseteq T /\ Children(T) \subseteq T => n \in T}

Linked(m, n) == \E i \in DOMAIN edges : {edges[i].v, edges[i].w} = {m, n}

\* "It does NOT add siblings -- only the container nodes themselves": what the
\* climb puts around the nodes that were included for themselves are nodes they
\* lie in, however deep, and nothing of what else lies there gets into the share.
OnlyContainersAdded ==
    place = "done" => \A n \in included \ core : \E m \in core : m \in Within({n})

\* "N hops of edge-connected neighbors and their descendants", for all k up to N.
Reach[k \in Nat] ==
    IF k = 0
    THEN Within(roots)
    ELSE LET nearer == Reach[k - 1]
         IN  nearer \cup Within({n \in Nodes : \E m \in nearer : Linked(m, n)})

\* Nothing farther than that is included before the containers are.
WithinDepth ==
    place \in {"climb", "done"} =>
        core \subseteq Reach[IF Whole THEN Cardinality(Nodes) ELSE depth]

\* The same of the neighbours in line only: those reached through nodes that
\* lie in no container.
ReachTop[k \in Nat] ==
    IF k = 0
    THEN Within(roots)
    ELSE LET nearer == ReachTop[k - 1]
         IN  nearer \cup {n \in Nodes : \E m \in nearer :
                 Linked(m, n) /\ (parent[m] = None \/ m \in Within(roots))}

\* No node that near is left out.  In a diagram without containers this and
\* WithinDepth say that the result is what the comment on Compute promises.
TopLevelReached ==
    place \in {"climb", "done"} =>
        ReachTop[IF Whole THEN Cardinality(Nodes) ELSE depth] \subseteq core

\* Of the comment: "entire connected component(s) containing the roots".  A
\* node that edges alone connect to a root is included.
WholeComponent ==
    place = "done" /\ Whole =>
        \E T \in SUBSET core :
            roots \subseteq T /\ \A m \in T, n \in Nodes \ T : ~ Linked(m, n)
=============================================================================
