----------------------------- MODULE FlowGraph ------------------------------
(***************************************************************************)
(* A flow definition as the editor saves it, the checks publishing makes   *)
(* of it, and the walk a run takes through it.                             *)
(*                                                                         *)
(* A definition is a record: type maps each node to its type, edges is the *)
(* list of edges in the order the editor stored them, since the lookups    *)
(* take the first edge that fits, and filled is the set of send nodes with *)
(* a template and a sender.                                                *)
(***************************************************************************)
EXTENDS Sequences, Naturals, FiniteSets

CONSTANT Node

NodeType == {"trigger", "send", "delay", "branch", "exit"}
Handle   == {"", "yes", "no"}

NoNode == "none"

EmptyDefinition == [type |-> [n \in {} |-> ""], edges |-> <<>>, filled |-> {}]

Nodes(def) == DOMAIN def.type

EdgesOf(def) == {def.edges[i] : i \in DOMAIN def.edges}

Outgoing(def, n) == {e \in EdgesOf(def) : e.source = n}

\* The target of the first edge among those at the given places, or none.
FirstTarget(def, fits) ==
    IF fits = {} THEN NoNode
    ELSE def.edges[CHOOSE i \in fits : \A j \in fits : i <= j].target

ResolveNextNodeId(def, n) ==
    FirstTarget(def, {i \in DOMAIN def.edges : def.edges[i].source = n})

ResolveBranchNextNodeId(def, n, branch) ==
    FirstTarget(def, {i \in DOMAIN def.edges : /\ def.edges[i].source = n
                                              /\ def.edges[i].handle = branch})

TriggerNodes(def) == {n \in Nodes(def) : def.type[n] = "trigger"}

\* loadEntryNodeId: the node after the trigger.
EntryNodeId(def) == ResolveNextNodeId(def, CHOOSE n \in TriggerNodes(def) : TRUE)

-----------------------------------------------------------------------------
\* What n leads to along the edges of the set: the least set with n that no
\* edge leaves.
Closure(edges, n) ==
    LET closed == {S \in SUBSET Node : n \in S /\ \A e \in edges : e.source \in S => e.target \in S}
    IN  {x \in Node : \A S \in closed : x \in S}

CollectReachable(def, n) == Closure(EdgesOf(def), n)

\* A node the walk can come back to.
OnCycle(def, n) == \E e \in Outgoing(def, n) : n \in CollectReachable(def, e.target)

\* Mutant: only a node that points at itself is a cycle.
SelfLoopReachableFrom(def, n) ==
    \E x \in CollectReachable(def, n) : \E e \in Outgoing(def, x) : e.target = x

CycleReachableFrom(def, n) == \E x \in CollectReachable(def, n) : OnCycle(def, x)

\* The edges pathReachesExit follows: both sides of a branch, every edge of
\* another node, none from an exit node.
Followed(def) ==
    {e \in EdgesOf(def) : /\ e.source \in Nodes(def) /\ def.type[e.source] # "exit"
                          /\ def.type[e.source] = "branch" =>
                               /\ e.handle \in {"yes", "no"}
                               /\ e.target = ResolveBranchNextNodeId(def, e.source, e.handle)}

\* A node where a run would end without an exit node: a branch that misses a
\* side, or any other node with no way out.
DeadEnd(def, n) ==
    /\ n \in Nodes(def) /\ def.type[n] # "exit"
    /\ IF def.type[n] = "branch"
       THEN \E h \in {"yes", "no"} : ResolveBranchNextNodeId(def, n, h) = NoNode
       ELSE Outgoing(def, n) = {}

PathReachesExit(def, n) ==
    \A x \in Closure(Followed(def), n) : ~DeadEnd(def, x)

\* No error of validateFlowDefinition.
Valid(def) ==
    /\ Cardinality(TriggerNodes(def)) = 1
    /\ \A n \in Nodes(def) : def.type[n] = "send" => n \in def.filled
    /\ \A trigger \in TriggerNodes(def) :
         /\ Outgoing(def, trigger) # {}
         /\ ~CycleReachableFrom(def, trigger)
         /\ \A n \in CollectReachable(def, trigger) \cap Nodes(def) :
              def.type[n] = "branch" => PathReachesExit(def, n)
=============================================================================
