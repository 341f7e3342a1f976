------------------------------ MODULE TagCycle ------------------------------
(***************************************************************************)
(* The depth-first search of TagGraph::detect_cycle.                       *)
(*                                                                         *)
(* A stack entry keeps the parents it has still to look at as a set (the   *)
(* code keeps a sorted list and an index); the order in which starts and   *)
(* parents are taken is left open.                                         *)
(***************************************************************************)
EXTENDS TagGraph, Naturals, Sequences

VARIABLES graph,    \* self.edges
          color,    \* colour of every tag; one missing in the code's map is White
          stack,    \* entries [node, todo]
          path,     \* the gray tags, in the order they were entered
          cycle     \* the reported cycle, << >> while there is none

cycleVars == <<graph, color, stack, path, cycle>>

Colors == {"White", "Gray", "Black"}
Entries == [node: TagIds, todo: SUBSET TagIds]

CycleInit ==
    /\ graph \in Graphs
    /\ color = [t \in TagIds |-> "White"]
    /\ stack = << >> /\ path = << >> /\ cycle = << >>

Enter(t) ==
    /\ color' = [color EXCEPT ![t] = "Gray"]
    /\ path' = Append(path, t)

\* The outer loop takes the next white tag of the graph.
Start(t) ==
    /\ cycle = << >> /\ stack = << >>
    /\ t \in DOMAIN graph /\ color[t] = "White"
    /\ Enter(t)
    /\ stack' = <<[node |-> t, todo |-> ImpliesOf(graph, t)]>>
    /\ UNCHANGED <<graph, cycle>>

Top == stack[Len(stack)]

Finish ==
    /\ cycle = << >> /\ stack # << >> /\ Top.todo = {}
    /\ color' = [color EXCEPT ![Top.node] = "Black"]
    /\ path' = SubSeq(path, 1, Len(path) - 1)
    /\ stack' = SubSeq(stack, 1, Len(stack) - 1)
    /\ UNCHANGED <<graph, cycle>>

\* The parent list of the top entry, one further.
Advanced(next) == [stack EXCEPT ![Len(stack)].todo = @ \ {next}]

Descend(next) ==
    /\ cycle = << >> /\ stack # << >> /\ next \in Top.todo
    /\ color[next] = "White"
    /\ Enter(next)
    /\ stack' = Append(Advanced(next), [node |-> next, todo |-> ImpliesOf(graph, next)])
    /\ UNCHANGED <<graph, cycle>>

\* Mutant: the whole path is reported, not its part from the repeated tag.
BackEdgeWholePath(next) ==
    /\ cycle = << >> /\ stack # << >> /\ next \in Top.todo
    /\ color[next] = "Gray"
    /\ stack' = Advanced(next)
    /\ cycle' = Append(path, next)
    /\ UNCHANGED <<graph, color, path>>

\* A parent on the current path closes a cycle, which is cut out of the path.
BackEdge(next) ==
    /\ cycle = << >> /\ stack # << >> /\ next \in Top.todo
    /\ color[next] = "Gray"
    /\ stack' = Advanced(next)
    /\ \E i \in DOMAIN path :
          /\ path[i] = next /\ \A j \in 1 .. i - 1 : path[j] # next
          /\ cycle' = Append(SubSeq(path, i, Len(path)), next)
    /\ UNCHANGED <<graph, color, path>>

\* Mutant: an edge of a tag to itself is passed over.
SkipSelf(next) ==
    /\ cycle = << >> /\ stack # << >> /\ next \in Top.todo
    /\ color[next] = "Black" \/ next = Top.node
    /\ stack' = Advanced(next)
    /\ UNCHANGED <<graph, color, path, cycle>>

Skip(next) ==
    /\ cycle = << >> /\ stack # << >> /\ next \in Top.todo
    /\ color[next] = "Black"
    /\ stack' = Advanced(next)
    /\ UNCHANGED <<graph, color, path, cycle>>

CycleDone ==
    cycle # << >> \/ (stack = << >> /\ \A t \in DOMAIN graph : color[t] # "White")

CycleNext ==
    \/ Finish
    \/ \E t \in TagIds : Start(t) \/ Descend(t) \/ BackEdge(t) \/ Skip(t)
    \/ CycleDone /\ UNCHANGED cycleVars

CycleSpec == CycleInit /\ [][CycleNext]_cycleVars /\ WF_cycleVars(CycleNext)

-----------------------------------------------------------------------------

CycleTypeOK ==
    /\ graph \in Graphs
    /\ color \in [TagIds -> Colors]
    /\ stack \in Seq(Entries)
    /\ path \in Seq(TagIds)
    /\ cycle \in Seq(TagIds)

\* Each tag of the list implies the next and the last is the first.
IsCycle(g, p) ==
    /\ Len(p) > 1 /\ p[1] = p[Len(p)]
    /\ \A i \in 1 .. Len(p) - 1 : p[i + 1] \in ImpliesOf(g, p[i])

\* A reported cycle is a cycle of the graph, told edge by edge.
ReportedCycleReal == cycle # << >> => IsCycle(graph, cycle)

\* A search that ends without one has seen an acyclic graph, although it
\* starts only from known tags and never looks at a black tag again.
SilenceMeansAcyclic == CycleDone /\ cycle = << >> => Acyclic(graph)

\* detect_cycle reports a cycle, a real one, if and only if there is one.
CycleCheckCorrect == ReportedCycleReal /\ SilenceMeansAcyclic
=============================================================================
