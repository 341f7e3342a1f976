----------------------------- MODULE TagClosure -----------------------------
(***************************************************************************)
(* The worklist loop of TagGraph::closure_of.                              *)
(*                                                                         *)
(* The list order of a tag's `implies` is left open: `todo` is the set of  *)
(* parents of the tag just visited that the inner loop has still to see.   *)
(***************************************************************************)
EXTENDS TagGraph, Naturals, Sequences

VARIABLES edges,    \* self.edges
          roots,    \* the argument, as a set
          visited,
          waiting,  \* the stack
          todo

closureVars == <<edges, roots, visited, waiting, todo>>

\* The roots on the stack, in any order and possibly repeated: a card's tag
\* list is taken as it comes.
ClosureInit ==
    /\ edges \in Graphs
    /\ roots \in SUBSET TagIds
    /\ visited = {}
    /\ waiting \in Seq(TagIds)
    /\ \A t \in TagIds : t \in roots <=> \E i \in DOMAIN waiting : waiting[i] = t
    /\ todo = {}

OnStack == {waiting[i] : i \in DOMAIN waiting}

\* Mutant: a tag seen before stays on the stack.
PopUnseenOnly ==
    /\ todo = {} /\ waiting # << >>
    /\ LET id == waiting[Len(waiting)]
       IN  /\ visited' = visited \cup {id}
           /\ todo' = IF id \in visited THEN {} ELSE ImpliesOf(edges, id)
           /\ waiting' = IF id \in visited THEN waiting ELSE SubSeq(waiting, 1, Len(waiting) - 1)
    /\ UNCHANGED <<edges, roots>>

\* stack.pop(), and the `continue` when the tag was visited before.
Pop ==
    /\ todo = {} /\ waiting # << >>
    /\ LET id == waiting[Len(waiting)]
       IN  /\ visited' = visited \cup {id}
           /\ todo' = IF id \in visited THEN {} ELSE ImpliesOf(edges, id)
    /\ waiting' = SubSeq(waiting, 1, Len(waiting) - 1)
    /\ UNCHANGED <<edges, roots>>

\* Mutant: parents the graph does not know are dropped.
PushKnownParent(parent) ==
    /\ parent \in todo
    /\ todo' = todo \ {parent}
    /\ waiting' = IF parent \in visited \/ parent \notin DOMAIN edges THEN waiting
                                                                 ELSE Append(waiting, parent)
    /\ UNCHANGED <<edges, roots, visited>>

\* One turn of the inner loop.
PushParent(parent) ==
    /\ parent \in todo
    /\ todo' = todo \ {parent}
    /\ waiting' = IF parent \in visited THEN waiting ELSE Append(waiting, parent)
    /\ UNCHANGED <<edges, roots, visited>>

ClosureDone == todo = {} /\ waiting = << >>

ClosureNext ==
    \/ Pop
    \/ \E parent \in TagIds : PushParent(parent)
    \/ ClosureDone /\ UNCHANGED closureVars

ClosureSpec == ClosureInit /\ [][ClosureNext]_closureVars /\ WF_closureVars(ClosureNext)

-----------------------------------------------------------------------------

ClosureTypeOK ==
    /\ edges \in Graphs
    /\ roots \in SUBSET TagIds
    /\ visited \in SUBSET TagIds
    /\ waiting \in Seq(TagIds)
    /\ todo \in SUBSET TagIds

\* When the loop ends it has visited exactly the least closed superset of
\* the roots: neither a tag too few (a card would be accepted without an
\* implied tag) nor one too many (a compliant card would be refused), also
\* for graphs with cycles and edges to unknown tags.
ClosureCorrect == ClosureDone => visited = ClosureOf(edges, roots)
=============================================================================
