----------------------------- MODULE MCTagGraph -----------------------------
(* Every graph over three tags: detect_cycle, then closure_of from every   *)
(* set of roots.                                                           *)
EXTENDS TagCycle, TagClosure, SequencesExt

VARIABLE begun  \* closure_of was called

mcVars == <<cycleVars, closureVars, begun>>

MCInit ==
    /\ CycleInit
    /\ edges = graph /\ roots = {} /\ visited = {} /\ waiting = << >> /\ todo = {}
    /\ begun = FALSE

\* The roots on the stack without repetition, in one order.
CallClosure ==
    /\ CycleDone /\ ~begun
    /\ begun' = TRUE
    /\ roots' \in SUBSET TagIds
    /\ waiting' = SetToSeq(roots')
    /\ UNCHANGED <<cycleVars, edges, visited, todo>>

Search  == CycleNext /\ UNCHANGED <<closureVars, begun>>
Closure == begun /\ ClosureNext /\ UNCHANGED <<cycleVars, begun>>

\* Each loop goes on while it can.
MCSpec ==
    /\ MCInit /\ [][Search \/ CallClosure \/ Closure]_mcVars
    /\ WF_mcVars(Search) /\ WF_mcVars(CallClosure) /\ WF_mcVars(Closure)

\* find_cycle ends on every graph, and closure_of once it is called.
CallTerminates == <>CycleDone /\ [](begun => <>ClosureDone)
=============================================================================
