------------------------------ MODULE TagGraph ------------------------------
(***************************************************************************)
(* The tag implication graph of protocol/src/tag/graph.rs, defined by what *)
(* its queries mean.  TagClosure and TagCycle model the two loops that     *)
(* compute them; their proof modules show that they agree.                 *)
(*                                                                         *)
(* A graph is a function from the known tags to the set of tags each one   *)
(* implies directly.  An edge may point at a tag that is not known.        *)
(***************************************************************************)
CONSTANT TagIds

Graphs == UNION {[T -> SUBSET TagIds] : T \in SUBSET TagIds}

\* A tag that is not in the graph implies nothing.
ImpliesOf(g, t) == IF t \in DOMAIN g THEN g[t] ELSE {}

ClosedUnder(g, S) == \A t \in S : ImpliesOf(g, t) \subseteq S

\* The least set that holds `roots` and is closed under implication.
ClosureOf(g, roots) ==
    {x \in TagIds : \A S \in SUBSET TagIds :
                       roots \subseteq S /\ ClosedUnder(g, S) => x \in S}

MissingForCard(g, tags) == ClosureOf(g, tags) \ tags

\* No non-empty set of tags in which each member implies a member.
Acyclic(g) ==
    \A S \in SUBSET TagIds :
        S # {} => \E t \in S : ImpliesOf(g, t) \cap S = {}

\* Edges to tags the graph does not know.
Dangling(g) == {t \in DOMAIN g : ~(g[t] \subseteq DOMAIN g)}
=============================================================================
