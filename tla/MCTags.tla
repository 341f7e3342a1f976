------------------------------- MODULE MCTags -------------------------------
(* The implications of tags as the server enforces them (Storage), and as a *)
(* client meets them that may not know them all (Tagging).  The other one   *)
(* rests.                                                                   *)
EXTENDS MCStorage, Tagging

VARIABLE which  \* the part that acts

mcVars == <<which, vars, taggingVars>>

\* What the client starts from when it rests
Plain == Content([id \in Listed |-> <<Body(0, {})>>], [t \in TagIds |-> <<Body(0, {})>>])

MCInit ==
    /\ \/ which = "server" /\ server = Plain
       \/ which = "client" /\ server \in Initial
    /\ Init /\ TaggingInit

Serving == which = "server" /\ Next /\ UNCHANGED <<which, taggingVars>>
Editing == which = "client" /\ TaggingNext /\ UNCHANGED <<which, vars>>

MCSpec == MCInit /\ [][Serving \/ Editing]_mcVars
=============================================================================
