----------------------------- MODULE ServerList -----------------------------
(***************************************************************************)
(* What the server promises its clients, whatever its tables look like: a  *)
(* list of entities, each an append-only chain of versions until it is     *)
(* deleted for good, and a sequence number that every change is stamped    *)
(* with.  Storage implements it, and so does the server half of            *)
(* SyncClient.                                                             *)
(***************************************************************************)
EXTENDS Naturals, Sequences

CONSTANT Ids

VARIABLES chain,      \* the versions of each entity; empty: none, or deleted
          deleted,    \* tombstoned ids
          stamp,      \* the sequence number of the last change of each entity
          sequence

listVars == <<chain, deleted, stamp, sequence>>

ListInit ==
    /\ chain = [id \in Ids |-> << >>]
    /\ deleted = {}
    /\ stamp = [id \in Ids |-> 0]
    /\ sequence = 0

Extends(old, new) == Len(old) < Len(new) /\ SubSeq(new, 1, Len(old)) = old

\* One accepted request or batch changes the entities S: each gets further
\* versions or a tombstone, and all of them the next sequence number.
PublishChanges(S) ==
    /\ S # {} /\ S \cap deleted = {}
    /\ sequence' = sequence + 1
    /\ stamp' = [id \in Ids |-> IF id \in S THEN sequence + 1 ELSE stamp[id]]
    /\ deleted \subseteq deleted' /\ deleted' \subseteq deleted \cup S
    /\ DOMAIN chain' = Ids
    /\ \A id \in Ids :
          /\ id \in deleted' => chain'[id] = << >>
          /\ id \in S \ deleted' => Extends(chain[id], chain'[id])
          /\ id \notin S \cup deleted' => chain'[id] = chain[id]

ListNext == \E S \in SUBSET Ids : PublishChanges(S)

ListSpec == ListInit /\ [][ListNext]_listVars
=============================================================================
