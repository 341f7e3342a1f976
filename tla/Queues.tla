------------------------------- MODULE Queues -------------------------------
(***************************************************************************)
(* The filters of the offline queue (Vec::retain in state/sync.rs and      *)
(* Iterator::filter in lib/src/sync.rs) and of the list of cards           *)
(* (filter.rs).  They are written as a recursive function: SelectSeq takes *)
(* an operator and is opaque to the provers.                               *)
(***************************************************************************)
EXTENDS Naturals, Sequences

\* The entries of a queue at the given places, in order.
Retained(queue, places) ==
    LET upTo[n \in 0 .. Len(queue)] ==
            IF n = 0 THEN << >>
            ELSE IF n \in places THEN Append(upTo[n - 1], queue[n])
            ELSE upTo[n - 1]
    IN  upTo[Len(queue)]

\* q.retain(|c| c.id() != id)
Without(queue, id) == Retained(queue, {i \in DOMAIN queue : queue[i].id # id})
=============================================================================
