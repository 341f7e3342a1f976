------------------------------ MODULE Ordering ------------------------------
(***************************************************************************)
(* A card list under the operations that place cards: new cards            *)
(* (card_editor.rs), moves among the cards a filter shows (card_detail.rs, *)
(* keyboard.rs, drag_drop.rs) and the resolution of a refused priority     *)
(* (sync.rs).  Cards also come and go with the syncs.                      *)
(*                                                                         *)
(* A card is its place in the list, until the next operation.              *)
(***************************************************************************)
EXTENDS Priority, SequencesExt

CONSTANT MaxCards    \* bound on the length of the list

\* There are more priorities than cards.
ASSUME PrioritiesSuffice == MaxCards \in Nat /\ MaxCards < MAX - MIN

VARIABLES list,    \* the priorities, best first
          call     \* the last placement: the cards it saw, where, and the result

orderVars == <<list, call>>

Places == DOMAIN list
NoCall == [op |-> "none"]
Placed == 0   \* the id of a card that is not in the list yet

\* sort_by_priority; equal ones come in any order, which is a matter of their
\* names.
Sorted(ps) ==
    LET Better == {p \in (DOMAIN ps) \X (DOMAIN ps) :
                      ps[p[1]] > ps[p[2]] \/ (ps[p[1]] = ps[p[2]] /\ p[1] < p[2])}
        at     == InOrder(DOMAIN ps, Better)
    IN  [n \in DOMAIN at |-> ps[at[n]]]

\* The cards in some places of the list, which is sorted.
CardsAt(places) == LET at == InOrder(places, Increasing(places))
                   IN  [n \in DOMAIN at |-> [id |-> at[n], priority |-> list[at[n]]]]

OrderInit == list = << >> /\ call = NoCall

\* The list after the shifted cards and the placed one were upserted.
Upserted(id, placement) ==
    LET after == [p \in Places |-> IF p = id THEN placement.priority
                                   ELSE IF p \in DOMAIN placement.shifted THEN placement.shifted[p]
                                   ELSE list[p]]
    IN  Sorted(IF id = Placed THEN Append(after, placement.priority) ELSE after)

Apply(op, id, cards, above, placement) ==
    /\ list' = Upserted(id, placement)
    /\ call' = [op |-> op, cards |-> cards, above |-> above, placement |-> placement]

\* A new card at the top, at the bottom, or next to another card; the
\* editor sorts the whole list.
NewCard(above) ==
    /\ Len(list) < MaxCards /\ above \in 0 .. Len(list)
    /\ \E pl \in place_card(CardsAt(Places), above) : Apply("new", Placed, CardsAt(Places), above, pl)

\* A move among the cards the filter shows.
MoveCard(id, shown, above) ==
    /\ id \in shown /\ above \in 0 .. Cardinality(shown) - 1
    /\ \E pl \in move_card(CardsAt(shown), id, above) :
          Apply("move", id, Others(CardsAt(shown), id), above, pl)

\* The server refused the priority because another card has it.
Resolve(id) ==
    LET cards == CardsAt(Places \ {id})
    IN  /\ \E p \in Places \ {id} : list[p] = list[id]
        /\ \E pl \in resolve_collision(cards, list[id]) :
              Apply("resolve", id, cards, Position(cards, list[id]), pl)

\* A sync brings a card another client has placed, or takes one away.
Arrive(p) ==
    /\ Len(list) < MaxCards /\ p \notin Range(list)
    /\ list' = Sorted(Append(list, p))
    /\ call' = NoCall

Leave(id) ==
    /\ list' = RemoveAt(list, id)
    /\ call' = NoCall

OrderNext ==
    \/ \E above \in 0 .. Len(list) : NewCard(above)
    \/ \E id \in Places : Resolve(id) \/ Leave(id)
    \/ \E shown \in SUBSET Places : \E id \in shown, above \in 0 .. Len(list) : MoveCard(id, shown, above)
    \/ \E p \in MIN .. MAX - 1 : Arrive(p)

OrderSpec == OrderInit /\ [][OrderNext]_orderVars

-----------------------------------------------------------------------------
(* Properties *)

After(c) ==
    LET pl == call.placement
    IN  IF c.id \in DOMAIN pl.shifted THEN pl.shifted[c.id] ELSE c.priority

\* Nobody the placement saw shared a priority.
Distinct(cards) == \A i, j \in DOMAIN cards : cards[i].priority = cards[j].priority => i = j

\* A placement puts the card strictly between its neighbours and keeps the
\* order of the cards it saw, at the ends of the i64 range and however packed
\* the list is, whether or not it had to shift cards.
OrderKept ==
    call # NoCall /\ Distinct(call.cards) =>
        /\ \A i \in 1 .. Len(call.cards) - 1 : After(call.cards[i]) > After(call.cards[i + 1])
        /\ \A i \in DOMAIN call.cards :
              IF i <= call.above THEN After(call.cards[i]) > call.placement.priority
                                 ELSE call.placement.priority > After(call.cards[i])

\* A card placed at an end of the list lands next to the last card there, so
\* that a series of such inserts uses up the range linearly.  (A card at
\* i64::MIN or i64::MAX itself is taken for a virtual bound.)
EdgeInsertsStayClose ==
    call # NoCall /\ call.cards # << >> /\ call.placement.shifted = NoShift =>
        /\ call.above = 0 /\ call.cards[1].priority # MIN =>
              call.placement.priority - call.cards[1].priority < MAX_EDGE_GAP
        /\ call.above = Len(call.cards) /\ call.cards[Len(call.cards)].priority # MAX =>
              call.cards[Len(call.cards)].priority - call.placement.priority < MAX_EDGE_GAP

\* Resolving a collision ends it when no other cards collide.
ResolutionEnds ==
    call # NoCall /\ call.op \in {"new", "resolve"} /\ Distinct(call.cards) =>
        \A i, j \in Places : list[i] = list[j] => i = j

\* What new cards, moves and resolved collisions promise the rest of the list.
PlacementLands == OrderKept /\ EdgeInsertsStayClose /\ ResolutionEnds
=============================================================================
