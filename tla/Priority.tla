------------------------------ MODULE Priority ------------------------------
(***************************************************************************)
(* Where a card goes in the list: clients/lib/src/priority.rs.             *)
(*                                                                         *)
(* A list is a sequence of cards by descending priority.  MIN and MAX stand *)
(* for i64::MIN and i64::MAX; the code computes in i128, so nothing wraps. *)
(* The random jitter makes a placement one of a set.                       *)
(***************************************************************************)
EXTENDS Integers, Sequences, FiniteSets, FiniteSetsExt

CONSTANTS MIN, MAX,        \* the range of a priority
          MAX_EDGE_GAP,    \* how far from the list an edge insert may land
          JITTER_DIVISOR

ASSUME PriorityRange == MIN \in Int /\ MAX \in Int /\ MIN < MAX
ASSUME PriorityGaps  == MAX_EDGE_GAP \in Nat \ {0, 1} /\ JITTER_DIVISOR \in Nat \ {0}

Priorities == MIN .. MAX

\* The members of a finite set in a strict order, a set of pairs.
InOrder(S, Before) == [n \in 1 .. Cardinality(S) |->
    CHOOSE x \in S : Cardinality({y \in S : <<y, x>> \in Before}) = n - 1]
Increasing(S) == {p \in S \X S : p[1] < p[2]}

Clamp(x, low, high) == IF x < low THEN low ELSE IF x > high THEN high ELSE x

\* The midpoint, moved by a jitter that keeps it off both bounds.
compute_priority(upper, lower) ==
    LET gap      == upper - lower
        midpoint == lower + gap \div 2
        range    == Max({gap \div JITTER_DIVISOR, 1})
    IN  IF gap <= 2 THEN {midpoint}
        ELSE {Clamp(midpoint + j, lower + 1, upper - 1) : j \in -range .. range}

\* A virtual bound opposite a real card comes closer to that card.
cap_edge_bounds(upper, lower) ==
    IF upper - lower <= MAX_EDGE_GAP THEN <<upper, lower>>
    ELSE <<IF upper = MAX /\ lower # MIN THEN Min({lower + MAX_EDGE_GAP, MAX}) ELSE upper,
           IF lower = MIN /\ upper # MAX THEN Max({upper - MAX_EDGE_GAP, MIN}) ELSE lower>>

\* InsertPosition, as the number of cards that stay above.
Top           == 0
Bottom(cards) == Len(cards)
At(cards, n)  == Min({n, Len(cards)})

bounds_for_position(cards, above) ==
    <<IF above = 0 THEN MAX ELSE cards[above].priority,
      IF above < Len(cards) THEN cards[above + 1].priority ELSE MIN>>

NoShift == [id \in {} |-> MIN]
Simple(p) == [priority |-> p, shifted |-> NoShift]

\* Cards i and i + 1 have no free priority between them.
Packed(cards, i) == cards[i].priority - cards[i + 1].priority <= 1

\* Mutant: the neighbour above is left out of the run.
RunFromBelow(cards, above) ==
    LET right0 == Min({above + 1, Len(cards)})
    IN  <<right0,
          Max({r \in right0 .. Len(cards) : \A i \in right0 .. r - 1 : Packed(cards, i)})>>

\* The run of packed cards around the insertion point.
PackedRun(cards, above) ==
    LET left0  == Max({above, 1})
        right0 == Min({above + 1, Len(cards)})
    IN  <<Min({l \in 1 .. left0 : \A i \in l .. left0 - 1 : Packed(cards, i)}),
          Max({r \in right0 .. Len(cards) : \A i \in right0 .. r - 1 : Packed(cards, i)})>>

\* Spread the run and the new card evenly over the room around the run.
Redistributed(cards, above, left, right) ==
    LET range_upper == IF left = 1 THEN MAX ELSE cards[left - 1].priority
        range_lower == IF right = Len(cards) THEN MIN ELSE cards[right + 1].priority
        slots    == right - left + 2
        step     == Max({(range_upper - range_lower) \div (slots + 1), 1})
        new_slot == above - left + 1
        Slot(s)  == Clamp(range_upper - step * (s + 1), MIN, MAX)
        NewP(i)  == Slot(IF i - left < new_slot THEN i - left ELSE i - left + 1)
        moved    == {i \in left .. right : NewP(i) # cards[i].priority}
    IN  [priority |-> Slot(new_slot),
         shifted  |-> [id \in {cards[i].id : i \in moved} |->
                          NewP(CHOOSE i \in moved : cards[i].id = id)]]

rebalance(cards, above) ==
    LET run == PackedRun(cards, above) IN Redistributed(cards, above, run[1], run[2])

\* try_place
Place(cards, upper, lower, above) ==
    IF upper - lower > 1 THEN {Simple(p) : p \in compute_priority(upper, lower)}
    ELSE IF cards = << >> THEN {Simple(p) : p \in compute_priority(MAX, MIN)}
    ELSE {rebalance(cards, above)}

\* place_card: the placements of a card not in the list below `above` cards.
place_card(cards, above) ==
    LET bounds == bounds_for_position(cards, above)
        capped == cap_edge_bounds(bounds[1], bounds[2])
    IN  Place(cards, capped[1], capped[2], above)

\* move_card: the same in the list without the card.
Others(cards, id) ==
    LET places == {i \in DOMAIN cards : cards[i].id # id}
        at     == InOrder(places, Increasing(places))
    IN  [n \in DOMAIN at |-> cards[at[n]]]
move_card(cards, id, above) == place_card(Others(cards, id), above)

\* The position is that of the first card not above the desired priority.
Position(cards, desired) == Cardinality({i \in DOMAIN cards : cards[i].priority > desired})
resolve_collision(cards, desired) == place_card(cards, Position(cards, desired))
=============================================================================
