------------------------------ MODULE TagPicks ------------------------------
(***************************************************************************)
(* What the client picks by the tag graph: the tags of a card in its       *)
(* editor, the tags another one may imply, and the cards an edit of a tag  *)
(* has to update.  A card is its set of tags.                              *)
(***************************************************************************)
EXTENDS TagGraph

\* A chip is added: the tag with all it implies.
WithTag(g, selected, t) == selected \cup ClosureOf(g, {t})

\* A chip is removed, with every tag that requires it; the rest is closed again.
remove_editor_tag_cascade(g, selected, t) ==
    ClosureOf(g, {u \in selected \ {t} : t \notin ClosureOf(g, {u})})

toggle_editor_tag(g, selected, t) ==
    IF t \in selected THEN remove_editor_tag_cascade(g, selected, t) ELSE WithTag(g, selected, t)

\* The tags the detail panel offers: those that do not lead back.
Candidates(g, t, chosen) ==
    {u \in DOMAIN g \ (chosen \cup {t}) : t \notin ClosureOf(g, {u})}

\* The graph after an edit of a tag.
Upsert(g, t, implies) == [u \in DOMAIN g \cup {t} |-> IF u = t THEN implies ELSE g[u]]

affected_cards_for_change(next, cards) ==
    {c \in DOMAIN cards : MissingForCard(next, cards[c]) # {}}
=============================================================================
