----------------------------- MODULE MCCardList -----------------------------
(* The list of cards, one concern at a time: its filters, its order and    *)
(* the URL (View), where a card is placed (Ordering), swipes, shortcuts,   *)
(* menus and check boxes (Edits), and the cache of linked cards (Links).   *)
(* The others rest.                                                        *)
EXTENDS View, Ordering, Edits, Links, TLC

CONSTANTS t1, t2

VARIABLE which     \* the part that acts

mcVars == <<which, viewVars, orderVars, editVars, linkVars>>

\* One content with two task lines, and one with a task line in a code block.
Line(kind) == [kind |-> kind, done |-> FALSE]
TwoTasks == {<<Line("item"), Line("text"), Line("item")>>}
WithCode == {<<Line("code"), Line("item")>>}
OnOrOff  == {[on_set |-> TRUE, on_clear |-> TRUE, on_blaze |-> TRUE],
             [on_set |-> TRUE, on_clear |-> FALSE, on_blaze |-> TRUE],
             [on_set |-> FALSE, on_clear |-> TRUE, on_blaze |-> FALSE]}

\* Four cards in a chain of links, two tags; two cards are due on the same day, the
\* one of the lower priority later.
Card(id, blazed, its, due, time, priority, hit, links) ==
    [id |-> id, blazed |-> blazed, tags |-> its, due_date |-> due, due_time |-> time, content_hit |-> hit,
     title_hits |-> {t1}, priority |-> priority, modified_at |-> id, created_at |-> 3 - id,
     title |-> id % 2, links |-> links]
FourCards == <<Card(1, FALSE, {}, 1, 0, 5, TRUE, {2}), Card(2, FALSE, {t1}, 2, 0, 4, FALSE, {3}),
               Card(3, FALSE, {t1, t2}, NoDay, 0, 3, TRUE, {4}), Card(4, TRUE, {}, 2, 12, 2, TRUE, {})>>

Plain == build_query_string(DefaultView, none)
ThreeUrls == {Plain,
              [Plain EXCEPT !.due = "upcoming", !.tag = {t1}, !.entity = 1],
              [Plain EXCEPT !.no_tags = TRUE, !.tag_mode = "And", !.tag = {t2}]}

MCInit ==
    /\ which \in {"view", "order", "edits", "links"}
    /\ ViewInit
    /\ which # "view" => url.no_tags
    /\ OrderInit
    /\ EditsInit
    /\ which # "edits" => coupling = (CHOOSE c \in Couplings : TRUE) /\ swipe_left_mode = "levels"
    /\ LinksInit
    /\ which # "links" => DOMAIN cards = {}

Views == which = "view" /\ ViewNext /\ UNCHANGED <<which, orderVars, editVars, linkVars>>
Order == which = "order" /\ OrderNext /\ UNCHANGED <<which, viewVars, editVars, linkVars>>
Changes == which = "edits" /\ EditsNext /\ UNCHANGED <<which, viewVars, orderVars, linkVars>>
Caching == which = "links" /\ LinksNext /\ UNCHANGED <<which, viewVars, orderVars, editVars>>

MCSpec == MCInit /\ [][Views \/ Order \/ Changes \/ Caching]_mcVars

\* The page starts with no list, or with one of two cards.
NoneOrTwo == {ids \in SUBSET Ids : Cardinality(ids) \in {0, 2}}

\* The cards of Links differ in their links only.
Symmetry == Permutations(Ids)
=============================================================================
