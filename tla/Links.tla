-------------------------------- MODULE Links --------------------------------
(***************************************************************************)
(* Links between cards (clients/lib/src/display.rs) and the cache of what  *)
(* each card reaches by them, which card_list.rs fills while the browser   *)
(* is idle: selective invalidation by content hashes, a pass cancelled by  *)
(* the next, a component of the graph filled at once, the copy in OPFS.    *)
(*                                                                         *)
(* The content of a card is the set of the UUIDs in it.  They may name     *)
(* cards that do not exist.  A hash of content is the content; ZeroHash    *)
(* stands for the hash of none.                                            *)
(***************************************************************************)
EXTENDS Naturals, FiniteSets, FiniteSetsExt, Functions, Option

CONSTANTS Ids,            \* UUIDs of cards
          Sessions,       \* bound: the cards of the list at the start
          MaxChanges,     \* bound on the changes of the list
          MaxLinks,       \* bound on the links of a card
          OpenFrom        \* bound: the detail panel is opened after that many changes

ASSUME FewIds == IsFiniteSet(Ids)
ASSUME SessionsAreCards == Sessions \subseteq SUBSET Ids
\* No content has the hash of none.
ASSUME NoneIsNoContent == \A content \in SUBSET Ids : content # none

VARIABLES
    cards,                   \* AppState: UUID -> [content, count]
    show_list_link_counts, recursive_links,
    link_graph_cache,        \* UUID -> [hash, reach]
    last_fingerprint,
    seen,                    \* the cards the last pass captured
    todo, filled,            \* its queue (card_ids) and what it has filled
    hashes,                  \* the content hashes it took
    disk,                    \* OPFS: the cards and the link cache
    changes,                 \* changes so far
    meddled                  \* history: the detail panel put an entry in

linkVars == <<cards, show_list_link_counts, recursive_links, link_graph_cache, last_fingerprint, seen,
              todo, filled, hashes, disk, changes, meddled>>

Empty == <<>>
ZeroHash == none

-----------------------------------------------------------------------------
(* The graph: display.rs *)

extract_card_links(id, cs) == cs[id].content \ {id}
extract_back_links(id, cs) == {c \in DOMAIN cs \ {id} : id \in cs[c].content}

neighbors(id, cs) == (IF id \in DOMAIN cs THEN extract_card_links(id, cs) ELSE {})
                     \cup extract_back_links(id, cs)

\* Breadth first, one round per card at most.
expand_linked_cards(id, cs) ==
    LET round[n \in 0 .. Cardinality(Ids)] ==
            IF n = 0 THEN {id}
            ELSE LET reached == round[n - 1]
                 IN  reached \cup UNION {neighbors(x, cs) : x \in reached}
    IN  round[Cardinality(Ids)] \ {id}

\* Direct links between cards that exist, as compute_all_link_counts counts them.
Outgoing(id, cs) == extract_card_links(id, cs) \cap DOMAIN cs
LinkCounts(id, cs) ==
    LET back == {c \in DOMAIN cs : id \in Outgoing(c, cs)}
    IN  [forward |-> Cardinality(Outgoing(id, cs) \ back), back |-> Cardinality(back \ Outgoing(id, cs)),
         mutual |-> Cardinality(Outgoing(id, cs) \cap back)]

Linked(cs) == {id \in DOMAIN cs : LET n == LinkCounts(id, cs) IN n.forward + n.back + n.mutual > 0}

-----------------------------------------------------------------------------
(* The pass of card_list.rs, started by a change of what it reads *)

\* The count of cards and the sum of their versions.
Fingerprint(cs) == <<Cardinality(DOMAIN cs), MapThenSumSet(LAMBDA id : cs[id].count, DOMAIN cs)>>
Unset == <<0, 0>>
NoPass == << >>

content_hash(id, cs, needed) == IF id \in needed \cap DOMAIN cs THEN cs[id].content ELSE ZeroHash

\* Mutant: the entries that reach a changed card stay.
InvalidatedAlone(cache, cs) ==
    Restrict(cache, {id \in DOMAIN cache \cap DOMAIN cs : cache[id].hash = cs[id].content})

\* Entries whose card changed or is gone, those that reach such a card, and those
\* of cards that are gone, are dropped.
Invalidated(cache, cs) ==
    LET changed == {id \in DOMAIN cache : id \notin DOMAIN cs \/ cache[id].hash # cs[id].content}
    IN  Restrict(cache, {id \in (DOMAIN cache \cap DOMAIN cs) \ changed :
                            cache[id].reach \cap changed = {}})

passVars == <<link_graph_cache, last_fingerprint, seen, todo, filled, hashes>>

Queued(cache, kept) == Linked(cards') \ DOMAIN kept

\* What the pass makes of a cache, given the fingerprint of the one before.
PassFrom(cache, fingerprint) ==
    LET kept   == Invalidated(cache, cards')
        queued == Queued(cache, kept)
        none_left == [cache |-> kept, fingerprint |-> Fingerprint(cards'), seen |-> cards',
                      todo |-> {}, hashes |-> {}, filled |-> {}]
    IN  IF ~show_list_link_counts' \/ ~recursive_links'
        THEN [none_left EXCEPT !.cache = Empty, !.fingerprint = Unset]
        ELSE IF Fingerprint(cards') = fingerprint
        THEN [cache |-> cache, fingerprint |-> fingerprint, seen |-> seen,
              todo |-> todo, hashes |-> hashes, filled |-> filled]
        ELSE IF queued = {} THEN none_left
        ELSE [none_left EXCEPT !.todo = queued, !.hashes = DOMAIN cache \cup Linked(cards')]

Become(pass) == \E after \in {pass} :
    /\ link_graph_cache' = after.cache
    /\ last_fingerprint' = after.fingerprint
    /\ seen' = after.seen
    /\ todo' = after.todo /\ filled' = after.filled /\ hashes' = after.hashes

\* What one expansion fills: every member of the component, itself included.
Filled(id) ==
    LET component == expand_linked_cards(id, seen) \cup {id}
    IN  [m \in component |-> [hash |-> content_hash(m, seen, hashes), reach |-> component \ {m}]]

Overwrite(f, g) == [x \in DOMAIN f \cup DOMAIN g |-> IF x \in DOMAIN g THEN g[x] ELSE f[x]]

\* A callback handles one card at least and any number more.  The cache is saved
\* after it; the tab may be closed first.
IdleCallback(id) ==
    /\ id \in todo
    /\ todo' = todo \ {id}
    /\ IF id \in filled
       THEN UNCHANGED <<link_graph_cache, filled, disk>>
       ELSE /\ link_graph_cache' = Overwrite(link_graph_cache, Filled(id))
            /\ filled' = filled \cup DOMAIN Filled(id)
            /\ disk' \in {disk, [disk EXCEPT !.cache = link_graph_cache']}
    /\ UNCHANGED <<cards, show_list_link_counts, recursive_links, last_fingerprint, seen, hashes,
                   changes, meddled>>

-----------------------------------------------------------------------------
(* Changes of the list: edits, and what a sync brings *)

Change(cs) ==
    /\ changes < MaxChanges
    /\ changes' = changes + 1
    /\ cards' = cs
    /\ UNCHANGED <<show_list_link_counts, recursive_links, disk, meddled>>
    /\ Become(PassFrom(link_graph_cache, last_fingerprint))

With(id, content, count) == Overwrite(cards, [x \in {id} |-> [content |-> content, count |-> count]])

Edit(id, content) == id \in DOMAIN cards /\ Change(With(id, content, cards[id].count + 1))
Appear(id, content) == id \notin DOMAIN cards /\ Change(With(id, content, 1))
RemoveCard(id) == id \in DOMAIN cards /\ Change(Restrict(cards, DOMAIN cards \ {id}))

\* One sync may replace a card by another.
Replace(id, new, content) ==
    /\ id \in DOMAIN cards /\ new \notin DOMAIN cards
    /\ Change(Restrict(With(new, content, 1), (DOMAIN cards \ {id}) \cup {new}))

SaveCards ==
    /\ disk' = [disk EXCEPT !.cards = cards]
    /\ UNCHANGED <<cards, show_list_link_counts, recursive_links, link_graph_cache, last_fingerprint,
                   seen, todo, filled, hashes, changes, meddled>>

-----------------------------------------------------------------------------
(* The detail panel, the settings, and a restart *)

\* The section of linked cards fills in an entry that is missing, when it is
\* rendered.  (A panel left open over changes of the list fills in what it captured
\* before; here it is closed by them.)
Section(id, cache) ==
    IF recursive_links' /\ id \in DOMAIN cards \ DOMAIN cache
    THEN Overwrite(cache, [x \in {id} |-> [hash |-> cards[x].content, reach |-> expand_linked_cards(x, cards)]])
    ELSE cache

OpenDetail(id) ==
    /\ UNCHANGED <<cards, show_list_link_counts, recursive_links, last_fingerprint, seen, todo, filled,
                   hashes, disk, changes>>
    /\ id \in DOMAIN cards /\ changes >= OpenFrom
    /\ link_graph_cache' = Section(id, link_graph_cache)
    /\ link_graph_cache' # link_graph_cache
    /\ meddled' = TRUE

\* Turning a setting off clears the saved cache as well.
Forget(off) == disk' \in IF off THEN {disk, [disk EXCEPT !.cache = Empty]} ELSE {disk}

ToggleCounts ==
    /\ show_list_link_counts' = ~show_list_link_counts
    /\ Forget(~show_list_link_counts')
    /\ UNCHANGED <<cards, recursive_links, changes, meddled>>
    /\ Become(PassFrom(link_graph_cache, last_fingerprint))

ToggleRecursive ==
    /\ recursive_links' = ~recursive_links
    /\ Forget(~recursive_links')
    /\ UNCHANGED <<cards, show_list_link_counts, changes, meddled>>
    /\ Become(PassFrom(link_graph_cache, last_fingerprint))

\* The caches are loaded first, then the cards; without cards the cache is dropped.
Restart ==
    LET cache == IF disk.cards = Empty THEN Empty ELSE disk.cache
    IN  /\ cards' = disk.cards
        /\ disk' = [disk EXCEPT !.cache = cache]
        /\ UNCHANGED <<show_list_link_counts, recursive_links, changes, meddled>>
        /\ Become([PassFrom(cache, NoPass) EXCEPT !.fingerprint =
                       IF disk.cards = Empty THEN Unset ELSE @])

LinkSets(id) == {content \in SUBSET (Ids \ {id}) : Cardinality(content) <= MaxLinks}

\* Before the first sync, or with the list of an earlier session and no cache.
LinksInit ==
    /\ \E ids \in Sessions : \E f \in [ids -> SUBSET Ids] :
          /\ \A id \in ids : f[id] \in LinkSets(id)
          /\ cards = [id \in ids |-> [content |-> f[id], count |-> 1]]
    /\ show_list_link_counts = TRUE /\ recursive_links = TRUE
    /\ link_graph_cache = Empty /\ last_fingerprint = Fingerprint(cards)
    /\ seen = cards /\ todo = Linked(cards) /\ filled = {} /\ hashes = Linked(cards)
    /\ disk = [cards |-> cards, cache |-> Empty]
    /\ changes = 0 /\ meddled = FALSE

LinksNext ==
    \/ \E id \in Ids : IdleCallback(id) \/ OpenDetail(id) \/ RemoveCard(id)
    \/ \E id \in Ids : \E content \in LinkSets(id) : Edit(id, content) \/ Appear(id, content)
    \/ \E id, new \in Ids : \E content \in LinkSets(new) : Replace(id, new, content)
    \/ SaveCards
    \/ ToggleCounts \/ ToggleRecursive
    \/ Restart

LinksSpec == LinksInit /\ [][LinksNext]_linkVars

-----------------------------------------------------------------------------
(* Properties *)

Fresh(id) == link_graph_cache[id].reach = expand_linked_cards(id, cards)

\* Once a pass is through, and it saw the cards there are, every entry it left or
\* kept is what the card reaches now, over edits, arrivals, removals, cancelled
\* passes, restarts with an older list or an older cache; unless the detail panel
\* put in an entry of its own; and every card with links to cards has one.
PassLeavesFresh ==
    /\ todo = {} /\ seen = cards /\ ~meddled => \A id \in DOMAIN link_graph_cache : Fresh(id)
    /\ show_list_link_counts /\ recursive_links /\ todo = {} /\ seen = cards =>
          Linked(cards) \subseteq DOMAIN link_graph_cache
=============================================================================
