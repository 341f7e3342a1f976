------------------------------ MODULE Tagging -------------------------------
(***************************************************************************)
(* Cards and tags edited by a client whose list may be behind the server's *)
(* graph of implications, which the server enforces: the editor of cards   *)
(* with push_card_or_queue and the queue, and the detail panel of tags     *)
(* with its batches.                                                       *)
(*                                                                         *)
(* A push of a card and a sync with its flush are one step each here; what *)
(* may come between their awaits is Sync's.  The batch of a tag is sent,   *)
(* served and answered in steps of their own.                              *)
(***************************************************************************)
EXTENDS TagPicks, Queues, SequencesExt

CONSTANTS Listed,      \* the ids of cards
          MaxEdits,    \* bound on the saves of this user
          MaxEvents,   \* bound on the changes by other clients and lost connections
          Overtaken    \* a sync may end while the answer of a batch is on its way

VARIABLES
    server,         \* its content
    cards, tags,    \* AppState, as far as this module goes
    root,           \* the server's content at the last sync, known by its hash
    offline_queue,
    online,
    panel,          \* the editor of a card, the form of a tag, or neither
    batch,          \* the batch of a tag on its way
    edits, events,  \* counters for the bounds
    latest,         \* history: the user's last save of each card,
    landed,         \* the saves the server took,
    dropped         \* and those the flush gave up

clientVars  == <<cards, tags, root, offline_queue>>
taggingVars == <<server, clientVars, online, panel, batch, edits, events, latest, landed, dropped>>

-----------------------------------------------------------------------------
(* Contents.  A version of a card or tag is the sequence of what was saved,  *)
(* which is also its hash; `by` tells saves apart: positive for this user's. *)
(* A tag without a version does not exist.                                   *)

Body(n, set)    == [by |-> n, set |-> set]
Live(list)      == {id \in DOMAIN list : list[id] # << >>}
Sets(list)      == [id \in Live(list) |-> Last(list[id]).set]
Content(cs, ts) == [cards |-> cs, tags |-> ts]

\* validate_batch_implications, with the check of a deletion that no card has
\* the tag: the graph has no dangling edge and no cycle, and cards are closed.
Valid(content) ==
    LET g == Sets(content.tags)
    IN  /\ Dangling(g) = {} /\ Acyclic(g)
        /\ \A id \in Live(content.cards) : ClosedUnder(g, Last(content.cards[id]).set)

\* The content with a card pushed, whose ancestor is the server's version.
Put(content, id, version) == [content EXCEPT !.cards[id] = version]
Chained(content, id, version) == Front(version) = content.cards[id]
\* rebuild_card on the server's version
Rebased(content, id, version) == Append(content.cards[id], Last(version))

Initial == {c \in [cards : [Listed -> {<<Body(0, S)>> : S \in SUBSET TagIds}],
                   tags  : [TagIds -> {<<Body(0, S)>> : S \in SUBSET TagIds}]] : Valid(c)}

none == [kind |-> "none", pc |-> "none"]

TaggingInit ==
    /\ server \in Initial
    /\ cards = server.cards /\ tags = server.tags /\ root = server
    /\ offline_queue = << >> /\ online = TRUE
    /\ panel = none /\ batch = none
    /\ edits = 0 /\ events = 0
    /\ latest = [id \in Listed |-> 0] /\ landed = {} /\ dropped = {}

-----------------------------------------------------------------------------
(* The editor of a card (card_editor.rs) *)

PanelOnly == UNCHANGED <<server, clientVars, online, batch, edits, events, latest, landed, dropped>>

OpenEditor(id) ==
    /\ panel = none
    /\ panel' = [kind |-> "card", id |-> id, card |-> cards[id], selected |-> Last(cards[id]).set]
    /\ PanelOnly

ToggleTag(t) ==
    /\ panel.kind = "card" /\ t \in Live(tags)
    /\ panel' = [panel EXCEPT !.selected = toggle_editor_tag(Sets(tags), @, t)]
    /\ PanelOnly

\* Cancelled, or saved without a change.
ClosePanel ==
    /\ panel # none
    /\ panel' = none
    /\ PanelOnly

Queued(queue, id, version) == Append(Without(queue, id), [id |-> id, version |-> version])

\* The save closes the tags once more, shows the card and pushes or queues it.
SaveCard ==
    /\ panel.kind = "card" /\ edits < MaxEdits
    /\ LET e  == edits + 1
           id == panel.id
           version == Append(panel.card, Body(e, ClosureOf(Sets(tags), panel.selected)))
           rebased == Rebased(server, id, version)
           Took(v) == /\ online /\ Valid(Put(server, id, v))
                      /\ server' = Put(server, id, v)
                      /\ landed' = landed \cup {e}
                      /\ cards' = [cards EXCEPT ![id] = v]
                      /\ offline_queue' = Without(offline_queue, id)
       IN  /\ edits' = e
           /\ latest' = [latest EXCEPT ![id] = e]
           /\ \/ Chained(server, id, version) /\ Took(version)
              \/ ~Chained(server, id, version) /\ Took(rebased)
              \/ /\ ~online \/ ~Valid(Put(server, id, IF Chained(server, id, version)
                                                      THEN version ELSE rebased))
                 /\ cards' = [cards EXCEPT ![id] = version]
                 /\ offline_queue' = Queued(offline_queue, id, version)
                 /\ UNCHANGED <<server, landed>>
    /\ panel' = none
    /\ UNCHANGED <<tags, root, online, batch, events, dropped>>

-----------------------------------------------------------------------------
(* The detail panel of a tag (tag_detail.rs) *)

start_editing(t) ==
    /\ panel = none /\ t \in Live(tags)
    /\ panel' = [kind |-> "tag", id |-> t, implies |-> Sets(tags)[t]]
    /\ PanelOnly

AddImplies(u) ==
    /\ panel.kind = "tag" /\ u \in Candidates(Sets(tags), panel.id, panel.implies)
    /\ panel' = [panel EXCEPT !.implies = @ \cup {u}]
    /\ PanelOnly

RemoveImplies(u) ==
    /\ panel.kind = "tag" /\ u \in panel.implies \cap Live(tags)
    /\ panel' = [panel EXCEPT !.implies = @ \ {u}]
    /\ PanelOnly

\* One batch is on its way at a time: the user waits for the toast or the list.
Send(new) ==
    /\ batch = none /\ online /\ edits < MaxEdits
    /\ edits' = edits + 1
    /\ batch' = new
    /\ UNCHANGED <<server, clientVars, online, panel, events, latest, landed, dropped>>

\* save_changes and commit_tag_update: no save of a cycle, and no cards but the
\* ones that miss a tag.
save_changes ==
    /\ panel.kind = "tag" /\ panel.id \in Live(tags)
    /\ LET next == Upsert(Sets(tags), panel.id, panel.implies)
           e    == edits + 1
           Updated(id) == LET had == Last(cards[id]).set
                          IN  Append(cards[id], Body(e, had \cup MissingForCard(next, had)))
       IN  /\ Acyclic(next)
           /\ Send([kind |-> "save", id |-> panel.id, pc |-> "sent", known |-> Sets(tags),
                    tag |-> Append(tags[panel.id], Body(e, panel.implies)),
                    cards |-> [id \in affected_cards_for_change(next, Sets(cards)) |-> Updated(id)]])

\* do_delete: the cards that have the tag, then the tag.
do_delete(t) ==
    /\ panel = none /\ t \in Live(tags)
    /\ Send([kind |-> "delete", id |-> t, pc |-> "sent", tag |-> << >>,
             cards |-> [id \in {c \in Listed : t \in Last(cards[c]).set} |->
                           Append(cards[id], Body(edits + 1, Last(cards[id]).set \ {t}))]])

\* The content after a batch.
After(content, b) ==
    [cards |-> [id \in Listed |-> IF id \in DOMAIN b.cards THEN b.cards[id] ELSE content.cards[id]],
     tags  |-> [content.tags EXCEPT ![b.id] = b.tag]]

\* Mutant: the ancestors of the cards are not compared.
AcceptsAnyAncestor(content, b) ==
    /\ b.kind = "save"   => Front(b.tag) = content.tags[b.id]
    /\ b.kind = "delete" => /\ content.tags[b.id] # << >>
                            /\ \A id \in Listed : b.id \notin Last(After(content, b).cards[id]).set
    /\ Valid(After(content, b))

\* Every item has the server's version as its ancestor, and the whole is valid.
\* A tag that still is on a card cannot be deleted.
Accepts(content, b) ==
    /\ \A id \in DOMAIN b.cards : Chained(content, id, b.cards[id])
    /\ b.kind = "save"   => Front(b.tag) = content.tags[b.id]
    /\ b.kind = "delete" => /\ content.tags[b.id] # << >>
                            /\ \A id \in Listed : b.id \notin Last(After(content, b).cards[id]).set
    /\ Valid(After(content, b))

BatchUnchanged == UNCHANGED <<root, offline_queue, online, edits, latest, landed, dropped>>

Serve ==
    /\ batch.pc = "sent"
    /\ \/ /\ Accepts(server, batch)
          /\ server' = After(server, batch)
          /\ batch' = [batch EXCEPT !.pc = "done"]
       \/ /\ ~Accepts(server, batch)
          /\ batch' = [batch EXCEPT !.pc = "refused"]
          /\ UNCHANGED server
    /\ UNCHANGED <<cards, tags, panel, events>> /\ BatchUnchanged

\* Done: the list takes the batch's versions and the form is closed.  Refused: a
\* toast, and the form stays.
Answer ==
    /\ batch.pc \in {"done", "refused"}
    /\ batch' = none
    /\ \/ /\ batch.pc = "done"
          /\ cards' = After(Content(cards, tags), batch).cards
          /\ tags' = [tags EXCEPT ![batch.id] = IF @ = << >> THEN @ ELSE batch.tag]
          /\ panel' = IF panel.kind = "tag" THEN none ELSE panel
       \/ batch.pc = "refused" /\ UNCHANGED <<cards, tags, panel>>
    /\ UNCHANGED <<server, events>> /\ BatchUnchanged

-----------------------------------------------------------------------------
(* A sync, and flush_offline_queue after it *)

\* Mutant: a version the server refuses is given up without a word.
FlushForgetting(s, q) ==
    LET rebased == Rebased(s.content, q.id, q.version)
        version == IF Chained(s.content, q.id, q.version) THEN q.version ELSE rebased
    IN  IF Valid(Put(s.content, q.id, version))
        THEN [s EXCEPT !.content = Put(@, q.id, version), !.cards[q.id] = version,
                       !.landed = @ \cup {Last(q.version).by}]
        ELSE s

\* What a queued version comes to: taken, kept with everything behind it, or
\* dropped after a rebase.
FlushOne(s, q) ==
    LET rebased == Rebased(s.content, q.id, q.version)
        version == IF Chained(s.content, q.id, q.version) THEN q.version ELSE rebased
        Keep    == [s EXCEPT !.remaining = Append(@, q)]
        e       == Last(q.version).by
    IN  IF s.stopped THEN Keep
        ELSE IF Valid(Put(s.content, q.id, version))
             THEN [s EXCEPT !.content = Put(@, q.id, version), !.cards[q.id] = version,
                            !.landed = @ \cup {e}]
             ELSE IF version = q.version THEN [Keep EXCEPT !.stopped = TRUE]
             ELSE [s EXCEPT !.dropped = @ \cup {e}]

\* Mutant: versions of the list that are not those of the last sync stay.
ChangedUnlessEdited(list, now, then) ==
    [id \in DOMAIN list |-> IF now[id] # then[id] /\ list[id] = then[id] THEN now[id] ELSE list[id]]

\* The list takes what has changed since the root.
Changed(list, now, then) == [id \in DOMAIN list |-> IF now[id] # then[id] THEN now[id] ELSE list[id]]

\* The queue's entries one after the other
Flushed(start, queue) ==
    LET after[n \in 0 .. Len(queue)] ==
            IF n = 0 THEN start ELSE FlushOne(after[n - 1], queue[n])
    IN  after[Len(queue)]

Sync ==
    /\ online
    /\ root # server \/ offline_queue # << >>
    /\ Overtaken \/ batch.pc \in {"none", "sent"}
    /\ LET synced == Changed(cards, server.cards, root.cards)
           places == DOMAIN offline_queue
           fresh  == {i \in places : LET q == offline_queue[i]
                                     IN  Len(synced[q.id]) <= Len(q.version)}
           start  == [content |-> server, cards |-> synced, remaining |-> << >>,
                      stopped |-> FALSE, landed |-> landed,
                      dropped |-> dropped \cup {Last(offline_queue[i].version).by : i \in places \ fresh}]
           end    == Flushed(start, Retained(offline_queue, fresh))
       IN  /\ tags' = Changed(tags, server.tags, root.tags)
           /\ cards' = end.cards
           /\ root' = server
           /\ server' = end.content
           /\ offline_queue' = end.remaining
           /\ landed' = end.landed /\ dropped' = end.dropped
    /\ UNCHANGED <<online, panel, batch, edits, events, latest>>

-----------------------------------------------------------------------------
(* The world *)

Event == events < MaxEvents /\ events' = events + 1
WorldUnchanged == UNCHANGED <<clientVars, panel, edits, latest, landed, dropped>>

\* Another client saves a card, or a tag with the cards that need it, or deletes a tag.
Remote ==
    /\ Event
    /\ LET n == 100 + events
           Saved(list, id, set) == [list EXCEPT ![id] = Append(@, Body(n, set))]
       IN  \/ \E id \in Listed, S \in SUBSET Live(server.tags) :
                 LET content == [server EXCEPT !.cards = Saved(@, id, S)]
                 IN  Valid(content) /\ server' = content
           \/ \E t \in Live(server.tags), S \in SUBSET Live(server.tags) :
                 LET next == Upsert(Sets(server.tags), t, S)
                     cs   == Sets(server.cards)
                     updated == [id \in Listed |->
                         IF id \in affected_cards_for_change(next, cs)
                         THEN Append(server.cards[id], Body(n, ClosureOf(next, cs[id])))
                         ELSE server.cards[id]]
                 IN  Acyclic(next) /\ server' = Content(updated, Saved(server.tags, t, S))
           \/ \E t \in Live(server.tags) :
                 LET content == [server EXCEPT !.tags[t] = << >>]
                 IN  /\ \A id \in Listed : t \notin Last(server.cards[id]).set
                     /\ Valid(content) /\ server' = content
    /\ UNCHANGED <<online, batch>> /\ WorldUnchanged

\* A batch on its way may have been served; its answer does not arrive, and the
\* form stays.
Lose ==
    /\ Event /\ online
    /\ online' = FALSE /\ batch' = none
    /\ \/ UNCHANGED server
       \/ batch.pc = "sent" /\ Accepts(server, batch) /\ server' = After(server, batch)
    /\ WorldUnchanged

Reconnect ==
    /\ ~online
    /\ online' = TRUE
    /\ UNCHANGED <<server, clientVars, panel, batch, edits, events, latest, landed, dropped>>

TaggingNext ==
    \/ \E id \in Listed : OpenEditor(id)
    \/ \E t \in TagIds : ToggleTag(t) \/ start_editing(t) \/ AddImplies(t) \/ RemoveImplies(t)
                         \/ do_delete(t)
    \/ ClosePanel \/ SaveCard \/ save_changes
    \/ Serve \/ Answer \/ Sync
    \/ Remote \/ Lose \/ Reconnect

TaggingSpec == TaggingInit /\ [][TaggingNext]_taggingVars /\ WF_taggingVars(Sync)
                   /\ WF_taggingVars(Answer) /\ WF_taggingVars(Reconnect)

-----------------------------------------------------------------------------
(* Properties *)

\* A user's last save of a card is on the server or in the queue, unless the
\* flush has told that it gave it up (sync.rs, flush_offline_queue).
EditsAccounted ==
    \A id \in Listed :
        LET e == latest[id]
            queued == \E i \in DOMAIN offline_queue :
                         offline_queue[i].id = id /\ Last(offline_queue[i].version).by = e
        IN  e # 0 => e \in landed \cup dropped \/ queued

\* When the root is the server's and no batch is on its way, the list shows what
\* the server has, but for what is queued or was dropped: no later sync would
\* bring it (tag_detail.rs, sync.rs).
ListIsCurrent ==
    root = server /\ batch = none =>
        /\ tags = server.tags
        /\ \A id \in Listed :
              \/ cards[id] = server.cards[id]
              \/ \E i \in DOMAIN offline_queue : offline_queue[i].id = id
              \/ Last(cards[id]).by \in dropped

\* A tag's save that is accepted changes each card by what the new graph
\* implies and by nothing else, if the client knew the tags as they were
\* (tag_detail.rs, affected_cards_for_change).
TagSaveIsLeast ==
    [][batch.kind = "save" /\ Accepts(server, batch) /\ server' = After(server, batch) =>
        LET g == Sets(server'.tags)
        IN  batch.known = Sets(server.tags) =>
                \A id \in Listed : Last(server'.cards[id]).set =
                                       ClosureOf(g, Last(server.cards[id]).set)]_taggingVars

\* A save the flush has dropped is no longer in the list: the sync before has put
\* the server's version there (sync.rs:489).
DroppedEditsLeave == \A id \in Listed : Last(cards[id]).by \notin dropped

\* What is queued gets to the server, or is given up: the next syncs resolve it
\* (sync.rs, flush_offline_queue).
QueueResolves == [](offline_queue # << >> => <>(offline_queue = << >>))
=============================================================================
