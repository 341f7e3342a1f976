-------------------------------- MODULE Moves --------------------------------
(***************************************************************************)
(* Debounced moves: state/pending_priority.rs, and the edits, deletes and  *)
(* syncs that meet a pending burst.                                        *)
(*                                                                         *)
(* Priorities are the number of the move that chose them, so two of them   *)
(* are never equal; Ordering is about their values and Sync about refused  *)
(* ones.  A sync is one step here.                                         *)
(***************************************************************************)
EXTENDS Naturals, Sequences, FiniteSets, SequencesExt, Queues

CONSTANTS Ids, MaxMoves, MaxEdits, MaxLosses,
          priority_debounce_enabled,   \* the user's setting
          Overlap                      \* the user acts while a push is on its way

ASSUME FewCards == IsFiniteSet(Ids)
ASSUME MovesFlags == priority_debounce_enabled \in BOOLEAN /\ Overlap \in BOOLEAN

VARIABLES
    chain, deleted,          \* the server
    unsynced,                \* cards the server changed since the last sync
    cards, offline_queue,    \* AppState
    pending_priority,        \* the burst: [card, bases, move]
    timer,                   \* priority_burst_timer_handle # 0
    client,                  \* "none", "connecting" or "live"
    push, flushing,          \* the spawned push tasks, and flush_offline_queue
    moves, edits, losses,    \* counters for the bounds
    flushed, moved, discarded \* history: moves that ended a burst, last move of a
                             \* card, cards whose pending move was given up

serverVars  == <<chain, deleted, unsynced>>
burstVars   == <<pending_priority, timer>>
tallies     == <<moves, edits, losses>>
historyOfMoves == <<flushed, moved, discarded>>
moveVars == <<serverVars, cards, offline_queue, burstVars, client, push, flushing, tallies,
              historyOfMoves>>

\* A version is its history, newest last, which is also its hash.  Versions of
\* the list and of a push that are built at different times differ in `at`.
MoveBody    == [edit: 0 .. MaxEdits, move: 0 .. MaxMoves, at: {"list", "push"}]
Gone        == << >>
Newest(v)   == v[Len(v)]
Parent(v)   == SubSeq(v, 1, Len(v) - 1)
Item(id, v) == [id |-> id, version |-> v]

\* What is put or queued at a time are items of different cards.
CardsIn(items) == {items[i].id : i \in DOMAIN items}
VersionIn(items, id) == items[CHOOSE i \in DOMAIN items : items[i].id = id].version
Put(list, items) == [id \in DOMAIN list |-> IF id \in CardsIn(items) THEN VersionIn(items, id) ELSE list[id]]

Drop(queue, items)  == Retained(queue, {i \in DOMAIN queue : queue[i].id \notin CardsIn(items)})
Queue(queue, items) == Drop(queue, items) \o items
QueueAll(queue, todo) ==
    LET after[n \in 0 .. Len(todo)] == IF n = 0 THEN queue ELSE Queue(after[n - 1], todo[n])
    IN  after[Len(todo)]

NoBurst == [card |-> CHOOSE id \in Ids : TRUE, bases |-> << >>, move |-> 0]
Burst   == pending_priority # NoBurst

\* A task pushes its items one after the other: one card, or a batch.
IdlePush == [todo |-> << >>, retry |-> << >>, reply |-> "none", current |-> << >>]
Waiting(todo, retry) == [todo |-> todo, retry |-> retry, reply |-> "waiting", current |-> << >>]
Slots    == 1 .. 2
Quiet    == (\A t \in Slots : push[t] = IdlePush) /\ flushing = IdlePush
Steady   == Overlap \/ Quiet

MovesInit ==
    /\ chain = [id \in Ids |-> <<[edit |-> 0, move |-> 0, at |-> "push"]>>]
    /\ deleted = {} /\ unsynced = {}
    /\ cards = chain /\ offline_queue = << >>
    /\ pending_priority = NoBurst /\ timer = FALSE
    /\ client = "live"
    /\ push = [t \in Slots |-> IdlePush] /\ flushing = IdlePush
    /\ moves = 0 /\ edits = 0 /\ losses = 0
    /\ flushed = {0} /\ moved = [id \in Ids |-> 0] /\ discarded = {}

-----------------------------------------------------------------------------
(* The burst *)

\* PriorityBurst::build_versions, the moved card first.
build_versions(burst, at) ==
    LET Built(id) == Item(id, Append(burst.bases[id],
                         [Newest(burst.bases[id]) EXCEPT !.move = burst.move, !.at = at]))
    IN  <<Built(burst.card)>> \o SetToSeq({Built(id) : id \in DOMAIN burst.bases \ {burst.card}})

\* PriorityBurst::apply_move: the first snapshot of a sibling is kept.  All
\* of a burst's targets are named by its last move.
apply_move(burst, move, shifted) ==
    [burst EXCEPT !.move = move,
                  !.bases = [id \in DOMAIN @ \cup shifted |->
                                IF id \in DOMAIN burst.bases THEN burst.bases[id] ELSE cards[id]]]

Fresh(id) == [card |-> id, bases |-> [c \in {id} |-> cards[id]], move |-> 0]

\* The items of a task, with what get_client says: without a client every
\* card is queued.
Singles(batch) == [i \in DOMAIN batch |-> <<batch[i]>>]
Continue(t, todo, queue) ==
    IF todo = << >> \/ client # "live"
    THEN /\ push' = [push EXCEPT ![t] = IdlePush]
         /\ offline_queue' = QueueAll(queue, todo)
    ELSE /\ push' = [push EXCEPT ![t] = Waiting(todo, << >>)]
         /\ offline_queue' = queue

Free == {t \in Slots : push[t] = IdlePush}
Spawn(todo, queue) ==
    IF todo = << >> THEN UNCHANGED push /\ offline_queue' = queue
    ELSE Free # {} /\ Continue(CHOOSE t \in Free : \A u \in Free : t <= u, todo, queue)

\* flush_sync_take: what the burst becomes, as the items of push_burst.
Taken == IF Burst THEN <<build_versions(pending_priority, "push")>> ELSE << >>

TakeBurst ==
    /\ pending_priority' = NoBurst /\ timer' = FALSE
    /\ flushed' = flushed \cup {pending_priority.move}

\* Mutant: the burst is not taken out.
FlushLeaving ==
    /\ Burst /\ Steady
    /\ Spawn(Taken, offline_queue)
    /\ UNCHANGED <<pending_priority, timer>>
    /\ flushed' = flushed \cup {pending_priority.move}
    /\ UNCHANGED <<serverVars, cards, client, flushing, tallies, moved, discarded>>

\* flush: the timer, a change of the selection, the editor or the end of the view
flush ==
    /\ Burst /\ Steady
    /\ Spawn(Taken, offline_queue)
    /\ TakeBurst
    /\ UNCHANGED <<serverVars, cards, client, flushing, tallies, moved, discarded>>

\* flush_blocking: the page is hidden; the burst is queued and pushed.
flush_blocking ==
    /\ Burst /\ Steady
    /\ LET built == build_versions(pending_priority, "push")
       IN  Spawn(<<built>>, Queue(offline_queue, built))
    /\ TakeBurst
    /\ UNCHANGED <<serverVars, cards, client, flushing, tallies, moved, discarded>>

\* Mutant: a burst of another card is replaced.
EnqueueReplacing(id, shifted) ==
    LET move  == moves + 1
        burst == apply_move(IF Burst /\ pending_priority.card = id
                            THEN pending_priority ELSE Fresh(id), move, shifted)
    IN  /\ pending_priority' = burst /\ timer' = TRUE
        /\ UNCHANGED <<push, offline_queue, flushed>>
        /\ cards' = Put(cards, build_versions(burst, "list"))

\* Mutant: the burst of another card is flushed after the timer was armed, and
\* takes it along.
ArmedTooEarly(other) == priority_debounce_enabled /\ other = << >>

\* The timer is armed anew, after the burst of another card.
Armed(other) == priority_debounce_enabled

\* A burst of another card is flushed first; the list shows the move at once.
\* Without debouncing the burst is flushed when the timer would be armed.
enqueue_move(id, shifted) ==
    LET move  == moves + 1
        same  == Burst /\ pending_priority.card = id
        burst == apply_move(IF same THEN pending_priority ELSE Fresh(id), move, shifted)
        other == IF same THEN << >> ELSE Taken
        now   == IF priority_debounce_enabled THEN << >> ELSE <<build_versions(burst, "push")>>
    IN  /\ cards' = Put(cards, build_versions(burst, "list"))
        /\ pending_priority' = IF priority_debounce_enabled THEN burst ELSE NoBurst
        /\ timer' = Armed(other)
        /\ Spawn(other \o now, offline_queue)
        /\ flushed' = flushed \cup (IF other = << >> THEN {} ELSE {pending_priority.move})
                              \cup (IF now = << >> THEN {} ELSE {move})

\* move_card and apply_move_placement: a free slot, or siblings shifted.
Move(id, shifted) ==
    /\ moves < MaxMoves /\ Steady
    /\ cards[id] # Gone /\ \A s \in shifted : s # id /\ cards[s] # Gone
    /\ enqueue_move(id, shifted)
    /\ moves' = moves + 1
    /\ moved' = [c \in Ids |-> IF c \in DOMAIN pending_priority'.bases \cup shifted \cup {id}
                               THEN moves + 1 ELSE moved[c]]
    /\ UNCHANGED <<serverVars, client, flushing, edits, losses, discarded>>

\* Mutant: the edit's push does not wait for the burst's.
PushEditFirst(card) == <<<<card>>>> \o Taken

\* flush_now, then the push of the edit
EditItems(card) == Taken \o <<<<card>>>>

\* Blaze, due date, task toggle, swipe, restore: the new version is built on
\* the list's, before the burst is flushed.
Edit(id) ==
    /\ edits < MaxEdits /\ Steady
    /\ cards[id] # Gone
    /\ LET card == Item(id, Append(cards[id], [Newest(cards[id]) EXCEPT !.edit = edits + 1,
                                                                         !.at = "push"]))
       IN  /\ cards' = Put(cards, <<card>>)
           /\ Spawn(EditItems(card), offline_queue)
    /\ edits' = edits + 1
    /\ TakeBurst
    /\ discarded' = IF Newest(cards[id]).move # moved[id] THEN discarded \cup {id} ELSE discarded
    /\ UNCHANGED <<serverVars, client, flushing, moves, losses, moved>>

Discards(id) == Burst /\ pending_priority.card = id
discard_for(id) ==
    IF Discards(id)
    THEN pending_priority' = NoBurst /\ timer' = FALSE
    ELSE UNCHANGED burstVars

\* do_confirm_delete with a live connection; a failed one only shows a toast.
Delete(id, succeeds) ==
    /\ edits < MaxEdits /\ Steady
    /\ cards[id] # Gone
    /\ discard_for(id)
    /\ discarded' = discarded \cup (IF Discards(id) THEN DOMAIN pending_priority.bases
                                    ELSE DOMAIN pending_priority.bases \cap {id})
    /\ flushed' = flushed \cup (IF Discards(id) THEN {pending_priority.move} ELSE {})
    /\ edits' = edits + 1
    /\ \/ /\ succeeds /\ client = "live" /\ chain[id] # Gone
          /\ chain' = [chain EXCEPT ![id] = Gone] /\ deleted' = deleted \cup {id}
          /\ unsynced' = unsynced \cup {id}
          /\ cards' = [cards EXCEPT ![id] = Gone]
       \/ ~succeeds /\ UNCHANGED <<serverVars, cards>>
    /\ UNCHANGED <<offline_queue, client, push, flushing, moves, losses, moved>>

-----------------------------------------------------------------------------
(* Pushes *)

Acceptable(c) == c.id \notin deleted /\ Parent(c.version) = chain[c.id]

\* What a request of one card or of a batch is answered; a refusal tells the
\* version of the first card.
Request(rec) == IF rec.retry # << >> THEN rec.retry ELSE Head(rec.todo)
Verdict(rec) ==
    LET items == Request(rec)
    IN  [todo |-> rec.todo, retry |-> rec.retry, current |-> chain[items[1].id],
         reply |-> IF \A i \in DOMAIN items : Acceptable(items[i]) THEN "Ok"
                   ELSE IF items[1].id \in deleted THEN "AlreadyDeleted"
                   ELSE "AncestorMismatch"]

Serve(rec) ==
    /\ rec.reply = "waiting"
    /\ LET items == Request(rec)
       IN  IF Verdict(rec).reply = "Ok"
           THEN /\ chain' = Put(chain, items)
                /\ unsynced' = unsynced \cup {items[i].id : i \in DOMAIN items}
           ELSE UNCHANGED <<chain, unsynced>>
    /\ UNCHANGED <<deleted, cards, offline_queue, burstVars, client, tallies, historyOfMoves>>

ServePush(t) ==
    Serve(push[t]) /\ push' = [push EXCEPT ![t] = Verdict(@)] /\ UNCHANGED flushing
ServeFlush ==
    Serve(flushing) /\ flushing' = Verdict(flushing) /\ UNCHANGED push

Answered(rec) == rec.reply \in {"Ok", "AncestorMismatch", "AlreadyDeleted", "Lost"}
Rebase(rec)   ==
    LET card == Head(rec.todo)[1]
    IN  Waiting(rec.todo, <<Item(card.id, Append(rec.current, Newest(card.version)))>>)
Rebasing(rec) == rec.reply = "AncestorMismatch" /\ rec.retry = << >>

\* push_burst and push_card_or_queue after an answer.  A failed batch is
\* pushed card by card; a card that cannot be pushed is queued as it was.
PushAnswered(t) ==
    LET rec   == push[t]
        items == Head(rec.todo)
        rest  == Tail(rec.todo)
    IN  /\ Answered(rec)
        /\ \/ /\ rec.reply = "Ok"
              /\ Continue(t, rest, Drop(offline_queue, items))
              /\ cards' = Put(cards, rec.retry)
           \/ /\ rec.reply # "Ok" /\ Len(items) > 1
              /\ Continue(t, Singles(items) \o rest, offline_queue)
              /\ UNCHANGED cards
           \/ /\ Len(items) = 1 /\ Rebasing(rec)
              /\ push' = [push EXCEPT ![t] = Rebase(rec)]
              /\ UNCHANGED <<cards, offline_queue>>
           \/ /\ Len(items) = 1 /\ rec.reply # "Ok" /\ ~Rebasing(rec)
              /\ Continue(t, rest, Queue(offline_queue, items))
              /\ UNCHANGED cards
        /\ UNCHANGED <<serverVars, burstVars, client, flushing, tallies, historyOfMoves>>

-----------------------------------------------------------------------------
(* The connection, syncs and the queue *)

Applied    == [id \in Ids |-> IF id \in unsynced THEN chain[id] ELSE cards[id]]
Reconciled ==
    Retained(offline_queue, {i \in DOMAIN offline_queue :
                 Len(Applied[offline_queue[i].id]) <= Len(offline_queue[i].version)})

\* incremental_sync, then flush_offline_queue over a snapshot of the queue.
Sync ==
    /\ flushing = IdlePush
    /\ cards' = Applied /\ unsynced' = {}
    /\ IF Reconciled = << >>
       THEN flushing' = IdlePush /\ offline_queue' = << >>
       ELSE flushing' = Waiting(Singles(Reconciled), << >>)
            /\ UNCHANGED offline_queue
    /\ UNCHANGED <<chain, deleted, burstVars, push, tallies, historyOfMoves>>

\* After a notification or by the timer.
IncrementalSync ==
    /\ client = "live" /\ Steady
    /\ unsynced # {} \/ offline_queue # << >>
    /\ Sync
    /\ UNCHANGED client

\* The client is set when the first sync and its flush are through.
Connect ==
    /\ client = "none" /\ Steady
    /\ client' = IF Reconciled = << >> THEN "live" ELSE "connecting"
    /\ Sync

\* flush_offline_queue after an answer; what remains becomes the queue when
\* it ends.
FlushAnswered ==
    LET rec  == flushing
        rest == Tail(rec.todo)
        Proceed ==
            IF rest = << >> THEN /\ flushing' = IdlePush /\ offline_queue' = << >>
                                 /\ client' = IF client = "connecting" THEN "live" ELSE client
            ELSE /\ flushing' = Waiting(rest, << >>)
                 /\ UNCHANGED <<offline_queue, client>>
    IN  /\ Answered(rec)
        /\ \/ /\ rec.reply = "Ok"
              /\ Proceed
              /\ cards' = Put(cards, IF rec.retry = << >> THEN Head(rec.todo) ELSE rec.retry)
           \/ /\ Rebasing(rec)
              /\ flushing' = Rebase(rec)
              /\ UNCHANGED <<cards, offline_queue, client>>
           \/ /\ rec.reply \in {"AlreadyDeleted", "AncestorMismatch"} /\ ~Rebasing(rec)
              /\ Proceed
              /\ UNCHANGED cards
           \/ /\ rec.reply = "Lost"
              /\ flushing' = IdlePush /\ offline_queue' = [i \in DOMAIN rec.todo |-> rec.todo[i][1]]
              /\ UNCHANGED <<cards, client>>
        /\ UNCHANGED <<serverVars, burstVars, push, tallies, historyOfMoves>>

\* The connection is lost: requests fail, whether or not the server has
\* handled them.
Lose ==
    LET Cut(rec) == IF rec = IdlePush THEN rec ELSE [rec EXCEPT !.reply = "Lost"]
    IN  /\ losses < MaxLosses /\ client # "none"
        /\ losses' = losses + 1
        /\ client' = "none"
        /\ push' = [t \in Slots |-> Cut(push[t])]
        /\ flushing' = Cut(flushing)
        /\ UNCHANGED <<serverVars, cards, offline_queue, burstVars, moves, edits, historyOfMoves>>

MovesNext ==
    \/ flush \/ flush_blocking
    \/ \E id \in Ids, shifted \in SUBSET Ids : Move(id, shifted)
    \/ \E id \in Ids : Edit(id)
    \/ \E id \in Ids, succeeds \in BOOLEAN : Delete(id, succeeds)
    \/ \E t \in Slots : ServePush(t) \/ PushAnswered(t)
    \/ ServeFlush \/ FlushAnswered
    \/ IncrementalSync \/ Connect \/ Lose

\* The timer fires, tasks run, the server answers and the client reconnects.
MovesSpec ==
    /\ MovesInit /\ [][MovesNext]_moveVars
    /\ WF_moveVars(timer /\ flush) /\ WF_moveVars(IncrementalSync) /\ WF_moveVars(Connect)
    /\ WF_moveVars(ServeFlush) /\ WF_moveVars(FlushAnswered)
    /\ \A t \in Slots : WF_moveVars(ServePush(t)) /\ WF_moveVars(PushAnswered(t))

-----------------------------------------------------------------------------
(* Properties *)

Same(v, w) == /\ v = Gone <=> w = Gone
              /\ v # Gone => [Newest(v) EXCEPT !.at = "push"] = [Newest(w) EXCEPT !.at = "push"]

Settled == Quiet /\ client = "live" /\ ~Burst /\ offline_queue = << >> /\ unsynced = {}

\* The server records one version of a card per burst and none of the moves
\* that a later one of the same burst replaced; only after a lost answer may
\* it record a version twice.
BurstsCoalesced ==
    \A id \in Ids : LET v == chain[id] IN
        /\ \A i \in DOMAIN v : v[i].move \in flushed
        /\ losses = 0 => \A i, j \in DOMAIN v : i # j => [v[i] EXCEPT !.at = "push"]
                                                      # [v[j] EXCEPT !.at = "push"]

\* Once everything has been pushed and synced the list and the server show the
\* same of every card, and every card is where its last move has put it,
\* except those whose pending move a delete has discarded, an edit made after
\* a sync had put the list back to a version without it, or a card deleted
\* while the burst of another one shifted it, which the next move of that
\* burst puts back into the list.
MovesArrive ==
    Settled => \A id \in Ids \ discarded :
        /\ Same(cards[id], chain[id])
        /\ chain[id] # Gone => Newest(chain[id]).move = moved[id]

\* While no answer is lost, a burst never puts a card's content back to what it
\* was before an edit that the server has: its pre-burst snapshot is not pushed
\* after that edit.  (After a lost answer what is pushed again may.)
EditSurvivesBurst ==
    [][\A id \in Ids : losses = 0 /\ chain[id] # Gone /\ chain'[id] # Gone
                        => Newest(chain'[id]).edit >= Newest(chain[id]).edit]_moveVars

\* Whatever is pending reaches the server: no burst waits without a timer, no
\* card stays queued while the client is connected.
Settles == []<>Settled
=============================================================================
