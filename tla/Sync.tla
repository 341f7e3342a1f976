-------------------------------- MODULE Sync --------------------------------
(***************************************************************************)
(* One WASM client (clients/wasm/src/state/sync.rs and app.rs) against the *)
(* server.  The client is single-threaded: its tasks interleave at their   *)
(* awaits, so each action runs a task from one await to the next.          *)
(*                                                                         *)
(* The server is the list that Storage implements: per card a chain of     *)
(* versions, a tombstone set, stamps and a sequence number, plus the       *)
(* uniqueness of priorities.  Other clients act on it directly.            *)
(***************************************************************************)
EXTENDS Integers, Sequences, FiniteSets, Queues

CONSTANTS Ids,               \* card ids
          Priorities,        \* i64 priorities
          MaxEdits,          \* bound on the saves and deletes of this user
          MaxRemote,         \* bound on the changes other clients make
          MaxLosses,         \* bound on lost connections
          auto_sync_enabled, \* the user's setting
          SavesWhile         \* when the user saves besides offline: "online", "flush"

ASSUME SomeId == Ids # {}
ASSUME FreeSlot == Cardinality(Priorities) > Cardinality(Ids)
ASSUME SyncBounds == MaxEdits \in Nat /\ MaxRemote \in Nat /\ MaxLosses \in Nat
ASSUME SyncFlags  == auto_sync_enabled \in BOOLEAN /\ SavesWhile \subseteq {"online", "flush"}

VARIABLES
    chain, deleted, stamp, sequence,  \* the server
    notes,          \* notifications on their way to this client
    subscribed,                       \* this client's stream: "no", "answered", "yes"
    cards, root, offline_queue,       \* AppState
    client,         \* CLIENT: "none", or set and its connection "live" or "dead"
    status,         \* connection_status
    task,
    edits, remote, losses,            \* counters for the bounds
    latest, landed, fate              \* history of the user's edits

serverVars  == <<chain, deleted, stamp, sequence>>
historyVars == <<latest, landed, fate>>
counters    == <<edits, remote, losses>>
vars == <<serverVars, notes, subscribed, cards, root, offline_queue, client, status,
          task, counters, historyVars>>

-----------------------------------------------------------------------------
(* Cards.  A version is the sequence of bodies from the first version to it, *)
(* which is also its hash; a body records the edit that wrote it, positive   *)
(* for this user's, and the priority.                                        *)

Body    == [by: Int, priority: Priorities]
Version == Seq(Body)
Card    == [id: Ids, version: Version]
Absent  == << >>

Tip(v)      == v[Len(v)]
Ancestor(v) == SubSeq(v, 1, Len(v) - 1)
Count(v)    == Len(v)

\* Priorities no other card of the list has.
FreeFor(list, id) ==
    {p \in Priorities : \A o \in Ids \ {id} : list[o] # Absent => Tip(list[o]).priority # p}

\* Mutant: the resolved priority is not used.
RebuildKeepingPriority(card, priority, ancestor) ==
    [card EXCEPT !.version = Append(ancestor, Tip(card.version))]

\* rebuild_card: chained onto the ancestor, or a first version.
rebuild_card(card, priority, ancestor) ==
    [card EXCEPT !.version = Append(ancestor, [Tip(card.version) EXCEPT !.priority = priority])]

Upsert(card) == [cards EXCEPT ![card.id] = card.version]

\* sync::reconcile_offline_queue
Stale(list, card) == Count(list[card.id]) > Count(card.version)
reconcile_offline_queue(queue, list) ==
    Retained(queue, {i \in DOMAIN queue :
                        Ancestor(queue[i].version) = Absent \/ ~Stale(list, queue[i])})

\* q.retain(other ids); q.push(card)
Enqueue(queue, card) == Append(Without(queue, card.id), card)

-----------------------------------------------------------------------------
(* Tasks and their requests: one task per save or delete of the user, the   *)
(* connection task and the periodic sync.                                    *)

Pushes   == 1 .. MaxEdits
conn     == 0
auto     == -1
Syncs    == {conn, auto}
Tasks    == Pushes \cup Syncs
NoRoot   == -1

NoRequest == [op |-> "none"]
Pending   == [kind |-> "Pending"]
Lost      == [kind |-> "ConnectionLost"]

NoCard   == [id |-> CHOOSE id \in Ids : TRUE, version |-> Absent]
IdleTask == [pc |-> "idle", live |-> FALSE, request |-> NoRequest, reply |-> Pending,
             after |-> "end", card |-> NoCard, retry |-> NoCard,
             todo |-> << >>, remaining |-> << >>]

\* Issue a request and wait; on a dead connection it fails at once.
Send(rec, pc, request) ==
    [rec EXCEPT !.pc = pc, !.request = request,
                !.reply = IF rec.live THEN Pending ELSE Lost]

Push(card)     == [op |-> "push", card |-> card]
ChangesSince   == IF root = NoRoot THEN [op |-> "all"] ELSE [op |-> "since", sequence |-> root]

Waiting(t)  == task[t].request # NoRequest /\ task[t].reply = Pending
Reply(t)    == task[t].reply
At(t, pc)   == task[t].pc = pc /\ task[t].request # NoRequest /\ task[t].reply # Pending
Become(t, rec) == task' = [task EXCEPT ![t] = rec]

FlushSteps  == {"flush", "flushGet", "flushRetry", "flushRebased", "flushRecreated"}
Flushing(t) == task[t].pc \in FlushSteps

-----------------------------------------------------------------------------

Init ==
    /\ chain = [id \in Ids |-> Absent] /\ deleted = {}
    /\ stamp = [id \in Ids |-> 0] /\ sequence = 0
    /\ notes = {} /\ subscribed = "no"
    /\ cards = [id \in Ids |-> Absent] /\ root = NoRoot /\ offline_queue = << >>
    /\ client = "none" /\ status = "Disconnected"
    /\ task = [t \in Tasks |-> IF t = conn THEN [IdleTask EXCEPT !.pc = "down"] ELSE IdleTask]
    /\ edits = 0 /\ remote = 0 /\ losses = 0
    /\ latest = [id \in Ids |-> 0] /\ landed = {} /\ fate = [e \in Pushes |-> "open"]

-----------------------------------------------------------------------------
(* The server.  Every change gets the next sequence number and, once this    *)
(* client has subscribed, a notification.                                    *)

Publish(id, version, tombstones) ==
    /\ chain' = [chain EXCEPT ![id] = version]
    /\ deleted' = deleted \cup tombstones
    /\ sequence' = sequence + 1
    /\ stamp' = [stamp EXCEPT ![id] = sequence + 1]
    /\ notes' = IF subscribed = "yes" THEN notes \cup {sequence + 1} ELSE notes

PushAnswer(card) ==
    LET current == chain[card.id]
    IN  IF card.id \in deleted THEN [kind |-> "AlreadyDeleted"]
        ELSE IF Ancestor(card.version) # current
          THEN IF current # Absent THEN [kind |-> "AncestorMismatch", version |-> current]
                                   ELSE [kind |-> "HashVerificationFailed"]
        ELSE IF Tip(card.version).priority \notin FreeFor(chain, card.id)
          THEN [kind |-> "DuplicatePriority"]
        ELSE [kind |-> "Ok"]

Answer(t, answer) == Become(t, [task[t] EXCEPT !.reply = answer])

ServePush(t) ==
    /\ task[t].request.op = "push"
    /\ LET card   == task[t].request.card
           answer == PushAnswer(card)
       IN  /\ Answer(t, answer)
           /\ \/ /\ answer.kind = "Ok"
                 /\ Publish(card.id, card.version, {})
                 /\ landed' = landed \cup {Tip(card.version).by}
              \/ /\ answer.kind # "Ok"
                 /\ UNCHANGED <<serverVars, notes, landed>>
    /\ UNCHANGED subscribed

ServeDelete(t) ==
    /\ task[t].request.op = "delete"
    /\ LET id == task[t].request.id
       IN  \/ /\ chain[id] # Absent
              /\ Publish(id, Absent, {id})
              /\ Answer(t, [kind |-> "Ok"])
           \/ /\ chain[id] = Absent
              /\ Answer(t, [kind |-> "Refused"])
              /\ UNCHANGED <<serverVars, notes>>
    /\ UNCHANGED <<subscribed, landed>>

ServeGet(t) ==
    /\ task[t].request.op = "get"
    /\ LET version == chain[task[t].request.id]
       IN  Answer(t, IF version = Absent THEN [kind |-> "Refused"]
                                         ELSE [kind |-> "Ok", version |-> version])
    /\ UNCHANGED <<serverVars, notes, subscribed, landed>>

\* get_changes_since: the live cards and the tombstones stamped later than
\* `since`, and the current root, read in one transaction.
ChangeSet(since) ==
    LET changed == {id \in Ids : stamp[id] > since}
    IN  [kind |-> "Ok", cards |-> [id \in Ids |-> IF id \in changed THEN chain[id] ELSE Absent],
         deleted |-> changed \cap deleted, root |-> sequence]

ServeChanges(t) ==
    /\ task[t].request.op \in {"all", "since"}
    /\ Answer(t, ChangeSet(IF task[t].request.op = "all" THEN 0 ELSE task[t].request.sequence))
    /\ UNCHANGED <<serverVars, notes, subscribed, landed>>

\* Subscribe is answered before the stream is registered for notifications.
ServeSubscribe(t) ==
    /\ task[t].request.op = "subscribe"
    /\ Answer(t, [kind |-> "Ok"])
    /\ subscribed' = "answered"
    /\ UNCHANGED <<serverVars, notes, landed>>

Register ==
    /\ subscribed = "answered"
    /\ subscribed' = "yes"
    /\ UNCHANGED <<serverVars, notes, cards, root, offline_queue, client, status, task, counters,
                   historyVars>>

Serve(t) ==
    /\ Waiting(t)
    /\ ServePush(t) \/ ServeDelete(t) \/ ServeGet(t) \/ ServeChanges(t) \/ ServeSubscribe(t)
    /\ UNCHANGED <<cards, root, offline_queue, client, status, counters, latest, fate>>

\* Another client saves or deletes a card.  A new card gets a new id.
RemoteSave(id, p) ==
    /\ remote < MaxRemote
    /\ id \notin deleted /\ p \in FreeFor(chain, id)
    /\ chain[id] # Absent \/ latest[id] = 0
    /\ remote' = remote + 1
    /\ Publish(id, Append(chain[id], [by |-> -remote - 1, priority |-> p]), {})
    /\ UNCHANGED <<subscribed, cards, root, offline_queue, client, status, task, edits, losses,
                   historyVars>>

RemoteDelete(id) ==
    /\ remote < MaxRemote
    /\ chain[id] # Absent
    /\ remote' = remote + 1
    /\ Publish(id, Absent, {id})
    /\ UNCHANGED <<subscribed, cards, root, offline_queue, client, status, task, edits, losses,
                   historyVars>>

-----------------------------------------------------------------------------
(* The user *)

\* The saves a run looks at: with a client set or only without, during a
\* flush or only between flushes.
MaySave ==
    /\ client # "none" => "online" \in SavesWhile
    /\ (\E t \in Syncs : Flushing(t)) => "flush" \in SavesWhile

\* Save a new card, or a new version of a listed one with its own priority or
\* a free one: the list shows it at once, then push_card_or_queue runs up to
\* its first await.
UserSave(id, p) ==
    /\ edits < MaxEdits /\ MaySave
    /\ cards[id] = Absent => id \notin deleted /\ chain[id] = Absent /\ latest[id] = 0
    /\ p \in FreeFor(cards, id)
    /\ LET e    == edits + 1
           card == [id |-> id, version |-> Append(cards[id], [by |-> e, priority |-> p])]
       IN  /\ edits' = e
           /\ latest' = [latest EXCEPT ![id] = e]
           /\ cards' = Upsert(card)
           /\ \/ /\ client = "none"
                 /\ offline_queue' = Enqueue(offline_queue, card)
                 /\ UNCHANGED task
              \/ /\ client # "none"
                 /\ Become(e, Send([IdleTask EXCEPT !.live = (client = "live"), !.card = card],
                                   "push", Push(card)))
                 /\ UNCHANGED offline_queue
    /\ UNCHANGED <<serverVars, notes, subscribed, root, client, status, remote, losses,
                   landed, fate>>

\* Deleting needs a client and is never queued.
UserDelete(id) ==
    /\ edits < MaxEdits /\ MaySave
    /\ client # "none" /\ cards[id] # Absent
    /\ edits' = edits + 1
    /\ Become(edits + 1,
              Send([IdleTask EXCEPT !.live = (client = "live"),
                                    !.card = [id |-> id, version |-> cards[id]]],
                   "delete", [op |-> "delete", id |-> id]))
    /\ UNCHANGED <<serverVars, notes, subscribed, cards, root, offline_queue, client, status,
                   remote, losses, historyVars>>

DeleteReply(e) ==
    /\ At(e, "delete")
    /\ Become(e, IdleTask)
    /\ cards' = IF Reply(e).kind = "Ok" THEN [cards EXCEPT ![task[e].card.id] = Absent] ELSE cards
    /\ UNCHANGED offline_queue

-----------------------------------------------------------------------------
(* push_card_or_queue after its awaits *)

\* clear_queued_card
Pushed(e, card) ==
    /\ Become(e, IdleTask)
    /\ offline_queue' = Without(offline_queue, card.id)

Queued(e, card) ==
    /\ Become(e, IdleTask)
    /\ offline_queue' = Enqueue(offline_queue, card)
    /\ UNCHANGED cards

PushReply(e) ==
    /\ At(e, "push")
    /\ LET rec      == task[e]
           card     == rec.card
           priority == Tip(card.version).priority
           Retry(pc, retry) == /\ Become(e, Send([rec EXCEPT !.retry = retry], pc, Push(retry)))
                               /\ UNCHANGED <<cards, offline_queue>>
       IN  \/ Reply(e).kind = "Ok" /\ Pushed(e, card) /\ UNCHANGED cards
           \/ /\ Reply(e).kind = "AncestorMismatch"
              /\ Retry("pushRebased", rebuild_card(card, priority, Reply(e).version))
           \/ /\ Reply(e).kind = "HashVerificationFailed"
              /\ Retry("pushRecreated", rebuild_card(card, priority, Absent))
           \/ /\ Reply(e).kind \in {"ConnectionLost", "AlreadyDeleted", "DuplicatePriority"}
              /\ Queued(e, card)

\* A failed rebase queues the card as it was, a failed recreation the new
\* first version.
PushRetryReply(e) ==
    /\ At(e, "pushRebased") \/ At(e, "pushRecreated")
    /\ LET rec == task[e]
       IN  \/ Reply(e).kind = "Ok" /\ Pushed(e, rec.card) /\ cards' = Upsert(rec.retry)
           \/ Reply(e).kind # "Ok" /\ Queued(e, IF rec.pc = "pushRebased" THEN rec.card ELSE rec.retry)

PushStep(e) ==
    /\ DeleteReply(e) \/ PushReply(e) \/ PushRetryReply(e)
    /\ UNCHANGED <<serverVars, notes, subscribed, root, client, status, counters, historyVars>>

-----------------------------------------------------------------------------
(* flush_offline_queue *)

\* The user's edits that reconciliation discards; nothing is shown.
Reconciled(queue, list) ==
    {Tip(queue[i].version).by : i \in {j \in DOMAIN queue :
        Ancestor(queue[j].version) # Absent /\ Stale(list, queue[j])}}

Mark(E, how) == fate' = [e \in Pushes |-> IF e \in E THEN how ELSE fate[e]]

\* The loop over the snapshot of the queue: the next card, or the end, where
\* what remains becomes the queue.
FlushNext(t, rec) ==
    IF rec.todo = << >>
    THEN /\ Become(t, [rec EXCEPT !.pc = "flushed", !.request = NoRequest, !.card = NoCard,
                                  !.retry = NoCard, !.remaining = << >>])
         /\ offline_queue' = rec.remaining
    ELSE /\ Become(t, Send([rec EXCEPT !.card = Head(rec.todo), !.retry = NoCard,
                                       !.todo = Tail(rec.todo)], "flush", Push(Head(rec.todo))))
         /\ UNCHANGED offline_queue

\* Mutant: the cards not reached are forgotten.
FlushStopForgetting(t, rec) == FlushNext(t, [rec EXCEPT !.todo = << >>])

\* hit_connection_error: the rest of the snapshot stays queued.
FlushStop(t, rec) ==
    FlushNext(t, [rec EXCEPT !.remaining = @ \o rec.todo, !.todo = << >>])

Keep(rec, card) == [rec EXCEPT !.remaining = Append(@, card)]

\* Snapshot the queue, reconcile it with the list, send the first card.
BeginFlush(t, rec) ==
    LET todo == reconcile_offline_queue(offline_queue, cards)
    IN  IF offline_queue = << >>
        THEN /\ Become(t, [rec EXCEPT !.pc = "flushed", !.request = NoRequest])
             /\ UNCHANGED <<offline_queue, fate>>
        ELSE /\ FlushNext(t, [rec EXCEPT !.todo = todo, !.remaining = << >>])
             /\ Mark(Reconciled(offline_queue, cards), "reconciled")

FlushPushReply(t) ==
    /\ At(t, "flush")
    /\ LET rec == task[t]
           card == rec.card
           priority == Tip(card.version).priority
           SendRetry(pc, retry) ==
               /\ Become(t, Send([rec EXCEPT !.retry = retry], pc, Push(retry)))
               /\ UNCHANGED <<cards, offline_queue, fate>>
       IN  \/ Reply(t).kind = "Ok" /\ FlushNext(t, rec) /\ cards' = Upsert(card) /\ UNCHANGED fate
           \/ /\ Reply(t).kind = "ConnectionLost"
              /\ FlushStop(t, Keep(rec, card))
              /\ UNCHANGED <<cards, fate>>
           \/ /\ Reply(t).kind = "DuplicatePriority" /\ Ancestor(card.version) = Absent
              /\ \E p \in FreeFor(cards, card.id) : SendRetry("flushRetry", rebuild_card(card, p, Absent))
           \/ /\ Reply(t).kind = "DuplicatePriority" /\ Ancestor(card.version) # Absent
              /\ \E p \in FreeFor(cards, card.id) :
                    Become(t, Send([rec EXCEPT !.retry = rebuild_card(card, p, Absent)],
                                   "flushGet", [op |-> "get", id |-> card.id]))
              /\ UNCHANGED <<cards, offline_queue, fate>>
           \/ /\ Reply(t).kind = "AncestorMismatch"
              /\ SendRetry("flushRebased", rebuild_card(card, priority, Reply(t).version))
           \/ /\ Reply(t).kind = "HashVerificationFailed"
              /\ SendRetry("flushRecreated", rebuild_card(card, priority, Absent))
           \/ /\ Reply(t).kind = "AlreadyDeleted"
              /\ FlushNext(t, rec)
              /\ Mark({Tip(card.version).by}, "deleted")
              /\ UNCHANGED cards

\* The priority was picked from the list as it was before this await.
FlushGetReply(t) ==
    /\ At(t, "flushGet")
    /\ LET rec == task[t]
           retry == rebuild_card(rec.card, Tip(rec.retry.version).priority, Reply(t).version)
       IN  \/ /\ Reply(t).kind = "Ok"
              /\ Become(t, Send([rec EXCEPT !.retry = retry], "flushRetry", Push(retry)))
              /\ UNCHANGED offline_queue
           \/ Reply(t).kind = "ConnectionLost" /\ FlushStop(t, Keep(rec, rec.card))
           \/ Reply(t).kind = "Refused" /\ FlushNext(t, Keep(rec, rec.card))
    /\ UNCHANGED <<cards, fate>>

\* A second refusal keeps the card, or the recreated one, queued; after a
\* rebase it drops the edit and a toast says so.
FlushRetryReply(t) ==
    /\ \E pc \in {"flushRetry", "flushRebased", "flushRecreated"} : At(t, pc)
    /\ LET rec  == task[t]
           kept == IF rec.pc = "flushRecreated" THEN rec.retry ELSE rec.card
       IN  \/ /\ Reply(t).kind = "Ok"
              /\ FlushNext(t, rec)
              /\ cards' = Upsert(rec.retry)
              /\ UNCHANGED fate
           \/ /\ Reply(t).kind = "ConnectionLost"
              /\ FlushStop(t, Keep(rec, kept))
              /\ UNCHANGED <<cards, fate>>
           \/ /\ Reply(t).kind \notin {"Ok", "ConnectionLost"} /\ rec.pc # "flushRebased"
              /\ FlushNext(t, Keep(rec, kept))
              /\ UNCHANGED <<cards, fate>>
           \/ /\ Reply(t).kind \notin {"Ok", "ConnectionLost"} /\ rec.pc = "flushRebased"
              /\ FlushNext(t, rec)
              /\ Mark({Tip(rec.card.version).by}, "toast")
              /\ UNCHANGED cards

FlushStep(t) ==
    /\ FlushPushReply(t) \/ FlushGetReply(t) \/ FlushRetryReply(t)
    /\ UNCHANGED <<serverVars, notes, subscribed, root, client, status, counters, latest, landed>>

-----------------------------------------------------------------------------
(* incremental_sync and initial_sync *)

\* Mutant: tombstones are not applied.
ApplyUpsertsOnly(list, changes) ==
    [id \in Ids |-> IF changes.cards[id] # Absent THEN changes.cards[id] ELSE list[id]]

\* sync::apply_card_changeset
apply_card_changeset(list, changes) ==
    [id \in Ids |-> IF changes.cards[id] # Absent THEN changes.cards[id]
                   ELSE IF id \in changes.deleted THEN Absent ELSE list[id]]

\* What the caller of a failed sync does: connect_and_run and
\* run_subscription return, the periodic task only restores the status.
SyncFailed(t) ==
    /\ Become(t, IF t = conn THEN [IdleTask EXCEPT !.pc = "down"] ELSE IdleTask)
    /\ status' = IF t = conn THEN "Disconnected" ELSE "Connected"

\* initial_sync replaces the list and does not flush.
SyncReply(t) ==
    /\ At(t, "sync")
    /\ LET rec == task[t]
       IN  \/ /\ Reply(t).kind = "Ok"
              /\ root' = Reply(t).root
              /\ \/ /\ rec.request.op = "since"
                    /\ cards' = apply_card_changeset(cards, Reply(t))
                    /\ Become(t, [rec EXCEPT !.pc = "synced", !.request = NoRequest])
                 \/ /\ rec.request.op = "all"
                    /\ cards' = apply_card_changeset([id \in Ids |-> Absent], Reply(t))
                    /\ Become(t, [rec EXCEPT !.pc = "flushed", !.request = NoRequest])
              /\ UNCHANGED status
           \/ /\ Reply(t).kind = "ConnectionLost"
              /\ SyncFailed(t)
              /\ UNCHANGED <<cards, root>>
    /\ UNCHANGED <<serverVars, notes, subscribed, offline_queue, client, counters, historyVars>>

\* After save_local_state incremental_sync flushes the queue.
StartFlush(t) ==
    /\ task[t].pc = "synced"
    /\ BeginFlush(t, task[t])
    /\ UNCHANGED <<serverVars, notes, subscribed, cards, root, client, status, counters,
                   latest, landed>>

\* The periodic task, or a click on the indicator.
AutoSync ==
    /\ auto_sync_enabled /\ status = "Connected" /\ client # "none"
    /\ task[auto].pc = "idle"
    /\ status' = "Syncing"
    /\ Become(auto, Send([IdleTask EXCEPT !.live = (client = "live")], "sync", ChangesSince))
    /\ UNCHANGED <<serverVars, notes, subscribed, cards, root, offline_queue, client, counters,
                   historyVars>>

\* Mutant: the status stays Syncing.
AutoSyncEndStuck ==
    /\ task[auto].pc = "flushed"
    /\ Become(auto, IdleTask)
    /\ UNCHANGED <<serverVars, notes, subscribed, cards, root, offline_queue, client, status,
                   counters, historyVars>>

AutoSyncEnd ==
    /\ task[auto].pc = "flushed"
    /\ Become(auto, IdleTask)
    /\ status' = "Connected"
    /\ UNCHANGED <<serverVars, notes, subscribed, cards, root, offline_queue, client, counters,
                   historyVars>>

-----------------------------------------------------------------------------
(* connect_and_run and run_subscription *)

Conn == task[conn]

\* The client is cleared before the connection is made and set only after the
\* first sync.
Connect ==
    /\ Conn.pc = "down"
    /\ client' = "none" /\ status' = "Syncing"
    /\ Become(conn, Send([IdleTask EXCEPT !.live = TRUE, !.after = "online"],
                           "sync", ChangesSince))
    /\ UNCHANGED <<serverVars, notes, subscribed, cards, root, offline_queue, counters,
                   historyVars>>

GoOnline ==
    /\ Conn.pc = "flushed" /\ Conn.after = "online"
    /\ client' = IF Conn.live THEN "live" ELSE "dead"
    /\ status' = "Connected"
    /\ BeginFlush(conn, [Conn EXCEPT !.after = "subscribe"])
    /\ UNCHANGED <<serverVars, notes, subscribed, cards, root, counters, latest, landed>>

Subscribe ==
    /\ Conn.pc = "flushed" /\ Conn.after = "subscribe"
    /\ Become(conn, Send(Conn, "subscribe", [op |-> "subscribe"]))
    /\ UNCHANGED <<serverVars, notes, subscribed, cards, root, offline_queue, client, status,
                   counters, historyVars>>

SubscribeReply ==
    /\ At(conn, "subscribe")
    /\ \/ /\ Reply(conn).kind = "Ok"
          /\ Become(conn, [Conn EXCEPT !.pc = "listen", !.request = NoRequest, !.after = "listen"])
          /\ UNCHANGED status
       \/ Reply(conn).kind = "ConnectionLost" /\ SyncFailed(conn)
    /\ UNCHANGED <<serverVars, notes, subscribed, cards, root, offline_queue, client, counters,
                   historyVars>>

\* A notification: nothing to do if its root is the local one.  The server
\* sends them after the commits, by tasks of their own, so in any order.
Notified ==
    /\ Conn.pc = "listen" /\ Conn.live
    /\ \E n \in notes :
          /\ notes' = notes \ {n}
          /\ \/ n = root /\ UNCHANGED <<task, status>>
             \/ n # root /\ status' = "Syncing" /\ Become(conn, Send(Conn, "sync", ChangesSince))
    /\ UNCHANGED <<serverVars, subscribed, cards, root, offline_queue, client, counters,
                   historyVars>>

\* After the sync of a notification.
Resume ==
    /\ Conn.pc = "flushed" /\ Conn.after = "listen"
    /\ Become(conn, [Conn EXCEPT !.pc = "listen"])
    /\ status' = "Connected"
    /\ UNCHANGED <<serverVars, notes, subscribed, cards, root, offline_queue, client, counters,
                   historyVars>>

StreamEnds ==
    /\ Conn.pc = "listen" /\ ~Conn.live
    /\ SyncFailed(conn)
    /\ UNCHANGED <<serverVars, notes, subscribed, cards, root, offline_queue, client, counters,
                   historyVars>>

\* The connection breaks: requests under way fail, whether or not the server
\* has processed them.
Lose ==
    /\ Conn.live /\ losses < MaxLosses
    /\ losses' = losses + 1
    /\ task' = [t \in Tasks |->
                  [task[t] EXCEPT !.live = FALSE,
                                  !.reply = IF task[t].request # NoRequest THEN Lost ELSE @]]
    /\ client' = IF client = "live" THEN "dead" ELSE client
    /\ subscribed' = "no" /\ notes' = {}
    /\ UNCHANGED <<serverVars, cards, root, offline_queue, status, edits, remote, historyVars>>

-----------------------------------------------------------------------------

ConnStep == Connect \/ GoOnline \/ Subscribe \/ SubscribeReply \/ Notified \/ Resume \/ StreamEnds
SyncStep(t) == SyncReply(t) \/ StartFlush(t) \/ FlushStep(t)

Next ==
    \/ \E id \in Ids, p \in Priorities : UserSave(id, p) \/ RemoteSave(id, p)
    \/ \E id \in Ids : UserDelete(id) \/ RemoteDelete(id)
    \/ \E t \in Tasks : Serve(t)
    \/ \E e \in Pushes : PushStep(e)
    \/ \E t \in Syncs : SyncStep(t)
    \/ Register
    \/ AutoSync \/ AutoSyncEnd
    \/ ConnStep
    \/ Lose

\* The server answers on a connection that holds, the event loop runs every
\* task that is ready, and the timers of the periodic sync and of the
\* reconnect countdown fire.
Fairness ==
    /\ \A t \in Tasks : WF_vars(Serve(t))
    /\ WF_vars(Register)
    /\ \A e \in Pushes : WF_vars(PushStep(e))
    /\ \A t \in Syncs : WF_vars(SyncStep(t))
    /\ WF_vars(AutoSync) /\ WF_vars(AutoSyncEnd) /\ WF_vars(ConnStep)

Spec == Init /\ [][Next]_vars
FairSpec == Spec /\ Fairness

-----------------------------------------------------------------------------
(* Properties *)

ReplyType ==
    {Pending} \cup [kind: {"Ok", "Refused", "ConnectionLost", "AlreadyDeleted", "DuplicatePriority",
                          "HashVerificationFailed"}]
    \cup [kind: {"Ok", "AncestorMismatch"}, version: Version]
    \cup [kind: {"Ok"}, cards: [Ids -> Version],
          deleted: SUBSET Ids, root: Nat]

RequestType ==
    {NoRequest} \cup [op: {"push"}, card: Card] \cup [op: {"delete", "get"}, id: Ids]
    \cup [op: {"all", "subscribe"}] \cup [op: {"since"}, sequence: Nat]

TaskType ==
    [pc: {"idle", "down", "push", "pushRebased", "pushRecreated", "delete", "sync", "synced",
          "flushed", "subscribe", "listen"} \cup FlushSteps,
     live: BOOLEAN, request: RequestType, reply: ReplyType,
     after: {"end", "online", "subscribe", "listen"}, card: Card, retry: Card,
     todo: Seq(Card), remaining: Seq(Card)]

\* Type correctness.
SyncTypeOK ==
    /\ chain \in [Ids -> Version] /\ deleted \in SUBSET Ids
    /\ stamp \in [Ids -> Nat] /\ sequence \in Nat
    /\ notes \in SUBSET Nat /\ subscribed \in {"no", "answered", "yes"}
    /\ cards \in [Ids -> Version] /\ root \in Nat \cup {NoRoot}
    /\ offline_queue \in Seq(Card)
    /\ client \in {"none", "live", "dead"}
    /\ status \in {"Disconnected", "Syncing", "Connected"}
    /\ task \in [Tasks -> TaskType]
    /\ latest \in [Ids -> 0 .. MaxEdits] /\ landed \in SUBSET Int
    /\ fate \in [Pushes -> {"open", "toast", "reconciled", "deleted"}]

\* A card this user never saved is shown as the server has it, or the local
\* root is old enough for the next sync to fetch it. It holds while syncs come
\* one after the other; the periodic sync may overlap those of notifications,
\* and its late answer leaves an old card under a new root (sync_stale_card).
UntouchedCardsFresh ==
    root # NoRoot =>
        \A id \in Ids : latest[id] = 0 /\ cards[id] # chain[id] => stamp[id] > root

\* The edits the client still works on.
EditsOf(queue) == {Tip(queue[i].version).by : i \in DOMAIN queue}
InHand ==
    EditsOf(offline_queue)
    \cup UNION {EditsOf(task[t].todo) \cup EditsOf(task[t].remaining) : t \in Tasks}
    \cup {Tip(task[t].card.version).by : t \in {x \in Tasks : task[x].card.version # Absent}}

\* The latest edit of a card that is not deleted was accepted by the server, or
\* is queued or being pushed, unless the client decided to discard it.
EditsSurvive ==
    \A id \in Ids :
        LET e == latest[id]
        IN  e = 0 \/ id \in deleted \/ e \in landed \cup InHand \/ fate[e] # "open"

\* Once connections hold and saves stop, the queue drains for good.
QueueDrains == <>[](offline_queue = << >>)

\* And the client learns of every change for good.
CatchesUp == <>[](root = sequence)
=============================================================================
