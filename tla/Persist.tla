------------------------------ MODULE Persist ------------------------------
(***************************************************************************)
(* What a browser tab keeps in the files of the origin (storage.rs) and    *)
(* how a session starts from them (app.rs), when the tab may be closed or  *)
(* reloaded at any time.                                                   *)
(*                                                                         *)
(* The awaits modelled here are those on files and that of a save's push;  *)
(* the answers of the server and the interleavings of requests are Sync's. *)
(***************************************************************************)
EXTENDS Integers, Sequences, FiniteSets, SequencesExt

CONSTANTS Ids,         \* card ids
          MaxEdits,    \* bound on the saves of this user
          MaxEvents,   \* bound on the saves of other clients, restored backups, lost
                       \* connections, cleared caches and closed or reloaded tabs
          MaxSteps,    \* bound on both together
          SavesWhile   \* also looked at: saves while the files are read ("boot"),
                       \* pushes on their way while others save the list ("sync")

ASSUME PersistBounds ==
    /\ MaxEdits \in Nat /\ MaxEvents \in Nat /\ MaxSteps \in Nat
    /\ SavesWhile \subseteq {"boot", "sync"}

VARIABLES
    server,                         \* the contents it has had, the current one last
    cards, root, offline_queue,     \* AppState
    histories,                      \* HISTORY: whether any history is cached
    client, alive,                  \* CLIENT is set; its connection is not broken
    boot, sync, save, prefetching,  \* the tasks: the start, connection_loop, one per
                                    \* save, spawn_prefetch_histories
    disk, writes, stamp,            \* the files, the calls on them under way in
                                    \* order, the schema stamp in localStorage
    build,                          \* the build the tab runs
    edits, events,                  \* counters for the bounds
    latest, settled                 \* history: the user's last edit of each card, and
                                    \* the edits the server has had or the client dropped

counters == <<edits, events>>
memory   == <<cards, root, offline_queue, histories>>
persistVars == <<server, memory, client, alive, boot, sync, save, prefetching, disk, writes,
                 stamp, build, counters, latest, settled>>

-----------------------------------------------------------------------------
(* Versions are sequences of edits, as in Sync: positive for this user's.    *)
(* A root is the history of contents up to it: Storage's RootCoherent.       *)

Absent == << >>
Empty  == [id \in Ids |-> Absent]
NoRoot == << >>

Ancestor(version) == Front(version)
Present(list)     == {id \in Ids : list[id] # Absent}
Current           == Last(server)

\* What a push of a version comes to: accepted, rebased on the server's version,
\* or, where the server has none, recreated (rebuild_card).
Accepted(id, version) ==
    IF Ancestor(version) = Current[id] THEN version ELSE Append(Current[id], Last(version))

EditsIn(list, ids) == {Last(list[id]) : id \in ids}

-----------------------------------------------------------------------------
(* Files.  A call takes effect whole, and calls take effect in the order     *)
(* they are made: opfs_write replaces a file when it closes it.              *)

\* The tasks that call; a save has the number of its edit.
conn     == 0
start    == -1
prefetch == -2
clearing == -3

NoFile == [cards |-> Empty, root |-> NoRoot, build |-> 0]

Call(task, file, content) == [task |-> task, file |-> file, content |-> content]
Issue(calls) == writes' = writes \o calls
Done(task)   == \A i \in DOMAIN writes : writes[i].task # task

Perform ==
    /\ writes # << >>
    /\ disk' = [disk EXCEPT ![Head(writes).file] = Head(writes).content]
    /\ writes' = Tail(writes)
    /\ UNCHANGED <<server, memory, client, alive, boot, sync, save, prefetching, stamp, build,
                   counters, latest, settled>>

\* storage::save of the list as it is, and of the queue.
SavedList(task, list, r) == <<Call(task, "db", [cards |-> list, root |-> r, build |-> build])>>
SavedQueue(task, queue)  == <<Call(task, "queue", queue)>>

\* clear_all_caches
Cleared(task) == <<Call(task, "db", NoFile), Call(task, "histories", FALSE)>>

-----------------------------------------------------------------------------

PersistInit ==
    /\ server \in {<<Empty>>} \cup {<<Empty, c>> : c \in {[Empty EXCEPT ![id] = <<0>>] : id \in Ids}}
    /\ cards = Empty /\ root = NoRoot /\ offline_queue = Empty /\ histories = FALSE
    /\ client = FALSE /\ alive = FALSE
    /\ boot = "start" /\ sync = "down" /\ save = [e \in 1 .. MaxEdits |-> [pc |-> "none"]]
    /\ prefetching = FALSE
    /\ disk = [db |-> NoFile, queue |-> Empty, histories |-> FALSE]
    /\ writes = << >> /\ stamp = 0 /\ build = 1
    /\ edits = 0 /\ events = 0
    /\ latest = [id \in Ids |-> 0] /\ settled = {}

-----------------------------------------------------------------------------
(* The start of a session.  A stamp of another build wipes the files but for *)
(* the queue; derived caches are kept only if the list could be loaded.      *)

StartUnchanged == UNCHANGED <<server, client, alive, sync, save, prefetching, disk, stamp,
                              build, counters, latest, settled>>

CheckStamp ==
    /\ boot = "start"
    /\ \/ stamp = build /\ boot' = "histories" /\ UNCHANGED writes
       \/ stamp # build /\ boot' = "wiping" /\ Issue(Cleared(start))
    /\ UNCHANGED memory /\ StartUnchanged

LoadHistories ==
    /\ boot = "histories"
    /\ boot' = "list"
    /\ histories' = disk.histories
    /\ UNCHANGED <<cards, root, offline_queue, writes>> /\ StartUnchanged

\* Mutant: derived caches are kept whether or not there is a list.
LoadListKeepingHistories ==
    /\ boot = "list"
    /\ boot' = "queue"
    /\ \/ Len(disk.db.root) > 1 /\ cards' = disk.db.cards /\ root' = disk.db.root
       \/ Len(disk.db.root) <= 1 /\ UNCHANGED <<cards, root>>
    /\ UNCHANGED <<offline_queue, histories, writes>> /\ StartUnchanged

\* has_data: the sequence number of an empty server counts as no data.
load_local_state ==
    /\ boot = "list"
    /\ \/ /\ Len(disk.db.root) > 1
          /\ cards' = disk.db.cards /\ root' = disk.db.root
          /\ boot' = "queue"
          /\ UNCHANGED <<histories, writes>>
       \/ /\ Len(disk.db.root) <= 1
          /\ histories' = FALSE
          /\ Issue(<<Call(start, "histories", FALSE)>>)
          /\ boot' = "wiping"
          /\ UNCHANGED <<cards, root>>
    /\ UNCHANGED offline_queue /\ StartUnchanged

load_offline_queue ==
    /\ boot = "queue" \/ (boot = "wiping" /\ Done(start))
    /\ offline_queue' = disk.queue
    /\ boot' = "done"
    /\ UNCHANGED <<cards, root, histories, writes>> /\ StartUnchanged

-----------------------------------------------------------------------------
(* push_card_or_queue *)

At(e, pcs)  == save[e].pc \in pcs
GoTo(e, pc) == save' = [save EXCEPT ![e] = [pc |-> pc]]

Pushing == \E e \in DOMAIN save : At(e, {"pushing"})
Saving  == \E e \in DOMAIN save : At(e, {"pushing", "queueing", "saving"})

\* Mutant: the list is written before the queue.
ListBeforeQueue(e, id, version) ==
    /\ offline_queue' = [offline_queue EXCEPT ![id] = version]
    /\ Issue(SavedList(e, [cards EXCEPT ![id] = version], root) \o SavedQueue(e, offline_queue'))
    /\ GoTo(e, "queueing")

\* Queue a version and write the queue.
Queue(e, id, version) ==
    /\ offline_queue' = [offline_queue EXCEPT ![id] = version]
    /\ Issue(SavedQueue(e, offline_queue'))
    /\ GoTo(e, "queueing")

\* The list shows the new version before the push.  A new card has a new id.
UserSave(id) ==
    /\ edits < MaxEdits /\ edits + events < MaxSteps
    /\ boot = "done" \/ "boot" \in SavesWhile
    /\ "sync" \in SavesWhile \/ (~Pushing /\ (client => sync = "live" /\ ~Saving))
    /\ cards[id] = Absent => latest[id] = 0 /\ \A i \in DOMAIN server : server[i][id] = Absent
    /\ LET e == edits + 1
           version == Append(cards[id], e)
       IN  /\ edits' = e
           /\ latest' = [latest EXCEPT ![id] = e]
           /\ cards' = [cards EXCEPT ![id] = version]
           /\ \/ ~client /\ Queue(e, id, version)
              \/ /\ client
                 /\ save' = [save EXCEPT ![e] = [pc |-> "pushing", id |-> id, version |-> version]]
                 /\ UNCHANGED <<offline_queue, writes>>
    /\ UNCHANGED <<server, root, histories, client, alive, boot, sync, prefetching, disk, stamp,
                   build, events, settled>>

SaveUnchanged == UNCHANGED <<root, histories, client, alive, boot, sync, prefetching, disk, build,
                             counters, latest>>

\* The version is on the server, under its own ancestor or another; a queued
\* version of the card is taken off the queue (clear_queued_card).
Pushed(e) ==
    /\ At(e, {"pushing"}) /\ alive
    /\ LET id == save[e].id
           version == Accepted(id, save[e].version)
       IN  /\ server' = Append(server, [Current EXCEPT ![id] = version])
           /\ settled' = settled \cup {e}
           /\ cards' = IF version = save[e].version THEN cards ELSE [cards EXCEPT ![id] = version]
           /\ offline_queue' = [offline_queue EXCEPT ![id] = Absent]
           /\ \/ /\ offline_queue[id] # Absent
                 /\ Issue(SavedQueue(e, offline_queue'))
                 /\ GoTo(e, "clearing")
              \/ /\ offline_queue[id] = Absent
                 /\ GoTo(e, "ended")
                 /\ UNCHANGED writes
    /\ UNCHANGED stamp /\ SaveUnchanged

PushFailed(e) ==
    /\ At(e, {"pushing"}) /\ ~alive
    /\ Queue(e, save[e].id, save[e].version)
    /\ UNCHANGED <<server, cards, stamp, settled>> /\ SaveUnchanged

\* Then save_local_state, which does nothing without a root.
QueueWritten(e) ==
    /\ At(e, {"queueing"}) /\ Done(e)
    /\ \/ /\ root # NoRoot
          /\ Issue(SavedList(e, cards, root))
          /\ GoTo(e, "saving")
       \/ /\ root = NoRoot
          /\ GoTo(e, "ended")
          /\ UNCHANGED writes
    /\ UNCHANGED <<server, cards, offline_queue, stamp, settled>> /\ SaveUnchanged

\* The list is written, or the queue without the card.
SaveEnds(e) ==
    /\ At(e, {"saving", "clearing"}) /\ Done(e)
    /\ stamp' = IF At(e, {"saving"}) THEN build ELSE stamp
    /\ GoTo(e, "ended")
    /\ UNCHANGED <<server, cards, offline_queue, writes, settled>> /\ SaveUnchanged

SaveStep(e) == Pushed(e) \/ PushFailed(e) \/ QueueWritten(e) \/ SaveEnds(e)

-----------------------------------------------------------------------------
(* connect_and_run, incremental_sync and initial_sync.  The client is set    *)
(* after the first sync, so that earlier saves go to the queue.              *)

SyncUnchanged == UNCHANGED <<boot, save, disk, build, edits, latest>>

\* The list takes what has changed since the root, then everything is saved.
Synced(list, pc) ==
    /\ cards' = list /\ root' = server
    /\ Issue(SavedList(conn, list, server))
    /\ sync' = pc
    /\ UNCHANGED histories

Changed(since) == [id \in Ids |-> IF Current[id] # Last(since)[id] THEN Current[id] ELSE cards[id]]

\* A connection, or a notification on one.
Sync ==
    /\ boot = "done"
    /\ "sync" \in SavesWhile \/ ~Pushing
    /\ \/ sync = "down" /\ alive' = TRUE
       \/ sync = "live" /\ alive /\ root # server /\ UNCHANGED alive
    /\ client' = (client /\ sync = "live")
    /\ \/ /\ root = NoRoot
          /\ Synced(Current, "connected")
       \/ /\ root # NoRoot /\ IsPrefix(root, server)
          /\ Synced(Changed(root), IF root = server THEN "synced" ELSE "changed")
       \/ /\ root # NoRoot /\ ~IsPrefix(root, server)
          /\ histories' = FALSE
          /\ Issue(<<Call(conn, "histories", FALSE)>>)
          /\ sync' = "mismatch"
          /\ UNCHANGED <<cards, root>>
    /\ UNCHANGED <<server, offline_queue, prefetching, stamp, events, settled>> /\ SyncUnchanged

\* After a mismatch: the root is forgotten and everything asked for again.
Forget ==
    /\ sync = "mismatch" /\ Done(conn)
    /\ root' = NoRoot
    /\ sync' = "full"
    /\ UNCHANGED <<server, cards, offline_queue, histories, client, alive, prefetching, writes,
                   stamp, events, settled>> /\ SyncUnchanged

FullSync ==
    /\ sync = "full"
    /\ \/ alive /\ Synced(Current, "resynced")
       \/ ~alive /\ sync' = "down" /\ UNCHANGED <<cards, root, histories, writes>>
    /\ UNCHANGED <<server, offline_queue, client, alive, prefetching, stamp, events, settled>>
    /\ SyncUnchanged

\* flush_offline_queue, with set_client after it unless `set`: what reconciliation
\* keeps is pushed until the connection breaks, at a push the server may have
\* had; what was not pushed is the queue.
Fresh(id) == Len(offline_queue[id]) = 1 \/ Len(cards[id]) <= Len(offline_queue[id])

Flush(set) ==
    LET queued == Present(offline_queue)
        kept   == {id \in queued : Fresh(id)}
        Only(ids) == [id \in Ids |-> IF id \in ids THEN offline_queue[id] ELSE Absent]
    IN  \/ /\ queued = {}
           /\ client' = TRUE /\ sync' = "live"
           /\ UNCHANGED <<server, cards, offline_queue, alive, events, writes, settled>>
        \/ /\ queued # {}
           /\ client' = set
           /\ \E pushed \in SUBSET kept : \E had \in SUBSET kept :
                 /\ pushed \subseteq had /\ Cardinality(had \ pushed) <= 1
                 /\ had # {} => alive
                 /\ alive' = (alive /\ pushed = kept)
                 /\ events' = IF alive = alive' THEN events ELSE events + 1
                 /\ events' <= MaxEvents /\ edits + events' <= MaxSteps
                 /\ LET After(id) == Accepted(id, offline_queue[id])
                    IN  /\ server' = IF had = {} THEN server
                                     ELSE Append(server, [id \in Ids |-> IF id \in had THEN After(id)
                                                                         ELSE Current[id]])
                        /\ cards' = [id \in Ids |-> IF id \in pushed THEN After(id) ELSE cards[id]]
                 /\ settled' = settled \cup EditsIn(offline_queue, had \cup (queued \ kept))
                 /\ offline_queue' = Only(kept \ pushed)
                 /\ sync' = IF pushed = {} THEN "unqueued" ELSE "pushed"
           /\ Issue(SavedQueue(conn, offline_queue'))

FlushUnchanged == UNCHANGED <<root, histories>> /\ SyncUnchanged

\* The list is written: histories are fetched if there is a client by the time
\* the task runs, and the queue is flushed.
ListWritten ==
    /\ sync \in {"connected", "synced", "changed", "resynced"} /\ Done(conn)
    /\ stamp' = build
    /\ prefetching' = \/ prefetching
                      \/ sync = "connected"
                      \/ sync # "synced" /\ (client \/ offline_queue = Empty)
    /\ Flush(client \/ sync = "connected")
    /\ FlushUnchanged

QueueFlushed ==
    /\ sync = "pushed" /\ Done(conn)
    /\ Issue(SavedList(conn, cards, root))
    /\ sync' = "flushed"
    /\ UNCHANGED <<server, cards, offline_queue, client, alive, prefetching, stamp, events, settled>>
    /\ FlushUnchanged

FlushEnds ==
    /\ sync \in {"unqueued", "flushed"} /\ Done(conn)
    /\ stamp' = IF sync = "flushed" THEN build ELSE stamp
    /\ UNCHANGED prefetching
    /\ \/ ~client /\ Flush(TRUE)
       \/ /\ client /\ sync' = "live"
          /\ UNCHANGED <<server, cards, offline_queue, client, alive, events, writes, settled>>
    /\ FlushUnchanged

SyncStep == Sync \/ Forget \/ FullSync \/ ListWritten \/ QueueFlushed \/ FlushEnds

\* spawn_prefetch_histories saves what it has when a request fails.
Prefetch ==
    /\ prefetching
    /\ prefetching' = FALSE
    /\ histories' = (histories \/ alive)
    /\ Issue(<<Call(prefetch, "histories", histories')>>)
    /\ UNCHANGED <<server, cards, root, offline_queue, client, alive, boot, sync, save, disk,
                   stamp, build, counters, latest, settled>>

-----------------------------------------------------------------------------
(* The world *)

Event ==
    /\ events < MaxEvents /\ edits + events < MaxSteps
    /\ events' = events + 1

WorldUnchanged == UNCHANGED <<memory, client, boot, sync, prefetching, stamp, build, edits, latest>>

\* The connection breaks, perhaps after the server has had a push.
Lose ==
    /\ Event /\ alive
    /\ alive' = FALSE
    /\ \/ UNCHANGED <<server, settled>>
       \/ \E e \in DOMAIN save :
             /\ At(e, {"pushing"})
             /\ server' = Append(server, [Current EXCEPT ![save[e].id] =
                                             Accepted(save[e].id, save[e].version)])
             /\ settled' = settled \cup {e}
    /\ UNCHANGED <<save, disk, writes>> /\ WorldUnchanged

Disconnect ==
    /\ sync = "live" /\ ~alive
    /\ sync' = "down"
    /\ UNCHANGED <<server, memory, client, alive, boot, save, prefetching, disk, writes, stamp,
                   build, counters, latest, settled>>

RemoteSave(id) ==
    /\ Event
    /\ Current[id] # Absent \/ latest[id] = 0
    /\ server' = Append(server, [Current EXCEPT ![id] = Append(@, -events')])
    /\ UNCHANGED <<alive, save, disk, writes, settled>> /\ WorldUnchanged

\* The server is restored from a backup.
Restore ==
    /\ Event
    /\ \E n \in 1 .. Len(server) - 1 : server' = SubSeq(server, 1, n)
    /\ UNCHANGED <<alive, save, disk, writes, settled>> /\ WorldUnchanged

\* "Clear local cache" in the settings, opened after the start; the reload that
\* follows is Reload.
ClearLocalCache ==
    /\ Event /\ boot = "done"
    /\ histories' = FALSE
    /\ Issue(Cleared(clearing))
    /\ UNCHANGED <<server, cards, root, offline_queue, client, alive, boot, sync, save,
                   prefetching, disk, stamp, build, edits, latest, settled>>

\* The tab is closed or reloaded, perhaps into a later build: what is not in a
\* file is gone.
Reload ==
    /\ Event
    /\ cards' = Empty /\ root' = NoRoot /\ offline_queue' = Empty /\ histories' = FALSE
    /\ client' = FALSE /\ alive' = FALSE
    /\ boot' = "start" /\ sync' = "down" /\ prefetching' = FALSE
    /\ save' = [e \in DOMAIN save |->
                   IF At(e, {"none", "ended"}) THEN save[e] ELSE [pc |-> "cut"]]
    /\ writes' = << >>
    /\ build' \in {build, build + 1}
    /\ UNCHANGED <<server, disk, stamp, edits, latest, settled>>

PersistNext ==
    \/ Perform
    \/ CheckStamp \/ LoadHistories \/ load_local_state \/ load_offline_queue
    \/ \E id \in Ids : UserSave(id) \/ RemoteSave(id)
    \/ \E e \in DOMAIN save : SaveStep(e)
    \/ SyncStep \/ Prefetch
    \/ Lose \/ Disconnect \/ Restore \/ ClearLocalCache \/ Reload

\* Nothing is under way and the client is up to date.
AtRest ==
    /\ sync = "live" /\ alive /\ root = server /\ ~Saving /\ ~prefetching
    /\ writes = << >> /\ offline_queue = Empty

PersistSpec == PersistInit /\ [][PersistNext]_persistVars

-----------------------------------------------------------------------------
(* Properties *)

\* The last edit of a card is in the saved queue, once its save is over and
\* also as soon as the saved list shows it, until the server has had it or
\* reconciliation has dropped it: a later session neither loses it nor
\* shows it without ever sending it.
EditsOnDisk ==
    \A id \in Ids :
        LET e == latest[id]
            saved == e # 0 /\ At(e, {"ended"})
            shown == e # 0 /\ disk.db.cards[id] # Absent /\ Last(disk.db.cards[id]) = e
        IN  (saved \/ shown) /\ e \notin settled =>
                disk.queue[id] # Absent /\ Last(disk.queue[id]) = e

\* What a session starts with belongs together: a list of its own build, and
\* histories only with a list (app.rs).
StartsWithOnePiece ==
    [][boot # "done" /\ boot' = "done" =>
          /\ root' # NoRoot => disk.db.build = build
          /\ root' = NoRoot => ~histories' /\ ~disk.histories]_persistVars
=============================================================================
