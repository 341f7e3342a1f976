# BlazeList: TLA+ models, checks and proofs

BlazeList keeps prioritized cards and a graph of tags on a server (Rust,
SQLite) and shows them in an offline-first WASM client. This directory models
the parts that are hard to test: the server's transactions, the tag graph, the
client's synchronization and its connection loop, the placement and movement of
cards, and the state behind the client's screen.

Sources are named relative to the repository. `PROJECT.json` maps every
definition that models code to the lines it stands for.

## The system

| Part | State | Operations | Talks to |
|---|---|---|---|
| Entities (`protocol/src/card`, `tag`, `hash`) | none; a version holds id, count, content, priority, tags or implies, ancestor hash, hash | `first`, `next`, `verify` | used by all |
| Tag graph (`protocol/src/tag/graph.rs`) | implies edges | `closure_of`, `detect_cycle`, `missing_for_card` | the validator of the store, the client's tag picker |
| Storage (`server/src/storage/sqlite`) | live rows, version rows, tombstones, bucket hashes, root history, sequence stamps | push, delete, batch, get_changes_since | called by the request handler, one writer at a time |
| Handler and transports (`server/src/handler.rs`, `quic`, `webtransport`) | one task per request stream, a broadcast channel of roots | answer, notify | store, clients |
| Client sync (`clients/wasm/src/state/sync.rs`, `clients/lib/src/sync.rs`) | `cards`, `tags`, `root`, `offline_queue`, OPFS files | initial and incremental sync, push or queue, flush, subscription | server; UI state |
| Client connection (`clients/wasm/src/app.rs`) | `connection_status`, `CLIENT`, `RECONNECT_NOW`, countdowns, spawned attempts | connect, poll, give up, count down, reconnect | sync, browser events |
| Priorities (`clients/lib/src/priority.rs`) | none | `place_card`, `move_card`, `rebalance`, `resolve_collision` | card moves, flush |
| Pending moves (`state/pending_priority.rs`) | one burst and a timer | enqueue, flush, discard | card operations, sync |
| Filters and URL (`clients/lib/src/filter.rs`, `state/query_params.rs`, `components/filter_bar.rs`, `tag_sidebar.rs`, `keyboard.rs`) | the filter signals of `AppState`, the query string | pick, toggle, reset, reload, back | the list, the browser |
| Panel (`state/store.rs`, `card_editor.rs`, `tag_detail.rs`, `version_history.rs`, `app.rs`) | selection, panes, creation flows, drafts | select, create, edit, save, cancel, back | the burst, the URL, late answers |
| Tag editing (`card_editor.rs`, `tag_detail.rs`) | chips, the form of a tag, a batch on its way | toggle, imply, save with the cards affected, delete | the tag graph, sync, the store's validator |
| Drag and drop (`components/drag_drop.rs`, `state/drag.rs`) | one session, its frame and what is marked | start, move, frame, drop, cancel | the list, priorities |
| Quick edits (`card_item.rs`, `card_detail.rs`, `toast.rs`, `display.rs`) | gesture, toast and timer, the card | swipe, undo, blaze, due date, check box, editor | sync |
| Settings (`state/settings.rs`, `settings_panel.rs`, `server/src/https.rs`) | localStorage, settings in use, the server's defaults, styles | load, choose, reset, prune, apply defaults | everything |
| Link cache (`components/card_list.rs`, `card_detail.rs`) | which cards a card reaches, a pass in idle callbacks, the saved cache | invalidate, fill, save, restore | the list, OPFS |
| Persistence (`clients/wasm/src/storage.rs`) | OPFS files, schema stamp | load, save, clear | startup, sync |
| Wire format, rendering, colours, seeder | none | | |

What is hard, and what correctness means:

* **Storage.** A batch applies items one after the other over shared tables and
  may fail in the middle or at the final validation; the root hash is kept
  incrementally; rows are stamped after the items have run; an upsert on a
  table with a unique priority may evict another card. Correct means: histories
  are chains, no id is live and tombstoned, tombstones stay, no card vanishes,
  the incremental root equals the root computed from scratch, the tag graph stays
  acyclic and closed, and the store as a whole is an atomic list of changes.
* **Tag graph.** The loops run before any check has refused a malformed graph.
  They must end and agree with the graph-theoretic definitions on all graphs.
* **Tag editing.** The client picks by a graph that may be behind the server's,
  and the server refuses what its own graph forbids. Correct means: no save is
  lost without a word, the list ends as the server's, a tag's save changes cards
  only by what the new graph implies, and nothing waits in the queue for ever
  (which does not hold).
* **Client sync.** The client is single-threaded, but each `await` lets other
  tasks run: several pushes, a flush, the periodic sync and the subscription's
  sync share `cards`, `root` and `offline_queue`, while the server changes and
  connections break. Correct means: a user's edit is never lost without a
  reason the code gives, the list is never stale where the root says it is
  current, the queue drains, the client catches up.
* **Connection loop.** An attempt the loop gives up is not cancelled. Correct
  means: a hanging handshake does not stop the loop, a lost connection is
  retried, a request to reconnect is answered, the status does not lie.
* **Placement.** i64 midpoints with jitter, capped at the ends of the list, and a
  rebalance when there is no room. Correct means: the card lands where it was
  put, nothing else changes its order, no priority is used twice.
* **Pending moves.** A move is shown at once and pushed after a delay, while
  edits, deletes, syncs, other moves and a broken connection come between.
  Correct means: one version per burst, no move lost, no edit undone, nothing
  pending for ever.
* **The screen.** Some thirty handlers write the same signals; reactive effects
  run between them; answers and timers come late; sessions start with what
  earlier ones, or earlier versions, left. Correct means: the URL names the view,
  Escape reaches the default, the panel never shows two things, drafts are
  not dropped silently, a drag leaves nothing behind and drops where it is
  marked, a swipe does what its label says, the user's choices last, the cache
  of links is fresh when a pass is through.

## Modules

| Module | Models | State and actions |
|---|---|---|
| `Entity` | versions and hashes | a version is a record; the hash is the record of what it covers, so equal hashes mean equal content and ancestry |
| `TagGraph` | reference definitions | closure as least closed superset, acyclicity by reachability |
| `TagClosure` | `closure_of` | the worklist and the seen set; `Pop` and `PushParent` |
| `TagCycle` | `detect_cycle` | colours, explicit stack with parent indices, path; one action per branch of the loop, in every iteration order of the hash map |
| `Storage` | `server/src/storage/sqlite` | `db` is the committed database, `tx` the open transaction with its working copy; `Begin`, `ApplyItem`, `RejectItem`, `RejectBatch`, `Commit`, `Crash` |
| `ServerList` | what the store promises | live entities, tombstones and stamps; a transaction is one step or none |
| `MCStorage` | instance | chains of versions built with the code's constructors, and damaged ones |
| `MCTagGraph` | instance | every graph: the search, then the closure from every set of roots |
| `Sync` | client sync against the server | below |
| `Connection` | `connection_loop`, `connect_and_run`, syncs of the timer and the indicator | below |
| `Priority` | `clients/lib/src/priority.rs` | operators over lists of cards, for any range of priorities; a jittered midpoint is the set of what the jitter may give |
| `Ordering` | a list under placements, moves, refused priorities and syncs | `list`; `NewCard`, `MoveCard`, `Resolve`, `Arrive`, `Leave` |
| `Moves` | `state/pending_priority.rs` against a server | below |
| `Drag` | `components/drag_drop.rs`, `state/drag.rs` | one action per listener, the animation frame, syncs and settings |
| `Edits` | swipes, shortcuts, menus, check boxes, toast and undo, the editor | one card with its couplings; one action per handler |
| `Filter` | `clients/lib/src/filter.rs`, `due_date.rs` | filters, sorts and badges as operators over records of cards |
| `View` | the handlers that change the filters, and the URL | `view` holds the signals, `url` the query string as a record |
| `Panes` | what the panel shows | the flags of `AppState`, what is mounted, the draft, the browser's history, requests on their way |
| `Settings` | `state/settings.rs` and `/config` | `localStorage`, the settings in use, the raw server defaults, styles; eight settings for the three kinds |
| `Links` | the passes of `card_list.rs` | the list, the cache, the pass under way, what is on disk |
| `Persist` | `storage.rs`, the start of `app.rs`, the writes of `sync.rs` | what is in memory, what is in the files and the calls under way; below |
| `TagPicks` | `card_editor.rs`, `tag_detail.rs`, `affected_cards_for_change` | what the client picks by the graph of implications: operators over a graph |
| `Tagging` | the editors of cards and tags against a server with implications | below |
| `Queues` | `Vec::retain` on the offline queue | two operators, written so that they can be proved about |
| `MCSync` | instance | `Sync` with the periodic sync in one of two worlds: two cards, or one and a loss; or, offline, in a third |
| `MCTags`, `MCCardList`, `MCPage` | instances | several of these modules, one at a time, while the others rest; `MCTags` has `Storage` and `Tagging` |
| `Option` | | the value that stands for `None` |
| `StorageProofs`, `TagGraphProofs`, `ConnectionProofs`, `KeptProofs` (settings, panel, files), `CardListProofs` (view, list, drag, edits, links), `OrderingProofs` (placements, bursts), `SyncProofs`, `QueuesProofs` | proofs | see below |

`Storage` uses `TagGraph` for the validator (the step-by-step modules show that
the code computes those operators) and `Entity` for versions. `Storage`
implements `ServerList` (`ImplementsServerList`). `Sync` uses the
server at the level of `ServerList`, restricted to cards: per card a chain,
a tombstone set, stamps and one sequence number.

### Sync

A card version is the sequence of the bodies that led to it, which is also its
hash: an ancestor check compares sequences. A body records which edit wrote it,
positive for this user and negative for others, and its priority.

`task` holds the tasks of the client: one per save or delete of the user, the
connection task `conn`, the periodic sync `auto`. A task issues a request
(`Send`) and stops; `Serve` answers it atomically on the server; the action for
its program counter runs to the next await. `Lose` breaks the connection: every
request under way fails, processed or not. `UserSave` puts the version in the
list at once (the editors call `upsert_card`) and queues it without a client.
`FlushPushReply`, `FlushGetReply`, `FlushRetryReply` are the branches of
`flush_offline_queue`; its loop runs over a snapshot (`todo`) and writes back
`remaining` at the end.

`latest`, `landed` and `fate` are history: each card's latest edit, the edits
the server accepted, what the code says became of a discarded edit.

### Connection

One sleep of `connection_loop` to the next is one action (`Phase1`, `Phase2`,
`Countdown`). The attempts are tasks of their own; the loop only looks at the
current one's end, at the status, and at the request flag. `client` is who set
`CLIENT`. `syncs` counts the timed and manual syncs under way, whose end sets
Connected whether or not they succeeded. A slot of an attempt is reused when it
has ended. `asked` and `intruded` are history.

### Moves

The server is a chain of versions per card, without priorities: whether a push
is accepted depends on its ancestor alone. `pending_priority` is the burst with
the snapshots taken at its first move, `timer` its timer. `flush`,
`flush_blocking`, `discard_for` and `enqueue_move` are the entry points of the
same names; `EditItems` is `flush_now` followed by the push of an edit, which
one task does in this order. `push` holds the spawned tasks with the items that
are left; `Serve` answers, `PushAnswered` goes on. `flushed`, `moved` and
`discarded`, the cards `MovesArrive` leaves out, are history.

With `Overlap` FALSE the user acts only when no push is on its way, which is
what `flush_now` is written for. With TRUE a second action may overtake the push
of the first; `EditSurvivesBurst`, `BurstsCoalesced` and `MovesArrive` then do
not hold (see below).

### Persist

`Persist` follows one tab over several sessions. `cards`, `root`,
`offline_queue` and `histories` are in memory; `disk` holds the files, and
`writes` the calls on files that are under way, in the order they were made. A
task that awaits its calls goes on when they are `Done`. `Reload` may come
between any two steps: memory and the calls under way are gone, the files and
`stamp` (localStorage) stay, and the next session may run a later build.
`CheckStamp` to `load_offline_queue` are the start of a session; `UserSave` to
`SaveEnds` are `push_card_or_queue`; `Sync` to `FlushEnds` are a connection and
its syncs, each with its answer as one step, because their interleavings are
`Sync`'s. A root is the sequence of contents up to it, which is what
`RootTellsContent` of the store allows; `Restore` cuts that sequence off, and the
sync that notices goes through `Forget` and `FullSync`.

With `SavesWhile` empty the user saves after the files are read, one save at a
time while connected; with "boot" or "sync" `EditsOnDisk` fails (see below).

### Tagging

`server` is the content the server has, `root` the content the last sync saw;
`cards` and `tags` are the client's list. A version is the sequence of what was
saved, as in `Sync`, with a set of tags per card and of implied tags per tag.
`Valid` is what the server's validator asks of a content. `panel` is the open
editor or form, `batch` the batch of a tag on its way: `save_changes` and
`do_delete` send it, `Serve` takes or refuses the whole of it, `Answer` brings
the result into the list. `SaveCard` is the save of the editor with
`push_card_or_queue`, `Sync` a sync with its flush (`Flushed`: `FlushOne` per queued
card); both are one step, since `Sync` has their interleavings. `latest`, `landed` and
`dropped` are history.

With `Overtaken` FALSE no sync ends between a batch and its answer. With TRUE one
may, and the answer then puts back what the sync had replaced: `ListIsCurrent`
fails (see below).

### The modules of the screen

They share no state in the models. What one takes from another is in it as an
action of the environment: `Drag` lets syncs reorder and remove rows, `Panes` lets
a burst be pending, `Edits` lets the card change under an open editor, `Links`
lets syncs change the list. `MCCardList` and `MCPage` choose in the initial state
which part acts.

* `Drag`: `ACTIVE_SESSION` is the session of the module of that name; a frame
  takes the newest position of the pointer. `drop_position` is computed on the
  list of the moment of the drop.
* `View`: Escape, the sidebar, the filter bar, the keyboard menus, badges,
  the linked-cards filter of keyboard and panel (with `recursive_links`, every card
  linked in turn) and `popstate`. Search text is one text that matches
  some cards. `LoadedView` is what a page makes of a URL. Due dates are a day, which
  is what filters and badges compare, and a time of that day, which the sort compares.
* `Panes`: `shown` is what is mounted. Whatever notifies the signals it depends on
  mounts it anew, which drops the draft and runs its `on_cleanup`.
  `excuse` is history: why a draft may have been dropped in the last step.
* `Settings`: `Page` is the start of a session, `Merged` the server's defaults
  under what is stored, `Styled` the class list of the page.
* `Links`: `PassFrom` is the effect that starts a pass: fingerprint, eviction,
  work list. `IdleCallback` is one expansion. `disk` may be saved or not.

## Runs

| Run | Bounds | Shows |
|---|---|---|
| `storage_cards` | 2 cards with 2 versions each and 2 priorities, 1 tag, 4 sequence numbers, batches of 2 | type, histories, incremental root, fresh root hashes, no vanished card, refinement of `ServerList` (which keeps tombstones) |
| `tags` | `Storage`: 1 card with any tags, 2 tags that may imply each other, 3 sequence numbers, batches of 2. `Tagging`: 1 card, 2 tags with any implications, 2 saves, 1 remote change or loss | the graph stays acyclic and closed after every commit (`ImplicationsHold`); `EditsAccounted`, `ListIsCurrent`, `TagSaveIsLeast` |
| `tag_graph` | all graphs over 3 tags, all sets of roots | the loops end and agree with `TagGraph` (`CycleCheckCorrect`, `ClosureCorrect`) |
| `offline_queue` | 2 cards, 2 offline edits, 2 remote changes, 1 loss, no periodic sync | the queue against refusals: `EditsSurvive`, `UntouchedCardsFresh` |
| `sync_goes_on` | 1 edit anywhere, 1 remote change, periodic sync; either 2 cards with colliding priorities and no loss, or 1 card and 1 loss | `QueueDrains`, `CatchesUp` |
| `moves` | 2 cards, 2 moves, 2 edits or deletes, 1 loss | `BurstsCoalesced`, `MovesArrive`, `EditSurvivesBurst`, `Settles` |
| `card_list` | `View`: 4 cards, 2 tags, 2 filters by due date, 2 orders, 3 bookmarks. `Ordering`: 4 cards, 8 priorities, edge gap 3. `Edits`: 2 task lines, couplings on and off, offsets to 4, 2 changes of the card. `Links`: 3 cards, 1 link each, 2 changes of the list | filters and the URL, placements, quick edits, a fresh link cache |
| `page` | `Settings`: 4 leftovers, 4 environments, 3 typed numbers, 2 changes. `Persist`: 1 card, 2 saves, 2 events (reload, upgrade, cleared cache, remote save, restored backup, loss), 3 in all. `Panes`: 2 cards, 1 tag, 1 request on its way. `Drag`: 3 rows, 2 syncs, every point of the screen relative to the rows | what outlives a session: settings, every edit, a start from files that belong together; drafts in the panel; and drags |
| `connection_loop` | 3 attempts, 2 syncs, requests, late handshakes; 3 polls, 2 seconds | `AlwaysReconnects`, `UndisturbedHandshakeGivenUp`, `ConnectedMeansClient` |

`CHECKS` and `RETRY_SECS` are 150 and 5 in the code; the loop's steps differ only
in whether more than one is left, so 3 and 2 show every step.

Why the bounds are enough: two cards are needed for a priority collision and
for an affected bucket beside an untouched one; two versions for an ancestor
and for a stale one; two tags for a cycle, three for a path that is neither
root nor closing edge; batches of two items for every interaction of a pair on
one id. In `Sync` one loss
can hit any await, first pushes and retries alike; two edits give two queue
entries or two versions of one card that overtake each other; two remote
changes are a save and its deletion, or a rival for a version and one for a
priority.
In `Ordering` four cards are the least that have a packed run with a card beside it
that must not move, a range of eight makes every gap, packed or free, next to
either end. In `Moves` two cards give a burst with a sibling and a burst
replaced by another; three moves and two edits were run once without
liveness (3.6 million states) with the same result. Three rows are the least where a
card can be dropped between two others from either side. Three cards give a
chain of links whose middle changes; three linked cards reach each other by
two ways. Of the four cards of `View` one is overdue, two are due today, at
different times and against their priorities, and one has no date. In `Edits` the hint of
a right swipe begins at the left threshold, so that a right swipe looks like a left one;
the couplings are all on, off for clearing, or off for setting and blazing. In `Persist`
two cards with the same bounds were run once, with the same result; a save, a
reload and what happens in between or in the next session take three.
In `Tagging` two tags give a graph that
changes under a card, a cycle, and a deletion that another tag's implication
refuses; three tags with one save were run once (850 thousand states), with the
same result. Values of settings matter only by being in range, out of range, of the
wrong kind or absent, and all four occur.
The rows of `Drag`, the cards of `Links` and the tags of
`Tagging` differ in nothing else, hence the symmetry; no run with symmetry has a
liveness property. Each behaviour named above is reached: each property is refuted when
one definition is changed the way a slip would (`mutants` in `PROJECT.json`,
the operators marked `Mutant:`).

Where a run sets `CHECK_DEADLOCK FALSE`, the system may stop: no operation is
left within the bounds, or nothing is due when periodic sync is off.

### Fairness

`Sync`: the server answers while the connection holds, the event loop runs
ready tasks, timers fire, the connection task eventually reconnects. Nothing
forces the user, other clients or losses; those are bounded. The liveness
properties say what holds once they stop. `Connection`: timers fire and
requests on an established connection end (QUIC has an idle timeout); the
handshake, the end of a stream, requests and syncs have no fairness.
`TagClosure`, `TagCycle`: the loop goes on.

`Moves`: the timer fires, spawned tasks go on, the server answers, the client
reconnects and syncs; losses and the user's actions are bounded. `Tagging`, for
`tag_stuck_queue`: syncs go on, batches are answered, the client reconnects. `Drag`,
`Edits`, `View`, `Panes`, `Settings`, `Links`, `Persist` and `Ordering` have safety
properties only: what the user does next is never forced.

### Where code and documentation disagree

Three are runs. `sync_stale_card`: with the periodic sync on, two syncs side by
side leave a stale card under a current root (`UntouchedCardsFresh`), although
the code syncs incrementally from that root from then on.
`sync_lost_edit`: a save during a flush is erased by the flush's
write-back, although `DOCS.md:273` promises that local changes are pushed.
`tag_stuck_queue`: a queued card whose tags the server refuses, because its
implications have changed, is refused by every flush and holds up all behind it,
although `sync.rs:534` expects the next sync to resolve it (`QueueResolves`).

The models show more of the kind. Each of the following is a change of a
constant, or of a condition, of a passing run, which keeps to the circumstances
in which its properties hold.

* `Tagging` with `Overtaken`: a sync between a batch and its answer is undone in
  the list by the answer, and no later sync corrects it (`ListIsCurrent`).
* `Tagging`: an edit dropped after a refused rebase stays in the list, although
  sync.rs:492 says the sync before has replaced it (`DroppedEditsLeave`): if the
  card itself has not changed since the root, because an earlier version of it was
  refused too, the sync replaces nothing.
* `Tagging`, by reading: a tag form opened before a sync and saved after it chains its
  version onto the synced tag, and fields the user did not touch go back to what
  they were.
* `Sync` without the periodic sync: `CatchesUp` fails for a change between the first sync and the registration of the stream.
* `Sync` with saves online too: the older of two failing pushes of a card
  replaces the newer in the queue (`EditsSurvive`). Reconciliation drops edits
  with a log line, where the changelog names a toast. An edit
  dropped after a refused rebase stays on screen.
* `Connection`: a late attempt moves the loop to a phase without timeout while
  the current handshake hangs (`HangingHandshakeGivenUp`); a request during an
  attempt is followed by the full countdown (`RequestsAnsweredAtOnce`); a
  superseded connection that is still alive shows Connected.
* `Moves` with `Overlap`: an edit made while the push of a burst is on its way
  is overtaken, and the burst's rebase puts the old fields back
  (`EditSurvivesBurst`). A sync during a burst takes the move off the list, and
  an edit made then makes that final.
* `Moves`: a delete expects the bursts of other cards to be flushed "when
  selection moved here" (card_detail.rs:482), but a drag moves a card without
  selecting it. When such a burst has shifted the deleted card, its next move puts
  the card back into the list (`build_versions`), the server refuses it, and no
  later incremental sync takes it out. `MovesArrive` leaves these cards out (`discarded`).
* `Edits`: in the levels mode the background tells a left zone by the length of the
  swipe alone (card_item.rs:504), so a right swipe that is too short for its own hint
  (40 px) and as long as the left threshold shows a commit, and its release
  does nothing. `ReleaseDoesAsShown` leaves these out (`LooksLeft`). The settings
  panel admits thresholds from 40 px on, where only that offset is concerned; the
  operator's default is taken as it is (app.rs:654).
* `View`: shortcuts set noon (keyboard.rs:903), menus and swipes midnight, and the order by due
  date compares times (filter.rs:466): of the cards due on one day those set by a
  shortcut come last, or first in reverse, whatever their priorities.
* `Edits` with a task line inside a code block: the renderer shows no box for it,
  `toggle_task_item` counts it, and a click flips another box.
* `View`: "no tags" can be combined with NOR and NAND, which filter.rs says the UI
  prevents; the linked-cards filter leaves the due date filter, although it
  clears the others "so the linked set isn't further narrowed".
* `Panes`: a late answer clears the dirty flag of another draft, which is then
  dropped without a question; the back button never asks.
* `Settings`: the operator's default widths never reach the panels.
* `Links`: a pass takes over entries the detail panel put in ahead of it, and a
  sync that replaces a card by one of the same version escapes the fingerprint.
* `Storage`: a deleted tag can be attached to a card again.
* `Persist` with saves while the files are read ("boot"): the first save of a
  session writes a queue file of its own before the old one is loaded, which is
  then lost, although app.rs:197 wants it preserved.
* `Persist` with pushes on their way during a sync ("sync"): the sync saves the list
  with the edit on it. If the tab closes before the push arrives, the list shows
  the edit for ever and nothing sends it.
* `Persist`, by reading: a push is not idempotent. Sent again after a lost answer,
  an edit is added a second time, and a new card that was "never been pushed"
  (sync.rs:347) is rebased on what others have made of it since. The model only
  lets builds grow: an older build would trust the list of a later one whose
  stamp was cut off.

## Proofs

For all values of the constants that satisfy the modules' assumptions: `none` is
no id and no session (`NoneIsNoId`, `NoneIsNoSession`), rows are a finite set
(`RowsAssumption`), so are the cards of `Links` (`FewIds`) and of `Moves` (`FewCards`), no content has the hash of none
(`NoneIsNoContent`), days and priorities of the listed cards are integers (`CardsAreListed`),
the couplings are flags (`CouplingFlags`), the widths of swipes
numbers (`SwipeWidths`), there are more priorities than cards (`PrioritiesSuffice`; an i64
leaves room for 2^64), and the like.

* `StorageProofs`. `TypeCorrect` first. Then `IInv`: the type invariant, tombstones
  exclusive in the database and, while a transaction is open, exclusive in its
  working copy, with every old tombstone still there unchanged and no card of the
  database gone without a tombstone (`NoneVanished`). The properties speak of commits only
  and are not inductive: a commit publishes what several items did to the
  working copy, so the invariant must hold of the copy after each item.
  The step for an upsert uses the priority check, which leaves no other card
  of that priority to evict. From `IInv`: `TombstonesStayExclusive`,
  `TombstonesArePermanent`, `CardsAreNeverLost`.
* `StorageProofs`, the root. `RInv`: in the database the row of every entity carries the hash
  its root is computed from, and in a transaction the buckets of entities no
  item touched are those of the database, which are all the incremental update of
  the root reads from the cache (`UntouchedBucketsRight`); the root itself moves
  with the commit only (`RootUnmoved`). Hence `CachedRootIsRight`: the root kept up
  to date bucket by bucket is the root computed from scratch.
  `HInv` adds the history: in the committed tables and in the working copy alike
  the version rows of a live entity are one chain up to its current row. A stamp is
  given at the end of the transaction, so rows of untouched entities have the
  stamp of their entity and the rows of touched ones are still unstamped.
  `HistoryStaysChain`. The order of the rows is by count, and the store checks
  hashes only: the proof rests on `CountsOfChains`, that a version that verifies
  counts the versions before it, which is what `first` and `next` of `Card`
  and `Tag` produce.
* `StorageProofs`, the implications. `MInv`: every entity has a last version, the overlay of
  the open transaction mirrors its rows (`OverlayMirrorsRows`), and the validator
  has passed on whatever a batch commits. The code does not validate a single
  delete (`SingleItem`); that deleting a card or a tag nobody has leaves closed
  sets closed shows it need not (`DeleteHolds`). `ImplicationsHold`.
* `StorageProofs`, the refinement. `StoreImplementsList`: every step of the store is a step of
  `ServerList` or a stutter. Each item makes one chain longer or moves one entity
  to the tombstones, and several may touch the same one, so `LInv` follows a
  transaction relative to the database it began with: touched entities have moved
  (`HasGrown`, `HasGone`), all others are as before. That a chain of accepted
  versions extends the old one is by least counterexample, since each accepted
  version names the hash of the one before. `RootTellsContent`: `FInv` orders contents (`Older`: entities are gone for
  good, chains extended), and every commit is strictly later, so one root never
  stands for two contents, which is what lets a client skip a sync.
* `TagGraphProofs`. `ClosureInv`: everything seen or waiting lies within the
  closure, the roots are seen or waiting, and so are the parents of every seen
  tag; when nothing waits, the seen set is the closure. `ClosureLoopCorrect`.
  Then the editors' operators of `TagPicks`, on any graph and closed set of tags:
  `RemovalIsLargest` (the tags that do not lead to the removed one are closed, and
  every closed set without it consists of such tags), `TogglesStayClosed`, and
  `OffersMakeNoCycle`: a tag that is offered does not lead back, one that was
  implied does not either in a graph without cycles (`NoWayBack`), so a set every
  member of which implies a member, cut down to what one of them leads to, would
  be such a set before the edit.
  The cycle check. `PathInv`: stack and path run in parallel, the path is a
  walk without repetition and holds exactly the gray tags, so an edge to a gray
  tag closes a cycle (`ReportedCyclesAreReal`). `TodoInv`: what a stack entry
  has passed over is black or the entry above it. `BlackInv`: black tags imply
  black tags only and every set of them has a member with no edge into the set,
  which at the end gives `NoCycleMissed`; both together are `CycleCheckIsCorrect`.
* `TagGraphProofs`, the editors against a server. `NoSaveLostSilently`: `TaggingInv` has the
  types and says of the batch on its way what it was built from (`SaveAsBuilt`) and that
  the last save of a card is accounted for (`LastSaveKnown`). A flush goes through
  the queue entry by entry, and each entry is taken, kept with all behind it or counted as
  dropped (`FlushOne`); that this adds up over the whole queue is by least
  counterexample. `SavesAreLeast`: the versions of the batch were built on the client's
  list and graph, but the server takes them only on top of its own, so where they are taken
  the cards are the same, and closed under the new graph.
  `ListStaysCurrent`: what the server has had differs from one content to the next by
  chains that grow or end (`ListFollows`), so between the root and the server every card
  of the list is at its place or has a change coming; what a batch the server took brings
  is not older than the list (`DoneIsNews`). The latter is where
  `Overtaken = FALSE` is needed: a sync in between would bring a later version.
* `ConnectionProofs`. `ConnInv`: the types, and that an attempt past its first
  sync has published a client that only the next attempt takes back
  (`CurrentHasClient`), whatever given-up attempts and other syncs do. Before that,
  Connected is never shown without a client as long as no task of an earlier attempt has
  changed the status (`StatusHasClient`); one that has may show it without. Together
  they are `ConnectedMeansClient`.
* `KeptProofs`, the settings. `SettingsInv`: what is stored is of a kind the program stores
  (`StoredOK`), a choice of the user is stored and in use (`ChosenOK`), and the root's
  style is that of the settings, as long as the density the operator names is one
  the client knows (`DensityOK`). With `OthersKept` (the cleanup removes
  own keys only) and `ShownOK`: `ChoicesAlwaysLast`, `PageShowsSettings`,
  `OthersKeysStay`, `ReloadsShowTheSame`.
* `KeptProofs`, the panel. `PanelInv`: besides the types and the two properties themselves, the
  flags of a pane and of a new card have their view mounted (`ShownRight`), a draft is in
  an editor that is open (`DraftInEditor`), and a `TagDetail` that is mounted still
  and waits for the answer to its save is the view on the screen (`SavesAreShown`), which
  is what the step of a late answer needs. `PanelShowsOneThing`, `UrlAlwaysNamesSelection`, and of the steps
  `DraftsAlwaysLeaveKnowingly`.
* `CardListProofs`, the URL. A view the handlers can make comes back from the URL they
  write for it (`WrittenNames`); `ViewInv` says that of the current pair, with the
  values the signals may hold, since a value the URL has no word for would come back as
  the default. Each handler keeps the values and ends with writing the URL, or
  does neither. Hence `UrlAlwaysNamesView`; and as Escape resets what
  `has_filters` looks at, `EscapeAlwaysReachesDefault`: the tag mode, which it does
  not look at, filters nothing without tags. The history may hold any URL.
* `CardListProofs`, the list. Each stage keeps the cards it asks for (`Stages`), so the
  pipeline keeps those that pass them all (`FilteredCards`), and every list the sort may
  leave has the same cards in an order no pair contradicts (`SortedCards`: an injection of
  places into as many places). With the badges told by the day (`DueBadges`) this gives
  `ListsAreAsAsked` in every state of `ViewInv`. By due date it promises the order of
  the days, and that of the priorities only among cards due at the same time.
* `CardListProofs`, the drag. `SessionShown`: whatever is shown of a drag belongs to the
  session that carries a card, so `NoDragOutlivesItsGesture` after every handler that
  ends one. `RowsOnce`: no row is listed twice, over moves and syncs; then the
  carried card has one place, the rows without it are the others in their order
  (`WithoutRow` removes at that place), and the position a drop computes among them
  is the gap that was marked: `DropsLandInMarkedGap`.
* `CardListProofs`, the changes of a card. `CouplingInv`: not only the listed version but
  those the toast and the editor hold keep the couplings, for an undo and a late save
  bring them back. `BlazedAreNeverDue` needs two of the three settings: dates that
  extinguish and blazing that clears. `SwipeInv`: offsets and widths are numbers, the
  row at rest has none; the zones of the levels mode begin at the threshold that
  commits, so the label, the background and the release agree, but for a right swipe
  that looks like a left one (`LooksLeft`): `ReleasesDoAsShown`.
  `PlainInv`: no version has a task line in a block of code, if no content has.
  Then the page and the text count the same lines (`BothCountAlike`), no two tasks
  have as many before them (`TasksBefore`), and a click flips the box that was
  clicked: `ClicksFlipTheirBox`. Its hypothesis cannot be dropped (see above).
* `CardListProofs`, the cache of linked cards. As many rounds of the search as there are
  cards are enough: a round that adds none is the last one that could (`RoundsClose`), so a
  card reaches the least set that is closed under links both ways (`ComponentIsLeast`), and
  whoever is in it reaches the same. `CacheRight`: an expansion fills a component as a whole,
  as of some list, and eviction keeps a component or drops all of it, for a card that changed
  is in the `reach` of every other (`FilledWhole`); a component that was kept and has grown
  since has a card without an entry, which the pass has in its queue (`PassMends`), and the
  expansion of that card overwrites it. A pass that is cancelled, a restart with an older
  cache, or a setting that is turned off start from there again. So a pass that is through
  leaves no stale entry, and `LinkedServed` no linked card without one: `PassesLeaveFresh`.
  Excepted is an entry the detail panel puts in on its own.
* `OrderingProofs`. `PlacementsLand`, for any range of priorities, jitter and edge gap. A
  sorted selection of cards is listed by their places (`InOrderLists`, by the bijection
  of a finite strict order with `1 .. n`), so what a filter shows and what is left without the
  moved card are lists by descending priority (`Listed`). Between neighbours with a free
  priority the jittered midpoint stays inside (`ComputeBetween`), and the cap of the
  edges keeps it near the last card (`CappedBounds`). Without one, `rebalance` takes
  the run of packed cards: it ends at a gap of two or more or at the end of the
  range (`RunEnds`), so its room has a priority for every slot (`RunHasRoom`: at an end of the range
  by counting, which is where there must be fewer cards than priorities), the rounded
  step fits as often as there are slots (`StepFits`), no slot is clamped
  (`SlotsInRange`) and slots stay a step apart (`SlotsApart`). Hence `PlacementFits`, by
  least counterexample for cards that are not neighbours; and since every placement
  keeps all cards apart, sorting the new list finds no collision
  (`SortedList`). The invariant `OrderInv` adds that the list is sorted and holds no
  card at the very end of the range, which the code takes for a virtual bound.
* `OrderingProofs`, the bursts. `MovesInv` is the type of everything, told by moves: the server,
  the queue and the tasks hold moves whose burst has ended (`flushed`), the list those of
  the pending burst as well. `Numbered`: a pending burst has a number of its own, and its
  cards carry it in the list as the list built them, not as they will be pushed. `Calm` holds of
  a device whose user waits for pushes, until a connection is lost. It says of the
  running task that what is left of it is new to the server (`Orderly`: a move that keeps the
  content of its card, or the last edit, which comes last and was not built on the batch
  before it), that what the server or a rebase has told it is still so (`Answers`), and
  that the list shows the last edit or will when the answer is handled (`Shown`); of the pending
  burst that its snapshots have the server's contents (`BasesKeep`); and that nothing of a
  card the server still has waits in the queue (`Covered`), so that a flush runs into
  refusals only (`DeadEnds`). Each answer keeps it: a batch that is recorded
  (`OrderlyRecorded`), refused and pushed card by card (`OrderlySingles`), a card that is rebased, or
  queued because it was deleted. `BurstsAreCoalesced` and `EditsSurviveBursts` follow, with
  `Overlap = FALSE`: without it both fail (see above). That a set of siblings becomes a batch of each of
  them once is `Listing`, and needs the cards to be finitely many (`FewCards`).
* `QueuesProofs`. What the filters of the queue and of the list keep, for every queue: the entries at
  the places asked for, in order. Counterexamples are minimal numbers, since
  the provers have no induction over a recursive function. `SyncProofs`,
  `TagGraphProofs`, `CardListProofs` and `OrderingProofs` cite it.
* `SyncProofs`. `TInv`: what a task remembers, the request it has made and the answer on
  its way fit the place it waits at, the queue holds versions the user has saved,
  and the server's chains, stamps and sequence number agree. `SyncTypesCorrect`.
  `ShownCardsFresh`: while the periodic sync is off, the list is what the server
  had at the client's root, but for cards the user has touched. `FInv` carries this
  through the awaits: an answer on its way is complete as of the sequence number
  it names (`FInv` speaks of the server of the time of the answer, of
  which the stamps tell what has changed since), so that applying it late is
  harmless as long as no other task applies one. With the periodic sync on there
  are two such tasks and it fails: `sync_stale_card`.
  `OfflineEditsSurvive`: an edit made without a connection is on the server, in the
  queue or carried by the flush, until the code has said what became of it. A flush
  takes a snapshot and writes back what is left, so `SInv` counts what it has in hand,
  what it still has to do and what it has put aside, and says that nothing else
  touches the queue meanwhile. That is so only for edits made offline
  (`SavesWhile = {}`): `sync_lost_edit` is what happens otherwise.
* `KeptProofs`, the files. `StartsTogether`: what a session starts from is one piece: list,
  histories and root of one build and one save, or nothing. `StartInv` says of every
  write under way what it writes and over what, that a start reads nothing a later
  write has changed under it, and that the list's file carries its stamp only
  while it is whole. It needs no hypothesis: it holds with saves anywhere.
  `EditsStayOnDisk`: an open edit outlives the tab. `EditsInv` follows each edit
  through the calls: the writes reach the files in the order they were issued
  (`InOrder`), so an edit is safe if it is in a file and no write before the one that
  would put it elsewhere takes it out (`SaveSafe`), or in memory with the write
  of it under way (`MemorySafe`). It needs edits to be made between flushes
  and after the start (`SavesWhile = {}`); the other cases are listed above.

Only model-checked: liveness (`QueueDrains`, `CatchesUp`, `AlwaysReconnects`,
`UndisturbedHandshakeGivenUp`, `Settles`, and that the loops of the tag graph
end), which is beyond the prover together with fairness; and `MovesArrive`, which
has to follow moves through lost answers and the queue. `SyncProofs`,
`OrderingProofs`, `TagGraphProofs` and `KeptProofs` show what they show of the
queue, the bursts, the list and the files under the hypotheses named above,
which are those of the passing runs.

## Not modelled

* In `Sync`: the rebalance branch (`FreeSlot` keeps a priority free, so
  `resolve_collision` finds a simple one), tags and the history
  cache. The root hash mismatch with the full sync it forces, files and restarts
  are in `Persist` only, superseded connections in `Connection` only.
* A repeated notification (equal roots are one note), the capacity of the
  broadcast channel.
* The schema's version check and migrations.
* Calls on files that fail (a full quota) or overtake one another, and two tabs
  that share the files. In `Persist` a save and a sync do not overlap unless
  `SavesWhile` says so, and tags go with the list they are saved with.
* In `Tagging`: titles and colours, creation of tags, several batches at once,
  priorities. `tag_graph.rs` of the clients passes on what `protocol` defines.
* Colours, Markdown, time stamps, the
  lists of versions and sequences: rendering of state that is modelled.
* The encodings of the wire, and the handshake's comparison of versions.
* Matching of search texts: a text matches a card or not. Sorting by title
  compares an abstract title.
* Static files and the certificate hash over HTTPS; the seeder.
