-------------------------------- MODULE Panes --------------------------------
(***************************************************************************)
(* What the detail panel shows, and what becomes of unsaved changes:       *)
(* state/store.rs, pages/home.rs, and the handlers of keyboard.rs,         *)
(* card_detail.rs, card_editor.rs, tag_detail.rs and version_history.rs.   *)
(*                                                                         *)
(* A component is mounted when what the panel shows changes, or when a     *)
(* signal it hangs on is written, even with the same value; what was typed *)
(* in it is gone then.  A refused discard prompt changes nothing, so only  *)
(* accepted ones are steps, except where something remains to be done.     *)
(***************************************************************************)
EXTENDS Naturals, FiniteSets, Option

CONSTANTS CardIds, TagIds,   \* UUIDs of cards and tags, existing or to be created
          MaxTasks           \* bound on the requests on their way

\* No UUID is a missing one.
ASSUME NoneIsNoId == none \notin CardIds \cup TagIds

VARIABLES
    card_ids, tag_ids,       \* AppState: the cards and tags that exist
    selected_card, editing, creating_new, creating_new_tag,
    settings_open, shortcuts_open,
    new_card_prefill,        \* is there one?
    has_unsaved_changes, save_requested,
    pending_priority,        \* is there a burst?
    tag_editing,             \* editing of the mounted TagDetail
    shown,                   \* what is mounted in the panel
    draft,                   \* the editor that holds unsaved changes, or none
    url, visited,            \* the entity of the URL, and those of the browser's history
    tasks,                   \* continuations waiting for the server
    excuse                   \* history: why the last step may have dropped a draft

paneFlags == <<selected_card, editing, creating_new, creating_new_tag, settings_open, shortcuts_open,
               shown>>
editorVars == <<new_card_prefill, has_unsaved_changes, tag_editing, draft>>
urlVars == <<url, visited>>
entities == <<card_ids, tag_ids>>
paneVars == <<entities, paneFlags, editorVars, save_requested, pending_priority, urlVars, tasks, excuse>>

-----------------------------------------------------------------------------
(* The view *)

View(kind, id) == [kind |-> kind, id |-> id]

detail_open == selected_card # none \/ creating_new \/ creating_new_tag
               \/ settings_open \/ shortcuts_open

\* The panes of home.rs, then the views of CardDetail, when they are rendered.
\* Syncs do not render the view again.
Rendered ==
    IF ~detail_open THEN View("nothing", none)
    ELSE IF settings_open \/ shortcuts_open THEN View("pane", none)
    ELSE IF creating_new THEN View("new card", none)
    ELSE IF creating_new_tag THEN View("new tag", none)
    ELSE IF selected_card \in tag_ids THEN View("tag", selected_card)
    ELSE IF selected_card \notin card_ids THEN View("not found", selected_card)
    ELSE IF editing THEN View("edit card", selected_card)
    ELSE View("card", selected_card)

CardEditor(view) == view.kind \in {"new card", "edit card"}
CardDetail(view) == view.kind \notin {"nothing", "pane"}

\* What is left when the old view is unmounted and the new one mounted: a card
\* editor cleans up the flag and the prefill, the form of a new tag the flag,
\* TagDetail nothing.  An editor that is mounted twice finds no prefill.
Mount(flag, prefill, twice) ==
    LET old     == shown
        new     == Rendered'
        kept    == prefill /\ ~CardEditor(old)
        started == new.kind = "new card" /\ kept /\ ~twice
    IN  /\ shown' = new
        /\ draft' = IF started THEN new ELSE none
        /\ new_card_prefill' = (kept /\ (new.kind = "new card" => ~twice))
        /\ has_unsaved_changes' =
              \/ started
              \/ /\ new.kind \notin {"new card", "edit card", "new tag", "tag"}
                 /\ old.kind \notin {"new card", "edit card", "new tag"}
                 /\ flag
        /\ tag_editing' = FALSE
Orphaned == {[task EXCEPT !.live = FALSE] : task \in tasks}

\* confirm_discard_changes, accepted
Asked == IF has_unsaved_changes THEN "asked" ELSE "none"

sync_query_params ==
    /\ url' = selected_card'
    /\ visited' = visited \cup {selected_card'}

-----------------------------------------------------------------------------
(* state/store.rs *)

\* The writes to the pane flags notify, so that the panel is built anew.
Select(target, flag) ==
    /\ selected_card' = target
    /\ editing' = FALSE /\ creating_new' = FALSE /\ creating_new_tag' = FALSE
    /\ settings_open' = FALSE /\ shortcuts_open' = FALSE
    /\ pending_priority' = FALSE
    /\ Mount(flag, new_card_prefill, TRUE)
    /\ sync_query_params

set_selection(target) ==
    /\ Select(target, has_unsaved_changes)
    /\ excuse' = Asked

\* Does writing FALSE to the flag notify?
set_if_changed(flag) == flag

\* The editor is mounted before a notified pane builds the panel anew.
start_new_card(prefill) ==
    /\ selected_card' = none
    /\ creating_new' = TRUE /\ creating_new_tag' = FALSE /\ editing' = FALSE
    /\ settings_open' = FALSE /\ shortcuts_open' = FALSE
    /\ pending_priority' = FALSE
    /\ Mount(has_unsaved_changes, prefill,
             CardDetail(shown) /\ (set_if_changed(settings_open) \/ set_if_changed(shortcuts_open)))
    /\ sync_query_params
    /\ excuse' = Asked

\* Mutant: the URL keeps the card that was selected.
StartTagWithoutSync ==
    /\ selected_card' = none
    /\ creating_new_tag' = TRUE /\ creating_new' = FALSE /\ editing' = FALSE
    /\ settings_open' = FALSE /\ shortcuts_open' = FALSE
    /\ pending_priority' = FALSE
    /\ Mount(has_unsaved_changes, new_card_prefill, TRUE)
    /\ UNCHANGED urlVars
    /\ excuse' = Asked

\* Mutant: the user is not asked.
StartTagUnasked ==
    /\ selected_card' = none
    /\ creating_new_tag' = TRUE /\ creating_new' = FALSE /\ editing' = FALSE
    /\ settings_open' = FALSE /\ shortcuts_open' = FALSE
    /\ pending_priority' = FALSE
    /\ Mount(has_unsaved_changes, new_card_prefill, TRUE)
    /\ sync_query_params
    /\ excuse' = "none"

start_new_tag ==
    /\ selected_card' = none
    /\ creating_new_tag' = TRUE /\ creating_new' = FALSE /\ editing' = FALSE
    /\ settings_open' = FALSE /\ shortcuts_open' = FALSE
    /\ pending_priority' = FALSE
    /\ Mount(has_unsaved_changes, new_card_prefill, TRUE)
    /\ sync_query_params
    /\ excuse' = Asked

\* Only the view of a card hangs on `editing`.
Edit(flag, unsaved) ==
    /\ editing' = flag
    /\ pending_priority' = FALSE
    /\ UNCHANGED <<selected_card, creating_new, creating_new_tag, settings_open, shortcuts_open>>
    /\ IF shown.kind \in {"card", "edit card"}
       THEN Mount(unsaved, new_card_prefill, TRUE)
       ELSE /\ has_unsaved_changes' = unsaved
            /\ draft' = IF has_unsaved_changes /\ ~unsaved THEN none ELSE draft
            /\ UNCHANGED <<shown, new_card_prefill, tag_editing>>
    /\ UNCHANGED urlVars

\* Mutant: without a selection, too.
OpenUnguarded == Edit(TRUE, has_unsaved_changes)

open_editor == selected_card # none /\ Edit(TRUE, has_unsaved_changes)

close_editor == Edit(FALSE, FALSE) /\ excuse' = Asked

finish_creation_flow ==
    /\ creating_new' = FALSE /\ creating_new_tag' = FALSE
    /\ UNCHANGED <<selected_card, editing, settings_open, shortcuts_open, pending_priority>>
    /\ IF CardDetail(shown) THEN Mount(has_unsaved_changes, FALSE, TRUE)
       ELSE new_card_prefill' = FALSE /\ UNCHANGED <<shown, has_unsaved_changes, draft, tag_editing>>
    /\ UNCHANGED urlVars

\* clear_all_state, for the panes
clear_all_state == Select(none, FALSE) /\ excuse' = Asked

-----------------------------------------------------------------------------
PanesInit ==
    /\ card_ids \in SUBSET CardIds /\ tag_ids \in SUBSET TagIds
    /\ selected_card \in {none} \cup card_ids \cup tag_ids
    /\ editing = FALSE /\ creating_new = FALSE /\ creating_new_tag = FALSE
    /\ settings_open = FALSE /\ shortcuts_open = FALSE
    /\ new_card_prefill = FALSE /\ has_unsaved_changes = FALSE /\ save_requested = FALSE
    /\ pending_priority = FALSE /\ tag_editing = FALSE /\ draft = none
    /\ shown = Rendered
    /\ url = selected_card /\ visited = {selected_card}
    /\ tasks = {} /\ excuse = "none"

Task(kind, id) == [kind |-> kind, id |-> id, live |-> TRUE, draft |-> draft = shown]
Spawn(kind, id) == Cardinality(tasks) < MaxTasks /\ tasks' = tasks \cup {Task(kind, id)}

\* An effect of the editor runs before anything else.
SaveDue == save_requested /\ CardEditor(shown)
ByUser(action) == ~SaveDue /\ action

Plain == UNCHANGED <<entities, save_requested>> /\ tasks' = Orphaned

\* Clicks on a card, a tag or a link, j, k, g, G; only what is on the screen.
SelectEntity(id) == id \in card_ids \cup tag_ids /\ Plain /\ set_selection(id)

Close == Plain /\ Select(none, FALSE) /\ excuse' = Asked

NewCard == Plain /\ start_new_card(new_card_prefill)
NewTag  == Plain /\ start_new_tag
Reset   == Plain /\ clear_all_state

\* "New from this".  If the user keeps his changes the prefill stays.
Fork ==
    /\ shown.kind = "card" /\ Plain
    /\ \/ start_new_card(TRUE)
       \/ has_unsaved_changes /\ new_card_prefill' = TRUE /\ excuse' = "none"
          /\ UNCHANGED <<paneFlags, has_unsaved_changes, tag_editing, draft, pending_priority, urlVars>>

\* The Edit button and "e"
EditSelected ==
    /\ ~editing /\ ~creating_new
    /\ UNCHANGED <<entities, save_requested, tasks>>
    /\ open_editor /\ excuse' = "none"

\* switch_to_pane, and the toggles that close a pane
SwitchToPane(pane) ==
    /\ Plain
    /\ selected_card' = none
    /\ editing' = FALSE /\ creating_new' = FALSE /\ creating_new_tag' = FALSE
    /\ settings_open' = (pane = "settings") /\ shortcuts_open' = (pane = "shortcuts")
    /\ pending_priority' = FALSE
    /\ Mount(FALSE, new_card_prefill, TRUE)
    /\ sync_query_params
    /\ excuse' = Asked

ClosePane(pane) ==
    /\ Plain
    /\ IF pane = "settings" THEN settings_open ELSE shortcuts_open
    /\ settings_open' = (settings_open /\ pane # "settings")
    /\ shortcuts_open' = (shortcuts_open /\ pane # "shortcuts")
    /\ UNCHANGED <<selected_card, editing, creating_new, creating_new_tag, pending_priority, urlVars>>
    /\ Mount(has_unsaved_changes, new_card_prefill, TRUE)
    /\ excuse' = "none"

handle_escape ==
    \/ editing /\ UNCHANGED <<entities, save_requested, tasks>> /\ close_editor
    \/ ~editing /\ creating_new /\ Plain /\ finish_creation_flow /\ excuse' = Asked
    \/ ~editing /\ ~creating_new /\ settings_open /\ ClosePane("settings")
    \/ ~editing /\ ~creating_new /\ ~settings_open /\ shortcuts_open /\ ClosePane("shortcuts")
    \/ /\ ~editing /\ ~creating_new /\ ~settings_open /\ ~shortcuts_open /\ selected_card # none
       /\ Plain /\ set_selection(none)

\* Cancel in the editors of a card, and in the form of a new tag
CancelEditor ==
    \/ shown.kind = "edit card" /\ UNCHANGED <<entities, save_requested, tasks>> /\ close_editor
    \/ shown.kind \in {"new card", "new tag"} /\ Plain /\ finish_creation_flow /\ excuse' = Asked

\* The back and forward buttons
restore_from_query_params(entity) ==
    /\ entity \in visited \ {url} /\ Plain
    /\ selected_card' = entity /\ url' = entity
    /\ creating_new' = FALSE /\ creating_new_tag' = FALSE /\ editing' = FALSE
    /\ settings_open' = FALSE /\ UNCHANGED <<shortcuts_open, visited>>
    /\ pending_priority' = (pending_priority /\ ~CardDetail(shown))
    /\ Mount(has_unsaved_changes, new_card_prefill, TRUE)
    /\ excuse' = "back"

MoveCard ==
    /\ ~pending_priority /\ card_ids # {} /\ pending_priority' = TRUE
    /\ UNCHANGED <<entities, paneFlags, editorVars, save_requested, urlVars, tasks, excuse>>

-----------------------------------------------------------------------------
(* Editors *)

Type ==
    /\ CardEditor(shown) \/ shown.kind = "new tag" \/ (shown.kind = "tag" /\ tag_editing)
    /\ draft' = shown /\ has_unsaved_changes' = TRUE
    /\ UNCHANGED <<entities, paneFlags, new_card_prefill, tag_editing, save_requested,
                   pending_priority, urlVars, tasks, excuse>>

\* do_save.  A new card is selected and, to stay, edited; when others had to be
\* shifted for it that waits for the server.  Without changes there is nothing
\* to save, without a text neither.
SaveNew(id, stay, waits) ==
    /\ shown.kind = "new card" /\ draft # none /\ id \in CardIds \ card_ids
    /\ card_ids' = card_ids \cup {id} /\ UNCHANGED tag_ids
    /\ selected_card' = id /\ editing' = (stay /\ ~waits)
    /\ creating_new' = FALSE /\ creating_new_tag' = FALSE
    /\ settings_open' = FALSE /\ shortcuts_open' = FALSE
    /\ pending_priority' = FALSE
    /\ Mount(FALSE, FALSE, TRUE)
    /\ sync_query_params
    /\ waits => Cardinality(tasks) < MaxTasks
    /\ tasks' = IF waits THEN Orphaned \cup {Task(IF stay THEN "open editor" ELSE "finish", id)}
                ELSE Orphaned
    /\ excuse' = "saved"

SaveEdited(stay) ==
    /\ shown.kind = "edit card"
    /\ UNCHANGED <<entities, tasks>>
    /\ excuse' = "saved"
    /\ IF stay THEN /\ draft' = none /\ has_unsaved_changes' = FALSE
                    /\ UNCHANGED <<paneFlags, new_card_prefill, tag_editing, pending_priority, urlVars>>
               ELSE Edit(FALSE, FALSE)

do_save(stay) ==
    \/ \E id \in CardIds, waits \in BOOLEAN : SaveNew(id, stay, waits)
    \/ SaveEdited(stay)

Save(stay) == do_save(stay) /\ UNCHANGED save_requested

\* Ctrl+S, and the effect of the editor that answers it
CtrlS ==
    /\ editing \/ creating_new
    /\ save_requested' = TRUE
    /\ UNCHANGED <<entities, paneFlags, editorVars, pending_priority, urlVars, tasks, excuse>>

SaveRequested ==
    /\ SaveDue /\ save_requested' = FALSE
    /\ \/ do_save(TRUE)
       \/ /\ shown.kind = "new card"
          /\ draft = none \/ card_ids = CardIds \/ Cardinality(tasks) = MaxTasks
          /\ UNCHANGED <<entities, paneFlags, editorVars, pending_priority, urlVars, tasks, excuse>>

\* start_editing and cancel_editing of TagDetail
StartTagEdit ==
    /\ shown.kind = "tag" /\ ~tag_editing
    /\ tag_editing' = TRUE /\ has_unsaved_changes' = FALSE /\ draft' = none
    /\ UNCHANGED <<entities, paneFlags, new_card_prefill, save_requested, pending_priority,
                   urlVars, tasks, excuse>>

CancelTagEdit ==
    /\ shown.kind = "tag" /\ tag_editing
    /\ tag_editing' = FALSE /\ has_unsaved_changes' = FALSE /\ draft' = none /\ excuse' = Asked
    /\ UNCHANGED <<entities, paneFlags, new_card_prefill, save_requested, pending_priority, urlVars, tasks>>

-----------------------------------------------------------------------------
(* Requests of tag_detail.rs and card_detail.rs: the user goes on meanwhile. *)

Ask ==
    /\ \/ shown.kind = "new tag" /\ draft # none /\ \E id \in TagIds \ tag_ids :
             (\A task \in tasks : task.id # id) /\ Spawn("create tag", id)
       \/ shown.kind = "tag" /\ tag_editing /\ Spawn("save tag", shown.id)
       \/ shown.kind = "tag" /\ ~tag_editing /\ Spawn("delete tag", shown.id)
       \/ shown.kind = "card" /\ Spawn("delete card", shown.id)
    /\ UNCHANGED <<entities, paneFlags, editorVars, save_requested, pending_priority, urlVars, excuse>>

Answered(task) == {[t EXCEPT !.live = FALSE] : t \in tasks \ {task}}

\* create_action clears the flag, whoever has set it, and selects the tag.
TagCreated(task) ==
    /\ task.kind = "create tag"
    /\ tag_ids' = tag_ids \cup {task.id} /\ UNCHANGED <<card_ids, save_requested>>
    /\ Select(task.id, FALSE)
    /\ tasks' = Answered(task) /\ excuse' = "late answer"

TagSaved(task) ==
    /\ task.kind = "save tag"
    /\ has_unsaved_changes' = FALSE
    /\ IF task.live THEN tag_editing' = FALSE /\ draft' = none ELSE UNCHANGED <<tag_editing, draft>>
    /\ tasks' = tasks \ {task} /\ excuse' = "late answer"
    /\ UNCHANGED <<entities, paneFlags, new_card_prefill, save_requested, pending_priority, urlVars>>

\* A failed save opens the form again, with what had been typed.
TagNotSaved(task) ==
    /\ task.kind = "save tag"
    /\ IF task.live /\ ~tag_editing /\ task.draft
       THEN tag_editing' = TRUE /\ draft' = shown /\ has_unsaved_changes' = TRUE
       ELSE tag_editing' = (tag_editing \/ task.live) /\ UNCHANGED <<draft, has_unsaved_changes>>
    /\ tasks' = tasks \ {task} /\ excuse' = "late answer"
    /\ UNCHANGED <<entities, paneFlags, new_card_prefill, save_requested, pending_priority, urlVars>>

\* do_delete and do_confirm_delete: whatever is selected by now is closed,
\* unless the user wants to keep his changes.
Deleted(task) ==
    /\ task.kind \in {"delete tag", "delete card"}
    /\ tag_ids' = tag_ids \ {task.id} /\ card_ids' = card_ids \ {task.id}
    /\ \/ set_selection(none) /\ tasks' = Answered(task)
       \/ /\ has_unsaved_changes /\ excuse' = "none"
          /\ tasks' = tasks \ {task}
          /\ UNCHANGED <<paneFlags, editorVars, pending_priority, urlVars>>
    /\ UNCHANGED save_requested

Failed(task) ==
    /\ task.kind \in {"create tag", "delete tag", "delete card"}
    /\ tasks' = tasks \ {task} /\ excuse' = "late answer"
    /\ UNCHANGED <<entities, paneFlags, editorVars, save_requested, pending_priority, urlVars>>

\* The end of do_save of a new card that waited for the server.
NewCardPushed(task) ==
    /\ UNCHANGED <<entities, save_requested>>
    /\ \/ task.kind = "open editor" /\ open_editor
       \/ task.kind = "open editor" /\ selected_card = none
          /\ UNCHANGED <<paneFlags, editorVars, pending_priority, urlVars>>
       \/ task.kind = "finish" /\ finish_creation_flow
    /\ tasks' = Answered(task) /\ excuse' = "late answer"

PanesNext ==
    \/ \E id \in CardIds \cup TagIds : ByUser(SelectEntity(id))
    \/ ByUser(Close) \/ ByUser(NewCard) \/ ByUser(NewTag) \/ ByUser(Reset) \/ ByUser(Fork)
    \/ ByUser(EditSelected) \/ ByUser(handle_escape) \/ ByUser(CancelEditor) \/ ByUser(MoveCard)
    \/ \E pane \in {"settings", "shortcuts"} : ByUser(SwitchToPane(pane)) \/ ByUser(ClosePane(pane))
    \/ \E entity \in visited : ByUser(restore_from_query_params(entity))
    \/ ByUser(Type) \/ ByUser(CtrlS) \/ SaveRequested
    \/ \E stay \in BOOLEAN : ByUser(Save(stay))
    \/ ByUser(StartTagEdit) \/ ByUser(CancelTagEdit) \/ ByUser(Ask)
    \/ \E task \in tasks : ByUser(TagCreated(task) \/ TagSaved(task) \/ TagNotSaved(task)
                                \/ Deleted(task) \/ Failed(task) \/ NewCardPushed(task))

PanesSpec == PanesInit /\ [][PanesNext]_paneVars

-----------------------------------------------------------------------------
(* Properties *)

\* The panel never has two things to show: a selected entity and a creation
\* flow, both panes, or a pane over either; only the back button leaves the
\* shortcuts pane over a selected entity.
OneThingShown ==
    /\ editing => selected_card # none
    /\ creating_new \/ creating_new_tag => selected_card = none /\ ~(creating_new /\ creating_new_tag)
    /\ ~(settings_open /\ shortcuts_open)
    /\ settings_open \/ shortcuts_open => ~creating_new /\ ~creating_new_tag
    /\ settings_open => selected_card = none
    /\ draft # none => draft = shown

\* Unsaved changes that are known to be unsaved are dropped only by saving
\* them, after the user was asked, by the browser's back button, or by a late
\* answer of the server.  "New from this" opens an editor with the version's
\* content in it, and no burst outlives the panel of the card that was moved.
DraftsLeaveKnowingly ==
    [][/\ draft # none /\ has_unsaved_changes /\ draft' # draft
            => excuse' \in {"asked", "saved", "back", "late answer"}
       /\ Fork /\ creating_new' => draft' = View("new card", none) /\ has_unsaved_changes'
       /\ CardDetail(shown) /\ selected_card' # selected_card => ~pending_priority']_paneVars

\* The URL names the selected entity, however it came to be selected.
UrlNamesSelection == url = selected_card
=============================================================================
