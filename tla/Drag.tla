-------------------------------- MODULE Drag --------------------------------
(***************************************************************************)
(* Reordering by drag and drop: components/drag_drop.rs and state/drag.rs. *)
(*                                                                         *)
(* A session is armed by a press, becomes active when the pointer has      *)
(* moved far enough, and ends by a release, a cancel or the settings       *)
(* toggle.  In between, animation frames test which gap the pointer is     *)
(* over, while syncs change the rows.  The pointer is somewhere in the     *)
(* page: on one half of the row in some place of the list, above the first *)
(* row, below the last one, or where there is no row.                      *)
(*                                                                         *)
(* move_card is what Ordering checks it to be: the card ends up below as   *)
(* many of the other rows as asked.                                        *)
(***************************************************************************)
EXTENDS Naturals, Sequences, FiniteSets, SequencesExt, Option

CONSTANTS Rows,          \* ids of the cards of the filtered list
          MaxRowSyncs    \* bound on the changes syncs make

VARIABLES
    rows,                \* the filtered list, as rendered
    drag_and_drop_enabled, drag_and_drop_mode, reorder_allowed, editor_open,
    ACTIVE_SESSION,      \* the session, or none
    drag_active_card, drag_drop_target,   \* what the view shows
    rowSyncs

settingVars == <<drag_and_drop_enabled, drag_and_drop_mode, reorder_allowed, editor_open>>
shownVars   == <<drag_active_card, drag_drop_target>>
dragVars    == <<rows, settingVars, ACTIVE_SESSION, shownVars, rowSyncs>>

\* Where the pointer is: over the row in a place of the list, or beside it.
Points == [slot: 0 .. Cardinality(Rows) + 1, on: {"upper half", "lower half", "beside"}]
Target == [card: Rows, edge: {"Above", "Below"}] \cup {none}

Session == [source: Rows, via: {"pointer", "touch"}, active: BOOLEAN,
            pending: Points \cup {none}, raf: BOOLEAN]

ASSUME RowsAssumption == IsFiniteSet(Rows) /\ none \notin Rows
ASSUME NoneIsNoSession == none \notin Session

PlaceOf(list, id) == CHOOSE i \in DOMAIN list : list[i] = id
InList(list, id)   == id \in Range(list)
WithoutRow(list, id)  == RemoveAt(list, PlaceOf(list, id))

-----------------------------------------------------------------------------
(* Hit test and drop *)

NotSource(card, edge, source) == IF card = source THEN none ELSE [card |-> card, edge |-> edge]

clamp_to_list_end(point, source) ==
    IF rows = << >> THEN none
    ELSE IF point.slot = 0 THEN NotSource(Head(rows), "Above", source)
    ELSE IF point.slot > Len(rows) THEN NotSource(Last(rows), "Below", source)
    ELSE none

OverRow(point) == point.slot \in DOMAIN rows /\ point.on # "beside"

\* Each gap is the upper edge of the row below it; only the end of the list is
\* the lower edge of a row.
hit_test_drop_target(point, source) ==
    IF ~OverRow(point) THEN clamp_to_list_end(point, source)
    ELSE IF point.on = "upper half" THEN NotSource(rows[point.slot], "Above", source)
    ELSE IF point.slot < Len(rows) THEN NotSource(rows[point.slot + 1], "Above", source)
    ELSE NotSource(rows[point.slot], "Below", source)

NoPosition == Len(rows) + 1

\* Mutant: the source is not taken out of the count.
DropInFullList(source, target) ==
    IF source = target.card \/ ~InList(rows, source) \/ ~InList(rows, target.card)
    THEN NoPosition
    ELSE LET base == PlaceOf(rows, target.card) - 1
             pos  == IF target.edge = "Above" THEN base ELSE base + 1
         IN  IF pos = PlaceOf(rows, source) - 1 THEN NoPosition ELSE pos

\* How many of the other rows stay above the source, if the drop moves it.
drop_position(source, target) ==
    IF source = target.card \/ ~InList(rows, source) \/ ~InList(rows, target.card)
    THEN NoPosition
    ELSE LET src  == PlaceOf(rows, source) - 1
             tgt  == PlaceOf(rows, target.card) - 1
             base == IF tgt > src THEN tgt - 1 ELSE tgt
             pos  == IF target.edge = "Above" THEN base ELSE base + 1
         IN  IF pos = src THEN NoPosition ELSE pos

\* move_card and apply_move_placement, in the order of the list
Moved(source, pos) ==
    LET others == WithoutRow(rows, source)
        n      == IF pos < Len(others) THEN pos ELSE Len(others)
    IN  InsertAt(others, n + 1, source)

-----------------------------------------------------------------------------

RowLists == UNION {SetToSeqs(S) : S \in SUBSET Rows}

DragInit ==
    /\ rows \in SetToSeqs(Rows)
    /\ drag_and_drop_enabled = TRUE /\ drag_and_drop_mode \in {"anywhere", "handle"}
    /\ reorder_allowed = TRUE /\ editor_open = FALSE
    /\ ACTIVE_SESSION = none /\ drag_active_card = none /\ drag_drop_target = none
    /\ rowSyncs = 0

Live == ACTIVE_SESSION # none

drag_allowed == drag_and_drop_enabled /\ reorder_allowed /\ ~editor_open

\* Mutant: the view is not cleared.
FinishKeepingTarget ==
    /\ ACTIVE_SESSION' = none
    /\ drag_active_card' = IF ACTIVE_SESSION.active THEN none ELSE drag_active_card
    /\ UNCHANGED drag_drop_target

\* finish and finish_session: the frame is cancelled, the listeners removed;
\* only an active session has anything shown to clear.
finish_session ==
    /\ ACTIVE_SESSION' = none
    /\ IF ACTIVE_SESSION.active
       THEN drag_active_card' = none /\ drag_drop_target' = none
       ELSE UNCHANGED shownVars

\* build_session and register_session
Arm(card, via) ==
    /\ drag_allowed /\ ~Live /\ InList(rows, card)
    /\ ACTIVE_SESSION' = [source |-> card, via |-> via, active |-> FALSE,
                          pending |-> none, raf |-> FALSE]
    /\ UNCHANGED <<rows, settingVars, shownVars, rowSyncs>>

\* The move handler: past the threshold, or anywhere once active.
DragTo(point) ==
    /\ ACTIVE_SESSION' = [ACTIVE_SESSION EXCEPT !.active = TRUE, !.pending = point, !.raf = TRUE]
    /\ drag_active_card' = ACTIVE_SESSION.source
    /\ UNCHANGED <<rows, settingVars, drag_drop_target, rowSyncs>>

\* The rows after a release.
commit_drop_if_eligible ==
    IF ~drag_and_drop_enabled \/ ~reorder_allowed \/ drag_drop_target = none THEN rows
    ELSE LET pos == drop_position(ACTIVE_SESSION.source, drag_drop_target)
         IN  IF pos = NoPosition THEN rows ELSE Moved(ACTIVE_SESSION.source, pos)

Drop ==
    /\ rows' = IF ACTIVE_SESSION.active THEN commit_drop_if_eligible ELSE rows
    /\ finish_session
    /\ UNCHANGED <<settingVars, rowSyncs>>

Abandon == finish_session /\ UNCHANGED <<rows, settingVars, rowSyncs>>

\* The handlers of a mouse or pen and of a finger; each looks only at events
\* of the pointer that started the session.
Via(via) == Live /\ ACTIVE_SESSION.via = via

\* A mouse or pen starts on the row, or on its number in the handle mode; a
\* finger only on the number.
start_pointer_drag(card) == Arm(card, "pointer")
PointerMove(point) == Via("pointer") /\ DragTo(point)
PointerUp          == Via("pointer") /\ Drop
PointerCancel      == Via("pointer") /\ Abandon

start_touch_drag(card) == drag_and_drop_mode = "handle" /\ Arm(card, "touch")
TouchMove(point) == Via("touch") /\ DragTo(point)
TouchEnd         == Via("touch") /\ Drop
TouchCancel      == Via("touch") /\ Abandon

\* schedule_raf: a frame tests the last position.  When the container scrolls,
\* another row is under the pointer, which is tested and a frame requested.
Frame(under, scrolls) ==
    /\ Live /\ ACTIVE_SESSION.raf
    /\ \/ ~drag_and_drop_enabled /\ finish_session
       \/ /\ drag_and_drop_enabled
          /\ scrolls \/ under = ACTIVE_SESSION.pending
          /\ ACTIVE_SESSION' = [ACTIVE_SESSION EXCEPT !.pending = none, !.raf = scrolls]
          /\ drag_drop_target' = hit_test_drop_target(under, ACTIVE_SESSION.source)
          /\ UNCHANGED drag_active_card
    /\ UNCHANGED <<rows, settingVars, rowSyncs>>

\* The settings toggle cancels a drag; another sort order, another mode or an
\* editor opened meanwhile do not.
ToggleDragAndDrop ==
    /\ drag_and_drop_enabled' = ~drag_and_drop_enabled
    /\ IF Live /\ drag_and_drop_enabled THEN finish_session ELSE UNCHANGED <<ACTIVE_SESSION, shownVars>>
    /\ UNCHANGED <<rows, drag_and_drop_mode, reorder_allowed, editor_open, rowSyncs>>

ChangeSettings ==
    /\ \/ /\ reorder_allowed' = ~reorder_allowed
          /\ UNCHANGED <<drag_and_drop_mode, editor_open>>
       \/ editor_open' = ~editor_open /\ UNCHANGED <<drag_and_drop_mode, reorder_allowed>>
       \/ /\ drag_and_drop_mode' \in {"anywhere", "handle"} \ {drag_and_drop_mode}
          /\ UNCHANGED <<reorder_allowed, editor_open>>
    /\ UNCHANGED <<rows, drag_and_drop_enabled, ACTIVE_SESSION, shownVars, rowSyncs>>

\* A sync or a filter changes the rows.
SyncRows(list) ==
    /\ rowSyncs < MaxRowSyncs /\ list # rows
    /\ rows' = list /\ rowSyncs' = rowSyncs + 1
    /\ UNCHANGED <<settingVars, ACTIVE_SESSION, shownVars>>

DragNext ==
    \/ \E card \in Rows : start_pointer_drag(card) \/ start_touch_drag(card)
    \/ \E point \in Points : PointerMove(point) \/ TouchMove(point)
    \/ PointerUp \/ TouchEnd \/ PointerCancel \/ TouchCancel
    \/ \E under \in Points, scrolls \in BOOLEAN : Frame(under, scrolls)
    \/ ToggleDragAndDrop \/ ChangeSettings
    \/ \E list \in RowLists : SyncRows(list)

DragSpec == DragInit /\ [][DragNext]_dragVars

-----------------------------------------------------------------------------
(* Properties *)

\* Nothing of a drag stays on the screen after it has ended, however it ended,
\* and no frame of it marks a gap afterwards.
NoPhantomDrag ==
    /\ ~Live => drag_active_card = none /\ drag_drop_target = none
    /\ Live => drag_active_card \in {none, ACTIVE_SESSION.source}
    /\ drag_drop_target # none => Live /\ drag_drop_target.card # ACTIVE_SESSION.source

Dropped == Live /\ ~Live' /\ rows' # rows

\* A drop puts the card into the gap the view has marked and moves no other
\* card, although syncs may have reordered the rows since the gap was marked.  It
\* changes nothing when the feature was turned off or another sort order chosen
\* during the drag, or when a sync has removed either card.
DropLandsInMarkedGap ==
    [][Dropped =>
         LET source == ACTIVE_SESSION.source
             target == drag_drop_target
             at     == PlaceOf(rows', source)
         IN  /\ drag_and_drop_enabled /\ reorder_allowed
             /\ InList(rows, source) /\ InList(rows, target.card)
             /\ PlaceOf(rows', target.card) = IF target.edge = "Above" THEN at + 1 ELSE at - 1
             /\ WithoutRow(rows', source) = WithoutRow(rows, source)
      ]_dragVars
=============================================================================
