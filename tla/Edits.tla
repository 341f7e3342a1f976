-------------------------------- MODULE Edits --------------------------------
(***************************************************************************)
(* The ways to change one card: swiping its row (components/card_item.rs), *)
(* the undo toast (toast.rs), the buttons and the task boxes of the detail *)
(* panel (card_detail.rs), the shortcuts (keyboard.rs) and the editor      *)
(* (card_editor.rs).  Every one of them builds a version on one it has     *)
(* read before and puts it into the list; three settings couple the two    *)
(* things they change, whether the card is blazed and when it is due.      *)
(*                                                                         *)
(* Moves of the finger are counted in steps; where a row is braked beyond  *)
(* its threshold, it is beyond exactly when the finger is.                 *)
(***************************************************************************)
EXTENDS Integers, Sequences, FiniteSets, SequencesExt, Option

CONSTANTS Contents,          \* contents of the card
          Couplings,         \* values of the three settings
          RightCycle, RightLevels, LeftCycle, LeftLevels,   \* swipe thresholds
          TodayWidth, TomorrowWidth, SoonWidth,             \* zones of the levels mode
          HintRight, HintLeft,                              \* where a label starts to show
          Reach,             \* how far a finger goes
          MaxEdits           \* bound on the changes of the card

ASSUME CouplingFlags == Couplings \subseteq [on_set: BOOLEAN, on_clear: BOOLEAN, on_blaze: BOOLEAN]
ASSUME SwipeWidths ==
    {RightCycle, RightLevels, LeftCycle, LeftLevels, TodayWidth, TomorrowWidth, SoonWidth,
     HintRight, HintLeft, Reach} \subseteq Nat

VARIABLES
    card,                    \* the version in the list
    coupling,                \* extinguish_on_due_set, extinguish_on_due_clear, clear_due_on_blaze
    swipe_left_mode, touch_swipe_enabled,
    swiping, swipe_offset,   \* of the row, and whether a finger is on it
    touching,
    swipe_toast, timers,     \* the toast, and the numbers of the timers that run
    editor,                  \* the version the editor was opened on, or none
    clicked                  \* the task line clicked last

gestureVars == <<swiping, swipe_offset, touching>>
toastVars   == <<swipe_toast, timers>>
modeVars    == <<coupling, swipe_left_mode, touch_swipe_enabled>>
editVars    == <<card, modeVars, gestureVars, toastVars, editor, clicked>>

-----------------------------------------------------------------------------
(* Cards *)

\* Days counted from today.  Menus and swipes take midnight, shortcuts noon.
DueAt(day, at) == [day |-> day, at |-> at]
Day(c)       == IF c.due = none THEN none ELSE c.due.day

\* Card::next
Next(c, blazed, due, lines) ==
    [blazed |-> blazed, due |-> due, lines |-> lines, count |-> c.count + 1]

blazed_after_due_change(blazed, due) ==
    blazed /\ ~(coupling.on_set /\ (due # none \/ coupling.on_clear))

due_after_blaze_change(due, was_blazed, blazed) ==
    IF ~was_blazed /\ blazed /\ coupling.on_blaze THEN none ELSE due

Blazed(c)      == Next(c, ~c.blazed, due_after_blaze_change(c.due, c.blazed, ~c.blazed), c.lines)
Dated(c, due)  == Next(c, blazed_after_due_change(c.blazed, due), due, c.lines)

\* A line of the content is an item of a task list, or looks like one in a
\* block of code, or neither.
Lines    == [kind : {"item", "code", "text"}, done : BOOLEAN]
IsTask(line) == line.kind \in {"item", "code"}           \* parse_task_item
HasBox(line) == line.kind = "item"                       \* what the renderer makes of it

\* How many of the lines before the i-th pass
EarlierOnes(lines, Test(_), i) == Cardinality({j \in 1 .. i - 1 : Test(lines[j])})

Flipped(line) == [line EXCEPT !.done = ~@]

\* Mutant: the index counts from one.
ToggleFromOne(lines, index) ==
    [i \in DOMAIN lines |-> IF IsTask(lines[i]) /\ EarlierOnes(lines, IsTask, i) + 1 = index
                            THEN Flipped(lines[i]) ELSE lines[i]]

\* toggle_task_item of the index-th task, counting from zero
toggle_task_item(lines, index) ==
    [i \in DOMAIN lines |-> IF IsTask(lines[i]) /\ EarlierOnes(lines, IsTask, i) = index
                            THEN Flipped(lines[i]) ELSE lines[i]]

-----------------------------------------------------------------------------
(* Swipe distances *)

levels_mode == swipe_left_mode = "levels"
threshold_r == IF levels_mode THEN RightLevels ELSE RightCycle

\* Mutant: one threshold for both modes.
OneThreshold == LeftCycle

threshold_l == IF levels_mode THEN LeftLevels ELSE LeftCycle

Abs(n) == IF n < 0 THEN -n ELSE n

\* 1 is today, 2 tomorrow, 3 in two days, 4 clears the date.
levels_zone(offset) ==
    LET z2 == LeftLevels + TodayWidth
        z3 == z2 + TomorrowWidth
        z4 == z3 + SoonWidth
    IN  CASE Abs(offset) < LeftLevels -> none
          [] Abs(offset) >= LeftLevels /\ Abs(offset) < z2 -> 1
          [] Abs(offset) >= z2 /\ Abs(offset) < z3 -> 2
          [] Abs(offset) >= z3 /\ Abs(offset) < z4 -> 3
          [] Abs(offset) >= z4 -> 4

levels_zone_label(zone) == <<"Today", "Tomorrow", "In 2 days", "Clear due">>[zone]

\* In the cycle mode the present date tells the next.
CycleZone == IF Day(card) \in {0, 1, 2} THEN Day(card) + 2 ELSE 1

Zone == IF levels_mode THEN levels_zone(swipe_offset) ELSE CycleZone
ZoneDue(zone) == IF zone = 4 THEN none ELSE DueAt(zone - 1, "midnight")

swipe_label ==
    IF swipe_offset > HintRight THEN IF card.blazed THEN "Extinguish" ELSE "Blaze"
    ELSE IF swipe_offset >= -HintLeft THEN none
    ELSE levels_zone_label(IF Zone = none THEN 1 ELSE Zone)

\* The background tells that a release would act.  A zone is told by the length
\* of the swipe alone, also to the right as long as its own hint does not show.
swipe_commit ==
    \/ swipe_offset >= threshold_r
    \/ /\ swipe_offset <= HintRight
       /\ IF levels_mode THEN levels_zone(swipe_offset) # none ELSE swipe_offset <= -threshold_l

\* A right swipe that may look like a left one.
LooksLeft == levels_mode /\ 0 < swipe_offset /\ swipe_offset <= HintRight /\ swipe_offset < threshold_r

-----------------------------------------------------------------------------
(* Toasts *)

\* The number of a toast is the version the card had; its timer runs.
show_swipe_toast(original) ==
    /\ swipe_toast' = [number |-> original.count, original |-> original]
    /\ timers' = (timers \ (IF swipe_toast = none THEN {} ELSE {swipe_toast.number}))
                 \cup {original.count}

HideToast ==
    /\ swipe_toast' = none
    /\ timers' = timers \ {swipe_toast.number}

-----------------------------------------------------------------------------

EditsInit ==
    /\ \E lines \in Contents :
          card = [blazed |-> FALSE, due |-> none, lines |-> lines, count |-> 1]
    /\ coupling \in Couplings
    /\ swipe_left_mode \in {"levels", "cycle"} /\ touch_swipe_enabled = TRUE
    /\ swiping = FALSE /\ swipe_offset = 0 /\ touching = FALSE
    /\ swipe_toast = none /\ timers = {}
    /\ editor = none /\ clicked = none

\* upsert_card, then flush_now and push_card_or_queue, which Sync models
Put(c) == card.count <= MaxEdits /\ c.count <= MaxEdits + 1 /\ card' = c

on_touchstart ==
    /\ touch_swipe_enabled /\ ~touching
    /\ touching' = TRUE /\ swiping' = FALSE /\ swipe_offset' = 0
    /\ UNCHANGED <<card, modeVars, toastVars, editor, clicked>>

\* A move that is rather vertical or still short starts no swipe.
on_touchmove(dx) ==
    /\ touching /\ touch_swipe_enabled /\ dx # swipe_offset
    /\ swiping' = TRUE /\ swipe_offset' = dx
    /\ UNCHANGED <<card, modeVars, toastVars, touching, editor, clicked>>

\* Beyond a threshold the release acts, and offers to undo it.
on_touchend ==
    /\ touching
    /\ touching' = FALSE /\ swipe_offset' = 0
    /\ IF ~touch_swipe_enabled \/ ~swiping
       THEN UNCHANGED <<swiping, card, toastVars>>
       ELSE /\ swiping' = FALSE
            /\ \/ swipe_offset > threshold_r /\ Put(Blazed(card)) /\ show_swipe_toast(card)
               \/ /\ swipe_offset < -threshold_l
                  /\ Put(Dated(card, ZoneDue(IF Zone = none THEN 1 ELSE Zone)))
                  /\ show_swipe_toast(card)
               \/ /\ -threshold_l <= swipe_offset /\ swipe_offset <= threshold_r
                  /\ UNCHANGED <<card, toastVars>>
    /\ UNCHANGED <<modeVars, editor, clicked>>

\* The system takes the finger away; the row has no handler for it.
TouchTaken ==
    /\ touching /\ touching' = FALSE
    /\ UNCHANGED <<card, modeVars, swiping, swipe_offset, toastVars, editor, clicked>>

ChangeMode ==
    /\ \/ /\ swipe_left_mode' \in {"levels", "cycle"} \ {swipe_left_mode}
          /\ UNCHANGED touch_swipe_enabled
       \/ touch_swipe_enabled' = ~touch_swipe_enabled /\ UNCHANGED swipe_left_mode
    /\ ~touching
    /\ UNCHANGED <<card, coupling, gestureVars, toastVars, editor, clicked>>

undo_swipe ==
    /\ swipe_toast # none
    /\ LET orig == swipe_toast.original
       IN  Put(Next(orig, orig.blazed, orig.due, orig.lines))
    /\ HideToast
    /\ UNCHANGED <<modeVars, gestureVars, editor, clicked>>

dismiss_toast ==
    /\ swipe_toast # none /\ HideToast
    /\ UNCHANGED <<card, modeVars, gestureVars, editor, clicked>>

\* The timer hides whatever toast is there.
ToastTimer(n) ==
    /\ n \in timers
    /\ swipe_toast' = none /\ timers' = timers \ {n}
    /\ UNCHANGED <<card, modeVars, gestureVars, editor, clicked>>

Panel == UNCHANGED <<modeVars, gestureVars, toastVars>>

\* on_blaze, and toggle_blaze by a key
toggle_blaze == Put(Blazed(card)) /\ Panel /\ UNCHANGED <<editor, clicked>>

\* The due-date menu of the panel; the same date makes no version.
set_due_date(due) ==
    /\ due # card.due
    /\ Put(Dated(card, due)) /\ Panel /\ UNCHANGED <<editor, clicked>>

\* Shortcuts, which are off in the editor
set_due_date_shortcut(due) ==
    /\ editor = none
    /\ Put(Dated(card, due)) /\ Panel /\ UNCHANGED <<editor, clicked>>

\* A box is clicked; the boxes before it are counted in the page, the tasks in
\* the text.  Where nothing is flipped no version is made.
on_content_click(line) ==
    /\ line \in DOMAIN card.lines /\ HasBox(card.lines[line])
    /\ LET lines == toggle_task_item(card.lines, EarlierOnes(card.lines, HasBox, line))
       IN  lines # card.lines /\ Put(Next(card, card.blazed, card.due, lines))
    /\ clicked' = line
    /\ Panel /\ UNCHANGED editor

OpenEditor ==
    /\ editor = none /\ editor' = card
    /\ Panel /\ UNCHANGED <<card, clicked>>

CloseEditor ==
    /\ editor # none /\ editor' = none
    /\ Panel /\ UNCHANGED <<card, clicked>>

\* Mutant: the date set in the editor does not extinguish.
SaveUncoupled(due) == editor.blazed

SaveBlazed(due) == IF due # editor.due THEN blazed_after_due_change(editor.blazed, due)
                   ELSE editor.blazed

\* Saved upon the version the editor was opened on, closed or not; without a
\* change no version is made.
do_save(lines, due, stay) ==
    /\ editor # none
    /\ LET saved == Next(editor, SaveBlazed(due), due, lines)
       IN  IF lines = editor.lines /\ due = editor.due
           THEN ~stay /\ editor' = none /\ UNCHANGED card
           ELSE Put(saved) /\ editor' = IF stay THEN saved ELSE none
    /\ Panel /\ UNCHANGED clicked

EditsNext ==
    \/ on_touchstart \/ on_touchend \/ TouchTaken
    \/ \E dx \in -Reach .. Reach : on_touchmove(dx)
    \/ ChangeMode
    \/ undo_swipe \/ dismiss_toast
    \/ \E n \in timers : ToastTimer(n)
    \/ toggle_blaze
    \/ \E due \in {DueAt(0, "midnight"), DueAt(2, "midnight"), none} : set_due_date(due)
    \/ \E due \in {DueAt(0, "noon"), DueAt(1, "noon"), none} : set_due_date_shortcut(due)
    \/ \E line \in DOMAIN card.lines : on_content_click(line)
    \/ OpenEditor \/ CloseEditor
    \/ \E lines \in Contents, due \in {DueAt(0, "midnight"), none}, stay \in BOOLEAN :
          do_save(lines, due, stay)

EditsSpec == EditsInit /\ [][EditsNext]_editVars

-----------------------------------------------------------------------------
(* Properties *)

\* When setting a date extinguishes and blazing clears the date, no version of the
\* card is both blazed and due, by whichever way it is changed (swipes, undone
\* swipes, buttons, shortcuts, an editor opened before other changes): neither the
\* one in the list, nor the one a toast would bring back or an editor builds on.
NotBoth(c) == ~(c.blazed /\ c.due # none)
BlazedIsNeverDue ==
    coupling.on_set /\ coupling.on_blaze =>
        /\ NotBoth(card)
        /\ swipe_toast # none => NotBoth(swipe_toast.original)
        /\ editor # none => NotBoth(editor)

Released  == touching /\ ~touching' /\ swipe_offset' = 0 /\ swiping
Promised(label) ==
    CASE label = "Blaze"      -> card'.blazed /\ ~card.blazed
      [] label = "Extinguish" -> card.blazed /\ ~card'.blazed
      [] label = "Today"      -> card'.due = DueAt(0, "midnight")
      [] label = "Tomorrow"   -> card'.due = DueAt(1, "midnight")
      [] label = "In 2 days"  -> card'.due = DueAt(2, "midnight")
      [] label = "Clear due"  -> card'.due = none

\* A release does what the label said, and does something wherever the
\* background told so, except exactly on a threshold, and except for a right
\* swipe so short that its hint does not show: the background may tell of a
\* zone of the left side there, and the release does nothing.
ReleaseDoesAsShown ==
    [][Released /\ touch_swipe_enabled =>
          /\ card' # card /\ swipe_label # none => Promised(swipe_label)
          /\ swipe_commit /\ ~LooksLeft /\ swipe_offset \notin {threshold_r, -threshold_l} => card' # card
      ]_editVars

\* A click flips the box that was clicked and nothing else.
ClickFlipsItsBox ==
    [][clicked' # none /\ card'.count = card.count + 1 /\ clicked' # clicked =>
          card'.lines = [card.lines EXCEPT ![clicked'].done = ~@]]_editVars
=============================================================================
