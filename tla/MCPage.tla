------------------------------- MODULE MCPage -------------------------------
(* What the page shows and keeps for the user besides the list: settings  *)
(* (Settings), the files of list and queue (Persist), drafts in the panel  *)
(* (Panes), and the drag of a row (Drag), one of them at a time.           *)
EXTENDS Settings, Persist, Panes, Drag, TLC

VARIABLE which     \* the part that acts

mcVars == <<which, settingsVars, persistVars, paneVars, dragVars>>

MCInit ==
    /\ which \in {"settings", "files", "panes", "drag"}
    /\ SettingsInit
    /\ which # "settings" =>
          /\ environment = CHOOSE e \in Environments : TRUE
          /\ \A key \in DOMAIN localStorage : localStorage[key] = none
    /\ PersistInit
    /\ which # "files" => Len(server) = 1
    /\ PanesInit
    /\ which # "panes" => card_ids = {} /\ tag_ids = {}
    /\ DragInit
    /\ which # "drag" => rows = (CHOOSE s \in SetToSeqs(Rows) : TRUE) /\ drag_and_drop_mode = "handle"

Configure == which = "settings" /\ SettingsNext /\ UNCHANGED <<which, persistVars, paneVars, dragVars>>
KeepFiles  == which = "files" /\ PersistNext /\ UNCHANGED <<which, settingsVars, paneVars, dragVars>>
Panel      == which = "panes" /\ PanesNext /\ UNCHANGED <<which, settingsVars, persistVars, dragVars>>
Drags      == which = "drag" /\ DragNext /\ UNCHANGED <<which, settingsVars, persistVars, paneVars>>
\* The bounds are used up.
FilesRest  == which = "files" /\ AtRest /\ UNCHANGED mcVars

MCSpec == MCInit /\ [][Configure \/ KeepFiles \/ Panel \/ Drags \/ FilesRest]_mcVars

-----------------------------------------------------------------------------
(* The instances *)

\* The rows of Drag differ in their places only.
Symmetry == Permutations(Rows)

\* What earlier versions left: nothing, texts that are no values, a number out
\* of range, and settings besides keys of others.
Nothing == [key \in Keys |-> none]
Left == {Nothing,
         [Nothing EXCEPT !.ui_density = junk, !.ui_scale = junk, !.show_card_time = junk,
                         !.of_an_earlier_version = TRUE, !.of_another_application = TRUE],
         [Nothing EXCEPT !.drag_and_drop_mode = junk, !.ui_scale = 1000, !.cache_schema = junk,
                         !.of_an_earlier_version = TRUE],
         [Nothing EXCEPT !.override_sidebar_width = TRUE, !.of_another_application = TRUE]}

Unset == [s \in ALL_SETTING_KEYS |-> none]
Envs == {Unset,
         [Unset EXCEPT !.override_sidebar_width = TRUE, !.default_sidebar_width = 250,
                       !.show_card_time = TRUE],
         [Unset EXCEPT !.auto_sync = junk, !.ui_scale = junk, !.ui_density = "cozy",
                       !.drag_and_drop_mode = junk],
         [Unset EXCEPT !.ui_scale = 10, !.drag_and_drop_enabled = TRUE,
                       !.drag_and_drop_mode = "handle", !.default_sidebar_width = junk]}
=============================================================================
