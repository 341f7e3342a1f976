------------------------------- MODULE Settings -------------------------------
(***************************************************************************)
(* The settings of the web client: state/settings.rs, the settings panel,  *)
(* and the defaults an operator gives by environment variables, which the  *)
(* server hands out as /config (https.rs, app.rs).                         *)
(*                                                                         *)
(* Three layers: a built-in default, the server's default, which arrives   *)
(* some time after the page has started or never, and the user's choice in *)
(* localStorage.  The user may change a setting before the server's        *)
(* defaults arrive.                                                        *)
(*                                                                         *)
(* Settings of one kind are treated alike, by code repeated for each; one  *)
(* or two of each kind stand for all: the ones with effects of their own.  *)
(***************************************************************************)
EXTENDS Naturals, FiniteSets, Option

CONSTANTS Leftovers,      \* what earlier versions left in localStorage
          Environments,   \* the operator's environment variables
          Typed,          \* numbers the user types
          MaxChanges,     \* bound on the user's changes
          junk            \* a text that is no value of its setting

VARIABLES
    localStorage,         \* what is stored under each key, or none
    environment,          \* of the running server
    settings,             \* AppState: the settings in use
    server_config,        \* AppState: the raw defaults, or none before they arrive
    html,                 \* the class list and style of that element (document_element)
    sidebar_width,        \* AppState: the width of the sidebar as shown
    changes,              \* number of the user's changes
    chosen                \* the user's last choice of each setting since a reset

settingsVars == <<localStorage, environment, settings, server_config, html, sidebar_width,
                  changes, chosen>>

Bools   == {"auto_sync", "show_card_time", "drag_and_drop_enabled", "override_sidebar_width"}
Numbers == {"ui_scale", "default_sidebar_width"}
Enums   == {"ui_density", "drag_and_drop_mode"}
ALL_SETTING_KEYS == Bools \cup Numbers \cup Enums

\* Keys of localStorage: besides the settings the stamp of the cached data, a
\* key of an earlier version and the key of another application.
NON_SETTING_KEYS == {"cache_schema"}
is_known_key(key) == key \in ALL_SETTING_KEYS \cup NON_SETTING_KEYS
Foreign == {"of_another_application"}
Keys    == ALL_SETTING_KEYS \cup NON_SETTING_KEYS \cup {"of_an_earlier_version"} \cup Foreign

Default == [auto_sync |-> TRUE, show_card_time |-> FALSE, drag_and_drop_enabled |-> FALSE,
            override_sidebar_width |-> FALSE, ui_scale |-> 100, default_sidebar_width |-> 180,
            ui_density |-> "compact", drag_and_drop_mode |-> "anywhere"]

Options == [ui_density |-> {"compact", "cozy"}, drag_and_drop_mode |-> {"anywhere", "handle"}]

Clamp(x, low, high) == IF x < low THEN low ELSE IF x > high THEN high ELSE x
InRange(s, x) == IF s = "ui_scale" THEN Clamp(x, 50, 300) ELSE Clamp(x, 80, 400)

\* Texts under the keys of numbers and enumerations are those the settings can
\* have, or junk.
Storable(stored) ==
    /\ \A s \in Numbers : stored[s] \in Nat \cup {none, junk}
    /\ \A s \in Enums : stored[s] \in Options[s] \cup {none, junk}

ASSUME SettingsConstants ==
    /\ Typed \subseteq Nat /\ MaxChanges \in Nat
    /\ \A value \in {none, junk} : value \notin Nat /\ value \notin BOOLEAN
                                  /\ \A s \in Enums : value \notin Options[s]
    /\ \A stored \in Leftovers : Storable(stored)
    /\ \A e \in Environments, s \in Numbers : e[s] \in Nat \cup {none, junk}

-----------------------------------------------------------------------------
(* localStorage *)

\* has_*: what makes a stored text the user's choice.  Any text under the key
\* of a switch does.
has(s, stored) == IF s \in Bools THEN stored[s] # none ELSE stored[s] \notin {none, junk}

\* load_*: only "true" switches on.
load(s, stored) ==
    IF ~has(s, stored) THEN Default[s] ELSE IF s \in Bools THEN stored[s] = TRUE ELSE stored[s]

\* load_enum_string removes a text it does not accept.
Healed(stored) == [key \in Keys |-> IF key \in Enums /\ stored[key] = junk THEN none ELSE stored[key]]

\* run_startup_migrations
keys_to_prune(stored) ==
    [key \in Keys |-> IF ~is_known_key(key) /\ key \notin Foreign THEN none ELSE stored[key]]

clear_all_settings(stored) ==
    [key \in Keys |-> IF key \in ALL_SETTING_KEYS THEN none ELSE stored[key]]

-----------------------------------------------------------------------------
(* The page *)

\* What the page shows of the settings.  A class for the density that is none
\* of the options is never taken off.
Styled(values) ==
    [scale |-> values.ui_scale, density |-> {values.ui_density}, card_time |-> values.show_card_time,
     dnd |-> values.drag_and_drop_enabled,
     handle |-> values.drag_and_drop_enabled /\ values.drag_and_drop_mode = "handle"]

\* apply_ui_scale, apply_ui_density, apply_show_card_time and
\* apply_drag_and_drop_classes
Restyled(values) ==
    [Styled(values) EXCEPT !.density = @ \cup (html.density \ Options.ui_density)]

\* AppState::new and App on a page that starts over the given localStorage
Page(stored) ==
    LET kept   == Healed(keys_to_prune(stored))
        loaded == [s \in ALL_SETTING_KEYS |-> load(s, kept)]
    IN  [localStorage |-> kept, settings |-> loaded, html |-> Styled(loaded),
         sidebar_width |-> IF loaded.override_sidebar_width THEN loaded.default_sidebar_width
                           ELSE Default.default_sidebar_width]

Start(stored) ==
    /\ localStorage' = Page(stored).localStorage
    /\ settings' = Page(stored).settings
    /\ html' = Page(stored).html
    /\ sidebar_width' = Page(stored).sidebar_width
    /\ server_config' = none

SettingsInit ==
    /\ \E stored \in Leftovers : /\ localStorage = Page(stored).localStorage
                                 /\ settings = Page(stored).settings
                                 /\ html = Page(stored).html
                                 /\ sidebar_width = Page(stored).sidebar_width
    /\ environment \in Environments
    /\ server_config = none
    /\ changes = 0
    /\ chosen = [s \in ALL_SETTING_KEYS |-> none]

\* The user reloads the page, or clears the local cache, which does so.
ReloadPage ==
    /\ Start(localStorage)
    /\ UNCHANGED <<environment, changes, chosen>>

ResetSettings ==
    /\ Start(clear_all_settings(localStorage))
    /\ chosen' = [s \in ALL_SETTING_KEYS |-> none]
    /\ UNCHANGED <<environment, changes>>

\* A new client with other keys is installed over what an old one has left.
Upgrade(stored) ==
    /\ \E key \in Keys : stored[key] # none /\ localStorage[key] = none
    /\ changes < MaxChanges /\ changes' = changes + 1
    /\ Start([key \in Keys |-> IF localStorage[key] = none THEN stored[key] ELSE localStorage[key]])
    /\ UNCHANGED <<environment, chosen>>

-----------------------------------------------------------------------------
(* The server's defaults *)

\* build_client_config_json: a switch is on for "true" only, a number must
\* parse, any text goes for an enumeration.
Served ==
    [s \in {key \in ALL_SETTING_KEYS : environment[key] # none
                                       /\ (key \in Numbers => environment[key] # junk)} |->
        IF s \in Bools THEN environment[s] = TRUE ELSE environment[s]]

\* Mutant: the defaults are applied over the user's choices.
ApplyAll(config) == [s \in ALL_SETTING_KEYS |-> IF s \in DOMAIN config THEN config[s] ELSE settings[s]]

\* apply_server_config: where the user has chosen nothing; of the
\* enumerations only drag_and_drop_mode is validated.
Applied(config) == {s \in DOMAIN config : ~has(s, localStorage)
                        /\ (s = "drag_and_drop_mode" => config[s] \in Options.drag_and_drop_mode)}
Merged(config) ==
    [s \in ALL_SETTING_KEYS |-> IF s \in Applied(config) THEN config[s] ELSE settings[s]]

\* The answer arrives, at any time, if it does.
apply_server_config ==
    /\ server_config = none
    /\ server_config' = Served
    /\ settings' = Merged(Served)
    /\ html' = Restyled(settings')
    /\ UNCHANGED <<localStorage, environment, sidebar_width, changes, chosen>>

-----------------------------------------------------------------------------
(* The settings panel *)

\* Mutant: the number is stored as it was typed.
StoreTyped(s, typed, used) == [localStorage EXCEPT ![s] = typed]

Store(s, typed, used) == [localStorage EXCEPT ![s] = used]

User ==
    /\ changes < MaxChanges /\ changes' = changes + 1
    /\ UNCHANGED <<environment, server_config>>

\* on_toggle_*.  The first override of the width keeps the present one.
on_toggle(s) ==
    LET v     == ~settings[s]
        width == s = "override_sidebar_width" /\ v /\ ~has("default_sidebar_width", localStorage)
        keep  == IF width THEN {s, "default_sidebar_width"} ELSE {s}
        new   == [[settings EXCEPT ![s] = v] EXCEPT
                     !.default_sidebar_width = IF width THEN sidebar_width ELSE @]
    IN  /\ User
        /\ settings' = new
        /\ localStorage' = [key \in Keys |-> IF key \in keep THEN new[key] ELSE localStorage[key]]
        /\ chosen' = [key \in ALL_SETTING_KEYS |-> IF key \in keep THEN new[key] ELSE chosen[key]]
        /\ html' = Restyled(new)
        /\ UNCHANGED sidebar_width

\* on_change_ui_scale, on_change_sidebar_width and the other numbers
on_change_number(s, typed) ==
    LET n == InRange(s, typed)
    IN  /\ User
        /\ settings' = [settings EXCEPT ![s] = n]
        /\ localStorage' = Store(s, typed, n)
        /\ chosen' = [chosen EXCEPT ![s] = n]
        /\ html' = Restyled(settings')
        /\ UNCHANGED sidebar_width

\* on_change_density, on_change_drag_and_drop_mode: one of the options
on_change_enum(s, option) ==
    /\ User
    /\ settings' = [settings EXCEPT ![s] = option]
    /\ localStorage' = [localStorage EXCEPT ![s] = option]
    /\ chosen' = [chosen EXCEPT ![s] = option]
    /\ html' = Restyled(settings')
    /\ UNCHANGED sidebar_width

\* The splitter is dragged.
start_resize(typed) ==
    /\ User
    /\ sidebar_width' = Clamp(typed, 80, 500)
    /\ UNCHANGED <<localStorage, settings, html, chosen>>

\* save_local_state stamps the cache after a sync.
save_cache_schema ==
    /\ localStorage.cache_schema # TRUE
    /\ localStorage' = [localStorage EXCEPT !.cache_schema = TRUE]
    /\ UNCHANGED <<environment, settings, server_config, html, sidebar_width, changes, chosen>>

SettingsNext ==
    \/ ReloadPage \/ ResetSettings \/ apply_server_config \/ save_cache_schema
    \/ \E stored \in Leftovers : Upgrade(stored)
    \/ \E s \in Bools : on_toggle(s)
    \/ \E s \in Numbers, typed \in Typed : on_change_number(s, typed)
    \/ \E s \in Enums : \E option \in Options[s] : on_change_enum(s, option)
    \/ \E typed \in Typed : start_resize(typed)

SettingsSpec == SettingsInit /\ [][SettingsNext]_settingsVars

-----------------------------------------------------------------------------
(* Properties *)

\* What the user has chosen stays in use, whenever the server's defaults
\* arrive, over reloads and upgrades, until the settings are reset.
ChoicesLast == \A s \in ALL_SETTING_KEYS : chosen[s] # none => settings[s] = chosen[s]

\* Once the server's defaults have arrived a reload shows the settings that
\* are in use: no setting is used that is neither stored nor a default.
ReloadKeepsSettings ==
    server_config # none =>
        \A s \in ALL_SETTING_KEYS :
            settings[s] = IF has(s, localStorage) THEN load(s, localStorage)
                          ELSE IF s \in Applied(server_config) THEN server_config[s]
                          ELSE Default[s]

\* The page is styled as the settings say, when the operator's density is one
\* there is: another is applied as it comes and its class never taken off.
RootShowsSettings == environment.ui_density \in Options.ui_density \cup {none} => html = Styled(settings)

\* Starting, upgrading and resetting leave alone what belongs to another
\* application and the stamp that saves a full sync, and nothing of an
\* earlier version stays.
OnlyOwnKeysRemoved ==
    [][/\ localStorage.of_another_application # none =>
              localStorage'.of_another_application = localStorage.of_another_application
       /\ localStorage.cache_schema = TRUE => localStorage'.cache_schema = TRUE
       /\ localStorage'.of_an_earlier_version = none]_settingsVars
=============================================================================
