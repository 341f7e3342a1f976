----------------------------- MODULE KeptProofs -----------------------------
(***************************************************************************)
(* For whatever earlier versions have left, the operator has set and the   *)
(* user types: what the user has chosen stays in use, the page shows the   *)
(* settings, and only the client's own keys are removed.  For any cards    *)
(* and tags, and any number of requests on their way: the panel has one    *)
(* thing to show, the URL names what is selected, and no draft that is     *)
(* known to be unsaved is lost unnoticed.                                  *)
(* For any number of saves, builds and reloads: a session starts from      *)
(* files that belong together, and the last edit of a card is in the saved *)
(* queue once its save is over.                                            *)
(***************************************************************************)
EXTENDS Settings, Persist, Panes, SequenceTheorems, TLAPS

-----------------------------------------------------------------------------
(* The settings *)

\* Values of settings: those of the kind, but for the operator's enumerations.
ValuesOK(values) ==
    /\ values = [s \in ALL_SETTING_KEYS |-> values[s]]
    /\ \A s \in Bools : values[s] \in BOOLEAN
    /\ \A s \in Numbers : values[s] \in Nat

StoredOK ==
    /\ localStorage = [key \in Keys |-> localStorage[key]]
    /\ Storable(localStorage)
    /\ localStorage.of_an_earlier_version = none

ChosenOK ==
    /\ chosen = [s \in ALL_SETTING_KEYS |-> chosen[s]]
    /\ \A s \in ALL_SETTING_KEYS : chosen[s] # none =>
          /\ localStorage[s] = chosen[s] /\ settings[s] = chosen[s] /\ chosen[s] # junk
          /\ s \in Bools => chosen[s] \in BOOLEAN

\* A foreign density comes from the operator only.
DensityOK ==
    environment.ui_density \in Options.ui_density \cup {none} =>
        settings.ui_density \in Options.ui_density /\ html = Styled(settings)

SettingsInv ==
    /\ environment \in Environments
    /\ ValuesOK(settings) /\ sidebar_width \in Nat
    /\ StoredOK /\ ChosenOK /\ DensityOK

-----------------------------------------------------------------------------
(* Keys and values *)

LEMMA KeyFacts ==
    /\ ALL_SETTING_KEYS \subseteq Keys
    /\ \A s \in ALL_SETTING_KEYS : is_known_key(s) /\ s \notin Foreign
    /\ Bools \cap Numbers = {} /\ Bools \cap Enums = {} /\ Numbers \cap Enums = {}
    /\ "ui_density" \in Enums /\ "default_sidebar_width" \in Numbers
    /\ "override_sidebar_width" \in Bools
    /\ {"cache_schema", "of_an_earlier_version", "of_another_application"} \subseteq Keys \ ALL_SETTING_KEYS
BY DEF ALL_SETTING_KEYS, Keys, Bools, Numbers, Enums, NON_SETTING_KEYS, Foreign, is_known_key

LEMMA Defaults == ValuesOK(Default) /\ Default.ui_density \in Options.ui_density
BY DEF ValuesOK, Default, Options, ALL_SETTING_KEYS, Bools, Numbers, Enums

LEMMA InRangeNat == ASSUME NEW s \in Numbers, NEW x \in Nat PROVE InRange(s, x) \in Nat
BY DEF InRange, Clamp

-----------------------------------------------------------------------------
(* A page that starts *)

Kept(stored) == Healed(keys_to_prune(stored))

LEMMA KeptKeys ==
    ASSUME NEW stored, Storable(stored)
    PROVE  /\ Kept(stored) = [key \in Keys |-> Kept(stored)[key]]
           /\ Storable(Kept(stored))
           /\ Kept(stored)["of_an_earlier_version"] = none
           /\ Kept(stored)["of_another_application"] = stored["of_another_application"]
           /\ Kept(stored)["cache_schema"] = stored["cache_schema"]
           /\ \A s \in ALL_SETTING_KEYS : stored[s] # junk => Kept(stored)[s] = stored[s]
<1>1. \A key \in Keys : keys_to_prune(stored)[key] =
                            IF ~is_known_key(key) /\ key \notin Foreign THEN none ELSE stored[key]
    BY DEF keys_to_prune
<1>2. \A key \in Keys : Kept(stored)[key] =
          IF key \in Enums /\ keys_to_prune(stored)[key] = junk THEN none ELSE keys_to_prune(stored)[key]
    BY DEF Kept, Healed
<1>3. Kept(stored) = [key \in Keys |-> Kept(stored)[key]]
    BY DEF Kept, Healed
<1>4. \A s \in ALL_SETTING_KEYS : Kept(stored)[s] = IF s \in Enums /\ stored[s] = junk THEN none ELSE stored[s]
    BY <1>1, <1>2, KeyFacts
<1>5. Storable(Kept(stored))
    BY <1>4, KeyFacts DEF Storable, ALL_SETTING_KEYS
<1>6. /\ Kept(stored)["of_an_earlier_version"] = none
      /\ Kept(stored)["of_another_application"] = stored["of_another_application"]
      /\ Kept(stored)["cache_schema"] = stored["cache_schema"]
    BY <1>1, <1>2, KeyFacts DEF Foreign, is_known_key, NON_SETTING_KEYS, ALL_SETTING_KEYS, Bools, Numbers, Enums
<1> QED
    BY <1>3, <1>4, <1>5, <1>6

LEMMA LoadKeeps ==
    ASSUME NEW s \in ALL_SETTING_KEYS, NEW stored, stored[s] \notin {none, junk},
           s \in Bools => stored[s] \in BOOLEAN
    PROVE  load(s, stored) = stored[s]
<1>1. CASE s \in Bools
    <2>1. load(s, stored) = (stored[s] = TRUE)
        BY <1>1, Zenon DEF load, has
    <2> QED
        BY <1>1, <2>1
<1>2. CASE s \notin Bools
    BY <1>2 DEF load, has
<1> QED
    BY <1>1, <1>2

LEMMA Loaded ==
    ASSUME NEW stored, Storable(stored)
    PROVE  LET loaded == [s \in ALL_SETTING_KEYS |-> load(s, stored)]
           IN  ValuesOK(loaded) /\ loaded.ui_density \in Options.ui_density
<1> DEFINE loaded == [s \in ALL_SETTING_KEYS |-> load(s, stored)]
<1>1. \A s \in Bools : loaded[s] \in BOOLEAN
    <2> TAKE s \in Bools
    <2>1. CASE has(s, stored)
        BY <2>1, Zenon DEF load, ALL_SETTING_KEYS
    <2>2. CASE ~has(s, stored)
        BY <2>2, Defaults DEF load, ValuesOK, ALL_SETTING_KEYS
    <2> QED
        BY <2>1, <2>2
<1>2. \A s \in Numbers : loaded[s] \in Nat
    BY Defaults, KeyFacts DEF load, has, ValuesOK, ALL_SETTING_KEYS, Storable
<1>3. loaded["ui_density"] \in Options["ui_density"]
    BY Defaults, KeyFacts DEF load, has, ALL_SETTING_KEYS, Storable
<1> QED
    BY <1>1, <1>2, <1>3 DEF ValuesOK

\* What is kept of what was stored when a page starts, and what it shows.
LEMMA Started ==
    ASSUME NEW stored, Storable(stored)
    PROVE  /\ Page(stored).localStorage = Kept(stored)
           /\ Page(stored).settings = [s \in ALL_SETTING_KEYS |-> load(s, Kept(stored))]
           /\ ValuesOK(Page(stored).settings)
           /\ Page(stored).settings.ui_density \in Options.ui_density
           /\ Page(stored).html = Styled(Page(stored).settings)
           /\ Page(stored).sidebar_width \in Nat
<1>1. /\ Page(stored).localStorage = Kept(stored)
      /\ Page(stored).settings = [s \in ALL_SETTING_KEYS |-> load(s, Kept(stored))]
      /\ Page(stored).html = Styled(Page(stored).settings)
      /\ Page(stored).sidebar_width = IF Page(stored).settings.override_sidebar_width
                                      THEN Page(stored).settings.default_sidebar_width
                                      ELSE Default.default_sidebar_width
    BY DEF Page, Kept
<1>2. ValuesOK(Page(stored).settings) /\ Page(stored).settings.ui_density \in Options.ui_density
    BY <1>1, KeptKeys, Loaded
<1>3. Page(stored).sidebar_width \in Nat
    BY <1>1, <1>2, Defaults, KeyFacts DEF ValuesOK
<1> QED
    BY <1>1, <1>2, <1>3

\* A page starts over what it finds; what the user has chosen is still there.
LEMMA StartStep ==
    ASSUME SettingsInv, NEW stored, Storable(stored), Start(stored), environment' = environment,
           chosen' = [s \in ALL_SETTING_KEYS |-> chosen'[s]],
           \A s \in ALL_SETTING_KEYS : chosen'[s] # none => chosen'[s] = chosen[s] /\ stored[s] = chosen[s]
    PROVE  SettingsInv'
<1>1. /\ localStorage' = Kept(stored)
      /\ settings' = [s \in ALL_SETTING_KEYS |-> load(s, Kept(stored))]
      /\ html' = Styled(settings')
      /\ ValuesOK(settings') /\ settings'.ui_density \in Options.ui_density
      /\ sidebar_width' \in Nat
    BY Started DEF Start
<1>2. StoredOK'
    BY <1>1, KeptKeys DEF StoredOK
<1>3. ChosenOK'
    <2> SUFFICES ASSUME NEW s \in ALL_SETTING_KEYS, chosen'[s] # none
                 PROVE  /\ localStorage'[s] = chosen'[s] /\ settings'[s] = chosen'[s] /\ chosen'[s] # junk
                        /\ s \in Bools => chosen'[s] \in BOOLEAN
        BY DEF ChosenOK
    <2>1. chosen'[s] = chosen[s] /\ stored[s] = chosen[s] /\ chosen[s] # none
        OBVIOUS
    <2>2. chosen[s] # junk /\ (s \in Bools => chosen[s] \in BOOLEAN)
        BY <2>1 DEF SettingsInv, ChosenOK
    <2>3. localStorage'[s] = chosen[s]
        BY <1>1, <2>1, <2>2, KeptKeys
    <2>4. load(s, localStorage') = chosen[s]
        BY <2>1, <2>2, <2>3, LoadKeeps
    <2>5. settings'[s] = chosen[s]
        BY <1>1, <2>4
    <2> QED
        BY <2>1, <2>2, <2>3, <2>5
<1> QED
    BY <1>1, <1>2, <1>3 DEF SettingsInv, DensityOK

\* What a reset and an upgrade hand to the page that starts.
LEMMA ClearedStorable == Storable(clear_all_settings(localStorage))
BY KeyFacts DEF clear_all_settings, Storable, ALL_SETTING_KEYS

LEMMA BothStorable ==
    ASSUME SettingsInv, NEW old \in Leftovers
    PROVE  Storable([key \in Keys |-> IF localStorage[key] = none THEN old[key] ELSE localStorage[key]])
BY SettingsConstants, KeyFacts DEF Storable, SettingsInv, StoredOK, ALL_SETTING_KEYS

LEMMA SettingsBegin == SettingsInit => SettingsInv
<1> SUFFICES ASSUME SettingsInit PROVE SettingsInv
    OBVIOUS
<1>1. PICK stored \in Leftovers : /\ localStorage = Page(stored).localStorage
                                  /\ settings = Page(stored).settings
                                  /\ html = Page(stored).html
                                  /\ sidebar_width = Page(stored).sidebar_width
    BY DEF SettingsInit
<1>2. Storable(stored)
    BY SettingsConstants
<1>3. StoredOK
    <2>1. localStorage = Kept(stored)
        BY <1>1, <1>2, Started
    <2> QED
        BY <2>1, <1>2, KeptKeys DEF StoredOK
<1>4. ChosenOK
    BY DEF SettingsInit, ChosenOK
<1> QED
    BY <1>1, <1>2, <1>3, <1>4, Started DEF SettingsInv, SettingsInit, DensityOK

-----------------------------------------------------------------------------
(* The server's defaults *)

LEMMA Restyling ==
    /\ html' = Restyled(settings') /\ html = Styled(settings) /\ settings.ui_density \in Options.ui_density
    => html' = Styled(settings')
BY DEF Restyled, Styled

LEMMA DefaultsStep == ASSUME SettingsInv, apply_server_config PROVE SettingsInv'
<1>1. UNCHANGED <<localStorage, environment, sidebar_width, chosen>> /\ settings' = Merged(Served)
      /\ html' = Restyled(settings')
    BY DEF apply_server_config
<1>2. \A s \in ALL_SETTING_KEYS : settings'[s] = IF s \in Applied(Served) THEN Served[s] ELSE settings[s]
    BY <1>1 DEF Merged
<1>3. \A s \in Applied(Served) : s \in DOMAIN Served /\ ~has(s, localStorage)
    BY DEF Applied
<1>4. \A s \in DOMAIN Served : /\ s \in ALL_SETTING_KEYS /\ environment[s] # none
                               /\ s \in Numbers => environment[s] # junk
    BY DEF Served
<1>5. \A s \in DOMAIN Served : Served[s] = IF s \in Bools THEN environment[s] = TRUE ELSE environment[s]
    BY DEF Served
<1>6. ValuesOK(settings')
    <2>1. settings' = [s \in ALL_SETTING_KEYS |-> settings'[s]]
        BY <1>1 DEF Merged
    <2>2. \A s \in Bools : settings'[s] \in BOOLEAN
        <3> TAKE s \in Bools
        <3>1. CASE s \in Applied(Served)
            <4>1. Served[s] = (environment[s] = TRUE)
                BY <3>1, <1>3, <1>5, Zenon
            <4> QED
                BY <3>1, <4>1, <1>2, Zenon DEF ALL_SETTING_KEYS
        <3>2. CASE s \notin Applied(Served)
            BY <3>2, <1>2 DEF SettingsInv, ValuesOK, ALL_SETTING_KEYS
        <3> QED
            BY <3>1, <3>2
    <2>3. \A s \in Numbers : settings'[s] \in Nat
        BY <1>2, <1>3, <1>4, <1>5, SettingsConstants, KeyFacts DEF SettingsInv, ValuesOK, ALL_SETTING_KEYS
    <2> QED
        BY <2>1, <2>2, <2>3 DEF ValuesOK
<1>7. ChosenOK'
    <2>1. \A s \in ALL_SETTING_KEYS : chosen[s] # none => has(s, localStorage)
        BY DEF SettingsInv, ChosenOK, has
    <2>2. \A s \in ALL_SETTING_KEYS : chosen[s] # none => settings'[s] = settings[s]
        BY <2>1, <1>2, <1>3
    <2> QED
        BY <1>1, <2>2 DEF SettingsInv, ChosenOK
<1>8. DensityOK'
    <2> SUFFICES ASSUME environment.ui_density \in Options.ui_density \cup {none} PROVE DensityOK'
        BY <1>1 DEF DensityOK
    <2>1. settings.ui_density \in Options.ui_density /\ html = Styled(settings)
        BY DEF SettingsInv, DensityOK
    <2>2. settings'.ui_density \in Options.ui_density
        BY <2>1, <1>2, <1>3, <1>4, <1>5, KeyFacts DEF ALL_SETTING_KEYS
    <2> QED
        BY <2>1, <2>2, <1>1, Restyling DEF DensityOK
<1> QED
    BY <1>1, <1>6, <1>7, <1>8 DEF SettingsInv, StoredOK

-----------------------------------------------------------------------------
(* The settings panel *)

\* A choice of values for some settings is used, stored and remembered alike.
Choice(keys) ==
    /\ keys \in SUBSET ALL_SETTING_KEYS /\ ValuesOK(settings')
    /\ \A s \in keys \cap Enums : settings'[s] \in Options[s]
    /\ \A s \in ALL_SETTING_KEYS \ keys : settings'[s] = settings[s]
    /\ localStorage' = [key \in Keys |-> IF key \in keys THEN settings'[key] ELSE localStorage[key]]
    /\ chosen' = [s \in ALL_SETTING_KEYS |-> IF s \in keys THEN settings'[s] ELSE chosen[s]]
    /\ html' = Restyled(settings') /\ UNCHANGED <<environment, sidebar_width, server_config>>

LEMMA ChoiceStep == ASSUME SettingsInv, NEW keys, Choice(keys) PROVE SettingsInv'
<1> USE DEF Choice
<1>1. StoredOK'
    <2>1. \A s \in Numbers : localStorage'[s] \in Nat \cup {none, junk}
        BY KeyFacts DEF SettingsInv, StoredOK, Storable, ValuesOK, ALL_SETTING_KEYS
    <2>2. \A s \in Enums : localStorage'[s] \in Options[s] \cup {none, junk}
        BY KeyFacts DEF SettingsInv, StoredOK, Storable, ALL_SETTING_KEYS
    <2> QED
        BY <2>1, <2>2, KeyFacts DEF SettingsInv, StoredOK, Storable
<1>2. \A s \in keys : settings'[s] # junk /\ (s \in Bools => settings'[s] \in BOOLEAN)
    BY SettingsConstants DEF ValuesOK, ALL_SETTING_KEYS
<1>3. ChosenOK'
    BY <1>2, KeyFacts DEF SettingsInv, ChosenOK
<1>4. DensityOK'
    <2>1. "ui_density" \notin keys => settings'.ui_density = settings.ui_density
        BY KeyFacts DEF ALL_SETTING_KEYS
    <2> QED
        BY <2>1, Restyling, KeyFacts DEF SettingsInv, DensityOK
<1> QED
    BY <1>1, <1>3, <1>4 DEF SettingsInv

LEMMA ToggleChooses == ASSUME SettingsInv, NEW s \in Bools, on_toggle(s) PROVE \E keys : Choice(keys)
<1> DEFINE width == s = "override_sidebar_width" /\ ~settings[s]
                    /\ ~has("default_sidebar_width", localStorage)
           keep  == IF width THEN {s, "default_sidebar_width"} ELSE {s}
           new   == [[settings EXCEPT ![s] = ~settings[s]] EXCEPT
                       !.default_sidebar_width = IF width THEN sidebar_width ELSE @]
<1>1. /\ settings' = new
      /\ localStorage' = [key \in Keys |-> IF key \in keep THEN new[key] ELSE localStorage[key]]
      /\ chosen' = [key \in ALL_SETTING_KEYS |-> IF key \in keep THEN new[key] ELSE chosen[key]]
      /\ html' = Restyled(new) /\ UNCHANGED <<environment, sidebar_width, server_config>>
    BY DEF on_toggle, User
<1>2. keep \in SUBSET ALL_SETTING_KEYS /\ keep \cap Enums = {}
    BY KeyFacts DEF ALL_SETTING_KEYS
<1>3. /\ s \in ALL_SETTING_KEYS /\ s # "default_sidebar_width"
      /\ "default_sidebar_width" \in ALL_SETTING_KEYS
    BY KeyFacts DEF ALL_SETTING_KEYS
<1>4. settings = [x \in ALL_SETTING_KEYS |-> settings[x]]
    BY DEF SettingsInv, ValuesOK
<1>5. new = [x \in ALL_SETTING_KEYS |-> new[x]]
    BY <1>4
<1>6. new[s] = ~settings[s]
    BY <1>3, <1>4
<1>7. new["default_sidebar_width"] = IF width THEN sidebar_width ELSE settings["default_sidebar_width"]
    BY <1>3, <1>4
<1>8. \A x \in ALL_SETTING_KEYS \ {s, "default_sidebar_width"} : new[x] = settings[x]
    BY <1>3, <1>4
<1>9. \A x \in ALL_SETTING_KEYS \ keep : new[x] = settings[x]
    BY <1>7, <1>8
<1>10. ValuesOK(new)
    <2>1. \A x \in Bools : new[x] \in BOOLEAN
        <3> TAKE x \in Bools
        <3>1. CASE x = s
            BY <3>1, <1>6, Zenon
        <3>2. CASE x # s
            BY <3>2, <1>8, KeyFacts DEF SettingsInv, ValuesOK, ALL_SETTING_KEYS
        <3> QED
            BY <3>1, <3>2
    <2>2. \A x \in Numbers : new[x] \in Nat
        BY <1>7, <1>8, KeyFacts DEF SettingsInv, ValuesOK, ALL_SETTING_KEYS
    <2> QED
        BY <2>1, <2>2, <1>5 DEF ValuesOK
<1> HIDE DEF new, keep
<1>11. /\ localStorage' = [key \in Keys |-> IF key \in keep THEN settings'[key] ELSE localStorage[key]]
       /\ chosen' = [key \in ALL_SETTING_KEYS |-> IF key \in keep THEN settings'[key] ELSE chosen[key]]
       /\ html' = Restyled(settings') /\ ValuesOK(settings')
       /\ \A x \in ALL_SETTING_KEYS \ keep : settings'[x] = settings[x]
       /\ \A x \in keep \cap Enums : settings'[x] \in Options[x]
    BY <1>1, <1>2, <1>9, <1>10
<1>12. Choice(keep)
    BY <1>1, <1>2, <1>11 DEF Choice
<1> QED
    BY <1>12

LEMMA SetChooses ==
    ASSUME SettingsInv, NEW s \in Numbers \cup Enums, NEW v,
           IF s \in Numbers THEN v \in Nat ELSE v \in Options[s],
           settings' = [settings EXCEPT ![s] = v], localStorage' = [localStorage EXCEPT ![s] = v],
           chosen' = [chosen EXCEPT ![s] = v], html' = Restyled(settings'),
           UNCHANGED <<environment, sidebar_width, server_config>>
    PROVE  \E keys : Choice(keys)
<1>1. s \in ALL_SETTING_KEYS /\ s \notin Bools /\ s \in Keys
    BY KeyFacts DEF ALL_SETTING_KEYS
<1>2. settings'[s] = v /\ \A x \in ALL_SETTING_KEYS \ {s} : settings'[x] = settings[x]
    BY <1>1 DEF SettingsInv, ValuesOK
<1>3. ValuesOK(settings')
    <2>1. settings' = [x \in ALL_SETTING_KEYS |-> settings'[x]]
        BY <1>1 DEF SettingsInv, ValuesOK
    <2>2. \A x \in Bools : settings'[x] \in BOOLEAN
        BY <1>1, <1>2 DEF SettingsInv, ValuesOK, ALL_SETTING_KEYS
    <2>3. \A x \in Numbers : settings'[x] \in Nat
        BY <1>1, <1>2 DEF SettingsInv, ValuesOK, ALL_SETTING_KEYS
    <2> QED
        BY <2>1, <2>2, <2>3 DEF ValuesOK
<1>4. localStorage' = [key \in Keys |-> IF key \in {s} THEN settings'[key] ELSE localStorage[key]]
    BY <1>1, <1>2 DEF SettingsInv, StoredOK
<1>5. chosen' = [key \in ALL_SETTING_KEYS |-> IF key \in {s} THEN settings'[key] ELSE chosen[key]]
    BY <1>1, <1>2 DEF SettingsInv, ChosenOK
<1>6. \A x \in {s} \cap Enums : settings'[x] \in Options[x]
    BY <1>2, KeyFacts
<1>7. {s} \in SUBSET ALL_SETTING_KEYS
    BY <1>1
<1> QED
    BY <1>2, <1>3, <1>4, <1>5, <1>6, <1>7 DEF Choice

\* What the user does in the panel.
LEMMA UserChooses ==
    ASSUME SettingsInv,
           \/ \E s \in Bools : on_toggle(s)
           \/ \E s \in Numbers, typed \in Typed : on_change_number(s, typed)
           \/ \E s \in Enums : \E option \in Options[s] : on_change_enum(s, option)
    PROVE  \E keys : Choice(keys)
<1>1. ASSUME NEW s \in Numbers, NEW typed \in Typed, on_change_number(s, typed) PROVE \E keys : Choice(keys)
    <2>1. InRange(s, typed) \in Nat
        BY SettingsConstants, InRangeNat
    <2> QED
        BY <1>1, <2>1, SetChooses DEF on_change_number, User, Store
<1>2. ASSUME NEW s \in Enums, NEW option \in Options[s], on_change_enum(s, option) PROVE \E keys : Choice(keys)
    BY <1>2, SetChooses, KeyFacts DEF on_change_enum, User
<1> QED
    BY <1>1, <1>2, ToggleChooses

LEMMA ResizeStep == ASSUME SettingsInv, NEW typed \in Typed, start_resize(typed) PROVE SettingsInv'
BY SettingsConstants DEF start_resize, User, Clamp, SettingsInv, StoredOK, ChosenOK, DensityOK

LEMMA StampStep == ASSUME SettingsInv, save_cache_schema PROVE SettingsInv'
<1>1. localStorage' = [localStorage EXCEPT !["cache_schema"] = TRUE]
      /\ UNCHANGED <<environment, settings, html, sidebar_width, chosen>>
    BY DEF save_cache_schema
<1>2. /\ localStorage' = [key \in Keys |-> localStorage'[key]]
      /\ \A key \in Keys \ {"cache_schema"} : localStorage'[key] = localStorage[key]
    BY <1>1 DEF SettingsInv, StoredOK
<1>3. StoredOK'
    BY <1>2, KeyFacts DEF SettingsInv, StoredOK, Storable, ALL_SETTING_KEYS
<1>4. ChosenOK'
    BY <1>1, <1>2, KeyFacts DEF SettingsInv, ChosenOK
<1> QED
    BY <1>1, <1>3, <1>4 DEF SettingsInv, DensityOK

LEMMA SettingsStep == SettingsInv /\ [SettingsNext]_settingsVars => SettingsInv'
<1> SUFFICES ASSUME SettingsInv, [SettingsNext]_settingsVars PROVE SettingsInv'
    OBVIOUS
<1>1. CASE ReloadPage
    <2>1. \A s \in ALL_SETTING_KEYS : chosen[s] # none => localStorage[s] = chosen[s]
        BY DEF SettingsInv, ChosenOK
    <2> QED
        BY <1>1, <2>1, StartStep DEF ReloadPage, SettingsInv, StoredOK, ChosenOK
<1>2. CASE ResetSettings
    <2> DEFINE cleared == clear_all_settings(localStorage)
    <2>1. \A s \in ALL_SETTING_KEYS : cleared[s] = none
        BY KeyFacts DEF clear_all_settings
    <2>2. Storable(cleared)
        BY <2>1 DEF Storable, ALL_SETTING_KEYS
    <2>3. /\ chosen' = [s \in ALL_SETTING_KEYS |-> none]
          /\ Start(cleared) /\ environment' = environment
        BY <1>2 DEF ResetSettings
    <2> HIDE DEF cleared
    <2> QED
        BY <2>2, <2>3, StartStep
<1>3. ASSUME NEW old \in Leftovers, Upgrade(old) PROVE SettingsInv'
    <2> DEFINE both == [key \in Keys |-> IF localStorage[key] = none THEN old[key] ELSE localStorage[key]]
    <2>1. Storable(both)
        BY SettingsConstants, KeyFacts DEF Storable, SettingsInv, StoredOK, ALL_SETTING_KEYS
    <2>2. \A s \in ALL_SETTING_KEYS : chosen[s] # none => both[s] = chosen[s]
        BY KeyFacts DEF SettingsInv, ChosenOK
    <2>3. Start(both) /\ environment' = environment /\ chosen' = chosen
        BY <1>3 DEF Upgrade
    <2>4. chosen = [s \in ALL_SETTING_KEYS |-> chosen[s]]
        BY DEF SettingsInv, ChosenOK
    <2> HIDE DEF both
    <2> QED
        BY <2>1, <2>2, <2>3, <2>4, StartStep
<1>4. CASE UNCHANGED settingsVars
    BY <1>4 DEF settingsVars, SettingsInv, StoredOK, ChosenOK, DensityOK
<1> QED
    BY <1>1, <1>2, <1>3, <1>4, DefaultsStep, StampStep, UserChooses, ChoiceStep, ResizeStep DEF SettingsNext

-----------------------------------------------------------------------------
(* The keys of others *)

OthersKept ==
    /\ localStorage.of_another_application # none =>
          localStorage'.of_another_application = localStorage.of_another_application
    /\ localStorage.cache_schema = TRUE => localStorage'.cache_schema = TRUE
    /\ localStorage'.of_an_earlier_version = none

\* A page removes nothing of others from what it finds.
LEMMA StartKeepsOthers ==
    ASSUME NEW stored, Storable(stored), Start(stored),
           \A key \in {"of_another_application", "cache_schema"} :
               localStorage[key] # none => stored[key] = localStorage[key]
    PROVE  OthersKept
<1>1. localStorage' = Kept(stored)
    BY Started DEF Start
<1> QED
    BY <1>1, KeptKeys, SettingsConstants DEF OthersKept

\* The user writes settings only.
LEMMA ChoiceKeepsOthers ==
    ASSUME SettingsInv, NEW keys \in SUBSET ALL_SETTING_KEYS,
           \A key \in Keys \ keys : localStorage'[key] = localStorage[key]
    PROVE  OthersKept
BY KeyFacts DEF OthersKept, SettingsInv, StoredOK

LEMMA OthersStep == SettingsInv /\ SettingsNext => OthersKept
<1> SUFFICES ASSUME SettingsInv, SettingsNext PROVE OthersKept
    OBVIOUS
<1>1. CASE ReloadPage
    BY <1>1, StartKeepsOthers DEF ReloadPage, SettingsInv, StoredOK
<1>2. CASE ResetSettings
    <2> DEFINE cleared == clear_all_settings(localStorage)
    <2>1. /\ \A s \in ALL_SETTING_KEYS : cleared[s] = none
          /\ \A key \in Keys \ ALL_SETTING_KEYS : cleared[key] = localStorage[key]
        BY KeyFacts DEF clear_all_settings
    <2>2. Storable(cleared)
        BY <2>1 DEF Storable, ALL_SETTING_KEYS
    <2>3. Start(cleared)
        BY <1>2 DEF ResetSettings
    <2> HIDE DEF cleared
    <2> QED
        BY <2>1, <2>2, <2>3, StartKeepsOthers, KeyFacts
<1>3. ASSUME NEW old \in Leftovers, Upgrade(old) PROVE OthersKept
    <2> DEFINE both == [key \in Keys |-> IF localStorage[key] = none THEN old[key] ELSE localStorage[key]]
    <2>1. Storable(both)
        BY SettingsConstants, KeyFacts DEF Storable, SettingsInv, StoredOK, ALL_SETTING_KEYS
    <2>2. \A key \in {"of_another_application", "cache_schema"} :
              localStorage[key] # none => both[key] = localStorage[key]
        BY KeyFacts
    <2>3. Start(both)
        BY <1>3 DEF Upgrade
    <2> HIDE DEF both
    <2> QED
        BY <2>1, <2>2, <2>3, StartKeepsOthers
<1>4. ASSUME NEW keys, Choice(keys) PROVE OthersKept
    BY <1>4, ChoiceKeepsOthers DEF Choice
<1>5. CASE save_cache_schema
    <2>1. /\ localStorage'["cache_schema"] = TRUE
          /\ \A key \in Keys \ {"cache_schema"} : localStorage'[key] = localStorage[key]
        BY <1>5, KeyFacts DEF save_cache_schema, SettingsInv, StoredOK
    <2> QED
        BY <2>1, KeyFacts DEF OthersKept, SettingsInv, StoredOK
<1>6. CASE UNCHANGED localStorage
    BY <1>6 DEF OthersKept, SettingsInv, StoredOK
<1> QED
    BY <1>1, <1>2, <1>3, <1>4, <1>5, <1>6, UserChooses
    DEF SettingsNext, apply_server_config, start_resize

-----------------------------------------------------------------------------
(* What a reload shows *)

\* The settings are what is stored, and of the rest the defaults: the client's
\* own, or those of a configuration.
Reloaded(stored, config, s) ==
    IF has(s, stored) THEN load(s, stored)
    ELSE IF s \in DOMAIN config /\ (s = "drag_and_drop_mode" => config[s] \in Options.drag_and_drop_mode)
      THEN config[s] ELSE Default[s]

ShownUnder(config) == \A s \in ALL_SETTING_KEYS : settings[s] = Reloaded(localStorage, config, s)

NoConfig == << >>

ShownOK ==
    /\ server_config \in {none, Served}
    /\ ShownUnder(NoConfig) \/ ShownUnder(Served)
    /\ server_config # none => ShownUnder(server_config)

LEMMA PageShown ==
    ASSUME NEW stored, Storable(stored), Start(stored)
    PROVE  ShownOK'
<1>1. /\ localStorage' = Kept(stored) /\ server_config' = none
      /\ settings' = [s \in ALL_SETTING_KEYS |-> load(s, Kept(stored))]
    BY Started DEF Start
<1>2. \A s : ~has(s, Kept(stored)) => load(s, Kept(stored)) = Default[s]
    BY DEF load
<1>3. ShownUnder(NoConfig)'
    BY <1>1, <1>2 DEF ShownUnder, Reloaded, NoConfig
<1> QED
    BY <1>1, <1>3 DEF ShownOK

LEMMA ServedShown == ASSUME ShownOK, apply_server_config PROVE ShownOK'
<1>1. /\ settings' = Merged(Served) /\ server_config' = Served
      /\ localStorage' = localStorage /\ environment' = environment
    BY DEF apply_server_config
<1>2. Served' = Served
    BY <1>1 DEF Served
<1>3. \A s \in ALL_SETTING_KEYS : settings'[s] = Reloaded(localStorage, Served, s)
    <2> TAKE s \in ALL_SETTING_KEYS
    <2>1. settings'[s] = IF s \in Applied(Served) THEN Served[s] ELSE settings[s]
        BY <1>1 DEF Merged
    <2>2. s \in Applied(Served) <=>
            /\ s \in DOMAIN Served /\ ~has(s, localStorage)
            /\ s = "drag_and_drop_mode" => Served[s] \in Options.drag_and_drop_mode
        BY DEF Applied
    <2>3. \/ settings[s] = Reloaded(localStorage, NoConfig, s)
          \/ settings[s] = Reloaded(localStorage, Served, s)
        BY DEF ShownOK, ShownUnder
    <2> QED
        BY <2>1, <2>2, <2>3 DEF Reloaded, NoConfig
<1>4. ShownUnder(Served)'
    BY <1>1, <1>2, <1>3 DEF ShownUnder
<1> QED
    BY <1>1, <1>2, <1>4 DEF ShownOK

\* What is chosen is stored as it is used.
LEMMA ChoiceShown ==
    ASSUME SettingsInv, ShownOK, NEW keys, Choice(keys)
    PROVE  ShownOK'
<1>1. Served' = Served /\ server_config' = server_config
    BY DEF Choice, Served
<1>2. ASSUME NEW s \in keys PROVE has(s, localStorage') /\ load(s, localStorage') = settings'[s]
    <2>1. s \in ALL_SETTING_KEYS /\ localStorage'[s] = settings'[s]
        BY KeyFacts DEF Choice
    <2>2. settings'[s] \notin {none, junk} /\ (s \in Bools => settings'[s] \in BOOLEAN)
        BY <2>1, SettingsConstants DEF Choice, ValuesOK, ALL_SETTING_KEYS
    <2> QED
        BY <2>1, <2>2, LoadKeeps DEF has
<1>3. ASSUME NEW s \in ALL_SETTING_KEYS \ keys
      PROVE  settings'[s] = settings[s] /\ localStorage'[s] = localStorage[s]
    BY KeyFacts DEF Choice
<1>4. ASSUME NEW config, NEW s \in ALL_SETTING_KEYS, settings[s] = Reloaded(localStorage, config, s)
      PROVE  settings'[s] = Reloaded(localStorage', config, s)
    BY <1>2, <1>3, <1>4 DEF Reloaded, has, load
<1> QED
    BY <1>1, <1>4 DEF ShownOK, ShownUnder

LEMMA ShownNext == SettingsInv /\ ShownOK /\ [SettingsNext]_settingsVars => ShownOK'
<1> SUFFICES ASSUME SettingsInv, ShownOK, [SettingsNext]_settingsVars PROVE ShownOK'
    OBVIOUS
<1>1. CASE ReloadPage
    BY <1>1, PageShown DEF ReloadPage, SettingsInv, StoredOK
<1>2. CASE ResetSettings
    BY <1>2, PageShown, ClearedStorable DEF ResetSettings
<1>3. ASSUME NEW old \in Leftovers, Upgrade(old) PROVE ShownOK'
    BY <1>3, PageShown, BothStorable DEF Upgrade
<1>4. CASE save_cache_schema \/ (\E typed \in Typed : start_resize(typed)) \/ UNCHANGED settingsVars
    <2>1. /\ UNCHANGED <<environment, settings, server_config>>
          /\ \A s \in ALL_SETTING_KEYS : localStorage'[s] = localStorage[s]
        BY <1>4, KeyFacts DEF save_cache_schema, start_resize, User, settingsVars, SettingsInv, StoredOK
    <2> QED
        BY <2>1 DEF ShownOK, ShownUnder, Reloaded, has, load, Served
<1> QED
    BY <1>1, <1>2, <1>3, <1>4, ServedShown, ChoiceShown, UserChooses DEF SettingsNext

LEMMA ShownBegin == SettingsInit => ShownOK
<1> SUFFICES ASSUME SettingsInit PROVE ShownOK
    OBVIOUS
<1>1. PICK stored \in Leftovers : /\ localStorage = Page(stored).localStorage
                                  /\ settings = Page(stored).settings
    BY DEF SettingsInit
<1>2. /\ localStorage = Kept(stored) /\ server_config = none
      /\ settings = [s \in ALL_SETTING_KEYS |-> load(s, Kept(stored))]
    BY <1>1, Started, SettingsConstants DEF SettingsInit
<1>3. \A s : ~has(s, Kept(stored)) => load(s, Kept(stored)) = Default[s]
    BY DEF load
<1>4. ShownUnder(NoConfig)
    BY <1>2, <1>3 DEF ShownUnder, Reloaded, NoConfig
<1> QED
    BY <1>2, <1>4 DEF ShownOK

-----------------------------------------------------------------------------
(* Theorems *)

\* What the user has chosen stays in use over reloads, upgrades and late
\* defaults of the server (apply_server_config in settings.rs).
THEOREM ChoicesAlwaysLast == SettingsSpec => []ChoicesLast
<1>1. SettingsInv => ChoicesLast
    BY DEF SettingsInv, ChosenOK, ChoicesLast
<1> QED
    BY <1>1, SettingsBegin, SettingsStep, PTL DEF SettingsSpec

\* The html element always shows the settings in use, unless the operator has
\* set a density there is not (apply_ui_density and its like in settings.rs).
THEOREM PageShowsSettings == SettingsSpec => []RootShowsSettings
<1>1. SettingsInv => RootShowsSettings
    BY DEF SettingsInv, DensityOK, RootShowsSettings
<1> QED
    BY <1>1, SettingsBegin, SettingsStep, PTL DEF SettingsSpec

\* The client removes its own keys only and the stamp that saves a full sync
\* stays (keys_to_prune and clear_all_settings in settings.rs).
THEOREM OthersKeysStay == SettingsSpec => OnlyOwnKeysRemoved
<1>1. SettingsInv /\ [SettingsNext]_settingsVars => [OthersKept]_settingsVars
    BY OthersStep
<1> QED
    BY <1>1, SettingsBegin, SettingsStep, PTL DEF SettingsSpec, OnlyOwnKeysRemoved, OthersKept

\* A reload shows the settings that are in use once the server's defaults have
\* arrived: none is used that is neither stored nor a default (the load_* and
\* save_* pairs and apply_server_config in settings.rs).
THEOREM ReloadsShowTheSame == SettingsSpec => []ReloadKeepsSettings
<1>1. ShownOK => ReloadKeepsSettings
    BY DEF ShownOK, ShownUnder, Reloaded, ReloadKeepsSettings, Applied
<1> QED
    BY <1>1, SettingsBegin, SettingsStep, ShownBegin, ShownNext, PTL DEF SettingsSpec

-----------------------------------------------------------------------------
(* The panel *)

PaneIds == CardIds \cup TagIds \cup {none}
PaneViews ==
    [kind: {"nothing", "pane", "new card", "new tag", "tag", "not found", "edit card", "card"},
     id: PaneIds]
PaneTasks ==
    [kind: {"create tag", "save tag", "delete tag", "delete card", "open editor", "finish"},
     id: PaneIds, live: BOOLEAN, draft: BOOLEAN]

FlagTypes ==
    /\ selected_card \in PaneIds
    /\ editing \in BOOLEAN /\ creating_new \in BOOLEAN /\ creating_new_tag \in BOOLEAN
    /\ settings_open \in BOOLEAN /\ shortcuts_open \in BOOLEAN
    /\ pending_priority \in BOOLEAN

EditorTypes ==
    /\ new_card_prefill \in BOOLEAN /\ has_unsaved_changes \in BOOLEAN
    /\ tag_editing \in BOOLEAN
    /\ shown \in PaneViews /\ draft \in PaneViews \cup {none}

UrlTypes == url \in PaneIds /\ visited \in SUBSET PaneIds

EntityTypes == card_ids \in SUBSET CardIds /\ tag_ids \in SUBSET TagIds

TaskTypes ==
    /\ tasks \in SUBSET PaneTasks
    /\ \A task \in tasks : task.kind = "create tag" => task.id \in TagIds

PaneTypes == FlagTypes /\ EditorTypes /\ UrlTypes /\ EntityTypes /\ TaskTypes

\* What is mounted is what the flags ask for: a flag is not written without
\* its view being built anew, unless another view is shown.
ShownRight ==
    /\ settings_open \/ shortcuts_open => shown.kind = "pane"
    /\ creating_new => shown.kind = "new card"
    /\ shown.kind = "edit card" => editing

\* A draft is in an editor that is open.
DraftInEditor ==
    draft # none => \/ draft.kind \in {"new card", "edit card", "new tag"}
                    \/ draft.kind = "tag" /\ tag_editing

\* A TagDetail that waits for the answer to its save is the one that is shown.
SavesAreShown ==
    \A task \in tasks : task.live /\ task.kind = "save tag" => shown.kind = "tag"

PanelInv ==
    PaneTypes /\ OneThingShown /\ UrlNamesSelection /\ ShownRight /\ DraftInEditor /\ SavesAreShown

\* OneThingShown, for the flags alone.
OneFlag ==
    /\ editing => selected_card # none
    /\ creating_new \/ creating_new_tag => selected_card = none /\ ~(creating_new /\ creating_new_tag)
    /\ ~(settings_open /\ shortcuts_open)
    /\ settings_open \/ shortcuts_open => ~creating_new /\ ~creating_new_tag
    /\ settings_open => selected_card = none

FlagsRight  == FlagTypes /\ OneFlag
EditorRight == EditorTypes /\ ShownRight /\ DraftInEditor /\ (draft # none => draft = shown)
TasksRight  == TaskTypes /\ SavesAreShown
UrlRight    == UrlTypes /\ UrlNamesSelection

LEMMA PanelParts ==
    PanelInv <=> EntityTypes /\ FlagsRight /\ EditorRight /\ TasksRight /\ UrlRight
  BY DEF PanelInv, PaneTypes, OneThingShown, OneFlag, FlagsRight, EditorRight, TasksRight, UrlRight

LEMMA PanelPartsNext ==
    ASSUME EntityTypes', FlagsRight', EditorRight', TasksRight', UrlRight'
    PROVE  PanelInv'
  BY DEF PanelInv, PaneTypes, OneThingShown, OneFlag, FlagsRight, EditorRight, TasksRight, UrlRight

-----------------------------------------------------------------------------
(* What building the panel anew leaves *)

\* Whatever a view is mounted over, it finds no draft but its own prefill.
LEMMA MountRight ==
    ASSUME FlagsRight', EntityTypes', EditorTypes,
           NEW flag \in BOOLEAN, NEW prefill \in BOOLEAN, NEW twice \in BOOLEAN,
           Mount(flag, prefill, twice)
    PROVE  EditorRight'
<1> DEFINE new == Rendered'
           started == new.kind = "new card" /\ prefill /\ ~CardEditor(shown) /\ ~twice
<1>1. new \in PaneViews
  BY DEF FlagsRight, FlagTypes, EntityTypes, Rendered, PaneViews, PaneIds, View, detail_open
<1>2. /\ settings_open' \/ shortcuts_open' => new.kind = "pane"
      /\ creating_new' => new.kind = "new card"
      /\ new.kind = "edit card" => editing'
  BY DEF FlagsRight, OneFlag, Rendered, View, detail_open
<1>3. shown' = new /\ draft' = IF started THEN new ELSE none
  BY DEF Mount
<1>4. new_card_prefill' \in BOOLEAN /\ has_unsaved_changes' \in BOOLEAN /\ tag_editing' \in BOOLEAN
  BY DEF Mount
<1> HIDE DEF new
<1>5. EditorTypes'
  BY <1>1, <1>3, <1>4 DEF EditorTypes
<1>6. ShownRight'
  BY <1>2, <1>3 DEF ShownRight
<1>7. DraftInEditor' /\ (draft' # none => draft' = shown')
  BY <1>3 DEF DraftInEditor
<1> QED
  BY <1>5, <1>6, <1>7 DEF EditorRight

\* Who waits for the panel of before no longer touches the one of now.
LEMMA OrphanedRight ==
    ASSUME TaskTypes
    PROVE  /\ Orphaned \in SUBSET PaneTasks
           /\ \A task \in Orphaned : task.live = FALSE
           /\ \A task \in Orphaned : task.kind = "create tag" => task.id \in TagIds
  BY DEF TaskTypes, PaneTasks, Orphaned

LEMMA TasksOrphaned ==
    ASSUME TaskTypes, NEW gone, tasks' = Orphaned \ gone
    PROVE  TasksRight'
  BY OrphanedRight DEF TasksRight, TaskTypes, SavesAreShown

LEMMA AnsweredRight ==
    ASSUME TaskTypes, NEW task \in tasks, tasks' = Answered(task)
    PROVE  TasksRight'
  BY DEF TaskTypes, PaneTasks, Answered, TasksRight, SavesAreShown

-----------------------------------------------------------------------------
(* The helpers of the store: flags, what is mounted, and the URL *)

LEMMA SyncRight ==
    ASSUME UrlTypes, FlagTypes', sync_query_params
    PROVE  UrlRight'
  BY DEF UrlTypes, FlagTypes, sync_query_params, UrlRight, UrlNamesSelection

LEMMA SelectRight ==
    ASSUME PanelInv, EntityTypes', NEW target \in PaneIds, NEW flag \in BOOLEAN,
           Select(target, flag)
    PROVE  FlagsRight' /\ EditorRight' /\ UrlRight'
<1>1. FlagsRight'
  BY DEF Select, FlagsRight, FlagTypes, OneFlag
<1>2. EditorTypes /\ UrlTypes /\ new_card_prefill \in BOOLEAN
  BY DEF PanelInv, PaneTypes, EditorTypes
<1>3. Mount(flag, new_card_prefill, TRUE) /\ sync_query_params
  BY DEF Select
<1> QED
  BY <1>1, <1>2, <1>3, MountRight, SyncRight DEF FlagsRight

LEMMA NewCardRight ==
    ASSUME PanelInv, EntityTypes', NEW prefill \in BOOLEAN, start_new_card(prefill)
    PROVE  FlagsRight' /\ EditorRight' /\ UrlRight'
<1>1. FlagsRight'
  BY DEF start_new_card, FlagsRight, FlagTypes, OneFlag, PaneIds
<1>2. /\ EditorTypes /\ UrlTypes /\ has_unsaved_changes \in BOOLEAN
      /\ settings_open \in BOOLEAN /\ shortcuts_open \in BOOLEAN
  BY DEF PanelInv, PaneTypes, EditorTypes, FlagTypes
<1> DEFINE twice == CardDetail(shown) /\ (set_if_changed(settings_open) \/ set_if_changed(shortcuts_open))
<1>3. Mount(has_unsaved_changes, prefill, twice) /\ sync_query_params
  BY DEF start_new_card
<1>4. twice \in BOOLEAN
  OBVIOUS
<1> HIDE DEF twice
<1> QED
  BY <1>1, <1>2, <1>3, <1>4, MountRight, SyncRight DEF FlagsRight

LEMMA NewTagRight ==
    ASSUME PanelInv, EntityTypes', start_new_tag
    PROVE  FlagsRight' /\ EditorRight' /\ UrlRight'
<1>1. FlagsRight'
  BY DEF start_new_tag, FlagsRight, FlagTypes, OneFlag, PaneIds
<1>2. EditorTypes /\ UrlTypes /\ new_card_prefill \in BOOLEAN /\ has_unsaved_changes \in BOOLEAN
  BY DEF PanelInv, PaneTypes, EditorTypes
<1>3. Mount(has_unsaved_changes, new_card_prefill, TRUE) /\ sync_query_params
  BY DEF start_new_tag
<1> QED
  BY <1>1, <1>2, <1>3, MountRight, SyncRight DEF FlagsRight

\* Without a card in the panel nothing hangs on `editing`.
LEMMA EditRight ==
    ASSUME PanelInv, EntityTypes', NEW flag \in BOOLEAN, NEW unsaved \in BOOLEAN,
           flag => selected_card # none, Edit(flag, unsaved)
    PROVE  /\ FlagsRight' /\ EditorRight' /\ UrlRight'
           /\ shown' = shown \/ shown.kind \in {"card", "edit card"}
<1>1. FlagsRight'
  BY DEF Edit, FlagsRight, FlagTypes, OneFlag, PanelInv, PaneTypes, OneThingShown
<1>2. EditorTypes /\ new_card_prefill \in BOOLEAN
  BY DEF PanelInv, PaneTypes, EditorTypes
<1>3. UrlRight'
  BY DEF PanelInv, PaneTypes, Edit, urlVars, UrlRight, UrlTypes, UrlNamesSelection
<1>4. CASE shown.kind \in {"card", "edit card"}
  <2>1. Mount(unsaved, new_card_prefill, TRUE)
    BY <1>4 DEF Edit
  <2> QED
    BY <1>1, <1>2, <1>3, <1>4, <2>1, MountRight DEF FlagsRight
<1>5. CASE shown.kind \notin {"card", "edit card"}
  <2>1. /\ has_unsaved_changes' = unsaved /\ draft' \in {none, draft}
        /\ UNCHANGED <<shown, new_card_prefill, tag_editing, settings_open, shortcuts_open,
                       creating_new>>
    BY <1>5 DEF Edit
  <2>2. EditorTypes'
    BY <1>2, <2>1 DEF EditorTypes
  <2>3. ShownRight'
    BY <1>5, <2>1 DEF PanelInv, ShownRight
  <2>4. DraftInEditor' /\ (draft' # none => draft' = shown')
    BY <2>1 DEF PanelInv, OneThingShown, DraftInEditor
  <2> QED
    BY <1>1, <1>3, <2>1, <2>2, <2>3, <2>4 DEF EditorRight
<1> QED
  BY <1>4, <1>5

LEMMA FinishRight ==
    ASSUME PanelInv, EntityTypes', finish_creation_flow
    PROVE  FlagsRight' /\ EditorRight' /\ UrlRight'
<1>1. FlagsRight'
  BY DEF finish_creation_flow, FlagsRight, FlagTypes, OneFlag, PanelInv, PaneTypes, OneThingShown
<1>2. EditorTypes /\ has_unsaved_changes \in BOOLEAN
  BY DEF PanelInv, PaneTypes, EditorTypes
<1>3. UrlRight'
  BY DEF PanelInv, PaneTypes, finish_creation_flow, urlVars, UrlRight, UrlTypes, UrlNamesSelection
<1>4. CASE CardDetail(shown)
  <2>1. Mount(has_unsaved_changes, FALSE, TRUE)
    BY <1>4 DEF finish_creation_flow
  <2> QED
    BY <1>1, <1>2, <1>3, <2>1, MountRight DEF FlagsRight
<1>5. CASE ~CardDetail(shown)
  <2>1. /\ new_card_prefill' = FALSE /\ creating_new' = FALSE
        /\ UNCHANGED <<shown, has_unsaved_changes, draft, tag_editing, settings_open,
                       shortcuts_open, editing>>
    BY <1>5 DEF finish_creation_flow
  <2>2. EditorTypes'
    BY <1>2, <2>1 DEF EditorTypes
  <2>3. ShownRight' /\ DraftInEditor' /\ (draft' # none => draft' = shown')
    BY <2>1 DEF PanelInv, OneThingShown, ShownRight, DraftInEditor
  <2> QED
    BY <1>1, <1>3, <2>2, <2>3 DEF EditorRight
<1> QED
  BY <1>4, <1>5

LEMMA ClosePaneRight ==
    ASSUME PanelInv, EntityTypes', NEW pane, ClosePane(pane)
    PROVE  FlagsRight' /\ EditorRight' /\ UrlRight'
<1>1. FlagsRight'
  BY DEF ClosePane, FlagsRight, FlagTypes, OneFlag, PanelInv, PaneTypes, OneThingShown
<1>2. EditorTypes /\ has_unsaved_changes \in BOOLEAN /\ new_card_prefill \in BOOLEAN
  BY DEF PanelInv, PaneTypes, EditorTypes
<1>3. UrlRight'
  BY DEF PanelInv, PaneTypes, ClosePane, urlVars, UrlRight, UrlTypes, UrlNamesSelection
<1>4. Mount(has_unsaved_changes, new_card_prefill, TRUE)
  BY DEF ClosePane
<1> QED
  BY <1>1, <1>2, <1>3, <1>4, MountRight DEF FlagsRight

-----------------------------------------------------------------------------
(* The actions, one lemma for each that changes more than the lists of      *)
(* cards and tags                                                          *)

LEMMA PlainRight ==
    ASSUME PanelInv, Plain
    PROVE  EntityTypes' /\ TasksRight'
<1>1. tasks' = Orphaned \ {}
  BY DEF Plain
<1>2. EntityTypes'
  BY DEF PanelInv, PaneTypes, Plain, entities, EntityTypes
<1> QED
  BY <1>1, <1>2, TasksOrphaned DEF PanelInv, PaneTypes

LEMMA SetSelectionRight ==
    ASSUME PanelInv, EntityTypes', TasksRight', NEW target \in PaneIds, set_selection(target)
    PROVE  PanelInv'
<1>1. has_unsaved_changes \in BOOLEAN /\ Select(target, has_unsaved_changes)
  BY DEF set_selection, PanelInv, PaneTypes, EditorTypes
<1> QED
  BY <1>1, SelectRight, PanelPartsNext

LEMMA SelectEntityStep ==
    ASSUME PanelInv, NEW id \in CardIds \cup TagIds, SelectEntity(id)
    PROVE  PanelInv'
  BY PlainRight, SetSelectionRight DEF SelectEntity, PaneIds

LEMMA CloseStep ==
    ASSUME PanelInv, Close \/ Reset
    PROVE  PanelInv'
<1>1. Plain /\ (Select(none, FALSE))
  BY DEF Close, Reset, clear_all_state
<1>2. none \in PaneIds
  BY DEF PaneIds
<1> QED
  BY <1>1, <1>2, PlainRight, SelectRight, PanelPartsNext

LEMMA NewStep ==
    ASSUME PanelInv, NewCard \/ NewTag
    PROVE  PanelInv'
<1>1. new_card_prefill \in BOOLEAN
  BY DEF PanelInv, PaneTypes, EditorTypes
<1>2. Plain /\ (start_new_card(new_card_prefill) \/ start_new_tag)
  BY DEF NewCard, NewTag
<1> QED
  BY <1>1, <1>2, PlainRight, NewCardRight, NewTagRight, PanelPartsNext

LEMMA ForkStep ==
    ASSUME PanelInv, Fork
    PROVE  PanelInv'
<1>1. Plain
  BY DEF Fork
<1>2. CASE start_new_card(TRUE)
  BY <1>1, <1>2, PlainRight, NewCardRight, PanelPartsNext
<1>3. CASE ~start_new_card(TRUE)
  <2>1. new_card_prefill' = TRUE
        /\ UNCHANGED <<paneFlags, has_unsaved_changes, tag_editing, draft, pending_priority, urlVars>>
    BY <1>3 DEF Fork
  <2>2. FlagsRight'
    BY <2>1 DEF FlagsRight, FlagTypes, OneFlag, PanelInv, PaneTypes, OneThingShown, paneFlags
  <2>3. EditorRight'
    BY <2>1 DEF EditorRight, EditorTypes, ShownRight, DraftInEditor, PanelInv, PaneTypes,
                OneThingShown, paneFlags
  <2>4. UrlRight'
    BY <2>1 DEF UrlRight, UrlTypes, UrlNamesSelection, PanelInv, PaneTypes, urlVars, paneFlags
  <2> QED
    BY <1>1, <2>2, <2>3, <2>4, PlainRight, PanelPartsNext
<1> QED
  BY <1>2, <1>3

\* Opening or closing the editor keeps the tasks: the panel of a tag, which
\* may have one waiting, is not built anew.
LEMMA EditStep ==
    ASSUME PanelInv, NEW flag \in BOOLEAN, NEW unsaved \in BOOLEAN,
           flag => selected_card # none, Edit(flag, unsaved), UNCHANGED <<entities, tasks>>
    PROVE  PanelInv'
<1>1. EntityTypes'
  BY DEF PanelInv, PaneTypes, EntityTypes, entities
<1>2. /\ FlagsRight' /\ EditorRight' /\ UrlRight'
      /\ shown' = shown \/ shown.kind \in {"card", "edit card"}
  BY <1>1, EditRight
<1>3. TasksRight'
  BY <1>2 DEF PanelInv, PaneTypes, TaskTypes, SavesAreShown, TasksRight
<1> QED
  BY <1>1, <1>2, <1>3, PanelPartsNext

LEMMA EditSelectedStep ==
    ASSUME PanelInv, EditSelected
    PROVE  PanelInv'
<1>1. has_unsaved_changes \in BOOLEAN
  BY DEF PanelInv, PaneTypes, EditorTypes
<1> QED
  BY <1>1, EditStep DEF EditSelected, open_editor

LEMMA CloseEditorStep ==
    ASSUME PanelInv, close_editor, UNCHANGED <<entities, tasks>>
    PROVE  PanelInv'
  BY EditStep DEF close_editor

LEMMA FinishStep ==
    ASSUME PanelInv, Plain, finish_creation_flow
    PROVE  PanelInv'
  BY PlainRight, FinishRight, PanelPartsNext

LEMMA ClosePaneStep ==
    ASSUME PanelInv, NEW pane, ClosePane(pane)
    PROVE  PanelInv'
<1>1. Plain
  BY DEF ClosePane
<1> QED
  BY <1>1, PlainRight, ClosePaneRight, PanelPartsNext

LEMMA EscapeStep ==
    ASSUME PanelInv, handle_escape
    PROVE  PanelInv'
<1>1. CASE close_editor /\ UNCHANGED <<entities, tasks>>
  BY <1>1, CloseEditorStep
<1>2. CASE Plain /\ finish_creation_flow
  BY <1>2, FinishStep
<1>3. CASE ClosePane("settings") \/ ClosePane("shortcuts")
  BY <1>3, ClosePaneStep
<1>4. CASE Plain /\ set_selection(none)
  <2>1. none \in PaneIds
    BY DEF PaneIds
  <2> QED
    BY <1>4, <2>1, PlainRight, SetSelectionRight
<1> QED
  BY <1>1, <1>2, <1>3, <1>4 DEF handle_escape

LEMMA CancelStep ==
    ASSUME PanelInv, CancelEditor
    PROVE  PanelInv'
<1>1. CASE close_editor /\ UNCHANGED <<entities, tasks>>
  BY <1>1, CloseEditorStep
<1>2. CASE Plain /\ finish_creation_flow
  BY <1>2, FinishStep
<1> QED
  BY <1>1, <1>2 DEF CancelEditor

LEMMA SwitchStep ==
    ASSUME PanelInv, NEW pane \in {"settings", "shortcuts"}, SwitchToPane(pane)
    PROVE  PanelInv'
<1>1. EntityTypes' /\ TasksRight'
  BY PlainRight DEF SwitchToPane
<1>2. FlagsRight'
  BY DEF SwitchToPane, FlagsRight, FlagTypes, OneFlag, PaneIds
<1>3. EditorTypes /\ UrlTypes /\ new_card_prefill \in BOOLEAN
  BY DEF PanelInv, PaneTypes, EditorTypes
<1>4. Mount(FALSE, new_card_prefill, TRUE) /\ sync_query_params
  BY DEF SwitchToPane
<1>5. EditorRight'
  BY <1>1, <1>2, <1>3, <1>4, MountRight
<1>6. UrlRight'
  BY <1>2, <1>3, <1>4, SyncRight DEF FlagsRight
<1> QED
  BY <1>1, <1>2, <1>5, <1>6, PanelPartsNext

LEMMA RestoreStep ==
    ASSUME PanelInv, NEW entity \in visited, restore_from_query_params(entity)
    PROVE  PanelInv'
<1>1. EntityTypes' /\ TasksRight'
  BY PlainRight DEF restore_from_query_params
<1>2. entity \in PaneIds /\ CardDetail(shown) \in BOOLEAN
  BY DEF PanelInv, PaneTypes, UrlTypes, CardDetail
<1>3. FlagsRight'
  BY <1>2 DEF restore_from_query_params, FlagsRight, FlagTypes, OneFlag, PanelInv, PaneTypes,
              OneThingShown
<1>4. EditorTypes /\ has_unsaved_changes \in BOOLEAN /\ new_card_prefill \in BOOLEAN
  BY DEF PanelInv, PaneTypes, EditorTypes
<1>5. Mount(has_unsaved_changes, new_card_prefill, TRUE)
  BY DEF restore_from_query_params
<1>6. EditorRight'
  BY <1>1, <1>3, <1>4, <1>5, MountRight
<1>7. UrlRight'
  BY <1>2 DEF restore_from_query_params, PanelInv, PaneTypes, UrlRight, UrlTypes, UrlNamesSelection
<1> QED
  BY <1>1, <1>3, <1>6, <1>7, PanelPartsNext

\* What leaves the flags, the mounted view and the URL alone.
LEMMA FlagsKept ==
    ASSUME PanelInv, UNCHANGED <<paneFlags, urlVars>>, pending_priority' \in BOOLEAN
    PROVE  FlagsRight' /\ UrlRight'
  BY DEF FlagsRight, FlagTypes, OneFlag, UrlRight, UrlTypes, UrlNamesSelection, PanelInv,
         PaneTypes, OneThingShown, paneFlags, urlVars

\* An editor that stays mounted, with or without a draft in it.
LEMMA EditorKept ==
    ASSUME PanelInv, UNCHANGED paneFlags,
           new_card_prefill' \in BOOLEAN, has_unsaved_changes' \in BOOLEAN, tag_editing' \in BOOLEAN,
           \/ draft' = none
           \/ draft' = draft /\ (tag_editing => tag_editing')
           \/ /\ draft' = shown
              /\ \/ shown.kind \in {"new card", "edit card", "new tag"}
                 \/ shown.kind = "tag" /\ tag_editing'
    PROVE  EditorRight'
<1>1. shown' = shown /\ shown \in PaneViews /\ draft \in PaneViews \cup {none}
  BY DEF PanelInv, PaneTypes, EditorTypes, paneFlags
<1>2. EditorTypes'
  BY <1>1 DEF EditorTypes
<1>3. ShownRight'
  BY DEF PanelInv, ShownRight, paneFlags
<1>4. DraftInEditor' /\ (draft' # none => draft' = shown')
  BY <1>1 DEF PanelInv, OneThingShown, DraftInEditor
<1> QED
  BY <1>2, <1>3, <1>4 DEF EditorRight

LEMMA TasksKept ==
    ASSUME PanelInv, UNCHANGED paneFlags, tasks' \in SUBSET tasks
    PROVE  TasksRight'
  BY DEF PanelInv, PaneTypes, TasksRight, TaskTypes, SavesAreShown, paneFlags

LEMMA EntitiesKept ==
    ASSUME PanelInv, UNCHANGED entities
    PROVE  EntityTypes'
  BY DEF PanelInv, PaneTypes, EntityTypes, entities

LEMMA PanelBooleans ==
    ASSUME PanelInv
    PROVE  /\ new_card_prefill \in BOOLEAN /\ has_unsaved_changes \in BOOLEAN
           /\ tag_editing \in BOOLEAN /\ pending_priority \in BOOLEAN
  BY DEF PanelInv, PaneTypes, EditorTypes, FlagTypes

LEMMA MoveStep ==
    ASSUME PanelInv, MoveCard \/ CtrlS
    PROVE  PanelInv'
<1>1. /\ UNCHANGED <<entities, paneFlags, editorVars, urlVars, tasks>>
      /\ pending_priority' \in BOOLEAN
  BY PanelBooleans DEF MoveCard, CtrlS
<1>2. EditorRight'
  BY <1>1, PanelBooleans, EditorKept DEF editorVars
<1> QED
  BY <1>1, <1>2, FlagsKept, TasksKept, EntitiesKept, PanelPartsNext

LEMMA TypeStep ==
    ASSUME PanelInv, Type
    PROVE  PanelInv'
<1>1. /\ UNCHANGED <<entities, paneFlags, new_card_prefill, tag_editing, pending_priority, urlVars, tasks>>
      /\ draft' = shown /\ has_unsaved_changes' = TRUE
      /\ \/ shown.kind \in {"new card", "edit card", "new tag"}
         \/ shown.kind = "tag" /\ tag_editing
  BY DEF Type, CardEditor
<1>2. EditorRight'
  BY <1>1, PanelBooleans, EditorKept
<1>3. FlagsRight' /\ UrlRight'
  BY <1>1, PanelBooleans, FlagsKept
<1> QED
  BY <1>1, <1>2, <1>3, TasksKept, EntitiesKept, PanelPartsNext

LEMMA SaveNewStep ==
    ASSUME PanelInv, NEW id \in CardIds, NEW stay \in BOOLEAN, NEW waits \in BOOLEAN,
           SaveNew(id, stay, waits)
    PROVE  PanelInv'
<1>1. EntityTypes'
  BY DEF SaveNew, PanelInv, PaneTypes, EntityTypes
<1>2. id \in PaneIds /\ id # none
  BY NoneIsNoId DEF PaneIds
<1>3. FlagsRight'
  BY <1>2 DEF SaveNew, FlagsRight, FlagTypes, OneFlag
<1>4. EditorTypes /\ UrlTypes
  BY DEF PanelInv, PaneTypes
<1>5. Mount(FALSE, FALSE, TRUE) /\ sync_query_params
  BY DEF SaveNew
<1>6. EditorRight'
  BY <1>1, <1>3, <1>4, <1>5, MountRight
<1>7. UrlRight'
  BY <1>3, <1>4, <1>5, SyncRight DEF FlagsRight
<1> DEFINE task == Task(IF stay THEN "open editor" ELSE "finish", id)
<1>8. task \in PaneTasks /\ task.kind \in {"open editor", "finish"}
  BY <1>2 DEF Task, PaneTasks
<1>9. tasks' = Orphaned \/ tasks' = Orphaned \cup {task}
  BY DEF SaveNew
<1> HIDE DEF task
<1>10. TasksRight'
  BY <1>8, <1>9, OrphanedRight DEF PanelInv, PaneTypes, TasksRight, TaskTypes, SavesAreShown
<1> QED
  BY <1>1, <1>3, <1>6, <1>7, <1>10, PanelPartsNext

LEMMA SaveEditedStep ==
    ASSUME PanelInv, NEW stay \in BOOLEAN, SaveEdited(stay)
    PROVE  PanelInv'
<1>1. CASE ~stay
  BY <1>1, EditStep DEF SaveEdited
<1>2. CASE stay
  <2>1. /\ draft' = none /\ has_unsaved_changes' = FALSE
        /\ UNCHANGED <<entities, tasks, paneFlags, new_card_prefill, tag_editing, pending_priority,
                       urlVars>>
    BY <1>2 DEF SaveEdited
  <2>2. EditorRight'
    BY <2>1, PanelBooleans, EditorKept
  <2>3. FlagsRight' /\ UrlRight'
    BY <2>1, PanelBooleans, FlagsKept
  <2> QED
    BY <2>1, <2>2, <2>3, TasksKept, EntitiesKept, PanelPartsNext
<1> QED
  BY <1>1, <1>2

LEMMA DoSaveStep ==
    ASSUME PanelInv, NEW stay \in BOOLEAN, do_save(stay)
    PROVE  PanelInv'
  BY SaveNewStep, SaveEditedStep DEF do_save

LEMMA SaveRequestedStep ==
    ASSUME PanelInv, SaveRequested
    PROVE  PanelInv'
<1>1. CASE do_save(TRUE)
  BY <1>1, DoSaveStep
<1>2. CASE ~do_save(TRUE)
  <2>1. UNCHANGED <<entities, paneFlags, editorVars, pending_priority, urlVars, tasks>>
    BY <1>2 DEF SaveRequested
  <2>2. EditorRight'
    BY <2>1, PanelBooleans, EditorKept DEF editorVars
  <2>3. FlagsRight' /\ UrlRight'
    BY <2>1, PanelBooleans, FlagsKept
  <2> QED
    BY <2>1, <2>2, <2>3, TasksKept, EntitiesKept, PanelPartsNext
<1> QED
  BY <1>1, <1>2

LEMMA TagEditStep ==
    ASSUME PanelInv, StartTagEdit \/ CancelTagEdit
    PROVE  PanelInv'
<1>1. /\ UNCHANGED <<entities, paneFlags, new_card_prefill, pending_priority, urlVars, tasks>>
      /\ draft' = none /\ has_unsaved_changes' = FALSE /\ tag_editing' \in BOOLEAN
  BY DEF StartTagEdit, CancelTagEdit
<1>2. EditorRight'
  BY <1>1, PanelBooleans, EditorKept
<1>3. FlagsRight' /\ UrlRight'
  BY <1>1, PanelBooleans, FlagsKept
<1> QED
  BY <1>1, <1>2, <1>3, TasksKept, EntitiesKept, PanelPartsNext

\* A request to save a tag is made from the panel of that tag.
LEMMA AskStep ==
    ASSUME PanelInv, Ask
    PROVE  PanelInv'
<1>1. UNCHANGED <<entities, paneFlags, editorVars, pending_priority, urlVars>>
  BY DEF Ask
<1>2. EditorRight'
  BY <1>1, PanelBooleans, EditorKept DEF editorVars
<1>3. FlagsRight' /\ UrlRight'
  BY <1>1, PanelBooleans, FlagsKept
<1>4. shown.id \in PaneIds
  BY DEF PanelInv, PaneTypes, EditorTypes, PaneViews
<1>5. PICK kind \in {"create tag", "save tag", "delete tag", "delete card"}, id \in PaneIds :
          /\ tasks' = tasks \cup {Task(kind, id)}
          /\ kind = "create tag" => id \in TagIds
          /\ kind = "save tag" => shown.kind = "tag"
  BY <1>4 DEF Ask, Spawn, PaneIds
<1>6. /\ Task(kind, id) \in PaneTasks
      /\ Task(kind, id).kind = kind /\ Task(kind, id).id = id
  BY DEF Task, PaneTasks
<1>7. TasksRight'
  BY <1>1, <1>5, <1>6 DEF PanelInv, PaneTypes, TasksRight, TaskTypes, SavesAreShown, paneFlags
<1> QED
  BY <1>1, <1>2, <1>3, <1>7, EntitiesKept, PanelPartsNext

-----------------------------------------------------------------------------
(* Late answers *)

LEMMA TagCreatedStep ==
    ASSUME PanelInv, NEW task \in tasks, TagCreated(task)
    PROVE  PanelInv'
<1>1. task.id \in TagIds
  BY DEF TagCreated, PanelInv, PaneTypes, TaskTypes
<1>2. EntityTypes' /\ task.id \in PaneIds
  BY <1>1 DEF TagCreated, PanelInv, PaneTypes, EntityTypes, PaneIds
<1>3. Select(task.id, FALSE) /\ tasks' = Answered(task)
  BY DEF TagCreated
<1>4. TasksRight'
  BY <1>3, AnsweredRight DEF PanelInv, PaneTypes
<1> QED
  BY <1>2, <1>3, <1>4, SelectRight, PanelPartsNext

LEMMA TagSavedStep ==
    ASSUME PanelInv, NEW task \in tasks, TagSaved(task)
    PROVE  PanelInv'
<1>1. /\ UNCHANGED <<entities, paneFlags, new_card_prefill, pending_priority, urlVars>>
      /\ has_unsaved_changes' = FALSE /\ tasks' \in SUBSET tasks
      /\ \/ tag_editing' = FALSE /\ draft' = none
         \/ tag_editing' = tag_editing /\ draft' = draft
  BY DEF TagSaved
<1>2. EditorRight'
  <2>1. /\ tag_editing' \in BOOLEAN
        /\ draft' = none \/ (draft' = draft /\ (tag_editing => tag_editing'))
    <3>1. CASE tag_editing' = FALSE /\ draft' = none
      BY <3>1
    <3>2. CASE tag_editing' = tag_editing /\ draft' = draft
      <4>1. tag_editing' \in BOOLEAN
        BY <3>2, PanelBooleans
      <4>2. tag_editing => tag_editing'
        BY ONLY <3>2, Zenon
      <4> QED
        BY <3>2, <4>1, <4>2
    <3> QED
      BY <1>1, <3>1, <3>2
  <2>2. new_card_prefill' \in BOOLEAN /\ has_unsaved_changes' \in BOOLEAN
    BY <1>1, PanelBooleans
  <2> QED
    BY <1>1, <2>1, <2>2, EditorKept
<1>3. FlagsRight' /\ UrlRight'
  BY <1>1, PanelBooleans, FlagsKept
<1> QED
  BY <1>1, <1>2, <1>3, TasksKept, EntitiesKept, PanelPartsNext

\* The form that a failed save opens again is that of the tag that is shown.
LEMMA TagNotSavedStep ==
    ASSUME PanelInv, NEW task \in tasks, TagNotSaved(task)
    PROVE  PanelInv'
<1>1. task.live \in BOOLEAN /\ (task.live => shown.kind = "tag")
  BY DEF TagNotSaved, PanelInv, PaneTypes, TaskTypes, PaneTasks, SavesAreShown
<1>2. /\ UNCHANGED <<entities, paneFlags, new_card_prefill, pending_priority, urlVars>>
      /\ tasks' \in SUBSET tasks
  BY DEF TagNotSaved
<1>3. CASE task.live /\ ~tag_editing /\ task.draft
  <2>1. tag_editing' = TRUE /\ draft' = shown /\ has_unsaved_changes' = TRUE /\ shown.kind = "tag"
    BY <1>1, <1>3 DEF TagNotSaved
  <2>2. EditorRight'
    BY <1>2, <2>1, PanelBooleans, EditorKept
  <2>3. FlagsRight' /\ UrlRight'
    BY <1>2, PanelBooleans, FlagsKept
  <2> QED
    BY <1>2, <2>2, <2>3, TasksKept, EntitiesKept, PanelPartsNext
<1>4. CASE ~(task.live /\ ~tag_editing /\ task.draft)
  <2>1. /\ tag_editing' = (tag_editing \/ task.live)
        /\ draft' = draft /\ has_unsaved_changes' = has_unsaved_changes
    BY <1>4 DEF TagNotSaved
  <2>2. tag_editing' \in BOOLEAN /\ (tag_editing => tag_editing')
    BY <1>1, <2>1, PanelBooleans
  <2>3. EditorRight'
    <3>1. new_card_prefill' \in BOOLEAN /\ has_unsaved_changes' \in BOOLEAN
      BY <1>2, <2>1, PanelBooleans
    <3> QED
      BY <1>2, <2>1, <2>2, <3>1, EditorKept
  <2>4. FlagsRight' /\ UrlRight'
    BY <1>2, PanelBooleans, FlagsKept
  <2> QED
    BY <1>2, <2>3, <2>4, TasksKept, EntitiesKept, PanelPartsNext
<1> QED
  BY <1>3, <1>4

LEMMA DeletedStep ==
    ASSUME PanelInv, NEW task \in tasks, Deleted(task)
    PROVE  PanelInv'
<1>1. EntityTypes'
  BY DEF Deleted, PanelInv, PaneTypes, EntityTypes
<1>2. CASE set_selection(none) /\ tasks' = Answered(task)
  <2>1. TasksRight' /\ none \in PaneIds
    BY <1>2, AnsweredRight DEF PanelInv, PaneTypes, PaneIds
  <2> QED
    BY <1>1, <1>2, <2>1, SetSelectionRight
<1>3. CASE UNCHANGED <<paneFlags, editorVars, pending_priority, urlVars>> /\ tasks' = tasks \ {task}
  <2>1. EditorRight'
    BY <1>3, PanelBooleans, EditorKept DEF editorVars
  <2>2. FlagsRight' /\ UrlRight'
    BY <1>3, PanelBooleans, FlagsKept
  <2>3. tasks' \in SUBSET tasks
    BY <1>3
  <2> QED
    BY <1>1, <1>3, <2>1, <2>2, <2>3, TasksKept, PanelPartsNext
<1> QED
  BY <1>2, <1>3 DEF Deleted

LEMMA FailedStep ==
    ASSUME PanelInv, NEW task \in tasks, Failed(task)
    PROVE  PanelInv'
<1>1. /\ UNCHANGED <<entities, paneFlags, editorVars, pending_priority, urlVars>>
      /\ tasks' \in SUBSET tasks
  BY DEF Failed
<1>2. EditorRight'
  BY <1>1, PanelBooleans, EditorKept DEF editorVars
<1>3. FlagsRight' /\ UrlRight'
  BY <1>1, PanelBooleans, FlagsKept
<1> QED
  BY <1>1, <1>2, <1>3, TasksKept, EntitiesKept, PanelPartsNext

LEMMA NewCardPushedStep ==
    ASSUME PanelInv, NEW task \in tasks, NewCardPushed(task)
    PROVE  PanelInv'
<1>1. EntityTypes' /\ TasksRight'
  BY EntitiesKept, AnsweredRight DEF NewCardPushed, PanelInv, PaneTypes
<1>2. CASE open_editor
  <2>1. FlagsRight' /\ EditorRight' /\ UrlRight'
    BY <1>1, <1>2, EditRight, PanelBooleans DEF open_editor
  <2> QED
    BY <1>1, <2>1, PanelPartsNext
<1>3. CASE finish_creation_flow
  BY <1>1, <1>3, FinishRight, PanelPartsNext
<1>4. CASE UNCHANGED <<paneFlags, editorVars, pending_priority, urlVars>>
  <2>1. EditorRight'
    BY <1>4, PanelBooleans, EditorKept DEF editorVars
  <2>2. FlagsRight' /\ UrlRight'
    BY <1>4, PanelBooleans, FlagsKept
  <2> QED
    BY <1>1, <2>1, <2>2, PanelPartsNext
<1> QED
  BY <1>2, <1>3, <1>4 DEF NewCardPushed

-----------------------------------------------------------------------------

LEMMA PanelInit ==
    ASSUME PanesInit
    PROVE  PanelInv
<1>1. card_ids \in SUBSET CardIds /\ tag_ids \in SUBSET TagIds /\ selected_card \in PaneIds
  BY DEF PanesInit, PaneIds
<1>2. FlagTypes /\ EntityTypes /\ OneFlag
  BY <1>1 DEF PanesInit, FlagTypes, EntityTypes, OneFlag
<1>3. shown \in PaneViews
  BY <1>1 DEF PanesInit, Rendered, PaneViews, PaneIds, View, detail_open
<1>4. ShownRight
  BY DEF PanesInit, Rendered, View, detail_open, ShownRight
<1>5. EditorRight
  BY <1>3, <1>4 DEF PanesInit, EditorRight, EditorTypes, DraftInEditor
<1>6. TasksRight
  BY DEF PanesInit, TasksRight, TaskTypes, SavesAreShown
<1>7. UrlRight
  BY <1>1 DEF PanesInit, UrlRight, UrlTypes, UrlNamesSelection
<1> QED
  BY <1>2, <1>5, <1>6, <1>7, PanelParts DEF FlagsRight

LEMMA PanelStutter ==
    ASSUME PanelInv, UNCHANGED paneVars
    PROVE  PanelInv'
<1>1. UNCHANGED <<entities, paneFlags, editorVars, urlVars, tasks, pending_priority>>
  BY DEF paneVars
<1>2. EditorRight'
  BY <1>1, PanelBooleans, EditorKept DEF editorVars
<1> QED
  BY <1>1, <1>2, PanelBooleans, FlagsKept, TasksKept, EntitiesKept, PanelPartsNext

LEMMA AnswerStep ==
    ASSUME PanelInv, NEW task \in tasks,
           TagCreated(task) \/ TagSaved(task) \/ TagNotSaved(task)
           \/ Deleted(task) \/ Failed(task) \/ NewCardPushed(task)
    PROVE  PanelInv'
  BY TagCreatedStep, TagSavedStep, TagNotSavedStep, DeletedStep, FailedStep, NewCardPushedStep

LEMMA PanelStep ==
    ASSUME PanelInv, [PanesNext]_paneVars
    PROVE  PanelInv'
<1>1. CASE \E id \in CardIds \cup TagIds : SelectEntity(id)
  BY <1>1, SelectEntityStep
<1>2. CASE Close \/ Reset \/ NewCard \/ NewTag \/ Fork
  BY <1>2, CloseStep, NewStep, ForkStep
<1>3. CASE EditSelected \/ handle_escape \/ CancelEditor \/ MoveCard \/ CtrlS
  BY <1>3, EditSelectedStep, EscapeStep, CancelStep, MoveStep
<1>4. CASE \E pane \in {"settings", "shortcuts"} : SwitchToPane(pane) \/ ClosePane(pane)
  BY <1>4, SwitchStep, ClosePaneStep
<1>5. CASE \E entity \in visited : restore_from_query_params(entity)
  BY <1>5, RestoreStep
<1>6. CASE Type \/ SaveRequested \/ StartTagEdit \/ CancelTagEdit \/ Ask
  BY <1>6, TypeStep, SaveRequestedStep, TagEditStep, AskStep
<1>7. CASE \E stay \in BOOLEAN : Save(stay)
  BY <1>7, DoSaveStep DEF Save
<1>8. CASE \E task \in tasks : TagCreated(task) \/ TagSaved(task) \/ TagNotSaved(task)
                               \/ Deleted(task) \/ Failed(task) \/ NewCardPushed(task)
  BY <1>8, AnswerStep
<1>9. CASE UNCHANGED paneVars
  BY <1>9, PanelStutter
<1> QED
  BY <1>1, <1>2, <1>3, <1>4, <1>5, <1>6, <1>7, <1>8, <1>9 DEF PanesNext, ByUser

LEMMA PanelAlwaysRight == PanesSpec => []PanelInv
<1>1. PanesInit => PanelInv
  BY PanelInit
<1>2. PanelInv /\ [PanesNext]_paneVars => PanelInv'
  BY PanelStep
<1> QED
  BY <1>1, <1>2, PTL DEF PanesSpec

-----------------------------------------------------------------------------
(* What becomes of drafts and of bursts, step by step *)

DraftLeavesKnowingly ==
    draft # none /\ has_unsaved_changes /\ draft' # draft
        => excuse' \in {"asked", "saved", "back", "late answer"}
ForkOpensEditor ==
    Fork /\ creating_new' => draft' = View("new card", none) /\ has_unsaved_changes'
BurstEnds ==
    CardDetail(shown) /\ selected_card' # selected_card => ~pending_priority'

LEMMA WhoeverAsks ==
    ASSUME excuse' = Asked
    PROVE  DraftLeavesKnowingly
  BY DEF Asked, DraftLeavesKnowingly

LEMMA WhoeverKeeps ==
    ASSUME draft' = draft \/ draft = none
           \/ excuse' \in {"asked", "saved", "back", "late answer"}
    PROVE  DraftLeavesKnowingly
  BY DEF DraftLeavesKnowingly

LEMMA DraftIsShown ==
    ASSUME PanelInv, draft # none
    PROVE  /\ draft = shown
           /\ shown.kind \notin {"card", "pane"}
           /\ shown.kind = "edit card" => editing
           /\ shown.kind = "tag" => tag_editing
  BY DEF PanelInv, OneThingShown, DraftInEditor, ShownRight

\* A pane holds no editor.
LEMMA ClosePaneKeeps ==
    ASSUME PanelInv, NEW pane, ClosePane(pane)
    PROVE  DraftLeavesKnowingly
<1>1. settings_open \/ shortcuts_open
  BY DEF ClosePane
<1>2. shown.kind = "pane"
  BY <1>1 DEF PanelInv, ShownRight
<1> QED
  BY <1>2, DraftIsShown, WhoeverKeeps

\* The editor opens over a card that is only read, or under a pane or a tag,
\* which it does not disturb.
LEMMA EditSelectedKeeps ==
    ASSUME PanelInv, EditSelected
    PROVE  DraftLeavesKnowingly
<1>1. ~editing /\ Edit(TRUE, has_unsaved_changes)
  BY DEF EditSelected, open_editor
<1>2. CASE shown.kind \in {"card", "edit card"}
  BY <1>1, <1>2, DraftIsShown, WhoeverKeeps
<1>3. CASE shown.kind \notin {"card", "edit card"}
  <2>1. draft' = IF has_unsaved_changes /\ ~has_unsaved_changes THEN none ELSE draft
    BY <1>1, <1>3 DEF Edit
  <2> QED
    BY <2>1, WhoeverKeeps
<1> QED
  BY <1>2, <1>3

LEMMA EditorKeeps ==
    ASSUME PanelInv,
           Type \/ MoveCard \/ CtrlS \/ StartTagEdit \/ CancelTagEdit \/ Ask \/ SaveRequested
           \/ \E stay \in BOOLEAN : Save(stay)
    PROVE  DraftLeavesKnowingly
<1>1. CASE Type
  BY <1>1, DraftIsShown, WhoeverKeeps DEF Type
<1>2. CASE MoveCard \/ CtrlS \/ Ask
  BY <1>2, WhoeverKeeps DEF MoveCard, CtrlS, Ask, editorVars
<1>3. CASE StartTagEdit
  BY <1>3, DraftIsShown, WhoeverKeeps DEF StartTagEdit
<1>4. CASE CancelTagEdit
  BY <1>4, WhoeverAsks DEF CancelTagEdit
<1>5. ASSUME NEW stay \in BOOLEAN, do_save(stay) PROVE DraftLeavesKnowingly
  BY <1>5, WhoeverKeeps DEF do_save, SaveNew, SaveEdited
<1>6. CASE SaveRequested
  BY <1>5, <1>6, WhoeverKeeps DEF SaveRequested, editorVars
<1>7. CASE \E stay \in BOOLEAN : Save(stay)
  BY <1>5, <1>7 DEF Save
<1> QED
  BY <1>1, <1>2, <1>3, <1>4, <1>6, <1>7

LEMMA AnswerKeeps ==
    ASSUME NEW task,
           TagCreated(task) \/ TagSaved(task) \/ TagNotSaved(task)
           \/ Deleted(task) \/ Failed(task) \/ NewCardPushed(task)
    PROVE  DraftLeavesKnowingly
<1>1. CASE Deleted(task)
  BY <1>1, WhoeverAsks, WhoeverKeeps DEF Deleted, set_selection, editorVars
<1>2. CASE ~Deleted(task)
  BY <1>2, WhoeverKeeps DEF TagCreated, TagSaved, TagNotSaved, Failed, NewCardPushed
<1> QED
  BY <1>1, <1>2

LEMMA PanelKeeps ==
    ASSUME PanelInv, NEW id, NEW pane,
           SelectEntity(id) \/ Close \/ Reset \/ NewCard \/ NewTag \/ Fork \/ CancelEditor
           \/ handle_escape \/ SwitchToPane(pane) \/ restore_from_query_params(id)
    PROVE  DraftLeavesKnowingly
<1>1. CASE SelectEntity(id) \/ Close \/ Reset \/ NewCard \/ NewTag \/ SwitchToPane(pane)
  BY <1>1, WhoeverAsks DEF SelectEntity, set_selection, Close, Reset, clear_all_state, NewCard,
                           start_new_card, NewTag, start_new_tag, SwitchToPane
<1>2. CASE Fork
  BY <1>2, WhoeverAsks, WhoeverKeeps DEF Fork, start_new_card
<1>3. CASE CancelEditor
  BY <1>3, WhoeverAsks DEF CancelEditor, close_editor
<1>4. CASE handle_escape
  BY <1>4, WhoeverAsks, ClosePaneKeeps DEF handle_escape, close_editor, set_selection
<1>5. CASE restore_from_query_params(id)
  BY <1>5, WhoeverKeeps DEF restore_from_query_params
<1> QED
  BY <1>1, <1>2, <1>3, <1>4, <1>5

LEMMA DraftStep ==
    ASSUME PanelInv, PanesNext
    PROVE  DraftLeavesKnowingly
<1>1. CASE \E id \in CardIds \cup TagIds : SelectEntity(id)
  BY <1>1, PanelKeeps
<1>2. CASE Close \/ Reset \/ NewCard \/ NewTag \/ Fork \/ CancelEditor \/ handle_escape
  BY <1>2, PanelKeeps
<1>3. CASE \E pane \in {"settings", "shortcuts"} : SwitchToPane(pane) \/ ClosePane(pane)
  BY <1>3, PanelKeeps, ClosePaneKeeps
<1>4. CASE \E entity \in visited : restore_from_query_params(entity)
  BY <1>4, PanelKeeps
<1>5. CASE EditSelected
  BY <1>5, EditSelectedKeeps
<1>6. CASE Type \/ MoveCard \/ CtrlS \/ StartTagEdit \/ CancelTagEdit \/ Ask \/ SaveRequested
           \/ \E stay \in BOOLEAN : Save(stay)
  BY <1>6, EditorKeeps
<1>7. CASE \E task \in tasks : TagCreated(task) \/ TagSaved(task) \/ TagNotSaved(task)
                               \/ Deleted(task) \/ Failed(task) \/ NewCardPushed(task)
  BY <1>7, AnswerKeeps
<1> QED
  BY <1>1, <1>2, <1>3, <1>4, <1>5, <1>6, <1>7 DEF PanesNext, ByUser

\* Over a version nothing else is open, so the new editor is mounted once and
\* finds its prefill.
LEMMA ForkStepOpens ==
    ASSUME PanelInv, Fork, creating_new'
    PROVE  draft' = View("new card", none) /\ has_unsaved_changes'
<1>1. shown.kind = "card" /\ ~settings_open /\ ~shortcuts_open /\ ~creating_new
  BY DEF Fork, PanelInv, ShownRight
<1>2. start_new_card(TRUE)
  BY <1>1 DEF Fork, paneFlags
<1>3. Rendered' = View("new card", none)
  BY <1>2 DEF start_new_card, Rendered, detail_open
<1>4. Mount(has_unsaved_changes, TRUE, FALSE)
  <2>1. ~(CardDetail(shown) /\ (set_if_changed(settings_open) \/ set_if_changed(shortcuts_open)))
    BY <1>1 DEF set_if_changed
  <2> QED
    BY <1>2, <2>1 DEF start_new_card, Mount
<1>5. ~CardEditor(shown) /\ View("new card", none).kind = "new card"
  BY <1>1 DEF CardEditor, View
<1> QED
  BY <1>3, <1>4, <1>5 DEF Mount

LEMMA BurstStep ==
    ASSUME PanelInv, PanesNext
    PROVE  BurstEnds
<1>1. CASE \/ \E id \in CardIds \cup TagIds : SelectEntity(id)
           \/ Close \/ Reset \/ NewCard \/ NewTag \/ Fork
  BY <1>1 DEF SelectEntity, set_selection, Select, Close, Reset, clear_all_state, NewCard, NewTag,
              start_new_card, start_new_tag, Fork, paneFlags, BurstEnds
<1>2. CASE EditSelected \/ handle_escape \/ CancelEditor
  BY <1>2 DEF EditSelected, open_editor, Edit, handle_escape, close_editor, ClosePane,
              set_selection, Select, CancelEditor, finish_creation_flow, BurstEnds
<1>3. CASE \E pane \in {"settings", "shortcuts"} : SwitchToPane(pane) \/ ClosePane(pane)
  BY <1>3 DEF SwitchToPane, ClosePane, BurstEnds
<1>4. CASE \E entity \in visited : restore_from_query_params(entity)
  BY <1>4 DEF restore_from_query_params, BurstEnds
<1>5. CASE MoveCard \/ Type \/ CtrlS \/ StartTagEdit \/ CancelTagEdit \/ Ask
  BY <1>5 DEF MoveCard, Type, CtrlS, StartTagEdit, CancelTagEdit, Ask, paneFlags, BurstEnds
<1>6. ASSUME NEW stay, do_save(stay) PROVE BurstEnds
  BY <1>6 DEF do_save, SaveNew, SaveEdited, Edit, paneFlags, BurstEnds
<1>7. CASE SaveRequested \/ \E stay \in BOOLEAN : Save(stay)
  BY <1>6, <1>7 DEF SaveRequested, Save, paneFlags, BurstEnds
<1>8. CASE \E task \in tasks : TagCreated(task) \/ TagSaved(task) \/ TagNotSaved(task)
                               \/ Deleted(task) \/ Failed(task) \/ NewCardPushed(task)
  BY <1>8 DEF TagCreated, TagSaved, TagNotSaved, Deleted, Failed, NewCardPushed, set_selection,
              Select, open_editor, Edit, finish_creation_flow, paneFlags, BurstEnds
<1> QED
  BY <1>1, <1>2, <1>3, <1>4, <1>5, <1>7, <1>8 DEF PanesNext, ByUser

-----------------------------------------------------------------------------
(* The panel, for any cards, tags and numbers of requests *)

\* The panel never has two things to show, and a draft is in the editor that
\* is mounted (app.rs, home.rs, keyboard.rs).
THEOREM PanelShowsOneThing == PanesSpec => []OneThingShown
<1>1. PanelInv => OneThingShown
  BY DEF PanelInv
<1> QED
  BY <1>1, PanelAlwaysRight, PTL

\* Every way to select, to close and to go back writes the URL, or comes from
\* it (store.rs, query_params.rs).
THEOREM UrlAlwaysNamesSelection == PanesSpec => []UrlNamesSelection
<1>1. PanelInv => UrlNamesSelection
  BY DEF PanelInv
<1> QED
  BY <1>1, PanelAlwaysRight, PTL

\* No step drops a draft that is known to be unsaved without a reason the
\* user has, a fork opens its editor with the prefill, and no burst of moves
\* outlives the panel of its card (card_editor.rs, tag_detail.rs,
\* card_detail.rs).
THEOREM DraftsAlwaysLeaveKnowingly == PanesSpec => DraftsLeaveKnowingly
<1> DEFINE Known == DraftLeavesKnowingly /\ ForkOpensEditor /\ BurstEnds
<1>1. ASSUME PanelInv, [PanesNext]_paneVars
      PROVE  [Known]_paneVars
  BY <1>1, DraftStep, ForkStepOpens, BurstStep DEF ForkOpensEditor
<1>2. PanesSpec => [][Known]_paneVars
  <2>1. PanelInv /\ [PanesNext]_paneVars => [Known]_paneVars
    BY <1>1
  <2> HIDE DEF Known
  <2> QED
    BY <2>1, PanelAlwaysRight, PTL DEF PanesSpec
<1>3. [][Known]_paneVars => DraftsLeaveKnowingly
  <2>1. [Known]_paneVars =>
          [/\ draft # none /\ has_unsaved_changes /\ draft' # draft
                => excuse' \in {"asked", "saved", "back", "late answer"}
           /\ Fork /\ creating_new' => draft' = View("new card", none) /\ has_unsaved_changes'
           /\ CardDetail(shown) /\ selected_card' # selected_card => ~pending_priority']_paneVars
    BY DEF DraftLeavesKnowingly, ForkOpensEditor, BurstEnds
  <2> HIDE DEF Known
  <2> QED
    BY <2>1, PTL DEF DraftsLeaveKnowingly
<1> QED
  BY <1>2, <1>3


-----------------------------------------------------------------------------
(* Types *)

Versions == Seq(Int)
Lists    == [Ids -> Versions]
DbFile   == [cards: Lists, root: Seq(Lists), build: Nat]
Calls    == [task: Int, file: {"db"}, content: DbFile]
            \cup [task: Int, file: {"queue"}, content: Lists]
            \cup [task: Int, file: {"histories"}, content: BOOLEAN]
SaveSteps == [pc: {"none", "queueing", "saving", "clearing", "ended", "cut"}]
             \cup [pc: {"pushing"}, id: Ids, version: Versions \ {Absent}]
BootSteps == {"start", "histories", "list", "queue", "wiping", "done"}
SyncSteps == {"down", "connected", "synced", "changed", "resynced", "mismatch", "full",
              "pushed", "unqueued", "flushed", "live"}

TypeInv ==
    /\ server \in Seq(Lists) \ {<< >>}
    /\ cards \in Lists /\ root \in Seq(Lists) /\ offline_queue \in Lists /\ histories \in BOOLEAN
    /\ client \in BOOLEAN /\ alive \in BOOLEAN
    /\ boot \in BootSteps /\ sync \in SyncSteps /\ save \in [1 .. MaxEdits -> SaveSteps]
    /\ prefetching \in BOOLEAN
    /\ disk \in [db: DbFile, queue: Lists, histories: BOOLEAN]
    /\ writes \in Seq(Calls) /\ stamp \in Nat /\ build \in Nat
    /\ edits \in Nat /\ events \in Nat /\ latest \in [Ids -> Nat]

-----------------------------------------------------------------------------
(* What a session starts with *)

DbOK == disk.db.build = build \/ disk.db = NoFile

\* A call of a task that writes a file is under way.
Writing(task, file) == \E i \in DOMAIN writes : writes[i].task = task /\ writes[i].file = file

\* Lists are written under the build they come from, or wiped.
CallOK(c) ==
    /\ c.file = "db" =>
          \/ c.content.build = build
          \/ c.content = NoFile /\ boot \in {"wiping", "done"}
    /\ c.file = "histories" /\ boot # "done" => c.content = FALSE

CallsOK == \A i \in DOMAIN writes : CallOK(writes[i])

\* What the steps of the start have found.
BootOK ==
    /\ boot # "done" => ~prefetching /\ sync = "down"
    /\ boot \notin {"queue", "done"} => root = NoRoot
    /\ boot = "queue" => root # NoRoot /\ disk.db.build = build
    /\ boot \in {"histories", "list", "queue"} => stamp = build
    /\ boot \in {"start", "wiping"} => ~histories
    /\ boot = "wiping" => (disk.histories => Writing(start, "histories"))

\* The connection has asked for the list to be written.
ListSteps == {"connected", "synced", "changed", "resynced", "flushed"}

\* The stamp is set when the list is written.
StampOK ==
    /\ stamp <= build /\ build > 0
    /\ stamp = build => DbOK
    /\ sync \in ListSteps => DbOK \/ Writing(conn, "db")
    /\ \A e \in DOMAIN save : At(e, {"saving"}) => DbOK \/ Writing(e, "db")

StartInv == TypeInv /\ CallsOK /\ BootOK /\ StampOK

-----------------------------------------------------------------------------
(* Where an edit of the user is *)

Holds(list, id, e) == list[id] # Absent /\ Last(list[id]) = e

\* The queue file holds the edit once the calls before the i-th are done.
QueuedBy(w, queue, i, id, e) ==
    \/ Holds(queue, id, e)
    \/ \E j \in 1 .. i - 1 : j \in DOMAIN w /\ w[j].file = "queue" /\ Holds(w[j].content, id, e)

\* The calls under way never take the edit off the queue file, and write a
\* list that shows it only after a queue that holds it.
InOrder(w, queue, id, e) ==
    \A i \in DOMAIN w :
        /\ w[i].file = "queue" /\ QueuedBy(w, queue, i, id, e) => Holds(w[i].content, id, e)
        /\ w[i].file = "db" /\ Holds(w[i].content.cards, id, e) => QueuedBy(w, queue, i, id, e)

QueuedAtLast(w, queue, id, e) == QueuedBy(w, queue, Len(w) + 1, id, e)

\* What the save of the edit has written when it gets to its next step.
SaveSafe(id, e) ==
    e \in DOMAIN save =>
        /\ At(e, {"saving", "ended"}) => Holds(disk.queue, id, e)
        /\ At(e, {"queueing"}) =>
              \/ Holds(disk.queue, id, e)
              \/ \E j \in DOMAIN writes : /\ writes[j].task = e /\ writes[j].file = "queue"
                                         /\ Holds(writes[j].content, id, e)
        /\ ~At(e, {"clearing"})

\* The queue in memory is what the file will hold, and the list shows the edit
\* only if it is queued or pushed.
MemorySafe(id, e) ==
    /\ boot # "done" => (Holds(cards, id, e) => Holds(disk.queue, id, e))
    /\ boot = "done" =>
        /\ QueuedAtLast(writes, disk.queue, id, e) <=> Holds(offline_queue, id, e)
        /\ Holds(cards, id, e) => Holds(offline_queue, id, e) \/ (e \in DOMAIN save /\ At(e, {"pushing"}))

EditSafe(id, e) ==
    /\ InOrder(writes, disk.queue, id, e)
    /\ Holds(disk.db.cards, id, e) => Holds(disk.queue, id, e)
    /\ SaveSafe(id, e) /\ MemorySafe(id, e)

\* The last edit of a card, as long as neither the server has had it nor the
\* client has dropped it.
OpenEdit(id, e) == e = latest[id] /\ e # 0 /\ e \notin settled

\* No list holds an edit that was not made yet.
KnownBy(list, n) == \A id \in Ids : list[id] # Absent => Last(list[id]) <= n

CallKnown(c, n) ==
    /\ c.file = "queue" => KnownBy(c.content, n)
    /\ c.file = "db" => KnownBy(c.content.cards, n)

AllKnown ==
    /\ KnownBy(cards, edits) /\ KnownBy(offline_queue, edits)
    /\ KnownBy(disk.queue, edits) /\ KnownBy(disk.db.cards, edits)
    /\ \A n \in DOMAIN server : KnownBy(server[n], edits)
    /\ \A i \in DOMAIN writes : CallKnown(writes[i], edits)

\* The server has had what it holds.
HadBy(list, set) == \A id \in Ids : list[id] # Absent => Last(list[id]) <= 0 \/ Last(list[id]) \in set

ServerHas == \A n \in DOMAIN server : HadBy(server[n], settled)

\* One edit of one card is pushed at a time, and no list is saved meanwhile.
OnePush ==
    \A e \in DOMAIN save : At(e, {"pushing"}) =>
        /\ latest[save[e].id] = e /\ Last(save[e].version) = e
        /\ sync \in {"live", "down"}
        /\ \A x \in DOMAIN save : x # e => ~At(x, {"pushing", "queueing", "saving"})

\* Nothing of the last session is under way while a session starts.
Idle ==
    boot # "done" =>
        /\ \A i \in DOMAIN writes : writes[i].file # "queue"
        /\ \A e \in DOMAIN save : At(e, {"none", "ended", "cut"})
        /\ sync = "down" /\ ~client /\ ~prefetching

LatestOK ==
    /\ \A id \in Ids : latest[id] <= edits
    /\ \A x, y \in Ids : latest[x] # 0 /\ latest[x] = latest[y] => x = y
    /\ edits <= MaxEdits

FlowInv == OnePush /\ Idle /\ LatestOK

DataInv == AllKnown /\ ServerHas

SafeInv == \A id \in Ids, e \in Nat : OpenEdit(id, e) => EditSafe(id, e)

EditsInv == TypeInv /\ FlowInv /\ DataInv /\ SafeInv

-----------------------------------------------------------------------------
(* Versions, lists and calls *)

LEMMA VersionFacts ==
    /\ \A v \in Versions : v # Absent => Last(v) \in Int
    /\ \A v \in Versions : \A x \in Int : /\ Append(v, x) \in Versions /\ Append(v, x) # Absent
                                        /\ Last(Append(v, x)) = x
    /\ Absent \in Versions
BY DEF Versions, Absent, Last

LEMMA EmptyFacts == /\ Empty \in Lists /\ NoFile \in DbFile /\ \A id \in Ids : Empty[id] = Absent
                    /\ NoFile.cards = Empty /\ NoFile.build = 0
<1>1. Empty \in Lists /\ \A id \in Ids : Empty[id] = Absent
    BY VersionFacts DEF Empty, Lists
<1> QED
    BY <1>1 DEF NoFile, DbFile, NoRoot

LEMMA CurrentFacts ==
    ASSUME TypeInv
    PROVE  Current \in Lists /\ \E n \in DOMAIN server : Current = server[n]
<1>1. Len(server) \in DOMAIN server /\ server[Len(server)] \in Lists
    BY DEF TypeInv
<1> QED
    BY <1>1 DEF Current, Last

\* What a push comes to ends with the edit that was pushed.
LEMMA AcceptedFacts ==
    ASSUME TypeInv, NEW id \in Ids, NEW v \in Versions, v # Absent
    PROVE  /\ Accepted(id, v) \in Versions /\ Accepted(id, v) # Absent
           /\ Last(Accepted(id, v)) = Last(v)
<1>1. Current[id] \in Versions /\ Last(v) \in Int
    BY CurrentFacts, VersionFacts DEF Lists
<1>2. CASE Ancestor(v) = Current[id]
    BY <1>2 DEF Accepted
<1>3. CASE Ancestor(v) # Current[id]
    BY <1>1, <1>3, VersionFacts DEF Accepted
<1> QED
    BY <1>2, <1>3

LEMMA MoreCalls ==
    ASSUME NEW w \in Seq(Calls), NEW c \in Calls
    PROVE  /\ w \o <<c>> \in Seq(Calls) /\ Len(w \o <<c>>) = Len(w) + 1 /\ Len(w) \in Nat
           /\ \A i \in 1 .. Len(w) : (w \o <<c>>)[i] = w[i]
           /\ (w \o <<c>>)[Len(w) + 1] = c
           /\ DOMAIN w = 1 .. Len(w) /\ DOMAIN (w \o <<c>>) = 1 .. (Len(w) + 1)
OBVIOUS

LEMMA TwoCalls ==
    ASSUME NEW w \in Seq(Calls), NEW c \in Calls, NEW d \in Calls
    PROVE  w \o <<c, d>> = (w \o <<c>>) \o <<d>>
<1>1. <<c, d>> \in Seq(Calls) /\ Len(<<c, d>>) = 2 /\ <<c, d>>[1] = c /\ <<c, d>>[2] = d
    OBVIOUS
<1>2. /\ w \o <<c, d>> \in Seq(Calls) /\ Len(w \o <<c, d>>) = Len(w) + 2
      /\ \A i \in 1 .. Len(w) : (w \o <<c, d>>)[i] = w[i]
      /\ (w \o <<c, d>>)[Len(w) + 1] = c /\ (w \o <<c, d>>)[Len(w) + 2] = d
    BY <1>1
<1>3. w \o <<c>> \in Seq(Calls) /\ Len(w \o <<c>>) = Len(w) + 1
    BY MoreCalls
<1>4. /\ (w \o <<c>>) \o <<d>> \in Seq(Calls) /\ Len((w \o <<c>>) \o <<d>>) = Len(w) + 2
      /\ \A i \in 1 .. Len(w) : ((w \o <<c>>) \o <<d>>)[i] = w[i]
      /\ ((w \o <<c>>) \o <<d>>)[Len(w) + 1] = c /\ ((w \o <<c>>) \o <<d>>)[Len(w) + 2] = d
    BY <1>3, MoreCalls
<1> DEFINE l == w \o <<c, d>>
           r == (w \o <<c>>) \o <<d>>
<1>5. /\ l \in Seq(Calls) /\ r \in Seq(Calls) /\ Len(l) = Len(r) /\ Len(w) \in Nat /\ Len(l) = Len(w) + 2
      /\ \A i \in 1 .. Len(w) : l[i] = r[i]
      /\ l[Len(w) + 1] = r[Len(w) + 1] /\ l[Len(w) + 2] = r[Len(w) + 2]
    BY <1>2, <1>4
<1> HIDE DEF l, r
<1>6. \A i \in 1 .. Len(l) : l[i] = r[i]
    BY <1>5
<1>7. l \in Seq(Calls) /\ r \in Seq(Calls) /\ Len(l) = Len(r)
    BY <1>5
<1>8. l = r
    BY <1>6, <1>7
<1> QED
    BY <1>8 DEF l, r

LEMMA FewerCalls ==
    ASSUME NEW w \in Seq(Calls), w # << >>
    PROVE  /\ Tail(w) \in Seq(Calls) /\ Head(w) \in Calls /\ Head(w) = w[1]
           /\ Len(Tail(w)) = Len(w) - 1 /\ Len(w) \in Nat \ {0}
           /\ DOMAIN w = 1 .. Len(w) /\ DOMAIN Tail(w) = 1 .. (Len(w) - 1)
           /\ \A i \in 1 .. (Len(w) - 1) : Tail(w)[i] = w[i + 1]
OBVIOUS

\* The calls the actions make.
ListCall(task, list, r) == Call(task, "db", [cards |-> list, root |-> r, build |-> build])

LEMMA CallFacts ==
    ASSUME TypeInv, NEW task \in Int
    PROVE  /\ \A list \in Lists, r \in Seq(Lists) :
                 /\ ListCall(task, list, r) \in Calls
                 /\ SavedList(task, list, r) = <<ListCall(task, list, r)>>
           /\ \A queue \in Lists : /\ Call(task, "queue", queue) \in Calls
                                  /\ SavedQueue(task, queue) = <<Call(task, "queue", queue)>>
           /\ \A h \in BOOLEAN : Call(task, "histories", h) \in Calls
           /\ Call(task, "db", NoFile) \in Calls
<1>1. \A list \in Lists, r \in Seq(Lists) : [cards |-> list, root |-> r, build |-> build] \in DbFile
    BY DEF DbFile, TypeInv
<1>2. \A d \in DbFile : Call(task, "db", d) \in Calls
    BY DEF Call, Calls
<1>3. \A list \in Lists, r \in Seq(Lists) :
         /\ ListCall(task, list, r) \in Calls
         /\ SavedList(task, list, r) = <<ListCall(task, list, r)>>
    BY <1>1, <1>2 DEF ListCall, SavedList
<1>4. \A queue \in Lists : /\ Call(task, "queue", queue) \in Calls
                          /\ SavedQueue(task, queue) = <<Call(task, "queue", queue)>>
    BY DEF Call, Calls, SavedQueue
<1>5. \A h \in BOOLEAN : Call(task, "histories", h) \in Calls
    BY DEF Call, Calls
<1> QED
    BY <1>2, <1>3, <1>4, <1>5, EmptyFacts
-----------------------------------------------------------------------------
(* Types *)

LEMMA SaveFacts ==
    ASSUME TypeInv
    PROVE  /\ DOMAIN save = 1 .. MaxEdits
           /\ \A e \in DOMAIN save : At(e, {"pushing"}) =>
                 save[e].id \in Ids /\ save[e].version \in Versions /\ save[e].version # Absent
           /\ \A e, pc : /\ pc \in {"none", "queueing", "saving", "clearing", "ended", "cut"}
                         /\ GoTo(e, pc)
                         => save' \in [1 .. MaxEdits -> SaveSteps]
<1>1. DOMAIN save = 1 .. MaxEdits
    BY DEF TypeInv
<1>2. ASSUME NEW e \in DOMAIN save, At(e, {"pushing"})
      PROVE  save[e].id \in Ids /\ save[e].version \in Versions /\ save[e].version # Absent
    <2>1. save[e] \in SaveSteps /\ save[e].pc = "pushing"
        BY <1>1, <1>2 DEF TypeInv, At
    <2>2. save[e] \in [pc: {"pushing"}, id: Ids, version: Versions \ {Absent}]
        BY <2>1 DEF SaveSteps
    <2> QED
        BY <2>2
<1>3. ASSUME NEW e, NEW pc, pc \in {"none", "queueing", "saving", "clearing", "ended", "cut"},
             GoTo(e, pc)
      PROVE  save' \in [1 .. MaxEdits -> SaveSteps]
    <2>1. [pc |-> pc] \in SaveSteps
        BY <1>3 DEF SaveSteps
    <2> QED
        BY <1>3, <2>1 DEF TypeInv, GoTo
<1> QED
    BY <1>1, <1>2, <1>3

LEMMA Issued == ASSUME TypeInv, NEW calls \in Seq(Calls), Issue(calls) PROVE writes' \in Seq(Calls)
BY DEF TypeInv, Issue

\* The calls an action makes, in the order it makes them.
LEMMA IssuedFacts ==
    ASSUME TypeInv, NEW task \in Int
    PROVE  /\ \A list \in Lists, r \in Seq(Lists) : Issue(SavedList(task, list, r)) => writes' \in Seq(Calls)
           /\ \A queue \in Lists : Issue(SavedQueue(task, queue)) => writes' \in Seq(Calls)
           /\ \A h \in BOOLEAN : Issue(<<Call(task, "histories", h)>>) => writes' \in Seq(Calls)
           /\ Issue(Cleared(task)) => writes' \in Seq(Calls)
<1>1. \A c \in Calls : <<c>> \in Seq(Calls)
    OBVIOUS
<1>2. \A c \in Calls, d \in Calls : <<c, d>> \in Seq(Calls)
    OBVIOUS
<1>3. \A list \in Lists, r \in Seq(Lists) : SavedList(task, list, r) \in Seq(Calls)
    BY CallFacts, <1>1
<1>4. \A queue \in Lists : SavedQueue(task, queue) \in Seq(Calls)
    BY CallFacts, <1>1
<1>5. \A h \in BOOLEAN : <<Call(task, "histories", h)>> \in Seq(Calls)
    BY CallFacts, <1>1
<1>6. Cleared(task) \in Seq(Calls)
    BY CallFacts, <1>2 DEF Cleared
<1> QED
    BY <1>3, <1>4, <1>5, <1>6, Issued

LEMMA TaskFacts == conn \in Int /\ start \in Int /\ prefetch \in Int /\ clearing \in Int
BY DEF conn, start, prefetch, clearing

LEMMA StartTypes ==
    ASSUME TypeInv, CheckStamp \/ LoadHistories \/ load_local_state \/ load_offline_queue
    PROVE  TypeInv'
<1> USE DEF StartUnchanged, memory, counters
<1>1. CASE CheckStamp
    <2>1. writes' \in Seq(Calls) /\ boot' \in BootSteps
        BY <1>1, IssuedFacts, TaskFacts DEF CheckStamp, TypeInv, BootSteps
    <2> QED
        BY <1>1, <2>1 DEF CheckStamp, TypeInv
<1>2. CASE LoadHistories
    BY <1>2 DEF LoadHistories, TypeInv, BootSteps
<1>3. CASE load_local_state
    <2>1. disk.db.cards \in Lists /\ disk.db.root \in Seq(Lists)
        BY DEF TypeInv, DbFile
    <2>2. cards' \in Lists /\ root' \in Seq(Lists) /\ histories' \in BOOLEAN
        BY <1>3, <2>1 DEF load_local_state, TypeInv
    <2>3. writes' \in Seq(Calls) /\ boot' \in BootSteps
        BY <1>3, IssuedFacts, TaskFacts DEF load_local_state, TypeInv, BootSteps
    <2> QED
        BY <1>3, <2>2, <2>3 DEF load_local_state, TypeInv
<1>4. CASE load_offline_queue
    BY <1>4 DEF load_offline_queue, TypeInv, BootSteps
<1> QED
    BY <1>1, <1>2, <1>3, <1>4

LEMMA PerformTypes == ASSUME TypeInv, Perform PROVE TypeInv'
<1>1. writes' \in Seq(Calls) /\ Head(writes) \in Calls
    BY FewerCalls DEF TypeInv, Perform
<1>2. disk' \in [db: DbFile, queue: Lists, histories: BOOLEAN]
    BY <1>1 DEF TypeInv, Perform, Calls
<1> QED
    BY <1>1, <1>2 DEF TypeInv, Perform, memory, counters

LEMMA QueueTypes ==
    ASSUME TypeInv, NEW e \in Int, NEW id \in Ids, NEW v \in Versions, Queue(e, id, v)
    PROVE  offline_queue' \in Lists /\ writes' \in Seq(Calls)
           /\ save' \in [1 .. MaxEdits -> SaveSteps]
<1>1. offline_queue' \in Lists
    BY DEF TypeInv, Lists, Queue
<1> QED
    BY <1>1, IssuedFacts, SaveFacts DEF Queue

LEMMA UserSaveTypes == ASSUME TypeInv, NEW id \in Ids, UserSave(id) PROVE TypeInv'
<1> DEFINE e == edits + 1
           v == Append(cards[id], e)
<1>1. cards[id] \in Versions /\ e \in Int /\ e \in Nat
    BY DEF TypeInv, Lists
<1>2. v \in Versions \ {Absent}
    BY <1>1, VersionFacts
<1>3. /\ edits' = e /\ latest' = [latest EXCEPT ![id] = e] /\ cards' = [cards EXCEPT ![id] = v]
      /\ \/ Queue(e, id, v)
         \/ /\ save' = [save EXCEPT ![e] = [pc |-> "pushing", id |-> id, version |-> v]]
            /\ UNCHANGED <<offline_queue, writes>>
      /\ UNCHANGED <<server, root, histories, client, alive, boot, sync, prefetching, disk, stamp,
                     build, events, settled>>
    BY DEF UserSave
<1> HIDE DEF e, v
<1>4. edits' \in Nat /\ latest' \in [Ids -> Nat] /\ cards' \in Lists
    BY <1>1, <1>2, <1>3 DEF TypeInv, Lists
<1>5. [pc |-> "pushing", id |-> id, version |-> v] \in SaveSteps
    BY <1>2 DEF SaveSteps
<1>6. offline_queue' \in Lists /\ writes' \in Seq(Calls) /\ save' \in [1 .. MaxEdits -> SaveSteps]
    <2>1. CASE Queue(e, id, v)
        BY <2>1, <1>1, <1>2, QueueTypes
    <2>2. CASE save' = [save EXCEPT ![e] = [pc |-> "pushing", id |-> id, version |-> v]]
               /\ UNCHANGED <<offline_queue, writes>>
        BY <2>2, <1>5 DEF TypeInv
    <2> QED
        BY <2>1, <2>2, <1>3
<1> QED
    BY <1>3, <1>4, <1>6 DEF TypeInv

LEMMA MoreContents ==
    ASSUME TypeInv, NEW list \in Lists
    PROVE  Append(server, list) \in Seq(Lists) \ {<< >>}
BY DEF TypeInv

LEMMA SaveStepTypes == ASSUME TypeInv, NEW e \in DOMAIN save, SaveStep(e) PROVE TypeInv'
<1> USE DEF SaveUnchanged, counters
<1>1. e \in Int
    BY SaveFacts
<1>2. CASE Pushed(e)
    <2> DEFINE id == save[e].id
               v == Accepted(id, save[e].version)
    <2>1. id \in Ids /\ v \in Versions
        BY <1>2, SaveFacts, AcceptedFacts DEF Pushed
    <2>2. /\ server' = Append(server, [Current EXCEPT ![id] = v])
          /\ cards' = IF v = save[e].version THEN cards ELSE [cards EXCEPT ![id] = v]
          /\ offline_queue' = [offline_queue EXCEPT ![id] = Absent]
          /\ (Issue(SavedQueue(e, offline_queue')) /\ GoTo(e, "clearing"))
             \/ (GoTo(e, "ended") /\ UNCHANGED writes)
          /\ UNCHANGED stamp /\ SaveUnchanged
        BY <1>2 DEF Pushed
    <2> HIDE DEF id, v
    <2>3. cards' \in Lists /\ offline_queue' \in Lists
        BY <2>1, <2>2, VersionFacts DEF TypeInv, Lists
    <2>4. [Current EXCEPT ![id] = v] \in Lists
        BY <2>1, CurrentFacts DEF Lists
    <2>5. server' \in Seq(Lists) \ {<< >>}
        BY <2>2, <2>4, MoreContents
    <2>6. writes' \in Seq(Calls)
        BY <1>1, <2>2, <2>3, IssuedFacts DEF TypeInv
    <2>7. save' \in [1 .. MaxEdits -> SaveSteps]
        BY <2>2, SaveFacts
    <2> QED
        BY <2>2, <2>3, <2>5, <2>6, <2>7 DEF TypeInv
<1>3. CASE PushFailed(e)
    <2>1. offline_queue' \in Lists /\ writes' \in Seq(Calls)
          /\ save' \in [1 .. MaxEdits -> SaveSteps]
        BY <1>1, <1>3, SaveFacts, QueueTypes DEF PushFailed
    <2> QED
        BY <1>3, <2>1 DEF PushFailed, TypeInv
<1>4. CASE QueueWritten(e)
    <2>1. writes' \in Seq(Calls)
        BY <1>1, <1>4, IssuedFacts DEF QueueWritten, TypeInv
    <2>2. save' \in [1 .. MaxEdits -> SaveSteps]
        BY <1>4, SaveFacts DEF QueueWritten
    <2> QED
        BY <1>4, <2>1, <2>2 DEF QueueWritten, TypeInv
<1>5. CASE SaveEnds(e)
    <2>1. save' \in [1 .. MaxEdits -> SaveSteps]
        BY <1>5, SaveFacts DEF SaveEnds
    <2>2. stamp' \in Nat
        BY <1>5 DEF SaveEnds, TypeInv
    <2> QED
        BY <1>5, <2>1, <2>2 DEF SaveEnds, TypeInv
<1> QED
    BY <1>2, <1>3, <1>4, <1>5 DEF SaveStep

LEMMA SyncedTypes ==
    ASSUME TypeInv, NEW list \in Lists, NEW pc \in SyncSteps, Synced(list, pc)
    PROVE  cards' \in Lists /\ root' \in Seq(Lists) /\ histories' \in BOOLEAN
           /\ writes' \in Seq(Calls) /\ sync' \in SyncSteps
<1>1. server \in Seq(Lists)
    BY DEF TypeInv
<1> QED
    BY <1>1, IssuedFacts, TaskFacts DEF Synced, TypeInv

LEMMA ChangedFacts ==
    ASSUME TypeInv, root # NoRoot
    PROVE  Changed(root) \in Lists
           /\ \A id \in Ids : Changed(root)[id] = Current[id] \/ Changed(root)[id] = cards[id]
<1>1. Current \in Lists
    BY CurrentFacts
<1>2. \A id \in Ids : Current[id] \in Versions /\ cards[id] \in Versions
    BY <1>1 DEF Lists, TypeInv
<1> QED
    BY <1>2 DEF Changed, Lists

\* What a flush of a queue that is not empty does with the sets it chooses.
FlushOf(set, kept, pushed, had) ==
    LET queued == Present(offline_queue)
        After(id) == Accepted(id, offline_queue[id])
    IN  /\ kept \subseteq queued /\ pushed \subseteq had /\ had \subseteq kept
        /\ client' = set
        /\ alive' = (alive /\ pushed = kept)
        /\ events' = IF alive = alive' THEN events ELSE events + 1
        /\ server' = IF had = {} THEN server
                     ELSE Append(server, [id \in Ids |-> IF id \in had THEN After(id) ELSE Current[id]])
        /\ cards' = [id \in Ids |-> IF id \in pushed THEN After(id) ELSE cards[id]]
        /\ settled' = settled \cup EditsIn(offline_queue, had \cup (queued \ kept))
        /\ offline_queue' = [id \in Ids |-> IF id \in kept \ pushed THEN offline_queue[id] ELSE Absent]
        /\ sync' = IF pushed = {} THEN "unqueued" ELSE "pushed"
        /\ Issue(SavedQueue(conn, offline_queue'))

\* The queue is empty and there is nothing to flush.
NoFlush ==
    /\ Present(offline_queue) = {}
    /\ client' = TRUE /\ sync' = "live"
    /\ UNCHANGED <<server, cards, offline_queue, alive, events, writes, settled>>

LEMMA FlushCases ==
    ASSUME NEW set, Flush(set)
    PROVE  NoFlush \/ \E kept, pushed, had : FlushOf(set, kept, pushed, had)
<1> DEFINE kept == {id \in Present(offline_queue) : Fresh(id)}
<1>1. CASE Present(offline_queue) = {}
    BY <1>1 DEF Flush, NoFlush
<1>2. CASE Present(offline_queue) # {}
    <2>1. PICK pushed \in SUBSET kept, had \in SUBSET kept :
             /\ pushed \subseteq had
             /\ alive' = (alive /\ pushed = kept)
             /\ events' = IF alive = alive' THEN events ELSE events + 1
             /\ LET After(id) == Accepted(id, offline_queue[id])
                IN  /\ server' = IF had = {} THEN server
                                 ELSE Append(server, [id \in Ids |-> IF id \in had THEN After(id)
                                                                     ELSE Current[id]])
                    /\ cards' = [id \in Ids |-> IF id \in pushed THEN After(id) ELSE cards[id]]
             /\ settled' = settled \cup EditsIn(offline_queue, had \cup (Present(offline_queue) \ kept))
             /\ offline_queue' = [id \in Ids |-> IF id \in kept \ pushed THEN offline_queue[id]
                                                 ELSE Absent]
             /\ sync' = IF pushed = {} THEN "unqueued" ELSE "pushed"
        BY <1>2 DEF Flush
    <2>2. client' = set /\ Issue(SavedQueue(conn, offline_queue'))
        BY <1>2 DEF Flush
    <2>3. FlushOf(set, kept, pushed, had)
        BY <2>1, <2>2 DEF FlushOf
    <2> QED
        BY <2>3
<1> QED
    BY <1>1, <1>2

LEMMA FlushTypes ==
    ASSUME TypeInv, NEW set \in BOOLEAN, Flush(set)
    PROVE  /\ server' \in Seq(Lists) \ {<< >>} /\ cards' \in Lists /\ offline_queue' \in Lists
           /\ client' \in BOOLEAN /\ alive' \in BOOLEAN /\ sync' \in SyncSteps
           /\ writes' \in Seq(Calls) /\ events' \in Nat
<1>1. CASE NoFlush
    BY <1>1 DEF NoFlush, TypeInv, SyncSteps
<1>2. ASSUME NEW kept, NEW pushed, NEW had, FlushOf(set, kept, pushed, had)
      PROVE  /\ server' \in Seq(Lists) \ {<< >>} /\ cards' \in Lists /\ offline_queue' \in Lists
             /\ client' \in BOOLEAN /\ alive' \in BOOLEAN /\ sync' \in SyncSteps
             /\ writes' \in Seq(Calls) /\ events' \in Nat
    <2> DEFINE next == [id \in Ids |-> IF id \in had THEN Accepted(id, offline_queue[id])
                                       ELSE Current[id]]
    <2>1. \A id \in Ids : /\ offline_queue[id] \in Versions /\ cards[id] \in Versions
                          /\ Current[id] \in Versions
        BY CurrentFacts DEF TypeInv, Lists
    <2>2. /\ pushed \subseteq had /\ had \subseteq Present(offline_queue)
          /\ client' = set
          /\ alive' = (alive /\ pushed = kept)
          /\ events' = IF alive = alive' THEN events ELSE events + 1
          /\ server' = IF had = {} THEN server ELSE Append(server, next)
          /\ cards' = [id \in Ids |-> IF id \in pushed THEN Accepted(id, offline_queue[id])
                                      ELSE cards[id]]
          /\ offline_queue' = [id \in Ids |-> IF id \in kept \ pushed THEN offline_queue[id]
                                              ELSE Absent]
          /\ sync' = IF pushed = {} THEN "unqueued" ELSE "pushed"
          /\ Issue(SavedQueue(conn, offline_queue'))
        BY <1>2 DEF FlushOf
    <2>3. \A id \in Ids : id \in had => Accepted(id, offline_queue[id]) \in Versions
        BY <2>1, <2>2, AcceptedFacts DEF Present
    <2>4. next \in Lists
        BY <2>1, <2>3 DEF Lists
    <2> HIDE DEF next
    <2>5. server' \in Seq(Lists) \ {<< >>}
        BY <2>2, <2>4, MoreContents DEF TypeInv
    <2>6. \A id \in Ids : id \in pushed => Accepted(id, offline_queue[id]) \in Versions
        BY <2>2, <2>3
    <2>7. cards' \in Lists
        BY <2>1, <2>2, <2>6 DEF Lists
    <2>8. offline_queue' \in Lists
        BY <2>1, <2>2, VersionFacts DEF Lists
    <2>9. writes' \in Seq(Calls)
        BY <2>2, <2>8, IssuedFacts, TaskFacts
    <2>10. client' \in BOOLEAN /\ alive' \in BOOLEAN /\ sync' \in SyncSteps /\ events' \in Nat
        BY <2>2 DEF TypeInv, SyncSteps
    <2> QED
        BY <2>5, <2>7, <2>8, <2>9, <2>10
<1> QED
    BY <1>1, <1>2, FlushCases

LEMMA SyncTypes == ASSUME TypeInv, SyncStep PROVE TypeInv'
<1> USE DEF SyncUnchanged, FlushUnchanged
<1>1. CASE Sync
    <2>1. /\ (sync = "down" /\ alive' = TRUE) \/ UNCHANGED alive
          /\ client' = (client /\ sync = "live")
          /\ UNCHANGED <<server, offline_queue, prefetching, stamp, events, settled>> /\ SyncUnchanged
        BY <1>1 DEF Sync
    <2>2. cards' \in Lists /\ root' \in Seq(Lists) /\ histories' \in BOOLEAN
          /\ writes' \in Seq(Calls) /\ sync' \in SyncSteps
        <3>1. CASE root = NoRoot /\ Synced(Current, "connected")
            BY <3>1, CurrentFacts, SyncedTypes DEF SyncSteps
        <3>2. CASE root # NoRoot /\ Synced(Changed(root), IF root = server THEN "synced" ELSE "changed")
            <4>1. (IF root = server THEN "synced" ELSE "changed") \in SyncSteps
                BY DEF SyncSteps
            <4> QED
                BY <3>2, <4>1, ChangedFacts, SyncedTypes
        <3>3. CASE /\ histories' = FALSE /\ Issue(<<Call(conn, "histories", FALSE)>>)
                   /\ sync' = "mismatch" /\ UNCHANGED <<cards, root>>
            BY <3>3, IssuedFacts, TaskFacts DEF TypeInv, SyncSteps
        <3> QED
            BY <1>1, <3>1, <3>2, <3>3 DEF Sync
    <2> QED
        BY <2>1, <2>2 DEF TypeInv
<1>2. CASE Forget
    BY <1>2 DEF Forget, TypeInv, NoRoot, SyncSteps
<1>3. CASE FullSync
    <2>1. CASE Synced(Current, "resynced")
        <3>1. cards' \in Lists /\ root' \in Seq(Lists) /\ histories' \in BOOLEAN
              /\ writes' \in Seq(Calls) /\ sync' \in SyncSteps
            BY <2>1, CurrentFacts, SyncedTypes DEF SyncSteps
        <3> QED
            BY <1>3, <3>1 DEF FullSync, TypeInv
    <2>2. CASE sync' = "down" /\ UNCHANGED <<cards, root, histories, writes>>
        BY <1>3, <2>2 DEF FullSync, TypeInv, SyncSteps
    <2> QED
        BY <1>3, <2>1, <2>2 DEF FullSync
<1>4. CASE ListWritten
    <2>1. Flush(client \/ sync = "connected") /\ (client \/ sync = "connected") \in BOOLEAN
        BY <1>4 DEF ListWritten
    <2>2. stamp' \in Nat /\ prefetching' \in BOOLEAN
        BY <1>4 DEF ListWritten, TypeInv
    <2>3. UNCHANGED <<root, histories>> /\ SyncUnchanged
        BY <1>4 DEF ListWritten
    <2> QED
        BY <2>1, <2>2, <2>3, FlushTypes DEF TypeInv
<1>5. CASE QueueFlushed
    <2>1. writes' \in Seq(Calls)
        BY <1>5, IssuedFacts, TaskFacts DEF QueueFlushed, TypeInv
    <2> QED
        BY <1>5, <2>1 DEF QueueFlushed, TypeInv, SyncSteps
<1>6. CASE FlushEnds
    <2>1. stamp' \in Nat /\ UNCHANGED prefetching /\ UNCHANGED <<root, histories>> /\ SyncUnchanged
        BY <1>6 DEF FlushEnds, TypeInv
    <2>2. CASE Flush(TRUE)
        BY <2>1, <2>2, FlushTypes DEF TypeInv
    <2>3. CASE sync' = "live" /\ UNCHANGED <<server, cards, offline_queue, client, alive, events,
                                             writes, settled>>
        BY <2>1, <2>3 DEF TypeInv, SyncSteps
    <2> QED
        BY <1>6, <2>2, <2>3 DEF FlushEnds
<1> QED
    BY <1>1, <1>2, <1>3, <1>4, <1>5, <1>6 DEF SyncStep

LEMMA WorldTypes ==
    ASSUME TypeInv, \/ Prefetch \/ Lose \/ Disconnect \/ Restore \/ ClearLocalCache \/ Reload
                    \/ \E id \in Ids : RemoteSave(id)
    PROVE  TypeInv'
<1> USE DEF WorldUnchanged, memory, counters
<1>0. Event => events' \in Nat
    BY DEF Event, TypeInv
<1>1. CASE Prefetch
    <2>1. histories' \in BOOLEAN
        BY <1>1 DEF Prefetch, TypeInv
    <2>2. writes' \in Seq(Calls)
        BY <1>1, <2>1, IssuedFacts, TaskFacts DEF Prefetch
    <2> QED
        BY <1>1, <2>1, <2>2 DEF Prefetch, TypeInv
<1>2. CASE Lose
    <2>1. server' \in Seq(Lists) \ {<< >>}
        <3>1. CASE UNCHANGED server
            BY <3>1 DEF TypeInv
        <3>2. ASSUME NEW e \in DOMAIN save, At(e, {"pushing"}),
                     server' = Append(server, [Current EXCEPT ![save[e].id] =
                                                  Accepted(save[e].id, save[e].version)])
              PROVE  server' \in Seq(Lists) \ {<< >>}
            <4> DEFINE v == Accepted(save[e].id, save[e].version)
            <4>1. v \in Versions /\ Current \in Lists
                BY <3>2, SaveFacts, AcceptedFacts, CurrentFacts
            <4> HIDE DEF v
            <4>2. [Current EXCEPT ![save[e].id] = v] \in Lists
                BY <4>1 DEF Lists
            <4> QED
                BY <3>2, <4>2, MoreContents DEF v
        <3> QED
            BY <1>2, <3>1, <3>2 DEF Lose
    <2> QED
        BY <1>0, <1>2, <2>1 DEF Lose, TypeInv
<1>3. CASE Disconnect
    BY <1>3 DEF Disconnect, TypeInv, SyncSteps
<1>4. CASE Restore
    <2>1. PICK n \in 1 .. Len(server) - 1 : server' = SubSeq(server, 1, n)
        BY <1>4 DEF Restore
    <2>2. server' \in Seq(Lists) \ {<< >>}
        <3>1. server \in Seq(Lists) /\ n \in Nat /\ 1 <= n /\ n <= Len(server)
            BY <2>1 DEF TypeInv
        <3>2. SubSeq(server, 1, n) \in Seq(Lists) /\ Len(SubSeq(server, 1, n)) = n
            BY <3>1, SubSeqProperties
        <3> QED
            BY <2>1, <3>1, <3>2
    <2> QED
        BY <1>0, <1>4, <2>2 DEF Restore, TypeInv
<1>5. CASE ClearLocalCache
    <2>1. writes' \in Seq(Calls)
        BY <1>5, IssuedFacts, TaskFacts DEF ClearLocalCache
    <2> QED
        BY <1>0, <1>5, <2>1 DEF ClearLocalCache, TypeInv
<1>6. CASE Reload
    <2>1. save' \in [1 .. MaxEdits -> SaveSteps]
        <3>1. [pc |-> "cut"] \in SaveSteps /\ \A e \in DOMAIN save : save[e] \in SaveSteps
            BY SaveFacts DEF SaveSteps, TypeInv
        <3> QED
            BY <1>6, <3>1, SaveFacts DEF Reload
    <2>2. build' \in Nat /\ cards' \in Lists /\ offline_queue' \in Lists /\ root' \in Seq(Lists)
        BY <1>6, EmptyFacts DEF Reload, TypeInv, NoRoot
    <2>3. /\ histories' \in BOOLEAN /\ client' \in BOOLEAN /\ alive' \in BOOLEAN /\ prefetching' \in BOOLEAN
          /\ boot' \in BootSteps /\ sync' \in SyncSteps
        BY <1>6 DEF Reload, SyncSteps, BootSteps
    <2>6. writes' = << >> /\ writes' \in Seq(Calls)
        <3>1. writes' = << >>
            BY <1>6 DEF Reload
        <3> QED
            BY <3>1
    <2>4. events' \in Nat /\ UNCHANGED <<server, disk, stamp, edits, latest>>
        BY <1>0, <1>6 DEF Reload
    <2>5. /\ server' \in Seq(Lists) \ {<< >>} /\ disk' \in [db: DbFile, queue: Lists, histories: BOOLEAN]
          /\ stamp' \in Nat /\ edits' \in Nat /\ latest' \in [Ids -> Nat]
        BY <2>4 DEF TypeInv
    <2> QED
        BY <2>1, <2>2, <2>3, <2>4, <2>5, <2>6 DEF TypeInv
<1>7. ASSUME NEW id \in Ids, RemoteSave(id) PROVE TypeInv'
    <2> DEFINE v == Append(Current[id], -events')
    <2>1. Current \in Lists /\ events' \in Nat
        BY <1>0, <1>7, CurrentFacts DEF RemoteSave, TypeInv
    <2>2. v \in Versions
        BY <2>1, VersionFacts DEF Lists
    <2>3. server' = Append(server, [Current EXCEPT ![id] = v])
        BY <1>7 DEF RemoteSave
    <2> HIDE DEF v
    <2>4. [Current EXCEPT ![id] = v] \in Lists
        BY <2>1, <2>2 DEF Lists
    <2>5. server' \in Seq(Lists) \ {<< >>}
        BY <2>3, <2>4, MoreContents
    <2> QED
        BY <1>7, <2>1, <2>5 DEF RemoteSave, TypeInv
<1> QED
    BY <1>1, <1>2, <1>3, <1>4, <1>5, <1>6, <1>7

LEMMA TypesInitial == PersistInit => TypeInv
<1> SUFFICES ASSUME PersistInit PROVE TypeInv
    OBVIOUS
<1>1. server \in Seq(Lists) \ {<< >>}
    <2>1. \A id \in Ids : [Empty EXCEPT ![id] = << 0 >>] \in Lists
        BY EmptyFacts DEF Lists, Versions
    <2>2. server = <<Empty>> \/ \E id \in Ids : server = <<Empty, [Empty EXCEPT ![id] = << 0 >>]>>
        BY DEF PersistInit
    <2>3. \A list \in Lists : <<Empty, list>> \in Seq(Lists) \ {<< >>} /\ <<Empty>> \in Seq(Lists) \ {<< >>}
        BY EmptyFacts
    <2>4. CASE server = <<Empty>>
        BY <2>4, <2>3, EmptyFacts
    <2>5. ASSUME NEW id \in Ids, server = <<Empty, [Empty EXCEPT ![id] = << 0 >>]>>
          PROVE  server \in Seq(Lists) \ {<< >>}
        BY <2>1, <2>3, <2>5
    <2> QED
        BY <2>2, <2>4, <2>5
<1>2. save \in [1 .. MaxEdits -> SaveSteps] /\ disk \in [db: DbFile, queue: Lists, histories: BOOLEAN]
    BY EmptyFacts DEF PersistInit, SaveSteps
<1>3. cards \in Lists /\ root \in Seq(Lists) /\ offline_queue \in Lists /\ latest \in [Ids -> Nat]
      /\ writes \in Seq(Calls)
    BY EmptyFacts DEF PersistInit, NoRoot
<1>4. /\ histories \in BOOLEAN /\ client \in BOOLEAN /\ alive \in BOOLEAN /\ prefetching \in BOOLEAN
      /\ boot \in BootSteps /\ sync \in SyncSteps
      /\ stamp \in Nat /\ build \in Nat /\ edits \in Nat /\ events \in Nat
    BY DEF PersistInit, BootSteps, SyncSteps
<1> QED
    BY <1>1, <1>2, <1>3, <1>4 DEF TypeInv

LEMMA TypesNext == ASSUME TypeInv, PersistNext PROVE TypeInv'
<1>1. CASE CheckStamp \/ LoadHistories \/ load_local_state \/ load_offline_queue
    BY <1>1, StartTypes
<1>2. CASE \E id \in Ids : UserSave(id)
    BY <1>2, UserSaveTypes
<1>3. CASE \E e \in DOMAIN save : SaveStep(e)
    BY <1>3, SaveStepTypes
<1> QED
    BY <1>1, <1>2, <1>3, PerformTypes, SyncTypes, WorldTypes DEF PersistNext

LEMMA TypesStutter == ASSUME TypeInv, UNCHANGED persistVars PROVE TypeInv'
BY DEF TypeInv, persistVars, memory, counters

-----------------------------------------------------------------------------
(* What a session starts with *)

LEMMA CallsAfter ==
    ASSUME TypeInv, NEW calls \in Seq(Calls), Issue(calls)
    PROVE  /\ \A i \in DOMAIN writes' :
                 \/ i \in DOMAIN writes /\ writes'[i] = writes[i]
                 \/ \E j \in DOMAIN calls : writes'[i] = calls[j]
           /\ \A i \in DOMAIN writes : i \in DOMAIN writes' /\ writes'[i] = writes[i]
           /\ \A j \in DOMAIN calls : \E i \in DOMAIN writes' : writes'[i] = calls[j]
<1>1. writes \in Seq(Calls) /\ writes' = writes \o calls
    BY DEF TypeInv, Issue
<1>2. /\ Len(writes) \in Nat /\ Len(calls) \in Nat
      /\ DOMAIN writes = 1 .. Len(writes) /\ DOMAIN calls = 1 .. Len(calls)
      /\ DOMAIN writes' = 1 .. (Len(writes) + Len(calls))
    BY <1>1
<1>3. \A i \in 1 .. Len(writes) : writes'[i] = writes[i]
    BY <1>1
<1>4. \A j \in 1 .. Len(calls) : writes'[Len(writes) + j] = calls[j]
    BY <1>1
<1>5. ASSUME NEW i \in DOMAIN writes', i \notin DOMAIN writes
      PROVE  \E j \in DOMAIN calls : writes'[i] = calls[j]
    <2>1. i - Len(writes) \in DOMAIN calls /\ Len(writes) + (i - Len(writes)) = i
        BY <1>2, <1>5
    <2> QED
        BY <1>2, <1>4, <2>1
<1>6. ASSUME NEW j \in DOMAIN calls PROVE \E i \in DOMAIN writes' : writes'[i] = calls[j]
    <2>1. Len(writes) + j \in DOMAIN writes'
        BY <1>2
    <2> QED
        BY <1>2, <1>4, <2>1
<1>7. \A i \in DOMAIN writes : i \in DOMAIN writes' /\ writes'[i] = writes[i]
    BY <1>2, <1>3
<1> QED
    BY <1>5, <1>6, <1>7

LEMMA CallAfter ==
    ASSUME TypeInv, NEW c \in Calls, Issue(<<c>>)
    PROVE  /\ \A i \in DOMAIN writes : i \in DOMAIN writes' /\ writes'[i] = writes[i]
           /\ \E i \in DOMAIN writes' : writes'[i] = c
<1> DEFINE calls == <<c>>
<1>1. calls \in Seq(Calls) /\ DOMAIN calls = {1} /\ calls[1] = c
    OBVIOUS
<1>2. Issue(calls)
    OBVIOUS
<1> HIDE DEF calls
<1>3. /\ \A i \in DOMAIN writes : i \in DOMAIN writes' /\ writes'[i] = writes[i]
      /\ \A j \in DOMAIN calls : \E i \in DOMAIN writes' : writes'[i] = calls[j]
    BY <1>1, <1>2, CallsAfter
<1> QED
    BY <1>1, <1>3

LEMMA NoCalls == ASSUME TypeInv, UNCHANGED writes PROVE << >> \in Seq(Calls) /\ Issue(<< >>)
<1>1. writes \o << >> = writes
    BY DEF TypeInv
<1> QED
    BY <1>1 DEF Issue

\* A step after which what the session starts with still belongs together.
Makes(calls, task) == \E j \in DOMAIN calls : calls[j].task = task /\ calls[j].file = "db"

Keeps(calls) ==
    /\ Issue(calls) /\ \A j \in DOMAIN calls : CallOK(calls[j])
    /\ UNCHANGED <<boot, build, disk>>
    /\ boot # "done" => UNCHANGED <<root, histories, prefetching, sync>>
    /\ stamp' = stamp \/ (stamp' = build /\ DbOK)
    /\ sync' \in ListSteps => sync \in ListSteps \/ Makes(calls, conn)
    /\ \A e \in DOMAIN save : save'[e].pc = "saving" => At(e, {"saving"}) \/ Makes(calls, e)

LEMMA StepKeeps ==
    ASSUME StartInv, TypeInv', NEW calls \in Seq(Calls), Keeps(calls)
    PROVE  StartInv'
<1>1. TypeInv /\ CallsOK /\ BootOK /\ StampOK
    BY DEF StartInv
<1>2. /\ Issue(calls) /\ \A j \in DOMAIN calls : CallOK(calls[j])
      /\ boot' = boot /\ build' = build /\ disk' = disk
    BY DEF Keeps
<1>3. \A task, file : Writing(task, file) => Writing(task, file)'
    BY <1>1, <1>2, CallsAfter DEF Writing
<1>4. \A task : Makes(calls, task) => Writing(task, "db")'
    BY <1>1, <1>2, CallsAfter DEF Writing, Makes
<1>5. CallsOK'
    <2>1. ASSUME NEW i \in DOMAIN writes' PROVE CallOK(writes'[i])
        BY <1>1, <1>2, CallsAfter DEF CallsOK
    <2> QED
        BY <2>1, <1>2 DEF CallsOK, CallOK
<1>6. BootOK'
    <2>1. CASE boot = "done"
        BY <1>2, <2>1 DEF BootOK
    <2>2. CASE boot # "done"
        <3>1. /\ root' = root /\ histories' = histories /\ prefetching' = prefetching /\ sync' = sync
              /\ stamp' = stamp \/ stamp' = build
            BY <2>2 DEF Keeps
        <3> QED
            BY <1>1, <1>2, <1>3, <3>1 DEF BootOK
    <2> QED
        BY <2>1, <2>2
<1>7. StampOK'
    <2>1. DbOK' <=> DbOK
        BY <1>2 DEF DbOK
    <2>2. stamp' <= build' /\ build' > 0 /\ (stamp' = build' => DbOK')
        BY <1>1, <1>2, <2>1 DEF Keeps, StampOK, TypeInv
    <2>3. sync' \in ListSteps => DbOK' \/ Writing(conn, "db")'
        BY <1>1, <1>3, <1>4, <2>1 DEF Keeps, StampOK
    <2>4. DOMAIN save' = DOMAIN save
        BY <1>1 DEF TypeInv
    <2>5. \A e \in DOMAIN save' : save'[e].pc = "saving" => DbOK' \/ Writing(e, "db")'
        BY <1>1, <1>3, <1>4, <2>1, <2>4 DEF Keeps, StampOK
    <2>6. \A e \in DOMAIN save' : At(e, {"saving"})' => DbOK' \/ Writing(e, "db")'
        BY <2>5 DEF At
    <2> QED
        BY <2>2, <2>3, <2>6 DEF StampOK
<1> QED
    BY <1>5, <1>6, <1>7 DEF StartInv

LEMMA PerformStart == ASSUME StartInv, TypeInv', Perform PROVE StartInv'
<1> DEFINE c == Head(writes)
<1>1. TypeInv /\ CallsOK /\ BootOK /\ StampOK
    BY DEF StartInv
<1>2. /\ writes # << >> /\ disk' = [disk EXCEPT ![c.file] = c.content] /\ writes' = Tail(writes)
      /\ UNCHANGED <<root, histories, boot, sync, save, prefetching, stamp, build>>
    BY DEF Perform, memory
<1>3. /\ c \in Calls /\ c = writes[1] /\ 1 \in DOMAIN writes
      /\ \A i \in DOMAIN writes' : i + 1 \in DOMAIN writes /\ writes'[i] = writes[i + 1]
      /\ \A i \in DOMAIN writes : i # 1 => i - 1 \in DOMAIN writes' /\ writes'[i - 1] = writes[i]
    BY <1>1, <1>2, FewerCalls DEF TypeInv
<1> HIDE DEF c
<1>4. CallOK(c)
    BY <1>1, <1>3 DEF CallsOK
<1>5. /\ disk'.db = IF c.file = "db" THEN c.content ELSE disk.db
      /\ disk'.histories = IF c.file = "histories" THEN c.content ELSE disk.histories
    BY <1>1, <1>2, <1>3 DEF TypeInv, Calls
<1>6. \A task, file : Writing(task, file) => Writing(task, file)' \/ c.file = file
    <2>1. ASSUME NEW task, NEW file, NEW i \in DOMAIN writes,
                 writes[i].task = task, writes[i].file = file, c.file # file
          PROVE  \E k \in DOMAIN writes' : writes'[k].task = task /\ writes'[k].file = file
        BY <1>3, <2>1
    <2> QED
        BY <2>1 DEF Writing
<1>7. DbOK' \/ (c.file # "db" /\ (DbOK' <=> DbOK))
    BY <1>2, <1>4, <1>5 DEF DbOK, CallOK
<1>8. CallsOK'
    <2>1. ASSUME NEW i \in DOMAIN writes' PROVE CallOK(writes'[i])
        BY <1>1, <1>3 DEF CallsOK
    <2> QED
        BY <2>1, <1>2 DEF CallsOK, CallOK
<1>9. BootOK'
    <2>1. boot = "queue" => disk'.db.build = build
        BY <1>1, <1>4, <1>5 DEF BootOK, CallOK
    <2>2. boot = "wiping" => (disk'.histories => Writing(start, "histories")')
        BY <1>1, <1>4, <1>5, <1>6 DEF BootOK, CallOK
    <2> QED
        BY <1>1, <1>2, <2>1, <2>2 DEF BootOK
<1>10. StampOK'
    <2>1. \A e \in DOMAIN save : At(e, {"saving"}) => DbOK' \/ Writing(e, "db")'
        BY <1>1, <1>6, <1>7 DEF StampOK
    <2>2. \A e \in DOMAIN save' : At(e, {"saving"})' => DbOK' \/ Writing(e, "db")'
        BY <1>2, <2>1 DEF At
    <2>3. sync' \in ListSteps => DbOK' \/ Writing(conn, "db")'
        BY <1>1, <1>2, <1>6, <1>7 DEF StampOK
    <2>4. stamp' <= build' /\ build' > 0 /\ (stamp' = build' => DbOK')
        BY <1>1, <1>2, <1>7 DEF StampOK
    <2> QED
        BY <2>2, <2>3, <2>4 DEF StampOK
<1> QED
    BY <1>8, <1>9, <1>10 DEF StartInv

\* A step of the start that goes to another and makes calls, or none.
LEMMA BootStep ==
    ASSUME StartInv, TypeInv', NEW calls \in Seq(Calls), Issue(calls),
           UNCHANGED <<sync, save, prefetching, disk, stamp, build>>,
           boot \in {"wiping", "done"} => boot' \in {"wiping", "done"},
           boot = "done" => boot' = "done",
           \A j \in DOMAIN calls : CallOK(calls[j])'
    PROVE  CallsOK' /\ StampOK' /\ (\A task, file : Writing(task, file) => Writing(task, file)')
<1>1. TypeInv /\ CallsOK /\ BootOK /\ StampOK
    BY DEF StartInv
<1>2. \A task, file : Writing(task, file) => Writing(task, file)'
    BY <1>1, CallsAfter DEF Writing
<1>3. \A c : CallOK(c) =>
             /\ c.file = "db" => c.content.build = build' \/ (c.content = NoFile /\ boot' \in {"wiping", "done"})
             /\ c.file = "histories" /\ boot' # "done" => c.content = FALSE
    BY DEF CallOK
<1>4. CallsOK'
    <2>1. ASSUME NEW i \in DOMAIN writes'
          PROVE  /\ writes'[i].file = "db" =>
                        \/ writes'[i].content.build = build'
                        \/ writes'[i].content = NoFile /\ boot' \in {"wiping", "done"}
                 /\ writes'[i].file = "histories" /\ boot' # "done" => writes'[i].content = FALSE
        <3>1. CASE i \in DOMAIN writes /\ writes'[i] = writes[i]
            <4>1. CallOK(writes[i])
                BY <1>1, <3>1 DEF CallsOK
            <4> QED
                BY <1>3, <3>1, <4>1
        <3>2. CASE \E j \in DOMAIN calls : writes'[i] = calls[j]
            BY <3>2 DEF CallOK
        <3> QED
            BY <1>1, <3>1, <3>2, CallsAfter
    <2> QED
        BY <2>1 DEF CallsOK, CallOK
<1>5. StampOK'
    <2>1. DbOK' <=> DbOK
        BY DEF DbOK
    <2>2. \A e \in DOMAIN save' : At(e, {"saving"})' => DbOK' \/ Writing(e, "db")'
        <3>1. \A e \in DOMAIN save : At(e, {"saving"}) => DbOK \/ Writing(e, "db")
            BY <1>1 DEF StampOK
        <3> QED
            BY <1>2, <2>1, <3>1 DEF At
    <2>3. sync' \in ListSteps => DbOK' \/ Writing(conn, "db")'
        BY <1>1, <1>2, <2>1 DEF StampOK
    <2>4. stamp' <= build' /\ build' > 0 /\ (stamp' = build' => DbOK')
        BY <1>1, <2>1 DEF StampOK
    <2> QED
        BY <2>2, <2>3, <2>4 DEF StampOK
<1> QED
    BY <1>2, <1>4, <1>5

LEMMA StartStart ==
    ASSUME StartInv, TypeInv', CheckStamp \/ LoadHistories \/ load_local_state \/ load_offline_queue
    PROVE  StartInv'
<1> USE DEF StartUnchanged, memory, counters
<1>1. TypeInv /\ CallsOK /\ BootOK /\ StampOK
    BY DEF StartInv
<1>2. UNCHANGED <<sync, save, prefetching, disk, stamp, build>>
    BY DEF CheckStamp, LoadHistories, load_local_state, load_offline_queue
<1>3. ASSUME UNCHANGED writes,
             boot \in {"wiping", "done"} => boot' \in {"wiping", "done"},
             boot = "done" => boot' = "done"
      PROVE  CallsOK' /\ StampOK' /\ (\A task, file : Writing(task, file) => Writing(task, file)')
    <2>1. << >> \in Seq(Calls) /\ Issue(<< >>) /\ DOMAIN << >> = {}
        BY <1>1, <1>3, NoCalls
    <2>2. \A j \in DOMAIN << >> : CallOK(<< >>[j])'
        BY <2>1
    <2> QED
        BY <1>2, <1>3, <2>1, <2>2, BootStep
<1>4. CASE CheckStamp
    <2>1. CASE stamp = build /\ boot' = "histories" /\ UNCHANGED writes
        <3>1. CallsOK' /\ StampOK'
            BY <1>3, <1>4, <2>1 DEF CheckStamp
        <3>2. BootOK'
            BY <1>1, <1>4, <2>1 DEF CheckStamp, BootOK
        <3> QED
            BY <3>1, <3>2 DEF StartInv
    <2>2. CASE stamp # build /\ boot' = "wiping" /\ Issue(Cleared(start))
        <3> DEFINE calls == Cleared(start)
        <3>1. /\ calls \in Seq(Calls) /\ DOMAIN calls = {1, 2}
              /\ calls[1] = Call(start, "db", NoFile) /\ calls[2] = Call(start, "histories", FALSE)
            <4>1. Call(start, "db", NoFile) \in Calls /\ Call(start, "histories", FALSE) \in Calls
                BY <1>1, CallFacts, TaskFacts
            <4>2. \A c, d \in Calls : <<c, d>> \in Seq(Calls) /\ DOMAIN <<c, d>> = {1, 2}
                                     /\ <<c, d>>[1] = c /\ <<c, d>>[2] = d
                OBVIOUS
            <4> QED
                BY <4>1, <4>2 DEF Cleared
        <3>2. \A j \in DOMAIN calls : CallOK(calls[j])'
            BY <2>2, <3>1 DEF CallOK, Call
        <3>3. \E j \in DOMAIN calls : calls[j].task = start /\ calls[j].file = "histories"
            BY <3>1 DEF Call
        <3> HIDE DEF calls
        <3>4. Issue(calls)
            BY <2>2 DEF calls
        <3>5. CallsOK' /\ StampOK'
            BY <1>2, <1>4, <2>2, <3>1, <3>2, <3>4, BootStep DEF CheckStamp
        <3>6. Writing(start, "histories")'
            BY <1>1, <3>1, <3>3, <3>4, CallsAfter DEF Writing
        <3>7. BootOK'
            BY <1>1, <1>4, <2>2, <3>6 DEF CheckStamp, BootOK
        <3> QED
            BY <3>5, <3>7 DEF StartInv
    <2> QED
        BY <1>4, <2>1, <2>2 DEF CheckStamp
<1>5. CASE LoadHistories
    <2>1. CallsOK' /\ StampOK'
        BY <1>3, <1>5 DEF LoadHistories
    <2>2. BootOK'
        BY <1>1, <1>5 DEF LoadHistories, BootOK
    <2> QED
        BY <2>1, <2>2 DEF StartInv
<1>6. CASE load_local_state
    <2>1. CASE /\ Len(disk.db.root) > 1 /\ cards' = disk.db.cards /\ root' = disk.db.root
               /\ boot' = "queue" /\ UNCHANGED <<histories, writes>>
        <3>1. CallsOK' /\ StampOK'
            BY <1>3, <1>6, <2>1 DEF load_local_state
        <3>2. root' # NoRoot
            BY <2>1 DEF NoRoot
        <3>3. disk.db # NoFile
            BY <2>1 DEF NoFile, NoRoot
        <3>4. disk'.db.build = build' /\ stamp = build
            BY <1>1, <1>2, <1>6, <3>3 DEF load_local_state, BootOK, StampOK, DbOK
        <3>5. BootOK'
            BY <1>1, <1>2, <1>6, <2>1, <3>2, <3>4 DEF load_local_state, BootOK
        <3> QED
            BY <3>1, <3>5 DEF StartInv
    <2>2. CASE /\ histories' = FALSE /\ Issue(<<Call(start, "histories", FALSE)>>)
               /\ boot' = "wiping" /\ UNCHANGED <<cards, root>>
        <3> DEFINE c == Call(start, "histories", FALSE)
        <3>1. c \in Calls /\ c.task = start /\ c.file = "histories" /\ c.content = FALSE
            BY <1>1, CallFacts, TaskFacts DEF Call
        <3> HIDE DEF c
        <3>2. <<c>> \in Seq(Calls) /\ DOMAIN <<c>> = {1} /\ <<c>>[1] = c
            BY <3>1
        <3>7. Issue(<<c>>)
            BY <2>2 DEF c
        <3>3. \A j \in DOMAIN <<c>> : CallOK(<<c>>[j])'
            BY <3>1, <3>2 DEF CallOK
        <3>4. CallsOK' /\ StampOK'
            BY <1>2, <1>6, <2>2, <3>2, <3>3, <3>7, BootStep DEF load_local_state
        <3>5. Writing(start, "histories")'
            <4>1. \E i \in DOMAIN writes' : writes'[i] = c
                BY <1>1, <3>2, <3>7, CallsAfter
            <4> QED
                BY <3>1, <4>1 DEF Writing
        <3>6. BootOK'
            BY <1>1, <1>2, <1>6, <2>2, <3>5 DEF load_local_state, BootOK
        <3> QED
            BY <3>4, <3>6 DEF StartInv
    <2> QED
        BY <1>6, <2>1, <2>2 DEF load_local_state
<1>7. CASE load_offline_queue
    <2>1. CallsOK' /\ StampOK'
        BY <1>3, <1>7 DEF load_offline_queue
    <2>2. BootOK'
        BY <1>7 DEF load_offline_queue, BootOK
    <2> QED
        BY <2>1, <2>2 DEF StartInv
<1> QED
    BY <1>4, <1>5, <1>6, <1>7

\* Steps that make no call keep the saves and the connection from saving a list.
LEMMA QuietKeeps ==
    ASSUME StartInv, TypeInv', UNCHANGED <<boot, build, disk, writes>>,
           boot # "done" => UNCHANGED <<root, histories, prefetching, sync>>,
           stamp' = stamp \/ (stamp' = build /\ DbOK),
           sync' \in ListSteps => sync \in ListSteps,
           \A e \in DOMAIN save : save'[e].pc = "saving" => At(e, {"saving"})
    PROVE  StartInv'
<1>1. << >> \in Seq(Calls) /\ Issue(<< >>) /\ DOMAIN << >> = {}
    BY NoCalls DEF StartInv
<1>2. Keeps(<< >>)
    BY <1>1 DEF Keeps
<1> QED
    BY <1>1, <1>2, StepKeeps

\* Steps that make one call.
LEMMA CallKeeps ==
    ASSUME StartInv, TypeInv', NEW c \in Calls, Issue(<<c>>), CallOK(c), UNCHANGED <<boot, build, disk>>,
           boot # "done" => UNCHANGED <<root, histories, prefetching, sync>>,
           stamp' = stamp \/ (stamp' = build /\ DbOK),
           sync' \in ListSteps => sync \in ListSteps \/ (c.task = conn /\ c.file = "db"),
           \A e \in DOMAIN save : save'[e].pc = "saving" =>
               At(e, {"saving"}) \/ (c.task = e /\ c.file = "db")
    PROVE  StartInv'
<1>1. <<c>> \in Seq(Calls) /\ DOMAIN <<c>> = {1} /\ <<c>>[1] = c
    OBVIOUS
<1>2. \A task : c.task = task /\ c.file = "db" => Makes(<<c>>, task)
    BY <1>1 DEF Makes
<1>3. Keeps(<<c>>)
    BY <1>1, <1>2 DEF Keeps
<1> QED
    BY <1>1, <1>3, StepKeeps

LEMMA GoodCalls ==
    /\ \A task, list, r : CallOK(ListCall(task, list, r))
    /\ \A task, queue : CallOK(Call(task, "queue", queue))
    /\ \A task : CallOK(Call(task, "histories", FALSE))
    /\ \A task, h : boot = "done" => CallOK(Call(task, "histories", h)) /\ CallOK(Call(task, "db", NoFile))
    /\ \A task, list, r : ListCall(task, list, r).task = task /\ ListCall(task, list, r).file = "db"
BY DEF CallOK, ListCall, Call

LEMMA QueueKeeps ==
    ASSUME StartInv, TypeInv', NEW e \in Int, NEW id \in Ids, NEW v \in Versions, Queue(e, id, v),
           UNCHANGED <<boot, build, disk, root, histories, prefetching, sync, stamp>>
    PROVE  StartInv'
<1> DEFINE c == Call(e, "queue", offline_queue')
<1>1. TypeInv
    BY DEF StartInv
<1>2. c \in Calls /\ SavedQueue(e, offline_queue') = <<c>>
    BY <1>1, CallFacts DEF TypeInv
<1>3. CallOK(c)
    BY GoodCalls
<1> HIDE DEF c
<1>4. Issue(<<c>>)
    BY <1>2 DEF Queue
<1>5. \A x \in DOMAIN save : save'[x].pc = "saving" => At(x, {"saving"})
    <2>1. save' = [save EXCEPT ![e] = [pc |-> "queueing"]]
        BY DEF Queue, GoTo
    <2>2. \A x \in DOMAIN save : save'[x] = IF x = e THEN [pc |-> "queueing"] ELSE save[x]
        BY <1>1, <2>1 DEF TypeInv
    <2>3. [pc |-> "queueing"].pc = "queueing"
        OBVIOUS
    <2> QED
        BY <2>2, <2>3 DEF At
<1> QED
    BY <1>2, <1>3, <1>4, <1>5, CallKeeps

LEMMA UserSaveStart == ASSUME StartInv, TypeInv', NEW id \in Ids, UserSave(id) PROVE StartInv'
<1> DEFINE e == edits + 1
           v == Append(cards[id], e)
<1>1. TypeInv
    BY DEF StartInv
<1>2. v \in Versions /\ e \in Int
    BY <1>1, VersionFacts DEF TypeInv, Lists
<1>3. /\ \/ Queue(e, id, v)
         \/ /\ save' = [save EXCEPT ![e] = [pc |-> "pushing", id |-> id, version |-> v]]
            /\ UNCHANGED <<offline_queue, writes>>
      /\ UNCHANGED <<boot, build, disk, root, histories, prefetching, sync, stamp>>
    BY DEF UserSave
<1> HIDE DEF e, v
<1>4. CASE Queue(e, id, v)
    BY <1>2, <1>3, <1>4, QueueKeeps
<1>5. CASE /\ save' = [save EXCEPT ![e] = [pc |-> "pushing", id |-> id, version |-> v]]
           /\ UNCHANGED <<offline_queue, writes>>
    <2>1. \A x \in DOMAIN save : save'[x].pc = "saving" => At(x, {"saving"})
        BY <1>1, <1>5 DEF At, TypeInv
    <2> QED
        BY <1>3, <1>5, <2>1, QuietKeeps
<1> QED
    BY <1>3, <1>4, <1>5

LEMMA SaveStepStart == ASSUME StartInv, TypeInv', NEW e \in DOMAIN save, SaveStep(e) PROVE StartInv'
<1> USE DEF SaveUnchanged
<1>1. TypeInv /\ e \in Int /\ StampOK
    BY SaveFacts DEF StartInv
<1>2. UNCHANGED <<boot, build, disk, root, histories, prefetching, sync>>
    BY DEF SaveStep, Pushed, PushFailed, QueueWritten, SaveEnds
<1>3. ASSUME NEW pc, GoTo(e, pc) PROVE \A x \in DOMAIN save : save'[x].pc = IF x = e THEN pc ELSE save[x].pc
    <2>1. \A x \in DOMAIN save : save'[x] = IF x = e THEN [pc |-> pc] ELSE save[x]
        BY <1>1, <1>3 DEF GoTo, TypeInv
    <2>2. [pc |-> pc].pc = pc
        OBVIOUS
    <2> QED
        BY <2>1, <2>2
<1>4. CASE Pushed(e)
    <2>1. /\ (Issue(SavedQueue(e, offline_queue')) /\ GoTo(e, "clearing"))
             \/ (GoTo(e, "ended") /\ UNCHANGED writes)
          /\ UNCHANGED stamp
        BY <1>4 DEF Pushed
    <2>2. \A x \in DOMAIN save : save'[x].pc = "saving" => At(x, {"saving"})
        BY <2>1, <1>3 DEF At
    <2>3. CASE UNCHANGED writes
        BY <1>2, <2>1, <2>2, <2>3, QuietKeeps
    <2>4. CASE Issue(SavedQueue(e, offline_queue'))
        <3>1. Call(e, "queue", offline_queue') \in Calls
              /\ SavedQueue(e, offline_queue') = <<Call(e, "queue", offline_queue')>>
            BY <1>1, CallFacts DEF TypeInv
        <3> QED
            BY <1>2, <2>1, <2>2, <2>4, <3>1, GoodCalls, CallKeeps
    <2> QED
        BY <2>1, <2>3, <2>4
<1>5. CASE PushFailed(e)
    BY <1>1, <1>2, <1>5, SaveFacts, QueueKeeps DEF PushFailed
<1>6. CASE QueueWritten(e)
    <2>1. CASE Issue(SavedList(e, cards, root)) /\ GoTo(e, "saving")
        <3> DEFINE c == ListCall(e, cards, root)
        <3>1. c \in Calls /\ SavedList(e, cards, root) = <<c>>
            BY <1>1, CallFacts DEF TypeInv
        <3>2. CallOK(c) /\ c.task = e /\ c.file = "db"
            BY GoodCalls
        <3> HIDE DEF c
        <3>3. Issue(<<c>>) /\ UNCHANGED stamp
            BY <1>6, <2>1, <3>1 DEF QueueWritten
        <3>4. \A x \in DOMAIN save : save'[x].pc = "saving" => At(x, {"saving"}) \/ (c.task = x /\ c.file = "db")
            BY <1>3, <2>1, <3>2 DEF At
        <3> QED
            BY <1>2, <3>1, <3>2, <3>3, <3>4, CallKeeps
    <2>2. CASE GoTo(e, "ended") /\ UNCHANGED writes
        <3>1. \A x \in DOMAIN save : save'[x].pc = "saving" => At(x, {"saving"})
            BY <1>3, <2>2 DEF At
        <3>2. UNCHANGED stamp
            BY <1>6 DEF QueueWritten
        <3> QED
            BY <1>2, <2>2, <3>1, <3>2, QuietKeeps
    <2> QED
        BY <1>6, <2>1, <2>2 DEF QueueWritten
<1>7. CASE SaveEnds(e)
    <2>1. \A x \in DOMAIN save : save'[x].pc = "saving" => At(x, {"saving"})
        BY <1>3, <1>7 DEF At, SaveEnds
    <2>2. At(e, {"saving"}) => DbOK
        BY <1>1, <1>7 DEF SaveEnds, StampOK, Writing, Done
    <2>3. stamp' = stamp \/ (stamp' = build /\ DbOK)
        BY <1>7, <2>2 DEF SaveEnds
    <2>4. UNCHANGED writes
        BY <1>7 DEF SaveEnds
    <2> QED
        BY <1>2, <2>1, <2>3, <2>4, QuietKeeps
<1> QED
    BY <1>4, <1>5, <1>6, <1>7 DEF SaveStep

LEMMA FlushCalls ==
    ASSUME TypeInv, NEW set \in BOOLEAN, Flush(set)
    PROVE  \/ UNCHANGED writes /\ sync' = "live"
           \/ /\ Issue(<<Call(conn, "queue", offline_queue')>>) /\ sync' \in {"unqueued", "pushed"}
              /\ Call(conn, "queue", offline_queue') \in Calls
<1>1. CASE NoFlush
    BY <1>1 DEF NoFlush
<1>2. ASSUME NEW kept, NEW pushed, NEW had, FlushOf(set, kept, pushed, had)
      PROVE  /\ Issue(<<Call(conn, "queue", offline_queue')>>) /\ sync' \in {"unqueued", "pushed"}
             /\ Call(conn, "queue", offline_queue') \in Calls
    <2>1. Issue(SavedQueue(conn, offline_queue')) /\ sync' \in {"unqueued", "pushed"}
        BY <1>2 DEF FlushOf
    <2>2. offline_queue' \in Lists
        BY FlushTypes
    <2> QED
        BY <2>1, <2>2, CallFacts, TaskFacts
<1> QED
    BY <1>1, <1>2, FlushCases

LEMMA FlushKeeps ==
    ASSUME StartInv, TypeInv', NEW set \in BOOLEAN, Flush(set), boot = "done",
           UNCHANGED <<boot, save, disk, build>>,
           stamp' = stamp \/ (stamp' = build /\ DbOK)
    PROVE  StartInv'
<1>1. TypeInv
    BY DEF StartInv
<1>2. \A x \in DOMAIN save : save'[x].pc = "saving" => At(x, {"saving"})
    BY DEF At
<1>3. CASE UNCHANGED writes /\ sync' = "live"
    BY <1>2, <1>3, QuietKeeps DEF ListSteps
<1>4. CASE /\ Issue(<<Call(conn, "queue", offline_queue')>>) /\ sync' \in {"unqueued", "pushed"}
           /\ Call(conn, "queue", offline_queue') \in Calls
    BY <1>2, <1>4, GoodCalls, CallKeeps DEF ListSteps
<1> QED
    BY <1>1, <1>3, <1>4, FlushCalls

LEMMA ListKeeps ==
    ASSUME StartInv, TypeInv', NEW list \in Lists, NEW r \in Seq(Lists), Issue(SavedList(conn, list, r)),
           boot = "done", UNCHANGED <<boot, save, disk, build, stamp>>
    PROVE  StartInv'
<1>1. TypeInv
    BY DEF StartInv
<1>2. \A x \in DOMAIN save : save'[x].pc = "saving" => At(x, {"saving"})
    BY DEF At
<1> DEFINE c == ListCall(conn, list, r)
<1>3. c \in Calls /\ SavedList(conn, list, r) = <<c>>
    BY <1>1, CallFacts, TaskFacts
<1>4. CallOK(c) /\ c.task = conn /\ c.file = "db"
    BY GoodCalls
<1> HIDE DEF c
<1>5. Issue(<<c>>)
    BY <1>3
<1> QED
    BY <1>2, <1>3, <1>4, <1>5, CallKeeps

LEMMA SyncStart == ASSUME StartInv, TypeInv', SyncStep PROVE StartInv'
<1> USE DEF SyncUnchanged, FlushUnchanged
<1>1. TypeInv /\ BootOK /\ StampOK
    BY DEF StartInv
<1>2. UNCHANGED <<boot, save, disk, build>>
    BY DEF SyncStep, Sync, Forget, FullSync, ListWritten, QueueFlushed, FlushEnds
<1>3. boot = "done"
    BY <1>1 DEF BootOK, SyncStep, Sync, Forget, FullSync, ListWritten, QueueFlushed, FlushEnds
<1>4. \A x \in DOMAIN save : save'[x].pc = "saving" => At(x, {"saving"})
    BY <1>2 DEF At
<1>5. sync \in ListSteps /\ Done(conn) => DbOK
    BY <1>1 DEF StampOK, Writing, Done
<1>6. Current \in Lists /\ server \in Seq(Lists)
    BY <1>1, CurrentFacts DEF TypeInv
<1>7. CASE Sync
    <2>1. CASE \E list \in Lists : Issue(SavedList(conn, list, server))
        BY <1>2, <1>3, <1>6, <1>7, <2>1, ListKeeps DEF Sync
    <2>2. CASE Issue(<<Call(conn, "histories", FALSE)>>) /\ sync' = "mismatch"
        <3>1. Call(conn, "histories", FALSE) \in Calls
            BY <1>1, CallFacts, TaskFacts
        <3>2. UNCHANGED stamp
            BY <1>7 DEF Sync
        <3> QED
            BY <1>2, <1>3, <1>4, <2>2, <3>1, <3>2, GoodCalls, CallKeeps DEF ListSteps
    <2>3. root # NoRoot => Changed(root) \in Lists
        BY <1>1, ChangedFacts
    <2> QED
        BY <1>6, <1>7, <2>1, <2>2, <2>3 DEF Sync, Synced
<1>8. CASE Forget
    BY <1>2, <1>3, <1>4, <1>8, QuietKeeps DEF Forget, ListSteps
<1>9. CASE FullSync
    <2>1. UNCHANGED stamp
        BY <1>9 DEF FullSync
    <2>2. CASE Synced(Current, "resynced")
        BY <1>2, <1>3, <1>6, <2>1, <2>2, ListKeeps DEF Synced
    <2>3. CASE sync' = "down" /\ UNCHANGED <<cards, root, histories, writes>>
        BY <1>2, <1>3, <1>4, <2>1, <2>3, QuietKeeps DEF ListSteps
    <2> QED
        BY <1>9, <2>2, <2>3 DEF FullSync
<1>10. CASE ListWritten
    <2>1. stamp' = build /\ DbOK /\ Flush(client \/ sync = "connected")
          /\ (client \/ sync = "connected") \in BOOLEAN
        BY <1>5, <1>10 DEF ListWritten, ListSteps
    <2> QED
        BY <1>2, <1>3, <2>1, FlushKeeps
<1>11. CASE QueueFlushed
    BY <1>1, <1>2, <1>3, <1>11, ListKeeps DEF QueueFlushed, TypeInv
<1>12. CASE FlushEnds
    <2>1. stamp' = stamp \/ (stamp' = build /\ DbOK)
        BY <1>5, <1>12 DEF FlushEnds, ListSteps
    <2>2. CASE Flush(TRUE)
        BY <1>2, <1>3, <2>1, <2>2, FlushKeeps
    <2>3. CASE sync' = "live" /\ UNCHANGED writes
        BY <1>2, <1>3, <1>4, <2>1, <2>3, QuietKeeps DEF ListSteps
    <2> QED
        BY <1>12, <2>2, <2>3 DEF FlushEnds
<1> QED
    BY <1>7, <1>8, <1>9, <1>10, <1>11, <1>12 DEF SyncStep

LEMMA WorldStart ==
    ASSUME StartInv, TypeInv', \/ Prefetch \/ Lose \/ Disconnect \/ Restore \/ ClearLocalCache
                               \/ \E id \in Ids : RemoteSave(id)
    PROVE  StartInv'
<1> USE DEF WorldUnchanged, memory, counters
<1>1. TypeInv /\ BootOK
    BY DEF StartInv
<1>2. CASE Prefetch
    <2> DEFINE c == Call(prefetch, "histories", histories')
    <2>1. boot = "done" /\ UNCHANGED <<boot, build, disk, stamp, sync, save>>
        BY <1>1, <1>2 DEF BootOK, Prefetch
    <2>2. histories' \in BOOLEAN
        BY DEF TypeInv
    <2>3. c \in Calls /\ CallOK(c)
        BY <1>1, <2>1, <2>2, CallFacts, TaskFacts, GoodCalls
    <2>4. Issue(<<c>>)
        BY <1>2 DEF Prefetch
    <2> HIDE DEF c
    <2>5. \A x \in DOMAIN save : save'[x].pc = "saving" => At(x, {"saving"})
        BY <2>1 DEF At
    <2> QED
        BY <2>1, <2>3, <2>4, <2>5, CallKeeps
<1>3. CASE ClearLocalCache
    <2> DEFINE calls == Cleared(clearing)
    <2>1. boot = "done" /\ UNCHANGED <<boot, build, disk, stamp, sync, save>>
        BY <1>3 DEF ClearLocalCache
    <2>2. calls \in Seq(Calls) /\ \A j \in DOMAIN calls : CallOK(calls[j])
        <3>1. Call(clearing, "db", NoFile) \in Calls /\ Call(clearing, "histories", FALSE) \in Calls
            BY <1>1, CallFacts, TaskFacts
        <3>2. \A c, d \in Calls : <<c, d>> \in Seq(Calls) /\ DOMAIN <<c, d>> = {1, 2}
                                 /\ <<c, d>>[1] = c /\ <<c, d>>[2] = d
            OBVIOUS
        <3>3. CallOK(Call(clearing, "db", NoFile)) /\ CallOK(Call(clearing, "histories", FALSE))
            BY <2>1, GoodCalls
        <3>4. \A c, d \in Calls : CallOK(c) /\ CallOK(d) =>
                 <<c, d>> \in Seq(Calls) /\ \A j \in DOMAIN <<c, d>> : CallOK(<<c, d>>[j])
            BY <3>2
        <3> QED
            BY <3>1, <3>3, <3>4 DEF Cleared
    <2>3. Issue(calls)
        BY <1>3 DEF ClearLocalCache
    <2> HIDE DEF calls
    <2>4. \A x \in DOMAIN save : save'[x].pc = "saving" => At(x, {"saving"})
        BY <2>1 DEF At
    <2>5. Keeps(calls)
        BY <2>1, <2>2, <2>3, <2>4 DEF Keeps
    <2> QED
        BY <2>2, <2>5, StepKeeps
<1>4. CASE Lose \/ Disconnect \/ Restore \/ \E id \in Ids : RemoteSave(id)
    <2>1. UNCHANGED <<boot, build, disk, stamp, save, writes, root, histories, prefetching>>
        BY <1>4 DEF Lose, Disconnect, Restore, RemoteSave
    <2>2. sync' = sync \/ (sync = "live" /\ sync' = "down")
        BY <1>4 DEF Lose, Disconnect, Restore, RemoteSave
    <2>3. boot # "done" => sync' = sync
        BY <1>1, <2>2 DEF BootOK
    <2>4. sync' \in ListSteps => sync \in ListSteps
        BY <2>2 DEF ListSteps
    <2>5. \A x \in DOMAIN save : save'[x].pc = "saving" => At(x, {"saving"})
        BY <2>1 DEF At
    <2> QED
        BY <2>1, <2>3, <2>4, <2>5, QuietKeeps
<1> QED
    BY <1>2, <1>3, <1>4

LEMMA ReloadStart == ASSUME StartInv, TypeInv', Reload PROVE StartInv'
<1>1. TypeInv /\ StampOK /\ disk' = disk /\ stamp' = stamp /\ writes' = << >> /\ build' \in {build, build + 1}
      /\ boot' = "start" /\ sync' = "down" /\ prefetching' = FALSE /\ histories' = FALSE /\ root' = NoRoot
    BY DEF StartInv, Reload
<1>2. CallsOK'
    BY <1>1 DEF CallsOK
<1>3. BootOK'
    BY <1>1 DEF BootOK
<1>4. StampOK'
    <2>1. stamp <= build /\ build > 0 /\ (stamp = build => DbOK) /\ stamp \in Nat /\ build \in Nat
        BY <1>1 DEF StampOK, TypeInv
    <2>2. stamp' <= build' /\ build' > 0 /\ (stamp' = build' => DbOK')
        BY <1>1, <2>1 DEF DbOK
    <2>3. \A x \in DOMAIN save' : ~At(x, {"saving"})'
        <3>1. \A x \in DOMAIN save : save'[x] = IF At(x, {"none", "ended"}) THEN save[x] ELSE [pc |-> "cut"]
            BY DEF Reload
        <3>2. DOMAIN save' = DOMAIN save
            BY DEF Reload
        <3>3. [pc |-> "cut"].pc = "cut"
            OBVIOUS
        <3>4. \A x \in DOMAIN save : save'[x].pc \in {"none", "ended", "cut"}
            BY <3>1, <3>3 DEF At
        <3> QED
            BY <3>2, <3>4 DEF At
    <2> QED
        BY <1>1, <2>2, <2>3 DEF StampOK, ListSteps
<1> QED
    BY <1>2, <1>3, <1>4 DEF StartInv

LEMMA StartInitial == PersistInit => StartInv
<1> SUFFICES ASSUME PersistInit PROVE StartInv
    OBVIOUS
<1>1. TypeInv
    BY TypesInitial
<1>2. /\ writes = << >> /\ boot = "start" /\ sync = "down" /\ stamp = 0 /\ build = 1
      /\ histories = FALSE /\ prefetching = FALSE /\ root = NoRoot
      /\ save = [e \in 1 .. MaxEdits |-> [pc |-> "none"]]
    BY DEF PersistInit
<1>3. \A e \in DOMAIN save : ~At(e, {"saving"})
    BY <1>2 DEF At
<1> QED
    BY <1>1, <1>2, <1>3 DEF StartInv, CallsOK, BootOK, StampOK, ListSteps

LEMMA StartNext == ASSUME StartInv, PersistNext PROVE StartInv'
<1>0. TypeInv'
    BY TypesNext DEF StartInv
<1>1. CASE CheckStamp \/ LoadHistories \/ load_local_state \/ load_offline_queue
    BY <1>0, <1>1, StartStart
<1>2. CASE \E id \in Ids : UserSave(id)
    BY <1>0, <1>2, UserSaveStart
<1>3. CASE \E e \in DOMAIN save : SaveStep(e)
    BY <1>0, <1>3, SaveStepStart
<1>4. CASE Perform
    BY <1>0, <1>4, PerformStart
<1>5. CASE SyncStep
    BY <1>0, <1>5, SyncStart
<1>6. CASE Reload
    BY <1>0, <1>6, ReloadStart
<1> QED
    BY <1>0, <1>1, <1>2, <1>3, <1>4, <1>5, <1>6, WorldStart DEF PersistNext

LEMMA StartStutter == ASSUME StartInv, UNCHANGED persistVars PROVE StartInv'
<1>1. TypeInv'
    BY TypesStutter DEF StartInv
<1>2. CallsOK' /\ BootOK' /\ StampOK'
    BY DEF StartInv, CallsOK, CallOK, BootOK, StampOK, DbOK, Writing, At, persistVars, memory, counters
<1> QED
    BY <1>1, <1>2 DEF StartInv

\* Only the step that loads the queue ends the start.
LEMMA StartEnds ==
    ASSUME StartInv, PersistNext \/ UNCHANGED persistVars, boot # "done", boot' = "done"
    PROVE  /\ root' # NoRoot => disk.db.build = build
           /\ root' = NoRoot => ~histories' /\ ~disk.histories
<1>1. BootOK
    BY DEF StartInv
<1>2. load_offline_queue
    <2>1. CASE Perform \/ SyncStep \/ Prefetch \/ Lose \/ Disconnect \/ Restore \/ ClearLocalCache
        BY <2>1 DEF Perform, SyncStep, Sync, Forget, FullSync, ListWritten, QueueFlushed, FlushEnds,
                    FlushUnchanged, SyncUnchanged, Prefetch, Lose, Disconnect, Restore, ClearLocalCache,
                    WorldUnchanged
    <2>2. CASE CheckStamp \/ LoadHistories \/ load_local_state \/ Reload
        BY <2>2 DEF CheckStamp, LoadHistories, load_local_state, Reload
    <2>3. CASE \E id \in Ids : UserSave(id) \/ RemoteSave(id)
        BY <2>3 DEF UserSave, RemoteSave, WorldUnchanged
    <2>4. CASE \E e \in DOMAIN save : SaveStep(e)
        BY <2>4 DEF SaveStep, SaveUnchanged, Pushed, PushFailed, QueueWritten, SaveEnds
    <2>5. CASE UNCHANGED persistVars
        BY <2>5 DEF persistVars
    <2> QED
        BY <2>1, <2>2, <2>3, <2>4, <2>5 DEF PersistNext
<1>3. UNCHANGED <<root, histories>> /\ (boot = "queue" \/ (boot = "wiping" /\ Done(start)))
    BY <1>2 DEF load_offline_queue
<1>4. CASE boot = "queue"
    BY <1>1, <1>3, <1>4 DEF BootOK
<1>5. CASE boot = "wiping" /\ Done(start)
    BY <1>1, <1>3, <1>5 DEF BootOK, Writing, Done
<1> QED
    BY <1>3, <1>4, <1>5

(***************************************************************************)
(* For any number of cards, saves, builds and reloads, also while the      *)
(* files are read: a session starts with a list of its own build, and with *)
(* histories only if it has a list (the start of app.rs).                  *)
(***************************************************************************)
THEOREM StartsTogether == PersistSpec => StartsWithOnePiece
<1>1. StartInv /\ [PersistNext]_persistVars => StartInv'
    BY StartNext, StartStutter
<1>2. StartInv /\ [PersistNext]_persistVars =>
          [boot # "done" /\ boot' = "done" =>
              /\ root' # NoRoot => disk.db.build = build
              /\ root' = NoRoot => ~histories' /\ ~disk.histories]_persistVars
    BY StartEnds
<1> QED
    BY <1>1, <1>2, StartInitial, PTL DEF PersistSpec, StartsWithOnePiece

-----------------------------------------------------------------------------
(* Edits that survive: the calls *)

LEMMA CallAdded ==
    ASSUME NEW w \in Seq(Calls), NEW c \in Calls, NEW queue, NEW id, NEW e,
           InOrder(w, queue, id, e),
           c.file = "queue" /\ QueuedAtLast(w, queue, id, e) => Holds(c.content, id, e),
           c.file = "db" /\ Holds(c.content.cards, id, e) => QueuedAtLast(w, queue, id, e)
    PROVE  /\ InOrder(w \o <<c>>, queue, id, e)
           /\ QueuedAtLast(w \o <<c>>, queue, id, e) <=>
                 QueuedAtLast(w, queue, id, e) \/ (c.file = "queue" /\ Holds(c.content, id, e))
<1> DEFINE u == w \o <<c>>
           n == Len(w)
<1>1. /\ n \in Nat /\ Len(u) = n + 1 /\ DOMAIN w = 1 .. n /\ DOMAIN u = 1 .. (n + 1)
      /\ \A i \in 1 .. n : u[i] = w[i]
      /\ u[n + 1] = c
    BY MoreCalls
<1> HIDE DEF u, n
<1>2. \A i \in 1 .. (n + 1) : QueuedBy(u, queue, i, id, e) <=> QueuedBy(w, queue, i, id, e)
    <2>1. ASSUME NEW i \in 1 .. (n + 1), NEW j \in 1 .. i - 1
          PROVE  j \in DOMAIN u /\ j \in DOMAIN w /\ u[j] = w[j]
        BY <1>1
    <2> QED
        BY <2>1 DEF QueuedBy
<1>3. QueuedAtLast(w, queue, id, e) <=> QueuedBy(w, queue, n + 1, id, e)
    BY DEF QueuedAtLast, n
<1>4. InOrder(u, queue, id, e)
    <2>1. ASSUME NEW i \in DOMAIN u
          PROVE  /\ u[i].file = "queue" /\ QueuedBy(u, queue, i, id, e) => Holds(u[i].content, id, e)
                 /\ u[i].file = "db" /\ Holds(u[i].content.cards, id, e) => QueuedBy(u, queue, i, id, e)
        <3>1. i \in 1 .. (n + 1) /\ (QueuedBy(u, queue, i, id, e) <=> QueuedBy(w, queue, i, id, e))
            BY <1>1, <1>2
        <3>2. CASE i = n + 1
            BY <1>1, <1>3, <3>1, <3>2
        <3>3. CASE i \in 1 .. n
            BY <1>1, <3>1, <3>3 DEF InOrder
        <3> QED
            BY <1>1, <3>1, <3>2, <3>3
    <2> QED
        BY <2>1 DEF InOrder
<1>5. QueuedAtLast(u, queue, id, e) <=>
          QueuedBy(w, queue, n + 1, id, e) \/ (c.file = "queue" /\ Holds(c.content, id, e))
    <2>1. /\ (Len(u) + 1) - 1 = n + 1 /\ n + 1 \in 1 .. (n + 1) /\ (n + 1) - 1 = n
        BY <1>1
    <2>2. QueuedAtLast(u, queue, id, e) <=>
              \/ Holds(queue, id, e)
              \/ \E j \in 1 .. (n + 1) : j \in DOMAIN u /\ u[j].file = "queue" /\ Holds(u[j].content, id, e)
        <3>1. 1 .. ((Len(u) + 1) - 1) = 1 .. (n + 1)
            BY <2>1
        <3> QED
            BY <3>1 DEF QueuedAtLast, QueuedBy
    <2>3. QueuedBy(w, queue, n + 1, id, e) <=>
              \/ Holds(queue, id, e)
              \/ \E j \in 1 .. n : j \in DOMAIN w /\ w[j].file = "queue" /\ Holds(w[j].content, id, e)
        <3>1. 1 .. ((n + 1) - 1) = 1 .. n
            BY <2>1
        <3> QED
            BY <3>1 DEF QueuedBy
    <2>4. \A j \in 1 .. (n + 1) : j \in 1 .. n \/ j = n + 1
        BY <1>1
    <2>5. \A j \in 1 .. n : j \in 1 .. (n + 1)
        BY <1>1
    <2> QED
        BY <1>1, <2>1, <2>2, <2>3, <2>4, <2>5
<1> QED
    BY <1>3, <1>4, <1>5 DEF u

LEMMA CallDone ==
    ASSUME NEW w \in Seq(Calls), w # << >>, NEW queue, NEW after, NEW id, NEW e,
           InOrder(w, queue, id, e),
           after = IF Head(w).file = "queue" THEN Head(w).content ELSE queue
    PROVE  /\ InOrder(Tail(w), after, id, e)
           /\ Holds(queue, id, e) => Holds(after, id, e)
           /\ Head(w).file = "db" /\ Holds(Head(w).content.cards, id, e) => Holds(queue, id, e)
           /\ QueuedAtLast(Tail(w), after, id, e) <=> QueuedAtLast(w, queue, id, e)
<1> DEFINE u == Tail(w)
           n == Len(w)
           c == Head(w)
<1>1. /\ n \in Nat \ {0} /\ Len(u) = n - 1 /\ DOMAIN w = 1 .. n /\ DOMAIN u = 1 .. (n - 1)
      /\ \A i \in 1 .. (n - 1) : u[i] = w[i + 1]
      /\ c = w[1]
    BY FewerCalls
<1>2. after = IF c.file = "queue" THEN c.content ELSE queue
    OBVIOUS
<1> HIDE DEF u, n, c
<1>3. QueuedBy(w, queue, 1, id, e) <=> Holds(queue, id, e)
    BY DEF QueuedBy
<1>4. /\ c.file = "queue" /\ Holds(queue, id, e) => Holds(c.content, id, e)
      /\ c.file = "db" /\ Holds(c.content.cards, id, e) => Holds(queue, id, e)
    <2>1. 1 \in DOMAIN w
        BY <1>1
    <2> QED
        BY <1>1, <1>3, <2>1 DEF InOrder
<1>5. Holds(after, id, e) <=> Holds(queue, id, e) \/ (c.file = "queue" /\ Holds(c.content, id, e))
    BY <1>2, <1>4
<1>6. ASSUME NEW i \in 1 .. n
      PROVE  QueuedBy(u, after, i, id, e) <=> QueuedBy(w, queue, i + 1, id, e)
    <2>1. ASSUME NEW j \in 1 .. i - 1, j \in DOMAIN u, u[j].file = "queue", Holds(u[j].content, id, e)
          PROVE  QueuedBy(w, queue, i + 1, id, e)
        <3>1. j + 1 \in 1 .. (i + 1) - 1 /\ j + 1 \in DOMAIN w /\ w[j + 1] = u[j]
            BY <1>1, <2>1
        <3> QED
            BY <2>1, <3>1 DEF QueuedBy
    <2>2. Holds(after, id, e) => QueuedBy(w, queue, i + 1, id, e)
        <3>1. 1 \in 1 .. (i + 1) - 1 /\ 1 \in DOMAIN w
            BY <1>1
        <3> QED
            BY <1>1, <1>5, <3>1 DEF QueuedBy
    <2>3. ASSUME NEW j \in 1 .. (i + 1) - 1, j \in DOMAIN w, w[j].file = "queue", Holds(w[j].content, id, e)
          PROVE  QueuedBy(u, after, i, id, e)
        <3>1. CASE j = 1
            BY <1>1, <1>5, <2>3, <3>1 DEF QueuedBy
        <3>2. CASE j # 1
            <4>1. j - 1 \in 1 .. i - 1 /\ j - 1 \in DOMAIN u /\ u[j - 1] = w[j]
                BY <1>1, <2>3, <3>2
            <4> QED
                BY <2>3, <4>1 DEF QueuedBy
        <3> QED
            BY <3>1, <3>2
    <2>4. Holds(queue, id, e) => QueuedBy(u, after, i, id, e)
        BY <1>5 DEF QueuedBy
    <2> QED
        BY <2>1, <2>2, <2>3, <2>4 DEF QueuedBy
<1>7. InOrder(u, after, id, e)
    <2>1. ASSUME NEW i \in DOMAIN u
          PROVE  /\ u[i].file = "queue" /\ QueuedBy(u, after, i, id, e) => Holds(u[i].content, id, e)
                 /\ u[i].file = "db" /\ Holds(u[i].content.cards, id, e) => QueuedBy(u, after, i, id, e)
        <3>1. i \in 1 .. n /\ i + 1 \in DOMAIN w /\ u[i] = w[i + 1]
            BY <1>1
        <3> QED
            BY <1>6, <3>1 DEF InOrder
    <2> QED
        BY <2>1 DEF InOrder
<1>8. QueuedAtLast(u, after, id, e) <=> QueuedAtLast(w, queue, id, e)
    <2>1. Len(u) + 1 = n /\ n \in 1 .. n
        BY <1>1
    <2> QED
        BY <1>6, <2>1 DEF QueuedAtLast, n
<1> QED
    BY <1>4, <1>5, <1>7, <1>8 DEF u, c

-----------------------------------------------------------------------------
(* Edits that survive: saves, one at a time *)

\* Steps that leave the saves alone.
LEMMA FlowKeeps ==
    ASSUME FlowInv, TypeInv, UNCHANGED <<save, latest, edits>>, Idle',
           \A e \in DOMAIN save : At(e, {"pushing"}) => sync' \in {"live", "down"}
    PROVE  FlowInv'
<1>1. \A e, pcs : At(e, pcs)' <=> At(e, pcs)
    BY DEF At
<1>2. OnePush'
    BY <1>1 DEF FlowInv, OnePush
<1>3. LatestOK'
    BY DEF FlowInv, LatestOK
<1> QED
    BY <1>2, <1>3 DEF FlowInv

LEMMA StartFlow ==
    ASSUME FlowInv, TypeInv, Perform \/ CheckStamp \/ LoadHistories \/ load_local_state \/ load_offline_queue
    PROVE  FlowInv'
<1> USE DEF StartUnchanged, counters
<1>1. UNCHANGED <<save, latest, edits, sync, client, prefetching>>
    BY DEF Perform, CheckStamp, LoadHistories, load_local_state, load_offline_queue
<1>2. boot' = "done" \/ boot # "done"
    BY DEF Perform, CheckStamp, LoadHistories, load_local_state, load_offline_queue
<1>3. ASSUME boot # "done", boot' # "done", NEW i \in DOMAIN writes' PROVE writes'[i].file # "queue"
    <2>1. \A k \in DOMAIN writes : writes[k].file # "queue"
        BY <1>3 DEF FlowInv, Idle
    <2>2. CASE Perform
        <3>1. i + 1 \in DOMAIN writes /\ writes'[i] = writes[i + 1]
            BY <2>2, FewerCalls DEF Perform, TypeInv
        <3> QED
            BY <2>1, <3>1
    <2>3. ASSUME NEW calls \in Seq(Calls), Issue(calls), \A j \in DOMAIN calls : calls[j].file # "queue"
          PROVE  writes'[i].file # "queue"
        BY <2>1, <2>3, CallsAfter
    <2>4. CASE UNCHANGED writes
        BY <2>1, <2>4
    <2>5. CASE Issue(Cleared(start))
        <3>1. Call(start, "db", NoFile) \in Calls /\ Call(start, "histories", FALSE) \in Calls
            BY CallFacts, TaskFacts
        <3>2. \A c, d \in Calls : c.file # "queue" /\ d.file # "queue" =>
                 <<c, d>> \in Seq(Calls) /\ \A j \in DOMAIN <<c, d>> : <<c, d>>[j].file # "queue"
            OBVIOUS
        <3>3. Call(start, "db", NoFile).file # "queue" /\ Call(start, "histories", FALSE).file # "queue"
            BY DEF Call
        <3>4. Cleared(start) \in Seq(Calls) /\ \A j \in DOMAIN Cleared(start) : Cleared(start)[j].file # "queue"
            BY <3>1, <3>2, <3>3 DEF Cleared
        <3> QED
            BY <2>3, <2>5, <3>4
    <2>6. CASE Issue(<<Call(start, "histories", FALSE)>>)
        <3>1. Call(start, "histories", FALSE) \in Calls /\ Call(start, "histories", FALSE).file # "queue"
            BY CallFacts, TaskFacts DEF Call
        <3>2. \A c \in Calls : c.file # "queue" =>
                 <<c>> \in Seq(Calls) /\ \A j \in DOMAIN <<c>> : <<c>>[j].file # "queue"
            OBVIOUS
        <3> QED
            BY <2>3, <2>6, <3>1, <3>2
    <2> QED
        BY <1>3, <2>2, <2>4, <2>5, <2>6 DEF CheckStamp, LoadHistories, load_local_state, load_offline_queue
<1>4. Idle'
    <2>1. CASE boot' = "done"
        BY <2>1 DEF Idle
    <2>2. CASE boot # "done" /\ boot' # "done"
        BY <1>1, <1>3, <2>2 DEF FlowInv, Idle, At
    <2> QED
        BY <1>2, <2>1, <2>2
<1>5. \A e \in DOMAIN save : At(e, {"pushing"}) => sync' \in {"live", "down"}
    BY <1>1 DEF FlowInv, OnePush
<1> QED
    BY <1>1, <1>4, <1>5, FlowKeeps

LEMMA SyncFlow == ASSUME FlowInv, TypeInv, SavesWhile = {}, SyncStep PROVE FlowInv'
<1> USE DEF SyncUnchanged, FlushUnchanged
<1>1. UNCHANGED <<save, latest, edits, boot>>
    BY DEF SyncStep, Sync, Forget, FullSync, ListWritten, QueueFlushed, FlushEnds
<1>2. boot = "done"
    BY DEF FlowInv, Idle, SyncStep, Sync, Forget, FullSync, ListWritten, QueueFlushed, FlushEnds
<1>3. \A e \in DOMAIN save : ~At(e, {"pushing"})
    BY DEF FlowInv, OnePush, Pushing, SyncStep, Sync, Forget, FullSync, ListWritten, QueueFlushed, FlushEnds
<1>4. Idle'
    BY <1>1, <1>2 DEF Idle
<1> QED
    BY <1>1, <1>3, <1>4, FlowKeeps

LEMMA WorldFlow ==
    ASSUME FlowInv, TypeInv, \/ Prefetch \/ Lose \/ Disconnect \/ Restore \/ ClearLocalCache
                             \/ \E id \in Ids : RemoteSave(id)
    PROVE  FlowInv'
<1> USE DEF WorldUnchanged, memory, counters
<1>1. UNCHANGED <<save, latest, edits, boot, client>>
    BY DEF Prefetch, Lose, Disconnect, Restore, ClearLocalCache, RemoteSave
<1>2. boot = "done" \/ UNCHANGED <<writes, prefetching>>
    BY DEF FlowInv, Idle, Prefetch, Lose, Disconnect, Restore, ClearLocalCache, RemoteSave
<1>3. sync' = sync \/ sync' = "down"
    BY DEF Prefetch, Lose, Disconnect, Restore, ClearLocalCache, RemoteSave
<1>4. Idle'
    BY <1>1, <1>2, <1>3 DEF FlowInv, Idle, At
<1>5. \A e \in DOMAIN save : At(e, {"pushing"}) => sync' \in {"live", "down"}
    BY <1>3 DEF FlowInv, OnePush
<1> QED
    BY <1>1, <1>4, <1>5, FlowKeeps

LEMMA ReloadFlow == ASSUME FlowInv, TypeInv, Reload PROVE FlowInv'
<1>1. /\ boot' = "start" /\ sync' = "down" /\ client' = FALSE /\ prefetching' = FALSE /\ writes' = << >>
      /\ DOMAIN save' = DOMAIN save
      /\ \A x \in DOMAIN save : save'[x] = IF At(x, {"none", "ended"}) THEN save[x] ELSE [pc |-> "cut"]
      /\ UNCHANGED <<edits, latest>>
    BY DEF Reload
<1>2. [pc |-> "cut"].pc = "cut"
    OBVIOUS
<1>3. \A x \in DOMAIN save' : save'[x].pc \in {"none", "ended", "cut"}
    BY <1>1, <1>2 DEF At
<1>4. OnePush' /\ Idle'
    BY <1>1, <1>3 DEF OnePush, Idle, At
<1>5. LatestOK'
    BY <1>1 DEF LatestOK, FlowInv
<1> QED
    BY <1>4, <1>5 DEF FlowInv

LEMMA UserSaveFlow ==
    ASSUME FlowInv, TypeInv, SavesWhile = {}, NEW id \in Ids, UserSave(id)
    PROVE  FlowInv'
<1> DEFINE e == edits + 1
           v == Append(cards[id], e)
<1>1. /\ boot = "done" /\ (\A x \in DOMAIN save : ~At(x, {"pushing"}))
      /\ client => sync = "live" /\ \A x \in DOMAIN save : ~At(x, {"pushing", "queueing", "saving"})
    BY DEF UserSave, Pushing, Saving
<1>2. /\ edits < MaxEdits /\ edits' = e /\ latest' = [latest EXCEPT ![id] = e]
      /\ \/ ~client /\ save' = [save EXCEPT ![e] = [pc |-> "queueing"]]
         \/ client /\ save' = [save EXCEPT ![e] = [pc |-> "pushing", id |-> id, version |-> v]]
      /\ UNCHANGED <<boot, sync>>
    BY DEF UserSave, Queue, GoTo
<1>3. e \in DOMAIN save /\ DOMAIN save' = DOMAIN save /\ Last(v) = e /\ v # Absent
    <2>1. cards[id] \in Versions /\ e \in Int
        BY DEF TypeInv, Lists
    <2>2. edits \in Nat /\ edits < MaxEdits /\ DOMAIN save = 1 .. MaxEdits
        BY <1>2, SaveFacts DEF TypeInv
    <2>3. e \in DOMAIN save
        BY <2>2, PersistBounds
    <2>4. DOMAIN save' = DOMAIN save
        BY <1>2
    <2> QED
        BY <2>1, <2>3, <2>4, VersionFacts
<1> HIDE DEF v
<1>4. LatestOK'
    <2>1. \A x \in Ids : latest'[x] = IF x = id THEN e ELSE latest[x]
        BY <1>2 DEF TypeInv
    <2>2. \A x \in Ids : latest[x] <= edits /\ latest[x] \in Nat /\ edits \in Nat
        BY DEF FlowInv, LatestOK, TypeInv
    <2>3. edits' <= MaxEdits
        BY PersistBounds, <1>2, <2>2 DEF TypeInv
    <2>4. \A x \in Ids : latest'[x] <= edits'
        BY <1>2, <2>1, <2>2
    <2>5. \A x, y \in Ids : latest'[x] # 0 /\ latest'[x] = latest'[y] => x = y
        BY <2>1, <2>2 DEF FlowInv, LatestOK
    <2> QED
        BY <2>3, <2>4, <2>5 DEF LatestOK
<1>5. Idle'
    BY <1>1, <1>2 DEF Idle
<1>6. OnePush'
    <2>1. CASE ~client /\ save' = [save EXCEPT ![e] = [pc |-> "queueing"]]
        <3>1. \A x \in DOMAIN save : save'[x] = IF x = e THEN [pc |-> "queueing"] ELSE save[x]
            BY <2>1 DEF TypeInv
        <3>2. [pc |-> "queueing"].pc = "queueing"
            OBVIOUS
        <3>3. \A x \in DOMAIN save' : save'[x].pc # "pushing"
            BY <1>1, <1>3, <3>1, <3>2 DEF At
        <3> QED
            BY <3>3 DEF OnePush, At
    <2>2. CASE client /\ save' = [save EXCEPT ![e] = [pc |-> "pushing", id |-> id, version |-> v]]
        <3> DEFINE r == [pc |-> "pushing", id |-> id, version |-> v]
        <3>1. \A x \in DOMAIN save : save'[x] = IF x = e THEN r ELSE save[x]
            BY <2>2 DEF TypeInv
        <3>2. r.pc = "pushing" /\ r.id = id /\ r.version = v
            OBVIOUS
        <3> HIDE DEF r
        <3>3. \A x \in DOMAIN save : save[x].pc \notin {"pushing", "queueing", "saving"}
            BY <1>1, <2>2 DEF At
        <3>4. \A x \in DOMAIN save' : x # e => save'[x].pc \notin {"pushing", "queueing", "saving"}
            BY <1>3, <3>1, <3>3
        <3>5. latest'[id] = e /\ sync' = "live" /\ save'[e] = r
            BY <1>1, <1>2, <1>3, <2>2, <3>1 DEF TypeInv
        <3> QED
            BY <1>3, <3>2, <3>4, <3>5 DEF OnePush, At
    <2> QED
        BY <1>2, <2>1, <2>2
<1> QED
    BY <1>4, <1>5, <1>6 DEF FlowInv

LEMMA SaveStepFlow ==
    ASSUME FlowInv, TypeInv, NEW e \in DOMAIN save, SaveStep(e)
    PROVE  FlowInv'
<1> USE DEF SaveUnchanged, counters
<1>1. UNCHANGED <<latest, edits, boot, sync>>
    BY DEF SaveStep, Pushed, PushFailed, QueueWritten, SaveEnds
<1>2. PICK pc \in {"clearing", "ended", "queueing", "saving"} :
         GoTo(e, pc) /\ (pc = "saving" => At(e, {"queueing"})) /\ (pc = "queueing" => At(e, {"pushing"}))
    BY DEF SaveStep, Pushed, PushFailed, QueueWritten, SaveEnds, Queue, At
<1>3. DOMAIN save' = DOMAIN save /\ \A x \in DOMAIN save : save'[x] = IF x = e THEN [pc |-> pc] ELSE save[x]
    BY <1>2 DEF GoTo, TypeInv
<1>4. [pc |-> pc].pc = pc
    OBVIOUS
<1>5. boot = "done"
    BY DEF FlowInv, Idle, At, SaveStep, Pushed, PushFailed, QueueWritten, SaveEnds
<1>6. ASSUME NEW x \in DOMAIN save, save'[x].pc = "pushing"
      PROVE  /\ x # e /\ save'[x] = save[x] /\ save[x].pc = "pushing"
             /\ \A y \in DOMAIN save : y # x => save[y].pc \notin {"pushing", "queueing", "saving"}
    BY <1>3, <1>4, <1>6 DEF FlowInv, OnePush, At
<1>7. ASSUME NEW x \in DOMAIN save, save'[x].pc = "pushing"
      PROVE  pc \notin {"queueing", "saving"}
    BY <1>2, <1>6, <1>7 DEF At
<1>8. ASSUME NEW x \in DOMAIN save, save'[x].pc = "pushing"
      PROVE  \A y \in DOMAIN save : y # x => save'[y].pc \notin {"pushing", "queueing", "saving"}
    BY <1>3, <1>4, <1>6, <1>7, <1>8
<1>9. OnePush'
    <2>1. ASSUME NEW x \in DOMAIN save, save'[x].pc = "pushing"
          PROVE  latest'[save'[x].id] = x /\ Last(save'[x].version) = x /\ sync' \in {"live", "down"}
        BY <1>1, <1>6, <2>1 DEF FlowInv, OnePush, At
    <2> QED
        BY <1>3, <1>8, <2>1 DEF OnePush, At
<1>10. Idle' /\ LatestOK'
    BY <1>1, <1>5 DEF FlowInv, Idle, LatestOK
<1> QED
    BY <1>9, <1>10 DEF FlowInv

-----------------------------------------------------------------------------
(* Edits that survive: what lists hold *)

LEMMA LastOf == \A list \in Lists, id \in Ids : list[id] # Absent => Last(list[id]) \in Int
BY VersionFacts DEF Lists

LEMMA KnownMore ==
    ASSUME NEW list \in Lists, NEW m \in Int, NEW n \in Int, m <= n, KnownBy(list, m)
    PROVE  KnownBy(list, n)
<1>1. \A id \in Ids : list[id] # Absent => Last(list[id]) \in Int /\ Last(list[id]) <= m
    BY LastOf DEF KnownBy
<1> QED
    BY <1>1 DEF KnownBy

LEMMA EmptyKnown == \A n : KnownBy(Empty, n) /\ CallKnown(Call(0, "db", NoFile), n)
<1>1. \A n : KnownBy(Empty, n)
    BY EmptyFacts DEF KnownBy
<1>2. Call(0, "db", NoFile).file = "db" /\ Call(0, "db", NoFile).content = NoFile
    BY DEF Call
<1> QED
    BY <1>1, <1>2, EmptyFacts DEF CallKnown

LEMMA CallsKnown ==
    ASSUME TypeInv, NEW calls \in Seq(Calls), Issue(calls), NEW n,
           \A i \in DOMAIN writes : CallKnown(writes[i], n),
           \A j \in DOMAIN calls : CallKnown(calls[j], n)
    PROVE  \A i \in DOMAIN writes' : CallKnown(writes'[i], n)
<1>1. ASSUME NEW i \in DOMAIN writes' PROVE CallKnown(writes'[i], n)
    BY CallsAfter
<1> QED
    BY <1>1

LEMMA OneCallKnown ==
    ASSUME TypeInv, NEW task \in Int, NEW n, \A i \in DOMAIN writes : CallKnown(writes[i], n)
    PROVE  /\ \A list \in Lists, r \in Seq(Lists) :
                 Issue(SavedList(task, list, r)) /\ KnownBy(list, n)
                 => \A i \in DOMAIN writes' : CallKnown(writes'[i], n)
           /\ \A queue \in Lists :
                 Issue(SavedQueue(task, queue)) /\ KnownBy(queue, n)
                 => \A i \in DOMAIN writes' : CallKnown(writes'[i], n)
           /\ \A h \in BOOLEAN :
                 Issue(<<Call(task, "histories", h)>>) => \A i \in DOMAIN writes' : CallKnown(writes'[i], n)
           /\ Issue(Cleared(task)) => \A i \in DOMAIN writes' : CallKnown(writes'[i], n)
<1>1. ASSUME NEW c \in Calls, Issue(<<c>>), CallKnown(c, n)
      PROVE  \A i \in DOMAIN writes' : CallKnown(writes'[i], n)
    <2>1. <<c>> \in Seq(Calls) /\ DOMAIN <<c>> = {1} /\ <<c>>[1] = c
        OBVIOUS
    <2>2. \A j \in DOMAIN <<c>> : CallKnown(<<c>>[j], n)
        BY <1>1, <2>1
    <2> QED
        BY <1>1, <2>1, <2>2, CallsKnown
<1>2. ASSUME NEW list \in Lists, NEW r \in Seq(Lists), Issue(SavedList(task, list, r)), KnownBy(list, n)
      PROVE  \A i \in DOMAIN writes' : CallKnown(writes'[i], n)
    <2>1. CallKnown(ListCall(task, list, r), n)
        BY <1>2 DEF CallKnown, ListCall, Call
    <2>2. ListCall(task, list, r) \in Calls /\ SavedList(task, list, r) = <<ListCall(task, list, r)>>
        BY CallFacts
    <2> QED
        BY <1>1, <1>2, <2>1, <2>2
<1>3. ASSUME NEW queue \in Lists, Issue(SavedQueue(task, queue)), KnownBy(queue, n)
      PROVE  \A i \in DOMAIN writes' : CallKnown(writes'[i], n)
    <2>1. CallKnown(Call(task, "queue", queue), n)
        BY <1>3 DEF CallKnown, Call
    <2>2. Call(task, "queue", queue) \in Calls /\ SavedQueue(task, queue) = <<Call(task, "queue", queue)>>
        BY CallFacts
    <2> QED
        BY <1>1, <1>3, <2>1, <2>2
<1>4. ASSUME NEW h \in BOOLEAN, Issue(<<Call(task, "histories", h)>>)
      PROVE  \A i \in DOMAIN writes' : CallKnown(writes'[i], n)
    <2>1. CallKnown(Call(task, "histories", h), n)
        BY DEF CallKnown, Call
    <2>2. Call(task, "histories", h) \in Calls
        BY CallFacts
    <2> QED
        BY <1>1, <1>4, <2>1, <2>2
<1>5. ASSUME Issue(Cleared(task))
      PROVE  \A i \in DOMAIN writes' : CallKnown(writes'[i], n)
    <2>1. Call(task, "db", NoFile) \in Calls /\ Call(task, "histories", FALSE) \in Calls
        BY CallFacts
    <2>2. CallKnown(Call(task, "db", NoFile), n) /\ CallKnown(Call(task, "histories", FALSE), n)
        <3>1. KnownBy(NoFile.cards, n)
            BY EmptyKnown, EmptyFacts
        <3> QED
            BY <3>1 DEF CallKnown, Call
    <2>3. \A c, d \in Calls : CallKnown(c, n) /\ CallKnown(d, n) =>
             <<c, d>> \in Seq(Calls) /\ \A j \in DOMAIN <<c, d>> : CallKnown(<<c, d>>[j], n)
        <3>1. \A c, d \in Calls : <<c, d>> \in Seq(Calls) /\ DOMAIN <<c, d>> = {1, 2}
                                 /\ <<c, d>>[1] = c /\ <<c, d>>[2] = d
            OBVIOUS
        <3> QED
            BY <3>1
    <2> QED
        BY <1>5, <2>1, <2>2, <2>3, CallsKnown DEF Cleared
<1> QED
    BY <1>2, <1>3, <1>4, <1>5

\* Appending a content that the server has by then had.
LEMMA ServerKeeps ==
    ASSUME TypeInv, DataInv, NEW list \in Lists, server' = Append(server, list),
           KnownBy(list, edits), HadBy(list, settled'), settled \subseteq settled'
    PROVE  /\ \A n \in DOMAIN server' : KnownBy(server'[n], edits)
           /\ \A n \in DOMAIN server' : HadBy(server'[n], settled')
<1>1. \A n \in DOMAIN server' : server'[n] = list \/ (n \in DOMAIN server /\ server'[n] = server[n])
    BY DEF TypeInv
<1>2. \A n \in DOMAIN server : HadBy(server[n], settled')
    BY DEF DataInv, ServerHas, HadBy
<1> QED
    BY <1>1, <1>2 DEF DataInv, AllKnown

\* What the current content comes to when one of its cards is replaced.
LEMMA CardReplaced ==
    ASSUME TypeInv, DataInv, NEW id \in Ids, NEW v \in Versions, v # Absent,
           Last(v) <= edits, NEW set, settled \subseteq set, Last(v) <= 0 \/ Last(v) \in set
    PROVE  /\ [Current EXCEPT ![id] = v] \in Lists
           /\ KnownBy([Current EXCEPT ![id] = v], edits)
           /\ HadBy([Current EXCEPT ![id] = v], set)
<1> DEFINE list == [Current EXCEPT ![id] = v]
<1>1. Current \in Lists /\ KnownBy(Current, edits) /\ HadBy(Current, settled)
    BY CurrentFacts DEF DataInv, AllKnown, ServerHas
<1>2. list \in Lists
    BY <1>1 DEF Lists
<1>3. \A x \in Ids : list[x] = IF x = id THEN v ELSE Current[x]
    BY <1>1 DEF Lists
<1> HIDE DEF list
<1>4. KnownBy(list, edits)
    BY <1>1, <1>3 DEF KnownBy
<1>5. HadBy(list, set)
    BY <1>1, <1>3 DEF HadBy
<1> QED
    BY <1>2, <1>4, <1>5 DEF list

LEMMA StartData ==
    ASSUME TypeInv, DataInv, Perform \/ CheckStamp \/ LoadHistories \/ load_local_state \/ load_offline_queue
    PROVE  DataInv'
<1> USE DEF StartUnchanged, counters, memory
<1>1. UNCHANGED <<server, edits, settled>>
    BY DEF Perform, CheckStamp, LoadHistories, load_local_state, load_offline_queue
<1>2. /\ KnownBy(cards, edits) /\ KnownBy(offline_queue, edits)
      /\ KnownBy(disk.queue, edits) /\ KnownBy(disk.db.cards, edits)
      /\ \A n \in DOMAIN server : KnownBy(server[n], edits)
      /\ \A i \in DOMAIN writes : CallKnown(writes[i], edits)
    BY DEF DataInv, AllKnown
<1>3. \A i \in DOMAIN writes' : CallKnown(writes'[i], edits)
    <2>1. CASE Perform
        <3>1. \A i \in DOMAIN writes' : i + 1 \in DOMAIN writes /\ writes'[i] = writes[i + 1]
            BY <2>1, FewerCalls DEF Perform, TypeInv
        <3> QED
            BY <1>2, <3>1
    <2>2. CASE UNCHANGED writes
        BY <1>2, <2>2
    <2>3. CASE Issue(Cleared(start)) \/ Issue(<<Call(start, "histories", FALSE)>>)
        BY <1>2, <2>3, OneCallKnown, TaskFacts
    <2> QED
        BY <2>1, <2>2, <2>3 DEF CheckStamp, LoadHistories, load_local_state, load_offline_queue
<1>4. KnownBy(disk'.queue, edits) /\ KnownBy(disk'.db.cards, edits)
    <2>1. CASE Perform
        <3> DEFINE c == Head(writes)
        <3>1. c \in Calls /\ CallKnown(c, edits) /\ disk' = [disk EXCEPT ![c.file] = c.content]
            <4>1. c \in Calls /\ c = writes[1] /\ 1 \in DOMAIN writes
                BY <2>1, FewerCalls DEF Perform, TypeInv
            <4> QED
                BY <1>2, <2>1, <4>1 DEF Perform
        <3> HIDE DEF c
        <3>2. /\ disk'.db = IF c.file = "db" THEN c.content ELSE disk.db
              /\ disk'.queue = IF c.file = "queue" THEN c.content ELSE disk.queue
            BY <3>1 DEF TypeInv, Calls
        <3> QED
            BY <1>2, <3>1, <3>2 DEF CallKnown
    <2>2. CASE UNCHANGED disk
        BY <1>2, <2>2
    <2> QED
        BY <2>1, <2>2 DEF CheckStamp, LoadHistories, load_local_state, load_offline_queue
<1>5. KnownBy(cards', edits) /\ KnownBy(offline_queue', edits)
    BY <1>2 DEF Perform, CheckStamp, LoadHistories, load_local_state, load_offline_queue
<1>6. AllKnown'
    BY <1>1, <1>2, <1>3, <1>4, <1>5 DEF AllKnown
<1>7. ServerHas'
    BY <1>1 DEF DataInv, ServerHas
<1> QED
    BY <1>6, <1>7 DEF DataInv

LEMMA UserSaveData ==
    ASSUME TypeInv, TypeInv', DataInv, NEW id \in Ids, UserSave(id)
    PROVE  DataInv'
<1> DEFINE n == edits + 1
           v == Append(cards[id], n)
<1>1. /\ edits' = n /\ cards' = [cards EXCEPT ![id] = v]
      /\ \/ offline_queue' = [offline_queue EXCEPT ![id] = v] /\ Issue(SavedQueue(n, offline_queue'))
         \/ UNCHANGED <<offline_queue, writes>>
      /\ UNCHANGED <<server, disk, settled>>
    BY DEF UserSave, Queue
<1>2. edits \in Int /\ n \in Int /\ edits <= n /\ cards[id] \in Versions
    BY DEF TypeInv, Lists
<1>3. Last(v) = n
    BY <1>2, VersionFacts
<1> HIDE DEF n, v
<1>4. \A list \in Lists : KnownBy(list, edits) => KnownBy(list, n)
    BY <1>2, KnownMore
<1>5. \A list \in Lists : KnownBy(list, n) => KnownBy([list EXCEPT ![id] = v], n)
    <2>1. ASSUME NEW list \in Lists, KnownBy(list, n), NEW x \in Ids, [list EXCEPT ![id] = v][x] # Absent
          PROVE  Last([list EXCEPT ![id] = v][x]) <= n
        <3>1. [list EXCEPT ![id] = v][x] = IF x = id THEN v ELSE list[x]
            BY DEF Lists
        <3>2. list[x] # Absent => Last(list[x]) <= n
            BY <2>1 DEF KnownBy
        <3> QED
            BY <1>2, <1>3, <2>1, <3>1, <3>2
    <2> QED
        BY <2>1 DEF KnownBy
<1>6. /\ cards \in Lists /\ offline_queue \in Lists /\ offline_queue' \in Lists /\ writes \in Seq(Calls)
      /\ disk.queue \in Lists /\ disk.db.cards \in Lists /\ \A k \in DOMAIN server : server[k] \in Lists
    BY DEF TypeInv, DbFile
<1>7. KnownBy(cards', n) /\ KnownBy(offline_queue', n) /\ KnownBy(disk.queue, n) /\ KnownBy(disk.db.cards, n)
    BY <1>1, <1>4, <1>5, <1>6 DEF DataInv, AllKnown
<1>8. \A k \in DOMAIN server : KnownBy(server[k], n)
    BY <1>4, <1>6 DEF DataInv, AllKnown
<1>9. \A i \in DOMAIN writes : CallKnown(writes[i], n)
    <2>1. ASSUME NEW i \in DOMAIN writes PROVE CallKnown(writes[i], n)
        <3>1. writes[i] \in Calls /\ CallKnown(writes[i], edits)
            BY <1>6 DEF DataInv, AllKnown
        <3>2. /\ writes[i].file = "queue" => writes[i].content \in Lists
              /\ writes[i].file = "db" => writes[i].content.cards \in Lists
            BY <3>1 DEF Calls, DbFile
        <3> QED
            BY <1>4, <3>1, <3>2 DEF CallKnown
    <2> QED
        BY <2>1
<1>10. \A i \in DOMAIN writes' : CallKnown(writes'[i], n)
    BY <1>1, <1>2, <1>6, <1>7, <1>9, OneCallKnown
<1>11. AllKnown'
    BY <1>1, <1>7, <1>8, <1>10 DEF AllKnown
<1>12. ServerHas'
    BY <1>1 DEF DataInv, ServerHas
<1> QED
    BY <1>11, <1>12 DEF DataInv

\* The edit that is pushed.
LEMMA PushFacts ==
    ASSUME TypeInv, FlowInv, NEW e \in DOMAIN save, At(e, {"pushing"})
    PROVE  /\ save[e].id \in Ids /\ latest[save[e].id] = e /\ e \in Int /\ e <= edits
           /\ save[e].version \in Versions /\ save[e].version # Absent /\ Last(save[e].version) = e
           /\ Accepted(save[e].id, save[e].version) \in Versions
           /\ Accepted(save[e].id, save[e].version) # Absent
           /\ Last(Accepted(save[e].id, save[e].version)) = e
<1>1. save[e].id \in Ids /\ save[e].version \in Versions /\ save[e].version # Absent
    BY SaveFacts
<1>2. latest[save[e].id] = e /\ Last(save[e].version) = e
    BY DEF FlowInv, OnePush
<1>3. e <= edits /\ e \in Int
    BY <1>1, <1>2 DEF FlowInv, LatestOK, TypeInv
<1> QED
    BY <1>1, <1>2, <1>3, AcceptedFacts

LEMMA SaveStepData ==
    ASSUME TypeInv, TypeInv', FlowInv, DataInv, NEW e \in DOMAIN save, SaveStep(e)
    PROVE  DataInv'
<1> USE DEF SaveUnchanged, counters
<1>1. e \in Int /\ UNCHANGED <<edits, disk>>
    BY SaveFacts DEF SaveStep, Pushed, PushFailed, QueueWritten, SaveEnds
<1>2. /\ KnownBy(cards, edits) /\ KnownBy(offline_queue, edits)
      /\ KnownBy(disk.queue, edits) /\ KnownBy(disk.db.cards, edits)
      /\ \A n \in DOMAIN server : KnownBy(server[n], edits)
      /\ \A i \in DOMAIN writes : CallKnown(writes[i], edits)
    BY DEF DataInv, AllKnown
<1>3. cards \in Lists /\ root \in Seq(Lists) /\ offline_queue \in Lists /\ offline_queue' \in Lists
    BY DEF TypeInv
<1>4. CASE QueueWritten(e) \/ SaveEnds(e)
    <2>1. UNCHANGED <<server, settled, cards, offline_queue>>
        BY <1>4 DEF QueueWritten, SaveEnds
    <2>2. \A i \in DOMAIN writes' : CallKnown(writes'[i], edits)
        BY <1>1, <1>2, <1>3, <1>4, OneCallKnown DEF QueueWritten, SaveEnds
    <2>3. AllKnown' /\ ServerHas'
        BY <1>1, <1>2, <2>1, <2>2 DEF DataInv, AllKnown, ServerHas
    <2> QED
        BY <2>3 DEF DataInv
<1>5. CASE PushFailed(e)
    <2>1. /\ offline_queue' = [offline_queue EXCEPT ![save[e].id] = save[e].version]
          /\ Issue(SavedQueue(e, offline_queue')) /\ UNCHANGED <<server, settled, cards>>
        BY <1>5 DEF PushFailed, Queue
    <2>2. save[e].id \in Ids /\ Last(save[e].version) <= edits
        BY <1>5, PushFacts DEF PushFailed
    <2>3. KnownBy(offline_queue', edits)
        <3>1. \A x \in Ids : offline_queue'[x] = IF x = save[e].id THEN save[e].version ELSE offline_queue[x]
            BY <1>3, <2>1 DEF Lists
        <3> QED
            BY <1>2, <2>2, <3>1 DEF KnownBy
    <2>4. \A i \in DOMAIN writes' : CallKnown(writes'[i], edits)
        BY <1>1, <1>2, <1>3, <2>1, <2>3, OneCallKnown
    <2>5. AllKnown' /\ ServerHas'
        BY <1>1, <1>2, <2>1, <2>3, <2>4 DEF DataInv, AllKnown, ServerHas
    <2> QED
        BY <2>5 DEF DataInv
<1>6. CASE Pushed(e)
    <2> DEFINE id == save[e].id
               v == Accepted(id, save[e].version)
    <2>1. id \in Ids /\ v \in Versions /\ v # Absent /\ Last(v) = e /\ e <= edits
        BY <1>6, PushFacts DEF Pushed
    <2>2. /\ server' = Append(server, [Current EXCEPT ![id] = v])
          /\ settled' = settled \cup {e}
          /\ cards' = IF v = save[e].version THEN cards ELSE [cards EXCEPT ![id] = v]
          /\ offline_queue' = [offline_queue EXCEPT ![id] = Absent]
          /\ Issue(SavedQueue(e, offline_queue')) \/ UNCHANGED writes
        BY <1>6 DEF Pushed
    <2> HIDE DEF id, v
    <2>3. KnownBy(cards', edits)
        <3>1. \A x \in Ids : cards'[x] = cards[x] \/ (x = id /\ cards'[x] = v)
            BY <1>3, <2>2 DEF Lists
        <3> QED
            BY <1>2, <2>1, <3>1 DEF KnownBy
    <2>4. KnownBy(offline_queue', edits)
        <3>1. \A x \in Ids : offline_queue'[x] = offline_queue[x] \/ offline_queue'[x] = Absent
            BY <1>3, <2>2 DEF Lists
        <3> QED
            BY <1>2, <3>1 DEF KnownBy
    <2>5. \A i \in DOMAIN writes' : CallKnown(writes'[i], edits)
        BY <1>1, <1>2, <1>3, <2>2, <2>4, OneCallKnown
    <2>6. settled \subseteq settled' /\ Last(v) \in settled' /\ Last(v) <= edits
        BY <2>1, <2>2
    <2> DEFINE list == [Current EXCEPT ![id] = v]
    <2>7. list \in Lists /\ KnownBy(list, edits) /\ HadBy(list, settled')
        BY <2>1, <2>6, CardReplaced
    <2>8. server' = Append(server, list)
        BY <2>2
    <2> HIDE DEF list
    <2>9. /\ \A n \in DOMAIN server' : KnownBy(server'[n], edits)
          /\ \A n \in DOMAIN server' : HadBy(server'[n], settled')
        BY <2>6, <2>7, <2>8, ServerKeeps
    <2>10. AllKnown'
        BY <1>1, <1>2, <2>3, <2>4, <2>5, <2>9 DEF AllKnown
    <2>11. ServerHas'
        BY <2>9 DEF ServerHas
    <2> QED
        BY <2>10, <2>11 DEF DataInv
<1> QED
    BY <1>4, <1>5, <1>6 DEF SaveStep

\* Card by card: what a flush takes off the queue is settled, what it shows
\* anew or sends was queued.
Settles(list, before, x) ==
    list[x] = before[x] \/ (/\ offline_queue[x] # Absent /\ Last(list[x]) = Last(offline_queue[x])
                            /\ Last(offline_queue[x]) \in settled')

LEMMA FlushFacts ==
    ASSUME TypeInv, NEW set \in BOOLEAN, Flush(set)
    PROVE  /\ settled \subseteq settled'
           /\ \A x \in Ids : /\ offline_queue'[x] = offline_queue[x] \/ offline_queue'[x] = Absent
                             /\ offline_queue[x] # Absent /\ Last(offline_queue[x]) \notin settled' =>
                                   offline_queue'[x] = offline_queue[x]
                             /\ Settles(cards', cards, x)
           /\ \/ server' = server
              \/ \E list \in Lists : server' = Append(server, list) /\ \A x \in Ids : Settles(list, Current, x)
<1>1. CASE NoFlush
    BY <1>1 DEF NoFlush, Settles
<1>2. ASSUME NEW kept, NEW pushed, NEW had, FlushOf(set, kept, pushed, had)
      PROVE  /\ settled \subseteq settled'
             /\ \A x \in Ids : /\ offline_queue'[x] = offline_queue[x] \/ offline_queue'[x] = Absent
                               /\ offline_queue[x] # Absent /\ Last(offline_queue[x]) \notin settled' =>
                                     offline_queue'[x] = offline_queue[x]
                               /\ Settles(cards', cards, x)
             /\ \/ server' = server
                \/ \E list \in Lists : server' = Append(server, list) /\ \A x \in Ids : Settles(list, Current, x)
    <2> DEFINE next == [id \in Ids |-> IF id \in had THEN Accepted(id, offline_queue[id]) ELSE Current[id]]
    <2>1. /\ pushed \subseteq had /\ had \subseteq kept /\ kept \subseteq Present(offline_queue)
          /\ server' = IF had = {} THEN server ELSE Append(server, next)
          /\ cards' = [id \in Ids |-> IF id \in pushed THEN Accepted(id, offline_queue[id]) ELSE cards[id]]
          /\ settled' = settled \cup EditsIn(offline_queue, had \cup (Present(offline_queue) \ kept))
          /\ offline_queue' = [id \in Ids |-> IF id \in kept \ pushed THEN offline_queue[id] ELSE Absent]
        BY <1>2 DEF FlushOf
    <2>2. \A x \in Ids : offline_queue[x] \in Versions /\ Current[x] \in Versions
        BY CurrentFacts DEF TypeInv, Lists
    <2>3. \A x \in Ids : offline_queue[x] # Absent => /\ Accepted(x, offline_queue[x]) \in Versions
                                                      /\ Last(Accepted(x, offline_queue[x])) = Last(offline_queue[x])
        BY <2>2, AcceptedFacts
    <2>4. \A x \in Present(offline_queue) : x \in had \/ x \notin kept => Last(offline_queue[x]) \in settled'
        BY <2>1 DEF EditsIn
    <2>5. \A x \in Present(offline_queue) : x \in Ids /\ offline_queue[x] # Absent
        BY DEF Present
    <2>6. \A x \in Ids : offline_queue[x] # Absent => x \in Present(offline_queue)
        BY DEF Present
    <2>7. next \in Lists
        BY <2>1, <2>2, <2>3, <2>5 DEF Lists
    <2>8. \A x \in Ids : Settles(next, Current, x)
        BY <2>1, <2>3, <2>4, <2>5 DEF Settles
    <2>9. \A x \in Ids : Settles(cards', cards, x)
        BY <2>1, <2>3, <2>4, <2>5 DEF Settles
    <2> HIDE DEF next
    <2>10. server' = server \/ \E list \in Lists : server' = Append(server, list)
                                                 /\ \A x \in Ids : Settles(list, Current, x)
        BY <2>1, <2>7, <2>8
    <2>11. ASSUME NEW x \in Ids
           PROVE  /\ offline_queue'[x] = offline_queue[x] \/ offline_queue'[x] = Absent
                  /\ offline_queue[x] # Absent /\ Last(offline_queue[x]) \notin settled' =>
                        offline_queue'[x] = offline_queue[x]
        <3>1. offline_queue'[x] = IF x \in kept \ pushed THEN offline_queue[x] ELSE Absent
            BY <2>1
        <3> QED
            BY <2>1, <2>4, <2>6, <3>1
    <2> QED
        BY <2>1, <2>9, <2>10, <2>11
<1> QED
    BY <1>1, <1>2, FlushCases

\* A list that a flush or a synchronization makes of known ones is known.
LEMMA SettlesKnown ==
    ASSUME TypeInv, DataInv, NEW list \in Lists, NEW before \in Lists, \A x \in Ids : Settles(list, before, x)
    PROVE  /\ KnownBy(before, edits) => KnownBy(list, edits)
           /\ HadBy(before, settled) /\ settled \subseteq settled' => HadBy(list, settled')
<1>1. KnownBy(offline_queue, edits)
    BY DEF DataInv, AllKnown
<1>2. KnownBy(before, edits) => KnownBy(list, edits)
    BY <1>1 DEF KnownBy, Settles
<1>3. HadBy(before, settled) /\ settled \subseteq settled' => HadBy(list, settled')
    BY DEF HadBy, Settles
<1> QED
    BY <1>2, <1>3

LEMMA FlushData ==
    ASSUME TypeInv, TypeInv', DataInv, NEW set \in BOOLEAN, Flush(set), UNCHANGED <<disk, edits>>
    PROVE  DataInv'
<1>1. /\ KnownBy(cards, edits) /\ KnownBy(offline_queue, edits)
      /\ KnownBy(disk.queue, edits) /\ KnownBy(disk.db.cards, edits)
      /\ \A n \in DOMAIN server : KnownBy(server[n], edits)
      /\ \A i \in DOMAIN writes : CallKnown(writes[i], edits)
    BY DEF DataInv, AllKnown
<1>2. cards \in Lists /\ cards' \in Lists /\ offline_queue' \in Lists
    BY DEF TypeInv
<1>3. KnownBy(offline_queue', edits)
    BY <1>1, FlushFacts DEF KnownBy
<1>4. KnownBy(cards', edits)
    BY <1>1, <1>2, FlushFacts, SettlesKnown
<1>5. \A i \in DOMAIN writes' : CallKnown(writes'[i], edits)
    <2>1. CASE UNCHANGED writes
        BY <1>1, <2>1
    <2>2. CASE Issue(<<Call(conn, "queue", offline_queue')>>)
        <3>1. SavedQueue(conn, offline_queue') = <<Call(conn, "queue", offline_queue')>>
            BY DEF SavedQueue
        <3> QED
            BY <1>1, <1>2, <1>3, <2>2, <3>1, OneCallKnown, TaskFacts
    <2> QED
        BY <2>1, <2>2, FlushCalls
<1>6. settled \subseteq settled'
    BY FlushFacts
<1>7. /\ \A n \in DOMAIN server' : KnownBy(server'[n], edits)
      /\ \A n \in DOMAIN server' : HadBy(server'[n], settled')
    <2>1. CASE server' = server
        BY <1>1, <1>6, <2>1 DEF DataInv, ServerHas, HadBy
    <2>2. ASSUME NEW list \in Lists, server' = Append(server, list), \A x \in Ids : Settles(list, Current, x)
          PROVE  /\ \A n \in DOMAIN server' : KnownBy(server'[n], edits)
                 /\ \A n \in DOMAIN server' : HadBy(server'[n], settled')
        <3>1. Current \in Lists /\ KnownBy(Current, edits) /\ HadBy(Current, settled)
            BY <1>1, CurrentFacts DEF DataInv, ServerHas
        <3>2. KnownBy(list, edits) /\ HadBy(list, settled')
            BY <1>6, <2>2, <3>1, SettlesKnown
        <3> QED
            BY <1>6, <2>2, <3>2, ServerKeeps
    <2> QED
        BY <2>1, <2>2, FlushFacts
<1>8. AllKnown' /\ ServerHas'
    BY <1>1, <1>3, <1>4, <1>5, <1>7 DEF AllKnown, ServerHas
<1> QED
    BY <1>8 DEF DataInv

LEMMA SyncData == ASSUME TypeInv, TypeInv', DataInv, SyncStep PROVE DataInv'
<1> USE DEF SyncUnchanged, FlushUnchanged
<1>1. UNCHANGED <<disk, edits>>
    BY DEF SyncStep, Sync, Forget, FullSync, ListWritten, QueueFlushed, FlushEnds
<1>2. /\ KnownBy(cards, edits) /\ KnownBy(offline_queue, edits)
      /\ KnownBy(disk.queue, edits) /\ KnownBy(disk.db.cards, edits)
      /\ \A n \in DOMAIN server : KnownBy(server[n], edits)
      /\ \A i \in DOMAIN writes : CallKnown(writes[i], edits)
    BY DEF DataInv, AllKnown
<1>3. cards \in Lists /\ root \in Seq(Lists) /\ server \in Seq(Lists)
    BY DEF TypeInv
<1>4. ASSUME UNCHANGED <<server, offline_queue, settled>>, KnownBy(cards', edits),
             \A i \in DOMAIN writes' : CallKnown(writes'[i], edits)
      PROVE  DataInv'
    <2>1. AllKnown' /\ ServerHas'
        BY <1>1, <1>2, <1>4 DEF DataInv, AllKnown, ServerHas
    <2> QED
        BY <2>1 DEF DataInv
<1>5. ASSUME NEW list \in Lists, KnownBy(list, edits), NEW pc, Synced(list, pc),
             UNCHANGED <<server, offline_queue, settled>>
      PROVE  DataInv'
    <2>1. cards' = list /\ Issue(SavedList(conn, list, server))
        BY <1>5 DEF Synced
    <2>2. \A i \in DOMAIN writes' : CallKnown(writes'[i], edits)
        BY <1>2, <1>3, <1>5, <2>1, OneCallKnown, TaskFacts
    <2> QED
        BY <1>4, <1>5, <2>1, <2>2
<1>6. Current \in Lists /\ KnownBy(Current, edits)
    BY <1>2, CurrentFacts
<1>7. CASE Sync
    <2>1. UNCHANGED <<server, offline_queue, settled>>
        BY <1>7 DEF Sync
    <2>2. root # NoRoot => Changed(root) \in Lists /\ KnownBy(Changed(root), edits)
        BY <1>2, <1>6, ChangedFacts DEF KnownBy
    <2>3. CASE Issue(<<Call(conn, "histories", FALSE)>>) /\ UNCHANGED cards
        BY <1>2, <1>4, <2>1, <2>3, OneCallKnown, TaskFacts
    <2> QED
        BY <1>5, <1>6, <1>7, <2>1, <2>2, <2>3 DEF Sync
<1>8. CASE Forget
    BY <1>2, <1>4, <1>8 DEF Forget
<1>9. CASE FullSync
    BY <1>2, <1>4, <1>5, <1>6, <1>9 DEF FullSync
<1>10. CASE ListWritten
    <2>1. Flush(client \/ sync = "connected") /\ (client \/ sync = "connected") \in BOOLEAN
        BY <1>10 DEF ListWritten
    <2> QED
        BY <1>1, <2>1, FlushData
<1>11. CASE QueueFlushed
    <2>1. \A i \in DOMAIN writes' : CallKnown(writes'[i], edits)
        BY <1>2, <1>3, <1>11, OneCallKnown, TaskFacts DEF QueueFlushed
    <2> QED
        BY <1>2, <1>4, <1>11, <2>1 DEF QueueFlushed
<1>12. CASE FlushEnds
    <2>1. CASE Flush(TRUE)
        BY <1>1, <2>1, FlushData
    <2>2. CASE UNCHANGED <<server, cards, offline_queue, writes, settled>>
        BY <1>2, <1>4, <2>2
    <2> QED
        BY <1>12, <2>1, <2>2 DEF FlushEnds
<1> QED
    BY <1>7, <1>8, <1>9, <1>10, <1>11, <1>12 DEF SyncStep

LEMMA WorldData ==
    ASSUME TypeInv, TypeInv', FlowInv, DataInv,
           \/ Prefetch \/ Lose \/ Disconnect \/ Restore \/ ClearLocalCache \/ Reload
           \/ \E id \in Ids : RemoteSave(id)
    PROVE  DataInv'
<1> USE DEF WorldUnchanged, memory, counters
<1>1. UNCHANGED <<disk, edits>>
    BY DEF Prefetch, Lose, Disconnect, Restore, ClearLocalCache, Reload, RemoteSave
<1>2. /\ KnownBy(cards, edits) /\ KnownBy(offline_queue, edits)
      /\ KnownBy(disk.queue, edits) /\ KnownBy(disk.db.cards, edits)
      /\ \A n \in DOMAIN server : KnownBy(server[n], edits)
      /\ \A i \in DOMAIN writes : CallKnown(writes[i], edits)
    BY DEF DataInv, AllKnown
<1>3. /\ cards' = cards \/ cards' = Empty
      /\ offline_queue' = offline_queue \/ offline_queue' = Empty
    BY DEF Prefetch, Lose, Disconnect, Restore, ClearLocalCache, Reload, RemoteSave
<1>4. KnownBy(cards', edits) /\ KnownBy(offline_queue', edits)
    BY <1>2, <1>3, EmptyKnown
<1>5. \A i \in DOMAIN writes' : CallKnown(writes'[i], edits)
    <2>1. CASE UNCHANGED writes
        BY <1>2, <2>1
    <2>2. CASE Issue(Cleared(clearing))
        BY <1>2, <2>2, OneCallKnown, TaskFacts
    <2>3. CASE Prefetch
        <3>1. histories' \in BOOLEAN /\ Issue(<<Call(prefetch, "histories", histories')>>)
            BY <2>3 DEF Prefetch, TypeInv
        <3> QED
            BY <1>2, <3>1, OneCallKnown, TaskFacts
    <2>4. CASE writes' = << >>
        BY <2>4
    <2> QED
        BY <2>1, <2>2, <2>3, <2>4 DEF Lose, Disconnect, Restore, ClearLocalCache, Reload, RemoteSave
<1>6. /\ \A n \in DOMAIN server' : KnownBy(server'[n], edits)
      /\ \A n \in DOMAIN server' : HadBy(server'[n], settled')
    <2>1. CASE UNCHANGED <<server, settled>>
        BY <1>2, <2>1 DEF DataInv, ServerHas
    <2>2. CASE Restore
        <3>1. PICK n \in 1 .. Len(server) - 1 : server' = SubSeq(server, 1, n)
            BY <2>2 DEF Restore
        <3>2. server \in Seq(Lists) /\ n \in Nat /\ 1 <= n /\ n <= Len(server) /\ DOMAIN server = 1 .. Len(server)
            BY <3>1 DEF TypeInv
        <3>3. /\ SubSeq(server, 1, n) \in Seq(Lists) /\ Len(SubSeq(server, 1, n)) = n
              /\ \A i \in 1 .. n : SubSeq(server, 1, n)[i] = server[i]
            BY <3>2, SubSeqProperties
        <3>4. \A k \in DOMAIN server' : k \in DOMAIN server /\ server'[k] = server[k]
            BY <3>1, <3>2, <3>3
        <3>5. UNCHANGED settled
            BY <2>2 DEF Restore
        <3> QED
            BY <1>2, <3>4, <3>5 DEF DataInv, ServerHas
    <2>3. ASSUME NEW id \in Ids, NEW v \in Versions, v # Absent, Last(v) <= edits, settled \subseteq settled',
                 Last(v) <= 0 \/ Last(v) \in settled', server' = Append(server, [Current EXCEPT ![id] = v])
          PROVE  /\ \A n \in DOMAIN server' : KnownBy(server'[n], edits)
                 /\ \A n \in DOMAIN server' : HadBy(server'[n], settled')
        <3> DEFINE list == [Current EXCEPT ![id] = v]
        <3>1. list \in Lists /\ KnownBy(list, edits) /\ HadBy(list, settled')
            BY <2>3, CardReplaced
        <3>2. server' = Append(server, list)
            BY <2>3
        <3> HIDE DEF list
        <3> QED
            BY <2>3, <3>1, <3>2, ServerKeeps
    <2>4. CASE Lose
        <3>1. CASE UNCHANGED <<server, settled>>
            BY <2>1, <3>1
        <3>2. ASSUME NEW e \in DOMAIN save, At(e, {"pushing"}),
                     server' = Append(server, [Current EXCEPT ![save[e].id] =
                                                  Accepted(save[e].id, save[e].version)]),
                     settled' = settled \cup {e}
              PROVE  /\ \A n \in DOMAIN server' : KnownBy(server'[n], edits)
                     /\ \A n \in DOMAIN server' : HadBy(server'[n], settled')
            <4> DEFINE id == save[e].id
                       v == Accepted(id, save[e].version)
            <4>1. id \in Ids /\ v \in Versions /\ v # Absent /\ Last(v) = e /\ e <= edits
                BY <3>2, PushFacts
            <4>2. server' = Append(server, [Current EXCEPT ![id] = v])
                BY <3>2
            <4> HIDE DEF id, v
            <4>3. settled \subseteq settled' /\ Last(v) \in settled' /\ Last(v) <= edits
                BY <3>2, <4>1
            <4> QED
                BY <2>3, <4>1, <4>2, <4>3
        <3> QED
            BY <2>4, <3>1, <3>2 DEF Lose
    <2>5. ASSUME NEW id \in Ids, RemoteSave(id)
          PROVE  /\ \A n \in DOMAIN server' : KnownBy(server'[n], edits)
                 /\ \A n \in DOMAIN server' : HadBy(server'[n], settled')
        <3> DEFINE v == Append(Current[id], -events')
        <3>1. Current \in Lists /\ events' \in Nat /\ edits \in Nat
            BY CurrentFacts DEF TypeInv
        <3>2. Current[id] \in Versions /\ -events' \in Int
            BY <3>1 DEF Lists
        <3>3. v \in Versions /\ v # Absent /\ Last(v) = -events'
            BY <3>2, VersionFacts
        <3>4. server' = Append(server, [Current EXCEPT ![id] = v]) /\ settled' = settled
            BY <2>5 DEF RemoteSave
        <3> HIDE DEF v
        <3>5. Last(v) <= 0 /\ Last(v) <= edits
            <4>1. \A k, n \in Nat : -k <= 0 /\ -k <= n
                OBVIOUS
            <4>2. -events' <= 0 /\ -events' <= edits
                BY <3>1, <4>1
            <4> QED
                BY <3>3, <4>2
        <3> QED
            BY <2>3, <3>3, <3>4, <3>5
    <2> QED
        BY <2>1, <2>2, <2>4, <2>5 DEF Prefetch, Disconnect, ClearLocalCache, Reload
<1>7. AllKnown'
    BY <1>1, <1>2, <1>4, <1>5, <1>6 DEF AllKnown
<1>8. ServerHas'
    BY <1>6 DEF ServerHas
<1> QED
    BY <1>7, <1>8 DEF DataInv

-----------------------------------------------------------------------------
(* Edits that survive: where an edit is *)

LEMMA SaveSame ==
    ASSUME NEW id, NEW e, SaveSafe(id, e), disk'.queue = disk.queue,
           \A i \in DOMAIN writes : i \in DOMAIN writes' /\ writes'[i] = writes[i],
           DOMAIN save' = DOMAIN save, e \in DOMAIN save => save'[e] = save[e]
    PROVE  SaveSafe(id, e)'
BY DEF SaveSafe, At

LEMMA SafeSame ==
    ASSUME NEW id, NEW e, EditSafe(id, e), UNCHANGED <<writes, disk, boot, cards, offline_queue, save>>
    PROVE  EditSafe(id, e)'
BY DEF EditSafe, InOrder, QueuedBy, QueuedAtLast, SaveSafe, MemorySafe, Holds, At

\* Steps of a running session that make one call.
LEMMA SafeCall ==
    ASSUME TypeInv, NEW id, NEW e, NEW c \in Calls, EditSafe(id, e), Issue(<<c>>),
           boot = "done", boot' = "done", disk' = disk, SaveSafe(id, e)',
           c.file = "queue" /\ Holds(offline_queue, id, e) => Holds(c.content, id, e),
           c.file = "db" /\ Holds(c.content.cards, id, e) => Holds(offline_queue, id, e),
           Holds(offline_queue', id, e) <=>
               Holds(offline_queue, id, e) \/ (c.file = "queue" /\ Holds(c.content, id, e)),
           Holds(cards', id, e) =>
               Holds(offline_queue', id, e) \/ (e \in DOMAIN save' /\ save'[e].pc = "pushing")
    PROVE  EditSafe(id, e)'
<1>1. writes \in Seq(Calls) /\ writes' = writes \o <<c>>
    BY DEF TypeInv, Issue
<1>2. /\ InOrder(writes, disk.queue, id, e)
      /\ QueuedAtLast(writes, disk.queue, id, e) <=> Holds(offline_queue, id, e)
      /\ Holds(disk.db.cards, id, e) => Holds(disk.queue, id, e)
    BY DEF EditSafe, MemorySafe
<1>3. /\ InOrder(writes', disk.queue, id, e)
      /\ QueuedAtLast(writes', disk.queue, id, e) <=>
            QueuedAtLast(writes, disk.queue, id, e) \/ (c.file = "queue" /\ Holds(c.content, id, e))
    BY <1>1, <1>2, CallAdded
<1>4. InOrder(writes', disk'.queue, id, e) /\ (Holds(disk'.db.cards, id, e) => Holds(disk'.queue, id, e))
      /\ (QueuedAtLast(writes', disk'.queue, id, e) <=> Holds(offline_queue', id, e))
    BY <1>2, <1>3
<1>5. MemorySafe(id, e)'
    BY <1>4 DEF MemorySafe, At, QueuedAtLast, QueuedBy, Holds
<1>6. InOrder(writes, disk.queue, id, e)' /\ (Holds(disk.db.cards, id, e) => Holds(disk.queue, id, e))'
    BY <1>4 DEF InOrder, QueuedBy, Holds
<1> QED
    BY <1>5, <1>6 DEF EditSafe

\* Steps of a running session that make none.
LEMMA SafeQuiet ==
    ASSUME NEW id, NEW e, EditSafe(id, e), UNCHANGED <<writes, disk>>,
           boot = "done", boot' = "done", SaveSafe(id, e)',
           Holds(offline_queue', id, e) <=> Holds(offline_queue, id, e),
           Holds(cards', id, e) =>
               Holds(offline_queue', id, e) \/ (e \in DOMAIN save' /\ save'[e].pc = "pushing")
    PROVE  EditSafe(id, e)'
BY DEF EditSafe, InOrder, QueuedBy, QueuedAtLast, MemorySafe, Holds, At

LEMMA PerformSafe ==
    ASSUME TypeInv, NEW id, NEW e, EditSafe(id, e), Perform
    PROVE  EditSafe(id, e)'
<1> DEFINE c == Head(writes)
<1>1. /\ writes \in Seq(Calls) /\ writes # << >> /\ writes' = Tail(writes)
      /\ disk' = [disk EXCEPT ![c.file] = c.content]
      /\ UNCHANGED <<boot, cards, offline_queue, save>>
    BY DEF TypeInv, Perform, memory
<1>2. /\ disk'.db = IF c.file = "db" THEN c.content ELSE disk.db
      /\ disk'.queue = IF c.file = "queue" THEN c.content ELSE disk.queue
    <2>1. c \in Calls
        BY <1>1, FewerCalls
    <2> HIDE DEF c
    <2> QED
        BY <1>1, <2>1 DEF TypeInv, Calls
<1>3. InOrder(writes, disk.queue, id, e) /\ (Holds(disk.db.cards, id, e) => Holds(disk.queue, id, e))
      /\ SaveSafe(id, e) /\ MemorySafe(id, e)
    BY DEF EditSafe
<1>4. /\ InOrder(Tail(writes), disk'.queue, id, e)
      /\ Holds(disk.queue, id, e) => Holds(disk'.queue, id, e)
      /\ c.file = "db" /\ Holds(c.content.cards, id, e) => Holds(disk.queue, id, e)
      /\ QueuedAtLast(Tail(writes), disk'.queue, id, e) <=> QueuedAtLast(writes, disk.queue, id, e)
    BY <1>1, <1>2, <1>3, CallDone
<1>5. Holds(disk'.db.cards, id, e) => Holds(disk'.queue, id, e)
    BY <1>2, <1>3, <1>4
<1>6. SaveSafe(id, e)'
    <2>1. ASSUME NEW j \in DOMAIN writes, writes[j].task = e, writes[j].file = "queue",
                 Holds(writes[j].content, id, e)
          PROVE  \/ Holds(disk'.queue, id, e)
                 \/ \E k \in DOMAIN writes' : /\ writes'[k].task = e /\ writes'[k].file = "queue"
                                             /\ Holds(writes'[k].content, id, e)
        <3>1. CASE j = 1
            BY <1>1, <1>2, <2>1, <3>1, FewerCalls
        <3>2. CASE j # 1
            <4>1. j - 1 \in DOMAIN writes' /\ writes'[j - 1] = writes[j]
                BY <1>1, <3>2, FewerCalls
            <4> QED
                BY <2>1, <4>1
        <3> QED
            BY <3>1, <3>2
    <2> HIDE DEF c
    <2> QED
        BY <1>1, <1>3, <1>4, <2>1 DEF SaveSafe, At, Holds
<1> HIDE DEF c
<1>7. MemorySafe(id, e)'
    <2>1. QueuedAtLast(writes', disk'.queue, id, e) <=> QueuedAtLast(writes, disk.queue, id, e)
        BY <1>1, <1>4
    <2>2. (boot = "done" /\ (QueuedAtLast(writes, disk.queue, id, e) <=> Holds(offline_queue, id, e)))
          => (QueuedAtLast(writes, disk.queue, id, e)' <=> Holds(offline_queue, id, e)')
        BY <1>1, <2>1 DEF QueuedAtLast, QueuedBy, Holds
    <2>3. Holds(disk.queue, id, e) => Holds(disk.queue, id, e)'
        BY <1>4 DEF Holds
    <2>4. Holds(cards, id, e)' <=> Holds(cards, id, e)
        BY <1>1 DEF Holds
    <2>5. Holds(offline_queue, id, e)' <=> Holds(offline_queue, id, e)
        BY <1>1 DEF Holds
    <2> QED
        BY <1>1, <1>3, <2>2, <2>3, <2>4, <2>5 DEF MemorySafe, At
<1>8. InOrder(writes, disk.queue, id, e)' /\ (Holds(disk.db.cards, id, e) => Holds(disk.queue, id, e))'
    BY <1>1, <1>4, <1>5 DEF InOrder, QueuedBy, Holds
<1> QED
    BY <1>6, <1>7, <1>8 DEF EditSafe

\* Wiping a list or writing histories changes nothing for an edit.
LEMMA OrderWiped ==
    ASSUME TypeInv, NEW id \in Ids, NEW e, NEW queue, InOrder(writes, queue, id, e), NEW task \in Int,
           NEW h \in BOOLEAN, Issue(Cleared(task)) \/ Issue(<<Call(task, "histories", h)>>)
    PROVE  /\ InOrder(writes', queue, id, e)
           /\ QueuedAtLast(writes', queue, id, e) <=> QueuedAtLast(writes, queue, id, e)
           /\ \A i \in DOMAIN writes : i \in DOMAIN writes' /\ writes'[i] = writes[i]
<1>1. writes \in Seq(Calls)
    BY DEF TypeInv
<1>2. ~Holds(NoFile.cards, id, e)
    BY EmptyFacts DEF Holds
<1>3. ASSUME NEW w \in Seq(Calls), NEW c \in Calls, c.file # "queue",
             c.file = "db" => c.content = NoFile, InOrder(w, queue, id, e)
      PROVE  /\ InOrder(w \o <<c>>, queue, id, e)
             /\ QueuedAtLast(w \o <<c>>, queue, id, e) <=> QueuedAtLast(w, queue, id, e)
    <2>1. c.file = "db" => ~Holds(c.content.cards, id, e)
        BY <1>2, <1>3
    <2> QED
        BY <1>3, <2>1, CallAdded
<1>4. \A i \in DOMAIN writes : i \in DOMAIN writes' /\ writes'[i] = writes[i]
    <2>1. \A c, d \in Calls : <<c, d>> \in Seq(Calls) /\ <<c>> \in Seq(Calls)
        OBVIOUS
    <2>2. Cleared(task) \in Seq(Calls) /\ <<Call(task, "histories", h)>> \in Seq(Calls)
        BY <2>1, CallFacts DEF Cleared
    <2> QED
        BY <2>2, CallsAfter
<1>5. CASE Issue(<<Call(task, "histories", h)>>)
    <2> DEFINE c == Call(task, "histories", h)
    <2>1. c \in Calls /\ c.file = "histories"
        BY CallFacts DEF Call
    <2>2. writes' = writes \o <<c>>
        BY <1>5 DEF Issue
    <2> HIDE DEF c
    <2> QED
        BY <1>1, <1>3, <1>4, <2>1, <2>2
<1>6. CASE Issue(Cleared(task))
    <2> DEFINE c == Call(task, "db", NoFile)
               d == Call(task, "histories", FALSE)
    <2>1. /\ c \in Calls /\ c.file = "db" /\ c.content = NoFile
          /\ d \in Calls /\ d.file = "histories"
        BY CallFacts DEF Call
    <2>2. writes' = writes \o <<c, d>>
        BY <1>6 DEF Issue, Cleared
    <2> HIDE DEF c, d
    <2>3. writes' = (writes \o <<c>>) \o <<d>> /\ writes \o <<c>> \in Seq(Calls)
        BY <1>1, <2>1, <2>2, TwoCalls, MoreCalls
    <2> DEFINE u == writes \o <<c>>
    <2>4. u \in Seq(Calls) /\ InOrder(u, queue, id, e)
          /\ (QueuedAtLast(u, queue, id, e) <=> QueuedAtLast(writes, queue, id, e))
        BY <1>1, <1>3, <2>1, <2>3
    <2>5. writes' = u \o <<d>>
        BY <2>3
    <2> HIDE DEF u
    <2>6. /\ InOrder(u \o <<d>>, queue, id, e)
          /\ QueuedAtLast(u \o <<d>>, queue, id, e) <=> QueuedAtLast(u, queue, id, e)
        BY <1>3, <2>1, <2>4
    <2> QED
        BY <1>4, <2>4, <2>5, <2>6
<1> QED
    BY <1>5, <1>6

LEMMA SafeWiped ==
    ASSUME TypeInv, NEW id \in Ids, NEW e, EditSafe(id, e), NEW task \in Int, NEW h \in BOOLEAN,
           Issue(Cleared(task)) \/ Issue(<<Call(task, "histories", h)>>),
           UNCHANGED <<disk, save, offline_queue, cards>>, boot' = "done" <=> boot = "done"
    PROVE  EditSafe(id, e)'
<1>1. InOrder(writes, disk.queue, id, e) /\ (Holds(disk.db.cards, id, e) => Holds(disk.queue, id, e))
      /\ SaveSafe(id, e) /\ MemorySafe(id, e)
    BY DEF EditSafe
<1>2. /\ InOrder(writes', disk.queue, id, e)
      /\ QueuedAtLast(writes', disk.queue, id, e) <=> QueuedAtLast(writes, disk.queue, id, e)
      /\ \A i \in DOMAIN writes : i \in DOMAIN writes' /\ writes'[i] = writes[i]
    BY <1>1, OrderWiped
<1>3. SaveSafe(id, e)'
    BY <1>1, <1>2, SaveSame
<1>4. QueuedAtLast(writes, disk.queue, id, e)' <=> QueuedAtLast(writes, disk.queue, id, e)
    BY <1>2 DEF QueuedAtLast, QueuedBy, Holds
<1>5. MemorySafe(id, e)'
    BY <1>1, <1>4 DEF MemorySafe, Holds, At
<1>6. InOrder(writes, disk.queue, id, e)' /\ (Holds(disk.db.cards, id, e) => Holds(disk.queue, id, e))'
    BY <1>1, <1>2 DEF InOrder, QueuedBy, Holds
<1> QED
    BY <1>3, <1>5, <1>6 DEF EditSafe

LEMMA StartSafe ==
    ASSUME EditsInv, CheckStamp \/ LoadHistories \/ load_local_state \/ load_offline_queue,
           NEW id \in Ids, NEW e \in Nat, OpenEdit(id, e)'
    PROVE  EditSafe(id, e)'
<1> USE DEF StartUnchanged, memory, counters
<1>1. TypeInv /\ UNCHANGED <<save, disk, latest, settled>>
    BY DEF EditsInv, CheckStamp, LoadHistories, load_local_state, load_offline_queue
<1>2. EditSafe(id, e)
    BY <1>1 DEF EditsInv, SafeInv, OpenEdit
<1>3. InOrder(writes, disk.queue, id, e) /\ (Holds(disk.db.cards, id, e) => Holds(disk.queue, id, e))
      /\ SaveSafe(id, e) /\ MemorySafe(id, e)
    BY <1>2 DEF EditSafe
<1>4. ASSUME UNCHANGED writes, MemorySafe(id, e)' PROVE EditSafe(id, e)'
    <2>1. SaveSafe(id, e)'
        BY <1>1, <1>3, <1>4, SaveSame
    <2>2. InOrder(writes, disk.queue, id, e)' /\ (Holds(disk.db.cards, id, e) => Holds(disk.queue, id, e))'
        BY <1>1, <1>3, <1>4 DEF InOrder, QueuedBy, Holds
    <2> QED
        BY <1>4, <2>1, <2>2 DEF EditSafe
<1>5. CASE CheckStamp
    <2>1. CASE boot' = "histories" /\ UNCHANGED writes
        BY <1>1, <1>3, <1>4, <1>5, <2>1 DEF CheckStamp, MemorySafe, Holds
    <2>2. CASE boot' = "wiping" /\ Issue(Cleared(start))
        BY <1>1, <1>2, <1>5, <2>2, SafeWiped, TaskFacts DEF CheckStamp
    <2> QED
        BY <1>5, <2>1, <2>2 DEF CheckStamp
<1>6. CASE LoadHistories
    BY <1>1, <1>3, <1>4, <1>6 DEF LoadHistories, MemorySafe, Holds
<1>7. CASE load_local_state
    <2>1. CASE cards' = disk.db.cards /\ boot' = "queue" /\ UNCHANGED writes
        BY <1>1, <1>3, <1>4, <1>7, <2>1 DEF load_local_state, MemorySafe, Holds
    <2>2. CASE Issue(<<Call(start, "histories", FALSE)>>) /\ boot' = "wiping" /\ UNCHANGED cards
        BY <1>1, <1>2, <1>7, <2>2, SafeWiped, TaskFacts DEF load_local_state
    <2> QED
        BY <1>7, <2>1, <2>2 DEF load_local_state
<1>8. CASE load_offline_queue
    <2>1. boot # "done" /\ offline_queue' = disk.queue /\ UNCHANGED <<cards, writes>>
        BY <1>8 DEF load_offline_queue
    <2>2. \A i \in DOMAIN writes : writes[i].file # "queue"
        BY <2>1 DEF EditsInv, FlowInv, Idle
    <2>3. QueuedAtLast(writes, disk.queue, id, e) <=> Holds(disk.queue, id, e)
        BY <2>2 DEF QueuedAtLast, QueuedBy
    <2>4. Holds(cards, id, e) => Holds(disk.queue, id, e)
        BY <1>3, <2>1 DEF MemorySafe
    <2>5. (QueuedAtLast(writes, disk.queue, id, e) <=> Holds(offline_queue, id, e))'
        BY <1>1, <2>1, <2>3 DEF QueuedAtLast, QueuedBy, Holds
    <2>6. (Holds(cards, id, e) => Holds(offline_queue, id, e))'
        BY <2>1, <2>4 DEF Holds
    <2>7. boot' = "done"
        BY <1>8 DEF load_offline_queue
    <2> QED
        BY <1>4, <2>1, <2>5, <2>6, <2>7 DEF MemorySafe
<1> QED
    BY <1>5, <1>6, <1>7, <1>8

LEMMA ReloadSafe ==
    ASSUME EditsInv, Reload, NEW id \in Ids, NEW e \in Nat, OpenEdit(id, e)'
    PROVE  EditSafe(id, e)'
<1>1. /\ UNCHANGED <<disk, latest, settled>> /\ writes' = << >> /\ cards' = Empty /\ boot' = "start"
      /\ DOMAIN save' = DOMAIN save
      /\ \A x \in DOMAIN save : save'[x] = IF At(x, {"none", "ended"}) THEN save[x] ELSE [pc |-> "cut"]
    BY DEF Reload
<1>2. EditSafe(id, e)
    BY <1>1 DEF EditsInv, SafeInv, OpenEdit
<1>3. (Holds(disk.db.cards, id, e) => Holds(disk.queue, id, e)) /\ SaveSafe(id, e)
    BY <1>2 DEF EditSafe
<1>4. [pc |-> "cut"].pc = "cut"
    OBVIOUS
<1>5. \A x \in DOMAIN save : /\ save'[x].pc \in {"none", "ended", "cut"}
                             /\ save'[x].pc = "ended" => save[x].pc = "ended"
    BY <1>1, <1>4 DEF At
<1>6. SaveSafe(id, e)'
    BY <1>1, <1>3, <1>5 DEF SaveSafe, At, Holds
<1>7. MemorySafe(id, e)'
    BY <1>1, EmptyFacts DEF MemorySafe, Holds
<1>8. InOrder(writes, disk.queue, id, e)' /\ (Holds(disk.db.cards, id, e) => Holds(disk.queue, id, e))'
    BY <1>1, <1>3 DEF InOrder, Holds
<1> QED
    BY <1>6, <1>7, <1>8 DEF EditSafe

\* An edit that was not made yet is nowhere.
LEMMA FreshEdit ==
    ASSUME EditsInv, NEW id \in Ids, NEW e \in Nat, e = edits + 1
    PROVE  /\ \A list \in Lists : KnownBy(list, edits) => ~Holds(list, id, e)
           /\ ~Holds(cards, id, e) /\ ~Holds(offline_queue, id, e)
           /\ ~Holds(disk.queue, id, e) /\ ~Holds(disk.db.cards, id, e)
           /\ InOrder(writes, disk.queue, id, e) /\ ~QueuedAtLast(writes, disk.queue, id, e)
<1>1. TypeInv /\ AllKnown
    BY DEF EditsInv, DataInv
<1>2. ASSUME NEW list \in Lists, KnownBy(list, edits) PROVE ~Holds(list, id, e)
    <2>1. list[id] # Absent => Last(list[id]) \in Int /\ Last(list[id]) <= edits
        BY <1>2, LastOf DEF KnownBy
    <2>2. edits \in Nat
        BY <1>1 DEF TypeInv
    <2> QED
        BY <2>1, <2>2 DEF Holds
<1>3. cards \in Lists /\ offline_queue \in Lists /\ disk.queue \in Lists /\ disk.db.cards \in Lists
    BY <1>1 DEF TypeInv, DbFile
<1>4. ~Holds(cards, id, e) /\ ~Holds(offline_queue, id, e) /\ ~Holds(disk.queue, id, e) /\ ~Holds(disk.db.cards, id, e)
    BY <1>1, <1>2, <1>3 DEF AllKnown
<1>5. \A i \in DOMAIN writes : /\ writes[i].file = "queue" => ~Holds(writes[i].content, id, e)
                               /\ writes[i].file = "db" => ~Holds(writes[i].content.cards, id, e)
    <2>1. ASSUME NEW i \in DOMAIN writes
          PROVE  /\ writes[i].file = "queue" => ~Holds(writes[i].content, id, e)
                 /\ writes[i].file = "db" => ~Holds(writes[i].content.cards, id, e)
        <3>1. writes[i] \in Calls /\ CallKnown(writes[i], edits)
            BY <1>1 DEF TypeInv, AllKnown
        <3>2. /\ writes[i].file = "queue" => writes[i].content \in Lists
              /\ writes[i].file = "db" => writes[i].content.cards \in Lists
            BY <3>1 DEF Calls, DbFile
        <3> QED
            BY <1>2, <3>1, <3>2 DEF CallKnown
    <2> QED
        BY <2>1
<1>6. InOrder(writes, disk.queue, id, e) /\ ~QueuedAtLast(writes, disk.queue, id, e)
    BY <1>4, <1>5 DEF InOrder, QueuedAtLast, QueuedBy
<1> QED
    BY <1>2, <1>4, <1>6

LEMMA UserSaveSafe ==
    ASSUME EditsInv, TypeInv', SavesWhile = {}, NEW card \in Ids, UserSave(card),
           NEW id \in Ids, NEW e \in Nat, OpenEdit(id, e)'
    PROVE  EditSafe(id, e)'
<1> DEFINE n == edits + 1
           v == Append(cards[card], n)
           r == [pc |-> "pushing", id |-> card, version |-> v]
           c == Call(n, "queue", offline_queue')
<1>1. TypeInv
    BY DEF EditsInv
<1>2. /\ boot = "done" /\ edits < MaxEdits
      /\ latest' = [latest EXCEPT ![card] = n] /\ cards' = [cards EXCEPT ![card] = v]
      /\ \/ Queue(n, card, v)
         \/ save' = [save EXCEPT ![n] = r] /\ UNCHANGED <<offline_queue, writes>>
      /\ UNCHANGED <<boot, disk, settled>>
    BY DEF UserSave
<1>3. n \in Int /\ n \in Nat /\ n \in DOMAIN save /\ n # 0 /\ edits < n
    <2>1. edits \in Nat /\ DOMAIN save = 1 .. MaxEdits
        BY <1>1, SaveFacts DEF TypeInv
    <2> QED
        BY PersistBounds, <1>2, <2>1
<1>4. v \in Versions /\ v # Absent /\ Last(v) = n
    BY <1>1, <1>3, VersionFacts DEF TypeInv, Lists
<1>5. /\ Queue(n, card, v) => /\ offline_queue' = [offline_queue EXCEPT ![card] = v]
                              /\ Issue(<<c>>) /\ save' = [save EXCEPT ![n] = [pc |-> "queueing"]]
      /\ c \in Calls /\ c.task = n /\ c.file = "queue" /\ c.content = offline_queue'
    <2>1. offline_queue' \in Lists
        BY DEF TypeInv
    <2>2. c \in Calls /\ SavedQueue(n, offline_queue') = <<c>>
        BY <1>1, <1>3, <2>1, CallFacts
    <2> QED
        BY <2>2 DEF Queue, GoTo, Call
<1>6. \A x \in Ids : /\ latest'[x] = IF x = card THEN n ELSE latest[x]
                     /\ cards'[x] = IF x = card THEN v ELSE cards[x]
    BY <1>1, <1>2 DEF TypeInv, Lists
<1>7. Queue(n, card, v) => \A x \in Ids : offline_queue'[x] = IF x = card THEN v ELSE offline_queue[x]
    BY <1>1, <1>5 DEF TypeInv, Lists
<1>8. DOMAIN save' = DOMAIN save /\ \A x \in DOMAIN save : x # n => save'[x] = save[x]
    BY <1>1, <1>2, <1>5 DEF TypeInv
<1>9. /\ Queue(n, card, v) => save'[n].pc = "queueing"
      /\ ~Queue(n, card, v) => save'[n].pc = "pushing"
    <2>1. r.pc = "pushing" /\ [pc |-> "queueing"].pc = "queueing"
        OBVIOUS
    <2> HIDE DEF r
    <2>2. save' = [save EXCEPT ![n] = r] => save'[n] = r
        BY <1>1, <1>3 DEF TypeInv
    <2>3. save' = [save EXCEPT ![n] = [pc |-> "queueing"]] => save'[n] = [pc |-> "queueing"]
        BY <1>1, <1>3 DEF TypeInv
    <2> QED
        BY <1>2, <1>5, <2>1, <2>2, <2>3
<1> HIDE DEF n, v, r, c
<1>10. e = latest'[id] /\ e # 0 /\ e \notin settled
    BY <1>2 DEF OpenEdit
<1>11. CASE id = card
    <2>1. e = n /\ e = edits + 1
        BY <1>6, <1>10, <1>11 DEF n
    <2>2. /\ ~Holds(cards, id, e) /\ ~Holds(offline_queue, id, e)
          /\ ~Holds(disk.queue, id, e) /\ ~Holds(disk.db.cards, id, e)
          /\ InOrder(writes, disk.queue, id, e) /\ ~QueuedAtLast(writes, disk.queue, id, e)
        BY <2>1, FreshEdit
    <2>3. CASE Queue(n, card, v)
        <3>1. Holds(offline_queue', id, e)
            BY <1>4, <1>7, <1>11, <2>1, <2>3 DEF Holds
        <3>2. writes \in Seq(Calls) /\ writes' = writes \o <<c>>
            BY <1>1, <1>5, <2>3 DEF TypeInv, Issue
        <3>3. InOrder(writes', disk.queue, id, e) /\ QueuedAtLast(writes', disk.queue, id, e)
            BY <1>5, <2>2, <3>1, <3>2, CallAdded
        <3>4. \E j \in DOMAIN writes' : writes'[j].task = e /\ writes'[j].file = "queue"
                                       /\ Holds(writes'[j].content, id, e)
            <4>1. Len(writes) + 1 \in DOMAIN writes' /\ writes'[Len(writes) + 1] = c
                BY <1>5, <3>2, MoreCalls
            <4> QED
                BY <1>5, <2>1, <3>1, <4>1
        <3>5. SaveSafe(id, e)'
            BY <1>9, <2>1, <2>3, <3>4 DEF SaveSafe, At, Holds
        <3>6. MemorySafe(id, e)'
            <4>1. boot' = "done" /\ disk' = disk
                BY <1>2
            <4>2. QueuedAtLast(writes, disk.queue, id, e)' /\ Holds(offline_queue, id, e)'
                BY <3>1, <3>3, <4>1 DEF QueuedAtLast, QueuedBy, Holds
            <4> QED
                BY <4>1, <4>2 DEF MemorySafe
        <3>7. InOrder(writes, disk.queue, id, e)' /\ (Holds(disk.db.cards, id, e) => Holds(disk.queue, id, e))'
            BY <1>2, <2>2, <3>3 DEF InOrder, QueuedBy, Holds
        <3> QED
            BY <3>5, <3>6, <3>7 DEF EditSafe
    <2>4. CASE ~Queue(n, card, v)
        <3>1. UNCHANGED <<offline_queue, writes, disk>> /\ boot' = "done" /\ save'[e].pc = "pushing"
              /\ e \in DOMAIN save'
            BY <1>2, <1>3, <1>8, <1>9, <2>1, <2>4
        <3>2. SaveSafe(id, e)'
            BY <3>1 DEF SaveSafe, At
        <3>3. MemorySafe(id, e)'
            BY <2>2, <3>1 DEF MemorySafe, At, QueuedAtLast, QueuedBy, Holds
        <3>4. InOrder(writes, disk.queue, id, e)' /\ (Holds(disk.db.cards, id, e) => Holds(disk.queue, id, e))'
            BY <2>2, <3>1 DEF InOrder, QueuedBy, Holds
        <3> QED
            BY <3>2, <3>3, <3>4 DEF EditSafe
    <2> QED
        BY <2>3, <2>4
<1>12. CASE id # card
    <2>1. e = latest[id] /\ OpenEdit(id, e)
        BY <1>6, <1>10, <1>12 DEF OpenEdit
    <2>2. EditSafe(id, e)
        BY <2>1 DEF EditsInv, SafeInv
    <2>3. e # n
        <3>1. e <= edits /\ edits \in Int
            BY <1>1, <2>1 DEF EditsInv, FlowInv, LatestOK, TypeInv
        <3> QED
            BY <1>3, <3>1
    <2>4. cards'[id] = cards[id] /\ offline_queue'[id] = offline_queue[id]
        BY <1>2, <1>6, <1>7, <1>12
    <2>5. SaveSafe(id, e) /\ MemorySafe(id, e) /\ disk' = disk /\ boot' = "done"
        BY <1>2, <2>2 DEF EditSafe
    <2>6. \A i \in DOMAIN writes : i \in DOMAIN writes' /\ writes'[i] = writes[i]
        <3>1. <<c>> \in Seq(Calls)
            BY <1>5
        <3> QED
            BY <1>1, <1>2, <1>5, <3>1, CallsAfter
    <2>7. SaveSafe(id, e)'
        BY <1>8, <2>3, <2>5, <2>6, SaveSame
    <2>8. Holds(offline_queue', id, e) <=> Holds(offline_queue, id, e)
        BY <2>4 DEF Holds
    <2>9. Holds(cards', id, e) =>
              Holds(offline_queue', id, e) \/ (e \in DOMAIN save' /\ save'[e].pc = "pushing")
        BY <1>2, <1>8, <2>3, <2>4, <2>5 DEF MemorySafe, Holds, At
    <2>10. CASE Queue(n, card, v)
        BY <1>1, <1>2, <1>5, <2>2, <2>5, <2>7, <2>8, <2>9, <2>10, SafeCall
    <2>11. CASE ~Queue(n, card, v)
        BY <1>2, <2>2, <2>5, <2>7, <2>8, <2>9, <2>11, SafeQuiet
    <2> QED
        BY <2>10, <2>11
<1> QED
    BY <1>11, <1>12

LEMMA SaveStepSafe ==
    ASSUME EditsInv, TypeInv', NEW x \in DOMAIN save, SaveStep(x),
           NEW id \in Ids, NEW e \in Nat, OpenEdit(id, e)'
    PROVE  EditSafe(id, e)'
<1> USE DEF SaveUnchanged, counters
<1>1. TypeInv /\ FlowInv /\ x \in Int
    BY SaveFacts DEF EditsInv
<1>2. UNCHANGED <<latest, disk, boot>> /\ settled \subseteq settled'
    BY DEF SaveStep, Pushed, PushFailed, QueueWritten, SaveEnds
<1>3. e = latest[id] /\ e # 0 /\ e \notin settled' /\ OpenEdit(id, e)
    BY <1>2 DEF OpenEdit
<1>4. EditSafe(id, e)
    BY <1>3 DEF EditsInv, SafeInv
<1>5. SaveSafe(id, e) /\ MemorySafe(id, e)
    BY <1>4 DEF EditSafe
<1>6. boot = "done" /\ boot' = "done"
    BY <1>1, <1>2 DEF FlowInv, Idle, At, SaveStep, Pushed, PushFailed, QueueWritten, SaveEnds
<1>7. Holds(cards, id, e) => Holds(offline_queue, id, e) \/ (e \in DOMAIN save /\ save[e].pc = "pushing")
    BY <1>5, <1>6 DEF MemorySafe, At
<1>8. ASSUME NEW pc, GoTo(x, pc)
      PROVE  /\ DOMAIN save' = DOMAIN save /\ save'[x].pc = pc
             /\ \A y \in DOMAIN save : y # x => save'[y] = save[y]
    <2>1. [pc |-> pc].pc = pc
        OBVIOUS
    <2> QED
        BY <1>1, <1>8, <2>1 DEF GoTo, TypeInv
<1>9. ASSUME NEW c \in Calls, Issue(<<c>>)
      PROVE  /\ \A i \in DOMAIN writes : i \in DOMAIN writes' /\ writes'[i] = writes[i]
             /\ \E i \in DOMAIN writes' : writes'[i] = c
    BY <1>1, <1>9, CallAfter DEF EditsInv
<1>10. CASE Pushed(x)
    <2>1. /\ At(x, {"pushing"}) /\ settled' = settled \cup {x}
          /\ cards' = IF Accepted(save[x].id, save[x].version) = save[x].version THEN cards
                      ELSE [cards EXCEPT ![save[x].id] = Accepted(save[x].id, save[x].version)]
          /\ offline_queue' = [offline_queue EXCEPT ![save[x].id] = Absent]
          /\ \/ Issue(SavedQueue(x, offline_queue')) /\ GoTo(x, "clearing")
             \/ GoTo(x, "ended") /\ UNCHANGED writes
        BY <1>10 DEF Pushed
    <2>2. latest[save[x].id] = x /\ save[x].id \in Ids
        BY <1>1, <2>1, PushFacts
    <2>3. e # x /\ id # save[x].id
        BY <1>3, <2>1, <2>2
    <2>4. cards'[id] = cards[id] /\ offline_queue'[id] = offline_queue[id]
        BY <1>1, <2>1, <2>3 DEF TypeInv, Lists
    <2>5. DOMAIN save' = DOMAIN save /\ (e \in DOMAIN save => save'[e] = save[e])
        BY <1>8, <2>1, <2>3
    <2>6. Holds(offline_queue', id, e) <=> Holds(offline_queue, id, e)
        BY <2>4 DEF Holds
    <2>7. Holds(cards', id, e) =>
              Holds(offline_queue', id, e) \/ (e \in DOMAIN save' /\ save'[e].pc = "pushing")
        BY <1>7, <2>4, <2>5 DEF Holds
    <2>8. CASE UNCHANGED writes
        <3>1. SaveSafe(id, e)'
            BY <1>2, <1>5, <2>5, <2>8, SaveSame
        <3> QED
            BY <1>2, <1>4, <1>6, <2>6, <2>7, <2>8, <3>1, SafeQuiet
    <2>9. CASE Issue(SavedQueue(x, offline_queue'))
        <3> DEFINE c == Call(x, "queue", offline_queue')
        <3>1. c \in Calls /\ SavedQueue(x, offline_queue') = <<c>>
            BY <1>1, CallFacts DEF TypeInv
        <3>2. c.file = "queue" /\ c.content = offline_queue'
            BY DEF Call
        <3> HIDE DEF c
        <3>3. Issue(<<c>>)
            BY <2>9, <3>1
        <3>4. SaveSafe(id, e)'
            BY <1>2, <1>5, <1>9, <2>5, <3>1, <3>3, SaveSame
        <3> QED
            BY <1>1, <1>2, <1>4, <1>6, <2>6, <2>7, <3>1, <3>2, <3>3, <3>4, SafeCall
    <2> QED
        BY <2>1, <2>8, <2>9
<1>11. CASE PushFailed(x)
    <2> DEFINE c == Call(x, "queue", offline_queue')
    <2>1. /\ At(x, {"pushing"}) /\ Issue(SavedQueue(x, offline_queue')) /\ GoTo(x, "queueing")
          /\ offline_queue' = [offline_queue EXCEPT ![save[x].id] = save[x].version]
          /\ UNCHANGED cards
        BY <1>11 DEF PushFailed, Queue
    <2>2. /\ latest[save[x].id] = x /\ save[x].id \in Ids /\ save[x].version # Absent
          /\ Last(save[x].version) = x
        BY <1>1, <2>1, PushFacts
    <2>3. c \in Calls /\ SavedQueue(x, offline_queue') = <<c>>
        BY <1>1, CallFacts DEF TypeInv
    <2>4. c.task = x /\ c.file = "queue" /\ c.content = offline_queue'
        BY DEF Call
    <2> HIDE DEF c
    <2>5. Issue(<<c>>)
        BY <2>1, <2>3
    <2>6. offline_queue'[id] = IF id = save[x].id THEN save[x].version ELSE offline_queue[id]
        BY <1>1, <2>1 DEF TypeInv, Lists
    <2>7. e = x => id = save[x].id
        BY <1>1, <1>3, <2>2 DEF FlowInv, LatestOK
    <2>8. e = x => Holds(offline_queue', id, e)
        BY <2>2, <2>6, <2>7 DEF Holds
    <2>9. e # x => offline_queue'[id] = offline_queue[id]
        BY <1>3, <2>2, <2>6
    <2>10. e # x => (Holds(offline_queue', id, e) <=> Holds(offline_queue, id, e))
        BY <2>9 DEF Holds
    <2>11. Holds(cards', id, e) =>
              Holds(offline_queue', id, e) \/ (e \in DOMAIN save' /\ save'[e].pc = "pushing")
        BY <1>7, <1>8, <2>1, <2>8, <2>10
    <2>12. SaveSafe(id, e)'
        <3>1. CASE e = x
            <4>1. \E j \in DOMAIN writes' : writes'[j].task = e /\ writes'[j].file = "queue"
                                           /\ Holds(writes'[j].content, id, e)
                BY <1>9, <2>3, <2>4, <2>5, <2>8, <3>1
            <4> QED
                BY <1>8, <2>1, <3>1, <4>1 DEF SaveSafe, At, Holds
        <3>2. CASE e # x
            BY <1>2, <1>5, <1>8, <1>9, <2>1, <2>3, <2>5, <3>2, SaveSame
        <3> QED
            BY <3>1, <3>2
    <2> QED
        BY <1>1, <1>2, <1>4, <1>6, <2>3, <2>4, <2>5, <2>8, <2>10, <2>11, <2>12, SafeCall
<1>12. CASE QueueWritten(x)
    <2>1. /\ At(x, {"queueing"}) /\ Done(x) /\ UNCHANGED <<cards, offline_queue>>
          /\ \/ Issue(SavedList(x, cards, root)) /\ GoTo(x, "saving")
             \/ GoTo(x, "ended") /\ UNCHANGED writes
        BY <1>12 DEF QueueWritten
    <2>2. e = x => Holds(disk.queue, id, e)
        BY <1>5, <2>1 DEF SaveSafe, Done
    <2>3. \A y \in DOMAIN save : save[y].pc # "pushing"
        BY <1>1, <2>1 DEF FlowInv, OnePush, At
    <2>4. Holds(cards, id, e) => Holds(offline_queue, id, e)
        BY <1>7, <2>3
    <2>5. /\ Holds(offline_queue', id, e) <=> Holds(offline_queue, id, e)
          /\ Holds(cards', id, e) => Holds(offline_queue', id, e)
        BY <2>1, <2>4 DEF Holds
    <2>6. \A i \in DOMAIN writes : i \in DOMAIN writes' /\ writes'[i] = writes[i]
        <3>1. ListCall(x, cards, root) \in Calls /\ SavedList(x, cards, root) = <<ListCall(x, cards, root)>>
            BY <1>1, CallFacts DEF TypeInv
        <3> QED
            BY <1>9, <2>1, <3>1
    <2>7. SaveSafe(id, e)'
        <3>1. CASE e = x
            <4>1. save'[e].pc \in {"saving", "ended"}
                BY <1>8, <2>1, <3>1
            <4> QED
                BY <1>2, <2>2, <3>1, <4>1 DEF SaveSafe, At, Holds
        <3>2. CASE e # x
            <4>1. DOMAIN save' = DOMAIN save /\ (e \in DOMAIN save => save'[e] = save[e])
                BY <1>8, <2>1, <3>2
            <4> QED
                BY <1>2, <1>5, <2>6, <4>1, SaveSame
        <3> QED
            BY <3>1, <3>2
    <2>8. CASE UNCHANGED writes
        BY <1>2, <1>4, <1>6, <2>5, <2>7, <2>8, SafeQuiet
    <2>9. CASE Issue(SavedList(x, cards, root))
        <3> DEFINE c == ListCall(x, cards, root)
        <3>1. c \in Calls /\ SavedList(x, cards, root) = <<c>>
            BY <1>1, CallFacts DEF TypeInv
        <3>2. c.file = "db" /\ c.content.cards = cards
            BY DEF ListCall, Call
        <3> HIDE DEF c
        <3>3. Issue(<<c>>)
            BY <2>9, <3>1
        <3> QED
            BY <1>1, <1>2, <1>4, <1>6, <2>4, <2>5, <2>7, <3>1, <3>2, <3>3, SafeCall
    <2> QED
        BY <2>1, <2>8, <2>9
<1>13. CASE SaveEnds(x)
    <2>1. At(x, {"saving", "clearing"}) /\ GoTo(x, "ended") /\ UNCHANGED <<cards, offline_queue, writes>>
        BY <1>13 DEF SaveEnds
    <2>2. e = x => Holds(disk.queue, id, e)
        BY <1>5, <2>1 DEF SaveSafe, At
    <2>3. SaveSafe(id, e)'
        <3>1. CASE e = x
            BY <1>2, <1>8, <2>1, <2>2, <3>1 DEF SaveSafe, At, Holds
        <3>2. CASE e # x
            <4>1. DOMAIN save' = DOMAIN save /\ (e \in DOMAIN save => save'[e] = save[e])
                BY <1>8, <2>1, <3>2
            <4> QED
                BY <1>2, <1>5, <2>1, <4>1, SaveSame
        <3> QED
            BY <3>1, <3>2
    <2>4. Holds(cards', id, e) =>
              Holds(offline_queue', id, e) \/ (e \in DOMAIN save' /\ save'[e].pc = "pushing")
        <3>1. e \in DOMAIN save /\ save[e].pc = "pushing" => e # x
            BY <2>1 DEF At
        <3> QED
            BY <1>7, <1>8, <2>1, <3>1 DEF Holds
    <2>5. Holds(offline_queue', id, e) <=> Holds(offline_queue, id, e)
        BY <2>1 DEF Holds
    <2> QED
        BY <1>2, <1>4, <1>6, <2>1, <2>3, <2>4, <2>5, SafeQuiet
<1> QED
    BY <1>10, <1>11, <1>12, <1>13 DEF SaveStep

LEMMA FlushSafe ==
    ASSUME EditsInv, TypeInv', NEW set \in BOOLEAN, Flush(set), UNCHANGED <<save, disk, boot, latest>>,
           boot = "done", \A y \in DOMAIN save : save[y].pc # "pushing",
           NEW id \in Ids, NEW e \in Nat, OpenEdit(id, e)'
    PROVE  EditSafe(id, e)'
<1>1. TypeInv /\ settled \subseteq settled'
    BY FlushFacts DEF EditsInv
<1>2. e \notin settled' /\ OpenEdit(id, e)
    BY <1>1 DEF OpenEdit
<1>3. EditSafe(id, e) /\ SaveSafe(id, e)
    BY <1>2 DEF EditsInv, SafeInv, EditSafe
<1>4. Holds(cards, id, e) => Holds(offline_queue, id, e)
    BY <1>3 DEF EditSafe, MemorySafe, At
<1>5. Holds(offline_queue', id, e) <=> Holds(offline_queue, id, e)
    <2>1. /\ offline_queue'[id] = offline_queue[id] \/ offline_queue'[id] = Absent
          /\ offline_queue[id] # Absent /\ Last(offline_queue[id]) \notin settled' =>
                offline_queue'[id] = offline_queue[id]
        BY <1>1, FlushFacts
    <2> QED
        BY <1>2, <2>1 DEF Holds
<1>6. Holds(cards', id, e) => Holds(cards, id, e)
    <2>1. Settles(cards', cards, id)
        BY <1>1, FlushFacts
    <2> QED
        BY <1>2, <2>1 DEF Settles, Holds
<1>7. CASE UNCHANGED writes
    <2>1. SaveSafe(id, e)'
        BY <1>3, <1>7, SaveSame
    <2> QED
        BY <1>3, <1>4, <1>5, <1>6, <1>7, <2>1, SafeQuiet
<1>8. CASE Issue(<<Call(conn, "queue", offline_queue')>>)
    <2> DEFINE c == Call(conn, "queue", offline_queue')
    <2>1. c \in Calls
        BY <1>1, CallFacts, TaskFacts DEF TypeInv
    <2>2. c.file = "queue" /\ c.content = offline_queue' /\ Issue(<<c>>)
        BY <1>8 DEF Call
    <2> HIDE DEF c
    <2>3. \A i \in DOMAIN writes : i \in DOMAIN writes' /\ writes'[i] = writes[i]
        <3>1. <<c>> \in Seq(Calls)
            BY <2>1
        <3> QED
            BY <1>1, <2>2, <3>1, CallsAfter
    <2>4. SaveSafe(id, e)'
        BY <1>3, <2>3, SaveSame
    <2> QED
        BY <1>1, <1>3, <1>4, <1>5, <1>6, <2>1, <2>2, <2>4, SafeCall
<1> QED
    BY <1>1, <1>7, <1>8, FlushCalls

LEMMA ListSafe ==
    ASSUME EditsInv, NEW list \in Lists, NEW r \in Seq(Lists), Issue(SavedList(conn, list, r)),
           UNCHANGED <<save, disk, boot, offline_queue>>, boot = "done",
           NEW id \in Ids, NEW e \in Nat, EditSafe(id, e),
           Holds(list, id, e) => Holds(offline_queue, id, e),
           Holds(cards', id, e) => Holds(offline_queue, id, e)
    PROVE  EditSafe(id, e)'
<1> DEFINE c == ListCall(conn, list, r)
<1>1. TypeInv /\ SaveSafe(id, e)
    BY DEF EditsInv, EditSafe
<1>2. c \in Calls /\ SavedList(conn, list, r) = <<c>>
    BY <1>1, CallFacts, TaskFacts
<1>3. c.file = "db" /\ c.content.cards = list
    BY DEF ListCall, Call
<1> HIDE DEF c
<1>4. Issue(<<c>>)
    BY <1>2
<1>5. \A i \in DOMAIN writes : i \in DOMAIN writes' /\ writes'[i] = writes[i]
    <2>1. <<c>> \in Seq(Calls)
        BY <1>2
    <2> QED
        BY <1>1, <1>4, <2>1, CallsAfter
<1>6. SaveSafe(id, e)'
    BY <1>1, <1>5, SaveSame
<1>7. Holds(offline_queue', id, e) <=> Holds(offline_queue, id, e)
    BY DEF Holds
<1> QED
    BY <1>1, <1>2, <1>3, <1>4, <1>6, <1>7, SafeCall

LEMMA SyncSafe ==
    ASSUME EditsInv, TypeInv', SavesWhile = {}, SyncStep, NEW id \in Ids, NEW e \in Nat, OpenEdit(id, e)'
    PROVE  EditSafe(id, e)'
<1> USE DEF SyncUnchanged, FlushUnchanged
<1>1. TypeInv /\ FlowInv /\ ServerHas
    BY DEF EditsInv, DataInv
<1>2. UNCHANGED <<save, disk, boot, latest>>
    BY DEF SyncStep, Sync, Forget, FullSync, ListWritten, QueueFlushed, FlushEnds
<1>3. boot = "done"
    BY <1>1 DEF FlowInv, Idle, SyncStep, Sync, Forget, FullSync, ListWritten, QueueFlushed, FlushEnds
<1>4. \A y \in DOMAIN save : save[y].pc # "pushing"
    BY <1>1 DEF FlowInv, OnePush, At, Pushing, SyncStep, Sync, Forget, FullSync, ListWritten,
                QueueFlushed, FlushEnds
<1>5. CASE \E set \in BOOLEAN : Flush(set)
    BY <1>2, <1>3, <1>4, <1>5, FlushSafe
<1>6. CASE Sync \/ Forget \/ FullSync \/ QueueFlushed \/ (FlushEnds /\ UNCHANGED <<cards, writes, offline_queue, settled>>)
    <2>1. UNCHANGED <<offline_queue, settled>>
        BY <1>6 DEF Sync, Forget, FullSync, QueueFlushed
    <2>2. e # 0 /\ e \notin settled /\ OpenEdit(id, e)
        BY <1>2, <2>1 DEF OpenEdit
    <2>3. EditSafe(id, e) /\ SaveSafe(id, e)
        BY <2>2 DEF EditsInv, SafeInv, EditSafe
    <2>4. Holds(cards, id, e) => Holds(offline_queue, id, e)
        BY <1>3, <1>4, <2>3 DEF EditSafe, MemorySafe, At
    <2>5. Current \in Lists /\ ~Holds(Current, id, e)
        <3>1. Current \in Lists /\ HadBy(Current, settled)
            BY <1>1, CurrentFacts DEF ServerHas
        <3>2. ~(e <= 0)
            BY <2>2
        <3> QED
            BY <2>2, <3>1, <3>2 DEF HadBy, Holds
    <2>6. root # NoRoot => /\ Changed(root) \in Lists
                           /\ Holds(Changed(root), id, e) => Holds(offline_queue, id, e)
        BY <1>1, <2>4, <2>5, ChangedFacts DEF Holds
    <2>7. server \in Seq(Lists) /\ cards \in Lists /\ root \in Seq(Lists)
        BY <1>1 DEF TypeInv
    <2>8. ASSUME NEW list \in Lists, NEW pc, Synced(list, pc), Holds(list, id, e) => Holds(offline_queue, id, e)
          PROVE  EditSafe(id, e)'
        <3>1. cards' = list /\ Issue(SavedList(conn, list, server))
            BY <2>8 DEF Synced
        <3>2. Holds(cards', id, e) => Holds(offline_queue, id, e)
            BY <2>8, <3>1
        <3> QED
            BY <1>2, <1>3, <2>1, <2>3, <2>7, <2>8, <3>1, <3>2, ListSafe
    <2>9. ASSUME UNCHANGED <<cards, writes>> PROVE EditSafe(id, e)'
        BY <1>2, <2>1, <2>3, <2>9, SafeSame
    <2>10. CASE Sync
        <3>1. CASE Issue(<<Call(conn, "histories", FALSE)>>) /\ UNCHANGED cards
            BY <1>1, <1>2, <2>1, <2>3, <3>1, SafeWiped, TaskFacts
        <3> QED
            BY <2>5, <2>6, <2>8, <2>10, <3>1 DEF Sync
    <2>11. CASE Forget
        BY <2>9, <2>11 DEF Forget
    <2>12. CASE FullSync
        BY <2>5, <2>8, <2>9, <2>12 DEF FullSync
    <2>13. CASE QueueFlushed
        <3>1. Issue(SavedList(conn, cards, root)) /\ cards' = cards
            BY <2>13 DEF QueueFlushed
        <3>2. Holds(cards', id, e) => Holds(offline_queue, id, e)
            BY <2>4, <3>1
        <3> QED
            BY <1>2, <1>3, <2>1, <2>3, <2>4, <2>7, <3>1, <3>2, ListSafe
    <2> QED
        BY <1>6, <2>9, <2>10, <2>11, <2>12, <2>13
<1>7. ListWritten => \E set \in BOOLEAN : Flush(set)
    <2>1. (client \/ sync = "connected") \in BOOLEAN
        OBVIOUS
    <2> QED
        BY <2>1 DEF ListWritten
<1>8. FlushEnds => (\E set \in BOOLEAN : Flush(set)) \/ UNCHANGED <<cards, writes, offline_queue, settled>>
    BY DEF FlushEnds
<1> QED
    BY <1>5, <1>6, <1>7, <1>8 DEF SyncStep

LEMMA WorldSafe ==
    ASSUME EditsInv, TypeInv', \/ Prefetch \/ Lose \/ Disconnect \/ Restore \/ ClearLocalCache
                               \/ \E card \in Ids : RemoteSave(card),
           NEW id \in Ids, NEW e \in Nat, OpenEdit(id, e)'
    PROVE  EditSafe(id, e)'
<1> USE DEF WorldUnchanged, memory, counters
<1>1. TypeInv
    BY DEF EditsInv
<1>2. UNCHANGED <<latest, disk, boot, cards, offline_queue, save>> /\ settled \subseteq settled'
    BY DEF Prefetch, Lose, Disconnect, Restore, ClearLocalCache, RemoteSave
<1>3. OpenEdit(id, e)
    BY <1>2 DEF OpenEdit
<1>4. EditSafe(id, e)
    BY <1>3 DEF EditsInv, SafeInv
<1>5. CASE Prefetch
    <2>1. histories' \in BOOLEAN /\ Issue(<<Call(prefetch, "histories", histories')>>)
        BY <1>5 DEF Prefetch, TypeInv
    <2> QED
        BY <1>1, <1>2, <1>4, <2>1, SafeWiped, TaskFacts
<1>6. CASE ClearLocalCache
    <2>1. Issue(Cleared(clearing))
        BY <1>6 DEF ClearLocalCache
    <2>2. Issue(Cleared(clearing)) \/ Issue(<<Call(clearing, "histories", FALSE)>>)
        BY <2>1
    <2> QED
        BY <1>1, <1>2, <1>4, <2>2, SafeWiped, TaskFacts
<1>7. CASE Lose \/ Disconnect \/ Restore \/ \E card \in Ids : RemoteSave(card)
    <2>1. UNCHANGED writes
        BY <1>7 DEF Lose, Disconnect, Restore, RemoteSave
    <2> QED
        BY <1>2, <1>4, <2>1, SafeSame
<1> QED
    BY <1>5, <1>6, <1>7

LEMMA EditsInitial ==
    ASSUME PersistInit
    PROVE  EditsInv
<1>1. TypeInv
    BY TypesInitial
<1>2. /\ cards = Empty /\ offline_queue = Empty /\ disk.queue = Empty /\ disk.db = NoFile /\ writes = << >>
      /\ boot = "start" /\ sync = "down" /\ ~client /\ ~prefetching /\ edits = 0
      /\ save = [e \in 1 .. MaxEdits |-> [pc |-> "none"]]
      /\ latest = [id \in Ids |-> 0] /\ settled = {}
    BY DEF PersistInit
<1>3. \A e \in DOMAIN save : save[e].pc = "none"
    BY <1>2
<1>4. FlowInv
    BY PersistBounds, <1>2, <1>3 DEF FlowInv, OnePush, Idle, LatestOK, At
<1>5. \A n \in DOMAIN server : KnownBy(server[n], edits) /\ HadBy(server[n], settled)
    <2>1. \A id \in Ids : [Empty EXCEPT ![id] = << 0 >>] \in Lists
        BY EmptyFacts DEF Lists, Versions
    <2>2. \A id, x \in Ids : [Empty EXCEPT ![id] = << 0 >>][x] = IF x = id THEN << 0 >> ELSE Absent
        BY EmptyFacts DEF Lists
    <2>3. Last(<< 0 >>) = 0
        BY DEF Last
    <2>4. \A id \in Ids : KnownBy([Empty EXCEPT ![id] = << 0 >>], edits) /\ HadBy([Empty EXCEPT ![id] = << 0 >>], settled)
        BY <1>2, <2>2, <2>3 DEF KnownBy, HadBy
    <2>5. KnownBy(Empty, edits) /\ HadBy(Empty, settled)
        BY EmptyFacts DEF KnownBy, HadBy
    <2>6. server = <<Empty>> \/ \E id \in Ids : server = <<Empty, [Empty EXCEPT ![id] = << 0 >>]>>
        BY DEF PersistInit
    <2>7. \A a, b : /\ DOMAIN <<a>> = {1} /\ <<a>>[1] = a
                    /\ DOMAIN <<a, b>> = {1, 2} /\ <<a, b>>[1] = a /\ <<a, b>>[2] = b
        OBVIOUS
    <2> QED
        BY <2>4, <2>5, <2>6, <2>7
<1>6. DataInv
    <2>1. KnownBy(Empty, edits) /\ NoFile.cards = Empty
        BY EmptyKnown, EmptyFacts
    <2>2. DOMAIN writes = {}
        BY <1>2
    <2> QED
        BY <1>2, <1>5, <2>1, <2>2 DEF DataInv, AllKnown, ServerHas
<1>7. SafeInv
    <2>1. \A id \in Ids : latest[id] = 0
        BY <1>2
    <2> QED
        BY <2>1 DEF SafeInv, OpenEdit
<1> QED
    BY <1>1, <1>4, <1>6, <1>7 DEF EditsInv

LEMMA EditsNext ==
    ASSUME EditsInv, PersistNext, SavesWhile = {}
    PROVE  EditsInv'
<1>1. TypeInv /\ FlowInv /\ DataInv
    BY DEF EditsInv
<1>2. TypeInv'
    BY <1>1, TypesNext
<1>3. FlowInv'
    <2>1. CASE \E id \in Ids : UserSave(id)
        BY <1>1, <2>1, UserSaveFlow
    <2>2. CASE \E e \in DOMAIN save : SaveStep(e)
        BY <1>1, <2>2, SaveStepFlow
    <2> QED
        BY <1>1, <2>1, <2>2, StartFlow, SyncFlow, WorldFlow, ReloadFlow DEF PersistNext
<1>4. DataInv'
    <2>1. CASE \E id \in Ids : UserSave(id)
        BY <1>1, <1>2, <2>1, UserSaveData
    <2>2. CASE \E e \in DOMAIN save : SaveStep(e)
        BY <1>1, <1>2, <2>2, SaveStepData
    <2> QED
        BY <1>1, <1>2, <2>1, <2>2, StartData, SyncData, WorldData DEF PersistNext
<1>5. ASSUME NEW id \in Ids, NEW e \in Nat, OpenEdit(id, e)'
      PROVE  EditSafe(id, e)'
    <2>1. CASE \E card \in Ids : UserSave(card)
        BY <1>2, <1>5, <2>1, UserSaveSafe
    <2>2. CASE \E x \in DOMAIN save : SaveStep(x)
        BY <1>2, <1>5, <2>2, SaveStepSafe
    <2>3. CASE Perform
        <3>1. OpenEdit(id, e)
            BY <1>5, <2>3 DEF Perform, OpenEdit
        <3> QED
            BY <1>1, <2>3, <3>1, PerformSafe DEF EditsInv, SafeInv
    <2>4. CASE CheckStamp \/ LoadHistories \/ load_local_state \/ load_offline_queue
        BY <1>5, <2>4, StartSafe
    <2>5. CASE SyncStep
        BY <1>2, <1>5, <2>5, SyncSafe
    <2>6. CASE \/ Prefetch \/ Lose \/ Disconnect \/ Restore \/ ClearLocalCache
               \/ \E card \in Ids : RemoteSave(card)
        BY <1>2, <1>5, <2>6, WorldSafe
    <2>7. CASE Reload
        BY <1>5, <2>7, ReloadSafe
    <2> QED
        BY <2>1, <2>2, <2>3, <2>4, <2>5, <2>6, <2>7 DEF PersistNext
<1>6. SafeInv'
    BY <1>5 DEF SafeInv
<1> QED
    BY <1>2, <1>3, <1>4, <1>6 DEF EditsInv

LEMMA EditsStutter == ASSUME EditsInv, UNCHANGED persistVars PROVE EditsInv'
<1>1. TypeInv /\ FlowInv /\ DataInv /\ SafeInv
    BY DEF EditsInv
<1>2. TypeInv'
    BY <1>1, TypesStutter
<1>3. FlowInv'
    BY <1>1 DEF FlowInv, OnePush, Idle, LatestOK, At, persistVars, counters
<1>4. DataInv'
    BY <1>1 DEF DataInv, AllKnown, ServerHas, persistVars, memory, counters
<1>5. SafeInv'
    <2>1. ASSUME NEW id \in Ids, NEW e \in Nat, OpenEdit(id, e)'
          PROVE  EditSafe(id, e)'
        <3>1. EditSafe(id, e)
            BY <1>1, <2>1 DEF SafeInv, OpenEdit, persistVars
        <3> QED
            BY <3>1, SafeSame DEF persistVars, memory
    <2> QED
        BY <2>1 DEF SafeInv
<1> QED
    BY <1>2, <1>3, <1>4, <1>5 DEF EditsInv

LEMMA EditsFound == ASSUME EditsInv PROVE EditsOnDisk
<1> SUFFICES ASSUME NEW id \in Ids, latest[id] # 0, latest[id] \notin settled
             PROVE  /\ At(latest[id], {"ended"}) => Holds(disk.queue, id, latest[id])
                    /\ Holds(disk.db.cards, id, latest[id]) => Holds(disk.queue, id, latest[id])
    BY DEF EditsOnDisk, Holds
<1>1. latest[id] \in Nat /\ OpenEdit(id, latest[id])
    BY DEF EditsInv, TypeInv, OpenEdit
<1>2. EditSafe(id, latest[id])
    BY <1>1 DEF EditsInv, SafeInv
<1>3. latest[id] \in DOMAIN save
    <2>1. latest[id] <= edits /\ edits <= MaxEdits /\ edits \in Nat
        BY DEF EditsInv, FlowInv, LatestOK, TypeInv
    <2>2. DOMAIN save = 1 .. MaxEdits
        BY SaveFacts DEF EditsInv
    <2>3. \A e, k \in Nat : e # 0 /\ e <= k /\ k <= MaxEdits => e \in 1 .. MaxEdits
        BY PersistBounds
    <2> QED
        BY <1>1, <2>1, <2>2, <2>3
<1> QED
    BY <1>2, <1>3 DEF EditSafe, SaveSafe, At

(***************************************************************************)
(* For any number of cards, saves, lost connections, restored backups and  *)
(* closed tabs: once the save of a card's last edit is over, and also as   *)
(* soon as the saved list shows it, the saved queue holds the edit, until  *)
(* the server has had it or reconciliation has dropped it                  *)
(* (push_card_or_queue, flush_offline_queue and what they write).          *)
(* Hypothesis: no save while the files are read nor beside a push or a     *)
(* synchronization; with such saves it is false.                           *)
(***************************************************************************)
THEOREM EditsStayOnDisk ==
    ASSUME SavesWhile = {}
    PROVE  PersistSpec => []EditsOnDisk
<1>1. PersistInit => EditsInv
    BY EditsInitial
<1>2. EditsInv /\ [PersistNext]_persistVars => EditsInv'
    BY EditsNext, EditsStutter
<1> QED
    BY <1>1, <1>2, EditsFound, PTL DEF PersistSpec
=============================================================================
