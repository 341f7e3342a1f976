-------------------------------- MODULE View --------------------------------
(***************************************************************************)
(* The view of the list and the URL that names it: the filters of          *)
(* AppState, the handlers that set them (keyboard.rs, filter_bar.rs,       *)
(* tag_sidebar.rs, card_detail.rs, store.rs), and query_params.rs.         *)
(*                                                                         *)
(* The URL is a record of its parameters; one that is left out has its     *)
(* value "".  The text searched for is reduced to whether there is any.    *)
(* Panes and editors (module Panes) are closed.                            *)
(***************************************************************************)
EXTENDS Filter, Option

CONSTANTS Cards,          \* the list of cards: records as Filter knows them, with their links
          TagIds, Selectable,   \* the tags and the cards that are clicked
          DueFilters, Orders,   \* the filters and orders that are picked
          Bookmarks       \* URLs of earlier entries of the browser's history, or typed in

ASSUME PicksAreChoices == DueFilters \subseteq DueDateFilters /\ Orders \subseteq SortOrders
ASSUME CardsAreListed ==
    /\ Cards \in Seq(Range(Cards))
    /\ \A i \in DOMAIN Cards : /\ Cards[i].due_date \in Int \cup {NoDay}
                               /\ Cards[i].due_time \in Int /\ Cards[i].priority \in Int
\* A flag of the query string is there or not.
ASSUME BookmarkFlags == \A u \in Bookmarks : u.inc_overdue \in BOOLEAN /\ u.no_tags \in BOOLEAN

VARIABLES
    view,                 \* the filter signals of AppState
    selected_card,
    sub_menu,             \* the keyboard sub-menu that is open, or none
    url
viewVars == <<view, selected_card, sub_menu, url>>

CardIds == {Cards[i].id : i \in DOMAIN Cards}
CardOf(id) == Cards[CHOOSE i \in DOMAIN Cards : Cards[i].id = id]

\* The list the user sees: one of the orders the sort may leave.
Lists == sort_cards(filtered(Cards, view), view.sort)

DefaultView == [filter |-> "Extinguished", due |-> "All", include_overdue |-> FALSE,
                sort |-> "Priority", tags |-> {}, mode |-> "Or", no_tags |-> FALSE,
                query |-> FALSE, search_tags |-> TRUE, linked |-> {}]

-----------------------------------------------------------------------------
(* The query string *)

url_value(value, default) == IF value = default THEN "" ELSE value
from_url_value(text, known, default) == IF text \in known THEN text ELSE default

build_query_string(v, selected) ==
    [status |-> url_value(v.filter, "Extinguished"), due |-> url_value(v.due, "All"),
     inc_overdue |-> v.include_overdue, sort |-> url_value(v.sort, "Priority"),
     tag_mode |-> url_value(v.mode, "Or"), no_tags |-> v.no_tags, tag |-> v.tags,
     entity |-> selected, linked |-> v.linked]

\* "upcoming" is the alias old URLs use.
parse_due_date_filter(text) ==
    IF text = "upcoming" THEN "TodayAndUpcoming" ELSE from_url_value(text, DueDateFilters, "All")

\* The filters a URL names; the text searched for is not among them.
Parse(u, query) ==
    [filter |-> from_url_value(u.status, CardFilters, "Extinguished"),
     due |-> parse_due_date_filter(u.due), include_overdue |-> u.inc_overdue,
     sort |-> from_url_value(u.sort, SortOrders, "Priority"),
     tags |-> u.tag, mode |-> from_url_value(u.tag_mode, TagFilterModes, "Or"),
     no_tags |-> u.no_tags, query |-> query, search_tags |-> TRUE, linked |-> u.linked]

\* A page that is loaded drops tags and mode where they do not go with "no tags".
LoadedView(u) ==
    LET v == Parse(u, FALSE)
    IN  IF v.no_tags /\ ~allows_no_tags(v.mode) THEN [v EXCEPT !.tags = {}, !.mode = "Or"] ELSE v

\* Every handler but the one of the search box ends with it.
sync_query_params == url' = build_query_string(view', selected_card')

-----------------------------------------------------------------------------
(* Loading the page, and the browser's history *)

ViewInit ==
    /\ url \in Bookmarks
    /\ view = LoadedView(url)
    /\ selected_card = url.entity
    /\ sub_menu = none

Reload ==
    /\ view' = LoadedView(url)
    /\ selected_card' = url.entity
    /\ sub_menu' = none
    /\ UNCHANGED url

\* Back or forward to another entry of the history.
restore_from_query_params(u) ==
    /\ url' = u
    /\ view' = Parse(u, view.query)
    /\ selected_card' = u.entity
    /\ UNCHANGED sub_menu

-----------------------------------------------------------------------------
(* Handlers of the mouse: filter bar, sidebar, card list, header *)

\* What is shown of the bar bounds what can be clicked: the sub-menu stays open.
Sets(v) == view' = v /\ UNCHANGED selected_card /\ sync_query_params

set_filter(f) == Sets([view EXCEPT !.filter = f]) /\ UNCHANGED sub_menu

on_due_change(f) ==
    /\ Sets([view EXCEPT !.due = f,
                         !.include_overdue = @ /\ f \notin {"All", "Overdue"}])
    /\ UNCHANGED sub_menu

toggle_overdue == /\ view.due \notin {"All", "Overdue"}
                  /\ Sets([view EXCEPT !.include_overdue = ~@])
                  /\ UNCHANGED sub_menu

cycle_mode ==
    /\ view.tags # {} \/ view.no_tags
    /\ LET mode == next_mode[view.mode]
       IN  Sets([view EXCEPT !.mode = mode, !.no_tags = @ /\ allows_no_tags(mode)])
    /\ UNCHANGED sub_menu

clear_all_tags == /\ view.tags # {} \/ view.no_tags
                  /\ Sets([view EXCEPT !.tags = {}, !.no_tags = FALSE])
                  /\ UNCHANGED sub_menu

remove_no_tags == view.no_tags /\ Sets([view EXCEPT !.no_tags = FALSE]) /\ UNCHANGED sub_menu
remove_chip(t) == t \in view.tags /\ Sets([view EXCEPT !.tags = @ \ {t}]) /\ UNCHANGED sub_menu

\* Only the links of cards that exist are listed with a button.
remove_link(id) == /\ id \in view.linked
                   /\ Sets([view EXCEPT !.linked = @ \ {id}])
                   /\ UNCHANGED sub_menu
clear_links == view.linked # {} /\ Sets([view EXCEPT !.linked = {}]) /\ UNCHANGED sub_menu

on_sort_change(order) == Sets([view EXCEPT !.sort = order]) /\ UNCHANGED sub_menu

\* Typing in the search box, or its x: not part of the URL.
search(query) == view' = [view EXCEPT !.query = query] /\ UNCHANGED <<selected_card, sub_menu, url>>

\* Mutant: the sidebar leaves the URL as it is.
ToggleTagSilently(t) ==
    /\ view' = [view EXCEPT !.no_tags = @ /\ allows_no_tags(view.mode), !.tags = SymDiff(@, {t})]
    /\ UNCHANGED <<selected_card, sub_menu, url>>

toggle_tag_filter(t) ==
    /\ Sets([view EXCEPT !.no_tags = @ /\ allows_no_tags(view.mode),
                         !.tags = SymDiff(@, {t})])
    /\ UNCHANGED sub_menu

\* "No tags" of the sidebar.
toggle_no_tags_row ==
    /\ LET enabling == ~view.no_tags
           toggled  == [view EXCEPT !.no_tags = enabling]
       IN  Sets(IF enabling /\ view.mode = "And" THEN [toggled EXCEPT !.tags = {}, !.mode = "Or"]
                ELSE toggled)
    /\ UNCHANGED sub_menu

set_selection(id) ==
    /\ selected_card' = id
    /\ UNCHANGED <<view, sub_menu>>
    /\ sync_query_params

clear_all_state ==
    /\ view' = [DefaultView EXCEPT !.search_tags = view.search_tags]
    /\ selected_card' = none
    /\ UNCHANGED sub_menu
    /\ sync_query_params

TodayView == [view EXCEPT !.filter = "Extinguished", !.due = "Today", !.include_overdue = TRUE,
                          !.tags = {}, !.mode = "Or", !.no_tags = FALSE, !.linked = {},
                          !.query = FALSE]
apply_today_quick_filter == Sets(TodayView) /\ UNCHANGED sub_menu

LinkedView(ids) == [view EXCEPT !.linked = ids, !.filter = "All", !.query = FALSE,
                                !.tags = {}, !.no_tags = FALSE]

\* What the filter may be set to: the links of a card, those to it, both, and,
\* with recursive_links, every card linked to these in turn (Links has the loop).
Forward(id)  == CardOf(id).links
Back(id)     == {c \in CardIds \ {id} : id \in CardOf(c).links}
Direct(id)   == Forward(id) \cup Back(id)
Expanded(id) == {c \in CardIds : \A ids \in SUBSET CardIds :
                     id \in ids /\ (\A i \in ids : Direct(i) \cap CardIds \subseteq ids) => c \in ids}
LinkChoices ==
    [id \in CardIds |->
        {{id} \cup ids : ids \in {Forward(id), Back(id), Direct(id), Direct(id) \cup Expanded(id)}}]

\* The buttons of the detail panel, which are there if a linked card is.
filter_linked ==
    /\ selected_card # none /\ Direct(selected_card) \cap CardIds # {}
    /\ \E ids \in LinkChoices[selected_card] : Sets(LinkedView(ids))
    /\ UNCHANGED sub_menu

Mouse ==
    \/ \E f \in CardFilters : set_filter(f)
    \/ \E f \in DueFilters : on_due_change(f)
    \/ toggle_overdue \/ cycle_mode \/ clear_all_tags \/ remove_no_tags
    \/ \E t \in TagIds : remove_chip(t)
    \/ \E id \in Selectable : remove_link(id)
    \/ clear_links
    \/ \E order \in Orders : on_sort_change(order)
    \/ \E query \in BOOLEAN : search(query)
    \/ \E t \in TagIds : toggle_tag_filter(t)
    \/ toggle_no_tags_row
    \/ \E id \in Selectable \cup {none} : set_selection(id)
    \/ clear_all_state
    \/ apply_today_quick_filter \/ filter_linked

-----------------------------------------------------------------------------
(* Handlers of the keyboard *)

Key(v) == sub_menu = none /\ Sets(v) /\ UNCHANGED sub_menu

reset_filters_and_sort(query) ==
    [DefaultView EXCEPT !.query = query, !.search_tags = view.search_tags]

key_status(f) == Key([view EXCEPT !.filter = f])
key_no_tags == Key(IF view.no_tags THEN [view EXCEPT !.no_tags = FALSE]
                   ELSE [view EXCEPT !.no_tags = TRUE, !.tags = {}, !.mode = "Or"])
key_overdue == Key([view EXCEPT !.include_overdue = ~@])
key_reset == Key(reset_filters_and_sort(FALSE))

OpenMenu(menu) ==
    /\ sub_menu = none
    /\ menu = "linked" => selected_card # none
    /\ sub_menu' = menu
    /\ UNCHANGED <<view, selected_card, url>>

\* A key the sub-menu knows acts and closes it, "q" and Escape only close it.
Menu(menu, v) == sub_menu = menu /\ Sets(v) /\ sub_menu' = none
CloseMenu == sub_menu # none /\ sub_menu' = none /\ UNCHANGED <<view, selected_card, url>>

due_submenu ==
    \/ \E f \in DueFilters : Menu("due", [view EXCEPT !.due = f])
    \/ Menu("due", [view EXCEPT !.include_overdue = ~@])
    \/ Menu("due", TodayView)

mode_submenu ==
    \E mode \in TagFilterModes :
        Menu("mode", [view EXCEPT !.mode = mode, !.no_tags = @ /\ allows_no_tags(mode)])

sort_submenu == \E order \in Orders : Menu("sort", [view EXCEPT !.sort = order])

linked_submenu ==
    \/ /\ selected_card # none
       /\ \E ids \in LinkChoices[selected_card] : Menu("linked", LinkedView(ids))
    \/ selected_card # none /\ Menu("linked", [view EXCEPT !.linked = {}])

\* Mutant: Escape forgets the linked cards.
HasFiltersButLinks ==
    \/ view.filter # "Extinguished" \/ view.due # "All" \/ view.include_overdue
    \/ view.tags # {} \/ view.no_tags \/ view.sort # "Priority"

has_filters ==
    \/ view.filter # "Extinguished" \/ view.due # "All" \/ view.include_overdue
    \/ view.tags # {} \/ view.no_tags \/ view.linked # {} \/ view.sort # "Priority"

\* What Escape makes of the selection and the filters when no pane is open.
handle_escape ==
    /\ sub_menu = none
    /\ UNCHANGED sub_menu
    /\ \/ selected_card # none /\ selected_card' = none /\ UNCHANGED view
       \/ /\ selected_card = none /\ view.query
          /\ view' = [view EXCEPT !.query = FALSE] /\ UNCHANGED selected_card
       \/ /\ selected_card = none /\ ~view.query /\ has_filters
          /\ view' = reset_filters_and_sort(view.query) /\ UNCHANGED selected_card
    /\ sync_query_params

Keyboard ==
    \/ \E f \in CardFilters : key_status(f)
    \/ key_no_tags \/ key_overdue \/ key_reset
    \/ \E menu \in {"due", "mode", "sort", "linked"} : OpenMenu(menu)
    \/ CloseMenu
    \/ due_submenu \/ mode_submenu \/ sort_submenu \/ linked_submenu
    \/ handle_escape

ViewNext ==
    \/ Reload
    \/ \E u \in Bookmarks : restore_from_query_params(u)
    \/ Mouse
    \/ Keyboard

ViewSpec == ViewInit /\ [][ViewNext]_viewVars

-----------------------------------------------------------------------------
(* Properties *)

\* The URL names the view, whichever handlers brought it about: reloading the
\* page, or coming back to it, shows the same list.  Not so for "no tags" with a
\* mode other than OR, which a page that is loaded does not accept.
UrlNamesView ==
    \/ view.no_tags /\ ~allows_no_tags(view.mode)
    \/ /\ LoadedView(url) = [view EXCEPT !.query = FALSE]
       /\ url.entity = selected_card

\* Where Escape finds nothing to close, clear or reset, the list is the one of the
\* defaults: no filter that narrows or reorders it is beyond its reach.
EscapeReachesDefault ==
    sub_menu = none /\ selected_card = none /\ ~view.query /\ ~has_filters =>
        Lists = sort_cards(filtered(Cards, DefaultView), "Priority")

\* The filters by due date and the badges say the same of a card: what "Today"
\* shows is due today, and so on; only "+overdue" adds overdue cards to a window,
\* and it adds all the other filters let through.
Badged(kinds) == \A list \in Lists : \A i \in DOMAIN list :
                    list[i].due_date # NoDay /\ format_due_date_badge(list[i].due_date).kind \in kinds
FiltersTellBadges ==
    LET late == IF view.include_overdue THEN {"Overdue"} ELSE {}
        everyDue == filtered(Cards, [view EXCEPT !.due = "All"])
    IN  /\ view.due = "Overdue" => Badged({"Overdue"})
        /\ view.due = "Today" => Badged({"Today"} \cup late)
        /\ view.due = "UpcomingTomorrow" => Badged({"tomorrow"} \cup late)
        /\ view.due = "TodayAndTomorrow" => Badged({"Today", "tomorrow"} \cup late)
        /\ view.due \in DueDateFilters \ {"All", "Overdue"} =>
              Badged({"Today", "tomorrow", "Upcoming"} \cup late)
        /\ view.include_overdue =>
              \A i \in DOMAIN everyDue :
                  LET c == everyDue[i]
                  IN  c.due_date # NoDay /\ c.due_date < today =>
                          \A list \in Lists : c \in Range(list)

\* By due date, in either direction, the cards without one come last, the others
\* stand in the order of their days, and those due at the same time, or at none,
\* go from the highest priority down.  Those of one day need not: shortcuts take
\* noon, menus and swipes midnight.
UndatedLast ==
    view.sort \in {"DueDate", "DueDateReverse"} =>
        \A list \in Lists : \A i, j \in DOMAIN list :
            i < j => /\ list[i].due_date = NoDay => list[j].due_date = NoDay
                     /\ list[j].due_date # NoDay =>
                           IF view.sort = "DueDate" THEN list[i].due_date <= list[j].due_date
                           ELSE list[i].due_date >= list[j].due_date
                     /\ SameDue(list[i], list[j]) => list[i].priority >= list[j].priority

\* Clicking through the modes with tags selected: what OR shows NOR hides, and
\* what AND shows NAND hides, when the other filters are the same.
ModesAreComplements ==
    LET Under(mode) == Range(filtered(Cards, [view EXCEPT !.mode = mode]))
        all == Range(filtered(Cards, [view EXCEPT !.tags = {}]))
    IN  view.tags # {} /\ ~view.no_tags =>
            \A pair \in {<<"Or", "Nor">>, <<"And", "Nand">>} :
                /\ Under(pair[1]) \cup Under(pair[2]) = all
                /\ Under(pair[1]) \cap Under(pair[2]) = {}

\* The list shows what the filters and the order ask for.
ListAsAsked == FiltersTellBadges /\ UndatedLast /\ ModesAreComplements
=============================================================================
