--------------------------- MODULE CardListProofs ---------------------------
(***************************************************************************)
(* For any list of cards, any tags, and whatever the browser's history     *)
(* holds: the URL names the view, where Escape has nothing left to do the  *)
(* list is the one of the defaults, and it shows what filters and order    *)
(* ask for. For any rows: drags end with their gesture, and drops land in  *)
(* the gap that was marked. For any widths and couplings: swipes do what   *)
(* they show, blazed cards are not due, and clicks flip the boxes that are *)
(* clicked. For any finite set of cards: a pass over the links leaves no   *)
(* stale entry.                                                            *)
(***************************************************************************)
EXTENDS View, Drag, Edits, Links, QueuesProofs, TLAPS, FiniteSetTheorems, SequenceTheorems

\* The signals and what they may hold.  Which tags and cards a filter names is
\* anyone's choice: a URL may name some that are gone.
Views(tags, linked) ==
    [filter: CardFilters, due: DueDateFilters, include_overdue: BOOLEAN, sort: SortOrders,
     tags: {tags}, mode: TagFilterModes, no_tags: BOOLEAN, query: BOOLEAN,
     search_tags: {TRUE}, linked: {linked}]
IsView(v) == v \in Views(v.tags, v.linked)

\* A page loaded from u shows v.
Names(u, v, selected) ==
    \/ v.no_tags /\ ~allows_no_tags(v.mode)
    \/ LoadedView(u) = [v EXCEPT !.query = FALSE] /\ u.entity = selected

\* The URLs a page may be loaded from.
IsUrl(u) == u.inc_overdue \in BOOLEAN /\ u.no_tags \in BOOLEAN

ViewInv == IsView(view) /\ IsUrl(url) /\ Names(url, view, selected_card)

LEMMA SameView ==
    ASSUME NEW tags, NEW linked, NEW v \in Views(tags, linked), NEW w \in Views(tags, linked),
           v.filter = w.filter, v.due = w.due, v.include_overdue = w.include_overdue,
           v.sort = w.sort, v.tags = w.tags, v.mode = w.mode, v.no_tags = w.no_tags,
           v.query = w.query, v.search_tags = w.search_tags, v.linked = w.linked
    PROVE  v = w
    BY DEF Views

-----------------------------------------------------------------------------
(* The query string *)

\* What a URL says nothing of, or says in words the client does not know, has its
\* default (from_url_value).
LEMMA ParsedIsView ==
    ASSUME NEW u, IsUrl(u), NEW query \in BOOLEAN
    PROVE  IsView(Parse(u, query))
<1> DEFINE v == Parse(u, query)
<1>1. /\ v.filter = from_url_value(u.status, CardFilters, "Extinguished")
      /\ v.due = parse_due_date_filter(u.due)
      /\ v.sort = from_url_value(u.sort, SortOrders, "Priority")
      /\ v.mode = from_url_value(u.tag_mode, TagFilterModes, "Or")
      /\ v.include_overdue = u.inc_overdue /\ v.no_tags = u.no_tags
      /\ v.query = query /\ v.search_tags = TRUE /\ v.tags = u.tag /\ v.linked = u.linked
    BY DEF Parse
<1>2. v.filter \in CardFilters
    BY <1>1 DEF from_url_value, CardFilters
<1>3. v.due \in DueDateFilters
    BY <1>1 DEF parse_due_date_filter, from_url_value, DueDateFilters
<1>4. v.sort \in SortOrders
    BY <1>1 DEF from_url_value, SortOrders
<1>5. v.mode \in TagFilterModes
    BY <1>1 DEF from_url_value, TagFilterModes
<1>6. IsView(v)
    BY <1>1, <1>2, <1>3, <1>4, <1>5 DEF IsView, Views, IsUrl, Parse
<1> QED
    BY <1>6

LEMMA LoadedIsView ==
    ASSUME NEW u, IsUrl(u)
    PROVE  IsView(LoadedView(u)) /\ LoadedView(u).query = FALSE
<1> DEFINE v == Parse(u, FALSE)
<1>1. IsView(v) /\ v.query = FALSE
    BY ParsedIsView DEF Parse
<1>2. LoadedView(u) = v \/ LoadedView(u) = [v EXCEPT !.tags = {}, !.mode = "Or"]
    BY DEF LoadedView
<1> HIDE DEF v
<1>3. /\ IsView([v EXCEPT !.tags = {}, !.mode = "Or"])
      /\ [v EXCEPT !.tags = {}, !.mode = "Or"].query = FALSE
    BY <1>1 DEF IsView, Views, TagFilterModes
<1> QED
    BY <1>1, <1>2, <1>3

\* A view the handlers can make comes back from the URL they write for it.
LEMMA WrittenNames ==
    ASSUME NEW v, NEW selected, IsView(v)
    PROVE  IsUrl(build_query_string(v, selected)) /\ Names(build_query_string(v, selected), v, selected)
<1> DEFINE u == build_query_string(v, selected)
<1>1. /\ u.status = url_value(v.filter, "Extinguished") /\ u.due = url_value(v.due, "All")
      /\ u.sort = url_value(v.sort, "Priority") /\ u.tag_mode = url_value(v.mode, "Or")
      /\ u.inc_overdue = v.include_overdue /\ u.no_tags = v.no_tags /\ u.tag = v.tags
      /\ u.entity = selected /\ u.linked = v.linked
    BY DEF build_query_string
<1> HIDE DEF u
<1>2. from_url_value(u.status, CardFilters, "Extinguished") = v.filter
    BY <1>1 DEF IsView, Views, from_url_value, url_value, CardFilters
<1>3. parse_due_date_filter(u.due) = v.due
    BY <1>1 DEF IsView, Views, parse_due_date_filter, from_url_value, url_value, DueDateFilters
<1>4. from_url_value(u.sort, SortOrders, "Priority") = v.sort
    BY <1>1 DEF IsView, Views, from_url_value, url_value, SortOrders
<1>5. from_url_value(u.tag_mode, TagFilterModes, "Or") = v.mode
    BY <1>1 DEF IsView, Views, from_url_value, url_value, TagFilterModes
<1>6. Parse(u, FALSE) = [v EXCEPT !.query = FALSE]
    <2> DEFINE p == Parse(u, FALSE)
               e == [v EXCEPT !.query = FALSE]
    <2>1. /\ p.filter = v.filter /\ p.due = v.due /\ p.sort = v.sort /\ p.mode = v.mode
          /\ p.include_overdue = v.include_overdue /\ p.no_tags = v.no_tags
          /\ p.tags = v.tags /\ p.linked = v.linked /\ p.query = FALSE /\ p.search_tags = TRUE
        <3>1. /\ p.filter = from_url_value(u.status, CardFilters, "Extinguished")
              /\ p.due = parse_due_date_filter(u.due)
              /\ p.sort = from_url_value(u.sort, SortOrders, "Priority")
              /\ p.mode = from_url_value(u.tag_mode, TagFilterModes, "Or")
              /\ p.include_overdue = u.inc_overdue /\ p.no_tags = u.no_tags
              /\ p.query = FALSE /\ p.search_tags = TRUE /\ p.tags = u.tag /\ p.linked = u.linked
            BY DEF Parse
        <3> QED
            BY <1>1, <1>2, <1>3, <1>4, <1>5, <3>1
    <2>2. IsUrl(u)
        BY <1>1 DEF IsUrl, IsView, Views
    <2>3. p \in Views(v.tags, v.linked)
        BY <2>1, <2>2, ParsedIsView DEF IsView
    <2>4. /\ e \in Views(v.tags, v.linked)
          /\ e.filter = v.filter /\ e.due = v.due /\ e.sort = v.sort /\ e.mode = v.mode
          /\ e.include_overdue = v.include_overdue /\ e.no_tags = v.no_tags
          /\ e.tags = v.tags /\ e.linked = v.linked /\ e.query = FALSE /\ e.search_tags = TRUE
        BY DEF IsView, Views
    <2> HIDE DEF p, e
    <2>5. p = e
        <3>1. /\ p.filter = e.filter /\ p.due = e.due /\ p.include_overdue = e.include_overdue
              /\ p.sort = e.sort /\ p.tags = e.tags /\ p.mode = e.mode /\ p.no_tags = e.no_tags
              /\ p.query = e.query /\ p.search_tags = e.search_tags /\ p.linked = e.linked
            BY <2>1, <2>4, Zenon
        <3> QED
            BY <2>3, <2>4, <3>1, SameView
    <2> QED
        BY <2>5 DEF p, e
<1>7. CASE v.no_tags /\ ~allows_no_tags(v.mode)
    BY <1>1, <1>7 DEF Names, IsUrl, IsView, Views, u
<1>8. CASE ~(v.no_tags /\ ~allows_no_tags(v.mode))
    <2>1. [v EXCEPT !.query = FALSE].no_tags = v.no_tags /\ [v EXCEPT !.query = FALSE].mode = v.mode
        BY DEF IsView, Views
    <2>2. LoadedView(u) = [v EXCEPT !.query = FALSE]
        BY <1>6, <1>8, <2>1 DEF LoadedView
    <2> QED
        BY <1>1, <2>2 DEF Names, IsUrl, IsView, Views, u
<1> QED
    BY <1>7, <1>8

-----------------------------------------------------------------------------
(* The handlers *)

\* A handler has set the signals and written the URL.
Written == IsView(view') /\ sync_query_params

LEMMA WrittenKeeps == ASSUME Written PROVE ViewInv'
    BY WrittenNames DEF Written, sync_query_params, ViewInv

LEMMA SetsWrites == ASSUME NEW v, IsView(v), Sets(v) PROVE Written
    BY DEF Sets, Written

LEMMA MouseWrites ==
    ASSUME IsView(view), Mouse
    PROVE  Written \/ \E query \in BOOLEAN : search(query)
<1>1. ASSUME NEW f \in CardFilters, set_filter(f) PROVE Written
    <2>1. IsView([view EXCEPT !.filter = f])
        BY DEF IsView, Views
    <2> QED
        BY <1>1, <2>1, SetsWrites DEF set_filter
<1>2. ASSUME NEW f \in DueFilters, on_due_change(f) PROVE Written
    <2>1. IsView([view EXCEPT !.due = f, !.include_overdue = @ /\ f \notin {"All", "Overdue"}])
        BY PicksAreChoices DEF IsView, Views
    <2> QED
        BY <1>2, <2>1, SetsWrites DEF on_due_change
<1>3. CASE toggle_overdue
    <2>1. IsView([view EXCEPT !.include_overdue = ~@])
        BY DEF IsView, Views
    <2> QED
        BY <1>3, <2>1, SetsWrites DEF toggle_overdue
<1>4. CASE cycle_mode
    <2> DEFINE mode == next_mode[view.mode]
    <2>1. mode \in TagFilterModes
        BY DEF IsView, Views, next_mode, TagFilterModes
    <2>2. Sets([view EXCEPT !.mode = mode, !.no_tags = @ /\ allows_no_tags(mode)])
        BY <1>4 DEF cycle_mode
    <2> HIDE DEF mode
    <2>3. IsView([view EXCEPT !.mode = mode, !.no_tags = @ /\ allows_no_tags(mode)])
        BY <2>1 DEF IsView, Views, allows_no_tags
    <2> QED
        BY <2>2, <2>3, SetsWrites
<1>5. CASE clear_all_tags \/ remove_no_tags
    <2>1. IsView([view EXCEPT !.tags = {}, !.no_tags = FALSE]) /\ IsView([view EXCEPT !.no_tags = FALSE])
        BY DEF IsView, Views
    <2> QED
        BY <1>5, <2>1, SetsWrites DEF clear_all_tags, remove_no_tags
<1>6. ASSUME NEW t \in TagIds, remove_chip(t) \/ toggle_tag_filter(t) PROVE Written
    <2>1. IsView([view EXCEPT !.tags = @ \ {t}])
        BY DEF IsView, Views
    <2>2. IsView([view EXCEPT !.no_tags = @ /\ allows_no_tags(view.mode), !.tags = SymDiff(@, {t})])
        BY DEF IsView, Views, allows_no_tags
    <2> QED
        BY <1>6, <2>1, <2>2, SetsWrites DEF remove_chip, toggle_tag_filter
<1>7. ASSUME NEW id \in Selectable, remove_link(id) PROVE Written
    <2>1. IsView([view EXCEPT !.linked = @ \ {id}])
        BY DEF IsView, Views
    <2> QED
        BY <1>7, <2>1, SetsWrites DEF remove_link
<1>8. CASE clear_links
    <2>1. IsView([view EXCEPT !.linked = {}])
        BY DEF IsView, Views
    <2> QED
        BY <1>8, <2>1, SetsWrites DEF clear_links
<1>9. ASSUME NEW order \in Orders, on_sort_change(order) PROVE Written
    <2>1. IsView([view EXCEPT !.sort = order])
        BY PicksAreChoices DEF IsView, Views
    <2> QED
        BY <1>9, <2>1, SetsWrites DEF on_sort_change
<1>10. CASE toggle_no_tags_row
    <2> DEFINE toggled == [view EXCEPT !.no_tags = ~view.no_tags]
               dropped == [toggled EXCEPT !.tags = {}, !.mode = "Or"]
    <2>1. IsView(toggled)
        BY DEF IsView, Views
    <2>2. Sets(toggled) \/ Sets(dropped)
        BY <1>10 DEF toggle_no_tags_row
    <2> HIDE DEF toggled
    <2>3. IsView(dropped)
        BY <2>1 DEF IsView, Views, TagFilterModes
    <2> QED
        BY <2>1, <2>2, <2>3, SetsWrites
<1>11. ASSUME NEW id, set_selection(id) PROVE Written
    BY <1>11 DEF set_selection, Written
<1>12. CASE clear_all_state
    <2>1. IsView([DefaultView EXCEPT !.search_tags = view.search_tags])
        BY DEF IsView, Views, DefaultView, CardFilters, DueDateFilters, SortOrders, TagFilterModes
    <2> QED
        BY <1>12, <2>1 DEF clear_all_state, Written
<1>13. CASE apply_today_quick_filter
    <2>1. IsView(TodayView)
        BY DEF IsView, Views, TodayView, CardFilters, DueDateFilters, TagFilterModes
    <2> QED
        BY <1>13, <2>1, SetsWrites DEF apply_today_quick_filter
<1>14. CASE filter_linked
    <2>1. \A ids : IsView(LinkedView(ids))
        BY DEF IsView, Views, LinkedView, CardFilters
    <2> QED
        BY <1>14, <2>1, SetsWrites DEF filter_linked
<1> QED
    BY <1>1, <1>2, <1>3, <1>4, <1>5, <1>6, <1>7, <1>8, <1>9, <1>10, <1>11, <1>12, <1>13, <1>14 DEF Mouse

LEMMA KeysWrite ==
    ASSUME IsView(view), Keyboard
    PROVE  Written \/ UNCHANGED <<view, selected_card, url>>
<1>1. ASSUME NEW v, IsView(v), Key(v) \/ \E menu \in {"due", "mode", "sort", "linked"} : Menu(menu, v)
      PROVE  Written
    BY <1>1, SetsWrites DEF Key, Menu
<1>2. \A query \in BOOLEAN : IsView(reset_filters_and_sort(query))
    BY DEF IsView, Views, reset_filters_and_sort, DefaultView, CardFilters, DueDateFilters,
           SortOrders, TagFilterModes
<1>3. IsView([view EXCEPT !.include_overdue = ~@])
    BY DEF IsView, Views
<1>4. ASSUME NEW f \in CardFilters, key_status(f) PROVE Written
    <2>1. IsView([view EXCEPT !.filter = f])
        BY DEF IsView, Views
    <2> QED
        BY <1>1, <1>4, <2>1 DEF key_status
<1>5. CASE key_no_tags
    <2>1. /\ IsView([view EXCEPT !.no_tags = FALSE])
          /\ IsView([view EXCEPT !.no_tags = TRUE, !.tags = {}, !.mode = "Or"])
        BY DEF IsView, Views, TagFilterModes
    <2>2. \/ Key([view EXCEPT !.no_tags = FALSE])
          \/ Key([view EXCEPT !.no_tags = TRUE, !.tags = {}, !.mode = "Or"])
        BY <1>5 DEF key_no_tags
    <2> QED
        BY <1>1, <2>1, <2>2
<1>6. CASE key_overdue \/ key_reset
    BY <1>1, <1>2, <1>3, <1>6 DEF key_overdue, key_reset
<1>7. CASE CloseMenu \/ \E menu \in {"due", "mode", "sort", "linked"} : OpenMenu(menu)
    BY <1>7 DEF CloseMenu, OpenMenu
<1>8. CASE due_submenu
    <2>1. \A f \in DueFilters : IsView([view EXCEPT !.due = f])
        BY PicksAreChoices DEF IsView, Views
    <2>2. IsView(TodayView)
        BY DEF IsView, Views, TodayView, CardFilters, DueDateFilters, TagFilterModes
    <2> QED
        BY <1>1, <1>3, <1>8, <2>1, <2>2 DEF due_submenu
<1>9. CASE mode_submenu
    <2>1. \A mode \in TagFilterModes :
              IsView([view EXCEPT !.mode = mode, !.no_tags = @ /\ allows_no_tags(mode)])
        BY DEF IsView, Views, allows_no_tags
    <2> QED
        BY <1>1, <1>9, <2>1 DEF mode_submenu
<1>10. CASE sort_submenu
    <2>1. \A order \in Orders : IsView([view EXCEPT !.sort = order])
        BY PicksAreChoices DEF IsView, Views
    <2> QED
        BY <1>1, <1>10, <2>1 DEF sort_submenu
<1>11. CASE linked_submenu
    <2>1. \A ids : IsView(LinkedView(ids)) /\ IsView([view EXCEPT !.linked = {}])
        BY DEF IsView, Views, LinkedView, CardFilters
    <2> QED
        BY <1>1, <1>11, <2>1 DEF linked_submenu
<1>12. CASE handle_escape
    <2>1. IsView([view EXCEPT !.query = FALSE]) /\ view.query \in BOOLEAN
        BY DEF IsView, Views
    <2> QED
        BY <1>2, <1>12, <2>1 DEF handle_escape, Written
<1> QED
    BY <1>4, <1>5, <1>6, <1>7, <1>8, <1>9, <1>10, <1>11, <1>12 DEF Keyboard

-----------------------------------------------------------------------------
(* The other steps *)

LEMMA LoadedKeeps ==
    ASSUME NEW u, IsUrl(u), url' = u, view' = LoadedView(u), selected_card' = u.entity
    PROVE  ViewInv'
<1> DEFINE v == LoadedView(u)
<1>1. IsView(v) /\ v.query = FALSE
    BY LoadedIsView
<1> HIDE DEF v
<1>2. [v EXCEPT !.query = FALSE] = v
    BY <1>1 DEF IsView, Views
<1>3. Names(u, v, u.entity)
    BY <1>2 DEF Names, v
<1> QED
    BY <1>1, <1>3 DEF ViewInv, v

LEMMA RestoredKeeps ==
    ASSUME IsView(view), NEW u \in Bookmarks, restore_from_query_params(u)
    PROVE  ViewInv'
<1> DEFINE v == Parse(u, view.query)
<1>1. IsUrl(u) /\ view.query \in BOOLEAN
    BY BookmarkFlags DEF IsUrl, IsView, Views
<1>2. IsView(v) /\ IsView(Parse(u, FALSE))
    BY <1>1, ParsedIsView
<1>3. /\ Parse(u, FALSE) = [v EXCEPT !.query = FALSE]
      /\ v.no_tags = Parse(u, FALSE).no_tags /\ v.mode = Parse(u, FALSE).mode
    <2> DEFINE p == Parse(u, FALSE)
               e == [v EXCEPT !.query = FALSE]
    <2>1. /\ p.filter = v.filter /\ p.due = v.due /\ p.sort = v.sort /\ p.mode = v.mode
          /\ p.include_overdue = v.include_overdue /\ p.no_tags = v.no_tags
          /\ p.tags = v.tags /\ p.linked = v.linked /\ p.query = FALSE /\ p.search_tags = v.search_tags
        BY DEF Parse
    <2>2. v \in Views(v.tags, v.linked) /\ p \in Views(v.tags, v.linked)
        BY <1>2, <2>1 DEF IsView
    <2> HIDE DEF v, p
    <2>3. /\ e \in Views(v.tags, v.linked)
          /\ e.filter = v.filter /\ e.due = v.due /\ e.sort = v.sort /\ e.mode = v.mode
          /\ e.include_overdue = v.include_overdue /\ e.no_tags = v.no_tags
          /\ e.tags = v.tags /\ e.linked = v.linked /\ e.query = FALSE /\ e.search_tags = v.search_tags
        BY <2>2 DEF Views
    <2> HIDE DEF e
    <2>4. /\ p.filter = e.filter /\ p.due = e.due /\ p.include_overdue = e.include_overdue
          /\ p.sort = e.sort /\ p.tags = e.tags /\ p.mode = e.mode /\ p.no_tags = e.no_tags
          /\ p.query = e.query /\ p.search_tags = e.search_tags /\ p.linked = e.linked
        BY <2>1, <2>3, Zenon
    <2>5. p = e
        BY <2>2, <2>3, <2>4, SameView
    <2> QED
        BY <2>1, <2>5 DEF p, e
<1>4. Names(u, v, u.entity)
    BY <1>3 DEF Names, LoadedView
<1>5. view' = v /\ url' = u /\ selected_card' = u.entity
    BY DEF restore_from_query_params
<1> HIDE DEF v
<1> QED
    BY <1>1, <1>2, <1>4, <1>5 DEF ViewInv

LEMMA SearchKeeps ==
    ASSUME ViewInv, NEW query \in BOOLEAN, search(query)
    PROVE  ViewInv'
<1> DEFINE v == [view EXCEPT !.query = query]
<1>1. IsView(view)
    BY DEF ViewInv
<1>2. /\ IsView(v) /\ v.no_tags = view.no_tags /\ v.mode = view.mode
      /\ [v EXCEPT !.query = FALSE] = [view EXCEPT !.query = FALSE]
    BY <1>1 DEF IsView, Views
<1>3. view' = v /\ url' = url /\ selected_card' = selected_card
    BY DEF search
<1> HIDE DEF v
<1> QED
    BY <1>2, <1>3 DEF ViewInv, Names

LEMMA ViewInvNext == ASSUME ViewInv, [ViewNext]_viewVars PROVE ViewInv'
<1>1. CASE Reload
    BY <1>1, LoadedKeeps DEF Reload, ViewInv
<1>2. ASSUME NEW u \in Bookmarks, restore_from_query_params(u) PROVE ViewInv'
    BY <1>2, RestoredKeeps DEF ViewInv
<1>3. CASE Mouse
    BY <1>3, MouseWrites, WrittenKeeps, SearchKeeps DEF ViewInv
<1>4. CASE UNCHANGED <<view, selected_card, url>>
    BY <1>4 DEF ViewInv
<1>5. CASE Keyboard
    BY <1>4, <1>5, KeysWrite, WrittenKeeps DEF ViewInv
<1>6. CASE UNCHANGED viewVars
    BY <1>4, <1>6 DEF viewVars
<1> QED
    BY <1>1, <1>2, <1>3, <1>5, <1>6 DEF ViewNext

LEMMA ViewInvInit == ViewInit => ViewInv
<1> SUFFICES ASSUME ViewInit PROVE ViewInv
    OBVIOUS
<1> DEFINE v == LoadedView(url)
<1>1. IsUrl(url) /\ view = v /\ selected_card = url.entity
    BY BookmarkFlags DEF ViewInit, IsUrl
<1>2. IsView(v) /\ v.query = FALSE
    BY <1>1, LoadedIsView
<1> HIDE DEF v
<1>3. [v EXCEPT !.query = FALSE] = v
    BY <1>2 DEF IsView, Views
<1> QED
    BY <1>1, <1>2, <1>3 DEF ViewInv, Names, v

-----------------------------------------------------------------------------
(* The theorems *)

\* Whatever the user clicks, presses and types, and whichever entries of the
\* history come back: the page loaded from the URL shows the filters and the card
\* that are in use, but for the text searched for (build_query_string,
\* restore_from_query_params). Excepted are "no tags" with a mode other than OR.
THEOREM UrlAlwaysNamesView == ViewSpec => []UrlNamesView
<1>1. ViewInv => UrlNamesView
    BY DEF ViewInv, Names, UrlNamesView
<1> QED
    BY <1>1, ViewInvInit, ViewInvNext, PTL DEF ViewSpec

\* Filters that leave nothing to reset pass the same cards as the defaults,
\* whatever the mode: without tags it is not asked for.
LEMMA DefaultsPass ==
    ASSUME IsView(view), ~view.query, ~has_filters
    PROVE  Lists = sort_cards(filtered(Cards, DefaultView), "Priority")
<1>1. /\ view.filter = "Extinguished" /\ view.due = "All" /\ view.include_overdue = FALSE
      /\ view.tags = {} /\ view.no_tags = FALSE /\ view.linked = {} /\ view.sort = "Priority"
      /\ view.query = FALSE /\ view.search_tags = TRUE
    BY DEF IsView, Views, has_filters
<1>2. \A all, mode : apply_tag_filter(all, {}, mode, FALSE) = all
    BY DEF apply_tag_filter
<1>3. filtered(Cards, view) = filtered(Cards, DefaultView)
    <2>1. /\ DefaultView.filter = "Extinguished" /\ DefaultView.due = "All"
          /\ DefaultView.include_overdue = FALSE /\ DefaultView.tags = {} /\ DefaultView.no_tags = FALSE
          /\ DefaultView.linked = {} /\ DefaultView.query = FALSE /\ DefaultView.search_tags = TRUE
        BY DEF DefaultView
    <2> QED
        BY <1>1, <1>2, <2>1, Zenon DEF filtered
<1> QED
    BY <1>1, <1>3 DEF Lists

\* Escape reaches the list of the defaults: where it has nothing left to close,
\* clear or reset, no filter narrows the list (handle_escape, has_filters).
THEOREM EscapeAlwaysReachesDefault == ViewSpec => []EscapeReachesDefault
<1>1. ViewInv => EscapeReachesDefault
    BY DefaultsPass DEF ViewInv, EscapeReachesDefault
<1> QED
    BY <1>1, ViewInvInit, ViewInvNext, PTL DEF ViewSpec

-----------------------------------------------------------------------------
(* What the list shows (Filter) *)

\* A stage of the pipeline keeps what it asks for.
Keeps(out, all, S, P) == out \in Seq(S) /\ EntriesOf(out) = EntriesOf(all) \cap P

LEMMA RetainKeeps ==
    ASSUME NEW S, NEW all \in Seq(S), NEW P
    PROVE  Keeps(Retained(all, {i \in DOMAIN all : all[i] \in P}), all, S, P)
<1>1. {all[i] : i \in DOMAIN all \cap {i \in DOMAIN all : all[i] \in P}} = EntriesOf(all) \cap P
    BY DEF EntriesOf
<1> QED
    BY <1>1, RetainedEntries DEF Keeps

\* The cards a stage lets through.
LinkedIn(S, v) == {c \in S : v.linked = {} \/ c.id \in v.linked}
BlazeIn(S, v) == {c \in S : Blaze(v.filter, c)}
SearchIn(S, v) == {c \in S : ~v.query \/ c.content_hit \/ (v.search_tags /\ c.tags \cap c.title_hits # {})}
TagsIn(S, v) == {c \in S : \/ v.tags = {} /\ ~v.no_tags
                           \/ v.no_tags /\ c.tags = {}
                           \/ v.tags # {} /\ Tagged(c, v.tags, v.mode)}
DueIn(S, v) == {c \in S : v.due = "All" \/ (c.due_date # NoDay /\ Due(v.due, c.due_date, v.include_overdue))}

LEMMA Stages ==
    ASSUME NEW S, NEW all \in Seq(S), NEW v
    PROVE  /\ Keeps(apply_linked_card_filter(all, v.linked), all, S, LinkedIn(S, v))
           /\ Keeps(apply_blaze_filter(all, v.filter), all, S, BlazeIn(S, v))
           /\ Keeps(apply_search_filter(all, v.query, v.search_tags), all, S, SearchIn(S, v))
           /\ Keeps(apply_tag_filter(all, v.tags, v.mode, v.no_tags), all, S, TagsIn(S, v))
           /\ Keeps(apply_due_date_filter(all, v.due, v.include_overdue), all, S, DueIn(S, v))
<1>1. /\ \A i \in DOMAIN all : all[i] \in S
      /\ \A P : Keeps(Retained(all, {i \in DOMAIN all : all[i] \in P}), all, S, P)
    BY RetainKeeps
<1>2. EntriesOf(all) \subseteq S
    BY <1>1 DEF EntriesOf
<1>3. ASSUME NEW P, S \subseteq P PROVE Keeps(all, all, S, P)
    BY <1>2, <1>3 DEF Keeps
<1>4. Keeps(apply_linked_card_filter(all, v.linked), all, S, LinkedIn(S, v))
    <2>1. CASE v.linked = {}
        BY <2>1, <1>3 DEF apply_linked_card_filter, LinkedIn
    <2>2. CASE v.linked # {}
        <3>1. {i \in DOMAIN all : all[i].id \in v.linked} = {i \in DOMAIN all : all[i] \in LinkedIn(S, v)}
            BY <1>1, <2>2 DEF LinkedIn
        <3> QED
            BY <3>1, <2>2, <1>1 DEF apply_linked_card_filter, retain
    <2> QED
        BY <2>1, <2>2
<1>5. Keeps(apply_blaze_filter(all, v.filter), all, S, BlazeIn(S, v))
    <2>1. {i \in DOMAIN all : Blaze(v.filter, all[i])} = {i \in DOMAIN all : all[i] \in BlazeIn(S, v)}
        BY <1>1 DEF BlazeIn
    <2> QED
        BY <2>1, <1>1 DEF apply_blaze_filter, retain
<1>6. Keeps(apply_search_filter(all, v.query, v.search_tags), all, S, SearchIn(S, v))
    <2>1. CASE ~v.query
        BY <2>1, <1>3 DEF apply_search_filter, SearchIn
    <2>2. CASE v.query
        <3>1. {i \in DOMAIN all : all[i].content_hit \/ (v.search_tags /\ all[i].tags \cap all[i].title_hits # {})}
                  = {i \in DOMAIN all : all[i] \in SearchIn(S, v)}
            BY <1>1, <2>2 DEF SearchIn
        <3> QED
            BY <3>1, <2>2, <1>1 DEF apply_search_filter, retain
    <2> QED
        BY <2>1, <2>2
<1>7. Keeps(apply_tag_filter(all, v.tags, v.mode, v.no_tags), all, S, TagsIn(S, v))
    <2>1. CASE v.tags = {} /\ ~v.no_tags
        BY <2>1, <1>3 DEF apply_tag_filter, TagsIn
    <2>2. CASE ~(v.tags = {} /\ ~v.no_tags)
        <3>1. {i \in DOMAIN all : \/ v.no_tags /\ all[i].tags = {}
                                  \/ v.tags # {} /\ Tagged(all[i], v.tags, v.mode)}
                  = {i \in DOMAIN all : all[i] \in TagsIn(S, v)}
            BY <1>1, <2>2 DEF TagsIn
        <3> QED
            BY <3>1, <2>2, <1>1 DEF apply_tag_filter, retain
    <2> QED
        BY <2>1, <2>2
<1>8. Keeps(apply_due_date_filter(all, v.due, v.include_overdue), all, S, DueIn(S, v))
    <2>1. CASE v.due = "All"
        BY <2>1, <1>3 DEF apply_due_date_filter, DueIn
    <2>2. CASE v.due # "All"
        <3>1. {i \in DOMAIN all : all[i].due_date # NoDay /\ Due(v.due, all[i].due_date, v.include_overdue)}
                  = {i \in DOMAIN all : all[i] \in DueIn(S, v)}
            BY <1>1, <2>2 DEF DueIn
        <3> QED
            BY <3>1, <2>2, <1>1 DEF apply_due_date_filter, retain
    <2> QED
        BY <2>1, <2>2
<1> QED
    BY <1>4, <1>5, <1>6, <1>7, <1>8

\* The pipeline lets a card through if each stage does.
AllCards == EntriesOf(Cards)
LEMMA FilteredCards ==
    ASSUME NEW v
    PROVE  /\ filtered(Cards, v) \in Seq(AllCards)
           /\ EntriesOf(filtered(Cards, v)) =
                  LinkedIn(AllCards, v) \cap BlazeIn(AllCards, v) \cap SearchIn(AllCards, v)
                  \cap TagsIn(AllCards, v) \cap DueIn(AllCards, v)
<1> DEFINE S == AllCards
           a == apply_linked_card_filter(Cards, v.linked)
           b == apply_blaze_filter(a, v.filter)
           c == apply_search_filter(b, v.query, v.search_tags)
           d == apply_tag_filter(c, v.tags, v.mode, v.no_tags)
           e == apply_due_date_filter(d, v.due, v.include_overdue)
<1>1. Cards \in Seq(S)
    BY CardsAreListed DEF AllCards, EntriesOf, Range
<1>2. filtered(Cards, v) = e
    BY DEF filtered
<1>3. LinkedIn(S, v) \subseteq S
    BY DEF LinkedIn
<1> HIDE DEF S
<1>4. Keeps(a, Cards, S, LinkedIn(S, v))
    BY <1>1, Stages
<1> HIDE DEF a
<1>5. Keeps(b, a, S, BlazeIn(S, v))
    BY <1>4, Stages DEF Keeps
<1> HIDE DEF b
<1>6. Keeps(c, b, S, SearchIn(S, v))
    BY <1>5, Stages DEF Keeps
<1> HIDE DEF c
<1>7. Keeps(d, c, S, TagsIn(S, v))
    BY <1>6, Stages DEF Keeps
<1> HIDE DEF d
<1>8. Keeps(e, d, S, DueIn(S, v))
    BY <1>7, Stages DEF Keeps
<1> HIDE DEF e
<1>9. EntriesOf(Cards) = S
    BY DEF S, AllCards
<1> QED
    BY <1>2, <1>3, <1>4, <1>5, <1>6, <1>7, <1>8, <1>9 DEF Keeps, S

\* Sorting leaves the same cards.
LEMMA SortedCards ==
    ASSUME NEW S, NEW all \in Seq(S), NEW order, NEW list \in sort_cards(all, order)
    PROVE  /\ DOMAIN list = DOMAIN all /\ DOMAIN all \subseteq Nat
           /\ \A i \in DOMAIN list : list[i] \in EntriesOf(all)
           /\ \A c \in EntriesOf(all) : c \in Range(list)
           /\ \A i, j \in DOMAIN list : i < j => ~Before(order, list[j], list[i])
<1> DEFINE D == DOMAIN all
           n == Cardinality(D)
<1>1. D = 1 .. Len(all) /\ Len(all) \in Nat
    OBVIOUS
<1>2. IsFiniteSet(D) /\ n = Len(all)
    BY <1>1, FS_Interval
<1>3. PICK p \in SetToSeqs(D) : list = [i \in D |-> all[p[i]]]
    BY DEF sort_cards
<1>4. \A i, j \in D : i < j => ~Before(order, list[j], list[i])
    BY DEF sort_cards
<1> HIDE DEF D, n
<1>5. p \in [1 .. n -> D] /\ \A i, j \in 1 .. n : i # j => p[i] # p[j]
    BY <1>3 DEF SetToSeqs, n
<1>6. 1 .. n = D
    BY <1>1, <1>2
<1>7. p \in Injection(D, D)
    BY <1>5, <1>6 DEF Injection, IsInjective
<1>8. p \in Surjection(D, D)
    BY <1>7, <1>2, FS_Injection DEF n
<1>9. \A j \in D : \E i \in D : p[i] = j
    BY <1>8 DEF Surjection
<1>10. \A i \in D : p[i] \in D
    BY <1>5, <1>6
<1>11. DOMAIN list = D
    BY <1>3
<1>12. \A i \in D : list[i] = all[p[i]]
    BY <1>3
<1>13. \A i \in D : list[i] \in EntriesOf(all)
    BY <1>10, <1>12 DEF EntriesOf, D
<1>14. \A c \in EntriesOf(all) : c \in Range(list)
    <2> TAKE c \in EntriesOf(all)
    <2>1. PICK j \in D : c = all[j]
        BY DEF EntriesOf, D
    <2>2. PICK i \in D : p[i] = j
        BY <1>9
    <2> QED
        BY <2>1, <2>2, <1>11, <1>12 DEF Range
<1> QED
    BY <1>1, <1>4, <1>11, <1>13, <1>14 DEF D

LEMMA BadgeOf ==
    ASSUME NEW day \in Int
    PROVE  /\ day < today => format_due_date_badge(day).kind = "Overdue"
           /\ day = today => format_due_date_badge(day).kind = "Today"
           /\ day = today + 1 => format_due_date_badge(day).kind = "tomorrow"
           /\ day > today + 1 => format_due_date_badge(day).kind = "Upcoming"
<1> USE TodayIsADay
<1>1. CASE day < today
    <2>1. due_date_status(day) = [kind |-> "Overdue", days |-> today - day]
        BY <1>1 DEF due_date_status
    <2> QED
        BY <2>1, <1>1 DEF format_due_date_badge
<1>2. CASE day = today
    <2>1. due_date_status(day) = [kind |-> "Today", days |-> 0]
        BY <1>2 DEF due_date_status
    <2> QED
        BY <2>1, <1>2 DEF format_due_date_badge
<1>3. CASE day > today
    <2>1. due_date_status(day) = [kind |-> "Upcoming", days |-> day - today]
        BY <1>3 DEF due_date_status
    <2>2. CASE day = today + 1
        BY <2>1, <2>2 DEF format_due_date_badge
    <2>3. CASE day # today + 1
        <3>1. day - today # 1
            BY <2>3
        <3> QED
            BY <2>1, <2>3, <3>1, <1>3 DEF format_due_date_badge
    <2> QED
        BY <2>2, <2>3
<1> QED
    BY <1>1, <1>2, <1>3

\* A day in the window of a filter has the badge of its name.
LEMMA DueBadges ==
    ASSUME NEW day \in Int, NEW filter \in DueDateFilters \ {"All"}, NEW overdue \in BOOLEAN,
           Due(filter, day, overdue)
    PROVE  LET kind == format_due_date_badge(day).kind
               late == IF overdue THEN {"Overdue"} ELSE {}
           IN  /\ filter = "Overdue" => kind \in {"Overdue"}
               /\ filter = "Today" => kind \in {"Today"} \cup late
               /\ filter = "UpcomingTomorrow" => kind \in {"tomorrow"} \cup late
               /\ filter = "TodayAndTomorrow" => kind \in {"Today", "tomorrow"} \cup late
               /\ filter # "Overdue" => kind \in {"Today", "tomorrow", "Upcoming"} \cup late
<1> DEFINE kind == format_due_date_badge(day).kind
<1>1. /\ day < today => kind = "Overdue"
      /\ day = today => kind = "Today"
      /\ day = today + 1 => kind = "tomorrow"
      /\ day > today + 1 => kind = "Upcoming"
    BY BadgeOf
<1> HIDE DEF kind
<1>2. filter = "Overdue" => day < today
    BY DEF Due
<1>3. filter = "Today" => day = today \/ (overdue /\ day < today)
    BY TodayIsADay DEF Due, Window
<1>4. filter = "UpcomingTomorrow" => day = today + 1 \/ (overdue /\ day < today)
    BY TodayIsADay DEF Due, Window
<1>5. filter = "TodayAndTomorrow" => day = today \/ day = today + 1 \/ (overdue /\ day < today)
    BY TodayIsADay DEF Due, Window
<1>6. filter # "Overdue" => day >= today \/ (overdue /\ day < today)
    BY TodayIsADay DEF Due, Window, DueDateFilters
<1>7. day < today \/ day = today \/ day = today + 1 \/ day > today + 1
    BY TodayIsADay
<1>8. day >= today => kind \in {"Today", "tomorrow", "Upcoming"}
    BY <1>1, <1>7, TodayIsADay
<1> QED
    BY <1>1, <1>2, <1>3, <1>4, <1>5, <1>6, <1>8 DEF kind

LEMMA ListedCards ==
    ASSUME NEW list \in Lists
    PROVE  /\ DOMAIN list \subseteq Nat
           /\ \A i \in DOMAIN list :
                 /\ list[i] \in EntriesOf(filtered(Cards, view))
                 /\ list[i].due_date \in Int \cup {NoDay}
                 /\ list[i].due_time \in Int /\ list[i].priority \in Int
           /\ \A c \in EntriesOf(filtered(Cards, view)) : c \in Range(list)
           /\ \A i, j \in DOMAIN list : i < j => ~Before(view.sort, list[j], list[i])
<1>1. list \in sort_cards(filtered(Cards, view), view.sort)
    BY DEF Lists
<1>2. \A c \in AllCards : c.due_date \in Int \cup {NoDay} /\ c.due_time \in Int /\ c.priority \in Int
    BY CardsAreListed DEF AllCards, EntriesOf
<1>3. EntriesOf(filtered(Cards, view)) \subseteq AllCards
    BY FilteredCards DEF LinkedIn
<1>4. filtered(Cards, view) \in Seq(AllCards)
    BY FilteredCards
<1> QED
    BY <1>1, <1>2, <1>3, <1>4, SortedCards

LEMMA BadgesTold == IsView(view) => FiltersTellBadges
<1> SUFFICES ASSUME IsView(view) PROVE FiltersTellBadges
    OBVIOUS
<1>1. view.due \in DueDateFilters /\ view.include_overdue \in BOOLEAN
    BY DEF IsView, Views
<1> DEFINE late == IF view.include_overdue THEN {"Overdue"} ELSE {}
           all == [view EXCEPT !.due = "All"]
<1>2. ASSUME NEW kinds, view.due # "All",
             \A day \in Int : Due(view.due, day, view.include_overdue) =>
                                  format_due_date_badge(day).kind \in kinds
      PROVE  Badged(kinds)
    <2> SUFFICES ASSUME NEW list \in Lists, NEW i \in DOMAIN list
                 PROVE  list[i].due_date # NoDay /\ format_due_date_badge(list[i].due_date).kind \in kinds
        BY DEF Badged
    <2>1. list[i] \in DueIn(AllCards, view)
        BY ListedCards, FilteredCards
    <2>2. list[i].due_date # NoDay /\ Due(view.due, list[i].due_date, view.include_overdue)
        BY <2>1, <1>2 DEF DueIn
    <2>3. list[i].due_date \in Int
        BY <2>2, ListedCards
    <2> QED
        BY <2>2, <2>3, <1>2
<1>3. \A day \in Int : view.due # "All" /\ Due(view.due, day, view.include_overdue) =>
          LET kind == format_due_date_badge(day).kind
          IN  /\ view.due = "Overdue" => kind \in {"Overdue"}
              /\ view.due = "Today" => kind \in {"Today"} \cup late
              /\ view.due = "UpcomingTomorrow" => kind \in {"tomorrow"} \cup late
              /\ view.due = "TodayAndTomorrow" => kind \in {"Today", "tomorrow"} \cup late
              /\ view.due # "Overdue" => kind \in {"Today", "tomorrow", "Upcoming"} \cup late
    BY <1>1, DueBadges
<1>4. view.due = "Overdue" => Badged({"Overdue"})
    BY <1>2, <1>3
<1>5. view.due = "Today" => Badged({"Today"} \cup late)
    BY <1>2, <1>3
<1>6. view.due = "UpcomingTomorrow" => Badged({"tomorrow"} \cup late)
    BY <1>2, <1>3
<1>7. view.due = "TodayAndTomorrow" => Badged({"Today", "tomorrow"} \cup late)
    BY <1>2, <1>3
<1>8. view.due \in DueDateFilters \ {"All", "Overdue"} => Badged({"Today", "tomorrow", "Upcoming"} \cup late)
    BY <1>2, <1>3
<1>9. ASSUME view.include_overdue, NEW c \in EntriesOf(filtered(Cards, all)),
             c.due_date # NoDay, c.due_date < today
      PROVE  \A list \in Lists : c \in Range(list)
    <2>1. all.linked = view.linked /\ all.filter = view.filter /\ all.query = view.query
          /\ all.search_tags = view.search_tags /\ all.tags = view.tags /\ all.mode = view.mode
          /\ all.no_tags = view.no_tags
        BY DEF IsView, Views
    <2>2. c \in LinkedIn(AllCards, view) \cap BlazeIn(AllCards, view) \cap SearchIn(AllCards, view)
                \cap TagsIn(AllCards, view)
        <3> HIDE DEF all
        <3>1. c \in LinkedIn(AllCards, all) \cap BlazeIn(AllCards, all) \cap SearchIn(AllCards, all)
                    \cap TagsIn(AllCards, all)
            BY <1>9, FilteredCards
        <3>2. /\ LinkedIn(AllCards, all) = LinkedIn(AllCards, view) /\ BlazeIn(AllCards, all) = BlazeIn(AllCards, view)
              /\ SearchIn(AllCards, all) = SearchIn(AllCards, view) /\ TagsIn(AllCards, all) = TagsIn(AllCards, view)
            BY <2>1 DEF LinkedIn, BlazeIn, SearchIn, TagsIn
        <3> QED
            BY <3>1, <3>2
    <2>3. view.due # "All" => Due(view.due, c.due_date, view.include_overdue)
        BY <1>1, <1>9 DEF Due
    <2>4. c \in DueIn(AllCards, view)
        BY <2>2, <2>3, <1>9 DEF DueIn, LinkedIn
    <2> QED
        BY <2>2, <2>4, FilteredCards, ListedCards
<1>10. view.include_overdue =>
           \A i \in DOMAIN filtered(Cards, all) :
               filtered(Cards, all)[i].due_date # NoDay /\ filtered(Cards, all)[i].due_date < today =>
                   \A list \in Lists : filtered(Cards, all)[i] \in Range(list)
    BY <1>9 DEF EntriesOf
<1> QED
    BY <1>4, <1>5, <1>6, <1>7, <1>8, <1>10 DEF FiltersTellBadges

LEMMA UndatedComeLast == UndatedLast
<1> SUFFICES ASSUME view.sort \in {"DueDate", "DueDateReverse"}, NEW list \in Lists,
                    NEW i \in DOMAIN list, NEW j \in DOMAIN list, i < j
             PROVE  /\ list[i].due_date = NoDay => list[j].due_date = NoDay
                    /\ list[j].due_date # NoDay =>
                           IF view.sort = "DueDate" THEN list[i].due_date <= list[j].due_date
                           ELSE list[i].due_date >= list[j].due_date
                    /\ SameDue(list[i], list[j]) => list[i].priority >= list[j].priority
    BY DEF UndatedLast
<1> DEFINE a == list[i]
           b == list[j]
           reverse == view.sort = "DueDateReverse"
<1>1. ~Before(view.sort, b, a) /\ a.priority \in Int /\ b.priority \in Int
      /\ a.due_date \in Int \cup {NoDay} /\ b.due_date \in Int \cup {NoDay}
      /\ a.due_time \in Int /\ b.due_time \in Int
    BY ListedCards
<1> HIDE DEF a, b
<1>2. Before(view.sort, b, a) = (DueBefore(b, a, reverse) \/ (~DueBefore(a, b, reverse) /\ b.priority > a.priority))
    BY DEF Before
<1>3. ~DueBefore(b, a, reverse) /\ (DueBefore(a, b, reverse) \/ ~(b.priority > a.priority))
    BY <1>1, <1>2
<1>4. a.due_date = NoDay => b.due_date = NoDay
    BY <1>3 DEF DueBefore
<1>5. SameDue(a, b) => ~DueBefore(a, b, reverse)
    BY <1>1 DEF DueBefore, Earlier, SameDue
<1>6. SameDue(a, b) => a.priority >= b.priority
    BY <1>1, <1>3, <1>5
<1>7. ASSUME b.due_date # NoDay
      PROVE  IF view.sort = "DueDate" THEN a.due_date <= b.due_date ELSE a.due_date >= b.due_date
    <2>1. a.due_date # NoDay /\ a.due_date \in Int /\ b.due_date \in Int
        BY <1>1, <1>4, <1>7
    <2>2. IF reverse THEN ~Earlier(a, b) ELSE ~Earlier(b, a)
        BY <1>3, <1>7, <2>1 DEF DueBefore
    <2>3. CASE reverse
        BY <2>1, <2>2, <2>3 DEF Earlier
    <2>4. CASE ~reverse
        BY <2>1, <2>2, <2>4 DEF Earlier
    <2> QED
        BY <2>3, <2>4
<1> QED
    BY <1>4, <1>6, <1>7 DEF a, b

LEMMA ModesComplement == IsView(view) => ModesAreComplements
<1> SUFFICES ASSUME IsView(view), view.tags # {}, ~view.no_tags,
                    NEW pair \in {<<"Or", "Nor">>, <<"And", "Nand">>}
             PROVE  LET Under(mode) == Range(filtered(Cards, [view EXCEPT !.mode = mode]))
                        all == Range(filtered(Cards, [view EXCEPT !.tags = {}]))
                    IN  /\ Under(pair[1]) \cup Under(pair[2]) = all
                        /\ Under(pair[1]) \cap Under(pair[2]) = {}
    BY DEF ModesAreComplements
<1> DEFINE In(mode) == [view EXCEPT !.mode = mode]
           any == [view EXCEPT !.tags = {}]
           Others == LinkedIn(AllCards, view) \cap BlazeIn(AllCards, view)
                     \cap SearchIn(AllCards, view) \cap DueIn(AllCards, view)
<1>1. \A q : Range(q) = EntriesOf(q)
    BY DEF Range, EntriesOf
<1>2. ASSUME NEW v, v.linked = view.linked, v.filter = view.filter, v.query = view.query,
             v.search_tags = view.search_tags, v.due = view.due, v.include_overdue = view.include_overdue
      PROVE  EntriesOf(filtered(Cards, v)) = Others \cap TagsIn(AllCards, v)
    <2>1. /\ LinkedIn(AllCards, v) = LinkedIn(AllCards, view) /\ BlazeIn(AllCards, v) = BlazeIn(AllCards, view)
          /\ SearchIn(AllCards, v) = SearchIn(AllCards, view) /\ DueIn(AllCards, v) = DueIn(AllCards, view)
        BY <1>2 DEF LinkedIn, BlazeIn, SearchIn, DueIn
    <2> QED
        BY <2>1, FilteredCards
<1>3. \A mode : EntriesOf(filtered(Cards, In(mode))) = Others \cap TagsIn(AllCards, In(mode))
    <2> TAKE mode
    <2>1. LET v == In(mode)
          IN  /\ v.linked = view.linked /\ v.filter = view.filter /\ v.query = view.query
              /\ v.search_tags = view.search_tags /\ v.due = view.due
              /\ v.include_overdue = view.include_overdue
        BY DEF IsView, Views
    <2> QED
        BY <2>1, <1>2
<1>4. EntriesOf(filtered(Cards, any)) = Others \cap TagsIn(AllCards, any)
    <2>1. /\ any.linked = view.linked /\ any.filter = view.filter /\ any.query = view.query
          /\ any.search_tags = view.search_tags /\ any.due = view.due
          /\ any.include_overdue = view.include_overdue
        BY DEF IsView, Views
    <2> QED
        BY <2>1, <1>2
<1>5. TagsIn(AllCards, any) = AllCards
    BY DEF IsView, Views, TagsIn
<1>6. \A mode : TagsIn(AllCards, In(mode)) = {c \in AllCards : Tagged(c, view.tags, mode)}
    BY DEF IsView, Views, TagsIn
<1> HIDE DEF In, any, Others
<1>7. \A c : /\ Tagged(c, view.tags, "Nor") = ~Tagged(c, view.tags, "Or")
             /\ Tagged(c, view.tags, "Nand") = ~Tagged(c, view.tags, "And")
    BY DEF Tagged
<1>8. Others \subseteq AllCards
    BY DEF Others, LinkedIn
<1>9. /\ TagsIn(AllCards, In(pair[1])) \cup TagsIn(AllCards, In(pair[2])) = AllCards
      /\ TagsIn(AllCards, In(pair[1])) \cap TagsIn(AllCards, In(pair[2])) = {}
    <2>1. ASSUME NEW m, NEW k, \A c : Tagged(c, view.tags, k) <=> ~Tagged(c, view.tags, m)
          PROVE  /\ TagsIn(AllCards, In(m)) \cup TagsIn(AllCards, In(k)) = AllCards
                 /\ TagsIn(AllCards, In(m)) \cap TagsIn(AllCards, In(k)) = {}
        BY <1>6, <2>1
    <2>2. CASE pair = <<"Or", "Nor">>
        <3>1. pair[1] = "Or" /\ pair[2] = "Nor"
            BY <2>2
        <3>2. \A c : Tagged(c, view.tags, "Nor") <=> ~Tagged(c, view.tags, "Or")
            BY <1>7, Zenon
        <3> QED
            BY <2>1, <3>1, <3>2
    <2>3. CASE pair = <<"And", "Nand">>
        <3>1. pair[1] = "And" /\ pair[2] = "Nand"
            BY <2>3
        <3>2. \A c : Tagged(c, view.tags, "Nand") <=> ~Tagged(c, view.tags, "And")
            BY <1>7, Zenon
        <3> QED
            BY <2>1, <3>1, <3>2
    <2> QED
        BY <2>2, <2>3
<1>10. /\ EntriesOf(filtered(Cards, In(pair[1]))) \cup EntriesOf(filtered(Cards, In(pair[2])))
              = EntriesOf(filtered(Cards, any))
       /\ EntriesOf(filtered(Cards, In(pair[1]))) \cap EntriesOf(filtered(Cards, In(pair[2]))) = {}
    BY <1>3, <1>4, <1>5, <1>8, <1>9
<1> QED
    BY <1>1, <1>10 DEF In, any

\* The list is what the filters and the order ask for: badges and filters by due date
\* agree, undated cards come last, and modes are complements (filter.rs).
THEOREM ListsAreAsAsked == ViewSpec => []ListAsAsked
<1>1. ViewInv => ListAsAsked
    BY BadgesTold, UndatedComeLast, ModesComplement DEF ViewInv, ListAsAsked
<1> QED
    BY <1>1, ViewInvInit, ViewInvNext, PTL DEF ViewSpec

-----------------------------------------------------------------------------
(* Drag and drop.  What the view shows of a drag belongs to the session:   *)
(* before it is active nothing is shown and no frame requested, so that    *)
(* there is nothing to clear when it ends without having been active.      *)

SessionShown ==
    /\ ACTIVE_SESSION \in Session \cup {none}
    /\ ~Live => drag_active_card = none /\ drag_drop_target = none
    /\ Live /\ ACTIVE_SESSION.active => drag_active_card = ACTIVE_SESSION.source
    /\ Live /\ ~ACTIVE_SESSION.active =>
          drag_active_card = none /\ drag_drop_target = none /\ ~ACTIVE_SESSION.raf
    /\ Live /\ drag_drop_target # none => drag_drop_target.card # ACTIVE_SESSION.source

\* The list has each of its cards in one row.
Once(list) == list \in Seq(Rows) /\ \A i, j \in DOMAIN list : list[i] = list[j] => i = j
RowsOnce   == Once(rows)

\* Record updates of a session, field by field.
LEMMA SessionMoved ==
    ASSUME NEW ses \in Session, NEW point \in Points
    PROVE  LET new == [ses EXCEPT !.active = TRUE, !.pending = point, !.raf = TRUE]
           IN  new \in Session /\ new.active = TRUE /\ new.source = ses.source
  BY DEF Session

LEMMA SessionTested ==
    ASSUME NEW ses \in Session, NEW raf \in BOOLEAN
    PROVE  LET new == [ses EXCEPT !.pending = none, !.raf = raf]
           IN  new \in Session /\ new.active = ses.active /\ new.source = ses.source
  BY DEF Session

LEMMA LiveSession ==
    ASSUME SessionShown, Live
    PROVE  ACTIVE_SESSION \in Session /\ ACTIVE_SESSION.active \in BOOLEAN
  BY DEF SessionShown, Live, Session

LEMMA FinishShown ==
    ASSUME SessionShown, Live, finish_session
    PROVE  SessionShown'
<1>1. ACTIVE_SESSION.active \in BOOLEAN
  BY LiveSession
<1>2. ACTIVE_SESSION' = none /\ ~Live'
  BY DEF finish_session, Live
<1>3. drag_active_card' = none /\ drag_drop_target' = none
  BY <1>1 DEF finish_session, SessionShown, shownVars
<1> QED
  BY <1>2, <1>3 DEF SessionShown

LEMMA ArmShown ==
    ASSUME SessionShown, NEW id \in Rows, NEW via \in {"pointer", "touch"}, Arm(id, via)
    PROVE  SessionShown'
<1> DEFINE new == [source |-> id, via |-> via, active |-> FALSE, pending |-> none, raf |-> FALSE]
<1>1. ACTIVE_SESSION' = new /\ UNCHANGED <<drag_active_card, drag_drop_target>> /\ ~Live
  BY DEF Arm, shownVars
<1>2. new \in Session /\ new.active = FALSE /\ new.raf = FALSE
  BY DEF Session
<1>3. drag_active_card' = none /\ drag_drop_target' = none
  BY <1>1 DEF SessionShown
<1> HIDE DEF new
<1> QED
  BY <1>1, <1>2, <1>3, NoneIsNoSession DEF SessionShown, Live

LEMMA DragToShown ==
    ASSUME SessionShown, Live, NEW point \in Points, DragTo(point)
    PROVE  SessionShown'
<1>1. ACTIVE_SESSION \in Session /\ ACTIVE_SESSION.active \in BOOLEAN
  BY LiveSession
<1>2. /\ ACTIVE_SESSION' \in Session /\ ACTIVE_SESSION'.active = TRUE
      /\ ACTIVE_SESSION'.source = ACTIVE_SESSION.source
  BY <1>1, SessionMoved DEF DragTo
<1>3. drag_active_card' = ACTIVE_SESSION.source /\ drag_drop_target' = drag_drop_target
  BY DEF DragTo
<1> QED
  BY <1>1, <1>2, <1>3, NoneIsNoSession DEF SessionShown, Live

\* Wherever the pointer is, the gap is not one at the dragged card itself.
LEMMA HitMissesSource ==
    ASSUME NEW point, NEW source, hit_test_drop_target(point, source) # none
    PROVE  hit_test_drop_target(point, source).card # source
  BY DEF hit_test_drop_target, clamp_to_list_end, NotSource

LEMMA FrameShown ==
    ASSUME SessionShown, NEW under \in Points, NEW scrolls \in BOOLEAN, Frame(under, scrolls)
    PROVE  SessionShown'
<1>1. Live /\ ACTIVE_SESSION.raf
  BY DEF Frame
<1>2. ACTIVE_SESSION \in Session /\ ACTIVE_SESSION.active
  BY <1>1, LiveSession DEF SessionShown
<1>3. CASE finish_session
  BY <1>1, <1>3, FinishShown
<1>4. CASE /\ ACTIVE_SESSION' = [ACTIVE_SESSION EXCEPT !.pending = none, !.raf = scrolls]
           /\ drag_drop_target' = hit_test_drop_target(under, ACTIVE_SESSION.source)
           /\ UNCHANGED drag_active_card
  <2>1. /\ ACTIVE_SESSION' \in Session /\ ACTIVE_SESSION'.active = ACTIVE_SESSION.active
        /\ ACTIVE_SESSION'.source = ACTIVE_SESSION.source
    BY <1>2, <1>4, SessionTested
  <2>2. drag_drop_target' # none => drag_drop_target'.card # ACTIVE_SESSION.source
    BY <1>4, HitMissesSource
  <2>3. drag_active_card' = ACTIVE_SESSION.source
    BY <1>1, <1>2, <1>4 DEF SessionShown
  <2>4. Live' /\ ACTIVE_SESSION'.active
    BY <1>2, <2>1, NoneIsNoSession DEF Live
  <2> QED
    BY <2>1, <2>2, <2>3, <2>4 DEF SessionShown
<1> QED
  BY <1>3, <1>4 DEF Frame

LEMMA SessionKept ==
    ASSUME SessionShown, UNCHANGED <<ACTIVE_SESSION, shownVars>>
    PROVE  SessionShown'
  BY DEF SessionShown, Live, shownVars

LEMMA SessionStep ==
    ASSUME SessionShown, [DragNext]_dragVars
    PROVE  SessionShown'
<1>1. CASE \E id \in Rows : start_pointer_drag(id) \/ start_touch_drag(id)
  BY <1>1, ArmShown DEF start_pointer_drag, start_touch_drag
<1>2. CASE \E point \in Points : PointerMove(point) \/ TouchMove(point)
  BY <1>2, DragToShown DEF PointerMove, TouchMove, Via
<1>3. CASE PointerUp \/ TouchEnd \/ PointerCancel \/ TouchCancel
  BY <1>3, FinishShown DEF PointerUp, TouchEnd, PointerCancel, TouchCancel, Via, Drop, Abandon
<1>4. CASE \E under \in Points, scrolls \in BOOLEAN : Frame(under, scrolls)
  BY <1>4, FrameShown
<1>5. CASE ToggleDragAndDrop
  BY <1>5, FinishShown, SessionKept DEF ToggleDragAndDrop
<1>6. CASE ChangeSettings
  BY <1>6, SessionKept DEF ChangeSettings
<1>7. CASE \E list \in RowLists : SyncRows(list)
  BY <1>7, SessionKept DEF SyncRows
<1>8. CASE UNCHANGED dragVars
  BY <1>8, SessionKept DEF dragVars
<1> QED
  BY <1>1, <1>2, <1>3, <1>4, <1>5, <1>6, <1>7, <1>8 DEF DragNext

LEMMA SessionInit ==
    ASSUME DragInit
    PROVE  SessionShown
  BY DEF DragInit, SessionShown, Live

\* For any rows and any number of gestures, frames and syncs, nothing of a
\* drag is shown that no gesture holds (drag_drop.rs, finish_session).
THEOREM NoDragOutlivesItsGesture == DragSpec => []NoPhantomDrag
<1>1. DragInit => SessionShown
  BY SessionInit
<1>2. SessionShown /\ [DragNext]_dragVars => SessionShown'
  BY SessionStep
<1>3. SessionShown => NoPhantomDrag
  BY LiveSession DEF SessionShown, NoPhantomDrag
<1> QED
  BY <1>1, <1>2, <1>3, PTL DEF DragSpec

-----------------------------------------------------------------------------
(* Taking a row out and putting it in elsewhere *)

LEMMA RemoveAtProperties ==
    ASSUME NEW S, NEW list \in Seq(S), NEW i \in 1 .. Len(list)
    PROVE  /\ RemoveAt(list, i) \in Seq(S)
           /\ Len(RemoveAt(list, i)) = Len(list) - 1
           /\ \A j \in 1 .. Len(list) - 1 :
                 RemoveAt(list, i)[j] = IF j < i THEN list[j] ELSE list[j + 1]
<1> DEFINE above == SubSeq(list, 1, i - 1)
           below == SubSeq(list, i + 1, Len(list))
<1>1. /\ i \in Int /\ i - 1 \in Int /\ i + 1 \in Int /\ Len(list) \in Int
      /\ \A j \in 1 .. Len(list) : list[j] \in S
  OBVIOUS
<1>2. /\ \A j \in 1 .. i - 1 : list[j] \in S
      /\ \A j \in i + 1 .. Len(list) : list[j] \in S
  BY <1>1
<1>3. /\ above \in Seq(S) /\ Len(above) = i - 1
      /\ \A j \in 1 .. i - 1 : above[j] = list[j]
  <2>1. /\ above \in Seq(S)
        /\ Len(above) = IF 1 <= i - 1 THEN (i - 1) - 1 + 1 ELSE 0
        /\ \A j \in 1 .. (i - 1) - 1 + 1 : above[j] = list[1 + j - 1]
    BY <1>1, <1>2, SubSeqProperties
  <2> HIDE DEF above
  <2> QED
    BY <1>1, <2>1
<1>4. /\ below \in Seq(S) /\ Len(below) = Len(list) - i
      /\ \A j \in 1 .. Len(list) - i : below[j] = list[i + j]
  <2>1. /\ below \in Seq(S)
        /\ Len(below) = IF i + 1 <= Len(list) THEN Len(list) - (i + 1) + 1 ELSE 0
        /\ \A j \in 1 .. Len(list) - (i + 1) + 1 : below[j] = list[(i + 1) + j - 1]
    BY <1>1, <1>2, SubSeqProperties
  <2> HIDE DEF below
  <2>2. Len(list) - (i + 1) + 1 = Len(list) - i
    BY <1>1
  <2>3. Len(below) = Len(list) - i
    BY <1>1, <2>1
  <2>4. ASSUME NEW j \in 1 .. Len(list) - i PROVE below[j] = list[i + j]
    <3>1. (i + 1) + j - 1 = i + j
      BY <1>1
    <3> QED
      BY <2>1, <2>2, <3>1
  <2> QED
    BY <2>1, <2>3, <2>4
<1> HIDE DEF above, below
<1>5. /\ above \o below \in Seq(S) /\ Len(above \o below) = Len(above) + Len(below)
      /\ \A j \in 1 .. Len(above) + Len(below) :
            (above \o below)[j] = IF j <= Len(above) THEN above[j] ELSE below[j - Len(above)]
  BY <1>3, <1>4, ConcatProperties
<1>6. RemoveAt(list, i) = above \o below
  BY DEF RemoveAt, above, below
<1>7. ASSUME NEW j \in 1 .. Len(list) - 1
      PROVE  (above \o below)[j] = IF j < i THEN list[j] ELSE list[j + 1]
  <2>1. (above \o below)[j] = IF j <= i - 1 THEN above[j] ELSE below[j - (i - 1)]
    BY <1>1, <1>3, <1>4, <1>5
  <2>2. CASE j < i
    BY <1>1, <1>3, <2>1, <2>2
  <2>3. CASE ~(j < i)
    <3>1. j - (i - 1) \in 1 .. Len(list) - i /\ i + (j - (i - 1)) = j + 1
      BY <1>1, <2>3
    <3> QED
      BY <1>1, <1>4, <2>1, <2>3, <3>1
  <2> QED
    BY <2>2, <2>3
<1>8. Len(above \o below) = Len(list) - 1
  BY <1>1, <1>3, <1>4, <1>5
<1> QED
  BY <1>5, <1>6, <1>7, <1>8

LEMMA InsertAtProperties ==
    ASSUME NEW S, NEW list \in Seq(S), NEW e \in S, NEW i \in 1 .. Len(list) + 1
    PROVE  /\ InsertAt(list, i, e) \in Seq(S)
           /\ Len(InsertAt(list, i, e)) = Len(list) + 1
           /\ \A j \in 1 .. Len(list) + 1 :
                 InsertAt(list, i, e)[j] = IF j < i THEN list[j] ELSE IF j = i THEN e ELSE list[j - 1]
<1> DEFINE above == SubSeq(list, 1, i - 1)
           below == SubSeq(list, i, Len(list))
           upper == above \o <<e>>
<1>1. /\ i \in Int /\ i - 1 \in Int /\ Len(list) \in Int
      /\ \A j \in 1 .. Len(list) : list[j] \in S
  OBVIOUS
<1>2. /\ \A j \in 1 .. i - 1 : list[j] \in S
      /\ \A j \in i .. Len(list) : list[j] \in S
  BY <1>1
<1>3. /\ above \in Seq(S) /\ Len(above) = i - 1
      /\ \A j \in 1 .. i - 1 : above[j] = list[j]
  <2>1. /\ above \in Seq(S)
        /\ Len(above) = IF 1 <= i - 1 THEN (i - 1) - 1 + 1 ELSE 0
        /\ \A j \in 1 .. (i - 1) - 1 + 1 : above[j] = list[1 + j - 1]
    BY <1>1, <1>2, SubSeqProperties
  <2> HIDE DEF above
  <2> QED
    BY <1>1, <2>1
<1>4. /\ below \in Seq(S) /\ Len(below) = Len(list) - i + 1
      /\ \A j \in 1 .. Len(list) - i + 1 : below[j] = list[i + j - 1]
  <2>1. /\ below \in Seq(S)
        /\ Len(below) = IF i <= Len(list) THEN Len(list) - i + 1 ELSE 0
        /\ \A j \in 1 .. Len(list) - i + 1 : below[j] = list[i + j - 1]
    BY <1>1, <1>2, SubSeqProperties
  <2> HIDE DEF below
  <2> QED
    BY <1>1, <2>1
<1> HIDE DEF above, below
<1>5. /\ upper \in Seq(S) /\ Len(upper) = i
      /\ \A j \in 1 .. i : upper[j] = IF j < i THEN list[j] ELSE e
  <2>1. <<e>> \in Seq(S) /\ Len(<<e>>) = 1 /\ <<e>>[1] = e
    OBVIOUS
  <2>2. /\ upper \in Seq(S) /\ Len(upper) = Len(above) + Len(<<e>>)
        /\ \A j \in 1 .. Len(above) + Len(<<e>>) :
              upper[j] = IF j <= Len(above) THEN above[j] ELSE <<e>>[j - Len(above)]
    BY <1>3, <2>1, ConcatProperties
  <2> HIDE DEF upper
  <2>3. ASSUME NEW j \in 1 .. i PROVE upper[j] = IF j < i THEN list[j] ELSE e
    <3>1. CASE j < i
      BY <1>1, <1>3, <2>1, <2>2, <3>1
    <3>2. CASE ~(j < i)
      <4>1. j = i /\ j - Len(above) = 1 /\ ~(j <= Len(above)) /\ j \in 1 .. Len(above) + Len(<<e>>)
        BY <1>1, <1>3, <2>1, <3>2
      <4> QED
        BY <2>1, <2>2, <4>1, <3>2
    <3> QED
      BY <3>1, <3>2
  <2> QED
    BY <1>1, <1>3, <2>1, <2>2, <2>3
<1>6. InsertAt(list, i, e) = upper \o below
  BY DEF InsertAt, above, below
<1> HIDE DEF upper
<1>7. /\ upper \o below \in Seq(S) /\ Len(upper \o below) = Len(upper) + Len(below)
      /\ \A j \in 1 .. Len(upper) + Len(below) :
            (upper \o below)[j] = IF j <= Len(upper) THEN upper[j] ELSE below[j - Len(upper)]
  BY <1>4, <1>5, ConcatProperties
<1>8. ASSUME NEW j \in 1 .. Len(list) + 1
      PROVE  (upper \o below)[j] = IF j < i THEN list[j] ELSE IF j = i THEN e ELSE list[j - 1]
  <2>1. (upper \o below)[j] = IF j <= i THEN upper[j] ELSE below[j - i]
    BY <1>1, <1>4, <1>5, <1>7
  <2>2. CASE j <= i
    BY <1>1, <1>5, <2>1, <2>2
  <2>3. CASE ~(j <= i)
    <3>1. j - i \in 1 .. Len(list) - i + 1 /\ i + (j - i) - 1 = j - 1 /\ ~(j < i) /\ j # i
      BY <1>1, <2>3
    <3> QED
      BY <1>4, <2>1, <2>3, <3>1
  <2> QED
    BY <2>2, <2>3
<1> QED
  BY <1>1, <1>4, <1>5, <1>6, <1>7, <1>8

LEMMA RemoveInserted ==
    ASSUME NEW S, NEW list \in Seq(S), NEW e \in S, NEW i \in 1 .. Len(list) + 1
    PROVE  RemoveAt(InsertAt(list, i, e), i) = list
<1> DEFINE new == InsertAt(list, i, e)
           back == RemoveAt(new, i)
<1>1. /\ new \in Seq(S) /\ Len(new) = Len(list) + 1
      /\ \A j \in 1 .. Len(list) + 1 :
            new[j] = IF j < i THEN list[j] ELSE IF j = i THEN e ELSE list[j - 1]
  BY InsertAtProperties
<1> HIDE DEF new
<1>2. i \in 1 .. Len(new) /\ Len(new) - 1 = Len(list) /\ i \in Int /\ Len(list) \in Nat
  BY <1>1
<1>3. /\ back \in Seq(S) /\ Len(back) = Len(new) - 1
      /\ \A j \in 1 .. Len(new) - 1 : back[j] = IF j < i THEN new[j] ELSE new[j + 1]
  BY <1>1, <1>2, RemoveAtProperties
<1> HIDE DEF back
<1>4. ASSUME NEW j \in 1 .. Len(list) PROVE back[j] = list[j]
  <2>1. CASE j < i
    BY <1>1, <1>2, <1>3, <2>1
  <2>2. CASE ~(j < i)
    <3>1. j + 1 \in 1 .. Len(list) + 1 /\ ~(j + 1 < i) /\ j + 1 # i /\ (j + 1) - 1 = j
      BY <1>2, <2>2
    <3> QED
      BY <1>1, <1>2, <1>3, <2>2, <3>1
  <2> QED
    BY <2>1, <2>2
<1>5. back = list
  BY <1>2, <1>3, <1>4, SeqEqual
<1> QED
  BY <1>5 DEF back, new

LEMMA PlaceOfRight ==
    ASSUME NEW list, Once(list), NEW id, InList(list, id)
    PROVE  /\ id \in Rows /\ PlaceOf(list, id) \in 1 .. Len(list) /\ list[PlaceOf(list, id)] = id
           /\ \A i \in 1 .. Len(list) : list[i] = id => i = PlaceOf(list, id)
<1>1. DOMAIN list = 1 .. Len(list) /\ \A i \in 1 .. Len(list) : list[i] \in Rows
  BY DEF Once
<1>2. \E i \in DOMAIN list : list[i] = id
  BY DEF InList, Range
<1>3. PlaceOf(list, id) \in DOMAIN list /\ list[PlaceOf(list, id)] = id
  BY <1>2 DEF PlaceOf
<1> QED
  BY <1>1, <1>3 DEF Once

\* Where the rows of the list come from, when one is taken out and put in
\* below pos others.
Origin(place, pos, j) ==
    IF j = pos + 1 THEN place
    ELSE IF j < pos + 1 THEN (IF j < place THEN j ELSE j + 1)
    ELSE IF j - 1 < place THEN j - 1 ELSE j

LEMMA OriginDistinct ==
    ASSUME NEW n \in Nat, NEW place \in 1 .. n, NEW pos \in 0 .. n - 1,
           NEW i \in 1 .. n, NEW j \in 1 .. n
    PROVE  /\ Origin(place, pos, i) \in 1 .. n
           /\ Origin(place, pos, i) = Origin(place, pos, j) => i = j
  BY DEF Origin

LEMMA MovedRight ==
    ASSUME RowsOnce, NEW source, InList(rows, source), NEW pos \in 0 .. Len(rows) - 1
    PROVE  /\ Once(Moved(source, pos)) /\ Len(Moved(source, pos)) = Len(rows)
           /\ \A j \in 1 .. Len(rows) :
                 Moved(source, pos)[j] = rows[Origin(PlaceOf(rows, source), pos, j)]
           /\ PlaceOf(Moved(source, pos), source) = pos + 1
           /\ WithoutRow(Moved(source, pos), source) = WithoutRow(rows, source)
<1> DEFINE place == PlaceOf(rows, source)
           others == WithoutRow(rows, source)
           moved == Moved(source, pos)
           n == Len(rows)
<1>1. Once(rows) /\ rows \in Seq(Rows) /\ n \in Nat
  BY DEF RowsOnce, Once
<1>2. source \in Rows /\ place \in 1 .. n /\ rows[place] = source
  BY <1>1, PlaceOfRight
<1> HIDE DEF place
<1>3. /\ others \in Seq(Rows) /\ Len(others) = n - 1
      /\ \A j \in 1 .. n - 1 : others[j] = IF j < place THEN rows[j] ELSE rows[j + 1]
  BY <1>1, <1>2, RemoveAtProperties DEF WithoutRow, place
<1>4. moved = InsertAt(others, pos + 1, source)
  <2>1. pos < Len(others) \/ pos = Len(others)
    BY <1>1, <1>3
  <2>2. moved = InsertAt(others, (IF pos < Len(others) THEN pos ELSE Len(others)) + 1, source)
    BY DEF Moved
  <2> HIDE DEF moved, others
  <2> QED
    BY <2>1, <2>2
<1> HIDE DEF others, moved
<1>5. pos + 1 \in 1 .. Len(others) + 1
  BY <1>1, <1>3
<1>6. /\ moved \in Seq(Rows) /\ Len(moved) = n
      /\ \A j \in 1 .. n :
            moved[j] = IF j < pos + 1 THEN others[j] ELSE IF j = pos + 1 THEN source ELSE others[j - 1]
  <2>1. Len(others) + 1 = n
    BY <1>1, <1>3
  <2> QED
    BY <1>2, <1>3, <1>4, <1>5, <2>1, InsertAtProperties
<1>7. ASSUME NEW j \in 1 .. n PROVE moved[j] = rows[Origin(place, pos, j)]
  <2>1. CASE j = pos + 1
    BY <1>1, <1>2, <1>6, <2>1 DEF Origin
  <2>2. CASE j < pos + 1
    <3>1. j \in 1 .. n - 1
      BY <1>1, <2>2
    <3> QED
      BY <1>1, <1>3, <1>6, <2>2, <3>1 DEF Origin
  <2>3. CASE j > pos + 1
    <3>1. j - 1 \in 1 .. n - 1 /\ (j - 1) + 1 = j
      BY <1>1, <2>3
    <3> QED
      BY <1>1, <1>3, <1>6, <2>3, <3>1 DEF Origin
  <2> QED
    BY <1>1, <2>1, <2>2, <2>3
<1>8. Once(moved)
  <2>1. ASSUME NEW i \in 1 .. n, NEW j \in 1 .. n, moved[i] = moved[j] PROVE i = j
    <3>1. rows[Origin(place, pos, i)] = rows[Origin(place, pos, j)]
      BY <1>7, <2>1
    <3>2. Origin(place, pos, i) \in 1 .. n /\ Origin(place, pos, j) \in 1 .. n
      BY <1>1, <1>2, OriginDistinct
    <3>3. Origin(place, pos, i) = Origin(place, pos, j)
      BY <1>1, <3>1, <3>2 DEF Once
    <3> QED
      BY <1>1, <1>2, <3>3, OriginDistinct
  <2> QED
    BY <1>1, <1>6, <2>1 DEF Once
<1>9. PlaceOf(moved, source) = pos + 1
  <2>1. pos + 1 \in 1 .. n /\ moved[pos + 1] = source
    BY <1>1, <1>6
  <2>2. InList(moved, source)
    BY <1>6, <2>1 DEF InList, Range
  <2> QED
    BY <1>6, <1>8, <2>1, <2>2, PlaceOfRight
<1>10. WithoutRow(moved, source) = others
  BY <1>2, <1>3, <1>4, <1>5, <1>9, RemoveInserted DEF WithoutRow
<1> QED
  BY <1>6, <1>7, <1>8, <1>9, <1>10 DEF place, others, moved

\* The gap a drop asks for is one of the list without the dragged card.
LEMMA DropPositionRight ==
    ASSUME RowsOnce, NEW source, NEW target, drop_position(source, target) # NoPosition
    PROVE  /\ source # target.card /\ InList(rows, source) /\ InList(rows, target.card)
           /\ drop_position(source, target) \in 0 .. Len(rows) - 1
           /\ LET s    == PlaceOf(rows, source)
                  t    == PlaceOf(rows, target.card)
                  base == IF t > s THEN t - 2 ELSE t - 1
              IN  /\ s # t
                  /\ drop_position(source, target) =
                        IF target.edge = "Above" THEN base ELSE base + 1
<1>1. source # target.card /\ InList(rows, source) /\ InList(rows, target.card)
  BY DEF drop_position
<1> DEFINE s == PlaceOf(rows, source)
           t == PlaceOf(rows, target.card)
           base == IF t > s THEN t - 2 ELSE t - 1
           wanted == IF target.edge = "Above" THEN base ELSE base + 1
<1>2. /\ s \in 1 .. Len(rows) /\ t \in 1 .. Len(rows) /\ Len(rows) \in Nat
      /\ rows[s] = source /\ rows[t] = target.card
  BY <1>1, PlaceOfRight DEF RowsOnce, Once
<1>3. s # t
  BY <1>1, <1>2
<1> DEFINE src == s - 1
           tgt == t - 1
           from == IF tgt > src THEN tgt - 1 ELSE tgt
           at == IF target.edge = "Above" THEN from ELSE from + 1
<1>4. drop_position(source, target) = IF at = src THEN NoPosition ELSE at
  BY <1>1 DEF drop_position
<1> HIDE DEF s, t
<1>5. at = wanted /\ wanted \in 0 .. Len(rows) - 1
  BY <1>2, <1>3
<1>6. drop_position(source, target) = wanted
  BY <1>4, <1>5
<1> QED
  BY <1>1, <1>3, <1>5, <1>6 DEF s, t

-----------------------------------------------------------------------------
(* A drop *)

LEMMA ListsOnce ==
    ASSUME NEW S \in SUBSET Rows, NEW list \in SetToSeqs(S)
    PROVE  Once(list)
<1>1. Cardinality(S) \in Nat
  BY RowsAssumption, FS_Subset, FS_CardinalityType
<1>2. /\ list \in [1 .. Cardinality(S) -> S]
      /\ \A i, j \in 1 .. Cardinality(S) : i # j => list[i] # list[j]
  BY DEF SetToSeqs
<1>3. list \in Seq(Rows)
  BY <1>1, <1>2
<1> QED
  BY <1>2, <1>3 DEF Once

LEMMA CommitOnce ==
    ASSUME RowsOnce
    PROVE  Once(commit_drop_if_eligible)
<1>1. Once(rows)
  BY DEF RowsOnce, Once
<1> DEFINE source == ACTIVE_SESSION.source
           pos == drop_position(source, drag_drop_target)
<1>2. CASE pos = NoPosition
  BY <1>1, <1>2 DEF commit_drop_if_eligible
<1>3. CASE pos # NoPosition
  <2>1. InList(rows, source) /\ pos \in 0 .. Len(rows) - 1
    BY <1>3, DropPositionRight
  <2>2. commit_drop_if_eligible \in {rows, Moved(source, pos)}
    BY DEF commit_drop_if_eligible
  <2> HIDE DEF source, pos
  <2> QED
    BY <1>1, <2>1, <2>2, MovedRight
<1> QED
  BY <1>2, <1>3

LEMMA RowsStep ==
    ASSUME RowsOnce, [DragNext]_dragVars
    PROVE  RowsOnce'
<1>1. CASE UNCHANGED rows
  BY <1>1 DEF RowsOnce, Once
<1>2. CASE Drop
  <2>1. Once(rows) /\ Once(commit_drop_if_eligible)
    BY CommitOnce DEF RowsOnce, Once
  <2>2. rows' \in {rows, commit_drop_if_eligible}
    BY <1>2 DEF Drop
  <2> QED
    BY <2>1, <2>2 DEF RowsOnce, Once
<1>3. CASE \E list \in RowLists : SyncRows(list)
  BY <1>3, ListsOnce DEF RowLists, SyncRows, RowsOnce, Once
<1>4. CASE PointerUp \/ TouchEnd
  BY <1>2, <1>4 DEF PointerUp, TouchEnd
<1>5. CASE \/ \E id \in Rows : start_pointer_drag(id) \/ start_touch_drag(id)
           \/ \E point \in Points : PointerMove(point) \/ TouchMove(point)
           \/ PointerCancel \/ TouchCancel
           \/ \E under \in Points, scrolls \in BOOLEAN : Frame(under, scrolls)
           \/ ToggleDragAndDrop \/ ChangeSettings \/ UNCHANGED dragVars
  BY <1>1, <1>5 DEF start_pointer_drag, start_touch_drag, Arm, PointerMove, TouchMove, DragTo,
     PointerCancel, TouchCancel, Abandon, Frame, ToggleDragAndDrop, ChangeSettings, dragVars
<1> QED
  BY <1>3, <1>4, <1>5 DEF DragNext

LEMMA RowsInit ==
    ASSUME DragInit
    PROVE  RowsOnce
  BY ListsOnce DEF DragInit, RowsOnce, Once

\* Only a release both ends a session and changes the rows.
LEMMA OnlyDropsMove ==
    ASSUME DragNext, Dropped
    PROVE  Drop
<1>1. CASE PointerUp \/ TouchEnd
  BY <1>1 DEF PointerUp, TouchEnd
<1>2. CASE \/ \E id \in Rows : start_pointer_drag(id) \/ start_touch_drag(id)
           \/ \E point \in Points : PointerMove(point) \/ TouchMove(point)
           \/ PointerCancel \/ TouchCancel
           \/ \E under \in Points, scrolls \in BOOLEAN : Frame(under, scrolls)
           \/ ToggleDragAndDrop \/ ChangeSettings
  BY <1>2 DEF start_pointer_drag, start_touch_drag, Arm, PointerMove, TouchMove, DragTo,
     PointerCancel, TouchCancel, Abandon, Frame, ToggleDragAndDrop, ChangeSettings, Dropped
<1>3. CASE \E list \in RowLists : SyncRows(list)
  BY <1>3 DEF SyncRows, Dropped, Live
<1> QED
  BY <1>1, <1>2, <1>3 DEF DragNext

LandsInMarkedGap ==
    LET source == ACTIVE_SESSION.source
        target == drag_drop_target
        at     == PlaceOf(rows', source)
    IN  /\ drag_and_drop_enabled /\ reorder_allowed
        /\ InList(rows, source) /\ InList(rows, target.card)
        /\ PlaceOf(rows', target.card) = IF target.edge = "Above" THEN at + 1 ELSE at - 1
        /\ WithoutRow(rows', source) = WithoutRow(rows, source)

LEMMA DropStep ==
    ASSUME RowsOnce, Drop, Dropped
    PROVE  LandsInMarkedGap
<1> DEFINE source == ACTIVE_SESSION.source
           target == drag_drop_target
           pos == drop_position(source, target)
           moved == Moved(source, pos)
           s == PlaceOf(rows, source)
           t == PlaceOf(rows, target.card)
<1>1. rows' = commit_drop_if_eligible /\ rows' # rows
  BY DEF Drop, Dropped
<1>2. /\ drag_and_drop_enabled /\ reorder_allowed /\ pos # NoPosition
      /\ rows' = moved
  BY <1>1 DEF commit_drop_if_eligible
<1>3. /\ source # target.card /\ InList(rows, source) /\ InList(rows, target.card)
      /\ pos \in 0 .. Len(rows) - 1 /\ s # t
      /\ pos = IF target.edge = "Above" THEN (IF t > s THEN t - 2 ELSE t - 1)
               ELSE (IF t > s THEN t - 2 ELSE t - 1) + 1
  BY <1>2, DropPositionRight
<1>4. /\ s \in 1 .. Len(rows) /\ t \in 1 .. Len(rows) /\ Len(rows) \in Nat
      /\ rows[s] = source /\ rows[t] = target.card
  BY <1>3, PlaceOfRight DEF RowsOnce, Once
<1> HIDE DEF pos
<1>5. /\ Once(moved) /\ Len(moved) = Len(rows)
      /\ \A j \in 1 .. Len(rows) : moved[j] = rows[Origin(s, pos, j)]
      /\ PlaceOf(moved, source) = pos + 1
      /\ WithoutRow(moved, source) = WithoutRow(rows, source)
  BY <1>3, MovedRight
<1> DEFINE beside == IF target.edge = "Above" THEN pos + 2 ELSE pos
<1> HIDE DEF s, t, moved, source, target
<1>6. beside \in 1 .. Len(rows) /\ Origin(s, pos, beside) = t
  BY <1>3, <1>4 DEF Origin
<1>7. moved[beside] = target.card /\ InList(moved, target.card)
  BY <1>4, <1>5, <1>6 DEF InList, Range, Once
<1>8. PlaceOf(moved, target.card) = beside
  BY <1>5, <1>6, <1>7, PlaceOfRight
<1>9. PlaceOf(moved, target.card) =
         IF target.edge = "Above" THEN PlaceOf(moved, source) + 1 ELSE PlaceOf(moved, source) - 1
  BY <1>3, <1>5, <1>8
<1> QED
  BY <1>2, <1>3, <1>5, <1>9 DEF LandsInMarkedGap, source, target

\* For any rows, and whatever syncs, settings and frames came between: a drop
\* puts the card into the gap that was marked, or moves nothing, and the other
\* cards keep their order (drag_drop.rs, drop_position and move_card).
THEOREM DropsLandInMarkedGap == DragSpec => DropLandsInMarkedGap
<1>1. DragInit => RowsOnce
  BY RowsInit
<1>2. RowsOnce /\ [DragNext]_dragVars => RowsOnce'
  BY RowsStep
<1>3. RowsOnce /\ [DragNext]_dragVars => [Dropped => LandsInMarkedGap]_dragVars
  BY OnlyDropsMove, DropStep
<1>4. [Dropped => LandsInMarkedGap]_dragVars =>
        [Dropped =>
         LET source == ACTIVE_SESSION.source
             target == drag_drop_target
             at     == PlaceOf(rows', source)
         IN  /\ drag_and_drop_enabled /\ reorder_allowed
             /\ InList(rows, source) /\ InList(rows, target.card)
             /\ PlaceOf(rows', target.card) = IF target.edge = "Above" THEN at + 1 ELSE at - 1
             /\ WithoutRow(rows', source) = WithoutRow(rows, source)]_dragVars
  BY DEF LandsInMarkedGap
<1> QED
  BY <1>1, <1>2, <1>3, <1>4, PTL DEF DragSpec, DropLandsInMarkedGap

-----------------------------------------------------------------------------
(* Swipes, toasts, buttons and the editor.  Every version in use, also the *)
(* one a toast keeps for undoing and the one an editor was opened on,      *)
(* obeys the couplings, since each is saved again later.                   *)

Coupled == coupling.on_set /\ coupling.on_blaze

CouplingInv ==
    Coupled => /\ NotBoth(card)
               /\ swipe_toast # none => NotBoth(swipe_toast.original)
               /\ editor # none => NotBoth(editor)

LEMMA NextFields ==
    ASSUME NEW c, NEW blazed, NEW due, NEW lines
    PROVE  /\ Next(c, blazed, due, lines).blazed = blazed /\ Next(c, blazed, due, lines).due = due
           /\ Next(c, blazed, due, lines).count = c.count + 1
  BY DEF Next

LEMMA BlazedApart ==
    ASSUME Coupled, NEW c
    PROVE  NotBoth(Blazed(c))
<1> DEFINE due == due_after_blaze_change(c.due, c.blazed, ~c.blazed)
<1>1. Blazed(c).blazed = (~c.blazed) /\ Blazed(c).due = due
  BY NextFields DEF Blazed
<1>2. ~c.blazed => due = none
  BY DEF due_after_blaze_change, Coupled
<1> HIDE DEF due
<1> QED
  BY <1>1, <1>2, Zenon DEF NotBoth

LEMMA DatedApart ==
    ASSUME Coupled, NEW c, NEW due
    PROVE  NotBoth(Dated(c, due))
<1>1. Dated(c, due).blazed = blazed_after_due_change(c.blazed, due) /\ Dated(c, due).due = due
  BY NextFields DEF Dated
<1>2. due # none => ~blazed_after_due_change(c.blazed, due)
  BY DEF blazed_after_due_change, Coupled
<1> QED
  BY <1>1, <1>2, Zenon DEF NotBoth

LEMMA SavedApart ==
    ASSUME Coupled, NotBoth(editor), NEW due, NEW lines
    PROVE  NotBoth(Next(editor, SaveBlazed(due), due, lines))
<1> DEFINE saved == Next(editor, SaveBlazed(due), due, lines)
<1>1. saved.blazed = SaveBlazed(due) /\ saved.due = due
  BY NextFields
<1> HIDE DEF saved
<1>2. CASE due # editor.due
  <2>1. due # none => ~SaveBlazed(due)
    BY <1>2 DEF SaveBlazed, blazed_after_due_change, Coupled
  <2> QED
    BY <1>1, <2>1, Zenon DEF NotBoth, saved
<1>3. CASE due = editor.due
  <2>1. SaveBlazed(due) = editor.blazed
    BY <1>3 DEF SaveBlazed
  <2> QED
    BY <1>1, <1>3, <2>1, Zenon DEF NotBoth, saved
<1> QED
  BY <1>2, <1>3

LEMMA CopyApart ==
    ASSUME NEW c, NotBoth(c), NEW lines
    PROVE  NotBoth(Next(c, c.blazed, c.due, lines))
<1> DEFINE new == Next(c, c.blazed, c.due, lines)
<1>1. new.blazed = c.blazed /\ new.due = c.due
  BY NextFields
<1> HIDE DEF new
<1>2. NotBoth(new)
  BY <1>1, Zenon DEF NotBoth
<1> QED
  BY <1>2 DEF new

\* Swipes keep the version they replace in the toast.
LEMMA SwipeApart ==
    ASSUME CouplingInv, on_touchend
    PROVE  CouplingInv'
<1> SUFFICES ASSUME Coupled'
             PROVE  (/\ NotBoth(card)
                     /\ swipe_toast # none => NotBoth(swipe_toast.original)
                     /\ editor # none => NotBoth(editor))'
  BY DEF CouplingInv
<1>1. Coupled /\ editor' = editor
  BY DEF on_touchend, modeVars, Coupled
<1>2. NotBoth(card) /\ (swipe_toast # none => NotBoth(swipe_toast.original))
      /\ (editor # none => NotBoth(editor))
  BY <1>1 DEF CouplingInv
<1>3. CASE UNCHANGED <<card, toastVars>>
  BY <1>1, <1>2, <1>3 DEF toastVars, NotBoth
<1>4. ASSUME NEW new, NotBoth(new), Put(new), show_swipe_toast(card)
      PROVE  (/\ NotBoth(card)
              /\ swipe_toast # none => NotBoth(swipe_toast.original)
              /\ editor # none => NotBoth(editor))'
  <2>1. card' = new /\ swipe_toast'.original = card
    BY <1>4 DEF Put, show_swipe_toast
  <2> QED
    BY <1>1, <1>2, <1>4, <2>1 DEF NotBoth
<1>5. CASE Put(Blazed(card)) /\ show_swipe_toast(card)
  BY <1>1, <1>4, <1>5, BlazedApart
<1>6. ASSUME NEW due, Put(Dated(card, due)), show_swipe_toast(card)
      PROVE  (/\ NotBoth(card)
              /\ swipe_toast # none => NotBoth(swipe_toast.original)
              /\ editor # none => NotBoth(editor))'
  BY <1>1, <1>4, <1>6, DatedApart
<1> QED
  BY <1>3, <1>5, <1>6 DEF on_touchend

\* A version put into the list that obeys the couplings, with the toast and
\* the editor kept or given up.
LEMMA PutApart ==
    ASSUME CouplingInv, UNCHANGED coupling,
           Coupled => NotBoth(card'),
           UNCHANGED swipe_toast \/ swipe_toast' = none,
           UNCHANGED editor \/ editor' = none \/ editor' = card'
    PROVE  CouplingInv'
  BY DEF CouplingInv, Coupled, NotBoth

LEMMA EditorApart ==
    ASSUME CouplingInv, NEW lines, NEW due, NEW stay \in BOOLEAN, do_save(lines, due, stay)
    PROVE  CouplingInv'
<1> DEFINE saved == Next(editor, SaveBlazed(due), due, lines)
<1>1. UNCHANGED coupling /\ UNCHANGED swipe_toast /\ editor # none
  BY DEF do_save, Panel, modeVars, toastVars
<1>2. Coupled => NotBoth(card) /\ NotBoth(editor) /\ NotBoth(saved)
  BY <1>1, SavedApart DEF CouplingInv
<1>3. \/ editor' = none /\ card' = card
      \/ card' = saved /\ (editor' = saved \/ editor' = none)
  BY DEF do_save, Put
<1> HIDE DEF saved
<1>4. Coupled => NotBoth(card')
  BY <1>2, <1>3 DEF NotBoth
<1> QED
  BY <1>1, <1>3, <1>4, PutApart

LEMMA CouplingStep ==
    ASSUME CouplingInv, [EditsNext]_editVars
    PROVE  CouplingInv'
<1>1. Coupled => NotBoth(card)
  BY DEF CouplingInv
<1>2. CASE on_touchend
  BY <1>2, SwipeApart
<1>3. CASE \/ on_touchstart \/ TouchTaken \/ ChangeMode \/ dismiss_toast
           \/ \E dx \in -Reach .. Reach : on_touchmove(dx)
           \/ \E n \in timers : ToastTimer(n)
           \/ OpenEditor \/ CloseEditor \/ UNCHANGED editVars
  <2>1. /\ UNCHANGED coupling /\ UNCHANGED card
        /\ UNCHANGED swipe_toast \/ swipe_toast' = none
        /\ UNCHANGED editor \/ editor' = none \/ editor' = card'
    BY <1>3 DEF on_touchstart, TouchTaken, ChangeMode, dismiss_toast, HideToast, on_touchmove,
       ToastTimer, OpenEditor, CloseEditor, Panel, modeVars, toastVars, editVars
  <2>2. Coupled => NotBoth(card')
    BY <1>1, <2>1 DEF NotBoth
  <2> QED
    BY <2>1, <2>2, PutApart
<1>4. CASE undo_swipe
  <2> DEFINE orig == swipe_toast.original
  <2>1. /\ UNCHANGED coupling /\ swipe_toast # none /\ swipe_toast' = none /\ UNCHANGED editor
        /\ card' = Next(orig, orig.blazed, orig.due, orig.lines)
    BY <1>4 DEF undo_swipe, Put, HideToast, modeVars
  <2>2. Coupled => NotBoth(orig)
    BY <2>1 DEF CouplingInv
  <2> HIDE DEF orig
  <2>3. Coupled => NotBoth(card')
    BY <2>1, <2>2, CopyApart DEF NotBoth
  <2> QED
    BY <2>1, <2>3, PutApart
<1>5. CASE toggle_blaze
  <2>1. UNCHANGED coupling /\ UNCHANGED swipe_toast /\ UNCHANGED editor /\ card' = Blazed(card)
    BY <1>5 DEF toggle_blaze, Put, Panel, modeVars, toastVars
  <2>2. Coupled => NotBoth(card')
    BY <2>1, BlazedApart DEF NotBoth
  <2> QED
    BY <2>1, <2>2, PutApart
<1>6. ASSUME NEW due, set_due_date(due) \/ set_due_date_shortcut(due)
      PROVE  CouplingInv'
  <2>1. UNCHANGED coupling /\ UNCHANGED swipe_toast /\ UNCHANGED editor /\ card' = Dated(card, due)
    BY <1>6 DEF set_due_date, set_due_date_shortcut, Put, Panel, modeVars, toastVars
  <2>2. Coupled => NotBoth(card')
    BY <2>1, DatedApart DEF NotBoth
  <2> QED
    BY <2>1, <2>2, PutApart
<1>7. ASSUME NEW line, on_content_click(line)
      PROVE  CouplingInv'
  <2>1. PICK lines : card' = Next(card, card.blazed, card.due, lines)
    BY <1>7 DEF on_content_click, Put
  <2>2. UNCHANGED coupling /\ UNCHANGED swipe_toast /\ UNCHANGED editor
    BY <1>7 DEF on_content_click, Panel, modeVars, toastVars
  <2>3. Coupled => NotBoth(card')
    BY <1>1, <2>1, CopyApart DEF NotBoth
  <2> QED
    BY <2>2, <2>3, PutApart
<1>8. CASE \E lines \in Contents, due \in {DueAt(0, "midnight"), none}, stay \in BOOLEAN :
              do_save(lines, due, stay)
  BY <1>8, EditorApart
<1> QED
  BY <1>2, <1>3, <1>4, <1>5, <1>6, <1>7, <1>8 DEF EditsNext

LEMMA CouplingInit ==
    ASSUME EditsInit
    PROVE  CouplingInv
  BY DEF EditsInit, CouplingInv, NotBoth

\* Whichever way a card is changed, when setting a date extinguishes and blazing
\* clears it, the version in the list is never blazed and due, and neither is the
\* one a toast would bring back or the one the editor was opened on (card_item.rs,
\* toast.rs, card_detail.rs, card_editor.rs).
THEOREM BlazedAreNeverDue == EditsSpec => []BlazedIsNeverDue
<1>1. CouplingInv => BlazedIsNeverDue
  BY DEF CouplingInv, Coupled, NotBoth, BlazedIsNeverDue
<1> QED
  BY <1>1, CouplingInit, CouplingStep, PTL DEF EditsSpec

-----------------------------------------------------------------------------
(* What a release does, and what the row has shown of it *)

Counted(c) == c.count \in Nat

SwipeInv ==
    /\ swipe_offset \in Int
    /\ Counted(card)
    /\ swipe_toast # none => Counted(swipe_toast.original)
    /\ editor # none => Counted(editor)

LEMMA NextCounted ==
    ASSUME NEW c, Counted(c), NEW blazed, NEW due, NEW lines
    PROVE  /\ Counted(Next(c, blazed, due, lines))
           /\ Next(c, blazed, due, lines) # c
  BY DEF Counted, Next

LEMMA CardsCounted ==
    ASSUME SwipeInv, swipe_offset' \in Int, Counted(card'),
           \/ UNCHANGED swipe_toast \/ swipe_toast' = none \/ swipe_toast'.original = card,
           UNCHANGED editor \/ editor' = none \/ editor' = card'
    PROVE  SwipeInv'
  BY DEF SwipeInv, Counted

LEMMA SwipeStep ==
    ASSUME SwipeInv, [EditsNext]_editVars
    PROVE  SwipeInv'
<1>1. Counted(card) /\ swipe_offset \in Int
  BY DEF SwipeInv
<1>2. CASE on_touchend
  <2>1. swipe_offset' = 0 /\ UNCHANGED editor
    BY <1>2 DEF on_touchend
  <2>2. \/ UNCHANGED <<card, swipe_toast>>
        \/ swipe_toast'.original = card
           /\ \E blazed, due : card' = Next(card, blazed, due, card.lines)
    BY <1>2 DEF on_touchend, toastVars, Put, show_swipe_toast, Blazed, Dated
  <2>3. Counted(card')
    BY <1>1, <2>2, NextCounted DEF Counted
  <2> QED
    BY <2>1, <2>2, <2>3, CardsCounted
<1>3. CASE \/ on_touchstart \/ TouchTaken \/ ChangeMode \/ dismiss_toast
           \/ \E dx \in -Reach .. Reach : on_touchmove(dx)
           \/ \E n \in timers : ToastTimer(n)
           \/ OpenEditor \/ CloseEditor \/ UNCHANGED editVars
  <2>1. /\ UNCHANGED card
        /\ UNCHANGED swipe_toast \/ swipe_toast' = none
        /\ UNCHANGED editor \/ editor' = none \/ editor' = card'
    BY <1>3 DEF on_touchstart, TouchTaken, ChangeMode, dismiss_toast, HideToast, on_touchmove,
       ToastTimer, OpenEditor, CloseEditor, Panel, toastVars, editVars
  <2>2. swipe_offset' \in Int
    BY <1>1, <1>3, SwipeWidths DEF on_touchstart, TouchTaken, ChangeMode, dismiss_toast, on_touchmove,
       ToastTimer, OpenEditor, CloseEditor, Panel, gestureVars, editVars
  <2>3. Counted(card')
    BY <1>1, <2>1 DEF Counted
  <2> QED
    BY <2>1, <2>2, <2>3, CardsCounted
<1>4. CASE \/ undo_swipe \/ toggle_blaze
           \/ \E due \in {DueAt(0, "midnight"), DueAt(2, "midnight"), none} : set_due_date(due)
           \/ \E due \in {DueAt(0, "noon"), DueAt(1, "noon"), none} : set_due_date_shortcut(due)
           \/ \E line \in DOMAIN card.lines : on_content_click(line)
  <2>1. /\ UNCHANGED gestureVars /\ UNCHANGED editor
        /\ UNCHANGED swipe_toast \/ swipe_toast' = none
    BY <1>4 DEF undo_swipe, HideToast, toggle_blaze, set_due_date, set_due_date_shortcut,
       on_content_click, Panel, toastVars
  <2>2. PICK c, blazed, due, lines : Counted(c) /\ card' = Next(c, blazed, due, lines)
    BY <1>1, <1>4 DEF SwipeInv, undo_swipe, toggle_blaze, set_due_date, set_due_date_shortcut,
       on_content_click, Put, Blazed, Dated
  <2>3. Counted(card')
    BY <2>2, NextCounted DEF Counted
  <2> QED
    BY <1>1, <2>1, <2>3, CardsCounted DEF gestureVars
<1>5. ASSUME NEW lines, NEW due, NEW stay \in BOOLEAN, do_save(lines, due, stay)
      PROVE  SwipeInv'
  <2>1. UNCHANGED gestureVars /\ UNCHANGED swipe_toast /\ editor # none
    BY <1>5 DEF do_save, Panel, toastVars
  <2>2. \/ card' = card /\ editor' = none
        \/ card' = Next(editor, SaveBlazed(due), due, lines) /\ (editor' = card' \/ editor' = none)
    BY <1>5 DEF do_save, Put
  <2>3. Counted(card')
    BY <1>1, <2>1, <2>2, NextCounted DEF SwipeInv, Counted
  <2> QED
    BY <1>1, <2>1, <2>2, <2>3, CardsCounted DEF gestureVars
<1> QED
  BY <1>2, <1>3, <1>4, <1>5 DEF EditsNext

LEMMA SwipeInit ==
    ASSUME EditsInit
    PROVE  SwipeInv
  BY DEF EditsInit, SwipeInv, Counted

LEMMA Thresholds ==
    threshold_r \in Nat /\ threshold_l \in Nat /\ HintRight \in Nat /\ HintLeft \in Nat
  BY SwipeWidths DEF threshold_r, threshold_l

ReleasedZone == IF Zone = none THEN 1 ELSE Zone

LEMMA ZoneInRange ==
    ASSUME SwipeInv
    PROVE  ReleasedZone \in {1, 2, 3, 4}
<1>1. CASE levels_mode
  <2>1. Abs(swipe_offset) \in Int
    BY DEF SwipeInv, Abs
  <2>2. levels_zone(swipe_offset) \in {none, 1, 2, 3, 4}
    BY <2>1, SwipeWidths DEF levels_zone
  <2> QED
    BY <1>1, <2>2 DEF Zone, ReleasedZone
<1>2. CASE ~levels_mode
  BY <1>2 DEF Zone, ReleasedZone, CycleZone
<1> QED
  BY <1>1, <1>2

\* The label of a zone is the date that a release in it sets.
LEMMA ZonePromise ==
    ASSUME NEW zone \in {1, 2, 3, 4}, card'.due = ZoneDue(zone)
    PROVE  Promised(levels_zone_label(zone))
<1>1. CASE zone = 1
  BY <1>1 DEF ZoneDue, levels_zone_label, Promised
<1>2. CASE zone = 2
  BY <1>2 DEF ZoneDue, levels_zone_label, Promised
<1>3. CASE zone = 3
  BY <1>3 DEF ZoneDue, levels_zone_label, Promised
<1>4. CASE zone = 4
  BY <1>4 DEF ZoneDue, levels_zone_label, Promised
<1> QED
  BY <1>1, <1>2, <1>3, <1>4

AsShown ==
    /\ card' # card /\ swipe_label # none => Promised(swipe_label)
    /\ swipe_commit /\ ~LooksLeft /\ swipe_offset \notin {threshold_r, -threshold_l} => card' # card

\* Between the thresholds nothing is promised for certain.
LEMMA ShortSwipe ==
    ASSUME SwipeInv, card' = card, -threshold_l <= swipe_offset, swipe_offset <= threshold_r
    PROVE  AsShown
<1>1. ASSUME swipe_commit, ~LooksLeft PROVE swipe_offset \in {threshold_r, -threshold_l}
  <2>1. CASE swipe_offset >= threshold_r
    BY <2>1, Thresholds DEF SwipeInv
  <2>2. CASE levels_mode /\ swipe_offset <= 0 /\ levels_zone(swipe_offset) # none
    <3>1. ~(Abs(swipe_offset) < LeftLevels)
      <4>1. ASSUME Abs(swipe_offset) < LeftLevels PROVE levels_zone(swipe_offset) = none
        <5>1. LeftLevels \in Nat /\ TodayWidth \in Nat /\ TomorrowWidth \in Nat /\ SoonWidth \in Nat
              /\ Abs(swipe_offset) \in Int
          BY SwipeWidths DEF SwipeInv, Abs
        <5> QED
          BY <4>1, <5>1 DEF levels_zone
      <4> QED
        BY <2>2, <4>1
    <3>2. threshold_l = LeftLevels
      BY <2>2 DEF threshold_l
    <3> QED
      BY <2>2, <3>1, <3>2, SwipeWidths DEF SwipeInv, Abs
  <2>3. CASE ~levels_mode /\ swipe_offset <= -threshold_l
    BY <2>3, Thresholds DEF SwipeInv
  <2>4. swipe_offset <= HintRight /\ swipe_offset < threshold_r /\ levels_mode => swipe_offset <= 0
    BY <1>1, Thresholds DEF LooksLeft, SwipeInv
  <2> QED
    BY <1>1, <2>1, <2>2, <2>3, <2>4, Thresholds DEF swipe_commit, SwipeInv
<1> QED
  BY <1>1 DEF AsShown

LEMMA RightSwipe ==
    ASSUME SwipeInv, card' = Blazed(card), swipe_offset > threshold_r
    PROVE  AsShown
<1>1. card' # card
  BY NextCounted DEF SwipeInv, Blazed
<1>2. card'.blazed = (~card.blazed)
  BY NextFields DEF Blazed
<1>3. swipe_label \in {none, IF card.blazed THEN "Extinguish" ELSE "Blaze"}
  <2>1. swipe_offset >= -HintLeft
    BY Thresholds DEF SwipeInv
  <2> QED
    BY <2>1 DEF swipe_label
<1>4. CASE card.blazed
  <2>1. ~card'.blazed
    BY <1>2, <1>4, Zenon
  <2> QED
    BY <1>1, <1>3, <1>4, <2>1 DEF AsShown, Promised
<1>5. CASE ~card.blazed
  <2>1. card'.blazed
    BY <1>2, <1>5, Zenon
  <2> QED
    BY <1>1, <1>3, <1>5, <2>1 DEF AsShown, Promised
<1> QED
  BY <1>4, <1>5

LEMMA LeftSwipe ==
    ASSUME SwipeInv, card' = Dated(card, ZoneDue(ReleasedZone)), swipe_offset < -threshold_l
    PROVE  AsShown
<1>1. card' # card
  BY NextCounted DEF SwipeInv, Dated
<1>2. card'.due = ZoneDue(ReleasedZone)
  BY NextFields DEF Dated
<1>3. swipe_label \in {none, levels_zone_label(ReleasedZone)}
  <2>1. ~(swipe_offset > HintRight)
    BY Thresholds DEF SwipeInv
  <2> QED
    BY <2>1 DEF swipe_label, ReleasedZone
<1>4. Promised(levels_zone_label(ReleasedZone))
  BY <1>2, ZoneInRange, ZonePromise
<1> QED
  BY <1>1, <1>3, <1>4 DEF AsShown

LEMMA ReleaseStep ==
    ASSUME SwipeInv, [EditsNext]_editVars, Released, touch_swipe_enabled
    PROVE  AsShown
<1>1. CASE TouchTaken
  <2>1. card' = card /\ swipe_offset = 0
    BY <1>1 DEF TouchTaken, Released
  <2>2. -threshold_l <= swipe_offset /\ swipe_offset <= threshold_r
    BY <2>1, Thresholds
  <2> QED
    BY <2>1, <2>2, ShortSwipe
<1>2. CASE on_touchend
  <2>1. \/ swipe_offset > threshold_r /\ card' = Blazed(card)
        \/ swipe_offset < -threshold_l /\ card' = Dated(card, ZoneDue(ReleasedZone))
        \/ -threshold_l <= swipe_offset /\ swipe_offset <= threshold_r /\ card' = card
    BY <1>2 DEF on_touchend, Released, Put, ReleasedZone
  <2> QED
    BY <2>1, ShortSwipe, RightSwipe, LeftSwipe
<1>3. CASE ~TouchTaken /\ ~on_touchend
  BY <1>3 DEF EditsNext, on_touchstart, on_touchmove, ChangeMode, undo_swipe, dismiss_toast, ToastTimer,
     toggle_blaze, set_due_date, set_due_date_shortcut, on_content_click, OpenEditor, CloseEditor,
     do_save, Panel, gestureVars, editVars, Released
<1> QED
  BY <1>1, <1>2, <1>3

\* For any widths of the zones and thresholds of the two modes, a release does
\* what the label has said, and something wherever the row's background told
\* so, but for the very thresholds and for a right swipe that looks like a left
\* one (card_item.rs).
THEOREM ReleasesDoAsShown == EditsSpec => ReleaseDoesAsShown
<1>1. SwipeInv /\ [EditsNext]_editVars => [Released /\ touch_swipe_enabled => AsShown]_editVars
  BY ReleaseStep
<1>2. [Released /\ touch_swipe_enabled => AsShown]_editVars =>
        [Released /\ touch_swipe_enabled =>
          /\ card' # card /\ swipe_label # none => Promised(swipe_label)
          /\ swipe_commit /\ ~LooksLeft /\ swipe_offset \notin {threshold_r, -threshold_l} => card' # card
        ]_editVars
  BY DEF AsShown
<1> QED
  BY <1>1, <1>2, SwipeInit, SwipeStep, PTL DEF EditsSpec, ReleaseDoesAsShown
-----------------------------------------------------------------------------
(* Task boxes.  WithoutRow a block of code the boxes of the page and the tasks of *)
(* the text are the same lines, so counting either finds the other.            *)

PlainLines == [kind : {"item", "text"}, done : BOOLEAN]
Plain(c)   == c.lines \in Seq(PlainLines)

PlainInv == /\ Plain(card)
            /\ swipe_toast # none => Plain(swipe_toast.original)
            /\ editor # none => Plain(editor)

LEMMA TasksHaveBoxes ==
    ASSUME NEW line \in PlainLines
    PROVE  IsTask(line) <=> HasBox(line)
  BY DEF PlainLines, IsTask, HasBox

LEMMA FlippedIsPlain ==
    ASSUME NEW line \in PlainLines
    PROVE  Flipped(line) \in PlainLines /\ Flipped(line) # line
<1>1. line.kind \in {"item", "text"} /\ line.done \in BOOLEAN /\ line = [kind |-> line.kind, done |-> line.done]
  BY DEF PlainLines
<1>2. Flipped(line) = [kind |-> line.kind, done |-> ~line.done]
  BY <1>1 DEF Flipped, PlainLines
<1>3. (~line.done) \in BOOLEAN
  BY <1>1
<1>4. Flipped(line) \in PlainLines
  BY <1>1, <1>2, <1>3 DEF PlainLines
<1>5. Flipped(line).done = (~line.done)
  BY <1>2
<1>6. Flipped(line) # line
  BY <1>1, <1>5, Zenon
<1> QED
  BY <1>4, <1>6

LEMMA ToggledIsPlain ==
    ASSUME NEW lines \in Seq(PlainLines), NEW index
    PROVE  toggle_task_item(lines, index) \in Seq(PlainLines)
<1>1. DOMAIN lines = 1 .. Len(lines) /\ Len(lines) \in Nat
  OBVIOUS
<1>2. \A i \in DOMAIN lines : lines[i] \in PlainLines
  OBVIOUS
<1>3. toggle_task_item(lines, index) \in [1 .. Len(lines) -> PlainLines]
  BY <1>1, <1>2, FlippedIsPlain DEF toggle_task_item
<1> QED
  BY <1>1, <1>3

\* Of two tasks the later has more of them before it.
LEMMA TasksBefore ==
    ASSUME NEW lines \in Seq(PlainLines), NEW i \in DOMAIN lines, NEW j \in DOMAIN lines,
           i < j, IsTask(lines[i])
    PROVE  EarlierOnes(lines, IsTask, i) < EarlierOnes(lines, IsTask, j)
<1> DEFINE S(n) == {k \in 1 .. n - 1 : IsTask(lines[k])}
<1>1. i \in Nat /\ j \in Nat /\ i >= 1 /\ j >= 1
  OBVIOUS
<1>2. IsFiniteSet(1 .. j - 1)
  BY <1>1, FS_Interval
<1>3. IsFiniteSet(S(j))
  BY <1>2, FS_Subset
<1>4. S(i) \subseteq S(j) /\ i \in S(j) /\ i \notin S(i)
  BY <1>1
<1> HIDE DEF S
<1>5. IsFiniteSet(S(i)) /\ Cardinality(S(i)) <= Cardinality(S(j)) /\ Cardinality(S(i)) # Cardinality(S(j))
  BY <1>3, <1>4, FS_Subset
<1>6. Cardinality(S(i)) \in Nat /\ Cardinality(S(j)) \in Nat
  BY <1>3, <1>5, FS_CardinalityType
<1> QED
  BY <1>5, <1>6 DEF EarlierOnes, S

\* The lines before one are as many, counted in the page or in the text.
LEMMA BothCountAlike ==
    ASSUME NEW lines \in Seq(PlainLines), NEW i \in DOMAIN lines
    PROVE  EarlierOnes(lines, HasBox, i) = EarlierOnes(lines, IsTask, i)
<1>1. \A k \in 1 .. i - 1 : lines[k] \in PlainLines
  OBVIOUS
<1>2. {k \in 1 .. i - 1 : HasBox(lines[k])} = {k \in 1 .. i - 1 : IsTask(lines[k])}
  BY <1>1, TasksHaveBoxes
<1> QED
  BY <1>2 DEF EarlierOnes

LEMMA ToggleFlipsTheBox ==
    ASSUME NEW lines \in Seq(PlainLines), NEW line \in DOMAIN lines, HasBox(lines[line])
    PROVE  toggle_task_item(lines, EarlierOnes(lines, HasBox, line)) = [lines EXCEPT ![line] = Flipped(@)]
<1> DEFINE index == EarlierOnes(lines, IsTask, line)
<1>1. EarlierOnes(lines, HasBox, line) = index
  BY BothCountAlike
<1>2. IsTask(lines[line])
  BY TasksHaveBoxes
<1>3. ASSUME NEW i \in DOMAIN lines, IsTask(lines[i]), EarlierOnes(lines, IsTask, i) = index
      PROVE  i = line
  <2>1. i \in Int /\ line \in Int
    OBVIOUS
  <2>2. ~(i < line)
    <3>1. SUFFICES ASSUME i < line PROVE FALSE
      OBVIOUS
    <3>2. EarlierOnes(lines, IsTask, i) < EarlierOnes(lines, IsTask, line)
      BY <1>3, <3>1, TasksBefore
    <3>3. EarlierOnes(lines, IsTask, line) \in Nat
      <4>1. IsFiniteSet(1 .. line - 1)
        BY <2>1, FS_Interval
      <4>2. IsFiniteSet({k \in 1 .. line - 1 : IsTask(lines[k])})
        BY <4>1, FS_Subset
      <4> QED
        BY <4>2, FS_CardinalityType DEF EarlierOnes
    <3> QED
      BY <1>3, <3>2, <3>3
  <2>3. ~(line < i)
    <3>1. SUFFICES ASSUME line < i PROVE FALSE
      OBVIOUS
    <3>2. EarlierOnes(lines, IsTask, line) < EarlierOnes(lines, IsTask, i)
      BY <1>2, <3>1, TasksBefore
    <3>3. EarlierOnes(lines, IsTask, line) \in Nat
      <4>1. IsFiniteSet(1 .. line - 1)
        BY <2>1, FS_Interval
      <4>2. IsFiniteSet({k \in 1 .. line - 1 : IsTask(lines[k])})
        BY <4>1, FS_Subset
      <4> QED
        BY <4>2, FS_CardinalityType DEF EarlierOnes
    <3> QED
      BY <1>3, <3>2, <3>3
  <2> QED
    BY <2>1, <2>2, <2>3
<1>4. toggle_task_item(lines, index) =
        [i \in DOMAIN lines |-> IF i = line THEN Flipped(lines[i]) ELSE lines[i]]
  BY <1>2, <1>3 DEF toggle_task_item
<1> HIDE DEF index
<1>5. [lines EXCEPT ![line] = Flipped(@)] =
        [i \in DOMAIN lines |-> IF i = line THEN Flipped(lines[i]) ELSE lines[i]]
  OBVIOUS
<1> QED
  BY <1>1, <1>4, <1>5

LEMMA PlainKept ==
    ASSUME NEW c, Plain(c), NEW due
    PROVE  Plain(Blazed(c)) /\ Plain(Dated(c, due)) /\ Plain(Next(c, c.blazed, c.due, c.lines))
  BY DEF Plain, Blazed, Dated, Next

\* As with the couplings: the toast and the editor kept, given up, or filled
\* with a version that was in the list or comes to it.
LEMMA PutPlain ==
    ASSUME PlainInv, Plain(card'),
           UNCHANGED swipe_toast \/ swipe_toast' = none \/ swipe_toast'.original = card,
           UNCHANGED editor \/ editor' = none \/ editor' = card'
    PROVE  PlainInv'
  BY DEF PlainInv, Plain

LEMMA PlainStep ==
    ASSUME Contents \subseteq Seq(PlainLines), PlainInv, [EditsNext]_editVars
    PROVE  PlainInv'
<1>1. Plain(card)
  BY DEF PlainInv
<1>2. CASE on_touchend
  <2>1. /\ UNCHANGED swipe_toast \/ swipe_toast' = none \/ swipe_toast'.original = card
        /\ UNCHANGED editor
    BY <1>2 DEF on_touchend, show_swipe_toast, toastVars
  <2>2. card' = card \/ card' = Blazed(card) \/ \E due : card' = Dated(card, due)
    BY <1>2 DEF on_touchend, Put
  <2>3. Plain(card')
    BY <1>1, <2>2, PlainKept DEF Plain
  <2> QED
    BY <2>1, <2>3, PutPlain
<1>3. CASE \/ on_touchstart \/ TouchTaken \/ ChangeMode \/ dismiss_toast
           \/ \E dx \in -Reach .. Reach : on_touchmove(dx)
           \/ \E n \in timers : ToastTimer(n)
           \/ OpenEditor \/ CloseEditor \/ UNCHANGED editVars
  <2>1. /\ UNCHANGED card
        /\ UNCHANGED swipe_toast \/ swipe_toast' = none
        /\ UNCHANGED editor \/ editor' = none \/ editor' = card'
    BY <1>3 DEF on_touchstart, TouchTaken, ChangeMode, dismiss_toast, HideToast, on_touchmove,
       ToastTimer, OpenEditor, CloseEditor, Panel, modeVars, toastVars, editVars
  <2>2. Plain(card')
    BY <1>1, <2>1 DEF Plain
  <2> QED
    BY <2>1, <2>2, PutPlain
<1>4. CASE undo_swipe
  <2> DEFINE orig == swipe_toast.original
  <2>1. /\ swipe_toast # none /\ swipe_toast' = none /\ UNCHANGED editor
        /\ card' = Next(orig, orig.blazed, orig.due, orig.lines)
    BY <1>4 DEF undo_swipe, Put, HideToast
  <2>2. Plain(orig)
    BY <2>1 DEF PlainInv
  <2> HIDE DEF orig
  <2>3. Plain(card')
    BY <2>1, <2>2, PlainKept DEF Plain
  <2> QED
    BY <2>1, <2>3, PutPlain
<1>5. ASSUME NEW due, toggle_blaze \/ set_due_date(due) \/ set_due_date_shortcut(due)
      PROVE  PlainInv'
  <2>1. UNCHANGED swipe_toast /\ UNCHANGED editor /\ (card' = Blazed(card) \/ card' = Dated(card, due))
    BY <1>5 DEF toggle_blaze, set_due_date, set_due_date_shortcut, Put, Panel, toastVars
  <2>2. Plain(card')
    BY <1>1, <2>1, PlainKept DEF Plain
  <2> QED
    BY <2>1, <2>2, PutPlain
<1>6. ASSUME NEW line, on_content_click(line)
      PROVE  PlainInv'
  <2>1. PICK index : card' = Next(card, card.blazed, card.due, toggle_task_item(card.lines, index))
    BY <1>6 DEF on_content_click, Put
  <2>2. UNCHANGED swipe_toast /\ UNCHANGED editor
    BY <1>6 DEF on_content_click, Panel, toastVars
  <2>3. card'.lines = toggle_task_item(card.lines, index)
    BY <2>1 DEF Next
  <2>4. Plain(card')
    BY <1>1, <2>3, ToggledIsPlain DEF Plain
  <2> QED
    BY <2>2, <2>4, PutPlain
<1>7. ASSUME NEW lines \in Contents, NEW due, NEW stay \in BOOLEAN, do_save(lines, due, stay)
      PROVE  PlainInv'
  <2>1. UNCHANGED swipe_toast
    BY <1>7 DEF do_save, Panel, toastVars
  <2>2. \/ editor' = none /\ card' = card
        \/ card'.lines = lines /\ (editor' = none \/ editor' = card')
    BY <1>7 DEF do_save, Put, Next
  <2>3. Plain(card')
    BY <1>1, <2>2 DEF Plain
  <2> QED
    BY <2>1, <2>2, <2>3, PutPlain
<1> QED
  BY <1>2, <1>3, <1>4, <1>5, <1>6, <1>7 DEF EditsNext

LEMMA PlainInit ==
    ASSUME Contents \subseteq Seq(PlainLines), EditsInit
    PROVE  PlainInv
  BY DEF EditsInit, PlainInv, Plain

LEMMA ClickStep ==
    ASSUME PlainInv, EditsNext, clicked' # none, clicked' # clicked
    PROVE  card'.lines = [card.lines EXCEPT ![clicked'].done = ~@]
<1>1. PICK line \in DOMAIN card.lines : on_content_click(line)
  BY DEF EditsNext, on_touchstart, on_touchend, TouchTaken, on_touchmove, ChangeMode, undo_swipe,
     dismiss_toast, ToastTimer, toggle_blaze, set_due_date, set_due_date_shortcut, OpenEditor,
     CloseEditor, do_save
<1>2. /\ clicked' = line /\ HasBox(card.lines[line])
      /\ card'.lines = toggle_task_item(card.lines, EarlierOnes(card.lines, HasBox, line))
  BY <1>1 DEF on_content_click, Put, Next
<1>3. card.lines \in Seq(PlainLines)
  BY DEF PlainInv, Plain
<1> QED
  BY <1>2, <1>3, ToggleFlipsTheBox DEF Flipped

\* In a card whose content has no block of code a click on a box flips that
\* task and no other, however often the content has changed since
\* (card_detail.rs, display.rs).  With a task in a block of code it is not so.
THEOREM ClicksFlipTheirBox ==
    ASSUME Contents \subseteq Seq(PlainLines)
    PROVE  EditsSpec => ClickFlipsItsBox
<1>1. EditsInit => PlainInv
  BY PlainInit
<1>2. PlainInv /\ [EditsNext]_editVars => PlainInv'
  BY PlainStep
<1>3. PlainInv /\ [EditsNext]_editVars =>
        [clicked' # none /\ card'.count = card.count + 1 /\ clicked' # clicked =>
            card'.lines = [card.lines EXCEPT ![clicked'].done = ~@]]_editVars
  BY ClickStep
<1> QED
  BY <1>1, <1>2, <1>3, PTL DEF EditsSpec, ClickFlipsItsBox

-----------------------------------------------------------------------------
(* The cache of linked cards (Links) *)

LinkLists == UNION {[S -> [content: SUBSET Ids, count: Nat]] : S \in SUBSET Ids}

\* What a card reaches, itself included: its component of the graph.
Component(id, cs) == expand_linked_cards(id, cs) \cup {id}
ClosedIn(S, cs) == \A x \in S : neighbors(x, cs) \subseteq S

LEMMA NeighborsInIds ==
    ASSUME NEW cs \in LinkLists, NEW x \in Ids
    PROVE  neighbors(x, cs) \subseteq Ids
<1>1. DOMAIN cs \subseteq Ids /\ \A y \in DOMAIN cs : cs[y].content \subseteq Ids
    BY DEF LinkLists
<1> QED
    BY <1>1 DEF neighbors, extract_card_links, extract_back_links

\* Whoever reaches is reached.
LEMMA NeighborsAreMutual ==
    ASSUME NEW cs \in LinkLists, NEW x \in Ids, NEW y \in neighbors(x, cs)
    PROVE  x \in neighbors(y, cs)
BY DEF neighbors, extract_card_links, extract_back_links

\* The rounds of the breadth-first search.
Rounds(f, id, cs, n) ==
    f[0] = {id} /\ \A i \in 1 .. n : f[i] = f[i - 1] \cup UNION {neighbors(x, cs) : x \in f[i - 1]}

LEMMA ExpandRuns ==
    ASSUME NEW cs \in LinkLists, NEW id \in Ids
    PROVE  /\ Cardinality(Ids) \in Nat
           /\ \E f \in [0 .. Cardinality(Ids) -> SUBSET Ids] :
                 /\ Rounds(f, id, cs, Cardinality(Ids))
                 /\ expand_linked_cards(id, cs) = f[Cardinality(Ids)] \ {id}
<1> DEFINE N == Cardinality(Ids)
           A == SUBSET Ids
           next(S) == S \cup UNION {neighbors(x, cs) : x \in S}
           round(f) == [n \in 0 .. N |-> IF n = 0 THEN {id} ELSE next(f[n - 1])]
           F == CHOOSE f : f = round(f)
           step == [p \in A \X (1 .. N) |-> next(p[1])]
<1>1. N \in Nat
    BY FewIds, FS_CardinalityType
<1>2. \A S \in A : next(S) \in A
    BY NeighborsInIds
<1>3. step \in [A \X (1 .. N) -> A]
    BY <1>2
<1>4. \A S \in A, n \in 1 .. N : step[<<S, n>>] = next(S)
    OBVIOUS
<1>5. {id} \in A
    OBVIOUS
<1>6. expand_linked_cards(id, cs) = F[N] \ {id}
    BY DEF expand_linked_cards
<1> HIDE DEF step, A, N, next
<1>7. PICK f \in [0 .. N -> A] : Loop(f, N, {id}, step)
    BY <1>1, <1>3, <1>5, LoopRuns
<1>8. \A n \in 1 .. N : n - 1 \in 0 .. N /\ f[n - 1] \in A
    BY <1>1
<1>9. f = round(f)
    <2>1. \A n \in 0 .. N : n = 0 \/ n \in 1 .. N
        BY <1>1
    <2>2. \A n \in 0 .. N : f[n] = round(f)[n]
        BY <2>1, <1>4, <1>7, <1>8 DEF Loop
    <2> QED
        BY <2>2
<1> HIDE DEF round
<1>10. F = round(F)
    BY <1>9
<1> HIDE DEF F
<1>11. F = [n \in 0 .. N |-> IF n = 0 THEN {id} ELSE next(F[n - 1])]
    BY <1>10 DEF round
<1>12. F[0] = {id} /\ \A n \in 1 .. N : F[n] = next(F[n - 1])
    <2>1. 0 \in 0 .. N /\ \A n \in 1 .. N : n \in 0 .. N /\ n # 0
        BY <1>1
    <2> QED
        BY <2>1, <1>11
<1>13. \A n \in 0 .. N : F[n] \in A
    <2> DEFINE Bad == {n \in 0 .. N : F[n] \notin A}
    <2> SUFFICES ASSUME Bad # {} PROVE FALSE
        OBVIOUS
    <2>1. Bad \in SUBSET Nat
        BY <1>1
    <2> HIDE DEF Bad
    <2>2. PICK n \in Bad : \A k \in Bad : n <= k
        BY <2>1, LeastNumber
    <2> USE DEF Bad
    <2>3. n # 0 /\ n \in 0 .. N
        BY <2>2, <1>12, <1>5
    <2>4. n \in 1 .. N /\ n - 1 \in 0 .. N /\ n - 1 \notin Bad
        BY <2>2, <2>3, <1>1
    <2> QED
        BY <2>2, <2>4, <1>2, <1>12
<1>14. F \in [0 .. N -> A]
    BY <1>11, <1>13
<1> QED
    BY <1>1, <1>6, <1>12, <1>14 DEF Rounds, N, A, next

\* As many rounds as there are cards are enough: a round that adds none is the last
\* one that could.
LEMMA RoundsClose ==
    ASSUME NEW cs \in LinkLists, NEW id \in Ids,
           NEW N \in Nat, NEW f \in [0 .. N -> SUBSET Ids], Rounds(f, id, cs, N),
           N = Cardinality(Ids)
    PROVE  /\ ClosedIn(f[N], cs) /\ id \in f[N]
           /\ \A S : ClosedIn(S, cs) /\ id \in S => f[N] \subseteq S
<1> DEFINE Good(n) == /\ id \in f[n]
                      /\ ClosedIn(f[n], cs) \/ Cardinality(f[n]) > n
                      /\ \A S : ClosedIn(S, cs) /\ id \in S => f[n] \subseteq S
           Bad == {n \in 0 .. N : ~Good(n)}
<1>1. Good(0)
    <2>1. f[0] = {id}
        BY DEF Rounds
    <2>2. Cardinality(f[0]) = 1
        BY <2>1, FS_Singleton
    <2> QED
        BY <2>1, <2>2
<1>2. ASSUME NEW n \in 1 .. N, Good(n - 1) PROVE Good(n)
    <2>1. n - 1 \in 0 .. N /\ n \in 0 .. N /\ n - 1 \in Nat
        OBVIOUS
    <2>2. f[n] = f[n - 1] \cup UNION {neighbors(x, cs) : x \in f[n - 1]}
        BY DEF Rounds
    <2>3. f[n] \subseteq Ids /\ f[n - 1] \subseteq f[n]
        BY <2>1, <2>2
    <2>4. IsFiniteSet(f[n])
        BY <2>3, FewIds, FS_Subset
    <2>5. ASSUME NEW S, ClosedIn(S, cs), id \in S PROVE f[n] \subseteq S
        BY <2>2, <2>5, <1>2 DEF ClosedIn
    <2>6. CASE ClosedIn(f[n - 1], cs)
        <3>1. f[n] = f[n - 1]
            BY <2>2, <2>6 DEF ClosedIn
        <3> QED
            BY <3>1, <2>6, <1>2
    <2>7. CASE ~ClosedIn(f[n - 1], cs)
        <3>1. f[n] # f[n - 1]
            BY <2>2, <2>7 DEF ClosedIn
        <3>2. Cardinality(f[n - 1]) < Cardinality(f[n])
            BY <3>1, <2>3, <2>4, FS_Subset, FS_CardinalityType
        <3>3. IsFiniteSet(f[n - 1]) /\ Cardinality(f[n - 1]) \in Nat /\ Cardinality(f[n]) \in Nat
            BY <2>3, <2>4, FS_Subset, FS_CardinalityType
        <3>4. Cardinality(f[n - 1]) > n - 1
            BY <1>2, <2>7
        <3>5. Cardinality(f[n]) > n
            BY <3>2, <3>3, <3>4
        <3>6. id \in f[n]
            BY <1>2, <2>3
        <3> QED
            BY <3>5, <3>6, <2>5
    <2> QED
        BY <2>6, <2>7
<1> HIDE DEF Good
<1>3. Bad = {}
    <2> SUFFICES ASSUME Bad # {} PROVE FALSE
        OBVIOUS
    <2>1. Bad \in SUBSET Nat
        OBVIOUS
    <2> HIDE DEF Bad
    <2>2. PICK n \in Bad : \A k \in Bad : n <= k
        BY <2>1, LeastNumber
    <2> USE DEF Bad
    <2>3. n # 0 /\ n \in 0 .. N
        BY <2>2, <1>1
    <2>4. n \in 1 .. N /\ n - 1 \in 0 .. N /\ n - 1 \notin Bad
        BY <2>2, <2>3
    <2> QED
        BY <1>2, <2>2, <2>4
<1>4. Good(N)
    BY <1>3
<1>5. f[N] \subseteq Ids
    OBVIOUS
<1>6. ~(Cardinality(f[N]) > N)
    BY <1>5, FewIds, FS_Subset, FS_CardinalityType
<1> QED
    BY <1>4, <1>6 DEF Good

LEMMA ComponentIsLeast ==
    ASSUME NEW cs \in LinkLists, NEW id \in Ids
    PROVE  /\ Component(id, cs) \subseteq Ids /\ id \in Component(id, cs)
           /\ ClosedIn(Component(id, cs), cs)
           /\ \A S : ClosedIn(S, cs) /\ id \in S => Component(id, cs) \subseteq S
           /\ expand_linked_cards(id, cs) = Component(id, cs) \ {id}
<1> DEFINE N == Cardinality(Ids)
<1>1. N \in Nat
    BY ExpandRuns
<1>2. PICK f \in [0 .. N -> SUBSET Ids] :
          Rounds(f, id, cs, N) /\ expand_linked_cards(id, cs) = f[N] \ {id}
    BY ExpandRuns
<1>3. /\ ClosedIn(f[N], cs) /\ id \in f[N] /\ f[N] \subseteq Ids
      /\ \A S : ClosedIn(S, cs) /\ id \in S => f[N] \subseteq S
    BY <1>1, <1>2, RoundsClose
<1>4. Component(id, cs) = f[N]
    BY <1>2, <1>3 DEF Component
<1> QED
    BY <1>2, <1>3, <1>4

\* Components are disjoint.
LEMMA ComponentsAgree ==
    ASSUME NEW cs \in LinkLists, NEW x \in Ids, NEW y \in Component(x, cs)
    PROVE  Component(y, cs) = Component(x, cs)
<1> DEFINE X == Component(x, cs)
           Y == Component(y, cs)
<1>1. /\ X \subseteq Ids /\ x \in X /\ ClosedIn(X, cs) /\ y \in X /\ y \in Ids
      /\ \A S : ClosedIn(S, cs) /\ x \in S => X \subseteq S
    BY ComponentIsLeast
<1>2. /\ Y \subseteq Ids /\ y \in Y /\ ClosedIn(Y, cs)
      /\ \A S : ClosedIn(S, cs) /\ y \in S => Y \subseteq S
    BY <1>1, ComponentIsLeast
<1> HIDE DEF X, Y
<1>3. Y \subseteq X
    BY <1>1, <1>2
<1>4. x \in Y
    <2> SUFFICES ASSUME x \notin Y PROVE FALSE
        OBVIOUS
    <2>1. ClosedIn(X \ Y, cs)
        <3> SUFFICES ASSUME NEW w \in X \ Y, NEW v \in neighbors(w, cs), v \in Y PROVE FALSE
            BY <1>1 DEF ClosedIn
        <3>1. w \in neighbors(v, cs)
            BY <1>1, NeighborsAreMutual
        <3> QED
            BY <3>1, <1>2 DEF ClosedIn
    <2> QED
        BY <2>1, <1>1, <1>2
<1>5. X \subseteq Y
    BY <1>1, <1>2, <1>4
<1> QED
    BY <1>3, <1>5 DEF X, Y

-----------------------------------------------------------------------------
(* The passes *)

\* What an entry tells of its card, the card included.
ReachOf(cache, id) == cache[id].reach \cup {id}

\* The cache has been filled a component at a time, each from one list.
FilledWhole(cache) ==
    /\ DOMAIN cache \subseteq Ids
    /\ \A id \in DOMAIN cache : \E cs \in LinkLists :
          /\ Component(id, cs) \subseteq DOMAIN cache
          /\ \A m \in Component(id, cs) :
                /\ cache[m].reach = Component(id, cs) \ {m}
                /\ cache[m].hash # ZeroHash => m \in DOMAIN cs /\ cache[m].hash = cs[m].content

\* An entry is what the pass would fill in, or a card of its component waits.
PassMends(cache, cs, waiting) ==
    \A id \in DOMAIN cache :
        /\ ReachOf(cache, id) \subseteq Component(id, cs)
        /\ \/ ReachOf(cache, id) = Component(id, cs)
           \/ \E c \in waiting : c \in Component(id, cs)

LinksTypeOK ==
    /\ cards \in LinkLists /\ seen \in LinkLists
    /\ disk = [cards |-> disk.cards, cache |-> disk.cache] /\ disk.cards \in LinkLists
    /\ show_list_link_counts \in BOOLEAN /\ recursive_links \in BOOLEAN /\ meddled \in BOOLEAN
    /\ todo \subseteq Ids

\* Each card with links has an entry or waits for one.
LinkedServed ==
    /\ filled \subseteq DOMAIN link_graph_cache
    /\ IF show_list_link_counts /\ recursive_links
       THEN Linked(seen) \subseteq DOMAIN link_graph_cache \cup todo
       ELSE seen = cards /\ last_fingerprint = Unset

CacheRight ==
    ~meddled => /\ FilledWhole(link_graph_cache) /\ FilledWhole(disk.cache)
                /\ PassMends(link_graph_cache, seen, todo \ filled)

LinksInv == LinksTypeOK /\ LinkedServed /\ CacheRight

LEMMA EmptyCache ==
    /\ DOMAIN Empty = {} /\ FilledWhole(Empty)
    /\ \A cs, waiting : PassMends(Empty, cs, waiting)
<1>1. DOMAIN Empty = {}
    BY DEF Empty
<1> QED
    BY <1>1 DEF FilledWhole, PassMends

\* A member of an entry's component has the same component.
LEMMA EntriesAgree ==
    ASSUME NEW cache, FilledWhole(cache), NEW id \in DOMAIN cache
    PROVE  \E cs \in LinkLists :
              /\ ReachOf(cache, id) = Component(id, cs) /\ ReachOf(cache, id) \subseteq DOMAIN cache
              /\ ClosedIn(ReachOf(cache, id), cs)
              /\ cache[id].reach = ReachOf(cache, id) \ {id}
              /\ \A m \in ReachOf(cache, id) :
                    /\ ReachOf(cache, m) = ReachOf(cache, id)
                    /\ cache[m].reach = ReachOf(cache, id) \ {m}
                    /\ Component(m, cs) = Component(id, cs)
                    /\ cache[m].hash # ZeroHash => m \in DOMAIN cs /\ cache[m].hash = cs[m].content
<1>1. PICK cs \in LinkLists :
          /\ Component(id, cs) \subseteq DOMAIN cache
          /\ \A m \in Component(id, cs) :
                /\ cache[m].reach = Component(id, cs) \ {m}
                /\ cache[m].hash # ZeroHash => m \in DOMAIN cs /\ cache[m].hash = cs[m].content
    BY DEF FilledWhole
<1>2. id \in Ids
    BY DEF FilledWhole
<1>3. id \in Component(id, cs) /\ ClosedIn(Component(id, cs), cs)
    BY <1>2, ComponentIsLeast
<1>4. \A m \in Component(id, cs) : ReachOf(cache, m) = Component(id, cs)
    BY <1>1 DEF ReachOf
<1>5. \A m \in Component(id, cs) : Component(m, cs) = Component(id, cs)
    BY <1>2, ComponentsAgree
<1> QED
    BY <1>1, <1>3, <1>4, <1>5

\* A card that links to another one of the list is counted as linked.
LEMMA LinkerCounted ==
    ASSUME NEW cs \in LinkLists, NEW y \in DOMAIN cs, NEW m \in DOMAIN cs,
           m \in cs[y].content, m # y
    PROVE  y \in Linked(cs)
<1> DEFINE back == {c \in DOMAIN cs : y \in Outgoing(c, cs)}
           out == Outgoing(y, cs)
<1>1. m \in out
    BY DEF Outgoing, extract_card_links
<1>2. DOMAIN cs \subseteq Ids
    BY DEF LinkLists
<1>3. out \subseteq DOMAIN cs /\ back \subseteq DOMAIN cs
    BY DEF Outgoing
<1>4. LinkCounts(y, cs) = [forward |-> Cardinality(out \ back), back |-> Cardinality(back \ out),
                           mutual |-> Cardinality(out \cap back)]
    BY DEF LinkCounts
<1> HIDE DEF out, back
<1>5. IsFiniteSet(out \ back) /\ IsFiniteSet(back \ out) /\ IsFiniteSet(out \cap back)
    <2>1. IsFiniteSet(DOMAIN cs)
        BY <1>2, FewIds, FS_Subset
    <2>2. out \ back \subseteq DOMAIN cs /\ back \ out \subseteq DOMAIN cs /\ out \cap back \subseteq DOMAIN cs
        BY <1>3
    <2> QED
        BY <2>1, <2>2, FS_Subset
<1>6. /\ Cardinality(out \ back) \in Nat /\ Cardinality(back \ out) \in Nat
      /\ Cardinality(out \cap back) \in Nat
    BY <1>5, FS_CardinalityType
<1>7. Cardinality(out \ back) # 0 \/ Cardinality(out \cap back) # 0
    <2>1. out \ back # {} \/ out \cap back # {}
        BY <1>1
    <2> QED
        BY <2>1, <1>5, FS_EmptySet
<1>8. LinkCounts(y, cs).forward + LinkCounts(y, cs).back + LinkCounts(y, cs).mutual > 0
    BY <1>4, <1>6, <1>7
<1> QED
    BY <1>8 DEF Linked

\* Invalidation keeps or drops whole components.  What it keeps is right, or a card
\* without an entry links to it.
LEMMA InvalidationMends ==
    ASSUME NEW cache, FilledWhole(cache), NEW cs \in LinkLists
    PROVE  LET kept == Invalidated(cache, cs)
           IN  FilledWhole(kept) /\ PassMends(kept, cs, Linked(cs) \ DOMAIN kept)
<1> DEFINE kept == Invalidated(cache, cs)
           changed == {id \in DOMAIN cache : id \notin DOMAIN cs \/ cache[id].hash # cs[id].content}
           stay == {id \in (DOMAIN cache \cap DOMAIN cs) \ changed : cache[id].reach \cap changed = {}}
<1>1. DOMAIN kept = stay /\ \A id \in stay : kept[id] = cache[id]
    BY DEF Invalidated, Restrict
<1>2. \A id \in stay : /\ id \in DOMAIN cache /\ id \in DOMAIN cs /\ cache[id].hash = cs[id].content
                       /\ ReachOf(kept, id) = ReachOf(cache, id)
    BY <1>1 DEF ReachOf
<1>3. ASSUME NEW id \in stay PROVE ReachOf(cache, id) \subseteq stay
    <2>1. PICK old \in LinkLists :
              /\ ReachOf(cache, id) \subseteq DOMAIN cache
              /\ cache[id].reach = ReachOf(cache, id) \ {id}
              /\ \A m \in ReachOf(cache, id) : cache[m].reach = ReachOf(cache, id) \ {m}
        BY <1>2, EntriesAgree
    <2>2. ReachOf(cache, id) \cap changed = {}
        BY <2>1
    <2>3. \A m \in ReachOf(cache, id) : m \in DOMAIN cs /\ cache[m].reach \cap changed = {}
        BY <2>1, <2>2
    <2> QED
        BY <2>1, <2>2, <2>3
<1>4. \A x \in DOMAIN cs : cs[x].content \subseteq Ids /\ cs[x].content # ZeroHash
    BY NoneIsNoContent DEF LinkLists, ZeroHash
<1> HIDE DEF kept, stay, changed
<1>5. FilledWhole(kept)
    <2>1. DOMAIN kept \subseteq Ids
        BY <1>1, <1>2 DEF FilledWhole
    <2> SUFFICES ASSUME NEW id \in stay
                 PROVE  \E old \in LinkLists :
                           /\ Component(id, old) \subseteq DOMAIN kept
                           /\ \A m \in Component(id, old) :
                                 /\ kept[m].reach = Component(id, old) \ {m}
                                 /\ kept[m].hash # ZeroHash =>
                                       m \in DOMAIN old /\ kept[m].hash = old[m].content
        BY <2>1, <1>1 DEF FilledWhole
    <2>2. PICK old \in LinkLists :
              /\ ReachOf(cache, id) = Component(id, old)
              /\ \A m \in ReachOf(cache, id) :
                    /\ cache[m].reach = ReachOf(cache, id) \ {m}
                    /\ cache[m].hash # ZeroHash => m \in DOMAIN old /\ cache[m].hash = old[m].content
        BY <1>2, EntriesAgree
    <2> QED
        BY <2>2, <1>1, <1>3
<1>6. ASSUME NEW id \in stay
      PROVE  /\ ReachOf(kept, id) \subseteq Component(id, cs)
             /\ \/ ReachOf(kept, id) = Component(id, cs)
                \/ \E c \in Linked(cs) \ DOMAIN kept : c \in Component(id, cs)
    <2> DEFINE K == ReachOf(cache, id)
    <2>1. PICK old \in LinkLists :
              /\ K = Component(id, old) /\ K \subseteq DOMAIN cache /\ ClosedIn(K, old)
              /\ \A m \in K :
                    /\ ReachOf(cache, m) = K
                    /\ Component(m, old) = Component(id, old)
                    /\ cache[m].hash # ZeroHash => m \in DOMAIN old /\ cache[m].hash = old[m].content
        BY <1>2, EntriesAgree
    <2>2. id \in K /\ K \subseteq stay
        BY <1>3 DEF ReachOf
    <2>3. id \in Ids /\ K \subseteq Ids
        BY <2>1, <2>2, <1>2 DEF FilledWhole
    <2> HIDE DEF K
    <2>4. \A m \in K : m \in DOMAIN old /\ m \in DOMAIN cs /\ old[m].content = cs[m].content
        BY <2>1, <2>2, <1>2, <1>4
    <2>5. K \subseteq Component(id, cs)
        <3> DEFINE C == Component(id, cs)
                   both == K \cap C
        <3>1. id \in C /\ ClosedIn(C, cs)
            BY <2>3, ComponentIsLeast
        <3> HIDE DEF C
        <3>2. ClosedIn(both, old)
            <4> SUFFICES ASSUME NEW x \in both, NEW y \in neighbors(x, old) PROVE y \in both
                BY DEF ClosedIn
            <4>1. y \in K
                BY <2>1 DEF ClosedIn
            <4>2. y \in neighbors(x, cs)
                BY <4>1, <2>4 DEF neighbors, extract_card_links, extract_back_links
            <4> QED
                BY <4>1, <4>2, <3>1 DEF ClosedIn
        <3>3. Component(id, old) \subseteq both
            BY <3>1, <3>2, <2>2, <2>3, ComponentIsLeast
        <3> QED
            BY <3>3, <2>1 DEF C
    <2>6. ASSUME K # Component(id, cs)
          PROVE  \E c \in Linked(cs) \ DOMAIN kept : c \in Component(id, cs)
        <3>1. ~ClosedIn(K, cs)
            BY <2>2, <2>3, <2>5, <2>6, ComponentIsLeast
        <3>8. PICK m \in K : ~(neighbors(m, cs) \subseteq K)
            BY <3>1 DEF ClosedIn
        <3>2. PICK y \in neighbors(m, cs) : y \notin K
            BY <3>8
        <3>3. y \notin extract_card_links(m, cs)
            <4>1. extract_card_links(m, cs) \subseteq neighbors(m, old)
                BY <2>4 DEF neighbors, extract_card_links
            <4> QED
                BY <4>1, <3>2, <2>1 DEF ClosedIn
        <3>4. y \in DOMAIN cs /\ m \in cs[y].content /\ y # m
            BY <3>2, <3>3 DEF neighbors, extract_back_links
        <3>5. y \in Linked(cs)
            BY <3>4, <3>2, <2>4, LinkerCounted
        <3>6. y \in Component(id, cs)
            <4>1. ClosedIn(Component(id, cs), cs)
                BY <2>3, ComponentIsLeast
            <4> QED
                BY <4>1, <3>2, <2>5 DEF ClosedIn
        <3>7. y \notin stay
            <4> SUFFICES ASSUME y \in stay PROVE FALSE
                OBVIOUS
            <4>1. PICK its \in LinkLists :
                      /\ ClosedIn(ReachOf(cache, y), its)
                      /\ \A v \in ReachOf(cache, y) :
                            /\ ReachOf(cache, v) = ReachOf(cache, y)
                            /\ cache[v].hash # ZeroHash => v \in DOMAIN its /\ cache[v].hash = its[v].content
                BY <1>2, EntriesAgree
            <4>2. y \in ReachOf(cache, y)
                BY DEF ReachOf
            <4>3. y \in DOMAIN its /\ its[y].content = cs[y].content
                BY <4>1, <4>2, <1>2, <1>4
            <4>4. m \in neighbors(y, its)
                BY <4>3, <3>4 DEF neighbors, extract_card_links
            <4>5. m \in ReachOf(cache, y)
                BY <4>1, <4>2, <4>4 DEF ClosedIn
            <4>6. ReachOf(cache, y) = K
                BY <4>1, <4>5, <2>1
            <4> QED
                BY <4>6, <4>2, <3>2
        <3> QED
            BY <3>5, <3>6, <3>7, <1>1
    <2> QED
        BY <2>5, <2>6, <1>2 DEF K
<1>7. PassMends(kept, cs, Linked(cs) \ DOMAIN kept)
    BY <1>6, <1>1 DEF PassMends
<1> QED
    BY <1>5, <1>7 DEF kept

\* What the start of a pass leaves, whether it runs, finds nothing to do or is not
\* wanted.
LEMMA PassStarts ==
    ASSUME NEW cache, NEW fingerprint, cards' \in LinkLists,
           show_list_link_counts' \in BOOLEAN, recursive_links' \in BOOLEAN,
           seen \in LinkLists, todo \subseteq Ids,
           NEW P, P = PassFrom(cache, fingerprint),
           \/ fingerprint = NoPass
           \/ /\ filled \subseteq DOMAIN cache
              /\ IF show_list_link_counts /\ recursive_links
                 THEN Linked(seen) \subseteq DOMAIN cache \cup todo
                 ELSE /\ seen = cards /\ fingerprint = Unset
                      /\ cards' = cards \/ ~(show_list_link_counts' /\ recursive_links')
    PROVE  /\ P = [cache |-> P.cache, fingerprint |-> P.fingerprint, seen |-> P.seen,
                   todo |-> P.todo, hashes |-> P.hashes, filled |-> P.filled]
           /\ P.seen \in LinkLists /\ P.todo \subseteq Ids /\ P.filled \subseteq DOMAIN P.cache
           /\ IF show_list_link_counts' /\ recursive_links'
              THEN Linked(P.seen) \subseteq DOMAIN P.cache \cup P.todo
              ELSE P.seen = cards' /\ P.fingerprint = Unset
<1> DEFINE kept == Invalidated(cache, cards')
           queued == Linked(cards') \ DOMAIN kept
           none_left == [cache |-> kept, fingerprint |-> Fingerprint(cards'), seen |-> cards',
                         todo |-> {}, hashes |-> {}, filled |-> {}]
           same == [cache |-> cache, fingerprint |-> fingerprint, seen |-> seen,
                    todo |-> todo, hashes |-> hashes, filled |-> filled]
           on == show_list_link_counts' /\ recursive_links'
<1>1. P = IF ~show_list_link_counts' \/ ~recursive_links'
          THEN [none_left EXCEPT !.cache = Empty, !.fingerprint = Unset]
          ELSE IF Fingerprint(cards') = fingerprint THEN same
          ELSE IF queued = {} THEN none_left
          ELSE [none_left EXCEPT !.todo = queued, !.hashes = DOMAIN cache \cup Linked(cards')]
    BY Zenon DEF PassFrom, Queued
<1>6. P = [cache |-> P.cache, fingerprint |-> P.fingerprint, seen |-> P.seen,
           todo |-> P.todo, hashes |-> P.hashes, filled |-> P.filled]
    <2> HIDE DEF kept, queued
    <2>1. CASE ~on
        BY <1>1, <2>1
    <2>2. CASE on /\ Fingerprint(cards') = fingerprint
        BY <1>1, <2>2
    <2>3. CASE on /\ Fingerprint(cards') # fingerprint /\ queued = {}
        BY <1>1, <2>3
    <2>4. CASE on /\ Fingerprint(cards') # fingerprint /\ queued # {}
        BY <1>1, <2>4
    <2> QED
        BY <2>1, <2>2, <2>3, <2>4
<1>2. Linked(cards') \subseteq Ids
    BY DEF Linked, LinkLists
<1>3. CASE ~on
    <2>1. P.seen = cards' /\ P.todo = {} /\ P.filled = {} /\ P.fingerprint = Unset
        BY <1>1, <1>3
    <2> QED
        BY <2>1, <1>3, <1>6
<1>4. CASE on /\ Fingerprint(cards') = fingerprint
    <2>1. fingerprint # NoPass
        BY <1>4 DEF Fingerprint, NoPass
    <2>2. P.cache = cache /\ P.seen = seen /\ P.todo = todo /\ P.filled = filled
        BY <1>1, <1>4
    <2>3. CASE show_list_link_counts /\ recursive_links
        BY <2>1, <2>2, <2>3, <1>4, <1>6
    <2>4. CASE ~(show_list_link_counts /\ recursive_links)
        <3>1. seen = cards' /\ fingerprint = Unset
            BY <2>1, <2>4, <1>4
        <3>2. Cardinality(DOMAIN cards') = 0
            BY <3>1, <1>4 DEF Fingerprint, Unset
        <3>3. DOMAIN cards' = {}
            <4>1. DOMAIN cards' \subseteq Ids
                BY DEF LinkLists
            <4> QED
                BY <4>1, <3>2, FewIds, FS_Subset, FS_EmptySet
        <3>4. Linked(seen) = {}
            BY <3>1, <3>3 DEF Linked
        <3> QED
            BY <3>4, <2>1, <2>2, <2>4, <1>4, <1>6
    <2> QED
        BY <2>3, <2>4
<1>5. CASE on /\ Fingerprint(cards') # fingerprint
    <2>1. P.cache = kept /\ P.seen = cards' /\ P.todo = queued /\ P.filled = {}
        BY <1>1, <1>5
    <2> HIDE DEF kept
    <2> QED
        BY <2>1, <1>2, <1>5, <1>6
<1> QED
    BY <1>3, <1>4, <1>5

LEMMA PassStartsRight ==
    ASSUME NEW cache, NEW fingerprint, cards' \in LinkLists,
           show_list_link_counts' \in BOOLEAN, recursive_links' \in BOOLEAN,
           NEW P, P = PassFrom(cache, fingerprint), FilledWhole(cache),
           fingerprint = NoPass \/ PassMends(cache, seen, todo \ filled)
    PROVE  FilledWhole(P.cache) /\ PassMends(P.cache, P.seen, P.todo \ P.filled)
<1> DEFINE kept == Invalidated(cache, cards')
           queued == Linked(cards') \ DOMAIN kept
           none_left == [cache |-> kept, fingerprint |-> Fingerprint(cards'), seen |-> cards',
                         todo |-> {}, hashes |-> {}, filled |-> {}]
           same == [cache |-> cache, fingerprint |-> fingerprint, seen |-> seen,
                    todo |-> todo, hashes |-> hashes, filled |-> filled]
           on == show_list_link_counts' /\ recursive_links'
<1>1. P = IF ~show_list_link_counts' \/ ~recursive_links'
          THEN [none_left EXCEPT !.cache = Empty, !.fingerprint = Unset]
          ELSE IF Fingerprint(cards') = fingerprint THEN same
          ELSE IF queued = {} THEN none_left
          ELSE [none_left EXCEPT !.todo = queued, !.hashes = DOMAIN cache \cup Linked(cards')]
    BY Zenon DEF PassFrom, Queued
<1>2. FilledWhole(kept) /\ PassMends(kept, cards', queued)
    BY InvalidationMends
<1>3. CASE ~on
    <2>1. P.cache = Empty
        BY <1>1, <1>3
    <2> QED
        BY <2>1, EmptyCache
<1>4. CASE on /\ Fingerprint(cards') = fingerprint
    <2>1. fingerprint # NoPass
        BY <1>4 DEF Fingerprint, NoPass
    <2>2. P.cache = cache /\ P.seen = seen /\ P.todo = todo /\ P.filled = filled
        BY <1>1, <1>4
    <2> QED
        BY <2>1, <2>2
<1>5. CASE on /\ Fingerprint(cards') # fingerprint
    <2>1. P.cache = kept /\ P.seen = cards' /\ P.todo \ P.filled = queued
        BY <1>1, <1>5
    <2> HIDE DEF kept, queued
    <2> QED
        BY <2>1, <1>2
<1> QED
    BY <1>3, <1>4, <1>5

\* An expansion makes its component right and disturbs no other one.
LEMMA ExpansionMends ==
    ASSUME LinksTypeOK, CacheRight, ~meddled, NEW id \in todo, id \notin filled
    PROVE  LET new == Overwrite(link_graph_cache, Filled(id))
           IN  FilledWhole(new) /\ PassMends(new, seen, (todo \ {id}) \ (filled \cup DOMAIN Filled(id)))
<1> DEFINE old == link_graph_cache
           C == Component(id, seen)
           new == Overwrite(old, Filled(id))
           K(x) == ReachOf(old, x)
<1>1. id \in Ids /\ seen \in LinkLists
    BY DEF LinksTypeOK
<1>2. FilledWhole(old) /\ PassMends(old, seen, todo \ filled) /\ DOMAIN old \subseteq Ids
    BY DEF CacheRight, FilledWhole
<1>3. C \subseteq Ids /\ id \in C /\ ClosedIn(C, seen)
    BY <1>1, ComponentIsLeast
<1>4. \A m \in C : Component(m, seen) = C
    BY <1>1, ComponentsAgree
<1>5. /\ DOMAIN Filled(id) = C
      /\ \A m \in C : /\ Filled(id)[m].reach = C \ {m}
                      /\ Filled(id)[m].hash # ZeroHash => m \in DOMAIN seen
                                                         /\ Filled(id)[m].hash = seen[m].content
    BY DEF Filled, Component, content_hash
<1>6. /\ DOMAIN new = DOMAIN old \cup C
      /\ \A m \in C : new[m] = Filled(id)[m]
      /\ \A m \in DOMAIN old \ C : new[m] = old[m]
    BY <1>5 DEF Overwrite
<1>7. ASSUME NEW z \in DOMAIN old \ C PROVE K(z) \cap C = {} /\ K(z) \subseteq DOMAIN old \ C
    <2>1. K(z) \subseteq Component(z, seen) /\ K(z) \subseteq DOMAIN old
        BY <1>2, EntriesAgree DEF PassMends
    <2>2. ASSUME NEW y \in K(z), y \in C PROVE FALSE
        <3>1. Component(y, seen) = Component(z, seen) /\ Component(y, seen) = C
            BY <1>1, <1>2, <1>4, <2>1, <2>2, ComponentsAgree
        <3>2. z \in Component(z, seen)
            BY <1>1, <1>2, ComponentIsLeast
        <3> QED
            BY <3>1, <3>2
    <2> QED
        BY <2>1, <2>2
<1> HIDE DEF C, new
<1>8. FilledWhole(new)
    <2>1. DOMAIN new \subseteq Ids
        BY <1>2, <1>3, <1>6
    <2>2. ASSUME NEW z \in C
          PROVE  \E cs \in LinkLists :
                    /\ Component(z, cs) \subseteq DOMAIN new
                    /\ \A m \in Component(z, cs) :
                          /\ new[m].reach = Component(z, cs) \ {m}
                          /\ new[m].hash # ZeroHash => m \in DOMAIN cs /\ new[m].hash = cs[m].content
        BY <1>1, <1>4, <1>5, <1>6
    <2>3. ASSUME NEW z \in DOMAIN old \ C
          PROVE  \E cs \in LinkLists :
                    /\ Component(z, cs) \subseteq DOMAIN new
                    /\ \A m \in Component(z, cs) :
                          /\ new[m].reach = Component(z, cs) \ {m}
                          /\ new[m].hash # ZeroHash => m \in DOMAIN cs /\ new[m].hash = cs[m].content
        <3>1. PICK cs \in LinkLists :
                  /\ K(z) = Component(z, cs)
                  /\ \A m \in K(z) :
                        /\ old[m].reach = K(z) \ {m}
                        /\ old[m].hash # ZeroHash => m \in DOMAIN cs /\ old[m].hash = cs[m].content
            BY <1>2, EntriesAgree
        <3>2. \A m \in K(z) : new[m] = old[m] /\ m \in DOMAIN new
            BY <1>6, <1>7
        <3> HIDE DEF K
        <3> QED
            BY <3>1, <3>2
    <2> QED
        BY <2>1, <2>2, <2>3, <1>6 DEF FilledWhole
<1>9. PassMends(new, seen, (todo \ {id}) \ (filled \cup DOMAIN Filled(id)))
    <2>1. ASSUME NEW z \in C PROVE ReachOf(new, z) = Component(z, seen)
        BY <1>4, <1>5, <1>6 DEF ReachOf
    <2>2. ASSUME NEW z \in DOMAIN old \ C
          PROVE  /\ ReachOf(new, z) \subseteq Component(z, seen)
                 /\ \/ ReachOf(new, z) = Component(z, seen)
                    \/ \E c \in (todo \ {id}) \ (filled \cup DOMAIN Filled(id)) : c \in Component(z, seen)
        <3>1. ReachOf(new, z) = K(z)
            BY <1>6 DEF ReachOf
        <3>2. /\ K(z) \subseteq Component(z, seen)
              /\ K(z) = Component(z, seen) \/ \E c \in todo \ filled : c \in Component(z, seen)
            BY <1>2 DEF PassMends
        <3>3. z \in Component(z, seen) /\ z \in Ids
            BY <1>1, <1>2, ComponentIsLeast
        <3>4. ASSUME NEW c \in todo \ filled, c \in Component(z, seen)
              PROVE  c \in (todo \ {id}) \ (filled \cup DOMAIN Filled(id))
            <4>1. Component(c, seen) = Component(z, seen)
                BY <3>3, <3>4, <1>1, ComponentsAgree
            <4>2. c \notin C
                BY <4>1, <3>3, <1>4
            <4> QED
                BY <4>2, <1>3, <1>5
        <3> QED
            BY <3>1, <3>2, <3>4
    <2> QED
        BY <2>1, <2>2, <1>6 DEF PassMends
<1> QED
    BY <1>8, <1>9 DEF new

LEMMA LinksInitRight == LinksInit => LinksInv
<1> SUFFICES ASSUME LinksInit PROVE LinksInv
    OBVIOUS
<1> USE DEF LinksInit
<1>1. cards \in LinkLists
    <2>3. PICK ids \in Sessions : \E f \in [ids -> SUBSET Ids] :
              cards = [id \in ids |-> [content |-> f[id], count |-> 1]]
        OBVIOUS
    <2>1. PICK f \in [ids -> SUBSET Ids] : cards = [id \in ids |-> [content |-> f[id], count |-> 1]]
        BY <2>3
    <2>2. ids \in SUBSET Ids
        BY SessionsAreCards
    <2> QED
        BY <2>1, <2>2 DEF LinkLists
<1>2. Linked(cards) \subseteq Ids
    BY <1>1 DEF Linked, LinkLists
<1>3. LinksTypeOK
    BY <1>1, <1>2 DEF LinksTypeOK
<1>4. LinkedServed
    BY DEF LinkedServed
<1>5. CacheRight
    BY EmptyCache DEF CacheRight
<1> QED
    BY <1>3, <1>4, <1>5 DEF LinksInv

\* The list as an action of Links leaves it.
LEMMA ListsStayLists ==
    ASSUME LinksTypeOK, NEW id \in Ids, NEW content \in SUBSET Ids, NEW S
    PROVE  /\ \A n \in Nat : With(id, content, n) \in LinkLists
           /\ S \subseteq DOMAIN cards => Restrict(cards, S) \in LinkLists
           /\ S \subseteq DOMAIN cards \cup {id} => Restrict(With(id, content, 1), S) \in LinkLists
           /\ id \in DOMAIN cards => cards[id].count \in Nat
<1>1. DOMAIN cards \subseteq Ids /\ \A x \in DOMAIN cards : cards[x] \in [content: SUBSET Ids, count: Nat]
    BY DEF LinksTypeOK, LinkLists
<1>2. ASSUME NEW n \in Nat
      PROVE  With(id, content, n) \in [DOMAIN cards \cup {id} -> [content: SUBSET Ids, count: Nat]]
    BY <1>1 DEF With, Overwrite
<1>3. ASSUME NEW T \in SUBSET Ids, NEW f \in [T -> [content: SUBSET Ids, count: Nat]], S \subseteq T
      PROVE  Restrict(f, S) \in LinkLists
    <2>1. Restrict(f, S) \in [S -> [content: SUBSET Ids, count: Nat]]
        BY <1>3 DEF Restrict
    <2> QED
        BY <2>1, <1>3 DEF LinkLists
<1>4. cards \in [DOMAIN cards -> [content: SUBSET Ids, count: Nat]]
    BY DEF LinksTypeOK, LinkLists
<1>5. \A n \in Nat : With(id, content, n) \in LinkLists
    <2>1. DOMAIN cards \cup {id} \in SUBSET Ids
        BY <1>1
    <2> QED
        BY <2>1, <1>2 DEF LinkLists
<1>6. S \subseteq DOMAIN cards => Restrict(cards, S) \in LinkLists
    BY <1>1, <1>3, <1>4
<1>7. S \subseteq DOMAIN cards \cup {id} => Restrict(With(id, content, 1), S) \in LinkLists
    <2>1. DOMAIN cards \cup {id} \in SUBSET Ids
        BY <1>1
    <2>2. With(id, content, 1) \in [DOMAIN cards \cup {id} -> [content: SUBSET Ids, count: Nat]]
        BY <1>2
    <2> QED
        BY <2>1, <2>2, <1>3
<1>8. id \in DOMAIN cards => cards[id].count \in Nat
    BY <1>1
<1> QED
    BY <1>5, <1>6, <1>7, <1>8

\* A pass that starts on the cache there is.
LEMMA PassKeepsInv ==
    ASSUME LinksInv, cards' \in LinkLists, show_list_link_counts' \in BOOLEAN,
           recursive_links' \in BOOLEAN, meddled' = meddled,
           Become(PassFrom(link_graph_cache, last_fingerprint)),
           \/ disk' = disk
           \/ disk' = [disk EXCEPT !.cache = Empty],
           \/ cards' = cards
           \/ show_list_link_counts' = show_list_link_counts /\ recursive_links' = recursive_links
    PROVE  LinksInv'
<1> DEFINE P == PassFrom(link_graph_cache, last_fingerprint)
<1> USE DEF LinksInv, LinksTypeOK
<1>1. /\ P = [cache |-> P.cache, fingerprint |-> P.fingerprint, seen |-> P.seen,
              todo |-> P.todo, hashes |-> P.hashes, filled |-> P.filled]
      /\ P.seen \in LinkLists /\ P.todo \subseteq Ids /\ P.filled \subseteq DOMAIN P.cache
      /\ IF show_list_link_counts' /\ recursive_links'
         THEN Linked(P.seen) \subseteq DOMAIN P.cache \cup P.todo
         ELSE P.seen = cards' /\ P.fingerprint = Unset
    <2>1. /\ filled \subseteq DOMAIN link_graph_cache
          /\ IF show_list_link_counts /\ recursive_links
             THEN Linked(seen) \subseteq DOMAIN link_graph_cache \cup todo
             ELSE /\ seen = cards /\ last_fingerprint = Unset
                  /\ cards' = cards \/ ~(show_list_link_counts' /\ recursive_links')
        BY DEF LinkedServed
    <2> HIDE DEF P
    <2> QED
        BY <2>1, PassStarts DEF P
<1>2. ~meddled => FilledWhole(P.cache) /\ PassMends(P.cache, P.seen, P.todo \ P.filled)
    BY PassStartsRight DEF CacheRight
<1>3. /\ link_graph_cache' = P.cache /\ last_fingerprint' = P.fingerprint /\ seen' = P.seen
      /\ todo' = P.todo /\ filled' = P.filled
    BY DEF Become
<1> HIDE DEF P
<1>4. disk' = [cards |-> disk'.cards, cache |-> disk'.cache] /\ disk'.cards = disk.cards
      /\ disk'.cache \in {disk.cache, Empty}
    OBVIOUS
<1>5. LinksTypeOK'
    BY <1>1, <1>3, <1>4
<1>6. LinkedServed'
    BY <1>1, <1>3 DEF LinkedServed
<1>7. CacheRight'
    BY <1>2, <1>3, <1>4, EmptyCache DEF CacheRight
<1> QED
    BY <1>5, <1>6, <1>7

LEMMA RestartKeepsInv ==
    ASSUME LinksInv, Restart
    PROVE  LinksInv'
<1> DEFINE cache == IF disk.cards = Empty THEN Empty ELSE disk.cache
           P == PassFrom(cache, NoPass)
           last == IF disk.cards = Empty THEN Unset ELSE P.fingerprint
<1> USE DEF LinksInv, LinksTypeOK, Restart
<1>0. /\ cards' = disk.cards /\ cards' \in LinkLists /\ disk' = [disk EXCEPT !.cache = cache]
      /\ show_list_link_counts' \in BOOLEAN /\ recursive_links' \in BOOLEAN /\ meddled' = meddled
    OBVIOUS
<1>8. Become([P EXCEPT !.fingerprint = last])
    OBVIOUS
<1> HIDE DEF Restart
<1>1. /\ P = [cache |-> P.cache, fingerprint |-> P.fingerprint, seen |-> P.seen,
              todo |-> P.todo, hashes |-> P.hashes, filled |-> P.filled]
      /\ P.seen \in LinkLists /\ P.todo \subseteq Ids /\ P.filled \subseteq DOMAIN P.cache
      /\ IF show_list_link_counts' /\ recursive_links'
         THEN Linked(P.seen) \subseteq DOMAIN P.cache \cup P.todo
         ELSE P.seen = cards' /\ P.fingerprint = Unset
    <2> HIDE DEF cache, P
    <2> QED
        BY <1>0, PassStarts DEF P
<1>2. ~meddled => FilledWhole(cache) /\ FilledWhole(P.cache) /\ PassMends(P.cache, P.seen, P.todo \ P.filled)
    <2>1. ~meddled => FilledWhole(cache)
        BY EmptyCache DEF CacheRight
    <2> HIDE DEF cache, P
    <2> QED
        BY <2>1, <1>0, PassStartsRight DEF P
<1> HIDE DEF P
<1>3. /\ link_graph_cache' = P.cache /\ last_fingerprint' = last /\ seen' = P.seen
      /\ todo' = P.todo /\ filled' = P.filled
    BY <1>1, <1>8 DEF Become
<1>4. disk' = [cards |-> disk'.cards, cache |-> disk'.cache] /\ disk'.cards = disk.cards
      /\ disk'.cache = cache
    BY <1>0
<1> HIDE DEF cache
<1>5. LinksTypeOK'
    BY <1>0, <1>1, <1>3, <1>4
<1>6. LinkedServed'
    BY <1>1, <1>3 DEF LinkedServed
<1>7. CacheRight'
    BY <1>0, <1>2, <1>3, <1>4 DEF CacheRight
<1> QED
    BY <1>5, <1>6, <1>7

LEMMA ExpansionKeepsInv ==
    ASSUME LinksInv, NEW id \in Ids, IdleCallback(id)
    PROVE  LinksInv'
<1> USE DEF LinksInv
<1>1. /\ id \in todo /\ todo' = todo \ {id}
      /\ cards' = cards /\ seen' = seen /\ last_fingerprint' = last_fingerprint /\ meddled' = meddled
      /\ show_list_link_counts' = show_list_link_counts /\ recursive_links' = recursive_links
    BY DEF IdleCallback
<1>2. CASE id \in filled
    <2>1. link_graph_cache' = link_graph_cache /\ filled' = filled /\ disk' = disk
        BY <1>2 DEF IdleCallback
    <2>2. LinksTypeOK'
        BY <1>1, <2>1 DEF LinksTypeOK
    <2>3. LinkedServed'
        BY <1>1, <1>2, <2>1 DEF LinkedServed
    <2>4. todo' \ filled' = todo \ filled
        BY <1>1, <1>2, <2>1
    <2>5. CacheRight'
        BY <1>1, <2>1, <2>4 DEF CacheRight
    <2> QED
        BY <2>2, <2>3, <2>5
<1>3. CASE id \notin filled
    <2> DEFINE new == Overwrite(link_graph_cache, Filled(id))
    <2>1. /\ link_graph_cache' = new /\ filled' = filled \cup DOMAIN Filled(id)
          /\ disk' \in {disk, [disk EXCEPT !.cache = link_graph_cache']}
        BY <1>3 DEF IdleCallback
    <2>2. disk' = [cards |-> disk'.cards, cache |-> disk'.cache] /\ disk'.cards = disk.cards
          /\ disk'.cache \in {disk.cache, new}
        BY <2>1 DEF LinksTypeOK
    <2>3. LinksTypeOK'
        BY <1>1, <2>2 DEF LinksTypeOK
    <2>4. DOMAIN new = DOMAIN link_graph_cache \cup DOMAIN Filled(id)
        BY DEF Overwrite
    <2>5. id \in DOMAIN Filled(id)
        BY DEF Filled
    <2>6. ~meddled => FilledWhole(new) /\ PassMends(new, seen, (todo \ {id}) \ (filled \cup DOMAIN Filled(id)))
        BY <1>1, <1>3, ExpansionMends
    <2> HIDE DEF new
    <2>7. LinkedServed'
        BY <1>1, <2>1, <2>4, <2>5 DEF LinkedServed
    <2>8. CacheRight'
        BY <1>1, <2>1, <2>2, <2>6 DEF CacheRight
    <2> QED
        BY <2>3, <2>7, <2>8
<1> QED
    BY <1>2, <1>3

LEMMA LinksStep ==
    ASSUME LinksInv, [LinksNext]_linkVars
    PROVE  LinksInv'
<1>1. ASSUME NEW id \in Ids, IdleCallback(id) PROVE LinksInv'
    BY <1>1, ExpansionKeepsInv
<1>2. ASSUME NEW id \in Ids, OpenDetail(id) PROVE LinksInv'
    <2>1. /\ meddled' = TRUE /\ DOMAIN link_graph_cache \subseteq DOMAIN link_graph_cache'
          /\ UNCHANGED <<show_list_link_counts, recursive_links, last_fingerprint, seen, todo, filled,
                         hashes, disk, cards>>
        BY <1>2 DEF OpenDetail, Section, Overwrite
    <2>2. LinksTypeOK'
        BY <2>1 DEF LinksInv, LinksTypeOK
    <2>3. LinkedServed'
        BY <2>1 DEF LinksInv, LinkedServed
    <2>4. CacheRight'
        BY <2>1 DEF CacheRight
    <2> QED
        BY <2>2, <2>3, <2>4 DEF LinksInv
<1>3. ASSUME NEW cs \in LinkLists, Change(cs) PROVE LinksInv'
    BY <1>3, PassKeepsInv DEF Change, LinksInv, LinksTypeOK
<1>4. ASSUME NEW id \in Ids, NEW content \in LinkSets(id),
             Edit(id, content) \/ Appear(id, content)
      PROVE  LinksInv'
    <2>1. LinksTypeOK /\ content \in SUBSET Ids
        BY DEF LinksInv, LinkSets
    <2>3. CASE Edit(id, content)
        <3>1. With(id, content, cards[id].count + 1) \in LinkLists
            <4>1. cards[id].count \in Nat
                BY <2>1, <2>3, ListsStayLists DEF Edit
            <4>2. \A n \in Nat : With(id, content, n) \in LinkLists
                BY <2>1, ListsStayLists
            <4>3. cards[id].count + 1 \in Nat
                BY <4>1
            <4> QED
                BY <4>2, <4>3
        <3> QED
            BY <2>3, <3>1, <1>3 DEF Edit
    <2>4. CASE Appear(id, content)
        <3>1. With(id, content, 1) \in LinkLists
            BY <2>1, ListsStayLists
        <3> QED
            BY <2>4, <3>1, <1>3 DEF Appear
    <2> QED
        BY <1>4, <2>3, <2>4
<1>5. ASSUME NEW id \in Ids, NEW new \in Ids, NEW content \in LinkSets(new), Replace(id, new, content)
      PROVE  LinksInv'
    <2>1. LinksTypeOK /\ content \in SUBSET Ids
        BY DEF LinksInv, LinkSets
    <2>2. Restrict(With(new, content, 1), (DOMAIN cards \ {id}) \cup {new}) \in LinkLists
        BY <2>1, ListsStayLists
    <2> QED
        BY <1>5, <2>2, <1>3 DEF Replace
<1>6. ASSUME SaveCards PROVE LinksInv'
    <2>1. /\ disk' = [disk EXCEPT !.cards = cards]
          /\ UNCHANGED <<cards, show_list_link_counts, recursive_links, link_graph_cache,
                         last_fingerprint, seen, todo, filled, meddled>>
        BY <1>6 DEF SaveCards
    <2>2. LinksTypeOK' /\ disk'.cache = disk.cache
        BY <2>1 DEF LinksInv, LinksTypeOK
    <2>3. LinkedServed'
        BY <2>1 DEF LinksInv, LinkedServed
    <2>4. CacheRight'
        BY <2>1, <2>2 DEF LinksInv, CacheRight
    <2> QED
        BY <2>2, <2>3, <2>4 DEF LinksInv
<1>7. ASSUME ToggleCounts \/ ToggleRecursive PROVE LinksInv'
    <2>1. /\ cards' = cards /\ meddled' = meddled
          /\ disk' = disk \/ disk' = [disk EXCEPT !.cache = Empty]
          /\ Become(PassFrom(link_graph_cache, last_fingerprint))
          /\ show_list_link_counts' \in BOOLEAN /\ recursive_links' \in BOOLEAN
        BY <1>7 DEF ToggleCounts, ToggleRecursive, Forget, LinksInv, LinksTypeOK
    <2>2. cards' \in LinkLists
        BY <2>1 DEF LinksInv, LinksTypeOK
    <2> QED
        BY <2>1, <2>2, PassKeepsInv
<1>8. ASSUME Restart PROVE LinksInv'
    BY <1>8, RestartKeepsInv
<1>9. ASSUME UNCHANGED linkVars PROVE LinksInv'
    BY <1>9 DEF linkVars, LinksInv, LinksTypeOK, LinkedServed, CacheRight
<1>10. ASSUME NEW id \in Ids, RemoveCard(id) PROVE LinksInv'
    <2>1. Restrict(cards, DOMAIN cards \ {id}) \in LinkLists
        <3>1. LinksTypeOK /\ {} \in SUBSET Ids
            BY DEF LinksInv
        <3> QED
            BY <3>1, ListsStayLists
    <2> QED
        BY <1>10, <2>1, <1>3 DEF RemoveCard
<1> QED
    BY <1>1, <1>2, <1>4, <1>5, <1>6, <1>7, <1>8, <1>9, <1>10 DEF LinksNext

LEMMA LinksInvFresh == LinksInv => PassLeavesFresh
<1> SUFFICES ASSUME LinksInv PROVE PassLeavesFresh
    OBVIOUS
<1>1. ASSUME todo = {}, seen = cards, ~meddled, NEW id \in DOMAIN link_graph_cache
      PROVE  Fresh(id)
    <2>1. ReachOf(link_graph_cache, id) = Component(id, cards)
        BY <1>1 DEF LinksInv, CacheRight, PassMends
    <2>2. link_graph_cache[id].reach = ReachOf(link_graph_cache, id) \ {id} /\ id \in Ids
        BY <1>1, EntriesAgree DEF LinksInv, CacheRight, FilledWhole
    <2>3. expand_linked_cards(id, cards) = Component(id, cards) \ {id}
        BY <2>2, ComponentIsLeast DEF LinksInv, LinksTypeOK
    <2> QED
        BY <2>1, <2>2, <2>3 DEF Fresh
<1>2. show_list_link_counts /\ recursive_links /\ todo = {} /\ seen = cards =>
          Linked(cards) \subseteq DOMAIN link_graph_cache
    BY DEF LinksInv, LinkedServed
<1> QED
    BY <1>1, <1>2 DEF PassLeavesFresh

\* A pass that is through and has seen the cards there are has left no stale entry
\* and no linked card without one, after any edits, arrivals, removals, cancelled
\* passes, restarts and settings (card_list.rs).
THEOREM PassesLeaveFresh == LinksSpec => []PassLeavesFresh
<1>1. LinksInit => LinksInv
    BY LinksInitRight
<1>2. LinksInv /\ [LinksNext]_linkVars => LinksInv'
    BY LinksStep
<1>3. LinksInv => PassLeavesFresh
    BY LinksInvFresh
<1> QED
    BY <1>1, <1>2, <1>3, PTL DEF LinksSpec
=============================================================================
