------------------------------- MODULE Filter -------------------------------
(***************************************************************************)
(* Which cards the list shows and in which order (clients/lib/src/         *)
(* filter.rs), and how due dates are named (clients/lib/src/due_date.rs).  *)
(*                                                                         *)
(* A card is reduced to what the filters tell apart: whether it is blazed, *)
(* its tags, its due day (NoDay if it has none) and the time of that day,  *)
(* whether its content and which of the titles of its tags contain the     *)
(* query, and its keys to sort by.  A day is a number; Monday is a         *)
(* multiple of 7.                                                          *)
(***************************************************************************)
EXTENDS Integers, Sequences, SequencesExt, FiniteSetsExt, Queues

CONSTANTS today,          \* today's day
          NoDay           \* no due date

ASSUME TodayIsADay == today \in Int

CardFilters == {"All", "Blazed", "Extinguished"}
DueDateFilters == {"All", "Overdue", "Today", "TodayAndUpcoming", "UpcomingTomorrow",
                   "TodayAndTomorrow", "UpcomingWeek", "UpcomingTwoWeeks"}
TagFilterModes == {"Or", "And", "Nor", "Nand"}
SortOrders == {"Priority", "PriorityReverse", "ModifiedAt", "ModifiedAtReverse", "CreatedAt",
               "CreatedAtReverse", "Title", "TitleReverse", "DueDate", "DueDateReverse"}

allows_no_tags(mode) == mode = "Or"

\* What a click on the mode button makes of it.
next_mode == [Or |-> "And", And |-> "Nor", Nor |-> "Nand", Nand |-> "Or"]

-----------------------------------------------------------------------------
(* The stages of the pipeline *)

retain(cards, Keep(_)) == Retained(cards, {i \in DOMAIN cards : Keep(cards[i])})

apply_linked_card_filter(cards, linked_ids) ==
    IF linked_ids = {} THEN cards ELSE retain(cards, LAMBDA c : c.id \in linked_ids)

Blaze(filter, c) == filter = "All" \/ c.blazed = (filter = "Blazed")
apply_blaze_filter(cards, filter) == retain(cards, LAMBDA c : Blaze(filter, c))

\* The titles are those of the tags that exist.
apply_search_filter(cards, query, search_tags) ==
    IF ~query THEN cards
    ELSE retain(cards, LAMBDA c : c.content_hit \/ (search_tags /\ c.tags \cap c.title_hits # {}))

Tagged(c, selected, mode) ==
    CASE mode = "Or"   -> c.tags \cap selected # {}
      [] mode = "And"  -> selected \subseteq c.tags
      [] mode = "Nor"  -> c.tags \cap selected = {}
      [] mode = "Nand" -> ~(selected \subseteq c.tags)

apply_tag_filter(cards, selected, mode, no_tags) ==
    IF selected = {} /\ ~no_tags THEN cards
    ELSE retain(cards, LAMBDA c : \/ no_tags /\ c.tags = {}
                                  \/ selected # {} /\ Tagged(c, selected, mode))

\* The half-open windows [first, end) of the filters that have an end.
Window(filter) ==
    CASE filter = "Today"            -> today .. today
      [] filter = "UpcomingTomorrow" -> today + 1 .. today + 1
      [] filter = "TodayAndTomorrow" -> today .. today + 1
      [] filter = "UpcomingWeek"     -> today .. today + 6
      [] filter = "UpcomingTwoWeeks" -> today .. today + 13

\* Mutant: without an end, the window reaches back as well.
DueInclusive(filter, day, include_overdue) ==
    CASE filter = "Overdue"          -> day <= today
      [] filter = "TodayAndUpcoming" -> TRUE
      [] OTHER                       -> day \in Window(filter) \/ day < today

Due(filter, day, include_overdue) ==
    CASE filter = "Overdue"          -> day < today
      [] filter = "TodayAndUpcoming" -> day >= today \/ include_overdue
      [] OTHER                       -> day \in Window(filter) \/ (include_overdue /\ day < today)

apply_due_date_filter(cards, filter, include_overdue) ==
    IF filter = "All" THEN cards
    ELSE retain(cards, LAMBDA c : c.due_date # NoDay /\ Due(filter, c.due_date, include_overdue))

\* Every stage in its order.
filtered(cards, v) ==
    apply_due_date_filter(
        apply_tag_filter(
            apply_search_filter(
                apply_blaze_filter(apply_linked_card_filter(cards, v.linked), v.filter),
                v.query, v.search_tags),
            v.tags, v.mode, v.no_tags),
        v.due, v.include_overdue)

\* The filters know days; the sort compares times.
Earlier(a, b) == \/ a.due_date < b.due_date
                 \/ a.due_date = b.due_date /\ a.due_time < b.due_time
SameDue(a, b) == a.due_date = b.due_date /\ (a.due_date # NoDay => a.due_time = b.due_time)

\* The cards without a date come last in either direction.
DueBefore(a, b, reverse) ==
    IF a.due_date = NoDay \/ b.due_date = NoDay THEN a.due_date # NoDay /\ b.due_date = NoDay
    ELSE IF reverse THEN Earlier(b, a) ELSE Earlier(a, b)

Before(order, a, b) ==
    CASE order = "Priority"          -> a.priority > b.priority
      [] order = "PriorityReverse"   -> a.priority < b.priority
      [] order = "ModifiedAt"        -> a.modified_at > b.modified_at
      [] order = "ModifiedAtReverse" -> a.modified_at < b.modified_at
      [] order = "CreatedAt"         -> a.created_at > b.created_at
      [] order = "CreatedAtReverse"  -> a.created_at < b.created_at
      [] order = "Title"             -> a.title < b.title
      [] order = "TitleReverse"      -> a.title > b.title
      [] OTHER -> LET reverse == order = "DueDateReverse"
                  IN  \/ DueBefore(a, b, reverse)
                      \/ ~DueBefore(b, a, reverse) /\ a.priority > b.priority

\* The lists sort_cards may leave: the order of equal cards is the algorithm's.
sort_cards(cards, order) ==
    {sorted \in {[i \in DOMAIN cards |-> cards[p[i]]] : p \in SetToSeqs(DOMAIN cards)} :
        \A i, j \in DOMAIN cards : i < j => ~Before(order, sorted[j], sorted[i])}

-----------------------------------------------------------------------------
(* Due dates *)

due_date_status(day) ==
    IF day < today THEN [kind |-> "Overdue", days |-> today - day]
    ELSE IF day = today THEN [kind |-> "Today", days |-> 0]
    ELSE [kind |-> "Upcoming", days |-> day - today]

\* The badge, as the words it chooses between.
format_due_date_badge(day) ==
    LET status == due_date_status(day)
    IN  IF status.kind = "Upcoming" /\ status.days = 1 THEN [kind |-> "tomorrow", days |-> 1]
        ELSE status

WeekdayOf(day) == day % 7
next_weekday(weekday) ==
    LET days_ahead == (weekday + 7 - WeekdayOf(today)) % 7
    IN  today + (IF days_ahead = 0 THEN 7 ELSE days_ahead)

\* The quick picks: three days counted from today, or a weekday.
Presets == {"Today", "Tomorrow", "InTwoDays"} \cup (0 .. 6)
resolve(preset) ==
    CASE preset = "Today"     -> today
      [] preset = "Tomorrow"  -> today + 1
      [] preset = "InTwoDays" -> today + 2
      [] OTHER                -> next_weekday(preset)
=============================================================================
