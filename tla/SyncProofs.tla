----------------------------- MODULE SyncProofs -----------------------------
(***************************************************************************)
(* The client's list and its offline queue against the server, for every   *)
(* set of cards and priorities and every bound: what is shown of a card    *)
(* the user never saved is the server's or will be fetched, and no edit    *)
(* made offline leaves the queue unless the server took it or the client   *)
(* decided to give it up.                                                  *)
(***************************************************************************)
EXTENDS Sync, QueuesProofs

-----------------------------------------------------------------------------
(* Places, tasks and types *)

Places == {"idle", "down", "push", "pushRebased", "pushRecreated", "delete", "sync", "synced",
           "flushed", "subscribe", "listen"} \cup FlushSteps
Retries == {"pushRebased", "pushRecreated", "flushRetry", "flushRebased", "flushRecreated"}
NoWait  == {"idle", "down", "synced", "flushed", "listen"}

\* The versions that edits of this user have made.
Items == {c \in Card : c.version # Absent /\ latest[c.id] # 0}

SameEdit(c, d) == c.id = d.id /\ Tip(c.version).by = Tip(d.version).by

\* What a task asks follows from where it waits.
Asks(r, items) ==
    /\ r.pc \in NoWait => r.request = NoRequest
    /\ r.pc \in {"push", "flush"} => r.card \in items /\ r.request = Push(r.card)
    /\ r.pc \in Retries \cup {"flushGet"} =>
          r.card \in items /\ r.retry \in items /\ SameEdit(r.retry, r.card)
    /\ r.pc \in Retries => r.request = Push(r.retry)
    /\ r.pc = "flushGet" => r.request = [op |-> "get", id |-> r.card.id]
    /\ r.pc = "delete" => r.request = [op |-> "delete", id |-> r.card.id]
    /\ r.pc = "sync" => r.request.op \in {"all", "since"}
    /\ r.pc = "subscribe" => r.request = [op |-> "subscribe"]

\* What is answered fits what was asked, and what it reports has happened.
Answers(q, a, took, gone, seq) ==
    /\ q.op = "push" =>
          /\ a.kind = "Ok" => Tip(q.card.version).by \in took
          /\ a.kind = "AncestorMismatch" => a.version \in Version
    /\ q.op = "get" => (a.kind = "Ok" => a.version \in Version)
    /\ q.op = "delete" => (a.kind = "Ok" => q.id \in gone)
    /\ q.op \in {"all", "since"} =>
          (a.kind = "Ok" =>
              /\ a.root \in 0 .. seq
              /\ a.cards \in [Ids -> Version] /\ a.deleted \in SUBSET Ids)

TaskFits(r, items, took, gone, seq) ==
    /\ r \in TaskType
    /\ EntriesOf(r.todo) \subseteq items /\ EntriesOf(r.remaining) \subseteq items
    /\ Asks(r, items) /\ Answers(r.request, r.reply, took, gone, seq)

\* The server: a card that is not there was never made or is a tombstone.
ServerInv ==
    /\ \A id \in Ids : stamp[id] <= sequence
    /\ \A id \in Ids : chain[id] # Absent <=> stamp[id] # 0 /\ id \notin deleted

TInv ==
    /\ SyncTypeOK /\ edits \in 0 .. MaxEdits /\ remote \in Nat
    /\ ServerInv
    /\ EntriesOf(offline_queue) \subseteq Items
    /\ \A t \in Tasks : TaskFits(task[t], Items, landed, deleted, sequence)

-----------------------------------------------------------------------------
(* Versions, cards and requests *)

LEMMA VersionAppend ==
    ASSUME NEW v \in Version, NEW b \in Body
    PROVE  /\ Append(v, b) \in Version /\ Append(v, b) # Absent
           /\ Tip(Append(v, b)) = b
BY DEF Version, Absent, Tip

LEMMA TipTyped ==
    ASSUME NEW v \in Version, v # Absent PROVE Tip(v) \in Body
BY DEF Version, Absent, Tip

LEMMA RebuildFits ==
    ASSUME NEW card \in Items, NEW p \in Priorities, NEW v \in Version
    PROVE  rebuild_card(card, p, v) \in Items /\ SameEdit(rebuild_card(card, p, v), card)
<1> DEFINE b == [Tip(card.version) EXCEPT !.priority = p]
<1>1. card \in Card /\ card.version \in Version /\ card.version # Absent /\ card.id \in Ids
    BY DEF Items, Card
<1>2. Tip(card.version) \in Body
    BY <1>1, TipTyped
<1>3. b \in Body /\ b.by = Tip(card.version).by
    BY <1>2 DEF Body
<1> HIDE DEF b
<1>4. Append(v, b) \in Version /\ Append(v, b) # Absent /\ Tip(Append(v, b)) = b
    BY <1>3, VersionAppend
<1>5. rebuild_card(card, p, v) = [card EXCEPT !.version = Append(v, b)]
    BY DEF rebuild_card, b
<1>6. /\ rebuild_card(card, p, v) \in Card
      /\ rebuild_card(card, p, v).id = card.id
      /\ rebuild_card(card, p, v).version = Append(v, b)
    BY <1>1, <1>4, <1>5 DEF Card
<1> QED
    BY <1>1, <1>3, <1>4, <1>6 DEF Items, SameEdit

\* A request that is sent waits, or has failed already.
LEMMA SendFits ==
    ASSUME NEW r \in TaskType, NEW pc \in Places, NEW q \in RequestType
    PROVE  LET s == Send(r, pc, q)
           IN  /\ s \in TaskType
               /\ s.pc = pc /\ s.request = q
               /\ s.reply = Pending \/ s.reply = Lost
               /\ s.card = r.card /\ s.retry = r.retry /\ s.after = r.after /\ s.live = r.live
               /\ s.todo = r.todo /\ s.remaining = r.remaining
<1>1. Pending \in ReplyType /\ Lost \in ReplyType
    BY DEF ReplyType, Pending, Lost
<1> QED
    BY <1>1 DEF Send, TaskType, Places

LEMMA RequestsTyped ==
    /\ \A c \in Card : Push(c) \in RequestType
    /\ \A id \in Ids : [op |-> "get", id |-> id] \in RequestType
    /\ \A id \in Ids : [op |-> "delete", id |-> id] \in RequestType
    /\ [op |-> "subscribe"] \in RequestType /\ NoRequest \in RequestType
    /\ \A s \in Nat : [op |-> "since", sequence |-> s] \in RequestType
    /\ [op |-> "all"] \in RequestType
BY DEF RequestType, Push

\* An answer that is not there yet fits every request.
LEMMA NoAnswerFits ==
    ASSUME NEW q, NEW a \in {Pending, Lost}, NEW took, NEW gone, NEW seq
    PROVE  Answers(q, a, took, gone, seq)
BY DEF Answers, Pending, Lost

LEMMA IdleFits ==
    /\ NoCard \in Card
    /\ IdleTask \in TaskType
    /\ \A items, took, gone, seq :
          /\ TaskFits(IdleTask, items, took, gone, seq)
          /\ TaskFits([IdleTask EXCEPT !.pc = "down"], items, took, gone, seq)
<1>1. NoCard \in Card
    BY SomeId DEF NoCard, Card, Absent, Version
<1> DEFINE idle == IdleTask
           down == [IdleTask EXCEPT !.pc = "down"]
           Rests(r) == /\ r.pc \in {"idle", "down"} /\ r.request = NoRequest /\ r.reply = Pending
                       /\ r.todo = << >> /\ r.remaining = << >>
<1>2. << >> \in Seq(Card) /\ Pending \in ReplyType /\ NoRequest \in RequestType
    BY DEF ReplyType, RequestType
<1>3. idle \in TaskType /\ Rests(idle)
    BY <1>1, <1>2 DEF IdleTask, TaskType
<1> HIDE DEF idle
<1>4. down = [idle EXCEPT !.pc = "down"]
    BY DEF idle
<1>5. down \in TaskType /\ Rests(down)
    BY <1>3, <1>4 DEF TaskType
<1> HIDE DEF down
<1>6. EntriesOf(<< >>) = {}
    BY DEF EntriesOf
<1>7. ASSUME NEW r \in TaskType, Rests(r), NEW items, NEW took, NEW gone, NEW seq
      PROVE  TaskFits(r, items, took, gone, seq)
    <2>1. Answers(r.request, r.reply, took, gone, seq)
        BY <1>7, NoAnswerFits
    <2>2. Asks(r, items)
        BY <1>7 DEF Asks, NoWait, Retries
    <2> QED
        BY <2>1, <2>2, <1>6, <1>7 DEF TaskFits
<1> HIDE DEF Rests
<1>8. \A items, took, gone, seq :
          TaskFits(idle, items, took, gone, seq) /\ TaskFits(down, items, took, gone, seq)
    BY <1>3, <1>5, <1>7
<1> QED
    BY <1>1, <1>3, <1>8 DEF idle, down

\* What fits goes on to fit while the user edits and the server goes on.
LEMMA FitsLater ==
    ASSUME NEW r, NEW items, NEW took, NEW gone, NEW seq \in Nat,
           NEW items2, NEW took2, NEW gone2, NEW seq2 \in Nat,
           items \subseteq items2, took \subseteq took2, gone \subseteq gone2, seq <= seq2,
           TaskFits(r, items, took, gone, seq)
    PROVE  TaskFits(r, items2, took2, gone2, seq2)
BY DEF TaskFits, Asks, Answers

-----------------------------------------------------------------------------
(* Steps that concern one task *)

LEMMA ItemsStay ==
    ASSUME TInv, \A id \in Ids : latest[id] # 0 => latest'[id] # 0
    PROVE  Items \subseteq Items'
BY DEF Items, Card

Later ==
    /\ Items \subseteq Items' /\ landed \subseteq landed' /\ deleted \subseteq deleted'
    /\ sequence' \in Nat /\ sequence <= sequence'

LEMMA TasksStay ==
    ASSUME TInv, Later, UNCHANGED task
    PROVE  /\ task' \in [Tasks -> TaskType]
           /\ \A u \in Tasks : TaskFits(task'[u], Items', landed', deleted', sequence')
<1>1. task \in [Tasks -> TaskType] /\ sequence \in Nat
    BY DEF TInv, SyncTypeOK
<1> QED
    BY <1>1, FitsLater DEF TInv, Later

LEMMA BecomeFits ==
    ASSUME TInv, Later, NEW t \in Tasks, NEW rec, Become(t, rec),
           TaskFits(rec, Items', landed', deleted', sequence')
    PROVE  /\ task' \in [Tasks -> TaskType]
           /\ \A u \in Tasks : TaskFits(task'[u], Items', landed', deleted', sequence')
<1>1. task \in [Tasks -> TaskType] /\ sequence \in Nat /\ rec \in TaskType
    BY DEF TInv, SyncTypeOK, TaskFits
<1>2. task' = [task EXCEPT ![t] = rec]
    BY DEF Become
<1>3. \A u \in Tasks : task'[u] = IF u = t THEN rec ELSE task[u]
    BY <1>1, <1>2
<1>4. \A u \in Tasks : TaskFits(task[u], Items', landed', deleted', sequence')
    BY <1>1, FitsLater DEF TInv, Later
<1> QED
    BY <1>1, <1>2, <1>3, <1>4

\* What every step of a task has to say of the rest of the state.
StateTyped ==
    /\ chain \in [Ids -> Version] /\ deleted \in SUBSET Ids
    /\ stamp \in [Ids -> Nat] /\ sequence \in Nat
    /\ notes \in SUBSET Nat /\ subscribed \in {"no", "answered", "yes"}
    /\ cards \in [Ids -> Version] /\ root \in Nat \cup {NoRoot}
    /\ offline_queue \in Seq(Card)
    /\ client \in {"none", "live", "dead"}
    /\ status \in {"Disconnected", "Syncing", "Connected"}
    /\ latest \in [Ids -> 0 .. MaxEdits] /\ landed \in SUBSET Int
    /\ fate \in [Pushes -> {"open", "toast", "reconciled", "deleted"}]
    /\ edits \in 0 .. MaxEdits /\ remote \in Nat
    /\ EntriesOf(offline_queue) \subseteq Items

TasksFit == \A t \in Tasks : TaskFits(task[t], Items, landed, deleted, sequence)

LEMMA TInvParts ==
    TInv <=> StateTyped /\ ServerInv /\ TasksFit /\ task \in [Tasks -> TaskType]
BY DEF TInv, SyncTypeOK, StateTyped, TasksFit

LEMMA TInvInit == Init => TInv
<1> SUFFICES ASSUME Init PROVE TInv
    OBVIOUS
<1>1. Absent \in Version /\ << >> \in Seq(Card) /\ EntriesOf(<< >>) = {}
    BY DEF Absent, Version, EntriesOf
<1>2. StateTyped
    BY <1>1, SyncBounds DEF Init, StateTyped, Pushes
<1>3. ServerInv
    BY DEF Init, ServerInv
<1>4. task \in [Tasks -> TaskType] /\ TasksFit
    <2> DEFINE down == [IdleTask EXCEPT !.pc = "down"]
    <2>1. task = [t \in Tasks |-> IF t = conn THEN down ELSE IdleTask]
        BY DEF Init
    <2>2. down \in TaskType /\ IdleTask \in TaskType
        BY IdleFits DEF TaskFits
    <2>3. /\ TaskFits(down, Items, landed, deleted, sequence)
          /\ TaskFits(IdleTask, Items, landed, deleted, sequence)
        BY IdleFits
    <2> HIDE DEF down
    <2> QED
        BY <2>1, <2>2, <2>3 DEF TasksFit
<1> QED
    BY <1>2, <1>3, <1>4, TInvParts

-----------------------------------------------------------------------------
(* The server *)

LEMMA PublishKeeps ==
    ASSUME TInv, NEW id \in Ids, NEW version \in Version, NEW gone \in SUBSET Ids,
           \/ version # Absent /\ gone = {} /\ id \notin deleted
           \/ version = Absent /\ gone = {id},
           Publish(id, version, gone)
    PROVE  /\ chain' \in [Ids -> Version] /\ deleted' \in SUBSET Ids
           /\ stamp' \in [Ids -> Nat] /\ sequence' \in Nat /\ notes' \in SUBSET Nat
           /\ ServerInv' /\ deleted \subseteq deleted' /\ sequence' = sequence + 1
           /\ \A i \in Ids \ {id} : chain'[i] = chain[i] /\ stamp'[i] = stamp[i]
           /\ stamp'[id] = sequence' /\ deleted' \ {id} = deleted \ {id}
BY DEF TInv, SyncTypeOK, ServerInv, Publish

LEMMA PushAnswerTyped ==
    ASSUME TInv, NEW card \in Items
    PROVE  /\ PushAnswer(card) \in ReplyType
           /\ PushAnswer(card).kind = "AncestorMismatch" => PushAnswer(card).version \in Version
           /\ PushAnswer(card).kind = "Ok" => card.id \notin deleted
<1>1. card.id \in Ids /\ chain[card.id] \in Version
    BY DEF Items, Card, TInv, SyncTypeOK
<1> QED
    BY <1>1 DEF PushAnswer, ReplyType

LEMMA ReplyFits ==
    ASSUME NEW r, NEW a \in ReplyType, NEW items, NEW took, NEW gone, NEW seq,
           r \in TaskType, EntriesOf(r.todo) \subseteq items, EntriesOf(r.remaining) \subseteq items,
           Asks(r, items), Answers(r.request, a, took, gone, seq)
    PROVE  TaskFits([r EXCEPT !.reply = a], items, took, gone, seq)
<1> DEFINE s == [r EXCEPT !.reply = a]
<1>1. /\ s \in TaskType /\ s.reply = a /\ s.pc = r.pc /\ s.request = r.request
      /\ s.card = r.card /\ s.retry = r.retry /\ s.todo = r.todo /\ s.remaining = r.remaining
    BY DEF TaskType
<1> HIDE DEF s
<1>2. Asks(s, items)
    BY <1>1 DEF Asks
<1>3. TaskFits(s, items, took, gone, seq)
    BY <1>1, <1>2 DEF TaskFits
<1> QED
    BY <1>3 DEF s

LEMMA AnswerFits ==
    ASSUME TInv, Later, NEW t \in Tasks, NEW a \in ReplyType, Answer(t, a),
           Answers(task[t].request, a, landed', deleted', sequence')
    PROVE  /\ task' \in [Tasks -> TaskType]
           /\ \A u \in Tasks : TaskFits(task'[u], Items', landed', deleted', sequence')
<1> DEFINE r == task[t]
<1>1. TaskFits(r, Items', landed', deleted', sequence')
    BY FitsLater DEF TInv, SyncTypeOK, Later
<1>2. TaskFits([r EXCEPT !.reply = a], Items', landed', deleted', sequence')
    BY <1>1, ReplyFits DEF TaskFits
<1>3. Become(t, [r EXCEPT !.reply = a])
    BY DEF Answer
<1> QED
    BY <1>2, <1>3, BecomeFits

\* What Serve leaves alone.
LEMMA ServeRest ==
    ASSUME TInv, NEW t \in Tasks, Serve(t)
    PROVE  /\ UNCHANGED <<cards, root, offline_queue, client, status, latest, fate, edits, remote>>
           /\ Items' = Items
BY DEF Serve, Items, counters

LEMMA ServeKeeps ==
    ASSUME TInv, NEW t \in Tasks, Serve(t) PROVE TInv'
<1> DEFINE r == task[t]
           q == task[t].request
<1>1. /\ StateTyped /\ ServerInv /\ TaskFits(r, Items, landed, deleted, sequence)
      /\ r \in TaskType /\ q \in RequestType
    BY TInvParts DEF TInv, SyncTypeOK, TaskType
<1>2. /\ UNCHANGED <<cards, root, offline_queue, client, status, latest, fate, edits, remote>>
      /\ Items' = Items
    BY ServeRest
<1>3. SUFFICES /\ chain' \in [Ids -> Version] /\ deleted' \in SUBSET Ids
               /\ stamp' \in [Ids -> Nat] /\ sequence' \in Nat
               /\ notes' \in SUBSET Nat /\ subscribed' \in {"no", "answered", "yes"}
               /\ landed' \in SUBSET Int /\ ServerInv' /\ Later
               /\ \E a \in ReplyType : Answer(t, a) /\ Answers(q, a, landed', deleted', sequence')
    <2>1. StateTyped'
        BY <1>1, <1>2, <1>3 DEF StateTyped
    <2>2. task' \in [Tasks -> TaskType] /\ TasksFit'
        BY <1>3, AnswerFits DEF TasksFit
    <2> QED
        BY <1>3, <2>1, <2>2 DEF TInv, SyncTypeOK, StateTyped, TasksFit
<1> DEFINE Same == /\ UNCHANGED <<chain, deleted, stamp, sequence, notes, landed>>
                   /\ subscribed' \in {"no", "answered", "yes"}
<1>5. ASSUME NEW a \in ReplyType, Answer(t, a), Same, Answers(q, a, landed, deleted, sequence)
      PROVE  /\ chain' \in [Ids -> Version] /\ deleted' \in SUBSET Ids
             /\ stamp' \in [Ids -> Nat] /\ sequence' \in Nat
             /\ notes' \in SUBSET Nat /\ subscribed' \in {"no", "answered", "yes"}
             /\ landed' \in SUBSET Int /\ ServerInv' /\ Later
             /\ \E b \in ReplyType : Answer(t, b) /\ Answers(q, b, landed', deleted', sequence')
    <2>1. Later
        BY <1>1, <1>2, <1>5 DEF Later, StateTyped
    <2>2. ServerInv'
        BY <1>1, <1>5 DEF ServerInv
    <2>3. Answers(q, a, landed', deleted', sequence')
        BY <1>5
    <2> QED
        BY <1>1, <1>5, <2>1, <2>2, <2>3 DEF StateTyped
<1>4. CASE ServePush(t)
    <2> DEFINE card == q.card
               a == PushAnswer(card)
    <2>1. q.op = "push" /\ Answer(t, a) /\ UNCHANGED subscribed
        BY <1>4 DEF ServePush
    <2>2. card \in Items /\ q = Push(card)
        BY <1>1, <2>1 DEF TaskFits, Asks, Push, Retries, TaskType, NoRequest, FlushSteps, NoWait
    <2>3. /\ a \in ReplyType
          /\ a.kind = "AncestorMismatch" => a.version \in Version
          /\ a.kind = "Ok" => card.id \notin deleted
        BY <2>2, PushAnswerTyped
    <2>4. /\ card.id \in Ids /\ card.version \in Version /\ card.version # Absent
          /\ Tip(card.version).by \in Int
        BY <2>2, TipTyped DEF Items, Card, Body
    <2>9. Tip(q.card.version).by = Tip(card.version).by
        OBVIOUS
    <2>10. \/ /\ a.kind = "Ok" /\ Publish(card.id, card.version, {})
              /\ landed' = landed \cup {Tip(card.version).by}
           \/ a.kind # "Ok" /\ UNCHANGED <<serverVars, notes, landed>>
        BY <1>4 DEF ServePush
    <2> HIDE DEF card, a
    <2>5. CASE /\ a.kind = "Ok" /\ Publish(card.id, card.version, {})
               /\ landed' = landed \cup {Tip(card.version).by}
        <3>1. /\ chain' \in [Ids -> Version] /\ deleted' \in SUBSET Ids
              /\ stamp' \in [Ids -> Nat] /\ sequence' \in Nat /\ notes' \in SUBSET Nat
              /\ ServerInv' /\ deleted \subseteq deleted' /\ sequence' = sequence + 1
            BY <2>3, <2>4, <2>5, PublishKeeps
        <3>2. Answers(q, a, landed', deleted', sequence')
            BY <2>1, <2>5, <2>9 DEF Answers
        <3>4. landed' = landed \cup {Tip(card.version).by}
            BY <2>5
        <3>5. landed \subseteq landed' /\ landed' \in SUBSET Int
            BY <3>4, <2>4, <1>1 DEF StateTyped
        <3>6. Items \subseteq Items'
            BY <1>2
        <3>7. sequence <= sequence'
            BY <3>1, <1>1 DEF StateTyped
        <3>3. Later /\ landed' \in SUBSET Int
            BY <3>1, <3>5, <3>6, <3>7 DEF Later
        <3>8. \E b \in ReplyType : Answer(t, b) /\ Answers(q, b, landed', deleted', sequence')
            BY <2>1, <2>3, <3>2
        <3>9. subscribed' \in {"no", "answered", "yes"}
            BY <2>1, <1>1 DEF StateTyped
        <3> QED
            BY <3>1, <3>3, <3>8, <3>9
    <2>6. CASE a.kind # "Ok" /\ UNCHANGED <<serverVars, notes, landed>>
        <3>1. UNCHANGED <<chain, deleted, stamp, sequence, notes, landed>>
            BY <2>6 DEF serverVars
        <3>2. a.kind # "Ok"
            BY <2>6
        <3>3. Answers(q, a, landed, deleted, sequence)
            BY <2>1, <2>3, <3>2 DEF Answers
        <3>4. Same
            BY <2>1, <3>1, <1>1 DEF StateTyped
        <3> QED
            BY <2>1, <2>3, <3>3, <3>4, <1>5
    <2> QED
        BY <2>5, <2>6, <2>10
<1>6. CASE ServeDelete(t)
    <2> DEFINE id == q.id
    <2>1. q.op = "delete" /\ UNCHANGED <<subscribed, landed>>
        BY <1>6 DEF ServeDelete
    <2>2. id \in Ids
        BY <1>1, <2>1 DEF TaskFits, Asks, Push, Retries, TaskType, NoRequest, FlushSteps, NoWait, Card
    <2>3. CASE chain[id] # Absent /\ Publish(id, Absent, {id}) /\ Answer(t, [kind |-> "Ok"])
        <3>1. Absent \in Version /\ {id} \in SUBSET Ids
            BY <2>2 DEF Absent, Version
        <3>2. /\ chain' \in [Ids -> Version] /\ deleted' \in SUBSET Ids
              /\ stamp' \in [Ids -> Nat] /\ sequence' \in Nat /\ notes' \in SUBSET Nat
              /\ ServerInv' /\ deleted \subseteq deleted' /\ sequence' = sequence + 1
            BY <2>2, <2>3, <3>1, PublishKeeps
        <3>3. deleted' = deleted \cup {id}
            BY <2>3 DEF Publish
        <3>4. [kind |-> "Ok"] \in ReplyType /\ Answers(q, [kind |-> "Ok"], landed', deleted', sequence')
            BY <2>1, <3>3 DEF Answers, ReplyType
        <3>5. Later
            BY <3>2, <2>1, <1>1, <1>2 DEF Later, StateTyped
        <3> QED
            BY <2>1, <2>3, <3>2, <3>4, <3>5, <1>1 DEF StateTyped
    <2>4. CASE Answer(t, [kind |-> "Refused"]) /\ UNCHANGED <<serverVars, notes>>
        <3>1. [kind |-> "Refused"] \in ReplyType /\ Answers(q, [kind |-> "Refused"], landed, deleted, sequence)
            BY <2>1 DEF Answers, ReplyType
        <3>2. Same
            BY <2>1, <2>4, <1>1 DEF serverVars, StateTyped
        <3> QED
            BY <2>4, <3>1, <3>2, <1>5
    <2> QED
        BY <2>3, <2>4, <1>6 DEF ServeDelete
<1>7. CASE ServeGet(t)
    <2> DEFINE version == chain[q.id]
               a == IF version = Absent THEN [kind |-> "Refused"]
                                        ELSE [kind |-> "Ok", version |-> version]
    <2>1. q.op = "get" /\ Answer(t, a) /\ Same
        BY <1>7, <1>1 DEF ServeGet, serverVars, StateTyped
    <2>2. q.id \in Ids
        BY <1>1, <2>1 DEF TaskFits, Asks, Push, Retries, TaskType, NoRequest, FlushSteps, NoWait, Card, Items
    <2>3. version \in Version
        BY <2>2, <1>1 DEF StateTyped
    <2> HIDE DEF version
    <2>4. a \in ReplyType /\ Answers(q, a, landed, deleted, sequence)
        BY <2>1, <2>3 DEF Answers, ReplyType
    <2> QED
        BY <2>1, <2>4, <1>5
<1>8. CASE ServeChanges(t)
    <2>1. PICK since \in Nat : Answer(t, ChangeSet(since))
        <3>1. q.op \in {"all", "since"}
            BY <1>8 DEF ServeChanges
        <3>2. q.op = "since" => q.sequence \in Nat
            BY <1>1 DEF RequestType, NoRequest
        <3> QED
            BY <1>8, <3>1, <3>2 DEF ServeChanges
    <2>2. q.op \in {"all", "since"} /\ Same
        BY <1>8, <1>1 DEF ServeChanges, serverVars, StateTyped
    <2> DEFINE a == ChangeSet(since)
               sent == [id \in Ids |-> IF stamp[id] > since THEN chain[id] ELSE Absent]
    <2>3. a = [kind |-> "Ok", cards |-> sent, deleted |-> {id \in Ids : stamp[id] > since} \cap deleted,
               root |-> sequence]
        BY DEF ChangeSet
    <2>4. sent \in [Ids -> Version]
        BY <1>1 DEF StateTyped, Absent, Version
    <2> HIDE DEF sent, a
    <2>5. a \in ReplyType /\ Answers(q, a, landed, deleted, sequence)
        BY <2>2, <2>3, <2>4, <1>1 DEF Answers, ReplyType, StateTyped
    <2> QED
        BY <2>1, <2>2, <2>5, <1>5 DEF a
<1>9. CASE ServeSubscribe(t)
    <2>1. q.op = "subscribe" /\ Answer(t, [kind |-> "Ok"]) /\ Same
        BY <1>9 DEF ServeSubscribe, serverVars
    <2>2. [kind |-> "Ok"] \in ReplyType /\ Answers(q, [kind |-> "Ok"], landed, deleted, sequence)
        BY <2>1 DEF Answers, ReplyType
    <2> QED
        BY <2>1, <2>2, <1>5
<1> QED
    BY <1>4, <1>6, <1>7, <1>8, <1>9 DEF Serve

-----------------------------------------------------------------------------
(* The flush.  Each of its steps waits for the next answer about its card,  *)
(* or is through with the card: then it goes on with the next one, and     *)
(* after the last what remains becomes the queue.                          *)

Fits(r) == TaskFits(r, Items, landed, deleted, sequence)

Through(t, new, todo, remaining) ==
    /\ Become(t, new) /\ Fits(new)
    /\ offline_queue' \in Seq(Card)
    /\ \/ /\ todo = {} /\ new.pc = "flushed"
          /\ EntriesOf(offline_queue') = remaining
       \/ /\ new.pc = "flush" /\ offline_queue' = offline_queue
          /\ {new.card} \cup EntriesOf(new.todo) = todo /\ EntriesOf(new.remaining) = remaining

LEMMA ItemsAreCards == Items \subseteq Card
BY DEF Items

LEMMA FlushNextFits ==
    ASSUME TInv, NEW t \in Tasks, NEW r \in TaskType,
           EntriesOf(r.todo) \subseteq Items, EntriesOf(r.remaining) \subseteq Items,
           FlushNext(t, r)
    PROVE  \E new : Through(t, new, EntriesOf(r.todo), EntriesOf(r.remaining))
<1>1. r.todo \in Seq(Card) /\ r.remaining \in Seq(Card)
    BY DEF TaskType
<1>2. CASE r.todo = << >>
    <2> DEFINE new == [r EXCEPT !.pc = "flushed", !.request = NoRequest, !.card = NoCard,
                                !.retry = NoCard, !.remaining = << >>]
    <2>1. Become(t, new) /\ offline_queue' = r.remaining
        BY <1>2 DEF FlushNext
    <2>2. /\ new \in TaskType /\ new.pc = "flushed" /\ new.request = NoRequest
          /\ new.todo = r.todo /\ new.remaining = << >>
        <3>1. NoCard \in Card /\ NoRequest \in RequestType /\ << >> \in Seq(Card)
            BY IdleFits, RequestsTyped
        <3> QED
            BY <3>1 DEF TaskType
    <2> HIDE DEF new
    <2>3. EntriesOf(<< >>) = {}
        BY DEF EntriesOf
    <2>4. Asks(new, Items) /\ Answers(new.request, new.reply, landed, deleted, sequence)
        BY <2>2 DEF Asks, Answers, NoRequest, NoWait, Retries
    <2>5. Fits(new)
        BY <2>2, <2>3, <2>4, <1>2 DEF Fits, TaskFits
    <2>6. Through(t, new, EntriesOf(r.todo), EntriesOf(r.remaining))
        BY <2>1, <2>2, <2>3, <2>5, <1>1, <1>2 DEF Through
    <2> QED
        BY <2>6
<1>3. CASE r.todo # << >>
    <2> DEFINE next == [r EXCEPT !.card = Head(r.todo), !.retry = NoCard, !.todo = Tail(r.todo)]
               q   == Push(Head(r.todo))
               new == Send(next, "flush", q)
    <2>1. Become(t, new) /\ UNCHANGED offline_queue
        BY <1>3 DEF FlushNext
    <2>2. /\ Head(r.todo) \in Card /\ Tail(r.todo) \in Seq(Card)
          /\ EntriesOf(r.todo) = {Head(r.todo)} \cup EntriesOf(Tail(r.todo))
        BY <1>1, <1>3, HeadTailEntries
    <2>3. /\ next \in TaskType /\ next.card = Head(r.todo) /\ next.todo = Tail(r.todo)
          /\ next.remaining = r.remaining
        BY <2>2, IdleFits DEF TaskType
    <2>4. q \in RequestType /\ "flush" \in Places
        BY <2>2, RequestsTyped DEF Places, FlushSteps
    <2> HIDE DEF next, q
    <2>5. /\ new \in TaskType /\ new.pc = "flush" /\ new.request = q
          /\ new.reply \in {Pending, Lost} /\ new.card = Head(r.todo)
          /\ new.todo = Tail(r.todo) /\ new.remaining = r.remaining
        BY <2>3, <2>4, SendFits
    <2> HIDE DEF new
    <2>6. Asks(new, Items)
        BY <2>2, <2>5 DEF Asks, NoWait, Retries, q
    <2>7. Fits(new)
        BY <2>2, <2>5, <2>6, NoAnswerFits DEF Fits, TaskFits
    <2>8. offline_queue' \in Seq(Card)
        BY <2>1 DEF TInv, SyncTypeOK
    <2>9. Through(t, new, EntriesOf(r.todo), EntriesOf(r.remaining))
        BY <2>1, <2>2, <2>5, <2>7, <2>8 DEF Through
    <2> QED
        BY <2>9
<1> QED
    BY <1>2, <1>3

LEMMA KeepFits ==
    ASSUME TInv, NEW r \in TaskType, NEW c \in Items, EntriesOf(r.remaining) \subseteq Items
    PROVE  /\ Keep(r, c) \in TaskType /\ Keep(r, c).todo = r.todo
           /\ EntriesOf(Keep(r, c).remaining) = EntriesOf(r.remaining) \cup {c}
<1>1. c \in Card /\ r.remaining \in Seq(Card)
    BY ItemsAreCards DEF TaskType
<1>2. /\ Append(r.remaining, c) \in Seq(Card)
      /\ EntriesOf(Append(r.remaining, c)) = EntriesOf(r.remaining) \cup {c}
    BY <1>1, AppendEntries
<1> QED
    BY <1>2 DEF Keep, TaskType

LEMMA FlushStopFits ==
    ASSUME TInv, NEW t \in Tasks, NEW r \in TaskType,
           EntriesOf(r.todo) \subseteq Items, EntriesOf(r.remaining) \subseteq Items,
           FlushStop(t, r)
    PROVE  \E new : Through(t, new, {}, EntriesOf(r.remaining) \cup EntriesOf(r.todo))
<1> DEFINE s == [r EXCEPT !.remaining = @ \o r.todo, !.todo = << >>]
<1>1. /\ r.todo \in Seq(Card) /\ r.remaining \in Seq(Card)
      /\ << >> \in Seq(Card) /\ EntriesOf(<< >>) = {}
    BY DEF TaskType, EntriesOf
<1>2. /\ r.remaining \o r.todo \in Seq(Card)
      /\ EntriesOf(r.remaining \o r.todo) = EntriesOf(r.remaining) \cup EntriesOf(r.todo)
    BY <1>1, ConcatEntries
<1>3. s \in TaskType /\ s.todo = << >> /\ s.remaining = r.remaining \o r.todo
    BY <1>1, <1>2 DEF TaskType
<1>4. FlushNext(t, s)
    BY DEF FlushStop
<1> HIDE DEF s
<1> QED
    BY <1>1, <1>2, <1>3, <1>4, FlushNextFits

\* The task waits for the next answer about the same card.
Waits(t, new) ==
    /\ Become(t, new) /\ Fits(new) /\ new.pc \in FlushSteps
    /\ new.card = task[t].card /\ new.todo = task[t].todo /\ new.remaining = task[t].remaining

LEMMA RetryFits ==
    ASSUME TInv, NEW t \in Tasks, NEW retry \in Items, task[t].card \in Items,
           SameEdit(retry, task[t].card), NEW pc \in Retries,
           Become(t, Send([task[t] EXCEPT !.retry = retry], pc, Push(retry)))
    PROVE  \E new : /\ Become(t, new) /\ Fits(new) /\ new.pc = pc
                   /\ new.card = task[t].card /\ new.todo = task[t].todo
                   /\ new.remaining = task[t].remaining
<1> DEFINE r   == [task[t] EXCEPT !.retry = retry]
           new == Send(r, pc, Push(retry))
<1>1. Fits(task[t]) /\ task[t] \in TaskType /\ retry \in Card
    BY ItemsAreCards DEF TInv, Fits, TaskFits
<1>2. /\ r \in TaskType /\ r.retry = retry /\ r.card = task[t].card
      /\ r.todo = task[t].todo /\ r.remaining = task[t].remaining
    BY <1>1 DEF TaskType
<1> HIDE DEF r
<1>3. Push(retry) \in RequestType /\ pc \in Places
    BY <1>1, RequestsTyped DEF Places, FlushSteps, Retries
<1>4. /\ new \in TaskType /\ new.pc = pc /\ new.request = Push(retry)
      /\ new.reply \in {Pending, Lost} /\ new.card = r.card /\ new.retry = r.retry
      /\ new.todo = r.todo /\ new.remaining = r.remaining
    BY <1>2, <1>3, SendFits
<1>5. Become(t, new)
    BY DEF r
<1> HIDE DEF new
<1>6. Asks(new, Items)
    BY <1>2, <1>4 DEF Asks, NoWait, Retries
<1>7. Fits(new)
    BY <1>1, <1>2, <1>4, <1>6, NoAnswerFits DEF Fits, TaskFits
<1> QED
    BY <1>2, <1>4, <1>5, <1>7

LEMMA GetFits ==
    ASSUME TInv, NEW t \in Tasks, NEW retry \in Items, task[t].card \in Items,
           SameEdit(retry, task[t].card),
           Become(t, Send([task[t] EXCEPT !.retry = retry], "flushGet",
                          [op |-> "get", id |-> task[t].card.id]))
    PROVE  \E new : Waits(t, new)
<1> DEFINE r   == [task[t] EXCEPT !.retry = retry]
           q   == [op |-> "get", id |-> task[t].card.id]
           new == Send(r, "flushGet", q)
<1>1. Fits(task[t]) /\ task[t] \in TaskType /\ retry \in Card /\ task[t].card.id \in Ids
    BY ItemsAreCards DEF TInv, Fits, TaskFits, Card
<1>2. /\ r \in TaskType /\ r.retry = retry /\ r.card = task[t].card
      /\ r.todo = task[t].todo /\ r.remaining = task[t].remaining
    BY <1>1 DEF TaskType
<1>3. q \in RequestType /\ "flushGet" \in Places
    BY <1>1, RequestsTyped DEF Places, FlushSteps
<1> HIDE DEF r
<1>4. /\ new \in TaskType /\ new.pc = "flushGet" /\ new.request = q
      /\ new.reply \in {Pending, Lost} /\ new.card = r.card /\ new.retry = r.retry
      /\ new.todo = r.todo /\ new.remaining = r.remaining
    BY <1>2, <1>3, SendFits
<1>5. Become(t, new)
    BY DEF r
<1> HIDE DEF new
<1>6. Asks(new, Items)
    BY <1>2, <1>4 DEF Asks, NoWait, Retries
<1>7. Fits(new)
    BY <1>1, <1>2, <1>4, <1>6, NoAnswerFits DEF Fits, TaskFits
<1> QED
    BY <1>2, <1>4, <1>5, <1>7 DEF Waits, FlushSteps

\* What a flush comes to for its card: it waits, or it is through with the
\* card, which is kept, or has landed, or is given up.
GivenUp(c) == Tip(c.version).by \in Pushes => fate'[Tip(c.version).by] # "open"

Ended(t, kept) ==
    \E new, todo, remaining :
        /\ Through(t, new, todo, remaining)
        /\ todo \cup remaining = EntriesOf(task[t].todo) \cup EntriesOf(task[t].remaining) \cup kept

CardEnds(t) ==
    \/ \E c \in Items : SameEdit(c, task[t].card) /\ Ended(t, {c})
    \/ Ended(t, {}) /\ (Tip(task[t].card.version).by \in landed \/ GivenUp(task[t].card))

FlushOutcome(t) ==
    /\ \/ UNCHANGED <<offline_queue, fate>> /\ \E new : Waits(t, new)
       \/ CardEnds(t)
    /\ cards' \in [Ids -> Version]
    /\ \A id \in Ids : latest[id] = 0 => cards'[id] = cards[id]
    /\ fate' \in [Pushes -> {"open", "toast", "reconciled", "deleted"}]
    /\ \A e \in Pushes : fate[e] # "open" => fate'[e] # "open"

LEMMA EndedPlain ==
    ASSUME TInv, NEW t \in Tasks, FlushNext(t, task[t]) PROVE Ended(t, {})
<1>1. Fits(task[t])
    BY DEF TInv, Fits
<1> QED
    BY <1>1, FlushNextFits DEF Fits, TaskFits, Ended

LEMMA EndedKeeping ==
    ASSUME TInv, NEW t \in Tasks, NEW c \in Items,
           FlushNext(t, Keep(task[t], c)) \/ FlushStop(t, Keep(task[t], c))
    PROVE  Ended(t, {c})
<1> DEFINE r == task[t]
           k == Keep(task[t], c)
<1>1. Fits(r)
    BY DEF TInv, Fits
<1>2. k \in TaskType /\ k.todo = r.todo /\ EntriesOf(k.remaining) = EntriesOf(r.remaining) \cup {c}
    BY <1>1, KeepFits DEF Fits, TaskFits
<1>3. EntriesOf(k.todo) \subseteq Items /\ EntriesOf(k.remaining) \subseteq Items
    BY <1>1, <1>2 DEF Fits, TaskFits
<1> HIDE DEF k
<1>4. CASE FlushNext(t, k)
    <2>1. \E new : Through(t, new, EntriesOf(k.todo), EntriesOf(k.remaining))
        BY <1>2, <1>3, <1>4, FlushNextFits
    <2> QED
        BY <1>2, <2>1 DEF Ended
<1>5. CASE FlushStop(t, k)
    <2>1. \E new : Through(t, new, {}, EntriesOf(k.remaining) \cup EntriesOf(k.todo))
        BY <1>2, <1>3, <1>5, FlushStopFits
    <2> QED
        BY <1>2, <2>1 DEF Ended
<1> QED
    BY <1>4, <1>5 DEF k

LEMMA UpsertTyped ==
    ASSUME TInv, NEW c \in Items
    PROVE  /\ Upsert(c) \in [Ids -> Version]
           /\ \A id \in Ids : latest[id] = 0 => Upsert(c)[id] = cards[id]
BY DEF TInv, SyncTypeOK, Items, Card, Upsert

LEMMA MarkTyped ==
    ASSUME TInv, NEW E, NEW how \in {"toast", "reconciled", "deleted"}, Mark(E, how)
    PROVE  /\ fate' \in [Pushes -> {"open", "toast", "reconciled", "deleted"}]
           /\ \A e \in Pushes : fate[e] # "open" => fate'[e] # "open"
           /\ \A e \in Pushes \cap E : fate'[e] # "open"
BY DEF TInv, SyncTypeOK, Mark

\* What is at hand when an answer about a card has come.
LEMMA AtCard ==
    ASSUME TInv, NEW t \in Tasks, At(t, task[t].pc), task[t].pc \in FlushSteps
    PROVE  /\ Fits(task[t]) /\ task[t].card \in Items /\ task[t].card \in Card
           /\ task[t].pc # "flush" => task[t].retry \in Items /\ SameEdit(task[t].retry, task[t].card)
           /\ Tip(task[t].card.version).priority \in Priorities
           /\ Reply(t).kind = "AncestorMismatch" /\ task[t].pc # "flushGet" => Reply(t).version \in Version
           /\ task[t].pc = "flushGet" => (Reply(t).kind = "Ok" => Reply(t).version \in Version)
           /\ task[t].pc # "flushGet" =>
                 (Reply(t).kind = "Ok" => Tip(task[t].card.version).by \in landed)
<1> DEFINE r == task[t]
<1>1. Fits(r) /\ r \in TaskType
    BY DEF TInv, Fits, TaskFits
<1>2. r.pc = "flush" \/ r.pc \in Retries \/ r.pc = "flushGet"
    BY DEF FlushSteps, Retries
<1>3. r.card \in Items /\ (r.pc # "flush" => r.retry \in Items /\ SameEdit(r.retry, r.card))
    BY <1>1, <1>2 DEF Fits, TaskFits, Asks
<1>4. /\ r.pc = "flush" => r.request = Push(r.card)
      /\ r.pc \in Retries => r.request = Push(r.retry)
      /\ r.pc = "flushGet" => r.request = [op |-> "get", id |-> r.card.id]
    BY <1>1, <1>2 DEF Fits, TaskFits, Asks
<1>5. Answers(r.request, r.reply, landed, deleted, sequence)
    BY <1>1 DEF Fits, TaskFits
<1>6. /\ r.pc = "flushGet" => r.request.op = "get"
      /\ r.pc # "flushGet" => r.request.op = "push" /\ SameEdit(r.request.card, r.card)
    BY <1>2, <1>3, <1>4 DEF Push, SameEdit
<1>7. Tip(r.card.version) \in Body
    BY <1>3, TipTyped DEF Items, Card
<1> QED
    BY <1>1, <1>3, <1>5, <1>6, <1>7, ItemsAreCards DEF Answers, SameEdit, Reply, Body

LEMMA NothingMoves ==
    ASSUME TInv
    PROVE  /\ UNCHANGED cards => /\ cards' \in [Ids -> Version]
                                /\ \A id \in Ids : latest[id] = 0 => cards'[id] = cards[id]
           /\ UNCHANGED fate => /\ fate' \in [Pushes -> {"open", "toast", "reconciled", "deleted"}]
                               /\ \A e \in Pushes : fate[e] # "open" => fate'[e] # "open"
BY DEF TInv, SyncTypeOK

LEMMA PushReplyOutcome ==
    ASSUME TInv, NEW t \in Tasks, FlushPushReply(t) PROVE FlushOutcome(t)
<1> DEFINE r    == task[t]
           card == task[t].card
           priority == Tip(task[t].card.version).priority
           SendRetry(pc, retry) ==
               /\ Become(t, Send([r EXCEPT !.retry = retry], pc, Push(retry)))
               /\ UNCHANGED <<cards, offline_queue, fate>>
<1>1. At(t, "flush") /\ r.pc = "flush"
    BY DEF FlushPushReply, At
<1>2. /\ card \in Items /\ priority \in Priorities /\ Absent \in Version
      /\ Reply(t).kind = "AncestorMismatch" => Reply(t).version \in Version
      /\ Reply(t).kind = "Ok" => Tip(card.version).by \in landed
    BY <1>1, AtCard DEF FlushSteps, Absent, Version
<1>3. ASSUME NEW pc \in Retries \cap FlushSteps, NEW p \in Priorities, NEW v \in Version,
             SendRetry(pc, rebuild_card(card, p, v))
      PROVE  FlushOutcome(t)
    <2> DEFINE retry == rebuild_card(card, p, v)
    <2>1. retry \in Items /\ SameEdit(retry, card)
        BY <1>2, RebuildFits
    <2> HIDE DEF retry
    <2>2. Become(t, Send([task[t] EXCEPT !.retry = retry], pc, Push(retry)))
        BY <1>3 DEF retry
    <2>3. \E new : Waits(t, new)
        BY <1>2, <2>1, <2>2, RetryFits DEF Waits
    <2> QED
        BY <1>3, <2>3, NothingMoves DEF FlushOutcome
<1>4. \A p : p \in FreeFor(cards, card.id) => p \in Priorities
    BY DEF FreeFor
<1>5. CASE Reply(t).kind = "Ok" /\ FlushNext(t, r) /\ cards' = Upsert(card) /\ UNCHANGED fate
    <2>1. CardEnds(t)
        BY <1>2, <1>5, EndedPlain DEF CardEnds
    <2> QED
        BY <1>2, <1>5, <2>1, UpsertTyped, NothingMoves DEF FlushOutcome
<1>6. CASE FlushStop(t, Keep(r, card)) /\ UNCHANGED <<cards, fate>>
    <2>1. Ended(t, {card})
        BY <1>2, <1>6, EndedKeeping
    <2>2. CardEnds(t)
        BY <1>2, <2>1 DEF CardEnds, SameEdit
    <2> QED
        BY <1>6, <2>2, NothingMoves DEF FlushOutcome
<1>7. CASE \E p \in FreeFor(cards, card.id) : SendRetry("flushRetry", rebuild_card(card, p, Absent))
    BY <1>2, <1>3, <1>4, <1>7 DEF Retries, FlushSteps
<1>8. CASE /\ \E p \in FreeFor(cards, card.id) :
                 Become(t, Send([r EXCEPT !.retry = rebuild_card(card, p, Absent)],
                                "flushGet", [op |-> "get", id |-> card.id]))
           /\ UNCHANGED <<cards, offline_queue, fate>>
    <2>1. PICK p \in FreeFor(cards, card.id) :
              Become(t, Send([r EXCEPT !.retry = rebuild_card(card, p, Absent)],
                             "flushGet", [op |-> "get", id |-> card.id]))
        BY <1>8
    <2> DEFINE retry == rebuild_card(card, p, Absent)
    <2>2. retry \in Items /\ SameEdit(retry, card)
        BY <1>2, <1>4, RebuildFits
    <2> HIDE DEF retry
    <2>3. Become(t, Send([task[t] EXCEPT !.retry = retry], "flushGet",
                         [op |-> "get", id |-> task[t].card.id]))
        BY <2>1 DEF retry
    <2>4. \E new : Waits(t, new)
        BY <1>2, <2>2, <2>3, GetFits
    <2> QED
        BY <1>8, <2>4, NothingMoves DEF FlushOutcome
<1>9. CASE /\ Reply(t).kind = "AncestorMismatch"
           /\ SendRetry("flushRebased", rebuild_card(card, priority, Reply(t).version))
    BY <1>2, <1>3, <1>9 DEF Retries, FlushSteps
<1>10. CASE SendRetry("flushRecreated", rebuild_card(card, priority, Absent))
    BY <1>2, <1>3, <1>10 DEF Retries, FlushSteps
<1>11. CASE /\ FlushNext(t, r) /\ Mark({Tip(card.version).by}, "deleted") /\ UNCHANGED cards
    <2>1. GivenUp(card)
        BY <1>11, MarkTyped DEF GivenUp
    <2>2. CardEnds(t)
        BY <2>1, <1>11, EndedPlain DEF CardEnds
    <2> QED
        BY <1>11, <2>2, MarkTyped, NothingMoves DEF FlushOutcome
<1> QED
    BY <1>5, <1>6, <1>7, <1>8, <1>9, <1>10, <1>11 DEF FlushPushReply

LEMMA GetReplyOutcome ==
    ASSUME TInv, NEW t \in Tasks, FlushGetReply(t) PROVE FlushOutcome(t)
<1> DEFINE r == task[t]
           p == Tip(task[t].retry.version).priority
           retry == rebuild_card(task[t].card, p, Reply(t).version)
<1>1. At(t, "flushGet") /\ r.pc = "flushGet" /\ UNCHANGED <<cards, fate>>
    BY DEF FlushGetReply, At
<1>2. /\ r.card \in Items /\ r.retry \in Items
      /\ Reply(t).kind = "Ok" => Reply(t).version \in Version
    BY <1>1, AtCard DEF FlushSteps
<1>3. p \in Priorities
    BY <1>2, TipTyped DEF Items, Card, Body
<1>4. CASE /\ Reply(t).kind = "Ok"
           /\ Become(t, Send([r EXCEPT !.retry = retry], "flushRetry", Push(retry)))
           /\ UNCHANGED offline_queue
    <2>1. retry \in Items /\ SameEdit(retry, task[t].card)
        BY <1>2, <1>3, <1>4, RebuildFits
    <2> HIDE DEF retry, p
    <2>2. \E new : Waits(t, new)
        BY <1>2, <1>4, <2>1, RetryFits DEF Waits, Retries, FlushSteps
    <2> QED
        BY <1>1, <1>4, <2>2, NothingMoves DEF FlushOutcome
<1>5. CASE FlushNext(t, Keep(r, r.card)) \/ FlushStop(t, Keep(r, r.card))
    <2>1. Ended(t, {r.card})
        BY <1>2, <1>5, EndedKeeping
    <2>2. CardEnds(t)
        BY <1>2, <2>1 DEF CardEnds, SameEdit
    <2> QED
        BY <1>1, <2>2, NothingMoves DEF FlushOutcome
<1> QED
    BY <1>4, <1>5 DEF FlushGetReply

LEMMA RetryReplyOutcome ==
    ASSUME TInv, NEW t \in Tasks, FlushRetryReply(t) PROVE FlushOutcome(t)
<1> DEFINE r    == task[t]
           kept == IF task[t].pc = "flushRecreated" THEN task[t].retry ELSE task[t].card
<1>1. At(t, r.pc) /\ r.pc \in {"flushRetry", "flushRebased", "flushRecreated"}
    BY DEF FlushRetryReply, At
<1>2. /\ r.card \in Items /\ r.retry \in Items /\ SameEdit(r.retry, r.card)
      /\ Reply(t).kind = "Ok" => Tip(r.card.version).by \in landed
    BY <1>1, AtCard DEF FlushSteps
<1>3. kept \in Items /\ SameEdit(kept, r.card)
    BY <1>2 DEF SameEdit
<1>4. CASE Reply(t).kind = "Ok" /\ FlushNext(t, r) /\ cards' = Upsert(r.retry) /\ UNCHANGED fate
    <2>1. CardEnds(t)
        BY <1>2, <1>4, EndedPlain DEF CardEnds
    <2> QED
        BY <1>2, <1>4, <2>1, UpsertTyped, NothingMoves DEF FlushOutcome
<1>5. CASE (FlushNext(t, Keep(r, kept)) \/ FlushStop(t, Keep(r, kept))) /\ UNCHANGED <<cards, fate>>
    <2> HIDE DEF kept
    <2>1. Ended(t, {kept})
        BY <1>3, <1>5, EndedKeeping
    <2>2. CardEnds(t)
        BY <1>3, <2>1 DEF CardEnds
    <2> QED
        BY <1>5, <2>2, NothingMoves DEF FlushOutcome
<1>6. CASE FlushNext(t, r) /\ Mark({Tip(r.card.version).by}, "toast") /\ UNCHANGED cards
    <2>1. GivenUp(r.card)
        BY <1>6, MarkTyped DEF GivenUp
    <2>2. CardEnds(t)
        BY <2>1, <1>6, EndedPlain DEF CardEnds
    <2> QED
        BY <1>6, <2>2, MarkTyped, NothingMoves DEF FlushOutcome
<1> QED
    BY <1>4, <1>5, <1>6 DEF FlushRetryReply

LEMMA FlushStepOutcome ==
    ASSUME TInv, NEW t \in Tasks, FlushStep(t)
    PROVE  /\ FlushOutcome(t)
           /\ UNCHANGED <<chain, deleted, stamp, sequence, notes, subscribed, root, client, status,
                          edits, latest, landed>>
BY PushReplyOutcome, GetReplyOutcome, RetryReplyOutcome DEF FlushStep, serverVars, counters

\* A flush begins with the entries that reconciliation leaves; those it
\* discards are marked.
Begins(t) ==
    \/ /\ UNCHANGED <<offline_queue, fate>> /\ \E new : Become(t, new) /\ Fits(new) /\ new.pc = "flushed"
    \/ /\ \E new, todo : /\ Through(t, new, todo, {})
                         /\ todo \subseteq EntriesOf(offline_queue)
                         /\ \A c \in EntriesOf(offline_queue) \ todo : GivenUp(c)
       /\ fate' \in [Pushes -> {"open", "toast", "reconciled", "deleted"}]
       /\ \A e \in Pushes : fate[e] # "open" => fate'[e] # "open"

LEMMA BeginFlushOutcome ==
    ASSUME TInv, NEW t \in Tasks, NEW r \in TaskType, BeginFlush(t, r),
           Fits(r), r.pc \in NoWait
    PROVE  Begins(t)
<1>1. CASE /\ offline_queue = << >>
           /\ Become(t, [r EXCEPT !.pc = "flushed", !.request = NoRequest])
           /\ UNCHANGED <<offline_queue, fate>>
    <2> DEFINE new == [r EXCEPT !.pc = "flushed", !.request = NoRequest]
    <2>1. /\ new \in TaskType /\ new.pc = "flushed" /\ new.request = NoRequest
          /\ new.todo = r.todo /\ new.remaining = r.remaining
        BY RequestsTyped DEF TaskType
    <2> HIDE DEF new
    <2>2. Asks(new, Items) /\ Answers(new.request, new.reply, landed, deleted, sequence)
        BY <2>1 DEF Asks, Answers, NoRequest, NoWait, Retries
    <2>3. Fits(new)
        BY <2>1, <2>2 DEF Fits, TaskFits
    <2> QED
        BY <1>1, <2>1, <2>3 DEF Begins, new
<1>2. CASE /\ offline_queue # << >>
           /\ FlushNext(t, [r EXCEPT !.todo = reconcile_offline_queue(offline_queue, cards),
                                     !.remaining = << >>])
           /\ Mark(Reconciled(offline_queue, cards), "reconciled")
    <2> DEFINE fresh  == reconcile_offline_queue(offline_queue, cards)
               places == {i \in DOMAIN offline_queue :
                            \/ Ancestor(offline_queue[i].version) = Absent
                            \/ ~Stale(cards, offline_queue[i])}
               s      == [r EXCEPT !.todo = fresh, !.remaining = << >>]
    <2>1. offline_queue \in Seq(Card) /\ EntriesOf(offline_queue) \subseteq Items
        BY DEF TInv, SyncTypeOK
    <2>2. /\ fresh \in Seq(Card)
          /\ EntriesOf(fresh) = {offline_queue[i] : i \in DOMAIN offline_queue \cap places}
        BY <2>1, RetainedEntries DEF reconcile_offline_queue
    <2>3. \A c \in EntriesOf(offline_queue) \ EntriesOf(fresh) :
              Tip(c.version).by \in Reconciled(offline_queue, cards)
        BY <2>2 DEF Reconciled, EntriesOf
    <2>4. EntriesOf(fresh) \subseteq EntriesOf(offline_queue)
        BY <2>2 DEF EntriesOf
    <2> HIDE DEF fresh
    <2>5. << >> \in Seq(Card) /\ EntriesOf(<< >>) = {}
        BY DEF EntriesOf
    <2>6. s \in TaskType /\ s.todo = fresh /\ s.remaining = << >>
        BY <2>2, <2>5 DEF TaskType
    <2>7. FlushNext(t, s)
        BY <1>2 DEF fresh
    <2> HIDE DEF s
    <2>8. \E new : Through(t, new, EntriesOf(fresh), {})
        BY <2>1, <2>4, <2>5, <2>6, <2>7, FlushNextFits
    <2>9. \A c \in EntriesOf(offline_queue) \ EntriesOf(fresh) : GivenUp(c)
        BY <2>3, <1>2, MarkTyped DEF GivenUp
    <2> QED
        BY <1>2, <2>4, <2>8, <2>9, MarkTyped DEF Begins
<1> QED
    BY <1>1, <1>2 DEF BeginFlush

-----------------------------------------------------------------------------
(* Types and tasks are kept by every step *)

ServerStays == UNCHANGED <<chain, deleted, stamp, sequence, latest, landed>>

ClientTyped ==
    /\ notes \in SUBSET Nat /\ subscribed \in {"no", "answered", "yes"}
    /\ cards \in [Ids -> Version] /\ root \in Nat \cup {NoRoot}
    /\ offline_queue \in Seq(Card) /\ EntriesOf(offline_queue) \subseteq Items
    /\ client \in {"none", "live", "dead"}
    /\ status \in {"Disconnected", "Syncing", "Connected"}
    /\ fate \in [Pushes -> {"open", "toast", "reconciled", "deleted"}]
    /\ edits \in 0 .. MaxEdits /\ remote \in Nat

LEMMA ClientIsTyped == ASSUME TInv PROVE ClientTyped
BY DEF TInv, SyncTypeOK, ClientTyped

LEMMA ServerStaysLater ==
    ASSUME TInv, ServerStays PROVE Later /\ Items' = Items
BY DEF TInv, SyncTypeOK, ServerStays, Later, Items

LEMMA StayKeeps ==
    ASSUME TInv, ServerStays, ClientTyped',
           UNCHANGED task \/ \E t \in Tasks : \E new : Become(t, new) /\ Fits(new)
    PROVE  TInv'
<1>1. Later /\ Items' = Items
    BY ServerStaysLater
<1>2. /\ task' \in [Tasks -> TaskType]
      /\ \A u \in Tasks : TaskFits(task'[u], Items', landed', deleted', sequence')
    <2>1. CASE UNCHANGED task
        BY <1>1, <2>1, TasksStay
    <2>2. CASE \E t \in Tasks : \E new : Become(t, new) /\ Fits(new)
        <3>0. PICK t \in Tasks : \E new : Become(t, new) /\ Fits(new)
            BY <2>2
        <3>1. PICK new : Become(t, new) /\ Fits(new)
            BY <3>0
        <3>2. TaskFits(new, Items', landed', deleted', sequence')
            BY <3>1, <1>1 DEF Fits, ServerStays
        <3> QED
            BY <3>1, <3>2, <1>1, BecomeFits
    <2> QED
        BY <2>1, <2>2
<1>3. ServerInv'
    BY DEF TInv, ServerInv, ServerStays
<1>4. /\ chain' \in [Ids -> Version] /\ deleted' \in SUBSET Ids
      /\ stamp' \in [Ids -> Nat] /\ sequence' \in Nat
      /\ latest' \in [Ids -> 0 .. MaxEdits] /\ landed' \in SUBSET Int
    BY DEF TInv, SyncTypeOK, ServerStays
<1> QED
    BY <1>2, <1>3, <1>4 DEF TInv, SyncTypeOK, ClientTyped

\* A task that rests or asks for changes.
LEMMA RestFits ==
    ASSUME TInv, NEW r, Fits(r), NEW pc \in NoWait
    PROVE  Fits([r EXCEPT !.pc = pc, !.request = NoRequest])
<1> DEFINE new == [r EXCEPT !.pc = pc, !.request = NoRequest]
<1>1. r \in TaskType /\ pc \in Places
    BY DEF Fits, TaskFits, NoWait, Places
<1>2. /\ new \in TaskType /\ new.pc = pc /\ new.request = NoRequest
      /\ new.todo = r.todo /\ new.remaining = r.remaining
    BY <1>1, RequestsTyped DEF TaskType, Places
<1> HIDE DEF new
<1>3. Asks(new, Items) /\ Answers(new.request, new.reply, landed, deleted, sequence)
    BY <1>2 DEF Asks, Answers, NoRequest, NoWait, Retries
<1>4. Fits(new)
    BY <1>2, <1>3 DEF Fits, TaskFits
<1> QED
    BY <1>4 DEF new

LEMMA AskFits ==
    ASSUME TInv, NEW r \in TaskType, EntriesOf(r.todo) \subseteq Items,
           EntriesOf(r.remaining) \subseteq Items,
           NEW pc, NEW q \in RequestType,
           \/ pc = "sync" /\ q.op \in {"all", "since"}
           \/ pc = "subscribe" /\ q = [op |-> "subscribe"]
           \/ pc = "push" /\ r.card \in Items /\ q = Push(r.card)
           \/ pc = "delete" /\ q = [op |-> "delete", id |-> r.card.id]
    PROVE  Fits(Send(r, pc, q))
<1> DEFINE new == Send(r, pc, q)
<1>1. pc \in Places
    BY DEF Places
<1>2. /\ new \in TaskType /\ new.pc = pc /\ new.request = q
      /\ new.reply \in {Pending, Lost} /\ new.card = r.card
      /\ new.todo = r.todo /\ new.remaining = r.remaining
    BY <1>1, SendFits
<1> HIDE DEF new
<1>3. Asks(new, Items)
    BY <1>2 DEF Asks, NoWait, Retries
<1>4. Fits(new)
    BY <1>2, <1>3, NoAnswerFits DEF Fits, TaskFits
<1> QED
    BY <1>4 DEF new

LEMMA SyncAskFits ==
    ASSUME TInv, NEW r \in TaskType, EntriesOf(r.todo) \subseteq Items,
           EntriesOf(r.remaining) \subseteq Items
    PROVE  Fits(Send(r, "sync", ChangesSince))
<1>1. ChangesSince \in RequestType /\ ChangesSince.op \in {"all", "since"}
    BY RequestsTyped DEF TInv, SyncTypeOK, ChangesSince
<1> QED
    BY <1>1, AskFits

LEMMA EnqueueEntries ==
    ASSUME TInv, NEW c \in Card
    PROVE  /\ Enqueue(offline_queue, c) \in Seq(Card)
           /\ EntriesOf(Enqueue(offline_queue, c)) = {x \in EntriesOf(offline_queue) : x.id # c.id} \cup {c}
<1>1. offline_queue \in Seq(Card) /\ c \in Card
    BY DEF TInv, SyncTypeOK
<1>2. /\ Without(offline_queue, c.id) \in Seq(Card)
      /\ EntriesOf(Without(offline_queue, c.id)) = {x \in EntriesOf(offline_queue) : x.id # c.id}
    BY <1>1, WithoutEntries
<1> QED
    BY <1>1, <1>2, AppendEntries DEF Enqueue

\* A step of which the task at work, if any, fits afterwards.
LEMMA StepKeeps ==
    ASSUME TInv, Later, ServerInv', ClientTyped',
           chain' \in [Ids -> Version], deleted' \in SUBSET Ids, stamp' \in [Ids -> Nat],
           latest' \in [Ids -> 0 .. MaxEdits], landed' \in SUBSET Int,
           \/ UNCHANGED task
           \/ \E t \in Tasks : \E new :
                 Become(t, new) /\ TaskFits(new, Items', landed', deleted', sequence')
    PROVE  TInv'
<1>1. /\ task' \in [Tasks -> TaskType]
      /\ \A u \in Tasks : TaskFits(task'[u], Items', landed', deleted', sequence')
    BY TasksStay, BecomeFits
<1>2. sequence' \in Nat
    BY DEF Later
<1> QED
    BY <1>1, <1>2 DEF TInv, SyncTypeOK, ClientTyped

LEMMA UserSaveKeeps ==
    ASSUME TInv, NEW id \in Ids, NEW p \in Priorities, UserSave(id, p)
    PROVE  TInv'
<1> DEFINE e    == edits + 1
           card == [id |-> id, version |-> Append(cards[id], [by |-> e, priority |-> p])]
<1>1. /\ edits < MaxEdits /\ edits' = e /\ latest' = [latest EXCEPT ![id] = e]
      /\ cards' = Upsert(card)
      /\ UNCHANGED <<chain, deleted, stamp, sequence, notes, subscribed, root, client, status,
                     remote, landed, fate>>
    BY DEF UserSave, serverVars
<1>2. e \in 1 .. MaxEdits /\ e \in Pushes /\ e \in Int
    BY <1>1, SyncBounds DEF TInv, Pushes
<1>3. /\ latest' \in [Ids -> 0 .. MaxEdits] /\ latest'[id] # 0
      /\ \A i \in Ids : latest[i] # 0 => latest'[i] # 0
    BY <1>1, <1>2 DEF TInv, SyncTypeOK
<1>4. card \in Card /\ card.id = id /\ card.version # Absent
    <2>1. cards[id] \in Version /\ [by |-> e, priority |-> p] \in Body
        BY <1>2 DEF TInv, SyncTypeOK, Body
    <2> QED
        BY <2>1, VersionAppend DEF Card
<1>5. card \in Items'
    BY <1>3, <1>4 DEF Items
<1>6. cards' \in [Ids -> Version]
    BY <1>1, <1>4 DEF TInv, SyncTypeOK, Upsert, Card
<1>7. Later
    BY <1>1, <1>3, ItemsStay DEF Later, TInv, SyncTypeOK
<1>8. ServerInv'
    BY <1>1 DEF TInv, ServerInv
<1> DEFINE r == [IdleTask EXCEPT !.live = (client = "live"), !.card = card]
           new == Send(r, "push", Push(card))
<1>9. \/ offline_queue' = Enqueue(offline_queue, card) /\ UNCHANGED task
      \/ Become(e, new) /\ UNCHANGED offline_queue
    BY DEF UserSave
<1> HIDE DEF card
<1>10. offline_queue' \in Seq(Card) /\ EntriesOf(offline_queue') \subseteq Items'
    <2>1. CASE UNCHANGED offline_queue
        BY <2>1, <1>7 DEF TInv, SyncTypeOK, Later
    <2>2. CASE offline_queue' = Enqueue(offline_queue, card)
        BY <2>2, <1>4, <1>5, <1>7, EnqueueEntries DEF TInv, Later
    <2> QED
        BY <1>9, <2>1, <2>2
<1>11. r \in TaskType /\ r.todo = << >> /\ r.remaining = << >> /\ r.card = card
    BY <1>4, IdleFits DEF IdleTask, TaskType
<1>12. Push(card) \in RequestType /\ "push" \in Places
    BY <1>4, RequestsTyped DEF Places
<1> HIDE DEF r
<1>13. /\ new \in TaskType /\ new.pc = "push" /\ new.request = Push(card)
       /\ new.reply \in {Pending, Lost} /\ new.card = card
       /\ new.todo = << >> /\ new.remaining = << >>
    BY <1>11, <1>12, SendFits
<1> HIDE DEF new
<1>14. TaskFits(new, Items', landed', deleted', sequence')
    <2>1. Asks(new, Items')
        BY <1>5, <1>13 DEF Asks, NoWait, Retries
    <2>2. EntriesOf(<< >>) = {}
        BY DEF EntriesOf
    <2> QED
        BY <2>1, <2>2, <1>13, NoAnswerFits DEF TaskFits
<1>15. ClientTyped'
    <2>1. UNCHANGED <<notes, subscribed, root, client, status, remote, fate>> /\ edits' \in 0 .. MaxEdits
        BY <1>1, <1>2
    <2> QED
        BY <2>1, <1>6, <1>10, ClientIsTyped DEF ClientTyped
<1>16. e \in Tasks
    BY <1>2 DEF Tasks
<1>17. chain' \in [Ids -> Version] /\ deleted' \in SUBSET Ids /\ stamp' \in [Ids -> Nat] /\ landed' \in SUBSET Int
    BY <1>1 DEF TInv, SyncTypeOK
<1> QED
    BY <1>3, <1>7, <1>8, <1>9, <1>14, <1>15, <1>16, <1>17, StepKeeps

LEMMA RemoteKeeps ==
    ASSUME TInv, NEW id \in Ids, RemoteDelete(id) \/ \E p \in Priorities : RemoteSave(id, p)
    PROVE  TInv'
<1>1. UNCHANGED <<subscribed, cards, root, offline_queue, client, status, task, edits, latest,
                  landed, fate>>
    BY DEF RemoteSave, RemoteDelete, historyVars
<1>2. remote' \in Nat
    <2>1. remote \in Nat /\ remote' = remote + 1
        BY DEF RemoteSave, RemoteDelete, TInv
    <2> QED
        BY <2>1
<1>3. \E version \in Version, gone \in SUBSET Ids :
          /\ \/ version # Absent /\ gone = {} /\ id \notin deleted
             \/ version = Absent /\ gone = {id}
          /\ Publish(id, version, gone)
    <2>1. CASE RemoteDelete(id)
        <3>1. Absent \in Version /\ {id} \in SUBSET Ids /\ Publish(id, Absent, {id})
            BY <2>1 DEF RemoteDelete, Absent, Version
        <3> QED
            BY <3>1
    <2>2. CASE \E p \in Priorities : RemoteSave(id, p)
        <3>1. PICK p \in Priorities : RemoteSave(id, p)
            BY <2>2
        <3> DEFINE b == [by |-> -remote - 1, priority |-> p]
        <3>2. b \in Body /\ chain[id] \in Version
            BY DEF TInv, SyncTypeOK, Body
        <3>3. Publish(id, Append(chain[id], b), {}) /\ id \notin deleted
            BY <3>1 DEF RemoteSave
        <3> HIDE DEF b
        <3> QED
            BY <3>2, <3>3, VersionAppend
    <2> QED
        BY <2>1, <2>2
<1>4. /\ chain' \in [Ids -> Version] /\ deleted' \in SUBSET Ids
      /\ stamp' \in [Ids -> Nat] /\ sequence' \in Nat /\ notes' \in SUBSET Nat
      /\ ServerInv' /\ deleted \subseteq deleted' /\ sequence' = sequence + 1
    BY <1>3, PublishKeeps
<1>5. Items' = Items
    BY <1>1 DEF Items
<1>6. Later
    BY <1>1, <1>4, <1>5 DEF Later, TInv, SyncTypeOK
<1>7. ClientTyped'
    BY <1>1, <1>2, <1>4, <1>5, ClientIsTyped DEF ClientTyped
<1>8. latest' \in [Ids -> 0 .. MaxEdits] /\ landed' \in SUBSET Int
    BY <1>1 DEF TInv, SyncTypeOK
<1> QED
    BY <1>1, <1>4, <1>6, <1>7, <1>8, StepKeeps

LEMMA UserDeleteKeeps ==
    ASSUME TInv, NEW id \in Ids, UserDelete(id) PROVE TInv'
<1> DEFINE e == edits + 1
           r == [IdleTask EXCEPT !.live = (client = "live"),
                                 !.card = [id |-> id, version |-> cards[id]]]
           q == [op |-> "delete", id |-> id]
<1>1. /\ ServerStays /\ edits' = e /\ Become(e, Send(r, "delete", q))
      /\ UNCHANGED <<notes, subscribed, cards, root, offline_queue, client, status, remote, fate>>
    BY DEF UserDelete, ServerStays, serverVars, historyVars
<1>2. e \in 1 .. MaxEdits /\ e \in Tasks
    BY SyncBounds DEF UserDelete, TInv, Tasks, Pushes
<1>3. [id |-> id, version |-> cards[id]] \in Card
    BY DEF TInv, SyncTypeOK, Card
<1>4. r \in TaskType /\ r.todo = << >> /\ r.remaining = << >> /\ r.card.id = id
    BY <1>3, IdleFits DEF IdleTask, TaskType
<1>5. q \in RequestType
    BY RequestsTyped
<1>6. EntriesOf(<< >>) = {}
    BY DEF EntriesOf
<1> HIDE DEF r
<1>7. Fits(Send(r, "delete", q))
    BY <1>4, <1>5, <1>6, AskFits
<1>8. ClientTyped'
    BY <1>1, <1>2, ClientIsTyped, ServerStaysLater DEF ClientTyped
<1> QED
    BY <1>1, <1>2, <1>7, <1>8, StayKeeps

-----------------------------------------------------------------------------
(* The tasks of a save or a delete *)

\* What such a step may do to the list: what it shows of a card the user never
\* saved is as it was, or the card is a tombstone.
PushOutcome(e) ==
    /\ \E new : Become(e, new) /\ Fits(new)
    /\ cards' \in [Ids -> Version]
    /\ \A id \in Ids : latest[id] = 0 /\ cards'[id] # cards[id] =>
                          cards'[id] = Absent /\ id \in deleted
    /\ offline_queue' \in Seq(Card) /\ EntriesOf(offline_queue') \subseteq Items

LEMMA IdleAgain ==
    ASSUME TInv PROVE Fits(IdleTask)
BY IdleFits DEF Fits

LEMMA QueueStays ==
    ASSUME TInv, UNCHANGED offline_queue
    PROVE  offline_queue' \in Seq(Card) /\ EntriesOf(offline_queue') \subseteq Items
BY DEF TInv, SyncTypeOK

LEMMA ListStays ==
    ASSUME TInv, UNCHANGED cards
    PROVE  cards' \in [Ids -> Version] /\ \A id \in Ids : cards'[id] = cards[id]
BY DEF TInv, SyncTypeOK

LEMMA DeleteReplyOutcome ==
    ASSUME TInv, NEW e \in Pushes, DeleteReply(e) PROVE PushOutcome(e)
<1> DEFINE r == task[e]
<1>1. e \in Tasks /\ At(e, "delete")
    BY DEF Tasks, DeleteReply
<1>2. Fits(r) /\ r \in TaskType
    BY <1>1 DEF TInv, Fits, TaskFits
<1>3. r.card.id \in Ids /\ r.request = [op |-> "delete", id |-> r.card.id]
    BY <1>1, <1>2 DEF Fits, TaskFits, Asks, At, TaskType, Card
<1>4. Reply(e).kind = "Ok" => r.card.id \in deleted
    BY <1>2, <1>3 DEF Fits, TaskFits, Answers, Reply
<1>5. Become(e, IdleTask) /\ UNCHANGED offline_queue
    BY DEF DeleteReply
<1>6. /\ cards' \in [Ids -> Version]
      /\ \A id \in Ids : cards'[id] # cards[id] => cards'[id] = Absent /\ id \in deleted
    BY <1>3, <1>4 DEF DeleteReply, TInv, SyncTypeOK, Absent, Version
<1> QED
    BY <1>5, <1>6, IdleAgain, QueueStays DEF PushOutcome

LEMMA PushedOutcome ==
    ASSUME TInv, NEW e \in Pushes, NEW card \in Items, Pushed(e, card)
    PROVE  /\ \E new : Become(e, new) /\ Fits(new)
           /\ offline_queue' \in Seq(Card) /\ EntriesOf(offline_queue') \subseteq Items
<1>1. offline_queue' = Without(offline_queue, card.id) /\ Become(e, IdleTask)
    BY DEF Pushed
<1>2. offline_queue \in Seq(Card) /\ EntriesOf(offline_queue) \subseteq Items
    BY DEF TInv, SyncTypeOK
<1> QED
    BY <1>1, <1>2, WithoutEntries, IdleAgain

LEMMA QueuedOutcome ==
    ASSUME TInv, NEW e \in Pushes, NEW card \in Items, Queued(e, card)
    PROVE  PushOutcome(e)
<1>1. offline_queue' = Enqueue(offline_queue, card) /\ Become(e, IdleTask) /\ UNCHANGED cards
    BY DEF Queued
<1>2. offline_queue' \in Seq(Card) /\ EntriesOf(offline_queue') \subseteq Items
    BY <1>1, EnqueueEntries, ItemsAreCards DEF TInv
<1> QED
    BY <1>1, <1>2, IdleAgain, ListStays DEF PushOutcome

LEMMA PushStepOutcome ==
    ASSUME TInv, NEW e \in Pushes, PushStep(e)
    PROVE  PushOutcome(e)
<1> DEFINE r    == task[e]
           card == task[e].card
<1>1. e \in Tasks /\ Absent \in Version
    BY DEF Tasks, Absent, Version
<1>2. Fits(r) /\ r \in TaskType
    BY <1>1 DEF TInv, Fits, TaskFits
<1>3. CASE DeleteReply(e)
    BY <1>3, DeleteReplyOutcome
<1>4. CASE PushReply(e)
    <2> DEFINE priority == Tip(card.version).priority
               Retry(pc, retry) == /\ Become(e, Send([r EXCEPT !.retry = retry], pc, Push(retry)))
                                   /\ UNCHANGED <<cards, offline_queue>>
    <2>1. At(e, "push") /\ r.pc = "push"
        BY <1>4 DEF PushReply, At
    <2>2. card \in Items /\ r.request = Push(card)
        BY <1>2, <2>1 DEF Fits, TaskFits, Asks
    <2>3. Reply(e).kind = "AncestorMismatch" => Reply(e).version \in Version
        BY <1>2, <2>2 DEF Fits, TaskFits, Answers, Push, Reply
    <2>4. priority \in Priorities
        BY <2>2, TipTyped DEF Items, Card, Body
    <2>5. ASSUME NEW pc \in Retries, NEW v \in Version, Retry(pc, rebuild_card(card, priority, v))
          PROVE  PushOutcome(e)
        <3> DEFINE retry == rebuild_card(card, priority, v)
        <3>1. retry \in Items /\ SameEdit(retry, card)
            BY <2>2, <2>4, RebuildFits
        <3>2. Become(e, Send([task[e] EXCEPT !.retry = retry], pc, Push(retry)))
            BY <2>5
        <3> HIDE DEF retry
        <3>3. \E new : Become(e, new) /\ Fits(new)
            BY <1>1, <2>2, <3>1, <3>2, RetryFits
        <3> QED
            BY <2>5, <3>3, ListStays, QueueStays DEF PushOutcome
    <2>6. CASE Pushed(e, card) /\ UNCHANGED cards
        BY <2>2, <2>6, PushedOutcome, ListStays DEF PushOutcome
    <2>7. CASE /\ Reply(e).kind = "AncestorMismatch"
               /\ Retry("pushRebased", rebuild_card(card, priority, Reply(e).version))
        BY <2>3, <2>5, <2>7 DEF Retries
    <2>8. CASE Retry("pushRecreated", rebuild_card(card, priority, Absent))
        BY <1>1, <2>5, <2>8 DEF Retries
    <2>9. CASE Queued(e, card)
        BY <2>2, <2>9, QueuedOutcome
    <2> QED
        BY <1>4, <2>6, <2>7, <2>8, <2>9 DEF PushReply
<1>5. CASE PushRetryReply(e)
    <2> DEFINE kept == IF r.pc = "pushRebased" THEN r.card ELSE r.retry
    <2>1. r.card \in Items /\ r.retry \in Items
        BY <1>2, <1>5 DEF PushRetryReply, At, Fits, TaskFits, Asks, Retries
    <2>2. CASE Pushed(e, r.card) /\ cards' = Upsert(r.retry)
        BY <2>1, <2>2, PushedOutcome, UpsertTyped DEF PushOutcome
    <2>3. CASE Queued(e, kept)
        BY <2>1, <2>3, QueuedOutcome
    <2> QED
        BY <1>5, <2>2, <2>3 DEF PushRetryReply
<1> QED
    BY <1>3, <1>4, <1>5 DEF PushStep

LEMMA PushStepKeeps ==
    ASSUME TInv, NEW e \in Pushes, PushStep(e) PROVE TInv'
<1>1. PushOutcome(e) /\ e \in Tasks
    BY PushStepOutcome DEF Tasks
<1>2. /\ ServerStays
      /\ UNCHANGED <<notes, subscribed, root, client, status, edits, remote, fate>>
    BY DEF PushStep, ServerStays, serverVars, counters, historyVars
<1>3. ClientTyped'
    BY <1>1, <1>2, ClientIsTyped, ServerStaysLater DEF ClientTyped, PushOutcome
<1> QED
    BY <1>1, <1>2, <1>3, StayKeeps DEF PushOutcome

-----------------------------------------------------------------------------
(* The syncs and the connection task *)

LEMMA FlushStepKeeps ==
    ASSUME TInv, NEW t \in Tasks, FlushStep(t) PROVE TInv'
<1>1. /\ FlushOutcome(t) /\ ServerStays
      /\ UNCHANGED <<notes, subscribed, root, client, status, edits, remote>>
    BY FlushStepOutcome DEF ServerStays, FlushStep, counters
<1>2. Fits(task[t])
    BY DEF TInv, Fits
<1>3. /\ \E new : Become(t, new) /\ Fits(new)
      /\ offline_queue' \in Seq(Card) /\ EntriesOf(offline_queue') \subseteq Items
    <2>1. CASE UNCHANGED offline_queue /\ \E new : Waits(t, new)
        BY <2>1, QueueStays DEF Waits
    <2>2. ASSUME NEW kept \in SUBSET Items, Ended(t, kept)
          PROVE  /\ \E new : Become(t, new) /\ Fits(new)
                 /\ offline_queue' \in Seq(Card) /\ EntriesOf(offline_queue') \subseteq Items
        <3>1. PICK new, todo, remaining :
                  /\ Through(t, new, todo, remaining)
                  /\ todo \cup remaining = EntriesOf(task[t].todo) \cup EntriesOf(task[t].remaining) \cup kept
            BY <2>2 DEF Ended
        <3>2. remaining \subseteq Items
            BY <1>2, <3>1 DEF Fits, TaskFits
        <3> QED
            BY <3>1, <3>2 DEF Through, TInv
    <2> QED
        BY <1>1, <2>1, <2>2 DEF FlushOutcome, CardEnds
<1>4. ClientTyped'
    BY <1>1, <1>3, ClientIsTyped, ServerStaysLater DEF ClientTyped, FlushOutcome
<1> QED
    BY <1>1, <1>3, <1>4, StayKeeps

LEMMA BeginsKeeps ==
    ASSUME TInv, NEW t \in Tasks, Begins(t), ServerStays,
           UNCHANGED <<notes, subscribed, cards, root, edits, remote>>,
           client' \in {"none", "live", "dead"},
           status' \in {"Disconnected", "Syncing", "Connected"}
    PROVE  TInv'
<1>1. /\ \E new : Become(t, new) /\ Fits(new)
      /\ offline_queue' \in Seq(Card) /\ EntriesOf(offline_queue') \subseteq Items
      /\ fate' \in [Pushes -> {"open", "toast", "reconciled", "deleted"}]
    <2>1. CASE /\ UNCHANGED <<offline_queue, fate>>
               /\ \E new : Become(t, new) /\ Fits(new) /\ new.pc = "flushed"
        BY <2>1, QueueStays, NothingMoves
    <2>2. CASE /\ \E new, todo : /\ Through(t, new, todo, {})
                                 /\ todo \subseteq EntriesOf(offline_queue)
               /\ fate' \in [Pushes -> {"open", "toast", "reconciled", "deleted"}]
        BY <2>2 DEF Through, TInv
    <2> QED
        BY <2>1, <2>2 DEF Begins
<1>2. ClientTyped'
    BY <1>1, ClientIsTyped, ServerStaysLater DEF ClientTyped
<1> QED
    BY <1>1, <1>2, StayKeeps

LEMMA AfterFits ==
    ASSUME NEW r, Fits(r), NEW after \in {"end", "online", "subscribe", "listen"}
    PROVE  /\ Fits([r EXCEPT !.after = after])
           /\ [r EXCEPT !.after = after].pc = r.pc
<1> DEFINE s == [r EXCEPT !.after = after]
<1>1. /\ s \in TaskType /\ s.reply = r.reply /\ s.pc = r.pc /\ s.request = r.request
      /\ s.card = r.card /\ s.retry = r.retry /\ s.todo = r.todo /\ s.remaining = r.remaining
    BY DEF TaskType, Fits, TaskFits
<1> HIDE DEF s
<1>2. Asks(s, Items)
    BY <1>1 DEF Asks, Fits, TaskFits
<1>3. Fits(s)
    BY <1>1, <1>2 DEF Fits, TaskFits
<1> QED
    BY <1>1, <1>3 DEF s

LEMMA LostFits ==
    ASSUME NEW r, Fits(r)
    PROVE  Fits([r EXCEPT !.live = FALSE,
                          !.reply = IF r.request # NoRequest THEN Lost ELSE @])
<1> DEFINE a == IF r.request # NoRequest THEN Lost ELSE r.reply
           s == [r EXCEPT !.live = FALSE, !.reply = a]
<1>1. a \in ReplyType
    BY DEF Fits, TaskFits, TaskType, ReplyType, Lost
<1>2. Answers(r.request, a, landed, deleted, sequence)
    BY NoAnswerFits DEF Fits, TaskFits
<1> HIDE DEF a
<1>3. /\ s \in TaskType /\ s.reply = a /\ s.pc = r.pc /\ s.request = r.request
      /\ s.card = r.card /\ s.retry = r.retry /\ s.todo = r.todo /\ s.remaining = r.remaining
    BY <1>1 DEF TaskType, Fits, TaskFits
<1> HIDE DEF s
<1>4. Asks(s, Items)
    BY <1>3 DEF Asks, Fits, TaskFits
<1>5. Fits(s)
    BY <1>2, <1>3, <1>4 DEF Fits, TaskFits
<1>6. [r EXCEPT !.live = FALSE, !.reply = IF r.request # NoRequest THEN Lost ELSE @] = s
    BY DEF s, a
<1> QED
    BY <1>5, <1>6

LEMMA LoseKeeps ==
    ASSUME TInv, Lose PROVE TInv'
<1>1. /\ UNCHANGED <<chain, deleted, stamp, sequence, cards, root, offline_queue, status, edits, remote,
                     latest, landed, fate>>
      /\ subscribed' = "no" /\ notes' = {}
      /\ client' = IF client = "live" THEN "dead" ELSE client
    BY DEF Lose, serverVars, historyVars
<1>2. ServerStays /\ Items' = Items
    BY <1>1 DEF ServerStays, Items
<1>3. task' = [t \in Tasks |->
                  [task[t] EXCEPT !.live = FALSE,
                                  !.reply = IF task[t].request # NoRequest THEN Lost ELSE @]]
    BY DEF Lose
<1>4. \A t \in Tasks : Fits(task'[t])
    <2> TAKE t \in Tasks
    <2>1. Fits(task[t])
        BY DEF TInv, Fits
    <2> QED
        BY <2>1, <1>3, LostFits
<1>5. task' \in [Tasks -> TaskType]
    BY <1>3, <1>4 DEF Fits, TaskFits
<1>6. \A t \in Tasks : TaskFits(task'[t], Items', landed', deleted', sequence')
    BY <1>1, <1>2, <1>4 DEF Fits
<1>7. ServerInv'
    BY <1>1 DEF TInv, ServerInv
<1> QED
    BY <1>1, <1>2, <1>5, <1>6, <1>7 DEF TInv, SyncTypeOK

LEMMA DownFits ==
    ASSUME TInv, NEW t
    PROVE  Fits(IF t = conn THEN [IdleTask EXCEPT !.pc = "down"] ELSE IdleTask)
BY IdleFits DEF Fits

LEMMA ConnFits ==
    ASSUME TInv PROVE /\ conn \in Tasks /\ auto \in Tasks /\ conn \in Syncs /\ auto \in Syncs
                      /\ \A t \in Tasks : /\ Fits(task[t]) /\ task[t] \in TaskType
                                          /\ EntriesOf(task[t].todo) \subseteq Items
                                          /\ EntriesOf(task[t].remaining) \subseteq Items
BY DEF Tasks, Syncs, TInv, Fits, TaskFits

LEMMA MergeTyped ==
    ASSUME NEW list \in [Ids -> Version], NEW a, a.cards \in [Ids -> Version]
    PROVE  apply_card_changeset(list, a) \in [Ids -> Version]
<1>1. Absent \in Version
    BY DEF Absent, Version
<1> QED
    BY <1>1 DEF apply_card_changeset

LEMMA SyncReplyKeeps ==
    ASSUME TInv, NEW t \in Syncs, SyncReply(t) PROVE TInv'
<1> DEFINE r == task[t]
<1>1. t \in Tasks /\ At(t, "sync") /\ r.pc = "sync"
    BY DEF Tasks, SyncReply, At
<1>2. Fits(r)
    BY <1>1, ConnFits
<1>3. /\ ServerStays
      /\ UNCHANGED <<notes, subscribed, offline_queue, client, edits, remote, fate>>
    BY DEF SyncReply, ServerStays, serverVars, counters, historyVars
<1>4. /\ r.request.op \in {"all", "since"}
      /\ Reply(t).kind = "Ok" => Reply(t).root \in Nat /\ Reply(t).cards \in [Ids -> Version]
    <2>1. r.request.op \in {"all", "since"} /\ Answers(r.request, r.reply, landed, deleted, sequence)
        BY <1>1, <1>2 DEF Fits, TaskFits, Asks
    <2>2. sequence \in Nat
        BY DEF TInv, SyncTypeOK
    <2> QED
        BY <2>1, <2>2 DEF Answers, Reply
<1>5. CASE Reply(t).kind = "Ok" /\ root' = Reply(t).root /\ UNCHANGED status
    <2>1. /\ \/ cards' = apply_card_changeset(cards, Reply(t))
             \/ cards' = apply_card_changeset([id \in Ids |-> Absent], Reply(t))
          /\ \E pc \in NoWait : Become(t, [r EXCEPT !.pc = pc, !.request = NoRequest])
        BY <1>5 DEF SyncReply, NoWait
    <2>2. [id \in Ids |-> Absent] \in [Ids -> Version] /\ cards \in [Ids -> Version]
        BY DEF TInv, SyncTypeOK, Absent, Version
    <2>3. cards' \in [Ids -> Version]
        BY <1>4, <1>5, <2>1, <2>2, MergeTyped
    <2>4. \E new : Become(t, new) /\ Fits(new)
        BY <1>2, <2>1, RestFits
    <2>5. ClientTyped'
        BY <1>3, <1>4, <1>5, <2>3, ClientIsTyped, ServerStaysLater DEF ClientTyped
    <2> QED
        BY <1>1, <1>3, <2>4, <2>5, StayKeeps
<1>6. CASE Reply(t).kind = "ConnectionLost" /\ SyncFailed(t) /\ UNCHANGED <<cards, root>>
    <2>1. \E new : Become(t, new) /\ Fits(new)
        BY <1>6, DownFits DEF SyncFailed
    <2>2. ClientTyped'
        BY <1>3, <1>6, ClientIsTyped, ServerStaysLater DEF ClientTyped, SyncFailed
    <2> QED
        BY <1>1, <1>3, <2>1, <2>2, StayKeeps
<1> QED
    BY <1>5, <1>6 DEF SyncReply

LEMMA StartFlushBegins ==
    ASSUME TInv, NEW t \in Tasks, StartFlush(t) PROVE Begins(t) /\ TInv'
<1>1. BeginFlush(t, task[t]) /\ task[t].pc \in NoWait /\ ServerStays
    BY DEF StartFlush, NoWait, ServerStays, serverVars
<1>2. Begins(t)
    BY <1>1, ConnFits, BeginFlushOutcome
<1>3. UNCHANGED <<notes, subscribed, cards, root, edits, remote, client, status>>
    BY DEF StartFlush, counters
<1>4. client' \in {"none", "live", "dead"} /\ status' \in {"Disconnected", "Syncing", "Connected"}
    BY <1>3 DEF TInv, SyncTypeOK
<1> QED
    BY <1>1, <1>2, <1>3, <1>4, BeginsKeeps

LEMMA GoOnlineBegins ==
    ASSUME TInv, GoOnline PROVE Begins(conn) /\ TInv'
<1> DEFINE r == [Conn EXCEPT !.after = "subscribe"]
<1>1. BeginFlush(conn, r) /\ Conn.pc = "flushed" /\ ServerStays /\ conn \in Tasks
    BY ConnFits DEF GoOnline, ServerStays, serverVars
<1>2. Fits(r) /\ r.pc \in NoWait
    BY <1>1, ConnFits, AfterFits DEF Conn, NoWait
<1>3. r \in TaskType
    BY <1>2 DEF Fits, TaskFits
<1>4. Begins(conn)
    BY <1>1, <1>2, <1>3, BeginFlushOutcome
<1>5. UNCHANGED <<notes, subscribed, cards, root, edits, remote>>
    BY DEF GoOnline, counters
<1>6. client' \in {"none", "live", "dead"} /\ status' \in {"Disconnected", "Syncing", "Connected"}
    BY DEF GoOnline
<1> QED
    BY <1>1, <1>4, <1>5, <1>6, BeginsKeeps

\* The other steps of the periodic sync and of the connection task.
QuietStep ==
    Register \/ AutoSync \/ AutoSyncEnd \/ Connect \/ Subscribe \/ SubscribeReply \/ Notified
    \/ Resume \/ StreamEnds

\* They make no change to the data, and a task they move is not in a flush.
LEMMA QuietOutcome ==
    ASSUME TInv, QuietStep
    PROVE  /\ ServerStays
           /\ UNCHANGED <<cards, root, offline_queue, fate, edits, remote>>
           /\ notes' \in SUBSET Nat /\ subscribed' \in {"no", "answered", "yes"}
           /\ client' \in {"none", "live", "dead"}
           /\ status' \in {"Disconnected", "Syncing", "Connected"}
           /\ \/ UNCHANGED task
              \/ \E t \in Syncs : \E new : Become(t, new) /\ Fits(new) /\ new.pc \notin FlushSteps
<1>1. ServerStays
    BY DEF QuietStep, Register, AutoSync, AutoSyncEnd, Connect, Subscribe, SubscribeReply, Notified,
           Resume, StreamEnds, ServerStays, serverVars, historyVars
<1>2. UNCHANGED <<cards, root, offline_queue, fate, edits, remote>>
    BY DEF QuietStep, Register, AutoSync, AutoSyncEnd, Connect, Subscribe, SubscribeReply, Notified,
           Resume, StreamEnds, counters, historyVars
<1>3. /\ notes' \in SUBSET Nat /\ subscribed' \in {"no", "answered", "yes"}
      /\ client' \in {"none", "live", "dead"}
      /\ status' \in {"Disconnected", "Syncing", "Connected"}
    BY DEF QuietStep, Register, AutoSync, AutoSyncEnd, Connect, Subscribe, SubscribeReply, Notified,
           Resume, StreamEnds, SyncFailed, TInv, SyncTypeOK
<1> DEFINE down == [IdleTask EXCEPT !.pc = "down"]
<1>4. /\ Fits(IdleTask) /\ Fits(down) /\ IdleTask.pc \notin FlushSteps /\ down.pc \notin FlushSteps
    <2>1. IdleTask.pc = "idle" /\ IdleTask \in TaskType
        BY IdleFits DEF IdleTask
    <2>2. down.pc = "down"
        BY <2>1 DEF TaskType
    <2> QED
        BY <2>1, <2>2, IdleFits DEF Fits, FlushSteps
<1>5. ASSUME NEW live \in BOOLEAN, NEW after \in {"end", "online", "subscribe", "listen"}
      PROVE  LET r == [IdleTask EXCEPT !.live = live, !.after = after]
             IN  r \in TaskType /\ r.todo = << >> /\ r.remaining = << >>
    BY IdleFits DEF IdleTask, TaskType
<1>6. ASSUME NEW r \in TaskType, EntriesOf(r.todo) \subseteq Items, EntriesOf(r.remaining) \subseteq Items
      PROVE  Fits(Send(r, "sync", ChangesSince)) /\ Send(r, "sync", ChangesSince).pc \notin FlushSteps
    BY <1>6, SyncAskFits DEF Send, TaskType, FlushSteps
<1>7. EntriesOf(<< >>) = {}
    BY DEF EntriesOf
<1>8. CASE Register
    BY <1>1, <1>2, <1>3, <1>8 DEF Register
<1>9. CASE AutoSync
    <2> DEFINE r == [IdleTask EXCEPT !.live = (client = "live")]
    <2>1. r \in TaskType /\ r.todo = << >> /\ r.remaining = << >>
        BY IdleFits DEF IdleTask, TaskType
    <2>2. Become(auto, Send(r, "sync", ChangesSince))
        BY <1>9 DEF AutoSync
    <2> HIDE DEF r
    <2> QED
        BY <1>1, <1>2, <1>3, <1>6, <1>7, <2>1, <2>2, ConnFits
<1>10. CASE AutoSyncEnd
    BY <1>1, <1>2, <1>3, <1>4, <1>10, ConnFits DEF AutoSyncEnd
<1>11. CASE Connect
    <2> DEFINE r == [IdleTask EXCEPT !.live = TRUE, !.after = "online"]
    <2>1. r \in TaskType /\ r.todo = << >> /\ r.remaining = << >>
        BY <1>5
    <2>2. Become(conn, Send(r, "sync", ChangesSince))
        BY <1>11 DEF Connect
    <2> HIDE DEF r
    <2> QED
        BY <1>1, <1>2, <1>3, <1>6, <1>7, <2>1, <2>2, ConnFits
<1>12. CASE Subscribe
    <2> DEFINE q   == [op |-> "subscribe"]
               new == Send(Conn, "subscribe", q)
    <2>1. Become(conn, new) /\ q \in RequestType
        BY <1>12, RequestsTyped DEF Subscribe
    <2>2. Fits(new) /\ new.pc \notin FlushSteps
        BY <2>1, ConnFits, AskFits DEF Conn, Send, TaskType, FlushSteps
    <2> HIDE DEF new
    <2> QED
        BY <1>1, <1>2, <1>3, <2>1, <2>2, ConnFits
<1>13. CASE SubscribeReply
    <2>1. CASE SyncFailed(conn)
        BY <1>1, <1>2, <1>3, <1>4, <2>1, ConnFits DEF SyncFailed
    <2>2. CASE Become(conn, [Conn EXCEPT !.pc = "listen", !.request = NoRequest, !.after = "listen"])
        <3> DEFINE r   == [Conn EXCEPT !.pc = "listen", !.request = NoRequest]
                   new == [r EXCEPT !.after = "listen"]
        <3>1. Fits(r) /\ Fits(new) /\ new.pc = r.pc
            BY ConnFits, RestFits, AfterFits DEF Conn, NoWait
        <3>2. /\ r.pc = "listen"
              /\ new = [Conn EXCEPT !.pc = "listen", !.request = NoRequest, !.after = "listen"]
            BY ConnFits DEF Conn, TaskType
        <3>3. new.pc \notin FlushSteps
            BY <3>1, <3>2 DEF FlushSteps
        <3> HIDE DEF r
        <3> QED
            BY <1>1, <1>2, <1>3, <2>2, <3>1, <3>2, <3>3, ConnFits
    <2> QED
        BY <1>13, <2>1, <2>2 DEF SubscribeReply
<1>14. CASE Notified
    <2>1. CASE UNCHANGED task
        BY <1>1, <1>2, <1>3, <2>1
    <2>2. CASE Become(conn, Send(Conn, "sync", ChangesSince))
        BY <1>1, <1>2, <1>3, <1>6, <2>2, ConnFits DEF Conn
    <2> QED
        BY <1>14, <2>1, <2>2 DEF Notified
<1>15. CASE Resume
    <2> DEFINE new == [Conn EXCEPT !.pc = "listen"]
    <2>1. Become(conn, new) /\ Conn.pc \in NoWait
        BY <1>15 DEF Resume, NoWait
    <2>2. Conn.request = NoRequest /\ Conn \in TaskType /\ Fits(Conn)
        BY <2>1, ConnFits DEF Conn, Fits, TaskFits, Asks
    <2>3. new = [Conn EXCEPT !.pc = "listen", !.request = NoRequest] /\ new.pc = "listen"
        BY <2>2 DEF TaskType
    <2>4. Fits(new)
        BY <2>2, <2>3, RestFits DEF NoWait
    <2>5. new.pc \notin FlushSteps
        BY <2>3 DEF FlushSteps
    <2> HIDE DEF new
    <2> QED
        BY <1>1, <1>2, <1>3, <2>1, <2>4, <2>5, ConnFits
<1>16. CASE StreamEnds
    BY <1>1, <1>2, <1>3, <1>4, <1>16, ConnFits DEF StreamEnds, SyncFailed
<1> QED
    BY <1>8, <1>9, <1>10, <1>11, <1>12, <1>13, <1>14, <1>15, <1>16 DEF QuietStep

LEMMA QuietKeeps ==
    ASSUME TInv, QuietStep PROVE TInv'
<1>1. ClientTyped'
    BY QuietOutcome, ClientIsTyped, ServerStaysLater DEF ClientTyped
<1>2. UNCHANGED task \/ \E t \in Tasks : \E new : Become(t, new) /\ Fits(new)
    BY QuietOutcome DEF Tasks
<1> QED
    BY <1>1, <1>2, QuietOutcome, StayKeeps

LEMMA NextSteps ==
    ASSUME [Next]_vars
    PROVE  \/ \E id \in Ids, p \in Priorities : UserSave(id, p)
           \/ \E id \in Ids : UserDelete(id)
           \/ \E id \in Ids : RemoteDelete(id) \/ \E p \in Priorities : RemoteSave(id, p)
           \/ \E t \in Tasks : Serve(t)
           \/ \E e \in Pushes : PushStep(e)
           \/ \E t \in Syncs : SyncReply(t)
           \/ \E t \in Syncs : StartFlush(t)
           \/ \E t \in Syncs : FlushStep(t)
           \/ GoOnline
           \/ QuietStep
           \/ Lose
           \/ UNCHANGED vars
BY DEF Next, SyncStep, ConnStep, QuietStep

LEMMA StutterKeeps ==
    ASSUME TInv, UNCHANGED vars PROVE TInv'
<1>1. ServerStays /\ UNCHANGED task
    BY DEF vars, serverVars, historyVars, ServerStays
<1>2. UNCHANGED <<notes, subscribed, cards, root, offline_queue, client, status, edits, remote, fate>>
    BY DEF vars, counters, historyVars
<1>3. ClientTyped'
    BY <1>1, <1>2, ClientIsTyped, ServerStaysLater DEF ClientTyped
<1> QED
    BY <1>1, <1>3, StayKeeps

LEMMA TInvNext == TInv /\ [Next]_vars => TInv'
<1> SUFFICES ASSUME TInv, [Next]_vars PROVE TInv'
    OBVIOUS
<1>1. \A t \in Syncs : t \in Tasks
    BY DEF Tasks
<1>2. CASE \E id \in Ids, p \in Priorities : UserSave(id, p)
    BY <1>2, UserSaveKeeps
<1>3. CASE \E id \in Ids : UserDelete(id)
    BY <1>3, UserDeleteKeeps
<1>4. CASE \E id \in Ids : RemoteDelete(id) \/ \E p \in Priorities : RemoteSave(id, p)
    BY <1>4, RemoteKeeps
<1>5. CASE \E t \in Tasks : Serve(t)
    BY <1>5, ServeKeeps
<1>6. CASE \E e \in Pushes : PushStep(e)
    BY <1>6, PushStepKeeps
<1>7. CASE \E t \in Syncs : SyncReply(t)
    BY <1>7, SyncReplyKeeps
<1>8. CASE \E t \in Syncs : StartFlush(t)
    BY <1>1, <1>8, StartFlushBegins
<1>9. CASE \E t \in Syncs : FlushStep(t)
    BY <1>1, <1>9, FlushStepKeeps
<1>10. CASE GoOnline
    BY <1>10, GoOnlineBegins
<1>11. CASE QuietStep
    BY <1>11, QuietKeeps
<1>12. CASE Lose
    BY <1>12, LoseKeeps
<1>13. CASE UNCHANGED vars
    BY <1>13, StutterKeeps
<1> QED
    BY <1>2, <1>3, <1>4, <1>5, <1>6, <1>7, <1>8, <1>9, <1>10, <1>11, <1>12, <1>13, NextSteps

\* The client's state keeps its types, and each task waits for the answer its
\* place in the code can handle (sync.rs, app.rs).
THEOREM SyncTypesCorrect == Spec => [](SyncTypeOK /\ TasksFit)
<1>1. TInv => SyncTypeOK /\ TasksFit
    BY DEF TInv, TasksFit
<1> QED
    BY <1>1, TInvInit, TInvNext, PTL DEF Spec

-----------------------------------------------------------------------------
(* Freshness.  Without the periodic sync only the connection task asks for  *)
(* changes, so the answer it waits for continues the list from its root:    *)
(* applied to the list as it is now, it leaves out only later changes.      *)

FreshIn(list, at) ==
    \A id \in Ids : latest[id] = 0 /\ list[id] # chain[id] => stamp[id] > at

\* The list an answer is applied to.
Base(op) == IF op = "since" THEN cards ELSE [id \in Ids |-> Absent]

AnswerFresh(r) ==
    r.pc = "sync" =>
        /\ r.request.op = "since" => root # NoRoot /\ r.request.sequence = root
        /\ r.reply.kind = "Ok" =>
              FreshIn(apply_card_changeset(Base(r.request.op), r.reply), r.reply.root)

FInv ==
    /\ TInv /\ task[auto].pc = "idle"
    /\ root <= sequence
    /\ root # NoRoot => FreshIn(cards, root)
    /\ AnswerFresh(task[conn])

LEMMA FInvInit == Init => FInv
<1> SUFFICES ASSUME Init PROVE FInv
    OBVIOUS
<1>1. TInv
    BY TInvInit
<1>2. root = NoRoot /\ sequence = 0 /\ root <= sequence
    BY DEF Init, NoRoot
<1>3. task[conn] = [IdleTask EXCEPT !.pc = "down"] /\ task[auto] = IdleTask
    BY <1>1, ConnFits DEF Init, conn, auto
<1>4. task[conn].pc = "down" /\ task[auto].pc = "idle"
    BY <1>3, IdleFits DEF IdleTask, TaskType
<1> QED
    BY <1>1, <1>2, <1>4 DEF FInv, AnswerFresh

\* What every step does to a card the user never saves: a change of the server
\* is stamped later than all before, and the list changes at most to what the
\* server has.  Answers to syncs are apart.
Onward ==
    \A id \in Ids :
        /\ latest'[id] = 0 => latest[id] = 0
        /\ \/ chain'[id] = chain[id] /\ stamp'[id] = stamp[id]
           \/ stamp'[id] > sequence
        /\ latest'[id] = 0 /\ cards'[id] # cards[id] =>
              cards'[id] = Absent /\ chain'[id] = Absent

LEMMA FreshStays ==
    ASSUME FInv, Onward, TInv', NEW list, NEW list2, NEW at \in Int, at <= sequence, FreshIn(list, at),
           \A id \in Ids : latest'[id] = 0 /\ list2[id] # list[id] =>
                               list2[id] = Absent /\ chain'[id] = Absent
    PROVE  \A id \in Ids : latest'[id] = 0 /\ list2[id] # chain'[id] => stamp'[id] > at
<1> SUFFICES ASSUME NEW id \in Ids, latest'[id] = 0, list2[id] # chain'[id]
             PROVE  stamp'[id] > at
    OBVIOUS
<1>1. stamp'[id] \in Nat /\ stamp[id] \in Nat /\ sequence \in Nat
    BY DEF FInv, TInv, SyncTypeOK
<1>2. latest[id] = 0 /\ list2[id] = list[id]
    BY DEF Onward
<1>3. CASE stamp'[id] > sequence
    BY <1>1, <1>3
<1>4. CASE chain'[id] = chain[id] /\ stamp'[id] = stamp[id]
    BY <1>1, <1>2, <1>4 DEF FreshIn
<1> QED
    BY <1>3, <1>4 DEF Onward

\* Where the connection task may come without an answer.
NoNewAnswer ==
    \/ task'[conn].pc # "sync"
    \/ /\ task'[conn].reply \in {Pending, Lost}
       /\ task'[conn].request.op = "since" => root # NoRoot /\ task'[conn].request.sequence = root
    \/ UNCHANGED <<task[conn].pc, task[conn].request, task[conn].reply>>

LEMMA FreshKeeps ==
    ASSUME FInv, Onward, TInv', UNCHANGED root, sequence <= sequence', task'[auto].pc = "idle",
           NoNewAnswer
    PROVE  FInv'
<1>1. sequence \in Nat /\ sequence' \in Nat /\ root \in Nat \cup {NoRoot} /\ NoRoot \in Int
    BY DEF FInv, TInv, SyncTypeOK, NoRoot
<1>2. root' <= sequence'
    BY <1>1 DEF FInv
<1>3. (root # NoRoot => FreshIn(cards, root))'
    <2>1. ASSUME root' # NoRoot PROVE FreshIn(cards, root)'
        <3>1. FreshIn(cards, root) /\ root \in Int /\ root <= sequence
            BY <1>1, <2>1 DEF FInv
        <3>2. \A id \in Ids : latest'[id] = 0 /\ cards'[id] # cards[id] =>
                                cards'[id] = Absent /\ chain'[id] = Absent
            BY DEF Onward
        <3>3. \A id \in Ids : latest'[id] = 0 /\ cards'[id] # chain'[id] => stamp'[id] > root
            BY <3>1, <3>2, FreshStays
        <3> QED
            BY <3>3 DEF FreshIn
    <2> QED
        BY <2>1
<1>4. AnswerFresh(task[conn])'
    <2> DEFINE r == task[conn]
    <2>1. CASE task'[conn].pc # "sync"
        BY <2>1 DEF AnswerFresh
    <2>2. CASE /\ task'[conn].reply \in {Pending, Lost}
               /\ task'[conn].request.op = "since" => root # NoRoot /\ task'[conn].request.sequence = root
        <3>1. task'[conn].reply.kind # "Ok"
            BY <2>2 DEF Pending, Lost
        <3> QED
            BY <2>2, <3>1 DEF AnswerFresh
    <2>3. CASE UNCHANGED <<r.pc, r.request, r.reply>> /\ r.pc = "sync"
        <3>1. r.request.op = "since" => root # NoRoot /\ r.request.sequence = root
            BY <2>3 DEF FInv, AnswerFresh
        <3>2. ASSUME r.reply.kind = "Ok"
              PROVE  FreshIn(apply_card_changeset(Base(r.request.op), r.reply), r.reply.root)'
            <4> DEFINE a     == r.reply
                       list  == apply_card_changeset(Base(r.request.op), a)
                       list2 == apply_card_changeset(IF r.request.op = "since" THEN cards'
                                                     ELSE [id \in Ids |-> Absent], a)
            <4>1. FreshIn(list, a.root)
                BY <2>3, <3>2 DEF FInv, AnswerFresh
            <4>2. a.root \in 0 .. sequence
                <5>1. Fits(r)
                    BY ConnFits DEF FInv
                <5>2. r.request.op \in {"all", "since"} /\ Answers(r.request, r.reply, landed, deleted, sequence)
                    BY <2>3, <5>1 DEF Fits, TaskFits, Asks
                <5> QED
                    BY <3>2, <5>2 DEF Answers
            <4>3. \A id \in Ids : latest'[id] = 0 /\ list2[id] # list[id] =>
                                      list2[id] = Absent /\ chain'[id] = Absent
                BY DEF Onward, apply_card_changeset, Base
            <4>4. \A id \in Ids : latest'[id] = 0 /\ list2[id] # chain'[id] => stamp'[id] > a.root
                <5> HIDE DEF list, list2, a
                <5> QED
                    BY <1>1, <4>1, <4>2, <4>3, FreshStays
            <4>5. list2 = apply_card_changeset(Base(r.request.op), r.reply)'
                BY <2>3 DEF Base, apply_card_changeset
            <4>6. a.root = r'.reply.root
                BY <2>3
            <4> HIDE DEF list2, a
            <4> QED
                BY <4>4, <4>5, <4>6 DEF FreshIn
        <3> QED
            BY <2>3, <3>1, <3>2 DEF AnswerFresh
    <2> QED
        BY <2>1, <2>2, <2>3 DEF NoNewAnswer
<1> QED
    BY <1>2, <1>3, <1>4 DEF FInv

LEMMA OneTaskMoves ==
    ASSUME TInv, NEW t \in Tasks, NEW rec, Become(t, rec)
    PROVE  task'[t] = rec /\ \A u \in Tasks : u # t => task'[u] = task[u]
BY DEF TInv, SyncTypeOK, Become

LEMMA PushesApart ==
    /\ conn \notin Pushes /\ auto \notin Pushes /\ conn # auto
    /\ \A e \in Pushes : e \in Tasks /\ e # conn /\ e # auto
    /\ \A t \in Syncs : t \in Tasks /\ (t = conn \/ t = auto)
BY SyncBounds DEF conn, auto, Pushes, Tasks, Syncs

\* A step of some other task, or of none.
LEMMA OtherTaskSteps ==
    ASSUME TInv, NEW t \in Tasks, t # conn, NEW rec, UNCHANGED task \/ Become(t, rec)
    PROVE  NoNewAnswer /\ (t # auto => UNCHANGED task[auto])
BY OneTaskMoves, ConnFits DEF NoNewAnswer

LEMMA UserFresh ==
    ASSUME FInv, NEW id \in Ids, UserDelete(id) \/ \E p \in Priorities : UserSave(id, p)
    PROVE  FInv'
<1>1. TInv' /\ TInv
    BY UserDeleteKeeps, UserSaveKeeps DEF FInv
<1>2. /\ UNCHANGED <<chain, stamp, sequence, root>>
      /\ \/ UNCHANGED task
         \/ \E rec : Become(edits + 1, rec)
    BY DEF UserDelete, UserSave, serverVars
<1>3. edits + 1 \in Pushes
    <2>1. edits \in 0 .. MaxEdits /\ edits < MaxEdits
        BY <1>1 DEF TInv, UserDelete, UserSave
    <2> QED
        BY <2>1, SyncBounds DEF Pushes
<1>4. NoNewAnswer /\ UNCHANGED task[auto]
    BY <1>1, <1>2, <1>3, OtherTaskSteps, PushesApart
<1>5. Onward
    <2>1. CASE UserDelete(id)
        BY <1>2, <2>1 DEF UserDelete, Onward, historyVars
    <2>2. CASE \E p \in Priorities : UserSave(id, p)
        <3>1. PICK p \in Priorities : UserSave(id, p)
            BY <2>2
        <3> DEFINE v == Append(cards[id], [by |-> edits + 1, priority |-> p])
        <3>2. latest' = [latest EXCEPT ![id] = edits + 1] /\ cards' = Upsert([id |-> id, version |-> v])
            BY <3>1 DEF UserSave
        <3> HIDE DEF v
        <3>3. cards' = [cards EXCEPT ![id] = v]
            BY <3>2 DEF Upsert
        <3>4. edits + 1 # 0
            BY <1>3, SyncBounds DEF Pushes
        <3> QED
            BY <1>1, <1>2, <3>2, <3>3, <3>4 DEF Onward, TInv, SyncTypeOK
    <2> QED
        BY <2>1, <2>2
<1>6. sequence <= sequence'
    BY <1>1, <1>2 DEF TInv, SyncTypeOK
<1> QED
    BY <1>1, <1>2, <1>4, <1>5, <1>6, FreshKeeps DEF FInv

LEMMA PublishOnward ==
    ASSUME TInv, NEW id \in Ids, NEW version, NEW gone, Publish(id, version, gone),
           UNCHANGED <<latest, cards>>
    PROVE  Onward /\ sequence <= sequence'
BY DEF TInv, SyncTypeOK, Publish, Onward

LEMMA RemoteFresh ==
    ASSUME FInv, NEW id \in Ids, RemoteDelete(id) \/ \E p \in Priorities : RemoteSave(id, p)
    PROVE  FInv'
<1>1. TInv' /\ TInv
    BY RemoteKeeps DEF FInv
<1>2. UNCHANGED <<root, task, latest, cards>>
    BY DEF RemoteDelete, RemoteSave, historyVars
<1>3. \E version, gone : Publish(id, version, gone)
    BY DEF RemoteDelete, RemoteSave
<1>4. Onward /\ sequence <= sequence'
    BY <1>1, <1>2, <1>3, PublishOnward
<1>5. NoNewAnswer /\ UNCHANGED task[auto]
    BY <1>2 DEF NoNewAnswer
<1> QED
    BY <1>1, <1>2, <1>4, <1>5, FreshKeeps DEF FInv


\* The answer to a request for changes holds all that the list lacks.
LEMMA ChangesFresh ==
    ASSUME FInv, task[conn].pc = "sync", ServeChanges(conn),
           UNCHANGED <<cards, root, latest>>, TInv'
    PROVE  FInv'
<1> DEFINE r     == task[conn]
           op    == r.request.op
           since == IF op = "all" THEN 0 ELSE r.request.sequence
           a     == ChangeSet(since)
<1>1. TInv /\ conn \in Tasks
    BY ConnFits DEF FInv
<1>2. /\ chain' = chain /\ deleted' = deleted /\ stamp' = stamp /\ sequence' = sequence
      /\ op \in {"all", "since"} /\ Answer(conn, a)
    BY DEF ServeChanges, serverVars
<1>3. /\ chain \in [Ids -> Version] /\ stamp \in [Ids -> Nat] /\ deleted \in SUBSET Ids
      /\ sequence \in Nat /\ root \in Nat \cup {NoRoot} /\ cards \in [Ids -> Version]
    BY <1>1 DEF TInv, SyncTypeOK
<1>4. r \in TaskType
    BY <1>1, ConnFits
<1>5. task'[conn] = [r EXCEPT !.reply = a]
    BY <1>1, <1>2, OneTaskMoves DEF Answer
<1>6. /\ task'[conn].pc = "sync" /\ task'[conn].request = r.request /\ task'[conn].reply = a
    BY <1>4, <1>5 DEF TaskType
<1>7. op = "since" => root # NoRoot /\ since = root
    BY DEF FInv, AnswerFresh
<1>8. FreshIn(Base(op), since)
    <2>1. CASE op = "since"
        BY <1>7, <2>1 DEF FInv, Base
    <2>2. CASE op = "all"
        BY <1>1, <1>3, <2>2 DEF TInv, ServerInv, FreshIn, Base
    <2> QED
        BY <1>2, <2>1, <2>2
<1>9. a.root = sequence
    BY DEF ChangeSet
<1>10. \A id \in Ids : latest[id] = 0 => apply_card_changeset(Base(op), a)[id] = chain[id]
    <2> SUFFICES ASSUME NEW id \in Ids, latest[id] = 0
                 PROVE  apply_card_changeset(Base(op), a)[id] = chain[id]
        OBVIOUS
    <2> DEFINE sent == IF stamp[id] > since THEN chain[id] ELSE Absent
    <2>1. /\ a.cards[id] = sent
          /\ id \in a.deleted <=> stamp[id] > since /\ id \in deleted
        BY DEF ChangeSet
    <2>2. apply_card_changeset(Base(op), a)[id] =
              IF sent # Absent THEN sent
              ELSE IF id \in a.deleted THEN Absent ELSE Base(op)[id]
        BY <2>1 DEF apply_card_changeset
    <2>3. CASE stamp[id] > since
        <3>1. since \in Nat /\ stamp[id] # 0
            BY <1>2, <1>3, <1>7, <2>3 DEF NoRoot
        <3>2. chain[id] = Absent => id \in deleted
            BY <1>1, <3>1 DEF TInv, ServerInv
        <3> QED
            BY <2>1, <2>2, <2>3, <3>2
    <2>4. CASE ~(stamp[id] > since)
        <3>1. Base(op)[id] = chain[id]
            BY <1>8, <2>4 DEF FreshIn
        <3> QED
            BY <2>1, <2>2, <2>4, <3>1
    <2> QED
        BY <2>3, <2>4
<1>11. (root # NoRoot => FreshIn(cards, root))' /\ root' <= sequence'
    BY <1>2 DEF FInv, FreshIn
<1>12. AnswerFresh(task[conn])'
    <2>1. op = "since" => root' # NoRoot /\ task'[conn].request.sequence = root'
        BY <1>6 DEF FInv, AnswerFresh
    <2>2. FreshIn(apply_card_changeset(Base(task[conn].request.op), task[conn].reply),
                  task[conn].reply.root)'
        <3> DEFINE list == apply_card_changeset(Base(op), a)
        <3>1. apply_card_changeset(Base(task[conn].request.op), task[conn].reply)' = list
            <4>1. apply_card_changeset(Base(task[conn].request.op), task[conn].reply)'
                    = apply_card_changeset(IF task'[conn].request.op = "since" THEN cards'
                                           ELSE [id \in Ids |-> Absent], task'[conn].reply)
                BY DEF Base, apply_card_changeset
            <4> HIDE DEF a
            <4> QED
                BY <4>1, <1>6 DEF Base
        <3>2. \A id \in Ids : latest'[id] = 0 => list[id] = chain'[id]
            BY <1>2, <1>10
        <3> HIDE DEF list
        <3> QED
            BY <3>1, <3>2 DEF FreshIn
    <2> QED
        BY <1>6, <2>1, <2>2 DEF AnswerFresh
<1>13. task'[auto] = task[auto]
    BY <1>1, <1>2, ConnFits, OneTaskMoves, PushesApart DEF Answer
<1> QED
    BY <1>11, <1>12, <1>13 DEF FInv

LEMMA ServeFresh ==
    ASSUME FInv, NEW t \in Tasks, Serve(t) PROVE FInv'
<1>1. TInv' /\ TInv
    BY ServeKeeps DEF FInv
<1>2. UNCHANGED <<cards, root, latest>>
    BY DEF Serve
<1>3. PICK a : Answer(t, a)
    BY DEF Serve, ServePush, ServeDelete, ServeGet, ServeChanges, ServeSubscribe
<1>4. Onward /\ sequence <= sequence'
    <2>1. CASE UNCHANGED serverVars
        BY <1>1, <1>2, <2>1 DEF Onward, serverVars, TInv, SyncTypeOK
    <2>2. CASE \E id \in Ids : \E version, gone : Publish(id, version, gone)
        BY <1>1, <1>2, <2>2, PublishOnward
    <2>3. CASE ServePush(t) /\ ~UNCHANGED serverVars
        <3>1. Publish(task[t].request.card.id, task[t].request.card.version, {})
            BY <2>3 DEF ServePush
        <3>2. \E id \in Ids : \E version, gone : Publish(id, version, gone)
            <4>1. Fits(task[t]) /\ task[t].request \in RequestType /\ task[t].request.op = "push"
                BY <1>1, <2>3, ConnFits DEF ServePush, TaskType
            <4>2. task[t].request.card.id \in Ids
                BY <4>1 DEF RequestType, NoRequest, Card
            <4> QED
                BY <3>1, <4>2
        <3> QED
            BY <2>2, <3>2
    <2>4. CASE ServeDelete(t) /\ ~UNCHANGED serverVars
        <3>1. Publish(task[t].request.id, Absent, {task[t].request.id})
            BY <2>4 DEF ServeDelete
        <3>2. task[t].request.id \in Ids
            <4>1. task[t].request \in RequestType /\ task[t].request.op = "delete"
                BY <1>1, <2>4, ConnFits DEF ServeDelete, TaskType
            <4> QED
                BY <4>1 DEF RequestType, NoRequest
        <3> QED
            BY <2>2, <3>1, <3>2
    <2> QED
        BY <2>1, <2>3, <2>4 DEF Serve, ServeGet, ServeChanges, ServeSubscribe
<1>5. /\ task'[t] = [task[t] EXCEPT !.reply = a]
      /\ \A u \in Tasks : u # t => task'[u] = task[u]
    BY <1>1, <1>3, OneTaskMoves DEF Answer
<1>6. task'[t].pc = task[t].pc
    BY <1>1, <1>5, ConnFits DEF TaskType
<1>7. task'[auto].pc = "idle"
    BY <1>1, <1>5, <1>6, ConnFits DEF FInv
<1>8. CASE t # conn \/ task[conn].pc # "sync"
    <2>1. NoNewAnswer
        BY <1>1, <1>5, <1>6, <1>8, ConnFits DEF NoNewAnswer
    <2> QED
        BY <1>1, <1>2, <1>4, <1>7, <2>1, FreshKeeps
<1>9. CASE t = conn /\ task[conn].pc = "sync"
    <2>1. task[conn].request.op \in {"all", "since"}
        BY <1>1, <1>9, ConnFits DEF Fits, TaskFits, Asks
    <2>2. ServeChanges(conn)
        BY <1>9, <2>1 DEF Serve, ServePush, ServeDelete, ServeGet, ServeSubscribe
    <2> QED
        BY <1>1, <1>2, <1>9, <2>2, ChangesFresh
<1> QED
    BY <1>8, <1>9

LEMMA PushStepFresh ==
    ASSUME FInv, NEW e \in Pushes, PushStep(e) PROVE FInv'
<1>1. TInv /\ TInv' /\ PushOutcome(e)
    BY PushStepKeeps, PushStepOutcome DEF FInv
<1>2. UNCHANGED <<chain, deleted, stamp, sequence, root, latest>>
    BY DEF PushStep, serverVars, historyVars
<1>3. \A id \in Ids : id \in deleted => chain[id] = Absent
    BY <1>1 DEF TInv, ServerInv
<1>4. Onward
    BY <1>2, <1>3, <1>1 DEF Onward, PushOutcome
<1>5. NoNewAnswer /\ UNCHANGED task[auto]
    BY <1>1, OtherTaskSteps, PushesApart DEF PushOutcome
<1>6. sequence <= sequence'
    BY <1>1, <1>2 DEF TInv, SyncTypeOK
<1> QED
    BY <1>1, <1>2, <1>4, <1>5, <1>6, FreshKeeps DEF FInv

\* Only the connection task is ever in a sync.
LEMMA OnlyConn ==
    ASSUME FInv, NEW t \in Syncs, SyncReply(t) \/ StartFlush(t) \/ FlushStep(t)
    PROVE  t = conn
<1>1. task[auto].pc = "idle" /\ (t = conn \/ t = auto)
    BY PushesApart DEF FInv
<1> QED
    BY <1>1 DEF SyncReply, StartFlush, FlushStep, FlushPushReply, FlushGetReply, FlushRetryReply, At

LEMMA SyncReplyFresh ==
    ASSUME FInv, SyncReply(conn) PROVE FInv'
<1> DEFINE r == task[conn]
           a == task[conn].reply
<1>1. TInv /\ TInv' /\ conn \in Tasks /\ Fits(r) /\ r \in TaskType
    BY SyncReplyKeeps, ConnFits DEF FInv
<1>2. /\ UNCHANGED <<chain, deleted, stamp, sequence, latest>> /\ r.pc = "sync"
      /\ sequence \in Nat /\ root \in Nat \cup {NoRoot} /\ cards \in [Ids -> Version]
    BY <1>1 DEF SyncReply, serverVars, historyVars, At, TInv, SyncTypeOK
<1>3. CASE a.kind = "Ok" /\ root' = a.root
    <2>1. \E pc \in {"synced", "flushed"} :
              /\ Become(conn, [r EXCEPT !.pc = pc, !.request = NoRequest])
              /\ cards' = apply_card_changeset(Base(r.request.op), a)
        BY <1>3 DEF SyncReply, Reply, Base
    <2>2. FreshIn(apply_card_changeset(Base(r.request.op), a), a.root)
        BY <1>2, <1>3 DEF FInv, AnswerFresh
    <2>3. a.root \in 0 .. sequence
        BY <1>1, <1>2, <1>3 DEF Fits, TaskFits, Asks, Answers
    <2>4. (root # NoRoot => FreshIn(cards, root))'
        BY <1>2, <1>3, <2>1, <2>2 DEF FreshIn
    <2>5. task'[conn].pc \in {"synced", "flushed"} /\ task'[auto] = task[auto]
        <3>1. PICK pc \in {"synced", "flushed"} :
                  Become(conn, [r EXCEPT !.pc = pc, !.request = NoRequest])
            BY <2>1
        <3>2. [r EXCEPT !.pc = pc, !.request = NoRequest].pc = pc
            BY <1>1 DEF TaskType
        <3> QED
            BY <1>1, <3>1, <3>2, ConnFits, OneTaskMoves, PushesApart
    <2> QED
        BY <1>1, <1>2, <1>3, <2>3, <2>4, <2>5 DEF FInv, AnswerFresh
<1>4. CASE UNCHANGED <<cards, root>> /\ SyncFailed(conn)
    <2>1. Become(conn, [IdleTask EXCEPT !.pc = "down"])
        BY <1>4 DEF SyncFailed
    <2>2. [IdleTask EXCEPT !.pc = "down"].pc = "down"
        BY IdleFits DEF IdleTask, TaskType
    <2>3. task'[conn].pc = "down" /\ task'[auto] = task[auto]
        BY <1>1, <2>1, <2>2, ConnFits, OneTaskMoves, PushesApart
    <2>4. Onward /\ sequence <= sequence'
        BY <1>2, <1>4 DEF Onward
    <2> QED
        BY <1>1, <1>4, <2>3, <2>4, FreshKeeps DEF FInv, NoNewAnswer
<1> QED
    BY <1>3, <1>4 DEF SyncReply, Reply

LEMMA FlushFresh ==
    ASSUME FInv, StartFlush(conn) \/ FlushStep(conn) \/ GoOnline PROVE FInv'
<1>1. TInv /\ TInv' /\ conn \in Tasks
    BY StartFlushBegins, FlushStepKeeps, GoOnlineBegins, ConnFits DEF FInv
<1>2. UNCHANGED <<chain, deleted, stamp, sequence, latest, root>>
    BY DEF StartFlush, FlushStep, GoOnline, serverVars, historyVars
<1>3. \A id \in Ids : latest[id] = 0 => cards'[id] = cards[id]
    <2>1. CASE StartFlush(conn) \/ GoOnline
        BY <2>1 DEF StartFlush, GoOnline
    <2>2. CASE FlushStep(conn)
        BY <1>1, <2>2, FlushStepOutcome DEF FlushOutcome
    <2> QED
        BY <2>1, <2>2
<1>4. \E new : Become(conn, new) /\ new.pc \in FlushSteps \cup {"flushed"}
    <2>1. CASE StartFlush(conn) \/ GoOnline
        BY <1>1, <2>1, StartFlushBegins, GoOnlineBegins DEF Begins, Through, FlushSteps
    <2>2. CASE FlushStep(conn)
        BY <1>1, <2>2, FlushStepOutcome DEF FlushOutcome, CardEnds, Ended, Through, Waits, FlushSteps
    <2> QED
        BY <2>1, <2>2
<1>5. task'[conn].pc # "sync" /\ task'[auto] = task[auto]
    BY <1>1, <1>4, ConnFits, OneTaskMoves, PushesApart DEF FlushSteps
<1>6. Onward
    BY <1>2, <1>3 DEF Onward
<1>7. sequence <= sequence'
    BY <1>1, <1>2 DEF TInv, SyncTypeOK
<1> QED
    BY <1>1, <1>2, <1>5, <1>6, <1>7, FreshKeeps DEF FInv, NoNewAnswer

LEMMA AsksFresh ==
    ASSUME TInv, NEW r \in TaskType, Become(conn, Send(r, "sync", ChangesSince))
    PROVE  NoNewAnswer
<1> DEFINE new == Send(r, "sync", ChangesSince)
<1>1. ChangesSince \in RequestType /\ "sync" \in Places
    BY RequestsTyped DEF TInv, SyncTypeOK, ChangesSince, Places
<1>2. new.request = ChangesSince /\ new.reply \in {Pending, Lost}
    BY <1>1, SendFits
<1>3. task'[conn] = new
    BY ConnFits, OneTaskMoves
<1> HIDE DEF new
<1>4. task'[conn].request.op = "since" => root # NoRoot /\ task'[conn].request.sequence = root
    BY <1>2, <1>3 DEF ChangesSince
<1> QED
    BY <1>2, <1>3, <1>4 DEF NoNewAnswer

LEMMA QuietFresh ==
    ASSUME FInv, auto_sync_enabled = FALSE, QuietStep PROVE FInv'
<1>1. TInv /\ TInv' /\ conn \in Tasks
    BY QuietKeeps, ConnFits DEF FInv
<1>2. UNCHANGED <<chain, deleted, stamp, sequence, latest, root, cards>>
    BY <1>1, QuietOutcome DEF ServerStays
<1>3. Onward
    BY <1>2 DEF Onward
<1>4. sequence <= sequence'
    BY <1>1, <1>2 DEF TInv, SyncTypeOK
<1> DEFINE Rests == \E new : Become(conn, new) /\ new.pc # "sync"
           Starts == \E r \in TaskType : Become(conn, Send(r, "sync", ChangesSince))
<1>5. UNCHANGED task \/ Rests \/ Starts
    <2>1. CASE Register \/ UNCHANGED task
        BY <2>1 DEF Register
    <2>2. CASE AutoSync \/ AutoSyncEnd
        BY <2>2 DEF AutoSync, AutoSyncEnd, FInv
    <2>3. [IdleTask EXCEPT !.pc = "down"].pc = "down"
        BY IdleFits DEF IdleTask, TaskType
    <2>4. CASE SubscribeReply \/ StreamEnds
        <3>1. CASE SyncFailed(conn)
            BY <2>3, <3>1 DEF SyncFailed
        <3>2. CASE Become(conn, [Conn EXCEPT !.pc = "listen", !.request = NoRequest, !.after = "listen"])
            <4>1. [Conn EXCEPT !.pc = "listen", !.request = NoRequest, !.after = "listen"].pc = "listen"
                BY <1>1, ConnFits DEF Conn, TaskType
            <4> QED
                BY <3>2, <4>1
        <3> QED
            BY <2>4, <3>1, <3>2 DEF SubscribeReply, StreamEnds
    <2>5. CASE Resume
        <3>1. [Conn EXCEPT !.pc = "listen"].pc = "listen"
            BY <1>1, ConnFits DEF Conn, TaskType
        <3> QED
            BY <2>5, <3>1 DEF Resume
    <2>6. CASE Subscribe
        <3>1. Send(Conn, "subscribe", [op |-> "subscribe"]).pc = "subscribe"
            BY <1>1, ConnFits, RequestsTyped, SendFits DEF Conn, Places
        <3> QED
            BY <2>6, <3>1 DEF Subscribe
    <2>7. CASE Connect
        <3>1. [IdleTask EXCEPT !.live = TRUE, !.after = "online"] \in TaskType
            BY IdleFits DEF IdleTask, TaskType
        <3> QED
            BY <2>7, <3>1 DEF Connect
    <2>8. CASE Notified
        BY <1>1, <2>8, ConnFits DEF Notified, Conn
    <2> QED
        BY <2>1, <2>2, <2>4, <2>5, <2>6, <2>7, <2>8 DEF QuietStep
<1>6. NoNewAnswer
    <2>1. CASE UNCHANGED task
        BY <2>1 DEF NoNewAnswer
    <2>2. CASE Rests
        BY <1>1, <2>2, OneTaskMoves DEF NoNewAnswer
    <2>3. CASE Starts
        BY <1>1, <2>3, AsksFresh
    <2> QED
        BY <1>5, <2>1, <2>2, <2>3
<1>7. task'[auto] = task[auto]
    BY <1>1, <1>5, ConnFits, OneTaskMoves, PushesApart
<1> QED
    BY <1>1, <1>2, <1>3, <1>4, <1>6, <1>7, FreshKeeps DEF FInv

LEMMA LoseFresh ==
    ASSUME FInv, Lose PROVE FInv'
<1>1. TInv /\ TInv' /\ conn \in Tasks /\ auto \in Tasks /\ task[conn] \in TaskType /\ task[auto] \in TaskType
    BY LoseKeeps, ConnFits DEF FInv
<1>2. UNCHANGED <<chain, deleted, stamp, sequence, latest, root, cards>>
    BY DEF Lose, serverVars, historyVars
<1>3. Onward
    BY <1>2 DEF Onward
<1>4. sequence <= sequence'
    BY <1>1, <1>2 DEF TInv, SyncTypeOK
<1> DEFINE Cut(r) == [r EXCEPT !.live = FALSE, !.reply = IF r.request # NoRequest THEN Lost ELSE @]
<1>5. task'[conn] = Cut(task[conn]) /\ task'[auto] = Cut(task[auto])
    BY <1>1 DEF Lose
<1>6. ASSUME NEW r \in TaskType
      PROVE  /\ Cut(r).pc = r.pc /\ Cut(r).request = r.request
             /\ r.request # NoRequest => Cut(r).reply = Lost
    BY DEF TaskType
<1> HIDE DEF Cut
<1>7. task'[auto].pc = "idle"
    BY <1>1, <1>5, <1>6 DEF FInv
<1>8. NoNewAnswer
    <2>1. CASE task[conn].pc = "sync"
        <3>1. Fits(task[conn])
            BY <1>1, ConnFits
        <3>2. task[conn].request # NoRequest
            BY <2>1, <3>1 DEF Fits, TaskFits, Asks, NoRequest
        <3>3. task[conn].request.op = "since" => root # NoRoot /\ task[conn].request.sequence = root
            BY <2>1 DEF FInv, AnswerFresh
        <3> QED
            BY <1>1, <1>5, <1>6, <3>2, <3>3 DEF NoNewAnswer
    <2>2. CASE task[conn].pc # "sync"
        BY <1>1, <1>5, <1>6, <2>2 DEF NoNewAnswer
    <2> QED
        BY <2>1, <2>2
<1> QED
    BY <1>1, <1>2, <1>3, <1>4, <1>7, <1>8, FreshKeeps

LEMMA FInvNext ==
    ASSUME auto_sync_enabled = FALSE, FInv, [Next]_vars PROVE FInv'
<1>1. CASE \E id \in Ids, p \in Priorities : UserSave(id, p)
    BY <1>1, UserFresh
<1>2. CASE \E id \in Ids : UserDelete(id)
    BY <1>2, UserFresh
<1>3. CASE \E id \in Ids : RemoteDelete(id) \/ \E p \in Priorities : RemoteSave(id, p)
    BY <1>3, RemoteFresh
<1>4. CASE \E t \in Tasks : Serve(t)
    BY <1>4, ServeFresh
<1>5. CASE \E e \in Pushes : PushStep(e)
    BY <1>5, PushStepFresh
<1>6. CASE \E t \in Syncs : SyncReply(t)
    BY <1>6, OnlyConn, SyncReplyFresh
<1>7. CASE \E t \in Syncs : StartFlush(t)
    BY <1>7, OnlyConn, FlushFresh
<1>8. CASE \E t \in Syncs : FlushStep(t)
    BY <1>8, OnlyConn, FlushFresh
<1>9. CASE GoOnline
    BY <1>9, FlushFresh
<1>10. CASE QuietStep
    BY <1>10, QuietFresh
<1>11. CASE Lose
    BY <1>11, LoseFresh
<1>12. CASE UNCHANGED vars
    <2>1. /\ UNCHANGED <<chain, deleted, stamp, sequence, latest, root, cards, task>> /\ TInv /\ TInv'
        BY <1>12, StutterKeeps DEF vars, serverVars, historyVars, FInv
    <2>2. Onward /\ NoNewAnswer /\ sequence <= sequence'
        BY <2>1 DEF Onward, NoNewAnswer, TInv, SyncTypeOK
    <2> QED
        BY <2>1, <2>2, FreshKeeps DEF FInv
<1> QED
    BY <1>1, <1>2, <1>3, <1>4, <1>5, <1>6, <1>7, <1>8, <1>9, <1>10, <1>11, <1>12, NextSteps

\* Without the periodic sync, whatever is shown of a card this user never saved
\* is the server's, or is stamped later than the local root, so that the next
\* sync fetches it (incremental_sync, apply_card_changeset).
THEOREM ShownCardsFresh ==
    ASSUME auto_sync_enabled = FALSE
    PROVE  Spec => []UntouchedCardsFresh
<1>1. FInv => UntouchedCardsFresh
    BY DEF FInv, UntouchedCardsFresh, FreshIn
<1>2. FInv /\ [Next]_vars => FInv'
    BY FInvNext
<1> QED
    BY <1>1, <1>2, FInvInit, PTL DEF Spec

-----------------------------------------------------------------------------
(* Survival.  When the user saves only without a client and between flushes, *)
(* the queue carries every edit still open, and so does the snapshot of each  *)
(* flush under way: whichever flush writes the queue back, the edit is in it. *)

Open(id) ==
    /\ latest[id] # 0 /\ id \notin deleted
    /\ latest[id] \notin landed /\ fate[latest[id]] = "open"

Carries(S, id) == \E c \in S : c.id = id /\ Tip(c.version).by = latest[id]
Snapshot(r)    == EntriesOf(r.todo) \cup EntriesOf(r.remaining) \cup {r.card}

Held(id) ==
    /\ Carries(EntriesOf(offline_queue), id)
    /\ \A t \in Syncs : Flushing(t) => Carries(Snapshot(task[t]), id)

SInv ==
    /\ TInv /\ \A e \in Pushes : task[e].pc = "idle"
    /\ \A id \in Ids : Open(id) => Held(id)

FatesStay ==
    /\ UNCHANGED latest /\ deleted \subseteq deleted' /\ landed \subseteq landed'
    /\ \A e \in Pushes : fate[e] # "open" => fate'[e] # "open"

LEMMA SInvInit == Init => SInv
<1> SUFFICES ASSUME Init PROVE SInv
    OBVIOUS
<1>1. TInv
    BY TInvInit
<1>2. \A id \in Ids : ~Open(id)
    BY DEF Init, Open
<1>3. \A e \in Pushes : task[e].pc = "idle"
    <2> TAKE e \in Pushes
    <2>1. task[e] = IdleTask
        BY PushesApart DEF Init
    <2> QED
        BY <2>1 DEF IdleTask
<1> QED
    BY <1>1, <1>2, <1>3 DEF SInv

LEMMA EditsArePushes ==
    ASSUME TInv, NEW id \in Ids, latest[id] # 0 PROVE latest[id] \in Pushes
<1>1. latest[id] \in 0 .. MaxEdits
    BY DEF TInv, SyncTypeOK
<1> QED
    BY <1>1, SyncBounds DEF Pushes

LEMMA OpenBefore ==
    ASSUME SInv, FatesStay, NEW id \in Ids, Open(id)' PROVE Open(id) /\ Held(id)
<1>1. latest[id] # 0 /\ latest[id] \in Pushes
    BY EditsArePushes DEF SInv, Open, FatesStay
<1>2. fate[latest[id]] = "open"
    BY <1>1 DEF Open, FatesStay
<1> QED
    BY <1>1, <1>2 DEF Open, FatesStay, SInv

LEMMA SurviveKeeps ==
    ASSUME SInv, TInv', FatesStay, \A e \in Pushes : task'[e].pc = "idle",
           \A id \in Ids : Open(id) /\ Held(id) /\ Open(id)' => Held(id)'
    PROVE  SInv'
BY OpenBefore DEF SInv

\* Steps that leave the queue and the snapshots alone.
SnapshotStays(t) ==
    task'[t].pc \in FlushSteps =>
        /\ task[t].pc \in FlushSteps
        /\ UNCHANGED <<task[t].todo, task[t].remaining, task[t].card>>

LEMMA RestSurvives ==
    ASSUME SInv, TInv', FatesStay, \A e \in Pushes : task'[e].pc = "idle",
           UNCHANGED offline_queue, \A t \in Syncs : SnapshotStays(t)
    PROVE  SInv'
<1>1. ASSUME NEW id \in Ids, Held(id) PROVE Held(id)'
    <2>1. Carries(EntriesOf(offline_queue), id)'
        BY <1>1 DEF Held, Carries, FatesStay
    <2>2. ASSUME NEW t \in Syncs, Flushing(t)' PROVE Carries(Snapshot(task[t]), id)'
        <3>1. Flushing(t) /\ UNCHANGED <<task[t].todo, task[t].remaining, task[t].card>>
            BY <2>2 DEF SnapshotStays, Flushing
        <3>2. Snapshot(task[t])' = Snapshot(task[t])
            BY <3>1 DEF Snapshot
        <3> QED
            BY <1>1, <3>1, <3>2 DEF Held, Carries, FatesStay
    <2> QED
        BY <2>1, <2>2 DEF Held
<1> QED
    BY <1>1, SurviveKeeps

\* A step of one sync.
LEMMA OneSyncSurvives ==
    ASSUME SInv, TInv', FatesStay, NEW t \in Syncs, NEW new, Become(t, new),
           \A id \in Ids : Open(id) /\ Held(id) /\ Open(id)' =>
               /\ Carries(EntriesOf(offline_queue'), id)
               /\ new.pc \in FlushSteps => Carries(Snapshot(new), id)
    PROVE  SInv'
<1>1. TInv /\ t \in Tasks /\ t \notin Pushes
    BY PushesApart DEF SInv
<1>2. task'[t] = new /\ \A u \in Tasks : u # t => task'[u] = task[u]
    BY <1>1, OneTaskMoves
<1>3. \A e \in Pushes : task'[e].pc = "idle"
    BY <1>1, <1>2, PushesApart DEF SInv
<1>4. ASSUME NEW id \in Ids, Open(id), Held(id), Open(id)' PROVE Held(id)'
    <2>1. latest' = latest
        BY DEF FatesStay
    <2>2. Carries(EntriesOf(offline_queue), id)'
        BY <1>4, <2>1 DEF Carries
    <2>3. ASSUME NEW u \in Syncs, Flushing(u)' PROVE Carries(Snapshot(task[u]), id)'
        <3>1. CASE u = t
            <4>1. new.pc \in FlushSteps
                BY <1>2, <2>3, <3>1 DEF Flushing
            <4>2. Carries(Snapshot(new), id)
                BY <1>4, <4>1
            <4> QED
                BY <1>2, <2>1, <3>1, <4>2 DEF Carries
        <3>2. CASE u # t
            <4>1. task'[u] = task[u]
                BY <1>2, <3>2, PushesApart
            <4>2. Carries(Snapshot(task[u]), id)
                BY <1>4, <2>3, <4>1 DEF Held, Flushing
            <4> QED
                BY <2>1, <4>1, <4>2 DEF Carries
        <3> QED
            BY <3>1, <3>2
    <2> QED
        BY <2>2, <2>3 DEF Held
<1> QED
    BY <1>3, <1>4, SurviveKeeps

\* The edit a card stands for is not open once it has landed or is given up.
LEMMA SettledIsClosed ==
    ASSUME SInv, FatesStay, NEW id \in Ids, Open(id)', NEW c,
           Tip(c.version).by = latest[id], Tip(c.version).by \in landed \/ GivenUp(c)
    PROVE  FALSE
<1>1. latest'[id] = latest[id] /\ latest[id] # 0
    BY DEF Open, FatesStay
<1>2. latest[id] \in Pushes
    BY <1>1, EditsArePushes DEF SInv
<1> QED
    BY <1>1, <1>2 DEF Open, FatesStay, GivenUp

\* Once through with its card, a flush still has every open edit.
LEMMA EndedSurvives ==
    ASSUME SInv, TInv', FatesStay, NEW t \in Syncs, NEW new, NEW todo, NEW remaining,
           Through(t, new, todo, remaining),
           \A id \in Ids : Open(id) /\ Held(id) /\ Open(id)' => Carries(todo \cup remaining, id)
    PROVE  SInv'
<1>1. ASSUME NEW id \in Ids, Open(id), Held(id), Open(id)'
      PROVE  /\ Carries(EntriesOf(offline_queue'), id)
             /\ new.pc \in FlushSteps => Carries(Snapshot(new), id)
    <2>1. Carries(todo \cup remaining, id)
        BY <1>1
    <2>2. CASE todo = {} /\ new.pc = "flushed" /\ EntriesOf(offline_queue') = remaining
        BY <2>1, <2>2 DEF Carries, FlushSteps
    <2>3. CASE /\ new.pc = "flush" /\ offline_queue' = offline_queue
               /\ {new.card} \cup EntriesOf(new.todo) = todo /\ EntriesOf(new.remaining) = remaining
        <3>1. Snapshot(new) = todo \cup remaining
            BY <2>3 DEF Snapshot
        <3> QED
            BY <1>1, <2>1, <2>3, <3>1 DEF Held
    <2> QED
        BY <2>2, <2>3 DEF Through
<1> QED
    BY <1>1, OneSyncSurvives DEF Through

LEMMA FlushStepSurvives ==
    ASSUME SInv, NEW t \in Syncs, FlushStep(t) PROVE SInv'
<1>1. TInv /\ TInv' /\ t \in Tasks
    BY FlushStepKeeps, PushesApart DEF SInv
<1>2. /\ FlushOutcome(t) /\ UNCHANGED <<deleted, latest, landed>>
      /\ task[t].pc \in FlushSteps
    BY <1>1, FlushStepOutcome
       DEF FlushStep, FlushPushReply, FlushGetReply, FlushRetryReply, At, FlushSteps
<1>3. FatesStay
    BY <1>2 DEF FatesStay, FlushOutcome
<1>4. ASSUME NEW id \in Ids, Held(id)
      PROVE  Carries(EntriesOf(task[t].todo) \cup EntriesOf(task[t].remaining) \cup {task[t].card}, id)
    BY <1>2, <1>4 DEF Held, Flushing, Snapshot
<1>5. CASE UNCHANGED <<offline_queue, fate>> /\ \E new : Waits(t, new)
    <2>1. PICK new : Waits(t, new)
        BY <1>5
    <2>2. ASSUME NEW id \in Ids, Held(id)
          PROVE  Carries(EntriesOf(offline_queue'), id) /\ Carries(Snapshot(new), id)
        <3>1. Snapshot(new) = Snapshot(task[t])
            BY <2>1 DEF Waits, Snapshot
        <3> QED
            BY <1>2, <1>5, <2>2, <3>1 DEF Held, Flushing
    <2> QED
        BY <1>1, <1>3, <2>1, <2>2, OneSyncSurvives DEF Waits
<1>6. ASSUME NEW c \in Items, SameEdit(c, task[t].card), Ended(t, {c}) PROVE SInv'
    <2>1. PICK new, todo, remaining :
              /\ Through(t, new, todo, remaining)
              /\ todo \cup remaining = EntriesOf(task[t].todo) \cup EntriesOf(task[t].remaining) \cup {c}
        BY <1>6 DEF Ended
    <2>2. \A id \in Ids : Held(id) => Carries(todo \cup remaining, id)
        BY <1>4, <1>6, <2>1 DEF Carries, SameEdit
    <2> QED
        BY <1>1, <1>3, <2>1, <2>2, EndedSurvives
<1>7. CASE Ended(t, {}) /\ (Tip(task[t].card.version).by \in landed \/ GivenUp(task[t].card))
    <2>1. PICK new, todo, remaining :
              /\ Through(t, new, todo, remaining)
              /\ todo \cup remaining = EntriesOf(task[t].todo) \cup EntriesOf(task[t].remaining) \cup {}
        BY <1>7 DEF Ended
    <2>2. ASSUME NEW id \in Ids, Held(id), Open(id)' PROVE Carries(todo \cup remaining, id)
        <3>1. Tip(task[t].card.version).by # latest[id]
            BY <1>3, <1>7, <2>2, SettledIsClosed
        <3> QED
            BY <1>4, <2>1, <2>2, <3>1 DEF Carries
    <2> QED
        BY <1>1, <1>3, <2>1, <2>2, EndedSurvives
<1> QED
    BY <1>2, <1>5, <1>6, <1>7 DEF FlushOutcome, CardEnds

LEMMA BeginsSurvives ==
    ASSUME SInv, TInv', NEW t \in Syncs, Begins(t), ServerStays PROVE SInv'
<1>1. UNCHANGED <<deleted, latest, landed>>
    BY DEF ServerStays
<1>2. CASE /\ UNCHANGED <<offline_queue, fate>>
           /\ \E new : Become(t, new) /\ Fits(new) /\ new.pc = "flushed"
    <2>1. PICK new : Become(t, new) /\ new.pc = "flushed"
        BY <1>2
    <2>2. FatesStay
        BY <1>1, <1>2 DEF FatesStay
    <2>3. \A id \in Ids : Held(id) => Carries(EntriesOf(offline_queue'), id)
        BY <1>2 DEF Held
    <2>4. new.pc \notin FlushSteps
        BY <2>1 DEF FlushSteps
    <2> QED
        BY <2>1, <2>2, <2>3, <2>4, OneSyncSurvives
<1>3. CASE /\ \E new, todo : /\ Through(t, new, todo, {})
                             /\ todo \subseteq EntriesOf(offline_queue)
                             /\ \A c \in EntriesOf(offline_queue) \ todo : GivenUp(c)
           /\ \A e \in Pushes : fate[e] # "open" => fate'[e] # "open"
    <2>1. PICK new, todo : /\ Through(t, new, todo, {})
                           /\ \A c \in EntriesOf(offline_queue) \ todo : GivenUp(c)
        BY <1>3
    <2>2. FatesStay
        BY <1>1, <1>3 DEF FatesStay
    <2>3. ASSUME NEW id \in Ids, Held(id), Open(id)' PROVE Carries(todo \cup {}, id)
        <3>1. PICK c \in EntriesOf(offline_queue) : c.id = id /\ Tip(c.version).by = latest[id]
            BY <2>3 DEF Held, Carries
        <3>2. ~GivenUp(c)
            BY <2>2, <2>3, <3>1, SettledIsClosed
        <3> QED
            BY <2>1, <3>1, <3>2 DEF Carries
    <2> QED
        BY <2>1, <2>2, <2>3, EndedSurvives
<1> QED
    BY <1>2, <1>3 DEF Begins

LEMMA UserSaveSurvives ==
    ASSUME SavesWhile = {}, SInv, NEW id \in Ids, NEW p \in Priorities, UserSave(id, p) PROVE SInv'
<1> DEFINE e    == edits + 1
           card == [id |-> id, version |-> Append(cards[id], [by |-> e, priority |-> p])]
<1>1. TInv /\ TInv'
    BY UserSaveKeeps DEF SInv
<1>2. client = "none" /\ \A t \in Syncs : ~Flushing(t)
    BY DEF UserSave, MaySave
<1>3. /\ offline_queue' = Enqueue(offline_queue, card) /\ UNCHANGED <<task, deleted, landed, fate>>
      /\ latest' = [latest EXCEPT ![id] = e]
    BY <1>2 DEF UserSave, serverVars
<1>4. cards[id] \in Version /\ [by |-> e, priority |-> p] \in Body
    BY <1>1 DEF TInv, SyncTypeOK, Body
<1>5. card \in Card /\ card.id = id /\ Tip(card.version).by = e
    BY <1>4, VersionAppend DEF Card
<1> HIDE DEF card
<1>6. EntriesOf(offline_queue') = {x \in EntriesOf(offline_queue) : x.id # id} \cup {card}
    BY <1>1, <1>3, <1>5, EnqueueEntries
<1>7. latest'[id] = e /\ \A i \in Ids : i # id => latest'[i] = latest[i]
    BY <1>1, <1>3 DEF TInv, SyncTypeOK
<1>8. ASSUME NEW i \in Ids, Open(i)' PROVE Held(i)'
    <2>1. \A t \in Syncs : ~Flushing(t)'
        BY <1>2, <1>3 DEF Flushing
    <2>2. CASE i = id
        BY <1>5, <1>6, <1>7, <2>1, <2>2 DEF Held, Carries
    <2>3. CASE i # id
        <3>1. Open(i)
            BY <1>3, <1>7, <1>8, <2>3 DEF Open
        <3>2. Carries(EntriesOf(offline_queue), i)
            BY <3>1 DEF SInv, Held
        <3> QED
            BY <1>6, <1>7, <2>1, <2>3, <3>2 DEF Held, Carries
    <2> QED
        BY <2>2, <2>3
<1> QED
    BY <1>1, <1>3, <1>8 DEF SInv

LEMMA RemoteSurvives ==
    ASSUME SInv, NEW id \in Ids, RemoteDelete(id) \/ \E p \in Priorities : RemoteSave(id, p)
    PROVE  SInv'
<1>1. TInv'
    BY RemoteKeeps DEF SInv
<1>2. UNCHANGED <<task, offline_queue, latest, landed, fate>> /\ deleted \subseteq deleted'
    BY DEF RemoteDelete, RemoteSave, historyVars, Publish
<1> QED
    BY <1>1, <1>2, RestSurvives DEF SInv, FatesStay, SnapshotStays

LEMMA ServeSurvives ==
    ASSUME SInv, NEW t \in Tasks, Serve(t) PROVE SInv'
<1>1. TInv' /\ TInv
    BY ServeKeeps DEF SInv
<1>2. UNCHANGED <<offline_queue, latest, fate>> /\ deleted \subseteq deleted' /\ landed \subseteq landed'
    BY DEF Serve, ServePush, ServeDelete, ServeGet, ServeChanges, ServeSubscribe, Publish, serverVars
<1>3. PICK a : Answer(t, a)
    BY DEF Serve, ServePush, ServeDelete, ServeGet, ServeChanges, ServeSubscribe
<1>4. /\ task'[t] = [task[t] EXCEPT !.reply = a]
      /\ \A u \in Tasks : u # t => task'[u] = task[u]
    BY <1>1, <1>3, OneTaskMoves DEF Answer
<1>5. /\ task'[t].pc = task[t].pc /\ task'[t].todo = task[t].todo
      /\ task'[t].remaining = task[t].remaining /\ task'[t].card = task[t].card
    BY <1>1, <1>4, ConnFits DEF TaskType
<1>6. \A e \in Pushes : task'[e].pc = "idle"
    BY <1>4, <1>5, PushesApart DEF SInv
<1>7. \A u \in Syncs : SnapshotStays(u)
    BY <1>4, <1>5, PushesApart DEF SnapshotStays
<1> QED
    BY <1>1, <1>2, <1>6, <1>7, RestSurvives DEF FatesStay

LEMMA SyncReplySurvives ==
    ASSUME SInv, NEW t \in Syncs, SyncReply(t) PROVE SInv'
<1>1. TInv /\ TInv' /\ t \in Tasks /\ t \notin Pushes /\ task[t] \in TaskType
    BY SyncReplyKeeps, PushesApart, ConnFits DEF SInv
<1>2. UNCHANGED <<offline_queue, deleted, latest, landed, fate>>
    BY DEF SyncReply, serverVars, historyVars
<1>3. \E new : Become(t, new) /\ new.pc \notin FlushSteps
    <2>1. IdleTask.pc = "idle" /\ [IdleTask EXCEPT !.pc = "down"].pc = "down"
        BY IdleFits DEF IdleTask, TaskType
    <2>2. \A pc \in {"synced", "flushed"} : [task[t] EXCEPT !.pc = pc, !.request = NoRequest].pc = pc
        BY <1>1 DEF TaskType
    <2>3. \/ Become(t, IdleTask) \/ Become(t, [IdleTask EXCEPT !.pc = "down"])
          \/ \E pc \in {"synced", "flushed"} : Become(t, [task[t] EXCEPT !.pc = pc, !.request = NoRequest])
        BY DEF SyncReply, SyncFailed
    <2> QED
        BY <2>1, <2>2, <2>3 DEF FlushSteps
<1>4. FatesStay
    BY <1>2 DEF FatesStay
<1>5. \A id \in Ids : Held(id) => Carries(EntriesOf(offline_queue'), id)
    BY <1>2 DEF Held
<1> QED
    BY <1>1, <1>3, <1>4, <1>5, OneSyncSurvives

LEMMA QuietSurvives ==
    ASSUME SInv, QuietStep PROVE SInv'
<1>1. TInv /\ TInv'
    BY QuietKeeps DEF SInv
<1>2. /\ UNCHANGED <<offline_queue, deleted, latest, landed, fate>>
      /\ \/ UNCHANGED task
         \/ \E t \in Syncs : \E new : Become(t, new) /\ new.pc \notin FlushSteps
    BY <1>1, QuietOutcome DEF ServerStays
<1>3. FatesStay
    BY <1>2 DEF FatesStay
<1>4. CASE UNCHANGED task
    BY <1>1, <1>2, <1>3, <1>4, RestSurvives DEF SInv, SnapshotStays
<1>5. CASE \E t \in Syncs : \E new : Become(t, new) /\ new.pc \notin FlushSteps
    <2>1. \A id \in Ids : Held(id) => Carries(EntriesOf(offline_queue'), id)
        BY <1>2 DEF Held
    <2> QED
        BY <1>1, <1>3, <1>5, <2>1, OneSyncSurvives
<1> QED
    BY <1>2, <1>4, <1>5

LEMMA LoseSurvives ==
    ASSUME SInv, Lose PROVE SInv'
<1>1. TInv /\ TInv'
    BY LoseKeeps DEF SInv
<1>2. UNCHANGED <<offline_queue, deleted, latest, landed, fate>>
    BY DEF Lose, serverVars, historyVars
<1>3. ASSUME NEW t \in Tasks
      PROVE  UNCHANGED <<task[t].pc, task[t].todo, task[t].remaining, task[t].card>>
    <2>1. task'[t] = [task[t] EXCEPT !.live = FALSE,
                                    !.reply = IF task[t].request # NoRequest THEN Lost ELSE @]
        BY DEF Lose
    <2> QED
        BY <1>1, <2>1, ConnFits DEF TaskType
<1> QED
    BY <1>1, <1>2, <1>3, PushesApart, RestSurvives DEF SInv, FatesStay, SnapshotStays

LEMMA SInvNext ==
    ASSUME SavesWhile = {}, SInv, [Next]_vars PROVE SInv'
<1>1. CASE \E id \in Ids, p \in Priorities : UserSave(id, p)
    BY <1>1, UserSaveSurvives
<1>2. CASE \E id \in Ids : UserDelete(id)
    BY <1>2 DEF UserDelete, MaySave
<1>3. CASE \E id \in Ids : RemoteDelete(id) \/ \E p \in Priorities : RemoteSave(id, p)
    BY <1>3, RemoteSurvives
<1>4. CASE \E t \in Tasks : Serve(t)
    BY <1>4, ServeSurvives
<1>5. CASE \E e \in Pushes : PushStep(e)
    BY <1>5 DEF SInv, PushStep, DeleteReply, PushReply, PushRetryReply, At
<1>6. CASE \E t \in Syncs : SyncReply(t)
    BY <1>6, SyncReplySurvives
<1>7. CASE \E t \in Syncs : StartFlush(t)
    <2>1. PICK t \in Syncs : StartFlush(t)
        BY <1>7
    <2>2. Begins(t) /\ TInv' /\ ServerStays
        BY <2>1, StartFlushBegins, PushesApart DEF SInv, StartFlush, ServerStays, serverVars
    <2> QED
        BY <2>2, BeginsSurvives
<1>8. CASE \E t \in Syncs : FlushStep(t)
    BY <1>8, FlushStepSurvives
<1>9. CASE GoOnline
    <2>1. Begins(conn) /\ TInv' /\ ServerStays /\ conn \in Syncs
        BY <1>9, GoOnlineBegins, ConnFits DEF SInv, GoOnline, ServerStays, serverVars
    <2> QED
        BY <2>1, BeginsSurvives
<1>10. CASE QuietStep
    BY <1>10, QuietSurvives
<1>11. CASE Lose
    BY <1>11, LoseSurvives
<1>12. CASE UNCHANGED vars
    <2>1. UNCHANGED <<task, offline_queue, deleted, latest, landed, fate>> /\ TInv'
        BY <1>12, StutterKeeps DEF vars, serverVars, historyVars, SInv
    <2> QED
        BY <2>1, RestSurvives DEF SInv, FatesStay, SnapshotStays
<1> QED
    BY <1>1, <1>2, <1>3, <1>4, <1>5, <1>6, <1>7, <1>8, <1>9, <1>10, <1>11, <1>12, NextSteps

\* An edit made offline and between flushes leaves the queue only when the
\* server has it, or by a rule of flush_offline_queue that discards it, however
\* flushes of the periodic sync and of the connection task overlap and wherever
\* the connection breaks.
THEOREM OfflineEditsSurvive ==
    ASSUME SavesWhile = {}
    PROVE  Spec => []EditsSurvive
<1>1. SInv => EditsSurvive
    <2> SUFFICES ASSUME SInv, NEW id \in Ids, Open(id) PROVE latest[id] \in InHand
        BY DEF EditsSurvive, Open
    <2>1. Carries(EntriesOf(offline_queue), id)
        BY DEF SInv, Held
    <2> QED
        BY <2>1 DEF Carries, EntriesOf, InHand, EditsOf
<1>2. SInv /\ [Next]_vars => SInv'
    BY SInvNext
<1> QED
    BY <1>1, <1>2, SInvInit, PTL DEF Spec
=============================================================================
