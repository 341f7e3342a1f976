--------------------------- MODULE TagGraphProofs ---------------------------
(***************************************************************************)
(* The two loops of the tag graph, for every graph: the worklist of        *)
(* closure_of computes the least closed superset of its roots, the depth-  *)
(* first search of detect_cycle reports only real cycles and misses none.  *)
(* What the editors pick by them keeps a card's tags closed and the graph  *)
(* without cycles.  A client that does not know the server's graph loses   *)
(* no save without a word, shows what the server has once it has synced,   *)
(* and changes the cards of a tag by what the graph implies.               *)
(***************************************************************************)
EXTENDS TagClosure, TagCycle, Tagging, QueuesProofs, TLAPS

LEMMA ImpliesTyped ==
    ASSUME NEW g \in Graphs, NEW t
    PROVE  ImpliesOf(g, t) \in SUBSET TagIds
  BY DEF Graphs, ImpliesOf

LEMMA RootsInClosure ==
    ASSUME NEW g \in Graphs, NEW R \in SUBSET TagIds
    PROVE  R \subseteq ClosureOf(g, R)
  BY DEF ClosureOf

LEMMA ClosureIsClosed ==
    ASSUME NEW g \in Graphs, NEW R \in SUBSET TagIds, NEW t \in ClosureOf(g, R)
    PROVE  ImpliesOf(g, t) \subseteq ClosureOf(g, R)
  BY ImpliesTyped DEF ClosureOf, ClosedUnder

LEMMA ClosureIsLeast ==
    ASSUME NEW g \in Graphs, NEW R \in SUBSET TagIds, NEW S \in SUBSET TagIds,
           R \subseteq S, ClosedUnder(g, S)
    PROVE  ClosureOf(g, R) \subseteq S
  BY DEF ClosureOf

\* Everything found so far belongs to the closure, and what is still missing
\* is reachable through the stack or the parents in progress.
ClosureInv ==
    /\ ClosureTypeOK
    /\ roots \subseteq visited \cup OnStack
    /\ visited \cup OnStack \cup todo \subseteq ClosureOf(edges, roots)
    /\ \A t \in visited : ImpliesOf(edges, t) \subseteq visited \cup OnStack \cup todo

LEMMA ClosureInvInitially == ClosureInit => ClosureInv
<1> SUFFICES ASSUME ClosureInit PROVE ClosureInv
  OBVIOUS
<1>1. ClosureTypeOK
  BY DEF ClosureInit, ClosureTypeOK
<1>2. OnStack = roots
  BY DEF ClosureInit, OnStack
<1>3. roots \subseteq ClosureOf(edges, roots)
  BY RootsInClosure DEF ClosureInit
<1>4. QED
  BY <1>1, <1>2, <1>3 DEF ClosureInit, ClosureInv

LEMMA ClosureInvInductive == ClosureInv /\ [ClosureNext]_closureVars => ClosureInv'
<1> SUFFICES ASSUME ClosureInv, [ClosureNext]_closureVars PROVE ClosureInv'
  OBVIOUS
<1>1. ASSUME Pop PROVE ClosureInv'
  <2> DEFINE id == waiting[Len(waiting)]
  <2>1. id \in TagIds /\ id \in OnStack /\ Len(waiting) \in Nat /\ Len(waiting) > 0
    BY <1>1 DEF Pop, ClosureInv, ClosureTypeOK, OnStack
  <2>2. /\ waiting' \in Seq(TagIds)
        /\ OnStack' \subseteq OnStack /\ OnStack \subseteq OnStack' \cup {id}
    <3>1. waiting \in Seq(TagIds) /\ waiting' = SubSeq(waiting, 1, Len(waiting) - 1)
      BY <1>1 DEF Pop, ClosureInv, ClosureTypeOK
    <3>2. /\ waiting' \in Seq(TagIds)
          /\ DOMAIN waiting' = 1 .. Len(waiting) - 1
          /\ \A i \in 1 .. Len(waiting) - 1 : waiting'[i] = waiting[i]
      BY <2>1, <3>1
    <3>3. /\ \A i \in DOMAIN waiting : i \in 1 .. Len(waiting) - 1 \/ i = Len(waiting)
          /\ \A i \in 1 .. Len(waiting) - 1 : i \in DOMAIN waiting
      BY <2>1, <3>1
    <3>4. QED
      BY <3>2, <3>3 DEF OnStack
  <2>3. /\ visited' = visited \cup {id} /\ edges' = edges /\ roots' = roots
        /\ todo = {}
        /\ todo' = IF id \in visited THEN {} ELSE ImpliesOf(edges, id)
    BY <1>1 DEF Pop
  <2> HIDE DEF id
  <2>4. id \in ClosureOf(edges, roots) /\ edges \in Graphs /\ roots \in SUBSET TagIds
    BY <2>1 DEF ClosureInv, ClosureTypeOK
  <2>5. ImpliesOf(edges, id) \subseteq ClosureOf(edges, roots)
    BY <2>4, ClosureIsClosed
  <2>6. ClosureTypeOK'
    BY <2>1, <2>2, <2>3, <2>4, ImpliesTyped DEF ClosureInv, ClosureTypeOK
  <2>7. QED
    BY <2>2, <2>3, <2>4, <2>5, <2>6 DEF ClosureInv
<1>2. ASSUME NEW parent \in TagIds, PushParent(parent) PROVE ClosureInv'
  <2>1. /\ waiting' \in Seq(TagIds)
        /\ OnStack' = IF parent \in visited THEN OnStack ELSE OnStack \cup {parent}
    <3>1. CASE parent \in visited
      BY <1>2, <3>1 DEF PushParent, ClosureInv, ClosureTypeOK, OnStack
    <3>2. CASE parent \notin visited
      <4>1. waiting \in Seq(TagIds) /\ waiting' = Append(waiting, parent)
        BY <1>2, <3>2 DEF PushParent, ClosureInv, ClosureTypeOK
      <4>2. /\ DOMAIN waiting' = DOMAIN waiting \cup {Len(waiting) + 1}
            /\ \A i \in DOMAIN waiting : waiting'[i] = waiting[i]
            /\ waiting'[Len(waiting) + 1] = parent
        BY <4>1
      <4>3. QED
        BY <3>2, <4>1, <4>2 DEF OnStack
    <3>3. QED
      BY <3>1, <3>2
  <2>2. /\ parent \in todo /\ todo' = todo \ {parent}
        /\ edges' = edges /\ roots' = roots /\ visited' = visited
    BY <1>2 DEF PushParent
  <2>3. ClosureTypeOK'
    BY <2>1, <2>2 DEF ClosureInv, ClosureTypeOK
  <2>4. QED
    BY <2>1, <2>2, <2>3 DEF ClosureInv
<1>3. ASSUME UNCHANGED closureVars PROVE ClosureInv'
  BY <1>3 DEF closureVars, ClosureInv, ClosureTypeOK, OnStack
<1>4. QED
  BY <1>1, <1>2, <1>3 DEF ClosureNext

\* closure_of returns the least closed superset of its roots, for every set of
\* tags, every graph (cyclic or with unknown tags) and every order of the lists.
THEOREM ClosureLoopCorrect == ClosureSpec => []ClosureCorrect
<1>1. ClosureInv => ClosureCorrect
  <2> SUFFICES ASSUME ClosureInv, ClosureDone PROVE visited = ClosureOf(edges, roots)
    BY DEF ClosureCorrect
  <2>1. OnStack = {} /\ todo = {}
    BY DEF ClosureDone, OnStack
  <2>2. ClosedUnder(edges, visited) /\ roots \subseteq visited
    BY <2>1 DEF ClosureInv, ClosedUnder
  <2>3. ClosureOf(edges, roots) \subseteq visited
    BY <2>2, ClosureIsLeast DEF ClosureInv, ClosureTypeOK
  <2>4. QED
    BY <2>3 DEF ClosureInv
<1>2. QED
  BY <1>1, ClosureInvInitially, ClosureInvInductive, PTL DEF ClosureSpec

-----------------------------------------------------------------------------
(* What the editors pick by the closure (TagPicks) *)

LEMMA ClosureTyped ==
    ASSUME NEW g \in Graphs, NEW R
    PROVE  ClosureOf(g, R) \in SUBSET TagIds
  BY DEF ClosureOf

\* What a tag implies leads nowhere the tag does not lead.
LEMMA ImpliedClosure ==
    ASSUME NEW g \in Graphs, NEW u \in TagIds, NEW v \in ClosureOf(g, {u})
    PROVE  ClosureOf(g, {v}) \subseteq ClosureOf(g, {u})
<1>1. ClosedUnder(g, ClosureOf(g, {u}))
  BY ClosureIsClosed DEF ClosedUnder
<1>2. QED
  BY <1>1, ClosureTyped, ClosureIsLeast

\* A tag that leads to another one does so by one it implies.
LEMMA StepTowards ==
    ASSUME NEW g \in Graphs, NEW v \in TagIds, NEW t \in ClosureOf(g, {v}), t # v
    PROVE  \E w \in ImpliesOf(g, v) : t \in ClosureOf(g, {w})
<1> DEFINE D == {v} \cup {x \in TagIds : \E w \in ImpliesOf(g, v) : x \in ClosureOf(g, {w})}
<1>1. ASSUME NEW x \in D PROVE ImpliesOf(g, x) \subseteq D
  <2>1. CASE x = v
    BY <2>1, ImpliesTyped, RootsInClosure
  <2>2. CASE x # v
    <3>1. PICK w \in ImpliesOf(g, v) : x \in ClosureOf(g, {w})
      BY <2>2, <1>1
    <3>2. w \in TagIds
      BY ImpliesTyped
    <3>3. ImpliesOf(g, x) \subseteq ClosureOf(g, {w})
      BY <3>1, <3>2, ClosureIsClosed
    <3>4. QED
      BY <3>3, ImpliesTyped
  <2>3. QED
    BY <2>1, <2>2
<1>2. ClosureOf(g, {v}) \subseteq D
  <2>1. ClosedUnder(g, D) /\ {v} \subseteq D /\ D \in SUBSET TagIds
    BY <1>1 DEF ClosedUnder
  <2>2. QED
    BY <2>1, ClosureIsLeast
<1>3. QED
  BY <1>2

\* In a graph without cycles nothing a tag implies leads back to it.
LEMMA NoWayBack ==
    ASSUME NEW g \in Graphs, Acyclic(g), NEW t \in TagIds, NEW u \in ImpliesOf(g, t)
    PROVE  t \notin ClosureOf(g, {u})
<1> DEFINE B == {x \in TagIds : t \in ClosureOf(g, {x})}
<1> SUFFICES ASSUME t \in ClosureOf(g, {u}) PROVE FALSE
  OBVIOUS
<1>1. u \in B
  BY ImpliesTyped
<1>2. ASSUME NEW x \in B PROVE ImpliesOf(g, x) \cap B # {}
  <2>1. CASE x = t
    BY <1>1, <2>1
  <2>2. CASE x # t
    BY <2>2, StepTowards, ImpliesTyped
  <2>3. QED
    BY <2>1, <2>2
<1>3. QED
  BY <1>1, <1>2 DEF Acyclic

\* Removing a chip from a closed set of tags leaves the largest closed part of it
\* that does without the tag (card_editor.rs, remove_editor_tag_cascade).
THEOREM RemovalIsLargest ==
    ASSUME NEW g \in Graphs, NEW selected \in SUBSET TagIds, ClosedUnder(g, selected), NEW t \in TagIds
    PROVE  /\ t \notin remove_editor_tag_cascade(g, selected, t)
           /\ ClosedUnder(g, remove_editor_tag_cascade(g, selected, t))
           /\ remove_editor_tag_cascade(g, selected, t) \subseteq selected
           /\ \A S \in SUBSET selected :
                 t \notin S /\ ClosedUnder(g, S) => S \subseteq remove_editor_tag_cascade(g, selected, t)
<1> DEFINE K == {u \in selected \ {t} : t \notin ClosureOf(g, {u})}
<1>1. ASSUME NEW u \in K, NEW v \in ImpliesOf(g, u) PROVE v \in K
  <2>1. v \in selected /\ v \in TagIds
    BY ImpliesTyped DEF ClosedUnder
  <2>2. v \in ClosureOf(g, {u})
    BY RootsInClosure, ClosureIsClosed
  <2>3. ClosureOf(g, {v}) \subseteq ClosureOf(g, {u})
    BY <2>2, ImpliedClosure
  <2>4. QED
    BY <2>1, <2>2, <2>3
<1>2. ClosedUnder(g, K)
  BY <1>1 DEF ClosedUnder
<1>3. remove_editor_tag_cascade(g, selected, t) = K
  <2> HIDE DEF K
  <2>1. K \in SUBSET TagIds
    BY DEF K
  <2>2. ClosureOf(g, K) = K
    BY <1>2, <2>1, ClosureIsLeast, RootsInClosure
  <2>3. QED
    BY <2>2 DEF K, remove_editor_tag_cascade
<1>4. ASSUME NEW S \in SUBSET selected, t \notin S, ClosedUnder(g, S) PROVE S \subseteq K
  <2> SUFFICES ASSUME NEW u \in S PROVE t \notin ClosureOf(g, {u})
    BY <1>4
  <2>1. ClosureOf(g, {u}) \subseteq S
    BY <1>4, ClosureIsLeast
  <2>2. QED
    BY <1>4, <2>1
<1>5. QED
  BY <1>2, <1>3, <1>4

\* Toggling a chip keeps the tags of a card closed, so that the save asks for what
\* the editor shows (card_editor.rs, toggle_editor_tag).
THEOREM TogglesStayClosed ==
    ASSUME NEW g \in Graphs, NEW selected \in SUBSET TagIds, ClosedUnder(g, selected), NEW t \in TagIds
    PROVE  ClosedUnder(g, toggle_editor_tag(g, selected, t))
<1>1. ClosedUnder(g, WithTag(g, selected, t))
  <2>1. ASSUME NEW x \in ClosureOf(g, {t}) PROVE ImpliesOf(g, x) \subseteq ClosureOf(g, {t})
    BY ClosureIsClosed
  <2>2. QED
    BY <2>1 DEF ClosedUnder, WithTag
<1>2. QED
  BY <1>1, RemovalIsLargest DEF toggle_editor_tag

\* As long as the graph is the one the form was opened with, whatever is left of a
\* tag's implications, with any the form has offered, makes no cycle: a save is
\* refused only if the graph has changed (tag_detail.rs, save_changes).
THEOREM OffersMakeNoCycle ==
    ASSUME NEW g \in Graphs, Acyclic(g), NEW t \in TagIds, NEW implies \in SUBSET TagIds,
           \A u \in implies : u \in ImpliesOf(g, t) \/ \E chosen : u \in Candidates(g, t, chosen)
    PROVE  Acyclic(Upsert(g, t, implies))
<1> DEFINE h == Upsert(g, t, implies)
<1>1. ASSUME NEW v \in TagIds PROVE ImpliesOf(h, v) = IF v = t THEN implies ELSE ImpliesOf(g, v)
  BY DEF Upsert, ImpliesOf
<1>2. \A u \in implies : t \notin ClosureOf(g, {u})
  BY NoWayBack DEF Candidates
<1>3. ASSUME NEW S \in SUBSET TagIds, S # {}, \A v \in S : ImpliesOf(h, v) \cap S # {} PROVE FALSE
  <2>1. CASE t \notin S
    BY <1>1, <1>3, <2>1 DEF Acyclic
  <2>2. CASE t \in S
    <3>1. PICK u \in implies : u \in S
      BY <1>1, <1>3, <2>2
    <3> DEFINE B == S \cap ClosureOf(g, {u})
    <3>2. u \in B
      BY <3>1, RootsInClosure
    <3>3. ASSUME NEW v \in B PROVE ImpliesOf(g, v) \cap B # {}
      <4>1. v # t /\ v \in TagIds
        BY <1>2
      <4>2. ImpliesOf(g, v) \cap S # {}
        BY <1>1, <1>3, <4>1
      <4>3. ImpliesOf(g, v) \subseteq ClosureOf(g, {u})
        BY ClosureIsClosed
      <4>4. QED
        BY <4>2, <4>3
    <3>4. QED
      BY <3>2, <3>3 DEF Acyclic
  <2>3. QED
    BY <2>1, <2>2
<1>4. QED
  BY <1>3 DEF Acyclic

-----------------------------------------------------------------------------
(* The search of detect_cycle *)

Black == {t \in TagIds : color[t] = "Black"}

\* The stack and the path run in parallel, the path is a walk through the
\* graph without repetition, and it holds exactly the gray tags.
PathInv ==
    /\ Len(path) = Len(stack)
    /\ \A i \in 1 .. Len(path) : stack[i].node = path[i]
    /\ \A i, j \in 1 .. Len(path) : path[i] = path[j] => i = j
    /\ \A i \in 1 .. Len(path) - 1 : path[i + 1] \in ImpliesOf(graph, path[i])
    /\ \A t \in TagIds : color[t] = "Gray" <=> \E i \in 1 .. Len(path) : path[i] = t

\* What an entry has seen is black, or is the entry above it.
TodoInv ==
    \A i \in 1 .. Len(path) :
        /\ stack[i].todo \subseteq ImpliesOf(graph, path[i])
        /\ \A p \in ImpliesOf(graph, path[i]) \ stack[i].todo :
              p \in Black \/ (i < Len(path) /\ p = path[i + 1])

\* Black tags imply black tags only, and there is no cycle among them.
Settled(g, B) ==
    /\ \A t \in B : ImpliesOf(g, t) \subseteq B
    /\ \A S \in SUBSET B : S # {} => \E t \in S : ImpliesOf(g, t) \cap S = {}

BlackInv == Settled(graph, Black)

CycleInv ==
    /\ CycleTypeOK
    /\ cycle = << >> => PathInv /\ TodoInv /\ BlackInv
    /\ ReportedCycleReal

\* A tag that implies black tags only cannot close a cycle with them.
LEMMA BlackGrows ==
    ASSUME NEW g \in Graphs, NEW B \in SUBSET TagIds, NEW n \in TagIds, n \notin B,
           Settled(g, B), ImpliesOf(g, n) \subseteq B
    PROVE  Settled(g, B \cup {n})
<1>1. \A t \in B \cup {n} : ImpliesOf(g, t) \subseteq B
  BY DEF Settled
<1>2. ASSUME NEW S \in SUBSET (B \cup {n}), S # {}
      PROVE  \E t \in S : ImpliesOf(g, t) \cap S = {}
  <2>1. CASE S \cap B = {}
    <3>1. S = {n}
      BY <1>2, <2>1
    <3>2. QED
      BY <3>1, <1>1
  <2>2. CASE S \cap B # {}
    <3>1. PICK t \in S \cap B : ImpliesOf(g, t) \cap (S \cap B) = {}
      BY <2>2 DEF Settled
    <3>2. ImpliesOf(g, t) \cap S = {}
      BY <1>1, <3>1
    <3>3. QED
      BY <3>1, <3>2
  <2>3. QED
    BY <2>1, <2>2
<1>3. QED
  BY <1>1, <1>2 DEF Settled

LEMMA ReplaceInSeq ==
    ASSUME NEW S, NEW q \in Seq(S), NEW k \in 1 .. Len(q), NEW e \in S
    PROVE  LET r == [q EXCEPT ![k] = e]
           IN  /\ r \in Seq(S) /\ Len(r) = Len(q) /\ r[k] = e
               /\ \A i \in 1 .. Len(q) : i # k => r[i] = q[i]
  OBVIOUS

LEMMA CycleInvInitially == CycleInit => CycleInv
<1> SUFFICES ASSUME CycleInit PROVE CycleInv
  OBVIOUS
<1>1. CycleTypeOK
  BY DEF CycleInit, CycleTypeOK, Colors
<1>2. Black = {}
  BY DEF CycleInit, Black
<1>3. PathInv /\ TodoInv
  BY DEF CycleInit, PathInv, TodoInv
<1>4. BlackInv
  BY <1>2 DEF BlackInv, Settled
<1>5. QED
  BY <1>1, <1>3, <1>4 DEF CycleInv, ReportedCycleReal, CycleInit

LEMMA StartKeeps == ASSUME CycleInv, NEW t \in TagIds, Start(t) PROVE CycleInv'
<1> DEFINE I == ImpliesOf(graph, t)
<1>1. /\ cycle = << >> /\ stack = << >> /\ PathInv /\ BlackInv /\ CycleTypeOK
      /\ color[t] = "White" /\ graph' = graph /\ cycle' = cycle
      /\ color' = [color EXCEPT ![t] = "Gray"]
      /\ path' = Append(path, t)
      /\ stack' = <<[node |-> t, todo |-> I]>>
  BY DEF Start, Enter, CycleInv
<1>2. path = << >>
  BY <1>1 DEF PathInv, CycleTypeOK
<1>3. path' = <<t>>
  BY <1>1, <1>2
<1>4. I \in SUBSET TagIds
  BY <1>1, ImpliesTyped DEF CycleTypeOK
<1>5. CycleTypeOK'
  BY <1>1, <1>3, <1>4 DEF CycleTypeOK, Colors, Entries
<1>6. Black' = Black
  BY <1>1 DEF Black, CycleTypeOK
<1>7. BlackInv'
  BY <1>1, <1>6 DEF BlackInv
<1>8. PathInv'
  BY <1>1, <1>2, <1>3 DEF PathInv, CycleTypeOK
<1>9. TodoInv'
  BY <1>1, <1>3 DEF TodoInv
<1>10. QED
  BY <1>1, <1>5, <1>7, <1>8, <1>9 DEF CycleInv, ReportedCycleReal

LEMMA FinishKeeps == ASSUME CycleInv, Finish PROVE CycleInv'
<1> DEFINE n == Len(stack)
           top == path[n]
<1>1. /\ cycle = << >> /\ stack # << >> /\ PathInv /\ TodoInv /\ BlackInv /\ CycleTypeOK
      /\ graph' = graph /\ cycle' = cycle
      /\ stack[n].todo = {}
      /\ color' = [color EXCEPT ![stack[n].node] = "Black"]
      /\ path' = SubSeq(path, 1, Len(path) - 1)
      /\ stack' = SubSeq(stack, 1, n - 1)
  BY DEF Finish, Top, CycleInv
<1>2. n \in Nat /\ n > 0 /\ Len(path) = n /\ n \in 1 .. Len(path)
  BY <1>1 DEF PathInv, CycleTypeOK
<1>3. top \in TagIds /\ stack[n].node = top /\ color[top] = "Gray"
  BY <1>1, <1>2 DEF PathInv, CycleTypeOK
<1>4. /\ path' \in Seq(TagIds) /\ stack' \in Seq(Entries)
      /\ Len(path') = n - 1 /\ Len(stack') = n - 1
      /\ \A i \in 1 .. n - 1 : path'[i] = path[i] /\ stack'[i] = stack[i]
  BY <1>1, <1>2 DEF CycleTypeOK
<1>5. CycleTypeOK'
  BY <1>1, <1>3, <1>4 DEF CycleTypeOK, Colors
<1>6. Black' = Black \cup {top} /\ top \notin Black
  BY <1>1, <1>3 DEF Black, CycleTypeOK
<1>7. ImpliesOf(graph, top) \subseteq Black
  BY <1>1, <1>2 DEF TodoInv
<1>8. BlackInv'
  <2>1. Black \in SUBSET TagIds
    BY DEF Black
  <2>2. graph \in Graphs
    BY <1>1 DEF CycleTypeOK
  <2> HIDE DEF top
  <2>3. Settled(graph, Black \cup {top})
    BY <1>1, <1>3, <1>6, <1>7, <2>1, <2>2, BlackGrows DEF BlackInv
  <2>4. QED
    BY <1>1, <1>6, <2>3 DEF BlackInv
<1>9. PathInv'
  <2>1. \A t \in TagIds : color'[t] = "Gray" <=> (color[t] = "Gray" /\ t # top)
    BY <1>1, <1>3 DEF CycleTypeOK
  <2>2. \A t \in TagIds : color'[t] = "Gray" <=> \E i \in 1 .. n - 1 : path[i] = t
    BY <1>1, <1>2, <2>1 DEF PathInv
  <2>3. /\ \A i \in 1 .. n : stack[i].node = path[i]
        /\ \A i, j \in 1 .. n : path[i] = path[j] => i = j
        /\ \A i \in 1 .. n - 1 : path[i + 1] \in ImpliesOf(graph, path[i])
    BY <1>1, <1>2 DEF PathInv
  <2>4. \A i \in 1 .. n - 1 : i \in 1 .. n
    BY <1>2
  <2>5. \A i \in 1 .. Len(path') : stack'[i].node = path'[i]
    BY <1>4, <2>3, <2>4
  <2>6. \A i, j \in 1 .. Len(path') : path'[i] = path'[j] => i = j
    BY <1>4, <2>3, <2>4
  <2>7. \A i \in 1 .. Len(path') - 1 : path'[i + 1] \in ImpliesOf(graph', path'[i])
    <3> SUFFICES ASSUME NEW i \in 1 .. Len(path') - 1
                 PROVE  path'[i + 1] \in ImpliesOf(graph, path'[i])
      BY <1>1
    <3>1. i \in 1 .. n - 1 /\ i + 1 \in 1 .. n - 1
      BY <1>2, <1>4
    <3>2. QED
      BY <1>4, <2>3, <3>1
  <2>8. \A t \in TagIds : color'[t] = "Gray" <=> \E i \in 1 .. Len(path') : path'[i] = t
    BY <1>4, <2>2
  <2>9. QED
    BY <1>4, <2>5, <2>6, <2>7, <2>8 DEF PathInv
<1>10. TodoInv'
  <2> SUFFICES ASSUME NEW i \in 1 .. n - 1
               PROVE  /\ stack[i].todo \subseteq ImpliesOf(graph, path[i])
                      /\ \A p \in ImpliesOf(graph, path[i]) \ stack[i].todo :
                            p \in Black' \/ (i < n - 1 /\ p = path[i + 1])
    BY <1>1, <1>2, <1>4 DEF TodoInv
  <2>1. i \in 1 .. Len(path) /\ (i = n - 1 => path[i + 1] = top)
    BY <1>2
  <2>2. QED
    BY <1>1, <1>2, <1>6, <2>1 DEF TodoInv
<1>11. QED
  BY <1>1, <1>5, <1>8, <1>9, <1>10 DEF CycleInv, ReportedCycleReal

\* What looking at one more parent does to the stack.
LEMMA AdvancedFacts ==
    ASSUME CycleInv, cycle = << >>, stack # << >>, NEW next \in Top.todo
    PROVE  LET n == Len(stack)
           IN  /\ n \in Nat /\ n > 0 /\ Len(path) = n
               /\ next \in TagIds /\ next \in ImpliesOf(graph, path[n])
               /\ Advanced(next) \in Seq(Entries) /\ Len(Advanced(next)) = n
               /\ \A i \in 1 .. n - 1 : Advanced(next)[i] = stack[i]
               /\ Advanced(next)[n].node = path[n]
               /\ Advanced(next)[n].todo = stack[n].todo \ {next}
<1> DEFINE n == Len(stack)
<1>1. PathInv /\ TodoInv /\ CycleTypeOK
  BY DEF CycleInv
<1>2. n \in Nat /\ n > 0 /\ Len(path) = n /\ n \in 1 .. Len(path)
  BY <1>1 DEF PathInv, CycleTypeOK
<1>3. next \in ImpliesOf(graph, path[n]) /\ stack[n].node = path[n]
  BY <1>1, <1>2 DEF TodoInv, PathInv, Top
<1>4. next \in TagIds
  BY <1>1, <1>3, ImpliesTyped DEF CycleTypeOK
<1>5. stack[n] \in Entries
  BY <1>1, <1>2 DEF CycleTypeOK
<1>6. Advanced(next) = [stack EXCEPT ![n] = [stack[n] EXCEPT !.todo = stack[n].todo \ {next}]]
  BY DEF Advanced
<1>7. [stack[n] EXCEPT !.todo = stack[n].todo \ {next}] \in Entries
  BY <1>5 DEF Entries
<1>8. /\ Advanced(next) \in Seq(Entries) /\ Len(Advanced(next)) = n
      /\ \A i \in 1 .. n - 1 : Advanced(next)[i] = stack[i]
      /\ Advanced(next)[n] = [stack[n] EXCEPT !.todo = stack[n].todo \ {next}]
  <2> DEFINE e == [stack[n] EXCEPT !.todo = stack[n].todo \ {next}]
  <2>1. e \in Entries
    BY <1>7
  <2> HIDE DEF e
  <2>2. n \in 1 .. Len(stack) /\ stack \in Seq(Entries)
    BY <1>1, <1>2 DEF CycleTypeOK
  <2>3. Advanced(next) = [stack EXCEPT ![n] = e]
    BY <1>6 DEF e
  <2> HIDE DEF n
  <2>4. /\ Advanced(next) \in Seq(Entries) /\ Len(Advanced(next)) = Len(stack)
        /\ Advanced(next)[n] = e
        /\ \A i \in 1 .. Len(stack) : i # n => Advanced(next)[i] = stack[i]
    BY <2>1, <2>2, <2>3, ReplaceInSeq
  <2>5. QED
    BY <1>2, <2>4 DEF e, n
<1>9. QED
  BY <1>2, <1>3, <1>4, <1>5, <1>8 DEF Entries

LEMMA DescendKeeps == ASSUME CycleInv, NEW next \in TagIds, Descend(next) PROVE CycleInv'
<1> DEFINE n == Len(stack)
           A == Advanced(next)
           e == [node |-> next, todo |-> ImpliesOf(graph, next)]
<1>1. /\ cycle = << >> /\ stack # << >> /\ next \in Top.todo /\ color[next] = "White"
      /\ PathInv /\ TodoInv /\ BlackInv /\ CycleTypeOK
      /\ graph' = graph /\ cycle' = cycle
      /\ color' = [color EXCEPT ![next] = "Gray"]
      /\ path' = Append(path, next)
      /\ stack' = Append(A, e)
  BY DEF Descend, Enter, CycleInv
<1>2. /\ n \in Nat /\ n > 0 /\ Len(path) = n
      /\ next \in ImpliesOf(graph, path[n])
      /\ A \in Seq(Entries) /\ Len(A) = n
      /\ \A i \in 1 .. n - 1 : A[i] = stack[i]
      /\ A[n].node = path[n] /\ A[n].todo = stack[n].todo \ {next}
  BY <1>1, AdvancedFacts
<1>3. e \in Entries /\ e.node = next /\ e.todo = ImpliesOf(graph, next)
  BY <1>1, ImpliesTyped DEF Entries, CycleTypeOK
<1> HIDE DEF A, e
<1>4. /\ path' \in Seq(TagIds) /\ Len(path') = n + 1 /\ path'[n + 1] = next
      /\ \A i \in 1 .. n : path'[i] = path[i]
  BY <1>1, <1>2 DEF CycleTypeOK
<1>5. /\ stack' \in Seq(Entries) /\ Len(stack') = n + 1 /\ stack'[n + 1] = e
      /\ \A i \in 1 .. n : stack'[i] = A[i]
  BY <1>1, <1>2, <1>3
<1>6. CycleTypeOK'
  BY <1>1, <1>4, <1>5 DEF CycleTypeOK, Colors
<1>7. Black' = Black
  BY <1>1 DEF Black, CycleTypeOK
<1>8. BlackInv'
  BY <1>1, <1>7 DEF BlackInv
<1> HIDE DEF n
<1>9. \A i \in 1 .. n : path[i] # next
  BY <1>1, <1>2 DEF PathInv
<1>10. PathInv'
  <2>1. \A i \in 1 .. n + 1 : stack'[i].node = path'[i]
    <3> SUFFICES ASSUME NEW i \in 1 .. n + 1 PROVE stack'[i].node = path'[i]
      OBVIOUS
    <3>1. i \in 1 .. n - 1 \/ i = n \/ i = n + 1
      BY <1>2
    <3>2. QED
      BY <1>1, <1>2, <1>3, <1>4, <1>5, <3>1 DEF PathInv
  <2>2. \A i, j \in 1 .. n + 1 : path'[i] = path'[j] => i = j
    BY <1>1, <1>2, <1>4, <1>9 DEF PathInv
  <2>3. \A i \in 1 .. n : path'[i + 1] \in ImpliesOf(graph, path'[i])
    BY <1>1, <1>2, <1>4 DEF PathInv
  <2>4. \A t \in TagIds : color'[t] = "Gray" <=> (color[t] = "Gray" \/ t = next)
    BY <1>1 DEF CycleTypeOK
  <2>5. \A t \in TagIds : color'[t] = "Gray" <=> \E i \in 1 .. n + 1 : path'[i] = t
    <3>1. \A t \in TagIds : color[t] = "Gray" <=> \E i \in 1 .. n : path[i] = t
      BY <1>1, <1>2 DEF PathInv
    <3>2. n + 1 \in 1 .. n + 1 /\ \A i \in 1 .. n + 1 : i \in 1 .. n \/ i = n + 1
      BY <1>2
    <3>3. 1 .. n \subseteq 1 .. n + 1
      BY <1>2
    <3>4. QED
      BY <1>4, <2>4, <3>1, <3>2, <3>3
  <2>6. Len(path') - 1 = n
    BY <1>2, <1>4
  <2>7. QED
    BY <1>1, <1>4, <1>5, <2>1, <2>2, <2>3, <2>5, <2>6 DEF PathInv
<1>11. TodoInv'
  <2>0. Len(path') = n + 1 /\ graph' = graph /\ Black' = Black
    BY <1>1, <1>4, <1>7
  <2> SUFFICES ASSUME NEW i \in 1 .. n + 1
               PROVE  /\ stack'[i].todo \subseteq ImpliesOf(graph, path'[i])
                      /\ \A p \in ImpliesOf(graph, path'[i]) \ stack'[i].todo :
                            p \in Black \/ (i < n + 1 /\ p = path'[i + 1])
    BY <2>0, Zenon DEF TodoInv
  <2>1. CASE i = n + 1
    BY <1>3, <1>4, <1>5, <2>1
  <2>2. CASE i = n
    <3>1. stack'[i].todo = stack[n].todo \ {next} /\ path'[i] = path[n] /\ path'[i + 1] = next
      BY <1>2, <1>4, <1>5, <2>2
    <3>2. n \in 1 .. Len(path) /\ i < n + 1
      BY <1>2, <2>2
    <3>3. QED
      BY <1>1, <1>2, <3>1, <3>2 DEF TodoInv
  <2>3. CASE i \in 1 .. n - 1
    <3>1. stack'[i] = stack[i] /\ path'[i] = path[i] /\ path'[i + 1] = path[i + 1]
      BY <1>2, <1>4, <1>5, <2>3
    <3>2. i \in 1 .. Len(path) /\ i < n + 1
      BY <1>2, <2>3
    <3>3. QED
      BY <1>1, <3>1, <3>2 DEF TodoInv
  <2>4. QED
    BY <1>2, <2>1, <2>2, <2>3
<1>12. QED
  BY <1>1, <1>6, <1>8, <1>10, <1>11 DEF CycleInv, ReportedCycleReal

LEMMA SkipKeeps == ASSUME CycleInv, NEW next \in TagIds, Skip(next) PROVE CycleInv'
<1> DEFINE n == Len(stack)
<1>1. /\ cycle = << >> /\ stack # << >> /\ next \in Top.todo /\ color[next] = "Black"
      /\ PathInv /\ TodoInv /\ BlackInv /\ CycleTypeOK
      /\ graph' = graph /\ cycle' = cycle /\ color' = color /\ path' = path
      /\ stack' = Advanced(next)
  BY DEF Skip, CycleInv
<1>2. /\ n \in Nat /\ n > 0 /\ Len(path) = n
      /\ stack' \in Seq(Entries) /\ Len(stack') = n
      /\ \A i \in 1 .. n - 1 : stack'[i] = stack[i]
      /\ stack'[n].node = path[n] /\ stack'[n].todo = stack[n].todo \ {next}
  BY <1>1, AdvancedFacts
<1>3. CycleTypeOK'
  BY <1>1, <1>2 DEF CycleTypeOK
<1>4. Black' = Black /\ next \in Black
  BY <1>1 DEF Black
<1> HIDE DEF n
<1>5. PathInv'
  <2>1. \A i \in 1 .. n : stack'[i].node = path[i]
    BY <1>1, <1>2 DEF PathInv
  <2>2. QED
    BY <1>1, <1>2, <2>1 DEF PathInv
<1>6. TodoInv'
  <2> SUFFICES ASSUME NEW i \in 1 .. n
               PROVE  /\ stack'[i].todo \subseteq ImpliesOf(graph, path[i])
                      /\ \A p \in ImpliesOf(graph, path[i]) \ stack'[i].todo :
                            p \in Black \/ (i < n /\ p = path[i + 1])
    BY <1>1, <1>2, <1>4 DEF TodoInv
  <2>1. CASE i = n
    BY <1>1, <1>2, <1>4, <2>1 DEF TodoInv
  <2>2. CASE i \in 1 .. n - 1
    BY <1>1, <1>2, <2>2 DEF TodoInv
  <2>3. QED
    BY <1>2, <2>1, <2>2
<1>7. QED
  BY <1>1, <1>3, <1>4, <1>5, <1>6 DEF CycleInv, BlackInv, ReportedCycleReal

LEMMA Shift ==
    ASSUME NEW n \in Nat, NEW i \in 1 .. n, NEW k \in 1 .. n - i + 1
    PROVE  /\ k = n - i + 1 => i + k - 1 = n
           /\ k # n - i + 1 => k + 1 \in 1 .. n - i + 1 /\ i + k - 1 \in 1 .. n - 1
           /\ i + (k + 1) - 1 = (i + k - 1) + 1
  OBVIOUS

LEMMA BackEdgeKeeps == ASSUME CycleInv, NEW next \in TagIds, BackEdge(next) PROVE CycleInv'
<1> DEFINE n == Len(stack)
<1>1. /\ cycle = << >> /\ stack # << >> /\ next \in Top.todo
      /\ PathInv /\ CycleTypeOK
      /\ graph' = graph /\ color' = color /\ path' = path
      /\ stack' = Advanced(next)
  BY DEF BackEdge, CycleInv
<1>2. /\ n \in Nat /\ n > 0 /\ Len(path) = n
      /\ next \in ImpliesOf(graph, path[n]) /\ stack' \in Seq(Entries)
  BY <1>1, AdvancedFacts
<1>3. PICK i \in DOMAIN path :
         path[i] = next /\ cycle' = Append(SubSeq(path, i, Len(path)), next)
  BY DEF BackEdge
<1> DEFINE c == SubSeq(path, i, n)
           m == n - i + 1
<1> HIDE DEF n
<1>4. path \in Seq(TagIds) /\ i \in 1 .. n
  BY <1>1, <1>2, <1>3 DEF CycleTypeOK
<1>5. /\ c \in Seq(TagIds) /\ Len(c) = m /\ m \in Nat /\ m > 0
      /\ \A k \in 1 .. m : c[k] = path[i + k - 1]
  BY <1>2, <1>4
<1>6. cycle' = Append(c, next)
  BY <1>2, <1>3
<1> HIDE DEF c
<1>7. /\ cycle' \in Seq(TagIds) /\ Len(cycle') = m + 1 /\ cycle'[m + 1] = next
      /\ \A k \in 1 .. m : cycle'[k] = c[k]
  BY <1>5, <1>6
<1>8. \A k \in 1 .. m : cycle'[k] = path[i + k - 1]
  BY <1>5, <1>7
<1>9. cycle'[1] = next
  BY <1>3, <1>4, <1>5, <1>8
<1>10. \A k \in 1 .. m : cycle'[k + 1] \in ImpliesOf(graph, cycle'[k])
  <2> SUFFICES ASSUME NEW k \in 1 .. m
               PROVE  cycle'[k + 1] \in ImpliesOf(graph, cycle'[k])
    OBVIOUS
  <2>1. CASE k = m
    <3>1. i + k - 1 = n
      BY <1>2, <1>4, <2>1, Shift
    <3>2. cycle'[k] = path[n] /\ cycle'[k + 1] = next
      BY <1>7, <1>8, <2>1, <3>1
    <3>3. QED
      BY <1>2, <3>2
  <2>2. CASE k # m
    <3>1. k + 1 \in 1 .. m /\ i + k - 1 \in 1 .. n - 1 /\ i + (k + 1) - 1 = (i + k - 1) + 1
      BY <1>2, <1>4, <2>2, Shift
    <3>2. cycle'[k] = path[i + k - 1] /\ cycle'[k + 1] = path[(i + k - 1) + 1]
      BY <1>8, <3>1
    <3>3. path[(i + k - 1) + 1] \in ImpliesOf(graph, path[i + k - 1])
      BY <1>1, <1>2, <3>1 DEF PathInv
    <3>4. QED
      BY <3>2, <3>3
  <2>3. QED
    BY <2>1, <2>2
<1> HIDE DEF m
<1>11. IsCycle(graph, cycle')
  BY <1>5, <1>7, <1>9, <1>10 DEF IsCycle
<1>12. cycle' # << >>
  BY <1>5, <1>7
<1>13. CycleTypeOK'
  BY <1>1, <1>2, <1>7 DEF CycleTypeOK
<1>14. QED
  BY <1>1, <1>11, <1>12, <1>13 DEF CycleInv, ReportedCycleReal

LEMMA CycleInvInductive == CycleInv /\ [CycleNext]_cycleVars => CycleInv'
<1> SUFFICES ASSUME CycleInv, [CycleNext]_cycleVars PROVE CycleInv'
  OBVIOUS
<1>1. CASE UNCHANGED cycleVars
  BY <1>1 DEF cycleVars, CycleInv, CycleTypeOK, PathInv, TodoInv, BlackInv, Black,
              ReportedCycleReal
<1>2. QED
  BY <1>1, StartKeeps, FinishKeeps, DescendKeeps, BackEdgeKeeps, SkipKeeps DEF CycleNext

LEMMA CycleInvAlways == CycleSpec => []CycleInv
  BY CycleInvInitially, CycleInvInductive, PTL DEF CycleSpec

\* Every cycle detect_cycle reports is a cycle of the graph.
THEOREM ReportedCyclesAreReal == CycleSpec => []ReportedCycleReal
<1>1. CycleInv => ReportedCycleReal
  BY DEF CycleInv
<1>2. QED
  BY <1>1, CycleInvAlways, PTL

\* detect_cycle returns None only for acyclic graphs, whatever the number of
\* tags, the edges to unknown tags and the order of the search.
THEOREM NoCycleMissed == CycleSpec => []SilenceMeansAcyclic
<1>1. CycleInv => SilenceMeansAcyclic
  <2> SUFFICES ASSUME CycleInv, CycleDone, cycle = << >> PROVE Acyclic(graph)
    BY DEF SilenceMeansAcyclic
  <2>1. /\ stack = << >> /\ PathInv /\ BlackInv /\ CycleTypeOK
        /\ \A t \in DOMAIN graph : color[t] # "White"
    BY DEF CycleDone, CycleInv
  <2>2. \A t \in TagIds : color[t] # "Gray"
    <3>1. Len(path) = 0
      BY <2>1 DEF PathInv
    <3>2. 1 .. Len(path) = {}
      BY <3>1
    <3>3. QED
      BY <2>1, <3>2 DEF PathInv
  <2>3. DOMAIN graph \subseteq TagIds
    BY <2>1 DEF CycleTypeOK, Graphs
  <2>4. DOMAIN graph \subseteq Black
    BY <2>1, <2>2, <2>3 DEF Black, CycleTypeOK, Colors
  <2>5. ASSUME NEW S \in SUBSET TagIds, S # {}
        PROVE  \E t \in S : ImpliesOf(graph, t) \cap S = {}
    <3>1. CASE S \subseteq Black
      BY <2>1, <2>5, <3>1 DEF BlackInv, Settled
    <3>2. CASE \E t \in S : t \notin Black
      BY <2>4, <3>2 DEF ImpliesOf
    <3>3. QED
      BY <3>1, <3>2
  <2>6. QED
    BY <2>5 DEF Acyclic
<1>2. QED
  BY <1>1, CycleInvAlways, PTL

\* Both: what detect_cycle says of a tag graph is true.
THEOREM CycleCheckIsCorrect == CycleSpec => []CycleCheckCorrect
  BY ReportedCyclesAreReal, NoCycleMissed, PTL DEF CycleCheckCorrect

-----------------------------------------------------------------------------
(* A client that may be behind: what it shows, queues and sends (Tagging) *)

Bodies      == [by: Nat, set: SUBSET TagIds]
Versions    == Seq(Bodies) \ {<< >>}
CardLists   == [Listed -> Versions]
TagLists    == [TagIds -> Seq(Bodies)]
Contents    == [cards: CardLists, tags: TagLists]
QueuedCards == [id: Listed, version: Versions]
CardEdits   == UNION {[C -> Versions] : C \in SUBSET Listed}
Panels      == {none} \cup [kind: {"card"}, id: Listed, card: Versions, selected: SUBSET TagIds]
                      \cup [kind: {"tag"}, id: TagIds, implies: SUBSET TagIds]
Saves       == [kind: {"save"}, id: TagIds, pc: {"sent", "done", "refused"},
                known: Graphs, tag: Versions, cards: CardEdits]
Deletes     == [kind: {"delete"}, id: TagIds, pc: {"sent", "done", "refused"},
                tag: {<< >>}, cards: CardEdits]

TaggingTypeOK ==
    /\ server \in Contents /\ root \in Contents
    /\ cards \in CardLists /\ tags \in TagLists
    /\ offline_queue \in Seq(QueuedCards)
    /\ online \in BOOLEAN
    /\ panel \in Panels
    /\ batch \in {none} \cup Saves \cup Deletes
    /\ edits \in Nat /\ events \in Nat
    /\ latest \in [Listed -> Nat]
    /\ landed \in SUBSET Nat /\ dropped \in SUBSET Nat

\* A save of a tag, and the cards with it, as save_changes has built them.
SaveAsBuilt ==
    batch.kind = "save" =>
        /\ Len(batch.tag) >= 2
        /\ \A id \in DOMAIN batch.cards :
              LET had == Last(Front(batch.cards[id])).set
              IN  /\ Len(batch.cards[id]) >= 2
                  /\ Last(batch.cards[id]).set =
                        had \cup MissingForCard(
                                     Upsert(batch.known, batch.id, Last(batch.tag).set), had)

InQueue(queue, id, e) == \E q \in EntriesOf(queue) : q.id = id /\ Last(q.version).by = e

\* The user's last save of a card is landed, dropped or queued.
LastSaveKnown ==
    \A id \in Listed : latest[id] # 0 => \/ latest[id] \in landed \cup dropped
                                      \/ InQueue(offline_queue, id, latest[id])

\* A tag's version that is older than another: it never comes again.
Newer(v, w) == v # << >> /\ (w = << >> \/ Len(v) < Len(w))

\* The server's version is that of the last sync, and the list shows it or what
\* is queued or dropped; or it is newer.
CardFollows(id) ==
    \/ /\ root.cards[id] = server.cards[id]
       /\ \/ cards[id] = root.cards[id]
          \/ Last(cards[id]).by \in dropped
          \/ InQueue(offline_queue, id, Last(cards[id]).by)
    \/ Len(root.cards[id]) < Len(server.cards[id])
TagFollows(t) ==
    \/ root.tags[t] = server.tags[t] /\ tags[t] = root.tags[t]
    \/ Newer(root.tags[t], server.tags[t])
ListFollows == (\A id \in Listed : CardFollows(id)) /\ (\A t \in TagIds : TagFollows(t))

\* What a batch has changed is news until its answer is there.
DoneIsNews ==
    batch.pc = "done" =>
        /\ Newer(root.tags[batch.id], server.tags[batch.id])
        /\ \A id \in DOMAIN batch.cards : Len(root.cards[id]) < Len(server.cards[id])

TaggingInv == TaggingTypeOK /\ SaveAsBuilt /\ LastSaveKnown
FollowInv  == ListFollows /\ DoneIsNews

-----------------------------------------------------------------------------
(* Versions and contents *)

LEMMA AppendEnds ==
    ASSUME NEW S, NEW v \in Seq(S), NEW x \in S
    PROVE  /\ Append(v, x) \in Seq(S) \ {<< >>} /\ Len(Append(v, x)) = Len(v) + 1
           /\ Front(Append(v, x)) = v /\ Last(Append(v, x)) = x
<1> DEFINE w == Append(v, x)
<1>1. /\ w \in Seq(S) /\ Len(w) = Len(v) + 1 /\ w[Len(v) + 1] = x /\ Len(v) \in Nat
      /\ SubSeq(w, 1, Len(v)) = v
    OBVIOUS
<1> HIDE DEF w
<1>2. w # << >> /\ Len(w) - 1 = Len(v)
    BY <1>1
<1> QED
    BY <1>1, <1>2 DEF Front, Last, w

LEMMA VersionEnds ==
    ASSUME NEW v \in Versions
    PROVE  /\ v \in Seq(Bodies) /\ v # << >> /\ Len(v) \in Nat /\ Len(v) >= 1
           /\ Last(v) \in Bodies /\ Front(v) \in Seq(Bodies) /\ Len(Front(v)) = Len(v) - 1
<1>1. v \in Seq(Bodies) /\ v # << >> /\ Len(v) \in Nat /\ Len(v) >= 1
    BY DEF Versions
<1>2. v[Len(v)] \in Bodies
    BY <1>1
<1>3. SubSeq(v, 1, Len(v) - 1) \in Seq(Bodies) /\ Len(SubSeq(v, 1, Len(v) - 1)) = Len(v) - 1
    <2> DEFINE n == Len(v) - 1
    <2>1. n \in Nat /\ n <= Len(v)
        BY <1>1
    <2> HIDE DEF n
    <2>2. SubSeq(v, 1, n) \in Seq(Bodies) /\ Len(SubSeq(v, 1, n)) = n
        BY <1>1, <2>1
    <2> QED
        BY <2>2 DEF n
<1> QED
    BY <1>1, <1>2, <1>3 DEF Last, Front

LEMMA BodyTyped ==
    ASSUME NEW n \in Nat, NEW S \in SUBSET TagIds
    PROVE  Body(n, S) \in Bodies /\ Body(n, S).by = n /\ Body(n, S).set = S
  BY DEF Body, Bodies

LEMMA SetsTyped ==
    ASSUME NEW ts \in TagLists
    PROVE  /\ Live(ts) = {t \in TagIds : ts[t] # << >>}
           /\ \A t \in Live(ts) : Last(ts[t]) \in Bodies /\ Sets(ts)[t] = Last(ts[t]).set
           /\ DOMAIN Sets(ts) = Live(ts)
           /\ Sets(ts) \in Graphs
<1>1. Live(ts) = {t \in TagIds : ts[t] # << >>}
    BY DEF Live, TagLists
<1>2. ASSUME NEW t \in Live(ts) PROVE Last(ts[t]) \in Bodies
    <2>1. ts[t] \in Versions
        BY <1>1 DEF TagLists, Versions
    <2> QED
        BY <2>1, VersionEnds
<1>3. Sets(ts) \in [Live(ts) -> SUBSET TagIds]
    BY <1>2 DEF Sets, Bodies
<1>4. Live(ts) \in SUBSET TagIds
    BY <1>1
<1>5. Sets(ts) \in Graphs
    BY <1>3, <1>4 DEF Graphs
<1> QED
    BY <1>1, <1>2, <1>5 DEF Sets

LEMMA CardSetsTyped ==
    ASSUME NEW cs \in CardLists
    PROVE  /\ Live(cs) = Listed
           /\ Sets(cs) = [id \in Listed |-> Last(cs[id]).set]
           /\ \A id \in Listed : Last(cs[id]).set \in SUBSET TagIds
<1>1. Live(cs) = Listed
    BY DEF Live, CardLists, Versions
<1>2. \A id \in Listed : Last(cs[id]) \in Bodies
    BY VersionEnds DEF CardLists
<1>3. \A id \in Listed : Last(cs[id]).set \in SUBSET TagIds
    BY <1>2 DEF Bodies
<1> QED
    BY <1>1, <1>3 DEF Sets

LEMMA UpsertTyped ==
    ASSUME NEW g \in Graphs, NEW t \in TagIds, NEW S \in SUBSET TagIds
    PROVE  Upsert(g, t, S) \in Graphs
<1>1. PICK T \in SUBSET TagIds : g \in [T -> SUBSET TagIds]
    BY DEF Graphs
<1>2. Upsert(g, t, S) \in [T \cup {t} -> SUBSET TagIds]
    BY <1>1 DEF Upsert
<1> QED
    BY <1>2 DEF Graphs

LEMMA ClosureWithin == \A g, S : ClosureOf(g, S) \in SUBSET TagIds
  BY DEF ClosureOf

LEMMA ContentTyped ==
    ASSUME NEW c \in Contents
    PROVE  /\ c.cards \in CardLists /\ c.tags \in TagLists
           /\ \A id \in Listed : c.cards[id] \in Versions
           /\ \A t \in TagIds : c.tags[t] \in Seq(Bodies)
  BY DEF Contents, CardLists, TagLists

LEMMA PutTyped ==
    ASSUME NEW c \in Contents, NEW id \in Listed, NEW v \in Versions
    PROVE  /\ Put(c, id, v) \in Contents /\ Put(c, id, v).tags = c.tags
           /\ Put(c, id, v).cards = [c.cards EXCEPT ![id] = v]
  BY DEF Put, Contents, CardLists

LEMMA RebasedTyped ==
    ASSUME NEW c \in Contents, NEW id \in Listed, NEW v \in Versions
    PROVE  /\ Rebased(c, id, v) \in Versions /\ Last(Rebased(c, id, v)) = Last(v)
           /\ Len(Rebased(c, id, v)) = Len(c.cards[id]) + 1
<1>1. c.cards[id] \in Seq(Bodies) /\ Last(v) \in Bodies
    BY ContentTyped, VersionEnds
<1> QED
    BY <1>1, AppendEnds DEF Rebased, Versions

LEMMA ChainedLonger ==
    ASSUME NEW c \in Contents, NEW id \in Listed, NEW v \in Versions, Chained(c, id, v)
    PROVE  Len(v) = Len(c.cards[id]) + 1
  BY VersionEnds DEF Chained

LEMMA EditsTyped ==
    ASSUME NEW cs \in CardEdits
    PROVE  DOMAIN cs \subseteq Listed /\ \A id \in DOMAIN cs : cs[id] \in Versions
  BY DEF CardEdits

LEMMA AfterTyped ==
    ASSUME NEW c \in Contents, NEW b \in Saves \cup Deletes
    PROVE  /\ After(c, b) \in Contents
           /\ \A id \in Listed : After(c, b).cards[id] = IF id \in DOMAIN b.cards THEN b.cards[id]
                                                                                 ELSE c.cards[id]
           /\ After(c, b).tags = [c.tags EXCEPT ![b.id] = b.tag]
<1>1. b.cards \in CardEdits /\ b.id \in TagIds /\ b.tag \in Seq(Bodies)
    <2>1. CASE b \in Saves
        BY <2>1 DEF Saves, Versions
    <2>2. CASE b \in Deletes
        <3>1. << >> \in Seq(Bodies)
            OBVIOUS
        <3> QED
            BY <2>2, <3>1 DEF Deletes
    <2> QED
        BY <2>1, <2>2
<1>2. \A id \in DOMAIN b.cards : b.cards[id] \in Versions
    BY <1>1, EditsTyped
<1>3. [id \in Listed |-> IF id \in DOMAIN b.cards THEN b.cards[id] ELSE c.cards[id]] \in CardLists
    BY <1>2, ContentTyped DEF CardLists
<1>4. [c.tags EXCEPT ![b.id] = b.tag] \in TagLists
    BY <1>1, ContentTyped DEF TagLists
<1> QED
    BY <1>3, <1>4 DEF After, Contents

-----------------------------------------------------------------------------
(* The flush, entry by entry *)

FlushStates == [content: Contents, cards: CardLists, remaining: Seq(QueuedCards),
                stopped: BOOLEAN, landed: SUBSET Nat, dropped: SUBSET Nat]

EditOf(q) == Last(q.version).by

\* What a flush has made of its start once it is through with the entries es: a
\* card is as it was or has a newer version on the server, and each entry has
\* got there, is dropped or remains.
FlushedTo(s, t, es) ==
    /\ t.content.tags = s.content.tags
    /\ \A id \in Listed :
          \/ t.cards[id] = s.cards[id] /\ t.content.cards[id] = s.content.cards[id]
          \/ Len(s.content.cards[id]) < Len(t.content.cards[id])
    /\ s.landed \subseteq t.landed /\ s.dropped \subseteq t.dropped
    /\ \A q \in es :
          \/ EditOf(q) \in t.dropped
          \/ q \in EntriesOf(t.remaining)
          \/ EditOf(q) \in t.landed /\ Len(s.content.cards[q.id]) < Len(t.content.cards[q.id])

\* The version of an entry that a flush pushes
Pushed(s, q) ==
    IF Chained(s.content, q.id, q.version) THEN q.version
                                           ELSE Rebased(s.content, q.id, q.version)

LEMMA PushedLonger ==
    ASSUME NEW s \in FlushStates, NEW q \in QueuedCards
    PROVE  Pushed(s, q) \in Versions /\ Len(Pushed(s, q)) = Len(s.content.cards[q.id]) + 1
<1>1. s.content \in Contents /\ q.id \in Listed /\ q.version \in Versions
    BY DEF FlushStates, QueuedCards
<1> QED
    BY <1>1, ChainedLonger, RebasedTyped DEF Pushed

\* The four ways an entry may go
Kept(s, q)     == [s EXCEPT !.remaining = Append(@, q)]
Taken(s, q, v) == [s EXCEPT !.content = Put(@, q.id, v), !.cards[q.id] = v,
                            !.landed = @ \cup {EditOf(q)}]

LEMMA FlushOneCases ==
    ASSUME NEW s, NEW q
    PROVE  \/ FlushOne(s, q) = Kept(s, q)
           \/ FlushOne(s, q) = [Kept(s, q) EXCEPT !.stopped = TRUE]
           \/ FlushOne(s, q) = Taken(s, q, Pushed(s, q))
           \/ FlushOne(s, q) = [s EXCEPT !.dropped = @ \cup {EditOf(q)}]
  BY DEF FlushOne, Kept, Taken, Pushed, EditOf

LEMMA FlushOneTyped ==
    ASSUME NEW s \in FlushStates, NEW q \in QueuedCards
    PROVE  FlushOne(s, q) \in FlushStates
<1>1. q.id \in Listed /\ EditOf(q) \in Nat
    BY VersionEnds DEF QueuedCards, EditOf, Bodies
<1>2. Append(s.remaining, q) \in Seq(QueuedCards)
    BY DEF FlushStates
<1>3. Kept(s, q) \in FlushStates /\ [Kept(s, q) EXCEPT !.stopped = TRUE] \in FlushStates
    BY <1>2 DEF Kept, FlushStates
<1>4. Taken(s, q, Pushed(s, q)) \in FlushStates
    <2> DEFINE v == Pushed(s, q)
    <2>1. v \in Versions
        BY PushedLonger
    <2>2. Put(s.content, q.id, v) \in Contents
        BY <2>1, <1>1, PutTyped DEF FlushStates
    <2>3. [s.cards EXCEPT ![q.id] = v] \in CardLists
        BY <2>1, <1>1 DEF FlushStates, CardLists
    <2>4. s.landed \cup {EditOf(q)} \in SUBSET Nat
        BY <1>1 DEF FlushStates
    <2> HIDE DEF v
    <2>5. Taken(s, q, v) \in FlushStates
        BY <2>2, <2>3, <2>4 DEF Taken, FlushStates
    <2> QED
        BY <2>5 DEF v
<1>5. [s EXCEPT !.dropped = @ \cup {EditOf(q)}] \in FlushStates
    BY <1>1 DEF FlushStates
<1> QED
    BY <1>3, <1>4, <1>5, FlushOneCases

LEMMA LessAndMore == \A i, j, k \in Nat : i < j /\ j <= k => i < k
  OBVIOUS

LEMMA LessThanNext == \A i, j \in Nat : \A k : i <= j /\ k = j + 1 => i < k
  OBVIOUS

LEMMA SameOrLess == \A i, j \in Nat : i = j \/ i < j => i <= j
  OBVIOUS

LEMMA MoreAndLess == \A i, j, k \in Nat : i <= j /\ j < k => i < k
  OBVIOUS

LEMMA FlushOneKeeps ==
    ASSUME NEW s \in FlushStates, NEW t \in FlushStates, NEW es \in SUBSET QueuedCards,
           FlushedTo(s, t, es), NEW q \in QueuedCards
    PROVE  FlushedTo(s, FlushOne(t, q), es \cup {q})
<1>1. /\ q.id \in Listed /\ t.remaining \in Seq(QueuedCards)
      /\ \A id \in Listed : Len(s.content.cards[id]) \in Nat /\ Len(t.content.cards[id]) \in Nat
    BY ContentTyped, VersionEnds DEF QueuedCards, FlushStates
<1>2. ASSUME NEW u, u.content = t.content, u.cards = t.cards, u.landed = t.landed,
             u.dropped = t.dropped, u.remaining = Append(t.remaining, q)
      PROVE  FlushedTo(s, u, es \cup {q})
    <2>1. EntriesOf(u.remaining) = EntriesOf(t.remaining) \cup {q}
        BY <1>1, <1>2, AppendEntries
    <2> QED
        BY <2>1, <1>2 DEF FlushedTo
<1>3. CASE FlushOne(t, q) = Kept(t, q)
    <2>1. /\ Kept(t, q).content = t.content /\ Kept(t, q).cards = t.cards
          /\ Kept(t, q).landed = t.landed /\ Kept(t, q).dropped = t.dropped
          /\ Kept(t, q).remaining = Append(t.remaining, q)
        BY DEF Kept, FlushStates
    <2> QED
        BY <1>2, <1>3, <2>1
<1>4. CASE FlushOne(t, q) = [Kept(t, q) EXCEPT !.stopped = TRUE]
    <2> DEFINE u == [Kept(t, q) EXCEPT !.stopped = TRUE]
    <2>1. /\ u.content = t.content /\ u.cards = t.cards
          /\ u.landed = t.landed /\ u.dropped = t.dropped
          /\ u.remaining = Append(t.remaining, q)
        BY DEF Kept, FlushStates
    <2> HIDE DEF u
    <2>2. FlushedTo(s, u, es \cup {q})
        BY <1>2, <2>1
    <2> QED
        BY <1>4, <2>2 DEF u
<1>5. CASE FlushOne(t, q) = Taken(t, q, Pushed(t, q))
    <2> DEFINE v == Pushed(t, q)
               u == Taken(t, q, v)
    <2>1. v \in Versions /\ Len(v) = Len(t.content.cards[q.id]) + 1
        BY PushedLonger
    <2> HIDE DEF v
    <2>2. /\ u.content = Put(t.content, q.id, v) /\ u.cards = [t.cards EXCEPT ![q.id] = v]
          /\ u.landed = t.landed \cup {EditOf(q)}
          /\ u.dropped = t.dropped /\ u.remaining = t.remaining
        BY DEF Taken, FlushStates
    <2>3. t.content \in Contents /\ t.cards \in CardLists /\ t.content.cards \in CardLists
        BY ContentTyped DEF FlushStates
    <2>4. u.content.tags = t.content.tags /\ u.content.cards = [t.content.cards EXCEPT ![q.id] = v]
        BY <2>1, <2>2, <2>3, <1>1, PutTyped
    <2> HIDE DEF u
    <2>5. \A id \in Listed :
             /\ id # q.id => u.cards[id] = t.cards[id] /\ u.content.cards[id] = t.content.cards[id]
             /\ Len(t.content.cards[id]) <= Len(u.content.cards[id])
        BY <2>1, <2>2, <2>3, <2>4, <1>1 DEF CardLists
    <2>6. u.content.cards[q.id] = v
        BY <2>3, <2>4, <1>1 DEF CardLists
    <2>7. \A id \in Listed : Len(s.content.cards[id]) <= Len(t.content.cards[id])
        <3> SUFFICES ASSUME NEW id \in Listed
                     PROVE  Len(s.content.cards[id]) <= Len(t.content.cards[id])
            OBVIOUS
        <3>1. \/ Len(s.content.cards[id]) = Len(t.content.cards[id])
              \/ Len(s.content.cards[id]) < Len(t.content.cards[id])
            BY DEF FlushedTo
        <3>2. Len(s.content.cards[id]) \in Nat /\ Len(t.content.cards[id]) \in Nat
            BY <1>1
        <3> QED
            BY <3>1, <3>2, SameOrLess, Zenon
    <2>8. Len(s.content.cards[q.id]) < Len(u.content.cards[q.id])
        <3>1. Len(s.content.cards[q.id]) <= Len(t.content.cards[q.id])
            BY <2>7, <1>1
        <3>2. Len(s.content.cards[q.id]) \in Nat /\ Len(t.content.cards[q.id]) \in Nat
            BY <1>1
        <3>3. Len(u.content.cards[q.id]) = Len(t.content.cards[q.id]) + 1
            BY <2>1, <2>6
        <3> QED
            BY <3>1, <3>2, <3>3, LessThanNext, Zenon
    <2>9. \A id \in Listed : Len(u.content.cards[id]) \in Nat
        BY <2>1, <2>3, <2>4, <1>1, VersionEnds DEF CardLists
    <2>10. \A id \in Listed :
              \/ u.cards[id] = s.cards[id] /\ u.content.cards[id] = s.content.cards[id]
              \/ Len(s.content.cards[id]) < Len(u.content.cards[id])
        BY <2>5, <2>8, <2>9, <1>1 DEF FlushedTo
    <2>11. ASSUME NEW p \in es \cup {q}
           PROVE  \/ EditOf(p) \in u.dropped
                  \/ p \in EntriesOf(u.remaining)
                  \/ EditOf(p) \in u.landed /\ Len(s.content.cards[p.id]) < Len(u.content.cards[p.id])
        <3>1. CASE p = q
            BY <3>1, <2>2, <2>8
        <3>2. CASE p \in es
            <4>1. CASE Len(s.content.cards[p.id]) < Len(t.content.cards[p.id])
                <5>1. Len(s.content.cards[p.id]) < Len(u.content.cards[p.id])
                    <6>1. p.id \in Listed
                        BY <3>2 DEF QueuedCards
                    <6>2. Len(t.content.cards[p.id]) <= Len(u.content.cards[p.id])
                        BY <6>1, <2>5
                    <6>3. /\ Len(s.content.cards[p.id]) \in Nat /\ Len(t.content.cards[p.id]) \in Nat
                          /\ Len(u.content.cards[p.id]) \in Nat
                        BY <6>1, <2>9, <1>1
                    <6> QED
                        BY <4>1, <6>2, <6>3, LessAndMore, Zenon
                <5> QED
                    BY <5>1, <3>2, <2>2 DEF FlushedTo
            <4>2. CASE ~(Len(s.content.cards[p.id]) < Len(t.content.cards[p.id]))
                BY <4>2, <3>2, <2>2 DEF FlushedTo
            <4> QED
                BY <4>1, <4>2
        <3> QED
            BY <3>1, <3>2
    <2>12. u.content.tags = s.content.tags /\ s.landed \subseteq u.landed /\ s.dropped \subseteq u.dropped
        BY <2>2, <2>4 DEF FlushedTo
    <2>13. FlushedTo(s, u, es \cup {q})
        BY <2>10, <2>11, <2>12 DEF FlushedTo
    <2> QED
        BY <1>5, <2>13 DEF u, v
<1>6. CASE FlushOne(t, q) = [t EXCEPT !.dropped = @ \cup {EditOf(q)}]
    <2> DEFINE u == [t EXCEPT !.dropped = @ \cup {EditOf(q)}]
    <2>1. /\ u.content = t.content /\ u.cards = t.cards /\ u.remaining = t.remaining
          /\ u.landed = t.landed /\ u.dropped = t.dropped \cup {EditOf(q)}
        BY DEF FlushStates
    <2> HIDE DEF u
    <2>2. FlushedTo(s, u, es \cup {q})
        BY <2>1 DEF FlushedTo
    <2> QED
        BY <1>6, <2>2 DEF u
<1> QED
    BY <1>3, <1>4, <1>5, <1>6, FlushOneCases

\* The whole queue is flushed, one entry after the other.
LEMMA FlushedKeeps ==
    ASSUME NEW s \in FlushStates, NEW queue \in Seq(QueuedCards)
    PROVE  /\ Flushed(s, queue) \in FlushStates
           /\ FlushedTo(s, Flushed(s, queue), EntriesOf(queue))
<1> DEFINE N == Len(queue)
           after(f) == [n \in 0 .. N |-> IF n = 0 THEN s ELSE FlushOne(f[n - 1], queue[n])]
           F == CHOOSE f : f = after(f)
           step == [p \in FlushStates \X (1 .. N) |-> FlushOne(p[1], queue[p[2]])]
<1>1. N \in Nat /\ DOMAIN queue = 1 .. N /\ \A n \in 1 .. N : queue[n] \in QueuedCards
    OBVIOUS
<1>2. Flushed(s, queue) = F[N]
    BY DEF Flushed
<1> HIDE DEF N
<1>3. step \in [FlushStates \X (1 .. N) -> FlushStates]
    BY <1>1, FlushOneTyped
<1>4. \A t \in FlushStates, n \in 1 .. N : step[<<t, n>>] = FlushOne(t, queue[n])
    OBVIOUS
<1> HIDE DEF step
<1>5. PICK f \in [0 .. N -> FlushStates] : Loop(f, N, s, step)
    BY <1>1, <1>3, LoopRuns
<1>6. \A n \in 1 .. N : n - 1 \in 0 .. N /\ f[n - 1] \in FlushStates
    BY <1>1
<1>7. f[0] = s /\ \A n \in 1 .. N : f[n] = FlushOne(f[n - 1], queue[n])
    BY <1>4, <1>5, <1>6 DEF Loop
<1>8. f = after(f)
    <2>1. \A n \in 0 .. N : n = 0 \/ n \in 1 .. N
        BY <1>1
    <2>2. \A n \in 0 .. N : f[n] = after(f)[n]
        BY <2>1, <1>7
    <2> QED
        BY <2>2
<1> HIDE DEF after
<1>9. F = after(F)
    BY <1>8
<1> HIDE DEF F
<1>10. \A n \in 0 .. N : F[n] = IF n = 0 THEN s ELSE FlushOne(F[n - 1], queue[n])
    BY <1>9 DEF after
<1>11. F[0] = s /\ \A n \in 1 .. N : F[n] = FlushOne(F[n - 1], queue[n])
    <2>1. 0 \in 0 .. N /\ \A n \in 1 .. N : n \in 0 .. N /\ n # 0
        BY <1>1
    <2> QED
        BY <2>1, <1>10
<1> DEFINE Through(n) == {queue[i] : i \in 1 .. n}
           Good(n) == F[n] \in FlushStates /\ FlushedTo(s, F[n], Through(n))
           Bad == {n \in 0 .. N : ~Good(n)}
<1>12. Good(0)
    <2>1. Through(0) = {}
        OBVIOUS
    <2> HIDE DEF Through
    <2> QED
        BY <2>1, <1>11 DEF FlushedTo
<1>13. ASSUME NEW n \in 1 .. N, Good(n - 1) PROVE Good(n)
    <2>1. queue[n] \in QueuedCards /\ Through(n - 1) \in SUBSET QueuedCards
        BY <1>1
    <2>2. Through(n) = Through(n - 1) \cup {queue[n]}
        <3>1. 1 .. n = (1 .. n - 1) \cup {n}
            BY <1>1
        <3> QED
            BY <3>1
    <2> HIDE DEF Through
    <2>3. FlushOne(F[n - 1], queue[n]) \in FlushStates
        BY <1>13, <2>1, FlushOneTyped
    <2>4. FlushedTo(s, FlushOne(F[n - 1], queue[n]), Through(n - 1) \cup {queue[n]})
        BY <1>13, <2>1, FlushOneKeeps
    <2> QED
        BY <1>11, <2>2, <2>3, <2>4
<1> HIDE DEF Good
<1>14. Bad = {}
    <2> SUFFICES ASSUME Bad # {} PROVE FALSE
        OBVIOUS
    <2>1. Bad \in SUBSET Nat
        BY <1>1
    <2> HIDE DEF Bad
    <2>2. PICK n \in Bad : \A k \in Bad : n <= k
        BY <2>1, LeastNumber
    <2> USE DEF Bad
    <2>3. n # 0 /\ n \in 0 .. N
        BY <1>12, <2>2
    <2>4. n \in 1 .. N /\ n - 1 \in 0 .. N /\ n - 1 \notin Bad
        BY <2>2, <2>3, <1>1
    <2> QED
        BY <1>13, <2>2, <2>4
<1>15. Good(N)
    BY <1>14, <1>1
<1>16. Through(N) = EntriesOf(queue)
    BY <1>1 DEF EntriesOf
<1> HIDE DEF Through
<1> QED
    BY <1>2, <1>15, <1>16 DEF Good

-----------------------------------------------------------------------------
(* Types *)

LEMMA BatchTyped ==
    ASSUME TaggingTypeOK, batch # none
    PROVE  /\ batch \in Saves \cup Deletes
           /\ batch.id \in TagIds /\ batch.cards \in CardEdits
           /\ batch.kind = "save" => batch \in Saves
           /\ batch.kind = "delete" => batch.tag = << >>
           /\ batch.kind \in {"save", "delete"}
<1>1. batch \in Saves \cup Deletes
    BY DEF TaggingTypeOK
<1>2. CASE batch \in Saves
    BY <1>2 DEF Saves
<1>3. CASE batch \in Deletes
    BY <1>3 DEF Deletes
<1> QED
    BY <1>1, <1>2, <1>3

LEMMA PanelTyped ==
    ASSUME TaggingTypeOK
    PROVE  /\ panel.kind = "card" => /\ panel.id \in Listed /\ panel.card \in Versions
                                     /\ panel.selected \in SUBSET TagIds
           /\ panel.kind = "tag" => panel.id \in TagIds /\ panel.implies \in SUBSET TagIds
<1>1. none.kind = "none"
    BY DEF none
<1> QED
    BY <1>1 DEF TaggingTypeOK, Panels

LEMMA SaveTyped ==
    ASSUME TaggingTypeOK, panel.kind = "card", NEW S
    PROVE  /\ Append(panel.card, Body(edits + 1, ClosureOf(S, panel.selected))) \in Versions
           /\ Last(Append(panel.card, Body(edits + 1, ClosureOf(S, panel.selected)))).by = edits + 1
<1> DEFINE b == Body(edits + 1, ClosureOf(S, panel.selected))
<1>1. edits + 1 \in Nat /\ ClosureOf(S, panel.selected) \in SUBSET TagIds
    BY ClosureWithin DEF TaggingTypeOK
<1>2. b \in Bodies /\ b.by = edits + 1
    BY <1>1, BodyTyped
<1>3. panel.card \in Seq(Bodies)
    BY PanelTyped, VersionEnds
<1> HIDE DEF b
<1>4. Append(panel.card, b) \in Versions /\ Last(Append(panel.card, b)) = b
    BY <1>2, <1>3, AppendEnds DEF Versions
<1> QED
    BY <1>2, <1>4 DEF b

\* The saved version, the rebased one, and what the server may take of a save.
LEMMA SaveCardCases ==
    ASSUME TaggingTypeOK, SaveCard
    PROVE  \E id \in Listed, v \in Versions :
              /\ latest' = [latest EXCEPT ![id] = edits + 1] /\ edits' = edits + 1
              /\ panel' = none
              /\ Last(v).by = edits + 1
              /\ cards' = [cards EXCEPT ![id] = v]
              /\ \/ /\ Len(v) = Len(server.cards[id]) + 1
                    /\ server' = Put(server, id, v)
                    /\ landed' = landed \cup {edits + 1}
                    /\ offline_queue' = Without(offline_queue, id)
                 \/ /\ offline_queue' = Queued(offline_queue, id, v)
                    /\ UNCHANGED <<server, landed>>
<1> DEFINE e == edits + 1
           id == panel.id
           version == Append(panel.card, Body(e, ClosureOf(Sets(tags), panel.selected)))
           rebased == Rebased(server, id, version)
<1>1. panel.kind = "card" /\ id \in Listed
    BY PanelTyped DEF SaveCard
<1>2. version \in Versions /\ Last(version).by = e
    BY <1>1, SaveTyped
<1>3. server \in Contents
    BY DEF TaggingTypeOK
<1>4. latest' = [latest EXCEPT ![id] = e] /\ edits' = e /\ panel' = none
    BY DEF SaveCard
<1>5. \/ /\ Chained(server, id, version)
         /\ server' = Put(server, id, version) /\ landed' = landed \cup {e}
         /\ cards' = [cards EXCEPT ![id] = version] /\ offline_queue' = Without(offline_queue, id)
      \/ /\ server' = Put(server, id, rebased) /\ landed' = landed \cup {e}
         /\ cards' = [cards EXCEPT ![id] = rebased] /\ offline_queue' = Without(offline_queue, id)
      \/ /\ cards' = [cards EXCEPT ![id] = version]
         /\ offline_queue' = Queued(offline_queue, id, version) /\ UNCHANGED <<server, landed>>
    BY DEF SaveCard
<1> HIDE DEF id, version
<1>6. rebased \in Versions /\ Last(rebased).by = e /\ Len(rebased) = Len(server.cards[id]) + 1
    BY <1>1, <1>2, <1>3, RebasedTyped
<1>7. Chained(server, id, version) => Len(version) = Len(server.cards[id]) + 1
    BY <1>1, <1>2, <1>3, ChainedLonger
<1> HIDE DEF rebased
<1> QED
    BY <1>1, <1>2, <1>4, <1>5, <1>6, <1>7

LEMMA QueuedEntries ==
    ASSUME NEW queue \in Seq(QueuedCards), NEW id \in Listed, NEW v \in Versions
    PROVE  /\ Queued(queue, id, v) \in Seq(QueuedCards)
           /\ EntriesOf(Queued(queue, id, v)) =
                 {q \in EntriesOf(queue) : q.id # id} \cup {[id |-> id, version |-> v]}
<1>1. [id |-> id, version |-> v] \in QueuedCards
    BY DEF QueuedCards
<1>2. /\ Without(queue, id) \in Seq(QueuedCards)
      /\ EntriesOf(Without(queue, id)) = {q \in EntriesOf(queue) : q.id # id}
    BY WithoutEntries
<1> QED
    BY <1>1, <1>2, AppendEntries DEF Queued

\* What the start of a flush is, and what a sync makes of it.
Synced    == Changed(cards, server.cards, root.cards)
Fresh     == {i \in DOMAIN offline_queue :
                 Len(Synced[offline_queue[i].id]) <= Len(offline_queue[i].version)}
StaleOnes == {Last(offline_queue[i].version).by : i \in DOMAIN offline_queue \ Fresh}
AtStart   == [content |-> server, cards |-> Synced, remaining |-> << >>, stopped |-> FALSE,
              landed |-> landed, dropped |-> dropped \cup StaleOnes]

LEMMA ChangedTyped ==
    ASSUME NEW D, NEW V, NEW list \in [D -> V], NEW now \in [D -> V], NEW then
    PROVE  Changed(list, now, then) \in [D -> V]
  BY DEF Changed

LEMMA FreshQueue ==
    ASSUME TaggingTypeOK
    PROVE  /\ Retained(offline_queue, Fresh) \in Seq(QueuedCards)
           /\ EntriesOf(Retained(offline_queue, Fresh)) = {offline_queue[i] : i \in Fresh}
           /\ \A q \in EntriesOf(offline_queue) :
                 q \in EntriesOf(Retained(offline_queue, Fresh)) \/ Last(q.version).by \in StaleOnes
<1>1. offline_queue \in Seq(QueuedCards)
    BY DEF TaggingTypeOK
<1>2. DOMAIN offline_queue \cap Fresh = Fresh
    BY DEF Fresh
<1>3. /\ Retained(offline_queue, Fresh) \in Seq(QueuedCards)
      /\ EntriesOf(Retained(offline_queue, Fresh)) = {offline_queue[i] : i \in Fresh}
    BY <1>1, <1>2, RetainedEntries
<1> QED
    BY <1>3 DEF EntriesOf, StaleOnes

LEMMA StartTyped ==
    ASSUME TaggingTypeOK
    PROVE  /\ AtStart \in FlushStates
           /\ AtStart.content = server /\ AtStart.cards = Synced
           /\ AtStart.landed = landed /\ AtStart.dropped = dropped \cup StaleOnes
<1>1. Synced \in CardLists
    BY ChangedTyped, ContentTyped DEF Synced, TaggingTypeOK, CardLists
<1>2. StaleOnes \in SUBSET Nat
    <2>1. \A i \in DOMAIN offline_queue : offline_queue[i] \in QueuedCards
        BY DEF TaggingTypeOK
    <2>2. \A i \in DOMAIN offline_queue : Last(offline_queue[i].version).by \in Nat
        BY <2>1, VersionEnds DEF QueuedCards, Bodies
    <2> QED
        BY <2>2 DEF StaleOnes
<1>3. << >> \in Seq(QueuedCards)
    OBVIOUS
<1> HIDE DEF Synced, StaleOnes
<1> QED
    BY <1>1, <1>2, <1>3 DEF AtStart, FlushStates, TaggingTypeOK

LEMMA SyncFlushes ==
    ASSUME Sync
    PROVE  \E end : /\ end = Flushed(AtStart, Retained(offline_queue, Fresh))
                    /\ tags' = Changed(tags, server.tags, root.tags)
                    /\ cards' = end.cards /\ root' = server /\ server' = end.content
                    /\ offline_queue' = end.remaining
                    /\ landed' = end.landed /\ dropped' = end.dropped
  BY DEF Sync, AtStart, Fresh, Synced, StaleOnes

LEMMA InitTyped == ASSUME TaggingInit PROVE TaggingTypeOK
<1>1. server \in Contents
    <2>1. \A S \in SUBSET TagIds : Body(0, S) \in Bodies
        BY BodyTyped
    <2>2. \A b \in Bodies : <<b>> \in Versions /\ <<b>> \in Seq(Bodies)
        BY DEF Versions
    <2>3. server \in [cards : [Listed -> {<<Body(0, S)>> : S \in SUBSET TagIds}],
                      tags  : [TagIds -> {<<Body(0, S)>> : S \in SUBSET TagIds}]]
        BY DEF TaggingInit, Initial
    <2>4. {<<Body(0, S)>> : S \in SUBSET TagIds} \subseteq Versions \cap Seq(Bodies)
        BY <2>1, <2>2
    <2> QED
        BY <2>3, <2>4 DEF Contents, CardLists, TagLists
<1>2. << >> \in Seq(QueuedCards)
    OBVIOUS
<1>3. cards \in CardLists /\ tags \in TagLists
    BY <1>1, ContentTyped DEF TaggingInit
<1> QED
    BY <1>1, <1>2, <1>3 DEF TaggingInit, TaggingTypeOK, Panels

LEMMA PanelStepsTyped ==
    ASSUME TaggingTypeOK,
           \/ \E id \in Listed : OpenEditor(id)
           \/ \E t \in TagIds : ToggleTag(t) \/ start_editing(t) \/ AddImplies(t) \/ RemoveImplies(t)
           \/ ClosePanel
    PROVE  TaggingTypeOK' /\ PanelOnly
<1>1. PanelOnly
    BY DEF OpenEditor, ToggleTag, start_editing, AddImplies, RemoveImplies, ClosePanel
<1>2. panel' \in Panels
    <2>1. ASSUME NEW id \in Listed, OpenEditor(id) PROVE panel' \in Panels
        <3>1. cards[id] \in Versions /\ Last(cards[id]).set \in SUBSET TagIds
            BY CardSetsTyped DEF TaggingTypeOK, CardLists
        <3> QED
            BY <2>1, <3>1 DEF OpenEditor, Panels
    <2>2. ASSUME NEW t \in TagIds, ToggleTag(t) PROVE panel' \in Panels
        <3> DEFINE S == toggle_editor_tag(Sets(tags), panel.selected, t)
        <3>1. panel.kind = "card" /\ panel \in Panels /\ panel' = [panel EXCEPT !.selected = S]
            BY <2>2 DEF ToggleTag, TaggingTypeOK
        <3>2. panel.selected \in SUBSET TagIds
            BY <3>1, PanelTyped
        <3>3. S \in SUBSET TagIds
            BY <3>2, ClosureWithin DEF toggle_editor_tag, remove_editor_tag_cascade, WithTag
        <3> HIDE DEF S
        <3> QED
            BY <3>1, <3>3 DEF Panels, none
    <2>3. ASSUME NEW t \in TagIds, start_editing(t) PROVE panel' \in Panels
        <3>1. t \in Live(tags) /\ tags \in TagLists
            BY <2>3 DEF start_editing, TaggingTypeOK
        <3>2. Sets(tags)[t] \in SUBSET TagIds
            BY <3>1, SetsTyped DEF Bodies
        <3> QED
            BY <2>3, <3>2 DEF start_editing, Panels
    <2>4. ASSUME NEW u \in TagIds, AddImplies(u) \/ RemoveImplies(u) PROVE panel' \in Panels
        <3>1. /\ panel.kind = "tag" /\ panel \in Panels
              /\ \/ panel' = [panel EXCEPT !.implies = panel.implies \cup {u}]
                 \/ panel' = [panel EXCEPT !.implies = panel.implies \ {u}]
            BY <2>4 DEF AddImplies, RemoveImplies, TaggingTypeOK
        <3>2. panel.implies \in SUBSET TagIds
            BY <3>1, PanelTyped
        <3> QED
            BY <3>1, <3>2 DEF Panels, none
    <2>5. ASSUME ClosePanel PROVE panel' \in Panels
        BY <2>5 DEF ClosePanel, Panels
    <2> QED
        BY <2>1, <2>2, <2>3, <2>4, <2>5
<1> QED
    BY <1>1, <1>2 DEF PanelOnly, clientVars, TaggingTypeOK

LEMMA SaveCardTyped == ASSUME TaggingTypeOK, SaveCard PROVE TaggingTypeOK'
<1>1. PICK id \in Listed, v \in Versions :
              /\ latest' = [latest EXCEPT ![id] = edits + 1] /\ edits' = edits + 1
              /\ panel' = none
              /\ cards' = [cards EXCEPT ![id] = v]
              /\ \/ /\ server' = Put(server, id, v)
                    /\ landed' = landed \cup {edits + 1}
                    /\ offline_queue' = Without(offline_queue, id)
                 \/ /\ offline_queue' = Queued(offline_queue, id, v)
                    /\ UNCHANGED <<server, landed>>
    BY SaveCardCases
<1>2. cards' \in CardLists /\ latest' \in [Listed -> Nat] /\ edits' \in Nat
    BY <1>1 DEF TaggingTypeOK, CardLists
<1>3. server' \in Contents
    <2>1. server' = Put(server, id, v) \/ server' = server
        BY <1>1
    <2>2. server \in Contents
        BY DEF TaggingTypeOK
    <2>3. Put(server, id, v) \in Contents
        BY <2>2, PutTyped
    <2> QED
        BY <2>1, <2>2, <2>3
<1>4. offline_queue' \in Seq(QueuedCards)
    BY <1>1, WithoutEntries, QueuedEntries DEF TaggingTypeOK
<1>5. landed' \in SUBSET Nat
    <2>1. landed' = landed \cup {edits + 1} \/ landed' = landed
        BY <1>1
    <2>2. edits + 1 \in Nat /\ landed \in SUBSET Nat
        BY DEF TaggingTypeOK
    <2> QED
        BY <2>1, <2>2
<1>6. panel' \in Panels
    BY <1>1 DEF Panels
<1>7. UNCHANGED <<tags, root, online, batch, events, dropped>>
    BY DEF SaveCard
<1> QED
    BY <1>2, <1>3, <1>4, <1>5, <1>6, <1>7 DEF TaggingTypeOK

\* A card in a batch: its version, with another set of tags.
LEMMA EditedCard ==
    ASSUME TaggingTypeOK, NEW id \in Listed, NEW S \in SUBSET TagIds
    PROVE  /\ Append(cards[id], Body(edits + 1, S)) \in Versions
           /\ Len(Append(cards[id], Body(edits + 1, S))) >= 2
           /\ Front(Append(cards[id], Body(edits + 1, S))) = cards[id]
           /\ Last(Append(cards[id], Body(edits + 1, S))).set = S
<1> DEFINE b == Body(edits + 1, S)
<1>1. b \in Bodies /\ b.set = S
    BY BodyTyped DEF TaggingTypeOK
<1>2. cards[id] \in Seq(Bodies) /\ Len(cards[id]) >= 1 /\ Len(cards[id]) \in Nat
    BY VersionEnds DEF TaggingTypeOK, CardLists
<1> HIDE DEF b
<1>3. /\ Append(cards[id], b) \in Seq(Bodies) \ {<< >>}
      /\ Len(Append(cards[id], b)) = Len(cards[id]) + 1
      /\ Front(Append(cards[id], b)) = cards[id] /\ Last(Append(cards[id], b)) = b
    BY <1>1, <1>2, AppendEnds
<1>4. Append(cards[id], b) \in Versions /\ Len(Append(cards[id], b)) >= 2
    BY <1>2, <1>3 DEF Versions
<1> QED
    BY <1>1, <1>3, <1>4 DEF b

\* The batch of a save, and that of a deletion
LEMMA SaveSent ==
    ASSUME TaggingTypeOK, save_changes
    PROVE  batch' \in Saves /\ SaveAsBuilt'
<1> DEFINE next == Upsert(Sets(tags), panel.id, panel.implies)
           e == edits + 1
           Had(id) == Last(cards[id]).set
           version(id) == Append(cards[id], Body(e, Had(id) \cup MissingForCard(next, Had(id))))
           D == affected_cards_for_change(next, Sets(cards))
           b == Body(e, panel.implies)
           tag == Append(tags[panel.id], b)
           cs == [id \in D |-> version(id)]
<1>1. /\ panel.kind = "tag" /\ panel.id \in Live(tags)
      /\ batch' = [kind |-> "save", id |-> panel.id, pc |-> "sent", known |-> Sets(tags),
                   tag |-> tag, cards |-> cs]
    BY DEF save_changes, Send
<1>2. tags \in TagLists /\ cards \in CardLists /\ e \in Nat
    BY DEF TaggingTypeOK
<1>3. /\ panel.id \in TagIds /\ panel.implies \in SUBSET TagIds /\ tags[panel.id] # << >>
      /\ Sets(tags) \in Graphs
    BY <1>1, <1>2, PanelTyped, SetsTyped
<1>4. tag \in Versions /\ Len(tag) >= 2 /\ Last(tag).set = panel.implies
    <2>1. b \in Bodies /\ b.set = panel.implies
        BY <1>2, <1>3, BodyTyped
    <2>2. tags[panel.id] \in Versions
        BY <1>2, <1>3 DEF TagLists, Versions
    <2>3. tags[panel.id] \in Seq(Bodies) /\ Len(tags[panel.id]) \in Nat /\ Len(tags[panel.id]) >= 1
        BY <2>2, VersionEnds
    <2> HIDE DEF b
    <2>4. tag \in Seq(Bodies) \ {<< >>} /\ Len(tag) = Len(tags[panel.id]) + 1 /\ Last(tag) = b
        BY <2>1, <2>3, AppendEnds
    <2> QED
        BY <2>1, <2>3, <2>4 DEF Versions
<1>5. D \subseteq Listed
    BY <1>2, CardSetsTyped DEF affected_cards_for_change
<1>6. \A id \in D : /\ version(id) \in Versions /\ Len(version(id)) >= 2
                    /\ Last(Front(version(id))).set = Had(id)
                    /\ Last(version(id)).set = Had(id) \cup MissingForCard(next, Had(id))
    <2> SUFFICES ASSUME NEW id \in D
                 PROVE  /\ version(id) \in Versions /\ Len(version(id)) >= 2
                        /\ Last(Front(version(id))).set = Had(id)
                        /\ Last(version(id)).set = Had(id) \cup MissingForCard(next, Had(id))
        OBVIOUS
    <2>1. id \in Listed
        BY <1>5
    <2>2. Had(id) \in SUBSET TagIds
        BY <2>1, <1>2, CardSetsTyped
    <2> DEFINE S == Had(id) \cup MissingForCard(next, Had(id))
    <2>3. S \in SUBSET TagIds
        BY <2>2, ClosureWithin DEF MissingForCard
    <2> HIDE DEF S
    <2>4. /\ Append(cards[id], Body(edits + 1, S)) \in Versions
          /\ Len(Append(cards[id], Body(edits + 1, S))) >= 2
          /\ Front(Append(cards[id], Body(edits + 1, S))) = cards[id]
          /\ Last(Append(cards[id], Body(edits + 1, S))).set = S
        BY <2>1, <2>3, EditedCard
    <2> QED
        BY <2>4 DEF S
<1> HIDE DEF version, D, tag
<1>7. cs \in [D -> Versions] /\ DOMAIN cs = D /\ \A id \in D : cs[id] = version(id)
    BY <1>6
<1>8. cs \in CardEdits
    BY <1>5, <1>7 DEF CardEdits
<1> HIDE DEF cs
<1>9. batch' \in Saves
    BY <1>1, <1>3, <1>4, <1>8 DEF Saves
<1>10. /\ batch'.cards = cs /\ batch'.tag = tag /\ batch'.known = Sets(tags) /\ batch'.id = panel.id
    BY <1>1
<1>11. Upsert(batch'.known, batch'.id, Last(batch'.tag).set) = next
    BY <1>4, <1>10
<1> HIDE DEF next, Had
<1>12. \A id \in DOMAIN batch'.cards :
            /\ Len(batch'.cards[id]) >= 2
            /\ Last(batch'.cards[id]).set =
                  Last(Front(batch'.cards[id])).set \cup
                        MissingForCard(next, Last(Front(batch'.cards[id])).set)
    BY <1>6, <1>7, <1>10
<1> QED
    BY <1>4, <1>9, <1>10, <1>11, <1>12 DEF SaveAsBuilt

LEMMA DeleteSent ==
    ASSUME TaggingTypeOK, NEW t \in TagIds, do_delete(t)
    PROVE  batch' \in Deletes
<1> DEFINE D == {c \in Listed : t \in Last(cards[c]).set}
           version(id) == Append(cards[id], Body(edits + 1, Last(cards[id]).set \ {t}))
           cs == [id \in D |-> version(id)]
<1>1. batch' = [kind |-> "delete", id |-> t, pc |-> "sent", tag |-> << >>, cards |-> cs]
    BY DEF do_delete, Send
<1>2. \A id \in D : version(id) \in Versions
    <2> SUFFICES ASSUME NEW id \in D PROVE version(id) \in Versions
        OBVIOUS
    <2> DEFINE S == Last(cards[id]).set \ {t}
    <2>1. S \in SUBSET TagIds
        BY CardSetsTyped DEF TaggingTypeOK
    <2> HIDE DEF S
    <2>2. Append(cards[id], Body(edits + 1, S)) \in Versions
        BY <2>1, EditedCard
    <2> QED
        BY <2>2 DEF S
<1>3. D \in SUBSET Listed
    OBVIOUS
<1> HIDE DEF D, version
<1>4. cs \in CardEdits
    BY <1>2, <1>3 DEF CardEdits
<1> HIDE DEF cs
<1> QED
    BY <1>1, <1>4 DEF Deletes

LEMMA BatchAnswered ==
    ASSUME TaggingTypeOK, batch # none, NEW pc \in {"sent", "done", "refused"}
    PROVE  [batch EXCEPT !.pc = pc] \in Saves \cup Deletes
<1>1. batch \in Saves \cup Deletes
    BY BatchTyped
<1>2. CASE batch \in Saves
    BY <1>2 DEF Saves
<1>3. CASE batch \in Deletes
    BY <1>3 DEF Deletes
<1> QED
    BY <1>1, <1>2, <1>3

LEMMA ServeTyped ==
    ASSUME TaggingTypeOK, Serve
    PROVE  TaggingTypeOK' /\ batch # none
<1>1. batch # none /\ batch.pc = "sent"
    BY DEF Serve, none
<1>2. batch \in Saves \cup Deletes /\ server \in Contents
    BY <1>1, BatchTyped DEF TaggingTypeOK
<1>3. server' \in Contents
    <2>1. server' = After(server, batch) \/ server' = server
        BY DEF Serve
    <2>2. After(server, batch) \in Contents
        BY <1>2, AfterTyped
    <2> QED
        BY <1>2, <2>1, <2>2
<1>4. batch' \in Saves \cup Deletes
    <2>1. batch' = [batch EXCEPT !.pc = "done"] \/ batch' = [batch EXCEPT !.pc = "refused"]
        BY DEF Serve
    <2> QED
        BY <1>1, <2>1, BatchAnswered
<1>5. UNCHANGED <<cards, tags, panel, events, root, offline_queue, online, edits, latest, landed, dropped>>
    BY DEF Serve, BatchUnchanged
<1> QED
    BY <1>1, <1>3, <1>4, <1>5 DEF TaggingTypeOK

LEMMA AnswerTyped ==
    ASSUME TaggingTypeOK, Answer
    PROVE  TaggingTypeOK' /\ batch # none
<1>1. batch # none
    BY DEF Answer, none
<1>2. batch \in Saves \cup Deletes /\ batch.tag \in Seq(Bodies)
    <2>1. batch \in Saves \cup Deletes
        BY <1>1, BatchTyped
    <2>2. << >> \in Seq(Bodies)
        OBVIOUS
    <2> QED
        BY <2>1, <2>2 DEF Saves, Deletes, Versions
<1>3. Content(cards, tags) \in Contents
    BY DEF Content, Contents, TaggingTypeOK
<1>4. After(Content(cards, tags), batch).cards \in CardLists
    BY <1>2, <1>3, AfterTyped, ContentTyped
<1>5. cards' \in CardLists
    <2>1. cards' = After(Content(cards, tags), batch).cards \/ cards' = cards
        BY DEF Answer
    <2> QED
        BY <1>4, <2>1 DEF TaggingTypeOK
<1>6. tags' \in TagLists
    <2>1. \/ tags' = [tags EXCEPT ![batch.id] = IF tags[batch.id] = << >> THEN tags[batch.id]
                                                                          ELSE batch.tag]
          \/ tags' = tags
        BY DEF Answer
    <2>2. tags \in TagLists
        BY DEF TaggingTypeOK
    <2> QED
        BY <1>2, <2>1, <2>2 DEF TagLists
<1>7. panel' \in Panels
    <2>1. panel' = none \/ panel' = panel
        BY DEF Answer
    <2> QED
        BY <2>1 DEF TaggingTypeOK, Panels
<1>8. /\ UNCHANGED <<server, events, root, offline_queue, online, edits, latest, landed, dropped>>
      /\ batch' = none
    BY DEF Answer, BatchUnchanged
<1> QED
    BY <1>1, <1>5, <1>6, <1>7, <1>8 DEF TaggingTypeOK

LEMMA SyncTyped ==
    ASSUME TaggingTypeOK, Sync
    PROVE  TaggingTypeOK'
<1>1. PICK end : /\ end = Flushed(AtStart, Retained(offline_queue, Fresh))
                 /\ tags' = Changed(tags, server.tags, root.tags)
                 /\ cards' = end.cards /\ root' = server /\ server' = end.content
                 /\ offline_queue' = end.remaining
                 /\ landed' = end.landed /\ dropped' = end.dropped
    BY SyncFlushes
<1>2. end \in FlushStates
    <2>1. AtStart \in FlushStates /\ Retained(offline_queue, Fresh) \in Seq(QueuedCards)
        BY StartTyped, FreshQueue
    <2> QED
        BY <1>1, <2>1, FlushedKeeps
<1>3. tags' \in TagLists
    <2>1. tags \in TagLists /\ server.tags \in TagLists
        BY ContentTyped DEF TaggingTypeOK
    <2> QED
        BY <1>1, <2>1, ChangedTyped DEF TagLists
<1>4. /\ cards' \in CardLists /\ server' \in Contents /\ offline_queue' \in Seq(QueuedCards)
      /\ landed' \in SUBSET Nat /\ dropped' \in SUBSET Nat
    BY <1>1, <1>2 DEF FlushStates
<1>5. root' \in Contents
    BY <1>1 DEF TaggingTypeOK
<1>6. UNCHANGED <<online, panel, batch, edits, events, latest>>
    BY DEF Sync
<1> QED
    BY <1>3, <1>4, <1>5, <1>6 DEF TaggingTypeOK

-----------------------------------------------------------------------------
(* The server's content only gets newer. *)

Grown(s, t) ==
    /\ \A id \in Listed : t.cards[id] = s.cards[id] \/ Len(s.cards[id]) < Len(t.cards[id])
    /\ \A u \in TagIds : t.tags[u] = s.tags[u] \/ Newer(s.tags[u], t.tags[u])

LEMMA BatchIsNews ==
    ASSUME TaggingTypeOK, SaveAsBuilt, batch # none, Accepts(server, batch)
    PROVE  /\ After(server, batch) \in Contents /\ Grown(server, After(server, batch))
           /\ Newer(server.tags[batch.id], After(server, batch).tags[batch.id])
           /\ \A id \in DOMAIN batch.cards :
                 Len(server.cards[id]) < Len(After(server, batch).cards[id])
<1>1. /\ batch \in Saves \cup Deletes /\ batch.id \in TagIds /\ batch.cards \in CardEdits
      /\ batch.kind = "save" => batch \in Saves
      /\ batch.kind = "delete" => batch.tag = << >>
      /\ batch.kind \in {"save", "delete"}
    BY BatchTyped
<1>2. server \in Contents
    BY DEF TaggingTypeOK
<1>3. /\ After(server, batch) \in Contents
      /\ \A id \in Listed : After(server, batch).cards[id] =
                               IF id \in DOMAIN batch.cards THEN batch.cards[id]
                                                            ELSE server.cards[id]
      /\ After(server, batch).tags = [server.tags EXCEPT ![batch.id] = batch.tag]
    BY <1>1, <1>2, AfterTyped
<1>4. \A id \in DOMAIN batch.cards :
          /\ id \in Listed /\ Len(server.cards[id]) < Len(After(server, batch).cards[id])
    <2> SUFFICES ASSUME NEW id \in DOMAIN batch.cards
                 PROVE  id \in Listed /\ Len(server.cards[id]) < Len(After(server, batch).cards[id])
        OBVIOUS
    <2>1. id \in Listed /\ batch.cards[id] \in Versions
        BY <1>1, EditsTyped
    <2>2. Chained(server, id, batch.cards[id])
        BY DEF Accepts
    <2>3. Len(batch.cards[id]) = Len(server.cards[id]) + 1
        BY <1>2, <2>1, <2>2, ChainedLonger
    <2>4. Len(server.cards[id]) \in Nat /\ Len(server.cards[id]) <= Len(server.cards[id])
        BY <1>2, <2>1, ContentTyped, VersionEnds
    <2>5. After(server, batch).cards[id] = batch.cards[id]
        BY <1>3, <2>1
    <2>6. Len(server.cards[id]) < Len(batch.cards[id])
        BY <2>3, <2>4, LessThanNext, Zenon
    <2> QED
        BY <2>1, <2>5, <2>6
<1>5. After(server, batch).tags[batch.id] = batch.tag
    <2>1. DOMAIN server.tags = TagIds
        BY <1>2, ContentTyped DEF TagLists
    <2> QED
        BY <1>1, <1>3, <2>1
<1>6. Newer(server.tags[batch.id], batch.tag)
    <2>1. CASE batch.kind = "save"
        <3>1. batch.tag \in Versions /\ Len(batch.tag) >= 2
            BY <1>1, <2>1 DEF SaveAsBuilt, Saves
        <3>2. Front(batch.tag) = server.tags[batch.id]
            BY <2>1 DEF Accepts
        <3>3. /\ Len(batch.tag) \in Nat /\ Len(server.tags[batch.id]) = Len(batch.tag) - 1
            BY <3>1, <3>2, VersionEnds
        <3>4. server.tags[batch.id] # << >>
            BY <3>1, <3>3
        <3> QED
            BY <3>3, <3>4 DEF Newer
    <2>2. CASE batch.kind = "delete"
        BY <1>1, <2>2 DEF Accepts, Newer
    <2> QED
        BY <1>1, <2>1, <2>2
<1>7. Grown(server, After(server, batch))
    <2>1. \A id \in Listed : \/ After(server, batch).cards[id] = server.cards[id]
                             \/ Len(server.cards[id]) < Len(After(server, batch).cards[id])
        BY <1>3, <1>4
    <2>2. \A u \in TagIds : \/ After(server, batch).tags[u] = server.tags[u]
                            \/ Newer(server.tags[u], After(server, batch).tags[u])
        <3>1. \A u \in TagIds : u # batch.id => After(server, batch).tags[u] = server.tags[u]
            BY <1>3
        <3> QED
            BY <3>1, <1>5, <1>6
    <2> QED
        BY <2>1, <2>2 DEF Grown
<1> QED
    BY <1>3, <1>4, <1>5, <1>6, <1>7

LEMMA RemoteNews ==
    ASSUME TaggingTypeOK, Remote
    PROVE  /\ server' \in Contents /\ Grown(server, server')
           /\ events' \in Nat
           /\ UNCHANGED <<online, batch, clientVars, panel, edits, latest, landed, dropped>>
<1> DEFINE n == 100 + events
<1>1. /\ events' \in Nat
      /\ UNCHANGED <<online, batch, clientVars, panel, edits, latest, landed, dropped>>
    BY DEF Remote, Event, WorldUnchanged, TaggingTypeOK
<1>2. server \in Contents /\ n \in Nat
    BY DEF TaggingTypeOK
<1>3. /\ server.cards \in CardLists /\ server.tags \in TagLists
      /\ DOMAIN server.cards = Listed /\ DOMAIN server.tags = TagIds
      /\ server = [cards |-> server.cards, tags |-> server.tags]
    BY <1>2, ContentTyped DEF Contents, CardLists, TagLists
<1>4. ASSUME NEW id \in Listed, NEW S \in SUBSET TagIds
      PROVE  /\ Append(server.cards[id], Body(n, S)) \in Versions
             /\ Len(server.cards[id]) < Len(Append(server.cards[id], Body(n, S)))
    <2>1. Body(n, S) \in Bodies
        BY <1>2, BodyTyped
    <2>2. server.cards[id] \in Seq(Bodies) /\ Len(server.cards[id]) \in Nat
        BY <1>2, ContentTyped, VersionEnds
    <2> QED
        BY <2>1, <2>2, AppendEnds DEF Versions
<1>5. ASSUME NEW t \in Live(server.tags), NEW S \in SUBSET TagIds
      PROVE  /\ t \in TagIds /\ Append(server.tags[t], Body(n, S)) \in Seq(Bodies)
             /\ Newer(server.tags[t], Append(server.tags[t], Body(n, S)))
    <2>1. t \in TagIds /\ server.tags[t] # << >>
        BY <1>3, SetsTyped
    <2>2. Body(n, S) \in Bodies /\ server.tags[t] \in Seq(Bodies) /\ Len(server.tags[t]) \in Nat
        BY <1>2, <2>1, BodyTyped, ContentTyped
    <2>3. /\ Append(server.tags[t], Body(n, S)) \in Seq(Bodies)
          /\ Len(Append(server.tags[t], Body(n, S))) = Len(server.tags[t]) + 1
        BY <2>2, AppendEnds
    <2> QED
        BY <2>1, <2>2, <2>3 DEF Newer
<1> HIDE DEF n
<1>6. ASSUME NEW id \in Listed, NEW S \in SUBSET Live(server.tags),
             server' = [server EXCEPT !.cards = [server.cards EXCEPT ![id] =
                                                    Append(server.cards[id], Body(n, S))]]
      PROVE  server' \in Contents /\ Grown(server, server')
    <2> DEFINE v == Append(server.cards[id], Body(n, S))
    <2>1. S \in SUBSET TagIds
        BY <1>3, SetsTyped
    <2>2. v \in Versions /\ Len(server.cards[id]) < Len(v)
        BY <2>1, <1>4
    <2> HIDE DEF v
    <2>3. server' = [cards |-> [server.cards EXCEPT ![id] = v], tags |-> server.tags]
        BY <1>3, <1>6 DEF v
    <2>4. [server.cards EXCEPT ![id] = v] \in CardLists
        BY <1>3, <2>2 DEF CardLists
    <2>5. server'.cards[id] = v /\ \A i \in Listed : i # id => server'.cards[i] = server.cards[i]
        BY <1>3, <2>3
    <2> QED
        BY <1>3, <2>2, <2>3, <2>4, <2>5 DEF Contents, Grown
<1>7. ASSUME NEW t \in Live(server.tags), NEW S \in SUBSET Live(server.tags), NEW D \in SUBSET Listed,
             NEW g,
             server' = Content([id \in Listed |->
                           IF id \in D
                           THEN Append(server.cards[id], Body(n, ClosureOf(g, Sets(server.cards)[id])))
                           ELSE server.cards[id]],
                           [server.tags EXCEPT ![t] = Append(server.tags[t], Body(n, S))])
      PROVE  server' \in Contents /\ Grown(server, server')
    <2> DEFINE v == Append(server.tags[t], Body(n, S))
               w(id) == Append(server.cards[id], Body(n, ClosureOf(g, Sets(server.cards)[id])))
               cs == [id \in Listed |-> IF id \in D THEN w(id) ELSE server.cards[id]]
               ts == [server.tags EXCEPT ![t] = v]
    <2>1. S \in SUBSET TagIds
        BY <1>3, SetsTyped
    <2>2. t \in TagIds /\ v \in Seq(Bodies) /\ Newer(server.tags[t], v)
        BY <2>1, <1>5
    <2>3. \A id \in Listed : w(id) \in Versions /\ Len(server.cards[id]) < Len(w(id))
        BY <1>4, ClosureWithin
    <2> HIDE DEF v, w
    <2>4. server' = [cards |-> cs, tags |-> ts]
        BY <1>7 DEF Content, v, w
    <2>5. cs \in CardLists
        BY <1>3, <2>3 DEF CardLists
    <2>6. \A id \in Listed : cs[id] = server.cards[id] \/ Len(server.cards[id]) < Len(cs[id])
        BY <2>3
    <2>7. ts \in TagLists
        BY <1>3, <2>2 DEF TagLists
    <2>8. \A u \in TagIds : ts[u] = server.tags[u] \/ Newer(server.tags[u], ts[u])
        BY <1>3, <2>2
    <2> HIDE DEF cs, ts
    <2> QED
        BY <2>4, <2>5, <2>6, <2>7, <2>8 DEF Contents, Grown
<1>8. ASSUME NEW t \in Live(server.tags), server' = [server EXCEPT !.tags[t] = << >>]
      PROVE  server' \in Contents /\ Grown(server, server')
    <2>1. t \in TagIds /\ server.tags[t] # << >>
        BY <1>3, SetsTyped
    <2>2. server' = [cards |-> server.cards, tags |-> [server.tags EXCEPT ![t] = << >>]]
        BY <1>3, <1>8
    <2>3. << >> \in Seq(Bodies)
        OBVIOUS
    <2>4. [server.tags EXCEPT ![t] = << >>] \in TagLists
        BY <1>3, <2>1, <2>3 DEF TagLists
    <2>5. server'.tags[t] = << >> /\ \A u \in TagIds : u # t => server'.tags[u] = server.tags[u]
        BY <1>3, <2>1, <2>2
    <2> QED
        BY <1>3, <2>1, <2>2, <2>4, <2>5 DEF Contents, Grown, Newer
<1>9. \/ \E id \in Listed, S \in SUBSET Live(server.tags) :
             server' = [server EXCEPT !.cards = [server.cards EXCEPT ![id] =
                                                    Append(server.cards[id], Body(n, S))]]
      \/ \E t \in Live(server.tags), S \in SUBSET Live(server.tags), D \in SUBSET Listed :
            \E g : server' = Content([id \in Listed |->
                           IF id \in D
                           THEN Append(server.cards[id], Body(n, ClosureOf(g, Sets(server.cards)[id])))
                           ELSE server.cards[id]],
                           [server.tags EXCEPT ![t] = Append(server.tags[t], Body(n, S))])
      \/ \E t \in Live(server.tags) : server' = [server EXCEPT !.tags[t] = << >>]
    <2>1. ASSUME NEW t \in Live(server.tags), NEW S \in SUBSET Live(server.tags)
          PROVE  affected_cards_for_change(Upsert(Sets(server.tags), t, S), Sets(server.cards))
                     \in SUBSET Listed
        BY <1>3, CardSetsTyped DEF affected_cards_for_change
    <2> QED
        BY <2>1 DEF Remote, n
<1> QED
    BY <1>1, <1>6, <1>7, <1>8, <1>9

LEMMA LoseNews ==
    ASSUME TaggingTypeOK, SaveAsBuilt, Lose
    PROVE  /\ server' \in Contents /\ (server' = server \/ Grown(server, server'))
           /\ batch' = none /\ online' \in BOOLEAN /\ events' \in Nat
           /\ UNCHANGED <<clientVars, panel, edits, latest, landed, dropped>>
<1>1. /\ batch' = none /\ online' \in BOOLEAN /\ events' \in Nat
      /\ UNCHANGED <<clientVars, panel, edits, latest, landed, dropped>>
    <2>1. batch' = none /\ online' = FALSE /\ events' = events + 1 /\ WorldUnchanged
        BY DEF Lose, Event
    <2>2. events \in Nat
        BY DEF TaggingTypeOK
    <2>3. UNCHANGED <<clientVars, panel, edits, latest, landed, dropped>>
        BY <2>1 DEF WorldUnchanged
    <2>4. events' \in Nat
        BY <2>1, <2>2
    <2>5. online' \in BOOLEAN
        BY <2>1
    <2> QED
        BY <2>1, <2>3, <2>4, <2>5, Zenon
<1>2. CASE server' = server
    BY <1>1, <1>2 DEF TaggingTypeOK
<1>3. CASE batch.pc = "sent" /\ Accepts(server, batch) /\ server' = After(server, batch)
    <2>1. batch # none
        BY <1>3 DEF none
    <2>2. server' \in Contents /\ Grown(server, server')
        BY <1>3, <2>1, BatchIsNews
    <2> QED
        BY <1>1, <2>2
<1> QED
    BY <1>2, <1>3 DEF Lose

-----------------------------------------------------------------------------
(* A save is never lost without a word *)

TaggingStep == [TaggingNext]_taggingVars

LEMMA TypesStep ==
    ASSUME TaggingTypeOK, SaveAsBuilt, TaggingStep
    PROVE  TaggingTypeOK' /\ SaveAsBuilt'
<1>1. ASSUME UNCHANGED taggingVars PROVE TaggingTypeOK' /\ SaveAsBuilt'
    BY <1>1 DEF taggingVars, clientVars, TaggingTypeOK, SaveAsBuilt
<1>2. ASSUME \/ \E id \in Listed : OpenEditor(id)
             \/ \E t \in TagIds : ToggleTag(t) \/ start_editing(t) \/ AddImplies(t) \/ RemoveImplies(t)
             \/ ClosePanel
      PROVE  TaggingTypeOK' /\ SaveAsBuilt'
    <2>1. TaggingTypeOK' /\ PanelOnly
        BY <1>2, PanelStepsTyped
    <2> QED
        BY <2>1 DEF PanelOnly, SaveAsBuilt
<1>3. ASSUME SaveCard PROVE TaggingTypeOK' /\ SaveAsBuilt'
    <2>1. TaggingTypeOK' /\ UNCHANGED batch
        BY <1>3, SaveCardTyped DEF SaveCard
    <2> QED
        BY <2>1 DEF SaveAsBuilt
<1>4. ASSUME NEW b, Send(b), batch' \in Saves \cup Deletes PROVE TaggingTypeOK'
    BY <1>4 DEF Send, clientVars, TaggingTypeOK
<1>5. ASSUME save_changes PROVE TaggingTypeOK' /\ SaveAsBuilt'
    <2>1. batch' \in Saves /\ SaveAsBuilt'
        BY <1>5, SaveSent
    <2>2. \E b : Send(b)
        BY <1>5 DEF save_changes
    <2> QED
        BY <1>4, <2>1, <2>2
<1>6. ASSUME NEW t \in TagIds, do_delete(t) PROVE TaggingTypeOK' /\ SaveAsBuilt'
    <2>1. batch' \in Deletes
        BY <1>6, DeleteSent
    <2>2. \E b : Send(b)
        BY <1>6 DEF do_delete
    <2>3. SaveAsBuilt'
        BY <2>1 DEF Deletes, SaveAsBuilt
    <2> QED
        BY <1>4, <2>1, <2>2, <2>3
<1>7. ASSUME Serve PROVE TaggingTypeOK' /\ SaveAsBuilt'
    <2>1. TaggingTypeOK' /\ batch # none
        BY <1>7, ServeTyped
    <2>2. batch' = [batch EXCEPT !.pc = "done"] \/ batch' = [batch EXCEPT !.pc = "refused"]
        BY <1>7 DEF Serve
    <2>3. batch \in Saves \cup Deletes
        BY <2>1, BatchTyped
    <2>4. /\ batch'.kind = batch.kind /\ batch'.cards = batch.cards /\ batch'.id = batch.id
          /\ batch'.tag = batch.tag
          /\ batch.kind = "save" => batch'.known = batch.known
        BY <2>2, <2>3 DEF Saves, Deletes
    <2>5. CASE batch.kind = "save"
        <3>1. batch'.known = batch.known
            BY <2>4, <2>5
        <3>2. SaveAsBuilt'
            BY <2>4, <2>5, <3>1 DEF SaveAsBuilt
        <3> QED
            BY <2>1, <3>2
    <2>6. CASE batch.kind # "save"
        BY <2>1, <2>4, <2>6 DEF SaveAsBuilt
    <2> QED
        BY <2>5, <2>6
<1>8. ASSUME Answer PROVE TaggingTypeOK' /\ SaveAsBuilt'
    BY <1>8, AnswerTyped DEF Answer, SaveAsBuilt, none
<1>9. ASSUME Sync PROVE TaggingTypeOK' /\ SaveAsBuilt'
    <2>1. TaggingTypeOK' /\ UNCHANGED batch
        BY <1>9, SyncTyped DEF Sync
    <2> QED
        BY <2>1 DEF SaveAsBuilt
<1>10. ASSUME Remote PROVE TaggingTypeOK' /\ SaveAsBuilt'
    <2>1. /\ server' \in Contents /\ events' \in Nat
          /\ UNCHANGED <<online, batch, clientVars, panel, edits, latest, landed, dropped>>
        BY <1>10, RemoteNews
    <2> QED
        BY <2>1 DEF clientVars, TaggingTypeOK, SaveAsBuilt
<1>11. ASSUME Lose PROVE TaggingTypeOK' /\ SaveAsBuilt'
    <2>1. /\ server' \in Contents /\ batch' = none /\ online' \in BOOLEAN /\ events' \in Nat
          /\ UNCHANGED <<clientVars, panel, edits, latest, landed, dropped>>
        BY <1>11, LoseNews
    <2> QED
        BY <2>1 DEF clientVars, TaggingTypeOK, SaveAsBuilt, none
<1>12. ASSUME Reconnect PROVE TaggingTypeOK' /\ SaveAsBuilt'
    BY <1>12 DEF Reconnect, clientVars, TaggingTypeOK, SaveAsBuilt
<1> QED
    BY <1>1, <1>2, <1>3, <1>5, <1>6, <1>7, <1>8, <1>9, <1>10, <1>11, <1>12
    DEF TaggingStep, TaggingNext

\* An edit that landed, was dropped or is queued stays so through a sync.
LEMMA SyncSettles ==
    ASSUME TaggingTypeOK, Sync, NEW id \in Listed, NEW e,
           e \in landed \cup dropped \/ InQueue(offline_queue, id, e)
    PROVE  e \in landed' \cup dropped' \/ InQueue(offline_queue', id, e)
<1>1. PICK end : /\ end = Flushed(AtStart, Retained(offline_queue, Fresh))
                 /\ offline_queue' = end.remaining
                 /\ landed' = end.landed /\ dropped' = end.dropped
    BY SyncFlushes
<1>2. /\ AtStart \in FlushStates /\ AtStart.landed = landed /\ AtStart.dropped = dropped \cup StaleOnes
      /\ Retained(offline_queue, Fresh) \in Seq(QueuedCards)
      /\ \A q \in EntriesOf(offline_queue) :
                 q \in EntriesOf(Retained(offline_queue, Fresh)) \/ Last(q.version).by \in StaleOnes
    BY StartTyped, FreshQueue
<1>3. FlushedTo(AtStart, end, EntriesOf(Retained(offline_queue, Fresh)))
    BY <1>1, <1>2, FlushedKeeps
<1>4. landed \subseteq landed' /\ dropped \cup StaleOnes \subseteq dropped'
    BY <1>1, <1>2, <1>3 DEF FlushedTo
<1>5. CASE InQueue(offline_queue, id, e)
    <2>1. PICK q \in EntriesOf(offline_queue) : q.id = id /\ Last(q.version).by = e
        BY <1>5 DEF InQueue
    <2>2. CASE q \in EntriesOf(Retained(offline_queue, Fresh))
        <3>1. e \in end.dropped \/ q \in EntriesOf(end.remaining) \/ e \in end.landed
            BY <1>3, <2>1, <2>2 DEF FlushedTo, EditOf
        <3> QED
            BY <1>1, <2>1, <3>1 DEF InQueue
    <2>3. CASE Last(q.version).by \in StaleOnes
        BY <1>4, <2>1, <2>3
    <2> QED
        BY <1>2, <2>1, <2>2, <2>3
<1> QED
    BY <1>4, <1>5

LEMMA LastSaveStep ==
    ASSUME TaggingInv, TaggingStep
    PROVE  LastSaveKnown'
<1> USE DEF TaggingInv
<1>1. ASSUME UNCHANGED <<latest, landed, dropped, offline_queue>> PROVE LastSaveKnown'
    BY <1>1 DEF LastSaveKnown, InQueue
<1>2. ASSUME SaveCard PROVE LastSaveKnown'
    <2>1. PICK id \in Listed, v \in Versions :
              /\ latest' = [latest EXCEPT ![id] = edits + 1]
              /\ Last(v).by = edits + 1
              /\ \/ /\ landed' = landed \cup {edits + 1}
                    /\ offline_queue' = Without(offline_queue, id)
                 \/ /\ offline_queue' = Queued(offline_queue, id, v)
                    /\ UNCHANGED landed
        BY <1>2, SaveCardCases
    <2>2. offline_queue \in Seq(QueuedCards) /\ latest \in [Listed -> Nat]
        BY DEF TaggingTypeOK
    <2>3. dropped' = dropped /\ landed \subseteq landed'
        BY <1>2, <2>1 DEF SaveCard
    <2>4. \A q \in EntriesOf(offline_queue) : q.id # id => q \in EntriesOf(offline_queue')
        BY <2>1, <2>2, WithoutEntries, QueuedEntries
    <2>5. \A i \in Listed : i # id =>
              /\ latest'[i] = latest[i]
              /\ InQueue(offline_queue, i, latest[i]) => InQueue(offline_queue', i, latest'[i])
        <3> SUFFICES ASSUME NEW i \in Listed, i # id
                     PROVE  /\ latest'[i] = latest[i]
                            /\ InQueue(offline_queue, i, latest[i]) => InQueue(offline_queue', i, latest'[i])
            OBVIOUS
        <3>1. latest'[i] = latest[i]
            BY <2>1, <2>2
        <3> QED
            BY <3>1, <2>4 DEF InQueue
    <2>6. latest'[id] = edits + 1
        BY <2>1, <2>2
    <2>7. \/ edits + 1 \in landed'
          \/ \E q \in EntriesOf(offline_queue') : q.id = id /\ Last(q.version).by = edits + 1
        <3>1. CASE offline_queue' = Queued(offline_queue, id, v)
            <4>1. [id |-> id, version |-> v] \in EntriesOf(offline_queue')
                BY <3>1, <2>2, QueuedEntries
            <4> QED
                BY <4>1, <2>1
        <3> QED
            BY <3>1, <2>1
    <2> QED
        <3>1. ASSUME NEW i \in Listed, latest'[i] # 0
              PROVE  latest'[i] \in landed' \cup dropped' \/ InQueue(offline_queue', i, latest'[i])
            <4>1. CASE i = id
                BY <4>1, <2>6, <2>7 DEF InQueue
            <4>2. CASE i # id
                BY <4>2, <3>1, <2>3, <2>5 DEF LastSaveKnown
            <4> QED
                BY <4>1, <4>2
        <3> QED
            BY <3>1 DEF LastSaveKnown
<1>3. ASSUME Sync PROVE LastSaveKnown'
    <2>1. latest' = latest
        BY <1>3 DEF Sync
    <2>2. \A id \in Listed : latest[id] \in landed \cup dropped \/ InQueue(offline_queue, id, latest[id]) =>
              \/ latest[id] \in landed' \cup dropped'
              \/ \E q \in EntriesOf(offline_queue') : q.id = id /\ Last(q.version).by = latest[id]
        BY <1>3, SyncSettles DEF InQueue
    <2> QED
        BY <2>1, <2>2 DEF LastSaveKnown, InQueue
<1>4. ASSUME \/ \E id \in Listed : OpenEditor(id)
             \/ \E t \in TagIds : ToggleTag(t) \/ start_editing(t) \/ AddImplies(t) \/ RemoveImplies(t)
             \/ ClosePanel
      PROVE  UNCHANGED <<latest, landed, dropped, offline_queue>>
    <2>1. PanelOnly
        BY <1>4, PanelStepsTyped
    <2> QED
        BY <2>1 DEF PanelOnly, clientVars
<1>5. ASSUME \/ save_changes \/ (\E t \in TagIds : do_delete(t)) \/ Serve \/ Answer
             \/ Remote \/ Lose \/ Reconnect \/ UNCHANGED taggingVars
      PROVE  UNCHANGED <<latest, landed, dropped, offline_queue>>
    BY <1>5 DEF save_changes, do_delete, Send, Serve, Answer, BatchUnchanged, Remote, Lose,
                WorldUnchanged, Reconnect, clientVars, taggingVars
<1> QED
    BY <1>1, <1>2, <1>3, <1>4, <1>5 DEF TaggingStep, TaggingNext

\* The user's last save of a card is on the server, in the queue, or given up
\* with a word, for any number of cards, tags, saves and lost connections and
\* whatever the server refuses (state/sync.rs, flush_offline_queue).
THEOREM NoSaveLostSilently == TaggingSpec => []EditsAccounted
<1>1. TaggingInit => TaggingInv
    <2> SUFFICES ASSUME TaggingInit PROVE TaggingInv
        OBVIOUS
    <2>1. TaggingTypeOK
        BY InitTyped
    <2>2. SaveAsBuilt /\ LastSaveKnown
        BY DEF TaggingInit, SaveAsBuilt, LastSaveKnown, none
    <2> QED
        BY <2>1, <2>2 DEF TaggingInv
<1>2. TaggingInv /\ [TaggingNext]_taggingVars => TaggingInv'
    BY TypesStep, LastSaveStep DEF TaggingInv, TaggingStep
<1>3. TaggingInv => EditsAccounted
    <2> SUFFICES ASSUME TaggingInv, NEW id \in Listed, latest[id] # 0,
                        latest[id] \notin landed \cup dropped
                 PROVE  \E i \in DOMAIN offline_queue :
                            /\ offline_queue[i].id = id
                            /\ Last(offline_queue[i].version).by = latest[id]
        BY DEF EditsAccounted
    <2>1. InQueue(offline_queue, id, latest[id])
        BY DEF TaggingInv, LastSaveKnown
    <2> QED
        BY <2>1 DEF InQueue, EntriesOf
<1> QED
    BY <1>1, <1>2, <1>3, PTL DEF TaggingSpec

\* A tag's save that the server accepts gives each card what the new graph
\* implies for its tags and nothing else, if the client knew the tags as they
\* were: for any graph and any cards (tag_detail.rs, commit_tag_update).
THEOREM SavesAreLeast == TaggingSpec => TagSaveIsLeast
<1> DEFINE Least ==
        batch.kind = "save" /\ Accepts(server, batch) /\ server' = After(server, batch) =>
            (batch.known = Sets(server.tags) =>
                \A id \in Listed : Last(server'.cards[id]).set =
                                       ClosureOf(Sets(server'.tags), Last(server.cards[id]).set))
<1>1. TaggingInit => TaggingTypeOK /\ SaveAsBuilt
    BY InitTyped DEF TaggingInit, SaveAsBuilt, none
<1>2. TaggingTypeOK /\ SaveAsBuilt => Least
    <2> SUFFICES ASSUME TaggingTypeOK, SaveAsBuilt, batch.kind = "save", Accepts(server, batch),
                        server' = After(server, batch), batch.known = Sets(server.tags),
                        NEW id \in Listed
                 PROVE  Last(server'.cards[id]).set =
                            ClosureOf(Sets(server'.tags), Last(server.cards[id]).set)
        OBVIOUS
    <2> DEFINE had == Last(server.cards[id]).set
               next == Upsert(Sets(server.tags), batch.id, Last(batch.tag).set)
    <2>1. batch # none
        BY DEF none
    <2>2. batch \in Saves /\ batch.id \in TagIds /\ batch.cards \in CardEdits /\ batch.tag \in Versions
        BY <2>1, BatchTyped DEF Saves
    <2>3. server \in Contents /\ server.tags \in TagLists /\ had \in SUBSET TagIds
        BY ContentTyped, CardSetsTyped DEF TaggingTypeOK
    <2>4. /\ server' \in Contents
          /\ server'.cards[id] = IF id \in DOMAIN batch.cards THEN batch.cards[id] ELSE server.cards[id]
          /\ server'.tags = [server.tags EXCEPT ![batch.id] = batch.tag]
        BY <2>2, <2>3, AfterTyped
    <2>5. Sets(server'.tags) = next
        <3>1. server'.tags \in TagLists /\ DOMAIN server.tags = TagIds
            BY <2>3, <2>4, ContentTyped DEF TagLists
        <3>2. /\ Live(server.tags) = {t \in TagIds : server.tags[t] # << >>}
              /\ Live(server'.tags) = {t \in TagIds : server'.tags[t] # << >>}
              /\ DOMAIN Sets(server.tags) = Live(server.tags)
              /\ Sets(server'.tags) = [t \in Live(server'.tags) |-> Last(server'.tags[t]).set]
            BY <2>3, <3>1, SetsTyped DEF Sets
        <3>3. \A t \in TagIds : server'.tags[t] = IF t = batch.id THEN batch.tag ELSE server.tags[t]
            BY <2>2, <2>4, <3>1
        <3>4. batch.tag # << >>
            BY <2>2 DEF Versions
        <3>5. Live(server'.tags) = Live(server.tags) \cup {batch.id}
            BY <2>2, <3>2, <3>3, <3>4
        <3>6. \A t \in Live(server.tags) : Sets(server.tags)[t] = Last(server.tags[t]).set
            BY <2>3, SetsTyped
        <3>7. \A t \in Live(server'.tags) :
                  Last(server'.tags[t]).set = IF t = batch.id THEN Last(batch.tag).set
                                                              ELSE Sets(server.tags)[t]
            BY <3>2, <3>3, <3>5, <3>6
        <3> QED
            BY <3>2, <3>5, <3>7 DEF Upsert
    <2>6. Sets(server'.tags) \in Graphs
        BY <2>4, ContentTyped, SetsTyped
    <2> HIDE DEF next, had
    <2>7. had \subseteq ClosureOf(next, had)
        BY <2>3, <2>5, <2>6, RootsInClosure
    <2>8. CASE id \in DOMAIN batch.cards
        <3>1. Front(batch.cards[id]) = server.cards[id]
            BY <2>8 DEF Accepts, Chained
        <3>2. Last(batch.cards[id]).set = had \cup MissingForCard(next, had)
            BY <2>8, <3>1 DEF SaveAsBuilt, had, next
        <3> QED
            BY <2>4, <2>5, <2>7, <2>8, <3>2 DEF MissingForCard, had
    <2>9. CASE id \notin DOMAIN batch.cards
        <3>1. server'.cards[id] = server.cards[id]
            BY <2>4, <2>9
        <3>2. Valid(server')
            BY DEF Accepts
        <3>3. id \in Live(server'.cards)
            BY <2>4, ContentTyped, CardSetsTyped
        <3>4. ClosedUnder(Sets(server'.tags), Last(server'.cards[id]).set)
            BY <3>2, <3>3 DEF Valid
        <3>5. ClosedUnder(next, had)
            BY <2>5, <3>1, <3>4 DEF had
        <3>6. ClosureOf(next, had) \subseteq had
            BY <2>3, <2>5, <2>6, <3>5, ClosureIsLeast
        <3> QED
            BY <2>5, <2>7, <3>1, <3>6 DEF had
    <2> QED
        BY <2>8, <2>9 DEF had
<1>3. TaggingTypeOK /\ SaveAsBuilt /\ [TaggingNext]_taggingVars => (TaggingTypeOK /\ SaveAsBuilt)'
    BY TypesStep DEF TaggingStep
<1> QED
    BY <1>1, <1>2, <1>3, PTL DEF TaggingSpec, TagSaveIsLeast

-----------------------------------------------------------------------------
(* The list follows the server *)

LEMMA NewerNews ==
    ASSUME NEW u \in Seq(Bodies), NEW v \in Seq(Bodies), NEW w \in Seq(Bodies)
    PROVE  /\ ~Newer(v, v)
           /\ Newer(u, v) /\ Newer(v, w) => Newer(u, w)
<1>1. Len(u) \in Nat /\ Len(v) \in Nat /\ Len(w) \in Nat
    OBVIOUS
<1> QED
    BY <1>1 DEF Newer

\* What is news on the server stays news while the root is the same.
LEMMA NewsStays ==
    ASSUME TaggingTypeOK, server' \in Contents, server' = server \/ Grown(server, server'),
           root' = root
    PROVE  /\ \A id \in Listed :
                 Len(root.cards[id]) < Len(server.cards[id]) => Len(root'.cards[id]) < Len(server'.cards[id])
           /\ \A t \in TagIds :
                 Newer(root.tags[t], server.tags[t]) => Newer(root'.tags[t], server'.tags[t])
<1>1. server \in Contents /\ root \in Contents
    BY DEF TaggingTypeOK
<1>2. ASSUME NEW id \in Listed, Len(root.cards[id]) < Len(server.cards[id])
      PROVE  Len(root'.cards[id]) < Len(server'.cards[id])
    <2>1. /\ Len(root.cards[id]) \in Nat /\ Len(server.cards[id]) \in Nat
          /\ Len(server'.cards[id]) \in Nat
        BY <1>1, ContentTyped, VersionEnds
    <2>2. \/ Len(server.cards[id]) = Len(server'.cards[id])
          \/ Len(server.cards[id]) < Len(server'.cards[id])
        BY DEF Grown
    <2>3. Len(server.cards[id]) <= Len(server'.cards[id])
        BY <2>1, <2>2, SameOrLess, Zenon
    <2>4. Len(root.cards[id]) < Len(server'.cards[id])
        BY <1>2, <2>1, <2>3, LessAndMore, Zenon
    <2> QED
        BY <2>4
<1>3. ASSUME NEW t \in TagIds, Newer(root.tags[t], server.tags[t])
      PROVE  Newer(root'.tags[t], server'.tags[t])
    <2>1. /\ root.tags[t] \in Seq(Bodies) /\ server.tags[t] \in Seq(Bodies)
          /\ server'.tags[t] \in Seq(Bodies)
        BY <1>1, ContentTyped
    <2>2. server'.tags[t] = server.tags[t] \/ Newer(server.tags[t], server'.tags[t])
        BY DEF Grown
    <2>3. Newer(root.tags[t], server'.tags[t])
        BY <1>3, <2>1, <2>2, NewerNews
    <2> QED
        BY <2>3
<1> QED
    BY <1>2, <1>3

\* A card whose version on the server stays must be shown, queued or dropped.
LEMMA CardStays ==
    ASSUME TaggingTypeOK, server' \in Contents, server' = server \/ Grown(server, server'),
           root' = root, NEW id \in Listed, CardFollows(id),
           server'.cards[id] = server.cards[id] =>
              \/ /\ cards'[id] = cards[id] /\ dropped \subseteq dropped'
                 /\ \A e : InQueue(offline_queue, id, e) => InQueue(offline_queue', id, e)
              \/ InQueue(offline_queue', id, Last(cards'[id]).by)
    PROVE  CardFollows(id)'
<1>1. CASE Len(root.cards[id]) < Len(server.cards[id])
    BY <1>1, NewsStays DEF CardFollows
<1>2. CASE root.cards[id] = server.cards[id] /\ server'.cards[id] # server.cards[id]
    <2>1. Len(server.cards[id]) < Len(server'.cards[id])
        BY <1>2 DEF Grown
    <2> QED
        BY <1>2, <2>1 DEF CardFollows
<1>3. CASE root.cards[id] = server.cards[id] /\ server'.cards[id] = server.cards[id]
    <2>1. root'.cards[id] = server'.cards[id]
        BY <1>3
    <2>2. CASE InQueue(offline_queue', id, Last(cards'[id]).by)
        BY <2>1, <2>2 DEF CardFollows
    <2>3. CASE /\ cards'[id] = cards[id] /\ dropped \subseteq dropped'
               /\ \A e : InQueue(offline_queue, id, e) => InQueue(offline_queue', id, e)
        <3>1. \/ cards[id] = root.cards[id] \/ Last(cards[id]).by \in dropped
              \/ InQueue(offline_queue, id, Last(cards[id]).by)
              \/ Len(root.cards[id]) < Len(root.cards[id])
            BY <1>3 DEF CardFollows
        <3>2. ~(Len(root.cards[id]) < Len(root.cards[id]))
            BY ContentTyped, VersionEnds DEF TaggingTypeOK
        <3> QED
            BY <2>1, <2>3, <3>1, <3>2 DEF CardFollows
    <2> QED
        BY <1>3, <2>2, <2>3
<1> QED
    BY <1>1, <1>2, <1>3 DEF CardFollows

LEMMA TagStays ==
    ASSUME TaggingTypeOK, server' \in Contents, server' = server \/ Grown(server, server'),
           root' = root, NEW t \in TagIds, TagFollows(t),
           tags'[t] = tags[t] \/ Newer(root.tags[t], server.tags[t])
    PROVE  TagFollows(t)'
<1>1. CASE Newer(root.tags[t], server.tags[t])
    BY <1>1, NewsStays DEF TagFollows
<1>2. CASE root.tags[t] = server.tags[t] /\ tags[t] = root.tags[t] /\ tags'[t] = tags[t]
    <2>1. server'.tags[t] = server.tags[t] \/ Newer(server.tags[t], server'.tags[t])
        BY DEF Grown
    <2> QED
        BY <1>2, <2>1 DEF TagFollows
<1> QED
    BY <1>1, <1>2 DEF TagFollows

\* Only the server's content changes.
LEMMA WorldFollows ==
    ASSUME TaggingTypeOK, ListFollows, server' \in Contents,
           server' = server \/ Grown(server, server'), UNCHANGED <<clientVars, dropped>>
    PROVE  ListFollows'
<1>1. root' = root /\ cards' = cards /\ tags' = tags /\ offline_queue' = offline_queue
    BY DEF clientVars
<1>2. ASSUME NEW id \in Listed PROVE CardFollows(id)'
    <2>1. CardFollows(id)
        BY DEF ListFollows
    <2> QED
        BY <1>1, <2>1, CardStays
<1>3. ASSUME NEW t \in TagIds PROVE TagFollows(t)'
    <2>1. TagFollows(t)
        BY DEF ListFollows
    <2> QED
        BY <1>1, <2>1, TagStays
<1> QED
    BY <1>2, <1>3 DEF ListFollows

LEMMA ServeFollows ==
    ASSUME TaggingTypeOK, SaveAsBuilt, FollowInv, Serve
    PROVE  FollowInv'
<1>1. batch # none /\ batch \in Saves \cup Deletes
    BY ServeTyped, BatchTyped
<1>2. UNCHANGED <<clientVars, dropped>>
    BY DEF Serve, BatchUnchanged, clientVars
<1>3. CASE /\ Accepts(server, batch) /\ server' = After(server, batch)
           /\ batch' = [batch EXCEPT !.pc = "done"]
    <2>1. /\ server' \in Contents /\ Grown(server, server')
          /\ Newer(server.tags[batch.id], server'.tags[batch.id])
          /\ \A id \in DOMAIN batch.cards : Len(server.cards[id]) < Len(server'.cards[id])
        BY <1>1, <1>3, BatchIsNews
    <2>2. ListFollows'
        BY <1>2, <2>1, WorldFollows DEF FollowInv
    <2>3. batch'.id = batch.id /\ batch'.cards = batch.cards
        BY <1>1, <1>3 DEF Saves, Deletes
    <2>4. root' = root /\ batch.id \in TagIds /\ DOMAIN batch.cards \subseteq Listed
        BY <1>1, <1>2, BatchTyped, EditsTyped DEF clientVars
    <2>5. server \in Contents /\ root \in Contents
        BY DEF TaggingTypeOK
    <2>6. Newer(root.tags[batch.id], server'.tags[batch.id])
        <3>1. /\ root.tags[batch.id] \in Seq(Bodies) /\ server.tags[batch.id] \in Seq(Bodies)
              /\ server'.tags[batch.id] \in Seq(Bodies)
            BY <2>1, <2>4, <2>5, ContentTyped
        <3>2. root.tags[batch.id] = server.tags[batch.id] \/ Newer(root.tags[batch.id], server.tags[batch.id])
            BY <2>4 DEF FollowInv, ListFollows, TagFollows
        <3> QED
            BY <2>1, <3>1, <3>2, NewerNews
    <2>7. ASSUME NEW id \in DOMAIN batch.cards PROVE Len(root.cards[id]) < Len(server'.cards[id])
        <3>1. id \in Listed
            BY <2>4
        <3>2. /\ Len(root.cards[id]) \in Nat /\ Len(server.cards[id]) \in Nat
              /\ Len(server'.cards[id]) \in Nat
            BY <2>1, <2>5, <3>1, ContentTyped, VersionEnds
        <3>3. \/ Len(root.cards[id]) = Len(server.cards[id])
              \/ Len(root.cards[id]) < Len(server.cards[id])
            BY <3>1 DEF FollowInv, ListFollows, CardFollows
        <3>4. Len(root.cards[id]) <= Len(server.cards[id])
            BY <3>2, <3>3, SameOrLess, Zenon
        <3>5. Len(server.cards[id]) < Len(server'.cards[id])
            BY <2>1
        <3> QED
            BY <3>2, <3>4, <3>5, MoreAndLess, Zenon
    <2> QED
        BY <2>2, <2>3, <2>4, <2>6, <2>7 DEF FollowInv, DoneIsNews
<1>4. CASE UNCHANGED server /\ batch' = [batch EXCEPT !.pc = "refused"]
    <2>1. batch'.pc = "refused"
        BY <1>1, <1>4 DEF Saves, Deletes
    <2>2. ListFollows'
        BY <1>2, <1>4, WorldFollows DEF FollowInv, TaggingTypeOK
    <2> QED
        BY <2>1, <2>2 DEF FollowInv, DoneIsNews
<1> QED
    BY <1>3, <1>4 DEF Serve

LEMMA AnswerFollows ==
    ASSUME TaggingTypeOK, FollowInv, Answer
    PROVE  FollowInv'
<1>1. /\ batch # none /\ batch \in Saves \cup Deletes /\ batch.id \in TagIds
      /\ batch.cards \in CardEdits
    BY AnswerTyped, BatchTyped
<1>2. /\ UNCHANGED <<server, root, offline_queue, dropped>> /\ batch' = none
    BY DEF Answer, BatchUnchanged
<1>3. server' \in Contents
    BY <1>2 DEF TaggingTypeOK
<1>4. DoneIsNews'
    BY <1>2 DEF DoneIsNews, none
<1>5. CASE UNCHANGED <<cards, tags>>
    BY <1>2, <1>3, <1>4, <1>5, WorldFollows DEF FollowInv, clientVars
<1>6. CASE /\ batch.pc = "done"
           /\ cards' = After(Content(cards, tags), batch).cards
           /\ tags' = [tags EXCEPT ![batch.id] = IF tags[batch.id] = << >> THEN tags[batch.id]
                                                                           ELSE batch.tag]
    <2>1. Content(cards, tags) \in Contents /\ Content(cards, tags).cards = cards
        BY DEF Content, Contents, TaggingTypeOK
    <2>2. \A id \in Listed : cards'[id] = IF id \in DOMAIN batch.cards THEN batch.cards[id] ELSE cards[id]
        <3> DEFINE c == Content(cards, tags)
        <3>1. c \in Contents /\ c.cards = cards /\ cards' = After(c, batch).cards
            BY <1>6, <2>1
        <3> HIDE DEF c
        <3>2. \A id \in Listed : After(c, batch).cards[id] =
                                    IF id \in DOMAIN batch.cards THEN batch.cards[id] ELSE c.cards[id]
            BY <1>1, <3>1, AfterTyped
        <3> QED
            BY <3>1, <3>2
    <2>3. /\ Newer(root.tags[batch.id], server.tags[batch.id])
          /\ \A id \in DOMAIN batch.cards : Len(root.cards[id]) < Len(server.cards[id])
        BY <1>6 DEF FollowInv, DoneIsNews
    <2>4. ASSUME NEW id \in Listed PROVE CardFollows(id)'
        <3>1. CASE id \in DOMAIN batch.cards
            BY <1>2, <2>3, <3>1 DEF CardFollows
        <3>2. CASE id \notin DOMAIN batch.cards
            <4>1. cards'[id] = cards[id] /\ CardFollows(id)
                BY <2>2, <3>2 DEF FollowInv, ListFollows
            <4> QED
                BY <1>2, <1>3, <4>1, CardStays
        <3> QED
            BY <3>1, <3>2
    <2>5. ASSUME NEW t \in TagIds PROVE TagFollows(t)'
        <3>1. TagFollows(t)
            BY DEF FollowInv, ListFollows
        <3>2. tags'[t] = tags[t] \/ t = batch.id
            BY <1>6 DEF TaggingTypeOK, TagLists
        <3> QED
            BY <1>2, <1>3, <2>3, <3>1, <3>2, TagStays
    <2> QED
        BY <1>4, <2>4, <2>5 DEF FollowInv, ListFollows
<1> QED
    BY <1>5, <1>6 DEF Answer

LEMMA SaveCardFollows ==
    ASSUME TaggingTypeOK, FollowInv, SaveCard
    PROVE  FollowInv'
<1>1. PICK id \in Listed, v \in Versions :
              /\ cards' = [cards EXCEPT ![id] = v]
              /\ \/ /\ Len(v) = Len(server.cards[id]) + 1
                    /\ server' = Put(server, id, v)
                    /\ offline_queue' = Without(offline_queue, id)
                 \/ /\ offline_queue' = Queued(offline_queue, id, v)
                    /\ UNCHANGED server
    BY SaveCardCases
<1>2. UNCHANGED <<tags, root, batch, dropped>>
    BY DEF SaveCard
<1>3. /\ server \in Contents /\ cards \in CardLists /\ offline_queue \in Seq(QueuedCards)
      /\ Len(server.cards[id]) \in Nat /\ DOMAIN server.cards = Listed
    BY ContentTyped, VersionEnds DEF TaggingTypeOK, CardLists
<1>4. /\ server' \in Contents
      /\ \/ server' = server /\ offline_queue' = Queued(offline_queue, id, v)
         \/ Grown(server, server') /\ server'.cards[id] # server.cards[id]
    <2>1. CASE server' = Put(server, id, v) /\ Len(v) = Len(server.cards[id]) + 1
        <3>1. /\ server' \in Contents /\ server'.tags = server.tags
              /\ server'.cards = [server.cards EXCEPT ![id] = v]
            BY <1>3, <2>1, PutTyped
        <3>2. server'.cards[id] = v /\ \A i \in Listed : i # id => server'.cards[i] = server.cards[i]
            BY <1>3, <3>1
        <3>3. Len(server.cards[id]) < Len(v) /\ v # server.cards[id]
            BY <1>3, <2>1
        <3> QED
            BY <3>1, <3>2, <3>3 DEF Grown
    <2>2. CASE UNCHANGED server /\ offline_queue' = Queued(offline_queue, id, v)
        BY <1>3, <2>2
    <2> QED
        BY <1>1, <2>1, <2>2
<1>5. \A i \in Listed : i # id =>
          /\ cards'[i] = cards[i]
          /\ \A e : InQueue(offline_queue, i, e) => InQueue(offline_queue', i, e)
    <2>1. \A q \in EntriesOf(offline_queue) : q.id # id => q \in EntriesOf(offline_queue')
        BY <1>1, <1>3, WithoutEntries, QueuedEntries
    <2> QED
        BY <1>1, <1>3, <2>1 DEF CardLists, InQueue
<1>6. ASSUME NEW i \in Listed PROVE CardFollows(i)'
    <2>1. CardFollows(i)
        BY DEF FollowInv, ListFollows
    <2>2. CASE i # id
        BY <1>2, <1>4, <1>5, <2>1, <2>2, CardStays
    <2>3. CASE i = id /\ server'.cards[id] # server.cards[id]
        BY <1>2, <1>4, <2>1, <2>3, CardStays
    <2>4. CASE i = id /\ offline_queue' = Queued(offline_queue, id, v)
        <3>1. [id |-> id, version |-> v] \in EntriesOf(offline_queue')
            BY <1>3, <2>4, QueuedEntries
        <3>2. cards'[id] = v
            BY <1>1, <1>3 DEF CardLists
        <3>3. InQueue(offline_queue', id, Last(cards'[id]).by)
            BY <3>1, <3>2 DEF InQueue
        <3> QED
            BY <1>2, <1>4, <2>1, <2>4, <3>3, CardStays
    <2> QED
        BY <1>4, <2>2, <2>3, <2>4
<1>7. ASSUME NEW t \in TagIds PROVE TagFollows(t)'
    <2>1. TagFollows(t)
        BY DEF FollowInv, ListFollows
    <2> QED
        BY <1>2, <1>4, <2>1, TagStays
<1>8. DoneIsNews'
    <2>1. SUFFICES ASSUME batch.pc = "done" PROVE DoneIsNews'
        BY <1>2 DEF DoneIsNews
    <2>2. batch # none
        BY <2>1 DEF none
    <2>3. batch.id \in TagIds /\ DOMAIN batch.cards \subseteq Listed
        BY <2>2, BatchTyped, EditsTyped
    <2>4. /\ Newer(root.tags[batch.id], server.tags[batch.id])
          /\ \A i \in DOMAIN batch.cards : Len(root.cards[i]) < Len(server.cards[i])
        BY <2>1 DEF FollowInv, DoneIsNews
    <2> QED
        BY <1>2, <1>4, <2>3, <2>4, NewsStays DEF DoneIsNews
<1> QED
    BY <1>6, <1>7, <1>8 DEF FollowInv, ListFollows

LEMMA SyncFollows ==
    ASSUME TaggingTypeOK, FollowInv, Sync, Overtaken = FALSE
    PROVE  FollowInv'
<1>1. PICK end : /\ end = Flushed(AtStart, Retained(offline_queue, Fresh))
                 /\ tags' = Changed(tags, server.tags, root.tags)
                 /\ cards' = end.cards /\ root' = server /\ server' = end.content
                 /\ offline_queue' = end.remaining
                 /\ landed' = end.landed /\ dropped' = end.dropped
    BY SyncFlushes
<1> DEFINE fresh == EntriesOf(Retained(offline_queue, Fresh))
<1>2. /\ AtStart \in FlushStates /\ AtStart.content = server /\ AtStart.cards = Synced
      /\ AtStart.dropped = dropped \cup StaleOnes
      /\ Retained(offline_queue, Fresh) \in Seq(QueuedCards)
      /\ \A q \in EntriesOf(offline_queue) : q \in fresh \/ Last(q.version).by \in StaleOnes
    BY StartTyped, FreshQueue
<1>3. end \in FlushStates /\ FlushedTo(AtStart, end, fresh)
    BY <1>1, <1>2, FlushedKeeps
<1> HIDE DEF fresh
<1>4. /\ server'.tags = server.tags /\ dropped \cup StaleOnes \subseteq dropped'
      /\ \A id \in Listed : \/ cards'[id] = Synced[id] /\ server'.cards[id] = server.cards[id]
                            \/ Len(server.cards[id]) < Len(server'.cards[id])
      /\ \A q \in fresh : \/ Last(q.version).by \in dropped'
                          \/ q \in EntriesOf(offline_queue')
                          \/ Len(server.cards[q.id]) < Len(server'.cards[q.id])
    BY <1>1, <1>2, <1>3 DEF FlushedTo, EditOf
<1>5. server \in Contents /\ root \in Contents /\ cards \in CardLists /\ tags \in TagLists
    BY DEF TaggingTypeOK
<1>6. \A id \in Listed : ~(Len(server.cards[id]) < Len(server.cards[id]))
    BY <1>5, ContentTyped, VersionEnds
<1>7. DoneIsNews'
    <2>1. batch' = batch /\ batch.pc # "done"
        BY DEF Sync
    <2> QED
        BY <2>1 DEF DoneIsNews
<1>8. ASSUME NEW id \in Listed PROVE CardFollows(id)'
    <2>1. CASE Len(server.cards[id]) < Len(server'.cards[id])
        BY <1>1, <2>1 DEF CardFollows
    <2>2. CASE /\ cards'[id] = Synced[id] /\ server'.cards[id] = server.cards[id]
        <3>1. root'.cards[id] = server'.cards[id]
            BY <1>1, <2>2
        <3>2. Synced[id] = IF server.cards[id] # root.cards[id] THEN server.cards[id] ELSE cards[id]
            BY <1>5 DEF Synced, Changed, CardLists
        <3>3. CASE server.cards[id] # root.cards[id]
            BY <1>1, <2>2, <3>1, <3>2, <3>3 DEF CardFollows
        <3>4. CASE server.cards[id] = root.cards[id]
            <4>1. cards'[id] = cards[id]
                BY <2>2, <3>2, <3>4
            <4>2. \/ cards[id] = root.cards[id] \/ Last(cards[id]).by \in dropped
                  \/ InQueue(offline_queue, id, Last(cards[id]).by)
                BY <1>6, <3>4 DEF FollowInv, ListFollows, CardFollows
            <4>3. CASE cards[id] = root.cards[id]
                BY <1>1, <3>1, <3>4, <4>1, <4>3 DEF CardFollows
            <4>4. CASE Last(cards[id]).by \in dropped
                BY <1>4, <3>1, <4>1, <4>4 DEF CardFollows
            <4>5. CASE InQueue(offline_queue, id, Last(cards[id]).by)
                <5>1. PICK q \in EntriesOf(offline_queue) :
                          q.id = id /\ Last(q.version).by = Last(cards[id]).by
                    BY <4>5 DEF InQueue
                <5>2. ~(Len(server.cards[q.id]) < Len(server'.cards[q.id]))
                    BY <1>6, <2>2, <5>1
                <5>3. Last(q.version).by \in dropped' \/ q \in EntriesOf(offline_queue')
                    BY <1>2, <1>4, <5>2
                <5> QED
                    BY <3>1, <4>1, <5>1, <5>3 DEF CardFollows, InQueue
            <4> QED
                BY <4>2, <4>3, <4>4, <4>5
        <3> QED
            BY <3>3, <3>4
    <2> QED
        BY <1>4, <2>1, <2>2
<1>9. ASSUME NEW t \in TagIds PROVE TagFollows(t)'
    <2>1. root'.tags[t] = server.tags[t] /\ server'.tags[t] = server.tags[t]
        BY <1>1, <1>4
    <2>2. tags'[t] = IF server.tags[t] # root.tags[t] THEN server.tags[t] ELSE tags[t]
        BY <1>1, <1>5 DEF Changed, TagLists
    <2>3. server.tags[t] = root.tags[t] => tags[t] = root.tags[t]
        <3>1. server.tags[t] \in Seq(Bodies)
            BY <1>5, ContentTyped
        <3>2. ~Newer(server.tags[t], server.tags[t])
            BY <3>1, NewerNews
        <3> QED
            BY <3>2 DEF FollowInv, ListFollows, TagFollows
    <2> QED
        BY <2>1, <2>2, <2>3 DEF TagFollows
<1> QED
    BY <1>7, <1>8, <1>9 DEF FollowInv, ListFollows

\* Steps of the world, and steps that change neither lists nor contents.
LEMMA OthersFollow ==
    ASSUME TaggingTypeOK, FollowInv, server' \in Contents,
           server' = server \/ Grown(server, server'), UNCHANGED <<clientVars, dropped>>,
           batch' = batch \/ batch'.pc # "done"
    PROVE  FollowInv'
<1>1. ListFollows'
    BY WorldFollows DEF FollowInv
<1>2. CASE batch' = batch /\ batch.pc = "done"
    <2>1. batch # none
        BY <1>2 DEF none
    <2>2. batch.id \in TagIds /\ DOMAIN batch.cards \subseteq Listed
        BY <2>1, BatchTyped, EditsTyped
    <2>3. /\ Newer(root.tags[batch.id], server.tags[batch.id])
          /\ \A i \in DOMAIN batch.cards : Len(root.cards[i]) < Len(server.cards[i])
        BY <1>2 DEF FollowInv, DoneIsNews
    <2>4. root' = root
        BY DEF clientVars
    <2> QED
        BY <1>1, <1>2, <2>2, <2>3, <2>4, NewsStays DEF DoneIsNews, FollowInv
<1>3. CASE batch'.pc # "done"
    BY <1>1, <1>3 DEF DoneIsNews, FollowInv
<1> QED
    BY <1>2, <1>3

LEMMA FollowStep ==
    ASSUME TaggingTypeOK, SaveAsBuilt, FollowInv, TaggingStep, Overtaken = FALSE
    PROVE  FollowInv'
<1>1. server \in Contents
    BY DEF TaggingTypeOK
<1>2. ASSUME \/ \E id \in Listed : OpenEditor(id)
             \/ \E t \in TagIds : ToggleTag(t) \/ start_editing(t) \/ AddImplies(t) \/ RemoveImplies(t)
             \/ ClosePanel
      PROVE  FollowInv'
    <2>1. PanelOnly
        BY <1>2, PanelStepsTyped
    <2>2. UNCHANGED <<server, clientVars, batch, dropped>>
        BY <2>1 DEF PanelOnly
    <2> QED
        BY <1>1, <2>2, OthersFollow
<1>3. ASSUME save_changes \/ \E t \in TagIds : do_delete(t) PROVE FollowInv'
    <2>1. UNCHANGED <<server, clientVars, dropped>> /\ batch'.pc = "sent"
        <3>1. CASE save_changes
            <4>1. \E new : Send(new) /\ new.pc = "sent"
                BY <3>1 DEF save_changes
            <4> QED
                BY <4>1 DEF Send
        <3>2. ASSUME NEW t \in TagIds, do_delete(t) PROVE \E new : Send(new) /\ new.pc = "sent"
            BY <3>2 DEF do_delete
        <3>3. CASE \E t \in TagIds : do_delete(t)
            BY <3>2, <3>3 DEF Send
        <3> QED
            BY <1>3, <3>1, <3>3
    <2> QED
        BY <1>1, <2>1, OthersFollow
<1>4. ASSUME Remote PROVE FollowInv'
    <2>1. /\ server' \in Contents /\ Grown(server, server')
          /\ UNCHANGED <<batch, clientVars, dropped>>
        BY <1>4, RemoteNews
    <2> QED
        BY <2>1, OthersFollow
<1>5. ASSUME Lose PROVE FollowInv'
    <2>1. /\ server' \in Contents /\ (server' = server \/ Grown(server, server'))
          /\ batch' = none /\ UNCHANGED <<clientVars, dropped>>
        BY <1>5, LoseNews
    <2>2. batch'.pc # "done"
        BY <2>1 DEF none
    <2> QED
        BY <2>1, <2>2, OthersFollow
<1>6. ASSUME Reconnect \/ UNCHANGED taggingVars PROVE FollowInv'
    <2>1. UNCHANGED <<server, clientVars, batch, dropped>>
        BY <1>6 DEF Reconnect, taggingVars, clientVars
    <2> QED
        BY <1>1, <2>1, OthersFollow
<1> QED
    BY <1>2, <1>3, <1>4, <1>5, <1>6, SaveCardFollows, ServeFollows, AnswerFollows, SyncFollows
    DEF TaggingStep, TaggingNext

\* When the client has synced with what the server has, the list shows it, but
\* for what is queued or was given up; no answer of a batch on its way makes it
\* older again, if no sync may overtake it (tag_detail.rs, state/sync.rs).
THEOREM ListStaysCurrent ==
    ASSUME Overtaken = FALSE
    PROVE  TaggingSpec => []ListIsCurrent
<1> DEFINE Inv == TaggingTypeOK /\ SaveAsBuilt /\ FollowInv
<1>1. TaggingInit => Inv
    <2> SUFFICES ASSUME TaggingInit PROVE Inv
        OBVIOUS
    <2>1. TaggingTypeOK
        BY InitTyped
    <2>2. SaveAsBuilt /\ DoneIsNews
        BY DEF TaggingInit, SaveAsBuilt, DoneIsNews, none
    <2>3. ListFollows
        BY DEF TaggingInit, ListFollows, CardFollows, TagFollows
    <2> QED
        BY <2>1, <2>2, <2>3 DEF FollowInv
<1>2. Inv /\ [TaggingNext]_taggingVars => Inv'
    BY TypesStep, FollowStep DEF TaggingStep
<1>3. Inv => ListIsCurrent
    <2> SUFFICES ASSUME Inv, root = server PROVE
              /\ tags = server.tags
              /\ \A id \in Listed :
                    \/ cards[id] = server.cards[id]
                    \/ \E i \in DOMAIN offline_queue : offline_queue[i].id = id
                    \/ Last(cards[id]).by \in dropped
        BY DEF ListIsCurrent
    <2>1. server \in Contents /\ tags \in TagLists
        BY DEF TaggingTypeOK
    <2>2. \A t \in TagIds : tags[t] = server.tags[t]
        <3> SUFFICES ASSUME NEW t \in TagIds PROVE tags[t] = server.tags[t]
            OBVIOUS
        <3>1. ~Newer(server.tags[t], server.tags[t])
            BY <2>1, ContentTyped, NewerNews
        <3> QED
            BY <3>1 DEF FollowInv, ListFollows, TagFollows
    <2>3. tags = server.tags
        BY <2>1, <2>2, ContentTyped DEF TagLists
    <2>4. ASSUME NEW id \in Listed
          PROVE  \/ cards[id] = server.cards[id]
                 \/ \E i \in DOMAIN offline_queue : offline_queue[i].id = id
                 \/ Last(cards[id]).by \in dropped
        <3>1. ~(Len(server.cards[id]) < Len(server.cards[id]))
            BY <2>1, ContentTyped, VersionEnds
        <3>2. \/ cards[id] = server.cards[id] \/ Last(cards[id]).by \in dropped
              \/ InQueue(offline_queue, id, Last(cards[id]).by)
            BY <3>1 DEF FollowInv, ListFollows, CardFollows
        <3> QED
            BY <3>2 DEF InQueue, EntriesOf
    <2> QED
        BY <2>3, <2>4
<1> QED
    BY <1>1, <1>2, <1>3, PTL DEF TaggingSpec
=============================================================================
