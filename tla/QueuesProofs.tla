---------------------------- MODULE QueuesProofs ----------------------------
(***************************************************************************)
(* What the filters of a queue keep, for every queue: the entries at the   *)
(* places asked for.  Counterexamples are minimal numbers: the provers     *)
(* have no induction over a recursive function.                            *)
(***************************************************************************)
EXTENDS Queues, WellFoundedInduction, TLAPS

-----------------------------------------------------------------------------
(* Recursion over the entries of a queue, and what its filters keep *)

\* Every non-empty set of numbers has a least one.
LEMMA LeastNumber ==
    ASSUME NEW S \in SUBSET Nat, S # {}
    PROVE  \E n \in S : \A m \in S : n <= m
<1> DEFINE Less == {ss \in Nat \X Nat : ss[1] < ss[2]}
<1>1. IsWellFoundedOn(Less, Nat)
    BY NatLessThanWellFounded, Zenon DEF OpToRel
<1>2. \A m, n \in Nat : m < n => <<m, n>> \in Less
    OBVIOUS
<1> HIDE DEF Less
<1>3. PICK n \in S : \A m \in S : ~(<<m, n>> \in Less)
    BY <1>1, WFMin
<1>4. \A m \in S : ~(m < n)
    BY <1>2, <1>3
<1> QED
    BY <1>4

\* The states of a loop over n entries: each one is what the step makes of the
\* one before.
Loop(f, n, first, step) ==
    f[0] = first /\ \A i \in 1 .. n : f[i] = step[<<f[i - 1], i>>]

LEMMA LoopRuns ==
    ASSUME NEW n \in Nat, NEW A, NEW first \in A, NEW step \in [A \X (1 .. n) -> A]
    PROVE  \E f \in [0 .. n -> A] : Loop(f, n, first, step)
<1> DEFINE Run(m) == \E f \in [0 .. m -> A] :
                        f[0] = first /\ \A i \in 1 .. m : f[i] = step[<<f[i - 1], i>>]
           Bad == {m \in 0 .. n : ~Run(m)}
<1>1. Run(0)
    <2> DEFINE f == [i \in 0 .. 0 |-> first]
    <2>1. f \in [0 .. 0 -> A] /\ f[0] = first /\ 1 .. 0 = {}
        OBVIOUS
    <2> HIDE DEF f
    <2> QED
        BY <2>1
<1>2. ASSUME NEW m \in 0 .. n, m + 1 \in 0 .. n, Run(m) PROVE Run(m + 1)
    <2>1. PICK f \in [0 .. m -> A] : f[0] = first /\ \A i \in 1 .. m : f[i] = step[<<f[i - 1], i>>]
        BY <1>2
    <2> DEFINE g == [i \in 0 .. m + 1 |-> IF i = m + 1 THEN step[<<f[m], m + 1>>] ELSE f[i]]
    <2>2. f[m] \in A /\ m + 1 \in 1 .. n
        BY <1>2
    <2>3. step[<<f[m], m + 1>>] \in A
        BY <2>2
    <2>4. g \in [0 .. m + 1 -> A]
        BY <2>3
    <2>5. \A i \in 0 .. m : g[i] = f[i]
        OBVIOUS
    <2>6. g[m + 1] = step[<<g[m], m + 1>>]
        <3>1. m + 1 \in 0 .. m + 1 /\ m \in 0 .. m + 1 /\ m # m + 1
            OBVIOUS
        <3>2. g[m + 1] = step[<<f[m], m + 1>>] /\ g[m] = f[m]
            BY <3>1, <2>5
        <3> QED
            BY <3>2
    <2> HIDE DEF g
    <2>7. \A i \in 1 .. m + 1 : g[i] = step[<<g[i - 1], i>>]
        <3> SUFFICES ASSUME NEW i \in 1 .. m + 1 PROVE g[i] = step[<<g[i - 1], i>>]
            OBVIOUS
        <3>1. CASE i = m + 1
            BY <3>1, <2>6
        <3>2. CASE i # m + 1
            BY <3>2, <2>5, <2>1
        <3> QED
            BY <3>1, <3>2
    <2> QED
        BY <2>4, <2>5, <2>7, <2>1
<1> HIDE DEF Run
<1>3. Bad = {}
    <2> SUFFICES ASSUME Bad # {} PROVE FALSE
        OBVIOUS
    <2>0. Bad \in SUBSET Nat
        OBVIOUS
    <2> HIDE DEF Bad
    <2>1. PICK m \in Bad : \A k \in Bad : m <= k
        BY <2>0, LeastNumber
    <2> USE DEF Bad
    <2>2. m # 0 /\ m \in 0 .. n
        BY <1>1
    <2>3. m - 1 \in 0 .. n /\ (m - 1) + 1 = m /\ m - 1 \notin Bad
        BY <2>1, <2>2
    <2> QED
        BY <1>2, <2>2, <2>3
<1>4. Run(n)
    BY <1>3
<1> QED
    BY <1>4 DEF Run, Loop

-----------------------------------------------------------------------------
(* What a filter keeps *)

Filter(queue, places, f) ==
    /\ f[0] = << >>
    /\ \A n \in 1 .. Len(queue) :
          f[n] = IF n \in places THEN Append(f[n - 1], queue[n]) ELSE f[n - 1]

\* The definition of Retained is one of a function.
LEMMA RetainedRuns ==
    ASSUME NEW S, NEW queue \in Seq(S), NEW places
    PROVE  \E f : Filter(queue, places, f) /\ Retained(queue, places) = f[Len(queue)]
<1> DEFINE A == Seq(S)
           N == Len(queue)
           upTo(f) == [n \in 0 .. N |->
                          IF n = 0 THEN << >>
                          ELSE IF n \in places THEN Append(f[n - 1], queue[n])
                          ELSE f[n - 1]]
           F == CHOOSE f : f = upTo(f)
           step == [p \in A \X (1 .. N) |->
                       IF p[2] \in places THEN Append(p[1], queue[p[2]]) ELSE p[1]]
<1>1. step \in [A \X (1 .. N) -> A]
    OBVIOUS
<1>2. \A s \in A, n \in 1 .. N :
          step[<<s, n>>] = IF n \in places THEN Append(s, queue[n]) ELSE s
    OBVIOUS
<1>3. N \in Nat /\ << >> \in A
    OBVIOUS
<1>9. Retained(queue, places) = F[N]
    BY DEF Retained
<1> HIDE DEF step, A, N
<1>4. PICK f \in [0 .. N -> A] : Loop(f, N, << >>, step)
    BY <1>1, <1>3, LoopRuns
<1>5. \A n \in 1 .. N : n - 1 \in 0 .. N /\ f[n - 1] \in A
    BY <1>3
<1>6. \A n \in 1 .. N : f[n] = IF n \in places THEN Append(f[n - 1], queue[n]) ELSE f[n - 1]
    BY <1>4, <1>2, <1>5 DEF Loop
<1>7. f = upTo(f)
    <2>1. \A n \in 0 .. N : n = 0 \/ n \in 1 .. N
        BY <1>3
    <2>2. \A n \in 0 .. N : f[n] = upTo(f)[n]
        BY <2>1, <1>4, <1>6 DEF Loop
    <2> QED
        BY <2>2
<1> HIDE DEF upTo
<1>8. F = upTo(F)
    BY <1>7
<1> HIDE DEF F
<1>10. \A n \in 0 .. N : F[n] = IF n = 0 THEN << >>
                                ELSE IF n \in places THEN Append(F[n - 1], queue[n])
                                ELSE F[n - 1]
    BY <1>8 DEF upTo
<1>11. Filter(queue, places, F)
    <2>1. 0 \in 0 .. N /\ \A n \in 1 .. N : n \in 0 .. N /\ n # 0
        BY <1>3
    <2> QED
        BY <2>1, <1>10 DEF Filter, N
<1> QED
    BY <1>9, <1>11 DEF N

EntriesOf(queue) == {queue[i] : i \in DOMAIN queue}

LEMMA AppendEntries ==
    ASSUME NEW S, NEW queue \in Seq(S), NEW c \in S
    PROVE  /\ Append(queue, c) \in Seq(S)
           /\ EntriesOf(Append(queue, c)) = EntriesOf(queue) \cup {c}
<1> DEFINE new == Append(queue, c)
<1>1. /\ new \in Seq(S) /\ DOMAIN queue = 1 .. Len(queue) /\ DOMAIN new = 1 .. Len(queue) + 1
      /\ Len(queue) \in Nat /\ new[Len(queue) + 1] = c
      /\ \A i \in 1 .. Len(queue) : new[i] = queue[i]
    OBVIOUS
<1> HIDE DEF new
<1>2. \A i \in DOMAIN new : new[i] \in EntriesOf(queue) \cup {c}
    BY <1>1 DEF EntriesOf
<1>3. EntriesOf(queue) \subseteq EntriesOf(new) /\ c \in EntriesOf(new)
    BY <1>1 DEF EntriesOf
<1>4. EntriesOf(new) \subseteq EntriesOf(queue) \cup {c}
    BY <1>2 DEF EntriesOf
<1> QED
    BY <1>1, <1>3, <1>4 DEF new

\* A filter keeps the entries at its places, and they make a queue.
LEMMA RetainedEntries ==
    ASSUME NEW S, NEW queue \in Seq(S), NEW places
    PROVE  /\ Retained(queue, places) \in Seq(S)
           /\ EntriesOf(Retained(queue, places)) = {queue[i] : i \in DOMAIN queue \cap places}
<1>1. PICK f : Filter(queue, places, f) /\ Retained(queue, places) = f[Len(queue)]
    BY RetainedRuns
<1> DEFINE N == Len(queue)
           Good(n) == f[n] \in Seq(S) /\ EntriesOf(f[n]) = {queue[i] : i \in (1 .. n) \cap places}
           Bad == {n \in 0 .. N : ~Good(n)}
<1>2. N \in Nat /\ DOMAIN queue = 1 .. N /\ \A i \in 1 .. N : queue[i] \in S
    OBVIOUS
<1>3. Good(0)
    BY <1>1 DEF Filter, EntriesOf
<1>4. ASSUME NEW n \in 1 .. N, Good(n - 1) PROVE Good(n)
    <2>1. (1 .. n) \cap places = ((1 .. n - 1) \cap places) \cup (IF n \in places THEN {n} ELSE {})
        BY <1>2
    <2>2. CASE n \in places
        <3>1. f[n] = Append(f[n - 1], queue[n])
            BY <1>1, <2>2, <1>2 DEF Filter
        <3>2. f[n] \in Seq(S) /\ EntriesOf(f[n]) = EntriesOf(f[n - 1]) \cup {queue[n]}
            BY <3>1, <1>4, <1>2, AppendEntries
        <3>3. {queue[i] : i \in (1 .. n) \cap places} =
                  {queue[i] : i \in (1 .. n - 1) \cap places} \cup {queue[n]}
            BY <2>1, <2>2
        <3> QED
            BY <3>2, <3>3, <1>4
    <2>3. CASE n \notin places
        BY <1>1, <2>1, <2>3, <1>4, <1>2 DEF Filter
    <2> QED
        BY <2>2, <2>3
<1> HIDE DEF Good
<1>5. Bad = {}
    <2> SUFFICES ASSUME Bad # {} PROVE FALSE
        OBVIOUS
    <2>1. Bad \in SUBSET Nat
        BY <1>2
    <2> HIDE DEF Bad
    <2>2. PICK n \in Bad : \A k \in Bad : n <= k
        BY <2>1, LeastNumber
    <2> USE DEF Bad
    <2>3. n # 0 /\ n \in 0 .. N
        BY <1>3, <2>2
    <2>4. n \in 1 .. N /\ n - 1 \in 0 .. N /\ n - 1 \notin Bad
        BY <2>2, <2>3, <1>2
    <2> QED
        BY <1>4, <2>2, <2>4
<1>6. Good(N)
    BY <1>5, <1>2
<1> QED
    BY <1>6, <1>1, <1>2 DEF Good

\* Vec::retain removes the entries of one card and no others.
LEMMA WithoutEntries ==
    ASSUME NEW S, NEW queue \in Seq(S), NEW id
    PROVE  /\ Without(queue, id) \in Seq(S)
           /\ EntriesOf(Without(queue, id)) = {c \in EntriesOf(queue) : c.id # id}
<1> DEFINE places == {i \in DOMAIN queue : queue[i].id # id}
<1>1. {queue[i] : i \in DOMAIN queue \cap places} = {c \in EntriesOf(queue) : c.id # id}
    BY DEF EntriesOf
<1> QED
    BY <1>1, RetainedEntries DEF Without

LEMMA ConcatEntries ==
    ASSUME NEW S, NEW q \in Seq(S), NEW r \in Seq(S)
    PROVE  /\ q \o r \in Seq(S)
           /\ EntriesOf(q \o r) = EntriesOf(q) \cup EntriesOf(r)
<1>1. \A i \in DOMAIN q : i \in DOMAIN (q \o r) /\ (q \o r)[i] = q[i]
    OBVIOUS
<1>2. \A i \in DOMAIN r : Len(q) + i \in DOMAIN (q \o r) /\ (q \o r)[Len(q) + i] = r[i]
    OBVIOUS
<1>3. \A i \in DOMAIN (q \o r) : (q \o r)[i] \in EntriesOf(q) \cup EntriesOf(r)
    <2> SUFFICES ASSUME NEW i \in DOMAIN (q \o r)
                 PROVE  (q \o r)[i] \in EntriesOf(q) \cup EntriesOf(r)
        OBVIOUS
    <2>1. CASE i <= Len(q)
        BY <2>1, <1>1 DEF EntriesOf
    <2>2. CASE i > Len(q)
        <3>1. i - Len(q) \in DOMAIN r /\ (q \o r)[i] = r[i - Len(q)]
            BY <2>2
        <3> QED
            BY <3>1 DEF EntriesOf
    <2> QED
        BY <2>1, <2>2
<1>4. q \o r \in Seq(S)
    OBVIOUS
<1> HIDE DEF EntriesOf
<1>5. EntriesOf(q) \subseteq EntriesOf(q \o r) /\ EntriesOf(r) \subseteq EntriesOf(q \o r)
    BY <1>1, <1>2 DEF EntriesOf
<1>6. EntriesOf(q \o r) \subseteq EntriesOf(q) \cup EntriesOf(r)
    <2> DEFINE both == q \o r
    <2>1. \A i \in DOMAIN both : both[i] \in EntriesOf(q) \cup EntriesOf(r)
        BY <1>3
    <2> HIDE DEF both
    <2>2. EntriesOf(both) \subseteq EntriesOf(q) \cup EntriesOf(r)
        BY <2>1 DEF EntriesOf
    <2> QED
        BY <2>2 DEF both
<1> QED
    BY <1>4, <1>5, <1>6

LEMMA HeadTailEntries ==
    ASSUME NEW S, NEW queue \in Seq(S), queue # << >>
    PROVE  /\ Head(queue) \in S /\ Tail(queue) \in Seq(S)
           /\ EntriesOf(queue) = {Head(queue)} \cup EntriesOf(Tail(queue))
<1>1. Tail(queue) \in Seq(S) /\ Len(Tail(queue)) = Len(queue) - 1 /\ Head(queue) = queue[1]
    OBVIOUS
<1>2. \A i \in 1 .. Len(queue) - 1 : Tail(queue)[i] = queue[i + 1]
    OBVIOUS
<1>3. \A i \in 2 .. Len(queue) : i - 1 \in 1 .. Len(queue) - 1 /\ queue[i] = Tail(queue)[i - 1]
    BY <1>2
<1>4. DOMAIN queue = {1} \cup 2 .. Len(queue) /\ DOMAIN Tail(queue) = 1 .. Len(queue) - 1
    BY <1>1
<1>5. Head(queue) \in S
    OBVIOUS
<1> DEFINE h == Head(queue)
           t == Tail(queue)
<1>6. /\ h = queue[1] /\ DOMAIN t = 1 .. Len(queue) - 1 /\ 1 \in DOMAIN queue
      /\ \A i \in DOMAIN t : i + 1 \in DOMAIN queue /\ t[i] = queue[i + 1]
      /\ \A i \in DOMAIN queue : i = 1 \/ (i - 1 \in DOMAIN t /\ queue[i] = t[i - 1])
    BY <1>1, <1>2, <1>3, <1>4
<1> HIDE DEF h, t
<1>7. EntriesOf(queue) \subseteq {h} \cup EntriesOf(t)
    BY <1>6 DEF EntriesOf
<1>8. {h} \cup EntriesOf(t) \subseteq EntriesOf(queue)
    BY <1>6 DEF EntriesOf
<1> QED
    BY <1>1, <1>5, <1>7, <1>8 DEF h, t

=============================================================================
