--------------------------- MODULE OrderingProofs ---------------------------
(***************************************************************************)
(* For any range of priorities, any jitter and any list with fewer cards   *)
(* than priorities: a card that is placed lands strictly between its       *)
(* neighbours, and the cards that make room for it keep their order.       *)
(*                                                                         *)
(* A free priority between the neighbours is easy.  Otherwise the packed   *)
(* run around the gap is spread: it ends at a card with room beyond or at  *)
(* the end of the range, so that its room has a priority for every slot    *)
(* (RunHasRoom), and slots a step apart stay apart (SlotsApart).           *)
(*                                                                         *)
(* The second half is about the bursts that push such moves: for any cards *)
(* and any number of moves, edits and lost connections, the server records *)
(* a burst once and never an edit twice (Calm).                            *)
(***************************************************************************)
EXTENDS Ordering, Moves, QueuesProofs, TLAPS, FiniteSetTheorems, SequenceTheorems,
        WellFoundedInduction

-----------------------------------------------------------------------------
(* Listing a finite set in an order *)

StrictOrder(S, Before) ==
    /\ \A x \in S : <<x, x>> \notin Before
    /\ \A x, y \in S : x # y => <<x, y>> \in Before \/ <<y, x>> \in Before
    /\ \A x, y, z \in S : <<x, y>> \in Before /\ <<y, z>> \in Before => <<x, z>> \in Before

LEMMA InOrderLists ==
    ASSUME NEW S, IsFiniteSet(S), NEW Before, StrictOrder(S, Before)
    PROVE  /\ InOrder(S, Before) \in [1 .. Cardinality(S) -> S]
           /\ \A n, m \in 1 .. Cardinality(S) :
                 n < m => <<InOrder(S, Before)[n], InOrder(S, Before)[m]>> \in Before
           /\ \A x \in S : \E n \in 1 .. Cardinality(S) : InOrder(S, Before)[n] = x
<1> DEFINE N == Cardinality(S)
           Below(x) == {y \in S : <<y, x>> \in Before}
           rank == [x \in S |-> Cardinality(Below(x))]
           at == InOrder(S, Before)
<1>1. N \in Nat
  BY FS_CardinalityType
<1>2. ASSUME NEW x \in S
      PROVE  IsFiniteSet(Below(x)) /\ Cardinality(Below(x)) \in 0 .. N - 1
  <2>1. Below(x) \in SUBSET S /\ Below(x) # S
    BY DEF StrictOrder
  <2>2. IsFiniteSet(Below(x)) /\ Cardinality(Below(x)) <= N /\ Cardinality(Below(x)) # N
    BY <2>1, FS_Subset
  <2>3. Cardinality(Below(x)) \in Nat
    BY <2>2, FS_CardinalityType
  <2> QED
    BY <1>1, <2>2, <2>3
<1>3. ASSUME NEW x \in S, NEW y \in S, <<x, y>> \in Before
      PROVE  rank[x] < rank[y]
  <2>1. Below(x) \in SUBSET Below(y) /\ x \in Below(y) /\ x \notin Below(x)
    BY <1>3 DEF StrictOrder
  <2>2. Cardinality(Below(x)) <= Cardinality(Below(y)) /\ Cardinality(Below(x)) # Cardinality(Below(y))
    BY <1>2, <2>1, FS_Subset
  <2>3. Cardinality(Below(x)) \in Int /\ Cardinality(Below(y)) \in Int
    BY <1>1, <1>2
  <2> HIDE DEF Below
  <2> QED
    BY <2>2, <2>3
<1>4. rank \in [S -> 0 .. N - 1]
  BY <1>2
<1>5. ASSUME NEW x \in S, NEW y \in S, rank[x] = rank[y]
      PROVE  x = y
  <2>1. rank[x] \in Int /\ rank[y] \in Int
    BY <1>1, <1>4
  <2> HIDE DEF rank, Below, N
  <2>2. <<x, y>> \notin Before /\ <<y, x>> \notin Before
    BY <1>3, <1>5, <2>1
  <2> QED
    BY <2>2 DEF StrictOrder
<1>6. rank \in Injection(S, 0 .. N - 1)
  BY <1>4, <1>5 DEF Injection, IsInjective
<1>7. IsFiniteSet(0 .. N - 1) /\ Cardinality(0 .. N - 1) = N
  BY <1>1, FS_Interval
<1>8. rank \in Surjection(S, 0 .. N - 1)
  BY <1>6, <1>7, FS_Injection
<1>9. ASSUME NEW n \in 1 .. N
      PROVE  at[n] \in S /\ rank[at[n]] = n - 1
  <2>1. n - 1 \in 0 .. N - 1
    BY <1>1
  <2>2. \E x \in S : rank[x] = n - 1
    BY <1>8, <2>1 DEF Surjection
  <2>3. at[n] = CHOOSE x \in S : Cardinality(Below(x)) = n - 1
    BY DEF InOrder
  <2>4. \E x \in S : Cardinality(Below(x)) = n - 1
    BY <2>2
  <2> HIDE DEF at, Below
  <2>5. at[n] \in S /\ Cardinality(Below(at[n])) = n - 1
    BY <2>3, <2>4
  <2> QED
    BY <2>5
<1>10. at \in [1 .. N -> S]
  BY <1>9 DEF InOrder
<1> HIDE DEF at, rank, Below, N
<1>11. ASSUME NEW n \in 1 .. N, NEW m \in 1 .. N, n < m
       PROVE  <<at[n], at[m]>> \in Before
  <2>1. at[n] \in S /\ at[m] \in S /\ rank[at[n]] = n - 1 /\ rank[at[m]] = m - 1
    BY <1>9
  <2>2. n \in Int /\ m \in Int
    BY <1>1
  <2>3. at[n] # at[m]
    BY <1>11, <2>1, <2>2
  <2>4. <<at[m], at[n]>> \notin Before
    BY <1>3, <1>11, <2>1, <2>2
  <2> QED
    BY <2>1, <2>3, <2>4 DEF StrictOrder
<1>12. ASSUME NEW x \in S
       PROVE  \E n \in 1 .. N : at[n] = x
  <2>1. rank[x] \in 0 .. N - 1
    BY <1>4
  <2>2. rank[x] + 1 \in 1 .. N
    BY <1>1, <2>1
  <2>3. at[rank[x] + 1] \in S /\ rank[at[rank[x] + 1]] = rank[x]
    BY <1>1, <1>9, <2>1, <2>2
  <2> QED
    BY <1>5, <2>2, <2>3
<1> QED
  BY <1>10, <1>11, <1>12 DEF at, N

-----------------------------------------------------------------------------
(* Arithmetic *)

LEMMA Times ==
    ASSUME NEW c \in Nat, NEW a \in Nat, NEW b \in Nat, a <= b
    PROVE  c * a <= c * b
  OBVIOUS

LEMMA TimesLess ==
    ASSUME NEW c \in Nat, NEW a \in Nat, NEW b \in Nat, a < b, c >= 1
    PROVE  c * a + 1 <= c * b
  OBVIOUS

LEMMA Quotient ==
    ASSUME NEW r \in Nat, NEW d \in Nat, d >= 1
    PROVE  r \div d \in Nat /\ (r \div d) * d <= r
  OBVIOUS

LEMMA MaxOfTwo ==
    ASSUME NEW a \in Int, NEW b \in Int
    PROVE  Max({a, b}) \in {a, b} /\ Max({a, b}) >= a /\ Max({a, b}) >= b
<1>1. \E x \in {a, b} : \A y \in {a, b} : x >= y
  BY DEF Max
<1>2. Max({a, b}) \in {a, b} /\ \A y \in {a, b} : Max({a, b}) >= y
  BY <1>1 DEF Max
<1> QED
  BY <1>2

LEMMA MinOfTwo ==
    ASSUME NEW a \in Int, NEW b \in Int
    PROVE  Min({a, b}) \in {a, b} /\ Min({a, b}) <= a /\ Min({a, b}) <= b
<1>1. \E x \in {a, b} : \A y \in {a, b} : x <= y
  OBVIOUS
<1>2. Min({a, b}) \in {a, b} /\ \A y \in {a, b} : Min({a, b}) <= y
  BY <1>1 DEF Min
<1> QED
  BY <1>2

LEMMA LeastOf ==
    ASSUME NEW A \in SUBSET Nat, A # {}
    PROVE  Min(A) \in A /\ \A y \in A : Min(A) <= y
<1> DEFINE Less == {p \in Nat \X Nat : p[1] < p[2]}
<1>1. IsWellFoundedOn(Less, Nat)
  BY NatLessThanWellFounded, Zenon DEF OpToRel
<1>2. \A m, n \in Nat : m < n => <<m, n>> \in Less
  OBVIOUS
<1> HIDE DEF Less
<1>3. PICK x \in A : \A y \in A : ~(<<y, x>> \in Less)
  BY <1>1, WFMin
<1>4. \A y \in A : ~(y < x)
  BY <1>2, <1>3
<1>5. \E z \in A : \A y \in A : z <= y
  BY <1>4
<1> QED
  BY <1>5 DEF Min

LEMMA GreatestOf ==
    ASSUME NEW n \in Nat, NEW A \in SUBSET (0 .. n), A # {}
    PROVE  Max(A) \in A /\ \A y \in A : Max(A) >= y
<1> DEFINE B == {n - a : a \in A}
<1>1. B \in SUBSET Nat /\ B # {}
  <2>1. \A a \in A : a \in Int /\ 0 <= a /\ a <= n
    OBVIOUS
  <2>2. \A a \in A : n - a \in Nat
    BY <2>1
  <2> QED
    BY <2>2
<1>2. PICK b \in B : \A y \in B : b <= y
  BY <1>1, LeastOf
<1>3. PICK a \in A : b = n - a
  BY <1>2
<1>4. \A y \in A : a >= y
  BY <1>2, <1>3
<1>5. \E x \in A : \A y \in A : x >= y
  BY <1>4
<1> QED
  BY <1>5 DEF Max

-----------------------------------------------------------------------------
(* Between two bounds *)

LEMMA ComputeBetween ==
    ASSUME NEW upper \in Int, NEW lower \in Int, upper - lower > 1,
           NEW p \in compute_priority(upper, lower)
    PROVE  p \in Int /\ lower < p /\ p < upper
<1> DEFINE gap == upper - lower
           midpoint == lower + gap \div 2
           range == Max({gap \div JITTER_DIVISOR, 1})
<1>1. gap \in Nat /\ gap >= 2 /\ midpoint \in Int
  OBVIOUS
<1>2. CASE gap <= 2
  <2>1. gap = 2 /\ gap \div 2 = 1
    BY <1>1, <1>2
  <2>2. p = midpoint
    BY <1>2 DEF compute_priority
  <2> QED
    BY <2>1, <2>2
<1>3. CASE gap > 2
  <2>1. gap \div JITTER_DIVISOR \in Int /\ 1 \in Int
    BY <1>1, PriorityGaps
  <2>2. range \in Int
    <3>1. Max({gap \div JITTER_DIVISOR, 1}) \in {gap \div JITTER_DIVISOR, 1}
      BY <2>1, MaxOfTwo, Zenon
    <3> QED
      BY <2>1, <3>1
  <2>3. PICK j \in -range .. range : p = Clamp(midpoint + j, lower + 1, upper - 1)
    BY <1>1, <1>3 DEF compute_priority
  <2> HIDE DEF midpoint, range
  <2>4. midpoint + j \in Int
    BY <1>1, <2>2
  <2> QED
    BY <1>3, <2>3, <2>4 DEF Clamp
<1> QED
  BY <1>1, <1>2, <1>3

LEMMA CappedBounds ==
    ASSUME NEW upper \in MIN .. MAX, NEW lower \in MIN .. MAX,
           NEW u, NEW l, <<u, l>> = cap_edge_bounds(upper, lower)
    PROVE  /\ u \in Int /\ l \in Int
           /\ u <= upper /\ l >= lower
           /\ u - l > 1 <=> upper - lower > 1
           /\ upper = MAX /\ lower # MIN => u - lower <= MAX_EDGE_GAP
           /\ lower = MIN /\ upper # MAX => upper - l <= MAX_EDGE_GAP
<1>1. upper \in Int /\ lower \in Int /\ MIN \in Int /\ MAX \in Int /\ MAX_EDGE_GAP \in Nat /\ MAX_EDGE_GAP >= 2
  BY PriorityRange, PriorityGaps
<1>2. CASE upper - lower <= MAX_EDGE_GAP
  <2>1. u = upper /\ l = lower
    BY <1>2 DEF cap_edge_bounds
  <2> QED
    BY <1>1, <1>2, <2>1
<1>3. CASE upper - lower > MAX_EDGE_GAP
  <2>1. /\ u = IF upper = MAX /\ lower # MIN THEN Min({lower + MAX_EDGE_GAP, MAX}) ELSE upper
        /\ l = IF lower = MIN /\ upper # MAX THEN Max({upper - MAX_EDGE_GAP, MIN}) ELSE lower
    BY <1>1, <1>3 DEF cap_edge_bounds
  <2>2. /\ Min({lower + MAX_EDGE_GAP, MAX}) \in {lower + MAX_EDGE_GAP, MAX}
        /\ Min({lower + MAX_EDGE_GAP, MAX}) <= lower + MAX_EDGE_GAP
        /\ Min({lower + MAX_EDGE_GAP, MAX}) <= MAX
    <3>1. lower + MAX_EDGE_GAP \in Int
      BY <1>1
    <3> QED
      BY <1>1, <3>1, MinOfTwo, Zenon
  <2>3. /\ Max({upper - MAX_EDGE_GAP, MIN}) \in {upper - MAX_EDGE_GAP, MIN}
        /\ Max({upper - MAX_EDGE_GAP, MIN}) >= upper - MAX_EDGE_GAP
        /\ Max({upper - MAX_EDGE_GAP, MIN}) >= MIN
    <3>1. upper - MAX_EDGE_GAP \in Int
      BY <1>1
    <3> QED
      BY <1>1, <3>1, MaxOfTwo, Zenon
  <2> DEFINE mi == Min({lower + MAX_EDGE_GAP, MAX})
             ma == Max({upper - MAX_EDGE_GAP, MIN})
  <2> HIDE DEF mi, ma
  <2>4. CASE upper = MAX /\ lower # MIN
    <3>1. u = mi /\ l = lower
      BY <1>1, <2>1, <2>4 DEF mi
    <3> QED
      BY <1>1, <1>3, <2>2, <2>4, <3>1 DEF mi
  <2>5. CASE lower = MIN /\ upper # MAX
    <3>1. l = ma /\ u = upper
      BY <1>1, <2>1, <2>5 DEF ma
    <3> QED
      BY <1>1, <1>3, <2>3, <2>5, <3>1 DEF ma
  <2>6. CASE ~(upper = MAX /\ lower # MIN) /\ ~(lower = MIN /\ upper # MAX)
    <3>1. l = lower /\ u = upper
      BY <2>1, <2>6
    <3> QED
      BY <1>1, <1>3, <2>6, <3>1
  <2> QED
    BY <2>4, <2>5, <2>6
<1> QED
  BY <1>1, <1>2, <1>3


-----------------------------------------------------------------------------
(* Lists by descending priority, and the packed run around a gap *)

Cards == [id : Nat, priority : MIN .. MAX - 1]
Listed(stack) ==
    /\ stack \in Seq(Cards)
    /\ \A i, j \in DOMAIN stack : i < j => stack[i].priority >= stack[j].priority
    /\ \A i, j \in DOMAIN stack : stack[i].id = stack[j].id => i = j

LEMMA ListedCard ==
    ASSUME NEW stack, Listed(stack), NEW i \in 1 .. Len(stack)
    PROVE  /\ Len(stack) \in Nat /\ DOMAIN stack = 1 .. Len(stack) /\ i \in DOMAIN stack
           /\ stack[i].priority \in Int /\ MIN <= stack[i].priority /\ stack[i].priority < MAX
<1>1. Len(stack) \in Nat /\ DOMAIN stack = 1 .. Len(stack) /\ i \in DOMAIN stack
  BY DEF Listed
<1>2. stack[i] \in Cards
  BY <1>1 DEF Listed
<1>3. stack[i].priority \in MIN .. MAX - 1
  BY <1>2 DEF Cards
<1> QED
  BY <1>1, <1>3, PriorityRange

\* Priorities that differ differ by one at least.
LEMMA Descends ==
    ASSUME NEW stack, Listed(stack), Distinct(stack), NEW i \in 1 .. Len(stack),
           NEW j \in 1 .. Len(stack), i <= j
    PROVE  stack[i].priority - stack[j].priority >= j - i
<1> SUFFICES ASSUME ~(stack[i].priority - stack[j].priority >= j - i)
             PROVE  FALSE
  OBVIOUS
<1> DEFINE P(k) == stack[k].priority
           Bad == {k \in i .. Len(stack) : ~(P(i) - P(k) >= k - i)}
<1>1. Len(stack) \in Nat /\ DOMAIN stack = 1 .. Len(stack) /\ i \in Nat /\ i >= 1 /\ j \in Nat
  BY ListedCard
<1>2. \A k \in 1 .. Len(stack) : P(k) \in Int
  BY ListedCard
<1>3. Bad \in SUBSET Nat /\ j \in Bad
  BY <1>1
<1>4. PICK k \in Bad : \A m \in Bad : k <= m
  BY <1>3, LeastOf
<1>5. k \in i .. Len(stack) /\ k \in Nat /\ ~(P(i) - P(k) >= k - i)
  BY <1>1, <1>4
<1>6. k # i
  BY <1>1, <1>2, <1>5
<1>7. k - 1 \in i .. Len(stack) /\ k - 1 \in 1 .. Len(stack) /\ k \in 1 .. Len(stack)
  BY <1>1, <1>5, <1>6
<1>8. k - 1 \notin Bad
  BY <1>4, <1>7
<1>9. P(i) - P(k - 1) >= (k - 1) - i
  BY <1>7, <1>8
<1>10. P(k - 1) >= P(k) /\ P(k - 1) # P(k)
  BY <1>1, <1>7 DEF Listed, Distinct
<1> HIDE DEF P
<1>11. P(i) \in Int /\ P(k) \in Int /\ P(k - 1) \in Int
  BY <1>1, <1>2, <1>5, <1>7
<1> QED
  BY <1>1, <1>5, <1>9, <1>10, <1>11

\* The run reaches from the gap to cards with room beyond, or to the ends.
LEMMA RunEnds ==
    ASSUME NEW stack, Listed(stack), NEW above \in 0 .. Len(stack), stack # << >>,
           NEW left, NEW right, <<left, right>> = PackedRun(stack, above)
    PROVE  /\ left \in 1 .. Len(stack) /\ right \in 1 .. Len(stack)
           /\ left <= above + 1 /\ above <= right /\ left <= right
           /\ above = 0 => left = 1
           /\ above = Len(stack) => right = Len(stack)
           /\ left # 1 => ~Packed(stack, left - 1)
           /\ right # Len(stack) => ~Packed(stack, right)
<1> DEFINE n == Len(stack)
           left0 == Max({above, 1})
           right0 == Min({above + 1, n})
           A == {l \in 1 .. left0 : \A i \in l .. left0 - 1 : Packed(stack, i)}
           B == {r \in right0 .. n : \A i \in right0 .. r - 1 : Packed(stack, i)}
<1>1. n \in Nat /\ n >= 1
  BY DEF Listed
<1>2. above \in Int /\ 0 <= above /\ above <= n /\ above + 1 \in Int /\ 1 \in Int /\ n \in Int
  BY <1>1
<1>3. left0 \in {above, 1} /\ left0 >= above /\ left0 >= 1
  BY <1>2, MaxOfTwo, Zenon
<1>4. right0 \in {above + 1, n} /\ right0 <= above + 1 /\ right0 <= n
  BY <1>1, <1>2, MinOfTwo, Zenon
<1>5. left = Min(A) /\ right = Max(B)
  BY DEF PackedRun
<1> HIDE DEF left0, right0, n
<1>6. left0 \in 1 .. n /\ right0 \in 1 .. n /\ left0 \in Nat /\ right0 \in Nat
  BY <1>1, <1>2, <1>3, <1>4
<1>7. A \in SUBSET Nat /\ left0 \in A
  BY <1>6
<1>8. B \in SUBSET (0 .. n) /\ right0 \in B
  BY <1>1, <1>6
<1> HIDE DEF A, B
<1>9. left \in A /\ \A l \in A : left <= l
  BY <1>5, <1>7, LeastOf, Zenon
<1>10. right \in B /\ \A r \in B : right >= r
  BY <1>1, <1>5, <1>8, GreatestOf, Zenon
<1>11. left \in 1 .. left0 /\ right \in right0 .. n
  BY <1>9, <1>10 DEF A, B
<1>12. left # 1 => ~Packed(stack, left - 1)
  <2> SUFFICES ASSUME left # 1, Packed(stack, left - 1)
               PROVE  FALSE
    OBVIOUS
  <2>1. left - 1 \in 1 .. left0
    BY <1>6, <1>11
  <2>2. \A i \in left .. left0 - 1 : Packed(stack, i)
    BY <1>9 DEF A
  <2>3. \A i \in left - 1 .. left0 - 1 : i = left - 1 \/ i \in left .. left0 - 1
    BY <1>6, <1>11
  <2>4. left - 1 \in A
    BY <2>1, <2>2, <2>3 DEF A
  <2> QED
    BY <1>6, <1>9, <1>11, <2>4
<1>13. right # n => ~Packed(stack, right)
  <2> SUFFICES ASSUME right # n, Packed(stack, right)
               PROVE  FALSE
    OBVIOUS
  <2>1. right + 1 \in right0 .. n
    BY <1>1, <1>6, <1>11
  <2>2. \A i \in right0 .. right - 1 : Packed(stack, i)
    BY <1>10 DEF B
  <2>3. \A i \in right0 .. (right + 1) - 1 : i = right \/ i \in right0 .. right - 1
    BY <1>1, <1>6, <1>11
  <2>4. right + 1 \in B
    BY <2>1, <2>2, <2>3 DEF B
  <2> QED
    BY <1>1, <1>6, <1>10, <1>11, <2>4
<1>14. /\ left \in 1 .. n /\ right \in 1 .. n
       /\ left <= above + 1 /\ above <= right /\ left <= right
       /\ above = 0 => left = 1
       /\ above = n => right = n
  BY <1>1, <1>2, <1>3, <1>4, <1>6, <1>11
<1> QED
  BY <1>12, <1>13, <1>14 DEF n


-----------------------------------------------------------------------------
(* Rebalancing *)

\* What the run and the new card are spread over, how far apart, and where.
RangeUpper(stack, left)  == IF left = 1 THEN MAX ELSE stack[left - 1].priority
RangeLower(stack, right) == IF right = Len(stack) THEN MIN ELSE stack[right + 1].priority
Step(stack, left, right) ==
    Max({(RangeUpper(stack, left) - RangeLower(stack, right)) \div (right - left + 2 + 1), 1})
Unclamped(stack, left, right, s) == RangeUpper(stack, left) - Step(stack, left, right) * (s + 1)
SlotOf(stack, left, right, s) == Clamp(Unclamped(stack, left, right, s), MIN, MAX)
SlotNumber(above, left, i) == IF i - left < above - left + 1 THEN i - left ELSE i - left + 1
Spread(stack, above, left, right, i) == SlotOf(stack, left, right, SlotNumber(above, left, i))

AfterIn(placement, c) ==
    IF c.id \in DOMAIN placement.shifted THEN placement.shifted[c.id] ELSE c.priority

LEMMA RebalanceSpreads ==
    ASSUME NEW stack, Listed(stack), NEW above \in 0 .. Len(stack), stack # << >>,
           NEW left, NEW right, <<left, right>> = PackedRun(stack, above)
    PROVE  /\ rebalance(stack, above).priority = SlotOf(stack, left, right, above - left + 1)
           /\ \A i \in 1 .. Len(stack) :
                 AfterIn(rebalance(stack, above), stack[i]) =
                    IF i \in left .. right THEN Spread(stack, above, left, right, i)
                    ELSE stack[i].priority
<1> DEFINE NewP(i) == Spread(stack, above, left, right, i)
           shift == {i \in left .. right : NewP(i) # stack[i].priority}
           shifted == [id \in {stack[i].id : i \in shift} |-> NewP(CHOOSE i \in shift : stack[i].id = id)]
           pl == rebalance(stack, above)
<1>1. Len(stack) \in Nat /\ DOMAIN stack = 1 .. Len(stack)
  BY DEF Listed
<1>2. left \in 1 .. Len(stack) /\ right \in 1 .. Len(stack) /\ left \in Int /\ right \in Int
  BY <1>1, RunEnds
<1>4. pl = [priority |-> SlotOf(stack, left, right, above - left + 1), shifted |-> shifted]
  <2>1. PackedRun(stack, above)[1] = left /\ PackedRun(stack, above)[2] = right
    OBVIOUS
  <2>2. pl = Redistributed(stack, above, left, right)
    BY <2>1 DEF rebalance
  <2> HIDE DEF pl
  <2> QED
    BY <2>2, Zenon DEF Redistributed, Spread, SlotOf, SlotNumber, Unclamped, Step, RangeUpper, RangeLower
<1> HIDE DEF pl
<1>5. shift \in SUBSET DOMAIN stack
  BY <1>1, <1>2
<1> HIDE DEF NewP
<1>6. ASSUME NEW i \in shift
      PROVE  stack[i].id \in DOMAIN shifted /\ shifted[stack[i].id] = NewP(i)
  <2>1. \A k \in shift : stack[k].id = stack[i].id => k = i
    BY <1>5 DEF Listed
  <2>2. (CHOOSE k \in shift : stack[k].id = stack[i].id) = i
    BY <2>1
  <2> QED
    BY <2>2
<1>7. ASSUME NEW i \in DOMAIN stack, i \notin shift
      PROVE  stack[i].id \notin DOMAIN shifted
  BY <1>5, <1>7 DEF Listed
<1>8. DOMAIN pl.shifted = DOMAIN shifted /\ pl.shifted = shifted
  BY <1>4
<1> HIDE DEF shifted
<1>9. ASSUME NEW i \in 1 .. Len(stack)
      PROVE  AfterIn(pl, stack[i]) = IF i \in left .. right THEN NewP(i) ELSE stack[i].priority
  <2>1. CASE i \in shift
    BY <1>6, <1>8, <2>1 DEF AfterIn
  <2>2. CASE i \notin shift
    <3>1. AfterIn(pl, stack[i]) = stack[i].priority
      BY <1>1, <1>7, <1>8, <2>2 DEF AfterIn
    <3> QED
      BY <2>2, <3>1
  <2> QED
    BY <2>1, <2>2
<1> QED
  BY <1>4, <1>9 DEF pl, NewP

\* Slots lie within the range, one step or more apart.
LEMMA StepFits ==
    ASSUME NEW upper \in Int, NEW lower \in Int, NEW slots \in Nat, slots >= 1,
           upper - lower >= slots,
           NEW step, step = Max({(upper - lower) \div (slots + 1), 1}),
           NEW s \in 0 .. slots - 1
    PROVE  /\ step \in Nat /\ step >= 1
           /\ step * (s + 1) \in Nat /\ step * (s + 1) >= 1
           /\ upper - step * (s + 1) >= lower
           /\ upper - lower >= slots + 1 => upper - step * (s + 1) > lower
<1> DEFINE q == (upper - lower) \div (slots + 1)
<1>1. upper - lower \in Nat /\ slots + 1 \in Nat /\ slots + 1 >= 1
  OBVIOUS
<1>2. q \in Nat /\ q * (slots + 1) <= upper - lower
  BY <1>1, Quotient
<1> HIDE DEF q
<1>3. step \in {q, 1} /\ step >= q /\ step >= 1
  <2>1. q \in Int /\ 1 \in Int
    BY <1>2
  <2>2. step = Max({q, 1})
    BY DEF q
  <2> QED
    BY <2>1, <2>2, MaxOfTwo, Zenon
<1>4. step \in Nat /\ s + 1 \in Nat /\ s + 1 >= 1 /\ s + 1 <= slots
  BY <1>2, <1>3
<1>5. step * (s + 1) <= step * slots
  BY <1>4, Times
<1>6. step * 1 <= step * (s + 1)
  BY <1>4, Times
<1>7. step * slots \in Nat /\ step * (s + 1) \in Nat /\ step * 1 = step
  BY <1>4
<1>8. CASE step = q
  <2>1. step * (slots + 1) = step * slots + step
    BY <1>4
  <2>2. step * slots + step <= upper - lower
    BY <1>2, <1>8, <2>1
  <2> QED
    BY <1>3, <1>4, <1>5, <1>6, <1>7, <2>2
<1>9. CASE step = 1
  <2>1. step * (s + 1) = s + 1
    BY <1>4, <1>9
  <2> QED
    BY <1>4, <1>9, <2>1
<1> QED
  BY <1>3, <1>8, <1>9


LEMMA RangeTyped ==
    ASSUME NEW stack, Listed(stack), NEW left \in 1 .. Len(stack), NEW right \in 1 .. Len(stack)
    PROVE  /\ RangeUpper(stack, left) \in Int /\ RangeUpper(stack, left) <= MAX
           /\ RangeLower(stack, right) \in Int /\ RangeLower(stack, right) >= MIN
<1>1. Len(stack) \in Nat
  BY DEF Listed
<1>2. left # 1 => left - 1 \in 1 .. Len(stack)
  BY <1>1
<1>3. right # Len(stack) => right + 1 \in 1 .. Len(stack)
  BY <1>1
<1>4. left # 1 => stack[left - 1].priority \in Int /\ stack[left - 1].priority < MAX
  BY <1>2, ListedCard
<1>5. right # Len(stack) => stack[right + 1].priority \in Int /\ MIN <= stack[right + 1].priority
  BY <1>3, ListedCard
<1>6. MIN \in Int /\ MAX \in Int
  BY PriorityRange
<1> QED
  BY <1>4, <1>5, <1>6 DEF RangeUpper, RangeLower

LEMMA RunHasRoom ==
    ASSUME NEW stack, Listed(stack), Distinct(stack), Len(stack) < MAX - MIN,
           NEW above \in 0 .. Len(stack), stack # << >>,
           NEW left, NEW right, <<left, right>> = PackedRun(stack, above)
    PROVE  /\ RangeUpper(stack, left) - RangeLower(stack, right) >= right - left + 2
           /\ right # Len(stack) =>
                 RangeUpper(stack, left) - RangeLower(stack, right) >= right - left + 3
<1> DEFINE n == Len(stack)
           P(i) == stack[i].priority
<1>1. n \in Nat /\ MIN \in Int /\ MAX \in Int
  BY PriorityRange DEF Listed
<1>2. /\ left \in 1 .. n /\ right \in 1 .. n /\ left <= right
      /\ left # 1 => ~Packed(stack, left - 1)
      /\ right # n => ~Packed(stack, right)
  BY RunEnds
<1>3. left \in Int /\ right \in Int /\ 1 <= left /\ right <= n
  BY <1>1, <1>2
<1>4. P(left) \in Int /\ P(right) \in Int /\ P(left) < MAX /\ MIN <= P(right)
  BY <1>2, ListedCard
<1>5. P(left) - P(right) >= right - left
  BY <1>2, Descends
<1>6. left # 1 => P(left - 1) \in Int /\ P(left - 1) - P(left) >= 2
  <2> SUFFICES ASSUME left # 1
               PROVE  P(left - 1) \in Int /\ P(left - 1) - P(left) >= 2
    OBVIOUS
  <2>1. left - 1 \in 1 .. n /\ (left - 1) + 1 = left
    BY <1>1, <1>2
  <2>2. P(left - 1) \in Int
    BY <2>1, ListedCard
  <2>3. ~(P(left - 1) - P(left) <= 1)
    BY <1>2, <2>1 DEF Packed
  <2> QED
    BY <1>4, <2>2, <2>3
<1>7. right # n => P(right + 1) \in Int /\ P(right) - P(right + 1) >= 2
  <2> SUFFICES ASSUME right # n
               PROVE  P(right + 1) \in Int /\ P(right) - P(right + 1) >= 2
    OBVIOUS
  <2>1. right + 1 \in 1 .. n
    BY <1>1, <1>2
  <2>2. P(right + 1) \in Int
    BY <2>1, ListedCard
  <2>3. ~(P(right) - P(right + 1) <= 1)
    BY <1>2 DEF Packed
  <2> QED
    BY <1>4, <2>2, <2>3
<1> DEFINE u == RangeUpper(stack, left)
           l == RangeLower(stack, right)
           pl == P(left)
           pr == P(right)
<1>8. u \in Int /\ (left = 1 => u = MAX) /\ (left # 1 => u - pl >= 2)
  BY <1>1, <1>4, <1>6 DEF RangeUpper
<1>9. l \in Int /\ (right = n => l = MIN) /\ (right # n => pr - l >= 2)
  BY <1>1, <1>4, <1>7 DEF RangeLower
<1>10. n < MAX - MIN /\ pl - pr >= right - left /\ pl \in Int /\ pr \in Int /\ pl < MAX /\ MIN <= pr
  BY <1>4, <1>5
<1> HIDE DEF u, l, pl, pr, n
<1>11. u - l >= right - left + 2 /\ (right # n => u - l >= right - left + 3)
  BY <1>1, <1>3, <1>8, <1>9, <1>10
<1> QED
  BY <1>11 DEF u, l, n

LEMMA SlotsInRange ==
    ASSUME NEW stack, Listed(stack), NEW left \in 1 .. Len(stack), NEW right \in 1 .. Len(stack),
           left <= right, NEW s \in Nat
    PROVE  SlotOf(stack, left, right, s) \in MIN .. MAX - 1
<1> DEFINE upper == RangeUpper(stack, left)
           step == Step(stack, left, right)
           q == (upper - RangeLower(stack, right)) \div (right - left + 2 + 1)
<1>1. upper \in Int /\ upper <= MAX /\ RangeLower(stack, right) \in Int
  BY RangeTyped
<1>2. MIN \in Int /\ MAX \in Int /\ MIN < MAX
  BY PriorityRange
<1>3. right - left + 2 + 1 \in Nat /\ right - left + 2 + 1 >= 1
  <2>1. Len(stack) \in Nat
    BY DEF Listed
  <2> QED
    BY <2>1
<1>4. upper - RangeLower(stack, right) \in Int
  BY <1>1
<1>5. q \in Int /\ 1 \in Int
  BY <1>3, <1>4
<1>6. step = Max({q, 1})
  BY DEF Step
<1> HIDE DEF q
<1>7. step \in {q, 1} /\ step >= 1
  BY <1>5, <1>6, MaxOfTwo, Zenon
<1> HIDE DEF step, upper
<1>8. step \in Nat /\ s + 1 \in Nat /\ s + 1 >= 1
  BY <1>5, <1>7
<1>9. step * 1 <= step * (s + 1)
  BY <1>8, Times
<1>10. step * (s + 1) \in Int /\ step * 1 = step
  BY <1>8
<1>11. Unclamped(stack, left, right, s) \in Int /\ Unclamped(stack, left, right, s) <= MAX - 1
  <2>1. Unclamped(stack, left, right, s) = upper - step * (s + 1)
    BY DEF Unclamped, upper, step
  <2> QED
    BY <1>1, <1>2, <1>7, <1>8, <1>9, <1>10, <2>1
<1> QED
  BY <1>2, <1>11 DEF SlotOf, Clamp

LEMMA SlotsApart ==
    ASSUME NEW stack, Listed(stack), Distinct(stack), Len(stack) < MAX - MIN,
           NEW above \in 0 .. Len(stack), stack # << >>,
           NEW left, NEW right, <<left, right>> = PackedRun(stack, above),
           NEW s \in 0 .. right - left + 1
    PROVE  /\ SlotOf(stack, left, right, s) \in Int
           /\ SlotOf(stack, left, right, s) < RangeUpper(stack, left)
           /\ right # Len(stack) => SlotOf(stack, left, right, s) > RangeLower(stack, right)
           /\ \A t \in 0 .. right - left + 1 :
                 s < t => SlotOf(stack, left, right, s) > SlotOf(stack, left, right, t)
<1> DEFINE upper == RangeUpper(stack, left)
           lower == RangeLower(stack, right)
           step == Step(stack, left, right)
           slots == right - left + 2
<1>1. /\ left \in 1 .. Len(stack) /\ right \in 1 .. Len(stack) /\ left <= right
  BY RunEnds
<1>2. left \in Int /\ right \in Int /\ Len(stack) \in Nat
  BY <1>1 DEF Listed
<1>3. /\ upper \in Int /\ upper <= MAX /\ lower \in Int /\ lower >= MIN
      /\ MIN \in Int /\ MAX \in Int /\ MIN < MAX
  BY <1>1, RangeTyped, PriorityRange
<1>4. upper - lower >= slots /\ (right # Len(stack) => upper - lower >= slots + 1)
  BY <1>2, <1>3, RunHasRoom
<1>5. step = Max({(upper - lower) \div (slots + 1), 1})
  BY DEF Step
<1>6. slots \in Nat /\ slots >= 1 /\ \A t \in 0 .. right - left + 1 : t \in 0 .. slots - 1
  BY <1>1, <1>2
<1> HIDE DEF upper, lower, step, slots
<1>7. ASSUME NEW t \in 0 .. right - left + 1
      PROVE  /\ step \in Nat /\ step >= 1
             /\ step * (t + 1) \in Nat /\ step * (t + 1) >= 1
             /\ upper - step * (t + 1) >= lower
             /\ right # Len(stack) => upper - step * (t + 1) > lower
             /\ SlotOf(stack, left, right, t) = upper - step * (t + 1)
  <2>1. t \in 0 .. slots - 1
    BY <1>6
  <2>2. /\ step \in Nat /\ step >= 1
        /\ step * (t + 1) \in Nat /\ step * (t + 1) >= 1
        /\ upper - step * (t + 1) >= lower
        /\ right # Len(stack) => upper - step * (t + 1) > lower
    BY <1>3, <1>4, <1>5, <1>6, <2>1, StepFits
  <2> DEFINE u == upper - step * (t + 1)
  <2>3. Unclamped(stack, left, right, t) = u
    BY DEF Unclamped, upper, step
  <2>4. u \in Int /\ u >= MIN /\ u <= MAX
    BY <1>3, <2>2
  <2> HIDE DEF u
  <2>5. SlotOf(stack, left, right, t) = u
    BY <1>3, <2>3, <2>4 DEF SlotOf, Clamp
  <2> QED
    BY <2>2, <2>5 DEF u
<1>8. ASSUME NEW t \in 0 .. right - left + 1, s < t
      PROVE  SlotOf(stack, left, right, s) > SlotOf(stack, left, right, t)
  <2>1. s + 1 \in Nat /\ t + 1 \in Nat /\ s + 1 < t + 1
    BY <1>2, <1>8
  <2>2. step * (s + 1) + 1 <= step * (t + 1)
    BY <1>7, <2>1, TimesLess
  <2> DEFINE a == step * (s + 1)
             b == step * (t + 1)
  <2>3. /\ SlotOf(stack, left, right, s) = upper - a /\ SlotOf(stack, left, right, t) = upper - b
        /\ a \in Nat /\ b \in Nat /\ a + 1 <= b
    BY <1>7, <2>2
  <2> HIDE DEF a, b
  <2> QED
    BY <1>3, <2>3
<1>9. /\ SlotOf(stack, left, right, s) \in Int
      /\ SlotOf(stack, left, right, s) < upper
      /\ right # Len(stack) => SlotOf(stack, left, right, s) > lower
  <2> DEFINE a == step * (s + 1)
  <2>1. /\ SlotOf(stack, left, right, s) = upper - a /\ a \in Nat /\ a >= 1
        /\ right # Len(stack) => upper - a > lower
    BY <1>7
  <2> HIDE DEF a
  <2> QED
    BY <1>3, <2>1
<1> QED
  BY <1>8, <1>9 DEF upper, lower

-----------------------------------------------------------------------------
(* Placements *)

\* The placement is right for a card below `above` of these cards.
Fits(stack, above, placement) ==
    /\ \A i \in 1 .. Len(stack) - 1 :
          AfterIn(placement, stack[i]) > AfterIn(placement, stack[i + 1])
    /\ \A i \in DOMAIN stack :
          IF i <= above THEN AfterIn(placement, stack[i]) > placement.priority
                        ELSE placement.priority > AfterIn(placement, stack[i])

\* It leaves every card a priority below the virtual bound.
Typed(stack, placement) ==
    /\ placement.priority \in MIN .. MAX - 1
    /\ \A i \in DOMAIN stack : AfterIn(placement, stack[i]) \in MIN .. MAX - 1

LEMMA SlotNumbers ==
    ASSUME NEW n \in Nat, NEW above \in 0 .. n, NEW left \in 1 .. n, NEW right \in 1 .. n,
           left <= above + 1, above <= right
    PROVE  /\ above - left + 1 \in 0 .. right - left + 1
           /\ \A i \in left .. right :
                 /\ SlotNumber(above, left, i) \in 0 .. right - left + 1
                 /\ SlotNumber(above, left, i) \in Nat
                 /\ i <= above => SlotNumber(above, left, i) < above - left + 1
                 /\ i > above => SlotNumber(above, left, i) > above - left + 1
                 /\ \A j \in left .. right : i < j => SlotNumber(above, left, i) < SlotNumber(above, left, j)
<1>1. n \in Int /\ above \in Int /\ left \in Int /\ right \in Int
  OBVIOUS
<1> QED
  BY <1>1 DEF SlotNumber

LEMMA RebalanceTyped ==
    ASSUME NEW stack, Listed(stack), NEW above \in 0 .. Len(stack), stack # << >>
    PROVE  Typed(stack, rebalance(stack, above))
<1> DEFINE left == PackedRun(stack, above)[1]
           right == PackedRun(stack, above)[2]
           pl == rebalance(stack, above)
<1>1. <<left, right>> = PackedRun(stack, above)
  BY DEF PackedRun
<1> HIDE DEF left, right
<1>2. Len(stack) \in Nat /\ DOMAIN stack = 1 .. Len(stack)
  BY DEF Listed
<1>3. /\ left \in 1 .. Len(stack) /\ right \in 1 .. Len(stack) /\ left <= right
      /\ left <= above + 1 /\ above <= right
  BY <1>1, RunEnds
<1>4. /\ pl.priority = SlotOf(stack, left, right, above - left + 1)
      /\ \A i \in 1 .. Len(stack) :
            AfterIn(pl, stack[i]) = IF i \in left .. right THEN Spread(stack, above, left, right, i)
                                    ELSE stack[i].priority
  BY <1>1, RebalanceSpreads
<1> HIDE DEF pl
<1>5. above - left + 1 \in Nat /\ \A i \in left .. right : SlotNumber(above, left, i) \in Nat
  <2>1. /\ above - left + 1 \in 0 .. right - left + 1
        /\ \A i \in left .. right : SlotNumber(above, left, i) \in Nat
    BY <1>2, <1>3, SlotNumbers
  <2>2. left \in Int /\ right \in Int
    BY <1>2, <1>3
  <2> QED
    BY <2>1, <2>2
<1>6. pl.priority \in MIN .. MAX - 1
  BY <1>3, <1>4, <1>5, SlotsInRange
<1>7. ASSUME NEW i \in DOMAIN stack
      PROVE  AfterIn(pl, stack[i]) \in MIN .. MAX - 1
  <2>1. CASE i \in left .. right
    BY <1>2, <1>3, <1>4, <1>5, <2>1, SlotsInRange DEF Spread
  <2>2. CASE i \notin left .. right
    <3>1. AfterIn(pl, stack[i]) = stack[i].priority
      BY <1>2, <1>4, <2>2
    <3> QED
      BY <1>2, <3>1, ListedCard, PriorityRange
  <2> QED
    BY <2>1, <2>2
<1> QED
  BY <1>6, <1>7 DEF Typed, pl

LEMMA RebalanceFits ==
    ASSUME NEW stack, Listed(stack), Distinct(stack), Len(stack) < MAX - MIN,
           NEW above \in 0 .. Len(stack), stack # << >>
    PROVE  Fits(stack, above, rebalance(stack, above))
<1> DEFINE left == PackedRun(stack, above)[1]
           right == PackedRun(stack, above)[2]
           pl == rebalance(stack, above)
           n == Len(stack)
           k == above - left + 1
           Num(i) == SlotNumber(above, left, i)
           S(s) == SlotOf(stack, left, right, s)
           A(i) == AfterIn(pl, stack[i])
           P(i) == stack[i].priority
           upper == RangeUpper(stack, left)
           lower == RangeLower(stack, right)
<1>1. <<left, right>> = PackedRun(stack, above)
  BY DEF PackedRun
<1> HIDE DEF left, right
<1>2. n \in Nat /\ DOMAIN stack = 1 .. n /\ above \in Int
  BY DEF Listed
<1>3. /\ left \in 1 .. n /\ right \in 1 .. n /\ left <= right
      /\ left <= above + 1 /\ above <= right /\ left \in Int /\ right \in Int
  BY <1>1, <1>2, RunEnds
<1>4. /\ pl.priority = S(k)
      /\ \A i \in left .. right : A(i) = S(Num(i))
      /\ \A i \in 1 .. n : i \notin left .. right => A(i) = P(i)
  <2>1. /\ pl.priority = SlotOf(stack, left, right, above - left + 1)
        /\ \A i \in 1 .. Len(stack) :
              AfterIn(pl, stack[i]) = IF i \in left .. right THEN Spread(stack, above, left, right, i)
                                      ELSE stack[i].priority
    BY <1>1, RebalanceSpreads
  <2>2. \A i \in left .. right : i \in 1 .. n
    BY <1>2, <1>3
  <2> HIDE DEF pl
  <2>3. \A i \in left .. right : A(i) = S(Num(i))
    BY <2>1, <2>2 DEF Spread
  <2>4. \A i \in 1 .. n : i \notin left .. right => A(i) = P(i)
    BY <2>1
  <2>5. pl.priority = S(k)
    BY <2>1
  <2> QED
    BY <2>3, <2>4, <2>5 DEF pl
<1>5. /\ k \in 0 .. right - left + 1
      /\ \A i \in left .. right :
                 /\ Num(i) \in 0 .. right - left + 1
                 /\ i <= above => Num(i) < k
                 /\ i > above => Num(i) > k
                 /\ \A j \in left .. right : i < j => Num(i) < Num(j)
  BY <1>2, <1>3, SlotNumbers
<1>6. \A s \in 0 .. right - left + 1 :
            /\ S(s) \in Int
            /\ S(s) < upper
            /\ right # n => S(s) > lower
            /\ \A t \in 0 .. right - left + 1 : s < t => S(s) > S(t)
  BY <1>1, SlotsApart
<1>7. /\ upper \in Int /\ lower \in Int
      /\ \A i \in 1 .. n : P(i) \in Int
  BY <1>3, RangeTyped, ListedCard
<1>8. \A i, j \in 1 .. n : i < j => P(i) > P(j)
  <2>1. \A i, j \in 1 .. n : i < j => P(i) >= P(j) /\ P(i) # P(j)
    BY <1>2 DEF Listed, Distinct
  <2> QED
    BY <1>7, <2>1
<1>9. ASSUME NEW i \in 1 .. n, i < left
      PROVE  A(i) = P(i) /\ P(i) >= upper
  <2>1. A(i) = P(i)
    BY <1>2, <1>3, <1>4, <1>9
  <2>2. left # 1 /\ left - 1 \in 1 .. n /\ (i = left - 1 \/ i < left - 1)
    BY <1>2, <1>3, <1>9
  <2>3. upper = P(left - 1)
    BY <2>2 DEF RangeUpper
  <2>4. P(i) >= P(left - 1)
    BY <1>7, <1>8, <2>2
  <2> QED
    BY <2>1, <2>3, <2>4
<1>10. ASSUME NEW i \in 1 .. n, i > right
       PROVE  A(i) = P(i) /\ right # n /\ P(i) <= lower
  <2>1. A(i) = P(i)
    BY <1>2, <1>3, <1>4, <1>10
  <2>2. right # n /\ right + 1 \in 1 .. n /\ (i = right + 1 \/ i > right + 1)
    <3>1. i \in Int /\ i <= n /\ right \in Int /\ right >= 1 /\ right < i
      BY <1>2, <1>3, <1>10
    <3> HIDE DEF n
    <3> QED
      BY <1>2, <3>1
  <2>3. lower = P(right + 1)
    BY <2>2 DEF RangeLower
  <2>4. P(i) <= P(right + 1)
    BY <1>7, <1>8, <2>2
  <2> QED
    BY <2>1, <2>2, <2>3, <2>4
<1> HIDE DEF n, k, Num, S, A, P, upper, lower, pl
<1>11. \A i \in 1 .. n : i < left \/ i > right \/ i \in left .. right
  BY <1>2, <1>3
<1>12. ASSUME NEW i \in 1 .. n
       PROVE  IF i <= above THEN A(i) > S(k) ELSE S(k) > A(i)
  <2>1. i \in Int
    BY <1>2
  <2>2. S(k) \in Int /\ S(k) < upper /\ (right # n => S(k) > lower)
    BY <1>5, <1>6
  <2>3. CASE i < left
    <3>1. i <= above
      BY <1>2, <1>3, <2>1, <2>3
    <3> QED
      BY <1>7, <1>9, <2>2, <2>3, <3>1
  <2>4. CASE i > right
    <3>1. ~(i <= above)
      BY <1>2, <1>3, <2>1, <2>4
    <3> QED
      BY <1>7, <1>10, <2>2, <2>4, <3>1
  <2>5. CASE i \in left .. right
    <3>1. A(i) = S(Num(i)) /\ Num(i) \in 0 .. right - left + 1
      BY <1>4, <1>5, <2>5
    <3>2. CASE i <= above
      BY <1>5, <1>6, <2>5, <3>1, <3>2
    <3>3. CASE ~(i <= above)
      <4>1. i > above
        BY <1>2, <2>1, <3>3
      <4>2. Num(i) > k /\ k \in 0 .. right - left + 1
        BY <1>5, <2>5, <4>1
      <4>3. k < Num(i)
        BY <1>3, <3>1, <4>2
      <4> QED
        BY <1>6, <3>1, <3>3, <4>2, <4>3
    <3> QED
      BY <3>2, <3>3
  <2> QED
    BY <1>11, <2>3, <2>4, <2>5
<1>13. ASSUME NEW i \in 1 .. n - 1
       PROVE  A(i) > A(i + 1)
  <2>1. i \in Int /\ i \in 1 .. n /\ i + 1 \in 1 .. n /\ i < i + 1
    BY <1>2
  <2>2. P(i) > P(i + 1) /\ P(i) \in Int /\ P(i + 1) \in Int
    BY <1>7, <1>8, <2>1
  <2>3. CASE i < left /\ i + 1 < left
    BY <1>9, <2>1, <2>2, <2>3
  <2>4. CASE i < left /\ i + 1 \in left .. right
    <3>1. A(i) = P(i) /\ P(i) >= upper
      BY <1>9, <2>1, <2>4
    <3>2. A(i + 1) \in Int /\ A(i + 1) < upper
      BY <1>4, <1>5, <1>6, <2>4
    <3> QED
      BY <1>7, <2>2, <3>1, <3>2
  <2>5. CASE i \in left .. right /\ i + 1 \in left .. right
    BY <1>4, <1>5, <1>6, <2>1, <2>5
  <2>6. CASE i \in left .. right /\ i + 1 > right
    <3>1. A(i + 1) = P(i + 1) /\ right # n /\ P(i + 1) <= lower
      BY <1>10, <2>1, <2>6
    <3>2. A(i) \in Int /\ A(i) > lower
      BY <1>4, <1>5, <1>6, <2>6, <3>1
    <3> QED
      BY <1>7, <2>2, <3>1, <3>2
  <2>7. CASE i > right /\ i + 1 > right
    BY <1>10, <2>1, <2>2, <2>7
  <2>8. \/ i < left /\ i + 1 < left
        \/ i < left /\ i + 1 \in left .. right
        \/ i \in left .. right /\ i + 1 \in left .. right
        \/ i \in left .. right /\ i + 1 > right
        \/ i > right /\ i + 1 > right
    BY <1>3, <2>1
  <2> QED
    BY <2>3, <2>4, <2>5, <2>6, <2>7, <2>8
<1> QED
  BY <1>2, <1>4, <1>12, <1>13 DEF Fits, n, A, pl


LEMMA SimpleLeaves ==
    ASSUME NEW p, NEW c
    PROVE  Simple(p).priority = p /\ AfterIn(Simple(p), c) = c.priority
  BY DEF Simple, NoShift, AfterIn

LEMMA BoundsTyped ==
    ASSUME NEW stack, Listed(stack), NEW above \in 0 .. Len(stack),
           NEW upper, NEW lower, <<upper, lower>> = bounds_for_position(stack, above)
    PROVE  /\ upper \in MIN .. MAX /\ lower \in MIN .. MAX
           /\ upper = IF above = 0 THEN MAX ELSE stack[above].priority
           /\ lower = IF above = Len(stack) THEN MIN ELSE stack[above + 1].priority
<1>1. Len(stack) \in Nat /\ above \in Int /\ MIN \in Int /\ MAX \in Int /\ MIN < MAX
  BY PriorityRange DEF Listed
<1>2. above # 0 => stack[above].priority \in Int /\ MIN <= stack[above].priority /\ stack[above].priority < MAX
  <2>1. above # 0 => above \in 1 .. Len(stack)
    BY <1>1
  <2> QED
    BY <2>1, ListedCard
<1>3. above # Len(stack) => stack[above + 1].priority \in Int /\ MIN <= stack[above + 1].priority
                            /\ stack[above + 1].priority < MAX
  <2>1. above # Len(stack) => above + 1 \in 1 .. Len(stack)
    BY <1>1
  <2> QED
    BY <2>1, ListedCard
<1>4. /\ upper = IF above = 0 THEN MAX ELSE stack[above].priority
      /\ lower = IF above < Len(stack) THEN stack[above + 1].priority ELSE MIN
  BY DEF bounds_for_position
<1>5. lower = IF above = Len(stack) THEN MIN ELSE stack[above + 1].priority
  BY <1>1, <1>4
<1>6. upper \in MIN .. MAX
  BY <1>1, <1>2, <1>4
<1>7. lower \in MIN .. MAX
  BY <1>1, <1>3, <1>5
<1> QED
  BY <1>4, <1>5, <1>6, <1>7

\* Either there is a free priority between the neighbours, or none is left and
\* the run around is spread.
LEMMA PlaceCases ==
    ASSUME NEW stack, Listed(stack), NEW above \in 0 .. Len(stack), NEW pl \in place_card(stack, above),
           NEW upper, NEW lower, <<upper, lower>> = bounds_for_position(stack, above)
    PROVE  \/ \E p \in Int : /\ pl = Simple(p) /\ lower < p /\ p < upper
                             /\ upper = MAX /\ lower # MIN => p - lower < MAX_EDGE_GAP
                             /\ lower = MIN /\ upper # MAX => upper - p < MAX_EDGE_GAP
           \/ stack = << >> /\ \E p \in MIN .. MAX - 1 : pl = Simple(p)
           \/ stack # << >> /\ upper - lower <= 1 /\ pl = rebalance(stack, above)
<1> DEFINE u == cap_edge_bounds(upper, lower)[1]
           l == cap_edge_bounds(upper, lower)[2]
<1>1. upper \in MIN .. MAX /\ lower \in MIN .. MAX /\ upper \in Int /\ lower \in Int
  BY BoundsTyped, PriorityRange
<1>2. <<u, l>> = cap_edge_bounds(upper, lower)
  BY DEF cap_edge_bounds
<1>3. pl \in Place(stack, u, l, above)
  <2>1. bounds_for_position(stack, above)[1] = upper /\ bounds_for_position(stack, above)[2] = lower
    OBVIOUS
  <2> QED
    BY <2>1 DEF place_card
<1> HIDE DEF u, l
<1>4. /\ u \in Int /\ l \in Int /\ u <= upper /\ l >= lower
      /\ u - l > 1 <=> upper - lower > 1
      /\ upper = MAX /\ lower # MIN => u - lower <= MAX_EDGE_GAP
      /\ lower = MIN /\ upper # MAX => upper - l <= MAX_EDGE_GAP
  BY <1>1, <1>2, CappedBounds
<1>5. CASE u - l > 1
  <2>1. PICK p \in compute_priority(u, l) : pl = Simple(p)
    BY <1>3, <1>5 DEF Place
  <2>2. p \in Int /\ l < p /\ p < u
    BY <1>4, <1>5, <2>1, ComputeBetween
  <2>3. MAX_EDGE_GAP \in Int
    BY PriorityGaps
  <2>4. /\ lower < p /\ p < upper
        /\ upper = MAX /\ lower # MIN => p - lower < MAX_EDGE_GAP
        /\ lower = MIN /\ upper # MAX => upper - p < MAX_EDGE_GAP
    BY <1>1, <1>4, <2>2, <2>3
  <2> QED
    BY <2>1, <2>2, <2>4
<1>6. CASE ~(u - l > 1) /\ stack = << >>
  <2>1. upper = MAX /\ lower = MIN
    <3>1. Len(stack) = 0 /\ above = 0
      BY <1>6
    <3> QED
      BY <3>1, BoundsTyped
  <2>2. MAX - MIN = 1 /\ MIN \in Int /\ MAX \in Int
    BY <1>4, <1>6, <2>1, PriorityRange
  <2>3. PICK p \in compute_priority(MAX, MIN) : pl = Simple(p)
    BY <1>3, <1>6 DEF Place
  <2>4. p = MIN + (MAX - MIN) \div 2
    BY <2>2 DEF compute_priority
  <2>5. p = MIN
    BY <2>2, <2>4
  <2>6. p \in MIN .. MAX - 1
    BY <2>2, <2>5
  <2> QED
    BY <1>6, <2>3, <2>6
<1>7. CASE ~(u - l > 1) /\ stack # << >>
  <2>1. pl = rebalance(stack, above)
    BY <1>3, <1>7 DEF Place
  <2>2. upper - lower <= 1
    BY <1>1, <1>4, <1>7
  <2> QED
    BY <1>7, <2>1, <2>2
<1> QED
  BY <1>5, <1>6, <1>7

LEMMA PlacementTyped ==
    ASSUME NEW stack, Listed(stack), NEW above \in 0 .. Len(stack), NEW pl \in place_card(stack, above)
    PROVE  Typed(stack, pl)
<1> DEFINE upper == bounds_for_position(stack, above)[1]
           lower == bounds_for_position(stack, above)[2]
<1>1. <<upper, lower>> = bounds_for_position(stack, above)
  BY DEF bounds_for_position
<1> HIDE DEF upper, lower
<1>2. upper \in MIN .. MAX /\ lower \in MIN .. MAX /\ MIN \in Int /\ MAX \in Int
  BY <1>1, BoundsTyped, PriorityRange
<1>3. ASSUME NEW p \in MIN .. MAX - 1, pl = Simple(p)
      PROVE  Typed(stack, pl)
  <2>1. pl.priority = p /\ \A i \in DOMAIN stack : AfterIn(pl, stack[i]) = stack[i].priority
    BY <1>3, SimpleLeaves
  <2>2. ASSUME NEW i \in DOMAIN stack
        PROVE  stack[i].priority \in MIN .. MAX - 1
    <3>1. i \in 1 .. Len(stack)
      BY DEF Listed
    <3> QED
      BY <1>2, <3>1, ListedCard
  <2> QED
    BY <1>3, <2>1, <2>2 DEF Typed
<1>4. ASSUME NEW p \in Int, lower < p, p < upper
      PROVE  p \in MIN .. MAX - 1
  BY <1>2, <1>4
<1> QED
  BY <1>1, <1>3, <1>4, PlaceCases, RebalanceTyped

LEMMA PlacementFits ==
    ASSUME NEW stack, Listed(stack), Distinct(stack), Len(stack) < MAX - MIN,
           NEW above \in 0 .. Len(stack), NEW pl \in place_card(stack, above)
    PROVE  Fits(stack, above, pl)
<1> DEFINE upper == bounds_for_position(stack, above)[1]
           lower == bounds_for_position(stack, above)[2]
           P(i) == stack[i].priority
<1>1. <<upper, lower>> = bounds_for_position(stack, above)
  BY DEF bounds_for_position
<1> HIDE DEF upper, lower
<1>2. /\ Len(stack) \in Nat /\ DOMAIN stack = 1 .. Len(stack) /\ above \in Int
      /\ \A i \in 1 .. Len(stack) : P(i) \in Int
  BY ListedCard DEF Listed
<1>3. \A i, j \in 1 .. Len(stack) : i < j => P(i) > P(j)
  <2>1. \A i, j \in 1 .. Len(stack) : i < j => P(i) >= P(j) /\ P(i) # P(j)
    BY <1>2 DEF Listed, Distinct
  <2> QED
    BY <1>2, <2>1
<1>4. ASSUME NEW p \in Int, pl = Simple(p), lower < p, p < upper
      PROVE  Fits(stack, above, pl)
  <2>1. pl.priority = p /\ \A i \in 1 .. Len(stack) : AfterIn(pl, stack[i]) = P(i)
    BY <1>4, SimpleLeaves
  <2>2. /\ upper = IF above = 0 THEN MAX ELSE P(above)
        /\ lower = IF above = Len(stack) THEN MIN ELSE P(above + 1)
    BY <1>1, BoundsTyped
  <2>3. ASSUME NEW i \in 1 .. Len(stack)
        PROVE  IF i <= above THEN P(i) > p ELSE p > P(i)
    <3>1. CASE i <= above
      <4>1. above # 0 /\ above \in 1 .. Len(stack) /\ (i = above \/ i < above)
        BY <1>2, <3>1
      <4>2. P(i) \in Int /\ P(above) \in Int /\ (i < above => P(i) > P(above))
        BY <1>2, <1>3, <4>1
      <4>3. i = above => P(i) = P(above)
        OBVIOUS
      <4>4. upper = P(above)
        BY <2>2, <4>1
      <4> HIDE DEF P
      <4> QED
        BY <1>4, <3>1, <4>1, <4>2, <4>3, <4>4
    <3>2. CASE ~(i <= above)
      <4>0. i \in Int /\ above \in Int /\ Len(stack) \in Int /\ i > above /\ i <= Len(stack) /\ above >= 0
        BY <1>2, <3>2
      <4>1. above # Len(stack) /\ above + 1 \in 1 .. Len(stack) /\ (i = above + 1 \/ above + 1 < i)
        BY <4>0
      <4>2. P(i) \in Int /\ P(above + 1) \in Int /\ (above + 1 < i => P(above + 1) > P(i))
        BY <1>2, <1>3, <4>1
      <4>3. i = above + 1 => P(i) = P(above + 1)
        OBVIOUS
      <4>4. lower = P(above + 1)
        BY <2>2, <4>1
      <4> HIDE DEF P
      <4> QED
        BY <1>4, <3>2, <4>1, <4>2, <4>3, <4>4
    <3> QED
      BY <3>1, <3>2
  <2>4. ASSUME NEW i \in 1 .. Len(stack) - 1
        PROVE  P(i) > P(i + 1)
    <3>1. i \in 1 .. Len(stack) /\ i + 1 \in 1 .. Len(stack) /\ i < i + 1
      BY <1>2
    <3> QED
      BY <1>3, <3>1
  <2>5. \A i \in 1 .. Len(stack) - 1 : i \in 1 .. Len(stack) /\ i + 1 \in 1 .. Len(stack)
    BY <1>2
  <2> DEFINE A(i) == AfterIn(pl, stack[i])
  <2>6. \A i \in 1 .. Len(stack) : A(i) = P(i)
    BY <2>1
  <2>7. \A i \in 1 .. Len(stack) - 1 : A(i) > A(i + 1)
    BY <2>4, <2>5, <2>6
  <2>8. \A i \in 1 .. Len(stack) : IF i <= above THEN A(i) > pl.priority ELSE pl.priority > A(i)
    BY <2>1, <2>3, <2>6
  <2> QED
    BY <1>2, <2>7, <2>8 DEF Fits
<1>5. ASSUME stack = << >>
      PROVE  Fits(stack, above, pl)
  <2>1. Len(stack) = 0 /\ DOMAIN stack = {} /\ 1 .. Len(stack) - 1 = {}
    BY <1>5
  <2> QED
    BY <2>1 DEF Fits
<1> QED
  BY <1>1, <1>4, <1>5, PlaceCases, RebalanceFits

LEMMA PlacementStaysClose ==
    ASSUME NEW stack, Listed(stack), stack # << >>, NEW above \in 0 .. Len(stack),
           NEW pl \in place_card(stack, above)
    PROVE  /\ above = 0 /\ stack[1].priority # MIN => pl.priority - stack[1].priority < MAX_EDGE_GAP
           /\ above = Len(stack) /\ stack[Len(stack)].priority # MAX =>
                 stack[Len(stack)].priority - pl.priority < MAX_EDGE_GAP
<1> DEFINE upper == bounds_for_position(stack, above)[1]
           lower == bounds_for_position(stack, above)[2]
           n == Len(stack)
<1>1. <<upper, lower>> = bounds_for_position(stack, above)
  BY DEF bounds_for_position
<1> HIDE DEF upper, lower
<1>2. n \in Nat /\ n >= 1 /\ MIN \in Int /\ MAX \in Int /\ MAX_EDGE_GAP \in Nat /\ MAX_EDGE_GAP >= 2
  BY PriorityRange, PriorityGaps DEF Listed
<1>3. /\ upper = IF above = 0 THEN MAX ELSE stack[above].priority
      /\ lower = IF above = n THEN MIN ELSE stack[above + 1].priority
  BY <1>1, BoundsTyped
<1>4. pl.priority \in MIN .. MAX - 1
  BY PlacementTyped DEF Typed
<1>5. stack[1].priority \in Int /\ stack[n].priority \in Int /\ stack[n].priority < MAX
      /\ MIN <= stack[n].priority /\ stack[1].priority < MAX
  BY <1>2, ListedCard
<1>6. CASE \E p \in Int : /\ pl = Simple(p)
                          /\ upper = MAX /\ lower # MIN => p - lower < MAX_EDGE_GAP
                          /\ lower = MIN /\ upper # MAX => upper - p < MAX_EDGE_GAP
  <2>1. PICK p \in Int : /\ pl.priority = p
                         /\ upper = MAX /\ lower # MIN => p - lower < MAX_EDGE_GAP
                         /\ lower = MIN /\ upper # MAX => upper - p < MAX_EDGE_GAP
    BY <1>6, SimpleLeaves
  <2>2. above = 0 => upper = MAX /\ lower = stack[1].priority
    BY <1>2, <1>3
  <2>3. above = n => lower = MIN /\ upper = stack[n].priority
    BY <1>2, <1>3
  <2> QED
    BY <2>1, <2>2, <2>3
<1>7. CASE upper - lower <= 1
  <2>1. above = 0 => MAX - stack[1].priority <= 1
    BY <1>2, <1>3, <1>7
  <2>2. above = n => stack[n].priority - MIN <= 1
    BY <1>2, <1>3, <1>7
  <2> QED
    BY <1>2, <1>4, <1>5, <2>1, <2>2
<1> QED
  BY <1>1, <1>6, <1>7, PlaceCases

\* What fits between neighbours fits in the whole list.
LEMMA FitsThroughout ==
    ASSUME NEW stack, Listed(stack), NEW above, NEW pl, Typed(stack, pl), Fits(stack, above, pl),
           NEW i \in 1 .. Len(stack), NEW j \in 1 .. Len(stack), i < j
    PROVE  AfterIn(pl, stack[i]) > AfterIn(pl, stack[j])
<1> SUFFICES ASSUME ~(AfterIn(pl, stack[i]) > AfterIn(pl, stack[j]))
             PROVE  FALSE
  OBVIOUS
<1> DEFINE A(k) == AfterIn(pl, stack[k])
           Bad == {k \in i + 1 .. Len(stack) : ~(A(i) > A(k))}
<1>1. Len(stack) \in Nat /\ DOMAIN stack = 1 .. Len(stack) /\ i \in Nat /\ i >= 1 /\ j \in Nat
  BY ListedCard
<1>2. ASSUME NEW k \in 1 .. Len(stack)
      PROVE  A(k) \in Int
  <2>1. A(k) \in MIN .. MAX - 1
    BY <1>1 DEF Typed
  <2> HIDE DEF A
  <2> QED
    BY <2>1, PriorityRange
<1>3. Bad \in SUBSET Nat /\ j \in Bad
  BY <1>1
<1>4. PICK k \in Bad : \A m \in Bad : k <= m
  BY <1>3, LeastOf
<1>5. k \in i + 1 .. Len(stack) /\ k \in Nat /\ ~(A(i) > A(k))
  BY <1>1, <1>4
<1>6. k - 1 \in 1 .. Len(stack) - 1 /\ k - 1 \in 1 .. Len(stack) /\ k \in 1 .. Len(stack)
  BY <1>1, <1>5
<1>7. A(k - 1) > A(k)
  <2>1. \A m \in 1 .. Len(stack) - 1 : A(m) > A(m + 1)
    BY DEF Fits
  <2> HIDE DEF A
  <2>2. A(k - 1) > A((k - 1) + 1) /\ (k - 1) + 1 = k
    BY <1>5, <1>6, <2>1
  <2> QED
    BY <2>2
<1>8. k # i + 1
  BY <1>1, <1>5, <1>7
<1>9. k - 1 \in i + 1 .. Len(stack)
  BY <1>1, <1>5, <1>8
<1>10. A(i) > A(k - 1)
  <2>1. k - 1 \notin Bad
    BY <1>3, <1>4, <1>5
  <2> QED
    BY <1>9, <2>1
<1>11. A(i) \in Int /\ A(k) \in Int /\ A(k - 1) \in Int
  BY <1>2, <1>6
<1> HIDE DEF A
<1> QED
  BY <1>5, <1>7, <1>10, <1>11

\* A placement shifts cards it saw, to priorities below the virtual bound.
LEMMA ShiftsSeen ==
    ASSUME NEW stack, Listed(stack), NEW above \in 0 .. Len(stack), NEW pl \in place_card(stack, above),
           NEW id \in DOMAIN pl.shifted
    PROVE  \E i \in DOMAIN stack : stack[i].id = id
<1> DEFINE upper == bounds_for_position(stack, above)[1]
           lower == bounds_for_position(stack, above)[2]
<1>1. <<upper, lower>> = bounds_for_position(stack, above)
  BY DEF bounds_for_position
<1> HIDE DEF upper, lower
<1>2. ASSUME NEW p, pl = Simple(p)
      PROVE  FALSE
  BY <1>2 DEF Simple, NoShift
<1>3. ASSUME pl = rebalance(stack, above), stack # << >>
      PROVE  \E i \in DOMAIN stack : stack[i].id = id
  <2> DEFINE left == PackedRun(stack, above)[1]
             right == PackedRun(stack, above)[2]
  <2>1. pl = Redistributed(stack, above, left, right)
    BY <1>3 DEF rebalance
  <2>2. left \in 1 .. Len(stack) /\ right \in 1 .. Len(stack)
    <3>1. <<left, right>> = PackedRun(stack, above)
      BY DEF PackedRun
    <3> HIDE DEF left, right
    <3> QED
      BY <1>3, <3>1, RunEnds
  <2> HIDE DEF left, right
  <2>3. DOMAIN pl.shifted \subseteq {stack[i].id : i \in left .. right}
    BY <2>1 DEF Redistributed
  <2>4. \A i \in left .. right : i \in DOMAIN stack
    BY <2>2 DEF Listed
  <2> QED
    BY <2>3, <2>4
<1> QED
  BY <1>1, <1>2, <1>3, PlaceCases

-----------------------------------------------------------------------------
(* The cards a placement sees *)

ByPriority(l) ==
    /\ l \in Seq(MIN .. MAX - 1)
    /\ \A i, j \in DOMAIN l : i < j => l[i] >= l[j]

LEMMA SequenceOf ==
    ASSUME NEW n \in Nat, NEW S, NEW f \in [1 .. n -> S]
    PROVE  f \in Seq(S) /\ Len(f) = n
  OBVIOUS

LEMMA IncreasingOrder ==
    ASSUME NEW S \in SUBSET Int
    PROVE  StrictOrder(S, Increasing(S))
<1>1. \A x, y \in S : <<x, y>> \in Increasing(S) <=> x < y
  BY DEF Increasing
<1> QED
  BY <1>1 DEF StrictOrder

LEMMA UpTo ==
    ASSUME NEW n \in Nat
    PROVE  IsFiniteSet(1 .. n) /\ Cardinality(1 .. n) = n
  BY FS_Interval

\* The members of a set of places, from the top.
LEMMA PlacesInOrder ==
    ASSUME NEW n \in Nat, NEW S \in SUBSET (1 .. n), NEW at, at = InOrder(S, Increasing(S))
    PROVE  /\ IsFiniteSet(S) /\ Cardinality(S) \in 0 .. n
           /\ at \in [1 .. Cardinality(S) -> S]
           /\ \A i, j \in 1 .. Cardinality(S) : i < j => at[i] < at[j]
           /\ \A x \in S : \E i \in 1 .. Cardinality(S) : at[i] = x
<1>1. IsFiniteSet(1 .. n) /\ Cardinality(1 .. n) = n
  BY UpTo
<1>2. IsFiniteSet(S) /\ Cardinality(S) \in Nat /\ Cardinality(S) <= n
  BY <1>1, FS_Subset, FS_CardinalityType
<1>3. StrictOrder(S, Increasing(S))
  BY IncreasingOrder
<1>4. /\ at \in [1 .. Cardinality(S) -> S]
      /\ \A i, j \in 1 .. Cardinality(S) : i < j => <<at[i], at[j]>> \in Increasing(S)
      /\ \A x \in S : \E i \in 1 .. Cardinality(S) : at[i] = x
  BY <1>2, <1>3, InOrderLists
<1>5. ASSUME NEW i \in 1 .. Cardinality(S), NEW j \in 1 .. Cardinality(S), i < j
      PROVE  at[i] < at[j]
  <2>1. <<at[i], at[j]>> \in Increasing(S)
    BY <1>4, <1>5
  <2> QED
    BY <2>1 DEF Increasing
<1>6. Cardinality(S) \in 0 .. n
  BY <1>2
<1> QED
  BY <1>2, <1>4, <1>5, <1>6

LEMMA CardsAtPlaces ==
    ASSUME ByPriority(list), NEW places \in SUBSET Places
    PROVE  /\ Listed(CardsAt(places))
           /\ Len(CardsAt(places)) = Cardinality(places) /\ Cardinality(places) \in 0 .. Len(list)
           /\ DOMAIN CardsAt(places) = 1 .. Cardinality(places)
           /\ \A n \in DOMAIN CardsAt(places) :
                 /\ CardsAt(places)[n].id \in places
                 /\ CardsAt(places)[n].priority = list[CardsAt(places)[n].id]
           /\ \A p \in places : \E n \in DOMAIN CardsAt(places) : CardsAt(places)[n].id = p
<1> DEFINE at == InOrder(places, Increasing(places))
           N == Cardinality(places)
           stack == CardsAt(places)
<1>1. /\ Len(list) \in Nat /\ Places = 1 .. Len(list)
      /\ \A p \in Places : list[p] \in MIN .. MAX - 1
      /\ \A i, j \in Places : i < j => list[i] >= list[j]
  <2>1. Len(list) \in Nat /\ Places = 1 .. Len(list) /\ Places = DOMAIN list
    BY DEF ByPriority, Places
  <2>2. \A p \in 1 .. Len(list) : list[p] \in MIN .. MAX - 1
    BY ElementOfSeq, Zenon DEF ByPriority
  <2>3. \A i, j \in Places : i < j => list[i] >= list[j]
    BY <2>1 DEF ByPriority
  <2> QED
    BY <2>1, <2>2, <2>3
<1>2. /\ N \in 0 .. Len(list) /\ at \in [1 .. N -> places]
      /\ \A i, j \in 1 .. N : i < j => at[i] < at[j]
      /\ \A x \in places : \E i \in 1 .. N : at[i] = x
  <2>1. places \in SUBSET (1 .. Len(list))
    BY <1>1
  <2> HIDE DEF at
  <2>2. at = InOrder(places, Increasing(places))
    BY DEF at
  <2> QED
    BY <1>1, <2>1, <2>2, PlacesInOrder
<1>3. stack = [n \in DOMAIN at |-> [id |-> at[n], priority |-> list[at[n]]]]
  BY DEF CardsAt
<1> HIDE DEF at, N, stack
<1>4. stack = [n \in 1 .. N |-> [id |-> at[n], priority |-> list[at[n]]]]
  BY <1>2, <1>3
<1>5. DOMAIN stack = 1 .. N /\ N \in Nat
  BY <1>1, <1>2, <1>4
<1>6. ASSUME NEW n \in 1 .. N
      PROVE  /\ stack[n].id = at[n] /\ stack[n].priority = list[at[n]]
             /\ at[n] \in places /\ stack[n] \in Cards
  <2>1. stack[n] = [id |-> at[n], priority |-> list[at[n]]] /\ at[n] \in places
    BY <1>2, <1>4
  <2>2. at[n] \in 1 .. Len(list) /\ list[at[n]] \in MIN .. MAX - 1
    BY <1>1, <2>1
  <2>3. at[n] \in Nat
    BY <1>1, <2>2
  <2> QED
    BY <2>1, <2>2, <2>3 DEF Cards
<1>7. stack \in Seq(Cards) /\ Len(stack) = N
  <2>1. stack \in [1 .. N -> Cards]
    BY <1>4, <1>6
  <2> QED
    BY <1>5, <2>1, SequenceOf
<1>8. ASSUME NEW i \in 1 .. N, NEW j \in 1 .. N, i < j
      PROVE  stack[i].priority >= stack[j].priority
  <2>1. at[i] < at[j] /\ at[i] \in Places /\ at[j] \in Places
    BY <1>2, <1>6, <1>8
  <2> QED
    BY <1>1, <1>6, <2>1
<1>9. ASSUME NEW i \in 1 .. N, NEW j \in 1 .. N, stack[i].id = stack[j].id
      PROVE  i = j
  <2>1. at[i] = at[j] /\ at[i] \in Nat /\ i \in Int /\ j \in Int
    <3>1. at[i] = at[j] /\ at[i] \in Places
      BY <1>6, <1>9
    <3> QED
      BY <1>1, <1>5, <3>1
  <2>2. ~(at[i] < at[j]) /\ ~(at[j] < at[i])
    BY <2>1
  <2> QED
    BY <1>2, <2>1, <2>2
<1>10. Listed(stack)
  BY <1>5, <1>7, <1>8, <1>9 DEF Listed
<1>11. \A p \in places : \E n \in 1 .. N : stack[n].id = p
  BY <1>2, <1>6
<1> QED
  BY <1>2, <1>5, <1>6, <1>7, <1>10, <1>11 DEF stack, N

LEMMA OthersListed ==
    ASSUME NEW stack, Listed(stack), NEW id, \E k \in DOMAIN stack : stack[k].id = id
    PROVE  /\ Listed(Others(stack, id)) /\ Len(Others(stack, id)) = Len(stack) - 1
           /\ \A n \in DOMAIN Others(stack, id) :
                 \E i \in DOMAIN stack : Others(stack, id)[n] = stack[i] /\ stack[i].id # id
<1> DEFINE places == {i \in DOMAIN stack : stack[i].id # id}
           at == InOrder(places, Increasing(places))
           N == Cardinality(places)
           others == Others(stack, id)
<1>1. Len(stack) \in Nat /\ DOMAIN stack = 1 .. Len(stack) /\ stack \in Seq(Cards)
  BY DEF Listed
<1>0. PICK k \in DOMAIN stack : stack[k].id = id
  OBVIOUS
<1>2. places = (1 .. Len(stack)) \ {k}
  BY <1>0, <1>1 DEF Listed
<1>3. N = Len(stack) - 1
  <2>1. IsFiniteSet(1 .. Len(stack)) /\ Cardinality(1 .. Len(stack)) = Len(stack)
    BY <1>1, UpTo, Zenon
  <2>2. k \in 1 .. Len(stack)
    BY <1>1
  <2> QED
    BY <1>2, <2>1, <2>2, FS_RemoveElement
<1>4. /\ at \in [1 .. N -> places]
      /\ \A i, j \in 1 .. N : i < j => at[i] < at[j]
  <2>1. places \in SUBSET (1 .. Len(stack))
    BY <1>2
  <2>2. at = InOrder(places, Increasing(places))
    OBVIOUS
  <2> HIDE DEF at, places
  <2> QED
    BY <1>1, <2>1, <2>2, PlacesInOrder
<1>5. others = [n \in DOMAIN at |-> stack[at[n]]]
  BY DEF Others
<1> HIDE DEF at, N, others, places
<1>6. others = [n \in 1 .. N |-> stack[at[n]]]
  BY <1>4, <1>5
<1>7. DOMAIN others = 1 .. N /\ N \in Nat
  <2>1. k \in 1 .. Len(stack)
    BY <1>1
  <2> QED
    BY <1>1, <1>3, <1>6, <2>1
<1>8. ASSUME NEW n \in 1 .. N
      PROVE  others[n] = stack[at[n]] /\ at[n] \in 1 .. Len(stack) /\ at[n] # k /\ others[n] \in Cards
  BY <1>1, <1>2, <1>4, <1>6
<1>9. others \in Seq(Cards) /\ Len(others) = N
  <2>1. others \in [1 .. N -> Cards]
    BY <1>6, <1>8
  <2> QED
    BY <1>7, <2>1, SequenceOf
<1>10. ASSUME NEW i \in 1 .. N, NEW j \in 1 .. N, i < j
       PROVE  others[i].priority >= others[j].priority /\ others[i].id # others[j].id
  <2>1. at[i] < at[j] /\ at[i] \in Int /\ at[j] \in Int
    BY <1>4, <1>8, <1>10
  <2>2. stack[at[i]].priority >= stack[at[j]].priority /\ stack[at[i]].id # stack[at[j]].id
    BY <1>1, <1>8, <2>1 DEF Listed
  <2> QED
    BY <1>8, <2>2
<1>11. ASSUME NEW i \in 1 .. N, NEW j \in 1 .. N, others[i].id = others[j].id
       PROVE  i = j
  <2>1. i \in Int /\ j \in Int
    BY <1>7
  <2> QED
    BY <1>10, <1>11, <2>1
<1>12. Listed(others)
  BY <1>7, <1>9, <1>10, <1>11 DEF Listed
<1>13. ASSUME NEW n \in DOMAIN others
       PROVE  \E i \in DOMAIN stack : others[n] = stack[i] /\ stack[i].id # id
  <2>1. others[n] = stack[at[n]] /\ at[n] \in DOMAIN stack /\ at[n] \in places
    BY <1>1, <1>4, <1>7, <1>8
  <2> QED
    BY <2>1 DEF places
<1> QED
  BY <1>3, <1>9, <1>12, <1>13 DEF others

LEMMA PositionInList ==
    ASSUME NEW stack, Listed(stack), NEW desired
    PROVE  Position(stack, desired) \in 0 .. Len(stack)
<1>1. Len(stack) \in Nat /\ DOMAIN stack = 1 .. Len(stack)
  BY DEF Listed
<1>2. IsFiniteSet(1 .. Len(stack)) /\ Cardinality(1 .. Len(stack)) = Len(stack)
  BY <1>1, UpTo, Zenon
<1>3. {i \in DOMAIN stack : stack[i].priority > desired} \in SUBSET (1 .. Len(stack))
  BY <1>1
<1> QED
  BY <1>1, <1>2, <1>3, FS_Subset, FS_CardinalityType DEF Position

-----------------------------------------------------------------------------
(* The list after a placement *)

\* Sorting keeps the priorities, and keeps them apart.
LEMMA SortedList ==
    ASSUME NEW ps \in Seq(MIN .. MAX - 1)
    PROVE  /\ ByPriority(Sorted(ps)) /\ Len(Sorted(ps)) = Len(ps)
           /\ (\A i, j \in DOMAIN ps : ps[i] = ps[j] => i = j) =>
                 \A i, j \in DOMAIN Sorted(ps) : Sorted(ps)[i] = Sorted(ps)[j] => i = j
<1> DEFINE n == Len(ps)
           Better == {p \in (DOMAIN ps) \X (DOMAIN ps) :
                         ps[p[1]] > ps[p[2]] \/ (ps[p[1]] = ps[p[2]] /\ p[1] < p[2])}
           at == InOrder(DOMAIN ps, Better)
           l == Sorted(ps)
<1>1. n \in Nat /\ DOMAIN ps = 1 .. n
  OBVIOUS
<1>2. \A i \in 1 .. n : ps[i] \in MIN .. MAX - 1 /\ ps[i] \in Int
  <2>1. \A i \in 1 .. n : ps[i] \in MIN .. MAX - 1
    BY ElementOfSeq, Zenon
  <2> QED
    BY <2>1, PriorityRange
<1>3. \A x, y \in 1 .. n : <<x, y>> \in Better <=> ps[x] > ps[y] \/ (ps[x] = ps[y] /\ x < y)
  BY <1>1
<1>4. StrictOrder(1 .. n, Better)
  <2> HIDE DEF Better, n
  <2>1. \A x \in 1 .. n : <<x, x>> \notin Better
    BY <1>1, <1>2, <1>3
  <2>2. ASSUME NEW x \in 1 .. n, NEW y \in 1 .. n, x # y
        PROVE  <<x, y>> \in Better \/ <<y, x>> \in Better
    BY <1>1, <1>2, <1>3, <2>2
  <2>3. ASSUME NEW x \in 1 .. n, NEW y \in 1 .. n, NEW z \in 1 .. n,
               <<x, y>> \in Better, <<y, z>> \in Better
        PROVE  <<x, z>> \in Better
    <3>1. ps[x] \in Int /\ ps[y] \in Int /\ ps[z] \in Int /\ x \in Int /\ y \in Int /\ z \in Int
      BY <1>1, <1>2
    <3>2. ps[x] > ps[y] \/ (ps[x] = ps[y] /\ x < y)
      BY <1>3, <2>3
    <3>3. ps[y] > ps[z] \/ (ps[y] = ps[z] /\ y < z)
      BY <1>3, <2>3
    <3>4. ps[x] > ps[z] \/ (ps[x] = ps[z] /\ x < z)
      BY <3>1, <3>2, <3>3
    <3> QED
      BY <1>3, <3>4
  <2> QED
    BY <2>1, <2>2, <2>3 DEF StrictOrder
<1>5. /\ at \in [1 .. n -> 1 .. n]
      /\ \A i, j \in 1 .. n : i < j => <<at[i], at[j]>> \in Better
  <2>1. IsFiniteSet(1 .. n) /\ Cardinality(1 .. n) = n
    BY <1>1, UpTo, Zenon
  <2>2. at = InOrder(1 .. n, Better)
    BY <1>1
  <2> HIDE DEF at, Better, n
  <2> QED
    BY <1>4, <2>1, <2>2, InOrderLists
<1>6. l = [i \in DOMAIN at |-> ps[at[i]]]
  BY DEF Sorted
<1> HIDE DEF n, Better, at, l
<1>7. DOMAIN l = 1 .. n /\ \A i \in 1 .. n : l[i] = ps[at[i]] /\ at[i] \in 1 .. n
  BY <1>5, <1>6
<1>8. l \in Seq(MIN .. MAX - 1) /\ Len(l) = n
  <2>1. l \in [1 .. n -> MIN .. MAX - 1]
    BY <1>2, <1>5, <1>6
  <2> QED
    BY <1>1, <2>1, SequenceOf, Zenon
<1>9. ASSUME NEW i \in 1 .. n, NEW j \in 1 .. n, i < j
      PROVE  l[i] >= l[j] /\ at[i] # at[j]
  <2>1. at[i] \in 1 .. n /\ at[j] \in 1 .. n /\ <<at[i], at[j]>> \in Better
    BY <1>5, <1>9
  <2>2. ps[at[i]] > ps[at[j]] \/ (ps[at[i]] = ps[at[j]] /\ at[i] < at[j])
    BY <1>3, <2>1
  <2>3. ps[at[i]] \in Int /\ ps[at[j]] \in Int /\ at[i] \in Int /\ at[j] \in Int
    BY <1>1, <1>2, <2>1
  <2>4. ps[at[i]] >= ps[at[j]] /\ at[i] # at[j]
    BY <2>2, <2>3
  <2> QED
    BY <1>7, <2>4
<1>10. ByPriority(l)
  BY <1>7, <1>8, <1>9 DEF ByPriority
<1>11. ASSUME \A i, j \in 1 .. n : ps[i] = ps[j] => i = j,
              NEW i \in 1 .. n, NEW j \in 1 .. n, l[i] = l[j]
       PROVE  i = j
  <2>1. at[i] = at[j]
    BY <1>7, <1>11
  <2>2. i \in Int /\ j \in Int
    BY <1>1
  <2> QED
    BY <1>9, <2>1, <2>2
<1> QED
  BY <1>1, <1>7, <1>8, <1>10, <1>11 DEF l, n

\* What a placement promises of the cards it saw and of the list after it.
LEMMA PlacementKeeps ==
    ASSUME ByPriority(list), Len(list) <= MaxCards,
           NEW op, NEW id \in {Placed} \union Places, id = Placed => Len(list) < MaxCards,
           NEW stack, Listed(stack), Len(stack) <= Len(list),
           \A n \in DOMAIN stack : stack[n].id \in Places \ {id},
           \A n \in DOMAIN stack : stack[n].priority = list[stack[n].id],
           op \in {"new", "resolve"} => \A p \in Places \ {id} : \E n \in DOMAIN stack : stack[n].id = p,
           NEW above \in 0 .. Len(stack), NEW pl \in place_card(stack, above),
           Apply(op, id, stack, above, pl)
    PROVE  ByPriority(list)' /\ Len(list)' <= MaxCards /\ PlacementLands'
<1> DEFINE after == [p \in Places |-> IF p = id THEN pl.priority
                                      ELSE IF p \in DOMAIN pl.shifted THEN pl.shifted[p]
                                      ELSE list[p]]
           ps == IF id = Placed THEN Append(after, pl.priority) ELSE after
           N == Len(list)
<1>1. N \in Nat /\ Places = 1 .. N /\ \A p \in Places : list[p] \in MIN .. MAX - 1
  <2>1. N \in Nat /\ Places = 1 .. N
    BY DEF ByPriority, Places
  <2>2. \A p \in 1 .. N : list[p] \in MIN .. MAX - 1
    BY ElementOfSeq, Zenon DEF ByPriority
  <2> QED
    BY <2>1, <2>2
<1>2. Typed(stack, pl)
  BY PlacementTyped
<1>3. Len(stack) \in Nat /\ DOMAIN stack = 1 .. Len(stack)
  BY DEF Listed
<1>4. /\ list' = Sorted(ps)
      /\ call' = [op |-> op, cards |-> stack, above |-> above, placement |-> pl]
  BY DEF Apply, Upserted
<1>5. ASSUME NEW p \in Places
      PROVE  after[p] \in MIN .. MAX - 1
  <2>1. after[p] = IF p = id THEN pl.priority ELSE IF p \in DOMAIN pl.shifted THEN pl.shifted[p] ELSE list[p]
    OBVIOUS
  <2> HIDE DEF after
  <2>2. p \in DOMAIN pl.shifted => pl.shifted[p] \in MIN .. MAX - 1
    <3>1. SUFFICES ASSUME p \in DOMAIN pl.shifted
                   PROVE  pl.shifted[p] \in MIN .. MAX - 1
      OBVIOUS
    <3>2. PICK n \in DOMAIN stack : stack[n].id = p
      BY <3>1, ShiftsSeen
    <3>3. AfterIn(pl, stack[n]) = pl.shifted[p]
      BY <3>1, <3>2 DEF AfterIn
    <3> QED
      BY <1>2, <3>3 DEF Typed
  <2>3. pl.priority \in MIN .. MAX - 1
    BY <1>2 DEF Typed
  <2> QED
    BY <1>1, <2>1, <2>2, <2>3
<1>6. after \in Seq(MIN .. MAX - 1) /\ Len(after) = N /\ DOMAIN after = 1 .. N
  <2>1. after \in [1 .. N -> MIN .. MAX - 1]
    BY <1>1, <1>5
  <2> HIDE DEF after, N
  <2> QED
    BY <1>1, <2>1, SequenceOf, Zenon
<1> HIDE DEF after, N
<1>7. ps \in Seq(MIN .. MAX - 1) /\ Len(ps) <= MaxCards
  <2>1. pl.priority \in MIN .. MAX - 1
    BY <1>2 DEF Typed
  <2>2. CASE id = Placed
    <3>1. /\ Append(after, pl.priority) \in Seq(MIN .. MAX - 1)
          /\ Len(Append(after, pl.priority)) = N + 1
      BY <1>6, <2>1, AppendProperties
    <3>2. N < MaxCards /\ MaxCards \in Nat
      BY <2>2, PrioritiesSuffice DEF N
    <3> QED
      BY <1>1, <2>2, <3>1, <3>2
  <2>3. CASE id # Placed
    BY <1>6, <2>3 DEF N
  <2> QED
    BY <2>2, <2>3
<1> HIDE DEF ps
<1>8. ByPriority(Sorted(ps)) /\ Len(Sorted(ps)) <= MaxCards
  BY <1>7, SortedList
<1>9. ByPriority(list)' /\ Len(list)' <= MaxCards
  BY <1>4, <1>8 DEF ByPriority
<1>10. Len(stack) < MAX - MIN
  <2>1. Len(stack) \in Int /\ N \in Int /\ MaxCards \in Int /\ MAX \in Int /\ MIN \in Int
        /\ Len(stack) <= N /\ N <= MaxCards /\ MaxCards < MAX - MIN
    BY <1>1, <1>3, PrioritiesSuffice, PriorityRange DEF N
  <2> QED
    BY <2>1
<1>11. Distinct(stack) => Fits(stack, above, pl)
  BY <1>10, PlacementFits
<1>12. OrderKept'
  <2>1. SUFFICES ASSUME Distinct(stack)
                 PROVE  /\ \A i \in 1 .. Len(stack) - 1 : AfterIn(pl, stack[i]) > AfterIn(pl, stack[i + 1])
                        /\ \A i \in DOMAIN stack : IF i <= above THEN AfterIn(pl, stack[i]) > pl.priority
                                                                 ELSE pl.priority > AfterIn(pl, stack[i])
    BY <1>4 DEF OrderKept, After, AfterIn, Distinct
  <2> QED
    BY <1>11, <2>1 DEF Fits
<1>13. EdgeInsertsStayClose'
  <2>1. stack # << >> =>
          /\ above = 0 /\ stack[1].priority # MIN => pl.priority - stack[1].priority < MAX_EDGE_GAP
          /\ above = Len(stack) /\ stack[Len(stack)].priority # MAX =>
                stack[Len(stack)].priority - pl.priority < MAX_EDGE_GAP
    BY PlacementStaysClose
  <2> QED
    BY <1>4, <2>1 DEF EdgeInsertsStayClose
<1>14. ASSUME op \in {"new", "resolve"}, Distinct(stack)
       PROVE  \A i, j \in DOMAIN ps : ps[i] = ps[j] => i = j
  <2>1. Fits(stack, above, pl)
    BY <1>11, <1>14
  <2>2. ASSUME NEW p \in Places \ {id}
        PROVE  \E n \in DOMAIN stack : stack[n].id = p /\ after[p] = AfterIn(pl, stack[n])
    <3>1. PICK n \in DOMAIN stack : stack[n].id = p
      BY <1>14
    <3>2. after[p] = AfterIn(pl, stack[n])
      BY <3>1 DEF after, AfterIn
    <3> QED
      BY <3>1, <3>2
  <2>3. ASSUME NEW n \in DOMAIN stack, NEW m \in DOMAIN stack, AfterIn(pl, stack[n]) = AfterIn(pl, stack[m])
        PROVE  n = m
    <3>1. AfterIn(pl, stack[n]) \in Int /\ AfterIn(pl, stack[m]) \in Int /\ n \in Int /\ m \in Int
      BY <1>2, <1>3, PriorityRange DEF Typed
    <3>2. ~(n < m) /\ ~(m < n)
      BY <1>2, <1>3, <2>1, <2>3, <3>1, FitsThroughout
    <3> QED
      BY <3>1, <3>2
  <2>4. ASSUME NEW n \in DOMAIN stack
        PROVE  AfterIn(pl, stack[n]) # pl.priority
    <3>1. AfterIn(pl, stack[n]) \in Int /\ pl.priority \in Int
      BY <1>2, PriorityRange DEF Typed
    <3> QED
      BY <2>1, <3>1 DEF Fits
  <2>5. ASSUME NEW p \in Places \ {id}, NEW q \in Places \ {id}, after[p] = after[q]
        PROVE  p = q
    BY <2>2, <2>3, <2>5
  <2>6. ASSUME NEW p \in Places \ {id}
        PROVE  after[p] # pl.priority
    BY <2>2, <2>4
  <2>7. CASE id = Placed
    <3>1. id \notin Places
      BY <1>1, <2>7 DEF Placed
    <3>2. /\ ps = Append(after, pl.priority) /\ DOMAIN ps = 1 .. N + 1
          /\ \A i \in 1 .. N : ps[i] = after[i]
          /\ ps[N + 1] = pl.priority
      <4>1. pl.priority \in MIN .. MAX - 1
        BY <1>2 DEF Typed
      <4>2. ps = Append(after, pl.priority)
        BY <2>7 DEF ps
      <4> QED
        BY <1>6, <4>1, <4>2, AppendProperties
    <3>3. \A i \in 1 .. N + 1 : i \in 1 .. N \/ i = N + 1
      BY <1>1
    <3>4. \A i \in 1 .. N : i \in Places \ {id}
      BY <1>1, <3>1
    <3>5. ASSUME NEW i \in 1 .. N, NEW j \in 1 .. N, ps[i] = ps[j]
          PROVE  i = j
      BY <2>5, <3>2, <3>4, <3>5
    <3>6. \A i \in 1 .. N : ps[i] # ps[N + 1]
      BY <2>6, <3>2, <3>4
    <3> QED
      BY <3>2, <3>3, <3>5, <3>6
  <2>8. CASE id # Placed
    <3>1. ps = after /\ DOMAIN ps = Places /\ id \in Places
      BY <1>1, <1>6, <2>8 DEF ps
    <3>2. after[id] = pl.priority
      BY <3>1 DEF after
    <3> QED
      BY <2>5, <2>6, <3>1, <3>2
  <2> QED
    BY <2>7, <2>8
<1>15. ResolutionEnds'
  <2>1. SUFFICES ASSUME op \in {"new", "resolve"}, Distinct(stack)
                 PROVE  \A i, j \in DOMAIN Sorted(ps) : Sorted(ps)[i] = Sorted(ps)[j] => i = j
    BY <1>4 DEF ResolutionEnds, Places, Distinct
  <2> QED
    BY <1>7, <1>14, <2>1, SortedList
<1> QED
  BY <1>9, <1>12, <1>13, <1>15 DEF PlacementLands

-----------------------------------------------------------------------------
(* The operations *)

LEMMA RemoveAtProperties ==
    ASSUME NEW S, NEW l \in Seq(S), NEW i \in 1 .. Len(l)
    PROVE  /\ RemoveAt(l, i) \in Seq(S)
           /\ Len(RemoveAt(l, i)) = Len(l) - 1
           /\ \A j \in 1 .. Len(l) - 1 :
                 RemoveAt(l, i)[j] = IF j < i THEN l[j] ELSE l[j + 1]
<1> DEFINE above == SubSeq(l, 1, i - 1)
           below == SubSeq(l, i + 1, Len(l))
<1>1. /\ i \in Int /\ i - 1 \in Int /\ i + 1 \in Int /\ Len(l) \in Int
      /\ \A j \in 1 .. Len(l) : l[j] \in S
  OBVIOUS
<1>2. /\ \A j \in 1 .. i - 1 : l[j] \in S
      /\ \A j \in i + 1 .. Len(l) : l[j] \in S
  BY <1>1
<1>3. /\ above \in Seq(S) /\ Len(above) = i - 1
      /\ \A j \in 1 .. i - 1 : above[j] = l[j]
  <2>1. /\ above \in Seq(S)
        /\ Len(above) = IF 1 <= i - 1 THEN (i - 1) - 1 + 1 ELSE 0
        /\ \A j \in 1 .. (i - 1) - 1 + 1 : above[j] = l[1 + j - 1]
    BY <1>1, <1>2, SubSeqProperties
  <2> HIDE DEF above
  <2> QED
    BY <1>1, <2>1
<1>4. /\ below \in Seq(S) /\ Len(below) = Len(l) - i
      /\ \A j \in 1 .. Len(l) - i : below[j] = l[i + j]
  <2>1. /\ below \in Seq(S)
        /\ Len(below) = IF i + 1 <= Len(l) THEN Len(l) - (i + 1) + 1 ELSE 0
        /\ \A j \in 1 .. Len(l) - (i + 1) + 1 : below[j] = l[(i + 1) + j - 1]
    BY <1>1, <1>2, SubSeqProperties
  <2> HIDE DEF below
  <2>2. Len(l) - (i + 1) + 1 = Len(l) - i
    BY <1>1
  <2>3. Len(below) = Len(l) - i
    BY <1>1, <2>1
  <2>4. ASSUME NEW j \in 1 .. Len(l) - i PROVE below[j] = l[i + j]
    <3>1. (i + 1) + j - 1 = i + j
      BY <1>1
    <3> QED
      BY <2>1, <2>2, <3>1
  <2> QED
    BY <2>1, <2>3, <2>4
<1> HIDE DEF above, below
<1>5. /\ above \o below \in Seq(S) /\ Len(above \o below) = Len(above) + Len(below)
      /\ \A j \in 1 .. Len(above) + Len(below) :
            (above \o below)[j] = IF j <= Len(above) THEN above[j] ELSE below[j - Len(above)]
  BY <1>3, <1>4, ConcatProperties
<1>6. RemoveAt(l, i) = above \o below
  BY DEF RemoveAt, above, below
<1>7. ASSUME NEW j \in 1 .. Len(l) - 1
      PROVE  (above \o below)[j] = IF j < i THEN l[j] ELSE l[j + 1]
  <2>1. (above \o below)[j] = IF j <= i - 1 THEN above[j] ELSE below[j - (i - 1)]
    BY <1>1, <1>3, <1>4, <1>5
  <2>2. CASE j < i
    BY <1>1, <1>3, <2>1, <2>2
  <2>3. CASE ~(j < i)
    <3>1. j - (i - 1) \in 1 .. Len(l) - i /\ i + (j - (i - 1)) = j + 1
      BY <1>1, <2>3
    <3> QED
      BY <1>1, <1>4, <2>1, <2>3, <3>1
  <2> QED
    BY <2>2, <2>3
<1>8. Len(above \o below) = Len(l) - 1
  BY <1>1, <1>3, <1>4, <1>5
<1> QED
  BY <1>5, <1>6, <1>7, <1>8

OrderInv == ByPriority(list) /\ Len(list) <= MaxCards /\ PlacementLands

LEMMA NewStep ==
    ASSUME OrderInv, NEW above, NewCard(above)
    PROVE  OrderInv'
<1> DEFINE stack == CardsAt(Places)
<1>1. ByPriority(list) /\ Len(list) < MaxCards /\ Len(list) <= MaxCards /\ above \in 0 .. Len(list)
  BY DEF OrderInv, NewCard
<1>2. PICK pl \in place_card(stack, above) : Apply("new", Placed, stack, above, pl)
  BY DEF NewCard
<1>3. /\ Listed(stack) /\ Len(stack) = Cardinality(Places) /\ Placed \notin Places
      /\ \A n \in DOMAIN stack : stack[n].id \in Places /\ stack[n].priority = list[stack[n].id]
      /\ \A p \in Places : \E n \in DOMAIN stack : stack[n].id = p
  <2>1. Placed \notin Places
    BY <1>1 DEF Places, Placed, ByPriority
  <2> QED
    BY <1>1, <2>1, CardsAtPlaces
<1>4. Len(stack) = Len(list)
  <2>1. Len(list) \in Nat /\ Places = 1 .. Len(list)
    BY <1>1 DEF ByPriority, Places
  <2> QED
    BY <1>3, <2>1, UpTo
<1> HIDE DEF stack
<1>5. above \in 0 .. Len(stack) /\ Len(stack) <= Len(list)
  BY <1>1, <1>4 DEF ByPriority
<1> QED
  BY <1>1, <1>2, <1>3, <1>5, PlacementKeeps DEF OrderInv

LEMMA MoveStep ==
    ASSUME OrderInv, NEW shown \in SUBSET Places, NEW id, NEW above, MoveCard(id, shown, above)
    PROVE  OrderInv'
<1> DEFINE seen == CardsAt(shown)
           stack == Others(seen, id)
<1>1. ByPriority(list) /\ Len(list) <= MaxCards /\ id \in shown /\ id \in Places
      /\ above \in 0 .. Cardinality(shown) - 1
  BY DEF OrderInv, MoveCard
<1>2. PICK pl \in place_card(stack, above) : Apply("move", id, stack, above, pl)
  BY DEF MoveCard, move_card
<1>3. /\ Listed(seen) /\ Len(seen) = Cardinality(shown) /\ Cardinality(shown) \in 0 .. Len(list)
      /\ \A n \in DOMAIN seen : seen[n].id \in shown /\ seen[n].priority = list[seen[n].id]
  BY <1>1, CardsAtPlaces
<1>4. \E k \in DOMAIN seen : seen[k].id = id
  BY <1>1, <1>3, CardsAtPlaces
<1> HIDE DEF seen
<1>5. /\ Listed(stack) /\ Len(stack) = Len(seen) - 1
      /\ \A n \in DOMAIN stack : \E i \in DOMAIN seen : stack[n] = seen[i] /\ seen[i].id # id
  <2>1. stack = Others(seen, id)
    OBVIOUS
  <2> HIDE DEF stack
  <2>2. Listed(seen)
    BY <1>3
  <2>3. /\ Listed(Others(seen, id)) /\ Len(Others(seen, id)) = Len(seen) - 1
        /\ \A n \in DOMAIN Others(seen, id) :
              \E i \in DOMAIN seen : Others(seen, id)[n] = seen[i] /\ seen[i].id # id
    BY <1>4, <2>2, OthersListed
  <2> QED
    BY <2>1, <2>3
<1> HIDE DEF stack
<1>6. /\ \A n \in DOMAIN stack : stack[n].id \in Places \ {id}
      /\ \A n \in DOMAIN stack : stack[n].priority = list[stack[n].id]
  BY <1>3, <1>5
<1>7. above \in 0 .. Len(stack) /\ Len(stack) <= Len(list)
  <2>1. Len(list) \in Nat
    BY <1>1 DEF ByPriority
  <2> QED
    BY <1>1, <1>3, <1>5, <2>1
<1>8. id # Placed
  BY <1>1 DEF Places, Placed, ByPriority
<1> QED
  BY <1>1, <1>2, <1>5, <1>6, <1>7, <1>8, PlacementKeeps DEF OrderInv

LEMMA ResolveStep ==
    ASSUME OrderInv, NEW id \in Places, Resolve(id)
    PROVE  OrderInv'
<1> DEFINE stack == CardsAt(Places \ {id})
           above == Position(stack, list[id])
<1>1. ByPriority(list) /\ Len(list) <= MaxCards
  BY DEF OrderInv
<1>2. PICK pl \in place_card(stack, above) : Apply("resolve", id, stack, above, pl)
  BY DEF Resolve, resolve_collision
<1>3. /\ Listed(stack) /\ Len(stack) \in 0 .. Len(list)
      /\ \A n \in DOMAIN stack : stack[n].id \in Places \ {id}
      /\ \A n \in DOMAIN stack : stack[n].priority = list[stack[n].id]
      /\ \A p \in Places \ {id} : \E n \in DOMAIN stack : stack[n].id = p
  <2>1. Places \ {id} \in SUBSET Places
    OBVIOUS
  <2> QED
    BY <1>1, <2>1, CardsAtPlaces
<1> HIDE DEF stack
<1>4. above \in 0 .. Len(stack)
  BY <1>3, PositionInList
<1> HIDE DEF above
<1>5. Len(stack) <= Len(list)
  BY <1>1, <1>3 DEF ByPriority
<1>6. id # Placed
  BY <1>1 DEF Places, Placed, ByPriority
<1> QED
  BY <1>1, <1>2, <1>3, <1>4, <1>5, <1>6, PlacementKeeps DEF OrderInv

\* Nobody has placed a card.
LEMMA NothingPlaced ==
    ASSUME call' = NoCall
    PROVE  PlacementLands'
  BY DEF PlacementLands, OrderKept, EdgeInsertsStayClose, ResolutionEnds

LEMMA ArriveStep ==
    ASSUME OrderInv, NEW p \in MIN .. MAX - 1, Arrive(p)
    PROVE  OrderInv'
<1>1. list \in Seq(MIN .. MAX - 1) /\ Len(list) \in Nat /\ Len(list) < MaxCards /\ MaxCards \in Nat
  BY PrioritiesSuffice DEF OrderInv, ByPriority, Arrive
<1>2. /\ Append(list, p) \in Seq(MIN .. MAX - 1) /\ Len(Append(list, p)) = Len(list) + 1
      /\ Len(list) + 1 <= MaxCards
  BY <1>1, AppendProperties
<1>3. ByPriority(Sorted(Append(list, p))) /\ Len(Sorted(Append(list, p))) <= MaxCards
  BY <1>1, <1>2, SortedList
<1>4. PlacementLands'
  BY NothingPlaced DEF Arrive
<1> QED
  BY <1>3, <1>4 DEF OrderInv, Arrive, ByPriority

LEMMA LeaveStep ==
    ASSUME OrderInv, NEW id \in Places, Leave(id)
    PROVE  OrderInv'
<1> DEFINE l == RemoveAt(list, id)
           n == Len(list)
<1>1. /\ list \in Seq(MIN .. MAX - 1) /\ n \in Nat /\ n <= MaxCards /\ DOMAIN list = 1 .. n /\ id \in 1 .. n
      /\ \A i, j \in 1 .. n : i < j => list[i] >= list[j]
  BY DEF OrderInv, ByPriority, Places
<1>2. /\ l \in Seq(MIN .. MAX - 1) /\ Len(l) = n - 1
      /\ \A j \in 1 .. n - 1 : l[j] = IF j < id THEN list[j] ELSE list[j + 1]
  BY <1>1, RemoveAtProperties
<1> HIDE DEF l, n
<1>3. DOMAIN l = 1 .. n - 1
  BY <1>2
<1>4. ASSUME NEW i \in 1 .. n - 1, NEW j \in 1 .. n - 1, i < j
      PROVE  l[i] >= l[j]
  <2>1. /\ i \in 1 .. n /\ j \in 1 .. n /\ i + 1 \in 1 .. n /\ j + 1 \in 1 .. n
        /\ i < j + 1 /\ i + 1 < j + 1 /\ (j < id => i < id)
    BY <1>1, <1>4
  <2>2. list[i] >= list[j] /\ list[i] >= list[j + 1] /\ list[i + 1] >= list[j + 1]
    BY <1>1, <1>4, <2>1
  <2> QED
    BY <1>2, <2>1, <2>2
<1>5. ByPriority(l)
  BY <1>2, <1>3, <1>4 DEF ByPriority
<1>6. Len(l) <= MaxCards
  BY <1>1, <1>2, PrioritiesSuffice
<1>7. PlacementLands'
  BY NothingPlaced DEF Leave
<1> QED
  BY <1>5, <1>6, <1>7 DEF OrderInv, Leave, ByPriority, l

LEMMA OrderStep == OrderInv /\ [OrderNext]_orderVars => OrderInv'
<1> SUFFICES ASSUME OrderInv, [OrderNext]_orderVars
             PROVE  OrderInv'
  OBVIOUS
<1>1. ASSUME NEW above \in 0 .. Len(list), NewCard(above)
      PROVE  OrderInv'
  BY <1>1, NewStep
<1>2. ASSUME NEW id \in Places, Resolve(id)
      PROVE  OrderInv'
  BY <1>2, ResolveStep
<1>3. ASSUME NEW id \in Places, Leave(id)
      PROVE  OrderInv'
  BY <1>3, LeaveStep
<1>4. ASSUME NEW shown \in SUBSET Places, NEW id \in shown, NEW above \in 0 .. Len(list),
             MoveCard(id, shown, above)
      PROVE  OrderInv'
  BY <1>4, MoveStep
<1>5. ASSUME NEW p \in MIN .. MAX - 1, Arrive(p)
      PROVE  OrderInv'
  BY <1>5, ArriveStep
<1>6. CASE UNCHANGED orderVars
  BY <1>6 DEF orderVars, OrderInv, ByPriority, PlacementLands, OrderKept, EdgeInsertsStayClose,
              ResolutionEnds, After, Places
<1> QED
  BY <1>1, <1>2, <1>3, <1>4, <1>5, <1>6 DEF OrderNext

LEMMA OrderBegin == OrderInit => OrderInv
<1> SUFFICES ASSUME OrderInit
             PROVE  OrderInv
  OBVIOUS
<1>1. ByPriority(list)
  BY DEF OrderInit, ByPriority
<1>2. Len(list) <= MaxCards
  BY PrioritiesSuffice DEF OrderInit
<1>3. PlacementLands
  BY DEF OrderInit, PlacementLands, OrderKept, EdgeInsertsStayClose, ResolutionEnds
<1> QED
  BY <1>1, <1>2, <1>3 DEF OrderInv

-----------------------------------------------------------------------------

\* However many cards there are (fewer than priorities), at whatever priorities
\* the other clients have put them, and whatever filter is on: place_card,
\* move_card and resolve_collision put a card strictly between its neighbours,
\* keep the order of the cards they saw, land next to the edge and leave no
\* collision (priority.rs).
THEOREM PlacementsLand == OrderSpec => []PlacementLands
<1>1. OrderInit => OrderInv
  BY OrderBegin
<1>2. OrderInv /\ [OrderNext]_orderVars => OrderInv'
  BY OrderStep
<1>3. OrderInv => PlacementLands
  BY DEF OrderInv
<1> QED
  BY <1>1, <1>2, <1>3, PTL DEF OrderSpec

-----------------------------------------------------------------------------
(* Debounced moves (Moves).  What a version may say is told by the moves it *)
(* may hold.                                                                *)

Bodies(M)   == [edit: Nat, move: M, at: {"list", "push"}]
Versions(M) == Seq(Bodies(M))
Real(M)     == Versions(M) \ {Gone}
Items(M)    == [id: Ids, version: Real(M)]
Batches(M)  == Seq(Items(M)) \ {<< >>}
Tasks(M) ==
    {rec \in [todo: Seq(Batches(M)), retry: Seq(Items(M)), current: Versions(M),
              reply: {"none", "waiting", "Ok", "AncestorMismatch", "AlreadyDeleted", "Lost"}] :
        rec # IdlePush => rec.todo # << >>}
Bursts(M) == {b \in [card: Ids, bases: UNION {[S -> Real(M)] : S \in SUBSET Ids}, move: Nat] :
                 b.card \in DOMAIN b.bases}

Pending(id) == IF id \in DOMAIN pending_priority.bases THEN {pending_priority.move} ELSE {}

\* What the server, the queue and the tasks hold are moves whose burst has ended; the
\* list shows the move of the burst that is pending as well.
MovesInv ==
    /\ flushed \subseteq Nat /\ 0 \in flushed /\ moves \in Nat /\ edits \in Nat /\ losses \in Nat
    /\ chain \in [Ids -> Versions(flushed)] /\ deleted \subseteq Ids /\ unsynced \subseteq Ids
    /\ DOMAIN cards = Ids /\ \A id \in Ids : cards[id] \in Versions(flushed \cup Pending(id))
    /\ offline_queue \in Seq(Items(flushed))
    /\ push \in [Slots -> Tasks(flushed)] /\ flushing \in Tasks(flushed)
    /\ pending_priority = NoBurst \/ pending_priority \in Bursts(flushed)

LEMMA SeqGrows ==
    ASSUME NEW A, NEW B, A \subseteq B
    PROVE  Seq(A) \subseteq Seq(B)
<1> SUFFICES ASSUME NEW s \in Seq(A) PROVE s \in Seq(B)
    OBVIOUS
<1>1. Len(s) \in Nat /\ s \in [1 .. Len(s) -> A]
    OBVIOUS
<1>2. s \in [1 .. Len(s) -> B]
    BY <1>1
<1> QED
    BY <1>1, <1>2

\* The more moves there may be, the more versions.
LEMMA MoreMoves ==
    ASSUME NEW M, NEW N, M \subseteq N
    PROVE  /\ Versions(M) \subseteq Versions(N) /\ Real(M) \subseteq Real(N)
           /\ Items(M) \subseteq Items(N) /\ Seq(Items(M)) \subseteq Seq(Items(N))
           /\ Batches(M) \subseteq Batches(N)
           /\ Tasks(M) \subseteq Tasks(N) /\ Bursts(M) \subseteq Bursts(N)
<1>1. Bodies(M) \subseteq Bodies(N)
    BY DEF Bodies
<1>2. Versions(M) \subseteq Versions(N)
    BY <1>1, SeqGrows DEF Versions
<1>3. Real(M) \subseteq Real(N)
    BY <1>2 DEF Real
<1>4. Items(M) \subseteq Items(N)
    BY <1>3 DEF Items
<1>5. Seq(Items(M)) \subseteq Seq(Items(N))
    BY <1>4, SeqGrows
<1>6. Batches(M) \subseteq Batches(N)
    BY <1>5 DEF Batches
<1>7. Seq(Batches(M)) \subseteq Seq(Batches(N))
    BY <1>6, SeqGrows
<1>8. Tasks(M) \subseteq Tasks(N)
    BY <1>2, <1>5, <1>7 DEF Tasks
<1>9. Bursts(M) \subseteq Bursts(N)
    BY <1>3 DEF Bursts
<1> QED
    BY <1>2, <1>3, <1>4, <1>5, <1>6, <1>8, <1>9

\* A version that is appended to.
LEMMA Grown ==
    ASSUME NEW S, NEW v \in Seq(S), NEW e \in S
    PROVE  /\ Append(v, e) \in Seq(S) /\ Append(v, e) # Gone
           /\ Newest(Append(v, e)) = e /\ Parent(Append(v, e)) = v
           /\ Len(Append(v, e)) = Len(v) + 1 /\ Len(v) \in Nat
           /\ \A i \in 1 .. Len(v) : Append(v, e)[i] = v[i]
<1>1. /\ Append(v, e) \in Seq(S) /\ Len(Append(v, e)) = Len(v) + 1 /\ Len(v) \in Nat
      /\ Append(v, e)[Len(v) + 1] = e /\ \A i \in 1 .. Len(v) : Append(v, e)[i] = v[i]
    OBVIOUS
<1>2. Len(v) + 1 - 1 = Len(v)
    BY <1>1
<1>3. SubSeq(Append(v, e), 1, Len(v)) = v
    OBVIOUS
<1> QED
    BY <1>1, <1>2, <1>3 DEF Newest, Parent, Gone

LEMMA NewestIn ==
    ASSUME NEW S, NEW v \in Seq(S), v # Gone
    PROVE  Newest(v) \in S /\ Len(v) \in DOMAIN v
BY DEF Newest, Gone

LEMMA Joined ==
    ASSUME NEW S, NEW q \in Seq(S), NEW r \in Seq(S)
    PROVE  /\ q \o r \in Seq(S) /\ Len(q \o r) = Len(q) + Len(r) /\ Len(q) \in Nat /\ Len(r) \in Nat
           /\ DOMAIN q = 1 .. Len(q) /\ DOMAIN r = 1 .. Len(r) /\ DOMAIN (q \o r) = 1 .. Len(q) + Len(r)
           /\ \A i \in 1 .. Len(q) : (q \o r)[i] = q[i]
           /\ \A i \in 1 .. Len(r) : (q \o r)[Len(q) + i] = r[i]
OBVIOUS

\* A set in some order.
LEMMA Listing ==
    ASSUME NEW S, IsFiniteSet(S)
    PROVE  /\ SetToSeq(S) \in Seq(S)
           /\ \A x \in S : \E i \in DOMAIN SetToSeq(S) : SetToSeq(S)[i] = x
           /\ \A i, j \in DOMAIN SetToSeq(S) : SetToSeq(S)[i] = SetToSeq(S)[j] => i = j
<1> DEFINE n == Cardinality(S)
           f == SetToSeq(S)
<1>1. n \in Nat /\ ExistsBijection(1 .. n, S)
    BY FS_CardinalityType
<1>2. \E g \in [1 .. n -> S] : IsInjective(g)
    BY <1>1 DEF ExistsBijection, Bijection, Injection
<1>3. f \in [1 .. n -> S] /\ IsInjective(f)
    BY <1>2 DEF SetToSeq
<1>4. f \in Surjection(1 .. n, S)
    <2>1. f \in Injection(1 .. n, S)
        BY <1>3 DEF Injection
    <2>2. Cardinality(1 .. n) = n
        BY <1>1, FS_Interval
    <2> QED
        BY <2>1, <2>2, FS_Injection
<1> HIDE DEF n, f
<1>5. f \in Seq(S)
    BY <1>1, <1>3
<1> QED
    BY <1>3, <1>4, <1>5 DEF f, Surjection, IsInjective

\* Items of different cards.
Separate(items) == \A i, j \in DOMAIN items : items[i].id = items[j].id => i = j

\* The versions a burst becomes: one of each card it has moved, on top of what the card
\* was before.
BuiltOn(burst, id, at) ==
    Append(burst.bases[id], [Newest(burst.bases[id]) EXCEPT !.move = burst.move, !.at = at])

LEMMA BuildVersions ==
    ASSUME NEW M, NEW burst \in Bursts(M), NEW at \in {"list", "push"}
    PROVE  LET built == build_versions(burst, at)
           IN  /\ built \in Batches(M \cup {burst.move}) /\ Separate(built)
               /\ CardsIn(built) = DOMAIN burst.bases
               /\ \A i \in DOMAIN built : built[i].version = BuiltOn(burst, built[i].id, at)
<1> DEFINE N == M \cup {burst.move}
           S == DOMAIN burst.bases
           B(id) == Item(id, BuiltOn(burst, id, at))
           rest == {B(id) : id \in S \ {burst.card}}
           seq == SetToSeq(rest)
           first == <<B(burst.card)>>
           built == build_versions(burst, at)
<1>1. /\ S \subseteq Ids /\ burst.card \in S
      /\ \A id \in S : burst.bases[id] \in Seq(Bodies(M)) /\ burst.bases[id] # Gone
    BY DEF Bursts, Real, Versions
<1>2. \A id \in S : B(id) \in Items(N) /\ B(id).id = id /\ B(id).version = BuiltOn(burst, id, at)
    <2> SUFFICES ASSUME NEW id \in S
                 PROVE  B(id) \in Items(N) /\ B(id).id = id /\ B(id).version = BuiltOn(burst, id, at)
        OBVIOUS
    <2> DEFINE v == burst.bases[id]
               e == [Newest(v) EXCEPT !.move = burst.move, !.at = at]
    <2>1. Newest(v) \in Bodies(M)
        BY <1>1, NewestIn
    <2>2. e \in Bodies(N)
        BY <2>1 DEF Bodies
    <2>3. Bodies(M) \subseteq Bodies(N)
        BY DEF Bodies
    <2>4. v \in Seq(Bodies(N))
        <3>1. Seq(Bodies(M)) \subseteq Seq(Bodies(N))
            BY <2>3, SeqGrows
        <3> QED
            BY <1>1, <3>1
    <2> HIDE DEF v, e
    <2>5. Append(v, e) \in Seq(Bodies(N)) /\ Append(v, e) # Gone
        BY <2>2, <2>4, Grown
    <2>6. BuiltOn(burst, id, at) \in Real(N)
        BY <2>5 DEF BuiltOn, Real, Versions, v, e
    <2> QED
        BY <2>6, <1>1 DEF Item, Items
<1>3. built = first \o seq
    BY DEF build_versions, BuiltOn
<1> HIDE DEF B
<1>4. IsFiniteSet(rest)
    <2>1. IsFiniteSet(S \ {burst.card})
        BY <1>1, FewCards, FS_Subset
    <2>2. [id \in S \ {burst.card} |-> B(id)] \in Surjection(S \ {burst.card}, rest)
        BY DEF Surjection
    <2> QED
        BY <2>1, <2>2, FS_Surjection
<1>5. rest \subseteq Items(N)
    BY <1>2
<1> HIDE DEF rest
<1>6. /\ seq \in Seq(rest)
      /\ \A x \in rest : \E i \in DOMAIN seq : seq[i] = x
      /\ \A i, j \in DOMAIN seq : seq[i] = seq[j] => i = j
    BY <1>4, Listing
<1> HIDE DEF seq
<1>7. seq \in Seq(Items(N))
    BY <1>5, <1>6, SeqGrows
<1>8. \A i \in DOMAIN seq : \E id \in S \ {burst.card} : seq[i] = B(id)
    BY <1>6 DEF rest
<1>9. \A id \in S \ {burst.card} : \E i \in DOMAIN seq : seq[i] = B(id)
    BY <1>6 DEF rest
<1>10. first \in Seq(Items(N)) /\ Len(first) = 1 /\ first[1] = B(burst.card)
    <2>1. B(burst.card) \in Items(N)
        BY <1>1, <1>2
    <2> HIDE DEF N
    <2> QED
        BY <2>1
<1> HIDE DEF first, built
<1>11. /\ built \in Seq(Items(N)) /\ Len(built) = 1 + Len(seq) /\ Len(seq) \in Nat
       /\ DOMAIN built = 1 .. 1 + Len(seq) /\ DOMAIN seq = 1 .. Len(seq)
       /\ built[1] = B(burst.card)
       /\ \A i \in 1 .. Len(seq) : built[1 + i] = seq[i]
    <2> HIDE DEF N
    <2>1. /\ first \o seq \in Seq(Items(N)) /\ Len(first \o seq) = Len(first) + Len(seq)
          /\ Len(seq) \in Nat /\ DOMAIN seq = 1 .. Len(seq)
          /\ DOMAIN (first \o seq) = 1 .. Len(first) + Len(seq)
          /\ \A i \in 1 .. Len(first) : (first \o seq)[i] = first[i]
          /\ \A i \in 1 .. Len(seq) : (first \o seq)[Len(first) + i] = seq[i]
        <3> DEFINE A == Items(N)
        <3>1. first \in Seq(A) /\ seq \in Seq(A)
            BY <1>7, <1>10
        <3> HIDE DEF A
        <3>2. \A q, r \in Seq(A) :
                  /\ q \o r \in Seq(A) /\ Len(q \o r) = Len(q) + Len(r)
                  /\ Len(r) \in Nat /\ DOMAIN r = 1 .. Len(r)
                  /\ DOMAIN (q \o r) = 1 .. Len(q) + Len(r)
                  /\ \A i \in 1 .. Len(q) : (q \o r)[i] = q[i]
                  /\ \A i \in 1 .. Len(r) : (q \o r)[Len(q) + i] = r[i]
            BY Joined
        <3> QED
            BY <3>1, <3>2, Zenon DEF A
    <2>2. 1 \in 1 .. Len(first)
        BY <1>10
    <2>3. (first \o seq)[1] = B(burst.card)
        BY <1>10, <2>1, <2>2
    <2>4. Len(first) = 1
        BY <1>10
    <2> QED
        BY <1>3, <2>1, <2>3, <2>4, Zenon
<1>12. \A i \in DOMAIN built : i = 1 \/ (i - 1 \in DOMAIN seq /\ built[i] = seq[i - 1])
    <2> SUFFICES ASSUME NEW i \in DOMAIN built, i # 1
                 PROVE  i - 1 \in DOMAIN seq /\ built[i] = seq[i - 1]
        OBVIOUS
    <2>1. i - 1 \in 1 .. Len(seq) /\ 1 + (i - 1) = i
        BY <1>11
    <2> QED
        BY <2>1, <1>11
<1>13. \A i \in DOMAIN built : \E id \in S : built[i] = B(id) /\ (i = 1 <=> id = burst.card)
    BY <1>8, <1>11, <1>12, <1>1
<1>14. \A i \in DOMAIN built : built[i].id \in S /\ built[i] = B(built[i].id)
                               /\ (i = 1 <=> built[i].id = burst.card)
    BY <1>13, <1>2
<1>15. Separate(built)
    <2> SUFFICES ASSUME NEW i \in DOMAIN built, NEW j \in DOMAIN built, built[i].id = built[j].id
                 PROVE  i = j
        BY DEF Separate
    <2>1. built[i] = built[j] /\ (i = 1 <=> j = 1)
        BY <1>14
    <2>2. CASE i # 1 /\ j # 1
        <3>1. i - 1 \in DOMAIN seq /\ j - 1 \in DOMAIN seq /\ seq[i - 1] = seq[j - 1]
            BY <2>1, <2>2, <1>12
        <3>2. i - 1 = j - 1
            BY <3>1, <1>6
        <3> QED
            BY <3>2, <1>11
    <2> QED
        BY <2>1, <2>2
<1>16. CardsIn(built) = S
    <2>1. \A id \in S : \E i \in DOMAIN built : built[i].id = id
        <3> TAKE id \in S
        <3>1. CASE id = burst.card
            BY <3>1, <1>11, <1>2
        <3>2. CASE id # burst.card
            <4>1. PICK i \in DOMAIN seq : seq[i] = B(id)
                BY <3>2, <1>9
            <4>2. 1 + i \in DOMAIN built /\ built[1 + i] = B(id)
                BY <4>1, <1>11
            <4> QED
                BY <4>2, <1>2
        <3> QED
            BY <3>1, <3>2
    <2> QED
        BY <2>1, <1>14 DEF CardsIn
<1>17. built \in Batches(N)
    BY <1>11 DEF Batches
<1>18. \A i \in DOMAIN built : built[i].version = BuiltOn(burst, built[i].id, at)
    BY <1>14, <1>2
<1> QED
    BY <1>15, <1>16, <1>17, <1>18 DEF built

LEMMA PutIs ==
    ASSUME NEW seen, DOMAIN seen = Ids, NEW items
    PROVE  /\ DOMAIN Put(seen, items) = Ids
           /\ \A id \in Ids \ CardsIn(items) : Put(seen, items)[id] = seen[id]
           /\ \A id \in Ids \cap CardsIn(items) :
                 \E i \in DOMAIN items : items[i].id = id /\ Put(seen, items)[id] = items[i].version
<1>1. DOMAIN Put(seen, items) = Ids
    BY DEF Put
<1>2. \A id \in Ids : Put(seen, items)[id] = IF id \in CardsIn(items) THEN VersionIn(items, id) ELSE seen[id]
    BY DEF Put
<1>3. \A id \in CardsIn(items) :
          \E i \in DOMAIN items : items[i].id = id /\ VersionIn(items, id) = items[i].version
    <2> SUFFICES ASSUME NEW id \in CardsIn(items)
                 PROVE  \E i \in DOMAIN items : items[i].id = id /\ VersionIn(items, id) = items[i].version
        OBVIOUS
    <2>1. \E i \in DOMAIN items : items[i].id = id
        BY DEF CardsIn
    <2> DEFINE k == CHOOSE i \in DOMAIN items : items[i].id = id
    <2>2. k \in DOMAIN items /\ items[k].id = id
        BY <2>1
    <2>3. VersionIn(items, id) = items[k].version
        BY DEF VersionIn
    <2> QED
        BY <2>2, <2>3
<1> QED
    BY <1>1, <1>2, <1>3

LEMMA DropIs ==
    ASSUME NEW S, NEW queue \in Seq(S), NEW items
    PROVE  /\ Drop(queue, items) \in Seq(S)
           /\ EntriesOf(Drop(queue, items)) = {c \in EntriesOf(queue) : c.id \notin CardsIn(items)}
<1> DEFINE places == {i \in DOMAIN queue : queue[i].id \notin CardsIn(items)}
<1>1. {queue[i] : i \in DOMAIN queue \cap places} = {c \in EntriesOf(queue) : c.id \notin CardsIn(items)}
    BY DEF EntriesOf
<1> QED
    BY <1>1, RetainedEntries DEF Drop

LEMMA QueueIs ==
    ASSUME NEW S, NEW queue \in Seq(S), NEW items \in Seq(S)
    PROVE  /\ Queue(queue, items) \in Seq(S)
           /\ EntriesOf(Queue(queue, items)) \subseteq EntriesOf(queue) \cup EntriesOf(items)
<1>1. /\ Drop(queue, items) \in Seq(S)
      /\ EntriesOf(Drop(queue, items)) \subseteq EntriesOf(queue)
    BY DropIs
<1> QED
    BY <1>1, ConcatEntries DEF Queue

LEMMA QueueAllIs ==
    ASSUME NEW S, NEW queue \in Seq(S), NEW all \in Seq(Seq(S))
    PROVE  QueueAll(queue, all) \in Seq(S)
<1> DEFINE A == Seq(S)
           N == Len(all)
           after(f) == [n \in 0 .. N |-> IF n = 0 THEN queue ELSE Queue(f[n - 1], all[n])]
           F == CHOOSE f : f = after(f)
           step == [p \in A \X (1 .. N) |-> Queue(p[1], all[p[2]])]
<1>1. N \in Nat /\ \A n \in 1 .. N : all[n] \in A
    OBVIOUS
<1>2. \A s \in A : \A n \in 1 .. N : Queue(s, all[n]) \in A
    BY <1>1, QueueIs
<1>3. QueueAll(queue, all) = F[N]
    BY DEF QueueAll
<1>4. queue \in A
    OBVIOUS
<1> HIDE DEF A, N
<1>5. step \in [A \X (1 .. N) -> A]
    BY <1>2
<1>6. \A s \in A, n \in 1 .. N : step[<<s, n>>] = Queue(s, all[n])
    OBVIOUS
<1> HIDE DEF step
<1>7. PICK f \in [0 .. N -> A] : Loop(f, N, queue, step)
    BY <1>1, <1>4, <1>5, LoopRuns
<1>8. \A n \in 1 .. N : n - 1 \in 0 .. N /\ f[n - 1] \in A
    BY <1>1
<1>9. f = after(f)
    <2>1. \A n \in 0 .. N : n = 0 \/ n \in 1 .. N
        BY <1>1
    <2>2. \A n \in 0 .. N : f[n] = after(f)[n]
        BY <2>1, <1>6, <1>7, <1>8 DEF Loop
    <2> QED
        BY <2>2
<1> HIDE DEF after
<1>10. F = after(F)
    BY <1>9
<1> HIDE DEF F
<1>11. \A n \in 0 .. N : F[n] = IF n = 0 THEN queue ELSE Queue(F[n - 1], all[n])
    BY <1>10 DEF after
<1>12. \A n \in 0 .. N : F[n] \in A
    <2> DEFINE Bad == {n \in 0 .. N : F[n] \notin A}
    <2> SUFFICES ASSUME Bad # {} PROVE FALSE
        OBVIOUS
    <2>1. Bad \in SUBSET Nat
        BY <1>1
    <2> HIDE DEF Bad
    <2>2. PICK n \in Bad : \A k \in Bad : n <= k
        BY <2>1, LeastNumber
    <2> USE DEF Bad
    <2>3. n # 0 /\ n \in 0 .. N
        BY <2>2, <1>11, <1>4
    <2>4. n \in 1 .. N /\ n - 1 \in 0 .. N /\ n - 1 \notin Bad
        BY <2>2, <2>3, <1>1
    <2> QED
        BY <2>2, <2>3, <2>4, <1>2, <1>11
<1>13. N \in 0 .. N
    BY <1>1
<1> QED
    BY <1>3, <1>12, <1>13 DEF A

LEMMA TaskParts ==
    ASSUME NEW M, NEW rec \in Tasks(M)
    PROVE  /\ rec.todo \in Seq(Batches(M)) /\ rec.retry \in Seq(Items(M)) /\ rec.current \in Versions(M)
           /\ rec = [todo |-> rec.todo, retry |-> rec.retry, reply |-> rec.reply, current |-> rec.current]
           /\ rec.reply \in {"none", "waiting", "Ok", "AncestorMismatch", "AlreadyDeleted", "Lost"}
           /\ rec # IdlePush => rec.todo # << >>
BY DEF Tasks

LEMMA NoEntries == ASSUME NEW S PROVE << >> \in Seq(S)
OBVIOUS

LEMMA NewTask ==
    ASSUME NEW M, NEW all \in Seq(Batches(M)), all # << >>,
           NEW retry \in Seq(Items(M)), NEW current \in Versions(M),
           NEW reply \in {"none", "waiting", "Ok", "AncestorMismatch", "AlreadyDeleted", "Lost"}
    PROVE  [todo |-> all, retry |-> retry, reply |-> reply, current |-> current] \in Tasks(M)
BY DEF Tasks

LEMMA IdleTask == \A M : IdlePush \in Tasks(M)
<1> TAKE M
<1>1. << >> \in Seq(Batches(M)) /\ << >> \in Seq(Items(M)) /\ << >> \in Versions(M)
    BY NoEntries DEF Versions
<1> QED
    BY <1>1 DEF Tasks, IdlePush

LEMMA ContinueTypes ==
    ASSUME NEW M, push \in [Slots -> Tasks(M)], NEW t \in Slots,
           NEW all \in Seq(Batches(M)), NEW queue \in Seq(Items(M)), Continue(t, all, queue)
    PROVE  push' \in [Slots -> Tasks(M)] /\ offline_queue' \in Seq(Items(M))
<1>1. CASE all = << >> \/ client # "live"
    <2>1. push' = [push EXCEPT ![t] = IdlePush] /\ offline_queue' = QueueAll(queue, all)
        BY <1>1 DEF Continue
    <2>2. all \in Seq(Seq(Items(M)))
        <3>1. Batches(M) \subseteq Seq(Items(M))
            BY DEF Batches
        <3>2. Seq(Batches(M)) \subseteq Seq(Seq(Items(M)))
            BY <3>1, SeqGrows
        <3> QED
            BY <3>2
    <2>3. offline_queue' \in Seq(Items(M))
        BY <2>1, <2>2, QueueAllIs
    <2>4. IdlePush \in Tasks(M)
        BY IdleTask
    <2>5. push' \in [Slots -> Tasks(M)]
        BY <2>1, <2>4
    <2> QED
        BY <2>3, <2>5
<1>2. CASE ~(all = << >> \/ client # "live")
    <2>1. push' = [push EXCEPT ![t] = Waiting(all, << >>)] /\ offline_queue' = queue
        BY <1>2 DEF Continue
    <2>2. << >> \in Seq(Items(M)) /\ << >> \in Versions(M)
        BY NoEntries DEF Versions
    <2>3. Waiting(all, << >>) \in Tasks(M)
        BY <2>2, <1>2, NewTask DEF Waiting
    <2> QED
        BY <2>1, <2>3
<1> QED
    BY <1>1, <1>2

LEMMA SpawnTypes ==
    ASSUME NEW M, push \in [Slots -> Tasks(M)],
           NEW all \in Seq(Batches(M)), NEW queue \in Seq(Items(M)), Spawn(all, queue)
    PROVE  push' \in [Slots -> Tasks(M)] /\ offline_queue' \in Seq(Items(M))
<1>1. CASE all = << >>
    BY <1>1 DEF Spawn
<1>2. CASE all # << >>
    <2> DEFINE t == CHOOSE t \in Free : \A u \in Free : t <= u
    <2>1. Free \subseteq Slots /\ Free # {} /\ Slots \subseteq Nat
        BY <1>2 DEF Spawn, Free, Slots
    <2>2. \E n \in Free : \A u \in Free : n <= u
        BY <2>1, LeastNumber
    <2>3. t \in Free
        BY <2>2
    <2>4. Continue(t, all, queue)
        BY <1>2 DEF Spawn
    <2> HIDE DEF t
    <2> QED
        BY <2>1, <2>3, <2>4, ContinueTypes
<1> QED
    BY <1>1, <1>2

\* What a burst is pushed as when it ends.
LEMMA TakenIs ==
    ASSUME MovesInv
    PROVE  /\ pending_priority.move \in Nat /\ DOMAIN pending_priority.bases \subseteq Ids
           /\ Taken \in Seq(Batches(flushed \cup {pending_priority.move}))
           /\ flushed \cup {pending_priority.move} \subseteq Nat
           /\ \A id \in Ids : cards[id] \in Versions(flushed \cup {pending_priority.move})
           /\ ~Burst => DOMAIN pending_priority.bases = {} /\ Taken = << >>
           /\ Taken = << >> => ~Burst
<1> DEFINE N == flushed \cup {pending_priority.move}
<1>1. ~Burst => pending_priority.move = 0 /\ pending_priority.bases = << >>
    BY DEF Burst, NoBurst
<1>2. Burst => pending_priority \in Bursts(flushed)
    BY DEF MovesInv, Burst
<1>3. pending_priority.move \in Nat /\ DOMAIN pending_priority.bases \subseteq Ids
    BY <1>1, <1>2 DEF Bursts
<1>4. \A id \in Ids : cards[id] \in Versions(N)
    <2> SUFFICES ASSUME NEW id \in Ids PROVE cards[id] \in Versions(N)
        OBVIOUS
    <2>1. flushed \cup Pending(id) \subseteq N
        BY DEF Pending
    <2>2. Versions(flushed \cup Pending(id)) \subseteq Versions(N)
        BY <2>1, MoreMoves
    <2> QED
        BY <2>2 DEF MovesInv
<1>5. Taken \in Seq(Batches(N))
    <2>1. CASE Burst
        <3>1. build_versions(pending_priority, "push") \in Batches(N)
            BY <2>1, <1>2, BuildVersions
        <3> DEFINE A == Batches(N)
                   b == build_versions(pending_priority, "push")
        <3>2. b \in A /\ Taken = <<b>>
            BY <3>1, <2>1 DEF Taken
        <3> HIDE DEF A, b
        <3>3. Taken \in Seq(A)
            BY <3>2
        <3> QED
            BY <3>3 DEF A
    <2>2. CASE ~Burst
        BY <2>2, NoEntries DEF Taken
    <2> QED
        BY <2>1, <2>2
<1>6. (~Burst => DOMAIN pending_priority.bases = {} /\ Taken = << >>) /\ (Taken = << >> => ~Burst)
    BY <1>1 DEF Taken
<1>7. flushed \cup {pending_priority.move} \subseteq Nat
    BY <1>3 DEF MovesInv
<1> HIDE DEF MovesInv
<1> QED
    BY <1>3, <1>4, <1>5, <1>6, <1>7, Zenon

LEMMA ApplyMove ==
    ASSUME NEW M, NEW burst \in Bursts(M), NEW move \in Nat, NEW shifted \in SUBSET Ids,
           \A s \in shifted \ DOMAIN burst.bases : cards[s] \in Real(M)
    PROVE  LET new == apply_move(burst, move, shifted)
           IN  /\ new \in Bursts(M) /\ new.move = move /\ new.card = burst.card
               /\ DOMAIN new.bases = DOMAIN burst.bases \cup shifted
               /\ \A id \in DOMAIN burst.bases : new.bases[id] = burst.bases[id]
               /\ \A id \in shifted \ DOMAIN burst.bases : new.bases[id] = cards[id]
<1> DEFINE D == DOMAIN burst.bases
           bases == [id \in D \cup shifted |-> IF id \in D THEN burst.bases[id] ELSE cards[id]]
<1>1. /\ burst = [card |-> burst.card, bases |-> burst.bases, move |-> burst.move]
      /\ burst.card \in D /\ D \subseteq Ids /\ \A id \in D : burst.bases[id] \in Real(M)
    BY DEF Bursts
<1>0. apply_move(burst, move, shifted) = [burst EXCEPT !.move = move, !.bases = bases]
    BY Zenon DEF apply_move
<1>3. bases \in [D \cup shifted -> Real(M)]
    BY <1>1
<1>4. DOMAIN bases = D \cup shifted /\ (\A id \in D : bases[id] = burst.bases[id])
      /\ \A id \in shifted \ D : bases[id] = cards[id]
    OBVIOUS
<1> HIDE DEF bases
<1>2. apply_move(burst, move, shifted) = [card |-> burst.card, bases |-> bases, move |-> move]
    <2>1. \E c, b, m : burst = [card |-> c, bases |-> b, move |-> m]
        BY <1>1
    <2> QED
        BY <1>0, <2>1
<1>5. [card |-> burst.card, bases |-> bases, move |-> move] \in Bursts(M)
    <2>1. D \cup shifted \in SUBSET Ids
        BY <1>1
    <2>2. bases \in UNION {[S -> Real(M)] : S \in SUBSET Ids}
        BY <2>1, <1>3
    <2>3. burst.card \in Ids /\ burst.card \in DOMAIN bases
        BY <1>1, <1>4
    <2> QED
        BY <2>2, <2>3 DEF Bursts
<1> QED
    BY <1>2, <1>4, <1>5

LEMMA Wider ==
    ASSUME MovesInv, NEW N, flushed \subseteq N
    PROVE  /\ chain \in [Ids -> Versions(N)] /\ offline_queue \in Seq(Items(N))
           /\ push \in [Slots -> Tasks(N)] /\ flushing \in Tasks(N)
           /\ pending_priority \in Bursts(flushed) => pending_priority \in Bursts(N)
<1>1. /\ Versions(flushed) \subseteq Versions(N) /\ Seq(Items(flushed)) \subseteq Seq(Items(N))
      /\ Tasks(flushed) \subseteq Tasks(N) /\ Bursts(flushed) \subseteq Bursts(N)
    BY MoreMoves
<1> QED
    BY <1>1 DEF MovesInv

LEMMA PutTypes ==
    ASSUME NEW M, NEW seen \in [Ids -> Versions(M)], NEW items \in Seq(Items(M))
    PROVE  Put(seen, items) \in [Ids -> Versions(M)]
<1>1. \A i \in DOMAIN items : items[i].version \in Versions(M)
    <2>1. \A i \in DOMAIN items : items[i] \in Items(M)
        OBVIOUS
    <2> QED
        BY <2>1 DEF Items, Real
<1>2. DOMAIN seen = Ids /\ \A id \in Ids : seen[id] \in Versions(M)
    OBVIOUS
<1>3. DOMAIN Put(seen, items) = Ids /\ \A id \in Ids : Put(seen, items)[id] \in Versions(M)
    BY <1>1, <1>2, PutIs
<1>4. Put(seen, items) = [id \in Ids |-> Put(seen, items)[id]]
    BY <1>2 DEF Put
<1> QED
    BY <1>3, <1>4

\* The list after versions of moves whose bursts have ended were put into it.
LEMMA ShownTypes ==
    ASSUME MovesInv, NEW items \in Seq(Items(flushed))
    PROVE  /\ DOMAIN Put(cards, items) = Ids
           /\ \A id \in Ids : Put(cards, items)[id] \in Versions(flushed \cup Pending(id))
<1>1. \A i \in DOMAIN items : items[i].version \in Versions(flushed)
    <2>1. \A i \in DOMAIN items : items[i] \in Items(flushed)
        OBVIOUS
    <2> QED
        BY <2>1 DEF Items, Real
<1>2. DOMAIN cards = Ids /\ \A id \in Ids : cards[id] \in Versions(flushed \cup Pending(id))
    BY DEF MovesInv
<1>3. \A id \in Ids : Versions(flushed) \subseteq Versions(flushed \cup Pending(id))
    <2> TAKE id \in Ids
    <2>1. flushed \subseteq flushed \cup Pending(id)
        OBVIOUS
    <2> QED
        BY <2>1, MoreMoves
<1> QED
    BY <1>1, <1>2, <1>3, PutIs

LEMMA FlushTypes ==
    ASSUME MovesInv, flush \/ flush_blocking
    PROVE  MovesInv'
<1> DEFINE N == flushed \cup {pending_priority.move}
<1>1. /\ Burst /\ pending_priority' = NoBurst /\ flushed' = N
      /\ UNCHANGED <<chain, deleted, unsynced, cards, flushing, moves, edits, losses>>
    BY DEF flush, flush_blocking, TakeBurst, serverVars, tallies
<1>2. /\ Taken \in Seq(Batches(N)) /\ N \subseteq Nat
      /\ \A id \in Ids : cards[id] \in Versions(N)
    BY TakenIs
<1> HIDE DEF N
<1>3. flushed \subseteq N
    BY DEF N
<1>4. /\ chain \in [Ids -> Versions(N)] /\ offline_queue \in Seq(Items(N))
      /\ push \in [Slots -> Tasks(N)] /\ flushing \in Tasks(N)
    BY <1>3, Wider
<1>5. push' \in [Slots -> Tasks(N)] /\ offline_queue' \in Seq(Items(N))
    <2>1. CASE flush
        <3>1. Spawn(Taken, offline_queue)
            BY <2>1 DEF flush
        <3> QED
            BY <3>1, <1>2, <1>4, SpawnTypes
    <2>2. CASE flush_blocking
        <3> DEFINE built == build_versions(pending_priority, "push")
        <3>1. Spawn(<<built>>, Queue(offline_queue, built))
            BY <2>2 DEF flush_blocking
        <3>2. Taken = <<built>>
            BY <1>1 DEF Taken
        <3> HIDE DEF built
        <3>3. built \in Batches(N) /\ <<built>> \in Seq(Batches(N))
            <4> DEFINE A == Batches(N)
            <4>1. <<built>> \in Seq(A)
                BY <3>2, <1>2
            <4> HIDE DEF A
            <4>2. built \in A
                BY <4>1
            <4> QED
                BY <4>1, <4>2 DEF A
        <3>4. Queue(offline_queue, built) \in Seq(Items(N))
            <4>1. built \in Seq(Items(N))
                BY <3>3 DEF Batches
            <4> QED
                BY <4>1, <1>4, QueueIs
        <3> QED
            BY <3>1, <3>3, <3>4, <1>4, SpawnTypes
    <2> QED
        BY <2>1, <2>2
<1>6. \A id \in Ids : N \cup Pending(id)' = N
    BY <1>1 DEF Pending, NoBurst
<1>7. DOMAIN cards = Ids
    BY DEF MovesInv
<1> QED
    BY <1>1, <1>2, <1>3, <1>4, <1>5, <1>6, <1>7 DEF MovesInv

LEMMA SeqOne ==
    ASSUME NEW A, NEW x \in A
    PROVE  <<x>> \in Seq(A) /\ <<x>> # << >>
OBVIOUS

\* The burst a move starts or goes on with, the items that are pushed when it does, and
\* the moves that have ended then.
Continues(id) == Burst /\ pending_priority.card = id
OnHand(id)    == IF Continues(id) THEN pending_priority ELSE Fresh(id)
BurstOf(id, shifted) == apply_move(OnHand(id), moves + 1, shifted)
Other(id)     == IF Continues(id) THEN << >> ELSE Taken
Now(burst)    == IF priority_debounce_enabled THEN << >> ELSE <<build_versions(burst, "push")>>
Ended(id)     == flushed \cup (IF Other(id) = << >> THEN {} ELSE {pending_priority.move})

LEMMA EnqueueIs ==
    ASSUME NEW id \in Ids, NEW shifted \in SUBSET Ids, enqueue_move(id, shifted)
    PROVE  LET burst == BurstOf(id, shifted) IN
           /\ cards' = Put(cards, build_versions(burst, "list"))
           /\ pending_priority' = IF priority_debounce_enabled THEN burst ELSE NoBurst
           /\ Spawn(Other(id) \o Now(burst), offline_queue)
           /\ flushed' = Ended(id) \cup (IF Now(burst) = << >> THEN {} ELSE {moves + 1})
BY DEF enqueue_move, Continues, OnHand, BurstOf, Other, Now, Ended

LEMMA NewBurst ==
    ASSUME MovesInv, NEW id \in Ids, NEW shifted \in SUBSET Ids, cards[id] # Gone,
           \A s \in shifted : cards[s] # Gone
    PROVE  LET burst == BurstOf(id, shifted) IN
           /\ burst \in Bursts(Ended(id)) /\ burst.move = moves + 1
           /\ Continues(id) => DOMAIN pending_priority.bases \subseteq DOMAIN burst.bases
           /\ \A c \in Ids : cards[c] \in Versions(Ended(id))
                             \/ (Continues(id) /\ c \in DOMAIN pending_priority.bases)
           /\ \A c \in DOMAIN burst.bases : burst.bases[c] = cards[c]
                   \/ (Continues(id) /\ c \in DOMAIN pending_priority.bases
                        /\ burst.bases[c] = pending_priority.bases[c])
           /\ flushed \subseteq Ended(id) /\ Ended(id) \subseteq Nat
<1> DEFINE old == OnHand(id)
           F   == Ended(id)
<1>1. flushed \subseteq F /\ F \subseteq Nat
    <2>1. flushed \subseteq Nat /\ pending_priority.move \in Nat
        BY TakenIs DEF MovesInv
    <2> QED
        BY <2>1 DEF Ended
<1>2. \A c \in Ids : cards[c] \in Versions(F) \/ (Continues(id) /\ c \in DOMAIN pending_priority.bases)
    <2>1. SUFFICES ASSUME NEW c \in Ids, ~(Continues(id) /\ c \in DOMAIN pending_priority.bases)
                   PROVE  cards[c] \in Versions(F)
        BY DEF MovesInv
    <2>2. flushed \cup Pending(c) \subseteq F
        BY <2>1, TakenIs DEF Pending, Ended, Other
    <2>3. cards[c] \in Versions(flushed \cup Pending(c))
        BY DEF MovesInv
    <2> HIDE DEF F
    <2> QED
        BY <2>2, <2>3, MoreMoves
<1> HIDE DEF F
<1>3. /\ old \in Bursts(F)
      /\ IF Continues(id) THEN old = pending_priority
         ELSE DOMAIN old.bases = {id} /\ old.bases[id] = cards[id]
    <2>1. CASE Continues(id)
        <3>1. old = pending_priority /\ old \in Bursts(flushed)
            BY <2>1 DEF MovesInv, Continues, Burst, OnHand
        <3>2. Bursts(flushed) \subseteq Bursts(F)
            BY <1>1, MoreMoves
        <3> QED
            BY <3>1, <3>2, <2>1
    <2>2. CASE ~Continues(id)
        <3> DEFINE one == [c \in {id} |-> cards[id]]
        <3>1. old = [card |-> id, bases |-> one, move |-> 0]
            BY <2>2 DEF OnHand, Fresh
        <3>2. cards[id] \in Real(F)
            BY <2>2, <1>2 DEF Real
        <3>3. one \in [{id} -> Real(F)] /\ {id} \in SUBSET Ids /\ DOMAIN one = {id} /\ one[id] = cards[id]
            BY <3>2
        <3>4. one \in UNION {[S -> Real(F)] : S \in SUBSET Ids}
            BY <3>3
        <3> HIDE DEF one, old
        <3> QED
            BY <3>1, <3>3, <3>4, <2>2 DEF Bursts
    <2> QED
        BY <2>1, <2>2
<1> HIDE DEF old
<1>4. \A s \in shifted \ DOMAIN old.bases : cards[s] \in Real(F)
    BY <1>2, <1>3 DEF Real
<1> DEFINE burst == BurstOf(id, shifted)
           move  == moves + 1
<1>5. burst = apply_move(old, move, shifted) /\ move \in Nat
    BY DEF BurstOf, old, MovesInv
<1> HIDE DEF burst, move
<1>6. /\ burst \in Bursts(F) /\ burst.move = move
      /\ DOMAIN burst.bases = DOMAIN old.bases \cup shifted
      /\ \A c \in DOMAIN old.bases : burst.bases[c] = old.bases[c]
      /\ \A c \in shifted \ DOMAIN old.bases : burst.bases[c] = cards[c]
    BY <1>3, <1>4, <1>5, ApplyMove
<1>7. Continues(id) => DOMAIN pending_priority.bases \subseteq DOMAIN burst.bases
    BY <1>3, <1>6
<1>8. \A c \in DOMAIN burst.bases : burst.bases[c] = cards[c]
          \/ (Continues(id) /\ c \in DOMAIN pending_priority.bases
               /\ burst.bases[c] = pending_priority.bases[c])
    BY <1>3, <1>6
<1> QED
    BY <1>1, <1>2, <1>6, <1>7, <1>8 DEF burst, move, F

\* It is pushed from there, and what the list shows is part of it.
LEMMA EnqueueTypes ==
    ASSUME MovesInv, NEW id \in Ids, NEW shifted \in SUBSET Ids, cards[id] # Gone,
           \A s \in shifted : cards[s] # Gone,
           enqueue_move(id, shifted),
           UNCHANGED <<chain, deleted, unsynced, flushing, edits, losses>>, moves' = moves + 1
    PROVE  MovesInv'
<1> DEFINE burst == BurstOf(id, shifted)
           move  == moves + 1
           other == Other(id)
           now   == Now(burst)
           F     == Ended(id)
           N     == F \cup (IF now = << >> THEN {} ELSE {move})
           L     == F \cup {move}
<1>1. /\ cards' = Put(cards, build_versions(burst, "list"))
      /\ pending_priority' = IF priority_debounce_enabled THEN burst ELSE NoBurst
      /\ Spawn(other \o now, offline_queue)
      /\ flushed' = N
    BY EnqueueIs
<1>2. move \in Nat /\ moves \in Nat /\ DOMAIN cards = Ids
    BY DEF MovesInv
<1>3. /\ burst \in Bursts(F) /\ burst.move = move
      /\ Continues(id) => DOMAIN pending_priority.bases \subseteq DOMAIN burst.bases
      /\ \A c \in Ids : cards[c] \in Versions(F) \/ (Continues(id) /\ c \in DOMAIN pending_priority.bases)
      /\ flushed \subseteq F /\ F \subseteq Nat
    BY NewBurst
<1> HIDE DEF F
<1>4. flushed \subseteq N /\ F \subseteq N /\ N \subseteq L /\ L \subseteq Nat
    BY <1>2, <1>3
<1> HIDE DEF burst, move
<1>8. \A at \in {"list", "push"} :
          /\ build_versions(burst, at) \in Batches(L)
          /\ CardsIn(build_versions(burst, at)) = DOMAIN burst.bases
    BY <1>3, BuildVersions
<1> DEFINE shown == build_versions(burst, "list")
           pushed == build_versions(burst, "push")
<1>9. shown \in Batches(L) /\ pushed \in Batches(L) /\ CardsIn(shown) = DOMAIN burst.bases
    BY <1>8
<1>10. now \in Seq(Batches(N))
    <2>1. CASE priority_debounce_enabled
        BY <2>1, NoEntries DEF Now
    <2>2. CASE ~priority_debounce_enabled
        <3>1. now = <<pushed>> /\ now # << >> /\ N = L
            BY <2>2 DEF Now
        <3> HIDE DEF now, N, pushed, L
        <3> QED
            BY <3>1, <1>9, SeqOne
    <2> QED
        BY <2>1, <2>2
<1> HIDE DEF shown, pushed, now
<1>11. other \in Seq(Batches(N))
    <2>1. CASE other = << >>
        BY <2>1, NoEntries
    <2>2. CASE other # << >>
        <3>1. other = Taken /\ flushed \cup {pending_priority.move} \subseteq N
            BY <2>2, <1>4 DEF F, Ended, Other
        <3>2. Taken \in Seq(Batches(flushed \cup {pending_priority.move}))
            BY TakenIs
        <3> HIDE DEF other, N
        <3>3. Batches(flushed \cup {pending_priority.move}) \subseteq Batches(N)
            BY <3>1, MoreMoves
        <3> QED
            BY <3>1, <3>2, <3>3, SeqGrows
    <2> QED
        BY <2>1, <2>2
<1> HIDE DEF other, N
<1>12. other \o now \in Seq(Batches(N))
    <2> DEFINE A == Batches(N)
    <2>1. other \in Seq(A) /\ now \in Seq(A)
        BY <1>10, <1>11
    <2> HIDE DEF A
    <2>2. other \o now \in Seq(A)
        BY <2>1
    <2> QED
        BY <2>2 DEF A
<1>13. /\ chain \in [Ids -> Versions(N)] /\ offline_queue \in Seq(Items(N))
       /\ push \in [Slots -> Tasks(N)] /\ flushing \in Tasks(N)
    BY <1>4, Wider
<1>14. push' \in [Slots -> Tasks(N)] /\ offline_queue' \in Seq(Items(N))
    BY <1>1, <1>12, <1>13, SpawnTypes
<1>15. \A c \in Ids : cards'[c] \in Versions(N \cup Pending(c)') /\ DOMAIN cards' = Ids
    <2> SUFFICES ASSUME NEW c \in Ids
                 PROVE  cards'[c] \in Versions(N \cup Pending(c)') /\ DOMAIN cards' = Ids
        OBVIOUS
    <2>1. DOMAIN cards' = Ids
        BY <1>1, <1>2, PutIs DEF shown
    <2>2. CASE c \in DOMAIN burst.bases
        <3>1. \E i \in DOMAIN shown : cards'[c] = shown[i].version
            BY <1>1, <1>2, <1>9, <2>2, PutIs DEF shown
        <3>2. cards'[c] \in Versions(L)
            <4>1. \A i \in DOMAIN shown : shown[i] \in Items(L)
                BY <1>9 DEF Batches
            <4> QED
                BY <3>1, <4>1 DEF Items, Real
        <3>3. L \subseteq N \cup Pending(c)'
            <4>1. CASE priority_debounce_enabled
                BY <4>1, <1>1, <1>3, <1>4, <2>2 DEF Pending, L
            <4>2. CASE ~priority_debounce_enabled
                BY <4>2, <1>4 DEF N, now, Now, L
            <4> QED
                BY <4>1, <4>2
        <3> HIDE DEF L
        <3> QED
            BY <2>1, <3>2, <3>3, MoreMoves
    <2>3. CASE c \notin DOMAIN burst.bases
        <3>1. cards'[c] = cards[c]
            BY <1>1, <1>2, <1>9, <2>3, PutIs DEF shown
        <3>2. cards[c] \in Versions(F)
            BY <1>3, <2>3
        <3>3. F \subseteq N \cup Pending(c)'
            BY <1>4
        <3> QED
            BY <2>1, <3>1, <3>2, <3>3, MoreMoves
    <2> QED
        BY <2>2, <2>3
<1>16. pending_priority' = NoBurst \/ pending_priority' \in Bursts(N)
    <2>1. Bursts(F) \subseteq Bursts(N)
        BY <1>4, MoreMoves
    <2> QED
        BY <2>1, <1>1, <1>3
<1>17. moves' \in Nat
    BY <1>2
<1>18. N \subseteq Nat /\ 0 \in N
    BY <1>4 DEF MovesInv
<1> QED
    BY <1>1, <1>13, <1>14, <1>15, <1>16, <1>17, <1>18 DEF MovesInv

LEMMA MoveTypes ==
    ASSUME MovesInv, NEW id \in Ids, NEW shifted \in SUBSET Ids, Move(id, shifted)
    PROVE  MovesInv'
<1>1. /\ cards[id] # Gone /\ \A s \in shifted : cards[s] # Gone
      /\ enqueue_move(id, shifted) /\ moves' = moves + 1
      /\ UNCHANGED <<chain, deleted, unsynced, flushing, edits, losses>>
    BY DEF Move, serverVars
<1> QED
    BY <1>1, EnqueueTypes

LEMMA EditTypes ==
    ASSUME MovesInv, NEW id \in Ids, Edit(id)
    PROVE  MovesInv'
<1> DEFINE N    == flushed \cup {pending_priority.move}
           e    == [Newest(cards[id]) EXCEPT !.edit = edits + 1, !.at = "push"]
           card == Item(id, Append(cards[id], e))
<1>1. /\ cards[id] # Gone /\ cards' = Put(cards, <<card>>) /\ Spawn(EditItems(card), offline_queue)
      /\ edits' = edits + 1 /\ pending_priority' = NoBurst /\ flushed' = N
      /\ UNCHANGED <<chain, deleted, unsynced, flushing, moves, losses>>
    BY DEF Edit, TakeBurst, serverVars
<1>2. /\ Taken \in Seq(Batches(N)) /\ N \subseteq Nat
      /\ \A c \in Ids : cards[c] \in Versions(N)
    BY TakenIs
<1>3. flushed \subseteq N /\ edits \in Nat /\ DOMAIN cards = Ids /\ 0 \in N
    BY DEF MovesInv
<1> HIDE DEF N
<1>4. /\ chain \in [Ids -> Versions(N)] /\ offline_queue \in Seq(Items(N))
      /\ push \in [Slots -> Tasks(N)] /\ flushing \in Tasks(N)
    BY <1>3, Wider
<1>5. card \in Items(N)
    <2> DEFINE v == cards[id]
    <2>1. v \in Seq(Bodies(N)) /\ v # Gone
        BY <1>1, <1>2 DEF Versions
    <2>2. Newest(v) \in Bodies(N)
        BY <2>1, NewestIn
    <2>3. e \in Bodies(N)
        <3> DEFINE b == Newest(v)
                   n == edits + 1
        <3>1. b \in Bodies(N) /\ n \in Nat /\ e = [b EXCEPT !.edit = n, !.at = "push"]
            BY <2>2, <1>3
        <3> HIDE DEF b, n, e
        <3> QED
            BY <3>1 DEF Bodies
    <2> HIDE DEF v, e
    <2>4. Append(v, e) \in Real(N)
        BY <2>1, <2>3, Grown DEF Real, Versions
    <2> QED
        BY <2>4 DEF Item, Items, v
<1> HIDE DEF card
<1>6. <<card>> \in Seq(Items(N)) /\ <<card>> \in Batches(N)
    BY <1>5, SeqOne DEF Batches
<1>7. EditItems(card) \in Seq(Batches(N))
    <2> DEFINE A == Batches(N)
               b == <<card>>
    <2>1. Taken \in Seq(A) /\ b \in A
        BY <1>2, <1>6
    <2> HIDE DEF A, b
    <2>2. Taken \o <<b>> \in Seq(A)
        BY <2>1
    <2> QED
        BY <2>2 DEF EditItems, A, b
<1>8. push' \in [Slots -> Tasks(N)] /\ offline_queue' \in Seq(Items(N))
    BY <1>1, <1>4, <1>7, SpawnTypes
<1>9. \A c \in Ids : N \cup Pending(c)' = N
    BY <1>1 DEF Pending, NoBurst
<1>10. cards' \in [Ids -> Versions(N)]
    <2> DEFINE seen == [c \in Ids |-> cards[c]]
    <2>1. seen \in [Ids -> Versions(N)]
        BY <1>2
    <2>2. Put(cards, <<card>>) = Put(seen, <<card>>)
        BY <1>3 DEF Put
    <2> HIDE DEF seen
    <2> QED
        BY <2>1, <2>2, <1>1, <1>6, PutTypes
<1>11. edits' \in Nat /\ DOMAIN cards' = Ids /\ \A c \in Ids : cards'[c] \in Versions(N)
    BY <1>1, <1>3, <1>10
<1> QED
    BY <1>1, <1>2, <1>3, <1>4, <1>8, <1>9, <1>11 DEF MovesInv

LEMMA DeleteTypes ==
    ASSUME MovesInv, NEW id \in Ids, NEW succeeds \in BOOLEAN, Delete(id, succeeds)
    PROVE  MovesInv'
<1>1. /\ edits' = edits + 1 /\ UNCHANGED <<offline_queue, push, flushing, moves, losses>>
      /\ discard_for(id)
      /\ flushed' = flushed \cup (IF Discards(id) THEN {pending_priority.move} ELSE {})
    BY DEF Delete
<1>2. \/ UNCHANGED <<chain, deleted, unsynced, cards>>
      \/ /\ chain' = [chain EXCEPT ![id] = Gone] /\ deleted' = deleted \cup {id}
         /\ unsynced' = unsynced \cup {id} /\ cards' = [cards EXCEPT ![id] = Gone]
    BY DEF Delete, serverVars
<1>3. pending_priority.move \in Nat /\ \A c \in Ids : cards[c] \in Versions(flushed \cup {pending_priority.move})
    BY TakenIs
<1> DEFINE N == flushed'
<1>4. flushed \subseteq N /\ N \subseteq Nat /\ 0 \in N /\ edits' \in Nat
    <2>1. flushed \subseteq Nat /\ 0 \in flushed /\ edits \in Nat
        BY DEF MovesInv
    <2>2. edits' \in Nat
        BY <2>1, <1>1
    <2>3. N = flushed \/ N = flushed \cup {pending_priority.move}
        BY <1>1
    <2> HIDE DEF N
    <2> QED
        BY <2>1, <2>2, <2>3, <1>3
<1>5. \A c \in Ids : cards[c] \in Versions(N \cup Pending(c)')
    <2>0. \A c \in Ids : cards[c] \in Versions(flushed \cup Pending(c))
        BY DEF MovesInv
    <2>1. CASE Discards(id)
        <3>1. flushed \cup {pending_priority.move} = N
            BY <2>1, <1>1
        <3> SUFFICES ASSUME NEW c \in Ids PROVE cards[c] \in Versions(N \cup Pending(c)')
            OBVIOUS
        <3>2. cards[c] \in Versions(N) /\ N \subseteq N \cup Pending(c)'
            BY <3>1, <1>3
        <3> HIDE DEF N
        <3> QED
            BY <3>2, MoreMoves
    <2>2. CASE ~Discards(id)
        <3>1. N = flushed /\ pending_priority' = pending_priority
            BY <2>2, <1>1 DEF discard_for, burstVars
        <3>2. \A c \in Ids : Pending(c)' = Pending(c)
            BY <3>1 DEF Pending
        <3> QED
            BY <2>0, <3>1, <3>2, Zenon
    <2> QED
        BY <2>1, <2>2
<1>6. pending_priority' = NoBurst \/ pending_priority' \in Bursts(N)
    BY <1>1 DEF discard_for, burstVars, MovesInv
<1> HIDE DEF N
<1>7. /\ chain \in [Ids -> Versions(N)] /\ offline_queue \in Seq(Items(N))
      /\ push \in [Slots -> Tasks(N)] /\ flushing \in Tasks(N)
    BY <1>4, Wider
<1>8. \A M : Gone \in Versions(M)
    BY NoEntries DEF Gone, Versions
<1>9. /\ chain' \in [Ids -> Versions(N)] /\ DOMAIN cards' = Ids
      /\ \A c \in Ids : cards'[c] \in Versions(N \cup Pending(c)')
    <2>1. DOMAIN cards = Ids
        BY DEF MovesInv
    <2>2. CASE UNCHANGED <<chain, deleted, unsynced, cards>>
        BY <2>1, <2>2, <1>5, <1>7
    <2>3. CASE chain' = [chain EXCEPT ![id] = Gone] /\ cards' = [cards EXCEPT ![id] = Gone]
        <3>1. Gone \in Versions(N)
            BY <1>8
        <3>2. chain' \in [Ids -> Versions(N)]
            BY <3>1, <2>3, <1>7
        <3>3. DOMAIN cards' = Ids /\ \A c \in Ids : cards'[c] = IF c = id THEN Gone ELSE cards[c]
            BY <2>1, <2>3
        <3> QED
            BY <3>2, <3>3, <1>5, <1>8
    <2> QED
        BY <1>2, <2>2, <2>3
<1>10. deleted' \subseteq Ids /\ unsynced' \subseteq Ids
    BY <1>2 DEF MovesInv
<1>11. moves \in Nat /\ losses \in Nat
    BY DEF MovesInv
<1> USE DEF N
<1> QED
    BY <1>1, <1>4, <1>6, <1>7, <1>9, <1>10, <1>11 DEF MovesInv

LEMMA BatchParts ==
    ASSUME NEW M, NEW items \in Batches(M)
    PROVE  /\ items \in Seq(Items(M)) /\ items # << >> /\ Len(items) \in Nat /\ Len(items) >= 1
           /\ DOMAIN items = 1 .. Len(items) /\ 1 \in DOMAIN items
           /\ \A i \in DOMAIN items : items[i] \in Items(M) /\ items[i].id \in Ids
                                      /\ items[i].version \in Versions(M) /\ items[i].version # Gone
<1> DEFINE A == Items(M)
<1>1. items \in Seq(A) /\ items # << >>
    BY DEF Batches
<1>2. \A x \in A : x.id \in Ids /\ x.version \in Versions(M) /\ x.version # Gone
    BY DEF Items, Real
<1> HIDE DEF A
<1>3. /\ Len(items) \in Nat /\ Len(items) >= 1 /\ DOMAIN items = 1 .. Len(items) /\ 1 \in DOMAIN items
      /\ \A i \in DOMAIN items : items[i] \in A
    BY <1>1
<1> QED
    BY <1>1, <1>2, <1>3 DEF A

\* What a running task sends, and what it sends next.
LEMMA Running ==
    ASSUME NEW M, NEW rec \in Tasks(M), rec.reply # "none"
    PROVE  /\ rec # IdlePush /\ rec.todo # << >>
           /\ Head(rec.todo) = rec.todo[1] /\ Head(rec.todo) \in Batches(M)
           /\ Tail(rec.todo) \in Seq(Batches(M)) /\ Request(rec) \in Batches(M)
<1>1. rec # IdlePush
    BY DEF IdlePush
<1>2. rec.todo # << >> /\ rec.todo \in Seq(Batches(M)) /\ rec.retry \in Seq(Items(M))
    BY <1>1, TaskParts
<1> DEFINE A == Batches(M)
<1>3. rec.todo \in Seq(A)
    BY <1>2
<1> HIDE DEF A
<1>4. Head(rec.todo) = rec.todo[1] /\ Head(rec.todo) \in A /\ Tail(rec.todo) \in Seq(A)
    BY <1>2, <1>3
<1>5. rec.retry # << >> => rec.retry \in A
    BY <1>2 DEF A, Batches
<1> QED
    BY <1>1, <1>2, <1>4, <1>5 DEF A, Request

LEMMA VerdictTypes ==
    ASSUME NEW M, chain \in [Ids -> Versions(M)], NEW rec \in Tasks(M), rec.reply # "none"
    PROVE  Verdict(rec) \in Tasks(M)
<1>1. Request(rec) \in Batches(M) /\ rec.todo # << >>
    BY Running
<1>2. Request(rec)[1].id \in Ids
    BY <1>1, BatchParts
<1>3. chain[Request(rec)[1].id] \in Versions(M)
    BY <1>2
<1> DEFINE reply == IF \A i \in DOMAIN Request(rec) : Acceptable(Request(rec)[i]) THEN "Ok"
                    ELSE IF Request(rec)[1].id \in deleted THEN "AlreadyDeleted"
                    ELSE "AncestorMismatch"
           current == chain[Request(rec)[1].id]
<1>4. Verdict(rec) = [todo |-> rec.todo, retry |-> rec.retry, reply |-> reply, current |-> current]
    BY DEF Verdict
<1>5. reply \in {"Ok", "AncestorMismatch", "AlreadyDeleted"}
    OBVIOUS
<1> HIDE DEF reply, current
<1>6. rec.todo \in Seq(Batches(M)) /\ rec.retry \in Seq(Items(M))
    BY TaskParts
<1> QED
    BY <1>1, <1>3, <1>4, <1>5, <1>6, NewTask DEF current

LEMMA ServeTypes ==
    ASSUME MovesInv, NEW rec \in Tasks(flushed), Serve(rec)
    PROVE  /\ chain' \in [Ids -> Versions(flushed)] /\ unsynced' \subseteq Ids
           /\ Verdict(rec) \in Tasks(flushed)
           /\ UNCHANGED <<deleted, cards, offline_queue, pending_priority, client, moves, edits, losses, flushed>>
<1> DEFINE items == Request(rec)
<1>1. /\ rec.reply # "none"
      /\ IF Verdict(rec).reply = "Ok"
         THEN /\ chain' = Put(chain, items)
              /\ unsynced' = unsynced \cup {items[i].id : i \in DOMAIN items}
         ELSE UNCHANGED <<chain, unsynced>>
      /\ UNCHANGED <<deleted, cards, offline_queue, pending_priority, client, moves, edits, losses, flushed>>
    BY DEF Serve, burstVars, tallies, historyOfMoves
<1>2. items \in Batches(flushed)
    BY <1>1, Running
<1>3. items \in Seq(Items(flushed)) /\ \A i \in DOMAIN items : items[i].id \in Ids
    BY <1>2, BatchParts
<1> HIDE DEF items
<1>4. chain \in [Ids -> Versions(flushed)] /\ unsynced \subseteq Ids
    BY DEF MovesInv
<1>5. Put(chain, items) \in [Ids -> Versions(flushed)]
    BY <1>3, <1>4, PutTypes
<1>6. Verdict(rec) \in Tasks(flushed)
    BY <1>1, <1>4, VerdictTypes
<1>7. chain' \in [Ids -> Versions(flushed)] /\ unsynced' \subseteq Ids
    BY <1>1, <1>3, <1>4, <1>5
<1> QED
    BY <1>1, <1>6, <1>7

\* Nothing of what MovesInv says changes but what is named here.
LEMMA SameMoves ==
    ASSUME MovesInv,
           UNCHANGED <<flushed, moves, edits, pending_priority>>, losses' \in Nat,
           chain' \in [Ids -> Versions(flushed)], deleted' \subseteq Ids, unsynced' \subseteq Ids,
           DOMAIN cards' = Ids, \A id \in Ids : cards'[id] \in Versions(flushed \cup Pending(id)),
           offline_queue' \in Seq(Items(flushed)),
           push' \in [Slots -> Tasks(flushed)], flushing' \in Tasks(flushed)
    PROVE  MovesInv'
<1>1. \A id \in Ids : Pending(id)' = Pending(id)
    BY DEF Pending
<1>2. \A id \in Ids : cards'[id] \in Versions(flushed' \cup Pending(id)')
    BY <1>1
<1> QED
    BY <1>2 DEF MovesInv

LEMMA ServedTypes ==
    ASSUME MovesInv, (\E t \in Slots : ServePush(t)) \/ ServeFlush
    PROVE  MovesInv'
<1> USE DEF MovesInv
<1>1. CASE ServeFlush
    BY <1>1, ServeTypes, SameMoves DEF ServeFlush
<1>2. ASSUME NEW t \in Slots, ServePush(t) PROVE MovesInv'
    <2>1. Serve(push[t]) /\ push' = [push EXCEPT ![t] = Verdict(push[t])] /\ flushing' = flushing
        BY <1>2 DEF ServePush
    <2>2. push[t] \in Tasks(flushed)
        OBVIOUS
    <2>3. Verdict(push[t]) \in Tasks(flushed)
        BY <2>1, <2>2, ServeTypes
    <2>4. push' \in [Slots -> Tasks(flushed)]
        BY <2>1, <2>3
    <2>5. /\ chain' \in [Ids -> Versions(flushed)] /\ unsynced' \subseteq Ids
          /\ UNCHANGED <<deleted, cards, offline_queue, pending_priority, client, moves, edits, losses, flushed>>
        BY <2>1, <2>2, ServeTypes
    <2> QED
        BY <2>1, <2>4, <2>5, SameMoves
<1> QED
    BY <1>1, <1>2

LEMMA SinglesTypes ==
    ASSUME NEW M, NEW items \in Seq(Items(M))
    PROVE  Singles(items) \in Seq(Batches(M)) /\ Len(Singles(items)) = Len(items)
           /\ (items # << >> => Singles(items) # << >>)
           /\ \A i \in 1 .. Len(items) : Singles(items)[i] = <<items[i]>>
<1> DEFINE A == Items(M)
           B == Batches(M)
           all == Singles(items)
<1>1. items \in Seq(A)
    OBVIOUS
<1>2. \A x \in A : <<x>> \in B
    BY SeqOne DEF Batches
<1> HIDE DEF A, B
<1>3. DOMAIN items = 1 .. Len(items) /\ Len(items) \in Nat /\ \A i \in 1 .. Len(items) : items[i] \in A
    BY <1>1
<1>4. all = [i \in 1 .. Len(items) |-> <<items[i]>>]
    BY <1>3 DEF Singles
<1>5. \A i \in 1 .. Len(items) : <<items[i]>> \in B
    BY <1>2, <1>3
<1>6. all \in Seq(B) /\ Len(all) = Len(items)
    BY <1>3, <1>4, <1>5
<1>7. items # << >> => Len(items) # 0
    BY <1>1
<1> QED
    BY <1>4, <1>6, <1>7 DEF B

LEMMA RebaseTypes ==
    ASSUME NEW M, NEW rec \in Tasks(M), rec.reply # "none"
    PROVE  Rebase(rec) \in Tasks(M)
<1> DEFINE card == Head(rec.todo)[1]
           next == Append(rec.current, Newest(card.version))
<1>1. rec.todo # << >> /\ Head(rec.todo) \in Batches(M)
    BY Running
<1>2. card.id \in Ids /\ card.version \in Seq(Bodies(M)) /\ card.version # Gone
    <2>1. Head(rec.todo)[1] \in Items(M)
        BY <1>1, BatchParts
    <2> QED
        BY <2>1 DEF Items, Real, Versions
<1>3. rec.todo \in Seq(Batches(M)) /\ rec.current \in Seq(Bodies(M))
    BY TaskParts DEF Versions
<1>4. Newest(card.version) \in Bodies(M)
    BY <1>2, NewestIn
<1> HIDE DEF card
<1>5. next \in Real(M)
    BY <1>3, <1>4, Grown DEF Real, Versions
<1>6. Rebase(rec) = Waiting(rec.todo, <<Item(card.id, next)>>)
    BY DEF Rebase, card
<1> HIDE DEF next
<1>7. Item(card.id, next) \in Items(M)
    BY <1>2, <1>5 DEF Item, Items
<1>8. <<Item(card.id, next)>> \in Seq(Items(M)) /\ << >> \in Versions(M)
    BY <1>7, SeqOne, NoEntries DEF Versions
<1> QED
    BY <1>1, <1>3, <1>6, <1>8, NewTask DEF Waiting

LEMMA PushAnsweredTypes ==
    ASSUME MovesInv, NEW t \in Slots, PushAnswered(t)
    PROVE  MovesInv'
<1> DEFINE rec   == push[t]
           items == Head(rec.todo)
           rest  == Tail(rec.todo)
<1>1. /\ rec.reply # "none"
      /\ UNCHANGED <<chain, deleted, unsynced, pending_priority, client, flushing, moves, edits, losses, flushed>>
    BY DEF PushAnswered, Answered, serverVars, burstVars, tallies, historyOfMoves
<1>2. \/ /\ Continue(t, rest, Drop(offline_queue, items))
         /\ cards' = Put(cards, rec.retry)
      \/ /\ Continue(t, Singles(items) \o rest, offline_queue)
         /\ UNCHANGED cards
      \/ /\ push' = [push EXCEPT ![t] = Rebase(rec)]
         /\ UNCHANGED <<cards, offline_queue>>
      \/ /\ Continue(t, rest, Queue(offline_queue, items))
         /\ UNCHANGED cards
    BY DEF PushAnswered
<1>3. /\ push \in [Slots -> Tasks(flushed)] /\ flushing \in Tasks(flushed)
      /\ offline_queue \in Seq(Items(flushed)) /\ rec \in Tasks(flushed)
      /\ DOMAIN cards = Ids /\ \A id \in Ids : cards[id] \in Versions(flushed \cup Pending(id))
    BY DEF MovesInv
<1>4. items \in Batches(flushed) /\ rest \in Seq(Batches(flushed)) /\ items \in Seq(Items(flushed))
    BY <1>1, <1>3, Running, BatchParts
<1>5. rec.retry \in Seq(Items(flushed))
    BY <1>3, TaskParts
<1>6. /\ Drop(offline_queue, items) \in Seq(Items(flushed))
      /\ Queue(offline_queue, items) \in Seq(Items(flushed))
    BY <1>3, <1>4, DropIs, QueueIs
<1>7. Singles(items) \o rest \in Seq(Batches(flushed))
    <2> DEFINE B == Batches(flushed)
    <2>1. Singles(items) \in Seq(B) /\ rest \in Seq(B)
        BY <1>4, SinglesTypes
    <2> HIDE DEF B, rest, items
    <2>2. Singles(items) \o rest \in Seq(B)
        BY <2>1
    <2> QED
        BY <2>2 DEF B
<1>8. Rebase(rec) \in Tasks(flushed)
    BY <1>1, <1>3, RebaseTypes
<1> HIDE DEF rec, items, rest
<1>9. push' \in [Slots -> Tasks(flushed)] /\ offline_queue' \in Seq(Items(flushed))
    <2>1. CASE Continue(t, rest, Drop(offline_queue, items))
        BY <2>1, <1>3, <1>4, <1>6, ContinueTypes
    <2>2. CASE Continue(t, Singles(items) \o rest, offline_queue)
        BY <2>2, <1>3, <1>7, ContinueTypes
    <2>3. CASE push' = [push EXCEPT ![t] = Rebase(rec)] /\ UNCHANGED offline_queue
        BY <2>3, <1>3, <1>8
    <2>4. CASE Continue(t, rest, Queue(offline_queue, items))
        BY <2>4, <1>3, <1>4, <1>6, ContinueTypes
    <2> QED
        BY <1>2, <2>1, <2>2, <2>3, <2>4
<1>10. DOMAIN cards' = Ids /\ \A id \in Ids : cards'[id] \in Versions(flushed \cup Pending(id))
    <2>1. cards' = cards \/ cards' = Put(cards, rec.retry)
        BY <1>2
    <2> QED
        BY <2>1, <1>3, <1>5, ShownTypes
<1>11. /\ chain' \in [Ids -> Versions(flushed)] /\ deleted' \subseteq Ids /\ unsynced' \subseteq Ids
       /\ flushing' \in Tasks(flushed) /\ losses' \in Nat
    BY <1>1 DEF MovesInv
<1> QED
    BY <1>1, <1>9, <1>10, <1>11, SameMoves

LEMMA SyncTypes ==
    ASSUME MovesInv, Sync
    PROVE  MovesInv'
<1>1. /\ flushing = IdlePush /\ cards' = Applied /\ unsynced' = {}
      /\ IF Reconciled = << >>
         THEN flushing' = IdlePush /\ offline_queue' = << >>
         ELSE flushing' = Waiting(Singles(Reconciled), << >>) /\ UNCHANGED offline_queue
      /\ UNCHANGED <<chain, deleted, pending_priority, push, moves, edits, losses, flushed>>
    BY DEF Sync, burstVars, tallies, historyOfMoves
<1>2. /\ chain \in [Ids -> Versions(flushed)] /\ offline_queue \in Seq(Items(flushed))
      /\ \A id \in Ids : cards[id] \in Versions(flushed \cup Pending(id))
    BY DEF MovesInv
<1>3. DOMAIN cards' = Ids /\ \A id \in Ids : cards'[id] \in Versions(flushed \cup Pending(id))
    <2> SUFFICES ASSUME NEW id \in Ids PROVE cards'[id] \in Versions(flushed \cup Pending(id))
        BY <1>1 DEF Applied
    <2>1. cards'[id] = IF id \in unsynced THEN chain[id] ELSE cards[id]
        BY <1>1 DEF Applied
    <2>2. flushed \subseteq flushed \cup Pending(id)
        OBVIOUS
    <2> QED
        BY <2>1, <2>2, <1>2, MoreMoves
<1>4. Reconciled \in Seq(Items(flushed))
    BY <1>2, RetainedEntries DEF Reconciled
<1>5. flushing' \in Tasks(flushed)
    <2>1. CASE Reconciled = << >>
        BY <2>1, <1>1, IdleTask
    <2>2. CASE Reconciled # << >>
        <3>1. /\ Singles(Reconciled) \in Seq(Batches(flushed)) /\ Singles(Reconciled) # << >>
              /\ << >> \in Seq(Items(flushed)) /\ << >> \in Versions(flushed)
            BY <2>2, <1>4, SinglesTypes, NoEntries DEF Versions
        <3> QED
            BY <3>1, <2>2, <1>1, NewTask DEF Waiting
    <2> QED
        BY <2>1, <2>2
<1>6. offline_queue' \in Seq(Items(flushed))
    BY <1>1, <1>2, NoEntries
<1>7. /\ chain' \in [Ids -> Versions(flushed)] /\ deleted' \subseteq Ids /\ unsynced' \subseteq Ids
      /\ push' \in [Slots -> Tasks(flushed)] /\ losses' \in Nat
    BY <1>1 DEF MovesInv
<1> QED
    BY <1>1, <1>3, <1>5, <1>6, <1>7, SameMoves

LEMMA FlushAnsweredTypes ==
    ASSUME MovesInv, FlushAnswered
    PROVE  MovesInv'
<1> DEFINE rec  == flushing
           rest == Tail(rec.todo)
           left == [i \in DOMAIN rec.todo |-> rec.todo[i][1]]
<1>1. /\ rec.reply # "none"
      /\ UNCHANGED <<chain, deleted, unsynced, pending_priority, push, moves, edits, losses, flushed>>
    BY DEF FlushAnswered, Answered, serverVars, burstVars, tallies, historyOfMoves
<1>2. /\ cards' \in {cards, Put(cards, Head(rec.todo)), Put(cards, rec.retry)}
      /\ \/ flushing' = IdlePush \/ flushing' = Rebase(rec)
         \/ rest # << >> /\ flushing' = Waiting(rest, << >>)
      /\ offline_queue' \in {offline_queue, << >>, left}
    BY DEF FlushAnswered
<1>3. /\ rec \in Tasks(flushed) /\ offline_queue \in Seq(Items(flushed))
      /\ DOMAIN cards = Ids /\ \A id \in Ids : cards[id] \in Versions(flushed \cup Pending(id))
    BY DEF MovesInv
<1>4. /\ Head(rec.todo) \in Batches(flushed) /\ Head(rec.todo) \in Seq(Items(flushed))
      /\ rest \in Seq(Batches(flushed))
    BY <1>1, <1>3, Running, BatchParts
<1>5. rec.retry \in Seq(Items(flushed)) /\ rec.todo \in Seq(Batches(flushed))
    BY <1>3, TaskParts
<1>6. left \in Seq(Items(flushed))
    <2> DEFINE B == Batches(flushed)
               todo == rec.todo
    <2>1. todo \in Seq(B) /\ \A b \in B : b[1] \in Items(flushed)
        BY <1>5, BatchParts
    <2> HIDE DEF B, todo
    <2>2. Len(todo) \in Nat /\ DOMAIN todo = 1 .. Len(todo) /\ \A i \in 1 .. Len(todo) : todo[i] \in B
        BY <2>1
    <2>3. left = [i \in 1 .. Len(todo) |-> todo[i][1]]
        BY <2>2 DEF todo
    <2> QED
        BY <2>1, <2>2, <2>3
<1>7. Rebase(rec) \in Tasks(flushed) /\ IdlePush \in Tasks(flushed)
    BY <1>1, <1>3, RebaseTypes, IdleTask
<1> HIDE DEF rest, left
<1>8. rest # << >> => Waiting(rest, << >>) \in Tasks(flushed)
    <2>1. << >> \in Seq(Items(flushed)) /\ << >> \in Versions(flushed)
        BY NoEntries DEF Versions
    <2> QED
        BY <2>1, <1>4, NewTask DEF Waiting
<1>9. flushing' \in Tasks(flushed)
    BY <1>2, <1>7, <1>8
<1>10. offline_queue' \in Seq(Items(flushed))
    BY <1>2, <1>3, <1>6, NoEntries
<1>11. DOMAIN cards' = Ids /\ \A id \in Ids : cards'[id] \in Versions(flushed \cup Pending(id))
    BY <1>2, <1>3, <1>4, <1>5, ShownTypes
<1>12. /\ chain' \in [Ids -> Versions(flushed)] /\ deleted' \subseteq Ids /\ unsynced' \subseteq Ids
       /\ push' \in [Slots -> Tasks(flushed)] /\ losses' \in Nat
    BY <1>1 DEF MovesInv
<1> QED
    BY <1>1, <1>9, <1>10, <1>11, <1>12, SameMoves

LEMMA LoseTypes ==
    ASSUME MovesInv, Lose
    PROVE  MovesInv'
<1> DEFINE Cut(rec) == IF rec = IdlePush THEN rec ELSE [rec EXCEPT !.reply = "Lost"]
<1>1. /\ losses' = losses + 1 /\ push' = [t \in Slots |-> Cut(push[t])] /\ flushing' = Cut(flushing)
      /\ UNCHANGED <<chain, deleted, unsynced, cards, offline_queue, pending_priority, moves, edits, flushed>>
    BY DEF Lose, serverVars, burstVars, historyOfMoves
<1>2. \A rec \in Tasks(flushed) : Cut(rec) \in Tasks(flushed)
    <2> SUFFICES ASSUME NEW rec \in Tasks(flushed), rec # IdlePush
                 PROVE  [rec EXCEPT !.reply = "Lost"] \in Tasks(flushed)
        OBVIOUS
    <2> DEFINE cut == [rec EXCEPT !.reply = "Lost"]
    <2>1. cut.todo = rec.todo /\ rec.todo # << >>
        BY DEF Tasks
    <2> QED
        BY <2>1 DEF Tasks
<1> HIDE DEF Cut
<1>3. push' \in [Slots -> Tasks(flushed)] /\ flushing' \in Tasks(flushed) /\ losses' \in Nat
    <2>1. push \in [Slots -> Tasks(flushed)] /\ flushing \in Tasks(flushed) /\ losses \in Nat
        BY DEF MovesInv
    <2>2. \A t \in Slots : push[t] \in Tasks(flushed)
        BY <2>1
    <2>3. push' \in [Slots -> Tasks(flushed)]
        BY <2>2, <1>1, <1>2
    <2> QED
        BY <2>1, <2>3, <1>1, <1>2
<1>4. /\ chain' \in [Ids -> Versions(flushed)] /\ deleted' \subseteq Ids /\ unsynced' \subseteq Ids
      /\ DOMAIN cards' = Ids /\ offline_queue' \in Seq(Items(flushed))
      /\ \A id \in Ids : cards'[id] \in Versions(flushed \cup Pending(id))
    BY <1>1 DEF MovesInv
<1> QED
    BY <1>1, <1>3, <1>4, SameMoves

LEMMA MovesTyped ==
    ASSUME MovesInv, [MovesNext]_moveVars
    PROVE  MovesInv'
<1>1. CASE UNCHANGED moveVars
    <2>1. \A id \in Ids : Pending(id)' = Pending(id)
        BY <1>1 DEF moveVars, burstVars, Pending
    <2> QED
        BY <1>1, <2>1 DEF MovesInv, moveVars, serverVars, burstVars, tallies, historyOfMoves
<1>2. CASE MovesNext
    <2>1. IncrementalSync \/ Connect => Sync
        BY DEF IncrementalSync, Connect
    <2> QED
        BY <1>2, <2>1, FlushTypes, MoveTypes, EditTypes, DeleteTypes, ServedTypes, PushAnsweredTypes,
           SyncTypes, FlushAnsweredTypes, LoseTypes DEF MovesNext
<1> QED
    BY <1>1, <1>2

LEMMA MovesStart ==
    ASSUME MovesInit
    PROVE  MovesInv
<1> DEFINE e == [edit |-> 0, move |-> 0, at |-> "push"]
<1>1. e \in Bodies({0})
    BY DEF Bodies
<1> HIDE DEF e
<1>2. <<e>> \in Versions({0})
    BY <1>1, SeqOne DEF Versions
<1>3. chain = [id \in Ids |-> <<e>>] /\ cards = chain /\ flushed = {0}
    BY DEF MovesInit, e
<1>4. \A id \in Ids : flushed \cup Pending(id) = {0}
    BY <1>3 DEF MovesInit, NoBurst, Pending
<1>5. push \in [Slots -> Tasks({0})] /\ flushing \in Tasks({0})
    <2>1. IdlePush \in Tasks({0})
        BY IdleTask
    <2> QED
        BY <2>1 DEF MovesInit
<1>6. chain \in [Ids -> Versions({0})] /\ DOMAIN cards = Ids /\ \A id \in Ids : cards[id] \in Versions({0})
    BY <1>2, <1>3
<1>7. << >> \in Seq(Items({0}))
    BY NoEntries
<1>8. /\ deleted = {} /\ unsynced = {} /\ offline_queue = << >> /\ pending_priority = NoBurst
      /\ moves = 0 /\ edits = 0 /\ losses = 0
    BY DEF MovesInit
<1>9. \A id \in Ids : cards[id] \in Versions(flushed \cup Pending(id))
    BY <1>4, <1>6
<1>10. flushed \subseteq Nat /\ 0 \in flushed
    BY <1>3
<1> QED
    BY <1>3, <1>5, <1>6, <1>7, <1>8, <1>9, <1>10 DEF MovesInv

-----------------------------------------------------------------------------
(* One device whose user waits for pushes and that loses no connection. *)

\* Burst numbers: each is used once, and its cards show it as the list built it.
Numbered ==
    /\ flushed \subseteq 0 .. moves /\ pending_priority.move \in 0 .. moves
    /\ Burst => pending_priority.move \notin flushed /\ priority_debounce_enabled
    /\ Burst => \A id \in Ids : cards[id] # Gone /\ Newest(cards[id]).move = pending_priority.move
                                   => Newest(cards[id]).at = "list"

EditOf(v)   == Newest(v).edit
EditsIn(v)  == {v[i].edit : i \in DOMAIN v}
MovesIn(v)  == {v[i].move : i \in DOMAIN v}
AllApart(v) == \A i, j \in DOMAIN v : i # j => v[i].edit # v[j].edit \/ v[i].move # v[j].move

\* What remains to be pushed is new to the server, whose versions are ch: a move that
\* keeps the content of the card, or the last edit, number n.
BurstLike(x, ch)   == EditOf(x.version) = EditOf(ch[x.id]) /\ Newest(x.version).move \notin MovesIn(ch[x.id])
EditLike(x, ch, n) == EditOf(x.version) = n /\ n \notin EditsIn(ch[x.id])
Final(todo, p)     == p = Len(todo) /\ Len(todo[p]) = 1

\* From batch `from` on there is one item of a card, or two of which the edit is last; it
\* was not built on the other.
Orderly(todo, from, ch, n) ==
    /\ \A p \in from .. Len(todo) : Separate(todo[p])
    /\ \A p \in from .. Len(todo) : \A i \in DOMAIN todo[p] : ch[todo[p][i].id] # Gone =>
           BurstLike(todo[p][i], ch) \/ (Final(todo, p) /\ EditLike(todo[p][i], ch, n))
    /\ \A p, q \in from .. Len(todo) : \A i \in DOMAIN todo[p], j \in DOMAIN todo[q] :
           p < q /\ todo[p][i].id = todo[q][j].id =>
               /\ Final(todo, q) /\ (ch[todo[q][j].id] # Gone => EditLike(todo[q][j], ch, n))
               /\ Newest(Parent(todo[q][j].version)) # Newest(todo[p][i].version)

\* The edit of a card is still to be pushed.
LastItem(todo) == todo[Len(todo)][1]
EditLeft(todo, from, id, ch, n) ==
    /\ from <= Len(todo) /\ Final(todo, Len(todo)) /\ LastItem(todo).id = id
    /\ EditLike(LastItem(todo), ch, n)

\* The list gets what the server has recorded when the answer is handled.
Corrected(rec, id) == rec.reply = "Ok" /\ id \in CardsIn(rec.retry)

\* The list shows the last edit of a card, or is about to.
Shown(rec, from, seen, ch, n) ==
    \A id \in Ids : ch[id] # Gone =>
        /\ seen[id] # Gone
        /\ IF EditLeft(rec.todo, from, id, ch, n)
           THEN \/ EditOf(seen[id]) = n /\ ~Corrected(rec, id)
                \/ Parent(LastItem(rec.todo).version) # ch[id]
           ELSE EditOf(seen[id]) = EditOf(ch[id]) \/ Corrected(rec, id)

\* The answers a running task gets.
Answers(rec, ch) == LET x == rec.todo[1][1] IN
    /\ rec.reply \in {"waiting", "Ok", "AncestorMismatch", "AlreadyDeleted"}
    /\ rec.retry # << >> =>
           /\ Len(rec.todo[1]) = 1 /\ ch[x.id] # Gone /\ rec.reply \in {"waiting", "Ok"}
           /\ rec.retry = <<Item(x.id, IF rec.reply = "Ok" THEN ch[x.id]
                                       ELSE Append(ch[x.id], Newest(x.version)))>>
    /\ rec.reply = "AncestorMismatch" => ch[x.id] # Gone /\ rec.current = ch[x.id]
    /\ rec.reply = "AlreadyDeleted" => ch[x.id] = Gone

From(rec) == IF rec.reply = "Ok" THEN 2 ELSE 1

\* Nothing of a card the server still has waits in the queue for longer than its push.
Covered(queue, todo, ch) ==
    \A c \in EntriesOf(queue) : ch[c.id] = Gone \/ \E p \in DOMAIN todo : c.id \in CardsIn(todo[p])
DeadEnds(rec, ch) ==
    /\ \A p \in DOMAIN rec.todo : Len(rec.todo[p]) = 1 /\ ch[rec.todo[p][1].id] = Gone
    /\ rec.retry = << >> /\ rec.reply \in {"none", "waiting", "AlreadyDeleted"}
ServerCalm(ch, n) ==
    \A id \in Ids : /\ id \in deleted <=> ch[id] = Gone
                    /\ \A k \in EditsIn(ch[id]) : k <= n
                    /\ AllApart(ch[id])
BasesKeep(burst, ch) ==
    \A id \in DOMAIN burst.bases : ch[id] # Gone => EditOf(burst.bases[id]) = EditOf(ch[id])
TaskCalm(rec, seen, ch, n) ==
    /\ Orderly(rec.todo, From(rec), ch, n) /\ Shown(rec, From(rec), seen, ch, n)
    /\ rec # IdlePush => Answers(rec, ch)

Calm ==
    /\ client = "live" /\ push[2] = IdlePush /\ (flushing # IdlePush => push[1] = IdlePush)
    /\ ServerCalm(chain, edits) /\ BasesKeep(pending_priority, chain)
    /\ Covered(offline_queue, push[1].todo, chain) /\ DeadEnds(flushing, chain)
    /\ TaskCalm(push[1], cards, chain, edits)
    /\ Burst => \A id \in Ids : chain[id] # Gone => ~EditLeft(push[1].todo, From(push[1]), id, chain, edits)

LEMMA SameNumbers ==
    ASSUME MovesInv, Numbered, UNCHANGED <<flushed, moves, pending_priority>>,
           \A id \in Ids : cards'[id] = cards[id] \/ cards'[id] = Gone \/ cards'[id] \in Versions(flushed)
    PROVE  Numbered'
<1>1. Burst' = Burst
    BY DEF Burst
<1>2. ASSUME NEW id \in Ids, Burst, cards'[id] # Gone, Newest(cards'[id]).move = pending_priority.move
      PROVE  Newest(cards'[id]).at = "list"
    <2>1. cards'[id] \notin Versions(flushed)
        <3> SUFFICES ASSUME cards'[id] \in Versions(flushed) PROVE FALSE
            OBVIOUS
        <3>1. Newest(cards'[id]) \in Bodies(flushed)
            BY <1>2, NewestIn DEF Versions
        <3> QED
            BY <3>1, <1>2 DEF Bodies, Numbered
    <2>2. cards'[id] = cards[id]
        BY <2>1, <1>2
    <2> QED
        BY <2>2, <1>2 DEF Numbered
<1> QED
    BY <1>1, <1>2 DEF Numbered

LEMMA TakenNumbers ==
    ASSUME MovesInv, Numbered, flushed' = flushed \cup {pending_priority.move}, pending_priority' = NoBurst,
           moves' = moves
    PROVE  Numbered'
<1>1. ~Burst' /\ pending_priority'.move = 0 /\ moves \in Nat
    BY DEF Burst, NoBurst, MovesInv
<1>2. flushed' \subseteq 0 .. moves' /\ pending_priority'.move \in 0 .. moves'
    <2>1. flushed \subseteq 0 .. moves /\ pending_priority.move \in 0 .. moves
        BY DEF Numbered
    <2>2. 0 \in 0 .. moves
        BY <1>1
    <2> QED
        BY <1>1, <2>1, <2>2
<1> QED
    BY <1>1, <1>2, Zenon DEF Numbered

LEMMA MovedNumbers ==
    ASSUME MovesInv, Numbered, NEW id \in Ids, NEW shifted \in SUBSET Ids, Move(id, shifted)
    PROVE  Numbered'
<1> DEFINE burst == BurstOf(id, shifted)
           shown == build_versions(burst, "list")
           F     == Ended(id)
<1>1. /\ cards' = Put(cards, shown) /\ moves' = moves + 1
      /\ pending_priority' = IF priority_debounce_enabled THEN burst ELSE NoBurst
      /\ flushed' = F \cup (IF Now(burst) = << >> THEN {} ELSE {moves + 1})
      /\ cards[id] # Gone /\ \A s \in shifted : cards[s] # Gone
    BY EnqueueIs DEF Move
<1>2. /\ moves \in Nat /\ flushed \subseteq 0 .. moves /\ pending_priority.move \in 0 .. moves
      /\ DOMAIN cards = Ids
    BY DEF MovesInv, Numbered
<1>3. F \subseteq 0 .. moves
    BY <1>2 DEF Ended
<1>4. /\ burst \in Bursts(F) /\ burst.move = moves + 1
      /\ Continues(id) => DOMAIN pending_priority.bases \subseteq DOMAIN burst.bases
      /\ \A c \in Ids : cards[c] \in Versions(F) \/ (Continues(id) /\ c \in DOMAIN pending_priority.bases)
    BY <1>1, NewBurst
<1> HIDE DEF burst, F
<1>5. /\ CardsIn(shown) = DOMAIN burst.bases
      /\ \A i \in DOMAIN shown : shown[i].id \in DOMAIN burst.bases
                               /\ shown[i].version = BuiltOn(burst, shown[i].id, "list")
    <2>1. /\ CardsIn(shown) = DOMAIN burst.bases
          /\ \A i \in DOMAIN shown : shown[i].version = BuiltOn(burst, shown[i].id, "list")
        BY <1>4, BuildVersions
    <2> HIDE DEF shown
    <2>2. \A i \in DOMAIN shown : shown[i].id \in CardsIn(shown)
        BY DEF CardsIn
    <2> QED
        BY <2>1, <2>2
<1> HIDE DEF shown
<1>6. CASE priority_debounce_enabled
    <2>1. pending_priority' = burst /\ flushed' = F
        BY <1>1, <1>6 DEF Now
    <2>2. ASSUME NEW c \in Ids, cards'[c] # Gone, Newest(cards'[c]).move = moves + 1
          PROVE  Newest(cards'[c]).at = "list"
        <3>1. CASE c \in DOMAIN burst.bases
            <4>1. cards'[c] = BuiltOn(burst, c, "list")
                BY <3>1, <1>1, <1>2, <1>5, PutIs
            <4> DEFINE v == burst.bases[c]
                       e == [Newest(v) EXCEPT !.move = burst.move, !.at = "list"]
            <4>2. v \in Seq(Bodies(F)) /\ v # Gone
                BY <3>1, <1>4 DEF Bursts, Real, Versions
            <4>3. Newest(v) \in Bodies(F)
                BY <4>2, NewestIn
            <4>4. e.at = "list" /\ v \in Seq(Bodies(F) \cup {e})
                <5>1. Seq(Bodies(F)) \subseteq Seq(Bodies(F) \cup {e})
                    BY SeqGrows
                <5> QED
                    BY <4>2, <4>3, <5>1 DEF Bodies
            <4> HIDE DEF v, e
            <4>5. Newest(Append(v, e)) = e
                BY <4>4, Grown
            <4> QED
                BY <4>1, <4>4, <4>5 DEF BuiltOn, v, e
        <3>2. CASE c \notin DOMAIN burst.bases
            <4>1. cards'[c] = cards[c] /\ cards[c] \in Versions(F)
                BY <3>2, <1>1, <1>2, <1>4, <1>5, PutIs
            <4>2. Newest(cards'[c]) \in Bodies(F)
                BY <4>1, <2>2, NewestIn DEF Versions
            <4> QED
                BY <4>2, <2>2, <1>2, <1>3 DEF Bodies
        <3> QED
            BY <3>1, <3>2
    <2>3. flushed' \subseteq 0 .. moves' /\ burst.move \in 0 .. moves' /\ burst.move \notin flushed'
        BY <2>1, <1>1, <1>2, <1>3, <1>4
    <2> QED
        BY <2>1, <2>2, <2>3, <1>1, <1>4, <1>6 DEF Numbered
<1>7. CASE ~priority_debounce_enabled
    <2>1. pending_priority' = NoBurst /\ flushed' \subseteq F \cup {moves + 1} /\ ~Burst'
        BY <1>1, <1>7 DEF Burst
    <2>2. flushed' \subseteq 0 .. moves' /\ 0 \in 0 .. moves'
        BY <2>1, <1>1, <1>2, <1>3
    <2>3. NoBurst.move = 0
        BY DEF NoBurst
    <2> QED
        BY <2>1, <2>2, <2>3 DEF Numbered
<1> QED
    BY <1>6, <1>7

LEMMA MovesNumbered ==
    ASSUME MovesInv, Numbered, [MovesNext]_moveVars
    PROVE  Numbered'
<1>1. CASE flush \/ flush_blocking \/ \E id \in Ids : Edit(id)
    <2>1. /\ flushed' = flushed \cup {pending_priority.move} /\ pending_priority' = NoBurst
          /\ moves' = moves
        BY <1>1 DEF flush, flush_blocking, Edit, TakeBurst, tallies
    <2> QED
        BY <2>1, TakenNumbers
<1>2. CASE \E id \in Ids, shifted \in SUBSET Ids : Move(id, shifted)
    BY <1>2, MovedNumbers
<1>3. CASE \E id \in Ids, succeeds \in BOOLEAN : Delete(id, succeeds)
    <2>1. PICK id \in Ids, succeeds \in BOOLEAN : Delete(id, succeeds)
        BY <1>3
    <2>2. /\ moves' = moves /\ discard_for(id) /\ DOMAIN cards = Ids
          /\ flushed' = flushed \cup (IF Discards(id) THEN {pending_priority.move} ELSE {})
          /\ cards' = cards \/ cards' = [cards EXCEPT ![id] = Gone]
        BY <2>1 DEF Delete, MovesInv
    <2>3. CASE Discards(id)
        <3>1. flushed' = flushed \cup {pending_priority.move} /\ pending_priority' = NoBurst
            BY <2>2, <2>3 DEF discard_for
        <3> QED
            BY <3>1, <2>2, TakenNumbers
    <2>4. CASE ~Discards(id)
        <3>1. UNCHANGED <<flushed, moves, pending_priority>>
            BY <2>2, <2>4 DEF discard_for, burstVars
        <3>2. \A c \in Ids : cards'[c] = cards[c] \/ cards'[c] = Gone
            BY <2>2
        <3> QED
            BY <3>1, <3>2, SameNumbers
    <2> QED
        BY <2>3, <2>4
<1>4. CASE \/ \E t \in Slots : ServePush(t) \/ PushAnswered(t)
           \/ ServeFlush \/ FlushAnswered \/ IncrementalSync \/ Connect \/ Lose
           \/ UNCHANGED moveVars
    <2>1. UNCHANGED <<flushed, moves, pending_priority>>
        BY <1>4 DEF ServePush, Serve, PushAnswered, ServeFlush, FlushAnswered, IncrementalSync, Connect, Sync,
                    Lose, moveVars, burstVars, tallies, historyOfMoves
    <2>2. \/ UNCHANGED cards
          \/ cards' = Applied
          \/ \E t \in Slots : push[t].reply # "none" /\ cards' = Put(cards, push[t].retry)
          \/ /\ flushing.reply # "none"
             /\ cards' = Put(cards, flushing.retry) \/ cards' = Put(cards, Head(flushing.todo))
        <3>1. (\E t \in Slots : ServePush(t)) \/ ServeFlush \/ Lose => UNCHANGED cards
            BY DEF ServePush, Serve, ServeFlush, Lose
        <3>2. \A t \in Slots : PushAnswered(t) =>
                  UNCHANGED cards \/ (push[t].reply # "none" /\ cards' = Put(cards, push[t].retry))
            BY DEF PushAnswered, Answered
        <3>3. FlushAnswered =>
                  \/ UNCHANGED cards
                  \/ /\ flushing.reply # "none"
                     /\ cards' = Put(cards, flushing.retry) \/ cards' = Put(cards, Head(flushing.todo))
            BY DEF FlushAnswered, Answered
        <3>4. IncrementalSync \/ Connect => cards' = Applied
            BY DEF IncrementalSync, Connect, Sync
        <3>5. UNCHANGED moveVars => UNCHANGED cards
            BY DEF moveVars
        <3> QED
            BY <1>4, <3>1, <3>2, <3>3, <3>4, <3>5
    <2>3. \A items \in Seq(Items(flushed)) : \A id \in Ids :
              Put(cards, items)[id] = cards[id] \/ Put(cards, items)[id] \in Versions(flushed)
        <3> SUFFICES ASSUME NEW items \in Seq(Items(flushed)), NEW id \in Ids
                     PROVE  Put(cards, items)[id] = cards[id] \/ Put(cards, items)[id] \in Versions(flushed)
            OBVIOUS
        <3>1. \A i \in DOMAIN items : items[i].version \in Versions(flushed)
            <4>1. \A i \in DOMAIN items : items[i] \in Items(flushed)
                OBVIOUS
            <4> QED
                BY <4>1 DEF Items, Real
        <3>2. DOMAIN cards = Ids
            BY DEF MovesInv
        <3> QED
            BY <3>1, <3>2, PutIs
    <2>4. /\ \A t \in Slots : push[t].retry \in Seq(Items(flushed))
          /\ flushing.retry \in Seq(Items(flushed))
          /\ flushing.reply # "none" => Head(flushing.todo) \in Seq(Items(flushed))
        <3>1. \A rec \in Tasks(flushed) : rec.retry \in Seq(Items(flushed))
            BY TaskParts
        <3>2. \A rec \in Tasks(flushed) : rec.reply # "none" => Head(rec.todo) \in Seq(Items(flushed))
            BY Running, BatchParts
        <3>3. flushing \in Tasks(flushed) /\ \A t \in Slots : push[t] \in Tasks(flushed)
            BY DEF MovesInv
        <3> QED
            BY <3>1, <3>2, <3>3
    <2>5. \A id \in Ids : Applied[id] = cards[id] \/ Applied[id] \in Versions(flushed)
        BY DEF Applied, MovesInv
    <2>6. \A id \in Ids : cards'[id] = cards[id] \/ cards'[id] \in Versions(flushed)
        BY <2>2, <2>3, <2>4, <2>5
    <2> QED
        BY <2>1, <2>6, SameNumbers
<1> QED
    BY <1>1, <1>2, <1>3, <1>4 DEF MovesNext

LEMMA Whole ==
    ASSUME NEW S, NEW v \in Seq(S), v # Gone
    PROVE  /\ Newest(v) \in S /\ Parent(v) \in Seq(S) /\ v = Append(Parent(v), Newest(v))
           /\ Len(v) \in DOMAIN v /\ EditOf(v) \in EditsIn(v)
<1>1. Len(v) \in Nat /\ Len(v) >= 1 /\ DOMAIN v = 1 .. Len(v) /\ \A i \in 1 .. Len(v) : v[i] \in S
    BY DEF Gone
<1>2. Len(v) \in DOMAIN v /\ v[Len(v)] \in S
    BY <1>1
<1> DEFINE n == Len(v) - 1
           w == SubSeq(v, 1, n)
<1>3. n \in Nat /\ n + 1 = Len(v) /\ n <= Len(v)
    BY <1>1
<1>4. w \in Seq(S) /\ Len(w) = n /\ \A i \in 1 .. n : w[i] = v[i]
    BY <1>1, <1>3
<1> HIDE DEF n, w
<1>5. Append(w, v[Len(v)]) = v
    <2>1. /\ Append(w, v[Len(v)]) \in Seq(S) /\ Len(Append(w, v[Len(v)])) = n + 1
          /\ \A i \in 1 .. n + 1 : Append(w, v[Len(v)])[i] = IF i <= n THEN w[i] ELSE v[Len(v)]
        BY <1>2, <1>3, <1>4
    <2>2. \A i \in 1 .. n + 1 : Append(w, v[Len(v)])[i] = v[i]
        BY <2>1, <1>3, <1>4
    <2> QED
        BY <2>1, <2>2, <1>3
<1>6. EditOf(v) \in EditsIn(v)
    BY <1>2 DEF EditOf, EditsIn, Newest
<1> QED
    BY <1>2, <1>4, <1>5, <1>6 DEF Newest, Parent, w, n

\* A version that is recorded on top of v.
LEMMA OneMore ==
    ASSUME NEW S, NEW v \in Seq(S), NEW e \in S
    PROVE  LET w == Append(v, e) IN
           /\ w # Gone /\ Newest(w) = e /\ EditOf(w) = e.edit
           /\ EditsIn(w) = EditsIn(v) \cup {e.edit} /\ MovesIn(w) = MovesIn(v) \cup {e.move}
           /\ AllApart(v) /\ (e.edit \notin EditsIn(v) \/ e.move \notin MovesIn(v)) => AllApart(w)
<1> DEFINE w == Append(v, e)
           n == Len(v)
<1>1. /\ w # Gone /\ Newest(w) = e /\ n \in Nat /\ DOMAIN v = 1 .. n /\ DOMAIN w = 1 .. n + 1
      /\ w[n + 1] = e /\ \A i \in 1 .. n : w[i] = v[i]
    BY Grown
<1> HIDE DEF w, n
<1>2. \A i \in DOMAIN w : i = n + 1 \/ i \in DOMAIN v
    BY <1>1
<1>3. n + 1 \in DOMAIN w /\ DOMAIN v \subseteq DOMAIN w
    BY <1>1
<1>4. EditsIn(w) = EditsIn(v) \cup {e.edit} /\ MovesIn(w) = MovesIn(v) \cup {e.move}
    BY <1>1, <1>2, <1>3 DEF EditsIn, MovesIn
<1>5. ASSUME AllApart(v), e.edit \notin EditsIn(v) \/ e.move \notin MovesIn(v)
      PROVE  AllApart(w)
    <2>1. \A i \in DOMAIN v : v[i].edit # e.edit \/ v[i].move # e.move
        BY <1>5 DEF EditsIn, MovesIn
    <2> QED
        BY <2>1, <1>1, <1>2, <1>5 DEF AllApart
<1> QED
    BY <1>1, <1>4, <1>5 DEF w, EditOf

\* The items the server has just recorded, one of a card, and what they are recorded on.
Recorded(items, ch, new) ==
    \A id \in Ids :
        \/ id \notin CardsIn(items) /\ new[id] = ch[id]
        \/ \E i \in DOMAIN items : /\ items[i].id = id /\ ch[id] # Gone
                                   /\ new[id] = Append(ch[id], Newest(items[i].version))

LEMMA OrderlyLater ==
    ASSUME NEW todo, NEW ch, NEW n, Len(todo) \in Nat, Orderly(todo, 1, ch, n)
    PROVE  Orderly(todo, 2, ch, n)
<1>1. 2 .. Len(todo) \subseteq 1 .. Len(todo)
    OBVIOUS
<1> QED
    BY <1>1 DEF Orderly

LEMMA Rest ==
    ASSUME NEW S, NEW todo \in Seq(S), todo # << >>
    PROVE  /\ Tail(todo) \in Seq(S) /\ Len(todo) \in Nat /\ Len(todo) >= 1
           /\ Len(Tail(todo)) = Len(todo) - 1 /\ DOMAIN todo = 1 .. Len(todo)
           /\ DOMAIN Tail(todo) = 1 .. Len(todo) - 1
           /\ \A p \in 1 .. Len(todo) - 1 : Tail(todo)[p] = todo[p + 1] /\ p + 1 \in 2 .. Len(todo)
           /\ Head(todo) = todo[1] /\ todo[1] \in S
OBVIOUS

\* The first batch is through.
LEMMA OrderlyRest ==
    ASSUME NEW S, NEW todo \in Seq(S), todo # << >>, NEW ch, NEW n, Orderly(todo, 2, ch, n)
    PROVE  /\ Orderly(Tail(todo), 1, ch, n)
           /\ \A id : EditLeft(Tail(todo), 1, id, ch, n) <=> EditLeft(todo, 2, id, ch, n)
           /\ Len(todo) >= 2 => LastItem(Tail(todo)) = LastItem(todo)
<1> DEFINE rest == Tail(todo)
           m == Len(todo)
<1>1. /\ m \in Nat /\ m >= 1 /\ Len(rest) = m - 1
      /\ \A p \in 1 .. m - 1 : rest[p] = todo[p + 1] /\ p + 1 \in 2 .. m
    BY Rest
<1> HIDE DEF rest
<1>2. \A p \in 1 .. m - 1 : Final(rest, p) <=> Final(todo, p + 1)
    BY <1>1 DEF Final
<1>3. \A p, q \in 1 .. m - 1 : p < q => p + 1 < q + 1
    BY <1>1
<1>4. \A p \in 1 .. Len(rest) : Separate(rest[p])
    BY <1>1 DEF Orderly
<1>5. \A p \in 1 .. Len(rest) : \A i \in DOMAIN rest[p] : ch[rest[p][i].id] # Gone =>
           BurstLike(rest[p][i], ch) \/ (Final(rest, p) /\ EditLike(rest[p][i], ch, n))
    <2> SUFFICES ASSUME NEW p \in 1 .. m - 1, NEW i \in DOMAIN rest[p], ch[rest[p][i].id] # Gone
                 PROVE  BurstLike(rest[p][i], ch) \/ (Final(rest, p) /\ EditLike(rest[p][i], ch, n))
        BY <1>1
    <2>1. rest[p] = todo[p + 1] /\ p + 1 \in 2 .. m
        BY <1>1
    <2> QED
        BY <2>1, <1>2 DEF Orderly
<1>6. \A p, q \in 1 .. Len(rest) : \A i \in DOMAIN rest[p], j \in DOMAIN rest[q] :
           p < q /\ rest[p][i].id = rest[q][j].id =>
               /\ Final(rest, q) /\ (ch[rest[q][j].id] # Gone => EditLike(rest[q][j], ch, n))
               /\ Newest(Parent(rest[q][j].version)) # Newest(rest[p][i].version)
    <2> SUFFICES ASSUME NEW p \in 1 .. m - 1, NEW q \in 1 .. m - 1,
                        NEW i \in DOMAIN rest[p], NEW j \in DOMAIN rest[q],
                        p < q, rest[p][i].id = rest[q][j].id
                 PROVE  /\ Final(rest, q) /\ (ch[rest[q][j].id] # Gone => EditLike(rest[q][j], ch, n))
                        /\ Newest(Parent(rest[q][j].version)) # Newest(rest[p][i].version)
        BY <1>1
    <2>1. /\ rest[p] = todo[p + 1] /\ p + 1 \in 2 .. m /\ rest[q] = todo[q + 1] /\ q + 1 \in 2 .. m
          /\ p + 1 < q + 1
        BY <1>1, <1>3
    <2> QED
        BY <2>1, <1>2 DEF Orderly
<1>7. m >= 2 => m - 1 \in 1 .. m - 1 /\ (m - 1) + 1 = m
    BY <1>1
<1>8. m >= 2 => rest[Len(rest)] = todo[m] /\ LastItem(rest) = LastItem(todo)
    BY <1>1, <1>7 DEF LastItem
<1>9. \A id : EditLeft(rest, 1, id, ch, n) <=> EditLeft(todo, 2, id, ch, n)
    <2>1. 1 <= Len(rest) <=> 2 <= m
        BY <1>1
    <2>2. 2 <= m => (Final(rest, Len(rest)) <=> Final(todo, m))
        BY <1>8 DEF Final
    <2> QED
        BY <2>1, <2>2, <1>1, <1>8 DEF EditLeft
<1> QED
    BY <1>4, <1>5, <1>6, <1>8, <1>9 DEF Orderly, rest

\* A batch that is refused is pushed card by card.
LEMMA OrderlySingles ==
    ASSUME NEW M, NEW ch \in [Ids -> Versions(M)], NEW n, NEW todo \in Seq(Batches(M)), todo # << >>,
           Orderly(todo, 1, ch, n), Len(todo[1]) > 1
    PROVE  LET all == Singles(todo[1]) \o Tail(todo) IN
           /\ Orderly(all, 1, ch, n)
           /\ \A id \in Ids : ch[id] # Gone => (EditLeft(all, 1, id, ch, n) <=> EditLeft(todo, 1, id, ch, n))
           /\ Len(todo) >= 2 => LastItem(all) = LastItem(todo)
           /\ \A id : (\E p \in DOMAIN todo : id \in CardsIn(todo[p]))
                      => \E p \in DOMAIN all : id \in CardsIn(all[p])
<1> DEFINE items == todo[1]
           k     == Len(items)
           m     == Len(todo)
           rest  == Tail(todo)
           all   == Singles(items) \o rest
           b(p)  == IF p <= k THEN 1 ELSE p - k + 1
<1>1. /\ m \in Nat /\ m >= 1 /\ Len(rest) = m - 1 /\ items \in Batches(M)
      /\ rest \in Seq(Batches(M)) /\ DOMAIN todo = 1 .. m
      /\ \A p \in 1 .. m - 1 : rest[p] = todo[p + 1]
    <2> DEFINE B == Batches(M)
    <2>1. todo \in Seq(B)
        OBVIOUS
    <2> HIDE DEF B
    <2>2. /\ Tail(todo) \in Seq(B) /\ Len(todo) \in Nat /\ Len(todo) >= 1
          /\ Len(Tail(todo)) = Len(todo) - 1 /\ DOMAIN todo = 1 .. Len(todo)
          /\ \A p \in 1 .. Len(todo) - 1 : Tail(todo)[p] = todo[p + 1]
          /\ todo[1] \in B
        BY <2>1, Rest
    <2> QED
        BY <2>2 DEF B
<1>2. k \in Nat /\ k > 1 /\ DOMAIN items = 1 .. k /\ items \in Seq(Items(M))
    BY <1>1, BatchParts
<1> HIDE DEF items, k, m, rest
<1>3. /\ Singles(items) \in Seq(Batches(M)) /\ Len(Singles(items)) = k
      /\ \A i \in 1 .. k : Singles(items)[i] = <<items[i]>>
    BY <1>2, SinglesTypes DEF k
<1>4. /\ Len(all) = k + (m - 1) /\ DOMAIN all = 1 .. k + (m - 1)
      /\ \A i \in 1 .. k : all[i] = <<items[i]>>
      /\ \A i \in 1 .. m - 1 : all[k + i] = rest[i]
    <2> DEFINE B == Batches(M)
               one == Singles(items)
    <2>1. one \in Seq(B) /\ rest \in Seq(B)
        BY <1>1, <1>3
    <2> HIDE DEF B, one
    <2>2. /\ Len(one \o rest) = Len(one) + Len(rest)
          /\ DOMAIN (one \o rest) = 1 .. Len(one) + Len(rest)
          /\ \A i \in 1 .. Len(one) : (one \o rest)[i] = one[i]
          /\ \A i \in 1 .. Len(rest) : (one \o rest)[Len(one) + i] = rest[i]
        BY <2>1, Joined
    <2>3. Len(one) = k
        BY <1>3 DEF one
    <2>4. \A i \in 1 .. k : one[i] = <<items[i]>>
        BY <1>3 DEF one
    <2>5. all = one \o rest
        BY DEF one
    <2> HIDE DEF all
    <2> QED
        BY <2>2, <2>3, <2>4, <2>5, <1>1
<1> HIDE DEF all
<1>5. \A p \in 1 .. Len(all) : p > k => /\ b(p) \in 2 .. m /\ p - k \in 1 .. m - 1 /\ k + (p - k) = p
                                         /\ (p - k) + 1 = b(p)
    BY <1>1, <1>2, <1>4
<1>6. \A p \in 1 .. Len(all) :
          /\ p > k => b(p) \in 2 .. m /\ all[p] = todo[b(p)]
          /\ p <= k => p \in 1 .. k /\ all[p] = <<items[p]>>
    <2> SUFFICES ASSUME NEW p \in 1 .. Len(all)
                 PROVE  /\ p > k => b(p) \in 2 .. m /\ all[p] = todo[b(p)]
                        /\ p <= k => p \in 1 .. k /\ all[p] = <<items[p]>>
        OBVIOUS
    <2>1. CASE p > k
        <3>1. all[p] = rest[p - k] /\ rest[p - k] = todo[b(p)] /\ b(p) \in 2 .. m
            BY <2>1, <1>1, <1>4, <1>5
        <3> QED
            BY <3>1, <2>1, <1>2
    <2>2. CASE p <= k
        <3>1. p \in 1 .. k
            BY <2>2, <1>2, <1>4
        <3> QED
            BY <3>1, <2>2, <1>2, <1>4
    <2> QED
        BY <2>1, <2>2, <1>2
<1>7. \A p \in 1 .. Len(all) : p > k => (Final(all, p) <=> Final(todo, b(p)))
    <2> SUFFICES ASSUME NEW p \in 1 .. Len(all), p > k PROVE Final(all, p) <=> Final(todo, b(p))
        OBVIOUS
    <2>1. p = Len(all) <=> b(p) = m
        <3> DEFINE l == Len(all)
        <3>1. l = k + (m - 1) /\ p \in Nat /\ m \in Nat /\ k \in Nat /\ ~(p <= k)
            BY <1>1, <1>2, <1>4
        <3> HIDE DEF l
        <3>2. p = l <=> p - k + 1 = m
            BY <3>1
        <3>3. b(p) = p - k + 1
            BY <3>1
        <3> QED
            BY <3>2, <3>3 DEF l
    <2>2. all[p] = todo[b(p)]
        BY <1>6
    <2> QED
        BY <2>1, <2>2 DEF Final, m
<1>8. Separate(items) /\ 1 \in 1 .. m /\ ~Final(todo, 1)
    <2>1. 1 \in 1 .. m
        BY <1>1
    <2> QED
        BY <2>1, <1>2 DEF Orderly, Final, m, items, k
<1>9. \A i \in DOMAIN items : ch[items[i].id] # Gone => BurstLike(items[i], ch)
    BY <1>8 DEF Orderly, items, m
<1>10. \A p \in 1 .. Len(all) : Separate(all[p])
    <2> SUFFICES ASSUME NEW p \in 1 .. Len(all) PROVE Separate(all[p])
        OBVIOUS
    <2>1. CASE p > k
        <3>1. b(p) \in 1 .. m
            BY <2>1, <1>6
        <3> HIDE DEF b
        <3> QED
            BY <2>1, <3>1, <1>6 DEF Orderly, m
    <2>2. CASE p <= k
        BY <2>2, <1>6 DEF Separate
    <2> QED
        BY <2>1, <2>2, <1>2
<1>11. \A p \in 1 .. Len(all) : \A i \in DOMAIN all[p] : ch[all[p][i].id] # Gone =>
           BurstLike(all[p][i], ch) \/ (Final(all, p) /\ EditLike(all[p][i], ch, n))
    <2> SUFFICES ASSUME NEW p \in 1 .. Len(all), NEW i \in DOMAIN all[p], ch[all[p][i].id] # Gone
                 PROVE  BurstLike(all[p][i], ch) \/ (Final(all, p) /\ EditLike(all[p][i], ch, n))
        OBVIOUS
    <2>1. CASE p > k
        <3>1. b(p) \in 1 .. m
            BY <2>1, <1>6
        <3>2. all[p] = todo[b(p)] /\ (Final(all, p) <=> Final(todo, b(p)))
            BY <2>1, <1>6, <1>7
        <3> HIDE DEF b
        <3> QED
            BY <3>1, <3>2 DEF Orderly, m
    <2>2. CASE p <= k
        <3>1. p \in DOMAIN items /\ all[p] = <<items[p]>>
            BY <2>2, <1>2, <1>6
        <3>2. all[p][i] = items[p]
            BY <3>1
        <3> QED
            BY <3>1, <3>2, <1>9
    <2> QED
        BY <2>1, <2>2, <1>2
<1>12. \A p, q \in 1 .. Len(all) : \A i \in DOMAIN all[p], j \in DOMAIN all[q] :
           p < q /\ all[p][i].id = all[q][j].id =>
               /\ Final(all, q) /\ (ch[all[q][j].id] # Gone => EditLike(all[q][j], ch, n))
               /\ Newest(Parent(all[q][j].version)) # Newest(all[p][i].version)
    <2> SUFFICES ASSUME NEW p \in 1 .. Len(all), NEW q \in 1 .. Len(all),
                        NEW i \in DOMAIN all[p], NEW j \in DOMAIN all[q],
                        p < q, all[p][i].id = all[q][j].id
                 PROVE  /\ Final(all, q) /\ (ch[all[q][j].id] # Gone => EditLike(all[q][j], ch, n))
                        /\ Newest(Parent(all[q][j].version)) # Newest(all[p][i].version)
        OBVIOUS
    <2>1. CASE q <= k
        <3>1. p <= k
            BY <2>1, <1>2, <1>4
        <3>2. /\ p \in DOMAIN items /\ q \in DOMAIN items
              /\ all[p] = <<items[p]>> /\ all[q] = <<items[q]>>
            BY <2>1, <3>1, <1>2, <1>6
        <3>3. items[p].id = items[q].id
            BY <3>2
        <3>4. p = q
            BY <3>2, <3>3, <1>8 DEF Separate
        <3> QED
            BY <3>4, <1>4
    <2>2. CASE q > k
        <3>1. b(q) \in 2 .. m /\ all[q] = todo[b(q)] /\ (Final(all, q) <=> Final(todo, b(q)))
            BY <2>2, <1>6, <1>7
        <3>2. \E r \in 1 .. m : r < b(q) /\ \E l \in DOMAIN todo[r] : todo[r][l] = all[p][i]
            <4>1. CASE p > k
                <5>1. b(p) \in 1 .. m /\ b(p) < b(q) /\ all[p] = todo[b(p)]
                    BY <4>1, <2>2, <1>2, <1>4, <1>6
                <5> QED
                    BY <5>1
            <4>2. CASE p <= k
                <5>1. p \in DOMAIN items /\ all[p] = <<items[p]>> /\ 1 < b(q)
                    BY <4>2, <3>1, <1>2, <1>6
                <5>2. all[p][i] = items[p]
                    BY <5>1
                <5> QED
                    BY <5>1, <5>2, <1>8 DEF items
            <4> QED
                BY <4>1, <4>2, <1>2
        <3>3. PICK r \in 1 .. m : r < b(q) /\ \E l \in DOMAIN todo[r] : todo[r][l] = all[p][i]
            BY <3>2
        <3>4. PICK l \in DOMAIN todo[r] : todo[r][l] = all[p][i]
            BY <3>3
        <3>5. b(q) \in 1 .. m /\ r < b(q)
            BY <3>1, <3>3
        <3> HIDE DEF b
        <3> QED
            BY <3>1, <3>4, <3>5 DEF Orderly, m
    <2> QED
        BY <2>1, <2>2, <1>2
<1>13. m >= 2 => all[Len(all)] = todo[m] /\ LastItem(all) = LastItem(todo)
    <2> SUFFICES ASSUME m >= 2 PROVE all[Len(all)] = todo[m] /\ LastItem(all) = LastItem(todo)
        OBVIOUS
    <2>1. Len(all) \in 1 .. Len(all) /\ Len(all) > k /\ b(Len(all)) = m
        BY <1>1, <1>2, <1>4
    <2>2. all[Len(all)] = todo[m]
        BY <2>1, <1>6
    <2> QED
        BY <2>2 DEF LastItem, m
<1>14. \A id \in Ids : ch[id] # Gone => (EditLeft(all, 1, id, ch, n) <=> EditLeft(todo, 1, id, ch, n))
    <2> SUFFICES ASSUME NEW id \in Ids, ch[id] # Gone
                 PROVE  EditLeft(all, 1, id, ch, n) <=> EditLeft(todo, 1, id, ch, n)
        OBVIOUS
    <2>0. 1 <= Len(all) /\ 1 <= m
        BY <1>1, <1>2, <1>4
    <2>1. CASE m >= 2
        <3>1. Final(all, Len(all)) <=> Final(todo, m)
            BY <2>1, <1>13 DEF Final, m
        <3> QED
            BY <2>0, <2>1, <3>1, <1>13 DEF EditLeft, m
    <2>2. CASE m = 1
        <3>1. ~EditLeft(todo, 1, id, ch, n)
            BY <2>2, <1>8 DEF EditLeft, m
        <3>2. Len(all) = k /\ k \in 1 .. Len(all) /\ all[k] = <<items[k]>> /\ k \in DOMAIN items
            BY <2>2, <1>1, <1>2, <1>4
        <3>3. LastItem(all) = items[k]
            BY <3>2 DEF LastItem
        <3>4. ASSUME items[k].id = id, EditLike(items[k], ch, n) PROVE FALSE
            <4>1. BurstLike(items[k], ch)
                BY <3>2, <3>4, <1>9
            <4>2. EditOf(ch[id]) \in EditsIn(ch[id])
                <5>1. ch[id] \in Seq(Bodies(M))
                    BY DEF Versions
                <5> QED
                    BY <5>1, Whole
            <4> QED
                BY <3>4, <4>1, <4>2 DEF BurstLike, EditLike
        <3> QED
            BY <3>1, <3>3, <3>4 DEF EditLeft
    <2> QED
        BY <2>1, <2>2, <1>1
<1>15. \A id : (\E p \in DOMAIN todo : id \in CardsIn(todo[p])) => \E p \in DOMAIN all : id \in CardsIn(all[p])
    <2>1. ASSUME NEW p \in 1 .. m, NEW i \in DOMAIN todo[p]
          PROVE  \E q \in DOMAIN all : \E j \in DOMAIN all[q] : all[q][j].id = todo[p][i].id
        <3>1. CASE p = 1
            <4>1. i \in 1 .. k /\ items[i] = todo[p][i]
                BY <3>1, <1>2 DEF items
            <4>2. i \in DOMAIN all /\ all[i] = <<items[i]>>
                BY <4>1, <1>1, <1>2, <1>4
            <4>3. 1 \in DOMAIN all[i] /\ all[i][1] = items[i]
                BY <4>2
            <4> QED
                BY <4>1, <4>2, <4>3
        <3>2. CASE p # 1
            <4>1. k + (p - 1) \in DOMAIN all /\ p - 1 \in 1 .. m - 1 /\ (p - 1) + 1 = p
                BY <3>2, <1>1, <1>2, <1>4
            <4>2. all[k + (p - 1)] = todo[p]
                BY <4>1, <1>1, <1>4
            <4> QED
                BY <4>1, <4>2
        <3> QED
            BY <3>1, <3>2
    <2> QED
        BY <2>1, <1>1 DEF CardsIn
<1> QED
    BY <1>10, <1>11, <1>12, <1>13, <1>14, <1>15 DEF Orderly, all, items, rest, m

\* The server records the first batch, or its only item again on top of a newer version.
LEMMA OrderlyRecorded ==
    ASSUME NEW M, NEW ch \in [Ids -> Versions(M)], NEW new \in [Ids -> Versions(M)], NEW n,
           NEW todo \in Seq(Batches(M)), todo # << >>,
           Orderly(todo, 1, ch, n), Recorded(todo[1], ch, new)
    PROVE  /\ Orderly(todo, 2, new, n)
           /\ \A id \in Ids :
                /\ ch[id] = Gone <=> new[id] = Gone
                /\ AllApart(ch[id]) => AllApart(new[id])
                /\ EditsIn(new[id]) \subseteq EditsIn(ch[id]) \cup {n}
                /\ EditLeft(todo, 2, id, new, n) => EditLeft(todo, 1, id, ch, n)
                /\ EditLeft(todo, 1, id, ch, n) /\ Len(todo) >= 2 /\ ch[id] # Gone => EditLeft(todo, 2, id, new, n)
                /\ EditLeft(todo, 2, id, new, n) /\ id \in CardsIn(todo[1])
                       => Parent(LastItem(todo).version) # new[id]
                /\ ch[id] # Gone => EditOf(new[id]) = IF Len(todo) = 1 /\ EditLeft(todo, 1, id, ch, n)
                                                      THEN n ELSE EditOf(ch[id])
<1> DEFINE items == todo[1]
           m     == Len(todo)
<1>1. m \in Nat /\ m >= 1 /\ 1 \in 1 .. m /\ items \in Batches(M)
    <2> DEFINE B == Batches(M)
    <2>1. todo \in Seq(B)
        OBVIOUS
    <2> HIDE DEF B
    <2>2. Len(todo) \in Nat /\ Len(todo) >= 1 /\ todo[1] \in B
        BY <2>1, Rest
    <2> QED
        BY <2>2 DEF B
<1> HIDE DEF m
<1>2. \A i \in DOMAIN items : items[i].id \in Ids /\ Newest(items[i].version) \in Bodies(M)
    <2> SUFFICES ASSUME NEW i \in DOMAIN items
                 PROVE  items[i].id \in Ids /\ Newest(items[i].version) \in Bodies(M)
        OBVIOUS
    <2>1. items[i].id \in Ids /\ items[i].version \in Seq(Bodies(M)) /\ items[i].version # Gone
        BY <1>1, BatchParts DEF Versions
    <2> QED
        BY <2>1, NewestIn
<1>3. Separate(items) /\ \A i \in DOMAIN items : ch[items[i].id] # Gone =>
          BurstLike(items[i], ch) \/ (Final(todo, 1) /\ EditLike(items[i], ch, n))
    BY <1>1 DEF Orderly, m
<1>4. Final(todo, 1) <=> m = 1 /\ Len(items) = 1
    BY DEF Final, m
<1>5. \A id \in Ids : ch[id] \in Seq(Bodies(M)) /\ (ch[id] # Gone => EditOf(ch[id]) \in EditsIn(ch[id]))
    <2> TAKE id \in Ids
    <2>1. ch[id] \in Seq(Bodies(M))
        BY DEF Versions
    <2> QED
        BY <2>1, Whole
\* What one item does.
<1>6. ASSUME NEW id \in Ids, NEW i \in DOMAIN items, items[i].id = id, ch[id] # Gone,
             new[id] = Append(ch[id], Newest(items[i].version))
      PROVE  /\ new[id] # Gone /\ (AllApart(ch[id]) => AllApart(new[id]))
             /\ Newest(new[id]) = Newest(items[i].version)
             /\ EditOf(new[id]) = EditOf(items[i].version)
             /\ EditsIn(new[id]) = EditsIn(ch[id]) \cup {EditOf(items[i].version)}
             /\ \/ /\ EditOf(items[i].version) = EditOf(ch[id])
                   /\ EditOf(items[i].version) \in EditsIn(ch[id])
                \/ m = 1 /\ Len(items) = 1 /\ EditLike(items[i], ch, n)
    <2> DEFINE e == Newest(items[i].version)
    <2>1. e \in Bodies(M) /\ ch[id] \in Seq(Bodies(M))
        BY <1>2, <1>5
    <2>2. \/ EditOf(items[i].version) = EditOf(ch[id]) /\ e.move \notin MovesIn(ch[id])
          \/ m = 1 /\ Len(items) = 1 /\ EditLike(items[i], ch, n)
        BY <1>3, <1>4, <1>6 DEF BurstLike
    <2>3. e.edit = EditOf(items[i].version)
        BY DEF EditOf
    <2>4. e.edit \notin EditsIn(ch[id]) \/ e.move \notin MovesIn(ch[id])
        BY <2>2, <2>3, <1>6 DEF EditLike
    <2>5. /\ new[id] # Gone /\ Newest(new[id]) = e /\ EditOf(new[id]) = e.edit
          /\ EditsIn(new[id]) = EditsIn(ch[id]) \cup {e.edit}
          /\ AllApart(ch[id]) => AllApart(new[id])
        <3> HIDE DEF e
        <3>1. new[id] = Append(ch[id], e)
            BY <1>6 DEF e
        <3> QED
            BY <2>1, <2>4, <3>1, OneMore
    <2>6. EditOf(ch[id]) \in EditsIn(ch[id])
        BY <1>5, <1>6
    <2> HIDE DEF e
    <2> QED
        BY <2>2, <2>3, <2>5, <2>6 DEF e
<1> HIDE DEF items
<1>7. \A id \in Ids : (id \notin CardsIn(items) /\ new[id] = ch[id])
          \/ \E i \in DOMAIN items : items[i].id = id /\ ch[id] # Gone
                                     /\ new[id] = Append(ch[id], Newest(items[i].version))
    BY DEF Recorded, items
<1>8. \A id \in Ids : /\ ch[id] = Gone <=> new[id] = Gone
                      /\ AllApart(ch[id]) => AllApart(new[id])
                      /\ EditsIn(ch[id]) \subseteq EditsIn(new[id])
                      /\ EditsIn(new[id]) \subseteq EditsIn(ch[id]) \cup {n}
                      /\ m >= 2 => EditsIn(new[id]) = EditsIn(ch[id])
    <2> SUFFICES ASSUME NEW id \in Ids
                 PROVE  /\ ch[id] = Gone <=> new[id] = Gone
                        /\ AllApart(ch[id]) => AllApart(new[id])
                        /\ EditsIn(ch[id]) \subseteq EditsIn(new[id])
                        /\ EditsIn(new[id]) \subseteq EditsIn(ch[id]) \cup {n}
                        /\ m >= 2 => EditsIn(new[id]) = EditsIn(ch[id])
        OBVIOUS
    <2>1. CASE new[id] = ch[id]
        BY <2>1
    <2>2. CASE new[id] # ch[id]
        <3>1. PICK i \in DOMAIN items : items[i].id = id /\ ch[id] # Gone
                                       /\ new[id] = Append(ch[id], Newest(items[i].version))
            BY <2>2, <1>7
        <3>2. /\ new[id] # Gone /\ (AllApart(ch[id]) => AllApart(new[id]))
              /\ EditsIn(new[id]) = EditsIn(ch[id]) \cup {EditOf(items[i].version)}
              /\ \/ EditOf(items[i].version) \in EditsIn(ch[id])
                 \/ m = 1 /\ EditLike(items[i], ch, n)
            BY <3>1, <1>6
        <3> QED
            BY <3>1, <3>2, <1>1 DEF EditLike
    <2> QED
        BY <2>1, <2>2
<1>9. ASSUME NEW p \in 2 .. m, NEW i \in DOMAIN todo[p], EditLike(todo[p][i], ch, n)
      PROVE  EditLike(todo[p][i], new, n)
    <2> DEFINE x == todo[p][i]
    <2>1. x.id \in Ids
        <3>1. todo[p] \in Batches(M)
            <4> DEFINE B == Batches(M)
            <4>1. todo \in Seq(B) /\ p \in 1 .. Len(todo)
                BY <1>1 DEF m
            <4> HIDE DEF B
            <4>2. todo[p] \in B
                BY <4>1
            <4> QED
                BY <4>2 DEF B
        <3> QED
            BY <3>1, BatchParts
    <2>2. EditsIn(new[x.id]) = EditsIn(ch[x.id])
        BY <2>1, <1>1, <1>8
    <2> QED
        BY <2>2, <1>9 DEF EditLike
<1>10. Orderly(todo, 2, new, n)
    <2>1. Orderly(todo, 2, ch, n)
        BY <1>1, OrderlyLater DEF m
    <2>2. ASSUME NEW p \in 2 .. m, NEW i \in DOMAIN todo[p]
          PROVE  todo[p][i].id \in Ids /\ p \in 1 .. m
        <3>1. todo[p] \in Batches(M)
            <4> DEFINE B == Batches(M)
            <4>1. todo \in Seq(B) /\ p \in 1 .. Len(todo)
                BY <1>1 DEF m
            <4> HIDE DEF B
            <4>2. todo[p] \in B
                BY <4>1
            <4> QED
                BY <4>2 DEF B
        <3> QED
            BY <3>1, <1>1, BatchParts
    <2>3. ASSUME NEW p \in 2 .. m, NEW i \in DOMAIN todo[p], new[todo[p][i].id] # Gone
          PROVE  BurstLike(todo[p][i], new) \/ (Final(todo, p) /\ EditLike(todo[p][i], new, n))
        <3> DEFINE x == todo[p][i]
        <3>1. ch[x.id] # Gone
            BY <2>2, <2>3, <1>8
        <3>2. CASE new[x.id] = ch[x.id]
            BY <3>1, <3>2, <2>1 DEF Orderly, m, BurstLike, EditLike
        <3>3. CASE new[x.id] # ch[x.id]
            <4>1. PICK j \in DOMAIN items : items[j].id = x.id
                BY <3>3, <2>2, <1>7
            <4>2. Final(todo, p) /\ EditLike(x, ch, n)
                <5>1. 1 < p /\ p \in 1 .. m /\ todo[1][j].id = x.id /\ j \in DOMAIN todo[1]
                    BY <4>1, <1>1 DEF items
                <5> QED
                    BY <5>1, <3>1, <1>1 DEF Orderly, m
            <4> QED
                BY <4>2, <1>9
        <3> QED
            BY <3>2, <3>3
    <2>4. ASSUME NEW p \in 2 .. m, NEW q \in 2 .. m, NEW i \in DOMAIN todo[p], NEW j \in DOMAIN todo[q],
                 p < q, todo[p][i].id = todo[q][j].id
          PROVE  /\ Final(todo, q) /\ (new[todo[q][j].id] # Gone => EditLike(todo[q][j], new, n))
                 /\ Newest(Parent(todo[q][j].version)) # Newest(todo[p][i].version)
        <3>1. /\ Final(todo, q) /\ (ch[todo[q][j].id] # Gone => EditLike(todo[q][j], ch, n))
              /\ Newest(Parent(todo[q][j].version)) # Newest(todo[p][i].version)
            BY <2>1, <2>4 DEF Orderly, m
        <3>2. new[todo[q][j].id] # Gone => ch[todo[q][j].id] # Gone
            BY <2>2, <1>8
        <3> QED
            BY <3>1, <3>2, <1>9
    <2>5. \A p \in 2 .. m : Separate(todo[p])
        BY <2>1 DEF Orderly, m
    <2> QED
        BY <2>3, <2>4, <2>5 DEF Orderly, m
<1>11. ASSUME NEW id \in Ids, EditLeft(todo, 2, id, new, n)
       PROVE  EditLeft(todo, 1, id, ch, n)
    <2>1. n \notin EditsIn(ch[id]) /\ 1 <= m
        BY <1>1, <1>8, <1>11 DEF EditLeft, EditLike
    <2> QED
        BY <2>1, <1>11 DEF EditLeft, EditLike, m
<1>12. ASSUME NEW id \in Ids, EditLeft(todo, 1, id, ch, n), m >= 2
       PROVE  EditLeft(todo, 2, id, new, n)
    <2>1. n \notin EditsIn(new[id]) /\ 2 <= m
        BY <1>1, <1>8, <1>12 DEF EditLeft, EditLike
    <2> QED
        BY <2>1, <1>12 DEF EditLeft, EditLike, m
<1>13. ASSUME NEW id \in Ids, EditLeft(todo, 2, id, new, n), id \in CardsIn(items)
       PROVE  Parent(LastItem(todo).version) # new[id]
    <2>1. PICK i \in DOMAIN items : items[i].id = id /\ ch[id] # Gone
                                   /\ new[id] = Append(ch[id], Newest(items[i].version))
        BY <1>7, <1>13
    <2>2. Newest(new[id]) = Newest(items[i].version)
        BY <2>1, <1>6
    <2>3. 2 <= m /\ LastItem(todo).id = id /\ Len(todo[m]) = 1
        BY <1>13 DEF EditLeft, Final, m
    <2>4. m \in 1 .. m /\ 1 < m
        BY <2>3, <1>1
    <2>5. todo[m] \in Batches(M)
        <3> DEFINE B == Batches(M)
        <3>1. todo \in Seq(B) /\ m \in 1 .. Len(todo)
            BY <2>4 DEF m
        <3> HIDE DEF B
        <3>2. todo[m] \in B
            BY <3>1
        <3> QED
            BY <3>2 DEF B
    <2>6. 1 \in DOMAIN todo[m]
        BY <2>5, BatchParts
    <2>7. Newest(Parent(todo[m][1].version)) # Newest(todo[1][i].version)
        <3>1. todo[1][i].id = todo[m][1].id /\ i \in DOMAIN todo[1]
            BY <2>1, <2>3 DEF LastItem, items, m
        <3> QED
            BY <3>1, <2>4, <2>6, <1>1 DEF Orderly, m
    <2> QED
        BY <2>2, <2>7 DEF LastItem, items, m
<1>14. ASSUME NEW id \in Ids, ch[id] # Gone
       PROVE  EditOf(new[id]) = IF m = 1 /\ EditLeft(todo, 1, id, ch, n) THEN n ELSE EditOf(ch[id])
    <2>1. LastItem(todo) = items[1] \/ m # 1
        BY DEF LastItem, items, m
    <2>2. DOMAIN items = 1 .. Len(items) /\ 1 \in DOMAIN items
        BY <1>1, BatchParts
    <2>3. CASE m = 1 /\ EditLeft(todo, 1, id, ch, n)
        <3>1. items[1].id = id /\ Len(items) = 1 /\ EditOf(items[1].version) = n
            BY <2>1, <2>3 DEF EditLeft, EditLike, Final, items, m
        <3>2. id \in CardsIn(items)
            BY <2>2, <3>1 DEF CardsIn
        <3>3. PICK i \in DOMAIN items : items[i].id = id /\ ch[id] # Gone
                                       /\ new[id] = Append(ch[id], Newest(items[i].version))
            BY <1>7, <3>2
        <3>4. i = 1
            BY <2>2, <3>1, <3>3
        <3>5. EditOf(new[id]) = EditOf(items[i].version)
            BY <3>3, <1>6, <1>14
        <3> QED
            BY <2>3, <3>1, <3>4, <3>5
    <2>4. CASE ~(m = 1 /\ EditLeft(todo, 1, id, ch, n))
        <3>1. CASE new[id] = ch[id]
            BY <2>4, <3>1
        <3>2. CASE new[id] # ch[id]
            <4>1. PICK i \in DOMAIN items : items[i].id = id /\ ch[id] # Gone
                                           /\ new[id] = Append(ch[id], Newest(items[i].version))
                BY <1>7, <3>2
            <4>2. EditOf(new[id]) = EditOf(items[i].version)
                BY <4>1, <1>6, <1>14
            <4>3. ~(m = 1 /\ Len(items) = 1 /\ EditLike(items[i], ch, n))
                <5> SUFFICES ASSUME m = 1, Len(items) = 1, EditLike(items[i], ch, n) PROVE FALSE
                    OBVIOUS
                <5>1. i = 1
                    BY <2>2, <4>1
                <5>2. EditLeft(todo, 1, id, ch, n)
                    BY <5>1, <2>1, <4>1 DEF EditLeft, Final, items, m
                <5> QED
                    BY <5>2, <2>4
            <4>4. EditOf(items[i].version) = EditOf(ch[id])
                BY <4>1, <4>3, <1>6, <1>14
            <4> QED
                BY <2>4, <4>2, <4>4
        <3> QED
            BY <3>1, <3>2
    <2> QED
        BY <2>3, <2>4
<1> QED
    BY <1>8, <1>10, <1>11, <1>12, <1>13, <1>14 DEF items, m

\* What a task that runs has to do, and that it is the only one.
LEMMA OnTheWay ==
    ASSUME MovesInv, Calm, NEW t \in Slots, push[t].reply # "none"
    PROVE  /\ t = 1 /\ push[1] # IdlePush /\ flushing = IdlePush /\ Answers(push[1], chain)
           /\ push[1].todo \in Seq(Batches(flushed)) /\ push[1].todo # << >>
           /\ Head(push[1].todo) = push[1].todo[1] /\ push[1].todo[1] \in Batches(flushed)
           /\ push \in [Slots -> Tasks(flushed)] /\ chain \in [Ids -> Versions(flushed)]
           /\ TaskCalm(push[1], cards, chain, edits)
<1>1. push \in [Slots -> Tasks(flushed)] /\ chain \in [Ids -> Versions(flushed)]
    BY DEF MovesInv
<1>2. push[t] \in Tasks(flushed) /\ push[t] # IdlePush
    BY <1>1 DEF IdlePush
<1>3. t = 1
    BY <1>2 DEF Calm, Slots
<1>4. Head(push[1].todo) = push[1].todo[1] /\ Head(push[1].todo) \in Batches(flushed)
    BY <1>2, <1>3, Running
<1>5. push[1].todo \in Seq(Batches(flushed)) /\ push[1].todo # << >>
    BY <1>2, <1>3, TaskParts
<1>6. flushing = IdlePush /\ Answers(push[1], chain) /\ TaskCalm(push[1], cards, chain, edits)
    BY <1>2, <1>3 DEF Calm, TaskCalm
<1> QED
    BY <1>1, <1>2, <1>3, <1>4, <1>5, <1>6

\* A request that is accepted adds the bodies of the first batch to what the server has.
LEMMA Accepted ==
    ASSUME MovesInv, Calm, push[1].reply = "waiting", Serve(push[1]), Verdict(push[1]).reply = "Ok"
    PROVE  /\ Recorded(push[1].todo[1], chain, chain')
           /\ \A id \in CardsIn(push[1].retry) : id \in CardsIn(push[1].todo[1])
           /\ push[1].retry # << >> =>
                  push[1].retry = <<Item(push[1].todo[1][1].id, chain'[push[1].todo[1][1].id])>>
           /\ push[1].retry = << >> => \A i \in DOMAIN push[1].todo[1] :
                  Parent(push[1].todo[1][i].version) = chain[push[1].todo[1][i].id]
<1> DEFINE rec   == push[1]
           items == Request(rec)
           first == rec.todo[1]
<1>1. chain' = Put(chain, items) /\ \A i \in DOMAIN items : Acceptable(items[i])
    BY DEF Serve, Verdict
<1>2. /\ Answers(rec, chain) /\ Head(rec.todo) = first /\ first \in Batches(flushed)
      /\ chain \in [Ids -> Versions(flushed)]
    BY OnTheWay DEF Slots
<1>3. DOMAIN chain = Ids /\ \A id \in Ids : id \in deleted <=> chain[id] = Gone
    BY <1>2 DEF Calm, ServerCalm
<1>4. CASE rec.retry = << >>
    <2>1. items = first
        BY <1>2, <1>4 DEF Request
    <2>2. CardsIn(rec.retry) = {}
        BY <1>4 DEF CardsIn
    <2> HIDE DEF items, first, rec
    <2>3. \A i \in DOMAIN first :
              /\ first[i].id \in Ids /\ chain[first[i].id] # Gone
              /\ Parent(first[i].version) = chain[first[i].id]
              /\ first[i].version = Append(chain[first[i].id], Newest(first[i].version))
        <3> SUFFICES ASSUME NEW i \in DOMAIN first
                     PROVE  /\ first[i].id \in Ids /\ chain[first[i].id] # Gone
                            /\ Parent(first[i].version) = chain[first[i].id]
                            /\ first[i].version = Append(chain[first[i].id], Newest(first[i].version))
            OBVIOUS
        <3>1. first[i].id \in Ids /\ first[i].version \in Seq(Bodies(flushed)) /\ first[i].version # Gone
            BY <1>2, BatchParts DEF Versions
        <3>2. first[i].version = Append(Parent(first[i].version), Newest(first[i].version))
            BY <3>1, Whole
        <3>3. Acceptable(first[i])
            BY <1>1, <2>1
        <3> QED
            BY <3>1, <3>2, <3>3, <1>3 DEF Acceptable
    <2>4. Recorded(first, chain, chain')
        <3> SUFFICES ASSUME NEW id \in Ids
                     PROVE  \/ id \notin CardsIn(first) /\ chain'[id] = chain[id]
                            \/ \E i \in DOMAIN first : /\ first[i].id = id /\ chain[id] # Gone
                                                       /\ chain'[id] = Append(chain[id], Newest(first[i].version))
            BY DEF Recorded
        <3>1. CASE id \notin CardsIn(first)
            BY <3>1, <2>1, <1>1, <1>3, PutIs
        <3>2. CASE id \in CardsIn(first)
            <4>1. \E i \in DOMAIN first : first[i].id = id /\ Put(chain, first)[id] = first[i].version
                BY <3>2, <1>3, PutIs
            <4> QED
                BY <4>1, <2>1, <2>3, <1>1
        <3> QED
            BY <3>1, <3>2
    <2> QED
        BY <1>4, <2>2, <2>3, <2>4 DEF rec, first
<1>5. CASE rec.retry # << >>
    <2> DEFINE x == first[1]
               e == Newest(x.version)
               v == Append(chain[x.id], e)
    <2>1. items = rec.retry /\ rec.retry = <<Item(x.id, v)>> /\ Len(first) = 1 /\ chain[x.id] # Gone
        BY <1>2, <1>5 DEF Request, Answers
    <2>2. DOMAIN first = {1} /\ x.id \in Ids
        <3>1. DOMAIN first = 1 .. Len(first) /\ x.id \in Ids
            BY <1>2, BatchParts
        <3> QED
            BY <2>1, <3>1
    <2> HIDE DEF x, v, items, e
    <2>3. DOMAIN items = {1} /\ items[1].id = x.id /\ items[1].version = v
        BY <2>1 DEF Item
    <2>4. CardsIn(items) = {x.id} /\ CardsIn(first) = {x.id}
        BY <2>2, <2>3 DEF CardsIn, x
    <2>5. chain'[x.id] = v /\ \A id \in Ids : id # x.id => chain'[id] = chain[id]
        BY <2>2, <2>3, <2>4, <1>1, <1>3, PutIs
    <2>6. Recorded(first, chain, chain')
        <3> SUFFICES ASSUME NEW id \in Ids
                     PROVE  \/ id \notin CardsIn(first) /\ chain'[id] = chain[id]
                            \/ \E i \in DOMAIN first : /\ first[i].id = id /\ chain[id] # Gone
                                                       /\ chain'[id] = Append(chain[id], Newest(first[i].version))
            BY DEF Recorded
        <3>1. CASE id # x.id
            BY <3>1, <2>4, <2>5
        <3>2. CASE id = x.id
            <4>1. first[1].id = id /\ chain'[id] = Append(chain[id], Newest(first[1].version))
                BY <3>2, <2>5 DEF x, v, e
            <4> QED
                BY <4>1, <2>1, <2>2, <3>2
        <3> QED
            BY <3>1, <3>2
    <2>7. rec.retry = <<Item(x.id, chain'[x.id])>> /\ CardsIn(rec.retry) = CardsIn(first)
        BY <2>1, <2>4, <2>5
    <2> QED
        BY <1>5, <2>6, <2>7 DEF x
<1> QED
    BY <1>4, <1>5

LEMMA QueuedCards ==
    ASSUME MovesInv
    PROVE  \A c \in EntriesOf(offline_queue) : c.id \in Ids
<1> DEFINE A == Items(flushed)
<1>1. offline_queue \in Seq(A)
    BY DEF MovesInv
<1>2. \A c \in A : c.id \in Ids
    BY DEF Items
<1> HIDE DEF A
<1>3. \A i \in DOMAIN offline_queue : offline_queue[i] \in A
    BY <1>1
<1> QED
    BY <1>2, <1>3 DEF EntriesOf

\* Which cards the server still has does not change.
LEMMA SameLives ==
    ASSUME MovesInv, Calm, \A id \in Ids : chain[id] = Gone <=> chain'[id] = Gone
    PROVE  /\ Covered(offline_queue, push[1].todo, chain') /\ DeadEnds(flushing, chain')
<1>1. \A c \in EntriesOf(offline_queue) : c.id \in Ids
    BY QueuedCards
<1>2. \A p \in DOMAIN flushing.todo : flushing.todo[p][1].id \in Ids
    <2> DEFINE B == Batches(flushed)
    <2>1. flushing.todo \in Seq(B)
        BY TaskParts DEF MovesInv
    <2>2. \A b \in B : b[1].id \in Ids
        BY BatchParts
    <2> HIDE DEF B
    <2>3. \A p \in DOMAIN flushing.todo : flushing.todo[p] \in B
        BY <2>1
    <2> QED
        BY <2>2, <2>3
<1> QED
    BY <1>1, <1>2 DEF Calm, Covered, DeadEnds

LEMMA RecordedCalm ==
    ASSUME MovesInv, MovesInv', Calm, ServePush(1), Verdict(push[1]).reply = "Ok"
    PROVE  Calm' /\ \A id \in Ids : chain[id] # Gone => EditOf(chain'[id]) \in {EditOf(chain[id]), edits}
<1> DEFINE rec  == push[1]
           todo == push[1].todo
           new  == chain'
           n    == edits
<1>1. /\ rec.reply = "waiting" /\ Serve(rec) /\ push' = [push EXCEPT ![1] = Verdict(rec)]
      /\ UNCHANGED <<deleted, cards, offline_queue, pending_priority, client, edits, flushing>>
    BY DEF ServePush, Serve, burstVars, tallies
<1>2. /\ Answers(rec, chain) /\ TaskCalm(rec, cards, chain, n) /\ push \in [Slots -> Tasks(flushed)]
      /\ todo \in Seq(Batches(flushed)) /\ todo # << >> /\ chain \in [Ids -> Versions(flushed)]
      /\ todo[1] \in Batches(flushed) /\ flushing = IdlePush
    BY <1>1, OnTheWay DEF Slots
<1>3. new \in [Ids -> Versions(flushed)]
    <2>1. rec \in Tasks(flushed)
        BY <1>2 DEF Slots
    <2> QED
        BY <2>1, <1>1, ServeTypes
<1>4. /\ Recorded(todo[1], chain, new) /\ \A id \in CardsIn(rec.retry) : id \in CardsIn(todo[1])
      /\ rec.retry # << >> => rec.retry = <<Item(todo[1][1].id, new[todo[1][1].id])>>
      /\ rec.retry = << >> => \A i \in DOMAIN todo[1] : Parent(todo[1][i].version) = chain[todo[1][i].id]
    BY <1>1, Accepted
<1>5. Orderly(todo, 1, chain, n) /\ Shown(rec, 1, cards, chain, n)
    BY <1>1, <1>2 DEF TaskCalm, From
<1>6. /\ push'[1].todo = todo /\ push'[1].retry = rec.retry /\ push'[1].reply = "Ok" /\ push'[2] = push[2]
      /\ push'[1] # IdlePush
    <2>1. push'[1] = Verdict(rec) /\ push'[2] = push[2]
        BY <1>1, <1>2 DEF Slots
    <2>2. Verdict(rec).todo = todo /\ Verdict(rec).retry = rec.retry
        BY DEF Verdict
    <2> QED
        BY <2>1, <2>2 DEF IdlePush
<1> HIDE DEF rec, todo, new, n
<1>7. /\ Orderly(todo, 2, new, n)
      /\ \A id \in Ids :
            /\ chain[id] = Gone <=> new[id] = Gone
            /\ AllApart(chain[id]) => AllApart(new[id])
            /\ EditsIn(new[id]) \subseteq EditsIn(chain[id]) \cup {n}
            /\ EditLeft(todo, 2, id, new, n) => EditLeft(todo, 1, id, chain, n)
            /\ EditLeft(todo, 1, id, chain, n) /\ Len(todo) >= 2 /\ chain[id] # Gone => EditLeft(todo, 2, id, new, n)
            /\ EditLeft(todo, 2, id, new, n) /\ id \in CardsIn(todo[1])
                   => Parent(LastItem(todo).version) # new[id]
            /\ chain[id] # Gone => EditOf(new[id]) = IF Len(todo) = 1 /\ EditLeft(todo, 1, id, chain, n)
                                                     THEN n ELSE EditOf(chain[id])
    BY <1>2, <1>3, <1>4, <1>5, OrderlyRecorded
<1>8. Len(todo) \in Nat /\ Len(todo) >= 1 /\ 1 \in DOMAIN todo[1] /\ todo[1][1].id \in Ids
    <2>1. 1 \in DOMAIN todo[1] /\ todo[1][1].id \in Ids
        BY <1>2, BatchParts
    <2> DEFINE B == Batches(flushed)
    <2>2. todo \in Seq(B) /\ todo # << >>
        BY <1>2
    <2> HIDE DEF B
    <2> QED
        BY <2>1, <2>2, Rest
<1>9. Shown(push'[1], 2, cards, new, n)
    <2> SUFFICES ASSUME NEW id \in Ids, new[id] # Gone
                 PROVE  /\ cards[id] # Gone
                        /\ IF EditLeft(todo, 2, id, new, n)
                           THEN \/ EditOf(cards[id]) = n /\ ~Corrected(push'[1], id)
                                \/ Parent(LastItem(todo).version) # new[id]
                           ELSE EditOf(cards[id]) = EditOf(new[id]) \/ Corrected(push'[1], id)
        BY <1>6 DEF Shown
    <2>1. chain[id] # Gone
        BY <1>7
    <2>2. /\ cards[id] # Gone
          /\ IF EditLeft(todo, 1, id, chain, n)
             THEN EditOf(cards[id]) = n \/ Parent(LastItem(todo).version) # chain[id]
             ELSE EditOf(cards[id]) = EditOf(chain[id])
        BY <2>1, <1>1, <1>5 DEF Shown, Corrected, rec, todo
    <2>3. Corrected(push'[1], id) <=> id \in CardsIn(rec.retry)
        BY <1>6 DEF Corrected
    <2>4. CASE EditLeft(todo, 2, id, new, n)
        <3>1. EditLeft(todo, 1, id, chain, n)
            BY <2>4, <1>7
        <3>2. CASE id \in CardsIn(todo[1])
            BY <3>2, <2>2, <2>4, <1>7
        <3>3. CASE id \notin CardsIn(todo[1])
            <4>1. new[id] = chain[id] /\ ~Corrected(push'[1], id)
                <5>1. new[id] = chain[id]
                    BY <3>3, <1>4 DEF Recorded, CardsIn
                <5> QED
                    BY <5>1, <3>3, <2>3, <1>4
            <4> QED
                BY <4>1, <3>1, <2>2, <2>4
        <3> QED
            BY <3>2, <3>3
    <2>5. CASE ~EditLeft(todo, 2, id, new, n) /\ EditLeft(todo, 1, id, chain, n)
        <3>0. Len(todo) >= 2 \/ Len(todo) = 1
            <4>1. \A l \in Nat : l >= 1 => l >= 2 \/ l = 1
                OBVIOUS
            <4> QED
                BY <4>1, <1>8, Zenon
        <3>1. Len(todo) = 1 /\ EditOf(new[id]) = n
            BY <3>0, <2>1, <2>5, <1>7
        <3>2. LastItem(todo) = todo[1][1] /\ todo[1][1].id = id
            BY <3>1, <2>5 DEF LastItem, EditLeft
        <3>3. CASE rec.retry = << >>
            <4>1. Parent(LastItem(todo).version) = chain[id]
                BY <3>2, <3>3, <1>4, <1>8
            <4> QED
                BY <4>1, <3>1, <2>2, <2>5
        <3>4. CASE rec.retry # << >>
            <4>1. DOMAIN rec.retry = {1} /\ rec.retry[1].id = id
                BY <3>2, <3>4, <1>4 DEF Item
            <4>2. id \in CardsIn(rec.retry)
                BY <4>1 DEF CardsIn
            <4> QED
                BY <4>2, <2>2, <2>3, <2>5
        <3> QED
            BY <3>3, <3>4
    <2>6. CASE ~EditLeft(todo, 2, id, new, n) /\ ~EditLeft(todo, 1, id, chain, n)
        BY <2>1, <2>2, <2>6, <1>7
    <2> QED
        BY <2>4, <2>5, <2>6
<1>10. Answers(push'[1], new)
    <2>1. rec.retry # << >> => Len(todo[1]) = 1 /\ chain[todo[1][1].id] # Gone
        BY <1>2 DEF Answers, rec, todo
    <2>2. rec.retry # << >> => new[todo[1][1].id] # Gone
        BY <2>1, <1>7, <1>8
    <2> QED
        BY <2>1, <2>2, <1>4, <1>6 DEF Answers
<1>11. From(push'[1]) = 2
    BY <1>6 DEF From
<1>12. TaskCalm(push'[1], cards, new, n)
    BY <1>6, <1>7, <1>9, <1>10, <1>11 DEF TaskCalm
<1>13. n \in Nat
    BY DEF MovesInv, n
<1>14. \A id \in Ids : /\ id \in deleted <=> new[id] = Gone
                       /\ \A k \in EditsIn(new[id]) : k <= n
                       /\ AllApart(new[id])
    <2>1. ServerCalm(chain, n)
        BY DEF Calm, n
    <2> QED
        BY <2>1, <1>7, <1>13 DEF ServerCalm
<1>15. Burst => \A id \in Ids : chain[id] # Gone => ~EditLeft(todo, 1, id, chain, n)
    BY <1>1 DEF Calm, From, rec, todo, n
<1>16. BasesKeep(pending_priority, new)
    <2>1. BasesKeep(pending_priority, chain) /\ DOMAIN pending_priority.bases \subseteq Ids
        BY TakenIs DEF Calm
    <2>2. CASE Burst
        BY <2>1, <2>2, <1>7, <1>15 DEF BasesKeep
    <2>3. CASE ~Burst
        BY <2>3, TakenIs DEF BasesKeep
    <2> QED
        BY <2>2, <2>3
<1>17. Covered(offline_queue, todo, new) /\ DeadEnds(flushing, new)
    BY <1>7, SameLives DEF todo, new
<1>18. Burst => \A id \in Ids : new[id] # Gone => ~EditLeft(todo, 2, id, new, n)
    BY <1>7, <1>15
<1>19. /\ client' = "live" /\ push'[2] = IdlePush /\ flushing' = IdlePush
       /\ ServerCalm(chain, edits)' /\ BasesKeep(pending_priority, chain)'
       /\ Covered(offline_queue, push[1].todo, chain)' /\ DeadEnds(flushing, chain)'
       /\ TaskCalm(push[1], cards, chain, edits)'
    <2>1. client = "live" /\ push[2] = IdlePush
        BY DEF Calm
    <2>2. ServerCalm(chain, edits)'
        BY <1>1, <1>14 DEF ServerCalm, new, n
    <2> QED
        BY <2>1, <2>2, <1>1, <1>2, <1>6, <1>12, <1>16, <1>17 DEF new, n
<1>20. (Burst => \A id \in Ids : chain[id] # Gone => ~EditLeft(push[1].todo, From(push[1]), id, chain, edits))'
    BY <1>1, <1>6, <1>11, <1>18 DEF new, n, Burst
<1>21. Calm'
    BY <1>19, <1>20 DEF Calm
<1> QED
    BY <1>7, <1>21 DEF new, n

\* Nothing that Calm speaks of changes but the running task, the list and the queue.
LEMMA SameChain ==
    ASSUME MovesInv, Calm, UNCHANGED <<chain, deleted, edits, pending_priority, flushing>>,
           client' = "live", push'[2] = IdlePush, push'[1] # IdlePush => flushing = IdlePush,
           Covered(offline_queue', push'[1].todo, chain),
           TaskCalm(push'[1], cards', chain, edits),
           Burst => \A id \in Ids : chain[id] # Gone => ~EditLeft(push'[1].todo, From(push'[1]), id, chain, edits)
    PROVE  Calm'
<1>1. Burst' = Burst
    BY DEF Burst
<1>2. (Burst => \A id \in Ids : chain[id] # Gone => ~EditLeft(push[1].todo, From(push[1]), id, chain, edits))'
    BY <1>1
<1>3. ServerCalm(chain, edits)'
    BY DEF Calm, ServerCalm
<1>4. BasesKeep(pending_priority, chain)' /\ DeadEnds(flushing, chain)'
    BY DEF Calm
<1>5. Covered(offline_queue, push[1].todo, chain)' /\ TaskCalm(push[1], cards, chain, edits)'
    OBVIOUS
<1> QED
    BY <1>2, <1>3, <1>4, <1>5 DEF Calm

LEMMA RefusedCalm ==
    ASSUME MovesInv, Calm, ServePush(1), Verdict(push[1]).reply # "Ok"
    PROVE  Calm' /\ UNCHANGED chain
<1> DEFINE rec  == push[1]
           todo == push[1].todo
           x    == todo[1][1]
           now  == Verdict(rec)
<1>1. /\ rec.reply = "waiting" /\ push' = [push EXCEPT ![1] = now]
      /\ UNCHANGED <<chain, deleted, cards, offline_queue, pending_priority, client, edits, flushing>>
    BY DEF ServePush, Serve, burstVars, tallies
<1>2. /\ Answers(rec, chain) /\ TaskCalm(rec, cards, chain, edits) /\ push \in [Slots -> Tasks(flushed)]
      /\ Head(todo) = todo[1] /\ todo[1] \in Batches(flushed) /\ flushing = IdlePush
      /\ chain \in [Ids -> Versions(flushed)]
    BY <1>1, OnTheWay DEF Slots
<1>3. ServerCalm(chain, edits)
    BY DEF Calm
<1>4. rec.retry = << >>
    <2> SUFFICES ASSUME rec.retry # << >> PROVE FALSE
        OBVIOUS
    <2> DEFINE e == Newest(x.version)
    <2>1. Request(rec) = <<Item(x.id, Append(chain[x.id], e))>> /\ chain[x.id] # Gone
        BY <1>1, <1>2 DEF Answers, Request
    <2>2. x.id \in Ids /\ x.version \in Seq(Bodies(flushed)) /\ x.version # Gone
        BY <1>2, BatchParts DEF Versions
    <2>3. e \in Bodies(flushed) /\ chain[x.id] \in Seq(Bodies(flushed))
        BY <2>2, <1>2, NewestIn DEF Versions
    <2> HIDE DEF e
    <2>4. Parent(Append(chain[x.id], e)) = chain[x.id]
        BY <2>3, Grown
    <2>5. x.id \notin deleted
        BY <2>1, <2>2, <1>3 DEF ServerCalm
    <2> HIDE DEF x, rec, todo
    <2>6. Acceptable(Item(x.id, Append(chain[x.id], e)))
        BY <2>4, <2>5 DEF Acceptable, Item
    <2>7. \A i \in DOMAIN Request(rec) : Acceptable(Request(rec)[i])
        BY <2>1, <2>6
    <2>8. Verdict(rec).reply = "Ok"
        BY <2>7 DEF Verdict
    <2> QED
        BY <2>8 DEF rec
<1>5. /\ now.todo = todo /\ now.retry = << >> /\ now.current = chain[x.id]
      /\ now.reply = IF x.id \in deleted THEN "AlreadyDeleted" ELSE "AncestorMismatch"
    <2>1. Request(rec) = todo[1]
        BY <1>2, <1>4 DEF Request
    <2>2. /\ now.todo = todo /\ now.retry = rec.retry /\ now.current = chain[x.id]
          /\ now.reply \in {"Ok", IF x.id \in deleted THEN "AlreadyDeleted" ELSE "AncestorMismatch"}
        BY <2>1 DEF Verdict
    <2> QED
        BY <2>2, <1>4
<1>6. x.id \in Ids
    BY <1>2, BatchParts
<1> HIDE DEF rec, todo, x, now
<1>7. push'[1] = now /\ push'[2] = push[2] /\ now # IdlePush
    BY <1>1, <1>2, <1>5 DEF Slots, IdlePush
<1>8. x.id \in deleted <=> chain[x.id] = Gone
    BY <1>3, <1>6 DEF ServerCalm
<1>9. Answers(now, chain)
    BY <1>5, <1>8 DEF Answers, x, todo
<1>10. From(rec) = 1 /\ From(now) = 1
    BY <1>1, <1>5 DEF From, rec
<1>11. TaskCalm(now, cards, chain, edits)
    <2>1. Orderly(todo, 1, chain, edits) /\ Shown(rec, 1, cards, chain, edits)
        BY <1>2, <1>10 DEF TaskCalm, rec, todo
    <2>2. \A id \in Ids : ~Corrected(rec, id) /\ ~Corrected(now, id)
        BY <1>1, <1>5 DEF Corrected, rec
    <2>3. Shown(now, 1, cards, chain, edits)
        BY <2>1, <2>2, <1>5 DEF Shown, rec, todo
    <2> QED
        BY <2>1, <2>3, <1>5, <1>9, <1>10 DEF TaskCalm
<1>12. client = "live" /\ push[2] = IdlePush /\ Covered(offline_queue, todo, chain)
    BY DEF Calm, todo
<1>13. Burst => \A id \in Ids : chain[id] # Gone => ~EditLeft(todo, 1, id, chain, edits)
    BY <1>10 DEF Calm, rec, todo
<1>14. Calm'
    BY <1>1, <1>2, <1>5, <1>7, <1>10, <1>11, <1>12, <1>13, SameChain
<1> QED
    BY <1>1, <1>14

\* What a task does next, while the client is connected.
NextTask(all) == IF all = << >> THEN IdlePush ELSE Waiting(all, << >>)

LEMMA QueueNone == \A queue : QueueAll(queue, << >>) = queue
<1> SUFFICES ASSUME NEW queue PROVE QueueAll(queue, << >>) = queue
    OBVIOUS
<1> DEFINE after(f) == [n \in 0 .. 0 |-> IF n = 0 THEN queue ELSE Queue(f[n - 1], << >>[n])]
           F == CHOOSE f : f = after(f)
           g == [n \in 0 .. 0 |-> queue]
<1>1. Len(<< >>) = 0
    OBVIOUS
<1>2. QueueAll(queue, << >>) = F[0]
    BY <1>1 DEF QueueAll
<1>3. \A n \in 0 .. 0 : n = 0
    OBVIOUS
<1>4. g = after(g)
    BY <1>3
<1> HIDE DEF after
<1>5. F = after(F)
    BY <1>4
<1> HIDE DEF F
<1>6. F[0] = queue
    BY <1>5 DEF after
<1> QED
    BY <1>2, <1>6

LEMMA Continued ==
    ASSUME client = "live", NEW t \in Slots, NEW all, NEW queue, Continue(t, all, queue)
    PROVE  push' = [push EXCEPT ![t] = NextTask(all)] /\ offline_queue' = queue
BY QueueNone DEF Continue, NextTask

LEMMA NextIs ==
    ASSUME NEW all
    PROVE  LET rec == NextTask(all) IN
           /\ rec.todo = all /\ rec.retry = << >> /\ rec.reply \in {"none", "waiting"} /\ From(rec) = 1
           /\ (rec # IdlePush => rec.reply = "waiting") /\ \A id : ~Corrected(rec, id)
           /\ \A ch : rec # IdlePush => Answers(rec, ch)
<1>1. CASE all = << >>
    BY <1>1 DEF NextTask, IdlePush, From, Corrected
<1>2. CASE all # << >>
    BY <1>2 DEF NextTask, Waiting, From, Corrected, Answers
<1> QED
    BY <1>1, <1>2

\* What is left after the first batch, which has been recorded or concerned a card that is gone.
ShownAfter(todo, seen, ch, n) ==
    \A id \in Ids : ch[id] # Gone =>
        /\ seen[id] # Gone
        /\ IF EditLeft(todo, 2, id, ch, n)
           THEN EditOf(seen[id]) = n \/ Parent(LastItem(todo).version) # ch[id]
           ELSE EditOf(seen[id]) = EditOf(ch[id])

LEMMA AfterFirst ==
    ASSUME MovesInv, NEW rec \in Tasks(flushed), rec.todo # << >>, NEW seen, NEW n,
           Orderly(rec.todo, 2, chain, n), ShownAfter(rec.todo, seen, chain, n)
    PROVE  LET next == NextTask(Tail(rec.todo)) IN
           /\ TaskCalm(next, seen, chain, n)
           /\ \A id : EditLeft(next.todo, From(next), id, chain, n) <=> EditLeft(rec.todo, 2, id, chain, n)
           /\ \A p \in DOMAIN rec.todo \ {1} : \E q \in DOMAIN next.todo : next.todo[q] = rec.todo[p]
<1> DEFINE todo == rec.todo
           rest == Tail(todo)
           next == NextTask(rest)
           B    == Batches(flushed)
<1>1. todo \in Seq(B) /\ todo # << >>
    BY TaskParts
<1> HIDE DEF B
<1>2. /\ Orderly(rest, 1, chain, n)
      /\ \A id : EditLeft(rest, 1, id, chain, n) <=> EditLeft(todo, 2, id, chain, n)
      /\ Len(todo) >= 2 => LastItem(rest) = LastItem(todo)
    BY <1>1, OrderlyRest
<1>3. /\ Len(todo) \in Nat /\ DOMAIN todo = 1 .. Len(todo) /\ DOMAIN rest = 1 .. Len(todo) - 1
      /\ \A p \in 1 .. Len(todo) - 1 : rest[p] = todo[p + 1]
    BY <1>1, Rest
<1>4. /\ next.todo = rest /\ From(next) = 1 /\ \A id : ~Corrected(next, id)
      /\ next # IdlePush => Answers(next, chain)
    BY NextIs
<1>5. \A id : EditLeft(todo, 2, id, chain, n) => Len(todo) >= 2
    BY <1>3 DEF EditLeft
<1>6. ASSUME NEW p \in DOMAIN todo \ {1}
      PROVE  \E q \in DOMAIN rest : rest[q] = todo[p]
    <2>1. p - 1 \in 1 .. Len(todo) - 1 /\ (p - 1) + 1 = p
        BY <1>3, <1>6
    <2>2. rest[p - 1] = todo[p]
        BY <2>1, <1>3
    <2> QED
        BY <2>1, <2>2, <1>3
<1> HIDE DEF todo, rest, next
<1>7. Shown(next, 1, seen, chain, n)
    <2> SUFFICES ASSUME NEW id \in Ids, chain[id] # Gone
                 PROVE  /\ seen[id] # Gone
                        /\ IF EditLeft(rest, 1, id, chain, n)
                           THEN \/ EditOf(seen[id]) = n /\ ~Corrected(next, id)
                                \/ Parent(LastItem(rest).version) # chain[id]
                           ELSE EditOf(seen[id]) = EditOf(chain[id]) \/ Corrected(next, id)
        BY <1>4 DEF Shown
    <2>1. /\ seen[id] # Gone
          /\ IF EditLeft(todo, 2, id, chain, n)
             THEN EditOf(seen[id]) = n \/ Parent(LastItem(todo).version) # chain[id]
             ELSE EditOf(seen[id]) = EditOf(chain[id])
        BY DEF todo, ShownAfter
    <2> QED
        BY <2>1, <1>2, <1>4, <1>5
<1>8. TaskCalm(next, seen, chain, n)
    BY <1>2, <1>4, <1>7 DEF TaskCalm
<1> QED
    BY <1>2, <1>4, <1>6, <1>8 DEF next, rest, todo

\* A running task gets its next batch.
LEMMA Proceeds ==
    ASSUME MovesInv, Calm, UNCHANGED <<chain, deleted, edits, pending_priority, flushing, client>>,
           flushing = IdlePush, NEW next, push' = [push EXCEPT ![1] = next],
           TaskCalm(next, cards', chain, edits), Covered(offline_queue', next.todo, chain),
           \A id \in Ids : chain[id] # Gone /\ EditLeft(next.todo, From(next), id, chain, edits)
                              => EditLeft(push[1].todo, From(push[1]), id, chain, edits)
    PROVE  Calm'
<1>1. push'[1] = next /\ push'[2] = push[2]
    BY DEF MovesInv, Slots
<1>2. client' = "live" /\ push'[2] = IdlePush
    BY <1>1 DEF Calm
<1>3. Burst => \A id \in Ids : chain[id] # Gone => ~EditLeft(next.todo, From(next), id, chain, edits)
    BY DEF Calm
<1> QED
    BY <1>1, <1>2, <1>3, SameChain

LEMMA AnsweredCalm ==
    ASSUME MovesInv, Calm, PushAnswered(1)
    PROVE  Calm' /\ UNCHANGED chain
<1> DEFINE rec   == push[1]
           todo  == push[1].todo
           items == push[1].todo[1]
           x     == push[1].todo[1][1]
           rest  == Tail(push[1].todo)
           n     == edits
<1>1. Answered(rec) /\ UNCHANGED <<chain, deleted, edits, pending_priority, flushing, client>>
    BY DEF PushAnswered, serverVars, burstVars, tallies
<1>2. /\ Answers(rec, chain) /\ TaskCalm(rec, cards, chain, n) /\ flushing = IdlePush
      /\ todo \in Seq(Batches(flushed)) /\ todo # << >> /\ items \in Batches(flushed) /\ Head(todo) = items
      /\ rec \in Tasks(flushed) /\ chain \in [Ids -> Versions(flushed)]
    BY <1>1, OnTheWay DEF Answered, Slots
<1>3. /\ client = "live" /\ Covered(offline_queue, todo, chain) /\ DOMAIN cards = Ids
      /\ offline_queue \in Seq(Items(flushed))
    BY DEF Calm, MovesInv
<1>4. /\ Len(items) \in Nat /\ Len(items) >= 1 /\ DOMAIN items = 1 .. Len(items)
      /\ x.id \in Ids /\ x.version # Gone /\ items \in Seq(Items(flushed))
    BY <1>2, BatchParts
<1>5. Len(todo) \in Nat /\ Len(todo) >= 1 /\ DOMAIN todo = 1 .. Len(todo)
    <2> DEFINE B == Batches(flushed)
    <2>1. todo \in Seq(B) /\ todo # << >>
        BY <1>2
    <2> HIDE DEF B
    <2> QED
        BY <2>1, Rest
<1>6. Len(items) = 1 => DOMAIN items = {1} /\ CardsIn(items) = {x.id} /\ EntriesOf(items) = {x}
    BY <1>4 DEF CardsIn, EntriesOf
<1>7. Rebasing(rec) => rec.reply # "Ok"
    BY DEF Rebasing
<1>8. \/ /\ rec.reply = "Ok"
          /\ Continue(1, rest, Drop(offline_queue, items)) /\ cards' = Put(cards, rec.retry)
       \/ /\ rec.reply # "Ok" /\ Len(items) > 1
          /\ Continue(1, Singles(items) \o rest, offline_queue) /\ UNCHANGED cards
       \/ /\ Len(items) = 1 /\ Rebasing(rec)
          /\ push' = [push EXCEPT ![1] = Rebase(rec)] /\ UNCHANGED <<cards, offline_queue>>
       \/ /\ Len(items) = 1 /\ rec.reply # "Ok" /\ ~Rebasing(rec)
          /\ Continue(1, rest, Queue(offline_queue, items)) /\ UNCHANGED cards
    <2>1. Head(push[1].todo) = items
        BY <1>2
    <2> HIDE DEF items
    <2> QED
        BY <2>1 DEF PushAnswered
<1>9. CASE rec.reply = "Ok"
    <2> DEFINE next == NextTask(rest)
    <2>1. Continue(1, rest, Drop(offline_queue, items)) /\ cards' = Put(cards, rec.retry)
        BY <1>9, <1>7, <1>8
    <2>2. push' = [push EXCEPT ![1] = next] /\ offline_queue' = Drop(offline_queue, items)
        BY <2>1, <1>3, Continued DEF Slots
    <2>3. From(rec) = 2 /\ Orderly(todo, 2, chain, n) /\ Shown(rec, 2, cards, chain, n)
        BY <1>2, <1>9 DEF From, TaskCalm
    <2>4. ASSUME NEW id \in Ids, chain[id] # Gone
          PROVE  /\ cards'[id] # Gone
                 /\ IF EditLeft(todo, 2, id, chain, n)
                    THEN EditOf(cards'[id]) = n \/ Parent(LastItem(todo).version) # chain[id]
                    ELSE EditOf(cards'[id]) = EditOf(chain[id])
        <3>1. /\ cards[id] # Gone
              /\ IF EditLeft(todo, 2, id, chain, n)
                 THEN \/ EditOf(cards[id]) = n /\ ~Corrected(rec, id)
                      \/ Parent(LastItem(todo).version) # chain[id]
                 ELSE EditOf(cards[id]) = EditOf(chain[id]) \/ Corrected(rec, id)
            BY <2>3, <2>4 DEF Shown
        <3>2. CASE id \in CardsIn(rec.retry)
            <4>1. PICK i \in DOMAIN rec.retry : rec.retry[i].id = id /\ cards'[id] = rec.retry[i].version
                BY <2>1, <3>2, <1>3, PutIs
            <4>2. rec.retry = <<Item(x.id, chain[x.id])>>
                BY <4>1, <1>2, <1>9 DEF Answers
            <4>3. i = 1 /\ rec.retry[1] = Item(x.id, chain[x.id])
                BY <4>1, <4>2
            <4>4. cards'[id] = chain[id]
                BY <4>1, <4>3 DEF Item
            <4>5. Corrected(rec, id)
                BY <3>2, <1>9 DEF Corrected
            <4> QED
                BY <2>4, <3>1, <4>4, <4>5
        <3>3. CASE id \notin CardsIn(rec.retry)
            <4>1. cards'[id] = cards[id] /\ ~Corrected(rec, id)
                BY <2>1, <3>3, <1>3, PutIs DEF Corrected
            <4> QED
                BY <3>1, <4>1
        <3> QED
            BY <3>2, <3>3
    <2>5. /\ TaskCalm(next, cards', chain, n)
          /\ \A id : EditLeft(next.todo, From(next), id, chain, n) <=> EditLeft(todo, 2, id, chain, n)
          /\ \A p \in DOMAIN todo \ {1} : \E q \in DOMAIN next.todo : next.todo[q] = todo[p]
        <3>1. ShownAfter(todo, cards', chain, n)
            BY <2>4 DEF ShownAfter
        <3> QED
            BY <1>2, <2>3, <3>1, AfterFirst
    <2> HIDE DEF next
    <2>6. EntriesOf(offline_queue') = {c \in EntriesOf(offline_queue) : c.id \notin CardsIn(items)}
        BY <2>2, <1>3, DropIs
    <2>7. Covered(offline_queue', next.todo, chain)
        BY <2>5, <2>6, <1>3 DEF Covered
    <2> QED
        BY <1>1, <1>2, <2>2, <2>3, <2>5, <2>7, Proceeds
<1>10. CASE rec.reply # "Ok" /\ Len(items) > 1
    <2> DEFINE all  == Singles(items) \o rest
               next == NextTask(all)
    <2>1. Continue(1, all, offline_queue) /\ UNCHANGED cards
        <3>1. \A l \in Nat : l > 1 => l # 1
            OBVIOUS
        <3>2. Len(items) # 1
            BY <3>1, <1>4, <1>10, Zenon
        <3> QED
            BY <3>2, <1>10, <1>8
    <2>2. push' = [push EXCEPT ![1] = next] /\ offline_queue' = offline_queue
        BY <2>1, <1>3, Continued DEF Slots
    <2>3. From(rec) = 1 /\ Orderly(todo, 1, chain, n) /\ Shown(rec, 1, cards, chain, n)
        BY <1>2, <1>10 DEF From, TaskCalm
    <2>4. /\ Orderly(all, 1, chain, n)
          /\ \A id \in Ids : chain[id] # Gone => (EditLeft(all, 1, id, chain, n) <=> EditLeft(todo, 1, id, chain, n))
          /\ Len(todo) >= 2 => LastItem(all) = LastItem(todo)
          /\ \A id : (\E p \in DOMAIN todo : id \in CardsIn(todo[p]))
                     => \E p \in DOMAIN all : id \in CardsIn(all[p])
        BY <1>2, <1>10, <2>3, OrderlySingles
    <2>5. /\ next.todo = all /\ From(next) = 1 /\ \A id : ~Corrected(next, id)
          /\ next # IdlePush => Answers(next, chain)
        BY NextIs
    <2>6. ASSUME NEW id, EditLeft(todo, 1, id, chain, n)
          PROVE  Len(todo) >= 2
        <3>1. Len(todo[Len(todo)]) = 1
            BY <2>6 DEF EditLeft, Final
        <3>2. Len(todo) # 1
            BY <3>1, <1>10
        <3>3. \A l \in Nat : l >= 1 /\ l # 1 => l >= 2
            OBVIOUS
        <3> QED
            BY <3>2, <3>3, <1>5
    <2>7. \A id : ~Corrected(rec, id)
        BY <1>10 DEF Corrected
    <2> HIDE DEF next, all
    <2>8. Shown(next, 1, cards', chain, n)
        <3> SUFFICES ASSUME NEW id \in Ids, chain[id] # Gone
                     PROVE  /\ cards[id] # Gone
                            /\ IF EditLeft(all, 1, id, chain, n)
                               THEN \/ EditOf(cards[id]) = n /\ ~Corrected(next, id)
                                    \/ Parent(LastItem(all).version) # chain[id]
                               ELSE EditOf(cards[id]) = EditOf(chain[id]) \/ Corrected(next, id)
            BY <2>1, <2>5 DEF Shown
        <3>1. /\ cards[id] # Gone
              /\ IF EditLeft(todo, 1, id, chain, n)
                 THEN \/ EditOf(cards[id]) = n /\ ~Corrected(rec, id)
                      \/ Parent(LastItem(todo).version) # chain[id]
                 ELSE EditOf(cards[id]) = EditOf(chain[id]) \/ Corrected(rec, id)
            BY <2>3 DEF Shown
        <3> QED
            BY <3>1, <2>4, <2>5, <2>6, <2>7
    <2>9. TaskCalm(next, cards', chain, n)
        BY <2>4, <2>5, <2>8 DEF TaskCalm
    <2>10. Covered(offline_queue', next.todo, chain)
        BY <2>2, <2>4, <2>5, <1>3 DEF Covered
    <2> QED
        BY <1>1, <1>2, <2>2, <2>3, <2>4, <2>5, <2>9, <2>10, Proceeds
<1>11. CASE Len(items) = 1 /\ Rebasing(rec)
    <2> DEFINE next == Rebase(rec)
    <2>1. push' = [push EXCEPT ![1] = next] /\ UNCHANGED <<cards, offline_queue>>
        <3>1. ~(Len(items) > 1)
            BY <1>11
        <3> QED
            BY <3>1, <1>11, <1>7, <1>8
    <2>2. rec.reply = "AncestorMismatch" /\ rec.retry = << >> /\ chain[x.id] # Gone /\ rec.current = chain[x.id]
        BY <1>2, <1>11 DEF Rebasing, Answers
    <2>3. /\ next.todo = todo /\ next.reply = "waiting"
          /\ next.retry = <<Item(x.id, Append(chain[x.id], Newest(x.version)))>>
        BY <2>2, <1>2 DEF Rebase, Waiting
    <2> HIDE DEF next
    <2>4. From(rec) = 1 /\ From(next) = 1 /\ \A id : ~Corrected(rec, id) /\ ~Corrected(next, id)
        BY <2>2, <2>3 DEF From, Corrected
    <2>5. Orderly(todo, 1, chain, n) /\ Shown(rec, 1, cards, chain, n)
        BY <1>2, <2>4 DEF TaskCalm
    <2>6. Answers(next, chain)
        BY <2>2, <2>3, <1>11 DEF Answers
    <2>7. Shown(next, 1, cards, chain, n)
        BY <2>3, <2>4, <2>5 DEF Shown
    <2>8. TaskCalm(next, cards', chain, n)
        BY <2>1, <2>3, <2>4, <2>5, <2>6, <2>7 DEF TaskCalm
    <2>9. Covered(offline_queue', next.todo, chain)
        BY <2>1, <2>3, <1>3
    <2> QED
        BY <1>1, <1>2, <2>1, <2>3, <2>4, <2>8, <2>9, Proceeds
<1>12. CASE Len(items) = 1 /\ rec.reply # "Ok" /\ ~Rebasing(rec)
    <2> DEFINE next == NextTask(rest)
    <2>1. Continue(1, rest, Queue(offline_queue, items)) /\ UNCHANGED cards
        <3>1. ~(Len(items) > 1)
            BY <1>12
        <3> QED
            BY <3>1, <1>12, <1>8
    <2>2. push' = [push EXCEPT ![1] = next] /\ offline_queue' = Queue(offline_queue, items)
        BY <2>1, <1>3, Continued DEF Slots
    <2>3. chain[x.id] = Gone
        BY <1>1, <1>2, <1>12 DEF Answers, Answered, Rebasing
    <2>4. From(rec) = 1 /\ Orderly(todo, 1, chain, n) /\ Shown(rec, 1, cards, chain, n)
        BY <1>2, <1>12 DEF From, TaskCalm
    <2>5. Orderly(todo, 2, chain, n)
        BY <2>4, <1>5, OrderlyLater
    <2>6. ASSUME NEW id \in Ids, chain[id] # Gone
          PROVE  EditLeft(todo, 2, id, chain, n) <=> EditLeft(todo, 1, id, chain, n)
        <3>1. CASE Len(todo) = 1
            <4>1. LastItem(todo) = x
                BY <3>1 DEF LastItem
            <4> QED
                BY <3>1, <4>1, <2>3, <2>6 DEF EditLeft
        <3>2. CASE Len(todo) # 1
            <4>1. \A l \in Nat : l >= 1 /\ l # 1 => 2 <= l /\ 1 <= l
                OBVIOUS
            <4>2. 2 <= Len(todo) /\ 1 <= Len(todo)
                BY <4>1, <3>2, <1>5
            <4> QED
                BY <4>2 DEF EditLeft
        <3> QED
            BY <3>1, <3>2
    <2>7. ASSUME NEW id \in Ids, chain[id] # Gone
          PROVE  /\ cards'[id] # Gone
                 /\ IF EditLeft(todo, 2, id, chain, n)
                    THEN EditOf(cards'[id]) = n \/ Parent(LastItem(todo).version) # chain[id]
                    ELSE EditOf(cards'[id]) = EditOf(chain[id])
        <3>1. /\ cards[id] # Gone
              /\ IF EditLeft(todo, 1, id, chain, n)
                 THEN \/ EditOf(cards[id]) = n /\ ~Corrected(rec, id)
                      \/ Parent(LastItem(todo).version) # chain[id]
                 ELSE EditOf(cards[id]) = EditOf(chain[id]) \/ Corrected(rec, id)
            BY <2>4, <2>7 DEF Shown
        <3>2. ~Corrected(rec, id)
            BY <1>12 DEF Corrected
        <3> QED
            BY <2>1, <2>6, <2>7, <3>1, <3>2
    <2>8. /\ TaskCalm(next, cards', chain, n)
          /\ \A id : EditLeft(next.todo, From(next), id, chain, n) <=> EditLeft(todo, 2, id, chain, n)
          /\ \A p \in DOMAIN todo \ {1} : \E q \in DOMAIN next.todo : next.todo[q] = todo[p]
        <3>1. ShownAfter(todo, cards', chain, n)
            BY <2>7 DEF ShownAfter
        <3> QED
            BY <1>2, <2>5, <3>1, AfterFirst
    <2> HIDE DEF next
    <2>9. EntriesOf(offline_queue') \subseteq EntriesOf(offline_queue) \cup {x}
        BY <2>2, <1>3, <1>4, <1>6, <1>12, QueueIs
    <2>10. Covered(offline_queue', next.todo, chain)
        <3> SUFFICES ASSUME NEW c \in EntriesOf(offline_queue'), chain[c.id] # Gone
                     PROVE  \E q \in DOMAIN next.todo : c.id \in CardsIn(next.todo[q])
            BY DEF Covered
        <3>1. c \in EntriesOf(offline_queue) /\ c.id # x.id
            BY <2>9, <2>3
        <3>2. PICK p \in DOMAIN todo : c.id \in CardsIn(todo[p])
            BY <3>1, <1>3 DEF Covered
        <3>3. p # 1
            BY <3>1, <3>2, <1>6, <1>12
        <3> QED
            BY <3>2, <3>3, <2>8
    <2> QED
        BY <1>1, <1>2, <2>2, <2>4, <2>6, <2>8, <2>10, Proceeds
<1>13. Calm'
    <2>1. \/ rec.reply = "Ok" \/ (rec.reply # "Ok" /\ Len(items) > 1) \/ (Len(items) = 1 /\ Rebasing(rec))
          \/ (Len(items) = 1 /\ rec.reply # "Ok" /\ ~Rebasing(rec))
        BY <1>8
    <2> QED
        BY <2>1, <1>9, <1>10, <1>11, <1>12
<1> QED
    BY <1>1, <1>13

\* A sync, its flush, and their answers leave the server as it is.
LEMMA SameTask ==
    ASSUME MovesInv, Calm, UNCHANGED <<chain, deleted, edits, pending_priority, push, client>>,
           TaskCalm(push[1], cards', chain, edits), Covered(offline_queue', push[1].todo, chain),
           DeadEnds(flushing', chain), flushing' # IdlePush => push[1] = IdlePush
    PROVE  Calm'
<1>1. Burst' = Burst
    BY DEF Burst
<1>2. (Burst => \A id \in Ids : chain[id] # Gone => ~EditLeft(push[1].todo, From(push[1]), id, chain, edits))'
    BY <1>1 DEF Calm
<1>3. ServerCalm(chain, edits)'
    BY DEF Calm, ServerCalm
<1>4. BasesKeep(pending_priority, chain)' /\ DeadEnds(flushing, chain)'
    BY DEF Calm
<1>5. Covered(offline_queue, push[1].todo, chain)' /\ TaskCalm(push[1], cards, chain, edits)'
    OBVIOUS
<1> QED
    BY <1>2, <1>3, <1>4, <1>5 DEF Calm

LEMMA FlushServedCalm ==
    ASSUME MovesInv, Calm, ServeFlush
    PROVE  Calm' /\ UNCHANGED chain
<1> DEFINE rec == flushing
           x   == flushing.todo[1][1]
           now == Verdict(flushing)
<1>1. rec.reply = "waiting" /\ Serve(rec) /\ flushing' = now /\ UNCHANGED push
    BY DEF ServeFlush, Serve
<1>2. /\ rec \in Tasks(flushed) /\ rec # IdlePush /\ rec.todo # << >> /\ Head(rec.todo) = rec.todo[1]
      /\ rec.todo[1] \in Batches(flushed)
    BY <1>1, Running DEF MovesInv
<1>3. DeadEnds(rec, chain) /\ push[1] = IdlePush /\ ServerCalm(chain, edits)
    BY <1>2 DEF Calm
<1>4. x.id \in Ids /\ 1 \in DOMAIN rec.todo[1]
    BY <1>2, BatchParts
<1>5. 1 \in DOMAIN rec.todo
    <2> DEFINE B == Batches(flushed)
    <2>1. rec.todo \in Seq(B) /\ rec.todo # << >>
        BY <1>2, TaskParts
    <2> HIDE DEF B
    <2> QED
        BY <2>1
<1>6. chain[x.id] = Gone /\ rec.retry = << >>
    BY <1>3, <1>5 DEF DeadEnds
<1>7. Request(rec) = rec.todo[1]
    BY <1>2, <1>6 DEF Request
<1>8. x.id \in deleted
    BY <1>3, <1>4, <1>6 DEF ServerCalm
<1>9. now.reply = "AlreadyDeleted" /\ now.todo = rec.todo /\ now.retry = << >>
    <2>1. ~Acceptable(Request(rec)[1]) /\ 1 \in DOMAIN Request(rec) /\ Request(rec)[1] = x
        BY <1>4, <1>7, <1>8 DEF Acceptable
    <2>2. ~\A i \in DOMAIN Request(rec) : Acceptable(Request(rec)[i])
        BY <2>1
    <2> HIDE DEF x
    <2> QED
        BY <2>1, <2>2, <1>6, <1>8 DEF Verdict
<1>10. UNCHANGED <<chain, deleted, cards, offline_queue, pending_priority, client, edits>>
    BY <1>1, <1>9 DEF Serve, burstVars, tallies
<1> HIDE DEF now
<1>11. DeadEnds(now, chain)
    BY <1>3, <1>9 DEF DeadEnds
<1>12. TaskCalm(push[1], cards, chain, edits) /\ Covered(offline_queue, push[1].todo, chain)
    BY DEF Calm
<1>13. Calm'
    BY <1>1, <1>3, <1>10, <1>11, <1>12, SameTask
<1> QED
    BY <1>10, <1>13

LEMMA FlushAnsweredCalm ==
    ASSUME MovesInv, Calm, FlushAnswered
    PROVE  Calm' /\ UNCHANGED chain
<1> DEFINE rec  == flushing
           rest == Tail(flushing.todo)
<1>1. Answered(rec) /\ UNCHANGED <<chain, deleted, edits, pending_priority, push>>
    BY DEF FlushAnswered, serverVars, burstVars, tallies
<1>2. rec.reply # "none" /\ rec \in Tasks(flushed)
    BY <1>1 DEF Answered, MovesInv
<1>3. rec # IdlePush /\ rec.todo # << >>
    BY <1>2, Running
<1>4. DeadEnds(rec, chain) /\ push[1] = IdlePush /\ client = "live"
    BY <1>3 DEF Calm
<1>5. rec.reply = "AlreadyDeleted"
    BY <1>1, <1>4 DEF Answered, DeadEnds
<1>6. /\ UNCHANGED <<cards, client>>
      /\ \/ flushing' = IdlePush /\ offline_queue' = << >>
         \/ flushing' = Waiting(rest, << >>) /\ UNCHANGED offline_queue
    BY <1>4, <1>5 DEF FlushAnswered, Rebasing
<1>7. \A p \in DOMAIN rest : Len(rest[p]) = 1 /\ chain[rest[p][1].id] = Gone
    <2> DEFINE B == Batches(flushed)
    <2>1. rec.todo \in Seq(B) /\ rec.todo # << >>
        BY <1>2, <1>3, TaskParts
    <2> HIDE DEF B
    <2>2. \A p \in DOMAIN rest : rest[p] = rec.todo[p + 1] /\ p + 1 \in DOMAIN rec.todo
        BY <2>1, Rest
    <2> HIDE DEF rest
    <2> QED
        BY <2>2, <1>4 DEF DeadEnds
<1> HIDE DEF rest
<1>8. DeadEnds(IdlePush, chain) /\ DeadEnds(Waiting(rest, << >>), chain)
    BY <1>7 DEF DeadEnds, IdlePush, Waiting
<1>9. DeadEnds(flushing', chain)
    BY <1>6, <1>8
<1>10. TaskCalm(push[1], cards, chain, edits) /\ Covered(offline_queue, push[1].todo, chain)
    BY DEF Calm
<1>11. Covered(<< >>, push[1].todo, chain)
    BY DEF Covered, EntriesOf
<1>12. Covered(offline_queue', push[1].todo, chain)
    BY <1>6, <1>10, <1>11
<1>13. Calm'
    BY <1>1, <1>4, <1>6, <1>9, <1>10, <1>12, SameTask
<1> QED
    BY <1>1, <1>13

LEMMA IdleCalm ==
    ASSUME NEW seen, NEW ch, NEW n,
           \A id \in Ids : ch[id] # Gone => seen[id] # Gone /\ EditOf(seen[id]) = EditOf(ch[id])
    PROVE  /\ TaskCalm(IdlePush, seen, ch, n) /\ From(IdlePush) = 1 /\ DOMAIN IdlePush.todo = {}
           /\ \A id : ~EditLeft(IdlePush.todo, 1, id, ch, n)
<1>1. /\ IdlePush.todo = << >> /\ From(IdlePush) = 1 /\ IdlePush.reply = "none" /\ Len(<< >>) = 0
      /\ DOMAIN IdlePush.todo = {}
    BY DEF IdlePush, From
<1>2. /\ \A id : ~EditLeft(IdlePush.todo, 1, id, ch, n)
      /\ \A id : ~Corrected(IdlePush, id)
      /\ Orderly(IdlePush.todo, 1, ch, n)
    BY <1>1 DEF EditLeft, Corrected, Orderly
<1> QED
    BY <1>1, <1>2 DEF TaskCalm, Shown

\* At rest the list shows the last edit that the server has.
LEMMA AtRest ==
    ASSUME MovesInv, Calm, Quiet
    PROVE  /\ push[1] = IdlePush /\ push[2] = IdlePush /\ flushing = IdlePush /\ client = "live"
           /\ \A id \in Ids : chain[id] # Gone => cards[id] # Gone /\ EditOf(cards[id]) = EditOf(chain[id])
           /\ \A c \in EntriesOf(offline_queue) : chain[c.id] = Gone
<1>1. push[1] = IdlePush /\ push[2] = IdlePush /\ flushing = IdlePush /\ client = "live"
    BY DEF Calm, Quiet, Slots
<1>2. /\ IdlePush.todo = << >> /\ From(IdlePush) = 1 /\ IdlePush.reply = "none" /\ Len(<< >>) = 0
      /\ DOMAIN IdlePush.todo = {}
    BY DEF IdlePush, From
<1>3. /\ \A id, ch, n : ~EditLeft(IdlePush.todo, 1, id, ch, n)
      /\ \A id : ~Corrected(IdlePush, id)
    BY <1>2 DEF EditLeft, Corrected
<1>4. Shown(IdlePush, 1, cards, chain, edits) /\ Covered(offline_queue, IdlePush.todo, chain)
    BY <1>1, <1>2 DEF Calm, TaskCalm
<1>5. \A id \in Ids : chain[id] # Gone => cards[id] # Gone /\ EditOf(cards[id]) = EditOf(chain[id])
    BY <1>3, <1>4 DEF Shown
<1>6. \A c \in EntriesOf(offline_queue) : chain[c.id] = Gone
    BY <1>2, <1>4 DEF Covered
<1> QED
    BY <1>1, <1>5, <1>6

LEMMA SyncCalm ==
    ASSUME MovesInv, Calm, Overlap = FALSE, IncrementalSync
    PROVE  Calm' /\ UNCHANGED chain
<1>1. Quiet /\ Sync /\ UNCHANGED client
    BY DEF IncrementalSync, Steady
<1>2. /\ cards' = Applied
      /\ IF Reconciled = << >>
         THEN flushing' = IdlePush /\ offline_queue' = << >>
         ELSE flushing' = Waiting(Singles(Reconciled), << >>) /\ UNCHANGED offline_queue
      /\ UNCHANGED <<chain, deleted, edits, pending_priority, push>>
    BY <1>1 DEF Sync, burstVars, tallies
<1>3. /\ push[1] = IdlePush
      /\ \A id \in Ids : chain[id] # Gone => cards[id] # Gone /\ EditOf(cards[id]) = EditOf(chain[id])
      /\ \A c \in EntriesOf(offline_queue) : chain[c.id] = Gone
    BY <1>1, AtRest
<1>4. \A id \in Ids : cards'[id] = chain[id] \/ cards'[id] = cards[id]
    BY <1>2 DEF Applied
<1>5. TaskCalm(push[1], cards', chain, edits)
    BY <1>3, <1>4, IdleCalm
<1>6. /\ Reconciled \in Seq(Items(flushed))
      /\ EntriesOf(Reconciled) \subseteq EntriesOf(offline_queue)
    <2>1. offline_queue \in Seq(Items(flushed))
        BY DEF MovesInv
    <2> DEFINE places == {i \in DOMAIN offline_queue :
                             Len(Applied[offline_queue[i].id]) <= Len(offline_queue[i].version)}
    <2>2. Reconciled = Retained(offline_queue, places)
        BY DEF Reconciled
    <2> HIDE DEF places
    <2>3. /\ Reconciled \in Seq(Items(flushed))
          /\ EntriesOf(Reconciled) = {offline_queue[i] : i \in DOMAIN offline_queue \cap places}
        BY <2>1, <2>2, RetainedEntries
    <2> QED
        BY <2>3 DEF EntriesOf
<1>7. DeadEnds(Waiting(Singles(Reconciled), << >>), chain)
    <2> DEFINE A == Items(flushed)
    <2>1. Reconciled \in Seq(A)
        BY <1>6
    <2>2. \A i \in DOMAIN Singles(Reconciled) : Singles(Reconciled)[i] = <<Reconciled[i]>>
        BY DEF Singles
    <2>3. \A i \in DOMAIN Singles(Reconciled) : Reconciled[i] \in EntriesOf(Reconciled)
        BY DEF Singles, EntriesOf
    <2>4. \A x : Len(<<x>>) = 1 /\ <<x>>[1] = x
        OBVIOUS
    <2>5. \A i \in DOMAIN Singles(Reconciled) :
              Len(Singles(Reconciled)[i]) = 1 /\ chain[Singles(Reconciled)[i][1].id] = Gone
        BY <2>2, <2>3, <2>4, <1>3, <1>6
    <2> QED
        BY <2>5 DEF DeadEnds, Waiting
<1>8. DeadEnds(IdlePush, chain)
    BY DEF DeadEnds, IdlePush
<1>9. DeadEnds(flushing', chain)
    BY <1>2, <1>7, <1>8
<1>10. Covered(offline_queue', push[1].todo, chain)
    <2>1. offline_queue' = << >> \/ offline_queue' = offline_queue
        BY <1>2
    <2>2. EntriesOf(<< >>) = {}
        BY DEF EntriesOf
    <2> QED
        BY <2>1, <2>2, <1>3 DEF Covered
<1>11. Calm'
    BY <1>1, <1>2, <1>3, <1>5, <1>9, <1>10, SameTask
<1> QED
    BY <1>2, <1>11

\* A user's step starts at most one task, in the first slot.
LEMMA SpawnedOne ==
    ASSUME MovesInv, Calm, Quiet, NEW todo, NEW queue, Spawn(todo, queue)
    PROVE  push' = [push EXCEPT ![1] = NextTask(todo)] /\ offline_queue' = queue
<1>1. push[1] = IdlePush /\ push[2] = IdlePush /\ client = "live"
    BY AtRest
<1>2. push \in [Slots -> Tasks(flushed)]
    BY DEF MovesInv
<1>3. CASE todo = << >>
    <2>1. UNCHANGED push /\ offline_queue' = queue
        BY <1>3 DEF Spawn
    <2>2. NextTask(todo) = push[1]
        BY <1>1, <1>3 DEF NextTask
    <2>3. [push EXCEPT ![1] = push[1]] = push
        BY <1>2
    <2> QED
        BY <2>1, <2>2, <2>3
<1>4. CASE todo # << >>
    <2> DEFINE t == CHOOSE v \in Free : \A u \in Free : v <= u
    <2>1. Free = {1, 2}
        BY <1>1 DEF Free, Slots
    <2>2. \A v \in {1, 2} : (\A u \in {1, 2} : v <= u) <=> v = 1
        OBVIOUS
    <2>3. t = 1
        BY <2>1, <2>2
    <2>4. Continue(t, todo, queue)
        BY <1>4 DEF Spawn
    <2> HIDE DEF t
    <2>5. Continue(1, todo, queue)
        BY <2>3, <2>4
    <2> QED
        BY <2>5, <1>1, Continued DEF Slots
<1> QED
    BY <1>3, <1>4

LEMMA Started ==
    ASSUME MovesInv, Calm, Quiet, UNCHANGED <<client, flushing>>,
           NEW next, push' = [push EXCEPT ![1] = next],
           ServerCalm(chain, edits)', BasesKeep(pending_priority, chain)',
           Covered(offline_queue', next.todo, chain'), TaskCalm(next, cards', chain', edits'),
           Burst' => \A id \in Ids : chain'[id] # Gone => ~EditLeft(next.todo, From(next), id, chain', edits')
    PROVE  Calm'
<1>1. push'[1] = next /\ push'[2] = push[2]
    BY DEF MovesInv, Slots
<1>2. client' = "live" /\ push'[2] = IdlePush /\ flushing' = IdlePush
    BY <1>1, AtRest
<1>3. \A ch : DeadEnds(IdlePush, ch)
    BY DEF DeadEnds, IdlePush
<1>4. DeadEnds(flushing, chain)'
    BY <1>2, <1>3
<1>5. Covered(offline_queue, push[1].todo, chain)' /\ TaskCalm(push[1], cards, chain, edits)'
    BY <1>1
<1>6. (Burst => \A id \in Ids : chain[id] # Gone => ~EditLeft(push[1].todo, From(push[1]), id, chain, edits))'
    BY <1>1
<1> QED
    BY <1>2, <1>4, <1>5, <1>6 DEF Calm

\* A task of one batch, and one of a batch and an edit.
LEMMA OneBatch ==
    ASSUME NEW M, NEW items \in Batches(M), NEW ch, NEW n, Separate(items), NEW seen,
           \A id \in Ids : ch[id] # Gone => EditOf(ch[id]) \in EditsIn(ch[id]),
           \A i \in DOMAIN items : ch[items[i].id] # Gone => BurstLike(items[i], ch),
           \A id \in Ids : ch[id] # Gone => seen[id] # Gone /\ EditOf(seen[id]) = EditOf(ch[id])
    PROVE  LET next == NextTask(<<items>>) IN
           /\ TaskCalm(next, seen, ch, n) /\ next.todo = <<items>> /\ From(next) = 1
           /\ \A id \in Ids : ch[id] # Gone => ~EditLeft(<<items>>, 1, id, ch, n)
<1> DEFINE todo == <<items>>
           next == NextTask(todo)
<1>1. Len(todo) = 1 /\ todo[1] = items /\ 1 .. 1 = {1}
    OBVIOUS
<1>2. 1 \in DOMAIN items /\ items[1].id \in Ids
    BY BatchParts
<1>3. /\ next.todo = todo /\ From(next) = 1 /\ \A id : ~Corrected(next, id)
      /\ next # IdlePush => Answers(next, ch)
    BY NextIs
<1> HIDE DEF todo, next
<1>4. Orderly(todo, 1, ch, n)
    <2>1. \A p \in 1 .. Len(todo) : p = 1
        BY <1>1
    <2>2. \A p, q \in 1 .. Len(todo) : ~(p < q)
        BY <2>1
    <2> QED
        BY <1>1, <2>1, <2>2, Zenon DEF Orderly
<1>5. ASSUME NEW id \in Ids, ch[id] # Gone
      PROVE  ~EditLeft(todo, 1, id, ch, n)
    <2>1. LastItem(todo) = items[1]
        BY <1>1 DEF LastItem
    <2>2. items[1].id = id => BurstLike(items[1], ch) /\ EditOf(ch[id]) \in EditsIn(ch[id])
        BY <1>2, <1>5
    <2> QED
        BY <2>1, <2>2 DEF EditLeft, EditLike, BurstLike
<1>6. Shown(next, 1, seen, ch, n)
    BY <1>3, <1>5 DEF Shown
<1>7. TaskCalm(next, seen, ch, n)
    BY <1>3, <1>4, <1>6 DEF TaskCalm
<1> QED
    BY <1>3, <1>5, <1>7 DEF next, todo

\* What the server has of a card that it still has.
LEMMA Recorded1 ==
    ASSUME MovesInv, NEW id \in Ids, chain[id] # Gone
    PROVE  EditOf(chain[id]) \in EditsIn(chain[id]) /\ MovesIn(chain[id]) \subseteq flushed
<1>1. chain[id] \in Seq(Bodies(flushed))
    BY DEF MovesInv, Versions
<1>2. EditOf(chain[id]) \in EditsIn(chain[id])
    BY <1>1, Whole
<1>3. \A i \in DOMAIN chain[id] : chain[id][i] \in Bodies(flushed)
    BY <1>1
<1>4. \A b \in Bodies(flushed) : b.move \in flushed
    BY DEF Bodies
<1> QED
    BY <1>2, <1>3, <1>4 DEF MovesIn

\* The versions of a burst keep the contents of its bases.
LEMMA BuiltKeeps ==
    ASSUME NEW M, NEW burst \in Bursts(M), NEW at \in {"list", "push"}, NEW id \in DOMAIN burst.bases
    PROVE  LET v == BuiltOn(burst, id, at) IN
           /\ EditOf(v) = EditOf(burst.bases[id]) /\ v # Gone
           /\ Newest(v).move = burst.move /\ Newest(v).at = at
<1> DEFINE b == burst.bases[id]
           e == [Newest(b) EXCEPT !.move = burst.move, !.at = at]
           v == BuiltOn(burst, id, at)
<1>1. b \in Seq(Bodies(M)) /\ b # Gone
    BY DEF Bursts, Real, Versions
<1>2. Newest(b) \in Bodies(M)
    BY <1>1, NewestIn
<1>3. e.at = at /\ e.move = burst.move /\ e.edit = Newest(b).edit
    BY <1>2 DEF Bodies
<1>4. v = Append(b, e)
    BY DEF BuiltOn
<1>5. b \in Seq(Bodies(M) \cup {e}) /\ e \in Bodies(M) \cup {e}
    BY <1>1, SeqGrows
<1> HIDE DEF b, e, v
<1>6. Newest(v) = e /\ v # Gone
    BY <1>4, <1>5, Grown
<1> QED
    BY <1>3, <1>6 DEF EditOf, v, b

\* The batch of a burst of a new number, whose bases hold what the server does.
LEMMA BurstBatch ==
    ASSUME MovesInv, NEW burst \in Bursts(flushed), burst.move \notin flushed, BasesKeep(burst, chain)
    PROVE  LET items == build_versions(burst, "push") IN
           /\ items \in Batches(flushed \cup {burst.move}) /\ Separate(items)
           /\ \A i \in DOMAIN items :
                /\ items[i].id \in Ids /\ Newest(items[i].version) = [edit |-> EditOf(items[i].version),
                                                                      move |-> burst.move, at |-> "push"]
                /\ chain[items[i].id] # Gone => BurstLike(items[i], chain)
<1> DEFINE items == build_versions(burst, "push")
           N     == flushed \cup {burst.move}
<1>1. /\ items \in Batches(N) /\ Separate(items) /\ CardsIn(items) = DOMAIN burst.bases
      /\ \A i \in DOMAIN items : items[i].version = BuiltOn(burst, items[i].id, "push")
    BY BuildVersions
<1> HIDE DEF items
<1>2. ASSUME NEW i \in DOMAIN items
      PROVE  /\ items[i].id \in Ids /\ Newest(items[i].version) = [edit |-> EditOf(items[i].version),
                                                                   move |-> burst.move, at |-> "push"]
             /\ chain[items[i].id] # Gone => BurstLike(items[i], chain)
    <2>1. items[i].id \in DOMAIN burst.bases
        BY <1>1 DEF CardsIn
    <2>2. /\ EditOf(items[i].version) = EditOf(burst.bases[items[i].id])
          /\ Newest(items[i].version).move = burst.move /\ Newest(items[i].version).at = "push"
        BY <2>1, <1>1, BuiltKeeps
    <2>3. items[i].id \in Ids /\ items[i].version \in Seq(Bodies(N)) /\ items[i].version # Gone
        BY <1>1, BatchParts DEF Versions
    <2>4. Newest(items[i].version) \in Bodies(N)
        BY <2>3, NewestIn
    <2>5. Newest(items[i].version) = [edit |-> EditOf(items[i].version), move |-> burst.move, at |-> "push"]
        BY <2>2, <2>4 DEF Bodies, EditOf
    <2>6. ASSUME chain[items[i].id] # Gone
          PROVE  BurstLike(items[i], chain)
        <3>1. EditOf(burst.bases[items[i].id]) = EditOf(chain[items[i].id])
            BY <2>1, <2>6 DEF BasesKeep
        <3>2. burst.move \notin MovesIn(chain[items[i].id])
            BY <2>3, <2>6, Recorded1
        <3> QED
            BY <2>2, <3>1, <3>2 DEF BurstLike
    <2> QED
        BY <2>3, <2>5, <2>6
<1> QED
    BY <1>1, <1>2 DEF items

\* An edit goes after the batch of the burst that was pending, if there was one.
LEMMA EditTask ==
    ASSUME MovesInv, Calm, Quiet, NEW M, NEW before \in Seq(Batches(M)), Len(before) <= 1,
           \A p \in DOMAIN before : Separate(before[p]),
           NEW y, y.id \in Ids, EditOf(y.version) = edits + 1,
           \A p \in DOMAIN before : \A i \in DOMAIN before[p] :
               /\ chain[before[p][i].id] # Gone => BurstLike(before[p][i], chain)
               /\ before[p][i].id = y.id => Newest(Parent(y.version)) # Newest(before[p][i].version),
           NEW seen, seen[y.id] # Gone, EditOf(seen[y.id]) = edits + 1,
           \A c \in Ids \ {y.id} : seen[c] = cards[c]
    PROVE  TaskCalm(NextTask(before \o <<<<y>>>>), seen, chain, edits + 1)
<1> DEFINE todo == before \o <<<<y>>>>
           next == NextTask(todo)
           k    == Len(before)
           n    == edits + 1
           B    == Batches(M)
<1>1. k \in Nat /\ DOMAIN before = 1 .. k
    <2>1. before \in Seq(B)
        OBVIOUS
    <2> HIDE DEF B
    <2> QED
        BY <2>1
<1>2. Len(todo) = k + 1 /\ todo[k + 1] = <<y>> /\ \A p \in 1 .. k : todo[p] = before[p]
    <2>1. before \in Seq(B \cup {<<y>>}) /\ <<<<y>>>> \in Seq(B \cup {<<y>>})
        <3>1. before \in Seq(B) /\ B \subseteq B \cup {<<y>>}
            OBVIOUS
        <3> HIDE DEF B
        <3> QED
            BY <3>1, SeqGrows, SeqOne
    <2> HIDE DEF B
    <2>2. /\ Len(todo) = Len(before) + Len(<<<<y>>>>)
          /\ \A p \in 1 .. Len(before) : todo[p] = before[p]
          /\ \A p \in 1 .. Len(<<<<y>>>>) : todo[Len(before) + p] = <<<<y>>>>[p]
        BY <2>1, Joined
    <2>3. Len(<<<<y>>>>) = 1 /\ <<<<y>>>>[1] = <<y>> /\ 1 \in 1 .. 1
        OBVIOUS
    <2> QED
        BY <2>2, <2>3
<1>3. /\ next.todo = todo /\ From(next) = 1 /\ \A id : ~Corrected(next, id)
      /\ next # IdlePush => Answers(next, chain)
    BY NextIs
<1>4. /\ k = 0 \/ k = 1
      /\ \A p \in 1 .. k + 1 : p \in 1 .. k \/ p = k + 1
      /\ \A p, q \in 1 .. k + 1 : p < q => p = 1 /\ q = k + 1 /\ p \in 1 .. k
      /\ 1 <= k + 1
    BY <1>1
<1>5. n \in Nat /\ \A id \in Ids : n \notin EditsIn(chain[id])
    <2>1. edits \in Nat
        BY DEF MovesInv
    <2>2. \A id \in Ids : \A j \in EditsIn(chain[id]) : j <= edits
        BY DEF Calm, ServerCalm
    <2>3. n \in Nat /\ ~(n <= edits)
        BY <2>1
    <2> HIDE DEF n
    <2> QED
        BY <2>2, <2>3
<1>6. DOMAIN <<y>> = {1} /\ <<y>>[1] = y /\ Len(<<y>>) = 1 /\ Separate(<<y>>)
    BY DEF Separate
<1>7. /\ \A id \in Ids : chain[id] # Gone => cards[id] # Gone /\ EditOf(cards[id]) = EditOf(chain[id])
    BY AtRest
<1> HIDE DEF todo, next, k, n
<1>8. Final(todo, k + 1) /\ EditLike(y, chain, n) /\ LastItem(todo) = y
    <2>1. y.id \in Ids /\ EditOf(y.version) = n
        BY DEF n
    <2> QED
        BY <2>1, <1>2, <1>5, <1>6 DEF Final, EditLike, LastItem
<1>9. Orderly(todo, 1, chain, n)
    <2>1. ASSUME NEW p \in 1 .. Len(todo)
          PROVE  Separate(todo[p])
        <3>1. CASE p \in 1 .. k
            BY <3>1, <1>1, <1>2
        <3>2. CASE p = k + 1
            BY <3>2, <1>2, <1>6
        <3> QED
            BY <3>1, <3>2, <1>2, <1>4
    <2>2. ASSUME NEW p \in 1 .. Len(todo), NEW i \in DOMAIN todo[p], chain[todo[p][i].id] # Gone
          PROVE  BurstLike(todo[p][i], chain) \/ (Final(todo, p) /\ EditLike(todo[p][i], chain, n))
        <3>1. CASE p \in 1 .. k
            <4>1. todo[p] = before[p] /\ p \in DOMAIN before
                BY <3>1, <1>1, <1>2
            <4> QED
                BY <4>1, <2>2
        <3>2. CASE p = k + 1
            BY <3>2, <1>2, <1>6, <1>8
        <3> QED
            BY <3>1, <3>2, <1>2, <1>4
    <2>3. ASSUME NEW p \in 1 .. Len(todo), NEW q \in 1 .. Len(todo),
                 NEW i \in DOMAIN todo[p], NEW j \in DOMAIN todo[q],
                 p < q, todo[p][i].id = todo[q][j].id
          PROVE  /\ Final(todo, q) /\ (chain[todo[q][j].id] # Gone => EditLike(todo[q][j], chain, n))
                 /\ Newest(Parent(todo[q][j].version)) # Newest(todo[p][i].version)
        <3>1. q = k + 1 /\ p \in 1 .. k
            BY <2>3, <1>2, <1>4
        <3>2. todo[q] = <<y>> /\ todo[q][j] = y /\ todo[p] = before[p] /\ p \in DOMAIN before
            BY <3>1, <1>1, <1>2, <1>6
        <3>3. Newest(Parent(y.version)) # Newest(before[p][i].version)
            BY <3>2, <2>3
        <3> QED
            BY <3>1, <3>2, <3>3, <1>8
    <2> QED
        BY <2>1, <2>2, <2>3 DEF Orderly
<1>10. Shown(next, 1, seen, chain, n)
    <2> SUFFICES ASSUME NEW id \in Ids, chain[id] # Gone
                 PROVE  /\ seen[id] # Gone
                        /\ IF EditLeft(todo, 1, id, chain, n)
                           THEN \/ EditOf(seen[id]) = n /\ ~Corrected(next, id)
                                \/ Parent(LastItem(todo).version) # chain[id]
                           ELSE EditOf(seen[id]) = EditOf(chain[id]) \/ Corrected(next, id)
        BY <1>3 DEF Shown
    <2>1. CASE id = y.id
        <3>1. EditLeft(todo, 1, id, chain, n)
            BY <2>1, <1>2, <1>4, <1>8 DEF EditLeft
        <3> QED
            BY <3>1, <2>1, <1>3 DEF n
    <2>2. CASE id # y.id
        <3>1. ~EditLeft(todo, 1, id, chain, n)
            BY <2>2, <1>8 DEF EditLeft
        <3>2. seen[id] = cards[id]
            BY <2>2
        <3> QED
            BY <3>1, <3>2, <1>7
    <2> QED
        BY <2>1, <2>2
<1>11. TaskCalm(next, seen, chain, n)
    BY <1>3, <1>9, <1>10 DEF TaskCalm
<1> QED
    BY <1>11 DEF next, todo, n

\* What the versions of a burst that is flushed bring.
LEMMA Flushed ==
    ASSUME MovesInv, Numbered, Calm, Burst
    PROVE  LET items == build_versions(pending_priority, "push")
               M     == flushed \cup {pending_priority.move} IN
           /\ items \in Batches(M) /\ Separate(items)
           /\ \A i \in DOMAIN items :
                /\ items[i].id \in Ids /\ Newest(items[i].version) = [edit |-> EditOf(items[i].version),
                                                                      move |-> pending_priority.move, at |-> "push"]
                /\ chain[items[i].id] # Gone => BurstLike(items[i], chain)
<1>1. pending_priority \in Bursts(flushed)
    BY DEF Burst, MovesInv
<1>2. pending_priority.move \notin flushed /\ BasesKeep(pending_priority, chain)
    BY DEF Numbered, Calm
<1> QED
    BY <1>1, <1>2, BurstBatch

LEMMA NoneKept ==
    /\ \A ch : BasesKeep(NoBurst, ch)
    /\ ~(NoBurst # NoBurst)
<1>1. DOMAIN NoBurst.bases = {}
    BY DEF NoBurst
<1> QED
    BY <1>1 DEF BasesKeep

LEMMA FlushCalm ==
    ASSUME MovesInv, Numbered, Calm, Overlap = FALSE, flush \/ flush_blocking
    PROVE  Calm' /\ UNCHANGED chain
<1> DEFINE items == build_versions(pending_priority, "push")
           M     == flushed \cup {pending_priority.move}
           next  == NextTask(<<items>>)
<1>1. /\ Burst /\ Quiet /\ TakeBurst
      /\ UNCHANGED <<chain, deleted, cards, client, flushing, edits>>
    BY DEF flush, flush_blocking, Steady, serverVars, tallies
<1>2. Spawn(<<items>>, offline_queue) \/ Spawn(<<items>>, Queue(offline_queue, items))
    BY <1>1 DEF flush, flush_blocking, Taken
<1>3. /\ push' = [push EXCEPT ![1] = next]
      /\ offline_queue' = offline_queue \/ offline_queue' = Queue(offline_queue, items)
    BY <1>1, <1>2, SpawnedOne
<1>4. /\ items \in Batches(M) /\ Separate(items)
      /\ \A i \in DOMAIN items : chain[items[i].id] # Gone => BurstLike(items[i], chain)
    BY <1>1, Flushed
<1> HIDE DEF items, M
<1>5. \A id \in Ids : chain[id] # Gone => EditOf(chain[id]) \in EditsIn(chain[id])
    BY Recorded1
<1>6. /\ \A id \in Ids : chain[id] # Gone => cards[id] # Gone /\ EditOf(cards[id]) = EditOf(chain[id])
      /\ \A c \in EntriesOf(offline_queue) : chain[c.id] = Gone
    BY <1>1, AtRest
<1>7. TaskCalm(next, cards, chain, edits) /\ next.todo = <<items>>
    BY <1>4, <1>5, <1>6, OneBatch
<1> HIDE DEF next
<1>8. Covered(offline_queue', next.todo, chain)
    <2>1. EntriesOf(offline_queue') \subseteq EntriesOf(offline_queue) \cup EntriesOf(items)
        <3> DEFINE S == Items(M)
        <3>1. offline_queue \in Seq(Items(flushed)) /\ Seq(Items(flushed)) \subseteq Seq(S)
            BY MoreMoves DEF MovesInv, M
        <3>2. items \in Seq(S)
            BY <1>4, BatchParts
        <3> HIDE DEF S
        <3>3. EntriesOf(Queue(offline_queue, items)) \subseteq EntriesOf(offline_queue) \cup EntriesOf(items)
            BY <3>1, <3>2, QueueIs
        <3> QED
            BY <3>3, <1>3
    <2>2. \A c \in EntriesOf(items) : c.id \in CardsIn(items)
        BY DEF EntriesOf, CardsIn
    <2>3. 1 \in DOMAIN <<items>> /\ <<items>>[1] = items
        OBVIOUS
    <2> QED
        BY <2>1, <2>2, <2>3, <1>6, <1>7 DEF Covered
<1>9. pending_priority' = NoBurst
    BY <1>1 DEF TakeBurst
<1>10. ~Burst' /\ BasesKeep(pending_priority', chain')
    BY <1>9, NoneKept DEF Burst
<1>11. ServerCalm(chain, edits)'
    BY <1>1 DEF Calm, ServerCalm
<1>12. Calm'
    BY <1>1, <1>3, <1>7, <1>8, <1>10, <1>11, Started
<1> QED
    BY <1>1, <1>12

LEMMA NoneBefore ==
    /\ << >> \o << >> = << >>
    /\ \A x : << >> \o <<x>> = <<x>> /\ <<x>> \o << >> = <<x>>
OBVIOUS

\* A move shows the contents the cards had, and pushes at most one batch.
LEMMA MovedCalm ==
    ASSUME MovesInv, Numbered, Calm, Overlap = FALSE,
           NEW id \in Ids, NEW shifted \in SUBSET Ids, Move(id, shifted)
    PROVE  Calm' /\ UNCHANGED chain
<1> DEFINE burst == BurstOf(id, shifted)
           shown == build_versions(burst, "list")
           todo  == Other(id) \o Now(burst)
           next  == NextTask(todo)
           F     == Ended(id)
<1>1. /\ cards' = Put(cards, shown)
      /\ pending_priority' = IF priority_debounce_enabled THEN burst ELSE NoBurst
      /\ Spawn(todo, offline_queue)
      /\ cards[id] # Gone /\ \A s \in shifted : cards[s] # Gone
      /\ UNCHANGED <<chain, deleted, client, flushing, edits>> /\ Quiet
    BY EnqueueIs DEF Move, Steady, serverVars
<1>2. push' = [push EXCEPT ![1] = next] /\ offline_queue' = offline_queue
    BY <1>1, SpawnedOne
<1>3. /\ burst \in Bursts(F) /\ burst.move = moves + 1
      /\ \A c \in DOMAIN burst.bases : burst.bases[c] = cards[c]
             \/ (c \in DOMAIN pending_priority.bases /\ burst.bases[c] = pending_priority.bases[c])
    BY <1>1, NewBurst
<1>4. /\ \A c \in Ids : chain[c] # Gone => cards[c] # Gone /\ EditOf(cards[c]) = EditOf(chain[c])
      /\ \A c \in EntriesOf(offline_queue) : chain[c.id] = Gone
    BY <1>1, AtRest
<1>5. /\ BasesKeep(pending_priority, chain) /\ ServerCalm(chain, edits)
      /\ \A c \in Ids : chain[c] # Gone => EditOf(chain[c]) \in EditsIn(chain[c])
      /\ DOMAIN cards = Ids
    BY Recorded1 DEF Calm, MovesInv
<1> HIDE DEF burst, F
<1>6. DOMAIN burst.bases \subseteq Ids
    BY <1>3 DEF Bursts
<1>7. BasesKeep(burst, chain)
    BY <1>3, <1>4, <1>5, <1>6 DEF BasesKeep
<1>8. \A c \in Ids : chain[c] # Gone => cards'[c] # Gone /\ EditOf(cards'[c]) = EditOf(chain[c])
    <2> SUFFICES ASSUME NEW c \in Ids, chain[c] # Gone
                 PROVE  cards'[c] # Gone /\ EditOf(cards'[c]) = EditOf(chain[c])
        OBVIOUS
    <2>1. /\ CardsIn(shown) = DOMAIN burst.bases
          /\ \A i \in DOMAIN shown : shown[i].version = BuiltOn(burst, shown[i].id, "list")
        BY <1>3, BuildVersions
    <2> HIDE DEF shown
    <2>2. CASE c \in DOMAIN burst.bases
        <3>1. cards'[c] = BuiltOn(burst, c, "list")
            BY <2>1, <2>2, <1>1, <1>5, PutIs
        <3>2. EditOf(cards'[c]) = EditOf(burst.bases[c]) /\ cards'[c] # Gone
            BY <3>1, <2>2, <1>3, BuiltKeeps
        <3> QED
            BY <3>2, <2>2, <1>7 DEF BasesKeep
    <2>3. CASE c \notin DOMAIN burst.bases
        <3>1. cards'[c] = cards[c]
            BY <2>1, <2>3, <1>1, <1>5, PutIs
        <3> QED
            BY <3>1, <1>4
    <2> QED
        BY <2>2, <2>3
<1>9. /\ TaskCalm(next, cards', chain, edits)
      /\ \A c \in Ids : chain[c] # Gone => ~EditLeft(next.todo, From(next), c, chain, edits)
    <2>1. CASE todo = << >>
        <3>1. next = IdlePush
            BY <2>1 DEF NextTask
        <3> HIDE DEF next
        <3> QED
            BY <3>1, <1>8, IdleCalm
    <2>2. ASSUME NEW M, NEW items \in Batches(M), todo = <<items>>, Separate(items),
                 \A i \in DOMAIN items : chain[items[i].id] # Gone => BurstLike(items[i], chain)
          PROVE  /\ TaskCalm(next, cards', chain, edits)
                 /\ \A c \in Ids : chain[c] # Gone => ~EditLeft(next.todo, From(next), c, chain, edits)
        <3> DEFINE one == NextTask(<<items>>)
        <3>1. /\ TaskCalm(one, cards', chain, edits) /\ one.todo = <<items>> /\ From(one) = 1
              /\ \A c \in Ids : chain[c] # Gone => ~EditLeft(<<items>>, 1, c, chain, edits)
            BY <2>2, <1>5, <1>8, OneBatch
        <3>2. next = one
            BY <2>2
        <3> HIDE DEF one, next, todo
        <3> QED
            BY <3>1, <3>2
    <2>3. CASE priority_debounce_enabled /\ Other(id) = << >>
        <3>1. todo = << >>
            BY <2>3, NoneBefore DEF Now
        <3> QED
            BY <3>1, <2>1
    <2>4. CASE priority_debounce_enabled /\ Other(id) # << >>
        <3> DEFINE items == build_versions(pending_priority, "push")
                   M     == flushed \cup {pending_priority.move}
        <3>1. Burst /\ Other(id) = <<items>>
            BY <2>4 DEF Other, Taken
        <3>2. /\ items \in Batches(M) /\ Separate(items)
              /\ \A i \in DOMAIN items : chain[items[i].id] # Gone => BurstLike(items[i], chain)
            BY <3>1, Flushed
        <3> HIDE DEF items, M
        <3>3. todo = <<items>>
            BY <3>1, <2>4, NoneBefore DEF Now
        <3> QED
            BY <3>2, <3>3, <2>2
    <2>5. CASE ~priority_debounce_enabled
        <3> DEFINE items == build_versions(burst, "push")
                   M     == flushed \cup {burst.move}
        <3>1. ~Burst /\ flushed \subseteq 0 .. moves /\ moves \in Nat
            BY <2>5 DEF Numbered, MovesInv
        <3>2. Other(id) = << >> /\ F = flushed
            BY <3>1 DEF Other, Taken, Ended, F
        <3>3. burst.move \notin flushed
            BY <3>1, <1>3
        <3>4. burst \in Bursts(flushed)
            BY <3>2, <1>3
        <3>5. /\ items \in Batches(M) /\ Separate(items)
              /\ \A i \in DOMAIN items : chain[items[i].id] # Gone => BurstLike(items[i], chain)
            BY <3>3, <3>4, <1>7, BurstBatch
        <3>6. Now(burst) = <<items>>
            BY <2>5 DEF Now
        <3> HIDE DEF items, M
        <3>7. todo = <<items>>
            BY <3>2, <3>6, NoneBefore
        <3> QED
            BY <3>5, <3>7, <2>2
    <2> QED
        BY <2>3, <2>4, <2>5
<1> HIDE DEF next
<1>10. Covered(offline_queue', next.todo, chain)
    BY <1>2, <1>4 DEF Covered
<1>11. BasesKeep(pending_priority', chain')
    BY <1>1, <1>7, NoneKept
<1>12. ServerCalm(chain, edits)'
    BY <1>1, <1>5 DEF ServerCalm
<1>13. Calm'
    BY <1>1, <1>2, <1>9, <1>10, <1>11, <1>12, Started
<1> QED
    BY <1>1, <1>13

LEMMA EditNumbers ==
    ASSUME MovesInv
    PROVE  \A id \in Ids : EditsIn(chain[id]) \subseteq Nat
<1> SUFFICES ASSUME NEW id \in Ids PROVE EditsIn(chain[id]) \subseteq Nat
    OBVIOUS
<1>1. chain[id] \in Seq(Bodies(flushed))
    BY DEF MovesInv, Versions
<1>2. \A i \in DOMAIN chain[id] : chain[id][i] \in Bodies(flushed)
    BY <1>1
<1>3. \A b \in Bodies(flushed) : b.edit \in Nat
    BY DEF Bodies
<1> QED
    BY <1>2, <1>3 DEF EditsIn

\* The edit of a card shows what is pushed for it after the burst.
LEMMA EditedCalm ==
    ASSUME MovesInv, Numbered, Calm, Overlap = FALSE, NEW id \in Ids, Edit(id)
    PROVE  Calm' /\ UNCHANGED chain
<1> DEFINE N    == flushed \cup {pending_priority.move}
           e    == [Newest(cards[id]) EXCEPT !.edit = edits + 1, !.at = "push"]
           y    == Item(id, Append(cards[id], e))
           todo == Taken \o <<<<y>>>>
           next == NextTask(todo)
<1>1. /\ cards[id] # Gone /\ cards' = Put(cards, <<y>>) /\ Spawn(todo, offline_queue)
      /\ edits' = edits + 1 /\ Quiet /\ TakeBurst
      /\ UNCHANGED <<chain, deleted, client, flushing>>
    BY DEF Edit, EditItems, Steady, serverVars
<1>2. push' = [push EXCEPT ![1] = next] /\ offline_queue' = offline_queue
    BY <1>1, SpawnedOne
<1>3. /\ Taken \in Seq(Batches(N)) /\ cards[id] \in Seq(Bodies(N)) /\ (~Burst => Taken = << >>)
      /\ DOMAIN cards = Ids
    BY TakenIs DEF Versions, MovesInv
<1>4. y.id = id /\ Parent(y.version) = cards[id] /\ y.version # Gone /\ EditOf(y.version) = edits + 1
    <2>1. Newest(cards[id]) \in Bodies(N)
        BY <1>1, <1>3, NewestIn
    <2>2. e.edit = edits + 1
        BY <2>1 DEF Bodies
    <2>3. cards[id] \in Seq(Bodies(N) \cup {e}) /\ e \in Bodies(N) \cup {e}
        BY <1>3, SeqGrows
    <2>4. y.id = id /\ y.version = Append(cards[id], e)
        BY DEF Item
    <2> HIDE DEF e, y
    <2>5. /\ Append(cards[id], e) # Gone /\ Newest(Append(cards[id], e)) = e
          /\ Parent(Append(cards[id], e)) = cards[id]
        BY <2>3, Grown
    <2> QED
        BY <2>2, <2>4, <2>5 DEF EditOf
<1> HIDE DEF y, e, N
<1>5. cards'[id] = y.version /\ \A c \in Ids \ {id} : cards'[c] = cards[c]
    <2>1. CardsIn(<<y>>) = {id} /\ \A i \in DOMAIN <<y>> : <<y>>[i] = y
        BY <1>4 DEF CardsIn
    <2> QED
        BY <2>1, <1>1, <1>3, PutIs
<1>6. /\ Len(Taken) <= 1 /\ \A p \in DOMAIN Taken : Separate(Taken[p])
      /\ \A p \in DOMAIN Taken : \A i \in DOMAIN Taken[p] :
            /\ chain[Taken[p][i].id] # Gone => BurstLike(Taken[p][i], chain)
            /\ Taken[p][i].id = id => Newest(cards[id]) # Newest(Taken[p][i].version)
    <2>1. CASE ~Burst
        BY <2>1, <1>3
    <2>2. CASE Burst
        <3> DEFINE items == build_versions(pending_priority, "push")
                   M     == flushed \cup {pending_priority.move}
        <3>1. Taken = <<items>>
            BY <2>2 DEF Taken
        <3>2. /\ items \in Batches(M) /\ Separate(items)
              /\ \A i \in DOMAIN items :
                   /\ items[i].id \in Ids /\ Newest(items[i].version) = [edit |-> EditOf(items[i].version),
                                                                         move |-> pending_priority.move, at |-> "push"]
                   /\ chain[items[i].id] # Gone => BurstLike(items[i], chain)
            BY <2>2, Flushed
        <3> HIDE DEF items, M
        <3>3. Newest(cards[id]).move = pending_priority.move => Newest(cards[id]).at = "list"
            BY <2>2, <1>1 DEF Numbered
        <3>4. ASSUME NEW i \in DOMAIN items
              PROVE  Newest(cards[id]) # Newest(items[i].version)
            <4> DEFINE b == Newest(items[i].version)
            <4>1. b = [edit |-> EditOf(items[i].version), move |-> pending_priority.move, at |-> "push"]
                BY <3>2
            <4> HIDE DEF b
            <4>2. b.move = pending_priority.move /\ b.at = "push"
                BY <4>1
            <4>3. Newest(cards[id]) # b
                BY <4>2, <3>3
            <4> QED
                BY <4>3 DEF b
        <3>5. Len(<<items>>) = 1 /\ DOMAIN <<items>> = {1} /\ <<items>>[1] = items
            OBVIOUS
        <3>6. Len(Taken) <= 1 /\ \A p \in DOMAIN Taken : Taken[p] = items
            BY <3>1, <3>5
        <3> QED
            BY <3>2, <3>4, <3>6
    <2> QED
        BY <2>1, <2>2
<1>7. TaskCalm(next, cards', chain, edits + 1)
    <2>1. y.id \in Ids /\ cards'[y.id] # Gone /\ EditOf(cards'[y.id]) = edits + 1
        BY <1>4, <1>5
    <2>2. \A c \in Ids \ {y.id} : cards'[c] = cards[c]
        BY <1>4, <1>5
    <2>3. \A p \in DOMAIN Taken : \A i \in DOMAIN Taken[p] :
              /\ chain[Taken[p][i].id] # Gone => BurstLike(Taken[p][i], chain)
              /\ Taken[p][i].id = y.id => Newest(Parent(y.version)) # Newest(Taken[p][i].version)
        BY <1>4, <1>6
    <2> QED
        BY <1>1, <1>3, <1>4, <1>6, <2>1, <2>2, <2>3, EditTask
<1> HIDE DEF next
<1>8. Covered(offline_queue', next.todo, chain)
    <2>1. \A c \in EntriesOf(offline_queue) : chain[c.id] = Gone
        BY <1>1, AtRest
    <2> QED
        BY <2>1, <1>2 DEF Covered
<1>9. pending_priority' = NoBurst
    BY <1>1 DEF TakeBurst
<1>10. ~Burst' /\ BasesKeep(pending_priority', chain')
    BY <1>9, NoneKept DEF Burst
<1>11. ServerCalm(chain, edits)'
    <2>1. edits \in Nat /\ \A k \in Nat : k <= edits => k <= edits + 1
        BY DEF MovesInv
    <2>2. \A c \in Ids : EditsIn(chain[c]) \subseteq Nat
        BY EditNumbers
    <2>3. ServerCalm(chain, edits)
        BY DEF Calm
    <2> QED
        BY <2>1, <2>2, <2>3, <1>1 DEF ServerCalm
<1>12. TaskCalm(next, cards', chain', edits')
    BY <1>1, <1>7
<1>13. Calm'
    BY <1>1, <1>2, <1>8, <1>10, <1>11, <1>12, Started
<1> QED
    BY <1>1, <1>13

LEMMA DeletedCalm ==
    ASSUME MovesInv, Calm, Overlap = FALSE, NEW id \in Ids, NEW succeeds \in BOOLEAN, Delete(id, succeeds)
    PROVE  Calm' /\ \A c \in Ids : chain'[c] = chain[c] \/ chain'[c] = Gone
<1>1. /\ Quiet /\ edits' = edits + 1 /\ discard_for(id)
      /\ \/ /\ chain' = [chain EXCEPT ![id] = Gone] /\ deleted' = deleted \cup {id}
            /\ cards' = [cards EXCEPT ![id] = Gone]
         \/ UNCHANGED <<chain, deleted, cards>>
      /\ UNCHANGED <<offline_queue, client, push, flushing>>
    BY DEF Delete, Steady, serverVars
<1>2. chain \in [Ids -> Versions(flushed)] /\ DOMAIN cards = Ids /\ push \in [Slots -> Tasks(flushed)]
    BY DEF MovesInv
<1>3. /\ push[1] = IdlePush
      /\ \A c \in Ids : chain[c] # Gone => cards[c] # Gone /\ EditOf(cards[c]) = EditOf(chain[c])
      /\ \A c \in EntriesOf(offline_queue) : chain[c.id] = Gone /\ c.id \in Ids
    BY <1>1, AtRest, QueuedCards
<1>4. /\ \A c \in Ids : chain'[c] = Gone \/ (chain'[c] = chain[c] /\ cards'[c] = cards[c])
      /\ \A c \in Ids : c \in deleted' <=> chain'[c] = Gone
    <2>1. \A c \in Ids : c \in deleted <=> chain[c] = Gone
        BY DEF Calm, ServerCalm
    <2> QED
        BY <2>1, <1>1, <1>2
<1>5. ServerCalm(chain, edits)'
    <2>1. edits \in Nat /\ \A k \in Nat : k <= edits => k <= edits + 1
        BY DEF MovesInv
    <2>2. \A c \in Ids : EditsIn(chain[c]) \subseteq Nat
        BY EditNumbers
    <2>3. ServerCalm(chain, edits)
        BY DEF Calm
    <2>4. EditsIn(Gone) = {} /\ AllApart(Gone)
        BY DEF EditsIn, AllApart, Gone
    <2>5. ASSUME NEW c \in Ids
          PROVE  (\A k \in EditsIn(chain'[c]) : k <= edits') /\ AllApart(chain'[c])
        BY <2>1, <2>2, <2>3, <2>4, <1>1, <1>4 DEF ServerCalm
    <2> QED
        BY <2>5, <1>4 DEF ServerCalm
<1>6. pending_priority' = NoBurst \/ pending_priority' = pending_priority
    BY <1>1 DEF discard_for, burstVars
<1>7. BasesKeep(pending_priority', chain')
    <2>1. BasesKeep(pending_priority, chain) /\ DOMAIN pending_priority.bases \subseteq Ids
        BY TakenIs DEF Calm
    <2>2. BasesKeep(pending_priority, chain')
        BY <2>1, <1>4 DEF BasesKeep
    <2> QED
        BY <2>2, <1>6, NoneKept
<1>8. /\ TaskCalm(IdlePush, cards', chain', edits')
      /\ From(IdlePush) = 1 /\ \A c : ~EditLeft(IdlePush.todo, 1, c, chain', edits')
    BY <1>3, <1>4, IdleCalm
<1>9. Covered(offline_queue', IdlePush.todo, chain')
    BY <1>1, <1>3, <1>4 DEF Covered
<1>10. push' = [push EXCEPT ![1] = IdlePush]
    BY <1>1, <1>2, <1>3 DEF Slots
<1>11. Calm'
    BY <1>1, <1>5, <1>7, <1>8, <1>9, <1>10, Started
<1> QED
    BY <1>4, <1>11

\* Without a lost connection, a step keeps the device calm, and what it records of a card is
\* its content or the last edit.
LEMMA StaysCalm ==
    ASSUME MovesInv, MovesInv', Numbered, Calm, Overlap = FALSE, [MovesNext]_moveVars
    PROVE  /\ Lose \/ Calm'
           /\ \A id \in Ids : chain[id] # Gone /\ chain'[id] # Gone
                                  => EditOf(chain'[id]) \in {EditOf(chain[id]), edits}
<1> USE DEF Slots
<1>1. CASE flush \/ flush_blocking
    BY <1>1, FlushCalm
<1>2. CASE \E id \in Ids, shifted \in SUBSET Ids : Move(id, shifted)
    BY <1>2, MovedCalm
<1>3. CASE \E id \in Ids : Edit(id)
    BY <1>3, EditedCalm
<1>4. CASE \E id \in Ids, succeeds \in BOOLEAN : Delete(id, succeeds)
    BY <1>4, DeletedCalm
<1>5. CASE \E t \in Slots : ServePush(t)
    <2>1. PICK t \in Slots : ServePush(t)
        BY <1>5
    <2>2. push[t].reply # "none"
        BY <2>1 DEF ServePush, Serve
    <2>3. ServePush(1)
        BY <2>1, <2>2, OnTheWay
    <2>4. CASE Verdict(push[1]).reply = "Ok"
        BY <2>3, <2>4, RecordedCalm
    <2>5. CASE Verdict(push[1]).reply # "Ok"
        BY <2>3, <2>5, RefusedCalm
    <2> QED
        BY <2>4, <2>5
<1>6. CASE \E t \in Slots : PushAnswered(t)
    <2>1. PICK t \in Slots : PushAnswered(t)
        BY <1>6
    <2>2. push[t].reply # "none"
        BY <2>1 DEF PushAnswered, Answered
    <2>3. PushAnswered(1)
        BY <2>1, <2>2, OnTheWay
    <2> QED
        BY <2>3, AnsweredCalm
<1>7. CASE ServeFlush
    BY <1>7, FlushServedCalm
<1>8. CASE FlushAnswered
    BY <1>8, FlushAnsweredCalm
<1>9. CASE IncrementalSync
    BY <1>9, SyncCalm
<1>10. ~Connect
    BY DEF Connect, Calm
<1>11. CASE Lose
    BY <1>11 DEF Lose, serverVars
<1>12. CASE UNCHANGED moveVars
    <2>1. UNCHANGED <<chain, deleted, edits, pending_priority, push, client, cards, offline_queue, flushing>>
        BY <1>12 DEF moveVars, serverVars, burstVars, tallies
    <2>2. /\ TaskCalm(push[1], cards, chain, edits) /\ Covered(offline_queue, push[1].todo, chain)
          /\ DeadEnds(flushing, chain) /\ (flushing # IdlePush => push[1] = IdlePush)
        BY DEF Calm
    <2>3. Calm'
        BY <2>1, <2>2, SameTask
    <2> QED
        BY <2>1, <2>3
<1> QED
    BY <1>1, <1>2, <1>3, <1>4, <1>5, <1>6, <1>7, <1>8, <1>9, <1>10, <1>11, <1>12 DEF MovesNext

LEMMA LossesGrow ==
    ASSUME [MovesNext]_moveVars
    PROVE  losses' = losses \/ (Lose /\ losses' = losses + 1)
BY DEF MovesNext, flush, flush_blocking, Move, Edit, Delete, ServePush, ServeFlush, Serve, PushAnswered,
       FlushAnswered, IncrementalSync, Connect, Sync, Lose, moveVars, tallies

LEMMA StartsCalm ==
    ASSUME MovesInit
    PROVE  Numbered /\ Calm
<1> DEFINE e == [edit |-> 0, move |-> 0, at |-> "push"]
<1>1. /\ chain = [id \in Ids |-> <<e>>] /\ deleted = {} /\ cards = chain /\ offline_queue = << >>
      /\ pending_priority = NoBurst /\ client = "live" /\ push = [t \in Slots |-> IdlePush] /\ flushing = IdlePush
      /\ moves = 0 /\ edits = 0 /\ flushed = {0}
    BY DEF MovesInit
<1>2. ~Burst /\ NoBurst.move = 0
    BY <1>1 DEF Burst, NoBurst
<1>3. Numbered
    BY <1>1, <1>2 DEF Numbered
<1>4. DOMAIN <<e>> = {1} /\ <<e>>[1] = e /\ <<e>> # Gone /\ e.edit = 0
    BY DEF Gone
<1> HIDE DEF e
<1>5. EditsIn(<<e>>) = {0} /\ AllApart(<<e>>)
    BY <1>4 DEF EditsIn, AllApart
<1>6. ServerCalm(chain, edits)
    BY <1>1, <1>4, <1>5 DEF ServerCalm
<1>7. BasesKeep(pending_priority, chain)
    BY <1>1, NoneKept
<1>8. push[1] = IdlePush /\ push[2] = IdlePush
    BY <1>1 DEF Slots
<1>9. Covered(offline_queue, push[1].todo, chain)
    BY <1>1 DEF Covered, EntriesOf
<1>10. DeadEnds(flushing, chain)
    BY <1>1 DEF DeadEnds, IdlePush
<1>11. TaskCalm(push[1], cards, chain, edits)
    BY <1>1, <1>8, IdleCalm
<1> QED
    BY <1>1, <1>2, <1>3, <1>6, <1>7, <1>8, <1>9, <1>10, <1>11 DEF Calm

\* Of one device whose user waits for pushes.
MovesIInv == MovesInv /\ Numbered /\ (losses = 0 => Calm)

LEMMA MovesKept ==
    ASSUME Overlap = FALSE
    PROVE  MovesSpec => []MovesIInv
<1>1. MovesInit => MovesIInv
    BY MovesStart, StartsCalm DEF MovesIInv
<1>2. ASSUME MovesIInv, [MovesNext]_moveVars
      PROVE  MovesIInv'
    <2>1. MovesInv' /\ Numbered'
        BY <1>2, MovesTyped, MovesNumbered DEF MovesIInv
    <2>2. ASSUME losses' = 0
          PROVE  Calm'
        <3>1. losses = 0 /\ ~(losses' = losses + 1)
            BY <1>2, <2>2, LossesGrow DEF MovesIInv, MovesInv
        <3>2. ~Lose
            BY <3>1 DEF Lose
        <3> QED
            BY <1>2, <2>1, <3>1, <3>2, StaysCalm DEF MovesIInv
    <2> QED
        BY <2>1, <2>2 DEF MovesIInv
<1> QED
    BY <1>1, <1>2, PTL DEF MovesSpec

\* BurstsCoalesced of a device whose user waits for a push before the next step: what the
\* server holds of a card are moves whose burst has ended, and, while no answer was lost, no
\* version twice.  This is the outcome of push_burst, of the batch and of its cards one by
\* one, and of the retry on top of what the server has.
THEOREM BurstsAreCoalesced ==
    ASSUME Overlap = FALSE
    PROVE  MovesSpec => []BurstsCoalesced
<1>1. ASSUME MovesIInv
      PROVE  BurstsCoalesced
    <2>1. \A id \in Ids : \A i \in DOMAIN chain[id] : chain[id][i] \in Bodies(flushed)
        BY <1>1 DEF MovesIInv, MovesInv, Versions
    <2>2. \A b \in Bodies(flushed) : b.move \in flushed /\ [b EXCEPT !.at = "push"].edit = b.edit
                                                        /\ [b EXCEPT !.at = "push"].move = b.move
        BY DEF Bodies
    <2>3. losses = 0 => \A id \in Ids : AllApart(chain[id])
        BY <1>1 DEF MovesIInv, Calm, ServerCalm
    <2>4. ASSUME NEW id \in Ids, losses = 0, NEW i \in DOMAIN chain[id], NEW j \in DOMAIN chain[id], i # j
          PROVE  [chain[id][i] EXCEPT !.at = "push"] # [chain[id][j] EXCEPT !.at = "push"]
        <3>1. chain[id][i].edit # chain[id][j].edit \/ chain[id][i].move # chain[id][j].move
            BY <2>3, <2>4 DEF AllApart
        <3>2. /\ [chain[id][i] EXCEPT !.at = "push"].edit = chain[id][i].edit
              /\ [chain[id][j] EXCEPT !.at = "push"].edit = chain[id][j].edit
              /\ [chain[id][i] EXCEPT !.at = "push"].move = chain[id][i].move
              /\ [chain[id][j] EXCEPT !.at = "push"].move = chain[id][j].move
            BY <2>1, <2>2, <2>4
        <3> QED
            BY <3>1, <3>2
    <2> QED
        BY <2>1, <2>2, <2>4 DEF BurstsCoalesced
<1> QED
    BY <1>1, MovesKept, PTL

\* EditSurvivesBurst of such a device: while no answer is lost, nothing that is pushed puts the
\* content of a card back to what it was before an edit the server has.  flush_now pushes the
\* burst that was pending first; the edit, which was not built on it, is recorded on top of it.
THEOREM EditsSurviveBursts ==
    ASSUME Overlap = FALSE
    PROVE  MovesSpec => EditSurvivesBurst
<1> DEFINE Keeps == \A id \in Ids : losses = 0 /\ chain[id] # Gone /\ chain'[id] # Gone
                                       => Newest(chain'[id]).edit >= Newest(chain[id]).edit
<1>1. ASSUME MovesIInv, MovesIInv', [MovesNext]_moveVars
      PROVE  Keeps
    <2> SUFFICES ASSUME NEW id \in Ids, losses = 0, chain[id] # Gone, chain'[id] # Gone
                 PROVE  EditOf(chain'[id]) >= EditOf(chain[id])
        BY DEF EditOf
    <2>1. MovesInv /\ MovesInv' /\ Numbered /\ Calm
        BY <1>1 DEF MovesIInv
    <2>2. EditOf(chain'[id]) \in {EditOf(chain[id]), edits}
        BY <1>1, <2>1, StaysCalm
    <2>3. EditOf(chain[id]) \in EditsIn(chain[id]) /\ EditsIn(chain[id]) \subseteq Nat
        BY <2>1, Recorded1, EditNumbers
    <2>4. EditOf(chain[id]) <= edits /\ edits \in Nat
        BY <2>1, <2>3 DEF Calm, ServerCalm, MovesInv
    <2> DEFINE k == EditOf(chain[id])
               l == EditOf(chain'[id])
    <2>5. k \in Nat /\ k <= edits /\ edits \in Nat /\ (l = k \/ l = edits)
        BY <2>2, <2>3, <2>4
    <2> HIDE DEF k, l
    <2>6. l >= k
        BY <2>5
    <2> QED
        BY <2>6 DEF k, l
<1>2. MovesIInv /\ MovesIInv' /\ [MovesNext]_moveVars => [Keeps]_moveVars
    BY <1>1
<1> QED
    BY <1>2, MovesKept, PTL DEF MovesSpec, EditSurvivesBurst
=============================================================================
