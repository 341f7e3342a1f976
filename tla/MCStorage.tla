----------------------------- MODULE MCStorage ------------------------------
(***************************************************************************)
(* Small instances of Storage.  The chains are what honest clients build   *)
(* with Card::first / Card::next and Tag::first / Tag::next, from any base *)
(* of fewer than MaxCount versions: current, stale, or never accepted by   *)
(* the server.  A few chains are broken in transit.                        *)
(***************************************************************************)
EXTENDS Storage, FiniteSets, TLC

CONSTANTS c1, c2, t1, t2,
          MaxCardCount, MaxTagCount,  \* bound on the versions of an entity
          CardTagSets                 \* tag sets a card may carry

CardData == [id: CardIds, count: {0}, content: Contents,
             priority: Priorities, tags: CardTagSets]
\* With two tags, a tag that implied both would imply itself.
TagData  == [id: TagIds, count: {0}, implies: {S \in SUBSET TagIds : Cardinality(S) <= 1}]

Successors(versions, data) ==
    UNION {{NextVersion(v, b) : b \in {x \in data : x.id = v.body.id}} : v \in versions}

CardsAt[n \in 1 .. MaxCardCount] ==
    IF n = 1 THEN {First(b) : b \in CardData} ELSE Successors(CardsAt[n - 1], CardData)
TagsAt[n \in 1 .. MaxTagCount] ==
    IF n = 1 THEN {First(b) : b \in TagData} ELSE Successors(TagsAt[n - 1], TagData)

AllCards == UNION {CardsAt[n] : n \in 1 .. MaxCardCount}
AllTags  == UNION {TagsAt[n] : n \in 1 .. MaxTagCount}

\* One version, two linked versions, a repeated version, a damaged hash,
\* and the empty chain.
ChainsOver(versions) ==
    {<<v>> : v \in versions}
    \cup UNION {{<<v, w>> : w \in {x \in versions : x.ancestor = v.hash}} : v \in versions}
    \cup {<<v, v>> : v \in {x \in versions : x.body.count = 1}}
    \cup {<<[v EXCEPT !.hash = ZERO_HASH]>> : v \in {x \in versions : x.body.count = 1}}
    \cup {<< >>}

MCCardChains == ChainsOver(AllCards)
MCTagChains  == ChainsOver(AllTags)

\* One bucket holds a card and a tag, the other the rest.
MCBucketOf == [id \in CardIds \cup TagIds |-> IF id \in {c1, t1} THEN 1 ELSE 2]

\* All ids in one bucket: tags can then be permuted.
OneBucket == [id \in CardIds \cup TagIds |-> 1]
TagSymmetry == Permutations(TagIds)

NoTagSet    == {{}}
AllTagSets  == SUBSET TagIds
=============================================================================
